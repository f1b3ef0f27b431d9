-------------------------------- MODULE Logs --------------------------------
(***************************************************************************)
(* The log files of one process: the two capture tasks that write them     *)
(* (src/src/daemon/log_writer.rs), their sidecar index                     *)
(* (src/src/daemon/log_index.rs), rotation while writing and at a respawn  *)
(* (respawn and spawn_incarnation of src/src/daemon/process_manager.rs),   *)
(* and a daemon that may be killed with part of an index unflushed.        *)
(*                                                                         *)
(* A line is its length and where and when it was written, and as history  *)
(* the number its record got; a file is the sequence of its lines, an      *)
(* index file the sequence of its records.                                 *)
(* log[s][0] is the current file of a stream, log[s][i] its rotated file   *)
(* number i.  A writer's index handle follows its file through renames.    *)
(***************************************************************************)
EXTENDS Integers, Sequences

CONSTANTS
    MaxBytes,       \* DEFAULT_MAX_LOG_BYTES
    MaxRotated,     \* DEFAULT_MAX_ROTATED_FILES
    FlushEvery,     \* lines between two flushes of the index: 64
    Lens,           \* lengths of lines, the newline included
    Failing,        \* which files a rotation may fail to create again
    MaxLines,       \* bound on lines captured
    MaxIncs,        \* bound on incarnations
    Missing         \* no file

ASSUME SizesAssumption ==
    /\ MaxBytes \in Nat \ {0} /\ MaxRotated \in Nat \ {0} /\ FlushEvery \in Nat \ {0}
    /\ Lens \subseteq Nat \ {0}
ASSUME BoundsAssumption ==
    MaxLines \in Nat /\ MaxIncs \in Nat /\ Failing \subseteq {"log", "idx"}

VARIABLES
    log,        \* log files by stream and number
    idx,        \* the flushed part of their index files
    writer,     \* LogWriteState of each stream's capture task
    seq,        \* the sequence counter the incarnation's streams share
    known,      \* the daemon has a record of the process
    incs,       \* incarnations so far
    clock       \* history: lines written so far

vars == <<log, idx, writer, seq, known, incs, clock>>

Streams == {"stdout", "stderr"}
Numbers == 0..MaxRotated
Lines == [at : Nat, inc : Nat, off : Nat, seq : Nat, len : Lens]
IndexRecords == [off : Nat, seq : Nat]
ASSUME MissingAssumption == Missing \notin Seq(Lines) /\ Missing \notin Seq(IndexRecords)
NoWriter == [live |-> FALSE, file |-> FALSE, number |-> 0, buf |-> <<>>,
             bytes |-> 0, since |-> 0]
Fresh == [NoWriter EXCEPT !.live = TRUE, !.file = TRUE]

-----------------------------------------------------------------------------
(* Files                                                                   *)

Size(file) == IF file = <<>> THEN 0 ELSE file[Len(file)].off + file[Len(file)].len

(* rotate_log_files, for the logs or for their index files: each existing  *)
(* file is renamed to the next number, highest first, and the last number  *)
(* keeps its file when there is none to replace it.                        *)
Cascade_NotCurrent(files) ==
    [i \in Numbers |->
       IF i <= 1 THEN Missing
       ELSE IF files[i - 1] # Missing THEN files[i - 1]
       ELSE IF i = MaxRotated THEN files[i] ELSE Missing]
Cascade(files) ==
    [i \in Numbers |->
       IF i = 0 THEN Missing
       ELSE IF files[i - 1] # Missing THEN files[i - 1]
       ELSE IF i = MaxRotated THEN files[i] ELSE Missing]

(* Where the file at a number is after that; MaxRotated + 1 is unlinked.   *)
Moved(n, files) ==
    IF n < MaxRotated THEN n + 1
    ELSE IF n = MaxRotated /\ files[n - 1] = Missing THEN n ELSE MaxRotated + 1

(* One stream's files and writer.                                          *)
Stream(s) == [log |-> log[s], idx |-> idx[s], w |-> writer[s]]

(* IndexWriter::flush, also what dropping its BufWriter does.              *)
Flushed(st) ==
    [st EXCEPT !.idx = IF st.w.number \in Numbers
                       THEN [st.idx EXCEPT ![st.w.number] = @ \o st.w.buf] ELSE st.idx,
               !.w.buf = <<>>]

-----------------------------------------------------------------------------
(* write_line                                                              *)

Full(w, len) == w.bytes + len > MaxBytes

(* The index is flushed and the file dropped before the renames.           *)
Rotated_Unflushed(st) ==
    [st EXCEPT !.log = Cascade(@), !.idx = Cascade(@),
               !.w.file = FALSE, !.w.buf = <<>>, !.w.number = Moved(@, st.idx)]
Rotated(st) ==
    LET f == Flushed(st)
    IN  [f EXCEPT !.log = Cascade(@), !.idx = Cascade(@),
                  !.w.file = FALSE, !.w.number = Moved(@, f.idx)]

(* Creating both files again; after a failure the writer keeps what it     *)
(* had, its count of bytes included.                                       *)
Recreated(st, okLog, okIdx) ==
    IF ~okLog THEN st
    ELSE IF ~okIdx THEN [st EXCEPT !.log[0] = <<>>, !.w.file = TRUE]
    ELSE [st EXCEPT !.log[0] = <<>>, !.idx[0] = <<>>, !.w = Fresh]

(* The record is buffered before the line is written and flushed.  The     *)
(* awaits between are of the task itself: only it writes these files, and  *)
(* the other stream sees of it no more than the counter.                   *)
Written(st, len) ==
    LET line == [at |-> clock, inc |-> incs, off |-> Size(st.log[0]), seq |-> seq,
                 len |-> len]
        w == [st.w EXCEPT !.buf = Append(@, [off |-> st.w.bytes, seq |-> seq]),
                          !.bytes = @ + len, !.since = @ + 1]
        next == [st EXCEPT !.log[0] = Append(@, line), !.w = w]
    IN  IF w.since >= FlushEvery THEN Flushed([next EXCEPT !.w.since = 0]) ELSE next

SetStream(s, st) ==
    /\ log' = [log EXCEPT ![s] = st.log]
    /\ idx' = [idx EXCEPT ![s] = st.idx]
    /\ writer' = [writer EXCEPT ![s] = st.w]

(* A line of the pipe or of the supervisor channel.  It is dropped when    *)
(* the files cannot be created again or there is no file.                  *)
WriteLine(s, len, okLog, okIdx) ==
    LET full == Full(writer[s], len)
        st == IF full THEN Recreated(Rotated(Stream(s)), okLog, okIdx) ELSE Stream(s)
        writes == st.w.file /\ okLog /\ okIdx
    IN  /\ writer[s].live /\ clock < MaxLines
        /\ ~full => okLog /\ okIdx
        /\ SetStream(s, IF writes THEN Written(st, len) ELSE st)
        /\ seq' = IF writes THEN seq + 1 ELSE seq
        /\ clock' = clock + 1
        /\ UNCHANGED <<known, incs>>

(* capture_output ends, at EOF, cancelled or aborted.                      *)
EndCapture(s) ==
    /\ writer[s].live
    /\ SetStream(s, [Flushed(Stream(s)) EXCEPT !.w.live = FALSE])
    /\ UNCHANGED <<seq, known, incs, clock>>

-----------------------------------------------------------------------------
(* A new incarnation: respawn rotates what is there unless the restart was *)
(* manual, and spawn_incarnation opens both sinks, truncating what is      *)
(* there, before it starts the child.  It gives up at the first file that  *)
(* cannot be created: of the log and index of stdout, then of stderr, the  *)
(* first few are made.  A Run of a new record is the same without          *)
(* rotation.                                                               *)
Kept(rotate, files, s) == IF rotate /\ log[s][0] # Missing THEN Cascade(files) ELSE files
Opened(files, created) == IF created THEN [files EXCEPT ![0] = <<>>] ELSE files

FilesBefore(s) == IF s = "stdout" THEN 0 ELSE 2
Makes ==
    {4} \cup (IF "log" \in Failing THEN {0, 2} ELSE {})
        \cup (IF "idx" \in Failing THEN {1, 3} ELSE {})

Spawn(rotate, started, made) ==
    /\ \A s \in Streams : ~writer[s].live
    /\ incs < MaxIncs
    /\ rotate => known
    /\ started => made = 4
    /\ log' = [s \in Streams |-> Opened(Kept(rotate, log[s], s), made > FilesBefore(s))]
    /\ idx' = [s \in Streams |-> Opened(Kept(rotate, idx[s], s), made > FilesBefore(s) + 1)]
    /\ writer' = [s \in Streams |-> IF started THEN Fresh ELSE NoWriter]
    /\ seq' = 0
    /\ known' = (known \/ started)
    /\ incs' = incs + 1
    /\ UNCHANGED clock

(* The daemon is killed: what was buffered is lost, and the next daemon    *)
(* knows no process.                                                       *)
Killed ==
    /\ known
    /\ known' = FALSE
    /\ writer' = [s \in Streams |-> NoWriter]
    /\ UNCHANGED <<log, idx, seq, incs, clock>>

-----------------------------------------------------------------------------
Init ==
    /\ log = [s \in Streams |-> [i \in Numbers |-> Missing]]
    /\ idx = log
    /\ writer = [s \in Streams |-> NoWriter]
    /\ seq = 0 /\ known = FALSE /\ incs = 0 /\ clock = 0

Creates(what) == IF what \in Failing THEN BOOLEAN ELSE {TRUE}

Next ==
    \/ \E s \in Streams, len \in Lens, okLog \in Creates("log"), okIdx \in Creates("idx") :
            WriteLine(s, len, okLog, okIdx)
    \/ \E s \in Streams : EndCapture(s)
    \/ \E rotate, started \in BOOLEAN, made \in Makes : Spawn(rotate, started, made)
    \/ Killed

Spec == Init /\ [][Next]_vars

-----------------------------------------------------------------------------
(* Properties                                                              *)

(* Every variable keeps the type of what it models.                        *)
TypeOK ==
    /\ log \in [Streams -> [Numbers -> Seq(Lines) \cup {Missing}]]
    /\ idx \in [Streams -> [Numbers -> Seq(IndexRecords) \cup {Missing}]]
    /\ writer \in [Streams -> [live : BOOLEAN, file : BOOLEAN, number : Nat,
                               buf : Seq(IndexRecords), bytes : Nat, since : Nat]]
    /\ seq \in Nat /\ known \in BOOLEAN /\ incs \in Nat /\ clock \in Nat

Marks(rec, line) == rec.off = line.off /\ rec.seq = line.seq

(* The index maps line numbers to byte offsets: each record on disk is     *)
(* where its line starts and has its number, a rotated file is indexed to  *)
(* its last line, and the current file misses fewer than FlushEvery        *)
(* records, which its writer holds.  This spans rotations, respawns, and a *)
(* daemon that was killed with records unflushed.                          *)
IndexMaps ==
    \A s \in Streams, i \in Numbers :
        LET file == log[s][i]
            recs == idx[s][i]
        IN  file # Missing /\ recs # Missing =>
              /\ Len(recs) <= Len(file)
              /\ \A k \in 1..Len(recs) : Marks(recs[k], file[k])
              /\ i > 0 => Len(recs) = Len(file)
              /\ i = 0 /\ writer[s].live =>
                    /\ Len(file) = Len(recs) + Len(writer[s].buf)
                    /\ Len(writer[s].buf) < FlushEvery

(* While a capture task runs, a line is deleted only when every number is  *)
(* in use, and only if it is older than everything of its stream that is   *)
(* kept.                                                                   *)
OnDisk(s) == UNION {{log[s][i][k] : k \in DOMAIN log[s][i]} :
                     i \in {j \in Numbers : log[s][j] # Missing}}
OldestLost ==
    [][\A s \in Streams : writer[s].live =>
          \A gone \in OnDisk(s) \ OnDisk(s)' :
              /\ \A i \in Numbers : log'[s][i] # Missing
              /\ \A kept \in OnDisk(s)' : gone.at < kept.at]_vars
=============================================================================

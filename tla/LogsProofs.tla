----------------------------- MODULE LogsProofs -----------------------------
(***************************************************************************)
(* Theorems about Logs and LogReader, for every file size, number of       *)
(* rotated files, flush interval, line length and number of incarnations:  *)
(* the index maps lines to offsets as long as an index can be created      *)
(* again, rotation deletes the oldest lines only as long as a log can be   *)
(* too, and what the TUI's reader returns of what is then on disk is       *)
(* exact.                                                                  *)
(***************************************************************************)
EXTENDS LogReader, TLAPS, SequenceTheorems, FiniteSetTheorems, FunctionTheorems,
        WellFoundedInduction

LogFiles == [Numbers -> Seq(Lines) \cup {Missing}]
IndexFiles == [Numbers -> Seq(IndexRecords) \cup {Missing}]
Writers == [live : BOOLEAN, file : BOOLEAN, number : Nat,
            buf : Seq(IndexRecords), bytes : Nat, since : Nat]
StreamStates == [log : LogFiles, idx : IndexFiles, w : Writers]

(* A rotation that creates the log again creates its index too.            *)
IndexCreated == "idx" \notin Failing

(* A log and its index come and go together, and each record is where its  *)
(* line starts.                                                            *)
Paired(f, r) ==
    /\ f = Missing <=> r = Missing
    /\ f # Missing =>
        /\ Len(r) <= Len(f)
        /\ \A k \in 1..Len(r) : Marks(r[k], f[k])

(* The index reaches the last line.                                        *)
Complete(f, r) == f # Missing => Len(r) = Len(f)

(* Every pair of files agrees, and the rotated ones agree to the end.      *)
Agree(st) ==
    \A i \in Numbers :
        /\ Paired(st.log[i], st.idx[i])
        /\ i > 0 => Complete(st.log[i], st.idx[i])

(* A writer with its files: it knows the size of the log, and holds the    *)
(* records that the index misses, fewer than FlushEvery.                   *)
Backed(st) ==
    /\ st.w.file /\ st.w.number = 0
    /\ st.log[0] # Missing
    /\ st.w.bytes = Size(st.log[0])
    /\ Len(st.log[0]) = Len(st.idx[0]) + Len(st.w.buf)
    /\ \A k \in 1..Len(st.w.buf) : Marks(st.w.buf[k], st.log[0][Len(st.idx[0]) + k])
Writing(st) ==
    /\ Backed(st)
    /\ st.w.since = Len(st.w.buf) /\ Len(st.w.buf) < FlushEvery

(* A writer that could not create its log again: it holds no record, and   *)
(* the index it still has open is one of the rotated ones, or unlinked.    *)
Stranded(st) ==
    /\ ~st.w.file /\ st.w.buf = <<>>
    /\ st.log[0] = Missing
    /\ st.w.number \in Numbers => st.idx[st.w.number] # Missing

Sound(st) ==
    /\ st \in StreamStates
    /\ Agree(st)
    /\ st.w.live => Writing(st) \/ Stranded(st)

(* Nothing is missing from any index.                                      *)
Whole(st) == Agree(st) /\ Complete(st.log[0], st.idx[0])

(* The inductive invariant.  When a record of the process is kept and no   *)
(* task writes, the index of the current log is complete: this is what a   *)
(* rotation at a respawn relies on, and what a killed daemon's files lack. *)
LogInv ==
    /\ IndexCreated
    /\ seq \in Nat /\ known \in BOOLEAN /\ incs \in Nat /\ clock \in Nat
    /\ log \in [Streams -> LogFiles]
    /\ idx \in [Streams -> IndexFiles]
    /\ writer \in [Streams -> Writers]
    /\ \A s \in Streams :
        /\ Sound(Stream(s))
        /\ known /\ ~writer[s].live => Whole(Stream(s))

-----------------------------------------------------------------------------
(* Files and writers                                                       *)

LEMMA NumbersOk ==
    /\ 0 \in Numbers /\ 1 \in Numbers /\ MaxRotated \in Numbers
    /\ \A i \in Numbers : i \in Nat /\ i <= MaxRotated
    /\ \A i \in Numbers : i # 0 => i - 1 \in Numbers
    /\ \A n \in Nat : n < MaxRotated => n + 1 \in Numbers
BY SizesAssumption DEF Numbers

LEMMA EmptyOk ==
    /\ <<>> \in Seq(Lines) /\ <<>> \in Seq(IndexRecords) /\ <<>> # Missing
    /\ Paired(<<>>, <<>>) /\ Complete(<<>>, <<>>)
    /\ Paired(Missing, Missing) /\ Complete(Missing, Missing)
<1>1. <<>> \in Seq(Lines) /\ <<>> \in Seq(IndexRecords)
  OBVIOUS
<1>2. <<>> # Missing
  BY <1>1, MissingAssumption
<1> QED
  BY <1>1, <1>2 DEF Paired, Complete

(* Fields of a stream's state, as the steps below read them.               *)
LEMMA StreamOk ==
    ASSUME NEW st \in StreamStates
    PROVE  /\ st.log \in LogFiles /\ st.idx \in IndexFiles /\ st.w \in Writers
           /\ st.w.buf \in Seq(IndexRecords) /\ st.w.number \in Nat
           /\ st.w.bytes \in Nat /\ st.w.since \in Nat
           /\ st.w.live \in BOOLEAN /\ st.w.file \in BOOLEAN
           /\ \A i \in Numbers : st.log[i] # Missing => st.log[i] \in Seq(Lines)
           /\ \A i \in Numbers : st.idx[i] # Missing => st.idx[i] \in Seq(IndexRecords)
BY DEF StreamStates, LogFiles, IndexFiles, Writers

(* Records that continue an index continue to be where their lines start.  *)
LEMMA JoinedOffsets ==
    ASSUME NEW f \in Seq(Lines), NEW r \in Seq(IndexRecords), NEW b \in Seq(IndexRecords),
           Len(f) = Len(r) + Len(b),
           \A k \in 1..Len(r) : Marks(r[k], f[k]),
           \A k \in 1..Len(b) : Marks(b[k], f[Len(r) + k])
    PROVE  /\ r \o b \in Seq(IndexRecords)
           /\ Len(r \o b) = Len(f)
           /\ \A k \in 1..Len(r \o b) : Marks((r \o b)[k], f[k])
<1> DEFINE j == r \o b
<1>1. /\ j \in Seq(IndexRecords) /\ Len(j) = Len(r) + Len(b)
      /\ \A i \in 1..(Len(r) + Len(b)) : j[i] = IF i <= Len(r) THEN r[i] ELSE b[i - Len(r)]
  BY ConcatProperties
<1>2. Len(r) \in Nat /\ Len(b) \in Nat
  OBVIOUS
<1> HIDE DEF j
<1>3. ASSUME NEW k \in 1..Len(j) PROVE Marks(j[k], f[k])
  <2>1. CASE k <= Len(r)
    BY <1>1, <1>2, <2>1
  <2>2. CASE ~(k <= Len(r))
    <3>1. k - Len(r) \in 1..Len(b) /\ Len(r) + (k - Len(r)) = k
      BY <1>1, <1>2, <2>2
    <3>2. j[k] = b[k - Len(r)]
      BY <1>1, <1>2, <2>2
    <3>3. Marks(b[k - Len(r)], f[Len(r) + (k - Len(r))])
      BY <3>1
    <3> QED
      BY <3>1, <3>2, <3>3
  <2> QED
    BY <2>1, <2>2
<1> QED
  BY <1>1, <1>3 DEF j

(* What a flush does, field by field.                                      *)
LEMMA FlushedIs ==
    ASSUME NEW st \in StreamStates, st.w.number \in Numbers => st.idx[st.w.number] # Missing
    PROVE  /\ Flushed(st) \in StreamStates
           /\ Flushed(st).log = st.log
           /\ Flushed(st).w = [st.w EXCEPT !.buf = <<>>]
           /\ \A i \in Numbers :
                Flushed(st).idx[i] = IF i = st.w.number THEN st.idx[i] \o st.w.buf ELSE st.idx[i]
<1> DEFINE x == IF st.w.number \in Numbers
                THEN [st.idx EXCEPT ![st.w.number] = @ \o st.w.buf] ELSE st.idx
           w == [st.w EXCEPT !.buf = <<>>]
<1>1. Flushed(st).log = st.log /\ Flushed(st).idx = x /\ Flushed(st).w = w
  BY DEF Flushed, StreamStates
<1>2. \A i \in Numbers :
        x[i] = IF i = st.w.number THEN st.idx[i] \o st.w.buf ELSE st.idx[i]
  BY StreamOk DEF IndexFiles
<1>3. w \in Writers
  BY StreamOk, EmptyOk DEF Writers
<1>4. x \in IndexFiles
  <2>1. CASE st.w.number \in Numbers
    <3>1. st.idx[st.w.number] \in Seq(IndexRecords) /\ st.w.buf \in Seq(IndexRecords)
      BY <2>1, StreamOk
    <3>2. st.idx[st.w.number] \o st.w.buf \in Seq(IndexRecords)
      BY <3>1
    <3> QED
      BY <2>1, <3>2, StreamOk DEF IndexFiles
  <2>2. CASE st.w.number \notin Numbers
    BY <2>2, StreamOk
  <2> QED
    BY <2>1, <2>2
<1>5. Flushed(st) \in StreamStates
  BY <1>3, <1>4 DEF Flushed, StreamStates
<1> QED
  BY <1>1, <1>2, <1>5

(* A flush by a writer completes      the index of the current log, and    *)
(* leaves the writer an index that is on disk or unlinked.                 *)
LEMMA FlushSound ==
    ASSUME NEW st \in StreamStates, Agree(st), Backed(st) \/ Stranded(st)
    PROVE  /\ Flushed(st) \in StreamStates
           /\ Whole(Flushed(st))
           /\ Flushed(st).log = st.log
           /\ Flushed(st).w = [st.w EXCEPT !.buf = <<>>]
           /\ st.w.number \in Numbers => Flushed(st).idx[st.w.number] # Missing
<1> DEFINE f == Flushed(st)
<1>1. st \in StreamStates /\ Agree(st)
  OBVIOUS
<1>2. CASE Backed(st)
  <2>1. /\ st.w.number = 0 /\ st.log[0] # Missing /\ st.idx[0] # Missing
        /\ st.idx[0] \in Seq(IndexRecords) /\ st.log[0] \in Seq(Lines)
        /\ st.w.buf \in Seq(IndexRecords)
    BY <1>1, <1>2, StreamOk, NumbersOk DEF Backed, Agree, Paired
  <2> DEFINE r == st.idx[0] \o st.w.buf
  <2>2. /\ f \in StreamStates /\ f.log = st.log /\ f.w = [st.w EXCEPT !.buf = <<>>]
        /\ f.idx[0] = r
        /\ \A i \in Numbers : i # 0 => f.idx[i] = st.idx[i]
    BY <1>1, <2>1, FlushedIs, NumbersOk
  <2>3. /\ r \in Seq(IndexRecords) /\ Len(r) = Len(st.log[0])
        /\ \A k \in 1..Len(r) : Marks(r[k], st.log[0][k])
    <3>1. /\ Len(st.log[0]) = Len(st.idx[0]) + Len(st.w.buf)
          /\ \A k \in 1..Len(st.w.buf) : Marks(st.w.buf[k], st.log[0][Len(st.idx[0]) + k])
      BY <1>2 DEF Backed
    <3>2. \A k \in 1..Len(st.idx[0]) : Marks(st.idx[0][k], st.log[0][k])
      BY <1>1, <2>1, NumbersOk DEF Agree, Paired
    <3> QED
      BY <2>1, <3>1, <3>2, JoinedOffsets, ZenonT(60)
  <2> HIDE DEF r
  <2>4. r # Missing
    BY <2>3, MissingAssumption
  <2>5. Paired(f.log[0], f.idx[0]) /\ Complete(f.log[0], f.idx[0])
    <3>1. Len(r) <= Len(st.log[0])
      BY <2>1, <2>3
    <3> QED
      BY <2>1, <2>2, <2>3, <2>4, <3>1 DEF Paired, Complete
  <2>6. \A i \in Numbers : i # 0 => Paired(f.log[i], f.idx[i]) /\ Complete(f.log[i], f.idx[i])
    BY <1>1, <2>2, NumbersOk DEF Agree
  <2> QED
    BY <2>1, <2>2, <2>4, <2>5, <2>6 DEF Whole, Agree
<1>3. CASE Stranded(st)
  <2>1. /\ f \in StreamStates /\ f.log = st.log /\ f.w = [st.w EXCEPT !.buf = <<>>]
        /\ \A i \in Numbers :
              f.idx[i] = IF i = st.w.number THEN st.idx[i] \o st.w.buf ELSE st.idx[i]
    BY <1>1, <1>3, FlushedIs DEF Stranded
  <2>2. \A i \in Numbers : f.idx[i] = st.idx[i]
    <3> SUFFICES ASSUME NEW i \in Numbers, i = st.w.number PROVE st.idx[i] \o <<>> = st.idx[i]
      BY <2>1, <1>3 DEF Stranded
    <3>1. st.idx[i] \in Seq(IndexRecords)
      BY <1>1, <1>3, StreamOk DEF Stranded
    <3> QED
      BY <3>1
  <2>3. Complete(f.log[0], f.idx[0])
    BY <2>1, <1>3 DEF Complete, Stranded
  <2> QED
    BY <1>1, <1>3, <2>1, <2>2, <2>3, NumbersOk DEF Whole, Agree, Stranded
<1> QED
  BY <1>2, <1>3

(* A cascade keeps every file with its index, and frees number 0.          *)
LEMMA CascadeIs ==
    ASSUME NEW files, NEW i \in Numbers
    PROVE  Cascade(files)[i] = IF i = 0 THEN Missing
                               ELSE IF files[i - 1] # Missing THEN files[i - 1]
                               ELSE IF i = MaxRotated THEN files[i] ELSE Missing
BY DEF Cascade

LEMMA CascadeType ==
    ASSUME NEW S, NEW files \in [Numbers -> S \cup {Missing}]
    PROVE  Cascade(files) \in [Numbers -> S \cup {Missing}]
BY NumbersOk DEF Cascade

LEMMA CascadeWhole ==
    ASSUME NEW l, NEW x,
           \A i \in Numbers : Paired(l[i], x[i]) /\ Complete(l[i], x[i])
    PROVE  \A i \in Numbers :
              /\ Paired(Cascade(l)[i], Cascade(x)[i])
              /\ Complete(Cascade(l)[i], Cascade(x)[i])
<1> SUFFICES ASSUME NEW i \in Numbers
             PROVE  /\ Paired(Cascade(l)[i], Cascade(x)[i])
                    /\ Complete(Cascade(l)[i], Cascade(x)[i])
  OBVIOUS
<1>1. CASE i = 0
  BY <1>1, CascadeIs, EmptyOk
<1>2. CASE i # 0
  <2>1. i - 1 \in Numbers /\ (l[i - 1] = Missing <=> x[i - 1] = Missing)
    BY <1>2, NumbersOk DEF Paired
  <2>2. CASE l[i - 1] # Missing
    <3>1. Cascade(l)[i] = l[i - 1] /\ Cascade(x)[i] = x[i - 1]
      BY <1>2, <2>1, <2>2, CascadeIs
    <3> QED
      BY <2>1, <3>1
  <2>3. CASE l[i - 1] = Missing /\ i = MaxRotated
    <3>1. Cascade(l)[i] = l[i] /\ Cascade(x)[i] = x[i]
      BY <1>2, <2>1, <2>3, CascadeIs
    <3> QED
      BY <3>1
  <2>4. CASE l[i - 1] = Missing /\ i # MaxRotated
    <3>1. Cascade(l)[i] = Missing /\ Cascade(x)[i] = Missing
      BY <1>2, <2>1, <2>4, CascadeIs
    <3> QED
      BY <3>1, EmptyOk
  <2> QED
    BY <2>2, <2>3, <2>4
<1> QED
  BY <1>1, <1>2

(* An index that a writer has open follows its file through a cascade.     *)
LEMMA MovedOk ==
    ASSUME NEW x, NEW n \in Nat, n \in Numbers => x[n] # Missing
    PROVE  /\ Moved(n, x) \in Nat
           /\ Moved(n, x) \in Numbers => Cascade(x)[Moved(n, x)] # Missing
<1>1. CASE n < MaxRotated
  <2>1. Moved(n, x) = n + 1 /\ n + 1 \in Numbers /\ n + 1 # 0 /\ (n + 1) - 1 = n
    BY <1>1, NumbersOk DEF Moved
  <2>2. n \in Numbers
    BY <1>1, SizesAssumption DEF Numbers
  <2> QED
    BY <2>1, <2>2, CascadeIs
<1>2. CASE n = MaxRotated /\ x[n - 1] = Missing
  <2>1. Moved(n, x) = n /\ n \in Numbers /\ n # 0
    BY <1>2, NumbersOk, SizesAssumption DEF Moved
  <2> QED
    BY <1>2, <2>1, CascadeIs
<1>3. CASE ~(n < MaxRotated) /\ ~(n = MaxRotated /\ x[n - 1] = Missing)
  <2>1. Moved(n, x) = MaxRotated + 1
    BY <1>3 DEF Moved
  <2> QED
    BY <2>1, NumbersOk, SizesAssumption DEF Numbers
<1> QED
  BY <1>1, <1>2, <1>3

(* A rotation leaves a writer without its log and every file with a        *)
(* complete index.                                                         *)
LEMMA RotatedSound ==
    ASSUME NEW st, Sound(st), st.w.live
    PROVE  /\ Rotated(st) \in StreamStates
           /\ Rotated(st).log = Cascade(st.log)
           /\ Rotated(st).w.live
           /\ Whole(Rotated(st)) /\ Stranded(Rotated(st))
<1> DEFINE f == Flushed(st)
           r == Rotated(st)
<1>1. /\ f \in StreamStates /\ Whole(f) /\ f.log = st.log
      /\ f.w = [st.w EXCEPT !.buf = <<>>]
      /\ st.w.number \in Numbers => f.idx[st.w.number] # Missing
  BY FlushSound DEF Sound, Writing
<1>2. f.w.buf = <<>> /\ f.w.number = st.w.number /\ f.w.live /\ f.w.number \in Nat
  BY <1>1, StreamOk DEF Sound, Writers
<1> HIDE DEF f
<1>3. r = [f EXCEPT !.log = Cascade(@), !.idx = Cascade(@),
                    !.w.file = FALSE, !.w.number = Moved(@, f.idx)]
  BY DEF Rotated, f
<1> HIDE DEF r
<1>4. /\ r.log = Cascade(f.log) /\ r.idx = Cascade(f.idx)
      /\ r.w = [f.w EXCEPT !.file = FALSE, !.number = Moved(@, f.idx)]
  BY <1>1, <1>3 DEF StreamStates
<1>5. r.log \in LogFiles /\ r.idx \in IndexFiles
  <2>1. f.log \in LogFiles /\ f.idx \in IndexFiles
    BY <1>1, StreamOk
  <2>2. Cascade(f.log) \in LogFiles
    BY <2>1, CascadeType DEF LogFiles
  <2>3. Cascade(f.idx) \in IndexFiles
    BY <2>1, CascadeType DEF IndexFiles
  <2> QED
    BY <1>4, <2>2, <2>3
<1>6. /\ Moved(f.w.number, f.idx) \in Nat
      /\ Moved(f.w.number, f.idx) \in Numbers =>
            Cascade(f.idx)[Moved(f.w.number, f.idx)] # Missing
  BY <1>1, <1>2, MovedOk
<1>7. /\ r.w \in Writers /\ r.w.buf = <<>> /\ r.w.file = FALSE /\ r.w.live
      /\ r.w.number = Moved(f.w.number, f.idx)
  BY <1>1, <1>2, <1>4, <1>6, StreamOk DEF Writers
<1>8. r \in StreamStates
  BY <1>1, <1>3, <1>4, <1>5, <1>7 DEF StreamStates
<1>9. \A i \in Numbers : Paired(r.log[i], r.idx[i]) /\ Complete(r.log[i], r.idx[i])
  <2>1. \A i \in Numbers : Paired(f.log[i], f.idx[i]) /\ Complete(f.log[i], f.idx[i])
    BY <1>1, NumbersOk DEF Whole, Agree
  <2> QED
    BY <1>4, <2>1, CascadeWhole
<1>10. r.log[0] = Missing
  BY <1>4, CascadeIs, NumbersOk
<1>11. Whole(r)
  BY <1>9, NumbersOk DEF Whole, Agree
<1>12. Stranded(r)
  BY <1>4, <1>6, <1>7, <1>10 DEF Stranded
<1> QED
  BY <1>1, <1>4, <1>7, <1>8, <1>11, <1>12 DEF r

(* The writer of files just created.                                       *)
LEMMA FreshIs ==
    /\ Fresh \in Writers /\ NoWriter \in Writers
    /\ Fresh.live /\ Fresh.file /\ Fresh.number = 0 /\ Fresh.buf = <<>>
    /\ Fresh.bytes = 0 /\ Fresh.since = 0
    /\ ~NoWriter.live
BY EmptyOk DEF Fresh, NoWriter, Writers

LEMMA OpenedSound ==
    ASSUME NEW st \in StreamStates, Agree(st),
           st.log[0] = <<>>, st.idx[0] = <<>>, st.w \in {Fresh, NoWriter}
    PROVE  Sound(st) /\ Whole(st)
<1>1. Whole(st)
  BY EmptyOk DEF Whole
<1>2. ASSUME st.w = Fresh PROVE Writing(st)
  <2>1. Size(st.log[0]) = 0 /\ Len(st.log[0]) = 0 /\ Len(st.idx[0]) = 0 /\ Len(st.w.buf) = 0
    BY <1>2, FreshIs DEF Size
  <2> QED
    BY <1>2, <2>1, FreshIs, EmptyOk, SizesAssumption DEF Writing, Backed
<1> QED
  BY <1>1, <1>2, FreshIs DEF Sound

(* Creating the files again gives the writer files, or changes nothing.    *)
LEMMA RecreatedSound ==
    ASSUME NEW st \in StreamStates, Whole(st), Stranded(st), NEW okLog \in BOOLEAN, st.w.live
    PROVE  /\ Sound(Recreated(st, okLog, TRUE))
           /\ Recreated(st, okLog, TRUE).w.live
           /\ okLog => Recreated(st, okLog, TRUE).w.file
           /\ okLog => Recreated(st, okLog, TRUE).log = [st.log EXCEPT ![0] = <<>>]
<1>1. CASE ~okLog
  <2>1. Recreated(st, okLog, TRUE) = st
    BY <1>1 DEF Recreated
  <2> QED
    BY <1>1, <2>1 DEF Sound, Whole
<1>2. CASE okLog
  <2> DEFINE r == Recreated(st, okLog, TRUE)
  <2>1. r = [st EXCEPT !.log[0] = <<>>, !.idx[0] = <<>>, !.w = Fresh]
    BY <1>2 DEF Recreated
  <2> HIDE DEF r
  <2>2. /\ r.log = [st.log EXCEPT ![0] = <<>>]
        /\ r.idx = [st.idx EXCEPT ![0] = <<>>]
        /\ r.w = Fresh
    BY <2>1 DEF StreamStates
  <2>3. r.log \in LogFiles /\ r.idx \in IndexFiles
    <3>1. r.log \in LogFiles
      BY <2>2, StreamOk, EmptyOk, NumbersOk DEF LogFiles
    <3>2. r.idx \in IndexFiles
      BY <2>2, StreamOk, EmptyOk, NumbersOk DEF IndexFiles
    <3> QED
      BY <3>1, <3>2
  <2>4. r \in StreamStates
    BY <2>1, <2>2, <2>3, FreshIs DEF StreamStates
  <2>5. /\ r.log[0] = <<>> /\ r.idx[0] = <<>>
        /\ \A i \in Numbers : i # 0 => r.log[i] = st.log[i] /\ r.idx[i] = st.idx[i]
    <3>1. r.log[0] = <<>> /\ \A i \in Numbers : i # 0 => r.log[i] = st.log[i]
      BY <2>2, StreamOk, NumbersOk DEF LogFiles
    <3>2. r.idx[0] = <<>> /\ \A i \in Numbers : i # 0 => r.idx[i] = st.idx[i]
      BY <2>2, StreamOk, NumbersOk DEF IndexFiles
    <3> QED
      BY <3>1, <3>2
  <2>6. Agree(r)
    BY <2>5, EmptyOk, NumbersOk DEF Agree, Whole
  <2>7. Sound(r)
    BY <2>2, <2>4, <2>5, <2>6, OpenedSound
  <2> QED
    BY <2>2, <2>7, FreshIs DEF r
<1> QED
  BY <1>1, <1>2

(* The line that write_line adds, its record, and the writer after it.     *)
NewLine(st, len) ==
    [at |-> clock, inc |-> incs, off |-> Size(st.log[0]), seq |-> seq, len |-> len]
NewRecord(st) == [off |-> st.w.bytes, seq |-> seq]
Noted(st, len) ==
    [st.w EXCEPT !.buf = Append(@, NewRecord(st)),
                 !.bytes = @ + len, !.since = @ + 1]
Appended(st, len) ==
    [st EXCEPT !.log[0] = Append(@, NewLine(st, len)), !.w = Noted(st, len)]

LEMMA SizeOk ==
    ASSUME NEW f \in Seq(Lines) PROVE Size(f) \in Nat
<1>1. CASE f = <<>>
  BY <1>1 DEF Size
<1>2. CASE f # <<>>
  <2>1. Len(f) \in 1..Len(f)
    BY <1>2
  <2>2. f[Len(f)] \in Lines
    BY <2>1
  <2>3. f[Len(f)].off \in Nat /\ f[Len(f)].len \in Nat
    BY <2>2, SizesAssumption DEF Lines
  <2> QED
    BY <1>2, <2>3 DEF Size
<1> QED
  BY <1>1, <1>2

LEMMA AppendedIs ==
    ASSUME LogInv, NEW st \in StreamStates, st.log[0] # Missing, NEW len \in Lens,
           st.w.live, st.w.file
    PROVE  /\ NewLine(st, len) \in Lines
           /\ Appended(st, len) \in StreamStates
           /\ Appended(st, len).log = [st.log EXCEPT ![0] = Append(@, NewLine(st, len))]
           /\ Appended(st, len).idx = st.idx
           /\ NewRecord(st) \in IndexRecords
           /\ Appended(st, len).w.buf = Append(st.w.buf, NewRecord(st))
           /\ Appended(st, len).w.bytes = st.w.bytes + len
           /\ Appended(st, len).w.since = st.w.since + 1
           /\ Appended(st, len).w.live /\ Appended(st, len).w.file
           /\ Appended(st, len).w.number = st.w.number
<1> DEFINE line == NewLine(st, len)
           rec == NewRecord(st)
           w == Noted(st, len)
           n == Appended(st, len)
<1>1. len \in Nat /\ st.log[0] \in Seq(Lines) /\ 0 \in Numbers
  BY StreamOk, NumbersOk, SizesAssumption
<1>2. line \in Lines
  BY <1>1, SizeOk DEF NewLine, Lines, LogInv
<1>3. rec \in IndexRecords
  BY StreamOk DEF IndexRecords, NewRecord, LogInv
<1>4. /\ w.buf = Append(st.w.buf, rec) /\ w.bytes = st.w.bytes + len
      /\ w.since = st.w.since + 1 /\ w.live /\ w.file
      /\ w.number = st.w.number
  BY StreamOk DEF Noted, Writers
<1>5. Append(st.w.buf, rec) \in Seq(IndexRecords)
  BY <1>3, StreamOk, AppendProperties
<1>6. w \in Writers
  <2>1. w = [st.w EXCEPT !.buf = Append(st.w.buf, rec), !.bytes = st.w.bytes + len,
                         !.since = st.w.since + 1]
    BY DEF Noted
  <2>2. st.w.bytes + len \in Nat /\ st.w.since + 1 \in Nat
    BY <1>1, StreamOk
  <2> HIDE DEF w, rec
  <2> QED
    BY <1>5, <2>1, <2>2, StreamOk DEF Writers
<1>7. Append(st.log[0], line) \in Seq(Lines)
  BY <1>1, <1>2, AppendProperties
<1> HIDE DEF line, rec, w
<1>8. /\ n.log = [st.log EXCEPT ![0] = Append(@, line)] /\ n.idx = st.idx /\ n.w = w
  BY DEF Appended, StreamStates, line, w
<1>9. n.log \in LogFiles
  BY <1>1, <1>7, <1>8, StreamOk DEF LogFiles
<1>10. n \in StreamStates
  BY <1>6, <1>8, <1>9 DEF Appended, StreamStates
<1> QED
  BY <1>2, <1>3, <1>4, <1>8, <1>10 DEF line, rec, w

(* A writer that has noted a line and written it still holds what the      *)
(* index misses.                                                           *)
LEMMA AppendedBacked ==
    ASSUME LogInv, NEW st, Sound(st), Writing(st), st.w.live, NEW len \in Lens
    PROVE  Agree(Appended(st, len)) /\ Backed(Appended(st, len))
<1> DEFINE n == Appended(st, len)
           line == NewLine(st, len)
           rec == NewRecord(st)
           f == st.log[0]
           x == st.idx[0]
           b == st.w.buf
           g == Append(f, line)
           c == Append(b, rec)
<1>1. st \in StreamStates /\ Agree(st) /\ Backed(st) /\ f # Missing /\ 0 \in Numbers
      /\ st.w.file /\ st.w.number = 0
  BY NumbersOk DEF Sound, Writing, Backed
<1>2. /\ n \in StreamStates /\ n.log = [st.log EXCEPT ![0] = g] /\ n.idx = st.idx
      /\ line \in Lines /\ rec \in IndexRecords
      /\ n.w.buf = c /\ n.w.bytes = st.w.bytes + len
      /\ n.w.file /\ n.w.number = 0
  BY <1>1, AppendedIs
<1>3. f \in Seq(Lines) /\ x \in Seq(IndexRecords) /\ x # Missing /\ b \in Seq(IndexRecords)
  BY <1>1, StreamOk DEF Agree, Paired
<1>4. /\ g \in Seq(Lines) /\ Len(g) = Len(f) + 1 /\ g # <<>> /\ g[Len(f) + 1] = line
      /\ \A k \in 1..Len(f) : g[k] = f[k]
  <2> HIDE DEF f, line
  <2> QED
    BY <1>2, <1>3, AppendProperties
<1>5. /\ c \in Seq(IndexRecords) /\ Len(c) = Len(b) + 1 /\ c[Len(b) + 1] = rec
      /\ \A k \in 1..Len(b) : c[k] = b[k]
  <2> HIDE DEF b, rec
  <2> QED
    BY <1>2, <1>3, AppendProperties
<1>6. /\ Len(f) \in Nat /\ Len(x) \in Nat /\ Len(b) \in Nat
      /\ Len(f) = Len(x) + Len(b) /\ st.w.bytes = Size(f)
      /\ \A k \in 1..Len(b) : Marks(b[k], f[Len(x) + k])
      /\ Len(x) <= Len(f) /\ \A k \in 1..Len(x) : Marks(x[k], f[k])
  <2>1. Len(f) \in Nat /\ Len(x) \in Nat /\ Len(b) \in Nat
    BY <1>3
  <2>2. /\ Len(f) = Len(x) + Len(b) /\ st.w.bytes = Size(f)
        /\ \A k \in 1..Len(b) : Marks(b[k], f[Len(x) + k])
    BY <1>1 DEF Backed
  <2>3. Len(x) <= Len(f) /\ \A k \in 1..Len(x) : Marks(x[k], f[k])
    BY <1>1 DEF Agree, Paired
  <2> QED
    BY <2>1, <2>2, <2>3
<1>7. line.off = Size(f) /\ line.len = len /\ Marks(rec, line)
  BY <1>6 DEF NewLine, NewRecord, Marks
<1>8. /\ n.log[0] = g /\ \A i \in Numbers : i # 0 => n.log[i] = st.log[i]
  BY <1>1, <1>2, StreamOk DEF LogFiles
<1> HIDE DEF n, line, rec, f, x, b, g, c
<1>9. g # Missing /\ Size(g) = n.w.bytes
  BY <1>2, <1>4, <1>6, <1>7, MissingAssumption DEF Size
<1>10. \A k \in 1..Len(c) : Marks(c[k], g[Len(x) + k])
  <2> SUFFICES ASSUME NEW k \in 1..Len(c) PROVE Marks(c[k], g[Len(x) + k])
    OBVIOUS
  <2>1. CASE k \in 1..Len(b)
    <3>1. Len(x) + k \in 1..Len(f)
      BY <1>6, <2>1
    <3> QED
      BY <1>4, <1>5, <1>6, <2>1, <3>1
  <2>2. CASE k = Len(b) + 1
    <3>1. Len(x) + k = Len(f) + 1
      BY <1>6, <2>2
    <3> QED
      BY <1>4, <1>5, <1>7, <2>2, <3>1
  <2> QED
    BY <1>5, <1>6, <2>1, <2>2
<1>11. Backed(n)
  <2>0. n.idx[0] = x
    BY <1>2 DEF x
  <2>1. Len(g) = Len(x) + Len(c)
    BY <1>4, <1>5, <1>6
  <2>2. n.w.bytes = Size(n.log[0])
    BY <1>8, <1>9
  <2> QED
    BY <1>2, <1>8, <1>9, <1>10, <2>0, <2>1, <2>2 DEF Backed
<1>12. Paired(n.log[0], n.idx[0])
  <2>1. \A k \in 1..Len(x) : Marks(x[k], g[k])
    BY <1>4, <1>6
  <2>2. Len(x) <= Len(g)
    BY <1>4, <1>6
  <2>3. n.idx[0] = x
    BY <1>2 DEF x
  <2> QED
    BY <1>3, <1>8, <1>9, <2>1, <2>2, <2>3 DEF Paired
<1>13. Agree(n)
  BY <1>1, <1>2, <1>8, <1>12, NumbersOk DEF Agree
<1> QED
  BY <1>11, <1>13 DEF n

(* A line written, and the index flushed when it is due.                   *)
LEMMA WrittenSound ==
    ASSUME LogInv, NEW st, Sound(st), st.w.live, st.w.file, NEW len \in Lens
    PROVE  /\ Sound(Written(st, len))
           /\ Written(st, len).w.live /\ Written(st, len).w.file
           /\ NewLine(st, len) \in Lines
           /\ st.log[0] \in Seq(Lines)
           /\ Written(st, len).log = [st.log EXCEPT ![0] = Append(@, NewLine(st, len))]
<1> DEFINE n == Appended(st, len)
           m == [n EXCEPT !.w.since = 0]
<1>1. Writing(st) /\ st \in StreamStates /\ st.log[0] # Missing /\ st.log[0] \in Seq(Lines)
  BY StreamOk, NumbersOk DEF Sound, Stranded, Writing, Backed
<1>2. /\ n \in StreamStates
      /\ n.log = [st.log EXCEPT ![0] = Append(@, NewLine(st, len))]
      /\ NewLine(st, len) \in Lines
      /\ n.w.since = st.w.since + 1 /\ n.w.live /\ n.w.file
      /\ Len(n.w.buf) = Len(st.w.buf) + 1
  <2>1. /\ n \in StreamStates
        /\ n.log = [st.log EXCEPT ![0] = Append(@, NewLine(st, len))]
        /\ NewLine(st, len) \in Lines
        /\ n.w.since = st.w.since + 1 /\ n.w.live /\ n.w.file
    BY <1>1, AppendedIs
  <2>2. /\ n.w.buf = Append(st.w.buf, NewRecord(st))
        /\ NewRecord(st) \in IndexRecords
        /\ st.w.buf \in Seq(IndexRecords)
    BY <1>1, AppendedIs, StreamOk
  <2> HIDE DEF n
  <2>3. Len(n.w.buf) = Len(st.w.buf) + 1
    BY <2>2, AppendProperties
  <2> QED
    BY <2>1, <2>3
<1>3. Agree(n) /\ Backed(n)
  BY <1>1, AppendedBacked
<1>4. n.w.since = Len(n.w.buf) /\ n.w.since \in Nat
  BY <1>1, <1>2, StreamOk DEF Writing
<1>5. Written(st, len) = IF n.w.since >= FlushEvery THEN Flushed(m) ELSE n
  BY <1>2 DEF Written, Appended, Noted, NewLine, NewRecord
<1> HIDE DEF n
<1>6. CASE ~(n.w.since >= FlushEvery)
  <2>1. Writing(n)
    BY <1>3, <1>4, <1>6, SizesAssumption DEF Writing
  <2> QED
    BY <1>1, <1>2, <1>3, <1>5, <1>6, <2>1 DEF Sound
<1>7. CASE n.w.since >= FlushEvery
  <2>1. /\ m.log = n.log /\ m.idx = n.idx /\ m.w = [n.w EXCEPT !.since = 0]
    BY <1>2 DEF StreamStates
  <2>2. m.w \in Writers
    BY <1>2, <2>1, StreamOk DEF Writers
  <2>3. m \in StreamStates
    BY <1>2, <2>1, <2>2 DEF StreamStates
  <2> HIDE DEF m
  <2>4. /\ m.w.since = 0 /\ m.w.live /\ m.w.buf = n.w.buf /\ m.w.file
        /\ m.w.number = n.w.number /\ m.w.bytes = n.w.bytes
    BY <1>2, <2>1, StreamOk DEF Writers
  <2>5. Agree(m) /\ Backed(m)
    <3>1. Agree(m)
      BY <1>3, <2>1 DEF Agree
    <3>2. Backed(m)
      <4>1. m.w.number = 0 /\ m.log[0] # Missing /\ m.w.bytes = Size(m.log[0])
        BY <1>3, <2>1, <2>4 DEF Backed
      <4>2. /\ Len(m.log[0]) = Len(m.idx[0]) + Len(m.w.buf)
            /\ \A k \in 1..Len(m.w.buf) : Marks(m.w.buf[k], m.log[0][Len(m.idx[0]) + k])
        <5>1. /\ Len(n.log[0]) = Len(n.idx[0]) + Len(n.w.buf)
              /\ \A k \in 1..Len(n.w.buf) : Marks(n.w.buf[k], n.log[0][Len(n.idx[0]) + k])
          BY <1>3 DEF Backed
        <5>2. m.log = n.log /\ m.idx = n.idx /\ m.w.buf = n.w.buf
          BY <2>1, <2>4
        <5> QED
          BY <5>1, <5>2, Zenon
      <4> QED
        BY <2>4, <4>1, <4>2 DEF Backed
    <3> QED
      BY <3>1, <3>2
  <2> DEFINE r == Flushed(m)
  <2>6. /\ r \in StreamStates /\ Whole(r) /\ r.log = n.log
        /\ r.w = [m.w EXCEPT !.buf = <<>>]
    BY <2>1, <2>3, <2>5, FlushSound
  <2> HIDE DEF r
  <2>7. /\ r.w.since = 0 /\ r.w.live /\ r.w.buf = <<>> /\ r.w.file
        /\ r.w.number = n.w.number /\ r.w.bytes = n.w.bytes
    BY <2>2, <2>4, <2>6 DEF Writers
  <2>8. Writing(r)
    <3>1. Len(r.w.buf) = 0
      BY <2>7
    <3>2. r.log[0] # Missing /\ r.w.bytes = Size(r.log[0]) /\ r.w.number = 0 /\ r.w.file
      BY <1>3, <2>6, <2>7 DEF Backed
    <3>3. Len(r.log[0]) = Len(r.idx[0]) /\ Len(r.idx[0]) \in Nat
      BY <2>6, <3>2, StreamOk, NumbersOk DEF Whole, Complete, Agree, Paired
    <3>4. Len(r.log[0]) = Len(r.idx[0]) + Len(r.w.buf)
      BY <3>1, <3>3
    <3> QED
      BY <2>7, <3>1, <3>2, <3>4, SizesAssumption DEF Writing, Backed
  <2>9. Sound(r)
    BY <2>6, <2>8 DEF Sound, Whole
  <2>10. Written(st, len) = r
    BY <1>5, <1>7 DEF r
  <2> QED
    BY <1>1, <1>2, <2>6, <2>7, <2>9, <2>10
<1> QED
  BY <1>6, <1>7

-----------------------------------------------------------------------------
(* Every step keeps the invariant                                          *)

LEMMA StreamIs ==
    ASSUME LogInv, NEW s \in Streams
    PROVE  /\ Stream(s) \in StreamStates /\ Sound(Stream(s))
           /\ Stream(s).log = log[s] /\ Stream(s).idx = idx[s] /\ Stream(s).w = writer[s]
           /\ log[s] \in LogFiles /\ idx[s] \in IndexFiles /\ writer[s] \in Writers
BY DEF LogInv, Sound, Stream

(* One stream replaced by a sound one.                                     *)
LEMMA SetStreamInv ==
    ASSUME LogInv, NEW s \in Streams, NEW st, SetStream(s, st), Sound(st),
           known /\ ~st.w.live => Whole(st),
           seq' \in Nat, clock' \in Nat, UNCHANGED <<known, incs>>
    PROVE  LogInv'
<1>1. st.log \in LogFiles /\ st.idx \in IndexFiles /\ st.w \in Writers /\ st \in StreamStates
  BY StreamOk DEF Sound
<1>2. /\ log' \in [Streams -> LogFiles] /\ idx' \in [Streams -> IndexFiles]
      /\ writer' \in [Streams -> Writers]
  BY <1>1 DEF SetStream, LogInv
<1>3. /\ log'[s] = st.log /\ idx'[s] = st.idx /\ writer'[s] = st.w
      /\ \A t \in Streams : t # s => /\ log'[t] = log[t] /\ idx'[t] = idx[t]
                                     /\ writer'[t] = writer[t]
  BY DEF SetStream, LogInv
<1>4. Stream(s)' = st
  <2>1. st = [log |-> st.log, idx |-> st.idx, w |-> st.w]
    BY <1>1 DEF StreamStates
  <2> QED
    BY <1>3, <2>1 DEF Stream
<1>5. \A t \in Streams : t # s => Stream(t)' = Stream(t)
  BY <1>3 DEF Stream
<1>6. ASSUME NEW t \in Streams
      PROVE  Sound(Stream(t)') /\ (known' /\ ~writer'[t].live => Whole(Stream(t)'))
  <2>1. CASE t = s
    BY <1>3, <1>4, <2>1
  <2>2. CASE t # s
    BY <1>3, <1>5, <2>2 DEF LogInv
  <2> QED
    BY <2>1, <2>2
<1>7. IndexCreated' /\ known' \in BOOLEAN /\ incs' \in Nat
  BY DEF LogInv, IndexCreated
<1> QED
  BY <1>2, <1>6, <1>7 DEF LogInv, Sound, Whole, Agree, Writing, Backed, Stranded

(* What write_line leaves of a stream.  As long as the log can be created  *)
(* again, it is what was there, or that after a cascade and with an empty  *)
(* current file, and the new line.                                         *)
Emptied(files) == [files EXCEPT ![0] = <<>>]
Latest(line, file) ==
    /\ line.at = clock /\ line.inc = incs /\ line.seq = seq
    /\ line.off = Size(file)
LEMMA WriteLineIs ==
    ASSUME LogInv, NEW s \in Streams, NEW len \in Lens, NEW okLog \in BOOLEAN,
           WriteLine(s, len, okLog, TRUE)
    PROVE  \E st :
              /\ Sound(st) /\ st.w.live /\ SetStream(s, st)
              /\ okLog /\ writer[s].file =>
                    /\ st.w.file /\ seq' = seq + 1
                    /\ \E base \in {log[s], Emptied(Cascade(log[s]))}, line \in Lines :
                          /\ base[0] \in Seq(Lines) /\ Latest(line, base[0])
                          /\ st.log = [base EXCEPT ![0] = Append(@, line)]
<1> DEFINE full == Full(writer[s], len)
<1>1. PICK b : b = IF full THEN Recreated(Rotated(Stream(s)), okLog, TRUE) ELSE Stream(s)
  OBVIOUS
<1>2. PICK st : st = IF b.w.file /\ okLog THEN Written(b, len) ELSE b
  OBVIOUS
<1>3. writer[s].live /\ SetStream(s, st) /\ (~full => okLog)
  BY <1>1, <1>2 DEF WriteLine
<1>4. /\ Sound(b) /\ b.w.live
      /\ okLog /\ writer[s].file =>
            b.w.file /\ b.log \in {log[s], Emptied(Cascade(log[s]))}
  <2>1. CASE ~full
    BY <1>1, <1>3, <2>1, StreamIs
  <2>2. CASE full
    <3>1. PICK r : r = Rotated(Stream(s))
      OBVIOUS
    <3>2. /\ r \in StreamStates /\ r.log = Cascade(log[s]) /\ r.w.live
          /\ Whole(r) /\ Stranded(r)
      BY <1>3, <3>1, StreamIs, RotatedSound
    <3>3. b = Recreated(r, okLog, TRUE)
      BY <1>1, <2>2, <3>1
    <3> QED
      BY <3>2, <3>3, RecreatedSound DEF Emptied
  <2> QED
    BY <2>1, <2>2
<1>5. CASE b.w.file /\ okLog
  <2>1. /\ Sound(st) /\ st.w.live /\ st.w.file
        /\ NewLine(b, len) \in Lines /\ b.log[0] \in Seq(Lines)
        /\ st.log = [b.log EXCEPT ![0] = Append(@, NewLine(b, len))]
    BY <1>2, <1>4, <1>5, WrittenSound
  <2>2. Latest(NewLine(b, len), b.log[0])
    BY DEF NewLine, Latest
  <2>3. seq' = seq + 1
    BY <1>1, <1>5 DEF WriteLine
  <2> QED
    BY <1>3, <1>4, <2>1, <2>2, <2>3
<1>6. CASE ~(b.w.file /\ okLog)
  BY <1>2, <1>3, <1>4, <1>6
<1> QED
  BY <1>5, <1>6

LEMMA WriteLineStep ==
    ASSUME LogInv, NEW s \in Streams, NEW len \in Lens, NEW okLog \in BOOLEAN,
           WriteLine(s, len, okLog, TRUE)
    PROVE  LogInv'
<1>1. PICK st : Sound(st) /\ st.w.live /\ SetStream(s, st)
  BY WriteLineIs
<1>2. seq' \in Nat /\ clock' \in Nat /\ UNCHANGED <<known, incs>>
  <2>1. seq' = seq \/ seq' = seq + 1
    BY Zenon DEF WriteLine
  <2>2. clock' = clock + 1 /\ UNCHANGED <<known, incs>>
    BY DEF WriteLine
  <2> QED
    BY <2>1, <2>2 DEF LogInv
<1> QED
  BY <1>1, <1>2, SetStreamInv

LEMMA EndCaptureStep ==
    ASSUME LogInv, NEW s \in Streams, EndCapture(s)
    PROVE  LogInv' /\ log' = log
<1>1. PICK f : f = Flushed(Stream(s))
  OBVIOUS
<1>2. PICK st : st = [f EXCEPT !.w.live = FALSE]
  OBVIOUS
<1>3. writer[s].live /\ SetStream(s, st) /\ UNCHANGED <<seq, known, incs, clock>>
  BY <1>1, <1>2 DEF EndCapture
<1>4. f \in StreamStates /\ Whole(f) /\ f.log = log[s]
  BY <1>1, <1>3, StreamIs, FlushSound DEF Sound, Writing
<1>5. st.log = f.log /\ st.idx = f.idx /\ st.w = [f.w EXCEPT !.live = FALSE]
  BY <1>2, <1>4 DEF StreamStates
<1>6. st.w \in Writers /\ ~st.w.live
  BY <1>4, <1>5, StreamOk DEF Writers
<1>7. st \in StreamStates
  BY <1>2, <1>4, <1>6 DEF StreamStates
<1>8. Sound(st) /\ Whole(st)
  BY <1>4, <1>5, <1>6, <1>7 DEF Sound, Whole, Agree
<1>9. LogInv'
  BY <1>3, <1>8, SetStreamInv DEF LogInv
<1>10. log' = log
  BY <1>3, <1>4, <1>5 DEF SetStream, LogInv
<1> QED
  BY <1>9, <1>10

(* Of a stream both files are opened or, with no index failing, neither.   *)
LEMMA MakesBoth ==
    ASSUME NEW made \in Makes, NEW s \in Streams
    PROVE  /\ IndexCreated => (made > FilesBefore(s) <=> made > FilesBefore(s) + 1)
           /\ Failing = {} => made = 4 /\ made > FilesBefore(s) /\ made > FilesBefore(s) + 1
           /\ made = 4 => made > FilesBefore(s) /\ made > FilesBefore(s) + 1
BY DEF Makes, FilesBefore, IndexCreated, Streams

LEMMA SpawnStep ==
    ASSUME LogInv, NEW rotate \in BOOLEAN, NEW started \in BOOLEAN, NEW made \in Makes,
           Spawn(rotate, started, made)
    PROVE  LogInv'
<1>1. /\ \A s \in Streams : ~writer[s].live
      /\ rotate => known
      /\ incs' = incs + 1 /\ seq' = 0 /\ known' = (known \/ started) /\ clock' = clock
  BY DEF Spawn
<1>2. ASSUME NEW s \in Streams
      PROVE  /\ log'[s] \in LogFiles /\ idx'[s] \in IndexFiles /\ writer'[s] \in Writers
             /\ Sound(Stream(s)') /\ (known' => Whole(Stream(s)'))
  <2>0. \/ made > FilesBefore(s) /\ made > FilesBefore(s) + 1
        \/ ~(made > FilesBefore(s)) /\ ~(made > FilesBefore(s) + 1) /\ ~started
    BY MakesBoth DEF LogInv, Spawn
  <2>1. PICK l, x : l = Kept(rotate, log[s], s) /\ x = Kept(rotate, idx[s], s)
    OBVIOUS
  <2>2. /\ \/ log'[s] = [l EXCEPT ![0] = <<>>] /\ idx'[s] = [x EXCEPT ![0] = <<>>]
           \/ log'[s] = l /\ idx'[s] = x /\ writer'[s] = NoWriter /\ known' = known
        /\ writer'[s] \in {Fresh, NoWriter}
    BY <1>1, <2>0, <2>1 DEF Spawn, Opened, LogInv
  <2>3. /\ l \in LogFiles /\ x \in IndexFiles
        /\ \A i \in Numbers : i > 0 => Paired(l[i], x[i]) /\ Complete(l[i], x[i])
        /\ Paired(l[0], x[0]) /\ (known => Complete(l[0], x[0]))
    <3>1. CASE rotate /\ log[s][0] # Missing
      <4>1. l = Cascade(log[s]) /\ x = Cascade(idx[s])
        BY <2>1, <3>1 DEF Kept
      <4>2. \A i \in Numbers : Paired(log[s][i], idx[s][i]) /\ Complete(log[s][i], idx[s][i])
        <5>1. Whole(Stream(s))
          BY <1>1, <3>1 DEF LogInv
        <5> QED
          BY <5>1, StreamIs, NumbersOk DEF Whole, Agree
      <4>3. l \in LogFiles
        BY <4>1, StreamIs, CascadeType DEF LogFiles
      <4>4. x \in IndexFiles
        BY <4>1, StreamIs, CascadeType DEF IndexFiles
      <4>5. \A i \in Numbers : Paired(l[i], x[i]) /\ Complete(l[i], x[i])
        BY <4>1, <4>2, CascadeWhole
      <4> QED
        BY <4>3, <4>4, <4>5, NumbersOk
    <3>2. CASE ~(rotate /\ log[s][0] # Missing)
      <4>1. l = log[s] /\ x = idx[s]
        BY <2>1, <3>2 DEF Kept
      <4>2. known => Complete(log[s][0], idx[s][0])
        BY <1>1, StreamIs DEF LogInv, Whole
      <4> QED
        BY <4>1, <4>2, StreamIs, NumbersOk DEF Sound, Agree
    <3> QED
      BY <3>1, <3>2
  <2>4. log'[s] \in LogFiles /\ idx'[s] \in IndexFiles
    <3>1. [l EXCEPT ![0] = <<>>] \in LogFiles
      BY <2>3, EmptyOk, NumbersOk DEF LogFiles
    <3>2. [x EXCEPT ![0] = <<>>] \in IndexFiles
      BY <2>3, EmptyOk, NumbersOk DEF IndexFiles
    <3>3. l \in LogFiles /\ x \in IndexFiles
      BY <2>3
    <3>4. \/ log'[s] = [l EXCEPT ![0] = <<>>] /\ idx'[s] = [x EXCEPT ![0] = <<>>]
          \/ log'[s] = l /\ idx'[s] = x
      BY <2>2
    <3> QED
      BY ONLY <3>1, <3>2, <3>3, <3>4
  <2>5. ASSUME log'[s] = [l EXCEPT ![0] = <<>>], idx'[s] = [x EXCEPT ![0] = <<>>]
        PROVE  /\ log'[s][0] = <<>> /\ \A i \in Numbers : i # 0 => log'[s][i] = l[i]
               /\ idx'[s][0] = <<>> /\ \A i \in Numbers : i # 0 => idx'[s][i] = x[i]
    <3>1. log'[s][0] = <<>> /\ \A i \in Numbers : i # 0 => log'[s][i] = l[i]
      BY <2>3, <2>5, NumbersOk DEF LogFiles
    <3>2. idx'[s][0] = <<>> /\ \A i \in Numbers : i # 0 => idx'[s][i] = x[i]
      BY <2>3, <2>5, NumbersOk DEF IndexFiles
    <3> QED
      BY <3>1, <3>2
  <2>6. PICK st : st = Stream(s)'
    OBVIOUS
  <2>7. st = [log |-> log'[s], idx |-> idx'[s], w |-> writer'[s]]
    BY <2>6 DEF Stream
  <2>8. /\ st.log = log'[s] /\ st.idx = idx'[s] /\ st.w = writer'[s]
        /\ writer'[s] \in Writers /\ st \in StreamStates
    BY <2>2, <2>4, <2>7, FreshIs DEF StreamStates
  <2>9. CASE log'[s] = [l EXCEPT ![0] = <<>>] /\ idx'[s] = [x EXCEPT ![0] = <<>>]
    <3>1. Agree(st)
      BY <2>3, <2>5, <2>8, <2>9, EmptyOk, NumbersOk DEF Agree
    <3>2. Sound(st) /\ Whole(st)
      BY <2>2, <2>5, <2>8, <2>9, <3>1, OpenedSound
    <3> QED
      BY <2>4, <2>6, <2>8, <3>2
  <2>10. CASE log'[s] = l /\ idx'[s] = x /\ writer'[s] = NoWriter /\ known' = known
    <3>1. Agree(st) /\ (known' => Whole(st))
      BY <2>3, <2>8, <2>10, NumbersOk DEF Agree, Whole
    <3>2. ~st.w.live
      BY <2>8, <2>10, FreshIs
    <3>3. Sound(st)
      BY <2>8, <3>1, <3>2 DEF Sound
    <3> QED
      BY <2>4, <2>6, <2>8, <3>1, <3>3
  <2> QED
    BY <2>2, <2>9, <2>10
<1>3. /\ log' \in [Streams -> LogFiles] /\ idx' \in [Streams -> IndexFiles]
      /\ writer' \in [Streams -> Writers]
  BY <1>2 DEF Spawn
<1>4. IndexCreated' /\ known' \in BOOLEAN /\ incs' \in Nat /\ seq' \in Nat /\ clock' \in Nat
  BY <1>1 DEF LogInv, IndexCreated
<1> QED
  BY <1>2, <1>3, <1>4 DEF LogInv, Sound, Whole, Agree, Writing, Backed, Stranded

LEMMA KilledStep ==
    ASSUME LogInv, Killed
    PROVE  LogInv'
<1>1. /\ known' = FALSE /\ UNCHANGED <<log, idx, seq, incs, clock>>
      /\ \A s \in Streams : writer'[s] = NoWriter
      /\ writer' \in [Streams -> Writers]
  BY FreshIs DEF Killed
<1>2. ASSUME NEW s \in Streams PROVE Sound(Stream(s)')
  <2>1. PICK st : st = Stream(s)'
    OBVIOUS
  <2>2. st = [log |-> log[s], idx |-> idx[s], w |-> NoWriter]
    BY <1>1, <2>1 DEF Stream
  <2>3. st \in StreamStates /\ st.log = log[s] /\ st.idx = idx[s] /\ ~st.w.live
    BY <2>2, StreamIs, FreshIs DEF StreamStates
  <2>4. Agree(st)
    BY <2>3, StreamIs DEF Sound, Agree
  <2> QED
    BY <2>1, <2>3, <2>4 DEF Sound
<1>3. IndexCreated' /\ known' \in BOOLEAN /\ incs' \in Nat /\ seq' \in Nat /\ clock' \in Nat
  BY <1>1 DEF LogInv, IndexCreated
<1> QED
  BY <1>1, <1>2, <1>3 DEF LogInv, Sound, Whole, Agree, Writing, Backed, Stranded

LEMMA UnchangedStep ==
    ASSUME LogInv, UNCHANGED <<log, idx, writer, seq, known, incs, clock>>
    PROVE  LogInv'
<1>1. \A s \in Streams : Stream(s)' = Stream(s)
  BY DEF Stream
<1>2. ASSUME NEW s \in Streams
      PROVE  Sound(Stream(s)') /\ (known' /\ ~writer'[s].live => Whole(Stream(s)'))
  BY <1>1 DEF LogInv
<1>3. /\ IndexCreated' /\ known' \in BOOLEAN /\ incs' \in Nat /\ seq' \in Nat /\ clock' \in Nat
      /\ log' \in [Streams -> LogFiles] /\ idx' \in [Streams -> IndexFiles]
      /\ writer' \in [Streams -> Writers]
  BY DEF LogInv, IndexCreated
<1> QED
  BY <1>2, <1>3 DEF LogInv, Sound, Whole, Agree, Writing, Backed, Stranded

LEMMA LogStep ==
    ASSUME LogInv, [Next]_vars
    PROVE  LogInv'
<1>1. ASSUME NEW s \in Streams, NEW len \in Lens, NEW okLog \in Creates("log"),
             NEW okIdx \in Creates("idx"), WriteLine(s, len, okLog, okIdx)
      PROVE  LogInv'
  <2>1. okLog \in BOOLEAN /\ okIdx = TRUE
    BY DEF Creates, LogInv, IndexCreated
  <2> QED
    BY <1>1, <2>1, WriteLineStep
<1>2. CASE UNCHANGED vars
  BY <1>2, UnchangedStep DEF vars
<1> QED
  BY <1>1, <1>2, EndCaptureStep, SpawnStep, KilledStep DEF Next

LEMMA LogInit ==
    ASSUME IndexCreated, Init
    PROVE  LogInv
<1>1. /\ log \in [Streams -> LogFiles] /\ idx \in [Streams -> IndexFiles]
      /\ writer \in [Streams -> Writers]
      /\ \A s \in Streams : /\ writer[s] = NoWriter
                           /\ \A i \in Numbers : log[s][i] = Missing /\ idx[s][i] = Missing
  BY FreshIs DEF Init, LogFiles, IndexFiles
<1>2. ASSUME NEW s \in Streams PROVE Sound(Stream(s))
  <2>1. /\ Stream(s) \in StreamStates
        /\ Stream(s).log = log[s] /\ Stream(s).idx = idx[s] /\ ~Stream(s).w.live
    BY <1>1, FreshIs DEF Stream, StreamStates
  <2>2. Agree(Stream(s))
    BY <1>1, <2>1, EmptyOk DEF Agree
  <2> QED
    BY <2>1, <2>2 DEF Sound
<1> QED
  BY <1>1, <1>2 DEF LogInv, Init

LEMMA LogInvMaps ==
    ASSUME LogInv
    PROVE  IndexMaps
<1> SUFFICES ASSUME NEW s \in Streams, NEW i \in Numbers,
                    log[s][i] # Missing, idx[s][i] # Missing
             PROVE  /\ Len(idx[s][i]) <= Len(log[s][i])
                    /\ \A k \in 1..Len(idx[s][i]) : Marks(idx[s][i][k], log[s][i][k])
                    /\ i > 0 => Len(idx[s][i]) = Len(log[s][i])
                    /\ i = 0 /\ writer[s].live =>
                          /\ Len(log[s][i]) = Len(idx[s][i]) + Len(writer[s].buf)
                          /\ Len(writer[s].buf) < FlushEvery
  BY DEF IndexMaps
<1>1. /\ Paired(log[s][i], idx[s][i]) /\ (i > 0 => Complete(log[s][i], idx[s][i]))
      /\ writer[s].live => Writing(Stream(s)) \/ Stranded(Stream(s))
  BY StreamIs DEF Sound, Agree
<1>2. ASSUME i = 0, writer[s].live
      PROVE  /\ Len(log[s][i]) = Len(idx[s][i]) + Len(writer[s].buf)
             /\ Len(writer[s].buf) < FlushEvery
  <2>1. Writing(Stream(s))
    BY <1>1, <1>2, StreamIs DEF Stranded
  <2> QED
    BY <1>2, <2>1, StreamIs DEF Writing, Backed
<1> QED
  BY <1>1, <1>2 DEF Paired, Complete

LEMMA LogInvType ==
    ASSUME LogInv
    PROVE  TypeOK
BY DEF LogInv, TypeOK, LogFiles, IndexFiles, Writers

(* The index maps line numbers to offsets, through rotations, respawns and *)
(* daemons killed with records unflushed, whatever the sizes and however   *)
(* many incarnations there are, and also when a log cannot be created      *)
(* again after a rotation.  When that happens to an index, the code goes   *)
(* on writing records to the rotated one, and the claim fails.             *)
THEOREM IndexMapsHolds == IndexCreated /\ Spec => [](TypeOK /\ IndexMaps)
<1>1. IndexCreated /\ Init => LogInv
  BY LogInit
<1>2. LogInv /\ [Next]_vars => LogInv'
  BY LogStep
<1>3. LogInv => TypeOK /\ IndexMaps
  BY LogInvMaps, LogInvType
<1> QED
  BY <1>1, <1>2, <1>3, PTL DEF Spec

-----------------------------------------------------------------------------
(* What rotation deletes                                                   *)

(* Numbers are used without gaps, every line was written before now, and a *)
(* higher number has older lines.                                          *)
NoGap(files) ==
    \A i, j \in Numbers : j <= i /\ files[i] # Missing => files[j] # Missing
Past(files, now) ==
    \A i \in Numbers : files[i] # Missing =>
        \A k \in 1..Len(files[i]) : files[i][k].at < now
Older(files) ==
    \A i, j \in Numbers : j < i /\ files[i] # Missing /\ files[j] # Missing =>
        \A k \in 1..Len(files[i]), m \in 1..Len(files[j]) :
            files[i][k].at < files[j][m].at
InOrder(files, now) ==
    files \in LogFiles /\ NoGap(files) /\ Past(files, now) /\ Older(files)

(* No rotation fails to create its files.                                  *)
Unfailing == Failing = {}

OrderInv ==
    /\ Unfailing /\ LogInv
    /\ \A s \in Streams : InOrder(log[s], clock) /\ (writer[s].live => writer[s].file)

LEMMA LineAt ==
    ASSUME NEW files \in LogFiles, NEW i \in Numbers, files[i] # Missing,
           NEW k \in 1..Len(files[i])
    PROVE  files[i][k].at \in Nat
<1>1. files[i] \in Seq(Lines)
  BY DEF LogFiles
<1>2. files[i][k] \in Lines
  BY <1>1
<1> QED
  BY <1>2 DEF Lines

(* Truncating the current file, as a respawn does.                         *)
LEMMA EmptiedInOrder ==
    ASSUME NEW files, NEW now \in Nat, InOrder(files, now)
    PROVE  InOrder(Emptied(files), now)
<1> DEFINE e == Emptied(files)
<1>1. e \in LogFiles
  BY EmptyOk, NumbersOk DEF Emptied, InOrder, LogFiles
<1>2. e[0] = <<>> /\ Len(e[0]) = 0 /\ \A i \in Numbers : i # 0 => e[i] = files[i]
  BY NumbersOk DEF Emptied, InOrder, LogFiles
<1> HIDE DEF e
<1>3. NoGap(e)
  <2> SUFFICES ASSUME NEW i \in Numbers, NEW j \in Numbers, j <= i, e[i] # Missing, j # 0
               PROVE  e[j] # Missing
    BY <1>2, EmptyOk DEF NoGap
  <2>1. i # 0
    BY NumbersOk
  <2> QED
    BY <1>2, <2>1 DEF NoGap, InOrder
<1>4. Past(e, now)
  BY <1>2 DEF Past, InOrder
<1>5. Older(e)
  <2> SUFFICES ASSUME NEW i \in Numbers, NEW j \in Numbers, j < i,
                      e[i] # Missing, e[j] # Missing,
                      NEW k \in 1..Len(e[i]), NEW m \in 1..Len(e[j])
               PROVE  e[i][k].at < e[j][m].at
    BY DEF Older
  <2>1. i # 0 /\ j # 0
    BY <1>2, NumbersOk
  <2> QED
    BY <1>2, <2>1 DEF Older, InOrder
<1> QED
  BY <1>1, <1>3, <1>4, <1>5 DEF InOrder, e

(* Without gaps a cascade moves every file up by one.                      *)
LEMMA CascadeShifts ==
    ASSUME NEW files \in LogFiles, NoGap(files)
    PROVE  /\ Emptied(Cascade(files)) \in LogFiles
           /\ Emptied(Cascade(files))[0] = <<>>
           /\ \A i \in Numbers : i # 0 =>
                 i - 1 \in Numbers /\ Emptied(Cascade(files))[i] = files[i - 1]
<1>1. Cascade(files) \in LogFiles
  BY CascadeType DEF LogFiles
<1>2. /\ Emptied(Cascade(files)) \in LogFiles
      /\ Emptied(Cascade(files))[0] = <<>>
      /\ \A i \in Numbers : i # 0 => Emptied(Cascade(files))[i] = Cascade(files)[i]
  BY <1>1, EmptyOk, NumbersOk DEF Emptied, LogFiles
<1>3. ASSUME NEW i \in Numbers, i # 0
      PROVE  i - 1 \in Numbers /\ Cascade(files)[i] = files[i - 1]
  <2>1. i - 1 \in Numbers /\ i - 1 <= i
    BY <1>3, NumbersOk
  <2>2. files[i - 1] = Missing => files[i] = Missing
    BY <2>1 DEF NoGap
  <2> QED
    BY <1>3, <2>1, <2>2, CascadeIs
<1> QED
  BY <1>2, <1>3

LEMMA CascadeInOrder ==
    ASSUME NEW files, NEW now \in Nat, InOrder(files, now)
    PROVE  InOrder(Emptied(Cascade(files)), now)
<1> DEFINE e == Emptied(Cascade(files))
<1>1. /\ e \in LogFiles /\ e[0] = <<>> /\ Len(e[0]) = 0
      /\ \A i \in Numbers : i # 0 => i - 1 \in Numbers /\ e[i] = files[i - 1]
  BY CascadeShifts DEF InOrder
<1> HIDE DEF e
<1>2. NoGap(e)
  <2> SUFFICES ASSUME NEW i \in Numbers, NEW j \in Numbers, j <= i, e[i] # Missing
               PROVE  e[j] # Missing
    BY DEF NoGap
  <2>1. CASE j = 0
    BY <1>1, <2>1, EmptyOk
  <2>2. CASE j # 0
    <3>1. i # 0 /\ j - 1 <= i - 1
      BY <2>2, NumbersOk
    <3> QED
      BY <1>1, <2>2, <3>1 DEF NoGap, InOrder
  <2> QED
    BY <2>1, <2>2
<1>3. Past(e, now)
  <2> SUFFICES ASSUME NEW i \in Numbers, e[i] # Missing, NEW k \in 1..Len(e[i])
               PROVE  e[i][k].at < now
    BY DEF Past
  <2>1. i # 0
    BY <1>1
  <2> QED
    BY <1>1, <2>1 DEF Past, InOrder
<1>4. Older(e)
  <2> SUFFICES ASSUME NEW i \in Numbers, NEW j \in Numbers, j < i,
                      e[i] # Missing, e[j] # Missing,
                      NEW k \in 1..Len(e[i]), NEW m \in 1..Len(e[j])
               PROVE  e[i][k].at < e[j][m].at
    BY DEF Older
  <2>1. i # 0 /\ j # 0
    BY <1>1, NumbersOk
  <2>2. /\ i - 1 \in Numbers /\ j - 1 \in Numbers /\ j - 1 < i - 1
        /\ e[i] = files[i - 1] /\ e[j] = files[j - 1]
    BY <1>1, <2>1, NumbersOk
  <2> QED
    BY <2>2 DEF Older, InOrder
<1> QED
  BY <1>1, <1>2, <1>3, <1>4 DEF InOrder, e

(* A new line is the youngest.                                             *)
LEMMA AppendInOrder ==
    ASSUME NEW files, NEW now \in Nat, InOrder(files, now), files[0] \in Seq(Lines),
           NEW line \in Lines, line.at = now
    PROVE  InOrder([files EXCEPT ![0] = Append(@, line)], now + 1)
<1> DEFINE a == Append(files[0], line)
           e == [files EXCEPT ![0] = Append(@, line)]
<1>1. /\ a \in Seq(Lines) /\ Len(a) = Len(files[0]) + 1 /\ a[Len(files[0]) + 1] = line
      /\ \A k \in 1..Len(files[0]) : a[k] = files[0][k]
      /\ Len(files[0]) \in Nat
  BY AppendProperties, LenProperties
<1> HIDE DEF a
<1>2. e = [files EXCEPT ![0] = a] /\ files \in LogFiles
  BY DEF a, InOrder
<1>3. /\ e \in LogFiles /\ e[0] = a /\ a # Missing /\ files[0] # Missing
      /\ \A i \in Numbers : i # 0 => e[i] = files[i]
  BY <1>1, <1>2, NumbersOk, MissingAssumption DEF LogFiles
<1> HIDE DEF e
<1>4. NoGap(e)
  BY <1>3 DEF NoGap, InOrder
<1>5. ASSUME NEW i \in Numbers, e[i] # Missing, NEW k \in 1..Len(e[i])
      PROVE  /\ e[i][k].at \in Nat /\ e[i][k].at < now + 1
             /\ i # 0 => e[i][k].at < now
  <2>1. e[i][k].at \in Nat
    BY <1>3, <1>5, LineAt
  <2>2. CASE i # 0
    <3>1. e[i][k].at < now
      BY <1>3, <1>5, <2>2 DEF InOrder, Past
    <3> QED
      BY <2>1, <3>1
  <2>3. CASE i = 0 /\ k = Len(files[0]) + 1
    BY <1>1, <1>3, <2>1, <2>3
  <2>4. CASE i = 0 /\ k \in 1..Len(files[0])
    <3>1. e[i][k].at < now
      BY <1>1, <1>3, <2>4 DEF InOrder, Past
    <3> QED
      BY <2>1, <2>4, <3>1
  <2>5. i = 0 => k \in 1..Len(files[0]) \/ k = Len(files[0]) + 1
    BY <1>1, <1>3
  <2> QED
    BY <2>2, <2>3, <2>4, <2>5
<1>6. Past(e, now + 1)
  BY <1>5 DEF Past
<1>7. Older(e)
  <2> SUFFICES ASSUME NEW i \in Numbers, NEW j \in Numbers, j < i,
                      e[i] # Missing, e[j] # Missing,
                      NEW k \in 1..Len(e[i]), NEW m \in 1..Len(e[j])
               PROVE  e[i][k].at < e[j][m].at
    BY DEF Older
  <2>1. i # 0 /\ e[i] = files[i]
    BY <1>3, NumbersOk
  <2>2. CASE j # 0
    BY <1>3, <2>1, <2>2 DEF Older, InOrder
  <2>3. CASE j = 0 /\ m \in 1..Len(files[0])
    <3>1. e[j][m] = files[0][m]
      BY <1>1, <1>3, <2>3
    <3> QED
      BY <1>3, <2>1, <2>3, <3>1 DEF Older, InOrder
  <2>4. CASE j = 0 /\ m = Len(files[0]) + 1
    <3>1. e[j][m].at = now
      BY <1>1, <1>3, <2>4
    <3> QED
      BY <1>5, <2>1, <3>1
  <2>5. j = 0 => m \in 1..Len(files[0]) \/ m = Len(files[0]) + 1
    BY <1>1, <1>3
  <2> QED
    BY <2>2, <2>3, <2>4, <2>5
<1> QED
  BY <1>3, <1>4, <1>6, <1>7 DEF InOrder, e

(* Where a line is on disk.                                                *)
LEMMA OnDiskIs ==
    ASSUME NEW s \in Streams, NEW e
    PROVE  /\ e \in OnDisk(s) <=>
                \E i \in Numbers : /\ log[s][i] # Missing
                                  /\ \E k \in DOMAIN log[s][i] : e = log[s][i][k]
           /\ e \in OnDisk(s)' <=>
                \E i \in Numbers : /\ log'[s][i] # Missing
                                  /\ \E k \in DOMAIN log'[s][i] : e = log'[s][i][k]
<1>1. ASSUME NEW files
      PROVE  e \in UNION {{files[i][k] : k \in DOMAIN files[i]} :
                           i \in {j \in Numbers : files[j] # Missing}} <=>
             \E i \in Numbers : files[i] # Missing /\ \E k \in DOMAIN files[i] : e = files[i][k]
  OBVIOUS
<1>2. e \in OnDisk(s) <=>
        \E i \in Numbers : log[s][i] # Missing /\ \E k \in DOMAIN log[s][i] : e = log[s][i][k]
  BY <1>1 DEF OnDisk
<1>3. e \in OnDisk(s)' <=>
        \E i \in Numbers : log'[s][i] # Missing /\ \E k \in DOMAIN log'[s][i] : e = log'[s][i][k]
  BY <1>1 DEF OnDisk
<1> QED
  BY <1>2, <1>3

(* What a step may delete, as OldestLost states it.                        *)
LosesOldest(s) ==
    \A gone \in OnDisk(s) \ OnDisk(s)' :
        /\ \A i \in Numbers : log'[s][i] # Missing
        /\ \A kept \in OnDisk(s)' : gone.at < kept.at

LEMMA LosesNothing ==
    ASSUME NEW s \in Streams, log'[s] = log[s]
    PROVE  LosesOldest(s)
<1>1. OnDisk(s)' = OnDisk(s)
  BY DEF OnDisk
<1> QED
  BY <1>1 DEF LosesOldest

(* Writing a line to what was there loses nothing; writing it after a      *)
(* cascade loses the last file, when every number is in use.               *)
LEMMA WriteLoses ==
    ASSUME NEW s \in Streams, NEW now \in Nat, InOrder(log[s], now),
           NEW base \in {log[s], Emptied(Cascade(log[s]))}, base[0] \in Seq(Lines),
           NEW line \in Lines, line.at = now,
           log'[s] = [base EXCEPT ![0] = Append(@, line)]
    PROVE  LosesOldest(s)
<1> DEFINE f == log[s]
           g == log'[s]
           a == Append(base[0], line)
<1>1. /\ a \in Seq(Lines) /\ Len(base[0]) \in Nat /\ Len(a) = Len(base[0]) + 1
      /\ \A k \in 1..Len(base[0]) : a[k] = base[0][k]
      /\ a[Len(base[0]) + 1] = line
  BY AppendProperties, LenProperties
<1> HIDE DEF a
<1>2. f \in LogFiles /\ base \in LogFiles
  BY CascadeShifts DEF InOrder
<1>3. g[0] = a /\ a # Missing /\ \A i \in Numbers : i # 0 => g[i] = base[i]
  BY <1>1, <1>2, NumbersOk, MissingAssumption DEF a, LogFiles
<1> HIDE DEF f, g
<1>4. SUFFICES ASSUME NEW j \in Numbers, f[j] # Missing, NEW k \in DOMAIN f[j],
                      f[j][k] \notin OnDisk(s)'
               PROVE  /\ \A i \in Numbers : g[i] # Missing
                      /\ \A kept \in OnDisk(s)' : f[j][k].at < kept.at
  BY OnDiskIs DEF LosesOldest, f, g
<1>5. \A i \in Numbers : g[i] # Missing => \A m \in DOMAIN g[i] : f[j][k] # g[i][m]
  BY <1>4, OnDiskIs DEF g
<1>6. k \in 1..Len(f[j]) /\ f[j] \in Seq(Lines) /\ f[j][k].at \in Nat /\ f[j][k].at < now
  <2>1. f[j] \in Seq(Lines)
    BY <1>2, <1>4 DEF LogFiles
  <2>2. k \in 1..Len(f[j])
    BY <1>4, <2>1, LenProperties
  <2> QED
    BY <1>2, <1>4, <2>1, <2>2, LineAt DEF InOrder, Past, f
<1>7. base # f
  <2> SUFFICES ASSUME base = f PROVE FALSE
    OBVIOUS
  <2>1. CASE j # 0
    BY <1>3, <1>4, <1>5, <2>1
  <2>2. CASE j = 0
    <3>1. k \in 1..Len(a) /\ a[k] = f[j][k]
      BY <1>1, <1>6, <2>2
    <3>2. k \in DOMAIN a
      BY <1>1, <3>1, LenProperties
    <3> QED
      BY <1>3, <1>5, <3>1, <3>2, NumbersOk
  <2> QED
    BY <2>1, <2>2
<1>8. /\ base[0] = <<>>
      /\ \A i \in Numbers : i # 0 => i - 1 \in Numbers /\ base[i] = f[i - 1]
  BY <1>2, <1>7, CascadeShifts DEF InOrder, f
<1>9. j = MaxRotated
  <2> SUFFICES ASSUME j # MaxRotated PROVE FALSE
    OBVIOUS
  <2>1. j + 1 \in Numbers /\ j + 1 # 0 /\ (j + 1) - 1 = j
    BY NumbersOk, SizesAssumption
  <2>2. g[j + 1] = f[j]
    BY <1>3, <1>8, <2>1
  <2> QED
    BY <1>4, <1>5, <2>1, <2>2
<1>10. \A i \in Numbers : f[i] # Missing
  BY <1>4, <1>9, NumbersOk DEF InOrder, NoGap, f
<1>11. ASSUME NEW i \in Numbers PROVE g[i] # Missing
  BY <1>3, <1>8, <1>10
<1>12. ASSUME NEW i \in Numbers, NEW m \in DOMAIN g[i] PROVE f[j][k].at < g[i][m].at
  <2>1. CASE i = 0
    <3>1. Len(a) = 1 /\ a[1] = line
      BY <1>1, <1>8
    <3>2. DOMAIN a = 1..Len(a)
      BY <1>1, LenProperties
    <3>3. m = 1
      BY <1>3, <1>12, <2>1, <3>1, <3>2
    <3> QED
      BY <1>3, <1>6, <2>1, <3>1, <3>3
  <2>2. CASE i # 0
    <3>1. i - 1 \in Numbers /\ i - 1 < j /\ g[i] = f[i - 1] /\ f[i - 1] # Missing
      BY <1>3, <1>8, <1>9, <1>10, <2>2, NumbersOk
    <3>2. f[i - 1] \in Seq(Lines)
      BY <1>2, <3>1 DEF LogFiles
    <3>3. m \in 1..Len(f[i - 1])
      BY <1>12, <3>1, <3>2, LenProperties
    <3> QED
      BY <1>4, <1>6, <3>1, <3>3 DEF InOrder, Older, f
  <2> QED
    BY <2>1, <2>2
<1>13. ASSUME NEW kept \in OnDisk(s)' PROVE f[j][k].at < kept.at
  <2>1. \E i \in Numbers : log'[s][i] # Missing /\ \E m \in DOMAIN log'[s][i] : kept = log'[s][i][m]
    BY ONLY <1>13, s \in Streams, OnDiskIs
  <2>2. PICK i \in Numbers : g[i] # Missing /\ \E m \in DOMAIN g[i] : kept = g[i][m]
    BY <2>1 DEF g
  <2> QED
    BY <1>12, <2>2
<1> QED
  BY <1>11, <1>13

LEMMA OrderStep ==
    ASSUME OrderInv, [Next]_vars
    PROVE  OrderInv' /\ \A s \in Streams : writer[s].live => LosesOldest(s)
<1>1. LogInv' /\ Unfailing' /\ LogInv /\ clock \in Nat
  BY LogStep DEF OrderInv, Unfailing, LogInv
<1>2. ASSUME NEW s \in Streams, NEW len \in Lens, NEW okLog \in Creates("log"),
             NEW okIdx \in Creates("idx"), WriteLine(s, len, okLog, okIdx)
      PROVE  OrderInv' /\ \A t \in Streams : LosesOldest(t)
  <2>1. okLog = TRUE /\ okIdx = TRUE
    BY DEF Creates, OrderInv, Unfailing
  <2>2. writer[s].live /\ clock' = clock + 1
    BY <1>2 DEF WriteLine
  <2>3. writer[s].file
    BY <2>2 DEF OrderInv
  <2>4. PICK st :
           /\ SetStream(s, st) /\ st.w.file
           /\ \E base \in {log[s], Emptied(Cascade(log[s]))}, line \in Lines :
                 /\ base[0] \in Seq(Lines) /\ Latest(line, base[0])
                 /\ st.log = [base EXCEPT ![0] = Append(@, line)]
    BY <1>1, <1>2, <2>1, <2>3, WriteLineIs
  <2>5. PICK base \in {log[s], Emptied(Cascade(log[s]))}, line \in Lines :
           /\ base[0] \in Seq(Lines) /\ Latest(line, base[0])
           /\ st.log = [base EXCEPT ![0] = Append(@, line)]
    BY <2>4
  <2>6. /\ log'[s] = st.log /\ writer'[s].file
        /\ \A t \in Streams : t # s => log'[t] = log[t] /\ writer'[t] = writer[t]
    BY <1>1, <2>4 DEF SetStream, LogInv
  <2>7. InOrder(base, clock)
    BY <1>1, EmptiedInOrder, CascadeInOrder DEF OrderInv
  <2>8. InOrder(log'[s], clock')
    BY <1>1, <2>2, <2>5, <2>6, <2>7, AppendInOrder DEF Latest
  <2>9. LosesOldest(s)
    BY <1>1, <2>5, <2>6, WriteLoses DEF OrderInv, Latest
  <2>10. ASSUME NEW t \in Streams, t # s
         PROVE  InOrder(log'[t], clock') /\ (writer'[t].live => writer'[t].file) /\ LosesOldest(t)
    <3>1. InOrder(log[t], clock + 1)
      <4>1. InOrder(log[t], clock)
        BY DEF OrderInv
      <4>2. Past(log[t], clock + 1)
        <5> SUFFICES ASSUME NEW i \in Numbers, log[t][i] # Missing, NEW k \in 1..Len(log[t][i])
                     PROVE  log[t][i][k].at < clock + 1
          BY DEF Past
        <5>1. log[t][i][k].at \in Nat /\ log[t][i][k].at < clock
          BY <4>1, LineAt DEF InOrder, Past
        <5> QED
          BY <1>1, <5>1
      <4> QED
        BY <4>1, <4>2 DEF InOrder
    <3> QED
      BY <2>2, <2>6, <2>10, <3>1, LosesNothing DEF OrderInv
  <2> QED
    BY <1>1, <2>6, <2>8, <2>9, <2>10 DEF OrderInv
<1>3. ASSUME NEW s \in Streams, EndCapture(s)
      PROVE  OrderInv' /\ \A t \in Streams : LosesOldest(t)
  <2>1. log' = log /\ clock' = clock
    BY <1>1, <1>3, EndCaptureStep DEF EndCapture
  <2>2. \A t \in Streams : writer'[t].live => writer'[t].file
    <3>1. \A t \in Streams : t # s => writer'[t] = writer[t]
      BY <1>1, <1>3 DEF EndCapture, SetStream, LogInv
    <3>2. ~writer'[s].live
      <4>1. PICK f : f = Flushed(Stream(s))
        OBVIOUS
      <4>2. f \in StreamStates
        BY <1>1, <1>3, <4>1, StreamIs, FlushSound DEF EndCapture, Sound, Writing
      <4>3. writer'[s] = [f EXCEPT !.w.live = FALSE].w
        BY <1>1, <1>3, <4>1 DEF EndCapture, SetStream, LogInv
      <4> QED
        BY <4>2, <4>3 DEF StreamStates, Writers
    <3> QED
      BY <3>1, <3>2 DEF OrderInv
  <2> QED
    BY <1>1, <2>1, <2>2, LosesNothing DEF OrderInv
<1>4. ASSUME NEW rotate \in BOOLEAN, NEW started \in BOOLEAN, NEW made \in Makes,
             Spawn(rotate, started, made)
      PROVE  OrderInv' /\ \A t \in Streams : ~writer[t].live
  <2>1. ASSUME NEW t \in Streams
        PROVE  InOrder(log'[t], clock') /\ (writer'[t].live => writer'[t].file)
    <3>1. clock' = clock /\ writer'[t] \in {Fresh, NoWriter}
      BY <1>4 DEF Spawn
    <3>2. log'[t] \in {Emptied(log[t]), Emptied(Cascade(log[t]))}
      <4>1. made > FilesBefore(t)
        BY MakesBoth DEF OrderInv, Unfailing
      <4> QED
        BY <1>4, <4>1 DEF Spawn, Opened, Kept, Emptied
    <3>3. InOrder(log'[t], clock)
      BY <1>1, <3>2, EmptiedInOrder, CascadeInOrder DEF OrderInv
    <3> QED
      BY <3>1, <3>3, FreshIs
  <2> QED
    BY <1>1, <1>4, <2>1 DEF OrderInv, Spawn
<1>5. CASE Killed
  <2>1. log' = log /\ clock' = clock /\ \A t \in Streams : ~writer'[t].live
    BY <1>5, FreshIs DEF Killed
  <2> QED
    BY <1>1, <2>1, LosesNothing DEF OrderInv
<1>6. CASE UNCHANGED vars
  <2>1. log' = log /\ clock' = clock /\ writer' = writer
    BY <1>6 DEF vars
  <2> QED
    BY <1>1, <2>1, LosesNothing DEF OrderInv
<1> QED
  BY <1>2, <1>3, <1>4, <1>5, <1>6 DEF Next

(* While a capture task runs, rotation deletes a line only when every      *)
(* number is in use, and only the oldest ones of its stream, for every     *)
(* size and number of files.  After a failure to create the log again a    *)
(* number is unused, so the first half needs that there is none.           *)
THEOREM OldestLostHolds == Unfailing /\ Spec => OldestLost
<1>1. Unfailing /\ Init => OrderInv
  <2> SUFFICES ASSUME Unfailing, Init PROVE OrderInv
    OBVIOUS
  <2>1. LogInv
    BY LogInit DEF Unfailing, IndexCreated
  <2>2. \A s \in Streams : ~writer[s].live /\ log[s] \in LogFiles
                          /\ \A i \in Numbers : log[s][i] = Missing
    BY <2>1, FreshIs DEF Init, LogInv
  <2> QED
    BY <2>1, <2>2 DEF OrderInv, InOrder, NoGap, Past, Older
<1>2. OrderInv /\ [Next]_vars => OrderInv'
  BY OrderStep
<1>3. OrderInv /\ [Next]_vars =>
        [\A s \in Streams : writer[s].live =>
            \A gone \in OnDisk(s) \ OnDisk(s)' :
                /\ \A i \in Numbers : log'[s][i] # Missing
                /\ \A kept \in OnDisk(s)' : gone.at < kept.at]_vars
  BY OrderStep DEF LosesOldest
<1> QED
  BY <1>1, <1>2, <1>3, PTL DEF Spec, OldestLost

-----------------------------------------------------------------------------
(* Where lines are in their files, and what marks them                     *)

(* In a file lines follow one another in time and on disk.                 *)
Laid(f) ==
    \A j, k \in 1..Len(f) : j < k => f[j].at < f[k].at /\ f[j].off < f[k].off
AllLaid(files) == \A i \in Numbers : files[i] # Missing => Laid(files[i])

(* No two lines were written at once, lines of one incarnation have        *)
(* numbers in the order they were written, and the next number is free.    *)
InTurn(l, m) ==
    /\ l.at = m.at => l = m
    /\ l.inc = m.inc /\ l.at < m.at => l.seq < m.seq
Stamped ==
    /\ \A s, t \in Streams : \A l \in OnDisk(s), m \in OnDisk(t) :
          InTurn(l, m) /\ (l.at = m.at => s = t)
    /\ \A s \in Streams : \A l \in OnDisk(s) :
          l.at < clock /\ l.inc <= incs /\ (l.inc = incs => l.seq < seq)

ReadInv ==
    /\ OrderInv /\ Stamped
    /\ \A s \in Streams : AllLaid(log[s])

LEMMA LinesFields ==
    \A l \in Lines : /\ l.at \in Nat /\ l.inc \in Nat /\ l.off \in Nat /\ l.seq \in Nat
                     /\ l.len \in Nat /\ l.len > 0
<1>1. \A l \in Lines : /\ l.at \in Nat /\ l.inc \in Nat /\ l.off \in Nat /\ l.seq \in Nat
                       /\ l.len \in Lens
  BY DEF Lines
<1>2. \A n \in Lens : n \in Nat /\ n > 0
  BY SizesAssumption
<1> QED
  BY ONLY <1>1, <1>2

(* Files after a step: those before, moved, dropped or emptied.            *)
Moves(files, base) ==
    \A i \in Numbers : base[i] = Missing \/ base[i] = <<>> \/ \E j \in Numbers : base[i] = files[j]
Held(files) == UNION {{files[i][k] : k \in DOMAIN files[i]} :
                       i \in {j \in Numbers : files[j] # Missing}}

LEMMA HeldIs ==
    ASSUME NEW files, NEW e
    PROVE  e \in Held(files) <=>
             \E i \in Numbers : files[i] # Missing /\ \E k \in DOMAIN files[i] : e = files[i][k]
BY DEF Held

LEMMA OnDiskLines ==
    ASSUME LogInv, NEW s \in Streams
    PROVE  OnDisk(s) = Held(log[s]) /\ OnDisk(s) \subseteq Lines
<1>1. OnDisk(s) = Held(log[s])
  BY DEF OnDisk, Held
<1>2. ASSUME NEW i \in Numbers, log[s][i] # Missing, NEW k \in DOMAIN log[s][i]
      PROVE  log[s][i][k] \in Lines
  <2>1. log[s][i] \in Seq(Lines)
    BY <1>2, StreamIs DEF LogFiles
  <2> QED
    BY <1>2, <2>1
<1>3. \A e \in OnDisk(s) : e \in Lines
  BY <1>1, <1>2, HeldIs
<1> QED
  BY <1>1, <1>3

LEMMA MovesOk ==
    ASSUME NEW files \in LogFiles, NoGap(files)
    PROVE  /\ Moves(files, files) /\ Moves(files, Emptied(files))
           /\ Moves(files, Emptied(Cascade(files)))
<1>1. Moves(files, files)
  BY DEF Moves
<1>2. Moves(files, Emptied(files))
  <2>1. \A i \in Numbers : Emptied(files)[i] = IF i = 0 THEN <<>> ELSE files[i]
    BY NumbersOk DEF Emptied, LogFiles
  <2> QED
    BY <2>1 DEF Moves
<1>3. Moves(files, Emptied(Cascade(files)))
  BY CascadeShifts DEF Moves
<1> QED
  BY <1>1, <1>2, <1>3

LEMMA MovesKeep ==
    ASSUME NEW files, NEW base, Moves(files, base), AllLaid(files)
    PROVE  AllLaid(base) /\ Held(base) \subseteq Held(files)
<1>1. Laid(<<>>) /\ DOMAIN <<>> = {}
  BY DEF Laid
<1>2. AllLaid(base)
  BY <1>1 DEF Moves, AllLaid
<1>3. ASSUME NEW e \in Held(base) PROVE e \in Held(files)
  <2>1. PICK i \in Numbers : base[i] # Missing /\ \E k \in DOMAIN base[i] : e = base[i][k]
    BY HeldIs
  <2>2. PICK j \in Numbers : base[i] = files[j]
    BY <1>1, <2>1 DEF Moves
  <2> QED
    BY <2>1, <2>2, HeldIs
<1> QED
  BY <1>2, <1>3

LEMMA AppendLaid ==
    ASSUME NEW f \in Seq(Lines), Laid(f), NEW line \in Lines, line.off = Size(f),
           \A k \in 1..Len(f) : f[k].at < line.at
    PROVE  Laid(Append(f, line))
<1>1. PICK n \in Nat : n = Len(f)
  BY LenProperties
<1>2. PICK g : g = Append(f, line)
  OBVIOUS
<1>3. Len(g) = n + 1 /\ g[n + 1] = line /\ \A k \in 1..n : g[k] = f[k]
  BY <1>1, <1>2, AppendProperties
<1>4. ASSUME NEW k \in 1..n PROVE f[k].off < line.off
  <2>1. n \in 1..n /\ f # <<>> /\ f[n] \in Lines /\ f[k] \in Lines
    BY <1>1
  <2>2. line.off = f[n].off + f[n].len
    BY <1>1, <2>1 DEF Size
  <2>3. f[n].off \in Nat /\ f[n].len \in Nat /\ f[n].len > 0 /\ f[k].off \in Nat
    BY <2>1, LinesFields
  <2>4. f[k].off <= f[n].off
    <3>1. CASE k = n
      BY <2>3, <3>1
    <3>2. CASE k # n
      <4>1. k < n
        BY <3>2
      <4> QED
        BY <1>1, <2>1, <2>3, <4>1 DEF Laid
    <3> QED
      BY <3>1, <3>2
  <2> QED
    BY <2>2, <2>3, <2>4
<1>5. ASSUME NEW j \in 1..(n + 1), NEW k \in 1..(n + 1), j < k
      PROVE  g[j].at < g[k].at /\ g[j].off < g[k].off
  <2>1. j \in 1..n
    BY <1>5
  <2>2. CASE k = n + 1
    BY <1>1, <1>3, <1>4, <2>1, <2>2
  <2>3. CASE k # n + 1
    <3>1. k \in 1..n
      BY <2>3
    <3> QED
      BY <1>1, <1>3, <1>5, <2>1, <3>1 DEF Laid
  <2> QED
    BY <2>2, <2>3
<1> QED
  BY <1>2, <1>3, <1>5 DEF Laid

(* A step that writes no line keeps ReadInv: lines only go.                *)
LEMMA NoLineStep ==
    ASSUME ReadInv, OrderInv', \A s \in Streams : Moves(log[s], log'[s]), clock' = clock,
           (incs' = incs /\ seq' = seq) \/ incs' = incs + 1
    PROVE  ReadInv'
<1>1. \A s \in Streams : AllLaid(log'[s]) /\ Held(log'[s]) \subseteq Held(log[s])
  BY MovesKeep DEF ReadInv
<1>2. LogInv /\ LogInv' /\ incs \in Nat
  BY DEF ReadInv, OrderInv, LogInv
<1>3. \A s \in Streams : OnDisk(s)' \subseteq OnDisk(s) /\ OnDisk(s) \subseteq Lines
  <2> SUFFICES ASSUME NEW s \in Streams
               PROVE  OnDisk(s)' \subseteq OnDisk(s) /\ OnDisk(s) \subseteq Lines
    OBVIOUS
  <2>1. OnDisk(s)' = Held(log'[s])
    BY DEF OnDisk, Held
  <2> QED
    BY <1>1, <1>2, <2>1, OnDiskLines
<1>4. ASSUME NEW s \in Streams, NEW l \in OnDisk(s)'
      PROVE  l.at < clock' /\ l.inc <= incs' /\ (l.inc = incs' => l.seq < seq')
  <2>1. l \in OnDisk(s) /\ l \in Lines
    BY <1>3, <1>4
  <2>2. l.at < clock /\ l.inc <= incs /\ (l.inc = incs => l.seq < seq) /\ l.inc \in Nat
    BY <2>1, LinesFields DEF ReadInv, Stamped
  <2> QED
    BY <1>2, <2>2
<1>5. ASSUME NEW s \in Streams, NEW t \in Streams, NEW l \in OnDisk(s)', NEW m \in OnDisk(t)'
      PROVE  InTurn(l, m) /\ (l.at = m.at => s = t)
  BY <1>3, <1>5 DEF ReadInv, Stamped
<1>6. Stamped'
  BY <1>4, <1>5 DEF Stamped
<1> QED
  BY <1>1, <1>6 DEF ReadInv

LEMMA WrittenLine ==
    ASSUME ReadInv, OrderInv', NEW s \in Streams, clock' = clock + 1,
           seq' = seq + 1, incs' = incs, \A t \in Streams : t # s => log'[t] = log[t],
           NEW base, Moves(log[s], base), base \in LogFiles, base[0] \in Seq(Lines),
           NEW line \in Lines, Latest(line, base[0]),
           log'[s] = [base EXCEPT ![0] = Append(@, line)]
    PROVE  ReadInv'
<1>1. LogInv /\ clock \in Nat /\ seq \in Nat /\ incs \in Nat
  BY DEF ReadInv, OrderInv, LogInv
<1>2. AllLaid(base) /\ Held(base) \subseteq Held(log[s]) /\ Held(log[s]) = OnDisk(s)
  BY <1>1, MovesKeep, OnDiskLines DEF ReadInv
<1>3. PICK f \in Seq(Lines) : f = base[0]
  OBVIOUS
<1>4. PICK n \in Nat : n = Len(f) /\ DOMAIN f = 1..n
  BY LenProperties
<1>5. PICK g \in Seq(Lines) : g = Append(f, line)
  BY AppendProperties
<1>6. /\ DOMAIN g = 1..(n + 1) /\ g[n + 1] = line /\ \A k \in 1..n : g[k] = f[k]
  BY <1>4, <1>5, AppendProperties, LenProperties
<1>7. f # Missing /\ g # Missing /\ 0 \in Numbers
  BY MissingAssumption, NumbersOk
<1>8. log'[s][0] = g /\ \A i \in Numbers : i # 0 => log'[s][i] = base[i]
  BY <1>3, <1>5, <1>7 DEF LogFiles
<1>9. \A k \in 1..n : f[k] \in OnDisk(s)
  BY <1>2, <1>3, <1>4, <1>7, HeldIs
<1>10. Laid(g)
  <2>1. \A k \in 1..n : f[k].at < line.at
    BY <1>9 DEF ReadInv, Stamped, Latest
  <2>2. Laid(f) /\ line.off = Size(f)
    BY <1>2, <1>3, <1>7 DEF AllLaid, Latest
  <2> QED
    BY <1>4, <1>5, <2>1, <2>2, AppendLaid
<1>11. AllLaid(log'[s])
  BY <1>2, <1>8, <1>10 DEF AllLaid
<1>12. ASSUME NEW l \in OnDisk(s)' PROVE l \in OnDisk(s) \/ l = line
  <2>1. OnDisk(s)' = Held(log'[s])
    BY DEF OnDisk, Held
  <2>2. PICK files : files = log'[s]
    OBVIOUS
  <2>3. l \in Held(files)
    BY <1>12, <2>1, <2>2
  <2>4. PICK i \in Numbers : files[i] # Missing /\ \E k \in DOMAIN files[i] : l = files[i][k]
    BY <2>3, HeldIs
  <2>5. CASE i = 0
    <3>1. PICK k \in 1..(n + 1) : l = g[k]
      BY <1>6, <1>8, <2>2, <2>4, <2>5
    <3>2. CASE k = n + 1
      BY <1>6, <3>1, <3>2
    <3>3. CASE k # n + 1
      <4>1. k \in 1..n
        BY <3>3
      <4> QED
        BY <1>6, <1>9, <3>1, <4>1
    <3> QED
      BY <3>2, <3>3
  <2>6. CASE i # 0
    <3>1. l \in Held(base)
      BY <1>8, <2>2, <2>4, <2>6, HeldIs
    <3> QED
      BY <1>2, <3>1
  <2> QED
    BY <2>5, <2>6
<1>13. \A t \in Streams : OnDisk(t) \subseteq Lines /\ (t # s => OnDisk(t)' = OnDisk(t))
  <2>1. \A t \in Streams : t # s => OnDisk(t)' = OnDisk(t)
    BY DEF OnDisk
  <2> QED
    BY <1>1, <2>1, OnDiskLines
<1>14. \A t \in Streams : \A l \in OnDisk(t)' : l \in OnDisk(t) \/ (l = line /\ t = s)
  BY <1>12, <1>13
<1>15. ASSUME NEW t \in Streams, NEW l \in OnDisk(t)
       PROVE  /\ l.at < clock /\ l.inc <= incs /\ (l.inc = incs => l.seq < seq)
              /\ l.at \in Nat /\ l.inc \in Nat /\ l.seq \in Nat
  BY <1>13, <1>15, LinesFields DEF ReadInv, Stamped
<1>16. line.at = clock /\ line.inc = incs /\ line.seq = seq
  BY DEF Latest
<1>17. ASSUME NEW t \in Streams, NEW l \in OnDisk(t)'
       PROVE  l.at < clock' /\ l.inc <= incs' /\ (l.inc = incs' => l.seq < seq')
  <2>1. CASE l \in OnDisk(t)
    BY <1>1, <1>15, <2>1
  <2>2. CASE l = line
    BY <1>1, <1>16, <2>2
  <2> QED
    BY <1>14, <1>17, <2>1, <2>2
<1>18. ASSUME NEW t \in Streams, NEW l \in OnDisk(t) 
       PROVE  InTurn(l, line) /\ InTurn(line, l) /\ l.at # line.at
  <2>1. l.at < line.at /\ (l.inc = line.inc => l.seq < line.seq)
    BY <1>15, <1>16
  <2>2. l.at # line.at /\ ~(line.at < l.at)
    BY <1>1, <1>15, <1>16
  <2> QED
    BY <2>1, <2>2 DEF InTurn
<1>19. InTurn(line, line)
  BY <1>1, <1>16 DEF InTurn
<1>20. ASSUME NEW u \in Streams, NEW t \in Streams, NEW l \in OnDisk(u)', NEW m \in OnDisk(t)'
       PROVE  InTurn(l, m) /\ (l.at = m.at => u = t)
  <2>1. CASE l \in OnDisk(u) /\ m \in OnDisk(t)
    BY <2>1 DEF ReadInv, Stamped
  <2>2. CASE l \in OnDisk(u) /\ m = line
    BY <1>18, <2>2
  <2>3. CASE l = line /\ m \in OnDisk(t)
    BY <1>18, <2>3
  <2>4. CASE l = line /\ u = s /\ m = line /\ t = s
    BY <1>19, <2>4
  <2> QED
    BY <1>14, <1>20, <2>1, <2>2, <2>3, <2>4
<1>21. Stamped'
  BY <1>17, <1>20 DEF Stamped
<1> QED
  BY <1>11, <1>21 DEF ReadInv


LEMMA ReadStep ==
    ASSUME ReadInv, [Next]_vars
    PROVE  ReadInv'
<1>1. OrderInv /\ OrderInv' /\ LogInv /\ incs \in Nat
  BY OrderStep DEF ReadInv, OrderInv, LogInv
<1>2. \A s \in Streams : log[s] \in LogFiles /\ NoGap(log[s])
  BY <1>1 DEF OrderInv, InOrder
<1>3. \A s \in Streams : /\ Moves(log[s], log[s]) /\ Moves(log[s], Emptied(log[s]))
                         /\ Moves(log[s], Emptied(Cascade(log[s])))
  BY <1>2, MovesOk
<1>4. ASSUME NEW s \in Streams, NEW len \in Lens, NEW okLog \in Creates("log"),
             NEW okIdx \in Creates("idx"), WriteLine(s, len, okLog, okIdx)
      PROVE  ReadInv'
  <2>1. okLog = TRUE /\ okIdx = TRUE
    BY <1>1 DEF Creates, OrderInv, Unfailing
  <2>2. writer[s].live /\ clock' = clock + 1 /\ incs' = incs
    BY <1>4 DEF WriteLine
  <2>3. writer[s].file
    BY <1>1, <2>2 DEF OrderInv
  <2>4. PICK st :
           /\ SetStream(s, st) /\ seq' = seq + 1
           /\ \E base \in {log[s], Emptied(Cascade(log[s]))}, line \in Lines :
                 /\ base[0] \in Seq(Lines) /\ Latest(line, base[0])
                 /\ st.log = [base EXCEPT ![0] = Append(@, line)]
    BY <1>1, <1>4, <2>1, <2>3, WriteLineIs
  <2>5. PICK base \in {log[s], Emptied(Cascade(log[s]))}, line \in Lines :
           /\ base[0] \in Seq(Lines) /\ Latest(line, base[0])
           /\ st.log = [base EXCEPT ![0] = Append(@, line)]
    BY <2>4
  <2>6. Moves(log[s], base) /\ base \in LogFiles
    BY <1>2, <1>3, CascadeShifts
  <2>7. /\ log'[s] = [base EXCEPT ![0] = Append(@, line)]
        /\ \A t \in Streams : t # s => log'[t] = log[t]
    BY <1>1, <2>4, <2>5 DEF SetStream, LogInv
  <2> QED
    BY <1>1, <2>2, <2>4, <2>5, <2>6, <2>7, WrittenLine
<1>5. ASSUME NEW s \in Streams, EndCapture(s) PROVE ReadInv'
  <2>1. log' = log /\ clock' = clock /\ incs' = incs /\ seq' = seq
    BY <1>1, <1>5, EndCaptureStep DEF EndCapture
  <2> QED
    BY <1>1, <1>3, <2>1, NoLineStep
<1>6. ASSUME NEW rotate \in BOOLEAN, NEW started \in BOOLEAN, NEW made \in Makes,
             Spawn(rotate, started, made)
      PROVE  ReadInv'
  <2>1. \A t \in Streams : log'[t] \in {Emptied(log[t]), Emptied(Cascade(log[t]))}
    <3> TAKE t \in Streams
    <3>1. made > FilesBefore(t)
      BY <1>1, MakesBoth DEF OrderInv, Unfailing
    <3> QED
      BY <1>6, <3>1 DEF Spawn, Opened, Kept, Emptied
  <2>2. clock' = clock /\ incs' = incs + 1
    BY <1>6 DEF Spawn
  <2>3. \A t \in Streams : Moves(log[t], log'[t])
    BY <1>3, <2>1
  <2> QED
    BY <1>1, <2>2, <2>3, NoLineStep
<1>7. CASE Killed \/ UNCHANGED vars
  <2>1. log' = log /\ clock' = clock /\ incs' = incs /\ seq' = seq
    BY <1>7 DEF Killed, vars
  <2> QED
    BY <1>1, <1>3, <2>1, NoLineStep
<1> QED
  BY <1>4, <1>5, <1>6, <1>7 DEF Next

LEMMA ReadInit ==
    ASSUME Unfailing, Init
    PROVE  ReadInv
<1>1. LogInv
  BY LogInit DEF Unfailing, IndexCreated
<1>2. \A s \in Streams : ~writer[s].live /\ log[s] \in LogFiles
                        /\ \A i \in Numbers : log[s][i] = Missing
  BY <1>1, FreshIs DEF Init, LogInv
<1>3. OrderInv
  BY <1>1, <1>2 DEF OrderInv, InOrder, NoGap, Past, Older
<1>4. \A s \in Streams : OnDisk(s) = {}
  BY <1>2 DEF OnDisk
<1> QED
  BY <1>2, <1>3, <1>4 DEF ReadInv, Stamped, AllLaid

LEMMA ReadInvHolds == Unfailing /\ Spec => []ReadInv
<1>1. Unfailing /\ Init => ReadInv
  BY ReadInit
<1>2. ReadInv /\ [Next]_vars => ReadInv'
  BY ReadStep
<1> QED
  BY <1>1, <1>2, PTL DEF Spec

-----------------------------------------------------------------------------
(* Numbers, recursion and sorting                                          *)

LEMMA LeastNumber ==
    ASSUME NEW T \in SUBSET Nat, T # {}
    PROVE  \E m \in T : \A k \in T : m <= k
<1> DEFINE Less == {p \in Nat \X Nat : p[1] < p[2]}
<1>1. IsWellFoundedOn(Less, Nat)
  BY NatLessThanWellFounded DEF OpToRel
<1>2. PICK m \in T : \A k \in T : <<k, m>> \notin Less
  <2> HIDE DEF Less
  <2> QED
    BY <1>1, WFMin
<1>3. \A k \in T : ~(k < m)
  BY <1>2
<1> QED
  BY <1>2, <1>3

(* Induction up to a number, over a set.                                   *)
LEMMA UpTo ==
    ASSUME NEW n \in Nat, NEW T, 0 \in T,
           \A m \in 0..n : m # n /\ m \in T => m + 1 \in T
    PROVE  \A m \in 0..n : m \in T
<1> DEFINE B == {m \in 0..n : m \notin T}
<1> SUFFICES ASSUME B # {} PROVE FALSE
  OBVIOUS
<1>1. PICK m \in B : \A k \in B : m <= k
  <2>1. B \in SUBSET Nat
    OBVIOUS
  <2> HIDE DEF B
  <2> QED
    BY <2>1, LeastNumber
<1>2. m \in Nat /\ m # 0 /\ m <= n /\ m \notin T
  OBVIOUS
<1>3. m - 1 \in 0..n /\ m - 1 # n /\ m - 1 \notin B
  BY <1>1, <1>2
<1>4. m - 1 \in T
  BY <1>3
<1>5. (m - 1) + 1 \in T
  BY <1>3, <1>4
<1> QED
  BY <1>2, <1>5

(* A function defined by recursion exists.                                 *)
Recurs(f, X, base, n, step) ==
    f \in [0..n -> X] /\ f[0] = base /\ \A j \in 1..n : f[j] = step[j][f[j - 1]]
LEMMA Recursion ==
    ASSUME NEW X, NEW base \in X, NEW n \in Nat, NEW step,
           \A j \in 1..n : \A x \in X : step[j][x] \in X
    PROVE  \E f : Recurs(f, X, base, n, step)
<1> DEFINE Good(m) == \E f : Recurs(f, X, base, m, step)
           T == {m \in Nat : Good(m)}
<1>1. Good(0)
  <2>1. PICK f : f = [j \in 0..0 |-> base]
    OBVIOUS
  <2>2. f \in [0..0 -> X] /\ f[0] = base /\ \A j \in 1..0 : FALSE
    BY <2>1
  <2> QED
    BY <2>2 DEF Recurs
<1>2. ASSUME NEW m \in 0..n, m # n, Good(m) PROVE Good(m + 1)
  <2>1. PICK f \in [0..m -> X] : f[0] = base /\ \A j \in 1..m : f[j] = step[j][f[j - 1]]
    BY <1>2 DEF Recurs
  <2>2. PICK v : v = step[m + 1][f[m]]
    OBVIOUS
  <2>3. v \in X
    BY <1>2, <2>1, <2>2
  <2>4. PICK g : g = [j \in 0..(m + 1) |-> IF j = m + 1 THEN v ELSE f[j]]
    OBVIOUS
  <2>5. g \in [0..(m + 1) -> X]
    BY <2>3, <2>4
  <2>6. g[m + 1] = v /\ \A j \in 0..m : g[j] = f[j]
    BY <2>4
  <2>7. ASSUME NEW j \in 1..(m + 1) PROVE g[j] = step[j][g[j - 1]]
    <3>1. CASE j = m + 1
      <4>1. g[j - 1] = f[m]
        BY <2>6, <3>1
      <4> QED
        BY <2>2, <2>6, <3>1, <4>1
    <3>2. CASE j # m + 1
      <4>1. j \in 1..m /\ j - 1 \in 0..m /\ j \in 0..m
        BY <3>2
      <4> QED
        BY <2>1, <2>6, <4>1
    <3> QED
      BY <3>1, <3>2
  <2>8. g[0] = base
    BY <2>1, <2>6
  <2>9. Recurs(g, X, base, m + 1, step)
    BY <2>5, <2>7, <2>8 DEF Recurs
  <2> QED
    BY <2>9
<1>3. \A m \in 0..n : m \in T
  <2> HIDE DEF Good
  <2>1. 0 \in T /\ \A m \in 0..n : m # n /\ m \in T => m + 1 \in T
    BY <1>1, <1>2
  <2> HIDE DEF T
  <2> QED
    BY <2>1, UpTo
<1> QED
  BY <1>3

Greater(a, b) == IF a >= b THEN a ELSE b
Lesser(a, b) == IF a <= b THEN a ELSE b
LEMMA MaxMinTwo ==
    \A a, b \in Int : Max({a, b}) = Greater(a, b) /\ Min({a, b}) = Lesser(a, b)
BY DEF Max, Min, Greater, Lesser

(* A set numbered without repetition has that many elements, and the one   *)
(* with number i has i - 1 before it.                                      *)
Numbering(g, n, S) ==
    /\ g \in [1..n -> S] /\ \A x \in S : \E i \in 1..n : x = g[i]
    /\ \A i, j \in 1..n : g[i] = g[j] => i = j
Ranking(g, n, below) == \A i \in 1..n : below[g[i]] = {g[j] : j \in 1..(i - 1)}
LEMMA Counted ==
    ASSUME NEW n \in Nat, NEW S, NEW g, Numbering(g, n, S)
    PROVE  Cardinality(S) = n
<1>1. g \in Bijection(1..n, S)
  BY DEF Numbering, Bijection, Injection, Surjection, IsInjective
<1>2. ExistsBijection(1..n, S)
  BY <1>1, Fun_ExistsBij
<1> QED
  BY <1>2, FS_CountingElements

LEMMA Ranked ==
    ASSUME NEW n \in Nat, NEW S, NEW g, Numbering(g, n, S), NEW below, Ranking(g, n, below)
    PROVE  /\ Cardinality(S) = n
           /\ \A i \in 1..n : /\ Cardinality(below[g[i]]) = i - 1
                              /\ \A x \in S : Cardinality(below[x]) = i - 1 => x = g[i]
<1>1. ASSUME NEW i \in 1..n PROVE Cardinality(below[g[i]]) = i - 1
  <2>1. PICK m \in Nat : m = i - 1
    OBVIOUS
  <2>2. PICK P : P = {g[j] : j \in 1..m}
    OBVIOUS
  <2>3. PICK h : h = [j \in 1..m |-> g[j]]
    OBVIOUS
  <2>4. Numbering(h, m, P)
    BY <2>1, <2>2, <2>3 DEF Numbering
  <2>5. Cardinality(P) = m
    BY <2>4, Counted
  <2> QED
    BY <2>1, <2>2, <2>5 DEF Ranking
<1>2. ASSUME NEW i \in 1..n, NEW x \in S, Cardinality(below[x]) = i - 1 PROVE x = g[i]
  <2>1. PICK j \in 1..n : x = g[j]
    BY DEF Numbering
  <2>2. i - 1 = j - 1
    BY <1>1, <1>2, <2>1
  <2> QED
    BY <2>1, <2>2
<1> QED
  BY <1>1, <1>2, Counted

-----------------------------------------------------------------------------
(* What the reader finds                                                   *)

(* Files are found from the oldest to the current one, none is overlooked. *)
LEMMA SegmentsIs ==
    ASSUME ReadInv, NEW s \in Streams
    PROVE  \E n \in Nat :
              /\ Segments(s) \in Seq(Numbers) /\ Len(Segments(s)) = n
              /\ DOMAIN Segments(s) = 1..n
              /\ \A j \in 1..n : /\ n - j \in Numbers /\ Segments(s)[j] = n - j
                                 /\ log[s][n - j] # Missing
              /\ \A i \in Numbers : log[s][i] # Missing => i < n
<1> DEFINE found == {n \in Numbers : \A i \in 1..n : Exists(s, i)}
<1>1. NoGap(log[s])
  BY DEF ReadInv, OrderInv, InOrder
<1>2. PICK m \in Nat : /\ m \in Numbers /\ m = Oldest(s)
                       /\ \A i \in 1..m : Exists(s, i)
                       /\ \A k \in found : k <= m
  <2>1. 0 \in found
    BY NumbersOk
  <2>2. PICK top \in Nat : top = MaxRotated
    BY SizesAssumption
  <2>3. \A k \in found : k \in Nat /\ k <= top
    BY <2>2, NumbersOk
  <2>4. PICK gaps : gaps = {top - k : k \in found}
    OBVIOUS
  <2>5. gaps \in SUBSET Nat /\ gaps # {}
    BY <2>1, <2>3, <2>4
  <2>6. PICK d \in gaps : \A e \in gaps : d <= e
    BY <2>5, LeastNumber
  <2>7. PICK m \in found : d = top - m
    BY <2>4
  <2>8. \A k \in found : top - m <= top - k
    BY <2>4, <2>6, <2>7
  <2>9. \A k \in found : k <= m
    BY <2>3, <2>8
  <2>10. Max(found) = m
    <3>1. \A x \in found : (\A y \in found : x >= y) => x = m
      BY <2>3, <2>9
    <3>2. \A y \in found : m >= y
      BY <2>3, <2>9
    <3> HIDE DEF found
    <3> QED
      BY <3>1, <3>2 DEF Max
  <2> QED
    BY <2>3, <2>9, <2>10 DEF Oldest
<1>3. \A i \in Numbers : log[s][i] # Missing => i <= m
  <2> SUFFICES ASSUME NEW i \in Numbers, log[s][i] # Missing PROVE i <= m
    OBVIOUS
  <2>1. \A k \in 1..i : k \in Numbers /\ k <= i
    BY NumbersOk, SizesAssumption DEF Numbers
  <2>2. \A k \in 1..i : Exists(s, k)
    BY <1>1, <2>1 DEF NoGap, Exists
  <2> QED
    BY <1>2, <2>2
<1>4. PICK f : f = [i \in 1..m |-> m + 1 - i]
  OBVIOUS
<1>5. f \in Seq(Numbers) /\ Len(f) = m /\ \A i \in 1..m : f[i] = m + 1 - i
  <2>1. \A i \in 1..m : m + 1 - i \in Numbers
    BY <1>2, SizesAssumption DEF Numbers
  <2> QED
    BY <1>4, <2>1
<1>6. Segments(s) = f \o (IF Exists(s, 0) THEN <<0>> ELSE <<>>)
  BY <1>2, <1>4 DEF Segments
<1>7. CASE log[s][0] = Missing
  <2>1. \A i \in Numbers : log[s][i] = Missing
    BY <1>1, <1>7, NumbersOk DEF NoGap
  <2>2. m = 0
    <3>1. CASE m > 0
      <4>1. 1 \in 1..m
        BY <3>1
      <4> QED
        BY <1>2, <2>1, <4>1 DEF Exists
    <3> QED
      BY <3>1
  <2>3. f = <<>>
    BY <1>5, <2>2
  <2>4. Segments(s) = <<>>
    BY <1>6, <1>7, <2>3 DEF Exists
  <2> QED
    BY <2>1, <2>4
<1>8. CASE log[s][0] # Missing
  <2>1. Segments(s) = f \o <<0>>
    BY <1>6, <1>8, NumbersOk DEF Exists
  <2>2. PICK g : g = f \o <<0>>
    OBVIOUS
  <2>3. PICK one : one = <<0>> /\ one \in Seq(Numbers) /\ Len(one) = 1 /\ one[1] = 0
    <3>1. 0 \in Numbers
      BY NumbersOk
    <3>2. <<0>> \in Seq(Numbers) /\ Len(<<0>>) = 1 /\ <<0>>[1] = 0
      BY ONLY <3>1
    <3> QED
      BY <3>2
  <2>4. /\ g \in Seq(Numbers) /\ Len(g) = m + 1
        /\ \A j \in 1..(m + 1) : g[j] = IF j <= m THEN f[j] ELSE one[j - m]
    BY <1>5, <2>2, <2>3, ConcatProperties
  <2>5. \A j \in 1..(m + 1) : g[j] = (m + 1) - j
    <3> SUFFICES ASSUME NEW j \in 1..(m + 1) PROVE g[j] = (m + 1) - j
      OBVIOUS
    <3>1. CASE j <= m
      BY <1>5, <2>4, <3>1
    <3>2. CASE j = m + 1
      BY <2>3, <2>4, <3>2
    <3> QED
      BY <3>1, <3>2
  <2>6. ASSUME NEW j \in 1..(m + 1) PROVE (m + 1) - j \in Numbers /\ log[s][(m + 1) - j] # Missing
    <3>1. (m + 1) - j \in 0..m
      OBVIOUS
    <3>2. PICK i \in 0..m : i = (m + 1) - j
      BY <3>1
    <3>3. i = 0 \/ i \in 1..m
      OBVIOUS
    <3>4. i \in Numbers /\ log[s][i] # Missing
      BY <1>2, <1>8, <3>3, NumbersOk DEF Exists
    <3> QED
      BY <3>2, <3>4
  <2>7. DOMAIN g = 1..(m + 1)
    BY <2>4, LenProperties
  <2>8. \A i \in Numbers : log[s][i] # Missing => i < m + 1
    BY <1>3, NumbersOk
  <2>9. PICK n \in Nat : n = m + 1
    OBVIOUS
  <2>10. /\ g \in Seq(Numbers) /\ Len(g) = n /\ DOMAIN g = 1..n
         /\ \A j \in 1..n : n - j \in Numbers /\ g[j] = n - j /\ log[s][n - j] # Missing
         /\ \A i \in Numbers : log[s][i] # Missing => i < n
    BY <2>4, <2>5, <2>6, <2>7, <2>8, <2>9
  <2> QED
    BY <2>1, <2>2, <2>10
<1> QED
  BY <1>7, <1>8

(* A file that is there has an index, and is counted by it.                *)
LEMMA CountIs ==
    ASSUME ReadInv, NEW s \in Streams, NEW i \in Numbers, log[s][i] # Missing
    PROVE  /\ idx[s][i] # Missing /\ idx[s][i] \in Seq(IndexRecords)
           /\ log[s][i] \in Seq(Lines) /\ Laid(log[s][i])
           /\ LineCount(s, i) \in Nat /\ LineCount(s, i) = Len(idx[s][i])
           /\ LineCount(s, i) <= Len(log[s][i])
           /\ \A k \in 1..LineCount(s, i) : Marks(idx[s][i][k], log[s][i][k])
<1>1. LogInv /\ Laid(log[s][i])
  BY DEF ReadInv, OrderInv, AllLaid
<1>2. Paired(log[s][i], idx[s][i]) /\ log[s] \in LogFiles /\ idx[s] \in IndexFiles
  BY <1>1, StreamIs DEF Sound, Agree
<1>3. idx[s][i] # Missing
  BY <1>2 DEF Paired
<1>4. idx[s][i] \in Seq(IndexRecords) /\ log[s][i] \in Seq(Lines)
  BY <1>2, <1>3 DEF LogFiles, IndexFiles
<1>5. LineCount(s, i) = Len(idx[s][i]) /\ Len(idx[s][i]) \in Nat
  BY <1>3, <1>4, LenProperties DEF LineCount, IndexCount
<1> QED
  BY <1>1, <1>2, <1>3, <1>4, <1>5 DEF Paired


(* Reading from a segment by its index gives the lines asked for.          *)
Stretch(f, start, count, n) == SubSeq(f, start + 1, Lesser(start + count, n))
LEMMA ReadSegmentIs ==
    ASSUME ReadInv, NEW s \in Streams, NEW i \in Numbers, log[s][i] # Missing,
           NEW start \in Nat, NEW count \in Nat
    PROVE  ReadSegment(s, i, start, count) = Stretch(log[s][i], start, count, LineCount(s, i))
<1>1. PICK f \in Seq(Lines), r \in Seq(IndexRecords), n \in Nat :
         /\ f = log[s][i] /\ r = idx[s][i] /\ r # Missing /\ Laid(f)
         /\ n = LineCount(s, i) /\ n = Len(r) /\ n <= Len(f)
         /\ \A k \in 1..n : Marks(r[k], f[k])
  BY CountIs
<1>2. PICK hi \in Nat :
         hi = Lesser(start + count, n) /\ hi = Min({start + count, n}) /\ hi <= n
  <2>1. Min({start + count, n}) = Lesser(start + count, n)
    BY MaxMinTwo, start + count \in Int, n \in Int, Zenon
  <2>2. Lesser(start + count, n) \in Nat /\ Lesser(start + count, n) <= n
    BY DEF Lesser
  <2> QED
    BY <2>1, <2>2
<1>3. PICK recs : recs = SubSeq(r, start + 1, hi)
  OBVIOUS
<1>4. ReadSegment(s, i, start, count) =
        IF recs = <<>> THEN <<>> ELSE LinesFrom(f, recs[1].off, Len(recs))
  BY <1>1, <1>2, <1>3 DEF ReadSegment, ReadRange
<1>5. CASE hi < start + 1
  <2>1. recs = <<>> /\ SubSeq(f, start + 1, hi) = <<>>
    BY <1>3, <1>5, SubSeqEmpty
  <2> QED
    BY <1>1, <1>2, <1>4, <2>1 DEF Stretch
<1>6. CASE start + 1 <= hi
  <2>1. PICK c \in Nat : c = hi - start /\ c > 0
    BY <1>6
  <2>2. \A k \in (start + 1)..hi : r[k] \in IndexRecords /\ f[k] \in Lines /\ k \in 1..Len(f)
    BY <1>1, <1>2
  <2>3. recs \in Seq(IndexRecords) /\ Len(recs) = c /\ recs[1] = r[start + 1]
    <3>1. /\ recs \in Seq(IndexRecords) /\ Len(recs) = hi - (start + 1) + 1
          /\ \A k \in 1..(hi - (start + 1) + 1) : recs[k] = r[(start + 1) + k - 1]
      BY <1>3, <1>6, <2>2, SubSeqProperties
    <3>2. 1 \in 1..(hi - (start + 1) + 1) /\ (start + 1) + 1 - 1 = start + 1
      BY <1>6
    <3> QED
      BY <2>1, <3>1, <3>2
  <2>4. PICK at : at = {k \in DOMAIN f : f[k].off = recs[1].off}
    OBVIOUS
  <2>5. at = {start + 1}
    <3>1. start + 1 \in 1..n /\ start + 1 \in 1..Len(f) /\ DOMAIN f = 1..Len(f)
      BY <1>1, <1>2, <1>6, LenProperties
    <3>2. f[start + 1].off = recs[1].off
      BY <1>1, <2>3, <3>1 DEF Marks
    <3>3. ASSUME NEW k \in 1..Len(f), f[k].off = f[start + 1].off PROVE k = start + 1
      <4>1. f[k].off \in Nat /\ f[start + 1].off \in Nat
        BY <3>1, LinesFields
      <4>2. ~(k < start + 1) /\ ~(start + 1 < k)
        BY <1>1, <3>1, <3>3, <4>1 DEF Laid
      <4> QED
        BY <4>2
    <3> QED
      BY <2>4, <3>1, <3>2, <3>3
  <2>6. Max(at) = start + 1
    <3>1. start + 1 >= start + 1
      OBVIOUS
    <3> QED
      BY <2>5, <3>1 DEF Max
  <2>7. PICK out : out = LinesFrom(f, recs[1].off, c)
    OBVIOUS
  <2>8. out = [j \in 1..c |-> IF \E k \in at : k + j - 1 <= Len(f)
                              THEN f[Max(at) + j - 1] ELSE NoLine]
    BY <2>4, <2>7 DEF LinesFrom
  <2>9. \A j \in 1..c : start + 1 + j - 1 <= Len(f) /\ start + 1 + j - 1 = start + j
    <3>1. PICK l \in Nat : l = Len(f)
      BY LenProperties
    <3>2. hi <= l
      BY <1>1, <1>2, <3>1
    <3>3. \A j \in 1..c : start + 1 + j - 1 <= l /\ start + 1 + j - 1 = start + j
      BY <2>1, <3>2
    <3> QED
      BY <3>1, <3>3
  <2>10. out = [j \in 1..c |-> f[start + j]]
    BY <2>5, <2>6, <2>8, <2>9
  <2>11. \A j \in 1..c : f[start + j] \in Lines
    <3>1. \A j \in 1..c : start + j \in (start + 1)..hi
      BY <2>1
    <3> QED
      BY <2>2, <3>1
  <2>12. out \in Seq(Lines) /\ Len(out) = c
    BY <2>10, <2>11
  <2>13. PICK w : w = SubSeq(f, start + 1, hi)
    OBVIOUS
  <2>14. /\ w \in Seq(Lines) /\ Len(w) = c /\ \A j \in 1..c : w[j] = f[start + j]
    <3>1. /\ w \in Seq(Lines) /\ Len(w) = hi - (start + 1) + 1
          /\ \A k \in 1..(hi - (start + 1) + 1) : w[k] = f[(start + 1) + k - 1]
      BY <2>13, <1>6, <2>2, SubSeqProperties
    <3>2. hi - (start + 1) + 1 = c /\ \A k \in 1..c : (start + 1) + k - 1 = start + k
      BY <2>1
    <3> QED
      BY <3>1, <3>2
  <2>15. out = w
    BY <2>10, <2>12, <2>14, SeqEqual
  <2>16. recs # <<>>
    BY <2>1, <2>3
  <2> QED
    BY <1>1, <1>2, <1>4, <2>3, <2>7, <2>13, <2>15, <2>16 DEF Stretch
<1>7. hi < start + 1 \/ start + 1 <= hi
  OBVIOUS
<1> QED
  BY <1>5, <1>6, <1>7, Zenon

(* line_count adds up the segments.                                        *)
LEMMA LinesInIs ==
    ASSUME ReadInv, NEW s \in Streams, NEW n \in Nat, n = Len(Segments(s))
    PROVE  /\ LinesIn(s, 0) = 0 /\ Total(s) = LinesIn(s, n)
           /\ \A j \in 0..n : LinesIn(s, j) \in Nat
           /\ \A j \in 1..n : LinesIn(s, j) = LinesIn(s, j - 1) + LineCount(s, Segments(s)[j])
<1>1. PICK c : c = [j \in 1..n |-> LineCount(s, Segments(s)[j])]
  OBVIOUS
<1>2. c \in [1..n -> Nat]
  <2>1. \A j \in 1..n : Segments(s)[j] \in Numbers /\ log[s][Segments(s)[j]] # Missing
    BY SegmentsIs
  <2> QED
    BY <1>1, <2>1, CountIs
<1>3. PICK step : step = [j \in 1..n |-> [x \in Nat |-> x + c[j]]]
  OBVIOUS
<1>4. \A j \in 1..n : \A x \in Nat : step[j][x] \in Nat /\ step[j][x] = x + c[j]
  BY <1>2, <1>3
<1>5. PICK f \in [0..n -> Nat] : f[0] = 0 /\ \A j \in 1..n : f[j] = step[j][f[j - 1]]
  <2>1. PICK X : X = Nat
    OBVIOUS
  <2>2. PICK base \in X : base = 0
    BY <2>1
  <2>3. \A j \in 1..n : \A x \in X : step[j][x] \in X
    BY <1>4, <2>1
  <2>4. \E f : Recurs(f, X, base, n, step)
    BY <2>3, Recursion
  <2> QED
    BY <2>1, <2>2, <2>4 DEF Recurs
<1>6. f = [j \in 0..n |-> IF j = 0 THEN 0 ELSE f[j - 1] + LineCount(s, Segments(s)[j])]
  <2>1. ASSUME NEW j \in 1..n PROVE f[j] = f[j - 1] + LineCount(s, Segments(s)[j])
    <3>1. j - 1 \in 0..n
      OBVIOUS
    <3>2. f[j - 1] \in Nat
      BY <1>5, <3>1
    <3>3. f[j] = f[j - 1] + c[j]
      BY <1>4, <1>5, <3>2
    <3> QED
      BY <1>1, <3>3
  <2> QED
    BY <1>5, <2>1
<1>7. PICK sum : sum = CHOOSE v : v =
        [j \in 0..n |-> IF j = 0 THEN 0 ELSE v[j - 1] + LineCount(s, Segments(s)[j])]
  OBVIOUS
<1>8. sum = [j \in 0..n |-> IF j = 0 THEN 0 ELSE sum[j - 1] + LineCount(s, Segments(s)[j])]
  BY <1>6, <1>7
<1>9. \A k : LinesIn(s, k) = sum[k]
  BY <1>7 DEF LinesIn
<1>10. \A j \in 1..n : sum[j] = sum[j - 1] + c[j]
  BY <1>1, <1>8
<1>11. \A j \in 0..n : sum[j] \in Nat
  <2> DEFINE T == {j \in Nat : sum[j] \in Nat}
  <2>1. 0 \in T
    BY <1>8
  <2>2. ASSUME NEW j \in 0..n, j # n, j \in T PROVE j + 1 \in T
    <3>1. j + 1 \in 1..n /\ (j + 1) - 1 = j
      BY <2>2
    <3>2. sum[j + 1] = sum[j] + c[j + 1] /\ sum[j] \in Nat /\ c[j + 1] \in Nat
      BY <1>2, <1>10, <2>2, <3>1
    <3> QED
      BY <3>1, <3>2
  <2>3. \A j \in 0..n : j \in T
    <3> HIDE DEF T
    <3> QED
      BY <2>1, <2>2, UpTo
  <2> QED
    BY <2>3
<1>12. sum[0] = 0
  BY <1>8
<1>13. \A j \in 1..n : sum[j] = sum[j - 1] + LineCount(s, Segments(s)[j])
  BY <1>1, <1>10
<1>14. Total(s) = LinesIn(s, n)
  BY DEF Total
<1> QED
  BY <1>9, <1>11, <1>12, <1>13, <1>14, Zenon


(* Counts that add up to L: it grows, and each number up to L[n] falls     *)
(* into one of them.                                                       *)
Stack(n, L, c) ==
    /\ L[0] = 0 /\ \A j \in 0..n : L[j] \in Nat
    /\ \A j \in 1..n : c[j] \in Nat /\ L[j] = L[j - 1] + c[j]
Spans(n, L, c) ==
    /\ \A j, k \in 0..n : j <= k => L[j] <= L[k]
    /\ \A p \in 1..L[n] : \E k \in 1..n : \E m \in 1..c[k] : p = L[k - 1] + m
    /\ \A k \in 1..n : \A m \in 1..c[k] : L[k - 1] + m \in 1..L[n]
LEMMA Stacked ==
    ASSUME NEW n \in Nat, NEW L, NEW c, Stack(n, L, c)
    PROVE  Spans(n, L, c)
<1>1. /\ L[0] = 0 /\ \A j \in 0..n : L[j] \in Nat
      /\ \A j \in 0..n : j # n => /\ j + 1 \in 1..n /\ c[j + 1] \in Nat
                                  /\ L[j + 1] = L[j] + c[j + 1]
  <2>1. \A j \in 0..n : j # n => j + 1 \in 1..n /\ (j + 1) - 1 = j
    OBVIOUS
  <2>2. \A j \in 1..n : c[j] \in Nat /\ L[j] = L[j - 1] + c[j]
    BY DEF Stack
  <2>3. L[0] = 0 /\ \A j \in 0..n : L[j] \in Nat
    BY DEF Stack
  <2> QED
    BY <2>1, <2>2, <2>3
<1>2. ASSUME NEW j \in 0..n PROVE \A k \in 0..n : j <= k => L[j] <= L[k]
  <2> DEFINE T == {k \in 0..n : j <= k => L[j] <= L[k]}
  <2>1. 0 \in T
    <3>1. j <= 0 => j = 0
      OBVIOUS
    <3> QED
      BY <1>1, <3>1
  <2>2. ASSUME NEW k \in 0..n, k # n, k \in T PROVE k + 1 \in T
    <3>1. L[k + 1] = L[k] + c[k + 1] /\ c[k + 1] \in Nat /\ L[k] \in Nat /\ k + 1 \in 0..n
      BY <1>1, <2>2
    <3>2. CASE j <= k
      BY <1>1, <2>2, <3>1, <3>2
    <3>3. CASE j = k + 1
      BY <1>1, <3>1, <3>3
    <3> QED
      BY <3>1, <3>2, <3>3
  <2>3. \A k \in 0..n : k \in T
    <3> HIDE DEF T
    <3> QED
      BY <2>1, <2>2, UpTo
  <2> QED
    BY <2>3
<1>3. ASSUME NEW p \in 1..L[n]
      PROVE  \E k \in 1..n : \E m \in 1..c[k] : p = L[k - 1] + m
  <2> DEFINE T == {k \in 0..n : p <= L[k]}
  <2>1. n \in T
    BY <1>1
  <2>2. T \in SUBSET Nat /\ T # {}
    BY <2>1
  <2>3. PICK k \in T : \A j \in T : k <= j
    <3> HIDE DEF T
    <3> QED
      BY <2>2, LeastNumber
  <2>4. p \in Nat /\ p > 0 /\ k \in 0..n /\ p <= L[k]
    BY <1>1, <1>3
  <2>5. k # 0
    BY <1>1, <2>4
  <2>6. k \in 1..n /\ k - 1 \in 0..n /\ k - 1 \notin T
    BY <2>3, <2>4, <2>5
  <2>7. L[k - 1] \in Nat /\ L[k - 1] < p
    BY <1>1, <2>4, <2>6
  <2>8. L[k] = L[k - 1] + c[k] /\ c[k] \in Nat
    BY <2>6 DEF Stack
  <2>9. p - L[k - 1] \in 1..c[k] /\ p = L[k - 1] + (p - L[k - 1])
    BY <2>4, <2>7, <2>8
  <2> QED
    BY <2>6, <2>9
<1>4. ASSUME NEW k \in 1..n, NEW m \in 1..c[k] PROVE L[k - 1] + m \in 1..L[n]
  <2>1. /\ L[k] = L[k - 1] + c[k] /\ c[k] \in Nat /\ L[k - 1] \in Nat /\ L[k] \in Nat
        /\ L[n] \in Nat
    BY DEF Stack
  <2>2. L[k] <= L[n]
    BY <1>2
  <2> QED
    BY <2>1, <2>2
<1> QED
  BY <1>2, <1>3, <1>4 DEF Spans

(* A stream as the reader sees it: n segments, the j-th with the lines     *)
(* x[j], of which the index knows c[j], and L[j] lines up to its end.      *)
Layout(s, n, L, c, x) ==
    /\ DOMAIN Segments(s) = 1..n /\ Len(Segments(s)) = n
    /\ Stack(n, L, c) /\ L[n] = Total(s)
    /\ \A j \in 0..n : L[j] = LinesIn(s, j)
    /\ \A j \in 1..n :
          /\ Segments(s)[j] = n - j /\ n - j \in Numbers
          /\ log[s][n - j] # Missing /\ log[s][n - j] = x[j]
          /\ x[j] \in Seq(Lines) /\ Laid(x[j])
          /\ LineCount(s, n - j) = c[j] /\ c[j] <= Len(x[j])
    /\ \A i \in Numbers : log[s][i] # Missing => i < n
LEMMA LayoutIs ==
    ASSUME ReadInv, NEW s \in Streams
    PROVE  \E n \in Nat : \E L, c, x : Layout(s, n, L, c, x)
<1>1. PICK n \in Nat :
         /\ Segments(s) \in Seq(Numbers) /\ Len(Segments(s)) = n
         /\ DOMAIN Segments(s) = 1..n
         /\ \A j \in 1..n : /\ n - j \in Numbers /\ Segments(s)[j] = n - j
                            /\ log[s][n - j] # Missing
         /\ \A i \in Numbers : log[s][i] # Missing => i < n
  BY SegmentsIs
<1>2. PICK L : L = [j \in 0..n |-> LinesIn(s, j)]
  OBVIOUS
<1>3. PICK c : c = [j \in 1..n |-> LineCount(s, n - j)]
  OBVIOUS
<1>4. PICK x : x = [j \in 1..n |-> log[s][n - j]]
  OBVIOUS
<1>5. /\ LinesIn(s, 0) = 0 /\ Total(s) = LinesIn(s, n)
      /\ \A j \in 0..n : LinesIn(s, j) \in Nat
      /\ \A j \in 1..n : LinesIn(s, j) = LinesIn(s, j - 1) + LineCount(s, Segments(s)[j])
  BY <1>1, LinesInIs
<1>6. \A j \in 1..n : /\ log[s][n - j] \in Seq(Lines) /\ Laid(log[s][n - j])
                      /\ LineCount(s, n - j) \in Nat
                      /\ LineCount(s, n - j) <= Len(log[s][n - j])
  BY <1>1, CountIs
<1>7. L[0] = 0 /\ L[n] = Total(s) /\ \A j \in 0..n : L[j] = LinesIn(s, j) /\ L[j] \in Nat
  BY <1>2, <1>5
<1>8. \A j \in 1..n : c[j] = LineCount(s, n - j) /\ x[j] = log[s][n - j]
  BY <1>3, <1>4
<1>9. \A j \in 1..n : c[j] \in Nat /\ L[j] = L[j - 1] + c[j]
  <2> SUFFICES ASSUME NEW j \in 1..n PROVE c[j] \in Nat /\ L[j] = L[j - 1] + c[j]
    OBVIOUS
  <2>1. j \in 0..n /\ j - 1 \in 0..n
    OBVIOUS
  <2>2. L[j] = LinesIn(s, j) /\ L[j - 1] = LinesIn(s, j - 1)
    BY <1>7, <2>1
  <2> QED
    BY <1>1, <1>5, <1>6, <1>8, <2>2
<1>10. Stack(n, L, c)
  BY <1>7, <1>9 DEF Stack
<1>11. Layout(s, n, L, c, x)
  BY <1>1, <1>6, <1>7, <1>8, <1>10 DEF Layout
<1> QED
  BY <1>11


(* The retained lines of a stream, one read after the other.               *)
Retained(s) == [p \in 1..Total(s) |-> ReadSingle(s, p - 1)]

LEMMA SingleIs ==
    ASSUME ReadInv, NEW s \in Streams, NEW n \in Nat, NEW L, NEW c, NEW x,
           Layout(s, n, L, c, x), NEW k \in 1..n, NEW m \in 1..c[k]
    PROVE  ReadSingle(s, (L[k - 1] + m) - 1) = x[k][m]
<1>1. /\ DOMAIN Segments(s) = 1..n /\ Stack(n, L, c)
      /\ \A j \in 0..n : L[j] = LinesIn(s, j)
      /\ Segments(s)[k] = n - k /\ n - k \in Numbers
      /\ log[s][n - k] # Missing /\ log[s][n - k] = x[k]
      /\ x[k] \in Seq(Lines) /\ LineCount(s, n - k) = c[k] /\ c[k] <= Len(x[k])
  BY DEF Layout
<1>2. /\ \A j \in 0..n : L[j] \in Nat
      /\ \A j \in 1..n : c[j] \in Nat /\ L[j] = L[j - 1] + c[j] /\ L[j - 1] \in Nat
  BY <1>1 DEF Stack
<1>3. \A i, j \in 0..n : i <= j => L[i] <= L[j]
  <2>1. Spans(n, L, c)
    BY <1>1, Stacked
  <2> QED
    BY <2>1 DEF Spans
<1>4. PICK line \in Nat : line = (L[k - 1] + m) - 1
  BY <1>2
<1>5. L[k - 1] <= line /\ line < L[k] /\ line - L[k - 1] = m - 1
  <2>1. m \in Nat /\ 1 <= m /\ m <= c[k] /\ c[k] \in Nat /\ L[k - 1] \in Nat
    BY <1>2
  <2> QED
    BY <1>2, <1>4, <2>1
<1>6. ASSUME NEW j \in 1..n, L[j - 1] <= line, line < L[j] PROVE j = k
  <2>1. j - 1 \in 0..n /\ k - 1 \in 0..n /\ j \in 0..n /\ k \in 0..n
    OBVIOUS
  <2>2. ~(j <= k - 1)
    BY <1>2, <1>3, <1>5, <1>6, <2>1
  <2>3. ~(k <= j - 1)
    BY <1>2, <1>3, <1>5, <1>6, <2>1
  <2> QED
    BY <2>2, <2>3
<1>7. \A j \in 1..n : LinesIn(s, j - 1) = L[j - 1] /\ LinesIn(s, j) = L[j]
  BY <1>1
<1>8. (CHOOSE j \in DOMAIN Segments(s) : LinesIn(s, j - 1) <= line /\ line < LinesIn(s, j)) = k
  BY <1>1, <1>5, <1>6, <1>7
<1>9. ReadSingle(s, line) = ReadSegment(s, n - k, m - 1, 1)[1]
  BY <1>1, <1>5, <1>7, <1>8 DEF ReadSingle
<1>10. PICK a \in Nat : a = m - 1
  OBVIOUS
<1>11. Lesser(a + 1, c[k]) = m
  BY <1>2, <1>10 DEF Lesser
<1>12. ReadSegment(s, n - k, a, 1) = SubSeq(x[k], m, m)
  <2>1. ReadSegment(s, n - k, a, 1) = Stretch(log[s][n - k], a, 1, LineCount(s, n - k))
    BY <1>1, ReadSegmentIs
  <2>2. a + 1 = m
    BY <1>10
  <2> QED
    BY <1>1, <1>11, <2>1, <2>2 DEF Stretch
<1>13. SubSeq(x[k], m, m)[1] = x[k][m]
  <2>1. \A i \in m..m : x[k][i] \in Lines
    BY <1>1, <1>2
  <2>2. \A i \in 1..(m - m + 1) : SubSeq(x[k], m, m)[i] = x[k][m + i - 1]
    BY <2>1, m \in Int, SubSeqProperties
  <2>3. 1 \in 1..(m - m + 1) /\ m + 1 - 1 = m
    OBVIOUS
  <2> QED
    BY <2>2, <2>3
<1> QED
  BY <1>4, <1>9, <1>10, <1>12, <1>13

Reads(g, n, L, c, x) ==
    /\ L[n] \in Nat /\ g \in [1..L[n] -> Lines]
    /\ g \in Seq(Lines) /\ Len(g) = L[n]
    /\ \A k \in 1..n : \A m \in 1..c[k] : g[L[k - 1] + m] = x[k][m]
    /\ \A p, q \in 1..L[n] : p < q => g[p].at < g[q].at
LEMMA RetainedIs ==
    ASSUME ReadInv, NEW s \in Streams, NEW n \in Nat, NEW L, NEW c, NEW x,
           Layout(s, n, L, c, x), NEW g, g = Retained(s)
    PROVE  Reads(g, n, L, c, x)
<1>1. /\ Stack(n, L, c) /\ L[n] = Total(s)
      /\ \A j \in 1..n : x[j] \in Seq(Lines) /\ c[j] <= Len(x[j]) /\ Laid(x[j])
  BY DEF Layout
<1>2. /\ \A j \in 0..n : L[j] \in Nat
      /\ \A j \in 1..n : c[j] \in Nat /\ L[j] = L[j - 1] + c[j] /\ L[j - 1] \in Nat
  BY <1>1 DEF Stack
<1>3. /\ \A i, j \in 0..n : i <= j => L[i] <= L[j]
      /\ \A p \in 1..L[n] : \E k \in 1..n : \E m \in 1..c[k] : p = L[k - 1] + m
      /\ \A k \in 1..n : \A m \in 1..c[k] : L[k - 1] + m \in 1..L[n]
  <2>1. Spans(n, L, c)
    BY <1>1, Stacked
  <2> QED
    BY <2>1 DEF Spans
<1>4. L[n] \in Nat /\ g = [p \in 1..L[n] |-> ReadSingle(s, p - 1)]
  BY <1>1, <1>2 DEF Retained
<1>5. ASSUME NEW k \in 1..n, NEW m \in 1..c[k]
      PROVE  g[L[k - 1] + m] = x[k][m] /\ x[k][m] \in Lines
  <2>1. ReadSingle(s, (L[k - 1] + m) - 1) = x[k][m]
    BY SingleIs
  <2>2. m \in 1..Len(x[k])
    BY <1>1, <1>2
  <2> QED
    BY <1>1, <1>3, <1>4, <2>1, <2>2
<1>6. \A p \in 1..L[n] : g[p] \in Lines
  BY <1>3, <1>5
<1>7. g \in [1..L[n] -> Lines] /\ g \in Seq(Lines) /\ Len(g) = L[n]
  <2>1. PICK N \in Nat : N = L[n]
    BY <1>4
  <2>2. g \in [1..N -> Lines]
    BY <1>4, <1>6, <2>1
  <2>3. g \in Seq(Lines) /\ Len(g) = N
    BY <2>2
  <2> QED
    BY <2>1, <2>2, <2>3
<1>8. ASSUME NEW p \in 1..L[n], NEW q \in 1..L[n], p < q PROVE g[p].at < g[q].at
  <2>1. PICK j \in 1..n : \E m \in 1..c[j] : p = L[j - 1] + m
    BY <1>3
  <2>2. PICK m \in 1..c[j] : p = L[j - 1] + m
    BY <2>1
  <2>3. PICK k \in 1..n : \E i \in 1..c[k] : q = L[k - 1] + i
    BY <1>3
  <2>4. PICK i \in 1..c[k] : q = L[k - 1] + i
    BY <2>3
  <2>5. g[p] = x[j][m] /\ g[q] = x[k][i]
    BY <1>5, <2>2, <2>4
  <2>6. /\ m \in 1..Len(x[j]) /\ i \in 1..Len(x[k])
        /\ c[j] \in Nat /\ c[k] \in Nat /\ L[j - 1] \in Nat /\ L[k - 1] \in Nat
        /\ L[k] = L[k - 1] + c[k] /\ m \in Nat /\ i \in Nat
    <3>1. /\ c[j] \in Nat /\ c[k] \in Nat /\ L[j - 1] \in Nat /\ L[k - 1] \in Nat
          /\ L[k] = L[k - 1] + c[k]
      BY <1>2
    <3>2. /\ c[j] <= Len(x[j]) /\ Len(x[j]) \in Nat
          /\ c[k] <= Len(x[k]) /\ Len(x[k]) \in Nat
      BY <1>1, LenProperties
    <3>3. m \in 1..Len(x[j]) /\ m \in Nat
      BY <3>1, <3>2
    <3>4. i \in 1..Len(x[k]) /\ i \in Nat
      BY <3>1, <3>2
    <3> QED
      BY <3>1, <3>3, <3>4
  <2>7. CASE j = k
    <3>1. m < i
      BY <1>8, <2>2, <2>4, <2>6, <2>7
    <3> QED
      BY <1>1, <2>5, <2>6, <2>7, <3>1 DEF Laid
  <2>8. CASE j < k
    <3>1. Older(log[s])
      BY DEF ReadInv, OrderInv, InOrder
    <3>2. /\ n - j \in Numbers /\ log[s][n - j] # Missing /\ log[s][n - j] = x[j]
          /\ n - k \in Numbers /\ log[s][n - k] # Missing /\ log[s][n - k] = x[k]
      BY DEF Layout
    <3>3. n - k < n - j
      BY <2>8
    <3> QED
      BY <2>5, <2>6, <3>1, <3>2, <3>3 DEF Older
  <2>9. CASE k < j
    <3>1. PICK u \in Nat, v \in Nat : u = L[k] /\ v = L[j - 1]
      BY <2>6
    <3>2. u <= v
      BY <1>3, <2>9, <3>1
    <3>3. q \in Nat /\ q <= u
      <4>1. PICK t \in Nat, w \in Nat : t = L[k - 1] /\ w = c[k]
        BY <2>6
      <4>2. i \in Nat /\ i <= w
        BY <2>6, <4>1
      <4>3. q = t + i /\ u = t + w
        BY <2>4, <2>6, <3>1, <4>1
      <4> QED
        BY ONLY <4>2, <4>3, t \in Nat, w \in Nat
    <3>4. p \in Nat /\ v < p
      <4>1. p = v + m /\ m \in Nat /\ m >= 1
        BY <2>2, <2>6, <3>1
      <4> QED
        BY ONLY <4>1, v \in Nat
    <3> QED
      BY <1>8, <3>2, <3>3, <3>4
  <2> QED
    BY <2>7, <2>8, <2>9
<1> QED
  BY <1>2, <1>5, <1>7, <1>8 DEF Reads

(* The lines the index knows, sorted by time, are the ones read.           *)
LEMMA IndexedIs ==
    ASSUME ReadInv, NEW s \in Streams
    PROVE  Indexed(s) = Retained(s)
<1>0. PICK n \in Nat : \E L, c, x : Layout(s, n, L, c, x)
  BY LayoutIs
<1>1. PICK L, c, x : Layout(s, n, L, c, x)
  BY <1>0
<1>2. PICK g : g = Retained(s)
  OBVIOUS
<1>3. /\ L[n] \in Nat /\ g \in [1..L[n] -> Lines]
      /\ \A k \in 1..n : \A m \in 1..c[k] : g[L[k - 1] + m] = x[k][m]
      /\ \A p, q \in 1..L[n] : p < q => g[p].at < g[q].at
  <2>1. Reads(g, n, L, c, x)
    BY <1>1, <1>2, RetainedIs
  <2> QED
    BY <2>1 DEF Reads
<1>4. PICK N \in Nat : N = L[n]
  BY <1>3
<1>5. PICK S : S = UNION {{log[s][i][k] : k \in 1..LineCount(s, i)} :
                            i \in {j \in Numbers : Exists(s, j)}}
  OBVIOUS
<1>6. \A p \in 1..N : \E k \in 1..n : \E m \in 1..c[k] : p = L[k - 1] + m
  <2>1. Stack(n, L, c)
    BY <1>1 DEF Layout
  <2>2. Spans(n, L, c)
    BY <2>1, Stacked
  <2> QED
    BY <1>4, <2>2 DEF Spans
<1>7. \A k \in 1..n : \A m \in 1..c[k] : L[k - 1] + m \in 1..N
  <2>1. Stack(n, L, c)
    BY <1>1 DEF Layout
  <2>2. Spans(n, L, c)
    BY <2>1, Stacked
  <2> QED
    BY <1>4, <2>2 DEF Spans
<1>8. ASSUME NEW p \in 1..N PROVE g[p] \in S
  <2>1. PICK k \in 1..n : \E m \in 1..c[k] : p = L[k - 1] + m
    BY <1>6
  <2>2. PICK m \in 1..c[k] : p = L[k - 1] + m
    BY <2>1
  <2>3. /\ n - k \in Numbers /\ log[s][n - k] # Missing /\ log[s][n - k] = x[k]
        /\ LineCount(s, n - k) = c[k]
    BY <1>1 DEF Layout
  <2>4. n - k \in {j \in Numbers : Exists(s, j)}
    BY <2>3 DEF Exists
  <2>5. g[p] = log[s][n - k][m] /\ m \in 1..LineCount(s, n - k)
    BY <1>3, <2>2, <2>3
  <2> QED
    BY <1>5, <2>4, <2>5
<1>9. ASSUME NEW e \in S PROVE \E p \in 1..N : e = g[p]
  <2>1. PICK i \in Numbers : Exists(s, i) /\ \E k \in 1..LineCount(s, i) : e = log[s][i][k]
    BY <1>5
  <2>2. PICK m \in 1..LineCount(s, i) : e = log[s][i][m]
    BY <2>1
  <2>3. i < n /\ i \in Nat
    BY <1>1, <2>1, NumbersOk DEF Layout, Exists
  <2>4. PICK k \in 1..n : n - k = i
    <3>1. n - i \in 1..n /\ n - (n - i) = i
      BY <2>3
    <3> QED
      BY <3>1
  <2>5. log[s][i] = x[k] /\ LineCount(s, i) = c[k]
    BY <1>1, <2>4 DEF Layout
  <2>6. m \in 1..c[k] /\ e = x[k][m]
    BY <2>2, <2>5
  <2> QED
    BY <1>3, <1>7, <2>6
<1>10. \A p \in 1..N : g[p].at \in Nat
  BY <1>3, <1>4, LinesFields
<1>11. \A p, q \in 1..N : g[q].at < g[p].at <=> q < p
  BY <1>3, <1>4, <1>10
<1>12. \A p, q \in 1..N : g[p] = g[q] => p = q
  <2> SUFFICES ASSUME NEW p \in 1..N, NEW q \in 1..N, g[p] = g[q] PROVE p = q
    OBVIOUS
  <2>1. ~(p < q) /\ ~(q < p)
    BY <1>10, <1>11
  <2> QED
    BY <2>1
<1>13. PICK below : below = [e \in S |-> {y \in S : y.at < e.at}]
  OBVIOUS
<1>14. ASSUME NEW p \in 1..N PROVE below[g[p]] = {g[q] : q \in 1..(p - 1)}
  <2>1. below[g[p]] = {y \in S : y.at < g[p].at}
    BY <1>8, <1>13
  <2>2. ASSUME NEW y \in S, y.at < g[p].at PROVE y \in {g[q] : q \in 1..(p - 1)}
    <3>1. PICK q \in 1..N : y = g[q]
      BY <1>9
    <3>2. q < p
      BY <1>11, <2>2, <3>1
    <3>3. q \in 1..(p - 1)
      BY <3>2
    <3> QED
      BY <3>1, <3>3
  <2>3. ASSUME NEW q \in 1..(p - 1) PROVE g[q] \in S /\ g[q].at < g[p].at
    <3>1. q \in 1..N /\ q < p
      OBVIOUS
    <3> QED
      BY <1>8, <1>11, <3>1
  <2> QED
    BY <2>1, <2>2, <2>3
<1>15. g \in [1..N -> S]
  BY <1>3, <1>4, <1>8
<1>16. /\ Cardinality(S) = N
       /\ \A p \in 1..N : /\ Cardinality(below[g[p]]) = p - 1
                          /\ \A e \in S : Cardinality(below[e]) = p - 1 => e = g[p]
  <2>1. Numbering(g, N, S) /\ Ranking(g, N, below)
    BY <1>9, <1>12, <1>14, <1>15 DEF Numbering, Ranking
  <2> QED
    BY <2>1, Ranked
<1>17. Indexed(s) = [p \in 1..Cardinality(S) |->
                       CHOOSE e \in S : Cardinality({y \in S : y.at < e.at}) = p - 1]
  BY <1>5 DEF Indexed, Sorted
<1>18. ASSUME NEW p \in 1..N
       PROVE  (CHOOSE e \in S : Cardinality({y \in S : y.at < e.at}) = p - 1) = g[p]
  <2>1. \A e \in S : below[e] = {y \in S : y.at < e.at}
    BY <1>13
  <2>2. g[p] \in S /\ Cardinality({y \in S : y.at < g[p].at}) = p - 1
    BY <1>8, <1>16, <2>1
  <2>3. \A e \in S : Cardinality({y \in S : y.at < e.at}) = p - 1 => e = g[p]
    BY <1>16, <2>1
  <2> QED
    BY ONLY <2>2, <2>3
<1>19. Indexed(s) = [p \in 1..N |-> g[p]]
  <2>1. Indexed(s) = [p \in 1..N |->
                        CHOOSE e \in S : Cardinality({y \in S : y.at < e.at}) = p - 1]
    BY <1>16, <1>17
  <2> QED
    BY ONLY <1>18, <2>1
<1> QED
  BY <1>2, <1>15, <1>19


(* The lines of y behind the a-th and up to the z-th.                      *)
CutOf(u, y, a, z) ==
    /\ u \in Seq(Lines) /\ Len(u) = z - a
    /\ \A i \in 1..(z - a) : u[i] = y[a + i]
LEMMA Cut ==
    ASSUME NEW y, NEW a \in Nat, NEW z \in Nat, a <= z,
           \A i \in (a + 1)..z : y[i] \in Lines
    PROVE  CutOf(SubSeq(y, a + 1, z), y, a, z)
<1>1. PICK m \in Int : m = a + 1
  OBVIOUS
<1>2. PICK u : u = SubSeq(y, m, z)
  OBVIOUS
<1>3. \A i \in m..z : y[i] \in Lines
  BY <1>1
<1>4. /\ u \in Seq(Lines) /\ Len(u) = (IF m <= z THEN z - m + 1 ELSE 0)
      /\ \A i \in 1..(z - m + 1) : u[i] = y[m + i - 1]
  BY <1>2, <1>3, SubSeqProperties
<1>5. z - m + 1 = z - a /\ (~(m <= z) => z - a = 0)
      /\ \A i \in 1..(z - a) : m + i - 1 = a + i
  BY <1>1
<1> QED
  BY <1>1, <1>2, <1>4, <1>5 DEF CutOf

(* What one segment contributes to a window.                               *)
Portion(g, start, count, b, e) ==
    IF e <= start \/ b >= start + count THEN <<>>
    ELSE SubSeq(g, Greater(start, b) + 1, Lesser(start + count, e))
LEMMA PartIs ==
    ASSUME ReadInv, NEW s \in Streams, NEW n \in Nat, NEW L, NEW c, NEW x,
           Layout(s, n, L, c, x), NEW g, g = Retained(s),
           NEW start \in Nat, NEW count \in Nat, NEW j \in 1..n,
           NEW b \in Nat, NEW e \in Nat, b = L[j - 1], e = L[j]
    PROVE  Part(s, j, start, count) = Portion(g, start, count, b, e)
<1>1. /\ LinesIn(s, j - 1) = b /\ LinesIn(s, j) = e /\ Segments(s)[j] = n - j
      /\ n - j \in Numbers /\ log[s][n - j] # Missing /\ log[s][n - j] = x[j]
      /\ x[j] \in Seq(Lines) /\ LineCount(s, n - j) = c[j] /\ c[j] <= Len(x[j])
      /\ Stack(n, L, c)
  BY DEF Layout
<1>2. PICK d \in Nat : d = c[j] /\ e = b + d /\ d <= Len(x[j])
  BY <1>1 DEF Stack
<1>3. PICK lo \in Nat : /\ lo = Max({start, b}) /\ lo = Greater(start, b)
                        /\ lo >= b /\ (lo = start \/ lo = b)
  <2>1. Max({start, b}) = Greater(start, b)
    BY MaxMinTwo, start \in Int, b \in Int, Zenon
  <2>2. Greater(start, b) \in {start, b} /\ Greater(start, b) >= b
    BY DEF Greater
  <2> QED
    BY <2>1, <2>2
<1>4. PICK hi \in Nat : /\ hi = Min({start + count, e}) /\ hi = Lesser(start + count, e)
                        /\ hi <= e /\ (hi = start + count \/ hi = e)
  <2>1. Min({start + count, e}) = Lesser(start + count, e)
    BY MaxMinTwo, start + count \in Int, e \in Int, Zenon
  <2>2. Lesser(start + count, e) \in {start + count, e} /\ Lesser(start + count, e) <= e
    BY DEF Lesser
  <2> QED
    BY <2>1, <2>2
<1>5. Part(s, j, start, count) = IF e <= start \/ b >= start + count THEN <<>>
                                 ELSE ReadSegment(s, n - j, lo - b, (hi - b) - (lo - b))
  BY <1>1, <1>3, <1>4 DEF Part
<1> SUFFICES ASSUME ~(e <= start \/ b >= start + count)
             PROVE  ReadSegment(s, n - j, lo - b, (hi - b) - (lo - b)) = SubSeq(g, lo + 1, hi)
  BY <1>3, <1>4, <1>5 DEF Portion
<1>6. lo <= hi /\ b <= hi
  <2>1. e = b + d /\ lo >= b /\ (lo = start \/ lo = b)
    BY <1>2, <1>3
  <2>2. hi <= e /\ (hi = start + count \/ hi = e)
    BY <1>4
  <2>3. start < e /\ b < start + count
    OBVIOUS
  <2>4. CASE hi = e
    BY <2>1, <2>3, <2>4
  <2>5. CASE hi = start + count
    BY <2>1, <2>3, <2>5
  <2> QED
    BY <2>2, <2>4, <2>5
<1>7. PICK from \in Nat, to \in Nat, k \in Nat :
         from = lo - b /\ to = hi - b /\ k = to - from /\ to <= d /\ from <= to
  <2>1. PICK from \in Nat : from = lo - b
    BY <1>3
  <2>2. PICK to \in Nat : to = hi - b /\ to <= d
    <3>1. hi <= b + d
      BY <1>2, <1>4
    <3>2. hi - b \in Nat /\ hi - b <= d
      BY <1>6, <3>1
    <3> QED
      BY <3>2
  <2>3. PICK k \in Nat : k = to - from /\ from <= to
    BY <1>6, <2>1, <2>2
  <2> QED
    BY <2>1, <2>2, <2>3
<1>8. Lesser(from + k, d) = to
  BY <1>7 DEF Lesser
<1>9. ReadSegment(s, n - j, from, k) = SubSeq(x[j], from + 1, to)
  <2>1. PICK i \in Numbers : i = n - j
    BY <1>1
  <2>2. log[s][i] # Missing
    BY <1>1, <2>1
  <2>3. ReadSegment(s, i, from, k) = Stretch(log[s][i], from, k, LineCount(s, i))
    BY <2>2, ReadSegmentIs
  <2> QED
    BY <1>1, <1>2, <1>8, <2>1, <2>3 DEF Stretch
<1>10. \A m \in 1..d : g[b + m] = x[j][m] /\ x[j][m] \in Lines
  <2>1. \A m \in 1..d : m \in 1..Len(x[j])
    BY <1>1, <1>2, LenProperties
  <2>2. \A i \in 1..n : \A m \in 1..c[i] : g[L[i - 1] + m] = x[i][m]
    <3>1. Reads(g, n, L, c, x)
      BY RetainedIs
    <3> QED
      BY <3>1 DEF Reads
  <2> QED
    BY <1>1, <1>2, <2>1, <2>2
<1>11. PICK u, v : u = SubSeq(x[j], from + 1, to) /\ v = SubSeq(g, lo + 1, hi)
  OBVIOUS
<1>12. /\ \A i \in (from + 1)..to : x[j][i] \in Lines
       /\ \A i \in (lo + 1)..hi : g[i] \in Lines
  <2>1. \A i \in (from + 1)..to : i \in 1..d
    BY <1>7
  <2>2. \A i \in (lo + 1)..hi : i - b \in 1..d /\ b + (i - b) = i
    BY <1>7
  <2> QED
    BY <1>10, <2>1, <2>2
<1>13. /\ u \in Seq(Lines) /\ Len(u) = k /\ \A i \in 1..k : u[i] = x[j][from + i]
  <2>1. PICK y : y = x[j]
    OBVIOUS
  <2>2. \A i \in (from + 1)..to : y[i] \in Lines
    BY <1>12, <2>1
  <2>3. CutOf(SubSeq(y, from + 1, to), y, from, to)
    BY <1>7, <2>2, Cut
  <2> QED
    BY <1>7, <1>11, <2>1, <2>3 DEF CutOf
<1>14. /\ v \in Seq(Lines) /\ Len(v) = k /\ \A i \in 1..k : v[i] = g[lo + i]
  <2>1. CutOf(SubSeq(g, lo + 1, hi), g, lo, hi)
    BY <1>6, <1>12, Cut
  <2>2. k = hi - lo
    BY <1>7
  <2> QED
    BY <1>11, <2>1, <2>2 DEF CutOf
<1>15. \A i \in 1..k : u[i] = v[i]
  <2>1. \A i \in 1..k : from + i \in 1..d /\ b + (from + i) = lo + i
    BY <1>7
  <2> QED
    BY <1>10, <1>13, <1>14, <2>1
<1>16. u = v
  BY <1>13, <1>14, <1>15, SeqEqual
<1> QED
  BY <1>7, <1>9, <1>11, <1>16

(* The segments up to the j-th give the window up to their last line.      *)
Joins(s, j, start, count, g, b, e) ==
    Stretch(g, start, count, b) \o Part(s, j, start, count) = Stretch(g, start, count, e)
LEMMA WindowStep ==
    ASSUME ReadInv, NEW s \in Streams, NEW n \in Nat, NEW L, NEW c, NEW x,
           Layout(s, n, L, c, x), NEW g, g = Retained(s),
           NEW start \in Nat, NEW count \in Nat, NEW j \in 1..n,
           NEW b \in Nat, NEW e \in Nat, b = L[j - 1], e = L[j]
    PROVE  Joins(s, j, start, count, g, b, e)
<1>1. g \in Seq(Lines) /\ Len(g) = L[n] /\ Stack(n, L, c)
  <2>1. Reads(g, n, L, c, x)
    BY RetainedIs
  <2>2. g \in Seq(Lines) /\ Len(g) = L[n]
    BY <2>1 DEF Reads
  <2> QED
    BY <2>2 DEF Layout
<1>2. PICK N \in Nat : N = L[n] /\ b <= e /\ e <= N
  <2>1. \A i, k \in 0..n : i <= k => L[i] <= L[k]
    <3>1. Spans(n, L, c)
      BY <1>1, Stacked
    <3> QED
      BY <3>1 DEF Spans
  <2>2. L[j - 1] \in Nat /\ L[j] \in Nat /\ L[n] \in Nat
    BY <1>1 DEF Stack
  <2>3. L[j - 1] <= L[j] /\ L[j] <= L[n]
    BY <2>1
  <2> QED
    BY <2>2, <2>3
<1>3. Part(s, j, start, count) = Portion(g, start, count, b, e)
  BY PartIs
<1>4. /\ Greater(start, b) = IF start >= b THEN start ELSE b
      /\ Lesser(start + count, b) = IF start + count <= b THEN start + count ELSE b
      /\ Lesser(start + count, e) = IF start + count <= e THEN start + count ELSE e
  BY DEF Greater, Lesser
<1>5. PICK lo \in Nat : lo = Greater(start, b)
  BY <1>4
<1>6. PICK h \in Nat : h = Lesser(start + count, b)
  BY <1>4
<1>7. PICK hi \in Nat : hi = Lesser(start + count, e)
  BY <1>4
<1>8. ASSUME NEW k \in Nat, k < start + 1 PROVE SubSeq(g, start + 1, k) = <<>>
  BY <1>8, SubSeqEmpty
<1>9. ASSUME NEW k \in Nat, k <= N PROVE SubSeq(g, start + 1, k) \in Seq(Lines)
  <2>1. \A i \in (start + 1)..k : i \in 1..Len(g)
    BY <1>1, <1>2, <1>9
  <2>2. \A i \in (start + 1)..k : g[i] \in Lines
    BY <1>1, <2>1, ElementOfSeq
  <2> QED
    BY <2>2, SubSeqProperties
<1> SUFFICES SubSeq(g, start + 1, h) \o
               (IF e <= start \/ b >= start + count THEN <<>> ELSE SubSeq(g, lo + 1, hi)) =
                 SubSeq(g, start + 1, hi)
  BY <1>2, <1>3, <1>5, <1>6, <1>7 DEF Portion, Stretch, Joins
<1>10. CASE e <= start \/ b >= start + count
  <2>1. SubSeq(g, start + 1, h) \o <<>> = SubSeq(g, start + 1, h)
    <3>1. h <= N
      BY <1>2, <1>4, <1>5, <1>6, <1>7
    <3> QED
      BY <1>9, <3>1, ConcatEmptySeq
  <2>2. SubSeq(g, start + 1, h) = SubSeq(g, start + 1, hi)
    <3>1. CASE e <= start
      <4>1. h < start + 1 /\ hi < start + 1
        BY <1>2, <1>4, <1>5, <1>6, <1>7, <3>1
      <4> QED
        BY <1>8, <4>1
    <3>2. CASE b >= start + count
      <4>1. h = start + count /\ hi = start + count
        BY <1>2, <1>4, <1>6, <1>7, <3>2
      <4> QED
        BY <4>1
    <3> QED
      BY <1>10, <3>1, <3>2
  <2> QED
    BY <1>10, <2>1, <2>2
<1>11. CASE ~(e <= start \/ b >= start + count)
  <2>1. h = b /\ hi <= N /\ lo <= hi
    BY <1>2, <1>4, <1>5, <1>6, <1>7, <1>11
  <2>2. CASE start >= b
    <3>1. SubSeq(g, start + 1, h) = <<>> /\ lo = start
      BY <1>4, <1>5, <1>8, <2>1, <2>2
    <3>2. <<>> \o SubSeq(g, start + 1, hi) = SubSeq(g, start + 1, hi)
      BY <1>9, <2>1, ConcatEmptySeq
    <3> QED
      BY <1>11, <3>1, <3>2
  <2>3. CASE start < b
    <3>1. lo = b
      BY <1>4, <1>5, <2>3
    <3>2. start + 1 \in 1..(Len(g) + 1) /\ b \in ((start + 1) - 1)..Len(g) /\ hi \in b..Len(g)
      BY <1>1, <1>2, <2>1, <2>3, <3>1
    <3>3. SubSeq(g, start + 1, b) \o SubSeq(g, b + 1, hi) = SubSeq(g, start + 1, hi)
      BY <1>1, <3>2, ConcatAdjacentSubSeq
    <3> QED
      BY <1>11, <2>1, <3>1, <3>3
  <2> QED
    BY <2>2, <2>3
<1> QED
  BY <1>10, <1>11


LEMMA ReadLinesIs ==
    ASSUME ReadInv, NEW s \in Streams, NEW start \in Nat, NEW count \in Nat
    PROVE  ReadLines(s, start, count) = Stretch(Retained(s), start, count, Total(s))
<1>0. PICK n \in Nat : \E L, c, x : Layout(s, n, L, c, x)
  BY LayoutIs
<1>1. PICK L, c, x : Layout(s, n, L, c, x)
  BY <1>0
<1>2. PICK g : g = Retained(s)
  OBVIOUS
<1>3. L[n] = Total(s) /\ L[0] = 0 /\ Len(Segments(s)) = n
  BY <1>1 DEF Layout, Stack
<1>4. PICK w : w = [j \in 0..n |-> Stretch(g, start, count, L[j])]
  OBVIOUS
<1>5. ASSUME NEW j \in 1..n PROVE w[j - 1] \o Part(s, j, start, count) = w[j]
  <2>1. j - 1 \in 0..n /\ j \in 0..n
    OBVIOUS
  <2>2. PICK b \in Nat, e \in Nat : b = L[j - 1] /\ e = L[j]
    BY <1>1, <2>1 DEF Layout, Stack
  <2>3. Joins(s, j, start, count, g, b, e)
    BY <1>1, <1>2, <2>2, WindowStep
  <2> QED
    BY <1>4, <2>1, <2>2, <2>3 DEF Joins
<1>6. w[0] = <<>>
  <2>1. Lesser(start + count, L[0]) = 0
    BY <1>3 DEF Lesser
  <2>2. SubSeq(g, start + 1, 0) = <<>>
    BY SubSeqEmpty
  <2> QED
    BY <1>4, <2>1, <2>2 DEF Stretch
<1>7. w = [j \in 0..n |-> IF j = 0 THEN <<>> ELSE w[j - 1] \o Part(s, j, start, count)]
  <2>1. \A j \in 0..n : j # 0 => j \in 1..n
    OBVIOUS
  <2>2. \A j \in 0..n : w[j] = IF j = 0 THEN <<>> ELSE w[j - 1] \o Part(s, j, start, count)
    BY <1>5, <1>6, <2>1
  <2> QED
    BY <1>4, <2>2
<1>8. PICK out : out = CHOOSE v : v =
        [j \in 0..n |-> IF j = 0 THEN <<>> ELSE v[j - 1] \o Part(s, j, start, count)]
  OBVIOUS
<1>9. out = [j \in 0..n |-> IF j = 0 THEN <<>> ELSE out[j - 1] \o Part(s, j, start, count)]
  BY <1>7, <1>8
<1>10. out[0] = <<>> /\ \A j \in 1..n : out[j] = out[j - 1] \o Part(s, j, start, count)
  <2>1. PICK F : F = [j \in 0..n |->
                         IF j = 0 THEN <<>> ELSE out[j - 1] \o Part(s, j, start, count)]
    OBVIOUS
  <2>2. F[0] = <<>> /\ \A j \in 1..n : F[j] = out[j - 1] \o Part(s, j, start, count)
    BY <2>1
  <2>3. out = F
    BY ONLY <1>9, <2>1
  <2> QED
    BY ONLY <2>2, <2>3
<1>11. ReadLines(s, start, count) = out[n]
  BY <1>3, <1>8 DEF ReadLines
<1>12. \A j \in 0..n : out[j] = w[j]
  <2> DEFINE T == {j \in Nat : out[j] = w[j]}
  <2>1. 0 \in T
    BY <1>6, <1>10
  <2>2. ASSUME NEW j \in 0..n, j # n, j \in T PROVE j + 1 \in T
    <3>1. PICK k \in 1..n : k = j + 1 /\ k - 1 = j
      BY <2>2
    <3>2. out[k] = out[k - 1] \o Part(s, k, start, count)
      BY <1>10
    <3>3. w[k] = w[k - 1] \o Part(s, k, start, count)
      BY <1>5
    <3>4. out[k - 1] = w[k - 1]
      BY <2>2, <3>1
    <3>5. out[k] = w[k]
      BY <3>2, <3>3, <3>4
    <3> QED
      BY <3>1, <3>5
  <2>3. \A j \in 0..n : j \in T
    <3> HIDE DEF T
    <3> QED
      BY <2>1, <2>2, UpTo
  <2> QED
    BY <2>3
<1> QED
  BY <1>2, <1>3, <1>4, <1>11, <1>12

LEMMA ReadInvWindows ==
    ASSUME ReadInv
    PROVE  WindowExact
<1> SUFFICES ASSUME NEW s \in Streams
             PROVE  LET all == Indexed(s)
                    IN  /\ Total(s) = Len(all)
                        /\ \A start \in 0..Len(all), count \in 0..Len(all) + 1 :
                              ReadLines(s, start, count) =
                                SubSeq(all, start + 1, Min({start + count, Len(all)}))
  BY DEF WindowExact
<1>1. PICK all : all = Indexed(s) /\ all = Retained(s)
  BY IndexedIs
<1>2. PICK N \in Nat : N = Total(s) /\ N = Len(all)
  <2>0. PICK n \in Nat : \E L, c, x : Layout(s, n, L, c, x)
    BY LayoutIs
  <2>1. PICK L, c, x : Layout(s, n, L, c, x)
    BY <2>0
  <2>2. L[n] \in Nat /\ Len(all) = L[n]
    <3>1. Reads(all, n, L, c, x)
      BY <1>1, <2>1, RetainedIs
    <3> QED
      BY <3>1 DEF Reads
  <2> QED
    BY <2>1, <2>2 DEF Layout
<1>3. ASSUME NEW start \in 0..N, NEW count \in 0..(N + 1)
      PROVE  ReadLines(s, start, count) = SubSeq(all, start + 1, Min({start + count, N}))
  <2>1. start \in Nat /\ count \in Nat /\ start <= N
    OBVIOUS
  <2>2. ReadLines(s, start, count) = Stretch(all, start, count, N)
    BY <1>1, <1>2, <2>1, ReadLinesIs
  <2>3. Min({start + count, N}) = Lesser(start + count, N)
    BY MaxMinTwo, start + count \in Int, N \in Int, Zenon
  <2> QED
    BY <2>2, <2>3 DEF Stretch
<1> QED
  BY <1>1, <1>2, <1>3

(* Whatever rotations, respawns and killed daemons have left on disk, the  *)
(* TUI's reader finds every line its index knows and answers each window   *)
(* with exactly that stretch of them, for every size and number of files.  *)
THEOREM WindowExactHolds == Unfailing /\ Spec => []WindowExact
<1>1. ReadInv => WindowExact
  BY ReadInvWindows
<1> QED
  BY <1>1, ReadInvHolds, PTL


-----------------------------------------------------------------------------
(* The merged view                                                         *)

(* A finite set under a strict total order: an element has its own number  *)
(* of predecessors, and every number below the cardinality is taken.       *)
Ordering(S, below) ==
    /\ \A x \in S : below[x] \subseteq S /\ x \notin below[x]
    /\ \A x, y \in S : x # y => x \in below[y] \/ y \in below[x]
    /\ \A x, y \in S : x \in below[y] => below[x] \subseteq below[y]
LEMMA OrderedRanks ==
    ASSUME NEW S, IsFiniteSet(S), NEW below, Ordering(S, below),
           NEW n \in Nat, n = Cardinality(S)
    PROVE  /\ \A x \in S : Cardinality(below[x]) \in 0..(n - 1)
           /\ \A x, y \in S : Cardinality(below[x]) < Cardinality(below[y]) => x \in below[y]
           /\ \A i \in 1..n : \E x \in S :
                 /\ Cardinality(below[x]) = i - 1
                 /\ \A y \in S : Cardinality(below[y]) = i - 1 => y = x
<1>1. ASSUME NEW x \in S PROVE IsFiniteSet(below[x]) /\ Cardinality(below[x]) \in 0..(n - 1)
  <2>1. below[x] \subseteq S /\ below[x] # S
    BY DEF Ordering
  <2>2. /\ IsFiniteSet(below[x]) /\ Cardinality(below[x]) <= Cardinality(S)
        /\ Cardinality(S) = Cardinality(below[x]) => S = below[x]
    BY <2>1, FS_Subset
  <2>3. Cardinality(below[x]) \in Nat
    BY <2>2, FS_CardinalityType
  <2>4. PICK r \in Nat : r = Cardinality(below[x])
    BY <2>3
  <2>5. r <= n /\ r # n
    BY <2>1, <2>2, <2>4
  <2>6. r \in 0..(n - 1)
    BY <2>5
  <2> QED
    BY <2>2, <2>4, <2>6
<1>2. ASSUME NEW x \in S, NEW y \in S, x \in below[y]
      PROVE  Cardinality(below[x]) < Cardinality(below[y])
  <2>1. below[x] \subseteq below[y] /\ below[x] # below[y]
    BY <1>2 DEF Ordering
  <2>2. /\ Cardinality(below[x]) <= Cardinality(below[y])
        /\ Cardinality(below[y]) = Cardinality(below[x]) => below[y] = below[x]
    BY <1>1, <2>1, FS_Subset
  <2>3. Cardinality(below[x]) \in Nat /\ Cardinality(below[y]) \in Nat
    BY <1>1
  <2> QED
    BY <2>1, <2>2, <2>3
<1>3. ASSUME NEW x \in S, NEW y \in S, Cardinality(below[x]) = Cardinality(below[y])
      PROVE  x = y
  <2>1. Cardinality(below[x]) \in Nat /\ Cardinality(below[y]) \in Nat
    BY <1>1
  <2>2. x \notin below[y] /\ y \notin below[x]
    BY <1>2, <1>3, <2>1
  <2> QED
    BY <2>2 DEF Ordering
<1>4. ASSUME NEW x \in S, NEW y \in S, Cardinality(below[x]) < Cardinality(below[y])
      PROVE  x \in below[y]
  <2>1. Cardinality(below[x]) \in Nat /\ Cardinality(below[y]) \in Nat
    BY <1>1
  <2>2. x # y /\ y \notin below[x]
    BY <1>2, <1>4, <2>1
  <2> QED
    BY <2>2 DEF Ordering
<1>5. PICK rank : rank = [x \in S |-> Cardinality(below[x])]
  OBVIOUS
<1>6. PICK R : R = {rank[x] : x \in S}
  OBVIOUS
<1>7. rank \in Bijection(S, R)
  <2>1. rank \in [S -> R] /\ \A r \in R : \E x \in S : rank[x] = r
    BY <1>5, <1>6
  <2>2. \A x, y \in S : rank[x] = rank[y] => x = y
    BY <1>3, <1>5
  <2> QED
    BY <2>1, <2>2 DEF Bijection, Injection, Surjection, IsInjective
<1>8. Cardinality(R) = n
  <2>1. ExistsBijection(S, R)
    BY <1>7, Fun_ExistsBij
  <2> QED
    BY <2>1, FS_Bijection
<1>9. R = 0..(n - 1)
  <2>1. R \subseteq 0..(n - 1)
    BY <1>1, <1>5, <1>6
  <2>2. IsFiniteSet(0..(n - 1)) /\ Cardinality(0..(n - 1)) = n
    <3>1. PICK m \in Int : m = n - 1
      OBVIOUS
    <3>2. IsFiniteSet(0..m) /\ Cardinality(0..m) = IF 0 > m THEN 0 ELSE m - 0 + 1
      BY FS_Interval, 0 \in Int
    <3> QED
      BY <3>1, <3>2
  <2> QED
    BY <1>8, <2>1, <2>2, FS_Subset
<1>10. ASSUME NEW i \in 1..n
       PROVE  \E x \in S : /\ Cardinality(below[x]) = i - 1
                           /\ \A y \in S : Cardinality(below[y]) = i - 1 => y = x
  <2>1. i - 1 \in R
    BY <1>9
  <2>2. PICK x \in S : rank[x] = i - 1
    BY <1>6, <2>1
  <2> QED
    BY <1>3, <1>5, <2>2
<1> QED
  BY <1>1, <1>4, <1>10

LEMMA RetainedOk ==
    ASSUME ReadInv, NEW s \in Streams
    PROVE  /\ Total(s) \in Nat /\ Retained(s) \in Seq(Lines) /\ Len(Retained(s)) = Total(s)
           /\ \A p \in 1..Total(s) : Retained(s)[p] \in OnDisk(s) /\ Retained(s)[p] \in Lines
           /\ \A p, q \in 1..Total(s) : p < q => Retained(s)[p].at < Retained(s)[q].at
<1>0. PICK n \in Nat : \E L, c, x : Layout(s, n, L, c, x)
  BY LayoutIs
<1>1. PICK L, c, x : Layout(s, n, L, c, x)
  BY <1>0
<1>2. PICK g : g = Retained(s)
  OBVIOUS
<1>3. /\ L[n] \in Nat /\ g \in [1..L[n] -> Lines]
      /\ g \in Seq(Lines) /\ Len(g) = L[n]
      /\ \A k \in 1..n : \A m \in 1..c[k] : g[L[k - 1] + m] = x[k][m]
      /\ \A p, q \in 1..L[n] : p < q => g[p].at < g[q].at
  <2>1. Reads(g, n, L, c, x)
    BY <1>1, <1>2, RetainedIs
  <2> QED
    BY <2>1 DEF Reads
<1>4. PICK N \in Nat : N = L[n] /\ N = Total(s)
  BY <1>1, <1>3 DEF Layout
<1>5. Stack(n, L, c)
  BY <1>1 DEF Layout
<1>6. \A p \in 1..N : \E k \in 1..n : \E m \in 1..c[k] : p = L[k - 1] + m
  <2>1. Spans(n, L, c)
    BY <1>5, Stacked
  <2> QED
    BY <1>4, <2>1 DEF Spans
<1>7. ASSUME NEW p \in 1..N PROVE g[p] \in OnDisk(s)
  <2>1. PICK k \in 1..n : \E m \in 1..c[k] : p = L[k - 1] + m
    BY <1>6
  <2>2. PICK m \in 1..c[k] : p = L[k - 1] + m
    BY <2>1
  <2>3. /\ n - k \in Numbers /\ log[s][n - k] # Missing /\ log[s][n - k] = x[k]
        /\ x[k] \in Seq(Lines) /\ c[k] <= Len(x[k]) /\ c[k] \in Nat
    BY <1>1, <1>5 DEF Layout, Stack
  <2>4. m \in DOMAIN x[k]
    BY <2>3, LenProperties
  <2>5. g[p] = x[k][m]
    BY <1>3, <2>2
  <2>6. g[p] \in Held(log[s])
    BY <2>3, <2>4, <2>5, HeldIs
  <2>7. OnDisk(s) = Held(log[s])
    BY OnDiskLines DEF ReadInv, OrderInv
  <2> QED
    BY <2>6, <2>7
<1> QED
  BY <1>2, <1>3, <1>4, <1>7


(* The entry of a stream's p-th line, and the entries of all of them.      *)
Entry(s, p) == [seq |-> Retained(s)[p].seq, source |-> s, line |-> p - 1]
LEMMA EntriesIs ==
    ASSUME ReadInv, NEW s \in Streams
    PROVE  Entries(s) = {Entry(s, p) : p \in 1..Total(s)}
<1>0. PICK n \in Nat : \E L, c, x : Layout(s, n, L, c, x)
  BY LayoutIs
<1>1. PICK L, c, x : Layout(s, n, L, c, x)
  BY <1>0
<1>2. PICK g : g = Retained(s)
  OBVIOUS
<1>3. \A k \in 1..n : \A m \in 1..c[k] : g[L[k - 1] + m] = x[k][m]
  <2>1. Reads(g, n, L, c, x)
    BY <1>1, <1>2, RetainedIs
  <2> QED
    BY <2>1 DEF Reads
<1>4. /\ Stack(n, L, c) /\ L[n] = Total(s) /\ DOMAIN Segments(s) = 1..n
      /\ \A j \in 1..n : /\ Segments(s)[j] = n - j /\ n - j \in Numbers
                         /\ log[s][n - j] # Missing /\ log[s][n - j] = x[j]
                         /\ LineCount(s, n - j) = c[j] /\ L[j - 1] = LinesIn(s, j - 1)
  BY <1>1 DEF Layout
<1>5. /\ \A p \in 1..Total(s) : \E k \in 1..n : \E m \in 1..c[k] : p = L[k - 1] + m
      /\ \A k \in 1..n : \A m \in 1..c[k] : L[k - 1] + m \in 1..Total(s)
  <2>1. Spans(n, L, c)
    BY <1>4, Stacked
  <2> QED
    BY <1>4, <2>1 DEF Spans
<1> DEFINE At(j, k) ==
      LET i == Segments(s)[j] IN
      [seq |-> IF idx[s][i] # Missing THEN idx[s][i][k].seq ELSE NoSeq,
       source |-> s, line |-> LinesIn(s, j - 1) + k - 1]
<1>6. ASSUME NEW j \in 1..n, NEW k \in 1..c[j]
      PROVE  At(j, k) = Entry(s, L[j - 1] + k)
  <2>1. PICK i \in Numbers : i = n - j
    BY <1>4
  <2>2. /\ Segments(s)[j] = i /\ log[s][i] # Missing /\ log[s][i] = x[j]
        /\ LineCount(s, i) = c[j] /\ L[j - 1] = LinesIn(s, j - 1)
    BY <1>4, <2>1
  <2>3. idx[s][i] # Missing /\ Marks(idx[s][i][k], x[j][k])
    <3>1. idx[s][i] # Missing /\ \A m \in 1..LineCount(s, i) : Marks(idx[s][i][m], log[s][i][m])
      BY <2>2, CountIs
    <3> QED
      BY <2>2, <3>1
  <2>4. PICK q : q = idx[s][i][k].seq
    OBVIOUS
  <2>5. PICK p : p = L[j - 1] + k
    OBVIOUS
  <2>6. q = Retained(s)[p].seq
    BY <1>2, <1>3, <2>3, <2>4, <2>5 DEF Marks
  <2>7. At(j, k) = [seq |-> q, source |-> s, line |-> p - 1]
    <3>1. L[j - 1] \in Nat
      BY <1>4 DEF Stack
    <3>2. LinesIn(s, j - 1) + k - 1 = p - 1
      BY <2>2, <2>5, <3>1
    <3> QED
      BY ONLY <2>2, <2>3, <2>4, <3>2
  <2>8. Entry(s, p) = [seq |-> q, source |-> s, line |-> p - 1]
    BY <2>6 DEF Entry
  <2> QED
    BY <2>5, <2>7, <2>8
<1>7. Entries(s) = UNION {{At(j, k) : k \in 1..c[j]} : j \in 1..n}
  <2>1. \A j \in 1..n : LineCount(s, Segments(s)[j]) = c[j]
    BY <1>4
  <2>2. Entries(s) = UNION {{At(j, k) : k \in 1..LineCount(s, Segments(s)[j])}
                              : j \in DOMAIN Segments(s)}
    BY ONLY DEF Entries
  <2> HIDE DEF At
  <2>3. \A j \in 1..n : {At(j, k) : k \in 1..LineCount(s, Segments(s)[j])}
                         = {At(j, k) : k \in 1..c[j]}
    BY <2>1
  <2> QED
    BY <1>4, <2>2, <2>3
<1> HIDE DEF At
<1>8. ASSUME NEW e \in Entries(s) PROVE e \in {Entry(s, p) : p \in 1..Total(s)}
  <2>1. PICK j \in 1..n : \E k \in 1..c[j] : e = At(j, k)
    BY <1>7
  <2>2. PICK k \in 1..c[j] : e = At(j, k)
    BY <2>1
  <2>3. PICK p \in 1..Total(s) : p = L[j - 1] + k
    BY <1>4, <1>5
  <2> QED
    BY <1>6, <2>2, <2>3
<1>9. ASSUME NEW p \in 1..Total(s) PROVE Entry(s, p) \in Entries(s)
  <2>1. PICK j \in 1..n : \E k \in 1..c[j] : p = L[j - 1] + k
    BY <1>4, <1>5
  <2>2. PICK k \in 1..c[j] : p = L[j - 1] + k
    BY <2>1
  <2> QED
    BY <1>6, <1>7, <2>2
<1> QED
  BY <1>8, <1>9

LEMMA EntryIs ==
    ASSUME ReadInv, NEW s \in Streams, NEW p \in 1..Total(s)
    PROVE  /\ Entry(s, p).seq = Retained(s)[p].seq /\ Entry(s, p).seq \in Nat
           /\ Entry(s, p).source = s /\ Entry(s, p).line = p - 1 /\ Entry(s, p).line \in Nat
           /\ ReadSingle(s, p - 1) = Retained(s)[p]
           /\ Retained(s)[p] \in Lines /\ Retained(s)[p] \in OnDisk(s)
<1>1. Retained(s)[p] \in Lines /\ Retained(s)[p] \in OnDisk(s) /\ p \in Nat /\ p > 0
  BY RetainedOk
<1>2. Retained(s)[p].seq \in Nat
  BY <1>1, LinesFields
<1>3. ReadSingle(s, p - 1) = Retained(s)[p]
  BY DEF Retained
<1> QED
  BY <1>1, <1>2, <1>3 DEF Entry

(* The entries of both streams: as many as there are lines, and strictly   *)
(* ordered.                                                                *)
AllEntries == Entries("stdout") \cup Entries("stderr")
LEMMA EntriesCount ==
    ASSUME ReadInv
    PROVE  IsFiniteSet(AllEntries) /\ Cardinality(AllEntries) = Total("stdout") + Total("stderr")
<1>1. ASSUME NEW s \in Streams
      PROVE  IsFiniteSet(Entries(s)) /\ Cardinality(Entries(s)) = Total(s)
  <2>1. PICK N \in Nat : N = Total(s)
    BY RetainedOk
  <2>2. PICK g : g = [p \in 1..N |-> Entry(s, p)]
    OBVIOUS
  <2>3. Entries(s) = {Entry(s, p) : p \in 1..N}
    BY <2>1, EntriesIs
  <2>4. \A p \in 1..N : Entry(s, p).line = p - 1
    BY <2>1, EntryIs
  <2>5. \A p, q \in 1..N : g[p] = g[q] => p = q
    <3> SUFFICES ASSUME NEW p \in 1..N, NEW q \in 1..N, g[p] = g[q] PROVE p = q
      OBVIOUS
    <3>1. p - 1 = q - 1
      BY <2>2, <2>4
    <3> QED
      BY <3>1
  <2>6. Numbering(g, N, Entries(s))
    <3>1. g \in [1..N -> Entries(s)] /\ \A e \in Entries(s) : \E p \in 1..N : e = g[p]
      BY <2>2, <2>3
    <3> QED
      BY <2>5, <3>1 DEF Numbering
  <2>7. Cardinality(Entries(s)) = N
    BY <2>6, Counted
  <2>8. IsFiniteSet(Entries(s))
    <3>1. IsFiniteSet(1..N)
      BY FS_Interval, 1 \in Int, N \in Int
    <3>2. g \in Surjection(1..N, Entries(s))
      BY <2>6 DEF Numbering, Surjection
    <3> QED
      BY <3>1, <3>2, FS_Surjection
  <2> QED
    BY <2>1, <2>7, <2>8
<1>2. Entries("stdout") \cap Entries("stderr") = {}
  <2> SUFFICES ASSUME NEW e \in Entries("stdout"), e \in Entries("stderr") PROVE FALSE
    OBVIOUS
  <2>1. \A s \in Streams : e \in Entries(s) => e.source = s
    BY EntriesIs, EntryIs
  <2> QED
    BY <2>1 DEF Streams
<1>3. PICK A, B : A = Entries("stdout") /\ B = Entries("stderr")
  OBVIOUS
<1>4. /\ IsFiniteSet(A) /\ Cardinality(A) = Total("stdout") /\ Total("stdout") \in Nat
      /\ IsFiniteSet(B) /\ Cardinality(B) = Total("stderr") /\ Total("stderr") \in Nat
  BY <1>1, <1>3, RetainedOk DEF Streams
<1>5. /\ IsFiniteSet(A \cup B)
      /\ Cardinality(A \cup B) = Cardinality(A) + Cardinality(B) - Cardinality(A \cap B)
  BY <1>4, FS_Union
<1>6. Cardinality(A \cap B) = 0
  BY <1>2, <1>3, FS_EmptySet
<1> QED
  BY <1>3, <1>4, <1>5, <1>6 DEF AllEntries


Tags == [seq : Nat, source : Streams, line : Nat]
LEMMA BeforeOrder ==
    ASSUME NEW e \in Tags, NEW f \in Tags
    PROVE  /\ ~Before(e, e)
           /\ e # f => Before(e, f) \/ Before(f, e)
           /\ \A h \in Tags : Before(e, f) /\ Before(f, h) => Before(e, h)
<1>1. /\ e.seq \in Nat /\ e.line \in Nat /\ e.source \in {"stdout", "stderr"}
      /\ f.seq \in Nat /\ f.line \in Nat /\ f.source \in {"stdout", "stderr"}
  BY DEF Tags, Streams
<1>2. ~Before(e, e)
  BY <1>1 DEF Before
<1>3. ASSUME e # f PROVE Before(e, f) \/ Before(f, e)
  <2>1. ~(e.seq = f.seq /\ e.source = f.source /\ e.line = f.line)
    BY <1>3 DEF Tags
  <2> QED
    BY <1>1, <2>1 DEF Before
<1>4. ASSUME NEW h \in Tags, Before(e, f), Before(f, h) PROVE Before(e, h)
  <2>1. h.seq \in Nat /\ h.line \in Nat /\ h.source \in {"stdout", "stderr"}
    BY DEF Tags, Streams
  <2> QED
    BY <1>1, <1>4, <2>1 DEF Before
<1> QED
  BY <1>2, <1>3, <1>4

LEMMA EntryOf ==
    ASSUME ReadInv, NEW e \in AllEntries
    PROVE  e \in Tags /\ \E s \in Streams : \E p \in 1..Total(s) : e = Entry(s, p)
<1>1. PICK s \in Streams : e \in Entries(s)
  BY DEF AllEntries, Streams
<1>2. PICK p \in 1..Total(s) : e = Entry(s, p)
  BY <1>1, EntriesIs
<1>3. Entry(s, p).seq \in Nat /\ Entry(s, p).line \in Nat
  BY EntryIs
<1>4. Entry(s, p) \in Tags
  BY <1>3 DEF Entry, Tags
<1> QED
  BY <1>2, <1>4

(* The merged index holds each entry once, in order.                       *)
LEMMA MergedIs ==
    ASSUME ReadInv, NEW m, m = MergedIndex, NEW n \in Nat, n = Cardinality(AllEntries)
    PROVE  /\ DOMAIN m = 1..n
           /\ \A i \in 1..n : m[i] \in AllEntries
           /\ \A e \in AllEntries : \E i \in 1..n : m[i] = e
           /\ \A i, j \in 1..n : i < j => Before(m[i], m[j])
<1>1. PICK E : E = AllEntries
  OBVIOUS
<1>2. PICK below : below = [e \in E |-> {f \in E : Before(f, e)}]
  OBVIOUS
<1>3. \A e \in E : below[e] = {f \in E : Before(f, e)}
  BY <1>2
<1>4. \A e \in E : e \in Tags
  BY <1>1, EntryOf
<1>5. Ordering(E, below)
  <2>1. ASSUME NEW e \in E PROVE below[e] \subseteq E /\ e \notin below[e]
    BY <1>3, <1>4, BeforeOrder
  <2>2. ASSUME NEW e \in E, NEW f \in E, e # f PROVE e \in below[f] \/ f \in below[e]
    BY <1>3, <1>4, <2>2, BeforeOrder
  <2>3. ASSUME NEW e \in E, NEW f \in E, e \in below[f] PROVE below[e] \subseteq below[f]
    <3> SUFFICES ASSUME NEW h \in below[e] PROVE h \in below[f]
      OBVIOUS
    <3>1. h \in E /\ Before(h, e) /\ Before(e, f)
      BY <1>3, <2>3
    <3>2. Before(h, f)
      BY <1>4, <3>1, BeforeOrder
    <3> QED
      BY <1>3, <3>1, <3>2
  <2> QED
    BY <2>1, <2>2, <2>3 DEF Ordering
<1>6. IsFiniteSet(E) /\ n = Cardinality(E)
  BY <1>1, EntriesCount
<1>7. /\ \A e \in E : Cardinality(below[e]) \in 0..(n - 1)
      /\ \A e, f \in E : Cardinality(below[e]) < Cardinality(below[f]) => e \in below[f]
      /\ \A i \in 1..n : \E e \in E :
            /\ Cardinality(below[e]) = i - 1
            /\ \A f \in E : Cardinality(below[f]) = i - 1 => f = e
  BY <1>5, <1>6, OrderedRanks
<1>8. m = [i \in 1..n |-> CHOOSE e \in E : Cardinality({f \in E : Before(f, e)}) = i - 1]
  BY <1>1, <1>6 DEF MergedIndex, Sorted, AllEntries
<1>9. ASSUME NEW i \in 1..n
      PROVE  /\ m[i] \in E /\ Cardinality(below[m[i]]) = i - 1
             /\ \A f \in E : Cardinality(below[f]) = i - 1 => f = m[i]
  <2>1. PICK e \in E : /\ Cardinality(below[e]) = i - 1
                       /\ \A f \in E : Cardinality(below[f]) = i - 1 => f = e
    BY <1>7
  <2>2. m[i] = CHOOSE f \in E : Cardinality({h \in E : Before(h, f)}) = i - 1
    BY <1>8
  <2>3. Cardinality({h \in E : Before(h, e)}) = i - 1
    BY <1>3, <2>1
  <2>4. m[i] \in E /\ Cardinality({h \in E : Before(h, m[i])}) = i - 1
    BY <2>2, <2>3
  <2>5. Cardinality(below[m[i]]) = i - 1
    BY <1>3, <2>4
  <2> QED
    BY <2>1, <2>4, <2>5
<1>10. ASSUME NEW e \in E PROVE \E i \in 1..n : m[i] = e
  <2>1. PICK r \in 0..(n - 1) : r = Cardinality(below[e])
    BY <1>7
  <2>2. PICK i \in 1..n : i - 1 = r
    <3>1. r + 1 \in 1..n /\ (r + 1) - 1 = r
      OBVIOUS
    <3> QED
      BY <3>1
  <2> QED
    BY <1>9, <2>1, <2>2
<1>11. ASSUME NEW i \in 1..n, NEW j \in 1..n, i < j PROVE Before(m[i], m[j])
  <2>1. Cardinality(below[m[i]]) < Cardinality(below[m[j]])
    BY <1>9, <1>11
  <2>2. m[i] \in below[m[j]]
    BY <1>7, <1>9, <2>1
  <2> QED
    BY <1>3, <1>9, <2>2
<1> QED
  BY <1>1, <1>8, <1>9, <1>10, <1>11

(* Lines of one incarnation are written in the order of their entries.     *)
LEMMA BeforeInTime ==
    ASSUME ReadInv, NEW s \in Streams, NEW t \in Streams,
           NEW p \in 1..Total(s), NEW q \in 1..Total(t),
           Before(Entry(s, p), Entry(t, q)), Retained(s)[p].inc = Retained(t)[q].inc
    PROVE  Retained(s)[p].at < Retained(t)[q].at
<1>1. PICK l, k : l = Retained(s)[p] /\ k = Retained(t)[q]
  OBVIOUS
<1>2. /\ l \in OnDisk(s) /\ k \in OnDisk(t) /\ l \in Lines /\ k \in Lines
      /\ Entry(s, p).seq = l.seq /\ Entry(s, p).source = s /\ Entry(s, p).line = p - 1
      /\ Entry(t, q).seq = k.seq /\ Entry(t, q).source = t /\ Entry(t, q).line = q - 1
  BY <1>1, EntryIs
<1>3. /\ l.at \in Nat /\ l.seq \in Nat /\ k.at \in Nat /\ k.seq \in Nat
  BY <1>2, LinesFields
<1>4. InTurn(l, k) /\ InTurn(k, l) /\ (l.at = k.at => s = t)
  BY <1>2 DEF ReadInv, Stamped
<1>5. \/ l.seq < k.seq
      \/ l.seq = k.seq /\ s = "stdout" /\ t = "stderr"
      \/ l.seq = k.seq /\ s = t /\ p - 1 < q - 1
  BY <1>2 DEF Before
<1>6. CASE l.seq < k.seq
  <2>1. ~(k.at < l.at)
    BY <1>1, <1>3, <1>4, <1>6 DEF InTurn
  <2>2. l.at # k.at
    BY <1>3, <1>4, <1>6 DEF InTurn
  <2> QED
    BY <1>1, <1>3, <2>1, <2>2
<1>7. CASE l.seq = k.seq /\ s = "stdout" /\ t = "stderr"
  <2>1. ~(k.at < l.at) /\ ~(l.at < k.at)
    BY <1>1, <1>3, <1>4, <1>7 DEF InTurn
  <2>2. l.at = k.at
    BY <1>3, <2>1
  <2> QED
    BY <1>4, <1>7, <2>2
<1>8. CASE l.seq = k.seq /\ s = t /\ p - 1 < q - 1
  <2>1. p < q /\ q \in 1..Total(s)
    BY <1>8
  <2> QED
    BY <1>8, <2>1, RetainedOk
<1> QED
  BY <1>5, <1>6, <1>7, <1>8

LEMMA ReadInvMerged ==
    ASSUME ReadInv
    PROVE  MergedInOrder
<1>1. PICK m, all : m = MergedIndex /\ all = Interleaved
  OBVIOUS
<1>2. PICK n \in Nat : n = Cardinality(AllEntries) /\ n = Total("stdout") + Total("stderr")
  <2>1. Total("stdout") \in Nat /\ Total("stderr") \in Nat
    BY RetainedOk DEF Streams
  <2> QED
    BY <2>1, EntriesCount
<1>3. /\ DOMAIN m = 1..n
      /\ \A i \in 1..n : m[i] \in AllEntries
      /\ \A e \in AllEntries : \E i \in 1..n : m[i] = e
      /\ \A i, j \in 1..n : i < j => Before(m[i], m[j])
  BY <1>1, <1>2, MergedIs
<1>4. all = [i \in 1..n |-> ReadSingle(m[i].source, m[i].line)]
  BY <1>1, <1>3 DEF Interleaved
<1>5. ASSUME NEW i \in 1..n, NEW s \in Streams, NEW p \in 1..Total(s), m[i] = Entry(s, p)
      PROVE  all[i] = Retained(s)[p] /\ all[i] \in Lines
  BY <1>4, <1>5, EntryIs
<1>6. ASSUME NEW i \in 1..n
      PROVE  \E s \in Streams : \E p \in 1..Total(s) : m[i] = Entry(s, p)
  BY <1>3, EntryOf
<1>7. all \in Seq(Lines) /\ Len(all) = n /\ DOMAIN all = 1..n
  <2>1. \A i \in 1..n : all[i] \in Lines
    BY <1>5, <1>6
  <2>2. all \in [1..n -> Lines]
    BY <1>4, <2>1
  <2> QED
    BY <2>2
<1>8. ToSet(all) = {all[i] : i \in 1..n}
  BY <1>7 DEF ToSet
<1>9. \A s \in Streams : ToSet(Indexed(s)) = {Retained(s)[p] : p \in 1..Total(s)}
  <2> SUFFICES ASSUME NEW s \in Streams
               PROVE  ToSet(Indexed(s)) = {Retained(s)[p] : p \in 1..Total(s)}
    OBVIOUS
  <2>1. Indexed(s) = Retained(s) /\ DOMAIN Retained(s) = 1..Total(s)
    BY IndexedIs DEF Retained
  <2> QED
    BY <2>1 DEF ToSet
<1>10. ToSet(all) = ToSet(Indexed("stdout")) \cup ToSet(Indexed("stderr"))
  <2>1. ASSUME NEW i \in 1..n PROVE \E s \in Streams : all[i] \in ToSet(Indexed(s))
    BY <1>5, <1>6, <1>9
  <2>2. ASSUME NEW s \in Streams, NEW l \in ToSet(Indexed(s)) PROVE \E i \in 1..n : all[i] = l
    <3>1. PICK p \in 1..Total(s) : l = Retained(s)[p]
      BY <1>9, <2>2
    <3>2. Entry(s, p) \in AllEntries
      BY EntriesIs DEF AllEntries, Streams
    <3>3. PICK i \in 1..n : m[i] = Entry(s, p)
      BY <1>3, <3>2
    <3> QED
      BY <1>5, <3>1, <3>3
  <2> QED
    BY <1>8, <2>1, <2>2 DEF Streams
<1>11. ASSUME NEW i \in 1..n, NEW j \in 1..n, i < j, all[i].inc = all[j].inc
       PROVE  all[i].at < all[j].at
  <2>1. PICK s \in Streams : \E p \in 1..Total(s) : m[i] = Entry(s, p)
    BY <1>6
  <2>2. PICK p \in 1..Total(s) : m[i] = Entry(s, p)
    BY <2>1
  <2>3. PICK t \in Streams : \E q \in 1..Total(t) : m[j] = Entry(t, q)
    BY <1>6
  <2>4. PICK q \in 1..Total(t) : m[j] = Entry(t, q)
    BY <2>3
  <2>5. all[i] = Retained(s)[p] /\ all[j] = Retained(t)[q]
    BY <1>5, <2>2, <2>4
  <2>6. Before(Entry(s, p), Entry(t, q))
    BY <1>3, <1>11, <2>2, <2>4
  <2> QED
    BY <1>11, <2>5, <2>6, BeforeInTime
<1> QED
  BY <1>1, <1>2, <1>7, <1>10, <1>11 DEF MergedInOrder

(* The TUI's merged view shows every line the index knows once, and the    *)
(* lines of one incarnation in the order both streams were written, for    *)
(* every size and number of files.                                         *)
THEOREM MergedInOrderHolds == Unfailing /\ Spec => []MergedInOrder
<1>1. ReadInv => MergedInOrder
  BY ReadInvMerged
<1> QED
  BY <1>1, ReadInvHolds, PTL
=============================================================================

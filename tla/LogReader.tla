----------------------------- MODULE LogReader ------------------------------
(***************************************************************************)
(* The TUI's reader of the log files of module Logs: DiskLogReader of      *)
(* src/src/tui/disk_log_reader.rs.  Its operations change nothing, so they *)
(* are operators, evaluated on every state the writers can leave.  A       *)
(* reader whose cached segments are younger than the last rotation sees    *)
(* one such state.                                                         *)
(***************************************************************************)
EXTENDS Logs, SequencesExt, FiniteSetsExt

(* The elements of a set by an ordering of them (SetToSortSeq searches all *)
(* n^n sequences).                                                         *)
Sorted(S, Op(_, _)) ==
    [i \in 1..Cardinality(S) |->
       CHOOSE x \in S : Cardinality({y \in S : Op(y, x)}) = i - 1]

Exists(s, i) == i \in Numbers /\ log[s][i] # Missing

(* discover_segments: rotated files from 1 up to the first that is         *)
(* missing, oldest first, then the current one.                            *)
Oldest(s) == Max({n \in Numbers : \A i \in 1..n : Exists(s, i)})
Segments(s) ==
    [i \in 1..Oldest(s) |-> Oldest(s) + 1 - i] \o (IF Exists(s, 0) THEN <<0>> ELSE <<>>)

(* line_count_from_metadata and read_range of an index file.               *)
IndexCount(recs) == Len(recs)
ReadRange(recs, start, count) == SubSeq(recs, start + 1, Min({start + count, Len(recs)}))

(* The index gives a segment's line count; without one its lines are       *)
(* counted.                                                                *)
LineCount(s, i) == IF idx[s][i] # Missing THEN IndexCount(idx[s][i]) ELSE Len(log[s][i])

(* read_lines_from_segment: seek to the first record's offset and read on  *)
(* from there; reading past the end yields empty lines.  An offset that is *)
(* not the start of a line would yield the rest of one.                    *)
NoLine == [at |-> -1, inc |-> 0, off |-> 0, seq |-> 0, len |-> 0]
LinesFrom(file, off, n) ==
    LET at == {k \in DOMAIN file : file[k].off = off}
    IN  [j \in 1..n |-> IF \E k \in at : k + j - 1 <= Len(file)
                        THEN file[Max(at) + j - 1] ELSE NoLine]

ReadSegment(s, i, start, count) ==
    IF idx[s][i] # Missing
    THEN LET recs == ReadRange(idx[s][i], start, count)
         IN  IF recs = <<>> THEN <<>> ELSE LinesFrom(log[s][i], recs[1].off, Len(recs))
    ELSE SubSeq(log[s][i], start + 1, Min({start + count, Len(log[s][i])}))

(* line_count, of a stream or of its first k segments.                     *)
LinesIn(s, k) ==
    LET segs == Segments(s)
        sum[j \in 0..Len(segs)] == IF j = 0 THEN 0 ELSE sum[j - 1] + LineCount(s, segs[j])
    IN  sum[k]
Total(s) == LinesIn(s, Len(Segments(s)))

(* read_lines_from_segments: the part of [start, start + count) that falls *)
(* into the j-th segment, and the parts of all segments.                   *)
Part_SegmentStart(s, j, start, count) ==
    LET begin == LinesIn(s, j - 1)
        end == LinesIn(s, j)
        from == Max({start, begin}) - begin
    IN  IF end <= start \/ begin >= start + count THEN <<>>
        ELSE ReadSegment(s, Segments(s)[j], from, count)
Part(s, j, start, count) ==
    LET begin == LinesIn(s, j - 1)
        end == LinesIn(s, j)
        from == Max({start, begin}) - begin
        to == Min({start + count, end}) - begin
    IN  IF end <= start \/ begin >= start + count THEN <<>>
        ELSE ReadSegment(s, Segments(s)[j], from, to - from)
ReadLines(s, start, count) ==
    LET n == Len(Segments(s))
        out[j \in 0..n] == IF j = 0 THEN <<>> ELSE out[j - 1] \o Part(s, j, start, count)
    IN  out[n]

(* read_single_line_from: the segment that holds the line, and one line    *)
(* of it.                                                                  *)
ReadSingle(s, line) ==
    LET k == CHOOSE k \in DOMAIN Segments(s) : LinesIn(s, k - 1) <= line /\ line < LinesIn(s, k)
    IN  ReadSegment(s, Segments(s)[k], line - LinesIn(s, k - 1), 1)[1]

(* build_merged_index: the lines of both streams by their sequence number; *)
(* a line without index comes last.  The sort is stable and stdout is      *)
(* entered first.                                                          *)
NoSeq == MaxLines
Entries(s) ==
    UNION {LET i == Segments(s)[j] IN
           {[seq |-> IF idx[s][i] # Missing THEN idx[s][i][k].seq ELSE NoSeq,
             source |-> s, line |-> LinesIn(s, j - 1) + k - 1] : k \in 1..LineCount(s, i)}
           : j \in DOMAIN Segments(s)}

Before_NoSeq(e, f) ==
    \/ e.source = "stdout" /\ f.source = "stderr"
    \/ e.source = f.source /\ e.line < f.line
Before(e, f) ==
    \/ e.seq < f.seq
    \/ e.seq = f.seq /\ e.source = "stdout" /\ f.source = "stderr"
    \/ e.seq = f.seq /\ e.source = f.source /\ e.line < f.line
MergedIndex == Sorted(Entries("stdout") \cup Entries("stderr"), Before)

(* read_interleaved of the whole history.                                  *)
Interleaved ==
    LET merged == MergedIndex
    IN  [i \in DOMAIN merged |-> ReadSingle(merged[i].source, merged[i].line)]

-----------------------------------------------------------------------------
(* Properties                                                              *)

(* What the index on disk knows of a stream, in the order it was written.  *)
Indexed(s) ==
    Sorted(UNION {{log[s][i][k] : k \in 1..LineCount(s, i)} :
                    i \in {j \in Numbers : Exists(s, j)}},
           LAMBDA a, b : a.at < b.at)

(* Every window the TUI asks for is that stretch of the stream's retained  *)
(* lines, each once and in the order they were written, across rotated     *)
(* files, empty ones, restarts and lines longer than a file may be.        *)
WindowExact ==
    \A s \in Streams :
        LET all == Indexed(s)
        IN  /\ Total(s) = Len(all)
            /\ \A start \in 0..Len(all), count \in 0..Len(all) + 1 :
                  ReadLines(s, start, count) = SubSeq(all, start + 1, Min({start + count, Len(all)}))

(* The merged view shows every indexed line once, and the lines of one     *)
(* incarnation in the order they were written across both streams.         *)
MergedInOrder ==
    LET all == Interleaved
    IN  /\ ToSet(all) = ToSet(Indexed("stdout")) \cup ToSet(Indexed("stderr"))
        /\ Len(all) = Total("stdout") + Total("stderr")
        /\ \A i, j \in DOMAIN all : i < j /\ all[i].inc = all[j].inc => all[i].at < all[j].at
=============================================================================

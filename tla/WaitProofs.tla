----------------------------- MODULE WaitProofs -----------------------------
(***************************************************************************)
(* Theorems about Wait, for every capacity of the channel, every length of *)
(* the log files and any number of lines: the past that a Wait reads and   *)
(* the live output it receives leave no gap but those that `gap` names,    *)
(* and a follow stream is exact.                                           *)
(***************************************************************************)
EXTENDS Wait, TLAPS

(* Whose the lines are, and where the readers stand.                       *)
OwnLines ==
    /\ \A i \in DOMAIN file : file[i].proc = "target"
    /\ \A s \in Streams : writing[s].hit => writing[s].proc = "target"
    /\ \A l \in due : l.hit /\ l.proc = "target"
InRange == wait.pos <= Len(chan) + 1 /\ follow.pos <= Len(chan) + 1

(* Until it looks at the past a wait may find an owed line in the log file *)
(* or ahead; from then on, every owed line is ahead.                       *)
InFile(l) == \E i \in DOMAIN file : file[i] = l
Seeking == wait.pc \in {"checked", "waiting"} /\ wait.req.until /\ wait.req.by = "name"
Covered ==
    gap = {} =>
        /\ wait.pc = "subscribed" => \A l \in due : Ahead(l) \/ InFile(l)
        /\ Seeking => \A l \in due : Ahead(l)

WaitInv == TypeOK /\ OwnLines /\ InRange /\ Covered

Causes == {"lag", "abort", "rotated"}
WaitStates == {"idle", "found", "subscribed", "checked", "waiting",
               "match", "exited", "timeout", "notfound", "error"}
FollowRecords == [pc : {"idle", "following", "ended"}, cmd : Commands,
                  max : Nat, from : Nat \ {0}, pos : Nat \ {0}, got : Seq(Nat)]

-----------------------------------------------------------------------------
LEMMA InitWait == Init => WaitInv
  <1> SUFFICES ASSUME Init PROVE WaitInv
    OBVIOUS
  <1>1. (CHOOSE r \in AllRequests : TRUE) \in AllRequests
    <2>1. [until |-> TRUE, exit |-> TRUE, badRegex |-> TRUE, by |-> "name"] \in AllRequests
      BY DEF AllRequests
    <2> QED
      BY <2>1
  <1>2. NoLine \in Lines /\ ~NoLine.hit
    BY DEF NoLine, Lines, Procs, Streams
  <1>3. wait \in [pc : {"idle", "found", "subscribed", "checked", "waiting",
                       "match", "exited", "timeout", "notfound", "error"},
                 req : AllRequests, pos : Nat \ {0}]
    BY <1>1 DEF Init
  <1>4. /\ life = "running" /\ file = <<>> /\ chan = <<>> /\ printed = 0
        /\ due = {} /\ gap = {} /\ writing = [s \in Streams |-> NoLine]
    BY DEF Init
  <1>5. /\ life \in {"running", "exited", "gone"} /\ printed \in Nat
        /\ due \subseteq Lines /\ gap \subseteq {"lag", "abort", "rotated"}
        /\ file \in Seq(Lines) /\ chan \in Seq(Lines)
    BY <1>4
  <1>6. writing \in [Streams -> Lines]
    BY <1>2, <1>4
  <1>7. follow \in [pc : {"idle", "following", "ended"}, cmd : Commands,
                   max : Nat, from : Nat \ {0}, pos : Nat \ {0}, got : Seq(Nat)]
    <2>1. [target |-> "none", all |-> FALSE, stderr |-> FALSE] \in Commands
      BY DEF Commands
    <2> QED
      BY <2>1 DEF Init
  <1>8. TypeOK
    BY <1>3, <1>5, <1>6, <1>7 DEF TypeOK
  <1>9. OwnLines
    BY <1>2, <1>4 DEF OwnLines
  <1>10. InRange /\ Covered
    BY DEF Init, InRange, Covered, Seeking
  <1> QED
    BY <1>8, <1>9, <1>10 DEF WaitInv

(* What keeps the owed lines covered when only lines and files change.     *)
LEMMA StaysCovered ==
    ASSUME WaitInv, UNCHANGED wait, gap \subseteq gap',
           gap' = {} => \A l \in due : Ahead(l) => Ahead(l)',
           gap' = {} => \A l \in due' : l \in due \/ Ahead(l)',
           gap' = {} /\ wait.pc = "subscribed" =>
               \A l \in due : InFile(l) => Ahead(l)' \/ InFile(l)'
    PROVE  Covered'
  <1> SUFFICES ASSUME gap' = {}
               PROVE  /\ wait.pc = "subscribed" => \A l \in due' : Ahead(l)' \/ InFile(l)'
                      /\ Seeking => \A l \in due' : Ahead(l)'
    BY DEF Covered, Seeking
  <1>1. gap = {} /\ Covered
    BY DEF WaitInv
  <1> QED
    BY <1>1 DEF Covered

(* If replacing the file hides nothing, the wait finds its lines ahead.    *)
LEMMA NothingHidden ==
    ASSUME WaitInv, wait.pc = "subscribed", Hidden = {}, NEW l \in due, InFile(l)
    PROVE  Ahead(l)
  <1>1. PICK i \in DOMAIN file : file[i] = l
    BY DEF InFile
  <1>2. l.hit
    BY DEF WaitInv, OwnLines
  <1> QED
    BY <1>1, <1>2 DEF Hidden

(* A printed line is appended to the file, alone in a new one after a      *)
(* rotation; a matching one is about to be sent.                           *)
LEMMA PrintLineStep ==
    ASSUME WaitInv, NEW s \in Streams, NEW hit \in BOOLEAN, PrintLine(s, hit)
    PROVE  WaitInv'
  <1> DEFINE line == [id |-> printed + 1, proc |-> "target", stream |-> s, hit |-> hit]
             full == s = "out" /\ Len(file) >= FileLines
  <1>1. /\ writing[s] = NoLine /\ printed' = printed + 1
        /\ writing' = [writing EXCEPT ![s] = line]
        /\ file' = IF s # "out" THEN file ELSE Append(IF full THEN <<>> ELSE file, line)
        /\ due' = IF line.hit /\ wait.pc \in {"subscribed", "checked", "waiting"}
                  THEN due \cup {line} ELSE due
        /\ gap' = gap \cup (IF full THEN Hidden ELSE {})
        /\ UNCHANGED <<life, chan, wait, follow>>
    BY DEF PrintLine, Owes
  <1>2. TypeOK /\ OwnLines /\ InRange
    BY DEF WaitInv
  <1>3. line \in Lines /\ line.proc = "target"
    BY <1>2 DEF TypeOK, Lines, Procs
  <1>4. NoLine \in Lines /\ ~NoLine.hit
    BY DEF NoLine, Lines, Procs, Streams
  <1> HIDE DEF line
  <1>5. /\ writing'[s] = line /\ \A t \in Streams \ {s} : writing'[t] = writing[t]
        /\ writing' \in [Streams -> Lines]
    BY <1>1, <1>2, <1>3 DEF TypeOK
  <1>6. /\ file' \in Seq(Lines)
        /\ \A i \in DOMAIN file' : file'[i] = line \/ (i \in DOMAIN file /\ file'[i] = file[i])
        /\ ~full => \A i \in DOMAIN file : i \in DOMAIN file' /\ file'[i] = file[i]
    <2>1. file \in Seq(Lines) /\ <<>> \in Seq(Lines)
      BY <1>2 DEF TypeOK
    <2>2. CASE s # "out"
      BY <1>1, <2>1, <2>2
    <2>3. CASE full
      BY <1>1, <1>3, <2>3
    <2>4. CASE s = "out" /\ ~full
      BY <1>1, <1>3, <2>1, <2>4
    <2> QED
      BY <2>2, <2>3, <2>4
  <1>7. due' \subseteq due \cup {line} /\ (line \in due' => line \in due \/ line.hit)
    BY <1>1
  <1> HIDE DEF full
  <1>8. gap \subseteq gap' /\ gap' \subseteq Causes
    BY <1>1, <1>2 DEF TypeOK, Hidden, Causes
  <1>9. TypeOK'
    BY <1>1, <1>2, <1>3, <1>5, <1>6, <1>7, <1>8 DEF TypeOK, Causes
  <1>10. OwnLines'
    BY <1>2, <1>3, <1>5, <1>6, <1>7 DEF OwnLines
  <1>11. InRange'
    BY <1>1, <1>2 DEF InRange
  <1>12. \A l \in due : Ahead(l) => Ahead(l)'
    <2> SUFFICES ASSUME NEW l \in due, Ahead(l) PROVE Ahead(l)'
      OBVIOUS
    <2>1. l # NoLine
      BY <1>2, <1>4 DEF OwnLines
    <2> QED
      BY <1>1, <1>5, <2>1 DEF Ahead
  <1>13. \A l : l = line => Ahead(l)'
    BY <1>5 DEF Ahead
  <1>14. gap' = {} /\ wait.pc = "subscribed" =>
            \A l \in due : InFile(l) => Ahead(l)' \/ InFile(l)'
    <2>1. CASE full
      <3>1. gap' = {} => Hidden = {}
        BY <1>1, <2>1
      <3> QED
        BY <1>12, <3>1, NothingHidden
    <2>2. CASE ~full
      BY <1>6, <2>2 DEF InFile
    <2> QED
      BY <2>1, <2>2
  <1>15. \A l \in due' : l \in due \/ Ahead(l)'
    BY <1>7, <1>13
  <1>16. Covered'
    BY <1>1, <1>8, <1>12, <1>14, <1>15, StaysCovered
  <1> QED
    BY <1>9, <1>10, <1>11, <1>16 DEF WaitInv

(* A line more on the channel is ahead of every reader.                    *)
LEMMA ChannelGrows ==
    ASSUME TypeOK, InRange, NEW l \in Lines, chan' = Append(chan, l), UNCHANGED <<wait, follow>>
    PROVE  /\ chan' \in Seq(Lines) /\ InRange'
           /\ \E p \in wait.pos..Len(chan') : chan'[p] = l
           /\ \A x : (\E p \in wait.pos..Len(chan) : chan[p] = x)
                        => \E p \in wait.pos..Len(chan') : chan'[p] = x
  <1>1. /\ chan \in Seq(Lines) /\ Len(chan) \in Nat
        /\ wait.pos \in Nat \ {0} /\ follow.pos \in Nat \ {0}
    BY DEF TypeOK
  <1>2. /\ chan' \in Seq(Lines) /\ Len(chan') = Len(chan) + 1
        /\ chan'[Len(chan) + 1] = l
        /\ \A p \in 1..Len(chan) : chan'[p] = chan[p]
    BY <1>1
  <1>3. InRange'
    BY <1>1, <1>2 DEF InRange
  <1>4. Len(chan') \in wait.pos..Len(chan')
    BY <1>1, <1>2 DEF InRange
  <1>5. \A p \in wait.pos..Len(chan) : p \in wait.pos..Len(chan') /\ chan'[p] = chan[p]
    BY <1>1, <1>2
  <1> QED
    BY <1>2, <1>3, <1>4, <1>5

LEMMA SendStep ==
    ASSUME WaitInv, NEW s \in Streams, Send(s)
    PROVE  WaitInv'
  <1>1. /\ chan' = Append(chan, writing[s]) /\ writing' = [writing EXCEPT ![s] = NoLine]
        /\ UNCHANGED <<life, file, printed, wait, follow, due, gap>>
    BY DEF Send, history
  <1>2. TypeOK /\ OwnLines /\ InRange
    BY DEF WaitInv
  <1>3. writing[s] \in Lines /\ NoLine \in Lines /\ ~NoLine.hit
    BY <1>2 DEF TypeOK, NoLine, Lines, Procs, Streams
  <1>4. /\ chan' \in Seq(Lines) /\ InRange'
        /\ \E p \in wait.pos..Len(chan') : chan'[p] = writing[s]
        /\ \A x : (\E p \in wait.pos..Len(chan) : chan[p] = x)
                     => \E p \in wait.pos..Len(chan') : chan'[p] = x
    BY <1>1, <1>2, <1>3, ChannelGrows
  <1>5. /\ writing'[s] = NoLine /\ \A t \in Streams \ {s} : writing'[t] = writing[t]
        /\ writing' \in [Streams -> Lines]
    BY <1>1, <1>2, <1>3 DEF TypeOK
  <1>6. TypeOK'
    BY <1>1, <1>2, <1>4, <1>5 DEF TypeOK
  <1>7. OwnLines'
    BY <1>1, <1>2, <1>3, <1>5 DEF OwnLines
  <1>8. \A l : Ahead(l) => Ahead(l)'
    BY <1>1, <1>4, <1>5 DEF Ahead
  <1>9. Covered'
    BY <1>1, <1>8, StaysCovered DEF InFile
  <1> QED
    BY <1>4, <1>6, <1>7, <1>9 DEF WaitInv

LEMMA OtherLineStep ==
    ASSUME WaitInv, NEW s \in Streams, OtherLine(s)
    PROVE  WaitInv'
  <1> DEFINE line == [id |-> printed + 1, proc |-> "other", stream |-> s, hit |-> TRUE]
  <1>1. /\ chan' = Append(chan, line) /\ printed' = printed + 1
        /\ UNCHANGED <<life, file, writing, wait, follow, due, gap>>
    BY DEF OtherLine, history
  <1>2. TypeOK /\ OwnLines /\ InRange
    BY DEF WaitInv
  <1>3. line \in Lines
    BY <1>2 DEF TypeOK, Lines, Procs
  <1> HIDE DEF line
  <1>4. /\ chan' \in Seq(Lines) /\ InRange'
        /\ \A x : (\E p \in wait.pos..Len(chan) : chan[p] = x)
                     => \E p \in wait.pos..Len(chan') : chan'[p] = x
    BY <1>1, <1>2, <1>3, ChannelGrows
  <1>5. TypeOK' /\ OwnLines'
    BY <1>1, <1>2, <1>4 DEF TypeOK, OwnLines
  <1>6. \A l : Ahead(l) => Ahead(l)'
    BY <1>1, <1>4 DEF Ahead
  <1>7. Covered'
    BY <1>1, <1>6, StaysCovered DEF InFile
  <1> QED
    BY <1>4, <1>5, <1>7 DEF WaitInv

(* A teardown that aborts a capture task between the write and the send    *)
(* loses the line, and gap says so; so it does of a file that is replaced  *)
(* under a wait that had no other way to a line of it.                     *)
LEMMA JoinedKeeps ==
    ASSUME WaitInv, Joined, UNCHANGED wait, Aborted \subseteq gap', gap' = {},
           \A x : (\E p \in wait.pos..Len(chan) : chan[p] = x)
                     => \E p \in wait.pos..Len(chan') : chan'[p] = x
    PROVE  \A l \in due : Ahead(l) => Ahead(l)'
  <1> SUFFICES ASSUME NEW l \in due, Ahead(l) PROVE Ahead(l)'
    OBVIOUS
  <1>1. \A s \in Streams : writing[s] = NoLine
    BY DEF Aborted
  <1>2. l # NoLine
    BY DEF WaitInv, OwnLines, NoLine
  <1> QED
    BY <1>1, <1>2 DEF Ahead

LEMMA JoinedTypes ==
    ASSUME WaitInv, Joined
    PROVE  /\ writing' \in [Streams -> Lines]
           /\ \A s \in Streams : writing'[s].hit => writing'[s].proc = "target"
  <1>1. NoLine \in Lines /\ ~NoLine.hit
    BY DEF NoLine, Lines, Procs, Streams
  <1> QED
    BY <1>1 DEF Joined

LEMMA JoinedStep ==
    ASSUME WaitInv, Joined, life' \in {"running", "exited", "gone"},
           \/ file' = file /\ gap' = gap \cup Aborted
           \/ file' = <<>> /\ gap' = gap \cup Aborted \cup Hidden,
           UNCHANGED <<chan, printed, wait, follow, due>>
    PROVE  WaitInv'
  <1>1. TypeOK /\ OwnLines /\ InRange
    BY DEF WaitInv
  <1>2. /\ gap \subseteq gap' /\ Aborted \subseteq gap' /\ gap' \subseteq Causes
        /\ file' = file \/ (file' = <<>> /\ Hidden \subseteq gap')
    BY <1>1 DEF TypeOK, Aborted, Hidden, Causes
  <1>3. file' \in Seq(Lines)
    <2>1. file \in Seq(Lines) /\ <<>> \in Seq(Lines)
      BY <1>1 DEF TypeOK
    <2> QED
      BY <2>1
  <1>4. TypeOK'
    BY <1>1, <1>2, <1>3, JoinedTypes DEF TypeOK, Causes
  <1>5. OwnLines'
    BY <1>1, <1>2, JoinedTypes DEF OwnLines
  <1>6. InRange'
    BY <1>1 DEF InRange
  <1>7. gap' = {} => \A l \in due : Ahead(l) => Ahead(l)'
    BY <1>2, JoinedKeeps
  <1>8. gap' = {} /\ wait.pc = "subscribed" =>
            \A l \in due : InFile(l) => Ahead(l)' \/ InFile(l)'
    <2>1. CASE file' = file
      BY <2>1 DEF InFile
    <2>2. CASE Hidden \subseteq gap'
      BY <1>7, <2>2, NothingHidden
    <2> QED
      BY <1>2, <2>1, <2>2
  <1>9. Covered'
    BY <1>2, <1>7, <1>8, StaysCovered
  <1> QED
    BY <1>4, <1>5, <1>6, <1>9 DEF WaitInv

(* Steps that touch neither lines nor readers.                             *)
LEMMA QuietStep ==
    ASSUME WaitInv, life' \in {"running", "exited", "gone"},
           UNCHANGED <<file, writing, chan, printed, wait, follow, due, gap>>
    PROVE  WaitInv'
  <1>1. TypeOK' /\ OwnLines' /\ InRange'
    BY DEF WaitInv, TypeOK, OwnLines, InRange
  <1>2. Covered'
    BY DEF WaitInv, Covered, Seeking, Ahead, InFile
  <1> QED
    BY <1>1, <1>2 DEF WaitInv

(* A failed restart's notice is on the channel and in no file.             *)
LEMMA RespawnFailsStep ==
    ASSUME WaitInv, NEW hit \in BOOLEAN, RespawnFails(hit)
    PROVE  WaitInv'
  <1> DEFINE line == [id |-> printed + 1, proc |-> "target", stream |-> "out", hit |-> hit]
  <1>1. /\ Joined /\ file' = <<>> /\ printed' = printed + 1
        /\ gap' = gap \cup Aborted \cup Hidden
        /\ due' = IF line.hit /\ wait.pc \in {"subscribed", "checked", "waiting"}
                  THEN due \cup {line} ELSE due
        /\ chan' = Append(chan, line) /\ UNCHANGED <<life, wait, follow>>
    BY DEF RespawnFails, Owes
  <1>2. TypeOK /\ OwnLines /\ InRange
    BY DEF WaitInv
  <1>3. line \in Lines /\ line.proc = "target"
    BY <1>2 DEF TypeOK, Lines, Procs, Streams
  <1> HIDE DEF line
  <1>4. /\ chan' \in Seq(Lines) /\ InRange'
        /\ \E p \in wait.pos..Len(chan') : chan'[p] = line
        /\ \A x : (\E p \in wait.pos..Len(chan) : chan[p] = x)
                     => \E p \in wait.pos..Len(chan') : chan'[p] = x
    BY <1>1, <1>2, <1>3, ChannelGrows
  <1>5. /\ gap \subseteq gap' /\ gap' \subseteq Causes
        /\ Aborted \subseteq gap' /\ Hidden \subseteq gap'
    BY <1>1, <1>2 DEF TypeOK, Aborted, Hidden, Causes
  <1>6. due' \subseteq due \cup {line} /\ (line \in due' => line \in due \/ line.hit)
    BY <1>1
  <1>7. file' \in Seq(Lines) /\ DOMAIN file' = {}
    BY <1>1
  <1>8. TypeOK'
    BY <1>1, <1>2, <1>3, <1>4, <1>5, <1>6, <1>7, JoinedTypes DEF TypeOK, Causes
  <1>9. OwnLines'
    BY <1>1, <1>2, <1>3, <1>6, <1>7, JoinedTypes DEF OwnLines
  <1>10. gap' = {} => \A l \in due : Ahead(l) => Ahead(l)'
    BY <1>1, <1>4, <1>5, JoinedKeeps
  <1>11. \A l : l = line => Ahead(l)'
    BY <1>1, <1>4 DEF Ahead
  <1>12. gap' = {} /\ wait.pc = "subscribed" => \A l \in due : InFile(l) => Ahead(l)'
    BY <1>5, <1>10, NothingHidden
  <1>13. Covered'
    BY <1>1, <1>5, <1>6, <1>10, <1>11, <1>12, StaysCovered
  <1> QED
    BY <1>4, <1>8, <1>9, <1>13 DEF WaitInv

-----------------------------------------------------------------------------
(* The wait's own steps                                                    *)

(* A change of pc that does not begin to look for a line.                  *)
LEMMA ToStep ==
    ASSUME WaitInv, NEW to \in WaitStates, To(to), UNCHANGED <<process, follow, history>>,
           to = "waiting" => wait.pc = "checked", to \notin {"subscribed", "checked"}
    PROVE  WaitInv'
  <1>1. /\ wait' = [wait EXCEPT !.pc = to]
        /\ UNCHANGED <<life, file, writing, chan, printed, follow, due, gap>>
    BY DEF To, process, history
  <1>2. TypeOK /\ OwnLines /\ InRange /\ Covered
    BY DEF WaitInv
  <1>3. wait'.pc = to /\ wait'.req = wait.req /\ wait'.pos = wait.pos
    BY <1>1, <1>2 DEF TypeOK
  <1>4. TypeOK'
    <2>1. wait' \in [pc : WaitStates, req : AllRequests, pos : Nat \ {0}]
      BY <1>1, <1>2 DEF TypeOK, WaitStates
    <2> QED
      BY <1>1, <1>2, <2>1 DEF TypeOK, WaitStates
  <1>5. OwnLines' /\ InRange'
    BY <1>1, <1>2, <1>3 DEF OwnLines, InRange
  <1>6. Covered'
    BY <1>1, <1>2, <1>3 DEF Covered, Seeking, Ahead, InFile
  <1> QED
    BY <1>4, <1>5, <1>6 DEF WaitInv

LEMMA AskStep ==
    ASSUME WaitInv, NEW req \in Requests, Ask(req)
    PROVE  WaitInv'
  <1>1. /\ \/ wait' = [wait EXCEPT !.req = req, !.pc = "notfound"]
           \/ wait' = [wait EXCEPT !.req = req, !.pc = "found"]
        /\ UNCHANGED <<life, file, writing, chan, printed, follow, due, gap>>
    BY DEF Ask, process, history
  <1>2. TypeOK /\ OwnLines /\ InRange
    BY DEF WaitInv
  <1>3. req \in AllRequests
    BY RequestsAssumption
  <1>4. /\ wait' \in [pc : WaitStates, req : AllRequests, pos : Nat \ {0}]
        /\ wait'.pc \in {"notfound", "found"} /\ wait'.pos = wait.pos
    BY <1>1, <1>2, <1>3 DEF TypeOK, WaitStates
  <1>5. TypeOK'
    BY <1>1, <1>2, <1>4 DEF TypeOK, WaitStates
  <1>6. OwnLines' /\ InRange' /\ Covered'
    BY <1>1, <1>2, <1>4 DEF OwnLines, InRange, Covered, Seeking
  <1> QED
    BY <1>5, <1>6 DEF WaitInv

(* What a wait is owed when it subscribes is in the file, or about to be   *)
(* sent.                                                                   *)
LEMMA SubscribeStep ==
    ASSUME WaitInv, Subscribe
    PROVE  WaitInv'
  <1>1. /\ wait' = [wait EXCEPT !.pc = "subscribed", !.pos = Len(chan) + 1]
        /\ due' = {l \in {file[i] : i \in DOMAIN file} \cup {writing[s] : s \in Streams} : l.hit}
        /\ gap' = {} /\ UNCHANGED <<life, file, writing, chan, printed, follow>>
    BY DEF Subscribe, process
  <1>2. TypeOK /\ OwnLines /\ InRange /\ Len(chan) \in Nat
    BY DEF WaitInv, TypeOK
  <1>3. /\ wait' \in [pc : WaitStates, req : AllRequests, pos : Nat \ {0}]
        /\ wait'.pc = "subscribed" /\ wait'.pos = Len(chan) + 1
    <2>1. wait \in [pc : WaitStates, req : AllRequests, pos : Nat \ {0}]
      BY <1>2 DEF TypeOK, WaitStates
    <2>2. Len(chan) + 1 \in Nat \ {0}
      BY <1>2
    <2> QED
      BY <1>1, <2>1, <2>2 DEF WaitStates
  <1>4. \A l \in due' : l.hit /\ ((\E i \in DOMAIN file : file[i] = l)
                                    \/ \E s \in Streams : writing[s] = l)
    BY <1>1
  <1>5. due' \subseteq Lines
    <2>1. (\A i \in DOMAIN file : file[i] \in Lines) /\ \A s \in Streams : writing[s] \in Lines
      BY <1>2 DEF TypeOK
    <2> QED
      BY <1>4, <2>1
  <1>6. TypeOK'
    BY <1>1, <1>2, <1>3, <1>5 DEF TypeOK, WaitStates
  <1>7. OwnLines'
    BY <1>1, <1>2, <1>4 DEF OwnLines
  <1>8. InRange'
    BY <1>1, <1>2, <1>3 DEF InRange
  <1>9. Covered'
    BY <1>1, <1>3, <1>4 DEF Covered, Seeking, Ahead, InFile
  <1> QED
    BY <1>6, <1>7, <1>8, <1>9 DEF WaitInv

(* The look at the past finds no matching line in the file, or answers.    *)
LEMMA HistoryStep ==
    ASSUME WaitInv, History
    PROVE  WaitInv'
  <1>1. CASE wait.req.until /\ \E l \in Past : l.hit
    BY <1>1, ToStep DEF History, WaitStates
  <1>2. CASE ~(wait.req.until /\ \E l \in Past : l.hit)
    <2>1. /\ wait.pc = "subscribed" /\ wait' = [wait EXCEPT !.pc = "checked"]
          /\ UNCHANGED <<life, file, writing, chan, printed, follow, due, gap>>
      BY <1>2 DEF History, To, process, history
    <2>2. TypeOK /\ OwnLines /\ InRange /\ Covered
      BY DEF WaitInv
    <2>3. /\ wait' \in [pc : WaitStates, req : AllRequests, pos : Nat \ {0}]
          /\ wait'.req = wait.req /\ wait'.pos = wait.pos /\ wait'.pc = "checked"
      BY <2>1, <2>2 DEF TypeOK, WaitStates
    <2>4. TypeOK'
      BY <2>1, <2>2, <2>3 DEF TypeOK, WaitStates
    <2>5. OwnLines' /\ InRange'
      BY <2>1, <2>2, <2>3 DEF OwnLines, InRange
    <2>6. ASSUME Seeking', NEW l \in due PROVE ~InFile(l)
      <3>1. wait.req.until /\ Past = {file[j] : j \in DOMAIN file}
        BY <2>3, <2>6 DEF Seeking, Past
      <3>2. l.hit
        BY <2>2 DEF OwnLines
      <3> QED
        BY <1>2, <3>1, <3>2 DEF InFile
    <2>7. Covered'
      <3> SUFFICES ASSUME gap' = {}, Seeking', NEW l \in due PROVE Ahead(l)'
        BY <2>1, <2>3 DEF Covered
      <3>1. Ahead(l)
        BY <2>1, <2>2, <2>6 DEF Covered
      <3> QED
        BY <2>1, <2>3, <3>1 DEF Ahead
    <2> QED
      BY <2>4, <2>5, <2>7 DEF WaitInv
  <1> QED
    BY <1>1, <1>2

(* Receiving moves on past a line only if it does not match; a lag is a    *)
(* gap.                                                                    *)
LEMMA RecvStep ==
    ASSUME WaitInv, Recv
    PROVE  WaitInv'
  <1>1. /\ wait.pc = "waiting" /\ wait.pos <= Len(chan)
        /\ UNCHANGED <<life, file, writing, chan, printed, follow, due>>
    BY DEF Recv, process, Unread
  <1>2. TypeOK /\ OwnLines /\ InRange /\ Covered /\ Len(chan) \in Nat
        /\ wait.pos \in Nat \ {0}
    BY DEF WaitInv, TypeOK
  <1>3. CASE Lagged(wait)
    <2>1. wait' = [wait EXCEPT !.pos = Oldest] /\ gap' = gap \cup {"lag"}
      BY <1>3 DEF Recv
    <2>2. Oldest \in Nat \ {0} /\ Oldest <= Len(chan) + 1
      BY <1>2, <1>3, CapacityAssumption DEF Lagged, Oldest
    <2>3. wait' \in [pc : WaitStates, req : AllRequests, pos : Nat \ {0}] /\ wait'.pos = Oldest
      BY <1>2, <2>1, <2>2 DEF TypeOK, WaitStates
    <2>4. TypeOK'
      BY <1>1, <1>2, <2>1, <2>3 DEF TypeOK, WaitStates
    <2>5. OwnLines' /\ InRange' /\ Covered'
      BY <1>1, <1>2, <2>1, <2>2, <2>3 DEF OwnLines, InRange, Covered
    <2> QED
      BY <2>4, <2>5 DEF WaitInv
  <1>4. CASE ~Lagged(wait)
    <2>1. /\ gap' = gap
          /\ \/ Matches(chan[wait.pos]) /\ wait' = [wait EXCEPT !.pos = @ + 1, !.pc = "match"]
             \/ ~Matches(chan[wait.pos]) /\ wait' = [wait EXCEPT !.pos = @ + 1]
      BY <1>2, <1>4 DEF Recv, TypeOK
    <2>2. /\ wait' \in [pc : WaitStates, req : AllRequests, pos : Nat \ {0}]
          /\ wait'.pos = wait.pos + 1 /\ wait'.req = wait.req
          /\ wait'.pc = "match" \/ (wait'.pc = "waiting" /\ ~Matches(chan[wait.pos]))
      <3>1. wait \in [pc : WaitStates, req : AllRequests, pos : Nat \ {0}]
        BY <1>2 DEF TypeOK, WaitStates
      <3>2. wait.pos + 1 \in Nat \ {0}
        BY <1>2
      <3>3. CASE wait' = [wait EXCEPT !.pos = @ + 1, !.pc = "match"]
        BY <3>1, <3>2, <3>3 DEF WaitStates
      <3>4. CASE ~Matches(chan[wait.pos]) /\ wait' = [wait EXCEPT !.pos = @ + 1]
        BY <1>1, <3>1, <3>2, <3>4
      <3> QED
        BY <2>1, <3>3, <3>4
    <2>3. TypeOK'
      BY <1>1, <1>2, <2>1, <2>2 DEF TypeOK, WaitStates
    <2>4. OwnLines' /\ InRange'
      BY <1>1, <1>2, <2>2 DEF OwnLines, InRange
    <2>5. Covered'
      <3> SUFFICES ASSUME Seeking', gap' = {}, NEW l \in due
                   PROVE  \/ \E s \in Streams : writing[s] = l
                          \/ \E p \in (wait.pos + 1)..Len(chan) : chan[p] = l
        BY <1>1, <2>2 DEF Covered, Ahead
      <3>1. Ahead(l)
        BY <1>1, <1>2, <2>1, <2>2 DEF Covered, Seeking
      <3>2. ~Matches(chan[wait.pos])
        BY <2>2 DEF Seeking
      <3>3. l.hit /\ l.proc = "target"
        BY <1>2 DEF OwnLines
      <3>4. chan[wait.pos] # l
        BY <2>2, <3>2, <3>3 DEF Matches, Seeking
      <3> QED
        BY <1>1, <1>2, <3>1, <3>4 DEF Ahead
    <2> QED
      BY <2>3, <2>4, <2>5 DEF WaitInv
  <1> QED
    BY <1>3, <1>4

(* A follow stream moves itself only; where it may forget a gap no wait    *)
(* is under way.                                                           *)
LEMMA FollowSteps ==
    ASSUME WaitInv,
           \/ \E cmd \in Follows, max \in {1, MaxLines} : Follow(cmd, max)
           \/ FollowRecv \/ FollowOver
    PROVE  WaitInv'
  <1>1. UNCHANGED <<life, file, writing, chan, printed, wait, due>>
    BY DEF Follow, FollowRecv, FollowOver, process, history
  <1>2. TypeOK /\ OwnLines /\ InRange /\ Covered /\ Len(chan) \in Nat
        /\ follow.pos \in Nat \ {0}
    BY DEF WaitInv, TypeOK
  <1> DEFINE Moved == /\ follow' \in FollowRecords /\ follow'.pos <= Len(chan) + 1
                      /\ gap' \subseteq Causes /\ (gap \subseteq gap' \/ wait.pc = "idle")
  <1>3. Moved
    <2>1. ASSUME NEW cmd \in Follows, NEW max \in {1, MaxLines}, Follow(cmd, max)
          PROVE  Moved
      <3>1. /\ max \in Nat /\ Len(chan) + 1 \in Nat \ {0} /\ <<>> \in Seq(Nat)
            /\ cmd \in Commands
        BY <1>2, BoundAssumption, FollowsAssumption
      <3>2. /\ follow' = [pc |-> "following", cmd |-> cmd, max |-> max,
                           from |-> Len(chan) + 1, pos |-> Len(chan) + 1, got |-> <<>>]
            /\ gap' = {} /\ wait.pc = "idle"
        BY <2>1 DEF Follow
      <3>3. follow' \in FollowRecords /\ follow'.pos = Len(chan) + 1
        BY <3>1, <3>2 DEF FollowRecords
      <3>4. follow'.pos <= Len(chan) + 1
        BY <1>2, <3>3
      <3>5. gap' \subseteq Causes /\ wait.pc = "idle"
        BY <3>2
      <3> QED
        BY <3>3, <3>4, <3>5
    <2>2. CASE FollowOver
      BY <1>2, <2>2 DEF FollowOver, TypeOK, InRange, FollowRecords, Causes, history
    <2>3. CASE FollowRecv /\ Lagged(follow)
      <3>1. Oldest \in Nat \ {0} /\ Oldest <= Len(chan) + 1
        BY <1>2, <2>3, CapacityAssumption DEF Lagged, Oldest
      <3> QED
        BY <1>2, <2>3, <3>1 DEF FollowRecv, TypeOK, FollowRecords, Causes
    <2>4. CASE FollowRecv /\ ~Lagged(follow)
      <3>1. /\ follow' = Taken(follow, chan[follow.pos]) /\ gap' = gap
            /\ follow.pos <= Len(chan)
        BY <2>4 DEF FollowRecv, Unread
      <3>2. Append(follow.got, follow.pos) \in Seq(Nat) /\ follow.got \in Seq(Nat)
        BY <1>2 DEF TypeOK
      <3>3. follow \in FollowRecords /\ follow.pos + 1 \in Nat \ {0}
        BY <1>2 DEF TypeOK, FollowRecords
      <3>4. PICK got \in Seq(Nat), to \in {"idle", "following", "ended"} :
              follow' = [follow EXCEPT !.pos = @ + 1, !.got = got, !.pc = to]
        <4> DEFINE g == IF Passes(chan[follow.pos], Filter(follow.cmd))
                        THEN Append(follow.got, follow.pos) ELSE follow.got
                   t == IF g # follow.got /\ Len(g) >= follow.max THEN "ended"
                        ELSE follow.pc
        <4>1. g \in Seq(Nat) /\ t \in {"idle", "following", "ended"}
          BY <3>2, <3>3 DEF FollowRecords
        <4>2. follow' = [follow EXCEPT !.pos = @ + 1, !.got = g, !.pc = t]
          BY <3>1, <3>3 DEF Taken, FollowRecords
        <4> QED
          BY <4>1, <4>2
      <3>5. follow' \in FollowRecords /\ follow'.pos = follow.pos + 1
        BY <3>3, <3>4 DEF FollowRecords
      <3>6. gap' \subseteq Causes /\ gap \subseteq gap'
        BY <1>2, <3>1 DEF TypeOK, Causes
      <3>7. follow'.pos <= Len(chan) + 1
        BY <1>2, <3>1, <3>5
      <3> QED
        BY <3>5, <3>6, <3>7
    <2> QED
      BY <2>1, <2>2, <2>3, <2>4
  <1>4. TypeOK'
    BY <1>1, <1>2, <1>3 DEF TypeOK, FollowRecords, Causes
  <1>5. OwnLines' /\ InRange'
    BY <1>1, <1>2, <1>3 DEF OwnLines, InRange
  <1>6. Covered'
    BY <1>1, <1>2, <1>3 DEF Covered, Seeking, Ahead, InFile
  <1> QED
    BY <1>4, <1>5, <1>6 DEF WaitInv

LEMMA WaitStep ==
    ASSUME WaitInv, [Next]_vars
    PROVE  WaitInv'
  <1>1. CASE Process
    <2>1. CASE Exit
      BY <2>1, QuietStep DEF Exit, history
    <2>2. CASE Stop
      BY <2>2, JoinedStep DEF Stop
    <2>3. CASE StopAll
      BY <2>3, JoinedStep DEF StopAll
    <2>4. CASE Respawn
      BY <2>4, JoinedStep DEF Respawn
    <2> QED
      BY <1>1, <2>1, <2>2, <2>3, <2>4, PrintLineStep, SendStep, OtherLineStep,
         RespawnFailsStep DEF Process
  <1>2. CASE Reader
    <2>1. CASE Begin
      BY <2>1, ToStep DEF Begin, WaitStates
    <2>2. CASE Poll
      BY <2>2, ToStep DEF Poll, WaitStates
    <2>3. CASE Timeout
      BY <2>3, ToStep DEF Timeout, WaitStates
    <2> QED
      BY <1>2, <2>1, <2>2, <2>3, AskStep, SubscribeStep, HistoryStep, RecvStep,
         FollowSteps DEF Reader
  <1>3. CASE UNCHANGED vars
    <2>1. life' \in {"running", "exited", "gone"}
      BY <1>3 DEF vars, WaitInv, TypeOK
    <2> QED
      BY <1>3, <2>1, QuietStep DEF vars, history
  <1> QED
    BY <1>1, <1>2, <1>3 DEF Next

(* The variables of Wait keep their types.                                 *)
THEOREM TypeCorrect == Spec => []TypeOK
  <1>1. Init => WaitInv
    BY InitWait
  <1>2. WaitInv /\ [Next]_vars => WaitInv'
    BY WaitStep
  <1>3. WaitInv => TypeOK
    BY DEF WaitInv
  <1> QED
    BY <1>1, <1>2, <1>3, PTL DEF Spec

(* Of the matching lines that were in the log when a Wait subscribed, or   *)
(* were printed since, none falls between the past it reads and the output *)
(* it then receives, whenever files are rotated and processes restarted,   *)
(* unless the line was lost in one of the three ways gap records: for      *)
(* every capacity of the channel and every size of the files.              *)
THEOREM NoGapHolds == Spec => []NoGap
  <1>1. Init => WaitInv
    BY InitWait
  <1>2. WaitInv /\ [Next]_vars => WaitInv'
    BY WaitStep
  <1>3. WaitInv => NoGap
    BY DEF WaitInv, Covered, Seeking, NoGap, AllAhead, Looking
  <1> QED
    BY <1>1, <1>2, <1>3, PTL DEF Spec

-----------------------------------------------------------------------------
(* The follow stream.  A behaviour has one reader; what a stream has sent  *)
(* was on the channel after it subscribed, and one that goes on has sent   *)
(* fewer lines than it may.                                                *)
OneReader == wait.pc = "idle" \/ follow.pc = "idle"

(* The command's arguments and the filter of the daemon, in one.           *)
Lets(l, cmd) ==
    /\ cmd.all \/ cmd.target = "none" \/ (cmd.target = "name" /\ l.proc = "target")
    /\ cmd.stderr => l.stream = "err"
    /\ ~cmd.stderr /\ cmd.target # "none" => l.stream = "out"

Increasing == \A i, j \in DOMAIN follow.got : i < j => follow.got[i] < follow.got[j]
Suiting ==
    \A i \in DOMAIN follow.got :
        /\ follow.from <= follow.got[i] /\ follow.got[i] < follow.pos
        /\ Lets(chan[follow.got[i]], follow.cmd)
Complete ==
    "lag" \notin gap => \A p \in follow.from..(follow.pos - 1) :
        Lets(chan[p], follow.cmd) => \E i \in DOMAIN follow.got : follow.got[i] = p
Started == follow.from <= follow.pos
Bounded ==
    /\ Len(follow.got) <= follow.max
    /\ follow.pc = "following" => Len(follow.got) < follow.max

FollowInv ==
    /\ WaitInv /\ OneReader
    /\ follow.pc # "idle" => Started /\ Increasing /\ Suiting /\ Complete /\ Bounded

LEMMA PassesIs ==
    ASSUME NEW l, NEW cmd \in Commands
    PROVE  Passes(l, Filter(cmd)) <=> Lets(l, cmd)
  <1> DEFINE f == Filter(cmd)
  <1>1. /\ f.all = (cmd.all \/ cmd.target = "none")
        /\ f.target = cmd.target /\ f.stderr = cmd.stderr
        /\ cmd.all \in BOOLEAN /\ cmd.stderr \in BOOLEAN
    BY DEF Filter, Commands
  <1> HIDE DEF f
  <1>2. Passes(l, f) <=> Lets(l, cmd)
    BY <1>1 DEF Passes, Lets
  <1> QED
    BY <1>2 DEF f

(* What the daemon lets through is what the arguments ask for, unless they *)
(* name the target by its id.                                              *)
LEMMA LetsIsWanted ==
    ASSUME NEW l \in Lines, NEW cmd \in Commands, cmd.target # "id" \/ cmd.all
    PROVE  Lets(l, cmd) <=> <<l.proc, l.stream>> \in Wanted(cmd)
  <1>1. /\ l.proc \in {"target", "other"} /\ l.stream \in {"out", "err"}
        /\ cmd.all \in BOOLEAN /\ cmd.stderr \in BOOLEAN
        /\ cmd.target \in {"none", "name", "id"}
    BY DEF Lines, Commands, Procs, Streams
  <1> DEFINE P == IF cmd.all \/ cmd.target = "none" THEN Procs ELSE {"target"}
             S == CASE cmd.stderr -> {"err"}
                    [] ~cmd.stderr /\ cmd.target = "none" -> Streams
                    [] OTHER -> {"out"}
  <1>2. l.proc \in P <=> cmd.all \/ cmd.target = "none" \/ l.proc = "target"
    BY <1>1 DEF Procs
  <1>3. l.stream \in S <=> /\ cmd.stderr => l.stream = "err"
                           /\ ~cmd.stderr /\ cmd.target # "none" => l.stream = "out"
    <2>1. CASE cmd.stderr
      BY <2>1, <1>1
    <2>2. CASE ~cmd.stderr /\ cmd.target = "none"
      BY <2>2, <1>1 DEF Streams
    <2>3. CASE ~cmd.stderr /\ cmd.target # "none"
      BY <2>3, <1>1
    <2> QED
      BY <2>1, <2>2, <2>3
  <1>4. Wanted(cmd) = P \X S
    BY DEF Wanted
  <1> HIDE DEF P, S
  <1>5. <<l.proc, l.stream>> \in P \X S <=> l.proc \in P /\ l.stream \in S
    OBVIOUS
  <1> QED
    BY <1>1, <1>2, <1>3, <1>4, <1>5 DEF Lets

LEMMA FollowInvExact == FollowInv => FollowExact
  <1> SUFFICES ASSUME FollowInv, follow.cmd.target # "id" \/ follow.cmd.all,
                      follow.pc # "idle"
               PROVE  /\ Increasing
                      /\ Len(follow.got) <= follow.max
                      /\ \A p \in {follow.got[i] : i \in DOMAIN follow.got} :
                            /\ p < follow.pos
                            /\ <<chan[p].proc, chan[p].stream>> \in Wanted(follow.cmd)
                      /\ "lag" \notin gap => \A p \in follow.from..(follow.pos - 1) :
                            <<chan[p].proc, chan[p].stream>> \in Wanted(follow.cmd)
                                => p \in {follow.got[i] : i \in DOMAIN follow.got}
    BY DEF FollowExact, Exact, Increasing
  <1>1. /\ Increasing /\ Suiting /\ Complete /\ Bounded /\ Started
        /\ chan \in Seq(Lines) /\ Len(chan) \in Nat /\ follow.pos <= Len(chan) + 1
        /\ follow.pos \in Nat \ {0} /\ follow.from \in Nat \ {0} /\ follow.got \in Seq(Nat)
        /\ follow.cmd \in Commands
    BY DEF FollowInv, WaitInv, TypeOK, InRange
  <1>2. \A p \in 1..Len(chan) : chan[p] \in Lines
    BY <1>1
  <1>3. \A p \in 1..Len(chan) :
          Lets(chan[p], follow.cmd)
            <=> <<chan[p].proc, chan[p].stream>> \in Wanted(follow.cmd)
    BY <1>1, <1>2, LetsIsWanted
  <1>4. \A i \in DOMAIN follow.got : follow.got[i] \in Nat
    BY <1>1
  <1>5. \A i \in DOMAIN follow.got :
          follow.got[i] < follow.pos /\ follow.got[i] \in 1..Len(chan)
    BY <1>1, <1>4 DEF Suiting
  <1>6. ASSUME NEW i \in DOMAIN follow.got
        PROVE  <<chan[follow.got[i]].proc, chan[follow.got[i]].stream>> \in Wanted(follow.cmd)
    <2>1. Lets(chan[follow.got[i]], follow.cmd)
      BY <1>1 DEF Suiting
    <2> QED
      BY <1>3, <1>5, <2>1
  <1>7. \A p \in follow.from..(follow.pos - 1) : p \in 1..Len(chan)
    BY <1>1
  <1>8. ASSUME "lag" \notin gap, NEW p \in follow.from..(follow.pos - 1),
               <<chan[p].proc, chan[p].stream>> \in Wanted(follow.cmd)
        PROVE  \E i \in DOMAIN follow.got : follow.got[i] = p
    <2>1. Lets(chan[p], follow.cmd)
      BY <1>3, <1>7, <1>8
    <2> QED
      BY <1>1, <1>8, <2>1 DEF Complete
  <1>9. Len(follow.got) <= follow.max
    BY <1>1 DEF Bounded
  <1> QED
    BY <1>1, <1>5, <1>6, <1>8, <1>9

(* The channel only grows, and no line that was lost is forgotten, so a    *)
(* stream that does not move stays exact.                                  *)
LEMMA FollowStays ==
    ASSUME FollowInv, WaitInv', OneReader', UNCHANGED follow,
           follow.pc # "idle" => gap \subseteq gap',
           \/ UNCHANGED chan
           \/ \E l \in Lines : chan' = Append(chan, l)
    PROVE  FollowInv'
  <1> SUFFICES ASSUME follow.pc # "idle"
               PROVE  (Started /\ Increasing /\ Suiting /\ Complete /\ Bounded)'
    BY DEF FollowInv
  <1>1. /\ Started /\ Increasing /\ Suiting /\ Complete /\ Bounded
        /\ chan \in Seq(Lines) /\ Len(chan) \in Nat /\ follow.pos <= Len(chan) + 1
        /\ follow.pos \in Nat \ {0} /\ follow.from \in Nat \ {0} /\ follow.got \in Seq(Nat)
    BY DEF FollowInv, WaitInv, TypeOK, InRange
  <1>2. \A p \in 1..Len(chan) : chan'[p] = chan[p]
    BY <1>1, SMTT(30)
  <1>3. Started' /\ Increasing' /\ Bounded'
    BY <1>1 DEF Started, Increasing, Bounded
  <1>4. Suiting'
    <2>1. \A i \in DOMAIN follow.got : follow.got[i] \in Nat
      BY <1>1, SMTT(30)
    <2>2. \A i \in DOMAIN follow.got : follow.got[i] \in 1..Len(chan)
      BY <1>1, <2>1, SMTT(30) DEF Suiting
    <2> QED
      BY <1>1, <1>2, <2>2 DEF Suiting, Lets
  <1>5. Complete'
    <2>1. \A p \in follow.from..(follow.pos - 1) : p \in 1..Len(chan)
      BY <1>1
    <2> QED
      BY <1>1, <1>2, <2>1 DEF Complete, Lets
  <1> QED
    BY <1>3, <1>4, <1>5

(* A line that passes is appended to what was sent.                        *)
LEMMA TakenStep ==
    ASSUME FollowInv, WaitInv', FollowRecv, ~Lagged(follow)
    PROVE  FollowInv'
  <1>1. /\ follow.pc = "following" /\ follow.pos <= Len(chan) /\ gap' = gap
        /\ follow' = Taken(follow, chan[follow.pos]) /\ chan' = chan /\ wait' = wait
        /\ Passes(chan[follow.pos], Filter(follow.cmd)) <=> Lets(chan[follow.pos], follow.cmd)
    <2>1. follow.cmd \in Commands
      BY DEF FollowInv, WaitInv, TypeOK
    <2> QED
      BY <2>1, PassesIs DEF FollowRecv, Unread, process
  <1>2. /\ Started /\ Increasing /\ Suiting /\ Complete /\ Bounded /\ OneReader
        /\ follow \in FollowRecords
    BY <1>1 DEF FollowInv, WaitInv, TypeOK, FollowRecords
  <1>3. /\ follow.pos \in Nat \ {0} /\ follow.from \in Nat \ {0} /\ follow.max \in Nat
        /\ follow.got \in Seq(Nat) /\ Len(follow.got) \in Nat
        /\ DOMAIN follow.got = 1..Len(follow.got)
    BY <1>2 DEF FollowRecords
  <1>4. OneReader'
    BY <1>1, <1>2 DEF OneReader
  <1>5. CASE Lets(chan[follow.pos], follow.cmd)
    <2>0. follow.from <= follow.pos + 1
      BY <1>2, <1>3 DEF Started
    <2> DEFINE g == Append(follow.got, follow.pos)
    <2>1. /\ g \in Seq(Nat) /\ Len(g) = Len(follow.got) + 1
          /\ DOMAIN g = 1..(Len(follow.got) + 1)
          /\ \A i \in 1..Len(follow.got) : g[i] = follow.got[i]
          /\ g[Len(follow.got) + 1] = follow.pos
      BY <1>3
    <2>2. g # follow.got
      BY <1>3, <2>1
    <2> HIDE DEF g
    <2>3. /\ follow'.pos = follow.pos + 1 /\ follow'.got = g
          /\ follow'.cmd = follow.cmd /\ follow'.from = follow.from
          /\ follow'.max = follow.max
          /\ follow'.pc = IF Len(g) >= follow.max THEN "ended" ELSE "following"
      BY <1>1, <1>2, <1>5, <2>2 DEF Taken, g, FollowRecords
    <2>4. Increasing'
      <3>1. \A i \in DOMAIN follow.got : follow.got[i] < follow.pos /\ follow.got[i] \in Nat
        BY <1>2, <1>3 DEF Suiting
      <3>2. ASSUME NEW i \in 1..(Len(follow.got) + 1),
                   NEW j \in 1..(Len(follow.got) + 1), i < j
            PROVE  g[i] < g[j]
        <4>0. i \in 1..Len(follow.got)
          <5>1. Len(follow.got) \in Nat
            BY <1>3
          <5> QED
            BY <3>2, <5>1
        <4>1. i \in 1..Len(follow.got) /\ g[i] = follow.got[i]
          BY <2>1, <4>0
        <4>2. CASE j = Len(follow.got) + 1
          BY <1>3, <2>1, <3>1, <4>1, <4>2
        <4>3. CASE j \in 1..Len(follow.got)
          <5>1. follow.got[i] < follow.got[j]
            BY <1>2, <1>3, <3>2, <4>1, <4>3 DEF Increasing
          <5> QED
            BY <2>1, <4>1, <4>3, <5>1
        <4> QED
          BY <1>3, <4>2, <4>3, SMTT(30)
      <3> QED
        BY <2>1, <2>3, <3>2 DEF Increasing
    <2>5. Suiting'
      <3>1. ASSUME NEW i \in DOMAIN g
            PROVE  /\ follow.from <= g[i] /\ g[i] < follow.pos + 1
                   /\ Lets(chan[g[i]], follow.cmd)
        <4>1. CASE i \in 1..Len(follow.got)
          <5>1. /\ g[i] = follow.got[i] /\ follow.got[i] \in Nat
                /\ follow.from <= follow.got[i] /\ follow.got[i] < follow.pos
                /\ Lets(chan[follow.got[i]], follow.cmd)
            BY <1>2, <1>3, <2>1, <4>1, SMTT(30) DEF Suiting
          <5> QED
            BY <1>3, <5>1
        <4>2. CASE i = Len(follow.got) + 1
          <5>1. follow.from <= follow.pos
            BY <1>2 DEF Started
          <5> QED
            BY <1>3, <1>5, <2>1, <4>2, <5>1
        <4> QED
          BY <1>3, <2>1, <3>1, <4>1, <4>2
      <3> QED
        BY <1>1, <2>3, <3>1 DEF Suiting, Lets
    <2>6. Complete'
      <3> SUFFICES ASSUME "lag" \notin gap', NEW p \in follow'.from..(follow'.pos - 1),
                          Lets(chan'[p], follow'.cmd)
                   PROVE  \E i \in DOMAIN follow'.got : follow'.got[i] = p
        BY DEF Complete
      <3>1. "lag" \notin gap /\ p \in follow.from..follow.pos /\ Lets(chan[p], follow.cmd)
        BY <1>1, <1>3, <2>3 DEF Lets
      <3>2. CASE p = follow.pos
        <4>1. Len(follow.got) + 1 \in DOMAIN g
          BY <1>3, <2>1
        <4> QED
          BY <2>1, <2>3, <3>2, <4>1
      <3>3. CASE p # follow.pos
        <4>1. p \in follow.from..(follow.pos - 1)
          BY <1>3, <3>1, <3>3
        <4>2. PICK i \in DOMAIN follow.got : follow.got[i] = p
          BY <1>2, <3>1, <4>1 DEF Complete
        <4>3. i \in DOMAIN g /\ g[i] = p
          BY <1>3, <2>1, <4>2, SMTT(30)
        <4> QED
          BY <2>3, <4>3
      <3> QED
        BY <3>2, <3>3
    <2>7. Bounded'
      BY <1>1, <1>2, <1>3, <2>1, <2>3 DEF Bounded
    <2> QED
      BY <1>4, <2>0, <2>3, <2>4, <2>5, <2>6, <2>7 DEF FollowInv, Started
  <1>6. CASE ~Lets(chan[follow.pos], follow.cmd)
    <2>1. /\ follow'.pos = follow.pos + 1 /\ follow'.got = follow.got
          /\ follow'.cmd = follow.cmd /\ follow'.from = follow.from
          /\ follow'.max = follow.max /\ follow'.pc = follow.pc
      BY <1>1, <1>2, <1>6 DEF Taken, FollowRecords
    <2>2. Increasing' /\ Bounded'
      BY <1>2, <2>1 DEF Increasing, Bounded
    <2>3. Suiting'
      <3>1. \A i \in DOMAIN follow.got :
               /\ follow.from <= follow.got[i] /\ follow.got[i] < follow.pos + 1
               /\ Lets(chan[follow.got[i]], follow.cmd)
        <4>1. \A i \in DOMAIN follow.got : follow.got[i] \in Nat
          BY <1>3
        <4> QED
          BY <1>2, <1>3, <4>1 DEF Suiting
      <3> QED
        BY <1>1, <2>1, <3>1 DEF Suiting, Lets
    <2>4. Complete'
      <3> SUFFICES ASSUME "lag" \notin gap', NEW p \in follow'.from..(follow'.pos - 1),
                          Lets(chan'[p], follow'.cmd)
                   PROVE  \E i \in DOMAIN follow'.got : follow'.got[i] = p
        BY DEF Complete
      <3>1. "lag" \notin gap /\ p \in follow.from..follow.pos /\ Lets(chan[p], follow.cmd)
        BY <1>1, <1>3, <2>1 DEF Lets
      <3>2. p # follow.pos
        BY <1>6, <3>1
      <3>3. p \in follow.from..(follow.pos - 1)
        BY <1>3, <3>1, <3>2
      <3>4. PICK i \in DOMAIN follow.got : follow.got[i] = p
        BY <1>2, <3>1, <3>3 DEF Complete
      <3> QED
        BY <2>1, <3>4
    <2>5. follow.from <= follow.pos + 1
      BY <1>2, <1>3 DEF Started
    <2> QED
      BY <1>4, <2>1, <2>2, <2>3, <2>4, <2>5 DEF FollowInv, Started
  <1> QED
    BY <1>5, <1>6

(* A stream that lags skips lines, and may be incomplete from then on.     *)
LEMMA LagStep ==
    ASSUME FollowInv, WaitInv', FollowRecv, Lagged(follow)
    PROVE  FollowInv'
  <1>1. /\ follow.pc = "following" /\ gap' = gap \cup {"lag"} /\ chan' = chan /\ wait' = wait
        /\ follow' = [follow EXCEPT !.pos = Oldest]
    BY DEF FollowRecv, process
  <1>2. /\ Increasing /\ Suiting /\ Bounded /\ OneReader
        /\ follow \in FollowRecords
        /\ Len(chan) \in Nat /\ follow.from <= follow.pos
    BY <1>1 DEF FollowInv, WaitInv, TypeOK, Started, FollowRecords
  <1>3. /\ follow'.pos = Oldest /\ follow'.got = follow.got
        /\ follow'.cmd = follow.cmd /\ follow'.from = follow.from
        /\ follow'.max = follow.max /\ follow'.pc = follow.pc
    BY <1>1, <1>2 DEF FollowRecords
  <1>4. follow.pos < Oldest /\ Oldest \in Nat
    BY <1>2, CapacityAssumption DEF Lagged, Oldest, FollowRecords
  <1>5. Suiting'
    <2>1. \A i \in DOMAIN follow.got : follow.got[i] \in Nat /\ follow.pos \in Nat
      BY <1>2 DEF FollowRecords
    <2> QED
      BY <1>1, <1>2, <1>3, <1>4, <2>1 DEF Suiting, Lets
  <1>6. Increasing' /\ Bounded' /\ Complete' /\ OneReader'
    BY <1>1, <1>2, <1>3 DEF Increasing, Bounded, Complete, OneReader
  <1>7. follow.from <= Oldest
    BY <1>2, <1>4 DEF FollowRecords
  <1> QED
    BY <1>3, <1>5, <1>6, <1>7 DEF FollowInv, Started

(* A stream starts with nothing sent, and may send one line at least.      *)
LEMMA FollowStarts ==
    ASSUME FollowInv, WaitInv', NEW cmd \in Follows, NEW max \in {1, MaxLines},
           Follow(cmd, max)
    PROVE  FollowInv'
  <1>1. /\ follow' = [pc |-> "following", cmd |-> cmd, max |-> max,
                      from |-> Len(chan) + 1, pos |-> Len(chan) + 1, got |-> <<>>]
        /\ wait.pc = "idle" /\ wait' = wait /\ Len(chan) \in Nat
    BY DEF Follow, FollowInv, WaitInv, TypeOK
  <1>2. /\ follow'.from = Len(chan) + 1 /\ follow'.pos = Len(chan) + 1
        /\ follow'.got = <<>> /\ follow'.max = max
    BY <1>1
  <1>3. max \in Nat /\ max > 0
    BY BoundAssumption
  <1>4. DOMAIN follow'.got = {} /\ Len(follow'.got) = 0
    BY <1>2
  <1>5. OneReader' /\ Started'
    BY <1>1, <1>2 DEF OneReader, Started
  <1>6. Increasing' /\ Suiting'
    BY <1>4 DEF Increasing, Suiting
  <1>7. Complete'
    <2>1. follow'.from..(follow'.pos - 1) = {}
      BY <1>1, <1>2
    <2> QED
      BY <2>1 DEF Complete
  <1>8. Bounded'
    BY <1>2, <1>3, <1>4 DEF Bounded
  <1> QED
    BY <1>5, <1>6, <1>7, <1>8 DEF FollowInv

(* A stream that ends keeps what it sent.                                  *)
LEMMA FollowOverStep ==
    ASSUME FollowInv, WaitInv', FollowOver
    PROVE  FollowInv'
  <1>1. /\ follow.pc = "following" /\ follow' = [follow EXCEPT !.pc = "ended"]
        /\ chan' = chan /\ wait' = wait /\ gap' = gap
    BY DEF FollowOver, process, history
  <1>2. /\ Started /\ Increasing /\ Suiting /\ Complete /\ Bounded /\ OneReader
        /\ follow \in FollowRecords
    BY <1>1 DEF FollowInv, WaitInv, TypeOK, FollowRecords
  <1>3. /\ follow'.pos = follow.pos /\ follow'.got = follow.got
        /\ follow'.cmd = follow.cmd /\ follow'.from = follow.from
        /\ follow'.max = follow.max /\ follow'.pc = "ended"
    BY <1>1, <1>2 DEF FollowRecords
  <1>4. Started' /\ Increasing' /\ Bounded' /\ OneReader'
    BY <1>1, <1>2, <1>3 DEF Started, Increasing, Bounded, OneReader
  <1>5. Suiting' /\ Complete'
    BY <1>1, <1>2, <1>3 DEF Suiting, Complete, Lets
  <1> QED
    BY <1>4, <1>5 DEF FollowInv

LEMMA InitFollow == Init => FollowInv
  BY InitWait DEF Init, FollowInv, OneReader

LEMMA FollowStep ==
    ASSUME FollowInv, [Next]_vars
    PROVE  FollowInv'
  <1>1. WaitInv'
    BY WaitStep DEF FollowInv
  <1>2. OneReader /\ WaitInv
    BY DEF FollowInv
  <1>3. CASE Process
    <2>1. UNCHANGED <<wait, follow>> /\ gap \subseteq gap'
      BY <1>3 DEF Process, PrintLine, Send, OtherLine, Exit, Stop, StopAll, Respawn,
                  RespawnFails, history
    <2>2. \/ UNCHANGED chan
          \/ \E l \in Lines : chan' = Append(chan, l)
      <3>1. \A s \in Streams : writing[s] \in Lines
        BY <1>2 DEF WaitInv, TypeOK
      <3>2. \A q \in Procs, s \in Streams, hit \in BOOLEAN :
               [id |-> printed + 1, proc |-> q, stream |-> s, hit |-> hit] \in Lines
        BY <1>2 DEF WaitInv, TypeOK, Lines
      <3>3. CASE \E s \in Streams, hit \in BOOLEAN : PrintLine(s, hit)
        BY <3>3 DEF PrintLine
      <3>4. CASE \E s \in Streams : Send(s)
        BY <3>1, <3>4 DEF Send
      <3>5. CASE \E s \in Streams : OtherLine(s)
        BY <3>2, <3>5 DEF OtherLine, Procs
      <3>6. CASE Exit \/ Stop \/ StopAll \/ Respawn
        BY <3>6 DEF Exit, Stop, StopAll, Respawn
      <3>7. CASE \E hit \in BOOLEAN : RespawnFails(hit)
        BY <3>2, <3>7 DEF RespawnFails, Procs, Streams
      <3> QED
        BY <1>3, <3>3, <3>4, <3>5, <3>6, <3>7 DEF Process
    <2>3. OneReader'
      BY <1>2, <2>1 DEF OneReader
    <2> QED
      BY <1>1, <2>1, <2>2, <2>3, FollowStays
  <1>4. CASE Reader
    <2>1. CASE \/ \E req \in Requests : Ask(req)
               \/ Subscribe \/ History \/ Begin \/ Recv \/ Poll \/ Timeout
      <3>1. UNCHANGED <<follow, chan>>
        BY <2>1 DEF Ask, Subscribe, History, Begin, Recv, Poll, Timeout, process
      <3>2. follow.pc = "idle"
        BY <1>2, <2>1
           DEF Ask, Subscribe, History, Begin, Recv, Poll, Timeout, OneReader
      <3> QED
        BY <1>1, <3>1, <3>2, FollowStays DEF OneReader
    <2>2. CASE \E cmd \in Follows, max \in {1, MaxLines} : Follow(cmd, max)
      BY <1>1, <2>2, FollowStarts
    <2>3. CASE FollowRecv
      BY <1>1, <2>3, TakenStep, LagStep
    <2>4. CASE FollowOver
      BY <1>1, <2>4, FollowOverStep
    <2> QED
      BY <1>4, <2>1, <2>2, <2>3, <2>4 DEF Reader
  <1>5. CASE UNCHANGED vars
    <2>1. UNCHANGED <<follow, wait, chan, gap>>
      BY <1>5 DEF vars, history
    <2>2. OneReader'
      BY <1>2, <2>1 DEF OneReader
    <2> QED
      BY <1>1, <2>1, <2>2, FollowStays
  <1> QED
    BY <1>3, <1>4, <1>5 DEF Next

(* A follow stream sends exactly the lines its arguments ask for, in the   *)
(* order of the channel, none twice and no more than max_lines, unless it  *)
(* lagged or has its target by an id: execute_follow and                   *)
(* handle_follow_stream for every combination of arguments, every capacity *)
(* and every length.                                                       *)
THEOREM FollowExactHolds == Spec => []FollowExact
  <1>1. Init => FollowInv
    BY InitFollow
  <1>2. FollowInv /\ [Next]_vars => FollowInv'
    BY FollowStep
  <1>3. FollowInv => FollowExact
    BY FollowInvExact
  <1> QED
    BY <1>1, <1>2, <1>3, PTL DEF Spec

=============================================================================

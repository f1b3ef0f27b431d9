-------------------------------- MODULE Wait --------------------------------
(***************************************************************************)
(* Readers of a process's live output: the Wait request                    *)
(* (src/src/daemon/server.rs, src/src/daemon/wait_engine.rs) and the       *)
(* stream of `logs --follow` (src/src/daemon/server.rs).                   *)
(*                                                                         *)
(* A line is first written to the log file and then sent on a broadcast    *)
(* channel that keeps the last Capacity lines: two steps, with any step of *)
(* a reader between them.  A reader that falls behind is told so (Lagged)  *)
(* and goes on with the oldest line that is left.  A Wait looks the        *)
(* process up, subscribes, reads the log's past, and then waits for a      *)
(* line, an exit seen by its own poll, or its timeout.                     *)
(*                                                                         *)
(* One process is the target; all others are "other".                      *)
(* The supervisor appears as what it answers about the target: Stopping    *)
(* before the leader's exit is known counts as running.                    *)
(***************************************************************************)
EXTENDS Integers, Sequences

CONSTANTS
    Capacity,   \* of the broadcast channel
    FileLines,  \* lines a log file holds before it is rotated
    MaxLines,   \* bound on lines printed
    Requests,   \* the Wait requests asked
    Follows     \* the follow commands given

AllRequests ==
    [until : BOOLEAN, exit : BOOLEAN, badRegex : BOOLEAN, by : {"name", "id"}]

(* Each kind of Wait: for a line, for an exit, for either, by an id, and   *)
(* with an expression that does not compile.                               *)
KindsOfWait ==
    {r \in AllRequests :
        /\ r.until \/ r.exit
        /\ r.badRegex => r.until /\ ~r.exit /\ r.by = "name"
        /\ r.by = "id" => r.until /\ r.exit}

ASSUME CapacityAssumption == Capacity \in Nat \ {0} /\ FileLines \in Nat \ {0}
ASSUME BoundAssumption == MaxLines \in Nat \ {0}
ASSUME RequestsAssumption == Requests \subseteq AllRequests

Streams == {"out", "err"}            \* each has a capture task
Procs == {"target", "other"}

(* A line: which it is, whose it is, and whether the pattern matches it.   *)
Lines == [id : Nat, proc : Procs, stream : Streams, hit : BOOLEAN]
NoLine == [id |-> 0, proc |-> "other", stream |-> "out", hit |-> FALSE]

(* The arguments of `logs --follow`: a target by its name, by its id or    *)
(* not at all, --all and --stderr.                                         *)
Commands == [target : {"none", "name", "id"}, all : BOOLEAN, stderr : BOOLEAN]
ASSUME FollowsAssumption == Follows \subseteq Commands

VARIABLES
    life,       \* what the supervisor knows: running, exited, or no record
    file,       \* the lines of <target>.stdout
    writing,    \* the target's lines that are on disk but not yet sent
    chan,       \* every line sent so far
    printed,    \* how many lines there were
    wait,       \* the Wait request: pc, req, pos (its next line in chan)
    follow,     \* the follow stream: its command, max_lines, next line, what it sent
    due,        \* history: the matching lines the wait is to find: those in the
                \* log when it subscribed, those the target printed since
    gap         \* history: how the reader lost lines since: a "lag" on the
                \* channel, an "abort" of a capture task before its send, a log
                \* file "rotated" away before it was read

history == <<due, gap>>
vars == <<life, file, writing, chan, printed, wait, follow, history>>
process == <<life, file, writing, chan, printed>>

TypeOK ==
    /\ life \in {"running", "exited", "gone"}
    /\ file \in Seq(Lines) /\ chan \in Seq(Lines) /\ printed \in Nat
    /\ writing \in [Streams -> Lines]
    /\ wait \in [pc : {"idle", "found", "subscribed", "checked", "waiting",
                       "match", "exited", "timeout", "notfound", "error"},
                 req : AllRequests, pos : Nat \ {0}]
    /\ follow \in [pc : {"idle", "following", "ended"}, cmd : Commands,
                   max : Nat, from : Nat \ {0}, pos : Nat \ {0}, got : Seq(Nat)]
    /\ due \subseteq Lines /\ gap \subseteq {"lag", "abort", "rotated"}

Init ==
    /\ life = "running" /\ file = <<>> /\ chan = <<>> /\ printed = 0
    /\ writing = [s \in Streams |-> NoLine]
    /\ wait = [pc |-> "idle", req |-> CHOOSE r \in AllRequests : TRUE, pos |-> 1]
    /\ follow = [pc |-> "idle", cmd |-> [target |-> "none", all |-> FALSE, stderr |-> FALSE],
                 max |-> 0, from |-> 1, pos |-> 1, got |-> <<>>]
    /\ due = {} /\ gap = {}

(* A line the wait will still receive: on the channel, or about to be.     *)
Ahead(l) ==
    \/ \E s \in Streams : writing[s] = l
    \/ \E p \in wait.pos..Len(chan) : chan[p] = l

(* A matching line is owed to the wait that has subscribed.                *)
Owes(l) ==
    due' = IF l.hit /\ wait.pc \in {"subscribed", "checked", "waiting"}
           THEN due \cup {l} ELSE due

(* What the lines now in the log file would mean if it were replaced: a    *)
(* wait that has subscribed and not read it has no other way to a line     *)
(* that was sent before.                                                   *)
Hidden ==
    IF wait.pc = "subscribed" /\ \E i \in DOMAIN file : file[i].hit /\ ~Ahead(file[i])
    THEN {"rotated"} ELSE {}

-----------------------------------------------------------------------------
(* The process and its capture tasks                                       *)

(* write_line up to the flush of the file, with the rotation of a full one.*)
PrintLine(s, hit) ==
    LET line == [id |-> printed + 1, proc |-> "target", stream |-> s, hit |-> hit]
        full == s = "out" /\ Len(file) >= FileLines
    IN
    /\ printed < MaxLines /\ writing[s] = NoLine
    /\ life # "gone"
    /\ printed' = printed + 1
    /\ writing' = [writing EXCEPT ![s] = line]
    /\ file' = IF s # "out" THEN file ELSE Append(IF full THEN <<>> ELSE file, line)
    /\ Owes(line)
    /\ gap' = gap \cup (IF full THEN Hidden ELSE {})
    /\ UNCHANGED <<life, chan, wait, follow>>

(* ... and its broadcast.                                                  *)
Send(s) ==
    /\ writing[s] # NoLine
    /\ chan' = Append(chan, writing[s])
    /\ writing' = [writing EXCEPT ![s] = NoLine]
    /\ UNCHANGED <<life, file, printed, wait, follow, history>>

(* A line of another process: it takes a place on the channel.             *)
OtherLine(s) ==
    /\ printed < MaxLines
    /\ printed' = printed + 1
    /\ chan' = Append(chan, [id |-> printed + 1, proc |-> "other", stream |-> s, hit |-> TRUE])
    /\ UNCHANGED <<life, file, writing, wait, follow, history>>

(* The leader exits by itself; its group may go on printing.               *)
Exit ==
    /\ life = "running"
    /\ life' = "exited"
    /\ UNCHANGED <<file, writing, chan, printed, wait, follow, history>>

(* A teardown joins the capture tasks, or aborts one that has not sent the *)
(* line it has just written.                                               *)
Aborted == IF \E s \in Streams : writing[s] # NoLine THEN {"abort"} ELSE {}
Joined == writing' = [s \in Streams |-> NoLine]

Stop ==
    /\ life = "running" /\ life' = "exited"
    /\ Joined /\ gap' = gap \cup Aborted
    /\ UNCHANGED <<file, chan, printed, wait, follow, due>>

(* stop-all ends by forgetting every record; the log files stay.           *)
StopAll ==
    /\ life # "gone" /\ life' = "gone"
    /\ Joined /\ gap' = gap \cup Aborted
    /\ UNCHANGED <<file, chan, printed, wait, follow, due>>

(* A respawn rotates the logs or truncates them; a Run does the latter.    *)
Respawn ==
    /\ life # "running" /\ life' = "running"
    /\ Joined /\ gap' = gap \cup Aborted \cup Hidden
    /\ file' = <<>>
    /\ UNCHANGED <<chan, printed, wait, follow, due>>

(* An automatic restart that fails leaves a notice on the channel alone.   *)
RespawnFails(hit) ==
    LET line == [id |-> printed + 1, proc |-> "target", stream |-> "out", hit |-> hit] IN
    /\ life = "exited" /\ printed < MaxLines
    /\ Joined /\ gap' = gap \cup Aborted \cup Hidden
    /\ file' = <<>>
    /\ printed' = printed + 1
    /\ chan' = Append(chan, line) /\ Owes(line)
    /\ UNCHANGED <<life, wait, follow>>

-----------------------------------------------------------------------------
(* Request::Wait                                                           *)

Answered == {"match", "exited", "timeout", "notfound", "error"}
To(pc) == wait' = [wait EXCEPT !.pc = pc]

(* has_process finds a name or an id.                                      *)
Ask(req) ==
    /\ wait.pc = "idle" /\ follow.pc = "idle"
    /\ wait' = [wait EXCEPT !.req = req,
                            !.pc = IF life = "gone" THEN "notfound" ELSE "found"]
    /\ UNCHANGED <<process, follow, history>>

Subscribe ==
    /\ wait.pc = "found"
    /\ wait' = [wait EXCEPT !.pc = "subscribed", !.pos = Len(chan) + 1]
    /\ due' = {l \in {file[i] : i \in DOMAIN file} \cup {writing[s] : s \in Streams} : l.hit}
    /\ gap' = {}
    /\ UNCHANGED <<process, follow>>

(* The log's past: the file named after the target as it was written, so   *)
(* an id names no file.                                                    *)
Past == IF wait.req.by = "name" THEN {file[i] : i \in DOMAIN file} ELSE {}

History ==
    /\ wait.pc = "subscribed"
    /\ To(IF wait.req.until /\ \E l \in Past : l.hit THEN "match" ELSE "checked")
    /\ UNCHANGED <<process, follow, history>>

(* wait_for up to its loop.                                                *)
Begin_Subscribes ==
    /\ wait.pc = "checked"
    /\ wait' = [wait EXCEPT !.pos = Len(chan) + 1,
                  !.pc = IF wait.req.exit /\ life = "exited" THEN "exited" ELSE "waiting"]
    /\ UNCHANGED <<process, follow, history>>
Begin ==
    /\ wait.pc = "checked"
    /\ To(IF wait.req.until /\ wait.req.badRegex THEN "error"
          ELSE IF wait.req.exit /\ life = "exited" THEN "exited"
          ELSE "waiting")
    /\ UNCHANGED <<process, follow, history>>

(* output_rx.recv(): the oldest line the channel still has for a reader.   *)
Unread(r) == r.pos <= Len(chan)
Lagged(r) == r.pos + Capacity <= Len(chan)
Oldest == Len(chan) - Capacity + 1

(* Lines carry the process's name, which an id never equals.               *)
Matches_UnlessExit(l) == l.proc = "target" /\ wait.req.by = "name" /\ ~wait.req.exit /\ l.hit
Matches(l) == l.proc = "target" /\ wait.req.by = "name" /\ wait.req.until /\ l.hit

Recv ==
    /\ wait.pc = "waiting" /\ Unread(wait)
    /\ IF Lagged(wait)
       THEN wait' = [wait EXCEPT !.pos = Oldest] /\ gap' = gap \cup {"lag"}
       ELSE /\ wait' = [wait EXCEPT !.pos = @ + 1,
                          !.pc = IF Matches(chan[wait.pos]) THEN "match" ELSE @]
            /\ gap' = gap
    /\ UNCHANGED <<process, follow, due>>

(* The exit poll, and the sleep around the whole loop.                     *)
Poll ==
    /\ wait.pc = "waiting" /\ wait.req.exit /\ life = "exited"
    /\ To("exited")
    /\ UNCHANGED <<process, follow, history>>

Timeout_PatternOnly ==
    /\ wait.pc = "waiting" /\ wait.req.until
    /\ To("timeout")
    /\ UNCHANGED <<process, follow, history>>
Timeout ==
    /\ wait.pc = "waiting"
    /\ To("timeout")
    /\ UNCHANGED <<process, follow, history>>

-----------------------------------------------------------------------------
(* handle_follow_stream.  It shares nothing with a Wait, so a behaviour    *)
(* has one reader or the other.                                            *)

(* execute_follow asks for all processes when it was given no target.      *)
Filter(cmd) == [cmd EXCEPT !.all = cmd.all \/ cmd.target = "none"]

(* Lines carry the process's name, which an id never equals.               *)
Passes_StdoutOnly(l, f) ==
    /\ ~f.all /\ f.target # "none" => f.target = "name" /\ l.proc = "target"
    /\ l.stream = IF f.stderr THEN "err" ELSE "out"
Passes(l, f) ==
    /\ ~f.all /\ f.target # "none" => f.target = "name" /\ l.proc = "target"
    /\ f.stderr => l.stream = "err"
    /\ ~f.stderr /\ (~f.all \/ f.target # "none") => l.stream = "out"

Follow(cmd, max) ==
    /\ follow.pc = "idle" /\ wait.pc = "idle"
    /\ follow' = [pc |-> "following", cmd |-> cmd, max |-> max,
                  from |-> Len(chan) + 1, pos |-> Len(chan) + 1, got |-> <<>>]
    /\ gap' = {}
    /\ UNCHANGED <<process, wait, due>>

(* A line is sent on or skipped; max_lines ends the stream.                *)
Taken(f, l) ==
    LET got == IF Passes(l, Filter(f.cmd)) THEN Append(f.got, f.pos) ELSE f.got IN
    [f EXCEPT !.pos = @ + 1, !.got = got,
              !.pc = IF got # f.got /\ Len(got) >= f.max THEN "ended" ELSE @]

FollowRecv ==
    /\ follow.pc = "following" /\ Unread(follow)
    /\ IF Lagged(follow)
       THEN follow' = [follow EXCEPT !.pos = Oldest] /\ gap' = gap \cup {"lag"}
       ELSE follow' = Taken(follow, chan[follow.pos]) /\ gap' = gap
    /\ UNCHANGED <<process, wait, due>>

(* The timeout, or a client that is gone.                                  *)
FollowOver ==
    /\ follow.pc = "following"
    /\ follow' = [follow EXCEPT !.pc = "ended"]
    /\ UNCHANGED <<process, wait, history>>

-----------------------------------------------------------------------------
Process ==
    \/ \E s \in Streams, hit \in BOOLEAN : PrintLine(s, hit)
    \/ \E s \in Streams : Send(s) \/ OtherLine(s)
    \/ Exit \/ Stop \/ StopAll \/ Respawn
    \/ \E hit \in BOOLEAN : RespawnFails(hit)

Reader ==
    \/ \E req \in Requests : Ask(req)
    \/ Subscribe \/ History \/ Begin \/ Recv \/ Poll \/ Timeout
    \/ \E cmd \in Follows, max \in {1, MaxLines} : Follow(cmd, max)
    \/ FollowRecv \/ FollowOver

Next == Process \/ Reader

(* A capture task sends what it wrote; a connection task that can go on is *)
(* polled, and its interval ticks.  Nothing hurries a process, a client or *)
(* a timeout.                                                              *)
Fairness ==
    /\ \A s \in Streams : WF_vars(Send(s))
    /\ WF_vars(Subscribe) /\ WF_vars(History) /\ WF_vars(Begin)
    /\ WF_vars(Recv) /\ WF_vars(Poll)

Spec == Init /\ [][Next]_vars /\ Fairness

-----------------------------------------------------------------------------
Looking == wait.pc = "waiting" /\ wait.req.until /\ wait.req.by = "name"

AllAhead == \A l \in due : Ahead(l)

(* No matching line falls between the past and the live output: of the     *)
(* lines that were in the log when a wait subscribed, or that were printed *)
(* since, those that match are still ahead of it as long as it is looking, *)
(* also when the file was rotated or the process restarted meanwhile.  A   *)
(* line is lost to it in three ways only: the channel dropped it, its      *)
(* capture task was aborted between write and send, or it had been sent    *)
(* before the subscription and its file was replaced before it was read    *)
(* (subscribing first does not help that one).                             *)
NoGap == Looking /\ gap = {} => AllAhead

(* What the arguments of a follow ask for: without --all and with a target *)
(* that process, else all; --stderr means stderr instead of stdout, and    *)
(* without a target both are shown.                                        *)
Wanted(cmd) ==
    (IF cmd.all \/ cmd.target = "none" THEN Procs ELSE {"target"}) \X
    (CASE cmd.stderr -> {"err"} [] ~cmd.stderr /\ cmd.target = "none" -> Streams
       [] OTHER -> {"out"})

Exact ==
    LET Sent == {follow.got[i] : i \in DOMAIN follow.got}
        Fits(l) == <<l.proc, l.stream>> \in Wanted(follow.cmd)
    IN  follow.pc # "idle" =>
        /\ \A i, j \in DOMAIN follow.got : i < j => follow.got[i] < follow.got[j]
        /\ Len(follow.got) <= follow.max
        /\ \A p \in Sent : p < follow.pos /\ Fits(chan[p])
        /\ "lag" \notin gap =>
              \A p \in follow.from..(follow.pos - 1) : Fits(chan[p]) => p \in Sent

(* A follow stream sends lines in the order of the channel, none twice,    *)
(* and none but those its arguments ask for; unless it lagged it leaves    *)
(* out no other, and it ends with its last line or before.  An id without  *)
(* --all is excepted: it passes no line, though the help text offers one.  *)
FollowExact == follow.cmd.target # "id" \/ follow.cmd.all => Exact

(* A matching line is reported: a wait that is owed one ends, unless it    *)
(* was lost in one of the three ways.                                      *)
FoundIfLogged == (Looking /\ due # {}) ~> (wait.pc # "waiting" \/ gap # {})

(* Every Wait is answered once its timeout passes, whatever became of the  *)
(* process: a record that stop-all cleared included.                       *)
WaitEnds ==
    WF_vars(Timeout) => (wait.pc = "found" ~> wait.pc \in Answered)

=============================================================================

----------------------------- MODULE Supervisor -----------------------------
(***************************************************************************)
(* The daemon's supervisor: the actor of src/src/daemon/actor.rs together  *)
(* with the ProcessManager it owns (src/src/daemon/process_manager.rs).    *)
(*                                                                         *)
(* The actor handles one command at a time to completion, so each handler  *)
(* is one action.  What runs beside it is in flight here: teardown tasks   *)
(* (tasks), the StopFinished they send (finished), restart timers that     *)
(* sleep and then send AutoRestart (timers) and the WatchRestart events of *)
(* file watchers (events).  Every one of those messages is sent by a task  *)
(* of its own after an arbitrary delay, so although the mailbox is a FIFO  *)
(* they reach the actor in any order: each is a set.  A client request is  *)
(* issued and handled in one action; until it is handled it changes        *)
(* nothing.                                                                *)
(*                                                                         *)
(* The operating system's part is a leader that may exit at any moment,    *)
(* unseen until a handler peeks (LeaderExit), and the outcome of a         *)
(* teardown (TeardownDone), whose steps are module Teardown.               *)
(***************************************************************************)
EXTENDS Integers, FiniteSets

CONSTANTS
    Names,          \* process names clients use
    Clients,        \* connections, each with at most one request outstanding
    Policies,       \* restart policies a Run may carry
    ExplicitPorts,  \* ports a Run may ask for
    PortMin, PortMax,   \* AUTO_PORT_MIN, AUTO_PORT_MAX
    Slots,          \* tells apart WatchRestart events of one watcher in flight
    Env,            \* what the environment may do: a subset of EnvActions
    MaxGen          \* bound on spawn attempts

Unlimited == -1     \* RestartPolicy.max_restarts = None
NoPort == 0
EnvActions == {"watch", "spawnfail", "watchfail", "proxy", "stopall"}
Modes == {"always", "on-failure", "never"}
AutoPorts == PortMin..PortMax

ASSUME NamesAssumption == IsFiniteSet(Names)
ASSUME ClientsAssumption == IsFiniteSet(Clients)
ASSUME PoliciesAssumption ==
    Policies \subseteq [mode : Modes, max : Nat \cup {Unlimited}]
ASSUME PortsAssumption ==
    /\ PortMin \in Nat \ {0} /\ PortMax \in Nat /\ PortMin <= PortMax
    /\ ExplicitPorts \subseteq Nat \ {0}
ASSUME BoundsAssumption == MaxGen \in Nat /\ Env \subseteq EnvActions

VARIABLES
    procs,      \* ProcessManager.processes
    nextGen,    \* ProcessManager.next_generation
    tasks,      \* teardown tasks running
    finished,   \* StopFinished messages in flight
    timers,     \* restart timers sleeping, or their AutoRestart in flight
    events,     \* WatchRestart messages in flight
    batch,      \* ProcessManagerActor.stop_all
    clients,    \* what each client waits for, or the last answer it got
    published,  \* the port map in the proxy's watch channel
    proxyOn,    \* port_allocator.proxy_enabled
    nextPort,   \* port_allocator.next_auto_port
    wantDown    \* history: names whose latest request was a stop

vars == <<procs, nextGen, tasks, finished, timers, events, batch, clients,
          published, proxyOn, nextPort, wantDown>>

-----------------------------------------------------------------------------
(* Records                                                                 *)

Codes == {"ok", "fail"}           \* Some(0); any other code or a signal
Respawns == {"Manual", "Auto", "Watch"}
Pending == {"Stop", "Restart", "StopAll"}
Answers == {"idle", "ok", "error", "stopped", "superseded", "allstopped"}

(* Life is life with its fields.  leader is the leader's exit: for Running *)
(* what the kernel knows and nobody has looked at, for Exited the code,    *)
(* for Stopping leader_exit.  inc says that the record owns an Incarnation.*)
Records ==
    [life : {"Absent", "Running", "Exited", "Stopping"},
     leader : {"alive"} \cup Codes,
     why : {"none", "Natural", "Manual", "Exhausted", "SpawnFailed"},
     inc : BOOLEAN, timer : BOOLEAN,
     then : {"none", "Park"} \cup Respawns,
     waiters : SUBSET (Clients \X {"Stop", "Restart"}),
     gen : Nat, count : Nat, policy : [mode : Modes, max : Nat \cup {Unlimited}],
     watch : BOOLEAN, handle : BOOLEAN, port : Nat]

NoProc == [life |-> "Absent", leader |-> "ok", why |-> "none", inc |-> FALSE,
           timer |-> FALSE, then |-> "none", waiters |-> {}, gen |-> 0,
           count |-> 0, policy |-> [mode |-> "never", max |-> Unlimited],
           watch |-> FALSE, handle |-> FALSE, port |-> NoPort]

NoBatch == [on |-> FALSE, remaining |-> {}, replies |-> {}]

HoldsPort(p) == p.life \in {"Running", "Stopping"}
LeaderAlive(p) == p.life = "Running" \/ (p.life = "Stopping" /\ p.leader = "alive")

RunningPorts(ps) == [n \in Names |-> IF LeaderAlive(ps[n]) THEN ps[n].port ELSE NoPort]

-----------------------------------------------------------------------------
(* ProcessManager                                                          *)

(* A Running leader the kernel reports as exited.                          *)
Unseen(p) == p.life = "Running" /\ p.leader # "alive"

SeenExit_Reaps(p) ==
    [p EXCEPT !.life = "Exited", !.why = "Natural", !.timer = FALSE, !.inc = FALSE]
SeenExit(p) == [p EXCEPT !.life = "Exited", !.why = "Natural", !.timer = FALSE]

(* refresh_exit_states, and whether it changed anything.                   *)
Refreshed(ps) == [n \in Names |-> IF Unseen(ps[n]) THEN SeenExit(ps[n]) ELSE ps[n]]
ExitSeen(ps) == \E n \in Names : Unseen(ps[n])

(* auto_assign_port: the first port from nextPort on, cyclically, that no  *)
(* record holds and that can be bound; NoPort is NoFreeAutoPort.           *)
AutoAssign(free) ==
    LET size == PortMax - PortMin + 1
        assigned == {procs[n].port : n \in {m \in Names : HoldsPort(procs[m])}}
        Offset(p) == (p - nextPort + size) % size
    IN  IF free \subseteq assigned THEN NoPort
        ELSE CHOOSE p \in free \ assigned :
                \A q \in free \ assigned : Offset(p) <= Offset(q)

ShouldRestart(p) ==
    \/ p.policy.mode = "always"
    \/ p.policy.mode = "on-failure" /\ p.leader # "ok"

(* classify_restart_candidates                                             *)
Candidate_FailuresOnly(p) ==
    p.life = "Exited" /\ p.why = "Natural" /\ ~p.timer /\ ShouldRestart(p) /\ p.leader # "ok"
Candidate(p) == p.life = "Exited" /\ p.why = "Natural" /\ ~p.timer /\ ShouldRestart(p)
OutOfRestarts_OffByOne(p) == p.policy.max # Unlimited /\ p.count > p.policy.max
OutOfRestarts(p) == p.policy.max # Unlimited /\ p.count >= p.policy.max

(* setup_watcher on a fresh incarnation: without a watch config it does    *)
(* nothing; when it fails it clears the config.                            *)
WatcherSet(p, ok) == [p EXCEPT !.watch = p.watch /\ ok, !.handle = p.watch /\ ok]

NewRecord(pol, w, port, ok) ==
    WatcherSet([NoProc EXCEPT !.life = "Running", !.leader = "alive", !.inc = TRUE,
                !.gen = nextGen + 1, !.policy = pol, !.watch = w, !.port = port], ok)

(* The outcomes of spawn_incarnation and of create_watcher.                *)
SpawnResults == IF "spawnfail" \in Env THEN BOOLEAN ELSE {TRUE}
WatchResults == IF "watchfail" \in Env THEN BOOLEAN ELSE {TRUE}

(* Spawn attempts that what has already happened may still cause.  The     *)
(* environment stays below MaxGen, so that no handler of the actor is ever *)
(* held back by the bound.                                                 *)
MayRespawn(p) ==
    \/ p.life = "Stopping" /\ p.then \in Respawns
    \/ p.life = "Exited" /\ p.why = "Natural"
    \/ Unseen(p)
Room == nextGen + Cardinality({n \in Names : MayRespawn(procs[n])}) < MaxGen

-----------------------------------------------------------------------------
(* Shared pieces of the handlers                                           *)

Free(c) == clients[c] \notin Pending
Answer(c, a) == clients' = [clients EXCEPT ![c] = a]
Publish(ps) == published' = RunningPorts(ps)
PublishIf_Never(b, ps) == published' = published
PublishIf(b, ps) == published' = IF b THEN RunningPorts(ps) ELSE published

(* start_teardown on the record: the task takes the incarnation.           *)
TornDown(p, then, ws) ==
    [p EXCEPT !.life = "Stopping", !.leader = IF p.life = "Running" THEN "alive" ELSE p.leader,
              !.why = "none", !.inc = FALSE, !.timer = FALSE, !.then = then,
              !.waiters = ws, !.handle = FALSE]

(* start_teardown's task, from the record it is started for.               *)
TaskOf(n, p) == [name |-> n, gen |-> p.gen,
                 leader |-> IF p.life = "Running" THEN "alive" ELSE p.leader]

(* Joining a stop in flight: the latest request decides what follows it.   *)
Joined_DropsWaiters(p, then, w) == [p EXCEPT !.then = then, !.waiters = {w}]
Joined(p, then, w) == [p EXCEPT !.then = then, !.waiters = @ \cup {w}]

(* A stop-all overrides whatever was to follow a stop in flight, and waits *)
(* for everything that owns an incarnation or is being torn down.          *)
ParkedNext_Forgotten(p) == p
ParkedNext(p) == [p EXCEPT !.then = "Park"]
Owned(ps) == {n \in Names : ps[n].inc}
Covered_OwnedOnly(ps) == Owned(ps)
Covered(ps) == Owned(ps) \cup {n \in Names : ps[n].life = "Stopping"}

(* The record finish_teardown leaves before it looks at then.              *)
Parked_StaysNatural(p, code) ==
    [p EXCEPT !.life = "Exited", !.leader = code, !.why = "Natural", !.then = "none",
              !.waiters = {}]
Parked(p, code) ==
    [p EXCEPT !.life = "Exited", !.leader = code, !.why = "Manual", !.then = "none",
              !.waiters = {}]

(* respawn, of the actor and of the ProcessManager: a failed one keeps the *)
(* generation of the incarnation before it.                                *)
Respawned_SameGen(p, reason, ok, wok) ==
    WatcherSet([p EXCEPT !.life = "Running", !.leader = "alive", !.why = "none",
                         !.inc = TRUE], wok)
Respawned(p, reason, ok, wok) ==
    LET q == [p EXCEPT !.count = IF reason = "Manual" THEN 0 ELSE @]
    IN  IF ok
        THEN WatcherSet([q EXCEPT !.life = "Running", !.leader = "alive", !.why = "none",
                                  !.inc = TRUE, !.gen = nextGen + 1], wok)
        ELSE [q EXCEPT !.why = "SpawnFailed"]

-----------------------------------------------------------------------------
Init ==
    /\ procs = [n \in Names |-> NoProc]
    /\ nextGen = 0
    /\ tasks = {} /\ finished = {} /\ timers = {} /\ events = {}
    /\ batch = NoBatch
    /\ clients = [c \in Clients |-> "idle"]
    /\ published = [n \in Names |-> NoPort]
    /\ proxyOn = FALSE /\ nextPort = PortMin
    /\ wantDown = {}

(* Spawn and Restart while a stop-all is in progress.                      *)
Refused(c) ==
    /\ Free(c) /\ batch.on
    /\ Answer(c, "error")
    /\ UNCHANGED <<procs, nextGen, tasks, finished, timers, events, batch, published,
                   proxyOn, nextPort, wantDown>>

(* The handler of Spawn, for names that pass its checks.  Errors (a taken  *)
(* name, no free port, a failed spawn) come after the port was assigned.   *)
NextPort_NoWrap(port, free) ==
    LET p == AutoAssign(free)
    IN  IF ~proxyOn \/ port # NoPort \/ p = NoPort THEN nextPort
        ELSE IF p > PortMax THEN PortMin ELSE p + 1
NextPort(port, free) ==
    LET p == AutoAssign(free)
    IN  IF ~proxyOn \/ port # NoPort \/ p = NoPort THEN nextPort
        ELSE IF p >= PortMax THEN PortMin ELSE p + 1

ResolvedPort(port, free) == IF proxyOn /\ port = NoPort THEN AutoAssign(free) ELSE port

SpawnError(c, n, port, free) ==
    /\ Free(c) /\ ~batch.on
    /\ \/ procs[n].life # "Absent"
       \/ "spawnfail" \in Env
       \/ proxyOn /\ port = NoPort /\ AutoAssign(free) = NoPort
    /\ nextPort' = NextPort(port, free)
    /\ Answer(c, "error")
    /\ Publish(procs)
    /\ UNCHANGED <<procs, nextGen, tasks, finished, timers, events, batch, proxyOn, wantDown>>

SpawnOk(c, n, pol, w, port, free, wok) ==
    LET ps == [procs EXCEPT ![n] = NewRecord(pol, w, ResolvedPort(port, free), wok)]
    IN  /\ Free(c) /\ ~batch.on /\ Room
        /\ procs[n].life = "Absent"
        /\ proxyOn /\ port = NoPort => AutoAssign(free) # NoPort
        /\ nextPort' = NextPort(port, free)
        /\ procs' = ps
        /\ nextGen' = nextGen + 1
        /\ Answer(c, "ok")
        /\ Publish(ps)
        /\ wantDown' = wantDown \ {n}
        /\ UNCHANGED <<tasks, finished, timers, events, batch, proxyOn>>

(* The handler of Stop: four cases of the record it finds.                 *)
Stop(c, n) ==
    LET ps == Refreshed(procs)
        p == ps[n]
    IN  /\ Free(c)
        /\ \/ /\ p.life = "Absent"
              /\ procs' = ps /\ Answer(c, "error")
              /\ UNCHANGED <<tasks, wantDown>>
           \/ /\ p.life = "Stopping"
              /\ procs' = [ps EXCEPT ![n] = Joined(p, "Park", <<c, "Stop">>)]
              /\ Answer(c, "Stop")
              /\ wantDown' = wantDown \cup {n}
              /\ UNCHANGED tasks
           \/ /\ p.life = "Exited" /\ ~p.inc
              /\ procs' = [ps EXCEPT ![n] = [p EXCEPT !.handle = FALSE]]
              /\ Answer(c, "stopped")
              /\ wantDown' = wantDown \cup {n}
              /\ UNCHANGED tasks
           \/ /\ p.inc
              /\ procs' = [ps EXCEPT ![n] = TornDown(p, "Park", {<<c, "Stop">>})]
              /\ tasks' = tasks \cup {TaskOf(n, p)}
              /\ Answer(c, "Stop")
              /\ wantDown' = wantDown \cup {n}
        /\ UNCHANGED <<nextGen, finished, timers, events, batch, published, proxyOn, nextPort>>

(* The handler of Restart.                                                 *)
Restart(c, n) ==
    LET ps == Refreshed(procs)
        p == ps[n]
    IN  /\ Free(c) /\ ~batch.on
        /\ \/ /\ p.life = "Absent"
              /\ procs' = ps /\ Answer(c, "error")
              /\ UNCHANGED <<tasks, wantDown>>
           \/ /\ p.life = "Stopping" /\ Room
              /\ procs' = [ps EXCEPT ![n] = Joined(p, "Manual", <<c, "Restart">>)]
              /\ Answer(c, "Restart")
              /\ wantDown' = wantDown \ {n}
              /\ UNCHANGED tasks
           \/ /\ p.life \in {"Running", "Exited"} /\ Room
              /\ procs' = [ps EXCEPT ![n] = TornDown(p, "Manual", {<<c, "Restart">>})]
              /\ tasks' = tasks \cup {TaskOf(n, p)}
              /\ Answer(c, "Restart")
              /\ wantDown' = wantDown \ {n}
        /\ UNCHANGED <<nextGen, finished, timers, events, batch, published, proxyOn, nextPort>>

(* handle_stop_all: a second request joins the batch; the first one tears  *)
(* down what has an incarnation and parks what is being torn down.         *)
StopAllJoin_DropsReply(c) ==
    /\ Free(c) /\ "stopall" \in Env /\ batch.on
    /\ Answer(c, "StopAll")
    /\ UNCHANGED <<procs, nextGen, tasks, finished, timers, events, batch, published,
                   proxyOn, nextPort, wantDown>>
StopAllJoin(c) ==
    /\ Free(c) /\ "stopall" \in Env /\ batch.on
    /\ batch' = [batch EXCEPT !.replies = @ \cup {c}]
    /\ Answer(c, "StopAll")
    /\ UNCHANGED <<procs, nextGen, tasks, finished, timers, events, published, proxyOn,
                   nextPort, wantDown>>

StopAllBegin(c) ==
    LET ps == Refreshed(procs)
        torn == [n \in Names |->
                   IF n \in Owned(ps) THEN TornDown(ps[n], "Park", {})
                   ELSE IF n \in Covered(ps) THEN ParkedNext(ps[n])
                   ELSE ps[n]]
        none == Covered(ps) = {}
        left == IF none THEN [n \in Names |-> NoProc] ELSE torn
    IN  /\ Free(c) /\ "stopall" \in Env /\ ~batch.on
        /\ tasks' = tasks \cup {TaskOf(n, ps[n]) : n \in Owned(ps)}
        /\ procs' = left
        /\ batch' = IF none THEN NoBatch
                    ELSE [on |-> TRUE, remaining |-> Covered(ps), replies |-> {c}]
        /\ Answer(c, IF none THEN "allstopped" ELSE "StopAll")
        /\ Publish(left)
        /\ wantDown' = IF none THEN {} ELSE {n \in Names : procs[n].life # "Absent"}
        /\ UNCHANGED <<nextGen, finished, timers, events, proxyOn, nextPort>>

(* build_status publishes only if it saw an exit; IsProcessExited always.  *)
Status ==
    /\ procs' = Refreshed(procs)
    /\ PublishIf(ExitSeen(procs), procs')
    /\ UNCHANGED <<nextGen, tasks, finished, timers, events, batch, clients, proxyOn,
                   nextPort, wantDown>>

IsProcessExited ==
    /\ procs' = Refreshed(procs)
    /\ Publish(procs')
    /\ UNCHANGED <<nextGen, tasks, finished, timers, events, batch, clients, proxyOn,
                   nextPort, wantDown>>

EnableProxy ==
    /\ "proxy" \in Env /\ ~proxyOn
    /\ proxyOn' = TRUE
    /\ Publish(procs)
    /\ UNCHANGED <<procs, nextGen, tasks, finished, timers, events, batch, clients,
                   nextPort, wantDown>>

(* One tick of the 200ms interval: refresh, then schedule_restarts.        *)
Tick ==
    LET ps == Refreshed(procs)
        cands == IF batch.on THEN {} ELSE {n \in Names : Candidate(ps[n])}
        exhausted == {n \in cands : OutOfRestarts(ps[n])}
        restartable == cands \ exhausted
        marked == [n \in Names |->
                     IF n \in exhausted THEN [ps[n] EXCEPT !.why = "Exhausted"]
                     ELSE IF n \in restartable THEN [ps[n] EXCEPT !.timer = TRUE]
                     ELSE ps[n]]
    IN  /\ procs' = marked
        /\ timers' = timers \cup {[name |-> n, gen |-> ps[n].gen] : n \in restartable}
        /\ PublishIf(ExitSeen(procs) \/ exhausted # {}, marked)
        /\ UNCHANGED <<nextGen, tasks, finished, events, batch, clients, proxyOn, nextPort,
                       wantDown>>

(* The handler of AutoRestart.                                             *)
AutoRestart(t) ==
    LET n == t.name
        p == procs[n]
        acts == ~batch.on /\ p.gen = t.gen /\ p.life = "Exited" /\ p.why = "Natural" /\ p.timer
    IN  /\ t \in timers
        /\ timers' = timers \ {t}
        /\ procs' = IF acts
                    THEN [procs EXCEPT ![n] =
                            TornDown([p EXCEPT !.count = @ + 1], "Auto", {})]
                    ELSE procs
        /\ tasks' = IF acts THEN tasks \cup {TaskOf(n, p)} ELSE tasks
        /\ UNCHANGED <<nextGen, finished, events, batch, clients, published, proxyOn,
                       nextPort, wantDown>>

(* The handler of WatchRestart.                                            *)
WatchRestart_WhileStopping(e) ==
    LET n == e.name
        p == procs[n]
        acts == ~batch.on /\ p.gen = e.gen /\ (p.life = "Exited" => p.why # "Manual")
    IN  /\ e \in events
        /\ acts => Room
        /\ events' = events \ {e}
        /\ procs' = IF acts
                    THEN [procs EXCEPT ![n] = TornDown([p EXCEPT !.count = 0], "Watch", {})]
                    ELSE procs
        /\ tasks' = IF acts THEN tasks \cup {TaskOf(n, p)} ELSE tasks
        /\ UNCHANGED <<nextGen, finished, timers, batch, clients, published, proxyOn,
                       nextPort, wantDown>>
WatchRestart(e) ==
    LET n == e.name
        p == procs[n]
        acts == /\ ~batch.on /\ p.gen = e.gen
                /\ p.life = "Running" \/ (p.life = "Exited" /\ p.why # "Manual")
    IN  /\ e \in events
        /\ acts => Room
        /\ events' = events \ {e}
        /\ procs' = IF acts
                    THEN [procs EXCEPT ![n] = TornDown([p EXCEPT !.count = 0], "Watch", {})]
                    ELSE procs
        /\ tasks' = IF acts THEN tasks \cup {TaskOf(n, p)} ELSE tasks
        /\ UNCHANGED <<nextGen, finished, timers, batch, clients, published, proxyOn,
                       nextPort, wantDown>>

(* finish_teardown's answer to a client, given its waiter on the record.   *)
WaiterAnswer_IgnoresStop(c, p, ok) ==
    IF <<c, "Stop">> \in p.waiters THEN "stopped" ELSE IF ok THEN "ok" ELSE "error"
WaiterAnswer(c, p, ok) ==
    IF <<c, "Stop">> \in p.waiters THEN "stopped"
    ELSE IF p.then = "Park" THEN "superseded" ELSE IF ok THEN "ok" ELSE "error"

(* The handler of StopFinished: finish_teardown.                           *)
StopFinished(m, ok, wok) ==
    LET n == m.name
        p == procs[n]
        respawns == p.then \in Respawns
        q == IF respawns THEN Respawned(Parked(p, m.code), p.then, ok, wok)
             ELSE Parked(p, m.code)
        remaining == batch.remaining \ {n}
        done == batch.on /\ remaining = {}
        ps == IF done THEN [k \in Names |-> NoProc] ELSE [procs EXCEPT ![n] = q]
        mine == p.gen = m.gen     \* NoProc has no generation a message carries
    IN  /\ m \in finished
        /\ finished' = finished \ {m}
        /\ ~respawns => ok
        /\ procs' = IF mine THEN ps ELSE procs
        /\ nextGen' = IF mine /\ respawns THEN nextGen + 1 ELSE nextGen
        /\ batch' = IF ~mine THEN batch
                    ELSE IF done THEN NoBatch ELSE [batch EXCEPT !.remaining = remaining]
        /\ clients' = [c \in Clients |->
                         IF mine /\ (\E k \in {"Stop", "Restart"} : <<c, k>> \in p.waiters)
                         THEN WaiterAnswer(c, p, ok)
                         ELSE IF mine /\ done /\ c \in batch.replies THEN "allstopped"
                         ELSE clients[c]]
        /\ PublishIf(mine, ps)
        /\ wantDown' = IF mine /\ done THEN {} ELSE wantDown
        /\ UNCHANGED <<tasks, timers, events, proxyOn, nextPort>>

-----------------------------------------------------------------------------
(* What runs beside the actor                                              *)

(* A teardown task ends: with the leader's code if it had exited before.   *)
TeardownDone(t, code) ==
    /\ t \in tasks
    /\ t.leader \in Codes => code = t.leader
    /\ tasks' = tasks \ {t}
    /\ finished' = finished \cup {[name |-> t.name, gen |-> t.gen, code |-> code]}
    /\ UNCHANGED <<procs, nextGen, timers, events, batch, clients, published, proxyOn,
                   nextPort, wantDown>>

(* The leader of a running incarnation exits by itself.                    *)
LeaderExit(n, code) ==
    /\ procs[n].life = "Running" /\ procs[n].leader = "alive" /\ Room
    /\ procs' = [procs EXCEPT ![n] = [@ EXCEPT !.leader = code]]
    /\ UNCHANGED <<nextGen, tasks, finished, timers, events, batch, clients, published,
                   proxyOn, nextPort, wantDown>>

(* A debounced file change of a live watcher becomes a WatchRestart.       *)
FileChange(n, s) ==
    /\ "watch" \in Env /\ procs[n].handle
    /\ events' = events \cup {[name |-> n, gen |-> procs[n].gen, slot |-> s]}
    /\ UNCHANGED <<procs, nextGen, tasks, finished, timers, batch, clients, published,
                   proxyOn, nextPort, wantDown>>

-----------------------------------------------------------------------------
RunPorts == ExplicitPorts \cup {NoPort}
Bindable == IF proxyOn THEN SUBSET AutoPorts ELSE {{}}
WatchFlags == IF "watch" \in Env THEN BOOLEAN ELSE {FALSE}

Spawn(c) ==
    \E n \in Names, port \in RunPorts, free \in Bindable :
        \/ SpawnError(c, n, port, free)
        \/ \E pol \in Policies, w \in WatchFlags, wok \in WatchResults :
            SpawnOk(c, n, pol, w, port, free, wok)

FinishTeardown(n) ==
    \E m \in finished, ok \in SpawnResults, wok \in WatchResults :
        m.name = n /\ StopFinished(m, ok, wok)
FireTimer(n) == \E t \in timers : t.name = n /\ AutoRestart(t)
EndTeardown(n) == \E t \in tasks, code \in Codes : t.name = n /\ TeardownDone(t, code)

Next ==
    \/ \E c \in Clients :
        \/ Spawn(c) \/ Refused(c) \/ StopAllJoin(c) \/ StopAllBegin(c)
        \/ \E n \in Names : Stop(c, n) \/ Restart(c, n)
    \/ Status \/ IsProcessExited \/ EnableProxy \/ Tick
    \/ \E e \in events : WatchRestart(e)
    \/ \E n \in Names : \/ FireTimer(n) \/ FinishTeardown(n) \/ EndTeardown(n)
                        \/ \E code \in Codes : LeaderExit(n, code)
                        \/ \E s \in Slots : FileChange(n, s)

Spec == Init /\ [][Next]_vars

(* The interval ticks; a task that was spawned runs, teardown is bounded   *)
(* by its own timeouts, and the FIFO mailbox delivers what tasks sent.     *)
(* Clients, leaders and files owe nothing.                                 *)
Fairness ==
    /\ WF_vars(Tick)
    /\ \A n \in Names :
        WF_vars(FireTimer(n)) /\ WF_vars(EndTeardown(n)) /\ WF_vars(FinishTeardown(n))

FairSpec == Spec /\ Fairness

-----------------------------------------------------------------------------
(* Properties                                                              *)

(* Every variable keeps the type of the Rust field it models.              *)
TypeOK ==
    /\ procs \in [Names -> Records]
    /\ nextGen \in Nat
    /\ tasks \subseteq [name : Names, gen : Nat, leader : {"alive"} \cup Codes]
    /\ finished \subseteq [name : Names, gen : Nat, code : Codes]
    /\ timers \subseteq [name : Names, gen : Nat]
    /\ events \subseteq [name : Names, gen : Nat, slot : Slots]
    /\ batch \in [on : BOOLEAN, remaining : SUBSET Names, replies : SUBSET Clients]
    /\ clients \in [Clients -> Pending \cup Answers]
    /\ published \in [Names -> Nat]
    /\ proxyOn \in BOOLEAN /\ nextPort \in AutoPorts
    /\ wantDown \subseteq Names

(* A record owns its Incarnation, and with it the unreaped leader that     *)
(* pins the process-group id, exactly while the leader runs or has exited  *)
(* without a stop: nothing but a teardown ever takes it away, and no       *)
(* record without one claims a natural exit.                               *)
WellFormed(p) ==
    /\ p.inc <=> p.life = "Running" \/ (p.life = "Exited" /\ p.why \in {"Natural", "Exhausted"})
    /\ p.life = "Stopping" <=> p.then # "none"
    /\ p.life = "Exited" <=> p.why # "none"
    /\ p.life = "Exited" => p.leader # "alive"
    /\ p.life # "Stopping" => p.waiters = {}
    /\ p.timer => p.why = "Natural"
LifeShape == \A n \in Names : WellFormed(procs[n])

(* A record is Stopping exactly while one teardown of its own generation   *)
(* is in flight, as a task or as its StopFinished, and no record has two.  *)
(* This is what both unreachable!() of actor.rs rely on: start_teardown    *)
(* never meets a Stopping record, finish_teardown never any other.         *)
OneTeardown ==
    /\ \A t \in tasks : procs[t.name].life = "Stopping" /\ procs[t.name].gen = t.gen
    /\ \A m \in finished : procs[m.name].life = "Stopping" /\ procs[m.name].gen = m.gen
    /\ \A t, u \in tasks : t.name = u.name => t = u
    /\ \A m, k \in finished : m.name = k.name => m = k
    /\ \A t \in tasks, m \in finished : t.name # m.name
    /\ \A n \in Names : procs[n].life = "Stopping" =>
            (\E t \in tasks : t.name = n) \/ (\E m \in finished : m.name = n)

(* The oneshot sender of every client that waits is held by exactly one    *)
(* place that will answer it (the waiters of a Stopping record, or the     *)
(* stop-all batch), and no sender is held for a client that does not wait: *)
(* neither clear() nor a replaced Life ever drops one.                     *)
WaitersHeld ==
    \A c \in Clients :
        /\ \A n \in Names, k \in {"Stop", "Restart"} :
              <<c, k>> \in procs[n].waiters =>
                /\ clients[c] = k /\ procs[n].life = "Stopping"
                /\ \A m \in Names \ {n} : <<c, k>> \notin procs[m].waiters
        /\ clients[c] \in {"Stop", "Restart"} =>
              \E n \in Names : <<c, clients[c]>> \in procs[n].waiters
        /\ clients[c] = "StopAll" <=> c \in batch.replies

(* While a stop-all runs, every record is either parked without an         *)
(* incarnation or one the batch still waits for and that will be parked,   *)
(* so the clear() in finish_stop_all drops nothing alive.                  *)
StopAllCovers ==
    IF batch.on
    THEN /\ batch.remaining # {} /\ batch.replies # {}
         /\ \A n \in Names :
              IF n \in batch.remaining
              THEN procs[n].life = "Stopping" /\ procs[n].then = "Park"
              ELSE procs[n].life \in {"Absent", "Exited"} /\ ~procs[n].inc
    ELSE batch.remaining = {} /\ batch.replies = {}

(* A record that waits for its restart timer has one in flight for its own *)
(* generation, so a crashed process is never left waiting for a timer that *)
(* is gone; and a timer of the current generation never meets a running    *)
(* incarnation, so no late AutoRestart kills a healthy process.            *)
TimerArmed ==
    /\ \A n \in Names : procs[n].timer =>
            /\ procs[n].life = "Exited" /\ procs[n].why = "Natural"
            /\ [name |-> n, gen |-> procs[n].gen] \in timers
    /\ \A t \in timers : procs[t.name].gen = t.gen => procs[t.name].life # "Running"

(* The proxy's map never misses a process whose leader the daemon takes to *)
(* be alive, and never routes a name to a record that is gone or to        *)
(* another port than the record's.                                         *)
RoutesComplete ==
    \A n \in Names :
        /\ LeaderAlive(procs[n]) => published[n] = procs[n].port
        /\ published[n] \in {NoPort, procs[n].port}

(* Automatic restarts since the last manual or watch restart never exceed  *)
(* max_restarts, whatever mixture of timers, restarts and file changes.    *)
WithinBudget ==
    \A n \in Names : procs[n].policy.max # Unlimited => procs[n].count <= procs[n].policy.max

(* A process whose latest request was a stop is not started again by       *)
(* anything in flight: a timer, a file change, or a restart that the stop  *)
(* superseded.                                                             *)
StopSticks ==
    [][\A n \in wantDown \cap wantDown' :
          procs'[n].life = "Running" => procs[n].life = "Running"]_vars

(* When a client is told that all processes are stopped, no record and no  *)
(* teardown is left, whatever was in flight when it asked.                 *)
StopAllClean ==
    [][\A c \in Clients : clients'[c] = "allstopped" /\ clients[c] # "allstopped" =>
          /\ \A n \in Names : procs'[n].life = "Absent"
          /\ tasks' = {} /\ finished' = {}]_vars

(* A restart is answered ok only by a step that leaves a newer incarnation *)
(* running, and superseded only if it leaves none.                         *)
RestartHonest ==
    [][\A c \in Clients, n \in Names :
          <<c, "Restart">> \in procs[n].waiters /\ clients'[c] # "Restart" =>
            /\ clients'[c] = "ok" <=>
                 procs'[n].life = "Running" /\ procs'[n].gen > procs[n].gen
            /\ clients'[c] \in {"ok", "superseded", "error"}]_vars

(* Every request is answered: a stop, restart or stop-all never hangs.     *)
RequestsAnswered == \A c \in Clients : clients[c] \in Pending ~> Free(c)

(* A leader that exits on its own under a policy that restarts it is       *)
(* noticed without any client asking, and restarted, given up as exhausted *)
(* or taken over by a stop.                                                *)
CrashHandled ==
    \A n \in Names :
        /\ procs[n].leader # "alive" /\ ShouldRestart(procs[n])
        /\ procs[n].life = "Running" \/ procs[n].why = "Natural"
        ~> procs[n].life \in {"Absent", "Stopping"} \/ procs[n].why = "Exhausted"

(* The proxy does not keep routing to a process the daemon knows is dead.  *)
(* It does when the exit is first seen by a Stop or Restart that starts no *)
(* teardown, with none in flight (its target is unknown, or has nothing    *)
(* left to stop): the map is published again at the end of every teardown, *)
(* and otherwise by a tick only when that sees an exit itself.             *)
DeadUnrouted ==
    \A n \in Names :
        published[n] # NoPort /\ ~LeaderAlive(procs[n])
        ~> published[n] = NoPort \/ LeaderAlive(procs[n])
=============================================================================

------------------------------ MODULE Startup -------------------------------
(***************************************************************************)
(* `agent-procs up`: the start order computed from depends_on              *)
(* (src/src/config.rs, startup_order) and the client that runs the groups  *)
(* of it one after another (src/src/cli/up.rs).                            *)
(*                                                                         *)
(* Each turn of startup_order's loop is an action, so what holds between   *)
(* turns can be stated and proved for every graph.  A group is a set: its  *)
(* sorting decides the order of messages only.  In a group the requests    *)
(* are sent together (join_all) and answered in any order, and their       *)
(* answers are looked at when the last one is in.                          *)
(***************************************************************************)
EXTENDS Integers, Sequences, FiniteSets

CONSTANTS
    Names,      \* the processes of the configuration file
    Unknown,    \* a name depends_on may mention and the file does not define
    DepLists    \* depends_on lists

ASSUME NamesFinite == IsFiniteSet(Names) /\ Unknown \notin Names
ASSUME DepListsAssumption == DepLists \subseteq Seq(Names \cup {Unknown})

VARIABLES
    deps,       \* ProcessDef.depends_on of every process
    remaining,  \* startup_order's remaining: in-degrees of unplaced names
    groups,     \* the groups pushed so far
    pc,         \* where `up` is
    current,    \* how many groups have been begun
    ready,      \* the processes with a ready pattern
    only,       \* the names --only lets through
    printed,    \* processes that have printed their ready pattern
    run,        \* answer to each Run request
    wait        \* answer to each Wait request

order == <<deps, remaining, groups>>
vars == <<deps, remaining, groups, pc, current, ready, only, printed, run, wait>>

-----------------------------------------------------------------------------
(* startup_order                                                           *)

Mentions(n) == {deps[n][i] : i \in DOMAIN deps[n]}

(* in_degree: a dependency listed twice counts twice.                      *)
EdgesFrom(n, S) == {i \in DOMAIN deps[n] : deps[n][i] \in S}

Init ==
    /\ deps \in [Names -> DepLists]
    /\ remaining = [n \in Names |-> Cardinality(DOMAIN deps[n])]
    /\ groups = <<>> /\ current = 0 /\ pc = "order"
    /\ ready = {} /\ only = {} /\ printed = {}
    /\ run = [n \in Names |-> "none"] /\ wait = [n \in Names |-> "none"]

Placed == UNION {groups[k] : k \in DOMAIN groups}
Free_OffByOne == {n \in DOMAIN remaining : remaining[n] <= 1}
Free == {n \in DOMAIN remaining : remaining[n] = 0}

(* UnknownDep, found while the degrees are counted.                        *)
UnknownDep ==
    /\ pc = "order" /\ groups = <<>>
    /\ \E n \in Names : Unknown \in Mentions(n)
    /\ pc' = "unknown"
    /\ UNCHANGED <<order, current, ready, only, printed, run, wait>>

(* One turn: those without open dependencies form a group, and the degrees *)
(* of their dependents go down by one for each time they are listed.       *)
KnownDeps == \A n \in Names : Unknown \notin Mentions(n)

Decremented_Once(n) ==
    remaining[n] - IF EdgesFrom(n, Free) = {} THEN 0 ELSE 1
Decremented(n) == remaining[n] - Cardinality(EdgesFrom(n, Free))

PlaceGroup ==
    /\ pc = "order" /\ KnownDeps /\ Free # {}
    /\ remaining' = [n \in DOMAIN remaining \ Free |-> Decremented(n)]
    /\ groups' = Append(groups, Free)
    /\ UNCHANGED <<deps, pc, current, ready, only, printed, run, wait>>

CycleDetected ==
    /\ pc = "order" /\ KnownDeps /\ Free = {} /\ DOMAIN remaining # {}
    /\ pc' = "cycle"
    /\ UNCHANGED <<order, current, ready, only, printed, run, wait>>

(* The order is complete.  Ready patterns and --only, fixed from the       *)
(* start, are chosen here, where they are first looked at.                 *)
Ordered(r, o) ==
    /\ pc = "order" /\ KnownDeps /\ DOMAIN remaining = {}
    /\ ready' = r /\ only' = o
    /\ pc' = "proxy"
    /\ UNCHANGED <<order, current, printed, run, wait>>

-----------------------------------------------------------------------------
(* execute                                                                 *)

(* enable_proxy, when it is asked for, may fail.                           *)
EnableProxy(fails) ==
    /\ pc = "proxy"
    /\ pc' = IF fails THEN "failed" ELSE "next"
    /\ UNCHANGED <<order, current, ready, only, printed, run, wait>>

Members == groups[current] \cap only

(* The next group: all its Run requests are sent.                          *)
StartGroup ==
    /\ pc = "next" /\ current < Len(groups)
    /\ current' = current + 1
    /\ run' = [n \in Names |-> IF n \in groups[current + 1] \cap only
                               THEN "sent" ELSE run[n]]
    /\ pc' = "starting"
    /\ UNCHANGED <<order, ready, only, printed, wait>>

(* The daemon handles a Run: it starts the process or answers an error.    *)
RunAnswered(n, answer) ==
    /\ run[n] = "sent"
    /\ run' = [run EXCEPT ![n] = answer]
    /\ UNCHANGED <<order, pc, current, ready, only, printed, wait>>

(* All Runs are answered: the first that failed ends `up`; else the Waits  *)
(* of those with a ready pattern are sent.                                 *)
Started ==
    /\ pc = "starting" /\ \A n \in Members : run[n] # "sent"
    /\ IF \E n \in Members : run[n] = "error"
       THEN pc' = "failed" /\ wait' = wait
       ELSE /\ pc' = "waiting"
            /\ wait' = [n \in Names |-> IF n \in Members \cap ready
                                        THEN "sent" ELSE wait[n]]
    /\ UNCHANGED <<order, current, ready, only, printed, run>>

(* A process that runs prints its pattern, or never does.                  *)
PrintReady(n) ==
    /\ run[n] = "ok" /\ n \in ready \ printed
    /\ printed' = printed \cup {n}
    /\ UNCHANGED <<order, pc, current, ready, only, run, wait>>

(* WaitMatch, WaitTimeout after 30 s, Error (the process is gone), or a    *)
(* connection that breaks.                                                 *)
WaitMatch(n) ==
    /\ wait[n] = "sent" /\ n \in printed
    /\ wait' = [wait EXCEPT ![n] = "match"]
    /\ UNCHANGED <<order, pc, current, ready, only, printed, run>>

WaitGivesUp(n, answer) ==
    /\ wait[n] = "sent"
    /\ wait' = [wait EXCEPT ![n] = answer]
    /\ UNCHANGED <<order, pc, current, ready, only, printed, run>>

(* All Waits are answered: an Error ends `up`; a timeout is a warning, and *)
(* a broken connection is passed over.                                     *)
Waited_NotAll ==
    /\ pc = "waiting" /\ \E n \in Members : wait[n] # "sent"
    /\ pc' = IF \E n \in Members : wait[n] = "error" THEN "failed" ELSE "next"
    /\ UNCHANGED <<order, current, ready, only, printed, run, wait>>
Waited ==
    /\ pc = "waiting" /\ \A n \in Members : wait[n] # "sent"
    /\ pc' = IF \E n \in Members : wait[n] = "error" THEN "failed" ELSE "next"
    /\ UNCHANGED <<order, current, ready, only, printed, run, wait>>

AllStarted ==
    /\ pc = "next" /\ current = Len(groups)
    /\ pc' = "started"
    /\ UNCHANGED <<order, current, ready, only, printed, run, wait>>

-----------------------------------------------------------------------------
StartupOrder == UnknownDep \/ PlaceGroup \/ CycleDetected
                \/ \E r, o \in SUBSET Names : Ordered(r, o)

Up ==
    \/ \E fails \in BOOLEAN : EnableProxy(fails)
    \/ StartGroup \/ Started \/ Waited \/ AllStarted

Answers ==
    \/ \E n \in Names, answer \in {"ok", "error"} : RunAnswered(n, answer)
    \/ \E n \in Names, answer \in {"timeout", "error", "lost"} : WaitGivesUp(n, answer)

(* The process has exited: nothing else may stop `up` for good, which TLC  *)
(* checks as the absence of deadlock.                                      *)
Ended == {"unknown", "cycle", "failed", "started"}
Exited == pc \in Ended /\ UNCHANGED vars

Next ==
    \/ StartupOrder \/ Up \/ Answers \/ Exited
    \/ \E n \in Names : PrintReady(n) \/ WaitMatch(n)

Spec == Init /\ [][Next]_vars

-----------------------------------------------------------------------------
(* Every variable keeps its type.                                          *)
TypeOK ==
    /\ deps \in [Names -> Seq(Names \cup {Unknown})]
    /\ DOMAIN remaining \subseteq Names
    /\ remaining \in [DOMAIN remaining -> Nat]
    /\ groups \in Seq(SUBSET Names)
    /\ pc \in {"order", "proxy", "next", "starting", "waiting"} \cup Ended
    /\ current \in 0..Len(groups)
    /\ ready \subseteq Names /\ only \subseteq Names /\ printed \subseteq Names
    /\ run \in [Names -> {"none", "sent", "ok", "error"}]
    /\ wait \in [Names -> {"none", "sent", "match", "timeout", "error", "lost"}]

(* The groups are a start order: they are disjoint, what is in none is     *)
(* still counted, every dependency of a member is in an earlier group, and *)
(* a member of a later group has a dependency in the one just before, so   *)
(* nothing is held back longer than its dependencies are.                  *)
OrderCorrect ==
    /\ Placed = Names \ DOMAIN remaining
    /\ \A k, l \in DOMAIN groups : k # l => groups[k] \cap groups[l] = {}
    /\ \A k \in DOMAIN groups : \A n \in groups[k] :
         /\ \A d \in Mentions(n) : \E l \in 1..(k - 1) : d \in groups[l]
         /\ k > 1 => Mentions(n) \cap groups[k - 1] # {}

(* d comes before n: it is in every set that has n's dependencies and is   *)
(* closed under dependencies.                                              *)
Precedes(d, n) ==
    \A S \in SUBSET Names :
        (Mentions(n) \subseteq S /\ \A x \in S : Mentions(x) \subseteq S) => d \in S

(* startup_order refuses exactly the graphs with a cycle, a process that   *)
(* comes before itself: CycleDetected is only reported of one, and a       *)
(* complete order only made of one without.                                *)
CycleExact ==
    /\ pc = "cycle" => \E n \in Names : Precedes(n, n)
    /\ pc \notin {"order", "cycle", "unknown"} => \A n \in Names : ~Precedes(n, n)

Settled(n) == run[n] = "ok" /\ (n \in ready => wait[n] \in {"match", "timeout", "lost"})

(* No process is started before what it depends on, directly or through    *)
(* others, even through one that --only leaves out: each has been started  *)
(* and was seen to be ready, or was waited for in vain.                    *)
DepsFirst ==
    \A n \in Names : run[n] # "none" =>
        \A d \in only : Precedes(d, n) => Settled(d)
=============================================================================

---------------------------- MODULE ServerProofs ----------------------------
(***************************************************************************)
(* Theorems about Server, for any finite set of connections, any limit and *)
(* any number of Shutdown requests.                                        *)
(***************************************************************************)
EXTENDS Server, TLAPS, FiniteSetTheorems

(* The connection tasks, each with the ConnectionGuard that counts it.     *)
Tasks == {c \in Conns : conn[c] \in Served}

(* What the counter's invariant needs of the types.                        *)
CountTypes ==
    /\ conn \in [Conns -> {"none", "backlog"} \cup Served]
    /\ active \in Nat

CountInv == CountTypes /\ ActiveExact

-----------------------------------------------------------------------------
(* The connections of any kind are finitely many.                          *)
LEMMA TasksFinite == IsFiniteSet(Tasks) /\ Cardinality(Tasks) \in Nat
<1>1. Tasks \subseteq Conns
  BY DEF Tasks
<1> QED
  BY <1>1, ConnsAssumption, FS_Subset, FS_CardinalityType

(* A step that leaves the set of tasks alone leaves the counter exact.     *)
LEMMA SameTasks ==
    ASSUME CountInv, CountTypes', Tasks' = Tasks, active' = active
    PROVE  CountInv'
<1>1. active = Cardinality(Tasks) /\ active <= MaxConnections
  BY DEF CountInv, ActiveExact, Tasks
<1>2. active' = Cardinality(Tasks') /\ active' <= MaxConnections
  BY <1>1
<1> QED
  BY <1>2 DEF CountInv, ActiveExact, Tasks

(* A task that starts below the limit.                                     *)
LEMMA TaskStarts ==
    ASSUME CountInv, CountTypes', NEW c \in Conns, c \notin Tasks, Tasks' = Tasks \cup {c},
           active' = active + 1, ~(active >= MaxConnections)
    PROVE  CountInv'
<1>1. /\ active = Cardinality(Tasks) /\ active <= MaxConnections
      /\ active \in Nat /\ MaxConnections \in Nat
  BY LimitAssumption DEF CountInv, CountTypes, ActiveExact, Tasks
<1>2. Cardinality(Tasks \cup {c}) = Cardinality(Tasks) + 1
  BY TasksFinite, FS_AddElement
<1>3. active' = Cardinality(Tasks') /\ active' <= MaxConnections
  BY <1>1, <1>2
<1> QED
  BY <1>3 DEF CountInv, ActiveExact, Tasks

(* A task that ends: the counter was positive.                             *)
LEMMA TaskEnds ==
    ASSUME CountInv, NEW c \in Tasks, conn' = [conn EXCEPT ![c] = "none"],
           active' = active - 1
    PROVE  CountInv'
<1>1. /\ active = Cardinality(Tasks) /\ active <= MaxConnections
      /\ active \in Nat /\ MaxConnections \in Nat
  BY LimitAssumption DEF CountInv, CountTypes, ActiveExact, Tasks
<1>2. Cardinality(Tasks \ {c}) = Cardinality(Tasks) - 1 /\ Cardinality(Tasks \ {c}) \in Nat
  <2>1. IsFiniteSet(Tasks \ {c})
    BY TasksFinite, FS_Subset
  <2> QED
    BY <2>1, TasksFinite, FS_RemoveElement, FS_CardinalityType
<1>3. Tasks' = Tasks \ {c}
  BY DEF Tasks, CountInv, CountTypes, Served
<1>4. active' = Cardinality(Tasks') /\ active' <= MaxConnections /\ active' \in Nat
  BY <1>1, <1>2, <1>3
<1>5. CountTypes'
  BY <1>4 DEF CountTypes, CountInv
<1> QED
  BY <1>4, <1>5 DEF CountInv, ActiveExact, Tasks

(* One connection changes without becoming a task or ceasing to be one.    *)
LEMMA ConnMoves ==
    ASSUME CountInv, NEW c \in Conns, NEW to \in {"none", "backlog"} \cup Served,
           to \in Served <=> conn[c] \in Served,
           conn' = [conn EXCEPT ![c] = to], active' = active
    PROVE  CountInv'
<1>1. CountTypes'
  BY DEF CountInv, CountTypes
<1>2. Tasks' = Tasks
  BY DEF Tasks, CountInv, CountTypes
<1> QED
  BY <1>1, <1>2, SameTasks

(* Every step keeps the counter exact.                                     *)
LEMMA CountStep ==
    ASSUME CountInv, [Next]_vars
    PROVE  CountInv'
<1>1. ASSUME NEW c \in Conns, Connect(c) PROVE CountInv'
  BY <1>1, ConnMoves DEF Connect, Served
<1>2. ASSUME NEW c \in Conns, Accept(c) PROVE CountInv'
  <2>1. conn[c] = "backlog" /\ c \notin Tasks
    BY <1>2 DEF Accept, Tasks, Served
  <2>2. CASE active >= MaxConnections
    BY <1>2, <2>1, <2>2, ConnMoves DEF Accept, Served
  <2>3. CASE ~(active >= MaxConnections)
    <3>1. conn' = [conn EXCEPT ![c] = "open"] /\ active' = active + 1
      BY <1>2, <2>3 DEF Accept
    <3>2. CountTypes' /\ Tasks' = Tasks \cup {c}
      BY <3>1 DEF CountInv, CountTypes, Tasks, Served
    <3> QED
      BY <2>1, <2>3, <3>1, <3>2, TaskStarts
  <2> QED
    BY <2>2, <2>3
<1>3. ASSUME NEW c \in Conns, Disconnect(c) \/ NotifyShutdown(c) PROVE CountInv'
  <2>1. c \in Tasks /\ conn' = [conn EXCEPT ![c] = "none"] /\ active' = active - 1
    BY <1>3 DEF Disconnect, NotifyShutdown, Tasks, Served
  <2> QED
    BY <2>1, TaskEnds
<1>4. ASSUME NEW c \in Conns, Shutdown(c) PROVE CountInv'
  BY <1>4, ConnMoves DEF Shutdown, Served
<1>5. CASE AllStopped
  <2>1. conn' = [c \in Conns |-> IF conn[c] = "stopping" THEN "notifying" ELSE conn[c]]
        /\ active' = active
    BY <1>5 DEF AllStopped
  <2>2. CountTypes' /\ Tasks' = Tasks
    BY <2>1 DEF CountInv, CountTypes, Tasks, Served
  <2> QED
    BY <2>1, <2>2, SameTasks
<1>6. CASE \/ \E c \in Conns : EnableProxy(c)
           \/ ProxyStart \/ ProxyAccept \/ ProxyReturn \/ ServerBreak \/ UNCHANGED vars
  <2>1. conn' = conn /\ active' = active
    BY <1>6 DEF EnableProxy, ProxyStart, ProxyAccept, ProxyReturn, ServerBreak, vars
  <2> QED
    BY <2>1, SameTasks DEF CountInv, CountTypes, Tasks
<1> QED
  BY <1>1, <1>2, <1>3, <1>4, <1>5, <1>6 DEF Next

(* The counter of connections is the number of connection tasks and never  *)
(* exceeds the limit, whatever connections, refusals, disconnects and      *)
(* shutdowns come in which order.                                          *)
THEOREM ActiveExactHolds == Spec => []ActiveExact
<1>1. Init => CountInv
  <2> SUFFICES ASSUME Init PROVE CountInv
    OBVIOUS
  <2>1. {c \in Conns : conn[c] \in Served} = {}
    BY DEF Init, Served
  <2>2. Cardinality({}) = 0
    BY FS_EmptySet
  <2> QED
    BY <2>1, <2>2, LimitAssumption DEF Init, CountInv, CountTypes, ActiveExact
<1>2. CountInv /\ [Next]_vars => CountInv'
  BY CountStep
<1>3. CountInv => ActiveExact
  BY DEF CountInv
<1> QED
  BY <1>1, <1>2, <1>3, PTL DEF Spec

-----------------------------------------------------------------------------
(* tokio's Notify: a wake-up that was given is a permit or a woken future. *)
Pending(n) == n.permit \/ n.woken # {}

(* notify_one gives one.                                                   *)
LEMMA NotifyOneWakes ==
    ASSUME NEW queue, NEW hasPermit, NEW done
    PROVE  Pending(NotifyOne([queue |-> queue, permit |-> hasPermit, woken |-> done]))
BY DEF NotifyOne, Pending

(* A loop that takes a connection and waits again gives none away.         *)
LEMMA AgainKeeps ==
    ASSUME NEW loop \in Loops, Pending(Notify)
    PROVE  Pending(Again(loop))
<1> DEFINE d == Drop(Notify, loop)
<1>1. /\ Pending(d)
      /\ \E q, b, w : d = [queue |-> q, permit |-> b, woken |-> w]
  BY DEF Drop, NotifyOne, Notify, Pending
<1> HIDE DEF d
<1>2. Pending(Await(d, loop))
  BY <1>1 DEF Await, Pending
<1> QED
  BY <1>2 DEF Again, d

(* So does a loop that starts to wait.                                     *)
LEMMA AwaitKeeps ==
    ASSUME NEW loop \in Loops, Pending(Notify)
    PROVE  Pending(Await(Notify, loop))
BY DEF Await, Pending, Notify

WakeInv == answered \in Nat /\ WakeupKept

(* Every step keeps the wake-up.                                           *)
LEMMA WakeStep ==
    ASSUME WakeInv, [Next]_vars
    PROVE  WakeInv'
<1>1. ASSUME NEW c \in Conns, NotifyShutdown(c) PROVE WakeInv'
  <2>1. answered' \in Nat
    BY <1>1 DEF NotifyShutdown, WakeInv
  <2>2. Pending(NotifyOne(Notify))
    BY NotifyOneWakes DEF Notify
  <2>3. permit' \/ woken' # {}
    BY <1>1, <2>2 DEF NotifyShutdown, SetNotify, Pending
  <2> QED
    BY <2>1, <2>3 DEF WakeInv, WakeupKept
<1>2. ASSUME NEW n, Pending(Notify) => Pending(n), SetNotify(n),
             UNCHANGED <<server, answered>>,
             proxy = "returned" => proxy' = "returned"
      PROVE  WakeInv'
  BY <1>2 DEF WakeInv, WakeupKept, Pending, SetNotify, Notify
<1>3. ASSUME NEW c \in Conns, Accept(c) PROVE WakeInv'
  BY <1>2, <1>3, AgainKeeps DEF Accept, Loops
<1>4. CASE ProxyAccept
  BY <1>2, <1>4, AgainKeeps DEF ProxyAccept, Loops
<1>5. CASE ProxyStart
  BY <1>2, <1>5, AwaitKeeps DEF ProxyStart, Loops
<1>6. CASE ProxyReturn \/ ServerBreak
  BY <1>6 DEF ProxyReturn, ServerBreak, WakeInv, WakeupKept
<1>7. CASE \/ \E c \in Conns : Connect(c) \/ Disconnect(c) \/ Shutdown(c)
           \/ AllStopped \/ UNCHANGED vars
  BY <1>7 DEF Connect, Disconnect, Shutdown, AllStopped, vars, WakeInv, WakeupKept
<1>8. ASSUME NEW c \in Conns, EnableProxy(c) PROVE WakeInv'
  BY <1>8 DEF EnableProxy, WakeInv, WakeupKept
<1> QED
  BY <1>1, <1>3, <1>4, <1>5, <1>6, <1>7, <1>8 DEF Next

(* A wake-up that a Shutdown gave is never lost: not to a future dropped   *)
(* because its loop took a connection, not to a loop that starts to wait   *)
(* after it, not to two Shutdowns in a row.                                *)
THEOREM WakeupKeptHolds == Spec => []WakeupKept
<1>1. Init => WakeInv
  BY DEF Init, WakeInv, WakeupKept
<1>2. WakeInv /\ [Next]_vars => WakeInv'
  BY WakeStep
<1>3. WakeInv => WakeupKept
  BY DEF WakeInv
<1> QED
  BY <1>1, <1>2, <1>3, PTL DEF Spec
=============================================================================

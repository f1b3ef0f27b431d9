------------------------------- MODULE Server -------------------------------
(***************************************************************************)
(* The daemon's front: the accept loop, the connection tasks and their     *)
(* limit (src/src/daemon/server.rs), the accept loop of the reverse proxy  *)
(* (src/src/daemon/proxy.rs) and the one tokio Notify both loops wait on   *)
(* for shutdown.                                                           *)
(*                                                                         *)
(* A loop waits in select! on accept and on a fresh notified() future.     *)
(* Notify keeps the pending futures in a queue: notify_one wakes the       *)
(* oldest, or stores one permit when none waits; a woken future that is    *)
(* dropped because the loop took a connection hands the wake-up on.        *)
(* Requests that only pass through to the actor are module Supervisor's.   *)
(***************************************************************************)
EXTENDS Integers, FiniteSets, Sequences

CONSTANTS
    Conns,              \* client connections: the bound on how many there are
    MaxConnections,     \* MAX_CONCURRENT_CONNECTIONS
    MaxShutdowns        \* bound on Shutdown requests

ASSUME ConnsAssumption == IsFiniteSet(Conns)
ASSUME LimitAssumption == MaxConnections \in Nat \ {0} /\ MaxShutdowns \in Nat

Loops == {"server", "proxy"}

VARIABLES
    conn,       \* each client's connection
    active,     \* active_connections
    waiting,    \* Notify's queue of pending notified() futures
    permit,     \* Notify's stored permit
    woken,      \* loops whose future completed and that have not run since
    server,     \* the accept loop of server.rs
    proxy,      \* the accept loop of proxy.rs
    answered    \* history: Shutdown requests whose notify_one was called

vars == <<conn, active, waiting, permit, woken, server, proxy, answered>>

-----------------------------------------------------------------------------
(* Notify, as a record of its queue, permit and woken futures.             *)
Notify == [queue |-> waiting, permit |-> permit, woken |-> woken]

NotifyOne(n) ==
    IF n.queue = <<>> THEN [n EXCEPT !.permit = TRUE]
    ELSE [n EXCEPT !.queue = Tail(n.queue), !.woken = @ \cup {Head(n.queue)}]

(* A new notified() future, polled: it takes the permit or joins the queue.*)
Await(n, loop) ==
    IF n.permit THEN [n EXCEPT !.permit = FALSE, !.woken = @ \cup {loop}]
    ELSE [n EXCEPT !.queue = Append(@, loop)]

(* Dropping a future: a pending one leaves the queue, a woken one that was *)
(* not consumed passes its wake-up on.                                     *)
Drop(n, loop) ==
    IF loop \in n.woken THEN NotifyOne([n EXCEPT !.woken = @ \ {loop}])
    ELSE [n EXCEPT !.queue = SelectSeq(@, LAMBDA l : l # loop)]

(* select! takes a connection and the loop comes round again.              *)
Again_Swallows(loop) ==
    Await([Notify EXCEPT !.woken = @ \ {loop},
                         !.queue = SelectSeq(@, LAMBDA l : l # loop)], loop)
Again(loop) == Await(Drop(Notify, loop), loop)

SetNotify(n) == waiting' = n.queue /\ permit' = n.permit /\ woken' = n.woken

Served == {"open", "stopping", "notifying"}   \* a task with a ConnectionGuard

Init ==
    /\ conn = [c \in Conns |-> "none"] /\ active = 0
    /\ waiting = <<"server">> /\ permit = FALSE /\ woken = {}
    /\ server = "waiting" /\ proxy = "off"
    /\ answered = 0

-----------------------------------------------------------------------------
(* A client connects; the listener's backlog holds it.                     *)
Connect(c) ==
    /\ server = "waiting" /\ conn[c] = "none"
    /\ conn' = [conn EXCEPT ![c] = "backlog"]
    /\ UNCHANGED <<active, waiting, permit, woken, server, proxy, answered>>

(* The accept loop takes it: fetch_add, and fetch_sub again at the limit.  *)
Accept_Leaks(c) ==
    /\ server = "waiting" /\ conn[c] = "backlog"
    /\ conn' = [conn EXCEPT ![c] = IF active >= MaxConnections THEN "none" ELSE "open"]
    /\ active' = active + 1
    /\ SetNotify(Again("server"))
    /\ UNCHANGED <<server, proxy, answered>>
Accept(c) ==
    /\ server = "waiting" /\ conn[c] = "backlog"
    /\ IF active >= MaxConnections
       THEN conn' = [conn EXCEPT ![c] = "none"] /\ active' = active
       ELSE conn' = [conn EXCEPT ![c] = "open"] /\ active' = active + 1
    /\ SetNotify(Again("server"))
    /\ UNCHANGED <<server, proxy, answered>>

(* End of file, an error or an oversized message: the task ends, its guard *)
(* with it.                                                                *)
Disconnect(c) ==
    /\ server = "waiting" /\ conn[c] = "open"
    /\ conn' = [conn EXCEPT ![c] = "none"]
    /\ active' = active - 1
    /\ UNCHANGED <<waiting, permit, woken, server, proxy, answered>>

(* Shutdown: handle_request awaits stop_all, which answers every request   *)
(* that joined the batch at once; then the response is sent.               *)
Shutdown(c) ==
    /\ server = "waiting" /\ conn[c] = "open"
    /\ answered + Cardinality({d \in Conns : conn[d] \in {"stopping", "notifying"}})
         < MaxShutdowns
    /\ conn' = [conn EXCEPT ![c] = "stopping"]
    /\ UNCHANGED <<active, waiting, permit, woken, server, proxy, answered>>

AllStopped ==
    /\ server = "waiting" /\ \E c \in Conns : conn[c] = "stopping"
    /\ conn' = [c \in Conns |-> IF conn[c] = "stopping" THEN "notifying" ELSE conn[c]]
    /\ UNCHANGED <<active, waiting, permit, woken, server, proxy, answered>>

(* shutdown.notify_one() and return.                                       *)
NotifyShutdown_NoWake(c) ==
    /\ server = "waiting" /\ conn[c] = "notifying"
    /\ conn' = [conn EXCEPT ![c] = "none"]
    /\ active' = active - 1
    /\ answered' = answered + 1
    /\ UNCHANGED <<waiting, permit, woken, server, proxy>>
NotifyShutdown(c) ==
    /\ server = "waiting" /\ conn[c] = "notifying"
    /\ conn' = [conn EXCEPT ![c] = "none"]
    /\ active' = active - 1
    /\ answered' = answered + 1
    /\ SetNotify(NotifyOne(Notify))
    /\ UNCHANGED <<server, proxy>>

(* EnableProxy: the actor remembers the first port for good; the proxy     *)
(* task starts on its own.                                                 *)
EnableProxy(c) ==
    /\ server = "waiting" /\ conn[c] = "open" /\ proxy = "off"
    /\ proxy' = "starting"
    /\ UNCHANGED <<conn, active, waiting, permit, woken, server, answered>>

ProxyStart ==
    /\ server = "waiting" /\ proxy = "starting"
    /\ proxy' = "waiting"
    /\ SetNotify(Await(Notify, "proxy"))
    /\ UNCHANGED <<conn, active, server, answered>>

ProxyAccept ==
    /\ server = "waiting" /\ proxy = "waiting"
    /\ SetNotify(Again("proxy"))
    /\ UNCHANGED <<conn, active, server, proxy, answered>>

ProxyReturn ==
    /\ server = "waiting" /\ proxy = "waiting" /\ "proxy" \in woken
    /\ proxy' = "returned"
    /\ woken' = woken \ {"proxy"}
    /\ UNCHANGED <<conn, active, waiting, permit, server, answered>>

(* The accept loop breaks and the daemon exits, and every task with it.    *)
ServerBreak ==
    /\ server = "waiting" /\ "server" \in woken
    /\ server' = "exited"
    /\ woken' = woken \ {"server"}
    /\ UNCHANGED <<conn, active, waiting, permit, proxy, answered>>

Next ==
    \/ \E c \in Conns : \/ Connect(c) \/ Accept(c) \/ Disconnect(c) \/ Shutdown(c)
                        \/ NotifyShutdown(c) \/ EnableProxy(c)
    \/ AllStopped \/ ProxyStart \/ ProxyAccept \/ ProxyReturn \/ ServerBreak

Spec == Init /\ [][Next]_vars

(* Tasks that can run are polled, teardowns are bounded, and select! picks *)
(* a ready branch at random, so no loop ignores its wake-up for ever.      *)
Fairness ==
    /\ WF_vars(AllStopped) /\ WF_vars(ProxyStart)
    /\ WF_vars(ProxyReturn) /\ WF_vars(ServerBreak)
    /\ \A c \in Conns : WF_vars(NotifyShutdown(c)) /\ WF_vars(Accept(c))

FairSpec == Spec /\ Fairness
-----------------------------------------------------------------------------
(* Properties                                                              *)

TypeOK ==
    /\ conn \in [Conns -> {"none", "backlog"} \cup Served]
    /\ active \in Nat /\ answered \in Nat
    /\ waiting \in Seq(Loops) /\ permit \in BOOLEAN /\ woken \subseteq Loops
    /\ server \in {"waiting", "exited"}
    /\ proxy \in {"off", "starting", "waiting", "returned"}

(* The counter is the number of connection tasks and stays within the      *)
(* limit: neither a refused connection nor any way a task ends leaks a     *)
(* slot or frees one twice.                                                *)
ActiveExact ==
    /\ active = Cardinality({c \in Conns : conn[c] \in Served})
    /\ active <= MaxConnections

(* Once a Shutdown was answered its wake-up is not lost, however many      *)
(* connections race with it: one loop has ended, or one is about to.       *)
WakeupKept ==
    answered > 0 => server = "exited" \/ proxy = "returned" \/ permit \/ woken # {}

(* A daemon whose proxy does not run exits after a Shutdown, unless the    *)
(* proxy is enabled before it does.                                        *)
ExitsWithoutProxy ==
    (\E c \in Conns : conn[c] = "notifying") /\ proxy \in {"off", "returned"}
    ~> server = "exited" \/ proxy \in {"starting", "waiting"}

(* The daemon exits when a Shutdown request is received.                   *)
ShutdownExits == (\E c \in Conns : conn[c] = "notifying") ~> server = "exited"
=============================================================================

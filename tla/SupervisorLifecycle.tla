------------------------ MODULE SupervisorLifecycle -------------------------
(* Supervisor implements Lifecycle.                                        *)
EXTENDS Supervisor

(* A group may have a process alive while its record owns the incarnation, *)
(* or while a teardown task that took it runs.                             *)
Group ==
    [n \in Names |-> IF procs[n].inc THEN "alive"
                     ELSE IF \E t \in tasks : t.name = n THEN "ending"
                     ELSE "none"]

Gen == [n \in Names |-> procs[n].gen]

Owed == {o \in Names \X (Clients \X {"Stop", "Restart"}) : o[2] \in procs[o[1]].waiters}

L == INSTANCE Lifecycle
     WITH group <- Group, gen <- Gen, issued <- nextGen, owed <- Owed,
          owedAll <- batch.replies

(* The records, messages and tasks of actor.rs behave, for its clients,    *)
(* like Lifecycle: groups of one name never overlap, a stop or restart is  *)
(* answered only once the group it was about is gone, and from a stop-all  *)
(* to its answer nothing is started.                                       *)
Implements == L!Spec
=============================================================================

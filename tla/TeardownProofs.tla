--------------------------- MODULE TeardownProofs ---------------------------
(***************************************************************************)
(* Theorems about Teardown, for any number of processes in and around the  *)
(* group.  The inductive invariant adds to the properties where teardown   *)
(* reaps: nowhere before the wait that follows SIGKILL.                    *)
(***************************************************************************)
EXTENDS Teardown, TLAPS

(* The leader's zombie keeps the group id until teardown waits for it.     *)
Unreaped == pc \in {"idle", "sigterm", "grace", "sigkill", "reap"} => ~reaped

(* The code is the leader's, and an exit once seen is the real one.        *)
SeenIsReal ==
    /\ leaderExit # "none" => leaderExit = status
    /\ pc \in {"drain", "cancel", "done"} =>
         /\ leaderExit = "code" => code = "code"
         /\ leaderExit = "signal" => code = "null"
         /\ code = "code" => status = "code"

(* The leader that has ended runs no more.                                 *)
EndedOnce == Leader \in alive <=> status = "none"

Inv == TypeOK /\ Unreaped /\ EndedOnce /\ SeenIsReal /\ GroupDoomed /\ CaptureOver

(* Every behaviour starts in the invariant.                                *)
LEMMA InitInv == Init => Inv
BY DEF Init, Inv, TypeOK, Unreaped, EndedOnce, SeenIsReal, GroupDoomed, CaptureOver, Procs, Exits,
       Streams

(* The steps of teardown itself.                                           *)
LEMMA TaskInv ==
    ASSUME Inv, Task
    PROVE  Inv'
<1> USE DEF Inv, TypeOK, Unreaped, EndedOnce, SeenIsReal, GroupDoomed, CaptureOver, Exits, os
<1>1. CASE Start
  BY <1>1 DEF Start
<1>2. CASE Sigterm
  BY <1>2 DEF Sigterm
<1>3. CASE Poll
  BY <1>3 DEF Poll, PeekExit
<1>4. CASE GraceOver
  BY <1>4 DEF GraceOver
<1>5. CASE Sigkill
  BY <1>5 DEF Sigkill
<1>6. CASE Reap
  BY <1>6 DEF Reap, CodeOf
<1>7. CASE ReapOver
  BY <1>7 DEF ReapOver, CodeOf
<1>8. CASE Joined
  BY <1>8 DEF Joined, AllCaptured, Captured
<1>9. CASE DrainOver
  BY <1>9 DEF DrainOver
<1>10. CASE CancelOver
  BY <1>10 DEF CancelOver, AllCaptured, Captured
<1> QED
  BY <1>1, <1>2, <1>3, <1>4, <1>5, <1>6, <1>7, <1>8, <1>9, <1>10 DEF Task

(* A capture task only ever moves towards its end.                         *)
LEMMA CaptureInv ==
    ASSUME Inv, NEW s \in Streams, Eof(s) \/ Drained(s) \/ Cancelled(s)
    PROVE  Inv'
<1>1. /\ capture' \in [Streams -> {"reading", "draining", "finished", "aborted"}]
      /\ AllCaptured => AllCaptured'
  BY DEF Inv, TypeOK, Eof, Drained, Cancelled, AllCaptured, Captured
<1>2. UNCHANGED <<os, reaped, pc, leaderExit, code, supOpen, cancel>>
  BY DEF Eof, Drained, Cancelled
<1> QED
  BY <1>1, <1>2 DEF Inv, TypeOK, Unreaped, EndedOnce, SeenIsReal, GroupDoomed, CaptureOver,
                    os, Exits

(* Whatever the group does: a doomed process forks and leaves no more.     *)
LEMMA OsInv ==
    ASSUME Inv, Os
    PROVE  Inv'
<1> USE DEF Inv, TypeOK, Unreaped, EndedOnce, SeenIsReal, GroupDoomed, CaptureOver, Exits, Procs
<1>1. ASSUME NEW p \in Procs, Leave(p) PROVE Inv'
  BY <1>1 DEF Leave, Runs, AllCaptured, Captured
<1>2. ASSUME NEW p \in Procs, Exit(p) PROVE Inv'
  BY <1>2 DEF Exit, AllCaptured, Captured
<1>3. ASSUME NEW p \in Procs, NEW q \in Procs, Fork(p, q) PROVE Inv'
  BY <1>3 DEF Fork, Runs, AllCaptured, Captured
<1> QED
  BY <1>1, <1>2, <1>3 DEF Os

(* The invariant holds throughout.                                         *)
LEMMA InvAlways == Spec => []Inv
<1>1. Inv /\ [Next]_vars => Inv'
  <2> SUFFICES ASSUME Inv, [Next]_vars PROVE Inv'
    OBVIOUS
  <2>1. CASE Task
    BY <2>1, TaskInv
  <2>2. CASE Capture
    BY <2>2, CaptureInv DEF Capture
  <2>3. CASE Os
    BY <2>3, OsInv
  <2>4. CASE UNCHANGED vars
    BY <2>4 DEF vars, os, Inv, TypeOK, Unreaped, EndedOnce, SeenIsReal, GroupDoomed,
                CaptureOver, AllCaptured, Captured
  <2> QED
    BY <2>1, <2>2, <2>3, <2>4 DEF Next
<1> QED
  BY <1>1, InitInv, PTL DEF Spec

(* No signal of a teardown ever reaches a process group that reused the    *)
(* id: the daemon has not reaped the leader at any point where it signals. *)
THEOREM SafeSignalsHold == Spec => []SafeSignals
<1>1. Inv => SafeSignals
  BY DEF Inv, Unreaped, SafeSignals, Pinned
<1> QED
  BY <1>1, InvAlways, PTL

(* Nothing that stays in the group outlives its teardown.                  *)
THEOREM GroupDoomedHolds == Spec => []GroupDoomed
<1>1. Inv => GroupDoomed
  BY DEF Inv
<1> QED
  BY <1>1, InvAlways, PTL

(* A teardown that has returned left no capture task behind.               *)
THEOREM CaptureOverHolds == Spec => []CaptureOver
<1>1. Inv => CaptureOver
  BY DEF Inv
<1> QED
  BY <1>1, InvAlways, PTL

(* The exit reported to the record is the leader's.                        *)
THEOREM KnownExitKeptHolds == Spec => []KnownExitKept
<1>1. Inv => KnownExitKept
  BY DEF Inv, SeenIsReal, KnownExitKept
<1> QED
  BY <1>1, InvAlways, PTL
=============================================================================

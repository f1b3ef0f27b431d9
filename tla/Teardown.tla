------------------------------ MODULE Teardown ------------------------------
(***************************************************************************)
(* One teardown of one incarnation: teardown and join_capture of           *)
(* src/src/daemon/process_manager.rs, beside the process group it signals  *)
(* and the two capture tasks that read the group's pipes.                  *)
(*                                                                         *)
(* The group may do anything a group can do: members fork, leave the       *)
(* group, ignore SIGTERM, outlive their leader and hold its pipes open.    *)
(* Time is a choice: a deadline (STOP_GRACE, REAP_CAP, CAPTURE_DRAIN,      *)
(* CAPTURE_CANCEL) may pass at any moment of the wait it bounds.           *)
(***************************************************************************)
EXTENDS Integers, FiniteSets

CONSTANTS
    Leader,     \* the spawned shell, whose pid is the group id
    Members     \* processes it may fork: the bound on forks

ASSUME LeaderAssumption == Leader \notin Members

Procs == {Leader} \cup Members
Streams == {"stdout", "stderr"}
Exits == {"code", "signal"}     \* exited with a code; killed by a signal

VARIABLES
    alive,      \* processes that run
    group,      \* those of them in the leader's group
    holds,      \* those that hold the write ends of the pipes
    deaf,       \* those that survive SIGTERM
    doomed,     \* those a fatal signal was delivered to
    status,     \* how the leader ended, "none" while it runs
    reaped,     \* the leader's zombie is gone, and with it its pid
    pc,         \* where teardown is
    leaderExit, \* its leader_exit: "none", Some(Some(_)) or Some(None)
    code,       \* what it returns: "none" before, "code", "null" or "-9"
    supOpen,    \* the incarnation still holds supervisor_tx
    cancel,     \* cancel_capture was sent
    capture     \* the capture tasks

os == <<alive, group, holds, deaf, doomed, status>>
vars == <<os, reaped, pc, leaderExit, code, supOpen, cancel, capture>>

-----------------------------------------------------------------------------
(* A pid, and so a group id, is not reused while its process is unreaped   *)
(* or its group has a member.                                              *)
Pinned == ~reaped \/ group # {}

Captured(s) == capture[s] \in {"finished", "aborted"}
AllCaptured == \A s \in Streams : Captured(s)

(* The exit peek_exit reports: it leaves the zombie where it is.           *)
PeekExit == status

Init ==
    /\ alive \in {ps \in SUBSET Procs : Leader \in ps}
    /\ group = alive
    /\ holds \in SUBSET alive
    /\ deaf \in SUBSET alive
    /\ doomed = {} /\ status = "none" /\ reaped = FALSE
    /\ pc = "idle" /\ leaderExit = "none" /\ code = "none"
    /\ supOpen = TRUE /\ cancel = FALSE
    /\ capture = [s \in Streams |-> "reading"]

-----------------------------------------------------------------------------
(* teardown                                                                *)

(* The actor starts it, with the exit a handler had seen by then or none.  *)
Start ==
    /\ pc = "idle"
    /\ \E seen \in {"none", status} : leaderExit' = seen
    /\ pc' = "sigterm"
    /\ UNCHANGED <<os, reaped, code, supOpen, cancel, capture>>

Sigterm ==
    /\ pc = "sigterm"
    /\ supOpen' = FALSE
    /\ doomed' = doomed \cup (group \ deaf)
    /\ pc' = "grace"
    /\ UNCHANGED <<alive, group, holds, deaf, status, reaped, leaderExit, code, cancel,
                   capture>>

(* One turn of the polling loop.                                           *)
Poll_Reaps ==
    /\ pc = "grace"
    /\ leaderExit' = IF leaderExit = "none" THEN PeekExit ELSE leaderExit
    /\ reaped' = (leaderExit' # "none")
    /\ pc' = IF leaderExit' # "none" /\ AllCaptured THEN "sigkill" ELSE pc
    /\ UNCHANGED <<os, code, supOpen, cancel, capture>>
Poll ==
    /\ pc = "grace"
    /\ leaderExit' = IF leaderExit = "none" THEN PeekExit ELSE leaderExit
    /\ pc' = IF leaderExit' # "none" /\ AllCaptured THEN "sigkill" ELSE pc
    /\ UNCHANGED <<os, reaped, code, supOpen, cancel, capture>>

GraceOver ==
    /\ pc = "grace"
    /\ pc' = "sigkill"
    /\ UNCHANGED <<os, reaped, leaderExit, code, supOpen, cancel, capture>>

Sigkill_OnlyIfAlive ==
    /\ pc = "sigkill"
    /\ doomed' = IF leaderExit = "none" THEN doomed \cup group ELSE doomed
    /\ pc' = "reap"
    /\ UNCHANGED <<alive, group, holds, deaf, status, reaped, leaderExit, code, supOpen,
                   cancel, capture>>
Sigkill ==
    /\ pc = "sigkill"
    /\ doomed' = doomed \cup group
    /\ pc' = "reap"
    /\ UNCHANGED <<alive, group, holds, deaf, status, reaped, leaderExit, code, supOpen,
                   cancel, capture>>

(* leader_exit.unwrap_or_else(...) on the outcome of the wait.             *)
CodeOf_Waited(exit, waited) ==
    IF waited = "code" THEN "code" ELSE "-9"
CodeOf(exit, waited) ==
    IF exit = "code" THEN "code"
    ELSE IF exit = "signal" THEN "null"
    ELSE IF waited = "code" THEN "code" ELSE "-9"

(* child.wait() returns once the leader is dead, and reaps it.             *)
Reap ==
    /\ pc = "reap" /\ status # "none"
    /\ reaped' = TRUE
    /\ code' = CodeOf(leaderExit, status)
    /\ pc' = "drain"
    /\ UNCHANGED <<os, leaderExit, supOpen, cancel, capture>>

(* REAP_CAP: the leader is left to tokio's orphan reaper.                  *)
ReapOver_Never ==
    /\ FALSE
    /\ UNCHANGED vars
ReapOver ==
    /\ pc = "reap"
    /\ code' = CodeOf(leaderExit, "none")
    /\ pc' = "drain"
    /\ UNCHANGED <<os, reaped, leaderExit, supOpen, cancel, capture>>

(* join_capture: wait for the capture tasks, cancel the ones that are left *)
(* when CAPTURE_DRAIN is over, abort what then outlasts CAPTURE_CANCEL.    *)
Joined ==
    /\ pc \in {"drain", "cancel"} /\ AllCaptured
    /\ pc' = "done"
    /\ UNCHANGED <<os, reaped, leaderExit, code, supOpen, cancel, capture>>

DrainOver ==
    /\ pc = "drain" /\ ~AllCaptured
    /\ cancel' = TRUE
    /\ pc' = "cancel"
    /\ UNCHANGED <<os, reaped, leaderExit, code, supOpen, capture>>

CancelOver_NoAbort ==
    /\ pc = "cancel" /\ ~AllCaptured
    /\ pc' = "done"
    /\ UNCHANGED <<os, reaped, leaderExit, code, supOpen, cancel, capture>>
CancelOver ==
    /\ pc = "cancel" /\ ~AllCaptured
    /\ capture' = [s \in Streams |-> IF Captured(s) THEN capture[s] ELSE "aborted"]
    /\ pc' = "done"
    /\ UNCHANGED <<os, reaped, leaderExit, code, supOpen, cancel>>

Task == Start \/ Sigterm \/ Poll \/ GraceOver \/ Sigkill \/ Reap \/ ReapOver \/ Joined
        \/ DrainOver \/ CancelOver

-----------------------------------------------------------------------------
(* capture_output                                                          *)

(* The pipe reaches EOF when nobody alive holds its write end; an error of *)
(* the read, or a line that is not text, ends the task's loop in the same  *)
(* way, earlier, and only shortens the drain.  The task then drains its    *)
(* supervisor channel until that is closed; stderr's was closed from the   *)
(* start.                                                                  *)
Eof(s) ==
    /\ capture[s] = "reading" /\ holds = {}
    /\ capture' = [capture EXCEPT ![s] = "draining"]
    /\ UNCHANGED <<os, reaped, pc, leaderExit, code, supOpen, cancel>>

Drained(s) ==
    /\ capture[s] = "draining" /\ (s = "stdout" => ~supOpen)
    /\ capture' = [capture EXCEPT ![s] = "finished"]
    /\ UNCHANGED <<os, reaped, pc, leaderExit, code, supOpen, cancel>>

(* Only the reading loop listens to cancel.                                *)
Cancelled(s) ==
    /\ capture[s] = "reading" /\ cancel
    /\ capture' = [capture EXCEPT ![s] = "finished"]
    /\ UNCHANGED <<os, reaped, pc, leaderExit, code, supOpen, cancel>>

Capture == \E s \in Streams : Eof(s) \/ Drained(s) \/ Cancelled(s)

-----------------------------------------------------------------------------
(* The process group                                                       *)

Runs(p) == p \in alive /\ p \notin doomed

(* A child shares its parent's group, pipes and signal dispositions.       *)
Fork(p, q) ==
    /\ Runs(p) /\ q \notin alive /\ q # Leader
    /\ alive' = alive \cup {q}
    /\ group' = IF p \in group THEN group \cup {q} ELSE group
    /\ holds' = IF p \in holds THEN holds \cup {q} ELSE holds
    /\ deaf' = IF p \in deaf THEN deaf \cup {q} ELSE deaf
    /\ UNCHANGED <<doomed, status, reaped, pc, leaderExit, code, supOpen, cancel, capture>>

(* setsid or setpgid: not open to the leader of a group.                   *)
Leave(p) ==
    /\ Runs(p) /\ p # Leader /\ p \in group
    /\ group' = group \ {p}
    /\ UNCHANGED <<alive, holds, deaf, doomed, status, reaped, pc, leaderExit, code,
                   supOpen, cancel, capture>>

Exit(p) ==
    /\ p \in alive
    /\ alive' = alive \ {p} /\ group' = group \ {p} /\ holds' = holds \ {p}
    /\ deaf' = deaf \ {p} /\ doomed' = doomed \ {p}
    /\ status' \in IF p = Leader THEN Exits ELSE {status}
    /\ UNCHANGED <<reaped, pc, leaderExit, code, supOpen,
                   cancel, capture>>

Os == \/ \E p \in Procs : Leave(p) \/ Exit(p)
      \/ \E p, q \in Procs : Fork(p, q)

Next == Task \/ Capture \/ Os

Spec == Init /\ [][Next]_vars

(* The runtime polls the task and every deadline passes; the group and the *)
(* pipes owe nothing.                                                      *)
FairSpec == Spec /\ WF_vars(Task)

-----------------------------------------------------------------------------
TypeOK ==
    /\ alive \subseteq Procs /\ group \subseteq alive /\ holds \subseteq alive
    /\ deaf \subseteq alive /\ doomed \subseteq alive
    /\ status \in {"none"} \cup Exits /\ leaderExit \in {"none"} \cup Exits
    /\ reaped \in BOOLEAN /\ supOpen \in BOOLEAN /\ cancel \in BOOLEAN
    /\ pc \in {"idle", "sigterm", "grace", "sigkill", "reap", "drain", "cancel", "done"}
    /\ code \in {"none", "code", "null", "-9"}
    /\ capture \in [Streams -> {"reading", "draining", "finished", "aborted"}]

(* Every signal is sent while the group id still belongs to this group, so *)
(* it can never hit an unrelated one that reused the id: not even the      *)
(* SIGKILL that follows a leader seen to have exited.                      *)
SafeSignals == pc \in {"sigterm", "grace", "sigkill"} => Pinned

(* When teardown is over, nothing that stayed in the group survives: each  *)
(* process has been delivered a fatal signal, also one whose leader left   *)
(* cooperatively or that was forked during the grace period.               *)
GroupDoomed ==
    pc \in {"reap", "drain", "cancel", "done"} => group \subseteq doomed

(* When teardown is over no capture task is left, whoever holds the pipes, *)
(* so a respawn never shares its log files with an older task.             *)
CaptureOver == pc = "done" => AllCaptured

(* An exit that was seen before or during the grace period is what         *)
(* teardown returns, whatever the wait reports afterwards.                 *)
KnownExitKept ==
    pc = "done" => /\ leaderExit = "code" => code = "code"
                   /\ leaderExit = "signal" => code = "null"
                   /\ code = "code" => status = "code"

(* teardown always returns: neither a deaf group, a leader that does not   *)
(* die nor a pipe held open by an escaped process holds it up.             *)
TeardownEnds == pc = "sigterm" ~> pc = "done"
=============================================================================

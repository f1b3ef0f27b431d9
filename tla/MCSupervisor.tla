---------------------------- MODULE MCSupervisor ----------------------------
(* Small instances of Supervisor for TLC.                                  *)
EXTENDS SupervisorLifecycle, TLC

CONSTANTS a, b, c1, c2, s1, s2

Always1 == [mode |-> "always", max |-> 1]
OnFailure == [mode |-> "on-failure", max |-> Unlimited]
Always0 == [mode |-> "always", max |-> 0]
Never == [mode |-> "never", max |-> Unlimited]

CorePolicies == {Always1}
NeverPolicies == {Never}
LivePolicies == {OnFailure, Always0}

Perms == Permutations({a, b}) \cup Permutations({c1, c2})
=============================================================================

----------------------------- MODULE Lifecycle ------------------------------
(***************************************************************************)
(* What the supervisor promises its clients about the processes of a       *)
(* session, without records, messages, timers or watchers.                 *)
(*                                                                         *)
(* A name has one process group at a time: a new one starts only when      *)
(* nothing of the one before is left, with a generation of its own.  A     *)
(* stop or restart is owed an answer until the group it was about is gone; *)
(* a stop-all until every group is, and while it is owed nothing starts.   *)
(***************************************************************************)
EXTENDS Integers

CONSTANTS
    Names,      \* process names
    Clients     \* those who ask

Kinds == {"Stop", "Restart"}

VARIABLES
    group,      \* each name's process group: none, alive, or being ended
    gen,        \* the generation of each name's latest group, 0 for none
    issued,     \* generations issued so far
    owed,       \* stops and restarts not yet answered: <<name, <<client, kind>>>>
    owedAll     \* clients whose stop-all is not yet answered

vars == <<group, gen, issued, owed, owedAll>>

Init ==
    /\ group = [n \in Names |-> "none"]
    /\ gen = [n \in Names |-> 0] /\ issued = 0
    /\ owed = {} /\ owedAll = {}

(* The next generation of n starts, when nothing else of n is there.       *)
Started(n) ==
    /\ group[n] = "none" /\ owedAll = {}
    /\ group' = [group EXCEPT ![n] = "alive"]
    /\ gen' = [gen EXCEPT ![n] = issued + 1]
    /\ issued' = issued + 1
    /\ UNCHANGED owedAll

Start(n) == Started(n) /\ UNCHANGED owed

(* A stop or a restart begins or joins the end of a group.                 *)
Ask(n, c, k) ==
    /\ k = "Restart" => owedAll = {}
    /\ owed' = owed \cup {<<n, <<c, k>>>>}
    /\ \/ group' = [group EXCEPT ![n] = "ending"]
       \/ group[n] # "alive" /\ group' = group
    /\ UNCHANGED <<gen, issued, owedAll>>

(* A crash or a file change ends a group to replace it.                    *)
Replace(n) ==
    /\ owedAll = {}
    /\ group' = [group EXCEPT ![n] = "ending"]
    /\ UNCHANGED <<gen, issued, owed, owedAll>>

(* Everything is gone and is forgotten.                                    *)
Forgotten ==
    /\ \A n \in Names : group[n] = "none"
    /\ gen' = [n \in Names |-> 0]
    /\ owed' = {} /\ owedAll' = {}
    /\ UNCHANGED <<group, issued>>

AskAll(c) ==
    \/ /\ group' = [n \in Names |-> IF group[n] = "alive" THEN "ending" ELSE group[n]]
       /\ owedAll' = owedAll \cup {c}
       /\ UNCHANGED <<gen, issued, owed>>
    \/ owedAll = {} /\ owed = {} /\ Forgotten

(* A group is gone, and those who waited for that are answered.            *)
Gone(n) ==
    /\ group[n] = "ending"
    /\ group' = [group EXCEPT ![n] = "none"]
    /\ UNCHANGED <<gen, issued, owed, owedAll>>

Settle(n) ==
    /\ group[n] = "none"
    /\ \/ /\ owed' = {o \in owed : o[1] # n}
          /\ \/ Started(n)
             \/ owedAll = {} /\ issued' = issued + 1 /\ UNCHANGED <<group, gen, owedAll>>
             \/ UNCHANGED <<group, gen, issued, owedAll>>
       \/ owedAll # {} /\ (\A o \in owed : o[1] = n) /\ Forgotten

Next ==
    \/ \E n \in Names : Start(n) \/ Replace(n) \/ Gone(n) \/ Settle(n)
    \/ \E n \in Names, c \in Clients, k \in Kinds : Ask(n, c, k)
    \/ \E c \in Clients : AskAll(c)

Spec == Init /\ [][Next]_vars
=============================================================================

--------------------------- MODULE SupervisorProofs ---------------------------
(***************************************************************************)
(* Proofs about Supervisor, for any sets of names, clients, policies,      *)
(* ports and slots, and any bound.                                         *)
(***************************************************************************)
EXTENDS SupervisorLifecycle, TLAPS, WellFoundedInduction

(* What holds of one record.                                               *)
Good(p) == p \in Records /\ WellFormed(p)

(* The empty record is one, and well formed.                               *)
LEMMA NoProcGood == Good(NoProc)
BY DEF Good, NoProc, Records, WellFormed, Codes, Respawns, Modes, Unlimited, NoPort

(* refresh_exit_states turns only an unseen exit into Exited; everything   *)
(* else a handler relies on stays.                                         *)
LEMMA SeenExitGood ==
    ASSUME NEW p, Good(p), Unseen(p)
    PROVE  /\ Good(SeenExit(p))
           /\ SeenExit(p).life = "Exited" /\ SeenExit(p).inc /\ p.inc
           /\ SeenExit(p).why = "Natural"
           /\ SeenExit(p).gen = p.gen /\ SeenExit(p).timer = FALSE /\ p.timer = FALSE
           /\ SeenExit(p).count = p.count /\ SeenExit(p).policy = p.policy
           /\ SeenExit(p).port = p.port
BY DEF Good, SeenExit, Unseen, Records, WellFormed, Codes

(* start_teardown on a record that is not being torn down.                 *)
LEMMA TornDownGood ==
    ASSUME NEW p, Good(p), p.life \in {"Running", "Exited"},
           NEW then \in {"Park"} \cup Respawns,
           NEW ws \in SUBSET (Clients \X {"Stop", "Restart"})
    PROVE  LET q == TornDown(p, then, ws)
           IN  /\ Good(q)
               /\ q.life = "Stopping" /\ ~q.inc /\ q.gen = p.gen /\ q.then = then
               /\ q.waiters = ws /\ ~q.timer /\ q.count = p.count /\ q.policy = p.policy
               /\ q.port = p.port
<1> DEFINE l == IF p.life = "Running" THEN "alive" ELSE p.leader
           q == TornDown(p, then, ws)
<1>1. l \in {"alive"} \cup Codes
  BY DEF Good, Records
<1>2. q = [p EXCEPT !.life = "Stopping", !.leader = l, !.why = "none", !.inc = FALSE,
                    !.timer = FALSE, !.then = then, !.waiters = ws, !.handle = FALSE]
  BY DEF TornDown
<1> HIDE DEF l, q
<1>3. /\ q \in Records
      /\ q.life = "Stopping" /\ q.inc = FALSE /\ q.gen = p.gen /\ q.then = then
      /\ q.waiters = ws /\ q.timer = FALSE /\ q.count = p.count /\ q.policy = p.policy
      /\ q.port = p.port /\ q.why = "none"
  BY <1>1, <1>2, SMT, ZenonT(60) DEF Good, Records, Respawns
<1>4. WellFormed(q)
  BY <1>3 DEF WellFormed, Respawns
<1> QED
  BY <1>3, <1>4 DEF Good, q

(* Joining a stop in flight leaves the record Stopping.                    *)
LEMMA JoinedGood ==
    ASSUME NEW p, Good(p), p.life = "Stopping",
           NEW then \in {"Park"} \cup Respawns,
           NEW w \in Clients \X {"Stop", "Restart"}
    PROVE  LET q == Joined(p, then, w)
           IN  /\ Good(q)
               /\ q.life = "Stopping" /\ ~q.inc /\ q.gen = p.gen /\ q.then = then
               /\ q.waiters = p.waiters \cup {w} /\ ~q.timer /\ q.count = p.count
               /\ q.policy = p.policy /\ q.port = p.port
BY DEF Good, Joined, Records, WellFormed, Respawns

(* finish_teardown without a respawn.                                      *)
LEMMA ParkedGood ==
    ASSUME NEW p, Good(p), p.life = "Stopping", NEW code \in Codes
    PROVE  LET q == Parked(p, code)
           IN  /\ Good(q)
               /\ q.life = "Exited" /\ q.why = "Manual" /\ ~q.inc /\ q.gen = p.gen
               /\ q.waiters = {} /\ ~q.timer /\ q.count = p.count
               /\ q.policy = p.policy /\ q.port = p.port
BY DEF Good, Parked, Records, WellFormed, Codes

(* setup_watcher changes nothing but the watch fields.                     *)
LEMMA WatcherSetGood ==
    ASSUME NEW p, Good(p), NEW ok \in BOOLEAN
    PROVE  LET q == WatcherSet(p, ok)
           IN  /\ Good(q)
               /\ q.life = p.life /\ q.gen = p.gen /\ q.inc = p.inc /\ q.why = p.why
               /\ q.waiters = p.waiters /\ q.timer = p.timer /\ q.count = p.count
               /\ q.policy = p.policy /\ q.port = p.port
<1> DEFINE b == p.watch /\ ok
           q == WatcherSet(p, ok)
<1>1. b \in BOOLEAN
  OBVIOUS
<1>2. q = [p EXCEPT !.watch = b, !.handle = b]
  BY DEF WatcherSet
<1> HIDE DEF b, q
<1>3. /\ q \in Records
      /\ q.life = p.life /\ q.gen = p.gen /\ q.inc = p.inc /\ q.why = p.why
      /\ q.waiters = p.waiters /\ q.timer = p.timer /\ q.count = p.count
      /\ q.policy = p.policy /\ q.port = p.port /\ q.then = p.then /\ q.leader = p.leader
  BY <1>1, <1>2 DEF Good, Records
<1>4. WellFormed(q)
  BY <1>3 DEF Good, WellFormed
<1> QED
  BY <1>3, <1>4 DEF Good, q

(* A respawn leaves a running incarnation of a new generation, or a failed *)
(* record without one.                                                     *)
LEMMA RespawnedGood ==
    ASSUME NEW p, Good(p), p.life = "Exited", p.why = "Manual", nextGen \in Nat,
           NEW reason \in Respawns, NEW ok \in BOOLEAN, NEW wok \in BOOLEAN
    PROVE  LET q == Respawned(p, reason, ok, wok)
           IN  /\ Good(q)
               /\ ok => q.life = "Running" /\ q.gen = nextGen + 1
               /\ ~ok => q.life = "Exited" /\ q.why = "SpawnFailed" /\ q.gen = p.gen
               /\ q.inc = ok /\ q.waiters = {} /\ ~q.timer
               /\ q.count = (IF reason = "Manual" THEN 0 ELSE p.count)
               /\ q.policy = p.policy /\ q.port = p.port
<1> DEFINE k == IF reason = "Manual" THEN 0 ELSE p.count
           r == [p EXCEPT !.count = k]
           u == [r EXCEPT !.life = "Running", !.leader = "alive", !.why = "none",
                          !.inc = TRUE, !.gen = nextGen + 1]
           f == [r EXCEPT !.why = "SpawnFailed"]
           q == Respawned(p, reason, ok, wok)
<1>1. k \in Nat
  BY DEF Good, Records
<1>2. q = IF ok THEN WatcherSet(u, wok) ELSE f
  BY DEF Respawned
<1>3. p.waiters = {} /\ p.inc = FALSE /\ p.timer = FALSE /\ p.then = "none"
  BY DEF Good, Records, WellFormed
<1>u. u = [p EXCEPT !.count = k, !.life = "Running", !.leader = "alive", !.why = "none",
                   !.inc = TRUE, !.gen = nextGen + 1]
  OBVIOUS
<1>f. f = [p EXCEPT !.count = k, !.why = "SpawnFailed"]
  OBVIOUS
<1>g. nextGen + 1 \in Nat
  OBVIOUS
<1> HIDE DEF k, u, f
<1>4. /\ u \in Records /\ u.life = "Running" /\ u.gen = nextGen + 1 /\ u.inc = TRUE
      /\ u.waiters = {} /\ u.timer = FALSE /\ u.count = k /\ u.policy = p.policy
      /\ u.port = p.port /\ u.why = "none" /\ u.then = "none"
  BY <1>1, <1>3, <1>u, <1>g DEF Good, Records
<1>5. /\ f \in Records /\ f.life = "Exited" /\ f.gen = p.gen /\ f.inc = FALSE
      /\ f.waiters = {} /\ f.timer = FALSE /\ f.count = k /\ f.policy = p.policy
      /\ f.port = p.port /\ f.why = "SpawnFailed" /\ f.then = "none"
      /\ f.leader = p.leader
  BY <1>1, <1>3, <1>f DEF Good, Records
<1> HIDE DEF q
<1>6. Good(u) /\ Good(f)
  BY <1>4, <1>5 DEF Good, WellFormed
<1>7. CASE ok
  <2>1. q = WatcherSet(u, wok)
    BY <1>2, <1>7
  <2>2. /\ Good(q) /\ q.life = "Running" /\ q.gen = nextGen + 1 /\ q.inc = TRUE
        /\ q.waiters = {} /\ q.timer = FALSE /\ q.count = k /\ q.policy = p.policy
        /\ q.port = p.port
    BY <2>1, <1>4, <1>6, WatcherSetGood
  <2> QED
    BY <1>7, <2>2 DEF q, k
<1>8. CASE ~ok
  <2>1. q = f
    BY <1>2, <1>8
  <2> QED
    BY <1>5, <1>6, <1>8, <2>1 DEF q, k
<1> QED
  BY <1>7, <1>8

(* spawn_process inserts a running record of a new generation.             *)
LEMMA NewRecordGood ==
    ASSUME nextGen \in Nat, NEW pol \in [mode : Modes, max : Nat \cup {Unlimited}],
           NEW w \in BOOLEAN, NEW port \in Nat, NEW ok \in BOOLEAN
    PROVE  LET q == NewRecord(pol, w, port, ok)
           IN  /\ Good(q)
               /\ q.life = "Running" /\ q.gen = nextGen + 1 /\ q.inc
               /\ q.waiters = {} /\ ~q.timer /\ q.count = 0 /\ q.policy = pol
               /\ q.port = port
<1> DEFINE u == [NoProc EXCEPT !.life = "Running", !.leader = "alive", !.inc = TRUE,
                    !.gen = nextGen + 1, !.policy = pol, !.watch = w, !.port = port]
           q == NewRecord(pol, w, port, ok)
<1>u. u = [NoProc EXCEPT !.life = "Running", !.leader = "alive", !.inc = TRUE,
                    !.gen = nextGen + 1, !.policy = pol, !.watch = w, !.port = port]
  OBVIOUS
<1>2. q = WatcherSet(u, ok)
  BY DEF NewRecord
<1>g. nextGen + 1 \in Nat
  OBVIOUS
<1>n. /\ NoProc \in Records /\ NoProc.waiters = {} /\ NoProc.timer = FALSE
      /\ NoProc.count = 0 /\ NoProc.why = "none" /\ NoProc.then = "none"
  BY NoProcGood DEF Good, NoProc
<1> HIDE DEF u, q
<1>1. /\ u \in Records /\ u.life = "Running" /\ u.gen = nextGen + 1 /\ u.inc = TRUE
      /\ u.waiters = {} /\ u.timer = FALSE /\ u.count = 0 /\ u.policy = pol
      /\ u.port = port /\ u.why = "none" /\ u.then = "none"
  BY <1>u, <1>g, <1>n DEF Records
<1>3. Good(u)
  BY <1>1 DEF Good, WellFormed
<1> QED
  BY <1>1, <1>2, <1>3, WatcherSetGood DEF q

(* What every handler that refreshes first may still assume.               *)
LEMMA RefreshedGood ==
    ASSUME procs \in [Names -> Records], LifeShape
    PROVE  LET ps == Refreshed(procs)
           IN  /\ ps \in [Names -> Records]
               /\ \A n \in Names :
                    /\ Good(ps[n])
                    /\ Unseen(procs[n]) => ps[n] = SeenExit(procs[n])
                    /\ ~Unseen(procs[n]) => ps[n] = procs[n]
                    /\ ps[n].gen = procs[n].gen /\ ps[n].timer = procs[n].timer
                    /\ ps[n].inc = procs[n].inc
                    /\ ps[n].count = procs[n].count /\ ps[n].policy = procs[n].policy
                    /\ ps[n].port = procs[n].port
                    /\ ps[n].life = "Stopping" <=> procs[n].life = "Stopping"
                    /\ ps[n].life = "Absent" <=> procs[n].life = "Absent"
                    /\ ps[n].life = "Running" => procs[n].life = "Running"
                    /\ ps[n].then = procs[n].then /\ ps[n].waiters = procs[n].waiters
<1> DEFINE ps == Refreshed(procs)
<1>1. ASSUME NEW n \in Names
      PROVE  /\ Good(ps[n])
             /\ Unseen(procs[n]) => ps[n] = SeenExit(procs[n])
             /\ ~Unseen(procs[n]) => ps[n] = procs[n]
             /\ ps[n].gen = procs[n].gen /\ ps[n].timer = procs[n].timer
             /\ ps[n].inc = procs[n].inc
             /\ ps[n].count = procs[n].count /\ ps[n].policy = procs[n].policy
             /\ ps[n].port = procs[n].port
             /\ ps[n].life = "Stopping" <=> procs[n].life = "Stopping"
             /\ ps[n].life = "Absent" <=> procs[n].life = "Absent"
             /\ ps[n].life = "Running" => procs[n].life = "Running"
             /\ ps[n].then = procs[n].then /\ ps[n].waiters = procs[n].waiters
  <2>1. Good(procs[n])
    BY <1>1 DEF Good, LifeShape
  <2>2. ps[n] = IF Unseen(procs[n]) THEN SeenExit(procs[n]) ELSE procs[n]
    BY <1>1 DEF Refreshed
  <2>3. CASE Unseen(procs[n])
    <3>1. SeenExit(procs[n]).then = procs[n].then /\ SeenExit(procs[n]).waiters = procs[n].waiters
      BY <2>1 DEF SeenExit, Good, Records
    <3>2. procs[n].inc \in BOOLEAN /\ SeenExit(procs[n]).inc = procs[n].inc
      BY <2>1 DEF SeenExit, Good, Records
    <3>3. /\ Good(SeenExit(procs[n]))
          /\ SeenExit(procs[n]).life = "Exited"
          /\ SeenExit(procs[n]).gen = procs[n].gen
          /\ SeenExit(procs[n]).timer = procs[n].timer
          /\ SeenExit(procs[n]).count = procs[n].count
          /\ SeenExit(procs[n]).policy = procs[n].policy
          /\ SeenExit(procs[n]).port = procs[n].port
      BY <2>1, <2>3, SeenExitGood
    <3>4. procs[n].life = "Running" /\ ps[n] = SeenExit(procs[n])
      BY <2>2, <2>3 DEF Unseen
    <3> HIDE DEF ps
    <3> QED
      BY <2>3, <3>1, <3>2, <3>3, <3>4
  <2>4. CASE ~Unseen(procs[n])
    BY <2>1, <2>2, <2>4
  <2> QED
    BY <2>3, <2>4
<1>2. ps \in [Names -> Records]
  BY <1>1 DEF Refreshed, Good
<1> QED
  BY <1>1, <1>2

-----------------------------------------------------------------------------
(* The inductive invariant of the teardown protocol.  OneTeardown alone is *)
(* not inductive: that clear() in finish_stop_all drops no record with a   *)
(* teardown in flight needs StopAllCovers, which in turn needs to know     *)
(* that a record without an incarnation is not running (LifeShape).        *)
Inv == TypeOK /\ LifeShape /\ OneTeardown /\ StopAllCovers

(* The step starts, joins and finishes no teardown.                        *)
Quiet ==
    /\ procs' \in [Names -> Records]
    /\ \A n \in Names :
            /\ Good(procs'[n])
            /\ procs'[n].gen = procs[n].gen
            /\ procs'[n].inc = procs[n].inc
            /\ procs[n].life = "Stopping" => procs'[n] = procs[n]
            /\ procs'[n].life = "Stopping" => procs[n].life = "Stopping"
    /\ UNCHANGED <<tasks, finished, batch>>

(* A quiet step keeps the teardown protocol's invariants.                  *)
LEMMA QuietStep ==
    ASSUME Inv, Quiet
    PROVE  LifeShape' /\ OneTeardown' /\ StopAllCovers'
<1> USE DEF Quiet
<1>1. LifeShape'
  BY DEF LifeShape, Good
<1>2. OneTeardown'
  BY DEF Inv, TypeOK, OneTeardown
<1>3. StopAllCovers'
  <2>1. ASSUME NEW n \in Names, procs[n].life # "Stopping", procs[n].inc = FALSE
        PROVE  procs'[n].life \in {"Absent", "Exited"} /\ procs'[n].inc = FALSE
    BY <2>1 DEF Good, WellFormed, Records
  <2>2. CASE batch.on
    <3>1. batch' = batch /\ batch.remaining # {} /\ batch.replies # {}
      BY <2>2 DEF Inv, StopAllCovers
    <3>2. ASSUME NEW n \in Names, n \in batch.remaining
          PROVE  procs'[n].life = "Stopping" /\ procs'[n].then = "Park"
      BY <2>2, <3>2 DEF Inv, StopAllCovers
    <3>3. ASSUME NEW n \in Names, n \notin batch.remaining
          PROVE  procs'[n].life \in {"Absent", "Exited"} /\ ~procs'[n].inc
      <4>1. procs[n].life \in {"Absent", "Exited"} /\ ~procs[n].inc
        BY <2>2, <3>3 DEF Inv, StopAllCovers
      <4>2. procs[n].inc \in BOOLEAN
        BY DEF Inv, TypeOK, Records
      <4> QED
        BY <4>1, <4>2, <2>1
    <3> QED
      BY <2>2, <3>1, <3>2, <3>3 DEF StopAllCovers
  <2>3. CASE ~batch.on
    BY <2>3 DEF Inv, StopAllCovers
  <2> QED
    BY <2>2, <2>3
<1> QED
  BY <1>1, <1>2, <1>3

(* The step starts the teardown of the records D, with the tasks T.        *)
Begins(D, T) ==
    /\ D \in SUBSET Names
    /\ procs' \in [Names -> Records]
    /\ \A n \in Names :
            /\ Good(procs'[n])
            /\ procs'[n].gen = procs[n].gen
            /\ n \in D => procs[n].life # "Stopping" /\ procs'[n].life = "Stopping"
            /\ n \notin D => (procs'[n].life = "Stopping" <=> procs[n].life = "Stopping")
    /\ tasks' = tasks \cup T /\ finished' = finished
    /\ \A t \in T : t.name \in D /\ t.gen = procs[t.name].gen
    /\ \A t, u \in T : t.name = u.name => t = u
    /\ \A n \in D : \E t \in T : t.name = n

(* Starting teardowns of records that have none keeps one per record.      *)
LEMMA BeginStep ==
    ASSUME Inv, NEW D, NEW T, Begins(D, T)
    PROVE  LifeShape' /\ OneTeardown'
<1>1. LifeShape'
  BY DEF LifeShape, Good, Begins
<1>2. \A t \in tasks : t.name \in Names \ D
  BY DEF Inv, TypeOK, OneTeardown, Begins
<1>3. \A m \in finished : m.name \in Names \ D
  BY DEF Inv, TypeOK, OneTeardown, Begins
<1>4. \A t \in tasks' : procs'[t.name].life = "Stopping" /\ procs'[t.name].gen = t.gen
  BY <1>2 DEF Inv, OneTeardown, Begins
<1>5. \A m \in finished' : procs'[m.name].life = "Stopping" /\ procs'[m.name].gen = m.gen
  BY <1>3 DEF Inv, OneTeardown, Begins
<1>6. \A t, u \in tasks' : t.name = u.name => t = u
  BY <1>2 DEF Inv, OneTeardown, Begins
<1>7. \A t \in tasks', m \in finished' : t.name # m.name
  BY <1>3 DEF Inv, OneTeardown, Begins
<1>8. \A n \in Names : procs'[n].life = "Stopping" =>
            (\E t \in tasks' : t.name = n) \/ (\E m \in finished' : m.name = n)
  BY DEF Inv, OneTeardown, Begins
<1> QED
  BY <1>1, <1>4, <1>5, <1>6, <1>7, <1>8 DEF Inv, OneTeardown, Begins

(* The same for the one record n, seen as q when the task was made, while  *)
(* no stop-all runs.                                                       *)
BeginsOne(n, q) ==
    /\ ~batch.on /\ n \in Names
    /\ procs' \in [Names -> Records]
    /\ \A k \in Names \ {n} :
            /\ Good(procs'[k])
            /\ procs'[k].gen = procs[k].gen
            /\ procs'[k].life = "Stopping" <=> procs[k].life = "Stopping"
    /\ Good(procs'[n]) /\ procs'[n].gen = procs[n].gen
    /\ procs[n].life # "Stopping" /\ procs'[n].life = "Stopping"
    /\ q.gen = procs[n].gen /\ tasks' = tasks \cup {TaskOf(n, q)}
    /\ UNCHANGED <<finished, batch>>

(* Starting one teardown while no stop-all runs.                           *)
LEMMA BeginOne ==
    ASSUME Inv, NEW n, NEW q, BeginsOne(n, q)
    PROVE  LifeShape' /\ OneTeardown' /\ StopAllCovers'
<1> DEFINE t == TaskOf(n, q)
           D == {n}
           T == {t}
<1>1. t.name = n /\ t.gen = procs[n].gen
  BY DEF TaskOf, BeginsOne
<1> HIDE DEF t
<1>2. D \in SUBSET Names /\ tasks' = tasks \cup T /\ finished' = finished
  BY DEF t, BeginsOne
<1>3. \A k \in Names :
        /\ Good(procs'[k])
        /\ procs'[k].gen = procs[k].gen
        /\ k \in D => procs[k].life # "Stopping" /\ procs'[k].life = "Stopping"
        /\ k \notin D => (procs'[k].life = "Stopping" <=> procs[k].life = "Stopping")
  BY DEF BeginsOne
<1>4. /\ \A u \in T : u.name \in D /\ u.gen = procs[u.name].gen
      /\ \A u, v \in T : u.name = v.name => u = v
      /\ \A k \in D : \E u \in T : u.name = k
  BY <1>1
<1>5. procs' \in [Names -> Records]
  BY DEF BeginsOne
<1> HIDE DEF D, T
<1>6. Begins(D, T)
  BY <1>2, <1>3, <1>4, <1>5 DEF Begins
<1>7. LifeShape' /\ OneTeardown'
  BY <1>6, BeginStep
<1>8. StopAllCovers'
  BY DEF Inv, StopAllCovers, BeginsOne
<1> QED
  BY <1>7, <1>8

-----------------------------------------------------------------------------
(* Ports                                                                   *)

(* The round robin returns a port of its range, or NoPort.                 *)
LEMMA AutoAssignType ==
    ASSUME nextPort \in AutoPorts, NEW free \in SUBSET AutoPorts
    PROVE  AutoAssign(free) \in AutoPorts \cup {NoPort}
<1> DEFINE size == PortMax - PortMin + 1
           assigned == {procs[n].port : n \in {m \in Names : HoldsPort(procs[m])}}
           S == free \ assigned
           Offset(p) == (p - nextPort + size) % size
           T == {Offset(p) : p \in S}
<1>1. CASE free \subseteq assigned
  BY <1>1 DEF AutoAssign
<1>2. CASE ~(free \subseteq assigned)
  <2>1. size \in Nat \ {0}
    BY PortsAssumption DEF AutoPorts
  <2>2. \A p \in S : p \in Int /\ nextPort \in Int
    BY PortsAssumption DEF AutoPorts
  <2> HIDE DEF size, S
  <2>3. \A p \in S : Offset(p) \in Nat
    BY <2>1, <2>2
  <2>4. T \subseteq Nat
    BY <2>3
  <2>5. T # {}
    BY <1>2 DEF S
  <2> HIDE DEF Offset
  <2>6. PICK x \in T : \A y \in T : x <= y
    <3>1. PICK x \in T : \A y \in T : ~(<<y, x>> \in OpToRel(<, Nat))
      BY <2>4, <2>5, NatLessThanWellFounded, WFMin
    <3>2. \A y \in T : ~(y < x)
      BY <2>4, <3>1 DEF OpToRel
    <3> QED
      BY <2>4, <3>2
  <2>7. \E p \in S : \A q \in S : Offset(p) <= Offset(q)
    BY <2>6
  <2>8. AutoAssign(free) = CHOOSE p \in S : \A q \in S : Offset(p) <= Offset(q)
    BY <1>2 DEF AutoAssign, S, Offset, size
  <2>9. AutoAssign(free) \in S
    BY <2>7, <2>8
  <2> QED
    BY <2>9 DEF S
<1> QED
  BY <1>1, <1>2

(* next_auto_port stays in the range, and a record gets a port or none.    *)
LEMMA PortTypes ==
    ASSUME nextPort \in AutoPorts, NEW free \in SUBSET AutoPorts, NEW port \in RunPorts
    PROVE  NextPort(port, free) \in AutoPorts /\ ResolvedPort(port, free) \in Nat
<1>1. AutoAssign(free) \in AutoPorts \cup {NoPort}
  BY AutoAssignType
<1>2. port \in Nat /\ AutoAssign(free) \in Nat
  BY <1>1, PortsAssumption DEF RunPorts, NoPort, AutoPorts
<1>3. NextPort(port, free) \in AutoPorts
  BY <1>1, PortsAssumption DEF NextPort, AutoPorts, NoPort
<1> QED
  BY <1>2, <1>3 DEF ResolvedPort

(* The published map is one of ports.                                      *)
LEMMA RunningPortsType ==
    ASSUME NEW ps \in [Names -> Records]
    PROVE  RunningPorts(ps) \in [Names -> Nat]
BY DEF RunningPorts, Records, NoPort

-----------------------------------------------------------------------------
(* One lemma per action                                                    *)

(* Initially nothing runs and nothing is in flight.                        *)
LEMMA InitInv == Init => Inv
<1> SUFFICES ASSUME Init PROVE Inv
  OBVIOUS
<1>1. \A n \in Names : procs[n] = NoProc /\ Good(procs[n]) /\ NoProc.life = "Absent"
  BY NoProcGood DEF Init, NoProc
<1>2. TypeOK
  <2>1. procs \in [Names -> Records]
    BY <1>1 DEF Init, Good
  <2>2. nextPort \in AutoPorts
    BY PortsAssumption DEF Init, AutoPorts
  <2>3. batch \in [on : BOOLEAN, remaining : SUBSET Names, replies : SUBSET Clients]
    BY DEF Init, NoBatch
  <2> QED
    BY <2>1, <2>2, <2>3 DEF Init, TypeOK, Answers, Pending, NoPort
<1>3. LifeShape
  BY <1>1 DEF LifeShape, Good
<1>4. OneTeardown
  BY <1>1 DEF Init, OneTeardown
<1>5. StopAllCovers
  BY DEF Init, StopAllCovers, NoBatch
<1> QED
  BY <1>2, <1>3, <1>4, <1>5 DEF Inv

(* Answers keep the type of clients.                                       *)
LEMMA AnswerType ==
    ASSUME TypeOK, NEW c \in Clients, NEW x \in Pending \cup Answers, Answer(c, x)
    PROVE  clients' \in [Clients -> Pending \cup Answers]
BY DEF TypeOK, Answer

(* Handlers that leave every record alone.                                 *)
LEMMA UnchangedProcs ==
    ASSUME Inv, UNCHANGED <<procs, tasks, finished, batch>>
    PROVE  LifeShape' /\ OneTeardown' /\ StopAllCovers'
BY DEF Inv, LifeShape, WellFormed, OneTeardown, StopAllCovers

(* A Spawn or Restart refused during a stop-all.                           *)
LEMMA RefusedInv ==
    ASSUME Inv, NEW c \in Clients, Refused(c)
    PROVE  Inv'
<1>1. LifeShape' /\ OneTeardown' /\ StopAllCovers'
  BY UnchangedProcs DEF Refused
<1>2. clients' \in [Clients -> Pending \cup Answers]
  BY AnswerType DEF Refused, Inv, Answers
<1>3. TypeOK'
  BY <1>2 DEF Inv, TypeOK, Refused
<1> QED
  BY <1>1, <1>3 DEF Inv

(* A Spawn that fails.                                                     *)
LEMMA SpawnErrorInv ==
    ASSUME Inv, NEW c \in Clients, NEW n \in Names, NEW port \in RunPorts,
           NEW free \in SUBSET AutoPorts, SpawnError(c, n, port, free)
    PROVE  Inv'
<1>1. LifeShape' /\ OneTeardown' /\ StopAllCovers'
  BY UnchangedProcs DEF SpawnError
<1>2. clients' \in [Clients -> Pending \cup Answers]
  BY AnswerType DEF SpawnError, Inv, Answers
<1>3. published' \in [Names -> Nat] /\ nextPort' \in AutoPorts
  BY RunningPortsType, PortTypes DEF SpawnError, Publish, Inv, TypeOK
<1>4. TypeOK'
  BY <1>2, <1>3 DEF Inv, TypeOK, SpawnError
<1> QED
  BY <1>1, <1>4 DEF Inv

(* A Spawn that inserts a record: no teardown of that name was in flight.  *)
LEMMA SpawnOkInv ==
    ASSUME Inv, NEW c \in Clients, NEW n \in Names, NEW pol \in Policies, NEW w \in BOOLEAN,
           NEW port \in RunPorts, NEW free \in SUBSET AutoPorts, NEW wok \in BOOLEAN,
           SpawnOk(c, n, pol, w, port, free, wok)
    PROVE  Inv'
<1> DEFINE r == ResolvedPort(port, free)
           q == NewRecord(pol, w, r, wok)
<1>1. nextPort \in AutoPorts /\ nextGen \in Nat /\ procs \in [Names -> Records]
  BY DEF Inv, TypeOK
<1>2. r \in Nat /\ nextPort' \in AutoPorts
  BY <1>1, PortTypes DEF SpawnOk
<1>3. pol \in [mode : Modes, max : Nat \cup {Unlimited}]
  BY PoliciesAssumption
<1> HIDE DEF r
<1>4. Good(q) /\ q.life = "Running"
  BY <1>1, <1>2, <1>3, NewRecordGood
<1>5. procs' = [procs EXCEPT ![n] = q] /\ nextGen' = nextGen + 1
  BY DEF SpawnOk, r
<1> HIDE DEF q
<1>6. procs' \in [Names -> Records] /\ procs'[n] = q
      /\ \A k \in Names \ {n} : procs'[k] = procs[k]
  BY <1>1, <1>4, <1>5 DEF Good
<1>7. clients' \in [Clients -> Pending \cup Answers]
  BY AnswerType DEF SpawnOk, Inv, Answers
<1>8. published' \in [Names -> Nat]
  BY <1>6, RunningPortsType DEF SpawnOk, Publish, q, r
<1>9. TypeOK'
  BY <1>1, <1>2, <1>5, <1>6, <1>7, <1>8 DEF Inv, TypeOK, SpawnOk
<1>10. LifeShape'
  BY <1>4, <1>6 DEF Inv, LifeShape, Good
<1>11. procs[n].life = "Absent" /\ ~batch.on /\ UNCHANGED <<tasks, finished, batch>>
  BY DEF SpawnOk
<1>12. /\ \A t \in tasks : t.name \in Names \ {n}
       /\ \A m \in finished : m.name \in Names \ {n}
  BY <1>11 DEF Inv, TypeOK, OneTeardown
<1>13. OneTeardown'
  BY <1>4, <1>6, <1>11, <1>12 DEF Inv, OneTeardown
<1>14. StopAllCovers'
  BY <1>11 DEF Inv, StopAllCovers
<1> QED
  BY <1>9, <1>10, <1>13, <1>14 DEF Inv

(* A handler that does no more than refresh is quiet.                      *)
LEMMA RefreshQuiet ==
    ASSUME Inv, procs' = Refreshed(procs), UNCHANGED <<tasks, finished, batch>>
    PROVE  Quiet
<1> DEFINE ps == Refreshed(procs)
<1>1. procs \in [Names -> Records] /\ LifeShape
  BY DEF Inv, TypeOK
<1>2. ps \in [Names -> Records]
  BY <1>1, RefreshedGood
<1>3. ASSUME NEW n \in Names
      PROVE  /\ Good(ps[n]) /\ ps[n].gen = procs[n].gen /\ ps[n].inc = procs[n].inc
             /\ procs[n].life = "Stopping" => ps[n] = procs[n]
             /\ ps[n].life = "Stopping" => procs[n].life = "Stopping"
  BY <1>1, <1>3, RefreshedGood DEF Unseen
<1> HIDE DEF ps
<1>4. procs' = ps
  BY DEF ps
<1> QED
  BY <1>2, <1>3, <1>4 DEF Quiet

(* Status and IsProcessExited keep the invariant.                          *)
LEMMA StatusInv ==
    ASSUME Inv, Status \/ IsProcessExited
    PROVE  Inv'
<1>1. procs' = Refreshed(procs) /\ UNCHANGED <<tasks, finished, batch>>
  BY DEF Status, IsProcessExited
<1>2. Quiet
  BY <1>1, RefreshQuiet
<1>3. LifeShape' /\ OneTeardown' /\ StopAllCovers'
  BY <1>2, QuietStep
<1>4. procs' \in [Names -> Records]
  BY <1>2 DEF Quiet
<1>5. published' \in [Names -> Nat]
  BY <1>4, RunningPortsType DEF Status, IsProcessExited, Publish, PublishIf, Inv, TypeOK
<1>6. TypeOK'
  BY <1>1, <1>4, <1>5 DEF Inv, TypeOK, Status, IsProcessExited
<1> QED
  BY <1>3, <1>6 DEF Inv

(* EnableProxy, a file change and a second stop-all leave records alone.   *)
LEMMA EnableProxyInv ==
    ASSUME Inv, EnableProxy
    PROVE  Inv'
<1>1. LifeShape' /\ OneTeardown' /\ StopAllCovers'
  BY UnchangedProcs DEF EnableProxy
<1>2. published' \in [Names -> Nat]
  BY RunningPortsType DEF EnableProxy, Publish, Inv, TypeOK
<1>3. TypeOK'
  BY <1>2 DEF Inv, TypeOK, EnableProxy
<1> QED
  BY <1>1, <1>3 DEF Inv

(* A file change adds an event.                                            *)
LEMMA FileChangeInv ==
    ASSUME Inv, NEW n \in Names, NEW s \in Slots, FileChange(n, s)
    PROVE  Inv'
<1>1. LifeShape' /\ OneTeardown' /\ StopAllCovers'
  BY UnchangedProcs DEF FileChange
<1>2. procs[n].gen \in Nat
  BY DEF Inv, TypeOK, Records
<1>3. events' \subseteq [name : Names, gen : Nat, slot : Slots]
  BY <1>2 DEF FileChange, Inv, TypeOK
<1>4. TypeOK'
  BY <1>3 DEF Inv, TypeOK, FileChange
<1> QED
  BY <1>1, <1>4 DEF Inv

(* A second stop-all joins the batch.                                      *)
LEMMA StopAllJoinInv ==
    ASSUME Inv, NEW c \in Clients, StopAllJoin(c)
    PROVE  Inv'
<1>1. batch' = [batch EXCEPT !.replies = @ \cup {c}] /\ batch.on
  BY DEF StopAllJoin
<1>2. batch \in [on : BOOLEAN, remaining : SUBSET Names, replies : SUBSET Clients]
  BY DEF Inv, TypeOK
<1>3. /\ batch' \in [on : BOOLEAN, remaining : SUBSET Names, replies : SUBSET Clients]
      /\ batch'.on /\ batch'.remaining = batch.remaining
      /\ batch'.replies = batch.replies \cup {c}
  BY <1>1, <1>2
<1>4. clients' \in [Clients -> Pending \cup Answers]
  BY AnswerType DEF StopAllJoin, Inv, Pending
<1>5. TypeOK'
  BY <1>3, <1>4 DEF Inv, TypeOK, StopAllJoin
<1>6. UNCHANGED <<procs, tasks, finished>>
  BY DEF StopAllJoin
<1>7. LifeShape' /\ OneTeardown'
  BY <1>6 DEF Inv, LifeShape, WellFormed, OneTeardown
<1>8. StopAllCovers'
  BY <1>1, <1>3, <1>6 DEF Inv, StopAllCovers
<1> QED
  BY <1>5, <1>7, <1>8 DEF Inv

(* A leader's exit changes what a running record's kernel state says.      *)
LEMMA LeaderExitInv ==
    ASSUME Inv, NEW n \in Names, NEW code \in Codes, LeaderExit(n, code)
    PROVE  Inv'
<1> DEFINE q == [procs[n] EXCEPT !.leader = code]
<1>1. procs \in [Names -> Records] /\ Good(procs[n]) /\ procs[n].life = "Running"
  BY DEF Inv, TypeOK, LifeShape, Good, LeaderExit
<1>2. /\ q \in Records /\ q.life = "Running" /\ q.why = procs[n].why /\ q.inc = procs[n].inc
      /\ q.then = procs[n].then /\ q.waiters = procs[n].waiters /\ q.timer = procs[n].timer
      /\ q.gen = procs[n].gen
  BY <1>1 DEF Good, Records
<1>3. procs' = [procs EXCEPT ![n] = q] /\ UNCHANGED <<tasks, finished, batch>>
  BY <1>1 DEF LeaderExit
<1> HIDE DEF q
<1>4. Good(q)
  BY <1>1, <1>2 DEF Good, WellFormed
<1>5. procs' \in [Names -> Records] /\ procs'[n] = q
      /\ \A k \in Names \ {n} : procs'[k] = procs[k]
  BY <1>1, <1>2, <1>3
<1>6. \A k \in Names : Good(procs[k])
  BY DEF Inv, TypeOK, LifeShape, Good
<1>7. Quiet
  BY <1>1, <1>2, <1>3, <1>4, <1>5, <1>6 DEF Quiet
<1>8. TypeOK'
  BY <1>5 DEF Inv, TypeOK, LeaderExit
<1> QED
  BY <1>7, <1>8, QuietStep DEF Inv

(* The end of a task: its StopFinished takes its place.                    *)
LEMMA TeardownDoneInv ==
    ASSUME Inv, NEW t \in tasks, NEW code \in Codes, TeardownDone(t, code)
    PROVE  Inv'
<1> DEFINE m == [name |-> t.name, gen |-> t.gen, code |-> code]
<1>1. t \in [name : Names, gen : Nat, leader : {"alive"} \cup Codes]
  BY DEF Inv, TypeOK
<1>2. m \in [name : Names, gen : Nat, code : Codes] /\ m.name = t.name /\ m.gen = t.gen
  BY <1>1
<1>3. tasks' = tasks \ {t} /\ finished' = finished \cup {m} /\ UNCHANGED <<procs, batch>>
  BY DEF TeardownDone
<1> HIDE DEF m
<1>4. TypeOK'
  BY <1>2, <1>3 DEF Inv, TypeOK, TeardownDone
<1>5. LifeShape' /\ StopAllCovers'
  BY <1>3 DEF Inv, LifeShape, WellFormed, StopAllCovers
<1>6. OneTeardown'
  <2>1. \A u \in tasks' : procs'[u.name].life = "Stopping" /\ procs'[u.name].gen = u.gen
    BY <1>3 DEF Inv, OneTeardown
  <2>2. \A k \in finished' : procs'[k.name].life = "Stopping" /\ procs'[k.name].gen = k.gen
    BY <1>2, <1>3 DEF Inv, OneTeardown
  <2>3. \A u, v \in tasks' : u.name = v.name => u = v
    BY <1>3 DEF Inv, OneTeardown
  <2>4. \A k, l \in finished' : k.name = l.name => k = l
    BY <1>2, <1>3 DEF Inv, OneTeardown
  <2>5. \A u \in tasks', k \in finished' : u.name # k.name
    BY <1>2, <1>3 DEF Inv, OneTeardown
  <2>6. ASSUME NEW n \in Names, procs'[n].life = "Stopping"
        PROVE  (\E u \in tasks' : u.name = n) \/ (\E k \in finished' : k.name = n)
    BY <1>2, <1>3, <2>6 DEF Inv, OneTeardown
  <2> QED
    BY <2>1, <2>2, <2>3, <2>4, <2>5, <2>6 DEF OneTeardown
<1> QED
  BY <1>4, <1>5, <1>6 DEF Inv

(* The type of a teardown task.                                            *)
LEMMA TaskType ==
    ASSUME NEW n \in Names, NEW p \in Records
    PROVE  TaskOf(n, p) \in [name : Names, gen : Nat, leader : {"alive"} \cup Codes]
<1> DEFINE l == IF p.life = "Running" THEN "alive" ELSE p.leader
<1>1. l \in {"alive"} \cup Codes /\ p.gen \in Nat
  BY DEF Records
<1>2. TaskOf(n, p) = [name |-> n, gen |-> p.gen, leader |-> l]
  BY DEF TaskOf
<1> HIDE DEF l
<1> QED
  BY <1>1, <1>2

(* What a handler knows after it refreshed and looked up n.                *)
LEMMA Lookup ==
    ASSUME Inv, NEW n \in Names
    PROVE  LET ps == Refreshed(procs)
           IN  /\ ps \in [Names -> Records] /\ Good(ps[n])
               /\ ps[n].gen = procs[n].gen
               /\ ps[n].inc = procs[n].inc
               /\ ps[n].life = "Stopping" <=> procs[n].life = "Stopping"
               /\ ps[n].life = "Stopping" => ps[n] = procs[n]
               /\ \A k \in Names :
                    /\ Good(ps[k])
                    /\ ps[k].gen = procs[k].gen
                    /\ ps[k].inc = procs[k].inc
                    /\ ps[k].life = "Stopping" <=> procs[k].life = "Stopping"
                    /\ procs[k].life = "Stopping" => ps[k] = procs[k]
<1>1. procs \in [Names -> Records] /\ LifeShape
  BY DEF Inv, TypeOK
<1> DEFINE ps == Refreshed(procs)
<1>2. ps \in [Names -> Records]
  BY <1>1, RefreshedGood
<1>3. ASSUME NEW k \in Names
      PROVE  /\ Good(ps[k])
             /\ ps[k].gen = procs[k].gen
             /\ ps[k].inc = procs[k].inc
             /\ ps[k].life = "Stopping" <=> procs[k].life = "Stopping"
             /\ procs[k].life = "Stopping" => ps[k] = procs[k]
  BY <1>1, RefreshedGood DEF Unseen
<1> HIDE DEF ps
<1>4. ps[n].life = "Stopping" => ps[n] = procs[n]
  BY <1>3
<1> QED
  BY <1>2, <1>3, <1>4 DEF ps

(* Joining a stop in flight, after a refresh.                              *)
LEMMA JoinStep ==
    ASSUME Inv, NEW n \in Names, NEW then \in {"Park"} \cup Respawns,
           NEW w \in Clients \X {"Stop", "Restart"},
           Refreshed(procs)[n].life = "Stopping",
           procs' = [Refreshed(procs) EXCEPT ![n] = Joined(Refreshed(procs)[n], then, w)],
           batch.on => then = "Park",
           UNCHANGED <<tasks, finished, batch>>
    PROVE  procs' \in [Names -> Records] /\ LifeShape' /\ OneTeardown' /\ StopAllCovers'
<1> DEFINE ps == Refreshed(procs)
           q == Joined(ps[n], then, w)
<1>1. /\ ps \in [Names -> Records] /\ Good(ps[n]) /\ ps[n].life = "Stopping"
      /\ \A k \in Names :
            /\ Good(ps[k])
            /\ ps[k].gen = procs[k].gen
            /\ ps[k].inc = procs[k].inc
            /\ ps[k].life = "Stopping" <=> procs[k].life = "Stopping"
            /\ procs[k].life = "Stopping" => ps[k] = procs[k]
  BY Lookup
<1> HIDE DEF ps
<1>2. Good(q) /\ q.life = "Stopping" /\ q.gen = ps[n].gen /\ q.then = then
  BY <1>1, JoinedGood
<1>3. procs' = [ps EXCEPT ![n] = q]
  BY DEF ps
<1> HIDE DEF q
<1>4. procs' \in [Names -> Records] /\ procs'[n] = q
      /\ \A k \in Names \ {n} : procs'[k] = ps[k]
  BY <1>1, <1>2, <1>3 DEF Good
<1>5. Begins({}, {})
  BY <1>1, <1>2, <1>4 DEF Begins
<1>6. LifeShape' /\ OneTeardown'
  BY <1>5, BeginStep
<1>7. StopAllCovers'
  <2>1. CASE batch.on
    <3>1. ASSUME NEW k \in Names, k \in batch.remaining
          PROVE  procs'[k].life = "Stopping" /\ procs'[k].then = "Park"
      BY <1>1, <1>2, <1>4, <2>1, <3>1 DEF Inv, StopAllCovers
    <3>2. ASSUME NEW k \in Names, k \notin batch.remaining
          PROVE  procs'[k].life \in {"Absent", "Exited"} /\ ~procs'[k].inc
      <4>1. procs[k].life \in {"Absent", "Exited"} /\ ~procs[k].inc
        BY <2>1, <3>2 DEF Inv, StopAllCovers
      <4>2. k # n /\ procs'[k] = ps[k] /\ ~ps[k].inc /\ ps[k].life # "Stopping"
        BY <1>1, <1>4, <4>1
      <4> QED
        BY <1>1, <4>2 DEF Good, WellFormed, Records
    <3> QED
      BY <2>1, <3>1, <3>2 DEF Inv, StopAllCovers
  <2>2. CASE ~batch.on
    BY <2>2 DEF Inv, StopAllCovers
  <2> QED
    BY <2>1, <2>2
<1> QED
  BY <1>4, <1>6, <1>7

(* Starting the teardown of n after a refresh, outside a stop-all.         *)
LEMMA TearStep ==
    ASSUME Inv, NEW n \in Names, NEW then \in {"Park"} \cup Respawns,
           NEW ws \in SUBSET (Clients \X {"Stop", "Restart"}),
           Refreshed(procs)[n].life \in {"Running", "Exited"}, ~batch.on,
           procs' = [Refreshed(procs) EXCEPT ![n] = TornDown(Refreshed(procs)[n], then, ws)],
           tasks' = tasks \cup {TaskOf(n, Refreshed(procs)[n])},
           UNCHANGED <<finished, batch>>
    PROVE  /\ procs' \in [Names -> Records]
           /\ tasks' \subseteq [name : Names, gen : Nat, leader : {"alive"} \cup Codes]
           /\ LifeShape' /\ OneTeardown' /\ StopAllCovers'
<1> DEFINE ps == Refreshed(procs)
           p == ps[n]
           q == TornDown(p, then, ws)
<1>1. /\ ps \in [Names -> Records] /\ Good(p) /\ p.life \in {"Running", "Exited"}
      /\ p.gen = procs[n].gen
      /\ procs[n].life # "Stopping"
      /\ \A k \in Names :
            /\ Good(ps[k])
            /\ ps[k].gen = procs[k].gen
            /\ ps[k].life = "Stopping" <=> procs[k].life = "Stopping"
  BY Lookup
<1> HIDE DEF ps
<1>2. Good(q) /\ q.life = "Stopping" /\ q.gen = p.gen
  BY <1>1, TornDownGood
<1>3. procs' = [ps EXCEPT ![n] = q] /\ tasks' = tasks \cup {TaskOf(n, p)}
  BY DEF ps
<1> HIDE DEF q
<1>4. procs' \in [Names -> Records] /\ procs'[n] = q
      /\ \A k \in Names \ {n} : procs'[k] = ps[k]
  BY <1>1, <1>2, <1>3 DEF Good
<1>5. BeginsOne(n, p)
  BY <1>1, <1>2, <1>3, <1>4 DEF BeginsOne
<1>6. TaskOf(n, p) \in [name : Names, gen : Nat, leader : {"alive"} \cup Codes]
  BY <1>1, TaskType DEF Good
<1>7. tasks' \subseteq [name : Names, gen : Nat, leader : {"alive"} \cup Codes]
  BY <1>3, <1>6 DEF Inv, TypeOK
<1> QED
  BY <1>4, <1>5, <1>7, BeginOne

(* Stop: not found, joins, nothing to stop, or starts a teardown; the last *)
(* never happens while a stop-all runs.                                    *)
LEMMA StopInv ==
    ASSUME Inv, NEW c \in Clients, NEW n \in Names, Stop(c, n)
    PROVE  Inv'
<1> DEFINE ps == Refreshed(procs)
           p == ps[n]
<1>1. /\ ps \in [Names -> Records] /\ Good(p) /\ p.inc = procs[n].inc
      /\ \A k \in Names :
            /\ Good(ps[k])
            /\ ps[k].gen = procs[k].gen
            /\ ps[k].inc = procs[k].inc
            /\ ps[k].life = "Stopping" <=> procs[k].life = "Stopping"
            /\ procs[k].life = "Stopping" => ps[k] = procs[k]
  BY Lookup
<1>2. <<c, "Stop">> \in Clients \X {"Stop", "Restart"}
  OBVIOUS
<1>3. UNCHANGED <<nextGen, finished, timers, events, batch, published, proxyOn, nextPort>>
  BY DEF Stop
<1>4. ASSUME procs' \in [Names -> Records],
             tasks' \subseteq [name : Names, gen : Nat, leader : {"alive"} \cup Codes],
             clients' \in [Clients -> Pending \cup Answers], wantDown' \subseteq Names
      PROVE  TypeOK'
  BY <1>3, <1>4 DEF Inv, TypeOK
<1>5. /\ tasks \subseteq [name : Names, gen : Nat, leader : {"alive"} \cup Codes]
      /\ wantDown \subseteq Names /\ TypeOK
  BY DEF Inv, TypeOK
<1>6. CASE p.life = "Absent" /\ procs' = ps /\ Answer(c, "error") /\ UNCHANGED <<tasks, wantDown>>
  <2>1. Quiet
    BY <1>3, <1>6, RefreshQuiet
  <2>2. LifeShape' /\ OneTeardown' /\ StopAllCovers'
    BY <2>1, QuietStep
  <2>3. clients' \in [Clients -> Pending \cup Answers]
    BY <1>5, <1>6, AnswerType DEF Answers
  <2> QED
    BY <1>1, <1>4, <1>5, <1>6, <2>2, <2>3 DEF Inv
<1>7. CASE /\ p.life = "Stopping"
           /\ procs' = [ps EXCEPT ![n] = Joined(p, "Park", <<c, "Stop">>)]
           /\ Answer(c, "Stop") /\ wantDown' = wantDown \cup {n} /\ UNCHANGED tasks
  <2>1. procs' \in [Names -> Records] /\ LifeShape' /\ OneTeardown' /\ StopAllCovers'
    BY <1>2, <1>3, <1>7, JoinStep
  <2>2. clients' \in [Clients -> Pending \cup Answers]
    BY <1>5, <1>7, AnswerType DEF Pending
  <2> QED
    BY <1>4, <1>5, <1>7, <2>1, <2>2 DEF Inv
<1>8. CASE /\ p.life = "Exited" /\ ~p.inc
           /\ procs' = [ps EXCEPT ![n] = [p EXCEPT !.handle = FALSE]]
           /\ Answer(c, "stopped") /\ wantDown' = wantDown \cup {n} /\ UNCHANGED tasks
  <2> DEFINE q == [p EXCEPT !.handle = FALSE]
  <2> HIDE DEF ps
  <2>1. /\ q \in Records /\ q.life = p.life /\ q.why = p.why /\ q.inc = p.inc
        /\ q.then = p.then /\ q.waiters = p.waiters /\ q.timer = p.timer
        /\ q.gen = p.gen /\ q.leader = p.leader
    BY <1>1 DEF Good, Records
  <2>2. procs' = [ps EXCEPT ![n] = q]
    BY <1>8
  <2> HIDE DEF q
  <2>3. Good(q)
    BY <1>1, <2>1 DEF Good, WellFormed
  <2>4. procs' \in [Names -> Records] /\ procs'[n] = q
        /\ \A k \in Names \ {n} : procs'[k] = ps[k]
    BY <1>1, <2>1, <2>2
  <2>5. Quiet
    BY <1>1, <1>3, <1>8, <2>1, <2>3, <2>4 DEF Quiet
  <2>6. LifeShape' /\ OneTeardown' /\ StopAllCovers'
    BY <2>5, QuietStep
  <2>7. clients' \in [Clients -> Pending \cup Answers]
    BY <1>5, <1>8, AnswerType DEF Answers
  <2> QED
    BY <1>4, <1>5, <1>8, <2>4, <2>6, <2>7 DEF Inv
<1>9. CASE /\ p.inc
           /\ procs' = [ps EXCEPT ![n] = TornDown(p, "Park", {<<c, "Stop">>})]
           /\ tasks' = tasks \cup {TaskOf(n, p)}
           /\ Answer(c, "Stop") /\ wantDown' = wantDown \cup {n}
  <2>1. p.life \in {"Running", "Exited"}
    BY <1>1, <1>9 DEF Good, WellFormed
  <2>2. ~batch.on
    <3>1. procs[n].inc /\ procs[n].life # "Stopping"
      BY <1>1, <1>9, <2>1
    <3> QED
      BY <3>1 DEF Inv, StopAllCovers
  <2>3. {<<c, "Stop">>} \in SUBSET (Clients \X {"Stop", "Restart"})
    BY <1>2
  <2>4. /\ procs' \in [Names -> Records]
        /\ tasks' \subseteq [name : Names, gen : Nat, leader : {"alive"} \cup Codes]
        /\ LifeShape' /\ OneTeardown' /\ StopAllCovers'
    BY <1>3, <1>9, <2>1, <2>2, <2>3, TearStep
  <2>5. clients' \in [Clients -> Pending \cup Answers]
    BY <1>5, <1>9, AnswerType DEF Pending
  <2> QED
    BY <1>4, <1>5, <1>9, <2>4, <2>5 DEF Inv
<1> QED
  BY <1>6, <1>7, <1>8, <1>9 DEF Stop

(* Restart: not found, joins, or starts a teardown.                        *)
LEMMA RestartInv ==
    ASSUME Inv, NEW c \in Clients, NEW n \in Names, Restart(c, n)
    PROVE  Inv'
<1> DEFINE ps == Refreshed(procs)
           p == ps[n]
<1>1. ps \in [Names -> Records]
  BY Lookup
<1>2. <<c, "Restart">> \in Clients \X {"Stop", "Restart"} /\ "Manual" \in {"Park"} \cup Respawns
  BY DEF Respawns
<1>3. /\ UNCHANGED <<nextGen, finished, timers, events, batch, published, proxyOn, nextPort>>
      /\ ~batch.on
  BY DEF Restart
<1>4. ASSUME procs' \in [Names -> Records],
             tasks' \subseteq [name : Names, gen : Nat, leader : {"alive"} \cup Codes],
             clients' \in [Clients -> Pending \cup Answers], wantDown' \subseteq Names
      PROVE  TypeOK'
  BY <1>3, <1>4 DEF Inv, TypeOK
<1>5. /\ tasks \subseteq [name : Names, gen : Nat, leader : {"alive"} \cup Codes]
      /\ wantDown \subseteq Names /\ TypeOK
  BY DEF Inv, TypeOK
<1>6. CASE p.life = "Absent" /\ procs' = ps /\ Answer(c, "error") /\ UNCHANGED <<tasks, wantDown>>
  <2>1. Quiet
    BY <1>3, <1>6, RefreshQuiet
  <2>2. LifeShape' /\ OneTeardown' /\ StopAllCovers'
    BY <2>1, QuietStep
  <2>3. clients' \in [Clients -> Pending \cup Answers]
    BY <1>5, <1>6, AnswerType DEF Answers
  <2> QED
    BY <1>1, <1>4, <1>5, <1>6, <2>2, <2>3 DEF Inv
<1>7. CASE /\ p.life = "Stopping"
           /\ procs' = [ps EXCEPT ![n] = Joined(p, "Manual", <<c, "Restart">>)]
           /\ Answer(c, "Restart") /\ wantDown' = wantDown \ {n} /\ UNCHANGED tasks
  <2>1. procs' \in [Names -> Records] /\ LifeShape' /\ OneTeardown' /\ StopAllCovers'
    BY <1>2, <1>3, <1>7, JoinStep
  <2>2. clients' \in [Clients -> Pending \cup Answers]
    BY <1>5, <1>7, AnswerType DEF Pending
  <2> QED
    BY <1>4, <1>5, <1>7, <2>1, <2>2 DEF Inv
<1>8. CASE /\ p.life \in {"Running", "Exited"}
           /\ procs' = [ps EXCEPT ![n] = TornDown(p, "Manual", {<<c, "Restart">>})]
           /\ tasks' = tasks \cup {TaskOf(n, p)}
           /\ Answer(c, "Restart") /\ wantDown' = wantDown \ {n}
  <2>1. {<<c, "Restart">>} \in SUBSET (Clients \X {"Stop", "Restart"})
    BY <1>2
  <2>2. /\ procs' \in [Names -> Records]
        /\ tasks' \subseteq [name : Names, gen : Nat, leader : {"alive"} \cup Codes]
        /\ LifeShape' /\ OneTeardown' /\ StopAllCovers'
    BY <1>2, <1>3, <1>8, <2>1, TearStep
  <2>3. clients' \in [Clients -> Pending \cup Answers]
    BY <1>5, <1>8, AnswerType DEF Pending
  <2> QED
    BY <1>4, <1>5, <1>8, <2>2, <2>3 DEF Inv
<1> QED
  BY <1>6, <1>7, <1>8 DEF Restart

(* The restart count is no part of a record's shape.                       *)
LEMMA CountGood ==
    ASSUME NEW p, Good(p), NEW k \in Nat
    PROVE  LET q == [p EXCEPT !.count = k]
           IN  Good(q) /\ q.life = p.life /\ q.gen = p.gen
<1> DEFINE q == [p EXCEPT !.count = k]
<1>1. /\ q \in Records /\ q.life = p.life /\ q.why = p.why /\ q.inc = p.inc
      /\ q.then = p.then /\ q.waiters = p.waiters /\ q.timer = p.timer
      /\ q.gen = p.gen /\ q.leader = p.leader
  BY DEF Good, Records
<1> HIDE DEF q
<1>2. WellFormed(q)
  BY <1>1 DEF Good, WellFormed
<1> QED
  BY <1>1, <1>2 DEF Good, q

(* Starting the teardown of n for AutoRestart and WatchRestart, which set  *)
(* the count and do not refresh.                                           *)
LEMMA TearNow ==
    ASSUME Inv, NEW n \in Names, NEW then \in Respawns, NEW k \in Nat,
           procs[n].life \in {"Running", "Exited"}, ~batch.on,
           procs' = [procs EXCEPT ![n] = TornDown([procs[n] EXCEPT !.count = k], then, {})],
           tasks' = tasks \cup {TaskOf(n, procs[n])},
           UNCHANGED <<finished, batch>>
    PROVE  /\ procs' \in [Names -> Records]
           /\ tasks' \subseteq [name : Names, gen : Nat, leader : {"alive"} \cup Codes]
           /\ LifeShape' /\ OneTeardown' /\ StopAllCovers'
<1> DEFINE p == [procs[n] EXCEPT !.count = k]
           q == TornDown(p, then, {})
<1>1. procs \in [Names -> Records] /\ \A m \in Names : Good(procs[m])
  BY DEF Inv, TypeOK, LifeShape, Good
<1>2. Good(p) /\ p.life = procs[n].life /\ p.gen = procs[n].gen
  BY <1>1, CountGood
<1> HIDE DEF p
<1>3. {} \in SUBSET (Clients \X {"Stop", "Restart"}) /\ then \in {"Park"} \cup Respawns
  OBVIOUS
<1>4. Good(q) /\ q.life = "Stopping" /\ q.gen = procs[n].gen
  BY <1>2, <1>3, TornDownGood
<1>5. procs' = [procs EXCEPT ![n] = q]
  BY DEF p
<1> HIDE DEF q
<1>6. procs' \in [Names -> Records] /\ procs'[n] = q
      /\ \A m \in Names \ {n} : procs'[m] = procs[m]
  BY <1>1, <1>4, <1>5 DEF Good
<1>7. BeginsOne(n, procs[n])
  BY <1>1, <1>4, <1>6 DEF BeginsOne
<1>8. TaskOf(n, procs[n]) \in [name : Names, gen : Nat, leader : {"alive"} \cup Codes]
  BY <1>1, TaskType DEF Good
<1>9. tasks' \subseteq [name : Names, gen : Nat, leader : {"alive"} \cup Codes]
  BY <1>8 DEF Inv, TypeOK
<1> QED
  BY <1>6, <1>7, <1>9, BeginOne

(* AutoRestart acts on its own incarnation's natural exit, or not at all.  *)
LEMMA AutoRestartInv ==
    ASSUME Inv, NEW t \in timers, AutoRestart(t)
    PROVE  Inv'
<1> DEFINE n == t.name
           p == procs[n]
           acts == ~batch.on /\ p.gen = t.gen /\ p.life = "Exited" /\ p.why = "Natural" /\ p.timer
<1>1. n \in Names /\ p \in Records /\ timers' \subseteq timers
  BY DEF Inv, TypeOK, AutoRestart
<1>2. UNCHANGED <<nextGen, finished, events, batch, clients, published, proxyOn, nextPort, wantDown>>
  BY DEF AutoRestart
<1>3. ASSUME procs' \in [Names -> Records],
             tasks' \subseteq [name : Names, gen : Nat, leader : {"alive"} \cup Codes]
      PROVE  TypeOK'
  BY <1>1, <1>2, <1>3 DEF Inv, TypeOK
<1>4. CASE acts
  <2>1. p.count + 1 \in Nat
    BY <1>1 DEF Records
  <2>2. /\ procs' = [procs EXCEPT ![n] = TornDown([p EXCEPT !.count = p.count + 1], "Auto", {})]
        /\ tasks' = tasks \cup {TaskOf(n, p)}
    BY <1>4 DEF AutoRestart
  <2>3. "Auto" \in Respawns /\ p.life \in {"Running", "Exited"} /\ ~batch.on
    BY <1>4 DEF Respawns
  <2> HIDE DEF n
  <2>4. /\ procs' \in [Names -> Records]
        /\ tasks' \subseteq [name : Names, gen : Nat, leader : {"alive"} \cup Codes]
        /\ LifeShape' /\ OneTeardown' /\ StopAllCovers'
    BY <1>1, <1>2, <2>1, <2>2, <2>3, TearNow
  <2> QED
    BY <1>3, <2>4 DEF Inv
<1>5. CASE ~acts
  <2>1. UNCHANGED <<procs, tasks, finished, batch>>
    BY <1>2, <1>5 DEF AutoRestart
  <2>2. LifeShape' /\ OneTeardown' /\ StopAllCovers'
    BY <2>1, UnchangedProcs
  <2>3. TypeOK'
    BY <1>3, <2>1 DEF Inv, TypeOK
  <2> QED
    BY <2>2, <2>3 DEF Inv
<1> QED
  BY <1>4, <1>5

(* WatchRestart never acts on a record that is being torn down.            *)
LEMMA WatchRestartInv ==
    ASSUME Inv, NEW e \in events, WatchRestart(e)
    PROVE  Inv'
<1> DEFINE n == e.name
           p == procs[n]
           acts == /\ ~batch.on /\ p.gen = e.gen
                   /\ p.life = "Running" \/ (p.life = "Exited" /\ p.why # "Manual")
<1>1. n \in Names /\ p \in Records /\ events' \subseteq events
  BY DEF Inv, TypeOK, WatchRestart
<1>2. UNCHANGED <<nextGen, finished, timers, batch, clients, published, proxyOn, nextPort, wantDown>>
  BY DEF WatchRestart
<1>3. ASSUME procs' \in [Names -> Records],
             tasks' \subseteq [name : Names, gen : Nat, leader : {"alive"} \cup Codes]
      PROVE  TypeOK'
  BY <1>1, <1>2, <1>3 DEF Inv, TypeOK
<1>4. CASE acts
  <2>1. /\ procs' = [procs EXCEPT ![n] = TornDown([p EXCEPT !.count = 0], "Watch", {})]
        /\ tasks' = tasks \cup {TaskOf(n, p)}
    BY <1>4 DEF WatchRestart
  <2>2. "Watch" \in Respawns /\ p.life \in {"Running", "Exited"} /\ ~batch.on
    BY <1>4 DEF Respawns
  <2> HIDE DEF n
  <2>3. /\ procs' \in [Names -> Records]
        /\ tasks' \subseteq [name : Names, gen : Nat, leader : {"alive"} \cup Codes]
        /\ LifeShape' /\ OneTeardown' /\ StopAllCovers'
    BY <1>1, <1>2, <2>1, <2>2, TearNow
  <2> QED
    BY <1>3, <2>3 DEF Inv
<1>5. CASE ~acts
  <2>1. UNCHANGED <<procs, tasks, finished, batch>>
    BY <1>2, <1>5 DEF WatchRestart
  <2>2. LifeShape' /\ OneTeardown' /\ StopAllCovers'
    BY <2>1, UnchangedProcs
  <2>3. TypeOK'
    BY <1>3, <2>1 DEF Inv, TypeOK
  <2> QED
    BY <2>2, <2>3 DEF Inv
<1> QED
  BY <1>4, <1>5

(* A tick marks records as exhausted or waiting for a timer; both were     *)
(* exits that own their incarnation.                                       *)
LEMMA TickInv ==
    ASSUME Inv, Tick
    PROVE  Inv'
<1> DEFINE ps == Refreshed(procs)
           cands == IF batch.on THEN {} ELSE {n \in Names : Candidate(ps[n])}
           exhausted == {n \in cands : OutOfRestarts(ps[n])}
           restartable == cands \ exhausted
           marked == [n \in Names |->
                        IF n \in exhausted THEN [ps[n] EXCEPT !.why = "Exhausted"]
                        ELSE IF n \in restartable THEN [ps[n] EXCEPT !.timer = TRUE]
                        ELSE ps[n]]
<1>1. /\ ps \in [Names -> Records]
      /\ \A k \in Names :
            /\ Good(ps[k])
            /\ ps[k].gen = procs[k].gen
            /\ ps[k].inc = procs[k].inc
            /\ ps[k].life = "Stopping" <=> procs[k].life = "Stopping"
            /\ procs[k].life = "Stopping" => ps[k] = procs[k]
  <2>1. ASSUME NEW k \in Names
        PROVE  /\ Good(ps[k])
               /\ ps[k].gen = procs[k].gen
               /\ ps[k].inc = procs[k].inc
               /\ ps[k].life = "Stopping" <=> procs[k].life = "Stopping"
               /\ procs[k].life = "Stopping" => ps[k] = procs[k]
    BY Lookup
  <2>2. procs \in [Names -> Records] /\ LifeShape
    BY DEF Inv, TypeOK
  <2>3. ps \in [Names -> Records]
    BY <2>2, RefreshedGood
  <2> QED
    BY <2>1, <2>3
<1>2. \A n \in cands : n \in Names /\ ps[n].life = "Exited" /\ ps[n].why = "Natural"
  BY DEF Candidate
<1>3. /\ procs' = marked
      /\ timers' = timers \cup {[name |-> n, gen |-> ps[n].gen] : n \in restartable}
      /\ UNCHANGED <<nextGen, tasks, finished, events, batch, clients, proxyOn, nextPort, wantDown>>
      /\ published' \in {published, RunningPorts(marked)}
  BY DEF Tick, PublishIf
<1> HIDE DEF ps, cands
<1>4. ASSUME NEW n \in Names
      PROVE  /\ Good(marked[n]) /\ marked[n].gen = procs[n].gen /\ marked[n].inc = procs[n].inc
             /\ procs[n].life = "Stopping" => marked[n] = procs[n]
             /\ marked[n].life = "Stopping" => procs[n].life = "Stopping"
  <2>1. CASE n \in exhausted
    <3> DEFINE q == [ps[n] EXCEPT !.why = "Exhausted"]
    <3>1. marked[n] = q
      BY <2>1
    <3>2. /\ q \in Records /\ q.life = "Exited" /\ q.why = "Exhausted" /\ q.inc = ps[n].inc
          /\ q.then = ps[n].then /\ q.waiters = ps[n].waiters /\ q.timer = ps[n].timer
          /\ q.gen = ps[n].gen /\ q.leader = ps[n].leader /\ ps[n].timer = FALSE
      <4>1. ps[n].life = "Exited" /\ ps[n].timer = FALSE
        BY <1>1, <2>1 DEF cands, Candidate, Good, Records
      <4> QED
        BY <1>1, <4>1 DEF Good, Records
    <3> HIDE DEF q
    <3>3. WellFormed(q)
      BY <1>1, <1>2, <2>1, <3>2 DEF Good, WellFormed
    <3>4. procs[n].life # "Stopping"
      BY <1>1, <1>2, <2>1
    <3> HIDE DEF exhausted, marked
    <3> QED
      BY <1>1, <3>1, <3>2, <3>3, <3>4 DEF Good
  <2>2. CASE n \in restartable
    <3> DEFINE q == [ps[n] EXCEPT !.timer = TRUE]
    <3>1. marked[n] = q
      BY <2>2
    <3>2. /\ q \in Records /\ q.life = ps[n].life /\ q.why = ps[n].why /\ q.inc = ps[n].inc
          /\ q.then = ps[n].then /\ q.waiters = ps[n].waiters /\ q.timer = TRUE
          /\ q.gen = ps[n].gen /\ q.leader = ps[n].leader
      <4>1. ps[n] \in Records /\ q = [ps[n] EXCEPT !.timer = TRUE]
        BY <1>1 DEF Good
      <4> HIDE DEF q
      <4> QED
        BY <4>1 DEF Records
    <3> HIDE DEF q
    <3>3. WellFormed(q)
      BY <1>1, <1>2, <2>2, <3>2 DEF Good, WellFormed
    <3>4. procs[n].life # "Stopping"
      BY <1>1, <1>2, <2>2
    <3> HIDE DEF exhausted, marked, restartable
    <3> QED
      BY <1>1, <1>2, <3>1, <3>2, <3>3, <3>4 DEF Good
  <2>3. CASE n \notin exhausted /\ n \notin restartable
    <3>1. marked[n] = ps[n]
      BY <2>3
    <3> HIDE DEF exhausted, restartable, marked
    <3> QED
      BY <1>1, <3>1
  <2> QED
    BY <2>1, <2>2, <2>3
<1>5. marked \in [Names -> Records]
  <2>1. \A n \in Names : marked[n] \in Records
    BY <1>4 DEF Good
  <2> QED
    BY <2>1
<1>6. timers' \subseteq [name : Names, gen : Nat]
  <2>1. \A n \in restartable : n \in Names /\ ps[n].gen \in Nat
    BY <1>1, <1>2 DEF Good, Records
  <2> QED
    BY <1>3, <2>1 DEF Inv, TypeOK
<1> HIDE DEF marked, restartable, exhausted
<1>7. Quiet
  BY <1>3, <1>4, <1>5 DEF Quiet
<1>8. published' \in [Names -> Nat]
  BY <1>3, <1>5, RunningPortsType DEF Inv, TypeOK
<1>9. TypeOK'
  BY <1>3, <1>5, <1>6, <1>8 DEF Inv, TypeOK
<1> QED
  BY <1>7, <1>9, QuietStep DEF Inv

(* A stop-all covers every record that owns an incarnation or is being     *)
(* torn down; if there is none, no teardown is in flight either.           *)
LEMMA StopAllBeginInv ==
    ASSUME Inv, NEW c \in Clients, StopAllBegin(c)
    PROVE  Inv'
<1> DEFINE ps == Refreshed(procs)
           O == Owned(ps)
           C == Covered(ps)
           T == {TaskOf(n, ps[n]) : n \in O}
           torn == [n \in Names |->
                     IF n \in O THEN TornDown(ps[n], "Park", {})
                     ELSE IF n \in C THEN ParkedNext(ps[n]) ELSE ps[n]]
           gone == [n \in Names |-> NoProc]
           BatchType == [on : BOOLEAN, remaining : SUBSET Names, replies : SUBSET Clients]
<1>1. ASSUME NEW k \in Names
      PROVE  /\ Good(ps[k]) /\ ps[k] \in Records
             /\ ps[k].gen = procs[k].gen
             /\ ps[k].life = "Stopping" <=> procs[k].life = "Stopping"
  BY Lookup DEF Good
<1>2. O = {n \in Names : ps[n].inc} /\ C = O \cup {n \in Names : ps[n].life = "Stopping"}
  BY DEF Owned, Covered
<1>3. /\ tasks' = tasks \cup T
      /\ procs' = IF C = {} THEN gone ELSE torn
      /\ batch' = IF C = {} THEN NoBatch ELSE [on |-> TRUE, remaining |-> C, replies |-> {c}]
      /\ Answer(c, IF C = {} THEN "allstopped" ELSE "StopAll")
      /\ Publish(procs')
      /\ wantDown' \subseteq Names
      /\ UNCHANGED <<nextGen, finished, timers, events, proxyOn, nextPort>>
      /\ ~batch.on
  BY DEF StopAllBegin
<1> HIDE DEF ps, O, C
<1>4. ASSUME NEW n \in Names
      PROVE  /\ Good(torn[n]) /\ torn[n].gen = procs[n].gen
             /\ n \in O => procs[n].life # "Stopping" /\ torn[n].life = "Stopping"
             /\ n \notin O => (torn[n].life = "Stopping" <=> procs[n].life = "Stopping")
             /\ n \in C => torn[n].life = "Stopping" /\ torn[n].then = "Park"
             /\ n \notin C => torn[n].life \in {"Absent", "Exited"} /\ ~torn[n].inc
  <2>1. CASE n \in O
    <3>1. ps[n].inc /\ ps[n].life \in {"Running", "Exited"} /\ n \in C
      BY <1>1, <1>2, <2>1 DEF Good, WellFormed
    <3>2. torn[n] = TornDown(ps[n], "Park", {})
      BY <2>1
    <3>3. "Park" \in {"Park"} \cup Respawns /\ {} \in SUBSET (Clients \X {"Stop", "Restart"})
      OBVIOUS
    <3> DEFINE q == TornDown(ps[n], "Park", {})
    <3>4. Good(q) /\ q.life = "Stopping" /\ q.gen = ps[n].gen /\ q.then = "Park"
      BY <1>1, <3>1, <3>3, TornDownGood
    <3> HIDE DEF q, torn
    <3> QED
      BY <1>1, <2>1, <3>1, <3>2, <3>4 DEF q
  <2>2. CASE n \notin O /\ n \in C
    <3> DEFINE q == ParkedNext(ps[n])
    <3>1. torn[n] = q /\ ps[n].life = "Stopping"
      BY <1>2, <2>2
    <3>2. q = [ps[n] EXCEPT !.then = "Park"]
      BY DEF ParkedNext
    <3> HIDE DEF q, torn
    <3>3. /\ q \in Records /\ q.life = ps[n].life /\ q.why = ps[n].why /\ q.inc = ps[n].inc
          /\ q.then = "Park" /\ q.waiters = ps[n].waiters /\ q.timer = ps[n].timer
          /\ q.gen = ps[n].gen /\ q.leader = ps[n].leader
      BY <1>1, <3>2 DEF Records
    <3>4. Good(q)
      BY <1>1, <3>1, <3>3 DEF Good, WellFormed
    <3> QED
      BY <1>1, <2>2, <3>1, <3>3, <3>4
  <2>3. CASE n \notin O /\ n \notin C
    <3>1. torn[n] = ps[n]
      BY <2>3
    <3>2. ~ps[n].inc /\ ps[n].life # "Stopping"
      BY <1>2, <2>3
    <3>3. ps[n].life \in {"Absent", "Exited"}
      BY <1>1, <3>2 DEF Good, WellFormed, Records
    <3> HIDE DEF torn
    <3> QED
      BY <1>1, <2>3, <3>1, <3>2, <3>3
  <2> QED
    BY <1>2, <2>1, <2>2, <2>3
<1>5. torn \in [Names -> Records] /\ gone \in [Names -> Records]
  <2>1. \A n \in Names : torn[n] \in Records
    BY <1>4 DEF Good
  <2>2. NoProc \in Records
    BY NoProcGood DEF Good
  <2> QED
    BY <2>1, <2>2
<1>6. /\ O \in SUBSET Names /\ C \in SUBSET Names
      /\ \A n \in O : TaskOf(n, ps[n]).name = n /\ TaskOf(n, ps[n]).gen = procs[n].gen
  BY <1>1, <1>2 DEF TaskOf
<1>7. /\ \A t \in T : t.name \in O /\ t.gen = procs[t.name].gen
      /\ \A t, u \in T : t.name = u.name => t = u
      /\ \A n \in O : \E t \in T : t.name = n
  BY <1>6
<1>8. T \subseteq [name : Names, gen : Nat, leader : {"alive"} \cup Codes]
  BY <1>1, <1>6, TaskType
<1> HIDE DEF torn, gone, T
<1>9. TypeOK'
  <2>1. procs' \in [Names -> Records]
    BY <1>3, <1>5
  <2>2. batch' \in BatchType
    BY <1>3, <1>6 DEF NoBatch
  <2>3. (IF C = {} THEN "allstopped" ELSE "StopAll") \in Pending \cup Answers
    BY DEF Pending, Answers
  <2>4. clients' \in [Clients -> Pending \cup Answers]
    BY <1>3, <2>3, AnswerType DEF Inv
  <2>5. published' \in [Names -> Nat]
    BY <1>3, <2>1, RunningPortsType DEF Publish
  <2> QED
    BY <1>3, <1>8, <2>1, <2>2, <2>4, <2>5 DEF Inv, TypeOK
<1>10. CASE C = {}
  <2>1. \A n \in Names : procs'[n] = NoProc
    BY <1>3, <1>10 DEF gone
  <2>2. \A n \in Names : procs[n].life # "Stopping"
    BY <1>1, <1>2, <1>10
  <2>3. tasks = {} /\ finished = {}
    BY <2>2 DEF Inv, TypeOK, OneTeardown
  <2>4. O = {} /\ T = {}
    BY <1>2, <1>10 DEF T
  <2>5. LifeShape'
    BY <2>1, NoProcGood DEF LifeShape, Good
  <2>6. OneTeardown'
    BY <1>3, <2>1, <2>3, <2>4 DEF OneTeardown, NoProc
  <2>7. StopAllCovers'
    BY <1>3, <1>10 DEF StopAllCovers, NoBatch
  <2> QED
    BY <1>9, <2>5, <2>6, <2>7 DEF Inv
<1>11. CASE C # {}
  <2>1. procs' = torn /\ batch' = [on |-> TRUE, remaining |-> C, replies |-> {c}]
    BY <1>3, <1>11
  <2>2. Begins(O, T)
    BY <1>3, <1>4, <1>5, <1>6, <1>7, <2>1 DEF Begins
  <2>3. LifeShape' /\ OneTeardown'
    BY <2>2, BeginStep
  <2>4. StopAllCovers'
    BY <1>4, <1>11, <2>1 DEF StopAllCovers
  <2> QED
    BY <1>9, <2>3, <2>4 DEF Inv
<1> QED
  BY <1>10, <1>11

(* finish_teardown always finds its own Stopping record; the last one of a *)
(* stop-all leaves nothing in flight.                                      *)
LEMMA StopFinishedInv ==
    ASSUME Inv, NEW m \in finished, NEW ok \in BOOLEAN, NEW wok \in BOOLEAN,
           StopFinished(m, ok, wok)
    PROVE  Inv'
<1> DEFINE n == m.name
           p == procs[n]
           respawns == p.then \in Respawns
           q == IF respawns THEN Respawned(Parked(p, m.code), p.then, ok, wok)
                ELSE Parked(p, m.code)
           remaining == batch.remaining \ {n}
           done == batch.on /\ remaining = {}
           gone == [k \in Names |-> NoProc]
           ps == IF done THEN gone ELSE [procs EXCEPT ![n] = q]
<1>1. m \in [name : Names, gen : Nat, code : Codes] /\ n \in Names
      /\ procs \in [Names -> Records] /\ nextGen \in Nat
  BY DEF Inv, TypeOK
<1>2. p.life = "Stopping" /\ p.gen = m.gen /\ Good(p)
  BY <1>1 DEF Inv, TypeOK, LifeShape, OneTeardown, Good
<1>3. /\ procs' = ps /\ finished' = finished \ {m} /\ tasks' = tasks
      /\ batch' = IF done THEN NoBatch ELSE [batch EXCEPT !.remaining = remaining]
      /\ nextGen' \in {nextGen, nextGen + 1}
      /\ published' = RunningPorts(ps)
      /\ wantDown' \subseteq wantDown
      /\ UNCHANGED <<timers, events, proxyOn, nextPort>>
  BY <1>2 DEF StopFinished, PublishIf
<1>4. clients' \in [Clients -> Pending \cup Answers]
  <2>1. \A c \in Clients : WaiterAnswer(c, p, ok) \in Answers
    BY DEF WaiterAnswer, Answers
  <2>2. "allstopped" \in Answers /\ clients \in [Clients -> Pending \cup Answers]
    BY DEF Answers, Inv, TypeOK
  <2> QED
    BY <2>1, <2>2 DEF StopFinished
<1>5. Good(q) /\ q.life # "Stopping" /\ (~respawns => q.life = "Exited" /\ ~q.inc)
  <2> DEFINE r == Parked(p, m.code)
  <2>1. Good(r) /\ r.life = "Exited" /\ r.why = "Manual" /\ ~r.inc
    BY <1>1, <1>2, ParkedGood
  <2> HIDE DEF r, p
  <2>2. CASE respawns
    <3> DEFINE z == Respawned(r, p.then, ok, wok)
    <3>1. Good(z) /\ z.life \in {"Running", "Exited"}
      BY <1>1, <2>1, <2>2, RespawnedGood
    <3>2. q = z
      BY <2>2 DEF r
    <3> HIDE DEF z, q
    <3> QED
      BY <2>2, <3>1, <3>2
  <2>3. CASE ~respawns
    BY <2>1, <2>3 DEF r
  <2> QED
    BY <2>2, <2>3
<1> HIDE DEF q, gone
<1>6. gone \in [Names -> Records] /\ \A k \in Names : gone[k] = NoProc
  BY NoProcGood DEF gone, Good
<1>7. ps \in [Names -> Records]
  BY <1>1, <1>5, <1>6 DEF Good
<1>8. batch' \in [on : BOOLEAN, remaining : SUBSET Names, replies : SUBSET Clients]
  BY <1>3 DEF Inv, TypeOK, NoBatch
<1>9. TypeOK'
  <2> HIDE DEF ps, done, remaining
  <2>1. RunningPorts(ps) \in [Names -> Nat]
    BY <1>7, RunningPortsType
  <2>2. nextGen' \in Nat
    BY <1>1, <1>3
  <2>3. procs' \in [Names -> Records] /\ published' \in [Names -> Nat]
    BY <1>3, <1>7, <2>1
  <2>4. finished' \subseteq [name : Names, gen : Nat, code : Codes]
    BY <1>3 DEF Inv, TypeOK
  <2>5. /\ tasks' \subseteq [name : Names, gen : Nat, leader : {"alive"} \cup Codes]
        /\ timers' \subseteq [name : Names, gen : Nat]
        /\ events' \subseteq [name : Names, gen : Nat, slot : Slots]
        /\ proxyOn' \in BOOLEAN /\ nextPort' \in AutoPorts /\ wantDown' \subseteq Names
    <3>1. tasks' = tasks /\ timers' = timers /\ events' = events /\ proxyOn' = proxyOn
          /\ nextPort' = nextPort /\ wantDown' \subseteq wantDown
      BY <1>3
    <3> QED
      BY <3>1 DEF Inv, TypeOK
  <2> QED
    BY <1>4, <1>8, <2>2, <2>3, <2>4, <2>5 DEF TypeOK
<1>10. CASE done
  <2>1. procs' = gone /\ batch' = NoBatch
    BY <1>3, <1>10
  <2>2. \A k \in Names \ {n} : procs[k].life # "Stopping"
    BY <1>10 DEF Inv, StopAllCovers
  <2>3. tasks' = {} /\ finished' = {}
    <3>1. \A t \in tasks : t.name = n
      BY <2>2 DEF Inv, TypeOK, OneTeardown
    <3>2. tasks = {}
      BY <3>1 DEF Inv, OneTeardown
    <3>3. \A k \in finished : k.name = n
      BY <2>2 DEF Inv, TypeOK, OneTeardown
    <3>4. \A k \in finished : k = m
      BY <3>3 DEF Inv, OneTeardown
    <3> QED
      BY <1>3, <3>2, <3>4
  <2>4. LifeShape'
    BY <1>6, <2>1, NoProcGood DEF LifeShape, Good
  <2>5. OneTeardown'
    BY <1>6, <2>1, <2>3 DEF OneTeardown, NoProc
  <2>6. StopAllCovers'
    BY <2>1 DEF StopAllCovers, NoBatch
  <2> QED
    BY <1>9, <2>4, <2>5, <2>6 DEF Inv
<1>11. CASE ~done
  <2>1. /\ procs' = [procs EXCEPT ![n] = q] /\ procs'[n] = q
        /\ \A k \in Names \ {n} : procs'[k] = procs[k]
    BY <1>1, <1>3, <1>11
  <2>2. /\ batch' = [batch EXCEPT !.remaining = remaining]
        /\ batch \in [on : BOOLEAN, remaining : SUBSET Names, replies : SUBSET Clients]
    BY <1>3, <1>11 DEF Inv, TypeOK
  <2>3. /\ batch'.on = batch.on /\ batch'.remaining = remaining
        /\ batch'.replies = batch.replies
    BY <2>2
  <2>4. LifeShape'
    BY <1>5, <2>1 DEF Inv, LifeShape, Good
  <2>5. OneTeardown'
    <3>1. /\ \A t \in tasks : t.name \in Names \ {n}
          /\ \A k \in finished' : k \in finished /\ k.name \in Names \ {n}
      BY <1>3 DEF Inv, TypeOK, OneTeardown
    <3>2. /\ \A t \in tasks' : procs'[t.name].life = "Stopping" /\ procs'[t.name].gen = t.gen
          /\ \A k \in finished' : procs'[k.name].life = "Stopping" /\ procs'[k.name].gen = k.gen
      BY <1>3, <2>1, <3>1 DEF Inv, OneTeardown
    <3>3. /\ \A t, u \in tasks' : t.name = u.name => t = u
          /\ \A j, k \in finished' : j.name = k.name => j = k
          /\ \A t \in tasks', k \in finished' : t.name # k.name
      BY <1>3, <3>1 DEF Inv, OneTeardown
    <3>4. ASSUME NEW k \in Names, procs'[k].life = "Stopping"
          PROVE  (\E t \in tasks' : t.name = k) \/ (\E j \in finished' : j.name = k)
      <4>1. k # n /\ procs[k].life = "Stopping"
        BY <1>5, <2>1, <3>4
      <4> QED
        BY <1>3, <4>1 DEF Inv, OneTeardown
    <3> QED
      BY <3>2, <3>3, <3>4 DEF OneTeardown
  <2>6. StopAllCovers'
    <3>1. CASE batch.on
      <4>1. n \in batch.remaining /\ p.then = "Park"
        BY <1>1, <1>2, <3>1 DEF Inv, StopAllCovers
      <4>2. q.life = "Exited" /\ ~q.inc
        BY <1>5, <4>1 DEF Respawns
      <4>3. remaining # {} /\ batch.replies # {}
        BY <1>11, <3>1 DEF Inv, StopAllCovers
      <4>4. ASSUME NEW k \in Names
            PROVE  IF k \in remaining
                   THEN procs'[k].life = "Stopping" /\ procs'[k].then = "Park"
                   ELSE procs'[k].life \in {"Absent", "Exited"} /\ ~procs'[k].inc
        <5>1. CASE k = n
          BY <2>1, <4>2, <5>1
        <5>2. CASE k # n
          BY <2>1, <3>1, <5>2 DEF Inv, StopAllCovers
        <5> QED
          BY <5>1, <5>2
      <4> HIDE DEF remaining
      <4> QED
        BY <2>3, <3>1, <4>3, <4>4 DEF StopAllCovers
    <3>2. CASE ~batch.on
      BY <2>3, <3>2 DEF Inv, StopAllCovers
    <3> QED
      BY <3>1, <3>2
  <2> QED
    BY <1>9, <2>4, <2>5, <2>6 DEF Inv
<1> QED
  BY <1>10, <1>11

(* The invariant is inductive: every action of the actor and of what runs  *)
(* beside it preserves it.                                                 *)
LEMMA StepInv ==
    ASSUME Inv, [Next]_vars
    PROVE  Inv'
<1>1. SpawnResults \subseteq BOOLEAN /\ WatchResults \subseteq BOOLEAN
      /\ WatchFlags \subseteq BOOLEAN
  BY DEF SpawnResults, WatchResults, WatchFlags
<1>2. Bindable \subseteq SUBSET AutoPorts /\ RunPorts \subseteq Nat
  BY PortsAssumption DEF Bindable, RunPorts, NoPort
<1>3. ASSUME NEW c \in Clients, Spawn(c) PROVE Inv'
  <2>1. PICK n \in Names, port \in RunPorts, free \in Bindable :
           \/ SpawnError(c, n, port, free)
           \/ \E pol \in Policies, w \in WatchFlags, wok \in WatchResults :
                SpawnOk(c, n, pol, w, port, free, wok)
    BY <1>3 DEF Spawn
  <2>2. CASE SpawnError(c, n, port, free)
    BY <1>2, <2>2, SpawnErrorInv
  <2>3. ASSUME NEW pol \in Policies, NEW w \in WatchFlags, NEW wok \in WatchResults,
               SpawnOk(c, n, pol, w, port, free, wok)
        PROVE  Inv'
    BY <1>1, <1>2, <2>3, SpawnOkInv
  <2> QED
    BY <2>1, <2>2, <2>3
<1>4. ASSUME NEW c \in Clients, Refused(c) PROVE Inv'
  BY <1>4, RefusedInv
<1>5. ASSUME NEW c \in Clients, StopAllJoin(c) PROVE Inv'
  BY <1>5, StopAllJoinInv
<1>6. ASSUME NEW c \in Clients, StopAllBegin(c) PROVE Inv'
  BY <1>6, StopAllBeginInv
<1>7. ASSUME NEW c \in Clients, NEW n \in Names, Stop(c, n) PROVE Inv'
  BY <1>7, StopInv
<1>8. ASSUME NEW c \in Clients, NEW n \in Names, Restart(c, n) PROVE Inv'
  BY <1>8, RestartInv
<1>9. CASE Status \/ IsProcessExited
  BY <1>9, StatusInv
<1>10. CASE EnableProxy
  BY <1>10, EnableProxyInv
<1>11. CASE Tick
  BY <1>11, TickInv
<1>12. ASSUME NEW e \in events, WatchRestart(e) PROVE Inv'
  BY <1>12, WatchRestartInv
<1>13. ASSUME NEW n \in Names, FireTimer(n) PROVE Inv'
  BY <1>13, AutoRestartInv DEF FireTimer
<1>14. ASSUME NEW n \in Names, FinishTeardown(n) PROVE Inv'
  <2>1. PICK m \in finished, ok \in SpawnResults, wok \in WatchResults :
           StopFinished(m, ok, wok)
    BY <1>14 DEF FinishTeardown
  <2> QED
    BY <1>1, <2>1, StopFinishedInv
<1>15. ASSUME NEW n \in Names, EndTeardown(n) PROVE Inv'
  BY <1>15, TeardownDoneInv DEF EndTeardown
<1>16. ASSUME NEW n \in Names, NEW code \in Codes, LeaderExit(n, code) PROVE Inv'
  BY <1>16, LeaderExitInv
<1>17. ASSUME NEW n \in Names, NEW s \in Slots, FileChange(n, s) PROVE Inv'
  BY <1>17, FileChangeInv
<1>18. CASE UNCHANGED vars
  BY <1>18 DEF vars, Inv, TypeOK, LifeShape, OneTeardown, StopAllCovers
<1> QED
  BY <1>3, <1>4, <1>5, <1>6, <1>7, <1>8, <1>9, <1>10, <1>11, <1>12, <1>13, <1>14, <1>15,
     <1>16, <1>17, <1>18 DEF Next

(* From the first command on, every behaviour of the actor satisfies the   *)
(* invariant.                                                              *)
LEMMA InvAlways == Spec => []Inv
<1>1. Inv /\ [Next]_vars => Inv'
  BY StepInv
<1> QED
  BY <1>1, InitInv, PTL DEF Spec

-----------------------------------------------------------------------------
(* Theorems                                                                *)

(* Type correctness, for any processes, clients, policies and ports.       *)
THEOREM TypeCorrect == Spec => []TypeOK
<1>1. Inv => TypeOK
  BY DEF Inv
<1> QED
  BY <1>1, InvAlways, PTL

(* A record owns its incarnation exactly while the leader runs or has      *)
(* exited without a stop: no handler ever drops or duplicates one.         *)
THEOREM LifeShapeHolds == Spec => []LifeShape
<1>1. Inv => LifeShape
  BY DEF Inv
<1> QED
  BY <1>1, InvAlways, PTL

(* Stopping records and teardowns in flight correspond one to one, so      *)
(* neither unreachable!() of the actor is ever reached.                    *)
THEOREM OneTeardownHolds == Spec => []OneTeardown
<1>1. Inv => OneTeardown
  BY DEF Inv
<1> QED
  BY <1>1, InvAlways, PTL

(* While a stop-all is in progress nothing can run again, and what it      *)
(* waits for is exactly what is still being torn down.                     *)
THEOREM StopAllCoversHolds == Spec => []StopAllCovers
<1>1. Inv => StopAllCovers
  BY DEF Inv
<1> QED
  BY <1>1, InvAlways, PTL

(* The clear() behind an answered stop-all loses nothing: a step that      *)
(* tells a client all is stopped leaves no record and no teardown.         *)
Cleared == (\A n \in Names : procs'[n].life = "Absent") /\ tasks' = {} /\ finished' = {}
SaysStopped(c) == clients'[c] = "allstopped" /\ clients[c] # "allstopped"

(* An answer other than allstopped tells nobody that all is stopped.       *)
LEMMA OtherAnswer ==
    ASSUME Inv, NEW d \in Clients, NEW a, a # "allstopped", Answer(d, a),
           NEW c \in Clients
    PROVE  ~SaysStopped(c)
BY DEF Inv, TypeOK, Answer, SaysStopped

(* A stop-all that finds nothing to tear down is answered at once.         *)
LEMMA BeginClean ==
    ASSUME Inv, NEW d \in Clients, StopAllBegin(d), NEW c \in Clients, SaysStopped(c)
    PROVE  Cleared
<1> DEFINE ps == Refreshed(procs)
           none == Covered(ps) = {}
<1>1. CASE none
  <2>1. /\ procs' = [n \in Names |-> NoProc] /\ finished' = finished
        /\ tasks' = tasks \cup {TaskOf(n, ps[n]) : n \in Owned(ps)}
    BY <1>1 DEF StopAllBegin
  <2>2. Owned(ps) = {} /\ \A n \in Names : ps[n].life # "Stopping"
    BY <1>1 DEF Covered
  <2>3. \A n \in Names : procs[n].life # "Stopping"
    BY <2>2 DEF Refreshed, Unseen
  <2>4. tasks = {} /\ finished = {}
    BY <2>3 DEF Inv, TypeOK, OneTeardown
  <2> QED
    BY <2>1, <2>2, <2>4 DEF Cleared, NoProc
<1>2. CASE ~none
  <2>1. Answer(d, "StopAll")
    BY <1>2 DEF StopAllBegin
  <2> QED
    BY <2>1, OtherAnswer
<1> QED
  BY <1>1, <1>2

(* The StopFinished that ends a batch is the last teardown in flight.      *)
LEMMA FinishClean ==
    ASSUME Inv, NEW m \in finished, NEW ok \in BOOLEAN, NEW wok \in BOOLEAN,
           StopFinished(m, ok, wok), NEW c \in Clients, SaysStopped(c)
    PROVE  Cleared
<1>1. m.name \in Names /\ procs[m.name].gen = m.gen
  BY DEF Inv, TypeOK, OneTeardown
<1>2. WaiterAnswer(c, procs[m.name], ok) # "allstopped"
  BY DEF WaiterAnswer
<1>3. batch.on /\ batch.remaining \ {m.name} = {}
  BY <1>1, <1>2 DEF StopFinished, SaysStopped
<1>4. /\ procs' = [n \in Names |-> NoProc] /\ tasks' = tasks
      /\ finished' = finished \ {m}
  BY <1>1, <1>3 DEF StopFinished
<1>5. \A n \in Names \ {m.name} : procs[n].life # "Stopping"
  BY <1>3 DEF Inv, StopAllCovers
<1>6. tasks = {}
  <2>1. \A t \in tasks : t.name = m.name
    BY <1>5 DEF Inv, TypeOK, OneTeardown
  <2> QED
    BY <2>1 DEF Inv, OneTeardown
<1>7. \A k \in finished : k = m
  <2>1. \A k \in finished : k.name = m.name
    BY <1>5 DEF Inv, TypeOK, OneTeardown
  <2> QED
    BY <2>1 DEF Inv, OneTeardown
<1> QED
  BY <1>4, <1>6, <1>7 DEF Cleared, NoProc

(* The steps that can answer a stop-all are the two above.                 *)
LEMMA StopAllCleanStep ==
    ASSUME Inv, Next, NEW c \in Clients, SaysStopped(c)
    PROVE  Cleared
<1>1. SpawnResults \subseteq BOOLEAN /\ WatchResults \subseteq BOOLEAN
  BY DEF SpawnResults, WatchResults
<1>2. clients' # clients
  BY DEF SaysStopped
<1>3. ASSUME NEW d \in Clients, Spawn(d) PROVE FALSE
  <2>1. Answer(d, "ok") \/ Answer(d, "error")
    <3>1. \A n, port, free : SpawnError(d, n, port, free) => Answer(d, "error")
      BY DEF SpawnError
    <3>2. \A n, pol, w, port, free, wok :
            SpawnOk(d, n, pol, w, port, free, wok) => Answer(d, "ok")
      BY DEF SpawnOk
    <3> QED
      BY <1>3, <3>1, <3>2 DEF Spawn
  <2> QED
    BY <2>1, OtherAnswer
<1>4. ASSUME NEW d \in Clients, Refused(d) \/ StopAllJoin(d) PROVE FALSE
  <2>1. Answer(d, "error") \/ Answer(d, "StopAll")
    BY <1>4 DEF Refused, StopAllJoin
  <2> QED
    BY <2>1, OtherAnswer
<1>5. ASSUME NEW d \in Clients, NEW n \in Names, Stop(d, n) \/ Restart(d, n) PROVE FALSE
  <2>1. \E a \in {"error", "Stop", "stopped", "Restart"} : Answer(d, a)
    BY <1>5 DEF Stop, Restart
  <2> QED
    BY <2>1, OtherAnswer
<1>6. ASSUME NEW d \in Clients, StopAllBegin(d) PROVE Cleared
  BY <1>6, BeginClean
<1>7. ~(Status \/ IsProcessExited \/ EnableProxy \/ Tick)
  BY <1>2 DEF Status, IsProcessExited, EnableProxy, Tick
<1>8. \A e \in events : ~WatchRestart(e)
  BY <1>2 DEF WatchRestart
<1>9. ASSUME NEW n \in Names PROVE ~FireTimer(n) /\ ~EndTeardown(n)
  BY <1>2 DEF FireTimer, AutoRestart, EndTeardown, TeardownDone
<1>10. ASSUME NEW n \in Names, FinishTeardown(n) PROVE Cleared
  <2>1. PICK m \in finished, ok \in SpawnResults, wok \in WatchResults :
           StopFinished(m, ok, wok)
    BY <1>10 DEF FinishTeardown
  <2> QED
    BY <1>1, <2>1, FinishClean
<1>11. ASSUME NEW n \in Names
       PROVE  /\ \A code \in Codes : ~LeaderExit(n, code)
              /\ \A s \in Slots : ~FileChange(n, s)
  BY <1>2 DEF LeaderExit, FileChange
<1> QED
  BY <1>3, <1>4, <1>5, <1>6, <1>7, <1>8, <1>9, <1>10, <1>11 DEF Next

(* A client told that all processes are stopped is told the truth,         *)
(* whatever commands, timers, file changes and teardowns were in flight    *)
(* when it asked.                                                          *)
THEOREM StopAllCleanHolds == Spec => StopAllClean
<1>1. Inv /\ [Next]_vars =>
        [\A c \in Clients : clients'[c] = "allstopped" /\ clients[c] # "allstopped" =>
            /\ \A n \in Names : procs'[n].life = "Absent"
            /\ tasks' = {} /\ finished' = {}]_vars
  BY StopAllCleanStep DEF Cleared, SaysStopped
<1> QED
  BY <1>1, InvAlways, PTL DEF Spec, StopAllClean


-----------------------------------------------------------------------------
(* What a step does to one record.  The theorems below are about single    *)
(* records, so each of them looks at these seven moves instead of at the   *)
(* actions.                                                                *)

(* Nothing but the kernel's news about the leader, what a refresh or a     *)
(* tick makes of it, and the watcher.                                      *)
Calm(p, q) ==
    /\ q.gen = p.gen /\ q.policy = p.policy /\ q.port = p.port /\ q.count = p.count
    /\ q.inc = p.inc /\ q.then = p.then /\ q.waiters = p.waiters
    /\ q.life = p.life \/ (p.life = "Running" /\ q.life = "Exited")
    /\ p.life = "Stopping" => q = p
    /\ ~p.inc => q.why = p.why

Looks(n) == Calm(procs[n], procs'[n]) /\ procs'[n].timer = procs[n].timer

(* A tick finds a restart candidate and starts its timer.                  *)
Arms(n) ==
    /\ Calm(procs[n], procs'[n])
    /\ procs'[n].life = "Exited" /\ ~OutOfRestarts(procs'[n])
    /\ [name |-> n, gen |-> procs'[n].gen] \in timers'

(* A teardown starts: for a stop or a stop-all, for a restart, or, for a   *)
(* timer or a file change, of a record that nobody stopped.                *)
Torn(n) ==
    LET p == procs[n]
        q == procs'[n]
    IN  /\ p.life \in {"Running", "Exited"} /\ q.life = "Stopping"
        /\ q.gen = p.gen /\ q.policy = p.policy /\ q.port = p.port /\ ~q.timer
        /\ q.count \in {p.count, 0} \/ (p.timer /\ q.count = p.count + 1)
        /\ q.leader = "alive" => p.life = "Running"
        /\ \/ q.then = "Park" \/ n \notin wantDown'
           \/ p.inc \/ (p.why = "SpawnFailed" /\ events # {})

(* A request joins a teardown in flight.                                   *)
Joins(n) ==
    LET p == procs[n]
        q == procs'[n]
    IN  /\ p.life = "Stopping" /\ q.life = "Stopping"
        /\ q.gen = p.gen /\ q.policy = p.policy /\ q.port = p.port /\ q.count = p.count
        /\ q.leader = p.leader /\ ~q.timer
        /\ q.then = "Park" \/ n \notin wantDown'

(* A teardown ends: the record is parked, respawned, or failed to be.      *)
Lands(n) ==
    LET p == procs[n]
        q == procs'[n]
    IN  /\ p.life = "Stopping" /\ q.policy = p.policy /\ q.port = p.port /\ ~q.timer
        /\ q.count \in {p.count, 0}
        /\ \/ q.life = "Exited" /\ q.why = "Manual" /\ q.gen = p.gen
           \/ /\ q.life = "Exited" /\ q.why = "SpawnFailed" /\ q.gen = p.gen
              /\ p.then # "Park" /\ "spawnfail" \in Env
           \/ /\ q.life = "Running" /\ q.gen = nextGen + 1 /\ nextGen' = nextGen + 1
              /\ p.then # "Park"

(* A record is inserted, or cleared with all others.                       *)
Enters(n) ==
    LET q == procs'[n]
    IN  /\ q.life = "Running" /\ q.gen = nextGen + 1 /\ nextGen' = nextGen + 1
        /\ q.count = 0 /\ ~q.timer /\ n \notin wantDown'
Gone(n) == procs'[n] = NoProc

Stays(n) == Looks(n) \/ Arms(n) \/ Torn(n) \/ Joins(n)
Moves(n) == Stays(n) \/ Lands(n) \/ Enters(n) \/ Gone(n)

(* A record that is left alone, and one that is only refreshed, is calm.   *)
LEMMA SameCalm ==
    ASSUME NEW p
    PROVE  Calm(p, p)
BY DEF Calm

(* What a refresh does to a record is calm, and leaves it well formed.     *)
LEMMA RefreshCalm ==
    ASSUME Inv, NEW n \in Names
    PROVE  LET p == Refreshed(procs)[n]
           IN  Calm(procs[n], p) /\ p.timer = procs[n].timer /\ Good(p) /\ Good(procs[n])
<1> DEFINE p == Refreshed(procs)[n]
<1>1. procs \in [Names -> Records] /\ LifeShape /\ Good(procs[n])
  BY DEF Inv, TypeOK, LifeShape, Good
<1>2. /\ Good(p)
      /\ Unseen(procs[n]) => p = SeenExit(procs[n])
      /\ ~Unseen(procs[n]) => p = procs[n]
      /\ p.gen = procs[n].gen /\ p.timer = procs[n].timer
      /\ p.inc = procs[n].inc
      /\ p.count = procs[n].count /\ p.policy = procs[n].policy
      /\ p.port = procs[n].port
      /\ p.then = procs[n].then /\ p.waiters = procs[n].waiters
  BY <1>1, RefreshedGood
<1> HIDE DEF p
<1>3. CASE Unseen(procs[n])
  <2>1. procs[n].life = "Running" /\ procs[n].inc
    BY <1>1, <1>3 DEF Unseen, Good, WellFormed
  <2>2. SeenExit(procs[n]).life = "Exited"
    BY <1>1 DEF SeenExit, Good, Records
  <2>3. p.life = "Exited"
    BY <1>2, <1>3, <2>2
  <2> QED
    BY <1>1, <1>2, <2>1, <2>3 DEF Calm, p
<1>4. CASE ~Unseen(procs[n])
  BY <1>1, <1>2, <1>4, SameCalm DEF p
<1> QED
  BY <1>3, <1>4

(* The pieces of a teardown's start that TornDownGood leaves out.          *)
LEMMA TornDownLeader ==
    ASSUME NEW p, Good(p), p.life \in {"Running", "Exited"}, NEW then, NEW ws,
           TornDown(p, then, ws).leader = "alive"
    PROVE  p.life = "Running"
<1> DEFINE l == IF p.life = "Running" THEN "alive" ELSE p.leader
<1>1. TornDown(p, then, ws).leader = l
  BY DEF TornDown, Good, Records
<1> QED
  BY <1>1 DEF Good, WellFormed

(* Joining a teardown does not touch what the record knows of its leader.  *)
LEMMA JoinedLeader ==
    ASSUME NEW p, Good(p), NEW then, NEW w
    PROVE  Joined(p, then, w).leader = p.leader
BY DEF Joined, Good, Records

(* A step that leaves every record alone, or only refreshes them.          *)
LEMMA StillMoves ==
    ASSUME Inv, procs' = procs, NEW n \in Names
    PROVE  Stays(n)
BY SameCalm DEF Stays, Looks

(* A step that only refreshes.                                             *)
LEMMA RefreshMoves ==
    ASSUME Inv, procs' = Refreshed(procs), NEW n \in Names
    PROVE  Stays(n)
BY RefreshCalm DEF Stays, Looks

(* A handler that refreshes and then replaces the record n.                *)
LEMMA OtherMoves ==
    ASSUME Inv, NEW n \in Names, NEW q \in Records,
           procs' = [Refreshed(procs) EXCEPT ![n] = q] \/ procs' = [procs EXCEPT ![n] = q]
    PROVE  procs'[n] = q /\ \A k \in Names \ {n} : Looks(k)
<1>1. procs \in [Names -> Records] /\ Refreshed(procs) \in [Names -> Records]
  BY RefreshedGood DEF Inv, TypeOK
<1>2. procs'[n] = q
  BY <1>1
<1>3. ASSUME NEW k \in Names \ {n}
      PROVE  Looks(k)
  <2>1. procs'[k] = Refreshed(procs)[k] \/ procs'[k] = procs[k]
    BY <1>1
  <2> QED
    BY <2>1, RefreshCalm, SameCalm DEF Looks
<1> QED
  BY <1>2, <1>3

(* Starting a teardown after a refresh, for Stop and Restart.              *)
LEMMA TearMoves ==
    ASSUME Inv, NEW n \in Names, NEW then \in {"Park"} \cup Respawns,
           NEW ws \in SUBSET (Clients \X {"Stop", "Restart"}),
           Refreshed(procs)[n].life \in {"Running", "Exited"},
           procs' = [Refreshed(procs) EXCEPT ![n] = TornDown(Refreshed(procs)[n], then, ws)],
           then = "Park" \/ n \notin wantDown',
           NEW k \in Names
    PROVE  Stays(k)
<1> DEFINE p == Refreshed(procs)[n]
           q == TornDown(p, then, ws)
<1>1. Calm(procs[n], p) /\ Good(p)
  BY RefreshCalm
<1>2. p.life \in {"Running", "Exited"} /\ procs' = [Refreshed(procs) EXCEPT ![n] = q]
  OBVIOUS
<1> HIDE DEF p
<1>3. /\ Good(q) /\ q.life = "Stopping" /\ q.gen = p.gen /\ q.then = then
      /\ ~q.timer /\ q.count = p.count /\ q.policy = p.policy /\ q.port = p.port
  BY <1>1, <1>2, TornDownGood
<1>4. q.leader = "alive" => p.life = "Running"
  BY <1>1, <1>2, TornDownLeader
<1> HIDE DEF q
<1>5. procs'[n] = q /\ \A j \in Names \ {n} : Looks(j)
  BY <1>2, <1>3, OtherMoves DEF Good
<1>6. Torn(n)
  BY <1>1, <1>2, <1>3, <1>4, <1>5 DEF Torn, Calm
<1> QED
  BY <1>5, <1>6 DEF Stays

(* Joining a teardown after a refresh, for Stop and Restart.               *)
LEMMA JoinMoves ==
    ASSUME Inv, NEW n \in Names, NEW then \in {"Park"} \cup Respawns,
           NEW w \in Clients \X {"Stop", "Restart"},
           Refreshed(procs)[n].life = "Stopping",
           procs' = [Refreshed(procs) EXCEPT ![n] = Joined(Refreshed(procs)[n], then, w)],
           then = "Park" \/ n \notin wantDown',
           NEW k \in Names
    PROVE  Stays(k)
<1> DEFINE p == Refreshed(procs)[n]
           q == Joined(p, then, w)
<1>1. Calm(procs[n], p) /\ Good(p)
  BY RefreshCalm
<1>2. p.life = "Stopping" /\ procs' = [Refreshed(procs) EXCEPT ![n] = q]
  OBVIOUS
<1> HIDE DEF p
<1>3. /\ Good(q) /\ q.life = "Stopping" /\ q.gen = p.gen /\ q.then = then
      /\ ~q.timer /\ q.count = p.count /\ q.policy = p.policy /\ q.port = p.port
  BY <1>1, <1>2, JoinedGood
<1>4. q.leader = p.leader
  BY <1>1, JoinedLeader
<1> HIDE DEF q
<1>5. procs'[n] = q /\ \A j \in Names \ {n} : Looks(j)
  BY <1>2, <1>3, OtherMoves DEF Good
<1>6. Joins(n)
  BY <1>1, <1>2, <1>3, <1>4, <1>5 DEF Joins, Calm
<1> QED
  BY <1>5, <1>6 DEF Stays

(* Stop: a refresh, a join, a watcher dropped, or a teardown begun to      *)
(* park.                                                                   *)
LEMMA StopMoves ==
    ASSUME Inv, NEW c \in Clients, NEW n \in Names, Stop(c, n), NEW k \in Names
    PROVE  Stays(k)
<1> DEFINE ps == Refreshed(procs)
           p == ps[n]
<1>1. <<c, "Stop">> \in Clients \X {"Stop", "Restart"} /\ "Park" \in {"Park"} \cup Respawns
      /\ {<<c, "Stop">>} \in SUBSET (Clients \X {"Stop", "Restart"})
  OBVIOUS
<1>2. CASE p.life = "Absent" /\ procs' = ps
  BY <1>2, RefreshMoves
<1>3. CASE p.life = "Stopping" /\ procs' = [ps EXCEPT ![n] = Joined(p, "Park", <<c, "Stop">>)]
  BY <1>1, <1>3, JoinMoves
<1>4. CASE p.life = "Exited" /\ procs' = [ps EXCEPT ![n] = [p EXCEPT !.handle = FALSE]]
  <2> DEFINE q == [p EXCEPT !.handle = FALSE]
  <2>1. Calm(procs[n], p) /\ p.timer = procs[n].timer /\ Good(p)
    BY RefreshCalm
  <2>2. procs' = [ps EXCEPT ![n] = q] /\ p.life = "Exited"
    BY <1>4
  <2> HIDE DEF ps
  <2>3. /\ q \in Records /\ q.life = p.life /\ q.why = p.why /\ q.inc = p.inc
        /\ q.then = p.then /\ q.waiters = p.waiters /\ q.timer = p.timer
        /\ q.gen = p.gen /\ q.policy = p.policy /\ q.port = p.port /\ q.count = p.count
    BY <2>1 DEF Good, Records
  <2> HIDE DEF q
  <2>4. procs'[n] = q /\ \A j \in Names \ {n} : Looks(j)
    BY <2>2, <2>3, OtherMoves DEF ps
  <2>5. Looks(n)
    BY <2>1, <2>2, <2>3, <2>4 DEF Looks, Calm
  <2> QED
    BY <2>4, <2>5 DEF Stays
<1>5. CASE p.inc /\ procs' = [ps EXCEPT ![n] = TornDown(p, "Park", {<<c, "Stop">>})]
  <2>1. p.life \in {"Running", "Exited"}
    BY <1>5, RefreshCalm DEF Good, WellFormed
  <2> QED
    BY <1>1, <1>5, <2>1, TearMoves
<1> QED
  BY <1>2, <1>3, <1>4, <1>5 DEF Stop

(* Restart: a refresh, a join or a teardown begun, and the name is wanted  *)
(* up.                                                                     *)
LEMMA RestartMoves ==
    ASSUME Inv, NEW c \in Clients, NEW n \in Names, Restart(c, n), NEW k \in Names
    PROVE  Stays(k)
<1> DEFINE ps == Refreshed(procs)
           p == ps[n]
<1>1. <<c, "Restart">> \in Clients \X {"Stop", "Restart"} /\ "Manual" \in {"Park"} \cup Respawns
      /\ {<<c, "Restart">>} \in SUBSET (Clients \X {"Stop", "Restart"})
  BY DEF Respawns
<1>2. CASE procs' = ps
  BY <1>2, RefreshMoves
<1>3. CASE /\ p.life = "Stopping" /\ n \notin wantDown'
           /\ procs' = [ps EXCEPT ![n] = Joined(p, "Manual", <<c, "Restart">>)]
  BY <1>1, <1>3, JoinMoves
<1>4. CASE /\ p.life \in {"Running", "Exited"} /\ n \notin wantDown'
           /\ procs' = [ps EXCEPT ![n] = TornDown(p, "Manual", {<<c, "Restart">>})]
  BY <1>1, <1>4, TearMoves
<1> QED
  BY <1>2, <1>3, <1>4 DEF Restart
(* TornDown after the count was set, for AutoRestart and WatchRestart.     *)
LEMMA TearNowMoves ==
    ASSUME Inv, NEW n \in Names, NEW then \in Respawns, NEW i \in Nat,
           procs[n].life \in {"Running", "Exited"},
           procs' = [procs EXCEPT ![n] = TornDown([procs[n] EXCEPT !.count = i], then, {})],
           i = 0 \/ (procs[n].timer /\ i = procs[n].count + 1),
           procs[n].inc \/ (procs[n].why = "SpawnFailed" /\ events # {}),
           NEW k \in Names
    PROVE  Stays(k)
<1> DEFINE p == [procs[n] EXCEPT !.count = i]
           q == TornDown(p, then, {})
<1>1. Good(procs[n])
  BY DEF Inv, TypeOK, LifeShape, Good
<1>2. Good(p) /\ p.life = procs[n].life /\ p.gen = procs[n].gen
  BY <1>1, CountGood
<1>3. p.count = i /\ p.policy = procs[n].policy /\ p.port = procs[n].port
  BY <1>1 DEF Good, Records
<1>4. procs' = [procs EXCEPT ![n] = q]
  OBVIOUS
<1> HIDE DEF p
<1>5. then \in {"Park"} \cup Respawns /\ {} \in SUBSET (Clients \X {"Stop", "Restart"})
  OBVIOUS
<1>6. /\ Good(q) /\ q.life = "Stopping" /\ q.gen = p.gen /\ q.then = then
      /\ ~q.timer /\ q.count = p.count /\ q.policy = p.policy /\ q.port = p.port
  BY <1>2, <1>5, TornDownGood
<1>7. q.leader = "alive" => p.life = "Running"
  BY <1>2, TornDownLeader
<1> HIDE DEF q
<1>8. procs'[n] = q /\ \A j \in Names \ {n} : Looks(j)
  BY <1>4, <1>6, OtherMoves DEF Good
<1>9. Torn(n)
  BY <1>2, <1>3, <1>6, <1>7, <1>8 DEF Torn
<1> QED
  BY <1>8, <1>9 DEF Stays

(* AutoRestart tears down only a record that waits for a timer, one        *)
(* restart further.                                                        *)
LEMMA AutoRestartMoves ==
    ASSUME Inv, NEW t \in timers, AutoRestart(t), NEW k \in Names
    PROVE  Stays(k)
<1> DEFINE n == t.name
           p == procs[n]
           acts == ~batch.on /\ p.gen = t.gen /\ p.life = "Exited" /\ p.why = "Natural" /\ p.timer
<1>1. n \in Names /\ Good(p) /\ p.count + 1 \in Nat /\ "Auto" \in Respawns
  BY DEF Inv, TypeOK, LifeShape, Good, Records, Respawns
<1>2. CASE acts
  <2>1. procs' = [procs EXCEPT ![n] = TornDown([p EXCEPT !.count = p.count + 1], "Auto", {})]
    BY <1>2 DEF AutoRestart
  <2>2. p.inc /\ p.life \in {"Running", "Exited"} /\ p.timer
    BY <1>1, <1>2 DEF Good, WellFormed
  <2> HIDE DEF n
  <2> QED
    BY <1>1, <2>1, <2>2, TearNowMoves
<1>3. CASE ~acts
  BY <1>3, StillMoves DEF AutoRestart
<1> QED
  BY <1>2, <1>3

(* WatchRestart spares a record that was parked, not one whose respawn     *)
(* failed.                                                                 *)
LEMMA WatchRestartMoves ==
    ASSUME Inv, NEW e \in events, WatchRestart(e), NEW k \in Names
    PROVE  Stays(k)
<1> DEFINE n == e.name
           p == procs[n]
           acts == /\ ~batch.on /\ p.gen = e.gen
                   /\ p.life = "Running" \/ (p.life = "Exited" /\ p.why # "Manual")
<1>1. n \in Names /\ Good(p) /\ "Watch" \in Respawns /\ 0 \in Nat
  BY DEF Inv, TypeOK, LifeShape, Good, Respawns
<1>2. CASE acts
  <2>1. procs' = [procs EXCEPT ![n] = TornDown([p EXCEPT !.count = 0], "Watch", {})]
    BY <1>2 DEF WatchRestart
  <2>2. p.inc \/ (p.why = "SpawnFailed" /\ events # {})
    BY <1>1, <1>2 DEF Good, WellFormed, Records
  <2>3. p.life \in {"Running", "Exited"}
    BY <1>2
  <2> HIDE DEF n
  <2> QED
    BY <1>1, <2>1, <2>2, <2>3, TearNowMoves
<1>3. CASE ~acts
  BY <1>3, StillMoves DEF WatchRestart
<1> QED
  BY <1>2, <1>3

(* A tick gives a timer to a candidate with a restart left, and to no      *)
(* other record.                                                           *)
LEMMA TickLooks ==
    ASSUME Inv, Tick, NEW n \in Names
    PROVE  Looks(n) \/ Arms(n)
<1> DEFINE ps == Refreshed(procs)
           cands == IF batch.on THEN {} ELSE {k \in Names : Candidate(ps[k])}
           exhausted == {k \in cands : OutOfRestarts(ps[k])}
           restartable == cands \ exhausted
           p == ps[n]
<1>1. Calm(procs[n], p) /\ p.timer = procs[n].timer /\ Good(p)
  BY RefreshCalm
<1>2. /\ procs'[n] = IF n \in exhausted THEN [p EXCEPT !.why = "Exhausted"]
                     ELSE IF n \in restartable THEN [p EXCEPT !.timer = TRUE]
                     ELSE p
      /\ timers' = timers \cup {[name |-> k, gen |-> ps[k].gen] : k \in restartable}
  BY DEF Tick
<1>3. n \in cands => p.life = "Exited" /\ p.why = "Natural" /\ p.inc
  BY <1>1 DEF Candidate, Good, WellFormed
<1>4. n \in restartable => ~OutOfRestarts(p)
  OBVIOUS
<1> HIDE DEF ps, cands
<1>5. CASE n \in exhausted
  <2> DEFINE q == [p EXCEPT !.why = "Exhausted"]
  <2>1. procs'[n] = q /\ n \in cands
    BY <1>2, <1>5
  <2>2. /\ q.life = p.life /\ q.inc = p.inc
        /\ q.then = p.then /\ q.waiters = p.waiters /\ q.timer = p.timer
        /\ q.gen = p.gen /\ q.policy = p.policy /\ q.port = p.port /\ q.count = p.count
    BY <1>1 DEF Good, Records
  <2> HIDE DEF q
  <2>3. Looks(n)
    BY <1>1, <1>3, <2>1, <2>2 DEF Looks, Calm
  <2> QED
    BY <2>3
<1>6. CASE n \notin exhausted /\ n \in restartable
  <2> DEFINE q == [p EXCEPT !.timer = TRUE]
  <2>1. procs'[n] = q /\ n \in cands /\ [name |-> n, gen |-> p.gen] \in timers'
    BY <1>2, <1>6
  <2>2. /\ q.life = p.life /\ q.inc = p.inc /\ q.why = p.why
        /\ q.then = p.then /\ q.waiters = p.waiters
        /\ q.gen = p.gen /\ q.policy = p.policy /\ q.port = p.port /\ q.count = p.count
    BY <1>1 DEF Good, Records
  <2> HIDE DEF q
  <2>3. Arms(n)
    BY <1>1, <1>3, <1>4, <1>6, <2>1, <2>2 DEF Arms, Calm, OutOfRestarts
  <2> QED
    BY <2>3
<1>7. CASE n \notin exhausted /\ n \notin restartable
  <2>1. procs'[n] = p
    BY <1>2, <1>7
  <2> QED
    BY <1>1, <2>1 DEF Looks
<1> QED
  BY <1>5, <1>6, <1>7

(* A leader's exit is calm.                                                *)
LEMMA LeaderExitLooks ==
    ASSUME Inv, NEW n \in Names, NEW code \in Codes, LeaderExit(n, code), NEW k \in Names
    PROVE  Looks(k)
<1> DEFINE p == procs[n]
           q == [p EXCEPT !.leader = code]
<1>1. procs \in [Names -> Records] /\ Good(p) /\ p.life = "Running"
  BY DEF Inv, TypeOK, LifeShape, Good, LeaderExit
<1>2. /\ q \in Records /\ q.life = p.life /\ q.inc = p.inc /\ q.why = p.why
      /\ q.then = p.then /\ q.waiters = p.waiters /\ q.timer = p.timer
      /\ q.gen = p.gen /\ q.policy = p.policy /\ q.port = p.port /\ q.count = p.count
  BY <1>1 DEF Good, Records
<1>3. procs' = [procs EXCEPT ![n] = q]
  BY DEF LeaderExit
<1> HIDE DEF q
<1>4. procs'[n] = q /\ \A j \in Names \ {n} : Looks(j)
  BY <1>2, <1>3, OtherMoves
<1>5. Looks(n)
  BY <1>1, <1>2, <1>4 DEF Looks, Calm
<1> QED
  BY <1>4, <1>5

(* Spawn gives the new record the next generation and a fresh count.       *)
LEMMA SpawnOkMoves ==
    ASSUME Inv, NEW c \in Clients, NEW n \in Names, NEW pol \in Policies, NEW w \in BOOLEAN,
           NEW port \in RunPorts, NEW free \in SUBSET AutoPorts, NEW wok \in BOOLEAN,
           SpawnOk(c, n, pol, w, port, free, wok), NEW k \in Names
    PROVE  Moves(k)
<1> DEFINE r == ResolvedPort(port, free)
           q == NewRecord(pol, w, r, wok)
<1>1. nextPort \in AutoPorts /\ nextGen \in Nat
  BY DEF Inv, TypeOK
<1>p. pol \in [mode : Modes, max : Nat \cup {Unlimited}]
  BY PoliciesAssumption
<1>r. r \in Nat
  BY <1>1, PortTypes
<1>2. /\ procs' = [procs EXCEPT ![n] = q] /\ nextGen' = nextGen + 1
      /\ wantDown' = wantDown \ {n}
  BY DEF SpawnOk
<1> HIDE DEF r
<1>3. Good(q) /\ q.life = "Running" /\ q.gen = nextGen + 1 /\ ~q.timer /\ q.count = 0
  <2>1. Good(q) /\ q.life = "Running" /\ q.gen = nextGen + 1 /\ q.count = 0
    BY <1>1, <1>p, <1>r, NewRecordGood
  <2>2. ~q.timer
    BY <2>1 DEF Good, WellFormed
  <2> HIDE DEF q
  <2> QED
    BY <2>1, <2>2
<1> HIDE DEF q
<1>4. procs'[n] = q /\ \A j \in Names \ {n} : Looks(j)
  BY <1>2, <1>3, OtherMoves DEF Good
<1>5. Enters(n)
  BY <1>2, <1>3, <1>4 DEF Enters
<1> QED
  BY <1>4, <1>5 DEF Moves, Stays

(* A stop-all tears down, overrules what was to follow, or clears          *)
(* everything.                                                             *)
LEMMA StopAllBeginMoves ==
    ASSUME Inv, NEW c \in Clients, StopAllBegin(c), NEW n \in Names
    PROVE  Moves(n)
<1> DEFINE ps == Refreshed(procs)
           p == ps[n]
<1>1. Calm(procs[n], p) /\ p.timer = procs[n].timer /\ Good(p)
  BY RefreshCalm
<1>2. CASE Covered(ps) = {}
  <2>1. procs'[n] = NoProc
    BY <1>2 DEF StopAllBegin
  <2> QED
    BY <2>1 DEF Moves, Stays, Gone
<1>3. CASE Covered(ps) # {} /\ p.inc
  <2> DEFINE q == TornDown(p, "Park", {})
  <2>1. procs'[n] = q
    BY <1>3 DEF StopAllBegin, Owned
  <2>2. p.life \in {"Running", "Exited"}
    BY <1>1, <1>3 DEF Good, WellFormed
  <2>3. "Park" \in {"Park"} \cup Respawns /\ {} \in SUBSET (Clients \X {"Stop", "Restart"})
    OBVIOUS
  <2> HIDE DEF ps
  <2>4. /\ Good(q) /\ q.life = "Stopping" /\ q.gen = p.gen /\ q.then = "Park"
        /\ ~q.timer /\ q.count = p.count /\ q.policy = p.policy /\ q.port = p.port
    BY <1>1, <2>2, <2>3, TornDownGood
  <2>5. q.leader = "alive" => p.life = "Running"
    BY <1>1, <2>2, TornDownLeader
  <2> HIDE DEF q
  <2>6. Torn(n)
    BY <1>1, <2>1, <2>2, <2>4, <2>5 DEF Torn, Calm
  <2> QED
    BY <2>6 DEF Moves, Stays
<1>4. CASE Covered(ps) # {} /\ ~p.inc /\ p.life = "Stopping"
  <2> DEFINE q == [p EXCEPT !.then = "Park"]
  <2>1. procs'[n] = q
    BY <1>4 DEF StopAllBegin, Owned, Covered, ParkedNext
  <2>2. p.life = "Stopping"
    BY <1>4
  <2> HIDE DEF ps
  <2>3. /\ q.life = "Stopping" /\ q.gen = p.gen /\ q.then = "Park" /\ q.leader = p.leader
        /\ q.timer = p.timer /\ q.count = p.count /\ q.policy = p.policy /\ q.port = p.port
    BY <1>1, <2>2 DEF Good, Records
  <2>4. ~p.timer
    BY <1>1, <2>2 DEF Good, WellFormed
  <2> HIDE DEF q
  <2>5. Joins(n)
    BY <1>1, <2>1, <2>2, <2>3, <2>4 DEF Joins, Calm
  <2> QED
    BY <2>5 DEF Moves, Stays
<1>5. CASE Covered(ps) # {} /\ ~p.inc /\ p.life # "Stopping"
  <2>1. procs'[n] = p
    BY <1>5 DEF StopAllBegin, Owned, Covered
  <2> QED
    BY <1>1, <2>1 DEF Moves, Stays, Looks
<1> QED
  BY <1>2, <1>3, <1>4, <1>5

(* finish_teardown lands its record, and clears all with the last of a     *)
(* stop-all.                                                               *)
LEMMA StopFinishedMoves ==
    ASSUME Inv, NEW m \in finished, NEW ok \in SpawnResults, NEW wok \in BOOLEAN,
           StopFinished(m, ok, wok), NEW k \in Names
    PROVE  Moves(k)
<1> DEFINE n == m.name
           p == procs[n]
           respawns == p.then \in Respawns
           r == Parked(p, m.code)
           z == Respawned(r, p.then, ok, wok)
           q == IF respawns THEN z ELSE r
           done == batch.on /\ batch.remaining \ {n} = {}
<1>1. /\ n \in Names /\ m.code \in Codes /\ nextGen \in Nat
      /\ p.life = "Stopping" /\ p.gen = m.gen /\ Good(p)
  BY DEF Inv, TypeOK, LifeShape, OneTeardown, Good
<1>2. /\ procs' = IF done THEN [j \in Names |-> NoProc] ELSE [procs EXCEPT ![n] = q]
      /\ respawns => nextGen' = nextGen + 1
  BY <1>1 DEF StopFinished
<1>3. ok \in BOOLEAN /\ (~ok => "spawnfail" \in Env)
  BY DEF SpawnResults
<1> HIDE DEF n
<1>4. /\ Good(r) /\ r.life = "Exited" /\ r.why = "Manual" /\ r.gen = p.gen
      /\ ~r.timer /\ r.count = p.count /\ r.policy = p.policy /\ r.port = p.port
  BY <1>1, ParkedGood
<1> HIDE DEF r
<1>5. respawns =>
        /\ Good(z)
        /\ ok => z.life = "Running" /\ z.gen = nextGen + 1
        /\ ~ok => z.life = "Exited" /\ z.why = "SpawnFailed" /\ z.gen = p.gen
        /\ ~z.timer /\ z.count \in {p.count, 0} /\ z.policy = p.policy /\ z.port = p.port
  BY <1>1, <1>3, <1>4, RespawnedGood
<1> HIDE DEF z
<1>6. q \in Records
  BY <1>4, <1>5 DEF Good
<1>7. CASE done
  BY <1>2, <1>7 DEF Moves, Stays, Gone
<1>8. CASE ~done
  <2>1. procs' = [procs EXCEPT ![n] = q]
    BY <1>2, <1>8
  <2> HIDE DEF q
  <2>2. procs'[n] = q /\ \A j \in Names \ {n} : Looks(j)
    BY <1>1, <1>6, <2>1, OtherMoves
  <2>3. Lands(n)
    <3>1. CASE respawns
      BY <1>1, <1>2, <1>3, <1>5, <2>2, <3>1 DEF Lands, q, Respawns
    <3>2. CASE ~respawns
      BY <1>1, <1>4, <2>2, <3>2 DEF Lands, q
    <3> QED
      BY <3>1, <3>2
  <2> QED
    BY <2>2, <2>3 DEF Moves, Stays
<1> QED
  BY <1>7, <1>8
(* Every step: unless it publishes the port map, it ends no teardown,      *)
(* inserts no record and clears none.                                      *)
LEMMA StepMoves ==
    ASSUME Inv, [Next]_vars
    PROVE  /\ \A n \in Names : Moves(n)
           /\ published' = published \/ published' = RunningPorts(procs')
           /\ published' = RunningPorts(procs') \/ \A n \in Names : Stays(n)
<1> DEFINE Ok == /\ \A n \in Names : Moves(n)
                 /\ published' = published \/ published' = RunningPorts(procs')
                 /\ published' = RunningPorts(procs') \/ \A n \in Names : Stays(n)
<1>1. SpawnResults \subseteq BOOLEAN /\ WatchResults \subseteq BOOLEAN
      /\ WatchFlags \subseteq BOOLEAN /\ Bindable \subseteq SUBSET AutoPorts
  BY DEF SpawnResults, WatchResults, WatchFlags, Bindable
<1>2. ASSUME \A n \in Names : Stays(n),
             published' = published \/ published' = RunningPorts(procs')
      PROVE  Ok
  BY <1>2 DEF Moves
<1>3. ASSUME \A n \in Names : Moves(n), published' = RunningPorts(procs') PROVE Ok
  BY <1>3
<1>s. ASSUME procs' = procs, published' = published \/ published' = RunningPorts(procs)
      PROVE  Ok
  BY <1>2, <1>s, StillMoves
<1>r. ASSUME procs' = Refreshed(procs),
             published' = published \/ published' = RunningPorts(procs')
      PROVE  Ok
  BY <1>2, <1>r, RefreshMoves
<1> SUFFICES Ok
  OBVIOUS
<1> HIDE DEF Ok
<1>4. ASSUME NEW c \in Clients, Spawn(c) PROVE Ok
  <2>1. PICK n \in Names, port \in RunPorts, free \in Bindable :
           \/ SpawnError(c, n, port, free)
           \/ \E pol \in Policies, w \in WatchFlags, wok \in WatchResults :
                SpawnOk(c, n, pol, w, port, free, wok)
    BY <1>4 DEF Spawn
  <2>2. CASE SpawnError(c, n, port, free)
    BY <1>s, <2>2 DEF SpawnError, Publish
  <2>3. ASSUME NEW pol \in Policies, NEW w \in WatchFlags, NEW wok \in WatchResults,
               SpawnOk(c, n, pol, w, port, free, wok)
        PROVE  Ok
    <3>1. published' = RunningPorts(procs')
      BY <2>3 DEF SpawnOk, Publish
    <3> QED
      BY <1>1, <1>3, <2>3, <3>1, SpawnOkMoves
  <2> QED
    BY <2>1, <2>2, <2>3
<1>5. ASSUME NEW c \in Clients, Refused(c) \/ StopAllJoin(c) PROVE Ok
  BY <1>5, <1>s DEF Refused, StopAllJoin
<1>6. ASSUME NEW c \in Clients, StopAllBegin(c) PROVE Ok
  <2>1. published' = RunningPorts(procs')
    BY <1>6 DEF StopAllBegin, Publish
  <2> QED
    BY <1>3, <1>6, <2>1, StopAllBeginMoves
<1>7. ASSUME NEW c \in Clients, NEW n \in Names, Stop(c, n) PROVE Ok
  <2>1. published' = published
    BY <1>7 DEF Stop
  <2> QED
    BY <1>2, <1>7, <2>1, StopMoves
<1>8. ASSUME NEW c \in Clients, NEW n \in Names, Restart(c, n) PROVE Ok
  <2>1. published' = published
    BY <1>8 DEF Restart
  <2> QED
    BY <1>2, <1>8, <2>1, RestartMoves
<1>9. CASE Status \/ IsProcessExited
  BY <1>9, <1>r DEF Status, IsProcessExited, Publish, PublishIf
<1>10. CASE EnableProxy
  BY <1>10, <1>s DEF EnableProxy, Publish
<1>11. CASE Tick
  <2>1. published' = published \/ published' = RunningPorts(procs')
    BY <1>11 DEF Tick, PublishIf
  <2> QED
    BY <1>2, <1>11, <2>1, TickLooks DEF Stays
<1>12. ASSUME NEW e \in events, WatchRestart(e) PROVE Ok
  <2>1. published' = published
    BY <1>12 DEF WatchRestart
  <2> QED
    BY <1>2, <1>12, <2>1, WatchRestartMoves
<1>13. ASSUME NEW n \in Names, FireTimer(n) PROVE Ok
  <2>1. PICK t \in timers : AutoRestart(t)
    BY <1>13 DEF FireTimer
  <2>2. published' = published
    BY <2>1 DEF AutoRestart
  <2> QED
    BY <1>2, <2>1, <2>2, AutoRestartMoves
<1>14. ASSUME NEW n \in Names, FinishTeardown(n) PROVE Ok
  <2>1. PICK m \in finished, ok \in SpawnResults, wok \in WatchResults :
           StopFinished(m, ok, wok)
    BY <1>14 DEF FinishTeardown
  <2>2. procs[m.name].gen = m.gen
    BY DEF Inv, OneTeardown
  <2>3. published' = RunningPorts(procs')
    BY <2>1, <2>2 DEF StopFinished, PublishIf
  <2> QED
    BY <1>1, <1>3, <2>1, <2>3, StopFinishedMoves
<1>15. ASSUME NEW n \in Names, EndTeardown(n) PROVE Ok
  BY <1>15, <1>s DEF EndTeardown, TeardownDone
<1>16. ASSUME NEW n \in Names, NEW code \in Codes, LeaderExit(n, code) PROVE Ok
  <2>1. published' = published
    BY <1>16 DEF LeaderExit
  <2> QED
    BY <1>2, <1>16, <2>1, LeaderExitLooks DEF Stays
<1>17. ASSUME NEW n \in Names, NEW s \in Slots, FileChange(n, s) PROVE Ok
  BY <1>17, <1>s DEF FileChange
<1>18. CASE UNCHANGED vars
  BY <1>18, <1>s DEF vars
<1> QED
  BY <1>4, <1>5, <1>6, <1>7, <1>8, <1>9, <1>10, <1>11, <1>12, <1>13, <1>14, <1>15,
     <1>16, <1>17, <1>18 DEF Next

-----------------------------------------------------------------------------
(* The proxy's map                                                         *)

(* A map just published agrees with the records.                           *)
LEMMA PublishedRoutes ==
    ASSUME published' = RunningPorts(procs')
    PROVE  RoutesComplete'
BY DEF RoutesComplete, RunningPorts

(* Unless the map is published, no record comes alive or changes its port. *)
LEMMA StaysRoutes ==
    ASSUME RoutesComplete, published' = published, NEW n \in Names, Stays(n)
    PROVE  /\ LeaderAlive(procs[n])' => published'[n] = procs'[n].port
           /\ published'[n] \in {NoPort, procs'[n].port}
<1>1. procs'[n].port = procs[n].port
  BY DEF Stays, Looks, Arms, Torn, Joins, Calm
<1>2. LeaderAlive(procs'[n]) => LeaderAlive(procs[n])
  <2>1. CASE Looks(n) \/ Arms(n)
    BY <2>1 DEF Looks, Arms, Calm, LeaderAlive
  <2>2. CASE Torn(n)
    BY <2>2 DEF Torn, LeaderAlive
  <2>3. CASE Joins(n)
    BY <2>3 DEF Joins, LeaderAlive
  <2> QED
    BY <2>1, <2>2, <2>3 DEF Stays
<1> QED
  BY <1>1, <1>2 DEF RoutesComplete

(* Whatever sequence of handlers runs, and although most of them publish   *)
(* nothing, the proxy never misses a process whose leader is taken to be   *)
(* alive and never sends a name to a port that is not its record's.        *)
THEOREM RoutesCompleteHolds == Spec => []RoutesComplete
<1>1. Init => RoutesComplete
  BY DEF Init, RoutesComplete, NoProc, LeaderAlive, NoPort
<1>2. Inv /\ RoutesComplete /\ [Next]_vars => RoutesComplete'
  <2> SUFFICES ASSUME Inv, RoutesComplete, [Next]_vars
               PROVE  RoutesComplete'
    OBVIOUS
  <2>1. CASE published' = RunningPorts(procs')
    BY <2>1, PublishedRoutes
  <2>2. CASE published' = published /\ \A n \in Names : Stays(n)
    BY <2>2, StaysRoutes DEF RoutesComplete
  <2> QED
    BY <2>1, <2>2, StepMoves
<1> QED
  BY <1>1, <1>2, InvAlways, PTL DEF Spec
-----------------------------------------------------------------------------
(* Restart timers                                                          *)

(* Generations only grow, so a record or a timer never carries one that    *)
(* was not given out; and a record waits for a timer only while it has a   *)
(* restart left, which the tick checked and nothing since can have used.   *)
GensGiven ==
    /\ \A n \in Names : procs[n].gen <= nextGen
    /\ \A t \in timers : t.gen <= nextGen
ArmedBelow == \A n \in Names : procs[n].timer => ~OutOfRestarts(procs[n])
TimerInv == Inv /\ GensGiven /\ TimerArmed /\ WithinBudget /\ ArmedBelow

(* Timers start for an exit that was seen, and are spent only when the     *)
(* record is not, or no longer, waiting for them.                          *)
TimersKept ==
    /\ \A t \in timers' : t \in timers \/ (/\ t.name \in Names
                                            /\ procs'[t.name].gen = t.gen
                                            /\ procs'[t.name].life = "Exited")
    /\ \A t \in timers : t \in timers' \/ ~procs'[t.name].timer \/ procs'[t.name].gen # t.gen
    /\ nextGen' = nextGen \/ nextGen' = nextGen + 1

(* The AutoRestart handled was not the timer of a record still waiting:    *)
(* either it acts, or a stop-all left nothing to restart, or the record is *)
(* no longer the one it was started for.                                   *)
LEMMA AutoRestartTimers ==
    ASSUME Inv, NEW t \in timers, AutoRestart(t)
    PROVE  TimersKept
<1> DEFINE n == t.name
           p == procs[n]
           acts == ~batch.on /\ p.gen = t.gen /\ p.life = "Exited" /\ p.why = "Natural" /\ p.timer
<1>1. n \in Names /\ Good(p) /\ procs \in [Names -> Records]
  BY DEF Inv, TypeOK, LifeShape, Good
<1>2. timers' = timers \ {t} /\ nextGen' = nextGen
  BY DEF AutoRestart
<1>3. ~procs'[n].timer \/ procs'[n].gen # t.gen
  <2>1. CASE acts
    <3> DEFINE q == [p EXCEPT !.count = p.count + 1]
               z == TornDown(q, "Auto", {})
    <3>1. procs'[n] = z
      BY <1>1, <2>1 DEF AutoRestart
    <3>2. z.timer = FALSE
      BY <1>1 DEF TornDown, Good, Records
    <3> HIDE DEF z
    <3> QED
      BY <3>1, <3>2
  <2>2. CASE ~acts
    <3>1. procs' = procs
      BY <2>2 DEF AutoRestart
    <3>2. p.timer => p.why = "Natural" /\ p.life = "Exited" /\ p.inc
      BY <1>1 DEF Good, WellFormed
    <3>3. batch.on => ~p.inc
      BY <1>1 DEF Inv, StopAllCovers, Good, WellFormed
    <3> QED
      BY <2>2, <3>1, <3>2, <3>3
  <2> QED
    BY <2>1, <2>2
<1> QED
  BY <1>2, <1>3 DEF TimersKept

(* A tick's new timers carry the generation of exits it has just seen.     *)
LEMMA TickTimers ==
    ASSUME Inv, Tick
    PROVE  TimersKept
<1> DEFINE ps == Refreshed(procs)
           cands == IF batch.on THEN {} ELSE {k \in Names : Candidate(ps[k])}
           exhausted == {k \in cands : OutOfRestarts(ps[k])}
           restartable == cands \ exhausted
<1>1. /\ timers' = timers \cup {[name |-> k, gen |-> ps[k].gen] : k \in restartable}
      /\ nextGen' = nextGen
      /\ \A k \in restartable : procs'[k] = [ps[k] EXCEPT !.timer = TRUE]
      /\ \A k \in restartable : k \in Names /\ ps[k].life = "Exited"
  BY DEF Tick, Candidate
<1> HIDE DEF restartable, ps
<1>2. ASSUME NEW k \in restartable
      PROVE  procs'[k].gen = ps[k].gen /\ procs'[k].life = "Exited"
  <2>1. k \in Names /\ ps[k] \in Records
    BY <1>1, RefreshCalm DEF ps, Good
  <2> QED
    BY <1>1, <2>1 DEF Records
<1> QED
  BY <1>1, <1>2 DEF TimersKept

(* No other step starts or spends a timer.                                 *)
LEMMA StepTimers ==
    ASSUME Inv, [Next]_vars
    PROVE  TimersKept
<1>1. ASSUME timers' = timers, nextGen' = nextGen \/ nextGen' = nextGen + 1
      PROVE  TimersKept
  BY <1>1 DEF TimersKept
<1>2. ASSUME NEW c \in Clients, Spawn(c) PROVE TimersKept
  <2>1. \A n, port, free : SpawnError(c, n, port, free) => timers' = timers /\ nextGen' = nextGen
    BY DEF SpawnError
  <2>2. \A n, pol, w, port, free, wok : SpawnOk(c, n, pol, w, port, free, wok) =>
          timers' = timers /\ nextGen' = nextGen + 1
    BY DEF SpawnOk
  <2> QED
    BY <1>1, <1>2, <2>1, <2>2 DEF Spawn
<1>3. ASSUME NEW c \in Clients, Refused(c) \/ StopAllJoin(c) \/ StopAllBegin(c)
      PROVE  TimersKept
  BY <1>1, <1>3 DEF Refused, StopAllJoin, StopAllBegin
<1>4. ASSUME NEW c \in Clients, NEW n \in Names, Stop(c, n) \/ Restart(c, n)
      PROVE  TimersKept
  BY <1>1, <1>4 DEF Stop, Restart
<1>5. CASE Status \/ IsProcessExited \/ EnableProxy
  BY <1>1, <1>5 DEF Status, IsProcessExited, EnableProxy
<1>6. CASE Tick
  BY <1>6, TickTimers
<1>7. ASSUME NEW e \in events, WatchRestart(e) PROVE TimersKept
  BY <1>1, <1>7 DEF WatchRestart
<1>8. ASSUME NEW n \in Names, FireTimer(n) PROVE TimersKept
  BY <1>8, AutoRestartTimers DEF FireTimer
<1>9. ASSUME NEW n \in Names, FinishTeardown(n) \/ EndTeardown(n) PROVE TimersKept
  <2>1. \A m, ok, wok : StopFinished(m, ok, wok) =>
          timers' = timers /\ (nextGen' = nextGen \/ nextGen' = nextGen + 1)
    BY DEF StopFinished
  <2>2. \A t, code : TeardownDone(t, code) => timers' = timers /\ nextGen' = nextGen
    BY DEF TeardownDone
  <2> QED
    BY <1>1, <1>9, <2>1, <2>2 DEF FinishTeardown, EndTeardown
<1>10. ASSUME NEW n \in Names, NEW code \in Codes, LeaderExit(n, code) PROVE TimersKept
  BY <1>1, <1>10 DEF LeaderExit
<1>11. ASSUME NEW n \in Names, NEW s \in Slots, FileChange(n, s) PROVE TimersKept
  BY <1>1, <1>11 DEF FileChange
<1>12. CASE UNCHANGED vars
  BY <1>1, <1>12 DEF vars
<1> QED
  BY <1>2, <1>3, <1>4, <1>5, <1>6, <1>7, <1>8, <1>9, <1>10, <1>11, <1>12 DEF Next

(* What a move does to a record's generation, timer and restart count.     *)
LEMMA MoveTimer ==
    ASSUME Inv, Inv', GensGiven, TimersKept, NEW n \in Names, Moves(n)
    PROVE  LET p == procs[n]
               q == procs'[n]
           IN  /\ q.gen <= nextGen'
               /\ q.life = "Running" => (p.life = "Running" /\ q.gen = p.gen) \/ q.gen = nextGen + 1
               /\ q.timer =>
                    \/ p.timer /\ q.gen = p.gen /\ q.count = p.count /\ q.policy = p.policy
                    \/ ~OutOfRestarts(q) /\ [name |-> n, gen |-> q.gen] \in timers'
               /\ \/ q.count = 0
                  \/ q.count = p.count /\ q.policy = p.policy
                  \/ p.timer /\ q.count = p.count + 1 /\ q.policy = p.policy
<1> DEFINE p == procs[n]
           q == procs'[n]
<1>1. p.gen <= nextGen /\ nextGen \in Nat /\ nextGen' \in Nat /\ p.gen \in Nat
      /\ q.gen \in Nat /\ (nextGen' = nextGen \/ nextGen' = nextGen + 1)
  BY DEF Inv, TypeOK, Records, GensGiven, TimersKept
<1>2. q.life = "Stopping" => ~q.timer
  BY DEF Inv, LifeShape, WellFormed
<1>3. CASE Looks(n)
  BY <1>1, <1>3 DEF Looks, Calm
<1>4. CASE Arms(n)
  BY <1>1, <1>4 DEF Arms, Calm
<1>5. CASE Torn(n)
  BY <1>1, <1>5 DEF Torn
<1>6. CASE Joins(n)
  BY <1>1, <1>6 DEF Joins
<1>7. CASE Lands(n)
  BY <1>1, <1>7 DEF Lands
<1>8. CASE Enters(n)
  BY <1>1, <1>8 DEF Enters
<1>9. CASE Gone(n)
  BY <1>1, <1>9 DEF Gone, NoProc
<1> QED
  BY <1>3, <1>4, <1>5, <1>6, <1>7, <1>8, <1>9 DEF Moves, Stays
(* Timers, generations and counts: every step preserves the invariant.     *)
LEMMA TimerStep ==
    ASSUME TimerInv, [Next]_vars
    PROVE  TimerInv'
<1>1. Inv /\ Inv' /\ GensGiven /\ TimersKept /\ \A n \in Names : Moves(n)
  BY StepInv, StepTimers, StepMoves DEF TimerInv
<1>2. /\ procs \in [Names -> Records] /\ procs' \in [Names -> Records]
      /\ nextGen \in Nat /\ timers \subseteq [name : Names, gen : Nat]
      /\ timers' \subseteq [name : Names, gen : Nat] /\ nextGen' \in Nat
  BY <1>1 DEF Inv, TypeOK
<1>3. GensGiven'
  <2>1. ASSUME NEW n \in Names PROVE procs'[n].gen <= nextGen'
    BY <1>1, MoveTimer
  <2>2. ASSUME NEW t \in timers' PROVE t.gen <= nextGen'
    <3>1. CASE t \in timers
      <4>1. t.gen <= nextGen /\ t.gen \in Nat /\ (nextGen' = nextGen \/ nextGen' = nextGen + 1)
        BY <1>1, <1>2, <3>1 DEF GensGiven, TimersKept
      <4> QED
        BY <1>2, <4>1
    <3>2. CASE t \notin timers
      BY <1>1, <2>1, <3>2 DEF TimersKept
    <3> QED
      BY <3>1, <3>2
  <2> QED
    BY <2>1, <2>2 DEF GensGiven
<1>4. TimerArmed'
  <2>1. ASSUME NEW n \in Names, procs'[n].timer
        PROVE  /\ procs'[n].life = "Exited" /\ procs'[n].why = "Natural"
               /\ [name |-> n, gen |-> procs'[n].gen] \in timers'
    <3> DEFINE t == [name |-> n, gen |-> procs'[n].gen]
    <3>1. procs'[n].life = "Exited" /\ procs'[n].why = "Natural"
      BY <1>1, <2>1 DEF Inv, LifeShape, WellFormed
    <3>2. CASE procs[n].timer /\ procs'[n].gen = procs[n].gen
      <4>1. t \in timers /\ t.name = n /\ t.gen = procs'[n].gen
        BY <3>2 DEF TimerInv, TimerArmed
      <4> QED
        BY <1>1, <2>1, <3>1, <4>1 DEF TimersKept
    <3>3. CASE t \in timers'
      BY <3>1, <3>3
    <3> QED
      BY <1>1, <2>1, <3>2, <3>3, MoveTimer
  <2>2. ASSUME NEW t \in timers', procs'[t.name].gen = t.gen
        PROVE  procs'[t.name].life # "Running"
    <3>1. CASE t \in timers
      <4>1. /\ t.name \in Names /\ t.gen \in Nat /\ t.gen <= nextGen
            /\ procs[t.name].gen = t.gen => procs[t.name].life # "Running"
        BY <1>1, <1>2, <3>1 DEF GensGiven, TimerInv, TimerArmed
      <4>2. procs'[t.name].life = "Running" =>
              \/ procs[t.name].life = "Running" /\ procs'[t.name].gen = procs[t.name].gen
              \/ procs'[t.name].gen = nextGen + 1
        BY <1>1, <4>1, MoveTimer
      <4> QED
        BY <1>2, <2>2, <4>1, <4>2
    <3>2. CASE t \notin timers
      BY <1>1, <3>2 DEF TimersKept
    <3> QED
      BY <3>1, <3>2
  <2> QED
    BY <2>1, <2>2 DEF TimerArmed
<1>5. ASSUME NEW n \in Names
      PROVE  /\ procs'[n].policy.max # Unlimited => procs'[n].count <= procs'[n].policy.max
             /\ procs'[n].timer => ~OutOfRestarts(procs'[n])
  <2> DEFINE p == procs[n]
             q == procs'[n]
  <2>1. /\ q.count \in Nat /\ p.count \in Nat
        /\ q.policy.max \in Nat \cup {Unlimited} /\ p.policy.max \in Nat \cup {Unlimited}
    BY <1>2 DEF Records
  <2>2. /\ p.policy.max # Unlimited => p.count <= p.policy.max
        /\ p.timer => ~OutOfRestarts(p)
    BY DEF TimerInv, WithinBudget, ArmedBelow
  <2>3. /\ q.timer =>
             \/ p.timer /\ q.gen = p.gen /\ q.count = p.count /\ q.policy = p.policy
             \/ ~OutOfRestarts(q)
        /\ \/ q.count = 0
           \/ q.count = p.count /\ q.policy = p.policy
           \/ p.timer /\ q.count = p.count + 1 /\ q.policy = p.policy
    BY <1>1, MoveTimer
  <2> HIDE DEF p, q
  <2>4. q.timer => ~OutOfRestarts(q)
    BY <2>2, <2>3 DEF OutOfRestarts
  <2>5. q.policy.max # Unlimited => q.count <= q.policy.max
    BY <2>1, <2>2, <2>3 DEF OutOfRestarts, Unlimited
  <2> QED
    BY <2>4, <2>5 DEF q
<1>6. WithinBudget' /\ ArmedBelow'
  BY <1>5 DEF WithinBudget, ArmedBelow
<1> QED
  BY <1>1, <1>3, <1>4, <1>6 DEF TimerInv

(* The timers' invariant holds in every reachable state.                   *)
LEMMA TimerInvAlways == Spec => []TimerInv
<1>1. Init => TimerInv
  <2>1. Init => Inv
    BY InitInv
  <2>2. Init => GensGiven /\ TimerArmed /\ WithinBudget /\ ArmedBelow
    BY DEF Init, GensGiven, TimerArmed, WithinBudget, ArmedBelow, NoProc, Unlimited
  <2> QED
    BY <2>1, <2>2 DEF TimerInv
<1>2. TimerInv /\ [Next]_vars => TimerInv'
  BY TimerStep
<1> QED
  BY <1>1, <1>2, PTL DEF Spec

(* No crashed process is left waiting for a timer that is gone, and no     *)
(* late AutoRestart of any generation ever meets a running incarnation of  *)
(* its own, whatever restarts, stops and spawns came in between.           *)
THEOREM TimerArmedHolds == Spec => []TimerArmed
<1>1. TimerInv => TimerArmed
  BY DEF TimerInv
<1> QED
  BY <1>1, TimerInvAlways, PTL

(* max_restarts is never exceeded between two restarts that reset the      *)
(* count, for every policy.                                                *)
THEOREM WithinBudgetHolds == Spec => []WithinBudget
<1>1. TimerInv => WithinBudget
  BY DEF TimerInv
<1> QED
  BY <1>1, TimerInvAlways, PTL
-----------------------------------------------------------------------------
(* Stops that stick                                                        *)

(* A stop is undone in one way only: WatchRestart takes a record whose     *)
(* respawn failed, although it was stopped afterwards, for one that may be *)
(* restarted.  Without watchers, or without failed respawns, none is.      *)
Sticky == ~({"watch", "spawnfail"} \subseteq Env)
Down(p) ==
    \/ p.life = "Absent"
    \/ p.life = "Stopping" /\ p.then = "Park"
    \/ p.life = "Exited" /\ ~p.inc
OnlyWithWatch == "watch" \notin Env => events = {}
OnlyWithFailure ==
    "spawnfail" \notin Env => \A n \in Names : procs[n].why # "SpawnFailed"
DownInv ==
    /\ Sticky /\ Inv /\ OnlyWithWatch /\ OnlyWithFailure
    /\ \A n \in wantDown : Down(procs[n])

(* Only a stop or a stop-all asks for a process to be down, and it leaves  *)
(* the record so.                                                          *)
LEMMA StopDown ==
    ASSUME Inv, NEW c \in Clients, NEW n \in Names, Stop(c, n)
    PROVE  \A k \in wantDown' : k \in wantDown \/ Down(procs'[k])
<1> DEFINE ps == Refreshed(procs)
           p == ps[n]
<1>1. ps \in [Names -> Records] /\ Good(p)
  BY Lookup
<1>2. CASE p.life = "Absent" /\ wantDown' = wantDown
  BY <1>2
<1>3. CASE /\ p.life = "Stopping" /\ wantDown' = wantDown \cup {n}
           /\ procs' = [ps EXCEPT ![n] = Joined(p, "Park", <<c, "Stop">>)]
  <2> DEFINE q == Joined(p, "Park", <<c, "Stop">>)
  <2>1. procs'[n] = q
    BY <1>1, <1>3
  <2>2. q.life = p.life /\ q.then = "Park"
    BY <1>1 DEF Joined, Good, Records
  <2> HIDE DEF q
  <2> QED
    BY <1>3, <2>1, <2>2 DEF Down
<1>4. CASE /\ p.life = "Exited" /\ ~p.inc /\ wantDown' = wantDown \cup {n}
           /\ procs' = [ps EXCEPT ![n] = [p EXCEPT !.handle = FALSE]]
  <2> DEFINE q == [p EXCEPT !.handle = FALSE]
  <2>1. procs'[n] = q
    BY <1>1, <1>4
  <2>2. q.life = p.life /\ q.inc = p.inc
    BY <1>1 DEF Good, Records
  <2> HIDE DEF q
  <2> QED
    BY <1>4, <2>1, <2>2 DEF Down
<1>5. CASE /\ p.inc /\ wantDown' = wantDown \cup {n}
           /\ procs' = [ps EXCEPT ![n] = TornDown(p, "Park", {<<c, "Stop">>})]
  <2> DEFINE q == TornDown(p, "Park", {<<c, "Stop">>})
  <2>1. procs'[n] = q
    BY <1>1, <1>5
  <2>2. q.life = "Stopping" /\ q.then = "Park"
    BY <1>1 DEF TornDown, Good, Records
  <2> HIDE DEF q
  <2> QED
    BY <1>5, <2>1, <2>2 DEF Down
<1> QED
  BY <1>2, <1>3, <1>4, <1>5 DEF Stop

(* Everything a stop-all found is being torn down or has no incarnation.   *)
LEMMA StopAllDown ==
    ASSUME Inv, NEW c \in Clients, StopAllBegin(c)
    PROVE  \A k \in wantDown' : Down(procs'[k])
<1> DEFINE ps == Refreshed(procs)
<1>1. Inv' /\ wantDown' \subseteq Names
  BY StopAllBeginInv DEF Inv, TypeOK
<1>2. CASE Covered(ps) = {}
  BY <1>2 DEF StopAllBegin
<1>3. CASE Covered(ps) # {}
  <2>1. batch'.on
    BY <1>3 DEF StopAllBegin
  <2> QED
    BY <1>1, <2>1 DEF Inv, StopAllCovers, Down
<1> QED
  BY <1>2, <1>3

(* What a step adds to the names that should be down is down, and an event *)
(* needs a watcher.                                                        *)
LEMMA StepDown ==
    ASSUME Inv, [Next]_vars
    PROVE  /\ \A k \in wantDown' : k \in wantDown \/ Down(procs'[k])
           /\ OnlyWithWatch => OnlyWithWatch'
<1> DEFINE Ok == \A k \in wantDown' : k \in wantDown \/ Down(procs'[k])
           Quieter == events' \subseteq events
<1> USE DEF OnlyWithWatch
<1>2. ASSUME NEW c \in Clients, Spawn(c) PROVE Ok /\ Quieter
  <2>1. \A n, port, free : SpawnError(c, n, port, free) =>
          wantDown' = wantDown /\ events' = events
    BY DEF SpawnError
  <2>2. \A n, pol, w, port, free, wok : SpawnOk(c, n, pol, w, port, free, wok) =>
          wantDown' \subseteq wantDown /\ events' = events
    BY DEF SpawnOk
  <2> QED
    BY <1>2, <2>1, <2>2 DEF Spawn
<1>3. ASSUME NEW c \in Clients, Refused(c) \/ StopAllJoin(c) PROVE Ok /\ Quieter
  BY <1>3 DEF Refused, StopAllJoin
<1>4. ASSUME NEW c \in Clients, StopAllBegin(c) PROVE Ok /\ Quieter
  BY <1>4, StopAllDown DEF StopAllBegin
<1>5. ASSUME NEW c \in Clients, NEW n \in Names, Stop(c, n) PROVE Ok /\ Quieter
  <2>1. events' = events
    BY <1>5 DEF Stop
  <2> QED
    BY <1>5, <2>1, StopDown
<1>6. ASSUME NEW c \in Clients, NEW n \in Names, Restart(c, n) PROVE Ok /\ Quieter
  BY <1>6 DEF Restart
<1>7. ASSUME Status \/ IsProcessExited \/ EnableProxy \/ Tick PROVE Ok /\ Quieter
  BY <1>7 DEF Status, IsProcessExited, EnableProxy, Tick
<1>8. ASSUME NEW e \in events, WatchRestart(e) PROVE Ok /\ Quieter
  BY <1>8 DEF WatchRestart
<1>9. ASSUME NEW n \in Names, FireTimer(n) PROVE Ok /\ Quieter
  BY <1>9 DEF FireTimer, AutoRestart
<1>10. ASSUME NEW n \in Names, FinishTeardown(n) \/ EndTeardown(n) PROVE Ok /\ Quieter
  <2>1. \A m, ok, wok : StopFinished(m, ok, wok) => wantDown' \subseteq wantDown /\ events' = events
    BY DEF StopFinished
  <2>2. \A t, code : TeardownDone(t, code) => wantDown' = wantDown /\ events' = events
    BY DEF TeardownDone
  <2> QED
    BY <1>10, <2>1, <2>2 DEF FinishTeardown, EndTeardown
<1>11. ASSUME NEW n \in Names, NEW code \in Codes, LeaderExit(n, code) PROVE Ok /\ Quieter
  BY <1>11 DEF LeaderExit
<1>12. ASSUME NEW n \in Names, NEW s \in Slots, FileChange(n, s) PROVE Ok /\ "watch" \in Env
  BY <1>12 DEF FileChange
<1>13. ASSUME UNCHANGED vars PROVE Ok /\ Quieter
  BY <1>13 DEF vars
<1> HIDE DEF Ok
<1>14. Ok /\ (Quieter \/ "watch" \in Env)
  BY <1>2, <1>3, <1>4, <1>5, <1>6, <1>7, <1>8, <1>9, <1>10, <1>11, <1>12, <1>13 DEF Next
<1> QED
  BY <1>14 DEF Ok

(* A record that is down and is meant to be stays down, whatever meets it. *)
LEMMA MoveDown ==
    ASSUME DownInv, Inv', NEW n \in Names, n \in wantDown, n \in wantDown', Moves(n)
    PROVE  Down(procs'[n])
<1> DEFINE p == procs[n]
           q == procs'[n]
<1>1. /\ Good(p) /\ Good(q) /\ Down(p)
      /\ p.inc \in BOOLEAN /\ q.inc \in BOOLEAN
  BY DEF DownInv, Inv, TypeOK, LifeShape, Good, Records
<1>2. CASE Looks(n) \/ Arms(n)
  BY <1>1, <1>2 DEF Looks, Arms, Calm, Down
<1>3. CASE Torn(n)
  <2>1. p.life = "Exited" /\ ~p.inc /\ q.life = "Stopping"
    BY <1>1, <1>3 DEF Down, Torn, Good, WellFormed
  <2>2. ~(p.why = "SpawnFailed" /\ events # {})
    BY DEF DownInv, Sticky, OnlyWithWatch, OnlyWithFailure
  <2> QED
    BY <1>3, <2>1, <2>2 DEF Torn, Down
<1>4. CASE Joins(n)
  BY <1>4 DEF Joins, Down
<1>5. CASE Lands(n)
  <2>1. p.then = "Park"
    BY <1>1, <1>5 DEF Lands, Down
  <2>2. q.life = "Exited" /\ q.why = "Manual"
    BY <1>5, <2>1 DEF Lands
  <2> QED
    BY <1>1, <2>2 DEF Down, Good, WellFormed
<1>6. CASE Enters(n)
  BY <1>6 DEF Enters
<1>7. CASE Gone(n)
  BY <1>7 DEF Gone, NoProc, Down
<1> QED
  BY <1>2, <1>3, <1>4, <1>5, <1>6, <1>7 DEF Moves, Stays

(* A respawn fails only where the environment may make it fail.            *)
LEMMA MoveFailure ==
    ASSUME Inv, Inv', NEW n \in Names, Moves(n),
           procs'[n].why = "SpawnFailed", "spawnfail" \notin Env
    PROVE  procs[n].why = "SpawnFailed"
<1>1. Good(procs[n]) /\ Good(procs'[n])
  BY DEF Inv, TypeOK, LifeShape, Good
<1>2. procs'[n].life = "Exited" /\ ~procs'[n].inc
  BY <1>1 DEF Good, WellFormed
<1>3. CASE Looks(n) \/ Arms(n)
  BY <1>2, <1>3 DEF Looks, Arms, Calm
<1>4. CASE Torn(n) \/ Joins(n) \/ Enters(n) \/ Gone(n)
  BY <1>2, <1>4 DEF Torn, Joins, Enters, Gone, NoProc
<1>5. CASE Lands(n)
  BY <1>2, <1>5 DEF Lands
<1> QED
  BY <1>3, <1>4, <1>5 DEF Moves, Stays

(* Every step keeps what should be down, down.                             *)
LEMMA DownStep ==
    ASSUME DownInv, [Next]_vars
    PROVE  DownInv'
<1>1. Inv /\ Inv' /\ \A n \in Names : Moves(n)
  BY StepInv, StepMoves DEF DownInv
<1>2. wantDown \subseteq Names /\ wantDown' \subseteq Names
  BY <1>1 DEF Inv, TypeOK
<1>3. OnlyWithWatch' /\ \A n \in wantDown' : n \in wantDown \/ Down(procs'[n])
  BY <1>1, StepDown DEF DownInv
<1>4. OnlyWithFailure'
  BY <1>1, MoveFailure DEF DownInv, OnlyWithFailure
<1>5. \A n \in wantDown' : Down(procs'[n])
  BY <1>1, <1>2, <1>3, MoveDown
<1> QED
  BY <1>1, <1>3, <1>4, <1>5 DEF DownInv, Sticky

(* A process whose latest request was a stop is not started again by any   *)
(* timer, file change or superseded restart, in every environment without  *)
(* watchers or without failing spawns.  With both it can be: a stop after  *)
(* a failed respawn changes nothing that a file change in flight meets.    *)
THEOREM StopSticksHolds == Sticky /\ Spec => StopSticks
<1>1. Sticky /\ Init => DownInv
  BY InitInv DEF Init, DownInv, OnlyWithWatch, OnlyWithFailure, NoProc
<1>2. DownInv /\ [Next]_vars => DownInv'
  BY DownStep
<1>3. DownInv /\ DownInv' =>
        [\A n \in wantDown \cap wantDown' :
            procs'[n].life = "Running" => procs[n].life = "Running"]_vars
  BY DEF DownInv, Down
<1> QED
  BY <1>1, <1>2, <1>3, PTL DEF Spec, StopSticks
-----------------------------------------------------------------------------
(* Who is owed an answer                                                   *)

(* The four ways in which a step may touch what clients wait for.          *)
SameWaiters(S) == \A k \in S : procs'[k].waiters = procs[k].waiters

(* Nobody starts to wait and nobody who waits is answered.                 *)
Tells ==
    /\ SameWaiters(Names) /\ batch'.replies = batch.replies
    /\ \A c \in Clients : clients'[c] = clients[c] \/ (Free(c) /\ clients'[c] \notin Pending)

(* A client that did not wait does so at n, or for the stop-all.           *)
Asks(c, n, a) ==
    /\ Free(c) /\ Answer(c, a) /\ batch'.replies = batch.replies
    /\ procs'[n].waiters = procs[n].waiters \cup {<<c, a>>} /\ SameWaiters(Names \ {n})
Queues(c) ==
    /\ Free(c) /\ Answer(c, "StopAll") /\ SameWaiters(Names)
    /\ batch'.replies = batch.replies \cup {c}

(* All who wait at n are answered, and with the last record of a stop-all  *)
(* all who wait for that.                                                  *)
WaitsAt(c, n) == \E k \in {"Stop", "Restart"} : <<c, k>> \in procs[n].waiters
Settles(n, all) ==
    /\ procs'[n].waiters = {} /\ SameWaiters(Names \ {n})
    /\ batch'.replies = IF all THEN {} ELSE batch.replies
    /\ \A c \in Clients :
          IF WaitsAt(c, n) \/ (all /\ c \in batch.replies) THEN clients'[c] \notin Pending
          ELSE clients'[c] = clients[c]

(* Only a record that is being torn down has waiters, and no record has a  *)
(* waiter that is not one.                                                 *)
LEMMA WaiterFacts ==
    ASSUME Inv, NEW n \in Names
    PROVE  /\ procs[n].waiters \in SUBSET (Clients \X {"Stop", "Restart"})
           /\ procs[n].waiters # {} => procs[n].life = "Stopping"
BY DEF Inv, TypeOK, LifeShape, WellFormed, Records

(* Whoever is told something without waiting is held nowhere.              *)
LEMMA TellsHeld ==
    ASSUME Inv, Inv', WaitersHeld, Tells
    PROVE  WaitersHeld'
<1>1. ASSUME NEW c \in Clients, NEW n \in Names, NEW k \in {"Stop", "Restart"},
             <<c, k>> \in procs'[n].waiters
      PROVE  /\ clients'[c] = k /\ procs'[n].life = "Stopping"
             /\ \A m \in Names \ {n} : <<c, k>> \notin procs'[m].waiters
  <2>1. procs'[n].life = "Stopping"
    BY <1>1, WaiterFacts DEF Inv, LifeShape, WellFormed
  <2>2. <<c, k>> \in procs[n].waiters
    BY <1>1 DEF Tells, SameWaiters
  <2>3. clients[c] = k /\ \A m \in Names \ {n} : <<c, k>> \notin procs[m].waiters
    BY <2>2 DEF WaitersHeld
  <2> QED
    BY <2>1, <2>3 DEF Tells, SameWaiters, Free, Pending
<1>2. ASSUME NEW c \in Clients, clients'[c] \in {"Stop", "Restart"}
      PROVE  \E n \in Names : <<c, clients'[c]>> \in procs'[n].waiters
  <2>1. clients'[c] = clients[c]
    BY <1>2 DEF Tells, Pending
  <2> QED
    BY <1>2, <2>1 DEF WaitersHeld, Tells, SameWaiters
<1>3. ASSUME NEW c \in Clients
      PROVE  clients'[c] = "StopAll" <=> c \in batch'.replies
  BY DEF WaitersHeld, Tells, Free, Pending
<1> QED
  BY <1>1, <1>2, <1>3 DEF WaitersHeld

(* A client that starts to wait at a record was held nowhere before.       *)
LEMMA AsksHeld ==
    ASSUME Inv, Inv', WaitersHeld, NEW d \in Clients, NEW j \in Names,
           NEW a \in {"Stop", "Restart"}, Asks(d, j, a)
    PROVE  WaitersHeld'
<1>0. /\ clients'[d] = a /\ \A c \in Clients \ {d} : clients'[c] = clients[c]
      /\ clients[d] \notin Pending
  BY DEF Asks, Answer, Free, Inv, TypeOK
<1>n. \A n \in Names, k \in {"Stop", "Restart"} : <<d, k>> \notin procs[n].waiters
  BY <1>0 DEF WaitersHeld, Pending
<1>1. ASSUME NEW c \in Clients, NEW n \in Names, NEW k \in {"Stop", "Restart"},
             <<c, k>> \in procs'[n].waiters
      PROVE  /\ clients'[c] = k /\ procs'[n].life = "Stopping"
             /\ \A m \in Names \ {n} : <<c, k>> \notin procs'[m].waiters
  <2>1. procs'[n].life = "Stopping"
    BY <1>1 DEF Inv, LifeShape, WellFormed
  <2>2. CASE c = d
    BY <1>0, <1>1, <1>n, <2>1, <2>2 DEF Asks, SameWaiters
  <2>3. CASE c # d
    <3>1. <<c, k>> \in procs[n].waiters
      BY <1>1, <2>3 DEF Asks, SameWaiters
    <3>2. clients[c] = k /\ \A m \in Names \ {n} : <<c, k>> \notin procs[m].waiters
      BY <3>1 DEF WaitersHeld
    <3> QED
      BY <1>0, <2>1, <2>3, <3>2 DEF Asks, SameWaiters
  <2> QED
    BY <2>2, <2>3
<1>2. ASSUME NEW c \in Clients, clients'[c] \in {"Stop", "Restart"}
      PROVE  \E n \in Names : <<c, clients'[c]>> \in procs'[n].waiters
  <2>1. CASE c = d
    BY <1>0, <2>1 DEF Asks
  <2>2. CASE c # d
    <3>1. PICK n \in Names : <<c, clients[c]>> \in procs[n].waiters
      BY <1>0, <1>2, <2>2 DEF WaitersHeld
    <3> QED
      BY <1>0, <2>2, <3>1 DEF Asks, SameWaiters
  <2> QED
    BY <2>1, <2>2
<1>3. ASSUME NEW c \in Clients
      PROVE  clients'[c] = "StopAll" <=> c \in batch'.replies
  <2>1. clients[c] = "StopAll" <=> c \in batch.replies
    BY DEF WaitersHeld
  <2>2. CASE c = d
    BY <1>0, <2>1, <2>2 DEF Asks, Pending
  <2>3. CASE c # d
    BY <1>0, <2>1, <2>3 DEF Asks
  <2> QED
    BY <2>2, <2>3
<1> QED
  BY <1>1, <1>2, <1>3 DEF WaitersHeld

(* A client that joins a stop-all was held nowhere before.                 *)
LEMMA QueuesHeld ==
    ASSUME Inv, Inv', WaitersHeld, NEW d \in Clients, Queues(d)
    PROVE  WaitersHeld'
<1>0. /\ clients'[d] = "StopAll" /\ \A c \in Clients \ {d} : clients'[c] = clients[c]
      /\ clients[d] \notin Pending
  BY DEF Queues, Answer, Free, Inv, TypeOK
<1>1. ASSUME NEW c \in Clients, NEW n \in Names, NEW k \in {"Stop", "Restart"},
             <<c, k>> \in procs'[n].waiters
      PROVE  /\ clients'[c] = k /\ procs'[n].life = "Stopping"
             /\ \A m \in Names \ {n} : <<c, k>> \notin procs'[m].waiters
  <2>1. procs'[n].life = "Stopping"
    BY <1>1 DEF Inv, LifeShape, WellFormed
  <2>2. <<c, k>> \in procs[n].waiters
    BY <1>1 DEF Queues, SameWaiters
  <2>3. clients[c] = k /\ \A m \in Names \ {n} : <<c, k>> \notin procs[m].waiters
    BY <2>2 DEF WaitersHeld
  <2>4. c # d
    BY <1>0, <2>3 DEF Pending
  <2> QED
    BY <1>0, <2>1, <2>3, <2>4 DEF Queues, SameWaiters
<1>2. ASSUME NEW c \in Clients, clients'[c] \in {"Stop", "Restart"}
      PROVE  \E n \in Names : <<c, clients'[c]>> \in procs'[n].waiters
  <2>1. c # d /\ clients'[c] = clients[c]
    BY <1>0, <1>2
  <2> QED
    BY <1>2, <2>1 DEF WaitersHeld, Queues, SameWaiters
<1>3. ASSUME NEW c \in Clients
      PROVE  clients'[c] = "StopAll" <=> c \in batch'.replies
  <2>1. clients[c] = "StopAll" <=> c \in batch.replies
    BY DEF WaitersHeld
  <2>2. CASE c = d
    BY <1>0, <2>2 DEF Queues
  <2>3. CASE c # d
    BY <1>0, <2>1, <2>3 DEF Queues
  <2> QED
    BY <2>2, <2>3
<1> QED
  BY <1>1, <1>2, <1>3 DEF WaitersHeld

(* Settling a record answers exactly those held there and, with the last   *)
(* record, those the batch holds.                                          *)
LEMMA SettlesHeld ==
    ASSUME Inv, Inv', WaitersHeld, NEW j \in Names, NEW all \in BOOLEAN, Settles(j, all)
    PROVE  WaitersHeld'
<1>1. ASSUME NEW c \in Clients, NEW n \in Names, NEW k \in {"Stop", "Restart"},
             <<c, k>> \in procs'[n].waiters
      PROVE  /\ clients'[c] = k /\ procs'[n].life = "Stopping"
             /\ \A m \in Names \ {n} : <<c, k>> \notin procs'[m].waiters
  <2>1. procs'[n].life = "Stopping" /\ n # j
    BY <1>1 DEF Inv, LifeShape, WellFormed, Settles
  <2>2. <<c, k>> \in procs[n].waiters
    BY <1>1, <2>1 DEF Settles, SameWaiters
  <2>3. clients[c] = k /\ \A m \in Names \ {n} : <<c, k>> \notin procs[m].waiters
    BY <2>2 DEF WaitersHeld
  <2>4. ~WaitsAt(c, j)
    <3>1. \A i \in {"Stop", "Restart"} : <<c, i>> \in procs[j].waiters => clients[c] = i
      BY DEF WaitersHeld
    <3> QED
      BY <2>1, <2>3, <3>1 DEF WaitsAt
  <2>5. c \notin batch.replies
    BY <2>3 DEF WaitersHeld
  <2>6. clients'[c] = clients[c]
    BY <2>4, <2>5 DEF Settles
  <2>7. ASSUME NEW m \in Names \ {n} PROVE <<c, k>> \notin procs'[m].waiters
    BY <2>3 DEF Settles, SameWaiters
  <2> QED
    BY <2>1, <2>3, <2>6, <2>7
<1>2. ASSUME NEW c \in Clients, clients'[c] \in {"Stop", "Restart"}
      PROVE  \E n \in Names : <<c, clients'[c]>> \in procs'[n].waiters
  <2>1. clients'[c] = clients[c] /\ ~WaitsAt(c, j)
    BY <1>2 DEF Settles, Pending
  <2>2. PICK n \in Names : <<c, clients[c]>> \in procs[n].waiters
    BY <1>2, <2>1 DEF WaitersHeld
  <2>3. n # j
    BY <1>2, <2>1, <2>2 DEF WaitsAt
  <2> QED
    BY <2>1, <2>2, <2>3 DEF Settles, SameWaiters
<1>3. ASSUME NEW c \in Clients
      PROVE  clients'[c] = "StopAll" <=> c \in batch'.replies
  <2>1. clients[c] = "StopAll" <=> c \in batch.replies
    BY DEF WaitersHeld
  <2>2. CASE WaitsAt(c, j)
    <3>1. clients[c] \in {"Stop", "Restart"}
      BY <2>2 DEF WaitsAt, WaitersHeld
    <3> QED
      BY <2>1, <2>2, <3>1 DEF Settles, Pending
  <2>3. CASE ~WaitsAt(c, j)
    BY <2>1, <2>3 DEF Settles, Pending
  <2> QED
    BY <2>2, <2>3
<1> QED
  BY <1>1, <1>2, <1>3 DEF WaitersHeld
(* An answer to a client that does not wait, with the waiters as they were.*)
LEMMA TellStep ==
    ASSUME Inv, SameWaiters(Names), batch'.replies = batch.replies,
           NEW c \in Clients, Free(c), NEW a, a \notin Pending, Answer(c, a)
    PROVE  Tells
BY DEF Inv, TypeOK, Tells, Answer

(* A refresh touches nobody's waiters.                                     *)
LEMMA RefreshWaiters ==
    ASSUME Inv, procs' = procs \/ procs' = Refreshed(procs)
    PROVE  SameWaiters(Names)
<1>1. \A k \in Names : Refreshed(procs)[k].waiters = procs[k].waiters
  BY RefreshCalm DEF Calm
<1> QED
  BY <1>1 DEF SameWaiters

(* A handler that refreshes and then replaces the record n.                *)
LEMMA OtherWaiters ==
    ASSUME Inv, NEW n \in Names, NEW q \in Records,
           procs' = [Refreshed(procs) EXCEPT ![n] = q] \/ procs' = [procs EXCEPT ![n] = q]
    PROVE  procs'[n] = q /\ SameWaiters(Names \ {n})
BY OtherMoves DEF Looks, Calm, SameWaiters

(* A stop or a restart that joins a teardown or starts one.                *)
LEMMA AskStep ==
    ASSUME Inv, NEW c \in Clients, NEW n \in Names, NEW a \in {"Stop", "Restart"},
           NEW then \in {"Park"} \cup Respawns,
           Free(c), Answer(c, a), batch' = batch,
           LET p == Refreshed(procs)[n]
           IN  \/ /\ p.life = "Stopping"
                  /\ procs' = [Refreshed(procs) EXCEPT ![n] = Joined(p, then, <<c, a>>)]
               \/ /\ p.life \in {"Running", "Exited"}
                  /\ procs' = [Refreshed(procs) EXCEPT ![n] = TornDown(p, then, {<<c, a>>})]
    PROVE  Asks(c, n, a)
<1> DEFINE p == Refreshed(procs)[n]
           w == <<c, a>>
<1>1. Good(p) /\ Calm(procs[n], p)
  BY RefreshCalm
<1>2. w \in Clients \X {"Stop", "Restart"} /\ {w} \in SUBSET (Clients \X {"Stop", "Restart"})
  OBVIOUS
<1>3. CASE p.life = "Stopping" /\ procs' = [Refreshed(procs) EXCEPT ![n] = Joined(p, then, w)]
  <2> DEFINE q == Joined(p, then, w)
  <2>1. procs' = [Refreshed(procs) EXCEPT ![n] = q] /\ p.life = "Stopping"
    BY <1>3
  <2> HIDE DEF p, w
  <2>2. Good(q) /\ q.waiters = p.waiters \cup {w}
    BY <1>1, <1>2, <2>1, JoinedGood
  <2> HIDE DEF q
  <2>3. procs'[n] = q /\ SameWaiters(Names \ {n})
    BY <2>1, <2>2, OtherWaiters DEF Good
  <2> QED
    BY <1>1, <2>2, <2>3 DEF Asks, Calm, w
<1>4. CASE /\ p.life \in {"Running", "Exited"}
           /\ procs' = [Refreshed(procs) EXCEPT ![n] = TornDown(p, then, {w})]
  <2> DEFINE q == TornDown(p, then, {w})
  <2>1. procs' = [Refreshed(procs) EXCEPT ![n] = q] /\ p.life \in {"Running", "Exited"}
    BY <1>4
  <2> HIDE DEF p, w
  <2>2. Good(q) /\ q.waiters = {w} /\ p.waiters = {}
    BY <1>1, <1>2, <2>1, TornDownGood DEF Good, WellFormed
  <2> HIDE DEF q
  <2>3. procs'[n] = q /\ SameWaiters(Names \ {n})
    BY <2>1, <2>2, OtherWaiters DEF Good
  <2> QED
    BY <1>1, <2>2, <2>3 DEF Asks, Calm, w
<1> QED
  BY <1>3, <1>4

(* Stop answers at once or makes its client wait at the record.            *)
LEMMA StopAnswers ==
    ASSUME Inv, NEW c \in Clients, NEW n \in Names, Stop(c, n)
    PROVE  Tells \/ Asks(c, n, "Stop")
<1> DEFINE ps == Refreshed(procs)
           p == ps[n]
<1>1. Free(c) /\ batch' = batch /\ "Park" \in {"Park"} \cup Respawns
  BY DEF Stop
<1>2. Good(p) /\ Calm(procs[n], p)
  BY RefreshCalm
<1>3. CASE procs' = ps /\ Answer(c, "error")
  BY <1>1, <1>3, RefreshWaiters, TellStep DEF Pending
<1>4. CASE /\ Answer(c, "stopped")
           /\ procs' = [ps EXCEPT ![n] = [p EXCEPT !.handle = FALSE]]
  <2> DEFINE q == [p EXCEPT !.handle = FALSE]
  <2>1. procs' = [ps EXCEPT ![n] = q]
    BY <1>4
  <2>2. q \in Records /\ q.waiters = p.waiters
    BY <1>2 DEF Good, Records
  <2> HIDE DEF q
  <2>3. procs'[n] = q /\ SameWaiters(Names \ {n})
    BY <2>1, <2>2, OtherWaiters
  <2>4. SameWaiters(Names)
    BY <1>2, <2>2, <2>3 DEF SameWaiters, Calm
  <2> QED
    BY <1>1, <1>4, <2>4, TellStep DEF Pending
<1>5. CASE /\ p.life = "Stopping" /\ Answer(c, "Stop")
           /\ procs' = [ps EXCEPT ![n] = Joined(p, "Park", <<c, "Stop">>)]
  BY <1>1, <1>5, AskStep
<1>6. CASE /\ p.inc /\ Answer(c, "Stop")
           /\ procs' = [ps EXCEPT ![n] = TornDown(p, "Park", {<<c, "Stop">>})]
  <2>1. p.life \in {"Running", "Exited"}
    BY <1>2, <1>6 DEF Good, WellFormed
  <2> QED
    BY <1>1, <1>6, <2>1, AskStep
<1> QED
  BY <1>3, <1>4, <1>5, <1>6 DEF Stop

(* Restart answers at once or makes its client wait at the record.         *)
LEMMA RestartAnswers ==
    ASSUME Inv, NEW c \in Clients, NEW n \in Names, Restart(c, n)
    PROVE  Tells \/ Asks(c, n, "Restart")
<1> DEFINE ps == Refreshed(procs)
           p == ps[n]
<1>1. Free(c) /\ batch' = batch /\ "Manual" \in {"Park"} \cup Respawns
  BY DEF Restart, Respawns
<1>2. CASE procs' = ps /\ Answer(c, "error")
  BY <1>1, <1>2, RefreshWaiters, TellStep DEF Pending
<1>3. CASE /\ p.life = "Stopping" /\ Answer(c, "Restart")
           /\ procs' = [ps EXCEPT ![n] = Joined(p, "Manual", <<c, "Restart">>)]
  BY <1>1, <1>3, AskStep
<1>4. CASE /\ p.life \in {"Running", "Exited"} /\ Answer(c, "Restart")
           /\ procs' = [ps EXCEPT ![n] = TornDown(p, "Manual", {<<c, "Restart">>})]
  BY <1>1, <1>4, AskStep
<1> QED
  BY <1>2, <1>3, <1>4 DEF Restart

(* A stop-all answers at once if it finds nothing, else its client waits   *)
(* for it.                                                                 *)
LEMMA StopAllBeginAnswers ==
    ASSUME Inv, NEW c \in Clients, StopAllBegin(c)
    PROVE  Tells \/ Queues(c)
<1> DEFINE ps == Refreshed(procs)
<1>1. Free(c) /\ batch.replies = {} /\ ~batch.on
  BY DEF StopAllBegin, Inv, StopAllCovers
<1>2. CASE Covered(ps) = {}
  <2>1. /\ Answer(c, "allstopped") /\ batch'.replies = batch.replies
        /\ \A n \in Names : procs'[n] = NoProc
    BY <1>1, <1>2 DEF StopAllBegin, NoBatch
  <2>2. ASSUME NEW n \in Names PROVE procs[n].waiters = {}
    <3>1. Calm(procs[n], ps[n]) /\ ps[n].life # "Stopping"
      BY <1>2, RefreshCalm DEF Covered
    <3> QED
      BY <3>1, WaiterFacts DEF Calm
  <2>3. NoProc.waiters = {}
    BY DEF NoProc
  <2>4. SameWaiters(Names)
    BY <2>1, <2>2, <2>3 DEF SameWaiters
  <2> QED
    BY <1>1, <2>1, <2>4, TellStep DEF Pending
<1>3. CASE Covered(ps) # {}
  <2>1. Answer(c, "StopAll") /\ batch'.replies = batch.replies \cup {c}
    BY <1>1, <1>3 DEF StopAllBegin
  <2>2. ASSUME NEW n \in Names PROVE procs'[n].waiters = procs[n].waiters
    <3> DEFINE p == ps[n]
    <3>1. Good(p) /\ Calm(procs[n], p)
      BY RefreshCalm
    <3>2. procs'[n] = IF n \in Owned(ps) THEN TornDown(p, "Park", {})
                      ELSE IF n \in Covered(ps) THEN ParkedNext(p) ELSE p
      BY <1>3 DEF StopAllBegin
    <3>3. n \in Owned(ps) => p.waiters = {}
      BY <3>1 DEF Owned, Good, WellFormed
    <3> HIDE DEF ps
    <3>4. TornDown(p, "Park", {}).waiters = {} /\ ParkedNext(p).waiters = p.waiters
      BY <3>1 DEF TornDown, ParkedNext, Good, Records
    <3> HIDE DEF p
    <3> QED
      BY <3>1, <3>2, <3>3, <3>4 DEF Calm
  <2> QED
    BY <1>1, <2>1, <2>2 DEF Queues, SameWaiters
<1> QED
  BY <1>2, <1>3

(* A teardown that a timer or a file change starts has no waiters.         *)
LEMMA TearNowWaiters ==
    ASSUME Inv, NEW n \in Names, NEW then, NEW i \in Nat,
           procs[n].life \in {"Running", "Exited"},
           procs' = [procs EXCEPT ![n] = TornDown([procs[n] EXCEPT !.count = i], then, {})]
    PROVE  SameWaiters(Names)
<1> DEFINE p == [procs[n] EXCEPT !.count = i]
           q == TornDown(p, then, {})
<1>1. procs[n].waiters = {} /\ procs[n] \in Records
  BY WaiterFacts DEF Inv, TypeOK
<1>2. procs'[n] = q /\ \A k \in Names \ {n} : procs'[k] = procs[k]
  BY DEF Inv, TypeOK
<1>3. q.waiters = {}
  BY <1>1 DEF TornDown, Records
<1> HIDE DEF q
<1> QED
  BY <1>1, <1>2, <1>3 DEF SameWaiters

(* AutoRestart answers nobody and drops nobody.                            *)
LEMMA AutoRestartWaiters ==
    ASSUME Inv, NEW t \in timers, AutoRestart(t)
    PROVE  Tells
<1> DEFINE n == t.name
           p == procs[n]
           acts == ~batch.on /\ p.gen = t.gen /\ p.life = "Exited" /\ p.why = "Natural" /\ p.timer
<1>1. n \in Names /\ p.count + 1 \in Nat /\ batch' = batch /\ clients' = clients
  BY DEF Inv, TypeOK, Records, AutoRestart
<1>2. CASE acts
  <2>1. procs' = [procs EXCEPT ![n] = TornDown([p EXCEPT !.count = p.count + 1], "Auto", {})]
        /\ p.life \in {"Running", "Exited"}
    BY <1>2 DEF AutoRestart
  <2> HIDE DEF n
  <2>2. SameWaiters(Names)
    BY <1>1, <2>1, TearNowWaiters
  <2> QED
    BY <1>1, <2>2 DEF Tells
<1>3. CASE ~acts
  <2>1. procs' = procs
    BY <1>3 DEF AutoRestart
  <2> QED
    BY <1>1, <2>1, RefreshWaiters DEF Tells
<1> QED
  BY <1>2, <1>3

(* WatchRestart answers nobody and drops nobody.                           *)
LEMMA WatchRestartWaiters ==
    ASSUME Inv, NEW e \in events, WatchRestart(e)
    PROVE  Tells
<1> DEFINE n == e.name
           p == procs[n]
           acts == /\ ~batch.on /\ p.gen = e.gen
                   /\ p.life = "Running" \/ (p.life = "Exited" /\ p.why # "Manual")
<1>1. n \in Names /\ 0 \in Nat /\ batch' = batch /\ clients' = clients
  BY DEF Inv, TypeOK, WatchRestart
<1>2. CASE acts
  <2>1. procs' = [procs EXCEPT ![n] = TornDown([p EXCEPT !.count = 0], "Watch", {})]
        /\ p.life \in {"Running", "Exited"}
    BY <1>2 DEF WatchRestart
  <2> HIDE DEF n
  <2>2. SameWaiters(Names)
    BY <1>1, <2>1, TearNowWaiters
  <2> QED
    BY <1>1, <2>2 DEF Tells
<1>3. CASE ~acts
  <2>1. procs' = procs
    BY <1>3 DEF WatchRestart
  <2> QED
    BY <1>1, <2>1, RefreshWaiters DEF Tells
<1> QED
  BY <1>2, <1>3

(* What finish_teardown leaves at its own record, and whom it answers.     *)
LEMMA StopFinishedAnswers ==
    ASSUME Inv, NEW m \in finished, NEW ok \in BOOLEAN, NEW wok \in BOOLEAN,
           StopFinished(m, ok, wok)
    PROVE  Settles(m.name, batch.on /\ batch.remaining \ {m.name} = {})
<1> DEFINE n == m.name
           p == procs[n]
           respawns == p.then \in Respawns
           r == Parked(p, m.code)
           z == Respawned(r, p.then, ok, wok)
           q == IF respawns THEN z ELSE r
           done == batch.on /\ batch.remaining \ {n} = {}
<1>1. /\ n \in Names /\ m.code \in Codes /\ nextGen \in Nat
      /\ p.life = "Stopping" /\ p.gen = m.gen /\ Good(p)
  BY DEF Inv, TypeOK, LifeShape, OneTeardown, Good
<1>2. /\ procs' = IF done THEN [j \in Names |-> NoProc] ELSE [procs EXCEPT ![n] = q]
      /\ batch' = IF done THEN NoBatch ELSE [batch EXCEPT !.remaining = batch.remaining \ {n}]
      /\ clients' = [c \in Clients |->
                       IF WaitsAt(c, n) THEN WaiterAnswer(c, p, ok)
                       ELSE IF done /\ c \in batch.replies THEN "allstopped"
                       ELSE clients[c]]
  BY <1>1 DEF StopFinished, WaitsAt
<1>3. batch'.replies = IF done THEN {} ELSE batch.replies
  BY <1>2 DEF NoBatch, Inv, TypeOK
<1>4. \A c \in Clients : WaiterAnswer(c, p, ok) \notin Pending /\ "allstopped" \notin Pending
  BY DEF WaiterAnswer, Pending
<1>5. \A c \in Clients :
         IF WaitsAt(c, n) \/ (done /\ c \in batch.replies) THEN clients'[c] \notin Pending
         ELSE clients'[c] = clients[c]
  BY <1>2, <1>4
<1>6. Good(r) /\ r.life = "Exited" /\ r.why = "Manual" /\ r.waiters = {}
  BY <1>1, ParkedGood
<1> HIDE DEF r, n
<1>7. respawns => Good(z) /\ z.waiters = {}
  BY <1>1, <1>6, RespawnedGood
<1> HIDE DEF z
<1>8. q \in Records /\ q.waiters = {}
  BY <1>6, <1>7 DEF Good
<1>9. CASE done
  <2>1. \A k \in Names : procs'[k].waiters = {}
    BY <1>2, <1>9 DEF NoProc
  <2>2. \A k \in Names \ {n} : procs[k].waiters = {}
    BY <1>9, WaiterFacts DEF Inv, StopAllCovers
  <2> QED
    BY <1>1, <1>3, <1>5, <2>1, <2>2 DEF Settles, SameWaiters, n
<1>10. CASE ~done
  <2>1. procs' = [procs EXCEPT ![n] = q]
    BY <1>2, <1>10
  <2> HIDE DEF q
  <2>2. procs'[n] = q /\ SameWaiters(Names \ {n})
    BY <1>1, <1>8, <2>1, OtherWaiters
  <2> QED
    BY <1>3, <1>5, <1>8, <2>2 DEF Settles, n
<1> QED
  BY <1>9, <1>10

(* Every step touches the clients in one of the four ways.                 *)
LEMMA StepAnswers ==
    ASSUME Inv, [Next]_vars
    PROVE  \/ Tells
           \/ \E c \in Clients, n \in Names, a \in {"Stop", "Restart"} : Asks(c, n, a)
           \/ \E c \in Clients : Queues(c)
           \/ \E m \in finished, ok \in BOOLEAN, wok \in BOOLEAN : StopFinished(m, ok, wok)
<1> DEFINE Ok ==
           \/ Tells
           \/ \E c \in Clients, n \in Names, a \in {"Stop", "Restart"} : Asks(c, n, a)
           \/ \E c \in Clients : Queues(c)
           \/ \E m \in finished, ok \in BOOLEAN, wok \in BOOLEAN : StopFinished(m, ok, wok)
<1>1. SpawnResults \subseteq BOOLEAN /\ WatchResults \subseteq BOOLEAN
      /\ WatchFlags \subseteq BOOLEAN /\ Bindable \subseteq SUBSET AutoPorts
  BY DEF SpawnResults, WatchResults, WatchFlags, Bindable
<1>2. ASSUME \A n \in Names : Looks(n) \/ Arms(n), batch' = batch, clients' = clients PROVE Tells
  BY <1>2 DEF Tells, SameWaiters, Looks, Arms, Calm
<1>3. ASSUME procs' = procs, batch' = batch, clients' = clients PROVE Tells
  BY <1>3, RefreshWaiters DEF Tells
<1>4. ASSUME NEW c \in Clients, Spawn(c) PROVE Ok
  <2>1. PICK n \in Names, port \in RunPorts, free \in Bindable :
           \/ SpawnError(c, n, port, free)
           \/ \E pol \in Policies, w \in WatchFlags, wok \in WatchResults :
                SpawnOk(c, n, pol, w, port, free, wok)
    BY <1>4 DEF Spawn
  <2>2. CASE SpawnError(c, n, port, free)
    <3>1. Free(c) /\ Answer(c, "error") /\ batch' = batch /\ procs' = procs
      BY <2>2 DEF SpawnError
    <3> QED
      BY <3>1, RefreshWaiters, TellStep DEF Pending
  <2>3. ASSUME NEW pol \in Policies, NEW w \in WatchFlags, NEW wok \in WatchResults,
               SpawnOk(c, n, pol, w, port, free, wok)
        PROVE  Ok
    <3> DEFINE q == NewRecord(pol, w, ResolvedPort(port, free), wok)
    <3>1. /\ Free(c) /\ Answer(c, "ok") /\ batch' = batch
          /\ procs' = [procs EXCEPT ![n] = q] /\ procs[n].life = "Absent"
      BY <2>3 DEF SpawnOk
    <3>2. Inv'
      BY <1>1, <2>3, SpawnOkInv
    <3>3. \A k \in Names \ {n} : procs'[k] = procs[k]
      BY <3>1 DEF Inv, TypeOK
    <3>4. q.waiters = {} /\ procs[n].waiters = {} /\ procs'[n] = q
      BY <3>1, WaiterFacts DEF NewRecord, WatcherSet, NoProc, Inv, TypeOK
    <3> HIDE DEF q
    <3>5. SameWaiters(Names)
      BY <3>3, <3>4 DEF SameWaiters
    <3> QED
      BY <3>1, <3>5, TellStep DEF Pending
  <2> QED
    BY <2>1, <2>2, <2>3
<1>5. ASSUME NEW c \in Clients, Refused(c) PROVE Tells
  <2>1. Free(c) /\ Answer(c, "error") /\ batch' = batch /\ procs' = procs
    BY <1>5 DEF Refused
  <2> QED
    BY <2>1, RefreshWaiters, TellStep DEF Pending
<1>6. ASSUME NEW c \in Clients, StopAllJoin(c) PROVE Queues(c)
  <2>1. /\ Free(c) /\ Answer(c, "StopAll") /\ procs' = procs
        /\ batch' = [batch EXCEPT !.replies = @ \cup {c}]
    BY <1>6 DEF StopAllJoin
  <2>2. batch'.replies = batch.replies \cup {c}
    BY <2>1 DEF Inv, TypeOK
  <2> QED
    BY <2>1, <2>2, RefreshWaiters DEF Queues
<1>7. ASSUME NEW c \in Clients, StopAllBegin(c) PROVE Ok
  BY <1>7, StopAllBeginAnswers
<1>8. ASSUME NEW c \in Clients, NEW n \in Names, Stop(c, n) \/ Restart(c, n) PROVE Ok
  BY <1>8, StopAnswers, RestartAnswers
<1>9. ASSUME Status \/ IsProcessExited PROVE Tells
  <2>1. procs' = Refreshed(procs) /\ batch' = batch /\ clients' = clients
    BY <1>9 DEF Status, IsProcessExited
  <2> QED
    BY <2>1, RefreshWaiters DEF Tells
<1>10. ASSUME EnableProxy PROVE Tells
  BY <1>3, <1>10 DEF EnableProxy
<1>11. ASSUME Tick PROVE Tells
  <2>1. \A n \in Names : Looks(n) \/ Arms(n)
    BY <1>11, TickLooks
  <2>2. batch' = batch /\ clients' = clients
    BY <1>11 DEF Tick
  <2> QED
    BY <1>2, <2>1, <2>2
<1>12. ASSUME NEW e \in events, WatchRestart(e) PROVE Tells
  BY <1>12, WatchRestartWaiters
<1>13. ASSUME NEW n \in Names, FireTimer(n) PROVE Tells
  BY <1>13, AutoRestartWaiters DEF FireTimer
<1>14. ASSUME NEW n \in Names, FinishTeardown(n) PROVE Ok
  BY <1>1, <1>14 DEF FinishTeardown
<1>15. ASSUME NEW n \in Names, EndTeardown(n) PROVE Tells
  BY <1>3, <1>15 DEF EndTeardown, TeardownDone
<1>16. ASSUME NEW n \in Names, NEW code \in Codes, LeaderExit(n, code) PROVE Tells
  <2>1. \A k \in Names : Looks(k)
    BY <1>16, LeaderExitLooks
  <2>2. batch' = batch /\ clients' = clients
    BY <1>16 DEF LeaderExit
  <2> QED
    BY <1>2, <2>1, <2>2
<1>17. ASSUME NEW n \in Names, NEW s \in Slots, FileChange(n, s) PROVE Tells
  BY <1>3, <1>17 DEF FileChange
<1>18. ASSUME UNCHANGED vars PROVE Tells
  BY <1>3, <1>18 DEF vars
<1> SUFFICES Ok
  OBVIOUS
<1> QED
  BY <1>4, <1>5, <1>6, <1>7, <1>8, <1>9, <1>10, <1>11, <1>12, <1>13, <1>14, <1>15,
     <1>16, <1>17, <1>18 DEF Next
WaiterInv == Inv /\ WaitersHeld

(* Every step keeps each waiting client held in exactly one place.         *)
LEMMA WaiterStep ==
    ASSUME WaiterInv, [Next]_vars
    PROVE  WaiterInv'
<1>1. Inv /\ Inv' /\ WaitersHeld
  BY StepInv DEF WaiterInv
<1>2. CASE Tells
  BY <1>1, <1>2, TellsHeld DEF WaiterInv
<1>3. ASSUME NEW c \in Clients, NEW n \in Names, NEW a \in {"Stop", "Restart"}, Asks(c, n, a)
      PROVE  WaiterInv'
  BY <1>1, <1>3, AsksHeld DEF WaiterInv
<1>4. ASSUME NEW c \in Clients, Queues(c) PROVE WaiterInv'
  BY <1>1, <1>4, QueuesHeld DEF WaiterInv
<1>5. ASSUME NEW m \in finished, NEW ok \in BOOLEAN, NEW wok \in BOOLEAN,
             StopFinished(m, ok, wok)
      PROVE  WaiterInv'
  <2> DEFINE all == batch.on /\ batch.remaining \ {m.name} = {}
  <2>1. m.name \in Names /\ all \in BOOLEAN
    BY <1>1 DEF Inv, TypeOK
  <2>2. Settles(m.name, all)
    BY <1>1, <1>5, StopFinishedAnswers
  <2> HIDE DEF all
  <2> QED
    BY <1>1, <2>1, <2>2, SettlesHeld DEF WaiterInv
<1> QED
  BY <1>1, <1>2, <1>3, <1>4, <1>5, StepAnswers

(* The waiters' invariant holds in every reachable state.                  *)
LEMMA WaiterInvAlways == Spec => []WaiterInv
<1>1. Init => WaiterInv
  BY InitInv DEF Init, WaiterInv, WaitersHeld, NoProc, NoBatch
<1>2. WaiterInv /\ [Next]_vars => WaiterInv'
  BY WaiterStep
<1> QED
  BY <1>1, <1>2, PTL DEF Spec

(* Every client that waits is owed its answer by exactly one place, which  *)
(* holds its oneshot sender, and nobody else is: no interleaving of stops, *)
(* restarts, stop-alls and teardowns drops or duplicates a sender.         *)
THEOREM WaitersHeldHolds == Spec => []WaitersHeld
<1>1. WaiterInv => WaitersHeld
  BY DEF WaiterInv
<1> QED
  BY <1>1, WaiterInvAlways, PTL

(* finish_teardown's answer to a restart that waits at its record.         *)
LEMMA FinishHonest ==
    ASSUME Inv, WaitersHeld, GensGiven,
           NEW m \in finished, NEW ok \in BOOLEAN, NEW wok \in BOOLEAN,
           StopFinished(m, ok, wok),
           NEW c \in Clients, <<c, "Restart">> \in procs[m.name].waiters
    PROVE  /\ clients'[c] = "ok" <=>
                procs'[m.name].life = "Running" /\ procs'[m.name].gen > procs[m.name].gen
           /\ clients'[c] \in {"ok", "superseded", "error"}
<1> DEFINE n == m.name
           p == procs[n]
           respawns == p.then \in Respawns
           r == Parked(p, m.code)
           z == Respawned(r, p.then, ok, wok)
           done == batch.on /\ batch.remaining \ {n} = {}
<1>1. /\ n \in Names /\ m.code \in Codes /\ nextGen \in Nat
      /\ p.life = "Stopping" /\ p.gen = m.gen /\ Good(p) /\ p.gen <= nextGen
  BY DEF Inv, TypeOK, LifeShape, OneTeardown, Good, GensGiven
<1>2. <<c, "Stop">> \notin p.waiters
  BY <1>1 DEF WaitersHeld
<1>3. clients'[c] = IF p.then = "Park" THEN "superseded" ELSE IF ok THEN "ok" ELSE "error"
  BY <1>1, <1>2 DEF StopFinished, WaiterAnswer
<1>4. procs'[n] = IF done THEN NoProc ELSE IF respawns THEN z ELSE r
  BY <1>1 DEF StopFinished, Inv, TypeOK
<1>5. respawns <=> p.then # "Park"
  BY <1>1 DEF Good, WellFormed, Records, Respawns
<1>6. respawns => ~done
  BY <1>1, <1>5 DEF Inv, StopAllCovers
<1> HIDE DEF n
<1>7. Good(r) /\ r.life = "Exited" /\ r.why = "Manual" /\ r.gen = p.gen
  BY <1>1, ParkedGood
<1> HIDE DEF r
<1>8. respawns => /\ ok => z.life = "Running" /\ z.gen = nextGen + 1
                  /\ ~ok => z.life = "Exited"
  BY <1>1, <1>7, RespawnedGood
<1> HIDE DEF z, done
<1>9. p.gen \in Nat /\ NoProc.life = "Absent"
  BY <1>1 DEF Good, Records, NoProc
<1>10. CASE respawns
  BY <1>1, <1>3, <1>4, <1>5, <1>6, <1>8, <1>9, <1>10 DEF n
<1>11. CASE ~respawns
  BY <1>3, <1>4, <1>5, <1>7, <1>9, <1>11 DEF n
<1> QED
  BY <1>10, <1>11

(* Only finish_teardown of the record a restart waits at answers it.       *)
LEMMA HonestStep ==
    ASSUME WaiterInv, TimerInv, [Next]_vars, NEW c \in Clients, NEW n \in Names,
           <<c, "Restart">> \in procs[n].waiters, clients'[c] # "Restart"
    PROVE  /\ clients'[c] = "ok" <=>
                procs'[n].life = "Running" /\ procs'[n].gen > procs[n].gen
           /\ clients'[c] \in {"ok", "superseded", "error"}
<1>1. Inv /\ WaitersHeld /\ GensGiven /\ clients[c] = "Restart"
  BY DEF WaiterInv, TimerInv, WaitersHeld
<1>2. ~Free(c)
  BY <1>1 DEF Free, Pending
<1>3. ~Tells
  BY <1>1, <1>2 DEF Tells
<1>4. ASSUME NEW d \in Clients, NEW a, Free(d), Answer(d, a) PROVE FALSE
  BY <1>1, <1>2, <1>4 DEF Answer, Inv, TypeOK
<1>5. PICK m \in finished, ok \in BOOLEAN, wok \in BOOLEAN : StopFinished(m, ok, wok)
  BY <1>1, <1>3, <1>4, StepAnswers DEF Asks, Queues
<1>6. m.name \in Names
  BY <1>1 DEF Inv, TypeOK
<1>7. Settles(m.name, batch.on /\ batch.remaining \ {m.name} = {})
  BY <1>1, <1>5, StopFinishedAnswers
<1>8. WaitsAt(c, m.name)
  <2>1. c \notin batch.replies
    BY <1>1 DEF WaitersHeld
  <2> QED
    BY <1>1, <1>7, <2>1 DEF Settles
<1>9. <<c, "Restart">> \in procs[m.name].waiters
  BY <1>1, <1>6, <1>8 DEF WaitsAt, WaitersHeld
<1>10. n = m.name
  BY <1>1, <1>6, <1>9 DEF WaitersHeld
<1> QED
  BY <1>1, <1>5, <1>10, FinishHonest

(* The answer to a restart tells the truth: ok exactly when a newer        *)
(* incarnation is left running, superseded or an error otherwise, whoever  *)
(* joined the same teardown since.                                         *)
THEOREM RestartHonestHolds == Spec => RestartHonest
<1>1. WaiterInv /\ TimerInv /\ [Next]_vars =>
        [\A c \in Clients, n \in Names :
          <<c, "Restart">> \in procs[n].waiters /\ clients'[c] # "Restart" =>
            /\ clients'[c] = "ok" <=>
                 procs'[n].life = "Running" /\ procs'[n].gen > procs[n].gen
            /\ clients'[c] \in {"ok", "superseded", "error"}]_vars
  BY HonestStep
<1> QED
  BY <1>1, WaiterInvAlways, TimerInvAlways, PTL DEF Spec, RestartHonest

-----------------------------------------------------------------------------
(***************************************************************************)
(* Supervisor implements Lifecycle, for any names, clients, policies,      *)
(* ports, slots and bounds: every step of the actor, or of what runs       *)
(* beside it, is a step of Lifecycle or changes nothing it speaks of.      *)
(***************************************************************************)
Waiter == Clients \X {"Stop", "Restart"}

(* What Lifecycle sees of one record.                                      *)
SameRecord(k) ==
    /\ procs'[k].inc = procs[k].inc
    /\ procs'[k].gen = procs[k].gen
    /\ procs'[k].waiters = procs[k].waiters

(* A step that changes no record in those respects is a stuttering step.   *)
LEMMA Unseeable ==
    ASSUME \A k \in Names : SameRecord(k), UNCHANGED <<tasks, nextGen, batch>>
    PROVE  UNCHANGED L!vars
<1>1. Group' = Group /\ Gen' = Gen
  BY DEF Group, Gen, SameRecord
<1>2. Owed' = Owed
  BY DEF Owed, SameRecord
<1> QED
  BY <1>1, <1>2 DEF L!vars

(* Only a Stopping record holds waiters.                                   *)
LEMMA NoWaiters ==
    ASSUME Inv
    PROVE  \A k \in Names : procs[k].life # "Stopping" => procs[k].waiters = {}
BY DEF Inv, LifeShape, WellFormed

(* A refresh is not seen.                                                  *)
LEMMA RefreshSame ==
    ASSUME Inv
    PROVE  \A k \in Names : /\ Refreshed(procs)[k].inc = procs[k].inc
                            /\ Refreshed(procs)[k].gen = procs[k].gen
                            /\ Refreshed(procs)[k].waiters = procs[k].waiters
<1>1. procs \in [Names -> Records] /\ LifeShape
  BY DEF Inv, TypeOK
<1> QED
  BY <1>1, RefreshedGood

(* The start of the teardown of n, with those who wait for it.             *)
Leaves(n) ==
    /\ procs[n].life # "Stopping"
    /\ procs'[n].inc = FALSE /\ procs'[n].gen = procs[n].gen
    /\ \A k \in Names \ {n} : SameRecord(k)
    /\ \E t : t.name = n /\ tasks' = tasks \cup {t}

(* Such a step ends a group.                                               *)
LEMMA Ends ==
    ASSUME Inv, NEW n \in Names, Leaves(n)
    PROVE  /\ Group' = [Group EXCEPT ![n] = "ending"]
           /\ Gen' = Gen
           /\ Owed' = Owed \cup {<<n, w>> : w \in procs'[n].waiters \cap Waiter}
<1>1. Group' = [Group EXCEPT ![n] = "ending"]
  <2>1. PICK t : t.name = n /\ tasks' = tasks \cup {t}
    BY DEF Leaves
  <2>2. ASSUME NEW k \in Names
        PROVE  Group'[k] = IF k = n THEN "ending" ELSE Group[k]
    BY <2>1 DEF Group, SameRecord, Leaves
  <2>3. Group' = [k \in Names |-> Group'[k]] /\ Group = [k \in Names |-> Group[k]]
    BY DEF Group
  <2> QED
    BY <2>2, <2>3
<1>2. Gen' = Gen
  BY DEF Gen, SameRecord, Leaves
<1>3. procs[n].waiters = {}
  BY NoWaiters DEF Leaves
<1>4. Owed' = Owed \cup {<<n, w>> : w \in procs'[n].waiters \cap Waiter}
  <2>1. \A k \in Names \ {n} : procs'[k].waiters = procs[k].waiters
    BY DEF Leaves, SameRecord
  <2> QED
    BY <1>3, <2>1 DEF Owed, Waiter
<1> QED
  BY <1>1, <1>2, <1>4

(* A new incarnation of n, where nothing of the one before is left.        *)
Comes(n) ==
    /\ ~procs[n].inc /\ (\A t \in tasks : t.name # n) /\ batch.replies = {}
    /\ procs'[n].inc /\ procs'[n].gen = nextGen + 1 /\ nextGen' = nextGen + 1
    /\ \A k \in Names \ {n} : procs'[k].inc = procs[k].inc /\ procs'[k].gen = procs[k].gen
    /\ UNCHANGED <<tasks, batch.replies>>

(* Such a step starts a group.                                             *)
LEMMA Starts ==
    ASSUME NEW n \in Names, Comes(n)
    PROVE  L!Started(n)
<1>1. Group[n] = "none"
  BY DEF Comes, Group
<1>2. Group' = [Group EXCEPT ![n] = "alive"]
  <2>1. ASSUME NEW k \in Names
        PROVE  Group'[k] = IF k = n THEN "alive" ELSE Group[k]
    BY DEF Group, Comes
  <2>2. Group' = [k \in Names |-> Group'[k]] /\ Group = [k \in Names |-> Group[k]]
    BY DEF Group
  <2> QED
    BY <2>1, <2>2
<1>3. Gen' = [Gen EXCEPT ![n] = nextGen + 1]
  BY DEF Gen, Comes
<1> QED
  BY <1>1, <1>2, <1>3 DEF L!Started, Comes

-----------------------------------------------------------------------------
(* Each action of Supervisor, as Lifecycle sees it                         *)

(* Actions that leave every group, generation and waiter alone.            *)
LEMMA UnseenStep ==
    ASSUME Inv,
           \/ Status \/ IsProcessExited \/ EnableProxy
           \/ \E c \in Clients : Refused(c)
           \/ \E c \in Clients, n \in Names, port \in RunPorts, free \in Bindable :
                SpawnError(c, n, port, free)
           \/ \E n \in Names, s \in Slots : FileChange(n, s)
    PROVE  UNCHANGED L!vars
<1>1. UNCHANGED <<tasks, nextGen, batch>> /\ (procs' = procs \/ procs' = Refreshed(procs))
  BY DEF Status, IsProcessExited, EnableProxy, Refused, SpawnError, FileChange
<1>2. \A k \in Names : SameRecord(k)
  BY <1>1, RefreshSame DEF SameRecord
<1> QED
  BY <1>1, <1>2, Unseeable

(* A leader that exits is still part of its group.                         *)
LEMMA LeaderExitStep ==
    ASSUME Inv, NEW n \in Names, NEW code \in Codes, LeaderExit(n, code)
    PROVE  UNCHANGED L!vars
<1>1. procs \in [Names -> Records] /\ UNCHANGED <<tasks, nextGen, batch>>
      /\ procs' = [procs EXCEPT ![n] = [procs[n] EXCEPT !.leader = code]]
  BY DEF Inv, TypeOK, LeaderExit
<1>2. \A k \in Names : SameRecord(k)
  BY <1>1 DEF SameRecord, Records
<1> QED
  BY <1>1, <1>2, Unseeable

(* A tick only marks records.                                              *)
LEMMA TickStep ==
    ASSUME Inv, Tick
    PROVE  UNCHANGED L!vars
<1>1. UNCHANGED <<tasks, nextGen, batch>>
  BY DEF Tick
<1>2. ASSUME NEW k \in Names
      PROVE  SameRecord(k)
  <2> DEFINE p == Refreshed(procs)[k]
  <2>1. Good(p)
    BY Lookup
  <2>2. procs'[k] \in {p, [p EXCEPT !.why = "Exhausted"], [p EXCEPT !.timer = TRUE]}
    BY DEF Tick
  <2>3. /\ p.inc = procs[k].inc /\ p.gen = procs[k].gen /\ p.waiters = procs[k].waiters
    BY RefreshSame
  <2> HIDE DEF p
  <2>4. procs'[k].inc = p.inc /\ procs'[k].gen = p.gen /\ procs'[k].waiters = p.waiters
    BY <2>1, <2>2 DEF Good, Records
  <2> QED
    BY <2>3, <2>4 DEF SameRecord
<1> QED
  BY <1>1, <1>2, Unseeable

(* A Spawn starts the first group of a name that has none.                 *)
LEMMA SpawnOkStep ==
    ASSUME Inv, NEW c \in Clients, NEW n \in Names, NEW pol \in Policies, NEW w \in BOOLEAN,
           NEW port \in RunPorts, NEW free \in SUBSET AutoPorts, NEW wok \in BOOLEAN,
           SpawnOk(c, n, pol, w, port, free, wok)
    PROVE  L!Start(n)
<1> DEFINE r == ResolvedPort(port, free)
           q == NewRecord(pol, w, r, wok)
<1>1. nextPort \in AutoPorts /\ nextGen \in Nat /\ procs \in [Names -> Records]
  BY DEF Inv, TypeOK
<1>2. r \in Nat
  BY <1>1, PortTypes DEF SpawnOk
<1>3. pol \in [mode : Modes, max : Nat \cup {Unlimited}]
  BY PoliciesAssumption
<1> HIDE DEF r
<1>4. q.inc /\ q.gen = nextGen + 1 /\ q.waiters = {}
  BY <1>1, <1>2, <1>3, NewRecordGood
<1>5. procs' = [procs EXCEPT ![n] = q] /\ nextGen' = nextGen + 1
      /\ procs[n].life = "Absent" /\ ~batch.on /\ UNCHANGED <<tasks, batch>>
  BY DEF SpawnOk, r
<1> HIDE DEF q
<1>6. procs'[n] = q /\ \A k \in Names \ {n} : procs'[k] = procs[k]
  BY <1>1, <1>5
<1>7. ~procs[n].inc /\ procs[n].waiters = {} /\ (\A t \in tasks : t.name # n)
      /\ batch.replies = {}
  BY <1>5 DEF Inv, LifeShape, WellFormed, OneTeardown, StopAllCovers
<1>8. Comes(n)
  BY <1>4, <1>5, <1>6, <1>7 DEF Comes, SameRecord
<1>9. Owed' = Owed
  BY <1>4, <1>6, <1>7 DEF Owed
<1> QED
  BY <1>8, <1>9, Starts DEF L!Start

(* Joining the end of a group: one more waits for it.                      *)
LEMMA JoinAsk ==
    ASSUME Inv, NEW n \in Names, NEW c \in Clients, NEW kind \in {"Stop", "Restart"},
           NEW then \in {"Park"} \cup Respawns,
           kind = "Restart" => ~batch.on,
           Refreshed(procs)[n].life = "Stopping",
           procs' = [Refreshed(procs) EXCEPT ![n] =
                       Joined(Refreshed(procs)[n], then, <<c, kind>>)],
           UNCHANGED <<tasks, nextGen, batch>>
    PROVE  L!Ask(n, c, kind)
<1> DEFINE ps == Refreshed(procs)
           q == Joined(ps[n], then, <<c, kind>>)
<1>1. ps \in [Names -> Records] /\ Good(ps[n]) /\ ps[n] = procs[n]
  BY Lookup
<1>2. \A k \in Names : /\ ps[k].inc = procs[k].inc /\ ps[k].gen = procs[k].gen
                       /\ ps[k].waiters = procs[k].waiters
  BY RefreshSame
<1>3. <<c, kind>> \in Clients \X {"Stop", "Restart"} /\ ps[n].life = "Stopping"
  OBVIOUS
<1> HIDE DEF ps
<1>4. ~q.inc /\ q.gen = ps[n].gen /\ q.waiters = ps[n].waiters \cup {<<c, kind>>}
  BY <1>1, <1>3, JoinedGood
<1>5. procs' = [ps EXCEPT ![n] = q]
  BY DEF ps
<1> HIDE DEF q
<1>6. procs'[n] = q /\ \A k \in Names \ {n} : SameRecord(k)
  BY <1>1, <1>2, <1>5 DEF SameRecord
<1>7. ~procs[n].inc
  BY <1>1, <1>3 DEF Good, WellFormed
<1>8. Group' = Group /\ Gen' = Gen
  BY <1>1, <1>4, <1>6, <1>7 DEF Group, Gen, SameRecord
<1>9. Owed' = Owed \cup {<<n, <<c, kind>>>>}
  <2>1. ASSUME NEW k \in Names, NEW w \in Waiter
        PROVE  w \in procs'[k].waiters <=> w \in procs[k].waiters \/ (k = n /\ w = <<c, kind>>)
    BY <1>1, <1>4, <1>6 DEF SameRecord
  <2> QED
    BY <1>3, <2>1 DEF Owed, Waiter
<1>10. Group[n] # "alive"
  BY <1>7 DEF Group
<1>11. kind = "Restart" => batch.replies = {}
  BY DEF Inv, StopAllCovers
<1> QED
  BY <1>8, <1>9, <1>10, <1>11 DEF L!Ask

(* A stop or restart that begins the end of a group.                       *)
LEMMA TearAsk ==
    ASSUME Inv, NEW n \in Names, NEW c \in Clients, NEW kind \in {"Stop", "Restart"},
           NEW then \in {"Park"} \cup Respawns,
           kind = "Restart" => ~batch.on,
           Refreshed(procs)[n].life \in {"Running", "Exited"},
           procs' = [Refreshed(procs) EXCEPT ![n] =
                       TornDown(Refreshed(procs)[n], then, {<<c, kind>>})],
           tasks' = tasks \cup {TaskOf(n, Refreshed(procs)[n])},
           UNCHANGED <<nextGen, batch>>
    PROVE  L!Ask(n, c, kind)
<1> DEFINE ps == Refreshed(procs)
           ws == {<<c, kind>>}
           q == TornDown(ps[n], then, ws)
           t == TaskOf(n, ps[n])
<1>1. ps \in [Names -> Records] /\ Good(ps[n]) /\ procs[n].life # "Stopping"
  BY Lookup
<1>2. \A k \in Names : /\ ps[k].inc = procs[k].inc /\ ps[k].gen = procs[k].gen
                       /\ ps[k].waiters = procs[k].waiters
  BY RefreshSame
<1>3. ws \in SUBSET Waiter /\ ps[n].life \in {"Running", "Exited"}
  BY DEF Waiter
<1>4. t.name = n
  BY DEF TaskOf
<1> HIDE DEF ps
<1>5. q.inc = FALSE /\ q.gen = ps[n].gen /\ q.waiters = ws
  <2>0. ws \in SUBSET (Clients \X {"Stop", "Restart"})
    BY <1>3 DEF Waiter
  <2> HIDE DEF ws
  <2>1. Good(q) /\ ~q.inc /\ q.gen = ps[n].gen /\ q.waiters = ws
    BY <1>1, <1>3, <2>0, TornDownGood
  <2> QED
    BY <2>1 DEF Good, Records
<1>6. procs' = [ps EXCEPT ![n] = q] /\ tasks' = tasks \cup {t}
  BY DEF ps
<1> HIDE DEF q, t
<1>7. procs'[n] = q /\ \A k \in Names \ {n} : SameRecord(k)
  BY <1>1, <1>2, <1>6 DEF SameRecord
<1>8. procs'[n].inc = FALSE /\ procs'[n].gen = procs[n].gen /\ procs'[n].waiters = ws
  BY <1>2, <1>5, <1>7
<1> HIDE DEF ws
<1>9. Leaves(n)
  BY <1>1, <1>4, <1>6, <1>7, <1>8 DEF Leaves
<1>10. {<<n, w>> : w \in procs'[n].waiters \cap Waiter} = {<<n, <<c, kind>>>>}
  BY <1>3, <1>8 DEF ws
<1>11. kind = "Restart" => batch.replies = {}
  BY DEF Inv, StopAllCovers
<1> QED
  BY <1>9, <1>10, <1>11, Ends DEF L!Ask

(* A Stop that finds nothing to stop is not seen; any other asks.          *)
LEMMA StopStep ==
    ASSUME Inv, NEW c \in Clients, NEW n \in Names, Stop(c, n)
    PROVE  UNCHANGED L!vars \/ L!Ask(n, c, "Stop")
<1> DEFINE ps == Refreshed(procs)
           p == ps[n]
<1>1. ps \in [Names -> Records] /\ Good(p)
  BY Lookup
<1>2. UNCHANGED <<nextGen, batch>>
  BY DEF Stop
<1>3. CASE p.life = "Absent" /\ procs' = ps /\ UNCHANGED tasks
  BY <1>2, <1>3, RefreshSame, Unseeable DEF SameRecord
<1>4. CASE /\ p.life = "Stopping"
           /\ procs' = [ps EXCEPT ![n] = Joined(p, "Park", <<c, "Stop">>)]
           /\ UNCHANGED tasks
  BY <1>2, <1>4, JoinAsk
<1>5. CASE procs' = [ps EXCEPT ![n] = [p EXCEPT !.handle = FALSE]] /\ UNCHANGED tasks
  <2>1. \A k \in Names : /\ ps[k].inc = procs[k].inc /\ ps[k].gen = procs[k].gen
                         /\ ps[k].waiters = procs[k].waiters
    BY RefreshSame
  <2> HIDE DEF ps
  <2>2. \A k \in Names : SameRecord(k)
    BY <1>1, <1>5, <2>1 DEF SameRecord, Records, Good
  <2> QED
    BY <1>2, <1>5, <2>2, Unseeable
<1>6. CASE /\ p.inc
           /\ procs' = [ps EXCEPT ![n] = TornDown(p, "Park", {<<c, "Stop">>})]
           /\ tasks' = tasks \cup {TaskOf(n, p)}
  <2>1. p.life \in {"Running", "Exited"}
    BY <1>1, <1>6 DEF Good, WellFormed
  <2> QED
    BY <1>2, <1>6, <2>1, TearAsk
<1> QED
  BY <1>3, <1>4, <1>5, <1>6 DEF Stop

(* So with a Restart.                                                      *)
LEMMA RestartStep ==
    ASSUME Inv, NEW c \in Clients, NEW n \in Names, Restart(c, n)
    PROVE  UNCHANGED L!vars \/ L!Ask(n, c, "Restart")
<1> DEFINE ps == Refreshed(procs)
           p == ps[n]
<1>1. UNCHANGED <<nextGen, batch>> /\ ~batch.on /\ "Manual" \in {"Park"} \cup Respawns
  BY DEF Restart, Respawns
<1>2. CASE p.life = "Absent" /\ procs' = ps /\ UNCHANGED tasks
  BY <1>1, <1>2, RefreshSame, Unseeable DEF SameRecord
<1>3. CASE /\ p.life = "Stopping"
           /\ procs' = [ps EXCEPT ![n] = Joined(p, "Manual", <<c, "Restart">>)]
           /\ UNCHANGED tasks
  BY <1>1, <1>3, JoinAsk
<1>4. CASE /\ p.life \in {"Running", "Exited"}
           /\ procs' = [ps EXCEPT ![n] = TornDown(p, "Manual", {<<c, "Restart">>})]
           /\ tasks' = tasks \cup {TaskOf(n, p)}
  BY <1>1, <1>4, TearAsk
<1> QED
  BY <1>2, <1>3, <1>4 DEF Restart

(* A timer or a file change that acts ends a group to replace it.          *)
LEMMA ReplaceStep ==
    ASSUME Inv, NEW n \in Names, NEW then \in Respawns, NEW k \in Nat,
           procs[n].life \in {"Running", "Exited"}, ~batch.on,
           procs' = [procs EXCEPT ![n] = TornDown([procs[n] EXCEPT !.count = k], then, {})],
           tasks' = tasks \cup {TaskOf(n, procs[n])},
           UNCHANGED <<nextGen, batch>>
    PROVE  L!Replace(n)
<1> DEFINE p == [procs[n] EXCEPT !.count = k]
           q == TornDown(p, then, {})
           t == TaskOf(n, procs[n])
<1>1. procs \in [Names -> Records] /\ Good(procs[n])
  BY DEF Inv, TypeOK, LifeShape, Good
<1>2. Good(p) /\ p.life = procs[n].life /\ p.gen = procs[n].gen
  BY <1>1, CountGood
<1> HIDE DEF p
<1>3. {} \in SUBSET Waiter /\ then \in {"Park"} \cup Respawns
  OBVIOUS
<1>4. q.inc = FALSE /\ q.gen = procs[n].gen /\ q.waiters = {}
  <2>1. Good(q) /\ ~q.inc /\ q.gen = p.gen /\ q.waiters = {}
    BY <1>2, <1>3, TornDownGood DEF Waiter
  <2> QED
    BY <1>2, <2>1 DEF Good, Records
<1>5. procs' = [procs EXCEPT ![n] = q] /\ tasks' = tasks \cup {t}
  BY DEF p
<1>6. t.name = n
  BY DEF TaskOf
<1> HIDE DEF q, t
<1>7. procs'[n] = q /\ \A m \in Names \ {n} : SameRecord(m)
  BY <1>1, <1>5 DEF SameRecord
<1>8. procs'[n].inc = FALSE /\ procs'[n].gen = procs[n].gen /\ procs'[n].waiters = {}
  BY <1>4, <1>7
<1>9. Leaves(n) /\ procs'[n].waiters \cap Waiter = {}
  BY <1>5, <1>6, <1>7, <1>8 DEF Leaves
<1>10. Owed \cup {<<n, w>> : w \in procs'[n].waiters \cap Waiter} = Owed
  BY <1>9
<1>11. batch.replies = {}
  BY DEF Inv, StopAllCovers
<1> QED
  BY <1>9, <1>10, <1>11, Ends DEF L!Replace

(* AutoRestart.                                                            *)
LEMMA AutoRestartStep ==
    ASSUME Inv, NEW t \in timers, AutoRestart(t)
    PROVE  UNCHANGED L!vars \/ L!Replace(t.name)
<1> DEFINE n == t.name
           p == procs[n]
           acts == ~batch.on /\ p.gen = t.gen /\ p.life = "Exited" /\ p.why = "Natural" /\ p.timer
<1>1. n \in Names /\ p \in Records /\ UNCHANGED <<nextGen, batch>>
  BY DEF Inv, TypeOK, AutoRestart
<1>2. CASE acts
  <2>1. p.count + 1 \in Nat
    BY <1>1 DEF Records
  <2>2. /\ procs' = [procs EXCEPT ![n] = TornDown([p EXCEPT !.count = p.count + 1], "Auto", {})]
        /\ tasks' = tasks \cup {TaskOf(n, p)}
    BY <1>2 DEF AutoRestart
  <2>3. "Auto" \in Respawns /\ p.life \in {"Running", "Exited"} /\ ~batch.on
    BY <1>2 DEF Respawns
  <2> HIDE DEF n
  <2>4. L!Replace(n)
    BY <1>1, <2>1, <2>2, <2>3, ReplaceStep
  <2> QED
    BY <2>4 DEF n
<1>3. CASE ~acts
  <2>1. UNCHANGED <<procs, tasks>>
    BY <1>3 DEF AutoRestart
  <2> QED
    BY <1>1, <2>1, Unseeable DEF SameRecord
<1> QED
  BY <1>2, <1>3

(* WatchRestart.                                                           *)
LEMMA WatchRestartStep ==
    ASSUME Inv, NEW e \in events, WatchRestart(e)
    PROVE  UNCHANGED L!vars \/ L!Replace(e.name)
<1> DEFINE n == e.name
           p == procs[n]
           acts == /\ ~batch.on /\ p.gen = e.gen
                   /\ p.life = "Running" \/ (p.life = "Exited" /\ p.why # "Manual")
<1>1. n \in Names /\ p \in Records /\ UNCHANGED <<nextGen, batch>>
  BY DEF Inv, TypeOK, WatchRestart
<1>2. CASE acts
  <2>1. /\ procs' = [procs EXCEPT ![n] = TornDown([p EXCEPT !.count = 0], "Watch", {})]
        /\ tasks' = tasks \cup {TaskOf(n, p)}
    BY <1>2 DEF WatchRestart
  <2>2. "Watch" \in Respawns /\ p.life \in {"Running", "Exited"} /\ ~batch.on /\ 0 \in Nat
    BY <1>2 DEF Respawns
  <2> HIDE DEF n
  <2>3. L!Replace(n)
    BY <1>1, <2>1, <2>2, ReplaceStep
  <2> QED
    BY <2>3 DEF n
<1>3. CASE ~acts
  <2>1. UNCHANGED <<procs, tasks>>
    BY <1>3 DEF WatchRestart
  <2> QED
    BY <1>1, <2>1, Unseeable DEF SameRecord
<1> QED
  BY <1>2, <1>3

(* A teardown task that ends was the only one of its name.                 *)
LEMMA TeardownDoneStep ==
    ASSUME Inv, NEW t \in tasks, NEW code \in Codes, TeardownDone(t, code)
    PROVE  t.name \in Names /\ L!Gone(t.name)
<1> DEFINE n == t.name
<1>1. n \in Names /\ UNCHANGED <<procs, nextGen, batch>> /\ tasks' = tasks \ {t}
  BY DEF Inv, TypeOK, TeardownDone
<1>2. ~procs[n].inc /\ \A u \in tasks : u.name = n => u = t
  BY <1>1 DEF Inv, LifeShape, WellFormed, OneTeardown
<1>3. Group[n] = "ending"
  BY <1>1, <1>2 DEF Group
<1>4. Group' = [Group EXCEPT ![n] = "none"]
  <2>1. ASSUME NEW k \in Names
        PROVE  Group'[k] = IF k = n THEN "none" ELSE Group[k]
    BY <1>1, <1>2 DEF Group
  <2>2. Group' = [k \in Names |-> Group'[k]] /\ Group = [k \in Names |-> Group[k]]
    BY DEF Group
  <2> QED
    BY <1>1, <2>1, <2>2
<1>5. Gen' = Gen /\ Owed' = Owed
  BY <1>1 DEF Gen, Owed
<1> QED
  BY <1>1, <1>3, <1>4, <1>5 DEF L!Gone

(* A stop-all that finds another one in progress waits for the same end.   *)
LEMMA StopAllJoinStep ==
    ASSUME Inv, NEW c \in Clients, StopAllJoin(c)
    PROVE  L!AskAll(c)
<1>1. UNCHANGED <<procs, nextGen, tasks>> /\ batch'.replies = batch.replies \cup {c} /\ batch.on
  BY DEF Inv, TypeOK, StopAllJoin
<1>2. \A n \in Names : Group[n] # "alive"
  BY <1>1 DEF Group, Inv, LifeShape, WellFormed, StopAllCovers
<1>3. Group' = Group /\ Gen' = Gen /\ Owed' = Owed
  BY <1>1 DEF Group, Gen, Owed
<1>4. Group = [n \in Names |-> IF Group[n] = "alive" THEN "ending" ELSE Group[n]]
  <2>1. Group = [n \in Names |-> Group[n]]
    BY DEF Group
  <2> QED
    BY <1>2, <2>1
<1> QED
  BY <1>1, <1>3, <1>4 DEF L!AskAll

(* The records are cleared when nothing of them is left.                   *)
LEMMA Clears ==
    ASSUME \A n \in Names : ~procs[n].inc, tasks = {},
           procs' = [n \in Names |-> NoProc], tasks' = {}, batch' = NoBatch,
           nextGen' = nextGen
    PROVE  L!Forgotten
<1>1. NoProc.inc = FALSE /\ NoProc.gen = 0 /\ NoProc.waiters = {} /\ NoBatch.replies = {}
  BY DEF NoProc, NoBatch
<1>2. /\ \A n \in Names : Group[n] = "none"
      /\ Group' = Group
  BY <1>1 DEF Group
<1>3. Gen' = [n \in Names |-> 0] /\ Owed' = {} /\ batch'.replies = {}
  BY <1>1 DEF Gen, Owed
<1> QED
  BY <1>2, <1>3 DEF L!Forgotten

(* The first stop-all begins the end of every group that is alive.         *)
LEMMA StopAllBeginStep ==
    ASSUME Inv, NEW c \in Clients, StopAllBegin(c)
    PROVE  L!AskAll(c)
<1> DEFINE ps == Refreshed(procs)
           O == Owned(ps)
           C == Covered(ps)
           T == {TaskOf(n, ps[n]) : n \in O}
           torn == [n \in Names |->
                     IF n \in O THEN TornDown(ps[n], "Park", {})
                     ELSE IF n \in C THEN ParkedNext(ps[n]) ELSE ps[n]]
<1>1. ASSUME NEW k \in Names
      PROVE  /\ Good(ps[k]) /\ ps[k].gen = procs[k].gen /\ ps[k].inc = procs[k].inc
             /\ ps[k].life = "Stopping" <=> procs[k].life = "Stopping"
             /\ ps[k].waiters = procs[k].waiters
  BY Lookup, RefreshSame
<1>2. O = {n \in Names : ps[n].inc} /\ C = O \cup {n \in Names : ps[n].life = "Stopping"}
  BY DEF Owned, Covered
<1>3. /\ tasks' = tasks \cup T
      /\ procs' = IF C = {} THEN [n \in Names |-> NoProc] ELSE torn
      /\ batch' = IF C = {} THEN NoBatch ELSE [on |-> TRUE, remaining |-> C, replies |-> {c}]
      /\ nextGen' = nextGen /\ ~batch.on
  BY DEF StopAllBegin
<1>4. batch.replies = {}
  BY <1>3 DEF Inv, StopAllCovers
<1>5. \A n \in O : TaskOf(n, ps[n]).name = n
  BY DEF TaskOf
<1>6. (\A t \in T : t.name \in O) /\ \A n \in O : \E t \in T : t.name = n
  BY <1>5
<1> HIDE DEF ps, O, C
<1>7. CASE C = {}
  <2>1. \A n \in Names : ~procs[n].inc /\ procs[n].life # "Stopping"
    BY <1>1, <1>2, <1>7
  <2>2. tasks = {} /\ T = {}
    BY <1>2, <1>7, <2>1 DEF Inv, TypeOK, OneTeardown
  <2>3. L!Forgotten
    BY <1>3, <1>7, <2>1, <2>2, Clears
  <2>4. Owed = {}
    BY <2>1, NoWaiters DEF Owed
  <2> QED
    BY <1>4, <2>3, <2>4 DEF L!AskAll
<1>8. CASE C # {}
  <2>1. procs' = torn /\ batch'.replies = batch.replies \cup {c}
    BY <1>3, <1>4, <1>8
  <2>2. ASSUME NEW n \in Names
        PROVE  /\ procs'[n].inc = FALSE /\ procs'[n].gen = procs[n].gen
               /\ procs'[n].waiters = procs[n].waiters
    <3>1. procs'[n] = IF n \in O THEN TornDown(ps[n], "Park", {})
                      ELSE IF n \in C THEN ParkedNext(ps[n]) ELSE ps[n]
      BY <2>1
    <3> HIDE DEF torn
    <3>2. CASE n \in O
      <4>1. ps[n].inc /\ ps[n].life \in {"Running", "Exited"} /\ Good(ps[n])
        BY <1>1, <1>2, <3>2 DEF Good, WellFormed
      <4>2. "Park" \in {"Park"} \cup Respawns /\ {} \in SUBSET (Clients \X {"Stop", "Restart"})
        OBVIOUS
      <4> DEFINE q == TornDown(ps[n], "Park", {})
      <4>3. Good(q) /\ ~q.inc /\ q.gen = ps[n].gen /\ q.waiters = {}
        BY <4>1, <4>2, TornDownGood
      <4>4. procs'[n] = q
        BY <3>1, <3>2
      <4> HIDE DEF q
      <4>5. ps[n].waiters = {} /\ q.inc = FALSE
        BY <4>1, <4>3 DEF Good, WellFormed, Records
      <4> QED
        BY <1>1, <4>3, <4>4, <4>5
    <3>3. CASE n \notin O /\ n \in C
      BY <1>1, <1>2, <3>1, <3>3 DEF ParkedNext, Good, Records
    <3>4. CASE n \notin O /\ n \notin C
      BY <1>1, <1>2, <3>1, <3>4 DEF Good, Records
    <3> QED
      BY <3>2, <3>3, <3>4
  <2> HIDE DEF torn, T
  <2>3. Group' = [n \in Names |-> IF Group[n] = "alive" THEN "ending" ELSE Group[n]]
    <3>1. ASSUME NEW n \in Names
          PROVE  Group'[n] = IF Group[n] = "alive" THEN "ending" ELSE Group[n]
      <4>1. n \in O <=> procs[n].inc
        BY <1>1, <1>2
      <4>2. (\E t \in tasks' : t.name = n) <=> n \in O \/ \E t \in tasks : t.name = n
        BY <1>3, <1>6
      <4> QED
        BY <2>2, <4>1, <4>2 DEF Group
    <3>2. Group' = [n \in Names |-> Group'[n]]
      BY DEF Group
    <3> QED
      BY <3>1, <3>2
  <2>4. Gen' = Gen /\ Owed' = Owed
    BY <2>2 DEF Gen, Owed
  <2> QED
    BY <1>3, <2>1, <2>3, <2>4 DEF L!AskAll
<1> QED
  BY <1>7, <1>8

(* finish_teardown answers all who waited for this group, and starts the   *)
(* next one, fails to, or leaves the name without one; the last one of a   *)
(* stop-all forgets everything.                                            *)
LEMMA StopFinishedStep ==
    ASSUME Inv, NEW m \in finished, NEW ok \in BOOLEAN, NEW wok \in BOOLEAN,
           StopFinished(m, ok, wok)
    PROVE  m.name \in Names /\ L!Settle(m.name)
<1> DEFINE n == m.name
           p == procs[n]
           respawns == p.then \in Respawns
           q == IF respawns THEN Respawned(Parked(p, m.code), p.then, ok, wok)
                ELSE Parked(p, m.code)
           remaining == batch.remaining \ {n}
           done == batch.on /\ remaining = {}
           ps == IF done THEN [k \in Names |-> NoProc] ELSE [procs EXCEPT ![n] = q]
<1>1. n \in Names /\ m.code \in Codes /\ procs \in [Names -> Records] /\ nextGen \in Nat
  BY DEF Inv, TypeOK
<1>2. p.life = "Stopping" /\ p.gen = m.gen /\ Good(p)
  BY <1>1 DEF Inv, TypeOK, LifeShape, OneTeardown, Good
<1>3. /\ procs' = ps /\ tasks' = tasks
      /\ batch' = IF done THEN NoBatch ELSE [batch EXCEPT !.remaining = remaining]
      /\ nextGen' = IF respawns THEN nextGen + 1 ELSE nextGen
  BY <1>2 DEF StopFinished
<1>4. ~p.inc /\ (\A t \in tasks : t.name # n)
  BY <1>2 DEF Good, WellFormed, Inv, OneTeardown
<1>5. Group[n] = "none"
  BY <1>1, <1>4 DEF Group
<1>6. batch.on => n \in batch.remaining /\ ~respawns
  BY <1>1, <1>2 DEF Inv, StopAllCovers, Respawns
<1>7. /\ q.waiters = {}
      /\ respawns /\ ok => q.inc /\ q.gen = nextGen + 1
      /\ ~(respawns /\ ok) => ~q.inc /\ q.gen = p.gen
  <2> DEFINE r == Parked(p, m.code)
  <2>1. Good(r) /\ r.life = "Exited" /\ r.why = "Manual" /\ ~r.inc /\ r.gen = p.gen
        /\ r.waiters = {}
    BY <1>1, <1>2, ParkedGood
  <2> HIDE DEF r, p
  <2>2. CASE respawns
    <3> DEFINE z == Respawned(r, p.then, ok, wok)
    <3>1. /\ z.inc = ok /\ z.waiters = {}
          /\ ok => z.gen = nextGen + 1
          /\ ~ok => z.gen = r.gen
      BY <1>1, <2>1, <2>2, RespawnedGood
    <3>2. q = z
      BY <2>2 DEF r
    <3> HIDE DEF z, q
    <3> QED
      BY <2>1, <2>2, <3>1, <3>2
  <2>3. CASE ~respawns
    BY <2>1, <2>3 DEF r
  <2> QED
    BY <2>2, <2>3
<1> HIDE DEF q
<1>8. CASE done
  <2>1. \A k \in Names \ {n} : procs[k].life # "Stopping" /\ ~procs[k].inc
    BY <1>8 DEF Inv, StopAllCovers
  <2>2. tasks = {}
    BY <1>4, <2>1 DEF Inv, TypeOK, OneTeardown
  <2>3. L!Forgotten
    BY <1>3, <1>4, <1>6, <1>8, <2>1, <2>2, Clears
  <2>4. \A o \in Owed : o[1] = n
    BY <2>1, NoWaiters DEF Owed
  <2>5. batch.replies # {}
    BY <1>8 DEF Inv, StopAllCovers
  <2> QED
    BY <1>1, <1>5, <2>3, <2>4, <2>5 DEF L!Settle
<1>9. CASE ~done
  <2>1. procs'[n] = q /\ \A k \in Names \ {n} : procs'[k] = procs[k]
    BY <1>1, <1>3, <1>9
  <2>2. batch'.replies = batch.replies
    BY <1>3, <1>9 DEF Inv, TypeOK
  <2>3. Owed' = {o \in Owed : o[1] # n}
    BY <1>1, <1>7, <2>1 DEF Owed
  <2>4. CASE respawns /\ ok
    <3>1. batch.replies = {}
      BY <1>6, <2>4 DEF Inv, StopAllCovers
    <3>2. Comes(n)
      BY <1>3, <1>4, <1>7, <2>1, <2>2, <2>4, <3>1 DEF Comes
    <3>3. L!Started(n)
      BY <1>1, <3>2, Starts
    <3> QED
      BY <1>1, <1>5, <2>3, <3>3 DEF L!Settle
  <2>5. CASE ~(respawns /\ ok)
    <3>1. \A k \in Names : procs'[k].inc <=> procs[k].inc
      BY <1>4, <1>7, <2>1, <2>5
    <3>2. \A k \in Names : procs'[k].gen = procs[k].gen
      BY <1>7, <2>1, <2>5
    <3>3. Group' = Group /\ Gen' = Gen
      BY <1>3, <3>1, <3>2 DEF Group, Gen
    <3>4. respawns => batch.replies = {}
      BY <1>6 DEF Inv, StopAllCovers
    <3> QED
      BY <1>1, <1>3, <1>5, <2>2, <2>3, <3>3, <3>4 DEF L!Settle
  <2> QED
    BY <2>4, <2>5
<1> QED
  BY <1>8, <1>9

(* Every step is one of Lifecycle, or is not seen.                         *)
LEMMA StepImplements ==
    ASSUME Inv, [Next]_vars
    PROVE  [L!Next]_(L!vars)
<1>1. SpawnResults \subseteq BOOLEAN /\ WatchResults \subseteq BOOLEAN
      /\ WatchFlags \subseteq BOOLEAN /\ Bindable \subseteq SUBSET AutoPorts
  BY DEF SpawnResults, WatchResults, WatchFlags, Bindable
<1>2. ASSUME NEW c \in Clients, Spawn(c) PROVE [L!Next]_(L!vars)
  <2>1. PICK n \in Names, port \in RunPorts, free \in Bindable :
           \/ SpawnError(c, n, port, free)
           \/ \E pol \in Policies, w \in WatchFlags, wok \in WatchResults :
                SpawnOk(c, n, pol, w, port, free, wok)
    BY <1>2 DEF Spawn
  <2>2. CASE SpawnError(c, n, port, free)
    BY <2>2, UnseenStep
  <2>3. ASSUME NEW pol \in Policies, NEW w \in WatchFlags, NEW wok \in WatchResults,
               SpawnOk(c, n, pol, w, port, free, wok)
        PROVE  L!Next
    BY <1>1, <2>3, SpawnOkStep DEF L!Next
  <2> QED
    BY <2>1, <2>2, <2>3
<1>3. ASSUME NEW c \in Clients, Refused(c) PROVE [L!Next]_(L!vars)
  BY <1>3, UnseenStep
<1>4. ASSUME NEW c \in Clients, StopAllJoin(c) \/ StopAllBegin(c) PROVE [L!Next]_(L!vars)
  BY <1>4, StopAllJoinStep, StopAllBeginStep DEF L!Next
<1>5. ASSUME NEW c \in Clients, NEW n \in Names, Stop(c, n) PROVE [L!Next]_(L!vars)
  BY <1>5, StopStep DEF L!Next, L!Kinds
<1>6. ASSUME NEW c \in Clients, NEW n \in Names, Restart(c, n) PROVE [L!Next]_(L!vars)
  BY <1>6, RestartStep DEF L!Next, L!Kinds
<1>7. CASE Status \/ IsProcessExited \/ EnableProxy
  BY <1>7, UnseenStep
<1>8. CASE Tick
  BY <1>8, TickStep
<1>9. ASSUME NEW e \in events, WatchRestart(e) PROVE [L!Next]_(L!vars)
  <2>1. e.name \in Names
    BY DEF Inv, TypeOK
  <2> QED
    BY <1>9, <2>1, WatchRestartStep DEF L!Next
<1>10. ASSUME NEW n \in Names, FireTimer(n) PROVE [L!Next]_(L!vars)
  BY <1>10, AutoRestartStep DEF FireTimer, L!Next
<1>11. ASSUME NEW n \in Names, FinishTeardown(n) PROVE [L!Next]_(L!vars)
  <2>1. PICK m \in finished, ok \in SpawnResults, wok \in WatchResults :
           StopFinished(m, ok, wok)
    BY <1>11 DEF FinishTeardown
  <2> QED
    BY <1>1, <2>1, StopFinishedStep DEF L!Next
<1>12. ASSUME NEW n \in Names, EndTeardown(n) PROVE [L!Next]_(L!vars)
  BY <1>12, TeardownDoneStep DEF EndTeardown, L!Next
<1>13. ASSUME NEW n \in Names, NEW code \in Codes, LeaderExit(n, code) PROVE [L!Next]_(L!vars)
  BY <1>13, LeaderExitStep
<1>14. ASSUME NEW n \in Names, NEW s \in Slots, FileChange(n, s) PROVE [L!Next]_(L!vars)
  BY <1>14, UnseenStep
<1>15. CASE UNCHANGED vars
  BY <1>15, Unseeable DEF vars, SameRecord
<1> QED
  BY <1>2, <1>3, <1>4, <1>5, <1>6, <1>7, <1>8, <1>9, <1>10, <1>11, <1>12, <1>13, <1>14,
     <1>15 DEF Next

(* Nothing runs and nobody waits at the start.                             *)
LEMMA InitImplements ==
    ASSUME Init
    PROVE  L!Init
BY DEF Init, L!Init, Group, Gen, Owed, NoProc, NoBatch

(* The supervisor implements Lifecycle, for any processes, clients,        *)
(* policies and ports: groups of one name never overlap, generations are   *)
(* issued once, a stop or restart is answered only when its group is gone, *)
(* and from a stop-all to its answer nothing starts.                       *)
THEOREM SupervisorImplements == Spec => Implements
<1>1. Inv /\ [Next]_vars => [L!Next]_(L!vars)
  BY StepImplements
<1>2. Init => L!Init
  BY InitImplements
<1> QED
  BY <1>1, <1>2, InvAlways, PTL DEF Spec, Implements, L!Spec
=============================================================================

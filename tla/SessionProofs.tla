---------------------------- MODULE SessionProofs ---------------------------
(***************************************************************************)
(* Theorems about Session, for any CLI processes whose commands overlap    *)
(* freely and any number of daemons that start, are killed at any point or *)
(* leave: as long as no command decided on a pid file that could not tell  *)
(* it of a living daemon, no two daemons serve the session, and the one    *)
(* that does can be found.                                                 *)
(***************************************************************************)
EXTENDS Session, TLAPS

Places == {"idle", "unlink", "fork", "poll", "connect", "connected", "failed",
            "cleansock", "cleanpid"}

(* A command that waits for a daemon, or talks to one, knows which.        *)
PeerKnown == \A c \in Clis : cli[c] \in {"poll", "connected"} => peer[c] \in Daemons

(* At most one command acts on what it saw, and while it does there is no  *)
(* daemon; there is never more than one.                                   *)
Alone ==
    /\ \A b, c \in Clis : Acting(b) /\ Acting(c) => b = c
    /\ \A c \in Clis : Acting(c) => \A d \in Daemons : ~Active(d)
    /\ \A d, e \in Daemons : Active(d) /\ Active(e) => d = e

(* A daemon that made the pid file finds it as it left it; past its start  *)
(* it is the one the file names, or failed to say so; the socket of one    *)
(* that serves is its own.                                                 *)
Named ==
    \A d \in Daemons :
        /\ daemon[d] = "created" => d \in open /\ pidFile = Blank
        /\ daemon[d] \in {"binding", "serving", "leaving", "lastfile"} =>
                pidFile = d \/ d \in unrecorded
        /\ daemon[d] = "serving" => sockFile = d

SessionInv == TypeOK /\ PeerKnown /\ (blind = {} => Alone /\ Named)

-----------------------------------------------------------------------------
(* A command that finds no daemon alive, and is not blind, is the only one *)
(* to act, and there is no daemon: one past its start has its pid in the   *)
(* file.                                                                   *)
LEMMA DecideAlone ==
    ASSUME SessionInv, NEW c \in Clis, ~IsDaemonAlive, Decide(c), blind' = {}
    PROVE  /\ blind = {}
           /\ \A o \in Clis \ {c} : ~Acting(o)
           /\ \A d \in Daemons : ~Active(d)
<1>1. /\ blind = {}
      /\ \A o \in Clis \ {c} : ~Acting(o)
      /\ \A d \in Daemons : daemon[d] \notin {"starting", "created"}
      /\ \A d \in unrecorded : ~Active(d)
  BY DEF Decide
<1>2. ASSUME NEW d \in Daemons, Active(d) PROVE FALSE
  <2>1. daemon[d] \in {"binding", "serving", "leaving", "lastfile"}
    BY <1>1, <1>2 DEF Active, SessionInv, TypeOK
  <2>2. pidFile = d
    BY <1>1, <1>2, <2>1 DEF SessionInv, Named
  <2> QED
    BY <1>2, <2>2 DEF IsDaemonAlive, Alive, Active
<1> QED
  BY <1>1, <1>2

(* A command goes on without a change to files or daemons; it starts to    *)
(* act only when alone.                                                    *)
LEMMA CliMoves ==
    ASSUME SessionInv, NEW c \in Clis,
           NEW to \in Places, cli' = [cli EXCEPT ![c] = to],
           NEW p \in Daemons \cup {None}, peer' = [peer EXCEPT ![c] = p],
           to \in {"poll", "connected"} => p \in Daemons,
           UNCHANGED <<pidFile, sockFile, open, daemon, unrecorded>>,
           blind \subseteq blind', blind' \subseteq {"overlap", "unrecorded"},
           to \in {"unlink", "fork", "cleansock", "cleanpid"} /\ blind' = {} =>
               /\ \A o \in Clis \ {c} : ~Acting(o)
               /\ \A d \in Daemons : ~Active(d)
    PROVE  SessionInv'
<1>1. /\ cli'[c] = to /\ peer'[c] = p
      /\ \A o \in Clis \ {c} : cli'[o] = cli[o] /\ peer'[o] = peer[o]
      /\ cli' \in [Clis -> Places] /\ peer' \in [Clis -> Daemons \cup {None}]
  BY DEF SessionInv, TypeOK, Places
<1>2. TypeOK'
  BY <1>1 DEF SessionInv, TypeOK, Places
<1>3. PeerKnown'
  BY <1>1 DEF SessionInv, PeerKnown
<1>4. ASSUME blind' = {} PROVE Alone' /\ Named'
  <2>1. blind = {} /\ Alone /\ Named
    BY <1>4 DEF SessionInv
  <2>2. Named'
    BY <2>1 DEF Named
  <2>3. Alone'
    BY <1>1, <1>4, <2>1 DEF Alone, Acting, Active
  <2> QED
    BY <2>2, <2>3
<1> QED
  BY <1>2, <1>3, <1>4 DEF SessionInv

(* A command looks at the pid file: it goes on without acting, or acts.    *)
LEMMA CheckStep ==
    ASSUME SessionInv, NEW c \in Clis, Check(c) \/ Clean(c)
    PROVE  SessionInv'
<1>1. PICK to \in {"connect", "unlink", "failed", "cleansock"} :
          /\ cli' = [cli EXCEPT ![c] = to]
          /\ \/ blind' = blind /\ to \in {"connect", "failed"}
             \/ ~IsDaemonAlive /\ Decide(c)
  BY DEF Check, Clean, At
<1>2. UNCHANGED <<pidFile, sockFile, open, daemon, peer, unrecorded>>
  BY DEF Check, Clean, files
<1>3. /\ peer[c] \in Daemons \cup {None} /\ peer' = [peer EXCEPT ![c] = peer[c]]
      /\ to \in Places
  BY <1>2 DEF SessionInv, TypeOK, Places
<1>4. blind \subseteq blind' /\ blind' \subseteq {"overlap", "unrecorded"}
  BY <1>1 DEF Decide, SessionInv, TypeOK
<1>5. to \in {"unlink", "cleansock"} /\ blind' = {} =>
          /\ \A o \in Clis \ {c} : ~Acting(o)
          /\ \A d \in Daemons : ~Active(d)
  BY <1>1, DecideAlone
<1> QED
  BY <1>1, <1>2, <1>3, <1>4, <1>5, CliMoves

(* The rest of a command, where it removes and starts nothing.             *)
LEMMA GoesOnStep ==
    ASSUME SessionInv, NEW c \in Clis,
           \/ SpawnFails(c) \/ PollExited(c) \/ PollReady(c) \/ PollTimeout(c)
           \/ Connect(c) \/ End(c) \/ Interrupted(c)
    PROVE  SessionInv'
<1>1. /\ UNCHANGED <<pidFile, sockFile, open, daemon, unrecorded, blind>>
      /\ blind \subseteq blind' /\ blind' \subseteq {"overlap", "unrecorded"}
  BY DEF SpawnFails, PollExited, PollReady, PollTimeout, Connect, End, Interrupted, Leave,
         files, history, SessionInv, TypeOK
<1>2. \E to \in {"idle", "connect", "connected", "failed"}, p \in Daemons \cup {None} :
          /\ cli' = [cli EXCEPT ![c] = to] /\ peer' = [peer EXCEPT ![c] = p]
          /\ to = "connected" => p \in Daemons
  <2>1. CASE SpawnFails(c) \/ PollExited(c) \/ PollReady(c) \/ PollTimeout(c)
    <3>1. PICK to \in {"connect", "failed"} : cli' = [cli EXCEPT ![c] = to]
      BY <2>1 DEF SpawnFails, PollExited, PollReady, PollTimeout, At
    <3>2. peer[c] \in Daemons \cup {None} /\ peer' = [peer EXCEPT ![c] = peer[c]]
      BY <2>1 DEF SpawnFails, PollExited, PollReady, PollTimeout, SessionInv, TypeOK
    <3> QED
      BY <3>1, <3>2
  <2>2. CASE Connect(c) /\ Listening
    <3>1. sockFile \in Daemons
      BY <2>2 DEF Listening, SessionInv, TypeOK
    <3> QED
      BY <2>2, <3>1 DEF Connect, At
  <2>3. CASE Connect(c) /\ ~Listening
    BY <2>3 DEF Connect, At
  <2>4. CASE End(c) \/ Interrupted(c)
    BY <2>4 DEF End, Interrupted, Leave
  <2> QED
    BY <2>1, <2>2, <2>3, <2>4
<1>3. PICK to \in {"idle", "connect", "connected", "failed"}, p \in Daemons \cup {None} :
          /\ cli' = [cli EXCEPT ![c] = to] /\ peer' = [peer EXCEPT ![c] = p]
          /\ to = "connected" => p \in Daemons
  BY <1>2
<1>4. /\ to \in Places /\ to # "poll"
      /\ to \notin {"unlink", "fork", "cleansock", "cleanpid"}
  BY DEF Places
<1> QED
  BY <1>1, <1>3, <1>4, CliMoves

(* A file is removed by a command: no daemon minds.                        *)
LEMMA RemovesStep ==
    ASSUME SessionInv, NEW c \in Clis, Unlink(c) \/ CleanSocket(c) \/ CleanPid(c)
    PROVE  SessionInv'
<1>1. /\ cli[c] \in {"unlink", "cleansock", "cleanpid"}
      /\ UNCHANGED <<daemon, peer, unrecorded, blind>>
      /\ pidFile' \in {pidFile, None} /\ sockFile' \in {sockFile, None}
      /\ open' \in {open, {}}
  BY DEF Unlink, CleanSocket, CleanPid, UnlinkPid, At, history
<1>2. PICK to \in {"fork", "cleanpid", "idle"} : cli' = [cli EXCEPT ![c] = to]
  BY DEF Unlink, CleanSocket, CleanPid, At
<1>3. /\ cli'[c] = to /\ \A o \in Clis \ {c} : cli'[o] = cli[o]
      /\ cli' \in [Clis -> Places]
  BY <1>2 DEF SessionInv, TypeOK, Places
<1>4. TypeOK'
  BY <1>1, <1>3 DEF SessionInv, TypeOK, Places
<1>5. PeerKnown'
  BY <1>1, <1>3 DEF SessionInv, PeerKnown
<1>6. ASSUME blind' = {} PROVE Alone' /\ Named'
  <2>1. Alone
    BY <1>1, <1>6 DEF SessionInv
  <2>2. Acting(c) /\ \A d \in Daemons : ~Active(d)
    BY <1>1, <2>1 DEF Alone, Acting
  <2>3. Alone'
    BY <1>1, <1>3, <2>1, <2>2 DEF Alone, Acting, Active
  <2>4. Named'
    BY <1>1, <2>2 DEF Named, Active
  <2> QED
    BY <2>3, <2>4
<1> QED
  BY <1>4, <1>5, <1>6 DEF SessionInv

(* The child is the only daemon, and the command acts no more.             *)
LEMMA SpawnStep ==
    ASSUME SessionInv, NEW c \in Clis, NEW d \in Daemons, Spawn(c, d)
    PROVE  SessionInv'
<1>1. /\ cli[c] = "fork" /\ cli' = [cli EXCEPT ![c] = "poll"]
      /\ daemon' = [daemon EXCEPT ![d] = "starting"] /\ peer' = [peer EXCEPT ![c] = d]
      /\ UNCHANGED <<pidFile, sockFile, open, unrecorded, blind>>
  BY DEF Spawn, At, Step, files, history
<1>2. /\ cli'[c] = "poll" /\ peer'[c] = d /\ daemon'[d] = "starting"
      /\ \A o \in Clis \ {c} : cli'[o] = cli[o] /\ peer'[o] = peer[o]
      /\ \A e \in Daemons \ {d} : daemon'[e] = daemon[e]
  BY <1>1 DEF SessionInv, TypeOK
<1>3. TypeOK'
  BY <1>1 DEF SessionInv, TypeOK
<1>4. PeerKnown'
  BY <1>2 DEF SessionInv, PeerKnown
<1>5. ASSUME blind' = {} PROVE Alone' /\ Named'
  <2>1. Alone
    BY <1>1, <1>5 DEF SessionInv
  <2>2. /\ \A e \in Daemons : ~Active(e)
        /\ \A o \in Clis \ {c} : ~Acting(o)
    BY <1>1, <2>1 DEF Alone, Acting
  <2>3. Alone'
    BY <1>2, <2>2 DEF Alone, Acting, Active
  <2>4. Named'
    BY <1>2, <2>2 DEF Named, Active
  <2> QED
    BY <2>3, <2>4
<1> QED
  BY <1>3, <1>4, <1>5 DEF SessionInv

-----------------------------------------------------------------------------
(* A daemon's own step: it stays the only one.                             *)
LEMMA DaemonMoves ==
    ASSUME SessionInv, NEW d \in Daemons, Active(d),
           NEW to \in {"created", "binding", "serving", "leaving", "lastfile", "dead"},
           daemon' = [daemon EXCEPT ![d] = to],
           UNCHANGED <<cli, peer, blind>>,
           TypeOK',
           blind = {} =>
               /\ to = "created" => d \in open' /\ pidFile' = Blank
               /\ to \in {"binding", "serving", "leaving", "lastfile"} =>
                      pidFile' = d \/ d \in unrecorded'
               /\ to = "serving" => sockFile' = d
    PROVE  SessionInv'
<1>1. daemon'[d] = to /\ \A e \in Daemons \ {d} : daemon'[e] = daemon[e]
  BY DEF SessionInv, TypeOK
<1>2. PeerKnown'
  BY DEF SessionInv, PeerKnown
<1>3. ASSUME blind' = {} PROVE Alone' /\ Named'
  <2>1. Alone /\ Named
    BY <1>3 DEF SessionInv
  <2>2. /\ \A e \in Daemons \ {d} : ~Active(e)
        /\ \A c \in Clis : ~Acting(c)
    BY <2>1 DEF Alone
  <2>3. Alone'
    BY <1>1, <2>2 DEF Alone, Acting, Active
  <2>4. Named'
    BY <1>1, <1>3, <2>2 DEF Named, Active
  <2> QED
    BY <2>3, <2>4
<1> QED
  BY <1>2, <1>3 DEF SessionInv

(* run_daemon makes the pid file and writes to it, or fails to.            *)
LEMMA PidStep ==
    ASSUME SessionInv, NEW d \in Daemons, CreatePid(d) \/ WritePid(d)
    PROVE  SessionInv'
<1>1. CASE CreatePid(d)
  <2>1. /\ Active(d) /\ UNCHANGED <<sockFile, cli, peer, blind>>
        /\ \/ /\ daemon' = [daemon EXCEPT ![d] = "created"]
              /\ pidFile' = Blank /\ open' = open \cup {d} /\ unrecorded' = unrecorded
           \/ /\ daemon' = [daemon EXCEPT ![d] = "binding"]
              /\ unrecorded' = unrecorded \cup {d} /\ UNCHANGED <<pidFile, open>>
    BY <1>1 DEF CreatePid, Step, Active
  <2>2. TypeOK'
    BY <2>1 DEF SessionInv, TypeOK
  <2> QED
    BY <2>1, <2>2, DaemonMoves
<1>2. CASE WritePid(d)
  <2>1. /\ daemon[d] = "created" /\ Active(d) /\ UNCHANGED <<sockFile, cli, peer, blind>>
        /\ daemon' = [daemon EXCEPT ![d] = "binding"] /\ open' = open \ {d}
        /\ \/ /\ d \in open /\ unrecorded' = unrecorded
              /\ pidFile' = d \/ (pidFile \in Daemons /\ pidFile' = Blank)
           \/ d \notin open /\ UNCHANGED <<pidFile, unrecorded>>
           \/ unrecorded' = unrecorded \cup {d} /\ UNCHANGED pidFile
    BY <1>2 DEF WritePid, Step, Active
  <2>2. TypeOK'
    BY <2>1 DEF SessionInv, TypeOK
  <2>3. blind = {} => d \in open /\ pidFile \notin Daemons
    BY <2>1, BlankAssumption DEF SessionInv, Named
  <2> QED
    BY <2>1, <2>2, <2>3, DaemonMoves
<1> QED
  BY <1>1, <1>2

(* The rest of run_daemon, and a kill at any point of it.                  *)
LEMMA DaemonStep ==
    ASSUME SessionInv, NEW d \in Daemons,
           Bind(d) \/ BindFails(d) \/ RemoveSocket(d) \/ RemovePid(d) \/ Killed(d)
    PROVE  SessionInv'
<1>1. /\ Active(d) /\ UNCHANGED <<cli, peer, unrecorded, blind>>
      /\ open' \subseteq open
      /\ pidFile' \in {pidFile, None} /\ sockFile' \in {sockFile, None, d}
  BY DEF Bind, BindFails, RemoveSocket, RemovePid, UnlinkPid, Killed, Step, Active, files, history
<1>2. PICK to \in {"serving", "leaving", "lastfile", "dead"} :
          /\ daemon' = [daemon EXCEPT ![d] = to]
          /\ to # "dead" => daemon[d] \in {"binding", "leaving"} /\ pidFile' = pidFile
          /\ to = "serving" => sockFile' = d
  BY DEF Bind, BindFails, RemoveSocket, RemovePid, Killed, Step, files
<1>3. TypeOK'
  BY <1>1, <1>2 DEF SessionInv, TypeOK
<1>4. blind = {} /\ to # "dead" => pidFile' = d \/ d \in unrecorded'
  BY <1>1, <1>2 DEF SessionInv, Named
<1> QED
  BY <1>1, <1>2, <1>3, <1>4, DaemonMoves

(* `down` makes the daemon it talks to leave: as if the command ended and  *)
(* the daemon moved.                                                       *)
LEMMA DownStep ==
    ASSUME SessionInv, NEW c \in Clis, Down(c)
    PROVE  SessionInv'
<1> DEFINE d == peer[c]
<1>1. /\ cli[c] = "connected" /\ cli' = [cli EXCEPT ![c] = "idle"]
      /\ peer' = [peer EXCEPT ![c] = None]
      /\ daemon[d] = "serving" /\ daemon' = [daemon EXCEPT ![d] = "leaving"]
      /\ UNCHANGED <<pidFile, sockFile, open, unrecorded, blind>>
  BY DEF Down, Leave, Step, files, history
<1>2. d \in Daemons
  BY <1>1 DEF SessionInv, PeerKnown
<1> HIDE DEF d
<1>3. /\ cli'[c] = "idle" /\ \A o \in Clis \ {c} : cli'[o] = cli[o] /\ peer'[o] = peer[o]
      /\ daemon'[d] = "leaving" /\ \A e \in Daemons \ {d} : daemon'[e] = daemon[e]
  BY <1>1, <1>2 DEF SessionInv, TypeOK
<1>4. TypeOK'
  BY <1>1, <1>2 DEF SessionInv, TypeOK
<1>5. PeerKnown'
  BY <1>3 DEF SessionInv, PeerKnown
<1>6. ASSUME blind' = {} PROVE Alone' /\ Named'
  <2>1. Alone /\ Named
    BY <1>1, <1>6 DEF SessionInv
  <2>2. Alone'
    BY <1>1, <1>2, <1>3, <2>1 DEF Alone, Acting, Active
  <2>3. Named'
    BY <1>1, <1>2, <1>3, <2>1 DEF Named
  <2> QED
    BY <2>2, <2>3
<1> QED
  BY <1>4, <1>5, <1>6 DEF SessionInv

(* The pid of a dead daemon changes hands.                                 *)
LEMMA ReusedStep ==
    ASSUME SessionInv, NEW d \in Daemons, PidReused(d)
    PROVE  SessionInv'
<1>1. PICK to \in {"dead", "reused"} :
          daemon[d] \in {"dead", "reused"} /\ daemon' = [daemon EXCEPT ![d] = to]
  BY DEF PidReused, Step
<1>2. UNCHANGED <<pidFile, sockFile, open, cli, peer, unrecorded, blind>>
  BY DEF PidReused, files, history
<1>3. daemon'[d] = to /\ \A e \in Daemons \ {d} : daemon'[e] = daemon[e]
  BY <1>1 DEF SessionInv, TypeOK
<1>4. TypeOK' /\ PeerKnown'
  BY <1>1, <1>2 DEF SessionInv, TypeOK, PeerKnown
<1>5. ASSUME blind' = {} PROVE Alone' /\ Named'
  <2>1. Alone /\ Named
    BY <1>2, <1>5 DEF SessionInv
  <2> QED
    BY <1>1, <1>2, <1>3, <2>1 DEF Alone, Named, Acting, Active
<1> QED
  BY <1>4, <1>5 DEF SessionInv

-----------------------------------------------------------------------------
(* The invariant is inductive.                                             *)
LEMMA SessionStep ==
    ASSUME SessionInv, [Next]_vars
    PROVE  SessionInv'
<1>1. ASSUME NEW c \in Clis, Command(c) \/ Check(c) \/ Down(c) \/ Clean(c) \/ Interrupted(c)
      PROVE  SessionInv'
  BY <1>1, RemovesStep, GoesOnStep, SpawnStep, CheckStep, DownStep DEF Command
<1>2. ASSUME NEW d \in Daemons, RunDaemon(d) \/ Killed(d) \/ PidReused(d)
      PROVE  SessionInv'
  BY <1>2, PidStep, DaemonStep, ReusedStep DEF RunDaemon
<1>3. CASE UNCHANGED vars
  BY <1>3 DEF vars, files, history, SessionInv, TypeOK, PeerKnown, Alone, Named, Acting, Active
<1> QED
  BY <1>1, <1>2, <1>3 DEF Next

(* It holds at first.                                                      *)
LEMMA InitSession == Init => SessionInv
BY DEF Init, SessionInv, TypeOK, PeerKnown, Alone, Named, Acting, Active

(* What it says of daemons that serve.                                     *)
LEMMA InvServes == SessionInv => SingleUnlessBlind /\ ReachableUnlessBlind
<1>1. SessionInv => SingleUnlessBlind
  BY DEF SessionInv, Alone, Active, SingleUnlessBlind, Single
<1>2. SessionInv => ReachableUnlessBlind
  BY DEF SessionInv, Named, ReachableUnlessBlind
<1> QED
  BY <1>1, <1>2

(* Files, daemons and commands keep to their values.                       *)
THEOREM SessionTypeCorrect == Spec => []TypeOK
<1>1. SessionInv /\ [Next]_vars => SessionInv'
  BY SessionStep
<1>2. SessionInv => TypeOK
  BY DEF SessionInv
<1> QED
  BY <1>1, <1>2, InitSession, PTL DEF Spec

(* However commands overlap, are interrupted and time out, and whenever    *)
(* daemons are killed or leave: unless a command started a daemon or       *)
(* cleaned up while another command was doing so, while a daemon was still *)
(* to write its pid, or while one lived that had failed to, no two daemons *)
(* serve the session.                                                      *)
THEOREM SingleUnlessBlindHolds == Spec => []SingleUnlessBlind
<1>1. SessionInv /\ [Next]_vars => SessionInv'
  BY SessionStep
<1> QED
  BY <1>1, InitSession, InvServes, PTL DEF Spec

(* And then the one that serves has the socket, and its pid is in the pid  *)
(* file unless it failed to write it.                                      *)
THEOREM ReachableUnlessBlindHolds == Spec => []ReachableUnlessBlind
<1>1. SessionInv /\ [Next]_vars => SessionInv'
  BY SessionStep
<1> QED
  BY <1>1, InitSession, InvServes, PTL DEF Spec
=============================================================================

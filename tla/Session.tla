------------------------------ MODULE Session -------------------------------
(***************************************************************************)
(* The daemons of one session and the two files that lead to them: the     *)
(* pid file and the socket.  CLI processes start a daemon on first use     *)
(* (connect of src/src/cli/mod.rs, spawn_daemon and wait_for_daemon_ready  *)
(* of src/src/daemon/spawn.rs), daemons write and remove the files         *)
(* (run_daemon), `session clean` removes stale ones                        *)
(* (src/src/cli/session_cmd.rs), and a daemon may be killed at any point,  *)
(* leaving its files behind.  No step of one process is atomic with a step *)
(* of another: each file operation is an action, commands overlap freely,  *)
(* and a CLI process may be interrupted anywhere.  The pid of a dead       *)
(* daemon may come to name an unrelated process.                           *)
(***************************************************************************)
EXTENDS Integers, FiniteSets

CONSTANTS
    Clis,       \* CLI processes
    Daemons,    \* daemon processes, named by their pid: the bound on spawns
    None,       \* no file, no process
    Blank       \* a pid file that no pid can be read from

ASSUME NoneAssumption == None \notin Daemons
ASSUME BlankAssumption == Blank \notin Daemons \cup {None}

VARIABLES
    pidFile,    \* the pid in the pid file
    sockFile,   \* the daemon that bound the socket at the path
    daemon,     \* where each daemon is
    cli,        \* where each CLI process is
    peer,       \* the daemon it spawned, or is connected to
    open,       \* the daemons that hold the pid file at the path open
    unrecorded, \* history: the daemons that failed to write their pid
    blind       \* history: why a command may have taken a living daemon
                \* for none: "overlap", "unrecorded"

files == <<pidFile, sockFile, open>>
history == <<unrecorded, blind>>
vars == <<files, daemon, cli, peer, history>>

-----------------------------------------------------------------------------
(* A pid answers to signals while its daemon lives, while it is a zombie,  *)
(* or once it was given to an unrelated process.                           *)
Active(d) == daemon[d] \notin {"unborn", "dead", "reused"}
Alive(d) == daemon[d] \notin {"unborn", "dead"}
Listening == sockFile # None /\ daemon[sockFile] = "serving"

(* is_daemon_alive: the pid in the file answers to signal 0.               *)
IsDaemonAlive_Connects == Listening
IsDaemonAlive == pidFile \in Daemons /\ Alive(pidFile)

At(c, from, to) == cli[c] = from /\ cli' = [cli EXCEPT ![c] = to]
Step(d, from, to) == daemon[d] = from /\ daemon' = [daemon EXCEPT ![d] = to]

Init ==
    /\ pidFile = None /\ sockFile = None /\ open = {}
    /\ daemon = [d \in Daemons |-> "unborn"]
    /\ cli = [c \in Clis |-> "idle"]
    /\ peer = [c \in Clis |-> None]
    /\ unrecorded = {} /\ blind = {}

-----------------------------------------------------------------------------
(* A command of the CLI                                                    *)

(* From its look at the pid file until it has started a daemon or removed  *)
(* the stale files, a command acts on what it saw.                         *)
Acting(c) == cli[c] \in {"unlink", "fork", "cleansock", "cleanpid"}

(* What the pid file could not tell the command that just read it: another *)
(* command is acting, or has started a daemon that is yet to write its     *)
(* pid; a daemon lives that failed to write it.                            *)
Decide(c) ==
    blind' = blind \cup
        (IF \/ \E o \in Clis \ {c} : Acting(o)
            \/ \E d \in Daemons : daemon[d] \in {"starting", "created"}
         THEN {"overlap"} ELSE {}) \cup
        (IF \E d \in unrecorded : Active(d) THEN {"unrecorded"} ELSE {})

(* The bound on daemons holds back commands that would start one.          *)
Spare == Cardinality({d \in Daemons : daemon[d] = "unborn"})
              > Cardinality({o \in Clis : cli[o] \in {"unlink", "fork"}})

(* connect: with auto_spawn a missing daemon is started, without it the    *)
(* command fails with NoDaemon.                                            *)
Check(c) ==
    /\ \/ IsDaemonAlive /\ At(c, "idle", "connect") /\ UNCHANGED blind
       \/ ~IsDaemonAlive /\ Spare /\ At(c, "idle", "unlink") /\ Decide(c)
       \/ ~IsDaemonAlive /\ At(c, "idle", "failed") /\ UNCHANGED blind
    /\ UNCHANGED <<files, daemon, peer, unrecorded>>

(* spawn_daemon: remove a stale socket, start the child.                   *)
Unlink(c) ==
    /\ At(c, "unlink", "fork")
    /\ sockFile' = None
    /\ UNCHANGED <<pidFile, open, daemon, peer, history>>

Spawn(c, d) ==
    /\ At(c, "fork", "poll")
    /\ Step(d, "unborn", "starting")
    /\ peer' = [peer EXCEPT ![c] = d]
    /\ UNCHANGED <<files, history>>

SpawnFails(c) ==
    /\ At(c, "unlink", "failed") \/ At(c, "fork", "failed")
    /\ UNCHANGED <<files, daemon, peer, history>>

(* wait_for_daemon_ready: the child exited; both files are there and a     *)
(* connection succeeds; a hundred polls were not enough.                   *)
PollExited(c) ==
    /\ At(c, "poll", "failed") /\ ~Active(peer[c])
    /\ UNCHANGED <<files, daemon, peer, history>>

PollReady(c) ==
    /\ At(c, "poll", "connect") /\ pidFile # None /\ Listening
    /\ UNCHANGED <<files, daemon, peer, history>>

PollTimeout(c) ==
    /\ At(c, "poll", "failed")
    /\ UNCHANGED <<files, daemon, peer, history>>

(* UnixStream::connect, then the request.                                  *)
Connect_Waits(c) ==
    /\ At(c, "connect", "connected") /\ Listening
    /\ peer' = [peer EXCEPT ![c] = sockFile]
    /\ UNCHANGED <<files, daemon, history>>
Connect(c) ==
    /\ At(c, "connect", IF Listening THEN "connected" ELSE "failed")
    /\ peer' = [peer EXCEPT ![c] = IF Listening THEN sockFile ELSE None]
    /\ UNCHANGED <<files, daemon, history>>

(* The command ends, or is interrupted; `down` has made the daemon leave   *)
(* its accept loop.                                                        *)
Leave(c) ==
    /\ cli' = [cli EXCEPT ![c] = "idle"]
    /\ peer' = [peer EXCEPT ![c] = None]
    /\ UNCHANGED <<files, history>>

End(c) == cli[c] \in {"connected", "failed"} /\ Leave(c) /\ UNCHANGED daemon

Interrupted(c) == cli[c] # "idle" /\ Leave(c) /\ UNCHANGED daemon

Down(c) == cli[c] = "connected" /\ Leave(c) /\ Step(peer[c], "serving", "leaving")

(* session clean                                                           *)
Clean(c) ==
    /\ pidFile # None /\ ~IsDaemonAlive
    /\ At(c, "idle", "cleansock") /\ Decide(c)
    /\ UNCHANGED <<files, daemon, peer, unrecorded>>

CleanSocket(c) ==
    /\ At(c, "cleansock", "cleanpid")
    /\ sockFile' = None
    /\ UNCHANGED <<pidFile, open, daemon, peer, history>>

(* Removing the file leaves whoever holds it open with an unnamed one.     *)
UnlinkPid == pidFile' = None /\ open' = {}

CleanPid(c) ==
    /\ At(c, "cleanpid", "idle") /\ UnlinkPid
    /\ UNCHANGED <<sockFile, daemon, peer, history>>

-----------------------------------------------------------------------------
(* A daemon: run_daemon                                                    *)

(* File::create truncates; an error is passed over, and so is one of the   *)
(* write that follows.                                                     *)
CreatePid(d) ==
    /\ \/ /\ Step(d, "starting", "created")
          /\ pidFile' = Blank /\ open' = open \cup {d}
          /\ UNCHANGED unrecorded
       \/ /\ Step(d, "starting", "binding")
          /\ unrecorded' = unrecorded \cup {d}
          /\ UNCHANGED <<pidFile, open>>
    /\ UNCHANGED <<sockFile, cli, peer, blind>>

(* A pid written over a longer one leaves digits of that behind it.        *)
WritePid(d) ==
    /\ Step(d, "created", "binding") /\ open' = open \ {d}
    /\ \/ /\ d \in open
          /\ \/ pidFile' = d
             \/ pidFile \in Daemons /\ pidFile' = Blank
          /\ UNCHANGED unrecorded
       \/ d \notin open /\ UNCHANGED <<pidFile, unrecorded>>
       \/ unrecorded' = unrecorded \cup {d} /\ UNCHANGED pidFile
    /\ UNCHANGED <<sockFile, cli, peer, blind>>

(* server::run binds, or fails because the path exists, is too long or     *)
(* cannot be written; either way the files are removed when it returns.    *)
Bind(d) ==
    /\ sockFile = None
    /\ Step(d, "binding", "serving")
    /\ sockFile' = d
    /\ UNCHANGED <<pidFile, open, cli, peer, history>>

BindFails(d) ==
    /\ Step(d, "binding", "leaving")
    /\ UNCHANGED <<files, cli, peer, history>>

RemoveSocket_PidFirst(d) ==
    /\ Step(d, "leaving", "lastfile") /\ UnlinkPid
    /\ UNCHANGED <<sockFile, cli, peer, history>>
RemoveSocket(d) ==
    /\ Step(d, "leaving", "lastfile")
    /\ sockFile' = None
    /\ UNCHANGED <<pidFile, open, cli, peer, history>>

RemovePid(d) ==
    /\ Step(d, "lastfile", "dead") /\ UnlinkPid
    /\ UNCHANGED <<sockFile, cli, peer, history>>

(* SIGKILL, or the machine's out-of-memory killer.                         *)
Killed(d) ==
    /\ Active(d)
    /\ daemon' = [daemon EXCEPT ![d] = "dead"]
    /\ open' = open \ {d}
    /\ UNCHANGED <<pidFile, sockFile, cli, peer, history>>

(* The pid of a dead daemon answers: it is a zombie of the CLI process     *)
(* that started it, or was given to some other process, which ends in turn.*)
PidReused(d) ==
    /\ Step(d, "dead", "reused") \/ Step(d, "reused", "dead")
    /\ UNCHANGED <<files, cli, peer, history>>
-----------------------------------------------------------------------------
Command(c) ==
    \/ Unlink(c) \/ SpawnFails(c) \/ PollExited(c) \/ PollReady(c) \/ PollTimeout(c)
    \/ Connect(c) \/ End(c) \/ CleanSocket(c) \/ CleanPid(c)
    \/ \E d \in Daemons : Spawn(c, d)

RunDaemon(d) ==
    \/ CreatePid(d) \/ WritePid(d) \/ Bind(d) \/ BindFails(d)
    \/ RemoveSocket(d) \/ RemovePid(d)

Next ==
    \/ \E c \in Clis : Command(c) \/ Check(c) \/ Down(c) \/ Clean(c) \/ Interrupted(c)
    \/ \E d \in Daemons : RunDaemon(d) \/ Killed(d) \/ PidReused(d)

Spec == Init /\ [][Next]_vars

(* Processes that are not killed run; nobody has to issue a command.       *)
FairSpec == /\ Spec
            /\ \A c \in Clis : WF_vars(Command(c))
            /\ \A d \in Daemons : WF_vars(RunDaemon(d))

-----------------------------------------------------------------------------
(* Properties                                                              *)

TypeOK ==
    /\ pidFile \in Daemons \cup {None, Blank} /\ sockFile \in Daemons \cup {None}
    /\ daemon \in [Daemons -> {"unborn", "starting", "created", "binding", "serving",
                                "leaving", "lastfile", "dead", "reused"}]
    /\ cli \in [Clis -> {"idle", "unlink", "fork", "poll", "connect", "connected", "failed",
                          "cleansock", "cleanpid"}]
    /\ peer \in [Clis -> Daemons \cup {None}]
    /\ open \subseteq Daemons /\ unrecorded \subseteq Daemons
    /\ blind \subseteq {"overlap", "unrecorded"}

Single == \A d, e \in Daemons : daemon[d] = "serving" /\ daemon[e] = "serving" => d = e

(* "Each session runs a single daemon process" (src/src/daemon/mod.rs),    *)
(* as long as every daemon could write its pid file.  It does not: nothing *)
(* holds a second command back between the first one's look at the pid     *)
(* file and the moment its daemon has written it.                          *)
SingleDaemon == unrecorded = {} => Single

(* That window and an unwritten pid file are the only ways to a second     *)
(* daemon: commands that overlap elsewhere, daemons killed at any step,    *)
(* ones that leave while commands run, reused pids, interrupted commands   *)
(* and poll timeouts never lead to one.                                    *)
SingleUnlessBlind == blind = {} => Single

(* In the same circumstances a daemon that serves can be found: whatever   *)
(* earlier daemons and commands still had to remove when it started, the   *)
(* socket is its own, and the pid file names it unless it failed to write  *)
(* it.                                                                     *)
ReachableUnlessBlind ==
    blind = {} =>
        \A d \in Daemons : daemon[d] = "serving" =>
            sockFile = d /\ (pidFile = d \/ d \in unrecorded)

(* A command ends, connected or with an error, also when the daemon it     *)
(* starts or talks to is killed or leaves at any point.                    *)
CommandEnds == \A c \in Clis : cli[c] # "idle" ~> cli[c] = "idle"
=============================================================================

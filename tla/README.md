# agent-procs in TLA+

agent-procs runs a project's background processes for coding agents: a CLI talks
over a Unix socket to one daemon per session, and the daemon spawns, watches,
restarts and stops process groups, captures their output and, if asked, routes
HTTP to them by name. This directory models the parts of it where order,
failure and concurrency decide whether it is right, checks the models with TLC
on small instances, and proves the central invariants with TLAPS for every value
of the constants.

Paths below are relative to the repository (`src/daemon/actor.rs` is
`src/src/daemon/actor.rs` in `PROJECT.json`).

## 1. The system

| part | state | operations | talks to |
|---|---|---|---|
| supervisor, `src/daemon/actor.rs` | the `ProcessManager`, the stop-all batch, the proxy's watch channel, its own mailbox sender | Spawn, Stop, Restart, StopAll, Status, IsProcessExited, HasProcess, SessionName, Subscribe, EnableProxy, AutoRestart, WatchRestart, StopFinished, the 200 ms tick | connection tasks (mpsc + oneshot), teardown tasks, timers, watcher tasks (mpsc back to itself), proxy (watch) |
| process manager, `src/daemon/process_manager.rs` | records (`Life`, generation, restart count, watcher handle, port), id and generation counters | spawn, respawn, refresh_exit_states, classify_restart_candidates, running_ports, status, `teardown` | the kernel: spawn, killpg, waitid; capture tasks |
| port allocator, `port_allocator.rs` | proxy flag, cursor | auto_assign_port, enable_proxy | record ports, a bind test |
| watcher, `watcher.rs` | debouncer, ignore rules | create_watcher, should_trigger | the supervisor, by WatchRestart |
| capture and logs, `log_writer.rs`, `log_index.rs` | log file, rotation, index, sequence number | capture_output, rotate, append, flush | pipes, the broadcast of lines, readers on disk |
| server, `server.rs`, `wait_engine.rs` | listener, connection counter, Notify | accept, the requests, follow streams, wait, shutdown | supervisor, proxy |
| proxy, `proxy.rs` | listener, the port map it is sent | accept, route, forward | server's Notify, supervisor's watch channel |
| daemon start, `spawn.rs`, `session.rs` | pid file, socket | spawn_daemon, wait_for_daemon_ready, run_daemon, is_daemon_alive | CLI processes |
| CLI, `src/cli/` | none that lasts | connect, request, run, up, down, stop, restart, status, logs, wait, session list/clean | the daemon, log files |
| configuration, `config.rs`, `cli/up.rs` | the process graph | parse, merge, startup_order | `up` |
| TUI, `src/tui/` | line buffers, filters, scrolling, disk reader | event loop, input, drawing | the daemon (follow, status), log files |

What is hard here:

* The supervisor never blocks on a stop. A stop is handed to a task and comes back
  as a message, and stops, restarts, stop-alls, restart timers and file events that
  arrive meanwhile join it, override what follows it, or are too late. Records are
  told apart by a generation number.
* Exits are observed by polling (`waitid` with `WNOWAIT`) in whichever handler looks
  first; who looks decides who publishes.
* A process group may fork, escape, ignore SIGTERM, outlive its leader, and hold
  its pipes open; its id is only safe to signal while the leader is unreaped.
* Two accept loops share one wake-up.
* The single daemon of a session is arranged through two files, without a lock,
  by processes that can be killed anywhere.
* Output goes to a rotating file, an index flushed in batches and a lossy
  broadcast, and readers combine them.

`PROJECT.json` lists each hazard at its line with the properties that would catch it.

## 2. Modules

| module | models | extends |
|---|---|---|
| `Supervisor` | `actor.rs` with the records of `process_manager.rs`, `port_allocator.rs`, restart policies of `protocol.rs`, watcher lifetimes | |
| `Lifecycle` | the abstract specification: what the supervisor promises about process groups | |
| `SupervisorLifecycle` | the refinement mapping from `Supervisor` to `Lifecycle` | `Supervisor`, instantiates `Lifecycle` |
| `MCSupervisor` | instances of both for TLC | `SupervisorLifecycle` |
| `SupervisorProofs` | theorems on `Supervisor`, and the proof of the refinement | `SupervisorLifecycle`, `TLAPS` |
| `Teardown` | `teardown`, `join_capture` and the life of `capture_output`, beside a process group | |
| `TeardownProofs` | its theorems | `Teardown`, `TLAPS` |
| `Server` | the accept loops of `server.rs` and `proxy.rs`, connection limit, shutdown | |
| `ServerProofs` | its theorems | `Server`, `TLAPS` |
| `Logs` | `log_writer.rs`, the writing half of `log_index.rs`, rotation and opening of logs at a (re)spawn | |
| `LogReader` | `tui/disk_log_reader.rs` and the reading half of `log_index.rs`, as operators on the files of `Logs` | `Logs` |
| `LogsProofs` | theorems on both | `LogReader`, `TLAPS` |
| `Session` | `cli/mod.rs::connect`, `spawn.rs`, `session.rs`, `session clean` over the two files | |
| `SessionProofs` | its theorems | `Session`, `TLAPS` |
| `Wait` | `Request::Wait` and `handle_follow_stream` of `server.rs`, `wait_engine.rs`, the request of `logs --follow`, the broadcast half of `write_line` | |
| `WaitProofs` | its theorems | `Wait`, `TLAPS` |
| `Startup` | `config.rs::startup_order` and `cli/up.rs` | |
| `StartupProofs` | its theorems | `Startup`, `TLAPS` |
| `MCStartup` | every graph of three processes | `Startup` |
| `Tui` | `tui/app.rs`, `tui/event_loop.rs` and the filter scans of `tui/disk_log_reader.rs` | |
| `TuiProofs` | its theorems | `Tui`, `TLAPS` |

A definition whose name is another one's with a suffix (`Joined_DropsWaiters`,
`Poll_Reaps`) is a mutant: the same code with a plausible mistake. No
specification uses them; putting one in place of its original must make TLC
report the property it is paired with in `PROJECT.json`.

### Supervisor

The actor handles one command to completion, so each handler is one action, with
everything it calls: `Stop` refreshes every record before it looks at its own,
`StopFinished` parks the record, respawns it if that is to follow, sets up the
watcher, answers the waiters, advances the stop-all and publishes. `procs[n]` is the
record of a name; `life`, `leader`, `why`, `inc`, `timer`, `then` and `waiters`
are `Life` and its fields:

    Running(inc)                     life = "Running", inc, leader = what the kernel knows
    Exited { code, why, inc }        life = "Exited", leader = code, why, inc
    Stopping { leader_exit, then, waiters }   life = "Stopping", leader, then, waiters

`restart_timer` of a natural exit is `timer`, `watch_config` and `watch_handle` are
`watch` and `handle`. In flight are `tasks` (teardowns), `finished` (their
StopFinished), `timers` (a sleeping timer or its AutoRestart) and `events`
(WatchRestart). Each such message comes from a task of its own after an arbitrary
delay, so although the mailbox is a FIFO they arrive in any order. `clients`
holds what each connection waits for, or the answer it got last; a client has one
request outstanding, as a connection task has. `LeaderExit` is the
operating system's move, and `TeardownDone` the outcome `Teardown` details: the
leader's code if it was known, otherwise any.

`wantDown` is a history variable (names whose latest request was a stop), read by
properties only. `Room` keeps the environment from causing more than `MaxGen`
spawns, counting those already caused, so the bound never stops a handler halfway.

Left out: ids (`p1`, ...) as another way to name a target; name validation; the
texts of answers; HasProcess, SessionName and Subscribe, which only read; glob
matching of watchers; the panic of a teardown (the code turns it into exit code
None, which is among the outcomes); a daemon started with SIGCHLD ignored, where
waitid answers ECHILD.

### Lifecycle

Five variables instead of the supervisor's twelve: each name's process group (none,
alive, ending), its generation, how many were issued, who is owed an answer to a stop
or restart, who to a stop-all. Its rules are what a client counts on: a group starts
only where none is left and with a generation of its own, nothing starts while a
stop-all is owed, an answer about a group comes only after it is gone, and only
the end of a stop-all forgets. The mapping of `SupervisorLifecycle` reads a group as
*alive* while a record owns its incarnation and as *ending* while a teardown task has it;
that a record is Stopping, parked or waiting for a timer, and every message in flight, is
invisible. `Start`, `Replace` and `Settle` are therefore steps the code takes in several
handlers: a respawn is a `Settle`, because the code answers and starts in one handler.

### Teardown

One incarnation's end, step by step: SIGTERM to the group, the grace loop that
peeks without reaping, SIGKILL to the group, the bounded wait that reaps, and the
bounded join of the two capture tasks, then cancel, then abort. A deadline may
pass at any moment of its wait. Beside it the group does what groups do:
`Fork`, `Leave` (setsid), `Exit`, with any subset deaf to SIGTERM and any subset
holding the pipes. `doomed` are those a fatal signal was delivered to; what the
kernel does with it is `Exit`, which nothing hurries. A capture task that ends on a read error
ends like one at the end of its pipe (`Eof`): nothing depends on which it was. `Pinned` is the kernel's rule
for reusing a process-group id.

### Server

`Notify` is external and modelled by its contract: a queue of pending `notified()`
futures, one permit, and a woken future that passes its wake-up on when it is
dropped. Each turn of an accept loop drops its future and makes a new one, which
goes to the end of the queue: `Again`. A Shutdown stops all processes first
(`AllStopped`), writes its answer, and then calls `notify_one`.

### Logs and LogReader

A file is the sequence of its lines, each with its length, its true offset, the
moment it was written and, as history, the number its record got; an index file is the sequence of its records on disk, and the
rest of them sit in the writer's buffer. `WriteLine` is all of `write_line`: flush,
rename cascade, creation of both files (either may fail, `Failing`), the
record, the line, the periodic flush. A writer's index handle follows its file
through renames (`Moved`), which matters once a creation has failed. Its awaits are not steps of
their own: the files are the task's alone, and the other stream shares only the counter, which
is taken at once. `Spawn` is
the start of an incarnation, with the rotation of an automatic or watch restart or
without (a manual one, or a Run); of the four files it opens it makes those before the first
one that fails (`Makes`), and then starts nothing; `Killed` loses the buffers and the record. The
reader's operations change nothing and are operators, compared in every
reachable state with definitions that sort the lines by time. A rotation is
one step, single write errors (which the code ignores), the header and
byte format of the index and the reader's cache are left out; its scans for a
filter are in `Tui`.

### Session

Every file operation of every process is an action: CLI processes check, unlink,
fork, poll, connect; daemons create the pid file, write it, bind, serve, remove the socket,
remove the pid file; `session clean` removes in its own order. Commands overlap
freely, a CLI process may be interrupted and a daemon killed anywhere. `run_daemon` passes over
errors of creating and of writing the pid file, so both may fail and the daemon goes on
to serve (`unrecorded`); a pid file is empty between the two (`Blank`), and one that is
removed stays with whoever holds it open (`open`). `PidReused` makes the pid of a dead daemon answer:
it is a zombie of the CLI process that started it, or names an unrelated
process; `is_daemon_alive` then says yes although nobody listens, and commands end with a
connection error instead of starting a daemon.

`blind` is a history variable of two looks at the pid file that could not tell what a
command needed to know: one taken while another command was acting on its own look, or while a
daemon was yet to write its pid (`"overlap"`), and one taken while a daemon lived
that had failed to write it (`"unrecorded"`). No action reads it.

### Wait

A line is written and flushed to the file (`PrintLine`) and then sent (`Send`); any
step of a reader may come between. The channel is the sequence of all lines sent, of the
target and of other processes and of both streams;
a reader is a position in it, and one more than `Capacity` behind is moved
on (`Lagged`). A Wait is `Ask` (has_process), `Subscribe`, `History` (the current
stdout file, rotated ones are not read) and `Begin` (an invalid expression, an exit already
known), then `Recv`, `Poll` and `Timeout` race. Beside it the process prints, exits, is
stopped, cleared by a stop-all or started again, with its file rotated or truncated
and a capture task possibly aborted between the write and the send. Two history
variables: `due` holds the matching lines a Wait is to find, those in the log when it
subscribed and those printed since, and `gap` how it lost one: a lag, an abort, or a
file that was replaced before it was read. The sender never closes while the daemon runs,
so `RecvError::Closed` is left out. A pattern is what it matches (`hit`); an id matches no
line and no file, as in the code.

A follow is every combination of a target (none, a name, an id), `--all` and `--stderr`;
`Filter` is the request the CLI makes of them and `Passes` what the daemon lets through.
`FollowExact` compares it with what the arguments mean (`Wanted`). The tail that the
CLI prints before it subscribes is left out.

### Startup

Each turn of the loop of `startup_order` is an action, so that what holds between turns can
be stated; a dependency listed twice counts twice in the degree and is
decremented twice. `up` then takes the groups one after another: all Runs of a group are in
flight together and looked at when the last answer is in, then all Waits of those with a
ready pattern. A Run may fail, a Wait may match, time out (a warning), fail (an
error ends `up`) or be lost (passed over).

### Tui

Each line exists up to three times: in the file (`disk` counted through the index,
`late` not yet), on the stream (`inbox`), and in the ring buffer (`app.hot`). The
window over disk and ring buffer, the scroll offsets with their saturating
subtractions, the filtered index and its incremental update are operators under
the names they have in `app.rs`; views and scans list what they find in order (`InOrder`,
`ByNumber`). Rotation and truncation remove lines under the reader; the stream loses
lines, breaks, refuses, or ends without telling anyone (a request that could not be
written). Users are sets of keys, and a stream breaks only in behaviours without a user:
the two meet only in lines that are lost, which every behaviour has. Left out:
drawing, the requests of the stop and restart keys (the supervisor's), the
characters of the filter, and the 500 ms cache of the reader. `Start` gives a reader to any process
with log files, empty ones too, and preloads the tail of the current file of each stream; how
much of the log is in it is any number that the unflushed lines allow, as the other
actions do not keep track of it.

## 3. What the runs show

| run | instance | result |
|---|---|---|
| `supervisor_core` | two names, two clients, policy always/1, watchers, failing watchers, stop-all, 3 spawns; symmetric in names and clients (263,168 states) | pass |
| `supervisor_live` | two names, two clients, policies on-failure/unlimited and always/0, failing spawns, proxy with one automatic port, 2 spawns, fairness (48,504 states) | pass |
| `supervisor_stale_route` | two processes, no policy, fairness | `DeadUnrouted` violated |
| `teardown` | a leader and two more processes, fairness (20,176 states) | pass |
| `server` | three connections, limit two, up to three Shutdowns, fairness (2,712 states) | pass |
| `server_shutdown` | two connections, one Shutdown, fairness | `ShutdownExits` violated |
| `session` | two CLI processes whose commands overlap, two daemons, pids reused, fairness (261,052 states) | pass |
| `session_overlap` | two CLI processes, two daemons | `SingleDaemon` violated |
| `logs` | files of two bytes, two rotated, lines of one and three bytes, flush every second line, four lines, three incarnations (65,386 states) | pass |
| `wait` | a channel of one line, files of one line, two lines, five kinds of Wait, the twelve combinations of arguments of a follow, fairness (187,289 states) | pass |
| `startup` | every graph of three processes with up to two dependencies each, repeated and unknown ones too (345,759 states; deadlock is checked) | pass |
| `tui` | three lines, a ring buffer of one, two rows, one reconnection, three kinds of user, fairness (905,553 states) | pass |

Properties, by the question they answer:

* Is anything lost, doubled or confused? `LifeShape` (who owns the unreaped leader),
  `OneTeardown` (one teardown per Stopping record; both `unreachable!()` stay
  unreachable), `WaitersHeld` (every waiting client has exactly one holder that
  will answer it), `StopAllCovers` (the clear at the end of a stop-all drops
  nothing alive), `TimerArmed`. `Implements` says it once more as a whole: the
  supervisor is a `Lifecycle`.
* Is what was asked for what happens? `StopSticks`, `StopAllClean`,
  `RestartHonest`, `WithinBudget`, `RoutesComplete`.
* Does it happen at all? `RequestsAnswered`, `CrashHandled`, `TeardownEnds`,
  `ExitsWithoutProxy`, `CommandEnds`, `WaitEnds`, `StreamBack`.
* Is the operating system treated right? `SafeSignals`, `GroupDoomed`,
  `CaptureOver`, `KnownExitKept`.
* Can what was printed be read? `IndexMaps` (records are line starts, rotated files
  fully indexed), `OldestLost`, `WindowExact`, `MergedInOrder`.
* Is what is printed noticed? `NoGap` (a matching line that was in the log at the subscription,
  or was printed since, is still ahead of a Wait that looks, or was lost in one of three
  named ways), `FoundIfLogged`, `FollowExact`.
* Is what is drawn what was printed? `ViewExact` (what the window leaves out is bounded by the
  lines not yet counted, and none of it is in the ring buffer), `FilterExact`.
* Do things start in order? `OrderCorrect` (a partition into groups, each
  dependency earlier, nobody later than necessary), `CycleExact` (exactly
  the graphs in which a process comes before itself are refused), `DepsFirst` (transitively, through names that `--only` leaves out).
* Is the front sound? `ActiveExact`, `WakeupKept`, `SingleUnlessBlind` and
  `ReachableUnlessBlind` (a second daemon, or one the files do not lead to, has one of the two
  causes in `blind` and no other).

`StopSticks` passes in `supervisor_core`, whose spawns succeed; with failing ones beside
watchers there is a way past a stop (below).

### Disagreements between the code and what is written about it

1. *A route to a dead process* (`supervisor_stale_route`). `Stop` and `Restart` refresh all
   records and discard whether an exit was seen, so an exit first seen there is not published,
   and no later tick sees it again. It is repaired when that Stop or Restart starts a teardown
   or one is in flight, because the end of a teardown publishes; if not, the route stays
   until something else does. The comment in `IsProcessExited` explains why it must be
   published.
2. *A shutdown that ends the proxy* (`server_shutdown`). Both accept loops wait on one
   `Notify`; accepting the connection that carries the Shutdown puts the server's future
   behind the proxy's, so `notify_one` ends the proxy's loop and the daemon stays
   (a second Shutdown ends it). `daemon/mod.rs`: it "exits when a `Shutdown`
   request is received".
3. *Two daemons* (`session_overlap`). Two commands that both find no pid file both start a
   daemon, and the second one's `remove_file` (`spawn.rs:20`) unlinks the socket of the first,
   whose listener lives on. `daemon/mod.rs:3`: "Each session runs a single daemon process".

Four more were met where a property of a passing run names an exception or a bound. They are
not runs; the formula that shows each is given.

4. *A stop that does not stick.* A respawn that fails leaves `SpawnFailed` and keeps
   the old generation. `Stop` on such a record (`Exited { inc: None }`, `actor.rs:416`) answers
   "stopped" and changes nothing a WatchRestart already in flight looks at, so
   the process starts again: `StopSticks` is violated by one process with
   `Env = {"watch", "spawnfail"}`. The v0.6 design says: "The process is fully stopped —
   no autorestart, no watch restarts".
5. *A line that a Wait misses.* The line is sent, the Wait subscribes, the file is rotated, the
   Wait reads the new one: the line is in neither. `NoGap` is violated if it does not except
   `"rotated"`. The comment at `server.rs:263`: "Subscribe BEFORE checking historical logs to
   avoid missing lines".
6. *An id that names nothing.* Lines carry names, and the target of a follow or a Wait is
   compared with them as it was given: `Exact` is violated by a follow of an id. The help text
   (`main.rs:129`, `153`): "Process name or ID".
7. *A hole at the seam.* The window takes the ring buffer to start at the number of lines
   on disk less its length (`app.rs:351`), but up to 63 lines are written and not yet counted by
   the index; as many lines just before the ring buffer are then not drawn. Lines 1 and 2
   flushed, 3 not, a buffer of one: the window of two shows 1 and 3, and two lines drawn one
   below the other are not next to each other in the log. `app.rs:350` says: "lines before this come
   from disk, at or after from hot buffer", and `CHANGELOG.md:184`: "the TUI can now scroll through
   the entire output history of a process".

### Further limits

* `logs` with an index that cannot be created after a rotation (`Failing = {"idx"}`):
  the writer keeps the old index and the old count of bytes, and a following short line is
  recorded in the rotated index (`IndexMaps`). With a log that cannot be created
  (`{"log"}`) a number is missing and older files are hidden from the reader (`WindowExact`).
* The sequence counter starts at 0 in every incarnation and the merged view sorts all
  retained ones by it, so after an automatic restart old and new lines alternate.
  `MergedInOrder` speaks of one incarnation at a time.
* `FoundIfLogged` and `NoGap` except three losses by name. One the code accepts: a Wait that lags
  behind a burst of output misses what it waits for and runs into its timeout. The first
  look at the log treats an invalid expression as plain text.
* `ViewExact` assumes that the stream lost nothing. After a loss the seam may also
  repeat or skip lines for good, where unflushed ones come back with the next flush.
* `FilterExact` excepts deletions and flushes that put lines between counted ones of the merged
  view (`shrunk`); a filter does not show unflushed lines at all.
* `StreamBack` counts a stream that ended without telling anyone as an outcome: a request
  that cannot be written ends the reading task silently (`event_loop.rs:263-268`), and
  the view stays as it was.
* `DepsFirst` is about what is started: a ready pattern that times out is a warning, so a
  dependent may start before its dependency is ready, and a failing Run leaves the
  rest of its group running.

### Bounds, and why they are enough

`MaxGen = 3` with two names lets one name be spawned, respawned and respawned
again, or two run while one is respawned, with a stale timer, event or
StopFinished of an earlier generation still about; two clients are needed for a
join (stop on restart, restart on stop, stop-all on either), and a third one only
repeats a waiter. One event slot gives a name one undelivered WatchRestart per
generation; more are the same message again. Policy always/1 reaches the budget's
edge with one restart; always/0 and on-failure/unlimited are the other cases of the
test. One automatic port makes the range wrap at once and run out at
the second process. In `teardown` one of two members can stay while another leaves,
and either can be forked late. In `server` the limit is reached with one
connection to spare. In `logs` two lines fill a file and a long one never
fits, so files are rotated full, half full with a record unflushed, and empty; four lines push
one off the end; three incarnations allow one killed, one after it and its
respawn. In `session` two daemons allow one that is
killed or leaves and one that starts meanwhile or after it; a command that would start more is
held back before it looks (`Spare`). In `wait` a channel of one line lags with the second, and a file
of one rotates with it; one line can be on disk and not sent while the reader subscribes,
and of two lines a stream may show both, one or none. The theorems on both have no such bounds. In `startup` three names give chains, forks,
joins, loops of one, two and three, and two lists per name the repeated dependency. In
`tui` three lines with a ring buffer of one and two rows put the seam inside the window
and evict across streams. Without the bounds the sets in flight are
still finite, but generations grow without end.

### Fairness

`Supervisor`: the interval ticks (`Tick`); a sleeping timer fires and its message is
delivered (`FireTimer`); a teardown ends (`EndTeardown`: its waits are all
bounded, which is what `TeardownEnds` shows); the mailbox is a FIFO that the actor
keeps emptying (`FinishTeardown`). Clients, leaders and files owe nothing. `Teardown`:
the runtime polls the task and deadlines pass; neither the group nor the capture
tasks owe anything. `Server`: tasks that can run are polled, and `select!` picks
among ready branches at random, so a loop does not ignore its wake-up for
ever; that is the weakest of these assumptions, true with probability one. `Session`: a process that is not
killed goes on; nobody has to issue a command. `Wait`: capture tasks send what they wrote,
connection tasks that can go on are polled, the exit poll ticks; the timeout is fair
only where `WaitEnds` says so in its hypothesis. `Tui`: the event loop takes events, the
delay of a reconnection ends, a connection attempt has an outcome. `Startup` needs none: its
run checks that `up` cannot get stuck. Only weak fairness is used.

## 4. What is proved

For any finite set of names and clients, any policies, ports, environment and
bounds that satisfy the named assumptions of `Supervisor`:

| theorem | states |
|---|---|
| `TypeCorrect` | `Spec => []TypeOK` |
| `LifeShapeHolds` | `Spec => []LifeShape` |
| `OneTeardownHolds` | `Spec => []OneTeardown` |
| `StopAllCoversHolds` | `Spec => []StopAllCovers` |
| `StopAllCleanHolds` | `Spec => StopAllClean`, an action property |
| `RoutesCompleteHolds` | `Spec => []RoutesComplete` |
| `TimerArmedHolds` | `Spec => []TimerArmed` |
| `WithinBudgetHolds` | `Spec => []WithinBudget` |
| `WaitersHeldHolds` | `Spec => []WaitersHeld` |
| `RestartHonestHolds` | `Spec => RestartHonest`, an action property |
| `StopSticksHolds` | `Sticky /\ Spec => StopSticks`, an action property |

None of these is inductive alone. `Inv` is `TypeOK /\ LifeShape /\ OneTeardown /\
StopAllCovers`. `OneTeardown` needs `LifeShape`, because a handler may start a teardown only
on a record that is not Stopping, and that is known from `inc`; `StopAllCovers` needs
`OneTeardown`, because the batch shrinks only by the StopFinished of a record it
waits for; and `LifeShape` at the end of a teardown needs that the record of a
StopFinished is Stopping, which is `OneTeardown` again. First come lemmas on the
record operators (`Refreshed`, `TornDown`, `Respawned`, `NewRecord` keep type and shape), then
one lemma per action, then `StepInv`. `StopAllClean` follows from the
invariant before the step: only the last StopFinished, or a stop-all with nothing to
stop, answers "allstopped", and then `remaining` and `OneTeardown` leave no task
and no message.

The other six look at what a step does to one record. A handler refreshes every record and
then does something to its own, so the proofs first classify steps once (`StepMoves`):
in every step each record makes one of seven moves (`Moves`: it is at most seen to have
exited, its timer is armed, it is torn down, a request joins its teardown, it lands parked
or respawned, it enters, it is forgotten), and the step publishes the new map unless
every record makes one of the first four. From that:

* `RoutesComplete` is inductive with `Inv`: only the last three moves start a process or
  forget a port, and a step with one of them publishes.
* `TimerArmed` and `WithinBudget` are inductive together (`TimerInv`), with two facts on
  generations: every generation in a record or a timer was issued (`GensGiven`), and a
  record with a timer in flight has a count below its policy's maximum (`ArmedBelow`). The
  first keeps an old timer from meeting a new record of its own generation; the second is
  what the code relies on when it tests the maximum on arming and counts on firing.
* `WaitersHeld` is inductive with `Inv` (`WaiterInv`). A step does one of four things to
  those who wait: nothing, one more at a record, one more at the batch, or all of a
  record's (and, with the last record, of the batch) are answered.
* `RestartHonest` follows from both: the waiters of a record are answered only by its
  StopFinished, and a respawn has a generation above every issued one.
* `StopSticks` needs that a record whose name is in `wantDown` is `Down`: gone, on its way to
  being parked, or without an incarnation. It is proved for every environment but one
  with both watchers and failing spawns (`Sticky == ~({"watch", "spawnfail"} \subseteq
  Env)`). With both it is violated (section 3); the theorem says that
  either alone cannot.

For any leader and any set of further processes:

| theorem | states |
|---|---|
| `SafeSignalsHold` | `Spec => []SafeSignals` |
| `GroupDoomedHolds` | `Spec => []GroupDoomed` |
| `CaptureOverHolds` | `Spec => []CaptureOver` |
| `KnownExitKeptHolds` | `Spec => []KnownExitKept` |

The invariant adds three facts: the leader is unreaped until the reaping
step (`Unreaped`), it has ended exactly when its status is known and then is not alive
(`EndedOnce`), and `leaderExit` is only ever the real status (`SeenIsReal`).
`GroupDoomed` is inductive because only a process that is not doomed forks or leaves.

For any names, clients and policies, again:

| theorem | states |
|---|---|
| `SupervisorImplements` (`SupervisorProofs`) | `Spec => Implements`, the refinement |

It starts from `Inv` above. `InitImplements` maps initial states; then there is one lemma per
action of `Supervisor`: most leave the mapped state alone (`UnseenStep`), a spawn is a
`Start`, a stop or restart an `Ask`, an automatic or watch restart a `Replace`, the end of a
teardown task `Gone`, its message `Settle`, a stop-all `AskAll`. `OneTeardown` is what
makes the mapping change by one name at a time: the task that ends is the
only one of its name, so `ending` becomes `none`; and `StopAllCovers` gives the
guard of `Forgotten`, that every group is gone.

For any finite set of names and any `depends_on` lists (`StartupProofs`):

| theorem | states |
|---|---|
| `OrderCorrectHolds` | `Spec => []OrderCorrect` |
| `DepsFirstHolds` | `Spec => []DepsFirst` |
| `CycleExactHolds` | `Spec => []CycleExact` |

`OrderCorrect` becomes inductive with two facts about the algorithm's counters: a degree
is the number of list positions whose name is in no group yet (`Degrees`), so a name of
degree 0 has all its dependencies in groups; and a name of degree 0 depends on a name of
the last group (`Tight`), so no name is placed later than it could be. For `DepsFirst`,
`UpInv` adds where `up` stands: only names of groups up to `current` have begun
(`Begun`), everything chosen in an earlier group is settled (`Earlier`), and in the
current group every Run is sent, and successful before a Wait is (`Here`). `DepsFirst` speaks of all sets closed under
dependency; the proof takes the union of the earlier groups as that set. `CycleExact` is two
claims. What is left over when no degree is 0 contains a cycle: each such name depends on
another of them, so otherwise a name with the fewest names before it would have one with
fewer. And no name in a group comes before itself: the names placed before it are closed under
dependency. Both are arguments on the least member of a set of naturals (`LeastNatural`), which
takes the place of an induction.

For any capacity of the channel, size of the files and bound on lines (`WaitProofs`):

| theorem | states |
|---|---|
| `TypeCorrect` | `Spec => []TypeOK` |
| `NoGapHolds` | `Spec => []NoGap` |
| `FollowExactHolds` | `Spec => []FollowExact` |

`NoGap` speaks of a wait that is in its loop; `Covered` carries it there from the subscription
on: until the wait has read the past, an owed line is in the file or ahead on the channel, and from
then on it is ahead. Replacing the file keeps that unless it holds an owed line that is not
ahead, which is what `Hidden` notes in `gap` (`NothingHidden`). The step that matters is
`History`: a matching line in the file would have ended the wait. `PassesIs` and `LetsIsWanted`
show that the daemon's filter, applied to the request the CLI builds, is what the arguments
ask for. `FollowInv` adds that a behaviour has one reader, that what
a stream sent lies between its first and its next line, and that one which goes on
has sent fewer lines than it may (`Bounded`).

For any finite set of connections and any limit (`ServerProofs`):

| theorem | states |
|---|---|
| `ActiveExactHolds` | `Spec => []ActiveExact` |
| `WakeupKeptHolds` | `Spec => []WakeupKept` |

`ActiveExact` is a count, so the proof follows the set of served connections through each
action and adds or removes one element (`CountInv`). `WakeupKept` is inductive once it is
shown that each operation of `Notify` keeps a wake-up pending: a future that is dropped
woken passes it to the next one in the queue or stores it as the permit.

For any CLI processes, whose commands overlap freely, and any set of daemons (`SessionProofs`):

| theorem | states |
|---|---|
| `SessionTypeCorrect` | `Spec => []TypeOK` |
| `SingleUnlessBlindHolds` | `Spec => []SingleUnlessBlind` |
| `ReachableUnlessBlindHolds` | `Spec => []ReachableUnlessBlind` |

`SessionInv` says, as long as `blind` is empty, who may be about to touch the files: at most one
command acts on what it saw, it does so only while no daemon is active, and there is at most
one daemon (`Alone`); past its start a daemon is the one the pid file names or is
`unrecorded`, and the socket of one that serves is its own (`Named`). `DecideAlone` is the step
that matters: a command that finds nobody alive and is not blind has no command beside it and no
daemon, because one past its start would have its pid in the file. So nobody is left who
could unlink the socket of the one that serves. Without the hypothesis `SingleDaemon` is
false (`session_overlap`).

For any sizes, flush interval, number of rotated files, line lengths and bounds
(`LogsProofs`):

| theorem | states |
|---|---|
| `IndexMapsHolds` | `IndexCreated /\ Spec => [](TypeOK /\ IndexMaps)` |
| `OldestLostHolds` | `Unfailing /\ Spec => OldestLost`, an action property |
| `WindowExactHolds` | `Unfailing /\ Spec => []WindowExact` |
| `MergedInOrderHolds` | `Unfailing /\ Spec => []MergedInOrder` |

`LogInv` pairs each log with its index: they come and go together and agree as far as the
index reaches, to the end for a rotated one. A live writer either has its files and holds
exactly what the index misses (`Writing`), or could not create its log again and holds
nothing (`Stranded`). When the daemon knows the process and nobody writes, the current
index is complete: a respawn rotates only then, and what a killed daemon left incomplete
is truncated by the Run that follows. `IndexCreated` says that an index can be created again
(`"idx" \notin Failing`), `Unfailing` that a log can be too; section 3 has what happens
otherwise. `OrderInv` adds that numbers are used without gaps and that a higher number has
older lines, so a cascade moves each file up by one and drops the last. The assumption
`MissingAssumption` only says that no file is not a file.

The two theorems on the reader rest on `ReadInv`, which adds to `OrderInv` that lines are stamped
one after the other (`Stamped`: no two share a moment, and in one incarnation the numbers
go up with it) and that in a file they lie in that order at distinct offsets (`AllLaid`), so the
seek of `LinesFrom` finds one line. The rest is about the operators in one state. `Segments` lists
the numbers in use, oldest first (`SegmentsIs`); the retained lines put one behind the other
are then sorted by time and complete, and `Indexed`, which sorts them by counting the
earlier ones, is that sequence (`LayoutIs`, `RetainedIs`, `IndexedIs`). `PartIs` says which stretch of it
one segment contributes, `WindowStep` adds one segment to a window, and `ReadLinesIs` goes through all
of them. For the merged view, `EntriesIs` pairs each entry with a line, `EntriesCount` counts
them, `BeforeOrder` shows `Before` to be a strict total order, so that `MergedIndex` has each entry once
(`MergedIs`), and `BeforeInTime` that this order is the order of writing within one incarnation.
Induction along the segments is done without the library's induction theorems: the
numbers for which a fact fails are a set, which has a least member (`LeastNumber`, `UpTo`), and
`Recursion` gives the sums and concatenations their defining equations.

For any sizes of the ring buffer, the window and the preload, any number of lines and any
users (`TuiProofs`):

| theorem | states |
|---|---|
| `ViewExactHolds` | `Spec => []ViewExact` |
| `FilterExactHolds` | `Spec => []FilterExact` |

`ViewExact` needs the types (`Types`) and `Numbered` (the numbers of a file's
lines go up and no number is in both files). The window is cut at the boundary and put together
again: `DiskPlaced` and `Places` say where in the log the lines of the disk and of the ring
buffer are, `SeamThins` that the lines of the disk before the boundary followed by the
ring buffer are the log with lines left out, in order, at most as many as are uncounted, and
`WindowIsThinned` that what the code's saturating subtractions draw is a window of that.
`FilterExact` is inductive with two more facts. `Numbered`: the numbers of a file's
lines go up and no number is in both files, so lines that a flush adds to the merged view
come behind what is there, unless `shrunk` says otherwise (`FlushAfter`, `FlushGrows`). `IndexInv`:
an index belongs to a filter in use, a reader and the current mode, and holds what `Scanned`
says. `InOrder` lists a finite set of numbers; that the list is
ascending and complete rests on the number of smaller members of each (`Rank`).

Only model-checked: everything under fairness (liveness and ENABLED are beyond the
prover). Every invariant of a passing run is stated by a theorem. `ServerProofs` types what
its invariants need (`CountTypes`); the full `TypeOK` of `Server`, whose queue is filtered with
`SelectSeq`, is not proved and is documentation of the variables. RECURSIVE operators are
beyond the prover too; the modules use none.

## 5. Not modelled, and the plan

Not modelled for good: drawing and terminal set-up, argument parsing, printing,
serialisation (serde), HTTP forwarding (hyper), glob and regular-expression
matching, and path building, which keep no state that outlives a call.

Not modelled yet: ids (`p1`, ...) as targets of stop and restart; the ports of
exited processes given to others before they are respawned on them; the segment cache of
the disk reader; a rotation cut short by a kill; `logs --follow --tail`, which replays a
file and then subscribes; loading the configuration file; routing by host name.

Next, in this order:

1. `Server` and `Supervisor` together: a Run between the end of a Shutdown's stop-all and
   the exit of the daemon.
2. `LogReader` with cached segments and a rotation cut short.
3. `Teardown` shown to implement the one step `TeardownDone` of `Supervisor`.

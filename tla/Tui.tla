-------------------------------- MODULE Tui ---------------------------------
(***************************************************************************)
(* The terminal interface: the state of src/src/tui/app.rs and the event   *)
(* loop that feeds it (src/src/tui/event_loop.rs).                         *)
(*                                                                         *)
(* Output reaches it twice.  Every line goes to the log on disk, where a   *)
(* reader counts it once the index is flushed (modules Logs, LogReader);   *)
(* and it is sent over a stream that may lag or break, into a ring buffer  *)
(* (hot).  What is drawn is a window over the two put together, or, with a *)
(* filter, over an index of matching lines on disk.                        *)
(*                                                                         *)
(* One process, "p", prints; "q" is there to be selected instead.  A line  *)
(* is its number, its stream and whether the filter's text occurs in it.   *)
(***************************************************************************)
EXTENDS Integers, Sequences, SequencesExt, FiniteSetsExt

CONSTANTS
    MaxLines,       \* bound on lines printed
    MaxBuffer,      \* MAX_BUFFER_LINES
    Preload,        \* lines per stream that init_disk_readers loads
    Height,         \* rows of the output pane
    MaxAttempts,    \* MAX_RECONNECT_ATTEMPTS
    Kinds,          \* the kinds of lines printed
    Users           \* the keys a user may press, one set for each user

AllKeys == {"select", "stream", "pause", "scroll", "top", "filter", "quit"}

(* Nobody, one who moves about, and one who filters.                       *)
ThreeUsers == {{}, AllKeys \ {"filter"}, {"stream", "scroll", "filter"}}

ASSUME SizesAssumption ==
    /\ MaxLines \in Nat /\ Preload \in Nat /\ MaxAttempts \in Nat
    /\ MaxBuffer \in Nat \ {0} /\ Height \in Nat \ {0}
ASSUME UsersAssumption == Users \subseteq SUBSET AllKeys

Streams == {"out", "err"}
AllKinds == Streams \X BOOLEAN
TwoKinds == {<<"out", TRUE>>, <<"err", FALSE>>}
ASSUME KindsAssumption == Kinds \subseteq AllKinds

Modes == Streams \cup {"both"}

VARIABLES
    disk,       \* lines of each stream a disk reader counts
    late,       \* lines in the files whose index records are not flushed
    printed,    \* how many lines there were
    stream,     \* the output stream: its reader task or what became of it
    inbox,      \* OutputLine events waiting
    attempt,    \* ReconnectState: attempts so far, or Failed
    app,        \* the App
    index,      \* filtered_indices["p"]
    shrunk,     \* history: numbers of lines on disk changed under the index
    keys        \* the keys pressed in this behaviour, none without a user

vars == <<disk, late, printed, stream, inbox, attempt, app, index, shrunk, keys>>
daemon == <<disk, late, printed, keys>>
link == <<stream, inbox, attempt>>

Failed == -1
NoIndex == [mode |-> "none", lines |-> <<>>, scanned |-> 0]

Blank ==                                        \* App::new
    [procs |-> <<>>, selected |-> 0, hot |-> <<>>, reader |-> FALSE,
     mode |-> "out", paused |-> FALSE, offset |-> 0,
     typing |-> FALSE, filter |-> FALSE, running |-> TRUE]

Init ==
    /\ disk = [s \in Streams |-> <<>>] /\ late = [s \in Streams |-> <<>>]
    /\ printed = 0
    /\ stream = "off" /\ inbox = <<>> /\ attempt = 0
    /\ app = Blank
    /\ index = NoIndex /\ shrunk = FALSE
    /\ keys \in Users

-----------------------------------------------------------------------------
(* What the app sees                                                       *)

InMode(l, mode) == mode = "both" \/ l.src = mode

(* The members of a finite set of numbers, and lines by their numbers.     *)
InOrder(S) ==
    [i \in 1..Cardinality(S) |-> CHOOSE x \in S : Cardinality({y \in S : y < x}) = i - 1]
ByNumber(S) ==
    LET at == InOrder({l.n : l \in S})
    IN  [i \in DOMAIN at |-> CHOOSE l \in S : l.n = at[i]]

(* The disk reader's lines in a stream mode; merged ones by their number.  *)
DiskLines(mode) ==
    IF ~app.reader THEN <<>>
    ELSE IF mode = "both" THEN ByNumber(ToSet(disk["out"]) \cup ToSet(disk["err"]))
    ELSE disk[mode]

HotLines(mode) ==
    LET at == InOrder({i \in DOMAIN app.hot : InMode(app.hot[i], mode)})
    IN  [j \in DOMAIN at |-> app.hot[at[j]]]

Sub(a, b) == IF a > b THEN a - b ELSE 0        \* saturating_sub

total_line_count == Max({Len(HotLines(app.mode)), Len(DiskLines(app.mode))})
line_count_for == IF app.filter THEN Len(index.lines) ELSE total_line_count

WindowEnd(total) == Sub(total, IF app.paused THEN app.offset ELSE 0)

(* visible_lines: before the boundary from disk, from it on from hot.  A   *)
(* window on one side only leaves the other part empty.                    *)
disk_boundary_AllHot == Sub(Len(DiskLines(app.mode)), Len(app.hot))
disk_boundary == Sub(Len(DiskLines(app.mode)), Len(HotLines(app.mode)))

visible_lines ==
    LET end == WindowEnd(total_line_count)
        start == Sub(end, Height)
        b == disk_boundary
        hot == HotLines(app.mode)
    IN  SubSeq(DiskLines(app.mode), start + 1, Min({end, b})) \o
        SubSeq(hot, Sub(start, b) + 1, Min({Sub(end, b), Len(hot)}))

(* filtered_visible_lines, as positions on disk.                           *)
filtered_window ==
    LET end == WindowEnd(Len(index.lines))
    IN  SubSeq(index.lines, Sub(end, Height) + 1, end)

(* scan_matching_lines_from: positions, from 1, of matching lines.         *)
scan_matching_lines_from(mode, from) ==
    LET lines == DiskLines(mode)
    IN  InOrder({i \in 1..Len(lines) : i > from /\ lines[i].hit})

build_filtered_index(mode) ==
    IF app.reader
    THEN [mode |-> mode, lines |-> scan_matching_lines_from(mode, 0),
          scanned |-> Len(DiskLines(mode))]
    ELSE index

(* update_filtered_index, on what arrived on disk since the last scan.     *)
update_filtered_index_FromStart ==
    LET total == Len(DiskLines(index.mode)) IN
    IF index = NoIndex \/ total <= index.scanned THEN index
    ELSE [index EXCEPT !.lines = @ \o scan_matching_lines_from(index.mode, 0),
                       !.scanned = total]
update_filtered_index ==
    LET total == Len(DiskLines(index.mode)) IN
    IF index = NoIndex \/ total <= index.scanned THEN index
    ELSE [index EXCEPT
            !.lines = @ \o scan_matching_lines_from(index.mode, index.scanned),
            !.scanned = total]

(* OutputBuffer::push evicts the oldest.                                   *)
push(hot, line) == Append(IF Len(hot) = MaxBuffer THEN Tail(hot) ELSE hot, line)

-----------------------------------------------------------------------------
(* The daemon's side                                                       *)

(* A line is written and sent; a broken or lagging stream loses it.        *)
PrintLine(kind, lost) ==
    LET s == kind[1]
        line == [n |-> printed + 1, src |-> s, hit |-> kind[2]] IN
    /\ printed < MaxLines
    /\ printed' = printed + 1
    /\ late' = [late EXCEPT ![s] = Append(@, line)]
    /\ stream # "reading" => lost
    /\ inbox' = IF lost THEN inbox ELSE Append(inbox, line)
    /\ UNCHANGED <<disk, stream, attempt, app, index, shrunk, keys>>

(* In the merged view a flush may put lines before lines already counted.  *)
Flush(s) ==
    /\ late[s] # <<>>
    /\ disk' = [disk EXCEPT ![s] = @ \o late[s]]
    /\ late' = [late EXCEPT ![s] = <<>>]
    /\ shrunk' = (shrunk \/ (index.mode = "both" /\ \E t \in Streams \ {s} :
                    disk[t] # <<>> /\ Last(disk[t]).n > Head(late[s]).n))
    /\ UNCHANGED <<printed, link, app, index, keys>>

(* A rotation flushes, and deletes the oldest file: here, one line.        *)
Rotate(s) ==
    /\ disk[s] \o late[s] # <<>>
    /\ disk' = [disk EXCEPT ![s] = Tail(@ \o late[s])]
    /\ late' = [late EXCEPT ![s] = <<>>]
    /\ shrunk' = TRUE
    /\ UNCHANGED <<printed, link, app, index, keys>>

(* A manual restart truncates the logs.                                    *)
Truncate ==
    /\ \E s \in Streams : disk[s] \o late[s] # <<>>
    /\ disk' = [s \in Streams |-> <<>>] /\ late' = [s \in Streams |-> <<>>]
    /\ shrunk' = TRUE
    /\ UNCHANGED <<printed, link, app, index, keys>>

-----------------------------------------------------------------------------
(* Start and stream.  The keys and the state of the stream meet only in    *)
(* the lines that are lost, and a stream may lose them without breaking;   *)
(* so it breaks, or is refused, only in behaviours without a user.         *)

(* init_disk_readers: a process with log files, whether anything is in     *)
(* them or not, gets a reader; the tail of each current file is pushed, in *)
(* the order of the directory, which leaves the newest lines of the two;   *)
(* then the background tasks are spawned.  How much of a log is in its     *)
(* current file (cur) the other actions do not say, but what is not        *)
(* flushed is all there.                                                   *)
Newest(lines, n) == SubSeq(lines, Sub(Len(lines), n) + 1, Len(lines))
Tail_Of(s, cur) == Newest(disk[s] \o late[s], Min({Preload, cur}))

Start(first, exists, cur) ==
    LET second == CHOOSE s \in Streams : s # first IN
    /\ stream = "off"
    /\ printed > 0 => exists
    /\ \A s \in Streams : cur[s] \in Len(late[s])..Len(disk[s] \o late[s])
    /\ stream' = "connecting"
    /\ app' = [app EXCEPT
                 !.reader = exists,
                 !.hot = Newest(Tail_Of(first, cur[first]) \o Tail_Of(second, cur[second]),
                                MaxBuffer)]
    /\ UNCHANGED <<daemon, inbox, attempt, index, shrunk>>

(* output_stream_reader, after the delay of a retry: no daemon, a request  *)
(* that cannot be written (the task ends and tells nobody), or a           *)
(* subscription.                                                           *)
Connect(outcome) ==
    /\ stream = "connecting"
    /\ keys # {} => outcome = "reading"
    /\ stream' = outcome
    /\ UNCHANGED <<daemon, inbox, attempt, app, index, shrunk>>

(* End of file or LogEnd: OutputStreamClosed is sent behind the lines.     *)
Break ==
    /\ stream = "reading" /\ keys = {}
    /\ stream' = "closed"
    /\ UNCHANGED <<daemon, inbox, attempt, app, index, shrunk>>

handle_reconnect_Uncounted ==
    /\ app.running /\ stream = "closed" /\ inbox = <<>>
    /\ attempt' = 1 /\ stream' = "connecting"
    /\ UNCHANGED <<daemon, inbox, app, index, shrunk>>
handle_reconnect ==
    /\ app.running /\ stream = "closed" /\ inbox = <<>>
    /\ IF attempt = Failed \/ attempt >= MaxAttempts
       THEN attempt' = Failed /\ stream' = "none"
       ELSE attempt' = attempt + 1 /\ stream' = "connecting"
    /\ UNCHANGED <<daemon, inbox, app, index, shrunk>>

(* AppEvent::OutputLine: push_output and the filtered index.               *)
OutputLine ==
    /\ app.running /\ inbox # <<>>
    /\ inbox' = Tail(inbox)
    /\ attempt' = 0
    /\ app' = [app EXCEPT !.hot = push(@, Head(inbox))]
    /\ index' = IF app.filter THEN update_filtered_index ELSE index
    /\ UNCHANGED <<daemon, stream, shrunk>>

(* AppEvent::StatusUpdate: readers for new processes, the selection kept   *)
(* within the list.                                                        *)
StatusUpdate(procs) ==
    /\ app.running /\ stream # "off"
    /\ app' = [app EXCEPT !.procs = procs,
                 !.reader = @ \/ \E i \in DOMAIN procs : procs[i] = "p",
                 !.selected = IF @ >= Len(procs) /\ procs # <<>> THEN Len(procs) - 1 ELSE @]
    /\ UNCHANGED <<daemon, link, index, shrunk>>

-----------------------------------------------------------------------------
(* Keys and mouse.  While a filter is typed, keys go to its prompt; the    *)
(* mouse selects and scrolls all the same.                                 *)

Mouse(key) == key \in keys /\ app.running /\ stream # "off"
Normal(key) == Mouse(key) /\ ~app.typing
Prompt == "filter" \in keys /\ app.running /\ app.typing

HasSelected == app.selected < Len(app.procs)
OnP == HasSelected /\ app.procs[app.selected + 1] = "p"

Select(row) ==
    /\ Mouse("select") /\ row < Len(app.procs)
    /\ app' = [app EXCEPT !.selected = row]
    /\ UNCHANGED <<daemon, link, index, shrunk>>

(* select_next, select_prev, a click on a row.                             *)
Rows ==
    LET n == Len(app.procs) IN
    IF n = 0 THEN {}
    ELSE {(app.selected + 1) % n} \cup (0..(n - 1)) \cup
         {IF app.selected = 0 THEN n - 1 ELSE app.selected - 1}

(* A new stream mode numbers lines anew, so a filter is applied again.     *)
NextMode == [m \in Modes |-> CASE m = "out" -> "err" [] m = "err" -> "both"
                               [] OTHER -> "out"]

cycle_stream_mode ==
    /\ Normal("stream")
    /\ app' = [app EXCEPT !.mode = NextMode[app.mode]]
    /\ index' = IF app.filter THEN build_filtered_index(NextMode[app.mode]) ELSE index
    /\ shrunk' = FALSE
    /\ UNCHANGED <<daemon, link>>

toggle_pause ==
    /\ Normal("pause")
    /\ app' = [app EXCEPT !.paused = ~@,
                          !.offset = IF app.paused /\ OnP THEN 0 ELSE @]
    /\ UNCHANGED <<daemon, link, index, shrunk>>

scroll_up_by(lines) ==
    /\ app' = [app EXCEPT !.paused = TRUE,
                 !.offset = IF OnP THEN Min({@ + lines, Sub(line_count_for, Height)})
                            ELSE @]
    /\ UNCHANGED <<daemon, link, index, shrunk>>

(* The other process has nothing to scroll: its offset is 0.               *)
scroll_down_by(lines) ==
    LET offset == IF OnP THEN Sub(app.offset, lines) ELSE 0 IN
    /\ HasSelected
    /\ app' = [app EXCEPT !.offset = IF OnP THEN offset ELSE @,
                          !.paused = @ /\ offset # 0]
    /\ UNCHANGED <<daemon, link, index, shrunk>>

scroll_to_top ==
    /\ Normal("top")
    /\ app' = [app EXCEPT !.paused = TRUE,
                          !.offset = IF OnP THEN line_count_for ELSE @]
    /\ UNCHANGED <<daemon, link, index, shrunk>>

scroll_to_bottom ==
    /\ Normal("top") /\ HasSelected
    /\ app' = [app EXCEPT !.paused = FALSE, !.offset = IF OnP THEN 0 ELSE @]
    /\ UNCHANGED <<daemon, link, index, shrunk>>

start_filter ==
    /\ Normal("filter")
    /\ app' = [app EXCEPT !.typing = TRUE]
    /\ UNCHANGED <<daemon, link, index, shrunk>>

(* The prompt ends with any text, the empty one included.                  *)
confirm_filter(text) ==
    /\ Prompt
    /\ app' = [app EXCEPT !.typing = FALSE, !.filter = text]
    /\ index' = IF text THEN build_filtered_index(app.mode) ELSE NoIndex
    /\ shrunk' = FALSE
    /\ UNCHANGED <<daemon, link>>

cancel_filter ==
    /\ Prompt
    /\ app' = [app EXCEPT !.typing = FALSE]
    /\ UNCHANGED <<daemon, link, index, shrunk>>

clear_filter ==
    /\ Normal("filter")
    /\ app' = [app EXCEPT !.filter = FALSE]
    /\ index' = NoIndex /\ shrunk' = FALSE
    /\ UNCHANGED <<daemon, link>>

(* quit: the loop ends, and with it the app and its tasks.  quit_and_stop  *)
(* also asks the daemon to shut down.                                      *)
quit ==
    /\ Normal("quit")
    /\ app' = [Blank EXCEPT !.running = FALSE]
    /\ stream' = "none" /\ inbox' = <<>> /\ attempt' = 0
    /\ index' = NoIndex /\ shrunk' = FALSE
    /\ UNCHANGED daemon

-----------------------------------------------------------------------------
HalfPage == Max({Height \div 2, 1})
MouseLines == 3

Key ==
    \/ \E row \in Rows : Select(row)
    \/ cycle_stream_mode \/ toggle_pause
    \/ Normal("scroll") /\ (scroll_up_by(HalfPage) \/ scroll_down_by(HalfPage))
    \/ Mouse("scroll") /\ (scroll_up_by(MouseLines) \/ scroll_down_by(MouseLines))
    \/ scroll_to_top \/ scroll_to_bottom
    \/ start_filter \/ cancel_filter \/ clear_filter
    \/ \E text \in BOOLEAN : confirm_filter(text)
    \/ quit

Daemon ==
    \/ \E kind \in Kinds, lost \in BOOLEAN : PrintLine(kind, lost)
    \/ \E s \in Streams : Flush(s) \/ Rotate(s)
    \/ Truncate

Connecting == \E outcome \in {"closed", "mute", "reading"} : Connect(outcome)

Loop ==
    \/ \E s \in Streams, exists \in BOOLEAN, cur \in [Streams -> 0..MaxLines] :
         Start(s, exists, cur)
    \/ Connecting \/ Break \/ handle_reconnect \/ OutputLine
    \/ \E procs \in {<<"p">>, <<"q", "p">>} : StatusUpdate(procs)

Next == Key \/ Daemon \/ Loop

(* The reader task goes on, sleeps end, and the event loop keeps taking    *)
(* events.  Nothing hurries the daemon or the user.                        *)
Fairness ==
    WF_vars(OutputLine) /\ WF_vars(handle_reconnect) /\ WF_vars(Connecting)

Spec == Init /\ [][Next]_vars /\ Fairness

-----------------------------------------------------------------------------
(* The log as it is in the files, in a stream mode.                        *)
Log(mode) ==
    IF mode = "both"
    THEN ByNumber(ToSet(disk["out"] \o late["out"]) \cup ToSet(disk["err"] \o late["err"]))
    ELSE disk[mode] \o late[mode]

(* The rows for lines, that end where the user has scrolled to.            *)
Window(lines) ==
    LET end == IF ~app.paused THEN Len(lines)
               ELSE IF app.offset > Len(lines) THEN 0 ELSE Len(lines) - app.offset
    IN  SubSeq(lines, Max({1, end - Height + 1}), end)

(* The stream lost nothing: the ring buffer ends the log.                  *)
Continued == ~app.filter /\ app.reader /\ IsSuffix(HotLines(app.mode), Log(app.mode))

(* What is drawn, as long as the stream lost nothing, is the window of the *)
(* log with some lines left out: none of them in the ring buffer, and at   *)
(* most as many as are written and not yet counted on disk.  So every row  *)
(* is a line of the log, in order and once, in every stream mode, across   *)
(* the seam, after evictions and at the end when not paused; and with      *)
(* every line counted, or the whole log in the buffer, nothing is missing. *)
(* Otherwise the window may skip lines just before the ring buffer: the    *)
(* boundary is counted from the lines on disk and not from the log's.      *)
ViewExact ==
    LET log == Log(app.mode) IN
    Continued =>
      \E m \in Len(DiskLines(app.mode))..Len(log) : \E at \in [1..m -> 1..Len(log)] :
        /\ \A i, j \in 1..m : i < j => at[i] < at[j]
        /\ \A p \in 1..Len(log) : p > Len(log) - Len(HotLines(app.mode)) =>
             \E i \in 1..m : at[i] = p
        /\ visible_lines = Window([i \in 1..m |-> log[at[i]]])

(* The filtered index is of the filter and the stream mode in use, exists  *)
(* only with a filter, and names every matching line up to where it has    *)
(* scanned, once and in order, unless lines were deleted or inserted       *)
(* before that; and a window over it is never out of its range.            *)
FilterExact ==
    /\ index # NoIndex => app.filter /\ index.mode = app.mode
    /\ index # NoIndex /\ ~shrunk =>
         /\ LET lines == DiskLines(app.mode)
            IN  /\ index.scanned <= Len(lines)
                /\ ToSet(index.lines) = {i \in 1..index.scanned : lines[i].hit}
         /\ \A i, j \in DOMAIN index.lines : i < j => index.lines[i] < index.lines[j]
    /\ Len(filtered_window) <= Height

(* A lost stream comes back, or the interface gives up after its attempts, *)
(* or the one silent exit was taken: a request that could not be written.  *)
StreamBack ==
    stream = "closed" ~>
        (stream \in {"reading", "mute"} \/ attempt = Failed \/ ~app.running)
=============================================================================

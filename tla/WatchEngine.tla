---------------------------- MODULE WatchEngine ----------------------------
(***************************************************************************)
(* The watch engine (watch.go) on top of the store a registry is: one      *)
(* forwarding goroutine per subscription, the poll goroutine, the debounce *)
(* loop and the public events channel.                                     *)
(*                                                                         *)
(* A line is what one call of Watch sets up: a channel of one slot, the    *)
(* source's goroutine at one end and a forwarding goroutine at the other.  *)
(* A source that is added again has a new line, beside what is left of the *)
(* one it had.  The source's goroutine replaces the contents and then      *)
(* sends a SourceChange; owed holds the lines between the two.  A source   *)
(* that is no Watcher changes under the poll goroutine's Refresh, which is *)
(* followed by a "poll" change; polled is TRUE between the two.            *)
(***************************************************************************)
EXTENDS ConfigStore, Sequences, FiniteSets, Functions

CONSTANTS
    Watchers,           \* the sources that implement Watcher
    Lines,              \* bound: lines in use at a time
    Writes,             \* what clients write: settings and registered sources
    EventBuf,           \* WithEventBufferSize
    Deprecated,         \* the structs with a deprecated field: "live", "other"
    MaxErrors,          \* bound: refresh errors the sources report
    MaxTicks            \* bound: poll ticks that find nothing new

ASSUME WatchAssumption ==
    /\ Watchers \subseteq Sources
    /\ "poll" \notin Sources
    /\ "none" \notin Lines
    /\ Writes \subseteq [settings : Settings, registered : SUBSET Sources]
    /\ Deprecated \subseteq {"live", "other"}
    /\ EventBuf \in Nat \ {0} /\ MaxErrors \in Nat /\ MaxTicks \in Nat

VARIABLES
    subs,               \* each watcher's subscription: its line, or NoLine
    unwatched,          \* history: registered watchers whose Watch failed
    lines,              \* the lines
    owed,               \* lines whose source made a change and has not sent it yet
    polled,             \* the poll goroutine has refreshed and not sent yet
    pending,            \* the pending channel
    room,               \* its capacity, fixed when the engine is made
    timer,              \* the debounce timer: "off", "running", "fired"
    loop,               \* the debounce loop
    events,             \* the public channel
    dropped,            \* events dropped and not reported yet
    history,            \* lost, reported: drops so far, and drops told to consumers
    faults,             \* errors and idle ticks so far
    ctxDone,            \* the engine's context is cancelled
    queued              \* a deprecation is in pendingWarnings

sourceVars == <<subs, unwatched, lines, owed, polled>>
engineVars == <<sourceVars, pending, room, timer, loop, events, dropped,
                history, faults, ctxDone, queued>>
watchVars == <<storeVars, engineVars>>

NoChangeYet == "none"
NoLine == "none"

\* src: the source's name, as forward knows it; cancelled: the subscription's
\* context is; closed: the source closed the channel; slot: the channel; fwd:
\* the forward goroutine, "off", "idle", or the change it has in hand.
FreeLine == [src |-> "none", cancelled |-> TRUE, closed |-> TRUE, slot |-> NoChangeYet, fwd |-> "off"]
LineOf(s) == [src |-> s, cancelled |-> FALSE, closed |-> FALSE, slot |-> NoChangeYet, fwd |-> "idle"]
LoopStart == [pc |-> "select", src |-> "", prev |-> NotInstalled, ok |-> TRUE]

WatchInit ==
    /\ StoreInit
    /\ subs = [s \in Watchers |-> NoLine] /\ unwatched = {}
    /\ lines = [l \in Lines |-> FreeLine]
    /\ owed = {} /\ polled = FALSE
    /\ pending = <<>> /\ room = 0
    /\ timer = "off"
    /\ loop = [LoopStart EXCEPT !.pc = "off"]
    /\ events = <<>>
    /\ dropped = 0
    /\ history = [lost |-> 0, reported |-> 0]
    /\ faults = [errors |-> 0, ticks |-> 0]
    /\ ctxDone = FALSE
    /\ queued = FALSE
-----------------------------------------------------------------------------
(* Subscriptions follow the source list: New subscribes to every source,   *)
(* AddSource and InsertSource to the one they add, once its rebuild is     *)
(* accepted; RemoveSource cancels.                                         *)

\* The source's own goroutine watches for it.
Watched(s) == s \in Watchers /\ subs[s] # NoLine /\ ~lines[subs[s]].closed

\* Contents change only in the hands of that goroutine or of the poll
\* goroutine, each of which then owes a change.
OweChanges ==
    LET changed == {s \in Sources : contents'[s] # contents[s]}
    IN  /\ \A s \in changed : Watched(s) \/ (s \notin Watchers /\ loop.pc # "off")
        /\ ~ctxDone \/ changed = {}
        /\ owed' = owed \cup {subs[s] : s \in changed \cap Watchers}
        /\ polled' = (polled \/ changed \ Watchers # {})

\* Nothing is left of what the line was used for.
Spare(l) ==
    /\ lines[l].closed /\ lines[l].fwd = "off" /\ l \notin owed
    /\ \A s \in Watchers : subs[s] # l

\* The lines that the watchers added get, those among them whose Watch succeeds;
\* none once the engine's context is cancelled.
NewLines(added) ==
    UNION {Injection(watched, {l \in Lines : Spare(l)}) :
             watched \in SUBSET (IF ctxDone THEN {} ELSE added)}

SetUp(on, l) == LineOf(CHOOSE s \in DOMAIN on : on[s] = l)

\* Mutant of Subscribe: a removed source stays subscribed.
SubscribeForGood ==
    LET added == (registered' \ registered) \cap Watchers
    IN  \E on \in NewLines(added) :
          /\ subs' = [s \in Watchers |-> IF s \in DOMAIN on THEN on[s] ELSE subs[s]]
          /\ lines' = [l \in Lines |-> IF l \in Range(on) THEN SetUp(on, l) ELSE lines[l]]
          /\ unwatched' = (unwatched \cap registered') \cup (added \ DOMAIN on)

\* A Watch that fails is logged and leaves the source registered.
Subscribe ==
    LET added == (registered' \ registered) \cap Watchers
        cancelled == {subs[s] : s \in Watchers \ registered'}
    IN  \E on \in NewLines(added) :
          /\ subs' = [s \in Watchers |-> IF s \in DOMAIN on THEN on[s]
                                        ELSE IF s \in registered' THEN subs[s] ELSE NoLine]
          /\ lines' = [l \in Lines |-> IF l \in Range(on) THEN SetUp(on, l)
                                      ELSE [lines[l] EXCEPT !.cancelled = @ \/ l \in cancelled]]
          /\ unwatched' = (unwatched \cap registered') \cup (added \ DOMAIN on)

\* New starts the engine under the lock, after the first rebuild.
WatchNew ==
    /\ Open
    /\ OweChanges
    /\ IF phase' = "open"
       THEN Subscribe /\ room' = Cardinality(registered') + 1 /\ loop' = LoopStart
       ELSE UNCHANGED <<subs, unwatched, lines, room, loop>>
    /\ UNCHANGED <<pending, timer, events, dropped, history, faults, ctxDone, queued>>

\* A client's write, accepted or not.
WatchClient(w) ==
    /\ Usable
    /\ \E ok \in BOOLEAN : Attempt(w.settings, w.registered, ok)
    /\ OweChanges
    /\ Subscribe
    /\ UNCHANGED <<phase, pending, room, timer, loop, events, dropped, history, faults, ctxDone, queued>>

\* A bind elsewhere finds a deprecated field set and queues a warning.
QueueWarning ==
    /\ phase = "open" /\ "other" \in Deprecated
    /\ queued' = TRUE
    /\ UNCHANGED <<storeVars, sourceVars, pending, room, timer, loop, events, dropped, history, faults, ctxDone>>

\* A source's goroutine replaces the contents (a write the watcher saw), or
\* the poll goroutine's Refresh does.
SourceSwap(s, c) ==
    /\ Swap(s, c)
    /\ OweChanges
    /\ UNCHANGED <<subs, unwatched, lines, pending, room, timer, loop, events, dropped, history, faults, ctxDone, queued>>

\* Mutant of Notify: the send does not wait for room.
NotifyNonBlocking(l) ==
    /\ l \in owed /\ owed' = owed \ {l}
    /\ \/ lines[l].slot = NoChangeYet /\ lines' = [lines EXCEPT ![l].slot = "ok"]
       \/ (lines[l].slot # NoChangeYet \/ lines[l].cancelled \/ ctxDone) /\ UNCHANGED lines
    /\ UNCHANGED <<storeVars, subs, unwatched, polled, pending, room, timer, loop, events, dropped, history, faults, ctxDone, queued>>

\* The source sends its change on its channel, or gives up once cancelled.
Notify(l) ==
    /\ l \in owed /\ owed' = owed \ {l}
    /\ \/ lines[l].slot = NoChangeYet /\ lines' = [lines EXCEPT ![l].slot = "ok"]
       \/ (lines[l].cancelled \/ ctxDone) /\ UNCHANGED lines
    /\ UNCHANGED <<storeVars, subs, unwatched, polled, pending, room, timer, loop, events, dropped, history, faults, ctxDone, queued>>

\* The source reports a failed refresh; its contents stay.
SourceFails(l) ==
    /\ ~lines[l].cancelled /\ ~lines[l].closed /\ ~ctxDone /\ lines[l].slot = NoChangeYet
    /\ faults.errors < MaxErrors
    /\ faults' = [faults EXCEPT !.errors = @ + 1]
    /\ lines' = [lines EXCEPT ![l].slot = "err"]
    /\ UNCHANGED <<storeVars, subs, unwatched, owed, polled, pending, room, timer, loop, events, dropped, history, ctxDone, queued>>

\* The source closes its channel and watches no more: once cancelled, or when
\* its own watcher ends, or at once where it has none.
SourceCloses(l) ==
    /\ ~lines[l].closed /\ l \notin owed
    /\ lines' = [lines EXCEPT ![l].closed = TRUE]
    /\ UNCHANGED <<storeVars, subs, unwatched, owed, polled, pending, room, timer, loop, events, dropped, history, faults, ctxDone, queued>>

\* A tick whose Refresh finds nothing new; the goroutine sends before the next.
PollTick ==
    /\ loop.pc # "off" /\ ~ctxDone /\ ~polled
    /\ faults.ticks < MaxTicks
    /\ faults' = [faults EXCEPT !.ticks = @ + 1]
    /\ polled' = TRUE
    /\ UNCHANGED <<storeVars, subs, unwatched, lines, owed, pending, room, timer, loop, events, dropped, history, ctxDone, queued>>

Send(src, change) ==
    /\ Len(pending) < room
    /\ pending' = Append(pending, [src |-> src, change |-> change])

PollSend ==
    /\ polled /\ polled' = FALSE
    /\ \/ Send("poll", "ok")
       \/ ctxDone /\ UNCHANGED pending
    /\ UNCHANGED <<storeVars, subs, unwatched, lines, owed, room, timer, loop, events, dropped, history, faults, ctxDone, queued>>
-----------------------------------------------------------------------------
(* forward: receive from the subscription, send to pending; either select  *)
(* also watches the context.                                               *)
ForwardReceive(l) ==
    /\ lines[l].fwd = "idle" /\ lines[l].slot # NoChangeYet
    /\ lines' = [lines EXCEPT ![l].fwd = lines[l].slot, ![l].slot = NoChangeYet]
    /\ UNCHANGED <<storeVars, subs, unwatched, owed, polled, pending, room, timer, loop, events, dropped, history, faults, ctxDone, queued>>

ForwardSend(l) ==
    /\ lines[l].fwd \in {"ok", "err"}
    /\ Send(lines[l].src, lines[l].fwd)
    /\ lines' = [lines EXCEPT ![l].fwd = "idle"]
    /\ UNCHANGED <<storeVars, subs, unwatched, owed, polled, room, timer, loop, events, dropped, history, faults, ctxDone, queued>>

Drained(l) == lines[l].fwd = "idle" /\ lines[l].closed /\ lines[l].slot = NoChangeYet

\* Mutant of ForwardExit: the send to pending does not watch the context.
ForwardExitIdle(l) ==
    /\ Drained(l) \/ (ctxDone /\ lines[l].fwd = "idle")
    /\ lines' = [lines EXCEPT ![l].fwd = "off"]
    /\ UNCHANGED <<storeVars, subs, unwatched, owed, polled, pending, room, timer, loop, events, dropped, history, faults, ctxDone, queued>>

\* The engine's context is done, or the source closed its drained channel.
ForwardExit(l) ==
    /\ Drained(l) \/ (ctxDone /\ lines[l].fwd # "off")
    /\ lines' = [lines EXCEPT ![l].fwd = "off"]
    /\ UNCHANGED <<storeVars, subs, unwatched, owed, polled, pending, room, timer, loop, events, dropped, history, faults, ctxDone, queued>>
-----------------------------------------------------------------------------
\* Mutant of emit: the count is reset even when the warning is lost.
emitForgets(evt) ==
    IF Len(events) < EventBuf
    THEN /\ events' = Append(events, [evt EXCEPT !.drops = dropped])
         /\ dropped' = 0
         /\ history' = [history EXCEPT !.reported = @ + dropped]
    ELSE /\ dropped' = 1
         /\ history' = [history EXCEPT !.lost = @ + 1]
         /\ UNCHANGED events

\* emit: a full channel drops the event; a delivered one carries the count
\* of the drops before it.
emit(evt) ==
    IF Len(events) < EventBuf
    THEN /\ events' = Append(events, [evt EXCEPT !.drops = dropped])
         /\ dropped' = 0
         /\ history' = [history EXCEPT !.reported = @ + dropped]
    ELSE /\ dropped' = dropped + 1
         /\ history' = [history EXCEPT !.lost = @ + 1]
         /\ UNCHANGED events

Event(src, err, changed) ==
    [src |-> src, err |-> err, changed |-> changed, drops |-> 0, warned |-> FALSE]

\* The loop takes a pending change: an error goes out at once, anything
\* else (re)starts the debounce timer, draining a tick that already fired.
LoopTake ==
    LET p == Head(pending)
    IN  /\ loop.pc = "select" /\ pending # <<>>
        /\ pending' = Tail(pending)
        /\ IF p.change = "err"
           THEN /\ emit(Event(p.src, TRUE, {}))
                /\ UNCHANGED timer
           ELSE timer' = "running" /\ UNCHANGED <<events, dropped, history>>
        /\ loop' = [loop EXCEPT !.src = p.src]
        /\ UNCHANGED <<storeVars, sourceVars, room, faults, ctxDone, queued>>

TimerFires ==
    /\ timer = "running" /\ timer' = "fired"
    /\ UNCHANGED <<storeVars, sourceVars, pending, room, loop, events, dropped, history, faults, ctxDone, queued>>

\* fireReload: the previous snapshot is loaded before the lock is taken, the
\* current one after it was released.
LoopFire ==
    /\ loop.pc = "select" /\ timer = "fired"
    /\ timer' = "off"
    /\ loop' = [loop EXCEPT !.pc = "rebuild", !.prev = installed]
    /\ UNCHANGED <<storeVars, sourceVars, pending, room, events, dropped, history, faults, ctxDone, queued>>

\* diffSnapshots, each source one key and the other layers another.
Differs(p, c, s) == \/ (s \in p.registered) # (s \in c.registered)
                    \/ s \in p.registered /\ p.view[s] # c.view[s]
Diff(p, c) ==
    IF c = NotInstalled THEN {}
    ELSE IF p = NotInstalled THEN c.registered \cup {"settings"}
    ELSE {s \in Sources : Differs(p, c, s)} \cup {x \in {"settings"} : p.settings # c.settings}

LoopRebuild ==
    /\ loop.pc = "rebuild"
    /\ \E ok \in BOOLEAN :
          /\ Attempt(settings, registered, ok)
          /\ loop' = [loop EXCEPT !.pc = "report", !.ok = ok]
    /\ OweChanges
    /\ UNCHANGED <<phase, subs, unwatched, lines, pending, room, timer, events, dropped, history, faults, ctxDone, queued>>

\* One event per reload, with the pending warnings drained into it.
LoopReport ==
    /\ loop.pc = "report"
    /\ emit([src |-> loop.src, err |-> ~loop.ok,
             changed |-> IF loop.ok THEN Diff(loop.prev, installed) ELSE {},
             drops |-> 0, warned |-> queued])
    /\ loop' = LoopStart
    /\ queued' = FALSE
    /\ UNCHANGED <<storeVars, sourceVars, pending, room, timer, faults, ctxDone>>

LoopExit ==
    /\ loop.pc = "select" /\ ctxDone
    /\ loop' = [LoopStart EXCEPT !.pc = "exit"]
    /\ UNCHANGED <<storeVars, sourceVars, pending, room, timer, events, dropped, history, faults, ctxDone, queued>>
-----------------------------------------------------------------------------
(* Close: flag, cancel, wait for every goroutine, close the sources.       *)
WatchCloseBegin == BeginClose /\ UNCHANGED engineVars

Cancel ==
    /\ phase = "closing" /\ ~ctxDone /\ ctxDone' = TRUE
    /\ UNCHANGED <<storeVars, sourceVars, pending, room, timer, loop, events, dropped, history, faults, queued>>

Stopped == loop.pc = "exit" /\ ~polled /\ \A l \in Lines : lines[l].fwd = "off"

WatchCloseSources ==
    /\ ctxDone /\ Stopped
    /\ EndClose
    /\ UNCHANGED engineVars

Consume ==
    /\ events # <<>>
    /\ events' = Tail(events)
    /\ UNCHANGED <<storeVars, sourceVars, pending, room, timer, loop, dropped, history, faults, ctxDone, queued>>

\* The engine's goroutines.
Forward(l) == ForwardReceive(l) \/ ForwardSend(l) \/ ForwardExit(l)
Loop == LoopTake \/ LoopFire \/ LoopRebuild \/ LoopReport \/ LoopExit
Owner == WatchNew \/ Cancel \/ WatchCloseSources

EngineNext ==
    \/ Owner \/ WatchCloseBegin
    \/ \E w \in Writes : WatchClient(w)
    \/ \E s \in Sources : \E c \in ContentsOf[s] : SourceSwap(s, c)
    \/ \E l \in Lines : SourceFails(l) \/ Notify(l) \/ SourceCloses(l) \/ Forward(l)
    \/ PollTick \/ PollSend \/ QueueWarning
    \/ Loop \/ TimerFires

WatchNext == EngineNext \/ Consume

WatchSpec == WatchInit /\ [][WatchNext]_watchVars
-----------------------------------------------------------------------------
\* Every event that the full channel dropped is either still counted or was
\* told to consumers once, in the warning of an event that got through
\* (emit: "the warning isn't itself lost when the channel stays full").
DropsAccounted == history.lost = history.reported + dropped

Subscriptions == {s \in Watchers : subs[s] # NoLine}

\* The forwarder runs until the source closes the channel and it is drained.
Forwarded(l) == lines[l].fwd # "off" \/ (lines[l].closed /\ lines[l].slot = NoChangeYet)

\* One subscription, not cancelled, to each registered watcher whose Watch did
\* not fail, and to no other.
Subscribed ==
    /\ Subscriptions = (registered \cap Watchers) \ unwatched
    /\ {l \in Lines : ~lines[l].cancelled} = {subs[s] : s \in Subscriptions}
    /\ \A s \in Subscriptions : lines[subs[s]].src = s /\ Forwarded(subs[s])

\* However often sources are removed and added again under their names, with
\* the lines of the old subscriptions still being drained, the engine is
\* subscribed to what is registered and forwards for it, a failed Watch and a
\* source that ends its own channel apart (subscribeLocked, unsubscribeLocked,
\* forward).
SubscribedWhileRegistered == loop.pc \notin {"off", "exit"} /\ ~ctxDone => Subscribed

\* No change is lost between a source and the snapshot: once the sources
\* settle, an open registry holds what they hold, unless that is refused
\* (subscription, forward, pending and debounce together).
SnapshotConverges ==
    <>[](phase = "open" /\ Acceptable(settings, registered, contents)
            => installed = Configuration(settings, registered, contents))

\* Close returns, whoever still reads the events and whatever is in flight:
\* no goroutine of the engine waits for a channel nobody serves (stop).  A
\* registry that is closing is so until Close is over.
CloseReturns == <>[](phase # "closing")
=============================================================================

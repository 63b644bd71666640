-------------------------------- MODULE Live --------------------------------
(***************************************************************************)
(* Live (live.go): the goroutine that consumes the registry's events and   *)
(* rebinds, its one-slot channel, and Live.Reload called beside it.        *)
(* Binding reads one configuration here; what a bind does in detail is the *)
(* subject of module Bind.                                                 *)
(***************************************************************************)
EXTENDS WatchEngine

CONSTANTS
    Binds(_),           \* whether a configuration decodes into the struct
    Reloaders,          \* goroutines that call Live.Reload
    MaxReloads          \* bound: calls of Live.Reload

ASSUME LiveAssumption == MaxReloads \in Nat

VARIABLES
    run,                \* the rebind goroutine
    reload,             \* each Live.Reload call
    reloads,            \* calls so far
    curr,               \* the bound configuration Live hands out
    lastErr,            \* whether the last rebind or reload failed
    liveEvents,         \* the one-slot channel
    liveDropped,        \* events dropped and not reported yet
    liveHistory,        \* lost, reported: as for the engine
    stopped             \* Close was called

liveVars == <<run, reload, reloads, curr, lastErr, liveEvents, liveDropped, liveHistory, stopped>>
allVars == <<watchVars, liveVars>>

\* All of the engine's state but the warning queue.
otherVars == <<storeVars, sourceVars, pending, room, timer, loop, events, dropped,
               history, faults, ctxDone>>

Nothing == [none |-> TRUE]
RunOff == [pc |-> "off", evt |-> Nothing, next |-> Nothing]
Ready == [RunOff EXCEPT !.pc = "select"]

LiveInit ==
    /\ WatchInit
    /\ run = RunOff
    /\ reload = [t \in Reloaders |-> RunOff]
    /\ reloads = 0
    /\ curr = Nothing
    /\ lastErr = FALSE
    /\ liveEvents = <<>>
    /\ liveDropped = 0
    /\ liveHistory = [lost |-> 0, reported |-> 0]
    /\ stopped = FALSE

\* Mutant of decode: decoding errors are ignored.
decodeUnchecked == IF phase = "open" THEN installed ELSE Nothing

\* decode: Registry.Bind into a fresh struct.  A closed registry refuses.
decode == IF phase = "open" /\ installed # NotInstalled /\ Binds(installed) THEN installed ELSE Nothing
\* The bind queues a warning for a deprecated field it finds.
BindWarns == queued' = (queued \/ (phase = "open" /\ "live" \in Deprecated))

\* The initial bind is synchronous; a failure starts no goroutine.
NewLive ==
    /\ phase = "open" /\ run.pc = "off" /\ ~stopped
    /\ decode # Nothing
    /\ curr' = decode
    /\ BindWarns
    /\ run' = Ready
    /\ UNCHANGED <<otherVars, reload, reloads, lastErr, liveEvents, liveDropped, liveHistory, stopped>>

\* Mutants of liveEmit: a forgotten count, a blocking send.
liveEmitForgets(evt) ==
    IF liveEvents = <<>>
    THEN /\ liveEvents' = <<[evt EXCEPT !.drops = @ + liveDropped]>>
         /\ liveDropped' = 0
         /\ UNCHANGED liveHistory
    ELSE /\ liveDropped' = 1
         /\ liveHistory' = [liveHistory EXCEPT !.lost = @ + 1]
         /\ UNCHANGED liveEvents
liveEmitBlocking(evt) ==
    /\ liveEvents = <<>> /\ liveEvents' = <<evt>>
    /\ UNCHANGED <<liveDropped, liveHistory>>

\* emit, one slot; the count is reset by a delivery.
liveEmit(evt) ==
    IF liveEvents = <<>>
    THEN /\ liveEvents' = <<[evt EXCEPT !.drops = @ + liveDropped]>>
         /\ liveDropped' = 0
         /\ liveHistory' = [liveHistory EXCEPT !.reported = @ + liveDropped]
    ELSE /\ liveDropped' = liveDropped + 1
         /\ liveHistory' = [liveHistory EXCEPT !.lost = @ + 1]
         /\ UNCHANGED liveEvents


\* The goroutine takes a registry event; a failed reload is passed on and
\* rebinds nothing.
LiveTake ==
    LET evt == Head(events)
    IN  /\ run.pc = "select" /\ events # <<>>
        /\ events' = Tail(events)
        /\ IF evt.err
           THEN /\ lastErr' = TRUE
                /\ liveEmit(evt)
                /\ UNCHANGED run
           ELSE /\ run' = [run EXCEPT !.pc = "bind", !.evt = evt]
                /\ UNCHANGED <<lastErr, liveEvents, liveDropped, liveHistory>>
        /\ UNCHANGED <<storeVars, sourceVars, pending, room, timer, loop, dropped, history,
                       faults, ctxDone, queued, reload, reloads, curr, stopped>>

LiveBind ==
    /\ run.pc = "bind"
    /\ run' = [run EXCEPT !.pc = "store", !.next = decode]
    /\ BindWarns
    /\ UNCHANGED <<otherVars, reload, reloads, curr, lastErr, liveEvents, liveDropped, liveHistory, stopped>>

Failed(next) == next = Nothing

\* The pointer is swapped only by a successful bind; the event follows, with
\* the warnings queued by then.
LiveStore ==
    /\ run.pc = "store"
    /\ curr' = IF Failed(run.next) THEN curr ELSE run.next
    /\ lastErr' = Failed(run.next)
    /\ liveEmit([run.evt EXCEPT !.err = Failed(run.next), !.warned = @ \/ queued])
    /\ queued' = FALSE
    /\ run' = Ready
    /\ UNCHANGED <<otherVars, reload, reloads, stopped>>

\* The goroutine ends when stopped or when the registry's channel is closed
\* and drained; it closes Live's channel.
LiveExit ==
    /\ run.pc = "select"
    /\ stopped \/ (events = <<>> /\ loop.pc = "exit")
    /\ run' = [RunOff EXCEPT !.pc = "exit"]
    /\ UNCHANGED <<watchVars, reload, reloads, curr, lastErr, liveEvents, liveDropped, liveHistory, stopped>>

LiveClose ==
    /\ run.pc # "off" /\ ~stopped /\ stopped' = TRUE
    /\ UNCHANGED <<watchVars, run, reload, reloads, curr, lastErr, liveEvents, liveDropped, liveHistory>>

\* Live.Reload: bind, then store, with nothing to order it after run's.
ReloadBind(t) ==
    /\ run.pc # "off" /\ reload[t].pc = "off" /\ reloads < MaxReloads
    /\ reloads' = reloads + 1
    /\ reload' = [reload EXCEPT ![t].pc = "store", ![t].next = decode]
    /\ BindWarns
    /\ UNCHANGED <<otherVars, run, curr, lastErr, liveEvents, liveDropped, liveHistory, stopped>>

ReloadStore(t) ==
    /\ reload[t].pc = "store"
    /\ curr' = IF Failed(reload[t].next) THEN curr ELSE reload[t].next
    /\ lastErr' = Failed(reload[t].next)
    /\ reload' = [reload EXCEPT ![t] = RunOff]
    /\ UNCHANGED <<watchVars, run, reloads, liveEvents, liveDropped, liveHistory, stopped>>

LiveConsume ==
    /\ liveEvents # <<>> /\ liveEvents' = <<>>
    /\ UNCHANGED <<watchVars, run, reload, reloads, curr, lastErr, liveDropped, liveHistory, stopped>>

Run == LiveTake \/ LiveBind \/ LiveStore \/ LiveExit

LiveNext ==
    \/ EngineNext /\ UNCHANGED liveVars
    \/ NewLive \/ Run \/ LiveClose \/ LiveConsume
    \/ \E t \in Reloaders : ReloadBind(t) \/ ReloadStore(t)

LiveSpec == LiveInit /\ [][LiveNext]_allVars

(* Every goroutine of the engine and of Live runs when it can, a call of   *)
(* Reload goes on, and timers fire; select does not starve a ready case.   *)
(* Clients, sources and consumers promise nothing.                         *)
LiveFairness ==
    /\ WF_allVars(Owner /\ UNCHANGED liveVars) /\ WF_allVars(Loop /\ UNCHANGED liveVars)
    /\ WF_allVars(TimerFires /\ UNCHANGED liveVars) /\ WF_allVars(PollSend /\ UNCHANGED liveVars)
    /\ \A l \in Lines : /\ WF_allVars(Notify(l) /\ UNCHANGED liveVars)
                        /\ WF_allVars(Forward(l) /\ UNCHANGED liveVars)
    /\ WF_allVars(Run)
    /\ \A t \in Reloaders : WF_allVars(ReloadStore(t))

FairLiveSpec == LiveSpec /\ LiveFairness
-----------------------------------------------------------------------------
\* Live hands out only configurations that were accepted and decoded, and
\* never goes back to nothing once built, whatever fails later (handle).
HandsOutGood ==
    run.pc # "off" => /\ curr # Nothing
                      /\ Binds(curr)
                      /\ Acceptable(curr.settings, curr.registered, curr.view)

\* Drops on the one-slot channel are reported once, like the engine's.
LiveDropsAccounted == liveHistory.lost = liveHistory.reported + liveDropped

Following == phase = "open" /\ run.pc # "off" /\ ~stopped

\* "Each successful reload atomic-swaps the *T pointer Live hands out": once
\* sources and writers settle, Live holds the installed configuration, even
\* though events in between may have been dropped (handle, emit of the
\* engine); a Live.Reload beside it may store an older one last.
LiveConverges == <>[](Following /\ reloads = 0 /\ Binds(installed) => curr = installed)

\* Close, of Live or of the registry, ends the goroutine, also when nobody
\* reads Live's channel.  Both are for good, and so is the end.
LiveEnds == <>[](run.pc # "off" /\ (stopped \/ phase = "closed") => run.pc = "exit")
=============================================================================

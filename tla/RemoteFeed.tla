----------------------------- MODULE RemoteFeed -----------------------------
(***************************************************************************)
(* A watched remote source (source_remote.go): its cache, the goroutine    *)
(* that refreshes it, and its backend.  kind "push" is over a              *)
(* MemoryBackend (remote_inmemory.go), which lists values in one call and  *)
(* notifies a subscription; kind "poll" over a backend that does neither,  *)
(* refreshed on every tick with one List and a Get per key.                *)
(*                                                                         *)
(* Refreshes are not serialised: each refresher (main in the constructor,  *)
(* fan in the watch goroutine, client in Refresh) reads the backend and    *)
(* then swaps the cache, and another may do both in between.               *)
(***************************************************************************)
EXTENDS Integers, Sequences

CONSTANTS
    KeysOf,         \* per kind, numbers of the backend's keys, in string order
    MaxRemoteUpsets \* bound: writes and backend errors, together

ASSUME RemoteFeedAssumption == KeysOf \in [{"push", "poll"} -> SUBSET Nat] /\ MaxRemoteUpsets \in Nat

RemoteKeys == KeysOf["push"] \cup KeysOf["poll"]
Refreshers == {"main", "fan", "client"}
Data == [RemoteKeys -> 0..MaxRemoteUpsets]     \* 0 where there is no key

VARIABLES
    kind,           \* "push" or "poll"
    data,           \* the backend's keys and values
    upsets,         \* upsets so far
    version,        \* history, of "push": the upset that wrote data last
    writer,         \* a write holding the backend's lock: whether it has subscribers to notify
    backendClosed,
    sub,            \* the subscription: listed in subs, its channel closed, a tick in it
    panicked,       \* a send on, or a close of, a closed channel
    fetch,          \* per refresher: its pc, the keys to get, what it has got
    cache,          \* what the source answers from, and the version it was read at
    rmain, rclient, \* where the goroutines that call the source are
    loop,           \* fanWatch or the watchPoll goroutine: pc, prev, msg
    rout,           \* Watch's channel, one slot
    remoteView,     \* what the registry's last rebuild read
    rstopped,       \* the subscription's context is cancelled
    closing,        \* RemoteSource.Close: "no", "dropped", "closed"
    behind,         \* history: the cache holds older data than nobody will replace
    refreshed,      \* history: a client refresh came after the last comparison
    missed          \* history: a comparison after one left the registry with other
                    \* data than the cache, with nothing on its way: "now", or
                    \* "before" the last one that found a difference

backendVars == <<data, version, writer, backendClosed, sub, panicked>>
cacheVars == <<fetch, cache, loop, rout, behind, refreshed, missed>>
callerVars == <<rmain, rclient, remoteView, rstopped, closing>>
remoteVars == <<kind, upsets, backendVars, cacheVars, callerVars>>

NoData == [k \in RemoteKeys |-> 0]
NoFetch == [pc |-> "idle", todo |-> {}, got |-> NoData, at |-> 0]
NoWriter == [holds |-> FALSE, notifies |-> FALSE]

\* The constructor is about to run, or has failed already.
RemoteInitAs(k, at) ==
    /\ kind = k
    /\ data = NoData /\ upsets = 0 /\ version = 0
    /\ writer = NoWriter
    /\ backendClosed = FALSE
    /\ sub = [listed |-> FALSE, closed |-> FALSE, tick |-> FALSE]
    /\ panicked = FALSE
    /\ fetch = [w \in Refreshers |-> NoFetch]
    /\ cache = [data |-> NoData, at |-> 0]
    /\ rmain = at /\ rclient = "idle"
    /\ loop = [pc |-> "off", prev |-> NoData, msg |-> "none"]
    /\ rout = <<>>
    /\ remoteView = NoData
    /\ rstopped = FALSE /\ closing = "no"
    /\ behind = FALSE /\ refreshed = FALSE /\ missed = "no"

RemoteUpset == upsets < MaxRemoteUpsets /\ upsets' = upsets + 1
-----------------------------------------------------------------------------
(* MemoryBackend.  One lock; a write holds it until its subscribers are    *)
(* notified, because a cancel or a Close closes their channels under it.   *)
LockFree == ~writer.holds

\* Mutant: the lock is released before the subscribers are notified.
WriteUnlocks == writer' = [holds |-> FALSE, notifies |-> sub.listed]

\* Put, PutAll and Delete up to notifyAll.  A backend of kind "poll" has no
\* subscribers.
WriteLocks == writer' = [holds |-> kind = "push", notifies |-> sub.listed]

WriteData(new) ==
    /\ LockFree /\ ~writer.notifies /\ ~backendClosed
    /\ new # data
    /\ RemoteUpset
    /\ data' = new /\ version' = (IF kind = "push" THEN upsets' ELSE 0)
    /\ WriteLocks
    /\ UNCHANGED <<kind, backendClosed, sub, panicked>> /\ UNCHANGED <<cacheVars, callerVars>>

MemPut(k) == WriteData([data EXCEPT ![k] = upsets + 1])
PutAll == WriteData([k \in RemoteKeys |-> IF k \in KeysOf[kind] THEN upsets + 1 ELSE 0])
Delete(k) == WriteData([data EXCEPT ![k] = 0])

\* A tick that is already pending absorbs another.
notifyAll ==
    IF sub.closed THEN panicked' = TRUE /\ UNCHANGED sub
    ELSE sub' = [sub EXCEPT !.tick = TRUE] /\ UNCHANGED panicked

WriteEnds ==
    /\ writer.holds \/ writer.notifies
    /\ writer' = NoWriter
    /\ IF writer.notifies THEN notifyAll ELSE UNCHANGED <<sub, panicked>>
    /\ UNCHANGED <<kind, upsets, data, version, backendClosed>> /\ UNCHANGED <<cacheVars, callerVars>>

\* close(c), and the channel taken off subs.
CloseSub ==
    /\ sub' = [sub EXCEPT !.listed = FALSE, !.closed = TRUE]
    /\ panicked' = (panicked \/ sub.closed)

\* The goroutine of MemoryBackend.Watch that waits for the context.
Unsubscribe ==
    /\ rstopped /\ LockFree /\ sub.listed
    /\ CloseSub
    /\ UNCHANGED <<kind, upsets, data, version, writer, backendClosed>> /\ UNCHANGED <<cacheVars, callerVars>>

\* RemoteSource.Close: the cache is dropped under the source's lock, then
\* the backend is closed under its own.  A poll is only cancelled.
CloseDrops ==
    /\ kind = "push" /\ rmain = "watching" /\ closing = "no"
    /\ closing' = "dropped"
    /\ cache' = [data |-> NoData, at |-> 0]
    /\ UNCHANGED <<kind, upsets, fetch, loop, rout, behind, refreshed, missed, rmain, rclient, remoteView, rstopped>>
    /\ UNCHANGED backendVars

CloseBackend ==
    /\ closing = "dropped" /\ LockFree
    /\ closing' = "closed"
    /\ backendClosed' = TRUE
    /\ IF sub.listed THEN CloseSub ELSE UNCHANGED <<sub, panicked>>
    /\ UNCHANGED <<kind, upsets, data, version, writer, rmain, rclient, remoteView, rstopped>>
    /\ UNCHANGED cacheVars
-----------------------------------------------------------------------------
(* refresh: readAll, then the swap under the source's lock.                *)
SetFetch(w, f) == fetch' = [fetch EXCEPT ![w] = f]
Present == {k \in RemoteKeys : data[k] # 0}

\* ListValues answers in one call; List is followed by a Get per key.
FetchList(w) ==
    /\ SetFetch(w, IF kind = "push"
                   THEN [pc |-> "swap", todo |-> {}, got |-> data, at |-> version]
                   ELSE [pc |-> IF Present = {} THEN "swap" ELSE "get", todo |-> Present,
                         got |-> NoData, at |-> version])
    /\ LockFree

\* A key deleted since the List is left out.
FetchGet(w) ==
    LET k == CHOOSE x \in fetch[w].todo : \A y \in fetch[w].todo : x <= y
        left == fetch[w].todo \ {k}
    IN  /\ fetch[w].pc = "get" /\ LockFree
        /\ SetFetch(w, [fetch[w] EXCEPT !.pc = IF left = {} THEN "swap" ELSE "get",
                                        !.todo = left, !.got[k] = data[k]])
        /\ UNCHANGED <<kind, upsets, cache, loop, rout, behind, refreshed, missed>>
        /\ UNCHANGED <<backendVars, callerVars>>

\* The swap; behind says whether data already replaced came back.
Install(w) ==
    /\ fetch[w].pc = "swap"
    /\ cache' = [data |-> fetch[w].got, at |-> fetch[w].at]
    /\ SetFetch(w, NoFetch)
    /\ behind' = (kind = "push" /\ fetch[w].at < IF behind THEN version ELSE cache.at)

\* A backend error at the List or at a Get: the cache stays as it was.
FetchFails(w) ==
    /\ fetch[w].pc \in {"idle", "get"}
    /\ RemoteUpset
    /\ SetFetch(w, NoFetch)
    /\ UNCHANGED <<cache, rout, refreshed, missed>>

\* NewRemoteSource; New then builds the first snapshot.
ConstructList ==
    /\ rmain = "construct" /\ rmain' = "fetch"
    /\ FetchList("main")
    /\ UNCHANGED <<kind, upsets, cache, loop, rout, behind, refreshed, missed, rclient, remoteView, rstopped, closing>>
    /\ UNCHANGED backendVars

ConstructSwap ==
    /\ rmain = "fetch" /\ rmain' = "built"
    /\ Install("main")
    /\ remoteView' = cache'.data
    /\ UNCHANGED <<kind, upsets, loop, rout, refreshed, missed, rclient, rstopped, closing>>
    /\ UNCHANGED backendVars

ConstructFails ==
    /\ rmain = "fetch" /\ rmain' = "failed"
    /\ FetchFails("main")
    /\ UNCHANGED <<kind, loop, behind, rclient, remoteView, rstopped, closing>> /\ UNCHANGED backendVars

\* RemoteSource.Watch.  A push subscription is listed under the backend's
\* lock.  Nothing looks for writes since the constructor read.
RemoteWatch ==
    /\ rmain = "built" /\ rmain' = "watching"
    /\ kind = "push" => LockFree
    /\ sub' = [sub EXCEPT !.listed = kind = "push"]
    /\ loop' = [loop EXCEPT !.pc = IF kind = "push" THEN "idle" ELSE "start"]
    /\ behind' = (kind = "push" /\ cache.at < version)
    /\ UNCHANGED <<kind, upsets, data, version, writer, backendClosed, panicked>>
    /\ UNCHANGED <<fetch, cache, rout, refreshed, missed, rclient, remoteView, rstopped, closing>>

RemoteCancel ==
    /\ rmain = "watching" /\ ~rstopped
    /\ rstopped' = TRUE
    /\ UNCHANGED <<kind, upsets, rmain, rclient, remoteView, closing>> /\ UNCHANGED <<backendVars, cacheVars>>

\* A client calls Refresh and then reloads the registry, once.
ClientList ==
    /\ rmain = "watching" /\ rclient = "idle" /\ rclient' = "fetch"
    /\ FetchList("client")
    /\ UNCHANGED <<kind, upsets, cache, loop, rout, behind, refreshed, missed, rmain, remoteView, rstopped, closing>>
    /\ UNCHANGED backendVars

ClientSwap ==
    /\ rclient = "fetch" /\ rclient' = "rebuild"
    /\ Install("client")
    /\ refreshed' = TRUE
    /\ UNCHANGED <<kind, upsets, loop, rout, missed, rmain, remoteView, rstopped, closing>> /\ UNCHANGED backendVars

ClientFails ==
    /\ rclient = "fetch" /\ rclient' = "done"
    /\ FetchFails("client")
    /\ UNCHANGED <<kind, loop, behind, rmain, remoteView, rstopped, closing>> /\ UNCHANGED backendVars

RemoteRebuild ==
    /\ rclient = "rebuild" /\ rclient' = "done"
    /\ remoteView' = cache.data
    /\ UNCHANGED <<kind, upsets, rmain, rstopped, closing>> /\ UNCHANGED <<backendVars, cacheVars>>
-----------------------------------------------------------------------------
(* The watch goroutine: fanWatch, woken by ticks of the subscription, or   *)
(* the loop of watchPoll, by its ticker.                                   *)
LoopUnchanged == UNCHANGED kind /\ UNCHANGED callerVars

\* watchPoll remembers the cache it starts from.
LoopStart ==
    /\ loop.pc = "start"
    /\ loop' = [loop EXCEPT !.pc = "idle", !.prev = cache.data]
    /\ refreshed' = FALSE
    /\ UNCHANGED <<upsets, fetch, cache, rout, behind, missed>> /\ UNCHANGED backendVars /\ LoopUnchanged

LoopTake ==
    /\ loop.pc = "idle"
    /\ IF kind = "push" THEN sub.tick /\ sub' = [sub EXCEPT !.tick = FALSE] ELSE UNCHANGED sub
    /\ loop' = [loop EXCEPT !.pc = "fetch"]
    /\ UNCHANGED <<upsets, fetch, cache, rout, behind, refreshed, missed>>
    /\ UNCHANGED <<data, version, writer, backendClosed, panicked>> /\ LoopUnchanged

LoopList ==
    /\ loop.pc = "fetch" /\ fetch["fan"].pc = "idle"
    /\ FetchList("fan")
    /\ UNCHANGED <<upsets, cache, loop, rout, behind, refreshed, missed>> /\ UNCHANGED backendVars /\ LoopUnchanged

LoopFails ==
    /\ loop.pc = "fetch"
    /\ FetchFails("fan")
    /\ loop' = [loop EXCEPT !.pc = "send", !.msg = "err"]
    /\ behind' = (behind \/ kind = "push")
    /\ UNCHANGED backendVars /\ LoopUnchanged

LoopSwap ==
    /\ loop.pc = "fetch"
    /\ Install("fan")
    /\ loop' = IF kind = "push" THEN [loop EXCEPT !.pc = "send", !.msg = "change"] ELSE [loop EXCEPT !.pc = "compare"]
    /\ UNCHANGED <<upsets, rout, refreshed, missed>> /\ UNCHANGED backendVars /\ LoopUnchanged

\* A rebuild is on its way to the registry.
onItsWay == rout = <<"change">> \/ loop.msg = "change" \/ rclient = "rebuild"

\* Mutant: what was sent last is not remembered.
LoopCompareStale ==
    /\ loop.pc = "compare"
    /\ loop' = IF cache.data = loop.prev THEN [loop EXCEPT !.pc = "idle"]
               ELSE [loop EXCEPT !.pc = "send", !.msg = "change"]
    /\ refreshed' = FALSE
    /\ UNCHANGED <<upsets, fetch, cache, rout, behind, missed>> /\ UNCHANGED backendVars /\ LoopUnchanged

\* watchPoll reads the cache again and says nothing when it has not changed
\* since it last looked.
LoopCompare ==
    /\ loop.pc = "compare"
    /\ IF cache.data = loop.prev
       THEN /\ loop' = [loop EXCEPT !.pc = "idle"]
            /\ missed' = IF refreshed /\ ~onItsWay /\ remoteView # cache.data THEN "now" ELSE missed
       ELSE /\ loop' = [pc |-> "send", prev |-> cache.data, msg |-> "change"]
            /\ missed' = IF missed = "now" THEN "before" ELSE missed
    /\ refreshed' = FALSE
    /\ UNCHANGED <<upsets, fetch, cache, rout, behind>> /\ UNCHANGED backendVars /\ LoopUnchanged

LoopSend ==
    /\ loop.pc = "send" /\ Len(rout) < 1
    /\ rout' = Append(rout, loop.msg)
    /\ loop' = [loop EXCEPT !.pc = "idle", !.msg = "none"]
    /\ UNCHANGED <<upsets, fetch, cache, behind, refreshed, missed>> /\ UNCHANGED backendVars /\ LoopUnchanged

\* Mutant of LoopEnd: a send waits for its reader only.
LoopEndIdle ==
    /\ loop.pc = "idle" /\ (rstopped \/ (sub.closed /\ ~sub.tick))
    /\ loop' = [pc |-> "done", prev |-> NoData, msg |-> "none"]
    /\ UNCHANGED <<upsets, fetch, cache, rout, behind, refreshed, missed>> /\ UNCHANGED backendVars /\ LoopUnchanged

\* The context has ended, or the subscription is closed and drained.
LoopEnd ==
    /\ \/ loop.pc \in {"idle", "send"} /\ rstopped
       \/ loop.pc = "idle" /\ sub.closed /\ ~sub.tick
    /\ loop' = [pc |-> "done", prev |-> NoData, msg |-> "none"]
    /\ UNCHANGED <<upsets, fetch, cache, rout, behind, refreshed, missed>> /\ UNCHANGED backendVars /\ LoopUnchanged

RemoteConsume ==
    /\ rout # <<>> /\ ~rstopped
    /\ rout' = Tail(rout)
    /\ remoteView' = IF Head(rout) = "change" THEN cache.data ELSE remoteView
    /\ UNCHANGED <<kind, upsets, fetch, cache, loop, behind, refreshed, missed, rmain, rclient, rstopped, closing>>
    /\ UNCHANGED backendVars
-----------------------------------------------------------------------------
BackendWrite == PutAll \/ \E k \in KeysOf[kind] : MemPut(k) \/ Delete(k)
RemoteMain == ConstructList \/ FetchGet("main") \/ ConstructSwap \/ ConstructFails \/ RemoteWatch
RemoteClient == FetchGet("client") \/ ClientSwap \/ ClientFails \/ RemoteRebuild
LoopStep == LoopStart \/ LoopTake \/ LoopList \/ FetchGet("fan") \/ LoopFails \/ LoopSwap \/ LoopCompare
            \/ LoopSend \/ LoopEnd

RemoteNext ==
    \/ BackendWrite \/ WriteEnds \/ Unsubscribe \/ CloseDrops \/ CloseBackend
    \/ RemoteMain \/ RemoteCancel \/ ClientList \/ RemoteClient \/ LoopStep \/ RemoteConsume

\* As for files; a write ends once begun.
RemoteFairness ==
    /\ WF_remoteVars(WriteEnds) /\ WF_remoteVars(Unsubscribe) /\ WF_remoteVars(CloseBackend)
    /\ WF_remoteVars(RemoteMain) /\ WF_remoteVars(RemoteClient)
    /\ WF_remoteVars(LoopStep) /\ WF_remoteVars(RemoteConsume)
    /\ SF_remoteVars(LoopEnd)

RemoteSpec == (\E k \in {"push", "poll"} : RemoteInitAs(k, "construct")) /\ [][RemoteNext]_remoteVars /\ RemoteFairness
-----------------------------------------------------------------------------
RemoteContract == INSTANCE WatchedSource WITH
    Holdings <- Data,
    phase <- IF rmain \in {"construct", "fetch", "failed"} THEN "new"
             ELSE IF rstopped \/ closing # "no" \/ missed # "no" THEN "over" ELSE "live",
    held <- cache.data, view <- remoteView,
    owed <- onItsWay \/ loop.pc = "compare"

\* Writes, cancels and Close, in any order, never send on a closed channel or
\* close one twice: "Notify while holding the lock: Close and a watch cancel
\* close the channels under it" (MemoryBackend).
BackendNoPanic == ~panicked

\* Once the backend is no longer written, the registry has what it holds: a
\* write that comes while the source is refreshing, or while its channel is
\* full, is refreshed again, and a poll that read half of a write reads the
\* rest.  Excepted: with notifications, a write before the subscription, a
\* refresh that failed and older data installed last (behind); with polls, a
\* client's refresh that came between two comparisons which found the same
\* data, as long as no later one finds a difference (missed).
RemoteConverges ==
    <>[](\/ rmain # "watching" \/ rstopped \/ closing # "no"
         \/ kind = "push" /\ behind
         \/ kind = "poll" /\ missed = "now"
         \/ remoteView = data)

\* "on each poll tick that finds the data changed" Watch emits a change
\* (RemoteSource.Watch): so a registry that polls ends up with the data of a
\* backend that nobody writes any more, whatever clients refreshed the source
\* and reloaded the registry meanwhile.
PollsConverge == <>[](kind = "poll" /\ rmain = "watching" /\ ~rstopped => remoteView = data)

\* The goroutine ends with its context, although nobody reads the channel,
\* and with the backend it is subscribed to.
RemoteEnds == rstopped \/ (kind = "push" /\ closing = "closed") ~> loop.pc \in {"off", "done"}
=============================================================================

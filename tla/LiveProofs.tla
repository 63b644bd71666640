----------------------------- MODULE LiveProofs -----------------------------
(***************************************************************************)
(* The watch engine's accounts, of the events it drops and of the sources  *)
(* it is subscribed to; what Live hands out, and its account of dropped    *)
(* events.  For any sources, contents and writes, any acceptance and       *)
(* decoding, any capacities and any number of callers of Live.Reload.      *)
(***************************************************************************)
EXTENDS Live, TLAPS

(* The watch engine.                                                       *)

Drops ==
    /\ dropped \in Nat
    /\ history \in [lost : Nat, reported : Nat]
    /\ DropsAccounted

Line == [src : Watchers \cup {"none"}, cancelled : BOOLEAN, closed : BOOLEAN,
         slot : {NoChangeYet, "ok", "err"}, fwd : {"off", "idle", "ok", "err"}]

\* A source owes changes only on lines it has not closed.
Channels ==
    /\ lines \in [Lines -> Line]
    /\ subs \in [Watchers -> Lines \cup {NoLine}]
    /\ \A l \in Lines \cap owed : ~lines[l].closed
    /\ unwatched \subseteq registered
    /\ "pc" \in DOMAIN loop

\* Nothing is subscribed before New has started the engine.
BeforeNew ==
    phase = "new" => /\ registered = {} /\ unwatched = {} /\ loop.pc = "off"
                     /\ \A s \in Watchers : subs[s] = NoLine
                     /\ \A l \in Lines : lines[l].cancelled

WatchInv == Drops /\ Channels /\ BeforeNew /\ SubscribedWhileRegistered

LEMMA LoopHasPc == "pc" \in DOMAIN LoopStart
BY DEF LoopStart

LEMMA FreeLineIsLine == FreeLine \in Line /\ FreeLine.cancelled /\ FreeLine.closed
BY DEF FreeLine, Line, NoChangeYet

LEMMA WatchInitInv == WatchInit => WatchInv
<1> SUFFICES ASSUME WatchInit PROVE WatchInv
  OBVIOUS
<1>1. loop.pc = "off" /\ "pc" \in DOMAIN loop
  BY LoopHasPc DEF WatchInit
<1>2. Drops
  BY DEF WatchInit, Drops, DropsAccounted
<1>3. lines = [l \in Lines |-> FreeLine] /\ subs = [s \in Watchers |-> NoLine] /\ owed = {} /\ unwatched = {}
  BY DEF WatchInit
<1>4. Channels
  BY <1>1, <1>3, FreeLineIsLine DEF Channels
<1>5. BeforeNew
  BY <1>1, <1>3, FreeLineIsLine DEF WatchInit, StoreInit, BeforeNew
<1>6. SubscribedWhileRegistered
  BY <1>1 DEF SubscribedWhileRegistered
<1> QED BY <1>2, <1>4, <1>5, <1>6 DEF WatchInv

\* emit either delivers the count and forgets it, or adds to both sides.
LEMMA EmitAccounts == ASSUME Drops, NEW evt, emit(evt) PROVE Drops'
<1>1. CASE Len(events) < EventBuf
  <2>1. dropped' = 0 /\ history' = [history EXCEPT !.reported = history.reported + dropped]
    BY <1>1 DEF emit
  <2>2. history.lost \in Nat /\ history.reported \in Nat /\ dropped \in Nat
    BY DEF Drops
  <2>3. history' = [lost |-> history.lost, reported |-> history.reported + dropped]
    BY <2>1 DEF Drops
  <2> QED BY <2>1, <2>2, <2>3 DEF Drops, DropsAccounted
<1>2. CASE ~(Len(events) < EventBuf)
  <2>1. dropped' = dropped + 1 /\ history' = [history EXCEPT !.lost = history.lost + 1]
    BY <1>2 DEF emit
  <2>2. history.lost \in Nat /\ history.reported \in Nat /\ dropped \in Nat
    BY DEF Drops
  <2>3. history' = [lost |-> history.lost + 1, reported |-> history.reported]
    BY <2>1 DEF Drops
  <2> QED BY <2>1, <2>2, <2>3 DEF Drops, DropsAccounted
<1> QED BY <1>1, <1>2

LEMMA DropsStay == ASSUME Drops, UNCHANGED <<dropped, history>> PROVE Drops'
BY DEF Drops, DropsAccounted

\* The steps that leave subscriptions and lines alone: at most the loop moves
\* on, and only a cancelled one leaves.
LEMMA SubscriptionsStay ==
    ASSUME Channels, BeforeNew, SubscribedWhileRegistered,
           UNCHANGED <<subs, lines, unwatched, registered>>,
           phase' = "new" => phase = "new", phase = "new" => loop' = loop,
           \A l \in Lines \cap owed' : ~lines[l].closed,
           ctxDone => ctxDone', "pc" \in DOMAIN loop',
           loop.pc \in {"off", "exit"} => loop'.pc \in {"off", "exit"} \/ ctxDone'
    PROVE  Channels' /\ BeforeNew' /\ SubscribedWhileRegistered'
<1>1. Channels'
  BY DEF Channels
<1>2. BeforeNew'
  BY DEF BeforeNew
<1>3. Subscribed => Subscribed'
  BY DEF Subscribed, Subscriptions, Forwarded
<1> QED BY <1>1, <1>2, <1>3 DEF SubscribedWhileRegistered

\* The steps along the lines: none of them leaves a line before its end.
LEMMA LineSteps ==
    ASSUME Channels, BeforeNew, SubscribedWhileRegistered,
           UNCHANGED <<subs, unwatched, registered, phase, loop, ctxDone>>,
           lines' \in [Lines -> Line],
           \A l \in Lines : /\ lines'[l].src = lines[l].src
                            /\ lines'[l].cancelled = lines[l].cancelled
                            /\ ctxDone \/ (Forwarded(l) => Forwarded(l)'),
           \A l \in Lines \cap owed' : ~lines'[l].closed
    PROVE  Channels' /\ BeforeNew' /\ SubscribedWhileRegistered'
<1>1. Channels'
  BY DEF Channels
<1>2. BeforeNew'
  BY DEF BeforeNew
<1>3. ASSUME ~ctxDone, Subscribed PROVE Subscribed'
  <2>1. Subscriptions' = Subscriptions /\ \A s \in Subscriptions : subs[s] \in Lines
    BY DEF Subscriptions, Channels
  <2>2. {l \in Lines : ~lines'[l].cancelled} = {l \in Lines : ~lines[l].cancelled}
    OBVIOUS
  <2>3. \A s \in Subscriptions : lines'[subs[s]].src = s /\ Forwarded(subs[s])'
    BY <1>3, <2>1 DEF Subscribed
  <2>4. UNCHANGED <<subs, unwatched, registered>>
    OBVIOUS
  <2> QED BY <1>3, <2>1, <2>2, <2>3, <2>4 DEF Subscribed, Forwarded
<1> QED BY <1>1, <1>2, <1>3 DEF SubscribedWhileRegistered

\* New contents are owed by a source that has not closed its line.
LEMMA OweKeeps ==
    ASSUME Channels, OweChanges
    PROVE  \A l \in Lines \cap owed' : ~lines[l].closed
<1>1. PICK changed : /\ \A s \in changed : Watched(s) \/ s \notin Watchers
                     /\ owed' = owed \cup {subs[s] : s \in changed \cap Watchers}
  BY DEF OweChanges
<1>2. \A s \in changed \cap Watchers : ~lines[subs[s]].closed
  BY <1>1 DEF Watched
<1> QED BY <1>1, <1>2 DEF Channels

LEMMA LineOfIsLine ==
    ASSUME NEW s \in Watchers
    PROVE  LineOf(s) \in Line /\ LineOf(s).src = s /\ ~LineOf(s).cancelled /\ ~LineOf(s).closed /\ LineOf(s).fwd = "idle"
BY DEF LineOf, Line, NoChangeYet

\* The lines handed out are spare, and each added watcher has its own.
LEMMA HandedOut ==
    ASSUME NEW added \in SUBSET Watchers, NEW on \in NewLines(added)
    PROVE  /\ DOMAIN on \subseteq added
           /\ \A s \in DOMAIN on : /\ on[s] \in Lines /\ on[s] \in Range(on) /\ Spare(on[s])
                                   /\ SetUp(on, on[s]) = LineOf(s)
           /\ \A l \in Range(on) : \E s \in DOMAIN on : l = on[s]
<1>1. PICK watched \in SUBSET added : on \in Injection(watched, {l \in Lines : Spare(l)})
  BY DEF NewLines
<1>2. on \in [watched -> {l \in Lines : Spare(l)}] /\ \A s, t \in DOMAIN on : on[s] = on[t] => s = t
  BY <1>1 DEF Injection, IsInjective
<1>3. ASSUME NEW s \in DOMAIN on PROVE SetUp(on, on[s]) = LineOf(s)
  <2>1. (CHOOSE t \in DOMAIN on : on[t] = on[s]) = s
    BY <1>2
  <2> QED BY <2>1 DEF SetUp
<1> QED BY <1>2, <1>3 DEF Range

\* A change of the source list is followed by the subscriptions.
LEMMA SubscribeKeeps ==
    ASSUME Channels, OweChanges, Subscribe, UNCHANGED ctxDone, "pc" \in DOMAIN loop'
    PROVE  Channels' /\ (~ctxDone /\ Subscribed => Subscribed')
<1> DEFINE added == (registered' \ registered) \cap Watchers
           cancelled == {subs[s] : s \in Watchers \ registered'}
<1>1. PICK on \in NewLines(added) :
          /\ subs' = [s \in Watchers |-> IF s \in DOMAIN on THEN on[s]
                                        ELSE IF s \in registered' THEN subs[s] ELSE NoLine]
          /\ lines' = [l \in Lines |-> IF l \in Range(on) THEN SetUp(on, l)
                                      ELSE [lines[l] EXCEPT !.cancelled = lines[l].cancelled \/ l \in cancelled]]
          /\ unwatched' = (unwatched \cap registered') \cup (added \ DOMAIN on)
  BY DEF Subscribe
<1> HIDE DEF added, cancelled
<1>2. added \subseteq Watchers /\ \A s \in added : s \in registered' /\ s \notin registered
  BY DEF added
<1>3. /\ DOMAIN on \subseteq added
      /\ \A s \in DOMAIN on : /\ on[s] \in Lines /\ on[s] \in Range(on) /\ Spare(on[s])
                              /\ SetUp(on, on[s]) = LineOf(s)
      /\ \A l \in Range(on) : \E s \in DOMAIN on : l = on[s]
  BY <1>1, <1>2, HandedOut
<1>4. ASSUME NEW s \in DOMAIN on
      PROVE  /\ subs'[s] = on[s] /\ lines'[on[s]] = LineOf(s)
  BY <1>1, <1>2, <1>3
<1>5. ASSUME NEW l \in Lines, l \notin Range(on)
      PROVE  /\ lines'[l] \in Line
             /\ lines'[l].src = lines[l].src /\ lines'[l].closed = lines[l].closed
             /\ lines'[l].cancelled = (lines[l].cancelled \/ l \in cancelled)
             /\ lines'[l].slot = lines[l].slot /\ lines'[l].fwd = lines[l].fwd
  <2>1. lines'[l] = [lines[l] EXCEPT !.cancelled = lines[l].cancelled \/ l \in cancelled] /\ lines[l] \in Line
    BY <1>1, <1>5 DEF Channels
  <2> QED BY <2>1 DEF Line
<1>6. Channels'
  <2>1. \A l \in Lines : lines'[l] \in Line
    BY <1>2, <1>3, <1>4, <1>5, LineOfIsLine
  <2>2. lines' \in [Lines -> Line]
    BY <1>1, <2>1
  <2>3. subs' \in [Watchers -> Lines \cup {NoLine}]
    BY <1>1, <1>3 DEF Channels
  <2>4. \A l \in Lines \cap owed' : ~lines'[l].closed
    BY <1>2, <1>3, <1>4, <1>5, LineOfIsLine, OweKeeps
  <2>5. unwatched' \subseteq registered'
    BY <1>1, <1>2
  <2> QED BY <2>2, <2>3, <2>4, <2>5 DEF Channels
<1>7. ASSUME ~ctxDone, Subscribed PROVE Subscribed'
  <2>1. /\ Subscriptions = (registered \cap Watchers) \ unwatched
        /\ {l \in Lines : ~lines[l].cancelled} = {subs[s] : s \in Subscriptions}
        /\ \A s \in Subscriptions : lines[subs[s]].src = s /\ Forwarded(subs[s])
    BY <1>7 DEF Subscribed
  <2>2. NoLine \notin Lines
    BY WatchAssumption DEF NoLine
  <2>3. Subscriptions' = DOMAIN on \cup (registered' \cap Subscriptions)
    BY <1>1, <1>2, <1>3, <2>1, <2>2 DEF Subscriptions, Channels
  <2>4. Subscriptions' = (registered' \cap Watchers) \ unwatched'
    BY <1>1, <1>2, <1>3, <2>1, <2>3 DEF Channels, added
  <2>5. ASSUME NEW s \in registered' \cap Subscriptions
        PROVE  /\ s \in Watchers /\ subs'[s] = subs[s] /\ subs[s] \in Lines
               /\ subs[s] \notin Range(on) /\ subs[s] \notin cancelled
    <3>1. s \in Watchers /\ subs[s] \in Lines /\ s \notin DOMAIN on /\ s \in registered'
      BY <1>2, <1>3, <2>1, <2>5 DEF Subscriptions, Channels
    <3>2. subs[s] \notin Range(on)
      BY <1>3, <3>1 DEF Spare
    <3>3. \A t \in Watchers \ registered' : subs[t] # subs[s]
      BY <2>1, <2>2, <2>5, <3>1 DEF Subscriptions
    <3> QED BY <1>1, <3>1, <3>2, <3>3 DEF cancelled
  <2>6. ASSUME NEW l \in Lines PROVE ~lines'[l].cancelled <=> \E s \in Subscriptions' : l = subs'[s]
    <3>1. CASE l \in Range(on)
      <4>1. PICK s \in DOMAIN on : l = on[s]
        BY <1>3, <3>1
      <4>2. s \in Subscriptions' /\ l = subs'[s] /\ ~lines'[l].cancelled
        BY <1>2, <1>3, <1>4, <2>3, <4>1, LineOfIsLine
      <4> QED BY <4>2
    <3>2. CASE l \notin Range(on)
      <4>1. ASSUME ~lines'[l].cancelled PROVE \E s \in Subscriptions' : l = subs'[s]
        <5>1. ~lines[l].cancelled /\ l \notin cancelled
          BY <1>5, <3>2, <4>1
        <5>2. PICK s \in Subscriptions : l = subs[s]
          BY <2>1, <5>1
        <5>3. s \in registered'
          BY <5>1, <5>2 DEF cancelled, Subscriptions
        <5> QED BY <2>3, <2>5, <5>2, <5>3
      <4>2. ASSUME NEW s \in Subscriptions', l = subs'[s] PROVE ~lines'[l].cancelled
        <5>1. s \in registered' \cap Subscriptions
          BY <1>3, <1>4, <2>3, <3>2, <4>2
        <5>2. l = subs[s] /\ l \notin cancelled
          BY <2>5, <4>2, <5>1
        <5>3. ~lines[l].cancelled
          BY <2>1, <5>1, <5>2
        <5> QED BY <1>5, <3>2, <5>2, <5>3
      <4> QED BY <4>1, <4>2
    <3> QED BY <3>1, <3>2
  <2>7. ASSUME NEW s \in Subscriptions' PROVE subs'[s] \in Lines /\ lines'[subs'[s]].src = s /\ Forwarded(subs[s])'
    <3>1. CASE s \in DOMAIN on
      BY <1>2, <1>3, <1>4, <3>1, LineOfIsLine DEF Forwarded
    <3>2. CASE s \in registered' \cap Subscriptions
      BY <1>5, <2>1, <2>5, <3>2 DEF Forwarded
    <3> QED BY <2>3, <3>1, <3>2
  <2>8. {l \in Lines : ~lines'[l].cancelled} = {subs'[s] : s \in Subscriptions'}
    BY <2>6, <2>7
  <2> QED BY <2>4, <2>7, <2>8 DEF Subscribed
<1> QED BY <1>6, <1>7

LEMMA OwnerKeeps == ASSUME WatchInv, Owner \/ WatchCloseBegin PROVE WatchInv'
<1>1. Drops'
  BY DropsStay DEF WatchInv, Owner, WatchNew, Cancel, WatchCloseSources, WatchCloseBegin, engineVars
<1>2. CASE WatchNew
  <2>1. /\ phase = "new" /\ registered = {} /\ unwatched = {}
        /\ \A s \in Watchers : subs[s] = NoLine
        /\ \A l \in Lines : lines[l].cancelled
        /\ phase' \in {"open", "failed"} /\ UNCHANGED ctxDone /\ OweChanges
    BY <1>2 DEF WatchNew, Open, WatchInv, BeforeNew
  <2>2. CASE phase' = "open"
    <3>1. Subscribe /\ "pc" \in DOMAIN loop'
      BY <1>2, <2>2, LoopHasPc DEF WatchNew
    <3>2. Subscribed
      BY <2>1 DEF Subscribed, Subscriptions
    <3>3. Channels' /\ (~ctxDone' => Subscribed')
      BY <2>1, <3>1, <3>2, SubscribeKeeps DEF WatchInv
    <3> QED BY <1>1, <2>2, <3>3 DEF WatchInv, BeforeNew, SubscribedWhileRegistered
  <2>3. CASE phase' = "failed"
    <3>1. UNCHANGED <<subs, lines, unwatched, loop>> /\ loop.pc = "off"
      BY <1>2, <2>1, <2>3 DEF WatchNew, WatchInv, BeforeNew
    <3>2. Channels'
      BY <2>1, <3>1, OweKeeps DEF WatchInv, Channels
    <3> QED BY <1>1, <2>3, <3>1, <3>2 DEF WatchInv, BeforeNew, SubscribedWhileRegistered
  <2> QED BY <2>1, <2>2, <2>3
<1>3. CASE Cancel
  <2>1. UNCHANGED <<subs, lines, unwatched, owed, registered, phase, loop>> /\ ctxDone'
    BY <1>3 DEF Cancel, storeVars, sourceVars
  <2> QED BY <1>1, <2>1, SubscriptionsStay DEF WatchInv, Channels
<1>4. CASE WatchCloseSources \/ WatchCloseBegin
  <2>1. /\ UNCHANGED <<subs, lines, unwatched, owed, registered, loop, ctxDone>>
        /\ phase # "new" /\ phase' # "new"
    BY <1>4 DEF WatchCloseSources, WatchCloseBegin, BeginClose, EndClose, engineVars, sourceVars
  <2> QED BY <1>1, <2>1, SubscriptionsStay DEF WatchInv, Channels
<1> QED BY <1>2, <1>3, <1>4 DEF Owner

LEMMA WriterKeeps == ASSUME WatchInv, NEW w \in Writes, WatchClient(w) PROVE WatchInv'
<1>1. Drops'
  BY DropsStay DEF WatchInv, WatchClient
<1>2. Usable /\ OweChanges /\ Subscribe /\ UNCHANGED <<phase, loop, ctxDone>>
  BY DEF WatchClient
<1>3. phase' # "new" /\ "pc" \in DOMAIN loop'
  BY <1>2 DEF Usable, WatchInv, Channels
<1>4. Channels' /\ (~ctxDone /\ Subscribed => Subscribed')
  BY <1>2, <1>3, SubscribeKeeps DEF WatchInv
<1> QED BY <1>1, <1>2, <1>3, <1>4 DEF WatchInv, BeforeNew, SubscribedWhileRegistered

LEMMA SourceKeeps ==
    ASSUME WatchInv, (\E s, c : SourceSwap(s, c)) \/ PollTick \/ PollSend \/ QueueWarning \/ TimerFires \/ Consume
    PROVE  WatchInv'
<1>1. UNCHANGED <<dropped, history, subs, lines, unwatched, loop, ctxDone, registered, phase>>
  BY DEF SourceSwap, Swap, PollTick, PollSend, QueueWarning, TimerFires, Consume, storeVars, sourceVars
<1>2. UNCHANGED owed \/ OweChanges
  BY DEF SourceSwap, PollTick, PollSend, QueueWarning, TimerFires, Consume, sourceVars
<1>3. \A l \in Lines \cap owed' : ~lines[l].closed
  BY <1>2, OweKeeps DEF WatchInv, Channels
<1> QED BY <1>1, <1>3, DropsStay, SubscriptionsStay DEF WatchInv, Channels

LEMMA LineKeeps ==
    ASSUME WatchInv, NEW l \in Lines, SourceFails(l) \/ Notify(l) \/ SourceCloses(l) \/ Forward(l)
    PROVE  WatchInv'
<1>1. UNCHANGED <<dropped, history, subs, unwatched, registered, phase, loop, ctxDone>> /\ owed' \subseteq owed
  BY DEF SourceFails, Notify, SourceCloses, Forward, ForwardReceive, ForwardSend, ForwardExit, storeVars
<1>2. lines \in [Lines -> Line] /\ lines[l] \in Line /\ (l \in owed => ~lines[l].closed)
  BY DEF WatchInv, Channels
<1>3. \E line \in Line :
         /\ lines' = [lines EXCEPT ![l] = line]
         /\ line.src = lines[l].src /\ line.cancelled = lines[l].cancelled
         /\ l \in owed' => ~line.closed
         /\ ctxDone \/ (lines[l].fwd # "off" \/ (lines[l].closed /\ lines[l].slot = NoChangeYet)
                          => line.fwd # "off" \/ (line.closed /\ line.slot = NoChangeYet))
  <2>1. CASE UNCHANGED lines
    BY <1>1, <1>2, <2>1
  <2>2. CASE SourceFails(l) \/ (Notify(l) /\ lines' # lines)
    <3>1. PICK x \in {"ok", "err"} : lines' = [lines EXCEPT ![l].slot = x] /\ ~lines[l].closed
      BY <1>2, <2>2 DEF SourceFails, Notify
    <3>2. [lines[l] EXCEPT !.slot = x] \in Line
      BY <1>2, <3>1 DEF Line
    <3> WITNESS [lines[l] EXCEPT !.slot = x] \in Line
    <3> QED BY <1>1, <1>2, <3>1 DEF Line
  <2>3. CASE SourceCloses(l)
    <3>1. [lines[l] EXCEPT !.closed = TRUE] \in Line
      BY <1>2 DEF Line
    <3> WITNESS [lines[l] EXCEPT !.closed = TRUE] \in Line
    <3> QED BY <1>1, <1>2, <2>3 DEF Line, SourceCloses
  <2>4. CASE ForwardReceive(l)
    <3>1. [lines[l] EXCEPT !.fwd = lines[l].slot, !.slot = NoChangeYet] \in Line
      BY <1>2, <2>4 DEF Line, ForwardReceive, NoChangeYet
    <3> WITNESS [lines[l] EXCEPT !.fwd = lines[l].slot, !.slot = NoChangeYet] \in Line
    <3> QED BY <1>1, <1>2, <2>4 DEF Line, ForwardReceive, NoChangeYet
  <2>5. CASE ForwardSend(l)
    <3>1. [lines[l] EXCEPT !.fwd = "idle"] \in Line
      BY <1>2 DEF Line
    <3> WITNESS [lines[l] EXCEPT !.fwd = "idle"] \in Line
    <3> QED BY <1>1, <1>2, <2>5 DEF Line, ForwardSend
  <2>6. CASE ForwardExit(l)
    <3>1. [lines[l] EXCEPT !.fwd = "off"] \in Line
      BY <1>2 DEF Line
    <3> WITNESS [lines[l] EXCEPT !.fwd = "off"] \in Line
    <3> QED BY <1>1, <1>2, <2>6 DEF Line, ForwardExit, Drained
  <2> QED BY <2>1, <2>2, <2>3, <2>4, <2>5, <2>6 DEF Forward, Notify
<1>4. PICK line \in Line :
         /\ lines' = [lines EXCEPT ![l] = line]
         /\ line.src = lines[l].src /\ line.cancelled = lines[l].cancelled
         /\ l \in owed' => ~line.closed
         /\ ctxDone \/ (lines[l].fwd # "off" \/ (lines[l].closed /\ lines[l].slot = NoChangeYet)
                          => line.fwd # "off" \/ (line.closed /\ line.slot = NoChangeYet))
  BY <1>3
<1>5. lines'[l] = line /\ \A m \in Lines \ {l} : lines'[m] = lines[m]
  BY <1>2, <1>4
<1>6. /\ lines' \in [Lines -> Line]
      /\ \A m \in Lines : /\ lines'[m].src = lines[m].src
                          /\ lines'[m].cancelled = lines[m].cancelled
                          /\ ctxDone \/ (Forwarded(m) => Forwarded(m)')
      /\ \A m \in Lines \cap owed' : ~lines'[m].closed
  BY <1>1, <1>2, <1>4, <1>5 DEF Forwarded, WatchInv, Channels
<1> QED BY <1>1, <1>6, DropsStay, LineSteps DEF WatchInv

LEMMA LoopKeeps == ASSUME WatchInv, Loop PROVE WatchInv'
<1>1. UNCHANGED <<subs, lines, unwatched, registered, phase, ctxDone>>
  BY DEF Loop, LoopTake, LoopFire, LoopRebuild, LoopReport, LoopExit, storeVars, sourceVars, Attempt
<1>2. Drops'
  <2>1. CASE LoopTake
    BY <2>1, EmitAccounts, DropsStay DEF LoopTake, WatchInv
  <2>2. CASE LoopReport
    BY <2>2, EmitAccounts DEF LoopReport, WatchInv
  <2>3. CASE LoopFire \/ LoopRebuild \/ LoopExit
    BY <2>3, DropsStay DEF LoopFire, LoopRebuild, LoopExit, WatchInv
  <2> QED BY <2>1, <2>2, <2>3 DEF Loop
<1>3. loop.pc \notin {"off", "exit"} /\ "pc" \in DOMAIN loop'
  BY DEF Loop, LoopTake, LoopFire, LoopRebuild, LoopReport, LoopExit, LoopStart, WatchInv, Channels
<1>4. UNCHANGED owed \/ OweChanges
  BY DEF Loop, LoopTake, LoopFire, LoopRebuild, LoopReport, LoopExit, sourceVars
<1>5. \A l \in Lines \cap owed' : ~lines[l].closed
  BY <1>4, OweKeeps DEF WatchInv, Channels
<1> QED BY <1>1, <1>2, <1>3, <1>5, SubscriptionsStay DEF WatchInv, BeforeNew

LEMMA WatchNextKeeps == WatchInv /\ [WatchNext]_watchVars => WatchInv'
<1> SUFFICES ASSUME WatchInv, [WatchNext]_watchVars PROVE WatchInv'
  OBVIOUS
<1>1. CASE UNCHANGED watchVars
  BY <1>1, DropsStay, SubscriptionsStay DEF watchVars, storeVars, engineVars, sourceVars, WatchInv, Channels
<1>2. CASE EngineNext \/ Consume
  BY <1>2, OwnerKeeps, WriterKeeps, SourceKeeps, LineKeeps, LoopKeeps DEF EngineNext
<1> QED BY <1>1, <1>2 DEF WatchNext

\* Every drop of the full events channel is told to the consumers exactly
\* once, or still counted, whatever the engine's goroutines do (emit).
THEOREM DropsTold == WatchSpec => []DropsAccounted
<1>1. WatchInv => DropsAccounted
  BY DEF WatchInv, Drops
<1> QED BY <1>1, WatchInitInv, WatchNextKeeps, PTL DEF WatchSpec

\* Through every sequence of added and removed sources, rejected ones
\* included, the engine is subscribed to what is registered, and each
\* subscription has its goroutine (subscribeLocked, unsubscribeLocked).
THEOREM SubscriptionsFollow == WatchSpec => []SubscribedWhileRegistered
<1>1. WatchInv => SubscribedWhileRegistered
  BY DEF WatchInv
<1> QED BY <1>1, WatchInitInv, WatchNextKeeps, PTL DEF WatchSpec
-----------------------------------------------------------------------------
(* Live.                                                                   *)

Good(c) == c # Nothing /\ Binds(c) /\ Acceptable(c.settings, c.registered, c.view)

InstalledGood ==
    installed # NotInstalled => Acceptable(installed.settings, installed.registered, installed.view)

Binder(b) == "pc" \in DOMAIN b /\ "next" \in DOMAIN b

\* What was bound and waits to be stored is nothing or good, although the
\* snapshot may have been replaced since.
Bound(b) == b.pc = "store" /\ b.next # Nothing => Good(b.next)

RunGood == Binder(run) /\ Bound(run)
ReloadsGood == \A t \in Reloaders : t \in DOMAIN reload /\ Binder(reload[t]) /\ Bound(reload[t])

LiveDrops ==
    /\ liveDropped \in Nat
    /\ liveHistory \in [lost : Nat, reported : Nat]
    /\ LiveDropsAccounted

HandsInv == InstalledGood /\ RunGood /\ ReloadsGood /\ HandsOutGood

LEMMA BinderOff == Binder(RunOff) /\ RunOff.pc = "off"
BY DEF Binder, RunOff

LEMMA BinderReady == Binder(Ready) /\ Ready.pc = "select"
<1>1. Ready = [pc |-> "select", evt |-> Nothing, next |-> Nothing]
  BY DEF Ready, RunOff
<1> QED BY <1>1 DEF Binder

LEMMA LiveInitInv == LiveInit => HandsInv /\ LiveDrops
<1> SUFFICES ASSUME LiveInit PROVE HandsInv /\ LiveDrops
  OBVIOUS
<1>1. InstalledGood
  BY DEF LiveInit, WatchInit, StoreInit, InstalledGood
<1>2. RunGood /\ HandsOutGood
  BY BinderOff DEF LiveInit, RunGood, Bound, HandsOutGood
<1>3. ReloadsGood
  BY BinderOff DEF LiveInit, ReloadsGood, Bound
<1>4. LiveDrops
  BY DEF LiveInit, LiveDrops, LiveDropsAccounted
<1> QED BY <1>1, <1>2, <1>3, <1>4 DEF HandsInv

\* The registry installs only what was accepted.
LEMMA AttemptGood ==
    ASSUME InstalledGood, NEW set, NEW reg, NEW ok \in BOOLEAN, Attempt(set, reg, ok) PROVE InstalledGood'
<1>1. PICK r : /\ ok = Acceptable(set, reg, r.view)
               /\ IF ok THEN installed' = Configuration(set, reg, r.view) ELSE UNCHANGED installed
  BY DEF Attempt
<1>2. CASE ok
  <2>1. installed' = [settings |-> set, registered |-> reg, view |-> r.view]
    BY <1>1, <1>2 DEF Configuration
  <2> QED BY <1>1, <1>2, <2>1 DEF InstalledGood
<1>3. CASE ~ok
  BY <1>1, <1>3 DEF InstalledGood, NotInstalled
<1> QED BY <1>2, <1>3

LEMMA OpenGood == ASSUME InstalledGood, Open PROVE InstalledGood'
<1>1. PICK r : IF Acceptable(InitialSettings, InitialRegistered, r.view)
               THEN installed' = Configuration(InitialSettings, InitialRegistered, r.view)
               ELSE UNCHANGED installed
  BY DEF Open
<1>2. CASE Acceptable(InitialSettings, InitialRegistered, r.view)
  <2>1. installed' = [settings |-> InitialSettings, registered |-> InitialRegistered, view |-> r.view]
    BY <1>1, <1>2 DEF Configuration
  <2> QED BY <1>2, <2>1 DEF InstalledGood
<1>3. CASE ~Acceptable(InitialSettings, InitialRegistered, r.view)
  BY <1>1, <1>3 DEF InstalledGood, NotInstalled
<1> QED BY <1>2, <1>3

LEMMA InstalledStays == ASSUME InstalledGood, UNCHANGED installed PROVE InstalledGood'
BY DEF InstalledGood, NotInstalled

LEMMA EngineGood == ASSUME InstalledGood, EngineNext PROVE InstalledGood'
<1>1. CASE Owner \/ WatchCloseBegin
  <2>1. CASE WatchNew
    BY <2>1, OpenGood DEF WatchNew
  <2>2. CASE Cancel \/ WatchCloseSources \/ WatchCloseBegin
    BY <2>2, InstalledStays DEF Cancel, WatchCloseSources, WatchCloseBegin, BeginClose, EndClose, storeVars
  <2> QED BY <1>1, <2>1, <2>2 DEF Owner
<1>2. ASSUME NEW w \in Writes, WatchClient(w) PROVE InstalledGood'
  BY <1>2, AttemptGood DEF WatchClient
<1>3. CASE Loop
  <2>1. CASE LoopRebuild
    BY <2>1, AttemptGood DEF LoopRebuild
  <2>2. CASE LoopTake \/ LoopFire \/ LoopReport \/ LoopExit
    BY <2>2, InstalledStays DEF LoopTake, LoopFire, LoopReport, LoopExit, storeVars
  <2> QED BY <1>3, <2>1, <2>2 DEF Loop
<1>4. ASSUME (\E s, c : SourceSwap(s, c)) \/ PollTick \/ PollSend \/ QueueWarning \/ TimerFires
               \/ \E l : SourceFails(l) \/ Notify(l) \/ SourceCloses(l) \/ Forward(l)
      PROVE  InstalledGood'
  BY <1>4, InstalledStays DEF SourceSwap, Swap, SourceFails, Notify, SourceCloses, Forward, ForwardReceive, ForwardSend,
     ForwardExit, PollTick, PollSend, QueueWarning, TimerFires, storeVars
<1> QED BY <1>1, <1>2, <1>3, <1>4 DEF EngineNext

LEMMA DecodeGood == ASSUME InstalledGood, decode # Nothing PROVE Good(decode)
<1>1. decode = installed /\ installed # NotInstalled /\ Binds(installed)
  BY DEF decode
<1> QED BY <1>1 DEF InstalledGood, Good

LEMMA BindsGood ==
    ASSUME InstalledGood, NEW b, NEW c, Binder(b), c = [b EXCEPT !.pc = "store", !.next = decode]
    PROVE  Binder(c) /\ Bound(c) /\ c.pc = "store"
<1>1. Binder(c) /\ c.pc = "store" /\ c.next = decode
  BY DEF Binder
<1> QED BY <1>1, DecodeGood DEF Bound

\* A store keeps what is handed out good.
LEMMA StoreGood ==
    ASSUME HandsOutGood, run.pc # "off", NEW next, next # Nothing => Good(next),
           curr' = IF Failed(next) THEN curr ELSE next
    PROVE  HandsOutGood'
BY DEF HandsOutGood, Failed, Good, Nothing

LEMMA HandsStay == ASSUME HandsOutGood, UNCHANGED curr, run'.pc # "off" => run.pc # "off" PROVE HandsOutGood'
BY DEF HandsOutGood, Nothing

LEMMA LiveNextKeeps == HandsInv /\ [LiveNext]_allVars => HandsInv'
<1> SUFFICES ASSUME HandsInv, [LiveNext]_allVars PROVE HandsInv'
  OBVIOUS
<1> USE DEF HandsInv
<1>1. CASE UNCHANGED liveVars /\ (EngineNext \/ UNCHANGED watchVars)
  <2>1. InstalledGood'
    BY <1>1, EngineGood, InstalledStays DEF watchVars, storeVars
  <2>2. UNCHANGED <<run, reload, curr>>
    BY <1>1 DEF liveVars
  <2>3. RunGood' /\ ReloadsGood' /\ HandsOutGood'
    BY <2>2, HandsStay DEF RunGood, ReloadsGood, Binder, Bound, Good, Nothing
  <2> QED BY <2>1, <2>3
<1>2. CASE NewLive
  <2>1. UNCHANGED <<installed, reload>> /\ run' = Ready /\ decode # Nothing /\ curr' = decode
    BY <1>2 DEF NewLive, otherVars, storeVars
  <2>2. RunGood'
    BY <2>1, BinderReady DEF RunGood, Bound
  <2>3. HandsOutGood'
    BY <2>1, DecodeGood DEF HandsOutGood, Good, Nothing
  <2> QED BY <2>1, <2>2, <2>3, InstalledStays DEF ReloadsGood, Binder, Bound, Good, Nothing
<1>3. CASE Run
  <2>1. UNCHANGED <<installed, reload>> /\ run.pc # "off"
    BY <1>3 DEF Run, LiveTake, LiveBind, LiveStore, LiveExit, otherVars, storeVars, watchVars
  <2>2. RunGood'
    <3>1. CASE LiveTake
      <4>1. run' = run \/ \E e : run' = [run EXCEPT !.pc = "bind", !.evt = e]
        BY <3>1 DEF LiveTake
      <4>2. Binder(run') /\ (run' = run \/ run'.pc = "bind")
        BY <4>1 DEF RunGood, Binder
      <4> QED BY <4>2 DEF RunGood, Bound, Good, Nothing
    <3>2. CASE LiveBind
      BY <3>2, BindsGood DEF LiveBind, RunGood
    <3>3. CASE LiveStore
      BY <3>3, BinderReady DEF LiveStore, RunGood, Bound
    <3>4. CASE LiveExit
      <4>1. run' = [pc |-> "exit", evt |-> Nothing, next |-> Nothing]
        BY <3>4 DEF LiveExit, RunOff
      <4> QED BY <4>1 DEF RunGood, Binder, Bound
    <3> QED BY <1>3, <3>1, <3>2, <3>3, <3>4 DEF Run
  <2>3. HandsOutGood'
    <3>1. CASE LiveStore
      BY <3>1, <2>1, StoreGood DEF LiveStore, RunGood, Bound
    <3>2. CASE LiveTake \/ LiveBind \/ LiveExit
      BY <3>2, <2>1, HandsStay DEF LiveTake, LiveBind, LiveExit
    <3> QED BY <1>3, <3>1, <3>2 DEF Run
  <2> QED BY <2>1, <2>2, <2>3, InstalledStays DEF ReloadsGood, Binder, Bound, Good, Nothing
<1>4. CASE LiveClose \/ LiveConsume
  <2>1. UNCHANGED <<installed, run, reload, curr>>
    BY <1>4 DEF LiveClose, LiveConsume, watchVars, storeVars
  <2> QED BY <2>1, InstalledStays, HandsStay DEF RunGood, ReloadsGood, Binder, Bound, Good, Nothing
<1>5. ASSUME NEW t \in Reloaders, ReloadBind(t) PROVE HandsInv'
  <2>1. UNCHANGED <<installed, run, curr>>
    BY <1>5 DEF ReloadBind, otherVars, storeVars
  <2>2. reload' = [reload EXCEPT ![t] = [reload[t] EXCEPT !.pc = "store", !.next = decode]]
    BY <1>5 DEF ReloadBind
  <2>3. Binder(reload'[t]) /\ Bound(reload'[t]) /\ t \in DOMAIN reload'
    BY <2>2, BindsGood DEF ReloadsGood
  <2>4. \A u \in Reloaders \ {t} : u \in DOMAIN reload' /\ reload'[u] = reload[u]
    BY <2>2 DEF ReloadsGood
  <2>5. ReloadsGood'
    BY <2>3, <2>4 DEF ReloadsGood, Binder, Bound, Good, Nothing
  <2> QED BY <2>1, <2>5, InstalledStays, HandsStay DEF RunGood, Binder, Bound, Good, Nothing
<1>6. ASSUME NEW t \in Reloaders, ReloadStore(t) PROVE HandsInv'
  <2>1. UNCHANGED <<installed, run>> /\ reload' = [reload EXCEPT ![t] = RunOff]
    BY <1>6 DEF ReloadStore, watchVars, storeVars
  <2>2. \A u \in Reloaders : u \in DOMAIN reload' /\ reload'[u] = IF u = t THEN RunOff ELSE reload[u]
    BY <2>1 DEF ReloadsGood
  <2>3. ReloadsGood'
    BY <2>2, BinderOff DEF ReloadsGood, Binder, Bound, Good, Nothing
  <2>4. HandsOutGood'
    <3>1. CASE run.pc = "off"
      BY <3>1, <2>1 DEF HandsOutGood
    <3>2. CASE run.pc # "off"
      BY <3>2, <1>6, StoreGood DEF ReloadStore, ReloadsGood, Bound
    <3> QED BY <3>1, <3>2
  <2> QED BY <2>1, <2>3, <2>4, InstalledStays DEF RunGood, Binder, Bound, Good, Nothing
<1>7. LiveNext \/ UNCHANGED allVars
  OBVIOUS
<1> QED BY <1>1, <1>2, <1>3, <1>4, <1>5, <1>6, <1>7 DEF LiveNext, allVars

LEMMA LiveEmitAccounts == ASSUME LiveDrops, NEW evt, liveEmit(evt) PROVE LiveDrops'
<1>1. liveHistory.lost \in Nat /\ liveHistory.reported \in Nat /\ liveDropped \in Nat
  BY DEF LiveDrops
<1>2. CASE liveEvents = <<>>
  <2>1. liveDropped' = 0 /\ liveHistory' = [liveHistory EXCEPT !.reported = liveHistory.reported + liveDropped]
    BY <1>2 DEF liveEmit
  <2>2. liveHistory' = [lost |-> liveHistory.lost, reported |-> liveHistory.reported + liveDropped]
    BY <2>1 DEF LiveDrops
  <2> QED BY <1>1, <2>1, <2>2 DEF LiveDrops, LiveDropsAccounted
<1>3. CASE liveEvents # <<>>
  <2>1. liveDropped' = liveDropped + 1 /\ liveHistory' = [liveHistory EXCEPT !.lost = liveHistory.lost + 1]
    BY <1>3 DEF liveEmit
  <2>2. liveHistory' = [lost |-> liveHistory.lost + 1, reported |-> liveHistory.reported]
    BY <2>1 DEF LiveDrops
  <2> QED BY <1>1, <2>1, <2>2 DEF LiveDrops, LiveDropsAccounted
<1> QED BY <1>2, <1>3

LEMMA LiveDropsStay == ASSUME LiveDrops, UNCHANGED <<liveDropped, liveHistory>> PROVE LiveDrops'
BY DEF LiveDrops, LiveDropsAccounted

LEMMA LiveNextAccounts == LiveDrops /\ [LiveNext]_allVars => LiveDrops'
<1> SUFFICES ASSUME LiveDrops, [LiveNext]_allVars PROVE LiveDrops'
  OBVIOUS
<1>1. CASE Run
  <2>1. CASE LiveTake
    BY <2>1, LiveEmitAccounts, LiveDropsStay DEF LiveTake
  <2>2. CASE LiveStore
    BY <2>2, LiveEmitAccounts DEF LiveStore
  <2>3. CASE LiveBind \/ LiveExit
    BY <2>3, LiveDropsStay DEF LiveBind, LiveExit
  <2> QED BY <1>1, <2>1, <2>2, <2>3 DEF Run
<1>2. CASE UNCHANGED liveVars \/ NewLive \/ LiveClose \/ LiveConsume
           \/ \E t \in Reloaders : ReloadBind(t) \/ ReloadStore(t)
  BY <1>2, LiveDropsStay DEF liveVars, NewLive, LiveClose, LiveConsume, ReloadBind, ReloadStore
<1> QED BY <1>1, <1>2 DEF LiveNext, allVars

\* Live hands out decoded, accepted configurations only, and never nothing
\* again, whatever fails and whoever calls Live.Reload beside the goroutine
\* (NewLive, handle, Reload).
THEOREM HandsOut == LiveSpec => []HandsOutGood
<1>1. HandsInv => HandsOutGood
  BY DEF HandsInv
<1> QED BY <1>1, LiveInitInv, LiveNextKeeps, PTL DEF LiveSpec

\* Drops of Live's one-slot channel are told exactly once, or still counted
\* (Live.emit).
THEOREM LiveDropsTold == LiveSpec => []LiveDropsAccounted
<1>1. LiveDrops => LiveDropsAccounted
  BY DEF LiveDrops
<1> QED BY <1>1, LiveInitInv, LiveNextAccounts, PTL DEF LiveSpec
=============================================================================

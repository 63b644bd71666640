----------------------------- MODULE FeedsProofs -----------------------------
(***************************************************************************)
(* Proofs about the sources a registry watches.  A registry behind a       *)
(* watched file, or a watched remote backend, is behind only while it is   *)
(* owed a change: FileFeed and RemoteFeed implement WatchedSource.  The    *)
(* memory backend never sends on, or closes, a closed channel.  For any    *)
(* documents, keys, writes and errors, and refreshes that overlap.         *)
(***************************************************************************)
EXTENDS FileFeed, RemoteFeed, TLAPS

(* The watched file.                                                       *)

Held == Docs \cup {Nothing}

FileTypes ==
    /\ main \in {"construct", "read", "failed", "built", "watching"}
    /\ client \in {"idle", "read", "rebuild"}
    /\ source.held \in Held /\ {"held", "stamp", "failed"} \subseteq DOMAIN source
    /\ fileView \in Held
    /\ {"pc", "msg"} \subseteq DOMAIN fan
    /\ out \in {<<>>, <<"change">>, <<"err">>}
    /\ fan.msg \in {"none", "change", "err"}
    /\ stopped \in BOOLEAN

\* Nothing is on its way before Watch, and the fan holds a message exactly
\* when it is about to send it.
BeforeWatch ==
    /\ main # "watching" => client = "idle" /\ fan.pc = "off" /\ out = <<>> /\ ~stopped
    /\ fan.pc = "send" <=> fan.msg # "none"

FileInv == FileTypes /\ BeforeWatch

\* The refinement mapping, as FileContract has it.
filePhase == IF main \in {"construct", "read", "failed"} THEN "new" ELSE IF stopped THEN "over" ELSE "live"
fileOwed == out = <<"change">> \/ fan.msg = "change" \/ client = "rebuild"
-----------------------------------------------------------------------------
LEMMA Slots ==
    ASSUME NEW msg \in {"change", "err"}
    PROVE  /\ Len(<<msg>>) = 1 /\ Append(<<>>, msg) = <<msg>>
           /\ Head(<<msg>>) = msg /\ Tail(<<msg>>) = <<>> /\ <<msg>> # <<>>
OBVIOUS

LEMMA FileInitInv == ASSUME NEW doc, FileInitOn(doc, "construct") PROVE FileInv /\ FileContract!SourceInit
BY DEF FileInitOn, FileInv, FileTypes, BeforeWatch, Held, Nothing, FileContract!SourceInit

LEMMA FileStutters ==
    ASSUME filePhase' = filePhase, source'.held = source.held, fileView' = fileView, fileOwed' <=> fileOwed
    PROVE  UNCHANGED FileContract!sourceVars
BY DEF filePhase, fileOwed, FileContract!sourceVars

\* Once the subscription is cancelled anything may be lost.
LEMMA FileOverAllows == ASSUME FileInv', main' = "watching", stopped' PROVE FileContract!SourceNext
BY DEF FileInv, FileTypes, Held, Nothing, FileContract!SourceNext, FileContract!End

LEMMA LoadedHolds ==
    ASSUME FileTypes, NEW who, NEW doc, NEW stamp
    PROVE  LET s == Loaded(who, doc, stamp)
           IN  /\ s.held \in Held /\ {"held", "stamp", "failed"} \subseteq DOMAIN s
               /\ s.failed => s.held = source.held
<1>1. Failed.held = source.held /\ {"held", "stamp", "failed"} \subseteq DOMAIN Failed
  BY DEF Failed, FileTypes
<1>2. [source EXCEPT !.stamp = stamp, !.failed = TRUE].held = source.held
      /\ {"held", "stamp", "failed"} \subseteq DOMAIN [source EXCEPT !.stamp = stamp, !.failed = TRUE]
  BY DEF FileTypes
<1>3. Decoded(doc) \in Held /\ Nothing \in Held
  BY DEF Decoded, Held
<1> QED BY <1>1, <1>2, <1>3 DEF Loaded, FileTypes

\* A read that fails leaves what the source holds.
LEMMA ReadHolds ==
    ASSUME FileTypes, NEW who, Read(who)
    PROVE  /\ source'.held \in Held /\ {"held", "stamp", "failed"} \subseteq DOMAIN source'
           /\ source'.failed => source'.held = source.held
<1>1. Failed.held = source.held /\ {"held", "stamp", "failed"} \subseteq DOMAIN Failed /\ Failed.held \in Held
  BY DEF Failed, FileTypes
<1> QED BY <1>1, LoadedHolds DEF Read
-----------------------------------------------------------------------------
\* Steps that touch neither the source nor what is sent.
LEMMA QuietSteps ==
    ASSUME FileInv, Write \/ ConstructOpen \/ Watch \/ ClientOpen \/ PollStep \/ FanCheck \/ FanTake \/ FanOpen \/ FanEnd
    PROVE  FileInv' /\ UNCHANGED FileContract!sourceVars
<1> USE DEF FileInv
<1>1. CASE Write \/ PollStep
  <2>1. UNCHANGED <<main, client, source, fileView, fan, out, stopped>>
    BY <1>1 DEF Write, PollStep, BaseStat, BaseRead, Tick, TickRead, PollSend, PollEnd, PollUnchanged
  <2> QED BY <2>1, FileStutters DEF FileTypes, BeforeWatch, filePhase, fileOwed
<1>2. CASE ConstructOpen \/ Watch
  <2>1. /\ UNCHANGED <<client, source, fileView, out, stopped>>
        /\ \/ main = "construct" /\ main' = "read" /\ UNCHANGED fan
           \/ main = "built" /\ main' = "watching" /\ fan' = [fan EXCEPT !.pc = "check"]
    BY <1>2 DEF ConstructOpen, Watch
  <2>2. {"pc", "msg"} \subseteq DOMAIN fan' /\ fan'.msg = fan.msg /\ (fan' = fan \/ (fan'.pc = "check" /\ fan.pc = "off"))
    BY <2>1 DEF FileTypes, BeforeWatch
  <2> QED BY <2>1, <2>2, FileStutters DEF FileTypes, BeforeWatch, filePhase, fileOwed
<1>3. CASE ClientOpen
  <2>1. UNCHANGED <<main, source, fileView, fan, out, stopped>> /\ main = "watching" /\ client = "idle" /\ client' = "read"
    BY <1>3 DEF ClientOpen
  <2> QED BY <2>1, FileStutters DEF FileTypes, BeforeWatch, filePhase, fileOwed
<1>4. CASE FanCheck \/ FanTake \/ FanOpen \/ FanEnd
  <2>1. UNCHANGED <<main, client, source, fileView, out, stopped>> /\ fan.pc \in {"check", "idle", "open"}
    BY <1>4 DEF FanCheck, FanTake, FanOpen, FanEnd, FanUnchanged
  <2>2. main = "watching" /\ fan.msg = "none"
    BY <2>1 DEF BeforeWatch
  <2>3. \/ fan' = [pc |-> "send", msg |-> "err"]
        \/ \E pc \in {"open", "idle", "read", "done"} : fan' = [fan EXCEPT !.pc = pc]
    BY <1>4 DEF FanCheck, FanTake, FanOpen, FanEnd
  <2>4. /\ {"pc", "msg"} \subseteq DOMAIN fan'
        /\ (fan'.pc = "send" /\ fan'.msg = "err") \/ (fan'.pc # "send" /\ fan'.msg = "none")
    BY <2>2, <2>3 DEF FileTypes
  <2> QED BY <2>1, <2>2, <2>4, FileStutters DEF FileTypes, BeforeWatch, filePhase, fileOwed
<1> QED BY <1>1, <1>2, <1>3, <1>4

LEMMA ConstructReads ==
    ASSUME FileInv, ConstructRead PROVE FileInv' /\ (FileContract!SourceNext \/ UNCHANGED FileContract!sourceVars)
<1> USE DEF FileInv
<1>1. /\ UNCHANGED <<client, fan, out, stopped>> /\ main = "read"
      /\ main' = IF source'.failed THEN "failed" ELSE "built"
      /\ fileView' = IF source'.failed THEN fileView ELSE source'.held
  BY DEF ConstructRead
<1>2. /\ source'.held \in Held /\ {"held", "stamp", "failed"} \subseteq DOMAIN source'
      /\ source'.failed => source'.held = source.held
  BY ReadHolds DEF ConstructRead
<1>3. FileInv'
  BY <1>1, <1>2 DEF FileTypes, BeforeWatch
<1>4. CASE source'.failed
  BY <1>1, <1>2, <1>3, <1>4, FileStutters DEF filePhase, fileOwed
<1>5. CASE ~source'.failed
  <2>1. filePhase = "new" /\ filePhase' = "live" /\ source'.held \in Docs \cup {Nothing} /\ fileView' = source'.held
    BY <1>1, <1>2, <1>5 DEF filePhase, Held, BeforeWatch
  <2>2. fileOwed' = fileOwed
    BY <1>1 DEF fileOwed
  <2> QED BY <1>3, <2>1, <2>2 DEF filePhase, fileOwed, FileContract!SourceNext, FileContract!Construct
<1> QED BY <1>4, <1>5, <1>3

\* Who refreshes the source while it is watched owes a change from then on.
LEMMA RefreshOwes ==
    ASSUME FileInv, FileInv', main = "watching", main' = "watching", UNCHANGED <<fileView, stopped>>,
           source'.failed => source'.held = source.held,
           IF source'.failed THEN fileOwed' <=> fileOwed ELSE fileOwed'
    PROVE  FileContract!SourceNext \/ UNCHANGED FileContract!sourceVars
<1>1. CASE stopped
  BY <1>1, FileOverAllows
<1>2. CASE ~stopped /\ source'.failed
  BY <1>2, FileStutters DEF filePhase
<1>3. CASE ~stopped /\ ~source'.failed
  BY <1>3 DEF FileInv, FileTypes, Held, Nothing, fileOwed, FileContract!SourceNext, FileContract!Refresh
<1> QED BY <1>1, <1>2, <1>3 DEF FileInv, FileTypes

LEMMA Refreshes ==
    ASSUME FileInv, FanRead \/ ClientRead PROVE FileInv' /\ (FileContract!SourceNext \/ UNCHANGED FileContract!sourceVars)
<1> USE DEF FileInv
<1>1. /\ source'.held \in Held /\ {"held", "stamp", "failed"} \subseteq DOMAIN source'
      /\ source'.failed => source'.held = source.held
  BY ReadHolds DEF FanRead, ClientRead
<1>2. CASE FanRead
  <2>1. UNCHANGED <<main, client, fileView, out, stopped>> /\ fan.pc = "read"
        /\ fan' = [pc |-> "send", msg |-> IF source'.failed THEN "err" ELSE "change"]
    BY <1>2 DEF FanRead, FanUnchanged
  <2>2. main = "watching" /\ fan.msg = "none"
    BY <2>1 DEF BeforeWatch
  <2>3. {"pc", "msg"} \subseteq DOMAIN fan' /\ fan'.pc = "send" /\ fan'.msg = IF source'.failed THEN "err" ELSE "change"
    BY <2>1
  <2>4. FileInv'
    BY <1>1, <2>1, <2>2, <2>3 DEF FileTypes, BeforeWatch
  <2> QED BY <1>1, <2>1, <2>2, <2>3, <2>4, RefreshOwes DEF fileOwed
<1>3. CASE ClientRead
  <2>1. UNCHANGED <<main, fan, fileView, out, stopped>> /\ client = "read"
        /\ client' = IF source'.failed THEN "idle" ELSE "rebuild"
    BY <1>3 DEF ClientRead
  <2>2. main = "watching"
    BY <2>1 DEF BeforeWatch
  <2>3. FileInv'
    BY <1>1, <2>1, <2>2 DEF FileTypes, BeforeWatch
  <2> QED BY <1>1, <2>1, <2>2, <2>3, RefreshOwes DEF fileOwed
<1> QED BY <1>2, <1>3

LEMMA Sends ==
    ASSUME FileInv, FanSend PROVE FileInv' /\ (FileContract!SourceNext \/ UNCHANGED FileContract!sourceVars)
<1> USE DEF FileInv
<1>1. UNCHANGED <<main, client, source, fileView, stopped>> /\ fan.pc = "send" /\ fan' = [pc |-> "idle", msg |-> "none"]
  BY DEF FanSend, FanUnchanged
<1>2. main = "watching" /\ fan.msg \in {"change", "err"} /\ {"pc", "msg"} \subseteq DOMAIN fan' /\ fan'.pc = "idle" /\ fan'.msg = "none"
  BY <1>1 DEF FileTypes, BeforeWatch
<1>3. CASE Len(out) < 1 /\ out' = Append(out, fan.msg)
  <2>1. out = <<>> /\ out' = <<fan.msg>>
    <3>1. out = <<>> \/ out = <<"change">> \/ out = <<"err">>
      BY DEF FileTypes
    <3>2. Len(<<"change">>) = 1 /\ Len(<<"err">>) = 1
      OBVIOUS
    <3>3. out = <<>>
      BY <1>3, <3>1, <3>2
    <3> QED BY <1>2, <1>3, <3>3, Slots
  <2>2. FileInv'
    BY <1>1, <1>2, <2>1 DEF FileTypes, BeforeWatch
  <2>3. fileOwed' <=> fileOwed
    BY <1>1, <1>2, <2>1 DEF fileOwed
  <2> QED BY <1>1, <2>2, <2>3, FileStutters DEF filePhase
<1>4. CASE stopped /\ UNCHANGED out
  <2>1. FileInv'
    BY <1>1, <1>2, <1>4 DEF FileTypes, BeforeWatch
  <2> QED BY <1>1, <1>2, <1>4, <2>1, FileOverAllows
<1> QED BY <1>3, <1>4 DEF FanSend

LEMMA FileRebuildMaps ==
    ASSUME main = "watching", ~stopped, UNCHANGED <<main, stopped, source>>, fileOwed, fileView' = source.held
    PROVE  FileContract!SourceNext
BY DEF fileOwed, FileContract!SourceNext, FileContract!Rebuild

\* A rebuild is of what the source holds by then, even if more is on its way.
LEMMA Rebuilds ==
    ASSUME FileInv, Consume \/ ClientRebuild PROVE FileInv' /\ (FileContract!SourceNext \/ UNCHANGED FileContract!sourceVars)
<1> USE DEF FileInv
<1>1. UNCHANGED <<main, source, fan, stopped>>
  BY DEF Consume, ClientRebuild
<1>2. main = "watching"
  BY DEF Consume, ClientRebuild, BeforeWatch
<1>3. CASE Consume
  <2>1. UNCHANGED client /\ ~stopped /\ out \in {<<"change">>, <<"err">>} /\ out' = <<>>
        /\ fileView' = IF out = <<"change">> THEN source.held ELSE fileView
    BY <1>3, Slots DEF Consume, FileTypes
  <2>2. FileInv'
    BY <1>1, <1>2, <2>1 DEF FileTypes, BeforeWatch
  <2>3. CASE out = <<"change">>
    BY <1>1, <1>2, <2>1, <2>2, <2>3, FileRebuildMaps DEF fileOwed
  <2>4. CASE out = <<"err">>
    <3>1. fileView' = fileView /\ (fileOwed' <=> fileOwed)
      BY <1>1, <2>1, <2>4 DEF fileOwed
    <3> QED BY <1>1, <2>1, <2>2, <3>1, FileStutters DEF filePhase
  <2> QED BY <2>1, <2>2, <2>3, <2>4
<1>4. CASE ClientRebuild
  <2>1. UNCHANGED out /\ client = "rebuild" /\ client' = "idle" /\ fileView' = source.held
    BY <1>4 DEF ClientRebuild
  <2>2. FileInv'
    BY <1>1, <1>2, <2>1 DEF FileTypes, BeforeWatch
  <2>3. CASE stopped
    BY <1>1, <1>2, <2>2, <2>3, FileOverAllows
  <2>4. CASE ~stopped
    BY <1>1, <1>2, <2>1, <2>2, <2>4, FileRebuildMaps DEF fileOwed
  <2> QED BY <2>2, <2>3, <2>4
<1> QED BY <1>3, <1>4

LEMMA FileNextImplements ==
    FileInv /\ [FileNext]_fileVars => FileInv' /\ [FileContract!SourceNext]_FileContract!sourceVars
<1> SUFFICES ASSUME FileInv, [FileNext]_fileVars
             PROVE  FileInv' /\ (FileContract!SourceNext \/ UNCHANGED FileContract!sourceVars)
  OBVIOUS
<1>1. CASE UNCHANGED fileVars
  <2>1. UNCHANGED <<main, client, source, fileView, fan, out, stopped>>
    BY <1>1 DEF fileVars
  <2> QED BY <2>1, FileStutters DEF FileInv, FileTypes, BeforeWatch, filePhase, fileOwed
<1>2. CASE Cancel
  <2>1. UNCHANGED <<main, client, source, fileView, fan, out>> /\ main = "watching" /\ stopped'
    BY <1>2 DEF Cancel
  <2>2. FileInv'
    BY <2>1 DEF FileInv, FileTypes, BeforeWatch
  <2> QED BY <2>1, <2>2, FileOverAllows
<1>3. CASE FileNext /\ ~Cancel
  BY <1>3, QuietSteps, ConstructReads, Refreshes, Sends, Rebuilds DEF FileNext, MainStep, ClientStep, FanStep
<1> QED BY <1>1, <1>2, <1>3

\* A registry that rebuilds on what FileSource.Watch sends, beside a client
\* that reloads the file, is behind the source only while it is owed a change
\* (Watcher, fanWatchEvents, FileSource.Reload).
THEOREM FileImplements == FileSpec => FileContract!SourceSpec
<1>1. (\E doc \in InitialDocs : FileInitOn(doc, "construct")) => FileInv /\ FileContract!SourceInit
  BY FileInitInv
<1> QED BY <1>1, FileNextImplements, PTL DEF FileSpec, FileContract!SourceSpec
-----------------------------------------------------------------------------
(* The watched remote backend.                                             *)

RemoteTypes ==
    /\ kind \in {"push", "poll"}
    /\ writer \in [holds : BOOLEAN, notifies : BOOLEAN]
    /\ sub \in [listed : BOOLEAN, closed : BOOLEAN, tick : BOOLEAN]

\* A channel that is listed is open, and only RemoteSource.Watch lists one; a
\* write that is going to notify holds the lock, so its subscription stays
\* listed.
Listing ==
    /\ sub.listed => ~sub.closed /\ kind = "push" /\ rmain = "watching"
    /\ sub.closed => rmain = "watching"
    /\ writer.notifies => writer.holds /\ sub.listed

RemoteInv == RemoteTypes /\ Listing /\ BackendNoPanic
-----------------------------------------------------------------------------
LEMMA RemoteInitInv == ASSUME NEW k \in {"push", "poll"}, RemoteInitAs(k, "construct") PROVE RemoteInv
BY DEF RemoteInitAs, RemoteInv, RemoteTypes, Listing, BackendNoPanic, NoWriter

\* Steps that leave the backend alone; the constructor has not returned twice.
LEMMA Elsewhere ==
    ASSUME RemoteInv, UNCHANGED <<kind, writer, panicked>>,
           sub' = sub \/ (sub.tick /\ sub' = [sub EXCEPT !.tick = FALSE]),
           rmain = "watching" => rmain' = "watching"
    PROVE  RemoteInv'
<1>1. sub' \in [listed : BOOLEAN, closed : BOOLEAN, tick : BOOLEAN] /\ sub'.listed = sub.listed /\ sub'.closed = sub.closed
  BY DEF RemoteInv, RemoteTypes
<1> QED BY <1>1 DEF RemoteInv, RemoteTypes, Listing, BackendNoPanic

LEMMA WriteDataKeeps == ASSUME RemoteInv, NEW new, WriteData(new) PROVE RemoteInv'
<1>1. writer' = [holds |-> kind = "push", notifies |-> sub.listed] /\ UNCHANGED <<kind, sub, panicked, rmain>>
  BY DEF WriteData, WriteLocks, callerVars
<1>2. writer'.holds = (kind = "push") /\ writer'.notifies = sub.listed /\ writer' \in [holds : BOOLEAN, notifies : BOOLEAN]
  BY <1>1 DEF RemoteInv, RemoteTypes
<1> QED BY <1>1, <1>2 DEF RemoteInv, RemoteTypes, Listing, BackendNoPanic

LEMMA WriteEndsKeeps == ASSUME RemoteInv, WriteEnds PROVE RemoteInv'
<1>1. writer' \in [holds : BOOLEAN, notifies : BOOLEAN] /\ ~writer'.notifies /\ UNCHANGED <<kind, rmain>>
  BY DEF WriteEnds, NoWriter, callerVars
<1>2. CASE writer.notifies
  <2>1. sub' = [sub EXCEPT !.tick = TRUE] /\ panicked' = panicked
    BY <1>2 DEF WriteEnds, notifyAll, RemoteInv, Listing
  <2>2. sub' \in [listed : BOOLEAN, closed : BOOLEAN, tick : BOOLEAN] /\ sub'.listed = sub.listed /\ sub'.closed = sub.closed
    BY <2>1 DEF RemoteInv, RemoteTypes
  <2> QED BY <1>1, <2>1, <2>2 DEF RemoteInv, RemoteTypes, Listing, BackendNoPanic
<1>3. CASE ~writer.notifies
  BY <1>1, <1>3 DEF WriteEnds, RemoteInv, RemoteTypes, Listing, BackendNoPanic
<1> QED BY <1>2, <1>3

\* A cancel or a Close waits for the lock: no write is about to notify.
LEMMA CloseSubKeeps ==
    ASSUME RemoteInv, LockFree, sub.listed, CloseSub, UNCHANGED <<kind, writer, rmain>>
    PROVE  RemoteInv'
<1>1. sub' \in [listed : BOOLEAN, closed : BOOLEAN, tick : BOOLEAN] /\ ~sub'.listed /\ panicked' = (panicked \/ sub.closed)
  BY DEF CloseSub, RemoteInv, RemoteTypes
<1>2. ~writer.notifies /\ ~sub.closed /\ rmain = "watching"
  BY DEF RemoteInv, Listing, LockFree
<1> QED BY <1>1, <1>2 DEF RemoteInv, RemoteTypes, Listing, BackendNoPanic

LEMMA UnsubscribeKeeps == ASSUME RemoteInv, Unsubscribe PROVE RemoteInv'
BY CloseSubKeeps DEF Unsubscribe, callerVars

LEMMA CloseBackendKeeps == ASSUME RemoteInv, CloseBackend PROVE RemoteInv'
<1>1. CASE sub.listed
  BY <1>1, CloseSubKeeps DEF CloseBackend
<1>2. CASE ~sub.listed
  BY <1>2, Elsewhere DEF CloseBackend
<1> QED BY <1>1, <1>2

LEMMA RemoteWatchKeeps == ASSUME RemoteInv, RemoteWatch PROVE RemoteInv'
<1>1. /\ sub' = [sub EXCEPT !.listed = kind = "push"] /\ rmain = "built" /\ rmain' = "watching"
      /\ UNCHANGED <<kind, writer, panicked>>
  BY DEF RemoteWatch
<1>2. ~sub.closed /\ ~writer.notifies
  BY <1>1 DEF RemoteInv, Listing
<1>3. sub' \in [listed : BOOLEAN, closed : BOOLEAN, tick : BOOLEAN] /\ sub'.listed = (kind = "push") /\ ~sub'.closed
  BY <1>1, <1>2 DEF RemoteInv, RemoteTypes
<1> QED BY <1>1, <1>2, <1>3 DEF RemoteInv, RemoteTypes, Listing, BackendNoPanic

LEMMA MainKeeps == ASSUME RemoteInv, RemoteMain PROVE RemoteInv'
<1>1. CASE ConstructList
  BY <1>1, Elsewhere DEF ConstructList, backendVars
<1>2. CASE FetchGet("main")
  BY <1>2, Elsewhere DEF FetchGet, backendVars, callerVars
<1>3. CASE ConstructSwap
  BY <1>3, Elsewhere DEF ConstructSwap, backendVars
<1>4. CASE ConstructFails
  BY <1>4, Elsewhere DEF ConstructFails, backendVars
<1> QED BY <1>1, <1>2, <1>3, <1>4, RemoteWatchKeeps DEF RemoteMain

LEMMA ClientKeeps == ASSUME RemoteInv, RemoteClient \/ ClientList \/ RemoteCancel \/ CloseDrops \/ RemoteConsume
                     PROVE  RemoteInv'
<1>1. UNCHANGED <<kind, writer, sub, panicked, rmain>>
  BY DEF RemoteClient, FetchGet, ClientSwap, ClientFails, RemoteRebuild, ClientList, RemoteCancel,
         CloseDrops, RemoteConsume, backendVars, callerVars
<1> QED BY <1>1, Elsewhere

LEMMA LoopKeeps == ASSUME RemoteInv, LoopStep PROVE RemoteInv'
<1>1. CASE LoopTake
  <2>1. UNCHANGED <<kind, writer, panicked, rmain>> /\ (sub' = sub \/ (sub.tick /\ sub' = [sub EXCEPT !.tick = FALSE]))
    BY <1>1 DEF LoopTake, LoopUnchanged, callerVars
  <2> QED BY <2>1, Elsewhere
<1>2. CASE ~LoopTake
  <2>1. UNCHANGED <<kind, writer, sub, panicked, rmain>>
    BY <1>2 DEF LoopStep, LoopStart, LoopList, FetchGet, LoopFails, LoopSwap, LoopCompare, LoopSend, LoopEnd,
                LoopUnchanged, backendVars, callerVars
  <2> QED BY <2>1, Elsewhere
<1> QED BY <1>1, <1>2
-----------------------------------------------------------------------------
LEMMA RemoteNextKeeps == RemoteInv /\ [RemoteNext]_remoteVars => RemoteInv'
<1> SUFFICES ASSUME RemoteInv, [RemoteNext]_remoteVars PROVE RemoteInv'
  OBVIOUS
<1>1. CASE BackendWrite
  BY <1>1, WriteDataKeeps DEF BackendWrite, PutAll, MemPut, Delete
<1>2. CASE UNCHANGED remoteVars
  BY <1>2, Elsewhere DEF remoteVars, backendVars, callerVars
<1> QED BY <1>1, <1>2, WriteEndsKeeps, UnsubscribeKeeps, CloseBackendKeeps, MainKeeps, ClientKeeps, LoopKeeps
        DEF RemoteNext

\* MemoryBackend notifies under its lock, and closes channels under it: a
\* write, a cancel and a Close that overlap never send on a closed channel,
\* and never close one twice.
THEOREM BackendSendsOpen == RemoteSpec => []BackendNoPanic
<1>1. (\E k \in {"push", "poll"} : RemoteInitAs(k, "construct")) => RemoteInv
  BY RemoteInitInv
<1>2. RemoteInv => BackendNoPanic
  BY DEF RemoteInv
<1> QED BY <1>1, <1>2, RemoteNextKeeps, PTL DEF RemoteSpec
-----------------------------------------------------------------------------
(* RemoteFeed implements WatchedSource.                                    *)

\* The refinement mapping, as RemoteContract has it.
remotePhase == IF rmain \in {"construct", "fetch", "failed"} THEN "new"
            ELSE IF rstopped \/ closing # "no" \/ missed # "no" THEN "over" ELSE "live"
remoteOwed == onItsWay \/ loop.pc = "compare"
Watching == rmain = "watching"

Fetches == [pc : {"idle", "get", "swap"}, todo : SUBSET RemoteKeys, got : Data, at : Nat]
Loops == [pc : {"off", "start", "idle", "fetch", "compare", "send", "done"},
          prev : Data, msg : {"none", "change", "err"}]

FeedTypes ==
    /\ kind \in {"push", "poll"} /\ upsets \in Nat /\ version \in Nat
    /\ data \in Data /\ cache.data \in Data /\ remoteView \in Data
    /\ fetch \in [Refreshers -> Fetches]
    /\ rmain \in {"construct", "fetch", "failed", "built", "watching"}
    /\ rclient \in {"idle", "fetch", "rebuild", "done"}
    /\ loop \in Loops
    /\ rout \in {<<>>, <<"change">>, <<"err">>}
    /\ rstopped \in BOOLEAN /\ refreshed \in BOOLEAN /\ missed \in {"no", "now", "before"}
    /\ sub \in [listed : BOOLEAN, closed : BOOLEAN, tick : BOOLEAN]

\* Nothing is on its way before RemoteSource.Watch, and only a watch by
\* notification is closed from below.
Quiet ==
    /\ ~Watching => /\ rclient = "idle" /\ rout = <<>> /\ loop.pc = "off"
                    /\ ~rstopped /\ ~refreshed /\ missed = "no" /\ closing = "no"
    /\ rmain = "built" => remoteView = cache.data
    /\ loop.pc = "send" <=> loop.msg # "none"
    /\ kind = "push" => loop.pc \notin {"start", "compare"}
    /\ kind = "poll" => closing = "no" /\ ~sub.closed /\ ~sub.listed

\* A poll compares with what it last told of, and until a client refreshes
\* the cache holds that between two ticks.  When no rebuild is on its way the
\* registry has what the cache holds or held, unless a comparison missed it.
PollSync ==
    kind = "poll" /\ Watching /\ ~rstopped =>
    /\ loop.pc \notin {"off", "done"}
    /\ loop.pc \in {"idle", "fetch", "send"} => refreshed \/ loop.prev = cache.data
    /\ ~onItsWay /\ missed = "no" =>
          /\ loop.pc # "compare" => remoteView = cache.data
          /\ loop.pc = "compare" => refreshed \/ remoteView \in {loop.prev, cache.data}

FeedInv == FeedTypes /\ Quiet /\ PollSync

LEMMA ZeroData == NoData \in Data
BY RemoteFeedAssumption DEF NoData, Data

LEMMA FeedInitInv ==
    ASSUME NEW k \in {"push", "poll"}, RemoteInitAs(k, "construct")
    PROVE  FeedInv /\ RemoteContract!SourceInit
<1> USE DEF RemoteInitAs
<1>1. fetch \in [Refreshers -> Fetches]
  BY ZeroData DEF NoFetch, Fetches
<1>2. loop \in Loops /\ loop.pc = "off" /\ loop.msg = "none"
  BY ZeroData DEF Loops
<1>3. FeedTypes
  BY <1>1, <1>2, ZeroData DEF FeedTypes
<1>4. Quiet /\ PollSync
  BY <1>2 DEF Quiet, PollSync, Watching
<1> QED BY <1>2, <1>3, <1>4, ZeroData DEF FeedInv, onItsWay, RemoteContract!SourceInit

LEMMA RemoteStutters ==
    ASSUME remotePhase' = remotePhase, cache'.data = cache.data, remoteView' = remoteView, remoteOwed' <=> remoteOwed
    PROVE  UNCHANGED RemoteContract!sourceVars
BY DEF remotePhase, remoteOwed, onItsWay, RemoteContract!sourceVars

LEMMA RemoteOverAllows == ASSUME FeedInv', remotePhase' = "over" PROVE RemoteContract!SourceNext
BY DEF FeedInv, FeedTypes, remotePhase, RemoteContract!SourceNext, RemoteContract!End

LEMMA RefreshMaps ==
    ASSUME FeedInv', remotePhase = "live", remotePhase' = "live", remoteView' = remoteView, remoteOwed'
    PROVE  RemoteContract!SourceNext
BY DEF FeedInv, FeedTypes, remotePhase, remoteOwed, onItsWay, RemoteContract!SourceNext, RemoteContract!Refresh

LEMMA RemoteRebuildMaps ==
    ASSUME remotePhase = "live", remotePhase' = "live", remoteOwed, remoteView' = cache.data, cache'.data = cache.data
    PROVE  RemoteContract!SourceNext
BY DEF remotePhase, remoteOwed, onItsWay, RemoteContract!SourceNext, RemoteContract!Rebuild

(* What a refresh reads is data.                                           *)
LEMMA ListReads ==
    ASSUME FeedTypes, NEW w \in Refreshers, FetchList(w)
    PROVE  fetch' \in [Refreshers -> Fetches]
<1>1. Present \in SUBSET RemoteKeys
  BY DEF Present
<1> QED BY <1>1, ZeroData DEF FetchList, SetFetch, FeedTypes, Fetches

LEMMA GetReads ==
    ASSUME FeedTypes, NEW w \in Refreshers, FetchGet(w)
    PROVE  fetch' \in [Refreshers -> Fetches]
<1> DEFINE k == CHOOSE x \in fetch[w].todo : \A y \in fetch[w].todo : x <= y
           left == fetch[w].todo \ {k}
           got == [fetch[w].got EXCEPT ![k] = data[k]]
<1>1. fetch[w] \in Fetches
  BY DEF FeedTypes
<1>2. got \in Data
  <2>1. fetch[w].got \in Data /\ data \in Data
    BY <1>1 DEF Fetches, FeedTypes
  <2> HIDE DEF k
  <2> QED BY <2>1 DEF Data
<1>3. fetch' = [fetch EXCEPT ![w] = [fetch[w] EXCEPT !.pc = IF left = {} THEN "swap" ELSE "get",
                                        !.todo = left, !.got[k] = data[k]]]
  BY DEF FetchGet, SetFetch
<1> HIDE DEF k
<1>4. [fetch[w] EXCEPT !.pc = IF left = {} THEN "swap" ELSE "get", !.todo = left, !.got[k] = data[k]] \in Fetches
  BY <1>1, <1>2 DEF Fetches
<1> HIDE DEF left
<1> QED BY <1>3, <1>4 DEF FeedTypes

LEMMA SwapReads ==
    ASSUME FeedTypes, NEW w \in Refreshers, Install(w)
    PROVE  fetch' \in [Refreshers -> Fetches] /\ cache'.data \in Data
<1>1. NoFetch \in Fetches
  BY ZeroData DEF NoFetch, Fetches
<1>2. fetch[w] \in Fetches
  BY DEF FeedTypes
<1>3. cache'.data = fetch[w].got
  BY DEF Install
<1> QED BY <1>1, <1>2, <1>3 DEF Install, SetFetch, FeedTypes, Fetches

LEMMA FailReads ==
    ASSUME FeedTypes, NEW w \in Refreshers, FetchFails(w)
    PROVE  fetch' \in [Refreshers -> Fetches] /\ cache' = cache /\ upsets' \in Nat
<1>1. NoFetch \in Fetches
  BY ZeroData DEF NoFetch, Fetches
<1> QED BY <1>1 DEF FetchFails, SetFetch, FeedTypes, RemoteUpset

(* Steps of the backend and of its clients.                                *)
LEMMA Backend ==
    ASSUME FeedInv, UNCHANGED <<kind, cacheVars, callerVars>>,
           upsets' \in Nat, version' \in Nat, data' \in Data,
           sub' \in [listed : BOOLEAN, closed : BOOLEAN, tick : BOOLEAN],
           kind = "poll" => ~sub'.closed /\ ~sub'.listed
    PROVE  FeedInv' /\ UNCHANGED RemoteContract!sourceVars
<1>1. UNCHANGED <<kind, fetch, cache, loop, rout, refreshed, missed, rmain, rclient, remoteView, rstopped, closing>>
  BY DEF cacheVars, callerVars
<1>2. UNCHANGED <<Watching, onItsWay, remotePhase, remoteOwed>>
  BY <1>1 DEF Watching, onItsWay, remotePhase, remoteOwed
<1>3. FeedTypes' /\ Quiet' /\ PollSync'
  BY <1>1, <1>2 DEF FeedInv, FeedTypes, Quiet, PollSync
<1> QED BY <1>1, <1>2, <1>3, RemoteStutters DEF FeedInv

LEMMA Writes == ASSUME FeedInv, BackendWrite PROVE FeedInv' /\ UNCHANGED RemoteContract!sourceVars
<1>1. ASSUME NEW new \in Data, WriteData(new) PROVE FeedInv' /\ UNCHANGED RemoteContract!sourceVars
  <2>1. upsets' \in Nat /\ version' \in Nat /\ UNCHANGED <<kind, sub, cacheVars, callerVars>> /\ data' = new
    BY <1>1 DEF WriteData, RemoteUpset, FeedInv, FeedTypes
  <2> QED BY <2>1, <1>1, Backend DEF FeedInv, FeedTypes, Quiet
<1>2. ASSUME NEW new, WriteData(new) PROVE upsets + 1 \in 0..MaxRemoteUpsets /\ 0 \in 0..MaxRemoteUpsets
  BY <1>2, RemoteFeedAssumption DEF WriteData, RemoteUpset, FeedInv, FeedTypes
<1>3. CASE PutAll
  <2>1. upsets + 1 \in 0..MaxRemoteUpsets /\ 0 \in 0..MaxRemoteUpsets
    BY <1>2, <1>3 DEF PutAll
  <2>2. [k \in RemoteKeys |-> IF k \in KeysOf[kind] THEN upsets + 1 ELSE 0] \in Data
    BY <2>1 DEF Data
  <2> QED BY <1>1, <1>3, <2>2 DEF PutAll
<1>4. ASSUME NEW k, MemPut(k) \/ Delete(k) PROVE FeedInv' /\ UNCHANGED RemoteContract!sourceVars
  <2>1. upsets + 1 \in 0..MaxRemoteUpsets /\ 0 \in 0..MaxRemoteUpsets
    BY <1>2, <1>4 DEF MemPut, Delete
  <2>2. [data EXCEPT ![k] = upsets + 1] \in Data /\ [data EXCEPT ![k] = 0] \in Data
    BY <2>1 DEF Data, FeedInv, FeedTypes
  <2> QED BY <1>1, <1>4, <2>2 DEF MemPut, Delete
<1> QED BY <1>3, <1>4 DEF BackendWrite

LEMMA Closes ==
    ASSUME FeedInv, WriteEnds \/ Unsubscribe PROVE FeedInv' /\ UNCHANGED RemoteContract!sourceVars
<1> DEFINE Subs == [listed : BOOLEAN, closed : BOOLEAN, tick : BOOLEAN]
<1>1. UNCHANGED <<kind, upsets, data, version, cacheVars, callerVars>>
  BY DEF WriteEnds, Unsubscribe
<1>2. sub' \in Subs /\ (kind = "poll" => ~sub'.closed /\ ~sub'.listed)
  BY DEF WriteEnds, Unsubscribe, notifyAll, CloseSub, FeedInv, FeedTypes, Quiet
<1> QED BY <1>1, <1>2, Backend DEF FeedInv, FeedTypes

Implements == FeedInv' /\ (RemoteContract!SourceNext \/ UNCHANGED RemoteContract!sourceVars)

LEMMA Constructs == ASSUME FeedInv, RemoteMain PROVE Implements
<1> USE DEF FeedInv
<1>1. CASE ConstructList \/ (FetchGet("main") /\ ~Watching) \/ ConstructFails
  <2>0. fetch' \in [Refreshers -> Fetches]
    BY <1>1, ListReads, GetReads, FailReads DEF ConstructList, ConstructFails, Refreshers
  <2>1. cache' = cache /\ upsets' \in Nat
        /\ UNCHANGED <<kind, data, version, sub, loop, rout, refreshed, missed, rclient, remoteView, rstopped, closing>>
    BY <1>1 DEF ConstructList, ConstructFails, FetchFails, RemoteUpset, FetchGet, backendVars, callerVars, FeedTypes
  <2>2. ~Watching /\ ~Watching' /\ rmain' \in {"construct", "fetch", "failed", "built"} /\ remotePhase' = remotePhase
        /\ (rmain' = "built" => rmain = "built")
    BY <1>1, <2>1 DEF ConstructList, ConstructFails, FetchGet, callerVars, Watching, remotePhase, FeedTypes
  <2>3. FeedTypes'
    BY <2>0, <2>1, <2>2 DEF FeedTypes
  <2>4. Quiet' /\ PollSync'
    BY <2>1, <2>2 DEF Quiet, PollSync
  <2>5. remoteOwed' <=> remoteOwed
    BY <2>1 DEF remoteOwed, onItsWay
  <2> QED BY <2>1, <2>2, <2>3, <2>4, <2>5, RemoteStutters DEF Implements
<1>2. CASE FetchGet("main") /\ Watching
  <2>1. fetch' \in [Refreshers -> Fetches]
        /\ UNCHANGED <<kind, upsets, data, version, sub, cache, loop, rout, refreshed, missed>> /\ UNCHANGED callerVars
    BY <1>2, GetReads DEF FetchGet, Refreshers, backendVars
  <2>2. UNCHANGED <<Watching, onItsWay, remotePhase, remoteOwed>>
    BY <2>1 DEF Watching, onItsWay, remotePhase, remoteOwed, callerVars
  <2>3. FeedTypes' /\ Quiet' /\ PollSync'
    BY <2>1, <2>2 DEF FeedTypes, Quiet, PollSync, callerVars
  <2> QED BY <2>1, <2>2, <2>3, RemoteStutters DEF Implements, callerVars
<1>3. CASE ConstructSwap
  <2>1. fetch' \in [Refreshers -> Fetches] /\ cache'.data \in Data /\ remoteView' = cache'.data
        /\ UNCHANGED <<kind, upsets, data, version, sub, loop, rout, refreshed, missed, rclient, rstopped, closing>>
        /\ rmain = "fetch" /\ rmain' = "built"
    BY <1>3, SwapReads DEF ConstructSwap, Refreshers, backendVars
  <2>2. ~Watching /\ ~Watching' /\ ~remoteOwed /\ ~remoteOwed' /\ remotePhase = "new" /\ remotePhase' = "live"
    BY <2>1 DEF Watching, remoteOwed, onItsWay, remotePhase, Quiet
  <2>3. FeedTypes' /\ Quiet' /\ PollSync'
    BY <2>1, <2>2 DEF FeedTypes, Quiet, PollSync
  <2>4. RemoteContract!Construct
    BY <2>1, <2>2 DEF RemoteContract!Construct, remotePhase, remoteOwed, onItsWay
  <2> QED BY <2>3, <2>4 DEF Implements, RemoteContract!SourceNext
<1>4. CASE RemoteWatch
  <2>1. /\ UNCHANGED <<kind, upsets, data, version, fetch, cache, rout, refreshed, missed, rclient, remoteView, rstopped, closing>>
        /\ rmain = "built" /\ rmain' = "watching"
        /\ sub' = [sub EXCEPT !.listed = kind = "push"]
        /\ loop' = [loop EXCEPT !.pc = IF kind = "push" THEN "idle" ELSE "start"]
    BY <1>4 DEF RemoteWatch
  <2>2. ~Watching /\ Watching' /\ loop.msg = "none"
    BY <2>1 DEF Watching, Quiet
  <2>3. loop' \in Loops /\ loop'.msg = loop.msg /\ loop'.pc = IF kind = "push" THEN "idle" ELSE "start"
    BY <2>1 DEF Loops, FeedTypes
  <2>4. sub' \in [listed : BOOLEAN, closed : BOOLEAN, tick : BOOLEAN] /\ sub'.listed = (kind = "push") /\ sub'.closed = sub.closed
    BY <2>1 DEF FeedTypes
  <2>5. FeedTypes'
    BY <2>1, <2>3, <2>4 DEF FeedTypes
  <2>6. Quiet' /\ PollSync'
    BY <2>1, <2>2, <2>3, <2>4 DEF Quiet, PollSync
  <2>7. remotePhase' = remotePhase /\ (remoteOwed' <=> remoteOwed)
    BY <2>1, <2>2, <2>3 DEF remotePhase, remoteOwed, onItsWay, Quiet
  <2> QED BY <2>1, <2>5, <2>6, <2>7, RemoteStutters DEF Implements
<1> QED BY <1>1, <1>2, <1>3, <1>4 DEF RemoteMain

\* What a client does: a refresh it owes a rebuild for, and remembers.
LEMMA Clients == ASSUME FeedInv, RemoteClient \/ ClientList PROVE Implements
<1> USE DEF FeedInv
<1>1. CASE ClientList \/ FetchGet("client") \/ ClientFails
  <2>0. fetch' \in [Refreshers -> Fetches]
    BY <1>1, ListReads, GetReads, FailReads DEF ClientList, ClientFails, Refreshers
  <2>1. cache' = cache /\ upsets' \in Nat
        /\ UNCHANGED <<kind, data, version, sub, loop, rout, refreshed, missed, rmain, remoteView, rstopped, closing>>
    BY <1>1 DEF ClientList, ClientFails, FetchFails, RemoteUpset, FetchGet, backendVars, callerVars, FeedTypes
  <2>2. rclient' \in {"idle", "fetch", "rebuild", "done"} /\ (rclient' = "rebuild" <=> rclient = "rebuild")
        /\ (~Watching => rclient' = rclient)
    BY <1>1 DEF ClientList, ClientFails, FetchGet, callerVars, FeedTypes, Quiet, Watching
  <2>3. UNCHANGED <<Watching, remotePhase>> /\ (onItsWay' <=> onItsWay) /\ (remoteOwed' <=> remoteOwed)
    BY <2>1, <2>2 DEF Watching, remotePhase, onItsWay, remoteOwed
  <2>4. FeedTypes'
    BY <2>0, <2>1, <2>2 DEF FeedTypes
  <2>5. Quiet' /\ PollSync'
    BY <2>1, <2>2, <2>3 DEF Quiet, PollSync
  <2> QED BY <2>1, <2>3, <2>4, <2>5, RemoteStutters DEF Implements
<1>2. CASE ClientSwap
  <2>1. fetch' \in [Refreshers -> Fetches] /\ cache'.data \in Data /\ refreshed' /\ refreshed' \in BOOLEAN
        /\ UNCHANGED <<kind, upsets, data, version, sub, loop, rout, missed, rmain, remoteView, rstopped, closing>>
        /\ rclient = "fetch" /\ rclient' = "rebuild"
    BY <1>2, SwapReads DEF ClientSwap, Refreshers, backendVars
  <2>2. Watching /\ Watching' /\ onItsWay' /\ remoteOwed' /\ remotePhase' = remotePhase
    BY <2>1 DEF Watching, Quiet, onItsWay, remoteOwed, remotePhase
  <2>3. FeedTypes'
    BY <2>1 DEF FeedTypes
  <2>5. Quiet' /\ PollSync'
    BY <2>1, <2>2 DEF Quiet, PollSync, Watching
  <2>4. remotePhase \in {"live", "over"}
    BY <2>2 DEF remotePhase, Watching
  <2> QED BY <2>1, <2>2, <2>3, <2>4, <2>5, RefreshMaps, RemoteOverAllows DEF Implements
<1>3. CASE RemoteRebuild
  <2>1. rclient = "rebuild" /\ rclient' = "done" /\ remoteView' = cache.data
        /\ UNCHANGED <<kind, upsets, data, version, sub, fetch, cache, loop, rout, refreshed, missed, rmain, rstopped, closing>>
    BY <1>3 DEF RemoteRebuild, backendVars, cacheVars
  <2>2. Watching /\ Watching' /\ remoteOwed /\ remotePhase' = remotePhase /\ remotePhase \in {"live", "over"}
    BY <2>1 DEF Watching, Quiet, onItsWay, remoteOwed, remotePhase
  <2>3. FeedTypes'
    BY <2>1 DEF FeedTypes
  <2>4. Quiet' /\ PollSync'
    BY <2>1, <2>2 DEF Quiet, PollSync
  <2> QED BY <2>1, <2>2, <2>3, <2>4, RemoteRebuildMaps, RemoteOverAllows DEF Implements
<1> QED BY <1>1, <1>2, <1>3 DEF RemoteClient

LEMMA Ends == ASSUME FeedInv, RemoteCancel \/ CloseDrops PROVE Implements
<1> USE DEF FeedInv
<1>0. Watching
  BY DEF RemoteCancel, CloseDrops, Watching
<1>1. /\ UNCHANGED <<kind, upsets, data, version, sub, fetch, loop, rout, refreshed, missed, rmain, rclient, remoteView>>
      /\ cache'.data \in Data /\ rstopped' \in BOOLEAN
      /\ rstopped' \/ (closing' # "no" /\ kind = "push")
      /\ kind = "poll" => closing' = closing
  <2>1. CASE RemoteCancel
    BY <2>1 DEF RemoteCancel, backendVars, cacheVars, FeedTypes
  <2>2. CASE CloseDrops
    <3>1. cache'.data = NoData /\ UNCHANGED <<data, version, sub>>
      BY <2>2 DEF CloseDrops, backendVars
    <3> QED BY <2>2, <3>1, ZeroData DEF CloseDrops, FeedTypes
  <2> QED BY <2>1, <2>2
<1>2. FeedTypes'
  BY <1>1 DEF FeedTypes
<1>3. Quiet' /\ PollSync'
  BY <1>0, <1>1 DEF Quiet, PollSync, Watching
<1>4. remotePhase' = "over"
  BY <1>0, <1>1 DEF remotePhase, Watching
<1> QED BY <1>2, <1>3, <1>4, RemoteOverAllows DEF Implements

LEMMA BackendCloses == ASSUME FeedInv, CloseBackend PROVE Implements
<1> USE DEF FeedInv
<1>1. /\ UNCHANGED <<kind, upsets, data, version, fetch, cache, loop, rout, refreshed, missed, rmain, rclient, remoteView, rstopped>>
      /\ closing = "dropped" /\ closing' = "closed"
  BY DEF CloseBackend, cacheVars
<1>2. kind = "push" /\ Watching
  BY <1>1 DEF Quiet, FeedTypes
<1>3. sub' \in [listed : BOOLEAN, closed : BOOLEAN, tick : BOOLEAN]
  BY DEF CloseBackend, CloseSub, FeedTypes
<1>4. FeedTypes' /\ Quiet' /\ PollSync'
  BY <1>1, <1>2, <1>3 DEF FeedTypes, Quiet, PollSync, Watching
<1>5. remotePhase' = "over"
  BY <1>1, <1>2 DEF remotePhase, Watching
<1> QED BY <1>4, <1>5, RemoteOverAllows DEF Implements

LEMMA LoopReads == ASSUME FeedInv, LoopList \/ FetchGet("fan") \/ LoopFails PROVE Implements
<1> USE DEF FeedInv
<1>1. fetch' \in [Refreshers -> Fetches]
  BY ListReads, GetReads, FailReads DEF LoopList, LoopFails, Refreshers
<1>2. /\ upsets' \in Nat /\ cache' = cache
      /\ UNCHANGED <<kind, data, version, sub, rout, refreshed, missed, rmain, rclient, remoteView, rstopped, closing>>
  BY DEF LoopList, FetchGet, LoopFails, FetchFails, RemoteUpset, LoopUnchanged, backendVars, callerVars, FeedTypes
<1>3. loop' = loop \/ (loop.pc = "fetch" /\ loop' = [loop EXCEPT !.pc = "send", !.msg = "err"])
  BY DEF LoopList, FetchGet, LoopFails
<1>4. /\ loop' \in Loops /\ loop'.prev = loop.prev
      /\ loop' = loop \/ (loop.pc = "fetch" /\ loop'.pc = "send" /\ loop'.msg = "err")
  BY <1>3 DEF Loops, FeedTypes
<1>5. UNCHANGED <<Watching, remotePhase>> /\ (onItsWay' <=> onItsWay) /\ (remoteOwed' <=> remoteOwed)
  BY <1>2, <1>4 DEF Watching, remotePhase, onItsWay, remoteOwed, Quiet
<1>6. FeedTypes'
  BY <1>1, <1>2, <1>4 DEF FeedTypes
<1>7. Quiet' /\ PollSync'
  BY <1>2, <1>4, <1>5 DEF Quiet, PollSync
<1> QED BY <1>2, <1>5, <1>6, <1>7, RemoteStutters DEF Implements

\* What the loop swaps in, it sends or compares.
LEMMA LoopSwaps == ASSUME FeedInv, LoopSwap PROVE Implements
<1> USE DEF FeedInv
<1>1. fetch' \in [Refreshers -> Fetches] /\ cache'.data \in Data
  BY SwapReads DEF LoopSwap, Refreshers
<1>2. /\ UNCHANGED <<kind, upsets, data, version, sub, rout, refreshed, missed, rmain, rclient, remoteView, rstopped, closing>>
      /\ loop.pc = "fetch"
      /\ loop' = IF kind = "push" THEN [loop EXCEPT !.pc = "send", !.msg = "change"] ELSE [loop EXCEPT !.pc = "compare"]
  BY DEF LoopSwap, LoopUnchanged, backendVars, callerVars
<1>3. /\ loop' \in Loops /\ loop'.prev = loop.prev
      /\ kind = "push" => loop'.pc = "send" /\ loop'.msg = "change"
      /\ kind # "push" => loop'.pc = "compare" /\ loop'.msg = loop.msg
  BY <1>2 DEF Loops, FeedTypes
<1>4. Watching /\ Watching' /\ remoteOwed' /\ remotePhase' = remotePhase /\ remotePhase \in {"live", "over"}
  BY <1>2, <1>3 DEF Watching, remotePhase, remoteOwed, onItsWay, Quiet, FeedTypes
<1>5. FeedTypes'
  BY <1>1, <1>2, <1>3 DEF FeedTypes
<1>6. Quiet'
  BY <1>2, <1>3, <1>4 DEF Quiet, Watching
<1>7. PollSync'
  BY <1>2, <1>3, <1>4 DEF PollSync, onItsWay
<1> QED BY <1>2, <1>4, <1>5, <1>6, <1>7, RefreshMaps, RemoteOverAllows DEF Implements

\* A comparison that says nothing: the registry has the data, is told yet, or
\* a client's refresh made it miss them.
LEMMA LoopCompares == ASSUME FeedInv, LoopCompare PROVE Implements
<1> USE DEF FeedInv
<1>1. /\ UNCHANGED <<kind, upsets, data, version, sub, fetch, cache, rout, rmain, rclient, remoteView, rstopped, closing>>
      /\ loop.pc = "compare" /\ refreshed' = FALSE
  BY DEF LoopCompare, LoopUnchanged, backendVars, callerVars
<1>2. kind = "poll" /\ Watching /\ Watching' /\ loop.msg = "none" /\ closing = "no" /\ remoteOwed
  BY <1>1 DEF Quiet, FeedTypes, Watching, remoteOwed
<1>3. CASE cache.data = loop.prev
  <2>1. /\ loop' = [loop EXCEPT !.pc = "idle"]
        /\ missed' = IF refreshed /\ ~onItsWay /\ remoteView # cache.data THEN "now" ELSE missed
    BY <1>3 DEF LoopCompare
  <2>2. loop' \in Loops /\ loop'.pc = "idle" /\ loop'.prev = loop.prev /\ loop'.msg = "none"
    BY <2>1, <1>2 DEF Loops, FeedTypes
  <2>3. FeedTypes'
    BY <1>1, <2>1, <2>2 DEF FeedTypes
  <2>4. (onItsWay' <=> onItsWay) /\ (remoteOwed' <=> onItsWay)
    BY <1>1, <1>2, <2>2 DEF onItsWay, remoteOwed
  <2>5. Quiet'
    BY <1>1, <1>2, <2>1, <2>2 DEF Quiet, Watching
  <2>6. onItsWay \/ missed' # "no" \/ rstopped \/ remoteView = cache.data
    BY <1>1, <1>2, <1>3, <2>1 DEF PollSync
  <2>7. PollSync'
    BY <1>1, <1>2, <1>3, <2>2, <2>4, <2>6 DEF PollSync
  <2>8. CASE missed' # "no" \/ rstopped
    <3>1. remotePhase' = "over"
      BY <1>1, <1>2, <2>8 DEF remotePhase, Watching
    <3> QED BY <2>3, <2>5, <2>7, <3>1, RemoteOverAllows DEF Implements
  <2>9. CASE missed' = "no" /\ ~rstopped
    <3>1. remotePhase = "live" /\ remotePhase' = "live"
      BY <1>1, <1>2, <2>1, <2>9 DEF remotePhase, Watching
    <3>2. CASE onItsWay
      BY <1>1, <1>2, <2>3, <2>4, <2>5, <2>7, <3>1, <3>2, RemoteStutters DEF Implements
    <3>3. CASE ~onItsWay
      BY <1>1, <1>2, <2>3, <2>5, <2>6, <2>7, <2>9, <3>1, <3>3, RemoteRebuildMaps DEF Implements
    <3> QED BY <3>2, <3>3
  <2> QED BY <2>8, <2>9
<1>4. CASE cache.data # loop.prev
  <2>1. /\ loop' = [pc |-> "send", prev |-> cache.data, msg |-> "change"]
        /\ missed' = IF missed = "now" THEN "before" ELSE missed
    BY <1>4 DEF LoopCompare
  <2>2. loop' \in Loops /\ loop'.pc = "send" /\ loop'.prev = cache.data /\ loop'.msg = "change"
    BY <2>1 DEF Loops, FeedTypes
  <2>0. refreshed' \in BOOLEAN
    BY <1>1
  <2>3. FeedTypes' /\ (missed' = "no" <=> missed = "no")
    BY <1>1, <2>0, <2>1, <2>2 DEF FeedTypes
  <2>4. onItsWay' /\ remoteOwed' /\ remotePhase' = remotePhase
    BY <1>1, <2>2, <2>3 DEF onItsWay, remoteOwed, remotePhase
  <2>5. Quiet' /\ PollSync'
    BY <1>1, <1>2, <2>2, <2>4 DEF Quiet, PollSync, Watching
  <2> QED BY <1>1, <1>2, <2>3, <2>4, <2>5, RemoteStutters DEF Implements
<1> QED BY <1>3, <1>4

LEMMA LoopStarts == ASSUME FeedInv, LoopStart PROVE Implements
<1> USE DEF FeedInv
<1>1. /\ UNCHANGED <<kind, upsets, data, version, sub, fetch, cache, rout, missed, rmain, rclient, remoteView, rstopped, closing>>
      /\ loop.pc = "start" /\ loop' = [loop EXCEPT !.pc = "idle", !.prev = cache.data] /\ refreshed' = FALSE
  BY DEF LoopStart, LoopUnchanged, backendVars, callerVars
<1>2. loop' \in Loops /\ loop'.pc = "idle" /\ loop'.prev = cache.data /\ loop'.msg = loop.msg /\ loop.msg = "none"
  BY <1>1 DEF Loops, FeedTypes, Quiet
<1>3. Watching /\ Watching' /\ remotePhase' = remotePhase /\ (onItsWay' <=> onItsWay) /\ (remoteOwed' <=> remoteOwed)
  BY <1>1, <1>2 DEF Quiet, Watching, remotePhase, onItsWay, remoteOwed
<1>0. refreshed' \in BOOLEAN
  BY <1>1
<1>4. FeedTypes'
  BY <1>0, <1>1, <1>2 DEF FeedTypes
<1>5. Quiet' /\ PollSync'
  BY <1>1, <1>2, <1>3 DEF Quiet, PollSync, Watching
<1> QED BY <1>1, <1>3, <1>4, <1>5, RemoteStutters DEF Implements

LEMMA LoopTells == ASSUME FeedInv, LoopTake \/ LoopSend PROVE Implements
<1> USE DEF FeedInv
<1>1. /\ UNCHANGED <<kind, upsets, data, version, fetch, cache, refreshed, missed, rmain, rclient, remoteView, rstopped, closing>>
      /\ sub' = sub \/ sub' = [sub EXCEPT !.tick = FALSE]
  BY DEF LoopTake, LoopSend, LoopUnchanged, backendVars, callerVars
<1>2. /\ sub' \in [listed : BOOLEAN, closed : BOOLEAN, tick : BOOLEAN]
      /\ sub'.listed = sub.listed /\ sub'.closed = sub.closed
  BY <1>1 DEF FeedTypes
<1>3. CASE LoopTake
  <2>1. rout' = rout /\ loop.pc = "idle" /\ loop' = [loop EXCEPT !.pc = "fetch"]
    BY <1>3 DEF LoopTake
  <2>2. loop' \in Loops /\ loop'.pc = "fetch" /\ loop'.prev = loop.prev /\ loop'.msg = loop.msg
    BY <2>1 DEF Loops, FeedTypes
  <2>3. FeedTypes'
    BY <1>1, <1>2, <2>1, <2>2 DEF FeedTypes
  <2>4. UNCHANGED <<Watching, remotePhase>> /\ (onItsWay' <=> onItsWay) /\ (remoteOwed' <=> remoteOwed)
    BY <1>1, <2>1, <2>2 DEF Watching, remotePhase, onItsWay, remoteOwed
  <2>5. Quiet' /\ PollSync'
    BY <1>1, <1>2, <2>1, <2>2, <2>4 DEF Quiet, PollSync
  <2> QED BY <1>1, <2>3, <2>4, <2>5, RemoteStutters DEF Implements
<1>4. CASE LoopSend
  <2>1. loop.pc = "send" /\ loop' = [loop EXCEPT !.pc = "idle", !.msg = "none"] /\ Len(rout) < 1
        /\ rout' = Append(rout, loop.msg)
    BY <1>4 DEF LoopSend
  <2>2. loop' \in Loops /\ loop'.pc = "idle" /\ loop'.prev = loop.prev /\ loop'.msg = "none"
        /\ loop.msg \in {"change", "err"}
    BY <2>1 DEF Loops, FeedTypes, Quiet
  <2>3. rout = <<>> \/ rout = <<"change">> \/ rout = <<"err">>
    BY DEF FeedTypes
  <2>4. Len(<<"change">>) = 1 /\ Len(<<"err">>) = 1
    OBVIOUS
  <2>5. rout = <<>>
    BY <2>1, <2>3, <2>4
  <2>6. rout' = <<loop.msg>>
    BY <2>1, <2>5
  <2>7. FeedTypes'
    BY <1>1, <1>2, <2>2, <2>6 DEF FeedTypes
  <2>8. UNCHANGED <<Watching, remotePhase>> /\ (onItsWay' <=> onItsWay) /\ (remoteOwed' <=> remoteOwed)
    BY <1>1, <2>1, <2>2, <2>5, <2>6 DEF Watching, remotePhase, onItsWay, remoteOwed
  <2>9. Watching
    BY <2>1 DEF Quiet
  <2>10. Quiet' /\ PollSync'
    BY <1>1, <1>2, <2>1, <2>2, <2>8, <2>9 DEF Quiet, PollSync
  <2> QED BY <1>1, <2>7, <2>8, <2>10, RemoteStutters DEF Implements
<1> QED BY <1>3, <1>4

LEMMA LoopEnds == ASSUME FeedInv, LoopEnd PROVE Implements
<1> USE DEF FeedInv
<1>1. /\ UNCHANGED <<kind, upsets, data, version, sub, fetch, cache, rout, refreshed, missed, rmain, rclient, remoteView, rstopped, closing>>
      /\ loop' = [pc |-> "done", prev |-> NoData, msg |-> "none"]
      /\ \/ loop.pc \in {"idle", "send"} /\ rstopped
         \/ loop.pc = "idle" /\ sub.closed
  BY DEF LoopEnd, LoopUnchanged, backendVars, callerVars
<1>2. loop' \in Loops /\ loop'.pc = "done" /\ loop'.msg = "none"
  BY <1>1, ZeroData DEF Loops
<1>3. FeedTypes'
  BY <1>1, <1>2 DEF FeedTypes
<1>4. Watching /\ Watching' /\ remotePhase' = remotePhase /\ (kind = "poll" => rstopped)
  BY <1>1 DEF Watching, remotePhase, Quiet
<1>5. Quiet' /\ PollSync'
  BY <1>1, <1>2, <1>4 DEF Quiet, PollSync, Watching
<1>6. CASE rstopped
  <2>1. remotePhase' = "over"
    BY <1>1, <1>4, <1>6 DEF remotePhase, Watching
  <2> QED BY <1>3, <1>5, <2>1, RemoteOverAllows DEF Implements
<1>7. CASE ~rstopped
  <2>1. loop.msg = "none" /\ loop.pc = "idle"
    BY <1>1, <1>7 DEF Quiet
  <2>2. remoteOwed' <=> remoteOwed
    BY <1>1, <1>2, <2>1 DEF remoteOwed, onItsWay
  <2> QED BY <1>1, <1>3, <1>4, <1>5, <2>2, RemoteStutters DEF Implements
<1> QED BY <1>6, <1>7

LEMMA Consumes == ASSUME FeedInv, RemoteConsume PROVE Implements
<1> USE DEF FeedInv
<1>1. /\ UNCHANGED <<kind, upsets, data, version, sub, fetch, cache, loop, refreshed, missed, rmain, rclient, rstopped, closing>>
      /\ rout # <<>> /\ rout' = Tail(rout)
      /\ remoteView' = IF Head(rout) = "change" THEN cache.data ELSE remoteView
  BY DEF RemoteConsume, backendVars
<1>2. rout = <<"change">> \/ rout = <<"err">>
  BY <1>1 DEF FeedTypes
<1>3. rout' = <<>> /\ remoteView' = IF rout = <<"change">> THEN cache.data ELSE remoteView
  <2>1. Tail(<<"change">>) = <<>> /\ Tail(<<"err">>) = <<>> /\ Head(<<"change">>) = "change" /\ Head(<<"err">>) = "err"
        /\ <<"change">> # <<"err">>
    OBVIOUS
  <2> QED BY <1>1, <1>2, <2>1
<1>4. Watching /\ Watching' /\ remotePhase' = remotePhase /\ remotePhase \in {"live", "over"}
  BY <1>1, <1>2 DEF Watching, remotePhase, Quiet
<1>5. FeedTypes'
  BY <1>1, <1>3 DEF FeedTypes
<1>6. Quiet'
  BY <1>1, <1>4 DEF Quiet, Watching
<1>7. CASE rout = <<"change">>
  <2>1. remoteOwed /\ remoteView' = cache.data
    BY <1>3, <1>7 DEF remoteOwed, onItsWay
  <2>2. PollSync'
    BY <1>1, <1>4, <2>1 DEF PollSync
  <2> QED BY <1>1, <1>4, <1>5, <1>6, <2>1, <2>2, RemoteRebuildMaps, RemoteOverAllows DEF Implements
<1>8. CASE rout = <<"err">>
  <2>1. remoteView' = remoteView /\ (onItsWay' <=> onItsWay)
    BY <1>1, <1>3, <1>8 DEF onItsWay
  <2>2. PollSync'
    BY <1>1, <1>4, <2>1 DEF PollSync
  <2>3. remoteOwed' <=> remoteOwed
    BY <1>1, <2>1 DEF remoteOwed
  <2> QED BY <1>1, <1>4, <1>5, <1>6, <2>1, <2>2, <2>3, RemoteStutters DEF Implements
<1> QED BY <1>2, <1>7, <1>8

LEMMA RemoteNextImplements ==
    FeedInv /\ [RemoteNext]_remoteVars => FeedInv' /\ [RemoteContract!SourceNext]_RemoteContract!sourceVars
<1> SUFFICES ASSUME FeedInv, [RemoteNext]_remoteVars PROVE Implements
  BY DEF Implements
<1>1. CASE UNCHANGED remoteVars
  <2>1. UNCHANGED <<kind, upsets, data, version, sub, cacheVars, callerVars>>
    BY <1>1 DEF remoteVars, backendVars
  <2> QED BY <2>1, Backend DEF Implements, FeedInv, FeedTypes, Quiet
<1>2. CASE LoopStep
  BY <1>2, LoopReads, LoopSwaps, LoopCompares, LoopStarts, LoopTells, LoopEnds DEF LoopStep
<1>3. CASE BackendWrite \/ WriteEnds \/ Unsubscribe
  BY <1>3, Writes, Closes DEF Implements
<1> QED BY <1>1, <1>2, <1>3, Constructs, Clients, Ends, BackendCloses, Consumes DEF RemoteNext

\* A registry that rebuilds on what RemoteSource.Watch sends, by notification
\* or by polling, beside a client that refreshes the source, is behind the
\* source's cache only while it is owed a change (fanWatch, watchPoll, Refresh).
THEOREM RemoteImplements == RemoteSpec => RemoteContract!SourceSpec
<1>1. (\E k \in {"push", "poll"} : RemoteInitAs(k, "construct")) => FeedInv /\ RemoteContract!SourceInit
  BY FeedInitInv
<1> QED BY <1>1, RemoteNextImplements, PTL DEF RemoteSpec, RemoteContract!SourceSpec
=============================================================================

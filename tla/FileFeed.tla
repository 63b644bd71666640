------------------------------ MODULE FileFeed ------------------------------
(***************************************************************************)
(* A watched file: the FileSource that reads it, the poll watcher that     *)
(* samples it, the goroutine between them, and the registry that rebuilds  *)
(* on what comes out (source_file.go, read_file.go, watcher_poll.go).      *)
(*                                                                         *)
(* Goroutines: main constructs the source and calls Watch, poll is         *)
(* PollWatcher.poll, fan is FileSource.fanWatchEvents, client calls Reload *)
(* on the source and then on the registry.  The mutex reload is held from  *)
(* the stat of the opened file to the end of the read.                     *)
(***************************************************************************)
EXTENDS Integers, Sequences

CONSTANTS
    Docs,           \* documents that decode; their size is SizeOf[d]
    SizeOf,         \* for Docs, "empty" and "torn"
    InitialDocs,    \* what the file may hold at first
    Optional,       \* WithOptional
    EmptyDecodes,   \* whether the codec decodes an empty document
    MaxUpsets       \* bound: writes of the file, transient errors of stat, open and
                    \* read, and Reload calls of the client, together

ASSUME FileFeedAssumption ==
    /\ Docs \cap {"missing", "empty", "torn", "unhashed"} = {}
    /\ Optional \in BOOLEAN /\ EmptyDecodes \in BOOLEAN

VARIABLES
    disk,           \* the file: doc, size, mtime
    clock,          \* upsets so far; the file system's time
    source,         \* FileSource: held, stamp, decoded; failed is the last read's outcome
    reading,        \* the read in flight under the mutex: who, stamp, doc at open
    main, client,   \* where the two client goroutines are
    poll,           \* pc, prev and cur samples, msg to send
    up,             \* PollWatcher's channel, one slot
    fan,            \* pc, msg to send
    out,            \* Watch's channel, one slot
    fileView,       \* what the registry's last rebuild read
    stopped,        \* the subscription's context is cancelled
    gap             \* history: the baseline was taken after a write that the
                    \* source has not read, or from a stat that failed

fileVars == <<disk, clock, source, reading, main, client,
              poll, up, fan, out, fileView, stopped, gap>>

Exists(doc) == doc # "missing"
FileOf(doc, mtime) ==
    IF Exists(doc) THEN [doc |-> doc, size |-> SizeOf[doc], mtime |-> mtime]
    ELSE [doc |-> doc, size |-> 0, mtime |-> 0]

\* fileStamp, and a poll sample without its digest; no digest compares as equal.
StampOf(file) == [exists |-> Exists(file.doc), size |-> file.size, mtime |-> file.mtime]
NoStamp == StampOf(FileOf("missing", 0))
Sample(stamp, digest) == [stamp |-> stamp, digest |-> digest]
Gone == Sample(NoStamp, "unhashed")

pollEqual(s, t) ==
    /\ s.stamp = t.stamp
    /\ s.stamp.exists => "unhashed" \in {s.digest, t.digest} \/ s.digest = t.digest

Nothing == "empty"
\* The constructor hands the codec no empty document, Reload does.
Decodes(who, doc) == doc \in Docs \/ (doc = "empty" /\ (who = "main" \/ EmptyDecodes))
\* What a source reading this file settles on; a torn one is not decoded.
Decoded(doc) == IF doc \in Docs THEN doc ELSE Nothing

\* The constructor is about to run, or has failed already.
FileInitOn(doc, at) ==
    /\ disk = FileOf(doc, 0)
    /\ clock = 0
    /\ source = [held |-> Nothing, stamp |-> NoStamp, decoded |-> FALSE, failed |-> FALSE]
    /\ reading = [who |-> "nobody"]
    /\ main = at /\ client = "idle"
    /\ poll = [pc |-> "off", prev |-> Gone, cur |-> Gone, msg |-> "none"]
    /\ fan = [pc |-> "off", msg |-> "none"]
    /\ up = <<>> /\ out = <<>>
    /\ fileView = Nothing
    /\ stopped = FALSE /\ gap = FALSE
-----------------------------------------------------------------------------
Locked == reading.who # "nobody"

Upset == clock < MaxUpsets /\ clock' = clock + 1

(* The file is written by others, in place or by a rename over it; the     *)
(* clock of the file system may not have moved on.                         *)
Baselined == poll.pc \notin {"off", "baseStat", "baseRead"}
\* A write that goes unnoticed: it comes between fan's check and the
\* baseline, or looks to both like what was read, or puts back, under its
\* old time or by removing it, what poll has seen before.
Unnoticed(file) ==
    LET stamp == StampOf(file)
    IN  \/ poll.pc \in {"off", "baseStat"} /\ fan.pc \notin {"off", "check"}
        \/ poll.pc = "baseRead" /\ stamp = poll.cur.stamp
        \/ ~Baselined /\ (stamp = source.stamp \/ (Locked /\ stamp = reading.stamp))
        \/ Baselined /\ pollEqual(poll.prev, Sample(stamp, file.doc))

Write ==
    /\ Upset
    /\ \E doc \in (DOMAIN SizeOf \cup {"missing"}) \ {disk.doc} : \E mtime \in {disk.mtime, clock + 1} :
          /\ Exists(disk.doc) \/ mtime = clock + 1
          /\ disk' = FileOf(doc, mtime)
          /\ gap' = (gap \/ Unnoticed(disk'))
    /\ UNCHANGED <<source, reading, main, client, poll, up, fan, out, fileView, stopped>>

\* A transient error, which the caller may meet on any access to the file.
Fault == Upset
NoFault == UNCHANGED clock
-----------------------------------------------------------------------------
(* Reading the file: newFileSource and Reload.                             *)
\* readFileStamped up to the stat of the opened file, under the mutex.  A read
\* that starts once the watcher has its baseline makes up for the gap.
Open(who) ==
    /\ ~Locked
    /\ reading' = [who |-> who, stamp |-> StampOf(disk), doc |-> disk.doc]
    /\ gap' = (gap /\ ~Baselined)

\* readFileMaybeOptional and the rest of Reload, on the document read: what
\* the source is afterwards.
Failed == [source EXCEPT !.failed = TRUE]
Loaded(who, doc, stamp) ==
    IF Exists(doc)
    THEN IF Decodes(who, doc)
         THEN [held |-> Decoded(doc), stamp |-> stamp, decoded |-> doc # "empty", failed |-> FALSE]
         ELSE [source EXCEPT !.stamp = stamp, !.failed = TRUE]
    ELSE IF Optional THEN [held |-> Nothing, stamp |-> NoStamp, decoded |-> FALSE, failed |-> FALSE]
    ELSE Failed

\* The opened file is read: as it is now, written in place, or as it was
\* opened, when a rename replaced it.  A missing file was not opened.
ReadDocs == IF Exists(reading.doc) THEN {reading.doc, disk.doc} \ {"missing"} ELSE {"missing"}
Read(who) ==
    /\ reading.who = who
    /\ reading' = [who |-> "nobody"]
    /\ UNCHANGED gap
    /\ \/ NoFault /\ \E doc \in ReadDocs : source' = Loaded(who, doc, reading.stamp)
       \/ Fault /\ source' = Failed

\* newFileSource; New then builds the first snapshot.  A file that does not
\* read fails the constructor: nothing more happens.
ConstructOpen ==
    /\ main = "construct" /\ main' = "read"
    /\ Open("main")
    /\ UNCHANGED <<disk, clock, source, client, poll, up, fan, out, fileView, stopped>>

ConstructRead ==
    /\ main = "read"
    /\ Read("main")
    /\ main' = IF source'.failed THEN "failed" ELSE "built"
    /\ fileView' = IF source'.failed THEN fileView ELSE source'.held
    /\ UNCHANGED <<disk, client, poll, up, fan, out, stopped>>

\* FileSource.Watch: two goroutines start, in either order.
Watch ==
    /\ main = "built" /\ main' = "watching"
    /\ poll' = [poll EXCEPT !.pc = "baseStat"]
    /\ fan' = [fan EXCEPT !.pc = "check"]
    /\ UNCHANGED <<disk, clock, source, reading, client, up, out, fileView, stopped, gap>>

Cancel ==
    /\ main = "watching" /\ ~stopped
    /\ stopped' = TRUE
    /\ UNCHANGED <<disk, clock, source, reading, main, client, poll, up, fan, out, fileView, gap>>

\* A client reloads the source and then, if that went well, the registry.
ClientOpen ==
    /\ main = "watching" /\ client = "idle"
    /\ Upset
    /\ client' = "read"
    /\ Open("client")
    /\ UNCHANGED <<disk, source, main, poll, up, fan, out, fileView, stopped>>

ClientRead ==
    /\ client = "read"
    /\ Read("client")
    /\ client' = IF source'.failed THEN "idle" ELSE "rebuild"
    /\ UNCHANGED <<disk, main, poll, up, fan, out, fileView, stopped>>

ClientRebuild ==
    /\ client = "rebuild" /\ client' = "idle"
    /\ fileView' = source.held
    /\ UNCHANGED <<disk, clock, source, reading, main, poll, up, fan, out, stopped, gap>>
-----------------------------------------------------------------------------
(* PollWatcher.poll: a baseline, then a sample on every tick.              *)
PollUnchanged == UNCHANGED <<disk, source, reading, main, client, fan, out, fileView, stopped>>

\* pollSnap's stat.  A stat error of the baseline is absorbed, one of a tick
\* is sent on; a missing file is a sample of its own.
Statted(next, ifMissing, ifError) ==
    \/ /\ NoFault
       /\ poll' = IF Exists(disk.doc) THEN [poll EXCEPT !.pc = next, !.cur = Sample(StampOf(disk), "unhashed")]
                  ELSE ifMissing
    \/ Fault /\ poll' = ifError

Settled(sample) == [poll EXCEPT !.pc = "idle", !.prev = sample, !.cur = Gone]

BaseStat ==
    /\ poll.pc = "baseStat"
    /\ Statted("baseRead", Settled(Gone), Settled(Gone))
    /\ gap' = (gap \/ clock' # clock)
    /\ UNCHANGED up /\ PollUnchanged

\* The content hash, if the file can be read.
Hashed == Sample(poll.cur.stamp, IF Exists(disk.doc) THEN disk.doc ELSE "unhashed")
Sampled(sample) == \/ NoFault /\ sample = Hashed
                   \/ Fault /\ sample = poll.cur

BaseRead ==
    /\ poll.pc = "baseRead"
    /\ \E sample \in {Hashed, poll.cur} : Sampled(sample) /\ poll' = Settled(sample)
    /\ UNCHANGED <<up, gap>> /\ PollUnchanged

\* prev is replaced when the samples differ, and only then.
Compared(sample) ==
    IF pollEqual(sample, poll.prev) THEN Settled(poll.prev)
    ELSE [Settled(sample) EXCEPT !.pc = "send", !.msg = "change"]

Tick ==
    /\ poll.pc = "idle"
    /\ Statted("read", Compared(Gone), [poll EXCEPT !.pc = "send", !.msg = "err"])
    /\ UNCHANGED <<up, gap>> /\ PollUnchanged

TickRead ==
    /\ poll.pc = "read"
    /\ \E sample \in {Hashed, poll.cur} : Sampled(sample) /\ poll' = Compared(sample)
    /\ UNCHANGED <<up, gap>> /\ PollUnchanged

PollSend ==
    /\ poll.pc = "send" /\ Len(up) < 1
    /\ up' = Append(up, poll.msg)
    /\ poll' = [poll EXCEPT !.pc = "idle", !.msg = "none"]
    /\ NoFault /\ UNCHANGED gap /\ PollUnchanged

\* The deferred close(out) runs as poll returns.
PollEnd ==
    /\ stopped /\ poll.pc \in {"idle", "send"}
    /\ poll' = [pc |-> "done", prev |-> Gone, cur |-> Gone, msg |-> "none"]
    /\ UNCHANGED <<up, gap>> /\ NoFault /\ PollUnchanged

PollStep == BaseStat \/ BaseRead \/ Tick \/ TickRead \/ PollSend \/ PollEnd
-----------------------------------------------------------------------------
(* fanWatchEvents.                                                         *)
FanUnchanged == UNCHANGED <<disk, main, client, poll, fileView, stopped>>

changedSinceRead(stamp) == stamp # source.stamp

\* Mutant of FanCheck: notifications are all it goes by.
FanCheckNothing ==
    /\ fan.pc = "check" /\ ~Locked
    /\ NoFault /\ fan' = [fan EXCEPT !.pc = "idle"]
    /\ UNCHANGED <<source, reading, up, out, gap>> /\ FanUnchanged

\* The check that makes up for writes before the subscription; an error of
\* its stat looks like a missing file.
FanCheck ==
    /\ fan.pc = "check" /\ ~Locked
    /\ \/ /\ NoFault
          /\ fan' = [fan EXCEPT !.pc = IF changedSinceRead(StampOf(disk)) THEN "open" ELSE "idle"]
          /\ UNCHANGED gap
       \/ /\ Fault
          /\ fan' = [fan EXCEPT !.pc = IF changedSinceRead(NoStamp) THEN "open" ELSE "idle"]
          /\ gap' = (gap \/ ~changedSinceRead(NoStamp))
    /\ UNCHANGED <<source, reading, up, out>> /\ FanUnchanged

FanTake ==
    /\ fan.pc = "idle" /\ up # <<>>
    /\ up' = Tail(up)
    /\ fan' = IF Head(up) = "err" THEN [pc |-> "send", msg |-> "err"] ELSE [fan EXCEPT !.pc = "open"]
    /\ NoFault /\ UNCHANGED <<source, reading, out, gap>> /\ FanUnchanged

FanOpen ==
    /\ fan.pc = "open"
    /\ fan' = [fan EXCEPT !.pc = "read"]
    /\ Open("fan")
    /\ NoFault /\ UNCHANGED <<source, up, out>> /\ FanUnchanged

FanRead ==
    /\ fan.pc = "read"
    /\ Read("fan")
    /\ fan' = [pc |-> "send", msg |-> IF source'.failed THEN "err" ELSE "change"]
    /\ UNCHANGED <<up, out>> /\ FanUnchanged

\* Mutant of FanSend: what does not fit into the channel is dropped.
FanSendDrops ==
    /\ fan.pc = "send"
    /\ out' = IF Len(out) < 1 THEN Append(out, fan.msg) ELSE out
    /\ fan' = [pc |-> "idle", msg |-> "none"]
    /\ NoFault /\ UNCHANGED <<source, reading, up, gap>> /\ FanUnchanged

\* forwardChange gives up on a full channel only when the context ends.
FanSend ==
    /\ fan.pc = "send"
    /\ \/ Len(out) < 1 /\ out' = Append(out, fan.msg)
       \/ stopped /\ UNCHANGED out
    /\ fan' = [pc |-> "idle", msg |-> "none"]
    /\ NoFault /\ UNCHANGED <<source, reading, up, gap>> /\ FanUnchanged

\* The context has ended, or upstream is closed and drained.
FanEnd ==
    /\ fan.pc = "idle" /\ stopped
    /\ fan' = [fan EXCEPT !.pc = "done"]
    /\ NoFault /\ UNCHANGED <<source, reading, up, out, gap>> /\ FanUnchanged

FanStep == FanCheck \/ FanTake \/ FanOpen \/ FanRead \/ FanSend \/ FanEnd
-----------------------------------------------------------------------------
\* The watch engine takes a change and rebuilds; an error it only reports.
Consume ==
    /\ out # <<>> /\ ~stopped
    /\ out' = Tail(out)
    /\ fileView' = IF Head(out) = "change" THEN source.held ELSE fileView
    /\ UNCHANGED <<disk, clock, source, reading, main, client, poll, up, fan, stopped, gap>>

MainStep == ConstructOpen \/ ConstructRead \/ Watch
ClientStep == ClientRead \/ ClientRebuild

FileNext == Write \/ MainStep \/ Cancel \/ ClientOpen \/ ClientStep \/ PollStep \/ FanStep \/ Consume

\* Goroutines and the ticker keep running; nobody has to write, cancel or
\* call Reload, and errors need not come.  A select chooses at random among
\* the cases that are ready, so poll does not pass over its context forever.
FileFairness ==
    /\ WF_fileVars(MainStep) /\ WF_fileVars(ClientStep)
    /\ WF_fileVars(PollStep) /\ WF_fileVars(FanStep) /\ WF_fileVars(Consume)
    /\ SF_fileVars(PollEnd)

FileSpec == (\E doc \in InitialDocs : FileInitOn(doc, "construct")) /\ [][FileNext]_fileVars /\ FileFairness
-----------------------------------------------------------------------------
FileContract == INSTANCE WatchedSource WITH
    Holdings <- Docs \cup {Nothing},
    phase <- IF main \in {"construct", "read", "failed"} THEN "new" ELSE IF stopped THEN "over" ELSE "live",
    held <- source.held, view <- fileView,
    owed <- out = <<"change">> \/ fan.msg = "change" \/ client = "rebuild"

\* Once the file is no longer written, the registry has what the file holds:
\* no write is lost between the stat and the read of a sample, between a
\* notification and the Reload it causes, or while a channel is full.
\* Excepted: a write that no sample can tell (gap) and a file whose last read
\* failed.
FileConverges ==
    <>[](\/ main # "watching" \/ stopped \/ gap \/ source.failed
         \/ fileView = Decoded(disk.doc))

\* Cancelling ends both goroutines, although nobody reads the channel.
FileEnds == stopped ~> poll.pc = "done" /\ fan.pc = "done"
=============================================================================

------------------------------ MODULE MCFeeds ------------------------------
(***************************************************************************)
(* What the registry exchanges with the world: a watched file, a watched   *)
(* remote backend and saves to a file.  They share nothing, so a behaviour *)
(* is one of a single part; the others stay where their constructor failed *)
(* or nobody has called them.                                              *)
(***************************************************************************)
EXTENDS FileFeed, RemoteFeed, SaveTo

CONSTANT Parts
VARIABLE part

feedsVars == <<part, fileVars, remoteVars, saveVars>>

FileDocs == {"d1", "d2"}
FileSizeOf == [doc \in FileDocs \cup {"torn"} |-> IF doc = "torn" THEN 1 ELSE 2]

FeedKeys == [push |-> {1}, poll |-> {1, 2}]

FileAndLink == {"link", "file"}
Apart == [n \in FileAndLink |-> n]
Setup(atLink, atFile, mayGive) ==
    [layout |-> [n \in FileAndLink |-> IF n = "link" THEN atLink ELSE atFile], rights |-> mayGive]
LinkSetups ==
    {Setup(Link("file"), File("old"), "owner"), Setup(Link("file"), File("old"), "group"),
     Setup(Link("file"), Missing, "none"), Setup(Link("link"), File("old"), "none")}
Unsaved == Setup(Missing, Missing, "none")

FeedsInit ==
    /\ part \in Parts
    /\ IF part = "file" THEN \E doc \in InitialDocs : FileInitOn(doc, "construct") ELSE FileInitOn("missing", "failed")
    /\ IF part \in {"push", "poll"} THEN RemoteInitAs(part, "construct") ELSE RemoteInitAs("push", "failed")
    /\ IF part = "save" THEN \E setup \in Setups : SaveInitAs(setup) ELSE SaveInitAs(Unsaved)

FeedsNext ==
    \/ part = "file" /\ FileNext /\ UNCHANGED <<part, remoteVars, saveVars>>
    \/ part \in {"push", "poll"} /\ RemoteNext /\ UNCHANGED <<part, fileVars, saveVars>>
    \/ part = "save" /\ SaveNext /\ UNCHANGED <<part, fileVars, remoteVars>>

FeedsSpec == FeedsInit /\ [][FeedsNext]_feedsVars /\ FileFairness /\ RemoteFairness
-----------------------------------------------------------------------------
\* A registry that rebuilds on what Watch of a file or of a remote source
\* sends is behind only while it is owed a change (Watcher); one that polls,
\* until a comparison after a client's refresh misses a difference (missed).
FeedsContract == FileContract!SourceSpec /\ RemoteContract!SourceSpec

\* Once nobody writes any more, the registry holds what the file or the
\* backend holds (FileSource.Watch, RemoteSource.Watch).
FeedsConverge == FileConverges /\ RemoteConverges

\* Cancelling a subscription ends its goroutines, although nobody reads the
\* channel (fanWatchEvents, PollWatcher.poll, fanWatch, watchPoll).
FeedsEnd == FileEnds /\ RemoteEnds
=============================================================================

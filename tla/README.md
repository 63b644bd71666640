# recon in TLA+

`recon` is a Go library that merges configuration from several sources into one
immutable snapshot, binds it into structs and follows changes. This directory
models its core, checks it with TLC on small instances and proves central safety
properties of resolution, the registry, the watch engine, `Live`, `Configs`, file
and remote sources and `SaveTo` with TLAPS for every instance.

## The system

| Part | State it keeps | Operations | Interacts with |
|---|---|---|---|
| Sources (`source_*.go`) | contents, replaced as a whole | `Get`, `Keys`, `Replace`/`Reload`/`Refresh`, `Watch`, `Close` | read by a rebuild, one `Get` at a time; a `Watcher` sends `SourceChange`s |
| Resolution (`snapshot.go`, `precedence.go`, `alias.go`) | none: pure functions | `buildSnapshot`, `read`, `AsMap`, the secret matcher | called under the registry's lock |
| Registry (`registry*.go`) | layers (explicit values, sources, defaults, aliases, pins, bound paths), secret keys, immutable baselines, warnings, the snapshot pointer | writes, source management, `Reload`, `MarkSecret`, `Close` | one mutex for writers; readers load the pointer |
| Bind (`registry_bind.go`, `bind_walker.go`) | a walk over the target's fields | `Bind` | loads the snapshot many times, takes the lock for bound paths, baselines, warnings, `unset`, secrets |
| Watch engine (`watch.go`) | subscriptions, pending channel, debounce timer, event channel, drop count | goroutines `forward`, `poll`, `loop` | sources, the registry's rebuild, consumers of `Events` |
| Live (`live.go`) | the bound struct pointer, a one-slot event channel | `run`, `Get`, `Reload`, `Close` | consumes the engine's events, binds |
| Configs (`configs.go`) | named registries, a merged event channel | `Register`, `Remove`, `Events`, `Close` | forwards the registries' events |
| File source and poll watcher (`source_file.go`, `read_file.go`, `watcher_poll.go`) | contents read, the stamp of the file they were read from; samples | `Reload`, `Watch`; `poll`, `fanWatchEvents` | a file others write; sends `SourceChange`s to the engine |
| Remote source and memory backend (`source_remote.go`, `remote_inmemory.go`) | cache; data, subscribers, one lock | `Refresh`, `Watch`, `Close`; `Put`, `PutAll`, `Delete`, `Watch`, `Close` | as the file source; the backend notifies |
| Save (`registry_save.go`, `save_unix.go`) | files | `Save`, `SaveTo`, `GenerateTemplate`, `TemplateKeys` | reads a snapshot and the secret policy |
| Paths (`path.go`, `registry_sub.go`) | none | `ParsePath`, `String`, `comparePaths`, `fullKey` | the text of a path keys every map |
| Codecs, values, options, errors | none | conversions | — |

What is hard here: writes that mutate first and validate afterwards, and so must
roll back exactly; the closed flag, which is read outside the lock; a rebuild
that reads sources which change meanwhile; a bind that spans many snapshots;
three independent computations of what a key and the keys below it mean; a
pipeline of bounded channels that must neither lose a change nor block `Close`;
event channels that drop; files and backends that change while they are read,
before they are watched and between two samples; a save that may fail or be cut
off at every step. `PROJECT.json` lists these as hazards, each at its
line with the properties aimed at it.

## Modules

```
Resolution      pure: layers -> snapshot -> reads
  Contents      what map and environment sources answer
  SavePayload   what Save encodes
PathText        pure: the text of a path, its parser and its order
  PathTextProofs     theorems, on ResolutionLemmas
    Snapshots   over Contents, SavePayload and PathText: what a snapshot promises
      MCResolution
      SnapshotsProofs   theorems
  ResolutionLemmas   lists, Go maps and alias graphs: lemmas
  Registry      layers, snapshot, rollbacks, Close      --implements--> ConfigStore
    MCRegistry
    Bind        Bind beside the registry's operations
      MCBind
      RegistryProofs   theorems about both
ConfigStore     abstract: accepted configurations, installed atomically
  WatchEngine   goroutines and channels on top of a store
    Live        the rebind goroutine
      MCWatch   the engine alone or with a Live
      MCLive    a Live, for LiveMissed
      LiveProofs  theorems, the engine's too
Configs         named registries and the merged event channel
  MCConfigs
  ConfigsProofs   theorems
WatchedSource   abstract: no change of a source goes untold
  FileFeed      a written file, its poll watcher, the FileSource, a registry
  RemoteFeed    a backend, its notifications or polls, the RemoteSource, a registry
    FeedsProofs theorems about both
SaveTo          savers, directory entries, inodes, a crash
    SaveProofs  theorems
  MCFeeds       one of FileFeed, RemoteFeed (twice) and SaveTo
```

**Resolution.** A key is a sequence of segments, a value a scalar, null, slice
or map, a map being held by its leaves. Operators keep the names of the Go
functions. Loops over key sets become set comprehensions; the string order in
which aliases are tried is the constant `KeyLess`, the native name of a key in a
source the constant `NativeKey`. Reserved layer names are part of it.

**Snapshots.** One step: from any layers (`Layerings`) to the snapshot built from
them. The properties are about that snapshot: which layer a key's value comes
from and that it is that layer's (`Eligible` and `CountingName` give the answer without the
code's loops), what its keys, parents and
aliases read as, what a document saved from it says. `IsLayering` says what layers a
registry can hold.

**Registry.** `layers` is the part of `registryState` a rebuild reads, `built`
a history variable with the inputs of the installed snapshot. A client operation
is two steps: `Call`, the closed check outside the lock, and the locked part,
one action. `Rebuild` reads the sources with possibly one content change in
between (`Readings`), and installs or leaves what its caller rolls back to; each
action gives that rollback as the code computes it, never as "the old layers".
`MaxSwaps` bounds content changes.

**Bind.** One action per load of the snapshot and per critical section.
Fields are given flattened with their tags; the set `fits` stands for type
conversion. `BindNext` contains all of the registry's steps.

**ConfigStore** says what a registry promises without saying how values resolve.
The property `ImplementsStore` of `Registry` is the refinement; the engine and
Live are built on the abstract store, which keeps their state spaces small
enough for liveness.

**WatchEngine.** A channel is a sequence or a slot, a `select` a disjunction,
each goroutine's position a variable. One call of `Watch` is a line: the channel,
the source's end of it and the forward goroutine at the other. A source that is
removed and added again has a new line beside the old one, which goes on until
its source has closed it and it is drained. `Watch` may fail, and a source may
close its channel at any time (one without a watcher does at once).
`owed` holds the lines whose change is made and not
sent; the debounce timer has no duration. `history` counts drops and reports.

**Live.** The goroutine's bind and its store are two steps, and so are those of
`Live.Reload`.

**Configs.** Of a registry only its event channel is seen, its events numbered;
`got` remembers what the consumers received. `Close` is its five steps; a send
on the closed channel sets `panicked`. The registries' own drops on a full
channel belong to `WatchEngine`. `LateRegister` says whether clients call
`Register` beside or after `Close`: the passing run excludes it, ConfigsPanic
shows why it has to.

**WatchedSource** says what a registry relies on when it watches a source: if it
rebuilds on each `SourceChange`, it is behind only while it is owed one.
`FileFeed` and `RemoteFeed` implement it (`FileContract`, `RemoteContract`); the
engine's `owed` is the same promise seen from the other side.

**FileFeed.** Each system call of the code is a step: the stat of the opened file
and its read are two, and the file may be rewritten in place, replaced or
removed between them, under the same modification time too. `reading` is the read in
flight under the `reload` mutex. Every access may fail once in a while (`Fault`).
`gap` is a history variable: a write that no sample can tell has happened since
the last read.

**RemoteFeed.** Refreshes are not serialised, so each refresher has its own
`fetch`. `kind` chooses between a `MemoryBackend` that notifies and a backend
that is polled, whose `List` and `Get`s are steps of their own. A write holds the
backend's lock until it has notified. `behind` and `missed` are history
variables, the exceptions of `RemoteConverges`: `missed` records a poll that found
equal data after a client's refresh (`refreshed`, cleared by every comparison)
and left the registry with other data and nothing on its way.

**SaveTo.** `entry` are the directory entries, `maybe` those a crash may leave
(every value since the directory was last synced), `inode` the contents. Each
step may fail. Several savers, of one process or of many, write to one file.

**SavePayload.** `buildSavePayload` and its policy, as operators on the snapshot
of `Resolution`; `payloadOf` is parameterised by the keys that passed the filters.

**PathText.** A string is its sequence of bytes. The other modules use the
sequence of segments instead of the text; that this is sound is what
`PathsAndTexts` says, and `PathsAgree` proves of every path.

## Runs

Passing runs (each reaches at least a hundred states; bounds in the `.cfg`):

| Run | Shows | Bounds |
|---|---|---|
| Resolution | precedence against a declarative definition; tree, section and scalar reads agree; aliases read as their key; slices of three layers concatenate lowest first; a saved document says what reads say, restores the configuration and withholds secrets; texts of paths parse back, split and sort like the paths | 101,184 combinations of layers, both merge strategies, seven keys up to depth three, two sources in both orders, an alias of a key, of a key below another, and for either one of these as the former name, each with pins and bound keys; 40,868 pairs of paths with dots, brackets and empty segments |
| Registry | rollbacks keep layers and snapshot in step, readers only see valid snapshots, secret marks survive rebuilds, registrations that overwrite each other never close an alias cycle, no registered source is closed, names stay unique, source management implements `ConfigStore` | one client, three keys, two sources, a value the validator refuses, one content change, before or during a rebuild |
| Bind | binds with tags and second spellings beside writes: rollbacks, secrets, baselines, keys no source enumerates are found | one binder, two structs, one client, one content change |
| Watch | drops are told exactly once, subscriptions follow the source list, no change is lost, `Close` returns; Live hands out decoded, accepted configurations only, catches up, its goroutine ends | two parts. The engine alone: a watched source that comes and goes, two lines (an old subscription drained beside the new one), a polled source that comes and goes and holds a refused version, event buffer of one, one content change, one refresh error, warnings queued while a rebuild runs. A Live on top: one file with a refused version and a torn reading, one change, two idle ticks or a `Live.Reload`, the source's channel closed by Close only |
| Feeds | a registry behind a polled file or a remote backend is behind only while owed a change, catches up once writes stop (but for what PollMissed shows and the other exceptions listed below), and its goroutines end; the backend never sends on a closed channel; a file that is saved to is whole at any moment and after a crash, durable once synced, keeps its link, mode and owner | two documents and a torn one of another size, two writes or errors; one key with notifications, two with polls, two writes or errors; two savers, four layouts of a file and a link, every step failing, one crash |
| Configs | events are forwarded completely and in order, also for reused names; `Close` ends without a send on the closed channel | three registries (one unwatched), two names, two events each, merged channel of capacity one to nine |

Two or three keys, two sources and two clients are enough for the cases that
matter: a conflict needs two layers, a torn reading two keys, a lost update two
actors, a rollback that disturbs its neighbour two entries. Counters that would
be unbounded (content changes, errors, idle ticks, reloads) are bounded by named
constants. Watch starts from one version of the file
(`InitialContents`): the good ones among its versions differ in name only. Its two
parts are chosen in the initial state, and so is what each leaves out (`AloneBounds`,
`LiveBounds`): none of it stops a fair goroutine. Feeds chooses its part in
the initial state (`part`); the parts share nothing. Its two upsets are what the
races need: a write between two steps of one goroutine and another write or error
after it; poll needs two keys so that a refresh reads half of a write. `CHECK_DEADLOCK FALSE` stands where the system may stop: a closed
registry, a built snapshot.

Violation runs show where the code does something other than a comment, the
README or a doc says. `PROJECT.json` quotes the line for each.

| Run | What happens |
|---|---|
| CloseRace | a source added by a call that passed the closed check is never closed |
| TornBind | a bound struct mixes two snapshots |
| ImmutableFormerName | an immutable field found under a tag alias blocks every rebuild |
| LiveMissed | a dropped success event leaves Live on an old struct |
| ConfigsPanic | `Register` after `Close` starts a forwarder that may send on the closed channel |
| PollMissed | a registry that polls keeps old data after a client's `Refresh` and reload between two polls |

Other behaviour that the models contain and the properties are worded around;
the hazards of `PROJECT.json` give the lines:

- a key that holds a map itself beside keys below it in the same layer reads, as
  a section, as that map only, while the tree shows the keys below;
- an alias of a section held as leaves reads as nothing;
- a read looks into the map that an alias stands for, the tree has the canonical
  keys alone; so paths at or below an alias are left out of the comparisons with the tree
  (`Aliased`);
- a saved document does not restore everything. A file source answers its sections as
  maps: with an alias `a` of `old` and `Set("a.b")`, the document holds `a.b`, and a process that
  starts from it has an `old` as well. It enumerates no empty map, so one that was `Set` comes
  back only where a default asks for it. A section asked for by name hides the defaults
  below it. `SaveRestores` lists these exceptions;
- `hideBoundParents` leaves a bound key's map out of the list as soon as any key below it
  is listed: one of a lower layer too, or a pinned one, which the tree then shows while a read
  of that key gives the map's entry. This happens with a file that holds a section under a
  former name of the key, or where a bind asked for the key; `EntriesListed` says when it does
  not: each entry that has to do with the path is listed, from no lower a layer;
- a section read of a key looks at the keys below it alone, the tree at all of them. With
  `a: 1` in a file, `Set("a.b")` above it and a default `a.c` below it, the tree has lost
  `a.c` to `a`, a section read of `a` shows both (`Straddled`);
- a save of the sub-tree below a map that a higher layer holds further up shows what lost to
  that map; a default that lost to such a map, or to a key that lost itself, comes back after a
  restart from the saved document (`LosesTo`, the fourth exception);
- an alias below a secret key is secret, the key it stands for is not;
- an alias chain can grow past the depth budget by registering its far end last;
- a name given twice to `WithPrecedence` registers its source twice;
- a snapshot may mix two contents of one source replaced during its rebuild;
- a write between a bind's read and its baseline leaves a baseline that differs
  from the installed value;
- an event's `Source` is that of the last message, an error's included, and its
  `Changed` includes a `Set` that ran beside the reload;
- `Live.Reload` may overwrite a newer struct with an older one, and the engine
  may drain the warnings of Live's rebind;
- `FileSource.Watch` checks for a write before the subscription beside the
  watcher's baseline, so a write after the check and before the baseline is never
  noticed; nor is one that a sample cannot tell (`gap`);
- with notifications, a `Put` between the constructor's read and `Watch`, a
  refresh that failed, and an older refresh that finishes last leave the remote
  source on old data until the next write (`behind`);
- a poll between a client's `Refresh` and its reload may find nothing to tell, and the
  reload that follows does; where the reload comes first, nothing does (run PollMissed);
- a source whose `Watch` failed, or that closed its channel, stays registered and is heard of
  no more;
- after `RemoteSource.Close` a refresh in flight fills the dropped cache again;
- a save through a circular link, or through more links than `maxSymlinkHops`,
  replaces a link;
- Save filters before it looks for shadowed keys, so a map's own entry stands in
  for a key that was filtered out, and marks below a key that holds a map do not
  withhold that entry;
- a read of a key whose last segment is empty gives the map above it.

## Fairness

Weak fairness for each goroutine of the engine and of Live (the Go scheduler
runs a goroutine that can run, `select` picks among ready cases at random), for
the timer, for the end of a source's own send (per line; a source need not change,
fail or close), and for the goroutines of a file
or remote source and of a backend write that has begun. A poll's or a watch
goroutine's end has strong fairness: its `select` has the context and the ticker
or the output ready again and again, and picks among ready cases at random. Clients, content changes,
consumers of events and the start of `Close` are not fair; a `Configs.Close` that
began goes on. `CloseReturns`, `LiveEnds` and `ConfigsCloseReturns` hold with
nobody reading the channels; `FeedsEnd` too, since consumption stops with the
subscription. Writers, cancels, clients' `Refresh` and `Reload` and errors are not
fair. Saves need no fairness: what is checked of them is safety.

## Proofs

`SnapshotsProofs` proves of the snapshot built from any layers (any keys, sources in any
order, values, pins, aliases, bound keys, under either merge strategy):

- `SnapshotsAreBuilt`: `SnapshotsSpec => []SnapshotsInv`
- `Precedence`: `ASSUME AliasesEnd PROVE SnapshotsSpec => []PrecedenceRespected`
- `AliasReads`: `ASSUME AliasesEnd PROVE SnapshotsSpec => []AliasReadsAsCanonical`
- `AppendsJoin`: `SnapshotsSpec => []AppendConcatenates`
- `TreeAgrees`: `SnapshotsSpec => []TreeAgreesWithReads`
- `SectionsAgree`: `SnapshotsSpec => []SectionAgreesWithTree`
- `SavedAgrees`: `SnapshotsSpec => []SavedAgreesWithReads`
- `WithholdsSecrets`: `SnapshotsSpec => []SecretsWithheld`
- `PathsAgree`: `SnapshotsSpec => []PathsAndTexts`, of paths of any length and any bytes

`SnapshotsInv` says that a snapshot is what `buildSnapshot` makes of some layers; the
rest is about that function. `ResolvedWins` is the centre of `Precedence`: what
`resolveKey` returns for a key is there exactly when a layer that may supply it is, and
the first layer it names is the highest of these, with the value under the name that counts
there unless a merge joins it to others. It rests on `ContributorsInOrder` (the
loop over the sources keeps their order, `PickedFirst`), on `SpelledFound` (`layerGet` and
`sourceGet` find a value under a key's names when there is one) and, for
`MergeAppend`, on `MergedIsValue`: a merge never turns values into none. `FlatIsLayering`
carries all this through `flattenLayer`, where of several maps that hold a path the
longest key wins (`LongestPath`). `CanonicalEntries` says which keys the snapshot has and
`RankOfName` ties the rank a read computes to the layer. For `AliasReads`, `StampAliases`
gives an alias the entry of its key, and the reads that look above or below go by
that key. `AliasesEnd` is the hypothesis of both that no chain of aliases outruns
`MaxAliasDepth`; of a longer one `resolveAliasChain` returns a name in the middle, and both
claims are false. `FewAliasesEnd` shows that it holds for any acyclic aliases that are no
more than the budget, and `NoCycles`, below, that a registry's are acyclic. The other
theorems have no such hypothesis.

`AppendsJoin` runs two loops beside each other: the one that picks the sources that
supply a key, from the first down, and the one that merges what they gave, from the last up.
`MergingJoins` says that after as many steps of either as there are sources left, what is
merged is what is joined, the sources that gave nothing adding nothing.

The three theorems about trees rest on what a snapshot is known to be
(`SnapIsWellBuilt`: paths, values in leaf form, ranks, what is listed is there) and on
`WriterReads`. A path of a tree was written by one key (`TreeIsOfKeys`), and no key kept
below that one has to do with the path. The lemma shows that a read takes the path from there
too. If a map at a parent of the path has the entry, the parent is the writer or one that
loses to nothing that is kept (`NoneBeats`, `BestParent`), or it is not listed, and then its
entry is, from as high a layer, so that the writer is that entry's key. `SectionsAgree` adds that
the section's keys and the tree's are shadowed alike where no key comes in between
(`SectionReads`), `SavedAgrees` that the filters and the stripped prefix change nothing for the
keys they let through (`StripPrefixHolds`). `WithholdsSecrets` needs no more than that each
path of a document belongs to one listed key, by whose name the code decides; where that
key's value is a map, the path may be marked and shown, which the property says
(`HeldByMap`).

`PathsAgree` rests on `PathTextProofs`. Printer and parser walk the bytes by recursion, which
cannot be unfolded by induction here; the proof describes where things lie instead.
`Layout` says that in a text the form of each segment lies behind those before it, and
`SegmentAt` what the bytes of that place are: no delimiter and no bracket opened, or brackets
of the segment's own, which the scan closes at its end, stepping over the doubled ones
(`ClosingAt`), and which read as the segment (`HalvedDoubled`). A walk that always goes on to a
later position has one result (`DescentExists`), which is followed from the end of the
text to its start: before each segment the parser continues what it reads behind it
(`ParsedSegment`, `RoundTrip`), and `topLevelDelims` meets a delimiter at each segment's end
and nowhere else (`DelimitedSegment`, `DelimitersOf`). For the order, the texts of two paths
without brackets agree as far as the segments they share (`SharedText`); behind these they
part where the segments do, or where the shorter segment is followed by the delimiter
(`SegmentsPart`, `ShorterSegment`, `PrefixFirst`). So the other modules may take the sequence
of segments for the text, as long as the first and last segments are not empty.

`RegistryProofs` proves, for every set of keys, values, sources, clients and
calls, every validator and every bound:

- `TypeCorrect`: `Spec => []TypeOK`
- `InSync`: `Spec => []SnapshotInSync`
- `Valid`: `Spec => []SnapshotValid`
- `Secrets`: `Spec => []SecretsInSync`
- `NoCycles`: `Spec => []AliasesAcyclic`
- `Unique`: `ASSUME Distinct(Precedence) PROVE Spec => []SourcesUnique`
- `NotReleased`: `ASSUME Distinct(Precedence) PROVE Spec => []RegisteredNotReleased`
- `RegistryImplements`: `Spec => ImplementsStore`

The inductive invariant `Safe` joins the first four with `NothingBeforeNew`: before
`New` there is no snapshot and no client holds the registry, which `New` needs,
because it changes the layers even when it installs nothing. The argument is in
two halves. `RebuildSafe` and `CommitSafe`: an operation whose rejected case
leaves the layers it found keeps the invariant, whatever the sources answer.
Then, per operation, that the rollback the code computes does leave the layers
it found: `RestoreUndoesWrite` for the map layers, `CutUndoesAppend`,
`RemoveUndoesInsert` and `InsertUndoesRemove` for the source list.
`ClientTransacts` puts the second half in one predicate, `Transacts`: an
operation either does nothing, or commits layers that differ by one step of the
source list or of the aliases and rolls back to the very layers it found. The
other theorems start from it. How values resolve is never unfolded.

`Names` (no name twice, nothing registered is closed while the registry is in use)
is inductive because a name is free when it is added and stands once when it is
removed. It needs `Distinct(Precedence)`: `WithPrecedence` with a name given twice
registers that source twice, and a removal then closes a source that is still
registered. `NoCycles` rests on `NoAliasCycle`: no part of the alias graph leads
only to itself. `RegisteredAliasNoCycle` shows that the hops `validateNoAliasCycle`
walks are enough to keep it so, also when an alias is overwritten and whatever the
depth budget, and `WalkLeaves`, a pigeonhole, that a walk which is still inside
after as many hops as there are aliases has come round. For `RegistryImplements`
what the store shows as installed is read off `built`; a rebuild is the store's
install or its rejection, a secret mark and a recorded call are stutters.

It proves of `Bind`, for any binders and structs beside all of the registry's
operations:

- `BindInSync`: `BindSpec => []SnapshotInSync`
- `BindValid`: `BindSpec => []SnapshotValid`
- `BindKeepsBaselines`: `BindSpec => InstallKeepsBaselines`

`BindSafe` is `Safe` with the shape of each walk (`IsWalk`: it is at a field of its
struct) and `NoBindBeforeNew`. A bind changes the registry in five places: two
rebuilds, which `RebuildSafe` covers, remembered paths, by which the layers may be
ahead of the snapshot, baselines, and marks.

`ResolutionLemmas` holds the facts about lists, Go maps and alias walks.
Loops are recursive functions there (`Picked`, the hops of an alias): that such a
function exists is `IterationExists`, and what it computes is shown from a least
counterexample (`LeastNat`), since induction is not available.

`LiveProofs` proves, for any sources, writes, acceptance and buffer size of the
watch engine:

- `DropsTold`: `WatchSpec => []DropsAccounted`
- `SubscriptionsFollow`: `WatchSpec => []SubscribedWhileRegistered`

`WatchInv` adds the shapes of the lines and channels and `BeforeNew`: nothing is
subscribed before `New`, without which the first subscription could find
sources that have no goroutine. `EmitAccounts` is the whole of the
first argument (only `emit` touches either side), `SubscribeKeeps` of the second: the lines
given to new subscriptions are spare ones, and those cancelled are the ones of the sources
removed.

It proves of `Live`, over the same engine:

- `HandsOut`: `LiveSpec => []HandsOutGood`
- `LiveDropsTold`: `LiveSpec => []LiveDropsAccounted`

`HandsInv` follows a configuration on its way: what is installed was accepted and
binds (`InstalledGood`), so what a goroutine has bound and not yet stored is good
(`RunGood`, `ReloadsGood`), though the snapshot it came from has been replaced.

`ConfigsProofs` proves, for any names and registries:

- `NeverPanics`: `ASSUME ~LateRegister PROVE ConfigsSpec => []NoSendOnClosed`
- `Forwarded`: `ConfigsSpec => []AllForwarded`
- `KeepsEvents`: `ConfigsSpec => []NothingLost`
- `Closes`: `ASSUME ~LateRegister PROVE ConfigsSpec => []ClosesEverything`

`WaitedFor` says that from the wait of `Close` on no forwarder is running; nothing
but a late `Register` starts one after that, hence the assumption, without which
the claim is false (run `ConfigsPanic`). `Entries` of the second invariant ties each
forwarder to its registry and name: a registry has one name at a time, and a name
is forwarded exactly while it is registered.

`KeepsEvents` needs no such assumption: a late registration is forwarded by a
goroutine whose context is already cancelled. Its invariant `FlowInv` adds to
`NothingLost` that a forwarder which ended before `Close` left nothing behind
(`FlowOf`), and the order in which `Close` cancels and shuts (`MuxOrder`), by which a
send meets an open channel. Each step moves an event from one of four places to the
next; `NumberedAppend` and `NumberedTail` say what that does to the part of the
merged channel that is one registry's. `ClosedInv` of `Closes` says that what has
a name is listed, since `Close` walks the list. A registration after `Close` is
closed by nobody, hence the assumption.

`FeedsProofs` proves two refinements: `FileImplements`: `FileSpec =>
FileContract!SourceSpec`, and `RemoteImplements`: `RemoteSpec =>
RemoteContract!SourceSpec`. Each step of the detailed model is a step of
`WatchedSource` or a stutter, for any contents, writes and errors. For files
`FileInv` is small: every read that changes what the source holds is followed by
its own send. A poll of a remote source is not so simple, because a client's
`Refresh` may slip in between its refresh and its comparison. `PollSync` says what
`watchPoll` remembers: unless such a refresh came since, the data it last compared
is the cache's; and what it implies: with no comparison pending, a registry with nothing on
its way has the cache's data, as long as no comparison has missed a difference
(`missed`). From then on the contract asks nothing more of that source.

`FeedsProofs` also proves `BackendSendsOpen`: `RemoteSpec => []BackendNoPanic`. The
inductive part is `Listing`: a subscription's channel is closed only when it is
not listed, and a write that holds the lock notifies only what is listed, which
nobody can close before the lock is free.

`SaveProofs` proves, for any number of savers, names, directories and links, with
every step failing and with a crash:

- `SavesWhole`: `SaveSpec => []SavedWhole`
- `SavesDurably`: `SaveSpec => []SavedDurable`
- `SavesInPlace`: `SaveSpec /\ NoLongChain => []SavedInPlace`

`SaveInv` says how far each saver has come (`Progress`: past the sync its inode is
whole and synced, and stays so), that a renamed inode's saver has finished writing
(`Finished`), and that whatever a crash may leave under a name is a finished one
(`NamesFlushed`). `SavedWhole` alone is not inductive: a rename puts a temp file under
a name. `DurableInv` adds that each saver renames once (`RenamesOnce`) and what a
directory's sync leaves to a crash (`SyncedBy`): nothing older than the saver's own
rename.

`PlaceInv` says what stands under each name (`NameInPlace`), which attributes a saver
has carried over by when (`CarriedBy`), that a failed one has cleaned up (`CleanBy`),
and where the walk along the links is (`ResolvedBy`): its target is what `Walk` reaches
from the first name in that many hops. `NoLongChain` is the hypothesis that no
chain of links which ends is longer than `MaxSymlinkHops`: of a longer one
`resolveSymlinks` hands back a link, and the save replaces it. Lemma `FewNames` shows
that it holds whenever there are no more names than hops, as in the run.

The assumptions on constants: `RegistryAssumption` (contents and calls are of their
types, the options are sequences), `BindAssumption` (structs are sequences of fields
whose keys are in play), `WatchAssumption`, `LiveAssumption`, `ConfigsAssumption`,
`FileFeedAssumption`, `RemoteFeedAssumption` and `SaveToAssumption` give the types
of their constants; `ResolutionAssumption` says that the depth budget is a natural number,
and `SnapshotsAssumption` that layers are what a registry can hold: paths for keys, values
in leaf form with lists for slices, sources with names of their own that are not reserved, a
strict order on aliases; of the paths in `PathPairs`, only that they are sequences of
sequences of bytes.

Only model-checked:

- `SaveRestores`: a rebuild of what was built; what the new process reads depends on the
  native names and the paths it has yet to bind, over which the run quantifies only in part;
- `BindFindsFields`: where a bind has got to and what it found, over every read;
- everything about liveness, convergence included.

## Not modelled

Codecs, coercion, error texts and option plumbing: sequential conversions with
nothing a small model would find. The JSON-schema validator is a predicate. The
`fswatch` adapter hands on another library's notifications. Of the file source:
search paths, path expansion, the choice of a codec, `fs.FS`. Of `SaveTo`: an
error of `Lstat` or `Stat` on a file that exists (it is then taken for a new one).
Errors of fstat on a file that was opened, in reads and samples.
Of the registry: sources without a name. Of `Bind`: fail-fast, which stops the walk at the first field
with an error. Of `Configs`: one registry registered under two names.
Of the remote source: key prefixes and `Close` beside a running poll, which is a
cancel followed by dropping a cache nobody reads. Buffer, stdin and flag sources
never change after construction.

## Plan

1. `BindFindsFields`, in a form that holds for any clients: which of the paths a bind asked for
   are still unanswered, and why (a refused rebuild, contents replaced since).
2. The `fswatch` adapter, and `Live` over a `FileFeed` in place of the abstract
   store's sources.

------------------------------ MODULE Registry ------------------------------
(***************************************************************************)
(* The registry's shared state and its write operations (registry.go,      *)
(* registry_set.go, registry_describe.go).  One mutex serialises writes:   *)
(* an operation is an unlocked check of the closed flag (Call) followed by *)
(* one critical section, which mutates a layer, rebuilds the snapshot and, *)
(* when the candidate is rejected, rolls the mutation back.  Readers load  *)
(* the snapshot pointer without the lock.                                  *)
(***************************************************************************)
EXTENDS Resolution

CONSTANTS
    MergeAppend,        \* TRUE for the MergeAppend option, FALSE for MergeShadow
    Keys,               \* the keys in play
    Values,             \* the values layers and sources hold
    Sources,            \* names of the source objects
    ContentsOf,         \* [Sources -> set of contents a source may come to hold]
    Validates(_),       \* the schema validator, on Snapshot.AsMap
    InitialSources,     \* WithSource / WithSources, in argument order
    Precedence,         \* WithPrecedence, <<>> when not given; it may name anything
    Threads,            \* client goroutines
    Ops,                \* the calls clients make
    MaxSwaps            \* bound: how often a source's contents change

IsPartial(f, D, R) == DOMAIN f \subseteq D /\ f \in [DOMAIN f -> R]

IsContent(c) == /\ c = [get |-> c.get, keys |-> c.keys]
                /\ IsPartial(c.get, Keys, Values)
                /\ c.keys \subseteq Keys

\* The arguments a client may give: any key, value, source and index.
IsOp(o) ==
    /\ o.op # "idle"
    /\ o.op \in {"Set", "SetDefault"} => o.key \in Keys /\ o.val \in Values \cup {Absent}
    /\ o.op \in {"SetValues", "SetDefaults"} => IsPartial(o.vals, Keys, Values \cup {Absent})
    /\ o.op \in {"Unset", "PinSource", "Unpin", "MarkSecret"} => o.key \in Keys
    /\ o.op = "RegisterAlias" => o.alias \in Keys /\ o.canonical \in Keys
    /\ o.op \in {"AddSource", "InsertSource", "RemoveSource"} => o.src \in Sources
    /\ o.op = "InsertSource" => o.at \in Int

ASSUME RegistryAssumption ==
    /\ \A s \in Sources : \A c \in ContentsOf[s] : IsContent(c)
    /\ InitialSources \in Seq(Sources) /\ Precedence \in Seq(ToSet(Precedence))
    /\ MergeAppend \in BOOLEAN
    /\ \A o \in Ops : IsOp(o)

VARIABLES
    phase,              \* "new", then "open" or "failed", then "closing", "closed"
    layers,             \* sources, explicits, defaults, aliases, pins, bound
    contents,           \* what each source holds now
    swaps,              \* number of content changes so far
    secretKeys,         \* keys marked secret
    baseline,           \* immutableBaseline: key -> value first bound
    warnings,           \* pendingWarnings
    snapshot,           \* the installed snapshot, or NoSnapshot
    built,              \* history: the inputs the installed snapshot was built from
    released,           \* sources whose Close was called
    job                 \* what each client is in the middle of

vars == <<phase, layers, contents, swaps, secretKeys, baseline, warnings,
          snapshot, built, released, job>>

NoSnapshot == [none |-> TRUE]
Idle == [op |-> "idle"]

\* Go maps as partial functions.
Put(m, k, v) == [x \in DOMAIN m \cup {k} |-> IF x = k THEN v ELSE m[x]]
Without(m, k) == [x \in DOMAIN m \ {k} |-> m[x]]
\* Set with a nil value deletes.
PutOrDelete(m, k, v) == IF v = Absent THEN Without(m, k) ELSE Put(m, k, v)
\* m rolled back at k to what prev had there.
restoreEntry(m, k, prev) == IF k \in DOMAIN prev THEN Put(m, k, prev[k]) ELSE Without(m, k)
-----------------------------------------------------------------------------
(* Rebuilding.  A rebuild calls Keys of each source once and Get once per  *)
(* key, with no lock on the source's contents: a source replaced meanwhile *)
(* answers some keys from the old contents and some from the new.          *)
MixedContent(old, new, fresh) ==
    LET of(k) == IF k \in fresh THEN new.get ELSE old.get
    IN  [get  |-> [k \in {x \in DOMAIN old.get \cup DOMAIN new.get : x \in DOMAIN of(x)} |-> of(k)[k]],
         keys |-> old.keys]

Reading(after, view, n) == [after |-> after, view |-> view, swaps |-> n]

Mixes(old, new) ==
    {MixedContent(old, new, fresh) : fresh \in SUBSET (DOMAIN old.get \cup DOMAIN new.get)}

\* Readings during which source s came to hold new.
SwapReadings(s, new) ==
    {Reading([contents EXCEPT ![s] = new], [contents EXCEPT ![s] = mix], 1) :
        mix \in Mixes(contents[s], new)}

\* What one rebuild of the sources srcs may read, and what they hold after.
Readings(srcs) ==
    {Reading(contents, contents, 0)} \cup
    UNION {UNION {SwapReadings(s, new) : new \in ContentsOf[s] \ {contents[s]}} :
              s \in {x \in ToSet(srcs) : swaps < MaxSwaps}}

Layers(srcs, explicits, defaults, aliases, pins, bound) ==
    [sources |-> srcs, explicits |-> explicits, defaults |-> defaults,
     aliases |-> aliases, pins |-> pins, bound |-> bound]

Inputs(L, view) ==
    [sources |-> L.sources, explicits |-> L.explicits, defaults |-> L.defaults,
     aliases |-> L.aliases, pins |-> L.pins, bound |-> L.bound,
     append |-> MergeAppend, view |-> view]

checkImmutable(snap) ==
    \A p \in DOMAIN baseline :
        read(snap, p, IF IsMap(baseline[p]) THEN "section" ELSE "exact").val = baseline[p]

\* Mutants of Accepts: the validator, or the baselines, left out.
AcceptsUnvalidated(candidate) == checkImmutable(candidate)
AcceptsAnyChange(candidate) == Validates(AsMap(candidate))

Accepts(candidate) == checkImmutable(candidate) /\ Validates(AsMap(candidate))

Install(L, view) ==
    /\ snapshot' = [res |-> buildSnapshot(Inputs(L, view)), secrets |-> secretKeys]
    /\ built' = Inputs(L, view)

\* Mutant of Rebuild: the source is closed whatever the rebuild says.
RebuildEagerRelease(L, R, rel, ok) ==
    \E r \in Readings(L.sources) :
        /\ contents' = r.after
        /\ swaps' = swaps + r.swaps
        /\ released' = rel
        /\ ok = Accepts(buildSnapshot(Inputs(L, r.view)))
        /\ IF ok THEN Install(L, r.view) /\ layers' = L
                 ELSE layers' = R /\ UNCHANGED <<snapshot, built>>

\* rebuildSnapshotLocked on the mutated layers L, with the layers R that the
\* caller leaves behind when the candidate is rejected; rel is the set of
\* released sources after a success, and ok the outcome.
Rebuild(L, R, rel, ok) ==
    \E r \in Readings(L.sources) :
        /\ contents' = r.after
        /\ swaps' = swaps + r.swaps
        /\ ok = Accepts(buildSnapshot(Inputs(L, r.view)))
        /\ IF ok THEN Install(L, r.view) /\ layers' = L /\ released' = rel
                 ELSE layers' = R /\ UNCHANGED <<snapshot, built, released>>

Transaction(L, R, rel) == \E ok \in BOOLEAN : Rebuild(L, R, rel, ok)
-----------------------------------------------------------------------------
(* New: add the initial sources up to the first conflict, reorder them,    *)
(* and build the first snapshot.                                           *)
\* Mutant of NameFree: only the reserved names are refused.
NameNotReserved(srcs, name) == ~isReservedSourceName(name)
NameFree(srcs, name) == ~isReservedSourceName(name) /\ name \notin ToSet(srcs)

Addable(n) == \A i \in 1..n : NameFree(SubSeq(InitialSources, 1, i - 1), InitialSources[i])
AddedCount == CHOOSE n \in 0..Len(InitialSources) :
                 Addable(n) /\ \A m \in (n + 1)..Len(InitialSources) : ~Addable(m)

applyPrecedence(srcs, order) ==
    Picked(order, ToSet(srcs)) \o Picked(srcs, ToSet(srcs) \ ToSet(order))

FirstSources ==
    LET added == SubSeq(InitialSources, 1, AddedCount)
    IN  IF AddedCount = Len(InitialSources) THEN applyPrecedence(added, Precedence) ELSE added

NoLayers == Layers(<<>>, EmptyFn, EmptyFn, EmptyFn, EmptyFn, {})

AnyContents == {c \in [Sources -> UNION {ContentsOf[s] : s \in Sources}] :
                   \A s \in Sources : c[s] \in ContentsOf[s]}

Init ==
    /\ phase = "new"
    /\ layers = NoLayers
    /\ contents \in AnyContents
    /\ swaps = 0
    /\ secretKeys = {}
    /\ baseline = EmptyFn
    /\ warnings = {}
    /\ snapshot = NoSnapshot
    /\ built = Inputs(NoLayers, contents)
    /\ released = {}
    /\ job = [t \in Threads |-> Idle]

FirstLayers == Layers(FirstSources, EmptyFn, EmptyFn, EmptyFn, EmptyFn, {})

\* A rejected first candidate fails New only when it holds values.
New ==
    /\ phase = "new"
    /\ layers' = FirstLayers
    /\ \E r \in Readings(FirstSources) :
          LET candidate == buildSnapshot(Inputs(FirstLayers, r.view))
          IN  /\ contents' = r.after
              /\ swaps' = swaps + r.swaps
              /\ \/ Accepts(candidate) /\ Install(FirstLayers, r.view) /\ phase' = "open"
                 \/ /\ ~Accepts(candidate)
                    /\ phase' = IF DOMAIN candidate.entries = {} THEN "open" ELSE "failed"
                    /\ UNCHANGED <<snapshot, built>>
    /\ UNCHANGED <<secretKeys, baseline, warnings, released, job>>
-----------------------------------------------------------------------------
(* Client operations.  Call is the unlocked closed check every operation   *)
(* but DrainWarnings starts with; the locked part follows, possibly after  *)
(* a Close.                                                                *)
Call(t, o) ==
    /\ phase = "open" \/ (phase \in {"closing", "closed"} /\ o.op = "DrainWarnings")
    /\ job[t] = Idle
    /\ job' = [job EXCEPT ![t] = o]
    /\ UNCHANGED <<phase, layers, contents, swaps, secretKeys, baseline, warnings,
                   snapshot, built, released>>

Running(t, name) == job[t].op = name
Return(t) == job' = [job EXCEPT ![t] = Idle]
Commit(t, L, R, rel) ==
    /\ Transaction(L, R, rel)
    /\ Return(t)
    /\ UNCHANGED <<phase, secretKeys, baseline, warnings>>
NoChange(t) ==
    /\ Return(t)
    /\ UNCHANGED <<phase, layers, contents, swaps, secretKeys, baseline, warnings,
                   snapshot, built, released>>

WithSources(s) == Layers(s, layers.explicits, layers.defaults, layers.aliases, layers.pins, layers.bound)
WithExplicits(m) == Layers(layers.sources, m, layers.defaults, layers.aliases, layers.pins, layers.bound)
WithDefaults(m) == Layers(layers.sources, layers.explicits, m, layers.aliases, layers.pins, layers.bound)
WithAliases(m) == Layers(layers.sources, layers.explicits, layers.defaults, m, layers.pins, layers.bound)
WithPins(m) == Layers(layers.sources, layers.explicits, layers.defaults, layers.aliases, m, layers.bound)
WithBound(b) == Layers(layers.sources, layers.explicits, layers.defaults, layers.aliases, layers.pins, b)

\* Mutant of Set: no rollback.
SetWithoutRollback(t) ==
    LET m == PutOrDelete(layers.explicits, job[t].key, job[t].val)
    IN  Running(t, "Set") /\ Commit(t, WithExplicits(m), WithExplicits(m), released)

Set(t) ==
    LET k == job[t].key
        m == PutOrDelete(layers.explicits, k, job[t].val)
    IN  /\ Running(t, "Set")
        /\ Commit(t, WithExplicits(m), WithExplicits(restoreEntry(m, k, layers.explicits)), released)

SetDefault(t) ==
    LET k == job[t].key
        m == PutOrDelete(layers.defaults, k, job[t].val)
    IN  /\ Running(t, "SetDefault")
        /\ Commit(t, WithDefaults(m), WithDefaults(restoreEntry(m, k, layers.defaults)), released)

\* All of vals written at once; a failed rebuild restores a copy of the layer.
setLayer(m, vals) ==
    [k \in {x \in DOMAIN m \cup DOMAIN vals : x \in DOMAIN vals => vals[x] # Absent} |->
        IF k \in DOMAIN vals THEN vals[k] ELSE m[k]]

SetValues(t) ==
    /\ Running(t, "SetValues")
    /\ Commit(t, WithExplicits(setLayer(layers.explicits, job[t].vals)), layers, released)

SetDefaults(t) ==
    /\ Running(t, "SetDefaults")
    /\ Commit(t, WithDefaults(setLayer(layers.defaults, job[t].vals)), layers, released)

UnsetLayers(k) == WithExplicits(Without(layers.explicits, k))
UnsetRollback(k) == WithExplicits(Put(Without(layers.explicits, k), k, layers.explicits[k]))

Unset(t) ==
    LET k == job[t].key
    IN  /\ Running(t, "Unset")
        /\ IF k \in DOMAIN layers.explicits
           THEN Commit(t, UnsetLayers(k), UnsetRollback(k), released)
           ELSE NoChange(t)

RegisterAlias(t) ==
    LET k == job[t].alias
        m == Put(layers.aliases, k, job[t].canonical)
    IN  /\ Running(t, "RegisterAlias")
        /\ IF validateNoAliasCycle(k, job[t].canonical, layers.aliases)
           THEN Commit(t, WithAliases(m), WithAliases(restoreEntry(m, k, layers.aliases)), released)
           ELSE NoChange(t)

PinSource(t) ==
    LET k == job[t].key
        m == Put(layers.pins, k, job[t].src)
    IN  /\ Running(t, "PinSource")
        /\ IF job[t].src \in ToSet(layers.sources)
           THEN Commit(t, WithPins(m), WithPins(restoreEntry(m, k, layers.pins)), released)
           ELSE NoChange(t)

Unpin(t) ==
    LET k == job[t].key
        m == Without(layers.pins, k)
    IN  /\ Running(t, "Unpin")
        /\ IF k \in DOMAIN layers.pins
           THEN Commit(t, WithPins(m), WithPins(Put(m, k, layers.pins[k])), released)
           ELSE NoChange(t)

\* A source is given as a fresh object, which nobody has closed.
AddSource(t) ==
    LET s == job[t].src
        added == Append(layers.sources, s)
    IN  /\ Running(t, "AddSource")
        /\ IF NameFree(layers.sources, s)
           THEN Commit(t, WithSources(added), WithSources(SubSeq(added, 1, Len(added) - 1)),
                       released \ {s})
           ELSE NoChange(t)

\* The clamped 0-based index as a 1-based position.
Clamp(at, n) == 1 + (IF at < 0 THEN 0 ELSE IF at > n THEN n ELSE at)

\* Mutant of InsertSource: a rejected insert drops the last source.
InsertSourceDropsLast(t) ==
    LET added == InsertAt(layers.sources, Clamp(job[t].at, Len(layers.sources)), job[t].src)
    IN  /\ Running(t, "InsertSource")
        /\ IF NameFree(layers.sources, job[t].src)
           THEN Commit(t, WithSources(added), WithSources(Front(added)), released \ {job[t].src})
           ELSE NoChange(t)

InsertSource(t) ==
    LET s == job[t].src
        at == Clamp(job[t].at, Len(layers.sources))
        added == InsertAt(layers.sources, at, s)
    IN  /\ Running(t, "InsertSource")
        /\ IF NameFree(layers.sources, s)
           THEN Commit(t, WithSources(added), WithSources(RemoveAt(added, at)), released \ {s})
           ELSE NoChange(t)

FirstIndex(srcs, s) == CHOOSE i \in DOMAIN srcs : srcs[i] = s /\ \A j \in 1..(i - 1) : srcs[j] # s

RemoveSource(t) ==
    LET s == job[t].src
        at == FirstIndex(layers.sources, s)
        left == RemoveAt(layers.sources, at)
    IN  /\ Running(t, "RemoveSource")
        /\ IF s \in ToSet(layers.sources)
           THEN Commit(t, WithSources(left), WithSources(InsertAt(left, at, s)), released \cup {s})
           ELSE NoChange(t)

Reload(t) ==
    /\ Running(t, "Reload")
    /\ Commit(t, layers, layers, released)

\* Mutant of MarkSecrets: the installed snapshot keeps its old set.
MarkSecretsNoSwap(keys) == secretKeys' = secretKeys \cup keys /\ UNCHANGED snapshot

\* markSecrets: the installed snapshot is replaced by a copy that carries
\* the grown set; its values are not read again.
MarkSecrets(keys) ==
    /\ secretKeys' = secretKeys \cup keys
    /\ snapshot' = IF snapshot # NoSnapshot /\ ~(keys \subseteq secretKeys)
                   THEN [res |-> snapshot.res, secrets |-> secretKeys \cup keys] ELSE snapshot

MarkSecret(t) ==
    /\ Running(t, "MarkSecret")
    /\ MarkSecrets({job[t].key})
    /\ Return(t)
    /\ UNCHANGED <<phase, layers, contents, swaps, baseline, warnings, built, released>>

DrainWarnings(t) ==
    /\ Running(t, "DrainWarnings")
    /\ warnings' = {}
    /\ Return(t)
    /\ UNCHANGED <<phase, layers, contents, swaps, secretKeys, baseline, snapshot, built, released>>

\* Close: the flag first, then (once the watch engine has stopped) the lock
\* and every registered source.
CloseBegin ==
    /\ phase = "open"
    /\ phase' = "closing"
    /\ UNCHANGED <<layers, contents, swaps, secretKeys, baseline, warnings,
                   snapshot, built, released, job>>

CloseSources ==
    /\ phase = "closing"
    /\ phase' = "closed"
    /\ released' = released \cup ToSet(layers.sources)
    /\ UNCHANGED <<layers, contents, swaps, secretKeys, baseline, warnings, snapshot, built, job>>

\* A source's contents are replaced outside any rebuild (MapSource.Replace,
\* FileSource.Reload, RemoteSource.Refresh).
SwapContents(s, c) ==
    /\ swaps < MaxSwaps /\ c # contents[s]
    /\ phase \in {"open", "closing"}
    /\ contents' = [contents EXCEPT ![s] = c]
    /\ swaps' = swaps + 1
    /\ UNCHANGED <<phase, layers, secretKeys, baseline, warnings, snapshot, built, released, job>>

ClientStep(t) ==
    \/ \E o \in Ops : Call(t, o)
    \/ Set(t) \/ SetDefault(t) \/ SetValues(t) \/ SetDefaults(t) \/ Unset(t)
    \/ RegisterAlias(t) \/ PinSource(t) \/ Unpin(t)
    \/ AddSource(t) \/ InsertSource(t) \/ RemoveSource(t)
    \/ Reload(t) \/ MarkSecret(t) \/ DrainWarnings(t)

RegistryNext ==
    \/ New
    \/ \E t \in Threads : ClientStep(t)
    \/ CloseBegin
    \/ CloseSources
    \/ \E s \in Sources : \E c \in ContentsOf[s] : SwapContents(s, c)

Spec == Init /\ [][RegistryNext]_vars
-----------------------------------------------------------------------------
(* The store a registry is to its users: what the layers and the sources   *)
(* resolve to is left open, what is installed when is not.                 *)
PartialFunctions(D, R) == UNION {[X -> R] : X \in SUBSET D}

LayerSettings ==
    [sources : Seq(Sources), explicits : PartialFunctions(Keys, Values),
     defaults : PartialFunctions(Keys, Values), aliases : PartialFunctions(Keys, Keys),
     pins : PartialFunctions(Keys, Sources), bound : SUBSET Keys]

LayersOf(in) ==
    Layers(in.sources, in.explicits, in.defaults, in.aliases, in.pins, in.bound)

StoreAcceptable(set, reg, view) == Validates(AsMap(buildSnapshot(Inputs(set, view))))
StoreVacuous(set, reg, view) == DOMAIN buildSnapshot(Inputs(set, view)).entries = {}

Store == INSTANCE ConfigStore WITH
    InitialContents <- AnyContents, Mixes <- Mixes, Settings <- LayerSettings, BlankSettings <- NoLayers,
    InitialSettings <- FirstLayers, InitialRegistered <- ToSet(FirstSources),
    Acceptable <- StoreAcceptable, Vacuous <- StoreVacuous,
    settings <- layers, registered <- ToSet(layers.sources),
    installed <- IF snapshot = NoSnapshot THEN [none |-> TRUE]
                 ELSE [settings |-> LayersOf(built), registered |-> ToSet(built.sources),
                       view |-> built.view]

\* A registry is a ConfigStore: through every write, rollback, reload and
\* content change, what is installed is an accepted combination of the
\* layers as they stand and one reading of the sources, and a rejected
\* operation leaves no trace (rebuildCandidateLocked and all its callers).
ImplementsStore == Store!StoreSpec
-----------------------------------------------------------------------------
(* Properties.                                                             *)
IsLayers(L) ==
    /\ L = Layers(L.sources, L.explicits, L.defaults, L.aliases, L.pins, L.bound)
    /\ L.sources \in Seq(Sources)
    /\ IsPartial(L.explicits, Keys, Values)
    /\ IsPartial(L.defaults, Keys, Values)
    /\ IsPartial(L.aliases, Keys, Keys)
    /\ IsPartial(L.pins, Keys, Sources)
    /\ L.bound \subseteq Keys

\* Types: the shape of registryState and of the history variables.  A
\* baseline is whatever a bind read: a section or a merged slice as well.
TypeOK ==
    /\ phase \in {"new", "open", "failed", "closing", "closed"}
    /\ IsLayers(layers)
    /\ DOMAIN contents = Sources /\ \A s \in Sources : IsContent(contents[s])
    /\ swaps \in Nat
    /\ secretKeys \subseteq Keys
    /\ DOMAIN baseline \subseteq Keys
    /\ released \subseteq Sources
    /\ job \in [Threads -> Ops \cup {Idle}]

\* The layers never drift out of sync with the installed snapshot: whatever
\* sequence of accepted and rejected writes, content changes and secret
\* marks came before, the snapshot is the resolution of the layers as they
\* stand, over the source contents its rebuild read (the rollback that the
\* comment of rebuildSnapshotLocked demands of every write path).  Only
\* bound may have grown since: paths no source had a value for.
SnapshotInSync ==
    snapshot # NoSnapshot =>
        /\ snapshot.res = buildSnapshot(built)
        /\ built = Inputs(WithBound(built.bound), built.view)
        /\ built.bound \subseteq layers.bound

\* Readers only ever see a configuration that the validator accepted, also
\* right after a rejected write and after a secret mark swapped the
\* pointer (rebuildCandidateLocked, markSecrets).
SnapshotValid == snapshot # NoSnapshot => Validates(AsMap(snapshot.res))

\* The installed snapshot redacts exactly the keys the registry holds
\* secret, however rebuilds and marks interleave (markSecrets against
\* rebuildCandidateLocked).
SecretsInSync == snapshot # NoSnapshot => snapshot.secrets = secretKeys

\* A registered source is never closed while the registry is open: removal
\* closes it only when the rebuild without it was accepted (RemoveSource).
RegisteredNotReleased ==
    phase \in {"open", "closing"} => ToSet(layers.sources) \cap released = {}

\* The alias graph has no cycle: following aliases from any key leaves the
\* graph within as many hops as there are aliases (RegisterAlias).
AliasesAcyclic ==
    LET n == Cardinality(DOMAIN layers.aliases)
        walk(k) == LET at[i \in 0..n] == IF i = 0 THEN k
                          ELSE IF at[i-1] \in DOMAIN layers.aliases THEN layers.aliases[at[i-1]] ELSE at[i-1]
                   IN  at[n]
    IN  \A k \in DOMAIN layers.aliases : walk(k) \notin DOMAIN layers.aliases

\* "Every registered source's Close is called" (Registry.Close).
ClosedReleasesAll == phase = "closed" => ToSet(layers.sources) \subseteq released

\* Source names are unique within a registry (source.go,
\* checkSourceNameLocked).
SourcesUnique == \A i, j \in DOMAIN layers.sources :
                    layers.sources[i] = layers.sources[j] => i = j
=============================================================================

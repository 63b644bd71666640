--------------------------- MODULE RegistryProofs ---------------------------
(***************************************************************************)
(* Safety of the registry for every set of keys, values, sources, threads, *)
(* calls and bounds, and for every validator, and beside any number of     *)
(* binds of any structs.  How values resolve (buildSnapshot, AsMap, read)  *)
(* is never unfolded: what is proved is that no interleaving of writes,    *)
(* rejections, rollbacks, content changes, secret marks and binds          *)
(* separates the layers from the installed snapshot.                       *)
(***************************************************************************)
EXTENDS Bind, ResolutionLemmas

(* Go maps.                                                                *)

\* A Go map with a key written or deleted keeps its types (Set, Unset).
LEMMA PutOrDeleteType ==
  ASSUME NEW D, NEW R, NEW m, IsPartial(m, D, R), NEW k \in D, NEW v \in R \cup {Absent}
  PROVE  IsPartial(PutOrDelete(m, k, v), D, R)
  BY DEF IsPartial, PutOrDelete, Put, Without

\* A Go map with a key written keeps its types (RegisterAlias, PinSource).
LEMMA PutType ==
  ASSUME NEW D, NEW R, NEW m, IsPartial(m, D, R), NEW k \in D, NEW v \in R
  PROVE  IsPartial(Put(m, k, v), D, R)
  BY DEF IsPartial, Put

\* A Go map with a key deleted keeps its types (Unset, Unpin).
LEMMA WithoutType ==
  ASSUME NEW D, NEW R, NEW m, IsPartial(m, D, R), NEW k
  PROVE  IsPartial(Without(m, k), D, R)
  BY DEF IsPartial, Without

\* Writing or deleting one entry and restoring it is no change at all
\* (restoreStringAnyEntry): the rollback of Set and SetDefault.
LEMMA RestoreUndoesWrite ==
  ASSUME NEW D, NEW R, NEW m, IsPartial(m, D, R), NEW k, NEW v
  PROVE  restoreEntry(PutOrDelete(m, k, v), k, m) = m
  BY DEF IsPartial, restoreEntry, PutOrDelete, Put, Without

\* The same for RegisterAlias and PinSource, which only write.
LEMMA RestoreUndoesPut ==
  ASSUME NEW D, NEW R, NEW m, IsPartial(m, D, R), NEW k, NEW v
  PROVE  restoreEntry(Put(m, k, v), k, m) = m
  BY DEF IsPartial, restoreEntry, Put, Without

\* A deleted entry written back is no change: the rollback of Unset, Unpin.
LEMMA PutUndoesWithout ==
  ASSUME NEW D, NEW R, NEW m, IsPartial(m, D, R), NEW k \in DOMAIN m
  PROVE  Put(Without(m, k), k, m[k]) = m
  BY DEF IsPartial, Put, Without

\* A layer written with a batch of values keeps its types (setLayer).
LEMMA SetLayerType ==
  ASSUME NEW D, NEW R, NEW m, IsPartial(m, D, R), NEW vals, IsPartial(vals, D, R \cup {Absent})
  PROVE  IsPartial(setLayer(m, vals), D, R)
  BY DEF IsPartial, setLayer
-----------------------------------------------------------------------------
(* Source lists and aliases.                                               *)

\* RemoveSource finds a source that is there, at its first position.
LEMMA FirstIndexFinds ==
  ASSUME NEW S, NEW srcs \in Seq(S), NEW s \in ToSet(srcs)
  PROVE  FirstIndex(srcs, s) \in 1..Len(srcs) /\ srcs[FirstIndex(srcs, s)] = s
<1> DEFINE T == {i \in DOMAIN srcs : srcs[i] = s}
<1>1. T \subseteq Nat /\ T # {}
  BY DEF ToSet
<1>2. PICK i \in T : \A j \in T : i <= j
  <2> HIDE DEF T
  <2> QED BY <1>1, LeastNat
<1>3. \A j \in T : ~(j < i)
  BY <1>1, <1>2
<1>4. i \in DOMAIN srcs /\ srcs[i] = s /\ \A j \in 1..(i - 1) : srcs[j] # s
  BY <1>3
<1> QED BY <1>4 DEF FirstIndex

\* Reordering adds no source, and repeats none unless the order does.
LEMMA PrecedenceProperties ==
  ASSUME NEW srcs \in Seq(Sources), Distinct(srcs), NEW X, NEW order \in Seq(X)
  PROVE  /\ applyPrecedence(srcs, order) \in Seq(Sources)
         /\ Distinct(order) => Distinct(applyPrecedence(srcs, order))
<1> DEFINE a == Picked(order, ToSet(srcs))
           b == Picked(srcs, ToSet(srcs) \ ToSet(order))
<1>0. /\ a \in Seq(X)
      /\ \A p \in 1..Len(a) : a[p] \in ToSet(srcs) \cap ToSet(order)
      /\ Distinct(order) => Distinct(a)
  BY PickedProperties
<1>1. a \in Seq(Sources)
  <2>1. ToSet(srcs) \subseteq Sources
    BY DEF ToSet
  <2>2. \A p \in 1..Len(a) : a[p] \in Sources
    BY <1>0, <2>1
  <2> HIDE DEF a
  <2> QED BY <1>0, <2>2
<1>2. /\ b \in Seq(Sources)
      /\ \A p \in 1..Len(b) : b[p] \in (ToSet(srcs) \ ToSet(order)) \cap ToSet(srcs)
      /\ Distinct(b)
  BY PickedProperties
<1>3. applyPrecedence(srcs, order) = a \o b
  BY DEF applyPrecedence
<1> HIDE DEF a, b
<1>4. \A i \in 1..Len(a), j \in 1..Len(b) : a[i] # b[j]
  BY <1>0, <1>2
<1>5. a \o b \in Seq(Sources)
  BY <1>1, <1>2
<1>6. Distinct(order) => Distinct(a \o b)
  BY <1>0, <1>1, <1>2, <1>4, ConcatDistinct
<1> QED BY <1>3, <1>5, <1>6

\* New adds the initial sources up to the first whose name is taken.
LEMMA AddedCountAddable == AddedCount \in 0..Len(InitialSources) /\ Addable(AddedCount)
<1> DEFINE n == Len(InitialSources)
           Refused == {m \in 0..n : ~Addable(m)}
<1>1. n \in Nat
  BY RegistryAssumption
<1>2. Addable(0)
  BY DEF Addable
<1>3. \E k \in 0..n : Addable(k) /\ \A m \in (k + 1)..n : ~Addable(m)
  <2>1. CASE Refused = {}
    <3>1. n \in 0..n /\ Addable(n) /\ (n + 1)..n = {}
      BY <1>1, <2>1
    <3> QED BY <3>1
  <2>2. CASE Refused # {}
    <3>1. PICK k \in Refused : \A j \in Refused : k <= j
      <4>1. Refused \subseteq Nat
        OBVIOUS
      <4> HIDE DEF Refused
      <4> QED BY <2>2, <4>1, LeastNat
    <3>2. k \in 0..n /\ k # 0
      BY <1>2, <3>1
    <3>3. k - 1 \in 0..n /\ k - 1 \notin Refused
      <4>1. k - 1 \in 0..n /\ ~(k <= k - 1)
        BY <1>1, <3>2
      <4> QED BY <3>1, <4>1
    <3>4. \A m \in ((k - 1) + 1)..n : ~Addable(m)
      <4> TAKE m \in ((k - 1) + 1)..n
      <4>1. k \in 1..m /\ \A i \in 1..k : i \in 1..m
        BY <1>1, <3>2
      <4>2. ~Addable(k)
        BY <3>1
      <4> QED BY <4>1, <4>2 DEF Addable
    <3> QED BY <3>3, <3>4
  <2> QED BY <2>1, <2>2
<1> QED BY <1>3 DEF AddedCount

\* The sources New starts from: no name twice, unless the precedence list
\* repeats one.
LEMMA FirstSourcesProperties ==
  /\ FirstSources \in Seq(Sources)
  /\ Distinct(Precedence) => Distinct(FirstSources)
<1> DEFINE n == AddedCount
           added == SubSeq(InitialSources, 1, n)
<1>1. n \in 0..Len(InitialSources) /\ Addable(n) /\ InitialSources \in Seq(Sources)
      /\ Precedence \in Seq(ToSet(Precedence))
  BY AddedCountAddable, RegistryAssumption
<1> HIDE DEF n
<1>2. added \in Seq(Sources) /\ Len(added) = n /\ DOMAIN added = 1..n /\ \A i \in 1..n : added[i] = InitialSources[i]
  BY <1>1
<1>3. ASSUME NEW i \in 1..n, NEW j \in 1..n, i < j PROVE added[i] # added[j]
  <2> DEFINE before == SubSeq(InitialSources, 1, j - 1)
  <2>1. InitialSources[j] \notin ToSet(before)
    BY <1>1 DEF Addable, NameFree
  <2>2. i \in DOMAIN before /\ before[i] = InitialSources[i]
    BY <1>1, <1>3
  <2>3. InitialSources[i] \in ToSet(before)
    BY <2>2 DEF ToSet
  <2> QED BY <1>2, <2>1, <2>3
<1> HIDE DEF added
<1>4. Distinct(added)
  <2> SUFFICES ASSUME NEW i \in 1..n, NEW j \in 1..n, added[i] = added[j], i # j PROVE FALSE
    BY <1>2 DEF Distinct
  <2>1. i < j \/ j < i
    BY <1>1
  <2> QED BY <1>3, <2>1
<1>5. FirstSources = added \/ FirstSources = applyPrecedence(added, Precedence)
  BY DEF FirstSources, added, n
<1> QED BY <1>1, <1>2, <1>4, <1>5, PrecedenceProperties

\* An alias that validateNoAliasCycle lets through closes no cycle, also
\* when it replaces an alias of the same name.
LEMMA RegisteredAliasNoCycle ==
  ASSUME NEW aliases, NoAliasCycle(aliases), NEW alias, NEW canonical,
         validateNoAliasCycle(alias, canonical, aliases)
  PROVE  NoAliasCycle(Put(aliases, alias, canonical))
<1> DEFINE m == Put(aliases, alias, canonical)
           D == DOMAIN aliases
<1>1. /\ DOMAIN m = D \cup {alias} /\ m[alias] = canonical
      /\ \A x \in D : x # alias => m[x] = aliases[x]
  BY DEF Put
<1> DEFINE hop == AliasHops(canonical, aliases)
<1>2. Follows(hop, aliases, canonical, MaxAliasDepth)
  BY FollowExists, ResolutionAssumption DEF AliasHops
<1>3. PICK h \in 0..(MaxAliasDepth - 1) : hop[h] \notin D /\ \A i \in 1..h : hop[i] # alias
  BY DEF validateNoAliasCycle
<1>4. alias # canonical
  BY DEF validateNoAliasCycle
<1> HIDE DEF m, hop
<1> SUFFICES ASSUME NEW C \in SUBSET DOMAIN m, C # {}, \A k \in C : m[k] \in C PROVE FALSE
  BY DEF NoAliasCycle, m
<1>5. CASE alias \notin C
  <2>1. C \subseteq D /\ \A k \in C : aliases[k] \in C
    BY <1>1, <1>5
  <2> QED BY <2>1 DEF NoAliasCycle
<1>6. CASE alias \in C
  <2> DEFINE Out == {i \in 0..h : hop[i] \notin C}
  <2>1. Out = {}
    <3>1. SUFFICES ASSUME Out # {} PROVE FALSE
      OBVIOUS
    <3>2. PICK i \in Out : \A j \in Out : i <= j
      <4>1. Out \subseteq Nat
        OBVIOUS
      <4> HIDE DEF Out
      <4> QED BY <3>1, <4>1, LeastNat
    <3>3. i # 0
      BY <1>1, <1>2, <1>6, <3>2 DEF Follows
    <3>4. i \in 1..MaxAliasDepth /\ i - 1 \in 0..h /\ ~(i <= i - 1)
      BY <1>3, <3>2, <3>3, ResolutionAssumption
    <3>5. hop[i - 1] \in C
      BY <3>2, <3>4
    <3>6. hop[i - 1] # alias
      <4>1. CASE i - 1 = 0
        BY <1>2, <1>4, <4>1 DEF Follows
      <4>2. CASE i - 1 # 0
        BY <1>3, <3>4, <4>2
      <4> QED BY <4>1, <4>2
    <3>7. hop[i - 1] \in D
      BY <1>1, <3>5, <3>6
    <3>8. hop[i] = aliases[hop[i - 1]]
      BY <1>2, <3>4, <3>7 DEF Follows
    <3> QED BY <1>1, <3>2, <3>5, <3>6, <3>7, <3>8
  <2>2. h \in 0..h /\ hop[h] \in C
    BY <2>1
  <2>3. hop[h] = alias
    BY <1>1, <1>3, <2>2
  <2> QED BY <1>2, <1>3, <1>4, <2>2, <2>3 DEF Follows
<1> QED BY <1>5, <1>6
-----------------------------------------------------------------------------
(* Rebuilding.                                                             *)

\* Whatever a rebuild reads, every source holds contents of its own after.
LEMMA ReadingsType ==
  ASSUME TypeOK, NEW srcs \in Seq(Sources), NEW r \in Readings(srcs)
  PROVE  /\ DOMAIN r.after = Sources /\ \A s \in Sources : IsContent(r.after[s])
         /\ r.swaps \in Nat
<1>1. CASE r = Reading(contents, contents, 0)
  BY <1>1 DEF Reading, TypeOK
<1>2. CASE r # Reading(contents, contents, 0)
  <2>1. PICK s \in ToSet(srcs) : \E new \in ContentsOf[s] : r \in SwapReadings(s, new)
    BY <1>2 DEF Readings
  <2>4. PICK new \in ContentsOf[s] : r \in SwapReadings(s, new)
    BY <2>1
  <2>5. PICK view : r = Reading([contents EXCEPT ![s] = new], view, 1)
    BY <2>4 DEF SwapReadings
  <2>2. s \in Sources
    BY DEF ToSet
  <2>3. IsContent(new)
    BY <2>2, RegistryAssumption
  <2> QED BY <2>5, <2>2, <2>3 DEF Reading, TypeOK
<1> QED BY <1>1, <1>2

\* Before New returns nothing is installed, recorded or closed, and nobody
\* holds a registry that New did not return.
NothingBeforeNew ==
    /\ phase = "new" => snapshot = NoSnapshot /\ baseline = EmptyFn /\ released = {}
    /\ phase \in {"new", "failed"} => \A t \in Threads : job[t] = Idle

\* The invariant of the registry: types, and the layers, the validator and
\* the secret set in step with the installed snapshot.
Safe == TypeOK /\ NothingBeforeNew /\ SnapshotInSync /\ SnapshotValid /\ SecretsInSync

\* A registry that New has not built yet satisfies the invariant.
LEMMA InitSafe == Init => Safe
  BY RegistryAssumption
     DEF Init, AnyContents, Safe, TypeOK, NothingBeforeNew, SnapshotInSync, SnapshotValid, SecretsInSync,
         IsLayers, Layers, NoLayers, IsPartial, EmptyFn, NoSnapshot, Inputs

\* Nothing the invariant speaks of has changed.
LEMMA StutterSafe == Safe /\ UNCHANGED vars => Safe'
  BY DEF vars, Safe, TypeOK, NothingBeforeNew, SnapshotInSync, SnapshotValid, SecretsInSync, IsLayers, IsContent,
         IsPartial, WithBound, Layers, Inputs

\* A rebuild whose caller rolls back to the layers it found keeps the
\* invariant, accepted or rejected.
LEMMA RebuildSafe ==
  ASSUME Safe, phase \notin {"new", "failed"},
         NEW L, IsLayers(L), NEW rel, rel \subseteq Sources, NEW ok \in BOOLEAN,
         Rebuild(L, layers, rel, ok),
         UNCHANGED <<phase, secretKeys, baseline>>, job' \in [Threads -> Ops \cup {Idle}]
  PROVE  Safe'
<1> USE DEF Safe
<1>1. PICK r \in Readings(L.sources) :
         /\ contents' = r.after
         /\ swaps' = swaps + r.swaps
         /\ ok = Accepts(buildSnapshot(Inputs(L, r.view)))
         /\ IF ok THEN Install(L, r.view) /\ layers' = L /\ released' = rel
                  ELSE layers' = layers /\ UNCHANGED <<snapshot, built, released>>
  BY DEF Rebuild
<1>2. /\ DOMAIN contents' = Sources /\ \A s \in Sources : IsContent(contents'[s])
      /\ swaps' \in Nat
  BY <1>1, ReadingsType DEF IsLayers, TypeOK
<1>3. IsLayers(layers')
  BY <1>1 DEF TypeOK
<1>4. TypeOK' /\ NothingBeforeNew'
  BY <1>1, <1>2, <1>3 DEF TypeOK, NothingBeforeNew, IsLayers, IsPartial, IsContent
<1>5. CASE ok
  <2>1. /\ snapshot' = [res |-> buildSnapshot(Inputs(L, r.view)), secrets |-> secretKeys]
        /\ built' = Inputs(L, r.view) /\ layers' = L
    BY <1>1, <1>5 DEF Install
  <2>2. SnapshotInSync'
    BY <2>1 DEF SnapshotInSync, IsLayers, WithBound, Layers, Inputs
  <2>3. SnapshotValid'
    BY <1>1, <1>5, <2>1 DEF SnapshotValid, Accepts
  <2>4. SecretsInSync'
    BY <2>1 DEF SecretsInSync
  <2> QED BY <1>4, <2>2, <2>3, <2>4
<1>6. CASE ~ok
  BY <1>1, <1>4, <1>6 DEF SnapshotInSync, SnapshotValid, SecretsInSync, WithBound, Layers, Inputs
<1> QED BY <1>5, <1>6

\* A locked operation that rolls back to the layers it found.
LEMMA CommitSafe ==
  ASSUME Safe, NEW t \in Threads, job[t].op # "idle",
         NEW L, IsLayers(L), NEW rel, rel \subseteq Sources,
         Commit(t, L, layers, rel)
  PROVE  Safe'
<1>1. PICK ok \in BOOLEAN : Rebuild(L, layers, rel, ok)
  BY DEF Commit, Transaction
<1>2. UNCHANGED <<phase, secretKeys, baseline>> /\ job' \in [Threads -> Ops \cup {Idle}]
  BY DEF Commit, Return, Safe, TypeOK
<1>3. phase \notin {"new", "failed"}
  BY DEF Safe, NothingBeforeNew, Idle
<1> QED BY <1>1, <1>2, <1>3, RebuildSafe

\* An operation that returns early keeps the invariant.
LEMMA NoChangeSafe ==
  ASSUME Safe, NEW t \in Threads, NoChange(t)
  PROVE  Safe'
  BY DEF NoChange, Return, Safe, TypeOK, NothingBeforeNew, SnapshotInSync, SnapshotValid, SecretsInSync, IsLayers,
         IsContent, IsPartial, WithBound, Layers, Inputs

\* The layers with one part replaced by one of its type, or by itself.
LEMMA WithParts ==
  ASSUME TypeOK
  PROVE  /\ \A m : IsPartial(m, Keys, Values) => IsLayers(WithExplicits(m)) /\ IsLayers(WithDefaults(m))
         /\ \A m : IsPartial(m, Keys, Keys) => IsLayers(WithAliases(m))
         /\ \A m : IsPartial(m, Keys, Sources) => IsLayers(WithPins(m))
         /\ \A s \in Seq(Sources) : IsLayers(WithSources(s))
         /\ WithExplicits(layers.explicits) = layers /\ WithDefaults(layers.defaults) = layers
         /\ WithAliases(layers.aliases) = layers /\ WithPins(layers.pins) = layers
         /\ WithSources(layers.sources) = layers
  BY DEF TypeOK, IsLayers, Layers, WithExplicits, WithDefaults, WithAliases, WithPins, WithSources

\* Which parts the other layers leave alone.
LEMMA OtherParts ==
  /\ \A m : /\ WithExplicits(m).sources = layers.sources /\ WithExplicits(m).aliases = layers.aliases
            /\ WithDefaults(m).sources = layers.sources /\ WithDefaults(m).aliases = layers.aliases
            /\ WithPins(m).sources = layers.sources /\ WithPins(m).aliases = layers.aliases
            /\ WithAliases(m).sources = layers.sources /\ WithAliases(m).aliases = m
  BY DEF Layers, WithExplicits, WithDefaults, WithAliases, WithPins

\* What a locked operation may make of the source list: nothing, one source
\* more whose name was free, or one less; and the sources closed with it.
SourceStep(srcs, rel) ==
    \/ srcs = layers.sources /\ rel = released
    \/ \E s \in Sources \ ToSet(layers.sources) : \E i \in 1..(Len(layers.sources) + 1) :
          srcs = InsertAt(layers.sources, i, s) /\ rel = released \ {s}
    \/ \E i \in 1..Len(layers.sources) :
          srcs = RemoveAt(layers.sources, i) /\ rel = released \cup {layers.sources[i]}

\* What it may make of the aliases: nothing, or one that closes no cycle.
AliasStep(aliases) ==
    \/ aliases = layers.aliases
    \/ \E alias, canonical \in Keys :
          /\ validateNoAliasCycle(alias, canonical, layers.aliases)
          /\ aliases = Put(layers.aliases, alias, canonical)

\* A locked operation returns early, or commits new layers of their types and
\* rolls back to the very layers it found.
Transacts(t) ==
    \/ NoChange(t)
    \/ /\ job[t].op # "idle"
       /\ \E L, rel : /\ IsLayers(L) /\ rel \subseteq Sources
                      /\ SourceStep(L.sources, rel) /\ AliasStep(L.aliases)
                      /\ Commit(t, L, layers, rel)

\* The operations that touch neither the sources nor the aliases.
LEMMA ValueTransacts ==
  ASSUME TypeOK, NEW t \in Threads, job[t].op # "idle", NEW L, IsLayers(L),
         L.sources = layers.sources, L.aliases = layers.aliases, Commit(t, L, layers, released)
  PROVE  Transacts(t)
  BY DEF Transacts, SourceStep, AliasStep, TypeOK

\* The operations on the source list.
LEMMA ListTransacts ==
  ASSUME NEW t \in Threads, job[t].op # "idle", NEW srcs, NEW rel \in SUBSET Sources,
         IsLayers(WithSources(srcs)), SourceStep(srcs, rel), Commit(t, WithSources(srcs), layers, rel)
  PROVE  Transacts(t)
<1>1. WithSources(srcs).sources = srcs /\ WithSources(srcs).aliases = layers.aliases
  BY DEF WithSources, Layers
<1> QED BY <1>1 DEF Transacts, AliasStep

\* A running operation has arguments of their types.
LEMMA RunningOp ==
  ASSUME TypeOK, NEW t \in Threads, NEW name, name # "idle", Running(t, name)
  PROVE  job[t].op = name /\ IsOp(job[t])
  BY RegistryAssumption DEF TypeOK, Running, Idle

\* Set writes one explicit and restores it when the candidate is rejected.
LEMMA SetTransacts == ASSUME TypeOK, NEW t \in Threads, Set(t) PROVE Transacts(t)
<1> DEFINE k == job[t].key
           m == PutOrDelete(layers.explicits, k, job[t].val)
<1>1. TypeOK /\ IsPartial(layers.explicits, Keys, Values)
  BY DEF TypeOK, IsLayers
<1>2. k \in Keys /\ job[t].val \in Values \cup {Absent}
  BY <1>1, RunningOp DEF Set, IsOp
<1>3. IsPartial(m, Keys, Values)
  BY <1>1, <1>2, PutOrDeleteType
<1>4. restoreEntry(m, k, layers.explicits) = layers.explicits
  BY <1>1, RestoreUndoesWrite
<1>5. IsLayers(WithExplicits(m)) /\ WithExplicits(restoreEntry(m, k, layers.explicits)) = layers
  BY <1>1, <1>3, <1>4, WithParts
<1>6. job[t].op # "idle" /\ Commit(t, WithExplicits(m), layers, released)
  BY <1>5 DEF Set, Running
<1> QED BY <1>1, <1>5, <1>6, ValueTransacts, OtherParts

\* SetDefault writes one default and restores it when the candidate is rejected.
LEMMA SetDefaultTransacts == ASSUME TypeOK, NEW t \in Threads, SetDefault(t) PROVE Transacts(t)
<1> DEFINE k == job[t].key
           m == PutOrDelete(layers.defaults, k, job[t].val)
<1>1. TypeOK /\ IsPartial(layers.defaults, Keys, Values)
  BY DEF TypeOK, IsLayers
<1>2. k \in Keys /\ job[t].val \in Values \cup {Absent}
  BY <1>1, RunningOp DEF SetDefault, IsOp
<1>3. IsPartial(m, Keys, Values)
  BY <1>1, <1>2, PutOrDeleteType
<1>4. restoreEntry(m, k, layers.defaults) = layers.defaults
  BY <1>1, RestoreUndoesWrite
<1>5. IsLayers(WithDefaults(m)) /\ WithDefaults(restoreEntry(m, k, layers.defaults)) = layers
  BY <1>1, <1>3, <1>4, WithParts
<1>6. job[t].op # "idle" /\ Commit(t, WithDefaults(m), layers, released)
  BY <1>5 DEF SetDefault, Running
<1> QED BY <1>1, <1>5, <1>6, ValueTransacts, OtherParts

\* SetValues and SetDefaults restore the whole layer (setLayer).
LEMMA SetValuesTransacts ==
  ASSUME TypeOK, NEW t \in Threads, SetValues(t) \/ SetDefaults(t)
  PROVE  Transacts(t)
<1>1. /\ TypeOK
      /\ IsPartial(layers.explicits, Keys, Values) /\ IsPartial(layers.defaults, Keys, Values)
  BY DEF TypeOK, IsLayers
<1>2. IsPartial(job[t].vals, Keys, Values \cup {Absent})
  BY <1>1, RunningOp DEF SetValues, SetDefaults, IsOp
<1>3. /\ IsLayers(WithExplicits(setLayer(layers.explicits, job[t].vals)))
      /\ IsLayers(WithDefaults(setLayer(layers.defaults, job[t].vals)))
  BY <1>1, <1>2, SetLayerType, WithParts
<1> QED BY <1>1, <1>3, ValueTransacts, OtherParts DEF SetValues, SetDefaults, Running

\* Unset writes the deleted explicit back when the candidate is rejected.
LEMMA UnsetTransacts == ASSUME TypeOK, NEW t \in Threads, Unset(t) PROVE Transacts(t)
<1> DEFINE k == job[t].key
<1>1. TypeOK /\ IsPartial(layers.explicits, Keys, Values)
  BY DEF TypeOK, IsLayers
<1>2. CASE k \in DOMAIN layers.explicits
  <2>1. IsLayers(UnsetLayers(k))
    BY <1>1, WithoutType, WithParts DEF UnsetLayers
  <2>2. UnsetRollback(k) = layers
    BY <1>1, <1>2, PutUndoesWithout, WithParts DEF UnsetRollback
  <2>3. job[t].op # "idle" /\ Commit(t, UnsetLayers(k), layers, released)
    BY <1>2, <2>2 DEF Unset, Running
  <2>4. UnsetLayers(k).sources = layers.sources /\ UnsetLayers(k).aliases = layers.aliases
    BY OtherParts DEF UnsetLayers
  <2> QED BY <1>1, <2>1, <2>3, <2>4, ValueTransacts
<1>3. CASE k \notin DOMAIN layers.explicits
  BY <1>3 DEF Unset, Transacts
<1> QED BY <1>2, <1>3

\* RegisterAlias refuses a cycle and rolls a rejected alias back.
LEMMA RegisterAliasTransacts == ASSUME TypeOK, NEW t \in Threads, RegisterAlias(t) PROVE Transacts(t)
<1> DEFINE k == job[t].alias
           m == Put(layers.aliases, k, job[t].canonical)
<1>1. TypeOK /\ IsPartial(layers.aliases, Keys, Keys)
  BY DEF TypeOK, IsLayers
<1>2. k \in Keys /\ job[t].canonical \in Keys
  BY <1>1, RunningOp DEF RegisterAlias, IsOp
<1>3. IsLayers(WithAliases(m))
  BY <1>1, <1>2, PutType, WithParts
<1>4. WithAliases(restoreEntry(m, k, layers.aliases)) = layers
  BY <1>1, RestoreUndoesPut, WithParts
<1>5. CASE validateNoAliasCycle(k, job[t].canonical, layers.aliases)
  <2>1. job[t].op # "idle" /\ Commit(t, WithAliases(m), layers, released)
    BY <1>4, <1>5 DEF RegisterAlias, Running
  <2>2. AliasStep(WithAliases(m).aliases)
    BY <1>2, <1>5, OtherParts DEF AliasStep
  <2>3. SourceStep(WithAliases(m).sources, released)
    BY OtherParts DEF SourceStep
  <2> QED BY <1>1, <1>3, <2>1, <2>2, <2>3 DEF Transacts, TypeOK
<1>6. CASE ~validateNoAliasCycle(k, job[t].canonical, layers.aliases)
  BY <1>6 DEF RegisterAlias, Transacts
<1> QED BY <1>5, <1>6

\* PinSource pins to a registered source and rolls a rejected pin back.
LEMMA PinSourceTransacts == ASSUME TypeOK, NEW t \in Threads, PinSource(t) PROVE Transacts(t)
<1> DEFINE k == job[t].key
           m == Put(layers.pins, k, job[t].src)
<1>1. TypeOK /\ IsPartial(layers.pins, Keys, Sources) /\ layers.sources \in Seq(Sources)
  BY DEF TypeOK, IsLayers
<1>2. CASE job[t].src \in ToSet(layers.sources)
  <2>1. k \in Keys
    BY <1>1, RunningOp DEF PinSource, IsOp
  <2>2. job[t].src \in Sources
    BY <1>1, <1>2 DEF ToSet
  <2>3. IsLayers(WithPins(m))
    BY <1>1, <2>1, <2>2, PutType, WithParts
  <2>4. WithPins(restoreEntry(m, k, layers.pins)) = layers
    BY <1>1, RestoreUndoesPut, WithParts
  <2>5. job[t].op # "idle" /\ Commit(t, WithPins(m), layers, released)
    BY <1>2, <2>4 DEF PinSource, Running
  <2> QED BY <1>1, <2>3, <2>5, ValueTransacts, OtherParts
<1>3. CASE job[t].src \notin ToSet(layers.sources)
  BY <1>3 DEF PinSource, Transacts
<1> QED BY <1>2, <1>3

\* Unpin puts a pin back when the snapshot without it is rejected.
LEMMA UnpinTransacts == ASSUME TypeOK, NEW t \in Threads, Unpin(t) PROVE Transacts(t)
<1> DEFINE k == job[t].key
           m == Without(layers.pins, k)
<1>1. TypeOK /\ IsPartial(layers.pins, Keys, Sources)
  BY DEF TypeOK, IsLayers
<1>2. CASE k \in DOMAIN layers.pins
  <2>1. IsLayers(WithPins(m))
    BY <1>1, WithoutType, WithParts
  <2>2. WithPins(Put(m, k, layers.pins[k])) = layers
    BY <1>1, <1>2, PutUndoesWithout, WithParts
  <2>3. job[t].op # "idle" /\ Commit(t, WithPins(m), layers, released)
    BY <1>2, <2>2 DEF Unpin, Running
  <2> QED BY <1>1, <2>1, <2>3, ValueTransacts, OtherParts
<1>3. CASE k \notin DOMAIN layers.pins
  BY <1>3 DEF Unpin, Transacts
<1> QED BY <1>2, <1>3

\* AddSource cuts the list back when the snapshot with the source is rejected.
LEMMA AddSourceTransacts == ASSUME TypeOK, NEW t \in Threads, AddSource(t) PROVE Transacts(t)
<1> DEFINE s == job[t].src
           added == Append(layers.sources, s)
<1>1. TypeOK /\ layers.sources \in Seq(Sources) /\ released \subseteq Sources
  BY DEF TypeOK, IsLayers
<1>2. s \in Sources
  BY <1>1, RunningOp DEF AddSource, IsOp
<1>3. IsLayers(WithSources(added))
  <2>1. added \in Seq(Sources)
    BY <1>1, <1>2
  <2> QED BY <1>1, <2>1, WithParts
<1>4. WithSources(SubSeq(added, 1, Len(added) - 1)) = layers
  BY <1>1, <1>2, CutUndoesAppend, WithParts
<1>5. CASE NameFree(layers.sources, s)
  <2>1. job[t].op # "idle" /\ Commit(t, WithSources(added), layers, released \ {s})
    BY <1>4, <1>5 DEF AddSource, Running
  <2>2. SourceStep(added, released \ {s})
    <3>1. added = InsertAt(layers.sources, Len(layers.sources) + 1, s)
      BY <1>1, <1>2, AppendIsInsert
    <3>2. Len(layers.sources) + 1 \in 1..(Len(layers.sources) + 1) /\ s \in Sources \ ToSet(layers.sources)
      BY <1>1, <1>2, <1>5 DEF NameFree
    <3> HIDE DEF added
    <3> QED BY <3>1, <3>2 DEF SourceStep
  <2> QED BY <1>1, <1>3, <2>1, <2>2, ListTransacts
<1>6. CASE ~NameFree(layers.sources, s)
  BY <1>6 DEF AddSource, Transacts
<1> QED BY <1>5, <1>6

\* InsertSource clamps its index and deletes a rejected source again.
LEMMA InsertSourceTransacts == ASSUME TypeOK, NEW t \in Threads, InsertSource(t) PROVE Transacts(t)
<1> DEFINE s == job[t].src
           at == Clamp(job[t].at, Len(layers.sources))
           added == InsertAt(layers.sources, at, s)
<1>1. TypeOK /\ layers.sources \in Seq(Sources) /\ released \subseteq Sources
  BY DEF TypeOK, IsLayers
<1>2. s \in Sources /\ job[t].at \in Int
  BY <1>1, RunningOp DEF InsertSource, IsOp
<1>3. at \in 1..(Len(layers.sources) + 1)
  BY <1>1, <1>2 DEF Clamp
<1>4. IsLayers(WithSources(added))
  <2>1. Inserted(added, Sources, layers.sources, at, s)
    BY <1>1, <1>2, <1>3, InsertAtType, Zenon
  <2>2. added \in Seq(Sources)
    BY <2>1 DEF Inserted
  <2> QED BY <2>2, WithParts
<1>5. WithSources(RemoveAt(added, at)) = layers
  BY <1>1, <1>2, <1>3, RemoveUndoesInsert, WithParts
<1>6. CASE NameFree(layers.sources, s)
  <2>1. job[t].op # "idle" /\ Commit(t, WithSources(added), layers, released \ {s})
    BY <1>5, <1>6 DEF InsertSource, Running
  <2>2. SourceStep(added, released \ {s})
    BY <1>2, <1>3, <1>6 DEF SourceStep, NameFree
  <2> QED BY <1>1, <1>4, <2>1, <2>2, ListTransacts
<1>7. CASE ~NameFree(layers.sources, s)
  BY <1>7 DEF InsertSource, Transacts
<1> QED BY <1>6, <1>7

\* RemoveSource puts the source back when the snapshot without it is rejected.
LEMMA RemoveSourceTransacts == ASSUME TypeOK, NEW t \in Threads, RemoveSource(t) PROVE Transacts(t)
<1> DEFINE s == job[t].src
           at == FirstIndex(layers.sources, s)
           left == RemoveAt(layers.sources, at)
<1>1. TypeOK /\ layers.sources \in Seq(Sources) /\ released \subseteq Sources
  BY DEF TypeOK, IsLayers
<1>2. CASE s \in ToSet(layers.sources)
  <2>1. at \in 1..Len(layers.sources) /\ layers.sources[at] = s
    BY <1>1, <1>2, FirstIndexFinds
  <2>2. s \in Sources
    BY <1>1, <1>2 DEF ToSet
  <2>3. IsLayers(WithSources(left))
    BY <1>1, <2>1, RemoveAtType, WithParts
  <2>4. WithSources(InsertAt(left, at, s)) = layers
    BY <1>1, <2>1, InsertUndoesRemove, WithParts
  <2>5. job[t].op # "idle" /\ Commit(t, WithSources(left), layers, released \cup {s})
    BY <1>2, <2>4 DEF RemoveSource, Running
  <2>6. released \cup {s} \in SUBSET Sources
    BY <1>1, <2>2
  <2>7. SourceStep(left, released \cup {s})
    BY <2>1 DEF SourceStep
  <2> QED BY <2>3, <2>5, <2>6, <2>7, ListTransacts
<1>3. CASE s \notin ToSet(layers.sources)
  BY <1>3 DEF RemoveSource, Transacts
<1> QED BY <1>2, <1>3

\* Reload changes no layer.
LEMMA ReloadTransacts == ASSUME TypeOK, NEW t \in Threads, Reload(t) PROVE Transacts(t)
  BY ValueTransacts DEF Reload, Running, TypeOK

\* The locked part of every operation but the marks and the drain transacts.
LEMMA ClientTransacts ==
  ASSUME TypeOK, NEW t \in Threads, ClientStep(t)
  PROVE  (\E o \in Ops : Call(t, o)) \/ MarkSecret(t) \/ DrainWarnings(t) \/ Transacts(t)
  BY SetTransacts, SetDefaultTransacts, SetValuesTransacts, UnsetTransacts, RegisterAliasTransacts,
     PinSourceTransacts, UnpinTransacts, AddSourceTransacts, InsertSourceTransacts, RemoveSourceTransacts,
     ReloadTransacts DEF ClientStep

\* Whatever transacts keeps the invariant.
LEMMA TransactsSafe == ASSUME Safe, NEW t \in Threads, Transacts(t) PROVE Safe'
  BY CommitSafe, NoChangeSafe DEF Transacts

\* A secret mark swaps in a snapshot with the grown set and the same values.
LEMMA MarkSecretSafe == ASSUME Safe, NEW t \in Threads, MarkSecret(t) PROVE Safe'
<1>1. job[t].key \in Keys
  BY RunningOp DEF MarkSecret, IsOp, Safe
<1>2. TypeOK' /\ NothingBeforeNew'
  BY <1>1 DEF NothingBeforeNew, MarkSecret, MarkSecrets, Return, Safe, TypeOK, IsLayers, IsContent, IsPartial, Layers
<1>3. /\ secretKeys' = secretKeys \cup {job[t].key}
      /\ snapshot' = IF snapshot # NoSnapshot /\ ~({job[t].key} \subseteq secretKeys)
                     THEN [res |-> snapshot.res, secrets |-> secretKeys \cup {job[t].key}] ELSE snapshot
      /\ UNCHANGED <<layers, built>>
  BY DEF MarkSecret, MarkSecrets
<1>4. snapshot' # NoSnapshot => snapshot # NoSnapshot /\ snapshot'.res = snapshot.res
  BY <1>3
<1>5. SnapshotInSync' /\ SnapshotValid'
  BY <1>3, <1>4 DEF Safe, SnapshotInSync, SnapshotValid, WithBound, Layers, Inputs
<1>6. SecretsInSync'
  BY <1>3 DEF Safe, SecretsInSync
<1> QED BY <1>2, <1>5, <1>6 DEF Safe

\* Draining warnings, starting a call, closing and a change of contents
\* outside a rebuild leave the layers and the snapshot alone.
LEMMA BystanderSafe ==
  ASSUME Safe, UNCHANGED <<layers, secretKeys, baseline, snapshot, built>>,
         phase' \in {"open", "closing", "closed"},
         DOMAIN contents' = Sources, \A s \in Sources : IsContent(contents'[s]),
         swaps' \in Nat, released' \subseteq Sources, job' \in [Threads -> Ops \cup {Idle}]
  PROVE  Safe'
  BY DEF Safe, TypeOK, NothingBeforeNew, SnapshotInSync, SnapshotValid, SecretsInSync,
         IsLayers, IsContent, IsPartial, WithBound, Layers, Inputs

\* New installs its first snapshot or none.
LEMMA NewSafe == Safe /\ New => Safe'
<1> SUFFICES ASSUME Safe, New PROVE Safe'
  OBVIOUS
<1>1. IsLayers(FirstLayers) /\ FirstLayers.sources = FirstSources
  BY FirstSourcesProperties DEF FirstLayers, IsLayers, Layers, IsPartial, EmptyFn
<1>2. snapshot = NoSnapshot
  BY DEF New, Safe, NothingBeforeNew
<1>3. /\ layers' = FirstLayers
      /\ UNCHANGED <<secretKeys, baseline, released, job>>
  BY DEF New
<1>4. PICK r \in Readings(FirstSources) :
         /\ contents' = r.after
         /\ swaps' = swaps + r.swaps
         /\ \/ /\ Accepts(buildSnapshot(Inputs(FirstLayers, r.view)))
               /\ Install(FirstLayers, r.view) /\ phase' = "open"
            \/ phase' \in {"open", "failed"} /\ UNCHANGED <<snapshot, built>>
  BY DEF New
<1>5. /\ DOMAIN contents' = Sources /\ \A s \in Sources : IsContent(contents'[s])
      /\ swaps' \in Nat
  BY <1>4, ReadingsType, FirstSourcesProperties DEF Safe, TypeOK
<1>6. TypeOK'
  BY <1>1, <1>3, <1>4, <1>5 DEF Safe, TypeOK, IsLayers, IsPartial, IsContent
<1>0. NothingBeforeNew'
  <2>1. phase' \in {"open", "failed"} /\ phase = "new"
    BY <1>4 DEF New
  <2> QED BY <1>3, <2>1 DEF Safe, NothingBeforeNew
<1>7. SnapshotInSync'
  BY <1>1, <1>2, <1>3, <1>4 DEF Install, SnapshotInSync, IsLayers, WithBound, Layers, Inputs
<1>8. SnapshotValid'
  BY <1>2, <1>4 DEF Install, SnapshotValid, Accepts
<1>9. SecretsInSync'
  BY <1>2, <1>3, <1>4 DEF Install, SecretsInSync
<1> QED BY <1>0, <1>6, <1>7, <1>8, <1>9 DEF Safe

\* Every step of a client keeps the invariant.
LEMMA ClientSafe == ASSUME Safe, NEW t \in Threads, ClientStep(t) PROVE Safe'
<1>1. ASSUME NEW o \in Ops, Call(t, o) PROVE Safe'
  <2>1. job' \in [Threads -> Ops \cup {Idle}]
    BY <1>1 DEF Call, Safe, TypeOK
  <2> QED BY <1>1, <2>1, BystanderSafe DEF Call, Safe, TypeOK
<1>2. CASE DrainWarnings(t)
  <2>1. phase \in {"open", "closing", "closed"}
    BY <1>2 DEF DrainWarnings, Running, Safe, NothingBeforeNew, Idle, TypeOK
  <2>2. job' \in [Threads -> Ops \cup {Idle}]
    BY <1>2 DEF DrainWarnings, Return, Safe, TypeOK
  <2> QED BY <1>2, <2>1, <2>2, BystanderSafe DEF DrainWarnings, Safe, TypeOK
<1> QED BY <1>1, <1>2, MarkSecretSafe, TransactsSafe, ClientTransacts DEF Safe

\* Every step of the registry keeps the invariant.
LEMMA NextSafe == Safe /\ [RegistryNext]_vars => Safe'
<1> SUFFICES ASSUME Safe, [RegistryNext]_vars PROVE Safe'
  OBVIOUS
<1>1. CASE CloseBegin
  BY <1>1, BystanderSafe DEF CloseBegin, Safe, TypeOK
<1>2. CASE CloseSources
  <2>1. released' \subseteq Sources
    BY <1>2 DEF CloseSources, ToSet, Safe, TypeOK, IsLayers
  <2> QED BY <1>2, <2>1, BystanderSafe DEF CloseSources, Safe, TypeOK
<1>3. ASSUME NEW s \in Sources, NEW c \in ContentsOf[s], SwapContents(s, c) PROVE Safe'
  <2>1. IsContent(c)
    BY RegistryAssumption
  <2>2. DOMAIN contents' = Sources /\ \A x \in Sources : IsContent(contents'[x])
    BY <1>3, <2>1 DEF SwapContents, Safe, TypeOK
  <2>3. phase' \in {"open", "closing"} /\ swaps' \in Nat
    BY <1>3 DEF SwapContents, Safe, TypeOK
  <2> QED BY <1>3, <2>2, <2>3, BystanderSafe DEF SwapContents, Safe, TypeOK
<1>4. CASE UNCHANGED vars
  BY <1>4, StutterSafe
<1> QED BY <1>1, <1>2, <1>3, <1>4, NewSafe, ClientSafe DEF RegistryNext

\* The invariant holds in every reachable state.
THEOREM SafeAlways == Spec => []Safe
  BY InitSafe, NextSafe, PTL DEF Spec

\* registryState keeps its shape through every operation of the registry.
THEOREM TypeCorrect == Spec => []TypeOK
<1>1. Safe => TypeOK
  BY DEF Safe
<1> QED BY <1>1, SafeAlways, PTL

\* No sequence of accepted and rejected operations separates the layers
\* from the installed snapshot (the rollback of every write path).
THEOREM InSync == Spec => []SnapshotInSync
<1>1. Safe => SnapshotInSync
  BY DEF Safe
<1> QED BY <1>1, SafeAlways, PTL

\* Readers only ever see a snapshot the validator accepted.
THEOREM Valid == Spec => []SnapshotValid
<1>1. Safe => SnapshotValid
  BY DEF Safe
<1> QED BY <1>1, SafeAlways, PTL

\* The installed snapshot redacts the keys the registry holds secret.
THEOREM Secrets == Spec => []SecretsInSync
<1>1. Safe => SecretsInSync
  BY DEF Safe
<1> QED BY <1>1, SafeAlways, PTL
-----------------------------------------------------------------------------
(* Names of sources, what is closed, and aliases.                          *)

\* A commit ends with the new layers and what they close, or with neither.
LEMMA CommitOutcome ==
  ASSUME NEW t, NEW L, NEW rel, Commit(t, L, layers, rel)
  PROVE  /\ phase' = phase
         /\ \/ layers' = L /\ released' = rel
            \/ layers' = layers /\ released' = released
  BY DEF Commit, Transaction, Rebuild

\* No source name twice; while the registry may be in use nothing that is
\* registered has been closed.
Names ==
    /\ Distinct(layers.sources)
    /\ phase \in {"new", "open", "closing"} => ToSet(layers.sources) \cap released = {}

\* The list an operation may leave still names no source twice, and what it
\* closes is not on it: the name of an added source was free, and the name
\* of a removed one stood there once.
LEMMA SourceStepNames ==
  ASSUME TypeOK, NEW srcs, NEW rel, SourceStep(srcs, rel), Distinct(layers.sources)
  PROVE  /\ Distinct(srcs)
         /\ ToSet(layers.sources) \cap released = {} => ToSet(srcs) \cap rel = {}
<1>1. layers.sources \in Seq(Sources)
  BY DEF TypeOK, IsLayers
<1>2. CASE srcs = layers.sources /\ rel = released
  BY <1>2
<1>3. ASSUME NEW s \in Sources \ ToSet(layers.sources), NEW i \in 1..(Len(layers.sources) + 1),
             srcs = InsertAt(layers.sources, i, s), rel = released \ {s}
      PROVE  Distinct(srcs) /\ (ToSet(layers.sources) \cap released = {} => ToSet(srcs) \cap rel = {})
  BY <1>1, <1>3, InsertAtNames
<1>4. ASSUME NEW i \in 1..Len(layers.sources),
             srcs = RemoveAt(layers.sources, i), rel = released \cup {layers.sources[i]}
      PROVE  Distinct(srcs) /\ (ToSet(layers.sources) \cap released = {} => ToSet(srcs) \cap rel = {})
  BY <1>1, <1>4, RemoveAtNames
<1> QED BY <1>2, <1>3, <1>4 DEF SourceStep

LEMMA TransactsNames == ASSUME Safe, Names, NEW t \in Threads, Transacts(t) PROVE Names'
<1>1. CASE NoChange(t)
  BY <1>1 DEF NoChange, Names
<1>2. CASE ~NoChange(t)
  <2>1. PICK L, rel : SourceStep(L.sources, rel) /\ Commit(t, L, layers, rel)
    BY <1>2 DEF Transacts
  <2>2. Distinct(L.sources) /\ (ToSet(layers.sources) \cap released = {} => ToSet(L.sources) \cap rel = {})
    BY <2>1, SourceStepNames DEF Safe, Names
  <2> QED BY <2>1, <2>2, CommitOutcome DEF Names
<1> QED BY <1>1, <1>2

\* Every step keeps the names apart, if the precedence list names no source
\* twice.
LEMMA NextNames ==
  ASSUME Distinct(Precedence)
  PROVE  Safe /\ Names /\ [RegistryNext]_vars => Names'
<1> SUFFICES ASSUME Safe, Names, [RegistryNext]_vars PROVE Names'
  OBVIOUS
<1>1. CASE New
  <2>1. layers'.sources = FirstSources /\ released' = released /\ released = {}
    BY <1>1 DEF New, FirstLayers, Layers, Safe, NothingBeforeNew
  <2> QED BY <2>1, FirstSourcesProperties DEF Names
<1>2. ASSUME NEW t \in Threads, ClientStep(t) PROVE Names'
  <2>1. ASSUME NEW o \in Ops, Call(t, o) PROVE Names'
    BY <2>1 DEF Call, Names
  <2>2. CASE MarkSecret(t) \/ DrainWarnings(t)
    BY <2>2 DEF MarkSecret, DrainWarnings, Names
  <2> QED BY <1>2, <2>1, <2>2, TransactsNames, ClientTransacts DEF Safe
<1>3. CASE CloseBegin
  BY <1>3 DEF CloseBegin, Names
<1>4. CASE CloseSources
  BY <1>4 DEF CloseSources, Names
<1>5. ASSUME NEW s \in Sources, NEW c \in ContentsOf[s], SwapContents(s, c) PROVE Names'
  BY <1>5 DEF SwapContents, Names
<1>6. CASE UNCHANGED vars
  BY <1>6 DEF vars, Names
<1> QED BY <1>1, <1>2, <1>3, <1>4, <1>5, <1>6 DEF RegistryNext

LEMMA NamesAlways == ASSUME Distinct(Precedence) PROVE Spec => []Names
<1>1. Init => Names
  BY DEF Init, Names, NoLayers, Layers, Distinct, ToSet
<1> QED BY <1>1, InitSafe, NextSafe, NextNames, PTL DEF Spec

\* Source names stay unique through every add, insert and remove, rolled
\* back or not (checkSourceNameLocked); the one way to a name twice is a
\* precedence list that repeats it (applyPrecedenceLocked).
THEOREM Unique == ASSUME Distinct(Precedence) PROVE Spec => []SourcesUnique
<1>1. Names => SourcesUnique
  BY DEF Names, SourcesUnique, Distinct
<1> QED BY <1>1, NamesAlways, PTL

\* No interleaving of removals, additions and rejected rebuilds closes a
\* source that is registered while the registry is in use (RemoveSource).
THEOREM NotReleased == ASSUME Distinct(Precedence) PROVE Spec => []RegisteredNotReleased
<1>1. Names => RegisteredNotReleased
  BY DEF Names, RegisteredNotReleased
<1> QED BY <1>1, NamesAlways, PTL

\* The alias graph is finite and no part of it leads only to itself.
Acyclic == IsFiniteSet(DOMAIN layers.aliases) /\ NoAliasCycle(layers.aliases)

LEMMA TransactsAcyclic == ASSUME Acyclic, NEW t \in Threads, Transacts(t) PROVE Acyclic'
<1>1. CASE NoChange(t)
  BY <1>1 DEF NoChange, Acyclic
<1>2. CASE ~NoChange(t)
  <2>1. PICK L, rel : AliasStep(L.aliases) /\ Commit(t, L, layers, rel)
    BY <1>2 DEF Transacts
  <2>2. IsFiniteSet(DOMAIN L.aliases) /\ NoAliasCycle(L.aliases)
    <3>1. ASSUME NEW alias \in Keys, NEW canonical \in Keys,
                 validateNoAliasCycle(alias, canonical, layers.aliases),
                 L.aliases = Put(layers.aliases, alias, canonical)
          PROVE  IsFiniteSet(DOMAIN L.aliases) /\ NoAliasCycle(L.aliases)
      <4>1. DOMAIN L.aliases = DOMAIN layers.aliases \cup {alias}
        BY <3>1 DEF Put
      <4>2. NoAliasCycle(L.aliases)
        BY <3>1, RegisteredAliasNoCycle DEF Acyclic
      <4> QED BY <4>1, <4>2, FS_AddElement DEF Acyclic
    <3> QED BY <2>1, <3>1 DEF AliasStep, Acyclic
  <2> QED BY <2>1, <2>2, CommitOutcome DEF Acyclic
<1> QED BY <1>1, <1>2

LEMMA NextAcyclic == Safe /\ Acyclic /\ [RegistryNext]_vars => Acyclic'
<1> SUFFICES ASSUME Safe, Acyclic, [RegistryNext]_vars PROVE Acyclic'
  OBVIOUS
<1>1. CASE New
  <2>1. layers'.aliases = EmptyFn
    BY <1>1 DEF New, FirstLayers, Layers
  <2>2. DOMAIN EmptyFn = {}
    BY DEF EmptyFn
  <2> QED BY <2>1, <2>2, FS_EmptySet DEF Acyclic, NoAliasCycle
<1>2. ASSUME NEW t \in Threads, ClientStep(t) PROVE Acyclic'
  <2>1. ASSUME NEW o \in Ops, Call(t, o) PROVE Acyclic'
    BY <2>1 DEF Call, Acyclic
  <2>2. CASE MarkSecret(t) \/ DrainWarnings(t)
    BY <2>2 DEF MarkSecret, DrainWarnings, Acyclic
  <2> QED BY <1>2, <2>1, <2>2, TransactsAcyclic, ClientTransacts DEF Safe
<1>3. ASSUME UNCHANGED layers PROVE Acyclic'
  BY <1>3 DEF Acyclic
<1> QED BY <1>1, <1>2, <1>3 DEF RegistryNext, CloseBegin, CloseSources, SwapContents, vars

\* Following aliases from any key leaves the alias graph within as many hops
\* as there are aliases, whatever aliases were registered, replaced and
\* rolled back, and however small the depth budget (validateNoAliasCycle).
THEOREM NoCycles == Spec => []AliasesAcyclic
<1>1. Init => Acyclic
  <2>1. Init => DOMAIN layers.aliases = {}
    BY DEF Init, NoLayers, Layers, EmptyFn
  <2> QED BY <2>1, FS_EmptySet DEF Acyclic, NoAliasCycle
<1>2. Acyclic => AliasesAcyclic
  <2> SUFFICES ASSUME Acyclic PROVE AliasesAcyclic
    OBVIOUS
  <2> DEFINE n == Cardinality(DOMAIN layers.aliases)
  <2>1. n \in Nat
    BY FS_CardinalityType DEF Acyclic
  <2>2. ASSUME NEW k \in DOMAIN layers.aliases
        PROVE  LET at[i \in 0..n] == IF i = 0 THEN k
                          ELSE IF at[i-1] \in DOMAIN layers.aliases THEN layers.aliases[at[i-1]] ELSE at[i-1]
               IN  at[n] \notin DOMAIN layers.aliases
    BY <2>1, FollowExists, WalkLeaves DEF Acyclic
  <2> QED BY <2>2 DEF AliasesAcyclic
<1> QED BY <1>1, <1>2, InitSafe, NextSafe, NextAcyclic, PTL DEF Spec
-----------------------------------------------------------------------------
(* The registry implements a ConfigStore: each of its steps is a step of   *)
(* the store or changes nothing the store shows.  What is installed is     *)
(* read off the history variable built.                                    *)

\* What the store shows as installed (the refinement mapping of Store).
Installed ==
    IF snapshot = NoSnapshot THEN [none |-> TRUE]
    ELSE [settings |-> LayersOf(built), registered |-> ToSet(built.sources), view |-> built.view]

Shown == <<phase, layers, ToSet(layers.sources), contents, swaps, Installed>>

\* A Go map of its types is one of the partial functions.
LEMMA PartialFunctionsHold ==
  ASSUME NEW D, NEW R, NEW f, IsPartial(f, D, R)
  PROVE  f \in PartialFunctions(D, R)
  BY DEF IsPartial, PartialFunctions

\* Layers of their types are settings of the store.
LEMMA LayersAreSettings ==
  ASSUME NEW L, IsLayers(L)
  PROVE  L \in LayerSettings /\ ToSet(L.sources) \in SUBSET Sources
<1>1. /\ L.explicits \in PartialFunctions(Keys, Values) /\ L.defaults \in PartialFunctions(Keys, Values)
      /\ L.aliases \in PartialFunctions(Keys, Keys) /\ L.pins \in PartialFunctions(Keys, Sources)
  BY PartialFunctionsHold DEF IsLayers
<1>2. L \in LayerSettings
  BY <1>1 DEF IsLayers, Layers, LayerSettings
<1> QED BY <1>2 DEF IsLayers, ToSet

\* The layers a snapshot was built from are read back from its inputs.
LEMMA InputsShowLayers ==
  ASSUME NEW L, IsLayers(L), NEW view
  PROVE  LayersOf(Inputs(L, view)) = L /\ Inputs(L, view).sources = L.sources /\ Inputs(L, view).view = view
  BY DEF IsLayers, LayersOf, Layers, Inputs

\* A rebuild reads in the store what it reads in the registry; the store
\* only knows which sources, not their order.
LEMMA SameReadings ==
  ASSUME NEW srcs \in Seq(Sources)
  PROVE  /\ Readings(srcs) = Store!Readings(ToSet(srcs))
         /\ Readings(srcs) \subseteq Store!Readings(Sources)
<1>1. \A s, new : SwapReadings(s, new) = Store!SwapReadings(s, new)
  BY DEF SwapReadings, Store!SwapReadings, Reading, Store!Reading
<1>2. Reading(contents, contents, 0) = Store!Reading(contents, contents, 0)
  BY DEF Reading, Store!Reading
<1>3. ToSet(srcs) \subseteq Sources
  BY DEF ToSet
<1>4. ASSUME NEW r
      PROVE  r \in Readings(srcs) <=>
                \/ r = Reading(contents, contents, 0)
                \/ \E s \in ToSet(srcs) : swaps < MaxSwaps /\ \E new \in ContentsOf[s] \ {contents[s]} : r \in SwapReadings(s, new)
  BY DEF Readings
<1>5. ASSUME NEW r, NEW reg
      PROVE  r \in Store!Readings(reg) <=>
                \/ r = Reading(contents, contents, 0)
                \/ \E s \in reg : swaps < MaxSwaps /\ \E new \in ContentsOf[s] \ {contents[s]} : r \in SwapReadings(s, new)
  BY <1>1, <1>2 DEF Store!Readings
<1>6. \A r : r \in Readings(srcs) <=> r \in Store!Readings(ToSet(srcs))
  BY <1>4, <1>5
<1>7. \A r \in Readings(srcs) : r \in Store!Readings(Sources)
  BY <1>3, <1>4, <1>5
<1> QED BY <1>6, <1>7

\* What was installed is shown whenever a snapshot is.
LEMMA ShownInstalled ==
  ASSUME NEW L, IsLayers(L), NEW view, Install(L, view)
  PROVE  /\ Installed' = Store!Configuration(L, ToSet(L.sources), view)
<1>1. snapshot' # NoSnapshot
  BY DEF Install, NoSnapshot
<1>2. built' = Inputs(L, view)
  BY DEF Install
<1> QED BY <1>1, <1>2, InputsShowLayers DEF Installed, Store!Configuration

\* Nothing the store shows has changed.
StoreStutter == UNCHANGED Shown

LEMMA InitImplements == Init => Store!StoreInit
  BY DEF Init, Store!StoreInit, NoLayers, Layers, NoSnapshot, Store!NotInstalled, ToSet

\* New is the store's Open: no baseline can reject the first candidate, so
\* only the validator may.
LEMMA NewOpens == ASSUME Safe, New PROVE Store!Open
<1>1. baseline = EmptyFn /\ snapshot = NoSnapshot /\ phase = "new"
  BY DEF New, Safe, NothingBeforeNew
<1>2. \A candidate : Accepts(candidate) <=> Validates(AsMap(candidate))
  BY <1>1 DEF Accepts, checkImmutable, EmptyFn
<1>3. FirstSources \in Seq(Sources) /\ IsLayers(FirstLayers) /\ FirstLayers.sources = FirstSources
  BY FirstSourcesProperties DEF FirstLayers, IsLayers, Layers, IsPartial, EmptyFn
<1>4. PICK r \in Readings(FirstSources) :
         /\ contents' = r.after
         /\ swaps' = swaps + r.swaps
         /\ LET candidate == buildSnapshot(Inputs(FirstLayers, r.view))
            IN  \/ Accepts(candidate) /\ Install(FirstLayers, r.view) /\ phase' = "open"
                \/ /\ ~Accepts(candidate)
                   /\ phase' = IF DOMAIN candidate.entries = {} THEN "open" ELSE "failed"
                   /\ UNCHANGED <<snapshot, built>>
  BY DEF New
<1>5. r \in Store!Readings(ToSet(FirstSources))
  BY <1>3, SameReadings
<1>6. layers' = FirstLayers /\ ToSet(layers'.sources) = ToSet(FirstSources)
  BY <1>3 DEF New
<1> DEFINE ok == StoreAcceptable(FirstLayers, ToSet(FirstSources), r.view)
<1>7. CASE ok
  <2>1. Install(FirstLayers, r.view) /\ phase' = "open"
    BY <1>2, <1>4, <1>7 DEF StoreAcceptable
  <2>2. Installed' = Store!Configuration(FirstLayers, ToSet(FirstSources), r.view)
    BY <1>3, <2>1, ShownInstalled
  <2> QED BY <1>1, <1>4, <1>5, <1>6, <1>7, <2>1, <2>2 DEF Store!Open, Installed
<1>8. CASE ~ok
  <2>1. /\ UNCHANGED <<snapshot, built>>
        /\ phase' = IF StoreVacuous(FirstLayers, ToSet(FirstSources), r.view) THEN "open" ELSE "failed"
    BY <1>2, <1>4, <1>8 DEF StoreAcceptable, StoreVacuous
  <2>2. Installed' = Installed
    BY <2>1 DEF Installed
  <2> QED BY <1>1, <1>4, <1>5, <1>6, <1>8, <2>1, <2>2 DEF Store!Open, Installed
<1> QED BY <1>7, <1>8

\* A commit is the store's Write when the candidate is accepted, and its
\* Rejected when it is rolled back.
LEMMA CommitImplements ==
  ASSUME Safe, NEW t \in Threads, job[t].op # "idle",
         NEW L, IsLayers(L), NEW rel, Commit(t, L, layers, rel)
  PROVE  Store!Write \/ Store!Rejected
<1>1. phase' = phase /\ Store!Usable
  BY DEF Commit, Store!Usable, Safe, NothingBeforeNew, TypeOK, Idle
<1>2. PICK ok \in BOOLEAN : \E r \in Readings(L.sources) :
         /\ contents' = r.after
         /\ swaps' = swaps + r.swaps
         /\ ok = Accepts(buildSnapshot(Inputs(L, r.view)))
         /\ IF ok THEN Install(L, r.view) /\ layers' = L /\ released' = rel
                  ELSE layers' = layers /\ UNCHANGED <<snapshot, built, released>>
  BY DEF Commit, Transaction, Rebuild
<1>3. PICK r \in Readings(L.sources) :
         /\ contents' = r.after
         /\ swaps' = swaps + r.swaps
         /\ ok = Accepts(buildSnapshot(Inputs(L, r.view)))
         /\ IF ok THEN Install(L, r.view) /\ layers' = L /\ released' = rel
                  ELSE layers' = layers /\ UNCHANGED <<snapshot, built, released>>
  BY <1>2
<1>4. r \in Store!Readings(ToSet(L.sources)) /\ r \in Store!Readings(Sources)
  BY SameReadings DEF IsLayers
<1>5. CASE ok
  <2>1. layers' = L /\ ToSet(layers'.sources) = ToSet(L.sources)
    BY <1>3, <1>5
  <2>2. Installed' = Store!Configuration(L, ToSet(L.sources), r.view)
    BY <1>3, <1>5, ShownInstalled
  <2>3. StoreAcceptable(L, ToSet(L.sources), r.view)
    BY <1>3, <1>5 DEF Accepts, StoreAcceptable
  <2>4. Store!Attempt(L, ToSet(L.sources), TRUE)
    BY <1>3, <1>4, <2>1, <2>2, <2>3 DEF Store!Attempt, Installed
  <2> QED BY <1>1, <2>1, <2>4, LayersAreSettings DEF Store!Write
<1>6. CASE ~ok
  <2>1. layers' = layers /\ UNCHANGED <<snapshot, built>>
    BY <1>3, <1>6
  <2>2. Installed' = Installed
    BY <2>1 DEF Installed
  <2> QED BY <1>1, <1>3, <1>4, <2>1, <2>2 DEF Store!Rejected, Installed
<1> QED BY <1>5, <1>6

\* A secret mark swaps the snapshot pointer; the store shows the same.
LEMMA MarkStutters == ASSUME NEW t \in Threads, MarkSecret(t) PROVE StoreStutter
<1>1. UNCHANGED <<phase, layers, contents, swaps, built>>
  BY DEF MarkSecret
<1>2. (snapshot' = NoSnapshot) <=> (snapshot = NoSnapshot)
  BY DEF MarkSecret, MarkSecrets, NoSnapshot
<1>3. Installed' = Installed
  BY <1>1, <1>2 DEF Installed
<1> QED BY <1>1, <1>3 DEF StoreStutter, Shown

LEMMA ClientImplements ==
  ASSUME Safe, NEW t \in Threads, ClientStep(t)
  PROVE  Store!Write \/ Store!Rejected \/ StoreStutter
<1>1. ASSUME UNCHANGED <<phase, layers, contents, swaps, snapshot, built>> PROVE StoreStutter
  BY <1>1 DEF StoreStutter, Shown, Installed
<1>2. ASSUME NEW o \in Ops, Call(t, o) PROVE StoreStutter
  BY <1>1, <1>2 DEF Call
<1>3. CASE DrainWarnings(t)
  BY <1>1, <1>3 DEF DrainWarnings
<1>4. CASE Transacts(t)
  BY <1>1, <1>4, CommitImplements DEF Transacts, NoChange
<1> QED BY <1>2, <1>3, <1>4, MarkStutters, ClientTransacts DEF Safe

\* Every step of the registry is a step of the store, or shows nothing.
LEMMA NextImplements ==
  ASSUME Safe, [RegistryNext]_vars
  PROVE  [Store!StoreNext]_(Store!storeVars)
<1>1. StoreStutter => UNCHANGED Store!storeVars
  BY DEF StoreStutter, Shown, Installed, Store!storeVars
<1>2. CASE New
  BY <1>2, NewOpens DEF Store!StoreNext
<1>3. ASSUME NEW t \in Threads, ClientStep(t) PROVE [Store!StoreNext]_(Store!storeVars)
  BY <1>1, <1>3, ClientImplements DEF Store!StoreNext
<1>4. CASE CloseBegin
  BY <1>4 DEF CloseBegin, Store!BeginClose, Store!StoreNext
<1>5. CASE CloseSources
  BY <1>5 DEF CloseSources, Store!EndClose, Store!StoreNext
<1>6. ASSUME NEW s \in Sources, NEW c \in ContentsOf[s], SwapContents(s, c)
      PROVE  [Store!StoreNext]_(Store!storeVars)
  BY <1>6 DEF SwapContents, Store!Swap, Store!StoreNext
<1>7. CASE UNCHANGED vars
  BY <1>1, <1>7 DEF vars, StoreStutter, Shown, Installed
<1> QED BY <1>2, <1>3, <1>4, <1>5, <1>6, <1>7 DEF RegistryNext

\* A registry is a ConfigStore: through every write, rollback, reload and
\* content change, what is installed is an accepted combination of the
\* layers as they stand and one reading of the sources, and a rejected
\* operation leaves no trace (rebuildCandidateLocked and all its callers).
THEOREM RegistryImplements == Spec => ImplementsStore
<1>1. Init => Store!StoreInit
  BY InitImplements
<1>2. Safe /\ [RegistryNext]_vars => [Store!StoreNext]_(Store!storeVars)
  BY NextImplements
<1> QED BY <1>1, <1>2, SafeAlways, PTL DEF Spec, ImplementsStore, Store!StoreSpec
-----------------------------------------------------------------------------
(* Binds: any number of binders, structs and interleavings.              *)

Shaped(st) ==
    st = [step |-> st.step, fields |-> st.fields, missing |-> st.missing, i |-> st.i, j |-> st.j,
          got |-> st.got, loads |-> st.loads]

\* A walk: its record, the struct it walks and the field it is at.
IsWalk(st) ==
    /\ Shaped(st)
    /\ st.missing \subseteq Keys
    /\ st.step \notin {"idle", "done"} => st.fields \in Structs
    /\ st.step \in {"bound", "read", "note", "unset", "unsetting"} => st.i \in 1..Len(st.fields)

BindTypes == DOMAIN bind = Binders /\ \A b \in Binders : IsWalk(bind[b])

\* Nobody binds to a registry that New has not returned.
NoBindBeforeNew == phase \in {"new", "failed"} => \A b \in Binders : bind[b].step = "idle"

BindSafe == Safe /\ BindTypes /\ NoBindBeforeNew
-----------------------------------------------------------------------------
(* The walk.                                                               *)

\* A walk starts at the first field, or ends at once when there is none.
LEMMA StartWalk ==
  ASSUME NEW fields \in Structs, NEW missing \in SUBSET Keys, NEW step \in {"bound", "read", "finish"},
         step # "finish" => fields # <<>>
  PROVE  IsWalk([NotStarted EXCEPT !.step = step, !.fields = fields, !.missing = missing])
<1>0. Shaped(NotStarted) /\ NotStarted.i = 1
  BY DEF NotStarted, Shaped
<1> SUFFICES ASSUME NEW st, Shaped(st), st.i = 1
             PROVE  IsWalk([st EXCEPT !.step = step, !.fields = fields, !.missing = missing])
  BY <1>0, Zenon
<1> DEFINE a == [st EXCEPT !.step = step]
           b == [a EXCEPT !.fields = fields]
           c == [b EXCEPT !.missing = missing]
<1>1. [st EXCEPT !.step = step, !.fields = fields, !.missing = missing] = c
  OBVIOUS
<1>3. Shaped(a) /\ a.step = step /\ a.i = 1
  BY DEF Shaped
<1> HIDE DEF a
<1>4. Shaped(b) /\ b.step = step /\ b.fields = fields /\ b.i = 1
  BY <1>3 DEF Shaped
<1> HIDE DEF b
<1>5. Shaped(c) /\ c.step = step /\ c.fields = fields /\ c.missing = missing /\ c.i = 1
  BY <1>4 DEF Shaped
<1> HIDE DEF c
<1>6. step # "finish" => 1 \in 1..Len(fields)
  <2>1. Len(fields) \in Nat /\ DOMAIN fields = 1..Len(fields)
    BY BindAssumption
  <2>2. Len(fields) = 0 => fields = <<>>
    BY <2>1
  <2> QED BY <2>1, <2>2
<1> QED BY <1>1, <1>5, <1>6 DEF IsWalk

\* Settling a field stays at it.
LEMMA SettleWalk ==
  ASSUME NEW st, IsWalk(st), st.step = "read", NEW r, NEW loaded, NEW step \in {"read", "note", "unset"}
  PROVE  IsWalk(Settle(st, r, loaded, step)) /\ Settle(st, r, loaded, step).step = step
<1> DEFINE got == Append(st.got, r)
           loads == Append(st.loads, loaded)
           a == [st EXCEPT !.step = step]
           b == [a EXCEPT !.got = got]
           c == [b EXCEPT !.loads = loads]
<1>1. Settle(st, r, loaded, step) = c
  BY DEF Settle, IsWalk, Shaped
<1> HIDE DEF got, loads
<1>2. Shaped(a) /\ a.step = step /\ a.fields = st.fields /\ a.missing = st.missing /\ a.i = st.i
  BY DEF IsWalk, Shaped
<1> HIDE DEF a
<1>3. Shaped(b) /\ b.step = step /\ b.fields = st.fields /\ b.missing = st.missing /\ b.i = st.i
  BY <1>2 DEF Shaped
<1> HIDE DEF b
<1>4. Shaped(c) /\ c.step = step /\ c.fields = st.fields /\ c.missing = st.missing /\ c.i = st.i
  BY <1>3 DEF Shaped
<1> HIDE DEF c
<1> QED BY <1>1, <1>4 DEF IsWalk

\* The next step at the same field, or past the last.
LEMMA StepWalk ==
  ASSUME NEW st, IsWalk(st), NEW step, st.step \notin {"idle", "done"},
         step \in {"read", "note", "unset", "unsetting"} => st.step \in {"bound", "read", "note", "unset"},
         step # "bound"
  PROVE  IsWalk([st EXCEPT !.step = step])
<1> DEFINE a == [st EXCEPT !.step = step]
<1>1. Shaped(a) /\ a.step = step /\ a.fields = st.fields /\ a.missing = st.missing /\ a.i = st.i
  BY DEF IsWalk, Shaped
<1> HIDE DEF a
<1>2. IsWalk(a)
  BY <1>1 DEF IsWalk
<1> QED BY <1>2 DEF a

\* The next spelling of the same field.
LEMMA SpellWalk ==
  ASSUME NEW st, IsWalk(st)
  PROVE  IsWalk([st EXCEPT !.j = @ + 1])
<1> DEFINE a == [st EXCEPT !.j = st.j + 1]
<1>1. Shaped(a) /\ a.step = st.step /\ a.fields = st.fields /\ a.missing = st.missing /\ a.i = st.i
  BY DEF IsWalk, Shaped
<1>2. [st EXCEPT !.j = @ + 1] = a
  OBVIOUS
<1> HIDE DEF a
<1> QED BY <1>1, <1>2 DEF IsWalk

\* On to the next field, or to the end after the last.
LEMMA AdvanceWalk ==
  ASSUME NEW st, IsWalk(st), st.step \in {"read", "note", "unset", "unsetting"}
  PROVE  IsWalk(Advance(st))
<1> DEFINE next == IF st.i = Len(st.fields) THEN "finish" ELSE "read"
           a == [st EXCEPT !.step = next]
           b == [a EXCEPT !.i = a.i + 1]
           c == [b EXCEPT !.j = 1]
<1>1. Advance(st) = c
  BY DEF Advance, IsWalk, Shaped
<1>2. st.fields \in Structs /\ st.i \in 1..Len(st.fields) /\ Len(st.fields) \in Nat
  BY BindAssumption DEF IsWalk
<1>3. next = "finish" \/ (next = "read" /\ st.i + 1 \in 1..Len(st.fields))
  BY <1>2
<1> HIDE DEF next
<1>4. Shaped(a) /\ a.step = next /\ a.fields = st.fields /\ a.missing = st.missing /\ a.i = st.i
  BY DEF IsWalk, Shaped
<1> HIDE DEF a
<1>5. Shaped(b) /\ b.step = next /\ b.fields = st.fields /\ b.missing = st.missing /\ b.i = st.i + 1
  BY <1>4 DEF Shaped
<1> HIDE DEF b
<1>6. Shaped(c) /\ c.step = next /\ c.fields = st.fields /\ c.missing = st.missing /\ c.i = st.i + 1
  BY <1>5 DEF Shaped
<1> HIDE DEF c
<1> QED BY <1>1, <1>2, <1>3, <1>6 DEF IsWalk

\* The binder's walk goes to st; nobody else's does.
LEMMA GotoTypes ==
  ASSUME BindTypes, NEW b \in Binders, NEW st, IsWalk(st), Goto(b, st)
  PROVE  BindTypes'
<1>1. DOMAIN bind' = Binders /\ \A x \in Binders : bind'[x] = IF x = b THEN st ELSE bind[x]
  BY DEF Goto, BindTypes
<1>2. \A x \in Binders : IsWalk(bind'[x])
  BY <1>1 DEF BindTypes
<1> QED BY <1>1, <1>2 DEF BindTypes, IsWalk
-----------------------------------------------------------------------------
(* What a bind does to the registry.                                       *)

\* A bind under way was started on a registry that New returned.
LEMMA BindOpen ==
  ASSUME BindSafe, NEW b \in Binders, bind[b].step # "idle"
  PROVE  phase \notin {"new", "failed"} /\ IsWalk(bind[b])
  BY DEF BindSafe, BindTypes, NoBindBeforeNew

\* The walk is at a field whose keys are keys in play.
LEMMA FieldKeyType ==
  ASSUME NEW st, IsWalk(st), st.step \in {"note", "unset", "unsetting"}
  PROVE  st.fields[st.i].key \in Keys
<1>1. st.fields \in Structs /\ st.i \in DOMAIN st.fields /\ FieldKeys(st.fields) \subseteq Keys
  BY BindAssumption DEF IsWalk
<1>2. st.fields[st.i].key \in FieldKeys(st.fields)
  BY <1>1 DEF FieldKeys
<1> QED BY <1>1, <1>2

\* A rebuild on behalf of a bind.
LEMMA TransactionSafe ==
  ASSUME Safe, phase \notin {"new", "failed"}, NEW L, IsLayers(L), Transaction(L, layers, released),
         UNCHANGED <<phase, secretKeys, baseline, job>>
  PROVE  Safe'
<1>1. PICK ok \in BOOLEAN : Rebuild(L, layers, released, ok)
  BY DEF Transaction
<1> QED BY <1>1, RebuildSafe DEF Safe, TypeOK

\* Remembering paths nothing answers: the snapshot stays behind the layers
\* by these paths alone.
LEMMA GrownBoundSafe ==
  ASSUME Safe, phase \notin {"new", "failed"}, NEW paths \in SUBSET Keys,
         layers' = WithBound(layers.bound \cup paths),
         UNCHANGED <<phase, contents, swaps, secretKeys, baseline, snapshot, built, released, job>>
  PROVE  Safe'
<1>1. IsLayers(layers) /\ IsLayers(layers')
  BY DEF Safe, TypeOK, IsLayers, WithBound, Layers
<1>2. TypeOK' /\ NothingBeforeNew'
  BY <1>1 DEF Safe, TypeOK, NothingBeforeNew, IsContent, IsPartial
<1>3. SnapshotInSync'
  BY DEF Safe, SnapshotInSync, WithBound, Layers, Inputs
<1> QED BY <1>2, <1>3 DEF Safe, SnapshotValid, SecretsInSync

LEMMA AddBoundSafe ==
  ASSUME BindSafe, NEW b \in Binders, BindAddBound(b)
  PROVE  Safe' /\ IsWalk([bind[b] EXCEPT !.step = "read"])
<1>1. bind[b].step = "bound" /\ IsWalk(bind[b]) /\ Safe /\ phase \notin {"new", "failed"}
  BY BindOpen DEF BindAddBound, BindSafe
<1> DEFINE added == bind[b].missing \ layers.bound
           grown == WithBound(layers.bound \cup added)
<1>2. added \in SUBSET Keys
  BY <1>1 DEF IsWalk
<1>3. IsLayers(grown)
  BY <1>1, <1>2 DEF Safe, TypeOK, IsLayers, WithBound, Layers
<1>4. \/ Transaction(grown, layers, released)
      \/ layers' = grown /\ UNCHANGED <<contents, swaps, snapshot, built, released>>
  BY DEF BindAddBound, addBoundPaths
<1>5. UNCHANGED <<phase, secretKeys, baseline, job>>
  BY DEF BindAddBound
<1>6. Safe'
  BY <1>1, <1>2, <1>3, <1>4, <1>5, TransactionSafe, GrownBoundSafe
<1> QED BY <1>1, <1>6, StepWalk

LEMMA ReadTypes ==
  ASSUME BindSafe, NEW b \in Binders, BindRead(b)
  PROVE  BindTypes'
<1> DEFINE st == bind[b]
<1>1. IsWalk(st) /\ st.step = "read" /\ BindTypes
  BY DEF BindRead, BindSafe, BindTypes
<1>2. IsWalk([st EXCEPT !.j = @ + 1])
  BY <1>1, SpellWalk
<1>3. IsWalk(NothingFound(st, snapshot))
  <2>1. IsWalk(Settle(st, NotFound, snapshot, "unset"))
    BY <1>1, SettleWalk
  <2>2. IsWalk(Advance(Settle(st, NotFound, snapshot, "read")))
    BY <1>1, SettleWalk, AdvanceWalk
  <2> QED BY <2>1, <2>2 DEF NothingFound
<1>4. \A r : IsWalk(Settle(st, r, snapshot, "note"))
  BY <1>1, SettleWalk
<1>5. \/ Goto(b, [st EXCEPT !.j = @ + 1])
      \/ Goto(b, NothingFound(st, snapshot))
      \/ \E r : Goto(b, Settle(st, r, snapshot, "note"))
  BY Zenon DEF BindRead
<1> QED BY <1>1, <1>2, <1>3, <1>4, <1>5, GotoTypes

LEMMA NoteSafe ==
  ASSUME BindSafe, NEW b \in Binders, BindNote(b)
  PROVE  Safe' /\ BindTypes'
<1> DEFINE st == bind[b]
<1>1. IsWalk(st) /\ st.step = "note" /\ BindTypes /\ Safe /\ phase \notin {"new", "failed"}
  BY BindOpen DEF BindNote, BindSafe, BindTypes
<1>2. IsWalk([st EXCEPT !.step = "unset"]) /\ IsWalk(Advance(st))
  BY <1>1, StepWalk, AdvanceWalk
<1>3. Goto(b, [st EXCEPT !.step = "unset"]) \/ Goto(b, Advance(st))
  BY DEF BindNote
<1>4. DOMAIN baseline' \subseteq Keys
  <2>1. st.fields[st.i].key \in Keys /\ DOMAIN baseline \subseteq Keys
    BY <1>1, FieldKeyType DEF Safe, TypeOK
  <2>2. \/ baseline' = baseline
        \/ \E v : baseline' = Put(baseline, st.fields[st.i].key, v)
    BY DEF BindNote, markImmutable
  <2> QED BY <2>1, <2>2 DEF Put
<1>5. UNCHANGED <<phase, layers, contents, swaps, secretKeys, snapshot, built, released, job>>
  BY DEF BindNote
<1>6. Safe'
  BY <1>1, <1>4, <1>5 DEF Safe, TypeOK, NothingBeforeNew, SnapshotInSync, SnapshotValid, SecretsInSync,
     IsLayers, IsContent, IsPartial, WithBound, Layers, Inputs
<1> QED BY <1>1, <1>2, <1>3, <1>6, GotoTypes

LEMMA UnsetLockedSafe ==
  ASSUME BindSafe, NEW b \in Binders, BindUnsetLocked(b)
  PROVE  Safe' /\ IsWalk(Advance(bind[b]))
<1> DEFINE k == bind[b].fields[bind[b].i].key
<1>1. bind[b].step = "unsetting" /\ IsWalk(bind[b]) /\ Safe /\ phase \notin {"new", "failed"}
  BY BindOpen DEF BindUnsetLocked, BindSafe
<1>2. IsWalk(Advance(bind[b]))
  BY <1>1, AdvanceWalk
<1>3. TypeOK /\ IsPartial(layers.explicits, Keys, Values)
  BY <1>1 DEF Safe, TypeOK, IsLayers
<1>4. UNCHANGED <<phase, secretKeys, baseline, job>>
  BY DEF BindUnsetLocked
<1>5. CASE k \in DOMAIN layers.explicits
  <2>1. IsLayers(UnsetLayers(k))
    BY <1>3, WithoutType, WithParts DEF UnsetLayers
  <2>2. UnsetRollback(k) = layers
    BY <1>3, <1>5, PutUndoesWithout, WithParts DEF UnsetRollback
  <2>3. Transaction(UnsetLayers(k), layers, released)
    BY <1>5, <2>2 DEF BindUnsetLocked
  <2> QED BY <1>1, <1>2, <1>4, <2>1, <2>3, TransactionSafe
<1>6. CASE k \notin DOMAIN layers.explicits
  <2>1. UNCHANGED <<layers, contents, swaps, snapshot, built, released>>
    BY <1>6 DEF BindUnsetLocked
  <2> QED BY <1>1, <1>2, <1>4, <2>1 DEF Safe, TypeOK, NothingBeforeNew, SnapshotInSync, SnapshotValid,
             SecretsInSync, IsLayers, IsContent, IsPartial, WithBound, Layers, Inputs
<1> QED BY <1>5, <1>6

LEMMA BindMarkSafe ==
  ASSUME BindSafe, NEW b \in Binders, BindMark(b)
  PROVE  Safe'
<1> DEFINE marked == SecretFields(bind[b].fields)
<1>1. bind[b].step = "mark" /\ IsWalk(bind[b]) /\ Safe /\ phase \notin {"new", "failed"}
  BY BindOpen DEF BindMark, BindSafe
<1>2. marked \subseteq Keys
  BY <1>1, BindAssumption DEF SecretFields, FieldKeys, IsWalk
<1>3. /\ secretKeys' = secretKeys \cup marked
      /\ snapshot' = IF snapshot # NoSnapshot /\ ~(marked \subseteq secretKeys)
                     THEN [res |-> snapshot.res, secrets |-> secretKeys \cup marked] ELSE snapshot
      /\ UNCHANGED <<phase, layers, contents, swaps, baseline, built, released, job>>
  BY DEF BindMark, MarkSecrets
<1> HIDE DEF marked
<1>4. TypeOK' /\ NothingBeforeNew'
  BY <1>1, <1>2, <1>3 DEF Safe, TypeOK, NothingBeforeNew, IsLayers, IsContent, IsPartial, Layers
<1>5. snapshot' # NoSnapshot => snapshot # NoSnapshot /\ snapshot'.res = snapshot.res
  BY <1>3
<1>6. SnapshotInSync' /\ SnapshotValid'
  BY <1>1, <1>3, <1>5 DEF Safe, SnapshotInSync, SnapshotValid, WithBound, Layers, Inputs
<1>7. SecretsInSync'
  BY <1>1, <1>3 DEF Safe, SecretsInSync
<1> QED BY <1>4, <1>6, <1>7 DEF Safe

\* A walk that goes on keeps the walks typed and leaves New returned.
LEMMA WalkOn ==
  ASSUME BindSafe, NEW b \in Binders, bind[b].step # "idle", Safe', phase' = phase,
         NEW st, IsWalk(st), Goto(b, st)
  PROVE  BindSafe'
<1>1. BindTypes'
  BY GotoTypes DEF BindSafe
<1>2. phase' \notin {"new", "failed"}
  BY BindOpen
<1> QED BY <1>1, <1>2 DEF BindSafe, NoBindBeforeNew

\* A step of the walk that touches only the walk and what it consulted.
LEMMA WalkOnly ==
  ASSUME BindSafe, NEW b \in Binders, bind[b].step # "idle", UNCHANGED vars,
         NEW st, IsWalk(st), Goto(b, st)
  PROVE  BindSafe'
<1>1. Safe' /\ phase' = phase
  BY StutterSafe DEF BindSafe, vars
<1> QED BY <1>1, WalkOn

\* A walk starts, typed, on an open registry.
LEMMA BindStartSafe ==
  ASSUME BindSafe, NEW b \in Binders, NEW fields \in Structs, BindStart(b, fields)
  PROVE  BindSafe'
<1> DEFINE missing == IF snapshot = NoSnapshot THEN {}
                      ELSE {k \in FieldKeys(fields) : ~answers(snapshot.res, k)}
           step == IF missing # {} THEN "bound" ELSE IF fields = <<>> THEN "finish" ELSE "read"
           st == [NotStarted EXCEPT !.step = step, !.fields = fields, !.missing = missing]
<1>1. missing \in SUBSET Keys
  BY BindAssumption
<1>2. Goto(b, st) /\ phase = "open" /\ UNCHANGED vars
  BY DEF BindStart
<1>0. step # "finish" => fields # <<>>
  <2>1. FieldKeys(<<>>) = {}
    BY DEF FieldKeys
  <2> QED BY <2>1
<1> HIDE DEF missing
<1>3. IsWalk(st)
  BY <1>0, <1>1, StartWalk
<1> HIDE DEF st
<1>4. BindTypes'
  BY <1>2, <1>3, GotoTypes DEF BindSafe
<1>5. Safe' /\ phase' = "open"
  BY <1>2, StutterSafe DEF BindSafe, vars
<1> QED BY <1>4, <1>5 DEF BindSafe, NoBindBeforeNew

\* Every step of a bind keeps the invariant.
LEMMA BindStepSafe == ASSUME BindSafe, NEW b \in Binders, BindStep(b) PROVE BindSafe'
<1>1. CASE BindAddBound(b)
  BY <1>1, AddBoundSafe, WalkOn DEF BindAddBound
<1>2. CASE BindRead(b)
  <2>1. bind[b].step # "idle" /\ BindTypes' /\ UNCHANGED vars
    BY <1>2, ReadTypes DEF BindRead
  <2>2. Safe' /\ phase' \notin {"new", "failed"}
    BY <2>1, StutterSafe, BindOpen DEF BindSafe, vars
  <2> QED BY <2>1, <2>2 DEF BindSafe, NoBindBeforeNew
<1>3. CASE BindNote(b)
  <2>1. phase' = phase /\ bind[b].step # "idle"
    BY <1>3 DEF BindNote
  <2> QED BY <1>3, <2>1, NoteSafe, BindOpen DEF BindSafe, NoBindBeforeNew
<1>4. CASE BindUnset(b)
  <2>1. bind[b].step = "unset" /\ IsWalk(bind[b])
    BY <1>4, BindOpen DEF BindUnset
  <2>2. IsWalk([bind[b] EXCEPT !.step = "unsetting"]) /\ IsWalk(Advance(bind[b]))
    BY <2>1, StepWalk, AdvanceWalk
  <2> QED BY <1>4, <2>1, <2>2, WalkOnly DEF BindUnset
<1>5. CASE BindUnsetLocked(b)
  BY <1>5, UnsetLockedSafe, WalkOn DEF BindUnsetLocked
<1>6. CASE BindFinish(b)
  <2>1. bind[b].step = "finish" /\ IsWalk(bind[b])
    BY <1>6, BindOpen DEF BindFinish
  <2>2. IsWalk([bind[b] EXCEPT !.step = "mark"]) /\ IsWalk([bind[b] EXCEPT !.step = "record"])
    BY <2>1, StepWalk
  <2> QED BY <1>6, <2>1, <2>2, WalkOnly DEF BindFinish
<1>7. CASE BindMark(b)
  <2>1. bind[b].step = "mark" /\ IsWalk(bind[b]) /\ phase' = phase
    BY <1>7, BindOpen DEF BindMark
  <2>2. IsWalk([bind[b] EXCEPT !.step = "record"])
    BY <2>1, StepWalk
  <2> QED BY <1>7, <2>1, <2>2, BindMarkSafe, WalkOn DEF BindMark
<1>8. CASE BindRecord(b)
  <2>1. bind[b].step = "record" /\ IsWalk(bind[b])
    BY <1>8, BindOpen DEF BindRecord
  <2>2. IsWalk([bind[b] EXCEPT !.step = "done"])
    BY <2>1, StepWalk
  <2> QED BY <1>8, <2>1, <2>2, WalkOnly DEF BindRecord
<1> QED BY <1>1, <1>2, <1>3, <1>4, <1>5, <1>6, <1>7, <1>8, BindStartSafe DEF BindStep

\* No step but New's own leads to a registry that New has not returned.
LEMMA NewOnce ==
  ASSUME Safe, RegistryNext, phase' \in {"new", "failed"}
  PROVE  phase \in {"new", "failed"}
<1>1. ASSUME NEW t \in Threads, ClientStep(t) PROVE phase' = phase
  <2>1. CASE Transacts(t)
    BY <2>1, CommitOutcome DEF Transacts, NoChange
  <2> QED BY <1>1, <2>1, ClientTransacts DEF Safe, Call, MarkSecret, DrainWarnings
<1> QED BY <1>1 DEF RegistryNext, New, CloseBegin, CloseSources, SwapContents

LEMMA BindNextSafe == BindSafe /\ [BindNext]_bindVars => BindSafe'
<1>1. ASSUME BindSafe, RegistryNext, UNCHANGED <<bind, consulted>> PROVE BindSafe'
  BY <1>1, NextSafe, NewOnce DEF BindSafe, BindTypes, NoBindBeforeNew, IsWalk, Shaped
<1>2. ASSUME BindSafe, UNCHANGED bindVars PROVE BindSafe'
  <2>1. Safe' /\ bind' = bind /\ phase' = phase
    BY <1>2, StutterSafe DEF BindSafe, bindVars, vars
  <2> QED BY <1>2, <2>1 DEF BindSafe, BindTypes, NoBindBeforeNew, IsWalk, Shaped
<1> QED BY <1>1, <1>2, BindStepSafe DEF BindNext

LEMMA BindInitSafe == BindInit => BindSafe
<1> SUFFICES ASSUME BindInit PROVE BindSafe
  OBVIOUS
<1>1. Safe
  BY InitSafe DEF BindInit
<1>2. NotStarted.step = "idle" /\ IsWalk(NotStarted)
  BY DEF NotStarted, IsWalk, Shaped
<1> QED BY <1>1, <1>2 DEF BindInit, BindSafe, BindTypes, NoBindBeforeNew

LEMMA BindSafeAlways == BindSpec => []BindSafe
  BY BindInitSafe, BindNextSafe, PTL DEF BindSpec

\* However binds interleave with each other and with writes, the installed
\* snapshot is the resolution of the layers as they stand: a bind leaves
\* behind at most paths that nothing answers (addBoundPaths, applyPostBind).
THEOREM BindInSync == BindSpec => []SnapshotInSync
<1>1. BindSafe => SnapshotInSync
  BY DEF BindSafe, Safe
<1> QED BY <1>1, BindSafeAlways, PTL

\* The snapshots that binds and writes install are ones the validator accepted.
THEOREM BindValid == BindSpec => []SnapshotValid
<1>1. BindSafe => SnapshotValid
  BY DEF BindSafe, Safe
<1> QED BY <1>1, BindSafeAlways, PTL
-----------------------------------------------------------------------------
(* Baselines.                                                              *)

\* Whatever a step installs was held against the baselines of the moment.
KeepsBaselines ==
    snapshot' # snapshot /\ snapshot' # NoSnapshot /\ built' # built =>
        \A p \in DOMAIN baseline : Agrees(snapshot'.res, p, baseline[p])

LEMMA InstallKeeps ==
  ASSUME NEW L, NEW R, NEW rel, Transaction(L, R, rel)
  PROVE  KeepsBaselines
<1>1. PICK ok \in BOOLEAN : Rebuild(L, R, rel, ok)
  BY DEF Transaction
<1>2. PICK r \in Readings(L.sources) :
         /\ ok = Accepts(buildSnapshot(Inputs(L, r.view)))
         /\ IF ok THEN Install(L, r.view) ELSE UNCHANGED <<snapshot, built>>
  BY <1>1 DEF Rebuild
<1>3. CASE ok
  <2>1. checkImmutable(buildSnapshot(Inputs(L, r.view)))
    BY <1>2, <1>3 DEF Accepts
  <2>2. snapshot'.res = buildSnapshot(Inputs(L, r.view))
    BY <1>2, <1>3 DEF Install
  <2> QED BY <2>1, <2>2 DEF checkImmutable, Agrees, KeepsBaselines
<1>4. CASE ~ok
  BY <1>2, <1>4 DEF KeepsBaselines
<1> QED BY <1>3, <1>4

LEMMA RegistryKeepsBaselines == ASSUME Safe, RegistryNext PROVE KeepsBaselines
<1>1. CASE New
  <2>1. baseline = EmptyFn
    BY <1>1 DEF New, Safe, NothingBeforeNew
  <2> QED BY <2>1 DEF KeepsBaselines, EmptyFn
<1>2. ASSUME NEW t \in Threads, ClientStep(t) PROVE KeepsBaselines
  <2>1. CASE Transacts(t)
    BY <2>1, InstallKeeps DEF Transacts, NoChange, Commit, KeepsBaselines
  <2>2. CASE (\E o \in Ops : Call(t, o)) \/ MarkSecret(t) \/ DrainWarnings(t)
    BY <2>2 DEF Call, MarkSecret, DrainWarnings, KeepsBaselines
  <2> QED BY <1>2, <2>1, <2>2, ClientTransacts DEF Safe
<1>3. ASSUME built' = built PROVE KeepsBaselines
  BY <1>3 DEF KeepsBaselines
<1> QED BY <1>1, <1>2, <1>3 DEF RegistryNext, CloseBegin, CloseSources, SwapContents

LEMMA BindStepKeepsBaselines == ASSUME NEW b \in Binders, BindStep(b) PROVE KeepsBaselines
<1>1. CASE BindAddBound(b)
  BY <1>1, InstallKeeps DEF BindAddBound, addBoundPaths, KeepsBaselines
<1>2. CASE BindUnsetLocked(b)
  BY <1>2, InstallKeeps DEF BindUnsetLocked, KeepsBaselines
<1>3. CASE built' = built
  BY <1>3 DEF KeepsBaselines
<1> QED BY <1>1, <1>2, <1>3
        DEF BindStep, BindStart, BindRead, BindNote, BindUnset, BindFinish, BindMark, BindRecord, vars

\* No rebuild, of a write, a reload, a bind's remembered paths or a bind's
\* unset, installs a resolution that disagrees with a baseline recorded by
\* then (checkImmutableLocked).
THEOREM BindKeepsBaselines == BindSpec => InstallKeepsBaselines
<1>1. BindSafe /\ [BindNext]_bindVars => [KeepsBaselines]_bindVars
  BY RegistryKeepsBaselines, BindStepKeepsBaselines DEF BindNext, BindSafe
<1>2. [KeepsBaselines]_bindVars
         => [snapshot' # snapshot /\ snapshot' # NoSnapshot /\ built' # built =>
                \A p \in DOMAIN baseline : Agrees(snapshot'.res, p, baseline[p])]_bindVars
  BY DEF KeepsBaselines
<1> QED BY <1>1, <1>2, BindSafeAlways, PTL DEF BindSpec, InstallKeepsBaselines
=============================================================================

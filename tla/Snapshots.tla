----------------------------- MODULE Snapshots -----------------------------
(***************************************************************************)
(* A snapshot is built from the layers of a registry, whatever they are,   *)
(* read and saved: what resolution, reads and saves promise about it, and  *)
(* what paths and their texts do about each other.                         *)
(***************************************************************************)
EXTENDS Contents, SavePayload, PathText

CONSTANTS
    Layerings,          \* the layers a rebuild may find
    Segment,            \* segments of keys
    PathPairs,          \* pairs of paths to print, parse and compare
    Saves,              \* <<path given to WithSaveOnly (<<>> for none),
                        \*   unscoped environment sources, consulted keys>>
    Markings            \* <<secret keys, path given to WithSaveOnly, is there a redactor>>

IsPath(k) == k \in Seq(Segment)

\* A slice is a list of its elements.  A map is held by its leaves: none of
\* them is itself a map with entries.
SliceIsList(v) == v.kind = "slice" => v = SliceOf(v.elems) /\ v.elems \in Seq(ToSet(v.elems))
IsLeaf(v) == v.kind # "absent" /\ SliceIsList(v) /\ ~isNonEmptyMap(v)
IsValue(v) ==
    /\ v.kind # "absent"
    /\ SliceIsList(v)
    /\ IsMap(v) => \A r \in DOMAIN v.at : IsPath(r) /\ r # <<>> /\ IsLeaf(v.at[r])
IsLayer(m) == \A k \in DOMAIN m : IsPath(k) /\ IsValue(m[k])

\* Every two of the aliases have an order.
Ordered(K) ==
    /\ \A x, y \in K : x = y \/ KeyLess(x, y) \/ KeyLess(y, x)
    /\ \A x, y \in K : KeyLess(x, y) => x # y /\ ~KeyLess(y, x)
    /\ \A x, y, z \in K : KeyLess(x, y) /\ KeyLess(y, z) => KeyLess(x, z)

\* Layers as a registry holds them: sources have names of their own.
IsLayering(l) ==
    /\ DOMAIN l = {"sources", "view", "explicits", "defaults", "aliases", "pins", "bound", "append"}
    /\ l.sources \in Seq(ToSet(l.sources))
    /\ \A i, j \in DOMAIN l.sources : l.sources[i] = l.sources[j] => i = j
    /\ \A s \in ToSet(l.sources) : ~isReservedSourceName(s) /\ IsLayer(l.view[s].get)
    /\ IsLayer(l.explicits) /\ IsLayer(l.defaults)
    /\ IsFiniteSet(DOMAIN l.aliases) /\ Ordered(DOMAIN l.aliases)
    /\ \A k \in collectCandidateKeys(l) : IsPath(k)
    /\ \A x \in DOMAIN l.aliases : IsPath(l.aliases[x])

ASSUME SnapshotsAssumption ==
    /\ \A l \in Layerings : IsLayering(l)
    /\ \A m \in Markings : IsPath(m[2])
    /\ \A k \in Universe : IsPath(k) /\ k # <<>>
    /\ \A save \in Saves : IsPath(save[1])
    /\ \A pair \in PathPairs : \A i \in 1..2 : pair[i] \in Seq(Seq(Nat))

VARIABLES
    is,         \* the layers a rebuild reads, or a pair of paths
    snap        \* the snapshot built from them, NoSnap before
snapshotsVars == <<is, snap>>

NoSnap == [entries |-> EmptyFn, listed |-> {}, names |-> <<>>, aliases |-> EmptyFn]

SnapshotsInit ==
    /\ is \in Layerings \cup {[paths |-> pair] : pair \in PathPairs}
    /\ snap = NoSnap

Build == /\ snap = NoSnap /\ "paths" \notin DOMAIN is
         /\ snap' = buildSnapshot(is)
         /\ UNCHANGED is

SnapshotsSpec == SnapshotsInit /\ [][Build]_snapshotsVars
-----------------------------------------------------------------------------
Built == snap # NoSnap
Chain(k) == resolveAliasChain(k, is.aliases)
Spellings(k) == {k} \cup {x \in DOMAIN is.aliases : Chain(x) = k}

\* The ranks of the layers that hold key k under any of its names and that
\* its pin, if any, lets through: 0 for Set, i for the i-th source, then
\* the defaults.
Eligible(k) ==
    LET n == Len(is.sources)
        holds(layer) == \E p \in Spellings(k) : p \in DOMAIN layer
        supplying == {r \in 1..n : holds(is.view[is.sources[r]].get)}
    IN  (IF holds(flattenLayer(is.explicits)) THEN {0} ELSE {})
          \cup (IF k \in DOMAIN is.pins
                THEN {r \in supplying : is.sources[r] = is.pins[k]}
                ELSE supplying \cup (IF holds(flattenLayer(is.defaults)) THEN {n + 1} ELSE {}))

LayerOf(r) ==
    IF r = 0 THEN flattenLayer(is.explicits)
    ELSE IF r \in 1..Len(is.sources) THEN is.view[is.sources[r]].get
    ELSE flattenLayer(is.defaults)

\* The name of k that counts in a layer: its own before those of its aliases,
\* and of these the first in string order.
CountingName(k, layer) ==
    LET held == Spellings(k) \cap DOMAIN layer
    IN  {p \in held : \A q \in held \ {p} : p = k \/ (q # k /\ KeyLess(p, q))}

\* MergeAppend may join what stands below it to v: a slice or a map that
\* neither Set nor a pin gives.
MayBeJoined(k, v) ==
    /\ is.append /\ 0 \notin Eligible(k) /\ k \notin DOMAIN is.pins
    /\ v.kind \in {"slice", "map"}

\* Precedence, against a declarative reference: a key some layer enumerates
\* is in the snapshot exactly when an eligible layer holds it under one of
\* its names; the snapshot names the eligible layer of highest precedence as
\* where it is from, and its value is what that layer holds under the name that
\* counts, unless MergeAppend may have joined that to what lies below
\* (resolveKey and buildSnapshot; what slices are joined to is
\* AppendConcatenates).
PrecedenceRespected ==
    Built => \A k \in {Chain(c) : c \in UNION {DOMAIN flattenLayer(is.explicits),
                                               DOMAIN flattenLayer(is.defaults), DOMAIN is.aliases,
                                               is.bound, Enumerated(is)}} :
        /\ k \in DOMAIN snap.entries <=> Eligible(k) # {}
        /\ k \in DOMAIN snap.entries =>
             LET best == Min(Eligible(k))
             IN  /\ rankOf(snap, k) = best
                 /\ \E p \in CountingName(k, LayerOf(best)) :
                        \/ snap.entries[k].val = LayerOf(best)[p]
                        \/ MayBeJoined(k, LayerOf(best)[p])

\* Keys that stay readable but are left out of the listed views.
Unlisted == DOMAIN snap.entries \ snap.listed

\* Names of aliases, and what lies below one: a read of these looks at what the
\* alias stands for, where the tree has the canonical keys alone.
Aliased(p) == \E x \in DOMAIN snap.aliases : IsPrefix(x, p)

\* What a key left out of the list holds as a map is listed, key by key and
\* from no lower a layer, wherever it has to do with p (what hideBoundParents
\* takes for granted: "a map whose entries are listed as keys below it").
EntriesListed(p) ==
    \A h \in Unlisted \ DOMAIN snap.aliases :
        Below(h, p) /\ IsMap(snap.entries[h].val) =>
            \A r \in DOMAIN snap.entries[h].val.at : Related(h \o r, p) =>
                /\ h \o r \in Canonical(snap, snap.listed)
                /\ rankOf(snap, h \o r) <= rankOf(snap, h)

\* The tree that validators and Save see never shows a value that a read of
\* the key itself does not return (AsMap against Snapshot.read).
TreeAgreesWithReads ==
    LET tree == AsMap(snap).at
    IN  \A p \in DOMAIN tree \ Unlisted :
            ~Aliased(p) /\ EntriesListed(p) => read(snap, p, "exact").val = tree[p]

\* A key at k or above it comes between the layers of the keys below k: the
\* tree has lost some of these to it, a section read of k looks at them alone.
Straddled(k) ==
    LET below == keysBelow(snap, snap.listed, k)
    IN  \E i \in Canonical(snap, snap.listed) : \E j \in below \ shadowedKeys(snap, below) :
            IsPrefix(i, k) /\ rankOf(snap, i) < rankOf(snap, j)

\* Reading a key as a map gives what the tree shows at it, whichever layers
\* set the key and the keys below it, as long as no map at the key or at a
\* parent has the entry (readSection against AsMap).
SectionAgreesWithTree ==
    LET tree == AsMap(snap)
    IN  \A k \in Universe \ Unlisted :
            LET node == entryIn(tree, k)
            IN  /\ IsMap(node) /\ ~Aliased(k) /\ ~Straddled(k)
                /\ ParentsHolding(snap, k) = {}
                /\ k \in DOMAIN snap.entries => ~IsMap(snap.entries[k].val)
                => read(snap, k, "section").val = node

\* The lists given, one behind the other, the last one first.
JoinedUp(lists) ==
    LET joined[m \in 0..Len(lists)] ==
          IF m = 0 THEN <<>> ELSE joined[m-1] \o lists[Len(lists) + 1 - m]
    IN  joined[Len(lists)]

\* Under MergeAppend, slices given by several layers are concatenated,
\* lowest precedence first, and none of their elements is lost
\* (resolveAppend and mergeValues).
AppendConcatenates ==
    Built /\ is.append => \A k \in Canonical(snap, DOMAIN snap.entries) :
        LET r == Eligible(k)
            n == Len(is.sources)
            of(i) == IF i = n + 1 THEN layerGet(flattenLayer(is.defaults), k, is)
                     ELSE sourceGet(is.sources[i], k, is)
            lists == [i \in 1..(n + 1) |-> IF i \in r THEN of(i).elems ELSE <<>>]
        IN  0 \notin r /\ (\A i \in r : of(i).kind = "slice") => snap.entries[k].val = SliceOf(JoinedUp(lists))

ReadModes == {"exact", "get", "section"}

\* An alias of a key that some layer sets reads as its canonical key does,
\* in every mode, also when keys below the canonical key or a map at a
\* parent of it win over its own value.
AliasReadsAsCanonical ==
    \A x \in DOMAIN snap.aliases \cap DOMAIN snap.entries : \A m \in ReadModes :
        read(snap, x, m) = read(snap, resolveAliasChain(x, snap.aliases), m)

\* The text of a path stands for the path: parsing gives it back; the
\* delimiters of a key part it into its parents and what lies below them,
\* unless it begins or ends with an empty segment; a view of a view is the
\* view under both prefixes; and the order that is computed from the segments
\* is that of the texts ("which ParsePath turns back into p", "orders a and b
\* as strings.Compare orders a.String() and b.String()").
PathsAndTexts ==
    "paths" \in DOMAIN is =>
        LET p == is.paths[1]
            q == is.paths[2]
            s == String(p)
            n == Len(p)
        IN  /\ ParsePath(s) = p
            /\ n > 0 /\ p[1] # <<>> /\ p[n] # <<>> =>
                  {<<SubSeq(s, 1, i - 1), SubSeq(s, i + 1, Len(s))>> : i \in topLevelDelims(s)}
                    = {<<String(SubSeq(p, 1, i)), String(SubSeq(p, i + 1, n))>> : i \in 1..(n - 1)}
            /\ n > 0 => fullKey(SubSeq(p, 1, 1), String(Tail(p))) = s
            /\ comparePaths(p, q) = Compare(s, String(q))
            /\ comparePaths(q, p) = -comparePaths(p, q)
-----------------------------------------------------------------------------
(* Saving the snapshot.                                                    *)
SaveAll == [only |-> <<>>, includeDefaults |-> TRUE, includeSecrets |-> TRUE]
Trusted == [secrets |-> {}, aliases |-> snap.aliases, redactor |-> FALSE,
            unscopedEnv |-> {}, consulted |-> {}]

\* Whatever the filters leave out, and whichever sub-tree is saved, every path
\* of the document is a template key, or within one, and the document never says
\* of a key what a read of that key does not: a key that loses to a filtered one
\* does not come back in its place (buildSavePayload filters before it looks for
\* shadowed keys).  It is of a key that the filters let through and that no map
\* at a parent overrides; or of any path, where nothing is filtered and the map
\* a read takes it from is not above the sub-tree that is saved.
SavedAgreesWithReads ==
    \A save \in Saves :
        LET only == save[1]
            policy == [Trusted EXCEPT !.unscopedEnv = save[2], !.consulted = save[3]]
            cfg == [SaveAll EXCEPT !.only = only]
            doc == generateTemplate(snap, cfg, policy)
            keys == TemplateKeys(snap, only)
            kept == saveCandidates(snap, cfg, policy)
            asRead(p) == /\ kept = keys /\ p \notin Unlisted /\ EntriesListed(p)
                         /\ \A a \in ParentsHolding(snap, p) : IsPrefix(only, a)
        IN  \A p \in DOMAIN doc :
            /\ \E k \in keys : only \o p = k \/ Below(k, only \o p)
            /\ /\ ~Aliased(only \o p)
               /\ only \o p \in kept \ parentMapWins(snap) \/ asRead(only \o p)
               => read(snap, only \o p, "exact").val = doc[p]

FileOf(doc) == MapContent(doc)
Restarted(doc) == buildSnapshot([is EXCEPT !.sources = <<"file">>,
    !.view = [file |-> FileOf(doc)], !.explicits = EmptyFn])
\* Asked for by name, a section of the document is a key of the file's layer,
\* and keys of the defaults below it lose to it.
SectionHides(doc, defaults) ==
    \E c \in defaults \cup {Chain(x) : x \in DOMAIN is.aliases} :
        (\E p \in DOMAIN doc : Below(c, p)) /\ (\E d \in defaults : Below(c, d))
LosesTo(doc, k) == \E p \in DOMAIN doc : Related(p, k)

\* A process that starts from the saved document and the same defaults, in
\* place of the Set values and the sources, has the configuration that was
\* saved, though Save leaves out the keys only a default gives.  The file is a
\* source that answers its sections as maps and enumerates no empty map, which
\* is why four things do not come back (MapSource.Get and leafPaths):
\*   what an alias at or above a saved key makes of the key in the document,
\*     under its own name and the canonical one's;
\*   an empty map that no default asks for by its name;
\*   a default below a section that is asked for by its name, as a default or
\*     as the canonical key of an alias: the section hides it;
\*   a default that lost to a key which is not in the document itself.
\* Pins are no part of a document, and MergeAppend would add the defaults to
\* themselves.
SaveRestores ==
    LET doc == buildSavePayload(snap, [SaveAll EXCEPT !.includeDefaults = FALSE], Trusted)
    IN  /\ Built /\ ~is.append /\ is.pins = EmptyFn
        /\ \A p \in DOMAIN doc : ~Aliased(p)
        /\ \A p \in DOMAIN doc : doc[p] = EmptyMap => p \in DOMAIN is.defaults
        /\ ~SectionHides(doc, DOMAIN flattenLayer(is.defaults))
        /\ \A k \in shadowedKeys(snap, Canonical(snap, snap.listed)) :
               layerGet(flattenLayer(is.defaults), k, is) # Absent => LosesTo(doc, k)
        => AsMap(Restarted(doc)) = AsMap(snap)

\* The map of a key that is not secret holds v as the entry that k would be.
HeldByMap(marked, k, v) ==
    \E j \in snap.listed :
        /\ Below(j, k) /\ ~IsSecretKey(marked, snap.aliases, j)
        /\ IsMap(snap.entries[j].val)
        /\ Rest(k, j) \in DOMAIN snap.entries[j].val.at /\ snap.entries[j].val.at[Rest(k, j)] = v

\* Nothing a document holds at a key marked secret, below one, or under a
\* name that aliases one, is in the clear unless the caller asked for it;
\* stripping the prefix does not unmark a key (savePolicyLocked and
\* buildSavePayload).  Not so what a map holds that is itself the value of a
\* key: the code looks at keys, and writes the entry of such a map in the
\* clear although its path is marked (where registry_save.go promises that
\* "Secret-marked keys are redacted").
SecretsWithheld ==
    \A m \in Markings :
        LET marked == m[1]
            only == m[2]
            policy == [Trusted EXCEPT !.secrets = marked, !.redactor = m[3]]
            doc == buildSavePayload(snap, [SaveAll EXCEPT !.only = only, !.includeSecrets = FALSE], policy)
        IN  \A p \in DOMAIN doc :
               IsSecretKey(marked, snap.aliases, only \o p) =>
                   doc[p] = Redacted \/ HeldByMap(marked, only \o p, doc[p])
=============================================================================

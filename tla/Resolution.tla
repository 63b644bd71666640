----------------------------- MODULE Resolution -----------------------------
(***************************************************************************)
(* How a snapshot is resolved from the layers of a registry, and how it is *)
(* read (snapshot.go, precedence.go, alias.go).                            *)
(*                                                                         *)
(* A key is a path: a non-empty sequence of segments.  A value is a        *)
(* record: a scalar, a null, a slice, or a map, which is held by its       *)
(* leaves (the relative path of every entry that is not itself a non-empty *)
(* map).  Absent is Go's "not found".                                      *)
(***************************************************************************)
EXTENDS Integers, Sequences, FiniteSets, SequencesExt

CONSTANTS
    MaxAliasDepth,      \* hops an alias chain is followed for (32 in alias.go)
    KeyLess(_, _),      \* string order of keys
    NativeKey(_, _)     \* NativeKey(s, k): the name source s stores key k under

ASSUME ResolutionAssumption == MaxAliasDepth \in Nat \ {0}

srcExplicit == "explicit"
srcDefault == "default"
isReservedSourceName(name) == name \in {srcExplicit, srcDefault}
-----------------------------------------------------------------------------
(* Values.                                                                 *)
Absent == [kind |-> "absent"]
Null == [kind |-> "null"]
Scalar(x) == [kind |-> "scalar", v |-> x]
SliceOf(xs) == [kind |-> "slice", elems |-> xs]
MapOf(f) == [kind |-> "map", at |-> f]
EmptyFn == [x \in {} |-> x]
EmptyMap == MapOf(EmptyFn)

IsMap(v) == v.kind = "map"
isNonEmptyMap(v) == IsMap(v) /\ DOMAIN v.at # {}

Below(k, p) == IsStrictPrefix(k, p)              \* p lies below k
Related(k, p) == IsPrefix(k, p) \/ Below(p, k)   \* equal, or one below the other
Rest(p, k) == SubSeq(p, Len(k) + 1, Len(p))      \* p relative to its prefix k

\* The part of the leaf function f below r, relative to r.
Under(f, r) == [t \in {Rest(q, r) : q \in {p \in DOMAIN f : Below(r, p)}} |-> f[r \o t]]

entryIn(m, r) ==
    IF r \in DOMAIN m.at THEN m.at[r]
    ELSE IF DOMAIN Under(m.at, r) = {} THEN Absent
    ELSE MapOf(Under(m.at, r))

\* The leaves a value stored at key k contributes to a tree.
LeavesAt(k, v) == IF isNonEmptyMap(v) THEN {k \o r : r \in DOMAIN v.at} ELSE {k}
LeafOf(k, v, p) == IF p = k THEN v ELSE v.at[Rest(p, k)]

\* Mutant: the higher-precedence slice comes first.
MergeLeafHighFirst(lo, hi) ==
    IF lo.kind = "slice" /\ hi.kind = "slice" THEN SliceOf(hi.elems \o lo.elems) ELSE hi

\* hi has the higher precedence.  Slices are concatenated, maps merged
\* entry by entry, anything else is shadowed.
MergeLeaf(lo, hi) ==
    IF lo.kind = "slice" /\ hi.kind = "slice" THEN SliceOf(lo.elems \o hi.elems) ELSE hi
mergeValues(lo, hi) ==
    IF ~(IsMap(lo) /\ IsMap(hi)) THEN MergeLeaf(lo, hi)
    ELSE LET keptLo == {r \in DOMAIN lo.at : \A h \in DOMAIN hi.at :
                          Related(r, h) => Below(h, r) /\ IsMap(hi.at[h])}
             keptHi == {h \in DOMAIN hi.at :
                          ~(IsMap(hi.at[h]) /\ \E r \in keptLo : Below(h, r))}
         IN  MapOf([p \in keptLo \cup keptHi |->
                      IF p \in keptLo THEN lo.at[p]
                      ELSE IF p \in DOMAIN lo.at THEN MergeLeaf(lo.at[p], hi.at[p])
                      ELSE hi.at[p]])
-----------------------------------------------------------------------------
(* Aliases.  aliases is a partial function from an alias to its target.    *)
AliasHops(start, aliases) ==
    LET hop[n \in 0..MaxAliasDepth] ==
          IF n = 0 THEN start
          ELSE IF hop[n-1] \in DOMAIN aliases THEN aliases[hop[n-1]] ELSE hop[n-1]
    IN  hop

resolveAliasChain(start, aliases) == AliasHops(start, aliases)[MaxAliasDepth]

\* Mutant of validateNoAliasCycle: only a direct self-reference is refused.
validateNoSelfAlias(alias, canonical, aliases) == alias # canonical

\* TRUE when alias -> canonical may be installed: the walk from canonical
\* leaves the alias graph within the depth budget without meeting alias.
validateNoAliasCycle(alias, canonical, existing) ==
    /\ alias # canonical
    /\ LET hop == AliasHops(canonical, existing)
       IN  \E h \in 0..(MaxAliasDepth - 1) :
              /\ hop[h] \notin DOMAIN existing
              /\ \A i \in 1..h : hop[i] # alias

invertAliases(canon, aliases) ==
    {a \in DOMAIN aliases : resolveAliasChain(a, aliases) = canon}
-----------------------------------------------------------------------------
(* One layer, one key: the canonical spelling first, then the aliases of   *)
(* the key in string order.                                                *)
Spelled(layer, k, aliases) ==
    LET others == invertAliases(k, aliases) \cap DOMAIN layer
    IN  IF k \in DOMAIN layer THEN layer[k]
        ELSE IF others = {} THEN Absent
        ELSE layer[CHOOSE a \in others : \A b \in others \ {a} : KeyLess(a, b)]

layerGet(layer, k, is) == Spelled(layer, k, is.aliases)

\* is.view[s] is what source s holds: .get answers a Get (an erring Get is
\* outside its domain), .keys is what Keys enumerates.
sourceGet(s, k, is) == Spelled(is.view[s].get, k, is.aliases)

\* An explicit or default layer with its non-empty maps expanded: an entry
\* at a deeper key wins over the same leaf reached through a shallower map.
flattenLayer(m) ==
    LET maps == {k \in DOMAIN m : isNonEmptyMap(m[k])}
        holders(p) == {k \in maps : Below(k, p) /\ Rest(p, k) \in DOMAIN m[k].at}
        deepest(p) == CHOOSE k \in holders(p) : \A j \in holders(p) : Len(j) <= Len(k)
    IN  [p \in (DOMAIN m \ maps) \cup UNION {LeavesAt(k, m[k]) : k \in maps} |->
            IF p \in DOMAIN m \ maps THEN m[p] ELSE LeafOf(deepest(p), m[deepest(p)], p)]
-----------------------------------------------------------------------------
(* resolveKey: explicit, then the pinned source, then the sources in       *)
(* order, then the default.  is.append is the MergeAppend option.          *)
NoEntry == [val |-> Absent, srcs |-> <<>>]
Entry(v, srcs) == IF v = Absent THEN NoEntry ELSE [val |-> v, srcs |-> srcs]

\* The elements of s that belong to S, in order (a loop that appends).
Picked(s, S) ==
    LET out[i \in 0..Len(s)] == IF i = 0 THEN <<>>
                                ELSE IF s[i] \in S THEN Append(out[i-1], s[i]) ELSE out[i-1]
    IN  out[Len(s)]

Contributors(k, is) == Picked(is.sources, {s \in ToSet(is.sources) : sourceGet(s, k, is) # Absent})

\* Mutant: the value is that of the last contributor, under the name of the first.
resolveShadowLastWins(k, is) ==
    LET who == Contributors(k, is)
    IN  IF who # <<>> THEN Entry(sourceGet(Last(who), k, is), who)
        ELSE Entry(layerGet(is.defaults, k, is), <<srcDefault>>)

ShadowOf(who, k, is) ==
    IF who # <<>> THEN Entry(sourceGet(Head(who), k, is), who)
    ELSE Entry(layerGet(is.defaults, k, is), <<srcDefault>>)
resolveShadow(k, is) == ShadowOf(Contributors(k, is), k, is)

\* Contributions, highest precedence first, folded from the lowest up.
Merged(vals) ==
    LET merged[i \in DOMAIN vals] == IF i = Len(vals) THEN vals[i] ELSE mergeValues(merged[i+1], vals[i])
    IN  merged[1]
Folded(vals, srcs) == IF vals = <<>> THEN NoEntry ELSE Entry(Merged(vals), srcs)

AppendOf(who, dflt, k, is) ==
    Folded([i \in DOMAIN who |-> sourceGet(who[i], k, is)] \o (IF dflt = Absent THEN <<>> ELSE <<dflt>>),
           who \o (IF dflt = Absent THEN <<>> ELSE <<srcDefault>>))

resolveAppend(k, is) == AppendOf(Contributors(k, is), layerGet(is.defaults, k, is), k, is)

Otherwise(first, second) == IF first # NoEntry THEN first ELSE second

resolveKey(k, is) ==
    Otherwise(Entry(layerGet(is.explicits, k, is), <<srcExplicit>>),
        IF k \in DOMAIN is.pins
        THEN IF is.pins[k] \in ToSet(is.sources)
             THEN Entry(sourceGet(is.pins[k], k, is), <<is.pins[k]>>)
             ELSE NoEntry
        ELSE IF is.append THEN resolveAppend(k, is)
        ELSE resolveShadow(k, is))
-----------------------------------------------------------------------------
(* buildSnapshot.                                                          *)
Enumerated(is) == UNION {is.view[s].keys : s \in ToSet(is.sources)}

collectCandidateKeys(is) ==
    DOMAIN is.explicits \cup DOMAIN is.defaults \cup DOMAIN is.aliases
        \cup is.bound \cup Enumerated(is)

boundOnly(k, is) ==
    /\ k \in is.bound \ Enumerated(is)
    /\ k \notin DOMAIN is.explicits \cup DOMAIN is.defaults \cup DOMAIN is.aliases

\* Source-enumerated keys naming the same native entry as a bound key.
duplicateSpellings(entries, is) ==
    {e \in Enumerated(is) \cap DOMAIN entries :
        \E b \in DOMAIN entries \ {e} :
            LET src == entries[b].srcs[1]
            IN  /\ boundOnly(b, is)
                /\ src \in ToSet(is.sources)
                /\ entries[e].srcs[1] = src
                /\ NativeKey(src, e) = NativeKey(src, b)}

\* Bound-only keys holding a map whose entries are listed below them.
hideBoundParents(entries, listed, is) ==
    {k \in listed : /\ IsMap(entries[k].val)
                    /\ boundOnly(k, is)
                    /\ \E j \in listed : Below(k, j)}

Resolved(is) ==
    [k \in {resolveAliasChain(c, is.aliases) : c \in collectCandidateKeys(is)} |-> resolveKey(k, is)]

\* The keys found, and beside them every alias of one of them.
StampAliases(entry, is) ==
    LET found == {k \in DOMAIN entry : entry[k].val # Absent}
        chain(k) == resolveAliasChain(k, is.aliases)
        stamped == {a \in DOMAIN is.aliases : chain(a) \in found}
    IN  [k \in found \cup stamped |-> IF k \in stamped THEN entry[chain(k)] ELSE entry[k]]

listedKeys(entries, is) ==
    LET spelled == DOMAIN entries \ duplicateSpellings(entries, is)
    IN  spelled \ hideBoundParents(entries, spelled, is)

SnapshotOf(entries, is) ==
    [entries |-> entries, listed |-> listedKeys(entries, is), names |-> is.sources, aliases |-> is.aliases]

ResolveAll(is) == SnapshotOf(StampAliases(Resolved(is), is), is)

buildSnapshot(inputs) ==
    ResolveAll([inputs EXCEPT !.explicits = flattenLayer(@), !.defaults = flattenLayer(@)])
-----------------------------------------------------------------------------
(* Reading a snapshot.                                                     *)
rankFor(s, name) ==
    IF name = srcExplicit THEN 0
    ELSE IF name \in ToSet(s.names)
         THEN CHOOSE i \in DOMAIN s.names : /\ s.names[i] = name
                                            /\ \A j \in DOMAIN s.names : s.names[j] = name => j <= i
    ELSE Len(s.names) + 1

rankOf(s, k) == rankFor(s, s.entries[k].srcs[1])

\* Mutant: the higher-precedence side of a conflict is the one dropped.
shadowedKeysInverted(s, K) ==
    {k \in K : \E j \in K \ {k} : Related(j, k) /\ rankOf(s, k) < rankOf(s, j)}

\* The keys of K that lose to a related key of a higher-precedence layer.
shadowedKeys(s, K) ==
    {k \in K : \E j \in K \ {k} : Related(j, k) /\ rankOf(s, j) < rankOf(s, k)}

\* The keys kept written into one tree with setNested, parents first: a key
\* below overwrites what its parent wrote there.
TreeOf(s, kept) ==
    LET writer(k, p) == \A j \in kept : Below(k, j) => ~Related(j, p)
        leaves == [k \in kept |-> {p \in LeavesAt(k, s.entries[k].val) : writer(k, p)}]
        by(p) == CHOOSE k \in kept : p \in leaves[k]
    IN  [p \in UNION {leaves[k] : k \in kept} |-> LeafOf(by(p), s.entries[by(p)].val, p)]

Tree(s, K) == TreeOf(s, K \ shadowedKeys(s, K))

Canonical(s, K) == K \ DOMAIN s.aliases

AsMap(s) == MapOf(Tree(s, Canonical(s, s.listed)))

\* Mutant: keys below of the same layer no longer win.
overriddenParentsStrict(s) ==
    {a \in Canonical(s, DOMAIN s.entries) : \E k \in Canonical(s, s.listed) :
        Below(a, k) /\ rankOf(s, k) < rankOf(s, a)}

\* Keys whose own value yields, on a map read, to the keys below them.
overriddenParents(s) ==
    {a \in Canonical(s, DOMAIN s.entries) : \E k \in Canonical(s, s.listed) :
        /\ Below(a, k)
        /\ \/ rankOf(s, k) < rankOf(s, a)
           \/ rankOf(s, k) = rankOf(s, a) /\ ~IsMap(s.entries[a].val)}

\* The parents of k whose map has an entry for k.
ParentsHolding(s, k) ==
    {a \in DOMAIN s.entries : /\ Below(a, k)
                              /\ IsMap(s.entries[a].val)
                              /\ entryIn(s.entries[a].val, Rest(k, a)) # Absent}

\* Keys that yield to an entry for them in a higher layer's map at a parent.
parentMapWins(s) ==
    {k \in Canonical(s, DOMAIN s.entries) :
        \E a \in ParentsHolding(s, k) : rankOf(s, a) < rankOf(s, k)}

\* A read returns the value and the name of the layer it comes from.
NotFound == [val |-> Absent, src |-> ""]

bestParent(s, holders) ==
    CHOOSE a \in holders : \A b \in holders \ {a} :
        \/ rankOf(s, a) < rankOf(s, b)
        \/ rankOf(s, a) = rankOf(s, b) /\ Len(b) < Len(a)

InParent(s, k, a) == [val |-> entryIn(s.entries[a].val, Rest(k, a)), src |-> s.entries[a].srcs[1]]

lookupInParent(s, k) ==
    LET holders == ParentsHolding(s, k)
    IN  IF holders = {} THEN NotFound ELSE InParent(s, k, bestParent(s, holders))

keysBelow(s, K, k) == {j \in Canonical(s, K) : Below(k, j)}

SubtreeOf(s, k, kept) ==
    LET best == CHOOSE j \in kept : \A i \in kept : rankOf(s, j) <= rankOf(s, i)
    IN  [val |-> MapOf(Under(TreeOf(s, kept), k)), src |-> s.entries[best].srcs[1]]

SubtreeKeys(s, k) ==
    IF keysBelow(s, s.listed, k) # {} THEN keysBelow(s, s.listed, k)
    ELSE keysBelow(s, DOMAIN s.entries, k)

lookupSubtree(s, k) ==
    LET keys == SubtreeKeys(s, k)
    IN  IF keys = {} THEN NotFound ELSE SubtreeOf(s, k, keys \ shadowedKeys(s, keys))

Own(s, k) == [val |-> s.entries[k].val, src |-> s.entries[k].srcs[1]]

OrElse(first, second) == IF first # NotFound THEN first ELSE second

\* Mutant: an alias is not replaced by its canonical key.
readUnderAlias(s, k, mode) ==
    LET firm == mode = "exact" \/ (mode = "get" /\ s.entries[k].val # Null)
    IN  IF k \notin DOMAIN s.entries THEN OrElse(lookupInParent(s, k), lookupSubtree(s, k))
        ELSE IF k \in parentMapWins(s) THEN lookupInParent(s, k)
        ELSE IF firm \/ k \notin overriddenParents(s) THEN Own(s, k)
        ELSE OrElse(lookupSubtree(s, k), Own(s, k))

\* mode is "exact", "get" or "section".
read(s, k, mode) ==
    LET canon == IF k \in DOMAIN s.aliases THEN resolveAliasChain(k, s.aliases) ELSE k
        firm == mode = "exact" \/ (mode = "get" /\ s.entries[k].val # Null)
    IN  IF k \notin DOMAIN s.entries THEN OrElse(lookupInParent(s, k), lookupSubtree(s, k))
        ELSE IF canon \in parentMapWins(s) THEN lookupInParent(s, canon)
        ELSE IF firm \/ canon \notin overriddenParents(s) THEN Own(s, k)
        ELSE OrElse(lookupSubtree(s, canon), Own(s, k))

answers(s, k) == read(s, k, "get") # NotFound

\* The listed keys whose value differs between two snapshots.
KeyValues(s) == [k \in Canonical(s, s.listed) |-> s.entries[k].val]
diffSnapshots(prev, cur) ==
    LET p == KeyValues(prev)
        c == KeyValues(cur)
    IN  {k \in DOMAIN p \cup DOMAIN c :
            ~(k \in DOMAIN p /\ k \in DOMAIN c /\ p[k] = c[k])}
-----------------------------------------------------------------------------
(* secretMatcher: a key is secret when it, its canonical key, or a parent  *)
(* of either is marked, directly or through an alias that is marked.       *)
Marked(secrets, aliases, k) ==
    \/ k \in secrets
    \/ \E a \in DOMAIN aliases : a \in secrets /\ resolveAliasChain(aliases[a], aliases) = k
MatchesSecret(secrets, aliases, k) ==
    \E p \in {SubSeq(k, 1, n) : n \in 1..Len(k)} : Marked(secrets, aliases, p)
IsSecretKey(secrets, aliases, k) ==
    \/ MatchesSecret(secrets, aliases, k)
    \/ MatchesSecret(secrets, aliases, resolveAliasChain(k, aliases))
=============================================================================

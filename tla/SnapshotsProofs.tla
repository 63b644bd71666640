--------------------------- MODULE SnapshotsProofs ---------------------------
(***************************************************************************)
(* Proofs about the snapshot built from any layers: the layer that wins a  *)
(* key, what is appended, what an alias reads as, how the tree, the        *)
(* sections and a saved document agree with reads, what is withheld.       *)
(***************************************************************************)
EXTENDS Snapshots, PathTextProofs

(* Following aliases.                                                      *)

\* What resolveAliasChain visits.
LEMMA ChainFollows ==
  ASSUME NEW k, NEW aliases
  PROVE  Follows(AliasHops(k, aliases), aliases, k, MaxAliasDepth)
<1>1. MaxAliasDepth \in Nat
  BY ResolutionAssumption
<1> QED BY <1>1, FollowExists, Zenon DEF AliasHops

\* A key that is no alias stands for itself.
LEMMA ChainOutside ==
  ASSUME NEW aliases, NEW k, k \notin DOMAIN aliases
  PROVE  resolveAliasChain(k, aliases) = k
<1> DEFINE n == MaxAliasDepth
           hop == AliasHops(k, aliases)
           Bad == {i \in 0..n : hop[i] # k}
<1>0. n \in Nat
  BY ResolutionAssumption
<1>1. Follows(hop, aliases, k, n)
  BY ChainFollows
<1>2. Bad = {}
  <2>1. SUFFICES ASSUME Bad # {} PROVE FALSE
    OBVIOUS
  <2>2. PICK i \in Bad : \A j \in Bad : i <= j
    <3>1. Bad \subseteq Nat
      OBVIOUS
    <3> HIDE DEF Bad
    <3> QED BY <2>1, <3>1, LeastNat
  <2> HIDE DEF hop
  <2>3. i # 0
    BY <1>1, <2>2 DEF Follows
  <2>4. i \in 1..n /\ i - 1 \in 0..n /\ ~(i <= i - 1)
    BY <1>0, <2>2, <2>3
  <2>5. hop[i - 1] = k
    BY <2>2, <2>4
  <2> QED BY <1>1, <2>2, <2>4, <2>5 DEF Follows
<1>3. n \in 0..n
  BY <1>0
<1> QED BY <1>2, <1>3 DEF resolveAliasChain

\* Where every alias leads within a set, every chain that starts there ends there.
LEMMA ChainWithin ==
  ASSUME NEW P, NEW aliases, \A x \in DOMAIN aliases : aliases[x] \in P, NEW k \in P
  PROVE  resolveAliasChain(k, aliases) \in P
<1> DEFINE n == MaxAliasDepth
           hop == AliasHops(k, aliases)
           Bad == {i \in 0..n : hop[i] \notin P}
<1>0. n \in Nat
  BY ResolutionAssumption
<1>1. Follows(hop, aliases, k, n)
  BY ChainFollows
<1>2. Bad = {}
  <2>1. SUFFICES ASSUME Bad # {} PROVE FALSE
    OBVIOUS
  <2>2. PICK i \in Bad : \A j \in Bad : i <= j
    <3>1. Bad \subseteq Nat
      OBVIOUS
    <3> HIDE DEF Bad
    <3> QED BY <2>1, <3>1, LeastNat
  <2> HIDE DEF hop
  <2>3. i # 0
    BY <1>1, <2>2 DEF Follows
  <2>4. i \in 1..n /\ i - 1 \in 0..n /\ ~(i <= i - 1)
    BY <1>0, <2>2, <2>3
  <2>5. hop[i - 1] \in P
    BY <2>2, <2>4
  <2>6. hop[i] = IF hop[i - 1] \in DOMAIN aliases THEN aliases[hop[i - 1]] ELSE hop[i - 1]
    BY <1>1, <2>4 DEF Follows
  <2> QED BY <2>2, <2>5, <2>6
<1>3. n \in 0..n
  BY <1>0
<1> QED BY <1>2, <1>3 DEF resolveAliasChain

\* No chain of aliases outruns the depth budget.
ChainsEnd(aliases) == \A x \in DOMAIN aliases : resolveAliasChain(x, aliases) \notin DOMAIN aliases

\* As many aliases as the depth budget allows, or fewer, without a cycle:
\* every chain ends, whatever the aliases are (maxAliasDepth is 32).
LEMMA FewAliasesEnd ==
  ASSUME NEW aliases, IsFiniteSet(DOMAIN aliases), NoAliasCycle(aliases),
         Cardinality(DOMAIN aliases) <= MaxAliasDepth
  PROVE  ChainsEnd(aliases)
<1> DEFINE n == MaxAliasDepth
           c == Cardinality(DOMAIN aliases)
<1>0. n \in Nat /\ c \in Nat /\ c <= n
  BY ResolutionAssumption, FS_CardinalityType
<1> SUFFICES ASSUME NEW x \in DOMAIN aliases, AliasHops(x, aliases)[n] \in DOMAIN aliases PROVE FALSE
  BY DEF ChainsEnd, resolveAliasChain
<1> DEFINE hop == AliasHops(x, aliases)
<1>1. Follows(hop, aliases, x, n)
  BY ChainFollows
<1> HIDE DEF hop, n
<1>2. \A i \in 0..n : hop[i] \in DOMAIN aliases
  BY <1>0, <1>1, WalkStays DEF n, hop
<1>3. Follows(hop, aliases, x, c)
  <2>1. \A i \in 1..c : i \in 1..n
    BY <1>0
  <2> QED BY <1>1, <2>1 DEF Follows
<1>4. hop[c] \notin DOMAIN aliases
  BY <1>3, WalkLeaves
<1> QED BY <1>0, <1>2, <1>4
-----------------------------------------------------------------------------
(* Spellings of a key in a layer.                                          *)

\* Of some aliases in an order, one comes first.
LEMMA LeastKey ==
  ASSUME NEW K, K # {}, IsFiniteSet(K), Ordered(K)
  PROVE  \E x \in K : \A y \in K \ {x} : KeyLess(x, y)
<1> DEFINE L(x) == {y \in K : KeyLess(y, x)}
           T == {Cardinality(L(x)) : x \in K}
<1>1. \A x \in K : IsFiniteSet(L(x)) /\ Cardinality(L(x)) \in Nat
  <2> TAKE x \in K
  <2>1. L(x) \subseteq K
    OBVIOUS
  <2> HIDE DEF L
  <2> QED BY <2>1, FS_Subset, FS_CardinalityType
<1>2. PICK x \in K : \A y \in K : Cardinality(L(x)) <= Cardinality(L(y))
  <2> HIDE DEF L
  <2>1. T \subseteq Nat /\ T # {}
    BY <1>1
  <2>2. PICK i \in T : \A j \in T : i <= j
    <3> HIDE DEF T
    <3> QED BY <2>1, LeastNat
  <2> QED BY <2>2
<1>3. L(x) = {}
  <2> SUFFICES ASSUME NEW y \in L(x) PROVE FALSE
    OBVIOUS
  <2>1. y \in K /\ KeyLess(y, x) /\ y \notin L(y)
    BY DEF Ordered
  <2>2. L(y) \subseteq L(x)
    <3> SUFFICES ASSUME NEW z \in K, KeyLess(z, y) PROVE KeyLess(z, x)
      OBVIOUS
    <3> QED BY <2>1 DEF Ordered
  <2>3. y \in L(x)
    OBVIOUS
  <2> HIDE DEF L
  <2>4. L(y) # L(x)
    BY <2>1, <2>3
  <2>5. Cardinality(L(y)) < Cardinality(L(x))
    BY <1>1, <2>1, <2>2, <2>4, FS_Subset
  <2> QED BY <1>1, <1>2, <2>1, <2>5
<1>4. \A y \in K \ {x} : KeyLess(x, y)
  BY <1>3 DEF Ordered
<1> QED BY <1>4

\* The names a key goes by: its own and those of its aliases.
Names(k, aliases) == {k} \cup {x \in DOMAIN aliases : resolveAliasChain(x, aliases) = k}

\* p is the name of key k that counts in a layer.
Counts(p, k, layer, aliases) ==
    LET held == Names(k, aliases) \cap DOMAIN layer
    IN  p \in held /\ \A q \in held \ {p} : p = k \/ (q # k /\ KeyLess(p, q))

\* A layer supplies a key exactly when it holds it under one of its names,
\* and what it supplies is its value under the name that counts (layerGet,
\* sourceGet).
LEMMA SpelledFound ==
  ASSUME NEW k, NEW aliases, NEW layer, IsFiniteSet(DOMAIN aliases), Ordered(DOMAIN aliases), IsLayer(layer)
  PROVE  /\ Spelled(layer, k, aliases) # Absent <=> \E p \in Names(k, aliases) : p \in DOMAIN layer
         /\ Spelled(layer, k, aliases) # Absent =>
              /\ IsValue(Spelled(layer, k, aliases))
              /\ \E p : Counts(p, k, layer, aliases) /\ Spelled(layer, k, aliases) = layer[p]
<1> DEFINE others == invertAliases(k, aliases) \cap DOMAIN layer
           first == CHOOSE a \in others : \A b \in others \ {a} : KeyLess(a, b)
<1>1. \A p \in DOMAIN layer : IsValue(layer[p]) /\ layer[p] # Absent
  BY DEF IsLayer, IsValue, Absent
<1>2. Names(k, aliases) = {k} \cup invertAliases(k, aliases)
  BY DEF Names, invertAliases
<1>3. CASE k \in DOMAIN layer
  <2>1. Spelled(layer, k, aliases) = layer[k]
    BY <1>3 DEF Spelled
  <2>2. Counts(k, k, layer, aliases)
    BY <1>2, <1>3 DEF Counts
  <2> QED BY <1>1, <1>2, <1>3, <2>1, <2>2
<1>4. CASE k \notin DOMAIN layer /\ others = {}
  <2>1. Spelled(layer, k, aliases) = Absent
    BY <1>4 DEF Spelled
  <2> QED BY <1>2, <1>4, <2>1
<1>5. CASE k \notin DOMAIN layer /\ others # {}
  <2>1. Spelled(layer, k, aliases) = layer[first]
    BY <1>5 DEF Spelled
  <2>2. others \subseteq DOMAIN aliases
    BY DEF invertAliases
  <2>3. IsFiniteSet(others) /\ Ordered(others)
    <3> HIDE DEF others
    <3> QED BY <2>2, FS_Subset DEF Ordered
  <2>4. first \in others /\ \A y \in others \ {first} : KeyLess(first, y)
    <3> HIDE DEF others
    <3>1. \E x \in others : \A y \in others \ {x} : KeyLess(x, y)
      BY <1>5, <2>3, LeastKey
    <3> QED BY <3>1
  <2>5. Names(k, aliases) \cap DOMAIN layer = others
    BY <1>2, <1>5
  <2> HIDE DEF first, others
  <2>6. Counts(first, k, layer, aliases)
    <3>1. \A q \in others : q # k
      BY <1>5, <2>5 DEF others
    <3> QED BY <2>4, <2>5, <3>1 DEF Counts
  <2>7. first \in Names(k, aliases) /\ first \in DOMAIN layer
    BY <2>4, <2>5
  <2> QED BY <1>1, <2>1, <2>6, <2>7
<1> QED BY <1>3, <1>4, <1>5
-----------------------------------------------------------------------------
(* Paths, and the leaves of maps.                                          *)

\* A path with something behind it lies above the longer one, and what is
\* left of that one is what was put behind.
LEMMA BelowConcat ==
  ASSUME NEW k, NEW r, IsPath(k), IsPath(r), r # <<>>
  PROVE  IsPath(k \o r) /\ k \o r # k /\ Below(k, k \o r) /\ Rest(k \o r, k) = r /\ Len(k) < Len(k \o r)
<1> DEFINE q == k \o r
<1>0. k \in Seq(Segment) /\ r \in Seq(Segment) /\ Len(k) \in Nat /\ Len(r) \in Nat /\ Len(r) # 0
  BY DEF IsPath
<1>1. /\ q \in Seq(Segment) /\ Len(q) = Len(k) + Len(r)
      /\ \A i \in 1..(Len(k) + Len(r)) : q[i] = IF i <= Len(k) THEN k[i] ELSE r[i - Len(k)]
  BY <1>0, ConcatProperties
<1> HIDE DEF q
<1>2. SubSeq(q, 1, Len(k)) = k
  <2>1. \A i \in 1..Len(k) : i \in 1..Len(q) /\ q[i] = k[i] /\ 1 + i - 1 = i
    BY <1>0, <1>1
  <2>2. /\ SubSeq(q, 1, Len(k)) \in Seq(Segment)
        /\ Len(SubSeq(q, 1, Len(k))) = IF 1 <= Len(k) THEN Len(k) - 1 + 1 ELSE 0
        /\ \A i \in 1..(Len(k) - 1 + 1) : SubSeq(q, 1, Len(k))[i] = q[1 + i - 1]
    BY <1>0, <1>1, <2>1, SubSeqProperties
  <2>3. Len(SubSeq(q, 1, Len(k))) = Len(k) /\ \A i \in 1..Len(k) : SubSeq(q, 1, Len(k))[i] = k[i]
    BY <1>0, <2>1, <2>2
  <2> QED BY <1>0, <2>2, <2>3, SeqEqual
<1>3. SubSeq(q, Len(k) + 1, Len(q)) = r
  <2> DEFINE m == Len(k) + 1
             n == Len(q)
  <2>0. m \in Int /\ n \in Int /\ n - m + 1 = Len(r) /\ m <= n
    BY <1>0, <1>1
  <2>1. \A i \in 1..Len(r) : m + i - 1 \in 1..Len(q) /\ q[m + i - 1] = r[i]
    BY <1>0, <1>1
  <2>2. \A i \in m..n : q[i] \in Segment
    BY <1>0, <1>1
  <2> HIDE DEF m, n
  <2>3. /\ SubSeq(q, m, n) \in Seq(Segment)
        /\ Len(SubSeq(q, m, n)) = IF m <= n THEN n - m + 1 ELSE 0
        /\ \A i \in 1..(n - m + 1) : SubSeq(q, m, n)[i] = q[m + i - 1]
    BY <2>0, <2>2, SubSeqProperties
  <2>4. Len(SubSeq(q, m, n)) = Len(r) /\ \A i \in 1..Len(r) : SubSeq(q, m, n)[i] = r[i]
    BY <2>0, <2>1, <2>3
  <2>5. SubSeq(q, m, n) = r
    BY <1>0, <2>3, <2>4, SeqEqual
  <2> QED BY <2>5 DEF m, n
<1>4. Len(k) < Len(q) /\ q # k
  BY <1>0, <1>1
<1>5. IsPrefix(k, q)
  <2>1. SubSeq(k, 1, Len(k)) = k
    BY <1>0, SubSeqFull
  <2>2. Len(k) <= Len(q)
    BY <1>0, <1>1
  <2> QED BY <1>2, <2>1, <2>2 DEF IsPrefix
<1> QED BY <1>1, <1>3, <1>4, <1>5 DEF q, Below, IsStrictPrefix, Rest, IsPath

\* Of paths no longer than some length, one is longest.
LEMMA LongestPath ==
  ASSUME NEW H, H # {}, NEW n \in Nat, \A k \in H : IsPath(k) /\ Len(k) <= n
  PROVE  \E k \in H : \A j \in H : Len(j) <= Len(k)
<1> DEFINE T == {n - Len(k) : k \in H}
<1>1. \A k \in H : Len(k) \in Nat /\ n - Len(k) \in Nat
  BY DEF IsPath
<1>2. T \subseteq Nat /\ T # {}
  BY <1>1
<1>3. PICK i \in T : \A j \in T : i <= j
  <2> HIDE DEF T
  <2> QED BY <1>2, LeastNat
<1>4. PICK k \in H : i = n - Len(k)
  BY <1>3
<1>5. \A j \in H : n - Len(k) <= n - Len(j)
  BY <1>3, <1>4
<1>6. \A j \in H : Len(j) <= Len(k)
  BY <1>1, <1>5
<1> QED BY <1>6

\* An explicit or default layer with its maps expanded holds leaves only,
\* whichever map each comes from (flattenLayer).
LEMMA FlatIsLayer ==
  ASSUME NEW m, IsLayer(m)
  PROVE  IsLayer(flattenLayer(m))
<1> DEFINE maps == {k \in DOMAIN m : isNonEmptyMap(m[k])}
           holders(p) == {k \in maps : Below(k, p) /\ Rest(p, k) \in DOMAIN m[k].at}
           deepest(p) == CHOOSE k \in holders(p) : \A j \in holders(p) : Len(j) <= Len(k)
           keys == (DOMAIN m \ maps) \cup UNION {LeavesAt(k, m[k]) : k \in maps}
           leaf(p) == IF p \in DOMAIN m \ maps THEN m[p] ELSE LeafOf(deepest(p), m[deepest(p)], p)
<1>0. flattenLayer(m) = [p \in keys |-> leaf(p)]
  BY Zenon DEF flattenLayer
<1>1. ASSUME NEW p \in keys PROVE IsPath(p) /\ IsValue(leaf(p))
  <2>1. CASE p \in DOMAIN m \ maps
    BY <2>1 DEF IsLayer
  <2>2. CASE p \notin DOMAIN m \ maps
    <3>1. PICK k \in maps : p \in LeavesAt(k, m[k])
      BY <2>2
    <3>2. PICK r \in DOMAIN m[k].at : p = k \o r
      BY <3>1 DEF LeavesAt
    <3>3. \A j \in maps : IsPath(j) /\ \A t \in DOMAIN m[j].at : IsPath(t) /\ t # <<>> /\ IsLeaf(m[j].at[t])
      BY DEF IsLayer, IsValue, isNonEmptyMap
    <3>4. IsPath(p) /\ k \in holders(p)
      BY <3>2, <3>3, BelowConcat
    <3>5. \A j \in holders(p) : IsPath(j) /\ Len(j) <= Len(p)
      BY <3>3 DEF Below, IsStrictPrefix, IsPrefix
    <3>6. Len(p) \in Nat
      BY <3>4 DEF IsPath
    <3>7. deepest(p) \in holders(p)
      <4> DEFINE H == holders(p)
      <4>1. H # {} /\ \A j \in H : IsPath(j) /\ Len(j) <= Len(p)
        BY <3>4, <3>5
      <4> HIDE DEF H
      <4>2. \E x \in H : \A j \in H : Len(j) <= Len(x)
        BY <4>1, <3>6, LongestPath
      <4>3. (CHOOSE x \in H : \A j \in H : Len(j) <= Len(x)) \in H
        BY <4>2
      <4> QED BY <4>3 DEF H
    <3>8. p # deepest(p)
      BY <3>7 DEF Below, IsStrictPrefix
    <3>9. leaf(p) = m[deepest(p)].at[Rest(p, deepest(p))]
      BY <2>2, <3>8 DEF LeafOf
    <3>10. IsLeaf(leaf(p))
      <4> HIDE DEF deepest, maps, leaf
      <4> QED BY <3>3, <3>7, <3>9
    <3> QED BY <3>4, <3>10 DEF IsLeaf, IsValue, isNonEmptyMap
  <2> QED BY <2>1, <2>2
<1> HIDE DEF keys, leaf
<1> QED BY <1>0, <1>1 DEF IsLayer

\* The layers a snapshot is resolved from, their maps expanded.
Flat(l) == [l EXCEPT !.explicits = flattenLayer(@), !.defaults = flattenLayer(@)]

\* They are layers too, and the sources are as they were (buildSnapshot).
LEMMA FlatIsLayering ==
  ASSUME NEW l, IsLayering(l)
  PROVE  /\ IsLayering(Flat(l))
         /\ Flat(l).explicits = flattenLayer(l.explicits) /\ Flat(l).defaults = flattenLayer(l.defaults)
         /\ \A f \in {"sources", "view", "aliases", "pins", "bound", "append"} : Flat(l)[f] = l[f]
<1>1. DOMAIN l = {"sources", "view", "explicits", "defaults", "aliases", "pins", "bound", "append"}
  BY DEF IsLayering
<1>2. /\ Flat(l).explicits = flattenLayer(l.explicits) /\ Flat(l).defaults = flattenLayer(l.defaults)
      /\ DOMAIN Flat(l) = DOMAIN l
      /\ \A f \in {"sources", "view", "aliases", "pins", "bound", "append"} : Flat(l)[f] = l[f]
  BY <1>1 DEF Flat
<1>3. /\ Flat(l).sources = l.sources /\ Flat(l).view = l.view /\ Flat(l).aliases = l.aliases
      /\ Flat(l).bound = l.bound
  BY <1>2
<1>4. IsLayer(Flat(l).explicits) /\ IsLayer(Flat(l).defaults)
  BY <1>2, FlatIsLayer DEF IsLayering
<1> DEFINE f == Flat(l)
<1> HIDE DEF f
<1>5. collectCandidateKeys(f) \subseteq DOMAIN f.explicits \cup DOMAIN f.defaults \cup collectCandidateKeys(l)
  BY <1>3 DEF collectCandidateKeys, Enumerated, f
<1>6. \A k \in collectCandidateKeys(f) : IsPath(k)
  BY <1>4, <1>5 DEF f, IsLayering, IsLayer
<1> QED BY <1>1, <1>2, <1>3, <1>4, <1>6 DEF IsLayering, f
-----------------------------------------------------------------------------
(* Loops over the sources.                                                 *)

\* The first of s that belongs to S, if any does.
FirstOf(s, S, i) == i \in 1..Len(s) /\ s[i] \in S /\ \A j \in 1..(i - 1) : s[j] \notin S

\* A loop that picks elements has picked, first, the first that qualifies.
LEMMA PickedFirst ==
  ASSUME NEW X, NEW s \in Seq(X), NEW S
  PROVE  \/ Picked(s, S) = <<>> /\ \A i \in 1..Len(s) : s[i] \notin S
         \/ Picked(s, S) # <<>> /\ \E i \in 1..Len(s) : FirstOf(s, S, i) /\ Picked(s, S)[1] = s[i]
<1> DEFINE n == Len(s)
<1>0. PICK out : Collects(out, X, s, S) /\ Picked(s, S) = out[n]
  BY PickedSteps
<1> DEFINE Good(k) == \/ out[k] = <<>> /\ \A i \in 1..k : s[i] \notin S
                      \/ out[k] # <<>> /\ \E i \in 1..k : FirstOf(s, S, i) /\ out[k][1] = s[i]
           Bad == {k \in 0..n : ~Good(k)}
<1>1. n \in Nat
  OBVIOUS
<1>2. Bad = {}
  <2>1. SUFFICES ASSUME Bad # {} PROVE FALSE
    OBVIOUS
  <2>2. PICK k \in Bad : \A j \in Bad : k <= j
    <3>1. Bad \subseteq Nat
      OBVIOUS
    <3> HIDE DEF Bad
    <3> QED BY <2>1, <3>1, LeastNat
  <2>3. k # 0
    BY <1>0, <2>2 DEF Collects
  <2>4. k \in 1..n /\ k - 1 \in 0..n /\ ~(k <= k - 1)
    BY <1>1, <2>2, <2>3
  <2>5. Good(k - 1)
    BY <2>2, <2>4
  <2>6. /\ out[k] = IF s[k] \in S THEN Append(out[k - 1], s[k]) ELSE out[k - 1]
        /\ out[k - 1] \in Seq(X) /\ s[k] \in X
    BY <1>0, <2>4 DEF Collects
  <2>7. \A i \in 1..k : i \in 1..(k - 1) \/ i = k
    BY <1>1, <2>4
  <2>8. \A i \in 1..(k - 1) : i \in 1..k
    BY <1>1, <2>4
  <2>9. CASE s[k] \notin S
    <3>1. Good(k)
      BY <2>5, <2>6, <2>7, <2>8, <2>9
    <3> QED BY <2>2, <3>1
  <2>10. CASE s[k] \in S /\ out[k - 1] = <<>>
    <3>1. \A i \in 1..(k - 1) : s[i] \notin S
      BY <2>5, <2>10
    <3>2. out[k] # <<>> /\ out[k][1] = s[k]
      BY <2>6, <2>10
    <3>3. FirstOf(s, S, k) /\ k \in 1..k
      BY <2>4, <2>10, <3>1 DEF FirstOf
    <3> QED BY <2>2, <3>2, <3>3
  <2>11. CASE s[k] \in S /\ out[k - 1] # <<>>
    <3>1. out[k] # <<>> /\ out[k][1] = out[k - 1][1]
      <4> DEFINE t == out[k - 1]
      <4>1. t \in Seq(X) /\ t # <<>> /\ out[k] = Append(t, s[k])
        BY <2>6, <2>11
      <4> HIDE DEF t
      <4>2. Len(t) \in Nat /\ Len(t) # 0
        BY <4>1, EmptySeq
      <4>3. Len(Append(t, s[k])) # 0 /\ Append(t, s[k])[1] = t[1]
        <5>1. 1 \in 1..Len(t)
          BY <4>2
        <5>2. \A e \in X : Len(Append(t, e)) = Len(t) + 1 /\ Append(t, e)[1] = t[1]
          BY <4>1, <5>1
        <5>3. s[k] \in X
          BY <2>6
        <5> QED BY <4>2, <5>2, <5>3
      <4>4. Append(t, s[k]) # <<>>
        BY <4>3, EmptySeq
      <4> QED BY <4>1, <4>3, <4>4 DEF t
    <3>2. PICK i \in 1..(k - 1) : FirstOf(s, S, i) /\ out[k - 1][1] = s[i]
      BY <2>5, <2>11
    <3> QED BY <2>2, <2>8, <3>1, <3>2
  <2> QED BY <2>9, <2>10, <2>11
<1>3. n \in 0..n /\ Good(n)
  BY <1>1, <1>2
<1> QED BY <1>0, <1>3

\* What a loop has picked so far is the beginning of what it picks.
LEMMA PickedSoFar ==
  ASSUME NEW X, NEW s \in Seq(X), NEW S, NEW out, Collects(out, X, s, S), NEW m \in 0..Len(s)
  PROVE  Len(out[m]) <= Len(out[Len(s)]) /\ \A i \in 1..Len(out[m]) : out[Len(s)][i] = out[m][i]
<1> DEFINE n == Len(s)
           Begins(t) == Len(out[t]) <= Len(out[n]) /\ \A i \in 1..Len(out[t]) : out[n][i] = out[t][i]
           B == {j \in 0..n : ~Begins(n - j)}
<1>1. n \in Nat /\ \A t \in 0..n : out[t] \in Seq(X) /\ Len(out[t]) \in Nat
  BY DEF Collects
<1>2. B = {}
  <2>1. SUFFICES ASSUME B # {} PROVE FALSE
    OBVIOUS
  <2>2. PICK j \in B : \A i \in B : j <= i
    <3>1. B \subseteq Nat
      OBVIOUS
    <3> HIDE DEF B
    <3> QED BY <2>1, <3>1, LeastNat
  <2>3. j # 0
    BY <1>1, <2>2
  <2> DEFINE t == n - j
  <2>4. j - 1 \in 0..n /\ ~(j <= j - 1) /\ n - (j - 1) = t + 1 /\ t \in 0..n /\ t + 1 \in 1..n /\ (t + 1) - 1 = t /\ t + 1 \in 0..n
    BY <1>1, <2>2, <2>3
  <2>5. Begins(t + 1)
    BY <2>2, <2>4
  <2> HIDE DEF t, n
  <2>6. out[t + 1] = IF s[t + 1] \in S THEN Append(out[t], s[t + 1]) ELSE out[t]
    BY <2>4 DEF Collects, n
  <2>7. s[t + 1] \in X
    BY <2>4 DEF n
  <2>8. Len(out[t]) <= Len(out[t + 1]) /\ \A i \in 1..Len(out[t]) : i \in 1..Len(out[t + 1]) /\ out[t + 1][i] = out[t][i]
    BY <1>1, <2>4, <2>6, <2>7
  <2>9. Begins(t)
    BY <1>1, <2>4, <2>5, <2>8
  <2> QED BY <2>2, <2>9 DEF t
<1>3. n - m \in 0..n /\ n - (n - m) = m
  BY <1>1
<1> QED BY <1>2, <1>3
-----------------------------------------------------------------------------
(* Merging contributions.                                                  *)

\* What resolveAppend has merged, from the i-th contribution down.
Merges(merged, vals) ==
    \A i \in DOMAIN vals :
        merged[i] = IF i = Len(vals) THEN vals[i] ELSE mergeValues(merged[i + 1], vals[i])

\* The recursive function that merges contributions, any number of them.
LEMMA MergedSteps ==
  ASSUME NEW n \in Nat, NEW vals, DOMAIN vals = 1..n, Len(vals) = n, n # 0
  PROVE  \E merged : Merges(merged, vals) /\ Merged(vals) = merged[1]
<1> DEFINE Rec(f, k) == [i \in k..n |-> IF i = Len(vals) THEN vals[i] ELSE mergeValues(f[i + 1], vals[i])]
           Has(k) == \E f : f = Rec(f, k)
           Bad == {j \in 0..(n - 1) : ~Has(n - j)}
<1>1. Bad = {}
  <2>1. SUFFICES ASSUME Bad # {} PROVE FALSE
    OBVIOUS
  <2>2. PICK j \in Bad : \A m \in Bad : j <= m
    <3>1. Bad \subseteq Nat
      OBVIOUS
    <3> HIDE DEF Bad
    <3> QED BY <2>1, <3>1, LeastNat
  <2>3. j # 0
    <3> DEFINE g == [i \in n..n |-> vals[i]]
    <3>1. g = Rec(g, n)
      OBVIOUS
    <3> HIDE DEF g
    <3>2. Has(n)
      BY <3>1, Zenon
    <3>3. n - 0 = n
      OBVIOUS
    <3> HIDE DEF Has
    <3> QED BY <2>2, <3>2, <3>3
  <2> DEFINE k == n - j
  <2>4. j - 1 \in 0..(n - 1) /\ ~(j <= j - 1) /\ n - (j - 1) = k + 1 /\ k \in 1..(n - 1)
    BY <2>2, <2>3
  <2>5. Has(k + 1)
    <3> HIDE DEF Has
    <3> QED BY <2>2, <2>4
  <2>6. PICK g : g = Rec(g, k + 1)
    BY <2>5
  <2> HIDE DEF k
  <2> DEFINE h == [i \in k..n |-> IF i = k THEN mergeValues(g[k + 1], vals[k]) ELSE g[i]]
  <2>7. \A i \in (k + 1)..n : i \in k..n /\ i # k /\ h[i] = g[i]
    BY <2>4
  <2>8. k + 1 \in (k + 1)..n /\ k \in k..n /\ k # n
    BY <2>4
  <2>9. ASSUME NEW i \in k..n PROVE h[i] = Rec(h, k)[i]
    <3>1. CASE i = k
      BY <2>7, <2>8, <3>1
    <3>2. CASE i # k
      <4>1. i \in (k + 1)..n /\ (i # n => i + 1 \in (k + 1)..n)
        BY <2>4, <3>2
      <4>2. g[i] = IF i = Len(vals) THEN vals[i] ELSE mergeValues(g[i + 1], vals[i])
        BY <2>6, <4>1
      <4>3. h[i] = g[i] /\ (i # n => h[i + 1] = g[i + 1])
        BY <2>7, <4>1
      <4>4. h[i] = IF i = Len(vals) THEN vals[i] ELSE mergeValues(h[i + 1], vals[i])
        <5> HIDE DEF h
        <5> QED BY <4>2, <4>3
      <4> HIDE DEF h
      <4> QED BY <4>4
    <3> QED BY <3>1, <3>2
  <2>10. h = [i \in k..n |-> h[i]]
    OBVIOUS
  <2>11. h = Rec(h, k)
    <3> HIDE DEF h
    <3> QED BY <2>9, <2>10
  <2>12. Has(k)
    BY <2>11
  <2> HIDE DEF Has
  <2> QED BY <2>2, <2>12 DEF k
<1>2. n - 1 \in 0..(n - 1) /\ n - (n - 1) = 1
  OBVIOUS
<1>3. Has(1)
  <2> HIDE DEF Has
  <2> QED BY <1>1, <1>2
<1> DEFINE merged == CHOOSE f : f = Rec(f, 1)
<1>4. merged = Rec(merged, 1)
  BY <1>3
<1>5. Merged(vals) = merged[1]
  BY DEF Merged
<1> HIDE DEF merged
<1>6. Merges(merged, vals)
  BY <1>4 DEF Merges
<1> QED BY <1>5, <1>6

\* Two slices put together are one (mergeValues).
LEMMA JoinedIsList ==
  ASSUME NEW x, NEW y, x \in Seq(ToSet(x)), y \in Seq(ToSet(y))
  PROVE  x \o y \in Seq(ToSet(x \o y))
<1>1. /\ x \o y \in Seq(ToSet(x) \cup ToSet(y)) /\ Len(x \o y) = Len(x) + Len(y)
  <2>1. x \in Seq(ToSet(x) \cup ToSet(y)) /\ y \in Seq(ToSet(x) \cup ToSet(y))
    OBVIOUS
  <2> QED BY <2>1, ConcatProperties
<1> DEFINE z == x \o y
<1> HIDE DEF z
<1>2. z \in Seq(ToSet(x) \cup ToSet(y))
  BY <1>1 DEF z
<1>3. z \in Seq(ToSet(z))
  BY <1>2 DEF ToSet
<1> QED BY <1>3 DEF z

\* What is left of two values that are not both maps is one of them, or a list.
LEMMA MergeLeafIsList ==
  ASSUME NEW lo, NEW hi, SliceIsList(lo), SliceIsList(hi)
  PROVE  SliceIsList(MergeLeaf(lo, hi))
<1>1. CASE lo.kind = "slice" /\ hi.kind = "slice"
  <2>1. MergeLeaf(lo, hi) = SliceOf(lo.elems \o hi.elems)
    BY <1>1 DEF MergeLeaf
  <2>2. lo.elems \o hi.elems \in Seq(ToSet(lo.elems \o hi.elems))
    BY <1>1, JoinedIsList DEF SliceIsList
  <2> QED BY <2>1, <2>2 DEF SliceIsList, SliceOf
<1>2. CASE ~(lo.kind = "slice" /\ hi.kind = "slice")
  BY <1>2 DEF MergeLeaf
<1> QED BY <1>1, <1>2

\* Two values merged are a value (mergeValues).
LEMMA MergeIsValue ==
  ASSUME NEW lo, NEW hi, IsValue(lo), IsValue(hi)
  PROVE  IsValue(mergeValues(lo, hi))
<1>1. ASSUME NEW x, NEW y, IsLeaf(x), IsLeaf(y) PROVE IsLeaf(MergeLeaf(x, y))
  <2>1. SliceIsList(MergeLeaf(x, y))
    BY <1>1, MergeLeafIsList DEF IsLeaf
  <2> QED BY <1>1, <2>1 DEF IsLeaf, MergeLeaf, SliceOf, isNonEmptyMap, IsMap
<1>2. CASE ~(IsMap(lo) /\ IsMap(hi))
  <2>1. mergeValues(lo, hi) = MergeLeaf(lo, hi)
    BY <1>2 DEF mergeValues
  <2>2. SliceIsList(MergeLeaf(lo, hi))
    BY MergeLeafIsList DEF IsValue
  <2> QED BY <2>1, <2>2 DEF MergeLeaf, SliceOf, IsValue, IsMap
<1>3. CASE IsMap(lo) /\ IsMap(hi)
  <2> DEFINE keptLo == {r \in DOMAIN lo.at : \A h \in DOMAIN hi.at :
                          Related(r, h) => Below(h, r) /\ IsMap(hi.at[h])}
             keptHi == {h \in DOMAIN hi.at :
                          ~(IsMap(hi.at[h]) /\ \E r \in keptLo : Below(h, r))}
             leaf(p) == IF p \in keptLo THEN lo.at[p]
                        ELSE IF p \in DOMAIN lo.at THEN MergeLeaf(lo.at[p], hi.at[p]) ELSE hi.at[p]
  <2>1. mergeValues(lo, hi) = MapOf([p \in keptLo \cup keptHi |-> leaf(p)])
    BY <1>3 DEF mergeValues
  <2>2. ASSUME NEW p \in keptLo \cup keptHi PROVE IsPath(p) /\ p # <<>> /\ IsLeaf(leaf(p))
    BY <1>1, <1>3 DEF IsValue
  <2> HIDE DEF keptLo, keptHi, leaf
  <2> QED BY <2>1, <2>2 DEF MapOf, IsValue, SliceIsList, IsMap
<1> QED BY <1>2, <1>3

\* So is what any number of contributions are merged into (resolveAppend).
LEMMA MergedIsValue ==
  ASSUME NEW n \in Nat, NEW vals, DOMAIN vals = 1..n, Len(vals) = n, n # 0, \A i \in 1..n : IsValue(vals[i])
  PROVE  IsValue(Merged(vals))
<1>1. PICK merged : Merges(merged, vals) /\ Merged(vals) = merged[1]
  BY MergedSteps
<1> DEFINE Bad == {j \in 0..(n - 1) : ~IsValue(merged[n - j])}
<1>2. Bad = {}
  <2>1. SUFFICES ASSUME Bad # {} PROVE FALSE
    OBVIOUS
  <2>2. PICK j \in Bad : \A m \in Bad : j <= m
    <3>1. Bad \subseteq Nat
      OBVIOUS
    <3> HIDE DEF Bad
    <3> QED BY <2>1, <3>1, LeastNat
  <2>3. n - j \in 1..n /\ n \in 1..n /\ n - 0 = n
    BY <2>2
  <2>4. j # 0
    BY <1>1, <2>2, <2>3 DEF Merges
  <2>5. j - 1 \in 0..(n - 1) /\ ~(j <= j - 1) /\ n - (j - 1) = (n - j) + 1 /\ n - j # n
    BY <2>2, <2>4
  <2>6. IsValue(merged[(n - j) + 1])
    BY <2>2, <2>5
  <2>7. merged[n - j] = mergeValues(merged[(n - j) + 1], vals[n - j])
    BY <1>1, <2>3, <2>5 DEF Merges
  <2> QED BY <2>2, <2>3, <2>6, <2>7, MergeIsValue
<1>3. n - 1 \in 0..(n - 1) /\ n - (n - 1) = 1
  OBVIOUS
<1> QED BY <1>1, <1>2, <1>3

\* What is neither a slice nor a map is not merged with what lies below it.
LEMMA MergedSole ==
  ASSUME NEW n \in Nat, NEW vals, DOMAIN vals = 1..n, Len(vals) = n, n # 0,
         vals[1].kind \notin {"slice", "map"}
  PROVE  Merged(vals) = vals[1]
<1>1. PICK merged : Merges(merged, vals) /\ Merged(vals) = merged[1]
  BY MergedSteps
<1>2. merged[1] = IF 1 = n THEN vals[1] ELSE mergeValues(merged[1 + 1], vals[1])
  BY <1>1 DEF Merges
<1>3. mergeValues(merged[1 + 1], vals[1]) = vals[1]
  BY DEF mergeValues, MergeLeaf, IsMap
<1> QED BY <1>1, <1>2, <1>3

\* joined is the recursive function of JoinedUp.
Joins(joined, lists, X, N) ==
    /\ joined[0] = <<>>
    /\ \A m \in 0..N : joined[m] \in Seq(X)
    /\ \A m \in 1..N : joined[m] = joined[m - 1] \o lists[N + 1 - m]

ListsOf(lists, X, N) == Len(lists) = N /\ \A i \in 1..N : lists[i] \in Seq(X)

\* vals are the slices to be merged: those of the sources of s that are picked,
\* of which out is the list, and one more where the last of the lists is not empty.
Contribute(vals, M, s, S, out, lists) ==
    LET n == Len(s)
        w == Len(out[n])
    IN  /\ DOMAIN vals = 1..M /\ Len(vals) = M
        /\ \/ M = w /\ lists[n + 1] = <<>>
           \/ M = w + 1 /\ vals[M] = SliceOf(lists[n + 1])
        /\ \A i \in 1..n : s[i] \notin S => lists[i] = <<>>
        /\ \A i \in 1..n : s[i] \in S => \A c \in 1..w : out[n][c] = s[i] => vals[c] = SliceOf(lists[i])

\* Joining lists, any number of them, one after the other.
LEMMA JoinedSteps ==
  ASSUME NEW X, NEW N \in Nat, NEW lists, ListsOf(lists, X, N)
  PROVE  \E joined : Joins(joined, lists, X, N) /\ JoinedUp(lists) = joined[N]
<1> USE DEF ListsOf
<1> DEFINE step == [i \in Nat |-> [t \in Seq(X) |-> IF i \in 1..N THEN t \o lists[N + 1 - i] ELSE t]]
           Rec(f) == [m \in 0..N |-> IF m = 0 THEN <<>> ELSE f[m - 1] \o lists[N + 1 - m]]
           joined == CHOOSE f : f = Rec(f)
<1>1. step \in [Nat -> [Seq(X) -> Seq(X)]] /\ <<>> \in Seq(X)
  <2>1. ASSUME NEW i \in Nat, NEW t \in Seq(X) PROVE (IF i \in 1..N THEN t \o lists[N + 1 - i] ELSE t) \in Seq(X)
    <3>1. i \in 1..N => N + 1 - i \in 1..N
      OBVIOUS
    <3> QED BY <3>1, ConcatProperties
  <2> QED BY <2>1
<1>2. PICK g : Iterates(g, Seq(X), <<>>, step, N)
  <2> HIDE DEF step
  <2> QED BY <1>1, IterationExists
<1>3. \A m \in 1..N : g[m] = g[m - 1] \o lists[N + 1 - m]
  <2> TAKE m \in 1..N
  <2>1. m \in Nat /\ m - 1 \in 0..N
    OBVIOUS
  <2>2. g[m - 1] \in Seq(X) /\ g[m] = step[m][g[m - 1]]
    BY <1>2, <2>1 DEF Iterates
  <2> QED BY <2>1, <2>2
<1>4. g = Rec(g)
  <2>0. \A m \in 0..N : m = 0 \/ m \in 1..N
    OBVIOUS
  <2>1. \A m \in 0..N : g[m] = Rec(g)[m]
    BY <1>2, <1>3, <2>0 DEF Iterates
  <2>2. g = [m \in 0..N |-> g[m]]
    BY <1>2 DEF Iterates
  <2> QED BY <2>1, <2>2
<1>5. joined = Rec(joined)
  BY <1>4, Zenon
<1>6. JoinedUp(lists) = joined[N]
  BY DEF JoinedUp
<1> HIDE DEF joined
<1>7. joined[0] = <<>> /\ \A m \in 1..N : joined[m] = joined[m - 1] \o lists[N + 1 - m]
  <2>1. 0 \in 0..N /\ \A m \in 1..N : m \in 0..N /\ m # 0
    OBVIOUS
  <2> QED BY <1>5, <2>1
<1>8. \A m \in 0..N : joined[m] \in Seq(X)
  <2> DEFINE B == {m \in 0..N : joined[m] \notin Seq(X)}
  <2>1. SUFFICES ASSUME B # {} PROVE FALSE
    OBVIOUS
  <2>2. PICK m \in B : \A j \in B : m <= j
    <3>1. B \subseteq Nat
      OBVIOUS
    <3> HIDE DEF B
    <3> QED BY <2>1, <3>1, LeastNat
  <2>3. m # 0
    BY <1>7, <1>1, <2>2
  <2>4. m \in 1..N /\ m - 1 \in 0..N /\ joined[m - 1] \in Seq(X) /\ N + 1 - m \in 1..N
    BY <2>2, <2>3
  <2>5. joined[m - 1] \o lists[N + 1 - m] \in Seq(X)
    BY <2>4, ConcatProperties
  <2> QED BY <1>7, <2>2, <2>4, <2>5
<1> QED BY <1>6, <1>7, <1>8 DEF Joins

\* Where all the lists but one are empty, what is joined is that one.
LEMMA JoinedOne ==
  ASSUME NEW X, NEW N \in Nat, NEW lists, ListsOf(lists, X, N),
         NEW p \in 1..N, \A i \in 1..N : i # p => lists[i] = <<>>
  PROVE  JoinedUp(lists) = lists[p]
<1> USE DEF ListsOf
<1>1. PICK joined : Joins(joined, lists, X, N) /\ JoinedUp(lists) = joined[N]
  BY JoinedSteps
<1> DEFINE Want(m) == joined[m] = IF m < N + 1 - p THEN <<>> ELSE lists[p]
           B == {m \in 0..N : ~Want(m)}
<1>2. B = {}
  <2>1. SUFFICES ASSUME B # {} PROVE FALSE
    OBVIOUS
  <2>2. PICK m \in B : \A j \in B : m <= j
    <3>1. B \subseteq Nat
      OBVIOUS
    <3> HIDE DEF B
    <3> QED BY <2>1, <3>1, LeastNat
  <2>3. m # 0
    BY <1>1, <2>2 DEF Joins
  <2>4. m \in 1..N /\ m - 1 \in 0..N /\ ~(m <= m - 1) /\ N + 1 - m \in 1..N
    BY <2>2, <2>3
  <2>5. Want(m - 1)
    BY <2>2, <2>4
  <2>6. joined[m] = joined[m - 1] \o lists[N + 1 - m] /\ joined[m - 1] \in Seq(X) /\ lists[p] \in Seq(X)
    BY <1>1, <2>4 DEF Joins
  <2>7. CASE N + 1 - m = p
    <3>1. joined[m - 1] = <<>> /\ ~(m < N + 1 - p)
      BY <2>4, <2>5, <2>7
    <3>2. joined[m] = lists[p]
      BY <2>6, <2>7, <3>1, ConcatEmptySeq
    <3> QED BY <2>2, <3>1, <3>2
  <2>8. CASE N + 1 - m # p
    <3>1. lists[N + 1 - m] = <<>> /\ (m - 1 < N + 1 - p <=> m < N + 1 - p)
      BY <2>4, <2>8
    <3>2. joined[m] = joined[m - 1]
      BY <2>6, <3>1, ConcatEmptySeq
    <3> QED BY <2>2, <2>5, <3>1, <3>2
  <2> QED BY <2>7, <2>8
<1>3. Want(N)
  BY <1>2
<1> QED BY <1>1, <1>3

\* Merging slices from the lowest source up joins them, where a source that is
\* not picked gives nothing and what comes last of all is merged first.
LEMMA MergingJoins ==
  ASSUME NEW Y, NEW s \in Seq(Y), NEW S, NEW out, Collects(out, Y, s, S),
         NEW X, NEW lists, ListsOf(lists, X, Len(s) + 1),
         NEW M \in Nat, M # 0, NEW vals, Contribute(vals, M, s, S, out, lists)
  PROVE  Merged(vals) = SliceOf(JoinedUp(lists))
<1> DEFINE n == Len(s)
           w == Len(out[n])
<1>0. /\ n = Len(s) /\ w = Len(out[n])
      /\ Len(lists) = n + 1 /\ \A i \in 1..(n + 1) : lists[i] \in Seq(X)
      /\ DOMAIN vals = 1..M /\ Len(vals) = M
      /\ \/ M = w /\ lists[n + 1] = <<>>
         \/ M = w + 1 /\ vals[M] = SliceOf(lists[n + 1])
      /\ \A i \in 1..n : s[i] \notin S => lists[i] = <<>>
      /\ \A i \in 1..n : s[i] \in S => \A c \in 1..w : out[n][c] = s[i] => vals[c] = SliceOf(lists[i])
  BY DEF Contribute, ListsOf
<1> HIDE DEF n, w
<1>1. n \in Nat /\ n + 1 \in Nat /\ \A t \in 0..n : out[t] \in Seq(Y) /\ Len(out[t]) \in Nat
  BY <1>0 DEF Collects
<1>11. \A t \in 1..n : s[t] \in Y
  BY <1>0
<1>2. PICK joined : Joins(joined, lists, X, n + 1) /\ JoinedUp(lists) = joined[n + 1]
  <2> DEFINE N == n + 1
  <2>1. N \in Nat /\ ListsOf(lists, X, N)
    BY <1>0, <1>1
  <2> HIDE DEF N
  <2>2. \E joined : Joins(joined, lists, X, N) /\ JoinedUp(lists) = joined[N]
    BY <2>1, JoinedSteps
  <2> QED BY <2>2 DEF N
<1>3. PICK merged : Merges(merged, vals) /\ Merged(vals) = merged[1]
  BY <1>0, MergedSteps
<1> DEFINE c(t) == Len(out[t])
           Good(j) == IF c(n - j) < M THEN merged[c(n - j) + 1] = SliceOf(joined[j + 1])
                                      ELSE joined[j + 1] = <<>>
           B == {j \in 0..n : ~Good(j)}
<1>4. ASSUME NEW m \in 1..(n + 1)
      PROVE  /\ joined[m] = joined[m - 1] \o lists[n + 2 - m]
             /\ joined[m - 1] \in Seq(X) /\ joined[m] \in Seq(X) /\ lists[n + 2 - m] \in Seq(X)
  <2>1. m - 1 \in 0..(n + 1) /\ m \in 0..(n + 1) /\ (n + 1) + 1 - m = n + 2 - m /\ n + 2 - m \in 1..(n + 1)
    BY <1>1
  <2> QED BY <1>0, <1>2, <2>1 DEF Joins
<1>5. ASSUME NEW i \in 1..M PROVE merged[i] = IF i = M THEN vals[i] ELSE mergeValues(merged[i + 1], vals[i])
  BY <1>0, <1>3 DEF Merges
<1>6. ASSUME NEW x, NEW y PROVE mergeValues(SliceOf(x), SliceOf(y)) = SliceOf(x \o y)
  BY DEF mergeValues, MergeLeaf, SliceOf, IsMap
<1>7. Good(0)
  <2>1. joined[1] = lists[n + 1]
    <3>1. 1 \in 1..(n + 1) /\ n + 2 - 1 = n + 1 /\ 1 - 1 = 0
      BY <1>1
    <3>2. joined[0] = <<>>
      BY <1>2 DEF Joins
    <3>3. joined[1] = <<>> \o lists[n + 1] /\ lists[n + 1] \in Seq(X)
      BY <1>4, <3>1, <3>2
    <3> QED BY <3>3, ConcatEmptySeq
  <2>2. n - 0 = n /\ 0 + 1 = 1 /\ w \in Nat
    BY <1>0, <1>1
  <2>3. CASE M = w /\ lists[n + 1] = <<>>
    BY <1>0, <2>1, <2>2, <2>3
  <2>4. CASE M = w + 1 /\ vals[M] = SliceOf(lists[n + 1])
    <3>1. M \in 1..M /\ c(n - 0) + 1 = M /\ c(n - 0) < M
      BY <1>0, <2>2, <2>4
    <3> QED BY <1>5, <2>1, <2>2, <2>4, <3>1
  <2> QED BY <1>0, <2>3, <2>4
<1>8. B = {}
  <2>1. SUFFICES ASSUME B # {} PROVE FALSE
    OBVIOUS
  <2>2. PICK j \in B : \A i \in B : j <= i
    <3>1. B \subseteq Nat
      OBVIOUS
    <3> HIDE DEF B
    <3> QED BY <2>1, <3>1, LeastNat
  <2>3. j # 0
    BY <1>7, <2>2
  <2> DEFINE t == n - j + 1
  <2>4. /\ j - 1 \in 0..n /\ ~(j <= j - 1) /\ n - (j - 1) = t /\ (j - 1) + 1 = j /\ n - j = t - 1
        /\ t \in 1..n /\ t - 1 \in 0..n /\ t \in 0..n /\ j + 1 \in 1..(n + 1) /\ (j + 1) - 1 = j /\ n + 2 - (j + 1) = t
    BY <1>1, <2>2, <2>3
  <2>5. IF c(t) < M THEN merged[c(t) + 1] = SliceOf(joined[j]) ELSE joined[j] = <<>>
    <3>1. Good(j - 1)
      BY <2>2, <2>4
    <3> QED BY <2>4, <3>1
  <2> HIDE DEF t
  <2>6. out[t] = IF s[t] \in S THEN Append(out[t - 1], s[t]) ELSE out[t - 1]
    BY <1>0, <2>4 DEF Collects
  <2>7. joined[j + 1] = joined[j] \o lists[t] /\ joined[j] \in Seq(X) /\ lists[t] \in Seq(X)
    BY <1>4, <2>4
  <2>8. CASE s[t] \notin S
    <3>1. c(t) = c(t - 1) /\ joined[j + 1] = joined[j]
      BY <1>0, <2>4, <2>6, <2>7, <2>8, ConcatEmptySeq
    <3>2. Good(j)
      BY <2>4, <2>5, <3>1
    <3> QED BY <2>2, <3>2
  <2>9. CASE s[t] \in S
    <3>1. s[t] \in Y /\ out[t - 1] \in Seq(Y) /\ c(t - 1) \in Nat
      BY <1>1, <1>11, <2>4
    <3>2. c(t) = c(t - 1) + 1 /\ out[t][c(t)] = s[t]
      <4> DEFINE o == out[t - 1]
                 y == s[t]
      <4>1. out[t] = Append(o, y) /\ o \in Seq(Y) /\ y \in Y
        BY <2>6, <2>9, <3>1
      <4> HIDE DEF o, y
      <4>2. Len(out[t]) = Len(o) + 1 /\ out[t][Len(o) + 1] = y
        BY <4>1
      <4> QED BY <4>2 DEF o, y
    <3>4. c(t) \in Nat /\ c(t) \in 1..c(t)
      BY <3>1, <3>2
    <3>3. c(t) <= w /\ out[n][c(t)] = out[t][c(t)]
      <4>1. t \in 0..Len(s)
        BY <1>0, <2>4
      <4>2. Len(out[t]) <= Len(out[Len(s)]) /\ \A i \in 1..Len(out[t]) : out[Len(s)][i] = out[t][i]
        BY <4>1, PickedSoFar
      <4> QED BY <1>0, <3>4, <4>2
    <3>5. c(t) \in 1..w /\ c(t) \in 1..M /\ c(t - 1) < M
      <4>1. w \in Nat /\ (M = w \/ M = w + 1)
        BY <1>0, <1>1
      <4> HIDE DEF c
      <4> QED BY <3>1, <3>2, <3>3, <3>4, <4>1
    <3>6. vals[c(t)] = SliceOf(lists[t])
      BY <1>0, <2>4, <2>9, <3>2, <3>3, <3>5
    <3>7. merged[c(t)] = IF c(t) = M THEN vals[c(t)] ELSE mergeValues(merged[c(t) + 1], vals[c(t)])
      BY <1>5, <3>5
    <3>8. CASE c(t) = M
      <4>1. joined[j + 1] = lists[t]
        <5>1. joined[j] = <<>>
          BY <2>5, <3>5, <3>8
        <5> QED BY <2>7, <5>1, ConcatEmptySeq
      <4>2. merged[c(t - 1) + 1] = SliceOf(joined[j + 1])
        BY <3>2, <3>6, <3>7, <3>8, <4>1
      <4>3. Good(j)
        BY <2>4, <3>5, <4>2
      <4> QED BY <2>2, <4>3
    <3>9. CASE c(t) # M
      <4>1. c(t) < M
        BY <3>5, <3>9
      <4>2. merged[c(t)] = SliceOf(joined[j] \o lists[t])
        BY <1>6, <2>5, <3>6, <3>7, <3>9, <4>1
      <4>3. merged[c(t - 1) + 1] = SliceOf(joined[j + 1])
        BY <2>7, <3>2, <4>2
      <4>4. Good(j)
        BY <2>4, <3>5, <4>3
      <4> QED BY <2>2, <4>4
    <3> QED BY <3>8, <3>9
  <2> QED BY <2>8, <2>9
<1>9. n \in 0..n /\ Good(n) /\ n - n = 0
  <2>1. n \in 0..n /\ n - n = 0
    BY <1>1
  <2>2. n \notin B
    BY <1>8, Zenon
  <2> HIDE DEF Good
  <2> QED BY <2>1, <2>2
<1>10. c(0) = 0
  BY DEF Collects
<1> QED BY <1>2, <1>3, <1>9, <1>10
-----------------------------------------------------------------------------
(* The layer that wins a key.                                              *)

\* The ranks of the layers that supply key k and that its pin, if any, lets
\* through.
Ranks(l, k) ==
    {r \in 0..(Len(l.sources) + 1) :
        \/ r = 0 /\ layerGet(l.explicits, k, l) # Absent
        \/ /\ r \in 1..Len(l.sources) /\ sourceGet(l.sources[r], k, l) # Absent
           /\ k \in DOMAIN l.pins => l.sources[r] = l.pins[k]
        \/ r = Len(l.sources) + 1 /\ k \notin DOMAIN l.pins /\ layerGet(l.defaults, k, l) # Absent}

\* The name a snapshot gives the layer of a rank.
Named(l, r, name) ==
    \/ r = 0 /\ name = srcExplicit
    \/ r \in 1..Len(l.sources) /\ name = l.sources[r]
    \/ r = Len(l.sources) + 1 /\ name = srcDefault

\* What the layer of a rank supplies key k.
Supply(l, r, k) ==
    IF r = 0 THEN layerGet(l.explicits, k, l)
    ELSE IF r \in 1..Len(l.sources) THEN sourceGet(l.sources[r], k, l)
    ELSE layerGet(l.defaults, k, l)

\* What MergeAppend never joins to what lies below.
Sole(l, k, v) == ~l.append \/ k \in DOMAIN l.pins \/ v.kind \notin {"slice", "map"}

\* What resolution is to find: the value of the best layer, under its name.
Wins(l, k, e) ==
    \/ e = NoEntry /\ Ranks(l, k) = {}
    \/ /\ e.val # Absent /\ IsValue(e.val)
       /\ \E r \in Ranks(l, k) :
            /\ Named(l, r, e.srcs[1]) /\ \A q \in Ranks(l, k) : r <= q
            /\ r = 0 \/ Sole(l, k, Supply(l, r, k)) => e.val = Supply(l, r, k)

\* What a layer supplies is a value, and it does so exactly when it holds the
\* key under one of its names.
LEMMA LayersSupply ==
  ASSUME NEW l, IsLayering(l), NEW k
  PROVE  /\ \A m \in {l.explicits, l.defaults} :
              /\ layerGet(m, k, l) # Absent <=> \E p \in Names(k, l.aliases) : p \in DOMAIN m
              /\ layerGet(m, k, l) # Absent => IsValue(layerGet(m, k, l))
         /\ \A i \in 1..Len(l.sources) :
              /\ sourceGet(l.sources[i], k, l) # Absent
                   <=> \E p \in Names(k, l.aliases) : p \in DOMAIN l.view[l.sources[i]].get
              /\ sourceGet(l.sources[i], k, l) # Absent => IsValue(sourceGet(l.sources[i], k, l))
<1>1. IsFiniteSet(DOMAIN l.aliases) /\ Ordered(DOMAIN l.aliases)
  BY DEF IsLayering
<1>2. \A m \in {l.explicits, l.defaults} : IsLayer(m)
  BY DEF IsLayering
<1>3. \A i \in 1..Len(l.sources) : IsLayer(l.view[l.sources[i]].get)
  <2>1. \A i \in 1..Len(l.sources) : l.sources[i] \in ToSet(l.sources)
    BY DEF IsLayering, ToSet
  <2> QED BY <2>1 DEF IsLayering
<1>4. \A m \in {l.explicits, l.defaults} :
        /\ Spelled(m, k, l.aliases) # Absent <=> \E p \in Names(k, l.aliases) : p \in DOMAIN m
        /\ Spelled(m, k, l.aliases) # Absent => IsValue(Spelled(m, k, l.aliases))
  BY <1>1, <1>2, SpelledFound, Zenon
<1>5. \A i \in 1..Len(l.sources) :
        LET m == l.view[l.sources[i]].get
        IN  /\ Spelled(m, k, l.aliases) # Absent <=> \E p \in Names(k, l.aliases) : p \in DOMAIN m
            /\ Spelled(m, k, l.aliases) # Absent => IsValue(Spelled(m, k, l.aliases))
  BY <1>1, <1>3, SpelledFound, Zenon
<1> QED BY <1>4, <1>5, Zenon DEF layerGet, sourceGet

\* It is what the layer holds under the name that counts.
SuppliedBy(v, k, m, aliases) == v # Absent => \E p : Counts(p, k, m, aliases) /\ v = m[p]

LEMMA LayersCount ==
  ASSUME NEW l, IsLayering(l), NEW k
  PROVE  /\ SuppliedBy(layerGet(l.explicits, k, l), k, l.explicits, l.aliases)
         /\ SuppliedBy(layerGet(l.defaults, k, l), k, l.defaults, l.aliases)
         /\ \A i \in 1..Len(l.sources) :
              SuppliedBy(sourceGet(l.sources[i], k, l), k, l.view[l.sources[i]].get, l.aliases)
<1>1. IsFiniteSet(DOMAIN l.aliases) /\ Ordered(DOMAIN l.aliases) /\ IsLayer(l.explicits) /\ IsLayer(l.defaults)
  BY DEF IsLayering
<1>2. \A i \in 1..Len(l.sources) : IsLayer(l.view[l.sources[i]].get)
  <2>1. \A i \in 1..Len(l.sources) : l.sources[i] \in ToSet(l.sources)
    BY DEF IsLayering, ToSet
  <2> QED BY <2>1 DEF IsLayering
<1>3. \A m : IsLayer(m) => SuppliedBy(Spelled(m, k, l.aliases), k, m, l.aliases)
  <2> SUFFICES ASSUME NEW m, IsLayer(m), Spelled(m, k, l.aliases) # Absent
               PROVE  \E p : Counts(p, k, m, l.aliases) /\ Spelled(m, k, l.aliases) = m[p]
    BY DEF SuppliedBy
  <2> QED BY <1>1, SpelledFound
<1> QED BY <1>1, <1>2, <1>3, Zenon DEF layerGet, sourceGet

\* The sources that supply a key, in their order: the first of them is the
\* first that does.
LEMMA ContributorsInOrder ==
  ASSUME NEW l, IsLayering(l), NEW k
  PROVE  LET who == Contributors(k, l)
             supplies(i) == sourceGet(l.sources[i], k, l) # Absent
         IN  /\ who \in Seq(ToSet(l.sources))
             /\ \A p \in 1..Len(who) : sourceGet(who[p], k, l) # Absent /\ IsValue(sourceGet(who[p], k, l))
             /\ \/ who = <<>> /\ \A i \in 1..Len(l.sources) : ~supplies(i)
                \/ who # <<>> /\ \E i \in 1..Len(l.sources) :
                     supplies(i) /\ who[1] = l.sources[i] /\ \A j \in 1..(i - 1) : ~supplies(j)
<1> DEFINE X == ToSet(l.sources)
           S == {s \in X : sourceGet(s, k, l) # Absent}
           who == Contributors(k, l)
<1>1. l.sources \in Seq(X)
  BY DEF IsLayering
<1>2. who = Picked(l.sources, S)
  BY DEF Contributors
<1>3. \A i \in 1..Len(l.sources) : l.sources[i] \in X
  BY DEF IsLayering, ToSet
<1>4. \A s \in X : \E i \in 1..Len(l.sources) : s = l.sources[i]
  BY DEF IsLayering, ToSet
<1> HIDE DEF X
<1>5. \A i \in 1..Len(l.sources) : l.sources[i] \in S <=> sourceGet(l.sources[i], k, l) # Absent
  BY <1>3, Zenon
<1>6. \A s \in S : s \in X /\ sourceGet(s, k, l) # Absent
  OBVIOUS
<1> HIDE DEF S
<1>7. who \in Seq(X) /\ \A p \in 1..Len(who) : who[p] \in S \cap ToSet(l.sources)
  <2>1. /\ Picked(l.sources, S) \in Seq(X)
        /\ \A p \in 1..Len(Picked(l.sources, S)) : Picked(l.sources, S)[p] \in S \cap ToSet(l.sources)
    BY <1>1, PickedProperties, Zenon
  <2> QED BY <1>2, <2>1
<1>8. \/ who = <<>> /\ \A i \in 1..Len(l.sources) : l.sources[i] \notin S
      \/ who # <<>> /\ \E i \in 1..Len(l.sources) : FirstOf(l.sources, S, i) /\ who[1] = l.sources[i]
  <2> HIDE DEF who
  <2> QED BY <1>1, <1>2, PickedFirst
<1> HIDE DEF who
<1>9. \A i \in 1..Len(l.sources) : \A j \in 1..(i - 1) : j \in 1..Len(l.sources)
  <2>1. Len(l.sources) \in Nat
    BY <1>1
  <2> QED BY <2>1
<1>10. \A p \in 1..Len(who) : sourceGet(who[p], k, l) # Absent /\ IsValue(sourceGet(who[p], k, l))
  <2> TAKE p \in 1..Len(who)
  <2>1. PICK i \in 1..Len(l.sources) : who[p] = l.sources[i]
    BY <1>4, <1>6, <1>7
  <2>2. sourceGet(l.sources[i], k, l) # Absent
    BY <1>6, <1>7, <2>1
  <2> QED BY <2>1, <2>2, LayersSupply, Zenon
<1>11. \/ who = <<>> /\ \A i \in 1..Len(l.sources) : sourceGet(l.sources[i], k, l) = Absent
       \/ who # <<>> /\ \E i \in 1..Len(l.sources) :
            /\ sourceGet(l.sources[i], k, l) # Absent /\ who[1] = l.sources[i]
            /\ \A j \in 1..(i - 1) : sourceGet(l.sources[j], k, l) = Absent
  BY <1>5, <1>8, <1>9 DEF FirstOf
<1> QED BY <1>7, <1>10, <1>11 DEF X, who

\* What the sources and the defaults give a key that is neither set nor
\* pinned: the first source that supplies it comes before the defaults.
LEMMA ChainWins ==
  ASSUME NEW l, IsLayering(l), NEW k, k \notin DOMAIN l.pins, layerGet(l.explicits, k, l) = Absent,
         NEW e, NEW who, who = Contributors(k, l),
         e = NoEntry <=> who = <<>> /\ layerGet(l.defaults, k, l) = Absent,
         e # NoEntry => /\ e.val # Absent /\ IsValue(e.val)
                        /\ e.srcs[1] = IF who = <<>> THEN srcDefault ELSE who[1]
                        /\ LET v == IF who = <<>> THEN layerGet(l.defaults, k, l) ELSE sourceGet(who[1], k, l)
                           IN  Sole(l, k, v) => e.val = v
  PROVE  Wins(l, k, e)
<1> DEFINE n == Len(l.sources)
<1>1. n \in Nat
  BY DEF IsLayering
<1>2. \/ who = <<>> /\ \A i \in 1..n : sourceGet(l.sources[i], k, l) = Absent
      \/ who # <<>> /\ \E i \in 1..n :
            /\ sourceGet(l.sources[i], k, l) # Absent /\ who[1] = l.sources[i]
            /\ \A j \in 1..(i - 1) : sourceGet(l.sources[j], k, l) = Absent
  BY ContributorsInOrder
<1> HIDE DEF n
<1>3. \A r : r \in Ranks(l, k) <=>
        \/ r \in 1..n /\ sourceGet(l.sources[r], k, l) # Absent
        \/ r = n + 1 /\ layerGet(l.defaults, k, l) # Absent
  BY <1>1 DEF Ranks, n
<1>4. CASE e = NoEntry
  <2>1. Ranks(l, k) = {}
    BY <1>2, <1>3, <1>4
  <2> QED BY <1>4, <2>1 DEF Wins
<1>5. CASE e # NoEntry /\ who = <<>>
  <2>1. Ranks(l, k) = {n + 1}
    BY <1>2, <1>3, <1>5
  <2>2. Named(l, n + 1, e.srcs[1]) /\ n + 1 <= n + 1
    BY <1>1, <1>5 DEF Named, n
  <2>3. Supply(l, n + 1, k) = layerGet(l.defaults, k, l) /\ n + 1 # 0
    BY <1>1 DEF Supply, n
  <2> QED BY <1>5, <2>1, <2>2, <2>3 DEF Wins
<1>6. CASE e # NoEntry /\ who # <<>>
  <2>1. PICK i \in 1..n :
            /\ sourceGet(l.sources[i], k, l) # Absent /\ who[1] = l.sources[i]
            /\ \A j \in 1..(i - 1) : sourceGet(l.sources[j], k, l) = Absent
    BY <1>2, <1>6
  <2>2. i \in Ranks(l, k) /\ Named(l, i, e.srcs[1])
    BY <1>3, <1>6, <2>1 DEF Named, n
  <2>3. \A q \in Ranks(l, k) : i <= q
    <3> SUFFICES ASSUME NEW q \in Ranks(l, k), ~(i <= q) PROVE FALSE
      OBVIOUS
    <3>1. q \in 1..(i - 1)
      BY <1>1, <1>3
    <3>2. q # n + 1
      BY <1>1, <3>1
    <3> QED BY <1>3, <2>1, <3>1, <3>2
  <2>4. Supply(l, i, k) = sourceGet(who[1], k, l) /\ i # 0
    BY <1>1, <2>1 DEF Supply, n
  <2> QED BY <1>6, <2>2, <2>3, <2>4 DEF Wins
<1> QED BY <1>4, <1>5, <1>6
-----------------------------------------------------------------------------
\* resolveShadow finds the value of the best layer.
LEMMA ShadowWins ==
  ASSUME NEW l, IsLayering(l), NEW k, k \notin DOMAIN l.pins, layerGet(l.explicits, k, l) = Absent
  PROVE  Wins(l, k, resolveShadow(k, l))
<1> DEFINE who == Contributors(k, l)
           e == resolveShadow(k, l)
           d == layerGet(l.defaults, k, l)
<1>1. /\ who \in Seq(ToSet(l.sources))
      /\ \A p \in 1..Len(who) : sourceGet(who[p], k, l) # Absent /\ IsValue(sourceGet(who[p], k, l))
  BY ContributorsInOrder
<1>2. d # Absent => IsValue(d)
  BY LayersSupply
<1>3. e = IF who # <<>> THEN Entry(sourceGet(Head(who), k, l), who) ELSE Entry(d, <<srcDefault>>)
  BY DEF resolveShadow, ShadowOf
<1> HIDE DEF who, e, d
<1>4. CASE who # <<>>
  <2>1. 1 \in 1..Len(who) /\ Head(who) = who[1]
    BY <1>1, <1>4
  <2>2. e = [val |-> sourceGet(who[1], k, l), srcs |-> who]
    BY <1>1, <1>3, <1>4, <2>1 DEF Entry
  <2>3. e # NoEntry /\ e.val # Absent /\ IsValue(e.val) /\ e.srcs[1] = who[1] /\ e.val = sourceGet(who[1], k, l)
    BY <1>1, <2>1, <2>2 DEF NoEntry
  <2> QED BY <1>4, <2>3, ChainWins DEF who, e, d
<1>5. CASE who = <<>> /\ d # Absent
  <2>1. e = [val |-> d, srcs |-> <<srcDefault>>]
    BY <1>3, <1>5 DEF Entry
  <2>2. e # NoEntry /\ e.val # Absent /\ IsValue(e.val) /\ e.srcs[1] = srcDefault /\ e.val = d
    BY <1>2, <1>5, <2>1 DEF NoEntry
  <2> QED BY <1>5, <2>2, ChainWins DEF who, e, d
<1>6. CASE who = <<>> /\ d = Absent
  <2>1. e = NoEntry
    BY <1>3, <1>6 DEF Entry
  <2> QED BY <1>6, <2>1, ChainWins DEF who, e, d
<1> QED BY <1>4, <1>5, <1>6

\* How many values resolveAppend folds, which, and what it makes of them.
Contributions(l, k) == Len(Contributors(k, l)) + (IF layerGet(l.defaults, k, l) = Absent THEN 0 ELSE 1)
Parts(l, k, vals, srcs) ==
    LET who == Contributors(k, l)
        d == layerGet(l.defaults, k, l)
        M == Contributions(l, k)
    IN  /\ M \in Nat /\ Len(who) \in Nat /\ (M = 0 <=> who = <<>> /\ d = Absent)
        /\ DOMAIN vals = 1..M /\ Len(vals) = M
        /\ resolveAppend(k, l) = IF M = 0 THEN NoEntry ELSE Entry(Merged(vals), srcs)
        /\ \A i \in 1..Len(who) : vals[i] = sourceGet(who[i], k, l) /\ srcs[i] = who[i]
        /\ d # Absent => vals[M] = d /\ srcs[M] = srcDefault

\* What resolveAppend folds: a value for each contributor and, last, the default.
LEMMA AppendParts ==
  ASSUME NEW l, IsLayering(l), NEW k
  PROVE  \E vals, srcs : Parts(l, k, vals, srcs)
<1> DEFINE who == Contributors(k, l)
           d == layerGet(l.defaults, k, l)
           M == Contributions(l, k)
<1>0. M = Len(who) + (IF d = Absent THEN 0 ELSE 1)
  BY DEF Contributions
<1> HIDE DEF who, d, M
<1> DEFINE given == [i \in DOMAIN who |-> sourceGet(who[i], k, l)]
           dv == IF d = Absent THEN <<>> ELSE <<d>>
           ds == IF d = Absent THEN <<>> ELSE <<srcDefault>>
           c == IF d = Absent THEN 0 ELSE 1
           vals == given \o dv
           srcs == who \o ds
           V == {sourceGet(s, k, l) : s \in ToSet(l.sources)} \cup {d}
           N == ToSet(l.sources) \cup {srcDefault}
<1>1. who \in Seq(ToSet(l.sources))
  BY ContributorsInOrder DEF who
<1>2. resolveAppend(k, l) = IF vals = <<>> THEN NoEntry ELSE Entry(Merged(vals), srcs)
  BY DEF resolveAppend, AppendOf, Folded, who, d
<1>3. Len(who) \in Nat /\ DOMAIN who = 1..Len(who) /\ \A p \in 1..Len(who) : who[p] \in ToSet(l.sources)
  BY <1>1
<1>4. given \in Seq(V) /\ Len(given) = Len(who) /\ \A p \in 1..Len(who) : given[p] = sourceGet(who[p], k, l)
  <2>1. \A p \in 1..Len(who) : given[p] = sourceGet(who[p], k, l) /\ given[p] \in V
    BY <1>3
  <2>2. given = [p \in 1..Len(who) |-> sourceGet(who[p], k, l)] /\ Len(who) \in Nat
    BY <1>3
  <2> DEFINE m == Len(who)
             of(p) == sourceGet(who[p], k, l)
  <2>3. m \in Nat /\ given = [p \in 1..m |-> of(p)] /\ \A p \in 1..m : of(p) \in V
    BY <2>1, <2>2
  <2> HIDE DEF given, V, m, of
  <2>4. given \in Seq(V) /\ Len(given) = m
    BY <2>3
  <2> QED BY <2>1, <2>4 DEF m
<1>5. who \in Seq(N)
  BY <1>1, SeqMonotonic
<1>6. /\ dv \in Seq(V) /\ ds \in Seq(N) /\ Len(dv) = c /\ Len(ds) = c /\ c \in Nat
      /\ d # Absent => dv[1] = d /\ ds[1] = srcDefault
  <2>1. CASE d = Absent
    <3>1. dv = <<>> /\ ds = <<>> /\ c = 0
      BY <2>1
    <3> QED BY <2>1, <3>1, EmptySeq
  <2>2. CASE d # Absent
    <3>1. dv = <<d>> /\ ds = <<srcDefault>> /\ c = 1
      BY <2>2
    <3>2. d \in V /\ srcDefault \in N
      OBVIOUS
    <3> QED BY <2>2, <3>1, <3>2
  <2> QED BY <2>1, <2>2
<1> HIDE DEF given, dv, ds, V, N
<1>7. /\ vals \in Seq(V) /\ Len(vals) = M
      /\ \A i \in 1..M : vals[i] = IF i <= Len(who) THEN given[i] ELSE dv[i - Len(who)]
  <2>1. M = Len(who) + c
    BY <1>0
  <2> HIDE DEF c
  <2>2. given \in Seq(V) /\ dv \in Seq(V) /\ Len(given) = Len(who) /\ Len(dv) = c
    BY <1>4, <1>6
  <2>3. /\ given \o dv \in Seq(V) /\ Len(given \o dv) = Len(given) + Len(dv)
        /\ \A i \in 1..(Len(given) + Len(dv)) :
              (given \o dv)[i] = IF i <= Len(given) THEN given[i] ELSE dv[i - Len(given)]
    BY <2>2, ConcatProperties
  <2> QED BY <2>1, <2>2, <2>3
<1>8. \A i \in 1..M : srcs[i] = IF i <= Len(who) THEN who[i] ELSE ds[i - Len(who)]
  <2>1. M = Len(who) + c
    BY <1>0
  <2> HIDE DEF c
  <2> QED BY <1>5, <1>6, <2>1, ConcatProperties
<1> HIDE DEF vals, srcs
<1>9. M \in Nat /\ (M = 0 <=> who = <<>> /\ d = Absent) /\ (vals = <<>> <=> M = 0)
  <2>1. vals = <<>> <=> Len(vals) = 0
    BY <1>7, EmptySeq
  <2>2. who = <<>> <=> Len(who) = 0
    BY <1>1, EmptySeq
  <2>3. Len(vals) = M /\ Len(who) \in Nat /\ M = IF d = Absent THEN Len(who) ELSE Len(who) + 1
    <3>1. Len(vals) = M /\ Len(who) \in Nat
      BY <1>3, <1>7
    <3>2. M = Len(who) + (IF d = Absent THEN 0 ELSE 1)
      BY <1>0
    <3> QED BY <3>1, <3>2
  <2> HIDE DEF c
  <2> QED BY <2>1, <2>2, <2>3
<1>10. DOMAIN vals = 1..M /\ Len(vals) = M
  BY <1>7
<1>11. \A i \in 1..Len(who) : vals[i] = sourceGet(who[i], k, l) /\ srcs[i] = who[i]
  <2>1. Len(who) \in Nat /\ (M = Len(who) \/ M = Len(who) + 1)
    <3>1. CASE d = Absent
      BY <1>0, <1>3, <3>1
    <3>2. CASE d # Absent
      BY <1>0, <1>3, <3>2
    <3> QED BY <3>1, <3>2
  <2>2. \A i \in 1..Len(who) : i \in 1..M /\ i <= Len(who)
    BY <2>1
  <2> QED BY <1>4, <1>7, <1>8, <2>2
<1>12. d # Absent => vals[M] = d /\ srcs[M] = srcDefault
  <2>1. d # Absent => M \in 1..M /\ ~(M <= Len(who)) /\ M - Len(who) = 1
    BY <1>0, <1>3
  <2> QED BY <1>6, <1>7, <1>8, <2>1
<1>13. resolveAppend(k, l) = IF M = 0 THEN NoEntry ELSE Entry(Merged(vals), srcs)
  BY <1>2, <1>9
<1> QED BY <1>3, <1>9, <1>10, <1>11, <1>12, <1>13 DEF Parts, who, d, M

\* resolveAppend merges the contributions under the name of the best layer.
LEMMA AppendWins ==
  ASSUME NEW l, IsLayering(l), NEW k, k \notin DOMAIN l.pins, layerGet(l.explicits, k, l) = Absent, l.append
  PROVE  Wins(l, k, resolveAppend(k, l))
<1> DEFINE who == Contributors(k, l)
           d == layerGet(l.defaults, k, l)
           e == resolveAppend(k, l)
           M == Contributions(l, k)
<1>1. \A p \in 1..Len(who) : IsValue(sourceGet(who[p], k, l))
  BY ContributorsInOrder
<1>2. d # Absent => IsValue(d)
  BY LayersSupply
<1>3. PICK vals, srcs : Parts(l, k, vals, srcs)
  BY AppendParts
<1> HIDE DEF who, d, e, M
<1>4. /\ M = Len(who) + (IF d = Absent THEN 0 ELSE 1) /\ M \in Nat /\ Len(who) \in Nat
      /\ M = 0 <=> who = <<>> /\ d = Absent
      /\ DOMAIN vals = 1..M /\ Len(vals) = M
      /\ e = IF M = 0 THEN NoEntry ELSE Entry(Merged(vals), srcs)
      /\ \A i \in 1..Len(who) : vals[i] = sourceGet(who[i], k, l) /\ srcs[i] = who[i]
      /\ d # Absent => vals[M] = d /\ srcs[M] = srcDefault
  BY <1>3 DEF Parts, Contributions, who, d, e, M
<1>5. CASE M = 0
  <2>1. e = NoEntry /\ who = <<>> /\ d = Absent
    BY <1>4, <1>5
  <2> QED BY <2>1, ChainWins DEF who, e, d
<1>6. CASE M # 0
  <2>1. \A i \in 1..M : IsValue(vals[i])
    <3> TAKE i \in 1..M
    <3>1. i \in 1..Len(who) \/ (i = M /\ d # Absent)
      BY <1>4
    <3> QED BY <1>1, <1>2, <1>4, <3>1
  <2>2. IsValue(Merged(vals))
    BY <1>4, <1>6, <2>1, MergedIsValue
  <2>3. e # NoEntry /\ e.val # Absent /\ IsValue(e.val) /\ e.srcs = srcs
    <3>1. Merged(vals) # Absent
      BY <2>2 DEF IsValue, Absent
    <3> QED BY <1>4, <1>6, <2>2, <3>1 DEF Entry, NoEntry
  <2>4. srcs[1] = IF who = <<>> THEN srcDefault ELSE who[1]
    <3>1. CASE who = <<>>
      <4>1. Len(who) = 0
        BY <3>1
      <4>2. d # Absent /\ M = 1
        BY <1>4, <1>6, <3>1, <4>1
      <4> QED BY <1>4, <3>1, <4>2
    <3>2. CASE who # <<>>
      <4>1. who \in Seq(ToSet(l.sources))
        BY ContributorsInOrder DEF who
      <4>2. Len(who) # 0
        BY <3>2, <4>1, EmptySeq
      <4>3. 1 \in 1..Len(who)
        BY <1>4, <4>2
      <4> QED BY <1>4, <3>2, <4>3
    <3> QED BY <3>1, <3>2
  <2>5. ~(who = <<>> /\ d = Absent)
    BY <1>4, <1>6
  <2>6. e.val = Merged(vals)
    BY <1>4, <1>6, <2>3 DEF Entry, NoEntry
  <2>7. l.append => (vals[1].kind \notin {"slice", "map"} => e.val = vals[1])
    BY <1>4, <1>6, <2>6, MergedSole
  <2>8. vals[1] = IF who = <<>> THEN d ELSE sourceGet(who[1], k, l)
    <3>1. CASE who = <<>>
      <4>1. Len(who) = 0
        BY <3>1
      <4>2. d # Absent /\ M = 1
        BY <1>4, <1>6, <3>1, <4>1
      <4> QED BY <1>4, <3>1, <4>2
    <3>2. CASE who # <<>>
      <4>1. who \in Seq(ToSet(l.sources))
        BY ContributorsInOrder DEF who
      <4>2. Len(who) # 0
        BY <3>2, <4>1, EmptySeq
      <4>3. 1 \in 1..Len(who)
        BY <1>4, <4>2
      <4> QED BY <1>4, <3>2, <4>3
    <3> QED BY <3>1, <3>2
  <2>9. LET v == IF who = <<>> THEN layerGet(l.defaults, k, l) ELSE sourceGet(who[1], k, l)
        IN  Sole(l, k, v) => e.val = v
    BY <2>7, <2>8 DEF Sole, d
  <2> QED BY <2>3, <2>4, <2>5, <2>9, ChainWins DEF who, e, d
<1> QED BY <1>5, <1>6

\* The sources and the defaults give key k the slices that are listed, if any.
GiveSlices(l, k, lists) ==
    LET n == Len(l.sources)
        gives(v, list) == IF v = Absent THEN list = <<>> ELSE v = SliceOf(list)
    IN  /\ \A i \in 1..n : gives(sourceGet(l.sources[i], k, l), lists[i])
        /\ gives(layerGet(l.defaults, k, l), lists[n + 1])

\* Where all that is contributed are slices, what resolveAppend finds is what
\* they are joined to.
LEMMA AppendJoins ==
  ASSUME NEW l, IsLayering(l), NEW k, NEW n, n = Len(l.sources),
         NEW X, NEW lists, ListsOf(lists, X, n + 1), GiveSlices(l, k, lists), resolveAppend(k, l).val # Absent
  PROVE  resolveAppend(k, l).val = SliceOf(JoinedUp(lists))
<1> DEFINE s == l.sources
           Y == ToSet(s)
           S == {x \in Y : sourceGet(x, k, l) # Absent}
           d == layerGet(l.defaults, k, l)
           who == Contributors(k, l)
           M == Contributions(l, k)
<1>1. s \in Seq(Y) /\ \A i \in 1..n : s[i] \in Y
  BY DEF IsLayering, ToSet
<1>2. who = Picked(s, S)
  BY DEF Contributors
<1>3. \A i \in 1..n : s[i] \in S <=> sourceGet(s[i], k, l) # Absent
  BY <1>1, Zenon
<1> HIDE DEF s, Y, S, d, who
<1>4. PICK out : Collects(out, Y, s, S) /\ who = out[n]
  BY <1>1, <1>2, PickedSteps DEF s
<1>5. PICK vals, srcs : Parts(l, k, vals, srcs)
  BY AppendParts
<1>6. /\ M = Len(who) + (IF d = Absent THEN 0 ELSE 1) /\ M \in Nat /\ Len(who) \in Nat
      /\ DOMAIN vals = 1..M /\ Len(vals) = M
      /\ resolveAppend(k, l) = IF M = 0 THEN NoEntry ELSE Entry(Merged(vals), srcs)
      /\ \A i \in 1..Len(who) : vals[i] = sourceGet(who[i], k, l)
      /\ d # Absent => vals[M] = d
  BY <1>5 DEF Parts, Contributions, who, d, M
<1> HIDE DEF M
<1>7. M # 0 /\ resolveAppend(k, l).val = Merged(vals)
  BY <1>6 DEF NoEntry, Entry
<1>8. \/ M = Len(who) /\ lists[n + 1] = <<>>
      \/ M = Len(who) + 1 /\ vals[M] = SliceOf(lists[n + 1])
  <2>1. CASE d = Absent
    BY <1>6, <2>1 DEF d, GiveSlices
  <2>2. CASE d # Absent
    BY <1>6, <2>2 DEF d, GiveSlices
  <2> QED BY <2>1, <2>2
<1>9. \A i \in 1..n : s[i] \notin S => lists[i] = <<>>
  BY <1>3 DEF s, GiveSlices
<1>10. \A i \in 1..n : s[i] \in S => \A c \in 1..Len(who) : out[n][c] = s[i] => vals[c] = SliceOf(lists[i])
  <2> SUFFICES ASSUME NEW i \in 1..n, s[i] \in S, NEW c \in 1..Len(who), out[n][c] = s[i]
               PROVE  vals[c] = SliceOf(lists[i])
    OBVIOUS
  <2>1. vals[c] = sourceGet(s[i], k, l)
    BY <1>4, <1>6
  <2>2. sourceGet(s[i], k, l) = SliceOf(lists[i])
    BY <1>3 DEF s, GiveSlices
  <2> QED BY <2>1, <2>2
<1>11. n = Len(s)
  BY DEF s
<1>12. Contribute(vals, M, s, S, out, lists)
  BY <1>4, <1>6, <1>8, <1>9, <1>10, <1>11 DEF Contribute
<1>13. Merged(vals) = SliceOf(JoinedUp(lists))
  <2>1. ListsOf(lists, X, Len(s) + 1) /\ s \in Seq(Y) /\ Collects(out, Y, s, S) /\ M \in Nat /\ M # 0
    BY <1>1, <1>4, <1>6, <1>7, <1>11
  <2> QED BY <1>12, <2>1, MergingJoins
<1> QED BY <1>7, <1>13

\* Whatever the layers, the pins and the aliases: resolveKey finds nothing
\* exactly when no layer that may supply the key does, and otherwise the value
\* is that of the best one, under its name.
LEMMA ResolvedWins ==
  ASSUME NEW l, IsLayering(l), NEW k
  PROVE  Wins(l, k, resolveKey(k, l))
<1> DEFINE n == Len(l.sources)
           x == layerGet(l.explicits, k, l)
           e == resolveKey(k, l)
           pin == l.pins[k]
<1>1. n \in Nat /\ l.sources \in Seq(ToSet(l.sources))
  BY DEF IsLayering
<1>2. CASE x # Absent
  <2>1. e = [val |-> x, srcs |-> <<srcExplicit>>]
    BY <1>2 DEF resolveKey, Otherwise, Entry, NoEntry
  <2>2. IsValue(x)
    BY <1>2, LayersSupply
  <2>3. 0 \in Ranks(l, k) /\ \A q \in Ranks(l, k) : 0 <= q
    BY <1>1, <1>2 DEF Ranks
  <2>4. Named(l, 0, srcExplicit) /\ Supply(l, 0, k) = x
    BY DEF Named, Supply
  <2> HIDE DEF e, x
  <2> QED BY <1>2, <2>1, <2>2, <2>3, <2>4 DEF Wins, e
<1>3. CASE x = Absent /\ k \notin DOMAIN l.pins
  <2>1. e = IF l.append THEN resolveAppend(k, l) ELSE resolveShadow(k, l)
    BY <1>3 DEF resolveKey, Otherwise, Entry
  <2> HIDE DEF e
  <2> QED BY <1>3, <2>1, ShadowWins, AppendWins DEF e
<1>4. CASE x = Absent /\ k \in DOMAIN l.pins
  <2>1. e = IF pin \in ToSet(l.sources) THEN Entry(sourceGet(pin, k, l), <<pin>>) ELSE NoEntry
    BY <1>4 DEF resolveKey, Otherwise, Entry
  <2>2. \A r : r \in Ranks(l, k) <=>
            r \in 1..n /\ sourceGet(l.sources[r], k, l) # Absent /\ l.sources[r] = pin
    BY <1>1, <1>4 DEF Ranks
  <2> HIDE DEF e, pin
  <2>3. CASE pin \notin ToSet(l.sources)
    <3>1. \A r \in 1..n : l.sources[r] \in ToSet(l.sources)
      BY <1>1 DEF ToSet
    <3>2. Ranks(l, k) = {}
      BY <2>2, <2>3, <3>1
    <3> QED BY <2>1, <2>3, <3>2 DEF Wins, e
  <2>4. CASE pin \in ToSet(l.sources)
    <3>1. PICK r \in 1..n : l.sources[r] = pin
      BY <1>1, <2>4 DEF ToSet
    <3>2. \A q \in 1..n : l.sources[q] = pin => q = r
      BY <1>1, <3>1 DEF IsLayering
    <3>3. CASE sourceGet(pin, k, l) = Absent
      <4>1. Ranks(l, k) = {}
        BY <2>2, <3>3
      <4>2. e = NoEntry
        BY <2>1, <2>4, <3>3 DEF Entry
      <4> QED BY <4>1, <4>2 DEF Wins, e
    <3>4. CASE sourceGet(pin, k, l) # Absent
      <4>1. e = [val |-> sourceGet(pin, k, l), srcs |-> <<pin>>]
        BY <2>1, <2>4, <3>4 DEF Entry
      <4>2. IsValue(sourceGet(pin, k, l))
        BY <3>1, <3>4, LayersSupply
      <4>3. r \in Ranks(l, k) /\ \A q \in Ranks(l, k) : r <= q
        BY <2>2, <3>1, <3>2, <3>4
      <4>4. Named(l, r, e.srcs[1]) /\ Supply(l, r, k) = e.val
        BY <1>1, <3>1, <4>1 DEF Named, Supply
      <4> QED BY <3>4, <4>1, <4>2, <4>3, <4>4 DEF Wins, e
    <3> QED BY <3>3, <3>4
  <2> QED BY <2>3, <2>4
<1> QED BY <1>2, <1>3, <1>4
-----------------------------------------------------------------------------
(* The snapshot built.                                                     *)

\* What is resolved: the keys the layers enumerate, under their canonical names.
Candidates(l) == {resolveAliasChain(c, l.aliases) : c \in collectCandidateKeys(Flat(l))}
Found(l) == {k \in Candidates(l) : resolveKey(k, Flat(l)).val # Absent}
Stamped(l) == {x \in DOMAIN l.aliases : resolveAliasChain(x, l.aliases) \in Found(l)}

\* The entries of a snapshot: what was found, and beside it the aliases of it
\* (buildSnapshot).
LEMMA BuiltEntries ==
  ASSUME NEW l, IsLayering(l), NEW s, s = buildSnapshot(l)
  PROVE  /\ s.names = l.sources /\ s.aliases = l.aliases
         /\ DOMAIN s.entries = Found(l) \cup Stamped(l)
         /\ \A k \in DOMAIN s.entries :
              s.entries[k] = resolveKey(IF k \in Stamped(l) THEN resolveAliasChain(k, l.aliases) ELSE k, Flat(l))
         /\ s.listed \subseteq DOMAIN s.entries
<1> DEFINE f == Flat(l)
           e == StampAliases(Resolved(f), f)
<1>1. f.aliases = l.aliases /\ f.sources = l.sources
  BY FlatIsLayering
<1>2. s = SnapshotOf(e, f)
  BY Zenon DEF buildSnapshot, ResolveAll, Flat
<1>3. Resolved(f) = [k \in Candidates(l) |-> resolveKey(k, f)]
  BY <1>1 DEF Resolved, Candidates
<1>4. {k \in DOMAIN Resolved(f) : Resolved(f)[k].val # Absent} = Found(l)
  BY <1>3 DEF Found
<1>5. {x \in DOMAIN f.aliases : resolveAliasChain(x, f.aliases) \in Found(l)} = Stamped(l)
  BY <1>1 DEF Stamped
<1>6. e = [k \in Found(l) \cup Stamped(l) |->
             IF k \in Stamped(l) THEN Resolved(f)[resolveAliasChain(k, l.aliases)] ELSE Resolved(f)[k]]
  BY <1>1, <1>4, <1>5, Zenon DEF StampAliases
<1>7. Found(l) \subseteq Candidates(l) /\ \A k \in Stamped(l) : resolveAliasChain(k, l.aliases) \in Candidates(l)
  BY DEF Found, Stamped
<1>8. listedKeys(e, f) \subseteq DOMAIN e
  BY DEF listedKeys
<1> HIDE DEF f, e
<1>9. s.entries = e /\ s.listed = listedKeys(e, f) /\ s.names = l.sources /\ s.aliases = l.aliases
  BY <1>1, <1>2 DEF SnapshotOf
<1>10. \A k \in Candidates(l) : Resolved(f)[k] = resolveKey(k, f)
  BY <1>3
<1>11. \A k \in DOMAIN e :
         e[k] = resolveKey(IF k \in Stamped(l) THEN resolveAliasChain(k, l.aliases) ELSE k, f)
  BY <1>6, <1>7, <1>10
<1>12. DOMAIN e = Found(l) \cup Stamped(l)
  BY <1>6
<1> QED BY <1>8, <1>9, <1>11, <1>12 DEF f

\* Every entry of a snapshot is at a path and has a value.
LEMMA EntriesHoldValues ==
  ASSUME NEW l, IsLayering(l), NEW s, s = buildSnapshot(l), NEW k \in DOMAIN s.entries
  PROVE  IsPath(k) /\ IsValue(s.entries[k].val)
<1> DEFINE c == IF k \in Stamped(l) THEN resolveAliasChain(k, l.aliases) ELSE k
<1>1. k \in Found(l) \cup Stamped(l) /\ s.entries[k] = resolveKey(c, Flat(l))
  BY BuiltEntries, Zenon
<1>2. c \in Found(l) /\ Wins(Flat(l), c, resolveKey(c, Flat(l)))
  BY <1>1, FlatIsLayering, ResolvedWins DEF Stamped
<1>3. resolveKey(c, Flat(l)).val # Absent
  BY <1>2 DEF Found
<1> HIDE DEF c
<1>4. IsValue(s.entries[k].val)
  BY <1>1, <1>2, <1>3 DEF Wins, NoEntry
<1>5. /\ \A x \in collectCandidateKeys(Flat(l)) : x \in Seq(Segment)
      /\ \A x \in DOMAIN l.aliases : l.aliases[x] \in Seq(Segment)
      /\ Flat(l).aliases = l.aliases
  BY FlatIsLayering DEF IsLayering, IsPath
<1>6. \A x \in collectCandidateKeys(Flat(l)) : resolveAliasChain(x, l.aliases) \in Seq(Segment)
  BY <1>5, ChainWithin
<1>7. \A x \in DOMAIN l.aliases : x \in Seq(Segment)
  BY <1>5 DEF collectCandidateKeys
<1>8. IsPath(k)
  BY <1>1, <1>6, <1>7 DEF Found, Stamped, Candidates, IsPath
<1> QED BY <1>4, <1>8

\* Where every chain of aliases ends, a canonical key is no alias, and what is
\* stamped under an alias is the entry of its canonical key.
LEMMA CanonicalEntries ==
  ASSUME NEW l, IsLayering(l), ChainsEnd(l.aliases), NEW s, s = buildSnapshot(l)
  PROVE  /\ \A k \in Candidates(l) :
              /\ k \notin DOMAIN l.aliases
              /\ k \in DOMAIN s.entries <=> resolveKey(k, Flat(l)).val # Absent
              /\ k \in DOMAIN s.entries => s.entries[k] = resolveKey(k, Flat(l))
         /\ \A x \in DOMAIN l.aliases \cap DOMAIN s.entries :
              LET c == resolveAliasChain(x, l.aliases)
              IN  c \in DOMAIN s.entries /\ c \notin DOMAIN l.aliases /\ s.entries[x] = s.entries[c]
<1>1. ASSUME NEW k \in Candidates(l) PROVE k \notin DOMAIN l.aliases
  <2>1. PICK x : k = resolveAliasChain(x, l.aliases)
    BY DEF Candidates
  <2> QED BY <2>1, ChainOutside DEF ChainsEnd
<1>2. /\ DOMAIN s.entries = Found(l) \cup Stamped(l)
      /\ \A k \in DOMAIN s.entries :
           s.entries[k] = resolveKey(IF k \in Stamped(l) THEN resolveAliasChain(k, l.aliases) ELSE k, Flat(l))
  BY BuiltEntries
<1>3. \A k \in Candidates(l) : k \notin Stamped(l)
  BY <1>1 DEF Stamped
<1>4. \A k \in Candidates(l) :
        /\ k \in DOMAIN s.entries <=> resolveKey(k, Flat(l)).val # Absent
        /\ k \in DOMAIN s.entries => s.entries[k] = resolveKey(k, Flat(l))
  BY <1>2, <1>3 DEF Found
<1>5. ASSUME NEW x \in DOMAIN l.aliases \cap DOMAIN s.entries
      PROVE  LET c == resolveAliasChain(x, l.aliases)
             IN  c \in DOMAIN s.entries /\ c \notin DOMAIN l.aliases /\ s.entries[x] = s.entries[c]
  <2>1. Found(l) \subseteq Candidates(l)
    BY DEF Found
  <2>2. x \in Stamped(l)
    BY <1>1, <1>2, <2>1
  <2>3. resolveAliasChain(x, l.aliases) \in Found(l)
    BY <2>2 DEF Stamped
  <2> QED BY <1>1, <1>2, <1>4, <2>1, <2>2, <2>3
<1> QED BY <1>1, <1>4, <1>5

\* The rank of a layer's name is the layer's rank: no two sources have the
\* same name, and none has a reserved one.
LEMMA RankOfName ==
  ASSUME NEW l, IsLayering(l), NEW s, s.names = l.sources, NEW r, NEW name, Named(l, r, name)
  PROVE  rankFor(s, name) = r
<1> DEFINE n == Len(l.sources)
<1>1. n \in Nat /\ DOMAIN l.sources = 1..n
  BY DEF IsLayering
<1>2. \A i \in 1..n : l.sources[i] \in ToSet(l.sources) /\ l.sources[i] \notin {srcExplicit, srcDefault}
  BY <1>1 DEF IsLayering, ToSet, isReservedSourceName
<1>3. srcExplicit # srcDefault
  BY DEF srcExplicit, srcDefault
<1>4. CASE r = 0 /\ name = srcExplicit
  BY <1>4 DEF rankFor
<1>5. CASE r = n + 1 /\ name = srcDefault
  <2>1. name \notin ToSet(l.sources)
    BY <1>1, <1>2, <1>5 DEF ToSet
  <2> QED BY <1>3, <1>5, <2>1 DEF rankFor
<1>6. CASE r \in 1..n /\ name = l.sources[r]
  <2> DEFINE Last1(i) == /\ l.sources[i] = name
                         /\ \A j \in DOMAIN l.sources : l.sources[j] = name => j <= i
  <2>1. \A i \in DOMAIN l.sources : l.sources[i] = name => i = r
    BY <1>1, <1>6 DEF IsLayering
  <2>2. Last1(r) /\ r \in DOMAIN l.sources
    BY <1>1, <1>6, <2>1
  <2>3. rankFor(s, name) = CHOOSE i \in DOMAIN l.sources : Last1(i)
    BY <1>2, <1>6 DEF rankFor
  <2>4. \A i \in DOMAIN l.sources : Last1(i) => i = r
    BY <2>1
  <2> HIDE DEF Last1
  <2> QED BY <2>2, <2>3, <2>4
<1> QED BY <1>4, <1>5, <1>6 DEF Named
-----------------------------------------------------------------------------
(* The theorems.                                                           *)

\* A snapshot is there only where layers were found, and is what resolving
\* them gives.
SnapshotsInv ==
    /\ is \in Layerings \cup {[paths |-> pair] : pair \in PathPairs}
    /\ snap = NoSnap \/ (is \in Layerings /\ snap = buildSnapshot(is))

\* What a rebuild publishes is always what buildSnapshot made of the layers.
THEOREM SnapshotsAreBuilt == SnapshotsSpec => []SnapshotsInv
<1>1. SnapshotsInit => SnapshotsInv
  BY DEF SnapshotsInit, SnapshotsInv
<1>2. SnapshotsInv /\ [Build]_snapshotsVars => SnapshotsInv'
  <2> SUFFICES ASSUME SnapshotsInv, [Build]_snapshotsVars PROVE SnapshotsInv'
    OBVIOUS
  <2>1. CASE Build
    <3>1. is \in Layerings
      BY <2>1 DEF Build, SnapshotsInv
    <3> QED BY <2>1, <3>1 DEF Build, SnapshotsInv
  <2>2. CASE UNCHANGED snapshotsVars
    BY <2>2 DEF snapshotsVars, SnapshotsInv
  <2> QED BY <2>1, <2>2
<1> QED BY <1>1, <1>2, PTL DEF SnapshotsSpec

\* The chains of aliases in the layers a rebuild finds all end.
AliasesEnd == \A l \in Layerings : ChainsEnd(l.aliases)

\* The layers that hold a key under any of its names and that its pin lets
\* through are those resolution may take it from.
LEMMA EligibleRanks ==
  ASSUME IsLayering(is), NEW k
  PROVE  Eligible(k) = Ranks(Flat(is), k)
<1> DEFINE f == Flat(is)
           n == Len(is.sources)
           holds(layer) == \E p \in Spellings(k) : p \in DOMAIN layer
           supplying == {r \in 1..n : holds(is.view[is.sources[r]].get)}
<1>1. /\ IsLayering(f) /\ f.explicits = flattenLayer(is.explicits) /\ f.defaults = flattenLayer(is.defaults)
      /\ f.sources = is.sources /\ f.view = is.view /\ f.aliases = is.aliases /\ f.pins = is.pins
  BY FlatIsLayering
<1> HIDE DEF f
<1>2. Spellings(k) = Names(k, f.aliases)
  BY <1>1 DEF Spellings, Names, Chain
<1>3. /\ holds(flattenLayer(is.explicits)) <=> layerGet(f.explicits, k, f) # Absent
      /\ holds(flattenLayer(is.defaults)) <=> layerGet(f.defaults, k, f) # Absent
  BY <1>1, <1>2, LayersSupply
<1>4. \A i \in 1..n : holds(is.view[is.sources[i]].get) <=> sourceGet(f.sources[i], k, f) # Absent
  BY <1>1, <1>2, LayersSupply
<1>5. n \in Nat
  BY DEF IsLayering
<1> DEFINE set == holds(flattenLayer(is.explicits))
           fallback == holds(flattenLayer(is.defaults))
<1>6. Eligible(k) = (IF set THEN {0} ELSE {})
          \cup (IF k \in DOMAIN is.pins
                THEN {r \in supplying : is.sources[r] = is.pins[k]}
                ELSE supplying \cup (IF fallback THEN {n + 1} ELSE {}))
  BY DEF Eligible
<1>7. Ranks(f, k) = {r \in 0..(n + 1) :
        \/ r = 0 /\ set
        \/ /\ r \in 1..n /\ holds(is.view[is.sources[r]].get)
           /\ k \in DOMAIN is.pins => is.sources[r] = is.pins[k]
        \/ r = n + 1 /\ k \notin DOMAIN is.pins /\ fallback}
  <2> HIDE DEF holds
  <2> QED BY <1>1, <1>3, <1>4 DEF Ranks
<1> HIDE DEF holds, set, fallback, n
<1> QED BY <1>5, <1>6, <1>7 DEF f

\* What such a layer supplies is what it holds under the name that counts.
LEMMA SupplyOfLayer ==
  ASSUME IsLayering(is), NEW k, NEW r \in Ranks(Flat(is), k)
  PROVE  \E p \in CountingName(k, LayerOf(r)) : Supply(Flat(is), r, k) = LayerOf(r)[p]
<1> DEFINE f == Flat(is)
           n == Len(is.sources)
<1>1. /\ IsLayering(f) /\ f.explicits = flattenLayer(is.explicits) /\ f.defaults = flattenLayer(is.defaults)
      /\ f.sources = is.sources /\ f.view = is.view /\ f.aliases = is.aliases
  BY FlatIsLayering
<1> HIDE DEF f
<1>2. Spellings(k) = Names(k, f.aliases)
  BY <1>1 DEF Spellings, Names, Chain
<1>3. \A layer, p : Counts(p, k, layer, f.aliases) => p \in CountingName(k, layer)
  BY <1>2 DEF Counts, CountingName
<1>4. n \in Nat
  BY DEF IsLayering
<1>5. CASE r = 0
  <2>1. Supply(f, r, k) = layerGet(f.explicits, k, f) /\ LayerOf(r) = f.explicits
    BY <1>1, <1>5 DEF Supply, LayerOf
  <2>2. layerGet(f.explicits, k, f) # Absent
    BY <1>1, <1>4, <1>5 DEF Ranks, f
  <2>3. PICK p : Counts(p, k, f.explicits, f.aliases) /\ layerGet(f.explicits, k, f) = f.explicits[p]
    BY <1>1, <2>2, LayersCount DEF SuppliedBy
  <2> QED BY <1>3, <2>1, <2>3 DEF f
<1>6. CASE r \in 1..n
  <2>1. Supply(f, r, k) = sourceGet(f.sources[r], k, f) /\ LayerOf(r) = f.view[f.sources[r]].get
    BY <1>1, <1>4, <1>6 DEF Supply, LayerOf
  <2>2. sourceGet(f.sources[r], k, f) # Absent
    BY <1>1, <1>4, <1>6 DEF Ranks, f
  <2>3. PICK p : /\ Counts(p, k, f.view[f.sources[r]].get, f.aliases)
                 /\ sourceGet(f.sources[r], k, f) = f.view[f.sources[r]].get[p]
    <3>1. SuppliedBy(sourceGet(f.sources[r], k, f), k, f.view[f.sources[r]].get, f.aliases)
      <4>1. r \in 1..Len(f.sources)
        BY <1>1, <1>6
      <4> QED BY <1>1, <4>1, LayersCount
    <3> QED BY <2>2, <3>1, Zenon DEF SuppliedBy
  <2> QED BY <1>3, <2>1, <2>3 DEF f
<1>7. CASE r = n + 1
  <2>1. Supply(f, r, k) = layerGet(f.defaults, k, f) /\ LayerOf(r) = f.defaults
    BY <1>1, <1>4, <1>7 DEF Supply, LayerOf
  <2>2. layerGet(f.defaults, k, f) # Absent
    BY <1>1, <1>4, <1>7 DEF Ranks, f
  <2>3. PICK p : Counts(p, k, f.defaults, f.aliases) /\ layerGet(f.defaults, k, f) = f.defaults[p]
    BY <1>1, <2>2, LayersCount DEF SuppliedBy
  <2> QED BY <1>3, <2>1, <2>3 DEF f
<1>8. r \in 0..(n + 1)
  BY <1>1 DEF Ranks, f
<1> QED BY <1>4, <1>5, <1>6, <1>7, <1>8

\* The hypothesis is that no chain of aliases outruns the depth budget, as
\* none does in a registry of at most 32 of them (FewAliasesEnd): for every
\* choice of layers, pins and aliases, a key is in the snapshot exactly when
\* a layer that may supply it does, and its value is what the layer of
\* highest precedence holds under the name that counts there, unless
\* MergeAppend may have joined it to others (resolveKey, buildSnapshot).
THEOREM Precedence ==
  ASSUME AliasesEnd
  PROVE  SnapshotsSpec => []PrecedenceRespected
<1>1. SnapshotsInv => PrecedenceRespected
  <2> SUFFICES ASSUME SnapshotsInv, Built,
                      NEW k \in {Chain(c) : c \in UNION {DOMAIN flattenLayer(is.explicits),
                                               DOMAIN flattenLayer(is.defaults), DOMAIN is.aliases,
                                               is.bound, Enumerated(is)}}
               PROVE  /\ k \in DOMAIN snap.entries <=> Eligible(k) # {}
                      /\ k \in DOMAIN snap.entries =>
                           LET best == Min(Eligible(k))
                           IN  /\ rankOf(snap, k) = best
                               /\ \E p \in CountingName(k, LayerOf(best)) :
                                    \/ snap.entries[k].val = LayerOf(best)[p]
                                    \/ MayBeJoined(k, LayerOf(best)[p])
    BY DEF PrecedenceRespected
  <2> DEFINE e == resolveKey(k, Flat(is))
  <2>1. is \in Layerings /\ snap = buildSnapshot(is) /\ IsLayering(is) /\ ChainsEnd(is.aliases)
    BY SnapshotsAssumption DEF SnapshotsInv, Built, AliasesEnd
  <2>2. /\ IsLayering(Flat(is))
        /\ Flat(is).explicits = flattenLayer(is.explicits) /\ Flat(is).defaults = flattenLayer(is.defaults)
        /\ Flat(is).sources = is.sources /\ Flat(is).view = is.view
        /\ Flat(is).aliases = is.aliases /\ Flat(is).bound = is.bound
        /\ Flat(is).pins = is.pins /\ Flat(is).append = is.append
    BY <2>1, FlatIsLayering
  <2>3. k \in Candidates(is)
    <3>1. collectCandidateKeys(Flat(is)) = UNION {DOMAIN flattenLayer(is.explicits),
            DOMAIN flattenLayer(is.defaults), DOMAIN is.aliases, is.bound, Enumerated(is)}
      BY <2>2 DEF collectCandidateKeys, Enumerated
    <3> QED BY <3>1, Zenon DEF Candidates, Chain
  <2>4. /\ k \in DOMAIN snap.entries <=> e.val # Absent
        /\ k \in DOMAIN snap.entries => snap.entries[k] = e
    BY <2>1, <2>3, CanonicalEntries
  <2>5. Wins(Flat(is), k, e) /\ Eligible(k) = Ranks(Flat(is), k)
    BY <2>1, <2>2, ResolvedWins, EligibleRanks
  <2>6. snap.names = Flat(is).sources
    BY <2>1, <2>2, BuiltEntries
  <2> HIDE DEF e
  <2>7. CASE e.val = Absent
    BY <2>4, <2>5, <2>7 DEF Wins
  <2>8. CASE e.val # Absent
    <3>1. PICK r \in Ranks(Flat(is), k) :
             /\ Named(Flat(is), r, e.srcs[1]) /\ \A q \in Ranks(Flat(is), k) : r <= q
             /\ r = 0 \/ Sole(Flat(is), k, Supply(Flat(is), r, k)) => e.val = Supply(Flat(is), r, k)
      BY <2>5, <2>8 DEF Wins, NoEntry
    <3>2. rankOf(snap, k) = r
      BY <2>2, <2>4, <2>6, <2>8, <3>1, RankOfName DEF rankOf
    <3>3. Eligible(k) \subseteq Int
      BY <2>5 DEF Ranks
    <3>4. Min(Eligible(k)) = r
      BY <2>5, <3>1, <3>3 DEF Min
    <3>5. PICK p \in CountingName(k, LayerOf(r)) : Supply(Flat(is), r, k) = LayerOf(r)[p]
      BY <2>1, <3>1, SupplyOfLayer
    <3>6. snap.entries[k].val = LayerOf(r)[p] \/ MayBeJoined(k, LayerOf(r)[p])
      <4>1. CASE r = 0 \/ Sole(Flat(is), k, Supply(Flat(is), r, k))
        BY <2>4, <2>8, <3>1, <3>5, <4>1
      <4>2. CASE r # 0 /\ ~Sole(Flat(is), k, Supply(Flat(is), r, k))
        <5>1. r \in Int /\ r > 0
          BY <4>2 DEF Ranks
        <5>2. 0 \notin Eligible(k)
          BY <2>5, <3>1, <5>1
        <5> QED BY <2>2, <3>5, <4>2, <5>2 DEF Sole, MayBeJoined
      <4> QED BY <4>1, <4>2
    <3> QED BY <2>4, <2>5, <2>8, <3>1, <3>2, <3>4, <3>5, <3>6
  <2> QED BY <2>7, <2>8
<1>2. SnapshotsSpec => []SnapshotsInv
  BY SnapshotsAreBuilt
<1> QED BY <1>1, <1>2, PTL

\* Under the same hypothesis, an alias of a key reads as the key itself does
\* (Snapshot.read).
THEOREM AliasReads ==
  ASSUME AliasesEnd
  PROVE  SnapshotsSpec => []AliasReadsAsCanonical
<1>1. SnapshotsInv => AliasReadsAsCanonical
  <2> SUFFICES ASSUME SnapshotsInv,
                      NEW x \in DOMAIN snap.aliases \cap DOMAIN snap.entries, NEW m \in ReadModes
               PROVE  read(snap, x, m) = read(snap, resolveAliasChain(x, snap.aliases), m)
    BY DEF AliasReadsAsCanonical
  <2>1. is \in Layerings /\ snap = buildSnapshot(is) /\ IsLayering(is) /\ ChainsEnd(is.aliases)
    <3>1. snap # NoSnap
      BY DEF NoSnap, EmptyFn
    <3> QED BY <3>1, SnapshotsAssumption DEF SnapshotsInv, AliasesEnd
  <2>2. snap.aliases = is.aliases
    BY <2>1, BuiltEntries
  <2> DEFINE c == resolveAliasChain(x, snap.aliases)
  <2>3. c \in DOMAIN snap.entries /\ c \notin DOMAIN snap.aliases /\ snap.entries[x] = snap.entries[c]
    BY <2>1, <2>2, CanonicalEntries
  <2> HIDE DEF c
  <2>4. Own(snap, x) = Own(snap, c)
    BY <2>3 DEF Own
  <2> QED BY <2>3, <2>4 DEF read, c
<1>2. SnapshotsSpec => []SnapshotsInv
  BY SnapshotsAreBuilt
<1> QED BY <1>1, <1>2, PTL
\* Under MergeAppend, for every choice of layers, pins and aliases: a key that
\* Set gives nothing, and everything else that may supply it a slice, has the
\* elements of all of these slices, the last source's or the default's first
\* (resolveKey, resolveAppend, mergeValues).
THEOREM AppendsJoin == SnapshotsSpec => []AppendConcatenates
<1>1. SnapshotsInv => AppendConcatenates
  <2> DEFINE n == Len(is.sources)
             of(k, i) == IF i = n + 1 THEN layerGet(flattenLayer(is.defaults), k, is)
                         ELSE sourceGet(is.sources[i], k, is)
             lists(k) == [i \in 1..(n + 1) |-> IF i \in Eligible(k) THEN of(k, i).elems ELSE <<>>]
  <2> SUFFICES ASSUME SnapshotsInv, Built, is.append, NEW k \in Canonical(snap, DOMAIN snap.entries),
                      0 \notin Eligible(k), \A i \in Eligible(k) : of(k, i).kind = "slice"
               PROVE  snap.entries[k].val = SliceOf(JoinedUp(lists(k)))
    BY DEF AppendConcatenates
  <2> DEFINE f == Flat(is)
             r == Eligible(k)
             ls == lists(k)
             X == UNION {ToSet(of(k, i).elems) : i \in r}
  <2>1. is \in Layerings /\ snap = buildSnapshot(is) /\ IsLayering(is)
    BY SnapshotsAssumption DEF SnapshotsInv, Built
  <2>2. /\ IsLayering(f) /\ f.explicits = flattenLayer(is.explicits) /\ f.defaults = flattenLayer(is.defaults)
        /\ f.sources = is.sources /\ f.view = is.view /\ f.aliases = is.aliases /\ f.pins = is.pins
        /\ f.append = is.append
    BY <2>1, FlatIsLayering DEF Flat
  <2> HIDE DEF f
  <2>3. n \in Nat /\ n = Len(f.sources)
    BY <2>1, <2>2 DEF IsLayering
  <2>4. snap.entries[k] = resolveKey(k, f) /\ resolveKey(k, f).val # Absent
    <3>1. k \in DOMAIN snap.entries /\ k \notin DOMAIN is.aliases
      BY <2>1, BuiltEntries DEF Canonical
    <3>2. k \notin Stamped(is)
      BY <3>1 DEF Stamped
    <3>3. k \in Found(is) /\ snap.entries[k] = resolveKey(k, Flat(is))
      BY <2>1, <3>1, <3>2, BuiltEntries
    <3> QED BY <3>3 DEF Found, f
  <2>5. r = Ranks(f, k)
    BY <2>1, EligibleRanks DEF f
  <2>6. /\ \A i \in 1..n : of(k, i) = sourceGet(f.sources[i], k, f)
        /\ of(k, n + 1) = layerGet(f.defaults, k, f)
    BY <2>2, <2>3 DEF sourceGet, layerGet
  <2> HIDE DEF of
  <2>7. /\ \A i \in 1..n : of(k, i) # Absent => IsValue(of(k, i))
        /\ of(k, n + 1) # Absent => IsValue(of(k, n + 1))
    BY <2>2, <2>3, <2>6, LayersSupply
  <2> HIDE DEF r, n
  <2>8. /\ layerGet(f.explicits, k, f) = Absent
        /\ \A i \in r : i \in 1..(n + 1) /\ of(k, i) # Absent
    BY <2>3, <2>5, <2>6 DEF Ranks, r
  <2>9. \A i \in r : of(k, i) = SliceOf(of(k, i).elems) /\ of(k, i).elems \in Seq(X)
    <3> TAKE i \in r
    <3>1. i \in 1..n \/ i = n + 1
      BY <2>3, <2>8
    <3>2. IsValue(of(k, i)) /\ of(k, i).kind = "slice"
      BY <2>7, <2>8, <3>1 DEF r
    <3>3. of(k, i) = SliceOf(of(k, i).elems) /\ of(k, i).elems \in Seq(ToSet(of(k, i).elems))
      BY <3>2 DEF IsValue, SliceIsList
    <3>4. ToSet(of(k, i).elems) \subseteq X
      OBVIOUS
    <3> QED BY <3>3, <3>4, SeqMonotonic
  <2> HIDE DEF X
  <2>10. \A i \in 1..(n + 1) : ls[i] = IF i \in r THEN of(k, i).elems ELSE <<>>
    BY DEF r
  <2>11. ListsOf(ls, X, n + 1)
    <3>1. Len(ls) = n + 1
      BY <2>3
    <3>2. \A i \in 1..(n + 1) : ls[i] \in Seq(X)
      BY <2>9, <2>10, EmptySeq
    <3> QED BY <3>1, <3>2 DEF ListsOf
  <2> HIDE DEF ls
  <2>12. CASE k \notin DOMAIN f.pins
    <3>1. resolveKey(k, f) = resolveAppend(k, f)
      BY <2>2, <2>8, <2>12 DEF resolveKey, Otherwise, Entry
    <3>2. \A i \in 1..n : IF sourceGet(f.sources[i], k, f) = Absent THEN ls[i] = <<>>
                          ELSE sourceGet(f.sources[i], k, f) = SliceOf(ls[i])
      <4> TAKE i \in 1..n
      <4>1. i \in 1..(n + 1) /\ i \in 0..(n + 1) /\ i # 0 /\ i # n + 1
        BY <2>3
      <4>2. i \in r <=> sourceGet(f.sources[i], k, f) # Absent
        BY <2>3, <2>5, <2>12, <4>1 DEF Ranks
      <4> QED BY <2>6, <2>9, <2>10, <4>1, <4>2
    <3>3. IF layerGet(f.defaults, k, f) = Absent THEN ls[n + 1] = <<>>
          ELSE layerGet(f.defaults, k, f) = SliceOf(ls[n + 1])
      <4>1. n + 1 \in 1..(n + 1) /\ n + 1 \in 0..(n + 1) /\ n + 1 # 0 /\ n + 1 \notin 1..n
        BY <2>3
      <4>2. n + 1 \in r <=> layerGet(f.defaults, k, f) # Absent
        BY <2>3, <2>5, <2>12, <4>1 DEF Ranks
      <4> QED BY <2>6, <2>9, <2>10, <4>1, <4>2
    <3>4. resolveAppend(k, f).val = SliceOf(JoinedUp(ls))
      <4>1. GiveSlices(f, k, ls)
        BY <2>3, <3>2, <3>3 DEF GiveSlices
      <4> QED BY <2>2, <2>3, <2>4, <2>11, <3>1, <4>1, AppendJoins
    <3> QED BY <2>4, <3>1, <3>4 DEF ls
  <2>13. CASE k \in DOMAIN f.pins
    <3> DEFINE pin == f.pins[k]
    <3>1. pin \in ToSet(f.sources) /\ resolveKey(k, f).val = sourceGet(pin, k, f) /\ sourceGet(pin, k, f) # Absent
      BY <2>4, <2>8, <2>13 DEF resolveKey, Otherwise, Entry, NoEntry
    <3>2. PICK p \in 1..n : f.sources[p] = pin
      BY <2>2, <2>3, <3>1 DEF ToSet, IsLayering
    <3>3. \A i \in 1..n : f.sources[i] = pin => i = p
      BY <2>2, <2>3, <3>2 DEF IsLayering
    <3>4. p \in 1..(n + 1) /\ n + 1 \in Nat
      BY <2>3
    <3>5. \A i \in 1..(n + 1) : i \in r <=> i = p
      <4> TAKE i \in 1..(n + 1)
      <4>1. i \in 0..(n + 1) /\ i # 0 /\ (i \in 1..n <=> i # n + 1)
        BY <2>3
      <4>2. i \in r <=> i \in 1..n /\ sourceGet(f.sources[i], k, f) # Absent /\ f.sources[i] = pin
        BY <2>3, <2>5, <2>13, <4>1 DEF Ranks
      <4> QED BY <3>1, <3>2, <3>3, <4>2
    <3>6. \A i \in 1..(n + 1) : i # p => ls[i] = <<>>
      BY <2>10, <3>5
    <3>7. JoinedUp(ls) = ls[p]
      BY <2>11, <3>4, <3>6, JoinedOne
    <3>8. sourceGet(pin, k, f) = SliceOf(ls[p])
      BY <2>6, <2>9, <2>10, <3>2, <3>4, <3>5
    <3> QED BY <2>4, <3>1, <3>7, <3>8 DEF ls
  <2> QED BY <2>12, <2>13
<1>2. SnapshotsSpec => []SnapshotsInv
  BY SnapshotsAreBuilt
<1> QED BY <1>1, <1>2, PTL
-----------------------------------------------------------------------------
\* A path below another is that one with what is left put behind it.
LEMMA ConcatRest ==
  ASSUME NEW k, NEW q, IsPath(k), IsPath(q), Below(k, q)
  PROVE  k \o Rest(q, k) = q
<1>1. /\ k \in Seq(Segment) /\ q \in Seq(Segment) /\ Len(k) \in Nat /\ Len(q) \in Nat
      /\ Len(k) <= Len(q) /\ SubSeq(k, 1, Len(k)) = SubSeq(q, 1, Len(k))
  BY DEF IsPath, Below, IsStrictPrefix, IsPrefix
<1>2. SubSeq(k, 1, Len(k)) = k /\ SubSeq(q, 1, Len(q)) = q
  BY <1>1, SubSeqFull
<1>3. 1 \in 1..(Len(q) + 1) /\ Len(k) \in (1 - 1)..Len(q) /\ Len(q) \in Len(k)..Len(q)
  BY <1>1
<1>4. SubSeq(q, 1, Len(k)) \o SubSeq(q, Len(k) + 1, Len(q)) = SubSeq(q, 1, Len(q))
  BY <1>1, <1>3, ConcatAdjacentSubSeq
<1> QED BY <1>1, <1>2, <1>4 DEF Rest

\* An entry has a value field, whatever resolution finds.
LEMMA EntryShape ==
  ASSUME NEW l, NEW k
  PROVE  "val" \in DOMAIN resolveKey(k, l)
<1>1. "val" \in DOMAIN NoEntry
  BY DEF NoEntry
<1>2. \A v, srcs : "val" \in DOMAIN Entry(v, srcs)
  BY <1>1 DEF Entry
<1>3. "val" \in DOMAIN resolveShadow(k, l)
  BY <1>2 DEF resolveShadow, ShadowOf
<1>4. "val" \in DOMAIN resolveAppend(k, l)
  <2>1. \A vals, srcs : "val" \in DOMAIN Folded(vals, srcs)
    BY <1>1, <1>2 DEF Folded
  <2> QED BY <2>1, Zenon DEF resolveAppend, AppendOf
<1>5. \A e, f : "val" \in DOMAIN e /\ "val" \in DOMAIN f => "val" \in DOMAIN Otherwise(e, f)
  BY DEF Otherwise
<1> QED BY <1>1, <1>2, <1>3, <1>4, <1>5, Zenon DEF resolveKey

\* The key that writes a path of a tree last: no kept key below it has to do
\* with the path (setNested, parents first).
Writes(s, kept, k, p) ==
    /\ k \in kept /\ p \in LeavesAt(k, s.entries[k].val)
    /\ \A j \in kept : Below(k, j) => ~Related(j, p)

\* What the tree of some kept keys holds at a path is what one of them holds
\* there, at the key or at a leaf of its map (setNested).
LEMMA TreeIsOfKeys ==
  ASSUME NEW s, NEW kept
  PROVE  /\ \A p : p \in DOMAIN TreeOf(s, kept) <=> \E k \in kept : Writes(s, kept, k, p)
         /\ \A p \in DOMAIN TreeOf(s, kept) : \E k \in kept :
               Writes(s, kept, k, p) /\ TreeOf(s, kept)[p] = LeafOf(k, s.entries[k].val, p)
<1> DEFINE writer(k, q) == \A j \in kept : Below(k, j) => ~Related(j, q)
           leaves == [k \in kept |-> {q \in LeavesAt(k, s.entries[k].val) : writer(k, q)}]
           by(q) == CHOOSE k \in kept : q \in leaves[k]
           paths == UNION {leaves[k] : k \in kept}
<1>1. TreeOf(s, kept) = [q \in paths |-> LeafOf(by(q), s.entries[by(q)].val, q)]
  BY Zenon DEF TreeOf
<1>2. \A k \in kept : \A q : q \in leaves[k] <=> Writes(s, kept, k, q)
  BY DEF Writes
<1>3. \A p : p \in paths <=> \E k \in kept : p \in leaves[k]
  OBVIOUS
<1>4. ASSUME NEW p \in paths
      PROVE  \E k \in kept : Writes(s, kept, k, p) /\ TreeOf(s, kept)[p] = LeafOf(k, s.entries[k].val, p)
  <2>1. \E k \in kept : p \in leaves[k]
    BY <1>3
  <2>2. by(p) \in kept /\ p \in leaves[by(p)]
    BY <2>1
  <2>3. TreeOf(s, kept)[p] = LeafOf(by(p), s.entries[by(p)].val, p)
    BY <1>1
  <2> HIDE DEF by
  <2> QED BY <1>2, <2>2, <2>3
<1>5. DOMAIN TreeOf(s, kept) = paths
  BY <1>1
<1> HIDE DEF paths
<1>6. \A p : p \in DOMAIN TreeOf(s, kept) <=> \E k \in kept : Writes(s, kept, k, p)
  BY <1>2, <1>3, <1>5
<1> QED BY <1>4, <1>5, <1>6

-----------------------------------------------------------------------------
(* Paths one below the other.                                              *)

\* A prefix, segment by segment.
LEMMA PrefixSegments ==
  ASSUME NEW p, NEW q, IsPath(p), IsPath(q)
  PROVE  IsPrefix(p, q) <=> Len(p) <= Len(q) /\ \A i \in 1..Len(p) : p[i] = q[i]
<1>1. p \in Seq(Segment) /\ q \in Seq(Segment) /\ Len(p) \in Nat /\ Len(q) \in Nat /\ SubSeq(p, 1, Len(p)) = p
  BY SubSeqFull DEF IsPath
<1> SUFFICES ASSUME Len(p) <= Len(q)
             PROVE  p = SubSeq(q, 1, Len(p)) <=> \A i \in 1..Len(p) : p[i] = q[i]
  BY <1>1 DEF IsPrefix
<1> DEFINE c == SubSeq(q, 1, Len(p))
<1>2. \A i \in 1..Len(p) : q[i] \in Segment
  BY <1>1
<1>3. /\ c \in Seq(Segment)
      /\ Len(c) = IF 1 <= Len(p) THEN Len(p) - 1 + 1 ELSE 0
      /\ \A i \in 1..(Len(p) - 1 + 1) : c[i] = q[1 + i - 1]
  BY <1>1, <1>2, SubSeqProperties
<1>4. Len(c) = Len(p) /\ \A i \in 1..Len(p) : c[i] = q[i]
  BY <1>1, <1>3
<1> HIDE DEF c
<1>5. (\A i \in 1..Len(p) : p[i] = q[i]) => p = c
  BY <1>1, <1>3, <1>4, SeqEqual
<1> QED BY <1>4, <1>5 DEF c

\* Prefixes order paths, and those of one path in a line.
LEMMA PathOrder ==
  ASSUME NEW p, NEW q, NEW r, IsPath(p), IsPath(q), IsPath(r)
  PROVE  /\ IsPrefix(p, q) <=> p = q \/ Below(p, q)
         /\ Below(p, q) => Len(p) < Len(q)
         /\ IsPrefix(p, q) /\ IsPrefix(q, r) => IsPrefix(p, r)
         /\ IsPrefix(p, r) /\ IsPrefix(q, r) /\ Len(p) <= Len(q) => IsPrefix(p, q)
<1>1. p \in Seq(Segment) /\ q \in Seq(Segment) /\ Len(p) \in Nat /\ Len(q) \in Nat /\ Len(r) \in Nat
  BY DEF IsPath
<1>2. IsPrefix(p, p)
  BY PrefixSegments, <1>1
<1>3. IsPrefix(p, q) /\ Len(p) = Len(q) => p = q
  BY PrefixSegments, <1>1, SeqEqual
<1>4. IsPrefix(p, q) => Len(p) <= Len(q)
  BY PrefixSegments
<1>5. IsPrefix(p, q) /\ IsPrefix(q, r) => IsPrefix(p, r)
  <2> SUFFICES ASSUME IsPrefix(p, q), IsPrefix(q, r) PROVE IsPrefix(p, r)
    OBVIOUS
  <2>1. Len(p) <= Len(q) /\ Len(q) <= Len(r) /\ (\A i \in 1..Len(p) : p[i] = q[i]) /\ \A i \in 1..Len(q) : q[i] = r[i]
    BY PrefixSegments
  <2>2. Len(p) <= Len(r) /\ \A i \in 1..Len(p) : p[i] = r[i]
    BY <1>1, <2>1
  <2> QED BY <2>2, PrefixSegments
<1>6. IsPrefix(p, r) /\ IsPrefix(q, r) /\ Len(p) <= Len(q) => IsPrefix(p, q)
  <2> SUFFICES ASSUME IsPrefix(p, r), IsPrefix(q, r), Len(p) <= Len(q) PROVE IsPrefix(p, q)
    OBVIOUS
  <2>1. (\A i \in 1..Len(p) : p[i] = r[i]) /\ \A i \in 1..Len(q) : q[i] = r[i]
    BY PrefixSegments
  <2>2. \A i \in 1..Len(p) : p[i] = q[i]
    BY <1>1, <2>1
  <2> QED BY <2>2, PrefixSegments
<1> QED BY <1>1, <1>2, <1>3, <1>4, <1>5, <1>6 DEF Below, IsStrictPrefix

\* A key is a prefix of another when it is that key or above it, and then it is
\* the shorter.
LEMMA PrefixOrBelow ==
  ASSUME NEW p, NEW q, IsPath(p), IsPath(q)
  PROVE  /\ IsPrefix(p, q) <=> p = q \/ Below(p, q)
         /\ Below(p, q) => Len(p) < Len(q)
BY PathOrder

\* The prefixes of a prefix are prefixes.
LEMMA PrefixOfPrefix ==
  ASSUME NEW p, NEW q, NEW r, IsPath(p), IsPath(q), IsPath(r), IsPrefix(p, q), IsPrefix(q, r)
  PROVE  IsPrefix(p, r)
BY PathOrder

\* Of two prefixes of a key one is a prefix of the other.
LEMMA PrefixesOfOne ==
  ASSUME NEW p, NEW q, NEW r, IsPath(p), IsPath(q), IsPath(r), IsPrefix(p, r), IsPrefix(q, r)
  PROVE  \/ IsPrefix(p, q)
         \/ IsPrefix(q, p)
<1>1. Len(p) \in Nat /\ Len(q) \in Nat
  BY DEF IsPath
<1>2. CASE Len(p) <= Len(q)
  BY <1>2, PathOrder
<1>3. CASE Len(q) <= Len(p)
  BY <1>3, PathOrder
<1> QED BY <1>1, <1>2, <1>3

\* Two prefixes of one path are related, and so is what is related to a path
\* with what the path lies below.
LEMMA RelatedPrefixes ==
  ASSUME NEW j, NEW w, NEW x, IsPath(j), IsPath(w), IsPath(x), IsPrefix(w, x), Related(j, x)
  PROVE  Related(j, w)
<1>1. Len(j) \in Nat /\ Len(w) \in Nat
  BY DEF IsPath
<1>2. CASE IsPrefix(j, x)
  <2>1. IsPrefix(j, w) \/ IsPrefix(w, j)
    BY <1>1, <1>2, PathOrder
  <2> QED BY <2>1, PathOrder DEF Related
<1>3. CASE Below(x, j)
  BY <1>3, PathOrder DEF Related
<1> QED BY <1>2, <1>3 DEF Related

\* One path is below another exactly when it is below it behind a third.
LEMMA BelowBehind ==
  ASSUME NEW k, NEW t, NEW q, IsPath(k), IsPath(t), IsPath(q)
  PROVE  /\ IsPath(k \o t) /\ IsPath(k \o q)
         /\ Below(t, q) <=> Below(k \o t, k \o q)
         /\ k \o t = k \o q <=> t = q
<1> DEFINE kt == k \o t
           kq == k \o q
<1>1. k \in Seq(Segment) /\ t \in Seq(Segment) /\ q \in Seq(Segment) /\ Len(k) \in Nat /\ Len(t) \in Nat /\ Len(q) \in Nat
  BY DEF IsPath
<1>2. /\ kt \in Seq(Segment) /\ Len(kt) = Len(k) + Len(t)
      /\ \A i \in 1..(Len(k) + Len(t)) : kt[i] = IF i <= Len(k) THEN k[i] ELSE t[i - Len(k)]
  BY <1>1, ConcatProperties
<1>3. /\ kq \in Seq(Segment) /\ Len(kq) = Len(k) + Len(q)
      /\ \A i \in 1..(Len(k) + Len(q)) : kq[i] = IF i <= Len(k) THEN k[i] ELSE q[i - Len(k)]
  BY <1>1, ConcatProperties
<1> HIDE DEF kt, kq
<1>4. IsPath(kt) /\ IsPath(kq)
  BY <1>2, <1>3 DEF IsPath
<1>5. IsPrefix(t, q) => IsPrefix(kt, kq)
  <2> SUFFICES ASSUME IsPrefix(t, q) PROVE IsPrefix(kt, kq)
    OBVIOUS
  <2>1. Len(t) <= Len(q) /\ \A i \in 1..Len(t) : t[i] = q[i]
    BY PrefixSegments
  <2>2. \A i \in 1..Len(kt) : kt[i] = kq[i]
    <3> TAKE i \in 1..Len(kt)
    <3>1. i \in 1..(Len(k) + Len(t)) /\ i \in 1..(Len(k) + Len(q)) /\ (i <= Len(k) \/ i - Len(k) \in 1..Len(t))
      BY <1>1, <1>2, <2>1
    <3> QED BY <1>2, <1>3, <2>1, <3>1
  <2>3. Len(kt) <= Len(kq)
    BY <1>1, <1>2, <1>3, <2>1
  <2> QED BY <1>4, <2>2, <2>3, PrefixSegments
<1>6. IsPrefix(kt, kq) => IsPrefix(t, q)
  <2> SUFFICES ASSUME IsPrefix(kt, kq) PROVE IsPrefix(t, q)
    OBVIOUS
  <2>1. Len(kt) <= Len(kq) /\ \A i \in 1..Len(kt) : kt[i] = kq[i]
    BY <1>4, PrefixSegments
  <2>2. \A i \in 1..Len(t) : t[i] = q[i]
    <3> TAKE i \in 1..Len(t)
    <3>1. i + Len(k) \in 1..Len(kt) /\ i + Len(k) \in 1..(Len(k) + Len(t)) /\ ~(i + Len(k) <= Len(k)) /\ (i + Len(k)) - Len(k) = i
          /\ i + Len(k) \in 1..(Len(k) + Len(q))
      BY <1>1, <1>2, <1>3, <2>1
    <3>2. kt[i + Len(k)] = t[i] /\ kq[i + Len(k)] = q[i]
      BY <1>2, <1>3, <3>1
    <3> QED BY <2>1, <3>1, <3>2
  <2> QED BY <1>1, <1>2, <1>3, <2>1, <2>2, PrefixSegments
<1>7. kt = kq <=> t = q
  <2>1. t = q => kt = kq
    BY DEF kt, kq
  <2>2. ASSUME kt = kq PROVE t = q
    <3>1. IsPrefix(kt, kq) /\ Len(t) = Len(q)
      BY <1>1, <1>2, <1>3, <1>4, <2>2, PathOrder
    <3> QED BY <1>1, <1>6, <3>1, PathOrder
  <2> QED BY <2>1, <2>2
<1>8. Below(t, q) <=> Below(kt, kq)
  BY <1>5, <1>6, <1>7 DEF Below, IsStrictPrefix
<1> QED BY <1>4, <1>7, <1>8 DEF kt, kq
-----------------------------------------------------------------------------
(* Reads of a snapshot.                                                    *)

\* Every entry of a snapshot is at a path, holds a value and has a rank, and
\* what is listed is an entry (buildSnapshot).
WellBuilt(s) ==
    /\ s.listed \subseteq DOMAIN s.entries
    /\ \A k \in DOMAIN s.entries : IsPath(k) /\ IsValue(s.entries[k].val) /\ rankOf(s, k) \in Nat

\* What is published is, whatever the layers.
LEMMA SnapIsWellBuilt ==
  ASSUME SnapshotsInv
  PROVE  WellBuilt(snap)
<1>1. CASE snap = NoSnap
  BY <1>1 DEF NoSnap, EmptyFn, WellBuilt
<1>2. CASE snap # NoSnap
  <2>1. snap = buildSnapshot(is) /\ IsLayering(is)
    BY <1>2, SnapshotsAssumption DEF SnapshotsInv
  <2>2. snap.listed \subseteq DOMAIN snap.entries /\ snap.names = is.sources
    BY <2>1, BuiltEntries
  <2>3. ASSUME NEW k \in DOMAIN snap.entries PROVE rankOf(snap, k) \in Nat
    <3>1. PICK c : snap.entries[k] = resolveKey(c, Flat(is))
      BY <2>1, BuiltEntries, Zenon
    <3>2. Wins(Flat(is), c, snap.entries[k]) /\ IsLayering(Flat(is)) /\ Flat(is).sources = is.sources
      BY <2>1, <3>1, FlatIsLayering, ResolvedWins
    <3>3. IsValue(snap.entries[k].val)
      BY <2>1, EntriesHoldValues
    <3>4. snap.entries[k] # NoEntry
      BY <3>3 DEF NoEntry, IsValue, Absent
    <3>5. PICK r \in Ranks(Flat(is), c) : Named(Flat(is), r, snap.entries[k].srcs[1])
      BY <3>2, <3>4 DEF Wins
    <3>6. rankOf(snap, k) = r
      BY <2>2, <3>2, <3>5, RankOfName DEF rankOf
    <3> QED BY <3>5, <3>6 DEF Ranks
  <2> QED BY <2>1, <2>2, <2>3, EntriesHoldValues DEF WellBuilt
<1> QED BY <1>1, <1>2

\* A map has an entry at a path below its key when a leaf of it is there or
\* below (entryIn).
LEMMA HoldsEntry ==
  ASSUME NEW a, NEW p, NEW v, IsPath(a), IsPath(p), Below(a, p), IsValue(v), IsMap(v)
  PROVE  /\ entryIn(v, Rest(p, a)) # Absent <=> \E r \in DOMAIN v.at : a \o r = p \/ Below(p, a \o r)
         /\ \A r \in DOMAIN v.at : a \o r = p => entryIn(v, Rest(p, a)) = v.at[r]
<1> DEFINE t == Rest(p, a)
<1>1. IsPath(t) /\ a \o t = p
  <2>1. IsPath(t)
    <3>1. p \in Seq(Segment) /\ Len(a) \in Nat /\ Len(p) \in Nat
      BY DEF IsPath
    <3>2. \A i \in (Len(a) + 1)..Len(p) : p[i] \in Segment
      BY <3>1
    <3> QED BY <3>1, <3>2, SubSeqProperties DEF Rest, IsPath
  <2> QED BY <2>1, ConcatRest
<1> HIDE DEF t
<1>2. \A r \in DOMAIN v.at : IsPath(r) /\ IsLeaf(v.at[r])
  BY DEF IsValue
<1>3. \A r \in DOMAIN v.at : (a \o r = p <=> r = t) /\ (Below(p, a \o r) <=> Below(t, r))
  BY <1>1, <1>2, BelowBehind
<1>4. DOMAIN Under(v.at, t) = {} <=> ~ \E r \in DOMAIN v.at : Below(t, r)
  BY DEF Under
<1>5. \A f : MapOf(f) # Absent
  BY DEF MapOf, Absent
<1>6. \A r \in DOMAIN v.at : v.at[r] # Absent
  BY <1>2 DEF IsLeaf, Absent
<1>7. entryIn(v, t) # Absent <=> \E r \in DOMAIN v.at : r = t \/ Below(t, r)
  BY <1>4, <1>5, <1>6 DEF entryIn
<1>8. t \in DOMAIN v.at => entryIn(v, t) = v.at[t]
  BY DEF entryIn
<1> QED BY <1>3, <1>7, <1>8 DEF t

\* Of the parents whose map has an entry there is a best one: of the highest
\* layer and, in it, the longest (lookupInParent).
LEMMA BestParent ==
  ASSUME NEW s, WellBuilt(s), NEW k, IsPath(k), ParentsHolding(s, k) # {}
  PROVE  LET b == bestParent(s, ParentsHolding(s, k))
         IN  /\ b \in ParentsHolding(s, k)
             /\ \A a \in ParentsHolding(s, k) \ {b} :
                   rankOf(s, b) < rankOf(s, a) \/ (rankOf(s, b) = rankOf(s, a) /\ Len(a) < Len(b))
<1> DEFINE H == ParentsHolding(s, k)
           Best(b) == \A a \in H \ {b} : rankOf(s, b) < rankOf(s, a) \/ (rankOf(s, b) = rankOf(s, a) /\ Len(a) < Len(b))
           ranks == {rankOf(s, a) : a \in H}
<1>1. \A a \in H : IsPath(a) /\ Below(a, k) /\ rankOf(s, a) \in Nat /\ Len(a) \in Nat
  BY DEF WellBuilt, ParentsHolding, IsPath
<1>2. \A a, b \in H : Len(a) = Len(b) => a = b
  <2> SUFFICES ASSUME NEW a \in H, NEW b \in H, Len(a) = Len(b) PROVE a = b
    OBVIOUS
  <2>1. IsPath(a) /\ IsPath(b) /\ IsPrefix(a, k) /\ IsPrefix(b, k) /\ Len(a) \in Nat
    BY <1>1, PrefixOrBelow
  <2>2. IsPrefix(a, b) \/ IsPrefix(b, a)
    BY <2>1, PrefixesOfOne
  <2>3. ~(Len(a) < Len(b)) /\ ~(Len(b) < Len(a))
    BY <2>1
  <2> QED BY <2>1, <2>2, <2>3, PrefixOrBelow
<1> HIDE DEF H
<1>3. PICK m \in ranks : \A j \in ranks : m <= j
  <2>1. ranks \subseteq Nat /\ ranks # {}
    BY <1>1 DEF H
  <2> HIDE DEF ranks
  <2> QED BY <2>1, LeastNat
<1> DEFINE T == {a \in H : rankOf(s, a) = m}
<1>4. PICK b \in T : \A a \in T : Len(a) <= Len(b)
  <2>1. T # {}
    BY <1>3
  <2>2. Len(k) \in Nat /\ \A a \in T : IsPath(a) /\ Len(a) <= Len(k)
    <3>1. Len(k) \in Nat
      BY DEF IsPath
    <3>2. ASSUME NEW a \in T PROVE IsPath(a) /\ Len(a) <= Len(k)
      <4>1. IsPath(a) /\ Below(a, k) /\ Len(a) \in Nat
        BY <1>1
      <4> QED BY <3>1, <4>1, PrefixOrBelow
    <3> QED BY <3>1, <3>2
  <2> HIDE DEF T
  <2> QED BY <2>1, <2>2, LongestPath
<1>5. b \in H /\ Best(b)
  <2>1. m \in Nat /\ \A a \in H : m <= rankOf(s, a)
    BY <1>1, <1>3
  <2>2. b \in H /\ rankOf(s, b) = m
    BY <1>4
  <2>3. ASSUME NEW a \in H \ {b}
        PROVE  rankOf(s, b) < rankOf(s, a) \/ (rankOf(s, b) = rankOf(s, a) /\ Len(a) < Len(b))
    <3>0. a \in H /\ a # b /\ rankOf(s, a) \in Nat /\ Len(a) \in Nat /\ Len(b) \in Nat
      BY <1>1, <2>2
    <3>1. CASE rankOf(s, a) = m
      <4>1. Len(a) <= Len(b) /\ Len(a) # Len(b)
        BY <1>2, <1>4, <2>2, <3>0, <3>1
      <4> QED BY <2>2, <3>0, <3>1, <4>1
    <3>2. CASE rankOf(s, a) # m
      BY <2>1, <2>2, <3>0, <3>2
    <3> QED BY <3>1, <3>2
  <2> QED BY <2>2, <2>3
<1>6. bestParent(s, H) = CHOOSE c \in H : Best(c)
  BY DEF bestParent
<1> HIDE DEF Best
<1>7. bestParent(s, H) \in H /\ Best(bestParent(s, H))
  BY <1>5, <1>6
<1> QED BY <1>7 DEF H, Best

\* The leaves of a value are at or below the key that holds it.
LEMMA LeafPaths ==
  ASSUME NEW k, NEW v, IsPath(k), IsValue(v), NEW p \in LeavesAt(k, v)
  PROVE  /\ IsPath(p) /\ IsPrefix(k, p)
         /\ p # k => IsMap(v) /\ Below(k, p) /\ \E r \in DOMAIN v.at : p = k \o r
<1>1. CASE p = k
  BY <1>1, PathOrder
<1>2. CASE p # k
  <2>1. IsMap(v) /\ \E r \in DOMAIN v.at : p = k \o r
    BY <1>2 DEF LeavesAt, isNonEmptyMap
  <2>2. PICK r \in DOMAIN v.at : p = k \o r
    BY <2>1
  <2>3. IsPath(r) /\ r # <<>>
    BY <2>1, <2>2 DEF IsValue
  <2>4. IsPath(p) /\ Below(k, p)
    BY <2>2, <2>3, BelowConcat
  <2> QED BY <2>1, <2>4, PathOrder
<1> QED BY <1>1, <1>2

\* No key considered is of a higher layer than one that loses to none and has
\* a path with it in common.
LEMMA NoneBeats ==
  ASSUME NEW s, NEW C, \A k \in C : IsPath(k) /\ rankOf(s, k) \in Nat,
         NEW w \in C \ shadowedKeys(s, C), NEW j \in C, NEW x, IsPath(x), IsPrefix(w, x), Related(j, x)
  PROVE  rankOf(s, w) <= rankOf(s, j)
<1>1. IsPath(j) /\ IsPath(w) /\ rankOf(s, w) \in Nat /\ rankOf(s, j) \in Nat
  OBVIOUS
<1>2. Related(j, w)
  BY <1>1, RelatedPrefixes
<1> QED BY <1>1, <1>2 DEF shadowedKeys

\* A key below the one that writes a path, and related to the path, is of a
\* lower layer: it has lost to another.
LEMMA LaterLoses ==
  ASSUME NEW s, NEW C, \A k \in C : IsPath(k) /\ rankOf(s, k) \in Nat,
         NEW w \in C \ shadowedKeys(s, C), NEW p, NEW k \in C, Below(w, k), Related(k, p),
         \A j \in C \ shadowedKeys(s, C) : Below(w, j) => ~Related(j, p)
  PROVE  rankOf(s, w) < rankOf(s, k)
<1>1. IsPath(k) /\ IsPath(w) /\ IsPrefix(w, k) /\ rankOf(s, w) \in Nat /\ rankOf(s, k) \in Nat
  BY PathOrder
<1>2. PICK j \in C : Related(j, k) /\ rankOf(s, j) < rankOf(s, k)
  BY DEF shadowedKeys
<1>3. rankOf(s, w) <= rankOf(s, j) /\ rankOf(s, j) \in Nat
  BY <1>1, <1>2, NoneBeats
<1> QED BY <1>1, <1>2, <1>3

\* What some keys were written as is what a read of the path finds: C are the
\* keys considered, w one of them that loses to no related one and that no
\* longer such key replaces at p; what a map above p holds is of C, or listed in
\* C from no lower layer (setNested against Snapshot.read).
LEMMA WriterReads ==
  ASSUME NEW s, WellBuilt(s), NEW C, C \subseteq Canonical(s, s.listed),
         NEW w \in C \ shadowedKeys(s, C), NEW p \in LeavesAt(w, s.entries[w].val),
         \A j \in C \ shadowedKeys(s, C) : Below(w, j) => ~Related(j, p),
         \A x \in DOMAIN s.aliases : ~IsPrefix(x, p),
         p \in DOMAIN s.entries => p \in C,
         \A a \in ParentsHolding(s, p) \ C : \A r \in DOMAIN s.entries[a].val.at :
            Related(a \o r, p) => a \o r \in C /\ rankOf(s, a \o r) <= rankOf(s, a)
  PROVE  read(s, p, "exact").val = LeafOf(w, s.entries[w].val, p)
<1> DEFINE kept == C \ shadowedKeys(s, C)
           H == ParentsHolding(s, p)
           b == bestParent(s, H)
           rank(k) == rankOf(s, k)
<1>1. \A k \in C : k \in DOMAIN s.entries /\ k \notin DOMAIN s.aliases /\ IsPath(k)
                  /\ IsValue(s.entries[k].val) /\ rank(k) \in Nat
  BY DEF Canonical, WellBuilt
<1>2. \A k \in kept : k \in C /\ \A j \in C : j # k /\ Related(j, k) => rank(k) <= rank(j)
  BY <1>1 DEF shadowedKeys
<1>3. \A k \in C \ kept : \E j \in C : Related(j, k) /\ rank(j) < rank(k)
  BY DEF shadowedKeys
<1>4. /\ IsPath(p) /\ IsPrefix(w, p)
      /\ p # w => IsMap(s.entries[w].val) /\ Below(w, p)
                  /\ \E r \in DOMAIN s.entries[w].val.at : p = w \o r
  BY <1>1, LeafPaths
<1>5. ASSUME NEW x, NEW j \in C, IsPath(x), IsPrefix(w, x), Related(j, x)
      PROVE  rank(w) <= rank(j)
  BY <1>1, <1>5, NoneBeats
<1>6. ASSUME NEW k \in C, Below(w, k), Related(k, p) PROVE rank(w) < rank(k)
  BY <1>1, <1>6, LaterLoses
<1>7. \A k : IsPath(k) /\ Below(k, p) => Related(k, p) /\ k # p
  <2> SUFFICES ASSUME NEW k, IsPath(k), Below(k, p) PROVE Related(k, p) /\ k # p
    OBVIOUS
  <2>1. IsPrefix(k, p) /\ Len(k) < Len(p) /\ Len(p) \in Nat
    BY <1>4, PrefixOrBelow DEF IsPath
  <2> QED BY <2>1 DEF Related
<1>8. \A a \in H : /\ a \in DOMAIN s.entries /\ IsPath(a) /\ Below(a, p) /\ IsMap(s.entries[a].val)
                  /\ IsValue(s.entries[a].val) /\ rank(a) \in Nat
                  /\ entryIn(s.entries[a].val, Rest(p, a)) # Absent
  BY DEF WellBuilt, ParentsHolding
<1>9. ASSUME NEW a \in H, a \notin C
      PROVE  \E q \in C : rank(q) <= rank(a) /\ IsPath(q) /\ (q = p \/ Below(p, q))
  <2>1. PICK r \in DOMAIN s.entries[a].val.at : a \o r = p \/ Below(p, a \o r)
    BY <1>4, <1>8, HoldsEntry
  <2>2. Related(a \o r, p)
    BY <1>4, <2>1, PathOrder DEF Related
  <2>3. a \o r \in C /\ rank(a \o r) <= rank(a)
    BY <1>9, <2>2
  <2> QED BY <1>1, <2>1, <2>3
<1>10. p \notin DOMAIN s.aliases
  BY <1>4, PathOrder
<1> HIDE DEF rank, H, b
<1>11. CASE p = w
  <2>1. p \in C
    BY <1>11, <1>1
  <2>2. ASSUME NEW a \in H, rank(a) < rank(p) PROVE FALSE
    <3>1. rank(p) \in Nat /\ rank(a) \in Nat
      BY <1>1, <1>8, <2>1
    <3>2. CASE a \in C
      BY <1>2, <1>7, <1>8, <1>11, <2>1, <2>2, <3>1, <3>2
    <3>3. CASE a \notin C
      <4>1. PICK q \in C : rank(q) <= rank(a) /\ IsPath(q) /\ (q = p \/ Below(p, q))
        BY <1>9, <3>3
      <4>2. Related(q, p) /\ rank(q) \in Nat
        BY <1>1, <1>4, <4>1, PathOrder DEF Related
      <4>3. rank(p) <= rank(q)
        BY <1>2, <1>11, <3>1, <4>1, <4>2
      <4> QED BY <2>2, <3>1, <4>1, <4>2, <4>3
    <3> QED BY <3>2, <3>3
  <2>3. p \notin parentMapWins(s)
    BY <2>2 DEF parentMapWins, H, rank
  <2>4. read(s, p, "exact") = Own(s, p)
    BY <1>1, <1>10, <2>1, <2>3 DEF read
  <2> QED BY <1>11, <2>4 DEF Own, LeafOf
<1>12. CASE p # w
  <2>1. PICK r \in DOMAIN s.entries[w].val.at : p = w \o r
    BY <1>4, <1>12
  <2>2. w \in H /\ entryIn(s.entries[w].val, Rest(p, w)) = s.entries[w].val.at[r] /\ Rest(p, w) = r
    <3>1. IsPath(w) /\ IsValue(s.entries[w].val) /\ w \in DOMAIN s.entries
      BY <1>1
    <3>2. IsPath(r) /\ r # <<>> /\ IsLeaf(s.entries[w].val.at[r])
      BY <1>4, <1>12, <2>1, <3>1 DEF IsValue
    <3>3. entryIn(s.entries[w].val, Rest(p, w)) = s.entries[w].val.at[r]
      <4>1. Rest(p, w) = r
        BY <2>1, <3>1, <3>2, BelowConcat
      <4>2. entryIn(s.entries[w].val, r) = s.entries[w].val.at[r]
        BY DEF entryIn
      <4> QED BY <4>1, <4>2
    <3>4. entryIn(s.entries[w].val, Rest(p, w)) # Absent
      BY <3>2, <3>3 DEF IsLeaf, Absent
    <3>5. Rest(p, w) = r
      BY <2>1, <3>1, <3>2, BelowConcat
    <3> QED BY <1>4, <1>12, <3>1, <3>3, <3>4, <3>5 DEF H, ParentsHolding
  <2>3. rank(w) \in Nat /\ w \in C
    BY <1>1
  <2>4. ASSUME p \in DOMAIN s.entries PROVE rank(w) < rank(p) /\ p \in C
    <3>1. p \in C
      BY <2>4
    <3> QED BY <1>4, <1>6, <1>12, <3>1, PathOrder DEF Related
  <2>5. /\ b \in H
        /\ \A a \in H \ {b} : rank(b) < rank(a) \/ (rank(b) = rank(a) /\ Len(a) < Len(b))
    BY <1>4, <2>2, BestParent DEF H, b, rank
  <2>6. b = w
    <3>1. SUFFICES ASSUME b # w PROVE FALSE
      OBVIOUS
    <3>2. rank(b) < rank(w) \/ (rank(b) = rank(w) /\ Len(w) < Len(b))
      BY <2>2, <2>5, <3>1
    <3>3. IsPath(b) /\ Below(b, p) /\ rank(b) \in Nat /\ Related(b, p)
      BY <1>7, <1>8, <2>5
    <3>4. CASE b \in C
      <4>1. rank(w) <= rank(b)
        BY <1>4, <1>5, <3>3, <3>4
      <4>2. Len(w) < Len(b) /\ Len(w) \in Nat /\ Len(b) \in Nat /\ IsPath(w)
        BY <1>1, <2>3, <3>2, <3>3, <4>1 DEF IsPath
      <4>3. Below(w, b)
        <5>1. IsPrefix(b, p)
          BY <1>4, <3>3, PathOrder
        <5>2. IsPrefix(w, b)
          BY <1>4, <3>3, <4>2, <5>1, PathOrder
        <5> QED BY <3>1, <3>3, <4>2, <5>2, PathOrder
      <4> QED BY <1>6, <2>3, <3>2, <3>3, <3>4, <4>3
    <3>5. CASE b \notin C
      <4>1. PICK q \in C : rank(q) <= rank(b) /\ IsPath(q) /\ (q = p \/ Below(p, q))
        BY <1>9, <2>5, <3>5
      <4>2. q = p => rank(w) < rank(q)
        BY <1>1, <2>4
      <4>3. Below(p, q) => rank(w) < rank(q)
        <5> SUFFICES ASSUME Below(p, q) PROVE rank(w) < rank(q)
          OBVIOUS
        <5>1. IsPath(w) /\ Below(w, p) /\ IsPrefix(w, p) /\ IsPrefix(p, q) /\ Len(w) < Len(p) /\ Len(p) < Len(q)
          BY <1>1, <1>4, <1>12, <4>1, PathOrder
        <5>2. IsPrefix(w, q) /\ Len(w) \in Nat /\ Len(p) \in Nat /\ Len(q) \in Nat
          BY <1>4, <4>1, <5>1, PathOrder DEF IsPath
        <5>3. w # q
          BY <5>1, <5>2
        <5>4. Below(w, q) /\ Related(q, p)
          BY <4>1, <5>1, <5>2, <5>3, PathOrder DEF Related
        <5> QED BY <1>6, <5>4
      <4>4. rank(w) < rank(q) /\ rank(q) \in Nat
        BY <1>1, <4>1, <4>2, <4>3
      <4> QED BY <2>3, <3>2, <3>3, <4>1, <4>4
    <3> QED BY <3>4, <3>5
  <2>7. lookupInParent(s, p) = InParent(s, p, w)
    BY <2>2, <2>6 DEF lookupInParent, H, b
  <2>8. InParent(s, p, w).val = s.entries[w].val.at[r] /\ InParent(s, p, w) # NotFound
    <3>1. InParent(s, p, w).val = s.entries[w].val.at[r]
      BY <2>2 DEF InParent
    <3>2. InParent(s, p, w).val # Absent
      BY <1>8, <2>2 DEF InParent
    <3>3. NotFound.val = Absent
      BY DEF NotFound
    <3> QED BY <3>1, <3>2, <3>3
  <2>9. read(s, p, "exact") = InParent(s, p, w)
    <3>1. CASE p \in DOMAIN s.entries
      <4>1. p \in parentMapWins(s)
        BY <1>10, <2>2, <2>4, <3>1 DEF parentMapWins, Canonical, H, rank
      <4> QED BY <1>10, <2>7, <3>1, <4>1 DEF read
    <3>2. CASE p \notin DOMAIN s.entries
      BY <1>10, <2>7, <2>8, <3>2 DEF read, OrElse
    <3> QED BY <3>1, <3>2
  <2> QED BY <1>12, <2>2, <2>8, <2>9 DEF LeafOf
<1> QED BY <1>11, <1>12

\* Whatever layers a snapshot is built from, the tree that validators and Save
\* see shows at every path what a read of the path returns, where what a map
\* left out of the list holds about it is listed.
THEOREM TreeAgrees == SnapshotsSpec => []TreeAgreesWithReads
<1>1. SnapshotsInv => TreeAgreesWithReads
  <2> DEFINE C == Canonical(snap, snap.listed)
             kept == C \ shadowedKeys(snap, C)
             tree == AsMap(snap).at
  <2> SUFFICES ASSUME SnapshotsInv, NEW p \in DOMAIN tree \ Unlisted, ~Aliased(p), EntriesListed(p)
               PROVE  read(snap, p, "exact").val = tree[p]
    BY DEF TreeAgreesWithReads
  <2>1. WellBuilt(snap)
    BY SnapIsWellBuilt
  <2>2. tree = TreeOf(snap, kept)
    BY DEF AsMap, MapOf, Tree
  <2> HIDE DEF tree
  <2>3. PICK w \in kept : Writes(snap, kept, w, p) /\ tree[p] = LeafOf(w, snap.entries[w].val, p)
    BY <2>2, TreeIsOfKeys
  <2>4. IsPath(p)
    <3>1. w \in DOMAIN snap.entries /\ p \in LeavesAt(w, snap.entries[w].val)
      BY <2>1, <2>3 DEF Writes, WellBuilt, Canonical
    <3> QED BY <2>1, <3>1, LeafPaths DEF WellBuilt
  <2>5. p \in DOMAIN snap.entries => p \in C
    <3>1. \A x \in DOMAIN snap.aliases : ~IsPrefix(x, p)
      BY DEF Aliased
    <3>2. p \notin DOMAIN snap.aliases
      BY <2>4, <3>1, PathOrder
    <3> QED BY <3>2 DEF Unlisted, Canonical
  <2>6. ASSUME NEW a \in ParentsHolding(snap, p) \ C, NEW r \in DOMAIN snap.entries[a].val.at, Related(a \o r, p)
        PROVE  a \o r \in C /\ rankOf(snap, a \o r) <= rankOf(snap, a)
    <3>1. a \in DOMAIN snap.entries /\ IsPath(a) /\ Below(a, p) /\ IsMap(snap.entries[a].val)
      BY <2>1 DEF ParentsHolding, WellBuilt
    <3>2. a \notin DOMAIN snap.aliases
      BY <2>4, <3>1, PathOrder DEF Aliased
    <3>3. a \in Unlisted
      BY <2>6, <3>1, <3>2 DEF Unlisted, Canonical
    <3> QED BY <2>6, <3>1, <3>2, <3>3 DEF EntriesListed
  <2> HIDE DEF C
  <2> QED BY <2>1, <2>3, <2>5, <2>6, WriterReads DEF Writes, Aliased, C
<1>2. SnapshotsSpec => []SnapshotsInv
  BY SnapshotsAreBuilt
<1> QED BY <1>1, <1>2, PTL
-----------------------------------------------------------------------------
\* One key alone is the last to write a path.
LEMMA OneWriter ==
  ASSUME NEW s, WellBuilt(s), NEW K, K \subseteq DOMAIN s.entries, NEW q, NEW v, NEW w,
         Writes(s, K, v, q), Writes(s, K, w, q)
  PROVE  v = w
<1>1. /\ IsPath(v) /\ IsPath(w) /\ IsPath(q) /\ IsPrefix(v, q) /\ IsPrefix(w, q)
      /\ v \in K /\ w \in K /\ Len(v) \in Nat /\ Len(w) \in Nat
  <2>1. /\ v \in K /\ w \in K /\ q \in LeavesAt(v, s.entries[v].val) /\ q \in LeavesAt(w, s.entries[w].val)
        /\ IsPath(v) /\ IsPath(w) /\ IsValue(s.entries[v].val) /\ IsValue(s.entries[w].val)
    BY DEF Writes, WellBuilt
  <2> QED BY <2>1, LeafPaths DEF IsPath
<1>2. ~Below(v, w) /\ ~Below(w, v)
  BY <1>1 DEF Writes, Related
<1>3. IsPrefix(v, w) \/ IsPrefix(w, v)
  BY <1>1, PrefixesOfOne
<1> QED BY <1>1, <1>2, <1>3, PrefixOrBelow

\* The part of a tree below a key is that of any two trees that agree there.
LEMMA SameUnder ==
  ASSUME NEW f, NEW g, NEW k, IsPath(k),
         \A q \in DOMAIN f \cup DOMAIN g : Below(k, q) =>
            IsPath(q) /\ q \in DOMAIN f /\ q \in DOMAIN g /\ f[q] = g[q]
  PROVE  Under(f, k) = Under(g, k)
<1>1. {p \in DOMAIN f : Below(k, p)} = {p \in DOMAIN g : Below(k, p)}
  OBVIOUS
<1> DEFINE T == {Rest(q, k) : q \in {p \in DOMAIN f : Below(k, p)}}
<1>2. \A t \in T : f[k \o t] = g[k \o t]
  BY ConcatRest
<1> HIDE DEF T
<1>3. Under(f, k) = [t \in T |-> f[k \o t]] /\ Under(g, k) = [t \in T |-> g[k \o t]]
  BY <1>1 DEF Under, T
<1> QED BY <1>2, <1>3

\* A key no map gives reads as the map the tree shows at it, unless another
\* key at it or above it comes between the keys below it (lookupSubtree).
LEMMA SectionReads ==
  ASSUME NEW s, WellBuilt(s), NEW k, IsPath(k), k \notin DOMAIN s.aliases, ParentsHolding(s, k) = {},
         k \in DOMAIN s.entries => k \in s.listed /\ ~IsMap(s.entries[k].val),
         IsMap(entryIn(AsMap(s), k)),
         \A i \in Canonical(s, s.listed) :
            \A j \in keysBelow(s, s.listed, k) \ shadowedKeys(s, keysBelow(s, s.listed, k)) :
                ~(IsPrefix(i, k) /\ rankOf(s, i) < rankOf(s, j))
  PROVE  read(s, k, "section").val = entryIn(AsMap(s), k)
<1> DEFINE C == Canonical(s, s.listed)
           kept == C \ shadowedKeys(s, C)
           tree == TreeOf(s, kept)
           B == keysBelow(s, s.listed, k)
           keptB == B \ shadowedKeys(s, B)
           sub == TreeOf(s, keptB)
<1>0. AsMap(s) = MapOf(tree)
  BY DEF AsMap, Tree
<1>1. \A j \in C : j \in DOMAIN s.entries /\ IsPath(j) /\ IsValue(s.entries[j].val) /\ rankOf(s, j) \in Nat
  BY DEF Canonical, WellBuilt
<1>2. B = {j \in C : Below(k, j)}
  BY DEF keysBelow
<1>3. ASSUME NEW w, NEW q, Writes(s, kept, w, q), k = q \/ Below(k, q)
      PROVE  IsPath(q) /\ (Below(k, w) \/ (w = k /\ q = k))
  <2>1. w \in C /\ q \in LeavesAt(w, s.entries[w].val) /\ IsPath(w) /\ IsValue(s.entries[w].val) /\ w \in DOMAIN s.entries
    BY <1>1, <1>3 DEF Writes
  <2>2. /\ IsPath(q) /\ IsPrefix(w, q)
        /\ q # w => IsMap(s.entries[w].val) /\ \E r \in DOMAIN s.entries[w].val.at : q = w \o r
    BY <2>1, LeafPaths
  <2>3. Below(k, w) \/ w = k \/ Below(w, k)
    <3>1. IsPrefix(k, q)
      BY <1>3, <2>2, PrefixOrBelow
    <3>2. IsPrefix(k, w) \/ IsPrefix(w, k)
      BY <2>1, <2>2, <3>1, PrefixesOfOne
    <3> QED BY <2>1, <3>2, PrefixOrBelow
  <2>4. ~Below(w, k)
    <3>1. SUFFICES ASSUME Below(w, k) PROVE FALSE
      OBVIOUS
    <3>2. q # w
      <4>1. Len(w) < Len(k) /\ Len(w) \in Nat /\ Len(k) \in Nat
        BY <2>1, <3>1, PrefixOrBelow DEF IsPath
      <4>2. Len(q) = Len(k) \/ Len(k) < Len(q)
        BY <1>3, <2>2, PrefixOrBelow
      <4>3. Len(q) \in Nat
        BY <2>2 DEF IsPath
      <4> QED BY <4>1, <4>2, <4>3
    <3>3. entryIn(s.entries[w].val, Rest(k, w)) # Absent
      BY <1>3, <2>1, <2>2, <3>1, <3>2, HoldsEntry
    <3> QED BY <2>1, <2>2, <3>1, <3>2, <3>3 DEF ParentsHolding
  <2>5. w = k => q = k
    BY <2>1, <2>2
  <2> QED BY <2>2, <2>3, <2>4, <2>5
<1> HIDE DEF kept, keptB
<1>4. ASSUME NEW q \in DOMAIN tree
      PROVE  \E w \in kept : Writes(s, kept, w, q) /\ tree[q] = LeafOf(w, s.entries[w].val, q)
  BY <1>4, TreeIsOfKeys
<1>5. \A q : q \in DOMAIN tree <=> \E w \in kept : Writes(s, kept, w, q)
  BY TreeIsOfKeys
<1>6. ASSUME NEW q \in DOMAIN sub
      PROVE  \E w \in keptB : Writes(s, keptB, w, q) /\ sub[q] = LeafOf(w, s.entries[w].val, q)
  BY <1>6, TreeIsOfKeys
<1>7. \A q : q \in DOMAIN sub <=> \E w \in keptB : Writes(s, keptB, w, q)
  BY TreeIsOfKeys
<1> USE DEF kept, keptB
<1> HIDE DEF tree, sub
<1>8. k \notin DOMAIN tree
  <2>1. SUFFICES ASSUME k \in DOMAIN tree PROVE FALSE
    OBVIOUS
  <2>2. PICK w \in kept : Writes(s, kept, w, k) /\ tree[k] = LeafOf(w, s.entries[w].val, k)
    BY <1>4, <2>1
  <2>3. IsPath(w) /\ IsPrefix(w, k)
    BY <1>1, <2>2, LeafPaths DEF Writes
  <2>4. w = k
    <3>1. Below(k, w) \/ w = k
      BY <1>3, <2>2
    <3>2. w = k \/ Below(w, k)
      BY <2>3, PrefixOrBelow
    <3>3. Below(k, w) /\ Below(w, k) => FALSE
      <4>1. Len(k) \in Nat /\ Len(w) \in Nat
        BY <2>3 DEF IsPath
      <4> QED BY <2>3, <4>1, PrefixOrBelow
    <3> QED BY <3>1, <3>2, <3>3
  <2>5. entryIn(AsMap(s), k) = s.entries[k].val /\ k \in DOMAIN s.entries
    BY <1>0, <1>1, <2>1, <2>2, <2>4 DEF entryIn, MapOf, LeafOf
  <2> QED BY <2>5
<1>9. DOMAIN Under(tree, k) # {} /\ entryIn(AsMap(s), k) = MapOf(Under(tree, k))
  <2>1. ~IsMap(Absent)
    BY DEF IsMap, Absent
  <2>2. entryIn(AsMap(s), k) = IF DOMAIN Under(tree, k) = {} THEN Absent ELSE MapOf(Under(tree, k))
    BY <1>0, <1>8 DEF entryIn, MapOf
  <2> QED BY <2>1, <2>2
<1>10. keptB = {j \in kept : Below(k, j)}
  <2>1. ASSUME NEW j \in kept, Below(k, j) PROVE j \in keptB
    BY <1>2, <2>1 DEF shadowedKeys
  <2>2. ASSUME NEW j \in keptB PROVE j \in kept /\ Below(k, j)
    <3>1. j \in C /\ Below(k, j) /\ IsPath(j)
      BY <1>1, <1>2
    <3>2. ASSUME NEW i \in C \ {j}, Related(i, j), rankOf(s, i) < rankOf(s, j) PROVE FALSE
      <4>1. IsPath(i) /\ ~IsPrefix(i, k)
        BY <1>1, <3>2
      <4>2. Below(k, i)
        <5>1. IsPrefix(k, j) /\ Len(i) \in Nat /\ Len(k) \in Nat /\ Len(j) \in Nat
          BY <3>1, <4>1, PathOrder DEF IsPath
        <5>2. CASE IsPrefix(i, j)
          <6>1. IsPrefix(k, i)
            BY <3>1, <4>1, <5>1, <5>2, PathOrder
          <6> QED BY <4>1, <6>1, PathOrder
        <5>3. CASE Below(j, i)
          <6>1. IsPrefix(j, i) /\ Len(j) < Len(i) /\ Len(k) < Len(j)
            BY <3>1, <4>1, <5>3, PathOrder
          <6>2. IsPrefix(k, i) /\ k # i
            BY <3>1, <4>1, <5>1, <6>1, PathOrder
          <6> QED BY <4>1, <6>2, PathOrder
        <5> QED BY <3>2, <5>2, <5>3 DEF Related
      <4>3. i \in B
        BY <1>2, <4>2
      <4> QED BY <2>2, <3>2, <4>3 DEF shadowedKeys
    <3> QED BY <3>1, <3>2 DEF shadowedKeys
  <2> QED BY <2>1, <2>2
<1>11. kept \subseteq C
  OBVIOUS
<1> HIDE DEF kept, keptB
<1>12. ASSUME NEW q, Below(k, q)
       PROVE  \A w : Writes(s, kept, w, q) <=> Writes(s, keptB, w, q)
  <2>1. ASSUME NEW w, Writes(s, kept, w, q) PROVE Writes(s, keptB, w, q)
    <3>1. Below(k, w)
      <4>1. k # q
        BY <1>12 DEF Below, IsStrictPrefix
      <4> QED BY <1>3, <1>12, <2>1, <4>1
    <3> QED BY <1>10, <2>1, <3>1 DEF Writes
  <2>2. ASSUME NEW w, Writes(s, keptB, w, q) PROVE Writes(s, kept, w, q)
    <3>1. w \in kept /\ Below(k, w) /\ IsPath(w)
      BY <1>1, <1>10, <1>11, <2>2 DEF Writes
    <3>2. ASSUME NEW j \in kept, Below(w, j) PROVE Below(k, j)
      <4>1. IsPath(j) /\ IsPrefix(k, w) /\ IsPrefix(w, j) /\ Len(k) < Len(w) /\ Len(w) < Len(j) /\ Len(k) \in Nat /\ Len(w) \in Nat /\ Len(j) \in Nat
        <5>0. IsPath(j)
          BY <1>1, <1>11, <3>2
        <5>1. IsPath(j) /\ Len(k) \in Nat /\ Len(w) \in Nat /\ Len(j) \in Nat
          BY <3>1, <5>0 DEF IsPath
        <5> QED BY <3>1, <3>2, <5>1, PrefixOrBelow
      <4>2. IsPrefix(k, j) /\ k # j
        BY <3>1, <4>1, PrefixOfPrefix
      <4> QED BY <4>1, <4>2, PrefixOrBelow
    <3> QED BY <1>10, <2>2, <3>1, <3>2 DEF Writes
  <2> QED BY <2>1, <2>2
<1>13. ASSUME NEW q \in DOMAIN tree \cup DOMAIN sub, Below(k, q)
       PROVE  IsPath(q) /\ q \in DOMAIN tree /\ q \in DOMAIN sub /\ tree[q] = sub[q]
  <2>1. q \in DOMAIN tree /\ q \in DOMAIN sub
    BY <1>5, <1>7, <1>10, <1>12, <1>13 DEF Writes
  <2>2. PICK v \in kept : Writes(s, kept, v, q) /\ tree[q] = LeafOf(v, s.entries[v].val, q)
    BY <1>4, <2>1
  <2>3. PICK w \in keptB : Writes(s, keptB, w, q) /\ sub[q] = LeafOf(w, s.entries[w].val, q)
    BY <1>6, <2>1
  <2>4. v = w
    <3>1. kept \subseteq DOMAIN s.entries
      BY <1>1, <1>11
    <3>2. Writes(s, kept, w, q)
      BY <1>12, <1>13, <2>3
    <3> QED BY <2>2, <3>1, <3>2, OneWriter
  <2> QED BY <1>3, <1>13, <2>1, <2>2, <2>3, <2>4
<1>14. Under(tree, k) = Under(sub, k)
  BY <1>13, SameUnder
<1>15. PICK q \in DOMAIN tree : Below(k, q)
  BY <1>9 DEF Under
<1>16. PICK w : Writes(s, kept, w, q) /\ Below(k, w) /\ w \in B /\ w \in kept
  <2>1. PICK w \in kept : Writes(s, kept, w, q)
    BY <1>5, <1>15
  <2>2. Below(k, w)
    <3>1. k # q
      BY <1>15 DEF Below, IsStrictPrefix
    <3> QED BY <1>3, <1>15, <2>1, <3>1
  <2> QED BY <1>2, <1>11, <2>1, <2>2
<1>17. lookupSubtree(s, k).val = MapOf(Under(sub, k)) /\ lookupSubtree(s, k) # NotFound
  <2>1. SubtreeKeys(s, k) = B
    BY <1>16 DEF SubtreeKeys
  <2>2. lookupSubtree(s, k) = SubtreeOf(s, k, keptB)
    BY <1>16, <2>1 DEF lookupSubtree, keptB
  <2>3. SubtreeOf(s, k, keptB).val = MapOf(Under(sub, k))
    BY DEF SubtreeOf, sub
  <2>4. MapOf(Under(sub, k)) # Absent
    BY DEF MapOf, Absent
  <2>5. NotFound.val = Absent
    BY DEF NotFound
  <2> QED BY <2>2, <2>3, <2>4, <2>5
<1>18. read(s, k, "section") = lookupSubtree(s, k)
  <2>1. CASE k \notin DOMAIN s.entries
    <3>1. lookupInParent(s, k) = NotFound
      BY DEF lookupInParent
    <3> QED BY <2>1, <3>1 DEF read, OrElse
  <2>2. CASE k \in DOMAIN s.entries
    <3>1. k \notin parentMapWins(s)
      BY DEF parentMapWins
    <3>2. k \in C
      BY <2>2 DEF Canonical
    <3>3. w \in C /\ ~(rankOf(s, k) < rankOf(s, w))
      <4>1. w # k /\ Related(k, w)
        BY <1>16 DEF Related, Below, IsStrictPrefix
      <4> QED BY <1>11, <1>16, <3>2, <4>1 DEF kept, shadowedKeys
    <3>4. rankOf(s, w) < rankOf(s, k) \/ rankOf(s, w) = rankOf(s, k)
      BY <1>1, <3>2, <3>3
    <3>5. k \in overriddenParents(s)
      BY <1>16, <2>2, <3>3, <3>4 DEF overriddenParents, Canonical
    <3>6. read(s, k, "section") = OrElse(lookupSubtree(s, k), Own(s, k))
      BY <2>2, <3>1, <3>5 DEF read
    <3> QED BY <1>17, <3>6 DEF OrElse
  <2> QED BY <2>1, <2>2
<1> QED BY <1>9, <1>14, <1>17, <1>18

\* Whatever layers a snapshot is built from, a section read of a key gives the
\* map that the tree shows at it, where no map gives the key itself and no key
\* at or above it comes between those below.
THEOREM SectionsAgree == SnapshotsSpec => []SectionAgreesWithTree
<1>1. SnapshotsInv => SectionAgreesWithTree
  <2> SUFFICES ASSUME SnapshotsInv, NEW k \in Universe \ Unlisted, IsMap(entryIn(AsMap(snap), k)),
                      ~Aliased(k), ~Straddled(k), ParentsHolding(snap, k) = {},
                      k \in DOMAIN snap.entries => ~IsMap(snap.entries[k].val)
               PROVE  read(snap, k, "section").val = entryIn(AsMap(snap), k)
    BY Zenon DEF SectionAgreesWithTree
  <2>1. WellBuilt(snap) /\ IsPath(k)
    BY SnapIsWellBuilt, SnapshotsAssumption
  <2>2. k \notin DOMAIN snap.aliases
    BY <2>1, PathOrder DEF Aliased
  <2>3. k \in DOMAIN snap.entries => k \in snap.listed
    BY DEF Unlisted
  <2> QED BY <2>1, <2>2, <2>3, SectionReads DEF Straddled
<1>2. SnapshotsSpec => []SnapshotsInv
  BY SnapshotsAreBuilt
<1> QED BY <1>1, <1>2, PTL
-----------------------------------------------------------------------------
\* What a document of a sub-tree holds, the whole tree holds behind the prefix.
LEMMA StripPrefixHolds ==
  ASSUME NEW tree, \A q \in DOMAIN tree : IsPath(q), NEW only, IsPath(only),
         NEW p \in DOMAIN stripPrefix(tree, only)
  PROVE  only \o p \in DOMAIN tree /\ stripPrefix(tree, only)[p] = tree[only \o p]
<1> DEFINE doc == stripPrefix(tree, only)
<1>1. CASE only = <<>>
  <2>1. doc = tree /\ IsPath(p)
    BY <1>1 DEF stripPrefix
  <2>2. only \o p = p
    BY <1>1, <2>1, ConcatEmptySeq DEF IsPath
  <2> QED BY <2>1, <2>2
<1>2. CASE only # <<>>
  <2>1. doc = Under(tree, only)
    BY <1>2 DEF stripPrefix
  <2>2. PICK q \in DOMAIN tree : Below(only, q) /\ p = Rest(q, only)
    BY <2>1 DEF Under
  <2>3. only \o p = q
    BY <2>2, ConcatRest
  <2>4. doc[p] = tree[only \o p]
    BY <2>1 DEF Under
  <2> QED BY <2>2, <2>3, <2>4
<1> QED BY <1>1, <1>2

\* A snapshot has the same fields before and after it is built.
LEMMA SnapFields ==
  ASSUME SnapshotsInv
  PROVE  DOMAIN snap = {"entries", "listed", "names", "aliases"}
<1>1. CASE snap = NoSnap
  BY <1>1 DEF NoSnap
<1>2. CASE snap # NoSnap
  <2>1. snap = buildSnapshot(is)
    BY <1>2 DEF SnapshotsInv
  <2> QED BY <2>1 DEF buildSnapshot, ResolveAll, SnapshotOf
<1> QED BY <1>1, <1>2

\* A save of everything asks for the defaults, and for the section it is given.
LEMMA AllSaved ==
  ASSUME NEW only
  PROVE  /\ [[SaveAll EXCEPT !.only = only] EXCEPT !.includeDefaults = TRUE] = [SaveAll EXCEPT !.only = only]
         /\ [SaveAll EXCEPT !.only = only].only = only
<1>1. \A d, e : [[only |-> <<>>, includeDefaults |-> d, includeSecrets |-> e] EXCEPT !.only = only]
                = [only |-> only, includeDefaults |-> d, includeSecrets |-> e]
  OBVIOUS
<1>2. \A d, e : [[only |-> only, includeDefaults |-> d, includeSecrets |-> e] EXCEPT !.includeDefaults = d]
                = [only |-> only, includeDefaults |-> d, includeSecrets |-> e]
  OBVIOUS
<1>3. [SaveAll EXCEPT !.only = only] = [only |-> only, includeDefaults |-> TRUE, includeSecrets |-> TRUE]
  BY <1>1, Zenon DEF SaveAll
<1> QED BY <1>2, <1>3, Zenon

\* Every snapshot and every save: what a document says of a key that the filters
\* let through and that no map at a parent overrides is what a read of the key
\* returns, and of any other path too where nothing is filtered.
THEOREM SavedAgrees == SnapshotsSpec => []SavedAgreesWithReads
<1>1. SnapshotsInv => SavedAgreesWithReads
  <2> SUFFICES ASSUME SnapshotsInv, NEW save \in Saves
               PROVE  LET only == save[1]
                          policy == [Trusted EXCEPT !.unscopedEnv = save[2], !.consulted = save[3]]
                          cfg == [SaveAll EXCEPT !.only = only]
                          doc == generateTemplate(snap, cfg, policy)
                          keys == TemplateKeys(snap, only)
                          kept == saveCandidates(snap, cfg, policy)
                          asRead(p) == /\ kept = keys /\ p \notin Unlisted /\ EntriesListed(p)
                                       /\ \A a \in ParentsHolding(snap, p) : IsPrefix(only, a)
                      IN  \A p \in DOMAIN doc :
                          /\ \E k \in keys : only \o p = k \/ Below(k, only \o p)
                          /\ /\ ~Aliased(only \o p)
                             /\ only \o p \in kept \ parentMapWins(snap) \/ asRead(only \o p)
                             => read(snap, only \o p, "exact").val = doc[p]
    BY Zenon DEF SavedAgreesWithReads
  <2> DEFINE only == save[1]
             policy == [Trusted EXCEPT !.unscopedEnv = save[2], !.consulted = save[3]]
             cfg == [SaveAll EXCEPT !.only = only]
             doc == generateTemplate(snap, cfg, policy)
             C == saveCandidates(snap, cfg, policy)
             red == redactSecrets(snap, cfg, policy)
             written == saveKept(snap, C, cfg, policy)
             tree == TreeOf(red, written)
  <2>1. WellBuilt(snap) /\ IsPath(only)
    BY SnapIsWellBuilt, SnapshotsAssumption
  <2>2. doc = stripPrefix(tree, only)
    <3>1. [cfg EXCEPT !.includeDefaults = TRUE] = cfg /\ cfg.only = only
      BY AllSaved
    <3> HIDE DEF cfg, policy
    <3> QED BY <3>1 DEF generateTemplate, buildSavePayload, payloadOf
  <2>3. written = {k \in C \ shadowedKeys(snap, C) : k # only}
    <3>1. cfg.includeSecrets = TRUE /\ cfg.only = only
      BY DEF SaveAll
    <3> HIDE DEF cfg, policy, C
    <3> QED BY <3>1 DEF saveKept
  <2>4. C \subseteq TemplateKeys(snap, only)
    <3>1. cfg.only = only
      BY DEF SaveAll
    <3> HIDE DEF cfg, policy
    <3> QED BY <3>1 DEF saveCandidates, TemplateKeys
  <2>5. \A k \in DOMAIN snap.entries : red.entries[k] = snap.entries[k]
    <3>1. cfg.includeSecrets = TRUE
      BY DEF SaveAll
    <3> HIDE DEF cfg, policy
    <3> QED BY <3>1, SnapFields DEF redactSecrets
  <2> SUFFICES ASSUME NEW p \in DOMAIN doc
               PROVE  /\ \E k \in TemplateKeys(snap, only) : only \o p = k \/ Below(k, only \o p)
                      /\ /\ ~Aliased(only \o p)
                         /\ \/ only \o p \in C \ parentMapWins(snap)
                            \/ /\ C = TemplateKeys(snap, only) /\ only \o p \notin Unlisted /\ EntriesListed(only \o p)
                               /\ \A a \in ParentsHolding(snap, only \o p) : IsPrefix(only, a)
                         => read(snap, only \o p, "exact").val = doc[p]
    BY Zenon
  <2> HIDE DEF policy, cfg, C, red, written
  <2>6. \A k \in C : /\ k \in Canonical(snap, snap.listed) /\ IsPrefix(only, k) /\ k \in DOMAIN snap.entries
                     /\ IsPath(k) /\ IsValue(snap.entries[k].val) /\ rankOf(snap, k) \in Nat
                     /\ k \notin DOMAIN snap.aliases
    BY <2>1, <2>4 DEF TemplateKeys, Canonical, WellBuilt
  <2>7. ASSUME NEW q, NEW w \in written, Writes(red, written, w, q)
        PROVE  /\ IsPath(q) /\ IsPrefix(w, q) /\ q \in LeavesAt(w, snap.entries[w].val)
               /\ LeafOf(w, red.entries[w].val, q) = LeafOf(w, snap.entries[w].val, q)
               /\ \A j \in C \ shadowedKeys(snap, C) : Below(w, j) => ~Related(j, q)
    <3>1. w \in C /\ red.entries[w] = snap.entries[w]
      BY <2>3, <2>5, <2>6
    <3>2. q \in LeavesAt(w, snap.entries[w].val)
      BY <2>7, <3>1 DEF Writes
    <3>3. ASSUME NEW j \in C \ shadowedKeys(snap, C), Below(w, j) PROVE ~Related(j, q)
      <4>1. j # only
        <5>1. IsPrefix(only, w) /\ IsPath(w) /\ Len(only) \in Nat /\ Len(w) \in Nat
          BY <2>6, <3>1 DEF IsPath
        <5>2. IsPath(j)
          BY <2>6, <3>3
        <5>3. Len(w) < Len(j)
          BY <3>3, <5>1, <5>2, PrefixOrBelow
        <5>4. only = w \/ Len(only) < Len(w)
          BY <2>1, <5>1, PrefixOrBelow
        <5> QED BY <5>1, <5>3, <5>4
      <4> QED BY <2>3, <2>7, <3>3, <4>1 DEF Writes
    <3> QED BY <2>6, <3>1, <3>2, <3>3, LeafPaths
  <2> DEFINE P == only \o p
  <2>8. P \in DOMAIN tree /\ doc[p] = tree[P]
    <3>1. \A q \in DOMAIN tree : IsPath(q)
      BY <2>7, TreeIsOfKeys
    <3> HIDE DEF tree, doc, only
    <3> QED BY <2>1, <2>2, <3>1, StripPrefixHolds
  <2>9. PICK w \in written : Writes(red, written, w, P) /\ tree[P] = LeafOf(w, red.entries[w].val, P)
    BY <2>8, TreeIsOfKeys
  <2> HIDE DEF tree, doc, only, P
  <2>10. /\ IsPath(P) /\ IsPrefix(w, P) /\ P \in LeavesAt(w, snap.entries[w].val)
         /\ doc[p] = LeafOf(w, snap.entries[w].val, P)
         /\ \A j \in C \ shadowedKeys(snap, C) : Below(w, j) => ~Related(j, P)
    BY <2>7, <2>8, <2>9
  <2>11. w \in C \ shadowedKeys(snap, C) /\ w \in TemplateKeys(snap, only) /\ IsPath(w) /\ IsPrefix(only, w)
    BY <2>3, <2>4, <2>6
  <2>12. P = w \/ Below(w, P)
    BY <2>10, <2>11, PathOrder
  <2>13. ASSUME ~Aliased(P), P \in C \ parentMapWins(snap)
         PROVE  read(snap, P, "exact").val = doc[p]
    <3>1. P = w
      <4>1. SUFFICES ASSUME Below(w, P), P # w PROVE FALSE
        BY <2>12
      <4>2. rankOf(snap, w) < rankOf(snap, P)
        <5>1. Related(P, P)
          BY <2>10, PathOrder DEF Related
        <5> QED BY <2>6, <2>10, <2>11, <2>13, <4>1, <5>1, LaterLoses
      <4>3. IsMap(snap.entries[w].val) /\ \E r \in DOMAIN snap.entries[w].val.at : P = w \o r
        BY <2>6, <2>10, <2>11, <4>1, LeafPaths
      <4>4. w \in ParentsHolding(snap, P)
        <5>1. entryIn(snap.entries[w].val, Rest(P, w)) # Absent
          BY <2>6, <2>10, <2>11, <4>1, <4>3, HoldsEntry
        <5> QED BY <2>6, <2>11, <4>1, <4>3, <5>1 DEF ParentsHolding
      <4>5. P \in Canonical(snap, DOMAIN snap.entries)
        BY <2>6, <2>13 DEF Canonical
      <4> QED BY <2>13, <4>2, <4>4, <4>5 DEF parentMapWins
    <3>2. doc[p] = snap.entries[P].val
      BY <2>10, <3>1 DEF LeafOf
    <3>3. read(snap, P, "exact") = Own(snap, P)
      BY <2>6, <2>13 DEF read
    <3> QED BY <3>2, <3>3 DEF Own
  <2>14. ASSUME ~Aliased(P), C = TemplateKeys(snap, only), P \notin Unlisted, EntriesListed(P),
                \A a \in ParentsHolding(snap, P) : IsPrefix(only, a)
         PROVE  read(snap, P, "exact").val = doc[p]
    <3>1. \A x \in DOMAIN snap.aliases : ~IsPrefix(x, P)
      BY <2>14 DEF Aliased
    <3>2. P \in DOMAIN snap.entries => P \in C
      <4>1. P \notin DOMAIN snap.aliases
        BY <2>10, <3>1, PathOrder
      <4>2. IsPrefix(only, P)
        BY <2>1, <2>10, <2>11, PathOrder
      <4> QED BY <2>14, <4>1, <4>2 DEF Unlisted, TemplateKeys, Canonical
    <3>3. ASSUME NEW a \in ParentsHolding(snap, P) \ C, NEW r \in DOMAIN snap.entries[a].val.at, Related(a \o r, P)
          PROVE  a \o r \in C /\ rankOf(snap, a \o r) <= rankOf(snap, a)
      <4>1. a \in DOMAIN snap.entries /\ IsPath(a) /\ Below(a, P) /\ IsMap(snap.entries[a].val) /\ IsValue(snap.entries[a].val)
        BY <2>1 DEF ParentsHolding, WellBuilt
      <4>2. a \notin DOMAIN snap.aliases
        BY <2>10, <3>1, <4>1, PathOrder
      <4>3. a \in Unlisted
        BY <2>14, <3>3, <4>1, <4>2 DEF Unlisted, TemplateKeys, Canonical
      <4>4. a \o r \in Canonical(snap, snap.listed) /\ rankOf(snap, a \o r) <= rankOf(snap, a)
        BY <2>14, <3>3, <4>1, <4>2, <4>3 DEF EntriesListed
      <4>5. IsPrefix(only, a \o r)
        <5>1. IsPath(r) /\ r # <<>>
          BY <4>1 DEF IsValue
        <5>2. IsPath(a \o r) /\ IsPrefix(a, a \o r)
          BY <4>1, <5>1, BelowConcat, PathOrder
        <5> QED BY <2>1, <2>14, <3>3, <4>1, <5>2, PathOrder
      <4> QED BY <2>14, <4>4, <4>5 DEF TemplateKeys
    <3>4. C \subseteq Canonical(snap, snap.listed)
      BY <2>6
    <3> HIDE DEF C
    <3> QED BY <2>1, <2>10, <2>11, <3>1, <3>2, <3>3, <3>4, WriterReads
  <2> QED BY <2>11, <2>12, <2>13, <2>14 DEF P
<1>2. SnapshotsSpec => []SnapshotsInv
  BY SnapshotsAreBuilt
<1> QED BY <1>1, <1>2, PTL
\* Whatever is marked, with a redactor or without, and whichever part of the
\* configuration is saved: no document shows the value of a key that is marked,
\* lies below a marked one, or is an alias of either (buildSavePayload), unless
\* it is an entry of a map that is the value of a key above it that is none of
\* these: of such a map the filter sees the key alone, and the doc comment of
\* WithSaveSecrets is not kept (registry_save.go:24-26).
THEOREM WithholdsSecrets == SnapshotsSpec => []SecretsWithheld
<1>1. SnapshotsInv => SecretsWithheld
  <2> SUFFICES ASSUME SnapshotsInv, NEW m \in Markings
               PROVE  LET marked == m[1]
                          only == m[2]
                          policy == [Trusted EXCEPT !.secrets = marked, !.redactor = m[3]]
                          cfg == [SaveAll EXCEPT !.only = only, !.includeSecrets = FALSE]
                          doc == buildSavePayload(snap, cfg, policy)
                      IN  \A p \in DOMAIN doc :
                            IsSecretKey(marked, snap.aliases, only \o p) =>
                                doc[p] = Redacted \/ HeldByMap(marked, only \o p, doc[p])
    BY Zenon DEF SecretsWithheld
  <2> DEFINE marked == m[1]
             only == m[2]
             policy == [Trusted EXCEPT !.secrets = marked, !.redactor = m[3]]
             cfg == [SaveAll EXCEPT !.only = only, !.includeSecrets = FALSE]
             kept == saveKept(snap, saveCandidates(snap, cfg, policy), cfg, policy)
             red == redactSecrets(snap, cfg, policy)
             tree == TreeOf(red, kept)
             doc == buildSavePayload(snap, cfg, policy)
  <2>1. doc = stripPrefix(tree, only)
    BY DEF buildSavePayload, payloadOf, SaveAll
  <2>2. /\ policy.secrets = marked /\ policy.aliases = snap.aliases
        /\ cfg.includeSecrets = FALSE
    BY DEF Trusted, SaveAll
  <2>3. \A k \in DOMAIN snap.entries : IsPath(k) /\ IsValue(snap.entries[k].val)
    <3>1. CASE snap = NoSnap
      BY <3>1 DEF NoSnap, EmptyFn
    <3>2. CASE snap # NoSnap
      <4>1. is \in Layerings /\ snap = buildSnapshot(is) /\ IsLayering(is)
        BY <3>2, SnapshotsAssumption DEF SnapshotsInv
      <4> QED BY <4>1, EntriesHoldValues
    <3> QED BY <3>1, <3>2
  <2>4. snap.listed \subseteq DOMAIN snap.entries /\ DOMAIN snap = {"entries", "listed", "names", "aliases"}
    <3>1. CASE snap = NoSnap
      BY <3>1, SnapFields DEF NoSnap, EmptyFn
    <3>2. CASE snap # NoSnap
      <4>1. is \in Layerings /\ snap = buildSnapshot(is) /\ IsLayering(is)
        BY <3>2, SnapshotsAssumption DEF SnapshotsInv
      <4> QED BY <4>1, SnapFields, BuiltEntries
    <3> QED BY <3>1, <3>2
  <2>5. kept \subseteq snap.listed
    BY DEF saveKept, saveCandidates, Canonical
  <2>6. \A k \in DOMAIN snap.entries :
          red.entries[k] = IF isSecret(k, policy) THEN [snap.entries[k] EXCEPT !.val = Redacted] ELSE snap.entries[k]
    <3> HIDE DEF cfg, policy
    <3> QED BY <2>2, <2>4 DEF redactSecrets
  <2>7. \A k : isSecret(k, policy) <=> IsSecretKey(marked, snap.aliases, k)
    <3> HIDE DEF cfg, policy
    <3> QED BY <2>2, Zenon DEF isSecret
  <2> SUFFICES ASSUME NEW p \in DOMAIN doc, IsSecretKey(marked, snap.aliases, only \o p)
               PROVE  doc[p] = Redacted \/ HeldByMap(marked, only \o p, doc[p])
    OBVIOUS
  <2> HIDE DEF kept, red, policy, cfg
  <2>8. \A k \in kept : /\ IsPath(k) /\ IsValue(snap.entries[k].val)
                        /\ IF isSecret(k, policy) THEN red.entries[k].val = Redacted
                           ELSE red.entries[k] = snap.entries[k]
    <3> TAKE k \in kept
    <3>1. k \in DOMAIN snap.entries
      BY <2>4, <2>5
    <3>2. "val" \in DOMAIN snap.entries[k]
      <4>1. snap # NoSnap
        BY <3>1 DEF NoSnap, EmptyFn
      <4>2. is \in Layerings /\ snap = buildSnapshot(is) /\ IsLayering(is)
        BY <4>1, SnapshotsAssumption DEF SnapshotsInv
      <4>3. \E c : snap.entries[k] = resolveKey(c, Flat(is))
        BY <3>1, <4>2, BuiltEntries, Zenon
      <4> QED BY <4>3, EntryShape
    <3> QED BY <2>3, <2>6, <3>1, <3>2
  <2>9. ASSUME NEW q \in DOMAIN tree
        PROVE  /\ IsPath(q)
               /\ IsSecretKey(marked, snap.aliases, q) =>
                    tree[q] = Redacted \/ HeldByMap(marked, q, tree[q])
    <3>1. PICK k \in kept : q \in LeavesAt(k, red.entries[k].val) /\ tree[q] = LeafOf(k, red.entries[k].val, q)
      BY TreeIsOfKeys DEF Writes
    <3> HIDE DEF tree
    <3>2. CASE q = k
      <4>1. tree[q] = red.entries[k].val
        BY <3>1, <3>2 DEF LeafOf
      <4> QED BY <2>7, <2>8, <3>2, <4>1
    <3>3. CASE q # k
      <4>1. isNonEmptyMap(red.entries[k].val) /\ \E r \in DOMAIN red.entries[k].val.at : q = k \o r
        BY <3>1, <3>3 DEF LeavesAt
      <4>2. red.entries[k] = snap.entries[k] /\ ~isSecret(k, policy)
        <5>1. ~isNonEmptyMap(Redacted)
          BY DEF isNonEmptyMap, IsMap, Redacted
        <5> QED BY <2>8, <4>1, <5>1
      <4>3. PICK r \in DOMAIN snap.entries[k].val.at : q = k \o r
        BY <4>1, <4>2
      <4>4. IsMap(snap.entries[k].val) /\ IsPath(k) /\ IsPath(r) /\ r # <<>>
        BY <2>8, <4>1, <4>2 DEF isNonEmptyMap, IsValue
      <4>5. IsPath(q) /\ Below(k, q) /\ Rest(q, k) = r
        BY <4>3, <4>4, BelowConcat
      <4>6. tree[q] = snap.entries[k].val.at[r]
        BY <3>1, <3>3, <4>2, <4>5 DEF LeafOf
      <4>7. k \in snap.listed /\ ~IsSecretKey(marked, snap.aliases, k)
        BY <2>5, <2>7, <4>2
      <4>8. HeldByMap(marked, q, tree[q])
        BY <4>3, <4>4, <4>5, <4>6, <4>7 DEF HeldByMap
      <4> QED BY <4>5, <4>8
    <3> QED BY <3>2, <3>3
  <2>10. only \o p \in DOMAIN tree /\ doc[p] = tree[only \o p]
    <3> HIDE DEF tree, doc
    <3>1. CASE only = <<>>
      <4>1. doc = tree
        BY <2>1, <3>1 DEF stripPrefix
      <4>2. IsPath(p)
        BY <2>9, <4>1
      <4>3. only \o p = p
        BY <3>1, <4>2, ConcatEmptySeq DEF IsPath
      <4> QED BY <4>1, <4>3
    <3>2. CASE only # <<>>
      <4>1. doc = Under(tree, only)
        BY <2>1, <3>2 DEF stripPrefix
      <4>2. PICK q \in DOMAIN tree : Below(only, q) /\ p = Rest(q, only)
        BY <4>1 DEF Under
      <4>3. only \o p = q
        BY <2>9, <4>2, ConcatRest, SnapshotsAssumption
      <4>4. doc[p] = tree[only \o p]
        BY <4>1 DEF Under
      <4> QED BY <4>2, <4>3, <4>4
    <3> QED BY <3>1, <3>2
  <2> HIDE DEF tree, doc, only, marked
  <2> QED BY <2>9, <2>10
<1>2. SnapshotsSpec => []SnapshotsInv
  BY SnapshotsAreBuilt
<1> QED BY <1>1, <1>2, PTL

\* For paths of any length, of any bytes: the canonical text of a path parses
\* back into it, the delimiters of the text part it where its segments part, a
\* view of a view is the view under both prefixes, and the order computed
\* segment by segment is that of the texts (Path.String, ParsePath,
\* topLevelDelims, fullKey, comparePaths).
THEOREM PathsAgree == SnapshotsSpec => []PathsAndTexts
<1>1. SnapshotsInv => PathsAndTexts
  <2> SUFFICES ASSUME SnapshotsInv, "paths" \in DOMAIN is PROVE PathsAndTexts
    BY DEF PathsAndTexts
  <2>1. is \notin Layerings
    <3>1. SUFFICES ASSUME IsLayering(is) PROVE FALSE
      BY SnapshotsAssumption, Zenon
    <3>2. DOMAIN is = {"sources", "view", "explicits", "defaults", "aliases", "pins", "bound", "append"}
      BY <3>1, Zenon DEF IsLayering
    <3>3. "paths" \notin {"sources", "view", "explicits", "defaults", "aliases", "pins", "bound", "append"}
      OBVIOUS
    <3> QED BY <3>2, <3>3, Zenon
  <2>2. PICK pair \in PathPairs : is = [paths |-> pair]
    BY <2>1 DEF SnapshotsInv
  <2> DEFINE p == is.paths[1]
             q == is.paths[2]
             n == Len(p)
             Delimited == {<<SubSeq(String(p), 1, i - 1), SubSeq(String(p), i + 1, Len(String(p)))>> :
                              i \in topLevelDelims(String(p))}
                            = {<<String(SubSeq(p, 1, i)), String(SubSeq(p, i + 1, n))>> : i \in 1..(n - 1)}
  <2>3. p \in Seq(Text) /\ q \in Seq(Text)
    BY <2>2, SnapshotsAssumption DEF Text
  <2> HIDE DEF p, q
  <2>4. String(p) \in Text /\ String(q) \in Text /\ ParsePath(String(p)) = p
    BY <2>3, RoundTrip
  <2>5. n > 0 /\ p[1] # <<>> /\ p[n] # <<>> => Delimited
    BY <2>3, DelimitersPart
  <2>6. n > 0 => fullKey(SubSeq(p, 1, 1), String(Tail(p))) = String(p)
    BY <2>3, FullKeyOf
  <2>7. comparePaths(p, q) = Compare(String(p), String(q)) /\ comparePaths(q, p) = Compare(String(q), String(p))
    BY <2>3, ComparesTexts
  <2>8. comparePaths(q, p) = -comparePaths(p, q)
    BY <2>4, <2>7, CompareTurns
  <2> HIDE DEF Delimited, n
  <2> QED BY <2>4, <2>5, <2>6, <2>7, <2>8 DEF PathsAndTexts, Delimited, n, p, q
<1> QED BY <1>1, SnapshotsAreBuilt, PTL
=============================================================================

-------------------------- MODULE ResolutionLemmas --------------------------
(***************************************************************************)
(* Lists of sources, loops over them and alias graphs, for any argument of *)
(* their types: what is inserted is undone by a removal, a loop that       *)
(* collects keeps the order, following aliases leaves the graph.  No       *)
(* induction theorem is needed: where a recursive function is unfolded, a  *)
(* least counterexample is ruled out.                                      *)
(***************************************************************************)
EXTENDS Resolution, SequenceTheorems, FiniteSetTheorems, TLAPS

(* Least elements and recursive functions.                                 *)

\* A nonempty set of natural numbers has a least element.
LEMMA LeastNat ==
  ASSUME NEW T, T \subseteq Nat, T # {}
  PROVE  \E i \in T : \A j \in T : i <= j
<1>1. PICK i \in T : \A j \in T : ~(<<j, i>> \in OpToRel(<, Nat))
  BY NatLessThanWellFounded, WFMin
<1>2. \A j \in T : ~(j < i)
  BY <1>1 DEF OpToRel
<1> QED BY <1>2

\* g iterates step from x, n times, within S.
Iterates(g, S, x, step, n) ==
    g \in [0..n -> S] /\ g[0] = x /\ \A i \in 1..n : g[i] = step[i][g[i - 1]]

\* Iterating a function from a start value gives a sequence of values, to any
\* length: what a recursive function with that step is.
LEMMA IterationExists ==
  ASSUME NEW S, NEW x \in S, NEW step \in [Nat -> [S -> S]], NEW n \in Nat
  PROVE  \E g : Iterates(g, S, x, step, n)
<1> DEFINE Bad == {m \in Nat : ~\E g : Iterates(g, S, x, step, m)}
<1>1. SUFFICES ASSUME Bad # {} PROVE FALSE
  <2>1. CASE Bad = {}
    <3>1. n \notin Bad
      BY <2>1
    <3> QED BY <3>1, Zenon
  <2> QED BY <2>1, Zenon
<1>2. PICK m \in Bad : \A j \in Bad : m <= j
  <2>1. Bad \subseteq Nat
    OBVIOUS
  <2> HIDE DEF Bad
  <2> QED BY <1>1, <2>1, LeastNat
<1>3. m # 0
  <2>1. Iterates([i \in 0..0 |-> x], S, x, step, 0)
    BY DEF Iterates
  <2> QED BY <2>1
<1>4. m - 1 \in Nat /\ m - 1 \notin Bad
  <2>1. m \in Nat /\ m - 1 \in Nat /\ ~(m <= m - 1)
    BY <1>2, <1>3
  <2> HIDE DEF Bad
  <2> QED BY <1>2, <2>1, Zenon
<1>5. PICK g : Iterates(g, S, x, step, m - 1)
  BY <1>4
<1> DEFINE h == [i \in 0..m |-> IF i = m THEN step[m][g[m - 1]] ELSE g[i]]
<1>6. h \in [0..m -> S]
  <2>1. m - 1 \in 0..(m - 1) /\ m \in Nat /\ \A i \in 0..m : i # m => i \in 0..(m - 1)
    BY <1>2, <1>4
  <2> QED BY <2>1, <1>5 DEF Iterates
<1>7. Iterates(h, S, x, step, m)
  <2>1. h[0] = x
    BY <1>2, <1>3, <1>5 DEF Iterates
  <2>2. ASSUME NEW i \in 1..m PROVE h[i] = step[i][h[i - 1]]
    <3>1. i \in 0..m /\ i - 1 \in 0..m /\ i - 1 # m /\ h[i - 1] = g[i - 1]
      BY <1>2
    <3>2. CASE i = m
      BY <3>1, <3>2
    <3>3. CASE i # m
      <4>1. i \in 1..(m - 1)
        BY <1>2, <3>3
      <4> QED BY <1>5, <3>1, <3>3, <4>1 DEF Iterates
    <3> QED BY <3>2, <3>3
  <2> QED BY <1>6, <2>1, <2>2 DEF Iterates
<1> QED BY <1>2, <1>7
-----------------------------------------------------------------------------
(* The source list.                                                        *)

\* AddSource cut back by one is the list it started from.
LEMMA CutUndoesAppend ==
  ASSUME NEW S, NEW s \in Seq(S), NEW e \in S
  PROVE  SubSeq(Append(s, e), 1, Len(Append(s, e)) - 1) = s
  OBVIOUS

\* What deleting one position of the source list leaves (RemoveSource).
LEMMA RemoveAtType ==
  ASSUME NEW S, NEW s \in Seq(S), NEW i \in 1..Len(s)
  PROVE  /\ RemoveAt(s, i) \in Seq(S)
         /\ Len(RemoveAt(s, i)) = Len(s) - 1
         /\ \A j \in 1..(Len(s) - 1) : RemoveAt(s, i)[j] = IF j < i THEN s[j] ELSE s[j + 1]
<1> DEFINE a == SubSeq(s, 1, i - 1)
           b == SubSeq(s, i + 1, Len(s))
<1>1. a \in Seq(S) /\ Len(a) = i - 1 /\ \A j \in 1..(i - 1) : a[j] = s[j]
  OBVIOUS
<1>2. b \in Seq(S) /\ Len(b) = Len(s) - i /\ \A j \in 1..(Len(s) - i) : b[j] = s[i + j]
  OBVIOUS
<1>3. RemoveAt(s, i) = a \o b
  BY DEF RemoveAt
<1> HIDE DEF a, b
<1>0. Len(s) \in Nat /\ i \in Int
  OBVIOUS
<1>6. /\ a \o b \in Seq(S)
      /\ Len(a \o b) = Len(a) + Len(b)
      /\ \A j \in 1..(Len(a) + Len(b)) : (a \o b)[j] = IF j <= Len(a) THEN a[j] ELSE b[j - Len(a)]
  BY <1>1, <1>2, ConcatProperties
<1>4. /\ a \o b \in Seq(S)
      /\ Len(a \o b) = Len(s) - 1
      /\ \A j \in 1..(Len(s) - 1) : (a \o b)[j] = IF j <= i - 1 THEN a[j] ELSE b[j - (i - 1)]
  BY <1>0, <1>1, <1>2, <1>6
<1>5. ASSUME NEW j \in 1..(Len(s) - 1) PROVE (a \o b)[j] = IF j < i THEN s[j] ELSE s[j + 1]
  <2>1. CASE j < i
    BY <2>1, <1>1, <1>4
  <2>2. CASE j >= i
    <3>1. j - (i - 1) \in 1..(Len(s) - i) /\ i + (j - (i - 1)) = j + 1
      BY <2>2
    <3> QED BY <2>2, <3>1, <1>2, <1>4
  <2>3. j \in Int
    BY <1>0
  <2>4. j < i \/ j >= i
    BY <1>0, <2>3
  <2> QED BY <2>1, <2>2, <2>4, Zenon
<1> QED BY <1>3, <1>4, <1>5

\* w is the list s with e put in front of its i-th source.
Inserted(w, S, s, i, e) ==
  /\ w \in Seq(S)
  /\ Len(w) = Len(s) + 1
  /\ \A j \in 1..(Len(s) + 1) : w[j] = IF j < i THEN s[j] ELSE IF j = i THEN e ELSE s[j - 1]

\* What inserting into the source list gives (InsertSource).
LEMMA InsertAtType ==
  ASSUME NEW S, NEW s \in Seq(S), NEW e \in S, NEW i \in 1..(Len(s) + 1)
  PROVE  Inserted(InsertAt(s, i, e), S, s, i, e)
<1> DEFINE a == SubSeq(s, 1, i - 1) \o <<e>>
           b == SubSeq(s, i, Len(s))
<1>1. a \in Seq(S) /\ Len(a) = i /\ a[i] = e /\ \A j \in 1..(i - 1) : a[j] = s[j]
  OBVIOUS
<1>2. b \in Seq(S) /\ Len(b) = Len(s) - i + 1 /\ \A j \in 1..(Len(s) - i + 1) : b[j] = s[i + j - 1]
  OBVIOUS
<1>3. InsertAt(s, i, e) = a \o b
  BY DEF InsertAt
<1> HIDE DEF a, b
<1>0. Len(s) \in Nat /\ i \in Int
  OBVIOUS
<1>6. /\ a \o b \in Seq(S)
      /\ Len(a \o b) = Len(a) + Len(b)
      /\ \A j \in 1..(Len(a) + Len(b)) : (a \o b)[j] = IF j <= Len(a) THEN a[j] ELSE b[j - Len(a)]
  BY <1>1, <1>2, ConcatProperties
<1>4. /\ a \o b \in Seq(S)
      /\ Len(a \o b) = Len(s) + 1
      /\ \A j \in 1..(Len(s) + 1) : (a \o b)[j] = IF j <= i THEN a[j] ELSE b[j - i]
  BY <1>0, <1>1, <1>2, <1>6
<1>5. ASSUME NEW j \in 1..(Len(s) + 1)
      PROVE (a \o b)[j] = IF j < i THEN s[j] ELSE IF j = i THEN e ELSE s[j - 1]
  <2>1. CASE j <= i
    BY <2>1, <1>1, <1>4
  <2>2. CASE j > i
    <3>1. j - i \in 1..(Len(s) - i + 1) /\ i + (j - i) - 1 = j - 1
      BY <2>2
    <3> QED BY <2>2, <3>1, <1>2, <1>4
  <2>3. j \in Int
    BY <1>0
  <2>4. j <= i \/ j > i
    BY <1>0, <2>3
  <2> QED BY <2>1, <2>2, <2>4, Zenon
<1> QED BY <1>3, <1>4, <1>5 DEF Inserted

\* InsertSource's rollback deletes what it inserted, and nothing else.
LEMMA RemoveUndoesInsert ==
  ASSUME NEW S, NEW s \in Seq(S), NEW e \in S, NEW i \in 1..(Len(s) + 1)
  PROVE  RemoveAt(InsertAt(s, i, e), i) = s
<1> DEFINE w == InsertAt(s, i, e)
           r == RemoveAt(w, i)
<1>1. /\ w \in Seq(S) /\ Len(w) = Len(s) + 1
      /\ \A j \in 1..(Len(s) + 1) : w[j] = IF j < i THEN s[j] ELSE IF j = i THEN e ELSE s[j - 1]
  <2>1. Inserted(w, S, s, i, e)
    BY InsertAtType, Zenon
  <2> HIDE DEF w
  <2> QED BY <2>1 DEF Inserted
<1>2. i \in 1..Len(w)
  BY <1>1
<1>3. /\ r \in Seq(S) /\ Len(r) = Len(w) - 1
      /\ \A j \in 1..(Len(w) - 1) : r[j] = IF j < i THEN w[j] ELSE w[j + 1]
  <2> HIDE DEF w
  <2> QED BY <1>1, <1>2, RemoveAtType, Zenon
<1> HIDE DEF w, r
<1>4. ASSUME NEW j \in 1..Len(s) PROVE r[j] = s[j]
  <2>1. j \in 1..(Len(w) - 1) /\ j \in 1..(Len(s) + 1) /\ j + 1 \in 1..(Len(s) + 1)
    BY <1>1
  <2>2. r[j] = IF j < i THEN w[j] ELSE w[j + 1]
    BY <1>3, <2>1
  <2>3. j >= i => w[j + 1] = s[j]
    BY <1>1, <2>1
  <2> QED BY <1>1, <2>1, <2>2, <2>3
<1>5. r = s
  BY <1>1, <1>3, <1>4, SeqEqual
<1> QED BY <1>5 DEF r, w

\* RemoveSource's rollback puts the source back where it was.
LEMMA InsertUndoesRemove ==
  ASSUME NEW S, NEW s \in Seq(S), NEW i \in 1..Len(s)
  PROVE  InsertAt(RemoveAt(s, i), i, s[i]) = s
<1> DEFINE w == RemoveAt(s, i)
           e == s[i]
           r == InsertAt(w, i, e)
<1>1. /\ w \in Seq(S) /\ Len(w) = Len(s) - 1
      /\ \A j \in 1..(Len(s) - 1) : w[j] = IF j < i THEN s[j] ELSE s[j + 1]
  BY RemoveAtType, Zenon
<1>2. i \in 1..(Len(w) + 1) /\ e \in S
  BY <1>1
<1>3. /\ r \in Seq(S) /\ Len(r) = Len(w) + 1
      /\ \A j \in 1..(Len(w) + 1) : r[j] = IF j < i THEN w[j] ELSE IF j = i THEN e ELSE w[j - 1]
  <2> HIDE DEF w, e
  <2>1. Inserted(r, S, w, i, e)
    BY <1>1, <1>2, InsertAtType, Zenon
  <2> HIDE DEF r
  <2> QED BY <2>1 DEF Inserted
<1> HIDE DEF w, r
<1>4. ASSUME NEW j \in 1..Len(s) PROVE r[j] = s[j]
  <2>1. j \in 1..(Len(w) + 1)
    BY <1>1
  <2>2. r[j] = IF j < i THEN w[j] ELSE IF j = i THEN e ELSE w[j - 1]
    BY <1>3, <2>1
  <2>3. j > i => j - 1 \in 1..(Len(s) - 1) /\ w[j - 1] = s[j]
    BY <1>1, <2>1
  <2>4. j < i => w[j] = s[j]
    BY <1>1, <2>1
  <2> QED BY <2>2, <2>3, <2>4
<1>5. r = s
  BY <1>1, <1>3, <1>4, SeqEqual
<1> QED BY <1>5 DEF r, w
-----------------------------------------------------------------------------
(* Lists without repetition.                                               *)

\* No element twice.
Distinct(s) == \A i, j \in DOMAIN s : s[i] = s[j] => i = j

\* Appending an element that is not there keeps a list without repetition.
LEMMA AppendDistinct ==
  ASSUME NEW X, NEW s \in Seq(X), NEW e \in X, Distinct(s), \A i \in 1..Len(s) : s[i] # e
  PROVE  Distinct(Append(s, e))
<1>1. Append(s, e) \in Seq(X) /\ Len(Append(s, e)) = Len(s) + 1
      /\ \A i \in 1..(Len(s) + 1) : Append(s, e)[i] = IF i <= Len(s) THEN s[i] ELSE e
  OBVIOUS
<1>2. DOMAIN Append(s, e) = 1..(Len(s) + 1) /\ DOMAIN s = 1..Len(s)
  BY <1>1
<1> DEFINE a == Append(s, e)
<1> SUFFICES ASSUME NEW i \in 1..(Len(s) + 1), NEW j \in 1..(Len(s) + 1), a[i] = a[j] PROVE i = j
  BY <1>2 DEF Distinct
<1>3. a[i] = (IF i <= Len(s) THEN s[i] ELSE e) /\ a[j] = (IF j <= Len(s) THEN s[j] ELSE e)
  BY <1>1
<1>4. \A k \in 1..(Len(s) + 1) : k <= Len(s) \/ k = Len(s) + 1
  OBVIOUS
<1>5. \A k \in 1..(Len(s) + 1) : k <= Len(s) => k \in 1..Len(s)
  OBVIOUS
<1> HIDE DEF a
<1>6. (i <= Len(s)) = (j <= Len(s))
  <2>1. CASE i <= Len(s) /\ ~(j <= Len(s))
    BY <1>3, <1>5, <2>1
  <2>2. CASE ~(i <= Len(s)) /\ j <= Len(s)
    BY <1>3, <1>5, <2>2
  <2> QED BY <2>1, <2>2
<1>7. CASE i <= Len(s)
  BY <1>2, <1>3, <1>5, <1>6, <1>7 DEF Distinct
<1>8. CASE ~(i <= Len(s))
  BY <1>4, <1>6, <1>8
<1> QED BY <1>7, <1>8

\* Two lists without repetition and without a common element, joined.
LEMMA ConcatDistinct ==
  ASSUME NEW X, NEW s \in Seq(X), NEW t \in Seq(X), Distinct(s), Distinct(t),
         \A i \in 1..Len(s), j \in 1..Len(t) : s[i] # t[j]
  PROVE  Distinct(s \o t)
<1> DEFINE c == s \o t
<1>1. /\ c \in Seq(X) /\ Len(c) = Len(s) + Len(t) /\ Len(s) \in Nat /\ Len(t) \in Nat
      /\ \A i \in 1..(Len(s) + Len(t)) : c[i] = IF i <= Len(s) THEN s[i] ELSE t[i - Len(s)]
  BY ConcatProperties
<1>2. DOMAIN c = 1..(Len(s) + Len(t)) /\ DOMAIN s = 1..Len(s) /\ DOMAIN t = 1..Len(t)
  BY <1>1
<1> HIDE DEF c
<1> SUFFICES ASSUME NEW i \in 1..(Len(s) + Len(t)), NEW j \in 1..(Len(s) + Len(t)), c[i] = c[j] PROVE i = j
  BY <1>2 DEF Distinct, c
<1>3. /\ c[i] = (IF i <= Len(s) THEN s[i] ELSE t[i - Len(s)])
      /\ c[j] = (IF j <= Len(s) THEN s[j] ELSE t[j - Len(s)])
  BY <1>1
<1>4. /\ i <= Len(s) => i \in 1..Len(s)
      /\ j <= Len(s) => j \in 1..Len(s)
      /\ ~(i <= Len(s)) => i - Len(s) \in 1..Len(t)
      /\ ~(j <= Len(s)) => j - Len(s) \in 1..Len(t)
  BY <1>1
<1>5. (i <= Len(s)) = (j <= Len(s))
  <2>1. CASE i <= Len(s) /\ ~(j <= Len(s))
    BY <1>3, <1>4, <2>1
  <2>2. CASE ~(i <= Len(s)) /\ j <= Len(s)
    BY <1>3, <1>4, <2>2
  <2> QED BY <2>1, <2>2
<1>6. CASE i <= Len(s)
  BY <1>2, <1>3, <1>4, <1>5, <1>6 DEF Distinct
<1>7. CASE ~(i <= Len(s))
  <2>1. i - Len(s) = j - Len(s)
    BY <1>2, <1>3, <1>4, <1>5, <1>7 DEF Distinct
  <2> QED BY <1>1, <2>1
<1> QED BY <1>6, <1>7

\* A source appended is a source inserted at the end (AddSource).
LEMMA AppendIsInsert ==
  ASSUME NEW S, NEW s \in Seq(S), NEW e \in S
  PROVE  Append(s, e) = InsertAt(s, Len(s) + 1, e)
<1> DEFINE front == SubSeq(s, 1, Len(s) + 1 - 1)
           back  == SubSeq(s, Len(s) + 1, Len(s))
           one   == <<e>>
<1>1. Len(s) \in Nat /\ Len(s) + 1 - 1 = Len(s)
  OBVIOUS
<1>2. front = s
  BY <1>1, SubSeqFull
<1>3. back = << >>
  <2>1. Len(s) + 1 \in Int /\ Len(s) \in Int /\ Len(s) < Len(s) + 1
    BY <1>1
  <2> QED BY <2>1, SubSeqEmpty
<1>4. one \in Seq(S)
  OBVIOUS
<1>5. InsertAt(s, Len(s) + 1, e) = (front \o one) \o back
  BY DEF InsertAt
<1>6. Append(s, e) = s \o one
  BY AppendIsConcat
<1> HIDE DEF front, back, one
<1>7. (s \o one) \in Seq(S)
  BY <1>4
<1>8. (s \o one) \o << >> = s \o one
  BY <1>7, ConcatEmptySeq, Zenon
<1> QED BY <1>2, <1>3, <1>5, <1>6, <1>8, Zenon

\* Inserting a source whose name is free adds that one name.
LEMMA InsertAtNames ==
  ASSUME NEW S, NEW s \in Seq(S), NEW e \in S, NEW i \in 1..(Len(s) + 1), e \notin ToSet(s)
  PROVE  /\ ToSet(InsertAt(s, i, e)) \subseteq ToSet(s) \cup {e}
         /\ Distinct(s) => Distinct(InsertAt(s, i, e))
<1> DEFINE w == InsertAt(s, i, e)
<1>1. /\ w \in Seq(S) /\ Len(w) = Len(s) + 1
      /\ \A j \in 1..(Len(s) + 1) : w[j] = IF j < i THEN s[j] ELSE IF j = i THEN e ELSE s[j - 1]
  <2>1. Inserted(w, S, s, i, e)
    BY InsertAtType, Zenon
  <2> HIDE DEF w
  <2> QED BY <2>1 DEF Inserted
<1>2. Len(s) \in Nat /\ DOMAIN s = 1..Len(s) /\ DOMAIN w = 1..(Len(s) + 1)
  BY <1>1
<1> HIDE DEF w
<1>3. /\ \A j \in 1..(Len(s) + 1) : j < i => j \in 1..Len(s) /\ w[j] = s[j]
      /\ \A j \in 1..(Len(s) + 1) : j > i => j - 1 \in 1..Len(s) /\ w[j] = s[j - 1]
      /\ w[i] = e
  BY <1>1, <1>2
<1>4. \A j \in 1..Len(s) : s[j] \in ToSet(s) /\ s[j] # e
  BY <1>2 DEF ToSet
<1>5. \A j \in 1..(Len(s) + 1) : j < i \/ j = i \/ j > i
  BY <1>2
<1>6. ToSet(w) \subseteq ToSet(s) \cup {e}
  <2>1. \A j \in 1..(Len(s) + 1) : w[j] \in ToSet(s) \cup {e}
    BY <1>3, <1>4, <1>5
  <2> QED BY <1>2, <2>1 DEF ToSet
<1>7. ASSUME Distinct(s) PROVE Distinct(w)
  <2> SUFFICES ASSUME NEW j \in 1..(Len(s) + 1), NEW k \in 1..(Len(s) + 1), j < k PROVE w[j] # w[k]
    <3>1. \A j, k \in 1..(Len(s) + 1) : j < k \/ j = k \/ k < j
      BY <1>2
    <3> QED BY <1>2, <3>1 DEF Distinct
  <2>1. CASE k < i
    BY <1>2, <1>3, <1>7, <2>1 DEF Distinct
  <2>2. CASE k = i
    BY <1>3, <1>4, <2>2
  <2>3. CASE j = i
    BY <1>3, <1>4, <2>3
  <2>4. CASE j < i /\ k > i
    <3>1. w[j] = s[j] /\ w[k] = s[k - 1] /\ j \in DOMAIN s /\ k - 1 \in DOMAIN s
      BY <1>2, <1>3, <2>4
    <3>2. j # k - 1
      BY <2>4
    <3> QED BY <1>7, <3>1, <3>2 DEF Distinct
  <2>5. CASE j > i
    <3>1. w[j] = s[j - 1] /\ w[k] = s[k - 1] /\ j - 1 \in DOMAIN s /\ k - 1 \in DOMAIN s
      BY <1>2, <1>3, <2>5
    <3>2. j - 1 # k - 1
      BY <2>5
    <3> QED BY <1>7, <3>1, <3>2 DEF Distinct
  <2> QED BY <1>5, <2>1, <2>2, <2>3, <2>4, <2>5
<1> QED BY <1>6, <1>7 DEF w

\* Deleting a position takes that source's name away, and no other's.
LEMMA RemoveAtNames ==
  ASSUME NEW S, NEW s \in Seq(S), NEW i \in 1..Len(s)
  PROVE  /\ ToSet(RemoveAt(s, i)) \subseteq ToSet(s)
         /\ Distinct(s) => Distinct(RemoveAt(s, i)) /\ s[i] \notin ToSet(RemoveAt(s, i))
<1> DEFINE w == RemoveAt(s, i)
           at(j) == IF j < i THEN j ELSE j + 1
<1>1. /\ w \in Seq(S) /\ Len(w) = Len(s) - 1
      /\ \A j \in 1..(Len(s) - 1) : w[j] = IF j < i THEN s[j] ELSE s[j + 1]
  BY RemoveAtType
<1>2. DOMAIN s = 1..Len(s) /\ DOMAIN w = 1..(Len(s) - 1)
  BY <1>1
<1> HIDE DEF w
<1>3. \A j \in 1..(Len(s) - 1) : at(j) \in DOMAIN s /\ at(j) # i /\ w[j] = s[at(j)]
  BY <1>1, <1>2
<1>4. \A j, k \in 1..(Len(s) - 1) : at(j) = at(k) => j = k
  OBVIOUS
<1> HIDE DEF at
<1>5. ToSet(w) \subseteq ToSet(s)
  BY <1>2, <1>3 DEF ToSet
<1>6. ASSUME Distinct(s) PROVE Distinct(w) /\ s[i] \notin ToSet(w)
  <2>1. Distinct(w)
    BY <1>2, <1>3, <1>4, <1>6 DEF Distinct
  <2>2. \A j \in 1..(Len(s) - 1) : w[j] # s[i]
    BY <1>2, <1>3, <1>6 DEF Distinct
  <2> QED BY <1>2, <2>1, <2>2 DEF ToSet
<1> QED BY <1>5, <1>6 DEF w
-----------------------------------------------------------------------------
(* Loops that collect.                                                     *)

\* out holds what a loop that picks elements of s has collected after each.
Collects(out, X, s, S) ==
    /\ \A i \in 0..Len(s) : out[i] \in Seq(X)
    /\ out[0] = <<>>
    /\ \A i \in 1..Len(s) : out[i] = IF s[i] \in S THEN Append(out[i - 1], s[i]) ELSE out[i - 1]

\* What one loop of applyPrecedenceLocked collects, step by step.
LEMMA PickedSteps ==
  ASSUME NEW X, NEW s \in Seq(X), NEW S
  PROVE  \E out : Collects(out, X, s, S) /\ Picked(s, S) = out[Len(s)]
<1> DEFINE n == Len(s)
           step == [i \in Nat |-> [t \in Seq(X) |-> IF i \in 1..n /\ s[i] \in S THEN Append(t, s[i]) ELSE t]]
           Rec(f) == [i \in 0..n |-> IF i = 0 THEN <<>>
                                     ELSE IF s[i] \in S THEN Append(f[i - 1], s[i]) ELSE f[i - 1]]
           out == CHOOSE f : f = Rec(f)
<1>1. step \in [Nat -> [Seq(X) -> Seq(X)]] /\ n \in Nat /\ <<>> \in Seq(X)
  OBVIOUS
<1>2. PICK g : Iterates(g, Seq(X), <<>>, step, n)
  <2> HIDE DEF n, step
  <2> QED BY <1>1, IterationExists
<1>3. \A i \in 1..n : g[i] = IF s[i] \in S THEN Append(g[i - 1], s[i]) ELSE g[i - 1]
  <2> TAKE i \in 1..n
  <2>1. i \in Nat /\ i - 1 \in 0..n
    BY <1>1
  <2>2. g[i - 1] \in Seq(X) /\ g[i] = step[i][g[i - 1]]
    BY <1>2, <2>1 DEF Iterates
  <2> QED BY <2>1, <2>2
<1>4. g = Rec(g)
  <2>1. \A i \in 0..n : i = 0 \/ i \in 1..n
    BY <1>1
  <2>2. \A i \in 0..n : g[i] = Rec(g)[i]
    BY <1>2, <1>3, <2>1 DEF Iterates
  <2>3. g = [i \in 0..n |-> g[i]]
    BY <1>2 DEF Iterates
  <2> QED BY <2>2, <2>3
<1>5. out = Rec(out)
  BY <1>4, Zenon
<1>6. Picked(s, S) = out[n]
  BY DEF Picked
<1> HIDE DEF out
<1>7. DOMAIN out = 0..n /\ out[0] = <<>>
      /\ \A i \in 1..n : out[i] = IF s[i] \in S THEN Append(out[i - 1], s[i]) ELSE out[i - 1]
  <2>1. 0 \in 0..n /\ \A i \in 1..n : i \in 0..n /\ i # 0
    BY <1>1
  <2> QED BY <1>5, <2>1
<1>8. \A i \in 0..n : out[i] \in Seq(X)
  <2> DEFINE B == {i \in 0..n : out[i] \notin Seq(X)}
  <2>1. SUFFICES ASSUME B # {} PROVE FALSE
    OBVIOUS
  <2>2. PICK i \in B : \A j \in B : i <= j
    <3>1. B \subseteq Nat
      OBVIOUS
    <3> HIDE DEF B
    <3> QED BY <2>1, <3>1, LeastNat
  <2>3. i # 0
    BY <1>7, <1>1, <2>2
  <2>4. i \in 1..n /\ i - 1 \in 0..n /\ out[i - 1] \in Seq(X)
    BY <2>2, <2>3, <1>1
  <2>5. s[i] \in X
    BY <2>4
  <2>6. Append(out[i - 1], s[i]) \in Seq(X)
    BY <2>4, <2>5
  <2>7. out[i] = IF s[i] \in S THEN Append(out[i - 1], s[i]) ELSE out[i - 1]
    BY <1>7, <2>4
  <2> QED BY <2>2, <2>4, <2>6, <2>7, Zenon
<1>9. Collects(out, X, s, S)
  BY <1>7, <1>8 DEF Collects
<1> QED BY <1>6, <1>9

\* What a loop that picks elements collects: elements of the list that
\* qualify, each once if the list has each once.
LEMMA PickedProperties ==
  ASSUME NEW X, NEW s \in Seq(X), NEW S
  PROVE  /\ Picked(s, S) \in Seq(X)
         /\ \A p \in 1..Len(Picked(s, S)) : Picked(s, S)[p] \in S \cap ToSet(s)
         /\ Distinct(s) => Distinct(Picked(s, S))
<1>0. PICK out : Collects(out, X, s, S) /\ Picked(s, S) = out[Len(s)]
  BY PickedSteps
<1>1. /\ \A i \in 0..Len(s) : out[i] \in Seq(X)
      /\ out[0] = <<>>
      /\ \A i \in 1..Len(s) : out[i] = IF s[i] \in S THEN Append(out[i - 1], s[i]) ELSE out[i - 1]
  BY <1>0 DEF Collects
<1> DEFINE n == Len(s)
           From(k) == \A p \in 1..Len(out[k]) : \E i \in 1..k : s[i] \in S /\ s[i] = out[k][p]
           Good(k) == From(k) /\ (Distinct(s) => Distinct(out[k]))
           Bad == {k \in 0..n : ~Good(k)}
<1>2. n \in Nat /\ DOMAIN s = 1..n
  OBVIOUS
<1>3. Bad = {}
  <2>1. SUFFICES ASSUME Bad # {} PROVE FALSE
    OBVIOUS
  <2>2. PICK k \in Bad : \A j \in Bad : k <= j
    <3>1. Bad \subseteq Nat
      OBVIOUS
    <3> HIDE DEF Bad
    <3> QED BY <2>1, <3>1, LeastNat
  <2>3. k # 0
    BY <1>1, <1>2, <2>2 DEF Distinct
  <2>4. k \in 1..n /\ k - 1 \in 0..n /\ ~(k <= k - 1)
    BY <1>2, <2>2, <2>3
  <2>5. Good(k - 1)
    BY <2>2, <2>4
  <2>6. out[k] = IF s[k] \in S THEN Append(out[k - 1], s[k]) ELSE out[k - 1]
    BY <1>1, <2>4
  <2>7. out[k - 1] \in Seq(X) /\ s[k] \in X
    BY <1>1, <2>4
  <2>8. CASE s[k] \notin S
    <3>1. From(k)
      BY <2>4, <2>5, <2>6, <2>8
    <3> QED BY <2>2, <2>5, <2>6, <2>8, <3>1
  <2>9. CASE s[k] \in S
    <3> DEFINE o == out[k - 1]
    <3>1. out[k] = Append(o, s[k])
      BY <2>6, <2>9
    <3>2. Len(Append(o, s[k])) = Len(o) + 1
          /\ \A p \in 1..(Len(o) + 1) : Append(o, s[k])[p] = IF p <= Len(o) THEN o[p] ELSE s[k]
      BY <2>7
    <3>3. From(k)
      <4> SUFFICES ASSUME NEW p \in 1..(Len(o) + 1) PROVE \E i \in 1..k : s[i] \in S /\ s[i] = Append(o, s[k])[p]
        BY <3>1, <3>2
      <4>1. CASE p <= Len(o)
        <5>1. p \in 1..Len(o)
          BY <2>7, <4>1
        <5>2. PICK i \in 1..(k - 1) : s[i] \in S /\ s[i] = o[p]
          BY <2>5, <5>1
        <5> QED BY <2>4, <3>2, <4>1, <5>2
      <4>2. CASE ~(p <= Len(o))
        <5>1. Append(o, s[k])[p] = s[k] /\ k \in 1..k
          BY <2>4, <3>2, <4>2
        <5> QED BY <2>9, <5>1
      <4> QED BY <4>1, <4>2
    <3>4. ASSUME Distinct(s) PROVE Distinct(out[k])
      <4>1. \A p \in 1..Len(o) : o[p] # s[k]
        <5> TAKE p \in 1..Len(o)
        <5>1. PICK i \in 1..(k - 1) : s[i] = o[p]
          BY <2>5
        <5>2. i \in DOMAIN s /\ k \in DOMAIN s /\ i # k
          BY <1>2, <2>4
        <5> QED BY <3>4, <5>1, <5>2 DEF Distinct
      <4>2. Distinct(o)
        BY <2>5, <3>4
      <4> HIDE DEF o
      <4>3. o \in Seq(X)
        BY <2>7 DEF o
      <4> QED BY <2>7, <3>1, <4>1, <4>2, <4>3, AppendDistinct
    <3> QED BY <2>2, <3>3, <3>4
  <2> QED BY <2>8, <2>9
<1>4. n \in 0..n /\ Good(n)
  BY <1>2, <1>3
<1>5. \A i \in 1..n : s[i] \in ToSet(s)
  BY <1>2 DEF ToSet
<1>6. out[n] \in Seq(X) /\ \A p \in 1..Len(out[n]) : out[n][p] \in S /\ out[n][p] \in ToSet(s)
  BY <1>1, <1>4, <1>5
<1> QED BY <1>0, <1>4, <1>6
-----------------------------------------------------------------------------
(* Alias graphs.                                                           *)

\* No set of aliases leads only to itself: the alias graph has no cycle.
NoAliasCycle(aliases) == \A C \in SUBSET DOMAIN aliases : C # {} => \E k \in C : aliases[k] \notin C

\* What following aliases for n hops visits.
Follows(hop, aliases, k, n) ==
    /\ hop[0] = k
    /\ \A i \in 1..n : hop[i] = IF hop[i - 1] \in DOMAIN aliases THEN aliases[hop[i - 1]] ELSE hop[i - 1]

\* The recursive function that follows aliases, any number of hops.
LEMMA FollowExists ==
  ASSUME NEW aliases, NEW k, NEW n \in Nat
  PROVE  LET hop[i \in 0..n] == IF i = 0 THEN k
                 ELSE IF hop[i-1] \in DOMAIN aliases THEN aliases[hop[i-1]] ELSE hop[i-1]
         IN  Follows(hop, aliases, k, n)
<1> DEFINE X == {k} \cup DOMAIN aliases \cup {aliases[x] : x \in DOMAIN aliases}
           next == [x \in X |-> IF x \in DOMAIN aliases THEN aliases[x] ELSE x]
           step == [i \in Nat |-> next]
           Rec(f) == [i \in 0..n |-> IF i = 0 THEN k
                        ELSE IF f[i-1] \in DOMAIN aliases THEN aliases[f[i-1]] ELSE f[i-1]]
           hop == CHOOSE f : f = Rec(f)
<1>1. next \in [X -> X] /\ k \in X
  OBVIOUS
<1>2. step \in [Nat -> [X -> X]]
  BY <1>1
<1>3. PICK g : Iterates(g, X, k, step, n)
  <2> HIDE DEF X, next, step
  <2> QED BY <1>1, <1>2, IterationExists
<1>4. g = Rec(g)
  <2>1. \A i \in 0..n : i = 0 \/ (i \in 1..n /\ i \in Nat /\ i - 1 \in 0..n)
    OBVIOUS
  <2>2. \A i \in 1..n : g[i - 1] \in X /\ g[i] = next[g[i - 1]]
    <3> TAKE i \in 1..n
    <3>1. i \in Nat /\ i - 1 \in 0..n
      BY <2>1
    <3>2. g[i - 1] \in X
      BY <1>3, <3>1 DEF Iterates
    <3>3. g[i] = step[i][g[i - 1]]
      BY <1>3 DEF Iterates
    <3> QED BY <3>1, <3>2, <3>3
  <2>3. \A i \in 0..n : g[i] = Rec(g)[i]
    BY <1>3, <2>1, <2>2 DEF Iterates
  <2>4. g = [i \in 0..n |-> g[i]]
    BY <1>3 DEF Iterates
  <2> QED BY <2>3, <2>4
<1>5. hop = Rec(hop)
  BY <1>4, Zenon
<1> HIDE DEF hop
<1>6. Follows(hop, aliases, k, n)
  <2>1. 0 \in 0..n /\ \A i \in 1..n : i \in 0..n /\ i # 0
    OBVIOUS
  <2> QED BY <1>5, <2>1 DEF Follows
<1> QED BY <1>6 DEF hop

\* A walk through a set of aliases that leads nowhere else stays there.
LEMMA WalkStays ==
  ASSUME NEW aliases, NEW hop, NEW n \in Nat, NEW k \in DOMAIN aliases, Follows(hop, aliases, k, n),
         hop[n] \in DOMAIN aliases
  PROVE  \A i \in 0..n : hop[i] \in DOMAIN aliases
<1> DEFINE Out == {j \in 0..n : hop[n - j] \notin DOMAIN aliases}
<1>1. Out = {}
  <2>1. SUFFICES ASSUME Out # {} PROVE FALSE
    OBVIOUS
  <2>2. PICK j \in Out : \A m \in Out : j <= m
    <3>1. Out \subseteq Nat
      OBVIOUS
    <3> HIDE DEF Out
    <3> QED BY <2>1, <3>1, LeastNat
  <2>3. j # 0
    BY <2>2
  <2>4. j - 1 \in 0..n /\ ~(j <= j - 1) /\ n - (j - 1) \in 1..n /\ (n - (j - 1)) - 1 = n - j
    BY <2>2, <2>3
  <2>5. hop[n - (j - 1)] \in DOMAIN aliases
    BY <2>2, <2>4
  <2>6. hop[n - (j - 1)] = hop[n - j]
    BY <2>2, <2>4 DEF Follows
  <2> QED BY <2>2, <2>5, <2>6
<1>2. \A i \in 0..n : n - i \in 0..n /\ n - (n - i) = i
  OBVIOUS
<1> QED BY <1>1, <1>2

\* A walk that is still in the graph after as many hops as there are aliases
\* has come to some alias twice, and what lies between leads only to itself.
LEMMA WalkLeaves ==
  ASSUME NEW aliases, IsFiniteSet(DOMAIN aliases), NoAliasCycle(aliases),
         NEW hop, NEW k \in DOMAIN aliases, Follows(hop, aliases, k, Cardinality(DOMAIN aliases))
  PROVE  hop[Cardinality(DOMAIN aliases)] \notin DOMAIN aliases
<1> DEFINE n == Cardinality(DOMAIN aliases)
           D == DOMAIN aliases
<1>1. n \in Nat
  BY FS_CardinalityType
<1> SUFFICES ASSUME hop[n] \in D PROVE FALSE
  OBVIOUS
<1>2. \A i \in 0..n : hop[i] \in D
  <2> HIDE DEF n
  <2> QED BY <1>1, WalkStays DEF n
<1> DEFINE f == [i \in 0..n |-> hop[i]]
<1>3. f \in [0..n -> D]
  BY <1>2
<1>4. IsFiniteSet(0..n) /\ Cardinality(0..n) = n + 1
  <2> HIDE DEF n
  <2> QED BY <1>1, FS_Interval
<1>5. PICK x \in 0..n, y \in 0..n : x # y /\ f[x] = f[y]
  <2>1. n < n + 1
    BY <1>1
  <2> HIDE DEF f
  <2> QED BY <1>3, <1>4, <2>1, FS_PigeonHole
<1>6. PICK i \in 0..n, j \in 0..n : i < j /\ hop[i] = hop[j]
  <2>1. f[x] = hop[x] /\ f[y] = hop[y]
    OBVIOUS
  <2>2. x < y \/ y < x
    BY <1>1, <1>5
  <2> QED BY <1>5, <2>1, <2>2
<1> DEFINE C == {hop[l] : l \in i..(j - 1)}
<1>7. C \subseteq D /\ hop[i] \in C
  <2>1. i \in i..(j - 1) /\ \A l \in i..(j - 1) : l \in 0..n
    BY <1>1, <1>6
  <2> QED BY <1>2, <2>1
<1>8. \A c \in C : aliases[c] \in C
  <2> SUFFICES ASSUME NEW l \in i..(j - 1) PROVE aliases[hop[l]] \in C
    OBVIOUS
  <2>1. l + 1 \in 1..n /\ (l + 1) - 1 = l /\ l \in 0..n
    BY <1>1, <1>6
  <2>2. aliases[hop[l]] = hop[l + 1]
    BY <1>2, <2>1 DEF Follows
  <2>3. CASE l + 1 = j
    BY <1>6, <1>7, <2>2, <2>3
  <2>4. CASE l + 1 # j
    <3>1. l + 1 \in i..(j - 1)
      BY <1>6, <2>4
    <3> QED BY <2>2, <3>1
  <2> QED BY <2>3, <2>4
<1> HIDE DEF C
<1> QED BY <1>7, <1>8 DEF NoAliasCycle
=============================================================================

--------------------------- MODULE PathTextProofs ---------------------------
(***************************************************************************)
(* The text of a path, for every path: parsing gives the path back, the    *)
(* delimiters part it where its segments part, and the order computed from *)
(* the segments is that of the texts.  Both directions walk the bytes: the *)
(* printer by joining what it prints of each segment, the parser by a      *)
(* recursive function of the position.  Where a segment lies in the text   *)
(* is described once (Placed), and the parser is followed from the end of  *)
(* the text to its start.                                                  *)
(***************************************************************************)
EXTENDS PathText, ResolutionLemmas

(* Joining and mapping.                                                    *)

\* f joins the first lists of seqs, one after the other.
Flattens(f, seqs, X) ==
    /\ f \in [0..Len(seqs) -> Seq(X)] /\ f[0] = <<>>
    /\ \A i \in 1..Len(seqs) : f[i] = f[i - 1] \o seqs[i]

\* FlattenSeq is what joining ends with.
LEMMA FlattenSteps ==
  ASSUME NEW X, NEW seqs \in Seq(Seq(X))
  PROVE  \E f : Flattens(f, seqs, X) /\ FlattenSeq(seqs) = f[Len(seqs)]
<1> DEFINE n == Len(seqs)
           step == [i \in Nat |-> [t \in Seq(X) |-> IF i \in 1..n THEN t \o seqs[i] ELSE t]]
           Rec(f) == [i \in 1..n |-> IF i = 1 THEN seqs[i] ELSE f[i - 1] \o seqs[i]]
           flatten == CHOOSE f : f = Rec(f)
<1>0. n \in Nat /\ <<>> \in Seq(X) /\ \A i \in 1..n : seqs[i] \in Seq(X)
  OBVIOUS
<1>1. step \in [Nat -> [Seq(X) -> Seq(X)]]
  <2>1. ASSUME NEW i \in Nat, NEW t \in Seq(X) PROVE (IF i \in 1..n THEN t \o seqs[i] ELSE t) \in Seq(X)
    BY <1>0, ConcatProperties
  <2> QED BY <2>1
<1>2. PICK g : Iterates(g, Seq(X), <<>>, step, n)
  <2> HIDE DEF step
  <2> QED BY <1>0, <1>1, IterationExists
<1>3. g \in [0..n -> Seq(X)] /\ g[0] = <<>> /\ \A i \in 1..n : g[i] = g[i - 1] \o seqs[i]
  <2>1. ASSUME NEW i \in 1..n PROVE g[i] = g[i - 1] \o seqs[i]
    <3>1. i \in Nat /\ i - 1 \in 0..n
      OBVIOUS
    <3>2. g[i - 1] \in Seq(X) /\ g[i] = step[i][g[i - 1]]
      BY <1>2, <3>1 DEF Iterates
    <3> QED BY <3>1, <3>2
  <2> QED BY <1>2, <2>1 DEF Iterates
<1>4. Flattens(g, seqs, X)
  BY <1>3 DEF Flattens
<1> HIDE DEF step
<1>7. ASSUME NEW i \in 1..n PROVE i = 1 => g[i] = seqs[i]
  <2>1. SUFFICES ASSUME i = 1 PROVE g[i] = seqs[i]
    OBVIOUS
  <2>2. seqs[i] \in Seq(X) /\ g[i] = g[i - 1] \o seqs[i]
    BY <1>0, <1>3, Zenon
  <2>3. i - 1 = 0
    BY <2>1
  <2>4. g[i] = <<>> \o seqs[i]
    BY <1>3, <2>2, <2>3, Zenon
  <2> HIDE DEF n
  <2> QED BY <2>2, <2>4, ConcatEmptySeq
<1>5. CASE n = 0
  <2>1. seqs = <<>> /\ FlattenSeq(seqs) = seqs
    BY <1>5, EmptySeq DEF FlattenSeq
  <2> QED BY <1>3, <1>4, <1>5, <2>1
<1>6. CASE n # 0
  <2>1. FlattenSeq(seqs) = flatten[n]
    BY <1>6 DEF FlattenSeq
  <2>2. [i \in 1..n |-> g[i]] = Rec([i \in 1..n |-> g[i]])
    <3>1. ASSUME NEW i \in 1..n
          PROVE  g[i] = IF i = 1 THEN seqs[i] ELSE [j \in 1..n |-> g[j]][i - 1] \o seqs[i]
      <4>1. CASE i = 1
        BY <1>7, <4>1
      <4>2. CASE i # 1
        <5>1. i - 1 \in 1..n
          BY <1>0, <4>2
        <5>2. [j \in 1..n |-> g[j]][i - 1] = g[i - 1]
          BY <5>1
        <5>3. g[i] = g[i - 1] \o seqs[i]
          BY <1>3
        <5> QED BY <4>2, <5>2, <5>3
      <4> QED BY <4>1, <4>2
    <3> QED BY <3>1
  <2>3. flatten = Rec(flatten)
    BY <2>2, Zenon
  <2> HIDE DEF flatten
  <2> DEFINE Bad == {i \in 1..n : flatten[i] # g[i]}
  <2>4. Bad = {}
    <3>1. SUFFICES ASSUME Bad # {} PROVE FALSE
      OBVIOUS
    <3>2. PICK i \in Bad : \A j \in Bad : i <= j
      <4>1. Bad \subseteq Nat
        OBVIOUS
      <4> HIDE DEF Bad
      <4> QED BY <3>1, <4>1, LeastNat
    <3>3. i \in 1..n /\ flatten[i] # g[i]
      BY <3>2
    <3>4. CASE i = 1
      <4>1. flatten[i] = seqs[i]
        BY <2>3, <3>3, <3>4
      <4> QED BY <1>7, <3>3, <3>4, <4>1
    <3>5. CASE i # 1
      <4>1. i - 1 \in 1..n /\ ~(i <= i - 1)
        BY <3>3, <3>5
      <4>2. flatten[i - 1] = g[i - 1]
        BY <3>2, <4>1
      <4>3. flatten[i] = flatten[i - 1] \o seqs[i]
        BY <2>3, <3>3, <3>5
      <4> QED BY <1>3, <3>3, <4>2, <4>3
    <3> QED BY <3>4, <3>5
  <2>5. flatten[n] = g[n]
    BY <1>0, <1>6, <2>4
  <2> QED BY <1>4, <2>1, <2>5
<1> QED BY <1>5, <1>6

\* Joining two lists of lists joins what each joins to.
LEMMA FlattenConcat ==
  ASSUME NEW X, NEW a \in Seq(Seq(X)), NEW b \in Seq(Seq(X))
  PROVE  /\ FlattenSeq(a) \in Seq(X)
         /\ FlattenSeq(a \o b) = FlattenSeq(a) \o FlattenSeq(b)
<1> DEFINE m == Len(a)
           n == Len(b)
           c == a \o b
<1>1. /\ m \in Nat /\ n \in Nat /\ c \in Seq(Seq(X)) /\ Len(c) = m + n
      /\ \A i \in 1..m : c[i] = a[i] /\ a[i] \in Seq(X)
      /\ \A i \in 1..n : c[m + i] = b[i] /\ b[i] \in Seq(X)
  <2>1. \A i \in 1..m + n : c[i] = IF i <= m THEN a[i] ELSE b[i - m]
    BY ConcatProperties
  <2>2. m \in Nat /\ n \in Nat /\ c \in Seq(Seq(X)) /\ Len(c) = m + n
    BY ConcatProperties
  <2>3. ASSUME NEW i \in 1..n PROVE c[m + i] = b[i] /\ b[i] \in Seq(X)
    <3>1. m + i \in 1..m + n /\ ~(m + i <= m) /\ m + i - m = i
      BY <2>2
    <3> QED BY <2>1, <3>1
  <2>4. ASSUME NEW i \in 1..m PROVE c[i] = a[i] /\ a[i] \in Seq(X)
    <3>1. i \in 1..m + n
      BY <2>2
    <3> QED BY <2>1, <3>1
  <2> QED BY <2>2, <2>3, <2>4
<1> HIDE DEF m, n, c
<1>0. m \in Nat /\ n \in Nat
  BY <1>1
<1>2. PICK f : Flattens(f, c, X) /\ FlattenSeq(c) = f[m + n]
  BY <1>1, FlattenSteps
<1>3. PICK g : Flattens(g, a, X) /\ FlattenSeq(a) = g[m]
  BY FlattenSteps DEF m
<1>4. PICK h : Flattens(h, b, X) /\ FlattenSeq(b) = h[n]
  BY FlattenSteps DEF n
<1>5. /\ f[0] = <<>> /\ \A i \in 1..m + n : f[i] = f[i - 1] \o c[i]
      /\ g \in [0..m -> Seq(X)] /\ g[0] = <<>> /\ \A i \in 1..m : g[i] = g[i - 1] \o a[i]
      /\ h \in [0..n -> Seq(X)] /\ h[0] = <<>> /\ \A i \in 1..n : h[i] = h[i - 1] \o b[i]
  BY <1>1, <1>2, <1>3, <1>4 DEF Flattens, m, n
<1>6. ASSUME NEW i \in 0..m PROVE f[i] = g[i]
  <2> DEFINE Bad == {j \in 0..m : f[j] # g[j]}
  <2>1. SUFFICES ASSUME Bad # {} PROVE FALSE
    OBVIOUS
  <2>2. PICK j \in Bad : \A k \in Bad : j <= k
    <3>0. 0..m \subseteq Nat /\ 0..n \subseteq Nat
      BY <1>0
    <3>1. Bad \subseteq Nat
      BY <3>0, Zenon
    <3> HIDE DEF Bad
    <3> QED BY <2>1, <3>1, LeastNat
  <2>3. j \in 1..m /\ j - 1 \in 0..m /\ ~(j <= j - 1) /\ j \in 1..m + n
    BY <1>0, <1>5, <2>2
  <2>4. f[j - 1] = g[j - 1]
    BY <2>2, <2>3
  <2>5. f[j] = f[j - 1] \o c[j] /\ g[j] = g[j - 1] \o a[j] /\ c[j] = a[j] /\ f[j] # g[j]
    BY <1>1, <1>5, <2>2, <2>3
  <2> QED BY <2>4, <2>5
<1>7. ASSUME NEW i \in 0..n PROVE f[m + i] = g[m] \o h[i]
  <2> DEFINE Bad == {j \in 0..n : f[m + j] # g[m] \o h[j]}
  <2>1. SUFFICES ASSUME Bad # {} PROVE FALSE
    OBVIOUS
  <2>2. PICK j \in Bad : \A k \in Bad : j <= k
    <3>0. 0..m \subseteq Nat /\ 0..n \subseteq Nat
      BY <1>0
    <3>1. Bad \subseteq Nat
      BY <3>0, Zenon
    <3> HIDE DEF Bad
    <3> QED BY <2>1, <3>1, LeastNat
  <2>3. j \in 0..n /\ f[m + j] # g[m] \o h[j] /\ m \in 0..m /\ g[m] \in Seq(X)
    BY <1>0, <1>5, <2>2
  <2> HIDE DEF Bad
  <2>4. CASE j = 0
    <3>0. m + j = m
      BY <1>0, <2>4
    <3>1. f[m + j] = g[m] /\ h[j] = <<>>
      BY <1>5, <1>6, <2>3, <2>4, <3>0
    <3> QED BY <2>3, <3>1, ConcatEmptySeq
  <2>5. CASE j # 0
    <3>1. j \in 1..n /\ j - 1 \in 0..n /\ ~(j <= j - 1) /\ m + j \in 1..m + n /\ (m + j) - 1 = m + (j - 1)
      BY <1>0, <2>3, <2>5
    <3>2. f[m + (j - 1)] = g[m] \o h[j - 1]
      BY <2>2, <3>1 DEF Bad
    <3>3. f[m + j] = (g[m] \o h[j - 1]) \o b[j]
      <4>0. \A k \in 1..m + n : f[k] = f[k - 1] \o c[k]
        BY <1>5
      <4>1. f[m + j] = f[(m + j) - 1] \o c[m + j]
        BY <3>1, <4>0
      <4>2. c[m + j] = b[j]
        BY <1>1, <3>1
      <4> QED BY <3>1, <3>2, <4>1, <4>2
    <3>4. (g[m] \o h[j - 1]) \o b[j] = g[m] \o (h[j - 1] \o b[j])
      <4>1. g[m] \in Seq(X) /\ h[j - 1] \in Seq(X) /\ b[j] \in Seq(X)
        BY <1>1, <1>5, <2>3, <3>1
      <4> DEFINE x == g[m]
                 y == h[j - 1]
                 z == b[j]
      <4>2. x \in Seq(X) /\ y \in Seq(X) /\ z \in Seq(X)
        BY <4>1
      <4> HIDE DEF x, y, z
      <4>3. (x \o y) \o z = x \o (y \o z)
        BY <4>2, ConcatAssociative
      <4> QED BY <4>3 DEF x, y, z
    <3> QED BY <1>5, <2>3, <3>1, <3>3, <3>4
  <2> QED BY <2>4, <2>5
<1>8. f[m + n] = g[m] \o h[n] /\ g[m] \in Seq(X)
  <2>1. n \in 0..n /\ m \in 0..m
    BY <1>0
  <2> QED BY <1>5, <1>7, <2>1
<1> QED BY <1>2, <1>3, <1>4, <1>8 DEF c

\* h gives what is printed of an element of X.
Printer(h, X, Y) == h \in [X -> Seq(Y)]

\* What h prints of each element of a, one after the other.
FlatMap(h, a) == FlattenSeq([i \in 1..Len(a) |-> h[a[i]]])

\* Printing one list after another prints what each prints.
LEMMA FlatMapConcat ==
  ASSUME NEW X, NEW Y, NEW h, Printer(h, X, Y), NEW a \in Seq(X), NEW b \in Seq(X)
  PROVE  /\ FlatMap(h, a) \in Seq(Y)
         /\ FlatMap(h, b) \in Seq(Y)
         /\ FlatMap(h, a \o b) = FlatMap(h, a) \o FlatMap(h, b)
<1> DEFINE c == a \o b
           ha == [i \in 1..Len(a) |-> h[a[i]]]
           hb == [i \in 1..Len(b) |-> h[b[i]]]
           hc == [i \in 1..Len(c) |-> h[c[i]]]
<1>1. /\ c \in Seq(X) /\ Len(a) \in Nat /\ Len(b) \in Nat /\ Len(c) = Len(a) + Len(b)
      /\ \A i \in 1..Len(c) : c[i] = IF i <= Len(a) THEN a[i] ELSE b[i - Len(a)]
  BY ConcatProperties
<1> HIDE DEF c
<1>2. ha \in Seq(Seq(Y)) /\ hb \in Seq(Seq(Y)) /\ hc \in Seq(Seq(Y))
  <2>1. /\ \A i \in 1..Len(a) : h[a[i]] \in Seq(Y)
        /\ \A i \in 1..Len(b) : h[b[i]] \in Seq(Y)
    BY DEF Printer
  <2>2. \A i \in 1..Len(c) : h[c[i]] \in Seq(Y)
    BY <1>1 DEF Printer
  <2> QED BY <1>1, <2>1, <2>2
<1>3. Len(ha) = Len(a) /\ Len(hb) = Len(b) /\ Len(hc) = Len(c)
  BY <1>1
<1>4. hc = ha \o hb
  <2>1. /\ ha \o hb \in Seq(Seq(Y)) /\ Len(ha \o hb) = Len(a) + Len(b)
        /\ \A i \in 1..(Len(a) + Len(b)) : (ha \o hb)[i] = IF i <= Len(a) THEN ha[i] ELSE hb[i - Len(a)]
    <3> HIDE DEF ha, hb
    <3>1. /\ ha \o hb \in Seq(Seq(Y)) /\ Len(ha \o hb) = Len(ha) + Len(hb)
          /\ \A i \in 1..(Len(ha) + Len(hb)) : (ha \o hb)[i] = IF i <= Len(ha) THEN ha[i] ELSE hb[i - Len(ha)]
      BY <1>2, ConcatProperties
    <3> QED BY <1>3, <3>1
  <2>2. ASSUME NEW i \in 1..Len(c) PROVE hc[i] = (ha \o hb)[i]
    <3>1. CASE i <= Len(a)
      <4>1. i \in 1..Len(a) /\ c[i] = a[i] /\ (ha \o hb)[i] = ha[i]
        BY <1>1, <2>1, <3>1
      <4> QED BY <4>1
    <3>2. CASE ~(i <= Len(a))
      <4>1. i - Len(a) \in 1..Len(b) /\ c[i] = b[i - Len(a)] /\ (ha \o hb)[i] = hb[i - Len(a)]
        BY <1>1, <2>1, <3>2
      <4> QED BY <4>1
    <3> QED BY <3>1, <3>2
  <2>3. Len(hc) = Len(ha \o hb) /\ \A i \in 1..Len(hc) : hc[i] = (ha \o hb)[i]
    <3> HIDE DEF hc, ha, hb
    <3> QED BY <1>1, <1>3, <2>1, <2>2
  <2> HIDE DEF hc, ha, hb
  <2> QED BY <1>2, <2>1, <2>3, SeqEqual
<1>5. FlatMap(h, a) = FlattenSeq(ha) /\ FlatMap(h, b) = FlattenSeq(hb) /\ FlatMap(h, c) = FlattenSeq(hc)
  BY DEF FlatMap
<1> HIDE DEF ha, hb, hc
<1>6. FlattenSeq(ha) \in Seq(Y) /\ FlattenSeq(hb) \in Seq(Y) /\ FlattenSeq(ha \o hb) = FlattenSeq(ha) \o FlattenSeq(hb)
  BY <1>2, FlattenConcat
<1> QED BY <1>4, <1>5, <1>6 DEF c

\* Nothing prints as nothing, and a single element as itself.
LEMMA FlatMapOne ==
  ASSUME NEW X, NEW Y, NEW h, Printer(h, X, Y)
  PROVE  /\ FlatMap(h, <<>>) = <<>>
         /\ \A x \in X : FlatMap(h, <<x>>) = h[x]
<1>1. FlatMap(h, <<>>) = <<>>
  <2>1. [i \in 1..Len(<<>>) |-> h[<<>>[i]]] = <<>>
    BY EmptySeq
  <2>2. FlattenSeq(<<>>) = <<>>
    BY EmptySeq DEF FlattenSeq
  <2> QED BY <2>1, <2>2 DEF FlatMap
<1>2. ASSUME NEW x \in X PROVE FlatMap(h, <<x>>) = h[x]
  <2> DEFINE one == <<h[x]>>
  <2>1. one \in Seq(Seq(Y)) /\ Len(one) = 1 /\ one[1] = h[x] /\ h[x] \in Seq(Y)
    BY DEF Printer
  <2>2. [i \in 1..Len(<<x>>) |-> h[<<x>>[i]]] = one
    OBVIOUS
  <2> HIDE DEF one
  <2>3. PICK f : Flattens(f, one, Y) /\ FlattenSeq(one) = f[1]
    BY <2>1, FlattenSteps
  <2>4. f[1] = f[0] \o one[1] /\ f[0] = <<>>
    <3>1. f[0] = <<>> /\ \A i \in 1..Len(one) : f[i] = f[i - 1] \o one[i]
      BY <2>3, Zenon DEF Flattens
    <3>2. 1 \in 1..Len(one) /\ 1 - 1 = 0
      BY <2>1
    <3> QED BY <3>1, <3>2
  <2>5. f[1] = one[1]
    BY <2>1, <2>4, ConcatEmptySeq
  <2> QED BY <2>1, <2>2, <2>3, <2>5 DEF FlatMap
<1> QED BY <1>1, <1>2

\* Where the print of the first j elements ends.
Ends(h, a, j) == Len(FlatMap(h, SubSeq(a, 1, j)))

\* In what is printed of a list, the print of each element lies behind those
\* of the elements before it.
LaidOut(h, a) ==
    /\ Ends(h, a, 0) = 0
    /\ Ends(h, a, Len(a)) = Len(FlatMap(h, a))
    /\ \A j \in 0..Len(a) : Ends(h, a, j) \in Nat /\ Ends(h, a, j) <= Len(FlatMap(h, a))
    /\ \A j \in 1..Len(a) :
          /\ Ends(h, a, j) = Ends(h, a, j - 1) + Len(h[a[j]])
          /\ \A k \in 1..Len(h[a[j]]) : FlatMap(h, a)[Ends(h, a, j - 1) + k] = h[a[j]][k]

LEMMA Layout ==
  ASSUME NEW X, NEW Y, NEW h, Printer(h, X, Y), NEW a \in Seq(X)
  PROVE  LaidOut(h, a)
<1> DEFINE n == Len(a)
           F == FlatMap(h, a)
           P(j) == FlatMap(h, SubSeq(a, 1, j))
<1>1. n \in Nat /\ F \in Seq(Y) /\ \A j \in 1..n : a[j] \in X
  <2>1. FlatMap(h, a) \in Seq(Y)
    BY FlatMapConcat
  <2> QED BY <2>1
<1>2. Ends(h, a, 0) = 0
  <2>1. SubSeq(a, 1, 0) = <<>>
    BY SubSeqEmpty
  <2> QED BY <2>1, FlatMapOne, EmptySeq DEF Ends
<1>3. Ends(h, a, n) = Len(F)
  BY SubSeqFull DEF Ends
<1> HIDE DEF F
<1>4. ASSUME NEW j \in 0..n
      PROVE  \E rest \in Seq(Y) : F = P(j) \o rest /\ P(j) \in Seq(Y)
  <2> DEFINE first == SubSeq(a, 1, j)
             last == SubSeq(a, j + 1, n)
  <2>1. first \in Seq(X) /\ last \in Seq(X)
    <3>1. (\A i \in 1..j : a[i] \in X) /\ (\A i \in (j + 1)..n : a[i] \in X) /\ j \in Int /\ j + 1 \in Int /\ n \in Int
      BY <1>1
    <3> QED BY <3>1, SubSeqProperties
  <2>2. first \o last = a
    <3>1. 1 \in 1..n + 1 /\ j \in (1 - 1)..n /\ n \in j..n
      BY <1>1
    <3>2. first \o last = SubSeq(a, 1, n)
      BY <3>1, ConcatAdjacentSubSeq
    <3> QED BY <3>2, SubSeqFull
  <2> HIDE DEF first, last
  <2>3. FlatMap(h, first) \in Seq(Y) /\ FlatMap(h, last) \in Seq(Y)
        /\ FlatMap(h, first \o last) = FlatMap(h, first) \o FlatMap(h, last)
    BY <2>1, FlatMapConcat
  <2>4. F = FlatMap(h, first) \o FlatMap(h, last)
    BY <2>2, <2>3 DEF F
  <2> QED BY <2>3, <2>4 DEF first
<1>5. ASSUME NEW j \in 0..n PROVE Ends(h, a, j) \in Nat /\ Ends(h, a, j) <= Len(F)
  <2>1. PICK rest \in Seq(Y) : F = P(j) \o rest /\ P(j) \in Seq(Y)
    BY <1>4
  <2> DEFINE first == P(j)
  <2>2. Ends(h, a, j) = Len(first)
    BY DEF Ends
  <2> HIDE DEF first
  <2>3. Len(F) = Len(first) + Len(rest) /\ Len(first) \in Nat /\ Len(rest) \in Nat
    BY <2>1, ConcatProperties DEF first
  <2> QED BY <2>2, <2>3
<1>6. ASSUME NEW j \in 1..n
      PROVE  /\ Ends(h, a, j) = Ends(h, a, j - 1) + Len(h[a[j]])
             /\ \A k \in 1..Len(h[a[j]]) : F[Ends(h, a, j - 1) + k] = h[a[j]][k]
  <2> DEFINE before == P(j - 1)
             through == P(j)
             x == h[a[j]]
  <2>0. j \in 0..n /\ j - 1 \in 0..n /\ x \in Seq(Y) /\ Len(x) \in Nat
    BY <1>1 DEF Printer
  <2>1. through = before \o x
    <3> DEFINE first == SubSeq(a, 1, j - 1)
    <3>1. first \in Seq(X)
      <4>1. (\A i \in 1..(j - 1) : a[i] \in X) /\ j - 1 \in Int
        BY <1>1
      <4> QED BY <4>1, SubSeqProperties
    <3>2. SubSeq(a, 1, j) = first \o <<a[j]>>
      <4>1. 1 \in 1..n /\ j \in 1..n
        BY <1>1
      <4> QED BY <4>1, SubSeqRecursiveSecond
    <3>3. <<a[j]>> \in Seq(X) /\ FlatMap(h, <<a[j]>>) = x
      <4>1. a[j] \in X
        BY <1>1
      <4>2. \A y \in X : FlatMap(h, <<y>>) = h[y]
        BY FlatMapOne
      <4> QED BY <4>1, <4>2
    <3> DEFINE one == <<a[j]>>
    <3> HIDE DEF first, x, one
    <3>4. FlatMap(h, first \o <<a[j]>>) = FlatMap(h, first) \o FlatMap(h, <<a[j]>>)
      <4>1. one \in Seq(X)
        BY <3>3 DEF one
      <4>2. FlatMap(h, first \o one) = FlatMap(h, first) \o FlatMap(h, one)
        BY <3>1, <4>1, FlatMapConcat
      <4> QED BY <4>2 DEF one
    <3> QED BY <3>2, <3>3, <3>4 DEF first
  <2>2. PICK rest \in Seq(Y) : F = through \o rest /\ through \in Seq(Y)
    BY <1>4, <2>0
  <2>3. before \in Seq(Y)
    BY <1>4, <2>0
  <2>4. Ends(h, a, j - 1) = Len(before) /\ Ends(h, a, j) = Len(through)
    BY DEF Ends
  <2> HIDE DEF before, through, x
  <2>5. /\ Len(through) = Len(before) + Len(x) /\ Len(before) \in Nat
        /\ \A k \in 1..(Len(before) + Len(x)) : through[k] = IF k <= Len(before) THEN before[k] ELSE x[k - Len(before)]
    BY <2>0, <2>1, <2>3, ConcatProperties
  <2>6. \A k \in 1..(Len(through) + Len(rest)) : F[k] = IF k <= Len(through) THEN through[k] ELSE rest[k - Len(through)]
    BY <2>2, ConcatProperties
  <2>7. ASSUME NEW k \in 1..Len(x) PROVE F[Len(before) + k] = x[k]
    <3>1. /\ Len(before) + k \in 1..(Len(before) + Len(x)) /\ ~(Len(before) + k <= Len(before))
          /\ (Len(before) + k) - Len(before) = k /\ Len(before) + k <= Len(through) /\ Len(rest) \in Nat
          /\ Len(before) + k \in 1..(Len(through) + Len(rest))
      BY <2>0, <2>2, <2>5
    <3> QED BY <2>5, <2>6, <3>1
  <2> QED BY <2>4, <2>5, <2>7 DEF x
<1> QED BY <1>2, <1>3, <1>5, <1>6 DEF F, LaidOut
-----------------------------------------------------------------------------
(* What is printed of a path.                                              *)

Text == Seq(Nat)
\* What Doubled prints of a byte, String of a segment.
twice == [c \in Nat |-> IF c = RightBracket THEN <<c, c>> ELSE <<c>>]
delimited == [t \in Text |-> <<Delimiter>> \o Escaped(t)]

\* A closing bracket is printed twice, any other byte once.
LEMMA DoubledPrints ==
  /\ Printer(twice, Nat, Nat)
  /\ \A seg \in Text : Doubled(seg) = FlatMap(twice, seg) /\ Doubled(seg) \in Text
<1>1. Printer(twice, Nat, Nat)
  BY DEF Printer, twice
<1>2. ASSUME NEW seg \in Text PROVE Doubled(seg) = FlatMap(twice, seg) /\ Doubled(seg) \in Text
  <2>1. \A i \in 1..Len(seg) : twice[seg[i]] = IF seg[i] = RightBracket THEN <<seg[i], seg[i]>> ELSE <<seg[i]>>
    BY DEF twice, Text
  <2>2. [i \in 1..Len(seg) |-> twice[seg[i]]]
          = [i \in 1..Len(seg) |-> IF seg[i] = RightBracket THEN <<seg[i], seg[i]>> ELSE <<seg[i]>>]
    BY <2>1
  <2>3. Doubled(seg) = FlatMap(twice, seg)
    BY <2>2, Zenon DEF Doubled, FlatMap
  <2>4. FlatMap(twice, seg) \in Seq(Nat)
    BY <1>1, FlatMapConcat DEF Text
  <2> QED BY <2>3, <2>4 DEF Text
<1> QED BY <1>1, <1>2

\* A segment is printed behind a delimiter.
LEMMA SegmentPrints ==
  /\ Printer(delimited, Text, Nat)
  /\ \A t \in Text : /\ Escaped(t) \in Text /\ Len(delimited[t]) = Len(Escaped(t)) + 1
                     /\ delimited[t][1] = Delimiter
                     /\ \A k \in 1..Len(Escaped(t)) : delimited[t][k + 1] = Escaped(t)[k]
<1>1. ASSUME NEW t \in Text PROVE Escaped(t) \in Text
  <2> DEFINE d == Doubled(t)
             l == <<LeftBracket>>
             r == <<RightBracket>>
  <2>1. d \in Seq(Nat) /\ l \in Seq(Nat) /\ r \in Seq(Nat) /\ t \in Seq(Nat)
    BY DoubledPrints DEF Text, LeftBracket, RightBracket
  <2>2. Escaped(t) = IF needsBrackets(t) THEN l \o d \o r ELSE t
    BY DEF Escaped
  <2> HIDE DEF d, l, r
  <2>3. (l \o d) \o r \in Seq(Nat)
    BY <2>1, ConcatProperties
  <2> QED BY <2>1, <2>2, <2>3 DEF Text
<1>2. ASSUME NEW t \in Text
      PROVE  /\ delimited[t] \in Seq(Nat) /\ Len(delimited[t]) = Len(Escaped(t)) + 1
             /\ delimited[t][1] = Delimiter
             /\ \A k \in 1..Len(Escaped(t)) : delimited[t][k + 1] = Escaped(t)[k]
  <2> DEFINE e == Escaped(t)
             d == <<Delimiter>>
  <2>1. e \in Seq(Nat) /\ d \in Seq(Nat) /\ Len(d) = 1 /\ d[1] = Delimiter /\ Len(e) \in Nat
    BY <1>1 DEF Text, Delimiter
  <2>2. delimited[t] = d \o e
    BY DEF delimited
  <2> HIDE DEF e, d
  <2>3. /\ d \o e \in Seq(Nat) /\ Len(d \o e) = 1 + Len(e)
        /\ \A i \in 1..(1 + Len(e)) : (d \o e)[i] = IF i <= 1 THEN d[i] ELSE e[i - 1]
    <3>1. /\ d \o e \in Seq(Nat) /\ Len(d \o e) = Len(d) + Len(e)
          /\ \A i \in 1..(Len(d) + Len(e)) : (d \o e)[i] = IF i <= Len(d) THEN d[i] ELSE e[i - Len(d)]
      BY <2>1, ConcatProperties
    <3> QED BY <2>1, <3>1
  <2>4. ASSUME NEW k \in 1..Len(e) PROVE (d \o e)[k + 1] = e[k]
    <3>1. k + 1 \in 1..(1 + Len(e)) /\ ~(k + 1 <= 1) /\ (k + 1) - 1 = k
      BY <2>1
    <3> QED BY <2>3, <3>1
  <2>5. (d \o e)[1] = Delimiter
    BY <2>1, <2>3
  <2> QED BY <2>1, <2>2, <2>3, <2>4, <2>5 DEF e
<1>3. Printer(delimited, Text, Nat)
  <2>1. delimited = [t \in Text |-> delimited[t]]
    BY DEF delimited
  <2>2. \A t \in Text : delimited[t] \in Seq(Nat)
    BY <1>2
  <2> HIDE DEF delimited
  <2> QED BY <2>1, <2>2 DEF Printer
<1> QED BY <1>1, <1>2, <1>3

\* Where the j-th segment ends in the text: the position of the delimiter
\* behind it, or the one past the text.
EndOf(p, j) == Ends(delimited, p, j)

\* The paths whose text is put together of the texts of their segments.
Plain(p) == p \in Seq(Text) /\ p # <<>> /\ p # << <<>> >>

\* Each segment lies in the text behind the end of the one before it, and a
\* delimiter stands between the two.
LEMMA TextLayout ==
  ASSUME NEW p, Plain(p)
  PROVE  LET s == String(p)
             n == Len(p)
         IN  /\ s \in Text /\ n \in Nat \ {0} /\ Len(s) = EndOf(p, n) - 1 /\ Len(s) \in Nat
             /\ EndOf(p, 0) = 0 /\ \A j \in 0..n : EndOf(p, j) \in Nat /\ EndOf(p, j) <= Len(s) + 1
             /\ \A j \in 1..n :
                   /\ p[j] \in Text /\ EndOf(p, j) = EndOf(p, j - 1) + Len(Escaped(p[j])) + 1
                   /\ \A k \in 1..Len(Escaped(p[j])) : s[EndOf(p, j - 1) + k] = Escaped(p[j])[k]
                   /\ j < n => s[EndOf(p, j)] = Delimiter
<1> DEFINE s == String(p)
           n == Len(p)
           F == FlatMap(delimited, p)
           of(j) == delimited[p[j]]
           E(j) == EndOf(p, j)
<1>1. p \in Seq(Text) /\ n \in Nat /\ n # 0 /\ \A j \in 1..n : p[j] \in Text
  BY EmptySeq DEF Plain
<1>2. F \in Seq(Nat) /\ Printer(delimited, Text, Nat)
  BY <1>1, SegmentPrints, FlatMapConcat
<1>3. /\ E(0) = 0 /\ E(n) = Len(F)
      /\ \A j \in 0..n : E(j) \in Nat /\ E(j) <= Len(F)
      /\ \A j \in 1..n : /\ E(j) = E(j - 1) + Len(of(j))
                         /\ \A k \in 1..Len(of(j)) : F[E(j - 1) + k] = of(j)[k]
  <2>1. /\ Ends(delimited, p, 0) = 0
        /\ Ends(delimited, p, Len(p)) = Len(FlatMap(delimited, p))
        /\ \A j \in 0..Len(p) :
              Ends(delimited, p, j) \in Nat /\ Ends(delimited, p, j) <= Len(FlatMap(delimited, p))
        /\ \A j \in 1..Len(p) :
              /\ Ends(delimited, p, j) = Ends(delimited, p, j - 1) + Len(delimited[p[j]])
              /\ \A k \in 1..Len(delimited[p[j]]) :
                    FlatMap(delimited, p)[Ends(delimited, p, j - 1) + k] = delimited[p[j]][k]
    <3> HIDE DEF F, of, E, n, s
    <3>1. p \in Seq(Text) /\ Printer(delimited, Text, Nat)
      BY <1>1, <1>2
    <3>2. LaidOut(delimited, p)
      BY <3>1, Layout
    <3> QED BY <3>2, Zenon DEF LaidOut
  <2> QED BY <2>1, Zenon DEF EndOf
<1>4. \A j \in 1..n : /\ Len(of(j)) = Len(Escaped(p[j])) + 1 /\ of(j)[1] = Delimiter /\ Len(Escaped(p[j])) \in Nat
                      /\ \A k \in 1..Len(Escaped(p[j])) : of(j)[k + 1] = Escaped(p[j])[k]
  BY <1>1, SegmentPrints DEF Text
<1>5. s = Tail(F)
  <2>1. [i \in 1..Len(p) |-> <<Delimiter>> \o Escaped(p[i])] = [i \in 1..Len(p) |-> delimited[p[i]]]
    <3>1. \A i \in 1..Len(p) : delimited[p[i]] = <<Delimiter>> \o Escaped(p[i])
      BY <1>1 DEF delimited
    <3> QED BY <3>1
  <2>2. p # <<>> /\ p # << <<>> >>
    BY DEF Plain
  <2> QED BY <2>1, <2>2, Zenon DEF String, FlatMap
<1> HIDE DEF F
<1>6. Len(F) \in Nat /\ Len(F) # 0 /\ F # <<>>
  <2>1. 1 \in 1..n /\ E(1) = E(1 - 1) + Len(of(1)) /\ 1 - 1 = 0
    BY <1>1, <1>3
  <2>2. E(1) \in Nat /\ E(1) # 0 /\ E(1) <= Len(F)
    BY <1>3, <1>4, <2>1
  <2> QED BY <1>2, <2>2, EmptySeq
<1>7. s \in Text /\ Len(s) = Len(F) - 1 /\ \A i \in 1..Len(s) : s[i] = F[i + 1]
  BY <1>2, <1>5, <1>6, HeadTailProperties DEF Text
<1> HIDE DEF s, E, of
<1>8. ASSUME NEW j \in 1..n, NEW k \in 1..Len(Escaped(p[j])) PROVE s[E(j - 1) + k] = Escaped(p[j])[k]
  <2> DEFINE e == Escaped(p[j])
             b == E(j - 1)
  <2>1. /\ E(j) = b + Len(e) + 1 /\ E(j) <= Len(F) /\ b \in Nat /\ Len(e) \in Nat
        /\ F[b + (k + 1)] = of(j)[k + 1] /\ of(j)[k + 1] = e[k]
    <3>1. j \in 0..n /\ j - 1 \in 0..n /\ Len(of(j)) = Len(e) + 1 /\ Len(e) \in Nat /\ k + 1 \in 1..Len(of(j))
      BY <1>1, <1>4
    <3>2. E(j) = b + Len(of(j)) /\ F[b + (k + 1)] = of(j)[k + 1]
      BY <1>3, <3>1, Zenon
    <3>3. E(j) <= Len(F) /\ b \in Nat
      BY <1>3, <3>1, Zenon
    <3>4. of(j)[k + 1] = e[k]
      BY <1>4, Zenon
    <3> HIDE DEF b, e
    <3> QED BY <3>1, <3>2, <3>3, <3>4
  <2> HIDE DEF e, b
  <2>2. b + k \in 1..Len(s) /\ (b + k) + 1 = b + (k + 1)
    <3>1. k \in 1..Len(e)
      BY DEF e
    <3> QED BY <1>6, <1>7, <2>1, <3>1
  <2> QED BY <1>7, <2>1, <2>2 DEF e, b
<1>9. ASSUME NEW j \in 1..n, j < n PROVE s[E(j)] = Delimiter
  <2>1. j + 1 \in 1..n /\ j + 1 \in 0..n /\ j \in 0..n /\ (j + 1) - 1 = j
    BY <1>1, <1>9
  <2>2. E(j) \in Nat /\ E(j + 1) = E(j) + Len(of(j + 1)) /\ E(j + 1) <= Len(F) /\ Len(of(j + 1)) \in Nat \ {0}
        /\ of(j + 1)[1] = Delimiter
    <3>1. E(j + 1) = E((j + 1) - 1) + Len(of(j + 1))
      BY <1>3, <2>1
    <3>2. Len(of(j + 1)) \in Nat \ {0} /\ of(j + 1)[1] = Delimiter
      BY <1>4, <2>1
    <3> QED BY <1>3, <2>1, <3>1, <3>2
  <2>3. F[E(j) + 1] = Delimiter
    <3>1. 1 \in 1..Len(of(j + 1))
      BY <2>2
    <3>2. F[E((j + 1) - 1) + 1] = of(j + 1)[1]
      BY <1>3, <2>1, <3>1
    <3> QED BY <2>1, <2>2, <3>2
  <2>4. E(j) # 0
    <3>1. E(j) = E(j - 1) + Len(of(j)) /\ E(j - 1) \in Nat /\ Len(of(j)) \in Nat \ {0}
      <4>1. j - 1 \in 0..n
        BY <1>1
      <4> QED BY <1>3, <1>4, <4>1
    <3> QED BY <3>1
  <2>5. E(j) \in 1..Len(s)
    BY <1>6, <1>7, <2>2, <2>4
  <2> QED BY <1>7, <2>3, <2>5
<1>10. \A j \in 1..n : E(j) = E(j - 1) + Len(Escaped(p[j])) + 1
  <2> TAKE j \in 1..n
  <2>1. E(j) = E(j - 1) + Len(of(j)) /\ E(j - 1) \in Nat /\ Len(of(j)) = Len(Escaped(p[j])) + 1 /\ Len(Escaped(p[j])) \in Nat
    <3>1. j - 1 \in 0..n
      BY <1>1
    <3> QED BY <1>3, <1>4, <3>1
  <2> QED BY <2>1
<1>11. Len(s) = E(n) - 1 /\ Len(s) \in Nat /\ \A j \in 0..n : E(j) \in Nat /\ E(j) <= Len(s) + 1
  BY <1>3, <1>6, <1>7
<1> QED BY <1>1, <1>3, <1>7, <1>8, <1>9, <1>10, <1>11 DEF s, E
-----------------------------------------------------------------------------
(* Walks over a text.                                                      *)

\* What holds of a position when it holds of every one behind it, up to the
\* last, holds of all.
LEMMA FromTheEnd ==
  ASSUME NEW lo \in Nat, NEW hi \in Nat, NEW good,
         \A j \in lo..hi : (\A k \in (j + 1)..hi : k \in good) => j \in good
  PROVE  \A j \in lo..hi : j \in good
<1> DEFINE Bad == {d \in 0..hi : hi - d \in lo..hi /\ hi - d \notin good}
<1>1. Bad = {}
  <2>1. SUFFICES ASSUME Bad # {} PROVE FALSE
    OBVIOUS
  <2>2. PICK d \in Bad : \A e \in Bad : d <= e
    <3>1. Bad \subseteq Nat
      OBVIOUS
    <3> HIDE DEF Bad
    <3> QED BY <2>1, <3>1, LeastNat
  <2>3. d \in 0..hi /\ hi - d \in lo..hi /\ hi - d \notin good
    BY <2>2
  <2>4. PICK k \in ((hi - d) + 1)..hi : k \notin good
    BY <2>3
  <2>5. hi - k \in 0..hi /\ hi - (hi - k) = k /\ k \in lo..hi /\ ~(d <= hi - k)
    BY <2>3, <2>4
  <2>6. hi - k \in Bad
    BY <2>4, <2>5
  <2> QED BY <2>2, <2>5, <2>6
<1>2. ASSUME NEW j \in lo..hi PROVE j \in good
  <2>1. hi - j \in 0..hi /\ hi - (hi - j) = j
    OBVIOUS
  <2> QED BY <1>1, <2>1
<1> QED BY <1>2

\* f is computed from the positions behind: where a walk stops it is base,
\* elsewhere step of what it is at the next position.
Descends(f, lo, hi, V, stops, base, next, step) ==
    /\ f \in [lo..hi -> V]
    /\ \A j \in lo..hi : f[j] = IF j \in stops THEN base[j] ELSE step[j][f[next[j]]]

\* A walk that always goes on to a later position is computed from the end.
LEMMA DescentExists ==
  ASSUME NEW lo \in Nat, NEW hi \in Nat, lo <= hi + 1, NEW V, NEW stops, NEW base \in [lo..hi -> V],
         NEW next, NEW step \in [lo..hi -> [V -> V]],
         \A j \in lo..hi : j \notin stops => next[j] \in (j + 1)..hi
  PROVE  \E f : Descends(f, lo, hi, V, stops, base, next, step)
<1> DEFINE Fine(d) == \E f : Descends(f, (hi + 1) - d, hi, V, stops, base, next, step)
           Bad == {d \in 0..((hi + 1) - lo) : ~Fine(d)}
<1>1. SUFFICES ASSUME Bad # {} PROVE FALSE
  <2>1. CASE Bad = {}
    <3>1. (hi + 1) - lo \in 0..((hi + 1) - lo) /\ (hi + 1) - ((hi + 1) - lo) = lo
      OBVIOUS
    <3>2. Fine((hi + 1) - lo)
      <4> HIDE DEF Fine
      <4> QED BY <2>1, <3>1
    <3> QED BY <3>1, <3>2
  <2> QED BY <2>1
<1>2. PICK d \in Bad : \A e \in Bad : d <= e
  <2>1. Bad \subseteq Nat
    <3> HIDE DEF Fine
    <3> QED OBVIOUS
  <2> HIDE DEF Bad
  <2> QED BY <1>1, <2>1, LeastNat
<1>3. d \in 0..((hi + 1) - lo) /\ ~Fine(d)
  <2> HIDE DEF Fine
  <2> QED BY <1>2
<1>4. d # 0
  <2>1. SUFFICES ASSUME d = 0 PROVE FALSE
    OBVIOUS
  <2>2. ((hi + 1) - d)..hi = {}
    BY <2>1
  <2>3. Descends([j \in {} |-> 0], (hi + 1) - d, hi, V, stops, base, next, step)
    BY <2>2 DEF Descends
  <2> QED BY <1>3, <2>3
<1>5. d - 1 \in 0..((hi + 1) - lo) /\ ~(d <= d - 1)
  BY <1>3, <1>4
<1>6. Fine(d - 1)
  <2> HIDE DEF Fine
  <2> QED BY <1>2, <1>5
<1> DEFINE m == (hi + 1) - d
<1>7. m \in lo..hi /\ (hi + 1) - (d - 1) = m + 1 /\ m \in Nat
  BY <1>3, <1>4
<1>8. PICK g : Descends(g, m + 1, hi, V, stops, base, next, step)
  BY <1>6, <1>7
<1> HIDE DEF m, Bad
<1> DEFINE v == IF m \in stops THEN base[m] ELSE step[m][g[next[m]]]
           f == [j \in m..hi |-> IF j = m THEN v ELSE g[j]]
<1>9. v \in V
  <2>1. CASE m \in stops
    BY <1>7, <2>1
  <2>2. CASE m \notin stops
    <3>1. next[m] \in (m + 1)..hi
      BY <1>7, <2>2
    <3>2. g[next[m]] \in V
      BY <1>8, <3>1 DEF Descends
    <3> QED BY <1>7, <2>2, <3>2
  <2> QED BY <2>1, <2>2
<1>10. \A j \in m..hi : j # m => j \in (m + 1)..hi /\ j \in lo..hi /\ g[j] \in V
  BY <1>7, <1>8 DEF Descends
<1>11. f \in [m..hi -> V]
  <2> HIDE DEF v
  <2> QED BY <1>9, <1>10
<1>12. ASSUME NEW j \in m..hi PROVE f[j] = IF j \in stops THEN base[j] ELSE step[j][f[next[j]]]
  <2>1. j \notin stops => next[j] \in (j + 1)..hi
    BY <1>7, <1>10
  <2>2. j \notin stops => next[j] \in m..hi /\ next[j] # m /\ f[next[j]] = g[next[j]]
    <3>1. SUFFICES ASSUME j \notin stops PROVE next[j] \in m..hi /\ next[j] # m /\ f[next[j]] = g[next[j]]
      OBVIOUS
    <3>2. next[j] \in m..hi /\ next[j] # m
      BY <1>7, <2>1, <3>1
    <3> QED BY <3>2
  <2>3. CASE j = m
    <3>1. f[j] = v
      BY <2>3
    <3> HIDE DEF f
    <3> QED BY <2>2, <2>3, <3>1
  <2>4. CASE j # m
    <3>1. f[j] = g[j] /\ j \in (m + 1)..hi
      BY <1>10, <2>4
    <3>2. g[j] = IF j \in stops THEN base[j] ELSE step[j][g[next[j]]]
      BY <1>8, <3>1 DEF Descends
    <3> HIDE DEF f
    <3> QED BY <2>2, <3>1, <3>2
  <2> QED BY <2>3, <2>4
<1>13. Descends(f, m, hi, V, stops, base, next, step)
  <2> HIDE DEF f
  <2> QED BY <1>11, <1>12 DEF Descends
<1> QED BY <1>3, <1>13 DEF m

\* The scan for a closing bracket, as a walk.
Scans(scan, s, from) ==
    /\ scan \in [from..(Len(s) + 2) -> Nat]
    /\ \A j \in from..(Len(s) + 2) :
          scan[j] = IF j > Len(s) THEN 0
                    ELSE IF s[j] # RightBracket THEN scan[j + 1]
                    ELSE IF j < Len(s) /\ s[j + 1] = RightBracket THEN scan[j + 2]
                    ELSE j

LEMMA ClosingScans ==
  ASSUME NEW s \in Text, NEW from \in 1..(Len(s) + 2)
  PROVE  \E scan : Scans(scan, s, from) /\ closingBracket(s, from) = scan[from]
<1> DEFINE hi == Len(s) + 2
           doubled(j) == j < Len(s) /\ s[j + 1] = RightBracket
           stops == {j \in from..hi : j > Len(s) \/ (s[j] = RightBracket /\ ~doubled(j))}
           base == [j \in from..hi |-> IF j > Len(s) THEN 0 ELSE j]
           next == [j \in from..hi |-> IF s[j] # RightBracket THEN j + 1 ELSE j + 2]
           step == [j \in from..hi |-> [x \in Nat |-> x]]
           Rec(f) == [j \in from..hi |->
                        IF j > Len(s) THEN 0
                        ELSE IF s[j] # RightBracket THEN f[j + 1]
                        ELSE IF j < Len(s) /\ s[j + 1] = RightBracket THEN f[j + 2]
                        ELSE j]
           scan == CHOOSE f : f = Rec(f)
<1>1. Len(s) \in Nat /\ hi \in Nat /\ from \in Nat /\ from <= hi + 1
  BY DEF Text
<1>2. base \in [from..hi -> Nat] /\ step \in [from..hi -> [Nat -> Nat]]
  BY <1>1
<1>3. \A j \in from..hi : j \notin stops => next[j] \in (j + 1)..hi
  BY <1>1
<1>4. PICK f : Descends(f, from, hi, Nat, stops, base, next, step)
  <2> HIDE DEF hi, stops, base, next, step
  <2> QED BY <1>1, <1>2, <1>3, DescentExists
<1>5. f = Rec(f)
  <2>1. f \in [from..hi -> Nat]
    BY <1>4 DEF Descends
  <2>2. ASSUME NEW j \in from..hi PROVE f[j] = Rec(f)[j]
    <3>1. f[j] = IF j \in stops THEN base[j] ELSE step[j][f[next[j]]]
      <4> HIDE DEF stops, base, next, step
      <4> QED BY <1>4 DEF Descends
    <3>2. CASE j \in stops
      <4>1. f[j] = base[j]
        BY <3>1, <3>2
      <4> QED BY <1>1, <3>2, <4>1
    <3>3. CASE j \notin stops
      <4>1. next[j] \in from..hi
        BY <1>1, <1>3, <3>3
      <4>2. f[j] = f[next[j]]
        <5>1. f[next[j]] \in Nat
          <6> HIDE DEF next
          <6> QED BY <2>1, <4>1
        <5>2. f[j] = step[j][f[next[j]]]
          BY <3>1, <3>3
        <5> HIDE DEF next, stops
        <5> QED BY <5>1, <5>2
      <4> QED BY <1>1, <3>3, <4>2
    <3> QED BY <3>2, <3>3
  <2>3. f = [j \in from..hi |-> f[j]]
    BY <2>1
  <2> HIDE DEF stops, base, next, step
  <2> QED BY <2>2, <2>3
<1>6. scan = Rec(scan)
  BY <1>5, Zenon
<1> HIDE DEF scan
<1> DEFINE good == {j \in from..hi : scan[j] = f[j]}
<1>7. \A j \in from..hi : j \in good
  <2>1. ASSUME NEW j \in from..hi, \A k \in (j + 1)..hi : k \in good PROVE j \in good
    <3>1. scan[j] = Rec(scan)[j] /\ f[j] = Rec(f)[j]
      <4> HIDE DEF Rec
      <4> QED BY <1>5, <1>6
    <3>2. j <= Len(s) => scan[j + 1] = f[j + 1] /\ scan[j + 2] = f[j + 2]
      <4>1. j <= Len(s) => j + 1 \in (j + 1)..hi /\ j + 2 \in (j + 1)..hi
        BY <1>1
      <4> QED BY <2>1, <4>1
    <3> QED BY <1>1, <3>1, <3>2
  <2> HIDE DEF good
  <2> QED BY <1>1, <2>1, FromTheEnd
<1>8. scan = f
  <2>1. scan = [j \in from..hi |-> scan[j]] /\ f = [j \in from..hi |-> f[j]]
    <3>1. DOMAIN Rec(scan) = from..hi /\ DOMAIN Rec(f) = from..hi
      OBVIOUS
    <3> QED BY <1>5, <1>6
  <2>2. \A j \in from..hi : scan[j] = f[j]
    BY <1>7
  <2> HIDE DEF Rec, good
  <2> QED BY <2>1, <2>2
<1>9. f \in [from..hi -> Nat]
  BY <1>4 DEF Descends
<1>10. \A j \in from..hi : f[j] = Rec(f)[j]
  <2> HIDE DEF Rec
  <2> QED BY <1>5
<1>11. Scans(f, s, from)
  BY <1>9, <1>10 DEF Scans
<1>12. closingBracket(s, from) = scan[from]
  BY DEF closingBracket, scan
<1> QED BY <1>8, <1>11, <1>12

\* The bracket found lies behind where the scan starts.
LEMMA ClosingWithin ==
  ASSUME NEW s \in Text, NEW from \in 1..(Len(s) + 2)
  PROVE  closingBracket(s, from) = 0 \/ closingBracket(s, from) \in from..Len(s)
<1> DEFINE hi == Len(s) + 2
<1>1. Len(s) \in Nat /\ hi \in Nat /\ from \in Nat
  BY DEF Text
<1>2. PICK scan : Scans(scan, s, from) /\ closingBracket(s, from) = scan[from]
  BY ClosingScans
<1> DEFINE good == {j \in from..hi : scan[j] = 0 \/ scan[j] \in j..Len(s)}
<1>3. ASSUME NEW j \in from..hi, \A k \in (j + 1)..hi : k \in good PROVE j \in good
  <2>1. scan[j] = IF j > Len(s) THEN 0
                  ELSE IF s[j] # RightBracket THEN scan[j + 1]
                  ELSE IF j < Len(s) /\ s[j + 1] = RightBracket THEN scan[j + 2]
                  ELSE j
    BY <1>2 DEF Scans
  <2>2. j <= Len(s) => j + 1 \in good /\ j + 2 \in good
    <3>1. j <= Len(s) => j + 1 \in (j + 1)..hi /\ j + 2 \in (j + 1)..hi
      BY <1>1
    <3> HIDE DEF good, hi
    <3> QED BY <1>3, <3>1
  <2> QED BY <1>1, <2>1, <2>2
<1>4. from \in good
  <2> HIDE DEF good
  <2>1. \A j \in from..hi : j \in good
    <3> HIDE DEF hi
    <3> QED BY <1>1, <1>3, FromTheEnd
  <2> QED BY <1>1, <2>1
<1> QED BY <1>2, <1>4

\* Reading a bracketed text, as a walk.
Halves(rest, s) ==
    \A i \in 1..(Len(s) + 2) :
       rest[i] = IF i > Len(s) THEN <<>>
                 ELSE <<s[i]>> \o rest[IF s[i] = RightBracket /\ i < Len(s) /\ s[i + 1] = RightBracket
                                       THEN i + 2 ELSE i + 1]

LEMMA HalvedWalks ==
  ASSUME NEW s \in Text
  PROVE  \E rest : Halves(rest, s) /\ Halved(s) = rest[1] /\ Halved(s) \in Text
<1> DEFINE hi == Len(s) + 2
           next == [i \in 1..hi |-> IF s[i] = RightBracket /\ i < Len(s) /\ s[i + 1] = RightBracket THEN i + 2 ELSE i + 1]
           stops == {i \in 1..hi : i > Len(s)}
           base == [i \in 1..hi |-> <<>>]
           step == [i \in 1..hi |-> [x \in Text |-> IF i > Len(s) THEN x ELSE <<s[i]>> \o x]]
           Rec(f) == [i \in 1..hi |->
                        IF i > Len(s) THEN <<>>
                        ELSE <<s[i]>> \o f[IF s[i] = RightBracket /\ i < Len(s) /\ s[i + 1] = RightBracket
                                           THEN i + 2 ELSE i + 1]]
           rest == CHOOSE f : f = Rec(f)
<1>1. Len(s) \in Nat /\ hi \in Nat /\ 1 <= hi + 1 /\ \A i \in 1..Len(s) : s[i] \in Nat
  BY DEF Text
<1>2. base \in [1..hi -> Text] /\ step \in [1..hi -> [Text -> Text]]
  <2>1. <<>> \in Text
    BY DEF Text
  <2>2. ASSUME NEW i \in 1..hi, NEW x \in Text PROVE (IF i > Len(s) THEN x ELSE <<s[i]>> \o x) \in Text
    <3>1. CASE i > Len(s)
      BY <3>1
    <3>2. CASE ~(i > Len(s))
      <4> DEFINE one == <<s[i]>>
      <4>1. one \in Seq(Nat) /\ x \in Seq(Nat)
        BY <1>1, <3>2 DEF Text
      <4> HIDE DEF one
      <4>2. one \o x \in Seq(Nat)
        BY <4>1, ConcatProperties
      <4> QED BY <3>2, <4>2 DEF one, Text
    <3> QED BY <3>1, <3>2
  <2> HIDE DEF hi
  <2> QED BY <2>1, <2>2
<1>3. \A i \in 1..hi : i \notin stops => next[i] \in (i + 1)..hi
  BY <1>1
<1>4. PICK f : Descends(f, 1, hi, Text, stops, base, next, step)
  <2> HIDE DEF hi, stops, base, next, step
  <2> QED BY <1>1, <1>2, <1>3, DescentExists
<1>5. f \in [1..hi -> Text] /\ \A i \in 1..hi : f[i] = IF i \in stops THEN base[i] ELSE step[i][f[next[i]]]
  <2> HIDE DEF stops, base, next, step, hi
  <2> QED BY <1>4 DEF Descends
<1>6. f = Rec(f)
  <2>1. ASSUME NEW i \in 1..hi PROVE f[i] = Rec(f)[i]
    <3>1. CASE i > Len(s)
      <4>1. f[i] = <<>>
        BY <1>5, <3>1
      <4> QED BY <3>1, <4>1
    <3>2. CASE ~(i > Len(s))
      <4>1. next[i] \in 1..hi /\ i \notin stops
        BY <1>1, <1>3, <3>2
      <4>2. f[next[i]] \in Text /\ f[i] = step[i][f[next[i]]]
        <5> HIDE DEF stops, base, next, step, hi
        <5> QED BY <1>5, <4>1
      <4>3. f[i] = <<s[i]>> \o f[next[i]]
        <5> HIDE DEF next
        <5> QED BY <3>2, <4>2
      <4> QED BY <3>2, <4>3
    <3> QED BY <3>1, <3>2
  <2>2. f = [i \in 1..hi |-> f[i]]
    BY <1>5
  <2> HIDE DEF stops, base, next, step
  <2> QED BY <2>1, <2>2
<1>7. rest = Rec(rest)
  BY <1>6, Zenon
<1> HIDE DEF rest
<1> DEFINE good == {i \in 1..hi : rest[i] = f[i]}
<1>8. \A i \in 1..hi : i \in good
  <2>1. ASSUME NEW i \in 1..hi, \A k \in (i + 1)..hi : k \in good PROVE i \in good
    <3>1. rest[i] = Rec(rest)[i] /\ f[i] = Rec(f)[i]
      <4> HIDE DEF Rec
      <4> QED BY <1>6, <1>7
    <3>2. CASE i > Len(s)
      BY <3>1, <3>2
    <3>3. CASE ~(i > Len(s))
      <4>1. next[i] \in (i + 1)..hi
        BY <1>1, <1>3, <3>3
      <4>2. rest[next[i]] = f[next[i]]
        <5> HIDE DEF next
        <5> QED BY <2>1, <4>1
      <4>3. rest[i] = <<s[i]>> \o rest[next[i]] /\ f[i] = <<s[i]>> \o f[next[i]]
        BY <3>1, <3>3
      <4> QED BY <4>2, <4>3, Zenon
    <3> QED BY <3>2, <3>3
  <2> HIDE DEF good
  <2> QED BY <1>1, <2>1, FromTheEnd
<1>9. Halves(rest, s)
  <2>1. \A i \in 1..hi : rest[i] = Rec(rest)[i]
    <3> HIDE DEF Rec
    <3> QED BY <1>7
  <2> QED BY <2>1 DEF Halves
<1>10. rest[1] \in Text
  <2>1. 1 \in 1..hi
    BY <1>1
  <2> QED BY <1>5, <1>8, <2>1
<1>11. Halved(s) = rest[1]
  BY Zenon DEF Halved, rest
<1> QED BY <1>9, <1>10, <1>11

\* A bracket that is closed goes on behind the bracket that closes it.
LEMMA BracketedGoesOn ==
  ASSUME NEW s \in Text, NEW i \in 1..Len(s), Bracketed(s, i)
  PROVE  /\ closingBracket(s, i + 1) \in (i + 1)..Len(s)
         /\ closingBracket(s, i + 1) + 1 \in (i + 1)..(Len(s) + 1)
         /\ SubSeq(s, i + 1, closingBracket(s, i + 1) - 1) \in Text
<1> DEFINE end == closingBracket(s, i + 1)
<1>1. Len(s) \in Nat /\ i + 1 \in 1..(Len(s) + 2) /\ \A k \in 1..Len(s) : s[k] \in Nat
  BY DEF Text
<1>2. end \in (i + 1)..Len(s)
  BY <1>1, ClosingWithin DEF Bracketed
<1> HIDE DEF end
<1>3. end - 1 \in Int /\ i + 1 \in Int /\ \A k \in (i + 1)..(end - 1) : s[k] \in Nat
  BY <1>1, <1>2
<1>4. SubSeq(s, i + 1, end - 1) \in Seq(Nat)
  BY <1>3, SubSeqProperties
<1> QED BY <1>1, <1>2, <1>4 DEF end, Text

\* A text before a path is part of its first segment.
Continued(text, path) == <<text \o Head(path)>> \o Tail(path)

LEMMA ContinuedIs ==
  ASSUME NEW text \in Text, NEW t \in Text, NEW R \in Seq(Text)
  PROVE  /\ Continued(text, <<t>> \o R) = <<text \o t>> \o R
         /\ <<text \o t>> \o R \in Seq(Text) \ {<<>>}
         /\ text \o t \in Text
<1> DEFINE one == <<t>>
           c == one \o R
           two == <<text \o t>>
<1>1. one \in Seq(Text) /\ Len(one) = 1 /\ one[1] = t
  OBVIOUS
<1>2. text \o t \in Text
  <2>1. text \in Seq(Nat) /\ t \in Seq(Nat)
    BY DEF Text
  <2>2. text \o t \in Seq(Nat)
    BY <2>1, ConcatProperties
  <2> QED BY <2>2 DEF Text
<1>3. two \in Seq(Text) /\ Len(two) = 1
  BY <1>2
<1> HIDE DEF one, two
<1>4. /\ c \in Seq(Text) /\ Len(c) = 1 + Len(R) /\ Len(R) \in Nat
      /\ \A i \in 1..(1 + Len(R)) : c[i] = IF i <= 1 THEN one[i] ELSE R[i - 1]
  <2>1. /\ c \in Seq(Text) /\ Len(c) = Len(one) + Len(R)
        /\ \A i \in 1..(Len(one) + Len(R)) : c[i] = IF i <= Len(one) THEN one[i] ELSE R[i - Len(one)]
    BY <1>1, ConcatProperties
  <2> QED BY <1>1, <2>1
<1> HIDE DEF c
<1>5. c # <<>>
  BY <1>4, EmptySeq
<1>6. Head(c) = t
  BY <1>1, <1>4, <1>5
<1>7. Tail(c) = R
  <2>1. Tail(c) \in Seq(Text) /\ Len(Tail(c)) = Len(c) - 1 /\ \A i \in 1..Len(Tail(c)) : Tail(c)[i] = c[i + 1]
    BY <1>4, <1>5, HeadTailProperties
  <2>2. Len(Tail(c)) = Len(R)
    BY <1>4, <2>1
  <2>3. ASSUME NEW i \in 1..Len(R) PROVE Tail(c)[i] = R[i]
    <3>1. i + 1 \in 1..(1 + Len(R)) /\ ~(i + 1 <= 1) /\ (i + 1) - 1 = i
      BY <1>4
    <3>2. Tail(c)[i] = c[i + 1]
      BY <2>1, <2>2
    <3>3. c[i + 1] = R[(i + 1) - 1]
      BY <1>4, <3>1
    <3> QED BY <3>1, <3>2, <3>3
  <2> QED BY <2>1, <2>2, <2>3, SeqEqual
<1>8. Continued(text, c) = two \o R
  BY <1>6, <1>7 DEF Continued, two
<1>9. two \o R \in Seq(Text) /\ two \o R # <<>>
  <2>1. two \o R \in Seq(Text) /\ Len(two \o R) = Len(two) + Len(R)
    BY <1>3, ConcatProperties
  <2> QED BY <1>3, <1>4, <2>1, EmptySeq
<1> QED BY <1>2, <1>8, <1>9 DEF c, one, two

LEMMA ContinuedEach ==
  \A text \in Text, t \in Text, R \in Seq(Text) : Continued(text, <<t>> \o R) = <<text \o t>> \o R
BY ContinuedIs

LEMMA ContinuedType ==
  ASSUME NEW text \in Text, NEW path \in Seq(Text) \ {<<>>}
  PROVE  Continued(text, path) \in Seq(Text) \ {<<>>}
<1>1. Head(path) \in Text /\ Tail(path) \in Seq(Text) /\ path = <<Head(path)>> \o Tail(path)
  <2>1. 1 \in 1..Len(path) /\ Len(path) \in 1..Len(path)
    BY EmptySeq
  <2>2. SubSeq(path, 1, Len(path)) = <<path[1]>> \o SubSeq(path, 1 + 1, Len(path))
    BY <2>1, SubSeqRecursiveFirst
  <2>3. SubSeq(path, 1, Len(path)) = path /\ Tail(path) = SubSeq(path, 2, Len(path)) /\ Head(path) = path[1]
    BY SubSeqFull, TailIsSubSeq
  <2>4. Head(path) \in Text /\ Tail(path) \in Seq(Text)
    BY HeadTailProperties
  <2> QED BY <2>2, <2>3, <2>4
<1> DEFINE t == Head(path)
           R == Tail(path)
<1>2. t \in Text /\ R \in Seq(Text) /\ path = <<t>> \o R
  BY <1>1
<1> HIDE DEF t, R
<1>3. Continued(text, <<t>> \o R) = <<text \o t>> \o R /\ <<text \o t>> \o R \in Seq(Text) \ {<<>>}
  BY <1>2, ContinuedIs
<1> QED BY <1>2, <1>3

\* Parsing, as a walk.
Parses(after, s) ==
    \A i \in 1..(Len(s) + 1) :
       after[i] = IF i > Len(s) THEN << <<>> >>
                  ELSE IF Bracketed(s, i)
                  THEN Continued(Halved(SubSeq(s, i + 1, closingBracket(s, i + 1) - 1)),
                                 after[closingBracket(s, i + 1) + 1])
                  ELSE IF s[i] = Delimiter THEN << <<>> >> \o after[i + 1]
                  ELSE Continued(<<s[i]>>, after[i + 1])

LEMMA ParseWalks ==
  ASSUME NEW s \in Text, s # <<>>
  PROVE  \E after : Parses(after, s) /\ ParsePath(s) = after[1]
<1> DEFINE hi == Len(s) + 1
           V == Seq(Text) \ {<<>>}
           end(i) == closingBracket(s, i + 1)
           within(i) == Halved(SubSeq(s, i + 1, end(i) - 1))
           next == [i \in 1..hi |-> IF Bracketed(s, i) THEN end(i) + 1 ELSE i + 1]
           stops == {i \in 1..hi : i > Len(s)}
           base == [i \in 1..hi |-> << <<>> >>]
           one(i, x) == IF i > Len(s) THEN x
                        ELSE IF Bracketed(s, i) THEN Continued(within(i), x)
                        ELSE IF s[i] = Delimiter THEN << <<>> >> \o x
                        ELSE Continued(<<s[i]>>, x)
           step == [i \in 1..hi |-> [x \in V |-> one(i, x)]]
           Rec(f) == [i \in 1..hi |->
                        IF i > Len(s) THEN << <<>> >>
                        ELSE IF Bracketed(s, i) THEN Continued(within(i), f[end(i) + 1])
                        ELSE IF s[i] = Delimiter THEN << <<>> >> \o f[i + 1]
                        ELSE Continued(<<s[i]>>, f[i + 1])]
           after == CHOOSE f : f = Rec(f)
<1>1. Len(s) \in Nat /\ hi \in Nat /\ 1 <= hi + 1 /\ \A i \in 1..Len(s) : s[i] \in Nat
  BY DEF Text
<1>2. base \in [1..hi -> V] /\ step \in [1..hi -> [V -> V]]
  <2>1. << <<>> >> \in V /\ <<>> \in Text
    BY DEF Text
  <2>2. ASSUME NEW i \in 1..hi, NEW x \in V PROVE one(i, x) \in V
    <3>1. CASE i > Len(s)
      BY <3>1
    <3>2. CASE i <= Len(s) /\ Bracketed(s, i)
      <4>1. i \in 1..Len(s)
        BY <1>1, <3>2
      <4>2. within(i) \in Text
        BY <3>2, <4>1, BracketedGoesOn, HalvedWalks
      <4>3. one(i, x) = Continued(within(i), x)
        BY <1>1, <3>2, <4>1
      <4> HIDE DEF within, one
      <4> QED BY <4>2, <4>3, ContinuedType
    <3>3. CASE i <= Len(s) /\ ~Bracketed(s, i) /\ s[i] = Delimiter
      <4>1. one(i, x) = << <<>> >> \o x
        BY <1>1, <3>3
      <4> DEFINE e == << <<>> >>
      <4>2. e \in Seq(Text) /\ Len(e) = 1 /\ x \in Seq(Text)
        BY <2>1
      <4> HIDE DEF e, one, V, hi
      <4>3. e \o x \in Seq(Text) /\ Len(e \o x) = 1 + Len(x) /\ Len(x) \in Nat
        <5>1. e \o x \in Seq(Text) /\ Len(e \o x) = Len(e) + Len(x)
          BY <4>2, ConcatProperties
        <5> QED BY <4>2, <5>1
      <4> QED BY <4>1, <4>3, EmptySeq DEF e, V
    <3>4. CASE i <= Len(s) /\ ~Bracketed(s, i) /\ s[i] # Delimiter
      <4>1. one(i, x) = Continued(<<s[i]>>, x)
        BY <1>1, <3>4
      <4>2. <<s[i]>> \in Text
        BY <1>1, <3>4 DEF Text
      <4> HIDE DEF one
      <4> QED BY <4>1, <4>2, ContinuedType
    <3> HIDE DEF one
    <3> QED BY <1>1, <3>1, <3>2, <3>3, <3>4
  <2> HIDE DEF hi, V, one
  <2> QED BY <2>1, <2>2
<1>3. \A i \in 1..hi : i \notin stops => next[i] \in (i + 1)..hi
  <2> TAKE i \in 1..hi
  <2>1. SUFFICES ASSUME i <= Len(s) PROVE next[i] \in (i + 1)..hi
    BY <1>1
  <2>2. CASE Bracketed(s, i)
    BY <1>1, <2>1, <2>2, BracketedGoesOn
  <2>3. CASE ~Bracketed(s, i)
    BY <1>1, <2>1, <2>3
  <2> QED BY <2>2, <2>3
<1>4. PICK f : Descends(f, 1, hi, V, stops, base, next, step)
  <2> HIDE DEF hi, V, stops, base, next, step
  <2> QED BY <1>1, <1>2, <1>3, DescentExists
<1>5. f \in [1..hi -> V] /\ \A i \in 1..hi : f[i] = IF i \in stops THEN base[i] ELSE step[i][f[next[i]]]
  <2> HIDE DEF stops, base, next, step, hi, V
  <2> QED BY <1>4 DEF Descends
<1>6. f = Rec(f)
  <2>1. ASSUME NEW i \in 1..hi PROVE f[i] = Rec(f)[i]
    <3>1. CASE i > Len(s)
      <4>1. f[i] = << <<>> >>
        BY <1>5, <3>1
      <4> QED BY <3>1, <4>1
    <3>2. CASE ~(i > Len(s))
      <4>1. next[i] \in 1..hi /\ i \notin stops
        <5>1. next[i] \in (i + 1)..hi /\ i \notin stops
          <6> HIDE DEF next
          <6> QED BY <1>3, <3>2
        <5> HIDE DEF next, stops
        <5> QED BY <1>1, <5>1
      <4>2. f[next[i]] \in V /\ f[i] = step[i][f[next[i]]]
        <5> HIDE DEF stops, base, next, step, hi, V
        <5> QED BY <1>5, <4>1
      <4>3. f[i] = one(i, f[next[i]])
        <5> HIDE DEF next, one, V
        <5> QED BY <4>2
      <4>4. next[i] = IF Bracketed(s, i) THEN end(i) + 1 ELSE i + 1
        OBVIOUS
      <4> HIDE DEF next, end, within
      <4> QED BY <3>2, <4>3, <4>4, Zenon
    <3> QED BY <3>1, <3>2
  <2>2. f = [i \in 1..hi |-> f[i]]
    BY <1>5
  <2> HIDE DEF stops, base, next, step
  <2> QED BY <2>1, <2>2
<1>7. after = Rec(after)
  BY <1>6, Zenon
<1> HIDE DEF after
<1>8. Parses(after, s)
  <2>1. \A i \in 1..hi : after[i] = Rec(after)[i]
    <3> HIDE DEF Rec
    <3> QED BY <1>7
  <2> QED BY <2>1 DEF Parses
<1>9. ParsePath(s) = after[1]
  BY Zenon DEF ParsePath, after, Continued
<1> QED BY <1>8, <1>9
-----------------------------------------------------------------------------
(* A bracketed segment.                                                    *)

\* Where the bytes of a segment are in its doubled form.
LEMMA DoubledLayout ==
  ASSUME NEW seg \in Text
  PROVE  /\ Len(seg) \in Nat /\ Doubled(seg) \in Text /\ Len(Doubled(seg)) \in Nat
         /\ Ends(twice, seg, 0) = 0 /\ Ends(twice, seg, Len(seg)) = Len(Doubled(seg))
         /\ \A j \in 0..Len(seg) : Ends(twice, seg, j) \in Nat /\ Ends(twice, seg, j) <= Len(Doubled(seg))
         /\ \A j \in 1..Len(seg) :
               /\ seg[j] \in Nat
               /\ Doubled(seg)[Ends(twice, seg, j - 1) + 1] = seg[j]
               /\ seg[j] = RightBracket =>
                     /\ Ends(twice, seg, j) = Ends(twice, seg, j - 1) + 2
                     /\ Doubled(seg)[Ends(twice, seg, j - 1) + 2] = RightBracket
               /\ seg[j] # RightBracket => Ends(twice, seg, j) = Ends(twice, seg, j - 1) + 1
<1>1. Len(seg) \in Nat /\ Doubled(seg) \in Text /\ Len(Doubled(seg)) \in Nat /\ \A j \in 1..Len(seg) : seg[j] \in Nat
  <2>1. Doubled(seg) \in Text
    BY DoubledPrints
  <2> QED BY <2>1 DEF Text
<1>2. /\ Ends(twice, seg, 0) = 0 /\ Ends(twice, seg, Len(seg)) = Len(Doubled(seg))
      /\ \A j \in 0..Len(seg) : Ends(twice, seg, j) \in Nat /\ Ends(twice, seg, j) <= Len(Doubled(seg))
      /\ \A j \in 1..Len(seg) :
            /\ Ends(twice, seg, j) = Ends(twice, seg, j - 1) + Len(twice[seg[j]])
            /\ \A k \in 1..Len(twice[seg[j]]) : Doubled(seg)[Ends(twice, seg, j - 1) + k] = twice[seg[j]][k]
  <2>1. Printer(twice, Nat, Nat) /\ Doubled(seg) = FlatMap(twice, seg) /\ seg \in Seq(Nat)
    BY DoubledPrints DEF Text
  <2>2. LaidOut(twice, seg)
    BY <2>1, Layout
  <2> QED BY <2>1, <2>2, Zenon DEF LaidOut
<1>3. ASSUME NEW j \in 1..Len(seg)
      PROVE  /\ Doubled(seg)[Ends(twice, seg, j - 1) + 1] = seg[j]
             /\ seg[j] = RightBracket =>
                   /\ Ends(twice, seg, j) = Ends(twice, seg, j - 1) + 2
                   /\ Doubled(seg)[Ends(twice, seg, j - 1) + 2] = RightBracket
             /\ seg[j] # RightBracket => Ends(twice, seg, j) = Ends(twice, seg, j - 1) + 1
  <2>1. /\ Ends(twice, seg, j) = Ends(twice, seg, j - 1) + Len(twice[seg[j]])
        /\ \A k \in 1..Len(twice[seg[j]]) : Doubled(seg)[Ends(twice, seg, j - 1) + k] = twice[seg[j]][k]
    BY <1>2, Zenon
  <2>2. CASE seg[j] = RightBracket
    <3>1. twice[seg[j]] = <<RightBracket, RightBracket>>
      BY <1>1, <2>2 DEF twice
    <3>2. Len(twice[seg[j]]) = 2 /\ twice[seg[j]][1] = RightBracket /\ twice[seg[j]][2] = RightBracket
      BY <3>1
    <3> QED BY <2>1, <2>2, <3>2
  <2>3. CASE seg[j] # RightBracket
    <3>1. twice[seg[j]] = <<seg[j]>>
      BY <1>1, <2>3 DEF twice
    <3>2. Len(twice[seg[j]]) = 1 /\ twice[seg[j]][1] = seg[j]
      BY <3>1
    <3> QED BY <2>1, <2>3, <3>2
  <2> QED BY <2>2, <2>3
<1> QED BY <1>1, <1>2, <1>3, Zenon

\* A bracket that no other follows closes a doubled segment: the scan from its
\* start steps over the doubled ones.
LEMMA ClosingAt ==
  ASSUME NEW s \in Text, NEW seg \in Text, NEW o \in Nat,
         o + Len(Doubled(seg)) + 1 <= Len(s),
         \A k \in 1..Len(Doubled(seg)) : s[o + k] = Doubled(seg)[k],
         s[o + Len(Doubled(seg)) + 1] = RightBracket,
         o + Len(Doubled(seg)) + 1 = Len(s) \/ s[o + Len(Doubled(seg)) + 2] # RightBracket
  PROVE  closingBracket(s, o + 1) = o + Len(Doubled(seg)) + 1
<1> DEFINE d == Doubled(seg)
           m == Len(seg)
           D(j) == Ends(twice, seg, j)
           c == o + Len(d) + 1
<1>1. /\ m \in Nat /\ Len(d) \in Nat /\ D(0) = 0 /\ D(m) = Len(d)
      /\ \A j \in 0..m : D(j) \in Nat /\ D(j) <= Len(d)
      /\ \A j \in 1..m :
            /\ d[D(j - 1) + 1] = seg[j]
            /\ seg[j] = RightBracket => D(j) = D(j - 1) + 2 /\ d[D(j - 1) + 2] = RightBracket
            /\ seg[j] # RightBracket => D(j) = D(j - 1) + 1
  BY DoubledLayout
<1>2. \A k \in 1..Len(d) : s[o + k] = d[k]
  OBVIOUS
<1>3. /\ Len(s) \in Nat /\ c <= Len(s) /\ s[c] = RightBracket
      /\ (c = Len(s) \/ s[c + 1] # RightBracket) /\ o + 1 \in 1..(Len(s) + 2)
  BY <1>1 DEF Text
<1>4. PICK scan : Scans(scan, s, o + 1) /\ closingBracket(s, o + 1) = scan[o + 1]
  BY <1>3, ClosingScans
<1>5. \A j \in (o + 1)..(Len(s) + 2) :
         scan[j] = IF j > Len(s) THEN 0
                   ELSE IF s[j] # RightBracket THEN scan[j + 1]
                   ELSE IF j < Len(s) /\ s[j + 1] = RightBracket THEN scan[j + 2]
                   ELSE j
  BY <1>4 DEF Scans
<1> HIDE DEF d, m, D
<1>6. scan[c] = c
  <2>1. c \in (o + 1)..(Len(s) + 2) /\ ~(c > Len(s)) /\ ~(c < Len(s) /\ s[c + 1] = RightBracket)
    <3>1. c \in Nat /\ o + 1 <= c
      BY <1>1
    <3> HIDE DEF c
    <3> QED BY <1>3, <3>1
  <2> HIDE DEF c
  <2> QED BY <1>3, <1>5, <2>1
<1> DEFINE good == {j \in 0..m : scan[o + D(j) + 1] = c}
<1>7. ASSUME NEW j \in 0..m, \A k \in (j + 1)..m : k \in good PROVE j \in good
  <2>1. CASE j = m
    <3>1. o + D(j) + 1 = c
      BY <1>1, <2>1
    <3> QED BY <1>6, <3>1
  <2>2. CASE j # m
    <3>1. j + 1 \in 1..m /\ j + 1 \in 0..m /\ j + 1 \in (j + 1)..m /\ (j + 1) - 1 = j
      BY <1>1, <2>2
    <3>2. scan[o + D(j + 1) + 1] = c
      BY <1>7, <3>1
    <3>3. /\ D(j) \in Nat /\ D(j + 1) \in Nat /\ D(j + 1) <= Len(d) /\ d[D(j) + 1] = seg[j + 1]
          /\ seg[j + 1] = RightBracket => D(j + 1) = D(j) + 2 /\ d[D(j) + 2] = RightBracket
          /\ seg[j + 1] # RightBracket => D(j + 1) = D(j) + 1
      BY <1>1, <3>1
    <3> DEFINE x == o + D(j) + 1
    <3>4. CASE seg[j + 1] = RightBracket
      <4>1. /\ D(j) + 1 \in 1..Len(d) /\ D(j) + 2 \in 1..Len(d) /\ x = o + (D(j) + 1) /\ x + 1 = o + (D(j) + 2)
            /\ x + 2 = o + D(j + 1) + 1 /\ x \in (o + 1)..(Len(s) + 2) /\ ~(x > Len(s)) /\ x < Len(s)
        <5> DEFINE y == D(j)
                   z == D(j + 1)
        <5>1. y \in Nat /\ z = y + 2 /\ z <= Len(d) /\ Len(d) \in Nat /\ Len(s) \in Nat /\ o + Len(d) + 1 <= Len(s)
          BY <1>1, <1>3, <3>3, <3>4
        <5> HIDE DEF y, z
        <5>2. /\ y + 1 \in 1..Len(d) /\ y + 2 \in 1..Len(d) /\ o + y + 1 = o + (y + 1) /\ (o + y + 1) + 1 = o + (y + 2)
              /\ (o + y + 1) + 2 = o + z + 1 /\ o + y + 1 \in (o + 1)..(Len(s) + 2) /\ o + y + 1 < Len(s)
          BY <5>1
        <5>3. ~(o + y + 1 > Len(s))
          BY <5>1
        <5> QED BY <5>2, <5>3 DEF y, z
      <4>2. s[x] = RightBracket /\ s[x + 1] = RightBracket
        BY <1>2, <3>3, <3>4, <4>1
      <4>3. scan[x] = scan[x + 2]
        <5> HIDE DEF x
        <5> QED BY <1>5, <4>1, <4>2
      <4> QED BY <3>2, <4>1, <4>3
    <3>5. CASE seg[j + 1] # RightBracket
      <4>1. /\ D(j) + 1 \in 1..Len(d) /\ x = o + (D(j) + 1)
            /\ x + 1 = o + D(j + 1) + 1 /\ x \in (o + 1)..(Len(s) + 2) /\ ~(x > Len(s))
        <5> DEFINE y == D(j)
                   z == D(j + 1)
        <5>1. y \in Nat /\ z = y + 1 /\ z <= Len(d) /\ Len(d) \in Nat /\ Len(s) \in Nat /\ o + Len(d) + 1 <= Len(s)
          BY <1>1, <1>3, <3>3, <3>5
        <5> HIDE DEF y, z
        <5>2. /\ y + 1 \in 1..Len(d) /\ o + y + 1 = o + (y + 1)
              /\ (o + y + 1) + 1 = o + z + 1 /\ o + y + 1 \in (o + 1)..(Len(s) + 2)
          BY <5>1
        <5>3. ~(o + y + 1 > Len(s))
          BY <5>1
        <5> QED BY <5>2, <5>3 DEF y, z
      <4>2. s[x] # RightBracket
        BY <1>2, <3>3, <3>5, <4>1
      <4>3. scan[x] = scan[x + 1]
        <5> HIDE DEF x
        <5> QED BY <1>5, <4>1, <4>2
      <4> QED BY <3>2, <4>1, <4>3
    <3> QED BY <3>4, <3>5
  <2> QED BY <2>1, <2>2
<1>8. 0 \in good
  <2> HIDE DEF good
  <2>1. \A j \in 0..m : j \in good
    BY <1>1, <1>7, FromTheEnd
  <2> QED BY <1>1, <2>1
<1>9. scan[o + 1] = c
  <2>1. o + D(0) + 1 = o + 1
    BY <1>1
  <2>2. scan[o + D(0) + 1] = c
    BY <1>8
  <2> QED BY <2>1, <2>2
<1> QED BY <1>4, <1>9 DEF d

\* Reading the doubled form of a segment gives it back.
LEMMA HalvedDoubled ==
  ASSUME NEW seg \in Text
  PROVE  Halved(Doubled(seg)) = seg
<1> DEFINE d == Doubled(seg)
           m == Len(seg)
           D(j) == Ends(twice, seg, j)
<1>1. /\ m \in Nat /\ Len(d) \in Nat /\ d \in Text /\ D(0) = 0 /\ D(m) = Len(d)
      /\ \A j \in 0..m : D(j) \in Nat /\ D(j) <= Len(d)
      /\ \A j \in 1..m :
            /\ d[D(j - 1) + 1] = seg[j]
            /\ seg[j] = RightBracket => D(j) = D(j - 1) + 2 /\ d[D(j - 1) + 2] = RightBracket
            /\ seg[j] # RightBracket => D(j) = D(j - 1) + 1
  BY DoubledLayout
<1>2. PICK rest : Halves(rest, d) /\ Halved(d) = rest[1]
  BY <1>1, HalvedWalks
<1>3. \A i \in 1..(Len(d) + 2) :
         rest[i] = IF i > Len(d) THEN <<>>
                   ELSE <<d[i]>> \o rest[IF d[i] = RightBracket /\ i < Len(d) /\ d[i + 1] = RightBracket
                                         THEN i + 2 ELSE i + 1]
  BY <1>2 DEF Halves
<1> HIDE DEF d, m, D
<1> DEFINE good == {j \in 0..m : rest[D(j) + 1] = SubSeq(seg, j + 1, m)}
<1>4. ASSUME NEW j \in 0..m, \A k \in (j + 1)..m : k \in good PROVE j \in good
  <2>1. CASE j = m
    <3>1. D(j) + 1 \in 1..(Len(d) + 2) /\ D(j) + 1 > Len(d)
      BY <1>1, <2>1
    <3>2. rest[D(j) + 1] = <<>>
      BY <1>3, <3>1
    <3>3. SubSeq(seg, j + 1, m) = <<>>
      BY <1>1, <2>1, SubSeqEmpty
    <3> QED BY <3>2, <3>3
  <2>2. CASE j # m
    <3>1. j + 1 \in 1..m /\ j + 1 \in 0..m /\ j + 1 \in (j + 1)..m /\ (j + 1) - 1 = j
      BY <1>1, <2>2
    <3>2. rest[D(j + 1) + 1] = SubSeq(seg, (j + 1) + 1, m)
      BY <1>4, <3>1
    <3>3. /\ D(j) \in Nat /\ D(j + 1) \in Nat /\ D(j + 1) <= Len(d) /\ d[D(j) + 1] = seg[j + 1]
          /\ seg[j + 1] = RightBracket => D(j + 1) = D(j) + 2 /\ d[D(j) + 2] = RightBracket
          /\ seg[j + 1] # RightBracket => D(j + 1) = D(j) + 1
      BY <1>1, <3>1
    <3> DEFINE x == D(j) + 1
    <3>6. x \in 1..(Len(d) + 2) /\ ~(x > Len(d))
      BY <1>1, <3>3
    <3>7. rest[x] = <<d[x]>> \o rest[D(j + 1) + 1]
      <4>1. rest[x] = <<d[x]>> \o rest[IF d[x] = RightBracket /\ x < Len(d) /\ d[x + 1] = RightBracket
                                       THEN x + 2 ELSE x + 1]
        <5> HIDE DEF x
        <5> QED BY <1>3, <3>6
      <4>2. CASE seg[j + 1] = RightBracket
        <5>1. d[x] = RightBracket /\ x < Len(d) /\ d[x + 1] = RightBracket /\ x + 2 = D(j + 1) + 1
          <6>1. x + 1 = D(j) + 2
            BY <3>3
          <6> QED BY <1>1, <3>3, <4>2, <6>1
        <5> QED BY <4>1, <5>1
      <4>3. CASE seg[j + 1] # RightBracket
        <5>1. d[x] # RightBracket /\ x + 1 = D(j + 1) + 1
          BY <3>3, <4>3
        <5> QED BY <4>1, <5>1
      <4> QED BY <4>2, <4>3
    <3>8. SubSeq(seg, j + 1, m) = <<seg[j + 1]>> \o SubSeq(seg, (j + 1) + 1, m)
      <4>1. j + 1 \in 1..Len(seg) /\ m \in (j + 1)..Len(seg) /\ seg \in Seq(Nat)
        BY <1>1, <3>1 DEF m, Text
      <4> QED BY <4>1, SubSeqRecursiveFirst
    <3>9. rest[x] = SubSeq(seg, j + 1, m)
      <4>1. d[x] = seg[j + 1]
        BY <3>3
      <4> HIDE DEF x
      <4> QED BY <3>2, <3>7, <3>8, <4>1, Zenon
    <3> QED BY <3>9
  <2> QED BY <2>1, <2>2
<1>5. 0 \in good
  <2> HIDE DEF good
  <2>1. \A j \in 0..m : j \in good
    BY <1>1, <1>4, FromTheEnd
  <2> QED BY <1>1, <2>1
<1>6. rest[1] = seg
  <2>1. D(0) + 1 = 1 /\ rest[D(0) + 1] = SubSeq(seg, 0 + 1, m)
    BY <1>1, <1>5
  <2>2. SubSeq(seg, 1, m) = seg
    BY SubSeqFull DEF m, Text
  <2>3. SubSeq(seg, 0 + 1, m) = SubSeq(seg, 1, m)
    <3>1. 0 + 1 = 1
      OBVIOUS
    <3> QED BY <3>1, Zenon
  <2> QED BY <2>1, <2>2, <2>3, Zenon
<1> QED BY <1>2, <1>6 DEF d
-----------------------------------------------------------------------------
(* The walks over the text of a path.                                      *)

\* Where a segment that needs no brackets lies, no byte is a delimiter or
\* opens a bracket; one that needs them is in brackets of its own, that the
\* scan closes at its end and that read as the segment.
LEMMA SegmentAt ==
  ASSUME NEW p, Plain(p), NEW j \in 1..Len(p)
  PROVE  LET s == String(p)
             from == EndOf(p, j - 1) + 1
             end == EndOf(p, j)
         IN  /\ from \in Nat \ {0} /\ from <= end /\ end \in Nat /\ end <= Len(s) + 1
             /\ needsBrackets(p[j]) =>
                   /\ from <= Len(s) /\ Bracketed(s, from)
                   /\ closingBracket(s, from + 1) = end - 1
                   /\ Halved(SubSeq(s, from + 1, (end - 1) - 1)) = p[j]
             /\ ~needsBrackets(p[j]) =>
                   /\ end = from + Len(p[j])
                   /\ \A i \in from..(end - 1) : /\ ~Bracketed(s, i) /\ s[i] # Delimiter
                                                 /\ s[i] = p[j][(i - from) + 1]
<1> DEFINE s == String(p)
           b == EndOf(p, j - 1)
           end == EndOf(p, j)
           seg == p[j]
           e == Escaped(seg)
           n == Len(p)
<1>1. /\ s \in Text /\ n \in Nat /\ Len(s) = EndOf(p, n) - 1 /\ Len(s) \in Nat
      /\ b \in Nat /\ end \in Nat /\ end <= Len(s) + 1 /\ seg \in Text /\ end = b + Len(e) + 1
      /\ \A k \in 1..Len(e) : s[b + k] = e[k]
      /\ end = Len(s) + 1 \/ s[end] = Delimiter
  <2>1. /\ s \in Text /\ n \in Nat \ {0} /\ Len(s) = EndOf(p, n) - 1 /\ Len(s) \in Nat
        /\ EndOf(p, 0) = 0 /\ \A i \in 0..n : EndOf(p, i) \in Nat /\ EndOf(p, i) <= Len(s) + 1
        /\ \A i \in 1..n :
              /\ p[i] \in Text /\ EndOf(p, i) = EndOf(p, i - 1) + Len(Escaped(p[i])) + 1
              /\ \A k \in 1..Len(Escaped(p[i])) : s[EndOf(p, i - 1) + k] = Escaped(p[i])[k]
              /\ i < n => s[EndOf(p, i)] = Delimiter
    BY TextLayout
  <2> HIDE DEF s
  <2>2. j - 1 \in 0..n /\ j \in 0..n
    BY <2>1
  <2>3. \A k \in 1..Len(e) : s[b + k] = e[k]
    BY <2>1, Zenon
  <2>4. seg \in Text /\ end = b + Len(e) + 1 /\ (j < n => s[end] = Delimiter)
    BY <2>1, Zenon
  <2>5. b \in Nat /\ end \in Nat /\ end <= Len(s) + 1
    BY <2>1, <2>2
  <2>6. j = n => end = Len(s) + 1
    BY <2>1, <2>5
  <2>7. j = n \/ j < n
    BY <2>1
  <2> QED BY <2>1, <2>3, <2>4, <2>5, <2>6, <2>7
<1>2. e \in Text /\ Len(e) \in Nat /\ Len(seg) \in Nat /\ \A k \in 1..Len(seg) : seg[k] \in Nat
  <2>1. e \in Text
    BY <1>1, SegmentPrints
  <2> QED BY <1>1, <2>1 DEF Text
<1>3. ASSUME needsBrackets(seg)
      PROVE  /\ b + 1 <= Len(s) /\ Bracketed(s, b + 1)
             /\ closingBracket(s, (b + 1) + 1) = end - 1
             /\ Halved(SubSeq(s, (b + 1) + 1, (end - 1) - 1)) = seg
  <2> DEFINE d == Doubled(seg)
             l == <<LeftBracket>>
             r == <<RightBracket>>
  <2>1. d \in Seq(Nat) /\ l \in Seq(Nat) /\ r \in Seq(Nat) /\ Len(l) = 1 /\ Len(r) = 1 /\ l[1] = LeftBracket /\ r[1] = RightBracket
    BY <1>1, DoubledPrints DEF Text, LeftBracket, RightBracket
  <2>2. e = (l \o d) \o r
    BY <1>3 DEF Escaped
  <2>3. Len(d) \in Nat
    BY <2>1
  <2>4. /\ Len(e) = Len(d) + 2 /\ e[1] = LeftBracket /\ e[Len(d) + 2] = RightBracket
        /\ \A k \in 1..Len(d) : e[1 + k] = d[k]
    <3> HIDE DEF d, l, r, e
    <3> DEFINE ld == l \o d
    <3>1. /\ ld \in Seq(Nat) /\ Len(ld) = Len(l) + Len(d)
          /\ \A i \in 1..(Len(l) + Len(d)) : ld[i] = IF i <= Len(l) THEN l[i] ELSE d[i - Len(l)]
      BY <2>1, ConcatProperties
    <3> HIDE DEF ld
    <3>2. /\ Len(ld \o r) = Len(ld) + Len(r)
          /\ \A i \in 1..(Len(ld) + Len(r)) : (ld \o r)[i] = IF i <= Len(ld) THEN ld[i] ELSE r[i - Len(ld)]
      <4>1. ld \in Seq(Nat) /\ r \in Seq(Nat)
        BY <2>1, <3>1
      <4> QED BY <4>1, ConcatProperties
    <3>3. e = ld \o r
      BY <2>2 DEF ld
    <3>4. Len(ld) = Len(d) + 1 /\ Len(e) = Len(d) + 2
      BY <2>1, <2>3, <3>1, <3>2, <3>3
    <3>5. /\ \A i \in 1..(Len(d) + 1) : ld[i] = IF i <= 1 THEN l[i] ELSE d[i - 1]
          /\ \A i \in 1..(Len(d) + 2) : e[i] = IF i <= Len(d) + 1 THEN ld[i] ELSE r[i - (Len(d) + 1)]
      BY <2>1, <2>3, <3>1, <3>2, <3>3, <3>4
    <3>6. e[1] = LeftBracket
      BY <2>1, <2>3, <3>5
    <3>7. e[Len(d) + 2] = RightBracket
      <4>1. Len(d) + 2 \in 1..(Len(d) + 2) /\ ~(Len(d) + 2 <= Len(d) + 1) /\ (Len(d) + 2) - (Len(d) + 1) = 1
        BY <2>3
      <4> QED BY <2>1, <3>5, <4>1
    <3>8. ASSUME NEW k \in 1..Len(d) PROVE e[1 + k] = d[k]
      <4>1. 1 + k \in 1..(Len(d) + 1) /\ 1 + k \in 1..(Len(d) + 2) /\ 1 + k <= Len(d) + 1 /\ ~(1 + k <= 1) /\ (1 + k) - 1 = k
        BY <2>3
      <4>2. e[1 + k] = ld[1 + k]
        BY <3>5, <4>1
      <4>3. ld[1 + k] = d[(1 + k) - 1]
        BY <3>5, <4>1
      <4> QED BY <4>1, <4>2, <4>3
    <3> QED BY <3>4, <3>6, <3>7, <3>8
  <2> HIDE DEF s, b, end, e, d
  <2> DEFINE o == b + 1
             c == o + Len(d) + 1
  <2>5. o \in Nat /\ c = end - 1 /\ c <= Len(s) /\ o <= Len(s) /\ c \in Nat /\ c + 1 = end /\ o # 0
    BY <1>1, <2>3, <2>4
  <2>6. s[o] = LeftBracket
    <3>1. 1 \in 1..Len(e)
      BY <2>3, <2>4
    <3> QED BY <1>1, <2>4, <3>1
  <2>7. \A k \in 1..Len(d) : s[o + k] = d[k]
    <3> TAKE k \in 1..Len(d)
    <3>1. 1 + k \in 1..Len(e) /\ o + k = b + (1 + k)
      BY <1>1, <2>3, <2>4
    <3> QED BY <1>1, <2>4, <3>1
  <2>8. s[c] = RightBracket
    <3>1. Len(d) + 2 \in 1..Len(e) /\ c = b + (Len(d) + 2)
      BY <1>1, <2>3, <2>4
    <3> QED BY <1>1, <2>4, <3>1
  <2>9. c = Len(s) \/ s[o + Len(d) + 2] # RightBracket
    <3>1. o + Len(d) + 2 = end
      BY <2>3, <2>5
    <3>2. Delimiter # RightBracket
      BY DEF Delimiter, RightBracket
    <3>3. end = Len(s) + 1 => c = Len(s)
      <4>1. c \in Nat /\ c + 1 = end /\ Len(s) \in Nat
        BY <1>1, <2>5
      <4> HIDE DEF c
      <4> QED BY <4>1
    <3> QED BY <1>1, <3>1, <3>2, <3>3
  <2>10. closingBracket(s, o + 1) = c
    <3> HIDE DEF o
    <3> QED BY <1>1, <2>5, <2>7, <2>8, <2>9, ClosingAt DEF d
  <2>11. Bracketed(s, o)
    <3>1. c # 0
      BY <2>5
    <3> HIDE DEF o, c
    <3> QED BY <2>6, <2>10, <3>1 DEF Bracketed
  <2>12. SubSeq(s, o + 1, c - 1) = d
    <3>1. o + 1 \in Int /\ c - 1 \in Int /\ (c - 1) - (o + 1) + 1 = Len(d) /\ o + 1 <= (c - 1) + 1
      <4>1. o \in Nat /\ Len(d) \in Nat
        BY <2>3, <2>5
      <4> HIDE DEF o
      <4> QED BY <4>1
    <3>2. ASSUME NEW i \in (o + 1)..(c - 1) PROVE s[i] \in Nat
      <4>1. i \in 1..Len(s)
        <5> HIDE DEF o, c
        <5> QED BY <1>1, <2>5
      <4> QED BY <1>1, <4>1 DEF Text
    <3>3. /\ SubSeq(s, o + 1, c - 1) \in Seq(Nat)
          /\ Len(SubSeq(s, o + 1, c - 1)) = Len(d)
          /\ \A i \in 1..Len(d) : SubSeq(s, o + 1, c - 1)[i] = s[(o + 1) + i - 1]
      <4> DEFINE lo == o + 1
                 hi == c - 1
      <4>1. lo \in Int /\ hi \in Int /\ hi - lo + 1 = Len(d) /\ lo <= hi + 1 /\ \A i \in lo..hi : s[i] \in Nat
        BY <3>1, <3>2
      <4> HIDE DEF lo, hi
      <4>2. /\ SubSeq(s, lo, hi) \in Seq(Nat)
            /\ Len(SubSeq(s, lo, hi)) = IF lo <= hi THEN hi - lo + 1 ELSE 0
            /\ \A i \in 1..(hi - lo + 1) : SubSeq(s, lo, hi)[i] = s[lo + i - 1]
        BY <4>1, SubSeqProperties
      <4>3. Len(SubSeq(s, lo, hi)) = Len(d)
        BY <2>3, <4>1, <4>2
      <4> QED BY <4>1, <4>2, <4>3 DEF lo, hi
    <3>4. ASSUME NEW i \in 1..Len(d) PROVE SubSeq(s, o + 1, c - 1)[i] = d[i]
      <4>1. (o + 1) + i - 1 = o + i
        <5>1. i \in Nat /\ o \in Nat
          BY <2>3, <2>5
        <5> HIDE DEF o
        <5> QED BY <5>1
      <4> QED BY <2>7, <3>3, <4>1
    <3> HIDE DEF o, c
    <3> QED BY <2>1, <3>3, <3>4, SeqEqual DEF d
  <2>13. Halved(d) = seg
    BY <1>1, HalvedDoubled DEF d
  <2> QED BY <2>5, <2>10, <2>11, <2>12, <2>13
<1>4. ASSUME ~needsBrackets(seg)
      PROVE  /\ end = (b + 1) + Len(seg)
             /\ \A i \in (b + 1)..(end - 1) : /\ ~Bracketed(s, i) /\ s[i] # Delimiter
                                              /\ s[i] = seg[(i - (b + 1)) + 1]
  <2>1. e = seg
    BY <1>4 DEF Escaped
  <2>2. end = (b + 1) + Len(seg)
    BY <1>1, <1>2, <2>1
  <2>3. ASSUME NEW i \in (b + 1)..(end - 1)
        PROVE  ~Bracketed(s, i) /\ s[i] # Delimiter /\ s[i] = seg[(i - (b + 1)) + 1]
    <3> DEFINE k == (i - (b + 1)) + 1
    <3> HIDE DEF s, b, end, e, seg
    <3>1. k \in 1..Len(seg) /\ b + k = i
      BY <1>1, <1>2, <2>2
    <3>2. s[i] = seg[k]
      <4>1. k \in 1..Len(e)
        BY <2>1, <3>1
      <4>2. s[b + k] = e[k]
        BY <1>1, <4>1
      <4> QED BY <2>1, <3>1, <4>2
    <3>3. seg[k] # Delimiter /\ seg[k] # LeftBracket
      BY <1>4, <3>1 DEF needsBrackets
    <3> QED BY <3>2, <3>3 DEF Bracketed
  <2> QED BY <2>2, <2>3
<1>5. b + 1 \in Nat \ {0} /\ b + 1 <= end
  BY <1>1, <1>2
<1> QED BY <1>1, <1>3, <1>4, <1>5

\* Only the empty path has the empty text.
LEMMA TextNotEmpty ==
  ASSUME NEW p, Plain(p)
  PROVE  String(p) \in Text /\ String(p) # <<>>
<1> DEFINE s == String(p)
           n == Len(p)
<1>1. /\ s \in Text /\ n \in Nat \ {0} /\ Len(s) = EndOf(p, n) - 1 /\ Len(s) \in Nat
      /\ EndOf(p, 0) = 0 /\ \A j \in 0..n : EndOf(p, j) \in Nat
      /\ \A j \in 1..n : p[j] \in Text /\ EndOf(p, j) = EndOf(p, j - 1) + Len(Escaped(p[j])) + 1
  BY TextLayout
<1> HIDE DEF s
<1>2. \A t \in Text : Len(Escaped(t)) \in Nat
  BY SegmentPrints DEF Text
<1>3. EndOf(p, n) # 1
  <2>1. SUFFICES ASSUME EndOf(p, n) = 1 PROVE FALSE
    OBVIOUS
  <2>2. /\ EndOf(p, n) = EndOf(p, n - 1) + Len(Escaped(p[n])) + 1 /\ p[n] \in Text
        /\ EndOf(p, n - 1) \in Nat /\ Len(Escaped(p[n])) \in Nat
    <3>1. n \in 1..n /\ n - 1 \in 0..n
      BY <1>1
    <3> QED BY <1>1, <1>2, <3>1
  <2>3. EndOf(p, n - 1) = 0 /\ Len(Escaped(p[n])) = 0
    BY <2>1, <2>2
  <2>4. n = 1
    <3>1. SUFFICES ASSUME n # 1 PROVE FALSE
      OBVIOUS
    <3>2. n - 1 \in 1..n /\ (n - 1) - 1 \in 0..n
      <4>1. n \in Nat /\ n # 0
        BY <1>1
      <4> HIDE DEF n
      <4> QED BY <3>1, <4>1
    <3>3. /\ EndOf(p, n - 1) = EndOf(p, (n - 1) - 1) + Len(Escaped(p[n - 1])) + 1
          /\ EndOf(p, (n - 1) - 1) \in Nat /\ Len(Escaped(p[n - 1])) \in Nat
      BY <1>1, <1>2, <3>2
    <3> QED BY <2>3, <3>3
  <2>5. p[1] \in Text /\ Len(Escaped(p[1])) = 0
    BY <2>2, <2>3, <2>4
  <2>6. p[1] = <<>>
    <3>1. CASE needsBrackets(p[1])
      <4>1. \E i \in 1..Len(p[1]) : TRUE
        BY <3>1 DEF needsBrackets
      <4> DEFINE d == Doubled(p[1])
                 l == <<LeftBracket>>
                 r == <<RightBracket>>
      <4>2. d \in Seq(Nat) /\ l \in Seq(Nat) /\ r \in Seq(Nat) /\ Len(l) = 1 /\ Len(r) = 1
        BY <2>5, DoubledPrints DEF Text, LeftBracket, RightBracket
      <4>3. Escaped(p[1]) = (l \o d) \o r
        BY <3>1 DEF Escaped
      <4> HIDE DEF d, l, r
      <4>4. l \o d \in Seq(Nat) /\ Len(l \o d) = Len(l) + Len(d)
        BY <4>2, ConcatProperties
      <4> DEFINE ld == l \o d
      <4>5. ld \in Seq(Nat) /\ Len(ld) \in Nat
        BY <4>4
      <4> HIDE DEF ld
      <4>6. Len(ld \o r) = Len(ld) + Len(r)
        BY <4>2, <4>5, ConcatProperties
      <4>7. Len(Escaped(p[1])) = Len(ld) + 1
        BY <4>2, <4>3, <4>6 DEF ld
      <4> QED BY <2>5, <4>5, <4>7
    <3>2. CASE ~needsBrackets(p[1])
      <4>1. Len(p[1]) = 0
        BY <2>5, <3>2 DEF Escaped
      <4> QED BY <2>5, <4>1, EmptySeq DEF Text
    <3> QED BY <3>1, <3>2
  <2>7. p = << <<>> >>
    <3>1. p \in Seq(Text) /\ Len(p) = 1
      BY <2>4 DEF Plain
    <3>2. p = [i \in 1..1 |-> p[i]]
      BY <3>1
    <3> QED BY <2>6, <3>2
  <2> QED BY <2>7 DEF Plain
<1>4. Len(s) # 0
  BY <1>1, <1>3
<1> QED BY <1>1, <1>4, EmptySeq DEF s

\* Behind the j-th segment the segments of R are read, and nothing more of the
\* segment.
ReadsOn(after, p, j, R) == after[EndOf(p, j)] = << <<>> >> \o R

\* What follows a segment of the text is continued by the segment.
LEMMA ParsedSegment ==
  ASSUME NEW p, Plain(p), NEW j \in 1..Len(p), NEW after, Parses(after, String(p)), NEW R \in Seq(Text),
         ReadsOn(after, p, j, R)
  PROVE  after[EndOf(p, j - 1) + 1] = <<p[j]>> \o R
<1> DEFINE s == String(p)
           from == EndOf(p, j - 1) + 1
           end == EndOf(p, j)
           seg == p[j]
<1>1. /\ from \in Nat \ {0} /\ from <= end /\ end \in Nat /\ end <= Len(s) + 1
      /\ needsBrackets(seg) =>
            /\ from <= Len(s) /\ Bracketed(s, from)
            /\ closingBracket(s, from + 1) = end - 1
            /\ Halved(SubSeq(s, from + 1, (end - 1) - 1)) = seg
      /\ ~needsBrackets(seg) =>
            /\ end = from + Len(seg)
            /\ \A i \in from..(end - 1) : ~Bracketed(s, i) /\ s[i] # Delimiter /\ s[i] = seg[(i - from) + 1]
  BY SegmentAt
<1>2. s \in Text /\ Len(s) \in Nat /\ seg \in Text /\ Len(seg) \in Nat
  <2>1. s \in Text
    BY TextLayout
  <2>2. p \in Seq(Text)
    BY DEF Plain
  <2>3. seg \in Text
    BY <2>2
  <2> QED BY <2>1, <2>3 DEF Text
<1>3. \A i \in 1..(Len(s) + 1) :
         after[i] = IF i > Len(s) THEN << <<>> >>
                    ELSE IF Bracketed(s, i)
                    THEN Continued(Halved(SubSeq(s, i + 1, closingBracket(s, i + 1) - 1)),
                                   after[closingBracket(s, i + 1) + 1])
                    ELSE IF s[i] = Delimiter THEN << <<>> >> \o after[i + 1]
                    ELSE Continued(<<s[i]>>, after[i + 1])
  BY DEF Parses
<1>0. <<>> \in Text
  BY DEF Text
<1>10. after[end] = << <<>> >> \o R
  BY DEF ReadsOn
<1> HIDE DEF s, from, end, seg
<1>4. CASE needsBrackets(seg)
  <2>1. from \in 1..(Len(s) + 1) /\ ~(from > Len(s)) /\ Bracketed(s, from)
    BY <1>1, <1>2, <1>4
  <2>2. after[from] = Continued(Halved(SubSeq(s, from + 1, closingBracket(s, from + 1) - 1)),
                                after[closingBracket(s, from + 1) + 1])
    BY <1>3, <2>1
  <2>3. closingBracket(s, from + 1) = end - 1 /\ (end - 1) + 1 = end /\ Halved(SubSeq(s, from + 1, (end - 1) - 1)) = seg
    BY <1>1, <1>4
  <2>4. after[from] = Continued(seg, << <<>> >> \o R)
    BY <1>10, <2>2, <2>3
  <2>5. Continued(seg, << <<>> >> \o R) = <<seg \o <<>> >> \o R
    <3> DEFINE t == <<>>
    <3>1. t \in Text
      BY <1>0
    <3> HIDE DEF t
    <3>2. Continued(seg, <<t>> \o R) = <<seg \o t>> \o R
      BY <1>2, <3>1, ContinuedEach, Zenon
    <3> QED BY <3>2 DEF t
  <2>6. seg \o <<>> = seg
    BY <1>2, ConcatEmptySeq DEF Text
  <2> QED BY <2>4, <2>5, <2>6 DEF from, seg
<1>5. CASE ~needsBrackets(seg)
  <2> DEFINE tl(i) == SubSeq(seg, (i - from) + 1, Len(seg))
             good == {i \in from..end : after[i] = <<tl(i)>> \o R}
  <2>1. ASSUME NEW i \in from..end, \A k \in (i + 1)..end : k \in good PROVE i \in good
    <3>1. CASE i = end
      <4>1. (i - from) + 1 \in Int /\ Len(seg) < (i - from) + 1
        BY <1>1, <1>2, <1>5, <3>1
      <4>2. tl(i) = <<>>
        BY <1>2, <4>1, SubSeqEmpty
      <4> QED BY <1>10, <3>1, <4>2
    <3>2. CASE i # end
      <4>1. /\ i + 1 \in from..end /\ i + 1 \in (i + 1)..end /\ i \in from..(end - 1)
            /\ i \in 1..(Len(s) + 1) /\ ~(i > Len(s))
        BY <1>1, <1>2, <3>2
      <4>2. after[i + 1] = <<tl(i + 1)>> \o R
        <5> HIDE DEF tl
        <5> QED BY <2>1, <4>1
      <4>3. ~Bracketed(s, i) /\ s[i] # Delimiter /\ s[i] = seg[(i - from) + 1]
        BY <1>1, <1>5, <4>1
      <4>4. after[i] = Continued(<<s[i]>>, after[i + 1])
        BY <1>3, <4>1, <4>3
      <4> DEFINE k == (i - from) + 1
      <4>5. k \in 1..Len(seg) /\ Len(seg) \in k..Len(seg) /\ ((i + 1) - from) + 1 = k + 1
        BY <1>1, <1>2, <1>5, <3>2
      <4>6. tl(i) = <<seg[k]>> \o tl(i + 1)
        <5>1. seg \in Seq(Nat)
          BY <1>2 DEF Text
        <5> HIDE DEF k
        <5>2. SubSeq(seg, k, Len(seg)) = <<seg[k]>> \o SubSeq(seg, k + 1, Len(seg))
          BY <4>5, <5>1, SubSeqRecursiveFirst
        <5> QED BY <4>5, <5>2 DEF k
      <4>7. <<s[i]>> \in Text /\ tl(i + 1) \in Text
        <5>1. \A m \in 1..Len(seg) : seg[m] \in Nat
          BY <1>2 DEF Text
        <5>2. s[i] \in Nat
          <6> HIDE DEF k
          <6> QED BY <4>3, <4>5, <5>1 DEF k
        <5>3. k + 1 \in Int /\ Len(seg) \in Int /\ \A m \in (k + 1)..Len(seg) : seg[m] \in Nat
          <6>1. k \in Nat /\ k >= 1
            BY <4>5
          <6> HIDE DEF k
          <6> QED BY <1>2, <5>1, <6>1
        <5>4. SubSeq(seg, k + 1, Len(seg)) \in Seq(Nat)
          <6> HIDE DEF k
          <6> QED BY <5>3, SubSeqProperties
        <5> QED BY <4>5, <5>2, <5>4 DEF Text
      <4>8. Continued(<<s[i]>>, <<tl(i + 1)>> \o R) = << <<s[i]>> \o tl(i + 1)>> \o R
        <5> DEFINE x == <<s[i]>>
                   y == tl(i + 1)
        <5>1. x \in Text /\ y \in Text
          BY <4>7
        <5> HIDE DEF x, y, tl
        <5>2. Continued(x, <<y>> \o R) = <<x \o y>> \o R
          BY <5>1, ContinuedEach, Zenon
        <5> QED BY <5>2 DEF x, y
      <4>9. after[i] = <<tl(i)>> \o R
        <5> HIDE DEF tl
        <5> QED BY <4>2, <4>3, <4>4, <4>6, <4>8
      <4> HIDE DEF tl
      <4> QED BY <4>9
    <3> QED BY <3>1, <3>2
  <2>2. from \in good
    <3> HIDE DEF good
    <3>1. \A i \in from..end : i \in good
      BY <1>1, <2>1, FromTheEnd
    <3> QED BY <1>1, <3>1
  <2>3. after[from] = <<tl(from)>> \o R
    <3> HIDE DEF tl
    <3> QED BY <2>2
  <2>4. tl(from) = seg
    <3>1. (from - from) + 1 = 1
      BY <1>1
    <3>2. SubSeq(seg, 1, Len(seg)) = seg
      BY <1>2, SubSeqFull DEF Text
    <3> QED BY <3>1, <3>2
  <2> HIDE DEF tl
  <2> QED BY <2>3, <2>4 DEF from, seg
<1> QED BY <1>4, <1>5

\* A path is read from its text as it was.
LEMMA RoundTrip ==
  ASSUME NEW p \in Seq(Text)
  PROVE  String(p) \in Text /\ ParsePath(String(p)) = p
<1>1. CASE p = <<>>
  <2>1. String(p) = <<>> /\ <<>> \in Text
    BY <1>1 DEF String, Text
  <2> QED BY <1>1, <2>1 DEF ParsePath
<1>2. CASE p = << <<>> >>
  <2> DEFINE s == <<LeftBracket, RightBracket>>
  <2>1. String(p) = s
    <3>1. p # <<>>
      BY <1>2
    <3> QED BY <1>2, <3>1 DEF String
  <2>2. s \in Text /\ Len(s) = 2 /\ s[1] = LeftBracket /\ s[2] = RightBracket /\ s # <<>>
    BY DEF Text, LeftBracket, RightBracket
  <2> HIDE DEF s
  <2>3. closingBracket(s, 2) = 2
    <3>1. 2 \in 1..(Len(s) + 2)
      BY <2>2
    <3>2. PICK scan : Scans(scan, s, 2) /\ closingBracket(s, 2) = scan[2]
      BY <2>2, <3>1, ClosingScans
    <3>3. scan[2] = 2
      BY <2>2, <3>2 DEF Scans
    <3> QED BY <3>2, <3>3
  <2>4. PICK after : Parses(after, s) /\ ParsePath(s) = after[1]
    BY <2>2, ParseWalks
  <2>5. Bracketed(s, 1)
    BY <2>2, <2>3 DEF Bracketed
  <2>6. after[1] = Continued(Halved(SubSeq(s, 2, 1)), after[3])
    BY <2>2, <2>3, <2>4, <2>5 DEF Parses
  <2>7. after[3] = << <<>> >>
    BY <2>2, <2>4 DEF Parses
  <2>8. SubSeq(s, 2, 1) = <<>> /\ <<>> \in Text
    BY <2>2, SubSeqEmpty DEF Text
  <2>9. Halved(<<>>) = <<>>
    <3>1. PICK rest : Halves(rest, <<>>) /\ Halved(<<>>) = rest[1]
      BY <2>8, HalvedWalks
    <3>2. rest[1] = <<>>
      <4> DEFINE e == <<>>
      <4>1. Halves(rest, e) /\ Len(e) = 0
        BY <3>1
      <4> HIDE DEF e
      <4>2. 1 \in 1..(Len(e) + 2) /\ 1 > Len(e)
        BY <4>1
      <4> QED BY <4>1, <4>2 DEF Halves
    <3> QED BY <3>1, <3>2
  <2>10. Continued(<<>>, << <<>> >>) = << <<>> >>
    <3>1. Continued(<<>>, << <<>> >> \o <<>>) = << <<>> \o <<>> >> \o <<>>
      <4> DEFINE t == <<>>
      <4>1. t \in Text /\ t \in Seq(Text)
        BY <2>8
      <4> HIDE DEF t
      <4>2. Continued(t, <<t>> \o t) = <<t \o t>> \o t
        BY <4>1, ContinuedIs
      <4> QED BY <4>2 DEF t
    <3>2. <<>> \o <<>> = <<>> /\ << <<>> >> \o <<>> = << <<>> >>
      BY <2>8, ConcatEmptySeq DEF Text
    <3> QED BY <3>1, <3>2
  <2> QED BY <1>2, <2>1, <2>2, <2>4, <2>6, <2>7, <2>8, <2>9, <2>10
<1>3. CASE p # <<>> /\ p # << <<>> >>
  <2>0. Plain(p)
    BY <1>3 DEF Plain
  <2> DEFINE s == String(p)
             n == Len(p)
             E(j) == EndOf(p, j)
             R(j) == SubSeq(p, j + 1, n)
  <2>1. /\ s \in Text /\ n \in Nat \ {0} /\ Len(s) = E(n) - 1 /\ Len(s) \in Nat
        /\ E(0) = 0 /\ \A j \in 0..n : E(j) \in Nat /\ E(j) <= Len(s) + 1
        /\ \A j \in 1..n : j < n => s[E(j)] = Delimiter
    BY <2>0, TextLayout
  <2>2. s # <<>>
    BY <2>0, TextNotEmpty
  <2>3. PICK after : Parses(after, s) /\ ParsePath(s) = after[1]
    BY <2>1, <2>2, ParseWalks
  <2>4. \A j \in 0..n : R(j) \in Seq(Text)
    <3> TAKE j \in 0..n
    <3>1. j + 1 \in Int /\ n \in Int /\ \A i \in (j + 1)..n : p[i] \in Text
      BY <2>1
    <3> QED BY <3>1, SubSeqProperties
  <2>5. \A j \in 1..n : R(j - 1) = <<p[j]>> \o R(j)
    <3> TAKE j \in 1..n
    <3>1. j \in 1..n /\ n \in j..n /\ (j - 1) + 1 = j
      BY <2>1
    <3>2. SubSeq(p, j, n) = <<p[j]>> \o SubSeq(p, j + 1, n)
      BY <3>1, SubSeqRecursiveFirst
    <3> QED BY <3>1, <3>2
  <2>6. R(n) = <<>> /\ R(0) = p
    <3>1. n < n + 1 /\ n + 1 \in Int /\ n \in Int /\ 0 + 1 = 1
      BY <2>1
    <3>2. SubSeq(p, n + 1, n) = <<>>
      <4> DEFINE k == n + 1
      <4>1. n < k /\ k \in Int /\ n \in Int
        BY <3>1
      <4> HIDE DEF k
      <4>2. SubSeq(p, k, n) = <<>>
        BY <4>1, SubSeqEmpty
      <4> QED BY <4>2 DEF k
    <3>3. SubSeq(p, 1, n) = p
      BY SubSeqFull
    <3> QED BY <3>1, <3>2, <3>3
  <2>7. \A i \in 1..(Len(s) + 1) :
           after[i] = IF i > Len(s) THEN << <<>> >>
                      ELSE IF Bracketed(s, i)
                      THEN Continued(Halved(SubSeq(s, i + 1, closingBracket(s, i + 1) - 1)),
                                     after[closingBracket(s, i + 1) + 1])
                      ELSE IF s[i] = Delimiter THEN << <<>> >> \o after[i + 1]
                      ELSE Continued(<<s[i]>>, after[i + 1])
    BY <2>3 DEF Parses
  <2>8. ASSUME NEW j \in 1..n, after[E(j)] = << <<>> >> \o R(j) PROVE after[E(j - 1) + 1] = R(j - 1)
    <3>1. after[E(j - 1) + 1] = <<p[j]>> \o R(j)
      <4>1. R(j) \in Seq(Text)
        <5>1. j \in 0..n
          BY <2>1
        <5> HIDE DEF R
        <5> QED BY <2>4, <5>1
      <4> DEFINE r == R(j)
      <4>2. r \in Seq(Text) /\ ReadsOn(after, p, j, r)
        BY <2>8, <4>1 DEF ReadsOn
      <4> HIDE DEF r
      <4>3. after[EndOf(p, j - 1) + 1] = <<p[j]>> \o r
        BY <2>0, <2>3, <4>2, ParsedSegment
      <4> QED BY <4>3 DEF r
    <3> QED BY <2>5, <3>1
  <2> HIDE DEF s, E, R
  <2> DEFINE good == {j \in 1..n : after[E(j)] = << <<>> >> \o R(j)}
  <2>9. ASSUME NEW j \in 1..n, \A k \in (j + 1)..n : k \in good PROVE j \in good
    <3>1. CASE j = n
      <4>1. E(n) \in 1..(Len(s) + 1) /\ E(n) > Len(s)
        <5>1. E(n) \in Nat
          BY <2>1
        <5> QED BY <2>1, <5>1
      <4>2. after[E(n)] = << <<>> >>
        BY <2>7, <4>1
      <4>3. << <<>> >> \o <<>> = << <<>> >>
        OBVIOUS
      <4> QED BY <2>6, <3>1, <4>2, <4>3
    <3>2. CASE j # n
      <4>1. j + 1 \in 1..n /\ j + 1 \in (j + 1)..n /\ j < n /\ j \in 0..n /\ (j + 1) - 1 = j /\ j + 1 \in 0..n
        BY <2>1, <3>2
      <4>2. after[E(j + 1)] = << <<>> >> \o R(j + 1)
        BY <2>9, <4>1
      <4>3. after[E(j) + 1] = R(j)
        BY <2>8, <4>1, <4>2
      <4>4. s[E(j)] = Delimiter /\ E(j) \in 1..(Len(s) + 1) /\ ~(E(j) > Len(s))
        <5>1. E(j) \in Nat /\ E(j) # 0 /\ E(j) < E(j + 1) /\ E(j + 1) <= Len(s) + 1 /\ E(j + 1) \in Nat
          <6>1. E(j) = E(j - 1) + Len(Escaped(p[j])) + 1 /\ p[j] \in Text
            BY <2>0, TextLayout DEF E
          <6>2. E(j + 1) = E((j + 1) - 1) + Len(Escaped(p[j + 1])) + 1 /\ p[j + 1] \in Text
            BY <2>0, <4>1, TextLayout DEF E
          <6>3. Len(Escaped(p[j])) \in Nat /\ Len(Escaped(p[j + 1])) \in Nat
            BY <6>1, <6>2, SegmentPrints DEF Text
          <6>4. E(j - 1) \in Nat /\ E(j) \in Nat /\ E(j + 1) \in Nat /\ E(j + 1) <= Len(s) + 1
            <7>1. j - 1 \in 0..n
              BY <2>1
            <7> QED BY <2>1, <4>1, <7>1
          <6> QED BY <4>1, <6>1, <6>2, <6>3, <6>4
        <5> QED BY <2>1, <4>1, <5>1
      <4>5. ~Bracketed(s, E(j))
        BY <4>4 DEF Bracketed, Delimiter, LeftBracket
      <4>6. after[E(j)] = << <<>> >> \o after[E(j) + 1]
        BY <2>7, <4>4, <4>5
      <4> QED BY <4>3, <4>6
    <3> QED BY <3>1, <3>2
  <2>10. 1 \in good
    <3> HIDE DEF good
    <3>1. \A j \in 1..n : j \in good
      BY <2>1, <2>9, FromTheEnd
    <3> QED BY <2>1, <3>1
  <2>11. after[1] = p
    <3>1. 1 \in 1..n /\ 1 - 1 = 0 /\ E(1 - 1) + 1 = 1
      BY <2>1
    <3>2. after[E(1 - 1) + 1] = R(1 - 1)
      BY <2>8, <2>10, <3>1
    <3> QED BY <2>6, <3>1, <3>2
  <2> QED BY <2>1, <2>3, <2>11 DEF s
<1> QED BY <1>1, <1>2, <1>3
-----------------------------------------------------------------------------
(* The delimiters of a text.                                               *)

\* The delimiters behind each position, as a walk.
Delimits(delims, s) ==
    \A i \in 1..(Len(s) + 1) :
       delims[i] = IF i > Len(s) THEN {}
                   ELSE IF Bracketed(s, i) THEN delims[closingBracket(s, i + 1) + 1]
                   ELSE IF s[i] = Delimiter THEN {i} \cup delims[i + 1]
                   ELSE delims[i + 1]

LEMMA DelimitWalks ==
  ASSUME NEW s \in Text
  PROVE  \E delims : Delimits(delims, s) /\ topLevelDelims(s) = delims[1]
<1> DEFINE hi == Len(s) + 1
           V == SUBSET Int
           end(i) == closingBracket(s, i + 1)
           next == [i \in 1..hi |-> IF Bracketed(s, i) THEN end(i) + 1 ELSE i + 1]
           stops == {i \in 1..hi : i > Len(s)}
           base == [i \in 1..hi |-> {}]
           one(i, x) == IF i > Len(s) THEN x
                        ELSE IF Bracketed(s, i) THEN x
                        ELSE IF s[i] = Delimiter THEN {i} \cup x
                        ELSE x
           step == [i \in 1..hi |-> [x \in V |-> one(i, x)]]
           Rec(f) == [i \in 1..hi |->
                        IF i > Len(s) THEN {}
                        ELSE IF Bracketed(s, i) THEN f[end(i) + 1]
                        ELSE IF s[i] = Delimiter THEN {i} \cup f[i + 1]
                        ELSE f[i + 1]]
           delims == CHOOSE f : f = Rec(f)
<1>1. Len(s) \in Nat /\ hi \in Nat /\ 1 <= hi + 1
  BY DEF Text
<1>2. base \in [1..hi -> V] /\ step \in [1..hi -> [V -> V]]
  <2>1. {} \in V
    OBVIOUS
  <2>2. ASSUME NEW i \in 1..hi, NEW x \in V PROVE one(i, x) \in V
    <3>1. {i} \cup x \in V
      BY <1>1
    <3> HIDE DEF V
    <3> QED BY <3>1
  <2> HIDE DEF hi, V, one
  <2> QED BY <2>1, <2>2
<1>3. \A i \in 1..hi : i \notin stops => next[i] \in (i + 1)..hi
  <2> TAKE i \in 1..hi
  <2>1. SUFFICES ASSUME i <= Len(s) PROVE next[i] \in (i + 1)..hi
    BY <1>1
  <2>2. CASE Bracketed(s, i)
    BY <1>1, <2>1, <2>2, BracketedGoesOn
  <2>3. CASE ~Bracketed(s, i)
    BY <1>1, <2>1, <2>3
  <2> QED BY <2>2, <2>3
<1>4. PICK f : Descends(f, 1, hi, V, stops, base, next, step)
  <2> HIDE DEF hi, V, stops, base, next, step
  <2> QED BY <1>1, <1>2, <1>3, DescentExists
<1>5. f \in [1..hi -> V] /\ \A i \in 1..hi : f[i] = IF i \in stops THEN base[i] ELSE step[i][f[next[i]]]
  <2> HIDE DEF stops, base, next, step, hi, V
  <2> QED BY <1>4 DEF Descends
<1>6. f = Rec(f)
  <2>1. ASSUME NEW i \in 1..hi PROVE f[i] = Rec(f)[i]
    <3>1. CASE i > Len(s)
      <4>1. f[i] = {}
        BY <1>5, <3>1
      <4> QED BY <3>1, <4>1
    <3>2. CASE ~(i > Len(s))
      <4>1. next[i] \in 1..hi /\ i \notin stops
        <5>1. next[i] \in (i + 1)..hi /\ i \notin stops
          <6> HIDE DEF next
          <6> QED BY <1>3, <3>2
        <5> HIDE DEF next, stops
        <5> QED BY <1>1, <5>1
      <4>2. f[next[i]] \in V /\ f[i] = step[i][f[next[i]]]
        <5> HIDE DEF stops, base, next, step, hi, V
        <5> QED BY <1>5, <4>1
      <4>3. f[i] = one(i, f[next[i]])
        <5> HIDE DEF next, one, V
        <5> QED BY <4>2
      <4>4. next[i] = IF Bracketed(s, i) THEN end(i) + 1 ELSE i + 1
        OBVIOUS
      <4> HIDE DEF next, end
      <4> QED BY <3>2, <4>3, <4>4, Zenon
    <3> QED BY <3>1, <3>2
  <2>2. f = [i \in 1..hi |-> f[i]]
    BY <1>5
  <2> HIDE DEF stops, base, next, step
  <2> QED BY <2>1, <2>2
<1>7. delims = Rec(delims)
  BY <1>6, Zenon
<1> HIDE DEF delims
<1>8. Delimits(delims, s)
  <2>1. \A i \in 1..hi : delims[i] = Rec(delims)[i]
    <3> HIDE DEF Rec
    <3> QED BY <1>7
  <2> QED BY <2>1 DEF Delimits
<1>9. topLevelDelims(s) = delims[1]
  BY Zenon DEF topLevelDelims, delims
<1> QED BY <1>8, <1>9

\* No delimiter is found in a segment.
LEMMA DelimitedSegment ==
  ASSUME NEW p, Plain(p), NEW j \in 1..Len(p), NEW delims, Delimits(delims, String(p))
  PROVE  delims[EndOf(p, j - 1) + 1] = delims[EndOf(p, j)]
<1> DEFINE s == String(p)
           from == EndOf(p, j - 1) + 1
           end == EndOf(p, j)
           seg == p[j]
<1>1. /\ from \in Nat \ {0} /\ from <= end /\ end \in Nat /\ end <= Len(s) + 1
      /\ needsBrackets(seg) =>
            from <= Len(s) /\ Bracketed(s, from) /\ closingBracket(s, from + 1) = end - 1
      /\ ~needsBrackets(seg) => \A i \in from..(end - 1) : ~Bracketed(s, i) /\ s[i] # Delimiter
  BY SegmentAt
<1>2. s \in Text /\ Len(s) \in Nat
  <2>1. s \in Text
    BY TextLayout
  <2> QED BY <2>1 DEF Text
<1>3. \A i \in 1..(Len(s) + 1) :
         delims[i] = IF i > Len(s) THEN {}
                     ELSE IF Bracketed(s, i) THEN delims[closingBracket(s, i + 1) + 1]
                     ELSE IF s[i] = Delimiter THEN {i} \cup delims[i + 1]
                     ELSE delims[i + 1]
  BY DEF Delimits
<1> HIDE DEF s, from, end, seg
<1>4. CASE needsBrackets(seg)
  <2>1. from \in 1..(Len(s) + 1) /\ ~(from > Len(s)) /\ Bracketed(s, from)
    BY <1>1, <1>2, <1>4
  <2>2. delims[from] = delims[closingBracket(s, from + 1) + 1]
    BY <1>3, <2>1
  <2>3. closingBracket(s, from + 1) = end - 1 /\ (end - 1) + 1 = end
    BY <1>1, <1>4
  <2>4. delims[from] = delims[end]
    BY <2>2, <2>3
  <2> QED BY <2>4 DEF from, end
<1>5. CASE ~needsBrackets(seg)
  <2> DEFINE good == {i \in from..end : delims[i] = delims[end]}
  <2>1. ASSUME NEW i \in from..end, \A k \in (i + 1)..end : k \in good PROVE i \in good
    <3>1. CASE i # end
      <4>1. /\ i + 1 \in (i + 1)..end /\ i \in from..(end - 1)
            /\ i \in 1..(Len(s) + 1) /\ ~(i > Len(s))
        BY <1>1, <1>2, <3>1
      <4>2. delims[i + 1] = delims[end]
        BY <2>1, <4>1
      <4>3. ~Bracketed(s, i) /\ s[i] # Delimiter
        BY <1>1, <1>5, <4>1
      <4>4. delims[i] = delims[i + 1]
        BY <1>3, <4>1, <4>3
      <4> QED BY <4>2, <4>4
    <3> QED BY <3>1
  <2>2. from \in good
    <3> HIDE DEF good
    <3>1. \A i \in from..end : i \in good
      BY <1>1, <2>1, FromTheEnd
    <3> QED BY <1>1, <3>1
  <2>3. delims[from] = delims[end]
    BY <2>2
  <2> QED BY <2>3 DEF from, end
<1> QED BY <1>4, <1>5

\* The segments of a path end at ever later positions of its text, each but the
\* last at a delimiter.
LEMMA EndsGrow ==
  ASSUME NEW p, Plain(p), NEW j \in 1..(Len(p) - 1)
  PROVE  /\ EndOf(p, j) \in 1..Len(String(p)) /\ EndOf(p, j) < EndOf(p, j + 1)
         /\ String(p)[EndOf(p, j)] = Delimiter
<1> DEFINE s == String(p)
           n == Len(p)
           E(i) == EndOf(p, i)
<1>1. /\ n \in Nat \ {0} /\ Len(s) \in Nat
      /\ \A i \in 0..n : E(i) \in Nat /\ E(i) <= Len(s) + 1
      /\ \A i \in 1..n : /\ p[i] \in Text /\ E(i) = E(i - 1) + Len(Escaped(p[i])) + 1
                         /\ i < n => s[E(i)] = Delimiter
  BY TextLayout
<1>2. j \in 1..n /\ j + 1 \in 1..n /\ j < n /\ j \in 0..n /\ (j + 1) - 1 = j /\ j + 1 \in 0..n /\ j - 1 \in 0..n
  <2>1. n \in Nat
    BY <1>1
  <2> HIDE DEF n
  <2>2. j \in 1..(n - 1)
    BY DEF n
  <2> QED BY <2>1, <2>2
<1>3. E(j) = E(j - 1) + Len(Escaped(p[j])) + 1 /\ p[j] \in Text
  BY <1>1, <1>2
<1>4. E(j + 1) = E((j + 1) - 1) + Len(Escaped(p[j + 1])) + 1 /\ p[j + 1] \in Text
  BY <1>1, <1>2
<1>5. Len(Escaped(p[j])) \in Nat /\ Len(Escaped(p[j + 1])) \in Nat
  BY <1>3, <1>4, SegmentPrints DEF Text
<1>6. E(j - 1) \in Nat /\ E(j) \in Nat /\ E(j + 1) \in Nat /\ E(j + 1) <= Len(s) + 1 /\ s[E(j)] = Delimiter
  BY <1>1, <1>2
<1> HIDE DEF E, s, n
<1>7. E(j) \in 1..Len(s) /\ E(j) < E(j + 1)
  <2>1. E(j + 1) = E(j) + Len(Escaped(p[j + 1])) + 1
    BY <1>2, <1>4
  <2>2. E(j) = E(j - 1) + Len(Escaped(p[j])) + 1 /\ Len(s) \in Nat
    BY <1>1, <1>3
  <2>3. E(j) < E(j + 1)
    BY <1>5, <1>6, <2>1
  <2>4. 1 <= E(j)
    BY <1>5, <1>6, <2>2
  <2>5. E(j) <= Len(s)
    BY <1>6, <2>2, <2>3
  <2> QED BY <1>6, <2>2, <2>3, <2>4, <2>5
<1> QED BY <1>6, <1>7 DEF E, s

\* The delimiters of the text of a path are those behind its segments.
LEMMA DelimitersOf ==
  ASSUME NEW p, Plain(p)
  PROVE  topLevelDelims(String(p)) = {EndOf(p, j) : j \in 1..(Len(p) - 1)}
<1> DEFINE s == String(p)
           n == Len(p)
           E(j) == EndOf(p, j)
<1>1. /\ s \in Text /\ n \in Nat \ {0} /\ Len(s) = E(n) - 1 /\ Len(s) \in Nat
      /\ E(0) = 0 /\ \A j \in 0..n : E(j) \in Nat /\ E(j) <= Len(s) + 1
  BY TextLayout
<1>2. PICK delims : Delimits(delims, s) /\ topLevelDelims(s) = delims[1]
  BY <1>1, DelimitWalks
<1>3. \A i \in 1..(Len(s) + 1) :
         delims[i] = IF i > Len(s) THEN {}
                     ELSE IF Bracketed(s, i) THEN delims[closingBracket(s, i + 1) + 1]
                     ELSE IF s[i] = Delimiter THEN {i} \cup delims[i + 1]
                     ELSE delims[i + 1]
  BY <1>2 DEF Delimits
<1>4. \A j \in 1..n : delims[E(j - 1) + 1] = delims[E(j)]
  BY <1>2, DelimitedSegment
<1>5. \A j \in 1..(n - 1) : E(j) \in 1..Len(s) /\ s[E(j)] = Delimiter
  BY EndsGrow
<1> HIDE DEF s, n, E
<1> DEFINE from(j) == {E(k) : k \in j..(n - 1)}
           good == {j \in 1..n : delims[E(j)] = from(j)}
<1>6. ASSUME NEW j \in 1..n, \A k \in (j + 1)..n : k \in good PROVE j \in good
  <2>1. CASE j = n
    <3>1. E(n) \in 1..(Len(s) + 1) /\ E(n) > Len(s)
      <4>1. E(n) \in Nat
        BY <1>1
      <4> QED BY <1>1, <4>1
    <3>2. delims[E(n)] = {}
      BY <1>3, <3>1
    <3>3. from(j) = {}
      BY <1>1, <2>1
    <3> QED BY <2>1, <3>2, <3>3
  <2>2. CASE j # n
    <3>1. j + 1 \in 1..n /\ j + 1 \in (j + 1)..n /\ j \in 1..(n - 1) /\ (j + 1) - 1 = j
      BY <1>1, <2>2
    <3>2. delims[E(j + 1)] = from(j + 1)
      <4> HIDE DEF from
      <4> QED BY <1>6, <3>1
    <3>3. delims[E(j) + 1] = from(j + 1)
      <4>1. delims[E((j + 1) - 1) + 1] = delims[E(j + 1)]
        BY <1>4, <3>1
      <4> HIDE DEF from
      <4> QED BY <3>1, <3>2, <4>1
    <3>4. delims[E(j)] = {E(j)} \cup delims[E(j) + 1]
      <4>1. E(j) \in 1..Len(s) /\ s[E(j)] = Delimiter
        BY <1>5, <3>1
      <4>2. ~Bracketed(s, E(j)) /\ E(j) \in 1..(Len(s) + 1) /\ ~(E(j) > Len(s))
        BY <1>1, <4>1 DEF Bracketed, Delimiter, LeftBracket
      <4> QED BY <1>3, <4>1, <4>2
    <3>5. from(j) = {E(j)} \cup from(j + 1)
      <4>1. \A k : k \in j..(n - 1) <=> k = j \/ k \in (j + 1)..(n - 1)
        BY <1>1, <3>1
      <4> QED BY <4>1
    <3> QED BY <3>3, <3>4, <3>5
  <2> QED BY <2>1, <2>2
<1>7. 1 \in good
  <2> HIDE DEF good
  <2>1. \A j \in 1..n : j \in good
    BY <1>1, <1>6, FromTheEnd
  <2> QED BY <1>1, <2>1
<1>8. delims[1] = from(1)
  <2>1. 1 \in 1..n /\ 1 - 1 = 0 /\ E(1 - 1) + 1 = 1
    BY <1>1
  <2>2. delims[E(1 - 1) + 1] = delims[E(1)]
    BY <1>4, <2>1
  <2> QED BY <1>7, <2>1, <2>2
<1> QED BY <1>2, <1>8 DEF s, n, E

\* Behind its first byte, two texts one after the other are the rest of the
\* first, the first byte of the second and the rest of that.
LEMMA TailOfConcat ==
  ASSUME NEW x \in Seq(Nat), NEW y \in Seq(Nat), x # <<>>, y # <<>>
  PROVE  LET s == Tail(x \o y)
         IN  /\ SubSeq(s, 1, Len(x) - 1) = Tail(x)
             /\ SubSeq(s, Len(x) + 1, Len(s)) = Tail(y)
<1> DEFINE z == x \o y
           s == Tail(z)
<1>1. /\ z \in Seq(Nat) /\ Len(z) = Len(x) + Len(y)
      /\ \A i \in 1..(Len(x) + Len(y)) : z[i] = IF i <= Len(x) THEN x[i] ELSE y[i - Len(x)]
  BY ConcatProperties
<1>2. Len(x) \in Nat \ {0} /\ Len(y) \in Nat \ {0}
  BY EmptySeq
<1> HIDE DEF z
<1>3. z # <<>>
  BY <1>1, <1>2, EmptySeq
<1>4. /\ s \in Seq(Nat) /\ Len(s) = Len(z) - 1 /\ \A i \in 1..Len(s) : s[i] = z[i + 1]
  BY <1>1, <1>3, HeadTailProperties
<1>5. /\ Tail(x) \in Seq(Nat) /\ Len(Tail(x)) = Len(x) - 1 /\ \A i \in 1..Len(Tail(x)) : Tail(x)[i] = x[i + 1]
      /\ Tail(y) \in Seq(Nat) /\ Len(Tail(y)) = Len(y) - 1 /\ \A i \in 1..Len(Tail(y)) : Tail(y)[i] = y[i + 1]
  BY HeadTailProperties
<1> HIDE DEF s
<1> DEFINE tx == Tail(x)
           ty == Tail(y)
           m == Len(x)
           k == Len(y)
<1>6. /\ m \in Nat \ {0} /\ k \in Nat \ {0} /\ Len(s) = m + k - 1 /\ Len(tx) = m - 1 /\ Len(ty) = k - 1
      /\ tx \in Seq(Nat) /\ ty \in Seq(Nat)
      /\ \A i \in 1..(m - 1) : tx[i] = x[i + 1]
      /\ \A i \in 1..(k - 1) : ty[i] = y[i + 1]
  <2>1. Len(s) = m + k - 1
    BY <1>1, <1>2, <1>4
  <2> QED BY <1>2, <1>5, <2>1
<1> HIDE DEF tx, ty, m, k
<1>7. \A i \in 1..(m + k - 1) : s[i] \in Nat /\ s[i] = IF i + 1 <= m THEN x[i + 1] ELSE y[(i + 1) - m]
  <2> TAKE i \in 1..(m + k - 1)
  <2>1. i \in 1..Len(s) /\ i + 1 \in 1..(Len(x) + Len(y))
    BY <1>2, <1>6 DEF m, k
  <2>2. s[i] = z[i + 1] /\ s[i] \in Nat
    BY <1>4, <2>1
  <2>3. z[i + 1] = IF i + 1 <= Len(x) THEN x[i + 1] ELSE y[(i + 1) - Len(x)]
    BY <1>1, <2>1
  <2> QED BY <2>2, <2>3 DEF m
<1>8. SubSeq(s, 1, m - 1) = tx
  <2>1. \A i \in 1..(m - 1) : s[i] = tx[i] /\ s[i] \in Nat
    <3> TAKE i \in 1..(m - 1)
    <3>1. i \in 1..(m + k - 1) /\ i + 1 <= m
      BY <1>6
    <3> QED BY <1>6, <1>7, <3>1
  <2> DEFINE h == m - 1
  <2>2. h \in Int /\ h \in Nat /\ h = Len(tx) /\ 1 \in Int /\ \A i \in 1..h : s[i] \in Nat
    BY <1>6, <2>1
  <2> HIDE DEF h
  <2>3. /\ SubSeq(s, 1, h) \in Seq(Nat)
        /\ Len(SubSeq(s, 1, h)) = IF 1 <= h THEN h - 1 + 1 ELSE 0
        /\ \A i \in 1..(h - 1 + 1) : SubSeq(s, 1, h)[i] = s[1 + i - 1]
    BY <2>2, SubSeqProperties
  <2>4. Len(SubSeq(s, 1, h)) = h
    BY <2>2, <2>3
  <2>5. \A i \in 1..h : SubSeq(s, 1, h)[i] = tx[i]
    <3> TAKE i \in 1..h
    <3>1. i \in 1..(h - 1 + 1) /\ 1 + i - 1 = i /\ s[i] = tx[i]
      BY <2>1, <2>2 DEF h
    <3> QED BY <2>3, <3>1
  <2> QED BY <1>6, <2>2, <2>3, <2>4, <2>5, SeqEqual DEF h
<1>9. SubSeq(s, m + 1, Len(s)) = ty
  <2> DEFINE a == m + 1
             b == Len(s)
  <2>1. a \in Int /\ b \in Int /\ b - a + 1 = k - 1 /\ a \in Nat /\ b \in Nat /\ b + 1 >= a
    BY <1>6
  <2>2. \A i \in a..b : s[i] \in Nat
    BY <1>6, <1>7
  <2>3. \A i \in 1..(k - 1) : s[a + i - 1] = ty[i]
    <3> TAKE i \in 1..(k - 1)
    <3>1. a + i - 1 \in 1..(m + k - 1) /\ a + i - 1 = m + i /\ ~((m + i) + 1 <= m) /\ ((m + i) + 1) - m = i + 1
      BY <1>6
    <3> QED BY <1>6, <1>7, <3>1
  <2> HIDE DEF a, b
  <2>4. /\ SubSeq(s, a, b) \in Seq(Nat)
        /\ Len(SubSeq(s, a, b)) = IF a <= b THEN b - a + 1 ELSE 0
        /\ \A i \in 1..(b - a + 1) : SubSeq(s, a, b)[i] = s[a + i - 1]
    BY <2>1, <2>2, SubSeqProperties
  <2>5. Len(SubSeq(s, a, b)) = k - 1
    BY <1>6, <2>1, <2>4
  <2>6. \A i \in 1..(k - 1) : SubSeq(s, a, b)[i] = ty[i]
    BY <2>1, <2>3, <2>4
  <2>7. SubSeq(s, a, b) = ty
    BY <1>6, <2>4, <2>5, <2>6, SeqEqual
  <2> QED BY <2>7 DEF a, b
<1> QED BY <1>8, <1>9 DEF s, z, tx, ty, m

\* At the end of a segment, the text of a path is parted into those of the
\* segments before and behind.
LEMMA TextParts ==
  ASSUME NEW p, Plain(p), NEW j \in 1..(Len(p) - 1),
         Plain(SubSeq(p, 1, j)), Plain(SubSeq(p, j + 1, Len(p)))
  PROVE  /\ SubSeq(String(p), 1, EndOf(p, j) - 1) = String(SubSeq(p, 1, j))
         /\ SubSeq(String(p), EndOf(p, j) + 1, Len(String(p))) = String(SubSeq(p, j + 1, Len(p)))
<1> DEFINE a == SubSeq(p, 1, j)
           b == SubSeq(p, j + 1, Len(p))
           x == FlatMap(delimited, a)
           y == FlatMap(delimited, b)
<1>1. \A q : Plain(q) => String(q) = Tail(FlatMap(delimited, q)) /\ FlatMap(delimited, q) \in Seq(Nat) /\ FlatMap(delimited, q) # <<>>
  <2> TAKE q
  <2>1. SUFFICES ASSUME Plain(q)
                 PROVE  String(q) = Tail(FlatMap(delimited, q)) /\ FlatMap(delimited, q) \in Seq(Nat) /\ FlatMap(delimited, q) # <<>>
    OBVIOUS
  <2>2. q \in Seq(Text) /\ q # <<>> /\ q # << <<>> >> /\ Len(q) \in Nat \ {0} /\ \A i \in 1..Len(q) : q[i] \in Text
    BY <2>1, EmptySeq DEF Plain
  <2>3. [i \in 1..Len(q) |-> <<Delimiter>> \o Escaped(q[i])] = [i \in 1..Len(q) |-> delimited[q[i]]]
    <3>1. \A i \in 1..Len(q) : delimited[q[i]] = <<Delimiter>> \o Escaped(q[i])
      BY <2>2 DEF delimited
    <3> QED BY <3>1
  <2>4. String(q) = Tail(FlatMap(delimited, q))
    BY <2>2, <2>3, Zenon DEF String, FlatMap
  <2>5. FlatMap(delimited, q) \in Seq(Nat)
    BY <2>2, SegmentPrints, FlatMapConcat
  <2>7. LaidOut(delimited, q)
    BY <2>2, SegmentPrints, Layout
  <2>6. FlatMap(delimited, q) # <<>>
    <3> DEFINE F == FlatMap(delimited, q)
               E(i) == Ends(delimited, q, i)
    <3>1. E(0) = 0 /\ E(Len(q)) = Len(F) /\ \A i \in 0..Len(q) : E(i) \in Nat /\ E(i) <= Len(F)
      BY <2>7, Zenon DEF LaidOut
    <3>2. \A i \in 1..Len(q) : E(i) = E(i - 1) + Len(delimited[q[i]])
      BY <2>7, Zenon DEF LaidOut
    <3>3. Len(delimited[q[1]]) \in Nat \ {0}
      <4>1. q[1] \in Text
        BY <2>2
      <4> QED BY <4>1, SegmentPrints DEF Text
    <3>4. E(1) = E(1 - 1) + Len(delimited[q[1]]) /\ E(1) <= Len(F) /\ E(1) \in Nat
      BY <2>2, <3>1, <3>2
    <3>5. Len(F) # 0
      <4>1. 1 - 1 = 0 /\ E(1 - 1) = 0
        BY <3>1
      <4> HIDE DEF E, F
      <4>2. Len(F) = E(Len(q)) /\ E(Len(q)) \in Nat
        BY <2>2, <3>1
      <4> QED BY <3>3, <3>4, <4>1, <4>2
    <3> HIDE DEF F
    <3> QED BY <3>5, EmptySeq DEF F
  <2> QED BY <2>4, <2>5, <2>6
<1>2. p \in Seq(Text) /\ a \in Seq(Text) /\ b \in Seq(Text)
  BY DEF Plain
<1>3. a \o b = p
  <2>1. Len(p) \in Nat
    BY <1>2
  <2>2. 1 \in 1..Len(p) + 1 /\ j \in (1 - 1)..Len(p) /\ Len(p) \in j..Len(p)
    BY <2>1
  <2>3. a \o b = SubSeq(p, 1, Len(p))
    BY <1>2, <2>2, ConcatAdjacentSubSeq
  <2> QED BY <1>2, <2>3, SubSeqFull
<1>4. String(p) = Tail(FlatMap(delimited, p)) /\ String(a) = Tail(x) /\ String(b) = Tail(y)
      /\ x \in Seq(Nat) /\ y \in Seq(Nat) /\ x # <<>> /\ y # <<>>
  <2> HIDE DEF a, b
  <2>1. Plain(a) /\ Plain(b)
    BY DEF a, b
  <2> QED BY <1>1, <2>1
<1>5. EndOf(p, j) = Len(x)
  BY DEF EndOf, Ends
<1> HIDE DEF a, b
<1>6. FlatMap(delimited, a \o b) = x \o y
  BY <1>2, SegmentPrints, FlatMapConcat
<1> HIDE DEF x, y
<1>7. String(p) = Tail(x \o y)
  BY <1>3, <1>4, <1>6
<1>8. /\ SubSeq(Tail(x \o y), 1, Len(x) - 1) = Tail(x)
      /\ SubSeq(Tail(x \o y), Len(x) + 1, Len(Tail(x \o y))) = Tail(y)
  BY <1>4, TailOfConcat
<1> QED BY <1>4, <1>5, <1>7, <1>8 DEF a, b

\* A read that walks the delimiters of a key meets its parents, each with the
\* text of what is left below it.
LEMMA DelimitersPart ==
  ASSUME NEW p \in Seq(Text), Len(p) > 0, p[1] # <<>>, p[Len(p)] # <<>>
  PROVE  {<<SubSeq(String(p), 1, i - 1), SubSeq(String(p), i + 1, Len(String(p)))>> : i \in topLevelDelims(String(p))}
           = {<<String(SubSeq(p, 1, i)), String(SubSeq(p, i + 1, Len(p)))>> : i \in 1..(Len(p) - 1)}
<1> DEFINE s == String(p)
           n == Len(p)
           cut(i) == <<SubSeq(s, 1, i - 1), SubSeq(s, i + 1, Len(s))>>
           parts(j) == <<String(SubSeq(p, 1, j)), String(SubSeq(p, j + 1, n))>>
<1>1. Plain(p) /\ n \in Nat
  BY DEF Plain
<1>2. topLevelDelims(s) = {EndOf(p, j) : j \in 1..(n - 1)}
  BY <1>1, DelimitersOf
<1>3. ASSUME NEW j \in 1..(n - 1) PROVE cut(EndOf(p, j)) = parts(j)
  <2> DEFINE a == SubSeq(p, 1, j)
             b == SubSeq(p, j + 1, n)
  <2>1. j \in Nat /\ j >= 1 /\ j + 1 <= n
    BY <1>1
  <2>2. a \in Seq(Text) /\ Len(a) = j /\ a[1] = p[1]
    <3>1. \A i \in 1..j : p[i] \in Text
      BY <1>1, <2>1
    <3>2. /\ SubSeq(p, 1, j) \in Seq(Text) /\ Len(SubSeq(p, 1, j)) = IF 1 <= j THEN j - 1 + 1 ELSE 0
          /\ \A i \in 1..(j - 1 + 1) : SubSeq(p, 1, j)[i] = p[1 + i - 1]
      BY <2>1, <3>1, SubSeqProperties
    <3>3. 1 \in 1..(j - 1 + 1) /\ 1 + 1 - 1 = 1 /\ j - 1 + 1 = j
      BY <2>1
    <3> QED BY <2>1, <3>2, <3>3
  <2>3. b \in Seq(Text) /\ Len(b) = n - j /\ b[n - j] = p[n]
    <3> DEFINE k == j + 1
    <3>1. k \in Int /\ n \in Int /\ \A i \in k..n : p[i] \in Text
      BY <1>1, <2>1
    <3>2. k <= n /\ n - k + 1 = n - j /\ n - j \in 1..(n - k + 1) /\ k + (n - j) - 1 = n
      BY <1>1, <2>1
    <3> HIDE DEF k, n
    <3>3. /\ SubSeq(p, k, n) \in Seq(Text) /\ Len(SubSeq(p, k, n)) = IF k <= n THEN n - k + 1 ELSE 0
          /\ \A i \in 1..(n - k + 1) : SubSeq(p, k, n)[i] = p[k + i - 1]
      BY <3>1, SubSeqProperties
    <3> QED BY <3>2, <3>3 DEF k
  <2> HIDE DEF a, b
  <2>4. Plain(a)
    BY <2>1, <2>2 DEF Plain
  <2>5. Plain(b)
    <3>1. n - j \in Nat /\ n - j # 0
      BY <1>1, <2>1
    <3>2. b # <<>>
      BY <2>3, <3>1
    <3>3. b = << <<>> >> => Len(b) = 1 /\ b[1] = <<>>
      OBVIOUS
    <3>4. b # << <<>> >>
      BY <2>3, <3>3
    <3> QED BY <2>3, <3>2, <3>4 DEF Plain
  <2> QED BY <1>1, <2>4, <2>5, TextParts DEF a, b
<1> HIDE DEF cut, parts, s, n
<1>4. {cut(i) : i \in topLevelDelims(s)} = {parts(j) : j \in 1..(n - 1)}
  BY <1>2, <1>3
<1> QED BY <1>4 DEF cut, parts, s, n

\* Sub gives a view the key that its owner has below the prefix.
LEMMA FullKeyOf ==
  ASSUME NEW p \in Seq(Text), Len(p) > 0
  PROVE  fullKey(SubSeq(p, 1, 1), String(Tail(p))) = String(p)
<1>1. p # <<>> /\ Len(p) \in Nat
  OBVIOUS
<1>2. Tail(p) \in Seq(Text)
  BY <1>1, HeadTailProperties
<1>3. ParsePath(String(Tail(p))) = Tail(p)
  BY <1>2, RoundTrip
<1>4. SubSeq(p, 1, 1) \o Tail(p) = p
  <2>1. 1 \in 1..Len(p) + 1 /\ 1 \in (1 - 1)..Len(p) /\ Len(p) \in 1..Len(p)
    BY <1>1
  <2>2. SubSeq(p, 1, 1) \o SubSeq(p, 1 + 1, Len(p)) = SubSeq(p, 1, Len(p))
    BY <2>1, ConcatAdjacentSubSeq
  <2>3. SubSeq(p, 1, Len(p)) = p /\ Tail(p) = SubSeq(p, 2, Len(p)) /\ 1 + 1 = 2
    BY SubSeqFull, TailIsSubSeq
  <2> QED BY <2>2, <2>3
<1> QED BY <1>3, <1>4 DEF fullKey
-----------------------------------------------------------------------------
(* The order of paths.                                                     *)

\* s and t part at i.
PartAt(s, t, i) ==
    /\ i \in 1..(Len(s) + 1)
    /\ \A j \in 1..(i - 1) : j <= Len(t) /\ s[j] = t[j]
    /\ i <= Len(s) /\ i <= Len(t) => s[i] # t[i]

\* Two sequences part at one position, whichever comes first.
LEMMA PartingIs ==
  ASSUME NEW s, NEW t, Len(s) \in Nat, Len(t) \in Nat
  PROVE  /\ PartAt(s, t, Parting(s, t))
         /\ \A i : PartAt(s, t, i) => i = Parting(s, t) /\ PartAt(t, s, i)
<1> DEFINE m == Len(s)
           n == Len(t)
           Apart == {i \in 1..(m + 1) : ~(i <= m /\ i <= n /\ s[i] = t[i])}
<1>0. m \in Nat /\ n \in Nat
  OBVIOUS
<1>1. \E i : PartAt(s, t, i)
  <2>1. m + 1 \in Apart /\ Apart \subseteq Nat
    BY <1>0
  <2>2. PICK i \in Apart : \A j \in Apart : i <= j
    <3> HIDE DEF Apart
    <3> QED BY <2>1, LeastNat
  <2>3. i \in 1..(m + 1) /\ ~(i <= m /\ i <= n /\ s[i] = t[i])
    BY <2>2
  <2>4. ASSUME NEW j \in 1..(i - 1) PROVE j <= n /\ s[j] = t[j]
    <3>1. j \in 1..(m + 1) /\ ~(i <= j)
      BY <1>0, <2>3
    <3>2. j \notin Apart
      <4> HIDE DEF Apart
      <4> QED BY <2>2, <3>1
    <3> QED BY <3>1, <3>2
  <2> QED BY <2>3, <2>4 DEF PartAt
<1>2. ASSUME NEW i, NEW k, PartAt(s, t, i), PartAt(s, t, k) PROVE ~(i < k)
  <2>1. SUFFICES ASSUME i < k PROVE FALSE
    OBVIOUS
  <2>2. i \in 1..(m + 1) /\ k \in 1..(m + 1) /\ (i <= m /\ i <= n => s[i] # t[i])
        /\ \A j \in 1..(k - 1) : j <= n /\ s[j] = t[j]
    BY <1>2 DEF PartAt
  <2>3. i \in 1..(k - 1) /\ i <= m
    BY <1>0, <2>1, <2>2
  <2> QED BY <2>2, <2>3
<1>3. PartAt(s, t, Parting(s, t))
  BY <1>1 DEF Parting, PartAt
<1>4. ASSUME NEW i, PartAt(s, t, i) PROVE i = Parting(s, t) /\ PartAt(t, s, i)
  <2>1. ~(i < Parting(s, t)) /\ ~(Parting(s, t) < i)
    BY <1>2, <1>3, <1>4
  <2>2. i \in 1..(m + 1) /\ Parting(s, t) \in 1..(m + 1) /\ (i <= m /\ i <= n => s[i] # t[i])
        /\ \A j \in 1..(i - 1) : j <= n /\ s[j] = t[j]
    BY <1>3, <1>4 DEF PartAt
  <2>3. i = Parting(s, t)
    BY <1>0, <2>1, <2>2
  <2>4. i \in 1..(n + 1)
    <3>1. CASE i = 1
      BY <1>0, <3>1
    <3>2. CASE i # 1
      <4>1. i - 1 \in 1..(i - 1)
        BY <1>0, <2>2, <3>2
      <4>2. i - 1 <= n
        BY <2>2, <4>1
      <4> QED BY <1>0, <2>2, <4>2
    <3> QED BY <3>1, <3>2
  <2>5. \A j \in 1..(i - 1) : j <= m /\ t[j] = s[j]
    BY <1>0, <2>2
  <2> QED BY <2>2, <2>3, <2>4, <2>5 DEF PartAt
<1> QED BY <1>3, <1>4

\* Sequences compare where they part, in either order.
LEMMA CompareAt ==
  ASSUME NEW s, NEW t, Len(s) \in Nat, Len(t) \in Nat, NEW i, PartAt(s, t, i)
  PROVE  /\ Compare(s, t) = IF i <= Len(s) /\ i <= Len(t) THEN Sign(s[i], t[i]) ELSE Sign(Len(s), Len(t))
         /\ Compare(t, s) = IF i <= Len(s) /\ i <= Len(t) THEN Sign(t[i], s[i]) ELSE Sign(Len(t), Len(s))
<1>1. i = Parting(s, t) /\ PartAt(t, s, i)
  BY PartingIs
<1>2. i = Parting(t, s)
  BY <1>1, PartingIs
<1> QED BY <1>1, <1>2 DEF Compare

LEMMA SignTurns ==
  \A x, y \in Int : Sign(y, x) = -Sign(x, y)
BY DEF Sign

LEMMA CompareType ==
  ASSUME NEW s \in Text, NEW t \in Text
  PROVE  Compare(s, t) \in Int
<1> DEFINE m == Parting(s, t)
<1>1. Len(s) \in Nat /\ Len(t) \in Nat /\ (\A j \in 1..Len(s) : s[j] \in Nat) /\ (\A j \in 1..Len(t) : t[j] \in Nat)
  BY DEF Text
<1>2. PartAt(s, t, m)
  BY <1>1, PartingIs
<1>3. m \in 1..(Len(s) + 1)
  BY <1>2 DEF PartAt
<1> HIDE DEF m
<1>4. Compare(s, t) = IF m <= Len(s) /\ m <= Len(t) THEN Sign(s[m], t[m]) ELSE Sign(Len(s), Len(t))
  BY <1>1, <1>2, CompareAt
<1>5. m <= Len(s) /\ m <= Len(t) => s[m] \in Nat /\ t[m] \in Nat
  BY <1>1, <1>3
<1> QED BY <1>1, <1>4, <1>5 DEF Sign

\* The order of texts is the same from either side.
LEMMA CompareTurns ==
  ASSUME NEW s \in Text, NEW t \in Text
  PROVE  Compare(t, s) = -Compare(s, t)
<1> DEFINE i == Parting(s, t)
<1>1. Len(s) \in Nat /\ Len(t) \in Nat /\ (\A j \in 1..Len(s) : s[j] \in Nat) /\ (\A j \in 1..Len(t) : t[j] \in Nat)
  BY DEF Text
<1>2. PartAt(s, t, i)
  BY <1>1, PartingIs
<1>3. i \in 1..(Len(s) + 1)
  BY <1>2 DEF PartAt
<1> HIDE DEF i
<1>4. /\ Compare(s, t) = IF i <= Len(s) /\ i <= Len(t) THEN Sign(s[i], t[i]) ELSE Sign(Len(s), Len(t))
      /\ Compare(t, s) = IF i <= Len(s) /\ i <= Len(t) THEN Sign(t[i], s[i]) ELSE Sign(Len(t), Len(s))
  BY <1>1, <1>2, CompareAt
<1>5. CASE i <= Len(s) /\ i <= Len(t)
  <2>1. s[i] \in Int /\ t[i] \in Int
    BY <1>1, <1>3, <1>5
  <2>2. Sign(t[i], s[i]) = -Sign(s[i], t[i])
    BY <2>1, SignTurns
  <2> QED BY <1>4, <1>5, <2>2
<1>6. CASE ~(i <= Len(s) /\ i <= Len(t))
  <2>1. Sign(Len(t), Len(s)) = -Sign(Len(s), Len(t))
    BY <1>1, SignTurns
  <2> QED BY <1>4, <1>6, <2>1
<1> QED BY <1>5, <1>6

\* Paths that no segment of which needs brackets.
Unbracketed(p) == Plain(p) /\ ~bracketed(p)

\* Where the i-th segment of such a path is in the text, and what comes behind it.
BareAt(p, i) ==
    LET s == String(p)
        b == EndOf(p, i - 1)
        seg == p[i]
    IN  /\ s \in Text /\ Len(s) \in Nat /\ b \in Nat /\ seg \in Text /\ Len(seg) \in Nat
        /\ \A k \in 1..Len(seg) : s[b + k] = seg[k] /\ seg[k] # Delimiter /\ seg[k] \in Nat
        /\ b + Len(seg) <= Len(s)
        /\ i = Len(p) => Len(s) = b + Len(seg)
        /\ i # Len(p) => b + Len(seg) + 1 <= Len(s) /\ s[b + Len(seg) + 1] = Delimiter

LEMMA BareSegment ==
  ASSUME NEW p, Unbracketed(p), NEW i \in 1..Len(p)
  PROVE  BareAt(p, i)
<1> DEFINE s == String(p)
           n == Len(p)
           b == EndOf(p, i - 1)
           seg == p[i]
<1>1. Plain(p) /\ Escaped(seg) = seg /\ ~needsBrackets(seg)
  BY DEF Unbracketed, bracketed, Escaped
<1>2. /\ s \in Text /\ n \in Nat \ {0} /\ Len(s) = EndOf(p, n) - 1 /\ Len(s) \in Nat
      /\ \A j \in 0..n : EndOf(p, j) \in Nat /\ EndOf(p, j) <= Len(s) + 1
      /\ \A j \in 1..n :
            /\ p[j] \in Text /\ EndOf(p, j) = EndOf(p, j - 1) + Len(Escaped(p[j])) + 1
            /\ \A k \in 1..Len(Escaped(p[j])) : s[EndOf(p, j - 1) + k] = Escaped(p[j])[k]
  BY <1>1, TextLayout
<1>3. seg \in Text /\ EndOf(p, i) = b + Len(seg) + 1 /\ \A k \in 1..Len(seg) : s[b + k] = seg[k]
  BY <1>1, <1>2
<1>4. b \in Nat /\ EndOf(p, i) <= Len(s) + 1 /\ EndOf(p, i) \in Nat
  <2>1. i - 1 \in 0..n /\ i \in 0..n
    BY <1>2
  <2> QED BY <1>2, <2>1
<1>5. Len(seg) \in Nat /\ \A k \in 1..Len(seg) : seg[k] \in Nat /\ seg[k] # Delimiter
  BY <1>1, <1>3 DEF Text, needsBrackets
<1>6. i = n => Len(s) = b + Len(seg)
  <2>1. SUFFICES ASSUME i = n PROVE Len(s) = b + Len(seg)
    OBVIOUS
  <2>2. Len(s) = EndOf(p, i) - 1 /\ EndOf(p, i) = b + Len(seg) + 1
    BY <1>2, <1>3, <2>1
  <2> HIDE DEF s, b, seg
  <2> QED BY <1>4, <1>5, <2>2
<1>7. i # n => b + Len(seg) + 1 <= Len(s) /\ s[b + Len(seg) + 1] = Delimiter
  <2>1. SUFFICES ASSUME i # n PROVE b + Len(seg) + 1 <= Len(s) /\ s[b + Len(seg) + 1] = Delimiter
    OBVIOUS
  <2>2. i \in 1..(n - 1)
    BY <1>2, <2>1
  <2>3. EndOf(p, i) \in 1..Len(s) /\ s[EndOf(p, i)] = Delimiter
    BY <1>1, <2>2, EndsGrow
  <2> HIDE DEF s, b, seg
  <2> QED BY <1>3, <1>4, <2>3
<1>8. b + Len(seg) <= Len(s)
  <2> HIDE DEF s, b, seg
  <2> QED BY <1>2, <1>3, <1>4, <1>5
<1> QED BY <1>2, <1>3, <1>4, <1>5, <1>6, <1>7, <1>8 DEF BareAt

\* Behind the segments they share, the texts of two paths have gone equally far
\* and are the same so far.
LEMMA SharedText ==
  ASSUME NEW p, NEW q, Plain(p), Plain(q), NEW m \in Nat, m <= Len(p), m <= Len(q),
         \A j \in 1..m : p[j] = q[j]
  PROVE  /\ EndOf(p, m) = EndOf(q, m)
         /\ \A x \in 1..EndOf(p, m) : x <= Len(String(p)) /\ x <= Len(String(q)) => String(p)[x] = String(q)[x]
<1> DEFINE a == SubSeq(p, 1, m)
           F == FlatMap(delimited, a)
           e == EndOf(p, m)
<1>1. p \in Seq(Text) /\ q \in Seq(Text) /\ Len(p) \in Nat /\ Len(q) \in Nat
  BY DEF Plain
<1>2. a = SubSeq(q, 1, m) /\ a \in Seq(Text)
  <2>1. (\A i \in 1..m : p[i] \in Text) /\ (\A i \in 1..m : q[i] \in Text) /\ m \in Int /\ 1 \in Int
    BY <1>1
  <2>2. /\ SubSeq(p, 1, m) \in Seq(Text) /\ Len(SubSeq(p, 1, m)) = IF 1 <= m THEN m - 1 + 1 ELSE 0
        /\ \A i \in 1..(m - 1 + 1) : SubSeq(p, 1, m)[i] = p[1 + i - 1]
    BY <2>1, SubSeqProperties
  <2>3. /\ SubSeq(q, 1, m) \in Seq(Text) /\ Len(SubSeq(q, 1, m)) = IF 1 <= m THEN m - 1 + 1 ELSE 0
        /\ \A i \in 1..(m - 1 + 1) : SubSeq(q, 1, m)[i] = q[1 + i - 1]
    BY <2>1, SubSeqProperties
  <2> DEFINE b == SubSeq(q, 1, m)
  <2>4. Len(a) = m /\ Len(b) = m
    BY <2>2, <2>3
  <2>5. \A i \in 1..m : a[i] = b[i]
    <3> TAKE i \in 1..m
    <3>1. i \in 1..(m - 1 + 1) /\ 1 + i - 1 = i
      OBVIOUS
    <3> QED BY <2>2, <2>3, <3>1
  <2>6. a \in Seq(Text) /\ b \in Seq(Text)
    BY <2>2, <2>3
  <2> HIDE DEF a, b
  <2>7. a = b
    BY <2>4, <2>5, <2>6, SeqEqual
  <2> QED BY <2>6, <2>7 DEF b
<1>3. e = Len(F) /\ EndOf(q, m) = Len(F)
  BY <1>2 DEF EndOf, Ends
<1>4. ASSUME NEW r, Plain(r), m <= Len(r), a = SubSeq(r, 1, m)
      PROVE  \A x \in 1..(Len(F) - 1) : x <= Len(String(r)) => String(r)[x] = F[x + 1]
  <2> DEFINE G == FlatMap(delimited, r)
             rest == SubSeq(r, m + 1, Len(r))
             H == FlatMap(delimited, rest)
             s == String(r)
  <2>1. r \in Seq(Text) /\ r # <<>> /\ r # << <<>> >> /\ Len(r) \in Nat \ {0} /\ \A i \in 1..Len(r) : r[i] \in Text
    BY <1>4, EmptySeq DEF Plain
  <2>2. s = Tail(G)
    <3>1. \A i \in 1..Len(r) : delimited[r[i]] = <<Delimiter>> \o Escaped(r[i])
      BY <2>1 DEF delimited
    <3>2. [i \in 1..Len(r) |-> <<Delimiter>> \o Escaped(r[i])] = [i \in 1..Len(r) |-> delimited[r[i]]]
      BY <3>1
    <3> QED BY <2>1, <3>2, Zenon DEF String, FlatMap
  <2>3. rest \in Seq(Text)
    <3>1. m + 1 \in Int /\ Len(r) \in Int /\ \A i \in (m + 1)..Len(r) : r[i] \in Text
      BY <2>1
    <3> QED BY <3>1, SubSeqProperties
  <2>4. a \o rest = r
    <3>1. 1 \in 1..Len(r) + 1 /\ m \in (1 - 1)..Len(r) /\ Len(r) \in m..Len(r)
      BY <1>4, <2>1
    <3>2. SubSeq(r, 1, m) \o SubSeq(r, m + 1, Len(r)) = SubSeq(r, 1, Len(r))
      BY <2>1, <3>1, ConcatAdjacentSubSeq
    <3> HIDE DEF a
    <3> QED BY <1>4, <2>1, <3>2, SubSeqFull
  <2> HIDE DEF a, rest
  <2>5. F \in Seq(Nat) /\ H \in Seq(Nat) /\ FlatMap(delimited, a \o rest) = F \o H
    <3>1. Printer(delimited, Text, Nat)
      BY SegmentPrints
    <3> HIDE DEF F, H
    <3>0. a \in Seq(Text) /\ rest \in Seq(Text)
      BY <1>2, <2>3
    <3>2. /\ FlatMap(delimited, a) \in Seq(Nat) /\ FlatMap(delimited, rest) \in Seq(Nat)
          /\ FlatMap(delimited, a \o rest) = FlatMap(delimited, a) \o FlatMap(delimited, rest)
      BY <3>0, <3>1, FlatMapConcat
    <3> QED BY <3>2 DEF F, H
  <2>6. G = F \o H
    BY <2>4, <2>5
  <2> HIDE DEF F, H, G
  <2>7. /\ G \in Seq(Nat) /\ Len(G) = Len(F) + Len(H) /\ Len(F) \in Nat /\ Len(H) \in Nat
        /\ \A i \in 1..(Len(F) + Len(H)) : G[i] = IF i <= Len(F) THEN F[i] ELSE H[i - Len(F)]
    BY <2>5, <2>6, ConcatProperties
  <2>8. ASSUME NEW x \in 1..(Len(F) - 1), x <= Len(s) PROVE s[x] = F[x + 1]
    <3>1. Len(G) \in Nat /\ Len(G) # 0 /\ x + 1 \in 1..(Len(F) + Len(H)) /\ x + 1 <= Len(F)
      BY <2>7
    <3>2. G # <<>>
      BY <2>7, <3>1, EmptySeq
    <3>3. Len(Tail(G)) = Len(G) - 1 /\ \A i \in 1..Len(Tail(G)) : Tail(G)[i] = G[i + 1]
      BY <2>7, <3>2, HeadTailProperties
    <3>4. x \in 1..Len(Tail(G))
      BY <2>7, <3>1, <3>3
    <3>5. s[x] = G[x + 1]
      BY <2>2, <3>3, <3>4
    <3> QED BY <2>7, <3>1, <3>5
  <2> QED BY <2>8
<1>5. \A x \in 1..(Len(F) - 1) : /\ x <= Len(String(p)) => String(p)[x] = F[x + 1]
                                 /\ x <= Len(String(q)) => String(q)[x] = F[x + 1]
  BY <1>2, <1>4
<1>6. e \in Nat
  <2>1. m \in 0..Len(p)
    BY <1>1
  <2> QED BY <2>1, TextLayout
<1>7. ASSUME NEW x \in 1..e, x <= Len(String(p)), x <= Len(String(q)) PROVE String(p)[x] = String(q)[x]
  <2>1. CASE x # e
    <3>1. x \in 1..(Len(F) - 1)
      <4> HIDE DEF F, e
      <4> QED BY <1>3, <1>6, <2>1
    <3> QED BY <1>5, <1>7, <3>1
  <2>2. CASE x = e
    <3>0. m # 0
      <4>1. SUFFICES ASSUME m = 0 PROVE FALSE
        OBVIOUS
      <4>2. EndOf(p, 0) = 0
        BY TextLayout
      <4> QED BY <2>2, <4>1, <4>2
    <3>1. m # Len(p)
      <4>1. SUFFICES ASSUME m = Len(p) PROVE FALSE
        OBVIOUS
      <4>2. Len(String(p)) = EndOf(p, Len(p)) - 1
        BY TextLayout
      <4> QED BY <1>6, <1>7, <2>2, <4>1, <4>2
    <3>2. m # Len(q)
      <4>1. SUFFICES ASSUME m = Len(q) PROVE FALSE
        OBVIOUS
      <4>2. Len(String(q)) = EndOf(q, Len(q)) - 1
        BY TextLayout
      <4> QED BY <1>3, <1>6, <1>7, <2>2, <4>1, <4>2
    <3>3. m \in 1..(Len(p) - 1) /\ m \in 1..(Len(q) - 1)
      BY <1>1, <3>0, <3>1, <3>2
    <3>4. String(p)[EndOf(p, m)] = Delimiter /\ String(q)[EndOf(q, m)] = Delimiter
      BY <3>3, EndsGrow
    <3> QED BY <1>3, <2>2, <3>4
  <2> QED BY <2>1, <2>2
<1> QED BY <1>3, <1>7

\* The paths share the segments before the i-th, the segments the bytes before
\* the k-th, the texts those up to the n-th.
SameBefore(p, q, i) == \A j \in 1..(i - 1) : p[j] = q[j]
CoveredBefore(u, v, k) == \A y \in 1..(k - 1) : y <= Len(u) /\ y <= Len(v) /\ u[y] = v[y]
SameThrough(s, t, n) == \A x \in 1..n : x <= Len(s) /\ x <= Len(t) /\ s[x] = t[x]

\* Two paths that part in their i-th segments, and these not before their k-th
\* bytes, have texts that do not part before the byte.
LEMMA SharedRun ==
  ASSUME NEW p, NEW q, Unbracketed(p), Unbracketed(q), NEW i \in 1..Len(p), i \in 1..Len(q),
         SameBefore(p, q, i), NEW k \in Nat \ {0}, CoveredBefore(p[i], q[i], k)
  PROVE  /\ EndOf(p, i - 1) = EndOf(q, i - 1) /\ EndOf(p, i - 1) \in Nat
         /\ SameThrough(String(p), String(q), EndOf(p, i - 1) + (k - 1))
<1> DEFINE s == String(p)
           t == String(q)
           b == EndOf(p, i - 1)
           c == EndOf(q, i - 1)
           u == p[i]
           v == q[i]
<1>1. Plain(p) /\ Plain(q) /\ i \in 1..Len(p) /\ i \in 1..Len(q) /\ i - 1 \in Nat /\ i - 1 <= Len(p) /\ i - 1 <= Len(q)
  BY DEF Unbracketed, Plain
<1>0. BareAt(p, i) /\ BareAt(q, i)
  BY <1>1, BareSegment
<1>2. b = c /\ \A x \in 1..b : x <= Len(s) /\ x <= Len(t) => s[x] = t[x]
  <2> DEFINE m == i - 1
  <2>1. m \in Nat /\ m <= Len(p) /\ m <= Len(q) /\ \A j \in 1..m : p[j] = q[j]
    BY <1>1 DEF SameBefore
  <2> HIDE DEF m
  <2>2. /\ EndOf(p, m) = EndOf(q, m)
        /\ \A x \in 1..EndOf(p, m) : x <= Len(String(p)) /\ x <= Len(String(q)) => String(p)[x] = String(q)[x]
    BY <1>1, <2>1, SharedText
  <2> QED BY <2>2 DEF m
<1>3. /\ b \in Nat /\ Len(u) \in Nat /\ b + Len(u) <= Len(s) /\ Len(s) \in Nat
      /\ \A y \in 1..Len(u) : s[b + y] = u[y]
  BY <1>0 DEF BareAt
<1>4. /\ c \in Nat /\ Len(v) \in Nat /\ c + Len(v) <= Len(t) /\ Len(t) \in Nat
      /\ \A y \in 1..Len(v) : t[c + y] = v[y]
  BY <1>0 DEF BareAt
<1>5. \A y \in 1..(k - 1) : y <= Len(u) /\ y <= Len(v) /\ u[y] = v[y]
  BY DEF CoveredBefore
<1> HIDE DEF s, t, b, c, u, v
<1>6. ASSUME NEW x \in 1..(b + (k - 1)) PROVE x <= Len(s) /\ x <= Len(t) /\ s[x] = t[x]
  <2>1. CASE x <= b
    <3>1. x <= Len(s) /\ x <= Len(t) /\ x \in 1..b
      BY <1>2, <1>3, <1>4, <2>1
    <3> QED BY <1>2, <3>1
  <2>2. CASE ~(x <= b)
    <3> DEFINE y == x - b
    <3>1. y \in 1..(k - 1) /\ x = b + y
      BY <1>3, <2>2
    <3> HIDE DEF y
    <3>2. y <= Len(u) /\ y <= Len(v) /\ u[y] = v[y]
      BY <1>5, <3>1
    <3>3. y \in 1..Len(u) /\ y \in 1..Len(v)
      BY <1>3, <1>4, <3>1, <3>2
    <3>4. s[x] = t[x]
      BY <1>2, <1>3, <1>4, <3>1, <3>2, <3>3
    <3>5. x <= Len(s) /\ x <= Len(t)
      BY <1>2, <1>3, <1>4, <3>1, <3>2
    <3> QED BY <3>4, <3>5
  <2> QED BY <2>1, <2>2
<1> QED BY <1>2, <1>3, <1>6 DEF s, t, b, c, SameThrough

\* Segments that part within both order the texts as their bytes do.
LEMMA SegmentsPart ==
  ASSUME NEW p, NEW q, Unbracketed(p), Unbracketed(q), NEW i \in 1..Len(p), i \in 1..Len(q),
         SameBefore(p, q, i), NEW k, PartAt(p[i], q[i], k), k <= Len(p[i]), k <= Len(q[i])
  PROVE  Compare(String(p), String(q)) = Sign(p[i][k], q[i][k])
<1> DEFINE s == String(p)
           t == String(q)
           b == EndOf(p, i - 1)
           u == p[i]
           v == q[i]
<1>1. BareAt(p, i) /\ BareAt(q, i)
  BY BareSegment
<1>2. /\ b \in Nat /\ Len(u) \in Nat /\ b + Len(u) <= Len(s) /\ Len(s) \in Nat
      /\ \A y \in 1..Len(u) : s[b + y] = u[y]
  BY <1>1 DEF BareAt
<1>3. /\ Len(v) \in Nat /\ EndOf(q, i - 1) + Len(v) <= Len(t) /\ Len(t) \in Nat
      /\ \A y \in 1..Len(v) : t[EndOf(q, i - 1) + y] = v[y]
  BY <1>1 DEF BareAt
<1>4. k \in 1..(Len(u) + 1) /\ (\A y \in 1..(k - 1) : y <= Len(u) /\ y <= Len(v) /\ u[y] = v[y]) /\ u[k] # v[k]
  <2>1. k \in 1..(Len(u) + 1) /\ \A y \in 1..(k - 1) : y <= Len(v) /\ u[y] = v[y]
    BY DEF PartAt
  <2>2. u[k] # v[k]
    BY DEF PartAt
  <2> HIDE DEF u, v
  <2>3. ASSUME NEW y \in 1..(k - 1) PROVE y <= Len(u)
    BY <1>2, <2>1
  <2> QED BY <2>1, <2>2, <2>3
<1>5. k \in Nat \ {0} /\ k \in 1..Len(u) /\ k \in 1..Len(v)
  <2>1. k \in 1..(Len(u) + 1) /\ Len(u) \in Nat /\ Len(v) \in Nat /\ k <= Len(u) /\ k <= Len(v)
    BY <1>2, <1>3, <1>4
  <2> HIDE DEF u, v
  <2> QED BY <2>1
<1>10. CoveredBefore(u, v, k)
  BY <1>4 DEF CoveredBefore
<1>6. b = EndOf(q, i - 1) /\ SameThrough(s, t, b + (k - 1))
  BY <1>5, <1>10, SharedRun
<1> HIDE DEF s, t, b, u, v
<1> DEFINE x == b + k
<1>7. /\ s[x] = u[k] /\ t[x] = v[k] /\ x <= Len(s) /\ x <= Len(t) /\ x \in 1..(Len(s) + 1)
  <2>1. s[x] = u[k] /\ t[x] = v[k]
    BY <1>2, <1>3, <1>5, <1>6
  <2>2. x <= Len(s) /\ x <= Len(t) /\ 1 <= x
    <3>1. b + Len(u) <= Len(s) /\ b + Len(v) <= Len(t) /\ Len(u) \in Nat /\ Len(v) \in Nat /\ b \in Nat
          /\ Len(s) \in Nat /\ Len(t) \in Nat
      BY <1>2, <1>3, <1>6
    <3> QED BY <1>5, <3>1
  <2>3. x \in Nat
    BY <1>2, <1>5
  <2> HIDE DEF x
  <2> QED BY <1>2, <2>1, <2>2, <2>3
<1>8. PartAt(s, t, x)
  <2>1. \A y \in 1..(x - 1) : y <= Len(t) /\ s[y] = t[y]
    <3>1. x - 1 = b + (k - 1)
      BY <1>2, <1>5
    <3> HIDE DEF x
    <3> QED BY <1>6, <3>1 DEF SameThrough
  <2> HIDE DEF x
  <2> QED BY <1>4, <1>7, <2>1 DEF PartAt
<1> HIDE DEF x
<1>9. Compare(s, t) = Sign(s[x], t[x])
  BY <1>2, <1>3, <1>7, <1>8, CompareAt
<1> QED BY <1>7, <1>9 DEF s, t, u, v

\* Of two segments one of which begins the other, the shorter is followed by the
\* delimiter, or ends the text.
LEMMA ShorterSegment ==
  ASSUME NEW p, NEW q, Unbracketed(p), Unbracketed(q), NEW i \in 1..Len(p), i \in 1..Len(q),
         SameBefore(p, q, i), NEW k, PartAt(p[i], q[i], k), ~(k <= Len(p[i])), Len(p[i]) < Len(q[i])
  PROVE  /\ Compare(String(p), String(q)) = IF i = Len(p) THEN -1 ELSE Sign(Delimiter, q[i][k])
         /\ q[i][k] \in Nat
<1> DEFINE s == String(p)
           t == String(q)
           b == EndOf(p, i - 1)
           u == p[i]
           v == q[i]
<1>1. BareAt(p, i) /\ BareAt(q, i)
  BY BareSegment
<1>2. /\ b \in Nat /\ Len(u) \in Nat /\ b + Len(u) <= Len(s) /\ Len(s) \in Nat
      /\ i = Len(p) => Len(s) = b + Len(u)
      /\ i # Len(p) => b + Len(u) + 1 <= Len(s) /\ s[b + Len(u) + 1] = Delimiter
  BY <1>1 DEF BareAt
<1>3. /\ Len(v) \in Nat /\ EndOf(q, i - 1) + Len(v) <= Len(t) /\ Len(t) \in Nat
      /\ \A y \in 1..Len(v) : t[EndOf(q, i - 1) + y] = v[y] /\ v[y] # Delimiter /\ v[y] \in Nat
  BY <1>1 DEF BareAt
<1>4. k \in 1..(Len(u) + 1) /\ \A y \in 1..(k - 1) : y <= Len(u) /\ y <= Len(v) /\ u[y] = v[y]
  <2>1. k \in 1..(Len(u) + 1) /\ \A y \in 1..(k - 1) : y <= Len(v) /\ u[y] = v[y]
    BY DEF PartAt
  <2> HIDE DEF u, v
  <2>2. ASSUME NEW y \in 1..(k - 1) PROVE y <= Len(u)
    BY <1>2, <2>1
  <2> QED BY <2>1, <2>2
<1>5. k = Len(u) + 1 /\ k \in Nat \ {0} /\ k \in 1..Len(v)
  BY <1>2, <1>3, <1>4
<1>10. CoveredBefore(u, v, k)
  BY <1>4 DEF CoveredBefore
<1>6. b = EndOf(q, i - 1) /\ SameThrough(s, t, b + (k - 1))
  BY <1>5, <1>10, SharedRun
<1> HIDE DEF s, t, b, u, v
<1> DEFINE x == b + k
<1>7. t[x] = v[k] /\ v[k] # Delimiter /\ v[k] \in Nat
  BY <1>3, <1>5, <1>6
<1>8. x <= Len(t) /\ 1 <= x /\ x \in Nat /\ x = b + Len(u) + 1 /\ x \in 1..(Len(s) + 1)
  <2>1. x \in Nat /\ x = b + Len(u) + 1 /\ 1 <= x
    BY <1>2, <1>5
  <2>2. x <= Len(t)
    BY <1>2, <1>3, <1>5, <1>6
  <2>3. x <= Len(s) + 1
    BY <1>2, <2>1
  <2> HIDE DEF x
  <2> QED BY <1>2, <2>1, <2>2, <2>3
<1>9. \A y \in 1..(x - 1) : y <= Len(t) /\ s[y] = t[y]
  <2>1. x - 1 = b + (k - 1)
    BY <1>2, <1>5
  <2> HIDE DEF x
  <2> QED BY <1>6, <2>1 DEF SameThrough
<1> HIDE DEF x
<1>20. CASE i = Len(p)
  <2>1. ~(x <= Len(s)) /\ Len(s) < Len(t)
    BY <1>2, <1>3, <1>8, <1>20
  <2>2. PartAt(s, t, x)
    BY <1>8, <1>9, <2>1 DEF PartAt
  <2>3. Compare(s, t) = Sign(Len(s), Len(t))
    BY <1>2, <1>3, <2>1, <2>2, CompareAt
  <2>4. Sign(Len(s), Len(t)) = -1
    BY <2>1 DEF Sign
  <2> QED BY <1>7, <1>20, <2>3, <2>4 DEF s, t, v
<1>11. CASE i # Len(p)
  <2>1. x <= Len(s) /\ s[x] = Delimiter
    BY <1>2, <1>8, <1>11
  <2>2. PartAt(s, t, x)
    BY <1>7, <1>8, <1>9, <2>1 DEF PartAt
  <2>3. Compare(s, t) = Sign(s[x], t[x])
    BY <1>2, <1>3, <1>8, <2>1, <2>2, CompareAt
  <2> QED BY <1>7, <1>11, <2>1, <2>3 DEF s, t, v
<1> QED BY <1>20, <1>11

\* A path comes before those it begins.
LEMMA PrefixFirst ==
  ASSUME NEW p, NEW q, p = <<>> \/ Unbracketed(p), Unbracketed(q), Len(p) < Len(q), Len(p) \in Nat,
         \A j \in 1..Len(p) : p[j] = q[j]
  PROVE  Compare(String(p), String(q)) = -1
<1> DEFINE s == String(p)
           t == String(q)
<1>1. Plain(q) /\ t \in Text /\ t # <<>> /\ Len(t) \in Nat \ {0}
  <2>1. Plain(q)
    BY DEF Unbracketed
  <2>2. t \in Text /\ t # <<>>
    BY <2>1, TextNotEmpty
  <2> QED BY <2>1, <2>2, EmptySeq DEF Text
<1>2. CASE p = <<>>
  <2>1. s = <<>> /\ Len(s) = 0
    BY <1>2 DEF String
  <2> HIDE DEF s, t
  <2>2. PartAt(s, t, 1)
    BY <2>1 DEF PartAt
  <2>3. Compare(s, t) = Sign(Len(s), Len(t))
    BY <1>1, <2>1, <2>2, CompareAt
  <2>4. Sign(Len(s), Len(t)) = -1
    BY <1>1, <2>1 DEF Sign
  <2> QED BY <2>3, <2>4 DEF s, t
<1>3. CASE Unbracketed(p)
  <2> DEFINE m == Len(p)
             e == EndOf(p, m)
  <2>1. Plain(p) /\ m \in Nat \ {0} /\ Len(q) \in Nat /\ m \in 1..(Len(q) - 1)
    <3>1. Plain(p) /\ p # <<>> /\ p \in Seq(Text) /\ Len(q) \in Nat
      BY <1>1, <1>3 DEF Unbracketed, Plain
    <3>2. m \in Nat \ {0}
      BY <3>1, EmptySeq
    <3> HIDE DEF m
    <3>3. m < Len(q)
      BY DEF m
    <3> QED BY <3>1, <3>2, <3>3
  <2>2. s \in Text /\ Len(s) = e - 1 /\ Len(s) \in Nat /\ e \in Nat
    <3>1. m \in 0..m
      BY <2>1
    <3> QED BY <2>1, <3>1, TextLayout
  <2>3. e = EndOf(q, m) /\ \A x \in 1..e : x <= Len(s) /\ x <= Len(t) => s[x] = t[x]
    BY <1>1, <2>1, SharedText
  <2>4. EndOf(q, m) \in 1..Len(t)
    BY <1>1, <2>1, EndsGrow
  <2> HIDE DEF s, t, m, e
  <2>5. Len(s) < Len(t) /\ Len(s) + 1 = e /\ ~(e <= Len(s))
    BY <1>1, <2>2, <2>3, <2>4
  <2>6. PartAt(s, t, e)
    <3>1. e \in 1..(Len(s) + 1)
      BY <2>2, <2>3, <2>4, <2>5
    <3>2. \A x \in 1..(e - 1) : x <= Len(t) /\ s[x] = t[x]
      <4> TAKE x \in 1..(e - 1)
      <4>1. x \in 1..e /\ x <= Len(s) /\ x <= Len(t)
        BY <1>1, <2>2, <2>5
      <4> QED BY <2>3, <4>1
    <3> QED BY <2>5, <3>1, <3>2 DEF PartAt
  <2>7. Compare(s, t) = Sign(Len(s), Len(t))
    BY <1>1, <2>2, <2>5, <2>6, CompareAt
  <2>8. Sign(Len(s), Len(t)) = -1
    BY <2>5 DEF Sign
  <2> QED BY <2>7, <2>8 DEF s, t
<1> QED BY <1>2, <1>3

\* The order computed segment by segment is that of the texts.
LEMMA ComparesTexts ==
  ASSUME NEW p \in Seq(Text), NEW q \in Seq(Text)
  PROVE  comparePaths(p, q) = Compare(String(p), String(q))
<1> DEFINE s == String(p)
           t == String(q)
           i == Parting(p, q)
           u == p[i]
           v == q[i]
           k == Parting(u, v)
           order == IF i > Len(p) \/ i > Len(q) THEN Sign(Len(p), Len(q))
                    ELSE IF k <= Len(u) /\ k <= Len(v) THEN Sign(u[k], v[k])
                    ELSE IF Len(u) < Len(v)
                    THEN IF i = Len(p) THEN -1 ELSE Sign(Delimiter, v[k])
                    ELSE IF i = Len(q) THEN 1 ELSE Sign(u[k], Delimiter)
<1>1. comparePaths(p, q) = IF bracketed(p) \/ bracketed(q) THEN Compare(s, t) ELSE order
  BY Zenon DEF comparePaths
<1>2. s \in Text /\ t \in Text /\ Len(s) \in Nat /\ Len(t) \in Nat
  <2>1. s \in Text /\ t \in Text
    BY RoundTrip
  <2> QED BY <2>1 DEF Text
<1>3. SUFFICES ASSUME ~bracketed(p), ~bracketed(q) PROVE order = Compare(s, t)
  <2> HIDE DEF order, s, t
  <2> QED BY <1>1 DEF s, t
<1>4. (p = <<>> \/ Unbracketed(p)) /\ (q = <<>> \/ Unbracketed(q))
  BY <1>3 DEF Unbracketed, Plain, bracketed
<1>5. Len(p) \in Nat /\ Len(q) \in Nat
  OBVIOUS
<1>6. PartAt(p, q, i)
  BY <1>5, PartingIs
<1>7. i \in 1..(Len(p) + 1) /\ \A j \in 1..(i - 1) : j <= Len(q) /\ p[j] = q[j]
  BY <1>6 DEF PartAt
<1>8. CASE i > Len(p) \/ i > Len(q)
  <2>1. order = Sign(Len(p), Len(q))
    BY <1>8
  <2> HIDE DEF i, order, s, t
  <2>2. CASE Len(p) = Len(q)
    <3>1. \A j \in 1..Len(p) : p[j] = q[j]
      <4>1. i > Len(p)
        BY <1>8, <2>2
      <4> QED BY <1>5, <1>7, <4>1
    <3>2. p = q
      BY <2>2, <3>1, SeqEqual
    <3>3. PartAt(s, s, Len(s) + 1) /\ ~(Len(s) + 1 <= Len(s))
      BY <1>2 DEF PartAt
    <3>4. Compare(s, s) = Sign(Len(s), Len(s))
      BY <1>2, <3>3, CompareAt
    <3>5. Sign(Len(s), Len(s)) = 0 /\ Sign(Len(p), Len(q)) = 0
      BY <1>2, <1>5, <2>2 DEF Sign
    <3> QED BY <2>1, <3>2, <3>4, <3>5 DEF s, t
  <2>3. CASE Len(p) < Len(q)
    <3>1. \A j \in 1..Len(p) : p[j] = q[j]
      <4>1. i > Len(p)
        BY <1>5, <1>7, <1>8, <2>3
      <4> QED BY <1>5, <1>7, <4>1
    <3>2. Unbracketed(q)
      BY <1>4, <1>5, <2>3
    <3>3. Compare(s, t) = -1
      BY <1>4, <1>5, <2>3, <3>1, <3>2, PrefixFirst DEF s, t
    <3>4. Sign(Len(p), Len(q)) = -1
      BY <2>3 DEF Sign
    <3> QED BY <2>1, <3>3, <3>4
  <2>4. CASE Len(q) < Len(p)
    <3>1. \A j \in 1..Len(q) : q[j] = p[j]
      <4>1. i > Len(q)
        BY <1>5, <1>7, <1>8, <2>4
      <4> QED BY <1>5, <1>7, <4>1
    <3>2. Unbracketed(p)
      BY <1>4, <1>5, <2>4
    <3>3. Compare(t, s) = -1
      BY <1>4, <1>5, <2>4, <3>1, <3>2, PrefixFirst DEF s, t
    <3>4. Compare(t, s) = -Compare(s, t)
      BY <1>2, CompareTurns
    <3>6. Compare(s, t) \in Int
      BY <1>2, CompareType
    <3>7. Compare(s, t) = 1
      BY <3>3, <3>4, <3>6
    <3>8. Sign(Len(p), Len(q)) = 1
      BY <1>5, <2>4 DEF Sign
    <3> QED BY <2>1, <3>7, <3>8
  <2> QED BY <1>5, <2>2, <2>3, <2>4
<1>9. CASE ~(i > Len(p) \/ i > Len(q))
  <2>1. i \in Nat \ {0} /\ i <= Len(p) /\ i <= Len(q) /\ i \in 1..Len(p) /\ i \in 1..Len(q)
    <3> HIDE DEF i
    <3> QED BY <1>5, <1>7, <1>9
  <2>2. order = IF k <= Len(u) /\ k <= Len(v) THEN Sign(u[k], v[k])
                ELSE IF Len(u) < Len(v)
                THEN IF i = Len(p) THEN -1 ELSE Sign(Delimiter, v[k])
                ELSE IF i = Len(q) THEN 1 ELSE Sign(u[k], Delimiter)
    <3> HIDE DEF i, u, v, k
    <3> QED BY <1>9
  <2> HIDE DEF i, order, s, t
  <2>3. u \in Text /\ v \in Text /\ u # v
    BY <1>6, <2>1 DEF PartAt
  <2>4. Len(u) \in Nat /\ Len(v) \in Nat
    BY <2>3 DEF Text
  <2>5. PartAt(u, v, k) /\ PartAt(v, u, k)
    <3> HIDE DEF u, v
    <3> QED BY <2>4, PartingIs
  <2>6. Unbracketed(p) /\ Unbracketed(q)
    <3>1. p # <<>> /\ q # <<>>
      BY <1>5, <2>1
    <3> QED BY <1>4, <3>1
  <2>7. SameBefore(p, q, i) /\ SameBefore(q, p, i)
    BY <1>7 DEF SameBefore
  <2>8. k \in 1..(Len(u) + 1) /\ \A j \in 1..(k - 1) : j <= Len(v) /\ u[j] = v[j]
    BY <2>5 DEF PartAt
  <2> HIDE DEF k
  <2>9. CASE k <= Len(u) /\ k <= Len(v)
    <3>1. Compare(s, t) = Sign(u[k], v[k])
      BY <2>1, <2>5, <2>6, <2>7, <2>9, SegmentsPart DEF s, t
    <3> HIDE DEF u, v
    <3> QED BY <2>2, <2>9, <3>1
  <2>10. CASE ~(k <= Len(u)) /\ Len(u) < Len(v)
    <3>1. Compare(s, t) = IF i = Len(p) THEN -1 ELSE Sign(Delimiter, v[k])
      BY <2>1, <2>5, <2>6, <2>7, <2>10, ShorterSegment DEF s, t
    <3> HIDE DEF u, v
    <3> QED BY <2>2, <2>10, <3>1
  <2>11. CASE ~(k <= Len(v)) /\ Len(v) < Len(u)
    <3>1. Compare(t, s) = (IF i = Len(q) THEN -1 ELSE Sign(Delimiter, u[k])) /\ u[k] \in Nat
      BY <2>1, <2>5, <2>6, <2>7, <2>11, ShorterSegment DEF s, t
    <3> HIDE DEF u, v
    <3>2. order = IF i = Len(q) THEN 1 ELSE Sign(u[k], Delimiter)
      BY <2>2, <2>4, <2>11
    <3>3. Compare(s, t) = -Compare(t, s)
      BY <1>2, CompareTurns
    <3>4. Sign(u[k], Delimiter) = -Sign(Delimiter, u[k])
      BY <3>1, SignTurns DEF Delimiter
    <3>5. CASE i = Len(q)
      <4>1. order = 1 /\ Compare(t, s) = -1
        BY <3>1, <3>2, <3>5
      <4>2. Compare(s, t) \in Int /\ Compare(t, s) = -Compare(s, t)
        BY <1>2, CompareType, CompareTurns
      <4>3. Compare(s, t) = 1
        BY <4>1, <4>2
      <4> QED BY <4>1, <4>3
    <3>6. CASE i # Len(q)
      BY <3>1, <3>2, <3>3, <3>4, <3>6
    <3> QED BY <3>5, <3>6
  <2>12. \/ k <= Len(u) /\ k <= Len(v)
         \/ ~(k <= Len(u)) /\ Len(u) < Len(v)
         \/ ~(k <= Len(v)) /\ Len(v) < Len(u)
    <3> HIDE DEF u, v
    <3>1. SUFFICES ASSUME ~(k <= Len(u) /\ k <= Len(v)), ~(~(k <= Len(u)) /\ Len(u) < Len(v)),
                          ~(~(k <= Len(v)) /\ Len(v) < Len(u))
                   PROVE  FALSE
      OBVIOUS
    <3>2. k - 1 <= Len(v)
      <4>1. k = 1 \/ k - 1 \in 1..(k - 1)
        BY <2>4, <2>8
      <4>2. k = 1 => k - 1 <= Len(v)
        BY <2>4
      <4> QED BY <2>8, <4>1, <4>2
    <3>3. k \in Nat /\ k - 1 <= Len(u)
      BY <2>4, <2>8
    <3>4. Len(u) = Len(v) /\ k = Len(u) + 1
      BY <2>4, <3>1, <3>2, <3>3
    <3>5. \A j \in 1..Len(u) : u[j] = v[j]
      BY <2>4, <2>8, <3>4
    <3>6. u = v
      <4>1. u \in Seq(Nat) /\ v \in Seq(Nat)
        BY <2>3 DEF Text
      <4> QED BY <3>4, <3>5, <4>1, SeqEqual
    <3> QED BY <2>3, <3>6
  <2> QED BY <2>9, <2>10, <2>11, <2>12
<1> QED BY <1>8, <1>9
=============================================================================

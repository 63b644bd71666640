------------------------------ MODULE PathText ------------------------------
(***************************************************************************)
(* The text of a path (path.go): the canonical string under which the      *)
(* registry keys every map, its parser, the order that compares two paths  *)
(* without rendering them, and the delimiters that a read walks to find    *)
(* the parents of a key.  The other modules use the sequence of segments   *)
(* in place of the text; that this is sound is what is checked here.       *)
(*                                                                         *)
(* A string is the sequence of its bytes.                                  *)
(***************************************************************************)
EXTENDS Integers, Sequences, SequencesExt

Delimiter == 46         \* .
LeftBracket == 91       \* [
RightBracket == 93      \* ]

\* Mutant: the escape of a closing bracket is not skipped.
closingBracketFirst(s, from) ==
    LET ends == {j \in from..Len(s) : s[j] = RightBracket}
    IN  IF ends = {} THEN 0 ELSE CHOOSE j \in ends : \A k \in ends : j <= k

\* The position of the bracket closing a segment that starts at from, past
\* doubled ones; 0 without one.
closingBracket(s, from) ==
    LET scan[j \in from..(Len(s) + 2)] ==
            IF j > Len(s) THEN 0
            ELSE IF s[j] # RightBracket THEN scan[j + 1]
            ELSE IF j < Len(s) /\ s[j + 1] = RightBracket THEN scan[j + 2]
            ELSE j
    IN  scan[from]

Bracketed(s, i) == s[i] = LeftBracket /\ closingBracket(s, i + 1) # 0

Doubled(seg) == FlattenSeq([i \in 1..Len(seg) |-> IF seg[i] = RightBracket THEN <<seg[i], seg[i]>> ELSE <<seg[i]>>])
Halved(s) ==
    LET rest[i \in 1..(Len(s) + 2)] ==
            IF i > Len(s) THEN <<>>
            ELSE <<s[i]>> \o rest[IF s[i] = RightBracket /\ i < Len(s) /\ s[i + 1] = RightBracket THEN i + 2 ELSE i + 1]
    IN  rest[1]

\* The segments of s, an unclosed bracket standing for itself.
ParsePath(s) ==
    LET lengthen(text, path) == <<text \o Head(path)>> \o Tail(path)
        \* what follows position i, its first segment the rest of the one at i
        after[i \in 1..(Len(s) + 1)] ==
            IF i > Len(s) THEN << <<>> >>
            ELSE IF Bracketed(s, i)
            THEN LET end == closingBracket(s, i + 1)
                 IN  lengthen(Halved(SubSeq(s, i + 1, end - 1)), after[end + 1])
            ELSE IF s[i] = Delimiter THEN << <<>> >> \o after[i + 1]
            ELSE lengthen(<<s[i]>>, after[i + 1])
    IN  IF s = <<>> THEN <<>> ELSE after[1]

needsBrackets(seg) == \E i \in 1..Len(seg) : seg[i] \in {Delimiter, LeftBracket}

Escaped(seg) == IF needsBrackets(seg) THEN <<LeftBracket>> \o Doubled(seg) \o <<RightBracket>> ELSE seg

String(p) ==
    IF p = <<>> THEN <<>>
    ELSE IF p = << <<>> >> THEN <<LeftBracket, RightBracket>>
    ELSE Tail(FlattenSeq([i \in 1..Len(p) |-> <<Delimiter>> \o Escaped(p[i])]))

\* strings.Compare and cmp.Compare.
Sign(x, y) == IF x < y THEN -1 ELSE IF x > y THEN 1 ELSE 0
\* Where two sequences part: the first position that they do not share.
Parting(s, t) ==
    CHOOSE i \in 1..(Len(s) + 1) :
        /\ \A j \in 1..(i - 1) : j <= Len(t) /\ s[j] = t[j]
        /\ i <= Len(s) /\ i <= Len(t) => s[i] # t[i]
Compare(s, t) ==
    LET i == Parting(s, t)
    IN  IF i <= Len(s) /\ i <= Len(t) THEN Sign(s[i], t[i]) ELSE Sign(Len(s), Len(t))

bracketed(p) == p = << <<>> >> \/ \E i \in 1..Len(p) : needsBrackets(p[i])

\* The order of the forms, segment by segment: where one segment is a prefix
\* of the other, the shorter is followed by the delimiter or ends its path.
comparePaths(p, q) ==
    LET i == Parting(p, q)
        k == Parting(p[i], q[i])
    IN  IF bracketed(p) \/ bracketed(q) THEN Compare(String(p), String(q))
        ELSE IF i > Len(p) \/ i > Len(q) THEN Sign(Len(p), Len(q))
        ELSE IF k <= Len(p[i]) /\ k <= Len(q[i]) THEN Sign(p[i][k], q[i][k])
        ELSE IF Len(p[i]) < Len(q[i])
        THEN IF i = Len(p) THEN -1 ELSE Sign(Delimiter, q[i][k])
        ELSE IF i = Len(q) THEN 1 ELSE Sign(p[i][k], Delimiter)

\* The delimiters between two segments.
topLevelDelims(s) ==
    LET delims[i \in 1..(Len(s) + 1)] ==
            IF i > Len(s) THEN {}
            ELSE IF Bracketed(s, i) THEN delims[closingBracket(s, i + 1) + 1]
            ELSE IF s[i] = Delimiter THEN {i} \cup delims[i + 1]
            ELSE delims[i + 1]
    IN  delims[1]

\* Sub: keys of a view, under its prefix.
fullKey(prefix, key) == String(prefix \o ParsePath(key))
=============================================================================

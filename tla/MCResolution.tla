---------------------------- MODULE MCResolution ----------------------------
(***************************************************************************)
(* Every combination of a small set of layers, resolved once; and small    *)
(* paths, printed, parsed and compared.                                    *)
(***************************************************************************)
EXTENDS Snapshots

\* Segments are numbered in string order.
a == <<1>>
ab == <<1, 2>>
abc == <<1, 2, 3>>
ac == <<1, 3>>
a_b == <<4>>          \* the flat spelling of a.b: same environment variable
old == <<5>>          \* the former name of a key
oldb == <<5, 2>>

MCUniverse == {a, ab, abc, ac, a_b, old}
MCKeyLess(x, y) ==
    \E i \in 1..(Len(y)) : /\ SubSeq(x, 1, i - 1) = SubSeq(y, 1, i - 1)
                           /\ Len(x) < i \/ x[i] < y[i]
MCNativeKey(s, k) == IF s = "env" /\ k = a_b THEN ab ELSE k

V1 == Scalar(1)
V2 == Scalar(2)

\* A layer given as a set of <<key, value>> pairs.
Layer(pairs) == [k \in {p[1] : p \in pairs} |-> (CHOOSE p \in pairs : p[1] = k)[2]]

MCExplicits == {Layer(x) : x \in
    {{}, {<<a, V1>>}, {<<ab, V1>>}, {<<a, Null>>, <<ab, V1>>},
     {<<a, EmptyMap>>, <<ab, V1>>}, {<<a, MapOf(Layer({<<<<2>>, V1>>}))>>},
     {<<a, MapOf(Layer({<<<<2>>, V1>>}))>>, <<ab, V2>>}, {<<old, V1>>}}}
MCDefaults == {Layer(x) : x \in {{}, {<<a, V2>>}, {<<abc, V2>>}, {<<ac, V2>>}, {<<a, V2>>, <<ac, V2>>}, {<<a, EmptyMap>>}}}
MCFileTrees == {Layer(x) : x \in
    {{}, {<<a, Null>>}, {<<a, V2>>}, {<<ab, V2>>}, {<<abc, V2>>}, {<<a, EmptyMap>>},
     {<<a, MapOf(Layer({<<<<2>>, V2>>}))>>}, {<<a, MapOf(Layer({<<<<2, 3>>, V2>>}))>>},
     {<<old, V2>>}, {<<oldb, V2>>}, {<<a_b, V2>>}}}
MCEnvVars == {Layer(x) : x \in {{}, {<<ab, V1>>}, {<<a, V1>>}, {<<a, V1>>, <<ab, V2>>}, {<<abc, V1>>}, {<<old, V1>>}}}
\* What is an alias, what is pinned, and what a bind has asked for.
Unpinned == {EmptyFn} \X {{}, {a_b}, {a}}
Pinned == {<<Layer({<<a, "env">>}), {a}>>, <<Layer({<<ab, "file">>}), {a_b}>>}
MCRequests ==
    ({EmptyFn, Layer({<<old, a>>})} \X (Unpinned \cup Pinned))
        \cup ({Layer({<<old, ab>>})} \X Unpinned)
        \cup ({Layer({<<a, old>>}), Layer({<<ab, old>>})} \X (Unpinned \ {<<EmptyFn, {a_b}>>}))

\* For MergeAppend: slices and maps of slices in three layers.
L(n) == SliceOf(<<n>>)
AppendExplicits == {EmptyFn, Layer({<<a, L(9)>>})}
AppendDefaults == {Layer(x) : x \in {{}, {<<a, L(3)>>}, {<<ab, L(3)>>}, {<<a, MapOf(Layer({<<<<2>>, L(3)>>}))>>}}}
AppendFileTrees == {Layer(x) : x \in
    {{}, {<<a, L(2)>>}, {<<a, V2>>}, {<<ab, L(2)>>}, {<<a, MapOf(Layer({<<<<2>>, L(2)>>}))>>}, {<<a, EmptyMap>>}, {<<old, L(2)>>}}}
AppendEnvVars == {Layer(x) : x \in {{}, {<<a, L(1)>>}, {<<a, V1>>}, {<<ab, L(1)>>}, {<<old, L(1)>>},
    {<<a, MapOf(Layer({<<<<2>>, L(1)>>, <<<<3>>, V1>>}))>>}}}

Combinations(append, explicits, defaults, fileTrees, envVars) ==
    UNION {[sources : {<<"env", "file">>, <<"file", "env">>},
            view : {[env |-> EnvContent("env", e, {a, ab, abc, old}), file |-> MapContent(f)] :
                       e \in envVars, f \in fileTrees},
            explicits : explicits, defaults : defaults, aliases : {q[1]},
            pins : {q[2][1]}, bound : {q[2][2]}, append : {append}] : q \in MCRequests}

MCLayerings ==
    Combinations(FALSE, MCExplicits, MCDefaults, MCFileTrees, MCEnvVars)
        \cup Combinations(TRUE, AppendExplicits, AppendDefaults, AppendFileTrees, AppendEnvVars)

MCSegment == 1..5
MCSaves == {<<<<>>, {}, {}>>, <<a, {}, {}>>, <<ab, {}, {}>>, <<<<>>, {"env"}, {a}>>}
MCMarkings == {<<{ab}, <<>>, FALSE>>, <<{old}, a, TRUE>>}

\* Two paths: short ones of every character that matters to the parser, or of
\* those around the delimiter in byte order.
Segments(n, bytes) == UNION {[1..m -> bytes] : m \in 0..n}
Paths(n, segs) == UNION {[1..m -> segs] : m \in 0..n}
ParsedPaths == Paths(2, Segments(3, {97, Delimiter, LeftBracket, RightBracket}))
                 \cup Paths(3, Segments(1, {97, Delimiter, LeftBracket, RightBracket}))
OrderedPaths == Paths(2, Segments(2, {45, 97, LeftBracket}))
MCPathPairs == {<<p, <<>>>> : p \in ParsedPaths} \cup (OrderedPaths \X OrderedPaths)
=============================================================================

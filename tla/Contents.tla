------------------------------ MODULE Contents ------------------------------
(***************************************************************************)
(* What the two shapes of source hold, as the [get, keys] records that     *)
(* Resolution reads: a tree decoded from a file or given as a map          *)
(* (source_map.go), and a flat set of native names such as environment     *)
(* variables (source_env.go).                                              *)
(***************************************************************************)
EXTENDS Resolution

CONSTANT Universe       \* the keys a client asks for

\* leaves: partial function from leaf paths to values, no leaf below
\* another.  Get of an intermediate path returns the section as a map.  Keys
\* enumerates the leaves only, and an empty map[string]any is none: Get finds
\* it and nothing lists it.  (A leaf that is itself a map is one of another Go
\* type, such as map[string]string: listed, and Get does not look into it.)
MapContent(leaves) ==
    LET paths == UNION {{SubSeq(p, 1, n) : n \in 1..Len(p)} : p \in DOMAIN leaves}
    IN  [get  |-> [k \in paths |-> entryIn(MapOf(leaves), k)],
         keys |-> {p \in DOMAIN leaves : leaves[p] # EmptyMap}]

\* vars: partial function from native names to values.  Get transforms any
\* path into a name; Keys parses the names back, each into one of parsed.
EnvContent(s, vars, parsed) ==
    [get  |-> [k \in {u \in Universe : NativeKey(s, u) \in DOMAIN vars} |->
                  vars[NativeKey(s, k)]],
     keys |-> {k \in parsed : NativeKey(s, k) \in DOMAIN vars}]
=============================================================================

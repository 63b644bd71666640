------------------------------- MODULE MCBind -------------------------------
(***************************************************************************)
(* Binds of small structs: keys port and max_conns, which an environment   *)
(* source answers without enumerating, and old, a former name of port.     *)
(***************************************************************************)
EXTENDS Bind, TLC

port == <<1>>
maxConns == <<2>>
old == <<5>>
MCKeys == {port, maxConns, old}
MCKeyLess(x, y) == x[1] < y[1]
MCNativeKey(s, k) == k

V1 == Scalar(1)
V2 == Scalar(2)
Bad == Scalar(9)
MCValues == {V1, V2, Bad}
NoBad(m) == \A p \in DOMAIN m.at : m.at[p] # Bad

Flat(f) == [get |-> f, keys |-> DOMAIN f]
Unlisted(f) == [get |-> f, keys |-> {}]
MCContents == [env |-> {Unlisted(maxConns :> V1)},
               file |-> {Flat(port :> V1), Flat(port :> V2)}]
FileOnly == <<"file">>
Both == <<"env", "file">>
None == <<>>
FileFirst == <<"other", "file">>

Plain(k) == [key |-> k, aliases |-> <<>>, mode |-> "exact", source |-> "", fits |-> MCValues,
             required |-> FALSE, hasDefault |-> FALSE, immutable |-> FALSE, secret |-> FALSE,
             deprecated |-> FALSE, unset |-> FALSE]

\* An immutable secret port that is unset after the bind, and max_conns.
TaggedFields == <<[Plain(port) EXCEPT !.immutable = TRUE, !.secret = TRUE, !.unset = TRUE],
                  [Plain(maxConns) EXCEPT !.deprecated = TRUE, !.hasDefault = TRUE]>>
BindOps == {[op |-> "Set", key |-> port, val |-> V2], [op |-> "Reload"],
            [op |-> "RegisterAlias", alias |-> port, canonical |-> maxConns]}

\* A field found only at its second spelling, which no source enumerates.
SpelledFields == <<[Plain(old) EXCEPT !.aliases = <<maxConns>>, !.source = "file", !.required = TRUE]>>
MCStructs == {TaggedFields, SpelledFields, <<>>}

\* Two related settings.
PairStructs == {<<Plain(port), Plain(maxConns)>>}
PairContents == [env |-> {Flat(EmptyFn)}, file |-> {Flat(port :> V1 @@ maxConns :> V1)}]
PairOps == {[op |-> "SetValues", vals |-> (port :> V2 @@ maxConns :> V2)]}

\* An immutable field, found under its former name.
ImmutableStructs == {<<[Plain(port) EXCEPT !.immutable = TRUE, !.aliases = <<old>>]>>}
SetOps == {[op |-> "Set", key |-> port, val |-> V2]}
FormerContents == [env |-> {Flat(EmptyFn)}, file |-> {Flat(old :> V1)}]
=============================================================================

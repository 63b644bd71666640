----------------------------- MODULE MCRegistry -----------------------------
(***************************************************************************)
(* Small registries: an environment source and a file source, keys a.b,    *)
(* old and older, a validator that refuses the value Bad.                  *)
(***************************************************************************)
EXTENDS Registry, TLC

ab == <<1, 2>>
old == <<5>>
older == <<6>>
MCKeys == {ab, old, older}
MCKeyLess(x, y) == x[1] < y[1]
MCNativeKey(s, k) == k

V1 == Scalar(1)
Bad == Scalar(2)
V3 == Scalar(3)
MCValues == {V1, Bad, V3}

\* Schemas: no value Bad; and, for a registry that starts empty, a.b required.
NoBad(m) == \A p \in DOMAIN m.at : m.at[p] # Bad
NoBadRequired(m) == NoBad(m) /\ ab \in DOMAIN m.at

Flat(f) == [get |-> f, keys |-> DOMAIN f]
MCContents == [env |-> {Flat(old :> V1)}, file |-> {Flat(ab :> V1), Flat(ab :> Bad)}]

FileOnly == <<"file">>
Both == <<"env", "file">>
None == <<>>

\* Writes a validator refuses and writes it accepts, a three-key alias cycle,
\* and sources that come and go.
RegistryOps ==
    {[op |-> "Set", key |-> ab, val |-> Bad], [op |-> "Set", key |-> old, val |-> Absent],
          [op |-> "SetDefault", key |-> ab, val |-> V1],
          [op |-> "SetValues", vals |-> (old :> V1 @@ ab :> Absent)],
          [op |-> "SetDefaults", vals |-> (old :> V1 @@ ab :> Bad)],
          [op |-> "Unset", key |-> old]}
    \cup {[op |-> "RegisterAlias", alias |-> old, canonical |-> ab],
          [op |-> "RegisterAlias", alias |-> ab, canonical |-> older],
          [op |-> "RegisterAlias", alias |-> older, canonical |-> old]}
    \cup {[op |-> "PinSource", key |-> ab, src |-> "file"]}
    \cup {[op |-> "AddSource", src |-> "file"]}
    \cup {[op |-> "InsertSource", at |-> -1, src |-> "env"], [op |-> "RemoveSource", src |-> "file"]}
    \cup {[op |-> "Unpin", key |-> ab], [op |-> "Reload"], [op |-> "DrainWarnings"],
          [op |-> "MarkSecret", key |-> ab]}

AddOps == {[op |-> "AddSource", src |-> "env"]}
=============================================================================

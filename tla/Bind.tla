-------------------------------- MODULE Bind --------------------------------
(***************************************************************************)
(* Registry.Bind beside the registry's other operations (registry_bind.go, *)
(* bind_walker.go).  A bind takes no lock for its whole length: it loads   *)
(* the snapshot once to find the paths nothing answers yet, takes the lock *)
(* to remember them, then loads the snapshot again for every read of every *)
(* field, and takes the lock anew for each baseline, warning and unset.    *)
(***************************************************************************)
EXTENDS Registry

CONSTANTS
    Binders,            \* goroutines that call Bind
    Structs             \* target structs, each the sequence of its leaf fields:
                        \*   key, aliases (the tag's, in order), mode, source,
                        \*   fits (the values that convert to its type), and the
                        \*   tags required, hasDefault, immutable, secret,
                        \*   deprecated, unset

VARIABLES
    bind,               \* the walk each binder is in
    consulted           \* every key a bind has read

bindVars == <<vars, bind, consulted>>

NotStarted == [step |-> "idle", fields |-> <<>>, missing |-> {}, i |-> 1, j |-> 1,
               got |-> <<>>, loads |-> <<>>]
FieldKeys(fields) == {fields[i].key : i \in DOMAIN fields}
                         \cup UNION {ToSet(fields[i].aliases) : i \in DOMAIN fields}

\* A target struct is a sequence of fields, whose keys are keys in play.
ASSUME BindAssumption ==
    \A fields \in Structs :
        /\ Len(fields) \in Nat /\ DOMAIN fields = 1..Len(fields)
        /\ FieldKeys(fields) \subseteq Keys

SecretFields(fields) == {fields[i].key : i \in {n \in DOMAIN fields : fields[n].secret}}

BindInit ==
    /\ Init
    /\ bind = [b \in Binders |-> NotStarted]
    /\ consulted = {}

Goto(b, st) == bind' = [bind EXCEPT ![b] = st]

\* collectPaths on one load of the snapshot.
BindStart(b, fields) ==
    LET missing == IF snapshot = NoSnapshot THEN {}
                   ELSE {k \in FieldKeys(fields) : ~answers(snapshot.res, k)}
    IN  /\ phase = "open"
        /\ bind[b].step \in {"idle", "done"}
        /\ Goto(b, [NotStarted EXCEPT !.step = IF missing # {} THEN "bound"
                                              ELSE IF fields = <<>> THEN "finish" ELSE "read",
                                      !.fields = fields, !.missing = missing])
        /\ UNCHANGED <<vars, consulted>>

anySourceHas(ks) == \E s \in ToSet(layers.sources) : ks \cap DOMAIN contents[s].get # {}

\* Mutant of addBoundPaths: remembered, but left for the next rebuild.
addBoundPathsLazily(missing) ==
    /\ layers' = WithBound(layers.bound \cup missing)
    /\ UNCHANGED <<contents, swaps, snapshot, built, released>>

\* addBoundPaths: the missing paths are remembered; the snapshot is rebuilt
\* only when a source answers one of the new ones.
addBoundPaths(missing) ==
    LET added == missing \ layers.bound
        grown == WithBound(layers.bound \cup added)
    IN  IF added # {} /\ anySourceHas(added)
        THEN Transaction(grown, layers, released)
        ELSE layers' = grown /\ UNCHANGED <<contents, swaps, snapshot, built, released>>

BindAddBound(b) ==
    /\ bind[b].step = "bound"
    /\ addBoundPaths(bind[b].missing)
    /\ Goto(b, [bind[b] EXCEPT !.step = "read"])
    /\ UNCHANGED <<phase, secretKeys, baseline, warnings, job, consulted>>

\* The field is settled with result r; loaded is the snapshot it was read in.
Settle(st, r, loaded, step) ==
    [st EXCEPT !.step = step, !.got = Append(@, r), !.loads = Append(@, loaded)]
\* On to the next field, or to the end of the walk.
Advance(st) ==
    [st EXCEPT !.step = IF st.i = Len(st.fields) THEN "finish" ELSE "read", !.i = @ + 1, !.j = 1]

\* lookup, one load of the snapshot per spelling: the field's key first,
\* then the tag's aliases.
lookupSnapshot(k, mode) == IF snapshot = NoSnapshot THEN NotFound ELSE read(snapshot.res, k, mode)

Spellings(f) == <<f.key>> \o f.aliases

\* What bindLeaf makes of a hit at the j-th spelling: source= refuses a hit
\* at the key itself from another source, and a null does not satisfy
\* required or default=.
Found(f, j, hit) ==
    IF \/ j = 1 /\ f.source # "" /\ hit.src # f.source
       \/ (f.required \/ f.hasDefault) /\ hit.val = Null
    THEN NotFound ELSE hit

\* A field nothing was found for: its default, if any, is assigned, which
\* is a successful bind as far as unset is concerned.
NothingFound(st, loaded) ==
    LET f == st.fields[st.i]
    IN  IF f.hasDefault /\ f.unset THEN Settle(st, NotFound, loaded, "unset")
        ELSE Advance(Settle(st, NotFound, loaded, "read"))

BindRead(b) ==
    LET st == bind[b]
        f == st.fields[st.i]
        hit == lookupSnapshot(Spellings(f)[st.j], f.mode)
        found == Found(f, st.j, hit)
    IN  /\ st.step = "read"
        /\ \/ /\ hit = NotFound /\ st.j < Len(Spellings(f))
              /\ Goto(b, [st EXCEPT !.j = @ + 1])
           \/ /\ hit = NotFound /\ st.j = Len(Spellings(f))
              /\ Goto(b, NothingFound(st, snapshot))
           \/ /\ hit # NotFound
              /\ Goto(b, IF found = NotFound THEN NothingFound(st, snapshot)
                         ELSE Settle(st, found, snapshot, "note"))
        /\ UNCHANGED <<vars, consulted>>

\* markImmutable: the first value seen is the baseline for good.
markImmutable(k, v) == baseline' = IF k \in DOMAIN baseline THEN baseline ELSE Put(baseline, k, v)

\* noteFound: the baseline and the deprecation warning (two critical
\* sections on state nothing reads together).  Then the value is converted;
\* only a conversion that succeeds reaches unset.
BindNote(b) ==
    LET st == bind[b]
        f == st.fields[st.i]
        hit == st.got[st.i]
    IN  /\ st.step = "note"
        /\ IF f.immutable THEN markImmutable(f.key, hit.val) ELSE UNCHANGED baseline
        /\ warnings' = IF f.deprecated THEN warnings \cup {[path |-> f.key, src |-> hit.src]} ELSE warnings
        /\ Goto(b, IF f.unset /\ hit.val \in f.fits THEN [st EXCEPT !.step = "unset"] ELSE Advance(st))
        /\ UNCHANGED <<phase, layers, contents, swaps, secretKeys, snapshot, built, released,
                       job, consulted>>

\* applyPostBind: Registry.Unset of the field's key, its error ignored: the
\* unlocked closed check, then the critical section.
BindUnset(b) ==
    /\ bind[b].step = "unset"
    /\ Goto(b, IF phase = "open" THEN [bind[b] EXCEPT !.step = "unsetting"] ELSE Advance(bind[b]))
    /\ UNCHANGED <<vars, consulted>>

BindUnsetLocked(b) ==
    LET k == bind[b].fields[bind[b].i].key
    IN  /\ bind[b].step = "unsetting"
        /\ IF k \in DOMAIN layers.explicits
           THEN Transaction(UnsetLayers(k), UnsetRollback(k), released)
           ELSE UNCHANGED <<layers, contents, swaps, snapshot, built, released>>
        /\ Goto(b, Advance(bind[b]))
        /\ UNCHANGED <<phase, secretKeys, baseline, warnings, job, consulted>>

\* The closed check of markSecrets, then the lock; recordConsulted last.
BindFinish(b) ==
    /\ bind[b].step = "finish"
    /\ Goto(b, [bind[b] EXCEPT !.step = IF SecretFields(bind[b].fields) # {} /\ phase = "open"
                                        THEN "mark" ELSE "record"])
    /\ UNCHANGED <<vars, consulted>>

BindMark(b) ==
    /\ bind[b].step = "mark"
    /\ MarkSecrets(SecretFields(bind[b].fields))
    /\ Goto(b, [bind[b] EXCEPT !.step = "record"])
    /\ UNCHANGED <<phase, layers, contents, swaps, baseline, warnings, built, released,
                   job, consulted>>

BindRecord(b) ==
    /\ bind[b].step = "record"
    /\ consulted' = consulted \cup FieldKeys(bind[b].fields)
    /\ Goto(b, [bind[b] EXCEPT !.step = "done"])
    /\ UNCHANGED vars

BindStep(b) ==
    \/ \E fields \in Structs : BindStart(b, fields)
    \/ BindAddBound(b) \/ BindRead(b) \/ BindNote(b)
    \/ BindUnset(b) \/ BindUnsetLocked(b)
    \/ BindFinish(b) \/ BindMark(b) \/ BindRecord(b)

BindNext ==
    \/ RegistryNext /\ UNCHANGED <<bind, consulted>>
    \/ \E b \in Binders : BindStep(b)

BindSpec == BindInit /\ [][BindNext]_bindVars
-----------------------------------------------------------------------------
Agrees(snap, k, v) == read(snap, k, IF IsMap(v) THEN "section" ELSE "exact").val = v

\* What the walk would find for field f, had it read only snapshot s.
FieldIn(s, f) ==
    LET hits == {j \in DOMAIN Spellings(f) : read(s.res, Spellings(f)[j], f.mode) # NotFound}
        first == CHOOSE j \in hits : \A n \in hits : j <= n
    IN  IF hits = {} THEN NotFound ELSE Found(f, first, read(s.res, Spellings(f)[first], f.mode))

\* No rebuild installs values that change or drop a baselined key, whoever
\* runs it and however binds and writes interleave: each newly installed
\* resolution agrees with every baseline recorded by then
\* (checkImmutableLocked).
InstallKeepsBaselines ==
    [][snapshot' # snapshot /\ snapshot' # NoSnapshot /\ built' # built =>
          \A p \in DOMAIN baseline : Agrees(snapshot'.res, p, baseline[p])]_bindVars

\* "a later rebuild that changes it is rejected": a rebuild when neither the
\* layers nor the contents changed since the installed one is accepted.
UnchangedRebuildAccepted ==
    snapshot # NoSnapshot /\ built.view = contents
        => Accepts(buildSnapshot(Inputs(layers, contents)))

\* "Bind populates target from the current snapshot": the bound struct is
\* what some one of the snapshots loaded during the walk holds.
BindOfOneSnapshot ==
    \A b \in Binders :
        /\ bind[b].step = "done"
        /\ \A n \in DOMAIN bind[b].loads : bind[b].loads[n] # NoSnapshot
        => \E m \in DOMAIN bind[b].loads : \A i \in DOMAIN bind[b].fields :
               bind[b].got[i] = FieldIn(bind[b].loads[m], bind[b].fields[i])

\* A bind never loses a value it was told to look for: once its missing
\* paths are remembered, a field that a registered source answers (env
\* spellings that Keys does not report included) is found, as long as no
\* override, alias or content change interferes (addBoundPaths, lookup).
BindFindsFields ==
    \A b \in Binders :
        /\ bind[b].step = "done"
        /\ swaps = 0
        /\ layers.explicits = EmptyFn
        /\ layers.aliases = EmptyFn
        => \A i \in DOMAIN bind[b].fields :
              (\E s \in ToSet(layers.sources) : bind[b].fields[i].key \in DOMAIN contents[s].get)
                  => bind[b].got[i] # NotFound
=============================================================================

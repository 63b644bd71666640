---------------------------- MODULE WatchedSource ----------------------------
(***************************************************************************)
(* What a registry relies on when it watches a source: every change of     *)
(* what the source holds is followed by a SourceChange, or by the client   *)
(* that made it, before the subscription ends; so a registry that rebuilds *)
(* on each one is behind only while it is owed one.                        *)
(***************************************************************************)
CONSTANT Holdings       \* what the source may hold

VARIABLES
    phase,      \* "new", "live" once the first snapshot is built, "over"
    held,       \* what the source answers from
    view,       \* what the registry's last rebuild read from it
    owed        \* a rebuild is on its way

sourceVars == <<phase, held, view, owed>>

SourceInit == /\ phase = "new" /\ owed = FALSE
              /\ held \in Holdings /\ view = held

Construct == /\ phase = "new" /\ phase' = "live"
             /\ held' \in Holdings /\ view' = held'
             /\ UNCHANGED owed

Refresh == /\ phase = "live"
           /\ held' \in Holdings /\ owed' = TRUE
           /\ UNCHANGED <<phase, view>>

Rebuild == /\ phase = "live" /\ owed
           /\ view' = held /\ owed' \in BOOLEAN
           /\ UNCHANGED <<phase, held>>

\* The subscription is cancelled or the source closed, perhaps in the middle
\* of a refresh; what is still on its way may be lost.
End == /\ phase' = "over"
       /\ held' \in Holdings /\ view' \in Holdings /\ owed' \in BOOLEAN

SourceNext == Construct \/ Refresh \/ Rebuild \/ End

SourceSpec == SourceInit /\ [][SourceNext]_sourceVars
=============================================================================

---------------------------- MODULE ConfigStore ----------------------------
(***************************************************************************)
(* What a registry promises its users, without saying how values resolve:  *)
(* the installed configuration is an accepted combination of the settings, *)
(* the registered sources and one reading of them.  Registry implements    *)
(* this specification; the watch engine and Live are modelled on top of it.*)
(***************************************************************************)
EXTENDS Naturals

CONSTANTS
    Sources,            \* names of the source objects
    ContentsOf,         \* [Sources -> set of contents a source may come to hold]
    InitialContents,    \* set of [Sources -> contents]: what they may hold at first
    Mixes(_, _),        \* readings of a source replaced during the rebuild
    Settings,           \* what writes can make of the other layers
    BlankSettings,      \* no layer set
    InitialSettings,    \* the layers and sources New starts from
    InitialRegistered,
    Acceptable(_, _, _),\* whether settings, sources and a reading are accepted
    Vacuous(_, _, _),   \* whether they resolve to no value at all
    MaxSwaps            \* bound: how often a source's contents change

VARIABLES
    phase,              \* "new", then "open" or "failed", then "closing", "closed"
    settings,           \* explicit values, defaults, aliases, pins, order
    registered,         \* the registered sources
    contents,           \* what each source holds now
    swaps,              \* number of content changes so far
    installed           \* the installed configuration, or NotInstalled

storeVars == <<phase, settings, registered, contents, swaps, installed>>

NotInstalled == [none |-> TRUE]
Configuration(set, reg, view) == [settings |-> set, registered |-> reg, view |-> view]

Reading(after, view, n) == [after |-> after, view |-> view, swaps |-> n]

SwapReadings(s, new) ==
    {Reading([contents EXCEPT ![s] = new], [contents EXCEPT ![s] = mix], 1) :
        mix \in Mixes(contents[s], new)}

\* One rebuild reads every source once; one of them may be replaced meanwhile.
Readings(reg) ==
    {Reading(contents, contents, 0)} \cup
    UNION {UNION {SwapReadings(s, new) : new \in ContentsOf[s] \ {contents[s]}} : s \in {x \in reg : swaps < MaxSwaps}}

\* A rebuild on changed settings and sources: both become visible together
\* with the configuration they give, or nothing does.
Attempt(set, reg, ok) ==
    \E r \in Readings(reg) :
        /\ contents' = r.after
        /\ swaps' = swaps + r.swaps
        /\ ok = Acceptable(set, reg, r.view)
        /\ IF ok THEN settings' = set /\ registered' = reg /\ installed' = Configuration(set, reg, r.view)
                 ELSE UNCHANGED <<settings, registered, installed>>

StoreInit ==
    /\ phase = "new"
    /\ settings = BlankSettings
    /\ registered = {}
    /\ contents \in InitialContents
    /\ swaps = 0
    /\ installed = NotInstalled

\* New: a rejected first reading fails it only when it holds values.
Open ==
    /\ phase = "new"
    /\ settings' = InitialSettings /\ registered' = InitialRegistered
    /\ \E r \in Readings(InitialRegistered) :
          /\ contents' = r.after
          /\ swaps' = swaps + r.swaps
          /\ IF Acceptable(InitialSettings, InitialRegistered, r.view)
             THEN /\ installed' = Configuration(InitialSettings, InitialRegistered, r.view)
                  /\ phase' = "open"
             ELSE /\ phase' = IF Vacuous(InitialSettings, InitialRegistered, r.view)
                              THEN "open" ELSE "failed"
                  /\ UNCHANGED installed

\* A caller that passed the closed check may get here after a Close.
Usable == phase \in {"open", "closing", "closed"}

\* A layer written, a source added or removed, or a reload, and accepted.
Write ==
    /\ Usable
    /\ settings' \in Settings /\ registered' \in SUBSET Sources
    /\ Attempt(settings', registered', TRUE)
    /\ UNCHANGED phase

\* Any of these rejected: nothing but what the sources hold has changed.
Rejected ==
    /\ Usable
    /\ \E r \in Readings(Sources) : contents' = r.after /\ swaps' = swaps + r.swaps
    /\ UNCHANGED <<phase, settings, registered, installed>>

Swap(s, c) ==
    /\ phase \in {"open", "closing"}
    /\ swaps < MaxSwaps /\ c # contents[s]
    /\ contents' = [contents EXCEPT ![s] = c]
    /\ swaps' = swaps + 1
    /\ UNCHANGED <<phase, settings, registered, installed>>

BeginClose ==
    /\ phase = "open" /\ phase' = "closing"
    /\ UNCHANGED <<settings, registered, contents, swaps, installed>>

EndClose ==
    /\ phase = "closing" /\ phase' = "closed"
    /\ UNCHANGED <<settings, registered, contents, swaps, installed>>

StoreNext ==
    \/ Open \/ Write \/ Rejected \/ BeginClose \/ EndClose
    \/ \E s \in Sources : \E c \in ContentsOf[s] : Swap(s, c)

StoreSpec == StoreInit /\ [][StoreNext]_storeVars
=============================================================================

------------------------------ MODULE MCWatch ------------------------------
(***************************************************************************)
(* The watch engine, and Live on top of it.  A behaviour is one of two     *)
(* parts.  In "alone" consumers read the events, and clients remove and    *)
(* add sources: a watched file, and a polled environment whose version 19  *)
(* the validator refuses.  With two lines the file may be added again      *)
(* while what is left of its former line is still being drained.  In       *)
(* "live" a Live reads the events, over the file alone: its version 9 is   *)
(* refused, and a rebuild that reads the file while one version replaces   *)
(* another may see keys of both (Torn), which passes the validator and     *)
(* does not decode.                                                        *)
(***************************************************************************)
EXTENDS Live

CONSTANT Parts

VARIABLE part

Torn == 3
MCMixes(old, new) == IF old > 10 THEN {old, new} ELSE {old, new, Torn}
NoBad(set, reg, view) == ~("env" \in reg /\ view["env"] = 19) /\ ~("file" \in reg /\ view["file"] = 9)
HoldsNothing(set, reg, view) == reg = {}
Decodes(c) == "file" \in c.registered => c.view["file"] # Torn

MCContents == [env |-> {11, 19}, file |-> {1, 2, 9}]
MCInitial == {[env |-> e, file |-> 1] : e \in {11, 19}}
File == {"file"}

SourceWrites == [settings : {0}, registered : {{"env"}, {"env", "file"}}]

MCInit == LiveInit /\ part \in Parts

\* The bounds of each part.  None of them stops a goroutine that is fair: they
\* are about changes, errors, idle ticks and calls.
AloneBounds ==
    /\ contents'["file"] # 9
    /\ installed' # NotInstalled => Decodes(installed')
    /\ faults'.ticks = 0
    /\ queued' => queued \/ loop.pc = "rebuild"
LiveBounds ==
    /\ contents'["env"] = 11 /\ registered' \subseteq File
    /\ faults'.errors = 0 /\ (reloads' = 0 \/ faults'.ticks = 0)
    /\ queued' = FALSE /\ (lines'["l1"].closed => lines["l1"].closed \/ ctxDone)

\* Lines differ in name only: the first one that is spare is taken.
FirstLine == subs'["file"] = "l2" => subs["file"] = "l2" \/ ~Spare("l1")

MCNext ==
    /\ UNCHANGED part
    /\ \/ part = "alone" /\ WatchNext /\ UNCHANGED liveVars /\ AloneBounds
       \/ part = "live" /\ LiveNext /\ LiveBounds
    /\ FirstLine

EngineAndLive == MCInit /\ [][MCNext]_<<allVars, part>> /\ LiveFairness
=============================================================================

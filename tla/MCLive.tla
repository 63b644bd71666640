------------------------------- MODULE MCLive -------------------------------
(***************************************************************************)
(* A Live over one watched file.  Versions 1 and 2 are fine, version 9 is  *)
(* refused by the validator; a rebuild that reads the file while one       *)
(* replaces the other may see keys of both (Torn), which passes the        *)
(* validator and does not decode.                                          *)
(***************************************************************************)
EXTENDS Live

Torn == 3
MCMixes(old, new) == {old, new, Torn}
NoBad(set, reg, view) == view["file"] # 9
HoldsNothing(set, reg, view) == FALSE
Decodes(c) == c.view["file"] # Torn

MCContents == [file |-> {1, 2, 9}]
MCInitial == {[file |-> 1]}
OneFile == {"file"}
NoWrites == {}
=============================================================================

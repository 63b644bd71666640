----------------------------- MODULE MCConfigs -----------------------------
(***************************************************************************)
(* Three registries under two names: two watched, one without a watch      *)
(* engine.                                                                 *)
(***************************************************************************)
EXTENDS Configs
=============================================================================

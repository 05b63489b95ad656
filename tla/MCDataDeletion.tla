--------------------------- MODULE MCDataDeletion ---------------------------
(***************************************************************************)
(* Instances of DataDeletion for TLC.                                      *)
(***************************************************************************)
EXTENDS DataDeletion

MCScopes == {"account", "all_usage", "installation"}
=============================================================================

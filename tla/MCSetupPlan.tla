---------------------------- MODULE MCSetupPlan -----------------------------
(***************************************************************************)
(* Instances of SetupPlan for TLC: a file that is there, a variable that   *)
(* is not set and a directory that is not there.                           *)
(***************************************************************************)
EXTENDS SetupPlan, TLC

CONSTANTS file, variable, directory

MCPlan == <<file, variable, directory>>
MCKind == file :> "file" @@ variable :> "environment" @@ directory :> "directory"

=============================================================================

--------------------------- MODULE MCAcquisition ---------------------------
(***************************************************************************)
(* An instance of Acquisition for TLC: a log that grows and a store of the *)
(* same harness that no decoder accepts and is due again and again.        *)
(***************************************************************************)
EXTENDS Acquisition, TLC

CONSTANTS log, store, harness

MCSources == {log, store}
MCHarnesses == <<harness>>
MCHarnessOf == log :> harness @@ store :> harness
MCJsonl == {log}
MCUndecodable == {store}
MCMaxLen == log :> 1 @@ store :> 0

=============================================================================

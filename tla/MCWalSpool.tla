----------------------------- MODULE MCWalSpool -----------------------------
(***************************************************************************)
(* An instance of WalSpool for TLC.  Either no limit of the spool is met,  *)
(* or each of them can be: a frame holds one record, one event counts as   *)
(* full, and so do two segments.                                           *)
(***************************************************************************)
EXTENDS WalSpool

Roomy(r) == [replays |-> r, payload |-> 3, events |-> 3, segments |-> 20]
Tight == [replays |-> TRUE, payload |-> 1, events |-> 1, segments |-> 2]

MCSettings == {Roomy(TRUE), Roomy(FALSE), Tight}
=============================================================================

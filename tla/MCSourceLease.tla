--------------------------- MODULE MCSourceLease ---------------------------
(***************************************************************************)
(* Instances of SourceLease for TLC: two runners, two tokens.              *)
(***************************************************************************)
EXTENDS SourceLease, TLC

Interchangeable == Permutations(Runners) \cup Permutations(Tokens)

=============================================================================

---------------------------- MODULE MCUsageCount ----------------------------
(***************************************************************************)
(* Instances of UsageCount for TLC: two devices mirror one usage; 1 and 3  *)
(* are revisions of its fact on device a, 2 is the copy on device b.       *)
(***************************************************************************)
EXTENDS UsageCount, TLC

CONSTANTS a, b, h1, c1, day, hour

MCDeviceOf == [e \in Events |-> IF e = 2 THEN b ELSE a]
MCFactOf == [e \in Events |-> IF e = 3 THEN 1 ELSE e]
MCRevisionOf == [e \in Events |-> IF e = 3 THEN 2 ELSE 1]
MCIdentityOf == [e \in Events |-> h1]
MCContentOf == [e \in Events |-> c1]

GrainSymmetry == Permutations(Grains)
=============================================================================

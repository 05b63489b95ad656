---------------------------- MODULE MCEventStore ----------------------------
(***************************************************************************)
(* Instances of EventStore for TLC: u1 and u2 are revisions of a usage     *)
(* fact, k an invocation of the unnamed skill, all in one session.  The    *)
(* lanes of usage and skill are split to keep the instance small.          *)
(***************************************************************************)
EXTENDS EventStore, TLC

CONSTANTS u1, u2, k, f1, f2, s1

MCApplicable == [e \in Events |-> IF e = k THEN {Upload} ELSE MetricLanes]
MCFact == [e \in Events |-> IF e = k THEN f2 ELSE f1]
MCRevision == [e \in Events |-> IF e = u2 THEN 2 ELSE 1]
MCSessionKey == [e \in Events |-> s1]
MCNoKey == [e \in Events |-> NoKey]

TokenSymmetry == Permutations(Tokens)

=============================================================================

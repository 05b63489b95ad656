----------------------------- MODULE SourceLog -----------------------------
(***************************************************************************)
(* What the collector promises about one source: its records are settled   *)
(* in file order, each once, as an event or as an ignored record; what is  *)
(* settled stays settled, unless the whole source starts over.             *)
(***************************************************************************)
EXTENDS Naturals, Sequences

VARIABLES
    written,  \* records the source holds
    fates     \* fates[i]: what became of the i-th record, for those settled

Fate == {"event", "ignored"}

Init == written = 0 /\ fates = <<>>

Write == written' = written + 1 /\ UNCHANGED fates

\* A batch of further records is settled; those settled before keep their fate.
Settle ==
    /\ fates' \in Seq(Fate)
    /\ Len(fates') \in Len(fates) + 1 .. written
    /\ SubSeq(fates', 1, Len(fates)) = fates
    /\ UNCHANGED written

StartOver == fates' = <<>> /\ UNCHANGED written

Next == Write \/ Settle \/ StartOver

Spec == Init /\ [][Next]_<<written, fates>>

=============================================================================

------------------------------- MODULE Outbox -------------------------------
(***************************************************************************)
(* What the encrypted spool promises of one source: the records read are  *)
(* kept until the server has accepted them or they are given up for good, *)
(* and what is known once is known for ever.                              *)
(***************************************************************************)
EXTENDS Integers

CONSTANT Records            \* the records of the source, 1..n in file order

VARIABLES offset,           \* how many records the checkpoint has passed
          queued,           \* records waiting to be uploaded
          acked,            \* records the server has acknowledged
          dead,             \* records given up, reported as dead letters
          received,         \* records the server holds
          ahead             \* records that may be known before the checkpoint
                            \* has passed them

outbox == <<offset, queued, acked, dead, received, ahead>>
known == queued \union acked \union dead

Init ==
  /\ offset = 0
  /\ queued = {}
  /\ acked = {}
  /\ dead = {}
  /\ received = {}
  /\ ahead = {}

\* The server takes some of what is queued; the answer may never arrive.
Receive ==
  /\ \E some \in SUBSET queued : received' = received \union some
  /\ UNCHANGED <<offset, queued, acked, dead, ahead>>

\* The checkpoint moves forward over records which join the queue, and
\* records leave the queue only by being acknowledged or given up, for ever.
Advance ==
  /\ offset' \in Records \union {0}
  /\ offset' >= offset
  /\ acked \subseteq acked' /\ dead \subseteq dead' /\ ahead \subseteq ahead'
  /\ known \subseteq known'
  /\ 1..offset' \subseteq known' /\ known' \subseteq 1..offset' \union ahead'
  /\ queued' \intersect (acked' \union dead') = {}
  /\ acked' \subseteq received
  /\ UNCHANGED received

Next == Receive \/ Advance

Spec == Init /\ [][Next]_outbox
=============================================================================

------------------------- MODULE AcquisitionProofs --------------------------
(***************************************************************************)
(* The soundness of the queue of Acquisition for any sources, harnesses    *)
(* and workers, any limits, and any failures.                              *)
(*                                                                         *)
(* A file only grows, so a fingerprint that was taken earlier is not above *)
(* the present one (NotAhead), and one that is equal to it says that the   *)
(* file has not changed since.  What a worker remembers is therefore said  *)
(* under the condition that its fingerprint is still that of the file      *)
(* (ReadsToTheEnd): then what it read is all there is, unless the read     *)
(* said that there is more.  That the queue may write what it learns into  *)
(* the entry rests on no two workers having the same source (OneReader).   *)
(***************************************************************************)
EXTENDS Acquisition, FiniteSetTheorems, TLAPS

\* What a worker may be doing.
Works ==
    {Waiting}
    \cup [pc: {"taken", "finished"}, source: Sources]
    \cup [pc: {"looked"}, source: Sources, seen: Prints]
    \cup [pc: {"read"}, source: Sources, seen: Prints, upto: Nat, more: BOOLEAN]
    \cup [pc: {"done"}, source: Sources, seen: Prints, ok: BOOLEAN, more: BOOLEAN, advanced: BOOLEAN]

Checks ==
    {NoCheck}
    \cup [pc: {"listed"}, source: Sources, old: Prints]
    \cup [pc: {"looked"}, source: Sources, old: Prints, current: Prints]

TypesHold == TypeOK /\ work \in [Workers -> Works] /\ check \in Checks

OneReader == \A v, w \in Holders : SourceAt(v) = SourceAt(w) => v = w

\* Fingerprint p is not later than q.
NotAfter(p, q) == p[1] < q[1] \/ (p[1] = q[1] /\ (p[2] => q[2]))

\* No fingerprint is ahead of its file.
NotAhead ==
    /\ \A s \in known : NotAfter(entry[s].observed, Fingerprint(s))
    /\ \A w \in Workers : work[w].pc \in {"looked", "read", "done"} =>
          NotAfter(work[w].seen, Fingerprint(SourceAt(w)))
    /\ check.pc = "looked" => NotAfter(check.current, Fingerprint(check.source))

CursorsAreBehind ==
    /\ \A s \in Sources : cursor[s] <= written[s]
    /\ \A w \in Workers : work[w].pc = "read" =>
          cursor[SourceAt(w)] <= work[w].upto /\ work[w].upto <= written[SourceAt(w)]

\* Of a file that has not changed since the worker looked at it.
ReadsToTheEnd ==
    \A w \in Workers :
        LET s == SourceAt(w) IN
        /\ work[w].pc = "read" /\ work[w].seen = Fingerprint(s) =>
              /\ ~work[w].more => work[w].upto = written[s]
              /\ work[w].upto = cursor[s] => cursor[s] = written[s] \/ s \in slow
        /\ work[w].pc = "done" /\ work[w].seen = Fingerprint(s) /\ work[w].ok /\ IdleAfter(w) =>
              cursor[s] = written[s] \/ s \in slow

QueueInv ==
    /\ TypesHold /\ OneReader /\ NotAhead /\ CursorsAreBehind /\ ReadsToTheEnd
    /\ InFlightIsRead /\ NoLostWakeup

USE AcquisitionAssumption

-----------------------------------------------------------------------------
(* Types and fingerprints.                                                 *)

Reading == {"taken", "looked", "read", "done"}

LEMMA Types ==
    ASSUME QueueInv
    PROVE  /\ TypeOK /\ work \in [Workers -> Works] /\ check \in Checks
           /\ written \in [Sources -> Nat] /\ tail \in [Sources -> BOOLEAN]
           /\ cursor \in [Sources -> Nat] /\ entry \in [Sources -> Entries] /\ known \subseteq Sources
           /\ \A s \in Sources : Fingerprint(s) \in Prints
BY DEF QueueInv, TypesHold, TypeOK, Fingerprint, Prints

\* What a worker has remembered, by what it is doing.
LEMMA Doing ==
    ASSUME QueueInv, NEW w \in Workers
    PROVE  /\ work[w].pc \in {"waiting", "taken", "looked", "read", "done", "finished"}
           /\ work[w] = Waiting <=> work[w].pc = "waiting"
           /\ work[w] # Waiting => SourceAt(w) \in Sources /\ SourceAt(w) \in known /\ w \in Holders
           /\ work[w].pc \in {"looked", "read", "done"} => work[w].seen \in Prints
           /\ work[w].pc = "read" => work[w].upto \in Nat /\ work[w].more \in BOOLEAN
           /\ work[w].pc = "done" => /\ work[w].ok \in BOOLEAN /\ work[w].more \in BOOLEAN
                                     /\ work[w].advanced \in BOOLEAN
<1>1. work[w] \in Works
  BY Types
<1>2. work[w] # Waiting => w \in Holders /\ SourceAt(w) \in known
  BY Types DEF Holders, TypeOK
<1> QED
  BY <1>1, <1>2 DEF Works, Waiting, SourceAt

LEMMA NotAfterIsOrder ==
    /\ \A p \in Prints : NotAfter(p, p)
    /\ \A p, q, r \in Prints : NotAfter(p, q) /\ NotAfter(q, r) => NotAfter(p, r)
    /\ \A p, q \in Prints : NotAfter(p, q) /\ NotAfter(q, p) => p = q
<1>1. \A p \in Prints : NotAfter(p, p)
  BY DEF Prints, NotAfter
<1>2. ASSUME NEW p \in Prints, NEW q \in Prints, NEW r \in Prints, NotAfter(p, q), NotAfter(q, r)
      PROVE  NotAfter(p, r)
  <2>1. p[1] \in Nat /\ q[1] \in Nat /\ r[1] \in Nat
    BY DEF Prints
  <2> QED
    BY <1>2, <2>1 DEF NotAfter
<1>3. ASSUME NEW p \in Prints, NEW q \in Prints, NotAfter(p, q), NotAfter(q, p)
      PROVE  p = q
  <2>1. /\ p[1] \in Nat /\ q[1] \in Nat /\ p[2] \in BOOLEAN /\ q[2] \in BOOLEAN
        /\ p = <<p[1], p[2]>> /\ q = <<q[1], q[2]>>
    BY DEF Prints
  <2>2. p[1] = q[1] /\ (p[2] <=> q[2])
    BY <1>3, <2>1 DEF NotAfter
  <2>3. p[2] = q[2]
    BY <2>1, <2>2
  <2> QED
    BY <2>1, <2>2, <2>3
<1> QED
  BY <1>1, <1>2, <1>3

-----------------------------------------------------------------------------
(* The workers.                                                            *)

\* A worker that has a source goes on with it, up to the end of its attempt.
LEMMA WorkerMoves ==
    ASSUME QueueInv, NEW w \in Workers, work[w].pc \in {"taken", "looked", "read"},
           NEW s \in Sources, s = SourceAt(w),
           NEW d \in Works, d.pc \in Reading, d.source = s, work' = [work EXCEPT ![w] = d],
           UNCHANGED <<written, tail, dbOn, memOn, known, entry, served, turns, next, check>>,
           leased' \in [Sources -> BOOLEAN], cursor' \in [Sources -> Nat],
           \A t \in Sources : t # s => cursor'[t] = cursor[t] /\ (t \in slow' <=> t \in slow),
           cursor'[s] <= written[s],
           d.pc \in {"looked", "read", "done"} => NotAfter(d.seen, Fingerprint(s)),
           d.pc = "read" => cursor'[s] <= d.upto /\ d.upto <= written[s],
           d.pc = "read" /\ d.seen = Fingerprint(s) =>
              /\ ~d.more => d.upto = written[s]
              /\ d.upto = cursor'[s] => cursor'[s] = written[s] \/ s \in slow',
           d.pc = "done" /\ d.seen = Fingerprint(s) /\ d.ok /\ (~d.more \/ ~d.advanced) =>
              cursor'[s] = written[s] \/ s \in slow'
    PROVE  QueueInv'
<1>1. /\ work' \in [Workers -> Works] /\ work'[w] = d
      /\ \A v \in Workers : v # w => work'[v] = work[v]
  BY Types
<1>2. w \in Holders /\ s \in known /\ d # Waiting /\ work[w].pc \in Reading
  BY Doing DEF Waiting, Reading
<1>3. Holders' = Holders /\ \A v \in Holders : SourceAt(v)' = SourceAt(v)
  BY <1>1, <1>2 DEF Holders, SourceAt
<1>4. \A v \in Workers : v # w /\ work[v] # Waiting => SourceAt(v) # s /\ SourceAt(v) \in Sources
  BY <1>2, Doing DEF QueueInv, OneReader
<1>5. TypesHold'
  <2>1. \A v \in Holders' : SourceAt(v)' \in known'
    BY <1>3, Types DEF TypeOK
  <2> QED
    BY <1>1, <2>1, Types DEF TypesHold, TypeOK
<1>6. OneReader'
  BY <1>3 DEF QueueInv, OneReader
<1>7. \A t \in Sources : Fingerprint(t)' = Fingerprint(t)
  BY DEF Fingerprint
<1>8. NotAhead'
  <2>1. \A t \in known' : NotAfter(entry'[t].observed, Fingerprint(t)')
    BY <1>7, Types DEF QueueInv, NotAhead
  <2>2. ASSUME NEW v \in Workers, work'[v].pc \in {"looked", "read", "done"}
        PROVE  NotAfter(work'[v].seen, Fingerprint(work'[v].source))
    <3>1. CASE v = w
      BY <1>1, <1>7, <2>2, <3>1
    <3>2. CASE v # w
      <4>1. work'[v] = work[v] /\ work[v].source \in Sources
        BY <1>1, <2>2, <3>2, Doing DEF SourceAt, Waiting
      <4> QED
        BY <1>7, <2>2, <4>1 DEF QueueInv, NotAhead, SourceAt
    <3> QED
      BY <3>1, <3>2
  <2>3. check'.pc = "looked" => NotAfter(check'.current, Fingerprint(check'.source))
    <3>1. check.pc = "looked" => check.source \in Sources
      BY Types DEF Checks, NoCheck
    <3> QED
      BY <1>7, <3>1 DEF QueueInv, NotAhead
  <2> QED
    BY <2>1, <2>2, <2>3 DEF NotAhead, SourceAt, NotAfter, Fingerprint
<1>9. CursorsAreBehind'
  <2>1. \A t \in Sources : cursor'[t] <= written'[t]
    BY DEF QueueInv, CursorsAreBehind
  <2>2. ASSUME NEW v \in Workers, work'[v].pc = "read"
        PROVE  cursor'[work'[v].source] <= work'[v].upto /\ work'[v].upto <= written'[work'[v].source]
    <3>1. CASE v = w
      BY <1>1, <2>2, <3>1
    <3>2. CASE v # w
      <4>1. work'[v] = work[v] /\ work[v].source \in Sources /\ work[v].source # s
        BY <1>1, <1>4, <2>2, <3>2, Doing DEF SourceAt, Waiting
      <4> QED
        BY <2>2, <4>1 DEF QueueInv, CursorsAreBehind, SourceAt
    <3> QED
      BY <3>1, <3>2
  <2> QED
    BY <2>1, <2>2 DEF CursorsAreBehind, SourceAt
<1>10. ReadsToTheEnd'
  <2> SUFFICES ASSUME NEW v \in Workers
               PROVE  /\ work'[v].pc = "read" /\ work'[v].seen = Fingerprint(work'[v].source) =>
                            /\ ~work'[v].more => work'[v].upto = written'[work'[v].source]
                            /\ work'[v].upto = cursor'[work'[v].source] =>
                                  \/ cursor'[work'[v].source] = written'[work'[v].source]
                                  \/ work'[v].source \in slow'
                      /\ /\ work'[v].pc = "done" /\ work'[v].seen = Fingerprint(work'[v].source)
                         /\ work'[v].ok /\ (~work'[v].more \/ ~work'[v].advanced)
                         => \/ cursor'[work'[v].source] = written'[work'[v].source]
                            \/ work'[v].source \in slow'
    BY DEF ReadsToTheEnd, SourceAt, IdleAfter, Fingerprint
  <2>1. CASE v = w
    BY <1>1, <1>7, <2>1
  <2>2. CASE v # w /\ work[v] # Waiting
    <3>1. work'[v] = work[v] /\ work[v].source \in Sources /\ work[v].source # s
      BY <1>1, <1>4, <2>2 DEF SourceAt
    <3>2. cursor'[work[v].source] = cursor[work[v].source]
          /\ (work[v].source \in slow' <=> work[v].source \in slow)
          /\ written'[work[v].source] = written[work[v].source]
      BY <3>1
    <3>3. /\ work[v].pc = "read" /\ work[v].seen = Fingerprint(work[v].source) =>
                /\ ~work[v].more => work[v].upto = written[work[v].source]
                /\ work[v].upto = cursor[work[v].source] =>
                      cursor[work[v].source] = written[work[v].source] \/ work[v].source \in slow
          /\ /\ work[v].pc = "done" /\ work[v].seen = Fingerprint(work[v].source)
             /\ work[v].ok /\ (~work[v].more \/ ~work[v].advanced)
             => cursor[work[v].source] = written[work[v].source] \/ work[v].source \in slow
      BY DEF QueueInv, ReadsToTheEnd, SourceAt, IdleAfter
    <3> QED
      BY <3>1, <3>2, <3>3
  <2>3. CASE v # w /\ work[v] = Waiting
    BY <1>1, <2>3 DEF Waiting
  <2> QED
    BY <2>1, <2>2, <2>3
<1>11. InFlightIsRead'
  <2> SUFFICES ASSUME NEW t \in known
               PROVE  entry[t].inFlight
                      <=> \E v \in Workers : work'[v].pc \in Reading /\ work'[v].source = t
    BY DEF InFlightIsRead, SourceAt, Reading
  <2>1. \A v \in Workers : work'[v].pc \in Reading /\ work'[v].source = t
                           <=> work[v].pc \in Reading /\ work[v].source = t
    BY <1>1, <1>2 DEF SourceAt
  <2> QED
    BY <2>1 DEF QueueInv, InFlightIsRead, SourceAt, Reading
<1>12. NoLostWakeup'
  <2>1. entry[s].inFlight
    BY <1>2 DEF QueueInv, InFlightIsRead, Reading
  <2> QED
    BY <1>7, <2>1, Types DEF QueueInv, NoLostWakeup
<1> QED
  BY <1>5, <1>6, <1>8, <1>9, <1>10, <1>11, <1>12 DEF QueueInv

LEMMA LookKeeps ==
    ASSUME QueueInv, NEW w \in Workers, Look(w)
    PROVE  QueueInv'
<1>1. PICK s \in Sources : s = SourceAt(w)
  BY Doing DEF Look
<1>2. PICK d \in Works : /\ d = [pc |-> "looked", source |-> s, seen |-> Fingerprint(s)]
                         /\ work' = [work EXCEPT ![w] = d]
  BY <1>1, Types DEF Look, Becomes, Works
<1>3. d.pc = "looked" /\ d.source = s /\ d.seen = Fingerprint(s) /\ NotAfter(d.seen, Fingerprint(s))
  BY <1>2, Types, NotAfterIsOrder
<1>4. /\ work[w].pc = "taken"
      /\ UNCHANGED <<written, tail, cursor, leased, dbOn, memOn, known, entry, served, turns, next,
                     check, slow>>
  BY DEF Look, files, rows, queue
<1>5. leased' \in [Sources -> BOOLEAN] /\ cursor' \in [Sources -> Nat] /\ cursor'[s] <= written[s]
  BY <1>4, Types DEF TypeOK, QueueInv, CursorsAreBehind
<1> QED
  BY <1>1, <1>2, <1>3, <1>4, <1>5, WorkerMoves DEF Reading

\* A read returns up to record n.
LEMMA ReadKeeps ==
    ASSUME QueueInv, NEW w \in Workers, Read(w) \/ ReadTooSlow(w)
    PROVE  QueueInv'
<1>1. PICK s \in Sources : s = SourceAt(w)
  BY Doing DEF Read, ReadTooSlow
<1>2. PICK n \in Nat :
          /\ ReadUpTo(w, n) /\ cursor[s] <= n /\ n <= written[s]
          /\ n = cursor[s] => n = written[s] \/ s \in slow'
          /\ \A t \in Sources : t # s => (t \in slow' <=> t \in slow)
  <2>1. cursor[s] \in Nat /\ written[s] \in Nat
    BY Types
  <2>2. CASE Read(w)
    <3>1. PICK n \in cursor[s] .. cursor[s] + Budget :
              n <= written[s] /\ (n = cursor[s] => n = written[s]) /\ ReadUpTo(w, n)
      BY <1>1, <2>2 DEF Read
    <3>2. slow' = slow \ {s}
      BY <1>1, <2>2 DEF Read
    <3> QED
      BY <2>1, <3>1, <3>2
  <2>3. CASE ReadTooSlow(w)
    BY <1>1, <2>1, <2>3 DEF ReadTooSlow
  <2> QED
    BY <2>2, <2>3
<1>3. /\ work[w].pc = "looked" /\ leased' = [leased EXCEPT ![s] = TRUE]
      /\ work' = [work EXCEPT ![w] = [pc |-> "read", source |-> s, seen |-> work[w].seen,
                                      upto |-> n, more |-> n < written[s] \/ tail[s]]]
      /\ UNCHANGED <<written, tail, cursor, dbOn, memOn, known, entry, served, turns, next, check>>
  BY <1>1, <1>2 DEF ReadUpTo, Becomes, files, queue
<1>4. PICK more \in BOOLEAN : more = (n < written[s] \/ tail[s])
  BY Types
<1>5. work[w].seen \in Prints /\ NotAfter(work[w].seen, Fingerprint(s))
  BY <1>1, <1>3, Doing DEF QueueInv, NotAhead
<1>6. PICK d \in Works : /\ d = [pc |-> "read", source |-> s, seen |-> work[w].seen,
                                 upto |-> n, more |-> more]
                         /\ work' = [work EXCEPT ![w] = d]
  BY <1>3, <1>4, <1>5 DEF Works
<1>7. d.pc = "read" /\ d.source = s /\ d.seen = work[w].seen /\ d.upto = n /\ d.more = more
  BY <1>6
<1>8. ~d.more => d.upto = written[s]
  <2>1. n \in Nat /\ written[s] \in Nat /\ n <= written[s]
    BY <1>2, Types
  <2>2. ~more => ~(n < written[s] \/ tail[s])
    BY <1>4, Zenon
  <2>3. ~(n < written[s]) => n = written[s]
    BY <2>1
  <2> QED
    BY <1>7, <2>2, <2>3
<1>9. /\ leased' \in [Sources -> BOOLEAN] /\ cursor' \in [Sources -> Nat] /\ cursor'[s] <= written[s]
      /\ \A t \in Sources : t # s => cursor'[t] = cursor[t] /\ (t \in slow' <=> t \in slow)
      /\ d.upto = cursor'[s] => cursor'[s] = written[s] \/ s \in slow'
      /\ cursor'[s] <= d.upto /\ d.upto <= written[s]
  BY <1>2, <1>3, <1>7, Types DEF TypeOK, QueueInv, CursorsAreBehind
<1>10. d.pc = "read" /\ d.seen = Fingerprint(s) =>
          /\ ~d.more => d.upto = written[s]
          /\ d.upto = cursor'[s] => cursor'[s] = written[s] \/ s \in slow'
  BY <1>8, <1>9
<1>11. d.pc \in Reading /\ d.pc # "done" /\ NotAfter(d.seen, Fingerprint(s))
       /\ work[w].pc \in {"taken", "looked", "read"}
  BY <1>3, <1>5, <1>7 DEF Reading
<1>12. /\ UNCHANGED <<written, tail, dbOn, memOn, known, entry, served, turns, next, check>>
       /\ d.source = s /\ work' = [work EXCEPT ![w] = d]
  BY <1>3, <1>6, <1>7
<1> QED
  BY <1>1, <1>9, <1>10, <1>11, <1>12, WorkerMoves

LEMMA CommitKeeps ==
    ASSUME QueueInv, NEW w \in Workers, Commit(w)
    PROVE  QueueInv'
<1>1. PICK s \in Sources : s = SourceAt(w)
  BY Doing DEF Commit
<1>2. /\ work[w].pc = "read" /\ leased' = [leased EXCEPT ![s] = FALSE]
      /\ cursor' = [cursor EXCEPT ![s] = work[w].upto]
      /\ work' = [work EXCEPT ![w] = [pc |-> "done", source |-> s, seen |-> work[w].seen, ok |-> TRUE,
                                      more |-> work[w].more, advanced |-> work[w].upto > cursor[s]]]
      /\ UNCHANGED <<written, tail, dbOn, memOn, known, entry, served, turns, next, check, slow>>
  BY <1>1 DEF Commit, Becomes, files, queue
<1>3. /\ work[w].seen \in Prints /\ work[w].upto \in Nat /\ work[w].more \in BOOLEAN
      /\ NotAfter(work[w].seen, Fingerprint(s))
      /\ cursor[s] <= work[w].upto /\ work[w].upto <= written[s]
      /\ work[w].seen = Fingerprint(s) =>
            /\ ~work[w].more => work[w].upto = written[s]
            /\ work[w].upto = cursor[s] => cursor[s] = written[s] \/ s \in slow
  BY <1>1, <1>2, Doing DEF QueueInv, NotAhead, CursorsAreBehind, ReadsToTheEnd
<1>4. PICK advanced \in BOOLEAN : advanced = (work[w].upto > cursor[s])
  <2>1. (work[w].upto > cursor[s]) \in BOOLEAN
    <3>1. work[w].upto \in Int /\ cursor[s] \in Int
      BY <1>3, Types
    <3> QED
      BY <3>1, SMT
  <2> QED
    BY <2>1, Zenon
<1>5. PICK d \in Works : /\ d = [pc |-> "done", source |-> s, seen |-> work[w].seen, ok |-> TRUE,
                                 more |-> work[w].more, advanced |-> advanced]
                         /\ work' = [work EXCEPT ![w] = d]
  BY <1>2, <1>3, <1>4 DEF Works
<1>6. /\ d.pc = "done" /\ d.source = s /\ d.seen = work[w].seen /\ d.ok = TRUE
      /\ d.more = work[w].more /\ d.advanced = advanced
  BY <1>5
<1>7. /\ leased' \in [Sources -> BOOLEAN] /\ cursor' \in [Sources -> Nat]
      /\ cursor'[s] = work[w].upto /\ \A t \in Sources : t # s => cursor'[t] = cursor[t]
  BY <1>2, <1>3, Types DEF TypeOK
<1>8. cursor[s] \in Nat /\ cursor'[s] <= written[s] /\ (~advanced => work[w].upto = cursor[s])
  <2>1. work[w].upto \in Nat /\ cursor[s] \in Nat /\ cursor[s] <= work[w].upto
    BY <1>3, Types
  <2>2. ~advanced => ~(work[w].upto > cursor[s])
    BY <1>4, Zenon
  <2>3. ~(work[w].upto > cursor[s]) => work[w].upto = cursor[s]
    BY <2>1
  <2> QED
    BY <1>3, <1>7, <2>1, <2>2, <2>3
<1>9. d.seen = Fingerprint(s) /\ d.ok /\ (~d.more \/ ~d.advanced) =>
          cursor'[s] = written[s] \/ s \in slow'
  BY <1>2, <1>3, <1>6, <1>7, <1>8
<1>10. /\ d.pc \in Reading /\ d.pc # "read" /\ NotAfter(d.seen, Fingerprint(s))
       /\ work[w].pc \in {"taken", "looked", "read"}
       /\ d.source = s /\ work' = [work EXCEPT ![w] = d]
       /\ \A t \in Sources : t # s => cursor'[t] = cursor[t] /\ (t \in slow' <=> t \in slow)
       /\ cursor'[s] <= written[s]
  BY <1>2, <1>3, <1>5, <1>6, <1>7, <1>8 DEF Reading
<1>11. UNCHANGED <<written, tail, dbOn, memOn, known, entry, served, turns, next, check>>
  BY <1>2
<1> QED
  BY <1>1, <1>7, <1>9, <1>10, <1>11, WorkerMoves

\* An attempt that came to nothing.
LEMMA FailedKeeps ==
    ASSUME QueueInv, NEW w \in Workers, Refused(w) \/ AttemptFails(w)
    PROVE  QueueInv'
<1>1. work[w].pc \in {"looked", "read"} /\ Failed(w) /\ UNCHANGED <<leased, slow>>
  BY DEF Refused, AttemptFails
<1>2. PICK s \in Sources : s = SourceAt(w)
  BY <1>1, Doing
<1>3. work[w].seen \in Prints /\ NotAfter(work[w].seen, Fingerprint(s))
  BY <1>1, <1>2, Doing DEF QueueInv, NotAhead
<1>4. PICK d \in Works : /\ d = [pc |-> "done", source |-> s, seen |-> work[w].seen, ok |-> FALSE,
                                 more |-> FALSE, advanced |-> FALSE]
                         /\ work' = [work EXCEPT ![w] = d]
  BY <1>1, <1>2, <1>3 DEF Failed, Becomes, Works
<1>5. d.pc = "done" /\ d.source = s /\ d.seen = work[w].seen /\ d.ok = FALSE
  BY <1>4
<1>6. UNCHANGED <<written, tail, cursor, dbOn, memOn, known, entry, served, turns, next, check>>
  BY <1>1 DEF Failed, files, queue
<1>7. leased' \in [Sources -> BOOLEAN] /\ cursor' \in [Sources -> Nat] /\ cursor'[s] <= written[s]
  BY <1>1, <1>6, Types DEF TypeOK, QueueInv, CursorsAreBehind
<1> QED
  BY <1>1, <1>2, <1>3, <1>4, <1>5, <1>6, <1>7, WorkerMoves DEF Reading

-----------------------------------------------------------------------------
(* The files.                                                              *)

\* A file that grew has a fingerprint which nobody has seen.
LEMMA WriteKeeps ==
    ASSUME QueueInv, NEW s \in Sources, WriteHalf(s) \/ WriteRest(s)
    PROVE  QueueInv'
<1> DEFINE Now(t) == <<written'[t], tail'[t]>>
<1>1. /\ UNCHANGED <<cursor, leased, dbOn, memOn, known, entry, served, turns, next, work, check, slow>>
      /\ \A t \in Sources : t # s => written'[t] = written[t] /\ tail'[t] = tail[t]
      /\ written' \in [Sources -> Nat] /\ tail' \in [Sources -> BOOLEAN]
      /\ \/ written'[s] = written[s] /\ ~tail[s] /\ tail'[s]
         \/ written'[s] = written[s] + 1
  <2>1. CASE WriteHalf(s)
    BY <2>1, Types DEF WriteHalf, rows, queue
  <2>2. CASE WriteRest(s)
    <3>1. PICK more \in BOOLEAN : tail' = [tail EXCEPT ![s] = more]
      BY <2>2 DEF WriteRest
    <3> QED
      BY <2>2, <3>1, Types DEF WriteRest, rows, queue
  <2> QED
    BY <2>1, <2>2
<1>2. PICK p \in Prints : p = Fingerprint(s) /\ p[1] = written[s] /\ p[2] = tail[s]
  BY Types DEF Fingerprint
<1>3. PICK q \in Prints : q = Now(s) /\ q[1] = written'[s] /\ q[2] = tail'[s]
  <2>1. PICK q \in Prints : q = <<written'[s], tail'[s]>>
    BY <1>1 DEF Prints
  <2>2. q[1] = written'[s] /\ q[2] = tail'[s]
    BY <2>1
  <2> QED
    BY <2>1, <2>2
<1>4. NotAfter(p, q) /\ ~NotAfter(q, p)
  BY <1>1, <1>2, <1>3, Types DEF NotAfter
<1>5. ASSUME NEW r \in Prints, NotAfter(r, p)
      PROVE  NotAfter(r, q) /\ r # q
  BY <1>4, <1>5, NotAfterIsOrder
<1>6. \A t \in Sources : t # s => Now(t) = Fingerprint(t)
  BY <1>1 DEF Fingerprint
<1> HIDE DEF Now
<1>7. \A t \in Sources, r \in Prints : NotAfter(r, Fingerprint(t)) => NotAfter(r, Now(t))
  BY <1>2, <1>3, <1>5, <1>6
<1>8. \A r \in Prints : NotAfter(r, Fingerprint(s)) => r # Now(s)
  BY <1>2, <1>3, <1>5
<1>9. \A t \in Sources : written[t] <= written'[t] /\ (t # s => written'[t] = written[t])
  BY <1>1, Types
<1>10. TypesHold'
  <2>1. \A w \in Holders' : SourceAt(w)' \in known'
    BY <1>1, Types DEF TypeOK, Holders, SourceAt
  <2> QED
    BY <1>1, <2>1, Types DEF TypesHold, TypeOK
<1>11. OneReader' /\ InFlightIsRead'
  BY <1>1 DEF QueueInv, OneReader, InFlightIsRead, Holders, SourceAt
<1>12. \A t \in known : entry[t].observed \in Prints /\ t \in Sources
  BY Types DEF Entries
<1>13. NotAhead'
  <2>1. \A t \in known : NotAfter(entry[t].observed, Now(t))
    BY <1>7, <1>12 DEF QueueInv, NotAhead
  <2>2. \A w \in Workers : work[w].pc \in {"looked", "read", "done"} =>
            NotAfter(work[w].seen, Now(work[w].source))
    <3>1. SUFFICES ASSUME NEW w \in Workers, work[w].pc \in {"looked", "read", "done"}
                   PROVE  NotAfter(work[w].seen, Now(work[w].source))
      OBVIOUS
    <3>2. work[w].seen \in Prints /\ work[w].source \in Sources
      BY <3>1, Doing DEF SourceAt, Waiting
    <3> QED
      BY <1>7, <3>1, <3>2 DEF QueueInv, NotAhead, SourceAt
  <2>3. check.pc = "looked" => NotAfter(check.current, Now(check.source))
    <3>1. check.pc = "looked" => check.source \in Sources /\ check.current \in Prints
      BY Types DEF Checks, NoCheck
    <3> QED
      BY <1>7, <3>1 DEF QueueInv, NotAhead
  <2> QED
    BY <1>1, <2>1, <2>2, <2>3 DEF NotAhead, SourceAt, NotAfter, Fingerprint, Now
<1>14. CursorsAreBehind'
  <2>1. \A t \in Sources : cursor[t] <= written'[t]
    BY <1>1, <1>9, Types DEF QueueInv, CursorsAreBehind
  <2>2. ASSUME NEW w \in Workers, work[w].pc = "read"
        PROVE  cursor[work[w].source] <= work[w].upto /\ work[w].upto <= written'[work[w].source]
    <3>1. work[w].source \in Sources /\ work[w].upto \in Nat
      BY <2>2, Doing DEF SourceAt, Waiting
    <3>2. cursor[work[w].source] <= work[w].upto /\ work[w].upto <= written[work[w].source]
      BY <2>2 DEF QueueInv, CursorsAreBehind, SourceAt
    <3> QED
      BY <1>1, <1>9, <3>1, <3>2, Types
  <2> QED
    BY <1>1, <2>1, <2>2 DEF CursorsAreBehind, SourceAt
<1>15. ReadsToTheEnd'
  <2>1. ASSUME NEW w \in Workers, work[w].pc \in {"read", "done"},
               work[w].seen = Now(work[w].source)
        PROVE  /\ work[w].source \in Sources /\ written'[work[w].source] = written[work[w].source]
               /\ work[w].seen = Fingerprint(work[w].source)
    <3>1. /\ work[w].seen \in Prints /\ work[w].source \in Sources
          /\ NotAfter(work[w].seen, Fingerprint(work[w].source))
      BY <2>1, Doing DEF SourceAt, Waiting, QueueInv, NotAhead
    <3>2. work[w].source # s
      BY <1>8, <2>1, <3>1
    <3> QED
      BY <1>6, <1>9, <2>1, <3>1, <3>2
  <2>2. ASSUME NEW w \in Workers, work[w].pc = "read", work[w].seen = Now(work[w].source)
        PROVE  /\ ~work[w].more => work[w].upto = written'[work[w].source]
               /\ work[w].upto = cursor[work[w].source] =>
                      cursor[work[w].source] = written'[work[w].source] \/ work[w].source \in slow
    BY <2>1, <2>2 DEF QueueInv, ReadsToTheEnd, SourceAt
  <2>3. ASSUME NEW w \in Workers, work[w].pc = "done", work[w].seen = Now(work[w].source),
               work[w].ok, IdleAfter(w)
        PROVE  cursor[work[w].source] = written'[work[w].source] \/ work[w].source \in slow
    BY <2>1, <2>3 DEF QueueInv, ReadsToTheEnd, SourceAt
  <2> QED
    BY <1>1, <2>2, <2>3 DEF ReadsToTheEnd, SourceAt, IdleAfter, Fingerprint, Now
<1>16. NoLostWakeup'
  <2> SUFFICES ASSUME NEW t \in known \cap Jsonl, entry[t].idle, ~entry[t].inFlight
               PROVE  \/ cursor[t] = written'[t] \/ entry[t].observed # Now(t)
                      \/ t \in slow
    BY <1>1 DEF NoLostWakeup, Fingerprint, Now
  <2>1. CASE t = s
    BY <1>8, <1>12, <2>1 DEF QueueInv, NotAhead
  <2>2. CASE t # s
    BY <1>6, <1>9, <1>12, <2>2 DEF QueueInv, NoLostWakeup
  <2> QED
    BY <2>1, <2>2
<1> QED
  BY <1>10, <1>11, <1>13, <1>14, <1>15, <1>16 DEF QueueInv

-----------------------------------------------------------------------------
(* The switches, the leases and the refresh.                               *)

\* Steps that the files, the entries and the workers have no part in.
LEMMA RestKeeps ==
    ASSUME QueueInv,
           UNCHANGED <<written, tail, cursor, known, entry, served, turns, next, work, slow>>,
           leased' \in [Sources -> BOOLEAN], dbOn' \in [Range(Harnesses) -> BOOLEAN],
           memOn' \in [Range(Harnesses) -> BOOLEAN], check' \in Checks,
           check'.pc = "looked" => NotAfter(check'.current, Fingerprint(check'.source))
    PROVE  QueueInv'
<1>1. TypesHold'
  <2>1. \A w \in Holders' : SourceAt(w)' \in known'
    BY Types DEF TypeOK, Holders, SourceAt
  <2> QED
    BY <2>1, Types DEF TypesHold, TypeOK
<1>2. OneReader' /\ InFlightIsRead' /\ CursorsAreBehind'
  BY DEF QueueInv, OneReader, InFlightIsRead, CursorsAreBehind, Holders, SourceAt
<1>3. NotAhead'
  BY DEF QueueInv, NotAhead, SourceAt, Fingerprint, NotAfter
<1>4. ReadsToTheEnd' /\ NoLostWakeup'
  BY DEF QueueInv, ReadsToTheEnd, NoLostWakeup, SourceAt, IdleAfter, Fingerprint
<1> QED
  BY <1>1, <1>2, <1>3, <1>4 DEF QueueInv

LEMMA SwitchKeeps ==
    ASSUME QueueInv, NEW h \in Range(Harnesses), SwitchHarness(h) \/ RowsFollow(h)
    PROVE  QueueInv'
<1>1. /\ UNCHANGED <<written, tail, cursor, leased, known, entry, served, turns, next, work, slow, check>>
      /\ dbOn' \in [Range(Harnesses) -> BOOLEAN] /\ memOn' \in [Range(Harnesses) -> BOOLEAN]
  BY Types DEF SwitchHarness, RowsFollow, TypeOK, files, rows, queue
<1>2. leased' \in [Sources -> BOOLEAN] /\ check' \in Checks
      /\ (check'.pc = "looked" => NotAfter(check'.current, Fingerprint(check'.source)))
  BY <1>1, Types DEF TypeOK, QueueInv, NotAhead
<1> QED
  BY <1>1, <1>2, RestKeeps

LEMMA LapseKeeps ==
    ASSUME QueueInv, NEW s \in Sources, LeaseLapses(s)
    PROVE  QueueInv'
<1>1. /\ UNCHANGED <<written, tail, cursor, dbOn, memOn, known, entry, served, turns, next, work, slow, check>>
      /\ leased' \in [Sources -> BOOLEAN]
  BY Types DEF LeaseLapses, TypeOK, files, queue
<1>2. /\ dbOn' \in [Range(Harnesses) -> BOOLEAN] /\ memOn' \in [Range(Harnesses) -> BOOLEAN]
      /\ check' \in Checks
      /\ (check'.pc = "looked" => NotAfter(check'.current, Fingerprint(check'.source)))
  BY <1>1, Types DEF TypeOK, QueueInv, NotAhead
<1> QED
  BY <1>1, <1>2, RestKeeps

\* The refresh notes the fingerprint that the file has at that time.
LEMMA LooksKeep ==
    ASSUME QueueInv, RefreshLook \/ (\E s \in Sources : RefreshList(s))
    PROVE  QueueInv'
<1>1. /\ UNCHANGED <<written, tail, cursor, leased, dbOn, memOn, known, entry, served, turns, next, work, slow>>
      /\ leased' \in [Sources -> BOOLEAN]
      /\ dbOn' \in [Range(Harnesses) -> BOOLEAN] /\ memOn' \in [Range(Harnesses) -> BOOLEAN]
  BY Types DEF RefreshLook, RefreshList, TypeOK, files, rows, queue
<1>2. CASE RefreshLook
  <2>1. PICK s \in Sources, old \in Prints : s = check.source /\ old = check.old
    BY <1>2, Types DEF RefreshLook, Checks, NoCheck
  <2>2. CASE Fingerprint(s) = old
    <3>1. check' = NoCheck
      BY <1>2, <2>1, <2>2 DEF RefreshLook
    <3>2. check' \in Checks /\ check'.pc # "looked"
      BY <3>1 DEF Checks, NoCheck
    <3> QED
      BY <1>1, <3>2, RestKeeps
  <2>3. CASE Fingerprint(s) # old
    <3>1. check' = [pc |-> "looked", source |-> s, old |-> old, current |-> Fingerprint(s)]
      BY <1>2, <2>1, <2>3 DEF RefreshLook
    <3>2. check' \in Checks /\ check'.current = Fingerprint(s) /\ check'.source = s
      BY <3>1, Types DEF Checks
    <3>3. NotAfter(check'.current, Fingerprint(check'.source))
      BY <3>2, Types, NotAfterIsOrder
    <3> QED
      BY <1>1, <3>2, <3>3, RestKeeps
  <2> QED
    BY <2>2, <2>3
<1>3. CASE \E s \in Sources : RefreshList(s)
  <2>1. PICK s \in Sources : RefreshList(s)
    BY <1>3
  <2>2. PICK old \in Prints : old = entry[s].observed
    BY Types DEF Entries
  <2>3. check' = [pc |-> "listed", source |-> s, old |-> old]
    BY <2>1, <2>2 DEF RefreshList
  <2>4. check' \in Checks /\ check'.pc # "looked"
    BY <2>3 DEF Checks
  <2> QED
    BY <1>1, <2>4, RestKeeps
<1> QED
  BY <1>2, <1>3

\* An entry changes, and all that it says is still true of the file.
LEMMA EntryKeeps ==
    ASSUME QueueInv, NEW s \in Sources, NEW e \in Entries,
           entry' = [entry EXCEPT ![s] = e],
           UNCHANGED <<written, tail, cursor, leased, dbOn, memOn, known, served, turns, next, work, slow>>,
           e.inFlight = entry[s].inFlight,
           NotAfter(e.observed, Fingerprint(s)),
           e.idle => entry[s].idle /\ e.observed = entry[s].observed,
           check' \in Checks,
           check'.pc = "looked" => NotAfter(check'.current, Fingerprint(check'.source))
    PROVE  QueueInv'
<1>1. /\ entry' \in [Sources -> Entries] /\ entry'[s] = e
      /\ \A t \in Sources : t # s => entry'[t] = entry[t]
  BY Types
<1>2. TypesHold'
  <2>1. \A w \in Holders' : SourceAt(w)' \in known'
    BY Types DEF TypeOK, Holders, SourceAt
  <2> QED
    BY <1>1, <2>1, Types DEF TypesHold, TypeOK
<1>3. OneReader' /\ CursorsAreBehind'
  BY DEF QueueInv, OneReader, CursorsAreBehind, Holders, SourceAt
<1>4. \A t \in known : t \in Sources /\ entry'[t].inFlight = entry[t].inFlight
  BY <1>1, Types
<1>5. InFlightIsRead'
  BY <1>4 DEF QueueInv, InFlightIsRead, SourceAt
<1>6. NotAhead'
  <2>1. \A t \in known : NotAfter(entry'[t].observed, Fingerprint(t))
    BY <1>1, <1>4 DEF QueueInv, NotAhead
  <2> QED
    BY <2>1 DEF QueueInv, NotAhead, SourceAt, Fingerprint, NotAfter
<1>7. ReadsToTheEnd'
  BY DEF QueueInv, ReadsToTheEnd, SourceAt, IdleAfter, Fingerprint
<1>8. NoLostWakeup'
  <2> SUFFICES ASSUME NEW t \in known \cap Jsonl, entry'[t].idle, ~entry'[t].inFlight
               PROVE  \/ cursor[t] = written[t] \/ entry'[t].observed # Fingerprint(t) \/ t \in slow
    BY DEF NoLostWakeup, Fingerprint
  <2>1. entry[t].idle /\ ~entry[t].inFlight /\ entry'[t].observed = entry[t].observed
    BY <1>1, <1>4
  <2> QED
    BY <2>1 DEF QueueInv, NoLostWakeup
<1> QED
  BY <1>2, <1>3, <1>5, <1>6, <1>7, <1>8 DEF QueueInv

LEMMA DueKeeps ==
    ASSUME QueueInv, NEW s \in Sources, SourceIsDue(s)
    PROVE  QueueInv'
<1>1. /\ s \in known /\ entry' = [entry EXCEPT ![s].ready = TRUE]
      /\ UNCHANGED <<written, tail, cursor, leased, dbOn, memOn, known, served, turns, next, work, slow, check>>
  BY DEF SourceIsDue, files, rows
<1>2. PICK e \in Entries : /\ e = [entry[s] EXCEPT !.ready = TRUE]
                           /\ entry' = [entry EXCEPT ![s] = e]
  BY <1>1, Types DEF Entries
<1>3. e.inFlight = entry[s].inFlight /\ e.observed = entry[s].observed /\ e.idle = entry[s].idle
  BY <1>2, Types DEF Entries
<1>4. NotAfter(e.observed, Fingerprint(s))
  BY <1>1, <1>3 DEF QueueInv, NotAhead
<1>5. check' \in Checks
      /\ (check'.pc = "looked" => NotAfter(check'.current, Fingerprint(check'.source)))
  BY <1>1, Types DEF QueueInv, NotAhead
<1> QED
  BY <1>1, <1>2, <1>3, <1>4, <1>5, EntryKeeps

LEMMA RefreshKeeps ==
    ASSUME QueueInv, RefreshSet
    PROVE  QueueInv'
<1>1. PICK s \in Sources : s = check.source /\ check.current \in Prints
                           /\ NotAfter(check.current, Fingerprint(s))
  BY Types DEF RefreshSet, Checks, NoCheck, QueueInv, NotAhead
<1>2. check' \in Checks /\ check'.pc # "looked"
  BY DEF RefreshSet, Checks, NoCheck
<1>3. /\ UNCHANGED <<written, tail, cursor, leased, dbOn, memOn, known, served, turns, next, work, slow>>
      /\ leased' \in [Sources -> BOOLEAN]
      /\ dbOn' \in [Range(Harnesses) -> BOOLEAN] /\ memOn' \in [Range(Harnesses) -> BOOLEAN]
  BY Types DEF RefreshSet, TypeOK, files, rows
<1>4. CASE entry' = entry
  BY <1>2, <1>3, <1>4, RestKeeps
<1>5. CASE entry' = [entry EXCEPT ![s].observed = check.current, ![s].idle = FALSE, ![s].ready = TRUE]
  <2>1. PICK e \in Entries :
            /\ e = [entry[s] EXCEPT !.observed = check.current, !.idle = FALSE, !.ready = TRUE]
            /\ entry' = [entry EXCEPT ![s] = e]
    <3>1. entry[s] \in Entries
      BY Types
    <3>2. [entry[s] EXCEPT !.observed = check.current, !.idle = FALSE, !.ready = TRUE] \in Entries
      BY <1>1, <3>1 DEF Entries
    <3>3. entry' = [entry EXCEPT ![s] = [entry[s] EXCEPT !.observed = check.current,
                                                         !.idle = FALSE, !.ready = TRUE]]
      BY <1>5, Types
    <3> QED
      BY <3>2, <3>3
  <2>2. e.inFlight = entry[s].inFlight /\ e.observed = check.current /\ e.idle = FALSE
    BY <2>1, Types DEF Entries
  <2> QED
    BY <1>1, <1>2, <1>3, <2>1, <2>2, EntryKeeps
<1> QED
  BY <1>1, <1>4, <1>5 DEF RefreshSet

-----------------------------------------------------------------------------
(* The queue.                                                              *)

LEMMA DiscoverKeeps ==
    ASSUME QueueInv, NEW s \in Sources, Discover(s)
    PROVE  QueueInv'
<1>1. /\ s \notin known /\ known' = known \cup {s}
      /\ UNCHANGED <<written, tail, cursor, leased, dbOn, memOn, served, turns, next, work, check, slow>>
  BY DEF Discover, files, rows
<1>2. PICK e \in Entries : /\ e = [observed |-> Fingerprint(s), ready |-> FALSE, idle |-> FALSE,
                                   inFlight |-> FALSE]
                           /\ entry' = [entry EXCEPT ![s] = e]
  BY Types DEF Discover, Entries
<1>3. ~e.inFlight /\ ~e.idle /\ NotAfter(e.observed, Fingerprint(s))
  BY <1>2, Types, NotAfterIsOrder
<1>4. /\ entry' \in [Sources -> Entries] /\ entry'[s] = e
      /\ \A t \in Sources : t # s => entry'[t] = entry[t]
  BY <1>2, Types
<1>5. \A w \in Workers : work[w] # Waiting => work[w].source \in known
  BY Doing DEF SourceAt
<1>6. TypesHold'
  <2>1. \A w \in Holders' : SourceAt(w)' \in known'
    BY <1>1, Types DEF TypeOK, Holders, SourceAt
  <2> QED
    BY <1>1, <1>4, <2>1, Types DEF TypesHold, TypeOK
<1>7. OneReader' /\ CursorsAreBehind'
  BY <1>1 DEF QueueInv, OneReader, CursorsAreBehind, Holders, SourceAt
<1>8. NotAhead'
  <2>1. \A t \in known' : NotAfter(entry'[t].observed, Fingerprint(t))
    BY <1>1, <1>3, <1>4, Types DEF QueueInv, NotAhead
  <2> QED
    BY <1>1, <2>1 DEF QueueInv, NotAhead, SourceAt, Fingerprint, NotAfter
<1>9. ReadsToTheEnd'
  BY <1>1 DEF QueueInv, ReadsToTheEnd, SourceAt, IdleAfter, Fingerprint
<1>10. InFlightIsRead'
  <2> SUFFICES ASSUME NEW t \in known'
               PROVE  entry'[t].inFlight
                      <=> \E w \in Workers : work[w].pc \in Reading /\ work[w].source = t
    BY <1>1 DEF InFlightIsRead, SourceAt, Reading
  <2>1. CASE t = s
    <3>1. \A w \in Workers : work[w].pc \in Reading => work[w].source # s
      BY <1>1, <1>5 DEF Waiting, Reading
    <3> QED
      BY <1>3, <1>4, <2>1, <3>1
  <2>2. CASE t # s
    BY <1>1, <1>4, <2>2, Types DEF QueueInv, InFlightIsRead, SourceAt, Reading
  <2> QED
    BY <2>1, <2>2
<1>11. NoLostWakeup'
  <2> SUFFICES ASSUME NEW t \in known' \cap Jsonl, entry'[t].idle, ~entry'[t].inFlight
               PROVE  \/ cursor[t] = written[t] \/ entry'[t].observed # Fingerprint(t) \/ t \in slow
    BY <1>1 DEF NoLostWakeup, Fingerprint
  <2>1. t \in known /\ t # s
    BY <1>1, <1>3, <1>4
  <2> QED
    BY <1>4, <2>1, Types DEF QueueInv, NoLostWakeup
<1> QED
  BY <1>6, <1>7, <1>8, <1>9, <1>10, <1>11 DEF QueueInv

\* The turn of a source is a number, and only known sources have had one.
LEMMA TurnsAreCounted ==
    ASSUME QueueInv, NEW s \in known, served' = LastServed(s)
    PROVE  served' \in [Sources -> Nat] /\ \A t \in Sources : served'[t] > 0 => t \in known
<1>1. s \in Sources /\ served \in [Sources -> Nat] /\ \A t \in Sources : served[t] > 0 => t \in known
  BY Types DEF TypeOK
<1>2. PICK rank \in Nat : rank = Cardinality({s} \cup {r \in Sources : served[r] > 0})
  <2>1. {s} \cup {r \in Sources : served[r] > 0} \subseteq Sources
    BY <1>1
  <2>2. IsFiniteSet({s} \cup {r \in Sources : served[r] > 0})
    BY <2>1, FS_Subset
  <2> QED
    BY <2>2, FS_CardinalityType
<1>3. served' = [t \in Sources |-> IF t = s THEN rank
                                   ELSE IF 0 < served[s] /\ served[s] < served[t] THEN served[t] - 1
                                   ELSE served[t]]
  BY <1>2 DEF LastServed
<1>4. ASSUME NEW t \in Sources
      PROVE  served'[t] \in Nat /\ (served'[t] > 0 => t \in known)
  BY <1>1, <1>3
<1>5. served' = [t \in Sources |-> served'[t]]
  BY <1>3
<1> QED
  BY <1>4, <1>5

\* Which source a worker takes, and what the queue becomes.
LEMMA Taken ==
    ASSUME QueueInv, NEW w \in Workers, Take(w)
    PROVE  /\ turns' \in [Range(Harnesses) -> 0 .. FairEvery - 1] /\ next' \in 1 .. Len(Harnesses)
           /\ \E s \in known : /\ Permitted(s) /\ served' = LastServed(s)
                               /\ entry' = [entry EXCEPT ![s].inFlight = TRUE]
                               /\ work' = [work EXCEPT ![w] = [pc |-> "taken", source |-> s]]
<1>1. PICK i \in 0 .. Len(Harnesses) - 1 :
          /\ turns' = [turns EXCEPT ![Harnesses[Harness(i)]] = (@ + 1) % FairEvery]
          /\ next' = NextAfter(i)
          /\ \E s \in Preferred(Harnesses[Harness(i)]) :
                /\ Permitted(s)
                /\ entry' = [entry EXCEPT ![s].inFlight = TRUE]
                /\ served' = LastServed(s)
                /\ Becomes(w, [pc |-> "taken", source |-> s])
  BY DEF Take
<1>2. \A h : Preferred(h) \subseteq known
  BY DEF Preferred, Ready
<1>3. turns' \in [Range(Harnesses) -> 0 .. FairEvery - 1]
  <2>1. turns \in [Range(Harnesses) -> 0 .. FairEvery - 1]
    BY Types DEF TypeOK
  <2>2. \A k \in 0 .. FairEvery - 1 : (k + 1) % FairEvery \in 0 .. FairEvery - 1
    OBVIOUS
  <2> QED
    BY <1>1, <2>1, <2>2
<1>4. next' \in 1 .. Len(Harnesses)
  <2>1. PICK n \in Nat \ {0} : n = Len(Harnesses)
    OBVIOUS
  <2>2. PICK k \in Nat : k = Harness(i)
    <3>1. next \in Nat
      BY Types DEF TypeOK
    <3>2. PICK m \in Nat : m = next + i - 1
      BY <3>1, Types DEF TypeOK
    <3>3. m % n \in Nat
      OBVIOUS
    <3> QED
      BY <2>1, <3>2, <3>3 DEF Harness
  <2>3. k % n \in 0 .. n - 1
    OBVIOUS
  <2> QED
    BY <1>1, <2>1, <2>2, <2>3 DEF NextAfter
<1> QED
  BY <1>1, <1>2, <1>3, <1>4 DEF Becomes

LEMMA TakeKeeps ==
    ASSUME QueueInv, NEW w \in Workers, Take(w)
    PROVE  QueueInv'
<1>1. /\ work[w] = Waiting
      /\ UNCHANGED <<written, tail, cursor, leased, dbOn, memOn, known, check, slow>>
  BY DEF Take, files, rows
<1>2. PICK s \in known : /\ Permitted(s) /\ served' = LastServed(s)
                         /\ entry' = [entry EXCEPT ![s].inFlight = TRUE]
                         /\ work' = [work EXCEPT ![w] = [pc |-> "taken", source |-> s]]
  BY Taken
<1>3. s \in Sources
  BY Types
<1>4. PICK d \in Works : /\ d.pc = "taken" /\ d.source = s /\ d # Waiting
                         /\ work' = [work EXCEPT ![w] = d]
  BY <1>2, <1>3 DEF Works, Waiting
<1>5. /\ work' \in [Workers -> Works] /\ work'[w] = d
      /\ \A v \in Workers : v # w => work'[v] = work[v]
  BY <1>4, Types
<1>6. PICK e \in Entries : /\ e = [entry[s] EXCEPT !.inFlight = TRUE]
                           /\ entry' = [entry EXCEPT ![s] = e]
  BY <1>2, <1>3, Types DEF Entries
<1>7. /\ e.inFlight /\ e.observed = entry[s].observed
      /\ entry' \in [Sources -> Entries] /\ entry'[s] = e
      /\ \A t \in Sources : t # s => entry'[t] = entry[t]
  BY <1>3, <1>6, Types DEF Entries
<1>8. Holders' = Holders \cup {w}
  BY <1>4, <1>5 DEF Holders
<1>9. \A v \in Holders : v # w /\ work[v].source # s /\ work'[v] = work[v]
  BY <1>1, <1>2, <1>5 DEF Holders, Permitted, SourceAt
<1>10. TypesHold'
  <2>1. \A v \in Holders' : SourceAt(v)' \in known'
    BY <1>1, <1>4, <1>5, <1>8, <1>9, Types DEF TypeOK, SourceAt
  <2>2. served' \in [Sources -> Nat] /\ \A t \in Sources : served'[t] > 0 => t \in known
    BY <1>2, TurnsAreCounted
  <2> QED
    BY <1>1, <1>5, <1>7, <2>1, <2>2, Taken, Types DEF TypesHold, TypeOK
<1>11. OneReader'
  BY <1>4, <1>5, <1>8, <1>9 DEF QueueInv, OneReader, SourceAt
<1>12. NotAhead'
  <2>1. \A t \in known' : NotAfter(entry'[t].observed, Fingerprint(t))
    BY <1>1, <1>7, Types DEF QueueInv, NotAhead
  <2>2. \A v \in Workers : work'[v].pc \in {"looked", "read", "done"} =>
            NotAfter(work'[v].seen, Fingerprint(work'[v].source))
    BY <1>4, <1>5 DEF QueueInv, NotAhead, SourceAt
  <2> QED
    BY <1>1, <2>1, <2>2 DEF QueueInv, NotAhead, SourceAt, Fingerprint, NotAfter
<1>13. CursorsAreBehind'
  BY <1>1, <1>4, <1>5 DEF QueueInv, CursorsAreBehind, SourceAt
<1>14. ReadsToTheEnd'
  <2> SUFFICES ASSUME NEW v \in Workers, work'[v].pc \in {"read", "done"}
               PROVE  work'[v] = work[v]
    BY <1>1 DEF QueueInv, ReadsToTheEnd, SourceAt, IdleAfter, Fingerprint
  <2> QED
    BY <1>4, <1>5
<1>15. InFlightIsRead'
  <2> SUFFICES ASSUME NEW t \in known
               PROVE  entry'[t].inFlight
                      <=> \E v \in Workers : work'[v].pc \in Reading /\ work'[v].source = t
    BY <1>1 DEF InFlightIsRead, SourceAt, Reading
  <2>1. CASE t = s
    BY <1>4, <1>5, <1>7, <2>1 DEF Reading
  <2>2. CASE t # s
    <3>1. \A v \in Workers : work'[v].pc \in Reading /\ work'[v].source = t
                             <=> work[v].pc \in Reading /\ work[v].source = t
      BY <1>1, <1>4, <1>5, <2>2 DEF Waiting, Reading
    <3> QED
      BY <1>7, <2>2, <3>1, Types DEF QueueInv, InFlightIsRead, SourceAt, Reading
  <2> QED
    BY <2>1, <2>2
<1>16. NoLostWakeup'
  <2> SUFFICES ASSUME NEW t \in known \cap Jsonl, entry'[t].idle, ~entry'[t].inFlight
               PROVE  \/ cursor[t] = written[t] \/ entry'[t].observed # Fingerprint(t) \/ t \in slow
    BY <1>1 DEF NoLostWakeup, Fingerprint
  <2>1. t # s
    BY <1>7
  <2> QED
    BY <1>7, <2>1, Types DEF QueueInv, NoLostWakeup
<1> QED
  BY <1>10, <1>11, <1>12, <1>13, <1>14, <1>15, <1>16 DEF QueueInv

\* What the worker remembers becomes the entry; nobody else has the source.
LEMMA FinishKeeps ==
    ASSUME QueueInv, NEW w \in Workers, Finish(w)
    PROVE  QueueInv'
<1>1. PICK s \in known : s = SourceAt(w) /\ s \in Sources /\ w \in Holders
  BY Doing, Types DEF Finish, Waiting
<1>2. /\ work[w].pc = "done"
      /\ UNCHANGED <<written, tail, cursor, leased, dbOn, memOn, known, served, turns, next, check, slow>>
  BY DEF Finish, files, rows
<1>3. /\ work[w].seen \in Prints /\ work[w].ok \in BOOLEAN /\ NotAfter(work[w].seen, Fingerprint(s))
      /\ work[w].seen = Fingerprint(s) /\ work[w].ok /\ IdleAfter(w) => cursor[s] = written[s] \/ s \in slow
  BY <1>1, <1>2, Doing DEF QueueInv, NotAhead, ReadsToTheEnd
<1>4. PICK e \in Entries : /\ e.observed = work[w].seen /\ ~e.inFlight
                           /\ e.idle => work[w].ok /\ IdleAfter(w)
                           /\ entry' = [entry EXCEPT ![s] = e]
  <2>1. PICK idle \in BOOLEAN, ready \in BOOLEAN :
            idle = (work[w].ok /\ IdleAfter(w)) /\ ready = (work[w].ok /\ ~IdleAfter(w))
    BY Zenon
  <2>2. idle => work[w].ok /\ IdleAfter(w)
    BY <2>1, Zenon
  <2>3. EntryAfter(w) = [observed |-> work[w].seen, idle |-> idle, ready |-> ready, inFlight |-> FALSE]
    BY <2>1 DEF EntryAfter, SeenBefore
  <2> QED
    BY <1>1, <1>3, <2>2, <2>3 DEF Finish, Entries
<1>5. /\ entry' \in [Sources -> Entries] /\ entry'[s] = e
      /\ \A t \in Sources : t # s => entry'[t] = entry[t]
  BY <1>1, <1>4, Types
<1>6. PICK d \in Works : d.pc = "finished" /\ d.source = s /\ d # Waiting
                         /\ work' = [work EXCEPT ![w] = d]
  BY <1>1 DEF Finish, Becomes, Works, Waiting
<1>7. /\ work' \in [Workers -> Works] /\ work'[w] = d
      /\ \A v \in Workers : v # w => work'[v] = work[v]
  BY <1>6, Types
<1>8. Holders' = Holders /\ \A v \in Holders : SourceAt(v)' = SourceAt(v)
  BY <1>1, <1>6, <1>7 DEF Holders, SourceAt
<1>9. \A v \in Holders : v # w => work[v].source # s
  BY <1>1 DEF QueueInv, OneReader, SourceAt
<1>10. TypesHold' /\ OneReader'
  <2>1. \A v \in Holders' : SourceAt(v)' \in known'
    BY <1>2, <1>8, Types DEF TypeOK
  <2>2. TypesHold'
    BY <1>2, <1>5, <1>7, <2>1, Types DEF TypesHold, TypeOK
  <2>3. OneReader'
    BY <1>8 DEF QueueInv, OneReader
  <2> QED
    BY <2>2, <2>3
<1>11. NotAhead'
  <2>1. \A t \in known' : NotAfter(entry'[t].observed, Fingerprint(t))
    BY <1>2, <1>3, <1>4, <1>5, Types DEF QueueInv, NotAhead
  <2>2. \A v \in Workers : work'[v].pc \in {"looked", "read", "done"} =>
            NotAfter(work'[v].seen, Fingerprint(work'[v].source))
    BY <1>6, <1>7 DEF QueueInv, NotAhead, SourceAt
  <2> QED
    BY <1>2, <2>1, <2>2 DEF QueueInv, NotAhead, SourceAt, Fingerprint, NotAfter
<1>12. CursorsAreBehind'
  BY <1>2, <1>6, <1>7 DEF QueueInv, CursorsAreBehind, SourceAt
<1>13. ReadsToTheEnd'
  <2> SUFFICES ASSUME NEW v \in Workers, work'[v].pc \in {"read", "done"}
               PROVE  work'[v] = work[v]
    BY <1>2 DEF QueueInv, ReadsToTheEnd, SourceAt, IdleAfter, Fingerprint
  <2> QED
    BY <1>6, <1>7
<1>14. InFlightIsRead'
  <2> SUFFICES ASSUME NEW t \in known
               PROVE  entry'[t].inFlight
                      <=> \E v \in Workers : work'[v].pc \in Reading /\ work'[v].source = t
    BY <1>2 DEF InFlightIsRead, SourceAt, Reading
  <2>1. CASE t = s
    <3>1. \A v \in Workers : work'[v].pc \in Reading => v # w /\ work'[v] = work[v] /\ v \in Holders
      BY <1>6, <1>7 DEF Reading, Holders, Waiting
    <3> QED
      BY <1>4, <1>5, <1>9, <2>1, <3>1
  <2>2. CASE t # s
    <3>1. \A v \in Workers : work'[v].pc \in Reading /\ work'[v].source = t
                             <=> work[v].pc \in Reading /\ work[v].source = t
      BY <1>1, <1>6, <1>7, <2>2 DEF Reading, SourceAt
    <3> QED
      BY <1>5, <2>2, <3>1, Types DEF QueueInv, InFlightIsRead, SourceAt, Reading
  <2> QED
    BY <2>1, <2>2
<1>15. NoLostWakeup'
  <2> SUFFICES ASSUME NEW t \in known \cap Jsonl, entry'[t].idle, ~entry'[t].inFlight
               PROVE  \/ cursor[t] = written[t] \/ entry'[t].observed # Fingerprint(t) \/ t \in slow
    BY <1>2 DEF NoLostWakeup, Fingerprint
  <2>1. CASE t = s
    BY <1>3, <1>4, <1>5, <2>1
  <2>2. CASE t # s
    BY <1>5, <2>2, Types DEF QueueInv, NoLostWakeup
  <2> QED
    BY <2>1, <2>2
<1> QED
  BY <1>10, <1>11, <1>12, <1>13, <1>14, <1>15 DEF QueueInv

LEMMA DropKeeps ==
    ASSUME QueueInv, NEW w \in Workers, DropPermit(w)
    PROVE  QueueInv'
<1>1. /\ work[w].pc = "finished" /\ work' = [work EXCEPT ![w] = Waiting]
      /\ UNCHANGED <<written, tail, cursor, leased, dbOn, memOn, known, entry, served, turns, next,
                     check, slow>>
  BY DEF DropPermit, Becomes, files, rows, queue
<1>2. /\ work' \in [Workers -> Works] /\ work'[w] = Waiting
      /\ \A v \in Workers : v # w => work'[v] = work[v]
  BY <1>1, Types DEF Works
<1>3. Holders' \subseteq Holders /\ \A v \in Holders' : SourceAt(v)' = SourceAt(v)
  BY <1>2 DEF Holders, SourceAt
<1>4. \A v \in Workers : work'[v].pc # "waiting" => work'[v] = work[v]
  BY <1>2 DEF Waiting
<1>5. TypesHold'
  <2>1. \A v \in Holders' : SourceAt(v)' \in known'
    BY <1>1, <1>3, Types DEF TypeOK
  <2> QED
    BY <1>1, <1>2, <2>1, Types DEF TypesHold, TypeOK
<1>6. OneReader'
  BY <1>3 DEF QueueInv, OneReader
<1>7. NotAhead' /\ CursorsAreBehind'
  BY <1>1, <1>4 DEF QueueInv, NotAhead, CursorsAreBehind, SourceAt, Fingerprint, NotAfter
<1>8. ReadsToTheEnd'
  BY <1>1, <1>4 DEF QueueInv, ReadsToTheEnd, SourceAt, IdleAfter, Fingerprint
<1>9. InFlightIsRead'
  <2> SUFFICES ASSUME NEW t \in known
               PROVE  entry[t].inFlight
                      <=> \E v \in Workers : work'[v].pc \in Reading /\ work'[v].source = t
    BY <1>1 DEF InFlightIsRead, SourceAt, Reading
  <2>1. \A v \in Workers : work'[v].pc \in Reading /\ work'[v].source = t
                           <=> work[v].pc \in Reading /\ work[v].source = t
    BY <1>1, <1>2 DEF Reading, Waiting
  <2> QED
    BY <2>1 DEF QueueInv, InFlightIsRead, SourceAt, Reading
<1>10. NoLostWakeup'
  BY <1>1 DEF QueueInv, NoLostWakeup, Fingerprint
<1> QED
  BY <1>5, <1>6, <1>7, <1>8, <1>9, <1>10 DEF QueueInv

-----------------------------------------------------------------------------
(* Every behaviour.                                                        *)

\* A process that begins has no queue and no workers.
LEMMA BeginsSound ==
    ASSUME /\ written' \in [Sources -> Nat] /\ tail' \in [Sources -> BOOLEAN]
           /\ cursor' \in [Sources -> Nat] /\ leased' \in [Sources -> BOOLEAN]
           /\ dbOn' \in [Range(Harnesses) -> BOOLEAN] /\ memOn' \in [Range(Harnesses) -> BOOLEAN],
           \A s \in Sources : cursor'[s] <= written'[s],
           known' = {}, entry' = [s \in Sources |-> NoEntry],
           served' = [s \in Sources |-> 0], turns' = [h \in Range(Harnesses) |-> 0], next' = 1,
           work' = [w \in Workers |-> Waiting], check' = NoCheck
    PROVE  QueueInv'
<1>1. entry' \in [Sources -> Entries] /\ work' \in [Workers -> Works] /\ check' \in Checks
  BY DEF NoEntry, Entries, Prints, Works, Checks
<1>2. \A w \in Workers : work'[w] = Waiting /\ work'[w].pc = "waiting"
  BY DEF Waiting
<1>3. Holders' = {}
  BY <1>2 DEF Holders
<1>4. turns' \in [Range(Harnesses) -> 0 .. FairEvery - 1] /\ next' \in 1 .. Len(Harnesses)
  <2>1. Len(Harnesses) \in Nat \ {0}
    OBVIOUS
  <2> QED
    BY <2>1
<1>5. TypesHold' /\ OneReader'
  BY <1>1, <1>3, <1>4 DEF TypesHold, TypeOK, OneReader
<1>6. NotAhead' /\ CursorsAreBehind' /\ ReadsToTheEnd'
  BY <1>2 DEF NotAhead, CursorsAreBehind, ReadsToTheEnd, NoCheck
<1>7. InFlightIsRead' /\ NoLostWakeup'
  BY DEF InFlightIsRead, NoLostWakeup
<1> QED
  BY <1>5, <1>6, <1>7 DEF QueueInv

LEMMA CrashKeeps ==
    ASSUME QueueInv, Crash
    PROVE  QueueInv'
BY BeginsSound, Types DEF Crash, TypeOK, QueueInv, CursorsAreBehind, files, rows

LEMMA Begins == Init => QueueInv
<1> SUFFICES ASSUME Init
             PROVE  QueueInv
  OBVIOUS
<1>1. entry \in [Sources -> Entries] /\ work \in [Workers -> Works] /\ check \in Checks
  BY DEF Init, NoEntry, Entries, Prints, Works, Checks
<1>2. \A w \in Workers : work[w] = Waiting /\ work[w].pc = "waiting"
  BY DEF Init, Waiting
<1>3. Holders = {}
  BY <1>2 DEF Holders
<1>4. turns \in [Range(Harnesses) -> 0 .. FairEvery - 1] /\ next \in 1 .. Len(Harnesses)
  <2>1. Len(Harnesses) \in Nat \ {0}
    OBVIOUS
  <2> QED
    BY <2>1 DEF Init
<1>5. TypesHold /\ OneReader
  BY <1>1, <1>3, <1>4 DEF Init, TypesHold, TypeOK, OneReader
<1>6. NotAhead /\ CursorsAreBehind /\ ReadsToTheEnd
  BY <1>2 DEF Init, NotAhead, CursorsAreBehind, ReadsToTheEnd, NoCheck
<1>7. InFlightIsRead /\ NoLostWakeup
  BY DEF Init, InFlightIsRead, NoLostWakeup
<1> QED
  BY <1>5, <1>6, <1>7 DEF QueueInv

LEMMA StepKeeps ==
    ASSUME QueueInv, [Next]_vars
    PROVE  QueueInv'
<1>1. ASSUME NEW s \in Sources, WriteHalf(s) \/ WriteRest(s) \/ LeaseLapses(s) \/ SourceIsDue(s)
                                \/ Discover(s) \/ RefreshList(s)
      PROVE  QueueInv'
  BY <1>1, WriteKeeps, LapseKeeps, DueKeeps, DiscoverKeeps, LooksKeep
<1>2. ASSUME NEW h \in Range(Harnesses), SwitchHarness(h) \/ RowsFollow(h)
      PROVE  QueueInv'
  BY <1>2, SwitchKeeps
<1>3. ASSUME NEW w \in Workers, Take(w) \/ Step(w) \/ ReadTooSlow(w) \/ AttemptFails(w)
      PROVE  QueueInv'
  BY <1>3, TakeKeeps, LookKeeps, ReadKeeps, CommitKeeps, FailedKeeps, FinishKeeps, DropKeeps DEF Step
<1>4. CASE Tick
  BY <1>4, LooksKeep, RefreshKeeps DEF Tick
<1>5. CASE Crash
  BY <1>5, CrashKeeps
<1>6. CASE UNCHANGED vars
  <2>1. /\ UNCHANGED <<written, tail, cursor, leased, dbOn, memOn, known, entry, served, turns, next,
                       work, check, slow>>
    BY <1>6 DEF vars, files, rows, queue
  <2>2. /\ leased' \in [Sources -> BOOLEAN] /\ dbOn' \in [Range(Harnesses) -> BOOLEAN]
        /\ memOn' \in [Range(Harnesses) -> BOOLEAN] /\ check' \in Checks
        /\ (check'.pc = "looked" => NotAfter(check'.current, Fingerprint(check'.source)))
    BY <2>1, Types DEF TypeOK, QueueInv, NotAhead
  <2> QED
    BY <2>1, <2>2, RestKeeps
<1> QED
  BY <1>1, <1>2, <1>3, <1>4, <1>5, <1>6 DEF Next

\* The inductive invariant: besides the soundness of the queue, that no two workers
\* have one source, that no fingerprint is ahead of its file, that cursors are within
\* their files and that a read of an unchanged file got to its end or said otherwise.
THEOREM QueueInvariant == Spec => []QueueInv
<1>1. QueueInv /\ [Next]_vars => QueueInv'
  BY StepKeeps
<1> QED
  BY <1>1, Begins, PTL DEF Spec

\* For any number of sources, harnesses and workers, whatever fails and however the
\* looks, reads and ends of workers and refresh interleave (runtime.rs): an idle
\* source has nothing unread that a change of its file will not show, and a source is
\* in flight exactly while a worker of this process has it.
THEOREM QueueStaysSound == Spec => []QueueIsSound
<1>1. QueueInv => QueueIsSound
  BY DEF QueueInv, TypesHold, QueueIsSound
<1> QED
  BY <1>1, QueueInvariant, PTL

=============================================================================

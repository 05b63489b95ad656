---------------------------- MODULE Acquisition ----------------------------
(***************************************************************************)
(* How the sources of one process are found, queued, read and woken again  *)
(* (runtime.rs and runner/scheduler.rs): four workers take ready sources   *)
(* under a global and a per-harness limit, a maintenance tick discovers    *)
(* new sources and wakes idle ones whose files changed, the user switches  *)
(* harnesses and the process may die.                                      *)
(*                                                                         *)
(* A file is its complete records and whether an incomplete line follows   *)
(* them; both show in its length and time, so they are its fingerprint.    *)
(* Deadlines are flags that any time may raise.  Reading and committing is *)
(* what SourceLease details; here an attempt is lease and read, then       *)
(* commit.                                                                 *)
(***************************************************************************)
EXTENDS Integers, Sequences, FiniteSets, Functions

CONSTANTS
    Sources,
    Harnesses,     \* registry.harness_ids(), a sequence
    HarnessOf,     \* [Sources -> harness]
    Jsonl,         \* the sources that are only read again when their file changed
    Undecodable,   \* the sources whose next record no decoder accepts
    Workers,
    GlobalLimit, PerHarness,
    FairEvery,     \* each such turn of a harness goes to the longest waiting source
    Budget,        \* records one read may return
    MaxLen,        \* [Sources -> Nat]: bound on the records of a file
    MaxMishaps     \* bound on failed attempts, slow reads, switchings and crashes

ASSUME AcquisitionAssumption ==
    /\ Harnesses \in Seq(Range(Harnesses)) /\ Len(Harnesses) > 0
    /\ IsFiniteSet(Sources) /\ HarnessOf \in [Sources -> Range(Harnesses)]
    /\ Jsonl \subseteq Sources /\ Undecodable \subseteq Sources
    /\ GlobalLimit \in Nat \ {0} /\ PerHarness \in Nat \ {0}
    /\ FairEvery \in Nat \ {0} /\ Budget \in Nat \ {0}
    /\ MaxLen \in [Sources -> Nat] /\ MaxMishaps \in Nat

VARIABLES
    \* the files
    written,   \* written[s]: complete records
    tail,      \* tail[s]: an incomplete line follows
    \* collection_sources
    cursor, leased,
    dbOn,      \* dbOn[h]: enabled, for the sources of h
    \* the process: harness switches, work queue, scan and refresh in progress
    memOn,
    known,     \* the sources in the queue
    entry,     \* entry[s]: its QueuedSource
    served,    \* served[s]: last_served, as its rank among the sources taken; 0 for none
    turns,     \* turns[h]: harness_turns % FairEvery
    next,      \* next_harness
    work,      \* work[w]: what worker w is doing
    check,     \* the source refresh_sources looks at
    \* the bound, and what happened
    mishaps,
    slow       \* the sources whose last read ran out of time before its first record

files == <<written, tail>>
rows == <<cursor, leased, dbOn>>
queue == <<known, entry, served, turns, next>>
vars == <<files, rows, memOn, queue, work, check, mishaps, slow>>

Prints == Nat \X BOOLEAN
Fingerprint(s) == <<written[s], tail[s]>>

Entries == [observed: Prints, ready: BOOLEAN, idle: BOOLEAN, inFlight: BOOLEAN]
NoEntry == [observed |-> <<0, FALSE>>, ready |-> FALSE, idle |-> FALSE, inFlight |-> FALSE]

\* A worker holds its permit from taking a source to the end of acquire_one.
Waiting == [pc |-> "waiting"]
NoCheck == [pc |-> "none"]

SourceAt(w) == work[w].source
Holders == {w \in Workers : work[w] # Waiting}

Becomes(w, doing) == work' = [work EXCEPT ![w] = doing]

-----------------------------------------------------------------------------
(* The files, the user and the clock.                                      *)

\* A harness writes part of a line, or the rest of it.
WriteHalf(s) ==
    /\ ~tail[s] /\ written[s] < MaxLen[s]
    /\ tail' = [tail EXCEPT ![s] = TRUE]
    /\ UNCHANGED <<written, rows, memOn, queue, work, check, mishaps, slow>>

WriteRest(s) ==
    /\ tail[s] /\ written[s] < MaxLen[s]
    /\ \E more \in BOOLEAN : tail' = [tail EXCEPT ![s] = more]
    /\ written' = [written EXCEPT ![s] = @ + 1]
    /\ UNCHANGED <<rows, memOn, queue, work, check, mishaps, slow>>

\* set_harness_enabled: the switch in memory first, then the rows.
SwitchHarness(h) ==
    /\ mishaps < MaxMishaps /\ mishaps' = mishaps + 1
    /\ memOn[h] = dbOn[h]
    /\ memOn' = [memOn EXCEPT ![h] = ~@]
    /\ UNCHANGED <<files, rows, queue, work, check, slow>>

RowsFollow(h) ==
    /\ memOn[h] # dbOn[h]
    /\ dbOn' = [dbOn EXCEPT ![h] = memOn[h]]
    /\ UNCHANGED <<files, cursor, leased, memOn, queue, work, check, mishaps, slow>>

\* A lease is not renewed; the row has lapsed once its time is over.
LeaseLapses(s) ==
    /\ leased[s]
    /\ leased' = [leased EXCEPT ![s] = FALSE]
    /\ UNCHANGED <<files, cursor, dbOn, memOn, queue, work, check, mishaps, slow>>

\* ready_at <= now
SourceIsDue(s) ==
    /\ s \in known /\ ~entry[s].ready
    /\ entry' = [entry EXCEPT ![s].ready = TRUE]
    /\ UNCHANGED <<files, rows, memOn, known, served, turns, next, work, check, mishaps, slow>>

\* The process dies and another one starts: queue and leases of the runs are lost.
Crash ==
    /\ mishaps < MaxMishaps /\ mishaps' = mishaps + 1
    /\ known' = {} /\ entry' = [s \in Sources |-> NoEntry]
    /\ served' = [s \in Sources |-> 0] /\ turns' = [h \in Range(Harnesses) |-> 0] /\ next' = 1
    /\ work' = [w \in Workers |-> Waiting]
    /\ check' = NoCheck /\ slow' = {}
    /\ UNCHANGED <<files, rows, memOn>>

-----------------------------------------------------------------------------
(* The maintenance tick.                                                   *)

\* discover_and_register.  Nothing is read before the new entry is pushed, so the
\* scan may count as one step.
Discover(s) ==
    /\ s \notin known /\ memOn[HarnessOf[s]]
    /\ known' = known \cup {s}
    /\ entry' = [entry EXCEPT ![s] = [observed |-> Fingerprint(s), ready |-> FALSE,
                                      idle |-> FALSE, inFlight |-> FALSE]]
    /\ UNCHANGED <<files, rows, memOn, served, turns, next, work, check, mishaps, slow>>

\* refresh_sources: what the queue observed, then the file, then the queue again.
\* It treats its sources apart from each other, so one at a time will do.
RefreshList(s) ==
    /\ check = NoCheck
    /\ s \in known /\ ~entry[s].inFlight
    /\ check' = [pc |-> "listed", source |-> s, old |-> entry[s].observed]
    /\ UNCHANGED <<files, rows, memOn, queue, work, mishaps, slow>>

RefreshLook ==
    /\ check.pc = "listed"
    /\ check' = IF Fingerprint(check.source) = check.old THEN NoCheck
                ELSE [pc |-> "looked", source |-> check.source, old |-> check.old,
                      current |-> Fingerprint(check.source)]
    /\ UNCHANGED <<files, rows, memOn, queue, work, mishaps, slow>>

StaleCheck(s) == entry[s].inFlight \/ entry[s].observed # check.old

RefreshSet ==
    /\ check.pc = "looked"
    /\ LET s == check.source IN
       entry' = IF StaleCheck(s) THEN entry
                ELSE [entry EXCEPT ![s].observed = check.current, ![s].idle = FALSE,
                                   ![s].ready = TRUE]
    /\ check' = NoCheck
    /\ UNCHANGED <<files, rows, memOn, known, served, turns, next, work, mishaps, slow>>

-----------------------------------------------------------------------------
(* A worker: acquire_one.                                                  *)

\* The sources of h that may be taken.
Ready(h) ==
    {s \in known : /\ HarnessOf[s] = h
                   /\ ~entry[s].inFlight /\ entry[s].ready
                   /\ ~entry[s].idle \/ s \notin Jsonl}

\* The turn is the latest of all: those after the former one move up.
LastServed(s) ==
    [t \in Sources |-> IF t = s THEN Cardinality({s} \cup {r \in Sources : served[r] > 0})
                       ELSE IF 0 < served[s] /\ served[s] < served[t] THEN served[t] - 1
                       ELSE served[t]]

RecentFirst(h) == Ready(h)   \* mutant: no turn is reserved

\* On a fair turn the source served longest ago; on another turn it depends on
\* which files changed today, which is left open.
Preferred(h) ==
    IF turns[h] = FairEvery - 1
    THEN {s \in Ready(h) : \A t \in Ready(h) : served[s] <= served[t]}
    ELSE Ready(h)

\* AcquisitionScheduler::try_acquire
Permitted(s) ==
    /\ Cardinality(Holders) < GlobalLimit
    /\ Cardinality({w \in Holders : HarnessOf[SourceAt(w)] = HarnessOf[s]}) < PerHarness
    /\ \A w \in Holders : SourceAt(w) # s

\* The harness i places after next_harness.
Harness(i) == 1 + ((next + i - 1) % Len(Harnesses))

NextAfter(i) == 1 + (Harness(i) % Len(Harnesses))

\* The first harness in rotation whose preferred source gets a permit; earlier ones
\* are off, have nothing ready or are at their limit.
Take(w) ==
    /\ work[w] = Waiting
    /\ \E i \in 0 .. Len(Harnesses) - 1 :
          LET h == Harnesses[Harness(i)] IN
          /\ memOn[h]
          /\ \A j \in 0 .. i - 1 :
                LET g == Harnesses[Harness(j)] IN
                memOn[g] /\ Preferred(g) # {} => \E t \in Preferred(g) : ~Permitted(t)
          /\ \E s \in Preferred(h) :
                /\ Permitted(s)
                /\ entry' = [entry EXCEPT ![s].inFlight = TRUE]
                /\ served' = LastServed(s)
                /\ Becomes(w, [pc |-> "taken", source |-> s])
          /\ turns' = [turns EXCEPT ![h] = (@ + 1) % FairEvery]
          /\ next' = NextAfter(i)
    /\ UNCHANGED <<files, rows, memOn, known, check, mishaps, slow>>

\* "Capture before reading: an append during the read remains detectable."
Look(w) ==
    /\ work[w].pc = "taken"
    /\ Becomes(w, [pc |-> "looked", source |-> SourceAt(w), seen |-> Fingerprint(SourceAt(w))])
    /\ UNCHANGED <<files, rows, memOn, queue, check, mishaps, slow>>

\* Leases the source and reads from its cursor to record n.
ReadUpTo(w, n) ==
    /\ work[w].pc = "looked"
    /\ LET s == SourceAt(w) IN
       /\ dbOn[HarnessOf[s]] /\ ~leased[s] /\ s \notin Undecodable
       /\ leased' = [leased EXCEPT ![s] = TRUE]
       /\ Becomes(w, [pc |-> "read", source |-> s, seen |-> work[w].seen,
                      upto |-> n, more |-> n < written[s] \/ tail[s]])
    /\ UNCHANGED <<files, cursor, dbOn, memOn, queue, check>>

Read(w) ==
    /\ work[w].pc = "looked"
    /\ LET s == SourceAt(w) IN
       /\ \E n \in cursor[s] .. cursor[s] + Budget :
             /\ n <= written[s]
             /\ n = cursor[s] => n = written[s]
             /\ ReadUpTo(w, n)
       /\ slow' = slow \ {s}
    /\ UNCHANGED mishaps

\* The time budget is over before the first line.
ReadTooSlow(w) ==
    /\ work[w].pc = "looked"
    /\ LET s == SourceAt(w) IN
       /\ cursor[s] < written[s]
       /\ ReadUpTo(w, cursor[s])
       /\ slow' = slow \cup {s}
    /\ mishaps < MaxMishaps /\ mishaps' = mishaps + 1

Commit(w) ==
    /\ work[w].pc = "read"
    /\ LET s == SourceAt(w) IN
       /\ dbOn[HarnessOf[s]]
       /\ cursor' = [cursor EXCEPT ![s] = work[w].upto]
       /\ leased' = [leased EXCEPT ![s] = FALSE]
       /\ Becomes(w, [pc |-> "done", source |-> s, seen |-> work[w].seen, ok |-> TRUE,
                      more |-> work[w].more, advanced |-> work[w].upto > cursor[s]])
    /\ UNCHANGED <<files, dbOn, memOn, queue, check, mishaps, slow>>

\* The attempt comes to nothing; the lease may or may not be given back.
Failed(w) ==
    /\ Becomes(w, [pc |-> "done", source |-> SourceAt(w), seen |-> work[w].seen, ok |-> FALSE,
                   more |-> FALSE, advanced |-> FALSE])
    /\ UNCHANGED <<files, cursor, dbOn, memOn, queue, check>>

\* The harness is off, the lease is held or no decoder accepts the record.
Refused(w) ==
    /\ \/ /\ work[w].pc = "looked"
          /\ \/ ~dbOn[HarnessOf[SourceAt(w)]] \/ leased[SourceAt(w)]
             \/ SourceAt(w) \in Undecodable
       \/ work[w].pc = "read" /\ ~dbOn[HarnessOf[SourceAt(w)]]
    /\ Failed(w)
    /\ UNCHANGED <<leased, mishaps, slow>>

\* The read fails, the writer's queue is full or the commit conflicts.
AttemptFails(w) ==
    /\ work[w].pc \in {"looked", "read"}
    /\ mishaps < MaxMishaps /\ mishaps' = mishaps + 1
    /\ Failed(w)
    /\ UNCHANGED <<leased, slow>>

IdleAfter(w) == ~work[w].more \/ ~work[w].advanced

SeenAfterwards(w) == Fingerprint(SourceAt(w))   \* mutant: looked at after the read

SeenBefore(w) == work[w].seen

EntryAfter(w) ==
    [observed |-> SeenBefore(w), idle |-> work[w].ok /\ IdleAfter(w),
     ready |-> work[w].ok /\ ~IdleAfter(w), inFlight |-> FALSE]

\* The queue learns how it ended; the permit is still held.
Finish(w) ==
    /\ work[w].pc = "done"
    /\ entry' = [entry EXCEPT ![SourceAt(w)] = EntryAfter(w)]
    /\ Becomes(w, [pc |-> "finished", source |-> SourceAt(w)])
    /\ UNCHANGED <<files, rows, memOn, known, served, turns, next, check, mishaps, slow>>

DropPermit(w) ==
    /\ work[w].pc = "finished"
    /\ Becomes(w, Waiting)
    /\ UNCHANGED <<files, rows, memOn, queue, check, mishaps, slow>>

-----------------------------------------------------------------------------

Init ==
    /\ written = [s \in Sources |-> 0] /\ tail = [s \in Sources |-> FALSE]
    /\ cursor = [s \in Sources |-> 0] /\ leased = [s \in Sources |-> FALSE]
    /\ dbOn = [h \in Range(Harnesses) |-> TRUE] /\ memOn = [h \in Range(Harnesses) |-> TRUE]
    /\ known = {} /\ entry = [s \in Sources |-> NoEntry]
    /\ served = [s \in Sources |-> 0] /\ turns = [h \in Range(Harnesses) |-> 0] /\ next = 1
    /\ work = [w \in Workers |-> Waiting] /\ check = NoCheck
    /\ mishaps = 0 /\ slow = {}

Step(w) ==
    Look(w) \/ Read(w) \/ Commit(w) \/ Refused(w) \/ Finish(w) \/ DropPermit(w)

Tick == RefreshLook \/ RefreshSet

Next ==
    \/ \E s \in Sources :
          \/ WriteHalf(s) \/ WriteRest(s) \/ LeaseLapses(s) \/ SourceIsDue(s)
          \/ Discover(s) \/ RefreshList(s)
    \/ \E h \in Range(Harnesses) : SwitchHarness(h) \/ RowsFollow(h)
    \/ \E w \in Workers : Take(w) \/ Step(w) \/ ReadTooSlow(w) \/ AttemptFails(w)
    \/ Tick
    \/ Crash

\* Idle workers poll at least every 500 ms, the tick comes every second, refreshes
\* every known file every five, and deadlines pass.
Fairness ==
    /\ \A s \in Sources : WF_vars(LeaseLapses(s)) /\ WF_vars(SourceIsDue(s))
                          /\ WF_vars(Discover(s)) /\ SF_vars(RefreshList(s))
    /\ \A h \in Range(Harnesses) : WF_vars(RowsFollow(h))
    /\ \A w \in Workers : WF_vars(Take(w)) /\ WF_vars(Step(w))
    /\ WF_vars(Tick)

Spec == Init /\ [][Next]_vars /\ Fairness

-----------------------------------------------------------------------------
(* Properties.                                                             *)

\* Type correctness of the queue, of the rows and of what workers remember.
TypeOK ==
    /\ written \in [Sources -> Nat] /\ tail \in [Sources -> BOOLEAN]
    /\ cursor \in [Sources -> Nat] /\ leased \in [Sources -> BOOLEAN]
    /\ dbOn \in [Range(Harnesses) -> BOOLEAN] /\ memOn \in [Range(Harnesses) -> BOOLEAN]
    /\ known \subseteq Sources /\ entry \in [Sources -> Entries]
    /\ served \in [Sources -> Nat] /\ \A s \in Sources : served[s] > 0 => s \in known
    /\ turns \in [Range(Harnesses) -> 0 .. FairEvery - 1] /\ next \in 1 .. Len(Harnesses)
    /\ \A w \in Holders : SourceAt(w) \in known

\* No wakeup is lost: an idle source that is only woken by a change of its file has
\* no unread record, or its file differs from what the queue observed; only a read
\* that ran out of time before its first record passes for the end of the file.
NoLostWakeup ==
    \A s \in known \cap Jsonl :
        entry[s].idle /\ ~entry[s].inFlight
        => \/ cursor[s] = written[s] \/ entry[s].observed # Fingerprint(s)
           \/ s \in slow

\* A source is marked in flight exactly while a worker of this process reads it, so
\* the queue never offers a source twice nor forgets to offer one again.
InFlightIsRead ==
    \A s \in known :
        entry[s].inFlight
        <=> \E w \in Workers : work[w].pc \in {"taken", "looked", "read", "done"} /\ SourceAt(w) = s

\* Types hold, and the queue under the mutex agrees with the files and the workers,
\* whose looks, reads and ends happen outside it: no wakeup is lost, no source is
\* offered twice or forgotten.
QueueIsSound == TypeOK /\ InFlightIsRead /\ NoLostWakeup

\* Every record of a readable source is read in the end, whatever other sources do
\* and however the process died, unless the user switches its harness off or a read
\* ran out of time before its first record.
EveryRecordIsRead ==
    \A s \in Sources \ Undecodable :
        []<>(cursor[s] = written[s] \/ ~memOn[HarnessOf[s]] \/ s \in slow)

=============================================================================

----------------------------- MODULE SetupPlan ------------------------------
(***************************************************************************)
(* How a setup plan changes files, directories and variables that belong   *)
(* to the user (crates/config-executor): prepare reads every target and    *)
(* works out what it shall hold, back_up keeps what it held, the targets   *)
(* are written one after the other and verified, and on any error those    *)
(* already written are rolled back.  Several executors may be at work, one *)
(* for each command that persists the control file, and so may the user.   *)
(* Backups are kept in memory.                                             *)
(*                                                                         *)
(* A target holds marks: one for each edit of the user that is in it, and  *)
(* that of the executor whose values it has.  All plans set the same keys, *)
(* each to values of its own.                                              *)
(***************************************************************************)
EXTENDS Naturals, Sequences, FiniteSets, Functions

CONSTANTS
    Executors,
    Plan,       \* the targets of the mutations, in order
    Kind,       \* [Targets -> Kinds]
    Existing,   \* the targets that are there at the start
    Edits,      \* what the user may change
    Missing,    \* {Missing}: the target does not exist
    MaxMishaps  \* bound on errors and crashes

Targets == Range(Plan)
Kinds == {"file", "environment", "directory"}

ASSUME SetupAssumption ==
    /\ Plan \in Seq(Targets) /\ IsInjective(Plan) /\ Len(Plan) > 0
    /\ Kind \in [Targets -> Kinds] /\ Existing \subseteq Targets
    /\ Missing \notin Edits \cup Executors /\ Edits \cap Executors = {}
    /\ MaxMishaps \in Nat

VARIABLES
    holds,   \* holds[t]: the marks in t
    made,    \* the edits made so far
    run,     \* run[x]: the state of executor x
    mishaps

vars == <<holds, made, run, mishaps>>

None == {Missing}
Contents == {None} \cup SUBSET (Edits \cup Executors)

Endings == {"applied", "rolled_back", "failed", "dead"}
Attempts ==
    [status : {"proposed", "applying", "verifying", "rolling_back"} \cup Endings,
     step : {"prepare", "back_up", "write", "read_back", "check", "restore"},
     at : Nat, before : [Targets -> Contents], seen : Contents,
     applied : Nat, errors : SUBSET Targets]

Proposed == [status |-> "proposed", step |-> "prepare", at |-> 1,
             before |-> [t \in Targets |-> None], seen |-> None,
             applied |-> 0, errors |-> {}]

Target(x) == Plan[run[x].at]
Becomes(x, attempt) == run' = [run EXCEPT ![x] = attempt]
IsAt(x, status, step) == run[x].status = status /\ run[x].step = step

Mishap == mishaps < MaxMishaps /\ mishaps' = mishaps + 1

\* What prepare works out for t: files are merged, variables replaced.
After(x, t) ==
    IF Kind[t] = "file" THEN (run[x].before[t] \cap Edits) \cup {x} ELSE {x}

-----------------------------------------------------------------------------
(* Rolling back.                                                           *)

RolledBack(attempt) ==
    [attempt EXCEPT !.status = IF attempt.errors = {} THEN "rolled_back" ELSE "failed",
                    !.at = 1]

StoppedAtError(attempt) ==   \* mutant: the first error ends the rollback
    IF attempt.at = 1 \/ attempt.errors # {} THEN RolledBack(attempt)
    ELSE [attempt EXCEPT !.step = "check", !.at = @ - 1]

\* The next target in reverse order, whether or not this one was restored.
Onwards(attempt) ==
    IF attempt.at = 1 THEN RolledBack(attempt)
    ELSE [attempt EXCEPT !.step = "check", !.at = @ - 1]

\* fail_and_rollback of the first n targets
RollingBack(attempt, n) ==
    IF n = 0 THEN RolledBack([attempt EXCEPT !.applied = 0])
    ELSE [attempt EXCEPT !.status = "rolling_back", !.step = "check", !.at = n,
                         !.applied = n]

WithError(x) == [run[x] EXCEPT !.errors = @ \cup {Target(x)}]

UnchangedSinceAny(x) == TRUE   \* mutant: what the target holds now is not looked at

UnchangedSince(x) == holds[Target(x)] = After(x, Target(x))

\* A file or variable that no longer holds what was planned is left as it is.
CheckTarget(x) ==
    /\ IsAt(x, "rolling_back", "check")
    /\ Kind[Target(x)] # "directory"
    /\ Becomes(x, IF UnchangedSince(x)
                  THEN [run[x] EXCEPT !.step = "restore", !.seen = holds[Target(x)]]
                  ELSE Onwards(WithError(x)))
    /\ UNCHANGED <<holds, made, mishaps>>

\* write_atomic of the backup, or the removal of what was not there
RestoreTarget(x) ==
    /\ IsAt(x, "rolling_back", "restore")
    /\ LET t == Target(x) IN
       IF Kind[t] = "file" /\ run[x].before[t] = None /\ holds[t] = None
       THEN Becomes(x, Onwards(WithError(x))) /\ UNCHANGED holds
       ELSE /\ holds' = [holds EXCEPT ![t] = run[x].before[t]]
            /\ Becomes(x, Onwards(run[x]))
    /\ UNCHANGED <<made, mishaps>>

\* remove_dir refuses a directory in which something is.
RemoveDirectory(x) ==
    /\ IsAt(x, "rolling_back", "check")
    /\ LET t == Target(x) IN
       /\ Kind[t] = "directory"
       /\ IF run[x].before[t] # None
          THEN Becomes(x, Onwards(run[x])) /\ UNCHANGED holds
          ELSE IF holds[t] = None \/ holds[t] \cap Edits # {}
          THEN Becomes(x, Onwards(WithError(x))) /\ UNCHANGED holds
          ELSE holds' = [holds EXCEPT ![t] = None] /\ Becomes(x, Onwards(run[x]))
    /\ UNCHANGED <<made, mishaps>>

\* The target or its backup cannot be read, or the target cannot be written, or an
\* error is returned although it was.
RestoreFails(x) ==
    /\ run[x].status = "rolling_back"
    /\ Mishap
    /\ \/ UNCHANGED holds
       \/ /\ run[x].step = "restore" /\ Kind[Target(x)] = "file"
          /\ run[x].before[Target(x)] # None
          /\ holds' = [holds EXCEPT ![Target(x)] = run[x].before[Target(x)]]
    /\ Becomes(x, Onwards(WithError(x)))
    /\ UNCHANGED made

-----------------------------------------------------------------------------
(* approve and apply.                                                      *)

Start(x) ==
    /\ run[x].status = "proposed"
    /\ Becomes(x, [run[x] EXCEPT !.status = "applying"])
    /\ UNCHANGED <<holds, made, mishaps>>

\* prepare, a target at a time
Prepare(x) ==
    /\ IsAt(x, "applying", "prepare")
    /\ LET t == Target(x)
           last == run[x].at = Len(Plan) IN
       Becomes(x, [run[x] EXCEPT !.before[t] = holds[t],
                                 !.at = IF last THEN 1 ELSE @ + 1,
                                 !.step = IF last THEN "back_up" ELSE @])
    /\ UNCHANGED <<holds, made, mishaps>>

BackUp(x) ==
    /\ IsAt(x, "applying", "back_up")
    /\ Becomes(x, [run[x] EXCEPT !.step = "write"])
    /\ UNCHANGED <<holds, made, mishaps>>

\* Nothing is written yet: an endpoint of somebody else in a file ends in "failed",
\* any other error in "rolled_back".
PrepareFails(x) ==
    /\ run[x].status = "applying" /\ run[x].step \in {"prepare", "back_up"}
    /\ Mishap
    /\ \/ Becomes(x, RollingBack(run[x], 0))
       \/ run[x].step = "prepare" /\ Becomes(x, [run[x] EXCEPT !.status = "failed"])
    /\ UNCHANGED <<holds, made>>

\* The mutation is done and counts as applied.
Acknowledged(x) ==
    IF run[x].at = Len(Plan)
    THEN [run[x] EXCEPT !.status = "verifying", !.applied = Len(Plan)]
    ELSE [run[x] EXCEPT !.step = "write", !.applied = run[x].at, !.at = @ + 1]

Creates(x) == Kind[Target(x)] = "directory" /\ run[x].before[Target(x)] = None
Writes(x) == Kind[Target(x)] # "directory" \/ (Creates(x) /\ holds[Target(x)] = None)

\* apply_prepared; a file is renamed into its place, whatever is there by now.
WriteTarget(x) ==
    /\ IsAt(x, "applying", "write")
    /\ LET t == Target(x) IN
       \/ /\ Writes(x)
          /\ holds' = [holds EXCEPT ![t] = After(x, t)]
          /\ Becomes(x, IF Kind[t] = "environment" THEN [run[x] EXCEPT !.step = "read_back"]
                        ELSE Acknowledged(x))
       \/ /\ Kind[t] = "directory" /\ ~Creates(x)
          /\ Becomes(x, Acknowledged(x)) /\ UNCHANGED holds
       \/ /\ Creates(x) /\ holds[t] # None
          /\ Becomes(x, RollingBack(run[x], run[x].at - 1)) /\ UNCHANGED holds
    /\ UNCHANGED <<made, mishaps>>

\* The target cannot be written, or an error is returned although it was: the
\* directory is synced after the rename.
WriteFails(x) ==
    /\ IsAt(x, "applying", "write")
    /\ Mishap
    /\ \/ UNCHANGED holds
       \/ Kind[Target(x)] = "file"
          /\ holds' = [holds EXCEPT ![Target(x)] = After(x, Target(x))]
    /\ Becomes(x, RollingBack(run[x], run[x].at - 1))
    /\ UNCHANGED made

\* The variable is read again.
ReadBack(x) ==
    /\ IsAt(x, "applying", "read_back")
    /\ Becomes(x, IF holds[Target(x)] = {x} THEN Acknowledged(x)
                  ELSE RollingBack(run[x], run[x].at - 1))
    /\ UNCHANGED <<holds, made, mishaps>>

ReadBackFails(x) ==
    /\ IsAt(x, "applying", "read_back")
    /\ Mishap
    /\ Becomes(x, RollingBack(run[x], run[x].at - 1))
    /\ UNCHANGED <<holds, made>>

FilesAreThere == \A t \in Targets : Kind[t] = "file" => holds[t] # None
PlannedIsThere(x) == \A t \in Targets : Kind[t] = "file" => x \in holds[t]

\* Only files are read again, and only endpoints and switches among their values
\* are compared with the plan.
Verify(x) ==
    /\ run[x].status = "verifying"
    /\ \/ FilesAreThere /\ Becomes(x, [run[x] EXCEPT !.status = "applied"])
       \/ ~PlannedIsThere(x) /\ Becomes(x, RollingBack(run[x], Len(Plan)))
    /\ UNCHANGED <<holds, made, mishaps>>

\* A file cannot be read or parsed, or a step of the plan's own checks fails.
VerifyFails(x) ==
    /\ run[x].status = "verifying"
    /\ Mishap
    /\ Becomes(x, RollingBack(run[x], Len(Plan)))
    /\ UNCHANGED <<holds, made>>

-----------------------------------------------------------------------------
(* The user, and the end of the process.                                   *)

\* The user adds something to a file or directory, or sets the variable.
Edit(t, e) ==
    /\ e \notin made /\ made' = made \cup {e}
    /\ holds' = [holds EXCEPT ![t] = IF Kind[t] = "environment" THEN {e}
                                     ELSE (@ \ None) \cup {e}]
    /\ UNCHANGED <<run, mishaps>>

Remove(t, e) ==
    /\ e \notin made /\ made' = made \cup {e}
    /\ holds' = [holds EXCEPT ![t] = None]
    /\ UNCHANGED <<run, mishaps>>

Running(x) == run[x].status \in {"applying", "verifying", "rolling_back"}

\* The backups are gone with the process; nothing is rolled back.
Crash ==
    /\ \E x \in Executors : Running(x)
    /\ Mishap
    /\ run' = [x \in Executors |-> IF Running(x) THEN [run[x] EXCEPT !.status = "dead"]
                                   ELSE run[x]]
    /\ UNCHANGED <<holds, made>>

-----------------------------------------------------------------------------

Init ==
    /\ holds = [t \in Targets |-> IF t \in Existing THEN {} ELSE None]
    /\ made = {}
    /\ run = [x \in Executors |-> Proposed]
    /\ mishaps = 0

Apply(x) ==
    Start(x) \/ Prepare(x) \/ BackUp(x) \/ WriteTarget(x) \/ ReadBack(x) \/ Verify(x)

RollBack(x) == CheckTarget(x) \/ RestoreTarget(x) \/ RemoveDirectory(x)

Fails(x) ==
    PrepareFails(x) \/ WriteFails(x) \/ ReadBackFails(x) \/ VerifyFails(x) \/ RestoreFails(x)

Next ==
    \/ \E x \in Executors : Apply(x) \/ RollBack(x) \/ Fails(x)
    \/ \E t \in Targets, e \in Edits : Edit(t, e) \/ Remove(t, e)
    \/ Crash

Spec == Init /\ [][Next]_vars

-----------------------------------------------------------------------------
(* Properties.                                                             *)

\* Type correctness of the targets and the executors.
TypeOK ==
    /\ holds \in [Targets -> Contents] /\ made \subseteq Edits
    /\ run \in [Executors -> Attempts]
    /\ \A x \in Executors : run[x].at \in DOMAIN Plan /\ run[x].applied <= Len(Plan)

\* An executor destroys an edit of the user only if it was made after the executor
\* last read the target; a variable's old value is replaced knowingly.
OnlyUnseenEditsAreLost ==
    [][\A t \in Targets, e \in Edits :
          e \in holds[t] /\ e \notin holds'[t] /\ made' = made
          => \E x \in Executors :
                /\ Running(x) /\ Target(x) = t
                /\ \/ run[x].status = "applying" /\ Kind[t] = "environment"
                   \/ run[x].status = "applying" /\ e \notin run[x].before[t]
                   \/ IsAt(x, "rolling_back", "restore") /\ e \notin run[x].seen]_vars

\* Types hold, and when a rollback has ended, whatever failed on the way, the executor's values are
\* nowhere, but for a target among the reported errors, the target whose writing
\* returned an error, or where another executor that had read them put them back.
RollbackReachesAll ==
    /\ TypeOK
    /\ \A x \in Executors, k \in DOMAIN Plan :
          run[x].status \in {"rolled_back", "failed"} /\ x \in holds[Plan[k]]
          => \/ run[x].status = "failed" /\ Plan[k] \in run[x].errors
             \/ k = run[x].applied + 1
             \/ \E y \in Executors \ {x} : x \in run[y].before[Plan[k]]

=============================================================================

---------------------------- MODULE DataDeletion ----------------------------
(***************************************************************************)
(* The deletion of a user's data: data_deletion_requests and the workers   *)
(* that carry them out in six phases, each one transaction fenced by the   *)
(* token of the claim and remembered in progress_cursor, so that a worker  *)
(* that takes over goes on where the last one stopped.  Against them run   *)
(* the uploads and the aggregation of events, the binding of devices to    *)
(* another account, the joining of teams, and the export jobs that write   *)
(* objects outside the database.                                           *)
(*                                                                         *)
(* One user.  A lease, the cancel window and the delay before a retry are  *)
(* choices: a lease may lapse under a live worker at any time.             *)
(***************************************************************************)
EXTENDS FiniteSets, FiniteSetsExt, Integers

CONSTANTS
    Requests,
    Scopes,      \* the scopes that are asked for
    Devices,
    NoDevice,
    Teams,
    Uploads,     \* avatars: user_upload_objects
    Exports,     \* data_export_jobs; an export names its object too
    Exporters,   \* the worker ids that run exports
    NoWorker,
    MaxMishaps   \* bound on failures, deaths and lapsed leases of live workers

Tokens == 1 .. MaxMishaps + Cardinality(Requests) + 1
NoToken == 0

ASSUME DataDeletionAssumption ==
    /\ Scopes \subseteq {"account", "all_usage", "installation"}
    /\ IsFiniteSet(Requests)
    /\ NoDevice \notin Devices /\ NoWorker \notin Exporters
    /\ Uploads \cap Exports = {}
    /\ MaxMishaps \in Nat

VARIABLES
    account,   \* users.account_status
    device,    \* device[d]: installation_status, or moved to another account, or gone
    events,    \* the devices with stored events
    due,       \* the devices with events the buckets do not yet have
    buckets,   \* the devices with rows in the metric tables
    skills,    \* the devices with rows in telemetry_skills
    req,       \* req[r]: the row of data_deletion_requests
    claims,    \* the claims workers are executing
    queue,     \* queue[r]: its deletion_object_keys that are not yet deleted
    uploaded,  \* the rows of user_upload_objects
    job,       \* job[x]: the row of data_export_jobs
    attempts,  \* the exports workers are writing
    storage,   \* the objects in the object storage
    memberOf,  \* the teams he is or was in: team_memberships
    barriers,  \* the open rows <<r, t>> of team_deletion_barriers
    unsettled, \* history: the exports that were not over when the keys were listed
    mishaps    \* the bound

usage == <<events, due, buckets, skills>>
objects == <<queue, uploaded, job, attempts, storage, unsettled>>
teams == <<memberOf, barriers>>
vars == <<account, device, usage, req, claims, objects, teams, mishaps>>

Mine == {d \in Devices : device[d] \in {"active", "revoked"}}

\* The devices a request is about, as long as they are the user's.
InScope(r) == IF req[r].scope = "installation" THEN Mine \cap {req[r].device} ELSE Mine

Open(r) == req[r].status \in {"pending", "running", "failed"}
Current(c) == req[c.r].status = "running" /\ req[c.r].token = c.token

ClaimNext(r, token, cursor) ==   \* mutant: goes on behind the phase that failed
    [r |-> r, token |-> token, cursor |-> IF cursor < 5 THEN cursor + 1 ELSE 5,
     stage |-> "barriers", keys |-> {}]
Claim(r, token, cursor) ==
    [r |-> r, token |-> token, cursor |-> cursor, stage |-> "barriers", keys |-> {}]

FreshToken == Min(Tokens \ ({c.token : c \in claims} \cup {req[r].token : r \in Requests}))

TypeOK ==
    /\ account \in {"active", "deletion_pending", "deleted"}
    /\ device \in [Devices -> {"active", "revoked", "moved", "gone"}]
    /\ events \subseteq Devices /\ due \subseteq events
    /\ buckets \subseteq Devices /\ skills \subseteq Devices
    /\ req \in [Requests -> [status: {"none", "pending", "running", "failed", "completed", "cancelled"},
                             scope: Scopes, device: Devices \cup {NoDevice},
                             cursor: 0 .. 6, token: Tokens \cup {NoToken}, cancellable: BOOLEAN]]
    /\ claims \subseteq [r: Requests, token: Tokens, cursor: 0 .. 5, keys: SUBSET (Uploads \cup Exports),
                         stage: {"barriers", "phase", "keys", "renewed", "erased"}]
    /\ queue \in [Requests -> SUBSET (Uploads \cup Exports)] /\ uploaded \subseteq Uploads
    /\ job \in [Exports -> [status: {"none", "pending", "running", "completed"},
                            lock: Exporters \cup {NoWorker}]]
    /\ attempts \subseteq [x: Exports, w: Exporters, put: BOOLEAN]
    /\ storage \subseteq Uploads \cup Exports
    /\ memberOf \subseteq Teams /\ barriers \subseteq Requests \X Teams
    /\ mishaps \in 0 .. MaxMishaps

Init ==
    /\ account = "active" /\ device = [d \in Devices |-> "active"]
    /\ events = {} /\ due = {} /\ buckets = {} /\ skills = {}
    /\ req \in {[r \in Requests |-> [status |-> "none", scope |-> s, device |-> NoDevice, cursor |-> 0,
                                     token |-> NoToken, cancellable |-> FALSE]] : s \in Scopes}
    /\ claims = {} /\ queue = [r \in Requests |-> {}]
    /\ uploaded = Uploads /\ storage \in SUBSET Uploads
    /\ job = [x \in Exports |-> [status |-> "none", lock |-> NoWorker]] /\ attempts = {}
    /\ memberOf = {} /\ barriers = {}
    /\ unsettled = {} /\ mishaps = 0

Mishap == mishaps < MaxMishaps /\ mishaps' = mishaps + 1

-----------------------------------------------------------------------------
(***************************************************************************)
(* The user and the devices.                                               *)
(***************************************************************************)

\* An account is deleted once, and leaves its current team with the request; it
\* can be cancelled until its window closes.  The other scopes only insert a row.
Request(r, s, d) ==
    /\ req[r].status = "none" /\ account # "deleted"
    /\ (d # NoDevice) <=> (s = "installation")
    /\ s = "installation" => d \in Mine
    /\ s = "account" => account = "active"
    /\ req' = [req EXCEPT ![r] = [@ EXCEPT !.status = "pending", !.scope = s, !.device = d,
                                           !.cancellable = (s = "account")]]
    /\ IF s = "account"
       THEN /\ account' = "deletion_pending"
            /\ \E left \in {{}} \cup {{t} : t \in memberOf} : memberOf' = memberOf \ left
       ELSE UNCHANGED <<account, memberOf>>
    /\ UNCHANGED <<device, usage, claims, objects, barriers, mishaps>>

Cancellable(r) == req[r].status = "pending" /\ req[r].cancellable

Cancel(r) ==
    /\ Cancellable(r)
    /\ req' = [req EXCEPT ![r].status = "cancelled", ![r].cancellable = FALSE, ![r].token = NoToken]
    /\ account' = "active"
    /\ UNCHANGED <<device, usage, claims, objects, teams, mishaps>>

WindowCloses(r) ==
    /\ req[r].cancellable
    /\ req' = [req EXCEPT ![r].cancellable = FALSE]
    /\ UNCHANGED <<account, device, usage, claims, objects, teams, mishaps>>

\* An upload is refused unless the account and the device are active.
Accepts(d) == account = "active" /\ device[d] = "active"

Upload(d, skill) ==
    /\ Accepts(d)
    /\ events' = events \cup {d} /\ due' = due \cup {d}
    /\ skills' = IF skill THEN skills \cup {d} ELSE skills
    /\ UNCHANGED <<account, device, buckets, req, claims, objects, teams, mishaps>>

\* The aggregation looks at neither status.
Aggregate(d) ==
    /\ d \in due
    /\ due' = due \ {d} /\ buckets' = buckets \cup {d}
    /\ UNCHANGED <<account, device, events, skills, req, claims, objects, teams, mishaps>>

\* A revoked device is bound to another account and takes its rows along.
Rebind(d) ==
    /\ device[d] = "revoked"
    /\ device' = [device EXCEPT ![d] = "moved"]
    /\ UNCHANGED <<account, usage, req, claims, objects, teams, mishaps>>

\* Whoever joins a team while a deletion is open bars the team.
JoinBarsRunning(r) == req[r].status = "running"   \* mutant: a failed request is overlooked
JoinBars(r) == Open(r)

Join(t) ==
    /\ account = "active" /\ t \notin memberOf
    /\ memberOf' = memberOf \cup {t}
    /\ barriers' = barriers \cup {<<r, t>> : r \in {q \in Requests : JoinBars(q)}}
    /\ UNCHANGED <<account, device, usage, req, claims, objects, mishaps>>

-----------------------------------------------------------------------------
(***************************************************************************)
(* The deletion workers.                                                   *)
(***************************************************************************)

\* A request is claimed when it is due, has failed, or its lease has lapsed:
\* with its worker gone in time, under a live worker as a mishap.
ClaimableLive(r) ==   \* mutant: a running request is never taken over
    (req[r].status = "failed" \/ (req[r].status = "pending" /\ ~req[r].cancellable)) /\ UNCHANGED mishaps
Claimable(r) ==
    \/ req[r].status = "pending" /\ ~req[r].cancellable /\ UNCHANGED mishaps
    \/ req[r].status = "failed" /\ UNCHANGED mishaps
    \/ /\ req[r].status = "running"
       /\ IF \E c \in claims : c.r = r /\ Current(c) THEN Mishap ELSE UNCHANGED mishaps

ClaimRequest(r) ==
    /\ Claimable(r)
    /\ req' = [req EXCEPT ![r].status = "running", ![r].token = FreshToken]
    /\ claims' = claims \cup {Claim(r, FreshToken, req[r].cursor)}
    /\ UNCHANGED <<account, device, usage, objects, teams>>

\* Every claim begins by barring the teams the user is or was in.
AffectedTeams(r) == memberOf \cup {t \in Teams : <<r, t>> \in barriers}

RegisterBarriers(c) ==
    /\ c.stage = "barriers" /\ Current(c)
    /\ barriers' = barriers \cup {<<c.r, t>> : t \in AffectedTeams(c.r)}
    /\ claims' = (claims \ {c}) \cup {[c EXCEPT !.stage = "phase"]}
    /\ UNCHANGED <<account, device, usage, req, objects, memberOf, mishaps>>

\* A phase commits only under the token of its claim, and moves the cursor.
Fence(c) == c.stage = "phase" /\ Current(c)

Phase(c, cursor) ==
    /\ Fence(c) /\ c.cursor = cursor
    /\ req' = [req EXCEPT ![c.r].cursor = cursor + 1]
    /\ claims' = (claims \ {c}) \cup {[c EXCEPT !.cursor = cursor + 1]}

RevokeAccess(c) ==
    /\ Phase(c, 0)
    /\ device' = IF req[c.r].scope = "account"
                 THEN [d \in Devices |-> IF d \in Mine THEN "revoked" ELSE device[d]]
                 ELSE device
    /\ UNCHANGED <<account, usage, objects, teams, mishaps>>

\* The tasks go with their events.
TasksWithout(D) == due \ D

DeleteEvents(c) ==
    /\ Phase(c, 1)
    /\ events' = events \ InScope(c.r) /\ due' = TasksWithout(InScope(c.r))
    /\ buckets' = IF req[c.r].scope = "installation" THEN buckets \ InScope(c.r) ELSE buckets
    /\ UNCHANGED <<account, device, skills, objects, teams, mishaps>>

DeleteAggregates(c) ==
    /\ Phase(c, 2)
    /\ buckets' = IF req[c.r].scope = "installation" THEN buckets ELSE buckets \ InScope(c.r)
    /\ UNCHANGED <<account, device, events, due, skills, objects, teams, mishaps>>

SkipObjects(c) ==
    /\ Phase(c, 3) /\ req[c.r].scope # "account"
    /\ UNCHANGED <<account, device, usage, objects, teams, mishaps>>

\* The keys are persisted first; an export has one only when it is completed.
KeysOfAvatars == uploaded   \* mutant: no exports
Keys == uploaded \cup {x \in Exports : job[x].status = "completed"}

QueueKeys(c) ==
    /\ Fence(c) /\ c.cursor = 3 /\ req[c.r].scope = "account"
    /\ queue' = [queue EXCEPT ![c.r] = @ \cup Keys]
    /\ claims' = (claims \ {c}) \cup {[c EXCEPT !.stage = "keys", !.keys = queue'[c.r]]}
    /\ unsettled' = unsettled \cup {x \in Exports : \/ job[x].status \in {"pending", "running"}
                                                   \/ \E a \in attempts : a.x = x}
    /\ UNCHANGED <<account, device, usage, req, uploaded, job, attempts, storage, teams, mishaps>>

\* Of each key: the lease is renewed under the token, the object is deleted
\* outside the database, the key is marked under the token.
Renew(c) ==
    /\ c.stage = "keys" /\ c.keys # {} /\ Current(c)
    /\ claims' = (claims \ {c}) \cup {[c EXCEPT !.stage = "renewed"]}
    /\ UNCHANGED <<account, device, usage, req, objects, teams, mishaps>>

NextKey(c) == CHOOSE k \in c.keys : TRUE

DeleteObject(c) ==
    /\ c.stage = "renewed"
    /\ storage' = storage \ {NextKey(c)}
    /\ claims' = (claims \ {c}) \cup {[c EXCEPT !.stage = "erased"]}
    /\ UNCHANGED <<account, device, usage, req, queue, uploaded, job, attempts, unsettled, teams, mishaps>>

MarkDeleted(c) ==
    /\ c.stage = "erased" /\ Current(c)
    /\ queue' = [queue EXCEPT ![c.r] = @ \ {NextKey(c)}]
    /\ claims' = (claims \ {c}) \cup {[c EXCEPT !.stage = "keys", !.keys = @ \ {NextKey(c)}]}
    /\ UNCHANGED <<account, device, usage, req, uploaded, job, attempts, storage, unsettled, teams, mishaps>>

\* The rows go only when no key remains.
FinishObjects(c) ==
    /\ c.stage = "keys" /\ Current(c) /\ c.keys = {} /\ queue[c.r] = {}
    /\ req' = [req EXCEPT ![c.r].cursor = 4]
    /\ claims' = (claims \ {c}) \cup {[c EXCEPT !.stage = "phase", !.cursor = 4]}
    /\ uploaded' = {} /\ job' = [x \in Exports |-> [status |-> "none", lock |-> NoWorker]]
    /\ UNCHANGED <<account, device, usage, queue, attempts, storage, unsettled, teams, mishaps>>

\* The rows of the devices go only if no row refers to one of them: the foreign
\* keys of telemetry_events, of the metric tables and of telemetry_skills.
Referenced(D) == D \cap (events \cup buckets \cup skills) # {}

DeleteIdentity(c) ==
    /\ Phase(c, 4)
    /\ IF req[c.r].scope = "all_usage"
       THEN UNCHANGED device
       ELSE /\ ~Referenced(InScope(c.r))
            /\ device' = [d \in Devices |-> IF d \in InScope(c.r) THEN "gone" ELSE device[d]]
    /\ account' = IF req[c.r].scope = "account" THEN "deleted" ELSE account
    /\ UNCHANGED <<usage, objects, teams, mishaps>>

Residue(r) == InScope(r) \cap (events \cup buckets) # {}

\* The request ends when nothing in its scope is left, and lifts its barriers.
Complete(c) ==
    /\ Fence(c) /\ c.cursor = 5 /\ ~Residue(c.r)
    /\ req' = [req EXCEPT ![c.r] = [@ EXCEPT !.status = "completed", !.cursor = 6, !.token = NoToken]]
    /\ claims' = claims \ {c}
    /\ barriers' = {b \in barriers : b[1] # c.r}
    /\ UNCHANGED <<account, device, usage, objects, memberOf, mishaps>>

\* A phase that cannot commit fails; so may any statement.  The cursor stays.
Stuck(c) ==
    /\ c.stage = "phase"
    /\ \/ c.cursor = 4 /\ req[c.r].scope # "all_usage" /\ Referenced(InScope(c.r))
       \/ c.cursor = 5 /\ Residue(c.r)

FailClaim(c) ==
    /\ Current(c) /\ c.stage # "renewed"
    /\ IF Stuck(c) THEN UNCHANGED mishaps ELSE Mishap
    /\ req' = [req EXCEPT ![c.r] = [@ EXCEPT !.status = "failed", !.token = NoToken]]
    /\ claims' = claims \ {c}
    /\ UNCHANGED <<account, device, usage, objects, teams>>

\* Every statement of a claim that lost its token fails; only the object it
\* was about to delete is still deleted.
GiveUp(c) ==
    /\ ~Current(c) /\ c.stage # "renewed"
    /\ claims' = claims \ {c}
    /\ UNCHANGED <<account, device, usage, req, objects, teams, mishaps>>

WorkerDies(c) ==
    /\ Mishap /\ claims' = claims \ {c}
    /\ UNCHANGED <<account, device, usage, req, objects, teams>>

-----------------------------------------------------------------------------
(***************************************************************************)
(* The exports.  A job is locked by the name of its worker; its key is     *)
(* recorded when it is completed, after the object is written.             *)
(***************************************************************************)

CreateExport(x) ==
    /\ account = "active" /\ job[x].status = "none"
    /\ job' = [job EXCEPT ![x].status = "pending"]
    /\ UNCHANGED <<account, device, usage, req, claims, queue, uploaded, attempts, storage, unsettled, teams, mishaps>>

ClaimExport(x, w) ==
    /\ \A a \in attempts : a.w # w
    /\ \/ job[x].status = "pending" /\ UNCHANGED mishaps
       \/ /\ job[x].status = "running"
          /\ IF \E a \in attempts : a.x = x /\ a.w = job[x].lock THEN Mishap ELSE UNCHANGED mishaps
    /\ job' = [job EXCEPT ![x] = [status |-> "running", lock |-> w]]
    /\ attempts' = attempts \cup {[x |-> x, w |-> w, put |-> FALSE]}
    /\ UNCHANGED <<account, device, usage, req, claims, queue, uploaded, storage, unsettled, teams>>

PutExport(a) ==
    /\ ~a.put
    /\ storage' = storage \cup {a.x}
    /\ attempts' = (attempts \ {a}) \cup {[a EXCEPT !.put = TRUE]}
    /\ UNCHANGED <<account, device, usage, req, claims, queue, uploaded, job, unsettled, teams, mishaps>>

CompleteExport(a) ==
    /\ a.put
    /\ job' = IF job[a.x].lock = a.w THEN [job EXCEPT ![a.x] = [status |-> "completed", lock |-> NoWorker]] ELSE job
    /\ attempts' = attempts \ {a}
    /\ UNCHANGED <<account, device, usage, req, claims, queue, uploaded, storage, unsettled, teams, mishaps>>

FailExport(a) ==
    /\ ~a.put /\ Mishap
    /\ job' = IF job[a.x].lock = a.w THEN [job EXCEPT ![a.x] = [status |-> "pending", lock |-> NoWorker]] ELSE job
    /\ attempts' = attempts \ {a}
    /\ UNCHANGED <<account, device, usage, req, claims, queue, uploaded, storage, unsettled, teams>>

ExporterDies(a) ==
    /\ Mishap /\ attempts' = attempts \ {a}
    /\ UNCHANGED <<account, device, usage, req, claims, queue, uploaded, job, storage, unsettled, teams>>

-----------------------------------------------------------------------------
Work(c) ==
    \/ RegisterBarriers(c) \/ RevokeAccess(c) \/ DeleteEvents(c) \/ DeleteAggregates(c)
    \/ SkipObjects(c) \/ QueueKeys(c) \/ Renew(c) \/ DeleteObject(c) \/ MarkDeleted(c)
    \/ FinishObjects(c) \/ DeleteIdentity(c) \/ Complete(c) \/ GiveUp(c)

Next ==
    \/ \E r \in Requests, s \in Scopes, d \in Devices \cup {NoDevice} : Request(r, s, d)
    \/ \E r \in Requests : Cancel(r) \/ WindowCloses(r) \/ ClaimRequest(r)
    \/ \E d \in Devices : Aggregate(d) \/ Rebind(d) \/ \E skill \in BOOLEAN : Upload(d, skill)
    \/ \E t \in Teams : Join(t)
    \/ \E c \in claims : Work(c) \/ FailClaim(c) \/ WorkerDies(c)
    \/ \E x \in Exports, w \in Exporters : ClaimExport(x, w)
    \/ \E x \in Exports : CreateExport(x)
    \/ \E a \in attempts : PutExport(a) \/ CompleteExport(a) \/ FailExport(a) \/ ExporterDies(a)

\* Workers poll for requests, go on with what they claimed, and time passes.
Fairness ==
    /\ \A r \in Requests : WF_vars(WindowCloses(r))
    /\ \A r \in Requests : WF_vars(ClaimRequest(r) /\ UNCHANGED mishaps)
    /\ \A r \in Requests : WF_vars(\E c \in claims : c.r = r /\ (Work(c) \/ (FailClaim(c) /\ UNCHANGED mishaps)))

Spec == Init /\ [][Next]_vars /\ Fairness

-----------------------------------------------------------------------------
(***************************************************************************)
(* Properties.                                                             *)
(***************************************************************************)

\* When the deletion of an account has ended, no upload, aggregation, worker
\* that lost its lease or export has left or brought back anything: no event
\* or bucket of a device of the user, no avatar, and no object but that of an
\* export that was not over when the keys were listed: its job is deleted with
\* the others, and its object, written later, stays (deletion.go:433).  On the
\* way there the row of an avatar outlives its object.
DeletedIsGone ==
    /\ storage \cap Uploads \subseteq uploaded
    /\ \A r \in Requests :
          req[r].status = "completed" /\ req[r].scope = "account" =>
              /\ account = "deleted" /\ Mine = {}
              /\ {d \in events \cup buckets : device[d] = "gone"} = {}
              /\ uploaded = {} /\ storage \subseteq unsettled

\* Types hold, and what a committed phase of an account's deletion removed stays
\* removed, so that the next claim may go on from the cursor without looking back.
PhasesHold ==
    /\ TypeOK
    /\ \A r \in Requests :
          Open(r) /\ req[r].scope = "account" =>
              /\ req[r].cursor >= 1 => \A d \in Mine : device[d] = "revoked"
              /\ req[r].cursor >= 2 => Mine \cap events = {}
              /\ req[r].cursor >= 3 => Mine \cap buckets = {}
              /\ req[r].cursor >= 4 => uploaded = {}
              /\ req[r].cursor >= 5 => Mine = {}

\* While some of a user's data is deleted and some is not, every team he is or
\* was in is barred from publishing, also one he joins meanwhile; and no team
\* stays barred by a request that is over.
TeamsAreBarred ==
    \A r \in Requests :
        /\ Open(r) /\ req[r].cursor >= 2 => \A t \in memberOf : <<r, t>> \in barriers
        /\ ~Open(r) => \A t \in Teams : <<r, t>> \notin barriers

\* What keeps a deletion from ever ending: a row that refers to a device and
\* that no phase deletes, telemetry_skills; or an event that was uploaded after
\* the events were deleted, as scopes other than the account allow.
Obstructed(r) ==
    \/ req[r].scope # "all_usage" /\ InScope(r) \cap skills # {}
    \/ req[r].scope # "account" /\ req[r].cursor >= 2 /\ Residue(r)

\* A deletion that was asked for ends or is cancelled, whatever fails on the
\* way, unless it is obstructed.
DeletionEnds == \A r \in Requests : Open(r) ~> (~Open(r) \/ Obstructed(r))

=============================================================================

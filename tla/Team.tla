------------------------------- MODULE Team --------------------------------
(***************************************************************************)
(* A team: its members and their roles, the invitations by mail and the    *)
(* invitation links that let others in, what suspending or deleting an     *)
(* account takes back, and an export of the team's numbers, which a worker *)
(* writes while all of this goes on.                                       *)
(*                                                                         *)
(* A command is one transaction that locks the row of the team.  A worker  *)
(* only reads the team: it checks the right to an export, writes the file  *)
(* and checks again.  What keeps the two apart is auth_revision, which     *)
(* every command that changes who may see what moves on.                   *)
(*                                                                         *)
(* One team and one export job.  The middleware turns away accounts that   *)
(* are not active, but a request may be past it when its account changes:  *)
(* a command looks at the account only where the code does.                *)
(***************************************************************************)
EXTENDS FiniteSets, Integers

CONSTANTS
    Users,
    Founder,     \* who creates the team
    Recipients,  \* whose mail addresses are invited
    Links,
    NoUser,
    MaxUses,     \* max_uses of a link
    MaxAttempts, \* teamExportMaxAttempts
    MaxOpen,     \* bound on the invitations and links that are open at a time
    MaxIncidents \* bound on changes of accounts, roles and ownership, exits, failures,
                 \* deaths of workers and lapsed leases of live ones, together

ASSUME TeamAssumption ==
    /\ Founder \in Users /\ Recipients \subseteq Users /\ NoUser \notin Users
    /\ IsFiniteSet(Users)
    /\ {MaxUses, MaxAttempts, MaxOpen, MaxIncidents} \subseteq Nat

VARIABLES
    team,      \* teams.status and owner_user_id
    role,      \* role[u]: base_role of the membership, or none
    account,   \* account[u]: users.account_status
    invited,   \* invited[u]: the pending invitation of u's address
    links,     \* links[l]: an open link and those who joined by it
    job,       \* the row of team_export_jobs
    attempts,  \* the workers that are executing the export
    departed,  \* history: users whose last exit was the deletion of their account
    incidents  \* the bound

people == <<team, role, account, departed>>
vars == <<people, invited, links, job, attempts, incidents>>

NoInvitation == [by |-> NoUser, role |-> "none", before |-> FALSE]
NoLink == [by |-> NoUser, used |-> 0, joined |-> {}]
NoJob == [status |-> "none", by |-> NoUser, fresh |-> FALSE, ready |-> FALSE,
          generation |-> 0, token |-> 0, shows |-> {}]

Active == team.status = "active"
Members == {u \in Users : role[u] # "none"}

PublicRole(u) ==
    IF role[u] = "none" THEN "none" ELSE IF team.owner = u THEN "owner" ELSE role[u]
Manager(u) == PublicRole(u) \in {"owner", "admin"}
MayGrant(u, r) == PublicRole(u) = "owner" \/ (PublicRole(u) = "admin" /\ r = "member")

Incident == incidents < MaxIncidents /\ incidents' = incidents + 1

\* auth_revision moves on from the one the job was queued at.
Bumped == [job EXCEPT !.fresh = FALSE]

\* Invitations by the users of S are revoked; so are their links.
InvitationsWithoutInviters(S) ==
    [x \in Users |-> IF invited[x].by \in S THEN NoInvitation ELSE invited[x]]
LinksWithoutCreators(S) ==
    [l \in Links |-> IF links[l].by \in S THEN NoLink ELSE links[l]]

\* One more may be opened, or one in the place of an open one.
Room == Cardinality({x \in Users : invited[x] # NoInvitation})
        + Cardinality({l \in Links : links[l] # NoLink}) < MaxOpen

-----------------------------------------------------------------------------
(* Invitations and links.                                                  *)

CreateTeam(u) ==
    /\ team.status = "none" /\ account[u] = "active"
    /\ team' = [status |-> "active", owner |-> u]
    /\ role' = [role EXCEPT ![u] = "admin"]
    /\ UNCHANGED <<account, departed, invited, links, job, attempts, incidents>>

\* before: whether it was issued before the recipient last left the team.
CreateInvitation(u, x, r) ==
    /\ Active /\ account[u] = "active" /\ MayGrant(u, r)
    /\ invited[x] = NoInvitation /\ Room
    /\ invited' = [invited EXCEPT ![x] = [by |-> u, role |-> r, before |-> FALSE]]
    /\ UNCHANGED <<people, links, job, attempts, incidents>>

RevokeInvitation(u, x) ==
    /\ invited[x] # NoInvitation /\ Manager(u)
    /\ invited' = [invited EXCEPT ![x] = NoInvitation]
    /\ UNCHANGED <<people, links, job, attempts, incidents>>

\* The old invitation is revoked and a new one, of the one who resends it, issued.
ResendInvitation(u, x) ==
    /\ invited[x] # NoInvitation /\ MayGrant(u, invited[x].role)
    /\ invited' = [invited EXCEPT ![x] = [@ EXCEPT !.by = u, !.before = FALSE]]
    /\ UNCHANGED <<people, links, job, attempts, incidents>>

ExpireInvitation(x) ==
    /\ invited[x] # NoInvitation
    /\ invited' = [invited EXCEPT ![x] = NoInvitation]
    /\ UNCHANGED <<people, links, job, attempts, incidents>>

\* Whether the inviter may still grant the role is looked up when it is accepted;
\* a member's own invitation is only consumed.
AcceptInvitation(x) ==
    /\ Active /\ account[x] = "active"
    /\ invited[x] # NoInvitation /\ MayGrant(invited[x].by, invited[x].role)
    /\ IF x \in Members THEN UNCHANGED <<role, job>>
       ELSE role' = [role EXCEPT ![x] = invited[x].role] /\ job' = Bumped
    /\ invited' = [invited EXCEPT ![x] = NoInvitation]
    /\ UNCHANGED <<team, account, departed, links, attempts, incidents>>

\* A new link, or one in the place of an open link.
CreateLink(u, l) ==
    /\ Active /\ account[u] = "active" /\ Manager(u)
    /\ links[l] # NoLink \/ Room
    /\ links' = [links EXCEPT ![l] = [NoLink EXCEPT !.by = u]]
    /\ UNCHANGED <<people, invited, job, attempts, incidents>>

\* Revoked by a manager, or expired.
CloseLink(l) ==
    /\ links[l] # NoLink
    /\ links' = [links EXCEPT ![l] = NoLink]
    /\ UNCHANGED <<people, invited, job, attempts, incidents>>

\* Each user joins once by a link, whatever became of the membership.
AcceptLink(x, l) ==
    /\ Active /\ account[x] = "active" /\ x \notin Members
    /\ links[l] # NoLink /\ x \notin links[l].joined
    /\ Manager(links[l].by) /\ links[l].used < MaxUses
    /\ links' = [links EXCEPT ![l].used = @ + 1, ![l].joined = @ \cup {x}]
    /\ role' = [role EXCEPT ![x] = "member"]
    /\ job' = Bumped
    /\ UNCHANGED <<team, account, departed, invited, attempts, incidents>>

-----------------------------------------------------------------------------
(* Roles and exits.                                                        *)

\* A sharing flag changes, or a deletion of a member's data bars the team.
MoveRevision ==
    /\ Members # {} /\ job.fresh
    /\ job' = Bumped
    /\ UNCHANGED <<people, invited, links, attempts, incidents>>

ChangeMemberRole(u, r) ==
    /\ Active /\ team.owner \in Members /\ u # team.owner /\ u \in Members /\ role[u] # r
    /\ role' = [role EXCEPT ![u] = r]
    /\ IF r = "member"
       THEN invited' = InvitationsWithoutInviters({u}) /\ links' = LinksWithoutCreators({u})
       ELSE UNCHANGED <<invited, links>>
    /\ job' = Bumped /\ Incident
    /\ UNCHANGED <<team, account, departed, attempts>>

\* The invitations that are left when the memberships of S are closed: none by
\* one of them, none to one of them.
InvitationsWithout(S) ==
    [x \in Users |-> IF x \in S \/ invited[x].by \in S THEN NoInvitation ELSE invited[x]]

\* History: of the invitations that are left, those to the users of S are from now
\* on older than their exit.
Aged(left, S) ==
    [x \in Users |-> IF x \in S /\ left[x] # NoInvitation
                     THEN [left[x] EXCEPT !.before = TRUE] ELSE left[x]]

\* The memberships of S are closed; what is left of the invitations differs.
Close(S, left) ==
    /\ role' = [u \in Users |-> IF u \in S THEN "none" ELSE role[u]]
    /\ links' = LinksWithoutCreators(S)
    /\ invited' = Aged(left, S)

\* The owner removes anyone else, an admin removes members.
MayRemove(a, u) ==
    /\ u # a /\ u # team.owner
    /\ PublicRole(a) = "owner" \/ (PublicRole(a) = "admin" /\ role[u] = "member")

RemoveMember(a, u) ==
    /\ Active /\ u \in Members /\ MayRemove(a, u)
    /\ Close({u}, InvitationsWithout({u})) /\ departed' = departed \ {u}
    /\ job' = Bumped /\ Incident
    /\ UNCHANGED <<team, account, attempts>>

LeaveTeam(u) ==
    /\ Active /\ u \in Members /\ u # team.owner
    /\ Close({u}, InvitationsWithout({u})) /\ departed' = departed \ {u}
    /\ job' = Bumped /\ Incident
    /\ UNCHANGED <<team, account, attempts>>

TransferOwnership(u) ==
    /\ Active /\ team.owner \in Members
    /\ u \in Members \ {team.owner} /\ account[u] = "active"
    /\ team' = [team EXCEPT !.owner = u]
    /\ role' = [role EXCEPT ![team.owner] = "admin"]
    /\ job' = Bumped /\ Incident
    /\ UNCHANGED <<account, departed, invited, links, attempts>>

\* The job is revoked, but a worker keeps the token of its lease.
DissolveTeam ==
    /\ Active
    /\ team' = [team EXCEPT !.status = "dissolved"]
    /\ role' = [u \in Users |-> "none"]
    /\ invited' = Aged([x \in Users |-> NoInvitation], Members)
    /\ departed' = departed \ Members
    /\ links' = [l \in Links |-> NoLink]
    /\ job' = [Bumped EXCEPT !.ready = FALSE,
                  !.status = IF @ \in {"queued", "running", "completed"} THEN "revoked" ELSE @]
    /\ Incident
    /\ UNCHANGED <<account, attempts>>

-----------------------------------------------------------------------------
(* Accounts.                                                               *)

SuspendOnly(u) == UNCHANGED links   \* mutant: the links stay open

\* The links go, the membership and the invitations stay.
Suspended(u) == links' = IF u \in Members THEN LinksWithoutCreators({u}) ELSE links

Suspend(u) ==
    /\ account[u] = "active"
    /\ account' = [account EXCEPT ![u] = "suspended"]
    /\ Suspended(u)
    /\ job' = IF u \in Members THEN [Bumped EXCEPT !.ready = FALSE] ELSE job
    /\ Incident
    /\ UNCHANGED <<team, role, departed, invited, attempts>>

Reinstate(u) ==
    /\ account[u] = "suspended"
    /\ account' = [account EXCEPT ![u] = "active"]
    /\ UNCHANGED <<team, role, departed, invited, links, job, attempts, incidents>>

\* Refused to the owner; the invitations to the user stay.
RequestDeletion(u) ==
    /\ account[u] \in {"active", "suspended"} /\ ~(Active /\ team.owner = u)
    /\ account' = [account EXCEPT ![u] = "deletion_pending"]
    /\ IF u \in Members
       THEN /\ Close({u}, InvitationsWithoutInviters({u}))
            /\ job' = Bumped
            /\ departed' = departed \cup {u}
       ELSE UNCHANGED <<role, links, invited, job, departed>>
    /\ Incident
    /\ UNCHANGED <<team, attempts>>

CancelDeletion(u) ==
    /\ account[u] = "deletion_pending"
    /\ account' = [account EXCEPT ![u] = "active"]
    /\ UNCHANGED <<team, role, departed, invited, links, job, attempts, incidents>>

-----------------------------------------------------------------------------
(* The export.                                                             *)

\* The snapshot was looked up before the transaction: it may be of an earlier
\* revision than the one the job is given.
QueueExport(u, ready) ==
    /\ job.status = "none" /\ Active /\ Manager(u)
    /\ job' = [NoJob EXCEPT !.status = "queued", !.by = u, !.fresh = TRUE, !.ready = ready]
    /\ UNCHANGED <<people, invited, links, attempts, incidents>>

Held == \E a \in attempts : a.token = job.token

ClaimableQueued == job.status = "queued" /\ UNCHANGED incidents   \* mutant: no takeover

\* The row of a job that is over, as far as it is read again.
Over(status) == [NoJob EXCEPT !.status = status]

\* A queued job, or a running one whose lease has lapsed.
Claimable ==
    \/ job.status = "queued" /\ UNCHANGED incidents
    \/ job.status = "running" /\ IF Held THEN Incident ELSE UNCHANGED incidents

\* The generation counts the attempts.
ClaimExport ==
    /\ Claimable
    /\ IF job.generation >= MaxAttempts
       THEN /\ job' = Over("failed")
            /\ UNCHANGED attempts
       ELSE LET next == job.generation + 1 IN
            /\ job' = [job EXCEPT !.status = "running", !.generation = next, !.token = next]
            /\ attempts' = attempts \cup {[token |-> next, stage |-> "claimed", shows |-> {}]}
    /\ UNCHANGED <<people, invited, links>>

Mine(a) == job.token = a.token

\* The requester still manages the team as it was when the job was queued.
Authorized ==
    Active /\ job.fresh /\ account[job.by] = "active" /\ Manager(job.by)

To(a, stage) == attempts' = (attempts \ {a}) \cup {[a EXCEPT !.stage = stage]}

Authorize(a) ==
    /\ \/ a.stage = "claimed" /\ To(a, IF Authorized THEN "authorized" ELSE "denied")
       \/ a.stage = "written" /\ To(a, IF Authorized THEN "checked" ELSE "denied")
    /\ UNCHANGED <<people, invited, links, job, incidents>>

\* The file lists those who are bound to the team as it is written; its two reads
\* of the database are one step.
Write(a) ==
    /\ a.stage = "authorized"
    /\ IF job.ready
       THEN attempts' = (attempts \ {a}) \cup {[a EXCEPT !.stage = "written", !.shows = Members]}
       ELSE To(a, "failed")
    /\ UNCHANGED <<people, invited, links, job, incidents>>

\* A read of the database or the upload of the file fails.
ExecuteFails(a) ==
    /\ a.stage \notin {"denied", "failed"} /\ Incident /\ To(a, "failed")
    /\ UNCHANGED <<people, invited, links, job>>

Complete(a) ==
    /\ a.stage = "checked"
    /\ IF job.status = "running" /\ Mine(a)
       THEN /\ job' = [Over("completed") EXCEPT !.by = job.by, !.fresh = job.fresh, !.shows = a.shows]
            /\ attempts' = attempts \ {a}
       ELSE To(a, "failed") /\ UNCHANGED job
    /\ UNCHANGED <<people, invited, links, incidents>>

\* Both look at the token and not at the status: the job of a dissolved team may be
\* queued again.
Fail(a) ==
    /\ a.stage = "failed"
    /\ job' = IF Mine(a) THEN [job EXCEPT !.status = "queued", !.token = 0] ELSE job
    /\ attempts' = attempts \ {a}
    /\ UNCHANGED <<people, invited, links, incidents>>

Revoke(a) ==
    /\ a.stage = "denied"
    /\ job' = IF Mine(a) THEN Over("revoked") ELSE job
    /\ attempts' = attempts \ {a}
    /\ UNCHANGED <<people, invited, links, incidents>>

WorkerDies(a) ==
    /\ Incident /\ attempts' = attempts \ {a}
    /\ UNCHANGED <<people, invited, links, job>>

DownloadableByRole(u) ==   \* mutant: the revision is not compared
    Active /\ Manager(u) /\ job.by = u /\ job.status = "completed"

\* What OpenExportContent hands out.
Downloadable(u) ==
    Active /\ Manager(u) /\ job.by = u /\ job.status = "completed" /\ job.fresh

-----------------------------------------------------------------------------
Init ==
    /\ team = [status |-> "none", owner |-> NoUser]
    /\ role = [u \in Users |-> "none"]
    /\ account = [u \in Users |-> "active"] /\ departed = {}
    /\ invited = [u \in Users |-> NoInvitation]
    /\ links = [l \in Links |-> NoLink]
    /\ job = NoJob /\ attempts = {}
    /\ incidents = 0

Invite ==
    \/ \E u \in Users, x \in Recipients :
        \/ \E r \in {"admin", "member"} : CreateInvitation(u, x, r)
        \/ RevokeInvitation(u, x) \/ ResendInvitation(u, x)
    \/ \E x \in Recipients : ExpireInvitation(x) \/ AcceptInvitation(x)
    \/ \E l \in Links : CloseLink(l) \/ \E u \in Users : CreateLink(u, l) \/ AcceptLink(u, l)

Manage ==
    \/ CreateTeam(Founder) \/ MoveRevision \/ DissolveTeam
    \/ \E u \in Users :
        \/ \E r \in {"admin", "member"} : ChangeMemberRole(u, r)
        \/ \E a \in Users : RemoveMember(a, u)
        \/ LeaveTeam(u) \/ TransferOwnership(u)
        \/ Suspend(u) \/ Reinstate(u) \/ RequestDeletion(u) \/ CancelDeletion(u)

Execute(a) == Authorize(a) \/ Write(a) \/ Complete(a) \/ Fail(a) \/ Revoke(a)

Export ==
    \/ \E u \in Users, ready \in BOOLEAN : QueueExport(u, ready)
    \/ ClaimExport
    \/ \E a \in attempts : Execute(a) \/ ExecuteFails(a) \/ WorkerDies(a)

Next == Invite \/ Manage \/ Export

\* Every pass of a worker claims a due job and carries it to its end.
Fairness ==
    /\ WF_vars(ClaimExport /\ UNCHANGED incidents)
    /\ WF_vars(\E a \in attempts : Execute(a))

Spec == Init /\ [][Next]_vars /\ Fairness

-----------------------------------------------------------------------------
(* Properties.                                                             *)

\* Every variable has its type.
TypeOK ==
    /\ team \in [status : {"none", "active", "dissolved"}, owner : Users \cup {NoUser}]
    /\ role \in [Users -> {"none", "member", "admin"}]
    /\ account \in [Users -> {"active", "suspended", "deletion_pending"}]
    /\ departed \subseteq Users
    /\ invited \in [Users -> [by : Users \cup {NoUser}, role : {"none", "member", "admin"},
                              before : BOOLEAN]]
    /\ links \in [Links -> [by : Users \cup {NoUser}, used : 0 .. MaxUses,
                            joined : SUBSET Users]]
    /\ job \in [status : {"none", "queued", "running", "completed", "failed", "revoked"},
                by : Users \cup {NoUser}, fresh : BOOLEAN, ready : BOOLEAN,
                generation : 0 .. MaxAttempts, token : 0 .. MaxAttempts, shows : SUBSET Users]
    /\ attempts \subseteq [token : 1 .. MaxAttempts, shows : SUBSET Users,
           stage : {"claimed", "authorized", "written", "checked", "denied", "failed"}]
    /\ incidents \in 0 .. MaxIncidents

\* Types hold, and through transfers, demotions, exits, suspensions and deletions
\* nothing in force is left by somebody without the authority for it: an active team
\* has an owner who is a member and stays, an open link is of an active manager and
\* has let in as many as joined by it, and a pending invitation is of a manager.
AuthorityHolds ==
    /\ TypeOK
    /\ Active => team.owner \in Members /\ account[team.owner] # "deletion_pending"
    /\ \A l \in Links :
          /\ links[l] # NoLink => Active /\ Manager(links[l].by) /\ account[links[l].by] = "active"
          /\ links[l].used = Cardinality(links[l].joined)
    /\ \A x \in Users : invited[x] # NoInvitation => Active /\ Manager(invited[x].by)

\* Whoever leaves, is removed or loses the team with its dissolution takes no pending
\* invitation along that could bring him back (closeMembership): one he can still
\* accept was issued after his last exit.  Except when that exit was the deletion of
\* the account, which leaves the invitations to him pending and can be cancelled.
NoReturnByOldInvitation ==
    \A x \in Users : invited[x].before => x \in departed

\* An export that can be downloaded lists the present members, whatever changed
\* while it was written, finished late or was executed twice.
DownloadShowsTheTeam ==
    \A u \in Users : Downloadable(u) => job.shows = Members

\* An export comes to an end, also that of a team dissolved under its worker, and
\* although a failure may queue a revoked job again.
EveryExportEnds ==
    job.status \in {"queued", "running"} ~> job.status \in {"completed", "failed", "revoked"}

=============================================================================

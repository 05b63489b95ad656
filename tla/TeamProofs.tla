----------------------------- MODULE TeamProofs ------------------------------
(***************************************************************************)
(* The safety of Team for any users, links and bounds.                     *)
(*                                                                         *)
(* AuthorityHolds is inductive once it also says that whoever opened an    *)
(* invitation or a link is a user (IssuersAreUsers): each command that     *)
(* takes somebody's authority closes what they opened.  An export follows  *)
(* the members because what an attempt has written lists them for as long  *)
(* as the job is fresh (ExportFollows): every change of the members moves  *)
(* the revision on, and no job gets a revision while an attempt of it runs.*)
(* NoReturnByOldInvitation is inductive as it stands: every exit ages what *)
(* survives of the invitations to the leaver, and closing a membership     *)
(* leaves none (NothingAges).                                              *)
(***************************************************************************)
EXTENDS Team, FiniteSetTheorems, TLAPS

Invitations == [by : Users \cup {NoUser}, role : {"none", "member", "admin"}, before : BOOLEAN]
OpenLinks == [by : Users \cup {NoUser}, used : 0 .. MaxUses, joined : SUBSET Users]
Jobs == [status : {"none", "queued", "running", "completed", "failed", "revoked"},
         by : Users \cup {NoUser}, fresh : BOOLEAN, ready : BOOLEAN,
         generation : 0 .. MaxAttempts, token : 0 .. MaxAttempts, shows : SUBSET Users]
Attempts == [token : 1 .. MaxAttempts, shows : SUBSET Users,
             stage : {"claimed", "authorized", "written", "checked", "denied", "failed"}]

OwnerStays == Active => team.owner \in Members /\ account[team.owner] # "deletion_pending"

LinksHold ==
    \A l \in Links :
        /\ links[l] # NoLink => Active /\ Manager(links[l].by) /\ account[links[l].by] = "active"
        /\ links[l].used = Cardinality(links[l].joined)

InvitationsHold == \A x \in Users : invited[x] # NoInvitation => Active /\ Manager(invited[x].by)

IssuersAreUsers ==
    /\ \A l \in Links : links[l] # NoLink => links[l].by \in Users
    /\ \A x \in Users : invited[x] # NoInvitation => invited[x].by \in Users

\* A job is queued once, by an active team; while it is fresh, what its attempts and
\* its file list are the members.
ExportFollows ==
    /\ team.status = "none" => job.status = "none"
    /\ job.status = "none" => attempts = {}
    /\ job.fresh => \A a \in attempts : a.stage \in {"written", "checked"} => a.shows = Members
    /\ job.fresh /\ job.status = "completed" => job.shows = Members

TeamInv ==
    /\ TypeOK
    /\ OwnerStays /\ LinksHold /\ InvitationsHold /\ IssuersAreUsers
    /\ NoReturnByOldInvitation
    /\ ExportFollows

USE TeamAssumption

-----------------------------------------------------------------------------

LEMMA Bounds == {MaxUses, MaxAttempts, MaxOpen, MaxIncidents} \subseteq Nat
OBVIOUS

LEMMA NothingOpen == NoInvitation \in Invitations /\ NoLink \in OpenLinks /\ NoJob \in Jobs
BY DEF NoInvitation, NoLink, NoJob, Invitations, OpenLinks, Jobs

LEMMA InitEstablishes == Init => TeamInv
<1> SUFFICES ASSUME Init PROVE TeamInv
  OBVIOUS
<1>1. TypeOK
  BY NothingOpen DEF Init, TypeOK, Invitations, OpenLinks, Jobs
<1>2. OwnerStays /\ InvitationsHold /\ IssuersAreUsers
  BY DEF Init, OwnerStays, Active, InvitationsHold, IssuersAreUsers
<1>3. LinksHold
  BY FS_EmptySet DEF Init, LinksHold, NoLink
<1>4. NoReturnByOldInvitation
  BY DEF Init, NoReturnByOldInvitation, NoInvitation
<1>5. ExportFollows
  BY DEF Init, ExportFollows, NoJob
<1> QED
  BY <1>1, <1>2, <1>3, <1>4, <1>5 DEF TeamInv

-----------------------------------------------------------------------------
(* What the steps share.                                                   *)

\* A manager is a member.
LEMMA ManagersAreMembers ==
    ASSUME TypeOK, NEW u \in Users, Manager(u)
    PROVE  u \in Members
BY DEF Manager, PublicRole, Members

\* Who keeps role and ownership keeps the authority.
LEMMA SameManager ==
    ASSUME NEW u \in Users, role'[u] = role[u], team'.owner = team.owner
    PROVE  Manager(u)' <=> Manager(u)
BY DEF Manager, PublicRole

LEMMA GrantersManage ==
    ASSUME NEW u \in Users, NEW r, MayGrant(u, r)
    PROVE  Manager(u)
BY DEF MayGrant, Manager

\* What an invitation or a link needs to stay open, kept by everyone but S.
LEMMA OpenStays ==
    ASSUME TeamInv, NEW S \in SUBSET Users,
           team' = team, UNCHANGED account,
           invited' \in [Users -> Invitations], links' \in [Links -> OpenLinks],
           \A u \in Users \ S : Manager(u) => Manager(u)',
           \A x \in Users : invited'[x] = NoInvitation \/ (invited'[x] = invited[x] /\ invited[x].by \notin S),
           \A l \in Links : links'[l] = NoLink \/ (links'[l] = links[l] /\ links[l].by \notin S)
    PROVE  LinksHold' /\ InvitationsHold' /\ IssuersAreUsers'
<1>1. NoLink.used = Cardinality(NoLink.joined)
  BY FS_EmptySet DEF NoLink
<1>2. IssuersAreUsers'
  BY DEF TeamInv, IssuersAreUsers
<1>3. InvitationsHold'
  BY DEF TeamInv, IssuersAreUsers, InvitationsHold, Active
<1>4. LinksHold'
  BY <1>1 DEF TeamInv, IssuersAreUsers, LinksHold, Active
<1> QED
  BY <1>2, <1>3, <1>4

\* Exports do not notice what leaves the members alone, nor, once the revision
\* moves on, anything else.
LEMMA ExportKept ==
    ASSUME TeamInv, UNCHANGED attempts, team.status = "none" => job' = job /\ team'.status = "none",
           \/ UNCHANGED <<role, job>>
           \/ job' \in Jobs /\ ~job'.fresh /\ (job'.status = "none" => job.status = "none")
           \/ job.status = "none" /\ job' = job,
           team'.status = "none" => team.status = "none"
    PROVE  ExportFollows'
BY DEF TeamInv, ExportFollows, Members

LEMMA BumpedTyped ==
    ASSUME TeamInv
    PROVE  Bumped \in Jobs /\ ~Bumped.fresh /\ Bumped.status = job.status
BY DEF TeamInv, TypeOK, Jobs, Bumped

\* Types of the parts.
LEMMA PartsTyped ==
    ASSUME TypeOK
    PROVE  /\ invited \in [Users -> Invitations] /\ links \in [Links -> OpenLinks]
           /\ job \in Jobs /\ attempts \in SUBSET Attempts
BY DEF TypeOK, Invitations, OpenLinks, Jobs, Attempts

LEMMA TypesKept ==
    ASSUME team' \in [status : {"none", "active", "dissolved"}, owner : Users \cup {NoUser}],
           role' \in [Users -> {"none", "member", "admin"}],
           account' \in [Users -> {"active", "suspended", "deletion_pending"}],
           departed' \subseteq Users,
           invited' \in [Users -> Invitations], links' \in [Links -> OpenLinks],
           job' \in Jobs, attempts' \in SUBSET Attempts,
           incidents' \in 0 .. MaxIncidents
    PROVE  TypeOK'
BY DEF TypeOK, Invitations, OpenLinks, Jobs, Attempts

-----------------------------------------------------------------------------
(* Invitations and links.                                                  *)

\* An invitation is closed, or opened by a manager of the active team.
LEMMA InvitationWritten ==
    ASSUME TeamInv, UNCHANGED <<people, links, job, attempts, incidents>>,
           NEW x \in Users, NEW new \in Invitations, invited' = [invited EXCEPT ![x] = new],
           new # NoInvitation => new.by \in Users /\ Manager(new.by) /\ Active,
           ~new.before
    PROVE  TeamInv'
<1>1. UNCHANGED <<team, role, account, departed, links, job, attempts, incidents>>
  BY DEF people
<1>2. invited \in [Users -> Invitations]
  BY PartsTyped DEF TeamInv
<1>3. /\ invited' \in [Users -> Invitations] /\ invited'[x] = new
      /\ \A y \in Users : y # x => invited'[y] = invited[y]
  BY <1>2
<1>4. TypeOK'
  BY <1>1, <1>3 DEF TeamInv, TypeOK, Invitations
<1>5. OwnerStays' /\ LinksHold'
  BY <1>1 DEF TeamInv, OwnerStays, LinksHold, Active, Members, Manager, PublicRole
<1>6. IssuersAreUsers'
  BY <1>1, <1>3 DEF TeamInv, IssuersAreUsers
<1>7. InvitationsHold'
  BY <1>1, <1>3 DEF TeamInv, InvitationsHold, Active, Manager, PublicRole
<1>8. NoReturnByOldInvitation'
  BY <1>1, <1>3 DEF TeamInv, NoReturnByOldInvitation
<1>9. ExportFollows'
  BY <1>1 DEF TeamInv, ExportFollows, Members
<1> QED
  BY <1>4, <1>5, <1>6, <1>7, <1>8, <1>9 DEF TeamInv

LEMMA CreateInvitationKeeps ==
    ASSUME TeamInv, NEW u \in Users, NEW x \in Users, NEW r \in {"admin", "member"},
           CreateInvitation(u, x, r)
    PROVE  TeamInv'
<1> DEFINE new == [by |-> u, role |-> r, before |-> FALSE]
<1>1. new \in Invitations
  BY DEF Invitations
<1>2. /\ UNCHANGED <<people, links, job, attempts, incidents>>
      /\ invited' = [invited EXCEPT ![x] = new]
      /\ new.by \in Users /\ Manager(new.by) /\ Active /\ ~new.before
  BY GrantersManage DEF CreateInvitation
<1> HIDE DEF new
<1> QED
  BY <1>1, <1>2, InvitationWritten

LEMMA InvitationClosed ==
    ASSUME TeamInv, NEW x \in Users, invited' = [invited EXCEPT ![x] = NoInvitation],
           UNCHANGED <<people, links, job, attempts, incidents>>
    PROVE  TeamInv'
<1>1. NoInvitation \in Invitations /\ ~NoInvitation.before
  BY NothingOpen DEF NoInvitation
<1> QED
  BY <1>1, InvitationWritten

LEMMA ResendInvitationKeeps ==
    ASSUME TeamInv, NEW u \in Users, NEW x \in Users, ResendInvitation(u, x)
    PROVE  TeamInv'
<1> DEFINE new == [invited[x] EXCEPT !.by = u, !.before = FALSE]
<1>1. invited[x] \in Invitations
  BY PartsTyped DEF TeamInv
<1>2. new \in Invitations /\ new.by = u /\ ~new.before
  BY <1>1 DEF Invitations
<1>3. invited' = [invited EXCEPT ![x] = new]
  BY DEF ResendInvitation
<1>4. UNCHANGED <<people, links, job, attempts, incidents>> /\ Manager(u)
  BY GrantersManage DEF ResendInvitation
<1>5. Active
  BY DEF ResendInvitation, TeamInv, InvitationsHold
<1> HIDE DEF new
<1> QED
  BY <1>2, <1>3, <1>4, <1>5, InvitationWritten

\* Somebody joins: nobody else's authority changes, and whoever joins had none.
LEMMA Joined ==
    ASSUME TeamInv, NEW x \in Users, x \notin Members, NEW r \in {"none", "member", "admin"},
           role' = [role EXCEPT ![x] = r], job' = Bumped,
           UNCHANGED <<team, account, departed, attempts, incidents>>, Active
    PROVE  /\ role' \in [Users -> {"none", "member", "admin"}] /\ job' \in Jobs
           /\ \A u \in Users : Manager(u) => Manager(u)'
           /\ OwnerStays' /\ ExportFollows'
<1>1. role \in [Users -> {"none", "member", "admin"}] /\ TypeOK
  BY DEF TeamInv, TypeOK
<1>2. \A u \in Users : Manager(u) => Manager(u)'
  BY <1>1, ManagersAreMembers, SameManager
<1>3. OwnerStays'
  BY <1>1 DEF TeamInv, OwnerStays, Active, Members
<1>4. job' \in Jobs /\ ~job'.fresh /\ job'.status = job.status
  BY BumpedTyped
<1>5. ExportFollows'
  BY <1>4, ExportKept DEF Active
<1> QED
  BY <1>1, <1>2, <1>3, <1>4, <1>5

LEMMA AcceptInvitationKeeps ==
    ASSUME TeamInv, NEW x \in Users, AcceptInvitation(x)
    PROVE  TeamInv'
<1>1. CASE x \in Members
  BY <1>1, InvitationClosed DEF AcceptInvitation, people
<1>2. CASE x \notin Members
  <2>1. /\ role' = [role EXCEPT ![x] = invited[x].role] /\ job' = Bumped /\ Active
        /\ invited' = [invited EXCEPT ![x] = NoInvitation]
        /\ UNCHANGED <<team, account, departed, links, attempts, incidents>>
    BY <1>2 DEF AcceptInvitation
  <2>2. invited[x].role \in {"none", "member", "admin"}
    BY PartsTyped DEF TeamInv, Invitations
  <2>3. /\ role' \in [Users -> {"none", "member", "admin"}] /\ job' \in Jobs
        /\ \A u \in Users : Manager(u) => Manager(u)'
        /\ OwnerStays' /\ ExportFollows'
    BY <1>2, <2>1, <2>2, Joined
  <2>4. /\ invited' \in [Users -> Invitations]
        /\ \A y \in Users : invited'[y] = NoInvitation \/ invited'[y] = invited[y]
    BY <2>1, PartsTyped, NothingOpen DEF TeamInv
  <2>5. links' \in [Links -> OpenLinks]
    BY <2>1, PartsTyped DEF TeamInv
  <2>6. LinksHold' /\ InvitationsHold' /\ IssuersAreUsers'
    <3>1. /\ \A y \in Users : \/ invited'[y] = NoInvitation
                            \/ (invited'[y] = invited[y] /\ invited[y].by \notin {})
          /\ \A l \in Links : \/ links'[l] = NoLink
                            \/ (links'[l] = links[l] /\ links[l].by \notin {})
          /\ \A u \in Users \ {} : Manager(u) => Manager(u)'
          /\ {} \in SUBSET Users
      BY <2>1, <2>3, <2>4
    <3> QED BY <2>1, <2>4, <2>5, <3>1, OpenStays
  <2>7. TypeOK'
    BY <2>1, <2>3, <2>4, <2>5, PartsTyped, TypesKept DEF TeamInv, TypeOK
  <2>8. NoReturnByOldInvitation'
    BY <2>1, <2>4 DEF TeamInv, NoReturnByOldInvitation, NoInvitation
  <2> QED
    BY <2>3, <2>6, <2>7, <2>8 DEF TeamInv
<1> QED
  BY <1>1, <1>2

\* A link is closed, or opened by an active manager of the active team.
LEMMA LinkWritten ==
    ASSUME TeamInv, UNCHANGED <<people, invited, job, attempts, incidents>>,
           NEW l \in Links, NEW new \in OpenLinks, links' = [links EXCEPT ![l] = new],
           new # NoLink => /\ new.by \in Users /\ Manager(new.by) /\ Active
                           /\ account[new.by] = "active",
           new.used = Cardinality(new.joined)
    PROVE  TeamInv'
<1>1. UNCHANGED <<team, role, account, departed, invited, job, attempts, incidents>>
  BY DEF people
<1>2. links \in [Links -> OpenLinks]
  BY PartsTyped DEF TeamInv
<1>3. /\ links' \in [Links -> OpenLinks] /\ links'[l] = new
      /\ \A k \in Links : k # l => links'[k] = links[k]
  BY <1>2
<1>4. TypeOK'
  BY <1>1, <1>3 DEF TeamInv, TypeOK, OpenLinks
<1>5. OwnerStays' /\ InvitationsHold'
  BY <1>1 DEF TeamInv, OwnerStays, InvitationsHold, Active, Members, Manager, PublicRole
<1>6. IssuersAreUsers'
  BY <1>1, <1>3 DEF TeamInv, IssuersAreUsers
<1>7. LinksHold'
  BY <1>1, <1>3 DEF TeamInv, LinksHold, Active, Manager, PublicRole
<1>8. NoReturnByOldInvitation'
  BY <1>1 DEF TeamInv, NoReturnByOldInvitation
<1>9. ExportFollows'
  BY <1>1 DEF TeamInv, ExportFollows, Members
<1> QED
  BY <1>4, <1>5, <1>6, <1>7, <1>8, <1>9 DEF TeamInv

LEMMA CreateLinkKeeps ==
    ASSUME TeamInv, NEW u \in Users, NEW l \in Links, CreateLink(u, l)
    PROVE  TeamInv'
<1> DEFINE new == [NoLink EXCEPT !.by = u]
<1>1. new \in OpenLinks /\ new.by = u /\ new.used = Cardinality(new.joined)
  BY FS_EmptySet DEF NoLink, OpenLinks
<1>2. /\ UNCHANGED <<people, invited, job, attempts, incidents>>
      /\ links' = [links EXCEPT ![l] = new]
      /\ Manager(u) /\ Active /\ account[u] = "active"
  BY DEF CreateLink
<1> HIDE DEF new
<1> QED
  BY <1>1, <1>2, LinkWritten

LEMMA CloseLinkKeeps ==
    ASSUME TeamInv, NEW l \in Links, CloseLink(l)
    PROVE  TeamInv'
<1>1. NoLink \in OpenLinks /\ NoLink.used = Cardinality(NoLink.joined)
  BY NothingOpen, FS_EmptySet DEF NoLink
<1> QED
  BY <1>1, LinkWritten DEF CloseLink

LEMMA AcceptLinkKeeps ==
    ASSUME TeamInv, NEW x \in Users, NEW l \in Links, AcceptLink(x, l)
    PROVE  TeamInv'
<1>1. /\ role' = [role EXCEPT ![x] = "member"] /\ job' = Bumped /\ Active /\ x \notin Members
      /\ links[l] # NoLink /\ x \notin links[l].joined /\ links[l].used < MaxUses
      /\ UNCHANGED <<team, account, departed, invited, attempts, incidents>>
  BY DEF AcceptLink
<1> DEFINE new == [links[l] EXCEPT !.used = @ + 1, !.joined = @ \cup {x}]
<1>2. links \in [Links -> OpenLinks] /\ links[l] \in OpenLinks
  BY PartsTyped DEF TeamInv
<1>3. links' = [links EXCEPT ![l] = new]
  BY <1>2 DEF AcceptLink
<1>4. /\ new \in OpenLinks /\ new.by = links[l].by
      /\ new.used = links[l].used + 1 /\ new.joined = links[l].joined \cup {x}
  <2>1. /\ links[l].by \in Users \cup {NoUser} /\ links[l].used + 1 \in 0 .. MaxUses
        /\ links[l].joined \cup {x} \in SUBSET Users
    BY <1>1, <1>2, Bounds DEF OpenLinks
  <2> DEFINE counted == [links[l] EXCEPT !.used = links[l].used + 1]
  <2>2. /\ counted \in OpenLinks /\ counted.by = links[l].by
        /\ counted.used = links[l].used + 1 /\ counted.joined = links[l].joined
    BY <1>2, <2>1 DEF OpenLinks
  <2>3. new = [counted EXCEPT !.joined = links[l].joined \cup {x}]
    OBVIOUS
  <2> HIDE DEF new, counted
  <2> QED
    BY <2>1, <2>2, <2>3 DEF OpenLinks
<1>5. new.used = Cardinality(new.joined)
  <2>1. IsFiniteSet(links[l].joined)
    BY <1>2, FS_Subset DEF OpenLinks
  <2>2. Cardinality(links[l].joined \cup {x}) = Cardinality(links[l].joined) + 1
    BY <1>1, <2>1, FS_AddElement
  <2> QED
    BY <1>4, <2>2 DEF TeamInv, LinksHold
<1>6. /\ role' \in [Users -> {"none", "member", "admin"}] /\ job' \in Jobs
      /\ \A u \in Users : Manager(u) => Manager(u)'
      /\ OwnerStays' /\ ExportFollows'
  BY <1>1, Joined
<1> HIDE DEF new
<1>7. /\ links' \in [Links -> OpenLinks] /\ links'[l] = new
      /\ \A k \in Links : k # l => links'[k] = links[k]
  BY <1>2, <1>3, <1>4
<1>8. LinksHold'
  <2>1. ASSUME NEW k \in Links, links'[k] # NoLink
        PROVE  Active' /\ Manager(links[k].by)' /\ account'[links'[k].by] = "active"
    <3>1. links[k] # NoLink /\ links'[k].by = links[k].by
      BY <1>1, <1>4, <1>7, <2>1
    <3>2. PICK u \in Users : u = links[k].by
      BY <3>1 DEF TeamInv, IssuersAreUsers
    <3>3. Active /\ Manager(u) /\ account[u] = "active"
      BY <3>1, <3>2 DEF TeamInv, LinksHold
    <3>4. Active' /\ Manager(u)' /\ account'[u] = "active"
      BY <1>1, <1>6, <3>3 DEF Active
    <3> QED
      BY <3>1, <3>2, <3>4 DEF Manager, PublicRole
  <2>2. \A k \in Links : links'[k].used = Cardinality(links'[k].joined)
    BY <1>5, <1>7 DEF TeamInv, LinksHold
  <2> QED
    BY <2>1, <2>2 DEF LinksHold, Manager, PublicRole
<1>9. InvitationsHold' /\ IssuersAreUsers'
  BY <1>1, <1>4, <1>6, <1>7 DEF TeamInv, InvitationsHold, IssuersAreUsers, Active
<1>10. TypeOK'
  BY <1>1, <1>6, <1>7, PartsTyped, TypesKept DEF TeamInv, TypeOK
<1>11. NoReturnByOldInvitation'
  BY <1>1 DEF TeamInv, NoReturnByOldInvitation
<1> QED
  BY <1>6, <1>8, <1>9, <1>10, <1>11 DEF TeamInv

-----------------------------------------------------------------------------
(* Roles and exits.                                                        *)

\* With no team there is no member to let in or to keep: the founder becomes one.
LEMMA CreateTeamKeeps ==
    ASSUME TeamInv, NEW u \in Users, CreateTeam(u)
    PROVE  TeamInv'
<1>1. /\ team.status = "none" /\ account[u] = "active" /\ ~Active
      /\ team' = [status |-> "active", owner |-> u]
      /\ role' = [role EXCEPT ![u] = "admin"]
      /\ UNCHANGED <<account, departed, invited, links, job, attempts, incidents>>
  BY DEF CreateTeam, Active
<1>2. role' \in [Users -> {"none", "member", "admin"}] /\ role'[u] = "admin"
  BY <1>1 DEF TeamInv, TypeOK
<1>3. TypeOK'
  BY <1>1, <1>2 DEF TeamInv, TypeOK
<1>4. OwnerStays'
  BY <1>1, <1>2 DEF OwnerStays, Members
<1>5. LinksHold' /\ InvitationsHold' /\ IssuersAreUsers'
  BY <1>1 DEF TeamInv, LinksHold, InvitationsHold, IssuersAreUsers
<1>6. NoReturnByOldInvitation'
  BY <1>1 DEF TeamInv, NoReturnByOldInvitation
<1>7. job.status = "none" /\ team'.status = "active"
  BY <1>1 DEF TeamInv, ExportFollows
<1>8. ExportFollows'
  BY <1>1, <1>7 DEF TeamInv, ExportFollows
<1> QED
  BY <1>3, <1>4, <1>5, <1>6, <1>8 DEF TeamInv

LEMMA MoveRevisionKeeps ==
    ASSUME TeamInv, MoveRevision
    PROVE  TeamInv'
<1>1. /\ UNCHANGED <<team, role, account, departed, invited, links, attempts, incidents>>
      /\ job' = Bumped
  BY DEF MoveRevision, people
<1>2. job' \in Jobs /\ ~job'.fresh /\ job'.status = job.status
  BY <1>1, BumpedTyped
<1>3. TypeOK'
  BY <1>1, <1>2, PartsTyped, TypesKept DEF TeamInv, TypeOK
<1>4. OwnerStays' /\ LinksHold' /\ InvitationsHold' /\ IssuersAreUsers' /\ NoReturnByOldInvitation'
  BY <1>1 DEF TeamInv, OwnerStays, LinksHold, InvitationsHold, IssuersAreUsers, Active, Members,
              Manager, PublicRole, NoReturnByOldInvitation
<1>5. ExportFollows'
  BY <1>1, <1>2 DEF TeamInv, ExportFollows
<1> QED
  BY <1>3, <1>4, <1>5 DEF TeamInv

\* What invitations and links are left when those of S are closed.
LEMMA WithoutTyped ==
    ASSUME TeamInv, NEW S \in SUBSET Users
    PROVE  /\ InvitationsWithoutInviters(S) \in [Users -> Invitations]
           /\ InvitationsWithout(S) \in [Users -> Invitations]
           /\ LinksWithoutCreators(S) \in [Links -> OpenLinks]
           /\ \A x \in Users :
                 /\ \/ InvitationsWithoutInviters(S)[x] = NoInvitation
                    \/ InvitationsWithoutInviters(S)[x] = invited[x] /\ invited[x].by \notin S
                 /\ \/ InvitationsWithout(S)[x] = NoInvitation
                    \/ InvitationsWithout(S)[x] = invited[x] /\ invited[x].by \notin S
           /\ \A l \in Links :
                 \/ LinksWithoutCreators(S)[l] = NoLink
                 \/ LinksWithoutCreators(S)[l] = links[l] /\ links[l].by \notin S
<1>1. invited \in [Users -> Invitations] /\ links \in [Links -> OpenLinks]
  BY PartsTyped DEF TeamInv
<1>2. InvitationsWithoutInviters(S) \in [Users -> Invitations]
      /\ InvitationsWithout(S) \in [Users -> Invitations]
  BY <1>1, NothingOpen DEF InvitationsWithoutInviters, InvitationsWithout
<1>3. LinksWithoutCreators(S) \in [Links -> OpenLinks]
  BY <1>1, NothingOpen DEF LinksWithoutCreators
<1> QED
  BY <1>2, <1>3 DEF InvitationsWithoutInviters, InvitationsWithout, LinksWithoutCreators

LEMMA ChangeMemberRoleKeeps ==
    ASSUME TeamInv, NEW u \in Users, NEW r \in {"admin", "member"}, ChangeMemberRole(u, r)
    PROVE  TeamInv'
<1> DEFINE S == IF r = "member" THEN {u} ELSE {}
<1>1. /\ u # team.owner /\ u \in Members /\ Active
      /\ role' = [role EXCEPT ![u] = r] /\ job' = Bumped
      /\ incidents < MaxIncidents /\ incidents' = incidents + 1
      /\ UNCHANGED <<team, account, departed, attempts>>
  BY DEF ChangeMemberRole, Incident
<1>2. S \in SUBSET Users /\ (u \notin S => r = "admin")
  OBVIOUS
<1>3. /\ invited' \in [Users -> Invitations] /\ links' \in [Links -> OpenLinks]
      /\ \A x \in Users : invited'[x] = NoInvitation \/ (invited'[x] = invited[x] /\ invited[x].by \notin S)
      /\ \A l \in Links : links'[l] = NoLink \/ (links'[l] = links[l] /\ links[l].by \notin S)
  <2>1. CASE r = "member"
    <3>1. S = {u} /\ invited' = InvitationsWithoutInviters({u}) /\ links' = LinksWithoutCreators({u})
      BY <2>1 DEF ChangeMemberRole
    <3>2. {u} \in SUBSET Users
      OBVIOUS
    <3> HIDE DEF S
    <3> QED
      BY <3>1, <3>2, WithoutTyped
  <2>2. CASE r # "member"
    BY <2>2, PartsTyped DEF ChangeMemberRole, TeamInv
  <2> QED
    BY <2>1, <2>2
<1> HIDE DEF S
<1>4. role \in [Users -> {"none", "member", "admin"}]
      /\ role' \in [Users -> {"none", "member", "admin"}]
  BY <1>1 DEF TeamInv, TypeOK
<1>5. \A v \in Users \ S : Manager(v) => Manager(v)'
  <2>1. \A v \in Users : v # u => (Manager(v) => Manager(v)')
    BY <1>1, <1>4, SameManager
  <2>2. r = "admin" => Manager(u)'
    BY <1>1, <1>4 DEF Manager, PublicRole
  <2> QED
    BY <1>2, <2>1, <2>2
<1>6. LinksHold' /\ InvitationsHold' /\ IssuersAreUsers'
  BY <1>1, <1>2, <1>3, <1>5, OpenStays
<1>7. job' \in Jobs /\ ~job'.fresh /\ job'.status = job.status
  BY <1>1, BumpedTyped
<1>8. TypeOK'
  <2>1. incidents' \in 0 .. MaxIncidents
    BY <1>1, Bounds DEF TeamInv, TypeOK
  <2> QED
    BY <1>1, <1>3, <1>4, <1>7, <2>1, PartsTyped, TypesKept DEF TeamInv, TypeOK
<1>9. OwnerStays'
  BY <1>1, <1>4 DEF TeamInv, OwnerStays, Members, Active
<1>10. NoReturnByOldInvitation'
  BY <1>1, <1>3 DEF TeamInv, NoReturnByOldInvitation, NoInvitation
<1>11. ExportFollows'
  BY <1>1, <1>7, ExportKept DEF Active
<1> QED
  BY <1>6, <1>8, <1>9, <1>10, <1>11 DEF TeamInv

\* A membership is closed, with what its user had opened.
LEMMA MembershipClosed ==
    ASSUME TeamInv, NEW u \in Users, NEW left, u \in Members, Close({u}, left), team' = team,
           Active => u # team.owner
    PROVE  /\ role' \in [Users -> {"none", "member", "admin"}]
           /\ \A v \in Users : role'[v] = IF v = u THEN "none" ELSE role[v]
           /\ \A v \in Users \ {u} : Manager(v) => Manager(v)'
           /\ links' \in [Links -> OpenLinks]
           /\ \A l \in Links : links'[l] = NoLink \/ (links'[l] = links[l] /\ links[l].by \notin {u})
<1>1. role \in [Users -> {"none", "member", "admin"}]
  BY DEF TeamInv, TypeOK
<1>2. /\ role' \in [Users -> {"none", "member", "admin"}]
      /\ \A v \in Users : role'[v] = IF v = u THEN "none" ELSE role[v]
  BY <1>1 DEF Close
<1>3. \A v \in Users \ {u} : Manager(v) => Manager(v)'
  BY <1>2, SameManager
<1>4. {u} \in SUBSET Users /\ links' = LinksWithoutCreators({u})
  BY DEF Close
<1> QED
  BY <1>2, <1>3, <1>4, WithoutTyped

\* An exit that revokes the invitations to the leaver leaves none that could age.
LEMMA NothingAges ==
    ASSUME TeamInv, NEW u \in Users, Close({u}, InvitationsWithout({u}))
    PROVE  invited' = InvitationsWithout({u}) /\ invited'[u] = NoInvitation
<1> DEFINE left == InvitationsWithout({u})
<1>1. {u} \in SUBSET Users
  OBVIOUS
<1>2. left \in [Users -> Invitations]
  BY <1>1, WithoutTyped
<1>3. left[u] = NoInvitation
  BY DEF InvitationsWithout
<1> HIDE DEF left
<1>4. invited' = [x \in Users |-> IF x \in {u} /\ left[x] # NoInvitation
                                 THEN [left[x] EXCEPT !.before = TRUE] ELSE left[x]]
  BY DEF Close, Aged, left
<1>5. \A x \in Users : ~(x \in {u} /\ left[x] # NoInvitation)
  BY <1>3
<1>6. invited' = [x \in Users |-> left[x]]
  BY <1>4, <1>5
<1>7. invited' = left
  BY <1>2, <1>6
<1> QED
  BY <1>3, <1>7 DEF left

\* Removed by another, or left.
LEMMA ExitKeeps ==
    ASSUME TeamInv, NEW u \in Users, Active, u \in Members, u # team.owner,
           Close({u}, InvitationsWithout({u})), departed' = departed \ {u},
           job' = Bumped, Incident, UNCHANGED <<team, account, attempts>>
    PROVE  TeamInv'
<1>1. /\ role' \in [Users -> {"none", "member", "admin"}]
      /\ \A v \in Users : role'[v] = IF v = u THEN "none" ELSE role[v]
      /\ \A v \in Users \ {u} : Manager(v) => Manager(v)'
      /\ links' \in [Links -> OpenLinks]
      /\ \A l \in Links : links'[l] = NoLink \/ (links'[l] = links[l] /\ links[l].by \notin {u})
  BY MembershipClosed
<1>2. {u} \in SUBSET Users
  OBVIOUS
<1>3. /\ invited' \in [Users -> Invitations]
      /\ \A x \in Users : invited'[x] = NoInvitation \/ (invited'[x] = invited[x] /\ invited[x].by \notin {u})
  BY <1>2, WithoutTyped, NothingAges
<1>4. LinksHold' /\ InvitationsHold' /\ IssuersAreUsers'
  BY <1>1, <1>2, <1>3, OpenStays
<1>5. job' \in Jobs /\ ~job'.fresh /\ job'.status = job.status
  BY BumpedTyped
<1>6. TypeOK'
  <2>1. incidents' \in 0 .. MaxIncidents
    BY Bounds DEF TeamInv, TypeOK, Incident
  <2> QED
    BY <1>1, <1>3, <1>5, <2>1, PartsTyped, TypesKept DEF TeamInv, TypeOK
<1>7. OwnerStays'
  BY <1>1 DEF TeamInv, OwnerStays, Members, Active
<1>8. NoReturnByOldInvitation'
  <2>1. ~NoInvitation.before /\ invited'[u] = NoInvitation
    BY NothingAges DEF NoInvitation
  <2>2. \A x \in Users : invited[x].before => x \in departed
    BY DEF TeamInv, NoReturnByOldInvitation
  <2>3. \A x \in Users : invited'[x].before => invited'[x] = invited[x] /\ x # u
    BY <1>3, <2>1
  <2> QED
    BY <2>1, <2>2, <2>3 DEF NoReturnByOldInvitation
<1>9. ExportFollows'
  BY <1>5, ExportKept DEF Active
<1> QED
  BY <1>4, <1>6, <1>7, <1>8, <1>9 DEF TeamInv

LEMMA RemoveMemberKeeps ==
    ASSUME TeamInv, NEW a \in Users, NEW u \in Users, RemoveMember(a, u)
    PROVE  TeamInv'
BY ExitKeeps DEF RemoveMember, MayRemove

LEMMA LeaveTeamKeeps ==
    ASSUME TeamInv, NEW u \in Users, LeaveTeam(u)
    PROVE  TeamInv'
BY ExitKeeps DEF LeaveTeam

LEMMA TransferOwnershipKeeps ==
    ASSUME TeamInv, NEW u \in Users, TransferOwnership(u)
    PROVE  TeamInv'
<1>1. /\ Active /\ team.owner \in Members /\ u \in Members \ {team.owner} /\ account[u] = "active"
      /\ team' = [team EXCEPT !.owner = u]
      /\ role' = [role EXCEPT ![team.owner] = "admin"]
      /\ job' = Bumped /\ incidents < MaxIncidents /\ incidents' = incidents + 1
      /\ UNCHANGED <<account, departed, invited, links, attempts>>
  BY DEF TransferOwnership, Incident
<1>2. /\ role \in [Users -> {"none", "member", "admin"}] /\ team.owner \in Users
      /\ team \in [status : {"none", "active", "dissolved"}, owner : Users \cup {NoUser}]
  BY <1>1 DEF TeamInv, TypeOK, Members
<1>3. /\ role' \in [Users -> {"none", "member", "admin"}]
      /\ team' \in [status : {"none", "active", "dissolved"}, owner : Users \cup {NoUser}]
      /\ team'.status = team.status /\ team'.owner = u
      /\ \A v \in Users : role'[v] = IF v = team.owner THEN "admin" ELSE role[v]
  BY <1>1, <1>2
<1>4. \A v \in Users : Manager(v) => Manager(v)'
  BY <1>3 DEF Manager, PublicRole
<1>5. job' \in Jobs /\ ~job'.fresh /\ job'.status = job.status
  BY <1>1, BumpedTyped
<1>6. TypeOK'
  <2>1. incidents' \in 0 .. MaxIncidents
    BY <1>1, Bounds DEF TeamInv, TypeOK
  <2> QED
    BY <1>1, <1>3, <1>5, <2>1, PartsTyped, TypesKept DEF TeamInv, TypeOK
<1>7. OwnerStays'
  BY <1>1, <1>3 DEF OwnerStays, Members
<1>8. IssuersAreUsers' /\ NoReturnByOldInvitation'
  BY <1>1 DEF TeamInv, IssuersAreUsers, NoReturnByOldInvitation
<1>9. Active'
  BY <1>1, <1>3 DEF Active
<1>10. InvitationsHold'
  <2> SUFFICES ASSUME NEW x \in Users, invited[x] # NoInvitation
               PROVE  Manager(invited[x].by)'
    BY <1>1, <1>9 DEF InvitationsHold
  <2>1. PICK v \in Users : v = invited[x].by /\ Manager(v)
    BY DEF TeamInv, IssuersAreUsers, InvitationsHold
  <2>2. Manager(v)' /\ v = invited'[x].by
    BY <1>1, <1>4, <2>1
  <2> QED
    BY <2>2 DEF Manager, PublicRole
<1>11. LinksHold'
  <2>1. ASSUME NEW l \in Links, links[l] # NoLink
        PROVE  Manager(links[l].by)' /\ account[links[l].by] = "active"
    <3>1. PICK v \in Users : v = links[l].by /\ Manager(v) /\ account[v] = "active"
      BY <2>1 DEF TeamInv, IssuersAreUsers, LinksHold
    <3>2. Manager(v)' /\ v = links'[l].by
      BY <1>1, <1>4, <3>1
    <3> QED
      BY <3>1, <3>2 DEF Manager, PublicRole
  <2>2. \A l \in Links : links'[l].used = Cardinality(links'[l].joined)
    BY <1>1 DEF TeamInv, LinksHold
  <2> QED
    BY <1>1, <1>9, <2>1, <2>2 DEF LinksHold, Manager, PublicRole
<1>12. ExportFollows'
  BY <1>1, <1>3, <1>5, ExportKept DEF Active
<1> QED
  BY <1>6, <1>7, <1>8, <1>10, <1>11, <1>12 DEF TeamInv

LEMMA DissolveTeamKeeps ==
    ASSUME TeamInv, DissolveTeam
    PROVE  TeamInv'
<1>1. /\ Active
      /\ team' = [team EXCEPT !.status = "dissolved"]
      /\ role' = [u \in Users |-> "none"]
      /\ invited' = [x \in Users |-> NoInvitation]
      /\ departed' = departed \ Members
      /\ links' = [l \in Links |-> NoLink]
      /\ job' = [Bumped EXCEPT !.ready = FALSE,
                    !.status = IF @ \in {"queued", "running", "completed"} THEN "revoked" ELSE @]
      /\ incidents < MaxIncidents /\ incidents' = incidents + 1
      /\ UNCHANGED <<account, attempts>>
  BY DEF DissolveTeam, Incident, Aged
<1>2. /\ team' \in [status : {"none", "active", "dissolved"}, owner : Users \cup {NoUser}]
      /\ team'.status = "dissolved"
  BY <1>1 DEF TeamInv, TypeOK
<1>3. job' \in Jobs /\ ~job'.fresh /\ (job'.status = "none" => job.status = "none")
  <2>1. Bumped \in Jobs /\ ~Bumped.fresh /\ Bumped.status = job.status
    BY BumpedTyped
  <2> QED
    BY <1>1, <2>1 DEF Jobs
<1>4. TypeOK'
  <2>1. incidents' \in 0 .. MaxIncidents
    BY <1>1, Bounds DEF TeamInv, TypeOK
  <2>2. invited' \in [Users -> Invitations] /\ links' \in [Links -> OpenLinks]
    BY <1>1, NothingOpen
  <2>3. role' \in [Users -> {"none", "member", "admin"}]
    BY <1>1
  <2> QED
    BY <1>1, <1>2, <1>3, <2>1, <2>2, <2>3, PartsTyped, TypesKept DEF TeamInv, TypeOK
<1>5. OwnerStays'
  BY <1>2 DEF OwnerStays, Active
<1>6. InvitationsHold' /\ IssuersAreUsers' /\ NoReturnByOldInvitation'
  BY <1>1 DEF InvitationsHold, IssuersAreUsers, NoReturnByOldInvitation, NoInvitation
<1>7. LinksHold'
  BY <1>1, FS_EmptySet DEF LinksHold, NoLink
<1>8. ExportFollows'
  BY <1>1, <1>2, <1>3, ExportKept DEF Active
<1> QED
  BY <1>4, <1>5, <1>6, <1>7, <1>8 DEF TeamInv

-----------------------------------------------------------------------------
(* Accounts.                                                               *)

LEMMA SuspendKeeps ==
    ASSUME TeamInv, NEW u \in Users, Suspend(u)
    PROVE  TeamInv'
<1>1. /\ account' = [account EXCEPT ![u] = "suspended"]
      /\ links' = IF u \in Members THEN LinksWithoutCreators({u}) ELSE links
      /\ job' = IF u \in Members THEN [Bumped EXCEPT !.ready = FALSE] ELSE job
      /\ incidents < MaxIncidents /\ incidents' = incidents + 1
      /\ UNCHANGED <<team, role, departed, invited, attempts>>
  BY DEF Suspend, Suspended, Incident
<1>2. account \in [Users -> {"active", "suspended", "deletion_pending"}] /\ TypeOK
  BY DEF TeamInv, TypeOK
<1>3. /\ links' \in [Links -> OpenLinks]
      /\ \A l \in Links : links'[l] = NoLink \/ (links'[l] = links[l] /\ links[l].by # u)
  <2>1. CASE u \in Members
    <3>1. {u} \in SUBSET Users
      OBVIOUS
    <3> QED
      BY <1>1, <2>1, <3>1, WithoutTyped
  <2>2. CASE u \notin Members
    BY <1>1, <1>2, <2>2, ManagersAreMembers, PartsTyped DEF TeamInv, LinksHold
  <2> QED
    BY <2>1, <2>2
<1>4. job' \in Jobs /\ (job' = job \/ (~job'.fresh /\ job'.status = job.status))
  <2>1. Bumped \in Jobs /\ ~Bumped.fresh /\ Bumped.status = job.status
    BY BumpedTyped
  <2>2. job \in Jobs
    BY <1>2, PartsTyped
  <2> QED
    BY <1>1, <2>1, <2>2 DEF Jobs
<1>5. TypeOK'
  <2>1. incidents' \in 0 .. MaxIncidents
    BY <1>1, <1>2, Bounds DEF TypeOK
  <2>2. account' \in [Users -> {"active", "suspended", "deletion_pending"}]
    BY <1>1, <1>2
  <2> QED
    BY <1>1, <1>2, <1>3, <1>4, <2>1, <2>2, PartsTyped, TypesKept DEF TypeOK
<1>6. OwnerStays'
  BY <1>1, <1>2 DEF TeamInv, OwnerStays, Active, Members
<1>7. InvitationsHold' /\ NoReturnByOldInvitation'
  BY <1>1 DEF TeamInv, InvitationsHold, NoReturnByOldInvitation, Active, Manager, PublicRole
<1>8. IssuersAreUsers'
  BY <1>1, <1>3 DEF TeamInv, IssuersAreUsers
<1>9. LinksHold'
  <2>1. ASSUME NEW l \in Links, links'[l] # NoLink
        PROVE  Active' /\ Manager(links[l].by)' /\ account'[links'[l].by] = "active"
    <3>1. /\ links[l] # NoLink /\ links'[l] = links[l] /\ links[l].by # u /\ links[l].by \in Users
          /\ Active /\ Manager(links[l].by) /\ account[links[l].by] = "active"
      BY <1>3, <2>1 DEF TeamInv, LinksHold, IssuersAreUsers
    <3>2. account'[links[l].by] = "active"
      BY <1>1, <1>2, <3>1
    <3> QED
      BY <1>1, <3>1, <3>2 DEF Active, Manager, PublicRole
  <2>2. \A l \in Links : links'[l].used = Cardinality(links'[l].joined)
    BY <1>3, FS_EmptySet DEF TeamInv, LinksHold, NoLink
  <2> QED
    BY <2>1, <2>2 DEF LinksHold, Manager, PublicRole
<1>10. ExportFollows'
  BY <1>1, <1>4 DEF TeamInv, ExportFollows, Members
<1> QED
  BY <1>5, <1>6, <1>7, <1>8, <1>9, <1>10 DEF TeamInv

\* An account becomes active again.
LEMMA AccountRestored ==
    ASSUME TeamInv, NEW u \in Users, account' = [account EXCEPT ![u] = "active"],
           UNCHANGED <<team, role, departed, invited, links, job, attempts, incidents>>
    PROVE  TeamInv'
<1>1. account \in [Users -> {"active", "suspended", "deletion_pending"}]
  BY DEF TeamInv, TypeOK
<1>2. TypeOK'
  BY <1>1 DEF TeamInv, TypeOK
<1>3. OwnerStays'
  BY <1>1 DEF TeamInv, OwnerStays, Active, Members
<1>4. LinksHold'
  BY <1>1 DEF TeamInv, LinksHold, IssuersAreUsers, Active, Manager, PublicRole
<1>5. InvitationsHold' /\ IssuersAreUsers' /\ NoReturnByOldInvitation'
  BY DEF TeamInv, InvitationsHold, IssuersAreUsers, NoReturnByOldInvitation, Active, Manager,
         PublicRole
<1>6. ExportFollows'
  BY DEF TeamInv, ExportFollows, Members
<1> QED
  BY <1>2, <1>3, <1>4, <1>5, <1>6 DEF TeamInv

LEMMA RequestDeletionKeeps ==
    ASSUME TeamInv, NEW u \in Users, RequestDeletion(u)
    PROVE  TeamInv'
<1>1. /\ ~(Active /\ team.owner = u)
      /\ account' = [account EXCEPT ![u] = "deletion_pending"]
      /\ incidents < MaxIncidents /\ incidents' = incidents + 1
      /\ UNCHANGED <<team, attempts>>
  BY DEF RequestDeletion, Incident
<1>2. TypeOK /\ account \in [Users -> {"active", "suspended", "deletion_pending"}]
      /\ invited \in [Users -> Invitations]
  BY PartsTyped DEF TeamInv, TypeOK
<1> DEFINE kept == InvitationsWithoutInviters({u})
           aged == IF kept[u] = NoInvitation THEN NoInvitation ELSE [kept[u] EXCEPT !.before = TRUE]
<1>3. \/ /\ u \in Members /\ Close({u}, kept) /\ job' = Bumped
         /\ \A x \in Users : invited'[x] = IF x = u THEN aged ELSE kept[x]
         /\ invited' = Aged(kept, {u})
         /\ departed' = departed \cup {u}
      \/ /\ u \notin Members
         /\ UNCHANGED <<role, links, invited, job, departed>>
  <2>1. CASE u \in Members
    <3>1. Close({u}, kept) /\ job' = Bumped /\ departed' = departed \cup {u}
      BY <2>1 DEF RequestDeletion
    <3> HIDE DEF kept
    <3>2. invited' = Aged(kept, {u})
      BY <3>1 DEF Close
    <3>3. \A x \in Users : Aged(kept, {u})[x] = IF x = u THEN aged ELSE kept[x]
      BY DEF Aged
    <3> QED BY <2>1, <3>1, <3>2, <3>3
  <2>2. CASE u \notin Members
    BY <2>2 DEF RequestDeletion
  <2> QED BY <2>1, <2>2
<1>4. kept \in [Users -> Invitations]
      /\ \A x \in Users : kept[x] = NoInvitation \/ (kept[x] = invited[x] /\ invited[x].by # u)
  <2>1. {u} \in SUBSET Users
    OBVIOUS
  <2> QED BY <2>1, WithoutTyped
<1> HIDE DEF kept
<1>5. aged \in Invitations /\ aged.by = kept[u].by
      /\ (aged # NoInvitation => kept[u] # NoInvitation)
  BY <1>4, NothingOpen DEF Invitations
<1> HIDE DEF aged
<1>6. /\ role' \in [Users -> {"none", "member", "admin"}]
      /\ \A v \in Users : role'[v] = role[v] \/ (v = u /\ ~(Active /\ team.owner = v))
      /\ \A v \in Users \ {u} : Manager(v) => Manager(v)'
      /\ links' \in [Links -> OpenLinks]
      /\ \A l \in Links : links'[l] = NoLink \/ (links'[l] = links[l] /\ links[l].by # u)
  <2>1. CASE u \in Members
    BY <1>1, <1>3, <2>1, MembershipClosed
  <2>2. CASE u \notin Members
    <3>1. role' = role /\ links' = links /\ role \in [Users -> {"none", "member", "admin"}]
          /\ links \in [Links -> OpenLinks]
      BY <1>2, <1>3, <2>2, PartsTyped DEF TypeOK
    <3>2. \A l \in Links : links[l] = NoLink \/ links[l].by # u
      BY <1>2, <2>2, ManagersAreMembers DEF TeamInv, LinksHold
    <3> QED
      BY <1>1, <3>1, <3>2, SameManager
  <2> QED
    BY <2>1, <2>2
<1>7. /\ invited' \in [Users -> Invitations]
      /\ \A x \in Users : invited'[x] # NoInvitation =>
            invited[x] # NoInvitation /\ invited'[x].by = invited[x].by /\ invited[x].by # u
      /\ \A x \in Users : invited'[x].before => invited[x].before \/ x \in departed'
      /\ departed \subseteq departed' /\ departed' \subseteq Users
  <2>1. CASE u \in Members
    <3>1. \A x \in Users : invited'[x] = IF x = u THEN aged ELSE kept[x]
      BY <1>3, <2>1
    <3>2. u \in departed' /\ departed \subseteq departed' /\ departed' \subseteq Users
      BY <1>2, <1>3, <2>1 DEF TypeOK
    <3>3. ~NoInvitation.before
      BY DEF NoInvitation
    <3>4. invited' \in [Users -> Invitations]
      <4>1. DOMAIN invited' = Users /\ invited' = [x \in Users |-> invited'[x]]
        BY <1>3, <2>1 DEF Aged
      <4> QED BY <1>4, <1>5, <3>1, <4>1
    <3>5. \A x \in Users : invited'[x] # NoInvitation =>
             invited[x] # NoInvitation /\ invited'[x].by = invited[x].by /\ invited[x].by # u
      BY <1>4, <1>5, <3>1
    <3>6. \A x \in Users : invited'[x].before => invited[x].before \/ x \in departed'
      BY <1>4, <3>1, <3>2, <3>3
    <3> QED
      BY <3>2, <3>4, <3>5, <3>6
  <2>2. CASE u \notin Members
    <3>1. \A x \in Users : invited[x] # NoInvitation => invited[x].by # u
      BY <1>2, <2>2, ManagersAreMembers DEF TeamInv, InvitationsHold
    <3> QED
      BY <1>2, <1>3, <2>2, <3>1 DEF TypeOK
  <2> QED
    BY <2>1, <2>2
<1>8. job' \in Jobs /\ ((job' = job /\ role' = role) \/ (~job'.fresh /\ job'.status = job.status))
  <2>1. Bumped \in Jobs /\ ~Bumped.fresh /\ Bumped.status = job.status
    BY BumpedTyped
  <2>2. job \in Jobs
    BY <1>2, PartsTyped
  <2> QED
    BY <1>3, <2>1, <2>2
<1>9. account' \in [Users -> {"active", "suspended", "deletion_pending"}]
      /\ \A v \in Users : v # u => account'[v] = account[v]
  BY <1>1, <1>2
<1>10. TypeOK'
  <2>1. incidents' \in 0 .. MaxIncidents
    BY <1>1, <1>2, Bounds DEF TypeOK
  <2> QED
    BY <1>1, <1>2, <1>6, <1>7, <1>8, <1>9, <2>1, PartsTyped, TypesKept DEF TypeOK
<1>11. OwnerStays'
  BY <1>1, <1>6, <1>9 DEF TeamInv, OwnerStays, Active, Members
<1>12. IssuersAreUsers'
  BY <1>6, <1>7 DEF TeamInv, IssuersAreUsers
<1>13. InvitationsHold'
  <2> SUFFICES ASSUME NEW x \in Users, invited'[x] # NoInvitation
               PROVE  Active' /\ Manager(invited[x].by)'
    BY DEF InvitationsHold, Manager, PublicRole
  <2>1. PICK v \in Users \ {u} : v = invited[x].by /\ Manager(v) /\ v = invited'[x].by /\ Active
    BY <1>7 DEF TeamInv, IssuersAreUsers, InvitationsHold
  <2>2. Manager(v)' /\ Active'
    BY <1>1, <1>6, <2>1 DEF Active
  <2> QED
    BY <2>1, <2>2 DEF Manager, PublicRole
<1>14. LinksHold'
  <2>1. ASSUME NEW l \in Links, links'[l] # NoLink
        PROVE  Active' /\ Manager(links[l].by)' /\ account'[links'[l].by] = "active"
    <3>1. PICK v \in Users \ {u} : /\ v = links[l].by /\ Manager(v) /\ v = links'[l].by
                                   /\ Active /\ account[v] = "active"
      BY <1>6, <2>1 DEF TeamInv, IssuersAreUsers, LinksHold
    <3>2. Manager(v)' /\ Active' /\ account'[v] = "active"
      BY <1>1, <1>6, <1>9, <3>1 DEF Active
    <3> QED
      BY <3>1, <3>2 DEF Manager, PublicRole
  <2>2. \A l \in Links : links'[l].used = Cardinality(links'[l].joined)
    <3>1. NoLink.used = Cardinality(NoLink.joined)
      BY FS_EmptySet DEF NoLink
    <3>2. \A l \in Links : links[l].used = Cardinality(links[l].joined)
      BY DEF TeamInv, LinksHold
    <3> QED BY <1>6, <3>1, <3>2
  <2> QED
    BY <2>1, <2>2 DEF LinksHold, Manager, PublicRole
<1>15. NoReturnByOldInvitation'
  BY <1>7 DEF TeamInv, NoReturnByOldInvitation
<1>16. ExportFollows'
  BY <1>1, <1>8 DEF TeamInv, ExportFollows, Members
<1> QED
  BY <1>10, <1>11, <1>12, <1>13, <1>14, <1>15, <1>16 DEF TeamInv

-----------------------------------------------------------------------------
(* The export.                                                             *)

\* A step of the export leaves the team alone.
LEMMA ExportStep ==
    ASSUME TeamInv, UNCHANGED <<people, invited, links>>,
           job' \in Jobs, attempts' \in SUBSET Attempts, incidents' \in 0 .. MaxIncidents,
           ExportFollows'
    PROVE  TeamInv'
<1>1. UNCHANGED <<team, role, account, departed, invited, links>>
  BY DEF people
<1>2. TypeOK'
  BY <1>1, PartsTyped, TypesKept DEF TeamInv, TypeOK
<1> QED
  BY <1>1, <1>2 DEF TeamInv, OwnerStays, LinksHold, InvitationsHold, IssuersAreUsers, Active,
                    Members, Manager, PublicRole, NoReturnByOldInvitation

\* An attempt goes on without having written, or ends.
LEMMA AttemptStep ==
    ASSUME TeamInv, UNCHANGED <<people, invited, links, job>>, NEW a \in attempts,
           incidents' \in 0 .. MaxIncidents,
           \/ attempts' = attempts \ {a}
           \/ \E stage \in {"authorized", "checked", "denied", "failed"} :
                 To(a, stage) /\ (stage = "checked" => a.stage = "written")
    PROVE  TeamInv'
<1>1. attempts \in SUBSET Attempts /\ job \in Jobs
  BY PartsTyped DEF TeamInv
<1>2. CASE attempts' = attempts \ {a}
  BY <1>1, <1>2, ExportStep DEF TeamInv, ExportFollows, people, Members
<1>3. ASSUME NEW stage \in {"authorized", "checked", "denied", "failed"},
             To(a, stage) /\ (stage = "checked" => a.stage = "written")
      PROVE  TeamInv'
  <2> DEFINE b == [a EXCEPT !.stage = stage]
  <2>1. b \in Attempts /\ b.stage = stage /\ b.shows = a.shows
    BY <1>1 DEF Attempts
  <2>2. attempts' = (attempts \ {a}) \cup {b}
    BY <1>3 DEF To
  <2> HIDE DEF b
  <2>3. attempts' \in SUBSET Attempts /\ attempts # {}
    BY <1>1, <2>1, <2>2
  <2>4. ExportFollows'
    BY <1>3, <2>1, <2>2, <2>3 DEF TeamInv, ExportFollows, people, Members
  <2> QED
    BY <1>1, <2>3, <2>4, ExportStep
<1> QED
  BY <1>2, <1>3

LEMMA IncidentsTyped ==
    ASSUME TeamInv, Incident \/ UNCHANGED incidents
    PROVE  incidents' \in 0 .. MaxIncidents
BY Bounds DEF TeamInv, TypeOK, Incident

LEMMA QueueExportKeeps ==
    ASSUME TeamInv, NEW u \in Users, NEW ready \in BOOLEAN, QueueExport(u, ready)
    PROVE  TeamInv'
<1>1. /\ job.status = "none" /\ team.status = "active" /\ attempts = {}
      /\ job' = [NoJob EXCEPT !.status = "queued", !.by = u, !.fresh = TRUE, !.ready = ready]
      /\ UNCHANGED <<people, invited, links, attempts, incidents>>
  BY DEF QueueExport, Active, TeamInv, ExportFollows
<1>2. job' \in Jobs /\ job'.status = "queued"
  BY <1>1, NothingOpen DEF Jobs
<1>3. ExportFollows'
  BY <1>1, <1>2 DEF ExportFollows, people
<1> QED
  BY <1>1, <1>2, <1>3, ExportStep, IncidentsTyped

\* The row of a job that is over is of no revision.
LEMMA OverTyped ==
    ASSUME NEW status \in {"completed", "failed", "revoked"}
    PROVE  Over(status) \in Jobs /\ ~Over(status).fresh /\ Over(status).status = status
<1>1. NoJob \in Jobs /\ ~NoJob.fresh
  BY NothingOpen DEF NoJob
<1>2. Over(status) = [NoJob EXCEPT !.status = status]
  BY DEF Over
<1>3. Over(status) \in Jobs /\ Over(status).status = status /\ Over(status).fresh = NoJob.fresh
  BY <1>1, <1>2 DEF Jobs
<1> QED
  BY <1>1, <1>3

LEMMA ClaimExportKeeps ==
    ASSUME TeamInv, ClaimExport
    PROVE  TeamInv'
<1>1. /\ job.status \in {"queued", "running"} /\ UNCHANGED <<people, invited, links>>
      /\ incidents' \in 0 .. MaxIncidents
  BY IncidentsTyped DEF ClaimExport, Claimable
<1>2. attempts \in SUBSET Attempts /\ job \in Jobs
  BY PartsTyped DEF TeamInv
<1>3. CASE job.generation >= MaxAttempts
  <2>1. job' = Over("failed") /\ UNCHANGED attempts
    BY <1>3 DEF ClaimExport
  <2>2. job' \in Jobs /\ ~job'.fresh /\ job'.status = "failed"
    BY <2>1, OverTyped
  <2>3. ExportFollows'
    BY <1>1, <2>1, <2>2 DEF TeamInv, ExportFollows, people
  <2> QED
    BY <1>1, <1>2, <2>1, <2>2, <2>3, ExportStep
<1>4. CASE ~(job.generation >= MaxAttempts)
  <2> DEFINE next == job.generation + 1
             new == [token |-> next, stage |-> "claimed", shows |-> {}]
  <2>1. /\ job' = [job EXCEPT !.status = "running", !.generation = next, !.token = next]
        /\ attempts' = attempts \cup {new}
    BY <1>4 DEF ClaimExport
  <2>2. next \in 1 .. MaxAttempts /\ next \in 0 .. MaxAttempts
    <3>1. job.generation \in 0 .. MaxAttempts
      BY <1>2 DEF Jobs
    <3> QED BY <1>4, <3>1, Bounds
  <2>3. new \in Attempts /\ new.stage = "claimed"
    BY <2>2 DEF Attempts
  <2> HIDE DEF next, new
  <2>4. job' \in Jobs /\ job'.status = "running" /\ job'.fresh = job.fresh
    BY <1>2, <2>1, <2>2 DEF Jobs
  <2>5. ExportFollows'
    BY <1>1, <2>1, <2>3, <2>4 DEF TeamInv, ExportFollows, people, Members
  <2> QED
    BY <1>1, <1>2, <2>1, <2>3, <2>4, <2>5, ExportStep
<1> QED
  BY <1>3, <1>4

LEMMA AuthorizeKeeps ==
    ASSUME TeamInv, NEW a \in attempts, Authorize(a)
    PROVE  TeamInv'
BY AttemptStep, IncidentsTyped DEF Authorize

LEMMA WriteKeeps ==
    ASSUME TeamInv, NEW a \in attempts, Write(a)
    PROVE  TeamInv'
<1>1. UNCHANGED <<people, invited, links, job, incidents>>
  BY DEF Write
<1>2. CASE ~job.ready
  BY <1>1, <1>2, AttemptStep, IncidentsTyped DEF Write
<1>3. CASE job.ready
  <2> DEFINE b == [a EXCEPT !.stage = "written", !.shows = Members]
  <2>1. attempts \in SUBSET Attempts /\ job \in Jobs
    BY PartsTyped DEF TeamInv
  <2>2. b \in Attempts /\ b.shows = Members
    BY <2>1 DEF Attempts, Members
  <2>3. attempts' = (attempts \ {a}) \cup {b}
    BY <1>3 DEF Write
  <2> HIDE DEF b
  <2>4. attempts' \in SUBSET Attempts
    BY <2>1, <2>2, <2>3
  <2>5. ExportFollows'
    BY <1>1, <2>2, <2>3 DEF TeamInv, ExportFollows, people, Members
  <2> QED
    BY <1>1, <2>1, <2>4, <2>5, ExportStep, IncidentsTyped
<1> QED
  BY <1>2, <1>3

LEMMA ExecuteFailsKeeps ==
    ASSUME TeamInv, NEW a \in attempts, ExecuteFails(a)
    PROVE  TeamInv'
BY AttemptStep, IncidentsTyped DEF ExecuteFails

LEMMA WorkerDiesKeeps ==
    ASSUME TeamInv, NEW a \in attempts, WorkerDies(a)
    PROVE  TeamInv'
BY AttemptStep, IncidentsTyped DEF WorkerDies

\* A completed job shows what its attempt has written and checked.
LEMMA CompleteKeeps ==
    ASSUME TeamInv, NEW a \in attempts, Complete(a)
    PROVE  TeamInv'
<1>1. a.stage = "checked" /\ UNCHANGED <<people, invited, links, incidents>>
  BY DEF Complete
<1>2. CASE ~(job.status = "running" /\ Mine(a))
  BY <1>1, <1>2, AttemptStep, IncidentsTyped DEF Complete
<1>3. CASE job.status = "running" /\ Mine(a)
  <2>1. /\ job' = [Over("completed") EXCEPT !.by = job.by, !.fresh = job.fresh, !.shows = a.shows]
        /\ attempts' = attempts \ {a}
    BY <1>3 DEF Complete
  <2>2. attempts \in SUBSET Attempts /\ job \in Jobs /\ a \in Attempts
    BY PartsTyped DEF TeamInv
  <2>3. Over("completed") \in Jobs /\ Over("completed").status = "completed"
    BY OverTyped
  <2>4. /\ job' \in Jobs /\ job'.fresh = job.fresh /\ job'.shows = a.shows
        /\ job'.status = "completed"
    BY <2>1, <2>2, <2>3 DEF Jobs, Attempts
  <2>5. ExportFollows'
    BY <1>1, <1>3, <2>1, <2>4 DEF TeamInv, ExportFollows, people, Members
  <2> QED
    BY <1>1, <2>1, <2>2, <2>4, <2>5, ExportStep, IncidentsTyped
<1> QED
  BY <1>2, <1>3

LEMMA FailKeeps ==
    ASSUME TeamInv, NEW a \in attempts, Fail(a)
    PROVE  TeamInv'
<1>1. /\ attempts' = attempts \ {a} /\ UNCHANGED <<people, invited, links, incidents>>
      /\ job' = IF Mine(a) THEN [job EXCEPT !.status = "queued", !.token = 0] ELSE job
  BY DEF Fail
<1>2. attempts \in SUBSET Attempts /\ job \in Jobs
  BY PartsTyped DEF TeamInv
<1>3. job' \in Jobs /\ job'.fresh = job.fresh /\ (job' = job \/ job'.status = "queued")
  <2>1. 0 \in 0 .. MaxAttempts
    BY Bounds
  <2> QED
    BY <1>1, <1>2, <2>1 DEF Jobs
<1>4. ExportFollows'
  BY <1>1, <1>3 DEF TeamInv, ExportFollows, people, Members
<1> QED
  BY <1>1, <1>2, <1>3, <1>4, ExportStep, IncidentsTyped

LEMMA RevokeKeeps ==
    ASSUME TeamInv, NEW a \in attempts, Revoke(a)
    PROVE  TeamInv'
<1>1. /\ attempts' = attempts \ {a} /\ UNCHANGED <<people, invited, links, incidents>>
      /\ job' = Over("revoked") \/ job' = job
  BY DEF Revoke
<1>2. attempts \in SUBSET Attempts /\ job \in Jobs
  BY PartsTyped DEF TeamInv
<1>3. job' \in Jobs /\ (job' = job \/ (job'.status = "revoked" /\ ~job'.fresh))
  BY <1>1, <1>2, OverTyped
<1>4. ExportFollows'
  BY <1>1, <1>3 DEF TeamInv, ExportFollows, people, Members
<1> QED
  BY <1>1, <1>2, <1>3, <1>4, ExportStep, IncidentsTyped

-----------------------------------------------------------------------------

LEMMA StepKeeps == TeamInv /\ [Next]_vars => TeamInv'
<1> SUFFICES ASSUME TeamInv, [Next]_vars PROVE TeamInv'
  OBVIOUS
<1>1. Founder \in Users /\ Recipients \subseteq Users
  OBVIOUS
<1>2. CASE UNCHANGED vars
  <2>1. UNCHANGED <<people, invited, links, job, attempts, incidents>>
    BY <1>2 DEF vars
  <2>2. ExportFollows'
    BY <2>1 DEF TeamInv, ExportFollows, people, Members
  <2> QED
    BY <2>1, <2>2, ExportStep, IncidentsTyped, PartsTyped DEF TeamInv
<1>3. CASE Invite
  BY <1>1, <1>3, CreateInvitationKeeps, InvitationClosed, ResendInvitationKeeps,
     AcceptInvitationKeeps, CloseLinkKeeps, CreateLinkKeeps, AcceptLinkKeeps
     DEF Invite, RevokeInvitation, ExpireInvitation
<1>4. CASE Manage
  BY <1>1, <1>4, CreateTeamKeeps, MoveRevisionKeeps, DissolveTeamKeeps, ChangeMemberRoleKeeps,
     RemoveMemberKeeps, LeaveTeamKeeps, TransferOwnershipKeeps, SuspendKeeps, AccountRestored,
     RequestDeletionKeeps
     DEF Manage, Reinstate, CancelDeletion
<1>5. CASE Export
  BY <1>5, QueueExportKeeps, ClaimExportKeeps, AuthorizeKeeps, WriteKeeps, CompleteKeeps,
     FailKeeps, RevokeKeeps, ExecuteFailsKeeps, WorkerDiesKeeps
     DEF Export, Execute
<1> QED
  BY <1>2, <1>3, <1>4, <1>5 DEF Next

\* The inductive invariant holds in every reachable state.
THEOREM TeamInvariant == Spec => []TeamInv
BY InitEstablishes, StepKeeps, PTL DEF Spec

\* Types hold, and nothing in force is left by somebody without the authority for it,
\* for any number of users and links and any sequence of commands.
THEOREM AuthorityAlwaysHolds == Spec => []AuthorityHolds
<1>1. TeamInv => AuthorityHolds
  BY DEF TeamInv, AuthorityHolds, OwnerStays, LinksHold, InvitationsHold
<1> QED
  BY <1>1, TeamInvariant, PTL

\* Whoever left, was removed or lost the team returns by a new invitation only, unless
\* the last exit was the deletion of the account: the other exits revoke what is
\* pending to the leaver (NothingAges).
THEOREM OldInvitationsLetNobodyBack == Spec => []NoReturnByOldInvitation
<1>1. TeamInv => NoReturnByOldInvitation
  BY DEF TeamInv
<1> QED
  BY <1>1, TeamInvariant, PTL

\* An export that can be downloaded lists the present members, for any number of
\* attempts executed at a time.
THEOREM DownloadsShowTheTeam == Spec => []DownloadShowsTheTeam
<1>1. TeamInv => DownloadShowsTheTeam
  BY DEF TeamInv, ExportFollows, DownloadShowsTheTeam, Downloadable
<1> QED
  BY <1>1, TeamInvariant, PTL

=============================================================================

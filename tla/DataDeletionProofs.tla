------------------------- MODULE DataDeletionProofs -------------------------
(***************************************************************************)
(* The safety of DataDeletion for any requests, devices, teams, objects    *)
(* and workers, and any number of mishaps.                                 *)
(*                                                                         *)
(* A claim that still holds its token remembers what the row says          *)
(* (ClaimsFollow), and only it moves the cursor, so what a phase removed   *)
(* stays removed as long as nobody brings it back; and nobody does because *)
(* the account is not active from the request on (AccountGoesOnce).  The   *)
(* objects are either listed, in storage under a listed key, or belong to  *)
(* an export that was not over (ObjectsAreKnown).  The teams are barred by *)
(* each claim before its first phase and by each joining (BarriersStand).  *)
(***************************************************************************)
EXTENDS DataDeletion, FiniteSetTheorems, WellFoundedInduction, TLAPS

Claims == [r: Requests, token: Tokens, cursor: 0 .. 5, keys: SUBSET (Uploads \cup Exports),
           stage: {"barriers", "phase", "keys", "renewed", "erased"}]

\* The tokens of the claims that were taken over: one mishap each.
StaleTokens == {c.token : c \in {k \in claims : ~Current(k)}}
TokensAreCounted == Cardinality(StaleTokens) <= mishaps
TokensAreApart == \A c, k \in claims : c.token = k.token => c = k

\* What a claim that holds its token remembers is what the database says.
AtKeys(c) == c.stage \in {"keys", "renewed", "erased"}
ClaimsFollow ==
    \A c \in claims :
        /\ req[c.r].status # "none"
        /\ Current(c) =>
              /\ c.cursor = req[c.r].cursor
              /\ AtKeys(c) => /\ c.cursor = 3 /\ req[c.r].scope = "account"
                              /\ c.keys = queue[c.r]
              /\ c.stage \in {"renewed", "erased"} => c.keys # {}

RequestsInOrder ==
    \A r \in Requests :
        /\ req[r].cancellable => req[r].status = "pending" /\ req[r].scope = "account"
        /\ req[r].status \in {"none", "pending", "cancelled"} => req[r].cursor = 0
        /\ Open(r) => req[r].cursor <= 5
        /\ req[r].status = "completed" => req[r].cursor = 6

\* The request that deletes the account.
Deleting(r) == req[r].scope = "account" /\ req[r].status \notin {"none", "cancelled"}

AccountGoesOnce ==
    /\ \A r, q \in Requests : Deleting(r) /\ Deleting(q) => r = q
    /\ \A r \in Requests : Deleting(r) =>
          account = IF req[r].cursor >= 5 THEN "deleted" ELSE "deletion_pending"

\* What the first n phases of the deletion of an account removed.
Removed(n) ==
    /\ n >= 1 => \A d \in Mine : device[d] = "revoked"
    /\ n >= 2 => Mine \cap events = {}
    /\ n >= 3 => Mine \cap buckets = {}
    /\ n >= 4 => uploaded = {} /\ storage \subseteq unsettled
    /\ n >= 5 => Mine = {}
PhasesLast == \A r \in Requests : Deleting(r) => Removed(req[r].cursor)

GoneIsEmpty == \A d \in events \cup buckets : device[d] # "gone"

\* An export that is not over, or over and its object stored.
Unfinished(x) == job[x].status \in {"pending", "running"} \/ \E a \in attempts : a.x = x
Listed(r) ==
    \/ Deleting(r) /\ req[r].cursor >= 4
    \/ \E c \in claims : c.r = r /\ Current(c) /\ AtKeys(c)
ObjectsAreKnown ==
    /\ storage \cap Uploads \subseteq uploaded /\ unsettled \subseteq Exports
    /\ \A x \in Exports : (x \in storage \/ \E a \in attempts : a.x = x) =>
                              job[x].status # "none" \/ x \in unsettled
    /\ \A r \in Requests : Listed(r) => \A x \in Exports : Unfinished(x) => x \in unsettled
    /\ \A c \in claims : Current(c) /\ AtKeys(c) =>
          /\ storage \subseteq queue[c.r] \cup unsettled
          /\ c.stage = "erased" /\ NextKey(c) \in storage => NextKey(c) \in unsettled

Barred(r) == \A t \in memberOf : <<r, t>> \in barriers
BarriersStand ==
    /\ \A r \in Requests : Open(r) /\ req[r].cursor >= 1 => Barred(r)
    /\ \A c \in claims : Current(c) /\ c.stage # "barriers" => Barred(c.r)
    /\ \A r \in Requests : ~Open(r) \/ (Deleting(r) /\ req[r].status = "pending") =>
          \A t \in Teams : <<r, t>> \notin barriers

DeletionInv ==
    /\ TypeOK /\ TokensAreCounted /\ TokensAreApart /\ ClaimsFollow
    /\ RequestsInOrder /\ AccountGoesOnce /\ PhasesLast /\ GoneIsEmpty
    /\ ObjectsAreKnown /\ BarriersStand

USE DataDeletionAssumption

Statuses == {"none", "pending", "running", "failed", "completed", "cancelled"}
Reqs == [status: Statuses, scope: Scopes, device: Devices \cup {NoDevice},
         cursor: 0 .. 6, token: Tokens \cup {NoToken}, cancellable: BOOLEAN]
Jobs == [status: {"none", "pending", "running", "completed"}, lock: Exporters \cup {NoWorker}]
Attempts == [x: Exports, w: Exporters, put: BOOLEAN]

-----------------------------------------------------------------------------
(* Tokens.                                                                 *)

LEMMA TokensTyped ==
    /\ Tokens \in SUBSET Nat /\ NoToken \notin Tokens
    /\ IsFiniteSet(Tokens) /\ Cardinality(Tokens) = MaxMishaps + Cardinality(Requests) + 1
    /\ Cardinality(Requests) \in Nat
<1> DEFINE n == MaxMishaps + Cardinality(Requests) + 1
<1>1. Cardinality(Requests) \in Nat
  BY FS_CardinalityType
<1>2. n \in Nat /\ n \in Int /\ 1 \in Int /\ ~(1 > n) /\ n - 1 + 1 = n
  BY <1>1
<1>3. Tokens = 1 .. n
  BY DEF Tokens
<1> HIDE DEF n
<1>4. IsFiniteSet(1 .. n) /\ Cardinality(1 .. n) = n
  BY <1>2, FS_Interval
<1>5. Tokens \in SUBSET Nat /\ NoToken \notin Tokens
  BY <1>2, <1>3 DEF NoToken
<1> QED
  BY <1>1, <1>3, <1>4, <1>5 DEF n

LEMMA Types ==
    ASSUME DeletionInv
    PROVE  /\ TypeOK
           /\ req \in [Requests -> Reqs] /\ claims \subseteq Claims
           /\ job \in [Exports -> Jobs] /\ attempts \subseteq Attempts
           /\ mishaps \in Nat /\ mishaps <= MaxMishaps
BY DEF DeletionInv, TypeOK, Reqs, Claims, Jobs, Attempts, Statuses

\* Some token is in no row and in no claim: each claim that is not its row's was
\* taken over.
LEMMA FreshTokenIsFresh ==
    ASSUME DeletionInv
    PROVE  /\ FreshToken \in Tokens
           /\ \A c \in claims : c.token # FreshToken
           /\ \A r \in Requests : req[r].token # FreshToken
<1> DEFINE held == {req[r].token : r \in Requests}
           used == {c.token : c \in claims} \cup held
           S == Tokens \ used
<1>1. used \subseteq StaleTokens \cup held
  <2> SUFFICES ASSUME NEW c \in claims PROVE c.token \in StaleTokens \cup held
    OBVIOUS
  <2>1. c.r \in Requests
    BY Types DEF Claims
  <2> QED
    BY <2>1 DEF StaleTokens, Current
<1>2. IsFiniteSet(held) /\ Cardinality(held) <= Cardinality(Requests) /\ Cardinality(held) \in Nat
  <2> DEFINE f == [r \in Requests |-> req[r].token]
  <2>1. f \in Surjection(Requests, held)
    BY DEF Surjection
  <2> HIDE DEF f, held
  <2>2. IsFiniteSet(held) /\ Cardinality(held) <= Cardinality(Requests)
    BY <2>1, FS_Surjection
  <2> QED
    BY <2>2, FS_CardinalityType
<1> HIDE DEF held
<1>3. /\ IsFiniteSet(StaleTokens) /\ Cardinality(StaleTokens) \in Nat
      /\ Cardinality(StaleTokens) <= MaxMishaps
  <2>1. StaleTokens \subseteq Tokens
    BY Types DEF StaleTokens, Claims
  <2>2. IsFiniteSet(StaleTokens)
    BY <2>1, TokensTyped, FS_Subset
  <2> QED
    BY <2>2, Types, FS_CardinalityType DEF DeletionInv, TokensAreCounted
<1>4. S # {}
  <2> SUFFICES ASSUME S = {} PROVE FALSE
    OBVIOUS
  <2>1. Tokens \subseteq StaleTokens \cup held
    BY <1>1
  <2>2. /\ IsFiniteSet(StaleTokens \cup held)
        /\ Cardinality(StaleTokens \cup held)
             = Cardinality(StaleTokens) + Cardinality(held) - Cardinality(StaleTokens \cap held)
    BY <1>2, <1>3, FS_Union
  <2>3. Cardinality(StaleTokens \cap held) \in Nat
    BY <1>2, FS_Subset, FS_CardinalityType
  <2>4. Cardinality(Tokens) <= Cardinality(StaleTokens \cup held)
    BY <2>1, <2>2, FS_Subset
  <2> QED
    BY <1>2, <1>3, <2>2, <2>3, <2>4, TokensTyped
<1>5. S \in SUBSET Nat
  BY TokensTyped
<1>6. PICK n \in S : \A m \in S : <<m, n>> \notin OpToRel(<, Nat)
  <2> HIDE DEF S
  <2> QED
    BY <1>4, <1>5, NatLessThanWellFounded, WFMin
<1>7. \A m \in S : n <= m
  <2> HIDE DEF S
  <2>1. \A m \in S : m \in Nat /\ n \in Nat /\ ~(m < n)
    BY <1>5, <1>6 DEF OpToRel
  <2> QED
    BY <2>1
<1>8. Min(S) \in S
  <2> HIDE DEF S
  <2> QED
    BY <1>7 DEF Min
<1>9. FreshToken = Min(S)
  BY DEF FreshToken, held
<1> QED
  BY <1>8, <1>9 DEF held

\* The tokens that were taken over stay counted; one more needs a mishap.
LEMMA StaleKept ==
    ASSUME DeletionInv, mishaps' \in Nat,
           \/ StaleTokens' \subseteq StaleTokens /\ mishaps' >= mishaps
           \/ \E t : StaleTokens' \subseteq StaleTokens \cup {t} /\ mishaps' = mishaps + 1
    PROVE  TokensAreCounted'
<1>1. /\ IsFiniteSet(StaleTokens) /\ Cardinality(StaleTokens) \in Nat
      /\ Cardinality(StaleTokens) <= mishaps /\ mishaps \in Nat
  <2>1. StaleTokens \subseteq Tokens
    BY Types DEF StaleTokens, Claims
  <2>2. IsFiniteSet(StaleTokens)
    BY <2>1, TokensTyped, FS_Subset
  <2> QED
    BY <2>2, Types, FS_CardinalityType DEF DeletionInv, TokensAreCounted
<1>2. CASE StaleTokens' \subseteq StaleTokens /\ mishaps' >= mishaps
  <2>1. Cardinality(StaleTokens') <= Cardinality(StaleTokens) /\ IsFiniteSet(StaleTokens')
    BY <1>1, <1>2, FS_Subset
  <2>2. Cardinality(StaleTokens') \in Nat
    BY <2>1, FS_CardinalityType
  <2> QED
    BY <1>1, <1>2, <2>1, <2>2 DEF TokensAreCounted
<1>3. ASSUME NEW t, StaleTokens' \subseteq StaleTokens \cup {t}, mishaps' = mishaps + 1
      PROVE  TokensAreCounted'
  <2>1. /\ IsFiniteSet(StaleTokens \cup {t})
        /\ Cardinality(StaleTokens \cup {t}) \in {Cardinality(StaleTokens), Cardinality(StaleTokens) + 1}
    BY <1>1, FS_AddElement
  <2>2. Cardinality(StaleTokens') <= Cardinality(StaleTokens \cup {t}) /\ IsFiniteSet(StaleTokens')
    BY <1>3, <2>1, FS_Subset
  <2>3. Cardinality(StaleTokens') \in Nat
    BY <2>2, FS_CardinalityType
  <2> QED
    BY <1>1, <1>3, <2>1, <2>2, <2>3 DEF TokensAreCounted
<1> QED
  BY <1>2, <1>3

-----------------------------------------------------------------------------

LEMMA InitEstablishes == Init => DeletionInv
<1> SUFFICES ASSUME Init PROVE DeletionInv
  OBVIOUS
<1>1. PICK s \in Scopes :
        req = [r \in Requests |-> [status |-> "none", scope |-> s, device |-> NoDevice, cursor |-> 0,
                                    token |-> NoToken, cancellable |-> FALSE]]
  BY DEF Init
<1>2. \A r \in Requests : /\ req[r] \in Reqs /\ req[r].status = "none" /\ req[r].cursor = 0
                           /\ req[r].cancellable = FALSE
  BY <1>1 DEF Reqs, Statuses
<1>3. req \in [Requests -> Reqs]
  BY <1>1, <1>2
<1>4. TypeOK
  <2>1. job \in [Exports -> Jobs]
    BY DEF Init, Jobs
  <2> QED
    BY <1>3, <2>1 DEF Init, TypeOK, Reqs, Jobs, Statuses
<1>5. TokensAreCounted
  <2>1. StaleTokens = {}
    BY DEF Init, StaleTokens
  <2> QED
    BY <2>1, FS_EmptySet DEF Init, TokensAreCounted
<1>6. TokensAreApart /\ ClaimsFollow /\ GoneIsEmpty
  BY DEF Init, TokensAreApart, ClaimsFollow, GoneIsEmpty
<1>7. RequestsInOrder
  BY <1>2 DEF RequestsInOrder, Open
<1>8. AccountGoesOnce /\ PhasesLast
  BY <1>2 DEF AccountGoesOnce, PhasesLast, Deleting
<1>9. ObjectsAreKnown
  BY <1>2 DEF Init, ObjectsAreKnown, Listed, Deleting
<1>10. BarriersStand
  BY <1>2 DEF Init, BarriersStand, Open
<1> QED
  BY <1>4, <1>5, <1>6, <1>7, <1>8, <1>9, <1>10 DEF DeletionInv

-----------------------------------------------------------------------------
(* What the steps share.                                                   *)

\* Claims that are dropped or stay as they are.
LEMMA ClaimsDropped ==
    ASSUME DeletionInv, claims' \subseteq claims, mishaps' \in Nat, mishaps' >= mishaps,
           \A k \in claims' : Current(k) => Current(k)'
    PROVE  TokensAreCounted' /\ TokensAreApart'
<1>1. StaleTokens' \subseteq StaleTokens
  BY DEF StaleTokens
<1>2. TokensAreCounted'
  BY <1>1, StaleKept
<1>3. TokensAreApart'
  BY DEF DeletionInv, TokensAreApart
<1> QED
  BY <1>2, <1>3

\* A worker goes on with its claim.
LEMMA ClaimMoves ==
    ASSUME DeletionInv, NEW c \in claims, NEW k \in Claims, k.r = c.r, k.token = c.token,
           claims' = (claims \ {c}) \cup {k}, UNCHANGED mishaps,
           \A q \in Requests : req'[q].status = req[q].status /\ req'[q].token = req[q].token
    PROVE  /\ claims' \subseteq Claims
           /\ \A x \in Claims : Current(x)' <=> Current(x)
           /\ \A q \in Requests : Open(q)' <=> Open(q)
           /\ TokensAreCounted' /\ TokensAreApart'
<1>1. claims' \subseteq Claims
  BY Types
<1>2. \A x \in Claims : x.r \in Requests
  BY DEF Claims
<1>3. \A x \in Claims : Current(x)' <=> Current(x)
  BY <1>2 DEF Current
<1>4. StaleTokens' \subseteq StaleTokens
  <2> SUFFICES ASSUME NEW x \in claims', ~Current(x)' PROVE x.token \in StaleTokens
    BY DEF StaleTokens
  <2>1. CASE x = k
    <3>1. ~Current(x)
      BY <1>3, <2>1
    <3>2. ~Current(c)
      BY <2>1, <3>1 DEF Current
    <3> QED
      BY <2>1, <3>2 DEF StaleTokens
  <2>2. CASE x \in claims
    BY <1>1, <1>3, <2>2 DEF StaleTokens
  <2> QED
    BY <2>1, <2>2
<1>5. TokensAreCounted'
  BY <1>4, Types, StaleKept
<1>6. TokensAreApart'
  BY DEF DeletionInv, TokensAreApart
<1>7. \A q \in Requests : Open(q)' <=> Open(q)
  BY DEF Open
<1> QED
  BY <1>1, <1>3, <1>5, <1>6, <1>7

LEMMA ReqWritten ==
    ASSUME DeletionInv, NEW r \in Requests, NEW row \in Reqs, req' = [req EXCEPT ![r] = row]
    PROVE  /\ req' \in [Requests -> Reqs] /\ req'[r] = row
           /\ \A q \in Requests : q # r => req'[q] = req[q]
BY Types

\* While the account is active, no request is deleting it.
LEMMA ActiveIsNotDeleted ==
    ASSUME DeletionInv, account = "active"
    PROVE  \A r \in Requests : ~Deleting(r)
BY DEF DeletionInv, AccountGoesOnce

\* What was removed stays removed where things only go away.
LEMMA RemovedStays ==
    ASSUME NEW n \in 0 .. 6, Removed(n),
           Mine' \subseteq Mine, \A d \in Mine' : device'[d] \in {device[d], "revoked"},
           events' \cap Mine' \subseteq events, 
           n >= 3 => buckets' \cap Mine' \subseteq buckets,
           uploaded' \subseteq uploaded, storage' \subseteq storage \cup unsettled, unsettled \subseteq unsettled'
    PROVE  Removed(n)'
BY DEF Removed

\* Requests that neither begin, end nor go on leave the account's deletion as it is.
LEMMA PhasesKept ==
    ASSUME DeletionInv,
           \A r \in Requests : Deleting(r)' => Deleting(r) /\ req'[r].cursor = req[r].cursor,
           Mine' \subseteq Mine, \A d \in Mine' : device'[d] \in {device[d], "revoked"},
           (\E r \in Requests : Deleting(r)) => events' \cap Mine' \subseteq events,
           \A r \in Requests : Deleting(r) /\ req[r].cursor >= 3 => buckets' \cap Mine' \subseteq buckets,
           uploaded' \subseteq uploaded, storage' \subseteq storage \cup unsettled, unsettled \subseteq unsettled'
    PROVE  PhasesLast'
<1> SUFFICES ASSUME NEW r \in Requests, Deleting(r)' PROVE Removed(req[r].cursor)'
  BY DEF PhasesLast
<1>1. req[r].cursor \in 0 .. 6
  BY Types DEF Reqs
<1>2. PICK n \in 0 .. 6 : n = req[r].cursor /\ n = req'[r].cursor
  BY <1>1
<1>3. Removed(n)
  BY <1>2 DEF DeletionInv, PhasesLast
<1>4. Removed(n)'
  BY <1>2, <1>3, RemovedStays
<1> QED
  BY <1>2, <1>4 DEF Removed

\* Steps that leave the objects alone and begin no listing.
LEMMA ObjectsKept ==
    ASSUME DeletionInv, UNCHANGED <<queue, uploaded, job, attempts, storage, unsettled>>,
           \A k \in claims' : Current(k)' /\ AtKeys(k) => k \in claims /\ Current(k),
           \A r \in Requests : Deleting(r)' /\ req'[r].cursor >= 4
                                => Deleting(r) /\ req[r].cursor >= 4
    PROVE  ObjectsAreKnown'
<1>1. \A r \in Requests : Listed(r)' => Listed(r)
  BY DEF Listed, AtKeys
<1>2. \A x : Unfinished(x)' <=> Unfinished(x)
  BY DEF Unfinished
<1>3. \A r \in Requests : Listed(r)' => \A x \in Exports : Unfinished(x)' => x \in unsettled'
  BY <1>1, <1>2 DEF DeletionInv, ObjectsAreKnown
<1>4. \A c \in claims' : Current(c)' /\ AtKeys(c)' =>
          /\ storage' \subseteq queue'[c.r] \cup unsettled'
          /\ c.stage = "erased" /\ NextKey(c)' \in storage' => NextKey(c)' \in unsettled'
  BY DEF DeletionInv, ObjectsAreKnown, AtKeys, NextKey
<1> QED
  BY <1>3, <1>4 DEF DeletionInv, ObjectsAreKnown

\* Steps that bar no team and lift no bar.
LEMMA BarriersKept ==
    ASSUME DeletionInv, UNCHANGED barriers, memberOf' \subseteq memberOf,
           \A r \in Requests : Open(r)' /\ req'[r].cursor >= 1
               => \/ Open(r) /\ req[r].cursor >= 1
                  \/ \E c \in claims : c.r = r /\ Current(c) /\ c.stage # "barriers",
           \A k \in claims' : Current(k)' /\ k.stage # "barriers"
               => \E c \in claims : c.r = k.r /\ Current(c) /\ c.stage # "barriers",
           \A r \in Requests : ~Open(r)' \/ (Deleting(r)' /\ req'[r].status = "pending")
               => ~Open(r) \/ (Deleting(r) /\ req[r].status = "pending")
    PROVE  BarriersStand'
<1>1. \A r \in Requests : Barred(r) => Barred(r)'
  BY DEF Barred
<1>2. \A r \in Requests : Open(r)' /\ req'[r].cursor >= 1 => Barred(r)'
  BY <1>1 DEF DeletionInv, BarriersStand
<1>3. \A k \in claims' : Current(k)' /\ k.stage # "barriers" => Barred(k.r)'
  <2> SUFFICES ASSUME NEW k \in claims', Current(k)', k.stage # "barriers" PROVE Barred(k.r)'
    OBVIOUS
  <2>1. PICK c \in claims : c.r = k.r /\ Current(c) /\ c.stage # "barriers"
    OBVIOUS
  <2>2. Barred(c.r)
    BY <2>1 DEF DeletionInv, BarriersStand
  <2> QED
    BY <2>1, <2>2 DEF Barred
<1>4. \A r \in Requests : ~Open(r)' \/ (Deleting(r)' /\ req'[r].status = "pending")
          => \A t \in Teams : <<r, t>> \notin barriers'
  BY DEF DeletionInv, BarriersStand
<1> QED
  BY <1>2, <1>3, <1>4 DEF BarriersStand

-----------------------------------------------------------------------------
(* The user.                                                               *)

LEMMA RequestKeeps ==
    ASSUME DeletionInv, NEW r \in Requests, NEW s \in Scopes, NEW d \in Devices \cup {NoDevice},
           Request(r, s, d)
    PROVE  DeletionInv'
<1> DEFINE row == [req[r] EXCEPT !.status = "pending", !.scope = s, !.device = d,
                                 !.cancellable = (s = "account")]
<1>1. /\ req[r].status = "none" /\ account # "deleted"
      /\ s = "account" => account = "active"
      /\ req' = [req EXCEPT ![r] = row]
      /\ account' = IF s = "account" THEN "deletion_pending" ELSE account
      /\ memberOf' \subseteq memberOf
      /\ UNCHANGED <<device, events, due, buckets, skills, claims, queue, uploaded, job, attempts,
                     storage, unsettled, barriers, mishaps>>
  BY DEF Request, usage, objects
<1>2. /\ row \in Reqs /\ row.status = "pending" /\ row.scope = s /\ row.token = req[r].token
      /\ row.cursor = req[r].cursor /\ (row.cancellable => s = "account")
  <2>1. req[r] \in Reqs
    BY Types
  <2> QED
    BY <2>1 DEF Reqs, Statuses
<1> HIDE DEF row
<1>3. /\ req' \in [Requests -> Reqs] /\ req'[r] = row
      /\ \A q \in Requests : q # r => req'[q] = req[q]
  BY <1>1, <1>2, ReqWritten
<1>4. req[r].cursor = 0 /\ ~Open(r) /\ ~Deleting(r)
  BY <1>1 DEF DeletionInv, RequestsInOrder, Open, Deleting
<1>5. \A k \in claims : k.r # r /\ k.r \in Requests /\ (Current(k)' <=> Current(k))
  <2>1. \A k \in claims : k.r # r /\ k.r \in Requests
    BY <1>1, Types DEF DeletionInv, ClaimsFollow, Claims
  <2> QED
    BY <1>3, <2>1 DEF Current
<1>6. Mine' = Mine
  BY <1>1 DEF Mine
<1>7. TypeOK'
  BY <1>1, <1>3, Types DEF TypeOK, Reqs, Statuses
<1>8. TokensAreCounted' /\ TokensAreApart'
  BY <1>1, <1>5, Types, ClaimsDropped
<1>9. ClaimsFollow'
  BY <1>1, <1>3, <1>5 DEF DeletionInv, ClaimsFollow, AtKeys
<1>10. RequestsInOrder'
  BY <1>2, <1>3, <1>4 DEF DeletionInv, RequestsInOrder, Open
<1>11. \A q \in Requests : q # r => (Open(q)' <=> Open(q)) /\ (Deleting(q)' <=> Deleting(q))
  BY <1>3 DEF Open, Deleting
<1>12. Deleting(r)' => s = "account"
  BY <1>2, <1>3 DEF Deleting
<1>13. AccountGoesOnce'
  <2>1. CASE s = "account"
    <3>1. \A q \in Requests : ~Deleting(q)
      BY <1>1, <2>1, ActiveIsNotDeleted
    <3>2. \A q \in Requests : Deleting(q)' => q = r
      BY <1>11, <3>1
    <3> QED
      BY <1>1, <1>2, <1>3, <1>4, <2>1, <3>2 DEF AccountGoesOnce
  <2>2. CASE s # "account"
    <3>1. \A q \in Requests : Deleting(q)' => Deleting(q) /\ q # r
      BY <1>11, <1>12, <2>2
    <3> QED
      BY <1>1, <1>3, <2>2, <3>1 DEF DeletionInv, AccountGoesOnce
  <2> QED
    BY <2>1, <2>2
<1>14. PhasesLast'
  <2> SUFFICES ASSUME NEW q \in Requests, Deleting(q)' PROVE Removed(req[q].cursor)'
    BY DEF PhasesLast
  <2>1. CASE q = r
    BY <1>2, <1>3, <1>4, <2>1 DEF Removed
  <2>2. CASE q # r
    BY <1>1, <1>3, <1>6, <1>11, <2>2 DEF DeletionInv, PhasesLast, Removed
  <2> QED
    BY <2>1, <2>2
<1>15. GoneIsEmpty'
  BY <1>1 DEF DeletionInv, GoneIsEmpty
<1>16. ObjectsAreKnown'
  <2>1. \A q \in Requests : Deleting(q)' /\ req'[q].cursor >= 4 => Deleting(q) /\ req[q].cursor >= 4
    BY <1>2, <1>3, <1>4, <1>11
  <2> QED
    BY <1>1, <1>5, <2>1, ObjectsKept
<1>17. BarriersStand'
  <2>1. \A q \in Requests : Open(q)' /\ req'[q].cursor >= 1 => Open(q) /\ req[q].cursor >= 1
    BY <1>2, <1>3, <1>4, <1>11
  <2>2. \A q \in Requests : ~Open(q)' \/ (Deleting(q)' /\ req'[q].status = "pending")
            => ~Open(q) \/ (Deleting(q) /\ req[q].status = "pending")
    BY <1>3, <1>4, <1>11
  <2> QED
    BY <1>1, <1>5, <2>1, <2>2, BarriersKept
<1> QED
  BY <1>7, <1>8, <1>9, <1>10, <1>13, <1>14, <1>15, <1>16, <1>17 DEF DeletionInv

\* A pending request is cancelled or can no longer be.
LEMMA PendingChanges ==
    ASSUME DeletionInv, NEW r \in Requests, NEW row \in Reqs, req[r].status = "pending",
           req' = [req EXCEPT ![r] = row], row.scope = req[r].scope, row.cursor = req[r].cursor,
           ~row.cancellable,
           \/ row.status = "pending" /\ row.token = req[r].token /\ account' = account
           \/ row.status = "cancelled" /\ Deleting(r) /\ account' = "active",
           UNCHANGED <<device, events, due, buckets, skills, claims, queue, uploaded, job, attempts,
                       storage, unsettled, memberOf, barriers, mishaps>>
    PROVE  DeletionInv'
<1>1. /\ req' \in [Requests -> Reqs] /\ req'[r] = row
      /\ \A q \in Requests : q # r => req'[q] = req[q]
  BY ReqWritten
<1>2. req[r].cursor = 0 /\ Open(r)
  BY DEF DeletionInv, RequestsInOrder, Open
<1>3. \A k \in claims : k.r \in Requests /\ (Current(k)' <=> Current(k))
  <2>1. \A k \in claims : k.r \in Requests
    BY Types DEF Claims
  <2> QED
    BY <1>1, <2>1 DEF Current
<1>4. \A q \in Requests : /\ (q # r => (Open(q)' <=> Open(q))) /\ (Open(q)' => Open(q))
                           /\ (q # r => (Deleting(q)' <=> Deleting(q))) /\ (Deleting(q)' => Deleting(q))
                           /\ req'[q].cursor = req[q].cursor /\ req'[q].scope = req[q].scope
  BY <1>1, <1>2 DEF Open, Deleting
<1>5. Mine' = Mine
  BY DEF Mine
<1>6. TypeOK'
  BY <1>1, Types DEF TypeOK, Reqs, Statuses
<1>7. TokensAreCounted' /\ TokensAreApart'
  BY <1>3, Types, ClaimsDropped
<1>8. ClaimsFollow'
  <2>1. \A k \in claims : req'[k.r].status # "none"
    BY <1>1, <1>3 DEF DeletionInv, ClaimsFollow
  <2> QED
    BY <1>3, <1>4, <2>1 DEF DeletionInv, ClaimsFollow, AtKeys
<1>9. RequestsInOrder'
  BY <1>1, <1>2 DEF DeletionInv, RequestsInOrder, Open
<1>10. AccountGoesOnce'
  <2>1. CASE row.status = "pending"
    BY <1>1, <1>4, <2>1 DEF DeletionInv, AccountGoesOnce
  <2>2. CASE row.status = "cancelled"
    <3>1. \A q \in Requests : ~Deleting(q)'
      BY <1>1, <1>4, <2>2 DEF DeletionInv, AccountGoesOnce, Deleting
    <3> QED
      BY <3>1 DEF AccountGoesOnce
  <2> QED
    BY <2>1, <2>2
<1>11. PhasesLast'
  BY <1>4, <1>5 DEF DeletionInv, PhasesLast, Removed
<1>12. GoneIsEmpty'
  BY DEF DeletionInv, GoneIsEmpty
<1>13. ObjectsAreKnown'
  BY <1>3, <1>4, ObjectsKept
<1>14. BarriersStand'
  <2>1. \A q \in Requests : ~Open(q)' \/ (Deleting(q)' /\ req'[q].status = "pending")
            => ~Open(q) \/ (Deleting(q) /\ req[q].status = "pending")
    <3> SUFFICES ASSUME NEW q \in Requests,
                        ~Open(q)' \/ (Deleting(q)' /\ req'[q].status = "pending")
                 PROVE  ~Open(q) \/ (Deleting(q) /\ req[q].status = "pending")
      OBVIOUS
    <3>1. CASE q = r
      BY <1>1, <1>2, <1>4, <3>1 DEF Open
    <3>2. CASE q # r
      BY <1>1, <1>4, <3>2
    <3> QED
      BY <3>1, <3>2
  <2> QED
    BY <1>3, <1>4, <2>1, BarriersKept
<1> QED
  BY <1>6, <1>7, <1>8, <1>9, <1>10, <1>11, <1>12, <1>13, <1>14 DEF DeletionInv

LEMMA CancelKeeps ==
    ASSUME DeletionInv, NEW r \in Requests, Cancel(r)
    PROVE  DeletionInv'
<1> DEFINE row == [req[r] EXCEPT !.status = "cancelled", !.cancellable = FALSE, !.token = NoToken]
<1>1. req[r] \in Reqs
  BY Types
<1>2. /\ row \in Reqs /\ row.status = "cancelled" /\ row.scope = req[r].scope
      /\ row.cursor = req[r].cursor /\ ~row.cancellable
  BY <1>1 DEF Reqs, Statuses
<1>3. req' = [req EXCEPT ![r] = row]
  BY <1>1, Types DEF Cancel
<1>4. req[r].status = "pending" /\ Deleting(r)
  BY DEF Cancel, Cancellable, Deleting, DeletionInv, RequestsInOrder
<1>5. /\ account' = "active"
      /\ UNCHANGED <<device, events, due, buckets, skills, claims, queue, uploaded, job, attempts,
                     storage, unsettled, memberOf, barriers, mishaps>>
  BY DEF Cancel, usage, objects, teams
<1> HIDE DEF row
<1> QED
  BY <1>2, <1>3, <1>4, <1>5, PendingChanges

LEMMA WindowClosesKeeps ==
    ASSUME DeletionInv, NEW r \in Requests, WindowCloses(r)
    PROVE  DeletionInv'
<1> DEFINE row == [req[r] EXCEPT !.cancellable = FALSE]
<1>1. req[r] \in Reqs
  BY Types
<1>2. /\ row \in Reqs /\ row.status = req[r].status /\ row.scope = req[r].scope
      /\ row.cursor = req[r].cursor /\ row.token = req[r].token /\ ~row.cancellable
  BY <1>1 DEF Reqs, Statuses
<1>3. req' = [req EXCEPT ![r] = row]
  BY <1>1, Types DEF WindowCloses
<1>4. req[r].status = "pending"
  BY DEF WindowCloses, DeletionInv, RequestsInOrder
<1>5. UNCHANGED <<account, device, events, due, buckets, skills, claims, queue, uploaded, job,
                  attempts, storage, unsettled, memberOf, barriers, mishaps>>
  BY DEF WindowCloses, usage, objects, teams
<1> HIDE DEF row
<1> QED
  BY <1>2, <1>3, <1>4, <1>5, PendingChanges

-----------------------------------------------------------------------------
(* The deletion workers.                                                   *)

LEMMA ClaimRequestKeeps ==
    ASSUME DeletionInv, NEW r \in Requests, ClaimRequest(r)
    PROVE  DeletionInv'
<1> DEFINE t == FreshToken
           row == [req[r] EXCEPT !.status = "running", !.token = t]
           claim == Claim(r, t, req[r].cursor)
<1>1. t \in Tokens /\ (\A c \in claims : c.token # t) /\ \A q \in Requests : req[q].token # t
  BY FreshTokenIsFresh
<1>2. /\ Claimable(r) /\ claims' = claims \cup {claim}
      /\ UNCHANGED <<account, device, events, due, buckets, skills, queue, uploaded, job, attempts,
                     storage, unsettled, memberOf, barriers>>
  BY DEF ClaimRequest, usage, objects, teams
<1>3. req[r] \in Reqs
  BY Types
<1> HIDE DEF t
<1>4. /\ row \in Reqs /\ row.status = "running" /\ row.token = t /\ row.scope = req[r].scope
      /\ row.cursor = req[r].cursor /\ row.cancellable = req[r].cancellable
  BY <1>1, <1>3 DEF Reqs, Statuses
<1>5. req' = [req EXCEPT ![r] = row]
  BY <1>3, Types DEF ClaimRequest, t
<1> HIDE DEF row
<1>6. /\ req' \in [Requests -> Reqs] /\ req'[r] = row
      /\ \A q \in Requests : q # r => req'[q] = req[q]
  BY <1>4, <1>5, ReqWritten
<1>7. Open(r) /\ ~req[r].cancellable /\ req[r].status # "none" /\ req[r].cursor \in 0 .. 5
  <2>1. Open(r) /\ ~req[r].cancellable
    BY <1>2 DEF Claimable, Open, DeletionInv, RequestsInOrder
  <2> QED
    BY <1>3, <2>1 DEF Open, Reqs, DeletionInv, RequestsInOrder
<1>8. /\ claim \in Claims /\ claim.r = r /\ claim.token = t /\ claim.cursor = req[r].cursor
      /\ claim.stage = "barriers"
  BY <1>1, <1>7 DEF Claim, Claims
<1> HIDE DEF claim
<1>9. PICK k \in Claims : /\ k.r = r /\ k.token = t /\ k.cursor = req[r].cursor
                           /\ k.stage = "barriers" /\ claims' = claims \cup {k}
  BY <1>2, <1>8
<1>10. \A c \in claims : /\ c.r \in Requests
                         /\ (c.r # r => (Current(c)' <=> Current(c)))
                         /\ (c.r = r => ~Current(c)')
  <2>1. \A c \in claims : c.r \in Requests
    BY Types DEF Claims
  <2> QED
    BY <1>1, <1>4, <1>6, <2>1 DEF Current
<1>11. Current(k)'
  BY <1>4, <1>6, <1>9 DEF Current
<1>12. \A c \in claims' : Current(c)' => c = k \/ (c \in claims /\ c.r # r /\ Current(c))
  BY <1>10, <1>9
<1>13. mishaps' \in Nat /\ mishaps' <= MaxMishaps /\ mishaps' >= mishaps
  BY <1>2, Types DEF Claimable, Mishap
<1>14. TypeOK'
  <2>1. claims' \subseteq Claims
    BY <1>2, <1>9, Types
  <2> QED
    BY <1>2, <1>6, <1>13, <2>1, Types DEF TypeOK, Reqs, Statuses, Claims
<1>15. TokensAreCounted'
  <2>1. StaleTokens' \subseteq StaleTokens \cup {req[r].token}
    <3> SUFFICES ASSUME NEW c \in claims', ~Current(c)'
                 PROVE  c.token \in StaleTokens \cup {req[r].token}
      BY DEF StaleTokens
    <3>1. c \in claims
      BY <1>11, <1>9
    <3>2. CASE Current(c)
      BY <1>10, <3>1, <3>2 DEF Current
    <3>3. CASE ~Current(c)
      BY <3>1, <3>3 DEF StaleTokens
    <3> QED
      BY <3>2, <3>3
  <2>2. CASE \E c \in claims : c.r = r /\ Current(c)
    <3>1. mishaps' = mishaps + 1
      BY <1>2, <2>2 DEF Claimable, Mishap, Current
    <3> QED
      BY <1>13, <2>1, <3>1, StaleKept
  <2>3. CASE ~\E c \in claims : c.r = r /\ Current(c)
    <3>1. StaleTokens' \subseteq StaleTokens
      <4> SUFFICES ASSUME NEW c \in claims', ~Current(c)' PROVE c.token \in StaleTokens
        BY DEF StaleTokens
      <4>1. c \in claims /\ ~Current(c)
        BY <1>10, <1>11, <1>9, <2>3
      <4> QED
        BY <4>1 DEF StaleTokens
    <3> QED
      BY <1>13, <3>1, StaleKept
  <2> QED
    BY <2>2, <2>3
<1>16. TokensAreApart'
  BY <1>1, <1>9 DEF DeletionInv, TokensAreApart
<1>17. ClaimsFollow'
  <2> SUFFICES ASSUME NEW c \in claims'
               PROVE  /\ req'[c.r].status # "none"
                      /\ Current(c)' =>
                            /\ c.cursor = req'[c.r].cursor
                            /\ AtKeys(c) => /\ c.cursor = 3 /\ req'[c.r].scope = "account"
                                            /\ c.keys = queue'[c.r]
                            /\ c.stage \in {"renewed", "erased"} => c.keys # {}
    BY DEF ClaimsFollow, AtKeys
  <2>1. CASE c = k
    BY <1>4, <1>6, <1>9, <2>1 DEF AtKeys
  <2>2. CASE c \in claims /\ c.r = r
    BY <1>4, <1>6, <1>10, <2>2
  <2>3. CASE c \in claims /\ c.r # r
    <3>1. req'[c.r] = req[c.r] /\ (Current(c)' <=> Current(c)) /\ queue' = queue
      BY <1>2, <1>6, <1>10, <2>3
    <3> QED
      BY <2>3, <3>1 DEF DeletionInv, ClaimsFollow
  <2> QED
    BY <1>9, <2>1, <2>2, <2>3
<1>18. RequestsInOrder'
  BY <1>4, <1>6, <1>7 DEF DeletionInv, RequestsInOrder, Open
<1>19. \A q \in Requests : /\ (Open(q)' <=> Open(q)) /\ (Deleting(q)' <=> Deleting(q))
                            /\ req'[q].cursor = req[q].cursor
                            /\ (req'[q].status = "pending" => req[q].status = "pending")
  <2> SUFFICES ASSUME NEW q \in Requests
               PROVE  /\ (Open(q)' <=> Open(q)) /\ (Deleting(q)' <=> Deleting(q))
                      /\ req'[q].cursor = req[q].cursor
                      /\ (req'[q].status = "pending" => req[q].status = "pending")
    OBVIOUS
  <2>1. CASE q = r
    BY <1>4, <1>6, <1>7, <2>1 DEF Open, Deleting
  <2>2. CASE q # r
    BY <1>6, <2>2 DEF Open, Deleting
  <2> QED
    BY <2>1, <2>2
<1>20. AccountGoesOnce'
  BY <1>2, <1>19 DEF DeletionInv, AccountGoesOnce
<1>21. PhasesLast' /\ GoneIsEmpty'
  <2>1. Mine' = Mine
    BY <1>2 DEF Mine
  <2> QED
    BY <1>2, <1>19, <2>1 DEF DeletionInv, PhasesLast, Removed, GoneIsEmpty
<1>22. ObjectsAreKnown'
  BY <1>2, <1>9, <1>12, <1>19, ObjectsKept DEF AtKeys
<1>23. BarriersStand'
  BY <1>2, <1>9, <1>12, <1>19, BarriersKept
<1> QED
  BY <1>14, <1>15, <1>16, <1>17, <1>18, <1>20, <1>21, <1>22, <1>23 DEF DeletionInv

-----------------------------------------------------------------------------
(* The devices, the teams and the exports leave the requests alone.        *)

LEMMA RequestsKept ==
    ASSUME DeletionInv, UNCHANGED <<req, claims, queue>>, mishaps' \in Nat, mishaps' >= mishaps
    PROVE  /\ \A c \in claims : Current(c)' <=> Current(c)
           /\ \A r \in Requests : (Open(r)' <=> Open(r)) /\ (Deleting(r)' <=> Deleting(r))
           /\ TokensAreCounted' /\ TokensAreApart' /\ ClaimsFollow' /\ RequestsInOrder'
<1>1. \A c \in claims : Current(c)' <=> Current(c)
  BY DEF Current
<1>2. \A r \in Requests : (Open(r)' <=> Open(r)) /\ (Deleting(r)' <=> Deleting(r))
  BY DEF Open, Deleting
<1>3. TokensAreCounted' /\ TokensAreApart'
  BY <1>1, ClaimsDropped
<1>4. ClaimsFollow'
  BY <1>1 DEF DeletionInv, ClaimsFollow, AtKeys
<1>5. RequestsInOrder'
  BY DEF DeletionInv, RequestsInOrder, Open
<1> QED
  BY <1>1, <1>2, <1>3, <1>4, <1>5

LEMMA UploadKeeps ==
    ASSUME DeletionInv, NEW d \in Devices, NEW skill \in BOOLEAN, Upload(d, skill)
    PROVE  DeletionInv'
<1>1. /\ account = "active" /\ device[d] = "active"
      /\ events' = events \cup {d} /\ due' = due \cup {d}
      /\ skills' \subseteq skills \cup {d}
      /\ UNCHANGED <<account, device, buckets, req, claims, queue, uploaded, job, attempts,
                     storage, unsettled, memberOf, barriers, mishaps>>
  BY DEF Upload, Accepts, objects, teams
<1>2. \A r \in Requests : ~Deleting(r)
  BY <1>1, ActiveIsNotDeleted
<1>3. /\ \A c \in claims : Current(c)' <=> Current(c)
      /\ \A r \in Requests : (Open(r)' <=> Open(r)) /\ (Deleting(r)' <=> Deleting(r))
      /\ TokensAreCounted' /\ TokensAreApart' /\ ClaimsFollow' /\ RequestsInOrder'
  BY <1>1, Types, RequestsKept
<1>4. TypeOK'
  BY <1>1, Types DEF TypeOK
<1>5. AccountGoesOnce' /\ PhasesLast'
  BY <1>2, <1>3 DEF AccountGoesOnce, PhasesLast
<1>6. GoneIsEmpty'
  BY <1>1 DEF DeletionInv, GoneIsEmpty
<1>7. ObjectsAreKnown'
  BY <1>1, <1>3, ObjectsKept
<1>8. BarriersStand'
  BY <1>1, <1>3, BarriersKept
<1> QED
  BY <1>3, <1>4, <1>5, <1>6, <1>7, <1>8 DEF DeletionInv

LEMMA AggregateKeeps ==
    ASSUME DeletionInv, NEW d \in Devices, Aggregate(d)
    PROVE  DeletionInv'
<1>1. /\ d \in due /\ due' = due \ {d} /\ buckets' = buckets \cup {d}
      /\ UNCHANGED <<account, device, events, skills, req, claims, queue, uploaded, job, attempts,
                     storage, unsettled, memberOf, barriers, mishaps>>
  BY DEF Aggregate, objects, teams
<1>2. d \in events
  BY <1>1, Types DEF TypeOK
<1>3. /\ \A c \in claims : Current(c)' <=> Current(c)
      /\ \A r \in Requests : (Open(r)' <=> Open(r)) /\ (Deleting(r)' <=> Deleting(r))
      /\ TokensAreCounted' /\ TokensAreApart' /\ ClaimsFollow' /\ RequestsInOrder'
  BY <1>1, Types, RequestsKept
<1>4. TypeOK'
  BY <1>1, Types DEF TypeOK
<1>5. AccountGoesOnce'
  BY <1>1, <1>3 DEF DeletionInv, AccountGoesOnce
<1>6. PhasesLast'
  <2>1. Mine' = Mine
    BY <1>1 DEF Mine
  <2>2. \A r \in Requests : Deleting(r) /\ req[r].cursor >= 3 => buckets' \cap Mine' \subseteq buckets
    <3> SUFFICES ASSUME NEW r \in Requests, Deleting(r), req[r].cursor >= 3
                 PROVE  buckets' \cap Mine' \subseteq buckets
      OBVIOUS
    <3>1. req[r].cursor \in 0 .. 6
      BY Types DEF Reqs
    <3>2. Mine \cap events = {}
      BY <3>1 DEF DeletionInv, PhasesLast, Removed
    <3> QED
      BY <1>1, <1>2, <2>1, <3>2
  <2>3. \A e \in Mine' : device'[e] = device[e]
    BY <1>1
  <2>4. \A r \in Requests : Deleting(r)' => Deleting(r) /\ req'[r].cursor = req[r].cursor
    BY <1>1, <1>3
  <2> QED
    BY <1>1, <2>1, <2>2, <2>3, <2>4, PhasesKept
<1>7. GoneIsEmpty'
  BY <1>1, <1>2 DEF DeletionInv, GoneIsEmpty
<1>8. ObjectsAreKnown'
  BY <1>1, <1>3, ObjectsKept
<1>9. BarriersStand'
  BY <1>1, <1>3, BarriersKept
<1> QED
  BY <1>3, <1>4, <1>5, <1>6, <1>7, <1>8, <1>9 DEF DeletionInv

LEMMA RebindKeeps ==
    ASSUME DeletionInv, NEW d \in Devices, Rebind(d)
    PROVE  DeletionInv'
<1>1. /\ device' = [device EXCEPT ![d] = "moved"]
      /\ UNCHANGED <<account, events, due, buckets, skills, req, claims, queue, uploaded, job,
                     attempts, storage, unsettled, memberOf, barriers, mishaps>>
  BY DEF Rebind, usage, objects, teams
<1>2. /\ \A c \in claims : Current(c)' <=> Current(c)
      /\ \A r \in Requests : (Open(r)' <=> Open(r)) /\ (Deleting(r)' <=> Deleting(r))
      /\ TokensAreCounted' /\ TokensAreApart' /\ ClaimsFollow' /\ RequestsInOrder'
  BY <1>1, Types, RequestsKept
<1>3. /\ device' \in [Devices -> {"active", "revoked", "moved", "gone"}]
      /\ \A e \in Devices : device'[e] = IF e = d THEN "moved" ELSE device[e]
  BY <1>1, Types DEF TypeOK
<1>4. TypeOK'
  BY <1>1, <1>3, Types DEF TypeOK
<1>5. AccountGoesOnce'
  BY <1>1, <1>2 DEF DeletionInv, AccountGoesOnce
<1>6. PhasesLast'
  <2>1. Mine' \subseteq Mine /\ \A e \in Mine' : device'[e] = device[e]
    BY <1>3 DEF Mine
  <2>2. \A r \in Requests : Deleting(r)' => Deleting(r) /\ req'[r].cursor = req[r].cursor
    BY <1>1, <1>2
  <2> QED
    BY <1>1, <2>1, <2>2, PhasesKept
<1>7. GoneIsEmpty'
  BY <1>1, <1>3, Types DEF DeletionInv, GoneIsEmpty, TypeOK
<1>8. ObjectsAreKnown'
  BY <1>1, <1>2, ObjectsKept
<1>9. BarriersStand'
  BY <1>1, <1>2, BarriersKept
<1> QED
  BY <1>2, <1>4, <1>5, <1>6, <1>7, <1>8, <1>9 DEF DeletionInv

LEMMA JoinKeeps ==
    ASSUME DeletionInv, NEW t \in Teams, Join(t)
    PROVE  DeletionInv'
<1>1. /\ account = "active" /\ memberOf' = memberOf \cup {t}
      /\ barriers' = barriers \cup {<<r, t>> : r \in {q \in Requests : JoinBars(q)}}
      /\ UNCHANGED <<account, device, events, due, buckets, skills, req, claims, queue, uploaded,
                     job, attempts, storage, unsettled, mishaps>>
  BY DEF Join, usage, objects
<1>2. \A r \in Requests : ~Deleting(r)
  BY <1>1, ActiveIsNotDeleted
<1>3. /\ \A c \in claims : Current(c)' <=> Current(c)
      /\ \A r \in Requests : (Open(r)' <=> Open(r)) /\ (Deleting(r)' <=> Deleting(r))
      /\ TokensAreCounted' /\ TokensAreApart' /\ ClaimsFollow' /\ RequestsInOrder'
  BY <1>1, Types, RequestsKept
<1>4. TypeOK'
  <2>1. barriers' \subseteq Requests \X Teams
    BY <1>1, Types DEF TypeOK
  <2> QED
    BY <1>1, <2>1, Types DEF TypeOK
<1>5. AccountGoesOnce' /\ PhasesLast'
  BY <1>2, <1>3 DEF AccountGoesOnce, PhasesLast
<1>6. GoneIsEmpty'
  BY <1>1 DEF DeletionInv, GoneIsEmpty
<1>7. ObjectsAreKnown'
  BY <1>1, <1>3, ObjectsKept
<1>8. \A r \in Requests : Open(r) /\ Barred(r) => Barred(r)'
  BY <1>1 DEF Barred, JoinBars
<1>9. BarriersStand'
  <2>1. \A r \in Requests : Open(r)' /\ req'[r].cursor >= 1 => Barred(r)'
    BY <1>1, <1>3, <1>8 DEF DeletionInv, BarriersStand
  <2>2. \A c \in claims' : Current(c)' /\ c.stage # "barriers" => Barred(c.r)'
    <3> SUFFICES ASSUME NEW c \in claims, Current(c), c.stage # "barriers" PROVE Barred(c.r)'
      BY <1>1, <1>3
    <3>1. c.r \in Requests /\ Open(c.r)
      BY Types DEF Claims, Current, Open
    <3>2. PICK r \in Requests : r = c.r
      BY <3>1
    <3>3. Barred(r)
      BY <3>2 DEF DeletionInv, BarriersStand
    <3> QED
      BY <1>8, <3>1, <3>2, <3>3
  <2>3. \A r \in Requests : ~Open(r)' \/ (Deleting(r)' /\ req'[r].status = "pending")
            => \A u \in Teams : <<r, u>> \notin barriers'
    <3> SUFFICES ASSUME NEW r \in Requests, ~Open(r), NEW u \in Teams PROVE <<r, u>> \notin barriers'
      BY <1>2, <1>3
    <3>1. <<r, u>> \notin barriers
      BY DEF DeletionInv, BarriersStand
    <3> QED
      BY <1>1, <3>1 DEF JoinBars
  <2> QED
    BY <2>1, <2>2, <2>3 DEF BarriersStand
<1> QED
  BY <1>3, <1>4, <1>5, <1>6, <1>7, <1>9 DEF DeletionInv

\* A request that listed the objects is deleting the account.
LEMMA ListedIsDeleting ==
    ASSUME DeletionInv, NEW r \in Requests, Listed(r)
    PROVE  Deleting(r) /\ account # "active"
<1>1. Deleting(r)
  BY DEF Listed, DeletionInv, ClaimsFollow, Deleting, Current
<1> QED
  BY <1>1, ActiveIsNotDeleted

\* An export is begun only while the account is active; whoever writes its object
\* had claimed it.
LEMMA ExportStep ==
    ASSUME DeletionInv,
           UNCHANGED <<account, device, events, due, buckets, skills, req, claims, queue, uploaded,
                       unsettled, memberOf, barriers>>,
           Mishap \/ UNCHANGED mishaps,
           job' \in [Exports -> Jobs], attempts' \subseteq Attempts,
           storage' \subseteq storage \cup {a.x : a \in attempts},
           \A x \in Exports : (x \in storage' \/ \E a \in attempts' : a.x = x) =>
                                 job'[x].status # "none" \/ x \in unsettled,
           \A x \in Exports : Unfinished(x)' => Unfinished(x) \/ account = "active"
    PROVE  DeletionInv'
<1>1. mishaps' \in Nat /\ mishaps' <= MaxMishaps /\ mishaps' >= mishaps
  BY Types DEF Mishap
<1>2. /\ \A c \in claims : Current(c)' <=> Current(c)
      /\ \A r \in Requests : (Open(r)' <=> Open(r)) /\ (Deleting(r)' <=> Deleting(r))
      /\ TokensAreCounted' /\ TokensAreApart' /\ ClaimsFollow' /\ RequestsInOrder'
  BY <1>1, RequestsKept
<1>3. \A a \in attempts : a.x \in Exports /\ Unfinished(a.x)
  BY Types DEF Attempts, Unfinished
<1>4. TypeOK'
  <2>1. storage' \subseteq Uploads \cup Exports
    BY <1>3, Types DEF TypeOK
  <2> QED
    BY <1>1, <2>1, Types DEF TypeOK, Jobs, Attempts
<1>5. AccountGoesOnce'
  BY <1>2 DEF DeletionInv, AccountGoesOnce
<1>6. \A r \in Requests : Listed(r) => storage' \subseteq storage \cup unsettled
  BY <1>3 DEF DeletionInv, ObjectsAreKnown
<1>7. PhasesLast'
  <2> SUFFICES ASSUME NEW r \in Requests, Deleting(r) PROVE Removed(req[r].cursor)'
    BY <1>2 DEF PhasesLast
  <2>1. Removed(req[r].cursor) /\ Mine' = Mine
    BY DEF DeletionInv, PhasesLast, Mine
  <2>2. req[r].cursor >= 4 => storage' \subseteq storage \cup unsettled
    BY <1>6 DEF Listed
  <2> QED
    BY <2>1, <2>2 DEF Removed
<1>8. GoneIsEmpty'
  BY DEF DeletionInv, GoneIsEmpty
<1>9. \A r \in Requests : Listed(r)' => Listed(r)
  BY <1>2 DEF Listed, AtKeys
<1>10. ObjectsAreKnown'
  <2>1. storage' \cap Uploads \subseteq uploaded'
    BY <1>3 DEF DeletionInv, ObjectsAreKnown
  <2>2. \A r \in Requests : Listed(r)' => \A x \in Exports : Unfinished(x)' => x \in unsettled'
    BY <1>9, ListedIsDeleting DEF DeletionInv, ObjectsAreKnown
  <2>3. ASSUME NEW c \in claims', Current(c)', AtKeys(c)
        PROVE  /\ storage' \subseteq queue'[c.r] \cup unsettled'
               /\ c.stage = "erased" /\ NextKey(c)' \in storage' => NextKey(c)' \in unsettled'
    <3>1. c \in claims /\ Current(c) /\ c.r \in Requests
      BY <1>2, <2>3, Types DEF Claims
    <3>2. Listed(c.r)
      BY <2>3, <3>1 DEF Listed
    <3>3. storage' \subseteq storage \cup unsettled
      BY <1>6, <3>1, <3>2
    <3>4. /\ storage \subseteq queue[c.r] \cup unsettled
          /\ c.stage = "erased" /\ NextKey(c) \in storage => NextKey(c) \in unsettled
      BY <2>3, <3>1 DEF DeletionInv, ObjectsAreKnown
    <3> QED
      BY <3>3, <3>4 DEF NextKey
  <2>4. \A x \in Exports : (x \in storage' \/ \E a \in attempts' : a.x = x) =>
                               job'[x].status # "none" \/ x \in unsettled'
    OBVIOUS
  <2> QED
    BY <2>1, <2>2, <2>3, <2>4 DEF DeletionInv, ObjectsAreKnown, AtKeys
<1>11. BarriersStand'
  BY <1>2, BarriersKept
<1> QED
  BY <1>2, <1>4, <1>5, <1>7, <1>8, <1>10, <1>11 DEF DeletionInv

LEMMA JobWritten ==
    ASSUME DeletionInv, NEW x \in Exports, NEW row \in Jobs, job' = [job EXCEPT ![x] = row]
    PROVE  /\ job' \in [Exports -> Jobs] /\ job'[x] = row
           /\ \A y \in Exports : y # x => job'[y] = job[y]
BY Types

\* What is known of the exports before the step.
LEMMA ExportsKnown ==
    ASSUME DeletionInv
    PROVE  \A x \in Exports : (x \in storage \/ \E a \in attempts : a.x = x) =>
                                  job[x].status # "none" \/ x \in unsettled
BY DEF DeletionInv, ObjectsAreKnown

LEMMA CreateExportKeeps ==
    ASSUME DeletionInv, NEW x \in Exports, CreateExport(x)
    PROVE  DeletionInv'
<1> DEFINE row == [job[x] EXCEPT !.status = "pending"]
<1>1. /\ account = "active" /\ job' = [job EXCEPT ![x] = row]
      /\ UNCHANGED <<account, device, events, due, buckets, skills, req, claims, queue, uploaded,
                     attempts, storage, unsettled, memberOf, barriers, mishaps>>
  BY Types DEF CreateExport, usage, teams
<1>2. row \in Jobs /\ row.status = "pending"
  <2>1. job[x] \in Jobs
    BY Types
  <2> QED
    BY <2>1 DEF Jobs
<1> HIDE DEF row
<1>3. /\ job' \in [Exports -> Jobs] /\ job'[x] = row
      /\ \A y \in Exports : y # x => job'[y] = job[y]
  BY <1>1, <1>2, JobWritten
<1>4. \A y \in Exports : (y \in storage' \/ \E a \in attempts' : a.x = y) =>
                            job'[y].status # "none" \/ y \in unsettled
  BY <1>1, <1>2, <1>3, ExportsKnown
<1> QED
  BY <1>1, <1>3, <1>4, Types, ExportStep

LEMMA ClaimExportKeeps ==
    ASSUME DeletionInv, NEW x \in Exports, NEW w \in Exporters, ClaimExport(x, w)
    PROVE  DeletionInv'
<1> DEFINE row == [status |-> "running", lock |-> w]
           attempt == [x |-> x, w |-> w, put |-> FALSE]
<1>1. /\ job[x].status \in {"pending", "running"} /\ (Mishap \/ UNCHANGED mishaps)
      /\ job' = [job EXCEPT ![x] = row] /\ attempts' = attempts \cup {attempt}
      /\ UNCHANGED <<account, device, events, due, buckets, skills, req, claims, queue, uploaded,
                     storage, unsettled, memberOf, barriers>>
  BY DEF ClaimExport, usage, teams
<1>2. row \in Jobs /\ row.status = "running" /\ attempt \in Attempts /\ attempt.x = x
  BY DEF Jobs, Attempts
<1> HIDE DEF row, attempt
<1>3. /\ job' \in [Exports -> Jobs] /\ job'[x] = row
      /\ \A y \in Exports : y # x => job'[y] = job[y]
  BY <1>1, <1>2, JobWritten
<1>4. attempts' \subseteq Attempts
  BY <1>1, <1>2, Types
<1>5. \A y \in Exports : (y \in storage' \/ \E a \in attempts' : a.x = y) =>
                            job'[y].status # "none" \/ y \in unsettled
  BY <1>1, <1>2, <1>3, ExportsKnown
<1>6. \A y \in Exports : Unfinished(y)' => Unfinished(y)
  BY <1>1, <1>2, <1>3 DEF Unfinished
<1> QED
  BY <1>1, <1>3, <1>4, <1>5, <1>6, ExportStep

LEMMA PutExportKeeps ==
    ASSUME DeletionInv, NEW a \in attempts, PutExport(a)
    PROVE  DeletionInv'
<1> DEFINE b == [a EXCEPT !.put = TRUE]
<1>1. /\ storage' = storage \cup {a.x} /\ attempts' = (attempts \ {a}) \cup {b}
      /\ UNCHANGED <<account, device, events, due, buckets, skills, req, claims, queue, uploaded,
                     job, unsettled, memberOf, barriers, mishaps>>
  BY DEF PutExport, usage, teams
<1>2. b \in Attempts /\ b.x = a.x
  <2>1. a \in Attempts
    BY Types
  <2> QED
    BY <2>1 DEF Attempts
<1> HIDE DEF b
<1>3. job' \in [Exports -> Jobs] /\ attempts' \subseteq Attempts
  BY <1>1, <1>2, Types
<1>4. \A y \in Exports : (y \in storage' \/ \E k \in attempts' : k.x = y) =>
                            job'[y].status # "none" \/ y \in unsettled
  BY <1>1, <1>2, ExportsKnown
<1>5. \A y \in Exports : Unfinished(y)' => Unfinished(y)
  BY <1>1, <1>2 DEF Unfinished
<1>6. storage' \subseteq storage \cup {k.x : k \in attempts}
  BY <1>1
<1> QED
  BY <1>1, <1>3, <1>4, <1>5, <1>6, ExportStep

\* An attempt ends; its job is completed, due again or as it was.
LEMMA AttemptEnds ==
    ASSUME DeletionInv, NEW a \in attempts, attempts' = attempts \ {a},
           Mishap \/ UNCHANGED mishaps,
           UNCHANGED job \/ \E row \in Jobs : row.status # "none" /\ job' = [job EXCEPT ![a.x] = row],
           UNCHANGED <<account, device, events, due, buckets, skills, req, claims, queue, uploaded,
                       storage, unsettled, memberOf, barriers>>
    PROVE  DeletionInv'
<1>1. a.x \in Exports /\ attempts' \subseteq Attempts
  BY Types DEF Attempts
<1>2. /\ job' \in [Exports -> Jobs]
      /\ \A y \in Exports : job'[y] = job[y] \/ (y = a.x /\ job'[y].status # "none")
  <2>1. CASE UNCHANGED job
    BY <2>1, Types
  <2>2. ASSUME NEW row \in Jobs, row.status # "none", job' = [job EXCEPT ![a.x] = row]
        PROVE  /\ job' \in [Exports -> Jobs]
               /\ \A y \in Exports : job'[y] = job[y] \/ (y = a.x /\ job'[y].status # "none")
    BY <1>1, <2>2, Types
  <2> QED
    BY <2>1, <2>2
<1>3. \A y \in Exports : (y \in storage' \/ \E k \in attempts' : k.x = y) =>
                            job'[y].status # "none" \/ y \in unsettled
  BY <1>2, ExportsKnown
<1>4. \A y \in Exports : Unfinished(y)' => Unfinished(y)
  BY <1>2 DEF Unfinished
<1> QED
  BY <1>1, <1>2, <1>3, <1>4, ExportStep

LEMMA ExportEndsKeeps ==
    ASSUME DeletionInv, NEW a \in attempts, CompleteExport(a) \/ FailExport(a) \/ ExporterDies(a)
    PROVE  DeletionInv'
<1>1. /\ [status |-> "completed", lock |-> NoWorker] \in Jobs
      /\ [status |-> "pending", lock |-> NoWorker] \in Jobs
  BY DEF Jobs
<1>2. /\ attempts' = attempts \ {a} /\ (Mishap \/ UNCHANGED mishaps)
      /\ UNCHANGED <<account, device, events, due, buckets, skills, req, claims, queue, uploaded,
                     storage, unsettled, memberOf, barriers>>
  BY DEF CompleteExport, FailExport, ExporterDies, usage, teams
<1>3. UNCHANGED job \/ \E row \in Jobs : row.status # "none" /\ job' = [job EXCEPT ![a.x] = row]
  BY <1>1 DEF CompleteExport, FailExport, ExporterDies
<1> QED
  BY <1>2, <1>3, AttemptEnds

-----------------------------------------------------------------------------
(* The phases.                                                             *)

\* Two claims that hold the token of one request are one claim.
LEMMA OneHolds ==
    ASSUME DeletionInv, NEW c \in claims, NEW x \in claims, Current(c), Current(x), x.r = c.r
    PROVE  x = c
BY DEF DeletionInv, TokensAreApart, Current

\* The cursor is the one field of the one row a phase writes.
CursorWritten(c, n) ==
    /\ req' \in [Requests -> Reqs]
    /\ \A q \in Requests : /\ req'[q].status = req[q].status /\ req'[q].token = req[q].token
                           /\ req'[q].scope = req[q].scope
                           /\ req'[q].cancellable = req[q].cancellable
                           /\ req'[q].cursor = IF q = c.r THEN n + 1 ELSE req[q].cursor

LEMMA CursorIsWritten ==
    ASSUME DeletionInv, NEW c \in claims, NEW n \in 0 .. 4, req' = [req EXCEPT ![c.r].cursor = n + 1]
    PROVE  CursorWritten(c, n)
<1> DEFINE row == [req[c.r] EXCEPT !.cursor = n + 1]
<1>1. c.r \in Requests /\ c \in Claims
  BY Types DEF Claims
<1>2. req[c.r] \in Reqs /\ req' = [req EXCEPT ![c.r] = row]
  BY <1>1, Types
<1>3. /\ row \in Reqs /\ row.status = req[c.r].status /\ row.token = req[c.r].token
      /\ row.scope = req[c.r].scope /\ row.cursor = n + 1
      /\ row.cancellable = req[c.r].cancellable
  BY <1>2 DEF Reqs
<1> HIDE DEF row
<1>4. /\ req' \in [Requests -> Reqs] /\ req'[c.r] = row
      /\ \A q \in Requests : q # c.r => req'[q] = req[q]
  BY <1>1, <1>2, <1>3, ReqWritten
<1> SUFFICES ASSUME NEW q \in Requests
             PROVE  /\ req'[q].status = req[q].status /\ req'[q].token = req[q].token
                    /\ req'[q].scope = req[q].scope
                    /\ req'[q].cancellable = req[q].cancellable
                    /\ req'[q].cursor = IF q = c.r THEN n + 1 ELSE req[q].cursor
  BY <1>4 DEF CursorWritten
<1>5. CASE q = c.r
  BY <1>3, <1>4, <1>5
<1>6. CASE q # c.r
  BY <1>4, <1>6
<1> QED
  BY <1>5, <1>6

\* A claim moves the cursor of its request.
LEMMA CursorMoves ==
    ASSUME DeletionInv, NEW c \in claims, Current(c), c.stage # "barriers",
           NEW n \in 0 .. 4, c.cursor = n, CursorWritten(c, n),
           NEW k \in Claims, k.r = c.r, k.token = c.token, k.cursor = n + 1, k.stage = "phase",
           claims' = (claims \ {c}) \cup {k}, queue' = queue, mishaps' = mishaps
    PROVE  /\ c.r \in Requests /\ Open(c.r) /\ req[c.r].cursor = n
           /\ req' \in [Requests -> Reqs] /\ claims' \subseteq Claims
           /\ \A q \in Requests : /\ (Open(q)' <=> Open(q)) /\ (Deleting(q)' <=> Deleting(q))
                                  /\ req'[q].status = req[q].status
                                  /\ req'[q].cursor = IF q = c.r THEN n + 1 ELSE req[q].cursor
           /\ \A x \in claims' : Current(x)' => x = k \/ (x \in claims /\ x # c /\ Current(x))
           /\ TokensAreCounted' /\ TokensAreApart' /\ ClaimsFollow' /\ RequestsInOrder'
<1>1. c.r \in Requests /\ c \in Claims
  BY Types DEF Claims
<1>2. req' \in [Requests -> Reqs]
  BY DEF CursorWritten
<1>3. \A q \in Requests : /\ req'[q].status = req[q].status /\ req'[q].token = req[q].token
                           /\ req'[q].scope = req[q].scope
                           /\ req'[q].cancellable = req[q].cancellable
                           /\ req'[q].cursor = IF q = c.r THEN n + 1 ELSE req[q].cursor
  BY DEF CursorWritten
<1>4. /\ claims' \subseteq Claims /\ TokensAreCounted' /\ TokensAreApart'
      /\ \A x \in Claims : Current(x)' <=> Current(x)
      /\ \A q \in Requests : Open(q)' <=> Open(q)
  BY <1>3, ClaimMoves
<1>5. \A q \in Requests : Deleting(q)' <=> Deleting(q)
  BY <1>3 DEF Deleting
<1>6. Open(c.r) /\ req[c.r].status = "running" /\ req[c.r].cursor = n
  BY DEF Current, Open, DeletionInv, ClaimsFollow
<1>7. \A x \in claims' : Current(x)' => x = k \/ (x \in claims /\ x # c /\ Current(x))
  BY <1>4
<1>8. ClaimsFollow'
  <2> SUFFICES ASSUME NEW x \in claims'
               PROVE  /\ req'[x.r].status # "none"
                      /\ Current(x)' =>
                            /\ x.cursor = req'[x.r].cursor
                            /\ AtKeys(x) => /\ x.cursor = 3 /\ req'[x.r].scope = "account"
                                            /\ x.keys = queue'[x.r]
                            /\ x.stage \in {"renewed", "erased"} => x.keys # {}
    BY DEF ClaimsFollow, AtKeys
  <2>1. CASE x = k
    BY <1>1, <1>3, <1>6, <2>1 DEF AtKeys
  <2>2. CASE x \in claims /\ x # c
    <3>1. x.r \in Requests /\ req'[x.r].status # "none"
      BY <1>3, <2>2, Types DEF Claims, DeletionInv, ClaimsFollow
    <3>2. ASSUME Current(x)'
          PROVE  Current(x) /\ req'[x.r].cursor = req[x.r].cursor /\ req'[x.r].scope = req[x.r].scope
      BY <1>3, <1>7, <2>2, <3>1, <3>2, OneHolds, <1>4
    <3> QED
      BY <2>2, <3>1, <3>2 DEF DeletionInv, ClaimsFollow
  <2> QED
    BY <2>1, <2>2
<1>9. RequestsInOrder'
  <2> SUFFICES ASSUME NEW q \in Requests
               PROVE  /\ req'[q].cancellable => req'[q].status = "pending" /\ req'[q].scope = "account"
                      /\ req'[q].status \in {"none", "pending", "cancelled"} => req'[q].cursor = 0
                      /\ Open(q)' => req'[q].cursor <= 5
                      /\ req'[q].status = "completed" => req'[q].cursor = 6
    BY DEF RequestsInOrder
  <2>1. CASE q = c.r
    BY <1>3, <1>6, <2>1 DEF DeletionInv, RequestsInOrder
  <2>2. CASE q # c.r
    BY <1>3, <1>4, <2>2 DEF DeletionInv, RequestsInOrder
  <2> QED
    BY <2>1, <2>2
<1> QED
  BY <1>1, <1>2, <1>3, <1>4, <1>5, <1>6, <1>7, <1>8, <1>9

\* A phase that works on the database: what it removes, and that the rest stays.
LEMMA PhaseKeeps ==
    ASSUME DeletionInv, NEW c \in claims, NEW n \in 0 .. 4, Phase(c, n),
           account' = IF n = 4 /\ req[c.r].scope = "account" THEN "deleted" ELSE account,
           device' \in [Devices -> {"active", "revoked", "moved", "gone"}],
           Mine' \subseteq Mine, \A d \in Mine' : device'[d] \in {device[d], "revoked"},
           events' \subseteq events, due' \subseteq events', buckets' \subseteq buckets,
           n = 3 => req[c.r].scope # "account",
           Deleting(c.r) => Removed(n + 1)', GoneIsEmpty',
           UNCHANGED <<skills, queue, uploaded, job, attempts, storage, unsettled, memberOf,
                       barriers, mishaps>>
    PROVE  DeletionInv'
<1> DEFINE moved == [c EXCEPT !.cursor = n + 1]
<1>1. /\ Current(c) /\ c.stage = "phase" /\ c.cursor = n
      /\ req' = [req EXCEPT ![c.r].cursor = n + 1] /\ claims' = (claims \ {c}) \cup {moved}
  BY DEF Phase, Fence
<1>2. /\ moved \in Claims /\ moved.r = c.r /\ moved.token = c.token /\ moved.cursor = n + 1
      /\ moved.stage = "phase"
  <2>1. c \in Claims /\ n + 1 \in 0 .. 5
    BY Types
  <2> QED
    BY <1>1, <2>1 DEF Claims
<1> HIDE DEF moved
<1>3. PICK k \in Claims : /\ k.r = c.r /\ k.token = c.token /\ k.cursor = n + 1 /\ k.stage = "phase"
                          /\ claims' = (claims \ {c}) \cup {k}
  BY <1>1, <1>2
<1>4. /\ c.r \in Requests /\ Open(c.r) /\ req[c.r].cursor = n
      /\ req' \in [Requests -> Reqs] /\ claims' \subseteq Claims
      /\ \A q \in Requests : /\ (Open(q)' <=> Open(q)) /\ (Deleting(q)' <=> Deleting(q))
                             /\ req'[q].status = req[q].status
                             /\ req'[q].cursor = IF q = c.r THEN n + 1 ELSE req[q].cursor
      /\ \A x \in claims' : Current(x)' => x = k \/ (x \in claims /\ x # c /\ Current(x))
      /\ TokensAreCounted' /\ TokensAreApart' /\ ClaimsFollow' /\ RequestsInOrder'
  <2>1. c.stage # "barriers"
    BY <1>1
  <2>2. queue' = queue /\ mishaps' = mishaps
    OBVIOUS
  <2>3. CursorWritten(c, n)
    BY <1>1, CursorIsWritten
  <2> QED
    BY <1>1, <1>3, <2>1, <2>2, <2>3, CursorMoves
<1>5. TypeOK'
  <2>1. account' \in {"active", "deletion_pending", "deleted"}
    BY Types DEF TypeOK
  <2> QED
    BY <1>4, <2>1, Types DEF TypeOK, Reqs, Statuses, Claims
<1>6. AccountGoesOnce'
  <2> SUFFICES ASSUME NEW q \in Requests, Deleting(q)
               PROVE  account' = IF req'[q].cursor >= 5 THEN "deleted" ELSE "deletion_pending"
    BY <1>4 DEF DeletionInv, AccountGoesOnce
  <2>1. account = IF req[q].cursor >= 5 THEN "deleted" ELSE "deletion_pending"
    BY DEF DeletionInv, AccountGoesOnce
  <2>2. CASE q = c.r
    BY <1>4, <2>1, <2>2 DEF Deleting
  <2>3. CASE q # c.r
    <3>1. ~Deleting(c.r)
      BY <1>4, <2>3 DEF DeletionInv, AccountGoesOnce
    <3>2. account' = account
      BY <1>4, <3>1 DEF Deleting, Open
    <3> QED
      BY <1>4, <2>1, <2>3, <3>2
  <2> QED
    BY <2>2, <2>3
<1>7. PhasesLast'
  <2> SUFFICES ASSUME NEW q \in Requests, Deleting(q) PROVE Removed(req[q].cursor)'
    BY <1>4 DEF PhasesLast
  <2>1. CASE q = c.r
    <3>1. Removed(n + 1)' /\ req'[q].cursor = n + 1
      BY <1>4, <2>1
    <3> QED
      BY <3>1 DEF Removed
  <2>2. CASE q # c.r
    <3>1. PICK m \in 0 .. 6 : m = req[q].cursor /\ m = req'[q].cursor
      BY <1>4, <2>2, Types DEF Reqs
    <3>2. Removed(m)
      BY <3>1 DEF DeletionInv, PhasesLast
    <3>3. Removed(m)'
      BY <3>2, RemovedStays
    <3> QED
      BY <3>1, <3>3 DEF Removed
  <2> QED
    BY <2>1, <2>2
<1>8. ObjectsAreKnown'
  <2>1. \A x \in claims' : Current(x)' /\ AtKeys(x) => x \in claims /\ Current(x)
    BY <1>3, <1>4 DEF AtKeys
  <2>2. \A q \in Requests : Deleting(q)' /\ req'[q].cursor >= 4 => Deleting(q) /\ req[q].cursor >= 4
    BY <1>4 DEF Deleting
  <2> QED
    BY <2>1, <2>2, ObjectsKept
<1>9. BarriersStand'
  <2>1. \A q \in Requests : Open(q)' /\ req'[q].cursor >= 1
             => \/ Open(q) /\ req[q].cursor >= 1
                \/ \E x \in claims : x.r = q /\ Current(x) /\ x.stage # "barriers"
    BY <1>1, <1>4
  <2>2. \A x \in claims' : Current(x)' /\ x.stage # "barriers"
             => \E y \in claims : y.r = x.r /\ Current(y) /\ y.stage # "barriers"
    BY <1>1, <1>3, <1>4
  <2> QED
    BY <1>4, <2>1, <2>2, BarriersKept
<1> QED
  BY <1>4, <1>5, <1>6, <1>7, <1>8, <1>9 DEF DeletionInv

\* The row of a claim that is current, and what its phases removed before.
LEMMA PhaseBefore ==
    ASSUME DeletionInv, NEW c \in claims, NEW n \in 0 .. 4, Phase(c, n)
    PROVE  c.r \in Requests /\ req[c.r].cursor = n /\ (Deleting(c.r) => Removed(n))
<1>1. c.r \in Requests /\ req[c.r].cursor = n
  BY Types DEF Phase, Fence, DeletionInv, ClaimsFollow, Claims
<1>2. Deleting(c.r) => Removed(req[c.r].cursor)
  BY <1>1 DEF DeletionInv, PhasesLast
<1> QED
  BY <1>1, <1>2

LEMMA DatabasePhasesKeep ==
    ASSUME DeletionInv, NEW c \in claims,
           RevokeAccess(c) \/ DeleteEvents(c) \/ DeleteAggregates(c) \/ SkipObjects(c)
    PROVE  DeletionInv'
<1>1. UNCHANGED <<account, skills, queue, uploaded, job, attempts, storage, unsettled, memberOf,
                  barriers, mishaps>>
  BY DEF RevokeAccess, DeleteEvents, DeleteAggregates, SkipObjects, usage, objects, teams
<1>2. InScope(c.r) \subseteq Mine /\ (req[c.r].scope # "installation" => InScope(c.r) = Mine)
  BY DEF InScope
<1>3. ASSUME RevokeAccess(c) PROVE DeletionInv'
  <2>1. /\ Phase(c, 0) /\ UNCHANGED <<events, due, buckets>>
        /\ device' = IF req[c.r].scope = "account"
                     THEN [d \in Devices |-> IF d \in Mine THEN "revoked" ELSE device[d]]
                     ELSE device
    BY <1>3 DEF RevokeAccess, usage
  <2>2. /\ device' \in [Devices -> {"active", "revoked", "moved", "gone"}]
        /\ Mine' \subseteq Mine /\ \A d \in Mine' : device'[d] \in {device[d], "revoked"}
    BY <2>1, Types DEF TypeOK, Mine
  <2>3. Deleting(c.r) => Removed(1)'
    BY <2>1, <2>2 DEF Removed, Deleting, Mine
  <2>4. GoneIsEmpty'
    BY <2>1, Types DEF DeletionInv, GoneIsEmpty, TypeOK
  <2>5. PICK n \in 0 .. 4 : n = 0
    OBVIOUS
  <2>6. Phase(c, n) /\ (Deleting(c.r) => Removed(n + 1)')
    BY <2>1, <2>3, <2>5 DEF Removed
  <2> QED
    BY <1>1, <2>1, <2>2, <2>4, <2>5, <2>6, Types, PhaseKeeps DEF TypeOK
<1>4. ASSUME DeleteEvents(c) PROVE DeletionInv'
  <2>1. /\ Phase(c, 1) /\ events' = events \ InScope(c.r) /\ due' = due \ InScope(c.r)
        /\ buckets' \subseteq buckets /\ UNCHANGED device
    BY <1>4 DEF DeleteEvents, TasksWithout
  <2>2. Mine' = Mine /\ due' \subseteq events'
    BY <2>1, Types DEF Mine, TypeOK
  <2>3. PICK n \in 0 .. 4 : n = 1
    OBVIOUS
  <2>4. Deleting(c.r) => Removed(n + 1)'
    <3>1. Deleting(c.r) => Removed(n)
      BY <2>1, <2>3, PhaseBefore
    <3> QED
      BY <1>2, <2>1, <2>2, <2>3, <3>1 DEF Removed, Deleting
  <2>5. GoneIsEmpty'
    BY <2>1 DEF DeletionInv, GoneIsEmpty
  <2>6. Phase(c, n) /\ device' \in [Devices -> {"active", "revoked", "moved", "gone"}]
    BY <2>1, <2>3, Types DEF TypeOK
  <2>7. \A d \in Mine' : device'[d] \in {device[d], "revoked"}
    BY <2>1
  <2> QED
    BY <1>1, <2>1, <2>2, <2>3, <2>4, <2>5, <2>6, <2>7, PhaseKeeps
<1>5. ASSUME DeleteAggregates(c) PROVE DeletionInv'
  <2>1. /\ Phase(c, 2) /\ UNCHANGED <<device, events, due>> /\ buckets' \subseteq buckets
        /\ req[c.r].scope = "account" => buckets' \cap Mine = {}
    BY <1>2, <1>5 DEF DeleteAggregates
  <2>2. Mine' = Mine /\ due' \subseteq events'
    BY <2>1, Types DEF Mine, TypeOK
  <2>3. PICK n \in 0 .. 4 : n = 2
    OBVIOUS
  <2>4. Deleting(c.r) => Removed(n + 1)'
    <3>1. Deleting(c.r) => Removed(n)
      BY <2>1, <2>3, PhaseBefore
    <3> QED
      BY <2>1, <2>2, <2>3, <3>1 DEF Removed, Deleting
  <2>5. GoneIsEmpty'
    BY <2>1 DEF DeletionInv, GoneIsEmpty
  <2>6. Phase(c, n) /\ device' \in [Devices -> {"active", "revoked", "moved", "gone"}]
    BY <2>1, <2>3, Types DEF TypeOK
  <2>7. \A d \in Mine' : device'[d] \in {device[d], "revoked"}
    BY <2>1
  <2> QED
    BY <1>1, <2>1, <2>2, <2>3, <2>4, <2>5, <2>6, <2>7, PhaseKeeps
<1>6. ASSUME SkipObjects(c) PROVE DeletionInv'
  <2>1. /\ Phase(c, 3) /\ req[c.r].scope # "account" /\ UNCHANGED <<device, events, due, buckets>>
    BY <1>6 DEF SkipObjects, usage
  <2>2. Mine' = Mine /\ due' \subseteq events'
    BY <2>1, Types DEF Mine, TypeOK
  <2>3. PICK n \in 0 .. 4 : n = 3
    OBVIOUS
  <2>4. ~Deleting(c.r)
    BY <2>1 DEF Deleting
  <2>5. GoneIsEmpty'
    BY <2>1 DEF DeletionInv, GoneIsEmpty
  <2>6. Phase(c, n) /\ device' \in [Devices -> {"active", "revoked", "moved", "gone"}]
    BY <2>1, <2>3, Types DEF TypeOK
  <2>7. \A d \in Mine' : device'[d] \in {device[d], "revoked"}
    BY <2>1
  <2> QED
    BY <1>1, <2>1, <2>2, <2>3, <2>4, <2>5, <2>6, <2>7, PhaseKeeps
<1> QED
  BY <1>3, <1>4, <1>5, <1>6

\* The devices go when no event or bucket refers to them.
LEMMA DeleteIdentityKeeps ==
    ASSUME DeletionInv, NEW c \in claims, DeleteIdentity(c)
    PROVE  DeletionInv'
<1>1. /\ Phase(c, 4)
      /\ account' = IF req[c.r].scope = "account" THEN "deleted" ELSE account
      /\ UNCHANGED <<events, due, buckets, skills, queue, uploaded, job, attempts, storage,
                     unsettled, memberOf, barriers, mishaps>>
  BY DEF DeleteIdentity, usage, objects, teams
<1>2. \/ UNCHANGED device /\ req[c.r].scope = "all_usage"
      \/ /\ ~Referenced(InScope(c.r))
         /\ device' = [d \in Devices |-> IF d \in InScope(c.r) THEN "gone" ELSE device[d]]
  BY DEF DeleteIdentity
<1>3. InScope(c.r) \subseteq Mine /\ (req[c.r].scope = "account" => InScope(c.r) = Mine)
  BY DEF InScope
<1>4. device \in [Devices -> {"active", "revoked", "moved", "gone"}] /\ due \subseteq events
  BY Types DEF TypeOK
<1>5. /\ device' \in [Devices -> {"active", "revoked", "moved", "gone"}]
      /\ \A d \in Devices : device'[d] = device[d] \/ (d \in InScope(c.r) /\ device'[d] = "gone")
  BY <1>2, <1>4
<1>6. Mine' \subseteq Mine /\ \A d \in Mine' : device'[d] = device[d]
  BY <1>5 DEF Mine
<1>7. PICK n \in 0 .. 4 : n = 4
  OBVIOUS
<1>8. Deleting(c.r) => Removed(n + 1)'
  <2> SUFFICES ASSUME Deleting(c.r) PROVE Removed(n + 1)'
    OBVIOUS
  <2>1. Removed(n)
    BY <1>1, <1>7, PhaseBefore
  <2>2. Mine' = {}
    BY <1>2, <1>3, <1>4, <1>6 DEF Deleting, Mine
  <2> QED
    BY <1>1, <1>7, <2>1, <2>2 DEF Removed
<1>9. GoneIsEmpty'
  <2> SUFFICES ASSUME NEW d \in events \cup buckets PROVE device'[d] # "gone"
    BY <1>1 DEF GoneIsEmpty
  <2>1. d \in Devices /\ device[d] # "gone"
    BY Types DEF DeletionInv, GoneIsEmpty, TypeOK
  <2> QED
    BY <1>2, <1>4, <2>1 DEF Referenced
<1>10. Phase(c, n) /\ n # 3
  BY <1>1, <1>7
<1>11. account' = IF n = 4 /\ req[c.r].scope = "account" THEN "deleted" ELSE account
  BY <1>1, <1>7
<1> QED
  BY <1>1, <1>4, <1>5, <1>6, <1>8, <1>9, <1>10, <1>11, PhaseKeeps

-----------------------------------------------------------------------------
(* The objects.                                                            *)

\* A worker goes on within a phase.
LEMMA StageMoves ==
    ASSUME DeletionInv, NEW c \in claims,
           NEW k \in Claims, k.r = c.r, k.token = c.token,
           claims' = (claims \ {c}) \cup {k},
           UNCHANGED <<account, device, events, due, buckets, skills, req, memberOf, mishaps>>
    PROVE  /\ c.r \in Requests /\ claims' \subseteq Claims
           /\ \A x \in Claims : Current(x)' <=> Current(x)
           /\ \A q \in Requests : (Open(q)' <=> Open(q)) /\ (Deleting(q)' <=> Deleting(q))
           /\ \A x \in claims' : Current(x)' =>
                 \/ x = k /\ Current(c)
                 \/ x \in claims /\ x # c /\ Current(x) /\ (Current(c) => x.r # c.r)
           /\ TokensAreCounted' /\ TokensAreApart' /\ RequestsInOrder' /\ AccountGoesOnce'
           /\ GoneIsEmpty'
<1>1. \A q \in Requests : req'[q].status = req[q].status /\ req'[q].token = req[q].token
  OBVIOUS
<1>2. /\ claims' \subseteq Claims
      /\ \A x \in Claims : Current(x)' <=> Current(x)
      /\ \A q \in Requests : Open(q)' <=> Open(q)
      /\ TokensAreCounted' /\ TokensAreApart'
  BY <1>1, ClaimMoves
<1>3. c.r \in Requests
  BY Types DEF Claims
<1>4. \A q \in Requests : Deleting(q)' <=> Deleting(q)
  BY DEF Deleting
<1>5. \A x \in claims' : Current(x)' =>
          \/ x = k /\ Current(c)
          \/ x \in claims /\ x # c /\ Current(x) /\ (Current(c) => x.r # c.r)
  <2> SUFFICES ASSUME NEW x \in claims', Current(x)'
               PROVE  \/ x = k /\ Current(c)
                      \/ x \in claims /\ x # c /\ Current(x) /\ (Current(c) => x.r # c.r)
    OBVIOUS
  <2>1. Current(x)
    BY <1>2
  <2>2. CASE x = k
    BY <2>1, <2>2 DEF Current
  <2>3. CASE x \in claims /\ x # c
    BY <2>1, <2>3, OneHolds
  <2> QED
    BY <2>2, <2>3
<1>6. RequestsInOrder'
  BY <1>2 DEF DeletionInv, RequestsInOrder
<1>7. AccountGoesOnce' /\ GoneIsEmpty'
  BY <1>4 DEF DeletionInv, AccountGoesOnce, GoneIsEmpty
<1> QED
  BY <1>2, <1>3, <1>4, <1>5, <1>6, <1>7

LEMMA RegisterBarriersKeeps ==
    ASSUME DeletionInv, NEW c \in claims, RegisterBarriers(c)
    PROVE  DeletionInv'
<1> DEFINE moved == [c EXCEPT !.stage = "phase"]
<1>1. /\ c.stage = "barriers" /\ Current(c)
      /\ barriers' = barriers \cup {<<c.r, t>> : t \in AffectedTeams(c.r)}
      /\ claims' = (claims \ {c}) \cup {moved}
      /\ UNCHANGED <<account, device, events, due, buckets, skills, req, queue, uploaded, job,
                     attempts, storage, unsettled, memberOf, mishaps>>
  BY DEF RegisterBarriers, usage, objects
<1>2. /\ moved \in Claims /\ moved.r = c.r /\ moved.token = c.token /\ moved.cursor = c.cursor
      /\ moved.stage = "phase"
  <2>1. c \in Claims
    BY Types
  <2> QED
    BY <2>1 DEF Claims
<1> HIDE DEF moved
<1>3. PICK k \in Claims : /\ k.r = c.r /\ k.token = c.token /\ k.cursor = c.cursor
                          /\ k.stage = "phase" /\ claims' = (claims \ {c}) \cup {k}
  BY <1>1, <1>2
<1>4. /\ c.r \in Requests /\ claims' \subseteq Claims
      /\ \A x \in Claims : Current(x)' <=> Current(x)
      /\ \A q \in Requests : (Open(q)' <=> Open(q)) /\ (Deleting(q)' <=> Deleting(q))
      /\ \A x \in claims' : Current(x)' =>
            \/ x = k /\ Current(c)
            \/ x \in claims /\ x # c /\ Current(x) /\ (Current(c) => x.r # c.r)
      /\ TokensAreCounted' /\ TokensAreApart' /\ RequestsInOrder' /\ AccountGoesOnce' /\ GoneIsEmpty'
  BY <1>1, <1>3, StageMoves
<1>5. AffectedTeams(c.r) \subseteq Teams /\ memberOf \subseteq AffectedTeams(c.r)
  BY Types DEF AffectedTeams, TypeOK
<1>6. TypeOK'
  <2>1. barriers' \subseteq Requests \X Teams
    BY <1>1, <1>4, <1>5, Types DEF TypeOK
  <2> QED
    BY <1>1, <1>4, <2>1, Types DEF TypeOK, Claims
<1>7. ClaimsFollow'
  <2> SUFFICES ASSUME NEW x \in claims'
               PROVE  /\ req[x.r].status # "none"
                      /\ Current(x)' =>
                            /\ x.cursor = req[x.r].cursor
                            /\ AtKeys(x) => /\ x.cursor = 3 /\ req[x.r].scope = "account"
                                            /\ x.keys = queue[x.r]
                            /\ x.stage \in {"renewed", "erased"} => x.keys # {}
    BY <1>1 DEF ClaimsFollow, AtKeys
  <2>1. CASE x = k
    BY <1>1, <1>3, <2>1 DEF DeletionInv, ClaimsFollow, AtKeys
  <2>2. CASE x \in claims /\ x # c
    <3>1. req[x.r].status # "none"
      BY <2>2 DEF DeletionInv, ClaimsFollow
    <3>2. Current(x)' => Current(x)
      BY <1>4, <2>2, Types
    <3> QED
      BY <2>2, <3>1, <3>2 DEF DeletionInv, ClaimsFollow
  <2> QED
    BY <1>3, <2>1, <2>2
<1>8. PhasesLast'
  <2>1. Mine' = Mine
    BY <1>1 DEF Mine
  <2> QED
    BY <1>1, <1>4, <2>1 DEF DeletionInv, PhasesLast, Removed
<1>9. ObjectsAreKnown'
  <2>1. \A x \in claims' : Current(x)' /\ AtKeys(x) => x \in claims /\ Current(x)
    BY <1>3, <1>4 DEF AtKeys
  <2>2. \A q \in Requests : Deleting(q)' /\ req'[q].cursor >= 4 => Deleting(q) /\ req[q].cursor >= 4
    BY <1>1, <1>4
  <2> QED
    BY <1>1, <2>1, <2>2, ObjectsKept
<1>10. BarriersStand'
  <2>1. \A r \in Requests : Barred(r) => Barred(r)'
    BY <1>1 DEF Barred
  <2>2. Barred(c.r)'
    BY <1>1, <1>5 DEF Barred
  <2>3. \A r \in Requests : Open(r)' /\ req'[r].cursor >= 1 => Barred(r)'
    BY <1>1, <1>4, <2>1 DEF DeletionInv, BarriersStand
  <2>4. ASSUME NEW x \in claims', Current(x)', x.stage # "barriers"
        PROVE  Barred(x.r)'
    <3>1. CASE x = k
      BY <1>3, <2>2, <3>1 DEF Barred
    <3>2. CASE x \in claims /\ Current(x)
      <4>1. PICK q \in Requests : q = x.r
        BY <3>2, Types DEF Claims
      <4>2. Barred(q)
        BY <2>4, <3>2, <4>1 DEF DeletionInv, BarriersStand
      <4> QED
        BY <2>1, <4>1, <4>2
    <3> QED
      BY <1>4, <2>4, <3>1, <3>2
  <2>5. \A r \in Requests : ~Open(r)' \/ (Deleting(r)' /\ req'[r].status = "pending")
            => \A t \in Teams : <<r, t>> \notin barriers'
    <3> SUFFICES ASSUME NEW r \in Requests, ~Open(r) \/ (Deleting(r) /\ req[r].status = "pending"),
                        NEW t \in Teams
                 PROVE  <<r, t>> \notin barriers'
      BY <1>1, <1>4
    <3>1. <<r, t>> \notin barriers
      BY DEF DeletionInv, BarriersStand
    <3>2. r # c.r
      BY <1>1 DEF Current, Open
    <3> QED
      BY <1>1, <3>1, <3>2
  <2> QED
    BY <2>3, <2>4, <2>5 DEF BarriersStand
<1> QED
  BY <1>4, <1>6, <1>7, <1>8, <1>9, <1>10 DEF DeletionInv

\* A worker goes on among the keys: each claim that is current still knows the
\* objects that are left.
LEMMA KeysMove ==
    ASSUME DeletionInv, NEW c \in claims, c.stage # "barriers",
           NEW k \in Claims, k.r = c.r, k.token = c.token, k.cursor = c.cursor, k.stage # "barriers",
           claims' = (claims \ {c}) \cup {k},
           UNCHANGED <<account, device, events, due, buckets, skills, req, uploaded, job, attempts,
                       memberOf, barriers, mishaps>>,
           queue' \in [Requests -> SUBSET (Uploads \cup Exports)],
           \A q \in Requests : (q = c.r /\ Current(c)) \/ queue'[q] = queue[q],
           storage' \subseteq storage, unsettled \subseteq unsettled', unsettled' \subseteq Exports,
           Current(c) /\ AtKeys(k) =>
               /\ k.stage \in {"renewed", "erased"} => k.keys # {}
               /\ k.cursor = 3 /\ req[c.r].scope = "account" /\ k.keys = queue'[c.r]
               /\ \A x \in Exports : Unfinished(x) => x \in unsettled'
               /\ storage' \subseteq queue'[c.r] \cup unsettled'
               /\ k.stage = "erased" /\ NextKey(k) \in storage' => NextKey(k) \in unsettled'
    PROVE  DeletionInv'
<1>1. /\ c.r \in Requests /\ claims' \subseteq Claims
      /\ \A x \in Claims : Current(x)' <=> Current(x)
      /\ \A q \in Requests : (Open(q)' <=> Open(q)) /\ (Deleting(q)' <=> Deleting(q))
      /\ \A x \in claims' : Current(x)' =>
            \/ x = k /\ Current(c)
            \/ x \in claims /\ x # c /\ Current(x) /\ (Current(c) => x.r # c.r)
      /\ TokensAreCounted' /\ TokensAreApart' /\ RequestsInOrder' /\ AccountGoesOnce' /\ GoneIsEmpty'
  BY StageMoves
<1>2. TypeOK'
  <2>1. storage' \subseteq Uploads \cup Exports
    BY Types DEF TypeOK
  <2> QED
    BY <1>1, <2>1, Types DEF TypeOK, Claims
<1>3. \A x \in claims' : Current(x)' /\ x # k =>
          x \in claims /\ Current(x) /\ queue'[x.r] = queue[x.r]
  <2> SUFFICES ASSUME NEW x \in claims', Current(x)', x # k
               PROVE  x \in claims /\ Current(x) /\ queue'[x.r] = queue[x.r]
    OBVIOUS
  <2>1. x.r \in Requests
    BY <1>1 DEF Claims
  <2> QED
    BY <1>1, <2>1
<1>4. \A x \in claims' : Current(x)' /\ x = k => Current(c)
  BY <1>1 DEF Current
<1>5. ClaimsFollow'
  <2> SUFFICES ASSUME NEW x \in claims'
               PROVE  /\ req[x.r].status # "none"
                      /\ Current(x)' =>
                            /\ x.cursor = req[x.r].cursor
                            /\ AtKeys(x) => /\ x.cursor = 3 /\ req[x.r].scope = "account"
                                            /\ x.keys = queue'[x.r]
                            /\ x.stage \in {"renewed", "erased"} => x.keys # {}
    BY DEF ClaimsFollow, AtKeys
  <2>1. CASE x = k
    <3>1. Current(x)' => Current(c)
      BY <1>4, <2>1
    <3>2. req[c.r].status # "none" /\ (Current(c) => c.cursor = req[c.r].cursor)
      BY DEF DeletionInv, ClaimsFollow
    <3>3. x.stage \in {"renewed", "erased"} => AtKeys(x)
      BY DEF AtKeys
    <3> QED
      BY <2>1, <3>1, <3>2, <3>3
  <2>2. CASE x # k
    <3>1. req[x.r].status # "none"
      BY <2>2 DEF DeletionInv, ClaimsFollow
    <3> QED
      BY <1>3, <2>2, <3>1 DEF DeletionInv, ClaimsFollow
  <2> QED
    BY <2>1, <2>2
<1>6. PhasesLast'
  <2>1. Mine' = Mine
    BY DEF Mine
  <2>2. \A q \in Requests : Deleting(q)' => Deleting(q) /\ req'[q].cursor = req[q].cursor
    BY <1>1
  <2> QED
    BY <2>1, <2>2, PhasesKept
<1>7. ObjectsAreKnown'
  <2>1. storage' \cap Uploads \subseteq uploaded'
    BY DEF DeletionInv, ObjectsAreKnown
  <2>2. \A x \in Exports : (x \in storage' \/ \E a \in attempts : a.x = x) =>
                              job[x].status # "none" \/ x \in unsettled'
    BY ExportsKnown
  <2>3. ASSUME NEW r \in Requests, Listed(r)', NEW x \in Exports, Unfinished(x)
        PROVE  x \in unsettled'
    <3>1. CASE Deleting(r)' /\ req'[r].cursor >= 4
      <4>1. Listed(r)
        BY <1>1, <3>1 DEF Listed
      <4> QED
        BY <2>3, <4>1 DEF DeletionInv, ObjectsAreKnown
    <3>2. ASSUME NEW y \in claims', y.r = r, Current(y)', AtKeys(y) PROVE x \in unsettled'
      <4>1. CASE y = k
        BY <1>4, <2>3, <3>2, <4>1
      <4>2. CASE y # k
        <5>1. Listed(r)
          BY <1>3, <3>2, <4>2 DEF Listed
        <5> QED
          BY <2>3, <5>1 DEF DeletionInv, ObjectsAreKnown
      <4> QED
        BY <4>1, <4>2
    <3> QED
      BY <2>3, <3>1, <3>2 DEF Listed, AtKeys
  <2>4. ASSUME NEW y \in claims', Current(y)', AtKeys(y)
        PROVE  /\ storage' \subseteq queue'[y.r] \cup unsettled'
               /\ y.stage = "erased" /\ NextKey(y) \in storage' => NextKey(y) \in unsettled'
    <3>1. CASE y = k
      BY <1>4, <2>4, <3>1
    <3>2. CASE y # k
      <4>1. y \in claims /\ Current(y) /\ queue'[y.r] = queue[y.r]
        BY <1>3, <2>4, <3>2
      <4>2. /\ storage \subseteq queue[y.r] \cup unsettled
            /\ y.stage = "erased" /\ NextKey(y) \in storage => NextKey(y) \in unsettled
        BY <2>4, <4>1 DEF DeletionInv, ObjectsAreKnown
      <4> QED
        BY <4>1, <4>2
    <3> QED
      BY <3>1, <3>2
  <2> QED
    BY <2>1, <2>2, <2>3, <2>4 DEF ObjectsAreKnown, Unfinished, AtKeys, NextKey
<1>8. BarriersStand'
  <2>1. \A q \in Requests : Open(q)' /\ req'[q].cursor >= 1 => Open(q) /\ req[q].cursor >= 1
    BY <1>1
  <2>2. \A x \in claims' : Current(x)' /\ x.stage # "barriers"
             => \E y \in claims : y.r = x.r /\ Current(y) /\ y.stage # "barriers"
    BY <1>1
  <2>3. \A r \in Requests : ~Open(r)' \/ (Deleting(r)' /\ req'[r].status = "pending")
               => ~Open(r) \/ (Deleting(r) /\ req[r].status = "pending")
    BY <1>1
  <2> QED
    BY <2>1, <2>2, <2>3, BarriersKept
<1> QED
  BY <1>1, <1>2, <1>5, <1>6, <1>7, <1>8 DEF DeletionInv

\* What a claim among the keys knows.
LEMMA KeysKnown ==
    ASSUME DeletionInv, NEW c \in claims, Current(c), AtKeys(c)
    PROVE  /\ c.r \in Requests /\ Deleting(c.r) /\ req[c.r].cursor = 3 /\ c.cursor = 3
           /\ req[c.r].scope = "account" /\ c.keys = queue[c.r]
           /\ \A x \in Exports : Unfinished(x) => x \in unsettled
           /\ storage \subseteq queue[c.r] \cup unsettled
           /\ c.stage = "erased" /\ NextKey(c) \in storage => NextKey(c) \in unsettled
<1>1. c.r \in Requests /\ Listed(c.r)
  BY Types DEF Claims, Listed
<1>2. /\ req[c.r].cursor = 3 /\ c.cursor = 3
      /\ req[c.r].scope = "account" /\ c.keys = queue[c.r]
  BY DEF DeletionInv, ClaimsFollow
<1>3. \A x \in Exports : Unfinished(x) => x \in unsettled
  BY <1>1 DEF DeletionInv, ObjectsAreKnown
<1>4. /\ storage \subseteq queue[c.r] \cup unsettled
      /\ c.stage = "erased" /\ NextKey(c) \in storage => NextKey(c) \in unsettled
  BY DEF DeletionInv, ObjectsAreKnown
<1> QED
  BY <1>1, <1>2, <1>3, <1>4, ListedIsDeleting

LEMMA QueueKeysKeeps ==
    ASSUME DeletionInv, NEW c \in claims, QueueKeys(c)
    PROVE  DeletionInv'
<1> DEFINE moved == [c EXCEPT !.stage = "keys", !.keys = queue'[c.r]]
<1>1. /\ c.stage = "phase" /\ Current(c) /\ c.cursor = 3 /\ req[c.r].scope = "account"
      /\ queue' = [queue EXCEPT ![c.r] = @ \cup Keys]
      /\ claims' = (claims \ {c}) \cup {moved}
      /\ unsettled' = unsettled \cup {x \in Exports : Unfinished(x)}
      /\ UNCHANGED <<account, device, events, due, buckets, skills, req, uploaded, job, attempts,
                     storage, memberOf, barriers, mishaps>>
  BY DEF QueueKeys, Fence, usage, teams, Unfinished
<1>2. c \in Claims /\ c.r \in Requests
  BY Types DEF Claims
<1>3. Keys \subseteq Uploads \cup Exports
  BY Types DEF Keys, TypeOK
<1>4. /\ queue' \in [Requests -> SUBSET (Uploads \cup Exports)]
      /\ queue'[c.r] = queue[c.r] \cup Keys
      /\ \A q \in Requests : q # c.r => queue'[q] = queue[q]
  BY <1>1, <1>2, <1>3, Types DEF TypeOK
<1>5. /\ moved \in Claims /\ moved.r = c.r /\ moved.token = c.token /\ moved.cursor = c.cursor
      /\ moved.stage = "keys" /\ moved.keys = queue'[c.r]
  BY <1>2, <1>4 DEF Claims
<1> HIDE DEF moved
<1>6. PICK k \in Claims : /\ k.r = c.r /\ k.token = c.token /\ k.cursor = c.cursor
                          /\ k.stage = "keys" /\ k.keys = queue'[c.r]
                          /\ claims' = (claims \ {c}) \cup {k}
  BY <1>1, <1>5
<1>7. storage \subseteq queue'[c.r] \cup unsettled'
  <2> SUFFICES ASSUME NEW x \in storage PROVE x \in Keys \cup unsettled'
    BY <1>4
  <2>1. CASE x \in Uploads
    BY <2>1 DEF DeletionInv, ObjectsAreKnown, Keys
  <2>2. CASE x \in Exports
    <3>1. job[x].status # "none" \/ x \in unsettled
      BY <2>2, ExportsKnown
    <3>2. job[x].status \in {"none", "pending", "running", "completed"}
      BY <2>2, Types DEF Jobs
    <3> QED
      BY <1>1, <2>2, <3>1, <3>2 DEF Keys, Unfinished
  <2> QED
    BY <2>1, <2>2, Types DEF TypeOK
<1>8. unsettled' \subseteq Exports
  BY <1>1 DEF DeletionInv, ObjectsAreKnown
<1> QED
  BY <1>1, <1>4, <1>6, <1>7, <1>8, KeysMove

LEMMA RenewKeeps ==
    ASSUME DeletionInv, NEW c \in claims, Renew(c)
    PROVE  DeletionInv'
<1> DEFINE moved == [c EXCEPT !.stage = "renewed"]
<1>1. /\ c.stage = "keys" /\ Current(c) /\ c.keys # {}
      /\ claims' = (claims \ {c}) \cup {moved}
      /\ UNCHANGED <<account, device, events, due, buckets, skills, req, uploaded, job, attempts,
                     storage, memberOf, barriers, mishaps, queue, unsettled>>
  BY DEF Renew, usage, teams, objects
<1>2. c \in Claims
  BY Types
<1>3. /\ moved \in Claims /\ moved.r = c.r /\ moved.token = c.token /\ moved.cursor = c.cursor
      /\ moved.stage = "renewed" /\ moved.keys = c.keys
  BY <1>2 DEF Claims
<1> HIDE DEF moved
<1>4. PICK k \in Claims : /\ k.r = c.r /\ k.token = c.token /\ k.cursor = c.cursor
                          /\ k.stage = "renewed" /\ k.keys = c.keys
                          /\ claims' = (claims \ {c}) \cup {k}
  BY <1>1, <1>3
<1>5. /\ queue' \in [Requests -> SUBSET (Uploads \cup Exports)] /\ unsettled' \subseteq Exports
      /\ \A q \in Requests : queue'[q] = queue[q]
  BY <1>1, Types DEF TypeOK, DeletionInv, ObjectsAreKnown
<1>6. /\ req[c.r].scope = "account" /\ c.keys = queue[c.r] /\ c.cursor = 3
      /\ \A x \in Exports : Unfinished(x) => x \in unsettled
      /\ storage \subseteq queue[c.r] \cup unsettled
  BY <1>1, KeysKnown DEF AtKeys
<1> QED
  BY <1>1, <1>4, <1>5, <1>6, KeysMove

\* The claim that deletes an object may have lost its token.
LEMMA DeleteObjectKeeps ==
    ASSUME DeletionInv, NEW c \in claims, DeleteObject(c)
    PROVE  DeletionInv'
<1> DEFINE moved == [c EXCEPT !.stage = "erased"]
<1>1. /\ c.stage = "renewed" /\ storage' = storage \ {NextKey(c)}
      /\ claims' = (claims \ {c}) \cup {moved}
      /\ UNCHANGED <<account, device, events, due, buckets, skills, req, uploaded, job, attempts,
                     memberOf, barriers, mishaps, queue, unsettled>>
  BY DEF DeleteObject, usage, teams
<1>2. c \in Claims
  BY Types
<1>3. /\ moved \in Claims /\ moved.r = c.r /\ moved.token = c.token /\ moved.cursor = c.cursor
      /\ moved.stage = "erased" /\ moved.keys = c.keys
  BY <1>2 DEF Claims
<1> HIDE DEF moved
<1>4. PICK k \in Claims : /\ k.r = c.r /\ k.token = c.token /\ k.cursor = c.cursor
                          /\ k.stage = "erased" /\ k.keys = c.keys
                          /\ claims' = (claims \ {c}) \cup {k}
  BY <1>1, <1>3
<1>5. /\ queue' \in [Requests -> SUBSET (Uploads \cup Exports)] /\ unsettled' \subseteq Exports
      /\ \A q \in Requests : queue'[q] = queue[q]
  BY <1>1, Types DEF TypeOK, DeletionInv, ObjectsAreKnown
<1>6. Current(c) =>
         /\ req[c.r].scope = "account" /\ c.keys = queue[c.r] /\ c.cursor = 3
         /\ \A x \in Exports : Unfinished(x) => x \in unsettled
         /\ storage \subseteq queue[c.r] \cup unsettled
  BY <1>1, KeysKnown DEF AtKeys
<1>7. NextKey(k) \notin storage'
  BY <1>1, <1>4 DEF NextKey
<1>8. k.keys # {} \/ ~Current(c)
  BY <1>1, <1>4 DEF DeletionInv, ClaimsFollow
<1> QED
  BY <1>1, <1>4, <1>5, <1>6, <1>7, <1>8, KeysMove

LEMMA MarkDeletedKeeps ==
    ASSUME DeletionInv, NEW c \in claims, MarkDeleted(c)
    PROVE  DeletionInv'
<1> DEFINE moved == [c EXCEPT !.stage = "keys", !.keys = @ \ {NextKey(c)}]
<1>1. /\ c.stage = "erased" /\ Current(c)
      /\ queue' = [queue EXCEPT ![c.r] = @ \ {NextKey(c)}]
      /\ claims' = (claims \ {c}) \cup {moved}
      /\ UNCHANGED <<account, device, events, due, buckets, skills, req, uploaded, job, attempts,
                     memberOf, barriers, mishaps, storage, unsettled>>
  BY DEF MarkDeleted, usage, teams
<1>2. c \in Claims /\ c.r \in Requests
  BY Types DEF Claims
<1>3. /\ moved \in Claims /\ moved.r = c.r /\ moved.token = c.token /\ moved.cursor = c.cursor
      /\ moved.stage = "keys" /\ moved.keys = c.keys \ {NextKey(c)}
  BY <1>2 DEF Claims
<1> HIDE DEF moved
<1>4. PICK k \in Claims : /\ k.r = c.r /\ k.token = c.token /\ k.cursor = c.cursor
                          /\ k.stage = "keys" /\ k.keys = c.keys \ {NextKey(c)}
                          /\ claims' = (claims \ {c}) \cup {k}
  BY <1>1, <1>3
<1>5. /\ queue' \in [Requests -> SUBSET (Uploads \cup Exports)]
      /\ queue'[c.r] = queue[c.r] \ {NextKey(c)}
      /\ \A q \in Requests : q # c.r => queue'[q] = queue[q]
  BY <1>1, <1>2, Types DEF TypeOK
<1>6. /\ req[c.r].scope = "account" /\ c.keys = queue[c.r] /\ c.cursor = 3
      /\ \A x \in Exports : Unfinished(x) => x \in unsettled
      /\ storage \subseteq queue[c.r] \cup unsettled
      /\ NextKey(c) \in storage => NextKey(c) \in unsettled
  BY <1>1, KeysKnown DEF AtKeys
<1>7. unsettled' \subseteq Exports
  BY <1>1 DEF DeletionInv, ObjectsAreKnown
<1>8. k.keys = queue'[c.r] /\ storage' \subseteq queue'[c.r] \cup unsettled'
  BY <1>1, <1>4, <1>5, <1>6
<1>9. \A q \in Requests : (q = c.r /\ Current(c)) \/ queue'[q] = queue[q]
  BY <1>1, <1>5
<1>10. /\ c.stage # "barriers" /\ k.stage # "barriers" /\ k.stage # "erased" /\ k.stage # "renewed"
       /\ k.cursor = 3
  BY <1>1, <1>4, <1>6
<1> QED
  BY <1>1, <1>4, <1>5, <1>6, <1>7, <1>8, <1>9, <1>10, KeysMove

\* The rows of the objects go when every listed object is deleted: what is left
\* in the storage belongs to exports that were not over.
LEMMA FinishObjectsKeeps ==
    ASSUME DeletionInv, NEW c \in claims, FinishObjects(c)
    PROVE  DeletionInv'
<1> DEFINE moved == [c EXCEPT !.stage = "phase", !.cursor = 4]
<1>1. /\ c.stage = "keys" /\ Current(c) /\ c.keys = {} /\ queue[c.r] = {}
      /\ req' = [req EXCEPT ![c.r].cursor = 4]
      /\ claims' = (claims \ {c}) \cup {moved}
      /\ uploaded' = {} /\ job' = [x \in Exports |-> [status |-> "none", lock |-> NoWorker]]
      /\ UNCHANGED <<account, device, events, due, buckets, skills, queue, attempts, storage,
                     unsettled, memberOf, barriers, mishaps>>
  BY DEF FinishObjects, usage, teams
<1>2. c \in Claims /\ 4 \in 0 .. 5
  BY Types
<1>3. /\ moved \in Claims /\ moved.r = c.r /\ moved.token = c.token /\ moved.cursor = 4
      /\ moved.stage = "phase"
  BY <1>2 DEF Claims
<1> HIDE DEF moved
<1>4. /\ c.r \in Requests /\ Deleting(c.r) /\ req[c.r].cursor = 3 /\ c.cursor = 3
      /\ \A x \in Exports : Unfinished(x) => x \in unsettled
      /\ storage \subseteq unsettled
  BY <1>1, KeysKnown DEF AtKeys
<1>5. PICK n \in 0 .. 4 : n = 3
  OBVIOUS
<1>6. PICK k \in Claims : /\ k.r = c.r /\ k.token = c.token /\ k.cursor = n + 1 /\ k.stage = "phase"
                          /\ claims' = (claims \ {c}) \cup {k}
  BY <1>1, <1>3, <1>5
<1>7. /\ req' \in [Requests -> Reqs] /\ claims' \subseteq Claims
      /\ \A q \in Requests : /\ (Open(q)' <=> Open(q)) /\ (Deleting(q)' <=> Deleting(q))
                             /\ req'[q].status = req[q].status
                             /\ req'[q].cursor = IF q = c.r THEN n + 1 ELSE req[q].cursor
      /\ \A x \in claims' : Current(x)' => x = k \/ (x \in claims /\ x # c /\ Current(x))
      /\ TokensAreCounted' /\ TokensAreApart' /\ ClaimsFollow' /\ RequestsInOrder'
  <2>1. c.stage # "barriers" /\ c.cursor = n /\ queue' = queue /\ mishaps' = mishaps
    BY <1>1, <1>4, <1>5
  <2>2. req' = [req EXCEPT ![c.r].cursor = n + 1]
    BY <1>1, <1>5
  <2>3. CursorWritten(c, n)
    BY <2>2, CursorIsWritten
  <2> QED
    BY <1>1, <1>6, <2>1, <2>3, CursorMoves
<1>8. \A q \in Requests : Deleting(q) => q = c.r
  BY <1>4 DEF DeletionInv, AccountGoesOnce
<1>9. TypeOK'
  <2>1. job' \in [Exports -> Jobs] /\ uploaded' \subseteq Uploads
    BY <1>1 DEF Jobs
  <2> QED
    BY <1>1, <1>7, <2>1, Types DEF TypeOK, Reqs, Statuses, Claims, Jobs
<1>10. AccountGoesOnce'
  <2>1. account = "deletion_pending"
    BY <1>4 DEF DeletionInv, AccountGoesOnce
  <2> QED
    BY <1>1, <1>5, <1>7, <1>8, <2>1 DEF AccountGoesOnce
<1>11. PhasesLast'
  <2> SUFFICES ASSUME NEW q \in Requests, Deleting(q) PROVE Removed(req[q].cursor)'
    BY <1>7 DEF PhasesLast
  <2>1. q = c.r /\ req'[q].cursor = 4
    BY <1>5, <1>7, <1>8
  <2>2. Removed(3)
    BY <1>4 DEF DeletionInv, PhasesLast
  <2>3. Mine' = Mine
    BY <1>1 DEF Mine
  <2> QED
    BY <1>1, <1>4, <2>1, <2>2, <2>3 DEF Removed
<1>12. GoneIsEmpty'
  BY <1>1 DEF DeletionInv, GoneIsEmpty
<1>13. ObjectsAreKnown'
  <2>1. storage' \cap Uploads \subseteq uploaded' /\ unsettled' \subseteq Exports
    <3>1. unsettled \subseteq Exports
      BY DEF DeletionInv, ObjectsAreKnown
    <3> QED
      BY <1>1, <1>4, <3>1
  <2>2. ASSUME NEW x \in Exports, x \in storage \/ \E a \in attempts : a.x = x
        PROVE  x \in unsettled
    BY <1>4, <2>2 DEF Unfinished
  <2>3. \A x \in Exports : Unfinished(x)' => \E a \in attempts : a.x = x
    BY <1>1 DEF Unfinished
  <2>4. ASSUME NEW x \in claims', Current(x)', AtKeys(x) PROVE FALSE
    <3>1. x \in claims /\ x # c /\ Current(x)
      BY <1>6, <1>7, <2>4 DEF AtKeys
    <3>2. x.r \in Requests /\ Deleting(x.r)
      BY <2>4, <3>1, KeysKnown
    <3> QED
      BY <1>1, <1>8, <3>1, <3>2, OneHolds
  <2>5. \A x \in claims' : ~(Current(x)' /\ x.stage \in {"keys", "renewed", "erased"})
    BY <2>4 DEF AtKeys
  <2> QED
    BY <1>1, <2>1, <2>2, <2>3, <2>5 DEF ObjectsAreKnown, AtKeys
<1>14. BarriersStand'
  <2>1. \A q \in Requests : Open(q)' /\ req'[q].cursor >= 1
             => \/ Open(q) /\ req[q].cursor >= 1
                \/ \E x \in claims : x.r = q /\ Current(x) /\ x.stage # "barriers"
    BY <1>1, <1>7
  <2>2. \A x \in claims' : Current(x)' /\ x.stage # "barriers"
             => \E y \in claims : y.r = x.r /\ Current(y) /\ y.stage # "barriers"
    BY <1>1, <1>6, <1>7
  <2>3. \A r \in Requests : ~Open(r)' \/ (Deleting(r)' /\ req'[r].status = "pending")
               => ~Open(r) \/ (Deleting(r) /\ req[r].status = "pending")
    BY <1>7
  <2> QED
    BY <1>1, <2>1, <2>2, <2>3, BarriersKept
<1> QED
  BY <1>7, <1>9, <1>10, <1>11, <1>12, <1>13, <1>14 DEF DeletionInv

-----------------------------------------------------------------------------
(* The ends.                                                               *)

\* A claim ends its request or gives it back.
LEMMA ClaimEnds ==
    ASSUME DeletionInv, NEW c \in claims, Current(c), claims' = claims \ {c}, queue' = queue,
           mishaps' \in Nat, mishaps' >= mishaps,
           NEW row \in Reqs, req' = [req EXCEPT ![c.r] = row],
           row.status \in {"failed", "completed"}, row.token = NoToken,
           row.scope = req[c.r].scope, row.cancellable = req[c.r].cancellable,
           row.cursor = IF row.status = "completed" THEN 6 ELSE req[c.r].cursor
    PROVE  /\ c.r \in Requests /\ req[c.r].status = "running" /\ req[c.r].cursor = c.cursor
           /\ req' \in [Requests -> Reqs] /\ req'[c.r] = row
           /\ \A q \in Requests : q # c.r => req'[q] = req[q]
           /\ \A q \in Requests : Deleting(q)' <=> Deleting(q)
           /\ \A x \in claims' : Current(x)' => x \in claims /\ Current(x) /\ x.r # c.r
           /\ TokensAreCounted' /\ TokensAreApart' /\ ClaimsFollow' /\ RequestsInOrder'
<1>1. c.r \in Requests /\ req[c.r].status = "running" /\ req[c.r].cursor = c.cursor
  BY Types DEF Claims, Current, DeletionInv, ClaimsFollow
<1>2. /\ req' \in [Requests -> Reqs] /\ req'[c.r] = row
      /\ \A q \in Requests : q # c.r => req'[q] = req[q]
  BY <1>1, ReqWritten
<1>3. \A q \in Requests : Deleting(q)' <=> Deleting(q)
  BY <1>1, <1>2 DEF Deleting
<1>4. ASSUME NEW x \in claims'
      PROVE  /\ x.r \in Requests /\ x \in claims
             /\ Current(x) => x.r # c.r /\ Current(x)'
             /\ Current(x)' => Current(x) /\ x.r # c.r
  <2>1. x.r \in Requests /\ x \in claims
    BY Types DEF Claims
  <2>2. Current(x) => x.r # c.r
    BY OneHolds
  <2> QED
    BY <1>2, <2>1, <2>2 DEF Current
<1>5. TokensAreCounted' /\ TokensAreApart'
  <2>1. \A x \in claims' : Current(x) => Current(x)'
    BY <1>4
  <2> QED
    BY <2>1, ClaimsDropped
<1>6. ClaimsFollow'
  <2> SUFFICES ASSUME NEW x \in claims'
               PROVE  /\ req'[x.r].status # "none"
                      /\ Current(x)' =>
                            /\ x.cursor = req'[x.r].cursor
                            /\ AtKeys(x) => /\ x.cursor = 3 /\ req'[x.r].scope = "account"
                                            /\ x.keys = queue'[x.r]
                            /\ x.stage \in {"renewed", "erased"} => x.keys # {}
    BY DEF ClaimsFollow, AtKeys
  <2>1. req'[x.r].status # "none"
    BY <1>2, <1>4 DEF DeletionInv, ClaimsFollow
  <2> QED
    BY <1>2, <1>4, <2>1 DEF DeletionInv, ClaimsFollow
<1>7. RequestsInOrder'
  <2> SUFFICES ASSUME NEW q \in Requests
               PROVE  /\ req'[q].cancellable => req'[q].status = "pending" /\ req'[q].scope = "account"
                      /\ req'[q].status \in {"none", "pending", "cancelled"} => req'[q].cursor = 0
                      /\ Open(q)' => req'[q].cursor <= 5
                      /\ req'[q].status = "completed" => req'[q].cursor = 6
    BY DEF RequestsInOrder
  <2>1. CASE q = c.r
    BY <1>1, <1>2, <2>1 DEF DeletionInv, RequestsInOrder, Open
  <2>2. CASE q # c.r
    BY <1>2, <2>2 DEF DeletionInv, RequestsInOrder, Open
  <2> QED
    BY <2>1, <2>2
<1> QED
  BY <1>1, <1>2, <1>3, <1>4, <1>5, <1>6, <1>7

LEMMA CompleteKeeps ==
    ASSUME DeletionInv, NEW c \in claims, Complete(c)
    PROVE  DeletionInv'
<1> DEFINE last == [req[c.r] EXCEPT !.status = "completed", !.cursor = 6, !.token = NoToken]
<1>1. /\ c.stage = "phase" /\ Current(c) /\ c.cursor = 5
      /\ req' = [req EXCEPT ![c.r] = last] /\ claims' = claims \ {c}
      /\ barriers' = {b \in barriers : b[1] # c.r}
      /\ UNCHANGED <<account, device, events, due, buckets, skills, queue, uploaded, job, attempts,
                     storage, unsettled, memberOf, mishaps>>
  BY DEF Complete, Fence, usage, objects
<1>2. c.r \in Requests /\ req[c.r] \in Reqs /\ 6 \in 0 .. 6
  BY Types DEF Claims
<1>3. /\ last \in Reqs /\ last.status = "completed" /\ last.token = NoToken /\ last.cursor = 6
      /\ last.scope = req[c.r].scope /\ last.cancellable = req[c.r].cancellable
  BY <1>2 DEF Reqs, Statuses
<1> HIDE DEF last
<1>4. PICK row \in Reqs :
          /\ row.status = "completed" /\ row.token = NoToken /\ row.cursor = 6
          /\ row.scope = req[c.r].scope /\ row.cancellable = req[c.r].cancellable
          /\ req' = [req EXCEPT ![c.r] = row]
  BY <1>1, <1>3
<1>5. /\ c.r \in Requests /\ req[c.r].status = "running" /\ req[c.r].cursor = c.cursor
      /\ req' \in [Requests -> Reqs] /\ req'[c.r] = row
      /\ \A q \in Requests : q # c.r => req'[q] = req[q]
      /\ \A q \in Requests : Deleting(q)' <=> Deleting(q)
      /\ \A x \in claims' : Current(x)' => x \in claims /\ Current(x) /\ x.r # c.r
      /\ TokensAreCounted' /\ TokensAreApart' /\ ClaimsFollow' /\ RequestsInOrder'
  <2>1. mishaps' \in Nat /\ mishaps' >= mishaps
    BY <1>1, Types
  <2> QED
    BY <1>1, <1>4, <2>1, ClaimEnds
<1>6. TypeOK'
  <2>1. barriers' \subseteq Requests \X Teams /\ claims' \subseteq Claims
    BY <1>1, Types DEF TypeOK
  <2> QED
    BY <1>1, <1>5, <2>1, Types DEF TypeOK, Reqs, Statuses, Claims
<1>7. AccountGoesOnce'
  <2> SUFFICES ASSUME NEW q \in Requests, Deleting(q)
               PROVE  account = IF req'[q].cursor >= 5 THEN "deleted" ELSE "deletion_pending"
    BY <1>1, <1>5 DEF DeletionInv, AccountGoesOnce
  <2>1. account = IF req[q].cursor >= 5 THEN "deleted" ELSE "deletion_pending"
    BY DEF DeletionInv, AccountGoesOnce
  <2> QED
    BY <1>1, <1>4, <1>5, <2>1
<1>8. PhasesLast'
  <2> SUFFICES ASSUME NEW q \in Requests, Deleting(q) PROVE Removed(req[q].cursor)'
    BY <1>5 DEF PhasesLast
  <2>1. Removed(req[q].cursor)
    BY DEF DeletionInv, PhasesLast
  <2>2. Mine' = Mine
    BY <1>1 DEF Mine
  <2>3. req'[q].cursor = req[q].cursor \/ (req'[q].cursor = 6 /\ req[q].cursor = 5)
    BY <1>1, <1>4, <1>5
  <2> QED
    BY <1>1, <2>1, <2>2, <2>3 DEF Removed
<1>9. GoneIsEmpty'
  BY <1>1 DEF DeletionInv, GoneIsEmpty
<1>10. ObjectsAreKnown'
  <2>1. \A x \in claims' : Current(x)' /\ AtKeys(x) => x \in claims /\ Current(x)
    BY <1>5
  <2>2. \A q \in Requests : Deleting(q)' /\ req'[q].cursor >= 4 => Deleting(q) /\ req[q].cursor >= 4
    BY <1>1, <1>5
  <2> QED
    BY <1>1, <2>1, <2>2, ObjectsKept
<1>11. BarriersStand'
  <2>1. \A q \in Requests, t \in Teams : <<q, t>> \in barriers' <=> <<q, t>> \in barriers /\ q # c.r
    BY <1>1
  <2>2. memberOf \subseteq Teams /\ memberOf' = memberOf
    BY <1>1, Types DEF TypeOK
  <2>3. \A q \in Requests : Barred(q) /\ q # c.r => Barred(q)'
    BY <2>1, <2>2 DEF Barred
  <2>4. ASSUME NEW q \in Requests
        PROVE  /\ Open(q)' => q # c.r /\ Open(q)
               /\ ~Open(q)' => q = c.r \/ ~Open(q)
               /\ req'[q].status = "pending" => req[q].status = "pending" /\ q # c.r
    BY <1>4, <1>5 DEF Open
  <2>5. \A q \in Requests : Open(q)' /\ req'[q].cursor >= 1 => Barred(q)'
    BY <1>5, <2>3, <2>4 DEF DeletionInv, BarriersStand
  <2>6. ASSUME NEW x \in claims', Current(x)', x.stage # "barriers" PROVE Barred(x.r)'
    <3>1. PICK q \in Requests : q = x.r
      BY <1>1, Types DEF Claims
    <3>2. Barred(q) /\ q # c.r
      BY <1>5, <2>6, <3>1 DEF DeletionInv, BarriersStand
    <3> QED
      BY <2>3, <3>1, <3>2 DEF Barred
  <2>7. ASSUME NEW q \in Requests, ~Open(q)' \/ (Deleting(q)' /\ req'[q].status = "pending"),
               NEW t \in Teams
        PROVE  <<q, t>> \notin barriers'
    BY <1>5, <2>1, <2>4, <2>7 DEF DeletionInv, BarriersStand
  <2> QED
    BY <2>5, <2>6, <2>7 DEF BarriersStand
<1> QED
  BY <1>5, <1>6, <1>7, <1>8, <1>9, <1>10, <1>11 DEF DeletionInv

LEMMA FailClaimKeeps ==
    ASSUME DeletionInv, NEW c \in claims, FailClaim(c)
    PROVE  DeletionInv'
<1> DEFINE last == [req[c.r] EXCEPT !.status = "failed", !.token = NoToken]
<1>1. /\ Current(c) /\ req' = [req EXCEPT ![c.r] = last] /\ claims' = claims \ {c}
      /\ UNCHANGED <<account, device, events, due, buckets, skills, queue, uploaded, job, attempts,
                     storage, unsettled, memberOf, barriers>>
  BY DEF FailClaim, usage, objects, teams
<1>2. mishaps' \in 0 .. MaxMishaps /\ mishaps' \in Nat /\ mishaps' >= mishaps
  BY Types DEF FailClaim, Mishap
<1>3. c.r \in Requests /\ req[c.r] \in Reqs
  BY Types DEF Claims
<1>4. /\ last \in Reqs /\ last.status = "failed" /\ last.token = NoToken
      /\ last.cursor = req[c.r].cursor
      /\ last.scope = req[c.r].scope /\ last.cancellable = req[c.r].cancellable
  BY <1>3 DEF Reqs, Statuses
<1> HIDE DEF last
<1>5. PICK row \in Reqs :
          /\ row.status = "failed" /\ row.token = NoToken /\ row.cursor = req[c.r].cursor
          /\ row.scope = req[c.r].scope /\ row.cancellable = req[c.r].cancellable
          /\ req' = [req EXCEPT ![c.r] = row]
  BY <1>1, <1>4
<1>6. /\ c.r \in Requests /\ req[c.r].status = "running" /\ req[c.r].cursor = c.cursor
      /\ req' \in [Requests -> Reqs] /\ req'[c.r] = row
      /\ \A q \in Requests : q # c.r => req'[q] = req[q]
      /\ \A q \in Requests : Deleting(q)' <=> Deleting(q)
      /\ \A x \in claims' : Current(x)' => x \in claims /\ Current(x) /\ x.r # c.r
      /\ TokensAreCounted' /\ TokensAreApart' /\ ClaimsFollow' /\ RequestsInOrder'
  BY <1>1, <1>2, <1>5, ClaimEnds
<1>7. \A q \in Requests : /\ req'[q].cursor = req[q].cursor
                          /\ Open(q)' <=> Open(q)
                          /\ req'[q].status = "pending" => req[q].status = "pending"
  BY <1>5, <1>6 DEF Open
<1>8. TypeOK'
  BY <1>1, <1>2, <1>6, Types DEF TypeOK, Reqs, Statuses, Claims
<1>9. AccountGoesOnce'
  BY <1>1, <1>6, <1>7 DEF DeletionInv, AccountGoesOnce
<1>10. PhasesLast'
  <2>1. Mine' = Mine
    BY <1>1 DEF Mine
  <2> QED
    BY <1>1, <1>6, <1>7, <2>1, PhasesKept
<1>11. GoneIsEmpty'
  BY <1>1 DEF DeletionInv, GoneIsEmpty
<1>12. ObjectsAreKnown'
  <2>1. \A x \in claims' : Current(x)' /\ AtKeys(x) => x \in claims /\ Current(x)
    BY <1>6
  <2>2. \A q \in Requests : Deleting(q)' /\ req'[q].cursor >= 4 => Deleting(q) /\ req[q].cursor >= 4
    BY <1>6, <1>7
  <2> QED
    BY <1>1, <2>1, <2>2, ObjectsKept
<1>13. BarriersStand'
  <2>1. \A q \in Requests : Open(q)' /\ req'[q].cursor >= 1 => Open(q) /\ req[q].cursor >= 1
    BY <1>7
  <2>2. \A x \in claims' : Current(x)' /\ x.stage # "barriers"
             => \E y \in claims : y.r = x.r /\ Current(y) /\ y.stage # "barriers"
    BY <1>6
  <2>3. \A r \in Requests : ~Open(r)' \/ (Deleting(r)' /\ req'[r].status = "pending")
               => ~Open(r) \/ (Deleting(r) /\ req[r].status = "pending")
    BY <1>6, <1>7
  <2> QED
    BY <1>1, <2>1, <2>2, <2>3, BarriersKept
<1> QED
  BY <1>6, <1>8, <1>9, <1>10, <1>11, <1>12, <1>13 DEF DeletionInv

\* A claim whose worker is gone, or found its token lost, changes nothing.
LEMMA ClaimGoesKeeps ==
    ASSUME DeletionInv, NEW c \in claims, GiveUp(c) \/ WorkerDies(c)
    PROVE  DeletionInv'
<1>1. /\ claims' \subseteq claims
      /\ UNCHANGED <<account, device, events, due, buckets, skills, req, queue, uploaded, job,
                     attempts, storage, unsettled, memberOf, barriers>>
  BY DEF GiveUp, WorkerDies, usage, objects, teams
<1>2. mishaps' \in 0 .. MaxMishaps /\ mishaps' \in Nat /\ mishaps' >= mishaps
  BY Types DEF GiveUp, WorkerDies, Mishap
<1>3. /\ \A x \in claims' : Current(x)' <=> Current(x)
      /\ \A q \in Requests : (Open(q)' <=> Open(q)) /\ (Deleting(q)' <=> Deleting(q))
  BY <1>1 DEF Current, Open, Deleting
<1>4. TokensAreCounted' /\ TokensAreApart'
  BY <1>1, <1>2, <1>3, ClaimsDropped
<1>5. TypeOK'
  BY <1>1, <1>2, Types DEF TypeOK, Claims
<1>6. ClaimsFollow'
  BY <1>1, <1>3 DEF DeletionInv, ClaimsFollow, AtKeys
<1>7. RequestsInOrder' /\ AccountGoesOnce' /\ GoneIsEmpty'
  BY <1>1, <1>3 DEF DeletionInv, RequestsInOrder, AccountGoesOnce, GoneIsEmpty
<1>8. PhasesLast'
  <2>1. Mine' = Mine
    BY <1>1 DEF Mine
  <2> QED
    BY <1>1, <1>3, <2>1, PhasesKept
<1>9. ObjectsAreKnown'
  BY <1>1, <1>3, ObjectsKept
<1>10. BarriersStand'
  <2>1. memberOf' \subseteq memberOf
    BY <1>1
  <2>2. \A x \in claims' : Current(x)' /\ x.stage # "barriers"
             => \E y \in claims : y.r = x.r /\ Current(y) /\ y.stage # "barriers"
    BY <1>1, <1>3
  <2> QED
    BY <1>1, <1>3, <2>1, <2>2, BarriersKept
<1> QED
  BY <1>4, <1>5, <1>6, <1>7, <1>8, <1>9, <1>10 DEF DeletionInv

-----------------------------------------------------------------------------
LEMMA WorkKeeps ==
    ASSUME DeletionInv, NEW c \in claims, Work(c)
    PROVE  DeletionInv'
<1>1. ASSUME RegisterBarriers(c) PROVE DeletionInv'
  BY <1>1, RegisterBarriersKeeps
<1>2. ASSUME RevokeAccess(c) \/ DeleteEvents(c) \/ DeleteAggregates(c) \/ SkipObjects(c)
      PROVE  DeletionInv'
  BY <1>2, DatabasePhasesKeep
<1>3. ASSUME QueueKeys(c) PROVE DeletionInv'
  BY <1>3, QueueKeysKeeps
<1>4. ASSUME Renew(c) PROVE DeletionInv'
  BY <1>4, RenewKeeps
<1>5. ASSUME DeleteObject(c) PROVE DeletionInv'
  BY <1>5, DeleteObjectKeeps
<1>6. ASSUME MarkDeleted(c) PROVE DeletionInv'
  BY <1>6, MarkDeletedKeeps
<1>7. ASSUME FinishObjects(c) PROVE DeletionInv'
  BY <1>7, FinishObjectsKeeps
<1>8. ASSUME DeleteIdentity(c) PROVE DeletionInv'
  BY <1>8, DeleteIdentityKeeps
<1>9. ASSUME Complete(c) PROVE DeletionInv'
  BY <1>9, CompleteKeeps
<1>10. ASSUME GiveUp(c) PROVE DeletionInv'
  BY <1>10, ClaimGoesKeeps
<1> QED
  BY <1>1, <1>2, <1>3, <1>4, <1>5, <1>6, <1>7, <1>8, <1>9, <1>10 DEF Work

LEMMA StepKeeps == DeletionInv /\ [Next]_vars => DeletionInv'
<1> SUFFICES ASSUME DeletionInv, [Next]_vars PROVE DeletionInv'
  OBVIOUS
<1>1. ASSUME NEW r \in Requests, NEW s \in Scopes, NEW d \in Devices \cup {NoDevice}, Request(r, s, d)
      PROVE  DeletionInv'
  BY <1>1, RequestKeeps
<1>2. ASSUME NEW r \in Requests, Cancel(r) \/ WindowCloses(r) \/ ClaimRequest(r)
      PROVE  DeletionInv'
  BY <1>2, CancelKeeps, WindowClosesKeeps, ClaimRequestKeeps
<1>3. ASSUME NEW d \in Devices, Aggregate(d) \/ Rebind(d) \/ \E skill \in BOOLEAN : Upload(d, skill)
      PROVE  DeletionInv'
  BY <1>3, AggregateKeeps, RebindKeeps, UploadKeeps
<1>4. ASSUME NEW t \in Teams, Join(t) PROVE DeletionInv'
  BY <1>4, JoinKeeps
<1>5. ASSUME NEW c \in claims, Work(c) \/ FailClaim(c) \/ WorkerDies(c) PROVE DeletionInv'
  BY <1>5, WorkKeeps, FailClaimKeeps, ClaimGoesKeeps
<1>6. ASSUME NEW x \in Exports, CreateExport(x) \/ \E w \in Exporters : ClaimExport(x, w)
      PROVE  DeletionInv'
  BY <1>6, CreateExportKeeps, ClaimExportKeeps
<1>7. ASSUME NEW a \in attempts,
             PutExport(a) \/ CompleteExport(a) \/ FailExport(a) \/ ExporterDies(a)
      PROVE  DeletionInv'
  BY <1>7, PutExportKeeps, ExportEndsKeeps
<1>8. ASSUME UNCHANGED vars PROVE DeletionInv'
  <2>1. UNCHANGED <<account, device, events, due, buckets, skills, req, claims, queue, uploaded, job,
                    attempts, storage, unsettled, memberOf, barriers, mishaps>>
    BY <1>8 DEF vars, usage, objects, teams
  <2>2. TypeOK' /\ TokensAreCounted' /\ TokensAreApart' /\ ClaimsFollow'
    BY <2>1 DEF DeletionInv, TypeOK, TokensAreCounted, StaleTokens, TokensAreApart, ClaimsFollow,
                Current, AtKeys
  <2>3. RequestsInOrder' /\ AccountGoesOnce' /\ PhasesLast' /\ GoneIsEmpty'
    BY <2>1 DEF DeletionInv, RequestsInOrder, Open, AccountGoesOnce, Deleting, PhasesLast,
                Removed, Mine, GoneIsEmpty
  <2>4. /\ \A x \in claims : Current(x)' <=> Current(x)
        /\ \A q \in Requests : (Open(q)' <=> Open(q)) /\ (Deleting(q)' <=> Deleting(q))
    BY <2>1 DEF Current, Open, Deleting
  <2>5. ObjectsAreKnown'
    BY <2>1, <2>4, ObjectsKept
  <2>6. BarriersStand'
    <3>1. \A x \in claims' : Current(x)' /\ x.stage # "barriers"
               => \E y \in claims : y.r = x.r /\ Current(y) /\ y.stage # "barriers"
      BY <2>1, <2>4
    <3> QED
      BY <2>1, <2>4, <3>1, BarriersKept
  <2> QED
    BY <2>2, <2>3, <2>5, <2>6 DEF DeletionInv
<1> QED
  BY <1>1, <1>2, <1>3, <1>4, <1>5, <1>6, <1>7, <1>8 DEF Next

-----------------------------------------------------------------------------
(***************************************************************************)
(* The theorems.                                                           *)
(***************************************************************************)

\* The inductive invariant: the claim that holds the token of a request knows
\* its cursor and its keys, one request deletes the account, and what the
\* committed phases removed is gone (deletion.go, request_deletion.go).
THEOREM DeletionInvariant == Spec => []DeletionInv
<1>1. Init => DeletionInv
  BY InitEstablishes
<1>2. DeletionInv /\ [Next]_vars => DeletionInv'
  BY StepKeeps
<1> QED
  BY <1>1, <1>2, PTL DEF Spec

\* A worker may go on from the cursor of a deletion that another one began: what
\* the committed phases removed from an account is still gone, whatever the
\* uploads, the aggregation and the claims that lost their token did meanwhile.
THEOREM PhasesAreKept == Spec => []PhasesHold
<1>1. DeletionInv => PhasesHold
  <2> SUFFICES ASSUME DeletionInv,
                      NEW r \in Requests, Open(r), req[r].scope = "account"
               PROVE  /\ req[r].cursor >= 1 => \A d \in Mine : device[d] = "revoked"
                      /\ req[r].cursor >= 2 => Mine \cap events = {}
                      /\ req[r].cursor >= 3 => Mine \cap buckets = {}
                      /\ req[r].cursor >= 4 => uploaded = {}
                      /\ req[r].cursor >= 5 => Mine = {}
    BY DEF PhasesHold, DeletionInv
  <2>1. Deleting(r)
    BY DEF Deleting, Open
  <2> QED
    BY <2>1 DEF DeletionInv, PhasesLast, Removed
<1> QED
  BY <1>1, DeletionInvariant, PTL

\* No team the user is in can publish while his data is partly deleted, also
\* one he joins between two phases; a request that is over bars no team.
THEOREM BarriersHold == Spec => []TeamsAreBarred
<1>1. DeletionInv => TeamsAreBarred
  <2> SUFFICES ASSUME DeletionInv, NEW r \in Requests
               PROVE  /\ Open(r) /\ req[r].cursor >= 2 => \A t \in memberOf : <<r, t>> \in barriers
                      /\ ~Open(r) => \A t \in Teams : <<r, t>> \notin barriers
    BY DEF TeamsAreBarred
  <2>1. req[r].cursor \in 0 .. 6
    BY Types DEF Reqs
  <2> QED
    BY <2>1 DEF DeletionInv, BarriersStand, Barred
<1> QED
  BY <1>1, DeletionInvariant, PTL

\* When the deletion of an account has ended, nothing of the user is left but
\* the objects of exports that were not over when the keys were listed.
THEOREM WhatIsDeletedIsGone == Spec => []DeletedIsGone
<1>1. DeletionInv => DeletedIsGone
  <2> SUFFICES ASSUME DeletionInv
               PROVE  DeletedIsGone
    OBVIOUS
  <2>1. storage \cap Uploads \subseteq uploaded
    BY DEF DeletionInv, ObjectsAreKnown
  <2>2. ASSUME NEW r \in Requests, req[r].status = "completed", req[r].scope = "account"
        PROVE  /\ account = "deleted" /\ Mine = {}
               /\ {d \in events \cup buckets : device[d] = "gone"} = {}
               /\ uploaded = {} /\ storage \subseteq unsettled
    <3>1. Deleting(r) /\ req[r].cursor = 6
      BY <2>2 DEF Deleting, DeletionInv, RequestsInOrder
    <3>2. account = "deleted" /\ Removed(req[r].cursor)
      BY <3>1 DEF DeletionInv, AccountGoesOnce, PhasesLast
    <3>3. {d \in events \cup buckets : device[d] = "gone"} = {}
      BY DEF DeletionInv, GoneIsEmpty
    <3> QED
      BY <3>1, <3>2, <3>3 DEF Removed
  <2> QED
    BY <2>1, <2>2 DEF DeletedIsGone
<1> QED
  BY <1>1, DeletionInvariant, PTL

=============================================================================

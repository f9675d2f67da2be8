-------------------------- MODULE AdminRolesProofs --------------------------
(***************************************************************************)
(* Bootstraps are paid for, whatever the numbers of users and requests.    *)
(*                                                                         *)
(* What makes it inductive is that a bootstrap in progress counts like one *)
(* that succeeded, and that one overlap or vacancy is to spare whenever    *)
(* there is no admin and either no bootstrap in progress, or one that will *)
(* write nothing because it has read a role that was "admin".              *)
(***************************************************************************)
EXTENDS AdminRoles, FiniteSetTheorems, TLAPS

\* Only an existing user is about to get a role.
TargetsExist ==
  \A r \in Requests :
    serving[r] \in Assignable \cup {"granting"} => target[r] \in accounts

Taken == grants + Cardinality(InProgress)

TakenPaidFor == Taken <= 1 + overlaps + vacancies

Spared ==
  /\ Admins = {}
  /\ \/ InProgress = {}
     \/ \E r \in Requests : serving[r] = "granting" /\ seen[r] = "admin"

SparePaidFor == Spared => Taken <= overlaps + vacancies

RolesInv == RolesTypeOK /\ TargetsExist /\ TakenPaidFor /\ SparePaidFor

-----------------------------------------------------------------------------
(* How a step changes the bootstraps in progress.                          *)

LEMMA CountIsNatural ==
  ASSUME RolesTypeOK
  PROVE  IsFiniteSet(InProgress) /\ Cardinality(InProgress) \in Nat /\ Taken \in Nat
<1>1. InProgress \subseteq Requests
  BY DEF InProgress
<1>2. IsFiniteSet(InProgress)
  BY <1>1, RolesAssumption, FS_Subset
<1> QED
  BY <1>2, FS_CardinalityType DEF Taken, RolesTypeOK

\* A request that neither starts nor ends a bootstrap.
LEMMA SameCount ==
  ASSUME NEW r \in Requests, NEW stage, RolesTypeOK, At(r, stage),
         serving[r] \in {"checked", "granting"} <=> stage \in {"checked", "granting"}
  PROVE  InProgress' = InProgress
<1>1. \A q \in Requests : serving'[q] = IF q = r THEN stage ELSE serving[q]
  BY DEF At, RolesTypeOK
<1> QED
  BY <1>1 DEF InProgress

\* One that starts a bootstrap.
LEMMA OneMore ==
  ASSUME NEW r \in Requests, RolesTypeOK, At(r, "checked"),
         serving[r] \notin {"checked", "granting"}
  PROVE  InProgress' # {} /\ Cardinality(InProgress') = Cardinality(InProgress) + 1
<1>1. \A q \in Requests : serving'[q] = IF q = r THEN "checked" ELSE serving[q]
  BY DEF At, RolesTypeOK
<1>2. InProgress' = InProgress \cup {r} /\ r \notin InProgress
  BY <1>1 DEF InProgress
<1> QED
  BY <1>2, CountIsNatural, FS_AddElement

\* One that ends a bootstrap.
LEMMA OneLess ==
  ASSUME NEW r \in Requests, RolesTypeOK, At(r, "idle"),
         serving[r] \in {"checked", "granting"}
  PROVE  Cardinality(InProgress') = Cardinality(InProgress) - 1
<1>1. \A q \in Requests : serving'[q] = IF q = r THEN "idle" ELSE serving[q]
  BY DEF At, RolesTypeOK
<1>2. InProgress' = InProgress \ {r} /\ r \in InProgress
  BY <1>1 DEF InProgress
<1> QED
  BY <1>2, CountIsNatural, FS_RemoveElement

-----------------------------------------------------------------------------
(* The parts of the invariant a step cannot break by itself.               *)

LEMMA TypesKept ==
  ASSUME RolesTypeOK, TargetsExist, RolesNext
  PROVE  RolesTypeOK' /\ TargetsExist'
<1> USE DEF RolesTypeOK, TargetsExist, At, Reads, Stages, Roles, Assignable
<1>1. ASSUME NEW u \in Accounts, CreateAccount(u) PROVE RolesTypeOK' /\ TargetsExist'
  BY <1>1 DEF CreateAccount
<1>2. ASSUME NEW r \in Requests, FindUser(r) PROVE RolesTypeOK' /\ TargetsExist'
  BY <1>2 DEF FindUser
<1>3. ASSUME NEW r \in Requests, Grant(r) PROVE RolesTypeOK' /\ TargetsExist'
  BY <1>3 DEF Grant
<1>4. ASSUME NEW r \in Requests, Authorize(r) PROVE RolesTypeOK' /\ TargetsExist'
  BY <1>4 DEF Authorize
<1>5. ASSUME NEW r \in Requests, Assign(r) PROVE RolesTypeOK' /\ TargetsExist'
  BY <1>5 DEF Assign, Writes
<1>6. ASSUME NEW r \in Requests, RemoveRole(r) PROVE RolesTypeOK' /\ TargetsExist'
  <2>1. CASE stale[r]
    BY <1>6, <2>1 DEF RemoveRole
  <2>2. CASE ~stale[r]
    <3>1. stale' \in [Requests -> BOOLEAN]
      BY <1>6, <2>2 DEF RemoveRole
    <3>2. role' = [role EXCEPT ![target[r]] = "none"] /\ vacancies' \in Nat
      BY <1>6, <2>2 DEF RemoveRole, Writes
    <3> QED
      BY <1>6, <2>2, <3>1, <3>2 DEF RemoveRole
  <2> QED
    BY <2>1, <2>2
<1>7. ASSUME NEW r \in Requests, NEW u \in Accounts, CheckNoAdmin(r, u)
      PROVE  RolesTypeOK' /\ TargetsExist'
  BY <1>7 DEF CheckNoAdmin
<1>8. ASSUME NEW r \in Requests, NEW u \in Accounts, StartRemove(r, u)
      PROVE  RolesTypeOK' /\ TargetsExist'
  BY <1>8 DEF StartRemove
<1>9. ASSUME NEW r \in Requests, NEW u \in Accounts, Refuse(r, u)
      PROVE  RolesTypeOK' /\ TargetsExist'
  BY <1>9 DEF Refuse
<1>10. ASSUME NEW r \in Requests, NEW u \in Accounts, NEW new \in Assignable,
              StartAssign(r, u, new)
       PROVE  RolesTypeOK' /\ TargetsExist'
  BY <1>10 DEF StartAssign
<1> QED
  BY <1>1, <1>2, <1>3, <1>4, <1>5, <1>6, <1>7, <1>8, <1>9, <1>10 DEF RolesNext

-----------------------------------------------------------------------------
(* The counting.                                                           *)

Counted == TakenPaidFor /\ SparePaidFor

\* A request reads, or ends without a trace, outside a bootstrap.
LEMMA QuietStep ==
  ASSUME NEW r \in Requests, NEW stage, RolesTypeOK, Counted, At(r, stage),
         serving[r] \notin {"checked", "granting"}, stage \notin {"checked", "granting"},
         UNCHANGED <<role, grants, overlaps, vacancies>>,
         \A q \in Requests : q # r => seen'[q] = seen[q]
  PROVE  Counted'
<1>1. InProgress' = InProgress /\ Admins' = Admins
  BY SameCount DEF Admins
<1>2. \A q \in Requests : serving'[q] = "granting" => serving[q] = "granting" /\ q # r
  BY DEF At, RolesTypeOK
<1>3. Spared' => Spared
  BY <1>1, <1>2 DEF Spared
<1>4. Taken' = Taken
  BY <1>1 DEF Taken
<1> QED
  BY <1>3, <1>4 DEF Counted, TakenPaidFor, SparePaidFor

\* A request outside a bootstrap changes u's role.  Losing the last admin is a
\* vacancy; without that, there is an admin after the step or none before it.
LEMMA WriteStep ==
  ASSUME NEW r \in Requests, NEW u \in Accounts, NEW new \in Roles,
         RolesTypeOK, Counted, At(r, "idle"),
         serving[r] \notin {"checked", "granting"},
         Writes(u, new), UNCHANGED <<seen, grants, overlaps>>
  PROVE  Counted'
<1>1. InProgress' = InProgress
  BY SameCount
<1>2. Taken' = Taken /\ Taken \in Nat /\ overlaps \in Nat /\ vacancies \in Nat
  BY <1>1, CountIsNatural DEF Taken, RolesTypeOK
<1>3. CASE Admins = {u} /\ new # "admin"
  <2>1. vacancies' = vacancies + 1
    BY <1>3 DEF Writes
  <2> QED
    BY <1>2, <2>1 DEF Counted, TakenPaidFor, SparePaidFor
<1>4. CASE ~(Admins = {u} /\ new # "admin")
  <2>1. vacancies' = vacancies
    BY <1>4 DEF Writes
  <2>2. role' = [role EXCEPT ![u] = new]
    BY DEF Writes
  <2>3. Admins' = {} => Admins = {}
    BY <1>4, <2>2 DEF Admins, RolesTypeOK
  <2>4. \A q \in Requests : serving'[q] = "granting" => serving[q] = "granting"
    BY DEF At, RolesTypeOK
  <2>5. Spared' => Spared
    BY <1>1, <2>3, <2>4 DEF Spared
  <2> QED
    BY <1>2, <2>1, <2>5 DEF Counted, TakenPaidFor, SparePaidFor
<1> QED
  BY <1>3, <1>4

LEMMA StartCounted ==
  ASSUME NEW r \in Requests, NEW u \in Accounts, RolesTypeOK, Counted, CheckNoAdmin(r, u)
  PROVE  Counted'
<1>1. At(r, "checked") /\ serving[r] = "idle"
  BY DEF CheckNoAdmin
<1>2. InProgress' # {} /\ Cardinality(InProgress') = Cardinality(InProgress) + 1
  BY <1>1, OneMore
<1>3. Cardinality(InProgress) \in Nat /\ grants \in Nat /\ overlaps \in Nat
      /\ vacancies \in Nat
  BY CountIsNatural DEF RolesTypeOK
<1>4. Admins = {} /\ Admins' = {} /\ seen' = seen /\ grants' = grants
      /\ vacancies' = vacancies
  BY DEF CheckNoAdmin, Admins
<1>5. Taken' = Taken + 1
  BY <1>2, <1>3, <1>4 DEF Taken
<1>6. CASE InProgress = {}
  <2>1. overlaps' = overlaps
    BY <1>6 DEF CheckNoAdmin
  <2>2. Taken <= overlaps + vacancies
    BY <1>4, <1>6 DEF Counted, SparePaidFor, Spared
  <2>3. ~Spared'
    <3>1. \A q \in Requests : serving'[q] # "granting"
      BY <1>1, <1>6 DEF InProgress, At, RolesTypeOK
    <3> QED
      BY <1>2, <3>1 DEF Spared
  <2> QED
    BY <1>3, <1>4, <1>5, <2>1, <2>2, <2>3, CountIsNatural
    DEF Counted, TakenPaidFor, SparePaidFor
<1>7. CASE InProgress # {}
  <2>1. overlaps' = overlaps + 1
    BY <1>7 DEF CheckNoAdmin
  <2>2. Spared' => Spared
    <3>1. \A q \in Requests : serving'[q] = "granting" => serving[q] = "granting"
      BY <1>1 DEF At, RolesTypeOK
    <3> QED
      BY <1>2, <1>4, <3>1 DEF Spared
  <2> QED
    BY <1>3, <1>4, <1>5, <2>1, <2>2, CountIsNatural
    DEF Counted, TakenPaidFor, SparePaidFor
<1> QED
  BY <1>6, <1>7

LEMMA FindCounted ==
  ASSUME NEW r \in Requests, RolesTypeOK, Counted, FindUser(r)
  PROVE  Counted'
<1>1. Cardinality(InProgress) \in Nat /\ grants \in Nat /\ overlaps \in Nat
      /\ vacancies \in Nat /\ Taken \in Nat
  BY CountIsNatural DEF RolesTypeOK
<1>2. UNCHANGED <<role, grants, overlaps, vacancies>> /\ Admins' = Admins
  BY DEF FindUser, Admins
<1>3. CASE target[r] \in accounts
  <2>1. At(r, "granting") /\ serving[r] = "checked"
    BY <1>3 DEF FindUser
  <2>2. InProgress' = InProgress /\ InProgress # {}
    BY <2>1, SameCount DEF InProgress
  <2>3. Taken' = Taken
    BY <1>2, <2>2 DEF Taken
  <2>4. Spared' => Spared
    <3>1. seen' = [seen EXCEPT ![r] = role[target[r]]]
      BY DEF FindUser, Reads
    <3>2. seen'[r] = role[target[r]] /\ \A q \in Requests : q # r => seen'[q] = seen[q]
      BY <3>1 DEF RolesTypeOK
    <3>3. seen'[r] = "admin" => Admins # {}
      BY <3>2 DEF Admins, RolesTypeOK
    <3>4. \A q \in Requests : q # r /\ serving'[q] = "granting" => serving[q] = "granting"
      BY <2>1 DEF At, RolesTypeOK
    <3> QED
      BY <1>2, <2>2, <3>2, <3>3, <3>4 DEF Spared
  <2> QED
    BY <1>2, <2>3, <2>4 DEF Counted, TakenPaidFor, SparePaidFor
<1>4. CASE target[r] \notin accounts
  <2>1. At(r, "idle") /\ serving[r] = "checked"
    BY <1>4 DEF FindUser
  <2>2. Cardinality(InProgress') = Cardinality(InProgress) - 1
    BY <2>1, OneLess
  <2>3. Taken' = Taken - 1
    BY <1>1, <1>2, <2>2 DEF Taken
  <2> QED
    BY <1>1, <1>2, <2>3 DEF Counted, TakenPaidFor, SparePaidFor
<1> QED
  BY <1>3, <1>4

LEMMA GrantCounted ==
  ASSUME NEW r \in Requests, RolesTypeOK, Counted, Grant(r)
  PROVE  Counted'
<1>1. Cardinality(InProgress) \in Nat /\ grants \in Nat /\ overlaps \in Nat
      /\ vacancies \in Nat /\ Taken \in Nat
  BY CountIsNatural DEF RolesTypeOK
<1>2. At(r, "idle") /\ serving[r] = "granting" /\ UNCHANGED <<seen, overlaps, vacancies>>
  BY DEF Grant
<1>3. Cardinality(InProgress') = Cardinality(InProgress) - 1
  BY <1>2, OneLess
<1>4. CASE CommitFails(r, "admin")
  <2>1. Taken' = Taken - 1
    BY <1>1, <1>3, <1>4 DEF Taken, Grant
  <2> QED
    BY <1>1, <1>2, <2>1 DEF Counted, TakenPaidFor, SparePaidFor
<1>5. CASE ~CommitFails(r, "admin")
  <2>1. Taken' = Taken
    BY <1>1, <1>3, <1>5 DEF Taken, Grant
  <2>2. CASE seen[r] = "admin"
    <3>1. Admins' = Admins
      BY <1>5, <2>2 DEF Grant, Admins
    <3>2. Spared' => Spared
      BY <1>2, <2>2, <3>1 DEF Spared
    <3> QED
      BY <1>1, <1>2, <2>1, <3>2 DEF Counted, TakenPaidFor, SparePaidFor
  <2>3. CASE seen[r] # "admin"
    <3>1. role' = [role EXCEPT ![target[r]] = "admin"] /\ target[r] \in Accounts
      BY <1>5, <2>3 DEF Grant, RolesTypeOK
    <3>2. Admins' # {}
      BY <3>1 DEF Admins, RolesTypeOK
    <3> QED
      BY <1>1, <1>2, <2>1, <3>2 DEF Counted, TakenPaidFor, SparePaidFor, Spared
  <2> QED
    BY <2>2, <2>3
<1> QED
  BY <1>4, <1>5

-----------------------------------------------------------------------------

LEMMA CountedKept ==
  ASSUME RolesTypeOK, Counted, RolesNext
  PROVE  Counted'
<1>1. ASSUME NEW u \in Accounts, CreateAccount(u) PROVE Counted'
  <2>1. UNCHANGED <<role, serving, seen, grants, overlaps, vacancies>>
    BY <1>1 DEF CreateAccount
  <2> QED
    BY <2>1 DEF Counted, TakenPaidFor, SparePaidFor, Taken, Spared, Admins, InProgress
<1>2. ASSUME NEW r \in Requests, Authorize(r) PROVE Counted'
  BY <1>2, QuietStep DEF Authorize
<1>3. ASSUME NEW r \in Requests, Assign(r) PROVE Counted'
  <2>1. CASE CommitFails(r, serving[r]) \/ seen[r] = serving[r]
    <3>1. At(r, "idle") /\ serving[r] \notin {"checked", "granting"}
          /\ UNCHANGED <<role, seen, grants, overlaps, vacancies>>
      BY <1>3, <2>1 DEF Assign, Assignable
    <3> QED
      BY <3>1, QuietStep
  <2>2. CASE ~(CommitFails(r, serving[r]) \/ seen[r] = serving[r])
    <3>1. At(r, "idle") /\ serving[r] \notin {"checked", "granting"}
          /\ serving[r] \in Roles /\ target[r] \in Accounts
      BY <1>3 DEF Assign, Assignable, Roles, RolesTypeOK
    <3>2. Writes(target[r], serving[r]) /\ UNCHANGED <<seen, grants, overlaps>>
      BY <1>3, <2>2 DEF Assign
    <3> QED
      BY <3>1, <3>2, WriteStep
  <2> QED
    BY <2>1, <2>2
<1>4. ASSUME NEW r \in Requests, RemoveRole(r) PROVE Counted'
  <2>1. At(r, "idle") /\ serving[r] = "removing" /\ UNCHANGED <<seen, grants, overlaps>>
    BY <1>4 DEF RemoveRole
  <2>2. CASE stale[r]
    <3>1. UNCHANGED <<role, vacancies>>
      BY <1>4, <2>2 DEF RemoveRole
    <3> QED
      BY <2>1, <3>1, QuietStep
  <2>3. CASE ~stale[r]
    <3>1. Writes(target[r], "none") /\ target[r] \in Accounts /\ "none" \in Roles
      BY <1>4, <2>3 DEF RemoveRole, RolesTypeOK, Roles
    <3> QED
      BY <2>1, <3>1, WriteStep
  <2> QED
    BY <2>2, <2>3
<1>5. ASSUME NEW r \in Requests, NEW u \in Accounts, StartRemove(r, u) PROVE Counted'
  <2>1. \A q \in Requests : q # r => seen'[q] = seen[q]
    BY <1>5 DEF StartRemove, Reads, RolesTypeOK
  <2> QED
    BY <1>5, <2>1, QuietStep DEF StartRemove
<1>6. ASSUME NEW r \in Requests, NEW u \in Accounts, Refuse(r, u) PROVE Counted'
  BY <1>6, QuietStep DEF Refuse
<1>7. ASSUME NEW r \in Requests, NEW u \in Accounts, NEW new \in Assignable,
             StartAssign(r, u, new)
      PROVE  Counted'
  <2>1. \A q \in Requests : q # r => seen'[q] = seen[q]
    BY <1>7 DEF StartAssign, Reads, RolesTypeOK
  <2> QED
    BY <1>7, <2>1, QuietStep DEF StartAssign, Assignable
<1> QED
  BY <1>1, <1>2, <1>3, <1>4, <1>5, <1>6, <1>7, FindCounted, GrantCounted, StartCounted
  DEF RolesNext

\* What the invariant says at the start.
LEMMA RolesInvInit ==
  RolesInit => RolesInv
<1> SUFFICES ASSUME RolesInit PROVE RolesInv
  OBVIOUS
<1>1. RolesTypeOK /\ TargetsExist
  BY DEF RolesInit, RolesTypeOK, TargetsExist, Roles, Stages, Assignable
<1>2. InProgress = {}
  BY DEF RolesInit, InProgress
<1>3. Taken = 0
  BY <1>2, FS_EmptySet DEF Taken, RolesInit
<1> QED
  BY <1>1, <1>3 DEF RolesInv, TakenPaidFor, SparePaidFor, RolesInit

\* The rows and requests stay what they should be, for any users and requests.
THEOREM RolesTypes ==
  RolesSpec => []RolesTypeOK
<1>1. RolesTypeOK /\ TargetsExist /\ [RolesNext]_roleVars => (RolesTypeOK /\ TargetsExist)'
  <2>1. ASSUME RolesTypeOK, TargetsExist, UNCHANGED roleVars
        PROVE  (RolesTypeOK /\ TargetsExist)'
    BY <2>1 DEF roleVars, RolesTypeOK, TargetsExist
  <2> QED
    BY <2>1, TypesKept
<1> QED
  BY <1>1, RolesInvInit, PTL DEF RolesSpec, RolesInv

\* The bootstrap succeeds once, and once more for each bootstrap beside another and
\* each time the last admin lost the role: for any number of users and requests.
THEOREM BootstrapsArePaidForHolds ==
  RolesSpec => []BootstrapsArePaidFor
<1>1. RolesInv /\ [RolesNext]_roleVars => RolesInv'
  <2>1. ASSUME RolesInv, RolesNext PROVE RolesInv'
    BY <2>1, TypesKept, CountedKept DEF RolesInv, Counted
  <2>2. ASSUME RolesInv, UNCHANGED roleVars PROVE RolesInv'
    BY <2>2 DEF roleVars, RolesInv, RolesTypeOK, TargetsExist, TakenPaidFor, SparePaidFor,
                Taken, Spared, Admins, InProgress
  <2> QED
    BY <2>1, <2>2
<1>2. RolesInv => BootstrapsArePaidFor
  <2> SUFFICES ASSUME RolesInv PROVE BootstrapsArePaidFor
    OBVIOUS
  <2>1. Cardinality(InProgress) \in Nat /\ Taken \in Nat
    BY CountIsNatural DEF RolesInv
  <2> QED
    BY <2>1 DEF RolesInv, RolesTypeOK, TakenPaidFor, Taken, BootstrapsArePaidFor
<1> QED
  BY <1>1, <1>2, RolesInvInit, PTL DEF RolesSpec
=============================================================================

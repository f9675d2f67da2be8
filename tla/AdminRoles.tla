------------------------------ MODULE AdminRoles ------------------------------
(***************************************************************************)
(* Roles: create_first_admin of app/modules/admin/presentation/            *)
(* bootstrap.py, and assign_role and remove_role of                        *)
(* application/role_service.py behind role_management.py.                  *)
(*                                                                         *)
(* A request has a session of its own, and reads, decides and commits in   *)
(* separate statements; require_role has yet another one before.  A user   *)
(* has one row in user_roles (unique user_id).  The session writes a role  *)
(* only when it differs from the one it read.                              *)
(***************************************************************************)
EXTENDS Naturals, FiniteSets

CONSTANTS
  Accounts,       \* ids of users
  Requests,       \* requests that are served at the same time
  MaxBootstraps,  \* bound: bootstraps that pass the check
  MaxOverlaps,    \* bound: of them, those beside another
  MaxVacancies    \* bound: times the last admin loses the role

ASSUME RolesAssumption ==
  /\ IsFiniteSet(Requests) /\ MaxBootstraps \in Nat
  /\ MaxOverlaps \in Nat /\ MaxVacancies \in Nat

VARIABLES
  accounts,    \* rows of users
  role,        \* rows of user_roles: "none" is no row
  serving,     \* what each request is at
  target,      \* the user it is about
  seen,        \* the role it has read of that user
  stale,       \* the row it has read was deleted since
  grants,      \* successful bootstraps
  overlaps,    \* bootstraps that passed the check beside another
  vacancies    \* times the last admin lost the role

roleVars == <<accounts, role, serving, target, seen, stale, grants, overlaps, vacancies>>

Assignable == {"viewer", "admin"}
Roles      == Assignable \cup {"none"}
Stages     == Assignable \cup {"idle", "checked", "granting", "authorized", "removing"}

RolesTypeOK ==
  /\ accounts \subseteq Accounts
  /\ role \in [Accounts -> Roles]
  /\ \A u \in Accounts \ accounts : role[u] = "none"
  /\ serving \in [Requests -> Stages]
  /\ target \in [Requests -> Accounts]
  /\ seen \in [Requests -> Roles] /\ stale \in [Requests -> BOOLEAN]
  /\ grants \in Nat /\ overlaps \in Nat /\ vacancies \in Nat

RolesInit ==
  /\ accounts = {}
  /\ role = [u \in Accounts |-> "none"]
  /\ serving = [r \in Requests |-> "idle"]
  /\ target \in {[r \in Requests |-> u] : u \in Accounts}
  /\ seen = [r \in Requests |-> "none"]
  /\ stale = [r \in Requests |-> FALSE]
  /\ grants = 0 /\ overlaps = 0 /\ vacancies = 0

Admins     == {u \in Accounts : role[u] = "admin"}
InProgress == {r \in Requests : serving[r] \in {"checked", "granting"}}

At(r, place) == serving' = [serving EXCEPT ![r] = place]

\* r reads the row of u.
Reads(r, u) ==
  /\ target' = [target EXCEPT ![r] = u]
  /\ seen' = [seen EXCEPT ![r] = role[u]]
  /\ stale' = [stale EXCEPT ![r] = FALSE]

\* The commit fails: an insert beside another one, an update of a deleted row.
CommitFails(r, new) ==
  \/ seen[r] = "none" /\ role[target[r]] # "none"
  \/ seen[r] \notin {"none", new} /\ stale[r]

\* It changes u's row to new; with "none" the row is deleted.
Writes(u, new) ==
  /\ role' = [role EXCEPT ![u] = new]
  /\ IF Admins = {u} /\ new # "admin"
     THEN vacancies < MaxVacancies /\ vacancies' = vacancies + 1
     ELSE UNCHANGED vacancies

\* create_user of user_management.py, or a registration.
CreateAccount(u) ==
  /\ u \notin accounts
  /\ accounts' = accounts \cup {u}
  /\ UNCHANGED <<role, serving, target, seen, stale, grants, overlaps, vacancies>>

\* Mutant: the bootstrap does not ask for an admin.
CheckNoAdminDropped(r, u) ==
  /\ serving[r] = "idle" /\ grants + Cardinality(InProgress) < MaxBootstraps
  /\ InProgress = {} \/ overlaps < MaxOverlaps
  /\ At(r, "checked")
  /\ target' = [target EXCEPT ![r] = u]
  /\ overlaps' = IF InProgress = {} THEN overlaps ELSE overlaps + 1
  /\ UNCHANGED <<accounts, role, seen, stale, grants, vacancies>>

\* create_first_admin, with a valid token, up to the query for an admin.
CheckNoAdmin(r, u) ==
  /\ serving[r] = "idle" /\ Admins = {}
  /\ grants + Cardinality(InProgress) < MaxBootstraps
  /\ InProgress = {} \/ overlaps < MaxOverlaps
  /\ At(r, "checked")
  /\ target' = [target EXCEPT ![r] = u]
  /\ overlaps' = IF InProgress = {} THEN overlaps ELSE overlaps + 1
  /\ UNCHANGED <<accounts, role, seen, stale, grants, vacancies>>

\* Its queries for the user (404 without one) and for the role of that user.
FindUser(r) ==
  /\ serving[r] = "checked"
  /\ IF target[r] \in accounts THEN At(r, "granting") ELSE At(r, "idle")
  /\ Reads(r, target[r])
  /\ UNCHANGED <<accounts, role, grants, overlaps, vacancies>>

Grant(r) ==
  /\ serving[r] = "granting"
  /\ At(r, "idle")
  /\ IF CommitFails(r, "admin") THEN UNCHANGED <<role, grants>>
     ELSE /\ grants' = grants + 1
          /\ role' = IF seen[r] = "admin" THEN role
                     ELSE [role EXCEPT ![target[r]] = "admin"]
  /\ UNCHANGED <<accounts, target, seen, stale, overlaps, vacancies>>

\* require_role("admin"): the caller is an admin at this moment.
Authorize(r) ==
  /\ serving[r] = "idle" /\ Admins # {}
  /\ At(r, "authorized")
  /\ UNCHANGED <<accounts, role, target, seen, stale, grants, overlaps, vacancies>>

\* assign_role up to its commit, and the commit.  Nothing keeps the last admin.
StartAssign(r, u, new) ==
  /\ serving[r] = "authorized" /\ u \in accounts
  /\ At(r, new)
  /\ Reads(r, u)
  /\ UNCHANGED <<accounts, role, grants, overlaps, vacancies>>
Assign(r) ==
  /\ serving[r] \in Assignable
  /\ At(r, "idle")
  /\ IF CommitFails(r, serving[r]) \/ seen[r] = serving[r]
     THEN UNCHANGED <<role, vacancies>> ELSE Writes(target[r], serving[r])
  /\ UNCHANGED <<accounts, target, seen, stale, grants, overlaps>>

\* Neither function goes on without the user, or without the row to remove.
Refuse(r, u) ==
  /\ serving[r] = "authorized" /\ (u \notin accounts \/ role[u] = "none")
  /\ At(r, "idle")
  /\ UNCHANGED <<accounts, role, target, seen, stale, grants, overlaps, vacancies>>

\* remove_role; a row that is gone at the commit is only a warning.
StartRemove(r, u) ==
  /\ serving[r] = "authorized" /\ role[u] # "none"
  /\ At(r, "removing")
  /\ Reads(r, u)
  /\ UNCHANGED <<accounts, role, grants, overlaps, vacancies>>
RemoveRole(r) ==
  /\ serving[r] = "removing"
  /\ At(r, "idle")
  /\ IF stale[r] THEN UNCHANGED <<role, stale, vacancies>>
     ELSE /\ Writes(target[r], "none")
          /\ stale' = [q \in Requests |-> stale[q] \/ target[q] = target[r]]
  /\ UNCHANGED <<accounts, target, seen, grants, overlaps>>

RolesNext ==
  \/ \E u \in Accounts : CreateAccount(u)
  \/ \E r \in Requests :
       \/ FindUser(r) \/ Grant(r) \/ Authorize(r) \/ Assign(r) \/ RemoveRole(r)
       \/ \E u \in Accounts :
            CheckNoAdmin(r, u) \/ StartRemove(r, u) \/ Refuse(r, u)
            \/ \E new \in Assignable : StartAssign(r, u, new)

RolesSpec == RolesInit /\ [][RolesNext]_roleVars

-----------------------------------------------------------------------------
(* What must hold.                                                         *)

\* "Only works if no admin exists yet": a second bootstrap succeeds only beside
\* another one that had passed the check, or after the last admin was removed.
BootstrapsArePaidFor == grants <= 1 + overlaps + vacancies
=============================================================================

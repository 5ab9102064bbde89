-------------------------------- MODULE Members --------------------------------
(***************************************************************************)
(* Who may manage a tenant: memberships, invites and claims, from          *)
(* internal/api/members.go and internal/store/members.go.  The handlers    *)
(* authorise with one query and then act in another transaction, and the   *)
(* transactions interleave under PostgreSQL's READ COMMITTED row locks;    *)
(* one action is one statement, or a last statement with its COMMIT.       *)
(*                                                                         *)
(* A request is a slot that returns to "idle" when it is answered: any     *)
(* number of requests are made, at most |Requests| of them at a time.      *)
(* A request refused before it changed anything is a step of no one: only  *)
(* the refusals that release locks are actions.                            *)
(***************************************************************************)
EXTENDS Naturals, FiniteSets

CONSTANTS
    Tenants, NoTenant,
    Users, NoUser,      \* OIDC subjects
    Invites, NoInvite,  \* invite codes
    UsesLimit,          \* the largest max_uses of an invite (100 in createInvite)
    Requests,
    Eligible            \* a bound, not code: <<t, u>> when u may get into t

ASSUME MembersAssumption ==
    /\ NoTenant \notin Tenants
    /\ NoUser \notin Users
    /\ NoInvite \notin Invites
    /\ UsesLimit \in Nat
    /\ Eligible \subseteq Tenants \X Users

VARIABLES
    \* committed rows
    tenants,            \* the rows of tenants
    role,               \* role[t][u]: tenant_members.role, "none" without a row
    offer,              \* tenant_invites: what an invite offers, or NoInvite
    invUses,            \* tenant_invites.uses
    expired,            \* invites whose expires_at has passed
    \* requests
    pc,                 \* what the request does cursor
    at, row,            \* the tenant, and the user whose row it is about
    inv,                \* the invite it redeems
    locked,             \* the rows of tenant_members it has locked
    left, cursor        \* rows its statement has still to lock; the next one

tables == <<tenants, role, offer, invUses, expired>>
vars == <<tenants, role, offer, invUses, expired, pc, at, row, inv, locked, left, cursor>>

Roles == {"owner", "member"}
Points == {"idle",
           "mayRemove", "targetLocked", "counting", "counted",  \* RemoveMember
           "refreshing",                                        \* ListMemberships
           "mayInvite",                                         \* CreateInvite
           "begun", "inviteLocked", "joined",                   \* AcceptInvite
           "mayClaim", "tenantLocked", "vacant"}                \* ClaimTenant
Offers == [tenant : Tenants, role : Roles, max : 1..UsesLimit]

Owners(t) == {u \in Users : role[t][u] = "owner"}
Team(t) == {u \in Users : role[t][u] # "none"}

Rows == Tenants \X Users
NoRow == <<NoTenant, NoUser>>
Row(r) == <<at[r], row[r]>>
OwnerRows(t) == {t} \X Owners(t)

Init ==
    /\ tenants = {}
    /\ role = [t \in Tenants |-> [u \in Users |-> "none"]]
    /\ offer = [i \in Invites |-> NoInvite]
    /\ invUses = [i \in Invites |-> 0]
    /\ expired = {}
    /\ pc = [r \in Requests |-> "idle"]
    /\ at = [r \in Requests |-> NoTenant]
    /\ row = [r \in Requests |-> NoUser]
    /\ inv = [r \in Requests |-> NoInvite]
    /\ locked = [r \in Requests |-> {}]
    /\ left = [r \in Requests |-> {}]
    /\ cursor = [r \in Requests |-> NoRow]
-------------------------------------------------------------------------------
(* Row locks. *)

HoldsInvite(r, i) == pc[r] \in {"inviteLocked", "joined"} /\ inv[r] = i

\* A bug: the member is inserted before the invite is locked.
BugInsertsFirst(r, t) == pc[r] \in {"begun", "inviteLocked", "joined"} /\ at[r] = t

\* ClaimTenant's FOR UPDATE, and the KEY SHARE lock of a foreign key to tenants.
HoldsTenant(r, t) == pc[r] \in {"tenantLocked", "vacant"} /\ at[r] = t
SharesTenant(r, t) == pc[r] = "joined" /\ at[r] = t

\* The statements that lock several rows, one by one.
Scanning == {"counting", "refreshing"}

\* r waits for a lock, or for the uncommitted row, of q.  The INSERT of an accept
\* waits for a version of the user's row that is not committed, not for FOR UPDATE.
Waits(r, q) ==
    /\ q # r
    /\ \/ pc[r] = "mayRemove" /\ Row(r) \in locked[q]
       \/ pc[r] \in Scanning /\ cursor[r] \in left[r] \cap locked[q]
       \/ pc[r] = "mayInvite" /\ HoldsTenant(q, at[r])
       \/ pc[r] = "begun" /\ HoldsInvite(q, inv[r])
       \/ /\ pc[r] = "inviteLocked" /\ row[r] \notin Team(at[r])
          /\ HoldsTenant(q, at[r]) \/ (SharesTenant(q, at[r]) /\ row[q] = row[r])
       \/ /\ pc[r] = "inviteLocked" /\ row[r] \in Team(at[r])
          /\ pc[q] = "refreshing" /\ Row(r) \in locked[q]
       \/ pc[r] = "mayClaim" /\ (HoldsTenant(q, at[r]) \/ SharesTenant(q, at[r]))

CanLock(r) == \A q \in Requests : ~Waits(r, q)

Become(r, point) == pc' = [pc EXCEPT ![r] = point]

\* Commit or roll back: the request is answered and its locks are gone.
End(r) ==
    /\ Become(r, "idle")
    /\ at' = [at EXCEPT ![r] = NoTenant]
    /\ row' = [row EXCEPT ![r] = NoUser]
    /\ inv' = [inv EXCEPT ![r] = NoInvite]
    /\ locked' = [locked EXCEPT ![r] = {}]
    /\ cursor' = [cursor EXCEPT ![r] = NoRow]

Ask(r, point, t, u, i) ==
    /\ pc[r] = "idle"
    /\ Become(r, point)
    /\ at' = [at EXCEPT ![r] = t]
    /\ row' = [row EXCEPT ![r] = u]
    /\ inv' = [inv EXCEPT ![r] = i]
    /\ UNCHANGED <<tables, locked, left, cursor>>

\* The rows a statement of r has still to lock, in the order of its scan.
Scan(r, rows) ==
    /\ left' = [left EXCEPT ![r] = rows]
    /\ IF rows = {} THEN cursor' = cursor
       ELSE \E m \in rows : cursor' = [cursor EXCEPT ![r] = m]

LockRow(r) ==
    /\ pc[r] \in Scanning
    /\ cursor[r] \in left[r]
    /\ CanLock(r)
    /\ locked' = [locked EXCEPT ![r] = @ \cup {cursor[r]}]
    /\ Scan(r, left[r] \ {cursor[r]})
    /\ UNCHANGED <<tables, pc, at, row, inv>>

\* The row it waited for is not the statement's any more: the scan goes on.
SkipRow(r) ==
    /\ pc[r] \in Scanning
    /\ left[r] # {} /\ cursor[r] \notin left[r]
    /\ Scan(r, left[r])
    /\ UNCHANGED <<tables, pc, at, row, inv, locked>>
-------------------------------------------------------------------------------
(* createTenant (no owner) and createMyTenant. *)

CreateTenant(t) ==
    /\ t \notin tenants
    /\ tenants' = tenants \cup {t}
    /\ UNCHANGED <<role, offer, invUses, expired, pc, at, row, inv, locked, left, cursor>>

CreateOwnedTenant(t, u) ==
    /\ <<t, u>> \in Eligible
    /\ t \notin tenants
    /\ tenants' = tenants \cup {t}
    /\ role' = [role EXCEPT ![t][u] = "owner"]
    /\ UNCHANGED <<offer, invUses, expired, pc, at, row, inv, locked, left, cursor>>
-------------------------------------------------------------------------------
(* removeMember.  The caller's role is read before the transaction. *)

AuthoriseRemove(r, t, caller, target) ==
    /\ caller \in Team(t)
    /\ target = caller \/ role[t][caller] = "owner"
    /\ Ask(r, "mayRemove", t, target, NoInvite)

\* SELECT role ... FOR UPDATE on the target's row.
LockTarget(r) ==
    /\ pc[r] = "mayRemove"
    /\ CanLock(r)
    /\ row[r] \in Team(at[r])
    /\ Become(r, "targetLocked")
    /\ locked' = [locked EXCEPT ![r] = {Row(r)}]
    /\ UNCHANGED <<tables, at, row, inv, left, cursor>>

NoSuchMember(r) ==
    /\ pc[r] = "mayRemove"
    /\ row[r] \notin Team(at[r])
    /\ End(r)
    /\ UNCHANGED <<tables, left>>

\* A bug: the count reads the owners without locking them.
BugCountUnlocked(r) ==
    /\ pc[r] = "targetLocked"
    /\ role[at[r]][row[r]] = "owner"
    /\ Become(r, "counting")
    /\ locked' = [locked EXCEPT ![r] = OwnerRows(at[r])]
    /\ UNCHANGED <<tables, at, row, inv, left, cursor>>

\* SELECT count(*) over the owners FOR UPDATE: those its snapshot shows are locked.
StartCount(r) ==
    /\ pc[r] = "targetLocked"
    /\ role[at[r]][row[r]] = "owner"
    /\ Become(r, "counting")
    /\ Scan(r, OwnerRows(at[r]))
    /\ UNCHANGED <<tables, at, row, inv, locked>>

\* A bug: off by one.
BugEnoughOwners(r) == Cardinality(locked[r]) >= 1

EnoughOwners(r) == Cardinality(locked[r]) > 1

LastOwner(r) ==
    /\ pc[r] = "counting" /\ left[r] = {}
    /\ ~EnoughOwners(r)
    /\ End(r)
    /\ UNCHANGED <<tables, left>>

CountEnough(r) ==
    /\ pc[r] = "counting" /\ left[r] = {}
    /\ EnoughOwners(r)
    /\ Become(r, "counted")
    /\ UNCHANGED <<tables, at, row, inv, locked, left, cursor>>

\* DELETE and COMMIT.  Scans that have still to lock the row will not find it.
Delete(r) ==
    /\ pc[r] = "counted" \/ (pc[r] = "targetLocked" /\ role[at[r]][row[r]] = "member")
    /\ role' = [role EXCEPT ![at[r]][row[r]] = "none"]
    /\ left' = [q \in Requests |-> left[q] \ {Row(r)}]
    /\ End(r)
    /\ UNCHANGED <<tenants, offer, invUses, expired>>
-------------------------------------------------------------------------------
(* myTenants: ListMemberships gives the user's rows, in all tenants, the email *)
(* and the name of the session, which no table here has.                    *)

\* The rows that have another email or name, one UPDATE's, which commits by itself.
\* Without such a row there is nothing to lock.
Refresh(r, u) ==
    /\ pc[r] = "idle"
    /\ Become(r, "refreshing")
    /\ row' = [row EXCEPT ![r] = u]
    /\ \E S \in SUBSET {t \in Tenants : u \in Team(t)} : S # {} /\ Scan(r, S \X {u})
    /\ UNCHANGED <<tables, at, inv, locked>>

\* COMMIT.  Other sessions of the user that waited for the rows have the same email
\* and name, and do not update them again, or have others.
Refreshed(r) ==
    /\ pc[r] = "refreshing" /\ left[r] = {}
    /\ \E same \in SUBSET {q \in Requests : pc[q] = "refreshing" /\ row[q] = row[r]} :
          left' = [q \in Requests |-> IF q \in same THEN left[q] \ locked[r] ELSE left[q]]
    /\ End(r)
    /\ UNCHANGED tables
-------------------------------------------------------------------------------
(* createInvite. *)

\* A bound, not code: there are only as many invites as codes in Invites.
CodesLeft ==
    Cardinality({i \in Invites : offer[i] = NoInvite})
        > Cardinality({q \in Requests : pc[q] = "mayInvite"})

AuthoriseInvite(r, t, caller) ==
    /\ CodesLeft
    /\ role[t][caller] = "owner"
    /\ Ask(r, "mayInvite", t, NoUser, NoInvite)

CreateInvite(r, i, o) ==
    /\ pc[r] = "mayInvite"
    /\ CanLock(r)
    /\ offer[i] = NoInvite
    /\ o.tenant = at[r]
    /\ offer' = [offer EXCEPT ![i] = o]
    /\ End(r)
    /\ UNCHANGED <<tenants, role, invUses, expired, left>>

TimePasses(i) ==
    /\ offer[i] # NoInvite
    /\ expired' = expired \cup {i}
    /\ UNCHANGED <<tenants, role, offer, invUses, pc, at, row, inv, locked, left, cursor>>
-------------------------------------------------------------------------------
(* acceptInvite.  expires_at is compared with the beginning of the          *)
(* transaction, so one that begins in time may end late.                    *)

BeginAccept(r, u, i) ==
    /\ offer[i] # NoInvite
    /\ <<offer[i].tenant, u>> \in Eligible
    /\ i \notin expired
    /\ Ask(r, "begun", offer[i].tenant, u, i)

\* A bug: SELECT without FOR UPDATE.
BugReadInvite(r) ==
    /\ pc[r] = "begun"
    /\ invUses[inv[r]] < offer[inv[r]].max
    /\ Become(r, "inviteLocked")
    /\ UNCHANGED <<tables, at, row, inv, locked, left, cursor>>

LockInvite(r) ==
    /\ pc[r] = "begun"
    /\ CanLock(r)
    /\ invUses[inv[r]] < offer[inv[r]].max
    /\ Become(r, "inviteLocked")
    /\ UNCHANGED <<tables, at, row, inv, locked, left, cursor>>

InviteUsedUp(r) ==
    /\ pc[r] = "begun"
    /\ invUses[inv[r]] >= offer[inv[r]].max
    /\ End(r)
    /\ UNCHANGED <<tables, left>>

\* INSERT ... ON CONFLICT DO NOTHING, without a conflict.
InsertMember(r) ==
    /\ pc[r] = "inviteLocked"
    /\ CanLock(r)
    /\ row[r] \notin Team(at[r])
    /\ Become(r, "joined")
    /\ UNCHANGED <<tables, at, row, inv, locked, left, cursor>>

\* A bug: ON CONFLICT DO UPDATE.
BugOverwritesRole(r) ==
    /\ pc[r] = "inviteLocked"
    /\ row[r] \in Team(at[r])
    /\ role' = [role EXCEPT ![at[r]][row[r]] = offer[inv[r]].role]
    /\ End(r)
    /\ UNCHANGED <<tenants, offer, invUses, expired, left>>

\* A bug: an early return leaves the transaction open.
BugLeavesOpen(r) ==
    /\ pc[r] = "inviteLocked"
    /\ row[r] \in Team(at[r])
    /\ UNCHANGED vars

AlreadyMember(r) ==
    /\ pc[r] = "inviteLocked"
    /\ CanLock(r)
    /\ row[r] \in Team(at[r])
    /\ End(r)
    /\ UNCHANGED <<tables, left>>

\* UPDATE uses = uses + 1 and COMMIT.
CommitAccept(r) ==
    /\ pc[r] = "joined"
    /\ role' = [role EXCEPT ![at[r]][row[r]] = offer[inv[r]].role]
    /\ invUses' = [invUses EXCEPT ![inv[r]] = @ + 1]
    /\ End(r)
    /\ UNCHANGED <<tenants, offer, expired, left>>
-------------------------------------------------------------------------------
(* claimTenant. *)

AskClaim(r, t, u) ==
    /\ <<t, u>> \in Eligible
    /\ t \in tenants
    /\ Ask(r, "mayClaim", t, u, NoInvite)

\* A bug: SELECT id FROM tenants without FOR UPDATE.
BugReadTenant(r) ==
    /\ pc[r] = "mayClaim"
    /\ Become(r, "tenantLocked")
    /\ UNCHANGED <<tables, at, row, inv, locked, left, cursor>>

LockTenant(r) ==
    /\ pc[r] = "mayClaim"
    /\ CanLock(r)
    /\ Become(r, "tenantLocked")
    /\ UNCHANGED <<tables, at, row, inv, locked, left, cursor>>

FindVacant(r) ==
    /\ pc[r] = "tenantLocked"
    /\ Team(at[r]) = {}
    /\ Become(r, "vacant")
    /\ UNCHANGED <<tables, at, row, inv, locked, left, cursor>>

AlreadyClaimed(r) ==
    /\ pc[r] = "tenantLocked"
    /\ Team(at[r]) # {}
    /\ End(r)
    /\ UNCHANGED <<tables, left>>

\* INSERT and COMMIT; the primary key refuses a second row for the user.
CommitClaim(r) ==
    /\ pc[r] = "vacant"
    /\ IF row[r] \in Team(at[r]) THEN role' = role
       ELSE role' = [role EXCEPT ![at[r]][row[r]] = "owner"]
    /\ End(r)
    /\ UNCHANGED <<tenants, offer, invUses, expired, left>>
-------------------------------------------------------------------------------
(* Failures. *)

Rollback(r) ==
    /\ End(r)
    /\ left' = [left EXCEPT ![r] = {}]
    /\ UNCHANGED tables

\* The client or the connection goes, or the control plane dies.
Abort(r) == pc[r] # "idle" /\ Rollback(r)

\* Who waits for whom, in one or more steps.
Reach(r) ==
    LET Step(S) == S \cup {q \in Requests : \E p \in S : Waits(p, q)}
        grow[n \in Nat] == IF n = 0 THEN {q \in Requests : Waits(r, q)} ELSE Step(grow[n - 1])
    IN grow[Cardinality(Requests)]

\* PostgreSQL aborts a transaction that waits for itself (40P01).
BreakDeadlock(r) == r \in Reach(r) /\ Rollback(r)
-------------------------------------------------------------------------------
Proceed(r) ==
    \/ LockRow(r) \/ SkipRow(r) \/ Refreshed(r)
    \/ LockTarget(r) \/ NoSuchMember(r) \/ StartCount(r)
    \/ LastOwner(r) \/ CountEnough(r) \/ Delete(r)
    \/ \E i \in Invites, o \in Offers : CreateInvite(r, i, o)
    \/ LockInvite(r) \/ InviteUsedUp(r) \/ InsertMember(r) \/ AlreadyMember(r) \/ CommitAccept(r)
    \/ LockTenant(r) \/ FindVacant(r) \/ AlreadyClaimed(r) \/ CommitClaim(r)
    \/ BreakDeadlock(r)

Arrive(r) ==
    \/ \E t \in Tenants, caller, target \in Users : AuthoriseRemove(r, t, caller, target)
    \/ \E u \in Users : Refresh(r, u)
    \/ \E t \in Tenants, caller \in Users : AuthoriseInvite(r, t, caller)
    \/ \E u \in Users, i \in Invites : BeginAccept(r, u, i)
    \/ \E t \in Tenants, u \in Users : AskClaim(r, t, u)

Next ==
    \/ \E t \in Tenants : CreateTenant(t)
    \/ \E t \in Tenants, u \in Users : CreateOwnedTenant(t, u)
    \/ \E i \in Invites : TimePasses(i)
    \/ \E r \in Requests : Arrive(r) \/ Proceed(r) \/ Abort(r)

\* The database executes the statements of a request that has arrived, grants
\* row locks in the order they are waited for (so a waiter is not passed over
\* for ever: strong fairness), and runs its deadlock detector.  Nothing makes a
\* request arrive.
Spec == Init /\ [][Next]_vars /\ \A r \in Requests : SF_vars(Proceed(r))
-------------------------------------------------------------------------------
TypeOK ==
    /\ tenants \subseteq Tenants
    /\ role \in [Tenants -> [Users -> Roles \cup {"none"}]]
    /\ offer \in [Invites -> Offers \cup {NoInvite}]
    /\ invUses \in [Invites -> Nat]
    /\ expired \subseteq Invites
    /\ pc \in [Requests -> Points]
    /\ at \in [Requests -> Tenants \cup {NoTenant}]
    /\ row \in [Requests -> Users \cup {NoUser}]
    /\ inv \in [Requests -> Invites \cup {NoInvite}]
    /\ locked \in [Requests -> SUBSET Rows]
    /\ left \in [Requests -> SUBSET Rows]
    /\ cursor \in [Requests -> Rows \cup {NoRow}]
    /\ \A r \in Requests : pc[r] = "idle" => locked[r] = {} /\ left[r] = {}

\* A tenant that has had an owner never loses its last one, however many owners
\* leave or remove each other at once (RemoveMember's lock comment), and a
\* tenant with members or invites has an owner.
OwnerRemains ==
    [][\A t \in Tenants : Owners(t) # {} => Owners(t)' # {}]_vars

OwnersFirst ==
    /\ \A t \in Tenants : Team(t) # {} => Owners(t) # {}
    /\ \A i \in Invites : offer[i] # NoInvite => Owners(offer[i].tenant) # {}

\* ClaimTenant adds its owner only to a tenant that is still empty at that
\* moment: between its EXISTS and its INSERT no claim and no accepted invite
\* gets in, although invites do not take the tenant's row lock before they
\* are accepted.
ClaimsOnlyVacant ==
    \A r \in Requests : pc[r] = "vacant" => Team(at[r]) = {}

\* An invite admits at most max_uses users, counting those whose acceptance is
\* not committed yet.
InvitesWithinLimit ==
    \A i \in Invites : offer[i] # NoInvite =>
        invUses[i] + Cardinality({r \in Requests : pc[r] = "joined" /\ inv[r] = i})
            <= offer[i].max

\* "Someone already in it keeps their role, and the invite is not used up for
\* them": no step changes the role of a member who stays, and an invite's use
\* is counted only in a step that adds a member.
RolesKept ==
    [][/\ \A t \in Tenants, u \in Users :
             role[t][u] # "none" /\ role'[t][u] # "none" => role'[t][u] = role[t][u]
       /\ \A i \in Invites : invUses'[i] # invUses[i] =>
             \E u \in Users : u \notin Team(offer[i].tenant) /\ u \in Team(offer[i].tenant)']_vars

\* Requests of which each waits for one of them, so that none is answered unless
\* one is aborted.
Stuck(S) == S # {} /\ \A r \in S : \E q \in S : Waits(r, q)

\* Two counts of one tenant's owners, or two refreshes of one user's names, may lock
\* the same rows in different orders.
Rivals(r, q) ==
    /\ r # q /\ pc[r] = pc[q]
    /\ \/ pc[r] = "counting" /\ at[r] = at[q]
       \/ pc[r] = "refreshing" /\ row[r] = row[q]

\* Only the statements that lock several rows of members are in a circle of waits:
\* the counts of owners and the refreshes of names (RemoveMember, ListMemberships).
\* Invites, their acceptance and claims are not part of it, they only wait for it;
\* and a circle takes two rivals, or two tenants' counts and two users' refreshes.
OnlyScansDeadlock ==
    \A S \in SUBSET Requests : Stuck(S) =>
        LET Counts == {r \in S : pc[r] = "counting"}
            Refreshes == {r \in S : pc[r] = "refreshing"}
        IN  /\ Stuck(Counts \cup Refreshes)
            /\ \/ \E r, q \in S : Rivals(r, q)
               \/ /\ \E r, q \in Counts : at[r] # at[q]
                  /\ \E r, q \in Refreshes : row[r] # row[q]

\* The transactions implement the one-step tenancy: what a request has found out
\* about the tenant, in earlier statements, is still so when it commits.
Abstract == INSTANCE Tenancy
RefinesTenancy == Abstract!Spec

\* Every request is answered, also those that deadlock: two owners who remove
\* each other at once wait for each other's rows.
RequestsAnswered ==
    \A r \in Requests : pc[r] # "idle" ~> pc[r] = "idle"
===============================================================================

----------------------------- MODULE MembersProofs -----------------------------
(***************************************************************************)
(* Theorems about Members for every set of tenants, users and invites and  *)
(* any number of requests at a time.                                       *)
(***************************************************************************)
EXTENDS Members, MembersPage, FiniteSetTheorems, TLAPS

Locking == {"targetLocked", "counting", "counted"}
Holding == Locking \cup {"refreshing"}
Accepting == {"begun", "inviteLocked", "joined"}

Types ==
    /\ tenants \subseteq Tenants
    /\ role \in [Tenants -> [Users -> Roles \cup {"none"}]]
    /\ offer \in [Invites -> Offers \cup {NoInvite}]
    /\ invUses \in [Invites -> Nat]
    /\ expired \subseteq Invites
    /\ pc \in [Requests -> Points]
    /\ at \in [Requests -> Tenants \cup {NoTenant}]
    /\ row \in [Requests -> Users \cup {NoUser}]
    /\ inv \in [Requests -> Invites \cup {NoInvite}]
    /\ locked \in [Requests -> SUBSET Rows]
    /\ left \in [Requests -> SUBSET Rows]
    /\ cursor \in [Requests -> Rows \cup {NoRow}]

\* A request has locks, and rows to lock, only where its handler takes them,
\* and knows what it is about.
Slot(r) ==
    /\ pc[r] \notin Scanning => left[r] = {}
    /\ pc[r] \notin Holding => locked[r] = {}
    /\ pc[r] \notin {"idle", "refreshing"} => at[r] \in tenants
    /\ pc[r] \notin {"idle", "mayInvite"} => row[r] \in Users
    /\ pc[r] \in Accepting =>
          inv[r] \in Invites /\ offer[inv[r]] # NoInvite /\ at[r] = offer[inv[r]].tenant
    /\ pc[r] = "refreshing" => \A m \in locked[r] \cup left[r] : m[2] = row[r]

Slots == \A r \in Requests : Slot(r)

\* Members and invites are of tenants that exist.
Founded ==
    /\ \A t \in Tenants \ tenants : Team(t) = {}
    /\ \A i \in Invites : offer[i] # NoInvite => offer[i].tenant \in tenants

Typed == Types /\ Slots /\ Founded

\* The other requests are where they were.
Alone(r) ==
    \A q \in Requests \ {r} :
        /\ pc'[q] = pc[q] /\ at'[q] = at[q] /\ row'[q] = row[q]
        /\ inv'[q] = inv[q] /\ locked'[q] = locked[q]

LEMMA EndsIdle ==
    ASSUME NEW r \in Requests, Types, End(r)
    PROVE  /\ pc' \in [Requests -> Points]
           /\ at' \in [Requests -> Tenants \cup {NoTenant}]
           /\ row' \in [Requests -> Users \cup {NoUser}]
           /\ inv' \in [Requests -> Invites \cup {NoInvite}]
           /\ locked' \in [Requests -> SUBSET Rows]
           /\ cursor' \in [Requests -> Rows \cup {NoRow}]
           /\ pc'[r] = "idle" /\ locked'[r] = {} /\ at'[r] = NoTenant
           /\ Alone(r)
BY DEF End, Become, Types, Points, Alone

LEMMA ScanTypes ==
    ASSUME NEW r \in Requests, Types, NEW R \in SUBSET Rows, Scan(r, R)
    PROVE  /\ left' \in [Requests -> SUBSET Rows] /\ left'[r] = R
           /\ \A q \in Requests \ {r} : left'[q] = left[q]
           /\ cursor' \in [Requests -> Rows \cup {NoRow}]
<1>1. left' = [left EXCEPT ![r] = R] /\ left \in [Requests -> SUBSET Rows]
    BY DEF Scan, Types
<1>2. cursor' = cursor \/ \E m \in R : cursor' = [cursor EXCEPT ![r] = m]
    BY DEF Scan
<1>3. cursor' \in [Requests -> Rows \cup {NoRow}]
    BY <1>2 DEF Types
<1>. QED
    BY <1>1, <1>3

LEMMA AskMoves ==
    ASSUME NEW r \in Requests, Typed, NEW point \in Points, NEW t \in Tenants,
           NEW u \in Users \cup {NoUser}, NEW i \in Invites \cup {NoInvite},
           Ask(r, point, t, u, i)
    PROVE  /\ Types'
           /\ pc'[r] = point /\ at'[r] = t /\ row'[r] = u /\ inv'[r] = i
           /\ locked'[r] = {} /\ left'[r] = {}
           /\ Alone(r) /\ UNCHANGED <<tables, left>>
<1>1. pc[r] = "idle" /\ UNCHANGED <<tables, locked, left, cursor>>
    BY DEF Ask
<1>2. Slot(r)
    BY DEF Typed, Slots
<1>3. locked[r] = {} /\ left[r] = {}
    BY <1>1, <1>2 DEF Slot, Holding, Locking, Scanning
<1>. QED
    BY <1>1, <1>3 DEF Ask, Become, Typed, Types, Alone, tables

\* A step of one request, which leaves the tables alone, keeps its slot.
LEMMA OneMoves ==
    ASSUME NEW r \in Requests, Typed, Types', UNCHANGED tables, Alone(r),
           \A q \in Requests \ {r} : left'[q] \subseteq left[q],
           Slot(r)'
    PROVE  Typed'
<1>1. ASSUME NEW q \in Requests \ {r}  PROVE Slot(q)'
    BY <1>1 DEF Alone, Typed, Slots, Slot, tables
<1>2. Founded'
    BY DEF Typed, Founded, Team, tables
<1>. QED
    BY <1>1, <1>2 DEF Typed, Slots

\* A request that ends without a change of the tables, with no rows left to lock.
Gives(r) ==
    /\ End(r)
    /\ UNCHANGED tables
    /\ \/ left' = [left EXCEPT ![r] = {}]
       \/ left' = left /\ (pc[r] \notin Scanning \/ left[r] = {})
       \/ /\ left[r] = {}
          /\ \E same \in SUBSET Requests :
                left' = [q \in Requests |-> IF q \in same THEN left[q] \ locked[r] ELSE left[q]]

\* A request that goes on, without a change of the tables.
Steps(r) ==
    \/ LockRow(r) \/ SkipRow(r)
    \/ LockTarget(r) \/ StartCount(r) \/ CountEnough(r)
    \/ LockInvite(r) \/ InsertMember(r) \/ LockTenant(r) \/ FindVacant(r)

LEMMA NextCases ==
    ASSUME [Next]_vars
    PROVE  \/ \E t \in Tenants : CreateTenant(t)
           \/ \E t \in Tenants, u \in Users : CreateOwnedTenant(t, u)
           \/ \E i \in Invites : TimePasses(i)
           \/ \E r \in Requests : Arrive(r)
           \/ \E r \in Requests : Steps(r)
           \/ \E r \in Requests : Gives(r)
           \/ \E r \in Requests : Delete(r)
           \/ \E r \in Requests, i \in Invites, o \in Offers : CreateInvite(r, i, o)
           \/ \E r \in Requests : CommitAccept(r)
           \/ \E r \in Requests : CommitClaim(r)
           \/ UNCHANGED vars
<1>1. ASSUME NEW r \in Requests,
             \/ NoSuchMember(r) \/ LastOwner(r) \/ InviteUsedUp(r) \/ AlreadyMember(r)
             \/ AlreadyClaimed(r) \/ BreakDeadlock(r) \/ Abort(r) \/ Refreshed(r)
      PROVE  Gives(r)
    BY <1>1 DEF NoSuchMember, LastOwner, InviteUsedUp, AlreadyMember, AlreadyClaimed,
                BreakDeadlock, Abort, Refreshed, Rollback, Gives, Scanning
<1>2. ASSUME NEW r \in Requests, Proceed(r) \/ Abort(r)
      PROVE  \/ Steps(r) \/ Gives(r) \/ Delete(r) \/ CommitAccept(r) \/ CommitClaim(r)
             \/ \E i \in Invites, o \in Offers : CreateInvite(r, i, o)
    BY <1>1, <1>2 DEF Proceed, Steps
<1>. QED
    BY <1>2 DEF Next
-------------------------------------------------------------------------------
(* What each step does to the types, the slots and who is there. *)

LEMMA TypedTables ==
    ASSUME Typed
    PROVE  /\ \A t \in Tenants : CreateTenant(t) => Typed'
           /\ \A t \in Tenants, u \in Users : CreateOwnedTenant(t, u) => Typed'
           /\ \A i \in Invites : TimePasses(i) => Typed'
<1>1. ASSUME NEW t \in Tenants, CreateTenant(t)  PROVE Typed'
    BY <1>1 DEF CreateTenant, Typed, Types, Slots, Slot, Founded, Team
<1>2. ASSUME NEW t \in Tenants, NEW u \in Users, CreateOwnedTenant(t, u)  PROVE Typed'
  <2>. role' = [role EXCEPT ![t][u] = "owner"]
      BY <1>2 DEF CreateOwnedTenant
  <2>1. Types'
      BY <1>2 DEF CreateOwnedTenant, Typed, Types, Roles
  <2>2. Slots'
      BY <1>2 DEF CreateOwnedTenant, Typed, Types, Slots, Slot
  <2>3. Founded'
      BY <1>2 DEF CreateOwnedTenant, Typed, Types, Founded, Team
  <2>. QED
      BY <2>1, <2>2, <2>3 DEF Typed
<1>3. ASSUME NEW i \in Invites, TimePasses(i)  PROVE Typed'
    BY <1>3 DEF TimePasses, Typed, Types, Slots, Slot, Founded, Team
<1>. QED
    BY <1>1, <1>2, <1>3

LEMMA TypedArrive ==
    ASSUME Typed, NEW r \in Requests, Arrive(r)
    PROVE  Typed'
<1>. USE DEF Points
<1>1. ASSUME NEW t \in Tenants, NEW caller \in Users, NEW target \in Users,
             AuthoriseRemove(r, t, caller, target)
      PROVE  Typed'
  <2>1. t \in tenants
      BY <1>1 DEF AuthoriseRemove, Typed, Founded
  <2>2. Ask(r, "mayRemove", t, target, NoInvite)
      BY <1>1 DEF AuthoriseRemove
  <2>3. Slot(r)' /\ Types' /\ Alone(r) /\ UNCHANGED <<tables, left>>
      BY <2>1, <2>2, AskMoves DEF Slot, Accepting, Holding, Scanning, Locking, tables
  <2>. QED
      BY <2>3, OneMoves
<1>2. ASSUME NEW t \in Tenants, NEW caller \in Users, AuthoriseInvite(r, t, caller)
      PROVE  Typed'
  <2>1. t \in tenants
      BY <1>2 DEF AuthoriseInvite, Typed, Founded, Team
  <2>2. Ask(r, "mayInvite", t, NoUser, NoInvite)
      BY <1>2 DEF AuthoriseInvite
  <2>3. Slot(r)' /\ Types' /\ Alone(r) /\ UNCHANGED <<tables, left>>
      BY <2>1, <2>2, AskMoves DEF Slot, Accepting, Holding, Scanning, Locking, tables
  <2>. QED
      BY <2>3, OneMoves
<1>3. ASSUME NEW u \in Users, NEW i \in Invites, BeginAccept(r, u, i)
      PROVE  Typed'
  <2>1. offer[i] # NoInvite /\ offer[i].tenant \in tenants /\ offer[i].tenant \in Tenants
      BY <1>3 DEF BeginAccept, Typed, Types, Founded
  <2>2. Ask(r, "begun", offer[i].tenant, u, i)
      BY <1>3 DEF BeginAccept
  <2>3. Slot(r)' /\ Types' /\ Alone(r) /\ UNCHANGED <<tables, left>>
      BY <2>1, <2>2, AskMoves DEF Slot, Accepting, Holding, Scanning, Locking, tables
  <2>. QED
      BY <2>3, OneMoves
<1>4. ASSUME NEW u \in Users, Refresh(r, u)
      PROVE  Typed'
  <2>1. PICK S \in SUBSET Tenants : Scan(r, S \X {u})
      BY <1>4 DEF Refresh
  <2>2. /\ pc[r] = "idle" /\ pc' = [pc EXCEPT ![r] = "refreshing"]
        /\ row' = [row EXCEPT ![r] = u] /\ UNCHANGED <<tables, at, inv, locked>>
      BY <1>4 DEF Refresh, Become
  <2>3. Types /\ locked[r] = {}
      BY <2>2 DEF Typed, Slots, Slot, Holding, Locking
  <2>4. S \X {u} \in SUBSET Rows /\ \A m \in S \X {u} : m[2] = u
      BY DEF Rows
  <2>5. Types' /\ left'[r] = S \X {u} /\ \A q \in Requests \ {r} : left'[q] = left[q]
      BY <2>1, <2>2, <2>3, <2>4, ScanTypes DEF Types, tables
  <2>6. Slot(r)' /\ Alone(r)
      BY <2>2, <2>3, <2>4, <2>5 DEF Slot, Alone, Types, Scanning, Holding, Accepting
  <2>. QED
      BY <2>2, <2>5, <2>6, OneMoves
<1>5. ASSUME NEW t \in Tenants, NEW u \in Users, AskClaim(r, t, u)
      PROVE  Typed'
  <2>1. t \in tenants /\ Ask(r, "mayClaim", t, u, NoInvite)
      BY <1>5 DEF AskClaim
  <2>2. Slot(r)' /\ Types' /\ Alone(r) /\ UNCHANGED <<tables, left>>
      BY <2>1, AskMoves DEF Slot, Accepting, Holding, Scanning, Locking, tables
  <2>. QED
      BY <2>2, OneMoves
<1>. QED
    BY <1>1, <1>2, <1>3, <1>4, <1>5 DEF Arrive

LEMMA TypedSteps ==
    ASSUME Typed, NEW r \in Requests, Steps(r)
    PROVE  Typed'
<1>. USE DEF Points, Become
<1>1. Slot(r) /\ Types
    BY DEF Typed, Slots
<1>2. CASE LockTarget(r)
  <2>1. Types' /\ Slot(r)' /\ Alone(r) /\ UNCHANGED <<tables, left>>
    <3>1. Row(r) \in Rows
        BY <1>1, <1>2 DEF LockTarget, Types, Slot, Row, Rows, Typed
    <3>. QED
        BY <1>1, <1>2, <3>1
        DEF LockTarget, Types, Slot, Accepting, Locking, Holding, Scanning, Alone, tables
  <2>. QED  BY <2>1, OneMoves
<1>3. CASE StartCount(r)
  <2>1. OwnerRows(at[r]) \in SUBSET Rows
      BY <1>1, <1>3 DEF StartCount, Types, Slot, OwnerRows, Owners, Rows
  <2>2. Types' /\ Slot(r)' /\ Alone(r) /\ UNCHANGED tables
      BY <1>1, <1>3, <2>1, ScanTypes
      DEF StartCount, Types, Slot, Accepting, Locking, Holding, Scanning, Alone, tables
  <2>3. \A q \in Requests \ {r} : left'[q] = left[q]
      BY <1>1, <1>3, <2>1, ScanTypes DEF StartCount
  <2>. QED  BY <2>2, <2>3, OneMoves
<1>4. CASE LockRow(r)
  <2>1. /\ pc[r] \in Scanning /\ cursor[r] \in left[r] /\ left[r] \in SUBSET Rows
        /\ locked' = [locked EXCEPT ![r] = @ \cup {cursor[r]}]
        /\ Scan(r, left[r] \ {cursor[r]})
        /\ UNCHANGED <<tables, pc, at, row, inv>>
      BY <1>1, <1>4 DEF LockRow, Types
  <2>2. Types' /\ left'[r] = left[r] \ {cursor[r]} /\ \A q \in Requests \ {r} : left'[q] = left[q]
      BY <1>1, <2>1, ScanTypes DEF Types, tables
  <2>3. locked'[r] = locked[r] \cup {cursor[r]} /\ Alone(r)
      BY <1>1, <2>1 DEF Types, Alone
  <2>4. Slot(r)'
      BY <1>1, <2>1, <2>2, <2>3 DEF Slot, Scanning, Holding, Locking, Accepting, tables
  <2>. QED  BY <2>1, <2>2, <2>3, <2>4, OneMoves
<1>5. CASE SkipRow(r)
  <2>1. /\ left[r] \in SUBSET Rows /\ Scan(r, left[r]) /\ UNCHANGED <<tables, pc, at, row, inv, locked>>
      BY <1>1, <1>5 DEF SkipRow, Types
  <2>2. Types' /\ left'[r] = left[r] /\ \A q \in Requests \ {r} : left'[q] = left[q]
      BY <1>1, <2>1, ScanTypes DEF Types, tables
  <2>3. Slot(r)' /\ Alone(r)
      BY <1>1, <2>1, <2>2 DEF Slot, Alone, tables
  <2>. QED  BY <2>1, <2>2, <2>3, OneMoves
<1>6. CASE CountEnough(r)
  <2>1. Types' /\ Slot(r)' /\ Alone(r) /\ UNCHANGED <<tables, left>>
      BY <1>1, <1>6 DEF CountEnough, Types, Slot, Accepting, Locking, Holding, Scanning, Alone, tables
  <2>. QED  BY <2>1, OneMoves
<1>7. CASE LockInvite(r)
  <2>1. Types' /\ Slot(r)' /\ Alone(r) /\ UNCHANGED <<tables, left>>
      BY <1>1, <1>7 DEF LockInvite, Types, Slot, Accepting, Locking, Holding, Scanning, Alone, tables
  <2>. QED  BY <2>1, OneMoves
<1>8. CASE InsertMember(r)
  <2>1. Types' /\ Slot(r)' /\ Alone(r) /\ UNCHANGED <<tables, left>>
      BY <1>1, <1>8 DEF InsertMember, Types, Slot, Accepting, Locking, Holding, Scanning, Alone, tables
  <2>. QED  BY <2>1, OneMoves
<1>9. CASE LockTenant(r) \/ FindVacant(r)
  <2>1. Types' /\ Slot(r)' /\ Alone(r) /\ UNCHANGED <<tables, left>>
      BY <1>1, <1>9 DEF LockTenant, FindVacant, Types, Slot, Accepting, Locking, Holding, Scanning, Alone, tables
  <2>. QED  BY <2>1, OneMoves
<1>. QED
    BY <1>2, <1>3, <1>4, <1>5, <1>6, <1>7, <1>8, <1>9 DEF Steps

LEMMA GivesLeaves ==
    ASSUME Typed, NEW r \in Requests, Gives(r)
    PROVE  /\ left' \in [Requests -> SUBSET Rows] /\ left'[r] = {}
           /\ \A q \in Requests \ {r} : left'[q] \subseteq left[q]
<1>. left \in [Requests -> SUBSET Rows] /\ Slot(r)
    BY DEF Typed, Types, Slots
<1>. QED
    BY DEF Gives, Slot

LEMMA TypedGives ==
    ASSUME Typed, NEW r \in Requests, Gives(r)
    PROVE  Typed'
<1>1. Types'
    BY EndsIdle, GivesLeaves DEF Gives, Typed, Types, tables
<1>2. Slot(r)'
    BY EndsIdle, GivesLeaves DEF Gives, Typed, Slot, Accepting
<1>. QED
    BY <1>1, <1>2, EndsIdle, GivesLeaves, OneMoves DEF Gives, Typed

\* A deletion leaves nobody in a tenant that does not exist, and takes the row
\* from the scans of other requests.
LEMMA TypedDelete ==
    ASSUME Typed, NEW r \in Requests, Delete(r)
    PROVE  Typed'
<1>. USE DEF Locking, Holding, Accepting, Points, Scanning
<1>1. End(r) /\ UNCHANGED <<tenants, offer, invUses, expired>>
    BY DEF Delete
<1>2. Slot(r) /\ at[r] \in Tenants /\ row[r] \in Users
    BY DEF Typed, Slots, Slot, Delete, Types
<1>3. role' = [role EXCEPT ![at[r]][row[r]] = "none"]
    BY DEF Delete
<1>4. left' = [q \in Requests |-> left[q] \ {Row(r)}]
    BY DEF Delete
<1>5. Types'
    BY <1>1, <1>2, <1>3, <1>4, EndsIdle DEF Typed, Types
<1>6. ASSUME NEW q \in Requests  PROVE Slot(q)'
  <2>1. CASE q = r
      BY <1>1, <1>2, <1>4, <2>1, EndsIdle DEF Typed, Slot, Delete
  <2>2. CASE q # r
    <3>1. Slot(q) /\ left'[q] \subseteq left[q]
        BY <1>4 DEF Typed, Slots
    <3>. QED
        BY <1>1, <2>2, <3>1, EndsIdle DEF Typed, Slot, Alone
  <2>. QED  BY <2>1, <2>2
<1>7. Founded'
    BY <1>1, <1>2, <1>3 DEF Typed, Types, Founded, Team
<1>. QED
    BY <1>5, <1>6, <1>7 DEF Typed, Slots

LEMMA TypedCreateInvite ==
    ASSUME Typed, NEW r \in Requests, NEW i \in Invites, NEW o \in Offers,
           CreateInvite(r, i, o)
    PROVE  Typed'
<1>1. /\ End(r) /\ UNCHANGED <<tenants, role, invUses, expired, left>>
      /\ pc[r] = "mayInvite" /\ offer[i] = NoInvite /\ o.tenant = at[r]
      /\ offer' = [offer EXCEPT ![i] = o]
    BY DEF CreateInvite
<1>2. Slot(r)
    BY DEF Typed, Slots
<1>3. Types'
    BY <1>1, EndsIdle DEF Typed, Types
<1>4. ASSUME NEW q \in Requests  PROVE Slot(q)'
  <2>1. CASE q = r
      BY <1>1, <1>2, <2>1, EndsIdle DEF Typed, Slot, Accepting, Scanning, Holding, Locking
  <2>2. CASE q # r
      BY <1>1, <2>2, EndsIdle DEF Typed, Types, Slots, Slot, Alone, Accepting
  <2>. QED  BY <2>1, <2>2
<1>5. Founded'
    BY <1>1, <1>2 DEF Typed, Types, Founded, Team, Slot
<1>. QED
    BY <1>3, <1>4, <1>5 DEF Typed, Slots

\* Whoever accepts an invite gets a role, in a tenant that exists.
LEMMA Accepts ==
    ASSUME Typed, NEW r \in Requests, CommitAccept(r)
    PROVE  /\ End(r) /\ UNCHANGED <<tenants, offer, expired, left>>
           /\ pc[r] = "joined" /\ at[r] \in tenants /\ row[r] \in Users
           /\ inv[r] \in Invites /\ offer[inv[r]] # NoInvite /\ at[r] = offer[inv[r]].tenant
           /\ offer[inv[r]].role \in Roles
           /\ role' = [role EXCEPT ![at[r]][row[r]] = offer[inv[r]].role]
           /\ invUses' = [invUses EXCEPT ![inv[r]] = @ + 1]
<1>1. /\ End(r) /\ UNCHANGED <<tenants, offer, expired, left>> /\ pc[r] = "joined"
      /\ role' = [role EXCEPT ![at[r]][row[r]] = offer[inv[r]].role]
      /\ invUses' = [invUses EXCEPT ![inv[r]] = @ + 1]
    BY DEF CommitAccept
<1>2. Slot(r)
    BY DEF Typed, Slots
<1>. QED
    BY <1>1, <1>2 DEF Typed, Types, Slot, Accepting, Offers

LEMMA TypedCommitAccept ==
    ASSUME Typed, NEW r \in Requests, CommitAccept(r)
    PROVE  Typed'
<1>. DEFINE t == at[r]
            u == row[r]
            x == offer[inv[r]].role
<1>0. End(r) /\ Types /\ t \in Tenants /\ u \in Users /\ x \in Roles
    BY Accepts DEF Typed, Types
<1>1. Types'
  <2>1. role' = [role EXCEPT ![t][u] = x]
      BY Accepts
  <2>2. role' \in [Tenants -> [Users -> Roles \cup {"none"}]]
      BY <1>0, <2>1 DEF Types
  <2>3. invUses' \in [Invites -> Nat]
      BY <1>0, Accepts DEF Types
  <2>. QED
      BY <1>0, <2>2, <2>3, Accepts, EndsIdle DEF Types
<1>2. ASSUME NEW q \in Requests  PROVE Slot(q)'
  <2>1. CASE q = r
      BY <2>1, Accepts, EndsIdle DEF Typed, Slots, Slot, Accepting, Scanning, Holding, Locking
  <2>2. CASE q # r
    <3>1. Alone(r) /\ UNCHANGED <<tenants, offer, left>> /\ Slot(q)
        BY <1>0, Accepts, EndsIdle DEF Typed, Slots
    <3>. QED
        BY <2>2, <3>1 DEF Slot, Alone
  <2>. QED  BY <2>1, <2>2
<1>3. Founded'
    BY Accepts DEF Typed, Types, Founded, Team
<1>. QED
    BY <1>1, <1>2, <1>3 DEF Typed, Slots

LEMMA TypedCommitClaim ==
    ASSUME Typed, NEW r \in Requests, CommitClaim(r)
    PROVE  Typed'
<1>1. /\ End(r) /\ UNCHANGED <<tenants, offer, invUses, expired, left>> /\ pc[r] = "vacant"
      /\ role' \in {role, [role EXCEPT ![at[r]][row[r]] = "owner"]}
    BY DEF CommitClaim
<1>2. Slot(r)
    BY DEF Typed, Slots
<1>3. Types'
  <2>. DEFINE t == at[r]
              u == row[r]
  <2>0. Types /\ t \in Tenants /\ u \in Users /\ role' \in {role, [role EXCEPT ![t][u] = "owner"]}
      BY <1>1, <1>2 DEF Typed, Types, Slot
  <2>1. role' \in [Tenants -> [Users -> Roles \cup {"none"}]]
    <3>. DEFINE team == [role[t] EXCEPT ![u] = "owner"]
    <3>1. team \in [Users -> Roles \cup {"none"}] /\ role \in [Tenants -> [Users -> Roles \cup {"none"}]]
        BY <2>0 DEF Types, Roles
    <3>2. role' \in {role, [role EXCEPT ![t] = team]}
        BY <2>0
    <3>. HIDE DEF team
    <3>. QED
        BY <2>0, <3>1, <3>2
  <2>. QED
      BY <1>1, <2>1, EndsIdle DEF Typed, Types
<1>4. ASSUME NEW q \in Requests  PROVE Slot(q)'
  <2>1. CASE q = r
      BY <1>1, <1>2, <2>1, EndsIdle DEF Typed, Slot, Accepting, Scanning, Holding, Locking
  <2>2. CASE q # r
      BY <1>1, <2>2, EndsIdle DEF Typed, Slots, Slot, Alone
  <2>. QED  BY <2>1, <2>2
<1>5. Founded'
    BY <1>1, <1>2 DEF Typed, Types, Founded, Team, Slot
<1>. QED
    BY <1>3, <1>4, <1>5 DEF Typed, Slots

LEMMA TypedNext == Typed /\ [Next]_vars => Typed'
<1>. SUFFICES ASSUME Typed, [Next]_vars PROVE Typed'
    OBVIOUS
<1>1. CASE UNCHANGED vars
    BY <1>1 DEF vars, Typed, Types, Slots, Slot, Founded, Team
<1>. QED
    BY <1>1, NextCases, TypedTables, TypedArrive, TypedSteps, TypedGives, TypedDelete,
       TypedCreateInvite, TypedCommitAccept, TypedCommitClaim

\* What a request is about exists, and it has locks only where its handler takes them.
THEOREM Slotted == Spec => []Typed
<1>1. Init => Typed
    BY DEF Init, Typed, Types, Slots, Slot, Founded, Team, Roles, Points, Accepting
<1>. QED
    BY <1>1, TypedNext, PTL DEF Spec

\* TypeOK: a request without a statement to run holds no row lock.
THEOREM Typing == Spec => []TypeOK
<1>1. Typed => TypeOK
    BY DEF Typed, Types, Slots, Slot, TypeOK, Holding, Locking, Scanning
<1>. QED
    BY <1>1, Slotted, PTL
-------------------------------------------------------------------------------
(* Row locks. *)

\* No two requests hold the same row: of a member, an invite, a tenant (but its
\* KEY SHARE lock is shared), or, uncommitted, of somebody who is joining.
Apart(r, q) ==
    /\ locked[r] \cap locked[q] = {}
    /\ \A i \in Invites : HoldsInvite(r, i) => ~HoldsInvite(q, i)
    /\ \A t \in Tenants : HoldsTenant(r, t) => ~HoldsTenant(q, t) /\ ~SharesTenant(q, t)
    /\ \A t \in Tenants : SharesTenant(r, t) /\ SharesTenant(q, t) => row[r] # row[q]

Exclusive == \A r, q \in Requests : r # q => Apart(r, q)

LEMMA OneStaysApart ==
    ASSUME Exclusive, NEW r \in Requests, Alone(r),
           \A q \in Requests \ {r} : Apart(r, q)' /\ Apart(q, r)'
    PROVE  Exclusive'
<1>1. ASSUME NEW p \in Requests \ {r}, NEW q \in Requests \ {r}, p # q
      PROVE  Apart(p, q)'
    BY <1>1 DEF Exclusive, Alone, Apart, HoldsInvite, HoldsTenant, SharesTenant
<1>. QED
    BY <1>1 DEF Exclusive

\* A request without a lock is apart from every other.
LEMMA FreeIsApart ==
    ASSUME NEW r \in Requests, locked'[r] = {},
           pc'[r] \notin {"inviteLocked", "joined", "tenantLocked", "vacant"}
    PROVE  \A q \in Requests \ {r} : Apart(r, q)' /\ Apart(q, r)'
BY DEF Apart, HoldsInvite, HoldsTenant, SharesTenant

LEMMA ArriveApart ==
    ASSUME Typed, Exclusive, NEW r \in Requests, Arrive(r)
    PROVE  Exclusive'
<1>. DEFINE Asks == \E point \in {"mayRemove", "mayInvite", "begun", "mayClaim"} :
                       \E t, u, i : Ask(r, point, t, u, i)
<1>1. Asks \/ \E u \in Users : Refresh(r, u)
  <2>1. \A t, u, i : Ask(r, "mayRemove", t, u, i) \/ Ask(r, "mayInvite", t, u, i)
                     \/ Ask(r, "begun", t, u, i) \/ Ask(r, "mayClaim", t, u, i)
                     => Asks
      OBVIOUS
  <2>. HIDE DEF Asks
  <2>. QED
      BY <2>1 DEF Arrive, AuthoriseRemove, AuthoriseInvite, BeginAccept, AskClaim
<1>2. pc[r] = "idle" /\ UNCHANGED locked
    BY <1>1 DEF Ask, Refresh
<1>3. locked'[r] = {}
    BY <1>2 DEF Typed, Slots, Slot, Holding, Locking
<1>4. pc'[r] \in {"mayRemove", "mayInvite", "begun", "mayClaim", "refreshing"} /\ Alone(r)
    BY <1>1, <1>2 DEF Ask, Refresh, Become, Typed, Types, Alone
<1>. QED
    BY <1>3, <1>4, FreeIsApart, OneStaysApart

LEMMA EndApart ==
    ASSUME Typed, Exclusive, NEW r \in Requests, End(r)
    PROVE  Exclusive'
<1>1. Alone(r) /\ pc'[r] = "idle" /\ locked'[r] = {}
    BY EndsIdle DEF Typed
<1>. QED
    BY <1>1, FreeIsApart, OneStaysApart

\* The statements that take a lock wait until no one else has it.
LEMMA StepsApart ==
    ASSUME Typed, Exclusive, NEW r \in Requests, Steps(r)
    PROVE  Exclusive'
<1>. USE DEF Become, Locking
<1>1. Slot(r) /\ Types
    BY DEF Typed, Slots
<1>2. /\ Alone(r) /\ UNCHANGED <<at, row, inv>>
      /\ pc'[r] \in Points
    BY <1>1 DEF Steps, LockTarget, StartCount, LockRow, SkipRow, CountEnough, LockInvite,
                InsertMember, LockTenant, FindVacant, Alone, Types, Points
<1>3. SUFFICES ASSUME NEW q \in Requests \ {r}  PROVE Apart(r, q)' /\ Apart(q, r)'
    BY <1>2, OneStaysApart
<1>4. /\ Apart(r, q) /\ Apart(q, r) /\ Slot(q)
      /\ pc'[q] = pc[q] /\ locked'[q] = locked[q]
    BY <1>2, <1>3 DEF Exclusive, Alone, Typed, Slots
<1>. USE DEF Apart, HoldsInvite, HoldsTenant, SharesTenant
<1>5. CASE LockTarget(r)
  <2>1. Row(r) \notin locked[q]
      BY <1>3, <1>5 DEF LockTarget, CanLock, Waits
  <2>2. pc'[r] = "targetLocked" /\ locked'[r] = {Row(r)}
      BY <1>1, <1>5 DEF LockTarget, Types
  <2>. QED
      BY <1>2, <1>4, <2>1, <2>2
<1>6. CASE LockRow(r)
  <2>1. cursor[r] \notin locked[q]
      BY <1>3, <1>6 DEF LockRow, CanLock, Waits
  <2>2. pc'[r] \in Scanning /\ locked'[r] = locked[r] \cup {cursor[r]}
      BY <1>1, <1>6 DEF LockRow, Types
  <2>. QED
      BY <1>2, <1>4, <2>1, <2>2 DEF Scanning
<1>7. CASE StartCount(r) \/ SkipRow(r) \/ CountEnough(r)
  <2>1. pc'[r] \in {"counting", "counted", "refreshing"} /\ locked'[r] = locked[r]
      BY <1>1, <1>7 DEF StartCount, SkipRow, CountEnough, Types, Scanning
  <2>. QED
      BY <1>2, <1>4, <2>1
<1>8. CASE LockInvite(r)
  <2>1. ~HoldsInvite(q, inv[r])
      BY <1>3, <1>8 DEF LockInvite, CanLock, Waits
  <2>2. pc'[r] = "inviteLocked" /\ locked'[r] = locked[r]
      BY <1>1, <1>8 DEF LockInvite, Types
  <2>. QED
      BY <1>2, <1>4, <2>1, <2>2
<1>9. CASE InsertMember(r)
  <2>1. ~HoldsTenant(q, at[r]) /\ ~(SharesTenant(q, at[r]) /\ row[q] = row[r])
      BY <1>3, <1>9 DEF InsertMember, CanLock, Waits, HoldsTenant, SharesTenant
  <2>2. pc[r] = "inviteLocked" /\ pc'[r] = "joined" /\ locked'[r] = locked[r]
      BY <1>1, <1>9 DEF InsertMember, Types
  <2>. QED
      BY <1>2, <1>4, <2>1, <2>2
<1>10. CASE LockTenant(r)
  <2>1. ~HoldsTenant(q, at[r]) /\ ~SharesTenant(q, at[r])
      BY <1>3, <1>10 DEF LockTenant, CanLock, Waits
  <2>2. pc'[r] = "tenantLocked" /\ locked'[r] = locked[r]
      BY <1>1, <1>10 DEF LockTenant, Types
  <2>. QED
      BY <1>2, <1>4, <2>1, <2>2
<1>11. CASE FindVacant(r)
  <2>1. pc[r] = "tenantLocked" /\ pc'[r] = "vacant" /\ locked'[r] = locked[r]
      BY <1>1, <1>11 DEF FindVacant, Types
  <2>. QED
      BY <1>2, <1>4, <2>1
<1>. QED
    BY <1>5, <1>6, <1>7, <1>8, <1>9, <1>10, <1>11 DEF Steps

LEMMA ExclusiveNext == Typed /\ Exclusive /\ [Next]_vars => Exclusive'
<1>. SUFFICES ASSUME Typed, Exclusive, [Next]_vars PROVE Exclusive'
    OBVIOUS
<1>1. CASE UNCHANGED <<pc, at, row, inv, locked>>
    BY <1>1 DEF Exclusive, Apart, HoldsInvite, HoldsTenant, SharesTenant
<1>2. CASE \E r \in Requests : End(r)
    BY <1>2, EndApart
<1>. QED
    BY <1>1, <1>2, NextCases, ArriveApart, StepsApart
    DEF CreateTenant, CreateOwnedTenant, TimePasses, Gives, Delete, CreateInvite,
        CommitAccept, CommitClaim, vars

\* A locked row has one holder.
THEOREM LocksExclude == Spec => []Exclusive
<1>1. Init => Exclusive
    BY DEF Init, Exclusive, Apart, HoldsInvite, HoldsTenant, SharesTenant
<1>. QED
    BY <1>1, ExclusiveNext, Slotted, PTL DEF Spec
-------------------------------------------------------------------------------
(* What a request has found out stays true while it holds its locks. *)

Held(r) ==
    /\ pc[r] \in Locking => Row(r) \in locked[r] /\ row[r] \in Team(at[r])
    /\ pc[r] = "targetLocked" => locked[r] = {Row(r)}
    /\ pc[r] \in {"counting", "counted"} =>
          \A m \in locked[r] \cup left[r] : m[1] = at[r] /\ m[2] \in Owners(at[r])
    /\ pc[r] = "counted" => EnoughOwners(r)
    /\ pc[r] = "joined" => row[r] \notin Team(at[r])
    /\ pc[r] = "vacant" => Team(at[r]) = {}
    /\ pc[r] = "mayInvite" => Owners(at[r]) # {}
    /\ pc[r] \in {"inviteLocked", "joined"} => invUses[inv[r]] < offer[inv[r]].max

\* Uses are of an invite that was made, and within its limit.
UsesOf(i) == IF offer[i] = NoInvite THEN invUses[i] = 0 ELSE invUses[i] <= offer[i].max

IInv ==
    /\ Typed
    /\ Exclusive
    /\ \A r \in Requests : Held(r)
    /\ \A i \in Invites : UsesOf(i)
    /\ OwnersFirst

\* What the step of another request must leave as it was.
Spared(q) ==
    /\ left'[q] \subseteq left[q]
    /\ pc[q] \in Locking =>
          \A m \in locked[q] \cup left'[q] : role'[at[q]][m[2]] = role[at[q]][m[2]]
    /\ pc[q] = "joined" => role'[at[q]][row[q]] = "none"
    /\ pc[q] = "vacant" => \A u \in Users : role'[at[q]][u] = "none"
    /\ pc[q] = "mayInvite" => \E u \in Users : role'[at[q]][u] = "owner"
    /\ pc[q] \in {"inviteLocked", "joined"} =>
          invUses'[inv[q]] = invUses[inv[q]] /\ offer'[inv[q]] = offer[inv[q]]

LEMMA HeldIfSpared ==
    ASSUME NEW q \in Requests, Types, Held(q), Spared(q),
           pc'[q] = pc[q], at'[q] = at[q], row'[q] = row[q],
           inv'[q] = inv[q], locked'[q] = locked[q]
    PROVE  Held(q)'
<1>2. ASSUME pc[q] \in Locking
      PROVE  Row(q) \in locked[q] /\ row[q] \in Users /\ role'[at[q]][row[q]] # "none"
  <2>1. Row(q) \in locked[q] /\ row[q] \in Team(at[q])
      BY <1>2 DEF Held
  <2>2. Row(q)[2] = row[q]
      BY DEF Row
  <2>. QED
      BY <1>2, <2>1, <2>2 DEF Spared, Team
<1>3. ASSUME pc[q] \in {"counting", "counted"}
      PROVE  \A m \in locked[q] \cup left'[q] :
                m[1] = at[q] /\ m[2] \in Users /\ role'[at[q]][m[2]] = "owner"
    BY <1>3 DEF Held, Spared, Owners, Locking
<1>4. EnoughOwners(q)' = EnoughOwners(q) /\ Row(q)' = Row(q)
    BY DEF EnoughOwners, Row
<1>. QED
    BY <1>2, <1>3, <1>4 DEF Held, Spared, Team, Owners

LEMMA SparedHolds ==
    ASSUME NEW r \in Requests, Alone(r), NEW q \in Requests \ {r}, Types, Held(q), Spared(q)
    PROVE  Held(q)'
BY HeldIfSpared DEF Alone

\* A step that leaves the tables alone spares the others.
LEMMA QuietSpares ==
    ASSUME Typed, NEW q \in Requests, Held(q), UNCHANGED <<role, offer, invUses>>,
           left'[q] \subseteq left[q]
    PROVE  Spared(q)
<1>1. Slot(q) /\ Types
    BY DEF Typed, Slots
<1>2. pc[q] = "joined" => role[at[q]][row[q]] = "none"
    BY <1>1 DEF Held, Team, Slot
<1>. QED
    BY <1>2 DEF Held, Spared, Team, Owners

\* Somebody joins who was not there, and nobody else changes.
Joins(t, u) ==
    /\ role[t][u] = "none"
    /\ \E x \in Roles : role' = [role EXCEPT ![t][u] = x]

LEMMA JoinsAdds ==
    ASSUME Types, NEW t \in Tenants, NEW u \in Users, Joins(t, u)
    PROVE  /\ \A s \in Tenants, v \in Users : <<s, v>> # <<t, u>> => role'[s][v] = role[s][v]
           /\ \A s \in Tenants : Owners(s) \subseteq Owners(s)'
           /\ Team(t)' = Team(t) \cup {u}
BY DEF Joins, Types, Team, Owners, Roles

LEMMA JoinsSpares ==
    ASSUME Typed, Exclusive, NEW t \in Tenants, NEW u \in Users, Joins(t, u),
           NEW q \in Requests, Held(q), left'[q] \subseteq left[q],
           pc[q] = "joined" /\ at[q] = t => row[q] # u,
           pc[q] = "vacant" => at[q] # t,
           pc[q] \in {"inviteLocked", "joined"} =>
               invUses'[inv[q]] = invUses[inv[q]] /\ offer'[inv[q]] = offer[inv[q]]
    PROVE  Spared(q)
<1>1. Slot(q) /\ Types /\ tenants \subseteq Tenants
    BY DEF Typed, Slots, Types
<1>2. ASSUME pc[q] \in Locking
      PROVE  \A m \in locked[q] \cup left'[q] : role'[at[q]][m[2]] = role[at[q]][m[2]]
  <2>1. \A m \in locked[q] \cup left[q] : m[2] \in Team(at[q])
      BY <1>1, <1>2 DEF Held, Slot, Locking, Scanning, Team, Owners, Row
  <2>2. \A v \in Team(at[q]) : <<at[q], v>> # <<t, u>>
      BY DEF Joins, Team
  <2>3. at[q] \in Tenants /\ Team(at[q]) \subseteq Users
      BY <1>1, <1>2 DEF Slot, Locking, Team
  <2>. QED
      BY <1>1, <2>1, <2>2, <2>3, JoinsAdds
<1>3. ASSUME pc[q] = "joined"  PROVE role'[at[q]][row[q]] = "none"
  <2>1. at[q] \in Tenants /\ row[q] \in Users /\ row[q] \notin Team(at[q])
      BY <1>1, <1>3 DEF Slot, Held
  <2>2. <<at[q], row[q]>> # <<t, u>>
      BY <1>3
  <2>. QED
      BY <1>1, <2>1, <2>2, JoinsAdds DEF Team
<1>4. ASSUME pc[q] = "vacant"  PROVE \A v \in Users : role'[at[q]][v] = "none"
  <2>1. at[q] \in Tenants /\ at[q] # t /\ Team(at[q]) = {}
      BY <1>1, <1>4 DEF Slot, Held
  <2>. QED
      BY <1>1, <2>1, JoinsAdds DEF Team
<1>5. ASSUME pc[q] = "mayInvite"  PROVE \E v \in Users : role'[at[q]][v] = "owner"
  <2>1. at[q] \in Tenants /\ Owners(at[q]) # {}
      BY <1>1, <1>5 DEF Slot, Held
  <2>. QED
      BY <1>1, <2>1, JoinsAdds DEF Owners
<1>. QED
    BY <1>2, <1>3, <1>4, <1>5 DEF Spared
-------------------------------------------------------------------------------
(* The invariant, step by step. *)

Holds == /\ \A q \in Requests : Held(q)
         /\ \A i \in Invites : UsesOf(i)
         /\ OwnersFirst

OwnersStay == \A t \in Tenants : Owners(t) # {} => Owners(t)' # {}

\* A step of one request that leaves the tables alone has to keep only its own
\* part of the invariant.
LEMMA QuietHolds ==
    ASSUME IInv, NEW r \in Requests, Alone(r), UNCHANGED tables,
           \A q \in Requests \ {r} : left'[q] \subseteq left[q],
           Held(r)'
    PROVE  Holds' /\ OwnersStay
<1>1. ASSUME NEW q \in Requests \ {r}  PROVE Held(q)'
    BY <1>1, QuietSpares, SparedHolds DEF IInv, Typed, tables
<1>. QED
    BY <1>1 DEF IInv, Holds, OwnersFirst, OwnersStay, Owners, Team, UsesOf, tables

LEMMA AskHolds ==
    ASSUME IInv, NEW r \in Requests,
           NEW point \in {"mayRemove", "mayInvite", "begun", "mayClaim"}, NEW t, NEW u, NEW i,
           Ask(r, point, t, u, i),
           point = "mayInvite" => Owners(t) # {}
    PROVE  Holds' /\ OwnersStay
<1>1. UNCHANGED <<tables, left>>
    BY DEF Ask
<1>2. pc'[r] = point /\ at'[r] = t /\ Alone(r)
    BY DEF Ask, Become, IInv, Typed, Types, Alone
<1>3. Held(r)'
    BY <1>1, <1>2 DEF Held, Locking, Owners, tables
<1>. QED
    BY <1>1, <1>2, <1>3, QuietHolds

LEMMA ArriveHolds ==
    ASSUME IInv, NEW r \in Requests, Arrive(r)
    PROVE  Holds' /\ OwnersStay
<1>1. ASSUME NEW t \in Tenants, NEW caller \in Users, NEW target \in Users,
             AuthoriseRemove(r, t, caller, target)
      PROVE  Holds' /\ OwnersStay
    BY <1>1, AskHolds DEF AuthoriseRemove
<1>2. ASSUME NEW t \in Tenants, NEW caller \in Users, AuthoriseInvite(r, t, caller)
      PROVE  Holds' /\ OwnersStay
  <2>1. Owners(t) # {}
      BY <1>2 DEF AuthoriseInvite, Owners
  <2>. QED
      BY <1>2, <2>1, AskHolds DEF AuthoriseInvite
<1>3. ASSUME NEW u \in Users, NEW i \in Invites, BeginAccept(r, u, i)
      PROVE  Holds' /\ OwnersStay
    BY <1>3, AskHolds DEF BeginAccept
<1>4. ASSUME NEW t \in Tenants, NEW u \in Users, AskClaim(r, t, u)
      PROVE  Holds' /\ OwnersStay
    BY <1>4, AskHolds DEF AskClaim
<1>5. ASSUME NEW u \in Users, Refresh(r, u)
      PROVE  Holds' /\ OwnersStay
  <2>1. /\ pc' = [pc EXCEPT ![r] = "refreshing"] /\ row' = [row EXCEPT ![r] = u]
        /\ UNCHANGED <<tables, at, inv, locked>>
      BY <1>5 DEF Refresh, Become
  <2>2. PICK S \in SUBSET Tenants : Scan(r, S \X {u})
      BY <1>5 DEF Refresh
  <2>3. Types /\ S \X {u} \in SUBSET Rows
      BY DEF IInv, Typed, Rows
  <2>4. \A q \in Requests \ {r} : left'[q] = left[q]
      BY <2>2, <2>3, ScanTypes
  <2>5. Alone(r) /\ pc'[r] = "refreshing"
      BY <2>1, <2>3 DEF Types, Alone
  <2>6. Held(r)'
      BY <2>5 DEF Held, Locking
  <2>. QED
      BY <2>1, <2>4, <2>5, <2>6, QuietHolds
<1>. QED
    BY <1>1, <1>2, <1>3, <1>4, <1>5 DEF Arrive

LEMMA GivesHolds ==
    ASSUME IInv, NEW r \in Requests, Gives(r)
    PROVE  Holds' /\ OwnersStay
<1>1. Alone(r) /\ pc'[r] = "idle" /\ UNCHANGED tables
    BY EndsIdle DEF IInv, Typed, Gives
<1>2. \A q \in Requests \ {r} : left'[q] \subseteq left[q]
    BY GivesLeaves DEF IInv
<1>3. Held(r)'
    BY <1>1 DEF Held, Locking
<1>. QED
    BY <1>1, <1>2, <1>3, QuietHolds

LEMMA StepsHolds ==
    ASSUME IInv, NEW r \in Requests, Steps(r)
    PROVE  Holds' /\ OwnersStay
<1>. USE DEF Become, Locking, Held
<1>1. Slot(r) /\ Types /\ Held(r)
    BY DEF IInv, Typed, Slots
<1>2. Alone(r) /\ UNCHANGED <<tables, at, row, inv>>
    BY <1>1 DEF Steps, LockTarget, StartCount, LockRow, SkipRow, CountEnough, LockInvite,
                InsertMember, LockTenant, FindVacant, Alone, Types, tables
<1>3. \A q \in Requests \ {r} : left'[q] \subseteq left[q]
  <2>1. left' = left \/ \E R : Scan(r, R)
      BY DEF Steps, LockTarget, StartCount, LockRow, SkipRow, CountEnough, LockInvite,
             InsertMember, LockTenant, FindVacant
  <2>. QED
      BY <1>1, <2>1 DEF Scan, Types
<1>4. UNCHANGED <<role, offer, invUses>>
    BY <1>2 DEF tables
<1>5. SUFFICES Held(r)'
    BY <1>2, <1>3, QuietHolds
<1>. USE DEF Team, Owners
<1>6. CASE LockTarget(r)
    BY <1>1, <1>2, <1>4, <1>6 DEF LockTarget, Types, Row
<1>7. CASE StartCount(r)
  <2>1. /\ pc[r] = "targetLocked" /\ role[at[r]][row[r]] = "owner" /\ pc'[r] = "counting"
        /\ left' = [left EXCEPT ![r] = OwnerRows(at[r])] /\ locked' = locked
      BY <1>1, <1>7 DEF StartCount, Scan, Types
  <2>2. left'[r] = OwnerRows(at[r])
      BY <1>1, <2>1 DEF Types
  <2>3. Row(r)[1] = at[r] /\ Row(r)[2] = row[r] /\ Row(r)' = Row(r)
      BY <1>2 DEF Row
  <2>4. locked'[r] = {Row(r)} /\ row[r] \in Owners(at[r])
      BY <1>1, <2>1 DEF Slot
  <2>5. \A m \in OwnerRows(at[r]) : m[1] = at[r] /\ m[2] \in Owners(at[r])
      BY DEF OwnerRows
  <2>. QED
      BY <1>1, <1>2, <1>4, <2>1, <2>2, <2>3, <2>4, <2>5
<1>8. CASE LockRow(r)
  <2>1. /\ pc[r] \in Scanning /\ pc' = pc /\ cursor[r] \in left[r]
        /\ left' = [left EXCEPT ![r] = left[r] \ {cursor[r]}]
        /\ locked' = [locked EXCEPT ![r] = locked[r] \cup {cursor[r]}]
      BY <1>1, <1>8 DEF LockRow, Scan
  <2>2. left'[r] = left[r] \ {cursor[r]} /\ locked'[r] = locked[r] \cup {cursor[r]}
      BY <1>1, <2>1 DEF Types
  <2>3. Row(r)' = Row(r)
      BY <1>2 DEF Row
  <2>. QED
      BY <1>1, <1>2, <1>4, <2>1, <2>2, <2>3 DEF Scanning
<1>9. CASE SkipRow(r)
  <2>1. /\ pc[r] \in Scanning /\ pc' = pc /\ left' = left /\ locked' = locked
      BY <1>1, <1>9 DEF SkipRow, Scan, Types
  <2>2. Row(r)' = Row(r)
      BY <1>2 DEF Row
  <2>. QED
      BY <1>1, <1>2, <1>4, <2>1, <2>2 DEF Scanning
<1>10. CASE CountEnough(r)
    BY <1>1, <1>2, <1>4, <1>10 DEF CountEnough, Types, EnoughOwners, Row
<1>11. CASE LockInvite(r)
    BY <1>1, <1>2, <1>4, <1>11 DEF LockInvite, Types
<1>12. CASE InsertMember(r)
    BY <1>1, <1>2, <1>4, <1>12 DEF InsertMember, Types
<1>13. CASE LockTenant(r)
    BY <1>1, <1>2, <1>4, <1>13 DEF LockTenant, Types
<1>14. CASE FindVacant(r)
    BY <1>1, <1>2, <1>4, <1>14 DEF FindVacant, Types
<1>. QED
    BY <1>6, <1>7, <1>8, <1>9, <1>10, <1>11, <1>12, <1>13, <1>14 DEF Steps

\* A request that joins somebody gives a tenant a member, and takes no owner.
LEMMA JoinsOwned ==
    ASSUME IInv, NEW t \in Tenants, NEW u \in Users, Joins(t, u), UNCHANGED offer,
           Owners(t) # {} \/ role'[t][u] = "owner"
    PROVE  OwnersFirst' /\ OwnersStay
<1>1. Types /\ offer \in [Invites -> Offers \cup {NoInvite}]
    BY DEF IInv, Typed, Types
<1>2. OwnersStay
    BY <1>1, JoinsAdds DEF OwnersStay
<1>3. Owners(t)' # {}
    BY <1>1, <1>2 DEF OwnersStay, Owners
<1>4. \A s \in Tenants \ {t} : Team(s)' = Team(s)
    BY <1>1, JoinsAdds DEF Team
<1>5. \A s \in Tenants : Team(s)' # {} => Owners(s)' # {}
    BY <1>2, <1>3, <1>4 DEF IInv, OwnersFirst, OwnersStay
<1>6. \A i \in Invites : offer[i] # NoInvite => offer[i].tenant \in Tenants
    BY <1>1 DEF Offers
<1>7. ASSUME NEW i \in Invites, offer[i] # NoInvite
      PROVE  \E v \in Users : role'[offer[i].tenant][v] = "owner"
    BY <1>2, <1>6, <1>7 DEF IInv, OwnersFirst, OwnersStay, Owners
<1>. QED
    BY <1>2, <1>5, <1>7 DEF OwnersFirst, Owners

LEMMA TablesHold ==
    ASSUME IInv
    PROVE  /\ \A t \in Tenants : CreateTenant(t) => Holds' /\ OwnersStay
           /\ \A t \in Tenants, u \in Users : CreateOwnedTenant(t, u) => Holds' /\ OwnersStay
           /\ \A i \in Invites : TimePasses(i) => Holds' /\ OwnersStay
<1>1. ASSUME UNCHANGED <<role, offer, invUses, pc, at, row, inv, locked, left, cursor>>
      PROVE  Holds' /\ OwnersStay
    BY <1>1 DEF IInv, Holds, Held, UsesOf, OwnersFirst, OwnersStay, Owners, Team, EnoughOwners, Row
<1>2. ASSUME NEW t \in Tenants, NEW u \in Users, CreateOwnedTenant(t, u)
      PROVE  Holds' /\ OwnersStay
  <2>1. /\ t \notin tenants /\ role' = [role EXCEPT ![t][u] = "owner"]
        /\ UNCHANGED <<offer, invUses, pc, at, row, inv, locked, left>>
      BY <1>2 DEF CreateOwnedTenant
  <2>2. Types /\ Joins(t, u) /\ role'[t][u] = "owner"
      BY <2>1 DEF IInv, Typed, Types, Founded, Team, Joins, Roles
  <2>3. ASSUME NEW q \in Requests  PROVE Held(q)'
    <3>1. pc[q] \in {"joined", "vacant"} => at[q] # t
        BY <2>1 DEF IInv, Typed, Slots, Slot
    <3>2. Spared(q)
        BY <2>1, <2>2, <3>1, JoinsSpares DEF IInv
    <3>. QED
        BY <2>1, <2>2, <3>2, HeldIfSpared DEF IInv
  <2>4. \A i \in Invites : UsesOf(i)'
      BY <2>1 DEF IInv, UsesOf
  <2>. QED
      BY <2>1, <2>2, <2>3, <2>4, JoinsOwned DEF Holds
<1>. QED
    BY <1>1, <1>2 DEF CreateTenant, TimePasses

LEMMA CreateInviteHolds ==
    ASSUME IInv, NEW r \in Requests, NEW i \in Invites, NEW o \in Offers,
           CreateInvite(r, i, o)
    PROVE  Holds' /\ OwnersStay
<1>1. /\ End(r) /\ UNCHANGED <<role, invUses, left>>
      /\ pc[r] = "mayInvite" /\ offer[i] = NoInvite /\ o.tenant = at[r]
      /\ offer' = [offer EXCEPT ![i] = o]
    BY DEF CreateInvite
<1>2. Types /\ Held(r) /\ Owners(at[r]) # {}
    BY <1>1 DEF IInv, Typed, Held
<1>3. Alone(r) /\ pc'[r] = "idle"
    BY <1>1, <1>2, EndsIdle
<1>4. ASSUME NEW q \in Requests \ {r}  PROVE Held(q)'
  <2>1. Slot(q) /\ Held(q)
      BY DEF IInv, Typed, Slots
  <2>2. pc[q] \in {"inviteLocked", "joined"} => inv[q] # i
      BY <1>1, <2>1 DEF Slot, Accepting
  <2>3. Spared(q)
      BY <1>1, <1>2, <2>1, <2>2 DEF Spared, Held, Slot, Team, Owners, Accepting, Types
  <2>. QED
      BY <1>2, <1>3, <2>1, <2>3, SparedHolds
<1>5. Held(r)'
    BY <1>3 DEF Held, Locking
<1>6. \A j \in Invites : UsesOf(j)'
  <2>1. invUses[i] = 0 /\ o.max >= 0
      BY <1>1 DEF IInv, UsesOf, Offers
  <2>. QED
      BY <1>1, <1>2, <2>1 DEF IInv, UsesOf, Types
<1>7. OwnersFirst' /\ OwnersStay
    BY <1>1, <1>2 DEF IInv, OwnersFirst, OwnersStay, Owners, Team, Types
<1>. QED
    BY <1>4, <1>5, <1>6, <1>7 DEF Holds

\* Accepting adds somebody who was not there, through an invite whose row lock
\* keeps others from using it, to a tenant whose foreign-key lock keeps claims away.
LEMMA CommitAcceptHolds ==
    ASSUME IInv, NEW r \in Requests, CommitAccept(r)
    PROVE  /\ Holds' /\ OwnersStay
           /\ Joins(at[r], row[r]) /\ at[r] \in Tenants /\ row[r] \in Users
<1>. DEFINE t == at[r]
            u == row[r]
            i == inv[r]
<1>1. /\ Types /\ End(r) /\ UNCHANGED <<offer, left>> /\ pc[r] = "joined"
      /\ t \in Tenants /\ u \in Users /\ i \in Invites
      /\ offer[i] # NoInvite /\ t = offer[i].tenant
      /\ invUses' = [invUses EXCEPT ![i] = @ + 1]
    BY Accepts DEF IInv, Typed, Types
<1>2. Held(r) /\ role[t][u] = "none" /\ invUses[i] < offer[i].max
    BY <1>1 DEF IInv, Held, Team
<1>3. Joins(t, u)
    BY <1>2, Accepts DEF IInv, Joins
<1>4. Alone(r) /\ pc'[r] = "idle"
    BY <1>1, EndsIdle
<1>5. ASSUME NEW q \in Requests \ {r}  PROVE Held(q)'
  <2>1. Apart(q, r) /\ Held(q) /\ Slot(q)
      BY DEF IInv, Exclusive, Typed, Slots
  <2>2. pc[q] = "joined" /\ at[q] = t => row[q] # u
      BY <1>1, <2>1 DEF Apart, SharesTenant
  <2>3. pc[q] = "vacant" => at[q] # t
      BY <1>1, <2>1 DEF Apart, SharesTenant, HoldsTenant
  <2>4. pc[q] \in {"inviteLocked", "joined"} => inv[q] # i /\ inv[q] \in Invites
      BY <1>1, <2>1 DEF Apart, HoldsInvite, Slot, Accepting
  <2>5. pc[q] \in {"inviteLocked", "joined"} => invUses'[inv[q]] = invUses[inv[q]]
      BY <1>1, <2>4 DEF Types
  <2>6. Spared(q)
      BY <1>1, <1>3, <2>1, <2>2, <2>3, <2>5, JoinsSpares DEF IInv
  <2>. QED
      BY <1>1, <1>4, <2>1, <2>6, SparedHolds
<1>6. Held(r)'
    BY <1>4 DEF Held, Locking
<1>7. \A j \in Invites : UsesOf(j)'
  <2>1. offer[i].max \in Nat
      BY <1>1 DEF Types, Offers
  <2>. QED
      BY <1>1, <1>2, <2>1 DEF IInv, UsesOf, Types
<1>8. Owners(t) # {}
    BY <1>1 DEF IInv, OwnersFirst
<1>9. OwnersFirst' /\ OwnersStay
    BY <1>1, <1>3, <1>8, JoinsOwned
<1>. QED
    BY <1>1, <1>3, <1>5, <1>6, <1>7, <1>9 DEF Holds

\* The row lock of ClaimTenant keeps the tenant empty until it commits, so the
\* claim is never refused by the primary key.
LEMMA CommitClaimHolds ==
    ASSUME IInv, NEW r \in Requests, CommitClaim(r)
    PROVE  /\ Holds' /\ OwnersStay
           /\ Joins(at[r], row[r]) /\ at[r] \in Tenants /\ row[r] \in Users
           /\ UNCHANGED invUses
<1>. DEFINE t == at[r]
            u == row[r]
<1>1. /\ End(r) /\ UNCHANGED <<offer, invUses, left>> /\ pc[r] = "vacant"
    BY DEF CommitClaim
<1>2. Types /\ Held(r) /\ Slot(r) /\ Team(t) = {}
    BY <1>1 DEF IInv, Typed, Slots, Held
<1>3. t \in Tenants /\ u \in Users
    BY <1>1, <1>2 DEF Slot, Types
<1>4. role[t][u] = "none" /\ role' = [role EXCEPT ![t][u] = "owner"]
    BY <1>2, <1>3 DEF CommitClaim, Team
<1>5. Joins(t, u) /\ role'[t][u] = "owner"
    BY <1>2, <1>3, <1>4 DEF Joins, Roles, Types
<1>6. Alone(r) /\ pc'[r] = "idle"
    BY <1>1, <1>2, EndsIdle
<1>7. ASSUME NEW q \in Requests \ {r}  PROVE Held(q)'
  <2>1. Apart(r, q) /\ Held(q)
      BY DEF IInv, Exclusive
  <2>2. pc[q] \in {"joined", "vacant"} => at[q] # t
      BY <1>1, <1>3, <2>1 DEF Apart, SharesTenant, HoldsTenant
  <2>3. Spared(q)
      BY <1>1, <1>3, <1>5, <2>1, <2>2, JoinsSpares DEF IInv
  <2>. QED
      BY <1>2, <1>6, <2>1, <2>3, SparedHolds
<1>8. Held(r)'
    BY <1>6 DEF Held, Locking
<1>9. \A j \in Invites : UsesOf(j)'
    BY <1>1 DEF IInv, UsesOf
<1>10. OwnersFirst' /\ OwnersStay
    BY <1>1, <1>3, <1>5, JoinsOwned
<1>. QED
    BY <1>1, <1>3, <1>5, <1>7, <1>8, <1>9, <1>10 DEF Holds

\* A request deletes a member of a tenant, or one of two owners it has locked:
\* an owner is left.
LEMMA DeletesSecond ==
    ASSUME IInv, NEW r \in Requests, Delete(r)
    PROVE  Owners(at[r]) \ {row[r]} # {}
<1>1. Types /\ Held(r) /\ Slot(r)
    BY DEF IInv, Typed, Slots
<1>2. pc[r] \in Locking /\ at[r] \in Tenants
    BY <1>1 DEF Delete, Slot, Types, Locking
<1>3. CASE pc[r] = "counted"
  <2>1. /\ \A m \in locked[r] : m[1] = at[r] /\ m[2] \in Owners(at[r])
        /\ Cardinality(locked[r]) > 1 /\ Row(r) \in locked[r]
      BY <1>1, <1>2, <1>3 DEF Held, EnoughOwners
  <2>2. Cardinality({Row(r)}) = 1
      BY FS_Singleton
  <2>3. PICK m \in locked[r] : m # Row(r)
      BY <2>1, <2>2
  <2>4. m \in Rows
      BY <1>1 DEF Types
  <2>5. m = <<m[1], m[2]>>
      BY <2>4 DEF Rows
  <2>6. m[2] # row[r]
      BY <2>1, <2>3, <2>5 DEF Row
  <2>. QED
      BY <2>1, <2>6
<1>4. CASE role[at[r]][row[r]] = "member"
  <2>1. Team(at[r]) # {}
      BY <1>1, <1>2 DEF Held
  <2>2. Owners(at[r]) # {}
      BY <1>2, <2>1 DEF IInv, OwnersFirst
  <2>. QED
      BY <1>4, <2>2 DEF Owners
<1>. QED
    BY <1>3, <1>4 DEF Delete

\* A row is deleted by the request that has locked it: it is a member's, or one
\* of two owners' that the request has locked.
LEMMA DeleteHolds ==
    ASSUME IInv, NEW r \in Requests, Delete(r)
    PROVE  /\ Holds' /\ OwnersStay
           /\ UNCHANGED invUses
           /\ \A t \in Tenants, u \in Users : role'[t][u] \in {"none", role[t][u]}
<1>. DEFINE t == at[r]
            u == row[r]
<1>1. /\ End(r) /\ UNCHANGED <<offer, invUses>>
      /\ pc[r] = "counted" \/ (pc[r] = "targetLocked" /\ role[t][u] = "member")
      /\ role' = [role EXCEPT ![t][u] = "none"]
      /\ left' = [q \in Requests |-> left[q] \ {Row(r)}]
    BY DEF Delete
<1>2. Types /\ Held(r) /\ Slot(r)
    BY DEF IInv, Typed, Slots
<1>3. t \in Tenants /\ u \in Users /\ Row(r) \in locked[r] /\ Row(r) = <<t, u>>
    BY <1>1, <1>2 DEF Slot, Types, Held, Locking, Row
<1>4. \A s \in Tenants, v \in Users :
          role'[s][v] = IF <<s, v>> = <<t, u>> THEN "none" ELSE role[s][v]
    BY <1>1, <1>2, <1>3 DEF Types
<1>5. Alone(r) /\ pc'[r] = "idle"
    BY <1>1, <1>2, EndsIdle
<1>6. \E v \in Owners(t) : v # u
    BY DeletesSecond
<1>7. OwnersStay
    BY <1>3, <1>4, <1>6 DEF OwnersStay, Owners
<1>8. OwnersFirst'
  <2>1. \A s \in Tenants : Team(s)' \subseteq Team(s)
      BY <1>4 DEF Team
  <2>2. \A s \in Tenants : Team(s)' # {} => Owners(s)' # {}
      BY <1>7, <2>1 DEF IInv, OwnersFirst, OwnersStay
  <2>3. ASSUME NEW i \in Invites, offer[i] # NoInvite
        PROVE  \E v \in Users : role'[offer[i].tenant][v] = "owner"
    <3>1. offer[i].tenant \in Tenants
        BY <1>2, <2>3 DEF Types, Offers
    <3>. QED
        BY <1>7, <2>3, <3>1 DEF IInv, OwnersFirst, OwnersStay, Owners
  <2>. QED
      BY <1>1, <2>2, <2>3 DEF OwnersFirst, Owners
<1>9. ASSUME NEW q \in Requests \ {r}  PROVE Held(q)'
  <2>1. Apart(r, q) /\ Held(q) /\ Slot(q) /\ locked[q] \subseteq Rows /\ left[q] \subseteq Rows
      BY <1>2 DEF IInv, Exclusive, Typed, Slots, Types
  <2>2. <<t, u>> \notin locked[q]
      BY <1>3, <2>1 DEF Apart
  <2>3. left'[q] \subseteq left[q] /\ <<t, u>> \notin left'[q]
      BY <1>1, <1>3
  <2>4. ASSUME pc[q] \in Locking, NEW m \in locked[q] \cup left'[q]
        PROVE  role'[at[q]][m[2]] = role[at[q]][m[2]]
    <3>1. m \in Rows /\ m # <<t, u>>
        BY <2>1, <2>2, <2>3
    <3>2. m = <<m[1], m[2]>> /\ m[2] \in Users
        BY <3>1 DEF Rows
    <3>3. Row(q)[1] = at[q] /\ at[q] \in Tenants
        BY <1>2, <2>1, <2>4 DEF Row, Slot, Types, Locking
    <3>4. m[1] = at[q]
        BY <2>1, <2>3, <2>4, <3>3 DEF Held, Slot, Locking, Scanning
    <3>5. <<at[q], m[2]>> # <<t, u>>
        BY <3>1, <3>2, <3>4
    <3>. QED
        BY <1>4, <3>2, <3>3, <3>5
  <2>5. pc[q] = "joined" => role'[at[q]][row[q]] = "none"
      BY <1>2, <1>4, <2>1 DEF Slot, Types, Held, Team
  <2>6. pc[q] = "vacant" => \A v \in Users : role'[at[q]][v] = "none"
      BY <1>2, <1>4, <2>1 DEF Slot, Types, Held, Team
  <2>7. pc[q] = "mayInvite" => \E v \in Users : role'[at[q]][v] = "owner"
      BY <1>2, <1>7, <2>1 DEF Slot, Types, Held, OwnersStay, Owners
  <2>8. Spared(q)
      BY <1>1, <2>3, <2>4, <2>5, <2>6, <2>7 DEF Spared
  <2>. QED
      BY <1>2, <1>5, <2>1, <2>8, SparedHolds
<1>10. Held(r)'
    BY <1>5 DEF Held, Locking
<1>11. \A j \in Invites : UsesOf(j)'
    BY <1>1 DEF IInv, UsesOf
<1>. QED
    BY <1>1, <1>4, <1>7, <1>8, <1>9, <1>10, <1>11 DEF Holds
-------------------------------------------------------------------------------
LEMMA IInvNext == IInv /\ [Next]_vars => IInv' /\ OwnersStay
<1>. SUFFICES ASSUME IInv, [Next]_vars PROVE IInv' /\ OwnersStay
    OBVIOUS
<1>1. Typed' /\ Exclusive'
    BY TypedNext, ExclusiveNext DEF IInv
<1>2. Holds' /\ OwnersStay
  <2>1. CASE UNCHANGED vars
      BY <2>1 DEF vars, IInv, Holds, Held, UsesOf, OwnersFirst, OwnersStay, Owners, Team,
                  EnoughOwners, Row
  <2>. QED
      BY <2>1, NextCases, TablesHold, ArriveHolds, StepsHolds, GivesHolds, DeleteHolds,
         CreateInviteHolds, CommitAcceptHolds, CommitClaimHolds
<1>. QED
    BY <1>1, <1>2 DEF IInv, Holds

\* The inductive invariant: what requests hold, and what they have found out.
THEOREM Invariance == Spec => []IInv
<1>1. Init => IInv
  <2>. SUFFICES ASSUME Init PROVE IInv
      OBVIOUS
  <2>1. Typed
      BY DEF Init, Typed, Types, Slots, Slot, Founded, Team, Roles, Points, Accepting
  <2>2. Exclusive
      BY DEF Init, Exclusive, Apart, HoldsInvite, HoldsTenant, SharesTenant
  <2>3. \A r \in Requests : Held(r)
      BY DEF Init, Held, Locking
  <2>4. (\A i \in Invites : UsesOf(i)) /\ OwnersFirst
      BY DEF Init, UsesOf, OwnersFirst, Team
  <2>. QED
      BY <2>1, <2>2, <2>3, <2>4 DEF IInv
<1>. QED
    BY <1>1, IInvNext, PTL DEF Spec

\* A tenant with members or invites has an owner.
THEOREM Ownership == Spec => []OwnersFirst
<1>1. IInv => OwnersFirst
    BY DEF IInv
<1>. QED
    BY <1>1, Invariance, PTL

\* No claim takes over a tenant that somebody got into after it was found empty.
THEOREM Vacancy == Spec => []ClaimsOnlyVacant
<1>1. IInv => ClaimsOnlyVacant
    BY DEF IInv, Held, ClaimsOnlyVacant
<1>. QED
    BY <1>1, Invariance, PTL

\* Of the requests that have joined through an invite and not committed there is
\* one at most, and it has seen a use left.
THEOREM Limits == Spec => []InvitesWithinLimit
<1>1. IInv => InvitesWithinLimit
  <2>. SUFFICES ASSUME IInv, NEW i \in Invites, offer[i] # NoInvite
                PROVE  invUses[i] + Cardinality({r \in Requests : pc[r] = "joined" /\ inv[r] = i})
                           <= offer[i].max
      BY DEF InvitesWithinLimit
  <2>. DEFINE J == {r \in Requests : pc[r] = "joined" /\ inv[r] = i}
  <2>1. invUses[i] \in Nat /\ offer[i].max \in Nat /\ invUses[i] <= offer[i].max
      BY DEF IInv, Typed, Types, Offers, UsesOf
  <2>2. CASE J = {}
      BY <2>1, <2>2, FS_EmptySet
  <2>3. CASE J # {}
    <3>1. PICK r \in J : TRUE
        BY <2>3
    <3>2. \A q \in J : q = r
        BY <3>1 DEF IInv, Exclusive, Apart, HoldsInvite
    <3>3. J = {r} /\ Cardinality({r}) = 1
        BY <3>1, <3>2, FS_Singleton
    <3>4. invUses[i] < offer[i].max
        BY <3>1 DEF IInv, Held
    <3>. QED
        BY <2>1, <3>3, <3>4
  <2>. QED
      BY <2>2, <2>3
<1>. QED
    BY <1>1, Invariance, PTL

\* The last owner of a tenant is never removed, whoever removes whom at once.
THEOREM LastOwnerStays == Spec => OwnerRemains
<1>1. IInv /\ [Next]_vars => [\A t \in Tenants : Owners(t) # {} => Owners(t)' # {}]_vars
    BY IInvNext DEF OwnersStay
<1>. QED
    BY <1>1, Invariance, PTL DEF Spec, OwnerRemains

\* Whoever waits for a tenant waits for a request that waits for nobody, and whoever
\* waits for an invite, for one that waits for a tenant or a refresh: a circle goes
\* through the rows of members alone.  Without rivals, counts and refreshes alternate
\* in it; a count waits for a refresh of a user with a row in its tenant, which waits
\* for a count of another tenant, and that one for a refresh of another user.
THEOREM Circles == Spec => []OnlyScansDeadlock
<1>1. IInv => OnlyScansDeadlock
  <2>. SUFFICES ASSUME IInv, NEW S \in SUBSET Requests, Stuck(S)
                PROVE  LET Counts == {r \in S : pc[r] = "counting"}
                           Refreshes == {r \in S : pc[r] = "refreshing"}
                       IN  /\ Stuck(Counts \cup Refreshes)
                           /\ \/ \E r, q \in S : Rivals(r, q)
                              \/ /\ \E r, q \in Counts : at[r] # at[q]
                                 /\ \E r, q \in Refreshes : row[r] # row[q]
      BY DEF OnlyScansDeadlock
  <2>. DEFINE Counts == {r \in S : pc[r] = "counting"}
              Refreshes == {r \in S : pc[r] = "refreshing"}
              C == Counts \cup Refreshes
  <2>0. \A r \in S : Slot(r) /\ Held(r)
      BY DEF IInv, Typed, Slots
  <2>1. \A r \in S : \E q \in S : Waits(r, q)
      BY DEF Stuck
  <2>2. \A r \in S : pc[r] \in {"mayRemove", "counting", "refreshing", "mayInvite", "begun",
                                "inviteLocked", "mayClaim"}
      BY <2>1 DEF Waits, Scanning
  <2>3. \A r \in S : pc[r] \notin {"mayInvite", "mayClaim"}
      BY <2>1, <2>2 DEF Waits, HoldsTenant, SharesTenant, Scanning
  <2>4. \A r, q \in S : Waits(r, q) /\ Row(r) \in locked[q] => q \in C
      BY <2>0, <2>2 DEF Slot, Holding, Locking
  <2>5. \A r \in S : pc[r] = "inviteLocked" => \E q \in C : Waits(r, q)
    <3>. SUFFICES ASSUME NEW r \in S, pc[r] = "inviteLocked" PROVE \E q \in C : Waits(r, q)
        OBVIOUS
    <3>1. PICK q \in S : Waits(r, q)
        BY <2>1
    <3>2. pc[q] = "refreshing"
        BY <2>2, <3>1 DEF Waits, HoldsTenant, SharesTenant, Scanning
    <3>. QED
        BY <3>1, <3>2
  <2>6. \A r \in C : \E q \in C : Waits(r, q)
    <3>. SUFFICES ASSUME NEW r \in C PROVE \E q \in C : Waits(r, q)
        OBVIOUS
    <3>1. PICK q \in S : Waits(r, q)
        BY <2>1
    <3>2. locked[q] # {}
        BY <3>1 DEF Waits
    <3>3. pc[q] \in Holding
        BY <2>0, <3>2 DEF Slot
    <3>. QED
        BY <2>2, <3>1, <3>3 DEF Holding, Locking
  <2>7. C # {}
    <3>1. PICK r \in S : TRUE
        BY DEF Stuck
    <3>2. PICK q \in S : Waits(r, q)
        BY <2>1
    <3>3. CASE pc[r] = "mayRemove"
        BY <2>4, <3>2, <3>3 DEF Waits, Scanning
    <3>4. CASE pc[r] = "begun"
      <4>1. pc[q] = "inviteLocked"
          BY <2>2, <3>2, <3>4 DEF Waits, HoldsInvite, Scanning
      <4>. QED
          BY <2>5, <4>1
    <3>. QED
        BY <2>2, <2>3, <2>5, <3>3, <3>4
  <2>8. Stuck(C)
      BY <2>6, <2>7 DEF Stuck
  <2>9. ASSUME ~\E r, q \in S : Rivals(r, q)
        PROVE  /\ \E r, q \in Counts : at[r] # at[q]
               /\ \E r, q \in Refreshes : row[r] # row[q]
    <3>1. \A r \in Counts : \E q \in Refreshes :
              /\ cursor[r] \in left[r] \cap locked[q]
              /\ cursor[r][1] = at[r] /\ cursor[r][2] = row[q]
      <4>. SUFFICES ASSUME NEW r \in Counts
                    PROVE  \E q \in Refreshes :
                              /\ cursor[r] \in left[r] \cap locked[q]
                              /\ cursor[r][1] = at[r] /\ cursor[r][2] = row[q]
          OBVIOUS
      <4>1. PICK q \in C : Waits(r, q)
          BY <2>6
      <4>2. cursor[r] \in left[r] \cap locked[q] /\ q # r
          BY <4>1 DEF Waits
      <4>3. cursor[r][1] = at[r]
          BY <2>0, <4>2 DEF Held
      <4>4. CASE q \in Refreshes
          BY <2>0, <4>2, <4>3, <4>4 DEF Slot
      <4>5. CASE q \in Counts
        <5>1. cursor[r][1] = at[q]
            BY <2>0, <4>2, <4>5 DEF Held
        <5>2. Rivals(r, q)
            BY <4>2, <4>3, <4>5, <5>1 DEF Rivals
        <5>. QED
            BY <2>9, <5>2
      <4>. QED
          BY <4>4, <4>5
    <3>2. \A r \in Refreshes : \E q \in Counts :
              /\ cursor[r] \in left[r] \cap locked[q]
              /\ cursor[r][1] = at[q] /\ cursor[r][2] = row[r]
      <4>. SUFFICES ASSUME NEW r \in Refreshes
                    PROVE  \E q \in Counts :
                              /\ cursor[r] \in left[r] \cap locked[q]
                              /\ cursor[r][1] = at[q] /\ cursor[r][2] = row[r]
          OBVIOUS
      <4>1. PICK q \in C : Waits(r, q)
          BY <2>6
      <4>2. cursor[r] \in left[r] \cap locked[q] /\ q # r
          BY <4>1 DEF Waits
      <4>3. cursor[r][2] = row[r]
          BY <2>0, <4>2 DEF Slot
      <4>4. CASE q \in Counts
          BY <2>0, <4>2, <4>3, <4>4 DEF Held
      <4>5. CASE q \in Refreshes
        <5>1. cursor[r][2] = row[q]
            BY <2>0, <4>2, <4>5 DEF Slot
        <5>2. Rivals(r, q)
            BY <4>2, <4>3, <4>5, <5>1 DEF Rivals
        <5>. QED
            BY <2>9, <5>2
      <4>. QED
          BY <4>4, <4>5
    <3>3. \A r \in C : left[r] \subseteq Rows
        BY DEF IInv, Typed, Types
    <3>4. \A r \in Counts, q \in Refreshes : locked[r] \cap locked[q] = {}
        BY DEF IInv, Exclusive, Apart
    <3>5. PICK r1 \in Counts : TRUE
        BY <2>7, <3>2
    <3>6. PICK q1 \in Refreshes : /\ cursor[r1] \in left[r1] \cap locked[q1]
                                  /\ cursor[r1][1] = at[r1] /\ cursor[r1][2] = row[q1]
        BY <3>1
    <3>7. PICK r2 \in Counts : /\ cursor[q1] \in left[q1] \cap locked[r2]
                               /\ cursor[q1][1] = at[r2] /\ cursor[q1][2] = row[q1]
        BY <3>2
    <3>8. PICK q2 \in Refreshes : /\ cursor[r2] \in left[r2] \cap locked[q2]
                                  /\ cursor[r2][1] = at[r2] /\ cursor[r2][2] = row[q2]
        BY <3>1
    <3>9. \A m \in Rows : m = <<m[1], m[2]>>
        BY DEF Rows
    <3>10. at[r1] # at[r2]
      <4>1. SUFFICES ASSUME at[r1] = at[r2] PROVE FALSE
          OBVIOUS
      <4>2. cursor[r1] = cursor[q1]
          BY <3>3, <3>6, <3>7, <3>9, <4>1
      <4>. QED
          BY <3>4, <3>6, <3>7, <4>2
    <3>11. row[q1] # row[q2]
      <4>1. SUFFICES ASSUME row[q1] = row[q2] PROVE FALSE
          OBVIOUS
      <4>2. cursor[q1] = cursor[r2]
          BY <3>3, <3>7, <3>8, <3>9, <4>1
      <4>. QED
          BY <3>4, <3>7, <3>8, <4>2
    <3>. QED
        BY <3>10, <3>11
  <2>. QED
      BY <2>8, <2>9
<1>. QED
    BY <1>1, Invariance, PTL

\* Nobody's role changes, and the uses of an invite count those who joined by it.
THEOREM RolesLast == Spec => RolesKept
<1>. DEFINE Kept == \A t \in Tenants, u \in Users :
                        role[t][u] # "none" /\ role'[t][u] # "none" => role'[t][u] = role[t][u]
            Counts == \A i \in Invites : invUses'[i] # invUses[i] =>
                        \E u \in Users : u \notin Team(offer[i].tenant)
                                         /\ u \in Team(offer[i].tenant)'
<1>1. IInv /\ [Next]_vars => [Kept /\ Counts]_vars
  <2>. SUFFICES ASSUME IInv, [Next]_vars PROVE Kept /\ Counts
      OBVIOUS
  <2>1. Types
      BY DEF IInv, Typed
  <2>2. ASSUME UNCHANGED <<role, invUses>>  PROVE Kept /\ Counts
      BY <2>2
  <2>3. ASSUME NEW t \in Tenants, NEW u \in Users, Joins(t, u)  PROVE Kept
      BY <2>1, <2>3, JoinsAdds DEF Joins
  <2>4. ASSUME NEW t \in Tenants, NEW u \in Users, CreateOwnedTenant(t, u)
        PROVE  Kept /\ Counts
    <3>1. Joins(t, u) /\ UNCHANGED invUses
        BY <2>4 DEF CreateOwnedTenant, Joins, Roles, IInv, Typed, Founded, Team
    <3>. QED  BY <2>3, <3>1
  <2>5. ASSUME NEW r \in Requests, Delete(r)  PROVE Kept /\ Counts
      BY <2>5, DeleteHolds
  <2>6. ASSUME NEW r \in Requests, CommitClaim(r)  PROVE Kept /\ Counts
      BY <2>3, <2>6, CommitClaimHolds
  <2>7. ASSUME NEW r \in Requests, CommitAccept(r)  PROVE Kept /\ Counts
    <3>1. Kept
        BY <2>3, <2>7, CommitAcceptHolds
    <3>2. /\ role' = [role EXCEPT ![at[r]][row[r]] = offer[inv[r]].role]
          /\ invUses' = [invUses EXCEPT ![inv[r]] = @ + 1] /\ UNCHANGED offer
          /\ at[r] = offer[inv[r]].tenant /\ inv[r] \in Invites
        BY <2>7, Accepts DEF IInv
    <3>3. Joins(at[r], row[r]) /\ at[r] \in Tenants /\ row[r] \in Users
        BY <2>7, CommitAcceptHolds
    <3>4. row[r] \notin Team(at[r]) /\ Team(at[r]) \cup {row[r]} = {v \in Users : role'[at[r]][v] # "none"}
        BY <2>1, <3>3, JoinsAdds DEF Joins, Team, Roles, Types
    <3>5. ASSUME NEW i \in Invites, invUses'[i] # invUses[i]
          PROVE  \E v \in Users : v \notin Team(offer[i].tenant) /\ role'[offer[i].tenant][v] # "none"
        BY <2>1, <3>2, <3>3, <3>4, <3>5 DEF Types
    <3>6. Counts
        BY <3>2, <3>5 DEF Team
    <3>. HIDE DEF Kept, Counts
    <3>. QED
        BY <3>1, <3>6
  <2>8. ASSUME NEW r \in Requests, Arrive(r)  PROVE UNCHANGED <<role, invUses>>
      BY <2>8 DEF Arrive, Refresh, AuthoriseRemove, AuthoriseInvite, BeginAccept, AskClaim,
                  Ask, tables
  <2>9. ASSUME NEW r \in Requests, Steps(r)  PROVE UNCHANGED <<role, invUses>>
      BY <2>9 DEF Steps, LockTarget, StartCount, LockRow, SkipRow, CountEnough, LockInvite,
                  InsertMember, LockTenant, FindVacant, tables
  <2>10. \/ \E t \in Tenants : CreateTenant(t)
         \/ \E i \in Invites : TimePasses(i)
         \/ \E r \in Requests : Gives(r)
         \/ \E r \in Requests, i \in Invites, o \in Offers : CreateInvite(r, i, o)
         \/ UNCHANGED vars
         => UNCHANGED <<role, invUses>>
      BY DEF CreateTenant, TimePasses, Gives, CreateInvite, tables, vars
  <2>. HIDE DEF Kept, Counts
  <2>. QED
      BY <2>2, <2>4, <2>5, <2>6, <2>7, <2>8, <2>9, <2>10, NextCases
<1>. QED
    BY <1>1, Invariance, PTL DEF Spec, RolesKept
-------------------------------------------------------------------------------
\* Transactions that remove, invite, accept and claim, interleaved in any way, do
\* what the one-step tenancy does: their commits are its steps, and what they have
\* found out before is still so when they commit.
THEOREM TransactionsImplement == Spec => RefinesTenancy
<1>1. Init => Abstract!Init
    BY DEF Init, Abstract!Init
<1>2. IInv /\ [Next]_vars => [Abstract!Next]_(Abstract!tenancy)
  <2>. SUFFICES ASSUME IInv, [Next]_vars
                PROVE  [Abstract!Next]_(Abstract!tenancy)
      OBVIOUS
  <2>. USE DEF Abstract!tenancy
  <2>0. \A t : Abstract!Team(t) = Team(t) /\ Abstract!Owners(t) = Owners(t)
      BY DEF Team, Owners, Abstract!Team, Abstract!Owners
  <2>1. ASSUME NEW t \in Tenants, CreateTenant(t) PROVE Abstract!Next
      BY <2>1 DEF CreateTenant, Abstract!Next, Abstract!Open
  <2>2. ASSUME NEW t \in Tenants, NEW u \in Users, CreateOwnedTenant(t, u)
        PROVE  Abstract!Next
      BY <2>2 DEF CreateOwnedTenant, Abstract!Next, Abstract!OpenOwned
  <2>3. ASSUME NEW r \in Requests, Delete(r) PROVE Abstract!Next
    <3>1. Held(r) /\ Slot(r) /\ Types
        BY DEF IInv, Typed, Slots
    <3>2. pc[r] \in Locking /\ at[r] \in Tenants /\ row[r] \in Team(at[r]) /\ row[r] \in Users
        BY <2>3, <3>1 DEF Delete, Held, Slot, Types, Locking, Team
    <3>3. Owners(at[r]) \ {row[r]} # {}
        BY <2>3, <3>1, <3>2, DeletesSecond
    <3>4. Abstract!Remove(at[r], row[r])
        BY <2>0, <2>3, <3>2, <3>3 DEF Delete, Abstract!Remove
    <3>. QED
        BY <3>2, <3>4 DEF Abstract!Next
  <2>4. ASSUME NEW r \in Requests, NEW i \in Invites, NEW o \in Offers, CreateInvite(r, i, o)
        PROVE  Abstract!Next
    <3>1. Owners(o.tenant) # {}
        BY <2>4 DEF IInv, Held, CreateInvite
    <3>2. Abstract!Invite(i, o)
        BY <2>0, <2>4, <3>1 DEF CreateInvite, Abstract!Invite
    <3>. QED
        BY <3>2 DEF Abstract!Next, Offers, Roles, Abstract!Offers, Abstract!Roles
  <2>5. ASSUME NEW r \in Requests, CommitAccept(r) PROVE Abstract!Next
    <3>1. /\ UNCHANGED <<tenants, offer>> /\ pc[r] = "joined" /\ row[r] \in Users
          /\ inv[r] \in Invites /\ offer[inv[r]] # NoInvite /\ at[r] = offer[inv[r]].tenant
          /\ role' = [role EXCEPT ![at[r]][row[r]] = offer[inv[r]].role]
          /\ invUses' = [invUses EXCEPT ![inv[r]] = @ + 1]
        BY <2>5, Accepts DEF IInv
    <3>2. invUses[inv[r]] < offer[inv[r]].max /\ row[r] \notin Team(at[r])
        BY <3>1 DEF IInv, Held
    <3>3. Owners(at[r]) # {}
        BY <3>1 DEF IInv, OwnersFirst
    <3>4. Abstract!Accept(inv[r], row[r])
        BY <2>0, <3>1, <3>2, <3>3 DEF Abstract!Accept
    <3>. QED
        BY <3>1, <3>4 DEF Abstract!Next
  <2>6. ASSUME NEW r \in Requests, CommitClaim(r) PROVE Abstract!Next
    <3>1. pc[r] = "vacant" /\ Team(at[r]) = {} /\ at[r] \in tenants
        BY <2>6 DEF IInv, Held, Typed, Slots, Slot, CommitClaim
    <3>2. at[r] \in Tenants /\ row[r] \in Users
        BY <2>6, CommitClaimHolds
    <3>3. Abstract!Claim(at[r], row[r])
        BY <2>0, <2>6, <3>1 DEF CommitClaim, Abstract!Claim
    <3>. QED
        BY <3>2, <3>3 DEF Abstract!Next
  <2>7. ASSUME NEW r \in Requests, Arrive(r) \/ Steps(r) \/ Gives(r)
        PROVE  UNCHANGED tables
      BY <2>7 DEF Arrive, Refresh, AuthoriseRemove, AuthoriseInvite, BeginAccept, AskClaim, Ask,
                  Steps, LockTarget, StartCount, LockRow, SkipRow, CountEnough, LockInvite,
                  InsertMember, LockTenant, FindVacant, Gives, tables
  <2>. QED
      BY <2>1, <2>2, <2>3, <2>4, <2>5, <2>6, <2>7, NextCases DEF TimePasses, tables, vars
<1>. QED
    BY <1>1, <1>2, Invariance, PTL DEF Spec, RefinesTenancy, Abstract!Spec
-------------------------------------------------------------------------------
(***************************************************************************)
(* The page on which this is done, module MembersPage, for any number of   *)
(* mutations at a time.                                                    *)
(***************************************************************************)
\* An invite that is made, and one that is shown, is of the tenant on the page, and
\* neither outlives the page.
Linked ==
    /\ shown = None => link = None
    /\ link # None => link = shown \/ slipped
    /\ \A i \in 1..MaxOps :
         ops[i].kind = "invite" => shown # None /\ (ops[i].t = shown \/ slipped)

\* A removal is of somebody.
Aimed == \A i \in 1..MaxOps : ops[i].kind = "remove" => ops[i].who \in People

PageInv == PageTypeOK /\ Linked /\ Aimed

LEMMA NoOpTyped == NoOp \in Op /\ NoOp.kind = "none"
BY DEF NoOp, Op

\* What a fetch does to a query, one field after the other.
LEMMA QueryTyped ==
    ASSUME NEW q \in Query
    PROVE  /\ \A f \in {"idle", "asked", "answered"} : [q EXCEPT !.fetch = f] \in Query
           /\ \A b \in BOOLEAN : /\ [q EXCEPT !.marked = b] \in Query
                              /\ [q EXCEPT !.err = b] \in Query
                              /\ [q EXCEPT !.loaded = b] \in Query
           /\ \A g \in SUBSET People : /\ [q EXCEPT !.got = g] \in Query
                                     /\ [q EXCEPT !.data = g] \in Query
BY DEF Query

\* The cache keeps its types, whoever invalidates and fetches.
LEMMA CacheTyped ==
    ASSUME PageTypeOK
    PROVE  /\ \A q \in Query, on \in BOOLEAN : Invalidated(q, on) \in Query
           /\ \A t \in TenantIds : Shows(t) => members' \in [TenantIds -> Query]
           /\ \A t \in TenantIds : members[t] \in Query
<1>1. \A q \in Query, on \in BOOLEAN : Invalidated(q, on) \in Query
    BY DEF Invalidated, Query
<1>2. ASSUME NEW t \in TenantIds, Shows(t) PROVE members' \in [TenantIds -> Query]
  <2>. DEFINE asked == [members[t] EXCEPT !.fetch = "asked"]
              q == [asked EXCEPT !.marked = FALSE]
  <2>1. members[t] \in Query
      BY DEF PageTypeOK
  <2>2. asked \in Query
      BY <2>1, QueryTyped
  <2>3. q \in Query
      BY <2>2, QueryTyped
  <2>4. members' = members
        \/ members' = [members EXCEPT ![t].fetch = "asked", ![t].marked = FALSE]
      BY <1>2 DEF Shows
  <2>5. ASSUME members' = [members EXCEPT ![t].fetch = "asked", ![t].marked = FALSE]
        PROVE  members' = [members EXCEPT ![t] = q]
      BY <2>5 DEF PageTypeOK
  <2>. HIDE DEF q
  <2>. QED
      BY <2>3, <2>4, <2>5 DEF PageTypeOK
<1>. QED
    BY <1>1, <1>2 DEF PageTypeOK

\* Who a mutation is about stays, whatever becomes of it.
LEMMA OpTyped ==
    ASSUME NEW o \in Op
    PROVE  /\ \A b \in BOOLEAN :
                LET x == [o EXCEPT !.held = b]
                IN  x \in Op /\ x.kind = o.kind /\ x.t = o.t /\ x.who = o.who
           /\ \A t \in TenantIds :
                LET x == [o EXCEPT !.as = t]
                IN  x \in Op /\ x.kind = o.kind /\ x.t = o.t /\ x.who = o.who
           /\ \A f \in {"sent", "done", "failed"} :
                LET x == [o EXCEPT !.phase = f]
                IN  x \in Op /\ x.kind = o.kind /\ x.t = o.t /\ x.who = o.who
BY DEF Op

\* Unmounting leaves no invite under way.
LEMMA UnmountedTyped ==
    ASSUME PageTypeOK
    PROVE  /\ Unmounted \in [1..MaxOps -> Op]
           /\ \A i \in 1..MaxOps :
                /\ Unmounted[i].kind # "invite"
                /\ Unmounted[i].kind = "remove" =>
                      ops[i].kind = "remove" /\ Unmounted[i].who = ops[i].who
BY NoOpTyped, OpTyped DEF PageTypeOK, Unmounted

LEMMA UserKeepsPage ==
    ASSUME PageInv, User
    PROVE  PageInv'
<1>. USE MembersPageAssumption DEF PageInv, PageTypeOK, Linked, Aimed
<1>1. CASE Conceal
  <2>1. changes' \in 0..MaxChanges
      BY <1>1 DEF Conceal
  <2>2. /\ shown' = None /\ link' = None /\ ops' = Unmounted
        /\ gone' = {} /\ slipped' = FALSE /\ UNCHANGED <<people, inviting, members>>
      BY <1>1 DEF Conceal
  <2>. QED
      BY <2>1, <2>2, UnmountedTyped
<1>2. CASE Leave
    BY <1>2, UnmountedTyped DEF Leave
<1>3. CASE Refetch
  <2>1. members' \in [TenantIds -> Query]
      BY <1>3, CacheTyped DEF Refetch, Query
  <2>. QED
      BY <1>3, <2>1 DEF Refetch, page, history
<1>4. CASE Invite
    BY <1>4 DEF Invite, history
<1>5. CASE Create
  <2>. DEFINE op == [kind |-> "invite", t |-> shown, who |-> None, as |-> shown,
                     phase |-> "sent", held |-> TRUE]
  <2>1. op \in Op /\ op.kind = "invite" /\ op.t = shown /\ shown # None
      BY <1>5 DEF Create, Op
  <2>2. PICK i \in 1..MaxOps : ops' = [ops EXCEPT ![i] = op]
      BY <1>5 DEF Create, Begin
  <2>3. UNCHANGED <<people, page, members, history, changes>>
      BY <1>5 DEF Create, Begin
  <2>. HIDE DEF op
  <2>. QED
      BY <2>1, <2>2, <2>3 DEF page, history
<1>6. CASE Close
  <2>1. ops' \in [1..MaxOps -> Op]
      BY <1>6, OpTyped DEF Close
  <2>2. \A i \in 1..MaxOps :
          ops'[i].kind = ops[i].kind /\ ops'[i].t = ops[i].t /\ ops'[i].who = ops[i].who
      BY <1>6, OpTyped DEF Close
  <2>. QED
      BY <1>6, <2>1, <2>2 DEF Close, history
<1>7. ASSUME NEW t \in TenantIds, Open(t) PROVE PageInv'
    BY <1>7, CacheTyped DEF Open, history
<1>8. ASSUME NEW t \in TenantIds, Slip(t) PROVE PageInv'
  <2>1. ops' \in [1..MaxOps -> Op]
      BY <1>8, OpTyped DEF Slip
  <2>2. \A i \in 1..MaxOps : ops'[i].kind = ops[i].kind /\ ops'[i].who = ops[i].who
      BY <1>8, OpTyped DEF Slip
  <2>. QED
      BY <1>8, <2>1, <2>2, CacheTyped DEF Slip
<1>9. ASSUME NEW p \in People, Remove(p) PROVE PageInv'
  <2>. DEFINE op == [kind |-> "remove", t |-> shown, who |-> p, as |-> shown,
                     phase |-> "sent", held |-> TRUE]
              others == [i \in 1..MaxOps |->
                            IF ops[i].kind = "remove" THEN [ops[i] EXCEPT !.held = FALSE]
                                                      ELSE ops[i]]
  <2>1. op \in Op /\ op.kind = "remove" /\ op.who \in People
      BY <1>9 DEF Remove, Op
  <2>2. /\ others \in [1..MaxOps -> Op]
        /\ \A i \in 1..MaxOps : /\ others[i].kind = ops[i].kind
                                /\ others[i].t = ops[i].t /\ others[i].who = ops[i].who
      BY OpTyped
  <2>3. PICK i \in 1..MaxOps : ops' = [others EXCEPT ![i] = op]
      BY <1>9 DEF Remove, Begin
  <2>4. UNCHANGED <<people, page, members, history, changes>>
      BY <1>9 DEF Remove, Begin
  <2>. HIDE DEF op, others
  <2>. QED
      BY <2>1, <2>2, <2>3, <2>4 DEF page, history
<1>. QED
    BY <1>1, <1>2, <1>3, <1>4, <1>5, <1>6, <1>7, <1>8, <1>9 DEF User

LEMMA MutationKeepsPage ==
    ASSUME PageInv, NEW i \in 1..MaxOps, Mutation(i)
    PROVE  PageInv'
<1>. USE MembersPageAssumption DEF PageInv, PageTypeOK, Linked, Aimed
<1>0. ops[i] \in Op
    OBVIOUS
<1>1. CASE Serve(i)
  <2>1. UNCHANGED <<page, members, history, changes>>
      BY <1>1 DEF Serve
  <2>2. people' \in [TenantIds -> SUBSET People]
    <3>1. people' = people
          \/ people' = [people EXCEPT ![ops[i].t] = @ \ {ops[i].who}]
        BY <1>1 DEF Serve
    <3>. QED
        BY <3>1
  <2>3. PICK out \in {"done", "failed"} : ops' = [ops EXCEPT ![i].phase = out]
      BY <1>1 DEF Serve
  <2>4. /\ ops' \in [1..MaxOps -> Op]
        /\ \A j \in 1..MaxOps : /\ ops'[j].kind = ops[j].kind
                                /\ ops'[j].t = ops[j].t /\ ops'[j].who = ops[j].who
    <3>. DEFINE x == [ops[i] EXCEPT !.phase = out]
    <3>1. x \in Op /\ x.kind = ops[i].kind /\ x.t = ops[i].t /\ x.who = ops[i].who
        BY <1>0, OpTyped
    <3>2. ops' = [ops EXCEPT ![i] = x] /\ ops \in [1..MaxOps -> Op]
        BY <2>3
    <3>. HIDE DEF x
    <3>. QED
        BY <3>1, <3>2
  <2>. QED
      BY <2>1, <2>2, <2>4 DEF page, history
<1>2. CASE Failed(i)
    BY <1>2, NoOpTyped DEF Failed, page, history
<1>3. CASE Removed(i)
  <2>1. members' \in [TenantIds -> Query]
    <3>1. Invalidated(members[ops[i].as], shown = ops[i].as) \in Query \/ ops[i].as \notin TenantIds
        BY CacheTyped
    <3>. QED
        BY <1>3, <3>1 DEF Removed
  <2>2. gone' \subseteq People
      BY <1>3 DEF Removed
  <2>. QED
      BY <1>3, <2>1, <2>2, NoOpTyped DEF Removed, page
<1>4. CASE Away(i)
  <2>1. members' \in [TenantIds -> Query]
      BY <1>4, CacheTyped DEF Away
  <2>2. ops' = [Unmounted EXCEPT ![i] = NoOp]
      BY <1>4 DEF Away
  <2>3. /\ ops' \in [1..MaxOps -> Op]
        /\ \A j \in 1..MaxOps :
             /\ ops'[j].kind # "invite"
             /\ ops'[j].kind = "remove" => ops[j].kind = "remove" /\ ops'[j].who = ops[j].who
      BY <2>2, UnmountedTyped, NoOpTyped
  <2>. QED
      BY <1>4, <2>1, <2>3 DEF Away
<1>5. CASE Invited(i)
  <2>1. link' = ops[i].t /\ link' \in TenantIds \cup {None} /\ ops[i].kind = "invite"
      BY <1>0, <1>5 DEF Invited, Op
  <2>2. shown # None /\ (link' = shown \/ slipped)
      BY <2>1
  <2>. QED
      BY <1>5, <2>1, <2>2, NoOpTyped DEF Invited, history
<1>. QED
    BY <1>1, <1>2, <1>3, <1>4, <1>5 DEF Mutation

LEMMA ListsKeepPage ==
    ASSUME PageInv, (\E t \in TenantIds : Listing(t)) \/ Environment
    PROVE  PageInv'
<1>. USE MembersPageAssumption DEF PageInv, PageTypeOK, Linked, Aimed
<1>1. ASSUME NEW t \in TenantIds, Served(t) PROVE PageInv'
  <2>. DEFINE got == IF Me \in people[t] THEN people[t] ELSE {}
              asked == [members[t] EXCEPT !.fetch = "answered"]
              q == [asked EXCEPT !.got = got]
  <2>1. got \in SUBSET People /\ asked \in Query
      BY QueryTyped
  <2>2. q \in Query
      BY <2>1, QueryTyped
  <2>3. members' = [members EXCEPT ![t] = q]
      BY <1>1 DEF Served
  <2>4. members' \in [TenantIds -> Query]
      BY <2>2, <2>3
  <2>. QED
      BY <1>1, <2>4 DEF Served, page, history
<1>2. ASSUME NEW t \in TenantIds, Arrives(t) PROVE PageInv'
  <2>. DEFINE q == members[t]
              idle == [[q EXCEPT !.fetch = "idle"] EXCEPT !.got = {}]
              listed == [[[idle EXCEPT !.data = q.got] EXCEPT !.loaded = TRUE] EXCEPT !.err = FALSE]
              refused == [[idle EXCEPT !.data = {}] EXCEPT !.err = TRUE]
  <2>1. idle \in Query /\ q.got \in SUBSET People
    <3>1. q \in Query /\ [q EXCEPT !.fetch = "idle"] \in Query
        BY QueryTyped
    <3>2. q.got \in SUBSET People
        BY <3>1 DEF Query
    <3>. QED
        BY <3>1, <3>2, QueryTyped
  <2>2. listed \in Query
    <3>1. [idle EXCEPT !.data = q.got] \in Query
        BY <2>1, QueryTyped
    <3>2. [[idle EXCEPT !.data = q.got] EXCEPT !.loaded = TRUE] \in Query
        BY <3>1, QueryTyped
    <3>. QED
        BY <3>2, QueryTyped
  <2>3. refused \in Query
    <3>1. [idle EXCEPT !.data = {}] \in Query
        BY <2>1, QueryTyped
    <3>. QED
        BY <3>1, QueryTyped
  <2>4. members' = [members EXCEPT ![t] = listed] \/ members' = [members EXCEPT ![t] = refused]
      BY <1>2 DEF Arrives
  <2>. HIDE DEF listed, refused
  <2>5. members' \in [TenantIds -> Query]
      BY <2>2, <2>3, <2>4
  <2>. QED
      BY <1>2, <2>5 DEF Arrives, page, history
<1>3. ASSUME NEW t \in TenantIds, Fails(t) PROVE PageInv'
  <2>. DEFINE idle == [members[t] EXCEPT !.fetch = "idle"]
              failed == [idle EXCEPT !.err = TRUE]
              q == [failed EXCEPT !.data = {}]
  <2>1. idle \in Query
      BY QueryTyped
  <2>2. failed \in Query
      BY <2>1, QueryTyped
  <2>3. q \in Query
      BY <2>2, QueryTyped
  <2>4. members' = [members EXCEPT ![t] = q]
      BY <1>3 DEF Fails
  <2>5. members' \in [TenantIds -> Query]
      BY <2>3, <2>4
  <2>. QED
      BY <1>3, <2>5 DEF Fails, page, history
<1>4. ASSUME NEW t \in TenantIds, NEW p \in People, Change(t, p) PROVE PageInv'
    BY <1>4 DEF Change, page
<1>. QED
    BY <1>1, <1>2, <1>3, <1>4 DEF Listing, Environment

LEMMA PageInvariance == PageSpec => []PageInv
<1>1. PageInit => PageInv
  <2>. SUFFICES ASSUME PageInit PROVE PageInv
      OBVIOUS
  <2>. DEFINE q == [loaded |-> FALSE, data |-> {}, err |-> FALSE, marked |-> FALSE,
                    fetch |-> "idle", got |-> {}]
  <2>1. q \in Query
      BY DEF Query
  <2>2. members = [t \in TenantIds |-> q]
      BY DEF PageInit
  <2>. HIDE DEF q
  <2>3. members \in [TenantIds -> Query]
      BY <2>1, <2>2
  <2>4. people \in [TenantIds -> SUBSET People]
      BY DEF PageInit
  <2>5. ops \in [1..MaxOps -> Op] /\ \A i \in 1..MaxOps : ops[i] = NoOp
      BY NoOpTyped DEF PageInit
  <2>6. changes \in 0..MaxChanges
      BY MembersPageAssumption DEF PageInit
  <2>7. shown = None /\ inviting = FALSE /\ link = None /\ gone = {} /\ slipped = FALSE
      BY DEF PageInit
  <2>. QED
      BY <2>3, <2>4, <2>5, <2>6, <2>7, NoOpTyped DEF PageInv, PageTypeOK, Linked, Aimed
<1>2. PageInv /\ [PageNext]_pageVars => PageInv'
  <2>1. PageInv /\ UNCHANGED pageVars => PageInv'
      BY DEF PageInv, PageTypeOK, Linked, Aimed, pageVars, page, history
  <2>. QED
      BY <2>1, UserKeepsPage, MutationKeepsPage, ListsKeepPage DEF PageNext
<1>. QED
    BY <1>1, <1>2, PTL DEF PageSpec

\* The types of the members page.
THEOREM PageTyping == PageSpec => []PageTypeOK
<1>1. PageInv => PageTypeOK
    BY DEF PageInv
<1>. QED
    BY <1>1, PageInvariance, PTL

\* The dialog names the tenant that its link joins, however many invites are made,
\* closed and left while answers are on their way, unless the tenant of the open
\* page has changed.
THEOREM TitledLink == PageSpec => []LinkMatchesTitle
<1>1. PageInv => LinkMatchesTitle
    BY DEF PageInv, Linked, LinkMatchesTitle
<1>. QED
    BY <1>1, PageInvariance, PTL
===============================================================================

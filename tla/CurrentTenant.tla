----------------------------- MODULE CurrentTenant -----------------------------
(***************************************************************************)
(* Which tenant the console shows (lib/current-tenant.ts): the one the URL *)
(* names, or the one remembered in localStorage, if the cached list of     *)
(* tenants has it, and the oldest of the list otherwise.  One tab of the   *)
(* user's browser, its cache, the links of the console (layout.tsx,        *)
(* tenants.tsx), and the ways to join and leave tenants (tenants.tsx,      *)
(* invite.tsx), while others, and the user in another tab, do the same.    *)
(* The browser may refuse localStorage, which the code passes over.        *)
(*                                                                         *)
(* The cache is React Query's: a query has one fetch at a time, an answer  *)
(* that changes nothing renders nothing, and invalidating a query that is  *)
(* on the page starts its fetch again and drops the one under way, unless  *)
(* that is the query's first.                                              *)
(***************************************************************************)
EXTENDS Naturals, FiniteSetsExt

CONSTANTS
    Tenants,            \* by age, the order in which they are listed
    None,               \* no tenant
    MaxOps, MaxChanges  \* bounds, not code: the user's operations; what others
                        \* and the browser do, and fetches that fail

ASSUME CurrentTenantAssumption ==
    /\ Tenants \subseteq Nat /\ IsFiniteSet(Tenants) /\ None \notin Tenants
    /\ MaxOps \in Nat /\ MaxChanges \in Nat

VARIABLES
    role,               \* role[t]: the user's, at the control plane
    at, url,            \* the page, and its ?tenant=
    stored,             \* localStorage's m2m-tenant, which all tabs share
    storage,            \* whether localStorage can be read, and written
    current,            \* the tenant that is rendered
    list,               \* tenantsQuery
    op,                 \* the mutation under way
    elsewhere,          \* history: stored is another tab's choice
    unsaved,            \* history: the tenant could not be stored
    landing,            \* history: the tenant just joined, see Joined
    ops, changes

page == <<at, url, stored, current, list>>
history == <<elsewhere, unsaved, landing>>
vars == <<role, page, storage, op, history, ops, changes>>

Role == {"none", "member", "owner"}
Unknown == [t \in Tenants |-> "none"]
Query == [loaded : BOOLEAN, data : [Tenants -> Role], err : BOOLEAN,
          fetch : {"idle", "asked", "answered"}, got : [Tenants -> Role]]
NoOp == [kind |-> "none", t |-> None, phase |-> "sent"]

In(data) == {t \in Tenants : data[t] # "none"}

Storage == {"works", "full", "blocked"}

\* remembered(): a localStorage that throws remembers nothing.
Recalled == IF storage = "blocked" THEN None ELSE stored

\* useCurrentTenant, with the list l and u in the URL.
Pick(l, u) ==
    LET wanted == IF u # None THEN u ELSE Recalled
    IN  IF In(l.data) = {} THEN None
        ELSE IF wanted \in In(l.data) THEN wanted ELSE Min(In(l.data))

\* A caller of useCurrentTenant is mounted: those of the console's layout, of the
\* machines and of the members.
Mounts(a) == a # at /\ (at = "invite" \/ a \in {"machines", "members"})

\* Its effect runs when a caller is mounted, or the tenant's entry is another.
Effect(a, l, cur) ==
    cur # None /\ (Mounts(a) \/ cur # current \/ l.data[cur] # list.data[cur])

\* A bug: the tenant is not remembered.
BugRemembered(a, l, cur) == stored

\* What the effect stores, unless localStorage throws, which is caught.
Remembered(a, l, cur) ==
    IF Effect(a, l, cur) /\ storage = "works" THEN cur ELSE stored

Ask(q) == IF q.fetch = "idle" THEN [q EXCEPT !.fetch = "asked"] ELSE q

\* invalidateQueries, with the query on the page: a first fetch goes on.
Again(q) == IF q.fetch # "idle" /\ ~q.loaded THEN q
            ELSE [q EXCEPT !.fetch = "asked", !.got = Unknown]

Init ==
    /\ role \in [Tenants -> Role]
    /\ at \in {"machines", "invite"}
    /\ url = None
    /\ stored \in Tenants \cup {None}
    /\ storage \in Storage
    /\ current = None
    /\ list = [loaded |-> FALSE, data |-> Unknown, err |-> FALSE, got |-> Unknown,
               fetch |-> IF at = "invite" THEN "idle" ELSE "asked"]
    /\ op = NoOp
    /\ elsewhere = FALSE /\ unsaved = FALSE /\ landing = None
    /\ ops = 0 /\ changes = 0

\* Page a is rendered, with u in its URL and the list l, which it fetches when it is
\* the first page of the console.
Render(a, u, l) ==
    /\ at' = a /\ url' = u
    /\ current' = IF a = "invite" THEN None ELSE Pick(l, u)
    /\ stored' = Remembered(a, l, current')
    /\ LET runs == Effect(a, l, current')
       IN  /\ elsewhere' = (elsewhere /\ ~(runs /\ storage = "works"))
           /\ unsaved' = IF runs THEN storage # "works" ELSE unsaved
    /\ storage' = storage
    /\ list' = IF at = "invite" /\ a # "invite" THEN Ask(l) ELSE l
-------------------------------------------------------------------------------
(* The user. *)

GoTo(a, u) ==
    /\ Render(a, u, list)
    /\ landing' = None
    /\ UNCHANGED <<role, op, ops, changes>>

\* AdminTabs: the tenant stays in the URL between machines and members.
Tab(a) ==
    /\ at # "invite" /\ a # at
    /\ GoTo(a, IF a \in {"machines", "members"} THEN url ELSE None)

\* The logo of the console; "Not now" of an invite.
Machines == GoTo("machines", None)

\* An entry of TenantSwitcher, or of the table of tenants.
Choose(t) == at # "invite" /\ t \in In(list.data) /\ GoTo("machines", t)

\* Anything of the page that calls useCurrentTenant again, like opening a dialog.
Glance ==
    /\ at # "invite"
    /\ Render(at, url, list)
    /\ UNCHANGED <<role, op, landing, ops, changes>>

Mutate(kind, t) ==
    /\ op = NoOp /\ ops < MaxOps
    /\ op' = [kind |-> kind, t |-> t, phase |-> "sent"]
    /\ ops' = ops + 1
    /\ UNCHANGED <<role, page, storage, history, changes>>

\* InvitePage, JoinTenantDialog and CreateTenantDialog.
Join(t) == at \in {"invite", "tenants"} /\ Mutate("join", t)

\* "Leave tenant", on the members page.
Leave == at = "members" /\ current # None /\ ~list.err /\ Mutate("leave", current)

\* The window is looked at again, or stale data comes onto a page.
Refetch ==
    /\ at # "invite"
    /\ list' = Ask(list)
    /\ UNCHANGED <<role, at, url, stored, storage, current, op, history, ops, changes>>
-------------------------------------------------------------------------------
(* The requests. *)

\* The control plane does it and says so, or its answer is lost, or it refuses.
\* Whoever creates or claims a tenant owns it; an invite makes no less of a member.
Serve ==
    LET t == op.t
    IN  /\ op.kind # "none" /\ op.phase = "sent"
        /\ \/ /\ op.kind = "join"
              /\ \E r \in {"member", "owner"} :
                    role' = [role EXCEPT ![t] = IF @ = "owner" THEN @ ELSE r]
              /\ \E out \in {"done", "failed"} : op' = [op EXCEPT !.phase = out]
           \/ /\ op.kind = "leave" /\ role[t] # "none"
              /\ role' = [role EXCEPT ![t] = "none"]
              /\ \E out \in {"done", "failed"} : op' = [op EXCEPT !.phase = out]
           \/ /\ op' = [op EXCEPT !.phase = "failed"]
              /\ UNCHANGED role
        /\ UNCHANGED <<page, storage, history, ops, changes>>

\* The error is shown where the operation was started.
Failed ==
    /\ op.phase = "failed"
    /\ op' = NoOp
    /\ UNCHANGED <<role, page, storage, history, ops, changes>>

\* The first answer to the list is on its way, and it is the one that will do.
Early == list.fetch = "answered" /\ ~list.loaded

\* A bug: the list of tenants is not fetched again.
BugJoined ==
    /\ op.kind = "join" /\ op.phase = "done"
    /\ Render("machines", op.t, list)
    /\ landing' = IF role[op.t] = "none" \/ Early THEN None ELSE op.t
    /\ op' = NoOp
    /\ UNCHANGED <<role, ops, changes>>

\* onSuccess of the three ways to join, on whatever page the user is by now: the
\* list is invalidated, and fetched again where it is on the page.
Joined ==
    /\ op.kind = "join" /\ op.phase = "done"
    /\ Render("machines", op.t, IF at = "invite" THEN list ELSE Again(list))
    /\ landing' = IF role[op.t] = "none" \/ Early THEN None ELSE op.t
    /\ op' = NoOp
    /\ UNCHANGED <<role, ops, changes>>

\* onSuccess of leaving.
Left ==
    /\ op.kind = "leave" /\ op.phase = "done"
    /\ Render("tenants", None, Again(list))
    /\ landing' = None
    /\ op' = NoOp
    /\ UNCHANGED <<role, ops, changes>>

ListServed ==
    /\ list.fetch = "asked"
    /\ list' = [list EXCEPT !.fetch = "answered", !.got = role]
    /\ UNCHANGED <<role, at, url, stored, storage, current, op, history, ops, changes>>

ListArrives ==
    LET l == [list EXCEPT !.fetch = "idle", !.got = Unknown, !.data = list.got,
                          !.loaded = TRUE, !.err = FALSE]
    IN  /\ list.fetch = "answered"
        /\ \/ /\ list.loaded /\ ~list.err /\ list.data = list.got
              /\ list' = l
              /\ UNCHANGED <<at, url, stored, storage, current, elsewhere, unsaved>>
           \/ /\ ~(list.loaded /\ ~list.err /\ list.data = list.got)
              /\ Render(at, url, l)
        /\ UNCHANGED <<role, op, landing, ops, changes>>

ListFails ==
    /\ list.fetch = "asked" /\ changes < MaxChanges
    /\ Render(at, url, [list EXCEPT !.fetch = "idle", !.err = TRUE])
    /\ changes' = changes + 1
    /\ UNCHANGED <<role, op, landing, ops>>
-------------------------------------------------------------------------------
(* The others. *)

\* An owner removes the user, or the user joins in another tab.
ChangeRole(t, r) ==
    /\ changes < MaxChanges /\ (role[t] = "none") # (r = "none")
    /\ role' = [role EXCEPT ![t] = r]
    /\ landing' = IF role'[t] = "none" /\ landing = t THEN None ELSE landing
    /\ changes' = changes + 1
    /\ UNCHANGED <<page, storage, op, elsewhere, unsaved, ops>>

\* Another tab shows another tenant.
Elsewhere(t) ==
    /\ changes < MaxChanges /\ storage = "works" /\ t # stored /\ role[t] # "none"
    /\ stored' = t /\ elsewhere' = TRUE
    /\ changes' = changes + 1
    /\ UNCHANGED <<role, at, url, storage, current, list, op, unsaved, landing, ops>>

\* The browser's storage fills up, is blocked, or is allowed again.
StorageBecomes(s) ==
    /\ changes < MaxChanges /\ s # storage
    /\ storage' = s
    /\ changes' = changes + 1
    /\ UNCHANGED <<role, page, op, history, ops>>
-------------------------------------------------------------------------------
User ==
    \/ Machines \/ Glance \/ Leave \/ Refetch
    \/ \E a \in {"machines", "members", "tenants"} : Tab(a)
    \/ \E t \in Tenants : Choose(t) \/ Join(t)

Operation == Serve \/ Failed \/ Joined \/ Left
Listing == ListServed \/ ListArrives

Environment ==
    \/ ListFails
    \/ \E t \in Tenants : Elsewhere(t) \/ \E r \in Role : ChangeRole(t, r)
    \/ \E s \in Storage : StorageBecomes(s)

Next == User \/ Operation \/ Listing \/ Environment

\* Requests are answered, or time out and fail.
Fairness == WF_vars(Operation) /\ WF_vars(Listing)

Spec == Init /\ [][Next]_vars /\ Fairness
-------------------------------------------------------------------------------
TypeOK ==
    /\ role \in [Tenants -> Role]
    /\ at \in {"machines", "members", "tenants", "invite"}
    /\ {url, stored, landing} \subseteq Tenants \cup {None}
    /\ storage \in Storage
    /\ current \in Tenants \cup {None}
    /\ list \in Query
    /\ op \in [kind : {"none", "join", "leave"}, t : Tenants \cup {None},
               phase : {"sent", "done", "failed"}]
    /\ {elsewhere, unsaved} \subseteq BOOLEAN
    /\ ops \in 0..MaxOps /\ changes \in 0..MaxChanges

\* Who has joined a tenant comes to it, although the list does not have it yet when
\* the page is opened with it, and whatever fetch was under way; but for the first
\* one (Early): that tenant is missing until the list is next fetched.
LandsOnJoined == \A t \in Tenants :
    landing = t ~> current = t \/ landing # t \/ list.err

\* The tenant on the page changes only when the user picks another, when the list
\* has lost it, when another tab has picked one, or when the browser kept it from
\* being stored, or keeps it from being read: but for these, pages without a tenant
\* in their URL go on with it.
StaysPut ==
    [][current # None /\ current' # current =>
           \/ url' \notin {None, current}
           \/ current \notin In(list'.data)
           \/ elsewhere \/ unsaved \/ storage = "blocked"]_vars
===============================================================================

----------------------------- MODULE MembersPage ------------------------------
(***************************************************************************)
(* The members page (routes/admin/members.tsx): the cached lists of        *)
(* members, removing people and leaving, and the dialog that makes invite  *)
(* links.  Which tenant the page shows is useCurrentTenant's, and changes  *)
(* under it when the list of tenants does (module CurrentTenant).          *)
(*                                                                         *)
(* The cache is React Query's, as in CurrentTenant.  A mutation's onSuccess *)
(* is called although its component is gone; it is the one of the last     *)
(* render as long as the component holds that mutation.                    *)
(***************************************************************************)
EXTENDS Naturals

CONSTANTS
    TenantIds, Owned,     \* the tenants, and those the page shows as the user's
    People, Me,         \* Me: the user
    None,
    MaxOps, MaxChanges  \* bounds, not code: mutations at a time; what others do,
                        \*   lists that fail or change under the page

ASSUME MembersPageAssumption ==
    /\ Owned \subseteq TenantIds /\ Me \in People /\ None \notin TenantIds \cup People
    /\ MaxOps \in Nat /\ MaxChanges \in Nat

VARIABLES
    people,             \* people[t]: the members of t, at the control plane
    shown,              \* the tenant on the page, None when there is no list
    members,            \* members[t]: membersQuery(t)
    inviting,           \* whether the dialog is open
    link,               \* the tenant of the invite the dialog has, or None
    ops,                \* the mutations under way
    gone,               \* history: the people of whom the page said they are removed,
    slipped,            \*   and whether it has changed its tenant, since it is open
    changes

page == <<shown, inviting, link>>
history == <<gone, slipped>>
pageVars == <<people, page, members, ops, history, changes>>

\* marked: invalidated while nothing showed it; data: what an error hides is left out,
\* for it is not shown again; got: the answer under way, without Me it is a refusal.
Query == [loaded : BOOLEAN, data : SUBSET People, err : BOOLEAN, marked : BOOLEAN,
          fetch : {"idle", "asked", "answered"}, got : SUBSET People]
\* as: the tenant onSuccess takes it for; held: the component that began it is there
\* and has not begun another or reset it.
Op == [kind : {"none", "remove", "invite"}, t : TenantIds \cup {None},
       who : People \cup {None},
       as : TenantIds \cup {None}, phase : {"sent", "done", "failed"},
       held : BOOLEAN]
NoOp == [kind |-> "none", t |-> None, who |-> None, as |-> None, phase |-> "sent",
         held |-> FALSE]

PageInit ==
    /\ people \in [TenantIds -> {g \in SUBSET People : Me \in g}]
    /\ shown = None /\ inviting = FALSE /\ link = None
    /\ members = [t \in TenantIds |-> [loaded |-> FALSE, data |-> {}, err |-> FALSE,
                                     marked |-> FALSE, fetch |-> "idle", got |-> {}]]
    /\ ops = [i \in 1..MaxOps |-> NoOp]
    /\ gone = {} /\ slipped = FALSE
    /\ changes = 0

\* invalidateQueries, with the page showing t: a query that is on it is fetched
\* again, but for a first fetch that is under way.
Invalidated(q, on) ==
    IF on THEN IF q.fetch = "idle" \/ q.loaded THEN [q EXCEPT !.fetch = "asked", !.got = {}] ELSE q
          ELSE [q EXCEPT !.marked = q.loaded /\ ~q.err /\ q.fetch = "idle"]

\* t's list comes onto the page: what is missing, failed, marked or old is fetched.
Shows(t) ==
    LET q == members[t]
    IN  \E old \in {TRUE} \cup (IF q.loaded /\ ~q.err /\ ~q.marked THEN {FALSE} ELSE {}) :
           members' = IF old /\ q.fetch = "idle"
                      THEN [members EXCEPT ![t].fetch = "asked", ![t].marked = FALSE] ELSE members

\* Who began the mutations has gone: nothing comes of an invite's answer any more.
Unmounted == [i \in 1..MaxOps |-> IF ops[i].kind = "invite" THEN NoOp
                                  ELSE [ops[i] EXCEPT !.held = FALSE]]
-------------------------------------------------------------------------------
(* The page. *)

\* MembersPage has a tenant to show, as it is opened or the list of tenants is back.
Open(t) ==
    /\ shown = None
    /\ shown' = t
    /\ Shows(t)
    /\ UNCHANGED <<people, inviting, link, ops, history, changes>>

\* Another tenant is the current one by now, and the components stay.
Slip(t) ==
    /\ shown \notin {None, t} /\ changes < MaxChanges
    /\ shown' = t
    /\ Shows(t)
    /\ ops' = [i \in 1..MaxOps |->
                  IF ops[i].kind = "remove" /\ ops[i].held THEN [ops[i] EXCEPT !.as = t] ELSE ops[i]]
    /\ gone' = {} /\ slipped' = TRUE
    /\ changes' = changes + 1
    /\ UNCHANGED <<people, inviting, link>>

\* The list of tenants cannot be fetched: MembersPage shows its error instead, and
\* keeps its own state.
Conceal ==
    /\ shown # None /\ changes < MaxChanges /\ changes' = changes + 1
    /\ shown' = None /\ link' = None
    /\ ops' = Unmounted
    /\ gone' = {} /\ slipped' = FALSE
    /\ UNCHANGED <<people, inviting, members>>

\* A bug: the dialog's state outlives the page.
BugLeave ==
    /\ shown' = None /\ inviting' = FALSE
    /\ UNCHANGED <<link, ops>>
    /\ gone' = {} /\ slipped' = FALSE
    /\ UNCHANGED <<people, members, changes>>

\* The user goes to another page.
Leave ==
    /\ shown' = None /\ inviting' = FALSE /\ link' = None
    /\ ops' = Unmounted
    /\ gone' = {} /\ slipped' = FALSE
    /\ UNCHANGED <<people, members, changes>>

\* The window is looked at again.
Refetch ==
    /\ shown # None /\ members[shown].fetch = "idle"
    /\ members' = [members EXCEPT ![shown].fetch = "asked"]
    /\ UNCHANGED <<people, page, ops, history, changes>>

Begin(op, others) ==
    /\ \E i \in 1..MaxOps : ops[i] = NoOp /\ ops' = [others EXCEPT ![i] = op]
    /\ UNCHANGED <<people, page, members, history, changes>>

\* "Remove from tenant", "Leave tenant": remove.mutate.
Remove(p) ==
    /\ shown # None /\ members[shown].loaded /\ ~members[shown].err
    /\ p \in members[shown].data /\ (p = Me \/ shown \in Owned)
    /\ Begin([kind |-> "remove", t |-> shown, who |-> p, as |-> shown, phase |-> "sent",
              held |-> TRUE],
             [i \in 1..MaxOps |-> IF ops[i].kind = "remove" THEN [ops[i] EXCEPT !.held = FALSE]
                                                            ELSE ops[i]])

Invite ==
    /\ shown \in Owned /\ ~inviting
    /\ inviting' = TRUE
    /\ UNCHANGED <<people, shown, link, members, ops, history, changes>>

\* "Create invite link", which is disabled while one is pending.
Create ==
    /\ shown # None /\ inviting /\ link = None
    /\ \A i \in 1..MaxOps : ~(ops[i].kind = "invite" /\ ops[i].held)
    /\ Begin([kind |-> "invite", t |-> shown, who |-> None, as |-> shown, phase |-> "sent",
              held |-> TRUE], ops)

\* close: "Done", "Cancel" or a click beside the dialog.
Close ==
    /\ shown # None /\ inviting
    /\ inviting' = FALSE /\ link' = None
    /\ ops' = [i \in 1..MaxOps |-> IF ops[i].kind = "invite" THEN [ops[i] EXCEPT !.held = FALSE]
                                                             ELSE ops[i]]
    /\ UNCHANGED <<people, shown, members, history, changes>>
-------------------------------------------------------------------------------
(* The requests. *)

\* The control plane does mutation i and says so, or its answer is lost, or it refuses.
Serve(i) ==
    LET o == ops[i]
        may == Me \in people[o.t] /\ (o.kind = "invite" \/ o.who \in people[o.t])
    IN  /\ o.kind # "none" /\ o.phase = "sent"
        /\ \/ /\ may
              /\ \E out \in {"done", "failed"} : ops' = [ops EXCEPT ![i].phase = out]
              /\ people' = [people EXCEPT ![o.t] = @ \ {o.who}]
           \/ /\ ops' = [ops EXCEPT ![i].phase = "failed"]
              /\ UNCHANGED people
        /\ UNCHANGED <<page, members, history, changes>>

\* The error is shown.
Failed(i) ==
    /\ ops[i].phase = "failed"
    /\ ops' = [ops EXCEPT ![i] = NoOp]
    /\ UNCHANGED <<people, page, members, history, changes>>

\* A bug: the list is not fetched again.
BugRemoved(i) ==
    LET o == ops[i]
    IN  /\ o.kind = "remove" /\ o.who # Me /\ o.phase = "done"
        /\ ops' = [ops EXCEPT ![i] = NoOp]
        /\ gone' = IF shown = o.t /\ o.who \notin people[o.t] THEN gone \cup {o.who} ELSE gone
        /\ UNCHANGED <<people, page, members, slipped, changes>>

\* onSuccess of removing somebody else.
Removed(i) ==
    LET o == ops[i]
    IN  /\ o.kind = "remove" /\ o.who # Me /\ o.phase = "done"
        /\ members' = [members EXCEPT ![o.as] = Invalidated(@, shown = o.as)]
        /\ ops' = [ops EXCEPT ![i] = NoOp]
        /\ gone' = IF shown = o.t /\ o.as = o.t /\ o.who \notin people[o.t]
                   THEN gone \cup {o.who} ELSE gone
        /\ UNCHANGED <<people, page, slipped, changes>>

\* onSuccess of leaving: all that is known of tenants is old, and the page is left.
Away(i) ==
    LET o == ops[i]
    IN  /\ o.kind = "remove" /\ o.who = Me /\ o.phase = "done"
        /\ members' = [t \in TenantIds |-> Invalidated(members[t], shown = t)]
        /\ shown' = None /\ inviting' = FALSE /\ link' = None
        /\ ops' = [Unmounted EXCEPT ![i] = NoOp]
        /\ gone' = {} /\ slipped' = FALSE
        /\ UNCHANGED <<people, changes>>

\* onSuccess of creating an invite: setInvite, whether the dialog is open or not.
Invited(i) ==
    LET o == ops[i]
    IN  /\ o.kind = "invite" /\ o.phase = "done"
        /\ link' = o.t
        /\ ops' = [ops EXCEPT ![i] = NoOp]
        /\ UNCHANGED <<people, shown, inviting, members, history, changes>>

Served(t) ==
    /\ members[t].fetch = "asked"
    /\ members' = [members EXCEPT ![t].fetch = "answered",
                                  ![t].got = IF Me \in people[t] THEN people[t] ELSE {}]
    /\ UNCHANGED <<people, page, ops, history, changes>>

Arrives(t) ==
    LET q == members[t]
        idle == [q EXCEPT !.fetch = "idle", !.got = {}]
    IN  /\ q.fetch = "answered"
        /\ members' = [members EXCEPT ![t] =
              IF Me \in q.got THEN [idle EXCEPT !.data = q.got, !.loaded = TRUE, !.err = FALSE]
                              ELSE [idle EXCEPT !.data = {}, !.err = TRUE]]
        /\ UNCHANGED <<people, page, ops, history, changes>>

Fails(t) ==
    /\ members[t].fetch = "asked" /\ changes < MaxChanges
    /\ members' = [members EXCEPT ![t].fetch = "idle", ![t].err = TRUE, ![t].data = {}]
    /\ changes' = changes + 1
    /\ UNCHANGED <<people, page, ops, history>>

\* Others join and leave, or are removed.
Change(t, p) ==
    /\ changes < MaxChanges
    /\ people' = [people EXCEPT ![t] = IF p \in @ THEN @ \ {p} ELSE @ \cup {p}]
    /\ gone' = IF shown = t /\ p \in people'[t] THEN gone \ {p} ELSE gone
    /\ changes' = changes + 1
    /\ UNCHANGED <<page, members, ops, slipped>>
-------------------------------------------------------------------------------
User ==
    \/ Conceal \/ Leave \/ Refetch \/ Invite \/ Create \/ Close
    \/ \E t \in TenantIds : Open(t) \/ Slip(t)
    \/ \E p \in People : Remove(p)

Mutation(i) == Serve(i) \/ Failed(i) \/ Removed(i) \/ Away(i) \/ Invited(i)
Listing(t) == Served(t) \/ Arrives(t)
Environment == \E t \in TenantIds : Fails(t) \/ \E p \in People : Change(t, p)

PageNext ==
    \/ User \/ Environment
    \/ \E i \in 1..MaxOps : Mutation(i)
    \/ \E t \in TenantIds : Listing(t)

\* Requests are answered, or time out and fail.
Fairness == /\ \A i \in 1..MaxOps : WF_pageVars(Mutation(i))
            /\ \A t \in TenantIds : WF_pageVars(Listing(t))

PageSpec == PageInit /\ [][PageNext]_pageVars /\ Fairness
-------------------------------------------------------------------------------
\* The types of everything.
PageTypeOK ==
    /\ people \in [TenantIds -> SUBSET People]
    /\ shown \in TenantIds \cup {None} /\ link \in TenantIds \cup {None}
    /\ members \in [TenantIds -> Query]
    /\ inviting \in BOOLEAN /\ slipped \in BOOLEAN
    /\ ops \in [1..MaxOps -> Op]
    /\ gone \subseteq People
    /\ changes \in 0..MaxChanges

\* A link is shown under the name of the tenant it joins, however late it came and
\* whatever was closed and opened meanwhile; but not when the current tenant has
\* changed under the open page (members.tsx:218 takes the name of the one now).
LinkMatchesTitle == inviting /\ shown # None /\ link # None => link = shown \/ slipped

\* Somebody the page called removed does not stay on it, although an older answer
\* was on its way, unless the list shows an error or the page another tenant.
RemovedDisappears == \A p \in People :
    p \in gone ~> \/ p \notin gone
                  \/ p \notin members[shown].data
                  \/ members[shown].err
===============================================================================

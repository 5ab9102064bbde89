-------------------------------- MODULE Tenancy --------------------------------
(***************************************************************************)
(* What the memberships half of the control plane promises, with no        *)
(* transaction, lock or deadlock in sight: every operation that succeeds   *)
(* is one step, and is right about the tenant as it is in that step.       *)
(* Members implements it with PostgreSQL transactions.  Who may ask is     *)
(* found out earlier, and an invite may expire meanwhile: neither is       *)
(* promised of that step.                                                  *)
(***************************************************************************)
EXTENDS Naturals

CONSTANTS
    Tenants,
    Users,
    Invites, NoInvite,
    UsesLimit           \* the largest max_uses of an invite

VARIABLES
    tenants,            \* those that were created
    role,               \* role[t][u] is "none" of who is not in t
    offer,              \* offer[i] is NoInvite until invite i is made
    invUses             \* of each invite

tenancy == <<tenants, role, offer, invUses>>

Roles == {"owner", "member"}
Offers == [tenant : Tenants, role : Roles, max : 1..UsesLimit]
Owners(t) == {u \in Users : role[t][u] = "owner"}
Team(t) == {u \in Users : role[t][u] # "none"}

Init ==
    /\ tenants = {}
    /\ role = [t \in Tenants |-> [u \in Users |-> "none"]]
    /\ offer = [i \in Invites |-> NoInvite]
    /\ invUses = [i \in Invites |-> 0]

Open(t) ==
    /\ t \notin tenants
    /\ tenants' = tenants \cup {t}
    /\ UNCHANGED <<role, offer, invUses>>

OpenOwned(t, u) ==
    /\ t \notin tenants
    /\ tenants' = tenants \cup {t}
    /\ role' = [role EXCEPT ![t][u] = "owner"]
    /\ UNCHANGED <<offer, invUses>>

\* Only an empty tenant is claimed.
Claim(t, u) ==
    /\ t \in tenants /\ Team(t) = {}
    /\ role' = [role EXCEPT ![t][u] = "owner"]
    /\ UNCHANGED <<tenants, offer, invUses>>

\* Who leaves is in the tenant, and leaves it an owner.
Remove(t, u) ==
    /\ u \in Team(t) /\ Owners(t) \ {u} # {}
    /\ role' = [role EXCEPT ![t][u] = "none"]
    /\ UNCHANGED <<tenants, offer, invUses>>

Invite(i, o) ==
    /\ offer[i] = NoInvite
    /\ Owners(o.tenant) # {}
    /\ offer' = [offer EXCEPT ![i] = o]
    /\ UNCHANGED <<tenants, role, invUses>>

\* One use, for who was not in the tenant.
Accept(i, u) ==
    LET o == offer[i] IN
    /\ o # NoInvite /\ invUses[i] < o.max
    /\ u \notin Team(o.tenant) /\ Owners(o.tenant) # {}
    /\ role' = [role EXCEPT ![o.tenant][u] = o.role]
    /\ invUses' = [invUses EXCEPT ![i] = @ + 1]
    /\ UNCHANGED <<tenants, offer>>

Next ==
    \/ \E t \in Tenants : Open(t)
    \/ \E t \in Tenants, u \in Users : OpenOwned(t, u) \/ Claim(t, u) \/ Remove(t, u)
    \/ \E i \in Invites : \/ \E o \in Offers : Invite(i, o)
                          \/ \E u \in Users : Accept(i, u)

Spec == Init /\ [][Next]_tenancy
===============================================================================

------------------------------- MODULE Registry -------------------------------
(***************************************************************************)
(* What the enrolment half of the control plane promises, with no          *)
(* transaction in sight: redeeming a token gives a new peer the lowest     *)
(* free address of the token's tenant and costs exactly one use, in one    *)
(* step.  Enrollment implements it with PostgreSQL transactions.           *)
(***************************************************************************)
EXTENDS AddrPool

CONSTANTS
    Tenants, NoTenant,
    Blocks, NoBlock,    \* the prefixes a tenant may be created with
    Tokens,             \* enrollment token secrets
    UsesLimit,          \* the largest max_uses of a token
    PeerIds,
    Keys                \* WireGuard public keys

VARIABLES
    cidr,               \* cidr[t] is NoBlock until tenant t is created
    tenantOf,           \* tenantOf[k] is NoTenant until token k is issued
    maxUses, uses,      \* of each token
    peers               \* the registered peers

registry == <<cidr, tenantOf, maxUses, uses, peers>>

Mine(t) == {p \in peers : p.tenant = t}
UsedBy(t) == {p.ip : p \in Mine(t)}
KeysOf(t) == {p.key : p \in Mine(t)}

Init ==
    /\ cidr = [t \in Tenants |-> NoBlock]
    /\ tenantOf = [k \in Tokens |-> NoTenant]
    /\ maxUses = [k \in Tokens |-> 0]
    /\ uses = [k \in Tokens |-> 0]
    /\ peers = {}

OpenTenant(t, block) ==
    /\ cidr[t] = NoBlock
    /\ cidr' = [cidr EXCEPT ![t] = block]
    /\ UNCHANGED <<tenantOf, maxUses, uses, peers>>

IssueToken(k, t, n) ==
    /\ tenantOf[k] = NoTenant
    /\ cidr[t] # NoBlock
    /\ tenantOf' = [tenantOf EXCEPT ![k] = t]
    /\ maxUses' = [maxUses EXCEPT ![k] = n]
    /\ UNCHANGED <<cidr, uses, peers>>

Enroll(id, k, key) ==
    LET t == tenantOf[k] IN
    /\ t \in Tenants
    /\ uses[k] < maxUses[k]
    /\ id \notin {p.id : p \in peers}
    /\ key \notin KeysOf(t)
    /\ Free(cidr[t], UsedBy(t)) # {}
    /\ peers' = peers \cup
         {[id |-> id, tenant |-> t, key |-> key, token |-> k,
           ip |-> LowestFree(cidr[t], UsedBy(t))]}
    /\ uses' = [uses EXCEPT ![k] = @ + 1]
    /\ UNCHANGED <<cidr, tenantOf, maxUses>>

Next ==
    \/ \E t \in Tenants, block \in Blocks : OpenTenant(t, block)
    \/ \E k \in Tokens, t \in Tenants, n \in 1..UsesLimit : IssueToken(k, t, n)
    \/ \E id \in PeerIds, k \in Tokens, key \in Keys : Enroll(id, k, key)

Spec == Init /\ [][Next]_registry
===============================================================================

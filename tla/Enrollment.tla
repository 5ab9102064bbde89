------------------------------ MODULE Enrollment ------------------------------
(***************************************************************************)
(* Tenants, enrollment tokens and peer registration in the control plane:  *)
(* internal/api (createTenant, createToken, registerPeer) over             *)
(* internal/store, whose RegisterPeer is a PostgreSQL transaction at READ  *)
(* COMMITTED.  Requests run concurrently; one action is one statement.     *)
(*                                                                         *)
(* PostgreSQL as the code uses it: SELECT ... FOR UPDATE waits for the     *)
(* row's holder and then re-reads the row; a statement sees the rows       *)
(* committed before it; an INSERT puts its row in the unique indexes one   *)
(* by one, waits for an uncommitted row with the same key and fails with   *)
(* 23505 on a committed one; now() is when the transaction began.          *)
(***************************************************************************)
EXTENDS AddrPool, FiniteSets

CONSTANTS
    Tenants, NoTenant,
    Blocks, NoBlock,    \* the prefixes a tenant may be created with
    Tokens, NoToken,    \* enrollment token secrets
    UsesLimit,          \* the largest max_uses of a token (1000 in createToken)
    Requests,           \* POST /peers requests; also the ids of the rows they insert
    Keys, NoKey         \* WireGuard public keys

ASSUME EnrollmentAssumption ==
    /\ Blocks \subseteq BlockType /\ NoBlock \notin Blocks
    /\ NoTenant \notin Tenants
    /\ NoToken \notin Tokens
    /\ NoKey \notin Keys
    /\ UsesLimit \in Nat

VARIABLES
    \* committed rows
    cidr,               \* tenants.cidr, NoBlock until the row exists
    tenantOf,           \* enrollment_tokens.tenant_id, NoTenant until the row exists
    maxUses, uses,      \* enrollment_tokens.max_uses and .uses
    expired,            \* tokens whose expires_at has passed
    peers,              \* the rows of peers
    \* transactions of RegisterPeer
    pc,                 \* how far the request is, or how it was answered
    tok, key,           \* what it asks
    fresh,              \* expires_at > now(), now() being its beginning
    ip                  \* the address it has chosen

tables == <<cidr, tenantOf, maxUses, uses, peers>>
vars == <<cidr, tenantOf, maxUses, uses, expired, peers, pc, tok, key, fresh, ip>>

Mine(t) == {p \in peers : p.tenant = t}
UsedBy(t) == {p.ip : p \in Mine(t)}
KeysOf(t) == {p.key : p \in Mine(t)}
AdmittedBy(k) == {p \in peers : p.token = k}

Working == {"locked", "chosen", "indexed", "inserted"}
Answers == {"created", "unauthorized", "conflict", "exhausted", "failed"}

TenantFor(r) == tenantOf[tok[r]]
SameTenant(r, q) == TenantFor(r) = TenantFor(q)

\* A bug: a request that is refused returns without the deferred Rollback.
BugHoldsForever(r, k) ==
    pc[r] \in Working \cup {"exhausted", "conflict"} /\ tok[r] = k

\* Row locks and uncommitted index entries, all released by commit or rollback.
HoldsToken(r, k) == pc[r] \in Working /\ tok[r] = k
AddrIndexed(r) == pc[r] \in {"indexed", "inserted"}
KeyIndexed(r) == pc[r] = "inserted"

Init ==
    /\ cidr = [t \in Tenants |-> NoBlock]
    /\ tenantOf = [k \in Tokens |-> NoTenant]
    /\ maxUses = [k \in Tokens |-> 0]
    /\ uses = [k \in Tokens |-> 0]
    /\ expired = {}
    /\ peers = {}
    /\ pc = [r \in Requests |-> "idle"]
    /\ tok = [r \in Requests |-> NoToken]
    /\ key = [r \in Requests |-> NoKey]
    /\ fresh = [r \in Requests |-> FALSE]
    /\ ip = [r \in Requests |-> 0]
-------------------------------------------------------------------------------
CreateTenant(t, block) ==
    /\ cidr[t] = NoBlock
    /\ cidr' = [cidr EXCEPT ![t] = block]
    /\ UNCHANGED <<tenantOf, maxUses, uses, expired, peers, pc, tok, key, fresh, ip>>

\* The foreign key refuses a tenant that does not exist.
CreateToken(k, t, n) ==
    /\ tenantOf[k] = NoTenant
    /\ cidr[t] # NoBlock
    /\ tenantOf' = [tenantOf EXCEPT ![k] = t]
    /\ maxUses' = [maxUses EXCEPT ![k] = n]
    /\ UNCHANGED <<cidr, uses, expired, peers, pc, tok, key, fresh, ip>>

TimePasses(k) ==
    /\ tenantOf[k] # NoTenant
    /\ expired' = expired \cup {k}
    /\ UNCHANGED <<cidr, tenantOf, maxUses, uses, peers, pc, tok, key, fresh, ip>>
-------------------------------------------------------------------------------
GoTo(r, to) ==
    /\ pc' = [pc EXCEPT ![r] = to]
    /\ UNCHANGED <<cidr, tenantOf, maxUses, uses, expired, peers, tok, key, fresh>>

\* Leaving Working is the deferred Rollback: it drops the locks and the row.
Answer(r, reply) == GoTo(r, reply) /\ UNCHANGED ip

Begin(r, k, pubkey) ==
    /\ pc[r] = "idle"
    /\ pc' = [pc EXCEPT ![r] = "begun"]
    /\ tok' = [tok EXCEPT ![r] = k]
    /\ key' = [key EXCEPT ![r] = pubkey]
    /\ fresh' = [fresh EXCEPT ![r] = k \notin expired]
    /\ UNCHANGED <<cidr, tenantOf, maxUses, uses, expired, peers, ip>>

\* The WHERE clause of the SELECT; an unknown secret has no use left.
Redeemable(r) == fresh[r] /\ uses[tok[r]] < maxUses[tok[r]]

\* Whose end r's statement waits for: that of the transaction with its token's row,
\* or with the uncommitted row that has its address or its key.
WaitsFor(r, q) ==
    \/ pc[r] = "begun" /\ Redeemable(r) /\ HoldsToken(q, tok[r])
    \/ pc[r] = "chosen" /\ AddrIndexed(q) /\ SameTenant(r, q) /\ ip[q] = ip[r]
    \/ pc[r] = "indexed" /\ KeyIndexed(q) /\ SameTenant(r, q) /\ key[q] = key[r]

LockToken(r) ==
    /\ pc[r] = "begun"
    /\ Redeemable(r)
    /\ \A q \in Requests : ~WaitsFor(r, q)
    /\ Answer(r, "locked")

RejectToken(r) ==
    /\ pc[r] = "begun"
    /\ ~Redeemable(r)
    /\ Answer(r, "unauthorized")

\* A bug: any free address will do.
BugAnyFree(r) ==
    LET t == TenantFor(r) IN
    /\ pc[r] = "locked"
    /\ \E a \in Free(cidr[t], UsedBy(t)) : ip' = [ip EXCEPT ![r] = a]
    /\ GoTo(r, "chosen")

\* The tenant, its used addresses and nextFreeAddr.  The snapshot is already
\* old when the row is inserted.
ChooseAddr(r) ==
    LET t == TenantFor(r) IN
    /\ pc[r] = "locked"
    /\ Free(cidr[t], UsedBy(t)) # {}
    /\ ip' = [ip EXCEPT ![r] = LowestFree(cidr[t], UsedBy(t))]
    /\ GoTo(r, "chosen")

\* A bug: the addresses of registrations in progress count as used.
BugCountsPending(r) ==
    LET t == TenantFor(r)
        pending == {ip[q] : q \in {x \in Requests : AddrIndexed(x) /\ SameTenant(x, r)}} IN
    /\ pc[r] = "locked"
    /\ Free(cidr[t], UsedBy(t) \cup pending) = {}
    /\ Answer(r, "exhausted")

PoolExhausted(r) ==
    LET t == TenantFor(r) IN
    /\ pc[r] = "locked"
    /\ Free(cidr[t], UsedBy(t)) = {}
    /\ Answer(r, "exhausted")

\* A bug: no UNIQUE (tenant_id, mesh_ip).
BugNoUniqueAddr(r) ==
    /\ pc[r] = "chosen"
    /\ Answer(r, "indexed")

\* INSERT, UNIQUE (tenant_id, mesh_ip): waits for an uncommitted row.
IndexAddr(r) ==
    /\ pc[r] = "chosen"
    /\ ip[r] \notin UsedBy(TenantFor(r))
    /\ \A q \in Requests : ~WaitsFor(r, q)
    /\ Answer(r, "indexed")

AddrConflict(r) ==
    /\ pc[r] = "chosen"
    /\ ip[r] \in UsedBy(TenantFor(r))
    /\ Answer(r, "conflict")

\* INSERT, UNIQUE (tenant_id, public_key).
IndexKey(r) ==
    /\ pc[r] = "indexed"
    /\ key[r] \notin KeysOf(TenantFor(r))
    /\ \A q \in Requests : ~WaitsFor(r, q)
    /\ Answer(r, "inserted")

KeyConflict(r) ==
    /\ pc[r] = "indexed"
    /\ key[r] \in KeysOf(TenantFor(r))
    /\ Answer(r, "conflict")

Row(r) == [id |-> r, tenant |-> TenantFor(r), key |-> key[r], token |-> tok[r], ip |-> ip[r]]

\* A bug: the use is counted after the commit, and lost with the connection.
BugUncounted(r) ==
    /\ pc[r] = "inserted"
    /\ peers' = peers \cup {Row(r)}
    /\ \/ pc' = [pc EXCEPT ![r] = "created"] /\ uses' = [uses EXCEPT ![tok[r]] = @ + 1]
       \/ pc' = [pc EXCEPT ![r] = "failed"] /\ uses' = uses
    /\ UNCHANGED <<cidr, tenantOf, maxUses, expired, tok, key, fresh, ip>>

\* UPDATE uses = uses + 1, and Commit.  Both take effect together; the client
\* is told, or the connection fails after the commit and it is not.
Commit(r) ==
    /\ pc[r] = "inserted"
    /\ peers' = peers \cup {Row(r)}
    /\ uses' = [uses EXCEPT ![tok[r]] = @ + 1]
    /\ pc' \in {[pc EXCEPT ![r] = "created"], [pc EXCEPT ![r] = "failed"]}
    /\ UNCHANGED <<cidr, tenantOf, maxUses, expired, tok, key, fresh, ip>>

\* The client goes away, the connection drops, the control plane dies: the
\* database rolls the transaction back.
Abort(r) ==
    /\ pc[r] \in Working \cup {"begun"}
    /\ Answer(r, "failed")

\* What the database does for a request that has begun.
Proceed(r) ==
    \/ LockToken(r) \/ RejectToken(r)
    \/ ChooseAddr(r) \/ PoolExhausted(r)
    \/ IndexAddr(r) \/ AddrConflict(r)
    \/ IndexKey(r) \/ KeyConflict(r)
    \/ Commit(r)

Next ==
    \/ \E t \in Tenants, block \in Blocks : CreateTenant(t, block)
    \/ \E k \in Tokens, t \in Tenants, n \in 1..UsesLimit : CreateToken(k, t, n)
    \/ \E k \in Tokens : TimePasses(k)
    \/ \E r \in Requests, k \in Tokens, pubkey \in Keys : Begin(r, k, pubkey)
    \/ \E r \in Requests : Proceed(r) \/ Abort(r)

Spec == Init /\ [][Next]_vars
-------------------------------------------------------------------------------
TypeOK ==
    /\ cidr \in [Tenants -> Blocks \cup {NoBlock}]
    /\ tenantOf \in [Tokens -> Tenants \cup {NoTenant}]
    /\ maxUses \in [Tokens -> 0..UsesLimit]
    /\ uses \in [Tokens -> 0..UsesLimit]
    /\ expired \subseteq Tokens
    /\ peers \subseteq [id : Requests, tenant : Tenants, key : Keys, token : Tokens, ip : Nat]
    /\ pc \in [Requests -> {"idle", "begun"} \cup Working \cup Answers]
    /\ tok \in [Requests -> Tokens \cup {NoToken}]
    /\ key \in [Requests -> Keys \cup {NoKey}]
    /\ fresh \in [Requests -> BOOLEAN]
    /\ ip \in [Requests -> Nat]
    /\ \A r \in Requests : pc[r] # "idle" => tok[r] \in Tokens /\ key[r] \in Keys

\* A token admits exactly as many peers as it says it has been used, and never
\* more than max_uses, however many requests redeem it at once and wherever
\* one of them fails: RegisterPeer counts the use in the peer's transaction.
TokenAccounting ==
    \A k \in Tokens :
        /\ uses[k] = Cardinality(AdmittedBy(k))
        /\ uses[k] <= maxUses[k]

\* Within a tenant no two peers share an address or a key, and the addresses
\* handed out are a gap-free initial segment of the usable ones, although
\* RegisterPeer picks an address from a snapshot that other registrations,
\* under other tokens of the tenant, do not wait for.
PoolDiscipline ==
    \A p \in peers :
        /\ p.ip \in Usable(cidr[p.tenant])
        /\ \A a \in Usable(cidr[p.tenant]) : a < p.ip => a \in UsedBy(p.tenant)
        /\ \A q \in Mine(p.tenant) : q.ip = p.ip \/ q.key = p.key => q = p

\* What registerPeer answers is so in the tables: 201 means the peer exists
\* with the address the client was given, 401, 409 and "exhausted" mean it
\* does not and cost no use, "exhausted" means that no address was left.
AnswersAreTrue ==
    \A r \in Requests :
        /\ pc[r] = "created" => Row(r) \in peers
        /\ pc[r] \in {"unauthorized", "conflict", "exhausted"} =>
             \A p \in peers : p.id # r
        /\ pc[r] = "exhausted" => Usable(cidr[TenantFor(r)]) \subseteq UsedBy(TenantFor(r))

\* Registrations never wait for one another in a circle, nor for one that was
\* answered: while some are under way, the database can execute a statement of
\* one of them, and none goes back a step: in the end all are answered.
SomeoneProceeds ==
    (\E r \in Requests : pc[r] \in {"begun"} \cup Working)
        => \E r \in Requests : ENABLED Proceed(r)

\* The transactions implement the one-step registry.
Abstract == INSTANCE Registry WITH PeerIds <- Requests
RefinesRegistry == Abstract!Spec

\* What registerPeer tells the client on any unique violation (peers.go:70):
\* "that public key is already registered in this tenant".
ConflictMeansKeyTaken ==
    \A r \in Requests : pc[r] = "conflict" => key[r] \in KeysOf(TenantFor(r))
===============================================================================

--------------------------- MODULE EnrollmentProofs ---------------------------
(***************************************************************************)
(* Theorems about Enrollment for every set of tenants, blocks, tokens,     *)
(* keys and concurrent requests.                                           *)
(***************************************************************************)
EXTENDS Enrollment, AddrScan, Lifetimes, FiniteSetTheorems, WellFoundedInduction, NaturalsInduction, TLAPS

(* What LowestFree returns, for every block and every set of used addresses. *)

\* A non-empty set of addresses has a lowest one.  (The well-ordering of Nat,
\* from the library's facts about the predecessor order.)
LEMMA LowestExists ==
    ASSUME NEW S, S \subseteq Nat, S # {}
    PROVE  \E a \in S : IsLowest(a, S)
<1>1. IsWellFoundedOn(OpToRel(<, Nat), Nat)
    BY NatLessThanWellFounded
<1>2. PICK a \in S : \A b \in S : ~(<<b, a>> \in OpToRel(<, Nat))
    BY <1>1, WFMin
<1>3. \A b \in S : ~(b < a)
    BY <1>2 DEF OpToRel
<1>. QED
    BY <1>3 DEF IsLowest

LEMMA UsableIsNat ==
    ASSUME NEW block \in BlockType
    PROVE  Usable(block) \subseteq Nat
BY DEF BlockType, Usable, ReservedHosts

\* The lowest free address of a block that has a free address is free, and
\* every usable address below it is used.
LEMMA LowestFreeIsLowest ==
    ASSUME NEW block \in BlockType, NEW inUse, Free(block, inUse) # {}
    PROVE  IsLowest(LowestFree(block, inUse), Free(block, inUse))
<1>1. Free(block, inUse) \subseteq Nat
    BY UsableIsNat DEF Free
<1>2. \E a \in Free(block, inUse) : IsLowest(a, Free(block, inUse))
    BY <1>1, LowestExists
<1>. QED
    BY <1>2 DEF LowestFree

\* There is only one such address, so that whoever computes it computes LowestFree.
LEMMA LowestFreeIsUnique ==
    ASSUME NEW block \in BlockType, NEW inUse,
           NEW a, IsLowest(a, Free(block, inUse))
    PROVE  a = LowestFree(block, inUse)
<1>1. Free(block, inUse) \subseteq Nat
    BY UsableIsNat DEF Free
<1>2. IsLowest(LowestFree(block, inUse), Free(block, inUse))
    BY LowestFreeIsLowest DEF IsLowest
<1>. QED
    BY <1>1, <1>2 DEF IsLowest
-------------------------------------------------------------------------------
\* A token has uses to give only once it belongs to a tenant, and a tenant
\* with tokens has its prefix.
Tables ==
    \A k \in Tokens :
        /\ tenantOf[k] = NoTenant => maxUses[k] = 0
        /\ tenantOf[k] # NoTenant => cidr[tenantOf[k]] # NoBlock

\* The row lock of RegisterPeer's SELECT: one transaction at a time works on
\* a token, and the use it was granted stays available until it commits.
Holders ==
    \A r \in Requests : pc[r] \in Working =>
        /\ uses[tok[r]] < maxUses[tok[r]]
        /\ \A q \in Requests \ {r} : ~HoldsToken(q, tok[r])

\* The steps that only move one request to another point or answer it.
Moves(r) ==
    \/ LockToken(r) \/ RejectToken(r) \/ PoolExhausted(r)
    \/ IndexAddr(r) \/ AddrConflict(r) \/ IndexKey(r) \/ KeyConflict(r)
    \/ Abort(r)

LEMMA NextCases ==
    ASSUME [Next]_vars
    PROVE  \/ \E t \in Tenants, block \in Blocks : CreateTenant(t, block)
           \/ \E k \in Tokens, t \in Tenants, n \in 1..UsesLimit : CreateToken(k, t, n)
           \/ \E k \in Tokens : TimePasses(k)
           \/ \E r \in Requests, k \in Tokens, pubkey \in Keys : Begin(r, k, pubkey)
           \/ \E r \in Requests : Moves(r) \/ ChooseAddr(r) \/ Commit(r)
           \/ UNCHANGED vars
BY DEF Next, Proceed, Moves

\* What the steps in Moves have in common.
LEMMA MovesAnswer ==
    ASSUME NEW r \in Requests, Moves(r)
    PROVE  /\ \E to \in Working \cup Answers : Answer(r, to)
           /\ pc[r] \in Working \cup {"begun"}
BY DEF Moves, LockToken, RejectToken, PoolExhausted, IndexAddr, AddrConflict,
       IndexKey, KeyConflict, Abort, Working, Answers

\* A transaction past its SELECT works for a tenant that exists.
LEMMA WorkingTenant ==
    ASSUME TypeOK, Tables, Holders, NEW r \in Requests, pc[r] \in Working
    PROVE  /\ tok[r] \in Tokens
           /\ TenantFor(r) \in Tenants
           /\ cidr[TenantFor(r)] \in Blocks
           /\ cidr[TenantFor(r)] \in BlockType
<1>1. tok[r] \in Tokens
    BY DEF TypeOK, Working
<1>2. tenantOf[tok[r]] # NoTenant
    BY <1>1 DEF Tables, Holders, TypeOK
<1>3. tenantOf[tok[r]] \in Tenants
    BY <1>1, <1>2 DEF TypeOK
<1>4. cidr[tenantOf[tok[r]]] \in Blocks
    BY <1>1, <1>2, <1>3 DEF TypeOK, Tables
<1>. QED
    BY <1>1, <1>3, <1>4, EnrollmentAssumption DEF TenantFor
-------------------------------------------------------------------------------
LEMMA TypeStep ==
    ASSUME TypeOK, Tables, Holders, [Next]_vars
    PROVE  TypeOK'
<1>. USE DEF TypeOK
<1>1. ASSUME NEW t \in Tenants, NEW block \in Blocks, CreateTenant(t, block)
      PROVE TypeOK'
    BY <1>1 DEF CreateTenant
<1>2. ASSUME NEW k \in Tokens, NEW t \in Tenants, NEW n \in 1..UsesLimit, CreateToken(k, t, n)
      PROVE TypeOK'
    BY <1>2, EnrollmentAssumption DEF CreateToken
<1>3. ASSUME NEW k \in Tokens, TimePasses(k) PROVE TypeOK'
    BY <1>3 DEF TimePasses
<1>4. ASSUME NEW r \in Requests, NEW k \in Tokens, NEW pubkey \in Keys, Begin(r, k, pubkey)
      PROVE TypeOK'
    BY <1>4 DEF Begin
<1>5. ASSUME NEW r \in Requests, Moves(r) PROVE TypeOK'
    BY <1>5, MovesAnswer DEF Answer, GoTo, Working, Answers
<1>6. ASSUME NEW r \in Requests, ChooseAddr(r) PROVE TypeOK'
  <2>. DEFINE block == cidr[TenantFor(r)]
              inUse == UsedBy(TenantFor(r))
  <2>1. block \in BlockType
      BY <1>6, WorkingTenant DEF ChooseAddr, Working
  <2>2. LowestFree(block, inUse) \in Nat
      BY <1>6, <2>1, LowestFreeIsLowest, UsableIsNat DEF ChooseAddr, IsLowest, Free
  <2>. QED
      BY <1>6, <2>2 DEF ChooseAddr, GoTo, Working
<1>7. ASSUME NEW r \in Requests, Commit(r) PROVE TypeOK'
  <2>1. tok[r] \in Tokens /\ key[r] \in Keys /\ TenantFor(r) \in Tenants
      BY <1>7, WorkingTenant DEF Commit, Working
  <2>2. Row(r) \in [id : Requests, tenant : Tenants, key : Keys, token : Tokens, ip : Nat]
      BY <2>1 DEF Row
  <2>3. uses[tok[r]] + 1 \in 0..UsesLimit
      BY <1>7, <2>1, EnrollmentAssumption DEF Commit, Working, Holders
  <2>. QED
      BY <1>7, <2>1, <2>2, <2>3 DEF Commit, Answers
<1>8. CASE UNCHANGED vars
    BY <1>8 DEF vars
<1>. QED
    BY <1>1, <1>2, <1>3, <1>4, <1>5, <1>6, <1>7, <1>8, NextCases

LEMMA TablesStep ==
    ASSUME TypeOK, Tables, Holders, [Next]_vars
    PROVE  Tables'
<1>. USE DEF Tables, TypeOK
<1>1. ASSUME NEW t \in Tenants, NEW block \in Blocks, CreateTenant(t, block)
      PROVE Tables'
    BY <1>1, EnrollmentAssumption DEF CreateTenant
<1>2. ASSUME NEW k \in Tokens, NEW t \in Tenants, NEW n \in 1..UsesLimit, CreateToken(k, t, n)
      PROVE Tables'
    BY <1>2, EnrollmentAssumption DEF CreateToken
<1>3. ASSUME UNCHANGED <<cidr, tenantOf, maxUses>> PROVE Tables'
    BY <1>3
<1>4. ASSUME NEW r \in Requests, Moves(r) \/ ChooseAddr(r) \/ Commit(r) PROVE Tables'
    BY <1>3, <1>4, MovesAnswer DEF Answer, GoTo, ChooseAddr, Commit
<1>. QED
    BY <1>1, <1>2, <1>3, <1>4, NextCases DEF TimePasses, Begin, vars

\* The use granted to a transaction is its own until it ends.
LEMMA HoldersStep ==
    ASSUME TypeOK, Tables, Holders, [Next]_vars
    PROVE  Holders'
<1>. USE DEF Holders, HoldsToken
<1>1. ASSUME NEW t \in Tenants, NEW block \in Blocks, CreateTenant(t, block)
      PROVE Holders'
    BY <1>1 DEF CreateTenant
<1>2. ASSUME NEW k \in Tokens, NEW t \in Tenants, NEW n \in 1..UsesLimit, CreateToken(k, t, n)
      PROVE Holders'
  <2>1. \A r \in Requests : pc[r] \in Working => tok[r] # k
      BY <1>2, WorkingTenant, EnrollmentAssumption DEF CreateToken, TenantFor
  <2>. QED
      BY <1>2, <2>1 DEF CreateToken, TypeOK
<1>3. ASSUME NEW k \in Tokens, TimePasses(k) PROVE Holders'
    BY <1>3 DEF TimePasses
<1>4. ASSUME NEW r \in Requests, NEW k \in Tokens, NEW pubkey \in Keys, Begin(r, k, pubkey)
      PROVE Holders'
    BY <1>4 DEF Begin, TypeOK, Working
<1>5. ASSUME NEW r \in Requests, LockToken(r) PROVE Holders'
    BY <1>5 DEF LockToken, WaitsFor, Redeemable, Answer, GoTo, TypeOK, Working
<1>6. ASSUME NEW r \in Requests, Moves(r), ~LockToken(r) PROVE Holders'
  <2>1. \E to \in Working \cup Answers :
            Answer(r, to) /\ (to \in Working => pc[r] \in Working)
      BY <1>6 DEF Moves, RejectToken, PoolExhausted, IndexAddr, AddrConflict,
                  IndexKey, KeyConflict, Abort, Working, Answers
  <2>. QED
      BY <2>1 DEF Answer, GoTo, TypeOK
<1>7. ASSUME NEW r \in Requests, ChooseAddr(r) PROVE Holders'
    BY <1>7 DEF ChooseAddr, GoTo, TypeOK, Working
<1>8. ASSUME NEW r \in Requests, Commit(r) PROVE Holders'
  <2>1. \A q \in Requests \ {r} : pc[q] \in Working => tok[q] # tok[r]
      BY <1>8 DEF Commit, Working
  <2>2. /\ \A q \in Requests \ {r} : pc'[q] = pc[q]
        /\ pc'[r] \notin Working
        /\ tok[r] \in Tokens
      BY <1>8 DEF Commit, TypeOK, Working
  <2>. QED
      BY <1>8, <2>1, <2>2 DEF Commit, TypeOK
<1>9. CASE UNCHANGED vars
    BY <1>9 DEF vars
<1>. QED
    BY <1>1, <1>2, <1>3, <1>4, <1>5, <1>6, <1>7, <1>8, <1>9, NextCases

\* The types and the token lock, together inductive.
THEOREM Locking == Spec => [](TypeOK /\ Tables /\ Holders)
<1>1. Init => TypeOK /\ Tables /\ Holders
    BY EnrollmentAssumption DEF Init, TypeOK, Tables, Holders, Working, Answers
<1>2. (TypeOK /\ Tables /\ Holders) /\ [Next]_vars => (TypeOK /\ Tables /\ Holders)'
    BY TypeStep, TablesStep, HoldersStep
<1>. QED
    BY <1>1, <1>2, PTL DEF Spec

\* The tables and the transactions keep their types.
THEOREM Typing == Spec => []TypeOK
BY Locking, PTL
-------------------------------------------------------------------------------
\* A row of peers is there because its request has committed.
Committed == \A p \in peers : pc[p.id] \in {"created", "failed"}

\* The rows of a tenant's token are the tenant's.
RowsOfTokens ==
    \A p \in peers : p.tenant = tenantOf[p.token] /\ p.tenant \in Tenants

Counted ==
    /\ IsFiniteSet(peers)
    /\ TokenAccounting
    /\ Committed
    /\ RowsOfTokens

\* A commit adds a row that was not there, to the token it counts.
LEMMA CommitAddsOne ==
    ASSUME TypeOK, Tables, Holders, Counted, NEW r \in Requests, Commit(r)
    PROVE  /\ Row(r) \notin peers
           /\ Row(r).token = tok[r] /\ Row(r).tenant = TenantFor(r) /\ Row(r).id = r
           /\ peers' = peers \cup {Row(r)}
           /\ \A k \in Tokens : AdmittedBy(k)' =
                IF k = tok[r] THEN AdmittedBy(k) \cup {Row(r)} ELSE AdmittedBy(k)
BY DEF Commit, Counted, Committed, Row, AdmittedBy

LEMMA CountedStep ==
    ASSUME TypeOK, Tables, Holders, Counted, [Next]_vars
    PROVE  Counted'
<1>. USE DEF Counted, TokenAccounting, Committed, RowsOfTokens
<1>0. \A k \in Tokens : IsFiniteSet(AdmittedBy(k)) /\ Cardinality(AdmittedBy(k)) \in Nat
  <2>. TAKE k \in Tokens
  <2>1. AdmittedBy(k) \subseteq peers
      BY DEF AdmittedBy
  <2>. QED
      BY <2>1, FS_Subset, FS_CardinalityType
<1>1. ASSUME UNCHANGED <<tenantOf, maxUses, uses, peers>>,
             \A r \in Requests : pc[r] \in {"created", "failed"} => pc'[r] = pc[r]
      PROVE Counted'
    BY <1>1 DEF AdmittedBy, TypeOK
<1>2. ASSUME NEW k \in Tokens, NEW t \in Tenants, NEW n \in 1..UsesLimit, CreateToken(k, t, n)
      PROVE Counted'
  <2>1. AdmittedBy(k) = {}
    <3>1. tenantOf[k] \notin Tenants
        BY <1>2, EnrollmentAssumption DEF CreateToken
    <3>. QED
        BY <3>1 DEF AdmittedBy
  <2>2. uses[k] = 0
      BY <2>1, FS_EmptySet
  <2>3. \A j \in Tokens : AdmittedBy(j)' = AdmittedBy(j)
      BY <1>2 DEF CreateToken, AdmittedBy
  <2>4. RowsOfTokens'
      BY <1>2, <2>1 DEF CreateToken, TypeOK, AdmittedBy
  <2>. QED
      BY <1>2, <2>2, <2>3, <2>4 DEF CreateToken, TypeOK
<1>3. ASSUME NEW r \in Requests, NEW k \in Tokens, NEW pubkey \in Keys, Begin(r, k, pubkey)
      PROVE Counted'
    BY <1>1, <1>3 DEF Begin, TypeOK
<1>4. ASSUME NEW r \in Requests, Moves(r) \/ ChooseAddr(r) PROVE Counted'
  <2>1. /\ UNCHANGED <<tenantOf, maxUses, uses, peers>>
        /\ pc[r] \in Working \cup {"begun"}
        /\ \E to \in Working \cup Answers : pc' = [pc EXCEPT ![r] = to]
      BY <1>4, MovesAnswer DEF Answer, GoTo, ChooseAddr, Working
  <2>. QED
      BY <1>1, <2>1 DEF TypeOK, Working
<1>5. ASSUME NEW r \in Requests, Commit(r) PROVE Counted'
  <2>1. tok[r] \in Tokens /\ TenantFor(r) \in Tenants /\ uses[tok[r]] < maxUses[tok[r]]
      BY <1>5, WorkingTenant DEF Commit, Holders, Working
  <2>2. Cardinality(AdmittedBy(tok[r]) \cup {Row(r)}) = Cardinality(AdmittedBy(tok[r])) + 1
    <3>1. Row(r) \notin AdmittedBy(tok[r])
        BY <1>5, CommitAddsOne DEF AdmittedBy
    <3>. QED
        BY <1>0, <2>1, <3>1, FS_AddElement
  <2>3. TokenAccounting'
    <3>. SUFFICES ASSUME NEW k \in Tokens
                  PROVE uses'[k] = Cardinality(AdmittedBy(k)') /\ uses'[k] <= maxUses'[k]
        OBVIOUS
    <3>0. /\ uses[k] = Cardinality(AdmittedBy(k)) /\ uses[k] <= maxUses[k]
          /\ uses[k] \in Nat /\ maxUses[k] \in Nat /\ maxUses' = maxUses
          /\ uses' = [uses EXCEPT ![tok[r]] = @ + 1]
        BY <1>5 DEF Commit, TypeOK
    <3>1. CASE k = tok[r]
      <4>1. AdmittedBy(k)' = AdmittedBy(tok[r]) \cup {Row(r)}
          BY <1>5, <3>1, CommitAddsOne
      <4>2. uses'[k] = uses[k] + 1
          BY <3>0, <3>1 DEF TypeOK
      <4>. QED
          BY <2>1, <2>2, <3>0, <3>1, <4>1, <4>2
    <3>2. CASE k # tok[r]
      <4>1. AdmittedBy(k)' = AdmittedBy(k)
          BY <1>5, <3>2, CommitAddsOne
      <4>2. uses'[k] = uses[k]
          BY <3>0, <3>2 DEF TypeOK
      <4>. QED
          BY <3>0, <4>1, <4>2
    <3>. QED
        BY <3>1, <3>2
  <2>4. IsFiniteSet(peers')
      BY <1>5, FS_AddElement DEF Commit
  <2>5. Committed'
    <3>1. \A p \in peers : p.id \in Requests /\ p.id # r
        BY <1>5 DEF Commit, TypeOK
    <3>2. \A q \in Requests \ {r} : pc'[q] = pc[q]
        BY <1>5 DEF Commit, TypeOK
    <3>3. pc'[r] \in {"created", "failed"}
        BY <1>5 DEF Commit, TypeOK
    <3>. QED
        BY <1>5, <3>1, <3>2, <3>3, CommitAddsOne
  <2>6. RowsOfTokens'
    <3>1. tenantOf' = tenantOf
        BY <1>5 DEF Commit
    <3>. QED
        BY <1>5, <2>1, <3>1, CommitAddsOne DEF TenantFor
  <2>. QED
      BY <2>3, <2>4, <2>5, <2>6
<1>. QED
    BY <1>1, <1>2, <1>3, <1>4, <1>5, NextCases DEF CreateTenant, TimePasses, vars

\* Every token has admitted as many peers as its uses, at most max_uses,
\* whatever the interleaving of the registrations and wherever they fail.
THEOREM Accounting == Spec => []TokenAccounting
<1>1. Init => Counted
    BY FS_EmptySet, EnrollmentAssumption
       DEF Init, Counted, TokenAccounting, Committed, RowsOfTokens, AdmittedBy
<1>2. (TypeOK /\ Tables /\ Holders) /\ Counted /\ [Next]_vars => Counted'
    BY CountedStep
<1>3. Counted => TokenAccounting
    BY DEF Counted
<1>. QED
    BY <1>1, <1>2, <1>3, Locking, PTL DEF Spec
-------------------------------------------------------------------------------
\* An address chosen from an old snapshot is still usable, and everything below
\* it is still used: rows of peers are never deleted.
Chosen ==
    \A r \in Requests : pc[r] \in {"chosen", "indexed", "inserted"} =>
        /\ ip[r] \in Usable(cidr[TenantFor(r)])
        /\ \A a \in Usable(cidr[TenantFor(r)]) : a < ip[r] => a \in UsedBy(TenantFor(r))

\* What the unique indexes hold back: no committed row and no other open
\* transaction has the address, then the key, of an indexed row.
AddrReserved ==
    \A r \in Requests : AddrIndexed(r) =>
        /\ ip[r] \notin UsedBy(TenantFor(r))
        /\ \A q \in Requests \ {r} : AddrIndexed(q) /\ SameTenant(r, q) => ip[q] # ip[r]

KeyReserved ==
    \A r \in Requests : KeyIndexed(r) =>
        /\ key[r] \notin KeysOf(TenantFor(r))
        /\ \A q \in Requests \ {r} : KeyIndexed(q) /\ SameTenant(r, q) => key[q] # key[r]

Locks == TypeOK /\ Tables /\ Holders
Pool == Chosen /\ AddrReserved /\ KeyReserved /\ PoolDiscipline

\* No step changes what a transaction past its SELECT works on, nor the prefix
\* of a tenant that has peers.
LEMMA Frame ==
    ASSUME Locks, Counted, [Next]_vars
    PROVE  /\ \A r \in Requests : pc[r] \in Working =>
                /\ TenantFor(r)' = TenantFor(r)
                /\ cidr'[TenantFor(r)] = cidr[TenantFor(r)]
                /\ key'[r] = key[r]
           /\ \A p \in peers : cidr'[p.tenant] = cidr[p.tenant]
<1>1. \A r \in Requests : pc[r] \in Working =>
          tok[r] \in Tokens /\ tenantOf[tok[r]] # NoTenant /\ cidr[TenantFor(r)] # NoBlock
    BY WorkingTenant, EnrollmentAssumption DEF Locks, TenantFor
<1>2. \A p \in peers : cidr[p.tenant] # NoBlock
    BY EnrollmentAssumption DEF Counted, RowsOfTokens, Locks, Tables, TypeOK
<1>. USE <1>1, <1>2 DEF Locks, TypeOK, TenantFor
<1>3. ASSUME NEW t \in Tenants, NEW block \in Blocks, CreateTenant(t, block)
      PROVE /\ \A r \in Requests : pc[r] \in Working =>
                 /\ TenantFor(r)' = TenantFor(r)
                 /\ cidr'[TenantFor(r)] = cidr[TenantFor(r)]
                 /\ key'[r] = key[r]
            /\ \A p \in peers : cidr'[p.tenant] = cidr[p.tenant]
    BY <1>3 DEF CreateTenant
<1>4. ASSUME NEW k \in Tokens, NEW t \in Tenants, NEW n \in 1..UsesLimit, CreateToken(k, t, n)
      PROVE \A r \in Requests : pc[r] \in Working =>
                 TenantFor(r)' = TenantFor(r) /\ UNCHANGED <<cidr, key>>
    BY <1>4 DEF CreateToken
<1>5. ASSUME NEW r \in Requests, NEW k \in Tokens, NEW pubkey \in Keys, Begin(r, k, pubkey)
      PROVE /\ UNCHANGED <<cidr, tenantOf>>
            /\ \A q \in Requests : pc[q] \in Working => tok'[q] = tok[q] /\ key'[q] = key[q]
    BY <1>5 DEF Begin, Working
<1>6. ASSUME NEW r \in Requests, Moves(r) \/ ChooseAddr(r) \/ Commit(r)
      PROVE UNCHANGED <<cidr, tenantOf, tok, key>>
    BY <1>6, MovesAnswer DEF Answer, GoTo, ChooseAddr, Commit
<1>. QED
    BY <1>3, <1>4, <1>5, <1>6, NextCases DEF TimePasses, CreateToken, vars

\* Steps that add no row and move no request further keep what is reserved.
LEMMA PoolQuiet ==
    ASSUME Locks, Counted, Pool, [Next]_vars, UNCHANGED <<peers, ip>>,
           \A r \in Requests :
               pc'[r] \in {"chosen", "indexed", "inserted"} => pc'[r] = pc[r]
    PROVE  Pool'
<1>1. \A t : UsedBy(t)' = UsedBy(t) /\ KeysOf(t)' = KeysOf(t) /\ Mine(t)' = Mine(t)
    BY DEF UsedBy, KeysOf, Mine
<1>2. \A p \in peers : UsedBy(p.tenant)' = UsedBy(p.tenant) /\ Mine(p.tenant)' = Mine(p.tenant)
    BY <1>1
<1>3. \A r \in Requests : pc[r] \in Working =>
          UsedBy(TenantFor(r))' = UsedBy(TenantFor(r)) /\ KeysOf(TenantFor(r))' = KeysOf(TenantFor(r))
    BY Frame DEF UsedBy, KeysOf, Mine
<1>4. Chosen'
    BY <1>3, Frame DEF Pool, Chosen, Working
<1>5. AddrReserved'
    BY <1>3, Frame DEF Pool, AddrReserved, AddrIndexed, SameTenant, Working
<1>6. KeyReserved'
    BY <1>3, Frame DEF Pool, KeyReserved, KeyIndexed, SameTenant, Working
<1>7. PoolDiscipline'
    BY <1>2, Frame DEF Pool, PoolDiscipline, UsedBy, Mine
<1>. QED
    BY <1>4, <1>5, <1>6, <1>7 DEF Pool

LEMMA PoolStep ==
    ASSUME Locks, Counted, Pool, [Next]_vars
    PROVE  Pool'
<1>. USE DEF Locks
<1>1. ASSUME NEW t \in Tenants, NEW block \in Blocks, CreateTenant(t, block) PROVE Pool'
    BY <1>1, PoolQuiet DEF CreateTenant
<1>2. ASSUME NEW k \in Tokens, NEW t \in Tenants, NEW n \in 1..UsesLimit, CreateToken(k, t, n)
      PROVE Pool'
    BY <1>2, PoolQuiet DEF CreateToken
<1>3. ASSUME NEW k \in Tokens, TimePasses(k) PROVE Pool'
    BY <1>3, PoolQuiet DEF TimePasses
<1>4. ASSUME NEW r \in Requests, NEW k \in Tokens, NEW pubkey \in Keys, Begin(r, k, pubkey)
      PROVE Pool'
    BY <1>4, PoolQuiet DEF Begin, TypeOK
<1>5. ASSUME NEW r \in Requests, Moves(r), ~IndexAddr(r), ~IndexKey(r) PROVE Pool'
  <2>1. \E to \in {"locked"} \cup Answers : Answer(r, to)
      BY <1>5 DEF Moves, LockToken, RejectToken, PoolExhausted, AddrConflict,
                  KeyConflict, Abort, Answers
  <2>. QED
      BY <2>1, PoolQuiet DEF Answer, GoTo, TypeOK, Answers
<1>6. ASSUME NEW r \in Requests,
             UNCHANGED <<cidr, tenantOf, peers, tok, key>>,
             \A q \in Requests \ {r} : pc'[q] = pc[q] /\ ip'[q] = ip[q]
      PROVE  /\ \A t : UsedBy(t)' = UsedBy(t) /\ KeysOf(t)' = KeysOf(t) /\ Mine(t)' = Mine(t)
             /\ \A q \in Requests : TenantFor(q)' = TenantFor(q)
             /\ PoolDiscipline => PoolDiscipline'
    BY <1>6 DEF UsedBy, KeysOf, Mine, TenantFor, PoolDiscipline
<1>7. ASSUME NEW r \in Requests, ChooseAddr(r) PROVE Pool'
  <2>. DEFINE block == cidr[TenantFor(r)]
              inUse == UsedBy(TenantFor(r))
  <2>1. block \in BlockType
      BY <1>7, WorkingTenant DEF ChooseAddr, Working
  <2>2. IsLowest(LowestFree(block, inUse), Free(block, inUse))
      BY <1>7, <2>1, LowestFreeIsLowest DEF ChooseAddr
  <2>3. /\ LowestFree(block, inUse) \in Usable(block)
        /\ \A a \in Usable(block) : a < LowestFree(block, inUse) => a \in inUse
      BY <2>1, <2>2, UsableIsNat DEF IsLowest, Free
  <2>4. /\ UNCHANGED <<cidr, tenantOf, peers, tok, key>>
        /\ \A q \in Requests \ {r} : pc'[q] = pc[q] /\ ip'[q] = ip[q]
        /\ ip'[r] = LowestFree(block, inUse) /\ pc'[r] = "chosen"
      BY <1>7 DEF ChooseAddr, GoTo, TypeOK
  <2>5. Chosen'
      BY <2>3, <2>4, <1>6 DEF Pool, Chosen
  <2>6. AddrReserved' /\ KeyReserved'
      BY <2>4, <1>6 DEF Pool, AddrReserved, KeyReserved, AddrIndexed, KeyIndexed, SameTenant
  <2>. QED
      BY <2>4, <2>5, <2>6, <1>6 DEF Pool
<1>8. ASSUME NEW r \in Requests, IndexAddr(r) PROVE Pool'
  <2>1. /\ UNCHANGED <<cidr, tenantOf, peers, tok, key, ip>>
        /\ \A q \in Requests \ {r} : pc'[q] = pc[q] /\ ip'[q] = ip[q]
        /\ pc[r] = "chosen" /\ pc'[r] = "indexed"
      BY <1>8 DEF IndexAddr, Answer, GoTo, TypeOK
  <2>2. Chosen'
      BY <2>1, <1>6 DEF Pool, Chosen
  <2>3. AddrReserved'
      BY <1>8, <2>1, <1>6 DEF Pool, AddrReserved, IndexAddr, WaitsFor, AddrIndexed, SameTenant
  <2>4. KeyReserved'
      BY <2>1, <1>6 DEF Pool, KeyReserved, KeyIndexed, SameTenant
  <2>. QED
      BY <2>1, <2>2, <2>3, <2>4, <1>6 DEF Pool
<1>9. ASSUME NEW r \in Requests, IndexKey(r) PROVE Pool'
  <2>1. /\ UNCHANGED <<cidr, tenantOf, peers, tok, key, ip>>
        /\ \A q \in Requests \ {r} : pc'[q] = pc[q] /\ ip'[q] = ip[q]
        /\ pc[r] = "indexed" /\ pc'[r] = "inserted"
      BY <1>9 DEF IndexKey, Answer, GoTo, TypeOK
  <2>2. Chosen'
      BY <2>1, <1>6 DEF Pool, Chosen
  <2>3. AddrReserved'
      BY <2>1, <1>6 DEF Pool, AddrReserved, AddrIndexed, SameTenant
  <2>4. KeyReserved'
      BY <1>9, <2>1, <1>6 DEF Pool, KeyReserved, IndexKey, WaitsFor, KeyIndexed, SameTenant
  <2>. QED
      BY <2>1, <2>2, <2>3, <2>4, <1>6 DEF Pool
<1>10. ASSUME NEW r \in Requests, Commit(r) PROVE Pool'
  <2>0. PICK t : t = TenantFor(r)
      OBVIOUS
  <2>1. /\ UNCHANGED <<cidr, tenantOf, tok, key, ip>>
        /\ \A q \in Requests \ {r} : pc'[q] = pc[q]
        /\ pc[r] = "inserted" /\ pc'[r] \notin Working
        /\ \A q \in Requests : TenantFor(q)' = TenantFor(q)
      BY <1>10 DEF Commit, TypeOK, TenantFor, Working
  <2>2. /\ \A u : u # t => UsedBy(u)' = UsedBy(u) /\ KeysOf(u)' = KeysOf(u) /\ Mine(u)' = Mine(u)
        /\ UsedBy(t)' = UsedBy(t) \cup {ip[r]}
        /\ KeysOf(t)' = KeysOf(t) \cup {key[r]}
        /\ Mine(t)' = Mine(t) \cup {Row(r)}
    <3>1. peers' = peers \cup {Row(r)}
        BY <1>10 DEF Commit
    <3>2. Row(r).tenant = t /\ Row(r).ip = ip[r] /\ Row(r).key = key[r]
        BY <2>0 DEF Row
    <3>3. \A u : Mine(u)' = IF u = t THEN Mine(u) \cup {Row(r)} ELSE Mine(u)
        BY <3>1, <3>2 DEF Mine
    <3>4. \A u : u # t => UsedBy(u)' = UsedBy(u) /\ KeysOf(u)' = KeysOf(u)
        BY <3>3 DEF UsedBy, KeysOf
    <3>5. UsedBy(t)' = UsedBy(t) \cup {ip[r]} /\ KeysOf(t)' = KeysOf(t) \cup {key[r]}
      <4>1. Mine(t)' = Mine(t) \cup {Row(r)}
          BY <3>3
      <4>2. {p.ip : p \in Mine(t) \cup {Row(r)}} = {p.ip : p \in Mine(t)} \cup {ip[r]}
          BY <3>2
      <4>3. {p.key : p \in Mine(t) \cup {Row(r)}} = {p.key : p \in Mine(t)} \cup {key[r]}
          BY <3>2
      <4>. QED
          BY <2>1, <4>1, <4>2, <4>3 DEF UsedBy, KeysOf
    <3>. QED
        BY <3>3, <3>4, <3>5
  <2>3. /\ ip[r] \in Usable(cidr[t]) /\ ip[r] \notin UsedBy(t)
        /\ \A a \in Usable(cidr[t]) : a < ip[r] => a \in UsedBy(t)
        /\ key[r] \notin KeysOf(t)
      BY <2>0, <2>1 DEF Pool, Chosen, AddrReserved, KeyReserved, AddrIndexed, KeyIndexed
  <2>4. Chosen'
      BY <2>0, <2>1, <2>2 DEF Pool, Chosen, Working
  <2>5. AddrReserved'
      BY <2>0, <2>1, <2>2 DEF Pool, AddrReserved, AddrIndexed, SameTenant, Working
  <2>6. KeyReserved'
      BY <2>0, <2>1, <2>2 DEF Pool, KeyReserved, KeyIndexed, SameTenant, Working
  <2>7. PoolDiscipline'
    <3>. SUFFICES ASSUME NEW p \in peers'
                  PROVE  /\ p.ip \in Usable(cidr'[p.tenant])
                         /\ \A a \in Usable(cidr'[p.tenant]) : a < p.ip => a \in UsedBy(p.tenant)'
                         /\ \A q \in Mine(p.tenant)' : q.ip = p.ip \/ q.key = p.key => q = p
        BY DEF PoolDiscipline, UsedBy, Mine
    <3>1. CASE p \in peers
      <4>1. /\ p.ip \in Usable(cidr'[p.tenant])
            /\ \A a \in Usable(cidr'[p.tenant]) : a < p.ip => a \in UsedBy(p.tenant)'
          BY <2>1, <2>2, <3>1 DEF Pool, PoolDiscipline
      <4>2. p.tenant = t => p.ip # ip[r] /\ p.key # key[r]
          BY <2>3, <3>1 DEF UsedBy, KeysOf, Mine
      <4>3. \A q \in Mine(p.tenant)' : q.ip = p.ip \/ q.key = p.key => q = p
        <5>1. \A q \in Mine(p.tenant) : q.ip = p.ip \/ q.key = p.key => q = p
            BY <3>1 DEF Pool, PoolDiscipline
        <5>2. CASE p.tenant = t
            BY <2>2, <4>2, <5>1, <5>2 DEF Row
        <5>3. CASE p.tenant # t
            BY <2>2, <5>1, <5>3
        <5>. QED
            BY <5>2, <5>3
      <4>. QED
          BY <4>1, <4>3
    <3>2. CASE p = Row(r)
      <4>1. p.tenant = t /\ p.ip = ip[r] /\ p.key = key[r]
          BY <2>0, <3>2 DEF Row
      <4>2. \A q \in Mine(t) : q.ip # ip[r] /\ q.key # key[r]
          BY <2>3 DEF UsedBy, KeysOf
      <4>. QED
          BY <2>1, <2>2, <2>3, <3>2, <4>1, <4>2
    <3>. QED
        BY <1>10, <3>1, <3>2 DEF Commit
  <2>. QED
      BY <2>4, <2>5, <2>6, <2>7 DEF Pool
<1>11. CASE UNCHANGED vars
    BY <1>11, PoolQuiet DEF vars
<1>. QED
    BY <1>1, <1>2, <1>3, <1>4, <1>5, <1>7, <1>8, <1>9, <1>10, <1>11, NextCases

\* The row locks, the counts and the addresses together, the invariant of what follows.
THEOREM PoolLocked == Spec => [](Locks /\ Counted /\ Pool)
<1>1. Init => Counted /\ Pool
    BY FS_EmptySet, EnrollmentAssumption
       DEF Init, Counted, TokenAccounting, Committed, RowsOfTokens, AdmittedBy, Pool, Chosen,
           AddrReserved, KeyReserved, AddrIndexed, KeyIndexed, PoolDiscipline
<1>2. Locks /\ Counted /\ Pool /\ [Next]_vars => (Counted /\ Pool)'
    BY CountedStep, PoolStep DEF Locks
<1>3. Spec => []Locks
    BY Locking DEF Locks
<1>. QED
    BY <1>1, <1>2, <1>3, PTL DEF Spec

\* In every tenant the addresses handed out are distinct and gap-free, for any
\* number of concurrent registrations under any number of tokens.
THEOREM Discipline == Spec => []PoolDiscipline
<1>1. Pool => PoolDiscipline
    BY DEF Pool
<1>. QED
    BY <1>1, PoolLocked, PTL
-------------------------------------------------------------------------------
\* At its commit a transaction's address, chosen from an old snapshot, is the
\* lowest free one again.
LEMMA StillLowest ==
    ASSUME Locks, Pool, NEW r \in Requests, pc[r] = "inserted"
    PROVE  /\ Free(cidr[TenantFor(r)], UsedBy(TenantFor(r))) # {}
           /\ ip[r] = LowestFree(cidr[TenantFor(r)], UsedBy(TenantFor(r)))
<1>. DEFINE block == cidr[TenantFor(r)]
            inUse == UsedBy(TenantFor(r))
<1>1. block \in BlockType
    BY WorkingTenant DEF Locks, Working
<1>2. ip[r] \in Usable(block) /\ ip[r] \notin inUse
    BY DEF Pool, Chosen, AddrReserved, AddrIndexed
<1>3. \A a \in Usable(block) : a < ip[r] => a \in inUse
    BY DEF Pool, Chosen
<1>4. ip[r] \in Nat /\ Usable(block) \subseteq Nat
    BY <1>1, UsableIsNat DEF Locks, TypeOK
<1>5. IsLowest(ip[r], Free(block, inUse))
    BY <1>2, <1>3, <1>4 DEF IsLowest, Free
<1>6. ip[r] = LowestFree(block, inUse)
    BY <1>1, <1>5, LowestFreeIsUnique
<1>. QED
    BY <1>2, <1>6 DEF Free

\* RegisterPeer's transactions, interleaved in any way, do what the one-step
\* registry does: the commit is the registration, every other step of a
\* transaction is invisible in the tables.
THEOREM Refinement == Spec => RefinesRegistry
<1>1. Init => Abstract!Init
    BY DEF Init, Abstract!Init
<1>2. Locks /\ Counted /\ Pool /\ [Next]_vars => [Abstract!Next]_(Abstract!registry)
  <2>. SUFFICES ASSUME Locks, Counted, Pool, [Next]_vars
                PROVE  [Abstract!Next]_(Abstract!registry)
      OBVIOUS
  <2>. USE DEF Abstract!registry
  <2>1. ASSUME NEW t \in Tenants, NEW block \in Blocks, CreateTenant(t, block)
        PROVE Abstract!Next
      BY <2>1 DEF CreateTenant, Abstract!Next, Abstract!OpenTenant
  <2>2. ASSUME NEW k \in Tokens, NEW t \in Tenants, NEW n \in 1..UsesLimit, CreateToken(k, t, n)
        PROVE Abstract!Next
      BY <2>2 DEF CreateToken, Abstract!Next, Abstract!IssueToken
  <2>3. ASSUME NEW r \in Requests, Commit(r) PROVE Abstract!Next
    <3>1. pc[r] = "inserted" /\ tok[r] \in Tokens /\ key[r] \in Keys /\ TenantFor(r) \in Tenants
        BY <2>3, WorkingTenant DEF Commit, Locks, TypeOK, Working
    <3>2. uses[tok[r]] < maxUses[tok[r]]
        BY <3>1 DEF Locks, Holders, Working
    <3>3. r \notin {p.id : p \in peers}
        BY <3>1 DEF Counted, Committed
    <3>4. key[r] \notin KeysOf(TenantFor(r))
        BY <3>1 DEF Pool, KeyReserved, KeyIndexed
    <3>5. Row(r) = [id |-> r, tenant |-> TenantFor(r), key |-> key[r], token |-> tok[r],
                    ip |-> LowestFree(cidr[TenantFor(r)], UsedBy(TenantFor(r)))]
        BY <3>1, StillLowest DEF Row
    <3>6. Free(cidr[TenantFor(r)], UsedBy(TenantFor(r))) # {}
        BY <3>1, StillLowest
    <3>7. Abstract!Enroll(r, tok[r], key[r])
      <4>1. /\ Abstract!UsedBy(tenantOf[tok[r]]) = UsedBy(TenantFor(r))
            /\ Abstract!KeysOf(tenantOf[tok[r]]) = KeysOf(TenantFor(r))
          BY DEF TenantFor, UsedBy, KeysOf, Mine,
                 Abstract!UsedBy, Abstract!KeysOf, Abstract!Mine
      <4>2. tenantOf[tok[r]] = TenantFor(r)
          BY DEF TenantFor
      <4>3. /\ peers' = peers \cup {Row(r)}
            /\ uses' = [uses EXCEPT ![tok[r]] = @ + 1]
            /\ UNCHANGED <<cidr, tenantOf, maxUses>>
          BY <2>3 DEF Commit
      <4>4. Abstract!UsedBy(tenantOf[tok[r]]) = UsedBy(tenantOf[tok[r]])
          BY <4>1, <4>2
      <4>5. peers' = peers \cup
              {[id |-> r, tenant |-> tenantOf[tok[r]], key |-> key[r], token |-> tok[r],
                ip |-> LowestFree(cidr[tenantOf[tok[r]]], Abstract!UsedBy(tenantOf[tok[r]]))]}
          BY <3>5, <4>1, <4>2, <4>3
      <4>6. Free(cidr[tenantOf[tok[r]]], Abstract!UsedBy(tenantOf[tok[r]])) # {}
          BY <3>6, <4>1, <4>2
      <4>7. tenantOf[tok[r]] \in Tenants /\ key[r] \notin Abstract!KeysOf(tenantOf[tok[r]])
          BY <3>1, <3>4, <4>1, <4>2
      <4>8. \A b, u : Abstract!Free(b, u) = Free(b, u)
          BY DEF Free, Usable, ReservedHosts,
                 Abstract!Free, Abstract!Usable, Abstract!ReservedHosts
      <4>9. \A b, u : Abstract!LowestFree(b, u) = LowestFree(b, u)
          BY <4>8 DEF LowestFree, IsLowest, Abstract!LowestFree, Abstract!IsLowest
      <4>. QED
          BY <3>2, <3>3, <4>3, <4>5, <4>6, <4>7, <4>8, <4>9 DEF Abstract!Enroll
    <3>. QED
        BY <3>1, <3>7 DEF Abstract!Next
  <2>4. ASSUME NEW r \in Requests, Moves(r) \/ ChooseAddr(r) PROVE UNCHANGED tables
      BY <2>4, MovesAnswer DEF tables, Answer, GoTo, ChooseAddr
  <2>. QED
      BY <2>1, <2>2, <2>3, <2>4, NextCases DEF TimePasses, Begin, tables, vars
<1>3. Spec => []Locks
    BY Locking DEF Locks
<1>. QED
    BY <1>1, <1>2, <1>3, PoolLocked, PTL DEF Spec, RefinesRegistry, Abstract!Spec
-------------------------------------------------------------------------------
\* AnswersAreTrue, and that the tenant of a request that found its pool exhausted
\* is there, so that it stays the request's and keeps its prefix.
Told ==
    \A r \in Requests :
        /\ pc[r] = "created" => Row(r) \in peers
        /\ pc[r] = "exhausted" =>
             /\ TenantFor(r) \in Tenants /\ cidr[TenantFor(r)] # NoBlock
             /\ Usable(cidr[TenantFor(r)]) \subseteq UsedBy(TenantFor(r))

\* What was answered is over, and tenants, tokens and peers stay.
LEMMA AnsweredFrame ==
    ASSUME Locks, Counted, [Next]_vars, NEW r \in Requests,
           pc[r] \in {"created", "exhausted"}, TenantFor(r) \in Tenants
    PROVE  /\ pc'[r] = pc[r] /\ peers \subseteq peers'
           /\ TenantFor(r)' = TenantFor(r)
           /\ tok'[r] = tok[r] /\ key'[r] = key[r] /\ ip'[r] = ip[r]
           /\ cidr[TenantFor(r)] # NoBlock => cidr'[TenantFor(r)] = cidr[TenantFor(r)]
<1>. USE DEF Locks, TypeOK, TenantFor
<1>0. tok[r] \in Tokens /\ tenantOf[tok[r]] # NoTenant
    BY EnrollmentAssumption
<1>1. ASSUME NEW t \in Tenants, NEW block \in Blocks, CreateTenant(t, block)
      PROVE  /\ UNCHANGED <<tenantOf, peers, pc, tok, key, ip>>
             /\ cidr[TenantFor(r)] # NoBlock => cidr'[TenantFor(r)] = cidr[TenantFor(r)]
    BY <1>1 DEF CreateTenant
<1>2. ASSUME NEW k \in Tokens, NEW t \in Tenants, NEW n \in 1..UsesLimit, CreateToken(k, t, n)
      PROVE  UNCHANGED <<cidr, peers, pc, tok, key, ip>> /\ tenantOf'[tok[r]] = tenantOf[tok[r]]
    BY <1>0, <1>2 DEF CreateToken
<1>3. ASSUME NEW q \in Requests, NEW k \in Tokens, NEW pubkey \in Keys, Begin(q, k, pubkey)
      PROVE  /\ UNCHANGED <<cidr, tenantOf, peers, ip>>
             /\ pc'[r] = pc[r] /\ tok'[r] = tok[r] /\ key'[r] = key[r]
    BY <1>3 DEF Begin
<1>4. ASSUME NEW q \in Requests, Moves(q) \/ ChooseAddr(q) \/ Commit(q)
      PROVE  /\ UNCHANGED <<cidr, tenantOf, tok, key>> /\ peers \subseteq peers'
             /\ pc'[r] = pc[r] /\ ip'[r] = ip[r]
  <2>1. q # r
      BY <1>4, MovesAnswer DEF ChooseAddr, Commit, Working
  <2>. QED
      BY <1>4, <2>1, MovesAnswer DEF Answer, GoTo, ChooseAddr, Commit
<1>. QED
    BY <1>1, <1>2, <1>3, <1>4, NextCases DEF TimePasses, vars

LEMMA ToldStep ==
    ASSUME Locks, Counted, Told, [Next]_vars
    PROVE  Told'
<1>. SUFFICES ASSUME NEW r \in Requests
              PROVE  /\ pc'[r] = "created" => Row(r)' \in peers'
                     /\ pc'[r] = "exhausted" =>
                          /\ TenantFor(r)' \in Tenants /\ cidr'[TenantFor(r)'] # NoBlock
                          /\ Usable(cidr'[TenantFor(r)']) \subseteq UsedBy(TenantFor(r))'
    BY DEF Told, UsedBy, Mine, TenantFor
<1>1. CASE pc[r] = "created"
  <2>1. Row(r) \in peers /\ TenantFor(r) \in Tenants
      BY <1>1 DEF Told, Counted, RowsOfTokens, Row
  <2>2. Row(r)' = Row(r) /\ pc'[r] = "created" /\ peers \subseteq peers'
      BY <1>1, <2>1, AnsweredFrame DEF Row
  <2>. QED
      BY <2>1, <2>2
<1>2. CASE pc[r] = "exhausted"
  <2>1. /\ TenantFor(r) \in Tenants /\ cidr[TenantFor(r)] # NoBlock
        /\ Usable(cidr[TenantFor(r)]) \subseteq UsedBy(TenantFor(r))
      BY <1>2 DEF Told
  <2>2. /\ TenantFor(r)' = TenantFor(r) /\ cidr'[TenantFor(r)] = cidr[TenantFor(r)]
        /\ pc'[r] = "exhausted" /\ peers \subseteq peers'
      BY <1>2, <2>1, AnsweredFrame
  <2>3. UsedBy(TenantFor(r)) \subseteq UsedBy(TenantFor(r))'
      BY <2>2 DEF UsedBy, Mine
  <2>. QED
      BY <2>1, <2>2, <2>3
<1>3. CASE pc[r] \notin {"created", "exhausted"}
  <2>1. CASE Commit(r)
      BY <2>1 DEF Commit, Row, TenantFor, Locks, TypeOK
  <2>2. CASE PoolExhausted(r)
    <3>1. /\ UNCHANGED <<cidr, tenantOf, peers, tok>> /\ pc'[r] = "exhausted"
          /\ Free(cidr[TenantFor(r)], UsedBy(TenantFor(r))) = {}
        BY <2>2 DEF PoolExhausted, Answer, GoTo, Locks, TypeOK
    <3>2. TenantFor(r) \in Tenants /\ cidr[TenantFor(r)] # NoBlock
        BY <2>2, WorkingTenant, EnrollmentAssumption DEF PoolExhausted, Working, Locks
    <3>3. Usable(cidr[TenantFor(r)]) \subseteq UsedBy(TenantFor(r))
        BY <3>1 DEF Free
    <3>4. TenantFor(r)' = TenantFor(r) /\ UsedBy(TenantFor(r))' = UsedBy(TenantFor(r))
        BY <3>1 DEF TenantFor, UsedBy, Mine
    <3>. QED
        BY <3>1, <3>2, <3>3, <3>4
  <2>3. CASE ~Commit(r) /\ ~PoolExhausted(r)
    <3>1. pc'[r] \notin {"created", "exhausted"}
      <4>1. ASSUME NEW q \in Requests, Moves(q) \/ ChooseAddr(q) \/ Commit(q)
            PROVE  pc'[r] \notin {"created", "exhausted"}
          BY <1>3, <2>3, <4>1
             DEF Moves, LockToken, RejectToken, PoolExhausted, IndexAddr, AddrConflict, IndexKey,
                 KeyConflict, Abort, ChooseAddr, Commit, Answer, GoTo, Locks, TypeOK
      <4>2. ASSUME NEW q \in Requests, NEW k \in Tokens, NEW pubkey \in Keys,
                   Begin(q, k, pubkey)
            PROVE  pc'[r] \notin {"created", "exhausted"}
          BY <1>3, <4>2 DEF Begin, Locks, TypeOK
      <4>. QED
          BY <1>3, <4>1, <4>2, NextCases DEF CreateTenant, CreateToken, TimePasses, vars
    <3>. QED
        BY <3>1
  <2>. QED
      BY <2>1, <2>2, <2>3
<1>. QED
    BY <1>1, <1>2, <1>3

\* What registerPeer answers stays so in the tables, whatever other registrations
\* do meanwhile and afterwards.
THEOREM Truth == Spec => []AnswersAreTrue
<1>1. Init => Told
    BY DEF Init, Told
<1>2. Locks /\ Counted /\ Told /\ [Next]_vars => Told'
    BY ToldStep
<1>3. Counted /\ Told => AnswersAreTrue
    BY DEF Counted, Committed, Told, AnswersAreTrue
<1>. QED
    BY <1>1, <1>2, <1>3, PoolLocked, PTL DEF Spec
-------------------------------------------------------------------------------
\* Requests wait only for some that are further on: for a token's row before they
\* have chosen an address, then for the address, then for the key.
UnderWay == {r \in Requests : pc[r] \in {"begun"} \cup Working}

NoCircle ==
    /\ \A r, q \in Requests : WaitsFor(r, q) => q \in UnderWay
    /\ \A S \in SUBSET UnderWay :
         S # {} => \E r \in S : \A q \in S : ~WaitsFor(r, q)

\* However many requests there are: none waits for one that was answered, and among
\* any that are under way there is one that waits for none of the others.
THEOREM Ordering == Spec => []NoCircle
<1>1. TypeOK => NoCircle
  <2>. SUFFICES ASSUME TypeOK PROVE NoCircle
      OBVIOUS
  <2>1. \A r, q \in Requests : WaitsFor(r, q) => q \in UnderWay
      BY DEF WaitsFor, UnderWay, HoldsToken, AddrIndexed, KeyIndexed, Working
  <2>2. ASSUME NEW S \in SUBSET UnderWay, NEW x \in S
        PROVE  \E r \in S : \A q \in S : ~WaitsFor(r, q)
    <3>1. CASE \E r \in S : pc[r] \in {"locked", "inserted"}
        BY <3>1 DEF WaitsFor
    <3>2. CASE (\E r \in S : pc[r] = "indexed") /\ ~\E q \in S : pc[q] = "inserted"
        BY <3>2 DEF WaitsFor, KeyIndexed
    <3>3. CASE (\E r \in S : pc[r] = "chosen") /\ ~\E q \in S : pc[q] \in {"indexed", "inserted"}
        BY <3>3 DEF WaitsFor, AddrIndexed
    <3>4. CASE \A q \in S : pc[q] = "begun"
        BY <3>4 DEF WaitsFor, HoldsToken, Working
    <3>. QED
        BY <3>1, <3>2, <3>3, <3>4 DEF UnderWay, Working
  <2>. QED
      BY <2>1, <2>2 DEF NoCircle
<1>. QED
    BY <1>1, Typing, PTL

\* How far a request is.
Stage(point) ==
    CASE point = "idle" -> 0
      [] point = "begun" -> 1
      [] point = "locked" -> 2
      [] point = "chosen" -> 3
      [] point = "indexed" -> 4
      [] point = "inserted" -> 5
      [] point \in Answers -> 6

\* A statement brings its request on, and no step of any other takes it back: at
\* most five statements of each request are executed.
Onward ==
    \A r \in Requests :
        /\ Stage(pc[r]) <= Stage(pc'[r])
        /\ Proceed(r) => Stage(pc[r]) < Stage(pc'[r])
        /\ pc[r] \in Answers => pc'[r] = pc[r]

\* With Ordering, why all registrations are answered if the database goes on.
THEOREM Advancing == Spec => [][Onward]_vars
<1>1. TypeOK /\ [Next]_vars => [Onward]_vars
  <2>. SUFFICES ASSUME TypeOK, [Next]_vars PROVE Onward
      OBVIOUS
  <2>. USE DEF Stage, Working, Answers
  <2>1. ASSUME NEW q \in Requests, Proceed(q) \/ Abort(q)
        PROVE  /\ \A r \in Requests \ {q} : pc'[r] = pc[r]
               /\ pc[q] \in {"begun"} \cup Working
               /\ Stage(pc[q]) < Stage(pc'[q]) /\ Stage(pc'[q]) \in 0..6 /\ pc'[q] # pc[q]
    <3>. USE DEF TypeOK, Answer, GoTo
    <3>1. CASE LockToken(q) \/ RejectToken(q)
        BY <3>1 DEF LockToken, RejectToken
    <3>2. CASE ChooseAddr(q) \/ PoolExhausted(q)
        BY <3>2 DEF ChooseAddr, PoolExhausted
    <3>3. CASE IndexAddr(q) \/ AddrConflict(q)
        BY <3>3 DEF IndexAddr, AddrConflict
    <3>4. CASE IndexKey(q) \/ KeyConflict(q)
        BY <3>4 DEF IndexKey, KeyConflict
    <3>5. CASE Commit(q)
        BY <3>5 DEF Commit
    <3>6. CASE Abort(q)
        BY <3>6 DEF Abort
    <3>. QED
        BY <2>1, <3>1, <3>2, <3>3, <3>4, <3>5, <3>6 DEF Proceed
  <2>2. ASSUME NEW q \in Requests, NEW k \in Tokens, NEW pubkey \in Keys, Begin(q, k, pubkey)
        PROVE  /\ \A r \in Requests \ {q} : pc'[r] = pc[r]
               /\ pc[q] = "idle" /\ Stage(pc[q]) = 0 /\ Stage(pc'[q]) = 1
      BY <2>2 DEF Begin, TypeOK
  <2>3. \A r \in Requests : Stage(pc[r]) \in 0..6
      BY DEF TypeOK
  <2>4. ASSUME pc' # pc  PROVE Onward
    <3>. HIDE DEF Stage
    <3>1. CASE \E q \in Requests : Proceed(q) \/ Abort(q)
      <4>1. PICK q \in Requests : Proceed(q) \/ Abort(q)
          BY <3>1
      <4>2. /\ \A r \in Requests \ {q} : pc'[r] = pc[r]
            /\ pc[q] \in {"begun"} \cup Working
            /\ Stage(pc[q]) < Stage(pc'[q]) /\ Stage(pc'[q]) \in 0..6 /\ pc'[q] # pc[q]
          BY <2>1, <4>1
      <4>3. ASSUME NEW r \in Requests \ {q}  PROVE ~Proceed(r)
          BY <2>1, <4>2, <4>3
      <4>. QED
          BY <2>3, <4>2, <4>3 DEF Onward
    <3>2. CASE \E q \in Requests, k \in Tokens, pubkey \in Keys : Begin(q, k, pubkey)
      <4>1. PICK q \in Requests, k \in Tokens, pubkey \in Keys : Begin(q, k, pubkey)
          BY <3>2
      <4>2. \A r \in Requests : ~Proceed(r)
          BY <2>1, <2>2, <4>1
      <4>. QED
          BY <2>2, <2>3, <4>1, <4>2 DEF Onward
    <3>. QED
        BY <2>4, <3>1, <3>2 DEF Next, CreateTenant, CreateToken, TimePasses, vars
  <2>5. ASSUME pc' = pc  PROVE Onward
    <3>. HIDE DEF Stage
    <3>1. \A r \in Requests : ~Proceed(r)
        BY <2>1, <2>5
    <3>. QED
        BY <2>3, <2>5, <3>1 DEF Onward
  <2>. QED
      BY <2>4, <2>5
<1>. QED
    BY <1>1, Typing, PTL DEF Spec
-------------------------------------------------------------------------------
(***************************************************************************)
(* Why the transactions may take LowestFree for nextFreeAddr: the loop of  *)
(* module AddrScan computes it, for every set of prefixes.                 *)
(***************************************************************************)
\* The cursor stays in the block, so addr.Next() never wraps.
THEOREM ScanTyping == ScanSpec => []ScanTypeOK
<1>. USE PrefixesAssumption DEF ScanTypeOK, BlockType, ReservedHosts, Contains
<1>1. ScanInit => ScanTypeOK
    BY DEF ScanInit
<1>2. ScanTypeOK /\ [ScanNext]_scanVars => ScanTypeOK'
  <2>. SUFFICES ASSUME ScanTypeOK, [ScanNext]_scanVars PROVE ScanTypeOK'
      OBVIOUS
  <2>1. CASE LeaveBlock
      BY <2>1 DEF LeaveBlock
  <2>2. CASE TakeAddr
      BY <2>2 DEF TakeAddr
  <2>3. CASE SkipUsed
      BY <2>3 DEF SkipUsed
  <2>4. CASE UNCHANGED scanVars
      BY <2>4 DEF scanVars
  <2>. QED
      BY <2>1, <2>2, <2>3, <2>4 DEF ScanNext, Returned
<1>. QED
    BY <1>1, <1>2, PTL DEF ScanSpec

\* Every usable address behind the cursor is used.
THEOREM Passed == ScanSpec => []PassedAreUsed
<1>. USE PrefixesAssumption
     DEF PassedAreUsed, ScanTypeOK, BlockType, ReservedHosts, Contains, Usable, Free
<1>1. ScanInit => PassedAreUsed
    BY DEF ScanInit
<1>2. ScanTypeOK /\ PassedAreUsed /\ [ScanNext]_scanVars => PassedAreUsed'
  <2>. SUFFICES ASSUME ScanTypeOK, PassedAreUsed, [ScanNext]_scanVars
                PROVE  PassedAreUsed'
      OBVIOUS
  <2>1. CASE LeaveBlock
      BY <2>1 DEF LeaveBlock, AtBroadcast
  <2>2. CASE TakeAddr
      BY <2>2 DEF TakeAddr, AtBroadcast
  <2>3. CASE SkipUsed
      BY <2>3 DEF SkipUsed, AtBroadcast
  <2>4. CASE UNCHANGED scanVars
      BY <2>4 DEF scanVars
  <2>. QED
      BY <2>1, <2>2, <2>3, <2>4 DEF ScanNext, Returned
<1>. QED
    BY <1>1, <1>2, ScanTyping, PTL DEF ScanSpec

\* What the call returns is LowestFree, and it gives up only on a full pool.
THEOREM ScanCorrect == ScanSpec => []ReturnsLowestFree
<1>1. ScanTypeOK /\ PassedAreUsed => ReturnsLowestFree
  <2>. SUFFICES ASSUME ScanTypeOK, PassedAreUsed PROVE ReturnsLowestFree
      OBVIOUS
  <2>. DEFINE free == Free(prefix, used)
  <2>1. free \subseteq Nat
      BY PrefixesAssumption
         DEF ScanTypeOK, Free, Usable, BlockType, ReservedHosts
  <2>2. outcome = "found" => IsLowest(addr, free)
      BY <2>1 DEF PassedAreUsed, IsLowest, Free, ScanTypeOK
  <2>3. \A a, b \in Nat : a <= b /\ b <= a => a = b
      OBVIOUS
  <2>4. outcome = "found" => addr = LowestFree(prefix, used)
      BY <2>1, <2>2, <2>3 DEF LowestFree, IsLowest
  <2>. QED
      BY <2>4 DEF ReturnsLowestFree, PassedAreUsed
<1>. QED
    BY <1>1, ScanTyping, Passed, PTL

\* Why Terminates holds: an iteration that goes on is one address nearer to the
\* end of its block, so there are at most as many as the block has addresses.
Climbs ==
    outcome' = "scanning" =>
        /\ prefix' = prefix
        /\ prefix.last - addr' \in Nat /\ prefix.last - addr' < prefix.last - addr

THEOREM Climbing == ScanSpec => [][Climbs]_scanVars
<1>1. ScanTypeOK /\ [ScanNext]_scanVars => [Climbs]_scanVars
  <2>. SUFFICES ASSUME ScanTypeOK, ScanNext, outcome' = "scanning", scanVars' # scanVars
                PROVE  Climbs
      BY DEF Climbs
  <2>1. SkipUsed
      BY DEF ScanNext, LeaveBlock, TakeAddr, Returned
  <2>2. prefix.last \in Nat /\ prefix.first \in Nat /\ prefix.first <= prefix.last
      BY PrefixesAssumption DEF ScanTypeOK, BlockType
  <2>3. addr \in Nat /\ addr # prefix.last /\ addr <= prefix.last
        /\ prefix' = prefix /\ addr' = addr + 1
      BY <2>1 DEF SkipUsed, ScanTypeOK, Contains
  <2>. QED
      BY <2>2, <2>3 DEF Climbs
<1>. QED
    BY <1>1, ScanTyping, PTL DEF ScanSpec
-------------------------------------------------------------------------------
(***************************************************************************)
(* The lifetime of the token, module Lifetimes, for integers of any width. *)
(***************************************************************************)
LEMMA WordsStay ==
    ASSUME NEW n \in Words
    PROVE  Wrap(n) = n
<1>. DEFINE m == n + Half
            w == 2 * Half
<1>1. m \in 0..(w - 1) /\ w \in Nat \ {0}
    BY LifetimesAssumption DEF Words
<1>2. m % w = m
  <2>. HIDE DEF m, w
  <2>. QED
      BY <1>1
<1>3. n \in Int /\ Half \in Int
    BY LifetimesAssumption DEF Words
<1>. QED
    BY <1>2, <1>3 DEF Wrap

\* Seconds compare as their nanoseconds do.
LEMMA SecondsScale ==
    ASSUME NEW a \in Int, NEW b \in Int
    PROVE  /\ a * Second \in Int
           /\ a <= b <=> a * Second <= b * Second
           /\ 0 < a <=> 0 < a * Second
<1>1. Second \in Nat \ {0}
    BY LifetimesAssumption
<1>2. ASSUME NEW x \in Int, NEW y \in Int, x < y  PROVE x * Second < y * Second
  <2>1. (y - x) * Second > 0
      BY <1>1, <1>2
  <2>2. y * Second = x * Second + (y - x) * Second
      BY <1>1
  <2>. QED
      BY <1>1, <2>1, <2>2
<1>3. 0 * Second = 0
    BY <1>1
<1>. QED
    BY <1>1, <1>2, <1>3

\* A lifetime within the limits is granted as it is asked for, and no other is that
\* fits an int64 in nanoseconds.
THEOREM LifetimesHold == GrantedAsAsked
<1>1. MaxSeconds \in Nat /\ DefaultSeconds \in 1..MaxSeconds
    BY LifetimesAssumption
<1>2. \A a \in 1..MaxSeconds : /\ a * Second \in Int /\ 0 < a * Second
                               /\ a * Second <= MaxSeconds * Second
    BY <1>1, SecondsScale
<1>3. ASSUME NEW a \in 1..MaxSeconds  PROVE a * Second \in Words
  <2>1. MaxSeconds * Second \in Int /\ MaxSeconds * Second < Half /\ Half \in Nat
      BY <1>1, SecondsScale, LifetimesAssumption
  <2>2. \A x, y \in Int : 0 < x /\ x <= y /\ y < Half => x \in Words
      BY <2>1 DEF Words
  <2>. HIDE DEF Words
  <2>. QED
      BY <1>2, <2>1, <2>2
<1>4. ASSUME NEW a \in Words, a # 0, a * Second \in Words  PROVE Lifetime(a) = a * Second
    BY <1>4, WordsStay DEF Lifetime
<1>5. Granted(0)
    BY <1>1, <1>2 DEF Granted, Lifetime
<1>6. ASSUME NEW a \in 1..MaxSeconds  PROVE Granted(a) /\ Lifetime(a) = a * Second
  <2>1. Lifetime(a) = a * Second
      BY <1>3, WordsStay DEF Lifetime
  <2>. QED
      BY <1>2, <2>1 DEF Granted
<1>7. ASSUME NEW a \in Words, Granted(a), a * Second \in Words  PROVE a \in 0..MaxSeconds
  <2>1. a \in Int
      BY LifetimesAssumption DEF Words
  <2>2. CASE a # 0
    <3>1. 0 < a * Second /\ a * Second <= MaxSeconds * Second
        BY <1>4, <1>7, <2>2 DEF Granted
    <3>2. 0 < a /\ a <= MaxSeconds
        BY <1>1, <2>1, <3>1, SecondsScale
    <3>. QED
        BY <1>1, <2>1, <3>2
  <2>. QED
      BY <1>1, <2>2
<1>. QED
    BY <1>5, <1>6, <1>7 DEF GrantedAsAsked
===============================================================================

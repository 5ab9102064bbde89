------------------------------ MODULE RelayProofs ------------------------------
(***************************************************************************)
(* Theorems about Relay, and RelayNet, for every set of peers, tokens and  *)
(* addresses.                                                              *)
(***************************************************************************)
EXTENDS RelayNet, TLAPS

\* A token that was not issued has left no trace.
Fresh == \A t \in Tokens : issued[t] = NoPeer => addr[t] = NoAddr /\ t \notin recent

\* What forward has looked up is still so, or forgotten, when it writes.
SendingTrue ==
    sending.kind = "data" =>
        /\ sending.from \in Tokens /\ issued[sending.from] \in Peers
        /\ sending.to \in Tokens /\ issued[sending.to] \in Peers
        /\ sending.dst \in Addrs

Inv == TypeOK /\ Fresh /\ IndexesAgree /\ SendingTrue /\ NoMisdelivery

LEMMA KeyTyped ==
    ASSUME NEW p \in Peers
    PROVE  KeyOf(p) \in MeshKeys
BY RelayAssumption DEF KeyOf, MeshKeys

\* Two peers with one mesh key are one peer.
LEMMA KeyIsPeer ==
    ASSUME NEW p \in Peers, NEW q \in Peers, KeyOf(p) = KeyOf(q)
    PROVE  p = q
BY RelayAssumption DEF KeyOf

\* What forward finds: two sessions of two peers of the sender's tenant, the
\* second one at the address it is about to write to.
LEMMA ForwardFinds ==
    ASSUME Inv, NEW src \in Addrs, NEW dst \in MeshIPs, Forward(src, dst)
    PROVE  \E from, to \in byToken :
             /\ sending' = Data(from, to, addr[to])
             /\ from # to
             /\ issued[from] \in Peers /\ issued[to] \in Peers
             /\ issued[from] # issued[to]
             /\ TenantOf[issued[from]] = TenantOf[issued[to]]
             /\ {from, to} \subseteq recent
             /\ addr[from] \in Addrs /\ addr[to] \in Addrs
             /\ byAddr[addr[to]] = to
<1>. DEFINE from == byAddr[src]
            key == <<TenantOf[issued[from]], dst>>
            to == byMesh[key]
<1>1. /\ sending' = Data(from, to, addr[to])
      /\ from # to /\ Live(from) /\ Live(to)
    BY DEF Forward, Lookup
<1>2. from \in byToken /\ issued[from] \in Peers /\ addr[from] = src
    BY <1>1 DEF Inv, IndexesAgree, Live
<1>3. key \in MeshKeys
    BY <1>2 DEF MeshKeys
<1>4. to \in byToken /\ KeyOf(issued[to]) = key
    BY <1>1, <1>3 DEF Inv, IndexesAgree, Live
<1>5. issued[to] \in Peers /\ TenantOf[issued[to]] = TenantOf[issued[from]]
    BY <1>4 DEF Inv, IndexesAgree, KeyOf
<1>6. issued[to] # issued[from]
    BY <1>1, <1>2, <1>4 DEF Inv, IndexesAgree
<1>7. byAddr[addr[to]] = to /\ addr[to] \in Addrs
  <2>1. \A t \in byToken : Live(t) => byAddr[addr[t]] = t /\ addr[t] \in Addrs
      BY DEF Inv, IndexesAgree, Live, TypeOK
  <2>. QED
      BY <1>1, <1>4, <2>1
<1>. QED
    BY <1>1, <1>2, <1>4, <1>5, <1>6, <1>7 DEF Live

LEMMA TypeStep ==
    ASSUME Inv, [Next]_relayVars
    PROVE  TypeOK'
<1>. USE RelayAssumption DEF TypeOK, Inv
<1>1. ASSUME NEW p \in Peers, NEW t \in Tokens, Issue(p, t) PROVE TypeOK'
    BY <1>1, KeyTyped DEF Issue, ForgetAddr
<1>2. ASSUME NEW t \in Tokens, NEW src \in Addrs, Register(t, src) PROVE TypeOK'
    BY <1>2 DEF Register, MoveTo, Reindex
<1>3. ASSUME NEW src \in Addrs, NEW dst \in MeshIPs, Forward(src, dst) PROVE TypeOK'
  <2>1. UNCHANGED <<issued, addr, recent, maps>>
      BY <1>3 DEF Forward
  <2>2. \E from, to \in Tokens, a \in Addrs : sending' = Data(from, to, a)
      BY <1>3, ForwardFinds
  <2>. QED
      BY <2>1, <2>2 DEF maps
<1>4. CASE Write
    BY <1>4 DEF Write, maps
<1>5. ASSUME NEW t \in Tokens, TimePasses(t) PROVE TypeOK'
    BY <1>5 DEF TimePasses, maps
<1>6. CASE UNCHANGED relayVars
    BY <1>6 DEF relayVars
<1>. QED
    BY <1>1, <1>2, <1>3, <1>4, <1>5, <1>6 DEF Next

LEMMA FreshStep ==
    ASSUME Inv, [Next]_relayVars
    PROVE  Fresh'
<1>. USE RelayAssumption DEF Inv, Fresh, TypeOK
<1>1. ASSUME NEW p \in Peers, NEW t \in Tokens, Issue(p, t) PROVE Fresh'
    BY <1>1 DEF Issue
<1>2. ASSUME NEW t \in Tokens, NEW src \in Addrs, Register(t, src) PROVE Fresh'
  <2>1. issued[t] # NoPeer
      BY <1>2 DEF Register, IndexesAgree
  <2>. QED
      BY <1>2, <2>1 DEF Register, MoveTo
<1>. QED
    BY <1>1, <1>2 DEF Next, Forward, Write, TimePasses, maps, relayVars

\* Issue drops the old session from every map and puts the new one in.
LEMMA IssueIndexes ==
    ASSUME Inv, NEW p \in Peers, NEW t \in Tokens, Issue(p, t)
    PROVE  IndexesAgree'
<1>. USE RelayAssumption DEF Inv, TypeOK
<1>. DEFINE old == byPeer[p]
<1>1. /\ t \notin byToken /\ addr[t] = NoAddr /\ t # old
      BY DEF Issue, IndexesAgree, Fresh
<1>2. /\ issued' = [issued EXCEPT ![t] = p]
      /\ byToken' = (byToken \ {old}) \cup {t}
      /\ byPeer' = [byPeer EXCEPT ![p] = t]
      /\ byMesh' = [byMesh EXCEPT ![KeyOf(p)] = t]
      /\ addr' = addr
      BY DEF Issue
<1>3. \A u \in byToken \ {old} : issued[u] # p /\ u # t /\ KeyOf(issued[u]) # KeyOf(p)
      BY <1>1, KeyIsPeer DEF IndexesAgree
<1>4. \A a \in Addrs : byAddr'[a] = IF byAddr[a] = old THEN NoToken ELSE byAddr[a]
    <2>1. CASE old = NoToken
        BY <2>1 DEF Issue
    <2>2. CASE old # NoToken
        BY <2>2 DEF Issue, ForgetAddr, IndexesAgree
    <2>. QED
        BY <2>1, <2>2
<1>5. \A u \in byToken' :
        /\ issued'[u] \in Peers
        /\ byPeer'[issued'[u]] = u
        /\ byMesh'[KeyOf(issued'[u])] = u
        /\ addr'[u] # NoAddr => byAddr'[addr'[u]] = u
    <2>. SUFFICES ASSUME NEW u \in byToken'
                  PROVE  /\ issued'[u] \in Peers
                         /\ byPeer'[issued'[u]] = u
                         /\ byMesh'[KeyOf(issued'[u])] = u
                         /\ addr'[u] # NoAddr => byAddr'[addr'[u]] = u
        OBVIOUS
    <2>1. CASE u = t
        BY <1>1, <1>2, <2>1, KeyTyped
    <2>2. CASE u # t
      <3>1. u \in byToken \ {old} /\ issued'[u] = issued[u]
          BY <1>2, <2>2
      <3>2. issued[u] \in Peers /\ byPeer[issued[u]] = u /\ byMesh[KeyOf(issued[u])] = u
          BY <3>1 DEF IndexesAgree
      <3>3. byPeer'[issued[u]] = u /\ byMesh'[KeyOf(issued[u])] = u
          BY <1>2, <1>3, <3>1, <3>2, KeyTyped
      <3>4. addr[u] # NoAddr => byAddr'[addr[u]] = u
          BY <1>4, <3>1 DEF IndexesAgree
      <3>. QED
          BY <1>2, <3>1, <3>2, <3>3, <3>4
    <2>. QED
        BY <2>1, <2>2
<1>6. \A q \in Peers : byPeer'[q] # NoToken => byPeer'[q] \in byToken' /\ issued'[byPeer'[q]] = q
    BY <1>1, <1>2 DEF IndexesAgree
<1>7. \A a \in Addrs : byAddr'[a] # NoToken => byAddr'[a] \in byToken' /\ addr'[byAddr'[a]] = a
    BY <1>2, <1>4 DEF IndexesAgree
<1>8. \A k \in MeshKeys :
        byMesh'[k] # NoToken => byMesh'[k] \in byToken' /\ KeyOf(issued'[byMesh'[k]]) = k
    <2>. SUFFICES ASSUME NEW k \in MeshKeys, byMesh'[k] # NoToken
                  PROVE  byMesh'[k] \in byToken' /\ KeyOf(issued'[byMesh'[k]]) = k
        OBVIOUS
    <2>1. CASE k = KeyOf(p)
        BY <1>2, <2>1, KeyTyped
    <2>2. CASE k # KeyOf(p)
      <3>1. byMesh'[k] = byMesh[k]
          BY <1>2, <2>2
      <3>2. byMesh[k] \in byToken /\ KeyOf(issued[byMesh[k]]) = k
          BY <3>1 DEF IndexesAgree
      <3>3. byMesh[k] # old
          BY <2>2, <3>2 DEF IndexesAgree
      <3>4. issued'[byMesh[k]] = issued[byMesh[k]]
          BY <1>1, <1>2, <3>2
      <3>. QED
          BY <1>2, <3>1, <3>2, <3>3, <3>4
    <2>. QED
        BY <2>1, <2>2
<1>. QED
    BY <1>5, <1>6, <1>7, <1>8 DEF IndexesAgree, KeyOf

\* A session that moves is found where it registered, and only there.
LEMMA RegisterIndexes ==
    ASSUME Inv, NEW t \in Tokens, NEW src \in Addrs, Register(t, src)
    PROVE  IndexesAgree'
<1>. USE RelayAssumption DEF Inv, TypeOK
<1>1. /\ t \in byToken
      /\ UNCHANGED <<issued, byPeer, byToken, byMesh>>
    BY DEF Register
<1>2. CASE addr[t] = src
    BY <1>1, <1>2 DEF Register, IndexesAgree, KeyOf
<1>3. CASE addr[t] # src
  <2>1. addr' = MoveTo(t, src) /\ byAddr' = Reindex(t, src)
      BY <1>3 DEF Register
  <2>2. \A u \in byToken : addr'[u] # NoAddr => byAddr'[addr'[u]] = u
    <3>. SUFFICES ASSUME NEW u \in byToken, addr'[u] # NoAddr
                  PROVE  byAddr'[addr'[u]] = u
        OBVIOUS
    <3>1. CASE u = t
        BY <2>1, <3>1 DEF MoveTo, Reindex
    <3>2. CASE u # t
      <4>1. addr'[u] = addr[u] /\ u # byAddr[src]
          BY <2>1, <3>2 DEF MoveTo
      <4>2. byAddr[addr[u]] = u /\ addr[u] \in Addrs
          BY <4>1 DEF IndexesAgree
      <4>. QED
          BY <2>1, <3>2, <4>1, <4>2 DEF Reindex
    <3>. QED
        BY <3>1, <3>2
  <2>3. \A a \in Addrs : byAddr'[a] # NoToken => byAddr'[a] \in byToken /\ addr'[byAddr'[a]] = a
    <3>. SUFFICES ASSUME NEW a \in Addrs, byAddr'[a] # NoToken
                  PROVE  byAddr'[a] \in byToken /\ addr'[byAddr'[a]] = a
        OBVIOUS
    <3>1. CASE a = src
        BY <1>1, <2>1, <3>1 DEF MoveTo, Reindex
    <3>2. CASE a # src
      <4>1. byAddr'[a] = byAddr[a] /\ ~(byAddr[a] = t /\ addr[t] = a)
          BY <2>1, <3>2 DEF Reindex
      <4>2. byAddr[a] \in byToken /\ addr[byAddr[a]] = a /\ byAddr[a] # t
          BY <4>1 DEF IndexesAgree
      <4>3. byAddr[a] # byAddr[src]
          BY <3>2, <4>2 DEF IndexesAgree
      <4>. QED
          BY <2>1, <4>1, <4>2, <4>3 DEF MoveTo
    <3>. QED
        BY <3>1, <3>2
  <2>. QED
      BY <1>1, <2>2, <2>3 DEF IndexesAgree, KeyOf
<1>. QED
    BY <1>2, <1>3

LEMMA IndexStep ==
    ASSUME Inv, [Next]_relayVars
    PROVE  IndexesAgree'
<1>1. ASSUME UNCHANGED <<issued, addr, maps>> PROVE IndexesAgree'
    BY <1>1 DEF Inv, IndexesAgree, KeyOf, maps
<1>. QED
    BY <1>1, IssueIndexes, RegisterIndexes
       DEF Next, Forward, Write, TimePasses, maps, relayVars

\* Between its lookup and its write the frame's addressee keeps its address or
\* is forgotten: only Issue can interleave.
LEMMA SendingStep ==
    ASSUME Inv, [Next]_relayVars
    PROVE  (SendingTrue /\ NoMisdelivery)'
<1>. USE DEF SendingTrue, NoMisdelivery
<1>1. ASSUME NEW p \in Peers, NEW t \in Tokens, Issue(p, t)
      PROVE (SendingTrue /\ NoMisdelivery)'
  <2>1. /\ sending' = sending
        /\ \A u \in Tokens : issued[u] \in Peers => issued'[u] = issued[u]
        /\ \A a \in Addrs : byAddr'[a] \in {NoToken, byAddr[a]}
      BY <1>1, RelayAssumption DEF Issue, ForgetAddr, Inv, TypeOK
  <2>. QED
      BY <2>1 DEF Inv
<1>2. ASSUME NEW t \in Tokens, NEW src \in Addrs, Register(t, src)
      PROVE (SendingTrue /\ NoMisdelivery)'
    BY <1>2 DEF Register, Ack
<1>3. ASSUME NEW src \in Addrs, NEW dst \in MeshIPs, Forward(src, dst)
      PROVE (SendingTrue /\ NoMisdelivery)'
  <2>1. UNCHANGED <<issued, byAddr>>
      BY <1>3 DEF Forward, maps
  <2>2. PICK from \in byToken, to \in byToken :
             /\ sending' = Data(from, to, addr[to])
             /\ issued[from] \in Peers /\ issued[to] \in Peers
             /\ issued[from] # issued[to]
             /\ TenantOf[issued[from]] = TenantOf[issued[to]]
             /\ addr[to] \in Addrs
             /\ byAddr[addr[to]] = to
      BY <1>3, ForwardFinds
  <2>. QED
      BY <2>1, <2>2 DEF Data, Inv, TypeOK
<1>4. CASE Write
    BY <1>4 DEF Write, Nothing
<1>5. ASSUME UNCHANGED <<issued, byAddr, sending>> PROVE (SendingTrue /\ NoMisdelivery)'
    BY <1>5 DEF Inv
<1>. QED
    BY <1>1, <1>2, <1>3, <1>4, <1>5 DEF Next, TimePasses, maps, relayVars

\* The inductive invariant of the four maps and of the datagram being written.
THEOREM Invariance == Spec => []Inv
<1>1. Init => Inv
    BY RelayAssumption
       DEF Init, Inv, TypeOK, Fresh, IndexesAgree, SendingTrue, NoMisdelivery, Nothing
<1>2. Inv /\ [Next]_relayVars => Inv'
    BY TypeStep, FreshStep, IndexStep, SendingStep DEF Inv
<1>. QED
    BY <1>1, <1>2, PTL DEF Spec

\* The four maps of the relay agree whatever is registered, from wherever, and
\* whenever tokens are reissued.
THEOREM Indexes == Spec => []IndexesAgree
<1>1. Inv => IndexesAgree
    BY DEF Inv
<1>. QED
    BY <1>1, Invariance, PTL

\* No frame is written outside the sender's tenant or to an address that has
\* become another session's.
THEOREM Isolation == Spec => []NoMisdelivery
<1>1. Inv => NoMisdelivery
    BY DEF Inv
<1>. QED
    BY <1>1, Invariance, PTL
-------------------------------------------------------------------------------
\* What a registration does to sessions and addresses: t has src, the session that
\* had src has none, and nobody else moves.
LEMMA RegisterMoves ==
    ASSUME Inv, NEW t \in Tokens, NEW src \in Addrs, Register(t, src)
    PROVE  /\ t \in byToken /\ issued[t] \in Peers /\ byPeer[issued[t]] = t
           /\ addr'[t] = src /\ byAddr'[src] = t
           /\ addr[t] # NoAddr /\ addr[t] # src => byAddr'[addr[t]] = NoToken
           /\ \A u \in byToken \ {t} : addr'[u] = IF addr[u] = src THEN NoAddr ELSE addr[u]
<1>. USE RelayAssumption DEF Inv, TypeOK
<1>1. t \in byToken /\ issued[t] \in Peers /\ byPeer[issued[t]] = t
    BY DEF Register, IndexesAgree
<1>2. \A u \in byToken : addr[u] # NoAddr => byAddr[addr[u]] = u
    BY DEF IndexesAgree
<1>3. byAddr[src] # NoToken => addr[byAddr[src]] = src
    BY DEF IndexesAgree
<1>4. CASE addr[t] = src
    BY <1>1, <1>2, <1>4 DEF Register
<1>5. CASE addr[t] # src
    BY <1>1, <1>2, <1>3, <1>5 DEF Register, MoveTo, Reindex
<1>. QED
    BY <1>1, <1>4, <1>5

\* The sessions of a peer that registers or asks for a token again go on: Issue and
\* register take away no other session and no other address.
THEOREM Lasting == Spec => SessionsLast
<1>1. Inv /\ [Next]_relayVars =>
        [/\ \A p \in Peers : byPeer[p] # NoToken => byPeer'[p] # NoToken
         /\ \A t \in byToken \cap byToken' :
              addr[t] # NoAddr /\ addr'[t] # addr[t] =>
                  \/ addr'[t] # NoAddr /\ byAddr'[addr[t]] = NoToken
                  \/ addr'[t] = NoAddr /\ byAddr'[addr[t]] \in byToken' \ {t}]_relayVars
  <2>. DEFINE Kept == \A p \in Peers : byPeer[p] # NoToken => byPeer'[p] # NoToken
              Moved(t) == addr[t] # NoAddr /\ addr'[t] # addr[t] =>
                              \/ addr'[t] # NoAddr /\ byAddr'[addr[t]] = NoToken
                              \/ addr'[t] = NoAddr /\ byAddr'[addr[t]] \in byToken' \ {t}
  <2>. SUFFICES ASSUME Inv, Next
                PROVE  Kept /\ \A t \in byToken \cap byToken' : Moved(t)
      OBVIOUS
  <2>1. ASSUME UNCHANGED <<addr, byPeer>>
        PROVE  Kept /\ \A t \in byToken \cap byToken' : Moved(t)
      BY <2>1
  <2>2. ASSUME NEW p \in Peers, NEW t \in Tokens, Issue(p, t)
        PROVE  Kept /\ \A u \in byToken \cap byToken' : Moved(u)
    <3>1. Kept
        BY <2>2, RelayAssumption DEF Issue, Inv, TypeOK
    <3>2. addr' = addr
        BY <2>2 DEF Issue
    <3>. QED
        BY <3>1, <3>2
  <2>3. ASSUME NEW t \in Tokens, NEW src \in Addrs, Register(t, src)
        PROVE  Kept /\ \A u \in byToken \cap byToken' : Moved(u)
    <3>1. byPeer' = byPeer /\ byToken' = byToken /\ src # NoAddr
        BY <2>3, RelayAssumption DEF Register
    <3>2. Moved(t)
        BY <2>3, <3>1, RegisterMoves
    <3>3. \A u \in byToken \ {t} : Moved(u)
        BY <2>3, <3>1, RegisterMoves
    <3>. QED
        BY <3>1, <3>2, <3>3
  <2>. QED
      BY <2>1, <2>2, <2>3 DEF Next, Forward, Write, TimePasses, maps
<1>. QED
    BY <1>1, Invariance, PTL DEF Spec, SessionsLast
-------------------------------------------------------------------------------
\* The relay with its maps, sessions and tokens does what a table of where each
\* peer registered last does: Issue empties an entry, register fills one, and
\* forward reads two of them.
THEOREM Refinement == Spec => RefinesTable
<1>1. Init => Table!Init
    BY RelayAssumption DEF Init, Nothing, Where, Table!Init
<1>2. Inv /\ [Next]_relayVars => [Table!Next]_(Table!tableVars)
  <2>. SUFFICES ASSUME Inv, [Next]_relayVars
                PROVE  [Table!Next]_(Table!tableVars)
      OBVIOUS
  <2>. DEFINE where == [p \in Peers |-> Where(p)]
              heard == {p \in Peers : byPeer[p] \in recent}
              frame == IF sending.kind = "data"
                       THEN {[from |-> issued[sending.from], to |-> issued[sending.to],
                              dst |-> sending.dst]}
                       ELSE {}
  <2>1. ASSUME NEW p \in Peers, NEW t \in Tokens, Issue(p, t)
        PROVE  Table!Renew(p)
    <3>1. addr' = addr /\ recent' = recent /\ addr[t] = NoAddr /\ t \notin recent
        BY <2>1 DEF Issue, Inv, Fresh
    <3>2. byPeer' = [byPeer EXCEPT ![p] = t]
        BY <2>1 DEF Issue
    <3>3. where' = [where EXCEPT ![p] = NoAddr]
      <4>1. where'[p] = NoAddr
          BY <3>1, <3>2, RelayAssumption DEF Where, Inv, TypeOK
      <4>2. \A q \in Peers \ {p} : where'[q] = where[q]
          BY <3>1, <3>2 DEF Where, Inv, TypeOK
      <4>. QED
          BY <4>1, <4>2
    <3>4. heard' = heard \ {p}
        BY <3>1, <3>2 DEF Inv, TypeOK
    <3>5. frame' = frame
      <4>1. sending' = sending /\ \A u \in Tokens : issued[u] \in Peers => issued'[u] = issued[u]
          BY <2>1, RelayAssumption DEF Issue, Inv, TypeOK
      <4>. QED
          BY <4>1 DEF Inv, SendingTrue
    <3>. QED
        BY <3>3, <3>4, <3>5 DEF Table!Renew
  <2>2. ASSUME NEW t \in Tokens, NEW src \in Addrs, Register(t, src)
        PROVE  \E p \in Peers : Table!Settle(p, src)
    <3>. DEFINE p == issued[t]
    <3>1. p \in Peers /\ byPeer[p] = t /\ t # NoToken /\ src # NoAddr
        BY <2>2, RegisterMoves, RelayAssumption
    <3>2. byPeer' = byPeer /\ recent' = recent \cup {t}
        BY <2>2 DEF Register
    <3>3. \A q \in Peers \ {p} : byPeer[q] # NoToken => byPeer[q] \in byToken \ {t}
        BY <3>1 DEF Inv, IndexesAgree
    <3>4. where' = [q \in Peers |-> IF q = p THEN src ELSE IF where[q] = src THEN NoAddr ELSE where[q]]
      <4>1. \A q \in Peers : where'[q] = IF byPeer[q] = NoToken THEN NoAddr ELSE addr'[byPeer[q]]
          BY <3>2 DEF Where
      <4>2. where'[p] = src
          BY <2>2, <3>1, <4>1, RegisterMoves
      <4>3. \A q \in Peers \ {p} : where'[q] = IF where[q] = src THEN NoAddr ELSE where[q]
          BY <2>2, <3>1, <3>3, <4>1, RegisterMoves DEF Where
      <4>. QED
          BY <4>2, <4>3
    <3>5. heard' = heard \cup {p}
        BY <3>1, <3>2, <3>3, RelayAssumption DEF Inv, TypeOK
    <3>6. frame = {} /\ frame' = {}
        BY <2>2 DEF Register, Reading, Nothing, Ack
    <3>7. Table!Settle(p, src)
        BY <3>4, <3>5, <3>6 DEF Table!Settle
    <3>. QED
        BY <3>1, <3>7
  <2>3. ASSUME NEW src \in Addrs, NEW dst \in MeshIPs, Forward(src, dst)
        PROVE  \E p, q \in Peers : Table!Carry(p, q)
    <3>1. PICK from \in byToken, to \in byToken :
             /\ sending' = Data(from, to, addr[to])
             /\ issued[from] \in Peers /\ issued[to] \in Peers
             /\ issued[from] # issued[to]
             /\ TenantOf[issued[from]] = TenantOf[issued[to]]
             /\ {from, to} \subseteq recent
             /\ addr[from] \in Addrs /\ addr[to] \in Addrs
        BY <2>3, ForwardFinds
    <3>2. byPeer[issued[from]] = from /\ byPeer[issued[to]] = to
        BY <3>1 DEF Inv, IndexesAgree
    <3>3. from # NoToken /\ to # NoToken
        BY RelayAssumption DEF Inv, TypeOK
    <3>4. where[issued[from]] = addr[from] /\ where[issued[to]] = addr[to]
        BY <3>1, <3>2, <3>3 DEF Where
    <3>5. {issued[from], issued[to]} \subseteq heard
        BY <3>1, <3>2
    <3>6. where' = where /\ heard' = heard /\ issued' = issued
        BY <2>3 DEF Forward, maps, Where
    <3>7. frame = {}
        BY <2>3 DEF Forward, Reading, Nothing
    <3>8. frame' = {[from |-> issued[from], to |-> issued[to], dst |-> where[issued[to]]]}
        BY <3>1, <3>4, <3>6 DEF Data
    <3>9. Table!Carry(issued[from], issued[to])
        BY <3>1, <3>4, <3>5, <3>6, <3>7, <3>8, RelayAssumption DEF Table!Carry
    <3>. QED
        BY <3>1, <3>9
  <2>4. ASSUME Write
        PROVE  Table!Delivered
      BY <2>4 DEF Write, Nothing, maps, Where, Table!Delivered
  <2>5. ASSUME NEW t \in Tokens, TimePasses(t)
        PROVE  (\E p \in Peers : Table!Silence(p)) \/ UNCHANGED Table!tableVars
    <3>1. where' = where /\ frame' = frame
        BY <2>5 DEF TimePasses, maps, Where
    <3>2. byPeer' = byPeer /\ recent' = recent \ {t}
        BY <2>5 DEF TimePasses, maps
    <3>3. CASE \E p \in Peers : byPeer[p] = t
      <4>1. PICK p \in Peers : byPeer[p] = t
          BY <3>3
      <4>2. \A q \in Peers : byPeer[q] = t => q = p
          BY <4>1, RelayAssumption DEF Inv, IndexesAgree
      <4>3. heard' = heard \ {p}
          BY <3>2, <4>1, <4>2
      <4>. QED
          BY <3>1, <4>3 DEF Table!Silence
    <3>4. CASE ~\E p \in Peers : byPeer[p] = t
      <4>1. heard' = heard
          BY <3>2, <3>4
      <4>. QED
          BY <3>1, <4>1 DEF Table!tableVars
    <3>. QED
        BY <3>3, <3>4
  <2>6. CASE UNCHANGED relayVars
      BY <2>6 DEF relayVars, Where, Table!tableVars
  <2>. QED
      BY <2>1, <2>2, <2>3, <2>4, <2>5, <2>6 DEF Next, Table!Next
<1>. QED
    BY <1>1, <1>2, Invariance, PTL DEF Spec, RefinesTable, Table!Spec
-------------------------------------------------------------------------------
(***************************************************************************)
(* Nodes that keep registered with this relay, module RelayNet: the same   *)
(* invariant holds of a relay that restarts, and the nodes' own needs it   *)
(* to name whom a token was issued to.                                     *)
(***************************************************************************)
\* What only the control plane gives: acknowledgements of what it confirmed, and
\* tokens to the node that asked.
Given ==
    /\ sending = Nothing \/ \E t \in Tokens, a \in Addrs : sending = Ack(t, a)
    /\ \A m \in wire : m.kind = "ack" => m.token \in confirmed
    /\ \A p \in Peers :
         /\ held[p] # NoToken => issued[held[p]] = p
         /\ grant[p] # NoToken => issued[grant[p]] = p

\* What a node makes of it.
Believed ==
    \A p \in Peers :
        /\ status[p] # "due" => held[p] # NoToken
        /\ status[p] = "up" => held[p] \in confirmed

NetInv == Inv /\ NetTypeOK /\ Given /\ Believed

\* Everything but a restart is a step of the relay, or none.
RelayStep == [Next]_relayVars

LEMMA FreshIsNew ==
    ASSUME TokensLeft
    PROVE  FreshToken \in Tokens /\ issued[FreshToken] = NoPeer
BY DEF TokensLeft, FreshToken

LEMMA ServeIssues ==
    ASSUME NEW p \in Peers, ServeCall(p) \/ ServeLate(p)
    PROVE  TokensLeft /\ Issue(p, FreshToken) /\ RelayStep
BY FreshIsNew DEF ServeCall, ServeLate, RelayStep, Next

\* A session keeps its peer whatever is served meanwhile.
LEMMA IssuedStays ==
    ASSUME NetInv, RelayStep
    PROVE  \A t \in Tokens : issued[t] \in Peers => issued'[t] = issued[t]
<1>1. ASSUME NEW p \in Peers, NEW t \in Tokens, Issue(p, t)
      PROVE  \A u \in Tokens : issued[u] \in Peers => issued'[u] = issued[u]
    BY <1>1, RelayAssumption DEF Issue, NetInv, Inv, TypeOK
<1>. QED
    BY <1>1 DEF RelayStep, Next, Register, Forward, Write, TimePasses, relayVars

LEMMA ReadSteps ==
    ASSUME NetInv, NEW m \in wire, Read(m)
    PROVE  /\ RelayStep /\ issued' = issued
           /\ sending' = Nothing \/ \E t \in Tokens, a \in Addrs : sending' = Ack(t, a)
<1>1. m.token \in Tokens /\ m.addr \in Addrs
    BY DEF NetInv, NetTypeOK
<1>2. CASE Register(m.token, m.addr)
  <2>1. RelayStep
      BY <1>1, <1>2 DEF RelayStep, Next
  <2>2. issued' = issued /\ sending' = Ack(m.token, m.addr)
      BY <1>2 DEF Register
  <2>. QED
      BY <1>1, <2>1, <2>2
<1>3. CASE Reading /\ UNCHANGED relayVars
    BY <1>3 DEF RelayStep, relayVars, Reading
<1>. QED
    BY <1>2, <1>3 DEF Read

LEMMA WriteSteps ==
    ASSUME NetInv, WriteAck
    PROVE  /\ RelayStep /\ UNCHANGED issued /\ sending' = Nothing
           /\ \E t \in Tokens, a \in Addrs :
                 wire' = wire \cup {AckFor(t, a)} /\ confirmed' = confirmed \cup {t}
<1>1. PICK t \in Tokens, a \in Addrs : sending = Ack(t, a)
    BY DEF WriteAck, Write, Reading, NetInv, Given
<1>2. sending.token = t /\ sending.dst = a
    BY <1>1 DEF Ack
<1>. QED
    BY <1>2 DEF WriteAck, Write, RelayStep, Next

\* A restart forgets every session, which is consistent, and no token's owner.
LEMMA RestartInv ==
    ASSUME NetInv, Restart
    PROVE  Inv'
<1>. USE RelayAssumption DEF NetInv, Inv
<1>1. TypeOK'
    BY DEF TypeOK, Restart
<1>2. Fresh'
    BY DEF Fresh, Restart
<1>3. IndexesAgree'
    BY DEF IndexesAgree, Restart
<1>4. (SendingTrue /\ NoMisdelivery)'
    BY DEF SendingTrue, NoMisdelivery, Restart, Nothing
<1>. QED
    BY <1>1, <1>2, <1>3, <1>4

LEMMA RelayKeeps ==
    ASSUME NetInv, RelayStep
    PROVE  Inv'
BY TypeStep, FreshStep, IndexStep, SendingStep DEF NetInv, Inv, RelayStep

\* The node's two threads.
LEMMA NodeKeeps ==
    ASSUME NetInv, UNCHANGED faults, NEW p \in Peers,
           AskToken(p) \/ UseGrant(p) \/ KeepRegistered(p) \/ Unacknowledged(p) \/ ReceiveAck(p)
    PROVE  NetInv'
<1>. USE RelayAssumption DEF NetInv, NetTypeOK, Given, Believed
<1>1. RelayStep /\ UNCHANGED <<issued, sending, addr, byPeer, byToken, recent, byAddr, byMesh>>
    BY DEF RelayStep, relayVars, AskToken, UseGrant, KeepRegistered, Unacknowledged, ReceiveAck
<1>2. Inv'
    BY <1>1, RelayKeeps
<1>3. TypeOK'
    BY <1>2 DEF Inv
<1>4. CASE AskToken(p)
    BY <1>1, <1>2, <1>3, <1>4 DEF AskToken
<1>5. CASE UseGrant(p)
  <2>1. RegisterFrom(grant[p], home[p]) \in [kind : {"register", "ack"}, token : Tokens, addr : Addrs]
      BY <1>5 DEF UseGrant, RegisterFrom
  <2>2. RegisterFrom(grant[p], home[p]).kind # "ack"
      BY DEF RegisterFrom
  <2>3. NetTypeOK'
      BY <1>3, <1>5, <2>1 DEF UseGrant
  <2>4. Given'
      BY <1>1, <1>5, <2>2 DEF UseGrant
  <2>5. Believed'
      BY <1>5 DEF UseGrant
  <2>. QED
      BY <1>2, <2>3, <2>4, <2>5
<1>6. CASE KeepRegistered(p)
  <2>1. Registration(p) \in [kind : {"register", "ack"}, token : Tokens, addr : Addrs]
      BY <1>6 DEF KeepRegistered, Registration, RegisterFrom
  <2>2. Registration(p).kind # "ack"
      BY DEF Registration, RegisterFrom
  <2>. QED
      BY <1>1, <1>2, <1>3, <1>6, <2>1, <2>2 DEF KeepRegistered, nodeVars
<1>7. CASE Unacknowledged(p)
    BY <1>1, <1>2, <1>3, <1>7 DEF Unacknowledged
<1>8. CASE ReceiveAck(p)
  <2>1. PICK t \in Tokens :
           /\ AckFor(t, home[p]) \in wire
           /\ wire' = wire \ {AckFor(t, home[p])}
           /\ status' = [status EXCEPT ![p] = IF t = held[p] THEN "up" ELSE @]
           /\ UNCHANGED <<relayVars, home, held, asking, grant, late, confirmed, faults>>
      BY <1>8 DEF ReceiveAck
  <2>2. t \in confirmed
      BY <2>1 DEF AckFor
  <2>. QED
      BY <1>1, <1>2, <1>3, <2>1, <2>2
<1>. QED
    BY <1>4, <1>5, <1>6, <1>7, <1>8

\* The control plane.
LEMMA ControlKeeps ==
    ASSUME NetInv, UNCHANGED faults
    PROVE  /\ \A p \in Peers : ServeCall(p) \/ ServeLate(p) => NetInv'
           /\ \A m \in wire : ReadOnce(m) \/ Undeliverable(m) => NetInv'
           /\ WriteAck => NetInv'
<1>. USE RelayAssumption DEF NetInv, NetTypeOK, Given, Believed
<1>1. ASSUME NEW p \in Peers, ServeCall(p) \/ ServeLate(p) PROVE NetInv'
  <2>1. /\ TokensLeft /\ Issue(p, FreshToken) /\ RelayStep
        /\ FreshToken \in Tokens
      BY <1>1, ServeIssues, FreshIsNew
  <2>2. Inv' /\ TypeOK'
      BY <2>1, RelayKeeps DEF Inv
  <2>3. /\ \A t \in Tokens : issued[t] \in Peers => issued'[t] = issued[t]
        /\ issued'[FreshToken] = p /\ sending' = sending
      BY <2>1, IssuedStays DEF Issue, Inv, TypeOK
  <2>4. CASE ServeCall(p)
      BY <2>1, <2>2, <2>3, <2>4 DEF ServeCall
  <2>5. CASE ServeLate(p)
      BY <2>1, <2>2, <2>3, <2>5 DEF ServeLate
  <2>. QED
      BY <1>1, <2>4, <2>5
<1>2. ASSUME NEW m \in wire, ReadOnce(m) PROVE NetInv'
  <2>1. Inv' /\ TypeOK'
      BY <1>2, ReadSteps, RelayKeeps DEF ReadOnce, Inv
  <2>. QED
      BY <1>2, <2>1, ReadSteps DEF ReadOnce, Read, nodeVars
<1>3. ASSUME NEW m \in wire, Undeliverable(m) PROVE NetInv'
  <2>1. RelayStep
      BY <1>3 DEF Undeliverable, RelayStep
  <2>2. Inv' /\ TypeOK'
      BY <2>1, RelayKeeps DEF Inv
  <2>. QED
      BY <1>3, <2>2 DEF Undeliverable, nodeVars, relayVars
<1>4. ASSUME WriteAck PROVE NetInv'
  <2>1. Inv' /\ TypeOK'
      BY <1>4, WriteSteps, RelayKeeps DEF Inv
  <2>2. PICK t \in Tokens, a \in Addrs :
           wire' = wire \cup {AckFor(t, a)} /\ confirmed' = confirmed \cup {t}
      BY <1>4, WriteSteps
  <2>3. AckFor(t, a) \in [kind : {"register", "ack"}, token : Tokens, addr : Addrs]
        /\ AckFor(t, a).token = t
      BY DEF AckFor
  <2>4. UNCHANGED <<issued, nodeVars, faults>> /\ sending' = Nothing
      BY <1>4, WriteSteps DEF WriteAck
  <2>. QED
      BY <2>1, <2>2, <2>3, <2>4 DEF nodeVars
<1>. QED
    BY <1>1, <1>2, <1>3, <1>4

\* What goes wrong.
LEMMA FaultKeeps ==
    ASSUME NetInv, Fault
    PROVE  NetInv'
<1>. USE RelayAssumption, RelayNetAssumption DEF NetInv, NetTypeOK, Given, Believed
<1>1. faults' \in 0..MaxFaults
    BY DEF Fault
<1>2. ASSUME NEW p \in Peers, CallFails(p) \/ Stall(p) PROVE NetInv'
  <2>1. RelayStep /\ UNCHANGED relayVars
      BY <1>2 DEF CallFails, Stall, RelayStep
  <2>2. Inv' /\ TypeOK'
      BY <2>1, RelayKeeps DEF Inv
  <2>3. CASE CallFails(p)
      BY <1>1, <2>1, <2>2, <2>3 DEF CallFails, relayVars
  <2>4. CASE Stall(p)
      BY <1>1, <2>1, <2>2, <2>4 DEF Stall, relayVars
  <2>. QED
      BY <1>2, <2>3, <2>4
<1>3. ASSUME NEW h \in [Peers -> Addrs], Remap(h) PROVE NetInv'
  <2>1. RelayStep /\ UNCHANGED relayVars
      BY <1>3 DEF Remap, RelayStep
  <2>2. Inv' /\ TypeOK'
      BY <2>1, RelayKeeps DEF Inv
  <2>. QED
      BY <1>1, <1>3, <2>1, <2>2 DEF Remap, relayVars
<1>4. ASSUME NEW m \in wire, Lose(m) PROVE NetInv'
  <2>1. RelayStep /\ UNCHANGED relayVars
      BY <1>4 DEF Lose, RelayStep
  <2>2. Inv' /\ TypeOK'
      BY <2>1, RelayKeeps DEF Inv
  <2>. QED
      BY <1>1, <1>4, <2>1, <2>2 DEF Lose, relayVars, nodeVars
<1>5. ASSUME NEW m \in wire, Repeat(m) PROVE NetInv'
  <2>1. Inv' /\ TypeOK'
      BY <1>5, ReadSteps, RelayKeeps DEF Repeat, Inv
  <2>. QED
      BY <1>1, <1>5, <2>1, ReadSteps DEF Repeat, Read, nodeVars
<1>6. ASSUME NEW t \in Tokens, Silence(t) PROVE NetInv'
  <2>1. RelayStep /\ UNCHANGED <<issued, sending>>
      BY <1>6 DEF Silence, RelayStep, Next, TimePasses
  <2>2. Inv' /\ TypeOK'
      BY <2>1, RelayKeeps DEF Inv
  <2>. QED
      BY <1>1, <1>6, <2>1, <2>2 DEF Silence, nodeVars
<1>7. ASSUME Restart PROVE NetInv'
  <2>1. Inv' /\ TypeOK'
      BY <1>7, RestartInv DEF Inv
  <2>. QED
      BY <1>1, <1>7, <2>1 DEF Restart, Nothing
<1>. QED
    BY <1>2, <1>3, <1>4, <1>5, <1>6, <1>7 DEF Fault

LEMMA NetInvariance == NetSpec => []NetInv
<1>1. NetInit => NetInv
  <2>1. Init => Inv
      BY RelayAssumption
         DEF Init, Inv, TypeOK, Fresh, IndexesAgree, SendingTrue, NoMisdelivery, Nothing
  <2>. QED
      BY <2>1, RelayAssumption, RelayNetAssumption
         DEF NetInit, NetInv, NetTypeOK, Given, Believed, Inv, Init
<1>2. NetInv /\ [NetNext]_netVars => NetInv'
  <2>. SUFFICES ASSUME NetInv, [NetNext]_netVars PROVE NetInv'
      OBVIOUS
  <2>1. ASSUME NEW p \in Peers,
               \/ AskToken(p) \/ UseGrant(p) \/ KeepRegistered(p) \/ Unacknowledged(p)
               \/ ReceiveAck(p)
        PROVE  NetInv'
    <3>1. UNCHANGED faults
        BY <2>1 DEF AskToken, UseGrant, KeepRegistered, Unacknowledged, ReceiveAck
    <3>. QED
        BY <2>1, <3>1, NodeKeeps
  <2>2. ASSUME NEW p \in Peers, ServeCall(p) \/ ServeLate(p) PROVE NetInv'
    <3>1. UNCHANGED faults
        BY <2>2 DEF ServeCall, ServeLate
    <3>. QED
        BY <2>2, <3>1, ControlKeeps
  <2>3. ASSUME NEW m \in wire, ReadOnce(m) \/ Undeliverable(m) PROVE NetInv'
    <3>1. UNCHANGED faults
        BY <2>3 DEF ReadOnce, Undeliverable
    <3>. QED
        BY <2>3, <3>1, ControlKeeps
  <2>4. CASE WriteAck
    <3>1. UNCHANGED faults
        BY <2>4 DEF WriteAck
    <3>. QED
        BY <2>4, <3>1, ControlKeeps
  <2>5. CASE Fault
      BY <2>5, FaultKeeps
  <2>6. CASE UNCHANGED netVars
    <3>1. RelayStep /\ UNCHANGED <<relayVars, nodeVars, wire, confirmed, faults>>
        BY <2>6 DEF netVars, RelayStep
    <3>2. Inv'
        BY <3>1, RelayKeeps
    <3>. QED
        BY <3>1, <3>2 DEF NetInv, NetTypeOK, Given, Believed, Inv, nodeVars, relayVars
  <2>. QED
      BY <2>1, <2>2, <2>3, <2>4, <2>5, <2>6 DEF NetNext
<1>. QED
    BY <1>1, <1>2, PTL DEF NetSpec

\* The types of the nodes' state, the grants only of calls in progress included.
THEOREM NetTyping == NetSpec => []NetTypeOK
<1>1. NetInv => NetTypeOK
    BY DEF NetInv
<1>. QED
    BY <1>1, NetInvariance, PTL

\* However acknowledgements are lost, repeated and delayed, calls given up and the
\* control plane restarted, a node takes the relay to be up only when the relay
\* has acknowledged the token it holds, which was issued to it.
THEOREM Evidence == NetSpec => []UpOnEvidence
<1>1. NetInv => UpOnEvidence
    BY DEF NetInv, Given, Believed, UpOnEvidence
<1>. QED
    BY <1>1, NetInvariance, PTL

\* A restart that empties the maps leaves them in agreement, and what nodes then
\* register and ask for keeps them so.
THEOREM IndexesSurvive == NetSpec => [](IndexesAgree /\ NoMisdelivery)
<1>1. NetInv => IndexesAgree /\ NoMisdelivery
    BY DEF NetInv, Inv
<1>. QED
    BY <1>1, NetInvariance, PTL
===============================================================================

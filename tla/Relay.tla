--------------------------------- MODULE Relay ---------------------------------
(***************************************************************************)
(* The control plane's relay, internal/relay/relay.go: sessions found      *)
(* through four maps that one mutex guards, used by two kinds of thread.   *)
(* HTTP handlers call Issue at any time; the prober's single read loop     *)
(* calls HandleFrame, which changes the maps under the mutex and writes a  *)
(* datagram after releasing it.                                            *)
(*                                                                         *)
(* A session is named by its token, which is random and never reused.      *)
(* Datagrams come from anywhere, in any order and any number of times.     *)
(***************************************************************************)
EXTENDS Naturals

CONSTANTS
    Peers, NoPeer,
    TenantOf, MeshIP,   \* of each peer, from its row in the peers table
    MeshIPs,            \* the addresses data frames are sent to
    Tokens, NoToken,
    Addrs, NoAddr       \* UDP source addresses

\* Mesh addresses are only unique within a tenant: UNIQUE (tenant_id, mesh_ip).
ASSUME RelayAssumption ==
    /\ NoPeer \notin Peers /\ NoToken \notin Tokens /\ NoAddr \notin Addrs
    /\ \A p \in Peers : MeshIP[p] \in MeshIPs
    /\ \A p, q \in Peers : TenantOf[p] = TenantOf[q] /\ MeshIP[p] = MeshIP[q] => p = q

VARIABLES
    issued,             \* issued[t]: the peer of the session t, NoPeer before Issue
    addr,               \* addr[t]: session.addr
    recent,             \* sessions whose lastSeen is less than SessionTTL ago
    byPeer, byToken, byAddr, byMesh,    \* the maps; byToken is its set of keys
    sending             \* what the read loop is about to write, outside the mutex

maps == <<byPeer, byToken, byAddr, byMesh>>
relayVars == <<issued, addr, recent, byPeer, byToken, byAddr, byMesh, sending>>

MeshKeys == {<<TenantOf[p], m>> : p \in Peers, m \in MeshIPs}
KeyOf(p) == <<TenantOf[p], MeshIP[p]>>

Nothing == [kind |-> "nothing"]
Ack(t, a) == [kind |-> "ack", token |-> t, dst |-> a]
Data(t, u, a) == [kind |-> "data", from |-> t, to |-> u, dst |-> a]

Reading == sending = Nothing

Live(t) == t # NoToken /\ addr[t] # NoAddr /\ t \in recent

Init ==
    /\ issued = [t \in Tokens |-> NoPeer]
    /\ addr = [t \in Tokens |-> NoAddr]
    /\ recent = {}
    /\ byPeer = [p \in Peers |-> NoToken]
    /\ byToken = {}
    /\ byAddr = [a \in Addrs |-> NoToken]
    /\ byMesh = [k \in MeshKeys |-> NoToken]
    /\ sending = Nothing
-------------------------------------------------------------------------------
\* What forget leaves of byAddr.  The other maps are overwritten by Issue, which
\* is its only caller and gives the new session the same peer and mesh key.
ForgetAddr(t) == [a \in Addrs |-> IF byAddr[a] = t /\ addr[t] = a THEN NoToken ELSE byAddr[a]]

\* A bug: the old session's token stays valid.
BugIssue(p, t) ==
    /\ issued[t] = NoPeer
    /\ issued' = [issued EXCEPT ![t] = p]
    /\ byToken' = byToken \cup {t}
    /\ byAddr' = IF byPeer[p] = NoToken THEN byAddr ELSE ForgetAddr(byPeer[p])
    /\ byPeer' = [byPeer EXCEPT ![p] = t]
    /\ byMesh' = [byMesh EXCEPT ![KeyOf(p)] = t]
    /\ UNCHANGED <<addr, recent, sending>>

\* Replaces any earlier session of p.
Issue(p, t) ==
    /\ issued[t] = NoPeer
    /\ issued' = [issued EXCEPT ![t] = p]
    /\ byToken' = (byToken \ {byPeer[p]}) \cup {t}
    /\ byAddr' = IF byPeer[p] = NoToken THEN byAddr ELSE ForgetAddr(byPeer[p])
    /\ byPeer' = [byPeer EXCEPT ![p] = t]
    /\ byMesh' = [byMesh EXCEPT ![KeyOf(p)] = t]
    /\ UNCHANGED <<addr, recent, sending>>

\* A bug: the session that had the address is not told that it lost it.
BugMoveTo(t, src) == [addr EXCEPT ![t] = src]

\* A session registering from src takes it from the session that had it.
MoveTo(t, src) ==
    [u \in Tokens |->
        IF u = t THEN src
        ELSE IF u = byAddr[src] THEN NoAddr
        ELSE addr[u]]

\* A bug: a session that moves keeps its old address in the map.
BugReindex(t, src) == [byAddr EXCEPT ![src] = t]

Reindex(t, src) ==
    [a \in Addrs |->
        IF a = src THEN t
        ELSE IF byAddr[a] = t /\ addr[t] = a THEN NoToken
        ELSE byAddr[a]]

\* A bug: several read loops share the socket.
BugRegister(t, src) ==
    /\ t \in byToken
    /\ addr' = IF addr[t] = src THEN addr ELSE MoveTo(t, src)
    /\ byAddr' = IF addr[t] = src THEN byAddr ELSE Reindex(t, src)
    /\ recent' = recent \cup {t}
    /\ sending' = IF Reading THEN Ack(t, src) ELSE sending
    /\ UNCHANGED <<issued, byPeer, byToken, byMesh>>

\* A registration with an unknown token is dropped.
Register(t, src) ==
    /\ Reading
    /\ t \in byToken
    /\ addr' = IF addr[t] = src THEN addr ELSE MoveTo(t, src)
    /\ byAddr' = IF addr[t] = src THEN byAddr ELSE Reindex(t, src)
    /\ recent' = recent \cup {t}
    /\ sending' = Ack(t, src)
    /\ UNCHANGED <<issued, byPeer, byToken, byMesh>>

Lookup(t, dst) == byMesh[<<TenantOf[issued[t]], dst>>]

\* Data from a source without a live session, or to a destination without one
\* in the sender's tenant, is dropped.
Forward(src, dst) ==
    LET from == byAddr[src]
        to == Lookup(from, dst) IN
    /\ Reading
    /\ Live(from)
    /\ to # from /\ Live(to)
    /\ sending' = Data(from, to, addr[to])
    /\ UNCHANGED <<issued, addr, recent, maps>>

\* WriteToUDPAddrPort, after which the loop reads the next datagram.
Write ==
    /\ ~Reading
    /\ sending' = Nothing
    /\ UNCHANGED <<issued, addr, recent, maps>>

\* SessionTTL passes without the session being heard.
TimePasses(t) ==
    /\ t \in recent
    /\ recent' = recent \ {t}
    /\ UNCHANGED <<issued, addr, maps, sending>>

Next ==
    \/ \E p \in Peers, t \in Tokens : Issue(p, t)
    \/ \E t \in Tokens, src \in Addrs : Register(t, src)
    \/ \E src \in Addrs, dst \in MeshIPs : Forward(src, dst)
    \/ Write
    \/ \E t \in Tokens : TimePasses(t)

Spec == Init /\ [][Next]_relayVars
-------------------------------------------------------------------------------
TypeOK ==
    /\ issued \in [Tokens -> Peers \cup {NoPeer}]
    /\ addr \in [Tokens -> Addrs \cup {NoAddr}]
    /\ recent \subseteq Tokens
    /\ byPeer \in [Peers -> Tokens \cup {NoToken}]
    /\ byToken \subseteq Tokens
    /\ byAddr \in [Addrs -> Tokens \cup {NoToken}]
    /\ byMesh \in [MeshKeys -> Tokens \cup {NoToken}]
    /\ sending \in {Nothing} \cup {Ack(t, a) : t \in Tokens, a \in Addrs}
                   \cup {Data(t, u, a) : t, u \in Tokens, a \in Addrs}

\* The four maps tell one story: every session in byToken is its peer's and its
\* mesh address's, a session with an address is the one found at it, and every
\* entry of the other maps leads to a session of byToken.  So each peer has at
\* most one session, each address at most one peer, and no session leaks.
IndexesAgree ==
    /\ \A t \in byToken :
         /\ issued[t] \in Peers
         /\ byPeer[issued[t]] = t
         /\ byMesh[KeyOf(issued[t])] = t
         /\ addr[t] # NoAddr => byAddr[addr[t]] = t
    /\ \A p \in Peers : byPeer[p] # NoToken => byPeer[p] \in byToken /\ issued[byPeer[p]] = p
    /\ \A a \in Addrs : byAddr[a] # NoToken => byAddr[a] \in byToken /\ addr[byAddr[a]] = a
    /\ \A k \in MeshKeys : byMesh[k] # NoToken => byMesh[k] \in byToken /\ KeyOf(issued[byMesh[k]]) = k

\* A frame never leaves the sender's tenant, and when it is written, after the
\* mutex is released, no session but the addressee's has taken its address:
\* Issue may have come in between, another registration may not.
NoMisdelivery ==
    sending.kind = "data" =>
        /\ TenantOf[issued[sending.from]] = TenantOf[issued[sending.to]]
        /\ issued[sending.from] # issued[sending.to]
        /\ byAddr[sending.dst] \in {NoToken, sending.to}

\* A peer with a session keeps one, and a session loses its address only to a
\* session that registers there, or when its own peer registers elsewhere.
SessionsLast ==
    [][/\ \A p \in Peers : byPeer[p] # NoToken => byPeer'[p] # NoToken
       /\ \A t \in byToken \cap byToken' :
            addr[t] # NoAddr /\ addr'[t] # addr[t] =>
                \/ addr'[t] # NoAddr /\ byAddr'[addr[t]] = NoToken
                \/ addr'[t] = NoAddr /\ byAddr'[addr[t]] \in byToken' \ {t}]_relayVars

\* What peers see of the relay, without maps or sessions: RelayTable.
Where(p) == IF byPeer[p] = NoToken THEN NoAddr ELSE addr[byPeer[p]]
Table == INSTANCE RelayTable WITH
    where <- [p \in Peers |-> Where(p)],
    heard <- {p \in Peers : byPeer[p] \in recent},
    frame <- IF sending.kind = "data"
             THEN {[from |-> issued[sending.from], to |-> issued[sending.to], dst |-> sending.dst]}
             ELSE {}
RefinesTable == Table!Spec
===============================================================================

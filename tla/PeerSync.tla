-------------------------------- MODULE PeerSync --------------------------------
(***************************************************************************)
(* How nodes come to reach each other: each node's refreshPeers and        *)
(* syncPeers (cmd/meshd), which configure WireGuard with where to send for *)
(* every other node, and WireGuard itself, which from then on follows its  *)
(* peers wherever their packets come from ("WireGuard roams to and from    *)
(* [the relay] like any other endpoint", cmd/meshd/relay.go).              *)
(*                                                                         *)
(* A handshake is an initiation, a response and a confirming packet; a     *)
(* packet from a peer it knows moves the receiver's endpoint for it.       *)
(***************************************************************************)
EXTENDS Naturals

CONSTANTS
    Nodes,
    Addrs, NoAddr,      \* where datagrams can be sent
    Relay,              \* the endpoint relay:<mesh ip>; each peer has one
    HomeOf,             \* the addresses a node may be seen from
    MaxFaults           \* a bound, not code: changes of the network

ASSUME PeerSyncAssumption ==
    /\ NoAddr \notin Addrs /\ Relay \notin Addrs \cup {NoAddr}
    /\ HomeOf \in [Nodes -> SUBSET Addrs]
    /\ \A n, m \in Nodes : n # m => HomeOf[n] \cap HomeOf[m] = {}
    /\ MaxFaults \in Nat

VARIABLES
    listed,             \* listed[n]: the endpoint the control plane gives for n
    relayUp,            \* nodes that believe in the relay
    pc, want,           \* refreshPeers: where it is, and what it is to configure
    wgPeers,            \* wgPeers[n][m]: d.wgPeers, or Unknown
    device,             \* device[n][m]: WireGuard's endpoint
    stale,              \* <<n, m>>: n's last handshake with m is older than handshakeStale
    at,                 \* at[n]: the address n's datagrams come from
    open,               \* whether datagrams pass between the nodes directly
    registered,         \* nodes the relay forwards for
    wire,
    roamed,             \* history: pairs whose device endpoint a packet has moved
                        \* away from where syncPeers set it
    faults

syncVars == <<pc, want, wgPeers>>
netVars == <<at, open, registered, faults>>
vars == <<listed, relayUp, syncVars, device, roamed, stale, netVars, wire>>

Pairs == {p \in Nodes \X Nodes : p[1] # p[2]}
Unknown == [known |-> FALSE, endpoint |-> NoAddr, aged |-> FALSE, relayed |-> FALSE]
Peer == [known : BOOLEAN, endpoint : Addrs \cup {NoAddr}, aged : BOOLEAN, relayed : BOOLEAN]
Targets == Addrs \cup {NoAddr, Relay}

\* wgPeer.target; NoAddr is the empty string.
Target(p) == IF p.relayed THEN Relay ELSE p.endpoint

Init ==
    /\ listed = [n \in Nodes |-> NoAddr]
    /\ relayUp = {}
    /\ pc = [n \in Nodes |-> "idle"]
    /\ want = [p \in Pairs |-> Unknown]
    /\ wgPeers = [p \in Pairs |-> Unknown]
    /\ device = [p \in Pairs |-> NoAddr]
    /\ roamed = {}
    /\ stale = Pairs
    /\ at \in {f \in [Nodes -> Addrs] : \A n \in Nodes : f[n] \in HomeOf[n]}
    /\ open \in BOOLEAN
    /\ registered = {}
    /\ wire = {}
    /\ faults = 0
-------------------------------------------------------------------------------
(* refreshPeers, every peerRefreshInterval. *)

\* A bug: a new endpoint does not start the budget again.
BugKeepsSince(prev, ep, up, isStale) ==
    LET endpoint == IF ep # NoAddr THEN ep ELSE prev.endpoint
        same == prev.known /\ endpoint = prev.endpoint
    IN  [known |-> TRUE, endpoint |-> endpoint, aged |-> prev.aged,
         relayed |-> \/ same /\ prev.relayed
                     \/ up /\ (endpoint = NoAddr \/ (prev.aged /\ isStale))]

\* What syncPeers wants for one peer.
Wanted(prev, ep, up, isStale) ==
    LET endpoint == IF ep # NoAddr THEN ep ELSE prev.endpoint
        same == prev.known /\ endpoint = prev.endpoint
        aged == same /\ prev.aged
    IN  [known |-> TRUE, endpoint |-> endpoint, aged |-> aged,
         relayed |-> \/ same /\ prev.relayed
                     \/ up /\ (endpoint = NoAddr \/ (aged /\ isStale))]

\* The answer to ListPeers and what the rest of syncPeers reads.  An answer that
\* is old when it is used is one that comes before the other node's Publish.
Decide(n) ==
    /\ pc[n] = "idle"
    /\ pc' = [pc EXCEPT ![n] = "decided"]
    /\ want' = [p \in Pairs |->
                  IF p[1] = n
                  THEN Wanted(wgPeers[p], listed[p[2]], n \in relayUp, p \in stale)
                  ELSE want[p]]
    /\ UNCHANGED <<listed, relayUp, wgPeers, device, roamed, stale, netVars, wire>>

\* A bug: what changed is the endpoint, not the target.
BugDiffsEndpoint(n) ==
    /\ pc[n] = "decided"
    /\ pc' = [pc EXCEPT ![n] = "idle"]
    /\ want' = [p \in Pairs |-> IF p[1] = n THEN Unknown ELSE want[p]]
    /\ device' = [p \in Pairs |->
                    IF p[1] = n /\ want[p].endpoint # wgPeers[p].endpoint
                    THEN Target(want[p]) ELSE device[p]]
    /\ wgPeers' = [p \in Pairs |-> IF p[1] = n THEN want[p] ELSE wgPeers[p]]
    /\ roamed' = {p \in roamed : p[1] = n => want[p].endpoint = wgPeers[p].endpoint}
    /\ UNCHANGED <<listed, relayUp, stale, netVars, wire>>

\* IpcSet, of what changed only.
Configure(n) ==
    /\ pc[n] = "decided"
    /\ pc' = [pc EXCEPT ![n] = "idle"]
    /\ want' = [p \in Pairs |-> IF p[1] = n THEN Unknown ELSE want[p]]
    /\ device' = [p \in Pairs |->
                    IF p[1] = n /\ Target(want[p]) # Target(wgPeers[p])
                    THEN Target(want[p]) ELSE device[p]]
    /\ wgPeers' = [p \in Pairs |-> IF p[1] = n THEN want[p] ELSE wgPeers[p]]
    /\ roamed' = {p \in roamed : p[1] = n => Target(want[p]) = Target(wgPeers[p])}
    /\ UNCHANGED <<listed, relayUp, stale, netVars, wire>>

\* punchBudget passes, which no packet outlives.  The time is read when syncPeers
\* begins, and matters only for a peer that is punched to.
Age(p) ==
    /\ wire = {}
    /\ wgPeers[p].endpoint # NoAddr /\ ~wgPeers[p].relayed /\ ~wgPeers[p].aged
    /\ pc[p[1]] = "idle"
    /\ wgPeers' = [wgPeers EXCEPT ![p].aged = TRUE]
    /\ UNCHANGED <<listed, relayUp, pc, want, device, roamed, stale, netVars, wire>>
-------------------------------------------------------------------------------
(* WireGuard. *)

SourceOf(n, ep) == IF ep = Relay THEN Relay ELSE at[n]
Initiation(p, ep) == [from |-> p[1], to |-> p[2], src |-> SourceOf(p[1], ep)]
Back(p) == <<p[2], p[1]>>

\* A datagram p[1] sends to ep, its endpoint for p[2], arrives there.
Arrives(p, ep) ==
    \/ ep = Relay /\ {p[1], p[2]} \subseteq registered
    \/ ep = at[p[2]] /\ open

\* Retried while there is no session, and every two minutes with keepalives on.
\* One that is lost is one of those that were not sent.
Initiate(p) ==
    /\ wgPeers[p].known
    /\ Arrives(p, device[p])
    /\ \A m \in wire : m.from # p[1]
    /\ wire' = wire \cup {Initiation(p, device[p])}
    /\ UNCHANGED <<listed, relayUp, syncVars, device, roamed, stale, netVars>>

\* p[1] gets p[2]'s initiation and, if it knows the peer, answers it where it
\* comes from: both now have the other where these packets came from.
Receive(p, src) ==
    /\ [from |-> p[2], to |-> p[1], src |-> src] \in wire
    /\ wire' = {m \in wire : m.from # p[2]}
    /\ IF wgPeers[p].known
       THEN LET answered == Arrives(p, src) IN
            /\ device' = [device EXCEPT ![p] = src,
                                        ![Back(p)] = IF answered THEN SourceOf(p[1], src) ELSE @]
            /\ roamed' = {q \in Pairs : /\ q \in roamed \/ device'[q] # device[q]
                                        /\ device'[q] # Target(wgPeers[q])}
            /\ stale' = IF answered THEN stale \ {p, Back(p)} ELSE stale
       ELSE UNCHANGED <<device, roamed, stale>>
    /\ UNCHANGED <<listed, relayUp, syncVars, netVars>>

Works(p) == wgPeers[p].known /\ wgPeers[Back(p)].known /\ Arrives(p, device[p])

\* handshakeStale passes without a handshake: neither node can reach the other.
Expire(p) ==
    /\ p \notin stale /\ ~Works(p) /\ ~Works(Back(p))
    /\ stale' = stale \cup {p}
    /\ UNCHANGED <<listed, relayUp, syncVars, device, roamed, netVars, wire>>
-------------------------------------------------------------------------------
(* The other parts of the system, and the network. *)

\* reportEndpoint or refreshNATEndpoint.
Publish(n) ==
    /\ listed' = [listed EXCEPT ![n] = at[n]]
    /\ UNCHANGED <<relayUp, syncVars, device, roamed, stale, netVars, wire>>

\* The relay acknowledges a registration (module RelayNet) ...
Register(n) ==
    /\ registered' = registered \cup {n}
    /\ relayUp' = relayUp \cup {n}
    /\ UNCHANGED <<listed, syncVars, device, roamed, stale, at, open, faults, wire>>

\* ... or has not done so for relayAckTimeout.
RelayDown(n) ==
    /\ n \notin registered
    /\ relayUp' = relayUp \ {n}
    /\ UNCHANGED <<listed, syncVars, device, roamed, stale, netVars, wire>>

Unregister(n) ==
    /\ registered' = registered \ {n}
    /\ UNCHANGED <<listed, relayUp, syncVars, device, roamed, stale, at, open, wire>>

Move(n, a) ==
    /\ a \in HomeOf[n] /\ a # at[n]
    /\ at' = [at EXCEPT ![n] = a]
    /\ UNCHANGED <<listed, relayUp, syncVars, device, roamed, stale, open, registered, wire>>

Toggle ==
    /\ open' = ~open
    /\ UNCHANGED <<listed, relayUp, syncVars, device, roamed, stale, at, registered, wire>>

Fault ==
    /\ faults < MaxFaults
    /\ faults' = faults + 1
    /\ \/ \E n \in Nodes : Unregister(n) \/ \E a \in Addrs : Move(n, a)
       \/ Toggle

Next ==
    \/ \E n \in Nodes :
         \/ Decide(n) \/ Configure(n)
         \/ Publish(n) \/ Register(n) \/ RelayDown(n)
    \/ \E p \in Pairs : Age(p) \/ Initiate(p) \/ Expire(p)
    \/ \E p \in Pairs, src \in Addrs \cup {Relay} : Receive(p, src)
    \/ Fault

Fairness ==
    /\ \A n \in Nodes :
         /\ WF_vars(Decide(n) \/ Configure(n))
         /\ WF_vars(Publish(n)) /\ WF_vars(Register(n))
    /\ \A p \in Pairs : SF_vars(Age(p)) /\ SF_vars(Initiate(p)) /\ WF_vars(Expire(p))
    /\ WF_vars(\E p \in Pairs, src \in Addrs \cup {Relay} : Receive(p, src))

Spec == Init /\ [][Next]_vars /\ Fairness
-------------------------------------------------------------------------------
(* The types; what syncPeers has not configured, WireGuard does not know. *)
TypeOK ==
    /\ listed \in [Nodes -> Addrs \cup {NoAddr}]
    /\ relayUp \subseteq Nodes /\ registered \subseteq relayUp
    /\ pc \in [Nodes -> {"idle", "decided"}]
    /\ want \in [Pairs -> Peer] /\ wgPeers \in [Pairs -> Peer]
    /\ device \in [Pairs -> Targets]
    /\ \A p \in Pairs : ~wgPeers[p].known => wgPeers[p] = Unknown /\ device[p] = NoAddr
    /\ stale \subseteq Pairs /\ roamed \subseteq Pairs
    /\ at \in [Nodes -> Addrs] /\ open \in BOOLEAN
    /\ wire \subseteq [from : Nodes, to : Nodes, src : Addrs \cup {Relay}]
    /\ faults \in 0..MaxFaults

(* "Only changes are sent" amounts to sending everything: where no packet has *)
(* moved it, WireGuard's endpoint is the target of the peer as syncPeers has  *)
(* it, though it was set by one of many earlier calls.                        *)
InStep == \A p \in Pairs \ roamed : device[p] = Target(wgPeers[p])

(* A peer with an endpoint is moved to the relay only after punchBudget at    *)
(* that very endpoint: a new one gets a budget of its own (want.since).       *)
PunchFirst ==
    [][\A p \in Pairs :
         wgPeers'[p].relayed /\ ~wgPeers[p].relayed /\ wgPeers'[p].endpoint # NoAddr =>
            wgPeers'[p].endpoint = wgPeers[p].endpoint /\ wgPeers[p].aged]_vars

(* The relay forwards between nodes that "cannot reach each other directly or *)
(* by hole punching" (internal/relay): after the last change of the network   *)
(* they have a recent handshake, and go on having one.                        *)
Reconnects == <>[](stale = {})

\* Both nodes had WireGuard use the relay, and a packet has taken it elsewhere.
LeftRelay == \A p \in Pairs : wgPeers[p].relayed /\ p \in roamed

(* ... unless both nodes have configured the relay and WireGuard then roamed  *)
(* away from it on both sides, which syncPeers does not see.                  *)
ReconnectsUnlessRoamed == Reconnects \/ <>[]LeftRelay
===============================================================================

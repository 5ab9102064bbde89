-------------------------------- MODULE RelayNet --------------------------------
(***************************************************************************)
(* Nodes keeping themselves registered with the relay: cmd/meshd/relay.go  *)
(* (refreshRelay, issueRelayToken, useRelay, registerRelay, ackRelay) over *)
(* a network that loses, repeats and reorders datagrams, with the control  *)
(* plane's relay (module Relay), which forgets every session when it       *)
(* restarts.  A node is two threads: maintain's loop, which runs           *)
(* refreshRelay, and the receive loop, which takes the acknowledgements.   *)
(*                                                                         *)
(* Time: a node that registers every 15 s is acknowledged within the 45 s  *)
(* of relayAckTimeout unless the relay does not know its token or          *)
(* something went wrong; what goes wrong is bounded by MaxFaults.          *)
(***************************************************************************)
EXTENDS Relay

CONSTANTS
    StartsAt,           \* where each node's datagrams come from at first
    MaxFaults           \* a bound, not code

ASSUME RelayNetAssumption ==
    /\ StartsAt \in [Peers -> Addrs]
    /\ \A p, q \in Peers : StartsAt[p] = StartsAt[q] => p = q
    /\ MaxFaults \in Nat

VARIABLES
    home,               \* home[p]: the address p's datagrams come from
    held,               \* held[p]: bind.relayToken
    status,             \* status[p]: "up" while relayUp; "waiting" when it is not but
                        \* relayIssued is recent; "due" when a token is to be asked for
    asking,             \* nodes in IssueRelayToken
    grant,              \* grant[p]: the answer to that call, once the server gave it
    late,               \* nodes of whom a call they gave up is still to be served
    wire,               \* datagrams on their way
    confirmed,          \* history: tokens the relay has acknowledged
    faults

nodeVars == <<home, held, status, asking, grant, late>>
netVars == <<relayVars, nodeVars, wire, confirmed, faults>>

RegisterFrom(t, a) == [kind |-> "register", token |-> t, addr |-> a]
Registration(p) == RegisterFrom(held[p], home[p])
AckFor(t, a) == [kind |-> "ack", token |-> t, addr |-> a]

NetInit ==
    /\ Init
    /\ home = StartsAt
    /\ held = [p \in Peers |-> NoToken]
    /\ status = [p \in Peers |-> "due"]
    /\ asking = {}
    /\ grant = [p \in Peers |-> NoToken]
    /\ late = {}
    /\ wire = {}
    /\ confirmed = {}
    /\ faults = 0
-------------------------------------------------------------------------------
(* The maintain loop. *)

AskToken(p) ==
    /\ status[p] = "due" /\ p \notin asking
    /\ asking' = asking \cup {p}
    /\ UNCHANGED <<relayVars, home, held, status, grant, late, wire, confirmed, faults>>

\* useRelay, and the registration that follows it.
UseGrant(p) ==
    /\ grant[p] # NoToken
    /\ held' = [held EXCEPT ![p] = grant[p]]
    /\ status' = [status EXCEPT ![p] = "waiting"]
    /\ asking' = asking \ {p}
    /\ grant' = [grant EXCEPT ![p] = NoToken]
    /\ wire' = wire \cup {RegisterFrom(grant[p], home[p])}
    /\ UNCHANGED <<relayVars, home, late, confirmed, faults>>

KeepRegistered(p) ==
    /\ status[p] # "due" /\ p \notin asking
    /\ wire' = wire \cup {Registration(p)}
    /\ UNCHANGED <<relayVars, nodeVars, confirmed, faults>>

\* A bug: the token is kept although the relay stopped acknowledging it.
BugKeepsToken(p) ==
    /\ status[p] = "up"
    /\ held[p] \notin byToken
    /\ status' = [status EXCEPT ![p] = "waiting"]
    /\ UNCHANGED <<relayVars, home, held, asking, grant, late, wire, confirmed, faults>>

\* relayAckTimeout passes without an acknowledgement: the relay does not know
\* the token, and has dropped every registration with it.
Unacknowledged(p) ==
    /\ status[p] # "due" /\ p \notin asking
    /\ held[p] \notin byToken
    /\ status' = [status EXCEPT ![p] = "due"]
    /\ UNCHANGED <<relayVars, home, held, asking, grant, late, wire, confirmed, faults>>
-------------------------------------------------------------------------------
(* The receive loop. *)

\* A bug: any acknowledgement will do.
BugReceiveAck(p) ==
    \E t \in Tokens :
        /\ AckFor(t, home[p]) \in wire
        /\ wire' = wire \ {AckFor(t, home[p])}
        /\ status' = [status EXCEPT ![p] = "up"]
        /\ UNCHANGED <<relayVars, home, held, asking, grant, late, confirmed, faults>>

\* ackRelay: only an acknowledgement of the token in use counts.
ReceiveAck(p) ==
    \E t \in Tokens :
        /\ AckFor(t, home[p]) \in wire
        /\ wire' = wire \ {AckFor(t, home[p])}
        /\ status' = [status EXCEPT ![p] = IF t = held[p] THEN "up" ELSE @]
        /\ UNCHANGED <<relayVars, home, held, asking, grant, late, confirmed, faults>>
-------------------------------------------------------------------------------
(* The control plane. *)

\* A token is random, so which unused one it is makes no difference.
FreshToken == CHOOSE t \in Tokens : issued[t] = NoPeer
TokensLeft == \E t \in Tokens : issued[t] = NoPeer

ServeCall(p) ==
    /\ p \in asking /\ grant[p] = NoToken
    /\ TokensLeft /\ Issue(p, FreshToken)
    /\ grant' = [grant EXCEPT ![p] = FreshToken]
    /\ UNCHANGED <<home, held, status, asking, late, wire, confirmed, faults>>

\* A call the node has given up replaces its session all the same.
ServeLate(p) ==
    /\ p \in late
    /\ TokensLeft /\ Issue(p, FreshToken)
    /\ late' = late \ {p}
    /\ UNCHANGED <<home, held, status, asking, grant, wire, confirmed, faults>>

\* The relay reads a registration.
Read(m) ==
    /\ m \in wire /\ m.kind = "register"
    /\ \/ Register(m.token, m.addr)
       \/ Reading /\ m.token \notin byToken /\ UNCHANGED relayVars
    /\ UNCHANGED <<nodeVars, confirmed>>

\* An acknowledgement to an address nobody has any more.
Undeliverable(m) ==
    /\ m \in wire /\ m.kind = "ack" /\ m.addr \notin {home[p] : p \in Peers}
    /\ wire' = wire \ {m}
    /\ UNCHANGED <<relayVars, nodeVars, confirmed, faults>>

ReadOnce(m) == Read(m) /\ wire' = wire \ {m} /\ UNCHANGED faults

WriteAck ==
    /\ Write
    /\ wire' = wire \cup {AckFor(sending.token, sending.dst)}
    /\ confirmed' = confirmed \cup {sending.token}
    /\ UNCHANGED <<nodeVars, faults>>
-------------------------------------------------------------------------------
(* What goes wrong. *)

CallFails(p) ==
    /\ p \in asking
    /\ asking' = asking \ {p}
    /\ grant' = [grant EXCEPT ![p] = NoToken]
    /\ late' \in {late, IF grant[p] = NoToken THEN late \cup {p} ELSE late}
    /\ UNCHANGED <<relayVars, home, held, status, wire, confirmed>>

Lose(m) ==
    /\ m \in wire
    /\ wire' = wire \ {m}
    /\ UNCHANGED <<relayVars, nodeVars, confirmed>>

Repeat(m) == Read(m) /\ UNCHANGED wire

\* Acknowledgements are delayed past relayAckTimeout, or lost for that long.
Stall(p) ==
    /\ status[p] # "due" /\ p \notin asking
    /\ status' = [status EXCEPT ![p] = "due"]
    /\ UNCHANGED <<relayVars, home, held, asking, grant, late, wire, confirmed>>

\* The NAT forgets its mappings, or addresses change hands.
Remap(h) ==
    /\ \A p, q \in Peers : h[p] = h[q] => p = q
    /\ home' = h
    /\ UNCHANGED <<relayVars, held, status, asking, grant, late, wire, confirmed>>

Silence(t) == TimePasses(t) /\ UNCHANGED <<nodeVars, wire, confirmed>>

\* The control plane restarts: every session is gone, and every call but those
\* whose answer is already on its way.
Restart ==
    /\ addr' = [t \in Tokens |-> NoAddr]
    /\ recent' = {}
    /\ byPeer' = [p \in Peers |-> NoToken]
    /\ byToken' = {}
    /\ byAddr' = [a \in Addrs |-> NoToken]
    /\ byMesh' = [k \in MeshKeys |-> NoToken]
    /\ sending' = Nothing
    /\ asking' = {p \in asking : grant[p] # NoToken}
    /\ late' = {}
    /\ UNCHANGED <<issued, home, held, status, grant, wire, confirmed>>

Fault ==
    /\ faults < MaxFaults
    /\ faults' = faults + 1
    /\ \/ \E p \in Peers : CallFails(p) \/ Stall(p)
       \/ \E h \in [Peers -> Addrs] : Remap(h)
       \/ \E m \in wire : Lose(m) \/ Repeat(m)
       \/ \E t \in Tokens : Silence(t)
       \/ Restart
-------------------------------------------------------------------------------
NetNext ==
    \/ \E p \in Peers :
         \/ AskToken(p) \/ UseGrant(p) \/ KeepRegistered(p) \/ Unacknowledged(p)
         \/ ReceiveAck(p)
         \/ ServeCall(p) \/ ServeLate(p)
    \/ \E m \in wire : ReadOnce(m) \/ Undeliverable(m)
    \/ WriteAck
    \/ Fault

\* The node's threads and the control plane run, and a datagram that is sent
\* again and again arrives in the end.
Fairness ==
    /\ \A p \in Peers :
         /\ WF_netVars(AskToken(p)) /\ WF_netVars(UseGrant(p)) /\ WF_netVars(ServeCall(p))
         /\ WF_netVars(KeepRegistered(p)) /\ WF_netVars(Unacknowledged(p))
         /\ WF_netVars(ReceiveAck(p))
         /\ SF_netVars(ReadOnce(Registration(p)))
    /\ WF_netVars(WriteAck)

NetSpec == NetInit /\ [][NetNext]_netVars /\ Fairness
-------------------------------------------------------------------------------
NetTypeOK ==
    /\ TypeOK /\ confirmed \subseteq Tokens /\ faults \in 0..MaxFaults
    /\ home \in [Peers -> Addrs]
    /\ held \in [Peers -> Tokens \cup {NoToken}]
    /\ status \in [Peers -> {"due", "waiting", "up"}]
    /\ asking \subseteq Peers /\ late \subseteq Peers
    /\ grant \in [Peers -> Tokens \cup {NoToken}]
    /\ \A p \in Peers : grant[p] # NoToken => p \in asking
    /\ wire \subseteq [kind : {"register", "ack"}, token : Tokens, addr : Addrs]

\* A node believes in the relay only on the relay's word for the token it now
\* holds: not on an acknowledgement of an earlier token that arrives late, nor
\* on one from before useRelay.  syncPeers moves peers to the relay on the
\* strength of relayUp.
UpOnEvidence ==
    \A p \in Peers : status[p] = "up" => held[p] \in confirmed /\ issued[held[p]] = p

\* The node believes in the relay, and the relay finds it where it is.
Connected(p) ==
    /\ status[p] = "up"
    /\ held[p] \in byToken \cap recent
    /\ addr[held[p]] = home[p]

\* After the last thing that goes wrong, a control plane restart included, every
\* node gets itself registered again where its datagrams come from, knows it,
\* and stays so: the doc comment of refreshRelay.
RelayRecovers == <>[](\A p \in Peers : Connected(p))
===============================================================================

------------------------------ MODULE NATEndpoint ------------------------------
(***************************************************************************)
(* How a node without direct connectivity learns its NAT mapping from the  *)
(* prober and has the control plane record it for its peers: one node's    *)
(* refreshNATEndpoint and discoverMapping (cmd/meshd), the prober's        *)
(* answerBinding, and updateNATEndpoint (internal/api/peers.go).           *)
(*                                                                         *)
(* In the node two threads share the bind: maintain's loop, which asks and *)
(* waits, and the receive loop, which hands answers over and must not      *)
(* block, for every WireGuard packet comes through it.                     *)
(***************************************************************************)
EXTENDS Naturals

CONSTANTS
    Addrs, NoAddr,      \* NAT mappings, ip:port
    IPOf,               \* the ip of each
    Nonces, NoNonce,
    MaxChanges,         \* a bound, not code: changes of the mapping
    MaxFaults           \* a bound, not code: calls that get no answer in time

ASSUME NATAssumption ==
    /\ NoAddr \notin Addrs /\ NoNonce \notin Nonces
    /\ MaxChanges \in Nat /\ MaxFaults \in Nat

VARIABLES
    mapping,            \* the NAT's mapping of the node's socket
    stored,             \* peers.nat_ip and nat_port
    natEndpoint,        \* d.natEndpoint
    pc,                 \* of maintain: "idle", "asking", "mapped", "reporting"
    nonce, mapped,      \* of the call of discoverMapping
    bindings,           \* nonces in b.bindings
    box,                \* the value in the channel, of capacity 1, of each nonce
    handing,            \* what the receive loop is putting in a channel: [nonce, addr]s
    wire,               \* datagrams on their way
    since,              \* history: the mappings there were since nonce was made
    changes, faults

nodeVars == <<natEndpoint, pc, nonce, mapped, bindings, box, handing>>
vars == <<mapping, stored, nodeVars, wire, since, changes, faults>>

Request(n, a) == [kind |-> "request", nonce |-> n, src |-> a]
Response(n, a) == [kind |-> "response", nonce |-> n, src |-> a]

Init ==
    /\ mapping \in Addrs
    /\ stored = NoAddr
    /\ natEndpoint = NoAddr
    /\ pc = "idle"
    /\ nonce = NoNonce
    /\ mapped = NoAddr
    /\ bindings = {}
    /\ box = [n \in Nonces |-> NoAddr]
    /\ handing = {}
    /\ wire = {}
    /\ since = {}
    /\ changes = 0
    /\ faults = 0
-------------------------------------------------------------------------------
(* maintain: refreshNATEndpoint, of a node without direct connectivity.      *)

\* Nonces are random.  One comes back only when nothing remembers it: a bound
\* on their number, not code.
Unused(n) ==
    /\ n \notin bindings
    /\ \A m \in wire : m.nonce # n
    /\ \A h \in handing : h.nonce # n

\* The map entry and the channel, of capacity 1, are made for the call.
Discover(n) ==
    /\ pc = "idle" /\ Unused(n)
    /\ pc' = "asking"
    /\ nonce' = n
    /\ bindings' = bindings \cup {n}
    /\ box' = [box EXCEPT ![n] = NoAddr]
    /\ since' = {mapping}
    /\ UNCHANGED <<mapping, stored, natEndpoint, mapped, handing, wire, changes, faults>>

\* Sent again every bindingRetryInterval, with the same nonce.
SendRequest ==
    /\ pc = "asking"
    /\ wire' = wire \cup {Request(nonce, mapping)}
    /\ UNCHANGED <<mapping, stored, nodeVars, since, changes, faults>>

TakeMapping ==
    /\ pc = "asking" /\ box[nonce] # NoAddr
    /\ mapped' = box[nonce]
    /\ box' = [box EXCEPT ![nonce] = NoAddr]
    /\ bindings' = bindings \ {nonce}
    /\ pc' = "mapped"
    /\ UNCHANGED <<mapping, stored, natEndpoint, nonce, handing, wire, since, changes, faults>>

\* bindingBudget is over, or a send failed.
GiveUp ==
    /\ pc = "asking" /\ faults < MaxFaults
    /\ faults' = faults + 1
    /\ bindings' = bindings \ {nonce}
    /\ pc' = "idle"
    /\ UNCHANGED <<mapping, stored, natEndpoint, nonce, mapped, box, handing, wire, since, changes>>

Unchanged ==
    /\ pc = "mapped" /\ mapped = natEndpoint
    /\ pc' = "idle"
    /\ UNCHANGED <<mapping, stored, natEndpoint, nonce, mapped, bindings, box, handing, wire, since, changes, faults>>

\* updateNATEndpoint stores the endpoint unless its address is not the one the
\* request comes from.
Report ==
    /\ pc = "mapped" /\ mapped # natEndpoint
    /\ \/ IPOf[mapped] = IPOf[mapping] /\ stored' = mapped /\ pc' = "reporting"
       \/ IPOf[mapped] # IPOf[mapping] /\ stored' = stored /\ pc' = "idle"
    /\ UNCHANGED <<mapping, natEndpoint, nonce, mapped, bindings, box, handing, wire, since, changes, faults>>

\* A bug: the node forgets to remember what it reported.
BugReported ==
    /\ pc = "reporting"
    /\ pc' = "idle"
    /\ UNCHANGED <<mapping, stored, natEndpoint, nonce, mapped, bindings, box, handing, wire, since, changes, faults>>

Reported ==
    /\ pc = "reporting"
    /\ natEndpoint' = mapped
    /\ pc' = "idle"
    /\ UNCHANGED <<mapping, stored, nonce, mapped, bindings, box, handing, wire, since, changes, faults>>

\* The request does not reach the control plane, or its answer not the node:
\* the node keeps what it had.
ReportFails ==
    /\ faults < MaxFaults
    /\ \/ pc = "mapped" /\ mapped # natEndpoint
       \/ pc = "reporting"
    /\ faults' = faults + 1
    /\ pc' = "idle"
    /\ UNCHANGED <<mapping, stored, natEndpoint, nonce, mapped, bindings, box, handing, wire, since, changes>>
-------------------------------------------------------------------------------
(* The receive loop: deliverBinding, before and after b.mu is released. *)

\* A bug: any response is taken for the one that is awaited.
BugAnyNonce(n, a) ==
    /\ handing = {}
    /\ \E m \in wire : m.kind = "response" /\ m.src = a
    /\ n \in bindings
    /\ bindings' = bindings \ {n}
    /\ handing' = {[nonce |-> n, addr |-> a]}
    /\ UNCHANGED <<mapping, stored, natEndpoint, pc, nonce, mapped, box, wire, since, changes, faults>>

\* A bug: the nonce stays for discoverMapping to remove.
BugKeepsNonce(n, a) ==
    /\ handing = {}
    /\ Response(n, a) \in wire
    /\ wire' = wire \ {Response(n, a)}
    /\ n \in bindings
    /\ handing' = {[nonce |-> n, addr |-> a]}
    /\ UNCHANGED <<mapping, stored, natEndpoint, pc, nonce, mapped, bindings, box, since, changes, faults>>

Deliver(n, a) ==
    /\ handing = {}
    /\ Response(n, a) \in wire
    /\ wire' = wire \ {Response(n, a)}
    /\ n \in bindings
    /\ bindings' = bindings \ {n}
    /\ handing' = {[nonce |-> n, addr |-> a]}
    /\ UNCHANGED <<mapping, stored, natEndpoint, pc, nonce, mapped, box, since, changes, faults>>

Put ==
    /\ \E h \in handing : box[h.nonce] = NoAddr /\ box' = [box EXCEPT ![h.nonce] = h.addr]
    /\ handing' = {}
    /\ UNCHANGED <<mapping, stored, natEndpoint, pc, nonce, mapped, bindings, wire, since, changes, faults>>
-------------------------------------------------------------------------------
(* The prober, the network and the NAT. *)

AnswerBinding(n, a) ==
    /\ Request(n, a) \in wire
    /\ wire' = (wire \ {Request(n, a)}) \cup {Response(n, a)}
    /\ UNCHANGED <<mapping, stored, nodeVars, since, changes, faults>>

\* Datagrams are reordered and lost.  That a request is sent again is what
\* makes answers come more than once.
Vanish(m) ==
    /\ m \in wire
    /\ wire' = wire \ {m}
    /\ UNCHANGED <<mapping, stored, nodeVars, since, changes, faults>>

\* Answers still on their way to the old mapping may arrive.
NewMapping(a) ==
    /\ a # mapping /\ changes < MaxChanges
    /\ mapping' = a
    /\ since' = since \cup {a}
    /\ changes' = changes + 1
    /\ UNCHANGED <<stored, nodeVars, wire, faults>>
-------------------------------------------------------------------------------
Maintain ==
    \/ \E n \in Nonces : Discover(n)
    \/ TakeMapping \/ Unchanged \/ Report \/ Reported

Next ==
    \/ Maintain \/ SendRequest \/ GiveUp \/ ReportFails
    \/ \E n \in Nonces, a \in Addrs : Deliver(n, a) \/ AnswerBinding(n, a)
    \/ Put
    \/ \E m \in wire : Vanish(m)
    \/ \E a \in Addrs : NewMapping(a)

\* Both threads run, a datagram that answers nothing disappears, and requests
\* sent until one is answered are in the end answered: a call for which the
\* budget was too short is a fault.
Fairness ==
    /\ WF_vars(Maintain) /\ WF_vars(SendRequest) /\ WF_vars(Put)
    /\ SF_vars(\E a \in Addrs : AnswerBinding(nonce, a))
    /\ SF_vars(\E a \in Addrs : Deliver(nonce, a))
    /\ WF_vars(\E m \in wire : (pc # "asking" \/ m.nonce # nonce) /\ Vanish(m))

Spec == Init /\ [][Next]_vars /\ Fairness
-------------------------------------------------------------------------------
(* The types; a mapping in use is an address. *)
TypeOK ==
    /\ mapping \in Addrs
    /\ {stored, natEndpoint, mapped} \subseteq Addrs \cup {NoAddr}
    /\ pc \in {"idle", "asking", "mapped", "reporting"}
    /\ pc \in {"mapped", "reporting"} => mapped \in Addrs
    /\ nonce \in Nonces \cup {NoNonce}
    /\ pc # "idle" => nonce \in Nonces
    /\ bindings \subseteq Nonces
    /\ box \in [Nonces -> Addrs \cup {NoAddr}]
    /\ handing \subseteq [nonce : Nonces, addr : Addrs]
    /\ wire \subseteq [kind : {"request", "response"}, nonce : Nonces, src : Addrs]
    /\ since \subseteq Addrs
    /\ changes \in 0..MaxChanges /\ faults \in 0..MaxFaults

(* The receive loop never waits for a channel: discoverMapping may have given *)
(* up, and would never empty it, and every WireGuard packet is behind it      *)
(* (deliverBinding, "so the channel gets exactly one value").                 *)
ReceiverNeverBlocks == \A h \in handing : box[h.nonce] = NoAddr

(* What discoverMapping returns has been the mapping since the call began,    *)
(* however late, often or out of order answers to earlier calls arrive.       *)
MappingFresh == pc = "mapped" => mapped \in since

(* A mapping that stays is in the end the node's natEndpoint and, unless a    *)
(* call of the node failed, the one the control plane gives to its peers.     *)
Settles == <>[](natEndpoint = mapping /\ (faults = 0 => stored = mapping))

(* refreshNATEndpoint "learns our NAT mapping from the prober and reports it  *)
(* when it changed": a mapping that stays is in the end the recorded one.     *)
Recorded == <>[](stored = mapping)
===============================================================================

----------------------------- MODULE EndpointProbe -----------------------------
(***************************************************************************)
(* How the control plane finds out whether a node can be sent to directly: *)
(* reportEndpoint (cmd/meshd), updateEndpoint (internal/api/peers.go), the *)
(* prober's Reachable and readLoop (internal/prober), and SetPeerEndpoint. *)
(*                                                                         *)
(* One node's reports: it makes one at a time, but one whose answer it no  *)
(* longer waits for may still be under way in the control plane, where     *)
(* each is a handler of its own and all share one read loop.               *)
(***************************************************************************)
EXTENDS Naturals

CONSTANTS
    Calls,              \* POST /endpoint requests, each with the nonce of its probe
    NoCall,
    Endpoints, NoEndpoint,
    Elsewhere,          \* an address that is nobody's endpoint
    MaxFaults           \* a bound, not code

ASSUME ProbeAssumption ==
    /\ NoCall \notin Calls
    /\ NoEndpoint \notin Endpoints /\ Elsewhere \notin Endpoints \cup {NoEndpoint}
    /\ MaxFaults \in Nat

VARIABLES
    at,                 \* the address the node's requests come from, with its udp_port
    path,               \* path[e]: what becomes of a datagram sent to e
    heldOpen,           \* the NAT lets the prober in, as the node sends to it
    record,             \* public_ip and udp_port, direct_reachable
    started,            \* the node has made its first report
    awaited, direct,    \* the call it waits for, and d.direct
    pc, target,         \* of each call
    verdict,            \* what Reachable returned, then what the answer says
    waiters,            \* calls in p.waiters
    replied,            \* calls whose channel is closed
    closing,            \* what readLoop is about to close, after p.mu is released
    wire,
    earned,             \* history: calls whose target, since they began, has at some
                        \* time let the prober in and answered from there
    faults

callVars == <<pc, target, verdict>>
proberVars == <<waiters, replied, closing>>
vars == <<at, path, heldOpen, record, started, awaited, direct, callVars, proberVars, wire, earned, faults>>

\* Open to anyone, to those the node has sent to, to nobody; or the node gets
\* what is sent there, but its answers leave from another address.
Paths == {"open", "filtered", "closed", "skewed"}

Probe(c) == [kind |-> "probe", nonce |-> c, src |-> Elsewhere]
Reply(c, a) == [kind |-> "reply", nonce |-> c, src |-> a]

AnswersWhen(e, a, p, held) == e = a /\ (p[e] = "open" \/ (p[e] = "filtered" /\ held))
Answers(e) == AnswersWhen(e, at, path, heldOpen)

\* What a step that changes the network adds to the history.
NowAnswering(a, p, held) ==
    {c \in Calls : pc[c] = "probing" /\ AnswersWhen(target[c], a, p, held)}

Init ==
    /\ at \in Endpoints
    /\ path \in [Endpoints -> Paths]
    /\ heldOpen = FALSE
    /\ record = [endpoint |-> NoEndpoint, reachable |-> FALSE]
    /\ started = FALSE
    /\ awaited = NoCall
    /\ direct = FALSE
    /\ pc = [c \in Calls |-> "idle"]
    /\ target = [c \in Calls |-> NoEndpoint]
    /\ verdict = [c \in Calls |-> FALSE]
    /\ waiters = {}
    /\ replied = {}
    /\ closing = {}
    /\ wire = {}
    /\ earned = {}
    /\ faults = 0
-------------------------------------------------------------------------------
(* The node. *)

\* A nonce is random.  One comes back only when nothing remembers it: a bound on
\* their number, not code.
Unused(c) == pc[c] = "idle" /\ c \notin closing /\ \A m \in wire : m.nonce # c

\* reportEndpoint, and updateEndpoint up to the probe: the endpoint is the
\* address the request comes from, with the port it says.
Report(c) ==
    /\ awaited = NoCall /\ Unused(c)
    /\ started' = TRUE
    /\ awaited' = c
    /\ pc' = [pc EXCEPT ![c] = "probing"]
    /\ target' = [target EXCEPT ![c] = at]
    /\ waiters' = waiters \cup {c}
    /\ replied' = replied \ {c}
    /\ earned' = IF Answers(at) THEN earned \cup {c} ELSE earned \ {c}
    /\ UNCHANGED <<at, path, heldOpen, record, direct, verdict, closing, wire, faults>>

TakeAnswer(c) ==
    /\ pc[c] = "answered"
    /\ pc' = [pc EXCEPT ![c] = "idle"]
    /\ IF awaited = c
       THEN awaited' = NoCall /\ direct' = verdict[c]
       ELSE UNCHANGED <<awaited, direct>>
    /\ UNCHANGED <<at, path, heldOpen, record, started, target, verdict, proberVars, wire, earned, faults>>

\* The client's timeout, or a broken connection.
StopWaiting ==
    /\ awaited # NoCall
    /\ awaited' = NoCall
    /\ UNCHANGED <<at, path, heldOpen, record, started, direct, callVars, proberVars, wire, earned>>

\* The node answers a probe (answerProbe).
AnswerProbe(c) ==
    /\ Probe(c) \in wire
    /\ wire' = (wire \ {Probe(c)}) \cup
                 (IF Answers(target[c]) THEN {Reply(c, at)}
                  ELSE IF target[c] = at /\ path[at] = "skewed" THEN {Reply(c, Elsewhere)}
                  ELSE {})
    /\ UNCHANGED <<at, path, heldOpen, record, started, awaited, direct, callVars, proberVars, earned, faults>>

\* Between reports, discoverMapping and registerRelay send to the very socket
\* that probes.
SendToProber ==
    /\ started /\ awaited = NoCall
    /\ heldOpen' = TRUE
    /\ earned' = earned \cup NowAnswering(at, path, TRUE)
    /\ UNCHANGED <<at, path, record, started, awaited, direct, callVars, proberVars, wire, faults>>
-------------------------------------------------------------------------------
(* Reachable. *)

\* The same frame again and again; late ones may arrive after the call.
SendProbe(c) ==
    /\ pc[c] = "probing"
    /\ wire' = wire \cup {Probe(c)}
    /\ UNCHANGED <<at, path, heldOpen, record, started, awaited, direct, callVars, proberVars, earned, faults>>

Conclude(c, reachable) ==
    /\ pc[c] = "probing"
    /\ pc' = [pc EXCEPT ![c] = "probed"]
    /\ verdict' = [verdict EXCEPT ![c] = reachable]
    /\ UNCHANGED <<at, path, heldOpen, record, started, awaited, direct, target, replied, closing, wire, earned>>

HearReply(c) ==
    /\ c \in replied
    /\ Conclude(c, TRUE)
    /\ waiters' = waiters \ {c}
    /\ UNCHANGED faults

\* The budget is over, or the request's context; select may prefer that to a
\* channel that is closed.  That it runs out on a node that can be reached is a
\* fault: every probe or reply was lost or late.
RunOut(c) ==
    /\ Conclude(c, FALSE)
    /\ waiters' = waiters \ {c}
    /\ IF Answers(target[c]) THEN faults < MaxFaults /\ faults' = faults + 1
       ELSE UNCHANGED faults
-------------------------------------------------------------------------------
(* readLoop. *)

\* A bug: the reply's source is not looked at.
BugAnySource(c, src) ==
    /\ closing = {}
    /\ Reply(c, src) \in wire
    /\ wire' = wire \ {Reply(c, src)}
    /\ c \in waiters
    /\ waiters' = waiters \ {c}
    /\ closing' = {c}
    /\ UNCHANGED <<at, path, heldOpen, record, started, awaited, direct, callVars, replied, earned, faults>>

\* A bug: the waiter is left for Reachable to remove.
BugLeavesWaiter(c, src) ==
    /\ closing = {}
    /\ Reply(c, src) \in wire
    /\ wire' = wire \ {Reply(c, src)}
    /\ c \in waiters /\ src = target[c]
    /\ closing' = {c}
    /\ UNCHANGED <<at, path, heldOpen, record, started, awaited, direct, callVars, waiters, replied, earned, faults>>

Match(c, src) ==
    /\ closing = {}
    /\ Reply(c, src) \in wire
    /\ wire' = wire \ {Reply(c, src)}
    /\ c \in waiters /\ src = target[c]
    /\ waiters' = waiters \ {c}
    /\ closing' = {c}
    /\ UNCHANGED <<at, path, heldOpen, record, started, awaited, direct, callVars, replied, earned, faults>>

Close ==
    /\ closing # {}
    /\ replied' = replied \cup closing
    /\ closing' = {}
    /\ UNCHANGED <<at, path, heldOpen, record, started, awaited, direct, callVars, waiters, wire, earned, faults>>
-------------------------------------------------------------------------------
(* SetPeerEndpoint. *)

\* A bug: only good news is saved.
BugUpdate(c) ==
    /\ pc[c] = "probed"
    /\ pc' = [pc EXCEPT ![c] = "saved"]
    /\ record' = IF verdict[c] THEN [endpoint |-> target[c], reachable |-> TRUE] ELSE record
    /\ UNCHANGED <<at, path, heldOpen, started, awaited, direct, target, verdict, proberVars, wire, earned, faults>>

Update(c) ==
    /\ pc[c] = "probed"
    /\ pc' = [pc EXCEPT ![c] = "saved"]
    /\ record' = [endpoint |-> target[c], reachable |-> verdict[c]]
    /\ UNCHANGED <<at, path, heldOpen, started, awaited, direct, target, verdict, proberVars, wire, earned, faults>>

\* GetPeer, a statement of its own: the answer has what the row has by now.
ReadBack(c) ==
    /\ pc[c] = "saved"
    /\ pc' = [pc EXCEPT ![c] = "answered"]
    /\ verdict' = [verdict EXCEPT ![c] = record.reachable]
    /\ UNCHANGED <<at, path, heldOpen, record, started, awaited, direct, target, proberVars, wire, earned, faults>>

\* The request's context ends with its connection: no statement is executed.
Cancel(c) ==
    /\ awaited # c /\ pc[c] \in {"probed", "saved"}
    /\ pc' = [pc EXCEPT ![c] = "idle"]
    /\ UNCHANGED <<at, path, heldOpen, record, started, awaited, direct, target, verdict, proberVars, wire, earned, faults>>
-------------------------------------------------------------------------------
(* The network. *)

Vanish(m) ==
    /\ m \in wire
    /\ wire' = wire \ {m}
    /\ UNCHANGED <<at, path, heldOpen, record, started, awaited, direct, callVars, proberVars, earned, faults>>

\* The node moves, or its NAT or firewall is changed.
Rearrange ==
    /\ \/ \E e \in Endpoints \ {at} : at' = e /\ heldOpen' = FALSE /\ path' = path
       \/ \E k \in Paths \ {path[at]} :
             path' = [path EXCEPT ![at] = k] /\ UNCHANGED <<at, heldOpen>>
       \/ heldOpen /\ heldOpen' = FALSE /\ UNCHANGED <<at, path>>
    /\ earned' = earned \cup NowAnswering(at', path', heldOpen')
    /\ UNCHANGED <<record, started, awaited, direct, callVars, proberVars, wire>>

Fault ==
    /\ faults < MaxFaults
    /\ faults' = faults + 1
    /\ StopWaiting \/ Rearrange
-------------------------------------------------------------------------------
Handle(c) ==
    \/ HearReply(c) \/ RunOut(c)
    \/ Update(c) \/ ReadBack(c) \/ TakeAnswer(c)

Next ==
    \/ \E c \in Calls :
         \/ Report(c) \/ SendProbe(c) \/ AnswerProbe(c) \/ Handle(c) \/ Cancel(c)
         \/ \E src \in Endpoints \cup {Elsewhere} : Match(c, src)
    \/ Close \/ SendToProber
    \/ \E m \in wire : Vanish(m)
    \/ Fault

\* The loops and the handlers run, a report is made every five minutes, a
\* datagram does not travel for ever, and of the probes of a call and their
\* answers one arrives: when none does, RunOut counts a fault.
Fairness ==
    /\ WF_vars(\E c \in Calls : Report(c))
    /\ WF_vars(Close)
    /\ WF_vars(\E m \in wire : m.nonce \notin waiters /\ Vanish(m))
    /\ \A c \in Calls :
         /\ WF_vars(SendProbe(c)) /\ WF_vars(Handle(c))
         /\ SF_vars(c \in waiters /\ AnswerProbe(c))
         /\ SF_vars(\E src \in Endpoints \cup {Elsewhere} : Match(c, src))

Spec == Init /\ [][Next]_vars /\ Fairness
-------------------------------------------------------------------------------
(* The types; p.waiters holds probes in flight and nothing else. *)
TypeOK ==
    /\ at \in Endpoints /\ path \in [Endpoints -> Paths] /\ heldOpen \in BOOLEAN
    /\ record \in [endpoint : Endpoints \cup {NoEndpoint}, reachable : BOOLEAN]
    /\ started \in BOOLEAN /\ awaited \in Calls \cup {NoCall} /\ direct \in BOOLEAN
    /\ pc \in [Calls -> {"idle", "probing", "probed", "saved", "answered"}]
    /\ target \in [Calls -> Endpoints \cup {NoEndpoint}]
    /\ verdict \in [Calls -> BOOLEAN]
    /\ replied \subseteq Calls /\ closing \subseteq Calls /\ earned \subseteq Calls
    /\ wire \subseteq [kind : {"probe", "reply"}, nonce : Calls, src : Endpoints \cup {Elsewhere}]
    /\ faults \in 0..MaxFaults
    /\ waiters \subseteq {c \in Calls : pc[c] = "probing"}

(* readLoop closes no channel twice, which would take the control plane down, *)
(* though replies come more than once and Reachable removes waiters too ("so  *)
(* the close below happens exactly once").                                    *)
ClosedOnce == closing \cap (replied \cup waiters) = {}

(* Reachable says yes only if, since the call began, the endpoint has let a   *)
(* probe in and answered from there: no reply to an earlier probe, or from    *)
(* another address, is taken for one.                                         *)
VerdictEarned == \A c \in Calls : pc[c] = "probed" /\ verdict[c] => c \in earned

(* When things stay as they are the record is of the endpoint the node has,   *)
(* reachable if it is and not if it is not, and the node believes the same:   *)
(* a report that overtook a newer one is put right by the next.               *)
RecordSettles ==
    <>[](/\ record.endpoint = at
         /\ direct = record.reachable
         /\ path[at] = "open" => record.reachable
         /\ path[at] \in {"closed", "skewed"} => ~record.reachable)

(* "True when the last probe was answered: others can send to endpoint        *)
(* directly" (internal/api/peers.go:23-24): as long as nothing changes in the *)
(* network, an endpoint found reachable is open to anyone.                    *)
OthersCanSend ==
    faults = 0 => \A c \in Calls : pc[c] = "probed" /\ verdict[c] => path[target[c]] = "open"
===============================================================================

--------------------------- MODULE NATEndpointProofs ---------------------------
(***************************************************************************)
(* Theorems about NATEndpoint for any number of addresses, nonces, changes *)
(* and faults: the receive loop never blocks, and no call takes an answer  *)
(* to an earlier one.                                                      *)
(***************************************************************************)
EXTENDS NATEndpoint, TLAPS

\* A nonce waits in b.bindings only while its call asks, with its channel empty.
Awaited ==
    \A n \in bindings : pc = "asking" /\ n = nonce /\ box[n] = NoAddr

\* Whoever put a value in a channel, or is about to, removed the nonce before.
HandedOnce ==
    /\ \A h \in handing : h.nonce \notin bindings /\ box[h.nonce] = NoAddr
    /\ \A g, h \in handing : g = h

\* Whatever carries the nonce of the call came into being after the call began.
AnswersFresh ==
    pc = "asking" =>
       /\ nonce \in Nonces /\ mapping \in since
       /\ \A m \in wire : m.nonce = nonce => m.src \in since
       /\ \A h \in handing : h.nonce = nonce => h.addr \in since
       /\ box[nonce] # NoAddr => box[nonce] \in since

Inv == TypeOK /\ Awaited /\ HandedOnce /\ AnswersFresh /\ MappingFresh

LEMMA InitInv == Init => Inv
BY NATAssumption
   DEF Init, Inv, TypeOK, Awaited, HandedOnce, AnswersFresh, MappingFresh

LEMMA StepInv == Inv /\ [Next]_vars => Inv'
<1> SUFFICES ASSUME Inv, [Next]_vars PROVE Inv'
  OBVIOUS
<1> USE NATAssumption DEF Inv, TypeOK, Awaited, HandedOnce, AnswersFresh, MappingFresh
<1>1. ASSUME NEW n \in Nonces, Discover(n) PROVE Inv'
  BY <1>1 DEF Discover, Unused
<1>2. CASE TakeMapping
  BY <1>2 DEF TakeMapping
<1>3. CASE Unchanged
  BY <1>3 DEF Unchanged
<1>4. CASE Report
  BY <1>4 DEF Report
<1>5. CASE Reported
  BY <1>5 DEF Reported
<1>6. CASE SendRequest
  BY <1>6 DEF SendRequest, Request, nodeVars
<1>7. CASE GiveUp
  BY <1>7 DEF GiveUp
<1>8. CASE ReportFails
  BY <1>8 DEF ReportFails
<1>9. ASSUME NEW n \in Nonces, NEW a \in Addrs, Deliver(n, a) PROVE Inv'
  BY <1>9 DEF Deliver, Response
<1>10. ASSUME NEW n \in Nonces, NEW a \in Addrs, AnswerBinding(n, a) PROVE Inv'
  BY <1>10 DEF AnswerBinding, Request, Response, nodeVars
<1>11. CASE Put
  BY <1>11 DEF Put
<1>12. ASSUME NEW m \in wire, Vanish(m) PROVE Inv'
  BY <1>12 DEF Vanish, nodeVars
<1>13. ASSUME NEW a \in Addrs, NewMapping(a) PROVE Inv'
  BY <1>13 DEF NewMapping, nodeVars
<1>14. CASE UNCHANGED vars
  BY <1>14 DEF vars, nodeVars
<1> QED
  BY <1>1, <1>2, <1>3, <1>4, <1>5, <1>6, <1>7, <1>8, <1>9, <1>10, <1>11, <1>12, <1>13, <1>14
     DEF Next, Maintain

LEMMA Invariance == Spec => []Inv
BY InitInv, StepInv, PTL DEF Spec

\* Only addresses are mapped, stored and sent (refreshNATEndpoint).
THEOREM Typing == Spec => []TypeOK
BY Invariance, PTL DEF Inv

\* deliverBinding never waits for a channel, so the receive loop goes on.
THEOREM NeverBlocks == Spec => []ReceiverNeverBlocks
<1>1. Inv => ReceiverNeverBlocks
  BY DEF Inv, HandedOnce, ReceiverNeverBlocks
<1> QED BY <1>1, Invariance, PTL

\* discoverMapping returns a mapping the NAT has had since it was called.
THEOREM Freshness == Spec => []MappingFresh
BY Invariance, PTL DEF Inv
===============================================================================

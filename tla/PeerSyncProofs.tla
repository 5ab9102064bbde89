---------------------------- MODULE PeerSyncProofs ----------------------------
(***************************************************************************)
(* For any number of nodes, addresses and faults: what syncPeers has sent, *)
(* change by change, is what WireGuard has, and no endpoint is given up    *)
(* for the relay before its budget.                                        *)
(***************************************************************************)
EXTENDS PeerSync, TLAPS

\* What is about to be configured moves no endpoint to the relay too early: it
\* was computed from wgPeers as it still is.
WantIsCurrent ==
    \A p \in Pairs : pc[p[1]] = "decided" =>
       /\ want[p].known
       /\ want[p].relayed /\ ~wgPeers[p].relayed /\ want[p].endpoint # NoAddr =>
             want[p].endpoint = wgPeers[p].endpoint /\ wgPeers[p].aged

\* Only a node that has configured its peer sends it anything.
SendersKnow ==
    \A m \in wire : <<m.from, m.to>> \in Pairs /\ wgPeers[<<m.from, m.to>>].known

IInv == TypeOK /\ InStep /\ WantIsCurrent /\ SendersKnow

LEMMA TargetTyped ==
    ASSUME NEW p \in Peer
    PROVE  Target(p) \in Targets
BY DEF Target, Peer, Targets

LEMMA UnknownTyped == Unknown \in Peer /\ ~Unknown.known /\ Target(Unknown) = NoAddr
BY DEF Unknown, Peer, Target

\* Pairs are nodes, and backwards are pairs too.
LEMMA PairFacts ==
    ASSUME NEW p \in Pairs
    PROVE  /\ p[1] \in Nodes /\ p[2] \in Nodes /\ p = <<p[1], p[2]>>
           /\ Back(p) \in Pairs
           /\ Back(p) # p
BY DEF Pairs, Back

LEMMA InitIInv == Init => IInv
<1> SUFFICES ASSUME Init PROVE IInv
  OBVIOUS
<1>1. at \in [Nodes -> Addrs]
  BY DEF Init
<1>2. TypeOK
  BY <1>1, UnknownTyped, PeerSyncAssumption DEF Init, TypeOK, Targets
<1>3. InStep
  BY UnknownTyped DEF Init, InStep
<1>4. WantIsCurrent
  BY PairFacts DEF Init, WantIsCurrent
<1> QED BY <1>2, <1>3, <1>4 DEF IInv, Init, SendersKnow

LEMMA DecideStep ==
    ASSUME IInv, NEW n \in Nodes, Decide(n)
    PROVE  IInv'
<1>1. ASSUME NEW p \in Pairs, p[1] = n
      PROVE  /\ want'[p] \in Peer /\ want'[p].known
             /\ want'[p].relayed /\ ~wgPeers[p].relayed /\ want'[p].endpoint # NoAddr =>
                   want'[p].endpoint = wgPeers[p].endpoint /\ wgPeers[p].aged
  <2>1. want'[p] = Wanted(wgPeers[p], listed[p[2]], n \in relayUp, p \in stale)
    BY <1>1 DEF Decide
  <2>2. wgPeers[p] \in Peer /\ listed[p[2]] \in Addrs \cup {NoAddr}
    BY PairFacts DEF IInv, TypeOK
  <2> QED BY <2>1, <2>2 DEF Wanted, Peer
<1>2. want' \in [Pairs -> Peer]
  <2>1. ASSUME NEW p \in Pairs, p[1] # n PROVE want'[p] = want[p]
    BY <2>1 DEF Decide
  <2>2. \A p \in Pairs : want'[p] \in Peer
    BY <1>1, <2>1 DEF IInv, TypeOK
  <2>3. want' = [p \in Pairs |-> want'[p]]
    BY DEF Decide
  <2> QED BY <2>2, <2>3
<1>3. TypeOK'
  BY <1>2 DEF IInv, TypeOK, Decide, netVars
<1>4. WantIsCurrent'
  <2>1. \A p \in Pairs : p[1] # n => want'[p] = want[p] /\ pc'[p[1]] = pc[p[1]]
    BY PairFacts DEF IInv, TypeOK, Decide
  <2> QED BY <1>1, <2>1 DEF IInv, WantIsCurrent, Decide
<1>5. InStep' /\ SendersKnow'
  BY DEF IInv, InStep, SendersKnow, Decide
<1> QED BY <1>3, <1>4, <1>5 DEF IInv

LEMMA ConfigureStep ==
    ASSUME IInv, NEW n \in Nodes, Configure(n)
    PROVE  IInv'
<1>1. \A p \in Pairs : p[1] = n => want[p] \in Peer /\ want[p].known
  BY DEF IInv, TypeOK, WantIsCurrent, Configure
<1>2. \A p \in Pairs : /\ p[1] = n => wgPeers'[p] = want[p]
                       /\ p[1] # n => wgPeers'[p] = wgPeers[p]
  BY DEF Configure
<1>3. wgPeers' \in [Pairs -> Peer] /\ want' \in [Pairs -> Peer]
  BY UnknownTyped DEF IInv, TypeOK, Configure
<1>4. device' \in [Pairs -> Targets]
  BY <1>1, TargetTyped DEF IInv, TypeOK, Configure
<1>5. \A p \in Pairs : ~wgPeers'[p].known => wgPeers'[p] = Unknown /\ device'[p] = NoAddr
  BY <1>1, <1>2 DEF IInv, TypeOK, Configure
<1>6. TypeOK'
  BY <1>3, <1>4, <1>5 DEF IInv, TypeOK, Configure, netVars
<1>7. InStep'
  BY <1>2 DEF IInv, InStep, TypeOK, Configure
<1>8. WantIsCurrent'
  BY <1>2, PairFacts DEF IInv, TypeOK, WantIsCurrent, Configure
<1>9. SendersKnow'
  BY <1>1, <1>2 DEF IInv, SendersKnow, Configure
<1> QED BY <1>6, <1>7, <1>8, <1>9 DEF IInv

LEMMA AgeStep ==
    ASSUME IInv, NEW p \in Pairs, Age(p)
    PROVE  IInv'
<1>1. wgPeers[p].known
  BY DEF IInv, TypeOK, Age, Unknown
<1>2. /\ wgPeers' \in [Pairs -> Peer]
      /\ \A q \in Pairs : /\ Target(wgPeers'[q]) = Target(wgPeers[q])
                          /\ wgPeers'[q].known = wgPeers[q].known
                          /\ q # p => wgPeers'[q] = wgPeers[q]
  <2>. DEFINE x == [wgPeers[p] EXCEPT !.aged = TRUE]
  <2>1. wgPeers[p] \in Peer /\ wgPeers \in [Pairs -> Peer] /\ wgPeers' = [wgPeers EXCEPT ![p] = x]
    BY DEF IInv, TypeOK, Age
  <2>2. x \in Peer /\ x.known = wgPeers[p].known /\ Target(x) = Target(wgPeers[p])
    BY <2>1 DEF Peer, Target
  <2>. HIDE DEF x
  <2>. QED
    BY <2>1, <2>2
<1>3. TypeOK'
  BY <1>1, <1>2 DEF IInv, TypeOK, Age, netVars
<1>4. WantIsCurrent'
  <2>1. ASSUME NEW q \in Pairs, pc[q[1]] = "decided" PROVE wgPeers'[q] = wgPeers[q]
    BY <1>2, <2>1 DEF Age
  <2>2. want' = want /\ pc' = pc
    BY DEF Age
  <2> QED BY <2>1, <2>2 DEF IInv, WantIsCurrent
<1>5. InStep' /\ SendersKnow'
  BY <1>2 DEF IInv, InStep, SendersKnow, Age
<1> QED BY <1>3, <1>4, <1>5 DEF IInv

LEMMA InitiateStep ==
    ASSUME IInv, NEW p \in Pairs, Initiate(p)
    PROVE  IInv'
<1>1. Initiation(p, device[p]) \in [from : Nodes, to : Nodes, src : Addrs \cup {Relay}]
  BY PairFacts DEF IInv, TypeOK, Initiation, SourceOf
<1>2. TypeOK'
  BY <1>1 DEF IInv, TypeOK, Initiate, syncVars, netVars
<1>3. SendersKnow'
  <2>1. LET m == Initiation(p, device[p]) IN <<m.from, m.to>> = p
    BY PairFacts DEF Initiation
  <2>2. wgPeers' = wgPeers /\ wgPeers[p].known
    BY DEF Initiate, syncVars
  <2>3. \A m \in wire' : m \in wire \/ m = Initiation(p, device[p])
    BY DEF Initiate
  <2> QED BY <2>1, <2>2, <2>3 DEF IInv, SendersKnow
<1> QED BY <1>2, <1>3 DEF IInv, InStep, WantIsCurrent, Initiate, syncVars

LEMMA ReceiveStep ==
    ASSUME IInv, NEW p \in Pairs, NEW src \in Addrs \cup {Relay}, Receive(p, src)
    PROVE  IInv'
<1>1. Back(p) \in Pairs /\ wgPeers[Back(p)].known
  BY PairFacts DEF IInv, SendersKnow, Receive, Back
<1>2. device' \in [Pairs -> Targets] /\ roamed' \subseteq Pairs /\ stale' \subseteq Pairs
  BY <1>1, PairFacts DEF IInv, TypeOK, Receive, Targets, SourceOf
<1>3. \A q \in Pairs : ~wgPeers[q].known => device'[q] = device[q]
  BY <1>1 DEF IInv, TypeOK, Receive
<1>4. TypeOK'
  BY <1>2, <1>3 DEF IInv, TypeOK, Receive, syncVars, netVars
<1>5. InStep'
  BY DEF IInv, InStep, Receive, syncVars
<1> QED BY <1>4, <1>5 DEF IInv, SendersKnow, WantIsCurrent, Receive, syncVars

LEMMA OtherSteps ==
    ASSUME IInv,
           \/ \E n \in Nodes : Publish(n) \/ Register(n) \/ RelayDown(n)
           \/ \E p \in Pairs : Expire(p)
           \/ Fault
           \/ UNCHANGED vars
    PROVE  IInv'
<1>1. InStep' /\ WantIsCurrent' /\ SendersKnow'
  BY DEF IInv, InStep, WantIsCurrent, SendersKnow, Publish, Register, RelayDown, Expire, Fault,
         Unregister, Move, Toggle, vars, syncVars
<1>2. TypeOK'
  <2> USE DEF IInv, TypeOK
  <2>1. ASSUME NEW n \in Nodes, Publish(n) \/ Register(n) \/ RelayDown(n) PROVE TypeOK'
    BY <2>1 DEF Publish, Register, RelayDown, syncVars, netVars
  <2>2. ASSUME NEW p \in Pairs, Expire(p) PROVE TypeOK'
    BY <2>2 DEF Expire, syncVars, netVars
  <2>3. CASE Fault
    <3>1. at' \in [Nodes -> Addrs] /\ open' \in BOOLEAN
      <4>1. ASSUME NEW n \in Nodes, NEW a \in Addrs, Move(n, a) PROVE at' \in [Nodes -> Addrs] /\ open' = open
        BY <4>1 DEF Move
      <4>2. ASSUME Toggle PROVE at' = at /\ open' \in BOOLEAN
        BY <4>2 DEF Toggle
      <4>3. ASSUME NEW n \in Nodes, Unregister(n) PROVE at' = at /\ open' = open
        BY <4>3 DEF Unregister
      <4> QED BY <2>3, <4>1, <4>2, <4>3 DEF Fault
    <3>2. faults' \in 0..MaxFaults
      BY <2>3, PeerSyncAssumption DEF Fault
    <3>3. registered' \subseteq registered
      BY <2>3 DEF Fault, Unregister, Move, Toggle
    <3>4. UNCHANGED <<listed, relayUp, syncVars, device, roamed, stale, wire>>
      BY <2>3 DEF Fault, Unregister, Move, Toggle
    <3> QED BY <3>1, <3>2, <3>3, <3>4 DEF syncVars
  <2>4. CASE UNCHANGED vars
    BY <2>4 DEF vars, syncVars, netVars
  <2> QED BY <2>1, <2>2, <2>3, <2>4
<1> QED BY <1>1, <1>2 DEF IInv

LEMMA StepIInv == IInv /\ [Next]_vars => IInv'
BY DecideStep, ConfigureStep, AgeStep, InitiateStep, ReceiveStep, OtherSteps DEF Next

LEMMA Invariance == Spec => []IInv
BY InitIInv, StepIInv, PTL DEF Spec

(* The types, and that WireGuard knows no peer but those syncPeers added. *)
THEOREM Typing == Spec => []TypeOK
BY Invariance, PTL DEF IInv

(* Sending WireGuard only what changed leaves it with all of it. *)
THEOREM Deltas == Spec => []InStep
BY Invariance, PTL DEF IInv

\* Only Configure moves a peer to the relay.
LEMMA StepPunch ==
    ASSUME IInv, [Next]_vars, NEW p \in Pairs,
           wgPeers'[p].relayed, ~wgPeers[p].relayed, wgPeers'[p].endpoint # NoAddr
    PROVE  wgPeers'[p].endpoint = wgPeers[p].endpoint /\ wgPeers[p].aged
<1>1. ASSUME NEW n \in Nodes, Configure(n)
      PROVE  wgPeers'[p].endpoint = wgPeers[p].endpoint /\ wgPeers[p].aged
  <2>1. p[1] = n /\ wgPeers'[p] = want[p]
    BY <1>1 DEF Configure
  <2> QED BY <1>1, <2>1 DEF Configure, IInv, WantIsCurrent
<1>2. ASSUME NEW q \in Pairs, Age(q) PROVE FALSE
  BY <1>2 DEF Age, IInv, TypeOK, Peer
<1>3. ASSUME wgPeers' = wgPeers PROVE FALSE
  BY <1>3
<1> QED
  BY <1>1, <1>2, <1>3 DEF Next, Decide, Publish, Register, RelayDown, Initiate, Expire, Receive,
     Fault, Unregister, Move, Toggle, vars, syncVars

(* A peer with an endpoint is relayed only after that endpoint had its budget. *)
THEOREM Budget == Spec => PunchFirst
<1>1. IInv /\ [Next]_vars =>
        [\A p \in Pairs :
           wgPeers'[p].relayed /\ ~wgPeers[p].relayed /\ wgPeers'[p].endpoint # NoAddr =>
              wgPeers'[p].endpoint = wgPeers[p].endpoint /\ wgPeers[p].aged]_vars
  BY StepPunch
<1> QED BY <1>1, Invariance, PTL DEF Spec, PunchFirst
===============================================================================

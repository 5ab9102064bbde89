------------------------- MODULE EndpointProbeProofs --------------------------
(***************************************************************************)
(* For any number of reports, endpoints and faults: the read loop closes   *)
(* no channel twice, and no probe succeeds on another probe's reply.       *)
(***************************************************************************)
EXTENDS EndpointProbe, TLAPS

\* A call waits, is about to be told, or has been told.
OneOf == (closing \cup replied) \cap waiters = {} /\ closing \cap replied = {}

\* A call that is probing probes an endpoint, and the history is up to date.
Probing ==
    \A c \in Calls : pc[c] = "probing" =>
        /\ target[c] \in Endpoints
        /\ Answers(target[c]) => c \in earned

\* What can make a call succeed was earned: a reply on its way from the right
\* address, and a channel that is, or is about to be, closed.
Earned ==
    /\ \A m \in wire :
         m.kind = "reply" /\ pc[m.nonce] = "probing" /\ m.src = target[m.nonce]
            => m.nonce \in earned
    /\ \A c \in closing \cup replied : pc[c] = "probing" => c \in earned

IInv == TypeOK /\ OneOf /\ Probing /\ Earned /\ VerdictEarned
-------------------------------------------------------------------------------
LEMMA InitIInv == Init => IInv
<1>. SUFFICES ASSUME Init PROVE IInv
    OBVIOUS
<1>1. TypeOK
  <2>1. verdict \in [Calls -> BOOLEAN] /\ record \in [endpoint : Endpoints \cup {NoEndpoint}, reachable : BOOLEAN]
      BY DEF Init
  <2>2. faults \in 0..MaxFaults
      BY ProbeAssumption DEF Init
  <2>. QED
      BY <2>1, <2>2 DEF Init, TypeOK
<1>2. OneOf /\ Probing /\ Earned /\ VerdictEarned
    BY DEF Init, OneOf, Probing, Earned, VerdictEarned
<1>. QED
    BY <1>1, <1>2 DEF IInv

\* One lemma for each part of Next.
LEMMA ReportStep ==
    ASSUME IInv, NEW c \in Calls, Report(c)
    PROVE  IInv'
<1>. USE ProbeAssumption DEF IInv, Report, Unused
<1>1. TypeOK'
    BY DEF TypeOK, Paths
<1>2. OneOf'
    BY DEF OneOf, TypeOK
<1>3. Probing'
    BY DEF Probing, TypeOK, Answers, AnswersWhen
<1>4. Earned'
    BY DEF Earned, TypeOK
<1>5. VerdictEarned'
    BY DEF VerdictEarned, TypeOK
<1>. QED
    BY <1>1, <1>2, <1>3, <1>4, <1>5

LEMMA AnswerProbeStep ==
    ASSUME IInv, NEW c \in Calls, AnswerProbe(c)
    PROVE  IInv'
<1>. USE ProbeAssumption DEF IInv, AnswerProbe, callVars, proberVars
<1>1. TypeOK'
    BY DEF TypeOK, Paths, Reply
<1>2. OneOf'
    BY DEF OneOf
<1>3. Probing'
    BY DEF Probing, Answers, AnswersWhen
<1>4. Earned'
  <2>1. ASSUME NEW m \in wire', m.kind = "reply", pc[m.nonce] = "probing",
               m.src = target[m.nonce]
        PROVE  m.nonce \in earned
    <3>1. CASE m \in wire
        BY <2>1, <3>1 DEF Earned
    <3>2. CASE m \notin wire
      <4>1. m.nonce = c
          BY <3>2 DEF Reply
      <4>2. target[c] \in Endpoints
          BY <2>1, <4>1 DEF Probing
      <4>3. CASE Answers(target[c])
          BY <2>1, <4>1, <4>3 DEF Probing
      <4>4. CASE ~Answers(target[c])
        <5>1. m.src = Elsewhere
            BY <3>2, <4>4 DEF Reply
        <5>. QED
            BY <2>1, <4>1, <4>2, <5>1
      <4>. QED
          BY <4>3, <4>4
    <3>. QED
        BY <3>1, <3>2
  <2>. QED
      BY <2>1 DEF Earned
<1>5. VerdictEarned'
    BY DEF VerdictEarned
<1>. QED
    BY <1>1, <1>2, <1>3, <1>4, <1>5

LEMMA ReachableStep ==
    ASSUME IInv, NEW c \in Calls,
           SendProbe(c) \/ HearReply(c) \/ RunOut(c)
    PROVE  IInv'
<1>. USE ProbeAssumption DEF IInv, SendProbe, HearReply, RunOut, Conclude, callVars, proberVars
<1>1. TypeOK'
  <2>1. CASE SendProbe(c)
      BY <2>1 DEF TypeOK, Paths, Probe
  <2>2. CASE HearReply(c)
      BY <2>2 DEF TypeOK, Paths
  <2>3. CASE RunOut(c)
      BY <2>3 DEF TypeOK, Paths
  <2>. QED
      BY <2>1, <2>2, <2>3
<1>2. OneOf'
    BY DEF OneOf
<1>3. Probing'
    BY DEF Probing, TypeOK, Answers, AnswersWhen
<1>4. Earned'
    BY DEF Earned, TypeOK, Probe
<1>5. VerdictEarned'
    BY DEF VerdictEarned, TypeOK, Earned
<1>. QED
    BY <1>1, <1>2, <1>3, <1>4, <1>5

LEMMA ReadLoopStep ==
    ASSUME IInv, Close \/ \E c \in Calls, src \in Endpoints \cup {Elsewhere} : Match(c, src)
    PROVE  IInv'
<1>. USE ProbeAssumption DEF IInv, Close, Match, callVars
<1>1. TypeOK'
    BY DEF TypeOK, Paths
<1>2. OneOf'
    BY DEF OneOf
<1>3. Probing'
    BY DEF Probing, Answers, AnswersWhen
<1>4. Earned'
  <2>1. CASE Close
      BY <2>1 DEF Earned
  <2>2. ASSUME NEW c \in Calls, NEW src \in Endpoints \cup {Elsewhere}, Match(c, src)
        PROVE  Earned'
    <3>1. pc[c] = "probing" => c \in earned
        BY <2>2 DEF Earned, Reply
    <3>. QED
        BY <2>2, <3>1 DEF Earned
  <2>. QED
      BY <2>1, <2>2
<1>5. VerdictEarned'
    BY DEF VerdictEarned
<1>. QED
    BY <1>1, <1>2, <1>3, <1>4, <1>5

LEMMA HandlerStep ==
    ASSUME IInv, NEW c \in Calls,
           TakeAnswer(c) \/ Update(c) \/ ReadBack(c) \/ Cancel(c)
    PROVE  IInv'
<1>. USE DEF IInv, TakeAnswer, Update, ReadBack, Cancel, proberVars
<1>1. TypeOK'
    BY DEF TypeOK, Paths
<1>2. OneOf'
    BY DEF OneOf
<1>3. Probing'
    BY DEF Probing, TypeOK, Answers, AnswersWhen
<1>4. Earned'
    BY DEF Earned, TypeOK
<1>5. VerdictEarned'
    BY DEF VerdictEarned, TypeOK
<1>. QED
    BY <1>1, <1>2, <1>3, <1>4, <1>5

LEMMA NetworkStep ==
    ASSUME IInv, SendToProber \/ (\E m \in wire : Vanish(m)) \/ Fault
    PROVE  IInv'
<1>. USE ProbeAssumption DEF IInv, SendToProber, Vanish, Fault, StopWaiting, Rearrange, callVars, proberVars
<1>1. TypeOK'
  <2>1. CASE SendToProber \/ \E m \in wire : Vanish(m)
      BY <2>1 DEF TypeOK, Paths, NowAnswering
  <2>2. CASE Fault /\ StopWaiting
      BY <2>2 DEF TypeOK, Paths
  <2>3. CASE Fault /\ Rearrange
    <3>1. at' \in Endpoints /\ path' \in [Endpoints -> Paths] /\ heldOpen' \in BOOLEAN
      <4>. DEFINE Placed == at' \in Endpoints /\ path' \in [Endpoints -> Paths] /\ heldOpen' \in BOOLEAN
      <4>1. ASSUME NEW e \in Endpoints \ {at}, at' = e /\ heldOpen' = FALSE /\ path' = path
            PROVE  Placed
          BY <4>1 DEF TypeOK
      <4>2. ASSUME NEW k \in Paths \ {path[at]},
                   path' = [path EXCEPT ![at] = k] /\ UNCHANGED <<at, heldOpen>>
            PROVE  Placed
          BY <4>2 DEF TypeOK
      <4>3. CASE heldOpen /\ heldOpen' = FALSE /\ UNCHANGED <<at, path>>
          BY <4>3 DEF TypeOK
      <4>. QED
          BY <2>3, <4>1, <4>2, <4>3
    <3>2. earned' \subseteq Calls
        BY <2>3 DEF TypeOK, NowAnswering
    <3>3. faults' \in 0..MaxFaults
        BY <2>3 DEF TypeOK
    <3>. QED
        BY <2>3, <3>1, <3>2, <3>3 DEF TypeOK
  <2>. QED
      BY <2>1, <2>2, <2>3
<1>2. OneOf'
    BY DEF OneOf
<1>3. Probing'
    BY DEF Probing, TypeOK, Answers, AnswersWhen, NowAnswering
<1>4. Earned'
    BY DEF Earned
<1>5. VerdictEarned'
    BY DEF VerdictEarned
<1>. QED
    BY <1>1, <1>2, <1>3, <1>4, <1>5

LEMMA StutterStep ==
    ASSUME IInv, UNCHANGED vars
    PROVE  IInv'
BY DEF IInv, vars, callVars, proberVars, TypeOK, Paths, OneOf, Probing, Answers, AnswersWhen,
       Earned, VerdictEarned

LEMMA Invariance == Spec => []IInv
<1>1. IInv /\ [Next]_vars => IInv'
  <2>. SUFFICES ASSUME IInv, [Next]_vars PROVE IInv'
      OBVIOUS
  <2>1. CASE Next
      BY <2>1, ReportStep, AnswerProbeStep, ReachableStep, ReadLoopStep, HandlerStep, NetworkStep
         DEF Next, Handle
  <2>2. CASE UNCHANGED vars
      BY <2>2, StutterStep
  <2>. QED
      BY <2>1, <2>2
<1>. QED
    BY InitIInv, <1>1, PTL DEF Spec
-------------------------------------------------------------------------------
\* The state is well typed, and p.waiters holds probes in flight only.
THEOREM Typing == Spec => []TypeOK
BY Invariance, PTL DEF IInv

\* readLoop closes no channel twice, however often a reply comes and whenever
\* the budget of the probe ends.
THEOREM ClosesOnce == Spec => []ClosedOnce
<1>1. IInv => ClosedOnce
    BY DEF IInv, OneOf, ClosedOnce
<1>. QED
    BY <1>1, Invariance, PTL

\* Reachable says yes only of an endpoint that answered since the call began.
THEOREM Verdicts == Spec => []VerdictEarned
BY Invariance, PTL DEF IInv
===============================================================================

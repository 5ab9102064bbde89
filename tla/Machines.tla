------------------------------- MODULE Machines -------------------------------
(***************************************************************************)
(* The machines page (routes/admin/machines.tsx): what it tells of each    *)
(* node from the time of its last report (lib/peer.ts).  meshd reports     *)
(* every 5 minutes (cmd/meshd/run.go, module EndpointProbe has what a      *)
(* report does); the page asks for the nodes every 15 seconds while it is  *)
(* looked at, and renders them again only when the answer is another.      *)
(*                                                                         *)
(* Time is counted in ticks: within one, what is due is done, in any order *)
(* with the rest, and a request takes no longer.  Instead of when something *)
(* was, a state has its age, which ends counting at Old.                   *)
(***************************************************************************)
EXTENDS Naturals

CONSTANTS
    Nodes,
    Minute,             \* the ticks of a minute
    Skew,               \* how far the browser's clock is ahead of the server's
    MaxEvents            \* a bound, not code: starts and stops of meshd, reports that
                        \* are lost, polls that fail, times the window is hidden
                        \* or looked at again

ASSUME MachinesAssumption == Minute \in Nat \ {0} /\ Skew \in Nat /\ MaxEvents \in Nat

VARIABLES
    running, reported,  \* meshd of a node, and its d.reported
    phase,              \* ticks since endpointTick
    tried,              \* whether it has reported, or failed to, in this tick
    lost,               \* history: how many reports were lost since one was not
    age,                \* the age of endpoint_updated_at, or Never before the first
                        \* report
    data,               \* peersQuery's data: age as it was then, plus the time since
    shown,              \* what the page says of a node
    blank,              \* whether it shows its skeleton or an error instead
    visible,            \* whether it is looked at
    polled,             \* whether it has asked since the last tick
    known,              \* history: the nodes it has heard of since they were started,
                        \* since they last lost two reports, and since it is looked at
    events

meshd == <<running, reported, phase, tried, lost>>
machinesPage == <<shown, blank, visible, polled, known>>
machinesVars == <<meshd, age, data, machinesPage, events>>

endpointRefreshInterval == 5 * Minute

\* A bug: one missed report will do.
BugOfflineAfter == 9 * Minute

offlineAfter == 11 * Minute

Old == offlineAfter + 1
Never == Old + 1
Presence == {"never", "connected", "offline"}
Older(a) == IF a < Old THEN a + 1 ELSE a

\* presence, of a node that was last heard of a ticks ago.
presence(a) ==
    IF a = Never THEN "never" ELSE IF a + Skew > offlineAfter THEN "offline" ELSE "connected"

Nothing == [n \in Nodes |-> "never"]

MachinesInit ==
    /\ running = [n \in Nodes |-> FALSE]
    /\ reported = running /\ tried = running
    /\ phase = [n \in Nodes |-> 0] /\ lost = phase
    /\ age = [n \in Nodes |-> Never] /\ data = age
    /\ shown = Nothing
    /\ blank = TRUE /\ visible = TRUE /\ polled = FALSE /\ known = {} /\ events = 0
-------------------------------------------------------------------------------
(* The nodes. *)

\* meshd run, or the end of it.
Turn(n, on) ==
    /\ running[n] # on /\ events < MaxEvents
    /\ running' = [running EXCEPT ![n] = on]
    /\ reported' = [reported EXCEPT ![n] = FALSE]
    /\ tried' = [tried EXCEPT ![n] = FALSE]
    /\ phase' = [phase EXCEPT ![n] = 0]
    /\ lost' = [lost EXCEPT ![n] = 0]
    /\ known' = known \ {n}
    /\ events' = events + 1
    /\ UNCHANGED <<age, data, shown, blank, visible, polled>>

\* A report is due at endpointTick, and with peerTick until one is answered.
Due(n) == running[n] /\ ~tried[n] /\ (phase[n] = 0 \/ ~reported[n])

\* reportEndpoint: it gets through, or does without its answer, or is lost.
Report(n) ==
    /\ Due(n)
    /\ tried' = [tried EXCEPT ![n] = TRUE]
    /\ \/ /\ age' = [age EXCEPT ![n] = 0]
          /\ lost' = [lost EXCEPT ![n] = 0]
          /\ \E answered \in BOOLEAN : reported' = [reported EXCEPT ![n] = @ \/ answered]
          /\ UNCHANGED <<known, events>>
       \/ /\ events < MaxEvents /\ events' = events + 1
          /\ lost' = [lost EXCEPT ![n] = IF @ < 2 THEN @ + 1 ELSE 2]
          /\ known' = IF lost[n] > 0 THEN known \ {n} ELSE known
          /\ UNCHANGED <<age, reported>>
    /\ UNCHANGED <<running, phase, data, shown, blank, visible, polled>>
-------------------------------------------------------------------------------
(* The page. *)

\* A bug: only the rows of the nodes that have changed are rendered.
BugPoll ==
    /\ visible /\ ~polled
    /\ polled' = TRUE /\ blank' = FALSE /\ known' = {n \in Nodes : reported[n] /\ lost[n] < 2}
    /\ data' = age
    /\ shown' = [n \in Nodes |-> IF blank \/ age[n] # data[n] THEN presence(age[n]) ELSE shown[n]]
    /\ UNCHANGED <<meshd, age, visible, events>>

\* A poll is answered.  Data that is the same renders nothing.
Poll ==
    /\ visible /\ ~polled
    /\ polled' = TRUE /\ blank' = FALSE /\ known' = {n \in Nodes : reported[n] /\ lost[n] < 2}
    /\ data' = age
    /\ shown' = IF blank \/ age # data THEN [n \in Nodes |-> presence(age[n])] ELSE shown
    /\ UNCHANGED <<meshd, age, visible, events>>

\* The error hides what is known, which is not shown again.
PollFails ==
    /\ visible /\ ~polled
    /\ events < MaxEvents /\ events' = events + 1
    /\ polled' = TRUE /\ blank' = TRUE /\ known' = {}
    /\ data' = [n \in Nodes |-> Never] /\ shown' = Nothing
    /\ UNCHANGED <<meshd, age, visible>>

\* The user types into the filter, or opens a dialog: everything is rendered.
Rerender ==
    /\ visible /\ ~blank
    /\ shown' = [n \in Nodes |-> presence(data[n])]
    /\ UNCHANGED <<meshd, age, data, blank, visible, polled, known, events>>

\* The window is hidden, and not polled, or looked at again, and polled at once.
Look ==
    /\ events < MaxEvents /\ events' = events + 1
    /\ visible' = ~visible
    /\ polled' = FALSE /\ known' = {}
    /\ UNCHANGED <<meshd, age, data, shown, blank>>
-------------------------------------------------------------------------------
Tick ==
    /\ \A n \in Nodes : ~Due(n)
    /\ visible => polled
    /\ phase' = [n \in Nodes |-> IF running[n] THEN (phase[n] + 1) % endpointRefreshInterval ELSE 0]
    /\ tried' = [n \in Nodes |-> FALSE]
    /\ age' = [n \in Nodes |-> Older(age[n])]
    /\ data' = [n \in Nodes |-> Older(data[n])]
    /\ polled' = FALSE
    /\ UNCHANGED <<running, reported, lost, shown, blank, visible, known, events>>

MachinesNext ==
    \/ Poll \/ PollFails \/ Rerender \/ Look \/ Tick
    \/ \E n \in Nodes : Report(n) \/ \E on \in BOOLEAN : Turn(n, on)

\* Time passes, and what is due in it is done.
MachinesFairness ==
    /\ WF_machinesVars(Tick) /\ WF_machinesVars(Poll \/ PollFails)
    /\ \A n \in Nodes : WF_machinesVars(Report(n))

MachinesSpec == MachinesInit /\ [][MachinesNext]_machinesVars /\ MachinesFairness
-------------------------------------------------------------------------------
\* The types of everything.
MachinesTypeOK ==
    /\ {running, reported, tried} \subseteq [Nodes -> BOOLEAN]
    /\ phase \in [Nodes -> 0..(endpointRefreshInterval - 1)]
    /\ lost \in [Nodes -> 0..2]
    /\ {age, data} \subseteq [Nodes -> 0..Never]
    /\ shown \in [Nodes -> Presence]
    /\ {blank, visible, polled} \subseteq BOOLEAN /\ known \subseteq Nodes
    /\ events \in 0..MaxEvents

\* A node that runs is not called offline when one report is lost: "two missed
\* reports means it has most likely stopped" (peer.ts:3).  A page may say so only
\* until its first answer after meshd was started, or after it was not looked at.
RunningStaysConnected == \A n \in known : shown[n] # "offline"

\* A node that has stopped is called offline after a while, if the reports of another
\* one get through: the page renders nothing by itself when the time is over.
StoppedGoesOffline == \A n, m \in Nodes :
    /\ ~running[n] /\ age[n] # Never
    /\ running[m] /\ visible
    ~> \/ shown[n] = "offline" \/ running[n]
       \/ ~running[m] \/ lost[m] > 0 \/ ~visible \/ blank
===============================================================================

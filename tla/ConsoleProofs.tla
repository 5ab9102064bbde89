----------------------------- MODULE ConsoleProofs -----------------------------
(***************************************************************************)
(* Theorems about two parts of the console, for any number of nodes and of *)
(* tenants: what the machines page says of a node that runs (Machines),    *)
(* and which tenant the pages show (CurrentTenant).                        *)
(***************************************************************************)
EXTENDS Machines, CurrentTenant, WellFoundedInduction, NaturalsInduction, TLAPS

Interval == endpointRefreshInterval

\* How long ago a node that runs has reported, if one report at most was lost.
Reports(n) ==
    reported[n] =>
        /\ running[n]
        /\ lost[n] = 0 /\ phase[n] = 0 /\ ~tried[n] => age[n] <= Interval
        /\ lost[n] = 0 /\ ~(phase[n] = 0 /\ ~tried[n]) => age[n] <= phase[n]
        /\ lost[n] = 1 /\ phase[n] = 0 /\ ~tried[n] => age[n] <= 2 * Interval
        /\ lost[n] = 1 /\ ~(phase[n] = 0 /\ ~tried[n]) => age[n] <= Interval + phase[n]

\* What the page knows of a node it has heard of is as old as that, or by one tick
\* older until it asks again.
Fresh(n) ==
    n \in known =>
        /\ visible /\ ~blank /\ reported[n] /\ lost[n] < 2
        /\ data[n] <= IF polled THEN 2 * Interval ELSE 2 * Interval + 1

\* A node that is called offline was so when the page was rendered, and is since.
Rendered(n) ==
    shown[n] = "offline" =>
        ~blank /\ data[n] # Never /\ data[n] + Skew > offlineAfter

MachinesInv ==
    /\ MachinesTypeOK
    /\ \A n \in Nodes : Reports(n) /\ Fresh(n) /\ Rendered(n)

\* The turn of endpointTick.
LEMMA NextPhase ==
    ASSUME NEW x \in 0..(Interval - 1)
    PROVE  (x + 1) % Interval = IF x + 1 = Interval THEN 0 ELSE x + 1
<1>1. Interval \in Nat /\ Interval > 0
    BY MachinesAssumption DEF Interval, endpointRefreshInterval
<1>2. \A i \in Nat \ {0} : i % i = 0 /\ \A y \in 0..(i - 1) : y % i = y
    OBVIOUS
<1>. QED
    BY <1>1, <1>2

LEMMA Limits ==
    /\ Minute \in Nat /\ Minute > 0 /\ Skew \in Nat
    /\ Interval = 5 * Minute /\ offlineAfter = 11 * Minute
    /\ Old = 11 * Minute + 1 /\ Never = 11 * Minute + 2
BY MachinesAssumption DEF Interval, endpointRefreshInterval, offlineAfter, Old, Never

LEMMA TypedTick ==
    ASSUME MachinesTypeOK, [MachinesNext]_machinesVars
    PROVE  MachinesTypeOK'
<1>. USE MachinesAssumption, Limits DEF MachinesTypeOK, Presence
<1>0. \A a \in 0..Never : Older(a) \in 0..Never /\ presence(a) \in Presence
    BY DEF Older, presence
<1>1. CASE Poll
    BY <1>0, <1>1 DEF Poll, meshd
<1>2. CASE PollFails
    BY <1>2 DEF PollFails, meshd, Nothing
<1>3. CASE Rerender
  <2>1. shown' \in [Nodes -> Presence]
      BY <1>0, <1>3 DEF Rerender
  <2>. QED
      BY <1>3, <2>1 DEF Rerender, meshd
<1>4. CASE Look
  <2>1. visible' \in BOOLEAN
      BY <1>4, Zenon DEF Look
  <2>2. polled' \in BOOLEAN /\ known' \subseteq Nodes
      BY <1>4 DEF Look
  <2>3. events' \in 0..MaxEvents
      BY <1>4 DEF Look
  <2>. QED
      BY <1>4, <2>1, <2>2, <2>3 DEF Look, meshd
<1>5. CASE Tick
  <2>1. \A n \in Nodes : (phase[n] + 1) % Interval \in 0..(Interval - 1)
      BY NextPhase DEF Interval
  <2>2. phase' \in [Nodes -> 0..(endpointRefreshInterval - 1)]
      BY <1>5, <2>1 DEF Tick, Interval
  <2>3. tried' \in [Nodes -> BOOLEAN] /\ polled' \in BOOLEAN
      BY <1>5 DEF Tick
  <2>4. age' \in [Nodes -> 0..Never] /\ data' \in [Nodes -> 0..Never]
      BY <1>0, <1>5 DEF Tick
  <2>5. UNCHANGED <<running, reported, lost, shown, blank, visible, known, events>>
      BY <1>5 DEF Tick
  <2>. QED
      BY <2>2, <2>3, <2>4, <2>5
<1>6. ASSUME NEW n \in Nodes, Report(n) PROVE MachinesTypeOK'
    BY <1>6 DEF Report
<1>7. ASSUME NEW n \in Nodes, NEW on \in BOOLEAN, Turn(n, on) PROVE MachinesTypeOK'
    BY <1>7 DEF Turn, endpointRefreshInterval
<1>8. CASE UNCHANGED machinesVars
    BY <1>8 DEF machinesVars, meshd, machinesPage
<1>. QED
    BY <1>1, <1>2, <1>3, <1>4, <1>5, <1>6, <1>7, <1>8 DEF MachinesNext

\* The node's side does not depend on the page.
LEMMA ReportsKeep ==
    ASSUME MachinesInv, [MachinesNext]_machinesVars, NEW n \in Nodes
    PROVE  Reports(n)'
<1>. USE Limits DEF MachinesInv, MachinesTypeOK, Reports
<1>1. CASE UNCHANGED <<meshd, age>>
    BY <1>1 DEF meshd
<1>2. CASE Tick
  <2>1. ~Due(n) /\ age'[n] = Older(age[n]) /\ tried'[n] = FALSE
        /\ UNCHANGED <<running, reported, lost>>
      BY <1>2 DEF Tick
  <2>2. running[n] => phase'[n] = (phase[n] + 1) % Interval
      BY <1>2 DEF Tick, Interval
  <2>3. running[n] => phase'[n] = IF phase[n] + 1 = Interval THEN 0 ELSE phase[n] + 1
      BY <2>2, NextPhase DEF Interval
  <2>4. age'[n] <= age[n] + 1
      BY <2>1 DEF Older
  <2>5. reported[n] /\ phase[n] = 0 => tried[n]
      BY <2>1 DEF Due
  <2>. SUFFICES ASSUME reported[n] PROVE Reports(n)'
      BY <2>1
  <2>6. /\ running[n] /\ lost[n] \in 0..2 /\ age[n] \in Nat /\ phase[n] \in 0..(Interval - 1)
        /\ age'[n] \in Nat
      BY <2>1 DEF Interval, Older
  <2>7. CASE lost[n] = 0
    <3>1. age[n] <= phase[n] \/ (phase[n] = 0 /\ ~tried[n])
        BY <2>7
    <3>2. age[n] <= phase[n]
        BY <3>1, <2>5
    <3>. QED
        BY <3>2, <2>1, <2>3, <2>4, <2>6, <2>7 DEF Interval
  <2>8. CASE lost[n] = 1
    <3>1. age[n] <= Interval + phase[n]
        BY <2>5, <2>6, <2>8
    <3>. QED
        BY <3>1, <2>1, <2>3, <2>4, <2>6, <2>8 DEF Interval
  <2>. QED
      BY <2>1, <2>6, <2>7, <2>8
<1>3. ASSUME NEW m \in Nodes, Report(m) PROVE Reports(n)'
    BY <1>3 DEF Report, Due
<1>4. ASSUME NEW m \in Nodes, NEW on \in BOOLEAN, Turn(m, on) PROVE Reports(n)'
    BY <1>4 DEF Turn
<1>. QED
    BY <1>1, <1>2, <1>3, <1>4
       DEF MachinesNext, Poll, PollFails, Rerender, Look, machinesVars, meshd

LEMMA FreshKeeps ==
    ASSUME MachinesInv, [MachinesNext]_machinesVars, NEW n \in Nodes
    PROVE  Fresh(n)'
<1>. USE Limits DEF MachinesInv, MachinesTypeOK, Fresh
<1>0. reported[n] /\ lost[n] < 2 => age[n] <= 2 * Interval
    BY DEF Reports, Interval
<1>1. CASE Poll
    BY <1>0, <1>1 DEF Poll, meshd
<1>2. CASE PollFails
    BY <1>2 DEF PollFails
<1>3. CASE Rerender
    BY <1>3 DEF Rerender, meshd
<1>4. CASE Look
    BY <1>4 DEF Look
<1>5. CASE Tick
  <2>1. data'[n] \in Nat /\ data'[n] <= data[n] + 1 /\ polled' = FALSE
      BY <1>5 DEF Tick, Older
  <2>2. UNCHANGED <<reported, lost, blank, visible, known>> /\ (visible => polled)
      BY <1>5 DEF Tick
  <2>3. n \in known => data[n] \in Nat /\ data[n] <= 2 * Interval
      BY <2>2
  <2>4. Interval \in Nat
      BY DEF Interval
  <2>5. n \in known => data'[n] <= 2 * Interval + 1
      BY <2>1, <2>3, <2>4
  <2>. QED
      BY <2>1, <2>2, <2>5
<1>6. ASSUME NEW m \in Nodes, Report(m) PROVE Fresh(n)'
    BY <1>6 DEF Report
<1>7. ASSUME NEW m \in Nodes, NEW on \in BOOLEAN, Turn(m, on) PROVE Fresh(n)'
    BY <1>7 DEF Turn
<1>8. CASE UNCHANGED machinesVars
    BY <1>8 DEF machinesVars, meshd, machinesPage
<1>. QED
    BY <1>1, <1>2, <1>3, <1>4, <1>5, <1>6, <1>7, <1>8 DEF MachinesNext

LEMMA RenderedKeeps ==
    ASSUME MachinesInv, [MachinesNext]_machinesVars, NEW n \in Nodes
    PROVE  Rendered(n)'
<1>. USE Limits DEF MachinesInv, MachinesTypeOK, Rendered
<1>1. CASE Poll
    BY <1>1 DEF Poll, presence
<1>2. CASE PollFails
    BY <1>2 DEF PollFails, Nothing
<1>3. CASE Rerender
    BY <1>3 DEF Rerender, presence
<1>4. CASE UNCHANGED <<shown, blank, data>>
    BY <1>4
<1>5. CASE Tick
  <2>1. data[n] # Never => data'[n] # Never /\ data'[n] >= data[n]
      BY <1>5 DEF Tick, Older
  <2>2. UNCHANGED <<shown, blank>>
      BY <1>5 DEF Tick
  <2>3. data[n] \in Nat /\ data'[n] \in Nat
      BY <1>5 DEF Tick, Older
  <2>. QED
      BY <2>1, <2>2, <2>3
<1>. QED
    BY <1>1, <1>2, <1>3, <1>4, <1>5
       DEF MachinesNext, Look, Report, Turn, machinesVars, machinesPage

LEMMA MachinesInvariance == MachinesSpec => []MachinesInv
<1>1. MachinesInit => MachinesInv
  <2>. SUFFICES ASSUME MachinesInit PROVE MachinesInv
      OBVIOUS
  <2>. USE MachinesAssumption, Limits DEF MachinesInit
  <2>1. /\ running \in [Nodes -> BOOLEAN] /\ reported = running /\ tried = running
        /\ blank \in BOOLEAN /\ visible \in BOOLEAN /\ polled \in BOOLEAN
      OBVIOUS
  <2>2. phase \in [Nodes -> 0..(endpointRefreshInterval - 1)] /\ lost \in [Nodes -> 0..2]
      BY DEF Interval, endpointRefreshInterval
  <2>3. age \in [Nodes -> 0..Never] /\ data \in [Nodes -> 0..Never]
      OBVIOUS
  <2>4. shown \in [Nodes -> Presence] /\ known \subseteq Nodes /\ events \in 0..MaxEvents
      BY DEF Nothing, Presence
  <2>5. MachinesTypeOK
      BY <2>1, <2>2, <2>3, <2>4 DEF MachinesTypeOK
  <2>6. ASSUME NEW n \in Nodes PROVE Reports(n) /\ Fresh(n) /\ Rendered(n)
      BY DEF Reports, Fresh, Rendered, Nothing
  <2>. QED
      BY <2>5, <2>6 DEF MachinesInv
<1>2. MachinesInv /\ [MachinesNext]_machinesVars => MachinesInv'
    BY TypedTick, ReportsKeep, FreshKeeps, RenderedKeeps DEF MachinesInv
<1>. QED
    BY <1>1, <1>2, PTL DEF MachinesSpec

\* The types of the machines page.
THEOREM MachinesTyping == MachinesSpec => []MachinesTypeOK
<1>1. MachinesInv => MachinesTypeOK
    BY DEF MachinesInv
<1>. QED
    BY <1>1, MachinesInvariance, PTL

\* offlineAfterMs is two of meshd's intervals and a minute: in that minute the page
\* asks, and by less than that minute the browser's clock may be ahead.  Then no node
\* that runs is called offline for one lost report, however finely time is counted.
THEOREM Connected ==
    ASSUME Skew < Minute
    PROVE  MachinesSpec => []RunningStaysConnected
<1>1. MachinesInv => RunningStaysConnected
  <2>. SUFFICES ASSUME MachinesInv, NEW n \in known PROVE shown[n] # "offline"
      BY DEF RunningStaysConnected
  <2>1. n \in Nodes
      BY DEF MachinesInv, MachinesTypeOK
  <2>2. data[n] \in Nat /\ data[n] <= 10 * Minute + 1
      BY <2>1, Limits DEF MachinesInv, MachinesTypeOK, Fresh
  <2>3. ~(data[n] + Skew > offlineAfter)
      BY <2>2, Limits
  <2>. QED
      BY <2>1, <2>3 DEF MachinesInv, Rendered
<1>. QED
    BY <1>1, MachinesInvariance, PTL
-------------------------------------------------------------------------------
(* CurrentTenant: which tenant the pages show. *)

OnPages == {"machines", "members", "tenants", "invite"}

\* The pages of the console show a tenant when there is one to show: one of the list,
\* which is then loaded, and the one the URL names, if the list has it.
TenantOfList ==
    /\ current # None <=> at # "invite" /\ In(list.data) # {}
    /\ current # None => list.loaded /\ current \in In(list.data)
    /\ at # "invite" /\ url \in In(list.data) => current = url

\* A tenant that comes to be shown, and that neither the URL nor what localStorage
\* gave names, is the oldest of the list.
OldestOtherwise ==
    [][current' # current /\ current' \notin {None, url', Recalled} =>
           \A t \in In(list'.data) : current' <= t]_vars

\* What Render leaves, and finds: unless another tab has chosen since, or it could not
\* be stored, the current tenant is the one that is remembered, so that a page without
\* a tenant in its URL goes on with it.
Shown ==
    /\ at \in OnPages /\ {url, stored} \subseteq Tenants \cup {None}
    /\ storage \in Storage
    /\ list \in Query /\ (list.loaded \/ In(list.data) = {})
    /\ {elsewhere, unsaved} \subseteq BOOLEAN
    /\ TenantOfList
    /\ current # None /\ ~elsewhere /\ ~unsaved => stored = current

\* The rest of TypeOK.
Behind ==
    /\ role \in [Tenants -> Role]
    /\ landing \in Tenants \cup {None}
    /\ op \in [kind : {"none", "join", "leave"}, t : Tenants \cup {None},
               phase : {"sent", "done", "failed"}]
    /\ ops \in 0..MaxOps /\ changes \in 0..MaxChanges

\* A step of StaysPut, and one of OldestOtherwise.
Stays ==
    /\ current # None /\ current' # current =>
           \/ url' \notin {None, current} \/ current \notin In(list'.data)
           \/ elsewhere \/ unsaved \/ storage = "blocked"
    /\ current' # current /\ current' \notin {None, url', Recalled} =>
           \A t \in In(list'.data) : current' <= t

\* The oldest tenant of a list that has one.
LEMMA Oldest ==
    ASSUME NEW S, S \subseteq Nat, S # {}
    PROVE  Min(S) \in S /\ \A b \in S : Min(S) <= b
<1>1. IsWellFoundedOn(OpToRel(<, Nat), Nat)
    BY NatLessThanWellFounded
<1>2. PICK a \in S : \A b \in S : ~(<<b, a>> \in OpToRel(<, Nat))
    BY <1>1, WFMin
<1>3. \A b \in S : ~(b < a)
    BY <1>2 DEF OpToRel
<1>4. \A b \in S : a <= b
    BY <1>3
<1>. QED
    BY <1>4 DEF Min

\* useCurrentTenant finds a tenant of the list, if it has any: the one that is wanted,
\* or the oldest.
LEMMA PickOfList ==
    ASSUME NEW l \in Query, NEW u
    PROVE  /\ In(l.data) = {} => Pick(l, u) = None
           /\ In(l.data) # {} => Pick(l, u) \in In(l.data) /\ Pick(l, u) # None
           /\ u # None /\ u \in In(l.data) => Pick(l, u) = u
           /\ u = None /\ Recalled \in In(l.data) => Pick(l, u) = Recalled
           /\ Pick(l, u) \notin {None, u, Recalled} =>
                  \A t \in In(l.data) : Pick(l, u) <= t
<1>1. In(l.data) \subseteq Nat /\ None \notin In(l.data)
    BY CurrentTenantAssumption DEF In
<1>2. In(l.data) # {} => /\ Min(In(l.data)) \in In(l.data)
                         /\ \A t \in In(l.data) : Min(In(l.data)) <= t
    BY <1>1, Oldest
<1>. QED
    BY <1>1, <1>2 DEF Pick

Same(l, q) == l.loaded = q.loaded /\ l.data = q.data

\* What a query is after each of its steps, whose data only an answer changes.
LEMMA Queries ==
    ASSUME NEW q \in Query, NEW d \in [Tenants -> Role]
    PROVE  /\ Ask(q) \in Query /\ Same(Ask(q), q)
           /\ Again(q) \in Query /\ Same(Again(q), q)
           /\ [q EXCEPT !.fetch = "answered", !.got = d] \in Query
           /\ Same([q EXCEPT !.fetch = "answered", !.got = d], q)
           /\ [q EXCEPT !.fetch = "idle", !.err = TRUE] \in Query
           /\ Same([q EXCEPT !.fetch = "idle", !.err = TRUE], q)
<1>1. Unknown \in [Tenants -> Role]
    BY DEF Unknown, Role
<1>2. Ask(q) \in Query /\ Same(Ask(q), q)
    BY DEF Ask, Query, Same
<1>3. Again(q) \in Query /\ Same(Again(q), q)
    BY <1>1 DEF Again, Query, Same
<1>4. /\ [q EXCEPT !.fetch = "answered", !.got = d] \in Query
      /\ Same([q EXCEPT !.fetch = "answered", !.got = d], q)
    BY DEF Query, Same
<1>5. /\ [q EXCEPT !.fetch = "idle", !.err = TRUE] \in Query
      /\ Same([q EXCEPT !.fetch = "idle", !.err = TRUE], q)
    BY DEF Query, Same
<1>. QED
    BY <1>2, <1>3, <1>4, <1>5

LEMMA Answered ==
    ASSUME NEW q \in Query
    PROVE  LET l == [q EXCEPT !.fetch = "idle", !.got = Unknown, !.data = q.got,
                              !.loaded = TRUE, !.err = FALSE]
           IN  l \in Query /\ l.loaded
<1>1. Unknown \in [Tenants -> Role]
    BY DEF Unknown, Role
<1>. QED
    BY <1>1 DEF Query

\* Whatever is rendered, the tenant stays, and is remembered.
LEMMA RenderStays ==
    ASSUME Shown, NEW a \in OnPages, NEW u \in Tenants \cup {None}, NEW l \in Query,
           l.loaded \/ In(l.data) = {}, a = "invite" => at = "invite", Render(a, u, l)
    PROVE  Shown' /\ Stays
<1>1. list' \in Query /\ Same(list', l)
  <2>1. list' \in {l, Ask(l)}
      BY DEF Render
  <2>2. Unknown \in [Tenants -> Role]
      BY DEF Unknown, Role
  <2>3. Ask(l) \in Query /\ Same(Ask(l), l)
      BY <2>2, Queries
  <2>. QED
      BY <2>1, <2>3 DEF Same
<1>2. In(list'.data) = In(l.data) /\ (list'.loaded \/ In(list'.data) = {})
    BY <1>1 DEF Same
<1>3. TenantOfList'
    BY <1>1, <1>2, PickOfList, CurrentTenantAssumption DEF Render, TenantOfList, Same, In
<1>4. elsewhere' \in BOOLEAN /\ unsaved' \in BOOLEAN
  <2>1. elsewhere' \in BOOLEAN
      BY Zenon DEF Render
  <2>2. unsaved \in BOOLEAN
      BY DEF Shown
  <2>3. unsaved' = (storage # "works") \/ unsaved' = unsaved
      BY Zenon DEF Render
  <2>. QED
      BY <2>1, <2>2, <2>3
<1>5. current' \in Tenants \cup {None}
    BY <1>3 DEF TenantOfList, In
<1>6. stored' \in Tenants \cup {None} /\ storage' \in Storage
    BY <1>5 DEF Render, Remembered, Shown
<1>7. current' # None /\ ~elsewhere' /\ ~unsaved' => stored' = current'
    BY DEF Render, Remembered, Effect, Shown
<1>8. Shown'
    BY <1>1, <1>2, <1>3, <1>4, <1>6, <1>7 DEF Shown, Render
<1>9. Stays
  <2>1. ASSUME current # None, url' \in {None, current}, current \in In(list'.data),
               ~elsewhere, ~unsaved, storage # "blocked"
        PROVE  current' = current
    <3>1. stored = current /\ Recalled = current
        BY <2>1 DEF Shown, Recalled
    <3>2. Pick(l, u) = current
        BY <1>2, <2>1, <3>1, PickOfList DEF Render
    <3>3. a # "invite"
        BY <2>1 DEF Shown, TenantOfList
    <3>. QED
        BY <3>2, <3>3, <2>1 DEF Render
  <2>2. ASSUME current' \notin {None, url', Recalled}, NEW t \in In(list'.data)
        PROVE  current' <= t
      BY <1>2, <2>2, PickOfList DEF Render
  <2>. QED
      BY <2>1, <2>2 DEF Stays
<1>. QED
    BY <1>8, <1>9

LEMMA ShownKeeps ==
    ASSUME Shown, Behind, [Next]_vars
    PROVE  Shown' /\ Stays
<1>0. /\ at \in OnPages /\ url \in Tenants \cup {None} /\ None \in Tenants \cup {None}
      /\ list \in Query /\ (list.loaded \/ In(list.data) = {})
    BY DEF Shown
<1>1. ASSUME NEW a \in {"machines", "members", "tenants"}, Tab(a) PROVE Shown' /\ Stays
    BY <1>0, <1>1, RenderStays DEF Tab, GoTo, OnPages
<1>2. CASE Machines
    BY <1>0, <1>2, RenderStays DEF Machines, GoTo, OnPages
<1>3. ASSUME NEW t \in Tenants, Choose(t) PROVE Shown' /\ Stays
    BY <1>0, <1>3, RenderStays DEF Choose, GoTo, OnPages
<1>4. CASE Glance
    BY <1>0, <1>4, RenderStays DEF Glance
<1>5. CASE Joined
  <2>1. op.t \in Tenants \cup {None}
      BY DEF Behind
  <2>. DEFINE l == IF at = "invite" THEN list ELSE Again(list)
  <2>2. l \in Query /\ Same(l, list)
      BY <1>0, Queries DEF Behind, Same
  <2>3. l.loaded \/ In(l.data) = {}
      BY <1>0, <2>2 DEF Same
  <2>4. Render("machines", op.t, l)
      BY <1>5 DEF Joined
  <2>. HIDE DEF l
  <2>. QED
      BY <2>1, <2>2, <2>3, <2>4, RenderStays DEF OnPages
<1>6. CASE Left
  <2>1. Again(list) \in Query /\ Same(Again(list), list)
      BY <1>0, Queries DEF Behind
  <2>2. Again(list).loaded \/ In(Again(list).data) = {}
      BY <1>0, <2>1 DEF Same
  <2>. QED
      BY <1>0, <1>6, <2>1, <2>2, RenderStays DEF Left, OnPages
<1>7. CASE ListArrives
  <2>. DEFINE l == [list EXCEPT !.fetch = "idle", !.got = Unknown, !.data = list.got,
                                !.loaded = TRUE, !.err = FALSE]
  <2>1. l \in Query /\ l.loaded
      BY <1>0, Answered
  <2>2. CASE Render(at, url, l)
      BY <1>0, <2>1, <2>2, RenderStays
  <2>3. CASE /\ list.data = list.got /\ list' = l
             /\ UNCHANGED <<at, url, stored, storage, current, elsewhere, unsaved>>
    <3>1. list'.data = list.data
        BY <1>0, <2>3 DEF Query
    <3>2. In(list'.data) = In(list.data) /\ list'.loaded
        BY <2>1, <2>3, <3>1
    <3>3. TenantOfList'
        BY <2>3, <3>2 DEF Shown, TenantOfList
    <3>. QED
        BY <2>1, <2>3, <3>2, <3>3 DEF Shown, Stays
  <2>. QED
      BY <1>7, <2>2, <2>3 DEF ListArrives
<1>8. CASE ListFails
  <2>. DEFINE l == [list EXCEPT !.fetch = "idle", !.err = TRUE]
  <2>1. l \in Query /\ Same(l, list)
      BY <1>0, Queries DEF Behind
  <2>2. l.loaded \/ In(l.data) = {}
      BY <1>0, <2>1 DEF Same
  <2>3. Render(at, url, l)
      BY <1>8 DEF ListFails
  <2>. HIDE DEF l
  <2>. QED
      BY <1>0, <2>1, <2>2, <2>3, RenderStays
<1>9. CASE Refetch \/ ListServed
  <2>1. role \in [Tenants -> Role]
      BY DEF Behind
  <2>2. list' = Ask(list) \/ list' = [list EXCEPT !.fetch = "answered", !.got = role]
      BY <1>9 DEF Refetch, ListServed
  <2>3. list' \in Query /\ Same(list', list)
    <3>1. CASE list' = Ask(list)
        BY <1>0, <2>1, <3>1, Queries
    <3>2. CASE list' = [list EXCEPT !.fetch = "answered", !.got = role]
        BY <1>0, <2>1, <3>2, Queries
    <3>. QED
        BY <2>2, <3>1, <3>2
  <2>4. UNCHANGED <<at, url, stored, storage, current, elsewhere, unsaved>>
      BY <1>9 DEF Refetch, ListServed, history
  <2>5. In(list'.data) = In(list.data) /\ list'.loaded = list.loaded
      BY <2>3 DEF Same
  <2>6. TenantOfList'
      BY <2>4, <2>5 DEF Shown, TenantOfList
  <2>. QED
      BY <2>3, <2>4, <2>5, <2>6 DEF Shown, Stays
<1>10. ASSUME NEW t \in Tenants, Elsewhere(t) PROVE Shown' /\ Stays
    BY <1>10 DEF Elsewhere, Shown, Stays, TenantOfList
<1>11. ASSUME NEW s \in Storage, StorageBecomes(s) PROVE Shown' /\ Stays
    BY <1>11 DEF StorageBecomes, page, history, Shown, Stays, TenantOfList
<1>12. CASE UNCHANGED <<page, storage, elsewhere, unsaved>>
    BY <1>12 DEF page, Shown, Stays, TenantOfList
<1>. QED
    BY <1>1, <1>2, <1>3, <1>4, <1>5, <1>6, <1>7, <1>8, <1>9, <1>10, <1>11, <1>12
       DEF Next, User, Operation, Listing, Environment, Leave, Join, Mutate, Serve, Failed,
           ChangeRole, history, vars

LEMMA BehindKeeps ==
    ASSUME Shown, Behind, [Next]_vars
    PROVE  Behind'
<1>. USE DEF Behind
<1>1. CASE User
  <2>1. ASSUME NEW kind \in {"join", "leave"}, NEW t \in Tenants \cup {None}, Mutate(kind, t)
        PROVE  Behind'
      BY <2>1, CurrentTenantAssumption DEF Mutate, history
  <2>2. current \in Tenants \cup {None}
      BY DEF Shown, TenantOfList, In
  <2>3. ASSUME NEW a, NEW u, GoTo(a, u) PROVE Behind'
      BY <2>3 DEF GoTo
  <2>4. CASE Glance \/ Refetch
      BY <2>4 DEF Glance, Refetch, history
  <2>5. CASE Leave
      BY <2>1, <2>2, <2>5 DEF Leave
  <2>6. ASSUME NEW t \in Tenants, Join(t) PROVE Behind'
      BY <2>1, <2>6 DEF Join
  <2>. QED
      BY <1>1, <2>3, <2>4, <2>5, <2>6 DEF User, Machines, Tab, Choose
<1>2. CASE Serve
  <2>1. role' \in [Tenants -> Role]
      BY <1>2 DEF Serve, Role
  <2>2. op' \in [kind : {"none", "join", "leave"}, t : Tenants \cup {None},
                 phase : {"sent", "done", "failed"}]
      BY <1>2 DEF Serve
  <2>. QED
      BY <1>2, <2>1, <2>2 DEF Serve, history
<1>3. CASE Failed \/ Joined \/ Left
    BY <1>3 DEF Failed, Joined, Left, NoOp, history
<1>4. CASE ListServed \/ ListArrives
    BY <1>4 DEF ListServed, ListArrives, history
<1>5. CASE ListFails
    BY <1>5, CurrentTenantAssumption DEF ListFails
<1>6. ASSUME NEW t \in Tenants, Elsewhere(t) \/ \E r \in Role : ChangeRole(t, r)
      PROVE  Behind'
    BY <1>6, CurrentTenantAssumption DEF Elsewhere, ChangeRole
<1>7. ASSUME NEW s \in Storage, StorageBecomes(s) PROVE Behind'
    BY <1>7, CurrentTenantAssumption DEF StorageBecomes, history
<1>8. CASE UNCHANGED vars
    BY <1>8 DEF vars, history
<1>. QED
    BY <1>1, <1>2, <1>3, <1>4, <1>5, <1>6, <1>7, <1>8
       DEF Next, Operation, Listing, Environment

LEMMA ShownInvariance == Spec => [](Shown /\ Behind)
<1>1. Init => Shown /\ Behind
  <2>. SUFFICES ASSUME Init PROVE Shown /\ Behind
      OBVIOUS
  <2>1. Unknown \in [Tenants -> Role]
      BY DEF Unknown, Role
  <2>2. list \in Query
      BY <2>1 DEF Init, Query
  <2>3. In(list.data) = {}
      BY DEF Init, In, Unknown
  <2>4. Shown
      BY <2>2, <2>3, CurrentTenantAssumption DEF Init, Shown, TenantOfList, OnPages
  <2>5. Behind
      BY CurrentTenantAssumption DEF Init, Behind, NoOp
  <2>. QED
      BY <2>4, <2>5
<1>2. Shown /\ Behind /\ [Next]_vars => (Shown /\ Behind)'
    BY ShownKeeps, BehindKeeps
<1>. QED
    BY <1>1, <1>2, PTL DEF Spec

\* The types of the console's choice of a tenant.
THEOREM TenantTyping == Spec => []TypeOK
<1>1. Shown /\ Behind => TypeOK
    BY DEF Shown, Behind, TypeOK, TenantOfList, In, OnPages
<1>. QED
    BY <1>1, ShownInvariance, PTL

\* useCurrentTenant's choice: the console shows a tenant whenever its list has one, only
\* from the list that is loaded, the one of the URL where the list has it, and the
\* oldest where nothing the list has is named or remembered.
THEOREM TenantChosen == Spec => []TenantOfList /\ OldestOtherwise
<1>1. Shown => TenantOfList
    BY DEF Shown
<1>2. Shown /\ Behind /\ [Next]_vars =>
          [current' # current /\ current' \notin {None, url', Recalled} =>
               \A t \in In(list'.data) : current' <= t]_vars
    BY ShownKeeps DEF Stays
<1>. QED
    BY <1>1, <1>2, ShownInvariance, PTL DEF Spec, OldestOtherwise

\* The tenant on the page changes only where the user, the list or another tab says so,
\* or the browser does not let it be stored or read.
THEOREM TenantStays == Spec => StaysPut
<1>1. Shown /\ Behind /\ [Next]_vars =>
          [current # None /\ current' # current =>
               \/ url' \notin {None, current}
               \/ current \notin In(list'.data)
               \/ elsewhere \/ unsaved \/ storage = "blocked"]_vars
    BY ShownKeeps DEF Stays
<1>. QED
    BY <1>1, ShownInvariance, PTL DEF Spec, StaysPut
===============================================================================

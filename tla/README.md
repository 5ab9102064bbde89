# Mesh2Mesh: TLA+ specifications

Mesh2Mesh is a WireGuard mesh with a control plane. These specifications model
its concurrent core and the state of its web UI, model-check them with TLC on
small instances and prove their safety properties with TLAPS for every instance.
Paths below are relative to the repository's `src/`; `PROJECT.json` gives, for each
definition, the lines it translates.

1. [The system](#the-system)
2. [The modules](#the-modules)
3. [The runs](#the-runs): bounds, fairness, what each shows
4. [The proofs](#the-proofs)
5. [Disagreements found](#disagreements-found)
6. [What is not modelled](#what-is-not-modelled)
7. [What is left](#what-is-left)

## The system

| Part | Where | State it keeps | Operations |
|---|---|---|---|
| Address pool | `internal/store/addr.go` | none | `nextFreeAddr` |
| Enrolment | `internal/store/store.go`, `internal/api/{tenants,tokens,peers}.go` | rows of `tenants`, `enrollment_tokens`, `peers` | create a tenant, issue a token, register a peer, list |
| Endpoints | `internal/api/peers.go`, `internal/store/store.go` | endpoint columns of `peers` | `updateEndpoint` (probes), `updateNATEndpoint` |
| Memberships | `internal/store/members.go`, `internal/api/members.go` | rows of `tenant_members`, `tenant_invites` | create an owned tenant, invite, accept, claim, remove |
| Relay | `internal/relay/relay.go` | sessions in four maps under one mutex | `Issue`, `register`, `forward` |
| Prober | `internal/prober/prober.go` | probes in flight, by nonce | `Reachable`, `answerBinding`, `readLoop` |
| Node | `cmd/meshd/{run,relay,wireguard}.go` | relay token, acknowledgement time, NAT mapping, WireGuard's peer list | `maintain` and what it calls; the bind's receive loop |
| Node enrolment | `cmd/meshd/{commands,state}.go`, `internal/client` | the state file | `setup`, `join` |
| Node service | `cmd/meshd/service.go` | PID file, systemd unit, `mesh0` | `run`, `stop` |
| Web backend | `web/src/backend` | login attempts, sessions | OIDC login, callback, logout, proxy to `/v1/me` |
| Logging in | `web/src/frontend/{main,router}.tsx`, `routes/login.tsx`, `routes/landing.tsx` | the page of a tab, two cookies, the cached `me` | be sent to log in and back, log out |
| Current tenant | `web/src/frontend/lib/current-tenant.ts`, `routes/admin/{layout,tenants}.tsx`, `routes/invite.tsx` | `?tenant=`, `localStorage`, the cached list of tenants | choose, join, create, claim, leave |
| Members page | `web/src/frontend/routes/admin/members.tsx` | the cached lists of members, the invite dialog | remove, leave, invite |
| Machines page | `web/src/frontend/routes/admin/machines.tsx`, `lib/peer.ts` | the cached list of nodes, what is rendered of it | poll, render |

### How the parts interact

* A node calls the control plane over HTTP: it registers with an enrolment
  token, reports its endpoints, lists its peers every 15 s and asks for a relay
  token. Every such call can fail, be given up and still take effect.
* The control plane's handlers run concurrently and share PostgreSQL, whose row
  locks and unique indexes are the only thing between them, and the in-memory
  relay, whose mutex is.
* Node and control plane exchange UDP datagrams on one socket each: relay
  registrations and acknowledgements, relayed WireGuard packets, probes and
  binding requests. In the node the WireGuard receive loop reads them and the
  `maintain` loop acts on them; they share the fields of `meshBind` under mutexes.
* Nodes exchange WireGuard packets, directly or through the relay. WireGuard
  moves its endpoint for a peer to wherever an authenticated packet comes from,
  behind the back of `syncPeers`, which configures it.
* The browser talks to the web backend, which holds the OIDC session and proxies
  to the control plane's `/v1/me`. All tabs of a browser share two cookies and
  `localStorage`; each has its own cache of what it fetched, whose answers come in
  any order with the user's next click.

### What is hard, and what must hold

| Part | Hard behaviour | What makes it correct |
|---|---|---|
| Address pool | stepping past the end of a block or of the address space | the lowest usable address, or exhaustion exactly when there is none |
| Enrolment | transactions interleave; the address comes from a snapshot; failure between two statements; lost commit answers | uses = peers admitted ≤ `max_uses`; unique, gap-free addresses; answers that are true; no stuck request |
| Memberships | authorisation in another transaction than the write; owners removing each other; invites racing claims; deadlocks, also with refreshes of names | a tenant never loses its last owner; claims take over nothing; invites admit no more than they say |
| Relay | four maps that must agree; a datagram written after the unlock; duplicated and reordered registrations | the maps tell one story; no frame leaves its tenant or reaches a peer it was not sent to |
| Relay upkeep | control plane restarts, late acknowledgements, calls given up and served later | belief in the relay only on evidence; registered again in the end |
| Endpoint probe | reports that overlap, replies that repeat or come from elsewhere, a NAT that treats the prober as a friend | no channel closed twice; a verdict is earned; the record settles on the truth |
| NAT endpoint | repeated and late answers, two threads and a channel of capacity 1 | the receive loop never blocks; no stale mapping; the mapping settles |
| Peer synchronisation | deltas against one's own memory while WireGuard roams; times read before a handshake completes | what was sent in pieces is what WireGuard has; nodes reach each other in the end |
| Logging in | callbacks that are sent twice, wait for the provider, or overlap with a logout; several 401s at once; pages that redirect by themselves | a login makes one session; it is refused only for a reason; back to the page asked for; no redirecting for ever |
| Current tenant | lists asked for before a change and answered after it; the choice another tab remembers; a browser that remembers nothing | the page's tenant does not change by itself; who joins one comes to it |
| Members page | answers for a page that was left or has moved to another tenant | a link is shown under the tenant it joins; who was removed does not stay |
| Machines page | a limit compared with old data, on a page that renders only what is new | one lost report is no outage; a node that stopped is shown to have |

`PROJECT.json` lists each hazard at its line with the properties that cover it. Those
without a property, and those that are covered in part, say what is not covered and
why: where the code does go wrong, it is among the disagreements below.

## The modules

    AddrPool  <-- AddrScan                      the loop against the definition
       ^
       |---- Registry  <== Enrollment           one step against transactions
             RelayTable <== Relay <-- RelayNet  a table against four maps;
                                                nodes over a faulty network
             Tenancy    <== Members             one step against transactions
             Lifetimes    EndpointProbe      NATEndpoint      PeerSync
             WebSession   CurrentTenant      MembersPage      Machines

`<--` is EXTENDS or INSTANCE, `<==` is a refinement that a run checks. Each MC
module extends a module for its run, and each Proofs module for its theorems.

**AddrPool** has the arithmetic of a tenant's prefix: an address is a natural
number, a masked prefix the block `[first, last, v4]`. `LowestFree` is what
`nextFreeAddr` promises. **AddrScan** is its loop, one step per iteration; the
other modules use `LowestFree`, which AddrScan justifies.

**Enrollment** is `createTenant`, `createToken` and `registerPeer` over
`Store.RegisterPeer`, a READ COMMITTED transaction. One action is one SQL
statement: the `SELECT ... FOR UPDATE` of the token (`LockToken`, or
`RejectToken` when its WHERE clause finds nothing), the snapshot of used
addresses with `nextFreeAddr` (`ChooseAddr`, `PoolExhausted`), the INSERT,
which enters the two unique indexes one after the other and waits for
uncommitted rows there (`IndexAddr`, `IndexKey` or a conflict), and the count of
the use with the COMMIT (`Commit`). `Abort` may come before any of them (the
client, the connection or the process goes), and a commit may succeed without
its answer reaching anyone. Secrets are opaque, and a token's hash is the token.
`pc[r]` is how far the transaction of request `r` is, or its HTTP answer.
**Registry** is the same without transactions: redeeming a token is one step.
**Lifetimes** is what `createToken` and `createInvite` make of `ttl_seconds`, with
integers of a given width. In Enrollment and Members a token or an invite has expired
or has not. Its `GrantedAsAsked` has no state: MCAddrScan assumes it, so that TLC evaluates
it for every 10-bit number before the run.

**Members** is `internal/api/members.go` over `internal/store/members.go`. A
request is a slot, reused when it is answered, so any number of requests are
made in a behaviour and `|Requests|` at a time. Row locks are the sets `locked`,
the tenant's lock with its KEY SHARE mode (the foreign keys) is read off `pc`.
Two statements lock several rows, one by one and in any order (`Scan`, `LockRow`),
which is what deadlocks are made of: `RemoveMember`'s count of the owners of a tenant,
and `ListMemberships`' refresh of a user's name and e-mail in all tenants (`Refresh`
to `Refreshed`). A row that is no longer the statement's when its lock comes is skipped
(`SkipRow`). PostgreSQL's detector is `BreakDeadlock`. `Eligible` bounds who may get
into which tenant. A request refused before it took a lock changes nothing and is no
step.
**Tenancy** is the same without transactions: each operation that succeeds is one
step, right about the tenant as it is then. What it does not promise is what the code
finds out in another transaction: that the one who asks still may.

**Relay** is `internal/relay`: the sessions and the four maps. What a handler
does under the mutex is one action. `sending` is what the read loop has
computed there and writes after the unlock (`Write`); `Issue`, called by HTTP
handlers, may come in between, another frame may not, as one loop reads them.
**RelayTable** says what peers may rely on: a table of where each was last heard.

**RelayNet** extends Relay with nodes: `refreshRelay` (`AskToken`,
`UseGrant`, `KeepRegistered`), `ackRelay` (`ReceiveAck`), and a network. A
node's two times are one `status`: "up" while `relayUp`, "due" when neither the
last acknowledgement nor the last token is younger than `relayAckTimeout`,
"waiting" in between. Faults: a call that fails (and may be served later, by
`ServeLate`), a stall of acknowledgements, new NAT mappings, lost and repeated
datagrams, `SessionTTL` without a registration, a restart of the control plane.

**EndpointProbe** is the reports of one node: `reportEndpoint`, the handler
`updateEndpoint` with `Reachable` and `SetPeerEndpoint`, the prober's `readLoop`
and the node's `answerProbe`. A call stands for its nonce as well. A node makes
one report at a time (`awaited`), but a handler whose answer it no longer waits
for goes on, or is cancelled, so calls overlap. `readLoop` is two steps, `Match`
under the mutex and `Close` after it. `path` says what the network does with
datagrams to an endpoint: open, filtered (only those the node has sent to get in,
`heldOpen` for the prober), closed, or skewed (answers leave from elsewhere).

**NATEndpoint** is one node without direct connectivity (the only kind that
runs `refreshNATEndpoint`), the prober's `answerBinding`, and
`updateNATEndpoint`. `maintain` is the program counter `pc`; `bindings`
is the map of waiting nonces and `box` the channel of capacity 1 of each; the
receive loop's `deliverBinding` is two steps, as it releases the mutex before it
sends on the channel. The NAT changes its mapping at any time.

**PeerSync** is `refreshPeers` and `syncPeers` of every node, in two steps:
`Decide` computes what it wants for each peer from the listed endpoints,
`relayUp` and the handshake times; `Configure` sends WireGuard what differs
from `d.wgPeers` and replaces it. WireGuard itself is external and modelled by
what the code relies on: a handshake, and endpoints that follow packets
(`Receive`). `Publish` stands for the endpoint reports, at any delay, so an
answer to `ListPeers` that is old when it is used is one given before the
`Publish`. `Register` and `RelayDown` stand for RelayNet. `since` is the flag
`aged`: whether `punchBudget` has passed since the endpoint was first seen.

**WebSession** is logging in: `logins`, `sessions` and `metadata` of `oidc.mjs`,
the two cookies, and the pages in the tabs of one browser. A handler is two steps
around its await (`Redeem` takes the login out of `logins`, `Exchange` then makes
a session, or not, of the provider's answer), and a response changes the cookies when it
reaches the browser. A login is named by its state, a callback by its login and how
often it was sent, a session by its callback; so a lost, repeated or late one is
told apart. A path is a page behind `depth` times `/login?redirect=`, which is all
of `redirect` that `main.tsx` and `login.tsx` build. Faults: expiry of logins and
sessions, a restart of the backend, reloads, the provider's metadata unavailable.

**CurrentTenant** is `useCurrentTenant` (`Pick` and its effect `Remembered`, which runs
at each mount and when the tenant's entry changes) in one tab, with the links that set `?tenant=` and the three ways to join and the one to
leave. `list` is `tenantsQuery`: what it has and the fetch under way. `role` is the
truth at the control plane, which `Serve` and others (`ChangeRole`) change;
`Elsewhere` is another tab's effect on `localStorage`. The browser may refuse it:
`storage` is full when `setItem` throws and blocked when `getItem` does as well, which
the code catches, and remembers or recalls nothing (`StorageBecomes`).

**MembersPage** is the members page, with the tenant it shows as an input: it is
opened, left, hidden behind an error (`Conceal`), and moves to another tenant
with its components in place (`Slip`), all of which CurrentTenant can make
happen. A mutation keeps the tenant it was begun for and, as `as`, the one its
`onSuccess` closes over, which is the last render's. `link` is the dialog's invite,
known by its tenant.

**Machines** is what the machines page says of nodes that report every five
minutes. It has discrete time: a tick is what `Minute` makes of it, and within one
everything due happens, in any order. `age` is the time since `endpoint_updated_at`
at the control plane, `data` what the page's last answer has become since, and
`shown` what was last rendered: React Query renders nothing when an answer is the
same, although time has passed.

In the last three, React Query 5 is external and modelled by what the pages rely
on: one fetch of a query at a time; `invalidateQueries` starts it again for a query
that is on the page, except a first fetch, which is left to finish; an equal
answer keeps the old data and renders nothing; a mutation's `onSuccess` runs after
its component is gone.

## The runs

All runs pass.

| Run | Instance | What it shows |
|---|---|---|
| `addr_scan` | every masked block of a 3-bit space, both families, every set of used addresses | the scan returns the lowest free address or reports exhaustion truly, and ends |
| `enrollment` | 2 tenants, 2 tokens of up to 2 uses, 3 requests, 2 keys, blocks with 2 and 1 usable addresses; symmetric | token accounting, pool discipline, true answers, no deadlock; the transactions implement Registry |
| `members` | 2 tenants, 3 users, one of whom may be in both, 1 invite of 1 use, 2 slots | the last owner stays, claims are of empty tenants, invites stay within their limit, roles are kept; only counts of owners and refreshes of names deadlock; every request is answered, those included; the transactions implement Tenancy |
| `relay` | 3 peers in 2 tenants, two with the same mesh address, 5 tokens, 3 addresses; symmetric | the maps agree, no misdelivery, sessions are not lost; the maps implement RelayTable |
| `relay_net` | 2 nodes, 3 addresses, 6 tokens, 1 fault | belief only on evidence; every node ends up registered, whatever the fault |
| `probe` | 2 calls, 2 endpoints, every kind of path, 1 fault | no channel is closed twice, a yes is earned, the record and the node's belief settle on the truth |
| `nat_endpoint` | 2 mappings on different ips, 2 nonces, 2 changes, 1 fault | the receiver never blocks, mappings are fresh and settle |
| `peer_sync` | 2 nodes, one with 2 addresses, 1 change of the network | deltas add up, every endpoint gets its budget, nodes reach each other but for one case |
| `web_session` | 2 tabs, 2 pages, 2 logins, callbacks sent twice, 1 fault | one session per login, no login refused without a reason, everybody back where they wanted to be, nobody redirected for ever |
| `current_tenant` | 2 tenants, 1 operation at a time and in all, 2 changes by others or the browser | the tenant on the page stays while it can be remembered, and who joins one comes to it |
| `members_page` | 2 tenants, both the user's, 2 people, 1 mutation at a time, 1 change by others | invite links under the right title, removed people gone |
| `machines` | 2 nodes, a tick of one minute, clocks that agree, 4 events | no outage for one lost report, and one in the end for a node that stopped |

### Why the bounds are enough

* `addr_scan`: the loop's conditions compare the cursor with the first and last
  address, the broadcast address and `used`. Blocks of one to eight addresses at
  every offset include those without a usable address, with one, and with gaps.
  The proofs cover every block. Of the 64 bits and 10^9 of a lifetime it matters that
  the limit fits and larger values wrap around, some of them to values within the
  limit. The proof covers every width.
* `enrollment`: two requests under one token compete for its last use and two
  under two tokens for an address; the third may commit in between. Two keys in
  two tenants meet both unique constraints, and a /30 fills after one peer.
  The safety proofs cover every instance.
* `members`: every race here is between two requests (two claims, two uses of an
  invite, mutual removal), and slots are reused, so what went before is any
  sequence of requests. Three users are two in the race and one who is already
  there. The second tenant gives one user two rows, which two refreshes of that user
  lock in opposite orders; more users in it would repeat what the first tenant shows.
  Two requests cannot close the circle of two refreshes and two counts, of different
  users and tenants: it takes four, and it is theorem `Circles` that covers it. An
  invite of one use is the one whose last use two requests compete for.
* `relay`: two peers of one tenant, and one of another with the same mesh
  address, are the smallest pair of tenants that can be confused. Five tokens
  let a peer replace its session three times while the others have one. The
  proofs cover every instance.
* `probe`: calls meet only in the record and in what replies carry, two at a
  time: one that is awaited and one that was given up, or one and a reply to
  its predecessor. Two endpoints let the older report be of the wrong one.
* `relay_net`, `nat_endpoint`, `probe`, `peer_sync`: faults are bounded by the constants
  `MaxFaults` and `MaxChanges`. Liveness is about what happens after the last
  fault, and one fault already reaches each state a fault can leave; the tokens
  suffice for the calls one fault causes, or `RelayRecovers` would fail. Two
  mappings on two ips change and change back, which is what fools a comparison
  with a remembered value. Two nodes suffice because `syncPeers` treats each pair
  alone. A node's addresses belong to it (`HomeOf`): a packet of another
  sender does not pass WireGuard's cryptography.

* `web_session`: two tabs are needed for cookies to change under a page, two
  logins for one to overwrite or follow the other, and a callback sent twice for
  a login to be redeemed twice. A depth of `/login?redirect=` beyond what two
  401s nest comes back the same way, one at a time.
* `current_tenant`: two tenants are the one shown and the other; one operation
  meets two changes from outside, which is a removal and a failed fetch, a removal
  and another tab's choice, or a storage that fails and works again. It may have
  failed from the start.
* `members_page`: the hazards are between one mutation and what the user does to
  the page and the lists on their way meanwhile. The slot of a mutation is used
  again when it is answered, so what went before is any sequence of them.
* `machines`: the limit of 11 minutes is compared with reports 5 minutes apart:
  one lost report makes a node 10 minutes old and a poll adds less than one, so
  minutes tell apart what passes and what does not (a limit of 9 fails). Four
  events start two nodes and lose a report or stop one and hide the page; five
  events pass as well.

Symmetry is used only in runs of safety properties and refinements of safety
specifications. `CHECK_DEADLOCK FALSE` appears where the system may really stop:
nothing obliges requests to arrive, and tokens and invite codes are finite in
an instance.

### Fairness

* AddrScan: the loop runs (`WF(Next)`).
* Enrollment has none: its properties are safety. `SomeoneProceeds`, that some
  request of those under way can take a step of its own, says with ENABLED that
  the row locks and index waits never close a circle.
* Members: `SF` of the statements of a request that has begun, as PostgreSQL queues waiters for a row and grants the
  lock in that order: a waiter is not passed over for ever, though its step is
  disabled whenever another holds the lock.
* RelayNet: `WF` of the two threads of each node and of the server; `SF` of
  reading the registration a node keeps sending every 15 s. `Unacknowledged`
  uses the timing assumption that a node that registers every 15 s with a token
  the relay knows is acknowledged within `relayAckTimeout`, 45 s; not being so is
  the fault `Stall`.
* EndpointProbe: `WF` of the read loop, the handlers and the report that comes
  every five minutes; `SF` of answering the probes of a call, of which up to three are
  sent, and of receiving an answer. A budget that runs out on a node that answers
  is a fault, as are a node that gives up a report, moves, or whose NAT or firewall
  changes; nonces are random, so one is used again only when no trace of it is
  left (`Unused`).
* NATEndpoint: `WF` of both threads; `SF` of the answers to a request sent five
  times in a budget of 2 s; running out of the budget is the bounded fault
  `GiveUp`. A changed mapping stops changing.
* PeerSync: `WF` of the loops, of `Publish` and `Register` (the two modules above)
  and of WireGuard's receipt; `SF` of `Initiate`, which WireGuard repeats with
  keepalives on, and of `Age`, time. `Age` and `Expire` are guarded by their
  durations: no packet outlives the 20 s of `punchBudget`, and a handshake gets
  older than `handshakeStale`, 3 min, only when neither node can reach the other,
  as WireGuard renews it every two minutes.
* WebSession: `WF` of what pages do by themselves (the router's guards, the login
  page going on, polls, the browser following redirects) and of the backend's
  handlers, whose fetches from the provider end or time out. Nothing makes a user
  log in at the provider or click.
* CurrentTenant and MembersPage: `WF` of requests and of fetches, which are
  answered or time out and fail. The user owes nothing.
* Machines: `WF` of time, of polls and of reports. `Tick` waits for what is due, so
  no node skips a report but by an event.

## The proofs

Every theorem is about a module's specification, for every value of its constants,
from the assumption its module names (`EnrollmentAssumption`, `PrefixesAssumption`,
`RelayAssumption`, ...), which say that the "none" values are not members, that
bounds are numbers, and what the database schema enforces: mesh addresses are
unique in a tenant, prefixes have natural bounds. One theorem has a hypothesis of its
own (`Connected`, below). Where one Proofs module is about several modules, all but the
first name their specification after themselves (`ScanSpec`, `NetSpec`, `PageSpec`,
`MachinesSpec`).

**EnrollmentProofs** begins with what `LowestFree` is: a non-empty set of naturals
has a lowest element, so it is defined, free, and the only such. The invariant
builds up in layers. `Locks` (`TypeOK`, `Tables`,
`Holders`): one transaction works on a token at a time and its use stays
available. `Counted` adds `TokenAccounting`, with the peers finite, each
row there because its request has committed, and each row in its token's tenant. `Pool` adds
`PoolDiscipline` with `Chosen` (an address chosen was the lowest free one, and
all below it are used), and `AddrReserved` and `KeyReserved`: an uncommitted
index entry keeps others from committing its key. With them, when a transaction
commits, its old snapshot is still right (`StillLowest`), which gives
`Refinement`: every behaviour of Enrollment is one of Registry. `Truth`, that
answers are true, needs `Told`: what a request has been answered, and that it has
no row until its own commit. `Ordering` is why registrations do not deadlock,
however many there are: they take the token's row, the address and the key in this
order, so `WaitsFor` always leads to a request that is further on, and among any
requests under way one waits for none of the others. `Advancing` adds that every
statement brings its request on, at most five of them to its answer, which is final,
and takes no other back. TLC checks the rest of
`SomeoneProceeds`: that the one that waits for nobody has a statement to execute.

The same module justifies `LowestFree` itself, for AddrScan and any set of prefixes:
`ReturnsLowestFree`, from `PassedAreUsed`: every usable address below the cursor is
used. The property alone says nothing of a loop that is still running. `Climbing`
has the measure behind `Terminates`: an iteration that goes on is nearer to the end
of the block; that time passes, and a natural number does not fall for ever, is left.
For Lifetimes, `GrantedAsAsked` (`LifetimesHold`) rests on two lemmas of arithmetic:
integers that fit are not changed by wrapping, and seconds compare as their nanoseconds
do.

**MembersProofs** proves all safety properties of the run. `Typed` says that what
a request is about exists. `Exclusive` says that a locked row has one holder: of a
member, an invite, a tenant, or of somebody who is joining. `IInv` adds `Held`,
what a request has found out and relies on (the owners it has counted are owners,
the tenant it claims is empty, the invite it redeems has a use left). No step
of another request can change that (`SparedHolds`), because it would have to hold
the same row: whoever deletes a row has locked it, so two owners who were counted
under lock outlive each other's removal, and the last owner stays.

From `IInv` follows `RefinesTenancy` (`TransactionsImplement`): the commits are
Tenancy's steps, as their guards there are what `Held` says of a request at its last
statement, and an owner is left by `DeletesSecond`; every other statement leaves the
tables alone. `Circles` is which deadlocks there are, for any number of requests:
whoever waits for a tenant waits for one that waits for nobody, and whoever waits for an
invite for one that waits for a tenant or for a refresh, so a circle goes through the
rows of members alone, which no request both holds and waits for but the two scans.
Either two of them are `Rivals`, which lock the same rows, or counts and refreshes
alternate in the circle: a count waits for the refresh of a user who owns its tenant,
that one for a count of another tenant, and so on to a second user. It needs `Typed`
(locks are held where their handlers take them, a refresh's on its user's rows),
`Exclusive`, and of `Held` that the rows of a count are its tenant's.

It also proves `LinkMatchesTitle` of MembersPage, with its types, for any number of
mutations at a time. `Linked`: an invite under way is, like the link shown, of the
tenant on the page unless the page has slipped, and neither outlives the page.

**RelayProofs**: `IndexesAgree` and `NoMisdelivery`. The strengthening is that an
unissued token has left no trace (`Fresh`) and that what is being written names
issued sessions (`SendingTrue`); that no other session takes the address in the
meantime rests on there being one read loop. From the same invariant follow the
action property `SessionsLast` (lemma `RegisterMoves`: a registration moves one
session and takes the address from one other at most) and `Refinement`: the maps
implement RelayTable.

For RelayNet, the relay among nodes and faults, it proves that `IndexesAgree` and
`NoMisdelivery` survive restarts, expiry and calls served late (`IndexesSurvive`),
and `UpOnEvidence`, from `Given` (an acknowledgement on its way is of a token the
relay has confirmed; a token in an answer or held by a node was issued to it) and
`Believed` (a node that believes in the relay holds a confirmed token).

**EndpointProbeProofs**: `ClosedOnce` and `VerdictEarned`, from `OneOf` (a call is
waiting, about to be closed or closed, one of them at most), `Probing` (a call
that is probing has a target, and is in `earned` if the target answers now) and
`Earned` (whatever carries a call's reply from its target, up to the closed
channel, was sent after the call began).

**NATEndpointProofs**: `ReceiverNeverBlocks` and `MappingFresh`, from `Awaited` (a
nonce waits only while its call asks, with its channel empty), `HandedOnce`
(whoever is to send removed the nonce first, and there is one of them) and
`AnswersFresh` (whatever carries the nonce was made after the call began).

**PeerSyncProofs**: `InStep` and `PunchFirst`, from `WantIsCurrent` (what is about
to be configured was computed from `wgPeers` as it still is) and `SendersKnow`
(only configured peers are sent to, so unknown ones are not moved by packets).

**WebSessionProofs**: `OnePerLogin`, from `Taken`: a login a callback has taken, or
that made a session, is not there again, and one callback took it. Without the
callbacks that still wait for the provider (`Spent`) the property is not inductive.
`ComesBack` and `UndisturbedLoginsWork` need more of the tabs (`LoginInv`): no two have
the same login (`Owns`), the page the user wants is in the tab's path or in its login's
`returnTo` (`Heads`), callbacks under way are those the tab has sent (`Sends`), and a
login that nothing came between is still there, with its cookie, when its callback
gets there (`Sound`).

**ConsoleProofs** is about two parts of the console.

* Machines: `RunningStaysConnected` for any number of nodes and any fineness of the
  time (`Connected`). `Reports` bounds the age of a running node's report: one
  interval when none was lost, two when one was, counted with `phase`. `Fresh`: what
  the page has of a node it has heard of is as old as that, or a tick older until it
  polls. `Rendered`: who is shown as offline was so by the data at hand.
  `offlineAfter` leaves one minute beyond two intervals for that tick and for the
  browser's clock, hence the hypothesis `Skew < Minute`. It cannot be weakened: TLC
  finds a node called offline at `Minute = 1` with `Skew = 1`. The code does not
  ensure it; it is what the page relies on.
* CurrentTenant: `StaysPut`, from `Shown`: unless another tab has chosen since, or the
  storage did not take it, what is remembered is what is current. `TenantChosen` is
  what `useCurrentTenant` chooses: a tenant is shown exactly when the list that is
  loaded has one (which needs that a non-empty list has an oldest, `Oldest`), of that
  list only, the URL's if the list has it, and one that is neither the URL's nor the
  remembered one is the oldest.

The types of AddrScan, Enrollment, NATEndpoint, PeerSync, EndpointProbe, Relay,
WebSession, MembersPage, Machines, CurrentTenant, Members and RelayNet are proved and not
in the runs' lists.

Only model-checked, as out of the prover's reach: the liveness properties
(`Terminates`, `RequestsAnswered`, `RelayRecovers`, `RecordSettles`, `Settles`,
`ReconnectsUnlessRoamed`, `GetsSomewhere`, `LandsOnJoined`, `RemovedDisappears`,
`StoppedGoesOffline`), which rest on fairness, and `SomeoneProceeds`, which is about
ENABLED. All other properties of the passing runs are proved.

## Disagreements found

What the models show of the code and a reader of its comments may not expect. The
first four and the last have a definition that does not hold, kept beside the weaker
property that does; in the others a property names the case and excuses it.

* **409 without a taken key** (`ConflictMeansKeyTaken` of Enrollment; `AnswersAreTrue`
  holds). Registrations under two tokens of a tenant choose the same address, and
  the one that loses is told that its public key is registered. It is not, and a
  retry would succeed.
* **Reachable by the prober only** (`OthersCanSend` of EndpointProbe; `VerdictEarned`
  holds). `direct_reachable` is meant to say that others can send to the endpoint.
  The probe comes from the socket that the node itself sends binding requests and
  relay registrations to, so behind a stateful firewall, or a NAT that keeps port
  numbers, the second report finds reachable what only the prober can reach.
* **A mapping that changes back** (`Recorded` of NATEndpoint; `Settles` holds).
  `refreshNATEndpoint` compares with the mapping whose report was last answered,
  not with the one recorded. If the answer to a report is lost and the NAT then
  returns to the earlier mapping, nothing is reported again and peers keep the
  wrong endpoint.
* **Roaming off the relay** (`Reconnects` of PeerSync; `ReconnectsUnlessRoamed`
  holds). `syncPeers` never sends WireGuard a target it has sent before. If
  WireGuard roams back to a direct path after both nodes chose the relay, and that
  path then closes, neither node returns to the relay although both are registered.
* **Logging in twice at once.** The second login of a browser overwrites the cookie
  of the first, whose callback is then refused as expired or another browser's,
  which it is not (`disturbed` in `UndisturbedLoginsWork`). A callback answered
  while a logout is under way loses its session cookie to the logout's response.
* **A failed login forgets the page** that was asked for: its error page has the
  default one (`goal` in `ComesBack`).
* **The second 401 nests.** When two requests are refused, the second finds the page
  at `/login` and makes that the page to come back to, which the login page
  unfolds again afterwards (`depth`).
* **Joining during the first fetch.** If a tenant is joined while the first list is
  on its way, the answer without it is kept until the next fetch (`Early` in
  `LandsOnJoined`).
* **A storage that does not work.** When `localStorage` throws, `current-tenant.ts`
  goes on without it: a page without `?tenant=` then shows the oldest tenant, or the
  last one that could be stored, whatever was shown before (`unsaved` and
  `storage = "blocked"` in `StaysPut`).
* **A slipped title.** If the list of tenants loses the current one while the invite
  dialog is open, its link is shown under the next tenant's name (`slipped` in
  `LinkMatchesTitle`).
* **The last node standing still.** The machines page renders when an answer is new:
  if no node reports any more, all stay "Connected" until something else renders
  the page (`StoppedGoesOffline` needs another node that reports).
* **Lifetimes that wrap around** (`LimitsAsStated` of Lifetimes; `GrantedAsAsked`
  holds). `ttl_seconds` is multiplied by a second in 64 bits before it is compared:
  18446744074 is 0.29 s and is granted, where `tokens.go:26` and `members.go:230` say
  that it "must be between 1 and 2592000".

## What is not modelled

* PostgreSQL, WireGuard, NATs, the OIDC provider and React Query are modelled from
  what the code relies on. Isolation is READ COMMITTED as the code uses it, not in
  general.
* Formats, parsing and lengths (`internal/wire`, `parseCIDR`, JSON, limits of strings)
  and cryptography: checks of one value, without state. Tokens,
  nonces, states and codes are distinct values.
* **Node enrolment** (`setup`, `join`): one process that registers as Enrollment's
  requests do and keeps what it got in one file.
* **Node service** (`run`, `stop`): the outcome of races around the PID file and
  `mesh0` is the operating system's more than the code's.
* **The control plane's process**: startup, shutdown and routing. Its restart is a
  fault of RelayNet.
* In PeerSync: peers leaving the list or changing their mesh address, which the
  control plane does not do, and `IpcSet` failing, which it does only when the
  device is closed.
* The names and e-mails that `ListMemberships` refreshes have no value: only the
  members page shows them. Other reading handlers change nothing.
* In the web backend: the mode without login, static files, cross-origin refusals.
  The proxy is the `Serve` of CurrentTenant and MembersPage.
* In the web frontend: what is only drawn (the landing page's text, `components/ui`,
  tooltips, filters), the fields of forms, themes, the clipboard, the health poll.
  The "Cancel" buttons of the dialogs that create, join and claim tenants close
  them without the reset their other ways of closing do; their fields are left out.
* Containers, CI and the Keycloak realm.

## What is left

* A model of `setup` and `join` over Registry, if they are given retries or a journal;
  of the service, if it locks its PID file.
* Abstract specifications of the console's parts (a page shows some past answer, and
  the last one in the end) as refinements; the safety part of what the other liveness
  properties rest on, as `Climbing` is for `Terminates`.
* Larger instances of `web_session` (three logins) and `members_page` (two mutations
  at once).

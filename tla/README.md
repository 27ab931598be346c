# Arete Gateway: TLA+ models, checks and proofs

A verification development for the Arete Gateway (`src/`). It models what the
gateway does with state over time: sessions with realms, the declaration tree
and its replay, events derived from a key cache, webhook queues, event streams,
realm handles, capability tokens and profile lookups. Line references are to
the repository (`realm.js` is `src/src/realm.js`, and so on).

`tlc -config X.cfg M` checks a run, `tlapm M.tla` a proof module;
`PROJECT.json` lists the runs, the source lines each definition stands for, the
hazards, the findings and the theorems.

## 1. The system

The gateway is one Node.js process: a single-threaded event loop. Everything
between two `await`s is atomic; everything else interleaves. It talks to
realms over one WebSocket each (through a patched SDK client), to apps over
HTTP, and persists its state in one JSON file.

| Component | State | Operations | Talks to |
|---|---|---|---|
| Realm session (`realm.js`) | `client`, `state`, `lastError`, `backoff`, retry timer | `connect`, `#onDown`, `stop` | SDK client, event hub |
| Declaration tree and replay (`store.js`, `api.js`, `realm.js`) | `state.tree`, the key cache, the realm itself | PUT/DELETE of nodes, contexts, declarations; property writes; `#register`, `declareOnWire` | store, realm |
| Connection events (`realm.js`) | `knownConns`, `pendingConns`, `prevKeys` | `#onUpdate`, `#trackKey`, grace timer | key cache, event hub |
| Event hub (`events.js`) | ring, sequence number, boot epoch, open streams | `emit`, `subscribe` | streams, webhooks |
| Webhooks (`webhooks.js`) | per hook: queue, `sending`, retry timer, statistics | `put`, `delete`, `#enqueue`, `#pump` | event hub, receivers, store |
| Realm handles (`realm-manager.js`, `store.js`) | `#realms`, `state.realms` | `startFromConfig`, `attach`, `detach`, `stopAll` | sessions, store |
| Capability tokens (`capabilities.js`, `api.js`, `server.js`) | records in the store | mint, use, revoke, expiry | store, key cache, registry client |
| Profile registry client (`registry.js`) | memory and disk cache | `resolve` | registry over HTTP |
| Process (`server.js`) | all of the above | start, stop | |
| Routing, configuration, console, SDK patches | none that changes | | |

What is hard in it: a coroutine that wakes up after its client was replaced; a
replay that awaits between commands while requests change the tree; stores that
change before (PUT) or after (DELETE) a command that may fail; a key cache that
lags behind the commands sent; timers that outlive what they were armed for;
deltas that arrive in pieces and in any order; queues at their cap with an
entry in flight; a permission checked before a body and a registry are awaited;
lookups whose answers overtake each other; a crash or restart between any two
of these. Each is a line of "hazards" in `PROJECT.json`.

What makes each component correct:

* session: exactly one retry timer or client carries a realm on; no zombie
  client; connected and disconnected events alternate; it recovers;
* declarations: what is stored gets to the realm, what was retracted does not,
  and values on the realm are never wiped;
* connection events: each connection is announced once and its end reported;
* event hub: a resumed stream has no gap and no duplicate;
* webhooks: at least once, in order, one in flight, bounded, and it drains;
* capabilities: no write beyond what was granted, and no grant beyond what the
  gateway may write itself; a revoked one stays revoked;
* registry client: no staler than the process, and usable offline;
* together: a receiver learns in the end of every connection, in an order that
  makes sense;
* realm handles: one per host, nothing answered is lost, nothing stray runs.

## 2. Modules

### RealmSession, RealmConnection, RealmConnectionProofs

`RealmSession` is the promise: down, up or detached, with the count of events.
`RealmConnection` is `connect()` as a coroutine per client (`pc`: where it
waits), the client's socket (`sock`), the snapshot promise (`snap`), and the
fields of the object. Actions are the handlers and wake-ups: `OpenSeen`,
`OpenTimesOut`, `SnapshotSeen`, `SnapshotRejects`, `Registered`,
`RegisterRejects` continue the coroutine; `SocketError`, `SocketCloses`,
`SnapshotTimesOut`, `RetryFires` and `Stop` are the callbacks. `OnDown` and
`SessionUp` are shared pieces of several actions, as in the code. `Stale` is
the closure `stale()`; the catch blocks write `lastError` even when stale, and
so does `Abandon`. Errors are two classes, by the test `/401|403/`, and each
failure cuts the doubled wait at the cap of its own class. So the wait depends
on the order of the failures: `BacksOff` names it by the class of the latest
one (`failed`) and by `climb`, which restarts at the ordinary cap with every
ordinary failure.

The socket and the realm are the environment. Everything that goes wrong there
takes one of `MaxFaults` faults. A realm can fall silent at any time, also in
the middle of a registration, whose commands have no timeout of the gateway's:
`connect()` then waits for ever. The patched SDK pings and awaits no pong, so
that only a socket error ends this. `Recovers` excuses that state and no other
(`AwaitsSilentRealm`). An established session on a silent socket counts as up.

### Declarations, DeclarationsProofs

The store's tree (`stored`), the session (`phase`), the key cache, the replay
(`agenda`: what its three loops captured and have not done; `replaying`: the
command it awaits), API requests (`handler`), commands and answers in flight
(`wire`, `inbox`), and the realm (`declared`, `value`). A PUT stores and then
sends (or answers 202 and sends nothing), a DELETE sends `purge` and stores
afterwards; the continuation of each runs when the reply is delivered. Loop
entries are captured when a loop is entered, as `Object.entries` does.
`LoopFree` keeps everything else out while the replay is between two awaits.
A property write checks its declaration, waits for its body and the registry,
and is sent then (`PropertyRequested`, `PutProperty`).

The realm executes in the order of sending. `DeltaFirst` says whether the key
deltas of a command reach the cache before its reply; `FALSE` allows both
orders. With a late delta a DELETE followed by a PUT still finds the old
version key and skips the declaration. Five history variables name what the
properties have to excuse: `late` (first stored during a replay), `stale`
(skipped on the key of a predecessor that was gone), `refused`, `cut` (the
declaration was executed, and its initial values were refused or the session
was lost before them; a new declaration clears it), and `overtaken` (last
written to by a command sent behind a DELETE over it).

A lost session takes the commands in flight with it. `dispose()` settles no
promise, so a request that awaits a reply then waits for ever: `LoseSession`
gives its place to other requests and never goes on with it. No property says
that requests end, because they need not. A crash and restart of the process is
the same step: what is stored survives, what is in flight does not.

The gateway does not serialise requests. With two at a time a PUT sent behind
the DELETE of its parent leaves an orphan on the realm (`NoOrphans` is
refuted). `OrphansWereOvertaken` says that this is the only way to get one:
what is on the realm and not in the store was last written to behind a DELETE
over it.

### ConnectionEvents, ConnectionEventsProofs

One connection is two keys: the attribute naming its peer and a property. The
realm binds, writes and severs it key by key, in deltas of one or two keys in
either order. `Schedule`, `Fire`, `Sever` and `Change` are the branches of
`#trackKey` and its helpers as functions of one connection's view; `OnUpdate`
folds them over the keys of a delta, whose values are merged in the cache
first. `SessionUp` is the baseline of `prevKeys` and the initial scan.
`knownConns`, `pendingConns` and the grace timers survive a lost session. Not
in the repository, and assumed: a removed key leaves the SDK's key cache.
`stray` names the connections that went without a delta to tell of it.
`Restarted` is the end of the process, used by Gateway.

### Mailbox, Webhooks, WebhooksProofs

`Mailbox` is the promise of one registration: events are offered in order and
leave in order, taken by the receiver or given up and counted. Only after a
full queue pushed out an event that was being delivered (`crossed`) may one be
misplaced or lost uncounted. In `Webhooks` every registration owns a box
(queue, delivery in flight, timer); `#pump` holds on to its box across the
await, so that a box outlives its registration. Boxes are numbered per hook.
`Pump`, `Trim`, `Enqueue`, `Succeed`, `GiveUp` and `RetryLater` are the code's
branches as functions of a box; actions apply them. `old` is the age limit:
events up to that number were queued more than 24 h ago.

### EventHub, EventHubProofs

The ring, the streams, and clients that lose what is on its way when a stream
closes and come back with the last id they saw; restarts begin a new epoch.
`ReplayFrom` is the index behind which the replay of a reconnect starts, and
`Pick` takes the elements of the ring at a set of indices. The code filters the
ring; a recursive `SelectSeq` cannot be reasoned about by the prover, so `Pick`
says the same without recursion, and `PickSelects` (an assumption TLC evaluates
in `MCEventHub`) compares the two on every ring up to length 3 and every filter.

### RealmManager, RealmManagerProofs

The handles, the store in memory and on disk, restarts, and saves that throw.
A declaration request that found its handle and waits for its body is in
`writers`. config.json is read at every start (server.js:19, 127), and editing
it is the documented way to remove a realm of it (realm-manager.js:66): `Start`
chooses it anew from `Configs`, which in the run is everything it can say. That
has two consequences, which the properties excuse by name. `dropped`: nothing
forgets the declarations of a realm removed from config.json. `hidden`: a realm
that was stored, and that config.json has put on another host, comes back on the
stored one when its entry goes, whoever has that host by then.

### Registry, Capabilities, CapabilitiesProofs

`Registry` is `resolve()` for one profile as steps of a caller: `Ask`, the
registry's answer (`Serve`), and what the caller makes of it: `NotFound`,
`Found`, or the fallback on the file after a timeout or another failure
(`GivesUp`) or a write that fails (`WriteFails`). Every caller has a request of
its own, so answers overtake each other. A profile is a sequence of versions;
`FlagsOf` merges them. It assumes that versions are only added
(`RevisionsAssumption`, registry.js:72).

`Capabilities` extends it by the callers. A request of a device or of an app
runs up to its first await (`DeviceWrites`, `MintBegins`), goes on when its body
has come (`WriteArrives`, `MintArrives`) and after each lookup of the profile
(`ProfileResolved`). A mint checks its properties in a loop, one lookup each:
`todo` is what is left, and other requests, or a change of the profile, come in
between (`MintContinues`). A device's write then awaits the realm, which may
answer (`RealmAnswers`) or lose the session first; after that the request waits
for ever (`lost`). In between the capability may be used, expire or be revoked,
the connection severed, the profile changed and the process restarted.

`stored` is the store's memory and `kept` the file: each save succeeds or throws
and leaves the file as it was. So a token may have been minted but not `shown`,
and a revocation asked for (`withdrawn`) but not answered (`revoked`). `wrote`
records the last write with what held when its request began and when it was
made. A connection stands for its whole scope, from realm to connection id.

### Gateway, GatewayProofs

Composes ConnectionEvents and Webhooks: `hub.emit` runs the fan-out before it
returns (events.js:39), so the step that derives an event enqueues it. Restarts
end both at once: queues, known connections and timers are gone, hooks come back
from the store before any realm is started (server.js:21-30, 125-128).

The created and deleted events of one connection are told apart. All others, of
other connections or of `test()`, are `other`: any hook may select them, and
they fill the queues, push events out of them and are in flight in turn
(`OtherEvent`). When an overflow hits a delivery in flight, `connection.created`
can be the event that is lost uncounted, with `connection.deleted` delivered
after it (`CountedBeforeDeleted` is refuted). `Crossed` names exactly the
events that left such a queue uncounted; both properties excuse them and
nothing else.

### MC modules and mutants

`MC*` modules extend a module with the values a `.cfg` file needs (functions,
symmetry sets). A definition marked `mutant` is a plausible mistake in the
definition below it; putting it in that place makes the property named in
`PROJECT.json` fail, which shows that the property depends on the code it is
about.

## 3. What is checked

| Run | Question | Bounds |
|---|---|---|
| RealmConnection | Safety of the session in every interleaving; it implements RealmSession; it recovers | 4 clients, 3 faults, backoff 1/3/6 |
| Declarations | Value protection and order of the replay; is what is stored on the realm, and is what is on the realm stored? | 3 paths, 2 requests, 2 faults, any delta order |
| DeclarationsOne | Two declarations of one context: initial values written, declared in the end | 4 paths, 1 request, 2 faults |
| ConnectionEvents | Announced once and in the end, nothing missed, deleted means gone and is told | 2 connections, 2 values, 1 lost session, 2 deltas in flight |
| Webhooks | Every registration is a Mailbox; never stalled; drained | 1 hook, 2 boxes, queue of 2, 5 events |
| EventHub | A resumed stream has every event the ring had, in order, once | 2 clients, ring of 2, 3 events per process, 2 processes |
| RealmManager | No stray connection, durability, trees go with realms, who shares a host | 2 names, 2 hosts, any config.json at each start, 4 connections per name, 1 failed save |
| Capabilities | No write beyond the grant, no grant beyond the profile, answered revocations and tokens last, fresh and offline lookups | 1 capability, 2 connections, 2 properties, 2 requests, 2 revisions of the profile, 2 processes, any save may fail |
| Gateway | Does the receiver learn of the connection, in an order that makes sense? | 1 connection, 1 hook, 1 lost session, queue of 2, 5 events, 1 of them another one, 2 processes |

Why the bounds suffice: what goes wrong takes two or three actors. Three
clients give a stale coroutine, a current client and a successor; a fourth
shows that the pattern repeats. One declaration below a context below a node
has every level of the replay, and two requests plus the replay every pair. A
queue of two is full with one entry in flight; two boxes are a registration and
its successor; three events overflow it. Hooks share nothing but the events, so
one hook is enough. A ring of two turns over with three events. Two connections
show that the state of one is not touched by another. Four connections per name
are three restarts and an attach between two of them: hiding a stored realm,
taking its host and bringing it back takes as many. Capabilities share nothing
but the registry, and two requests can be a use and another use, a use and a
mint of the next, or two lookups that overtake each other; the second revision
takes a property from one role and gives it to the other. In Gateway one
connection makes two events per process and another after each restart; with one
other event the queue of two overflows, also in the middle of a delivery.

`CHECK_DEADLOCK FALSE` stands where the system may stop: a stopped connection
with its sockets gone, connections all severed and announced, a gateway at the
bound of its restarts or events.

Fairness. The event loop turns (`ReplayStep`, `ReplayDone`, coroutines, read
deltas), timers fire, sockets that dial open or fail, requests end within
their timeouts: weak fairness of those actions and of no fault, no API request
and no `stop`. `Connect` in Declarations and `Snapshot` in ConnectionEvents
stand for the session, whose recovery is `Recovers`. Time itself
(`Age` in Webhooks) is strongly fair: 24 h pass although requests come and go.
Bodies, the registry and the answers to a device's write may never come: no
fairness is assumed in Capabilities, whose properties are safety. Gateway
assumes what its two components assume.

### What the documents say and the code does not do

Three runs end in a counterexample, and are findings in `PROJECT.json`.

| Run | Property | Counterexample |
|---|---|---|
| RealmConnectionRefused | `ErrorMeansRefused` | After one 401 and a recovery, an ordinary drop is an `error` with the long backoff: `lastError` is never cleared |
| DeclarationsRetried | `AckedIsDeclared` | A failed declaration is answered `declared` on retry without being sent |
| WebhooksOverflow | `NeverSilentlyLost` | A full queue drops the entry in flight, and the answer shifts the next one uncounted |

Others are stated in the modules, next to the properties that hold, and no run
is kept for them. TLC refutes each when it takes the place of the property of a
run:

| Statement | In place of | Counterexample |
|---|---|---|
| `DeclaredAndForgotten` | any invariant of Declarations | A PUT during a replay is missed by it, answered 202, and stays off the realm; `NothingForgotten` excuses exactly this (`late`), refusals and stale keys |
| `InitialValuesApplied` | `AckedIsDeclared` in DeclarationsRetried | A session lost after the declare command leaves the initial values unwritten for good; `InitialValuesKept` excuses exactly this (`cut`) |
| `WritesOutlastInitial` | any invariant of Declarations, as a property | An initial value overwrites what another request wrote meanwhile |
| `NoOrphans` | any invariant of Declarations | With two requests at a time, a PUT during the DELETE of its parent, or of its declaration, leaves an orphan on the realm; `OrphansWereOvertaken` excuses exactly this (`overtaken`) |
| `OneInFlight` | any invariant of Webhooks | Delete and register again: two deliveries in flight, and older events behind newer ones |
| `NoPhantom` | `DeletedMeansGone` in ConnectionEvents | A connection severed during the grace period is announced afterwards |
| `SeveredIsReported` | `DeletedMeansGone` in ConnectionEvents | A connection severed while the session is down is never reported |
| `CreatedFirst` | any invariant of ConnectionEvents | `property.changed` precedes `connection.created` |
| `ConfigRealmStays` | any invariant of RealmManager | Re-PUT of a configured realm makes it detachable |
| `RePutKeepsConnection` | any invariant of RealmManager, as a property | An identical re-PUT reconnects |
| `AttachedApart` | any invariant of RealmManager | A realm of config.json is moved over the API to host B; a restart puts it back on its old host; another realm is attached to B; the entry leaves config.json, and the next restart starts both on B; `OneHandlePerHost` excuses stored realms that config.json has so hidden (`hidden`) |
| `NoTreeAlone` | any invariant of RealmManager | A realm is removed from config.json: its declarations stay for the next realm of that name; `TreeFollowsRealm` excuses the names so removed (`dropped`) |
| `BoundAtUse` | any invariant of Capabilities | The connection is severed while a write waits for its body: the write is made, and may bring a key of the connection back |
| `NeverRevived` | any invariant of Capabilities, as a property | The save of a revocation throws: the record is gone from memory and, after a crash, back from the file |
| `OneVersion` | any invariant of Capabilities | The profile changes between the checks of two properties of a mint: no version allows both |
| `CountedBeforeDeleted` | `CreatedBeforeDeleted` in Gateway | A full queue pushes out an event in flight, whose answer shifts `connection.created` uncounted; `connection.deleted` is delivered |

`OneHandlePerHost` also excuses a handle of config.json: nothing compares its
host with those that were attached, and it may name one host twice.

## 4. What is proved

Eight modules hold the theorems. They hold for every value of the constants that
satisfies the named assumptions: any number of realms, clients, paths, hooks,
requests, faults and restarts, any queue, ring and backoff. Each follows from an
inductive invariant `Inv` along the same lines: `Init => Inv`, one lemma per
action that preserves it, and a temporal step. TLC checked each `Inv` on the
instance of the component's run before it was proved. Every invariant and every
action property of a passing run has a theorem.

| Module | Theorems | Assumptions |
|---|---|---|
| RealmConnectionProofs | `TypeCorrect`, `OneLifeline`, `NoZombies`, `EventsBalance`, `ScheduleHolds`, `Refinement` | at least one client; the backoff starts at 1 or more |
| RealmManagerProofs | `TypeCorrect`, `NoStray`, `AnsweredIsDurable`, `TreesFollow`, `HostsApart` | none on what config.json says |
| DeclarationsProofs | `TypeCorrect`, `NeverWiped`, `FollowsTree`, `NothingIsForgotten`, `InitialKept`, `OnlyOvertakenOrphaned` | declarations below contexts below nodes; the replay is no request |
| ConnectionEventsProofs | `TypeCorrect`, `NoneIsMissed`, `PrevMirrors`, `CreatedAtMostOnce`, `DeletedIsGone` | "no value" is no value |
| WebhooksProofs | `TypeCorrect`, `NoStall`, `BoxesAreMailboxes` | the queue holds one event or more |
| EventHubProofs | `TypeCorrect`, `Resumes` | the ring holds one event or more |
| CapabilitiesProofs | `TypeCorrect`, `Fresh`, `Narrow`, `NeverWidens`, `Revoked`, `TokensKept`, `WorksOffline` | versions of a profile are only added |
| GatewayProofs | `BeginningFirst` | one connection; the queue holds one event or more |

Why the properties are not inductive by themselves, and what is:

* **RealmConnection.** That an action leaves exactly one lifeline
  (`SingleLifeline`) needs to know that a socket which closes belongs to the
  current client (`NoZombieClient`), that the current client exists exactly
  when the connection is not between two attempts, and how `state` follows from
  `stopped`, `client` and `pc` (`StateAgrees`). `BacksOff` compares the delay
  with a history of the failures since the last session, case by case of the
  latest one; it rests on `Schedule`, which says what the cases share: the
  delay is `climb` cut at the larger cap, and `climb` is never behind the
  doubling cut at the ordinary one. `Refinement` maps `phase` to `state` and
  shows that `Registered` is `ComeUp`, `OnDown` is `GoDown` or a stutter,
  `Stop` is `Detach`, and everything else leaves the session alone.
* **RealmManager.** Memory and file drift apart when a save throws. `InStep` says
  what they agree on while none has: the same realms, each with a handle on its
  own host unless config.json hides that; `HostsStored` carries this over a
  restart, under any config.json. `Remembered` says what a request that was
  answered has left in memory, `HandlesStored` and `TreesStored` which realms
  the store or config.json must know, `WritersHaveRealm` and `WritersRun` what
  a request waiting for its body can still count on.
* **Declarations.** Three parts. Who awaits what: every command under way and
  every reply has one owner that awaits exactly this one (`Alone`, `Held`,
  `OnTarget`), and a session that is down has nothing under way (`Sessions`).
  What the replay has to do: it goes down the tree and comes to nothing twice
  (`Descends`), below parents that are on the realm (`Rooted`), and a
  declaration it has not come to and that is on the realm has its version key
  in the cache (`Reported`, `Spared`), so that it is skipped. What is promised:
  a stored path that is not on the realm is one the replay will come to, or a
  command or an answer about it is under way, or it is excused (`Remembered`),
  and the same for initial values (`Promised`). `OnlyOvertakenOrphaned` adds
  `Tidy`: unless it was overtaken, what a command under way writes to is stored
  (`Kept`), it is ahead of any DELETE over it (`InOrder`), and when the answer
  of a DELETE is on its way nothing of its subtree is left on the realm or
  still coming there (`Emptied`), so that the store may forget it.
* **ConnectionEvents.** `CatchesUp`: the deltas under way lead from the cache to
  the realm. `InboxOK` and `LivesOK` say which deltas there can be for a
  connection not yet bound, bound or severed, and `AnnouncedOnce` that "known",
  "pending" and what was emitted agree.
* **Webhooks.** `BoxesOK`: the event in flight is the head of its queue, or it
  was pushed out, which was counted and recorded (`crossed`). The refinement
  maps every box of every hook to a Mailbox; a box that outlives its
  registration goes on to refine it. `Unmade`: boxes not yet made are blank.
* **Capabilities.** `RegistryInv` (what the memory, the file and the answers
  under way can hold), `Tokens` (what a stored record was minted for),
  `Requests` and `Waiting` (what a request may still rely on of what it checked
  before it waited).
* **EventHub.** `RingRuns`: the ring is the latest events, numbered without a
  gap. `Settled`: a client that has seen an event has seen every one it is owed
  before it; `Served`: a client that is connected has seen, or is about to see,
  every one it is owed. `InOrder` relates what was seen to what is on its way.
* **Gateway.** `KnownTold`: the gateway knows a connection only after it emitted
  "created". `InTime`: a box that was there in time is offered "created" before
  any "deleted" (`Opens`). `BoxOK`: a queue is in order, what has left a box is
  older than what waits in it, and without a crossing everything offered waits,
  was delivered or was counted. So when "deleted" has left a box, "created" has
  left it before. This holds for queues of any size and any number of other
  events. Conns is one connection; two are not told apart.

Only model-checked:

* liveness (`Recovers`, `EventuallyDeclared`, `Drains`, `EventuallyTold`,
  `EndToEnd`): fairness and ENABLED are beyond the prover here;
* `Pick` being the filter of the code, for every ring: an induction over data.

`BalancedEvents` has a theorem and no run of its own: `ImplementsSession`
implies it.

## 5. Not modelled

HTTP routing, validation and views, the console, the configuration file's
parsing and the SDK's wire format change none of the state above. The identity
of a peer, the origin of a change, signatures, labels, hashes and record contents
are data no property here depends on. That a lookup ends is left to the timeout
of `fetch` (registry.js:34). Requests served during the two seconds of
a shutdown are left out. A handle that a re-PUT replaces while a request holds
it is left out of Declarations, which has one handle. The store's recovery from
a file that does not parse (it starts empty) is left out: `save()` renames a
complete file into place. The registry client is modelled for one profile, since
profiles share nothing but the code.

## 6. Plan

Done, in this order: RealmSession and RealmConnection with their proofs, then
Declarations, Webhooks, ConnectionEvents, RealmManager, EventHub; then Registry
and Capabilities, the abstract Mailbox, and the composition Gateway; then the
proofs of all of them.

1. A conditional-declare register as an abstract specification that
   Declarations implements.
2. Two connections told apart in Gateway, and a stream client next to the hook.

# A formal model of yappa-core

TLA+ modules, TLC configurations and TLAPS proofs for the WebSocket server in `src/`: a
multi-tenant chat server of which several nodes run behind a load balancer and share Redis,
Kafka and Postgres. Paths below are relative to the repository; `ws.rs` is
`src/server/ws.rs`.

`PROJECT.json` lists the runs, the mutants (a plausible bug for each property, which the
property must detect), the source lines behind each definition, the findings, the hazards and
the theorems.

## 1. The system

| component | state | operations | talks to |
|---|---|---|---|
| tenant limiter (`limits/mod.rs`) | in Redis: the set `online:{t}`, the counter `conncount:{t}:u` | `acquire`, `release`: one Lua script each | called by `ws_handler` before the upgrade, and by the `ConnectionGuard` in a spawned task |
| connection registry (`connection/mod.rs`) | per node: `inner`, tenant → user → connection → bounded sender; `groups`, tenant → group → users | `insert`, `remove`, `send_msg_to_user`, `send_msg_to_group`, `join_group`, `leave_group`, `create_group`, `delete_group` | called by connections, guards, heartbeats and the Redis listener, on several threads |
| connection (`ws.rs`) | send task, receive task with heartbeat, guard | connect, handle a message, ping, time out, close | all of the others |
| group commands (`ws.rs`) | rows of `groups` and `group_members` | JOIN, LEAVE, CREATE, DELETE | Postgres, then the registry, then a PUBLISH |
| pub/sub (`redis/mod.rs`) | per node: a listener task and what Redis has sent to it | `publish`, `publish_grp`, `listener` | applies joins to the registry, and fans messages out |
| persistence (`kafka/`, `db/mod.rs`) | topic, offsets; per node: a buffer; table `messages` | `produce`, the consumer loop, `flush_batch`, `commit` | Postgres; shut down by `app.rs` |
| direct persistence (`ws.rs`, `db/mod.rs`) | none between messages | `persist_message` | Postgres |
| history, group list (`server/`) | none | two queries | Postgres |
| authentication, protocol, configuration, health | none | pure functions and set-up | |

Where the difficulty is:

* **Shared state without a lock around a whole operation.** Redis is atomic per script, the
  registry per DashMap guard, Postgres per statement. Every operation of the server is a
  sequence of these, with awaits in between at which the end of the connection aborts it.
* **Failure.** An acquire that fails is admitted (fail open); a release that fails is logged;
  a failed insert is logged and its offsets are committed; a failed PUBLISH is logged.
* **Crash and restart.** A node loses its registry, its buffer and the releases it owes;
  Redis, Kafka and Postgres keep their state.
* **Order.** The releases of a user's devices run in tasks of their own; a join event comes
  back to the node that published it; the commit sends the position of the consumer, not the
  offset of the batch.
* **Bounds.** Channels of 256 messages, batches of 500, 250 ms; a cap of users per tenant.

What makes each component correct, in one line each:

* limiter: the connected users of a tenant never exceed the cap; a user's further devices
  are always let in; users who have gone do not keep their place.
* registry: an open connection that nobody removed can be found; one that is over cannot; no
  deadlock; a slow client is disconnected rather than given a stream with a gap.
* groups: a member of a group is one on every node, and in the table that the group list counts;
  a user who left is one nowhere.
* persistence: what is committed in Kafka is in Postgres; everything gets there, in time.
* delivery: what Redis carries out gets to everyone it is for, on every node, in order, and to
  nobody else; what a handler has sent is stored.
* connection tasks: a client that answers is not dropped, one that is silent is, and a
  connection that is dropped comes to an end.
* history: a reader who scrolls back sees everything once, newest first.

## 2. The modules

In the order in which they are best read:

| module | models | proofs |
|---|---|---|
| `TenantCap` | the promise of the limiter: one central set of sessions | |
| `TenantLimiter` | limiter and the part of a connection's life that uses it | `TenantLimiterProofs` |
| `ConnectionRegistry` | the connections of one node's registry, guard by guard | `ConnectionRegistryProofs` |
| `GroupMembership` | groups on all nodes, in Postgres, and the events between them | `GroupMembershipProofs` |
| `DurableLog` | the promise of persistence: a log, a mark in it, and the table | |
| `KafkaPersistence` | the consumers of all nodes, one partition, the table | `KafkaPersistenceProofs` |
| `BatchTimer` | the timing of the consumer loop | `BatchTimerProofs` |
| `ConnectionTasks` | the two tasks of a connection, in discrete time | `ConnectionTasksProofs` |
| `Delivery` | messages from the handler through Redis to devices, and into storage | `DeliveryProofs` |
| `History` | the table of messages and a reader who scrolls through it | `HistoryProofs` |

How they fit together: `Delivery` composes handlers, Redis, the listeners, the registries of all
nodes and storage. It takes each of these at the grain that its properties need and leaves the
finer one to a module of its own: the locks and channels of a registry to `ConnectionRegistry`,
the statements of the group commands to `GroupMembership`, the time a task takes to
`ConnectionTasks`, and what becomes of a stored message to `KafkaPersistence` and `History`. The
place a connection takes in its tenant is `TenantLimiter`'s.

`MC*` modules instantiate them for TLC. Operators with the comment "Mutant" are faulty
variants of the definition they precede; no specification uses them.

### TenantLimiter

A script is one step (`AcquireGrant`, `AcquireRefuse`, `ReleaseScript`). Around it, the
connection has a phase: the script not run, run with its reply on the way, admitted but
without guard, live, releasing. `AcquireError` is the failing command, before or after
the script; `Cancel` is the request dropped by axum, or an upgrade that fails, before
`handle_socket` makes the guard; `NodeStop` is a crash or a shutdown, which does not wait
for upgraded connections. `Vanish` is what these have in common: connections that end
without a release. `leaks` counts the references lost that way. Time to live of
keys is not modelled because the code sets none. An acquire that was given up runs before the release of
its connection or not at all: only a dropped connection to Redis could bring them out of order.

A connection's slot may be used again once idle, so that executions are unbounded; only faults
are bounded (`MaxFailOpen`, `MaxLeaks`).

`TenantCap` knows the sessions and how many of them were admitted without a decision of Redis:
each of these loosens the cap by one user. `CapSpec` maps the connections that hold a place
(from the script's grant to its release) to sessions and `failOpens` to that number.

The properties say what a failure costs rather than assume that there is none: the cap and the
counts hold up to `failOpens`, the online set is exact up to `leaks`. Only `MultiDevice` is
about executions without fail-open; one is enough to break it (see below).

### ConnectionRegistry

The pc of a task (a guard running `remove`, or a sender running `send_msg_to_user`) says which
DashMap guards it holds; a removal of an entry waits until no task holds a guard of it.
A read guard on the tenant's entry keeps `insert` out, as `insert` holds the write guard of that
entry for its one statement. DashMap locks shards; the model has a lock per entry, which
has every interleaving that shards have, shards only exclude more. (Two entries of one map
are never locked by one operation, so that shards add no cycle either.)

A send task leaves its loop when its channel is drained and dropped, or a write fails or takes
longer than SEND_TIMEOUT; it then closes the socket (`Shuts`). That close has no timeout: it ends, as
`Disconnect`, at any time or never, and until then the channel takes what it has room for.

The iteration over a user's connections visits them in any order, and connections that other
tasks remove meanwhile are not visited. `Rank` counts what an operation has still to do, the
connections to be visited and evicted included.

### GroupMembership

A command is cut at its awaits: the SELECT, the INSERT, the registry, the PUBLISH. `Disconnect`
may come between any two of them, as the end of either task aborts the other. What an aborted
handler was waiting for, and a statement or PUBLISH that failed, may have been done, be done at any
later time, or never (`GiveUp`, `adrift`, and the `Land` actions). Redis keeps an
inbox for each listener that is on; `Listen` takes the first event. `Restart` is the
end and the start of a process, with an empty registry and a listener that is
not subscribed yet.

A conversation id is a Uuid (`Convs`). `Parse` says of which Uuid a name is a spelling, if of any;
several names may spell one, and it may be one that the server draws (`Ids`): messages carry their
conversation_id to clients. A client cannot know an id that is not drawn yet (`Known`); that
Uuid::new_v4 returns no Uuid twice, nor one that a client had written before, is the one assumption
about it. A name that is no Uuid gets a new id from each CREATE and each message. The tables
keep their constraints: `convOf` is a function of the name (unique name), no two groups have one id
(primary key, in `Refused` and `Backfill`), and a row refers to a group (foreign key, in `InsertRow`
and `Refused`). LEAVE deletes by the Uuid it parses, which may be the row of a group with another
name (`DeleteRow`).

The three history variables say what the properties are about: `due` (joins published while a
node listened), `left` (LEAVEs that no other command of the user followed or overlapped, and no
late join undid) and `waived` (members whose row was refused, failed or deleted by a DELETE that found
it, and is not there since).

`Chat` is a group message as far as the tables see it: its conversation id, its group and its
sender. `Backfill` is what migration 003 makes of those at each start of a node, while the
other nodes go on: `Restart` takes any subset of them, as some may be on their way through Kafka
still, or lost. A start whose migration the primary key refuses does not take place; nothing else
depends on it. A migration is taken as one step, since nothing of this node runs yet, and a
statement of another node in between comes to the same as before or after it.

### KafkaPersistence

A node's loop is in its select, awaits an insert, or has one behind it and commits. `Commit`
puts the consumer's position on its way, `CommitLands` is the broker's side. Kafka is
external: a log, a committed offset, an owner, and the fencing of commits of earlier
owners. A node that loses the partition keeps its buffer, as the code has no rebalance callback.
Message ids are offsets: a redelivered message has the id it had. `Shutdown` stores the permit
of the Notify; `Exit` may follow at once, because `run` in `app.rs` returns without awaiting
the consumer. Payloads that do not parse are left out: only `persist_message` writes to the
topic.

`DurableLog` knows the log, the mark up to which nothing will be delivered again, the messages
that were handed to the database, those that are stored, and whether anything has failed. A batch
is stored whole and once (`Store`), or given up, which takes a failure (`GiveUp`); the mark moves
forward over messages that were handed over (`Advance`). `LogSpec` maps the committed offset to
the mark and the first fault to the failure. That commits of several owners never move the mark
back, and that no batch meets its own messages in the table without a failure, is what has to be
shown.

### BatchTimer

One buffer in discrete time. The select prefers the deadline, so that a message arrives up to the
instant before it. Each turn of the loop makes a new deadline (that of a record that does not parse,
too, which is left out as in `KafkaPersistence`), and the sleep after an error
is part of a turn.

### ConnectionTasks

One connection: the channel between registry and send task, the two tasks, the socket, and the
guard. Time passes only when neither task can run (`Ready`), so that the runtime is taken to be
faster than a tick; writes, closes and handlers take any time, writes up to `SendTimeout`. The
interval is tokio's: its first tick is due at once, and missed ticks come in a burst (`next`
is negative while some are overdue). The select picks a frame or the heartbeat, as the code's
does, at random. `excuses` notes what may cost a client its connection although it answers.

### Delivery

A handler makes a message (`Begin`), publishes it, a DM twice, and persists it; each PUBLISH and
each store is a step, and may fail, or be cut off by the end of the connection, with or without
effect: a call that was given up may be carried out later (`adrift`, `Land`). Redis keeps the
order in which it carries calls out; every listener that is on gets all of them. `Listen` is the
whole of the listener's turn: a join is applied, then fanned out. `got` is what was put into a
device's channel since it connected. `due` notes, when Redis carries a message out, the devices
it is for.

`sent` is a log of all messages, whose index is the message_id: a message is a kind, a tenant, an
addressee and a sender. The text, the ids of conversations and the timestamp are left out.

### History

`Send` stamps a message, `Insert` is one INSERT of any set of stamped messages, in any order, as
the handlers and consumers of several nodes get to it. `Page` is one answer: the newest rows
before a timestamp, with any choice within a second that the limit cuts; the next query asks
for what is before the oldest timestamp shown. Time is in whole seconds, which is what the
handler's clock, the stored column and the answer have.

## 3. What the runs check

| run | bounds | properties |
|---|---|---|
| `limiter` | 4 connections, 2 tenants, 2 nodes, cap 1, 2 fail-opens, 1 leak | `TypeOK`, `OnlineIffCounted`, `CapInRedis`, `CapOnConnectedUsers`, `HoldersCounted`, `NoStaleUser`, `MultiDevice`, `CapSpec`, `UserGoesOffline` |
| `registry_safe` | 2 connections of 1 user, 2 senders of 2 messages, capacity 1 | `GoneIsUnregistered`, `NoEmptyUser`, `UserGcSafe`, `NoGap`, `OpsAdvance` |
| `registry_live` | the same with 1 message | `OpsComplete`, `DroppedEnds` |
| `groups` | 2 users, each with a device on a node of its own, "general", a group with a name and one named by the text of an id that is drawn, 2 ids, 3 commands or messages, 1 fault of any kind | `JoinReaches`, `RowBacked`, `NoStrangers` |
| `groups_devices` | 1 user with a device on each of 2 nodes, "general", 3 commands or messages, 2 faults of any kind | `LeaveHolds`, `JoinPropagates` |
| `kafka` | 2 nodes, batch 2, 3 messages, 2 stops, 1 rebalance, 1 error of each kind | `TriedBeforeCommitted`, `FaultlessCommitsPersisted`, `EventuallyPersisted`, `LogSpec` |
| `timer_bound` | batch 4, wait 3, pause 4, 2 errors | `AgeBounded` |
| `tasks` | interval 3, timeout 6, send timeout 1, 2 ticks to answer, channel of 2, handlers of up to 10 ticks, up to 5 ticks of overdue heartbeats | `TypeOK`, `NoFalseTimeout`, `SilentDetected`, `EvictedEnds` |
| `delivery` | 2 devices of 1 user on 2 nodes, 1 user in another tenant, 2 groups, 1 device that sends 2 commands or messages, 1 fault of any kind | `NoMoreCopies`, `TenantsApart`, `InOrder`, `SameOrder`, `ReachesDevices`, `StoredUnlessCut`, `Delivered` |
| `history` | 2 channels, 4 messages in 3 seconds, limits -1, 0, 1, 3 and none, default and maximum 2 | `PagesGoBack`, `OnlyCutsSkip`, `ScrollEnds` |

Runs with a liveness property check it under `FairSpec`, and the safety properties with it. The
type invariant of each module is a theorem (`TypeCorrect`, section 4); `limiter` and `tasks` check
theirs as well.

Why these bounds are enough. The cap is reached and exceeded by one user with room
for a second device on a second node; two acquires that fail open let the release of one
uncounted connection hit a counted device, and that of another one the next; the leak lets a
lost reference of one device meet the live one of another. Channels of one message make every second
send meet a full channel; two senders and two guards are all the roles that the locks tell
apart. Three commands are a JOIN, what undoes it and one more, on two nodes: a restart in the
middle makes the subscribed and the starting listener meet, and a CREATE that is cut off and
repeated changes the id of a group. In `groups` the third name is the text of one of the ids that
CREATEs and messages draw, so that a client can name a group by it, or send LEAVE with it; nodes may be
swapped together with their users and devices (SYMMETRY; the properties there are invariants and one
property of single steps). In `groups_devices` "general" is enough, since what is checked is
the registry and the events, which treat all names alike; the second fault lets a join of one device
be given up and land after the LEAVE of the other, with one more failure. Batches of two with three messages give a full batch, one
flushed by the timer, and a redelivered message next to a new one. The ticks of `tasks` keep the
code's ratio of interval to timeout (15 s to 30 s); handlers of up to ten ticks reach beyond the
timeout, and the bounds on frames and overdue heartbeats leave a burst of two ticks with frames
that compete with it. Two messages of one sender are what order, copies and a join before a message
need, and one fault at any place tells its effect; a call that was given up and lands late gives a
second source of messages to a group, which is what `SameOrder` needs. A second sending device
makes the run too long to keep; `SameOrder` holds there too, and the theorems cover any
number. Four messages in
three seconds give a second that a page of one or two rows cuts, and one that comes late.

CHECK_DEADLOCK is off where the model really stops: connections of `ConnectionRegistry` are
used once and sends are bounded; the messages of `KafkaPersistence` are bounded; the
connection of `ConnectionTasks` is over; commands, faults and messages of `Delivery` and
`History` are bounded.

### Where the code and its documents disagree

Each of these runs checks one property that a document or comment of the repository states,
and TLC finds an execution of the code that violates it.

| run | stated | what happens |
|---|---|---|
| `registry_gc` | docs/ARCHITECTURE.md:65: remove collects *empty* maps | a connection inserted before the removal of the tenant's entry goes with it |
| `kafka_db_error` | docs/ARCHITECTURE.md:195: a failed batch is retried | the batcher that holds it is dropped, and the batch committed |

Further consequences of the same steps, which the models have but no run states:

* A client that goes away, or a node that stops, after the reference was taken and before it is
  returned leaves its user online for good: limits/mod.rs:10 calls the set that of the
  currently-online users, and nothing expires (`NoStaleUser` says that nothing else does this).
* Each message restarts the timer of its batch, and an error pauses it, so that a batch may be
  older than the 250 ms of docs/ARCHITECTURE.md:178; `AgeBounded` has the bound that holds.
* The echo of a DM does not get to its sender (docs/PROTOCOL.md:136, and the comment at ws.rs:412):
  the second PUBLISH goes to the sender's channel, but the message in it is the same, and
  the listener routes by channel_id, which is the recipient. The recipient gets both copies
  (`NoMoreCopies` says that it is never more), the sender none, unless it is a DM to oneself.
* A user's own join event, when the user's LEAVE on the same node overtakes it, makes the user a
  member again (redis/mod.rs:61), and so does a join whose PUBLISH was given up and is carried out
  after the LEAVE (ws.rs:188, 255). `LeaveHolds` excepts these.
* LEAVE deletes the row under the Uuid its name parses as (ws.rs:260-271): by another spelling of a
  group's name, or by the conversation_id that the group's messages show, it takes a member's row
  and leaves the membership. `RowBacked` excepts such rows, and no others of LEAVE.
* A group may be named by the conversation_id of another group's message, if no group has that id. The
  next start lists the sender of the message as a member of it (003_create_groups.sql:48), who never
  asked for it. `NoStrangers` is about groups whose name is no Uuid.
* If the stored messages ask for an id that a group has already, migration 003 fails on the primary key,
  and the node does not start (003_create_groups.sql:34).
* In direct mode as with Kafka, a message whose insert fails is kept nowhere (ws.rs:468):
  `StoredUnlessCut` excepts it.
* Each start puts whoever sent a stored group message back into group_members, users who left
  included (migrations/003_create_groups.sql:48), and the group list counts them.
* A channel that is cut within a second loses the rest of that second: `before` is the
  timestamp of the last row, and the query asks for what is strictly older (history.rs:42).
  `OnlyCutsSkip` says that nothing else is missed.
* While a client goes on sending, an evicted connection of it lives on, hears nothing, and keeps
  its tenant's place, if the close of its socket hangs (ws.rs:136): `EvictedEnds` has to except it.
* A handler that takes longer than the timeout costs a client that answers its connection
  (ws.rs:154), since the same task reads the answers: the exception `slow` of `NoFalseTimeout`.
* An acquire that fails admits the user, so the cap of README.md:201 can be exceeded
  (`CapOnConnectedUsers` says by how much); its release may take away the reference of the
  user's other device, and a further device is then refused, against limits/mod.rs:13.
* The entry of a tenant whose last connection a sender evicted stays, as the guard of that connection
  finds no user and returns early (docs/ARCHITECTURE.md:65 says it is collected).
* After a crash between insert and commit, the redelivered message makes the primary key refuse
  the batch it is in, new messages included, and the batch is committed (README.md:222). The
  process does not wait for the consumer's last flush (docs/ARCHITECTURE.md:244).
* A listener whose stream has ended is not started again, so that its node applies no more joins
  (docs/ARCHITECTURE.md:133); LEAVE is applied by the node that handles it only
  (docs/PROTOCOL.md:33), and it removes no row of a group whose name is no Uuid (ws.rs:263).

### Fairness

Only steps that the runtime or an external service takes by itself are fair, weakly:

* `TenantLimiter`: a spawned release runs (tokio polls it, Redis answers).
* `ConnectionRegistry`: a thread inside an operation goes on, and gets a lock that is free
  continuously; a send task with something to do is polled, and its writes end, within
  SEND_TIMEOUT (ws.rs:124). Its close has no timeout and no fairness: `DroppedEnds` goes up to it.
* `GroupMembership`: a listener with something to read reads, and a subscription is answered.
  No fairness for handlers, since a client may go away.
* `ConnectionTasks`: the runtime polls tasks, timers fire, and the database and Redis answer a
  handler in the end. Nothing of the client or its socket is fair.
* `Delivery`: a listener with something to read reads. Redis and handlers owe nothing: the
  promises begin when Redis has carried a message out.
* `History`: a query is answered.
* `KafkaPersistence`: the group assigns the partition to some member, the loop of a live
  process runs, a statement and a commit are answered.

Nothing makes clients connect, send or leave, messages arrive, or processes stop or start.

## 4. What is proved

TLAPS checks these for every value of the constants that satisfies the named assumptions: any
finite or, where nothing says finite, any set of nodes, users and connections, any bound.

* **TenantLimiter.** `TypeCorrect`. `RedisInvariant`: `OnlineIffCounted` and `CapInRedis`
  together are inductive: whether a script changes the set depends on the counter only if the
  two agree. `HoldersAreCounted`: there is a set F of connections, no larger than `failOpens`,
  without which every user's connections are within the user's count. F is not simply the set of
  those that failed open: the release of one in F takes the unit of another device of the
  user, which takes its place in F, and the size of F does not grow. `CapHolds` follows: a connected user is
  counted, hence online, or one of at most `failOpens` others. `MultiDeviceHolds`: with
  `failOpens = 0`, F is empty, so a user with an open device has a positive count, and a
  script that finds one does not refuse. `NobodyIsStranded`: with `leaks = 0` each unit of a
  count belongs to a connection that was counted and holds its place (`CountsOwned`,
  `CountedHold`). `ImplementsTenantCap`: a grant is an `Admit` because the users of the sessions are
  within the online set and the users of F; an acquire that fails is a `Waive`; every way in
  which connections end is an `End`; the rest stutters.
* **ConnectionRegistry.** `TypeCorrect`, which bounds the channels. `UserGcIsSafe`: a task about
  to remove a user's entry (pc `user`) still holds the tenant's guard, and no insert can have
  happened since the test; the invariant says that the user has no connection then. `NoGapHolds`:
  a channel with a missed message is of a connection that the sender has marked, and no longer
  visits, or that is out of the registry for good. `GoneHolds`: an entry is reachable from the
  tenant's (`Reachable`), so that the early return of a guard means that the connection is
  out already. `NoEmptyUserHolds`: a user without connections has a task that will count after
  the last removal (`Collected`). `OpsAdvanceHolds` is the safe part of `OpsComplete`: a task in
  its iteration holds the guard that keeps `insert` out, so that the set it still has to visit only
  shrinks; there are finitely many (`Finite`), and the rank of an operation, which each step of its
  own lowers, is never raised by another task.
* **KafkaPersistence.** `CommitsFollowInserts`: the invariant accounts for every received offset
  of the current owner: what is between the committed offset and its position is in the buffer
  or was part of an insert; at a commit the buffer is empty, and a commit on its way is
  covered by what was inserted. `TypeCorrect`, which bounds the batches. `FaultlessHolds`: as long
  as nothing failed, the first owner keeps the partition, and its buffer holds just the offsets
  that follow the stored ones (`Contiguous`), so that no insert meets a duplicate.
  `ImplementsDurableLog`: an insert is a `Store`, or a `GiveUp`, which by the invariants of
  `FaultlessHolds` takes a fault; a landing commit is an `Advance`, since the position of the
  owner is never behind the committed offset and its commit on the way lies between the two
  (`MarkInv`), and by `CommitsFollowInserts`' invariant it covers only what was inserted; faults
  are `Fail`, and all else stutters.
* **BatchTimer.** `TypeCorrect`. `AgeBoundedHolds`: the age of an open batch is accounted for by the
  waits of the messages in it, the wait of this turn, and the errors so far (`Accounted`).
* **GroupMembership.** `TypeCorrect`. `JoinsReach`: inductive together with "a node that is
  not subscribed has nothing due". `MembersHaveRows`: the strengthening follows a membership
  through the system: a handler that is about to add or announce a member, a join event in
  any inbox, and a join that was given up, are already backed by a row or known to have none. It takes
  nothing for granted about names and ids: what protects a row is the foreign key, which
  refuses a group another id while members refer to the one it has.
  `LeaveHoldsAlways`: while a LEAVE of the history has not come to the registry, its handler is
  about to do it; afterwards the user is out, no join waits at the node, and no handler of the
  user is about to publish one (`LeftInv`); the only ways into a registry are a connection of the
  user and a join event (`MembersGain`), and a join is announced by a handler or by a call that
  was given up and lands, which takes the LEAVE out of the history (`AnnouncedGain`).
  `NoStrangersHolds`: `Uses(g, x)` says that group g, a handler, a call adrift or a message of it
  has the id x. An id in use is drawn or the Uuid that g spells, and no two groups whose names are no
  Uuids use one (`IdInv`); a new id is in no use, and clients name groups by drawn ids only. With
  what the foreign key keeps, that every row belongs to a group (`Owned`), the id a plain group gets
  by CREATE or migration has no rows of others, and a row that is inserted or backfilled counts for a
  plain group only if its command or message was about that group. `IdAssumption` says only that ids
  that are drawn are Uuids.
* **ConnectionTasks.** `TypeCorrect`, `NoFalseTimeoutHolds`, `SilentDetectedHolds`, for all
  intervals, timeouts and answer times with room for both (`TimeAssumption`). The invariant
  relates the clocks: how long ago the last frame was, the next heartbeat, the age of the
  unanswered ping, and the time of a running handler; as long as there is no excuse, the first
  is bounded by the others.
* **Delivery.** `TypeCorrect`. `StoredUnlessCutHolds` is inductive with it. `InOrderHolds`: the
  order of a sender's messages is the same in every channel, in every inbox, and between what a
  device has and what waits for its node, and the message a handler works on is the latest of its
  connection (`OrderInv`). `SameOrderHolds`: what a device has of a group and what waits for it at
  its node is, by any pair of messages, in the order in which Redis carried them out (`AgreeInv`);
  a listener takes from the front of its inbox, before which nothing waits. `TenantsApartHolds`. `ReachesDevicesHolds`: a message that is due waits
  in the inbox of the device's node with the device still in its audience, by membership or by a
  join that waits before it (`DueInv`); a fan-out can then leave no device out.
  `NoMoreCopiesHolds`: the copies a device has, those that wait for its node, and the calls that
  can still be carried out for the message, with its handler or adrift, never add up to more than
  the handler was to make (`CountInv`); no call is in both places (`CallsInv`).
* **History.** `TypeCorrect`. `PagesGoBackHolds`: what was shown is not older than the place the
  reader has come to, and the page in hand is older than what was shown before. `OnlyCutsSkipHolds`: what
  was there at the beginning is shown, or older than the place, or of a second in which a page was
  cut.

Only model-checked: liveness (`UserGoesOffline`, `OpsComplete`, `DroppedEnds`,
`EventuallyPersisted`, `JoinPropagates`, `EvictedEnds`, `Delivered`, `ScrollEnds`), which with
ENABLED is out of the prover's reach. Every invariant and every safety property of a passing run
is proved. Induction over data and RECURSIVE operators are not in the prover's reach either; no
module here needs them.

## 5. What is not modelled

* **Authentication** (`auth/`): a pure function of a token, done by the jsonwebtoken library. The
  models start from its result, a tenant and a user.
* **Serialization**, the hash that makes a DM's conversation id (`protocol/mod.rs`), CORS, routes,
  configuration and the health check: pure functions or set-up, whose results nothing here
  depends on. Text that is neither command nor message is logged and dropped.
* **The group list** (`groups.rs`): what it counts is `Counted`; its order and its errors change
  nothing.
* **Direct persistence mode**: `persist_message` there is one INSERT of one message (`Persist` and
  `PersistError` of `Delivery`, `Insert` of `History`). The batcher's flush at 1000 messages is
  out of its reach, and `direct_persistence_loop` does nothing.
* **Several tenants in `GroupMembership`**: it has one. The statements name the tenant, but for the
  DELETE of LEAVE (ws.rs:266): with a conversation_id of another tenant's group it would delete a row
  there, of a user of the same name. This is not covered.
* **The migrations' first run**: the de-duplication of migration 003 before the constraint exists
  (lines 9 to 20), and the table `api_keys`, which no code uses.
* Redis, Kafka and Postgres appear as the code uses them. DashMap is taken to be correct.

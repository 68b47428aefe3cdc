# Verification of chappe

TLA+ models of chappe's core, the TLC runs that check them on small instances,
and TLAPS proofs for what matters most. Modules follow the names of the source;
each definition's lines are in `PROJECT.json` ("map"), together with the runs,
the mutants that show each property can fail, the findings and the hazards.

## The system

chappe is a broker for processes on one machine: a daemon, clients that connect
to it over a Unix socket, and shared-memory rings for payloads too big for it.

| Part | State | Operations | What is hard about it |
|---|---|---|---|
| Frame ring (`src/shm_ring.c`, `ipc/shm_ring.hpp`) | slot states and refcounts, `last_ready`, the producer's cursor | acquire, publish, abandon, retain, release | lock-free between processes; consumers die; reuse of a slot while somebody is about to retain it |
| Ring segment (`src/shm_ring.c`, `node.hpp`) | the shm name, its inode, the owner's flock, magic and geometry, consumers' mappings | create, attach, destroy | producers are killed, restart, start twice; consumers stay attached throughout |
| Daemon, topics (`server.hpp`) | clients, subscriptions, retained values, per-connection send lock and descriptor | subscribe, unsubscribe, publish, retained publish, ping, info, accept, disconnect, shutdown | a thread per connection writing to all others; snapshots; descriptor reuse; stalled peers |
| Daemon, key-value store (`server.hpp`) | values, deadlines, watchers | set, setex, del, get, incr, setnx, sweep | pushes and replies must agree on one order; expiry races |
| Node (`node.hpp`) | cache, handlers, pending requests, the connection | connect, publish, subscribe, unsubscribe, get, set..., reconnect, destroy | the cache is authoritative without asking; reconnect windows; two threads that subscribe; answers that are lost, late or never sent |
| Thread pool (`threadpool.hpp`) | queue, `active_`, `stop_` | enqueue, drain, destroy | lost wakeups, early return of drain, shutdown with a full queue |
| Link (`link.hpp`, `chappe_link.cpp`) | expected echoes, forwarded topics and keys, two sockets | handshake, forward, apply, consume echo, stop | four processes with bounded sockets between them, echo suppression by counting, restarts |
| Wire format (`ipc/transport.hpp`) | a frame reader's buffer | encode, send, receive, decode, match topics | partial writes and reads, several senders, size limit |
| Python client, Redis and GStreamer bridges | as Node; echo counters | | second implementation of the protocol |

Calls and messages: a node's user threads write requests to the daemon under
`send_mu_`; the daemon's reader thread for that connection runs the handler,
which writes to this and other connections; each node's reader thread applies
what arrives to the cache, or hands it to handlers, directly or on the thread
pool. A frame's handle takes that way; the frame itself is in the ring.

## Modules

`LatestFrame` is the abstract promise of the ring: a register with one writer,
which announces numbered frames, and readers that pin one. A read returns a
frame at least as new as the newest announced when it began, possibly one that
is written but not announced yet; it misses only if as many frames as it makes
tries were announced meanwhile; a pinned frame does not change.

`ShmRing` is the ring over an initialised segment: every atomic access is a
step. The producer's `acquire_slot` is `AcquireBegin`, `ScanSkip`, `ScanTake`,
`ScanStarved`, `Claim`, `Recheck` and `Restore`; the writer's part `FillBegin`;
`publish_slot` `PublishReady` and `PublishLast`; `abandon_slot` `Abandon`. A
consumer's `retain_latest` is `RetainLoad`, `RetainStake`, `RetainVerify` and
`RetainUnstake`; then `Release`, or `Die` at any point. `stamp`, `newest`,
`loaded`, `since` and `got` are history: they number frames in the order they
become READY. Locals are reset when a call returns, so that states that differ in
dead values only are one. It implements `LatestFrame`.

The accesses are modelled as sequentially consistent. The code uses weaker
orders beside its seq_cst handshake; that those suffice is not shown here. The
model does show the window between the two stores of `publish_slot`: a consumer
that holds on to an old index may read a frame before it is announced, so a
process that reads twice can see a newer frame first and the announced, older
one second. `LatestFrame` allows this, and nothing in the code excludes it.

`ShmSegment` is the segment's life: `shm_ring_create` call by call (`Create*`,
`ClearMagic`, `WriteNumSlots`, `WriteSlotSize`, `InitSlots`, `PublishMagic`),
`shm_ring_destroy` in its two halves, kills, failed system calls, and a node
that attaches, up front or on its first frame, and keeps the mapping. Names, inodes and flock
are the kernel's, modelled from how the code uses them. One slot stands for the
ring, since what happens inside is `ShmRing`'s.

`PubSub` is the daemon's connections and routing. A step ends where the code
takes or drops a lock: a publish is `Route` (the snapshot), then `SendLock` and
one of `WriteWhole`, `WriteTimesOut`, `WriteFails` per receiver, then `Finish`,
which stores a retained value. A subscribe is `SubscribeInsert` and
`SubscribeReplay`. `RemoveSubs`, `RemoveClose` and `RemoveLeave` are
`remove_client`, `Stop*` is `~Server`. Topic matching is `topic_matches` on
names split into levels; `Covers` says what the patterns mean, and decides who
is entitled to a message. `MCPubSub` gives the module a topic and a pattern, and
compares matcher and meaning on every name of up to four levels (an assumption
TLC evaluates). A level that merely contains a `+` or `*` is not distinguished
from a wildcard level.

`KvStore` is the daemon's store, the nodes' caches and the connections between
them. The daemon holds `kv_mu_` through a handler including its pushes, so a
handler is one step (`HandleSet`, ..., `HandleSetnx`); the sweeper is two,
because it reads the clock before it has the lock. A connection carries frames
in order; a push that does not fit the socket buffer ends in a shutdown. The
node's reader thread is `Connect`, `Deliver`, `LinkDown`, `DropCache`.

`NodeSession` is a node's session with the daemon: the owning thread (`Connect`,
`Subscribe`, `Unsubscribe`, `Close` and `Join`), callers of `request` (`Register`,
`SendRequest`, `Answered`, `Timeout`, `Abandon`) and the reader thread (`Check`,
`ReadFrame`, `LinkDown`, `Reconnect`, `Install`). `resubscribe` runs on the owning
and on the reader thread, as a copy of the names and one send per name. A step
ends where a lock is dropped. The daemon is what it does for this node: route a
name, answer a request, break the connection. `KvStore` has the same reader with
the cache; the two share nothing else, as the cache and the pending table are
under different locks. Backoff delays are not modelled, nor a daemon too old to
answer, which is what the timeout is for. One thread subscribes and unsubscribes,
and `~Node` starts when no call is in progress: the class promises nothing else.

`Link` is two devices, each with a daemon and a link process of three threads.
`LocalFrame` and `LocalEnd` are `local_loop`, with `Forwarded` and `Expected` for
what is passed on; `PeerHello`, `PeerFrame`, `Apply` and `PeerEnd` are `peer_loop`,
with `expect_echo` and the send as steps of their own; `Stop`, `Lost`, `Signal` and
`Exit` are `main` and `~Link`; `Establish` is the supervisor with both constructors.
Sockets hold `Cap` frames: a link waits for room, a daemon drops a link that has
none. What a dead link sent is still read by the daemon (`ServeOld`). A daemon is
the one forwarded key with its pushes, the topics that have a retained value, and
the link's subscriptions: `Subscribe` registers one topic, `Replay` looks its
retained value up and sends it, and a live message may be routed in between;
`Serve` goes on to the get when all topics are through. A replay is a message
with the number 0, as what it repeats may be old; a topic forwarded by a pattern
has none, the case of nothing retained. A user's retained publish is routed and
stored in one step here; that these are two is in `PubSub`, with what follows
from it. The rest of the daemon is `PubSub` and `KvStore`.
`MCLink` lists the setups: what each link carries, whom it accepts, who has a
value to begin with, and how many writes, sessions and faults there are.

`FrameStream` is a connection byte by byte, in a base that makes lengths of two
bytes: threads that send frames under the lock with a `write_full` that is cut
up at will, and a `FrameReader` with its buffer, field by field.

`ThreadPool` is the pool: enqueue and its notify, the worker loop, drain and
the destructor, with waiting threads woken by notifies or spuriously.

A module's theorems are in the module of its name with `Proofs`: there is one for
each of the above but `LatestFrame`, which has none of its own.

## Runs

All bounds are constants. Those named Max..., the `Mortal` consumers of the ring
and what a setup or budget counts cut behaviours off; the others are sizes.

| Run | Instance | Shows |
|---|---|---|
| `ring` | 3 slots, 2 consumers of which 1 may die, 2 tries, a load of 5 | Retained frames stay intact, refcounts are exact, misses need churn, the ring implements `LatestFrame`; a scan starves only when the ring is too small, and starvation ends. The load is frames plus consumers that ask for them: four frames with one consumer, three with two. Three slots give a scan a choice while a consumer moves; four frames, one of them in the writer's hands, fill the ring and reuse a slot; two consumers are one to hold and one to be caught half-way; three frames make a retain give up. The consumers are alike, so it does not matter which of them may die. A ring starved by two consumers that hold older frames would need a larger load; there the theorem takes over. |
| `segment` | 2 producers, 1 consumer, 3 inodes, 1 frame, 1 failure | One owner per segment, magic covers complete headers only, the topic always gets an owner again. |
| `segment_attach` | the same | Violation, see Findings. |
| `kv` | 2 nodes, 1 key, 3 requests, 1 tick, 1 restart, 2 connections each, buffer of 2 | Caches follow the store, watches match connections, nothing expires early, and no node goes on serving an expired key. Three requests suffice for get, set by another, and expiry or stall; two frames in the buffer let a third cost the link. |
| `pubsub` | 3 connections with 3 frames and 1 fault, or 2 frames and 2 faults; with a stop, 3 connections with 1 frame and 1 fault, or 2 with 2 and 2 | Frames go to the connections they are for, whole, in order, once, never back, and to all that were subscribed; routing tables and clean-up lists agree; the destructor returns. Three connections are publisher, departing receiver, and the one that gets its descriptor; three frames are two subscriptions and a publish, or a subscription and two publishes. |
| `pubsub_retained` | the same | Violation, see Findings. |
| `threadpool` | 2 workers, 2 enqueuers, 1 drainer, 3 tasks | Drain and the destructor are complete, and everything that waits is woken. |
| `node` | 2 names, 1 caller, 3 calls, 3 connections, 2 breaks | No request waits for an answer that cannot come and `pending_` keeps no orphan; every name with a handler is routed or about to be; requests return without their timeout, and so does the destructor. Three calls are a subscription, its end and a request; two breaks make a reconnect that breaks again while the first's resubscribe runs. |
| `node_unsubscribed` | 2 names, 3 calls | Violation, see Findings. |
| `link` | 1 value, 1 topic, sockets of 2; in 1 session 2 writes with 1 fault, or 2 messages without, or 1 operation under other setups; 1 operation in 2 sessions | No expectation is left over, an owner's value arrives, only what was agreed is carried, live messages come once, in order and never back, traffic and dying processes end. Two writes cross, or are a set and its del; sockets of two fill up when both sides seed and write; two messages are enough for an order, and for a retained one that is both routed and replayed. Two messages together with a fault are covered by the theorem only. |
| `link_restart` | 2 values, 1 operation, 2 sessions | Violation, see Findings. |
| `stream` | 2 senders, 3 frames of up to 4 bytes a field, a limit of 3, a buffer of 2, a socket of 6 | The frames that are read are the frames that were sent; the buffer is bounded; all arrive. The limit is above the first buffer, so that it grows, and one frame is over it. |

Deadlock checking is off where the system may stop: a bounded number of frames
or requests has been handled, or the daemon, the node, the links or the pool
are gone.

### Fairness

Only what scheduling gives is assumed: threads that can run do. In the ring the
producer retries, a consumer inside a call goes on and one that holds a frame
releases it (`ShmSlotView` does so when the handler returns); nobody has to
retain or publish. For the segment, producers are started again by a
supervisor, as CHANGELOG.md describes; under `SegmentRestart.cfg` the consumer's
handlers run as well, each with a frame that is released. In `PubSub` a reader is only bound to
leave its loop at the end of its input, as it may be blocked in a read when
`running_` goes down. In `KvStore` nobody has to send or to reconnect. In
`ThreadPool` no spurious wakeup is counted on and handlers return. In
`NodeSession` the threads run and a daemon serves the connection it has, but it
need never come back and no timeout need ever run out. In `Link` daemons and
threads run; no process need be started, no user write, no connection break. In
`FrameStream` a `recv` with bytes to return is not interrupted for ever (strong
fairness, as it can be interrupted in between).

## Findings

Seven places where the code does not do what a document or comment says. Four
are runs; `PROJECT.json` has the quotations.

1. `pubsub_retained`: a retained publish is routed, then stored; a subscriber
   that comes in between gets it neither way.
2. `node_unsubscribed`: `resubscribe` copies the topics, then sends; an
   unsubscribe in between is overtaken by the SUBSCRIBE from the copy, and the
   daemon routes a topic the node has no handler for.
3. `link_restart`: links that come up on different values seed each other, the
   owner's side too, and the two stores end swapped. It takes one write by the
   one owning device while the links are down. `OwnerConverges` is therefore
   about a first session only.
4. `segment_attach`: `shm_ring_attach` reads the geometry after the magic and
   does not look again; when a dead owner's segment is reclaimed in between, it
   has half of each geometry. `MagicGatesInit` is therefore about the segment,
   not about what a consumer has read of it.

Three more have a configuration that is not in the list of runs. Each is
violated within a minute by `tlc -workers 2 -config <file> <module>`.

5. `SegmentSplit.cfg`, module `ShmSegment`, `OneOwnerPerTopic`. CHANGELOG.md:75:
   "A *live* owner still wins: two producers on one topic fail loudly rather than
   each taking a segment and splitting the topic in silence." But
   `shm_ring_destroy` drops the flock before it unlinks (`shm_ring.c:392`), so it
   can remove the name of a segment that another producer has just reclaimed; the
   next to start creates a second segment, and one topic has two owners, without
   a kill or a failed call. `OneOwnerPerSegment` is therefore about segments.
6. `SegmentRestart.cfg`, module `ShmSegment`, `RestartReaches`. CHANGELOG.md:83:
   "so the two can start in either order, and a producer can restart under a
   running consumer." But `ring_for` (`node.hpp:420`) keeps its first mapping;
   after a producer's clean restart a node goes on with the old segment, and
   serves its last frame for every new handle, for ever. A restart after a kill
   reclaims the segment and is not affected.
7. `LinkReturned.cfg`, module `MCLink`, `NeverReturned`. link.hpp:131: "Publishes
   need no such care — route_publish is noLocal". But what a link has applied
   when it dies is read by its daemon from the old connection (`server.hpp:544`
   leaves out only that), and the link started since gets it as anyone's; a
   device gets its own message back. `OnlyAgreed` therefore says "never back" of
   a first session only.

## Known limits

Reclaiming a segment resets refcounts that consumers still have up. A frame
retained from the dead producer can be overwritten, and its release wraps the
unsigned count, which takes the slot out of use.

Of the other parts:

- A frame over `MAX_FRAME_BYTES` is refused by the reader, not by the sender, and
  costs the sender its connection.
- A request that fails has no known outcome: a lost `setnx` may have won.
- A handler that calls `drain` on its own pool waits for itself, and one that
  makes a request on the reader thread (a node without a pool) waits for an
  answer that only this thread could read, until the timeout.
- `dispatch` copies the handlers, so one may run once more after `unsubscribe`.

## Proofs

TLAPS checks these for every value of the constants.

`ShmRingProofs`, from `RingAssumption` (at least two slots, finitely many
consumers): the inductive invariant `IInv` adds to `TypeOK` and `RefcountExact`
what each side knows at each point of the handshake. `WriterInv`: acquired slots
are WRITING, the slot being claimed is neither acquired nor offered, and `prev`
has the state it had. `PayloadInv`: a `Solid` slot is whole, where `Solid` means
READY, or READY again if the claim being tried were undone. `StampInv`: no stamp
exceeds what has been announced, but for the slot about to be. `OfferedInv`:
`last_ready` names a READY slot with the newest frame. `HeldInv`: a held slot is
`Solid` and still carries the frame that was taken; with `RefcountExact` this is
the heart of the argument, as the consumer's state check and the producer's
refcount check cannot both miss. `RetainInv` relates a retain's
loaded index and tries to the frames announced since. One lemma per action
shows its preservation. From it follow type correctness, `RetainedFrameIntact`,
`RefcountExact`, `OfferedFrameReady`, `RetainFresh`, `RetainMissNeedsChurn`, and
with a lemma that each step maps to a step of `LatestFrame` or a stutter, the
refinement. `StarvedOnlyWhenFull` needs more, as consumers move while the
producer scans: `ScanInv`, shown beside `IInv`, charges each slot that was passed
over for its refcount to one consumer that has asked for a frame. A consumer only ever moves to the offered
slot, which the scan skips, so one that was charged cannot be met again, and a
new slot finds a consumer without a charge. After `NumSlots` rounds every slot
has been looked at, and is the writer's, the offered one, or charged.

`ThreadPoolProofs`, from `PoolAssumption` (some workers, finitely many):
`ActiveInv` says `active_` is the number of workers between taking a task and
giving the count back, `TaskInv` that a task once queued has run, is queued or
is being run, `CoverInv` that drains cover queued tasks only, `ExitInv` that
workers leave only when `stop_` is up and the queue empty. An empty queue and a
zero count then mean that all that was queued has run. From this `DrainCovers`,
`DestructorRunsAll` and the type invariant follow.

`ShmSegmentProofs`, from `SegmentAssumption` (finitely many processes, and at
least as many inodes as processes, so that there is always a free one). A lock
is the only protection, so most of the invariant says who has it: `FdInv` that a
producer past its `flock` has it on the inode it has open, `LockInv` that a lock
belongs to a producer that is alive and at work on that inode. With these,
nobody else writes a header while `StageInv` follows what `shm_ring_create` has
done to it, and `GeometryInv` holds: under a valid magic word both fields are one
producer's. `ConsumerInv` says of what a consumer reads only that somebody had
written it, as a reclaim may follow its check of the magic word (Findings, 4).
Theorems: `TypeOK`, `OneOwnerPerSegment`, `MagicGatesInit`.

`PubSubProofs`, from `PubSubAssumption` (descriptors for all clients).
`SocketInv` says that `Client::fd` and the kernel's table are inverse to each
other, `SendInv` that who holds a `send_mu` writes to the descriptor that
connection still has: together the reason why a descriptor that is used again
never gets another connection's frames. `HandlerHolds` is what a handler has in
hand at each stage. `PartialInv`: a frame cut short is the last of a connection
that was shut down. `OwedInv`: what a subscriber is entitled to is received,
about to be sent, or the connection is lost. `OlderInv`: what was delivered is
older than what its publisher still sends, so that order is kept. Theorems:
`TypeOK`, `NoMisdelivery`, `StreamNeverDesynced`, `SubscriptionsMirrored`,
`EveryoneServed`, `PublishedInOrderToOthers`; and `TopicMatchesMeansCovers`, that
`topic_matches` accepts the names `Covers` says, for every pattern and name,
where `MCPubSub` tries those of up to four levels. Its induction goes by the
least counterexample, a set of numbers, as no induction rule can be instantiated.

`NodeSessionProofs`, from `NodeAssumption` (bounds are numbers). `ThreadInv` and
`IdInv` say which of the three kinds of threads are where while `fd_` and
`running_` have which value, and that each request has its own id. `Waits` is
the argument for requests: one that waits and is in `pending_` was sent on the
connection the reader has, and it or its answer is on its way or the connection
is broken, in which case the reader has `fail_pending` still to come. `Owned`:
`pending_` has only ids somebody waits for. `RoutedInv`: the last frame under way
about a name with a handler subscribes it, or somebody will send one; it avoids
the `CHOOSE` of the property, of which it is a restatement. Theorems: `TypeOK`,
`NoStrandedRequest`, `HandlersRouted`.

`KvStoreProofs`, from `KvAssumption` (an integer has at least two values, as the
RESULT of `setnx` is 0 or 1, and cells are distinct). `ConnInv` and `FreshInv`
say that a node reads its last connection and that the daemon knows nothing of
later ones, `DownInv` that replies and updates go only to watchers. `Coherent`
is `CacheCoherent` without `CHOOSE`: the last frame under way about a watched key
has the value in the store, or there is none and the cache has it. `DeadlineInv`
and `SweepInv` are for the sweeper: finitely many deadlines, and a clock reading
of the past. Theorems: `TypeOK`, `WatchedMeansPushed`, `CacheCoherent`, and the
action property `NoEarlyExpiry`.

`FrameStreamProofs`, from `StreamAssumption` (bytes are below `Base`, lengths fit
in two of them, a frame is a kind, a name and a payload). The frames sent make one
sequence of bytes, of which the invariant asserts the existence: `Layout` says
where each frame is in it, `Carried` that what follows the reader's place is in
its buffer, then in the socket, then with the one sender that holds the lock,
and `Parsed` which field of which frame the reader is at. Partial writes and
reads, the buffer's moves and growth shift the boundaries and nothing else.
`QuitInv` bounds what is asked for. Theorems: `TypeOK`, with it the bound on the
buffer, and `FramesIntact`.

`LinkProofs`, from `LinkAssumption` (two devices). `WireInv`: the hello comes
first. `ThreadInv`: the threads run together, and what the peer loop applies is
wanted and from a peer it accepts. `UpInv`: the link is watching before the
daemon reads what it applies, hence each change it applies comes back.
`EchoInv` counts: a connected link expects no more copies of a value than are in
hand, under way to the daemon, or on the way back, so none when nothing is under
way.
`LaneInv` cuts the way of one device's messages to the other into stages, with
numbers that rise from the daemon that heard them back to the one they come
from; replays of retained values travel among them and have no number. `OwnerConverges` needs more, `OwnInv`, about the one device that has written
the key, while the links of the first session are connected. `NoneBack`: nothing
of the key is under way to it, and none of its own changes is taken for an echo.
`Owed`: at the other device every copy that will come back is expected, the bound
of `EchoInv` from the other side, so that its link drops them all. `Blank`: the
other daemon has no value of its own to answer the startup get with. `Way`: apply
what is under way from the owner's daemon to the other, queue by queue, and the
other daemon has the owner's value; `Ends` says what a queue leaves a key with, by
its last change, so that no induction over the queue is needed. TLC found `OwnInv`
to hold of the `link` run's instances before it was proved. Theorems: `TypeOK`,
`NoLeftoverEcho`, `OnlyAgreed`, `OwnerConverges`.

Only model-checked: all liveness (`StarvedProducerProceeds`, `TopicRecovers`,
`ExpiryReachesCaches`, `ServerStops`, `DrainReturns`, `DestructorReturns`,
`CallsReturn`, `Settles`, `AllArrive`), as properties under fairness, and ENABLED,
are out of this prover's reach; so is induction over data where it cannot be
made one over a set of numbers. The seven violations are TLC's.

## Not modelled

The Python client, a second implementation of the node's side of the protocol;
the Redis and GStreamer bridges, whose behaviour is mostly that of the library
they drive; option parsing in the `main` functions; the codecs of payload types;
`publish_frame`'s size check and counters. Memory orders weaker than sequential
consistency. Values and payloads are a few tokens, time is a counter, and except
in `FrameStream` a socket buffer holds a number of frames.

## Plan

The models are complete but for the above, and every invariant and action
property that a passing run checks is proved. What is left is TLC's: liveness,
and the seven disagreements.

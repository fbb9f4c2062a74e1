# Formal model of zhongduan

zhongduan keeps a PTY on a host and shows it in browsers. A **host daemon**
(`apps/host-daemon`) owns the terminal authority and its journal; a **relay**, one Durable
Object per session (`apps/terminal-cloud/src/worker`), fans the output out; a **browser**
(`apps/terminal-cloud/src/browser`, `packages/session-client`) keeps a replica of the
terminal. Every mutation of the terminal (PTY output, an applied resize) is an *event* with
one sequence number. The system's promise is that each replica is a prefix of the
authority's events, that a replica which is behind is caught up by a journal replay (*warm*)
or by a snapshot and its tail (*cold*), and that a browser which claims to be live is.
In the other direction the system promises that what a user types reaches the PTY at most
once and in order, from one writer at a time, and that what the user is told of it is true.

This directory holds TLA+ modules of these promises, TLC configurations that check them on
small instances, and TLAPS proofs.

| file | what it is |
| --- | --- |
| `SessionCoordinator.tla`, `.cfg` | the browser's delivery state machine, against an arbitrary environment |
| `SessionCoordinator_proofs.tla` | TLAPS: its types and main safety invariants; acknowledgements, the frame budget, and what a restore may replace |
| `BrowserLink.tla` | tickets, the two WebSockets of a page, and the frames on them |
| `RelayConnections.tla` | the relay's reservations, tickets, sockets, generations and resets of one client |
| `BrowserSession.tla` | the page: connection attempts, timers, data replacement, acknowledgements |
| `BrowserConnection.tla`, `.cfg`, `BrowserConnection_proofs.tla` | the two composed, with a second page and faults; proofs that the page is fed what its connection is about, and all of it |
| `BrowserProtocol_proofs.tla` | TLAPS: what the page says is what the relay is prepared to hear |
| `HostLink.tla` | the pair of sockets between host and relay, and the frames on it |
| `HostDelivery.tla` | publisher, recovery scheduler, barrier waiter and data batching of the host |
| `RelayDelivery.tla` | host, barrier, delivery and reset handling of the relay |
| `Delivery.tla` | the two composed: specification, fairness, properties |
| `MCDelivery.tla`, `Delivery*.cfg` | instances of `Delivery` for TLC |
| `Delivery_proofs.tla` | TLAPS: its types, the stream, the pause, and what each browser was sent; host and relay agree about recoveries, when data is not batched |
| `BrowserInput.tla`, `.cfg`, `BrowserInput_proofs.tla` | the browser's input dispatcher, its ledger and its authority; proofs about them |
| `WriterLease.tla` | who may write: leases, fences and control sockets on the relay |
| `HostInput.tla` | the host session's input sequence: the abstract specification of what it does with input |
| `HostSession.tla`, `.cfg`, `HostSession_proofs.tla` | the host session with its journal and a subscriber; proofs about `HostInput`, and that the session implements it |
| `InputContract.tla` | the abstract specification of input |
| `InputPipeline.tla`, `MCInputPipeline.tla`, `InputPipeline*.cfg` | the three composed, shown to implement the contract |
| `InputPipeline_proofs.tla` | TLAPS: the lease, the order of fences, and that the composition implements the contract |
| `SnapshotStore.tla` | the relay's records of snapshots and uploads, as operators and transactions |
| `SnapshotUpload.tla`, `MCSnapshotUpload.tla`, `SnapshotUpload.cfg` | uploads, maintenance, the object store and restarts around those records |
| `SnapshotUpload_proofs.tla` | TLAPS: what is promised is stored, nothing is forgotten, the latest is the newest |
| `PROJECT.json` | components, runs, mutants, the map from definitions to source lines, hazards, theorems |

Run `tlc -config <cfg> <module>` for a run of the table below and
`tlapm <module>.tla` for the proofs (`*_proofs.tla`).

## 1. The system's parts

For each part: its state, its operations, what it talks to, what is hard, and what makes it
correct.

### Browser

**Session coordinator** (`packages/session-client/src/session-coordinator.ts`).
State: a lifecycle state, the generation fence, the cursor of the visible replica, the
current delivery (base, pinned commit, received, applied, buffered frames, candidate), the
frames that overtook their start, the restore in flight and its deadline.
Operations: `startWarmReplay`, `startSnapshot`, `acceptData`, `fenceDeliveryGeneration`,
`close`, and the callbacks of a restore and of its timer.
Talks to the replica host (restore, adopt, apply), the snapshot transport (download), and
through callbacks to the terminal session (resync, acknowledge).
Hard: control and data travel on two sockets, so frames overtake the start they belong to;
a restore takes several awaits, during which everything may change; one buffer budget is
shared by two queues.
Correct when: the visible replica is always an authority prefix; "live" is never claimed
early; a superseded restore is never adopted; acknowledgements never go back; a restore ends.

**Replica host** (`replica-host.ts`): the wasm engines behind the coordinator. A restore
builds a detached candidate; `adopt` swaps it in. Correct when a failing engine never
leaves a half-written replica under a valid cursor.

**Terminal session and relay connection** (`terminal-session.ts`,
`browser-relay-connection.ts`, `delivery-ack-coalescer.ts`). State: the present connection and
its epoch, the attempt in progress, four timers (reconnection, snapshot retry, data grace,
attach watchdog), whether reconnecting is blocked, the pending acknowledgement.
Operations: `start`, `reconnectNow`, `close`, the events of both sockets, the timers, the
coordinator's resyncs. Hard: each timer defers to another one, a retry belongs to no
connection, a data replacement may meet the loss of either socket, promises outlive the
connection they were made for. Correct when: the page always has something to wait for; it
speaks of one generation only; "live" is fed; it recovers from whatever has passed.

**Browser input** (`input-dispatcher.ts`, `input-authority.ts`, `input-intent-ledger.ts`,
`browser-writer-session.ts`): numbers input intents within a writer epoch, holds a bounded
ledger of what is unacknowledged, and classifies what was in flight when a transport is
lost. Correct when an intent is committed at most once, in order, and one whose outcome is
unknown is neither repeated nor reported as not sent.

**Capability** (`capability.ts`): holds and renews the browser's token.

### Relay (one Durable Object per session)

**Host control and data** (`host-relay-controller.ts`, `host-data-batch-processor.ts`,
`delivery-barrier-controller.ts`, `relay-delivery.ts`). State: the canonical head
(`session_state.head_event_seq`), the state of the current host pair, the barrier's
dependencies. Operations: host-ready, canonical event, directed event, replay commit,
barrier, data ACK. Everything the host sends goes through one serial queue.
Hard: host-ready makes the host current *before* it awaits a reset of every browser.
Correct when: a canonical event is forwarded exactly once and in order to every synced
browser, and no canonical event is forwarded around a pinned delivery.

**Browser delivery** (`browser-delivery-controller.ts`, `browser-relay-controller.ts`,
`relay-socket-runtime.ts`). State: per client a delivery generation, and in the data
socket's attachment a delivery state, three cursors (first, acknowledged, sent) and the pin.
Operations: attach, acknowledge, reset (with a digest awaited in the middle), isolate.
Hard: a reset reads the generation before its digest and acts after it.
Correct when: what one delivery is sent is contiguous; a browser that was not sent an event
does not stay synced.

**Connection lifecycle and store** (`relay-connection-lifecycle.ts`,
`relay-connection-store.ts`, `relay-store.ts`, `relay-connection-state.ts`). State: per client
a row with its delivery generation and whether it is reserved or registered; single-use tickets
that live for 30 s; the open sockets, with their attachments; the host fence (a newer host
pair closes the older). Operations: reserve a connection set, accept a control or a data socket,
their close handlers, expiry, `replaceBrowserDelivery`.
Hard: a ticket is revoked, displaced or expires while its digest is awaited; a close handler
runs after another connection has taken over; two pages share one client.
Correct when: the client's data socket is of its control socket's connection and generation,
and whoever is entitled to connect can.

**Writer authority and input relay** (`writer-authority.ts`, `browser-relay-controller.ts`,
`browser-control-lane.ts`). State: one lease row (client, connection, fence, expiry) and a
copy of fence and expiry in the holder's socket attachment. Operations: acquire (with a
digest awaited in the middle), renew (another digest), release, forward or refuse an input.
Hard: two attaches race through their digests; a connection goes while its lease is being
acquired; a key is refused, or its send fails, without anybody knowing whether it arrived.
Correct when: one browser at a time is forwarded; a fence is never granted twice; a
connection that is gone leaves no lease behind; a refusal never claims more than is known.

**Message queues** (`relay-message-queue.ts`, `terminal-session-do.ts`): one serial queue
for the host, one keyed queue for the browsers, limits and expiry.

**Snapshot upload, store and collection** (`snapshot-upload-coordinator.ts`,
`snapshot-store.ts`, `snapshot-gc.ts`). State: in SQL the published snapshots, the uploads,
the latest and the recent snapshots; in memory who owns an id and which upload may stream;
in R2 the objects; one alarm. Operations: upload (probe, create, part, complete, confirm,
publish), recovery of an upload that was interrupted, maintenance (retire, delete, recover).
Hard: a restart, a timeout or a lost answer between an R2 operation and its record, with
R2 free to perform the operation later; a pin against a deletion; uploads that finish in
another order than their cuts.
Correct when: a snapshot that may be sent to a browser is stored; an object in R2 is always
named by a record; the latest snapshot is the newest; what is not wanted is deleted.

### Host

**Terminal session and journal** (`session.ts`, `journal.ts`, `terminal-authority.ts`):
the authority's events, the journal that keeps them in segments, evicts the oldest and replays
ranges, subscribers that join from a cursor, snapshot capture, and the input sequence: the highest fence seen, the client and epoch it is bound to, a bounded memory of
results. Hard: an input may come late, again, from a displaced writer, or after its result is
evicted; a subscriber's callbacks cause events while it is given its replay; a base lies on the
edge of what is evicted. Correct when: an input takes effect at most once and in order, and its
answer is true; a replay is exact or refused; a subscriber misses nothing.

**Canonical publisher** (`canonical-publisher.ts`). State: queue, last sent cursor, paused.
Operations: enqueue (from the journal), pump, pause, resume, `flushThrough`, dispose.
Hard: the queue may pass its soft limit while a recovery holds the publisher paused; the
recovery is then interrupted, or the pair is closed.

**Delivery scheduler** (`delivery-scheduler.ts`, `delivery-recovery-queue.ts`,
`delivery-barrier-waiter.ts`, `snapshot-checkpoint-cache.ts`). State: one pending request
per client, what is known to need the cold path, the active recovery and its phase, the
prepared snapshots, the snapshot being built, the cached checkpoint. Operations: attach,
reset, the phases of `#recover` (pause, plan, flush, barrier, replay, commit), the answers
to a barrier, and the preparation of a snapshot.
Hard: a recovery has about ten awaits, at each of which a newer request, a reset, queue
pressure, a timeout or the loss of the pair may come.
Correct when: the publisher never stays paused; the relay never has a reason to refuse a
barrier or a replay; no request is forgotten.

**Relay connection** (`host-relay-connection.ts`, `host-cloud-relay.ts`): opens the pair,
host-ready and its ACK, data batching with one credit, heartbeats, reconnecting.

**Snapshot publisher** (`snapshot-publisher.ts`), **capability manager**
(`capability-manager.ts`): uploads a captured snapshot; renews the host's token.

### How they interact

    browser ticket -> relay attach -> attach-request -> host scheduler
    host: pause publisher; choose base and commit; flush through commit; barrier
    relay: barrier -> pin the delivery, start it on the browser's control socket; result
    host: directed replay (base, commit]; ReplayCommit; resume publisher
    relay: forwards directed frames to the browser's data socket; ReplayCommit -> synced
    browser: delivery start + frames -> coordinator -> replica; acknowledgements -> relay

Any step may be lost with a socket, overtaken by a reset or a reconnect, or time out.

    browser key -> dispatcher: number it within the epoch, send, keep it in the ledger
    relay: is this the live writer? stamp its fence, forward to the host; otherwise answer
           "uncertain" and close the browser's connection
    host: compare fence, writer and sequence number; write to the PTY; answer
    relay: answer -> the connection the key came from; dispatcher: verdict to the user

## 2. What is modelled, and how

Everywhere, an event is its sequence number, so a terminal's content is the sequence of the
numbers applied to it and "the authority's content after event *n*" is the sequence 1..*n*.
The PTY offset is a function of the sequence number and is left out; session epoch, engine
and stream id are constant (the paths that refuse a mismatch of these are not modelled).
Async functions are cut at their awaits: what runs between two awaits is one action.

### SessionCoordinator

| model | code |
| --- | --- |
| `state`, `fence`, `cursor`, `delivery`, `pending`, `timer` | `#state`, `#generationFence`, `#activeCursor`, `#delivery`, `#pendingFrames`, `#restoreTimer` |
| `screen`, `draft` | the content of the visible replica and of a restored candidate |
| `ready`, `opening` | the frames `#drainPendingFrames` still has to accept; the rest of `startSnapshot` after it |
| `restores` | calls of `load` and `restore` in flight, each with "its attempt is still the last" |
| `acked` | the last cursor given to `onAcknowledge` |

`FenceDeliveryGeneration`, `StartWarmReplay`, `StartSnapshot`, `AcceptData`, `Close` are the
public methods; `ConflictingStart` is the error path of `#acceptDeliveryStart`.
`AcceptFrame` is `#acceptFrame` with one operator per outcome. A frame is accepted one at a
time inside the drain loop, which holds a lock (`Returned`) until it ends, because no other
handler may run in between. `FinishRestore`, `FinishSupersededRestore`, `RestoreFails`,
`RestoreDeadline` are the continuations of the awaits.
Arguments are arbitrary: any frame of any generation, any start, any number of times. The
module therefore needs no model of the relay and holds for whatever it sends.

### HostLink, HostDelivery, RelayDelivery, Delivery

`toRelay` and `toHost` are the two directions of the pair of sockets. The data socket and
the control socket share one queue towards the relay, because the relay processes what the
host sends in one serial queue and each side's messages of one kind are the only ones whose
order matters (host-ready precedes all data; barriers travel on the data socket).

| model | code |
| --- | --- |
| `head`, `tail` | the session's cursor, and the oldest base from which a warm replay is allowed |
| `sent`, `paused` | `CanonicalPublisher`: `#lastSentCursor` (its queue is `sent + 1 .. head`), `#paused` |
| `pend`, `cold`, `pass` | `DeliveryRecoveryQueue`: `#pending`, `#cold`; the pass `#drainRecoveries` walks |
| `active` | `#activeRecovery` and the locals of `#recover` |
| `preps`, `build`, `cache` | `#coldPreparations`, `#coldBuildInFlight`, `SnapshotCheckpointCache` |
| `outbox`, `credit` | `#pendingDataFrames` and the one data message that may be unacknowledged |
| `FlushDue` | the flush that `#enqueueData` schedules as a microtask |
| `MaxQueue`, `MaxReplay` | the publisher's soft limit (1024 frames, 8 MiB); the legal size of a replay (512 frames, 256 KiB) |
| `link`, `fault` | the state of the pair on the host, and why the host closed it |
| `doHead`, `host`, `readying` | the relay's canonical head; the current pair; `handleControl` awaiting its resets |
| `gen`, `ctl`, `dat` | per client: delivery generation, control socket state, data socket attachment |
| `resets` | resets that await their digest |
| `published` | the cut of the newest published snapshot |
| `blame` | why the relay last failed the host pair |

A frame that is handed to the data socket while no batch is unacknowledged is flushed in a microtask, before
any other task runs. So wherever `FlushDue` holds, nothing happens on the host but the flush, and what the
relay does; a frame waits in the outbox only behind an unacknowledged batch. What the code does in one task
(a turn of the publisher, one frame of a replay) is a step here, with a flush between two steps, so that
batches may be smaller than the code's and are never larger. `Replayable` is the test of
`#deliverWarm` and `#deliverPreparedCold`: the journal still reaches the base, and the tail is of legal size.
`LinkAssumption` has `MaxReplay <= MaxQueue`, as the code's limits are in frames and in bytes, and
`ColdIsNotBehind` rests on it: pressure leaves more than a legal tail between an old checkpoint and
the head.

The phases of a recovery are `pausing` (pauseCanonical awaited), `flushing` (flushThrough),
`queued` (the barrier is in the outbox), `uncertain` (it is on the wire, its answer is
not here), `pinned` (directed replay). The code calls the first three pre-marker. An abort is a
flag that the next `throwIfAborted` sees, except while the barrier is queued, when it makes
the await reject at once.

Actions joined across the modules: `HostConnects` (the relay accepts both sockets, the host
sends host-ready) and `SnapshotPublished` (the relay's record and the host's continuation).
Everything else is a step of one side that touches only the queues of the other.

`fault` and `blame` are history variables: they hold the reason of the last close, so that a
property can say which reasons never occur. They are reset by the next connection.

### BrowserLink, RelayConnections, BrowserSession, BrowserConnection

| model | code |
| --- | --- |
| `upgrades` | WebSocket requests under way, or awaiting the digest of their ticket in `acceptSocket` |
| `ctlWire`, `dataWire`, `up` | the sockets the page holds, the frames to it and from it |
| `client`, `gen` | the row of `client_delivery`: missing, reserved or registered; its generation |
| `tickets`, `sets` | `connection_ticket`; how many connection sets were reserved |
| `control`, `data` | the client's open sockets with what their attachments hold |
| `closed` | sockets that closed and whose `webSocketClose` has not run |
| `resets`, `attaching` | resets that await a digest; attaches that await the writer lease |
| `host` | whether a host has answered host-ready and is not lost (`currentHostControl`) |
| `page` | the fields of `BrowserTerminalSession`, its connection and its coalescer, and of the coordinator what they tell apart |
| `others` | the tickets of a second page that shares the client |
| `faults` | how many things have gone wrong |

A socket is named by its ticket: the connection set, the channel and the generation.
A callback of the page is a function of `page` (`ControlEvent`, `ReconnectTimer`, ...), which
may compose others as the code calls them; `PageBecomes` opens and drops the sockets that the
function changed and puts on the wire what it sent. JavaScript runs a callback and its
microtasks to the end, so that what aborting an attempt rejects (its `catch` and `finally`)
happens in the step that aborts it. The page is told of a close after the `readyState` has changed
(`ControlSeenClosing`). A deadline that fires while what it awaits may still come is a fault
(`Late`), and one that fires when nothing can come any more is not.
`StartRecovery`, `Replay` and `Output` stand for the host, which `Delivery` models; that a snapshot
is not behind the cursor the client attached with is `ColdIsNotBehind` there. `HostGone` is
`failCurrentHost`, or the control socket of another host: the browsers are told (`host-offline`), their data
sockets leave synced without a close (`markBrowserDataCatchingUp`), and a host-ready that still awaits its
resets ends. The code has one state, catching-up, for all that follows; the model tells apart what it then has
in its cursors (`missed`: it had attached; `stalled`: it was pinned; `demoted`: it was synced), and none of the
three is sent anything. `HostReady` names the host's head and begins a reset of every attached browser; no
canonical event comes before those are done, since the host waits for its ACK. The page remembers `hostOnline`
and shows the phase "offline", which the next frame that makes the terminal live overwrites, as in the code. The
broadcast and the demotion are one step, as they are in the code, and so is all of host-ready up to its await. The
host counts as lost once per fault; its return is not one, and is fair. While it is away, a deadline of the page
that passes costs a fault (`Busy`): the attach watchdog reconnects a page whose host is offline every 15 s,
which would use up every bound; with the host back, it may pass freely.
The second page only asks the relay for what a page may ask: a set, and its two sockets.
Not modelled: the phase refresh when a superseded restore ends late, the thresholds that flush an acknowledgement before its timer (the timer may fire at
once), the eviction of inactive clients, and a resync without a ticket (another engine or epoch).

### BrowserInput

| model | code |
| --- | --- |
| `authority` | `#authority` of `InputDispatcher` (state, epoch, highest fence), and the lease of `BrowserWriterSession` |
| `intents` | the ledger's records in order of consumption: phase, identity, result |
| `admitting` | `#admissionScheduled` |

`ConsumeRefused`, `ConsumeState` and `ConsumeKey` are the outcomes of `#consume`: refused
before admission (malformed, policy, byte limits, mouse gate, not a writer), waiting for the
admission microtask, or, for a key, admitted at once. `AdmitAndSend` is `#admitPreAdmission`
together with the send decisions of `#drainQueue`: the production scheduler runs them inline,
so no intent stays in the phases queued and sending between two steps. A resize may supersede
the one that waits before it, and a new epoch consumes the latest resize again. Ages are not
counted: `#expireDeadlines` may find any deadline passed, in the order in which deadlines of
one phase were set. An epoch is named by its fence, since an attachment that is accepted
generates a new epoch for a fence higher than all before. The relay and the transport are
arbitrary (`RelayStep`): any welcome, revocation, loss and acknowledgement at any time.
Not modelled: `acceptTombstoneProof`, which production never calls, and the eviction of old
terminal results.

### WriterLease

`lease` is the row `writer_lease`; `sock` each client's last control socket with the fence
and expiry of its attachment; `acquiring` the attaches that await the digest in `acquire`. A
socket that the relay has closed is `closing` until its close event, which releases its
lease, is handled. Time is not counted: a live lease may expire at any time, together with
the copy in the holder's attachment, as both hold one expiry, and a renewal that succeeds
changes nothing. `Acquire` is the whole continuation of the digest, with
`closeDisplacedWriters` and with the second half of `attach`.

### HostInput

`inputFence`, `inputWriter` and `inputResults` are the fields of the same names; `log` is a
history of the inputs that took effect and `answer` the last acknowledgement. `SubmitInput` is
`#commitSubmittedInput`, one disjunct per outcome in the order of its checks. Any identity may
be submitted at any time; whether a payload is valid is a choice. When the commit throws, the
effect may or may not have been taken, and the session fails. A host accepts a sequence
number that skips others, which `docs/input-core-plan.md:39` acknowledges; that the browser
leaves no gap is `WireHasNoGap`.

### HostSession

`offsets` is the history of canonical events with the PTY offset after each; `journal` holds
`#segments` and `#evictedCursor`; `subscriber` one subscription with what it has been given and
what waits. The message queue is no variable: `#drainQueue` commits one message after another
within one call, so that a message is a step, one that a callback enqueues is a later step, and
what is queued at a failure is answered as `RefuseUntouched` answers it. PTY output is one byte
and a resize none, so that offsets and event numbers differ; a frame counts one in the budgets.
The clock that seals and evicts by age is a choice at every append and replay.
`captureSnapshot` changes no state of the session and is left out; the session epoch is constant.
Dropping the journal and the subscriber gives `HostInput`, which is therefore both the model of
`#commitSubmittedInput` and the abstract specification the session implements.

### InputPipeline and InputContract

The three modules are instantiated over the variables of the composition, which adds the
page's connection, the queues of the four hops and the host's connection as each of its ends
sees it. Every intent is a valid key, so that it is sent in the step that consumes it; the
rest of `BrowserInput` (admission, coalescing) is checked there. `ForwardKey`, `RefuseKey` and
`RelayAck` are the input paths of `BrowserRelayController` and of `HostRelayController`. A
failed send closes the host's connection on the relay, but what was sent may still arrive:
`RelayLosesHost` and `HostLosesRelay` are separate steps.

`InputContract` knows only verdicts and effects. An intent takes effect at most once, after no
later one of its client, and only while its verdict is open or uncertain; a verdict is given
once; "written" means that it took effect, and "not sent" and "rejected" that it did not and
never will. `Promise` substitutes the ledgers' results and the host's log.

### SnapshotStore and SnapshotUpload

| model | code |
| --- | --- |
| `snapshot`, `upload` | the tables `snapshot` (in rowid order) and `snapshot_upload` |
| `session` | `latest_snapshot_id`, `recent_snapshot_id_1/2`, `snapshot_recent_candidates_json` |
| `usedKeys` | the attempt keys given out (`attemptKey`, with its random id) |
| `task`, `body` | `snapshotOperationOwners` and what each operation awaits; `activeSnapshotBodyUploadId` |
| `asked`, `alarm` | `snapshotMaintenanceRequested`; the alarm of the Durable Object |
| `awake` | whether the object is in memory |
| `pins` | the snapshots in the browsers' data attachments (`pinnedSnapshotIds`) |
| `bucket`, `strays` | R2, and the operations it may still perform though nobody awaits them |

`SnapshotStore` holds what the class does to its tables, each statement with the `WHERE`
that names the attempt; `SnapshotUpload` has one action per await. An action is the answer
of an R2 operation with what the code does until the next await. The effect on R2 is in the
same step: while an id is owned, only its owner touches its key, so nobody can see the
effect before the answer. The exception is an operation whose answer was lost by a timeout or a
restart. It becomes a stray and takes effect at any later time, or never.
`OperationFails` is a rejection or a deadline, `Crash` loses `task`, `body` and `asked` at
any step, and whatever wakes the object again runs `initialize` (`Wake`) or the alarm.
Time is not counted: a reservation may expire at any moment. An id is a snapshot whose
metadata is the same in every request, so the answers for a conflict do not occur.

An upload that is `uncertain` (R2 refused to abort, and the object is not there) keeps one of the
`UploadLimit` slots until its client comes back; `GarbageIsCollected` excepts it.

## 3. Runs

| run | instance | states | shows |
| --- | --- | --- | --- |
| `coordinator` | 3 generations, 3 events, budget 2 | 0.34 M | what is visible is a prefix and "live" is true, the budget holds, acknowledgements advance, restores end |
| `delivery_single` | 1 browser, 2 events, 2 generations, 2 pairs, no batching | 3,160,966 | the pin, synced browsers, every accepted recovery and the delivery are consistent through interruption, supersession, eviction and reconnection |
| `delivery_two_clients` | 2 browsers (symmetric), 1 event, 1 generation, batching | 880,594 | the stream is contiguous with an outbox and a credit in the middle; recoveries are serial: one pinned delivery |
| `delivery_liveness` | 1 browser, 1 event, 2 generations | 223,538 | catching up ends, the publisher resumes, host-ready is answered |
| `delivery_cold` | 1 browser, 3 events, 2 generations, replays of 1 event | 2,510,112 | whatever turns a recovery into a cold one, its snapshot is not behind the browser |
| `host_session` | 1 writer, 2 fences, 1 remembered result; 3 events, segments and budget of 2 | 0.28 M | inputs take effect once and in order, answers are true, replays are exact or refused, the subscriber misses nothing |
| `browser_input` | 3 intents, 2 fences, limits of 2 | 0.17 M | epochs have no gap on the wire, end at the first unknown outcome, limits hold, every intent gets a result, which is final |
| `input_pipeline` | 1 browser, 2 connections, 2 keys; 2 host connections | 0.68 M | the input path implements its contract through every loss |
| `input_takeover` | 2 browsers (symmetric), 1 key each, 2 fences | 1.4 M | the same across a change of writers; fences reach the host in order |
| `snapshot_upload` | 3 snapshots, 3 keys, 2 uploads at a time, 1 pin, 1 recent, 1 fault | 834,632 | what may be sent is stored, objects are tracked, the latest is the newest, garbage goes |
| `browser_connection` | 1 page, another page, 1 event, 2 faults | 577,354 | the page is never stranded, speaks and shows only its present delivery, misses nothing, is not cut off without a word, and recovers |
| `batch_pin` | 1 browser, 3 events, 1 generation, batching | violation | finding 1 |

Deadlock is checked in `host_session` and `browser_input`. Elsewhere it is not:
with every counter at its bound and every socket closed the instance stops, as does a
coordinator or a page that has been closed.

**Properties.** Each is stated in a comment where it is defined. The ones that carry the
promise: `ReplicaIsAuthorityPrefix` and `LiveIsCaughtUp` (what is visible is right and
"live" is true),
`StreamIsContiguous` (relay head, frames in flight and publisher queue add up to the
authority's events, whatever interrupted the publisher), `SyncedIsCurrent` (no synced
browser misses an event unnoticed), `DeliveryIsContiguous` (what one delivery is sent has no
gap), `ColdIsNotBehind` (no recovery puts a browser back), `PauseHasOwner` with `PublisherResumes`, `RecoveryIsAccepted` and `PinPausesStream`
(the host never gives the relay a reason to fail it), `CatchUpEnds` and `HostReadyIsAnswered`. Of a page: `NeverStranded` and
`PageRecovers` (whatever timer, socket or promise it last heard of, it has something to wait
for, and is live again once faults end), `FenceIsCurrent`, `DeliveryIsCurrent`, `LiveIsFed` and
`NothingIsSkipped` (page and relay speak of the same delivery, through every overtaking), and
`PageKeepsProtocol`. For input: `InputContract`, and what it rests on in each part:
`WireHasNoGap` and `OpenEpochIsProven` in the browser (an epoch is a gapless sequence that
ends with the first input whose fate is unknown), `FencesReachHostInOrder` on the relay,
`LogIsOrdered` and `AnswersMatchLog` on the host, and beside them `ReplayIsExact` and
`SubscriberMissesNothing`. For
snapshots: `PromisedSnapshotsAreStored` and `ObjectsAreTracked`, which must survive a restart
between any two steps and a late R2 operation, `LatestIsNewest`, and `GarbageIsCollected`.

**Bounds.** `MaxHead`/`MaxSeq` bound events, `MaxGen` delivery generations, `MaxPairs` host
connections, `MaxQueue` the publisher's soft limit, `MaxReplay` the events of a legal replay, `MaxOutstanding` the delivery credit (in
events), `MaxBuffered` the coordinator's frame budget. Two generations are one reset or one
reconnect in the middle of a delivery, and three let a coordinator meet a stale, a current
and a newer frame at once. With a soft limit and a credit of one event, two events reach the
limit, the interruption, and the slow-client reset; a third is needed for a checkpoint that is older than the
browser, with the limit passed above both. Two pairs are one loss of the host in
the middle of everything. `delivery_cold` has one pair, and its constraint (`PairLives`) stops where that pair is lost, since
nothing is delivered after it. Of input: two fences are one change of writers or one reconnect
with input in flight; three intents are one that is sent, one that waits behind it and one of the next epoch; one remembered result makes the
second input evict the first, and three events in segments of two under a budget of two make
the journal evict by size and by age, in the middle and at the head; one key of each browser suffices for a takeover, since
the order within one browser is the subject of `input_pipeline`. Three snapshots, of
which one is recent, one latest and one pinned or retired, reach every row of retention; two are cut at the
same point, for the tie in `#shouldAdvanceLatest`. The third key is either the third snapshot's
or the retry of one of two, so that a retired id which is uploaded again after a deletion
while two others exist needs a fourth key and is not covered. One fault lets any one operation fail or any one restart happen, together
with its stray. In `BrowserConnection`, `MaxSets` and `MaxGen` are larger than two faults can use and
never block a step; two faults are, for example, a reset and the loss of a socket in the middle of
the replacement, a failed restore and a loss, the loss of the host in the middle of either, or the appearance of the other page (which counts
two). The safety properties hold as well with two faults and two events (1.7 M states); with three
faults and no event a search was ended after 12 M states without a violation. At `MaxGen` a reset isolates the browser, as it does in the code
when the new ticket cannot be sent. Each property has a mutant of the code that the run's
own bounds refute (`PROJECT.json`, "mutants").

**Fairness.** Safety needs none. In `FairSpec`: weak fairness of what the two event loops
run as soon as it is ready (`DataMoves`, `Handles`, `Recovers` on the host; `Relays`), and of
noticing that the other side has closed the pair. No fairness is assumed of browsers, of
terminal output, of failures, or of timeouts. Two strong assumptions concern the
environment: `Captures` says that the delays before a snapshot capture are finite (the
code's backoff is bounded, so a request that keeps coming to its turn is due at last), and
`SnapshotPublished` says that uploads which are retried for ever succeed sometimes. Without
them a cold browser stays catching up, and should. In the coordinator, the armed restore
timer fires and a handler that has started returns. In `BrowserInput`, microtasks run and
timers fire; nothing is assumed of the relay. In `BrowserConnection`, one weak fairness of `Steps`:
as long as the page or the relay can run something, something runs: an event loop with work in it
does not stand still, timers are armed to fire, a socket delivers or closes, and a host that was lost comes back
(it reconnects until it is stopped); which of the ready
steps is taken is not assumed. In `SnapshotUpload`, maintenance jobs get their
answers from R2, time passes, and a maintenance run that was asked for begins or the alarm that is set goes off (Durable
Object alarms are retried); an upload need not get anywhere, so collection may not depend on it.

## 4. Findings

1. **A queued barrier survives its recovery** (`batch_pin`, `PinPausesStream`). With
   `host-data-batch-v1`, a barrier that is sent while a batch is unacknowledged stays in
   `#pendingDataFrames`. Queue pressure there still counts as pre-marker:
   `#abortRecoveryForPressure` resumes the publisher, but the barrier stays queued, with canonical
   events behind it (8192 frames fit there, the publisher's limit is 1024). With the next `data-ack` the relay
   pins the delivery, and it fails the host at the next event ("canonical data sequence gap").
   `docs/mvp-architecture.md:145` says that the host must keep its publisher paused while a
   delivery is pinned. In the trace the first event is the batch that is not yet
   acknowledged, the barrier waits behind it, and two more pass the limit. The pair reconnects and
   nothing is lost; the pressure that the interruption meant to relieve costs the connection. The stream's
   other properties hold with batching: `StreamIsContiguous` in `delivery_two_clients` shares the behaviour.

Besides this one, the models show behaviours that no document or comment contradicts in so many words,
or that the run's bounds leave out; they are excluded by name where a property would meet them.

2. **"Live" after host-offline** (`terminal-session.ts:317`, `:421`, `:548`). When the host is lost, an event
   that is still on its way on the data socket makes the phase live again after the host-offline frame has made
   it offline: `#syncDeliveryState` does not look at `hostOnline`, and the interface shows the phase only
   (`terminal-app.tsx:65`). So `LiveIsFed` asks that such a page has been told or is about to be, and not that
   it shows it. The next host-ready resets the delivery.
3. **Traffic before the host-ready ACK** (`host-relay-controller.ts:103`). The relay makes a host active
   before it awaits the resets that a host-ready causes. A browser that attaches meanwhile has its
   attach-request sent before the ACK, and the host closes the pair on its own assertion
   (`host-relay-connection.ts:272`, `fault` in the model). It reconnects, and `HostReadyIsAnswered`
   holds across it.
4. **A forgotten page** (`Forgotten` in `NeverStranded` and `Settled`; three faults). A restore fails
   after its connection was lost and schedules a snapshot retry, which belongs to no connection. The
   next connection starts another restore and is lost while the retry is pending, so that no
   reconnection is scheduled (`#scheduleReconnect` leaves it to the retry). The second restore, which
   nobody cancels, ends, and `#syncDeliveryState` cancels the retry because the coordinator is live
   (`terminal-session.ts:548`, `:663`). The page shows a live terminal without a connection and
   without a timer, until its user reconnects.
5. **A replaced page that takes its client back.** `docs/e1-browser-input-admission.md:86` and the comment at
   `terminal-session.ts:335` have a replaced page wait for its user. If the page finds the socket
   closing through a send or its heartbeat before the close event tells it why, it reconnects by
   itself (`ControlSeenClosing`, then `HeartbeatFails` or `Flush`). No property claims otherwise.
6. **An acknowledgement that crosses the loss of the data socket** finds no delivered cursor, and the
   relay closes the control socket too (`browser-delivery-controller.ts:225`); an attach that crosses it finds
   no data socket. The page recovers; `PageKeepsProtocol` excepts these two blames.
7. **Evicted clients** (`relay-connection-store.ts:391`, by reading only): their generations start at one
   again, and a coordinator that is fenced higher ignores what it is sent.

## 5. Proofs

`SessionCoordinator_proofs.tla` proves, for every `MaxGen > 0`, `MaxSeq` and `MaxBuffered`
(`BoundsAssumption`, which TLC evaluates in the run):

- `TypeCorrect`: `Spec => []TypeOK`
- `VisibleReplicaIsAuthorityPrefix`: `Spec => []ReplicaIsAuthorityPrefix`
- `LiveTerminalIsCaughtUp`: `Spec => []LiveIsCaughtUp`
- `RestoresAndFramesAreFenced`: `Spec => [](CurrentRestoreIsOfDelivery /\ PendingIsFenced)`

The first three properties hold for whatever the environment sends, in any order and any number of
times. All rest on `Invariance`: `Spec => []IInv`. None of the invariants is inductive alone. That
the replica stays a prefix needs to know, for an event applied to it, that the live
candidate's cursor is what the delivery has received (`DeliveryInv`); for an adopted restore,
that its draft is the authority's content at `applied` (`DraftInv`), which needs that the
buffered frames continue the cut (`BufferInv`) and that the restore in flight is the current
delivery's, from its cut (`CurrentRestoreIsOfDelivery`). `OpeningInv` and `DrainInv` say what
holds between the steps of a handler that runs frame by frame, and `PendingIsFenced` that the
drain loop's generation filter never has to split its input. `StepInv` has one lemma per
action; `AuthorityAppend` and `AuthorityConcat` are the two facts about content. Every
conjunct was checked by TLC before it was proved.

On that invariant rest three theorems about steps:

- `AcknowledgementsNeverRegress`: `Spec => AcknowledgementsAdvance`. A property of steps; it needs
  `AckInv`: the last acknowledgement is of no generation above the fence; in the fenced generation it
  is not ahead of what the delivery has received; and where there is no delivery it is of an older
  generation, so that the next start cannot begin below it.
- `HeldFramesAreBounded`: `Spec => []BufferWithinBudget`. The budget is shared by the frames held for a
  start and those held for a restore; the drain loop moves frames from one to the other, so that what
  it still has to move counts too.
- `HalfRestoredIsNeverShown`: `Spec => ReplacedOnlyByCommittedRestore`. The screen changes by one
  event, or by an adopted restore whose commit has been received.

The stream numbers are bounded in the model because the code's are (2^64 - 1); the proofs
use no bound of an instance.

`BrowserInput_proofs.tla` proves, for any clients, kinds, fences and limits, with "key" among the kinds
(`BrowserInputAssumption`):

- `WireIsGapless`: `BrowserSpec => []WireHasNoGap`. What is admitted together is numbered by rank, so
  it needs that ranks have no gap (`RankDescends`, `EveryRankIsHeld`); across admissions it needs that
  every number of an open epoch is on the wire (`Whole`), and that what waits comes after
  everything that was numbered (`WaitingIsLast`).
- `OpenEpochsAreProven`: `BrowserSpec => []OpenEpochIsProven`. A new epoch has no identity yet because
  its fence is higher than any intent's (`Fenced`).
- `LimitsHold`: `BrowserSpec => []LedgerWithinLimits`; `LowRanksAreFew` counts what an admission adds.
- `ResultsStayFinal`: `BrowserSpec => ResultsAreFinal`.
- `BrowserInputTypes`: `BrowserSpec => []BrowserTypeOK`; that no number leaves its range needs
  `HasRoom`: an epoch has numbered no more intents than were consumed and do not wait.

The invariant, `LedgerInv`, relates one authority to one ledger, and one lemma (`LedgerEnds`) is for all
steps that only end intents and take authority away. Its conjuncts were checked by TLC on the instance
of `browser_input` before they were proved.

`HostSession_proofs.tla` proves about `HostInput`, for any clients, epochs, bounds and `DedupEntries > 0`
(`HostInputAssumption`), `HostInputTypes` (`[]TypeOK`), `InputsTakeEffectOnce`
(`[]LogIsOrdered`) and `AcknowledgementsAreTrue` (`[]AnswersMatchLog`). The invariant adds that
the log holds no fence above `inputFence`, that the entries of the current fence are of the
bound writer and not above its high water, and that a remembered "written" is in the log.

It then proves that the session implements that sequence, `SessionImplementsInput`
(`Spec => HostInputSpec`), for every size of journal and segment: each step of the session is a
submission, an end, or leaves the six variables of `HostInput` alone. The initial states and the
steps map by the identity, as the session's variables are those of `HostInput` and three more.
`SessionInputsTakeEffectOnce` and `SessionAcknowledgementsAreTrue` follow. `host_session` checks
the same two on its instance, where inputs, resizes, failures and subscribers interleave.

Of the session's output it proves, for every budget and segment size and however often the clock cuts a
segment:

- `ReplaysAreExact`: `Spec => []ReplayIsExact`. A range of the journal is returned exactly when it is
  retained, and is then the events of the range in order.
- `SubscribersMissNothing`: `Spec => []SubscriberMissesNothing`.

`JournalIsChain` describes the journal: its segments are the events from the evicted cursor to the last one,
cut at growing cursors, each segment with one event at least. What `replay` flattens is then the stretch of
events from the base on. `SubscriberIsFed` says that what a subscriber was given, what is left of its
replay and what waits for the end of it are together the events after its cursor. Flattening
is an induction over the segments; since the induction theorems of the library cannot be used, it is
done with a smallest counterexample: the least number of segments for which the claim fails
is not zero, and one segment fewer gives it.

`Delivery_proofs.tla` proves, for any set of clients, any bounds, and with or without batching
(`LinkAssumption`):

- `DeliveryTypes`: `Spec => []TypeOK`. It needs two facts that no variable's type says: a recovery
  that has come to its commit has one, and a client of the host session has a generation.
- `StreamContiguity`: `Spec => []StreamIsContiguous`. A frame of the stream is followed through the
  publisher's queue, the outbox, and the wire; what interrupts the publisher moves the same events
  from one to the other. `StreamInv` says it of both ends of the link, since the property speaks of
  the current connection only, and a connection begins where both sides say they are. Without
  batching the outbox is always empty, and the wire leads to what was sent even after the host has
  closed the connection: the recovery proof needs that much.
- `PauseIsOwned`: `Spec => []PauseHasOwner`, through every way in which a recovery ends.
- `SyncedStaysCurrent`: `Spec => []SyncedIsCurrent`, and `DeliveryContiguity`:
  `Spec => DeliveryIsContiguous`. A delivery is pinned at the relay's head, and the head stays there
  while it is pinned, unless the host reconnects and a reset of every delivery is due
  (`HostResetDue`); so a browser that becomes synced has been sent everything, and whatever a synced one is
  then not sent ends in a reset of it (`SyncOf`, `ResetDue`). `NextKept` has one proof per action for
  the invariant and the action property together, since both are about the same change of one client
  (`Kept`).

Its second part proves, for any set of clients and any bounds, under the hypothesis
`~DataBatch`, that the host and the relay agree about recoveries:

- `RecoveryAcceptance`: `Spec => []RecoveryIsAccepted`. No barrier and no frame of a replay is refused.
- `PinsPauseTheStream`: `Spec => []PinPausesStream`. No canonical event finds a delivery pinned.
- `PinsAreSerial`: `Spec => []OnePinnedDelivery`.

The hypothesis cannot be dropped: with batching, `batch_pin` refutes `PinPausesStream` (finding 1). A pair
that has not negotiated batching is the system they are about; with batching,
`OnePinnedDelivery` is checked by `delivery_two_clients` and not proved. None of the three is inductive. The
invariant, `RecoveryInv`, follows one request through both processes:

| Part | What it says |
|---|---|
| `PhaseInv` | a recovery holds the publisher from its capture on, unless it has been aborted |
| `QueueInv`, `AttachInv` | a request waits in one place: the wire, the queue, behind the running recovery, or behind the build of a checkpoint |
| `RequestsInv` | while it waits, its delivery stays as it was when it attached (`Untouched`, `From`), and no newer attachment has its generation |
| `WireInv` | a barrier is the last frame on the wire and names the recovery that runs; a replay is the first frames, its commit after its directed frames; a ready host has at most one answer on its way, and nothing else on the wire then |
| `ReplayInv` | the i-th frame of a replay goes on where the delivery's cursor will be after i - 1 frames, and the host's next one after all of them |
| `PinInv` | a pinned delivery is the one being replayed, its commit is on the wire, or its reset is under way |
| `CutInv`, `ControlInv` | a recovery from a snapshot has one; a client without a control socket has no delivery |

The hard part is what is left of an old recovery. A request may be aborted, superseded
or orphaned by a lost connection while its barrier, its answer, or half of its replay is on
the wire, and the host may have begun the next one: so `RunInv` speaks of any replay on the wire and not
only of the running one, and what is on the wire concerns a delivery only while the delivery `Feeds`,
that is, while its generation is current and no reset of it is due. `RecoveryIsAccepted` and
`PinPausesStream` speak of `blame`, the reason for which the relay last closed the pair, so the proof
shows of each frame at the head of the wire that the delivery's state admits it.

`SnapshotUpload_proofs.tla` proves, for any snapshots with any cuts and any limits
(`SnapshotStoreAssumption`), `PromisedStayStored` (`[]PromisedSnapshotsAreStored`),
`NothingIsOrphaned` (`[]ObjectsAreTracked`) and `LatestStaysNewest` (`[]LatestIsNewest`), however
many operations fail, are late, or are cut off by a restart. All are consequences of
`UploadInvariant` (`SnapshotSpec => []Inv`). The hard case is the operation whose answer was lost: it
may still delete. `StraysInv` says that it deletes nothing but what was retired or given up, and for
that needs that a key belongs to one attempt for ever (`KeysInv`) and that the state of an upload tells
what its key may hold and which operation the task that owns it awaits (`AttemptsInv`). `BucketInv`
then has the stored object of every servable row, and `LatestInv` that retention, in whatever order
it lists candidates, lets go of no pinned row and not of the latest. The lists of candidates are
computed by folds and filters, of which the proofs use only what keeps those two rows; that
is why `Inv` has no type for them, and why the type invariant stays with TLC.

`BrowserConnection_proofs.tla` proves, for any bounds on sets, generations, events and faults
(`BrowserLinkAssumption`, `BrowserConnectionAssumption`, which ask that they are natural numbers and that there
is one of what is needed to begin):

- `TypeCorrect`: `Spec => []TypeOK`.
- `DeliveryStaysCurrent`: `Spec => []DeliveryIsCurrent`.
- `FenceStaysCurrent`: `Spec => []FenceIsCurrent`.
- `NothingGetsLost`: `Spec => []NothingIsSkipped`.
- `ProtocolIsKept`: `Spec => []PageKeepsProtocol`, and `LiveStaysFed`: `Spec => []LiveIsFed` (both in
  `BrowserProtocol_proofs.tla`, which builds on the other).

The first of the invariants is the relay's. `DeliveryIsCurrent` says nothing of the client's row, but it is the
row that a data ticket is compared with: `ConnInv` adds that an
open control socket carries the row's generation, that the row of a client with a control socket is
registered, so that it does not go when its tickets expire, and that an attach that awaits the lease
came from a control socket (`AttachInv`). It holds whatever the page does, so a page appears in
that proof only as something that asks for sockets and sends frames (`PagePreserves`).

The rest relates the two ends. `PageMoves` lists what a step of the page can be; each callback is
a composition, and has a lemma that says what it leaves alone and what it closes, opens and sends. The
invariants build on each other:

| Part | What it says |
|---|---|
| `BaseInv` | the types, and what they rest on: the fence of the coordinator is the connection's generation, a generation known to the page has been given out |
| `LinkInv` | a ticket is used once and by one socket; the wires, the upgrades and the tickets that the page waits for are of its own connection set; a socket that the relay has closed is closed for the page too, or the close is on the wire, or its `webSocketClose` has not run |
| `StreamInv` | a delivery is one of four things: not yet started (`Unfed`), announced by a start that is on the control wire (`Announced`), followed by the coordinator (`Followed`), or given up by it (`GivenUp`); in each the data wire holds exactly the frames after a certain one of the stream, and what the relay has sent is the last of them |
| `WordInv`, `LastWord` | the last word on the host: while the data socket is demoted, host-offline is the last thing the page was told of it or is about to be told (`LastWord`), and nothing that says otherwise is behind it on the control wire |
| `TalkInv` | what the page says to the relay: no cursor of the page, of a start or of a frame is above the head (`CursorInv`); no generation is spoken of before the relay has begun it (`GenInv`); a delivery is attached once, and while its data socket awaits that (`AttachOnce`), not before both sockets are open (`OpeningInv`) nor while its ticket is unused (`UnusedInv`); a data socket that the page believes to be gone is gone (`GoneInv`); the acknowledgements on their way are of what has been sent and do not go back (`AcksOnTheWay`, `AcksOfPage`) |

`Announced` is the hard one: the start and the data frames are on two sockets, so frames
may arrive before the start they belong to, and the coordinator holds them. When the start comes, they are
folded into the delivery; that the fold accepts all of them, in order, and leaves everything else alone is
proved from the recursive function of the fold, again by a smallest counterexample. `NothingIsSkipped`
speaks of a `current` connection: after three faults a connection that the page has given up can hold a
coordinator that skips, which no user sees.

`ProtocolIsKept` is about the other direction. The relay closes the sockets of a client that attaches twice,
attaches ahead of the head, or acknowledges what it was not sent, and what it compares these with changes while the
frames are on their way. `PageSpeaks` shows that a callback says nothing, attaches, or acknowledges;
`RelayHears` that the relay consumes the first frame, and names the one condition under which it has
cause to blame the page for it; `TalkInv` excludes that condition. `GoneInv` is why a page
that attaches again does not attach the same delivery: it asks for a new data socket only once the old one can no
longer be accepted. The frames that `PageKeepsProtocol` excepts are those of a delivery whose data socket was lost
while they were on their way (section 4).

`InputPipeline_proofs.tla` is about input from the key to the PTY. First the lease by itself, for any
set of clients and any bounds (`LeaseAssumption`):
`LeaseTypes`, `LeaseAndWriterAgree` (`[](WriterHoldsLease /\ LiveLeaseHasHolder)`),
`AtMostOneWriter` (`[]OneLiveWriter`), and the action properties `FencesGrow` and
`LiveLeasesAreKept`. `OneLiveWriter` is not inductive; that every live writer holds the one
lease is, together with the types, which say that a socket that awaits its attach has no
fence. The action properties follow from `LeaseChanges`: only an acquire changes the holder,
when the lease is not live.

Then the composition, for any browsers, keys, fences, connections and size of the host's table of
results (`LeaseAssumption`, `PipelineAssumption`), whatever connections are lost and in whatever order:

- `PipelineKeepsLease`: `PipelineSpec => LeaseSpec`, so that what is proved of the lease holds here.
- `EveryWelcomeIsFresh`: `PipelineSpec => []WelcomesAreFresh`.
- `HostHearsFencesInOrder`: `PipelineSpec => []FencesReachHostInOrder`.
- `PipelineKeepsContract`: `PipelineSpec => InputContract`. The three programs together implement the
  abstract specification: an input takes effect at most once and after no later one of its client, and
  what the user is told is true.

The invariant, `PipelineInv`, is the lease's, that of `HostInput` (as `Answers!IInv`, from
`HostSession_proofs`), and what joins them:

| Part | What it says |
|---|---|
| `Ledgers` | the identities of a browser grow with the order of consumption (`InOrder`), so that one names one intent; the next identity of an epoch is above all its others |
| `Links` | what a page has of its connection is of that connection: a welcome is the first frame on it and has its fence, and the keys on it are of its epoch; no browser knows a fence above the lease's |
| `FencesAreLeases` | the lease's present fence is one connection's, on the way to the host and in the host |
| `SentOnce` | an input is at most once on its way, in one queue |
| `Underway` | an input on its way has not taken effect, and its user is not told that it was refused |
| `EffectsAreInputs` | what took effect is an intent of a browser, and its user is not told that it did not |
| `AnswersAreTrue` | an acknowledgement on its way is true and stays so until it arrives: a "rejected" one is of an input that is on its way nowhere |

The first three are what makes one writer's keys precede the next one's; the last four are what makes
a verdict final. A key that is refused while its forwarding may have succeeded shows why they are
needed: it is answered "uncertain", the only status of which `Justified` asks nothing, and it may still
arrive (`RefuseKey`, whose mutant answers "rejected"). For the contract, each step of a browser that
ends intents is a `Report` (`EndsAreReported`), a key is a `Report` (`KeyIsReported`), an input that
the host takes is a `TakeEffect` of a later place than those before (`EffectIsTaken`), and all other steps
change neither the ledgers nor the log and are stutters (`NothingIsTold`). The place of an input among
the intents is a CHOOSE, which `PlaceNamed` shows to be the one intent that it names.

Proved and in no run: the types of the coordinator, of delivery, of the browser's input, of the input
sequence and of the lease,
`CurrentRestoreIsOfDelivery`, `PendingIsFenced`, `ReplacedOnlyByCommittedRestore`, `FencesGrow`,
`LiveLeaseIsNotTaken`, and `WriterHoldsLease` with `LiveLeaseHasHolder`, from the first of which
`OneLiveWriter` follows; all were checked by TLC before they were proved. Only
model-checked: `OnePinnedDelivery` of `Delivery` with batching; the types of `SnapshotUpload`; of
`BrowserConnection` `NeverStranded`, which is no theorem: with four faults TLC finds it
violated, so that it holds for the number of faults of the run only; and what is liveness: `RestoreEnds`, `CatchUpEnds`, `PublisherResumes`, `HostReadyIsAnswered`,
`GarbageIsCollected`, `PageRecovers`, and that every intent gets a result.

Out of the prover's reach, and left to TLC: liveness under fairness. Folds and the flattening of a
sequence are recursive functions, so that what the proofs need of them is within reach, one claim at a
time.

## 6. Plan

Done: the coordinator, delivery, input from key to PTY, snapshots, the host session with its journal, and
the page with the relay's connections. Left, in this order:

1. **RelayQueues**: the serial and the keyed queue of the Durable Object, their limits and expiry.
2. The reconnect loop of the host, with its backoff.
3. `Forgotten` (section 4): a run with three faults that states what a page should do, once a
   document of the repository says so.
4. An abstract specification of delivery (each browser: absent, catching up, or current,
   with the prefix it was sent) that `Delivery` implements under a refinement mapping.
5. Proofs: the abstract specification of item 4.
6. To look at in SnapshotUpload: whether uploads that stay uncertain can fill all slots
   (`docs/mvp-architecture.md:182`), and a retired id that is uploaded again.

New runs replace the ones they subsume: `coordinator` and the delivery runs keep one instance
for each question, and a module whose invariants are proved needs no run of its own when a
composition already exercises its actions, as with WriterLease and HostInput.

## 7. What is not modelled, and why

Encodings (`packages/protocol`), the HTTP routes, the wasm engine and the PTY binding are
pure conversions or input and output; of the wire format only the identity of a frame
matters here. The user interface, the CLI and the benchmark scripts have no protocol state.
Heartbeats, tickets and inbound control limits are left out of `Delivery` (the first two are in
`BrowserConnection`), and the limits of the relay's control lane out of `InputPipeline`, until the
modules planned above. Hibernation of the relay loses no state that these modules have: sockets keep
their attachments and the rest is in SQL; `SnapshotUpload`, whose operations do live in memory,
has restarts. The batch fast path of
the relay (`host-data-batch-processor.ts`) is modelled by its result, which is that of handling its
frames one by one. Mismatches of engine or epoch (a host restart with a new session) are not
modelled: `Delivery` is about one epoch.
Of snapshots: the batch limits of maintenance and the migration of a table that is over its limits
(`snapshot_retention_backlog`), conflicting metadata, the HTTP layer, and the case that
maintenance cannot set its alarm.

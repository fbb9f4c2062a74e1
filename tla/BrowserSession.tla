--------------------------- MODULE BrowserSession ---------------------------
(***************************************************************************)
(* A page's terminal session (terminal-session.ts), the relay connection   *)
(* it owns (browser-relay-connection.ts), its acknowledgement coalescer    *)
(* (delivery-ack-coalescer.ts), and of SessionCoordinator, which has a     *)
(* module of its own, what the session tells apart.                        *)
(*                                                                         *)
(* JavaScript runs one callback at a time, with the microtasks it queues,  *)
(* so the callbacks are functions of the page and compose; BrowserTasks of *)
(* BrowserConnection says when they run.  What aborting a connection       *)
(* attempt rejects is settled in those microtasks.                         *)
(***************************************************************************)
EXTENDS BrowserLink

VARIABLE page

NoConnection == [set |-> 0, gen |-> 0, control |-> "none", data |-> "none", current |-> FALSE]
NoAcks == [last |-> NoSeq, pending |-> NoSeq, timer |-> FALSE]
NoOffer == [set |-> 0, gen |-> 0]

\* Its sockets are "none", "opening", "open" or, once the relay has closed them and their
\* close event is due, "closing"; it is current when it is of the present connection epoch.
Connection ==
    [set : 0 .. MaxSets, gen : 0 .. MaxGen,
     control : {"none", "opening", "open", "closing"}, data : {"none", "opening", "open"},
     current : BOOLEAN]
Offer == [set : 0 .. MaxSets, gen : 0 .. MaxGen]

\* What #connectPromise awaits.
Attempt == {"none", "reserving", "offered", "control", "data"}
Phase ==
    {"idle", "reconnecting", "attaching", "restoring", "live", "offline", "displaced", "failed",
     "closed"}

\* received is the delivery's cursor, cursor the visible replica's.
Coordinator ==
    [state : {"idle", "awaiting", "restoring", "replaying", "live", "resyncing", "closed"},
     fence : 0 .. MaxGen, cursor : MaybeSeqs, received : MaybeSeqs,
     candidate : {"none", "restored", "live"}, committed : BOOLEAN, pending : Seq(DataFrame)]
Acks == [last : MaybeSeqs, pending : MaybeSeqs, timer : BOOLEAN]

Page ==
    [connection : Connection, attempt : Attempt, offer : Offer,
     reconnect : BOOLEAN,      \* #reconnectTimer
     retry : BOOLEAN,          \* #snapshotRetryTimer
     grace : BOOLEAN,          \* #dataFailureTimer
     watchdog : BOOLEAN,       \* #attachStartTimer
     phase : Phase, hostOnline : BOOLEAN,
     refused : BOOLEAN,        \* lastError is "authentication"
     blocked : BOOLEAN,        \* #automaticReconnectBlocked
     coordinator : Coordinator, acks : Acks,
     out : Seq(PageFrame)]     \* what the callback sends

NewPage ==
    [connection |-> NoConnection, attempt |-> "none", offer |-> NoOffer,
     reconnect |-> FALSE, retry |-> FALSE, grace |-> FALSE, watchdog |-> FALSE,
     phase |-> "idle", hostOnline |-> TRUE, refused |-> FALSE, blocked |-> FALSE,
     coordinator |-> [state |-> "idle", fence |-> 0, cursor |-> NoSeq, received |-> NoSeq,
                      candidate |-> "none", committed |-> FALSE, pending |-> <<>>],
     acks |-> NoAcks, out |-> <<>>]

IsClosed(p) == p.phase = "closed"
Connected(p) == p.connection # NoConnection

-----------------------------------------------------------------------------
(* Connection attempts *)

\* #scheduleReconnect, outside an attempt.  While a retry is pending the phase it leaves
\* makes no difference.
ScheduleReconnect(p) ==
    IF IsClosed(p) \/ p.blocked THEN p
    ELSE [p EXCEPT !.reconnect = @ \/ ~p.retry, !.phase = "reconnecting"]

\* #invalidateFullConnection; an attempt it aborts schedules the next one.
Disconnect(p) ==
    [p EXCEPT !.connection = NoConnection, !.attempt = "none", !.offer = NoOffer,
              !.grace = FALSE, !.watchdog = FALSE, !.acks = NoAcks]

\* #failFullConnection, #protocolFailure, and the failure of an attempt.
FailFullConnection(p) == ScheduleReconnect(Disconnect(p))

\* #startFullConnection, and #connectFull up to its request.
StartFullConnection(p) ==
    IF IsClosed(p) \/ p.blocked \/ p.attempt # "none" THEN p
    ELSE [p EXCEPT !.attempt = "reserving", !.phase = "reconnecting", !.grace = FALSE,
                   !.refused = FALSE, !.connection.current = FALSE]

\* Mutant: an attempt that is aborted is not followed by another.
RestartUnlessAttempting(p) ==
    IF p.attempt = "none" THEN StartFullConnection(Disconnect(p)) ELSE Disconnect(p)

\* What follows an invalidation that does not wait for the reconnection delay.
Restart(p) ==
    IF p.attempt = "none" THEN StartFullConnection(Disconnect(p)) ELSE FailFullConnection(p)

ReconnectNow(p) ==
    Restart([p EXCEPT !.blocked = FALSE, !.retry = FALSE, !.reconnect = FALSE])

Close(p) ==
    [Disconnect(p) EXCEPT !.reconnect = FALSE, !.retry = FALSE, !.phase = "closed",
                          !.coordinator.state = "closed"]

\* The reservation answers 401 or 403.
AuthenticationFails(p) == [Disconnect(p) EXCEPT !.phase = "failed", !.refused = TRUE]

\* #scheduleSnapshotRetry, which looks at no connection.
ScheduleSnapshotRetry(p) ==
    IF IsClosed(p) \/ p.blocked \/ p.retry THEN p
    ELSE [p EXCEPT !.retry = TRUE, !.phase = "reconnecting"]

-----------------------------------------------------------------------------
(* Critical control frames and acknowledgements *)

Send(p, frame) ==
    IF p.connection.control = "open" THEN [p EXCEPT !.out = Append(@, frame)]
    ELSE FailFullConnection(p)

Sent(p, q) == q.out # p.out

\* DeliveryAckCoalescer.#flush
Flush(p) ==
    LET cursor == p.acks.pending
        idle == [p EXCEPT !.acks.pending = NoSeq, !.acks.timer = FALSE]
        sent == Send(idle, [kind |-> "ack", gen |-> p.connection.gen, cursor |-> cursor])
    IN  IF cursor = NoSeq THEN idle
        ELSE IF Sent(p, sent) THEN [sent EXCEPT !.acks.last = cursor] ELSE sent

\* DeliveryAckCoalescer.acknowledge: while live, wait for more; the thresholds that flush
\* earlier are not modelled, since the timer may fire at once.
Acknowledge(p, cursor) ==
    LET previous == IF p.acks.pending # NoSeq THEN p.acks.pending ELSE p.acks.last
        queued == [p EXCEPT !.acks.pending = cursor]
    IN  IF p.connection.gen # p.coordinator.fence \/ cursor = previous THEN p
        ELSE IF cursor < previous THEN FailFullConnection(p)
        ELSE IF p.acks.last = NoSeq \/ p.coordinator.state # "live" THEN Flush(queued)
        ELSE [queued EXCEPT !.acks.timer = TRUE]

AckTimer(p) ==
    IF p.connection.current THEN Flush(p) ELSE [p EXCEPT !.acks.timer = FALSE]

\* #sendAttach: the acknowledgements start again at the cursor it carries.
SendAttach(p) ==
    LET cursor == p.coordinator.cursor
        sent == Send(p, [kind |-> "attach", gen |-> p.connection.gen, cursor |-> cursor])
    IN  IF Sent(p, sent)
        THEN [sent EXCEPT !.acks = [NoAcks EXCEPT !.last = cursor], !.watchdog = TRUE]
        ELSE sent

-----------------------------------------------------------------------------
(* The coordinator, and what it reports *)

NoDelivery(c, state) ==
    [c EXCEPT !.state = state, !.received = NoSeq, !.candidate = "none", !.committed = FALSE,
              !.pending = <<>>]

FenceDeliveryGeneration(p, gen) ==
    IF gen > p.coordinator.fence /\ ~IsClosed(p)
    THEN [p EXCEPT !.coordinator = [NoDelivery(@, "awaiting") EXCEPT !.fence = gen]] ELSE p

\* #syncDeliveryState
SyncDeliveryState(p) ==
    LET state == p.coordinator.state IN
    CASE state = "live" ->
            [p EXCEPT !.watchdog = FALSE, !.retry = FALSE, !.phase = "live"]
      [] state \in {"restoring", "replaying"} -> [p EXCEPT !.phase = "restoring"]
      [] state = "resyncing" -> [p EXCEPT !.phase = "reconnecting"]
      [] OTHER -> p

\* #requestResync and #handleCoordinatorResync.
RequestResync(p, reason) ==
    LET q == [p EXCEPT !.coordinator = NoDelivery(@, "resyncing")] IN
    IF reason = "restore-failed" \/ p.phase = "restoring" THEN ScheduleSnapshotRetry(q)
    ELSE FailFullConnection(q)

\* #tryCommit
TryCommit(p) ==
    LET c == p.coordinator IN
    IF c.committed /\ c.candidate # "none"
    THEN [p EXCEPT !.coordinator.state = "live", !.coordinator.candidate = "live",
                   !.coordinator.cursor = c.received]
    ELSE p

\* #acceptFrame, for a data socket's own generation.
AcceptFrame(p, f) ==
    LET c == p.coordinator
        at == [p EXCEPT !.coordinator.received = f.seq,
                        !.coordinator.cursor = IF c.candidate = "live" THEN f.seq ELSE @]
    IN  IF c.state \in {"resyncing", "closed"} THEN p
        ELSE IF c.state = "awaiting" THEN [p EXCEPT !.coordinator.pending = Append(@, f)]
        ELSE CASE f.kind = "event" /\ f.seq = c.received + 1 -> Acknowledge(at, f.seq)
               [] f.kind = "commit" /\ f.seq = c.received ->
                     TryCommit(Acknowledge([p EXCEPT !.coordinator.committed = TRUE], f.seq))
               [] OTHER -> RequestResync(p, "journal-gap")

\* The frames that overtook a start, in their order.
TakeFrames(p, frames) ==
    LET taken[n \in 0 .. Len(frames)] ==
            IF n = 0 THEN p ELSE AcceptFrame(taken[n - 1], frames[n])
    IN  taken[Len(frames)]

\* Mutant: the frames that overtook the start are forgotten.
StartDeliveryAfresh(p, f) ==
    LET c == p.coordinator IN
    IF c.state = "resyncing" \/ f.gen < c.fence THEN p
    ELSE IF f.mode = "warm" /\ f.cut # c.cursor THEN RequestResync(p, "journal-gap")
    ELSE [p EXCEPT !.coordinator =
              [c EXCEPT !.received = f.cut, !.pending = <<>>,
                        !.state = IF f.mode = "warm" THEN "replaying" ELSE "restoring",
                        !.candidate = IF f.mode = "warm" THEN "live" ELSE "none"]]

\* startWarmReplay and startSnapshot, with the frames that overtook the start.
StartDelivery(p, f) ==
    LET c == p.coordinator
        begun == [p EXCEPT !.coordinator =
                      [c EXCEPT !.received = f.cut, !.pending = <<>>,
                                !.state = IF f.mode = "warm" THEN "replaying" ELSE "restoring",
                                !.candidate = IF f.mode = "warm" THEN "live" ELSE "none"]]
    IN  IF c.state = "resyncing" \/ f.gen < c.fence THEN p
        ELSE IF f.mode = "warm" /\ f.cut # c.cursor THEN RequestResync(p, "journal-gap")
        ELSE TakeFrames(begun, c.pending)

\* The download and the restore end.
Restoring(p) == p.coordinator.state = "restoring" /\ p.coordinator.candidate = "none"
FinishRestore(p) ==
    SyncDeliveryState(TryCommit([p EXCEPT !.coordinator.candidate = "restored"]))
RestoreFails(p) == SyncDeliveryState(RequestResync(p, "restore-failed"))
RestoreDeadline(p) == RequestResync(p, "slow-client")

-----------------------------------------------------------------------------
(* Timers *)

\* #scheduleReconnect's timer.
ReconnectTimer(p) == StartFullConnection([p EXCEPT !.reconnect = FALSE])

\* #scheduleSnapshotRetry's timer.
RetryTimer(p) ==
    LET q == [p EXCEPT !.retry = FALSE] IN IF p.blocked THEN q ELSE Restart(q)

\* #handleDataClosed's timer.
GraceTimer(p) ==
    LET q == [p EXCEPT !.grace = FALSE] IN IF p.retry THEN q ELSE FailFullConnection(q)

\* #startAttachStartWatchdog's timer.
WatchdogTimer(p) ==
    LET q == [p EXCEPT !.watchdog = FALSE] IN
    IF p.connection.current /\ p.coordinator.state # "live" THEN FailFullConnection(q) ELSE q

\* The heartbeat finds a socket that is not open, silent or full.
HeartbeatFails(p) == FailFullConnection(p)

-----------------------------------------------------------------------------
(* The attempt, and events of the sockets *)

\* Mutant: the coordinator is not told of the new generation.
ActivateUnfenced(p) ==
    [p EXCEPT !.attempt = "control", !.offer = NoOffer, !.acks = NoAcks,
              !.connection = [set |-> p.offer.set, gen |-> p.offer.gen, control |-> "opening",
                              data |-> "none", current |-> TRUE]]

\* #connectFull once its connection set is reserved: fence first, then replace.
Activate(p) ==
    LET q == FenceDeliveryGeneration(p, p.offer.gen) IN
    [q EXCEPT !.attempt = "control", !.offer = NoOffer, !.acks = NoAcks,
              !.connection = [set |-> p.offer.set, gen |-> p.offer.gen, control |-> "opening",
                              data |-> "none", current |-> TRUE]]

ControlOpen(p) ==
    [p EXCEPT !.connection.control = "open", !.connection.data = "opening", !.attempt = "data"]
DataOpen(p) ==
    SendAttach([p EXCEPT !.connection.data = "open", !.attempt = "none", !.phase = "attaching"])

\* #handleControlClosed
ControlClosed(p, why) ==
    IF why = "replaced" THEN [Disconnect(p) EXCEPT !.blocked = TRUE, !.phase = "displaced"]
    ELSE FailFullConnection(p)

\* #handleDataClosed
DataClosed(p) ==
    [p EXCEPT !.connection.data = "none", !.grace = TRUE, !.phase = "reconnecting"]

\* The data socket of a replacement, or of the attempt, does not open.
DataRefused(p) ==
    IF p.attempt = "none" /\ p.retry THEN [p EXCEPT !.connection.data = "none"]
    ELSE FailFullConnection(p)

\* #handleResyncRequired and #replaceData: a new generation and the ticket of its data socket.
ReplaceData(p, gen) ==
    IF p.connection.control # "open" THEN FailFullConnection(p)
    ELSE [p EXCEPT !.connection.gen = gen, !.connection.data = "opening", !.acks = NoAcks,
                   !.phase = "reconnecting"]
HandleResyncRequired(p, gen, expired) ==
    IF gen <= p.connection.gen \/ expired THEN FailFullConnection(p)
    ELSE LET q == [p EXCEPT !.retry = FALSE, !.watchdog = FALSE, !.grace = FALSE]
         IN  ReplaceData(SyncDeliveryState(FenceDeliveryGeneration(q, gen)), gen)

\* The start of a delivery: one of an older generation is stale, of a newer one an error.
\* A start that begins no restore is over at once, and so is the wait for it.
HandleStart(p, f) ==
    IF f.gen < p.connection.gen THEN p
    ELSE IF f.gen > p.connection.gen THEN FailFullConnection(p)
    ELSE IF f.mode = "warm"
         THEN SyncDeliveryState(StartDelivery([p EXCEPT !.hostOnline = TRUE], f))
    ELSE LET q == StartDelivery([p EXCEPT !.watchdog = FALSE, !.hostOnline = TRUE,
                                          !.phase = "restoring"], f)
         IN  IF Restoring(q) THEN q ELSE SyncDeliveryState(q)

AcceptWelcome(p, f) ==
    IF f.gen = p.connection.gen THEN [p EXCEPT !.hostOnline = TRUE, !.phase = "attaching"]
    ELSE FailFullConnection(p)

\* The data socket and what the coordinator does with it are left alone.
HostOffline(p) == [p EXCEPT !.hostOnline = FALSE, !.phase = "offline"]

\* A frame of the control socket; a connection that is not current is not listened to.
ControlEvent(p, f, expired) ==
    IF ~p.connection.current THEN p
    ELSE CASE f.kind = "open" -> ControlOpen(p)
           [] f.kind = "refused" -> FailFullConnection(p)
           [] f.kind = "closed" -> ControlClosed(p, f.why)
           [] f.kind = "welcome" -> AcceptWelcome(p, f)
           [] f.kind = "offline" -> HostOffline(p)
           [] f.kind = "resync" -> HandleResyncRequired(p, f.gen, expired)
           [] f.kind = "start" -> HandleStart(p, f)

DataEvent(p, f) ==
    IF ~p.connection.current THEN p
    ELSE CASE f.kind = "open" -> DataOpen(p)
           [] f.kind = "refused" -> DataRefused(p)
           [] f.kind = "closed" -> DataClosed(p)
           [] OTHER -> SyncDeliveryState(AcceptFrame(p, f))

=============================================================================

---------------------------- MODULE HostDelivery ----------------------------
(***************************************************************************)
(* The host's side of delivery: CanonicalPublisher, DeliveryRecoveryQueue, *)
(* HostDeliveryScheduler and DeliveryBarrierWaiter                         *)
(* (apps/host-daemon/src/cloud), and the data batching of                  *)
(* host-relay-connection.ts.                                               *)
(*                                                                         *)
(* A TypeScript async function is cut at its awaits; what runs between two *)
(* awaits is one action.  Delays (quiet time, retry backoff, cache TTL)    *)
(* are arbitrary, so a request that is due is one that may run.            *)
(***************************************************************************)
EXTENDS HostLink

VARIABLES
    head,       \* the terminal authority's last event, session.cursor
    tail,       \* the oldest base that the journal can still replay from
    link,       \* "down", "preparing" (host-ready is sent), "ready"
    sent,       \* publisher: #lastSentCursor; its queue is sent + 1 .. head
    paused,     \* publisher: #paused
    pend,       \* recovery queue: #pending, a set with one request per client
    cold,       \* recovery queue: #cold, of <<client, generation>>
    pass,       \* the requests #drainRecoveries has taken and not started
    active,     \* #activeRecovery, with the locals of #recover
    preps,      \* #coldPreparations with status "ready"
    build,      \* #coldBuildInFlight; c = NoClient is undefined
    cache,      \* the SnapshotCheckpointCache, shared by all connections
    outbox,     \* #pendingDataFrames: frames waiting for the data credit
    fault       \* why the host last closed the pair on its own

hostVars == <<head, tail, link, sent, paused, pend, cold, pass, active, preps,
              build, cache, outbox, fault>>

\* Mutant: a recovery may be interrupted after its barrier has been sent.
PreMarkerAndUncertain == {"pausing", "flushing", "queued", "uncertain"}

\* "queued": the barrier waits in outbox.  The code's phase is "pre-marker" in
\* the first three, "marker-uncertain" once the barrier is on the wire.
PreMarker == {"pausing", "flushing", "queued"}

NoActive == [c |-> NoClient, gen |-> 0, base |-> NoSeq, mode |-> "none", phase |-> "none",
             cut |-> NoSeq, commit |-> NoSeq, next |-> NoSeq, aborted |-> FALSE]
NoBuild == [c |-> NoClient, gen |-> 0, base |-> NoSeq, cut |-> NoSeq, current |-> FALSE]

Active == [c : Clients, gen : Gens, base : MaybeSeqs, mode : {"warm", "snapshot"},
           phase : PreMarker \cup {"uncertain", "pinned"}, cut : MaybeSeqs,
           commit : MaybeSeqs, next : MaybeSeqs, aborted : BOOLEAN]
Build == [c : Clients, gen : Gens, base : MaybeSeqs, cut : Seqs, current : BOOLEAN]
Preparation == [c : Clients, gen : Gens, cut : Seqs]

HostTypeOK ==
    /\ head \in Seqs /\ tail \in Seqs /\ sent \in Seqs
    /\ link \in {"down", "preparing", "ready"}
    /\ paused \in BOOLEAN
    /\ pend \subseteq Request /\ pass \subseteq Request
    /\ cold \subseteq Clients \X Gens
    /\ active \in Active \cup {NoActive}
    /\ preps \subseteq Preparation
    /\ build \in Build \cup {NoBuild}
    /\ cache \in MaybeSeqs
    /\ outbox \in Seq(RelayFrame)
    /\ fault \in {"none", "relay sent Host traffic before host-ready ACK",
                  "canonical publisher queue exceeded", "delivery marker outcome is uncertain",
                  "canonical publisher cannot reach the requested commit",
                  "snapshot preparation failed", "unexpected host-ready ACK",
                  "relay socket disconnected"}

HostInit ==
    /\ head = 0 /\ tail = 0 /\ sent = 0
    /\ link = "down"
    /\ paused = FALSE
    /\ pend = {} /\ cold = {} /\ pass = {}
    /\ active = NoActive
    /\ preps = {} /\ build = NoBuild /\ cache = NoSeq
    /\ outbox = <<>>
    /\ fault = "none"

Key(r) == <<r.c, r.gen>>
\* Mutant: a recovery is over once its barrier has been sent.
RecoveringUntilMarker == active.phase \in PreMarker

Recovering == active # NoActive
ActiveRequest == [c |-> active.c, gen |-> active.gen, base |-> active.base]
ActiveIdentity == [c |-> active.c, gen |-> active.gen, mode |-> active.mode,
                   cut |-> active.cut, commit |-> active.commit]
Queued == head - sent

-----------------------------------------------------------------------------
(* Closing the pair *)

\* HostRelayConnection.#close and HostDeliveryScheduler.dispose: everything but
\* the checkpoint cache belongs to the connection.
ClosePair(reason) ==
    /\ link' = "down"
    /\ paused' = FALSE
    /\ pend' = {} /\ cold' = {} /\ pass' = {} /\ preps' = {}
    /\ active' = NoActive
    /\ build' = NoBuild
    /\ outbox' = <<>>
    /\ toHost' = <<>>
    /\ fault' = reason
    /\ UNCHANGED <<sent, toRelay, credit>>

-----------------------------------------------------------------------------
(* Sending data *)

\* #enqueueData: without batching the frame goes out, and its receipt comes, at once.
Emit(frames) ==
    IF DataBatch
    THEN outbox' = outbox \o frames /\ UNCHANGED toRelay
    ELSE toRelay' = toRelay \o frames /\ UNCHANGED outbox

\* A flush is scheduled as a microtask with the first frame that waits, and #flushDataBatch
\* does nothing while a batch is unacknowledged: no later task finds a frame waiting for a
\* free credit, only the loops that write frames go on until they yield.
FlushDue == link = "ready" /\ credit = "free" /\ outbox # <<>>

\* Mutant: the last frame of a batch is kept.
SendBatchKeepingLast(n) ==
    /\ toRelay' = toRelay \o SubSeq(outbox, 1, n)
    /\ outbox' = SubSeq(outbox, n, Len(outbox))
    /\ credit' = "sent"
    /\ UNCHANGED active

\* #flushDataBatch: some first frames, as many as the batch limits allow.  The
\* receipt of a barrier among them makes the recovery's outcome uncertain.
SendBatch(n) ==
    LET batch == SubSeq(outbox, 1, n)
    IN  /\ toRelay' = toRelay \o batch
        /\ outbox' = SubSeq(outbox, n + 1, Len(outbox))
        /\ credit' = "sent"
        /\ IF active.phase = "queued"
              /\ \E i \in 1 .. n : batch[i] = [kind |-> "barrier", id |-> ActiveIdentity]
           THEN active' = [active EXCEPT !.phase = "uncertain"]
           ELSE UNCHANGED active

FlushDataBatch ==
    /\ link = "ready" /\ credit = "free"
    /\ \E n \in 1 .. Len(outbox) : SendBatch(n)
    /\ UNCHANGED <<head, tail, link, sent, paused, pend, cold, pass, preps, build,
                   cache, fault, toHost>>

\* #onDataMessage, the relay's data-ack.
ReceiveDataAck ==
    /\ link = "ready" /\ credit = "acked"
    /\ IF outbox = <<>>
       THEN credit' = "free" /\ UNCHANGED <<toRelay, outbox, active>>
       ELSE \E n \in 1 .. Len(outbox) : SendBatch(n)
    /\ UNCHANGED <<head, tail, link, sent, paused, pend, cold, pass, preps, build,
                   cache, fault, toHost>>

-----------------------------------------------------------------------------
(* CanonicalPublisher *)

\* One turn of #pump.
Pump ==
    /\ link = "ready" /\ ~paused
    /\ sent < head
    /\ sent' = sent + 1
    /\ Emit(<<[kind |-> "event", seq |-> sent + 1]>>)
    /\ UNCHANGED <<head, tail, link, paused, pend, cold, pass, active, preps, build,
                   cache, fault, toHost, credit>>

\* DeliveryRecoveryQueue.requeue: a newer pending request wins.
Requeued(r, pending) ==
    IF \E p \in pending : p.c = r.c /\ p.gen >= r.gen
    THEN pending
    ELSE {p \in pending : p.c # r.c} \cup {r}

DropPreparation(k) == {p \in preps : Key(p) # k}

\* #abortRecoveryForPressure.  An abort while the barrier still waits for its
\* receipt makes #recover return through its catch; before that, #recover goes on
\* to its next throwIfAborted.
AbortForPressure ==
    /\ pend' = Requeued(ActiveRequest, pend)
    /\ preps' = DropPreparation(Key(active))
    /\ cold' = cold \cup {Key(active)}
    /\ active' = IF active.phase = "queued" THEN NoActive
                 ELSE [active EXCEPT !.aborted = TRUE]
    /\ paused' = FALSE

\* The PTY writes an event: journal, then #enqueue of the publisher.
TerminalOutput ==
    /\ head < MaxHead
    /\ head' = head + 1
    /\ LET overSoftLimit == Queued + 1 > MaxQueue
           mayInterrupt == active.phase \in PreMarker /\ Queued <= MaxQueue
       IN  \/ /\ link = "down" \/ ~overSoftLimit
              /\ UNCHANGED <<link, sent, paused, pend, cold, pass, active, preps, build,
                             outbox, fault, toRelay, toHost, credit>>
           \/ /\ link # "down" /\ overSoftLimit /\ mayInterrupt
              /\ AbortForPressure
              /\ UNCHANGED <<link, sent, pass, build, outbox, fault, toRelay, toHost, credit>>
           \/ /\ link # "down" /\ overSoftLimit /\ ~mayInterrupt
              /\ ClosePair("canonical publisher queue exceeded")
    /\ UNCHANGED <<tail, cache>>

\* The journal drops its oldest segments.
EvictJournal ==
    /\ \E n \in tail + 1 .. head : tail' = n
    /\ UNCHANGED <<head, link, sent, paused, pend, cold, pass, active, preps, build,
                   cache, outbox, fault, toRelay, toHost, credit>>

\* The cached checkpoint's TTL ends.
ExpireCheckpoint ==
    /\ cache # NoSeq
    /\ cache' = NoSeq
    /\ UNCHANGED <<head, tail, link, sent, paused, pend, cold, pass, active, preps,
                   build, outbox, fault, toRelay, toHost, credit>>

-----------------------------------------------------------------------------
(* Control frames from the relay *)

\* start, prepareHostReady and CanonicalPublisher.prepare.  What the relay does with
\* the new sockets is RelayDelivery's HostPaired.
Prepare ==
    /\ link = "down"
    /\ link' = "preparing"
    /\ sent' = head
    /\ toRelay' = <<[kind |-> "host-ready", seq |-> head]>>
    /\ toHost' = <<>>
    /\ credit' = "free"
    /\ fault' = "none"
    /\ UNCHANGED <<head, tail, paused, pend, cold, pass, active, preps, build, cache, outbox>>

\* #onSocketClose, when the network closes a socket.
SocketCloses ==
    /\ link # "down"
    /\ ClosePair("relay socket disconnected")
    /\ UNCHANGED <<head, tail, cache>>

Receives(kind) == link # "down" /\ toHost # <<>> /\ Head(toHost).kind = kind

\* #handleReadyAck and activateHostReady.  Frames are handled in order, each to its end.
HandleReadyAck ==
    /\ Receives("host-ready-ack")
    /\ IF link = "preparing"
       THEN /\ link' = "ready"
            /\ toHost' = Tail(toHost)
            /\ UNCHANGED <<sent, paused, pend, cold, pass, active, preps, build, outbox,
                           fault, toRelay, credit>>
       ELSE ClosePair("unexpected host-ready ACK")
    /\ UNCHANGED <<head, tail, cache>>

\* #handleControl: any other frame is refused until the ACK has come.
RefuseEarlyTraffic ==
    /\ link = "preparing"
    /\ toHost # <<>>
    /\ Head(toHost).kind # "host-ready-ack"
    /\ ClosePair("relay sent Host traffic before host-ready ACK")
    /\ UNCHANGED <<head, tail, cache>>

\* Aborting the active recovery, by a newer request or a reset: an abort while the
\* barrier waits for its receipt makes #recover return, which resumes the publisher;
\* one that comes with the outcome open closes the pair.
AbortActive ==
    \/ /\ active.phase \in {"pausing", "flushing", "pinned"}
       /\ active' = [active EXCEPT !.aborted = TRUE]
       /\ UNCHANGED paused
    \/ /\ active.phase = "queued"
       /\ active' = NoActive
       /\ paused' = FALSE

\* #clearMatching and #abortColdPreparations: nothing of this client up to gen is kept.
UpTo(keys, c, gen) == {k \in keys : k[1] = c /\ k[2] <= gen}
Forget(c, gen) ==
    /\ cold' = cold \ UpTo(cold, c, gen)
    /\ preps' = {p \in preps : ~(p.c = c /\ p.gen <= gen)}
    /\ build' = IF build.c = c /\ build.gen <= gen
                THEN [build EXCEPT !.current = FALSE] ELSE build

\* enqueueAttach
EnqueueAttach ==
    /\ Receives("attach-request")
    /\ link = "ready"
    /\ LET r == Head(toHost).req
           known == \E p \in pend : p.c = r.c /\ p.gen >= r.gen
           supersedes == active.c = r.c /\ active.gen < r.gen
       IN  \/ /\ supersedes /\ active.phase = "uncertain"
              /\ ClosePair("delivery marker outcome is uncertain")
           \/ /\ ~(supersedes /\ active.phase = "uncertain")
              /\ IF known
                 THEN UNCHANGED <<pend, cold, preps, build>>
                 ELSE /\ Forget(r.c, r.gen - 1)
                      /\ pend' = {p \in pend : p.c # r.c} \cup {r}
              /\ IF supersedes THEN AbortActive ELSE UNCHANGED <<active, paused>>
              /\ toHost' = Tail(toHost)
              /\ UNCHANGED <<link, sent, pass, outbox, fault, toRelay, credit>>
    /\ UNCHANGED <<head, tail, cache>>

\* handleDeliveryReset.  The frame names the generation the reset begins, so the
\* recovery of the one it ends is not the one aborted.
HandleDeliveryReset ==
    /\ Receives("delivery-reset")
    /\ link = "ready"
    /\ LET f == Head(toHost)
           aborts == active.c = f.c /\ active.gen = f.gen
       IN  IF aborts /\ active.phase = "uncertain"
           THEN ClosePair("delivery marker outcome is uncertain")
           ELSE /\ Forget(f.c, f.gen)
                /\ pend' = {p \in pend : ~(p.c = f.c /\ p.gen <= f.gen)}
                /\ IF aborts THEN AbortActive ELSE UNCHANGED <<active, paused>>
                /\ toHost' = Tail(toHost)
                /\ UNCHANGED <<link, sent, pass, outbox, fault, toRelay, credit>>
    /\ UNCHANGED <<head, tail, cache>>

\* Mutant: the end of a recovery leaves the publisher paused.
CompleteWithoutResume ==
    /\ cold' = cold \ {Key(active)}
    /\ active' = NoActive
    /\ UNCHANGED <<pend, paused>>

\* DeliveryRecoveryQueue.complete and the end of #recover, which resumes the publisher.
Complete ==
    /\ cold' = cold \ {Key(active)}
    /\ active' = NoActive
    /\ paused' = FALSE
    /\ UNCHANGED pend

\* Mutant: a rejected barrier leaves the publisher paused.
RetryWithoutResume ==
    /\ cold' = cold \cup {Key(active)}
    /\ pend' = Requeued(ActiveRequest, pend)
    /\ active' = NoActive
    /\ UNCHANGED paused

\* A rejected barrier: the request waits for its turn again, without its warm path.
Retry ==
    /\ cold' = cold \cup {Key(active)}
    /\ pend' = Requeued(ActiveRequest, pend)
    /\ active' = NoActive
    /\ paused' = FALSE

\* #recover after the outcome of its barrier; deliveryBarrierRetryScope.
Outcome(status) ==
    \/ /\ status = "ready"
       /\ active' = [active EXCEPT !.phase = "pinned",
                        !.next = IF active.mode = "warm" THEN active.base ELSE active.cut]
       /\ UNCHANGED <<paused, pend, cold, preps, cache>>
    \/ /\ status \in {"stale", "browser-control-send-failed"}
       /\ Complete
       /\ preps' = IF active.mode = "snapshot" THEN DropPreparation(Key(active)) ELSE preps
       /\ UNCHANGED cache
    \/ /\ status \in {"missing-live-seed", "snapshot-missing"}
       /\ Retry
       /\ IF status = "snapshot-missing"
          THEN /\ preps' = DropPreparation(Key(active))
               /\ cache' = IF cache = active.cut THEN NoSeq ELSE cache
          ELSE UNCHANGED <<preps, cache>>

\* DeliveryBarrierWaiter.handle: a result that no barrier waits for is ignored.
HandleBarrierResult ==
    /\ Receives("result")
    /\ link = "ready"
    /\ toHost' = Tail(toHost)
    /\ IF active.phase = "uncertain" /\ Head(toHost).id = ActiveIdentity
       THEN Outcome(Head(toHost).status)
       ELSE UNCHANGED <<paused, pend, cold, active, preps, cache>>
    /\ UNCHANGED <<head, tail, link, sent, pass, build, outbox, fault, toRelay, credit>>

-----------------------------------------------------------------------------
(* Recoveries *)

IsCold(r) == Key(r) \in cold
Prepared(r) == \E p \in preps : Key(p) = Key(r)
\* Mutant: preparations are kept by client, not by client and generation.
PublishingForClient(r) == build.c = r.c

Publishing(r) == build.c = r.c /\ build.gen = r.gen /\ build.current

\* #isRunnableRecovery, but for the delays.
Runnable(r) == IsCold(r) => Prepared(r) \/ cache # NoSeq \/ build = NoBuild

\* takeRunnablePass.  A cold request may not be due yet.
TakePass ==
    /\ link = "ready"
    /\ ~Recovering /\ pass = {}
    /\ \E due \in (SUBSET pend) \ {{}} :
          /\ \A r \in due : Runnable(r)
          /\ \A r \in pend : ~IsCold(r) => r \in due
          /\ pass' = due
          /\ pend' = pend \ due
    /\ UNCHANGED <<head, tail, link, sent, paused, cold, active, preps, build, cache,
                   outbox, fault, toRelay, toHost, credit>>

\* The cold half of #recover, from r's checkpoint: pauseCanonical is next.
DeliverPrepared(r, p, aborted) ==
    /\ cold' = cold \cup {Key(r)}
    /\ preps' = preps \cup {p}
    /\ active' = [NoActive EXCEPT !.c = r.c, !.gen = r.gen, !.base = r.base,
                     !.mode = "snapshot", !.phase = "pausing", !.cut = p.cut,
                     !.aborted = aborted]
    /\ paused' = TRUE
    /\ UNCHANGED <<pend, build>>

\* #startColdPreparation captures a snapshot now, unless one is being built or the capture
\* is not due: then the request waits, in the queue or with its own build.
AwaitPreparation(r) ==
    /\ cold' = cold \cup {Key(r)}
    /\ active' = NoActive
    /\ paused' = FALSE
    /\ UNCHANGED preps
    /\ IF Publishing(r) THEN UNCHANGED <<pend, build>>
       ELSE \/ /\ build = NoBuild
               /\ build' = [c |-> r.c, gen |-> r.gen, base |-> r.base, cut |-> head,
                            current |-> TRUE]
               /\ UNCHANGED pend
            \/ /\ pend' = Requeued(r, pend)
               /\ UNCHANGED build

RecoverCold(r, aborted) ==
    \/ \E p \in preps : Key(p) = Key(r) /\ DeliverPrepared(r, p, aborted)
    \/ /\ ~Prepared(r) /\ ~Publishing(r) /\ cache # NoSeq
       /\ DeliverPrepared(r, [c |-> r.c, gen |-> r.gen, cut |-> cache], aborted)
    \/ /\ ~Prepared(r) /\ (Publishing(r) \/ cache = NoSeq)
       /\ AwaitPreparation(r)

\* #drainRecoveries and #recover, up to its first await.
StartRecovery ==
    /\ link = "ready"
    /\ ~Recovering
    /\ \E r \in pass :
          /\ pass' = pass \ {r}
          /\ \/ /\ r.base # NoSeq /\ ~IsCold(r)
                /\ active' = [NoActive EXCEPT !.c = r.c, !.gen = r.gen, !.base = r.base,
                                 !.mode = "warm", !.phase = "pausing"]
                /\ paused' = TRUE
                /\ UNCHANGED <<pend, cold, preps, build>>
             \/ /\ r.base = NoSeq \/ IsCold(r)
                /\ RecoverCold(r, FALSE)
    /\ UNCHANGED <<head, tail, link, sent, cache, outbox, fault, toRelay, toHost, credit>>

Pausing(mode) == link = "ready" /\ active.phase = "pausing" /\ active.mode = mode

FlushThroughHead == active' = [active EXCEPT !.phase = "flushing", !.commit = head]

\* Mutant: a tail of any length is replayed.
ReplayableWithoutLimit(base) == base >= tail

\* replayThrough finds no gap behind base, and what follows it is a replay of legal size.
Replayable(base) == base >= tail /\ head - base <= MaxReplay

\* #recover from pauseCanonical on: the base can be replayed from, or it cannot.
PlanWarm ==
    /\ Pausing("warm")
    /\ \/ /\ Replayable(active.base)
          /\ FlushThroughHead
          /\ UNCHANGED <<paused, pend, cold, preps, build>>
       \/ /\ ~Replayable(active.base)
          /\ RecoverCold(ActiveRequest, active.aborted)
    /\ UNCHANGED <<head, tail, link, sent, pass, cache, outbox, fault, toRelay, toHost, credit>>

\* #deliverPreparedCold from pauseCanonical on.
PlanCold ==
    /\ Pausing("snapshot")
    /\ \/ /\ active.aborted
          /\ active' = NoActive
          /\ paused' = FALSE
          /\ UNCHANGED <<pend, cold, preps, cache>>
       \/ /\ ~active.aborted /\ Replayable(active.cut)
          /\ FlushThroughHead
          /\ UNCHANGED <<paused, pend, cold, preps, cache>>
       \/ /\ ~active.aborted /\ ~Replayable(active.cut)
          /\ Retry
          /\ preps' = DropPreparation(Key(active))
          /\ cache' = IF cache = active.cut THEN NoSeq ELSE cache
    /\ UNCHANGED <<head, tail, link, sent, pass, build, outbox, fault, toRelay, toHost, credit>>

\* One frame of flushThrough.
FlushFrame ==
    /\ link = "ready" /\ active.phase = "flushing"
    /\ sent < active.commit
    /\ sent' = sent + 1
    /\ Emit(<<[kind |-> "event", seq |-> sent + 1]>>)
    /\ UNCHANGED <<head, tail, link, paused, pend, cold, pass, active, preps, build,
                   cache, fault, toHost, credit>>

\* The end of flushThrough: the barrier goes out behind the last canonical event.
SendBarrier ==
    /\ link = "ready" /\ active.phase = "flushing"
    /\ sent >= active.commit
    /\ \/ /\ active.aborted
          /\ active' = NoActive
          /\ paused' = FALSE
          /\ UNCHANGED <<link, sent, pend, cold, pass, preps, build, outbox, fault, toRelay,
                         toHost, credit>>
       \/ /\ ~active.aborted
          /\ IF sent = active.commit
             THEN /\ Emit(<<[kind |-> "barrier", id |-> ActiveIdentity]>>)
                  /\ active' = [active EXCEPT !.phase = IF DataBatch THEN "queued"
                                                        ELSE "uncertain"]
                  /\ UNCHANGED <<link, sent, paused, pend, cold, pass, preps, build, fault,
                                 toHost, credit>>
             ELSE ClosePair("canonical publisher cannot reach the requested commit")
    /\ UNCHANGED <<head, tail, cache>>

\* DELIVERY_BARRIER_TIMEOUT_MS, from the receipt on.
BarrierTimeout ==
    /\ link = "ready" /\ active.phase = "uncertain"
    /\ ClosePair("delivery marker outcome is uncertain")
    /\ UNCHANGED <<head, tail, cache>>

Directed(kind, seq) == [kind |-> kind, c |-> active.c, gen |-> active.gen, seq |-> seq]

\* One frame of #sendDirectedReplay.
SendDirected ==
    /\ link = "ready" /\ active.phase = "pinned"
    /\ active.next < active.commit
    /\ \/ /\ active.aborted
          /\ ClosePair("delivery marker outcome is uncertain")
       \/ /\ ~active.aborted
          /\ active' = [active EXCEPT !.next = active.next + 1]
          /\ Emit(<<Directed("directed", active.next + 1)>>)
          /\ UNCHANGED <<link, sent, paused, pend, cold, pass, preps, build, fault, toHost,
                         credit>>
    /\ UNCHANGED <<head, tail, cache>>

\* #sendReplayCommit and the end of #recover.
SendReplayCommit ==
    /\ link = "ready" /\ active.phase = "pinned"
    /\ active.next = active.commit
    /\ Emit(<<Directed("commit", active.commit)>>)
    /\ Complete
    /\ preps' = IF active.mode = "snapshot" THEN DropPreparation(Key(active)) ELSE preps
    /\ UNCHANGED <<head, tail, link, sent, pass, build, cache, fault, toHost, credit>>

-----------------------------------------------------------------------------
(* Snapshot preparation *)

BuildRequest == [c |-> build.c, gen |-> build.gen, base |-> build.base]

\* The snapshot is published; what becomes of it is decided by whether it is wanted.
BuildSucceeds ==
    /\ build # NoBuild
    /\ build' = NoBuild
    /\ IF build.current
       THEN /\ cache' = build.cut
            /\ preps' = preps \cup {[c |-> build.c, gen |-> build.gen, cut |-> build.cut]}
            /\ pend' = Requeued(BuildRequest, pend)
       ELSE UNCHANGED <<cache, preps, pend>>
    /\ UNCHANGED <<head, tail, link, sent, paused, cold, pass, active, outbox, fault,
                   toRelay, toHost, credit>>

\* isRetryableColdRecoveryError, or not.
BuildFails ==
    /\ build # NoBuild
    /\ \/ /\ build' = NoBuild
          /\ IF build.current
             THEN /\ pend' = Requeued(BuildRequest, pend)
                  /\ cold' = cold \cup {Key(build)}
             ELSE UNCHANGED <<pend, cold>>
          /\ UNCHANGED <<link, sent, paused, pass, active, preps, outbox, fault, toRelay,
                         toHost, credit>>
       \/ /\ build.current
          /\ ClosePair("snapshot preparation failed")
    /\ UNCHANGED <<head, tail, cache>>

HostNext ==
    \/ Pump \/ FlushFrame \/ SendDirected \/ FlushDataBatch
    \/ /\ ~FlushDue
       /\ \/ TerminalOutput \/ EvictJournal \/ ExpireCheckpoint
          \/ ReceiveDataAck \/ SocketCloses
          \/ HandleReadyAck \/ RefuseEarlyTraffic \/ EnqueueAttach \/ HandleDeliveryReset
          \/ HandleBarrierResult
          \/ TakePass \/ StartRecovery \/ PlanWarm \/ PlanCold \/ SendBarrier
          \/ BarrierTimeout \/ SendReplayCommit
          \/ BuildFails

=============================================================================

------------------------------ MODULE Delivery ------------------------------
(***************************************************************************)
(* Delivery of one terminal's output from the host to its browsers: the    *)
(* host (HostDelivery) and the relay (RelayDelivery) joined by the pair of *)
(* sockets of HostLink.  What a browser does with what it receives is in   *)
(* SessionCoordinator.                                                     *)
(***************************************************************************)
EXTENDS HostDelivery, RelayDelivery

vars == <<hostVars, relayVars, linkVars>>

Init ==
    /\ HostInit
    /\ RelayInit
    /\ toRelay = <<>> /\ toHost = <<>> /\ credit = "free"

\* HostCloudRelay connects: the relay accepts both sockets, the host sends host-ready.
HostConnects == Prepare /\ HostPaired

\* An upload ends; the host installs its checkpoint if it still wants it.
SnapshotPublished == ~FlushDue /\ BuildSucceeds /\ Publishes(build.cut)

Next ==
    \/ HostConnects
    \/ SnapshotPublished
    \/ HostNext /\ UNCHANGED relayVars
    \/ (HostSocketClosed \/ Relays \/ Browsers) /\ UNCHANGED hostVars

-----------------------------------------------------------------------------
(* Fairness *)

\* What the host's event loop runs when it is ready: timers and microtasks of the
\* publisher and the data channel, control frames, and #recover's continuations.
DataMoves == Pump \/ FlushDataBatch \/ ReceiveDataAck
Handles ==
    /\ ~FlushDue
    /\ \/ HandleReadyAck \/ RefuseEarlyTraffic \/ EnqueueAttach \/ HandleDeliveryReset
       \/ HandleBarrierResult
Recovers ==
    \/ FlushFrame \/ SendDirected
    \/ /\ ~FlushDue
       /\ \/ TakePass \/ StartRecovery \/ PlanWarm \/ PlanCold \/ SendBarrier
          \/ SendReplayCommit

\* The close of a pair that the other side has given up is seen.
HostSeesClose == ~FlushDue /\ host = "none" /\ SocketCloses
RelaySeesClose == link = "down" /\ HostSocketClosed

\* The delays before a capture are finite: a request that keeps coming to its turn is
\* due at last.
Captures == ~FlushDue /\ StartRecovery /\ build' # build

\* Snapshot uploads that are retried forever succeed sometimes: this is about the
\* network and the object store, not about the code.
Fairness ==
    /\ WF_vars(DataMoves /\ UNCHANGED relayVars)
    /\ WF_vars(Handles /\ UNCHANGED relayVars)
    /\ WF_vars(Recovers /\ UNCHANGED relayVars)
    /\ WF_vars(Relays /\ UNCHANGED hostVars)
    /\ WF_vars(HostSeesClose /\ UNCHANGED relayVars)
    /\ WF_vars(RelaySeesClose /\ UNCHANGED hostVars)
    /\ SF_vars(Captures /\ UNCHANGED relayVars)
    /\ SF_vars(SnapshotPublished)

Spec == Init /\ [][Next]_vars

FairSpec == Spec /\ Fairness

-----------------------------------------------------------------------------
(* Properties *)

\* Types.
TypeOK == HostTypeOK /\ RelayTypeOK /\ LinkTypeOK

\* What is on its way between the publisher and the relay.
Current == link = "ready" /\ host = "active"
InFlight == toRelay \o outbox
Events(frames) == {i \in DOMAIN frames : frames[i].kind = "event"}

\* The events of a sequence of frames are those from lo + 1 to hi, each once and in order.
Contiguous(frames, lo, hi) ==
    /\ lo <= hi
    /\ {frames[i].seq : i \in Events(frames)} = lo + 1 .. hi
    /\ \A i, j \in Events(frames) : i < j => frames[i].seq < frames[j].seq

\* The canonical stream has no gap and no duplicate, whatever the publisher was paused,
\* flushed or interrupted for: what is in flight are the events from the relay's head to
\* what has been sent.
StreamIsContiguous == Current => Contiguous(InFlight, doHead, sent)

\* A browser shown as synced has been sent every canonical event, or its reset has begun.
SyncedIsCurrent ==
    \A c \in Clients :
        dat[c].state = "synced" =>
            \/ dat[c].sent = doHead
            \/ \E r \in resets : r.c = c /\ r.gen = gen[c]

\* Recoveries are serial: at most one delivery is pinned under a ready host.
OnePinnedDelivery ==
    Current /\ ~readying => \A b, c \in Clients : Pinned(b) /\ Pinned(c) => b = c

\* The publisher is only paused for a recovery that will resume it.
PauseHasOwner == paused => link = "ready" /\ Recovering

\* The host never makes the relay refuse a barrier or a replay.
RecoveryIsAccepted ==
    blame \notin {"delivery barrier does not match canonical head",
                  "delivery barrier conflicts with active delivery",
                  "delivery barrier conflicts with pinned delivery",
                  "directed replay exceeds pinned commit",
                  "directed replay sequence gap"}

\* A canonical event never reaches the relay while a delivery is pinned: the host must keep
\* its publisher paused for that long (docs/mvp-architecture.md:145).
PinPausesStream == blame # "canonical data sequence gap"

\* What a browser's data socket is sent within one delivery is contiguous, from the
\* cursor it attached with or the snapshot it was pinned to.
DeliveryIsContiguous ==
    [][\A c \in Clients :
          dat'[c] # dat[c] /\ gen'[c] = gen[c] /\ dat[c].sent # NoSeq /\ dat'[c].sent # NoSeq =>
              \/ dat'[c].sent \in {dat[c].sent, dat[c].sent + 1}
              \/ dat'[c].pin # dat[c].pin /\ dat'[c].sent = dat'[c].cut]_vars

\* A recovery starts from the cursor the browser attached with or from a newer checkpoint
\* (docs/terminal-protocol-architecture.md:197): a browser is never pinned to a snapshot
\* that is behind its own replica.
ColdIsNotBehind ==
    [][\A c \in Clients :
          /\ dat[c].mode = "none" /\ dat'[c].mode = "snapshot"
          /\ dat[c].first # NoSeq /\ gen'[c] = gen[c]
          => dat'[c].cut >= dat[c].first]_vars

\* An attached browser is not left catching up: it becomes synced, loses its delivery, or
\* the host pair ends.
CatchUpEnds ==
    \A c \in Clients :
        dat[c].state = "catching" /\ host = "active" ~>
            dat[c].state # "catching" \/ host # "active"

\* A paused publisher is resumed, or its pair is closed, whatever interrupts the recovery.
PublisherResumes == paused ~> ~paused

\* A host that has said host-ready is acknowledged, or loses its pair, whatever browsers
\* come and go while their deliveries are being reset.
HostReadyIsAnswered == link = "preparing" ~> link # "preparing"

=============================================================================

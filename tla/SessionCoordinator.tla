------------------------- MODULE SessionCoordinator -------------------------
(***************************************************************************)
(* The browser's delivery state machine: class SessionCoordinator of       *)
(* packages/session-client/src/session-coordinator.ts.                     *)
(*                                                                         *)
(* The environment is arbitrary: the relay's control socket and data       *)
(* socket are not ordered with respect to each other, so any frame of any  *)
(* generation, and any delivery start, may arrive in any order, any number *)
(* of times, or never.  An event of the terminal authority is named by its *)
(* sequence number, so a terminal's content is the sequence of the numbers *)
(* written to it, and the authority's own content after event n is         *)
(* Authority(n).  The PTY offset is a function of the sequence number and  *)
(* is not modelled; session epoch, engine and stream id are constant.      *)
(***************************************************************************)
EXTENDS Naturals, Sequences

CONSTANTS
    MaxGen,       \* bound on delivery generations (the code's is 2^64 - 1)
    MaxSeq,       \* bound on event sequence numbers (the code's is 2^64 - 1)
    MaxBuffered   \* maxBufferedTailFrames

ASSUME BoundsAssumption ==
    /\ MaxGen \in Nat \ {0}
    /\ MaxSeq \in Nat
    /\ MaxBuffered \in Nat

VARIABLES
    state,     \* #state
    fence,     \* #generationFence; 0 is null, the relay's first one is 1
    cursor,    \* #activeCursor; gen = 0 is null
    screen,    \* content of the visible replica, #liveReplica
    delivery,  \* #delivery; mode = "none" is null
    draft,     \* content of a restored candidate that is not adopted yet
    pending,   \* #pendingFrames
    ready,     \* frames the running #drainPendingFrames has still to accept
    opening,   \* startSnapshot is running and has not started the download
    restores,  \* downloads and restores in flight; current: the attempt check
    timer,     \* #restoreTimer is armed
    acked      \* the last cursor given to onAcknowledge

vars == <<state, fence, cursor, screen, delivery, draft, pending, ready,
          opening, restores, timer, acked>>

States == {"idle", "awaiting-control", "replaying", "restoring", "live",
           "resyncing", "closed"}
Gens == 1 .. MaxGen
Seqs == 0 .. MaxSeq
Cursor == [gen : 0 .. MaxGen, seq : Seqs]
Frame == [kind : {"event", "commit", "reset"}, gen : Gens, seq : Seqs]
Delivery == [mode : {"none", "warm", "snapshot"}, gen : 0 .. MaxGen,
             base : Seqs, expected : Seqs, received : Seqs, applied : Seqs,
             buffered : Seq(Seqs), committed : BOOLEAN,
             candidate : {"none", "live", "restored"}]
Restore == [gen : Gens, cut : Seqs, current : BOOLEAN]

NoCursor == [gen |-> 0, seq |-> 0]
NoDelivery == [mode |-> "none", gen |-> 0, base |-> 0, expected |-> 0,
               received |-> 0, applied |-> 0, buffered |-> <<>>,
               committed |-> FALSE, candidate |-> "none"]

\* The terminal's content after the authority's first n events.
Authority(n) == [i \in 1 .. n |-> i]

Init ==
    /\ state = "idle"
    /\ fence = 0
    /\ cursor = NoCursor
    /\ screen = <<>>
    /\ delivery = NoDelivery
    /\ draft = <<>>
    /\ pending = <<>>
    /\ ready = <<>>
    /\ opening = FALSE
    /\ restores = {}
    /\ timer = FALSE
    /\ acked = NoCursor

\* A handler has returned: the next one may run.  The drain loop and the end of
\* startSnapshot's synchronous part run one frame at a time under this lock.
Returned == ready = <<>> /\ ~opening

HasDelivery == delivery.mode # "none"

\* Mutant: frames that wait for a restore are not counted.
OverPendingBudget(frames, buffered) == Len(frames) > MaxBuffered

\* #bufferBudgetExceeded: the two buffers share one budget.
OverBudget(frames, buffered) == Len(frames) + Len(buffered) > MaxBuffered

\* #cancelRestore: every restore in flight is superseded and the timer cleared.
CancelRestore(inFlight) ==
    /\ restores' = {[r EXCEPT !.current = FALSE] : r \in inFlight}
    /\ timer' = FALSE

\* #discardPendingDelivery
DiscardPendingDelivery(inFlight) ==
    /\ CancelRestore(inFlight)
    /\ delivery' = NoDelivery
    /\ draft' = <<>>

\* #requestResync, which also ends the drain loop and startSnapshot.
Resync(inFlight) ==
    /\ state' = "resyncing"
    /\ DiscardPendingDelivery(inFlight)
    /\ pending' = <<>>
    /\ ready' = <<>>
    /\ opening' = FALSE

RequestResync == Resync(restores)

\* The generation filters of #discardPendingFramesBefore and #drainPendingFrames:
\* every frame kept has the fenced generation (PendingIsFenced), so all or none pass.
PendingFrom(gen) == IF gen > fence THEN <<>> ELSE pending

-----------------------------------------------------------------------------
(* Generations *)

\* fenceDeliveryGeneration and #advanceGenerationFence(generation, true)
FenceDeliveryGeneration(gen) ==
    /\ Returned
    /\ state # "closed"
    /\ gen > fence
    /\ fence' = gen
    /\ state' = "awaiting-control"
    /\ pending' = PendingFrom(gen)
    /\ IF HasDelivery
       THEN DiscardPendingDelivery(restores)
       ELSE UNCHANGED <<delivery, draft, restores, timer>>
    /\ UNCHANGED <<cursor, screen, ready, opening, acked>>

-----------------------------------------------------------------------------
(* Delivery starts *)

\* Mutant: a repeated start of the delivery in flight begins it again.
AcceptsRepeatedStart(gen) ==
    /\ Returned
    /\ state \notin {"closed", "resyncing"}
    /\ gen >= fence
    /\ gen >= cursor.gen

\* #acceptDeliveryStart, for a start that is neither ignored nor conflicting.
AcceptsStart(gen) ==
    /\ Returned
    /\ state \notin {"closed", "resyncing"}
    /\ gen >= fence
    /\ gen >= cursor.gen
    /\ HasDelivery => gen > delivery.gen

\* #acceptDeliveryStart: a second, different start of the same generation.
ConflictingStart(mode, gen, base, commit) ==
    /\ Returned
    /\ state \notin {"closed", "resyncing"}
    /\ gen >= fence
    /\ HasDelivery /\ gen = delivery.gen
    /\ <<mode, base, commit>> # <<delivery.mode, delivery.base, delivery.expected>>
    /\ RequestResync
    /\ UNCHANGED <<fence, cursor, screen, acked>>

NewDelivery(mode, gen, base, commit, candidate) ==
    [mode |-> mode, gen |-> gen, base |-> base, expected |-> commit,
     received |-> base, applied |-> base, buffered |-> <<>>,
     committed |-> FALSE, candidate |-> candidate]

\* The head of #drainPendingFrames: frames that overtook the start.
TakePendingFrames(gen) ==
    /\ ready' = PendingFrom(gen)
    /\ pending' = <<>>

StartWarmReplay(gen, base, commit) ==
    /\ AcceptsStart(gen)
    /\ fence' = gen
    /\ IF commit < base \/ cursor = NoCursor \/ cursor.seq # base
       THEN RequestResync /\ UNCHANGED cursor
       ELSE /\ CancelRestore(restores)
            /\ draft' = <<>>
            /\ delivery' = NewDelivery("warm", gen, base, commit, "live")
            /\ cursor' = [gen |-> gen, seq |-> base]
            /\ state' = "replaying"
            /\ TakePendingFrames(gen)
            /\ UNCHANGED opening
    /\ UNCHANGED <<screen, acked>>

StartSnapshot(gen, cut, commit) ==
    /\ AcceptsStart(gen)
    /\ fence' = gen
    /\ IF commit < cut
       THEN RequestResync
       ELSE /\ CancelRestore(restores)
            /\ draft' = <<>>
            /\ delivery' = NewDelivery("snapshot", gen, cut, commit, "none")
            /\ state' = "restoring"
            /\ TakePendingFrames(gen)
            /\ opening' = TRUE
    /\ UNCHANGED <<cursor, screen, acked>>

\* Mutant: the restore deadline is not armed.
BeginRestoreWithoutDeadline ==
    /\ opening /\ ready = <<>>
    /\ opening' = FALSE
    /\ restores' = restores \cup
                   {[gen |-> delivery.gen, cut |-> delivery.base, current |-> TRUE]}
    /\ UNCHANGED <<state, fence, cursor, screen, delivery, draft, pending, ready,
                   timer, acked>>

\* The rest of startSnapshot's synchronous part: arm the deadline, call load.
BeginRestore ==
    /\ opening /\ ready = <<>>
    /\ opening' = FALSE
    /\ timer' = TRUE
    /\ restores' = restores \cup
                   {[gen |-> delivery.gen, cut |-> delivery.base, current |-> TRUE]}
    /\ UNCHANGED <<state, fence, cursor, screen, delivery, draft, pending, ready,
                   acked>>

-----------------------------------------------------------------------------
(* Data frames.  rest: what the drain loop still has to accept after f. *)

\* #advanceGenerationFence, then #bufferPendingFrame: the frame overtook its start.
AcceptNewerGeneration(f) ==
    /\ f.gen > fence
    /\ fence' = f.gen
    /\ LET frames == Append(PendingFrom(f.gen), f)
       IN  IF f.kind = "reset" \/ OverBudget(frames, <<>>)
           THEN RequestResync
           ELSE /\ state' = "awaiting-control"
                /\ pending' = frames
                /\ IF HasDelivery
                   THEN DiscardPendingDelivery(restores)
                   ELSE UNCHANGED <<delivery, draft, restores, timer>>
                /\ UNCHANGED <<ready, opening>>
    /\ UNCHANGED <<cursor, screen, acked>>

\* #bufferPendingFrame, for a frame of the fenced generation.
BufferPendingFrame(f) ==
    /\ f.gen = fence
    /\ f.kind # "reset"
    /\ ~HasDelivery
    /\ IF OverBudget(Append(pending, f), <<>>)
       THEN RequestResync
       ELSE /\ pending' = Append(pending, f)
            /\ UNCHANGED <<state, delivery, draft, ready, opening, restores, timer>>
    /\ UNCHANGED <<fence, cursor, screen, acked>>

\* Mutant: a missing event is not noticed.
ContinuesAcrossGap(f) ==
    /\ f.gen = fence
    /\ HasDelivery
    /\ f.kind = "event"
    /\ f.seq > delivery.received

ContinuesDelivery(f) ==
    /\ f.gen = fence
    /\ HasDelivery
    /\ f.kind = "event"
    /\ f.seq = delivery.received + 1

\* Mutant: any commit at the received head completes the delivery.
CompletesAnywhere(f) ==
    /\ f.gen = fence
    /\ HasDelivery
    /\ f.kind = "commit"
    /\ f.seq = delivery.received

CompletesDelivery(f) ==
    /\ f.gen = fence
    /\ HasDelivery
    /\ f.kind = "commit"
    /\ f.seq = delivery.received /\ f.seq = delivery.expected

\* A Reset frame, or one that breaks the delivery's sequence: a ProtocolError.
RejectFrame(f) ==
    /\ f.gen = fence
    /\ \/ f.kind = "reset"
       \/ HasDelivery /\ ~ContinuesDelivery(f) /\ ~CompletesDelivery(f)
    /\ RequestResync
    /\ UNCHANGED <<fence, cursor, screen, acked>>

\* The candidate is not restored yet: keep the frame for #flushBuffered.
BufferEvent(f, rest) ==
    /\ ContinuesDelivery(f)
    /\ delivery.candidate = "none"
    /\ LET buffered == Append(delivery.buffered, f.seq)
       IN  IF OverBudget(pending, buffered)
           THEN RequestResync /\ UNCHANGED acked
           ELSE /\ delivery' = [delivery EXCEPT !.received = f.seq,
                                                !.buffered = buffered]
                /\ acked' = [gen |-> f.gen, seq |-> f.seq]
                /\ ready' = rest
                /\ UNCHANGED <<state, draft, pending, opening, restores, timer>>
    /\ UNCHANGED <<fence, cursor, screen>>

\* applyFrame on the candidate, which is the visible replica or the draft.
ApplyEvent(f, rest) ==
    /\ ContinuesDelivery(f)
    /\ delivery.candidate # "none"
    /\ delivery' = [delivery EXCEPT !.received = f.seq, !.applied = f.seq]
    /\ IF delivery.candidate = "live"
       THEN /\ screen' = Append(screen, f.seq)
            /\ cursor' = [gen |-> f.gen, seq |-> f.seq]
            /\ UNCHANGED draft
       ELSE /\ draft' = Append(draft, f.seq)
            /\ UNCHANGED <<screen, cursor>>
    /\ acked' = [gen |-> f.gen, seq |-> f.seq]
    /\ ready' = rest
    /\ UNCHANGED <<state, fence, pending, opening, restores, timer>>

\* The terminal engine throws; the visible replica may have been half written.
ApplyFails(f) ==
    /\ ContinuesDelivery(f)
    /\ delivery.candidate # "none"
    /\ IF delivery.candidate = "live"
       THEN /\ cursor' = NoCursor
            /\ screen' \in {screen, Append(screen, f.seq)}
       ELSE UNCHANGED <<screen, cursor>>
    /\ RequestResync
    /\ UNCHANGED <<fence, acked>>

\* #tryCommit with a restored candidate: the draft becomes the visible replica.
Adopt(d, content) ==
    /\ screen' = content
    /\ cursor' = [gen |-> d.gen, seq |-> d.applied]
    /\ delivery' = [d EXCEPT !.candidate = "live"]
    /\ draft' = <<>>
    /\ state' = "live"
    /\ timer' = FALSE

\* #acceptCommit and #tryCommit.  A candidate has always applied all it received
\* (DraftInv of SessionCoordinator_proofs), so #tryCommit's own gap check passes.
AcceptCommit(f, rest) ==
    /\ CompletesDelivery(f)
    /\ acked' = [gen |-> f.gen, seq |-> f.seq]
    /\ ready' = rest
    /\ LET d == [delivery EXCEPT !.committed = TRUE]
       IN  \/ /\ d.candidate = "none"
              /\ delivery' = d
              /\ UNCHANGED <<state, cursor, screen, draft, timer>>
           \/ /\ d.candidate = "live"
              /\ delivery' = d
              /\ state' = "live"
              /\ timer' = FALSE
              /\ UNCHANGED <<cursor, screen, draft>>
           \/ /\ d.candidate = "restored"
              /\ Adopt(d, draft)
    /\ UNCHANGED <<fence, pending, opening, restores>>

\* host.adopt throws: the visible replica stays.
AdoptFails(f) ==
    /\ CompletesDelivery(f)
    /\ delivery.candidate = "restored"
    /\ acked' = [gen |-> f.gen, seq |-> f.seq]
    /\ RequestResync
    /\ UNCHANGED <<fence, cursor, screen>>

\* #acceptFrame, for a frame that is not older than the fence.
AcceptFrame(f, rest) ==
    \/ AcceptNewerGeneration(f)
    \/ BufferPendingFrame(f)
    \/ RejectFrame(f)
    \/ BufferEvent(f, rest)
    \/ ApplyEvent(f, rest)
    \/ ApplyFails(f)
    \/ AcceptCommit(f, rest)
    \/ AdoptFails(f)

\* acceptData
AcceptData(f) ==
    /\ Returned
    /\ state \notin {"closed", "resyncing"}
    /\ AcceptFrame(f, <<>>)

\* One turn of #drainPendingFrames.
DrainPendingFrame ==
    /\ ready # <<>>
    /\ AcceptFrame(Head(ready), Tail(ready))

-----------------------------------------------------------------------------
(* Snapshot restore *)

\* The download and the restore have ended, and the attempt is still the last one:
\* #flushBuffered and #tryCommit.
FinishRestore(r) ==
    /\ Returned
    /\ r \in restores
    /\ r.current
    /\ restores' = restores \ {r}
    /\ LET d == [delivery EXCEPT !.candidate = "restored",
                                 !.applied = delivery.applied + Len(delivery.buffered),
                                 !.buffered = <<>>]
           content == Authority(r.cut) \o delivery.buffered
       IN  \/ /\ d.committed
              /\ Adopt(d, content)
           \/ /\ ~d.committed
              /\ delivery' = d
              /\ draft' = content
              /\ UNCHANGED <<state, cursor, screen, timer>>
    /\ UNCHANGED <<fence, pending, ready, opening, acked>>

\* A superseded attempt ends: its candidate is disposed.
FinishSupersededRestore(r) ==
    /\ Returned
    /\ r \in restores
    /\ ~r.current
    /\ restores' = restores \ {r}
    /\ UNCHANGED <<state, fence, cursor, screen, delivery, draft, pending, ready,
                   opening, timer, acked>>

\* The download, the restore or host.adopt rejects.
RestoreFails(r) ==
    /\ Returned
    /\ r \in restores
    /\ r.current
    /\ Resync(restores \ {r})
    /\ UNCHANGED <<fence, cursor, screen, acked>>

\* The restore deadline passes: the candidate is missing, or the commit is.
RestoreDeadline ==
    /\ Returned
    /\ timer
    /\ state = "restoring"
    /\ RequestResync
    /\ UNCHANGED <<fence, cursor, screen, acked>>

Close ==
    /\ Returned
    /\ state # "closed"
    /\ state' = "closed"
    /\ DiscardPendingDelivery(restores)
    /\ pending' = <<>>
    /\ UNCHANGED <<fence, cursor, screen, ready, opening, acked>>

-----------------------------------------------------------------------------

Next ==
    \/ \E gen \in Gens : FenceDeliveryGeneration(gen)
    \/ \E mode \in {"warm", "snapshot"}, gen \in Gens, base \in Seqs, commit \in Seqs :
          ConflictingStart(mode, gen, base, commit)
    \/ \E gen \in Gens, base \in Seqs, commit \in Seqs :
          StartWarmReplay(gen, base, commit)
    \/ \E gen \in Gens, cut \in Seqs, commit \in Seqs :
          StartSnapshot(gen, cut, commit)
    \/ BeginRestore
    \/ \E f \in Frame : AcceptData(f)
    \/ DrainPendingFrame
    \/ \E r \in restores :
          FinishRestore(r) \/ FinishSupersededRestore(r) \/ RestoreFails(r)
    \/ RestoreDeadline
    \/ Close

\* The timer fires, and a handler that has started runs to its end.
Fairness ==
    /\ WF_vars(RestoreDeadline)
    /\ WF_vars(DrainPendingFrame)
    /\ WF_vars(BeginRestore)

Spec == Init /\ [][Next]_vars /\ Fairness

-----------------------------------------------------------------------------
(* Properties *)

\* Types.
TypeOK ==
    /\ state \in States
    /\ fence \in 0 .. MaxGen
    /\ cursor \in Cursor
    /\ screen \in Seq(Seqs)
    /\ delivery \in Delivery
    /\ draft \in Seq(Seqs)
    /\ pending \in Seq(Frame)
    /\ ready \in Seq(Frame)
    /\ opening \in BOOLEAN
    /\ restores \subseteq Restore
    /\ timer \in BOOLEAN
    /\ acked \in Cursor

\* Whatever arrives, and whichever restore ends first, the visible terminal is the
\* authority's first cursor.seq events: no gap, no duplicate, nothing of a
\* superseded snapshot.  The next attach tells the relay this cursor.
ReplicaIsAuthorityPrefix ==
    cursor # NoCursor => screen = Authority(cursor.seq)

\* A terminal shown as live has passed the watermark its delivery was pinned at,
\* and shows all that the current generation delivered.
LiveIsCaughtUp ==
    state = "live" =>
        /\ cursor = [gen |-> fence, seq |-> delivery.received]
        /\ delivery.received >= delivery.expected

\* Frames held back, for a start, for the drain loop or for a restore, never exceed
\* the budget: a slow download cannot make the browser hoard the terminal's output.
BufferWithinBudget ==
    Len(pending) + Len(ready) + Len(delivery.buffered) <= MaxBuffered

\* A frame kept for a start that has not come is dropped when its generation is
\* fenced off: no later delivery drains it.
PendingIsFenced ==
    /\ \A i \in DOMAIN pending : pending[i].gen = fence
    /\ \A i \in DOMAIN ready : ready[i].gen = fence /\ delivery.gen = fence

\* The restore that may still be adopted is the current delivery's, from its cut.
CurrentRestoreIsOfDelivery ==
    \A r \in restores :
        r.current => /\ delivery.mode = "snapshot" /\ delivery.candidate = "none"
                     /\ r.gen = delivery.gen /\ r.cut = delivery.base

\* The relay closes a browser whose acknowledgement goes back within a generation.
AcknowledgementsAdvance ==
    [][\/ acked'.gen > acked.gen
       \/ acked'.gen = acked.gen /\ acked'.seq >= acked.seq]_vars

\* The visible terminal grows event by event, or is replaced as a whole by a restore
\* whose commit has been received: a half-caught-up snapshot is never shown.
ReplacedOnlyByCommittedRestore ==
    [][screen' \notin {screen, Append(screen, Len(screen) + 1)} =>
          /\ state' = "live"
          /\ delivery'.committed
          /\ Len(screen') >= delivery'.expected]_vars

\* A restore does not hang: it is adopted, or given up.
RestoreEnds == state = "restoring" ~> state # "restoring"

=============================================================================

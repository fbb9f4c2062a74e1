----------------------------- MODULE HostSession -----------------------------
(***************************************************************************)
(* The host's terminal session: class TerminalSession of                   *)
(* apps/host-daemon/src/session.ts with the EventJournal of journal.ts.    *)
(* HostInput says what becomes of a submitted input; this module adds the  *)
(* canonical events, the journal that keeps them in segments and evicts    *)
(* the oldest, the ranges it replays and a subscriber that joins.          *)
(*                                                                         *)
(* #drainQueue commits one message at a time, so a message is one step; a  *)
(* message that a callback enqueues waits for its turn, which is a later   *)
(* step.  An event is its number and the PTY offset after it; PTY output   *)
(* is one byte and every frame counts one in the journal's budget.         *)
(***************************************************************************)
EXTENDS HostInput, SequencesExt

CONSTANTS
    MaxEvents,     \* bound on canonical events
    SegmentFrames, \* segmentBytes, in frames
    JournalFrames  \* maxBytes, in frames

ASSUME HostSessionAssumption ==
    /\ MaxEvents \in Nat
    /\ SegmentFrames \in Nat \ {0}
    /\ JournalFrames \in Nat \ {0}

VARIABLES
    offsets,       \* the PTY offset after each canonical event (history)
    journal,       \* #segments and #evictedCursor
    subscriber     \* one subscription, and the events it was given (history)

sessionVars == <<offsets, journal, subscriber>>
vars == <<hostInputVars, sessionVars>>

Cursor == [seq : 0 .. MaxEvents, offset : 0 .. MaxEvents]

\* #eventSeq and #nextPtyOffset, the cursor of the session and of the journal's head.
SessionCursor == [seq |-> Len(offsets), offset |-> IF offsets = <<>> THEN 0 ELSE Last(offsets)]

NoSubscriber == [on |-> FALSE, base |-> 0, replaying |-> FALSE,
                 replay |-> <<>>, pending |-> <<>>, got |-> <<>>]

Init ==
    /\ HostInputInit
    /\ offsets = <<>>
    /\ journal = [segments |-> <<>>, evicted |-> [seq |-> 0, offset |-> 0]]
    /\ subscriber = NoSubscriber

-----------------------------------------------------------------------------
(* EventJournal *)

Entries(segments) == FlattenSeq([i \in DOMAIN segments |-> segments[i].entries])

\* #sealAgedActive: the clock decides whether the active segment is old enough.
SealActive(segments) ==
    IF segments = <<>> THEN segments
    ELSE [segments EXCEPT ![Len(segments)].sealed = TRUE]

MaybeAged(segments) == {segments, SealActive(segments)}

\* #prune: how many of the oldest segments may go.  All of them are sealed, for any of
\* them may be over age; pruning stops at one that is not sealed or within the budget.
Pruned(segments) ==
    {k \in 0 .. Len(segments) :
        /\ \A i \in 1 .. k : segments[i].sealed
        /\ \/ k = Len(segments)
           \/ ~segments[k + 1].sealed
           \/ Len(Entries(segments)) - Len(Entries(SubSeq(segments, 1, k))) <= JournalFrames}

\* Mutant: the evicted cursor is the first event of the last segment that went.
EvictedAtFirst(segments, k) ==
    IF k = 0 THEN journal.evicted ELSE segments[k].entries[1]

\* #evictedCursor: the last event of the last segment that went.
Evicted(segments, k) ==
    IF k = 0 THEN journal.evicted ELSE Last(segments[k].entries)

Prune(segments) ==
    \E k \in Pruned(segments) :
        journal' = [segments |-> SubSeq(segments, k + 1, Len(segments)),
                    evicted |-> Evicted(segments, k)]

\* The entry goes to the active segment, or to a new one when that is sealed.
Appended(segments, entry) ==
    IF segments = <<>> \/ Last(segments).sealed
    THEN Append(segments, [entries |-> <<entry>>, sealed |-> FALSE])
    ELSE [segments EXCEPT ![Len(segments)].entries = Append(@, entry)]

\* A full segment is sealed, and so is the active one of a full journal.
Full(segments) ==
    \/ Len(Last(segments).entries) >= SegmentFrames
    \/ Len(Entries(segments)) > JournalFrames

JournalAppend(entry) ==
    \E aged \in MaybeAged(journal.segments) :
        LET segments == Appended(aged, entry)
        IN  Prune(IF Full(segments) THEN SealActive(segments) ELSE segments)

\* #maintain, before every replay.
Maintain == \E aged \in MaybeAged(journal.segments) : Prune(aged)

\* #offsetAfter: the offset known for an event, if any is.
OffsetAfter(j, seq) ==
    IF seq = j.evicted.seq THEN {j.evicted.offset}
    ELSE {e.offset : e \in {x \in Range(Entries(j.segments)) : x.seq = seq}}

\* #replayRange answers with a gap.
Gap(j, base, commit) ==
    \/ base.seq < j.evicted.seq
    \/ base.seq > commit.seq
    \/ commit.seq > SessionCursor.seq
    \/ OffsetAfter(j, base.seq) # {base.offset}
    \/ OffsetAfter(j, commit.seq) # {commit.offset}

\* The events #replayRange returns when there is no gap: a filter, as its flatMap.
Replayed(j, base, commit) ==
    LET entries == Entries(j.segments)
        InRange(e) == e.seq > base.seq /\ e.seq <= commit.seq
    IN  FlattenSeq([n \in DOMAIN entries |->
                        IF InRange(entries[n]) THEN <<entries[n].seq>> ELSE <<>>])

-----------------------------------------------------------------------------
(* TerminalSession: the canonical events and the subscriber *)

\* A callback runs only once it has been given a frame: until then subscribe goes on.
Callable == subscriber.replaying => subscriber.got # <<>>

\* Mutant: a frame published during the replay is passed on at once.
GivenAtOnce(seq) ==
    IF subscriber.on THEN [subscriber EXCEPT !.got = Append(@, seq)] ELSE subscriber

\* The wrapped subscriber: what is published during the replay waits for its end.
Given(seq) ==
    CASE ~subscriber.on       -> subscriber
      [] subscriber.replaying -> [subscriber EXCEPT !.pending = Append(@, seq)]
      [] OTHER                -> [subscriber EXCEPT !.got = Append(@, seq)]

\* #publish; a subscriber that throws is dropped, which the replay's frames cannot be.
Publish(bytes) ==
    LET seq == Len(offsets) + 1
        offset == SessionCursor.offset + bytes
    IN  /\ seq <= MaxEvents
        /\ offsets' = Append(offsets, offset)
        /\ JournalAppend([seq |-> seq, offset |-> offset])

\* #commitPtyOutput and #commitResize of a local resize.
CommitEvent(bytes) ==
    /\ session # "failed"
    /\ bytes = 0 => session = "running"
    /\ Publish(bytes)
    /\ subscriber' \in {Given(Len(offsets) + 1)}
             \cup (IF subscriber.replaying THEN {} ELSE {NoSubscriber})
    /\ UNCHANGED hostInputVars

\* A submitted resize is an event as well; other inputs only reach the PTY.
InputTakesEffect(id) ==
    /\ CommitInput(id)
    /\ \/ Publish(0) /\ subscriber' = Given(Len(offsets) + 1)
       \/ UNCHANGED sessionVars

\* The commit throws before or after the event is published; #fail drops the subscribers.
InputFails(id) ==
    /\ CommitFails(id)
    /\ \/ Publish(0) /\ log' # log
       \/ UNCHANGED <<offsets, journal>>
    /\ subscriber' = NoSubscriber

InputIsAnswered(id) ==
    /\ RefuseUntouched(id) \/ RefuseUnbound(id) \/ AnswerRetry(id) \/ RefuseInvalid(id)
    /\ UNCHANGED sessionVars

Exits ==
    /\ session = "running"
    /\ session' = "exited"
    /\ UNCHANGED <<inputFence, inputWriter, inputResults, log, answer, sessionVars>>

\* #fail after a canonical message threw, with its event published or not, and dispose.
\* Inputs still queued are answered as RefuseUntouched answers them.
Ends ==
    /\ session # "failed"
    /\ session' = "failed"
    /\ \/ \E bytes \in 0 .. 1 : Publish(bytes)
       \/ UNCHANGED <<offsets, journal>>
    /\ subscriber' = NoSubscriber
    /\ UNCHANGED <<inputFence, inputWriter, inputResults, log, answer>>

-----------------------------------------------------------------------------
(* subscribe *)

\* Without a cursor the subscriber follows from the next event on.
Follow ==
    /\ session # "failed" /\ ~subscriber.on
    /\ subscriber' = [NoSubscriber EXCEPT !.on = TRUE, !.base = Len(offsets)]
    /\ UNCHANGED <<hostInputVars, offsets, journal>>

\* With one it is given what the journal replays first; a gap refuses it (see Reads).
Subscribe(cursor) ==
    /\ session # "failed" /\ ~subscriber.on
    /\ Maintain
    /\ ~Gap(journal', cursor, SessionCursor)
    /\ subscriber' = [NoSubscriber EXCEPT !.on = TRUE, !.base = cursor.seq, !.replaying = TRUE,
                                          !.replay = Replayed(journal', cursor, SessionCursor)]
    /\ UNCHANGED <<hostInputVars, offsets>>

\* The subscriber is called with the next frame of the replay, then of pendingLive.
GiveReplayed ==
    /\ subscriber.replaying
    /\ LET frames == subscriber.replay \o subscriber.pending
       IN  /\ frames # <<>>
           /\ subscriber' \in
                 {[subscriber EXCEPT !.got = Append(@, frames[1]),
                                     !.replay = IF @ = <<>> THEN @ ELSE Tail(@),
                                     !.pending = IF subscriber.replay = <<>> THEN Tail(@) ELSE @],
                  NoSubscriber}
    /\ UNCHANGED <<hostInputVars, offsets, journal>>

EndReplay ==
    /\ subscriber.replaying /\ subscriber.replay = <<>> /\ subscriber.pending = <<>>
    /\ subscriber' = [subscriber EXCEPT !.replaying = FALSE]
    /\ UNCHANGED <<hostInputVars, offsets, journal>>

Unsubscribe ==
    /\ subscriber.on /\ ~subscriber.replaying
    /\ subscriber' = NoSubscriber
    /\ UNCHANGED <<hostInputVars, offsets, journal>>

\* replayThrough, entries and a subscribe that meets a gap: only what they maintain is kept.
Reads == Maintain /\ UNCHANGED <<hostInputVars, offsets, subscriber>>

Next ==
    \/ Callable /\ \E bytes \in 0 .. 1 : CommitEvent(bytes)
    \/ Callable /\ \E id \in Identity :
          InputTakesEffect(id) \/ InputFails(id) \/ InputIsAnswered(id)
    \/ Callable /\ (Exits \/ Ends \/ Follow \/ Reads)
    \/ \E cursor \in Cursor : Subscribe(cursor)
    \/ GiveReplayed \/ EndReplay \/ Unsubscribe

Spec == Init /\ [][Next]_vars

-----------------------------------------------------------------------------
(* Properties *)

\* A replay is either exact or refused, however the clock and the budget cut the
\* journal: a range is returned when both its ends are cursors the session has been
\* at and all events after its base are still retained, and it is then the events
\* after the base up to the commit, in order; a base whose offset is wrong, or from
\* which one event is gone, is a gap (#replayRange, #offsetAfter, #prune).
ReplayIsExact ==
    LET Kept == {e.seq : e \in Range(Entries(journal.segments))}
        OffsetAt(n) == IF n = 0 THEN 0 ELSE offsets[n]
        Near(n) == IF n > Len(offsets) THEN {0}
                   ELSE {OffsetAt(n), OffsetAt(n) + 1}
        Cursors == UNION {[seq : {n}, offset : Near(n)] : n \in 0 .. Len(offsets) + 1}
        Real(c) == c.seq <= Len(offsets) /\ c.offset = OffsetAt(c.seq)
    IN  \A base, commit \in Cursors :
            /\ ~Gap(journal, base, commit) <=>
                  /\ Real(base) /\ Real(commit) /\ base.seq <= commit.seq
                  /\ base.seq + 1 .. Len(offsets) \subseteq Kept
            /\ ~Gap(journal, base, commit) =>
                  Replayed(journal, base, commit)
                     = [i \in 1 .. commit.seq - base.seq |-> base.seq + i]

\* A subscriber is given every event after its cursor once and in order, also those
\* its own callback causes while it is still being given the replay, and once the
\* replay is over it has been given all of them (subscribe, #publish).
SubscriberMissesNothing ==
    subscriber.on =>
        /\ \A i \in DOMAIN subscriber.got : subscriber.got[i] = subscriber.base + i
        /\ ~subscriber.replaying => subscriber.base + Len(subscriber.got) = Len(offsets)
=============================================================================

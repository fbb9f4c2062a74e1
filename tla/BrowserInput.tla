---------------------------- MODULE BrowserInput ----------------------------
(***************************************************************************)
(* The owner of a browser's input: class InputDispatcher of                *)
(* apps/terminal-cloud/src/browser/input-dispatcher.ts with its ledger     *)
(* (input-intent-ledger.ts) and its authority (input-authority.ts), and    *)
(* the part of browser-writer-session.ts that drives them.                 *)
(*                                                                         *)
(* An intent is named by its place in the order of consumption, which is   *)
(* also the order of the ledger's indexes.  An accepted attachment makes a *)
(* new input epoch and needs a higher fence than all before, so that an    *)
(* epoch is named by its fence.  Admission and the send decisions are one  *)
(* step, as they are with the production scheduler: no intent stays queued *)
(* between two steps.  Ages are not counted: what may expire may expire at *)
(* any time.  The environment (relay and transport) is arbitrary.          *)
(***************************************************************************)
EXTENDS Naturals, Sequences, FiniteSets

CONSTANTS
    Clients,      \* browsers, one dispatcher each
    Kinds,        \* kinds of intents: a key is sent at once, a resize may be superseded
    MaxFence,     \* bound on writer fences; 0 stands for none
    MaxIntents,   \* bound on the intents of one browser
    MaxCount,     \* INPUT_QUEUE_CONTRACT.maxCount
    MaxPending    \* INPUT_QUEUE_CONTRACT.maxPending

ASSUME BrowserInputAssumption ==
    /\ "key" \in Kinds /\ Kinds \subseteq {"key", "resize", "text"}
    /\ MaxFence \in Nat
    /\ MaxIntents \in Nat
    /\ MaxCount \in Nat \ {0}
    /\ MaxPending \in Nat \ {0}

VARIABLES
    authority,   \* #authority
    intents,     \* the ledger's records
    admitting    \* #admissionScheduled

browserVars == <<authority, intents, admitting>>

Phases == {"pre", "sent", "terminating", "done"}
Results == {"none", "not-sent", "written", "duplicate", "rejected", "uncertain"}
Intent == [kind : Kinds, phase : Phases, fence : 0 .. MaxFence,
           seq : 0 .. MaxIntents, result : Results]

\* fence and next are the epoch's; replace is the reason replacement-required; lease is
\* BrowserWriterSession's #writerFence.
Authority == [state : {"detached", "read-only", "open", "sealed"},
              lease : 0 .. MaxFence, fence : 0 .. MaxFence, next : 0 .. MaxIntents + 1,
              replace : BOOLEAN, highest : 0 .. MaxFence]

Detached(highest) == [state |-> "detached", lease |-> 0, fence |-> 0, next |-> 0,
                      replace |-> FALSE, highest |-> highest]

BrowserInit ==
    /\ authority = [c \in Clients |-> Detached(0)]
    /\ intents = [c \in Clients |-> <<>>]
    /\ admitting = [c \in Clients |-> FALSE]

-----------------------------------------------------------------------------
(* The ledger and the authority *)

InPhase(ints, phase) == {i \in DOMAIN ints : ints[i].phase = phase}
PendingIn(ints) == InPhase(ints, "sent") \cup InPhase(ints, "terminating")

Finish(ints, ids, result) ==
    [i \in DOMAIN ints |->
        IF i \in ids THEN [ints[i] EXCEPT !.phase = "done", !.result = result]
        ELSE ints[i]]

BeginTermination(ints, ids) ==
    [i \in DOMAIN ints |->
        IF i \in ids THEN [ints[i] EXCEPT !.phase = "terminating"] ELSE ints[i]]

\* Mutant: the epoch stays open.
SealNothing(a, replace) == a

\* sealAuthority: a sealed epoch may still come to require a replacement.
Seal(a, replace) ==
    IF a.state \in {"open", "sealed"}
    THEN [a EXCEPT !.state = "sealed", !.replace = @ \/ replace]
    ELSE a

\* #sealIdentityEpoch
SealEpochOf(a, fence) ==
    IF a.state \in {"open", "sealed"} /\ a.fence = fence THEN Seal(a, TRUE) ELSE a

\* Mutant: what was handed to the transport is settled as what was not.
SettleAllAsNotSent(ints, reason) ==
    Finish(ints, InPhase(ints, "pre") \cup PendingIn(ints), "not-sent")

\* #settleControlTransport: what has no identity was not sent; what was handed to the
\* transport waits for a proof, or is given up when the session is closed.
Settle(ints, reason) ==
    LET unsent == Finish(ints, InPhase(ints, "pre"), "not-sent")
    IN  IF reason = "closed"
        THEN Finish(unsent, PendingIn(ints), "uncertain")
        ELSE BeginTermination(unsent, InPhase(ints, "sent"))

-----------------------------------------------------------------------------
(* Consumption, admission and the send decisions *)

Rank(i, ids) == Cardinality({j \in ids : j <= i})

\* Those of ints that await admission: those older than cut have expired.
Unexpired(ints, cut) == {i \in InPhase(ints, "pre") : i >= cut}

\* Mutant: the limit is not compared again for each identity.
AdmittedIfAnyRoom(c, ints, cut) ==
    IF authority[c].state = "open" /\ Cardinality(PendingIn(ints)) < MaxPending
    THEN Unexpired(ints, cut) ELSE {}

\* #admitPreAdmission up to the limit of outstanding identities.
Admitted(c, ints, cut) ==
    IF authority[c].state # "open" THEN {}
    ELSE {i \in Unexpired(ints, cut) :
              Rank(i, Unexpired(ints, cut)) + Cardinality(PendingIn(ints)) <= MaxPending}

\* What #drainQueue makes of the i-th intent when the transport accepts n of the admitted
\* ones and then decides how about the next: "refused" or "uncertain".
Decided(c, intent, rank, n, how) ==
    LET identified == [intent EXCEPT !.fence = authority[c].fence,
                                     !.seq = authority[c].next + rank - 1]
    IN  IF rank <= n THEN [identified EXCEPT !.phase = "sent"]
        ELSE IF rank = n + 1 /\ how = "uncertain"
             THEN [identified EXCEPT !.phase = "terminating"]
             ELSE [identified EXCEPT !.phase = "done", !.result = "not-sent"]

\* The intents that got an identity are sent in order until the transport fails, which
\* seals the epoch and gives up the rest of the queue.
AdmitAndSend(c, ints, cut, n, how) ==
    LET admitted == Admitted(c, ints, cut)
        refused == InPhase(ints, "pre") \ admitted
    IN  /\ n \in 0 .. Cardinality(admitted)
        /\ (how = "accepted") <=> (n = Cardinality(admitted))
        /\ intents' = [intents EXCEPT ![c] =
              [i \in DOMAIN ints |->
                  IF i \in admitted
                  THEN Decided(c, ints[i], Rank(i, admitted), n, how)
                  ELSE Finish(ints, refused, "not-sent")[i]]]
        /\ LET advanced == [authority[c] EXCEPT !.next = @ + Cardinality(admitted)]
           IN  authority' = [authority EXCEPT ![c] =
                   IF how = "accepted" THEN advanced ELSE Seal(advanced, TRUE)]
        /\ admitting' = [admitting EXCEPT ![c] = FALSE]

New(kind) == [kind |-> kind, phase |-> "pre", fence |-> 0, seq |-> 0, result |-> "none"]

\* isCoalesciblePayloadPair: a resize replaces the resize that waits just before it.
Superseded(ints, kind) ==
    {i \in InPhase(ints, "pre") :
        /\ kind = "resize" /\ ints[i].kind = "resize"
        /\ \A j \in InPhase(ints, "pre") : j <= i}

\* The intent is malformed, invalid or against the policy, its mouse gate is shut, or
\* the browser is not a writer.
ConsumeRefused(c, kind) ==
    /\ Len(intents[c]) < MaxIntents
    /\ kind # "resize" \/ authority[c].state # "open"
    /\ intents' = [intents EXCEPT ![c] =
          Append(@, [New(kind) EXCEPT !.phase = "done", !.result = "not-sent"])]
    /\ UNCHANGED <<authority, admitting>>

\* The ledger after a valid intent: the superseded one is settled, and the new one waits
\* if there is room.
Consumed(ints, kind) ==
    LET rest == Finish(ints, Superseded(ints, kind), "not-sent")
    IN  IF Cardinality(InPhase(rest, "pre")) < MaxCount
        THEN Append(rest, New(kind))
        ELSE Append(rest, [New(kind) EXCEPT !.phase = "done", !.result = "not-sent"])

\* A state intent waits for the admission microtask, in which it may be superseded.
ConsumeState(c, kind) ==
    /\ kind # "key"
    /\ Len(intents[c]) < MaxIntents
    /\ authority[c].state = "open"
    /\ intents' = [intents EXCEPT ![c] = Consumed(@, kind)]
    /\ admitting' = [admitting EXCEPT ![c] =
          @ \/ Consumed(intents[c], kind)[Len(intents[c]) + 1].phase = "pre"]
    /\ UNCHANGED authority

\* A key is admitted at once, with everything that waits before it.
ConsumeKey(c, cut, n, how) ==
    LET ints == Consumed(intents[c], "key")
    IN  /\ Len(intents[c]) < MaxIntents
        /\ authority[c].state = "open"
        /\ cut \in 1 .. Len(ints)
        /\ IF ints[Len(ints)].phase = "pre"
           THEN AdmitAndSend(c, ints, cut, n, how)
           ELSE /\ n = 0 /\ how = "accepted"
                /\ intents' = [intents EXCEPT ![c] = ints]
                /\ UNCHANGED <<authority, admitting>>

\* The admission microtask.  It may run when the epoch is sealed: all is refused.
AdmissionTask(c, cut, n, how) ==
    /\ admitting[c]
    /\ cut \in 1 .. Len(intents[c]) + 1
    /\ AdmitAndSend(c, intents[c], cut, n, how)

-----------------------------------------------------------------------------
(* Acknowledgements and deadlines *)

\* Mutant: a result is also taken by an intent that has one.
AwaitsAnyPhase(intent) == intent.seq > 0

Awaits(intent) == intent.phase \in {"sent", "terminating"}

Matches(c, fence, seq) ==
    {i \in DOMAIN intents[c] :
        intents[c][i].fence = fence /\ intents[c][i].seq = seq /\ Awaits(intents[c][i])}

\* acceptAcknowledgement: an uncertain input ends its epoch.
AcceptAcknowledgement(c, fence, seq, status) ==
    /\ intents' = [intents EXCEPT ![c] = Finish(@, Matches(c, fence, seq), status)]
    /\ authority' = [authority EXCEPT ![c] =
          IF status = "uncertain" /\ Matches(c, fence, seq) # {}
          THEN SealEpochOf(@, fence) ELSE @]
    /\ UNCHANGED admitting

\* #expireDeadlines, one intent at a time; deadlines of one phase but the last are in
\* the order of consumption.
ExpirePre(c) ==
    \E i \in InPhase(intents[c], "pre") :
        /\ \A j \in InPhase(intents[c], "pre") : i <= j
        /\ intents' = [intents EXCEPT ![c] = Finish(@, {i}, "not-sent")]
        /\ UNCHANGED <<authority, admitting>>

ExpireSent(c) ==
    \E i \in InPhase(intents[c], "sent") :
        /\ \A j \in InPhase(intents[c], "sent") : i <= j
        /\ intents' = [intents EXCEPT ![c] = BeginTermination(@, {i})]
        /\ authority' = [authority EXCEPT ![c] = SealEpochOf(@, intents[c][i].fence)]
        /\ UNCHANGED admitting

\* Mutant: what awaits a proof has no deadline.
NothingTerminating(c) == {}

Terminating(c) == InPhase(intents[c], "terminating")

ExpireTerminating(c) ==
    \E i \in Terminating(c) :
        /\ intents' = [intents EXCEPT ![c] = Finish(@, {i}, "uncertain")]
        /\ UNCHANGED <<authority, admitting>>

-----------------------------------------------------------------------------
(* The control connection *)

\* The authority after a welcome with a fence no browser of this page had before.
Opened(fence) == [state |-> "open", lease |-> fence, fence |-> fence, next |-> 1,
                  replace |-> FALSE, highest |-> fence]

\* attachTransport when another transport was attached
Resettled(c) ==
    IF authority[c].state = "detached" THEN intents[c]
    ELSE Settle(intents[c], "control-replaced")

HasResized(c) == \E i \in DOMAIN intents[c] : intents[c][i].kind = "resize"

\* A welcome that repeats the lease of the attached transport attaches nothing.
Repeated(c, fence) == authority[c].state # "detached" /\ authority[c].lease = fence

\* A higher fence opens an epoch, and reconcileLatestResize consumes the latest resize
\* again as a new intent.
WelcomeWriter(c, fence) ==
    /\ fence > authority[c].highest
    /\ authority' = [authority EXCEPT ![c] = Opened(fence)]
    /\ IF HasResized(c) /\ Len(intents[c]) < MaxIntents
       THEN /\ intents' = [intents EXCEPT ![c] = Consumed(Resettled(c), "resize")]
            /\ admitting' = [admitting EXCEPT ![c] = TRUE]
       ELSE /\ intents' = [intents EXCEPT ![c] = Resettled(c)]
            /\ UNCHANGED admitting

\* A welcome without a lease leaves the browser waiting.
WelcomeWaiting(c) ==
    /\ ~Repeated(c, 0)
    /\ authority' = [authority EXCEPT ![c] =
          IF @.state \in {"open", "sealed"} THEN [Seal(@, FALSE) EXCEPT !.lease = 0]
          ELSE [Detached(@.highest) EXCEPT !.state = "read-only"]]
    /\ intents' = [intents EXCEPT ![c] = Resettled(c)]
    /\ UNCHANGED admitting

\* detachTransport: the control connection is replaced or the session closed.  It also
\* ends a welcome whose lease is not writable, which is a protocol failure.
Detach(c, reason) ==
    /\ authority' = [authority EXCEPT ![c] = Detached(@.highest)]
    /\ intents' = [intents EXCEPT ![c] = Settle(@, reason)]
    /\ UNCHANGED admitting

\* revokeWriterAuthority: the relay says that the lease is gone.
Revoke(c) ==
    /\ authority' = [authority EXCEPT ![c] = [Seal(@, FALSE) EXCEPT !.lease = 0]]
    /\ intents' = [intents EXCEPT ![c] = Settle(@, "control-replaced")]
    /\ UNCHANGED admitting

\* controlReplacementRequired, which the microtask of BrowserWriterSession turns into a
\* new connection.
ReplacementRequired(c) == authority[c].state = "sealed" /\ authority[c].replace

ReplaceConnection(c) == ReplacementRequired(c) /\ Detach(c, "control-replaced")

-----------------------------------------------------------------------------
(* A browser in an arbitrary environment *)

SendDecisions == {"accepted", "refused", "uncertain"}

BrowserStep(c) ==
    \/ \E kind \in Kinds : ConsumeRefused(c, kind) \/ ConsumeState(c, kind)
    \/ \E cut \in 1 .. MaxIntents + 1, n \in 0 .. MaxIntents, how \in SendDecisions :
          ConsumeKey(c, cut, n, how) \/ AdmissionTask(c, cut, n, how)
    \/ ExpirePre(c) \/ ExpireSent(c) \/ ExpireTerminating(c)
    \/ ReplaceConnection(c)

RelayStep(c) ==
    \/ \E fence \in 1 .. MaxFence, seq \in 1 .. MaxIntents,
          status \in {"written", "duplicate", "rejected", "uncertain"} :
             AcceptAcknowledgement(c, fence, seq, status)
    \/ \E fence \in 1 .. MaxFence : WelcomeWriter(c, fence)
    \/ WelcomeWaiting(c)
    \/ /\ authority[c].state # "detached"
       /\ Revoke(c) \/ Detach(c, "control-replaced") \/ Detach(c, "closed")

BrowserNext == \E c \in Clients : BrowserStep(c) \/ RelayStep(c)

\* Microtasks and timers run.
BrowserFairness ==
    \A c \in Clients :
        /\ WF_browserVars(\E cut \in 1 .. MaxIntents + 1, n \in 0 .. MaxIntents,
                             how \in SendDecisions : AdmissionTask(c, cut, n, how))
        /\ WF_browserVars(ExpirePre(c))
        /\ WF_browserVars(ExpireSent(c))
        /\ WF_browserVars(ExpireTerminating(c))
        /\ WF_browserVars(ReplaceConnection(c))

BrowserSpec == BrowserInit /\ [][BrowserNext]_browserVars
FairBrowserSpec == BrowserSpec /\ BrowserFairness

-----------------------------------------------------------------------------
(* Properties *)

BrowserTypeOK ==
    /\ authority \in [Clients -> Authority]
    /\ intents \in [Clients -> Seq(Intent)]
    /\ admitting \in [Clients -> BOOLEAN]
    /\ \A c \in Clients : \A i \in DOMAIN intents[c] :
          intents[c][i].phase = "done" <=> intents[c][i].result # "none"

\* The page never holds more identities without a result than it may, nor more intents
\* that wait (canReservePreAdmission and canAdmit), through any number of epochs.
LedgerWithinLimits ==
    \A c \in Clients : /\ Cardinality(PendingIn(intents[c])) <= MaxPending
                       /\ Cardinality(InPhase(intents[c], "pre")) <= MaxCount

\* The intent's frame was given to the transport, or may have been.
OnWire(intent) == intent.seq > 0 /\ intent.result # "not-sent"

\* The host never sees a gap: on the wire an epoch's sequence starts at 1 and goes on by
\* 1 in the order of consumption, whatever was refused, superseded, expired or given up
\* (the seal that follows every identity that is not sent, docs/input-core-plan.md:86).
WireHasNoGap ==
    \A c \in Clients : \A i \in DOMAIN intents[c] :
        LET intent == intents[c][i]
        IN  OnWire(intent) /\ intent.seq > 1 =>
              \E j \in 1 .. i - 1 : /\ OnWire(intents[c][j])
                                    /\ intents[c][j].fence = intent.fence
                                    /\ intents[c][j].seq = intent.seq - 1

\* While an epoch is open each of its identities is on the wire without a verdict yet, or
\* has a deterministic one: an epoch does not go on after an input whose fate is not
\* known (#sealIdentityEpoch at every such end).
OpenEpochIsProven ==
    \A c \in Clients : authority[c].state = "open" =>
        \A i \in DOMAIN intents[c] :
            intents[c][i].seq > 0 /\ intents[c][i].fence = authority[c].fence =>
                \/ intents[c][i].phase = "sent"
                \/ intents[c][i].result \in {"written", "duplicate", "rejected"}

\* A terminal result is never rewritten, however late an acknowledgement or a deadline
\* comes (finish and the phase test of acceptAcknowledgement).
ResultsAreFinal ==
    [][\A c \in Clients : \A i \in DOMAIN intents[c] :
          intents[c][i].phase = "done" => intents'[c][i] = intents[c][i]]_browserVars

\* Every consumed intent gets a terminal result (the deadlines of #expireDeadlines and
\* the settlement of every transport that is left).
EveryIntentSettles ==
    \A c \in Clients : \A i \in 1 .. MaxIntents :
        i \in DOMAIN intents[c] ~> i \in DOMAIN intents[c] /\ intents[c][i].phase = "done"
=============================================================================

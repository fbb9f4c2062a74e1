------------------------------ MODULE HostInput ------------------------------
(***************************************************************************)
(* What the host does with submitted input: the semantic input sequence    *)
(* of class TerminalSession, apps/host-daemon/src/session.ts, fed by       *)
(* cloud/input-dispatcher.ts.                                              *)
(*                                                                         *)
(* The environment is arbitrary: any identity may be submitted any number  *)
(* of times, in any order.  A payload is not modelled; an input's effect   *)
(* is its identity's entry in log, which stands for the bytes written to   *)
(* the PTY or the size given to it.  Whether a payload passes validation   *)
(* (and its observedEventSeq is not ahead of the authority) is a choice of *)
(* the environment.                                                        *)
(***************************************************************************)
EXTENDS Naturals, Sequences

CONSTANTS
    Clients,       \* values of clientId
    Epochs,        \* values of inputEpoch
    MaxFence,      \* bound on writer fences (the code's is 2^64 - 1)
    MaxInputSeq,   \* bound on clientInputSeq
    DedupEntries   \* inputDedupEntries, 4096 by default

ASSUME HostInputAssumption ==
    /\ MaxFence \in Nat
    /\ MaxInputSeq \in Nat
    /\ DedupEntries \in Nat \ {0}

VARIABLES
    session,       \* #failure and #ptyExited
    inputFence,    \* #inputFence
    inputWriter,   \* #inputWriter; highWater = 0 is undefined
    inputResults,  \* #inputResults, in insertion order
    log,           \* the inputs that took effect, in order (history)
    answer         \* the last acknowledgement (history)

hostInputVars == <<session, inputFence, inputWriter, inputResults, log, answer>>

Identity == [fence : 0 .. MaxFence, client : Clients, epoch : Epochs,
             seq : 0 .. MaxInputSeq]
Status == {"written", "duplicate", "rejected", "uncertain"}

NoWriter == [client |-> "", epoch |-> "", highWater |-> 0]
NoAnswer == [id |-> [fence |-> 0, client |-> "", epoch |-> "", seq |-> 0],
             status |-> "none"]

HostInputInit ==
    /\ session = "running"
    /\ inputFence = 0
    /\ inputWriter = NoWriter
    /\ inputResults = <<>>
    /\ log = <<>>
    /\ answer = NoAnswer

Took(id) == \E i \in DOMAIN log : log[i] = id

-----------------------------------------------------------------------------
(* #commitSubmittedInput *)

\* The writer and the results as they are once a higher fence has been taken up.
WriterAt(fence) == IF fence > inputFence THEN NoWriter ELSE inputWriter
ResultsAt(fence) == IF fence > inputFence THEN <<>> ELSE inputResults

\* A fence is bound to the first client and epoch whose first input is accepted.
Bound(id) ==
    LET writer == WriterAt(id.fence)
    IN  IF writer.highWater = 0
        THEN id.seq = 1
        ELSE writer.client = id.client /\ writer.epoch = id.epoch

\* Mutant: only what is still remembered is recognised.
RememberedOnly(id) ==
    \E i \in DOMAIN ResultsAt(id.fence) : ResultsAt(id.fence)[i].seq = id.seq

\* The result of this sequence number is remembered, or it was and is evicted.
AlreadyTried(id) == id.seq <= WriterAt(id.fence).highWater

RememberedWritten(id) ==
    [seq |-> id.seq, result |-> "written"]
        \in {ResultsAt(id.fence)[i] : i \in DOMAIN ResultsAt(id.fence)}

\* #rememberInput: one entry is added, so at most one is evicted.
Remember(id, result) ==
    LET kept == Append(ResultsAt(id.fence), [seq |-> id.seq, result |-> result])
    IN  /\ inputResults' = IF Len(kept) > DedupEntries THEN Tail(kept) ELSE kept
        /\ inputWriter' = [client |-> id.client, epoch |-> id.epoch, highWater |-> id.seq]

\* A refused input still advances the fence when its own is higher.
TakeFenceOnly(id) ==
    /\ inputFence' = IF id.fence > inputFence THEN id.fence ELSE inputFence
    /\ inputWriter' = WriterAt(id.fence)
    /\ inputResults' = ResultsAt(id.fence)
    /\ UNCHANGED <<session, log>>

\* The session no longer takes input, or the fence is invalid or a displaced writer's.
RefuseUntouched(id) ==
    /\ session # "running" \/ id.fence = 0 \/ id.fence < inputFence
    /\ answer' = [id |-> id, status |-> "rejected"]
    /\ UNCHANGED <<session, inputFence, inputWriter, inputResults, log>>

Current(id) == session = "running" /\ id.fence > 0 /\ id.fence >= inputFence

RefuseUnbound(id) ==
    /\ Current(id)
    /\ id.seq = 0 \/ ~Bound(id)
    /\ answer' = [id |-> id, status |-> "rejected"]
    /\ TakeFenceOnly(id)

\* A retry is answered from the remembered result and takes no effect again.
AnswerRetry(id) ==
    /\ Current(id) /\ id.seq > 0 /\ Bound(id) /\ AlreadyTried(id)
    /\ answer' = [id |-> id, status |-> IF RememberedWritten(id) THEN "duplicate" ELSE "uncertain"]
    /\ TakeFenceOnly(id)

\* Mutant: the payload is validated before the retry is looked up.
MayBeInvalidAtOnce(id) == Current(id) /\ id.seq > 0 /\ Bound(id)

MayBeInvalid(id) == Current(id) /\ id.seq > 0 /\ Bound(id) /\ ~AlreadyTried(id)

\* observedEventSeq is ahead of the authority, or validate throws.
RefuseInvalid(id) ==
    /\ MayBeInvalid(id)
    /\ answer' = [id |-> id, status |-> "rejected"]
    /\ TakeFenceOnly(id)

CommitInput(id) ==
    /\ Current(id) /\ id.seq > 0 /\ Bound(id) /\ ~AlreadyTried(id)
    /\ answer' = [id |-> id, status |-> "written"]
    /\ inputFence' = id.fence
    /\ Remember(id, "written")
    /\ log' = Append(log, id)
    /\ UNCHANGED session

\* The encoder, the PTY or the authority throws: the effect may have been taken or
\* not, and the session fails.
CommitFails(id) ==
    /\ Current(id) /\ id.seq > 0 /\ Bound(id) /\ ~AlreadyTried(id)
    /\ answer' = [id |-> id, status |-> "uncertain"]
    /\ inputFence' = id.fence
    /\ Remember(id, "uncertain")
    /\ log' \in {log, Append(log, id)}
    /\ session' = "failed"

SubmitInput(id) ==
    \/ RefuseUntouched(id)
    \/ RefuseUnbound(id)
    \/ AnswerRetry(id)
    \/ RefuseInvalid(id)
    \/ CommitInput(id)
    \/ CommitFails(id)

\* The child process exits, a canonical mutation fails, or the session is disposed;
\* an exited session can still fail.
SessionEnds ==
    /\ session # "failed"
    /\ session' \in {"exited", "failed"}
    /\ UNCHANGED <<inputFence, inputWriter, inputResults, log, answer>>

HostInputNext ==
    \/ \E id \in Identity : SubmitInput(id)
    \/ SessionEnds

HostInputSpec == HostInputInit /\ [][HostInputNext]_hostInputVars

-----------------------------------------------------------------------------
(* Properties *)

TypeOK ==
    /\ session \in {"running", "exited", "failed"}
    /\ inputFence \in 0 .. MaxFence
    /\ inputWriter \in {NoWriter} \cup
           [client : Clients, epoch : Epochs, highWater : 1 .. MaxInputSeq]
    /\ inputResults \in Seq([seq : 1 .. MaxInputSeq, result : {"written", "uncertain"}])
    /\ Len(inputResults) <= DedupEntries
    /\ log \in Seq(Identity)
    /\ answer \in [id : Identity, status : Status] \cup {NoAnswer}

\* Inputs take effect at most once and in order: the fences of the log never
\* decrease, and all inputs of one fence are of one client and one epoch with
\* growing sequence numbers, however often an input is submitted and however few
\* results are remembered (#commitSubmittedInput, docs/wire-protocol.md:72).
LogIsOrdered ==
    \A i, j \in DOMAIN log : i < j =>
        \/ log[i].fence < log[j].fence
        \/ /\ log[i].fence = log[j].fence
           /\ log[i].client = log[j].client /\ log[i].epoch = log[j].epoch
           /\ log[i].seq < log[j].seq

\* An acknowledgement can be believed: written and duplicate mean that the input
\* took effect, and an input that took effect is answered rejected only once its
\* writer is displaced or the session has ended (the order of the checks in
\* #commitSubmittedInput: the retry is looked up before the payload is validated).
AnswersMatchLog ==
    /\ answer.status \in {"written", "duplicate"} => Took(answer.id)
    /\ answer.status = "rejected" /\ Took(answer.id) =>
          answer.id.fence < inputFence \/ session # "running"
=============================================================================

------------------------- MODULE HostSession_proofs -------------------------
(***************************************************************************)
(* Proofs about HostInput, for any clients and epochs and every bound on   *)
(* fences, sequence numbers and remembered results; that HostSession       *)
(* implements it, so that what is proved of the input sequence holds of    *)
(* the session, whatever its journal and its subscribers do; and that the  *)
(* journal's replays and its subscribers are exact, for any number of      *)
(* events and any size of the segments and of the journal.                 *)
(*                                                                         *)
(* The journal is a recursive definition over its segments.  What it holds *)
(* is proved by induction on the segments, through the smallest number for *)
(* which the claim fails.                                                  *)
(***************************************************************************)
EXTENDS HostSession, SequenceTheorems, WellFoundedInduction, TLAPS

(***************************************************************************)
(* The inductive invariant.  That the log is ordered is not inductive: the *)
(* next entry is compared with the fence and the high water only, so these *)
(* must be known to bound every entry of the log.                          *)
(***************************************************************************)

\* The log lies below the fence, and its entries of the current fence are the bound
\* writer's and lie below the high water.
LogIsBounded ==
    \A i \in DOMAIN log :
        /\ log[i].fence > 0 /\ log[i].seq > 0
        /\ log[i].fence <= inputFence
        /\ log[i].fence = inputFence =>
              /\ log[i].client = inputWriter.client
              /\ log[i].epoch = inputWriter.epoch
              /\ log[i].seq <= inputWriter.highWater

\* A result remembered as written is in the log, under the bound writer's identity.
WrittenResultsAreLogged ==
    \A i \in DOMAIN inputResults : inputResults[i].result = "written" =>
        Took([fence |-> inputFence, client |-> inputWriter.client,
              epoch |-> inputWriter.epoch, seq |-> inputResults[i].seq])

\* Nothing is remembered before a writer is bound.
ResultsHaveWriter == inputWriter.highWater = 0 => inputResults = <<>>

IInv ==
    /\ TypeOK
    /\ LogIsBounded
    /\ LogIsOrdered
    /\ WrittenResultsAreLogged
    /\ ResultsHaveWriter
    /\ AnswersMatchLog

-----------------------------------------------------------------------------

\* Types of what a submitted input's fence makes of the writer and the results.
LEMMA FenceTakeUp ==
    ASSUME TypeOK, NEW id \in Identity
    PROVE  /\ WriterAt(id.fence) \in {NoWriter} \cup
                 [client : Clients, epoch : Epochs, highWater : 1 .. MaxInputSeq]
           /\ ResultsAt(id.fence) \in
                 Seq([seq : 1 .. MaxInputSeq, result : {"written", "uncertain"}])
           /\ Len(ResultsAt(id.fence)) <= DedupEntries
    BY HostInputAssumption DEF TypeOK, WriterAt, ResultsAt

\* The high water is a number, whether a writer is bound or not.
LEMMA HighWaterType ==
    ASSUME TypeOK PROVE inputWriter.highWater \in Nat
<1>1. CASE inputWriter = NoWriter
    BY <1>1 DEF NoWriter
<1>2. CASE inputWriter \in [client : Clients, epoch : Epochs, highWater : 1 .. MaxInputSeq]
    BY <1>2, HostInputAssumption
<1> QED
    BY <1>1, <1>2 DEF TypeOK

\* The initial state satisfies the invariant.
LEMMA InitIInv == HostInputInit => IInv
<1> SUFFICES ASSUME HostInputInit PROVE IInv
    OBVIOUS
<1>1. TypeOK
    BY HostInputAssumption DEF HostInputInit, TypeOK
<1>2. LogIsBounded /\ LogIsOrdered
    BY DEF HostInputInit, LogIsBounded, LogIsOrdered
<1>3. WrittenResultsAreLogged /\ ResultsHaveWriter
    BY DEF HostInputInit, WrittenResultsAreLogged, ResultsHaveWriter
<1>4. AnswersMatchLog
    BY DEF HostInputInit, AnswersMatchLog, NoAnswer
<1> QED
    BY <1>1, <1>2, <1>3, <1>4 DEF IInv

\* An input that is answered without taking effect preserves the invariant.
LEMMA RefusalPreserves ==
    ASSUME IInv, NEW id \in Identity, RefuseUntouched(id)
    PROVE  IInv'
<1>1. TypeOK'
    BY DEF IInv, TypeOK, RefuseUntouched, Status
<1>2. (LogIsBounded /\ LogIsOrdered /\ WrittenResultsAreLogged /\ ResultsHaveWriter)'
    BY DEF IInv, RefuseUntouched, LogIsBounded, LogIsOrdered, Took,
           WrittenResultsAreLogged, ResultsHaveWriter
<1>3. ASSUME id.fence = 0 PROVE ~Took(id)
    BY <1>3 DEF IInv, LogIsBounded, Took
<1>4. AnswersMatchLog'
    BY <1>3 DEF RefuseUntouched, AnswersMatchLog, Took
<1> QED
    BY <1>1, <1>2, <1>4 DEF IInv

\* Taking up the fence of an input that takes no effect preserves what is known of
\* the log and of the remembered results.
LEMMA TakeFencePreserves ==
    ASSUME IInv, NEW id \in Identity, id.fence >= inputFence, TakeFenceOnly(id)
    PROVE  /\ (LogIsBounded /\ LogIsOrdered)'
           /\ (WrittenResultsAreLogged /\ ResultsHaveWriter)'
<1>1. id.fence \in Nat /\ inputFence \in Nat
    BY DEF IInv, TypeOK, Identity
<1>2. \A i \in DOMAIN log : log[i] \in Identity
    BY DEF IInv, TypeOK
<1>3. CASE id.fence > inputFence
  <2>1. inputFence' = id.fence /\ inputWriter' = NoWriter /\ inputResults' = <<>> /\ log' = log
    BY <1>3 DEF TakeFenceOnly, WriterAt, ResultsAt
  <2>2. LogIsBounded'
    BY <1>1, <1>2, <1>3, <2>1 DEF IInv, LogIsBounded, Identity
  <2> QED
    BY <2>1, <2>2 DEF IInv, LogIsOrdered, WrittenResultsAreLogged, ResultsHaveWriter
<1>4. CASE id.fence = inputFence
  <2>1. UNCHANGED <<inputFence, inputWriter, inputResults, log>>
    BY <1>4, <1>1 DEF TakeFenceOnly, WriterAt, ResultsAt
  <2> QED
    BY <2>1 DEF IInv, LogIsBounded, LogIsOrdered, WrittenResultsAreLogged,
                ResultsHaveWriter, Took
<1> QED
    BY <1>1, <1>3, <1>4

\* The types after an input that takes no effect.
LEMMA TakeFenceTypes ==
    ASSUME TypeOK, NEW id \in Identity, TakeFenceOnly(id),
           NEW status \in Status, answer' = [id |-> id, status |-> status]
    PROVE  TypeOK'
<1>1. inputFence' \in 0 .. MaxFence
    BY DEF TypeOK, TakeFenceOnly, Identity
<1> QED
    BY <1>1, FenceTakeUp DEF TypeOK, TakeFenceOnly

\* An identity of a current fence that is in the log is recognised as a retry.
LEMMA LoggedIsTried ==
    ASSUME IInv, NEW id \in Identity, id.fence >= inputFence, Took(id)
    PROVE  id.fence = inputFence /\ AlreadyTried(id) /\ id.seq > 0 /\ Bound(id)
<1> PICK i \in DOMAIN log : log[i] = id
    BY DEF Took
<1>1. id.fence \in Nat /\ inputFence \in Nat /\ id.seq \in Nat
    BY DEF IInv, TypeOK, Identity
<1>2. id.fence <= inputFence /\ id.seq > 0
    BY DEF IInv, LogIsBounded
<1>3. id.fence = inputFence /\ WriterAt(id.fence) = inputWriter
    BY <1>1, <1>2 DEF WriterAt
<1>4. /\ inputWriter.client = id.client /\ inputWriter.epoch = id.epoch
      /\ id.seq <= inputWriter.highWater
    BY <1>3 DEF IInv, LogIsBounded
<1>5. inputWriter.highWater \in Nat
    BY HighWaterType DEF IInv
<1> QED
    BY <1>1, <1>2, <1>3, <1>4, <1>5 DEF AlreadyTried, Bound

\* Refusing an input that the writer's binding or its payload rules out.
LEMMA RejectionPreserves ==
    ASSUME IInv, NEW id \in Identity, RefuseUnbound(id) \/ RefuseInvalid(id)
    PROVE  IInv'
<1>1. /\ id.fence >= inputFence /\ TakeFenceOnly(id)
      /\ answer' = [id |-> id, status |-> "rejected"]
      /\ ~AlreadyTried(id) \/ id.seq = 0 \/ ~Bound(id)
    BY DEF RefuseUnbound, RefuseInvalid, MayBeInvalid, Current
<1>2. TypeOK'
    BY <1>1, TakeFenceTypes DEF IInv, Status
<1>3. (LogIsBounded /\ LogIsOrdered /\ WrittenResultsAreLogged /\ ResultsHaveWriter)'
    BY <1>1, TakeFencePreserves
<1>4. ~Took(id)
    BY <1>1, LoggedIsTried DEF Identity
<1>5. AnswersMatchLog'
    BY <1>1, <1>4 DEF AnswersMatchLog, Took, TakeFenceOnly
<1> QED
    BY <1>2, <1>3, <1>5 DEF IInv

\* Answering a retry from the remembered result.
LEMMA RetryPreserves ==
    ASSUME IInv, NEW id \in Identity, AnswerRetry(id)
    PROVE  IInv'
<1>1. /\ id.fence >= inputFence /\ TakeFenceOnly(id) /\ id.seq > 0
      /\ Bound(id) /\ AlreadyTried(id)
    BY DEF AnswerRetry, Current
<1>2. PICK status \in {"duplicate", "uncertain"} :
          /\ answer' = [id |-> id, status |-> status]
          /\ status = "duplicate" => RememberedWritten(id)
    BY DEF AnswerRetry
<1>3. TypeOK'
    BY <1>1, <1>2, TakeFenceTypes DEF IInv, Status
<1>4. (LogIsBounded /\ LogIsOrdered /\ WrittenResultsAreLogged /\ ResultsHaveWriter)'
    BY <1>1, TakeFencePreserves
<1>5. ASSUME RememberedWritten(id) PROVE Took(id)
  <2>1. id.fence \in Nat /\ inputFence \in Nat /\ id.seq \in Nat
      BY DEF IInv, TypeOK, Identity
  <2>2. id.fence = inputFence
      BY <1>1, <2>1 DEF AlreadyTried, WriterAt, NoWriter
  <2>3. PICK i \in DOMAIN inputResults :
            inputResults[i] = [seq |-> id.seq, result |-> "written"]
      BY <1>5, <2>1, <2>2 DEF RememberedWritten, ResultsAt
  <2>4. inputWriter.highWater # 0
      BY <1>1, <2>1, <2>2, HighWaterType DEF AlreadyTried, WriterAt, IInv
  <2>5. inputWriter.client = id.client /\ inputWriter.epoch = id.epoch
      BY <1>1, <2>1, <2>2, <2>4 DEF Bound, WriterAt
  <2>6. id = [fence |-> inputFence, client |-> inputWriter.client,
              epoch |-> inputWriter.epoch, seq |-> inputResults[i].seq]
      BY <2>2, <2>3, <2>5 DEF Identity
  <2> QED
      BY <2>3, <2>6 DEF IInv, WrittenResultsAreLogged
<1>6. AnswersMatchLog'
    BY <1>1, <1>2, <1>5 DEF AnswersMatchLog, Took, TakeFenceOnly
<1> QED
    BY <1>3, <1>4, <1>6 DEF IInv

-----------------------------------------------------------------------------
(* Inputs that take effect, or may have *)

\* What the two actions that bind the writer do to everything but the session: the
\* input is remembered, and the log has grown by it or not at all.
Accepts(id, result) ==
    /\ Current(id) /\ id.seq > 0 /\ Bound(id) /\ ~AlreadyTried(id)
    /\ answer' = [id |-> id, status |-> result]
    /\ inputFence' = id.fence
    /\ Remember(id, result)
    /\ \/ log' = Append(log, id)
       \/ result = "uncertain" /\ log' = log

\* The high water rises past every entry of the log of the same fence.
LEMMA AcceptedIsNew ==
    ASSUME IInv, NEW id \in Identity, Current(id), Bound(id), ~AlreadyTried(id)
    PROVE  \A i \in DOMAIN log :
              /\ log[i].fence <= id.fence
              /\ log[i].fence = id.fence =>
                    /\ log[i].client = id.client /\ log[i].epoch = id.epoch
                    /\ log[i].seq < id.seq
<1> SUFFICES ASSUME NEW i \in DOMAIN log
             PROVE  /\ log[i].fence <= id.fence
                    /\ log[i].fence = id.fence =>
                          /\ log[i].client = id.client /\ log[i].epoch = id.epoch
                          /\ log[i].seq < id.seq
    OBVIOUS
<1>1. /\ log[i].fence \in Nat /\ log[i].seq \in Nat /\ id.fence \in Nat
      /\ id.seq \in Nat /\ inputFence \in Nat /\ inputWriter.highWater \in Nat
  <2>1. log[i] \in Identity
      BY DEF IInv, TypeOK
  <2> QED
      BY <2>1, HighWaterType DEF IInv, TypeOK, Identity
<1>2. log[i].fence <= inputFence /\ inputFence <= id.fence /\ log[i].seq > 0
    BY <1>1 DEF IInv, LogIsBounded, Current
<1>3. ASSUME log[i].fence = id.fence
      PROVE  /\ log[i].client = id.client /\ log[i].epoch = id.epoch
             /\ log[i].seq < id.seq
  <2>1. id.fence = inputFence /\ WriterAt(id.fence) = inputWriter
      BY <1>1, <1>2, <1>3 DEF WriterAt
  <2>2. /\ log[i].client = inputWriter.client /\ log[i].epoch = inputWriter.epoch
        /\ log[i].seq <= inputWriter.highWater
      BY <1>3, <2>1 DEF IInv, LogIsBounded
  <2> QED
      BY <1>1, <1>2, <2>1, <2>2 DEF Bound, AlreadyTried
<1> QED
    BY <1>1, <1>2, <1>3

\* The remembered results after one more, evicted from the front or not.
LEMMA RememberedResults ==
    ASSUME IInv, NEW id \in Identity, NEW result \in {"written", "uncertain"},
           id.seq > 0, Remember(id, result)
    PROVE  /\ inputResults' \in
                 Seq([seq : 1 .. MaxInputSeq, result : {"written", "uncertain"}])
           /\ inputResults' # <<>> /\ Len(inputResults') <= DedupEntries
           /\ \A i \in DOMAIN inputResults' :
                 \/ inputResults'[i] = [seq |-> id.seq, result |-> result]
                 \/ \E j \in DOMAIN ResultsAt(id.fence) :
                       inputResults'[i] = ResultsAt(id.fence)[j]
<1> DEFINE Entry == [seq : 1 .. MaxInputSeq, result : {"written", "uncertain"}]
           new == [seq |-> id.seq, result |-> result]
           old == ResultsAt(id.fence)
           kept == Append(old, new)
<1>1. old \in Seq(Entry) /\ new \in Entry /\ Len(old) <= DedupEntries
  <2>1. id.seq \in 1 .. MaxInputSeq
      BY HostInputAssumption DEF Identity
  <2> QED
      BY <2>1, FenceTakeUp DEF IInv
<1>2. /\ kept \in Seq(Entry) /\ Len(kept) = Len(old) + 1
      /\ \A i \in 1 .. Len(old) : kept[i] = old[i]
      /\ kept[Len(old) + 1] = new
    BY <1>1
<1>3. \A i \in DOMAIN kept : kept[i] = new \/ \E j \in DOMAIN old : kept[i] = old[j]
    BY <1>1, <1>2
<1>4. CASE Len(kept) > DedupEntries
  <2>1. inputResults' = Tail(kept)
      BY <1>4 DEF Remember
  <2>2. Len(kept) > 1
      BY <1>2, <1>4, HostInputAssumption
  <2>3. /\ Tail(kept) \in Seq(Entry) /\ Len(Tail(kept)) = Len(kept) - 1
        /\ \A i \in 1 .. Len(kept) - 1 : Tail(kept)[i] = kept[i + 1]
      BY <1>2, <2>2, SMTT(30)
  <2>4. Len(inputResults') <= DedupEntries
      BY <1>1, <1>2, <2>1, <2>3, HostInputAssumption
  <2> QED
      BY <1>2, <1>3, <2>1, <2>2, <2>3, <2>4, SMTT(30)
<1>5. CASE ~(Len(kept) > DedupEntries)
  <2>1. inputResults' = kept
      BY <1>5 DEF Remember
  <2>2. Len(inputResults') <= DedupEntries
      BY <1>2, <1>5, <2>1, HostInputAssumption
  <2> QED
      BY <1>1, <1>2, <1>3, <2>1, <2>2, SMTT(30)
<1> QED
    BY <1>4, <1>5

\* Accepting an input preserves the invariant.
LEMMA AcceptancePreserves ==
    ASSUME IInv, NEW id \in Identity, NEW result \in {"written", "uncertain"},
           Accepts(id, result), session' \in {"running", "exited", "failed"},
           result = "written" => log' = Append(log, id)
    PROVE  IInv'
<1>1. /\ id.fence \in 1 .. MaxFence /\ id.seq \in 1 .. MaxInputSeq
      /\ id.client \in Clients /\ id.epoch \in Epochs
    BY HostInputAssumption DEF Accepts, Current, Identity
<1>2. /\ inputFence' = id.fence
      /\ inputWriter' = [client |-> id.client, epoch |-> id.epoch, highWater |-> id.seq]
      /\ answer' = [id |-> id, status |-> result]
    BY DEF Accepts, Remember
<1>3. log \in Seq(Identity) /\ log' \in Seq(Identity)
  <2>1. log \in Seq(Identity)
      BY DEF IInv, TypeOK
  <2>2. log' = log \/ log' = Append(log, id)
      BY DEF Accepts
  <2> QED
      BY <2>1, <2>2
<1>4. \A i \in DOMAIN log' : log'[i] = id \/ (i \in DOMAIN log /\ log'[i] = log[i])
    BY <1>3 DEF Accepts
<1>5. \A i, j \in DOMAIN log' : i < j => i \in DOMAIN log /\ log'[i] = log[i]
    BY <1>3 DEF Accepts
<1>16. \A i \in DOMAIN log : i \in DOMAIN log' /\ log'[i] = log[i]
  <2>1. CASE log' = log
      BY <2>1
  <2>2. CASE log' = Append(log, id)
      BY <1>3, <2>2
  <2> QED
      BY <2>1, <2>2 DEF Accepts
<1>6. \A i \in DOMAIN log :
          /\ log[i].fence <= id.fence
          /\ log[i].fence = id.fence =>
                /\ log[i].client = id.client /\ log[i].epoch = id.epoch
                /\ log[i].seq < id.seq
    BY AcceptedIsNew DEF Accepts
<1>7. \A i \in DOMAIN log : log[i].fence \in Nat /\ log[i].seq \in Nat
  <2>1. \A i \in DOMAIN log : log[i] \in Identity
      BY <1>3
  <2> QED
      BY <2>1 DEF Identity
<1>8. log' = Append(log, id) => Took(id)'
    BY <1>3 DEF Took
<1>9. TypeOK'
  <2>1. /\ inputResults' \in Seq([seq : 1 .. MaxInputSeq, result : {"written", "uncertain"}])
        /\ Len(inputResults') <= DedupEntries
      BY <1>1, RememberedResults DEF Accepts
  <2> QED
      BY <1>1, <1>2, <1>3, <2>1 DEF TypeOK, Status
<1>10. LogIsBounded'
    BY <1>1, <1>2, <1>4, <1>6, <1>7 DEF LogIsBounded, IInv
<1>11. LogIsOrdered'
  <2> SUFFICES ASSUME NEW i \in DOMAIN log', NEW j \in DOMAIN log', i < j
               PROVE  \/ log'[i].fence < log'[j].fence
                      \/ /\ log'[i].fence = log'[j].fence
                         /\ log'[i].client = log'[j].client
                         /\ log'[i].epoch = log'[j].epoch
                         /\ log'[i].seq < log'[j].seq
      BY DEF LogIsOrdered
  <2>1. i \in DOMAIN log /\ log'[i] = log[i]
      BY <1>5
  <2>2. CASE log'[j] = id
      BY <1>1, <1>6, <1>7, <2>1, <2>2
  <2>3. CASE j \in DOMAIN log /\ log'[j] = log[j]
      BY <2>1, <2>3 DEF IInv, LogIsOrdered
  <2> QED
      BY <1>4, <2>2, <2>3
<1>12. ResultsHaveWriter'
    BY <1>1, <1>2 DEF ResultsHaveWriter
<1>13. WrittenResultsAreLogged'
  <2> SUFFICES ASSUME NEW i \in DOMAIN inputResults', inputResults'[i].result = "written",
                      NEW x, x = [fence |-> id.fence, client |-> id.client,
                                  epoch |-> id.epoch, seq |-> inputResults'[i].seq]
               PROVE  \E k \in DOMAIN log' : log'[k] = x
      BY <1>2 DEF WrittenResultsAreLogged, Took
  <2>1. CASE inputResults'[i] = [seq |-> id.seq, result |-> result]
    <3>1. log' = Append(log, id)
        BY <2>1
    <3>2. x = id
        BY <2>1 DEF Identity
    <3> QED
        BY <1>8, <3>1, <3>2 DEF Took
  <2>2. CASE \E j \in DOMAIN ResultsAt(id.fence) : inputResults'[i] = ResultsAt(id.fence)[j]
    <3>1. PICK j \in DOMAIN ResultsAt(id.fence) : inputResults'[i] = ResultsAt(id.fence)[j]
        BY <2>2
    <3>2. id.fence = inputFence /\ ResultsAt(id.fence) = inputResults
          /\ WriterAt(id.fence) = inputWriter
        BY <1>1, <3>1 DEF Accepts, Current, ResultsAt, WriterAt, IInv, TypeOK
    <3>3. inputWriter.highWater # 0
        BY <3>1, <3>2 DEF IInv, ResultsHaveWriter
    <3>4. inputWriter.client = id.client /\ inputWriter.epoch = id.epoch
        BY <3>2, <3>3 DEF Accepts, Bound
    <3>5. Took(x)
        BY <3>1, <3>2, <3>4 DEF IInv, WrittenResultsAreLogged
    <3>6. PICK k \in DOMAIN log : log[k] = x
        BY <3>5 DEF Took
    <3>7. k \in DOMAIN log' /\ log'[k] = log[k]
        BY <1>16, <3>6
    <3> QED
        BY <3>6, <3>7
  <2> QED
      BY <2>1, <2>2, <1>1, RememberedResults DEF Accepts
<1>15. AnswersMatchLog'
    BY <1>2, <1>8 DEF AnswersMatchLog, Took
<1> QED
    BY <1>9, <1>10, <1>11, <1>12, <1>13, <1>15 DEF IInv

\* The end of the session preserves the invariant.
LEMMA EndPreserves ==
    ASSUME IInv, SessionEnds PROVE IInv'
<1>1. TypeOK'
    BY DEF IInv, TypeOK, SessionEnds
<1>2. (LogIsBounded /\ LogIsOrdered /\ WrittenResultsAreLogged /\ ResultsHaveWriter)'
    BY DEF IInv, SessionEnds, LogIsBounded, LogIsOrdered, Took,
           WrittenResultsAreLogged, ResultsHaveWriter
<1>3. AnswersMatchLog'
    BY DEF IInv, SessionEnds, AnswersMatchLog, Took
<1> QED
    BY <1>1, <1>2, <1>3 DEF IInv

\* Every step preserves the invariant.
LEMMA NextIInv == IInv /\ [HostInputNext]_hostInputVars => IInv'
<1> SUFFICES ASSUME IInv, [HostInputNext]_hostInputVars PROVE IInv'
    OBVIOUS
<1>1. CASE SessionEnds
    BY <1>1, EndPreserves
<1>2. ASSUME NEW id \in Identity, SubmitInput(id) PROVE IInv'
  <2>1. CASE RefuseUntouched(id)
      BY <2>1, RefusalPreserves
  <2>2. CASE RefuseUnbound(id) \/ RefuseInvalid(id)
      BY <2>2, RejectionPreserves
  <2>3. CASE AnswerRetry(id)
      BY <2>3, RetryPreserves
  <2>4. CASE CommitInput(id)
    <3>1. Accepts(id, "written")
        BY <2>4 DEF CommitInput, Accepts
    <3>2. session' = session /\ log' = Append(log, id)
        BY <2>4 DEF CommitInput
    <3> QED
        BY <3>1, <3>2, AcceptancePreserves DEF IInv, TypeOK
  <2>5. CASE CommitFails(id)
    <3>1. Accepts(id, "uncertain") /\ session' = "failed"
        BY <2>5 DEF CommitFails, Accepts
    <3> QED
        BY <3>1, AcceptancePreserves
  <2> QED
      BY <1>2, <2>1, <2>2, <2>3, <2>4, <2>5 DEF SubmitInput
<1>3. CASE UNCHANGED hostInputVars
  <2>1. TypeOK'
      BY <1>3 DEF IInv, TypeOK, hostInputVars
  <2> QED
      BY <1>3, <2>1 DEF IInv, hostInputVars, LogIsBounded, LogIsOrdered, Took,
                        WrittenResultsAreLogged, ResultsHaveWriter, AnswersMatchLog
<1> QED
    BY <1>1, <1>2, <1>3 DEF HostInputNext

-----------------------------------------------------------------------------
(* The theorems *)

\* The host's input state keeps its types, whatever is submitted
\* (#commitSubmittedInput, #rememberInput).
THEOREM HostInputTypes == HostInputSpec => []TypeOK
<1>1. IInv => TypeOK
    BY DEF IInv
<1> QED
    BY <1>1, InitIInv, NextIInv, PTL DEF HostInputSpec

\* However often inputs are submitted, and whatever the size of the remembered window,
\* they take effect at most once and in order (#commitSubmittedInput).
THEOREM InputsTakeEffectOnce == HostInputSpec => []LogIsOrdered
<1>1. IInv => LogIsOrdered
    BY DEF IInv
<1> QED
    BY <1>1, InitIInv, NextIInv, PTL DEF HostInputSpec

\* The acknowledgements the host gives tell what happened to the input
\* (#commitSubmittedInput, #inputAck).
THEOREM AcknowledgementsAreTrue == HostInputSpec => []AnswersMatchLog
<1>1. IInv => AnswersMatchLog
    BY DEF IInv
<1> QED
    BY <1>1, InitIInv, NextIInv, PTL DEF HostInputSpec

-----------------------------------------------------------------------------
(* The session *)

\* A step of the session is a step of the input sequence, or leaves it alone.
LEMMA StepImplementsInput ==
    ASSUME [Next]_vars PROVE [HostInputNext]_hostInputVars
<1>1. CASE Callable /\ \E bytes \in 0 .. 1 : CommitEvent(bytes)
    BY <1>1 DEF CommitEvent
<1>2. ASSUME NEW id \in Identity,
             InputTakesEffect(id) \/ InputFails(id) \/ InputIsAnswered(id)
      PROVE  HostInputNext
    <2>1. SubmitInput(id)
        BY <1>2 DEF InputTakesEffect, InputFails, InputIsAnswered, SubmitInput
    <2> QED BY <2>1 DEF HostInputNext
<1>3. CASE Exits
    BY <1>3 DEF Exits, HostInputNext, SessionEnds
<1>4. CASE Ends
    BY <1>4 DEF Ends, HostInputNext, SessionEnds
<1>5. CASE Follow \/ Reads \/ GiveReplayed \/ EndReplay \/ Unsubscribe
    BY <1>5 DEF Follow, Reads, GiveReplayed, EndReplay, Unsubscribe
<1>6. CASE \E cursor \in Cursor : Subscribe(cursor)
    BY <1>6 DEF Subscribe
<1>7. CASE UNCHANGED vars
    BY <1>7 DEF vars
<1> QED BY <1>1, <1>2, <1>3, <1>4, <1>5, <1>6, <1>7 DEF Next

\* The terminal session implements the semantic input sequence: each of its steps
\* (#drainQueue, #fail, dispose, subscribe) is a submission, an end or a stutter of it.
THEOREM SessionImplementsInput == Spec => HostInputSpec
<1>1. Init => HostInputInit
    BY DEF Init
<1>2. [Next]_vars => [HostInputNext]_hostInputVars
    BY StepImplementsInput
<1> QED BY <1>1, <1>2, PTL DEF Spec, HostInputSpec

\* Inputs take effect at most once and in order, also when resizes among them publish
\* events and the session exits or fails in between (#commitSubmittedInput).
THEOREM SessionInputsTakeEffectOnce == Spec => []LogIsOrdered
    BY SessionImplementsInput, InputsTakeEffectOnce, PTL

\* What the session acknowledges is true of its log (#commitSubmittedInput).
THEOREM SessionAcknowledgementsAreTrue == Spec => []AnswersMatchLog
    BY SessionImplementsInput, AcknowledgementsAreTrue, PTL

-----------------------------------------------------------------------------
(* The journal: the inductive invariant.  That a replay is exact says        *)
(* nothing of how the segments are cut, on which an append and an eviction   *)
(* depend: the segments must be known to be a chain, each the stretch of the *)
(* canonical events that begins where the one before it ends.                *)

JournalEvent == [seq : Nat, offset : Nat]
JournalSegment == [entries : Seq(JournalEvent), sealed : BOOLEAN]

\* The offset of an event of the history, and the journal entries of a part of it.
OffsetOf(offs, n) == IF n = 0 THEN 0 ELSE offs[n]
Stretch(offs, a, b) == [i \in 1 .. b - a |-> [seq |-> a + i, offset |-> offs[a + i]]]

\* Segment i holds the events after cut i - 1 up to cut i, and it holds one at least.
IsCut(offs, segments, cuts) ==
    \A i \in 1 .. Len(segments) :
        /\ cuts[i - 1] < cuts[i]
        /\ segments[i].entries = Stretch(offs, cuts[i - 1], cuts[i])

Chain(offs, segments, first, last) ==
    /\ segments \in Seq(JournalSegment)
    /\ \E cuts \in [0 .. Len(segments) -> 0 .. last] :
          /\ cuts[0] = first
          /\ cuts[Len(segments)] = last
          /\ IsCut(offs, segments, cuts)

\* The journal retains all that came after the evicted cursor, a cursor of the session.
JournalHolds(offs, j) ==
    /\ offs \in Seq(Nat)
    /\ j.evicted.seq \in 0 .. Len(offs)
    /\ j.evicted.offset = OffsetOf(offs, j.evicted.seq)
    /\ Chain(offs, j.segments, j.evicted.seq, Len(offs))

JournalIsChain == JournalHolds(offsets, journal)

\* What a subscriber was given, what is left of its replay and what waits for the end
\* of the replay are together the events after its cursor.
EventsAfter(base, last) == [i \in 1 .. last - base |-> base + i]
SubscriberIsFed ==
    /\ subscriber \in [on : BOOLEAN, base : Nat, replaying : BOOLEAN,
                       replay : Seq(Nat), pending : Seq(Nat), got : Seq(Nat)]
    /\ ~subscriber.on => subscriber = NoSubscriber
    /\ ~subscriber.replaying => subscriber.replay = <<>> /\ subscriber.pending = <<>>
    /\ subscriber.on =>
          /\ subscriber.base <= Len(offsets)
          /\ subscriber.got \o (subscriber.replay \o subscriber.pending)
                = EventsAfter(subscriber.base, Len(offsets))

SInv == JournalIsChain /\ SubscriberIsFed

-----------------------------------------------------------------------------
(* Induction, by the smallest counterexample *)

Less == {ss \in Nat \X Nat : ss[1] < ss[2]}

\* Every set of numbers that is not empty has a smallest element.
LEMMA Smallest ==
    ASSUME NEW T, T \subseteq Nat, T # {}
    PROVE  \E n \in T : \A m \in T : n <= m
<1>1. IsWellFoundedOn(Less, Nat)
    BY NatLessThanWellFounded DEF OpToRel, Less
<1>2. PICK n \in T : \A m \in T : ~ (<<m, n>> \in Less)
    BY <1>1, WFMin
<1>3. \A m \in T : ~ (m < n)
    BY <1>2 DEF Less
<1> QED BY <1>3

\* A set that holds 1 and the next of each of its members holds them all.
LEMMA Climb ==
    ASSUME NEW n \in Nat, NEW S, 1 \in S,
           \A m \in 1 .. n : m \in S /\ m < n => m + 1 \in S
    PROVE  1 .. n \subseteq S
<1> DEFINE T == {m \in 1 .. n : m \notin S}
<1>1. SUFFICES ASSUME T # {} PROVE FALSE
    OBVIOUS
<1>2. PICK m \in T : \A k \in T : m <= k
  <2>1. T \subseteq Nat
      OBVIOUS
  <2> HIDE DEF T
  <2> QED BY <1>1, <2>1, Smallest
<1>3. m - 1 \in 1 .. n /\ m - 1 \in S
    BY <1>2
<1> QED BY <1>2, <1>3

-----------------------------------------------------------------------------
(* FlattenSeq *)

FlattensTo(seqs, f) ==
    f = [i \in 1 .. Len(seqs) |-> IF i = 1 THEN seqs[i] ELSE f[i - 1] \o seqs[i]]
Flattened(seqs) == CHOOSE f : FlattensTo(seqs, f)

\* The function of the definition of FlattenSeq exists.
LEMMA FlattenedExists ==
    ASSUME NEW seqs, Len(seqs) \in Nat \ {0}
    PROVE  FlattensTo(seqs, Flattened(seqs))
<1> DEFINE N == Len(seqs)
           Upto(n, f) ==
               f = [i \in 1 .. n |-> IF i = 1 THEN seqs[i] ELSE f[i - 1] \o seqs[i]]
           S == {n \in 1 .. N : \E f : Upto(n, f)}
<1>1. 1 \in S
  <2> DEFINE g == [i \in 1 .. 1 |-> seqs[1]]
  <2>1. Upto(1, g)
      OBVIOUS
  <2>2. \E f : Upto(1, f)
    <3> HIDE DEF g, Upto
    <3> QED BY <2>1
  <2>3. 1 \in 1 .. N
      OBVIOUS
  <2> HIDE DEF Upto
  <2> QED BY <2>2, <2>3
<1>2. ASSUME NEW n \in 1 .. N, n \in S, n < N PROVE n + 1 \in S
  <2>1. PICK f : Upto(n, f)
      BY <1>2
  <2> DEFINE g == [i \in 1 .. n + 1 |-> IF i = n + 1 THEN f[n] \o seqs[n + 1] ELSE f[i]]
  <2>2. \A i \in 1 .. n : f[i] = IF i = 1 THEN seqs[i] ELSE f[i - 1] \o seqs[i]
      BY <2>1
  <2>3. ASSUME NEW i \in 1 .. n + 1
        PROVE  g[i] = IF i = 1 THEN seqs[i] ELSE g[i - 1] \o seqs[i]
    <3>1. CASE i = n + 1
      <4>1. i # 1 /\ i - 1 = n /\ n \in 1 .. n + 1 /\ n # n + 1
          BY <3>1
      <4>2. g[i - 1] = f[n]
          BY <4>1
      <4>3. g[i] = f[n] \o seqs[n + 1]
          BY <3>1
      <4> HIDE DEF g
      <4> QED BY <4>1, <4>2, <4>3, <3>1
    <3>2. CASE i \in 1 .. n
        BY <3>2, <2>2
    <3> QED BY <3>1, <3>2
  <2>4. Upto(n + 1, g)
      BY <2>3
  <2>5. n + 1 \in 1 .. N
      BY <1>2
  <2> QED BY <2>4, <2>5
<1>3. N \in S
  <2> HIDE DEF S
  <2>1. 1 .. N \subseteq S
      BY <1>1, <1>2, Climb
  <2> QED BY <2>1
<1>4. PICK f : FlattensTo(seqs, f)
    BY <1>3 DEF FlattensTo
<1> QED BY <1>4 DEF Flattened

\* FlattenSeq appends the sequences one after the other.
LEMMA FlattenSeqIs ==
    ASSUME NEW seqs, Len(seqs) \in Nat \ {0}
    PROVE  /\ FlattenSeq(seqs) = Flattened(seqs)[Len(seqs)]
           /\ Flattened(seqs)[1] = seqs[1]
           /\ \A i \in 2 .. Len(seqs) :
                 Flattened(seqs)[i] = Flattened(seqs)[i - 1] \o seqs[i]
<1>1. FlattenSeq(seqs) = Flattened(seqs)[Len(seqs)]
    BY DEF FlattenSeq, Flattened, FlattensTo
<1> DEFINE f == Flattened(seqs)
<1>2. f = [i \in 1 .. Len(seqs) |-> IF i = 1 THEN seqs[i] ELSE f[i - 1] \o seqs[i]]
    BY FlattenedExists DEF FlattensTo
<1> HIDE DEF f
<1>3. \A i \in 1 .. Len(seqs) : f[i] = IF i = 1 THEN seqs[i] ELSE f[i - 1] \o seqs[i]
    BY <1>2
<1>4. f[1] = seqs[1]
    BY <1>3
<1>5. ASSUME NEW i \in 2 .. Len(seqs) PROVE f[i] = f[i - 1] \o seqs[i]
  <2>1. i \in 1 .. Len(seqs) /\ i # 1
      OBVIOUS
  <2> QED BY <1>3, <2>1, Zenon
<1> QED BY <1>1, <1>4, <1>5 DEF f

-----------------------------------------------------------------------------
(* Chains of segments *)

\* What a stretch of the events is made of.
LEMMA StretchIs ==
    ASSUME NEW offs \in Seq(Nat), NEW a \in Nat, NEW b \in Nat, a <= b, b <= Len(offs)
    PROVE  /\ Stretch(offs, a, b) \in Seq(JournalEvent)
           /\ Len(Stretch(offs, a, b)) = b - a
           /\ \A i \in 1 .. b - a :
                 Stretch(offs, a, b)[i] = [seq |-> a + i, offset |-> offs[a + i]]
<1>1. \A i \in 1 .. b - a : [seq |-> a + i, offset |-> offs[a + i]] \in JournalEvent
    BY DEF JournalEvent
<1>2. b - a \in Nat
    OBVIOUS
<1> QED BY <1>1, <1>2 DEF Stretch

\* Two stretches of which one begins where the other ends are one.
LEMMA StretchConcat ==
    ASSUME NEW offs \in Seq(Nat), NEW a \in Nat, NEW b \in Nat, NEW c \in Nat,
           a <= b, b <= c, c <= Len(offs)
    PROVE  Stretch(offs, a, b) \o Stretch(offs, b, c) = Stretch(offs, a, c)
<1> DEFINE s == Stretch(offs, a, b)
           t == Stretch(offs, b, c)
           u == Stretch(offs, a, c)
<1>1. b <= Len(offs) /\ a <= c
    OBVIOUS
<1>2. /\ s \in Seq(JournalEvent) /\ Len(s) = b - a
      /\ \A i \in 1 .. b - a : s[i] = [seq |-> a + i, offset |-> offs[a + i]]
    BY <1>1, StretchIs
<1>3. /\ t \in Seq(JournalEvent) /\ Len(t) = c - b
      /\ \A i \in 1 .. c - b : t[i] = [seq |-> b + i, offset |-> offs[b + i]]
    BY StretchIs
<1>4. /\ u \in Seq(JournalEvent) /\ Len(u) = c - a
      /\ \A i \in 1 .. c - a : u[i] = [seq |-> a + i, offset |-> offs[a + i]]
    BY <1>1, StretchIs
<1> HIDE DEF s, t, u
<1>5. /\ s \o t \in Seq(JournalEvent) /\ Len(s \o t) = c - a
      /\ \A i \in 1 .. c - a : (s \o t)[i] = IF i <= b - a THEN s[i] ELSE t[i - (b - a)]
  <2>1. /\ s \o t \in Seq(JournalEvent) /\ Len(s \o t) = (b - a) + (c - b)
        /\ \A i \in 1 .. (b - a) + (c - b) :
              (s \o t)[i] = IF i <= b - a THEN s[i] ELSE t[i - (b - a)]
    <3>1. /\ s \o t \in Seq(JournalEvent) /\ Len(s \o t) = Len(s) + Len(t)
          /\ \A i \in 1 .. Len(s) + Len(t) :
                (s \o t)[i] = IF i <= Len(s) THEN s[i] ELSE t[i - Len(s)]
        BY <1>2, <1>3, ConcatProperties
    <3> QED BY <3>1, <1>2, <1>3, Zenon
  <2>2. (b - a) + (c - b) = c - a
      OBVIOUS
  <2> QED BY <2>1, <2>2
<1>6. ASSUME NEW i \in 1 .. c - a PROVE (s \o t)[i] = u[i]
  <2>1. CASE i <= b - a
    <3>1. (s \o t)[i] = s[i] /\ i \in 1 .. b - a
        BY <2>1, <1>5
    <3> QED BY <3>1, <1>2, <1>4
  <2>2. CASE i > b - a
    <3>1. (s \o t)[i] = t[i - (b - a)] /\ i - (b - a) \in 1 .. c - b
        BY <2>2, <1>5
    <3>2. b + (i - (b - a)) = a + i
        OBVIOUS
    <3> QED BY <3>1, <3>2, <1>3, <1>4
  <2>3. i <= b - a \/ i > b - a
      OBVIOUS
  <2> QED BY <2>1, <2>2, <2>3, Zenon
<1>7. s \o t = u
    BY <1>4, <1>5, <1>6, SeqEqual
<1> QED BY <1>7 DEF s, t, u

\* The cuts of a chain grow.
LEMMA CutsGrow ==
    ASSUME NEW offs, NEW segments, Len(segments) \in Nat, NEW last \in Nat,
           NEW cuts \in [0 .. Len(segments) -> 0 .. last], IsCut(offs, segments, cuts),
           NEW k \in 0 .. Len(segments)
    PROVE  \A i \in k + 1 .. Len(segments) : cuts[k] < cuts[i]
<1> DEFINE N == Len(segments)
           S == {m \in Nat \ {0} : k + m <= N => cuts[k] < cuts[k + m]}
<1>1. \A i \in 1 .. N : cuts[i - 1] < cuts[i] /\ cuts[i] \in Nat /\ cuts[i - 1] \in Nat
    BY SMTT(30) DEF IsCut
<1>2. 1 \in S
  <2>1. CASE k + 1 <= N
    <3>1. k + 1 \in 1 .. N /\ (k + 1) - 1 = k
        BY <2>1
    <3> QED BY <3>1, <1>1
  <2> QED BY <2>1
<1>3. ASSUME NEW m \in 1 .. N, m \in S /\ m < N PROVE m + 1 \in S
  <2>1. CASE k + (m + 1) <= N
    <3>1. /\ k + (m + 1) \in 1 .. N /\ (k + (m + 1)) - 1 = k + m
          /\ k + m <= N /\ k + m \in 0 .. N
        BY <2>1
    <3>2. cuts[k] < cuts[k + m]
        BY <1>3, <3>1
    <3>3. cuts[k + m] < cuts[k + (m + 1)] /\ cuts[k + (m + 1)] \in Nat
        BY <3>1, <1>1
    <3>4. cuts[k] \in Nat /\ cuts[k + m] \in Nat
        BY <3>1
    <3> QED BY <3>2, <3>3, <3>4
  <2> QED BY <2>1
<1>4. 1 .. N \subseteq S
  <2> HIDE DEF S
  <2> QED BY <1>2, <1>3, Climb
<1>5. ASSUME NEW i \in k + 1 .. N PROVE cuts[k] < cuts[i]
  <2>1. i - k \in 1 .. N /\ k + (i - k) = i
      OBVIOUS
  <2> QED BY <2>1, <1>4
<1> QED BY <1>5

\* A chain holds the events between its ends, in order and once each.
LEMMA ChainEntries ==
    ASSUME NEW offs \in Seq(Nat), NEW segments, NEW first \in Nat, NEW last \in Nat,
           last <= Len(offs), Chain(offs, segments, first, last)
    PROVE  first <= last /\ Entries(segments) = Stretch(offs, first, last)
<1> DEFINE N == Len(segments)
           seqs == [i \in DOMAIN segments |-> segments[i].entries]
<1>1. segments \in Seq(JournalSegment) /\ N \in Nat /\ DOMAIN segments = 1 .. N
    BY DEF Chain
<1>2. PICK cuts \in [0 .. N -> 0 .. last] :
          cuts[0] = first /\ cuts[N] = last /\ IsCut(offs, segments, cuts)
    BY DEF Chain
<1>3. \A i \in 1 .. N : seqs[i] = Stretch(offs, cuts[i - 1], cuts[i])
    BY <1>1, <1>2 DEF IsCut
<1>4. Len(seqs) = N /\ Entries(segments) = FlattenSeq(seqs)
    BY <1>1 DEF Entries
<1>5. CASE N = 0
  <2>1. seqs = <<>> /\ FlattenSeq(seqs) = seqs
      BY <1>1, <1>4, <1>5 DEF FlattenSeq
  <2>2. first = last /\ Stretch(offs, first, last) = <<>>
      BY <1>2, <1>5 DEF Stretch
  <2> QED BY <2>1, <2>2, <1>4
<1>6. CASE N > 0
  <2> HIDE DEF seqs
  <2>0. Len(seqs) \in Nat \ {0}
      BY <1>1, <1>4, <1>6
  <2>1. \A i \in 0 .. N : cuts[i] \in Nat /\ cuts[i] <= Len(offs)
      BY <1>2
  <2>2. \A i \in 1 .. N : first <= cuts[i]
    <3>1. \A i \in 0 + 1 .. N : cuts[0] < cuts[i]
      <4>1. 0 \in 0 .. N
          BY <1>1
      <4> HIDE DEF N
      <4> QED BY <4>1, <1>1, <1>2, CutsGrow DEF N
    <3> QED BY <3>1, <1>2, <2>1
  <2> DEFINE S == {i \in 1 .. N : Flattened(seqs)[i] = Stretch(offs, first, cuts[i])}
  <2>3. 1 \in S
    <3>1. Flattened(seqs)[1] = seqs[1]
        BY <2>0, FlattenSeqIs
    <3>2. 1 \in 1 .. N /\ 1 - 1 = 0
        BY <1>1, <1>6
    <3> QED BY <3>1, <3>2, <1>2, <1>3
  <2>4. ASSUME NEW m \in 1 .. N, m \in S /\ m < N PROVE m + 1 \in S
    <3>1. m + 1 \in 2 .. N /\ m + 1 \in 1 .. N /\ (m + 1) - 1 = m
        BY <1>1, <2>4
    <3>2. Flattened(seqs)[m + 1] = Flattened(seqs)[m] \o seqs[m + 1]
        BY <2>0, <1>4, <3>1, FlattenSeqIs
    <3>3. Flattened(seqs)[m] = Stretch(offs, first, cuts[m])
        BY <2>4
    <3>4. seqs[m + 1] = Stretch(offs, cuts[m], cuts[m + 1])
        BY <1>3, <3>1
    <3>5. /\ cuts[m] \in Nat /\ cuts[m + 1] \in Nat /\ first <= cuts[m]
          /\ cuts[m] <= cuts[m + 1] /\ cuts[m + 1] <= Len(offs)
        BY <1>2, <2>1, <2>2, <3>1 DEF IsCut
    <3>6. Flattened(seqs)[m + 1] = Stretch(offs, first, cuts[m + 1])
      <4>1. Stretch(offs, first, cuts[m]) \o Stretch(offs, cuts[m], cuts[m + 1])
               = Stretch(offs, first, cuts[m + 1])
          BY <3>5, StretchConcat
      <4> QED BY <4>1, <3>2, <3>3, <3>4
    <3> QED BY <3>1, <3>6
  <2>5. N \in S
    <3> HIDE DEF S
    <3>1. 1 .. N \subseteq S
        BY <1>1, <2>3, <2>4, Climb
    <3>2. N \in 1 .. N
        BY <1>1, <1>6
    <3> QED BY <3>1, <3>2
  <2>6. FlattenSeq(seqs) = Flattened(seqs)[N]
      BY <2>0, <1>4, FlattenSeqIs
  <2> QED BY <2>2, <2>5, <2>6, <1>2, <1>4
<1> QED BY <1>1, <1>5, <1>6

\* The clock seals a segment and leaves what the segments hold.
LEMMA AgedIs ==
    ASSUME NEW segments \in Seq(JournalSegment), NEW aged \in MaybeAged(segments)
    PROVE  /\ aged \in Seq(JournalSegment) /\ Len(aged) = Len(segments)
           /\ \A i \in 1 .. Len(segments) : aged[i].entries = segments[i].entries
<1>1. CASE aged = segments
    BY <1>1
<1>2. CASE segments # <<>> /\ aged = SealActive(segments)
  <2> DEFINE N == Len(segments)
             last == [segments[N] EXCEPT !.sealed = TRUE]
  <2>1. N \in 1 .. N /\ N \in Nat /\ segments[N] \in JournalSegment
      BY <1>2, EmptySeq
  <2>2. last \in JournalSegment /\ last.entries = segments[N].entries
      BY <2>1 DEF JournalSegment
  <2>3. aged = [segments EXCEPT ![N] = last]
      BY <1>2 DEF SealActive
  <2> HIDE DEF last
  <2>4. /\ aged \in Seq(JournalSegment) /\ Len(aged) = N
        /\ \A i \in 1 .. N : aged[i] = IF i = N THEN last ELSE segments[i]
      BY <2>1, <2>2, <2>3, ExceptSeq
  <2> QED BY <2>1, <2>2, <2>4
<1> QED BY <1>1, <1>2 DEF MaybeAged, SealActive

LEMMA SealedIsAged ==
    ASSUME NEW segments PROVE SealActive(segments) \in MaybeAged(segments)
    BY DEF MaybeAged

\* A chain whose active segment may have been sealed is a chain.
LEMMA AgedChain ==
    ASSUME NEW offs, NEW segments, NEW first, NEW last,
           Chain(offs, segments, first, last), NEW aged \in MaybeAged(segments)
    PROVE  Chain(offs, aged, first, last)
<1>1. segments \in Seq(JournalSegment)
    BY DEF Chain
<1>2. PICK cuts \in [0 .. Len(segments) -> 0 .. last] :
          cuts[0] = first /\ cuts[Len(segments)] = last /\ IsCut(offs, segments, cuts)
    BY DEF Chain
<1>3. /\ aged \in Seq(JournalSegment) /\ Len(aged) = Len(segments)
      /\ \A i \in 1 .. Len(segments) : aged[i].entries = segments[i].entries
    BY <1>1, AgedIs
<1>4. IsCut(offs, aged, cuts)
    BY <1>2, <1>3 DEF IsCut
<1> QED BY <1>2, <1>3, <1>4 DEF Chain

\* The stretch up to the last event grows by the entry of the next event.
LEMMA StretchAppend ==
    ASSUME NEW offs \in Seq(Nat), NEW x \in Nat, NEW a \in Nat, a <= Len(offs)
    PROVE  /\ Append(offs, x) \in Seq(Nat)
           /\ Len(Append(offs, x)) = Len(offs) + 1
           /\ \A b \in Nat, c \in Nat : b <= c /\ c <= Len(offs) =>
                 Stretch(Append(offs, x), b, c) = Stretch(offs, b, c)
           /\ Append(Stretch(offs, a, Len(offs)), [seq |-> Len(offs) + 1, offset |-> x])
                 = Stretch(Append(offs, x), a, Len(offs) + 1)
<1> DEFINE more == Append(offs, x)
           l == Len(offs)
           e == [seq |-> l + 1, offset |-> x]
           s == Stretch(offs, a, l)
           t == Stretch(more, a, l + 1)
<1>1. l \in Nat /\ l + 1 \in Nat /\ a <= l + 1 /\ e \in JournalEvent
    BY DEF JournalEvent
<1>2. /\ more \in Seq(Nat) /\ Len(more) = l + 1 /\ more[l + 1] = x
      /\ \A i \in 1 .. l : more[i] = offs[i]
    BY AppendProperties
<1>3. ASSUME NEW b \in Nat, NEW c \in Nat, b <= c, c <= l
      PROVE  Stretch(more, b, c) = Stretch(offs, b, c)
  <2>1. \A i \in 1 .. c - b : b + i \in 1 .. l
      BY <1>3
  <2> HIDE DEF more, l
  <2> QED BY <2>1, <1>2 DEF Stretch
<1>4. /\ s \in Seq(JournalEvent) /\ Len(s) = l - a
      /\ \A i \in 1 .. l - a : s[i] = [seq |-> a + i, offset |-> offs[a + i]]
  <2>1. l \in Nat /\ l <= Len(offs) /\ a <= l
      BY <1>1
  <2> HIDE DEF l
  <2> QED BY <2>1, StretchIs
<1>5. /\ t \in Seq(JournalEvent) /\ Len(t) = l + 1 - a
      /\ \A i \in 1 .. l + 1 - a : t[i] = [seq |-> a + i, offset |-> more[a + i]]
  <2> DEFINE m == l + 1
  <2>1. m \in Nat /\ a <= m /\ m <= Len(more) /\ more \in Seq(Nat)
      BY <1>1, <1>2
  <2> HIDE DEF more, m
  <2>2. /\ Stretch(more, a, m) \in Seq(JournalEvent) /\ Len(Stretch(more, a, m)) = m - a
        /\ \A i \in 1 .. m - a :
              Stretch(more, a, m)[i] = [seq |-> a + i, offset |-> more[a + i]]
      BY <2>1, StretchIs
  <2> QED BY <2>2 DEF m
<1> HIDE DEF s, t, more, e, l
<1>6. /\ Append(s, e) \in Seq(JournalEvent) /\ Len(Append(s, e)) = (l - a) + 1
      /\ \A i \in 1 .. l - a : Append(s, e)[i] = s[i]
      /\ Append(s, e)[(l - a) + 1] = e
  <2>0. s \in Seq(JournalEvent) /\ e \in JournalEvent
      BY <1>1, <1>4
  <2>1. /\ Append(s, e) \in Seq(JournalEvent) /\ Len(Append(s, e)) = Len(s) + 1
        /\ \A i \in 1 .. Len(s) : Append(s, e)[i] = s[i]
        /\ Append(s, e)[Len(s) + 1] = e
      BY <2>0
  <2> QED BY <2>1, <1>4, Zenon
<1>7. (l - a) + 1 = l + 1 - a
    BY <1>1
<1>8. ASSUME NEW i \in 1 .. l + 1 - a PROVE Append(s, e)[i] = t[i]
  <2>1. CASE i = (l - a) + 1
    <3>1. a + i = l + 1
        BY <2>1, <1>1
    <3>2. t[i] = [seq |-> l + 1, offset |-> x]
        BY <3>1, <1>2, <1>5
    <3> QED BY <2>1, <3>2, <1>6 DEF e
  <2>2. CASE i # (l - a) + 1
    <3>1. i \in 1 .. l - a /\ a + i \in 1 .. l
        BY <2>2, <1>1
    <3> QED BY <3>1, <1>2, <1>4, <1>5, <1>6, ZenonT(60)
  <2> QED BY <2>1, <2>2
<1>9. Append(s, e) = t
    BY <1>5, <1>6, <1>7, <1>8, SeqEqual
<1> QED BY <1>2, <1>3, <1>9 DEF s, t, more, e, l

\* An event appended to the journal makes the chain one longer, in a segment of its own
\* or in the active one.
LEMMA AppendedChain ==
    ASSUME NEW offs \in Seq(Nat), NEW x \in Nat, NEW segments, NEW first \in Nat,
           Chain(offs, segments, first, Len(offs))
    PROVE  Chain(Append(offs, x), Appended(segments, [seq |-> Len(offs) + 1, offset |-> x]),
                 first, Len(offs) + 1)
<1> DEFINE l == Len(offs)
           more == Append(offs, x)
           e == [seq |-> l + 1, offset |-> x]
           N == Len(segments)
<1>1. /\ segments \in Seq(JournalSegment) /\ N \in Nat /\ l \in Nat
      /\ e \in JournalEvent
    BY DEF Chain, JournalEvent
<1>2. PICK cuts \in [0 .. N -> 0 .. l] :
          cuts[0] = first /\ cuts[N] = l /\ IsCut(offs, segments, cuts)
    BY DEF Chain
<1>3. /\ more \in Seq(Nat) /\ Len(more) = l + 1
      /\ \A b \in Nat, c \in Nat : b <= c /\ c <= l =>
            Stretch(more, b, c) = Stretch(offs, b, c)
      /\ \A a \in Nat : a <= l =>
            Append(Stretch(offs, a, l), e) = Stretch(more, a, l + 1)
    BY StretchAppend, SMTT(30)
<1> HIDE DEF l, more, e
<1>4. ASSUME NEW i \in 1 .. N
      PROVE  /\ cuts[i - 1] \in Nat /\ cuts[i] \in Nat
             /\ cuts[i - 1] < cuts[i] /\ cuts[i] <= l
             /\ segments[i].entries = Stretch(offs, cuts[i - 1], cuts[i])
             /\ segments[i].entries = Stretch(more, cuts[i - 1], cuts[i])
  <2>0. i - 1 \in 0 .. N /\ i \in 0 .. N
      BY <1>1
  <2>1. cuts[i - 1] \in 0 .. l /\ cuts[i] \in 0 .. l
      BY <1>2, <2>0
  <2>2. /\ cuts[i - 1] < cuts[i]
        /\ segments[i].entries = Stretch(offs, cuts[i - 1], cuts[i])
      BY <1>2 DEF IsCut
  <2> QED BY <2>1, <2>2, <1>1, <1>3, SMTT(30)
<1>5. CASE segments = <<>> \/ Last(segments).sealed
  <2> DEFINE seg == [entries |-> <<e>>, sealed |-> FALSE]
             longer == Append(segments, seg)
             after == [i \in 0 .. N + 1 |-> IF i = N + 1 THEN l + 1 ELSE cuts[i]]
  <2>1. Appended(segments, e) = longer
      BY <1>5 DEF Appended
  <2>2. seg \in JournalSegment
      BY <1>1 DEF JournalSegment
  <2>3. /\ longer \in Seq(JournalSegment) /\ Len(longer) = N + 1 /\ longer[N + 1] = seg
        /\ \A i \in 1 .. N : longer[i] = segments[i]
    <3> HIDE DEF seg
    <3> QED BY <1>1, <2>2, AppendProperties
  <2>4. seg.entries = Stretch(more, l, l + 1)
    <3>1. Stretch(offs, l, l) = <<>>
        BY <1>1 DEF Stretch
    <3>2. Append(Stretch(offs, l, l), e) = Stretch(more, l, l + 1)
        BY <1>1, <1>3
    <3> QED BY <3>1, <3>2
  <2>5. /\ after \in [0 .. N + 1 -> 0 .. l + 1]
        /\ after[0] = first /\ after[N + 1] = l + 1
        /\ \A i \in 0 .. N : after[i] = cuts[i]
      BY <1>1, <1>2
  <2> HIDE DEF after, longer, seg
  <2>6. ASSUME NEW i \in 1 .. N + 1
        PROVE  after[i - 1] < after[i] /\ longer[i].entries = Stretch(more, after[i - 1], after[i])
    <3>1. CASE i = N + 1
      <4>1. after[i - 1] = l /\ after[i] = l + 1
          BY <3>1, <1>1, <1>2, <2>5
      <4> QED BY <4>1, <3>1, <1>1, <2>3, <2>4
    <3>2. CASE i \in 1 .. N
      <4>1. i \in 0 .. N /\ i - 1 \in 0 .. N
          BY <3>2, <1>1
      <4>2. after[i - 1] = cuts[i - 1] /\ after[i] = cuts[i]
          BY <4>1, <2>5
      <4> QED BY <4>2, <3>2, <1>4, <2>3
    <3> QED BY <3>1, <3>2, <1>1, SMTT(30)
  <2>7. Chain(more, longer, first, l + 1)
      BY <2>3, <2>5, <2>6, ZenonT(60) DEF Chain, IsCut
  <2> QED BY <2>1, <2>7 DEF l, more, e
<1>6. CASE ~(segments = <<>> \/ Last(segments).sealed)
  <2> DEFINE seg == [segments[N] EXCEPT !.entries = Append(@, e)]
             longer == [segments EXCEPT ![N] = seg]
             after == [i \in 0 .. N |-> IF i = N THEN l + 1 ELSE cuts[i]]
  <2>0. N \in 1 .. N /\ N # 0 /\ segments[N] \in JournalSegment
      BY <1>1, <1>6, EmptySeq
  <2>1. Appended(segments, e) = longer
      BY <1>6 DEF Appended
  <2>2. seg \in JournalSegment /\ seg.entries = Append(segments[N].entries, e)
    <3>1. Append(segments[N].entries, e) \in Seq(JournalEvent)
        BY <1>1, <2>0, AppendProperties DEF JournalSegment
    <3> QED BY <3>1, <2>0 DEF JournalSegment
  <2>3. /\ longer \in Seq(JournalSegment) /\ Len(longer) = N
        /\ \A i \in 1 .. N : longer[i] = IF i = N THEN seg ELSE segments[i]
    <3> HIDE DEF seg
    <3> QED BY <1>1, <2>0, <2>2, ExceptSeq
  <2>4. seg.entries = Stretch(more, cuts[N - 1], l + 1)
    <3>1. cuts[N - 1] \in Nat /\ cuts[N - 1] <= l
        BY <2>0, <1>1, <1>4
    <3>2. segments[N].entries = Stretch(offs, cuts[N - 1], l)
        BY <2>0, <1>2, <1>4
    <3> HIDE DEF seg
    <3> QED BY <3>1, <3>2, <2>2, <1>3
  <2>5. /\ after \in [0 .. N -> 0 .. l + 1]
        /\ after[0] = first /\ after[N] = l + 1
        /\ \A i \in 0 .. N : i # N => after[i] = cuts[i]
      BY <1>1, <1>2, <2>0
  <2> HIDE DEF after, longer, seg
  <2>6. ASSUME NEW i \in 1 .. N
        PROVE  after[i - 1] < after[i] /\ longer[i].entries = Stretch(more, after[i - 1], after[i])
    <3>1. after[i - 1] = cuts[i - 1]
        BY <1>1, <2>5
    <3>2. CASE i = N
      <4>1. after[i] = l + 1 /\ longer[i] = seg
          BY <3>2, <2>3, <2>5
      <4>2. cuts[N - 1] \in Nat /\ cuts[N - 1] <= l
          BY <2>0, <1>1, <1>4, SMTT(30)
      <4>3. after[i - 1] < after[i]
          BY <4>1, <4>2, <3>1, <3>2, <1>1
      <4> QED BY <4>1, <4>3, <3>1, <3>2, <2>4
    <3>3. CASE i # N
      <4>1. after[i] = cuts[i] /\ longer[i] = segments[i]
          BY <3>3, <1>1, <2>3, <2>5
      <4> QED BY <4>1, <3>1, <1>4
    <3> QED BY <3>2, <3>3
  <2>7. Chain(more, longer, first, l + 1)
      BY <2>3, <2>5, <2>6, ZenonT(60) DEF Chain, IsCut
  <2> QED BY <2>1, <2>7 DEF l, more, e
<1> QED BY <1>5, <1>6

\* What is left of a chain when its oldest segments are evicted is a chain, that begins
\* at the last event of the last segment that went.
LEMMA EvictedChain ==
    ASSUME NEW offs \in Seq(Nat), NEW segments, NEW first \in Nat, NEW last \in Nat,
           last <= Len(offs), Chain(offs, segments, first, last),
           NEW k \in 1 .. Len(segments)
    PROVE  /\ Last(segments[k].entries).seq \in 1 .. last
           /\ Last(segments[k].entries).offset = offs[Last(segments[k].entries).seq]
           /\ Chain(offs, SubSeq(segments, k + 1, Len(segments)),
                    Last(segments[k].entries).seq, last)
<1> DEFINE N == Len(segments)
           rest == SubSeq(segments, k + 1, N)
           c == Last(segments[k].entries)
<1>1. segments \in Seq(JournalSegment) /\ N \in Nat
    BY DEF Chain
<1>2. PICK cuts \in [0 .. N -> 0 .. last] :
          cuts[0] = first /\ cuts[N] = last /\ IsCut(offs, segments, cuts)
    BY DEF Chain
<1>3. /\ cuts[k - 1] \in Nat /\ cuts[k] \in Nat /\ cuts[k - 1] < cuts[k] /\ cuts[k] <= last
      /\ segments[k].entries = Stretch(offs, cuts[k - 1], cuts[k])
  <2>1. k \in 0 .. N /\ k - 1 \in 0 .. N
      BY <1>1
  <2>2. cuts[k] \in 0 .. last /\ cuts[k - 1] \in 0 .. last
      BY <2>1
  <2> QED BY <2>2, <1>2 DEF IsCut
<1>4. c = [seq |-> cuts[k], offset |-> offs[cuts[k]]]
  <2>1. /\ Len(Stretch(offs, cuts[k - 1], cuts[k])) = cuts[k] - cuts[k - 1]
        /\ \A i \in 1 .. cuts[k] - cuts[k - 1] :
              Stretch(offs, cuts[k - 1], cuts[k])[i]
                 = [seq |-> cuts[k - 1] + i, offset |-> offs[cuts[k - 1] + i]]
    <3> DEFINE a == cuts[k - 1]
               b == cuts[k]
    <3>1. a \in Nat /\ b \in Nat /\ a <= b /\ b <= Len(offs)
        BY <1>3, SMTT(30)
    <3> HIDE DEF a, b
    <3>2. /\ Len(Stretch(offs, a, b)) = b - a
          /\ \A i \in 1 .. b - a :
                Stretch(offs, a, b)[i] = [seq |-> a + i, offset |-> offs[a + i]]
        BY <3>1, StretchIs
    <3> QED BY <3>2 DEF a, b
  <2>2. /\ cuts[k] - cuts[k - 1] \in 1 .. cuts[k] - cuts[k - 1]
        /\ cuts[k - 1] + (cuts[k] - cuts[k - 1]) = cuts[k]
      BY <1>3, SMTT(30)
  <2> QED BY <2>1, <2>2, <1>3 DEF Last
<1>5. c.seq = cuts[k] /\ c.offset = offs[cuts[k]] /\ cuts[k] \in 1 .. last
    BY <1>3, <1>4
<1> DEFINE after == [i \in 0 .. N - k |-> cuts[i + k]]
<1>6. /\ rest \in Seq(JournalSegment) /\ Len(rest) = N - k
      /\ \A i \in 1 .. N - k : rest[i] = segments[k + i]
  <2>1. \A i \in k + 1 .. N : segments[i] \in JournalSegment
      BY <1>1
  <2>2. k + 1 \in Int /\ N \in Int /\ N - (k + 1) + 1 = N - k
      BY <1>1
  <2>3. /\ rest \in Seq(JournalSegment)
        /\ Len(rest) = IF k + 1 <= N THEN N - (k + 1) + 1 ELSE 0
        /\ \A i \in 1 .. N - (k + 1) + 1 : rest[i] = segments[(k + 1) + i - 1]
      BY <2>1, <2>2, SubSeqProperties
  <2>4. \A i \in 1 .. N - k : (k + 1) + i - 1 = k + i
      BY <1>1
  <2>5. Len(rest) = N - k
    <3>1. CASE k + 1 <= N
        BY <3>1, <2>2, <2>3
    <3>2. CASE ~(k + 1 <= N)
      <4>1. N - k = 0
          BY <3>2, <1>1
      <4> HIDE DEF rest
      <4> QED BY <4>1, <3>2, <2>3
    <3> QED BY <3>1, <3>2
  <2> HIDE DEF rest
  <2> QED BY <2>2, <2>3, <2>4, <2>5
<1>7. /\ after \in [0 .. N - k -> 0 .. last]
      /\ after[0] = cuts[k] /\ after[N - k] = last
      /\ \A i \in 0 .. N - k : after[i] = cuts[k + i]
    BY <1>1, <1>2, SMTT(30)
<1> HIDE DEF after, rest
<1>8. IsCut(offs, rest, after)
  <2> SUFFICES ASSUME NEW i \in 1 .. N - k
               PROVE  /\ after[i - 1] < after[i]
                      /\ rest[i].entries = Stretch(offs, after[i - 1], after[i])
      BY <1>6 DEF IsCut
  <2>1. k + i \in 1 .. N /\ (k + i) - 1 = k + (i - 1) /\ i - 1 \in 0 .. N - k /\ i \in 0 .. N - k
      BY <1>1
  <2>2. after[i] = cuts[k + i] /\ after[i - 1] = cuts[(k + i) - 1] /\ rest[i] = segments[k + i]
      BY <2>1, <1>6, <1>7
  <2> QED BY <2>1, <2>2, <1>2 DEF IsCut
<1>9. Chain(offs, rest, cuts[k], last)
    BY <1>6, <1>7, <1>8 DEF Chain
<1> HIDE DEF c
<1>10. Chain(offs, rest, c.seq, last)
    BY <1>5, <1>9
<1> QED BY <1>5, <1>10 DEF c, rest

-----------------------------------------------------------------------------
(* What a replay returns *)

\* A run of event numbers is a sequence of numbers.
LEMMA EventsAfterIs ==
    ASSUME NEW a \in Nat, NEW b \in Nat, a <= b
    PROVE  /\ EventsAfter(a, b) \in Seq(Nat)
           /\ Len(EventsAfter(a, b)) = b - a
           /\ \A i \in 1 .. b - a : EventsAfter(a, b)[i] = a + i
<1>1. b - a \in Nat /\ \A i \in 1 .. b - a : a + i \in Nat
    OBVIOUS
<1> QED BY <1>1 DEF EventsAfter

\* Two runs of which one begins where the other ends are one.
LEMMA EventsAfterConcat ==
    ASSUME NEW a \in Nat, NEW b \in Nat, NEW c \in Nat, a <= b, b <= c
    PROVE  EventsAfter(a, b) \o EventsAfter(b, c) = EventsAfter(a, c)
<1> DEFINE s == EventsAfter(a, b)
           t == EventsAfter(b, c)
           u == EventsAfter(a, c)
<1>1. s \in Seq(Nat) /\ Len(s) = b - a /\ \A i \in 1 .. b - a : s[i] = a + i
    BY EventsAfterIs
<1>2. t \in Seq(Nat) /\ Len(t) = c - b /\ \A i \in 1 .. c - b : t[i] = b + i
    BY EventsAfterIs
<1>3. u \in Seq(Nat) /\ Len(u) = c - a /\ \A i \in 1 .. c - a : u[i] = a + i
  <2>1. a <= c
      OBVIOUS
  <2> QED BY <2>1, EventsAfterIs
<1> HIDE DEF s, t, u
<1>4. /\ s \o t \in Seq(Nat) /\ Len(s \o t) = Len(s) + Len(t)
      /\ \A i \in 1 .. Len(s) + Len(t) :
            (s \o t)[i] = IF i <= Len(s) THEN s[i] ELSE t[i - Len(s)]
    BY <1>1, <1>2, ConcatProperties
<1>5. Len(s \o t) = c - a
    BY <1>1, <1>2, <1>4
<1>6. ASSUME NEW i \in 1 .. c - a PROVE (s \o t)[i] = u[i]
  <2>1. CASE i <= b - a
    <3>1. i \in 1 .. b - a /\ i \in 1 .. Len(s) + Len(t)
        BY <2>1, <1>1, <1>2
    <3>2. (s \o t)[i] = s[i]
        BY <3>1, <1>1, <1>4
    <3> QED BY <3>1, <3>2, <1>1, <1>3
  <2>2. CASE ~(i <= b - a)
    <3>1. i - (b - a) \in 1 .. c - b /\ i \in 1 .. Len(s) + Len(t)
        BY <2>2, <1>1, <1>2
    <3>2. (s \o t)[i] = t[i - (b - a)]
        BY <2>2, <3>1, <1>1, <1>4
    <3>3. b + (i - (b - a)) = a + i
        OBVIOUS
    <3> QED BY <3>1, <3>2, <3>3, <1>2, <1>3
  <2> QED BY <2>1, <2>2
<1>7. s \o t = u
    BY <1>3, <1>4, <1>5, <1>6, SeqEqual
<1> QED BY <1>7 DEF s, t, u

\* What the journal holds, entry by entry.
LEMMA EntriesAre ==
    ASSUME NEW offs, NEW j, JournalHolds(offs, j)
    PROVE  /\ j.evicted.seq \in Nat /\ Len(offs) \in Nat /\ j.evicted.seq <= Len(offs)
           /\ Entries(j.segments) \in Seq(JournalEvent)
           /\ Len(Entries(j.segments)) = Len(offs) - j.evicted.seq
           /\ DOMAIN Entries(j.segments) = 1 .. Len(offs) - j.evicted.seq
           /\ \A i \in 1 .. Len(offs) - j.evicted.seq :
                 Entries(j.segments)[i]
                    = [seq |-> j.evicted.seq + i, offset |-> offs[j.evicted.seq + i]]
<1> DEFINE a == j.evicted.seq
           b == Len(offs)
<1>1. offs \in Seq(Nat) /\ b \in Nat /\ a \in Nat /\ a <= b /\ b <= Len(offs)
    BY DEF JournalHolds
<1>2. Chain(offs, j.segments, a, b)
    BY DEF JournalHolds
<1> HIDE DEF a, b
<1>3. Entries(j.segments) = Stretch(offs, a, b)
    BY <1>1, <1>2, ChainEntries
<1>4. /\ Stretch(offs, a, b) \in Seq(JournalEvent) /\ Len(Stretch(offs, a, b)) = b - a
      /\ \A i \in 1 .. b - a : Stretch(offs, a, b)[i] = [seq |-> a + i, offset |-> offs[a + i]]
    BY <1>1, StretchIs
<1>5. DOMAIN Stretch(offs, a, b) = 1 .. b - a
    BY <1>4, LenProperties
<1> QED BY <1>1, <1>3, <1>4, <1>5 DEF a, b

\* The offset known for an event is the one it had, and only those of the evicted cursor
\* and of the events after it are known.
LEMMA OffsetAfterIs ==
    ASSUME NEW offs, NEW j, JournalHolds(offs, j), NEW n \in Nat
    PROVE  OffsetAfter(j, n) = IF j.evicted.seq <= n /\ n <= Len(offs)
                               THEN {OffsetOf(offs, n)} ELSE {}
<1> DEFINE a == j.evicted.seq
           b == Len(offs)
           es == Entries(j.segments)
<1>1. /\ a \in Nat /\ b \in Nat /\ a <= b /\ DOMAIN es = 1 .. b - a
      /\ \A i \in 1 .. b - a : es[i] = [seq |-> a + i, offset |-> offs[a + i]]
    BY EntriesAre
<1>2. OffsetAfter(j, n) = IF n = a THEN {j.evicted.offset}
                          ELSE {e.offset : e \in {x \in {es[i] : i \in DOMAIN es} : x.seq = n}}
    BY DEF OffsetAfter, Range
<1>3. j.evicted.offset = OffsetOf(offs, a)
    BY DEF JournalHolds
<1> HIDE DEF a, b, es
<1>4. CASE n = a
    BY <1>1, <1>2, <1>3, <1>4 DEF a, b
<1>5. CASE n # a /\ a <= n /\ n <= b
  <2>1. n - a \in 1 .. b - a /\ a + (n - a) = n
      BY <1>1, <1>5
  <2>2. es[n - a] = [seq |-> n, offset |-> offs[n]] /\ n # 0
      BY <1>1, <1>5, <2>1
  <2>3. ASSUME NEW i \in DOMAIN es, es[i].seq = n PROVE es[i] = es[n - a]
    <3>1. i \in 1 .. b - a /\ es[i] = [seq |-> a + i, offset |-> offs[a + i]]
        BY <1>1
    <3>2. es[i].seq = a + i
        BY <3>1
    <3>3. a + i = n
        BY <3>2, <2>3
    <3>4. i = n - a
      <4>1. i \in Int /\ a \in Int
          BY <3>1, <1>1
      <4> QED BY <4>1, <3>3
    <3> QED BY <3>4
  <2>4. {x \in {es[i] : i \in DOMAIN es} : x.seq = n} = {es[n - a]}
      BY <1>1, <2>1, <2>2, <2>3
  <2>5. OffsetAfter(j, n) = {es[n - a].offset}
      BY <1>2, <1>5, <2>4
  <2> QED BY <2>2, <2>5, <1>5 DEF OffsetOf, a, b
<1>6. CASE ~(a <= n /\ n <= b)
  <2>1. \A i \in DOMAIN es : es[i].seq # n
    <3> TAKE i \in DOMAIN es
    <3>1. i \in 1 .. b - a /\ es[i] = [seq |-> a + i, offset |-> offs[a + i]]
        BY <1>1
    <3>2. es[i].seq = a + i
        BY <3>1
    <3> QED BY <3>1, <3>2, <1>1, <1>6
  <2>2. n # a
      BY <1>1, <1>6
  <2> QED BY <1>2, <1>6, <2>1, <2>2 DEF a, b
<1> QED BY <1>4, <1>5, <1>6

\* There is no gap exactly when both ends are cursors of the session in their order and
\* the first is not before the evicted one.
LEMMA GapIs ==
    ASSUME NEW j, JournalHolds(offsets, j),
           NEW base, base.seq \in Nat, NEW commit, commit.seq \in Nat
    PROVE  ~Gap(j, base, commit) <=>
              /\ j.evicted.seq <= base.seq
              /\ base.seq <= commit.seq
              /\ commit.seq <= Len(offsets)
              /\ base.offset = OffsetOf(offsets, base.seq)
              /\ commit.offset = OffsetOf(offsets, commit.seq)
<1>1. j.evicted.seq \in Nat /\ Len(offsets) \in Nat
    BY EntriesAre
<1>2. SessionCursor.seq = Len(offsets)
    BY DEF SessionCursor
<1> DEFINE a == j.evicted.seq
           l == Len(offsets)
<1> HIDE DEF a, l
<1>3. OffsetAfter(j, base.seq) = IF a <= base.seq /\ base.seq <= l
                                 THEN {OffsetOf(offsets, base.seq)} ELSE {}
    BY OffsetAfterIs DEF a, l
<1>4. OffsetAfter(j, commit.seq) = IF a <= commit.seq /\ commit.seq <= l
                                   THEN {OffsetOf(offsets, commit.seq)} ELSE {}
    BY OffsetAfterIs DEF a, l
<1>5. ~Gap(j, base, commit) <=>
         /\ ~(base.seq < a) /\ ~(base.seq > commit.seq) /\ ~(commit.seq > l)
         /\ OffsetAfter(j, base.seq) = {base.offset}
         /\ OffsetAfter(j, commit.seq) = {commit.offset}
    BY <1>2 DEF Gap, a, l
<1>6. CASE a <= base.seq /\ base.seq <= commit.seq /\ commit.seq <= l
  <2>1. /\ OffsetAfter(j, base.seq) = {OffsetOf(offsets, base.seq)}
        /\ OffsetAfter(j, commit.seq) = {OffsetOf(offsets, commit.seq)}
      BY <1>1, <1>3, <1>4, <1>6 DEF a, l
  <2>2. /\ OffsetAfter(j, base.seq) = {base.offset}
           <=> base.offset = OffsetOf(offsets, base.seq)
        /\ OffsetAfter(j, commit.seq) = {commit.offset}
           <=> commit.offset = OffsetOf(offsets, commit.seq)
    <3> DEFINE x == OffsetOf(offsets, base.seq)
               y == OffsetOf(offsets, commit.seq)
    <3> HIDE DEF x, y
    <3>1. OffsetAfter(j, base.seq) = {x} /\ OffsetAfter(j, commit.seq) = {y}
        BY <2>1 DEF x, y
    <3>2. ({x} = {base.offset} <=> base.offset = x) /\ ({y} = {commit.offset} <=> commit.offset = y)
        OBVIOUS
    <3> QED BY <3>1, <3>2 DEF x, y
  <2>3. ~(base.seq < a) /\ ~(base.seq > commit.seq) /\ ~(commit.seq > l)
      BY <1>1, <1>6 DEF a, l
  <2> QED BY <1>5, <1>6, <2>2, <2>3 DEF a, l
<1>7. CASE ~(a <= base.seq /\ base.seq <= commit.seq /\ commit.seq <= l)
    BY <1>1, <1>5, <1>7 DEF a, l
<1> QED BY <1>6, <1>7 DEF a, l

\* A replay for which there is no gap is the events after the base up to the commit.
LEMMA ReplayedIs ==
    ASSUME NEW offs, NEW j, JournalHolds(offs, j),
           NEW base, base.seq \in Nat, NEW commit, commit.seq \in Nat,
           j.evicted.seq <= base.seq, base.seq <= commit.seq, commit.seq <= Len(offs)
    PROVE  Replayed(j, base, commit) = EventsAfter(base.seq, commit.seq)
<1> DEFINE a == j.evicted.seq
           N == Len(offs) - a
           es == Entries(j.segments)
           x == base.seq
           y == commit.seq
           seqs == [n \in DOMAIN es |->
                       IF es[n].seq > x /\ es[n].seq <= y THEN <<es[n].seq>> ELSE <<>>]
           Upper(n) == IF a + n <= x THEN x ELSE IF a + n <= y THEN a + n ELSE y
<1>1. /\ a \in Nat /\ N \in Nat /\ DOMAIN es = 1 .. N
      /\ \A i \in 1 .. N : es[i] = [seq |-> a + i, offset |-> offs[a + i]]
  <2>1. Len(offs) \in Nat /\ a <= Len(offs)
      BY EntriesAre
  <2> QED BY <2>1, EntriesAre
<1>2. x \in Nat /\ y \in Nat /\ a <= x /\ x <= y /\ y <= a + N
    BY <1>1, EntriesAre
<1>3. Replayed(j, base, commit) = FlattenSeq(seqs)
    BY DEF Replayed
<1> HIDE DEF es
<1>4. Len(seqs) = N
    BY <1>1
<1> HIDE DEF a, N, x, y
<1>5. ASSUME NEW n \in 1 .. N
      PROVE  seqs[n] = IF a + n > x /\ a + n <= y THEN <<a + n>> ELSE <<>>
  <2>1. es[n].seq = a + n
      BY <1>1
  <2>2. n \in DOMAIN es
      BY <1>1
  <2> QED BY <2>1, <2>2, Zenon
<1>6. CASE N = 0
  <2>1. seqs = <<>>
      BY <1>1, <1>6
  <2>2. FlattenSeq(seqs) = <<>>
      BY <2>1, <1>4, <1>6 DEF FlattenSeq
  <2>3. x = y /\ EventsAfter(x, y) = <<>>
      BY <1>1, <1>2, <1>6 DEF EventsAfter
  <2> QED BY <1>3, <2>2, <2>3 DEF x, y
<1>7. CASE N # 0
  <2> HIDE DEF seqs
  <2>1. Len(seqs) \in Nat \ {0} /\ 1 \in 1 .. N /\ N \in 1 .. N
      BY <1>1, <1>4, <1>7
  <2>2. ASSUME NEW n \in 1 .. N
        PROVE  /\ Upper(n - 1) \in Nat /\ Upper(n) \in Nat
               /\ x <= Upper(n - 1) /\ Upper(n - 1) <= Upper(n)
               /\ seqs[n] = EventsAfter(Upper(n - 1), Upper(n))
    <3>1. n \in Int /\ a + n \in Nat /\ a + (n - 1) = (a + n) - 1
        BY <1>1
    <3>2. CASE a + n > x /\ a + n <= y
      <4>1. Upper(n - 1) = (a + n) - 1 /\ Upper(n) = a + n
          BY <3>1, <3>2, <1>1, <1>2
      <4>2. EventsAfter((a + n) - 1, a + n) = <<a + n>>
          BY <3>1, <3>2, <1>2 DEF EventsAfter
      <4>3. seqs[n] = <<a + n>>
          BY <3>2, <1>5
      <4>4. x <= (a + n) - 1 /\ (a + n) - 1 <= a + n /\ (a + n) - 1 \in Nat
          BY <3>1, <3>2, <1>2
      <4> HIDE DEF Upper
      <4> QED BY <3>1, <4>1, <4>2, <4>3, <4>4
    <3>3. CASE ~(a + n > x /\ a + n <= y)
      <4>1. Upper(n - 1) = Upper(n) /\ Upper(n) \in {x, y}
          BY <3>1, <3>3, <1>1, <1>2
      <4>2. EventsAfter(x, x) = <<>> /\ EventsAfter(y, y) = <<>>
          BY <1>2 DEF EventsAfter
      <4>3. seqs[n] = <<>>
          BY <3>3, <1>5
      <4> HIDE DEF Upper
      <4> QED BY <1>2, <4>1, <4>2, <4>3
    <3> QED BY <3>2, <3>3
  <2>3. Upper(0) = x /\ Upper(N) = y
    <3>1. a + 0 = a
        BY <1>1
    <3>2. Upper(0) = x
        BY <3>1, <1>2
    <3>3. CASE a + N <= x
        BY <3>3, <1>1, <1>2
    <3>4. CASE ~(a + N <= x) /\ a + N <= y
        BY <3>4, <1>1, <1>2
    <3>5. CASE ~(a + N <= x) /\ ~(a + N <= y)
        BY <3>2, <3>5
    <3> QED BY <3>2, <3>3, <3>4, <3>5
  <2> HIDE DEF Upper
  <2> DEFINE S == {n \in 1 .. N : Flattened(seqs)[n] = EventsAfter(x, Upper(n))}
  <2>4. 1 \in S
    <3>1. Flattened(seqs)[1] = seqs[1]
        BY <2>1, FlattenSeqIs
    <3>2. seqs[1] = EventsAfter(Upper(1 - 1), Upper(1))
        BY <2>1, <2>2
    <3>3. 1 - 1 = 0
        OBVIOUS
    <3> QED BY <3>1, <3>2, <3>3, <2>1, <2>3
  <2>5. ASSUME NEW m \in 1 .. N, m \in S /\ m < N PROVE m + 1 \in S
    <3>1. m + 1 \in 2 .. N /\ m + 1 \in 1 .. N /\ (m + 1) - 1 = m
        BY <1>1, <2>5
    <3>2. Flattened(seqs)[m + 1] = Flattened(seqs)[m] \o seqs[m + 1]
        BY <2>1, <1>4, <3>1, FlattenSeqIs
    <3>3. Flattened(seqs)[m] = EventsAfter(x, Upper(m))
        BY <2>5
    <3>4. /\ Upper(m) \in Nat /\ Upper(m + 1) \in Nat
          /\ x <= Upper(m) /\ Upper(m) <= Upper(m + 1)
          /\ seqs[m + 1] = EventsAfter(Upper(m), Upper(m + 1))
      <4>1. /\ Upper((m + 1) - 1) \in Nat /\ Upper(m + 1) \in Nat
            /\ x <= Upper((m + 1) - 1) /\ Upper((m + 1) - 1) <= Upper(m + 1)
            /\ seqs[m + 1] = EventsAfter(Upper((m + 1) - 1), Upper(m + 1))
          BY <2>2, <3>1
      <4> QED BY <4>1, <3>1
    <3>5. EventsAfter(x, Upper(m)) \o EventsAfter(Upper(m), Upper(m + 1))
             = EventsAfter(x, Upper(m + 1))
        BY <1>2, <3>4, EventsAfterConcat
    <3> QED BY <3>1, <3>2, <3>3, <3>4, <3>5
  <2>6. N \in S
    <3> HIDE DEF S
    <3>1. 1 .. N \subseteq S
        BY <1>1, <2>4, <2>5, Climb
    <3> QED BY <3>1, <2>1
  <2>7. FlattenSeq(seqs) = Flattened(seqs)[N]
      BY <2>1, <1>4, FlattenSeqIs
  <2> QED BY <1>3, <2>3, <2>6, <2>7 DEF x, y
<1> QED BY <1>6, <1>7

\* Replays are exact whenever the journal is a chain.
LEMMA ChainReplaysExactly == JournalIsChain => ReplayIsExact
<1> SUFFICES ASSUME JournalIsChain PROVE ReplayIsExact
    OBVIOUS
<1> DEFINE es == Entries(journal.segments)
           a == journal.evicted.seq
           l == Len(offsets)
           Kept == {e.seq : e \in Range(es)}
           OffsetAt(n) == IF n = 0 THEN 0 ELSE offsets[n]
           Near(n) == IF n > l THEN {0} ELSE {OffsetAt(n), OffsetAt(n) + 1}
           Cursors == UNION {[seq : {n}, offset : Near(n)] : n \in 0 .. l + 1}
           Real(c) == c.seq <= l /\ c.offset = OffsetAt(c.seq)
<1>1. JournalHolds(offsets, journal)
    BY DEF JournalIsChain
<1>2. /\ a \in Nat /\ l \in Nat /\ a <= l /\ DOMAIN es = 1 .. l - a
      /\ \A i \in 1 .. l - a : es[i] = [seq |-> a + i, offset |-> offsets[a + i]]
    BY <1>1, EntriesAre
<1>3. Kept = a + 1 .. l
  <2> HIDE DEF es, a, l
  <2>1. Kept = {es[i].seq : i \in 1 .. l - a}
      BY <1>2 DEF Range
  <2>2. \A i \in 1 .. l - a : es[i].seq = a + i
      BY <1>2
  <2>3. ASSUME NEW n \in a + 1 .. l PROVE n \in Kept
    <3>1. n - a \in 1 .. l - a /\ a + (n - a) = n
        BY <1>2
    <3>2. es[n - a].seq = n
        BY <2>2, <3>1
    <3> HIDE DEF Kept
    <3> QED BY <2>1, <3>1, <3>2
  <2>4. ASSUME NEW i \in 1 .. l - a PROVE es[i].seq \in a + 1 .. l
    <3>1. es[i].seq = a + i
        BY <2>2
    <3> QED BY <3>1, <1>2
  <2> HIDE DEF Kept
  <2> QED BY <2>1, <2>3, <2>4
<1>4. ASSUME NEW base \in Cursors, NEW commit \in Cursors
      PROVE  /\ ~Gap(journal, base, commit) <=>
                   /\ Real(base) /\ Real(commit) /\ base.seq <= commit.seq
                   /\ base.seq + 1 .. l \subseteq Kept
             /\ ~Gap(journal, base, commit) =>
                   Replayed(journal, base, commit)
                      = [i \in 1 .. commit.seq - base.seq |-> base.seq + i]
  <2>1. base.seq \in Nat /\ commit.seq \in Nat
      BY <1>2
  <2> HIDE DEF Cursors, Kept
  <2>2. ~Gap(journal, base, commit) <=>
              /\ a <= base.seq /\ base.seq <= commit.seq /\ commit.seq <= l
              /\ base.offset = OffsetAt(base.seq) /\ commit.offset = OffsetAt(commit.seq)
      BY <1>1, <2>1, GapIs DEF OffsetOf
  <2> HIDE DEF a, l, OffsetAt
  <2>3. base.seq <= l => (base.seq + 1 .. l \subseteq Kept <=> a <= base.seq)
    <3>1. CASE a <= base.seq
        BY <3>1, <1>2, <1>3, <2>1
    <3>2. CASE ~(a <= base.seq)
      <4>1. base.seq + 1 \in base.seq + 1 .. l /\ base.seq + 1 \notin a + 1 .. l
          BY <3>2, <1>2, <2>1
      <4> QED BY <4>1, <3>2, <1>3
    <3> QED BY <3>1, <3>2
  <2>4. ~Gap(journal, base, commit) <=>
              /\ Real(base) /\ Real(commit) /\ base.seq <= commit.seq
              /\ base.seq + 1 .. l \subseteq Kept
    <3>1. base.seq <= commit.seq /\ commit.seq <= l => base.seq <= l
        BY <1>2, <2>1
    <3> QED BY <3>1, <2>2, <2>3
  <2>5. ASSUME ~Gap(journal, base, commit)
        PROVE  Replayed(journal, base, commit)
                  = [i \in 1 .. commit.seq - base.seq |-> base.seq + i]
    <3>1. a <= base.seq /\ base.seq <= commit.seq /\ commit.seq <= l
        BY <2>2, <2>5
    <3>2. Replayed(journal, base, commit) = EventsAfter(base.seq, commit.seq)
        BY <1>1, <2>1, <3>1, ReplayedIs DEF a, l
    <3> QED BY <3>2 DEF EventsAfter
  <2> QED BY <2>4, <2>5
<1> QED BY <1>4 DEF ReplayIsExact

-----------------------------------------------------------------------------
(* The steps of the session *)

\* Pruning a journal that holds the events of the session leaves one that does.
LEMMA PruneKeeps ==
    ASSUME NEW offs \in Seq(Nat), NEW segments,
           journal.evicted.seq \in 0 .. Len(offs),
           journal.evicted.offset = OffsetOf(offs, journal.evicted.seq),
           Chain(offs, segments, journal.evicted.seq, Len(offs)),
           Prune(segments)
    PROVE  JournalHolds(offs, journal')
<1> DEFINE l == Len(offs)
           first == journal.evicted.seq
<1>1. segments \in Seq(JournalSegment) /\ l \in Nat /\ first \in Nat /\ l <= Len(offs)
    BY DEF Chain
<1>2. PICK k \in 0 .. Len(segments) :
          journal' = [segments |-> SubSeq(segments, k + 1, Len(segments)),
                      evicted |-> Evicted(segments, k)]
    BY DEF Prune, Pruned
<1>3. CASE k = 0
  <2>1. SubSeq(segments, k + 1, Len(segments)) = segments
      BY <1>1, <1>3, SubSeqFull
  <2>2. journal'.segments = segments /\ journal'.evicted = journal.evicted
      BY <1>2, <1>3, <2>1 DEF Evicted
  <2> QED BY <2>2 DEF JournalHolds
<1>4. CASE k # 0
  <2> DEFINE c == Last(segments[k].entries)
  <2>1. k \in 1 .. Len(segments)
      BY <1>1, <1>4
  <2> HIDE DEF l, first
  <2>2. /\ c.seq \in 1 .. l /\ c.offset = offs[c.seq]
        /\ Chain(offs, SubSeq(segments, k + 1, Len(segments)), c.seq, l)
      BY <2>1, <1>1, EvictedChain, ZenonT(60) DEF l, first
  <2>3. /\ journal'.segments = SubSeq(segments, k + 1, Len(segments))
        /\ journal'.evicted = c
      BY <1>2, <1>4 DEF Evicted
  <2> HIDE DEF c
  <2>4. c.seq \in 0 .. l /\ c.seq # 0
      BY <2>2, <1>1
  <2>5. c.offset = OffsetOf(offs, c.seq)
      BY <2>2, <2>4 DEF OffsetOf
  <2> QED BY <2>2, <2>3, <2>4, <2>5 DEF JournalHolds, l
<1> QED BY <1>3, <1>4

\* What is maintained before a replay is a chain still.
LEMMA MaintainKeeps ==
    ASSUME JournalIsChain, Maintain PROVE JournalHolds(offsets, journal')
<1>1. /\ offsets \in Seq(Nat) /\ journal.evicted.seq \in 0 .. Len(offsets)
      /\ journal.evicted.offset = OffsetOf(offsets, journal.evicted.seq)
      /\ Chain(offsets, journal.segments, journal.evicted.seq, Len(offsets))
    BY DEF JournalIsChain, JournalHolds
<1>2. PICK aged \in MaybeAged(journal.segments) : Prune(aged)
    BY DEF Maintain
<1>3. Chain(offsets, aged, journal.evicted.seq, Len(offsets))
    BY <1>1, AgedChain
<1> QED BY <1>1, <1>2, <1>3, PruneKeeps

\* A published event is the next one, and the journal holds it.
LEMMA PublishKeeps ==
    ASSUME JournalIsChain, NEW bytes \in 0 .. 1, Publish(bytes)
    PROVE  JournalIsChain' /\ Len(offsets') = Len(offsets) + 1
<1>1. /\ offsets \in Seq(Nat) /\ journal.evicted.seq \in 0 .. Len(offsets)
      /\ journal.evicted.offset = OffsetOf(offsets, journal.evicted.seq)
      /\ Chain(offsets, journal.segments, journal.evicted.seq, Len(offsets))
    BY DEF JournalIsChain, JournalHolds
<1> DEFINE x == SessionCursor.offset + bytes
           e == [seq |-> Len(offsets) + 1, offset |-> x]
           more == Append(offsets, x)
<1>2. x \in Nat
  <2>1. CASE offsets = <<>>
      BY <2>1 DEF SessionCursor
  <2>2. CASE offsets # <<>>
    <3>1. Len(offsets) \in 1 .. Len(offsets)
        BY <1>1, <2>2, EmptySeq
    <3>2. Last(offsets) \in Nat
        BY <1>1, <3>1 DEF Last
    <3> QED BY <2>2, <3>2 DEF SessionCursor
  <2> QED BY <2>1, <2>2
<1>3. offsets' = more /\ JournalAppend(e)
    BY DEF Publish
<1>4. PICK aged \in MaybeAged(journal.segments) :
          LET segments == Appended(aged, e)
          IN  Prune(IF Full(segments) THEN SealActive(segments) ELSE segments)
    BY <1>3 DEF JournalAppend
<1> HIDE DEF x
<1>5. /\ more \in Seq(Nat) /\ Len(more) = Len(offsets) + 1 /\ Len(offsets) \in Nat
      /\ \A i \in 1 .. Len(offsets) : more[i] = offsets[i]
    BY <1>1, <1>2, AppendProperties
<1> DEFINE longer == Appended(aged, e)
           kept == IF Full(longer) THEN SealActive(longer) ELSE longer
<1>6. Chain(offsets, aged, journal.evicted.seq, Len(offsets))
    BY <1>1, AgedChain
<1>7. Chain(more, longer, journal.evicted.seq, Len(offsets) + 1)
    BY <1>1, <1>2, <1>6, AppendedChain
<1> HIDE DEF longer, more, e
<1>8. Chain(more, kept, journal.evicted.seq, Len(offsets) + 1)
  <2>1. Chain(more, SealActive(longer), journal.evicted.seq, Len(offsets) + 1)
      BY <1>7, SealedIsAged, AgedChain
  <2> QED BY <1>7, <2>1
<1>9. Prune(kept)
    BY <1>4 DEF longer
<1>10. /\ journal.evicted.seq \in 0 .. Len(more)
       /\ journal.evicted.offset = OffsetOf(more, journal.evicted.seq)
    BY <1>1, <1>5, SMTT(30) DEF OffsetOf
<1> HIDE DEF kept
<1>11. JournalHolds(more, journal')
    BY <1>5, <1>8, <1>9, <1>10, PruneKeeps
<1> QED BY <1>3, <1>5, <1>11 DEF JournalIsChain

\* Concatenation is closed and associative, as formulas that Zenon instantiates.
LEMMA ConcatCloses == \A s, t \in Seq(Nat) : s \o t \in Seq(Nat)
    BY ConcatProperties

LEMMA ConcatAssociates == \A s, t, u \in Seq(Nat) : (s \o t) \o u = s \o (t \o u)
    BY ConcatAssociative, SMTT(30)

\* The wrapped subscriber keeps its place when the next event is published.
LEMMA GivenKeeps ==
    ASSUME SubscriberIsFed, Len(offsets) \in Nat, Len(offsets') = Len(offsets) + 1,
           subscriber' = Given(Len(offsets) + 1)
    PROVE  SubscriberIsFed'
<1> DEFINE l == Len(offsets)
           seq == Len(offsets) + 1
<1>1. /\ subscriber.base \in Nat /\ subscriber.replay \in Seq(Nat)
      /\ subscriber.pending \in Seq(Nat) /\ subscriber.got \in Seq(Nat)
    BY DEF SubscriberIsFed
<1> HIDE DEF l, seq
<1>2. seq \in Nat /\ l \in Nat /\ seq = l + 1
    BY DEF seq, l
<1>3. CASE ~subscriber.on
  <2>0. ~subscriber.replaying
      BY <1>3 DEF SubscriberIsFed, NoSubscriber
  <2>1. subscriber' = subscriber
      BY <1>3, <2>0 DEF Given
  <2> QED BY <2>1, <1>3 DEF SubscriberIsFed
<1>4. CASE subscriber.on
  <2> DEFINE base == subscriber.base
             all == subscriber.got \o (subscriber.replay \o subscriber.pending)
  <2>1. base <= l /\ base <= l + 1 /\ all = EventsAfter(base, l)
      BY <1>1, <1>2, <1>4, SMTT(30) DEF SubscriberIsFed, l
  <2>2. Append(all, seq) = EventsAfter(base, l + 1)
    <3>1. EventsAfter(l, l + 1) = <<seq>>
        BY <1>2 DEF EventsAfter
    <3>2. EventsAfter(base, l) \o EventsAfter(l, l + 1) = EventsAfter(base, l + 1)
      <4> DEFINE m == l + 1
      <4>1. base \in Nat /\ l \in Nat /\ m \in Nat /\ base <= l /\ l <= m
          BY <1>1, <1>2, <2>1
      <4> HIDE DEF m, base
      <4>2. EventsAfter(base, l) \o EventsAfter(l, m) = EventsAfter(base, m)
          BY <4>1, EventsAfterConcat
      <4> QED BY <4>2 DEF m
    <3>3. EventsAfter(base, l) \in Seq(Nat)
        BY <1>1, <1>2, <2>1, EventsAfterIs
    <3>4. Append(EventsAfter(base, l), seq) = EventsAfter(base, l) \o <<seq>>
        BY <1>2, <3>3, AppendIsConcat
    <3> QED BY <2>1, <3>1, <3>2, <3>4
  <2>3. CASE subscriber.replaying
    <3> DEFINE waits == Append(subscriber.pending, seq)
    <3>1. subscriber' = [subscriber EXCEPT !.pending = waits]
        BY <1>4, <2>3 DEF Given, seq
    <3>2. waits \in Seq(Nat) /\ waits = subscriber.pending \o <<seq>>
        BY <1>1, <1>2, AppendIsConcat
    <3>3. Append(all, seq) = subscriber.got \o (subscriber.replay \o waits)
      <4> DEFINE g == subscriber.got
                 r == subscriber.replay
                 q == subscriber.pending
                 e == <<seq>>
      <4>0. g \in Seq(Nat) /\ r \in Seq(Nat) /\ q \in Seq(Nat) /\ e \in Seq(Nat)
          BY <1>1, <1>2
      <4>1. r \o q \in Seq(Nat) /\ g \o (r \o q) \in Seq(Nat)
        <5> HIDE DEF g, r, q, e
        <5> QED BY <4>0, ConcatProperties
      <4>2. Append(all, seq) = (g \o (r \o q)) \o <<seq>>
          BY <1>2, <4>1, AppendIsConcat
      <4>3. (g \o (r \o q)) \o e = g \o (r \o (q \o e))
        <5> HIDE DEF g, r, q, e
        <5>1. r \o q \in Seq(Nat)
            BY <4>0, ConcatCloses, Zenon
        <5>2. (r \o q) \o e = r \o (q \o e)
            BY <4>0, ConcatAssociates, Zenon
        <5>3. (g \o (r \o q)) \o e = g \o ((r \o q) \o e)
            BY <4>0, <5>1, ConcatAssociates, ZenonT(60)
        <5> QED BY <5>2, <5>3, Zenon
      <4> QED BY <3>2, <4>2, <4>3
    <3> HIDE DEF waits, all
    <3>4. /\ subscriber' \in [on : BOOLEAN, base : Nat, replaying : BOOLEAN,
                             replay : Seq(Nat), pending : Seq(Nat), got : Seq(Nat)]
          /\ subscriber'.on /\ subscriber'.replaying /\ subscriber'.base = base
          /\ subscriber'.got = subscriber.got /\ subscriber'.replay = subscriber.replay
          /\ subscriber'.pending = waits
        BY <1>4, <2>3, <3>1, <3>2 DEF SubscriberIsFed
    <3> QED BY <1>2, <2>1, <2>2, <3>3, <3>4 DEF SubscriberIsFed, l, seq
  <2>4. CASE ~subscriber.replaying
    <3> DEFINE more == Append(subscriber.got, seq)
    <3>1. subscriber' = [subscriber EXCEPT !.got = more]
        BY <1>4, <2>4 DEF Given, seq
    <3>2. more \in Seq(Nat)
        BY <1>1, <1>2, AppendProperties
    <3>3. subscriber.replay = <<>> /\ subscriber.pending = <<>> /\ <<>> \o <<>> = <<>>
        BY <2>4 DEF SubscriberIsFed
    <3>4. all = subscriber.got /\ more \o (<<>> \o <<>>) = more
        BY <1>1, <3>2, <3>3, ConcatEmptySeq
    <3>5. more = EventsAfter(base, l + 1)
        BY <2>2, <3>4
    <3> HIDE DEF more, all
    <3>6. /\ subscriber' \in [on : BOOLEAN, base : Nat, replaying : BOOLEAN,
                             replay : Seq(Nat), pending : Seq(Nat), got : Seq(Nat)]
          /\ subscriber'.on /\ ~subscriber'.replaying /\ subscriber'.base = base
          /\ subscriber'.got = more /\ subscriber'.replay = <<>> /\ subscriber'.pending = <<>>
        BY <1>4, <2>4, <3>1, <3>2, <3>3 DEF SubscriberIsFed
    <3> QED BY <1>2, <2>1, <3>4, <3>5, <3>6 DEF SubscriberIsFed, l, seq
  <2> QED BY <2>3, <2>4
<1> QED BY <1>3, <1>4

\* No subscriber misses anything.
LEMMA NobodyIsFed == ASSUME subscriber' = NoSubscriber PROVE SubscriberIsFed'
<1>1. <<>> \in Seq(Nat)
    OBVIOUS
<1>2. NoSubscriber \in [on : BOOLEAN, base : Nat, replaying : BOOLEAN,
                        replay : Seq(Nat), pending : Seq(Nat), got : Seq(Nat)]
    BY <1>1 DEF NoSubscriber
<1> QED BY <1>2 DEF SubscriberIsFed, NoSubscriber

\* A subscriber that joins without a cursor is fed from the next event on.
LEMMA FollowKeeps ==
    ASSUME SInv, Follow PROVE SubscriberIsFed'
<1> DEFINE l == Len(offsets)
           s == [NoSubscriber EXCEPT !.on = TRUE, !.base = l]
<1>1. l \in Nat /\ offsets' = offsets /\ subscriber' = s
    BY DEF SInv, JournalIsChain, JournalHolds, Follow
<1>2. <<>> \in Seq(Nat) /\ <<>> \o (<<>> \o <<>>) = <<>>
    OBVIOUS
<1>3. EventsAfter(l, l) = <<>>
    BY <1>1 DEF EventsAfter
<1>4. /\ s \in [on : BOOLEAN, base : Nat, replaying : BOOLEAN,
               replay : Seq(Nat), pending : Seq(Nat), got : Seq(Nat)]
      /\ s.on /\ ~s.replaying /\ s.base = l
      /\ s.got = <<>> /\ s.replay = <<>> /\ s.pending = <<>>
  <2> HIDE DEF l
  <2> QED BY <1>1, <1>2 DEF NoSubscriber
<1> HIDE DEF s
<1> QED BY <1>1, <1>2, <1>3, <1>4 DEF SubscriberIsFed

\* One that joins with a cursor is fed the replay first.
LEMMA SubscribeKeeps ==
    ASSUME SInv, NEW cursor \in Cursor, Subscribe(cursor)
    PROVE  JournalIsChain' /\ SubscriberIsFed'
<1> DEFINE l == Len(offsets)
           base == cursor.seq
           frames == Replayed(journal', cursor, SessionCursor)
           s == [NoSubscriber EXCEPT !.on = TRUE, !.base = base, !.replaying = TRUE,
                                     !.replay = frames]
<1>1. /\ JournalHolds(offsets, journal') /\ offsets' = offsets
      /\ ~Gap(journal', cursor, SessionCursor) /\ subscriber' = s
    BY MaintainKeeps DEF SInv, Subscribe
<1>2. l \in Nat /\ base \in Nat /\ SessionCursor.seq = l
    BY <1>1, HostSessionAssumption DEF JournalHolds, Cursor, SessionCursor
<1>3. (journal').evicted.seq <= base /\ base <= l
    BY <1>1, <1>2, GapIs
<1>4. frames = EventsAfter(base, l)
    BY <1>1, <1>2, <1>3, ReplayedIs
<1> HIDE DEF frames, l, base
<1>5. frames \in Seq(Nat)
    BY <1>2, <1>3, <1>4, EventsAfterIs
<1>6. <<>> \in Seq(Nat) /\ <<>> \o (frames \o <<>>) = frames
    BY <1>5, ConcatEmptySeq
<1>7. /\ s \in [on : BOOLEAN, base : Nat, replaying : BOOLEAN,
               replay : Seq(Nat), pending : Seq(Nat), got : Seq(Nat)]
      /\ s.on /\ s.replaying /\ s.base = base
      /\ s.got = <<>> /\ s.replay = frames /\ s.pending = <<>>
    BY <1>2, <1>5, <1>6 DEF NoSubscriber
<1> HIDE DEF s
<1>8. SubscriberIsFed'
    BY <1>1, <1>3, <1>4, <1>6, <1>7 DEF SubscriberIsFed, l
<1> QED BY <1>1, <1>8 DEF JournalIsChain

\* A frame that is given moves from the front of what waits to the end of what was given.
LEMMA MoveHead ==
    ASSUME NEW g \in Seq(Nat), NEW w \in Seq(Nat), w # <<>>
    PROVE  Append(g, Head(w)) \o Tail(w) = g \o w
<1>1. Head(w) \in Nat /\ Tail(w) \in Seq(Nat) /\ <<Head(w)>> \in Seq(Nat)
    BY HeadTailProperties
<1>2. Append(g, Head(w)) = g \o <<Head(w)>>
    BY <1>1, AppendIsConcat
<1>3. (g \o <<Head(w)>>) \o Tail(w) = g \o (<<Head(w)>> \o Tail(w))
    BY <1>1, ConcatAssociative, SMTT(30)
<1>4. <<Head(w)>> \o Tail(w) = w
    BY <1>1, ConcatSimplifications
<1> QED BY <1>2, <1>3, <1>4

\* The tail of two sequences is that of the first, when it has one.
LEMMA TailOfConcat ==
    ASSUME NEW r \in Seq(Nat), NEW q \in Seq(Nat), r # <<>>
    PROVE  Tail(r) \o q = Tail(r \o q)
<1> DEFINE s == Tail(r) \o q
           w == r \o q
           t == Tail(w)
<1>1. Len(r) \in Nat \ {0} /\ Len(q) \in Nat
    BY EmptySeq
<1>2. /\ Tail(r) \in Seq(Nat) /\ Len(Tail(r)) = Len(r) - 1
      /\ \A i \in 1 .. Len(r) - 1 : Tail(r)[i] = r[i + 1]
    BY HeadTailProperties
<1>3. /\ w \in Seq(Nat) /\ Len(w) = Len(r) + Len(q)
      /\ \A i \in 1 .. Len(r) + Len(q) : w[i] = IF i <= Len(r) THEN r[i] ELSE q[i - Len(r)]
    BY ConcatProperties
<1>4. /\ s \in Seq(Nat) /\ Len(s) = Len(Tail(r)) + Len(q)
      /\ \A i \in 1 .. Len(Tail(r)) + Len(q) :
            s[i] = IF i <= Len(Tail(r)) THEN Tail(r)[i] ELSE q[i - Len(Tail(r))]
    BY <1>2, ConcatProperties
<1> HIDE DEF s, w
<1>5. w # <<>>
    BY <1>1, <1>3
<1>6. t \in Seq(Nat) /\ Len(t) = Len(w) - 1 /\ \A i \in 1 .. Len(t) : t[i] = w[i + 1]
    BY <1>3, <1>5, HeadTailProperties
<1> HIDE DEF t
<1>7. Len(s) = Len(t)
    BY <1>1, <1>2, <1>3, <1>4, <1>6
<1>8. ASSUME NEW i \in 1 .. Len(s) PROVE s[i] = t[i]
  <2>1. /\ i \in Int /\ i \in 1 .. Len(Tail(r)) + Len(q) /\ i \in 1 .. Len(t)
        /\ i + 1 \in 1 .. Len(r) + Len(q)
      BY <1>1, <1>2, <1>3, <1>4, <1>6, <1>7
  <2>2. t[i] = IF i + 1 <= Len(r) THEN r[i + 1] ELSE q[(i + 1) - Len(r)]
      BY <2>1, <1>3, <1>6
  <2>3. s[i] = IF i <= Len(r) - 1 THEN Tail(r)[i] ELSE q[i - (Len(r) - 1)]
      BY <2>1, <1>2, <1>4
  <2>4. CASE i + 1 <= Len(r)
    <3>1. i <= Len(r) - 1 /\ i \in 1 .. Len(r) - 1
        BY <2>1, <2>4, <1>1
    <3> QED BY <2>2, <2>3, <2>4, <3>1, <1>2
  <2>5. CASE ~(i + 1 <= Len(r))
    <3>1. ~(i <= Len(r) - 1) /\ (i + 1) - Len(r) = i - (Len(r) - 1)
        BY <2>1, <2>5, <1>1
    <3> QED BY <2>2, <2>3, <2>5, <3>1
  <2> QED BY <2>4, <2>5
<1>9. s = t
    BY <1>4, <1>6, <1>7, <1>8, SeqEqual
<1> QED BY <1>9 DEF s, t, w

\* The next frame is given: it is the first of those that wait.
LEMMA GiveReplayedKeeps ==
    ASSUME SubscriberIsFed, GiveReplayed PROVE SubscriberIsFed'
<1>1. CASE subscriber' = NoSubscriber
    BY <1>1, NobodyIsFed
<1>2. CASE subscriber' # NoSubscriber
  <2> DEFINE g == subscriber.got
             r == subscriber.replay
             q == subscriber.pending
             w == r \o q
             r2 == IF r = <<>> THEN r ELSE Tail(r)
             q2 == IF r = <<>> THEN Tail(q) ELSE q
             more == Append(g, w[1])
  <2>1. /\ g \in Seq(Nat) /\ r \in Seq(Nat) /\ q \in Seq(Nat)
        /\ subscriber.replaying /\ subscriber.on
      BY DEF SubscriberIsFed, GiveReplayed, NoSubscriber
  <2>2. /\ w # <<>> /\ offsets' = offsets
        /\ subscriber' = [subscriber EXCEPT !.got = more, !.replay = r2, !.pending = q2]
      BY <1>2 DEF GiveReplayed
  <2> HIDE DEF g, r, q
  <2>3. w \in Seq(Nat) /\ w[1] = Head(w)
      BY <2>1, <2>2, ConcatProperties
  <2>4. r2 \in Seq(Nat) /\ q2 \in Seq(Nat) /\ r2 \o q2 = Tail(w)
    <3>1. CASE r = <<>>
      <4>1. w = q
          BY <2>1, <3>1, ConcatEmptySeq
      <4>2. Tail(q) \in Seq(Nat)
          BY <2>1, <2>2, <4>1, HeadTailProperties
      <4>3. <<>> \o Tail(q) = Tail(q)
          BY <4>2, ConcatEmptySeq
      <4> QED BY <2>1, <3>1, <4>1, <4>2, <4>3
    <3>2. CASE r # <<>>
      <4>1. Tail(r) \in Seq(Nat)
          BY <2>1, <3>2, HeadTailProperties
      <4>2. Tail(r) \o q = Tail(r \o q)
          BY <2>1, <3>2, TailOfConcat
      <4> QED BY <2>1, <3>2, <4>1, <4>2
    <3> QED BY <3>1, <3>2
  <2>5. more \in Seq(Nat) /\ more \o Tail(w) = g \o w
    <3> HIDE DEF w
    <3>1. Append(g, Head(w)) \o Tail(w) = g \o w
        BY <2>1, <2>2, <2>3, MoveHead
    <3>2. Head(w) \in Nat
        BY <2>2, <2>3, HeadTailProperties
    <3> QED BY <2>1, <2>3, <3>1, <3>2, AppendProperties
  <2> HIDE DEF w, r2, q2, more
  <2>6. /\ subscriber' \in [on : BOOLEAN, base : Nat, replaying : BOOLEAN,
                           replay : Seq(Nat), pending : Seq(Nat), got : Seq(Nat)]
        /\ subscriber'.on /\ subscriber'.replaying /\ subscriber'.base = subscriber.base
        /\ subscriber'.got = more /\ subscriber'.replay = r2 /\ subscriber'.pending = q2
      BY <2>1, <2>2, <2>4, <2>5 DEF SubscriberIsFed
  <2>7. more \o (r2 \o q2) = g \o (r \o q)
      BY <2>4, <2>5 DEF w
  <2> QED BY <2>1, <2>2, <2>6, <2>7 DEF SubscriberIsFed, g, r, q
<1> QED BY <1>1, <1>2

\* The replay ends: the subscriber was given all there is.
LEMMA EndReplayKeeps ==
    ASSUME SubscriberIsFed, EndReplay PROVE SubscriberIsFed'
<1>1. /\ subscriber.on /\ subscriber.replay = <<>> /\ subscriber.pending = <<>>
      /\ offsets' = offsets /\ subscriber' = [subscriber EXCEPT !.replaying = FALSE]
    BY DEF SubscriberIsFed, EndReplay, NoSubscriber
<1>2. /\ subscriber' \in [on : BOOLEAN, base : Nat, replaying : BOOLEAN,
                         replay : Seq(Nat), pending : Seq(Nat), got : Seq(Nat)]
      /\ subscriber'.on /\ ~subscriber'.replaying /\ subscriber'.base = subscriber.base
      /\ subscriber'.got = subscriber.got /\ subscriber'.replay = subscriber.replay
      /\ subscriber'.pending = subscriber.pending
    BY <1>1 DEF SubscriberIsFed
<1> QED BY <1>1, <1>2 DEF SubscriberIsFed

\* Every step of the session preserves the invariant of its journal and subscriber.
LEMMA NextSInv == SInv /\ [Next]_vars => SInv'
<1> SUFFICES ASSUME SInv, [Next]_vars PROVE SInv'
    OBVIOUS
<1>1. Len(offsets) \in Nat
    BY DEF SInv, JournalIsChain, JournalHolds
<1>2. ASSUME UNCHANGED sessionVars PROVE SInv'
    BY <1>2 DEF SInv, sessionVars, JournalIsChain, SubscriberIsFed
<1>3. ASSUME UNCHANGED <<offsets, journal>> PROVE JournalIsChain'
    BY <1>3 DEF SInv, JournalIsChain
<1>4. ASSUME NEW bytes \in 0 .. 1, Publish(bytes), subscriber' = Given(Len(offsets) + 1)
      PROVE  SInv'
    BY <1>1, <1>4, PublishKeeps, GivenKeeps DEF SInv
<1>5. ASSUME NEW bytes \in 0 .. 1, Publish(bytes), subscriber' = NoSubscriber
      PROVE  SInv'
    BY <1>5, PublishKeeps, NobodyIsFed DEF SInv
<1>6. ASSUME UNCHANGED <<offsets, journal>>, subscriber' = NoSubscriber PROVE SInv'
    BY <1>3, <1>6, NobodyIsFed DEF SInv
<1>7. ASSUME NEW bytes \in 0 .. 1, CommitEvent(bytes) PROVE SInv'
    BY <1>4, <1>5, <1>7 DEF CommitEvent
<1>8. ASSUME NEW id \in Identity, InputTakesEffect(id) PROVE SInv'
    BY <1>2, <1>4, <1>8 DEF InputTakesEffect
<1>9. ASSUME NEW id \in Identity, InputFails(id) PROVE SInv'
    BY <1>5, <1>6, <1>9 DEF InputFails
<1>10. ASSUME NEW id \in Identity, InputIsAnswered(id) PROVE SInv'
    BY <1>2, <1>10 DEF InputIsAnswered
<1>11. CASE Exits
    BY <1>2, <1>11 DEF Exits, sessionVars
<1>12. CASE Ends
    BY <1>5, <1>6, <1>12 DEF Ends
<1>13. CASE Follow
    BY <1>3, <1>13, FollowKeeps DEF SInv, Follow
<1>14. CASE Reads
  <2>1. JournalIsChain'
      BY <1>14, MaintainKeeps DEF SInv, Reads, JournalIsChain
  <2>2. SubscriberIsFed'
      BY <1>14 DEF SInv, Reads, SubscriberIsFed
  <2> QED BY <2>1, <2>2 DEF SInv
<1>15. ASSUME NEW cursor \in Cursor, Subscribe(cursor) PROVE SInv'
    BY <1>15, SubscribeKeeps DEF SInv
<1>16. CASE GiveReplayed
    BY <1>3, <1>16, GiveReplayedKeeps DEF SInv, GiveReplayed
<1>17. CASE EndReplay
    BY <1>3, <1>17, EndReplayKeeps DEF SInv, EndReplay
<1>18. CASE Unsubscribe
    BY <1>6, <1>18 DEF Unsubscribe
<1>19. CASE UNCHANGED vars
    BY <1>2, <1>19 DEF vars
<1> QED
    BY <1>7, <1>8, <1>9, <1>10, <1>11, <1>12, <1>13, <1>14, <1>15, <1>16, <1>17, <1>18,
       <1>19 DEF Next

\* The session begins with an empty journal and no subscriber.
LEMMA InitSInv == Init => SInv
<1> SUFFICES ASSUME Init PROVE SInv
    OBVIOUS
<1>1. /\ offsets = <<>> /\ Len(offsets) = 0 /\ offsets \in Seq(Nat)
      /\ journal.segments = <<>> /\ journal.evicted = [seq |-> 0, offset |-> 0]
      /\ Len(<<>>) = 0 /\ <<>> \in Seq(JournalSegment)
    BY DEF Init
<1>2. Chain(offsets, <<>>, 0, 0)
  <2> DEFINE cuts == [i \in 0 .. 0 |-> 0]
  <2>1. cuts \in [0 .. 0 -> 0 .. 0] /\ cuts[0] = 0
      OBVIOUS
  <2> HIDE DEF cuts
  <2> QED BY <1>1, <2>1 DEF Chain, IsCut
<1>3. JournalIsChain
    BY <1>1, <1>2 DEF JournalIsChain, JournalHolds, OffsetOf
<1>4. NoSubscriber \in [on : BOOLEAN, base : Nat, replaying : BOOLEAN,
                        replay : Seq(Nat), pending : Seq(Nat), got : Seq(Nat)]
    BY DEF NoSubscriber
<1>5. SubscriberIsFed
    BY <1>4 DEF Init, SubscriberIsFed, NoSubscriber
<1> QED BY <1>3, <1>5 DEF SInv

\* However appends, the clock and the budget cut and prune the journal, a replay is the
\* events between its cursors or a gap (#replayRange, #offsetAfter, #prune, append).
THEOREM ReplaysAreExact == Spec => []ReplayIsExact
<1>1. SInv => ReplayIsExact
    BY ChainReplaysExactly DEF SInv
<1> QED BY <1>1, InitSInv, NextSInv, PTL DEF Spec

\* A subscriber is given every event after its cursor once and in order, however events
\* are published while it is still being given the replay (subscribe, #publish).
THEOREM SubscribersMissNothing == Spec => []SubscriberMissesNothing
<1>1. ASSUME SInv PROVE SubscriberMissesNothing
  <2> SUFFICES ASSUME subscriber.on
               PROVE  /\ \A i \in DOMAIN subscriber.got :
                            subscriber.got[i] = subscriber.base + i
                      /\ ~subscriber.replaying =>
                            subscriber.base + Len(subscriber.got) = Len(offsets)
      BY DEF SubscriberMissesNothing
  <2> DEFINE base == subscriber.base
             l == Len(offsets)
             g == subscriber.got
             w == subscriber.replay \o subscriber.pending
  <2>1. /\ g \in Seq(Nat) /\ subscriber.replay \in Seq(Nat)
        /\ subscriber.pending \in Seq(Nat) /\ base \in Nat /\ l \in Nat /\ base <= l
        /\ g \o w = EventsAfter(base, l)
      BY <1>1, SMTT(30) DEF SInv, SubscriberIsFed, JournalIsChain, JournalHolds
  <2>2. w \in Seq(Nat)
      BY <2>1, ConcatProperties
  <2>3. ~subscriber.replaying => w = <<>>
    <3>1. <<>> \o <<>> = <<>>
        OBVIOUS
    <3> QED BY <1>1, <3>1 DEF SInv, SubscriberIsFed
  <2> HIDE DEF w, g, base, l
  <2>4. /\ Len(g) \in Nat /\ Len(w) \in Nat /\ DOMAIN g = 1 .. Len(g)
        /\ \A i \in 1 .. Len(g) + Len(w) :
              (g \o w)[i] = IF i <= Len(g) THEN g[i] ELSE w[i - Len(g)]
        /\ Len(g \o w) = Len(g) + Len(w)
    <3>1. DOMAIN g = 1 .. Len(g) /\ Len(g) \in Nat /\ Len(w) \in Nat
        BY <2>1, <2>2, LenProperties
    <3> QED BY <2>1, <2>2, <3>1, ConcatProperties
  <2>5. Len(g) + Len(w) = l - base
      BY <2>1, <2>4, EventsAfterIs
  <2>6. ASSUME NEW i \in DOMAIN g PROVE g[i] = base + i
    <3>1. i \in 1 .. Len(g) + Len(w) /\ i <= Len(g) /\ i \in 1 .. l - base
        BY <2>4, <2>5
    <3>2. (g \o w)[i] = g[i]
        BY <3>1, <2>4
    <3>3. EventsAfter(base, l)[i] = base + i
        BY <3>1, <2>1, EventsAfterIs
    <3> QED BY <3>2, <3>3, <2>1
  <2>7. ASSUME ~subscriber.replaying PROVE base + Len(g) = l
    <3>1. Len(w) = 0
        BY <2>3, <2>7
    <3>2. Len(g) \in Int /\ l \in Int /\ base \in Int
        BY <2>1, <2>4
    <3> QED BY <3>1, <3>2, <2>5
  <2> QED BY <2>6, <2>7 DEF g, base, l
<1> QED BY <1>1, InitSInv, NextSInv, PTL DEF Spec
=============================================================================

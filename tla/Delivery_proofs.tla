-------------------------- MODULE Delivery_proofs ---------------------------
(*****************************************************************************)
(* What holds of delivery between the host, the relay and the browsers,      *)
(* whatever fails and however many clients attach, for every bound of the    *)
(* model.                                                                    *)
(*                                                                           *)
(* Types is inductive, with two facts no variable's type says: a recovery    *)
(* that has come to its commit has a commit, and a client of the host        *)
(* session has a generation.  The stream invariant says of both ends what    *)
(* StreamIsContiguous says of the current connection: the frames a link      *)
(* carries are the events from what the relay has taken to what the host     *)
(* has sent.  The pause invariant follows the recovery the pause belongs to  *)
(* through every way it ends.  The data invariant relates a data socket to   *)
(* the relay's head: what it was sent, or the reset that is due; the action  *)
(* property is proved of the same steps.                                     *)
(*****************************************************************************)
EXTENDS Delivery, SequenceTheorems, TLAPS

-----------------------------------------------------------------------------
(* Types *)

\* A recovery knows the commit its marker speaks of before it flushes.
ActiveHasCommit ==
    active.phase \in {"flushing", "queued", "uncertain", "pinned"} => active.commit \in Seqs
HostTypes == HostTypeOK /\ ActiveHasCommit /\ LinkTypeOK

LEMMA Bounds ==
    /\ MaxHead \in Nat /\ MaxGen \in Nat \ {0} /\ NoClient \notin Clients /\ DataBatch \in BOOLEAN
BY LinkAssumption DEF LinkAssumption

LEMMA ClosePairTypes ==
    ASSUME HostTypes, NEW reason, ClosePair(reason),
           reason \in {"relay sent Host traffic before host-ready ACK",
                  "canonical publisher queue exceeded", "delivery marker outcome is uncertain",
                  "canonical publisher cannot reach the requested commit",
                  "snapshot preparation failed", "unexpected host-ready ACK",
                  "relay socket disconnected"},
           head' \in Seqs, tail' \in Seqs, cache' \in MaybeSeqs
    PROVE  HostTypes'
<1>1. toRelay \in Seq(RelayFrame) /\ credit \in {"free", "sent", "acked"} /\ sent \in Seqs
    BY DEF HostTypes, HostTypeOK, LinkTypeOK
<1>2. <<>> \in Seq(RelayFrame) /\ <<>> \in Seq(HostFrame)
    BY EmptySeq
<1>3. LinkTypeOK'
    BY <1>1, <1>2 DEF ClosePair, LinkTypeOK
<1>4. ActiveHasCommit'
    BY DEF ClosePair, ActiveHasCommit, NoActive
<1>5. HostTypeOK'
    BY <1>1, <1>2, <1>4 DEF ClosePair, HostTypeOK
<1> QED BY <1>3, <1>4, <1>5 DEF HostTypes

LEMMA ActiveFacts ==
    ASSUME HostTypes
    PROVE  \/ active \in Active /\ active # NoActive
           \/ active = NoActive /\ active.phase = "none" /\ active.c = NoClient
<1>1. active \in Active \cup {NoActive}
    BY DEF HostTypes, HostTypeOK
<1>2. ASSUME active \in Active PROVE active.c \in Clients
    BY <1>2 DEF Active
<1>3. NoActive.c = NoClient /\ NoActive.phase = "none"
    BY DEF NoActive
<1> QED BY <1>1, <1>2, <1>3, Bounds

LEMMA SeqsUp == ASSUME NEW m \in MaybeSeqs, NEW n \in Seqs, m < n PROVE m + 1 \in Seqs /\ m + 1 <= n
BY Bounds DEF Seqs, MaybeSeqs, NoSeq

LEMMA RequeuedKeeps ==
    ASSUME NEW r, NEW pending PROVE Requeued(r, pending) \subseteq pending \cup {r}
BY DEF Requeued

Phases == PreMarker \cup {"uncertain", "pinned"}

LEMMA ActiveUpdates ==
    ASSUME NEW a \in Active
    PROVE  /\ [a EXCEPT !.aborted = TRUE] \in Active
           /\ [a EXCEPT !.aborted = TRUE].phase = a.phase
           /\ [a EXCEPT !.aborted = TRUE].commit = a.commit
           /\ \A p \in Phases : /\ [a EXCEPT !.phase = p] \in Active
                                /\ [a EXCEPT !.phase = p].commit = a.commit
           /\ \A n \in MaybeSeqs : /\ [a EXCEPT !.next = n] \in Active
                                   /\ [a EXCEPT !.next = n].commit = a.commit
           /\ [a EXCEPT !.phase = "pinned", !.next = IF a.mode = "warm" THEN a.base ELSE a.cut] \in Active
           /\ [a EXCEPT !.phase = "pinned",
                        !.next = IF a.mode = "warm" THEN a.base ELSE a.cut].commit = a.commit
           /\ \A n \in Seqs : [a EXCEPT !.phase = "flushing", !.commit = n] \in Active
           /\ [c |-> a.c, gen |-> a.gen, base |-> a.base] \in Request
           /\ <<a.c, a.gen>> \in Clients \X Gens
<1>1. /\ [a EXCEPT !.aborted = TRUE] \in Active
      /\ [a EXCEPT !.aborted = TRUE].phase = a.phase
      /\ [a EXCEPT !.aborted = TRUE].commit = a.commit
    BY DEF Active
<1>2. ASSUME NEW p \in Phases
      PROVE  [a EXCEPT !.phase = p] \in Active /\ [a EXCEPT !.phase = p].commit = a.commit
    BY DEF Active, Phases
<1>3. ASSUME NEW n \in MaybeSeqs
      PROVE  [a EXCEPT !.next = n] \in Active /\ [a EXCEPT !.next = n].commit = a.commit
    BY DEF Active
<1>4. ASSUME NEW n, n = IF a.mode = "warm" THEN a.base ELSE a.cut
      PROVE  /\ [a EXCEPT !.phase = "pinned", !.next = n] \in Active
             /\ [a EXCEPT !.phase = "pinned", !.next = n].commit = a.commit
    <2>1. n \in MaybeSeqs
        BY <1>4 DEF Active, MaybeSeqs
    <2> QED BY <2>1 DEF Active, Phases
<1>5. ASSUME NEW n \in Seqs PROVE [a EXCEPT !.phase = "flushing", !.commit = n] \in Active
    BY DEF Active, Phases, PreMarker, MaybeSeqs
<1>6. /\ [c |-> a.c, gen |-> a.gen, base |-> a.base] \in Request
      /\ <<a.c, a.gen>> \in Clients \X Gens
    BY DEF Active, Request
<1> QED BY <1>1, <1>2, <1>3, <1>4, <1>5, <1>6, Zenon

LEMMA EmitTypes ==
    ASSUME HostTypes, NEW frames \in Seq(RelayFrame), Emit(frames)
    PROVE  toRelay' \in Seq(RelayFrame) /\ outbox' \in Seq(RelayFrame)
BY ConcatProperties DEF HostTypes, HostTypeOK, LinkTypeOK, Emit

LEMMA SendBatchTypes ==
    ASSUME HostTypes, NEW n \in 1 .. Len(outbox), SendBatch(n)
    PROVE  /\ toRelay' \in Seq(RelayFrame) /\ outbox' \in Seq(RelayFrame)
           /\ credit' = "sent"
           /\ active' \in Active \cup {NoActive}
           /\ ActiveHasCommit'
<1>1. outbox \in Seq(RelayFrame) /\ toRelay \in Seq(RelayFrame)
    BY DEF HostTypes, HostTypeOK, LinkTypeOK
<1>2. Len(outbox) \in Nat
    BY <1>1, LenProperties
<1>3. /\ SubSeq(outbox, 1, n) \in Seq(RelayFrame)
      /\ SubSeq(outbox, n + 1, Len(outbox)) \in Seq(RelayFrame)
    BY <1>1, <1>2, SubSeqProperties
<1>4. /\ toRelay' = toRelay \o SubSeq(outbox, 1, n)
      /\ outbox' = SubSeq(outbox, n + 1, Len(outbox))
      /\ credit' = "sent"
      /\ \/ active' = active
         \/ active.phase = "queued" /\ active' = [active EXCEPT !.phase = "uncertain"]
    BY DEF SendBatch
<1>5. CASE active' = active
    BY <1>1, <1>3, <1>4, <1>5, ConcatProperties DEF HostTypes, HostTypeOK, ActiveHasCommit
<1>6. CASE active.phase = "queued" /\ active' = [active EXCEPT !.phase = "uncertain"]
    <2>1. active \in Active /\ active.commit \in Seqs
        BY <1>6, ActiveFacts DEF HostTypes, ActiveHasCommit
    <2>2. active' \in Active /\ active'.commit = active.commit
        BY <1>6, <2>1, ActiveUpdates DEF Phases
    <2> QED BY <1>1, <1>3, <1>4, <2>1, <2>2, ConcatProperties DEF ActiveHasCommit
<1> QED BY <1>4, <1>5, <1>6

LEMMA FlushTypes == ASSUME HostTypes, FlushDataBatch \/ ReceiveDataAck PROVE HostTypes'
<1>1. CASE \E n \in 1 .. Len(outbox) : SendBatch(n)
    BY <1>1, SendBatchTypes DEF HostTypes, HostTypeOK, LinkTypeOK, FlushDataBatch, ReceiveDataAck
<1>2. CASE credit' = "free" /\ UNCHANGED <<toRelay, outbox, active>>
    BY <1>2 DEF HostTypes, HostTypeOK, LinkTypeOK, ActiveHasCommit, FlushDataBatch, ReceiveDataAck
<1> QED BY <1>1, <1>2 DEF FlushDataBatch, ReceiveDataAck

LEMMA EventIsFrame == ASSUME NEW n \in Seqs PROVE <<[kind |-> "event", seq |-> n]>> \in Seq(RelayFrame)
<1>1. [kind |-> "event", seq |-> n] \in RelayFrame
    BY DEF RelayFrame
<1> QED BY <1>1

LEMMA PumpTypes == ASSUME HostTypes, Pump PROVE HostTypes'
<1>1. sent \in Seqs /\ head \in Seqs /\ sent < head
   BY DEF HostTypes, HostTypeOK, Pump
<1>2. sent + 1 \in Seqs
   BY <1>1, SeqsUp DEF MaybeSeqs
<1>3. <<[kind |-> "event", seq |-> sent + 1]>> \in Seq(RelayFrame)
   BY <1>2, EventIsFrame
<1>4. toRelay' \in Seq(RelayFrame) /\ outbox' \in Seq(RelayFrame)
   BY <1>3, EmitTypes DEF Pump
<1> QED BY <1>2, <1>4 DEF HostTypes, HostTypeOK, LinkTypeOK, ActiveHasCommit, Pump

LEMMA AbortTypes ==
    ASSUME HostTypes, active.phase \in PreMarker, AbortForPressure
    PROVE  /\ pend' \subseteq Request /\ preps' \subseteq Preparation
           /\ cold' \subseteq Clients \X Gens
           /\ active' \in Active \cup {NoActive} /\ ActiveHasCommit'
           /\ paused' = FALSE
<1>1. active \in Active
    BY ActiveFacts DEF PreMarker
<1>2. ActiveRequest \in Request /\ Key(active) \in Clients \X Gens
    BY <1>1, ActiveUpdates DEF ActiveRequest, Key
<1>3. active' = NoActive \/ active' = [active EXCEPT !.aborted = TRUE]
    BY DEF AbortForPressure
<1>4. active' \in Active \cup {NoActive} /\ ActiveHasCommit'
    <2>1. CASE active' = NoActive
        BY <2>1 DEF ActiveHasCommit, NoActive
    <2>2. CASE active' = [active EXCEPT !.aborted = TRUE]
        BY <1>1, <2>2, ActiveUpdates DEF ActiveHasCommit, HostTypes
    <2> QED BY <1>3, <2>1, <2>2
<1>5. pend \subseteq Request /\ preps \subseteq Preparation /\ cold \subseteq Clients \X Gens
    BY DEF HostTypes, HostTypeOK
<1>6. pend' \subseteq Request
    BY <1>2, <1>5, RequeuedKeeps DEF AbortForPressure
<1> QED
    BY <1>2, <1>4, <1>5, <1>6 DEF AbortForPressure, DropPreparation

LEMMA TerminalOutputTypes == ASSUME HostTypes, TerminalOutput PROVE HostTypes'
<1>1. head + 1 \in Seqs
   <2>1. head \in Seqs /\ head < MaxHead
      BY DEF HostTypes, HostTypeOK, TerminalOutput
   <2> QED BY <2>1, Bounds DEF Seqs
<1>2. CASE UNCHANGED <<link, sent, paused, pend, cold, pass, active, preps, build,
                             outbox, fault, toRelay, toHost, credit>>
   BY <1>1, <1>2, ZenonT(60) DEF HostTypes, HostTypeOK, LinkTypeOK, ActiveHasCommit, TerminalOutput
<1>3. CASE active.phase \in PreMarker /\ AbortForPressure /\ UNCHANGED <<link, sent, pass, build, outbox, fault, toRelay, toHost, credit>>
   BY <1>1, <1>3, AbortTypes DEF HostTypes, HostTypeOK, LinkTypeOK, TerminalOutput
<1>4. CASE ClosePair("canonical publisher queue exceeded")
   BY <1>1, <1>4, ClosePairTypes DEF HostTypes, HostTypeOK, TerminalOutput
<1> QED BY <1>2, <1>3, <1>4 DEF TerminalOutput

LEMMA JournalTypes == ASSUME HostTypes, EvictJournal \/ ExpireCheckpoint PROVE HostTypes'
<1>1. ASSUME NEW n \in tail + 1 .. head PROVE n \in Seqs
    <2>1. head \in Seqs /\ tail \in Seqs
       BY DEF HostTypes, HostTypeOK
    <2> QED BY <2>1, Bounds DEF Seqs
<1> QED BY <1>1, ZenonT(60) DEF HostTypes, HostTypeOK, LinkTypeOK, ActiveHasCommit, EvictJournal, ExpireCheckpoint, MaybeSeqs

LEMMA PrepareTypes == ASSUME HostTypes, Prepare PROVE HostTypes'
<1>1. [kind |-> "host-ready", seq |-> head] \in RelayFrame
    BY DEF HostTypes, HostTypeOK, RelayFrame
<1>2. <<[kind |-> "host-ready", seq |-> head]>> \in Seq(RelayFrame) /\ <<>> \in Seq(HostFrame)
    BY <1>1
<1> QED BY <1>2 DEF HostTypes, HostTypeOK, LinkTypeOK, ActiveHasCommit, Prepare

LEMMA SocketClosesTypes == ASSUME HostTypes, SocketCloses \/ RefuseEarlyTraffic \/ BarrierTimeout PROVE HostTypes'
BY ClosePairTypes DEF HostTypes, HostTypeOK, SocketCloses, RefuseEarlyTraffic, BarrierTimeout

LEMMA ReceivesHead ==
    ASSUME HostTypes, toHost # <<>>
    PROVE  Head(toHost) \in HostFrame /\ Tail(toHost) \in Seq(HostFrame)
BY HeadTailProperties DEF HostTypes, LinkTypeOK

LEMMA ReadyAckTypes == ASSUME HostTypes, HandleReadyAck PROVE HostTypes'
<1>1. Tail(toHost) \in Seq(HostFrame)
    BY ReceivesHead DEF HandleReadyAck, Receives
<1>2. CASE ClosePair("unexpected host-ready ACK")
    BY <1>2, ClosePairTypes DEF HostTypes, HostTypeOK, HandleReadyAck
<1>3. CASE ~ClosePair("unexpected host-ready ACK")
    BY <1>1, <1>3 DEF HostTypes, HostTypeOK, LinkTypeOK, ActiveHasCommit, HandleReadyAck
<1> QED BY <1>2, <1>3

LEMMA AbortActiveTypes ==
    ASSUME HostTypes, AbortActive
    PROVE  active' \in Active \cup {NoActive} /\ ActiveHasCommit' /\ paused' \in BOOLEAN
<1>1. active \in Active /\ ActiveHasCommit /\ paused \in BOOLEAN
    BY ActiveFacts DEF AbortActive, HostTypes, HostTypeOK
<1>2. CASE active' = NoActive /\ paused' = FALSE
    BY <1>2 DEF ActiveHasCommit, NoActive
<1>3. CASE active' = [active EXCEPT !.aborted = TRUE] /\ UNCHANGED paused
    BY <1>1, <1>3, ActiveUpdates DEF ActiveHasCommit
<1> QED BY <1>2, <1>3 DEF AbortActive

LEMMA ForgetTypes ==
    ASSUME HostTypes, NEW c \in Clients, NEW g, Forget(c, g)
    PROVE  /\ cold' \subseteq Clients \X Gens /\ preps' \subseteq Preparation
           /\ build' \in Build \cup {NoBuild}
<1>1. cold \subseteq Clients \X Gens /\ preps \subseteq Preparation /\ build \in Build \cup {NoBuild}
    BY DEF HostTypes, HostTypeOK
<1>2. build' = build \/ build' = [build EXCEPT !.current = FALSE]
    BY DEF Forget
<1>3. ASSUME build \in Build PROVE [build EXCEPT !.current = FALSE] \in Build
    BY <1>3 DEF Build
<1>4. build = NoBuild => build' = build
    BY Bounds DEF Forget, NoBuild
<1> QED BY <1>1, <1>2, <1>3, <1>4 DEF Forget

LEMMA AttachTypes == ASSUME HostTypes, EnqueueAttach PROVE HostTypes'
<1>1. Head(toHost) \in HostFrame /\ Tail(toHost) \in Seq(HostFrame) /\ Head(toHost).kind = "attach-request"
    BY ReceivesHead DEF EnqueueAttach, Receives
<1>2. Head(toHost).req \in Request /\ Head(toHost).req.c \in Clients
    BY <1>1 DEF HostFrame, Request
<1>3. CASE ClosePair("delivery marker outcome is uncertain")
    BY <1>3, ClosePairTypes DEF HostTypes, HostTypeOK, EnqueueAttach
<1>4. CASE ~ClosePair("delivery marker outcome is uncertain")
    <2> DEFINE r == Head(toHost).req
    <2>1. \/ UNCHANGED <<pend, cold, preps, build>>
          \/ Forget(r.c, r.gen - 1) /\ pend' = {p \in pend : p.c # r.c} \cup {r}
        BY <1>4 DEF EnqueueAttach
    <2>2. AbortActive \/ UNCHANGED <<active, paused>>
        BY <1>4 DEF EnqueueAttach
    <2>3. /\ toHost' = Tail(toHost)
          /\ UNCHANGED <<link, sent, pass, outbox, fault, toRelay, credit, head, tail, cache>>
        BY <1>4 DEF EnqueueAttach
    <2>4. /\ cold' \subseteq Clients \X Gens /\ preps' \subseteq Preparation
          /\ build' \in Build \cup {NoBuild} /\ pend' \subseteq Request
        BY <1>2, <2>1, ForgetTypes DEF HostTypes, HostTypeOK
    <2>5. active' \in Active \cup {NoActive} /\ ActiveHasCommit' /\ paused' \in BOOLEAN
        BY <2>2, AbortActiveTypes DEF HostTypes, HostTypeOK, ActiveHasCommit
    <2> QED BY <1>1, <2>3, <2>4, <2>5 DEF HostTypes, HostTypeOK, LinkTypeOK
<1> QED BY <1>3, <1>4

LEMMA DeliveryResetTypes == ASSUME HostTypes, HandleDeliveryReset PROVE HostTypes'
<1>1. /\ Head(toHost) \in HostFrame /\ Tail(toHost) \in Seq(HostFrame)
      /\ Head(toHost).kind = "delivery-reset"
    BY ReceivesHead DEF HandleDeliveryReset, Receives
<1>2. Head(toHost).c \in Clients
    BY <1>1 DEF HostFrame
<1>3. CASE ClosePair("delivery marker outcome is uncertain")
    BY <1>3, ClosePairTypes DEF HostTypes, HostTypeOK, HandleDeliveryReset
<1>4. CASE ~ClosePair("delivery marker outcome is uncertain")
    <2> DEFINE f == Head(toHost)
    <2>1. Forget(f.c, f.gen) /\ pend' = {p \in pend : ~(p.c = f.c /\ p.gen <= f.gen)}
        BY <1>4 DEF HandleDeliveryReset
    <2>2. AbortActive \/ UNCHANGED <<active, paused>>
        BY <1>4 DEF HandleDeliveryReset
    <2>3. /\ toHost' = Tail(toHost)
          /\ UNCHANGED <<link, sent, pass, outbox, fault, toRelay, credit, head, tail, cache>>
        BY <1>4 DEF HandleDeliveryReset
    <2>4. /\ cold' \subseteq Clients \X Gens /\ preps' \subseteq Preparation
          /\ build' \in Build \cup {NoBuild} /\ pend' \subseteq Request
        BY <1>2, <2>1, ForgetTypes DEF HostTypes, HostTypeOK
    <2>5. active' \in Active \cup {NoActive} /\ ActiveHasCommit' /\ paused' \in BOOLEAN
        BY <2>2, AbortActiveTypes DEF HostTypes, HostTypeOK, ActiveHasCommit
    <2> QED BY <1>1, <2>3, <2>4, <2>5 DEF HostTypes, HostTypeOK, LinkTypeOK
<1> QED BY <1>3, <1>4

LEMMA EndTypes ==
    ASSUME HostTypes, active \in Active, Complete \/ Retry
    PROVE  /\ cold' \subseteq Clients \X Gens /\ pend' \subseteq Request
           /\ active' \in Active \cup {NoActive} /\ ActiveHasCommit' /\ paused' \in BOOLEAN
<1>1. ActiveRequest \in Request /\ Key(active) \in Clients \X Gens
    BY ActiveUpdates DEF ActiveRequest, Key
<1>2. active' = NoActive /\ paused' = FALSE
    BY DEF Complete, Retry
<1>3. active' \in Active \cup {NoActive} /\ ActiveHasCommit' /\ paused' \in BOOLEAN
    BY <1>2 DEF ActiveHasCommit, NoActive
<1>4. cold \subseteq Clients \X Gens /\ pend \subseteq Request
    BY DEF HostTypes, HostTypeOK
<1>5. cold' \subseteq Clients \X Gens
    BY <1>1, <1>4 DEF Complete, Retry
<1>6. pend' \subseteq Request
    BY <1>1, <1>4, RequeuedKeeps DEF Complete, Retry
<1> QED BY <1>3, <1>5, <1>6

LEMMA BarrierResultTypes == ASSUME HostTypes, HandleBarrierResult PROVE HostTypes'
<1>1. Tail(toHost) \in Seq(HostFrame)
    BY ReceivesHead DEF HandleBarrierResult, Receives
<1>2. /\ toHost' = Tail(toHost)
      /\ UNCHANGED <<head, tail, link, sent, pass, build, outbox, fault, toRelay, credit>>
    BY DEF HandleBarrierResult
<1>3. CASE UNCHANGED <<paused, pend, cold, active, preps, cache>>
    BY <1>1, <1>2, <1>3, ZenonT(60) DEF HostTypes, HostTypeOK, LinkTypeOK, ActiveHasCommit
<1>4. ASSUME active.phase = "uncertain", NEW status, Outcome(status) PROVE HostTypes'
    <2>1. active \in Active /\ active.commit \in Seqs
        BY <1>4, ActiveFacts DEF HostTypes, ActiveHasCommit
    <2>2. preps \subseteq Preparation /\ cache \in MaybeSeqs
        BY DEF HostTypes, HostTypeOK
    <2>3. preps' \subseteq Preparation /\ cache' \in MaybeSeqs
        BY <1>4, <2>2 DEF Outcome, DropPreparation, MaybeSeqs
    <2>4. /\ cold' \subseteq Clients \X Gens /\ pend' \subseteq Request
          /\ active' \in Active \cup {NoActive} /\ ActiveHasCommit' /\ paused' \in BOOLEAN
        <3>1. CASE Complete \/ Retry
            BY <2>1, <3>1, EndTypes
        <3>2. CASE /\ active' = [active EXCEPT !.phase = "pinned",
                                   !.next = IF active.mode = "warm" THEN active.base ELSE active.cut]
                   /\ UNCHANGED <<paused, pend, cold>>
            <4>1. active' \in Active /\ active'.commit = active.commit
                BY <2>1, <3>2, ActiveUpdates
            <4> QED BY <2>1, <3>2, <4>1 DEF HostTypes, HostTypeOK, ActiveHasCommit
        <3> QED BY <1>4, <3>1, <3>2 DEF Outcome
    <2> QED BY <1>1, <1>2, <2>3, <2>4 DEF HostTypes, HostTypeOK, LinkTypeOK
<1> QED BY <1>3, <1>4 DEF HandleBarrierResult

LEMMA TakePassTypes == ASSUME HostTypes, TakePass PROVE HostTypes'
BY DEF HostTypes, HostTypeOK, LinkTypeOK, ActiveHasCommit, TakePass

LEMMA NewActive ==
    ASSUME NEW r \in Request, NEW cut \in MaybeSeqs, NEW aborted \in BOOLEAN
    PROVE  /\ [NoActive EXCEPT !.c = r.c, !.gen = r.gen, !.base = r.base, !.mode = "snapshot",
                  !.phase = "pausing", !.cut = cut, !.aborted = aborted]
              \in {a \in Active : a.phase = "pausing"}
           /\ [NoActive EXCEPT !.c = r.c, !.gen = r.gen, !.base = r.base, !.mode = "warm",
                  !.phase = "pausing"]
              \in {a \in Active : a.phase = "pausing"}
BY DEF NoActive, Active, Request, MaybeSeqs, PreMarker

LEMMA RecoverColdTypes ==
    ASSUME HostTypes, NEW r \in Request, NEW aborted \in BOOLEAN, RecoverCold(r, aborted)
    PROVE  /\ cold' \subseteq Clients \X Gens /\ pend' \subseteq Request
           /\ preps' \subseteq Preparation /\ build' \in Build \cup {NoBuild}
           /\ active' \in Active \cup {NoActive} /\ ActiveHasCommit' /\ paused' \in BOOLEAN
<1>1. /\ r.c \in Clients /\ r.gen \in Gens /\ r.base \in MaybeSeqs
      /\ Key(r) \in Clients \X Gens
    BY DEF Request, Key
<1>2. /\ cold \subseteq Clients \X Gens /\ pend \subseteq Request /\ head \in Seqs
      /\ preps \subseteq Preparation /\ build \in Build \cup {NoBuild} /\ cache \in MaybeSeqs
    BY DEF HostTypes, HostTypeOK
<1>3. ASSUME NEW p \in Preparation, DeliverPrepared(r, p, aborted)
      PROVE  /\ cold' \subseteq Clients \X Gens /\ pend' \subseteq Request
             /\ preps' \subseteq Preparation /\ build' \in Build \cup {NoBuild}
             /\ active' \in Active \cup {NoActive} /\ ActiveHasCommit' /\ paused' \in BOOLEAN
    <2>1. p.cut \in MaybeSeqs
        BY DEF Preparation, MaybeSeqs
    <2>2. active' \in Active /\ active'.phase = "pausing"
        BY <1>3, <2>1, NewActive, Zenon DEF DeliverPrepared
    <2> QED BY <1>1, <1>2, <1>3, <2>2 DEF DeliverPrepared, ActiveHasCommit
<1>4. CASE \E p \in preps : Key(p) = Key(r) /\ DeliverPrepared(r, p, aborted)
    BY <1>2, <1>3, <1>4
<1>5. CASE cache # NoSeq /\ DeliverPrepared(r, [c |-> r.c, gen |-> r.gen, cut |-> cache], aborted)
    <2>1. [c |-> r.c, gen |-> r.gen, cut |-> cache] \in Preparation
        BY <1>1, <1>2, <1>5 DEF Preparation, MaybeSeqs
    <2> QED BY <1>3, <1>5, <2>1
<1>6. CASE AwaitPreparation(r)
    <2>1. active' = NoActive /\ paused' = FALSE /\ preps' = preps /\ cold' = cold \cup {Key(r)}
        BY <1>6 DEF AwaitPreparation
    <2>2. ActiveHasCommit'
        BY <2>1 DEF ActiveHasCommit, NoActive
    <2>3. [c |-> r.c, gen |-> r.gen, base |-> r.base, cut |-> head, current |-> TRUE] \in Build
        BY <1>1, <1>2 DEF Build
    <2>4. pend' \subseteq Request
        BY <1>2, <1>6, RequeuedKeeps DEF AwaitPreparation
    <2>5. build' \in Build \cup {NoBuild}
        BY <1>2, <1>6, <2>3 DEF AwaitPreparation
    <2> QED BY <1>1, <1>2, <2>1, <2>2, <2>4, <2>5
<1> QED BY <1>4, <1>5, <1>6 DEF RecoverCold

LEMMA StartRecoveryTypes == ASSUME HostTypes, StartRecovery PROVE HostTypes'
<1>1. PICK r \in pass :
          /\ pass' = pass \ {r}
          /\ \/ /\ r.base # NoSeq /\ ~IsCold(r)
                /\ active' = [NoActive EXCEPT !.c = r.c, !.gen = r.gen, !.base = r.base,
                                 !.mode = "warm", !.phase = "pausing"]
                /\ paused' = TRUE
                /\ UNCHANGED <<pend, cold, preps, build>>
             \/ /\ r.base = NoSeq \/ IsCold(r)
                /\ RecoverCold(r, FALSE)
    BY DEF StartRecovery
<1>2. r \in Request /\ pass' \subseteq Request
    BY <1>1 DEF HostTypes, HostTypeOK
<1>3. /\ cold' \subseteq Clients \X Gens /\ pend' \subseteq Request
      /\ preps' \subseteq Preparation /\ build' \in Build \cup {NoBuild}
      /\ active' \in Active \cup {NoActive} /\ ActiveHasCommit' /\ paused' \in BOOLEAN
    <2>1. CASE RecoverCold(r, FALSE)
        BY <1>2, <2>1, RecoverColdTypes
    <2>2. CASE /\ active' = [NoActive EXCEPT !.c = r.c, !.gen = r.gen, !.base = r.base,
                                 !.mode = "warm", !.phase = "pausing"]
               /\ paused' = TRUE
               /\ UNCHANGED <<pend, cold, preps, build>>
        <3>1. r.c \in Clients /\ r.gen \in Gens /\ r.base \in MaybeSeqs /\ NoSeq \in MaybeSeqs
            BY <1>2 DEF Request, MaybeSeqs
        <3>2. active' \in Active /\ active'.phase = "pausing"
            <4>1. FALSE \in BOOLEAN
                OBVIOUS
            <4> QED BY <1>2, <2>2, <3>1, <4>1, NewActive, Zenon
        <3> QED BY <2>2, <3>2 DEF HostTypes, HostTypeOK, ActiveHasCommit
    <2> QED BY <1>1, <2>1, <2>2
<1>4. UNCHANGED <<head, tail, link, sent, cache, outbox, fault, toRelay, toHost, credit>>
    BY DEF StartRecovery
<1> QED BY <1>2, <1>3, <1>4 DEF HostTypes, HostTypeOK, LinkTypeOK

LEMMA FlushingTypes ==
    ASSUME HostTypes, active \in Active, FlushThroughHead
    PROVE  active' \in Active /\ ActiveHasCommit'
<1>1. head \in Seqs /\ active' = [active EXCEPT !.phase = "flushing", !.commit = head]
    BY DEF HostTypes, HostTypeOK, FlushThroughHead
<1>2. active' \in Active /\ active'.commit = head
    BY <1>1, ActiveUpdates, ZenonT(60) DEF Active
<1> QED BY <1>1, <1>2 DEF ActiveHasCommit

LEMMA PlanWarmTypes == ASSUME HostTypes, PlanWarm PROVE HostTypes'
<1>1. active \in Active
    BY ActiveFacts DEF PlanWarm, Pausing
<1>2. ActiveRequest \in Request /\ active.aborted \in BOOLEAN
    BY <1>1, ActiveUpdates DEF Active, ActiveRequest
<1>3. /\ cold' \subseteq Clients \X Gens /\ pend' \subseteq Request
      /\ preps' \subseteq Preparation /\ build' \in Build \cup {NoBuild}
      /\ active' \in Active \cup {NoActive} /\ ActiveHasCommit' /\ paused' \in BOOLEAN
    <2>1. CASE RecoverCold(ActiveRequest, active.aborted)
        BY <1>2, <2>1, RecoverColdTypes
    <2>2. CASE FlushThroughHead /\ UNCHANGED <<paused, pend, cold, preps, build>>
        BY <1>1, <2>2, FlushingTypes DEF HostTypes, HostTypeOK
    <2> QED BY <2>1, <2>2 DEF PlanWarm
<1>4. UNCHANGED <<head, tail, link, sent, pass, cache, outbox, fault, toRelay, toHost, credit>>
    BY DEF PlanWarm
<1> QED BY <1>3, <1>4 DEF HostTypes, HostTypeOK, LinkTypeOK

LEMMA PlanColdTypes == ASSUME HostTypes, PlanCold PROVE HostTypes'
<1>1. active \in Active
    BY ActiveFacts DEF PlanCold, Pausing
<1>2. preps \subseteq Preparation /\ cache \in MaybeSeqs
    BY DEF HostTypes, HostTypeOK
<1>3. preps' \subseteq Preparation /\ cache' \in MaybeSeqs
    BY <1>2 DEF PlanCold, DropPreparation, MaybeSeqs
<1>4. /\ cold' \subseteq Clients \X Gens /\ pend' \subseteq Request
      /\ active' \in Active \cup {NoActive} /\ ActiveHasCommit' /\ paused' \in BOOLEAN
    <2>1. CASE active' = NoActive /\ paused' = FALSE /\ UNCHANGED <<pend, cold>>
        BY <2>1 DEF HostTypes, HostTypeOK, ActiveHasCommit, NoActive
    <2>2. CASE FlushThroughHead /\ UNCHANGED <<paused, pend, cold>>
        BY <1>1, <2>2, FlushingTypes DEF HostTypes, HostTypeOK
    <2>3. CASE Retry
        BY <1>1, <2>3, EndTypes
    <2> QED BY <2>1, <2>2, <2>3 DEF PlanCold
<1>5. UNCHANGED <<head, tail, link, sent, pass, build, outbox, fault, toRelay, toHost, credit>>
    BY DEF PlanCold
<1> QED BY <1>3, <1>4, <1>5 DEF HostTypes, HostTypeOK, LinkTypeOK

LEMMA FlushFrameTypes == ASSUME HostTypes, FlushFrame PROVE HostTypes'
<1>1. sent \in Seqs /\ active.commit \in Seqs /\ sent < active.commit
   BY DEF HostTypes, HostTypeOK, ActiveHasCommit, FlushFrame
<1>2. sent + 1 \in Seqs
   BY <1>1, SeqsUp DEF MaybeSeqs
<1>3. <<[kind |-> "event", seq |-> sent + 1]>> \in Seq(RelayFrame)
   BY <1>2, EventIsFrame
<1>4. toRelay' \in Seq(RelayFrame) /\ outbox' \in Seq(RelayFrame)
   BY <1>3, EmitTypes DEF FlushFrame
<1> QED BY <1>2, <1>4 DEF HostTypes, HostTypeOK, LinkTypeOK, ActiveHasCommit, FlushFrame

LEMMA IdentityTypes ==
    ASSUME HostTypes, active \in Active, active.commit \in Seqs
    PROVE  /\ ActiveIdentity \in Identity
           /\ <<[kind |-> "barrier", id |-> ActiveIdentity]>> \in Seq(RelayFrame)
<1>1. ActiveIdentity \in Identity
    BY DEF ActiveIdentity, Identity, Active
<1>2. [kind |-> "barrier", id |-> ActiveIdentity] \in RelayFrame
    BY <1>1 DEF RelayFrame
<1> QED BY <1>1, <1>2

LEMMA SendBarrierTypes == ASSUME HostTypes, SendBarrier PROVE HostTypes'
<1>1. active \in Active /\ active.commit \in Seqs
    BY ActiveFacts DEF SendBarrier, HostTypes, ActiveHasCommit
<1>2. CASE ClosePair("canonical publisher cannot reach the requested commit")
    BY <1>2, ClosePairTypes DEF HostTypes, HostTypeOK, SendBarrier
<1>3. CASE /\ active' = NoActive /\ paused' = FALSE
           /\ UNCHANGED <<link, sent, pend, cold, pass, preps, build, outbox, fault, toRelay,
                         toHost, credit>>
    <2>1. ActiveHasCommit'
        BY <1>3 DEF ActiveHasCommit, NoActive
    <2> QED BY <1>3, <2>1 DEF HostTypes, HostTypeOK, LinkTypeOK, SendBarrier
<1>4. CASE /\ Emit(<<[kind |-> "barrier", id |-> ActiveIdentity]>>)
           /\ active' = [active EXCEPT !.phase = IF DataBatch THEN "queued" ELSE "uncertain"]
           /\ UNCHANGED <<link, sent, paused, pend, cold, pass, preps, build, fault, toHost, credit>>
    <2>1. toRelay' \in Seq(RelayFrame) /\ outbox' \in Seq(RelayFrame)
        BY <1>1, <1>4, IdentityTypes, EmitTypes
    <2>2. (IF DataBatch THEN "queued" ELSE "uncertain") \in Phases
        BY DEF Phases, PreMarker
    <2>3. active' \in Active /\ active'.commit = active.commit
        BY <1>1, <1>4, <2>2, ActiveUpdates
    <2>4. ActiveHasCommit'
        BY <1>1, <2>3 DEF ActiveHasCommit
    <2>5. UNCHANGED <<head, tail, cache>>
        BY DEF SendBarrier
    <2> QED BY <1>4, <2>1, <2>3, <2>4, <2>5 DEF HostTypes, HostTypeOK, LinkTypeOK
<1> QED BY <1>2, <1>3, <1>4 DEF SendBarrier

LEMMA DirectedTypes ==
    ASSUME HostTypes, active \in Active, NEW n \in Seqs, NEW kind \in {"directed", "commit"}
    PROVE  <<Directed(kind, n)>> \in Seq(RelayFrame)
<1>1. Directed(kind, n) \in RelayFrame
    BY DEF Directed, RelayFrame, Active
<1> QED BY <1>1

LEMMA SendDirectedTypes == ASSUME HostTypes, SendDirected PROVE HostTypes'
<1>1. active \in Active /\ active.commit \in Seqs /\ active.next \in MaybeSeqs
    BY ActiveFacts DEF SendDirected, HostTypes, ActiveHasCommit, Active
<1>2. CASE ClosePair("delivery marker outcome is uncertain")
    BY <1>2, ClosePairTypes DEF HostTypes, HostTypeOK, SendDirected
<1>3. CASE /\ active' = [active EXCEPT !.next = active.next + 1]
           /\ Emit(<<Directed("directed", active.next + 1)>>)
           /\ UNCHANGED <<link, sent, paused, pend, cold, pass, preps, build, fault, toHost, credit>>
    <2>1. active.next + 1 \in Seqs
        BY <1>1, SeqsUp DEF SendDirected
    <2>2. toRelay' \in Seq(RelayFrame) /\ outbox' \in Seq(RelayFrame)
        BY <1>1, <1>3, <2>1, DirectedTypes, EmitTypes
    <2>3. active' \in Active /\ active'.commit = active.commit
        BY <1>1, <1>3, <2>1, ActiveUpdates DEF MaybeSeqs
    <2>4. ActiveHasCommit'
        BY <1>1, <2>3 DEF ActiveHasCommit
    <2>5. UNCHANGED <<head, tail, cache>>
        BY DEF SendDirected
    <2> QED BY <1>3, <2>2, <2>3, <2>4, <2>5 DEF HostTypes, HostTypeOK, LinkTypeOK
<1> QED BY <1>2, <1>3 DEF SendDirected

LEMMA ReplayCommitTypes == ASSUME HostTypes, SendReplayCommit PROVE HostTypes'
<1>1. active \in Active /\ active.commit \in Seqs
    BY ActiveFacts DEF SendReplayCommit, HostTypes, ActiveHasCommit
<1>2. toRelay' \in Seq(RelayFrame) /\ outbox' \in Seq(RelayFrame)
    BY <1>1, DirectedTypes, EmitTypes DEF SendReplayCommit
<1>3. /\ cold' \subseteq Clients \X Gens /\ pend' \subseteq Request
      /\ active' \in Active \cup {NoActive} /\ ActiveHasCommit' /\ paused' \in BOOLEAN
    BY <1>1, EndTypes DEF SendReplayCommit
<1>4. preps' \subseteq Preparation
    BY DEF HostTypes, HostTypeOK, SendReplayCommit, DropPreparation
<1>5. UNCHANGED <<head, tail, link, sent, pass, build, cache, fault, toHost, credit>>
    BY DEF SendReplayCommit
<1> QED BY <1>2, <1>3, <1>4, <1>5 DEF HostTypes, HostTypeOK, LinkTypeOK

LEMMA BuildFacts ==
    ASSUME HostTypes, build # NoBuild
    PROVE  /\ build \in Build /\ build.cut \in Seqs
           /\ BuildRequest \in Request /\ Key(build) \in Clients \X Gens
           /\ [c |-> build.c, gen |-> build.gen, cut |-> build.cut] \in Preparation
<1>1. build \in Build
    BY DEF HostTypes, HostTypeOK
<1> QED BY <1>1 DEF Build, BuildRequest, Request, Key, Preparation

LEMMA BuildSucceedsTypes == ASSUME HostTypes, BuildSucceeds PROVE HostTypes'
<1>1. /\ build.cut \in Seqs /\ BuildRequest \in Request
      /\ [c |-> build.c, gen |-> build.gen, cut |-> build.cut] \in Preparation
    BY BuildFacts DEF BuildSucceeds
<1>2. preps \subseteq Preparation /\ pend \subseteq Request /\ cache \in MaybeSeqs
    BY DEF HostTypes, HostTypeOK
<1>3. preps' \subseteq Preparation /\ pend' \subseteq Request /\ cache' \in MaybeSeqs
    BY <1>1, <1>2, RequeuedKeeps DEF BuildSucceeds, MaybeSeqs
<1> QED BY <1>3 DEF HostTypes, HostTypeOK, LinkTypeOK, ActiveHasCommit, BuildSucceeds

LEMMA BuildFailsTypes == ASSUME HostTypes, BuildFails PROVE HostTypes'
<1>1. Key(build) \in Clients \X Gens /\ BuildRequest \in Request
    BY BuildFacts DEF BuildFails
<1>2. CASE ClosePair("snapshot preparation failed")
    BY <1>2, ClosePairTypes DEF HostTypes, HostTypeOK, BuildFails
<1>3. CASE ~ClosePair("snapshot preparation failed")
    <2>1. cold \subseteq Clients \X Gens /\ pend \subseteq Request
        BY DEF HostTypes, HostTypeOK
    <2>2. cold' \subseteq Clients \X Gens /\ pend' \subseteq Request
        <3>1. \/ UNCHANGED <<pend, cold>>
              \/ pend' = Requeued(BuildRequest, pend) /\ cold' = cold \cup {Key(build)}
            BY <1>3 DEF BuildFails
        <3> QED BY <1>1, <2>1, <3>1, RequeuedKeeps
    <2> QED BY <1>3, <2>2 DEF HostTypes, HostTypeOK, LinkTypeOK, ActiveHasCommit, BuildFails
<1> QED BY <1>2, <1>3

\* Every step of the host keeps its types.
LEMMA HostStepTypes == ASSUME HostTypes, HostNext \/ Prepare \/ BuildSucceeds PROVE HostTypes'
BY PumpTypes, TerminalOutputTypes, JournalTypes, FlushTypes, SocketClosesTypes, ReadyAckTypes,
   AttachTypes, DeliveryResetTypes, BarrierResultTypes, TakePassTypes, StartRecoveryTypes,
   PlanWarmTypes, PlanColdTypes, FlushFrameTypes, SendBarrierTypes, SendDirectedTypes,
   ReplayCommitTypes, BuildSucceedsTypes, BuildFailsTypes, PrepareTypes DEF HostNext

-----------------------------------------------------------------------------
(* The relay *)

\* A browser that is connected, or has a delivery, has a generation.
ClientHasGen == \A c \in Clients : ctl[c] # "none" \/ dat[c] # NoData => gen[c] \in Gens
RelayTypes == RelayTypeOK /\ ClientHasGen /\ LinkTypeOK

LEMMA CatchingUpTypes ==
    ASSUME dat \in [Clients -> Data \cup {NoData}]
    PROVE  /\ CatchingUp(dat) \in [Clients -> Data \cup {NoData}]
           /\ \A c \in Clients : CatchingUp(dat)[c] # NoData => dat[c] # NoData
<1>1. ASSUME NEW d \in Data PROVE [d EXCEPT !.state = "catching"] \in Data
    BY DEF Data
<1>2. NoData.state = "none"
    BY DEF NoData
<1> QED BY <1>1, <1>2 DEF CatchingUp

LEMMA FailTypes ==
    ASSUME RelayTypes, NEW reason, FailCurrentHost(reason),
           reason \in {"host state does not match session",
                  "canonical data sequence gap",
                  "delivery barrier does not match canonical head",
                  "delivery barrier conflicts with active delivery",
                  "delivery barrier conflicts with pinned delivery",
                  "directed replay exceeds pinned commit",
                  "directed replay sequence gap",
                  "host control channel disconnected"}
    PROVE  RelayTypes'
<1>1. dat \in [Clients -> Data \cup {NoData}] /\ resets \subseteq Reset
    BY DEF RelayTypes, RelayTypeOK
<1>2. /\ dat' \in [Clients -> Data \cup {NoData}]
      /\ \A c \in Clients : dat'[c] # NoData => dat[c] # NoData
    BY <1>1, CatchingUpTypes DEF FailCurrentHost
<1>3. resets' \subseteq Reset
    BY <1>1 DEF FailCurrentHost, WithoutHostResets
<1>4. toRelay' \in Seq(RelayFrame)
    BY EmptySeq DEF FailCurrentHost
<1>5. UNCHANGED <<doHead, pairs, gen, ctl, published, toHost, credit>> /\ host' = "none" /\ readying' = FALSE /\ blame' = reason
    BY DEF FailCurrentHost
<1>6. ClientHasGen'
    BY <1>2, <1>5 DEF RelayTypes, ClientHasGen
<1>7. LinkTypeOK'
    BY <1>4, <1>5 DEF RelayTypes, LinkTypeOK
<1>8. RelayTypeOK'
    BY <1>2, <1>3, <1>5 DEF RelayTypes, RelayTypeOK
<1> QED BY <1>6, <1>7, <1>8 DEF RelayTypes

LEMMA ProcessesHead ==
    ASSUME RelayTypes, toRelay # <<>>
    PROVE  /\ Head(toRelay) \in RelayFrame /\ Tail(toRelay) \in Seq(RelayFrame)
BY HeadTailProperties DEF RelayTypes, LinkTypeOK

LEMMA AppendTypes ==
    ASSUME RelayTypes, NEW f \in HostFrame
    PROVE  Append(toHost, f) \in Seq(HostFrame)
BY AppendProperties DEF RelayTypes, LinkTypeOK

LEMMA HostPairedTypes == ASSUME RelayTypes, HostPaired, LinkTypeOK' PROVE RelayTypes'
<1>1. dat \in [Clients -> Data \cup {NoData}] /\ resets \subseteq Reset
    BY DEF RelayTypes, RelayTypeOK
<1>2. /\ dat' \in [Clients -> Data \cup {NoData}]
      /\ \A c \in Clients : dat'[c] # NoData => dat[c] # NoData
    BY <1>1, CatchingUpTypes DEF HostPaired
<1>3. resets' \subseteq Reset
    BY <1>1 DEF HostPaired, WithoutHostResets
<1>4. pairs' \in 0 .. MaxPairs
    <2>1. pairs \in 0 .. MaxPairs /\ pairs < MaxPairs /\ pairs' = pairs + 1 /\ MaxPairs \in Nat
        BY LinkAssumption DEF HostPaired, RelayTypes, RelayTypeOK, LinkAssumption
    <2> QED BY <2>1
<1>5. UNCHANGED <<doHead, gen, ctl, published>> /\ host' = "paired" /\ readying' = FALSE /\ blame' = "none"
    BY DEF HostPaired
<1>6. ClientHasGen'
    BY <1>2, <1>5 DEF RelayTypes, ClientHasGen
<1>8. RelayTypeOK'
    BY <1>2, <1>3, <1>4, <1>5 DEF RelayTypes, RelayTypeOK
<1> QED BY <1>6, <1>8 DEF RelayTypes

LEMMA HostReadyTypes == ASSUME RelayTypes, HostReady PROVE RelayTypes'
<1>1. /\ Head(toRelay) \in RelayFrame /\ Tail(toRelay) \in Seq(RelayFrame)
      /\ Head(toRelay).kind = "host-ready"
    BY ProcessesHead DEF HostReady, Processes
<1>2. Head(toRelay).seq \in Seqs
    BY <1>1 DEF RelayFrame
<1>3. CASE FailCurrentHost("host state does not match session")
    BY <1>3, FailTypes
<1>4. CASE ~FailCurrentHost("host state does not match session")
    <2> DEFINE seq == Head(toRelay).seq
               due == {[c |-> c, gen |-> gen[c], why |-> "host-reconnect"] :
                          c \in {b \in Clients : ctl[b] = "active"}}
    <2>1. /\ doHead' = seq /\ host' = "active" /\ resets' = resets \cup due
          /\ readying' = (due # {})
          /\ toHost' = IF due = {} THEN Append(toHost, ReadyAck(seq)) ELSE toHost
          /\ toRelay' = Tail(toRelay)
          /\ UNCHANGED <<pairs, gen, ctl, dat, published, blame, credit>>
        BY <1>4 DEF HostReady
    <2>2. due \subseteq Reset
        BY DEF RelayTypes, ClientHasGen, Reset, Reasons
    <2>3. ReadyAck(seq) \in HostFrame
        BY <1>2 DEF ReadyAck, HostFrame
    <2>4. toHost' \in Seq(HostFrame)
        BY <2>1, <2>3, AppendTypes DEF RelayTypes, LinkTypeOK
    <2>5. resets' \subseteq Reset
        BY <2>1, <2>2 DEF RelayTypes, RelayTypeOK
    <2> QED BY <1>1, <1>2, <2>1, <2>4, <2>5 DEF RelayTypes, RelayTypeOK, ClientHasGen, LinkTypeOK
<1> QED BY <1>3, <1>4

LEMMA CanonicalEventTypes == ASSUME RelayTypes, CanonicalEvent PROVE RelayTypes'
<1>1. /\ Head(toRelay) \in RelayFrame /\ Tail(toRelay) \in Seq(RelayFrame)
      /\ Head(toRelay).kind = "event"
    BY ProcessesHead DEF CanonicalEvent, Processes
<1>2. Head(toRelay).seq \in Seqs
    BY <1>1 DEF RelayFrame
<1>3. CASE FailCurrentHost("canonical data sequence gap")
    BY <1>3, FailTypes
<1>4. CASE ~FailCurrentHost("canonical data sequence gap")
    <2> DEFINE seq == Head(toRelay).seq
               synced == {c \in Clients : dat[c].state = "synced"}
               gaps == {c \in synced : ~ContinuesCursor(dat[c], seq)}
               slow == {c \in synced \ gaps : ExceedsCredit(dat[c], seq)}
               due(why, S) == {[c |-> c, gen |-> gen[c], why |-> why] : c \in S}
    <2>1. PICK broken \in SUBSET (synced \ (gaps \cup slow)) :
             /\ dat' = [c \in Clients |->
                           IF c \in synced \ (gaps \cup slow \cup broken)
                           THEN [dat[c] EXCEPT !.sent = seq] ELSE dat[c]]
             /\ resets' = ((resets \cup due("journal-gap", gaps)) \cup due("slow-client", slow))
                             \cup due("data-disconnected", broken)
        BY <1>4 DEF CanonicalEvent
    <2>2. /\ doHead' = seq /\ toRelay' = Tail(toRelay)
          /\ UNCHANGED <<host, readying, pairs, gen, ctl, published, blame, toHost, credit>>
        BY <1>4 DEF CanonicalEvent
    <2>3. /\ dat \in [Clients -> Data \cup {NoData}] /\ resets \subseteq Reset
          /\ ClientHasGen
        BY DEF RelayTypes, RelayTypeOK
    <2>4. ASSUME NEW c \in synced PROVE dat[c] \in Data /\ gen[c] \in Gens
        <3>1. dat[c] # NoData
            BY <2>4 DEF NoData
        <3> QED BY <2>3, <3>1 DEF ClientHasGen
    <2>5. ASSUME NEW why \in Reasons, NEW S, S \subseteq synced PROVE due(why, S) \subseteq Reset
        BY <2>4, <2>5 DEF Reset
    <2>6. resets' \subseteq Reset
        <3>1. due("journal-gap", gaps) \subseteq Reset
            BY <2>5 DEF Reasons
        <3>2. due("slow-client", slow) \subseteq Reset
            BY <2>5 DEF Reasons
        <3>3. due("data-disconnected", broken) \subseteq Reset
            BY <2>5 DEF Reasons
        <3> HIDE DEF due
        <3> QED BY <2>1, <2>3, <3>1, <3>2, <3>3
    <2>7. ASSUME NEW d \in Data PROVE [d EXCEPT !.sent = seq] \in Data
        BY <1>2 DEF Data, MaybeSeqs
    <2>8. /\ dat' \in [Clients -> Data \cup {NoData}]
          /\ \A c \in Clients : dat'[c] # NoData => dat[c] # NoData
        <3> DEFINE moved == synced \ (gaps \cup slow \cup broken)
        <3>1. moved \subseteq synced
            OBVIOUS
        <3> HIDE DEF seq, synced, gaps, slow, moved
        <3>2. dat' = [c \in Clients |-> IF c \in moved THEN [dat[c] EXCEPT !.sent = seq] ELSE dat[c]]
            BY <2>1 DEF moved
        <3>3. NoData \notin Data
            BY DEF NoData, Data
        <3>4. ASSUME NEW c \in Clients
              PROVE  /\ dat'[c] \in Data \cup {NoData}
                     /\ dat'[c] # NoData => dat[c] # NoData
            <4>1. CASE c \in moved
                BY <2>4, <2>7, <3>1, <3>2, <3>3, <4>1
            <4>2. CASE c \notin moved
                BY <2>3, <3>2, <4>2
            <4> QED BY <4>1, <4>2
        <3> QED BY <3>2, <3>4
    <2>9. ClientHasGen'
        BY <2>2, <2>3, <2>8 DEF ClientHasGen
    <2> QED BY <1>1, <1>2, <2>2, <2>6, <2>8, <2>9 DEF RelayTypes, RelayTypeOK, LinkTypeOK
<1> QED BY <1>3, <1>4

LEMMA BarrierResultFrame ==
    ASSUME RelayTypes, NEW id \in Identity, NEW status, BarrierResult(id, status),
           status \in {"ready", "stale", "missing-live-seed", "snapshot-missing",
                       "browser-control-send-failed"}
    PROVE  toHost' \in Seq(HostFrame)
<1>1. [kind |-> "result", id |-> id, status |-> status] \in HostFrame
    BY DEF HostFrame
<1> QED BY <1>1, AppendTypes DEF BarrierResult, ToHost, RelayTypes, LinkTypeOK

LEMMA IsolateTypes ==
    ASSUME RelayTypes, NEW c, Isolate(c)
    PROVE  /\ ctl' \in [Clients -> {"none", "awaiting", "active"}]
           /\ dat' \in [Clients -> Data \cup {NoData}]
           /\ \A b \in Clients : /\ ctl'[b] # "none" => ctl[b] # "none"
                                 /\ dat'[b] # NoData => dat[b] # NoData
BY DEF RelayTypes, RelayTypeOK, Isolate

LEMMA HandleBarrierTypes == ASSUME RelayTypes, HandleBarrier PROVE RelayTypes'
<1>1. /\ Head(toRelay) \in RelayFrame /\ Tail(toRelay) \in Seq(RelayFrame)
      /\ Head(toRelay).kind = "barrier"
    BY ProcessesHead DEF HandleBarrier, Processes
<1>2. Head(toRelay).id \in Identity
    BY <1>1 DEF RelayFrame
<1>3. CASE \/ FailCurrentHost("delivery barrier does not match canonical head")
           \/ FailCurrentHost("delivery barrier conflicts with active delivery")
           \/ FailCurrentHost("delivery barrier conflicts with pinned delivery")
    BY <1>3, FailTypes
<1>4. ASSUME NEW status \in Answers(Head(toRelay).id),
             IF status = "ready" THEN PinDelivery(Head(toRelay).id)
             ELSE BarrierResult(Head(toRelay).id, status) /\ UNCHANGED <<ctl, dat>>,
             toRelay' = Tail(toRelay),
             UNCHANGED <<doHead, host, readying, pairs, gen, resets, published, blame, credit>>
      PROVE  RelayTypes'
    <2> DEFINE id == Head(toRelay).id
    <2>1. /\ dat \in [Clients -> Data \cup {NoData}] /\ ClientHasGen
          /\ ctl \in [Clients -> {"none", "awaiting", "active"}]
        BY DEF RelayTypes, RelayTypeOK
    <2>2. status \in {"ready", "stale", "missing-live-seed", "snapshot-missing"}
        BY DEF Answers
    <2>3. toHost' \in Seq(HostFrame)
        BY <1>2, <1>4, <2>2, BarrierResultFrame DEF PinDelivery
    <2>4. CASE status = "ready" /\ dat' = [dat EXCEPT ![id.c] = PinnedData(dat[id.c], id)] /\ UNCHANGED ctl
        <3>1. id.c \in Clients /\ id.commit \in MaybeSeqs /\ id.cut \in MaybeSeqs
            BY <1>2 DEF Identity, MaybeSeqs
        <3>2. dat[id.c].state # "none"
            BY <2>4 DEF Answers, Gone
        <3>3. dat[id.c] \in Data
            BY <2>1, <3>1, <3>2 DEF NoData
        <3>4. PinnedData(dat[id.c], id) \in Data
            BY <3>1, <3>3 DEF PinnedData, Data
        <3>5. NoData \notin Data
            BY DEF NoData, Data
        <3>6. /\ dat' \in [Clients -> Data \cup {NoData}]
              /\ \A b \in Clients : dat'[b] # NoData => dat[b] # NoData
            BY <2>1, <2>4, <3>1, <3>3, <3>4, <3>5
        <3>7. ClientHasGen'
            BY <1>4, <2>1, <2>4, <3>6 DEF ClientHasGen
        <3> QED BY <1>1, <1>4, <2>1, <2>3, <2>4, <3>6, <3>7 DEF RelayTypes, RelayTypeOK, LinkTypeOK
    <2>5. CASE Isolate(id.c)
        <3>1. /\ ctl' \in [Clients -> {"none", "awaiting", "active"}]
              /\ dat' \in [Clients -> Data \cup {NoData}]
              /\ \A b \in Clients : /\ ctl'[b] # "none" => ctl[b] # "none"
                                    /\ dat'[b] # NoData => dat[b] # NoData
            BY <2>5, IsolateTypes
        <3>2. ClientHasGen'
            BY <1>4, <2>1, <3>1 DEF ClientHasGen
        <3> QED BY <1>1, <1>4, <2>3, <3>1, <3>2 DEF RelayTypes, RelayTypeOK, LinkTypeOK
    <2>6. CASE UNCHANGED <<ctl, dat>>
        BY <1>1, <1>4, <2>3, <2>6 DEF RelayTypes, RelayTypeOK, LinkTypeOK, ClientHasGen
    <2> QED BY <1>4, <2>4, <2>5, <2>6 DEF PinDelivery
<1> QED BY <1>3, <1>4 DEF HandleBarrier

LEMMA DirectedFrameTypes == ASSUME RelayTypes, DirectedFrame PROVE RelayTypes'
<1>1. /\ Head(toRelay) \in RelayFrame /\ Tail(toRelay) \in Seq(RelayFrame)
      /\ Head(toRelay).kind \in {"directed", "commit"}
    BY ProcessesHead DEF DirectedFrame, Processes
<1> DEFINE f == Head(toRelay)
           d == dat[f.c]
<1>2. f.c \in Clients /\ f.gen \in Gens /\ f.seq \in Seqs
    BY <1>1 DEF RelayFrame
<1>3. CASE \/ FailCurrentHost("directed replay exceeds pinned commit")
           \/ FailCurrentHost("directed replay sequence gap")
    BY <1>3, FailTypes
<1>4. CASE /\ toRelay' = Tail(toRelay)
           /\ UNCHANGED <<doHead, host, readying, pairs, gen, ctl, published, blame, toHost, credit>>
           /\ \/ UNCHANGED dat
              \/ d.state \notin {"none", "synced"} /\ dat' = [dat EXCEPT ![f.c] = Delivered(d, f)]
           /\ \/ UNCHANGED resets
              \/ \E why \in {"slow-client", "data-disconnected"} :
                    resets' = resets \cup {[c |-> f.c, gen |-> f.gen, why |-> why]}
    <2>1. /\ dat \in [Clients -> Data \cup {NoData}] /\ ClientHasGen /\ resets \subseteq Reset
        BY DEF RelayTypes, RelayTypeOK
    <2>2. resets' \subseteq Reset
        BY <1>2, <1>4, <2>1 DEF Reset, Reasons
    <2>3. /\ dat' \in [Clients -> Data \cup {NoData}]
          /\ \A b \in Clients : dat'[b] # NoData => dat[b] # NoData
        <3>1. CASE d.state \notin {"none", "synced"} /\ dat' = [dat EXCEPT ![f.c] = Delivered(d, f)]
            <4>1. d \in Data
                BY <1>2, <2>1, <3>1 DEF NoData
            <4>2. Delivered(d, f) \in Data
                BY <1>2, <4>1 DEF Delivered, Data, MaybeSeqs
            <4>3. NoData \notin Data
                BY DEF NoData, Data
            <4> QED BY <1>2, <2>1, <3>1, <4>1, <4>2, <4>3
        <3> QED BY <1>4, <2>1, <3>1
    <2>4. ClientHasGen'
        BY <1>4, <2>1, <2>3 DEF ClientHasGen
    <2> QED BY <1>1, <1>4, <2>2, <2>3, <2>4 DEF RelayTypes, RelayTypeOK, LinkTypeOK
<1> QED BY <1>3, <1>4 DEF DirectedFrame

LEMMA DataAckTypes == ASSUME RelayTypes, SendDataAck PROVE RelayTypes'
BY DEF RelayTypes, RelayTypeOK, ClientHasGen, LinkTypeOK, SendDataAck, relayVars

LEMMA FinishResetTypes == ASSUME RelayTypes, FinishReset PROVE RelayTypes'
<1>1. PICK r \in resets :
          LET isReady == EndsHostReady(r)
              acks == IF isReady THEN <<ReadyAck(doHead)>> ELSE <<>>
              current == gen[r.c] = r.gen /\ ctl[r.c] = "active"
          IN  /\ resets' = resets \ {r}
              /\ readying' = (readying /\ ~isReady)
              /\ IF current THEN ReplaceDelivery(r) ELSE UNCHANGED <<gen, ctl, dat>>
              /\ toHost' = IF host = "active"
                           THEN toHost \o (IF current THEN ResetNotice(r) ELSE <<>>) \o acks
                           ELSE toHost
    BY DEF FinishReset
<1>2. UNCHANGED <<doHead, host, pairs, published, blame, toRelay, credit>>
    BY DEF FinishReset
<1> DEFINE acks == IF EndsHostReady(r) THEN <<ReadyAck(doHead)>> ELSE <<>>
           current == gen[r.c] = r.gen /\ ctl[r.c] = "active"
<1>3. r \in Reset /\ r.c \in Clients /\ r.gen \in Gens /\ doHead \in Seqs
    BY <1>1 DEF RelayTypes, RelayTypeOK, Reset
<1>4. acks \in Seq(HostFrame)
    <2>1. ReadyAck(doHead) \in HostFrame
        BY <1>3 DEF ReadyAck, HostFrame
    <2> QED BY <2>1
<1>5. /\ dat \in [Clients -> Data \cup {NoData}] /\ ClientHasGen
      /\ ctl \in [Clients -> {"none", "awaiting", "active"}]
      /\ gen \in [Clients -> 0 .. MaxGen]
    BY DEF RelayTypes, RelayTypeOK
<1>6. /\ dat' \in [Clients -> Data \cup {NoData}] /\ ClientHasGen'
      /\ ctl' \in [Clients -> {"none", "awaiting", "active"}]
      /\ gen' \in [Clients -> 0 .. MaxGen]
    <2>1. CASE UNCHANGED <<gen, ctl, dat>>
        BY <1>5, <2>1 DEF ClientHasGen
    <2>2. CASE ReplaceDelivery(r)
        <3>1. (IF r.gen < MaxGen THEN r.gen + 1 ELSE r.gen) \in Gens
            BY <1>3, Bounds DEF Gens
        <3>2. /\ gen' \in [Clients -> 0 .. MaxGen]
              /\ gen'[r.c] \in Gens
              /\ \A b \in Clients \ {r.c} : gen'[b] = gen[b]
            BY <1>3, <1>5, <2>2, <3>1 DEF ReplaceDelivery, Gens
        <3>3. /\ ctl' \in [Clients -> {"none", "awaiting", "active"}]
              /\ dat' \in [Clients -> Data \cup {NoData}]
              /\ \A b \in Clients : /\ ctl'[b] # "none" => ctl[b] # "none"
                                    /\ dat'[b] # NoData => dat[b] # NoData
            BY <1>5, <2>2, IsolateTypes DEF ReplaceDelivery
        <3>4. ClientHasGen'
            BY <1>5, <3>2, <3>3 DEF ClientHasGen
        <3> QED BY <3>2, <3>3, <3>4
    <2> QED BY <1>1, <2>1, <2>2
<1>7. (IF current THEN ResetNotice(r) ELSE <<>>) \in Seq(HostFrame)
    <2>1. CASE current /\ r.why = "slow-client" /\ ctl'[r.c] = "active"
        <3>1. r.gen < MaxGen
            BY <1>1, <1>3, <1>5, <2>1 DEF ReplaceDelivery, Isolate
        <3>2. r.gen + 1 \in Gens
            BY <1>3, <3>1, Bounds DEF Gens
        <3>3. [kind |-> "delivery-reset", c |-> r.c, gen |-> r.gen + 1] \in HostFrame
            BY <1>3, <3>2 DEF HostFrame
        <3> QED BY <2>1, <3>3 DEF ResetNotice
    <2>2. CASE ~(current /\ r.why = "slow-client" /\ ctl'[r.c] = "active")
        BY <2>2, EmptySeq DEF ResetNotice
    <2> QED BY <2>1, <2>2
<1>8. toHost \in Seq(HostFrame)
    BY DEF RelayTypes, LinkTypeOK
<1>9. toHost' \in Seq(HostFrame)
    <2> HIDE DEF acks
    <2> DEFINE notice == IF current THEN ResetNotice(r) ELSE <<>>
    <2>1. toHost' = IF host = "active" THEN (toHost \o notice) \o acks ELSE toHost
        BY <1>1 DEF acks
    <2>2. notice \in Seq(HostFrame)
        BY <1>7
    <2> HIDE DEF notice
    <2> QED BY <1>4, <1>8, <2>1, <2>2, ConcatProperties
<1>10. readying' \in BOOLEAN /\ resets' \subseteq Reset
    BY <1>1 DEF RelayTypes, RelayTypeOK, EndsHostReady
<1> QED BY <1>2, <1>6, <1>9, <1>10 DEF RelayTypes, RelayTypeOK, LinkTypeOK

LEMMA BrowserTypes == ASSUME RelayTypes, Browsers PROVE RelayTypes'
<1>1. PICK c \in Clients :
        \/ BrowserConnects(c) \/ BrowserOpensData(c) \/ BrowserAttaches(c)
        \/ BrowserAcknowledges(c) \/ BrowserDataCloses(c) \/ BrowserCloses(c)
    BY DEF Browsers
<1>2. /\ dat \in [Clients -> Data \cup {NoData}] /\ ClientHasGen
      /\ ctl \in [Clients -> {"none", "awaiting", "active"}]
      /\ gen \in [Clients -> 0 .. MaxGen] /\ resets \subseteq Reset /\ doHead \in Seqs
    BY DEF RelayTypes, RelayTypeOK
<1>3. NoData \notin Data /\ NoData.state = "none"
    BY DEF NoData, Data
<1>4. CASE BrowserConnects(c)
    <2>1. gen[c] + 1 \in Gens /\ gen[c] + 1 \in 0 .. MaxGen
        BY <1>2, <1>4, Bounds DEF BrowserConnects, Gens
    <2>2. /\ gen' \in [Clients -> 0 .. MaxGen]
          /\ ctl' \in [Clients -> {"none", "awaiting", "active"}]
          /\ dat' \in [Clients -> Data \cup {NoData}]
        BY <1>2, <1>4, <2>1 DEF BrowserConnects
    <2>3. ClientHasGen'
        BY <1>2, <1>4, <2>1 DEF BrowserConnects, ClientHasGen
    <2>4. UNCHANGED <<doHead, host, readying, pairs, resets, published, blame, linkVars>>
        BY <1>4 DEF BrowserConnects
    <2> QED BY <2>2, <2>3, <2>4 DEF RelayTypes, RelayTypeOK, LinkTypeOK, linkVars
<1>5. CASE BrowserOpensData(c)
    <2>1. [NoData EXCEPT !.state = "awaiting"] \in Data
        BY DEF NoData, Data, MaybeSeqs
    <2>2. dat' \in [Clients -> Data \cup {NoData}]
        BY <1>2, <1>5, <2>1 DEF BrowserOpensData
    <2>3. ClientHasGen'
        BY <1>2, <1>5 DEF BrowserOpensData, ClientHasGen
    <2>4. UNCHANGED <<doHead, host, readying, pairs, gen, ctl, resets, published, blame, linkVars>>
        BY <1>5 DEF BrowserOpensData
    <2> QED BY <2>2, <2>3, <2>4 DEF RelayTypes, RelayTypeOK, LinkTypeOK, linkVars
<1>6. CASE BrowserAttaches(c)
    <2>1. PICK base \in {NoSeq} \cup 0 .. doHead :
             /\ dat' = [dat EXCEPT ![c].state = "catching", ![c].first = base,
                                ![c].acked = base, ![c].sent = base]
             /\ ToHost([kind |-> "attach-request", req |-> [c |-> c, gen |-> gen[c], base |-> base]])
        BY <1>6 DEF BrowserAttaches
    <2>2. base \in MaybeSeqs
        BY <1>2, Bounds DEF MaybeSeqs, Seqs
    <2>3. dat[c] \in Data /\ gen[c] \in Gens
        BY <1>2, <1>3, <1>6 DEF BrowserAttaches, ClientHasGen
    <2>4. [dat[c] EXCEPT !.state = "catching", !.first = base, !.acked = base, !.sent = base] \in Data
        BY <2>2, <2>3 DEF Data
    <2>5. dat' = [dat EXCEPT ![c] = [dat[c] EXCEPT !.state = "catching", !.first = base,
                                        !.acked = base, !.sent = base]]
        BY <1>2, <2>1
    <2>6. /\ dat' \in [Clients -> Data \cup {NoData}]
          /\ ctl' \in [Clients -> {"none", "awaiting", "active"}]
        BY <1>2, <1>6, <2>4, <2>5 DEF BrowserAttaches
    <2>7. ClientHasGen'
        BY <1>2, <1>6, <2>3, <2>5 DEF BrowserAttaches, ClientHasGen
    <2>8. [kind |-> "attach-request", req |-> [c |-> c, gen |-> gen[c], base |-> base]] \in HostFrame
        BY <2>2, <2>3 DEF HostFrame, Request
    <2>9. toHost' \in Seq(HostFrame)
        BY <2>1, <2>8, AppendTypes DEF ToHost, RelayTypes, LinkTypeOK
    <2>10. UNCHANGED <<doHead, host, readying, pairs, gen, resets, published, blame, toRelay, credit>>
        BY <1>6 DEF BrowserAttaches
    <2> QED BY <2>6, <2>7, <2>9, <2>10 DEF RelayTypes, RelayTypeOK, LinkTypeOK
<1>7. CASE BrowserAcknowledges(c)
    <2>1. PICK seq \in dat[c].acked + 1 .. dat[c].sent : dat' = [dat EXCEPT ![c].acked = seq]
        BY <1>7 DEF BrowserAcknowledges
    <2>2. dat[c] \in Data
        BY <1>2, <1>7 DEF BrowserAcknowledges, NoData
    <2>3. seq \in MaybeSeqs
        <3>1. dat[c].acked \in MaybeSeqs /\ dat[c].sent \in MaybeSeqs
            BY <2>2 DEF Data
        <3> QED BY <2>1, <3>1, Bounds DEF MaybeSeqs, Seqs, NoSeq
    <2>4. [dat[c] EXCEPT !.acked = seq] \in Data
        BY <2>2, <2>3 DEF Data
    <2>5. dat' = [dat EXCEPT ![c] = [dat[c] EXCEPT !.acked = seq]]
        BY <1>2, <2>1
    <2>6. dat' \in [Clients -> Data \cup {NoData}]
        BY <1>2, <2>4, <2>5
    <2>7. UNCHANGED <<doHead, host, readying, pairs, gen, ctl, resets, published, blame, linkVars>>
        BY <1>7 DEF BrowserAcknowledges
    <2>8. ClientHasGen'
        BY <1>2, <1>3, <2>2, <2>5, <2>7 DEF ClientHasGen
    <2> QED BY <2>6, <2>7, <2>8 DEF RelayTypes, RelayTypeOK, LinkTypeOK, linkVars
<1>8. CASE BrowserDataCloses(c) \/ BrowserCloses(c)
    <2>1. /\ ctl' \in [Clients -> {"none", "awaiting", "active"}]
          /\ dat' \in [Clients -> Data \cup {NoData}]
          /\ \A b \in Clients : /\ ctl'[b] # "none" => ctl[b] # "none"
                                /\ dat'[b] # NoData => dat[b] # NoData
        BY <1>2, <1>8, IsolateTypes DEF BrowserDataCloses, BrowserCloses
    <2>2. UNCHANGED <<doHead, host, readying, pairs, gen, published, blame, linkVars>>
        BY <1>8 DEF BrowserDataCloses, BrowserCloses
    <2>3. resets' \subseteq Reset
        BY <1>2, <1>8 DEF BrowserDataCloses, BrowserCloses, ClientHasGen, Reset, Reasons
    <2>4. ClientHasGen'
        BY <1>2, <2>1, <2>2 DEF ClientHasGen
    <2> QED BY <2>1, <2>2, <2>3, <2>4 DEF RelayTypes, RelayTypeOK, LinkTypeOK, linkVars
<1> QED BY <1>1, <1>4, <1>5, <1>6, <1>7, <1>8

LEMMA PublishesTypes ==
    ASSUME RelayTypes, NEW cut \in Seqs, Publishes(cut), LinkTypeOK' PROVE RelayTypes'
<1>1. published' \in MaybeSeqs
    BY DEF Publishes, RelayTypes, RelayTypeOK, MaybeSeqs
<1> QED BY <1>1 DEF Publishes, RelayTypes, RelayTypeOK, ClientHasGen

\* Every step of the relay keeps its types.
LEMMA RelayStepTypes ==
    ASSUME RelayTypes, HostSocketClosed \/ Relays \/ Browsers PROVE RelayTypes'
BY FailTypes, HostReadyTypes, CanonicalEventTypes, HandleBarrierTypes, DirectedFrameTypes,
   DataAckTypes, FinishResetTypes, BrowserTypes DEF Relays, HostSocketClosed

-----------------------------------------------------------------------------
Types == HostTypes /\ RelayTypes

LEMMA InitTypes == Init => Types
<1> SUFFICES ASSUME Init PROVE Types
    OBVIOUS
<1>1. /\ 0 \in Seqs /\ 0 \in 0 .. MaxGen /\ 0 \in 0 .. MaxPairs /\ NoSeq \in MaybeSeqs
    BY LinkAssumption DEF Seqs, MaybeSeqs, LinkAssumption
<1>2. LinkTypeOK
    BY EmptySeq DEF Init, LinkTypeOK
<1>3. HostTypeOK
    BY <1>1, EmptySeq DEF Init, HostInit, HostTypeOK
<1>4. RelayTypeOK
    BY <1>1 DEF Init, RelayInit, RelayTypeOK
<1>5. ActiveHasCommit /\ ClientHasGen
    BY DEF Init, HostInit, RelayInit, ActiveHasCommit, ClientHasGen, NoActive
<1> QED BY <1>2, <1>3, <1>4, <1>5 DEF Types, HostTypes, RelayTypes

LEMMA NextTypes == Types /\ [Next]_vars => Types'
<1> SUFFICES ASSUME Types, [Next]_vars PROVE Types'
    OBVIOUS
<1>1. CASE HostConnects
    <2>1. HostTypes'
        BY <1>1, HostStepTypes DEF HostConnects, Types
    <2>2. RelayTypes'
        BY <1>1, <2>1, HostPairedTypes DEF HostConnects, Types, HostTypes
    <2> QED BY <2>1, <2>2 DEF Types
<1>2. CASE SnapshotPublished
    <2>1. HostTypes'
        BY <1>2, HostStepTypes DEF SnapshotPublished, Types
    <2>2. build.cut \in Seqs
        BY <1>2, BuildFacts DEF SnapshotPublished, BuildSucceeds, Types
    <2>3. RelayTypes'
        BY <1>2, <2>1, <2>2, PublishesTypes DEF SnapshotPublished, Types, HostTypes
    <2> QED BY <2>1, <2>3 DEF Types
<1>3. CASE HostNext /\ UNCHANGED relayVars
    <2>1. HostTypes'
        BY <1>3, HostStepTypes DEF Types
    <2>2. RelayTypes'
        BY <1>3, <2>1 DEF Types, HostTypes, RelayTypes, RelayTypeOK, ClientHasGen, relayVars
    <2> QED BY <2>1, <2>2 DEF Types
<1>4. CASE (HostSocketClosed \/ Relays \/ Browsers) /\ UNCHANGED hostVars
    <2>1. RelayTypes'
        BY <1>4, RelayStepTypes DEF Types
    <2>2. HostTypes'
        BY <1>4, <2>1 DEF Types, HostTypes, RelayTypes, HostTypeOK, ActiveHasCommit, hostVars
    <2> QED BY <2>1, <2>2 DEF Types
<1>5. CASE UNCHANGED vars
    <2>1. UNCHANGED hostVars /\ UNCHANGED relayVars /\ UNCHANGED linkVars
        BY <1>5 DEF vars
    <2>2. LinkTypeOK'
        BY <2>1 DEF Types, HostTypes, LinkTypeOK, linkVars
    <2>3. HostTypes'
        BY <2>1, <2>2 DEF Types, HostTypes, HostTypeOK, ActiveHasCommit, hostVars
    <2>4. RelayTypes'
        BY <2>1, <2>2 DEF Types, RelayTypes, RelayTypeOK, ClientHasGen, relayVars
    <2> QED BY <2>3, <2>4 DEF Types
<1> QED BY <1>1, <1>2, <1>3, <1>4, <1>5 DEF Next

\* TypeOK: every variable of the three parts and of the link has its type.
THEOREM DeliveryTypes == Spec => []TypeOK
<1>1. Types => TypeOK
    BY DEF Types, HostTypes, RelayTypes, TypeOK
<1> QED BY <1>1, InitTypes, NextTypes, PTL DEF Spec

-----------------------------------------------------------------------------
(* Sequences of frames *)

LEMMA NoEvents == ASSUME NEW n \in Int PROVE Contiguous(<<>>, n, n)
<1>1. Events(<<>>) = {}
    BY DEF Events
<1> QED BY <1>1 DEF Contiguous

\* Where the events of a sequence are when a frame follows it.
LEMMA EventsOfConcat ==
    ASSUME NEW s \in Seq(RelayFrame), NEW f \in RelayFrame
    PROVE  /\ \A i \in Events(s) : i \in 1 .. Len(s) /\ (s \o <<f>>)[i] = s[i]
           /\ (s \o <<f>>)[Len(s) + 1] = f
           /\ f.kind # "event" => Events(s \o <<f>>) = Events(s)
           /\ f.kind = "event" => Events(s \o <<f>>) = Events(s) \cup {Len(s) + 1}
<1> DEFINE t == s \o <<f>>
<1>1. /\ DOMAIN s = 1 .. Len(s) /\ Len(s) \in Nat
      /\ <<f>> \in Seq(RelayFrame) /\ Len(<<f>>) = 1 /\ <<f>>[1] = f
    BY LenProperties
<1>2. /\ t \in Seq(RelayFrame) /\ Len(t) = Len(s) + 1
      /\ \A i \in 1 .. Len(s) + 1 : t[i] = IF i <= Len(s) THEN s[i] ELSE <<f>>[i - Len(s)]
    BY <1>1, ConcatProperties
<1>3. DOMAIN t = 1 .. Len(s) + 1
    BY <1>2, LenProperties
<1> HIDE DEF t
<1>4. (\A i \in 1 .. Len(s) : t[i] = s[i]) /\ t[Len(s) + 1] = f
    BY <1>1, <1>2
<1>5. /\ f.kind # "event" => Events(t) = Events(s)
      /\ f.kind = "event" => Events(t) = Events(s) \cup {Len(s) + 1}
    BY <1>1, <1>3, <1>4 DEF Events
<1>6. \A i \in Events(s) : i \in 1 .. Len(s)
    BY <1>1 DEF Events
<1> QED BY <1>4, <1>5, <1>6 DEF t

LEMMA ConcatOther ==
    ASSUME NEW s \in Seq(RelayFrame), NEW f \in RelayFrame, f.kind # "event",
           NEW lo, NEW hi, Contiguous(s, lo, hi)
    PROVE  Contiguous(s \o <<f>>, lo, hi)
<1> DEFINE t == s \o <<f>>
<1>1. Events(t) = Events(s) /\ \A i \in Events(s) : t[i] = s[i]
    BY EventsOfConcat
<1>2. {t[i].seq : i \in Events(t)} = {s[i].seq : i \in Events(s)}
    BY <1>1
<1> HIDE DEF t
<1>3. Contiguous(t, lo, hi)
    BY <1>1, <1>2 DEF Contiguous
<1> QED BY <1>3 DEF t

LEMMA ConcatEvent ==
    ASSUME NEW s \in Seq(RelayFrame), NEW f \in RelayFrame, f.kind = "event",
           NEW lo \in Int, NEW hi \in Int, Contiguous(s, lo, hi), f.seq = hi + 1
    PROVE  Contiguous(s \o <<f>>, lo, hi + 1)
<1> DEFINE t == s \o <<f>>
           last == Len(s) + 1
<1>1. /\ Events(t) = Events(s) \cup {last} /\ t[last] = f
      /\ \A i \in Events(s) : i < last /\ i \in 1 .. Len(s) /\ t[i] = s[i]
    <2>1. Len(s) \in Nat
        BY LenProperties
    <2> QED BY <2>1, EventsOfConcat
<1> HIDE DEF t
<1>2. last \in Int
    BY LenProperties
<1> HIDE DEF last
<1>3. {t[i].seq : i \in Events(t)} = {s[i].seq : i \in Events(s)} \cup {hi + 1}
    BY <1>1
<1>4. {t[i].seq : i \in Events(t)} = lo + 1 .. hi + 1
    BY <1>3, SMTT(30) DEF Contiguous
<1>5. \A i \in Events(s) : s[i].seq \in lo + 1 .. hi
    BY DEF Contiguous
<1>6. ASSUME NEW i \in Events(t), NEW j \in Events(t), i < j PROVE t[i].seq < t[j].seq
    <2>1. CASE j = last
        <3>1. i # last /\ t[j].seq = hi + 1
            BY <1>1, <1>2, <1>6, <2>1
        <3>2. i \in Events(s) /\ t[i] = s[i]
            BY <1>1, <3>1
        <3>3. s[i].seq \in lo + 1 .. hi
            BY <1>5, <3>2
        <3> QED BY <3>1, <3>2, <3>3
    <2>2. CASE j # last
        BY <1>1, <1>2, <1>6, <2>2 DEF Contiguous
    <2> QED BY <2>1, <2>2
<1>7. Contiguous(t, lo, hi + 1)
    BY <1>4, <1>6 DEF Contiguous
<1> QED BY <1>7 DEF t

\* The events behind the first frame.
LEMMA EventsOfTail ==
    ASSUME NEW s \in Seq(RelayFrame), s # <<>>
    PROVE  /\ \A i \in Events(Tail(s)) : i \in Nat /\ i + 1 \in Events(s) /\ Tail(s)[i] = s[i + 1]
           /\ \A i \in Events(s) : i \in Nat /\ i >= 1
           /\ \A i \in Events(s) : i # 1 => i - 1 \in Events(Tail(s)) /\ Tail(s)[i - 1] = s[i]
           /\ 1 \in Events(s) <=> Head(s).kind = "event"
           /\ s[1] = Head(s)
<1>1. /\ DOMAIN s = 1 .. Len(s) /\ Len(s) \in Nat /\ Len(s) # 0
    BY LenProperties, EmptySeq
<1>2. /\ Tail(s) \in Seq(RelayFrame) /\ Len(Tail(s)) = Len(s) - 1
      /\ \A i \in 1 .. Len(Tail(s)) : Tail(s)[i] = s[i + 1]
    BY HeadTailProperties
<1>3. DOMAIN Tail(s) = 1 .. Len(s) - 1
    BY <1>2, LenProperties
<1>4. Head(s) = s[1]
    OBVIOUS
<1> DEFINE t == Tail(s)
<1> HIDE DEF t
<1>5. DOMAIN t = 1 .. Len(s) - 1 /\ \A i \in 1 .. Len(s) - 1 : t[i] = s[i + 1]
    BY <1>2, <1>3 DEF t
<1>6. /\ \A i \in Events(t) : i \in Nat /\ i + 1 \in Events(s) /\ t[i] = s[i + 1]
    BY <1>1, <1>5 DEF Events
<1>7. /\ \A i \in Events(s) : i \in Nat /\ i >= 1
      /\ 1 \in Events(s) <=> s[1].kind = "event"
    BY <1>1 DEF Events
<1>8. ASSUME NEW i \in Events(s), i # 1 PROVE i - 1 \in Events(t) /\ t[i - 1] = s[i]
    <2>1. i \in 1 .. Len(s) /\ i - 1 \in 1 .. Len(s) - 1 /\ (i - 1) + 1 = i /\ s[i].kind = "event"
        BY <1>1, <1>8 DEF Events
    <2>2. t[i - 1] = s[i]
        BY <1>5, <2>1
    <2> QED BY <1>5, <2>1, <2>2 DEF Events
<1> QED BY <1>4, <1>6, <1>7, <1>8 DEF t

LEMMA TailOther ==
    ASSUME NEW s \in Seq(RelayFrame), s # <<>>, Head(s).kind # "event",
           NEW lo, NEW hi, Contiguous(s, lo, hi)
    PROVE  Contiguous(Tail(s), lo, hi)
<1> DEFINE t == Tail(s)
<1>1. /\ \A i \in Events(t) : i \in Nat /\ i + 1 \in Events(s) /\ t[i] = s[i + 1]
      /\ \A i \in Events(s) : i \in Nat /\ i # 1
      /\ \A i \in Events(s) : i - 1 \in Events(t) /\ t[i - 1] = s[i]
    BY EventsOfTail
<1> HIDE DEF t
<1>2. {t[i].seq : i \in Events(t)} = {s[i].seq : i \in Events(s)}
    BY <1>1
<1>3. ASSUME NEW i \in Events(t), NEW j \in Events(t), i < j PROVE t[i].seq < t[j].seq
    <2>1. i + 1 \in Events(s) /\ j + 1 \in Events(s) /\ i + 1 < j + 1
        BY <1>1, <1>3
    <2> QED BY <1>1, <2>1 DEF Contiguous
<1>4. Contiguous(t, lo, hi)
    BY <1>2, <1>3 DEF Contiguous
<1> QED BY <1>4 DEF t

LEMMA TailEvent ==
    ASSUME NEW s \in Seq(RelayFrame), s # <<>>, Head(s).kind = "event",
           NEW lo \in Int, NEW hi \in Int, Contiguous(s, lo, hi)
    PROVE  /\ Head(s).seq = lo + 1
           /\ Contiguous(Tail(s), lo + 1, hi)
<1> DEFINE t == Tail(s)
           first == Head(s).seq
<1>1. /\ \A i \in Events(t) : i \in Nat /\ i + 1 \in Events(s) /\ t[i] = s[i + 1]
      /\ \A i \in Events(s) : i \in Nat /\ i >= 1
      /\ \A i \in Events(s) : i # 1 => i - 1 \in Events(t) /\ t[i - 1] = s[i]
      /\ 1 \in Events(s) /\ s[1].seq = first
    BY EventsOfTail
<1> HIDE DEF t, first
<1>2. /\ lo <= hi
      /\ {s[i].seq : i \in Events(s)} = lo + 1 .. hi
      /\ \A i, j \in Events(s) : i < j => s[i].seq < s[j].seq
    BY DEF Contiguous
<1>3. \A i \in Events(s) : s[i].seq \in lo + 1 .. hi
    BY <1>2
<1>4. ASSUME NEW i \in Events(s), i # 1 PROVE first < s[i].seq
    <2>1. i \in Nat /\ i >= 1
        BY <1>1
    <2>2. 1 < i
        BY <1>4, <2>1
    <2> QED BY <1>1, <1>2, <2>2
<1>5. first = lo + 1
    <2>1. first \in lo + 1 .. hi
        BY <1>1, <1>3
    <2>2. lo + 1 \in {s[i].seq : i \in Events(s)}
        BY <1>2, <2>1, SMTT(30)
    <2>3. PICK i \in Events(s) : s[i].seq = lo + 1
        BY <2>2
    <2> QED BY <1>1, <1>4, <2>1, <2>3, SMTT(30)
<1>6. first <= hi
    BY <1>1, <1>3
<1>7. {t[i].seq : i \in Events(t)} = lo + 1 + 1 .. hi
    <2>1. ASSUME NEW i \in Events(t) PROVE t[i].seq \in lo + 1 + 1 .. hi
        <3>1. i + 1 \in Events(s) /\ i + 1 # 1 /\ t[i] = s[i + 1]
            <4>1. i # 0
                BY <1>1, EventsOfTail, LenProperties, HeadTailProperties DEF t, Events
            <4> QED BY <1>1, <4>1
        <3> QED BY <1>3, <1>4, <1>5, <3>1
    <2>2. ASSUME NEW n \in lo + 1 + 1 .. hi PROVE \E i \in Events(t) : t[i].seq = n
        <3>1. n \in lo + 1 .. hi
            OBVIOUS
        <3>4. n \in {s[i].seq : i \in Events(s)}
            BY <1>2, <3>1
        <3>2. PICK i \in Events(s) : s[i].seq = n
            BY <3>4
        <3>3. i # 1
            BY <1>1, <1>5, <3>2
        <3> QED BY <1>1, <3>2, <3>3
    <2> QED BY <2>1, <2>2
<1>8. \A i, j \in Events(t) : i < j => t[i].seq < t[j].seq
    BY <1>1, <1>2, SMTT(30)
<1>9. Contiguous(t, lo + 1, hi)
    BY <1>5, <1>6, <1>7, <1>8 DEF Contiguous
<1> QED BY <1>5, <1>9 DEF t, first

LEMMA TailOfConcat ==
    ASSUME NEW s \in Seq(RelayFrame), NEW t \in Seq(RelayFrame), s # <<>>
    PROVE  s \o t # <<>> /\ Head(s \o t) = Head(s) /\ Tail(s \o t) = Tail(s) \o t
<1>1. /\ Len(s) \in Nat \ {0} /\ Len(t) \in Nat
      /\ s \o t \in Seq(RelayFrame) /\ Len(s \o t) = Len(s) + Len(t)
      /\ \A i \in 1 .. Len(s) + Len(t) : (s \o t)[i] = IF i <= Len(s) THEN s[i] ELSE t[i - Len(s)]
    BY LenProperties, EmptySeq, ConcatProperties
<1>2. s \o t # <<>>
    BY <1>1, ConcatEqualIffEmpty
<1>3. /\ Tail(s) \in Seq(RelayFrame) /\ Len(Tail(s)) = Len(s) - 1
      /\ \A i \in 1 .. Len(s) - 1 : Tail(s)[i] = s[i + 1]
    BY HeadTailProperties
<1>4. /\ Tail(s \o t) \in Seq(RelayFrame) /\ Len(Tail(s \o t)) = Len(s) + Len(t) - 1
      /\ \A i \in 1 .. Len(s) + Len(t) - 1 : Tail(s \o t)[i] = (s \o t)[i + 1]
    BY <1>1, <1>2, HeadTailProperties
<1>5. /\ Tail(s) \o t \in Seq(RelayFrame) /\ Len(Tail(s) \o t) = Len(s) - 1 + Len(t)
      /\ \A i \in 1 .. Len(s) - 1 + Len(t) :
            (Tail(s) \o t)[i] = IF i <= Len(s) - 1 THEN Tail(s)[i] ELSE t[i - (Len(s) - 1)]
    BY <1>3, ConcatProperties
<1>6. ASSUME NEW i \in 1 .. Len(Tail(s \o t)) PROVE Tail(s \o t)[i] = (Tail(s) \o t)[i]
    <2>1. i \in 1 .. Len(s) + Len(t) - 1 /\ i + 1 \in 1 .. Len(s) + Len(t)
        BY <1>1, <1>4
    <2>2. CASE i <= Len(s) - 1
        <3>1. i \in 1 .. Len(s) - 1 /\ i + 1 <= Len(s)
            BY <1>1, <2>1, <2>2
        <3> QED BY <1>1, <1>3, <1>4, <1>5, <2>1, <2>2, <3>1
    <2>3. CASE ~(i <= Len(s) - 1)
        <3>1. ~(i + 1 <= Len(s)) /\ i + 1 - Len(s) = i - (Len(s) - 1)
            BY <1>1, <2>1, <2>3
        <3> QED BY <1>1, <1>4, <1>5, <2>1, <2>3, <3>1
    <2> QED BY <2>2, <2>3
<1>7. Len(Tail(s \o t)) = Len(Tail(s) \o t)
    BY <1>1, <1>4, <1>5
<1>8. Tail(s \o t) = Tail(s) \o t
    BY <1>4, <1>5, <1>6, <1>7, SeqEqual
<1>9. Head(s \o t) = Head(s)
    <2>1. Head(s \o t) = (s \o t)[1] /\ Head(s) = s[1]
        BY <1>1, <1>2
    <2> QED BY <1>1, <2>1
<1> QED BY <1>2, <1>8, <1>9

-----------------------------------------------------------------------------
(* The canonical stream *)

StreamInv ==
    /\ (~DataBatch \/ link # "ready") => outbox = <<>>
    /\ host = "paired" => link # "ready" /\ toHost = <<>>
    /\ host = "paired" => toRelay = <<[kind |-> "host-ready", seq |-> sent]>>
    /\ host = "active" /\ (link # "down" \/ ~DataBatch) => Contiguous(InFlight, doHead, sent)

LEMMA StreamTypes ==
    ASSUME Types
    PROVE  /\ toRelay \in Seq(RelayFrame) /\ outbox \in Seq(RelayFrame)
           /\ InFlight \in Seq(RelayFrame)
           /\ doHead \in Int /\ sent \in Int
<1>1. toRelay \in Seq(RelayFrame) /\ outbox \in Seq(RelayFrame)
    BY DEF Types, HostTypes, HostTypeOK, LinkTypeOK
<1>2. doHead \in Seqs /\ sent \in Seqs
    BY DEF Types, HostTypes, HostTypeOK, RelayTypes, RelayTypeOK
<1> QED BY <1>1, <1>2, ConcatProperties, Bounds DEF InFlight, Seqs

\* A step that sends nothing on the data socket, and takes nothing from it.
LEMMA StreamUntouched ==
    ASSUME StreamInv, UNCHANGED <<toRelay, outbox, sent, link, doHead, host>>,
           toHost' = toHost \/ host # "paired"
    PROVE  StreamInv'
BY DEF StreamInv, InFlight

LEMMA StreamClosed ==
    ASSUME StreamInv, NEW reason, ClosePair(reason), UNCHANGED <<doHead, host>>
    PROVE  StreamInv'
<1>1. link' = "down" /\ outbox' = <<>> /\ UNCHANGED <<sent, toRelay, host>> /\ doHead' = doHead
    BY DEF ClosePair
<1>2. host # "paired" \/ toHost' = <<>>
    BY DEF ClosePair
<1>3. CASE DataBatch
    BY <1>1, <1>2, <1>3 DEF StreamInv, ClosePair
<1>4. CASE ~DataBatch
    <2>1. InFlight' = InFlight
        BY <1>1, <1>4 DEF InFlight, StreamInv
    <2> QED BY <1>1, <1>2, <1>4, <2>1 DEF StreamInv, ClosePair
<1> QED BY <1>3, <1>4

\* A frame that is sent is last.
LEMMA EmitLast ==
    ASSUME Types, StreamInv, NEW f \in RelayFrame, Emit(<<f>>)
    PROVE  /\ InFlight' = InFlight \o <<f>>
           /\ ~DataBatch => outbox' = <<>>
<1>1. <<f>> \in Seq(RelayFrame) /\ toRelay \in Seq(RelayFrame) /\ outbox \in Seq(RelayFrame)
    BY StreamTypes
<1>2. CASE DataBatch
    <2>1. outbox' = outbox \o <<f>> /\ toRelay' = toRelay
        BY <1>2 DEF Emit
    <2> QED BY <1>1, <1>2, <2>1, ConcatAssociative DEF InFlight
<1>3. CASE ~DataBatch
    <2>1. toRelay' = toRelay \o <<f>> /\ outbox' = <<>> /\ outbox = <<>>
        BY <1>3 DEF Emit, StreamInv
    <2>2. toRelay \o <<f>> \in Seq(RelayFrame)
        BY <1>1, ConcatProperties
    <2>3. InFlight = toRelay /\ InFlight' = toRelay \o <<f>>
        BY <1>1, <2>1, <2>2, ConcatEmptySeq DEF InFlight
    <2> QED BY <2>1, <2>3
<1> QED BY <1>2, <1>3

\* The publisher sends the event after the last one it has sent.
LEMMA StreamEvent ==
    ASSUME Types, StreamInv, link = "ready", sent + 1 \in Seqs, sent' = sent + 1,
           Emit(<<[kind |-> "event", seq |-> sent + 1]>>),
           UNCHANGED <<link, doHead, host>>
    PROVE  StreamInv'
<1> DEFINE f == [kind |-> "event", seq |-> sent + 1]
<1>1. f \in RelayFrame /\ f.kind = "event" /\ f.seq = sent + 1
    BY DEF RelayFrame
<1> HIDE DEF f
<1>2. Emit(<<f>>)
    BY DEF f
<1>3. InFlight' = InFlight \o <<f>> /\ (~DataBatch => outbox' = <<>>)
    BY <1>1, <1>2, EmitLast
<1>4. host = "active" => Contiguous(InFlight \o <<f>>, doHead, sent + 1)
    BY <1>1, StreamTypes, ConcatEvent DEF StreamInv
<1> QED BY <1>3, <1>4 DEF StreamInv

LEMMA StreamOther ==
    ASSUME Types, StreamInv, link = "ready", NEW f \in RelayFrame, f.kind # "event",
           Emit(<<f>>), UNCHANGED <<link, sent, doHead, host>>
    PROVE  StreamInv'
<1>1. InFlight' = InFlight \o <<f>> /\ (~DataBatch => outbox' = <<>>)
    BY EmitLast
<1>2. host = "active" => Contiguous(InFlight \o <<f>>, doHead, sent)
    BY StreamTypes, ConcatOther DEF StreamInv
<1> QED BY <1>1, <1>2 DEF StreamInv

\* A batch moves frames from the queue to the wire, in order.
LEMMA StreamBatch ==
    ASSUME Types, StreamInv, link = "ready", NEW n \in 1 .. Len(outbox), SendBatch(n),
           UNCHANGED <<link, sent, doHead, host>>
    PROVE  StreamInv'
<1>1. /\ toRelay \in Seq(RelayFrame) /\ outbox \in Seq(RelayFrame) /\ Len(outbox) \in Nat
    BY StreamTypes, LenProperties
<1> DEFINE batch == SubSeq(outbox, 1, n)
           rest == SubSeq(outbox, n + 1, Len(outbox))
<1>2. batch \in Seq(RelayFrame) /\ rest \in Seq(RelayFrame)
    BY <1>1, SubSeqProperties
<1>3. batch \o rest = SubSeq(outbox, 1, Len(outbox))
    BY <1>1, ConcatAdjacentSubSeq
<1>4. batch \o rest = outbox
    BY <1>1, <1>3, SubSeqFull
<1>5. toRelay' = toRelay \o batch /\ outbox' = rest
    BY DEF SendBatch
<1> HIDE DEF batch, rest
<1>6. InFlight' = InFlight
    <2>1. ASSUME NEW s \in Seq(RelayFrame), NEW t \in Seq(RelayFrame), NEW u \in Seq(RelayFrame)
          PROVE  (s \o t) \o u = s \o (t \o u)
        BY ConcatAssociative, SMTT(30)
    <2>2. (toRelay \o batch) \o rest = toRelay \o (batch \o rest)
        BY <1>1, <1>2, <2>1
    <2> QED BY <1>4, <1>5, <2>2 DEF InFlight
<1>7. DataBatch
    BY <1>1, EmptySeq DEF StreamInv
<1> QED BY <1>6, <1>7 DEF StreamInv

\* The relay takes the next frame.
LEMMA TakeFirst ==
    ASSUME Types, toRelay # <<>>, toRelay' = Tail(toRelay), UNCHANGED outbox
    PROVE  InFlight # <<>> /\ Head(InFlight) = Head(toRelay) /\ InFlight' = Tail(InFlight)
BY StreamTypes, TailOfConcat DEF InFlight

LEMMA StreamConnects == ASSUME Types, StreamInv, HostConnects PROVE StreamInv'
BY DEF HostConnects, Prepare, HostPaired, StreamInv

LEMMA StreamReadyAck == ASSUME Types, StreamInv, HandleReadyAck, UNCHANGED <<doHead, host>> PROVE StreamInv'
<1>1. CASE ClosePair("unexpected host-ready ACK")
    BY <1>1, StreamClosed
<1>2. CASE ~ClosePair("unexpected host-ready ACK")
    BY <1>2 DEF HandleReadyAck, Receives, StreamInv, InFlight
<1> QED BY <1>1, <1>2

LEMMA StreamHandles ==
    ASSUME Types, StreamInv, EnqueueAttach \/ HandleDeliveryReset \/ HandleBarrierResult,
           UNCHANGED <<doHead, host>>
    PROVE  StreamInv'
<1>1. host # "paired"
    BY DEF StreamInv, EnqueueAttach, HandleDeliveryReset, HandleBarrierResult, Receives
<1>2. \/ UNCHANGED <<toRelay, outbox, sent, link>>
      \/ ClosePair("delivery marker outcome is uncertain")
    BY DEF EnqueueAttach, HandleDeliveryReset, HandleBarrierResult
<1> QED BY <1>1, <1>2, StreamUntouched, StreamClosed

LEMMA StreamRecovers ==
    ASSUME Types, StreamInv,
           TakePass \/ StartRecovery \/ PlanWarm \/ PlanCold \/ BuildSucceeds \/ EvictJournal
           \/ ExpireCheckpoint,
           UNCHANGED <<doHead, host>>
    PROVE  StreamInv'
<1>1. UNCHANGED <<toRelay, outbox, sent, link, toHost>>
    BY DEF TakePass, StartRecovery, PlanWarm, PlanCold, BuildSucceeds, EvictJournal, ExpireCheckpoint
<1> QED BY <1>1, StreamUntouched

LEMMA StreamMayClose ==
    ASSUME Types, StreamInv,
           TerminalOutput \/ SocketCloses \/ RefuseEarlyTraffic \/ BarrierTimeout \/ BuildFails,
           UNCHANGED <<doHead, host>>
    PROVE  StreamInv'
<1>1. \/ UNCHANGED <<toRelay, outbox, sent, link, toHost>>
      \/ \E reason : ClosePair(reason)
    BY DEF TerminalOutput, SocketCloses, RefuseEarlyTraffic, BarrierTimeout, BuildFails
<1> QED BY <1>1, StreamUntouched, StreamClosed

LEMMA StreamBarrier ==
    ASSUME Types, StreamInv, SendBarrier, UNCHANGED <<doHead, host>> PROVE StreamInv'
<1>1. active \in Active /\ active.commit \in Seqs
    BY ActiveFacts DEF SendBarrier, Types, HostTypes, ActiveHasCommit
<1>2. CASE ClosePair("canonical publisher cannot reach the requested commit")
    BY <1>2, StreamClosed
<1>3. CASE UNCHANGED <<toRelay, outbox, sent, link, toHost>>
    BY <1>3, StreamUntouched
<1>4. CASE Emit(<<[kind |-> "barrier", id |-> ActiveIdentity]>>) /\ UNCHANGED <<sent, link>>
    <2> DEFINE f == [kind |-> "barrier", id |-> ActiveIdentity]
    <2>1. f \in RelayFrame /\ f.kind # "event"
        BY <1>1, IdentityTypes DEF RelayFrame, Types
    <2>2. link = "ready"
        BY DEF SendBarrier
    <2> HIDE DEF f
    <2>3. Emit(<<f>>)
        BY <1>4 DEF f
    <2> QED BY <1>4, <2>1, <2>2, <2>3, StreamOther
<1> QED BY <1>2, <1>3, <1>4 DEF SendBarrier

LEMMA StreamDirected ==
    ASSUME Types, StreamInv, SendDirected \/ SendReplayCommit, UNCHANGED <<doHead, host>>
    PROVE  StreamInv'
<1>1. active \in Active /\ active.commit \in Seqs /\ active.next \in MaybeSeqs
    BY ActiveFacts DEF SendDirected, SendReplayCommit, Types, HostTypes, ActiveHasCommit, Active
<1>2. ASSUME NEW kind \in {"directed", "commit"}, NEW n \in Seqs, Emit(<<Directed(kind, n)>>),
             UNCHANGED <<sent, link>>
      PROVE  StreamInv'
    <2>1. Directed(kind, n) \in RelayFrame /\ Directed(kind, n).kind # "event"
        BY <1>1 DEF Directed, RelayFrame, Active
    <2>2. link = "ready"
        BY DEF SendDirected, SendReplayCommit
    <2> QED BY <1>2, <2>1, <2>2, StreamOther
<1>3. CASE SendDirected
    <2>1. CASE ClosePair("delivery marker outcome is uncertain")
        BY <2>1, StreamClosed
    <2>2. active.next + 1 \in Seqs
        BY <1>1, <1>3, SeqsUp DEF SendDirected
    <2>3. CASE Emit(<<Directed("directed", active.next + 1)>>) /\ UNCHANGED <<sent, link>>
        BY <1>2, <2>2, <2>3
    <2> QED BY <1>3, <2>1, <2>3 DEF SendDirected
<1>4. CASE SendReplayCommit
    BY <1>1, <1>2, <1>4 DEF SendReplayCommit
<1> QED BY <1>3, <1>4

LEMMA StreamSends ==
    ASSUME Types, StreamInv, Pump \/ FlushFrame \/ FlushDataBatch \/ ReceiveDataAck,
           UNCHANGED <<doHead, host>>
    PROVE  StreamInv'
<1>1. CASE Pump \/ FlushFrame
    <2>1. /\ link = "ready" /\ sent' = sent + 1 /\ UNCHANGED link
          /\ Emit(<<[kind |-> "event", seq |-> sent + 1]>>)
        BY <1>1 DEF Pump, FlushFrame
    <2>2. sent \in Seqs /\ head \in Seqs
        BY DEF Types, HostTypes, HostTypeOK
    <2>3. sent + 1 \in Seqs
        <3>1. CASE Pump
            BY <2>2, <3>1, SeqsUp DEF MaybeSeqs, Pump
        <3>2. CASE FlushFrame
            BY <2>2, <3>2, SeqsUp DEF MaybeSeqs, FlushFrame, Types, HostTypes, ActiveHasCommit
        <3> QED BY <1>1, <3>1, <3>2
    <2> QED BY <2>1, <2>3, StreamEvent
<1>2. CASE FlushDataBatch \/ ReceiveDataAck
    <2>1. CASE \E n \in 1 .. Len(outbox) : SendBatch(n)
        BY <1>2, <2>1, StreamBatch DEF FlushDataBatch, ReceiveDataAck
    <2>2. CASE UNCHANGED <<toRelay, outbox, active>>
        BY <1>2, <2>2, StreamUntouched DEF FlushDataBatch, ReceiveDataAck
    <2> QED BY <1>2, <2>1, <2>2 DEF FlushDataBatch, ReceiveDataAck
<1> QED BY <1>1, <1>2

LEMMA StreamFails ==
    ASSUME StreamInv, NEW reason, FailCurrentHost(reason), UNCHANGED <<outbox, sent, link>>
    PROVE  StreamInv'
BY DEF StreamInv, FailCurrentHost

LEMMA StreamHostReady ==
    ASSUME Types, StreamInv, HostReady, UNCHANGED <<outbox, sent, link>> PROVE StreamInv'
<1>1. CASE FailCurrentHost("host state does not match session")
    BY <1>1, StreamFails
<1>2. CASE ~FailCurrentHost("host state does not match session")
    <2>1. /\ host = "paired" /\ doHead' = Head(toRelay).seq /\ host' = "active"
          /\ toRelay' = Tail(toRelay)
        BY <1>2 DEF HostReady, Processes
    <2>2. toRelay = <<[kind |-> "host-ready", seq |-> sent]>> /\ outbox = <<>>
        BY <2>1 DEF StreamInv
    <2>3. Head(toRelay).seq = sent /\ Tail(toRelay) = <<>>
        BY <2>2
    <2>4. InFlight' = <<>> /\ doHead' = sent
        BY <2>1, <2>2, <2>3, ConcatEmptySeq, EmptySeq DEF InFlight
    <2>5. Contiguous(<<>>, sent, sent)
        BY StreamTypes, NoEvents
    <2> QED BY <2>1, <2>2, <2>4, <2>5 DEF StreamInv
<1> QED BY <1>1, <1>2

LEMMA StreamCanonical ==
    ASSUME Types, StreamInv, CanonicalEvent, UNCHANGED <<outbox, sent, link>> PROVE StreamInv'
<1>1. CASE FailCurrentHost("canonical data sequence gap")
    BY <1>1, StreamFails
<1>2. CASE ~FailCurrentHost("canonical data sequence gap")
    <2>1. /\ host = "active" /\ doHead' = Head(toRelay).seq /\ UNCHANGED host
          /\ toRelay' = Tail(toRelay) /\ toRelay # <<>> /\ Head(toRelay).kind = "event"
        BY <1>2 DEF CanonicalEvent, Processes
    <2>2. InFlight # <<>> /\ Head(InFlight) = Head(toRelay) /\ InFlight' = Tail(InFlight)
        BY <2>1, TakeFirst
    <2>3. link # "down" \/ ~DataBatch =>
             /\ Head(InFlight).seq = doHead + 1
             /\ Contiguous(Tail(InFlight), doHead + 1, sent)
        BY <2>1, <2>2, TailEvent, StreamTypes DEF StreamInv
    <2> QED BY <2>1, <2>2, <2>3 DEF StreamInv
<1> QED BY <1>1, <1>2

LEMMA StreamTakesOther ==
    ASSUME Types, StreamInv, HandleBarrier \/ DirectedFrame, UNCHANGED <<outbox, sent, link>>
    PROVE StreamInv'
<1>1. CASE \E reason : FailCurrentHost(reason)
    BY <1>1, StreamFails
<1>2. CASE ~ \E reason : FailCurrentHost(reason)
    <2>1. /\ host = "active" /\ UNCHANGED <<host, doHead>>
          /\ toRelay' = Tail(toRelay) /\ toRelay # <<>> /\ Head(toRelay).kind # "event"
        BY <1>2 DEF HandleBarrier, DirectedFrame, Processes
    <2>2. InFlight # <<>> /\ Head(InFlight) = Head(toRelay) /\ InFlight' = Tail(InFlight)
        BY <2>1, TakeFirst
    <2>3. link # "down" \/ ~DataBatch => Contiguous(Tail(InFlight), doHead, sent)
        BY <2>1, <2>2, TailOther, StreamTypes, Zenon DEF StreamInv
    <2> QED BY <2>1, <2>2, <2>3 DEF StreamInv
<1> QED BY <1>1, <1>2

LEMMA StreamRest ==
    ASSUME StreamInv, SendDataAck \/ FinishReset \/ Browsers, UNCHANGED <<outbox, sent, link>>
    PROVE  StreamInv'
<1>1. UNCHANGED <<toRelay, doHead, host>> /\ (toHost' = toHost \/ host = "active")
    BY DEF SendDataAck, FinishReset, Browsers, BrowserConnects, BrowserOpensData, BrowserAttaches,
           BrowserAcknowledges, BrowserDataCloses, BrowserCloses, ToHost, relayVars, linkVars
<1> QED BY <1>1, StreamUntouched

LEMMA NextStream == Types /\ StreamInv /\ [Next]_vars => StreamInv'
<1> SUFFICES ASSUME Types, StreamInv, [Next]_vars PROVE StreamInv'
    OBVIOUS
<1>1. CASE HostConnects
    BY <1>1, StreamConnects
<1>2. CASE SnapshotPublished
    BY <1>2, StreamRecovers DEF SnapshotPublished, Publishes
<1>3. CASE HostNext /\ UNCHANGED relayVars
    <2>1. UNCHANGED <<doHead, host>>
        BY <1>3 DEF relayVars
    <2> QED BY <1>3, <2>1, StreamSends, StreamMayClose, StreamRecovers, StreamReadyAck, StreamHandles,
               StreamBarrier, StreamDirected DEF HostNext
<1>4. CASE (HostSocketClosed \/ Relays \/ Browsers) /\ UNCHANGED hostVars
    <2>1. UNCHANGED <<outbox, sent, link>>
        BY <1>4 DEF hostVars
    <2> QED BY <1>4, <2>1, StreamFails, StreamHostReady, StreamCanonical, StreamTakesOther, StreamRest
            DEF HostSocketClosed, Relays
<1>5. CASE UNCHANGED vars
    <2>1. UNCHANGED <<toRelay, outbox, sent, link, doHead, host, toHost>>
        BY <1>5 DEF vars, hostVars, relayVars, linkVars
    <2> QED BY <2>1, StreamUntouched
<1> QED BY <1>1, <1>2, <1>3, <1>4, <1>5 DEF Next

\* StreamIsContiguous: on the current connection the relay receives the host's events in
\* sequence, none missing and none twice: what is under way leads from what the relay has
\* taken to what the host has sent, through batches, retries, snapshots and reconnections.
THEOREM StreamContiguity == Spec => []StreamIsContiguous
<1>1. Init => StreamInv
    BY DEF Init, HostInit, RelayInit, StreamInv
<1>2. StreamInv => StreamIsContiguous
    BY DEF StreamInv, StreamIsContiguous, Current
<1> QED BY <1>1, <1>2, InitTypes, NextTypes, NextStream, PTL DEF Spec

-----------------------------------------------------------------------------
(* PauseHasOwner *)

\* The recovery goes on, or nothing that the pause depends on changes.
RecoveryGoesOn ==
    /\ UNCHANGED <<paused, link>>
    /\ active' = active \/ (active \in Active /\ active'.c = active.c)

LEMMA UpdatedRecovery ==
    ASSUME NEW a \in Active
    PROVE  /\ [a EXCEPT !.aborted = TRUE].c = a.c
           /\ \A p : [a EXCEPT !.phase = p].c = a.c
           /\ \A n : [a EXCEPT !.next = n].c = a.c
           /\ \A p, n : [a EXCEPT !.phase = p, !.next = n].c = a.c
           /\ \A p, n : [a EXCEPT !.phase = p, !.commit = n].c = a.c
BY DEF Active

LEMMA PauseGoesOn == ASSUME PauseHasOwner, RecoveryGoesOn PROVE PauseHasOwner'
<1>1. CASE active' = active
    BY <1>1 DEF PauseHasOwner, RecoveryGoesOn, Recovering
<1>2. CASE active \in Active /\ active'.c = active.c
    <2>1. active.c \in Clients
        BY <1>2 DEF Active
    <2>2. active' # NoActive
        BY <1>2, <2>1, Bounds DEF NoActive
    <2> QED BY <1>2, <2>2 DEF PauseHasOwner, RecoveryGoesOn, Recovering
<1> QED BY <1>1, <1>2 DEF RecoveryGoesOn

LEMMA PauseEnds == ASSUME ~paused' PROVE PauseHasOwner'
BY DEF PauseHasOwner

LEMMA ClosedIsNotPaused == ASSUME NEW reason, ClosePair(reason) PROVE ~paused'
BY DEF ClosePair

LEMMA BatchGoesOn ==
    ASSUME HostTypes, FlushDataBatch \/ ReceiveDataAck PROVE RecoveryGoesOn
<1>1. UNCHANGED <<paused, link>>
    BY DEF FlushDataBatch, ReceiveDataAck
<1>2. CASE active' = active
    BY <1>1, <1>2 DEF RecoveryGoesOn
<1>3. CASE active.phase = "queued" /\ active' = [active EXCEPT !.phase = "uncertain"]
    BY <1>1, <1>3, ActiveFacts, UpdatedRecovery DEF RecoveryGoesOn
<1> QED BY <1>2, <1>3 DEF FlushDataBatch, ReceiveDataAck, SendBatch

LEMMA OutputKeepsOwner ==
    ASSUME HostTypes, PauseHasOwner, TerminalOutput PROVE PauseHasOwner'
<1>1. CASE UNCHANGED <<link, paused, active>>
    BY <1>1, PauseGoesOn DEF RecoveryGoesOn
<1>2. CASE AbortForPressure
    BY <1>2, PauseEnds DEF AbortForPressure
<1>3. CASE ClosePair("canonical publisher queue exceeded")
    BY <1>3, PauseEnds, ClosedIsNotPaused
<1> QED BY <1>1, <1>2, <1>3 DEF TerminalOutput

LEMMA AbortKeepsOwner ==
    ASSUME HostTypes, PauseHasOwner, AbortActive, UNCHANGED link PROVE PauseHasOwner'
<1>1. CASE paused' = FALSE
    BY <1>1, PauseEnds
<1>2. CASE active' = [active EXCEPT !.aborted = TRUE] /\ UNCHANGED paused
    <2>1. active \in Active
        BY ActiveFacts DEF AbortActive
    <2> QED BY <1>2, <2>1, UpdatedRecovery, PauseGoesOn DEF RecoveryGoesOn
<1> QED BY <1>1, <1>2 DEF AbortActive

LEMMA ControlKeepsOwner ==
    ASSUME HostTypes, PauseHasOwner,
           HandleReadyAck \/ EnqueueAttach \/ HandleDeliveryReset \/ HandleBarrierResult
    PROVE  PauseHasOwner'
<1>1. CASE HandleReadyAck
    <2>1. CASE ClosePair("unexpected host-ready ACK")
        BY <2>1, PauseEnds, ClosedIsNotPaused
    <2>2. CASE link = "preparing" /\ UNCHANGED paused
        BY <2>2, PauseEnds DEF PauseHasOwner
    <2> QED BY <1>1, <2>1, <2>2 DEF HandleReadyAck
<1>2. CASE EnqueueAttach \/ HandleDeliveryReset
    <2>1. CASE ClosePair("delivery marker outcome is uncertain")
        BY <2>1, PauseEnds, ClosedIsNotPaused
    <2>2. CASE UNCHANGED <<active, paused, link>>
        BY <2>2, PauseGoesOn DEF RecoveryGoesOn
    <2>3. CASE AbortActive /\ UNCHANGED link
        BY <2>3, AbortKeepsOwner
    <2> QED BY <1>2, <2>1, <2>2, <2>3 DEF EnqueueAttach, HandleDeliveryReset
<1>3. CASE HandleBarrierResult
    <2>1. UNCHANGED link
        BY <1>3 DEF HandleBarrierResult
    <2>2. CASE UNCHANGED <<active, paused>>
        BY <2>1, <2>2, PauseGoesOn DEF RecoveryGoesOn
    <2>3. CASE paused' = FALSE
        BY <2>3, PauseEnds
    <2>4. CASE active.phase = "uncertain" /\ Outcome("ready")
        <3>1. active \in Active
            BY <2>4, ActiveFacts
        <3>2. /\ UNCHANGED paused
              /\ active' = [active EXCEPT !.phase = "pinned",
                               !.next = IF active.mode = "warm" THEN active.base ELSE active.cut]
            BY <2>4 DEF Outcome
        <3>3. active'.c = active.c
            BY <3>1, <3>2, UpdatedRecovery
        <3> QED BY <2>1, <3>1, <3>2, <3>3, PauseGoesOn DEF RecoveryGoesOn
    <2> QED BY <1>3, <2>2, <2>3, <2>4 DEF HandleBarrierResult, Outcome, Complete, Retry
<1> QED BY <1>1, <1>2, <1>3

LEMMA OwnedRecovery ==
    ASSUME NEW r \in Request, link' = "ready",
           active'.c = r.c
    PROVE  PauseHasOwner'
<1>1. r.c \in Clients
    BY DEF Request
<1>2. active' # NoActive
    BY <1>1, Bounds DEF NoActive
<1> QED BY <1>2 DEF PauseHasOwner, Recovering

LEMMA ColdKeepsOwner ==
    ASSUME NEW r \in Request, NEW aborted, link' = "ready", RecoverCold(r, aborted)
    PROVE  PauseHasOwner'
<1>1. ASSUME NEW p, DeliverPrepared(r, p, aborted) PROVE PauseHasOwner'
    <2>1. active'.c = r.c
        BY <1>1 DEF DeliverPrepared, NoActive
    <2> QED BY <2>1, OwnedRecovery
<1>2. CASE AwaitPreparation(r)
    BY <1>2, PauseEnds DEF AwaitPreparation
<1> QED BY <1>1, <1>2 DEF RecoverCold

LEMMA RecoveryKeepsOwner ==
    ASSUME HostTypes, PauseHasOwner,
           StartRecovery \/ PlanWarm \/ PlanCold \/ SendBarrier \/ SendDirected
           \/ SendReplayCommit
    PROVE  PauseHasOwner'
<1>1. CASE StartRecovery
    <2>1. PICK r \in pass :
              \/ active' = [NoActive EXCEPT !.c = r.c, !.gen = r.gen, !.base = r.base,
                               !.mode = "warm", !.phase = "pausing"]
              \/ RecoverCold(r, FALSE)
        BY <1>1 DEF StartRecovery
    <2>2. r \in Request /\ link' = "ready"
        BY <1>1, <2>1 DEF StartRecovery, HostTypes, HostTypeOK
    <2>3. CASE active' = [NoActive EXCEPT !.c = r.c, !.gen = r.gen, !.base = r.base,
                             !.mode = "warm", !.phase = "pausing"]
        <3>1. active'.c = r.c
            BY <2>3 DEF NoActive
        <3> QED BY <2>2, <3>1, OwnedRecovery
    <2> QED BY <2>1, <2>2, <2>3, ColdKeepsOwner
<1>2. ASSUME FlushThroughHead, UNCHANGED <<paused, link>>, active \in Active PROVE PauseHasOwner'
    BY <1>2, UpdatedRecovery, PauseGoesOn DEF FlushThroughHead, RecoveryGoesOn
<1>3. CASE PlanWarm
    <2>1. active \in Active /\ link' = "ready" /\ UNCHANGED link
        BY <1>3, ActiveFacts DEF PlanWarm, Pausing
    <2>2. ActiveRequest \in Request
        BY <2>1, ActiveUpdates DEF ActiveRequest
    <2> QED BY <1>2, <1>3, <2>1, <2>2, ColdKeepsOwner DEF PlanWarm
<1>4. CASE PlanCold
    <2>1. active \in Active /\ UNCHANGED link
        BY <1>4, ActiveFacts DEF PlanCold, Pausing
    <2> QED BY <1>2, <1>4, <2>1, PauseEnds DEF PlanCold, Retry
<1>5. CASE SendBarrier
    <2>1. active \in Active
        BY <1>5, ActiveFacts DEF SendBarrier
    <2>2. CASE paused' = FALSE
        BY <2>2, PauseEnds
    <2>3. CASE ClosePair("canonical publisher cannot reach the requested commit")
        BY <2>3, PauseEnds, ClosedIsNotPaused
    <2>4. CASE /\ active' = [active EXCEPT !.phase = IF DataBatch THEN "queued" ELSE "uncertain"]
               /\ UNCHANGED <<link, paused>>
        BY <2>1, <2>4, UpdatedRecovery, PauseGoesOn DEF RecoveryGoesOn
    <2> QED BY <1>5, <2>2, <2>3, <2>4 DEF SendBarrier
<1>6. CASE SendDirected
    <2>1. active \in Active
        BY <1>6, ActiveFacts DEF SendDirected
    <2>2. CASE ClosePair("delivery marker outcome is uncertain")
        BY <2>2, PauseEnds, ClosedIsNotPaused
    <2>3. CASE active' = [active EXCEPT !.next = active.next + 1] /\ UNCHANGED <<link, paused>>
        BY <2>1, <2>3, UpdatedRecovery, PauseGoesOn DEF RecoveryGoesOn
    <2> QED BY <1>6, <2>2, <2>3 DEF SendDirected
<1>7. CASE SendReplayCommit
    BY <1>7, PauseEnds DEF SendReplayCommit, Complete
<1> QED BY <1>1, <1>3, <1>4, <1>5, <1>6, <1>7

LEMMA OthersKeepOwner ==
    ASSUME PauseHasOwner,
           \/ Prepare \/ BuildSucceeds \/ Pump \/ EvictJournal \/ ExpireCheckpoint \/ TakePass
           \/ SocketCloses \/ RefuseEarlyTraffic \/ FlushFrame \/ BarrierTimeout \/ BuildFails
    PROVE  PauseHasOwner'
<1>1. CASE Prepare
    BY <1>1, PauseEnds DEF Prepare, PauseHasOwner
<1>2. CASE UNCHANGED <<paused, link, active>>
    BY <1>2, PauseGoesOn DEF RecoveryGoesOn
<1>3. CASE \E reason : ClosePair(reason)
    BY <1>3, PauseEnds, ClosedIsNotPaused
<1> QED
    BY <1>1, <1>2, <1>3
    DEF BuildSucceeds, Pump, EvictJournal, ExpireCheckpoint, TakePass, SocketCloses,
        RefuseEarlyTraffic, FlushFrame, BarrierTimeout, BuildFails

LEMMA NextKeepsOwner == Types /\ PauseHasOwner /\ [Next]_vars => PauseHasOwner'
<1> SUFFICES ASSUME Types, PauseHasOwner, [Next]_vars PROVE PauseHasOwner'
    OBVIOUS
<1>1. HostTypes
    BY DEF Types
<1>2. CASE HostConnects \/ SnapshotPublished
    BY <1>2, OthersKeepOwner DEF HostConnects, SnapshotPublished
<1>3. CASE HostNext
    BY <1>1, <1>3, OthersKeepOwner, BatchGoesOn, PauseGoesOn, OutputKeepsOwner,
       ControlKeepsOwner, RecoveryKeepsOwner DEF HostNext
<1>4. CASE UNCHANGED hostVars
    BY <1>4, PauseGoesOn DEF hostVars, RecoveryGoesOn
<1>5. CASE UNCHANGED vars
    BY <1>4, <1>5 DEF vars
<1> QED BY <1>2, <1>3, <1>4, <1>5 DEF Next

\* PauseHasOwner: the publisher is only paused for a recovery of a ready host, whatever
\* aborts, supersedes, retries or ends it, so that somebody will resume it.
THEOREM PauseIsOwned == Spec => []PauseHasOwner
<1>1. Init => PauseHasOwner
    BY DEF Init, HostInit, PauseHasOwner
<1> QED BY <1>1, InitTypes, NextTypes, NextKeepsOwner, PTL DEF Spec

-----------------------------------------------------------------------------
(* What a browser's data socket is sent *)

DataOf(c) ==
    /\ dat[c].state \in {"none", "awaiting"} =>
          dat[c].sent = NoSeq /\ dat[c].pin = NoSeq /\ dat[c].mode = "none"
    /\ dat[c].state \in {"catching", "synced"} => ctl[c] = "active"
    /\ dat[c].mode = "snapshot" => dat[c].first = dat[c].cut

ResetDue(c) == \E r \in resets : r.c = c /\ r.gen = gen[c]
HostResetDue(c) == [c |-> c, gen |-> gen[c], why |-> "host-reconnect"] \in resets
SyncOf(c) ==
    /\ dat[c].state = "synced" => host = "active"
    /\ dat[c].state = "synced" => dat[c].sent = doHead \/ ResetDue(c)
    /\ host = "active" /\ Pinned(c) => dat[c].pin = doHead \/ HostResetDue(c)

Advances(c) ==
    dat'[c] # dat[c] /\ gen'[c] = gen[c] /\ dat[c].sent # NoSeq /\ dat'[c].sent # NoSeq =>
        \/ dat'[c].sent \in {dat[c].sent, dat[c].sent + 1}
        \/ dat'[c].pin # dat[c].pin /\ dat'[c].sent = dat'[c].cut

DataInv == \A c \in Clients : DataOf(c) /\ SyncOf(c)
Kept(c) == DataOf(c)' /\ SyncOf(c)' /\ Advances(c)

LEMMA SocketIsData ==
    ASSUME RelayTypes, NEW c \in Clients
    PROVE  /\ dat[c] \in Data \/ dat[c] = NoData
           /\ dat[c].state # "none" => dat[c] \in Data
<1>1. dat[c] \in Data \cup {NoData}
    BY DEF RelayTypes, RelayTypeOK
<1>2. NoData.state = "none"
    BY DEF NoData
<1> QED BY <1>1, <1>2

LEMMA SameSocketKept ==
    ASSUME NEW c \in Clients, DataOf(c), SyncOf(c), UNCHANGED <<dat[c], ctl[c], gen[c], doHead>>,
           host' = host, resets \subseteq resets'
    PROVE  Kept(c)
<1>1. DataOf(c)' /\ Advances(c)
    BY DEF DataOf, Advances
<1>2. SyncOf(c)'
    BY DEF SyncOf, Pinned, ResetDue, HostResetDue
<1> QED BY <1>1, <1>2 DEF Kept

LEMMA NoSocketKept == ASSUME NEW c \in Clients, dat'[c] = NoData PROVE Kept(c)
BY DEF Kept, DataOf, SyncOf, Pinned, Advances, NoData

LEMMA HostDownKept ==
    ASSUME RelayTypes, NEW c \in Clients, DataOf(c), SyncOf(c), UNCHANGED <<ctl[c], gen[c]>>,
           host' # "active", dat' = CatchingUp(dat) \/ (host # "active" /\ UNCHANGED dat)
    PROVE  Kept(c)
<1>1. CASE dat'[c] = dat[c] /\ dat[c].state # "synced"
    BY <1>1 DEF Kept, DataOf, SyncOf, Advances
<1>2. CASE dat[c].state = "synced" /\ dat'[c] = [dat[c] EXCEPT !.state = "catching"]
    <2>1. dat[c] \in Data
        BY <1>2, SocketIsData
    <2>2. /\ dat'[c].state = "catching" /\ dat'[c].sent = dat[c].sent
          /\ dat'[c].mode = dat[c].mode /\ dat'[c].first = dat[c].first /\ dat'[c].cut = dat[c].cut
        BY <1>2, <2>1 DEF Data
    <2> QED BY <1>2, <2>2 DEF Kept, DataOf, SyncOf, Advances
<1> QED BY <1>1, <1>2 DEF CatchingUp, SyncOf

LEMMA FailKept ==
    ASSUME RelayTypes, NEW c \in Clients, DataOf(c), SyncOf(c), NEW reason,
           FailCurrentHost(reason)
    PROVE  Kept(c)
BY HostDownKept DEF FailCurrentHost

LEMMA PairedKept ==
    ASSUME RelayTypes, NEW c \in Clients, DataOf(c), SyncOf(c), HostPaired PROVE Kept(c)
BY HostDownKept DEF HostPaired

\* A host-ready moves the head, but every pinned delivery is about to be reset.
LEMMA HostReadyKept ==
    ASSUME RelayTypes, NEW c \in Clients, DataOf(c), SyncOf(c), HostReady PROVE Kept(c)
<1> DEFINE due == {[c |-> b, gen |-> gen[b], why |-> "host-reconnect"] :
                      b \in {x \in Clients : ctl[x] = "active"}}
<1>1. CASE FailCurrentHost("host state does not match session")
    BY <1>1, FailKept
<1>2. CASE resets' = resets \cup due /\ UNCHANGED <<gen, ctl, dat>>
    <2>1. host = "paired"
        BY DEF HostReady, Processes
    <2>2. Pinned(c)' => HostResetDue(c)'
        BY <1>2 DEF Pinned, HostResetDue, DataOf
    <2> QED BY <1>2, <2>1, <2>2 DEF Kept, DataOf, SyncOf, Advances
<1> QED BY <1>1, <1>2 DEF HostReady

LEMMA CanonicalKept ==
    ASSUME RelayTypes, NEW c \in Clients, DataOf(c), SyncOf(c), CanonicalEvent PROVE Kept(c)
<1> DEFINE seq == Head(toRelay).seq
           synced == {b \in Clients : dat[b].state = "synced"}
           gaps == {b \in synced : ~ContinuesCursor(dat[b], seq)}
           slow == {b \in synced \ gaps : ExceedsCredit(dat[b], seq)}
           due(why, S) == {[c |-> b, gen |-> gen[b], why |-> why] : b \in S}
<1>1. CASE FailCurrentHost("canonical data sequence gap")
    BY <1>1, FailKept
<1>2. CASE ~FailCurrentHost("canonical data sequence gap")
    <2>1. PICK broken \in SUBSET (synced \ (gaps \cup slow)) :
             /\ dat' = [b \in Clients |->
                           IF b \in synced \ (gaps \cup slow \cup broken)
                           THEN [dat[b] EXCEPT !.sent = seq] ELSE dat[b]]
             /\ resets' = ((resets \cup due("journal-gap", gaps)) \cup due("slow-client", slow))
                             \cup due("data-disconnected", broken)
        BY <1>2 DEF CanonicalEvent
    <2>2. /\ doHead' = seq /\ UNCHANGED <<host, gen, ctl>>
          /\ ~Pinned(c)
        BY <1>2 DEF CanonicalEvent
    <2>3. CASE c \in synced \ (gaps \cup slow \cup broken)
        <3>1. dat[c] \in Data /\ dat[c].state = "synced"
            BY <2>3, SocketIsData
        <3>2. dat'[c] = [dat[c] EXCEPT !.sent = seq] /\ seq = dat[c].sent + 1
            BY <2>1, <2>3 DEF ContinuesCursor
        <3>3. /\ dat'[c].state = "synced" /\ dat'[c].sent = seq
              /\ dat'[c].mode = dat[c].mode /\ dat'[c].first = dat[c].first
              /\ dat'[c].cut = dat[c].cut
            BY <3>1, <3>2 DEF Data
        <3> HIDE DEF seq, synced, gaps, slow, due
        <3>4. DataOf(c)' /\ Advances(c)
            BY <2>2, <3>1, <3>2, <3>3 DEF DataOf, Advances
        <3>5. SyncOf(c)'
            BY <2>2, <3>1, <3>3 DEF SyncOf, Pinned
        <3> QED BY <3>4, <3>5 DEF Kept
    <2>4. CASE c \in gaps \cup slow \cup broken
        <3>1. dat'[c] = dat[c] /\ dat[c].state = "synced"
            BY <2>1, <2>4
        <3>2. \E why : [c |-> c, gen |-> gen[c], why |-> why] \in resets'
            BY <2>1, <2>4, ZenonT(60)
        <3>3. ResetDue(c)'
            BY <2>2, <3>2 DEF ResetDue
        <3> HIDE DEF seq, synced, gaps, slow, due
        <3> QED BY <2>2, <3>1, <3>3 DEF Kept, DataOf, SyncOf, Pinned, Advances
    <2>5. CASE c \notin synced
        <3>1. dat'[c] = dat[c] /\ dat[c].state # "synced"
            BY <2>1, <2>5
        <3> HIDE DEF seq, synced, gaps, slow, due
        <3> QED BY <2>2, <3>1 DEF Kept, DataOf, SyncOf, Pinned, Advances
    <2> QED BY <2>3, <2>4, <2>5
<1> QED BY <1>1, <1>2

\* A barrier that is accepted pins a delivery that has not begun, at the relay's head.
LEMMA PinKept ==
    ASSUME RelayTypes, NEW c \in Clients, DataOf(c), SyncOf(c), NEW id \in Identity, id.c = c,
           dat[c].state = "catching", Unadvanced(dat[c]), id.commit = doHead,
           \/ dat[c].pin = NoSeq
           \/ dat[c].mode = id.mode /\ dat[c].cut = id.cut /\ dat[c].pin = id.commit,
           dat'[c] = PinnedData(dat[c], id), UNCHANGED <<ctl[c], gen[c], doHead>>, host' = host
    PROVE  Kept(c)
<1>1. dat[c] \in Data /\ doHead \in Seqs /\ id.mode \in {"warm", "snapshot"}
    BY SocketIsData DEF RelayTypes, RelayTypeOK, Identity
<1>2. dat'[c].state = "catching" /\ dat'[c].pin = doHead
    BY <1>1 DEF PinnedData, Data
<1>3. SyncOf(c)'
    BY <1>2 DEF SyncOf
<1>4. CASE id.mode = "warm"
    <2>1. /\ dat'[c].sent = dat[c].sent /\ dat'[c].mode = "warm"
        BY <1>1, <1>4 DEF PinnedData, Data
    <2> QED BY <1>2, <1>3, <2>1 DEF Kept, DataOf, Advances
<1>5. CASE id.mode = "snapshot"
    <2>1. dat'[c].sent = id.cut /\ dat'[c].first = id.cut /\ dat'[c].cut = id.cut
        BY <1>1, <1>5 DEF PinnedData, Data
    <2>2. dat'[c].pin = dat[c].pin => dat[c].sent = dat'[c].sent
        BY <1>1, <1>2, <1>5, <2>1 DEF DataOf, Unadvanced, Seqs, NoSeq
    <2>3. Advances(c)
        BY <2>1, <2>2 DEF Advances
    <2> QED BY <1>2, <1>3, <2>1, <2>3 DEF Kept, DataOf
<1> QED BY <1>1, <1>4, <1>5

LEMMA BarrierKept ==
    ASSUME RelayTypes, NEW c \in Clients, DataOf(c), SyncOf(c), HandleBarrier PROVE Kept(c)
<1> DEFINE id == Head(toRelay).id
<1>1. CASE \/ FailCurrentHost("delivery barrier does not match canonical head")
           \/ FailCurrentHost("delivery barrier conflicts with active delivery")
           \/ FailCurrentHost("delivery barrier conflicts with pinned delivery")
    BY <1>1, FailKept
<1>2. CASE ~ \/ FailCurrentHost("delivery barrier does not match canonical head")
             \/ FailCurrentHost("delivery barrier conflicts with active delivery")
             \/ FailCurrentHost("delivery barrier conflicts with pinned delivery")
    <2>1. id \in Identity /\ id.c \in Clients
        <3>1. Head(toRelay) \in RelayFrame /\ Head(toRelay).kind = "barrier"
            BY ProcessesHead DEF HandleBarrier, Processes
        <3>2. id \in Identity
            BY <3>1 DEF RelayFrame
        <3> QED BY <3>2 DEF Identity
    <2>2. /\ id.commit = doHead
          /\ id.gen = gen[id.c] /\ ~Gone(id.c) =>
                /\ dat[id.c].state = "catching" /\ Unadvanced(dat[id.c])
                /\ \/ dat[id.c].pin = NoSeq
                   \/ /\ dat[id.c].mode = id.mode /\ dat[id.c].cut = id.cut
                      /\ dat[id.c].pin = id.commit
        BY <1>2 DEF HandleBarrier
    <2>3. UNCHANGED <<doHead, host, gen, resets>>
        BY <1>2 DEF HandleBarrier
    <2>4. \/ UNCHANGED <<ctl, dat>>
          \/ "ready" \in Answers(id) /\ PinDelivery(id)
        BY <1>2 DEF HandleBarrier
    <2>5. CASE UNCHANGED <<ctl, dat>>
        BY <2>3, <2>5, SameSocketKept
    <2>6. CASE "ready" \in Answers(id) /\ dat' = [dat EXCEPT ![id.c] = PinnedData(dat[id.c], id)]
               /\ UNCHANGED ctl
        <3>1. id.gen = gen[id.c] /\ ~Gone(id.c)
            BY <2>6 DEF Answers
        <3>2. CASE c = id.c
            <4>1. dat'[c] = PinnedData(dat[c], id)
                BY <2>1, <2>6, <3>2 DEF RelayTypes, RelayTypeOK
            <4> HIDE DEF id
            <4> QED BY <2>1, <2>2, <2>3, <2>6, <3>1, <3>2, <4>1, PinKept
        <3>3. CASE c # id.c
            <4>1. dat'[c] = dat[c]
                BY <2>6, <3>3 DEF RelayTypes, RelayTypeOK
            <4> QED BY <2>3, <2>6, <4>1, SameSocketKept
        <3> QED BY <3>2, <3>3
    <2>7. CASE Isolate(id.c)
        <3>1. c = id.c => dat'[c] = NoData
            BY <2>7 DEF Isolate, RelayTypes, RelayTypeOK
        <3>2. c # id.c => dat'[c] = dat[c] /\ ctl'[c] = ctl[c]
            BY <2>7 DEF Isolate, RelayTypes, RelayTypeOK
        <3> QED BY <2>3, <3>1, <3>2, NoSocketKept, SameSocketKept
    <2> QED BY <2>4, <2>5, <2>6, <2>7 DEF PinDelivery
<1> QED BY <1>1, <1>2

LEMMA DirectedKept ==
    ASSUME RelayTypes, NEW c \in Clients, DataOf(c), SyncOf(c), DirectedFrame PROVE Kept(c)
<1> DEFINE f == Head(toRelay)
           d == dat[f.c]
<1>1. f.c \in Clients /\ f.seq \in Seqs /\ SerialIdle /\ host = "active"
    <2>1. f \in RelayFrame /\ f.kind \in {"directed", "commit"}
        BY ProcessesHead DEF DirectedFrame, Processes
    <2> QED BY <2>1 DEF RelayFrame, DirectedFrame, Processes
<1>2. CASE \/ FailCurrentHost("directed replay exceeds pinned commit")
           \/ FailCurrentHost("directed replay sequence gap")
    BY <1>2, FailKept
<1>3. CASE /\ UNCHANGED <<doHead, host, gen, ctl>> /\ resets \subseteq resets'
           /\ UNCHANGED dat
    BY <1>3, SameSocketKept
<1>4. CASE /\ UNCHANGED <<doHead, host, gen, ctl>> /\ resets \subseteq resets'
           /\ dat' = [dat EXCEPT ![f.c] = Delivered(d, f)]
           /\ WithinPin(d, f) /\ ContinuesReplay(d, f)
    <2>1. CASE c # f.c
        <3>1. dat'[c] = dat[c]
            BY <1>4, <2>1 DEF RelayTypes, RelayTypeOK
        <3> QED BY <1>4, <3>1, SameSocketKept
    <2>2. CASE c = f.c
        <3>1. dat'[c] = Delivered(dat[c], f) /\ dat[c].state = "catching" /\ dat[c].sent # NoSeq
            BY <1>4, <2>2 DEF RelayTypes, RelayTypeOK, ContinuesReplay
        <3>2. dat[c] \in Data
            BY <3>1, SocketIsData
        <3>3. CASE f.kind = "commit"
            <4>1. f.seq = dat[c].pin /\ f.seq = dat[c].sent
                BY <1>4, <2>2, <3>3 DEF WithinPin, ContinuesReplay
            <4>2. Pinned(c)
                BY <1>1, <3>1, <4>1 DEF Pinned, Seqs, NoSeq
            <4>3. ~HostResetDue(c)
                BY <1>1 DEF SerialIdle, HostResetDue
            <4>4. dat[c].sent = doHead
                BY <1>1, <4>1, <4>2, <4>3 DEF SyncOf
            <4>5. /\ dat'[c].state = "synced" /\ dat'[c].sent = dat[c].sent
                  /\ dat'[c].mode = dat[c].mode /\ dat'[c].first = dat[c].first
                  /\ dat'[c].cut = dat[c].cut
                BY <3>1, <3>2, <3>3 DEF Delivered, Data
            <4> HIDE DEF f, d
            <4> QED BY <1>1, <1>4, <3>1, <4>4, <4>5 DEF Kept, DataOf, SyncOf, Pinned, Advances
        <3>4. CASE f.kind # "commit"
            <4>1. /\ dat'[c].state = dat[c].state /\ dat'[c].sent = dat[c].sent + 1
                  /\ dat'[c].mode = dat[c].mode /\ dat'[c].first = dat[c].first
                  /\ dat'[c].cut = dat[c].cut /\ dat'[c].pin = dat[c].pin
                BY <1>4, <2>2, <3>1, <3>2, <3>4 DEF Delivered, Data, ContinuesReplay
            <4>2. DataOf(c)' /\ Advances(c)
                BY <1>4, <3>1, <4>1 DEF DataOf, Advances
            <4>3. SyncOf(c)'
                BY <1>4, <3>1, <4>1 DEF SyncOf, Pinned, HostResetDue
            <4> QED BY <4>2, <4>3 DEF Kept
        <3> QED BY <3>3, <3>4
    <2> QED BY <2>1, <2>2
<1> QED BY <1>2, <1>3, <1>4 DEF DirectedFrame

LEMMA ResetKept ==
    ASSUME RelayTypes, NEW c \in Clients, DataOf(c), SyncOf(c), FinishReset PROVE Kept(c)
<1>1. PICK r \in resets :
          /\ resets' = resets \ {r}
          /\ IF gen[r.c] = r.gen /\ ctl[r.c] = "active" THEN ReplaceDelivery(r)
             ELSE UNCHANGED <<gen, ctl, dat>>
    BY DEF FinishReset
<1>2. r.c \in Clients
    BY <1>1 DEF RelayTypes, RelayTypeOK, Reset
<1>3. UNCHANGED <<doHead, host>>
    BY DEF FinishReset
<1>4. CASE r.c = c /\ ReplaceDelivery(r)
    <2>1. dat'[c] = NoData
        BY <1>2, <1>4 DEF ReplaceDelivery, Isolate, RelayTypes, RelayTypeOK
    <2> QED BY <2>1, NoSocketKept
<1>5. CASE r.c # c \/ ~ReplaceDelivery(r)
    <2>1. UNCHANGED <<dat[c], ctl[c], gen[c]>>
        BY <1>1, <1>2, <1>5 DEF ReplaceDelivery, Isolate, RelayTypes, RelayTypeOK
    <2>2. dat[c].state \in {"catching", "synced"} => ~(r.c = c /\ r.gen = gen[c])
        BY <1>1, <1>5 DEF DataOf
    <2>3. DataOf(c)' /\ Advances(c)
        BY <2>1 DEF DataOf, Advances
    <2>4. SyncOf(c)'
        BY <1>1, <1>3, <2>1, <2>2 DEF SyncOf, Pinned, ResetDue, HostResetDue
    <2> QED BY <2>3, <2>4 DEF Kept
<1> QED BY <1>4, <1>5

LEMMA BrowserKept ==
    ASSUME RelayTypes, NEW c \in Clients, DataOf(c), SyncOf(c), Browsers PROVE Kept(c)
<1>1. PICK b \in Clients :
        \/ BrowserConnects(b) \/ BrowserOpensData(b) \/ BrowserAttaches(b)
        \/ BrowserAcknowledges(b) \/ BrowserDataCloses(b) \/ BrowserCloses(b)
    BY DEF Browsers
<1>2. UNCHANGED <<doHead, host>> /\ resets \subseteq resets'
    BY <1>1
    DEF BrowserConnects, BrowserOpensData, BrowserAttaches, BrowserAcknowledges,
        BrowserDataCloses, BrowserCloses
<1>3. /\ dat \in [Clients -> Data \cup {NoData}]
      /\ ctl \in [Clients -> {"none", "awaiting", "active"}]
      /\ gen \in [Clients -> 0 .. MaxGen]
    BY DEF RelayTypes, RelayTypeOK
<1>4. CASE b # c
    <2>1. UNCHANGED <<dat[c], ctl[c], gen[c]>>
        BY <1>1, <1>3, <1>4
        DEF BrowserConnects, BrowserOpensData, BrowserAttaches, BrowserAcknowledges,
            BrowserDataCloses, BrowserCloses, Isolate
    <2> QED BY <1>2, <2>1, SameSocketKept
<1>5. CASE b = c
    <2>1. CASE BrowserConnects(c) \/ BrowserDataCloses(c) \/ BrowserCloses(c)
        <3>1. dat'[c] = NoData
            BY <1>3, <2>1 DEF BrowserConnects, BrowserDataCloses, BrowserCloses, Isolate
        <3> QED BY <3>1, NoSocketKept
    <2>2. CASE BrowserOpensData(c)
        <3>1. /\ dat'[c].state = "awaiting" /\ dat'[c].sent = NoSeq /\ dat'[c].pin = NoSeq
              /\ dat'[c].mode = "none" /\ dat[c].sent = NoSeq
            BY <1>3, <2>2 DEF BrowserOpensData, NoData
        <3> QED BY <3>1 DEF Kept, DataOf, SyncOf, Pinned, Advances
    <2>3. CASE BrowserAttaches(c)
        <3>1. dat[c] \in Data /\ dat[c].state = "awaiting"
            BY <2>3, SocketIsData DEF BrowserAttaches
        <3>2. /\ dat'[c].state = "catching" /\ dat'[c].mode = dat[c].mode
              /\ dat'[c].pin = dat[c].pin /\ ctl'[c] = "active"
            BY <1>3, <2>3, <3>1 DEF BrowserAttaches, Data
        <3> QED BY <3>1, <3>2 DEF Kept, DataOf, SyncOf, Pinned, Advances
    <2>4. CASE BrowserAcknowledges(c)
        <3>1. dat[c] \in Data /\ dat[c].sent # NoSeq
            BY <2>4, SocketIsData DEF BrowserAcknowledges, NoData
        <3>2. /\ UNCHANGED <<ctl[c], gen[c]>> /\ resets' = resets
              /\ dat'[c].state = dat[c].state /\ dat'[c].sent = dat[c].sent
              /\ dat'[c].mode = dat[c].mode /\ dat'[c].pin = dat[c].pin
              /\ dat'[c].first = dat[c].first /\ dat'[c].cut = dat[c].cut
            BY <1>3, <2>4, <3>1 DEF BrowserAcknowledges, Data
        <3>3. DataOf(c)' /\ Advances(c)
            BY <3>2 DEF DataOf, Advances
        <3>4. SyncOf(c)'
            BY <1>2, <3>2 DEF SyncOf, Pinned, ResetDue, HostResetDue
        <3> QED BY <3>3, <3>4 DEF Kept
    <2> QED BY <1>1, <1>5, <2>1, <2>2, <2>3, <2>4
<1> QED BY <1>4, <1>5

LEMMA NextKept ==
    ASSUME RelayTypes, DataInv, [Next]_vars, NEW c \in Clients PROVE Kept(c)
<1>1. DataOf(c) /\ SyncOf(c)
    BY DEF DataInv
<1>2. CASE HostConnects
    BY <1>1, <1>2, PairedKept DEF HostConnects
<1>3. CASE SnapshotPublished
    BY <1>1, <1>3, SameSocketKept DEF SnapshotPublished, Publishes
<1>4. CASE UNCHANGED relayVars
    BY <1>1, <1>4, SameSocketKept DEF relayVars
<1>5. CASE HostSocketClosed
    BY <1>1, <1>5, FailKept DEF HostSocketClosed
<1>6. CASE Relays
    <2>1. CASE SendDataAck
        BY <1>4, <2>1 DEF SendDataAck
    <2> QED
        BY <1>1, <1>6, <2>1, HostReadyKept, CanonicalKept, BarrierKept, DirectedKept, ResetKept
        DEF Relays
<1>7. CASE Browsers
    BY <1>1, <1>7, BrowserKept
<1>8. CASE UNCHANGED vars
    BY <1>4, <1>8 DEF vars
<1> QED BY <1>2, <1>3, <1>4, <1>5, <1>6, <1>7, <1>8 DEF Next

LEMMA InitData == Init => DataInv
BY DEF Init, RelayInit, DataInv, DataOf, SyncOf, Pinned, NoData

LEMMA NextData == Types /\ DataInv /\ [Next]_vars => DataInv'
BY NextKept DEF Types, DataInv, Kept

\* SyncedIsCurrent: a delivery is pinned at the relay's head, the head only moves without a
\* pin or with a reset of every delivery, and whatever a synced browser is not sent ends in
\* a reset.
THEOREM SyncedStaysCurrent == Spec => []SyncedIsCurrent
<1>1. DataInv => SyncedIsCurrent
    BY DEF DataInv, SyncOf, ResetDue, SyncedIsCurrent
<1> QED BY <1>1, InitTypes, InitData, NextTypes, NextData, PTL DEF Spec

\* DeliveryIsContiguous: within one delivery a data socket is sent the next event and no
\* other, except that an accepted snapshot barrier moves it to the snapshot's cut.
THEOREM DeliveryContiguity == Spec => DeliveryIsContiguous
<1>1. Types /\ DataInv /\ [Next]_vars =>
          [\A c \in Clients :
              dat'[c] # dat[c] /\ gen'[c] = gen[c] /\ dat[c].sent # NoSeq
              /\ dat'[c].sent # NoSeq =>
                  \/ dat'[c].sent \in {dat[c].sent, dat[c].sent + 1}
                  \/ dat'[c].pin # dat[c].pin /\ dat'[c].sent = dat'[c].cut]_vars
    BY NextKept DEF Types, Kept, Advances
<1> QED BY <1>1, InitTypes, InitData, NextTypes, NextData, PTL DEF Spec, DeliveryIsContiguous

-----------------------------------------------------------------------------
(* That the host and the relay agree about recoveries, when data is not batched: no        *)
(* barrier and no replay is refused, no canonical event finds a delivery pinned, one        *)
(* delivery is pinned at a time.                                                            *)
(*                                                                                          *)
(* The invariant follows a request from its attachment to its barrier: it waits in one      *)
(* place, and its delivery stays as it attached until the barrier's answer is on its way.   *)
(* It then follows the replay frame by frame: a barrier is the last frame on the wire, a    *)
(* replay the first, and what the wire still carries of it starts where the delivery's      *)
(* cursor is.                                                                               *)
-----------------------------------------------------------------------------
(* The invariant of recoveries *)

Shared(k, rs) == \E r \in rs : Key(r) = k
Building == IF build.current THEN {BuildRequest} ELSE {}
AttachAt(i) == toHost[i].kind = "attach-request"
ResultAt(i) == toHost[i].kind = "result"
Known(k) ==
    \/ Shared(k, pend) \/ Shared(k, pass) \/ Shared(k, Building)
    \/ Recovering /\ Key(active) = k

\* A recovery holds the publisher from its capture on, unless it has been aborted.
PhaseInv ==
    /\ active.phase # "queued"
    /\ active.phase = "uncertain" => ~active.aborted
    /\ active.phase \in {"uncertain", "pinned"} => paused
    /\ active.phase \in {"pausing", "flushing"} /\ ~active.aborted => paused

\* A host that is not ready has no request.
Idle == link # "ready" => pend = {} /\ pass = {} /\ active = NoActive /\ build = NoBuild

\* A delivery has one request, wherever it waits, but for a recovery that is being aborted
\* and a build of the same delivery.
PassApart ==
    /\ \A p, q \in pass : p.c = q.c => p = q
    /\ \A p \in pass : ~Shared(Key(p), pend) /\ ~Shared(Key(p), Building)
    /\ Recovering => ~Shared(Key(active), pass)
BuildApart ==
    /\ build # NoBuild => cache = NoSeq
    /\ build.current => Key(build) \in cold /\ ~Prepared(build)
    /\ build.current /\ Recovering => Key(active) # Key(build)
QueueInv ==
    /\ Idle
    /\ \A p, q \in pend : p.c = q.c => p = q
    /\ PassApart
    /\ BuildApart
    /\ Recovering /\ Shared(Key(active), pend) =>
          active.aborted /\ active.phase \in {"pausing", "flushing"}
AttachInv == link # "down" =>
    \A i \in DOMAIN toHost : AttachAt(i) =>
        /\ ~Known(Key(toHost[i].req))
        /\ \A j \in DOMAIN toHost :
              AttachAt(j) /\ i # j => Key(toHost[i].req) # Key(toHost[j].req)

\* The generation k[2] of the client k[1] has been attached.
DataClosing(c) == [c |-> c, gen |-> gen[c], why |-> "data-closed"] \in resets
Attached(c) ==
    \/ ctl[c] = "none"
    \/ dat[c].state \in {"catching", "synced"}
    \/ ctl[c] = "active" /\ dat[c] = NoData /\ DataClosing(c)
Old(k) == k[2] < gen[k[1]] \/ (k[2] = gen[k[1]] /\ Attached(k[1]))

\* Nothing has been delivered to k but its attachment.
Fresh(d) == d.state = "catching" /\ Unadvanced(d) /\ d.pin = NoSeq /\ d.mode = "none"
Untouched(k) == k[2] = gen[k[1]] /\ dat[k[1]].state # "none" => Fresh(dat[k[1]])
From(r) == r.gen = gen[r.c] /\ dat[r.c].state # "none" => dat[r.c].first = r.base
Waiting(r) == Untouched(Key(r)) /\ From(r) /\ Old(Key(r))

\* The active recovery's barrier has been answered with "ready".
Served ==
    active.phase = "pinned" \/ \E i \in DOMAIN toHost : ResultAt(i) /\ toHost[i].status = "ready"
Wanted(r) ==
    \/ r \in pend \cup pass \cup Building
    \/ Recovering /\ ~Served /\ r = ActiveRequest
    \/ \E i \in DOMAIN toHost : AttachAt(i) /\ r = toHost[i].req

BarrierAt(i) == toRelay[i].kind = "barrier"
ReplayAt(i) == toRelay[i].kind \in {"directed", "commit"}
DirectedAt(i, k) == toRelay[i].kind = "directed" /\ Key(toRelay[i]) = k

\* A request waits for a delivery that is as it was when it attached, until its barrier has
\* been answered.
RequestsInv ==
    /\ link # "down" => \A r \in Request : Wanted(r) => Waiting(r)
    /\ link # "down" /\ Recovering => Old(Key(active))
    /\ \A i \in DOMAIN toRelay : BarrierAt(i) => Untouched(Key(toRelay[i].id)) /\ Old(Key(toRelay[i].id))
    /\ \A i \in DOMAIN toRelay : ReplayAt(i) => Old(Key(toRelay[i]))

\* A barrier is the last frame on the wire, and a replay the first frames: its directed
\* frames, then its commit.
BarrierInv == \A i \in DOMAIN toRelay : BarrierAt(i) =>
    /\ i = Len(toRelay) /\ toRelay[i].id.commit = sent
    /\ link = "ready" => active.phase = "uncertain" /\ toRelay[i].id = ActiveIdentity
RunInv ==
    /\ \A j \in DOMAIN toRelay : ReplayAt(j) =>
          \A i \in 1 .. j - 1 : DirectedAt(i, Key(toRelay[j]))
    /\ \A i \in DOMAIN toRelay : toRelay[i].kind = "directed" =>
          IF i = Len(toRelay)
          THEN link = "ready" => active.phase = "pinned" /\ Key(toRelay[i]) = Key(active)
          ELSE ReplayAt(i + 1)
    /\ link = "ready" /\ active.phase = "pinned" =>
          \A i \in DOMAIN toRelay : DirectedAt(i, Key(active))
ResultInv == link # "down" =>
    \A i, j \in DOMAIN toHost : ResultAt(i) /\ ResultAt(j) =>
        /\ link = "ready" /\ active.phase = "uncertain" /\ toHost[i].id = ActiveIdentity
        /\ toRelay = <<>> /\ i = j
WireInv ==
    /\ link = "preparing" => \A i \in DOMAIN toRelay : toRelay[i].kind = "host-ready"
    /\ BarrierInv /\ RunInv /\ ResultInv

\* A frame of a replay, i-th on the wire, goes on where the delivery's cursor will be.
ResetBySerial(c) == \E r \in resets : r.c = c /\ r.gen = gen[c] /\ r.why # "data-closed"
Feeds(k) == k[2] = gen[k[1]] /\ dat[k[1]].state = "catching" /\ ~ResetBySerial(k[1])
Start == IF active.mode = "warm" THEN active.base ELSE active.cut
Follows(d, f, i) ==
    /\ d.mode # "none" /\ d.sent # NoSeq
    /\ IF f.kind = "directed" THEN f.seq = d.sent + i /\ f.seq <= d.pin
       ELSE f.seq = d.sent + i - 1 /\ f.seq = d.pin
PinnedFor(d) == d.mode # "none" /\ d.sent # NoSeq /\ d.pin = active.commit
FramesFollow ==
    \A i \in DOMAIN toRelay : ReplayAt(i) /\ Feeds(Key(toRelay[i])) =>
        Follows(dat[toRelay[i].c], toRelay[i], i)
ReplayGoesOn ==
    link = "ready" /\ active.phase = "pinned" /\ Feeds(Key(active)) =>
        PinnedFor(dat[active.c]) /\ dat[active.c].sent + Len(toRelay) = active.next
ReplayStarts ==
    link = "ready" => \A i \in DOMAIN toHost :
        ResultAt(i) /\ toHost[i].status = "ready" /\ Feeds(Key(active)) =>
            PinnedFor(dat[active.c]) /\ dat[active.c].sent = Start
ReplayInv == host = "active" => FramesFollow /\ ReplayGoesOn /\ ReplayStarts

\* A pinned delivery is the one being replayed, or its reset has begun.
PinHeld(c) ==
    \/ ResetBySerial(c)
    \/ \E i \in DOMAIN toRelay : toRelay[i].kind = "commit" /\ Key(toRelay[i]) = <<c, gen[c]>>
    \/ /\ \A i \in DOMAIN toRelay : DirectedAt(i, <<c, gen[c]>>)
       /\ link # "preparing"
       /\ link = "ready" => Recovering /\ Served /\ Key(active) = <<c, gen[c]>>
PinInv ==
    /\ host = "active" => \A c \in Clients : Pinned(c) => PinHeld(c)
    /\ host = "active" /\ ~readying => \A b, c \in Clients : Pinned(b) /\ Pinned(c) => b = c
    /\ host = "active" /\ readying => \A c \in Clients : Pinned(c) => HostResetDue(c)
    /\ host # "active" => ~readying

\* A recovery from a snapshot has one.
CutInv == active.mode = "snapshot" => active.cut \in Seqs

\* A client without a control socket has no delivery.
ControlInv == \A c \in Clients : ctl[c] = "none" => dat[c].state = "none"

RecoveryInv ==
    /\ PhaseInv /\ QueueInv /\ AttachInv /\ RequestsInv /\ WireInv /\ ReplayInv /\ PinInv
    /\ CutInv /\ ControlInv /\ RecoveryIsAccepted /\ PinPausesStream

-----------------------------------------------------------------------------
(* Sequences *)

LEMMA TailAt ==
    ASSUME NEW S, NEW s \in Seq(S), s # <<>>
    PROVE  /\ Len(s) \in Nat \ {0} /\ Len(Tail(s)) = Len(s) - 1 /\ s[1] = Head(s)
           /\ DOMAIN s = 1 .. Len(s) /\ DOMAIN Tail(s) = 1 .. Len(s) - 1
           /\ \A i \in DOMAIN Tail(s) : i + 1 \in DOMAIN s /\ Tail(s)[i] = s[i + 1]
           /\ \A i \in DOMAIN s : i # 1 => i - 1 \in DOMAIN Tail(s) /\ Tail(s)[i - 1] = s[i]
<1>1. /\ Len(s) \in Nat \ {0} /\ DOMAIN s = 1 .. Len(s)
    BY LenProperties, EmptySeq
<1>2. /\ Tail(s) \in Seq(S) /\ Len(Tail(s)) = Len(s) - 1
      /\ \A i \in 1 .. Len(Tail(s)) : Tail(s)[i] = s[i + 1]
    BY HeadTailProperties
<1>3. DOMAIN Tail(s) = 1 .. Len(s) - 1
    BY <1>2, LenProperties
<1>4. s[1] = Head(s)
    BY <1>1
<1> QED BY <1>1, <1>2, <1>3, <1>4

LEMMA LastAt ==
    ASSUME NEW S, NEW s \in Seq(S), NEW f \in S
    PROVE  /\ Len(s) \in Nat /\ Len(s \o <<f>>) = Len(s) + 1
           /\ s \o <<f>> \in Seq(S)
           /\ DOMAIN s = 1 .. Len(s) /\ DOMAIN (s \o <<f>>) = 1 .. Len(s) + 1
           /\ \A i \in DOMAIN s : (s \o <<f>>)[i] = s[i]
           /\ (s \o <<f>>)[Len(s) + 1] = f
<1>1. Len(s) \in Nat /\ DOMAIN s = 1 .. Len(s)
    BY LenProperties
<1>2. <<f>> \in Seq(S) /\ Len(<<f>>) = 1 /\ <<f>>[1] = f
    OBVIOUS
<1>3. /\ s \o <<f>> \in Seq(S) /\ Len(s \o <<f>>) = Len(s) + 1
      /\ \A i \in 1 .. Len(s) + 1 : (s \o <<f>>)[i] = IF i <= Len(s) THEN s[i] ELSE <<f>>[i - Len(s)]
    BY <1>2, ConcatProperties
<1>4. DOMAIN (s \o <<f>>) = 1 .. Len(s) + 1
    BY <1>3, LenProperties
<1>5. \A i \in DOMAIN s : (s \o <<f>>)[i] = s[i]
    BY <1>1, <1>3
<1>6. (s \o <<f>>)[Len(s) + 1] = f
    <2>1. Len(s) + 1 \in 1 .. Len(s) + 1 /\ ~(Len(s) + 1 <= Len(s)) /\ Len(s) + 1 - Len(s) = 1
        BY <1>1
    <2> QED BY <1>2, <1>3, <2>1
<1> QED BY <1>1, <1>3, <1>4, <1>5, <1>6

-----------------------------------------------------------------------------
(* PhaseInv *)

LEMMA Updated ==
    ASSUME NEW a \in Active, NEW p, NEW n
    PROVE  /\ LET b == [a EXCEPT !.aborted = TRUE]
              IN  /\ b.aborted = TRUE /\ b.phase = a.phase /\ b.next = a.next /\ b.commit = a.commit
                  /\ b.c = a.c /\ b.gen = a.gen /\ b.base = a.base /\ b.mode = a.mode /\ b.cut = a.cut
           /\ LET b == [a EXCEPT !.phase = p]
              IN  /\ b.aborted = a.aborted /\ b.phase = p /\ b.next = a.next /\ b.commit = a.commit
                  /\ b.c = a.c /\ b.gen = a.gen /\ b.base = a.base /\ b.mode = a.mode /\ b.cut = a.cut
           /\ LET b == [a EXCEPT !.next = n]
              IN  /\ b.aborted = a.aborted /\ b.phase = a.phase /\ b.next = n /\ b.commit = a.commit
                  /\ b.c = a.c /\ b.gen = a.gen /\ b.base = a.base /\ b.mode = a.mode /\ b.cut = a.cut
           /\ LET b == [a EXCEPT !.phase = p, !.next = n]
              IN  /\ b.aborted = a.aborted /\ b.phase = p /\ b.next = n /\ b.commit = a.commit
                  /\ b.c = a.c /\ b.gen = a.gen /\ b.base = a.base /\ b.mode = a.mode /\ b.cut = a.cut
           /\ LET b == [a EXCEPT !.phase = p, !.commit = n]
              IN  /\ b.aborted = a.aborted /\ b.phase = p /\ b.next = a.next /\ b.commit = n
                  /\ b.c = a.c /\ b.gen = a.gen /\ b.base = a.base /\ b.mode = a.mode /\ b.cut = a.cut
BY DEF Active

LEMMA ActiveIsRecovery ==
    ASSUME HostTypes
    PROVE  /\ Recovering => /\ active \in Active /\ active.c \in Clients /\ active.gen \in Gens
                            /\ active.phase \in PreMarker \cup {"uncertain", "pinned"}
                            /\ ActiveRequest \in Request /\ Key(ActiveRequest) = Key(active)
           /\ active.phase # "none" => Recovering
           /\ ~Recovering => active = NoActive /\ active.phase = "none"
<1>1. active \in Active \cup {NoActive}
    BY DEF HostTypes, HostTypeOK
<1>2. NoActive.phase = "none"
    BY DEF NoActive
<1>3. ASSUME active \in Active
      PROVE  /\ active.c \in Clients /\ active.gen \in Gens
             /\ active.phase \in PreMarker \cup {"uncertain", "pinned"}
             /\ ActiveRequest \in Request /\ Key(ActiveRequest) = Key(active)
    BY <1>3 DEF Active, ActiveRequest, Request, Key
<1> QED BY <1>1, <1>2, <1>3 DEF Recovering

LEMMA PhaseEnds == ASSUME active' = NoActive PROVE PhaseInv'
BY DEF PhaseInv, NoActive

LEMMA PhaseStays == ASSUME PhaseInv, UNCHANGED <<active, paused>> PROVE PhaseInv'
BY DEF PhaseInv

LEMMA PhaseAborts ==
    ASSUME HostTypes, PhaseInv, AbortActive \/ (AbortForPressure /\ active.phase \in PreMarker) PROVE PhaseInv'
<1>1. CASE active' = NoActive
    BY <1>1, PhaseEnds
<1>2. CASE /\ active' = [active EXCEPT !.aborted = TRUE]
           /\ active.phase \in {"pausing", "flushing"} \/ (active.phase = "pinned" /\ UNCHANGED paused)
    <2>1. active \in Active
        BY <1>2, ActiveIsRecovery
    <2>2. active'.phase = active.phase /\ active'.aborted = TRUE
        BY <1>2, <2>1, Updated
    <2> QED BY <1>2, <2>2 DEF PhaseInv
<1> QED BY <1>1, <1>2 DEF AbortActive, AbortForPressure, PreMarker, PhaseInv

LEMMA PhaseCold == ASSUME NEW r, NEW aborted, RecoverCold(r, aborted) PROVE PhaseInv'
<1>1. CASE active' = NoActive
    BY <1>1, PhaseEnds
<1>2. ASSUME NEW p, DeliverPrepared(r, p, aborted) PROVE PhaseInv'
    <2>1. active'.phase = "pausing" /\ paused' = TRUE
        BY <1>2 DEF DeliverPrepared, NoActive
    <2> QED BY <2>1 DEF PhaseInv
<1> QED BY <1>1, <1>2 DEF RecoverCold, AwaitPreparation

LEMMA PhaseControl ==
    ASSUME HostTypes, PhaseInv,
           HandleReadyAck \/ EnqueueAttach \/ HandleDeliveryReset \/ HandleBarrierResult
    PROVE  PhaseInv'
<1>1. CASE active' = NoActive
    BY <1>1, PhaseEnds
<1>2. CASE UNCHANGED <<active, paused>>
    BY <1>2, PhaseStays
<1>3. CASE AbortActive
    BY <1>3, PhaseAborts
<1>4. CASE active.phase = "uncertain" /\ Outcome("ready")
    <2>1. active \in Active
        BY <1>4, ActiveIsRecovery
    <2>2. active' = [active EXCEPT !.phase = "pinned",
                        !.next = IF active.mode = "warm" THEN active.base ELSE active.cut]
          /\ UNCHANGED paused
        BY <1>4 DEF Outcome
    <2>3. active'.phase = "pinned"
        BY <2>1, <2>2, Updated
    <2> QED BY <1>4, <2>2, <2>3 DEF PhaseInv
<1> QED BY <1>1, <1>2, <1>3, <1>4 DEF HandleReadyAck, EnqueueAttach, HandleDeliveryReset,
    HandleBarrierResult, ClosePair, Outcome, Complete, Retry

LEMMA PhaseRecovery ==
    ASSUME ~DataBatch, HostTypes, PhaseInv,
           StartRecovery \/ PlanWarm \/ PlanCold \/ SendBarrier \/ SendDirected \/ SendReplayCommit
    PROVE  PhaseInv'
<1>1. CASE active' = NoActive
    BY <1>1, PhaseEnds
<1>2. CASE \E r, aborted : RecoverCold(r, aborted)
    BY <1>2, PhaseCold
<1>3. CASE paused' = TRUE /\ active'.phase = "pausing"
    BY <1>3 DEF PhaseInv
<1>4. CASE FlushThroughHead /\ active.phase = "pausing" /\ UNCHANGED paused
    <2>1. active \in Active /\ active' = [active EXCEPT !.phase = "flushing", !.commit = head]
        BY <1>4, ActiveIsRecovery DEF FlushThroughHead
    <2>2. active'.phase = "flushing" /\ active'.aborted = active.aborted
        BY <2>1, Updated
    <2> QED BY <1>4, <2>2 DEF PhaseInv
<1>5. CASE /\ active.phase = "flushing" /\ ~active.aborted
           /\ active' = [active EXCEPT !.phase = IF DataBatch THEN "queued" ELSE "uncertain"]
           /\ UNCHANGED paused
    <2>1. active \in Active /\ active' = [active EXCEPT !.phase = "uncertain"]
        BY <1>5, ActiveIsRecovery
    <2>2. active'.phase = "uncertain" /\ active'.aborted = active.aborted
        BY <2>1, Updated
    <2> QED BY <1>5, <2>2 DEF PhaseInv
<1>6. CASE /\ active.phase = "pinned" /\ active' = [active EXCEPT !.next = active.next + 1]
           /\ UNCHANGED paused
    <2>1. active \in Active
        BY <1>6, ActiveIsRecovery
    <2> DEFINE n == active.next + 1
    <2>2. [active EXCEPT !.next = n].phase = "pinned"
        BY <1>6, <2>1, Updated
    <2>3. active'.phase = "pinned"
        BY <1>6, <2>2
    <2> QED BY <1>6, <2>3 DEF PhaseInv
<1>7. CASE StartRecovery
    <2>1. PICK r \in pass :
              \/ /\ active' = [NoActive EXCEPT !.c = r.c, !.gen = r.gen, !.base = r.base,
                                  !.mode = "warm", !.phase = "pausing"]
                 /\ paused' = TRUE
              \/ RecoverCold(r, FALSE)
        BY <1>7 DEF StartRecovery
    <2>2. CASE /\ active' = [NoActive EXCEPT !.c = r.c, !.gen = r.gen, !.base = r.base,
                                  !.mode = "warm", !.phase = "pausing"]
               /\ paused' = TRUE
        <3>1. active'.phase = "pausing"
            BY <2>2 DEF NoActive
        <3> QED BY <1>3, <2>2, <3>1
    <2> QED BY <1>2, <2>1, <2>2
<1>8. CASE PlanWarm \/ PlanCold
    BY <1>1, <1>2, <1>4, <1>8 DEF PlanWarm, PlanCold, Pausing, Retry
<1>9. CASE SendBarrier
    BY <1>1, <1>5, <1>9 DEF SendBarrier, ClosePair
<1>10. CASE SendDirected \/ SendReplayCommit
    BY <1>1, <1>6, <1>10 DEF SendDirected, SendReplayCommit, ClosePair, Complete
<1> QED BY <1>7, <1>8, <1>9, <1>10

LEMMA PhaseOthers ==
    ASSUME ~DataBatch, HostTypes, PhaseInv, StreamInv,
           \/ Pump \/ TerminalOutput \/ EvictJournal \/ ExpireCheckpoint \/ FlushDataBatch
           \/ ReceiveDataAck \/ SocketCloses \/ RefuseEarlyTraffic \/ TakePass \/ FlushFrame
           \/ BarrierTimeout \/ BuildFails \/ BuildSucceeds \/ Prepare
    PROVE  PhaseInv'
<1>1. CASE active' = NoActive
    BY <1>1, PhaseEnds
<1>2. CASE UNCHANGED <<active, paused>>
    BY <1>2, PhaseStays
<1>3. CASE TerminalOutput
    BY <1>1, <1>2, <1>3, PhaseAborts DEF TerminalOutput, ClosePair
<1>4. ~FlushDataBatch /\ (ReceiveDataAck => UNCHANGED <<active, paused>>)
    BY EmptySeq DEF FlushDataBatch, ReceiveDataAck, StreamInv
<1> QED BY <1>1, <1>2, <1>3, <1>4 DEF Pump, EvictJournal, ExpireCheckpoint, SocketCloses, RefuseEarlyTraffic,
    TakePass, FlushFrame, BarrierTimeout, BuildFails, BuildSucceeds, Prepare, ClosePair

LEMMA NextPhase ==
    ASSUME ~DataBatch, HostTypes, StreamInv, PhaseInv, HostNext \/ Prepare \/ BuildSucceeds
    PROVE  PhaseInv'
BY PhaseControl, PhaseRecovery, PhaseOthers DEF HostNext

-----------------------------------------------------------------------------
(* QueueInv *)

LEMMA Requeues ==
    ASSUME NEW r
    PROVE  /\ Requeued(r, pend) \subseteq pend \cup {r}
           /\ (\A p, q \in pend : p.c = q.c => p = q) =>
                  \A p, q \in Requeued(r, pend) : p.c = q.c => p = q
BY DEF Requeued

LEMMA BuildIsClients ==
    ASSUME HostTypes
    PROVE  /\ build.current => build \in Build /\ build # NoBuild /\ Key(build) \in Clients \X Gens
           /\ Building = IF build.current THEN {BuildRequest} ELSE {}
           /\ Key(BuildRequest) = Key(build)
           /\ \A k : Shared(k, Building) <=> build.current /\ k = Key(build)
           /\ \A r : Publishing(r) <=> build.current /\ Key(r) = Key(build)
           /\ ~Recovering => Key(active) = <<NoClient, 0>> /\ NoClient \notin Clients
<1>1. build.current => build \in Build /\ build # NoBuild
    <2>1. build \in Build \/ build = NoBuild
        BY DEF HostTypes, HostTypeOK
    <2>2. NoBuild.current = FALSE
        BY DEF NoBuild
    <2> QED BY <2>1, <2>2
<1>2. build \in Build => Key(build) \in Clients \X Gens
    BY DEF Build, Key
<1>3. Key(BuildRequest) = Key(build)
    BY DEF Key, BuildRequest
<1>4. \A k : Shared(k, Building) <=> build.current /\ k = Key(build)
    BY <1>3 DEF Shared, Building
<1>5. \A r : Publishing(r) <=> build.current /\ Key(r) = Key(build)
    BY DEF Publishing, Key
<1>6. ~Recovering => Key(active) = <<NoClient, 0>>
    BY DEF Recovering, NoActive, Key
<1> QED BY <1>1, <1>2, <1>3, <1>4, <1>5, <1>6, Bounds DEF Building

\* The recovery is the same, unless its phase or its abort has moved on.
RecoveryStays ==
    \/ active' = active
    \/ /\ Recovering
       /\ active'.c = active.c /\ active'.gen = active.gen /\ active'.base = active.base
       /\ active.aborted /\ active.phase \in {"pausing", "flushing"} =>
             active'.aborted /\ active'.phase \in {"pausing", "flushing"}

LEMMA StaysRecovering ==
    ASSUME HostTypes, RecoveryStays
    PROVE  /\ Recovering' <=> Recovering
           /\ Key(active') = Key(active)
           /\ ActiveRequest' = ActiveRequest
           /\ Recovering /\ active.aborted /\ active.phase \in {"pausing", "flushing"} =>
                 active'.aborted /\ active'.phase \in {"pausing", "flushing"}
<1>1. CASE active' = active
    BY <1>1 DEF Recovering, Key, ActiveRequest
<1>2. CASE Recovering /\ active'.c = active.c /\ active'.gen = active.gen /\ active'.base = active.base
    <2>1. active.c # NoClient
        BY <1>2, ActiveIsRecovery, Bounds
    <2>2. active' # NoActive
        BY <1>2, <2>1 DEF NoActive
    <2> QED BY <1>2, <2>2 DEF Recovering, Key, ActiveRequest, RecoveryStays
<1> QED BY <1>1, <1>2 DEF RecoveryStays

\* Nothing is queued, and the recovery goes on or ends.
LEMMA QueueSame ==
    ASSUME HostTypes, QueueInv, UNCHANGED <<pend, pass, build>>,
           link' = link \/ link' = "ready" \/ link # "ready",
           cold \ {Key(active)} \subseteq cold', preps' \subseteq preps, cache' \in {cache, NoSeq},
           active' = NoActive \/ RecoveryStays
    PROVE  QueueInv' /\ \A k : Known(k)' => Known(k)
<1>1. ~Recovering' \/ (Recovering' /\ Recovering /\ Key(active') = Key(active))
    <2>1. CASE active' = NoActive
        BY <2>1 DEF Recovering
    <2>2. CASE RecoveryStays
        BY <2>2, StaysRecovering
    <2> QED BY <2>1, <2>2
<1>2. Idle'
    <2>1. CASE link' # "ready"
        <3>1. active = NoActive
            BY <2>1 DEF QueueInv, Idle
        <3>2. active' = NoActive
            BY <1>1, <3>1 DEF Recovering
        <3> QED BY <2>1, <3>2 DEF QueueInv, Idle
    <2> QED BY <2>1 DEF Idle
<1>3. Building' = Building /\ \A k : Shared(k, Building)' <=> Shared(k, Building)
    BY DEF Building, BuildRequest, Shared
<1>4. PassApart'
    BY <1>1, <1>3 DEF QueueInv, PassApart, Shared
<1>5. BuildApart'
    <2>1. build.current => Key(build) # Key(active)
        BY BuildIsClients DEF QueueInv, BuildApart
    <2>2. build # NoBuild => cache' = NoSeq
        BY DEF QueueInv, BuildApart
    <2>3. build.current => Key(build) \in cold' /\ ~Prepared(build)'
        BY <2>1 DEF QueueInv, BuildApart, Prepared
    <2> QED BY <1>1, <2>1, <2>2, <2>3 DEF BuildApart, Key
<1>6. Recovering' /\ Shared(Key(active), pend)' => active'.aborted /\ active'.phase \in {"pausing", "flushing"}
    <2>1. ASSUME Recovering', Shared(Key(active), pend)'
          PROVE  active'.aborted /\ active'.phase \in {"pausing", "flushing"}
        <3>1. Recovering /\ Key(active') = Key(active) /\ Shared(Key(active), pend)
            BY <1>1, <2>1 DEF Shared, Key
        <3>2. RecoveryStays
            BY <2>1 DEF Recovering
        <3> QED BY <3>1, <3>2, StaysRecovering DEF QueueInv
    <2> QED BY <2>1
<1>7. QueueInv'
    BY <1>2, <1>4, <1>5, <1>6 DEF QueueInv
<1>8. \A k : Known(k)' => Known(k)
    BY <1>1, <1>3 DEF Known, Shared, Key
<1> QED BY <1>7, <1>8

\* A recovery's request is queued again; the recovery ends or has been aborted.
LEMMA QueueRetries ==
    ASSUME HostTypes, QueueInv, Recovering, pend' = Requeued(ActiveRequest, pend),
           UNCHANGED <<pass, build, link>>, link = "ready",
           cold \subseteq cold', preps' \subseteq preps, cache' \in {cache, NoSeq},
           \/ active' = NoActive
           \/ RecoveryStays /\ active'.aborted /\ active'.phase \in {"pausing", "flushing"}
    PROVE  QueueInv' /\ \A k : Known(k)' => Known(k)
<1>1. ~Recovering' \/ (Recovering' /\ Key(active') = Key(active))
    <2>1. CASE active' = NoActive
        BY <2>1 DEF Recovering
    <2>2. CASE RecoveryStays
        BY <2>2, StaysRecovering
    <2> QED BY <2>1, <2>2
<1>2. Building' = Building /\ \A k : Shared(k, Building)' <=> Shared(k, Building)
    BY DEF Building, BuildRequest, Shared
<1>3. \A k : Shared(k, pend') => Shared(k, pend) \/ k = Key(active)
    BY Requeues, ActiveIsRecovery DEF Shared
<1>4. \A p, q \in pend' : p.c = q.c => p = q
    BY Requeues DEF QueueInv
<1>5. PassApart'
    BY <1>1, <1>2, <1>3 DEF QueueInv, PassApart, Shared
<1>6. BuildApart'
    <2>1. build # NoBuild => cache' = NoSeq
        BY DEF QueueInv, BuildApart
    <2>2. build.current => Key(build) \in cold' /\ ~Prepared(build)'
        BY DEF QueueInv, BuildApart, Prepared
    <2> QED BY <1>1, <2>1, <2>2 DEF QueueInv, BuildApart, Key
<1>7. Recovering' => active'.aborted /\ active'.phase \in {"pausing", "flushing"}
    BY DEF Recovering
<1>8. QueueInv'
    BY <1>4, <1>5, <1>6, <1>7 DEF QueueInv, Idle
<1>9. \A k : Known(k)' => Known(k)
    BY <1>1, <1>2, <1>3 DEF Known, Shared, Key
<1> QED BY <1>8, <1>9

\* A build ends, and its request is queued if it is still wanted.
LEMMA QueueBuilt ==
    ASSUME HostTypes, QueueInv, build # NoBuild, build' = NoBuild,
           (pend' = Requeued(BuildRequest, pend) /\ build.current) \/ UNCHANGED pend,
           UNCHANGED <<pass, active, link>>
    PROVE  QueueInv' /\ \A k : Known(k)' => Known(k)
<1>1. ~build'.current /\ Building' = {}
    BY DEF Building, NoBuild
<1>2. \A k : Shared(k, pend') => Shared(k, pend) \/ (build.current /\ k = Key(build))
    BY Requeues, BuildIsClients DEF Shared
<1>3. \A p, q \in pend' : p.c = q.c => p = q
    BY Requeues DEF QueueInv
<1>4. PassApart'
    <2>1. \A p \in pass : ~Shared(Key(p), pend')
        BY <1>2, BuildIsClients DEF QueueInv, PassApart
    <2> QED BY <1>1, <2>1 DEF QueueInv, PassApart, Shared, Recovering
<1>5. BuildApart'
    BY <1>1 DEF BuildApart
<1>6. link = "ready"
    BY DEF QueueInv, Idle
<1>7. Recovering /\ Shared(Key(active), pend') => Shared(Key(active), pend)
    BY <1>2 DEF QueueInv, BuildApart
<1>8. QueueInv'
    BY <1>3, <1>4, <1>5, <1>6, <1>7 DEF QueueInv, Idle, Recovering
<1>9. \A k : Known(k)' => Known(k)
    BY <1>1, <1>2, BuildIsClients DEF Known, Shared, Recovering
<1> QED BY <1>8, <1>9

\* Control frames from the relay: nothing of a client up to a generation is kept.
LEMMA Forgets ==
    ASSUME HostTypes, QueueInv, NEW c \in Clients, NEW g \in Int, Forget(c, g), UNCHANGED cache
    PROVE  /\ build' # NoBuild => build # NoBuild
           /\ build'.current => build.current /\ build' = build
           /\ build' # NoBuild => cache' = NoSeq
           /\ build'.current => Key(build) \in cold' /\ ~Prepared(build)'
           /\ Building' \subseteq Building
<1>1. build \in Build \/ build = NoBuild
    BY DEF HostTypes, HostTypeOK
<1>2. NoBuild.c = NoClient /\ NoBuild.current = FALSE /\ NoBuild.c # c
    BY Bounds DEF NoBuild
<1>3. build = NoBuild => build' = NoBuild
    BY <1>2 DEF Forget
<1>4. build'.current => build.current /\ build' = build /\ ~(build.c = c /\ build.gen <= g)
    <2>1. CASE build.c = c /\ build.gen <= g
        <3>1. build \in Build
            BY <1>1, <1>2, <2>1
        <3>2. build' = [build EXCEPT !.current = FALSE]
            BY <2>1 DEF Forget
        <3>3. build'.current = FALSE
            BY <3>1, <3>2 DEF Build
        <3> QED BY <3>3
    <2>2. CASE ~(build.c = c /\ build.gen <= g)
        BY <2>2 DEF Forget
    <2> QED BY <2>1, <2>2
<1>5. build'.current => Key(build) \in cold' /\ ~Prepared(build)'
    <2>1. ASSUME build'.current PROVE Key(build) \in cold' /\ ~Prepared(build)'
        <3>1. Key(build) \in cold /\ ~Prepared(build) /\ build' = build /\ ~(build.c = c /\ build.gen <= g)
            BY <1>4, <2>1 DEF QueueInv, BuildApart
        <3>2. Key(build) \in cold'
            BY <3>1 DEF Forget, UpTo, Key
        <3>3. preps' \subseteq preps
            BY DEF Forget
        <3> QED BY <3>1, <3>2, <3>3 DEF Prepared
    <2> QED BY <2>1
<1>6. Building' \subseteq Building
    BY <1>4 DEF Building, BuildRequest
<1>7. build' # NoBuild => cache' = NoSeq
    BY <1>3 DEF QueueInv, BuildApart
<1> QED BY <1>3, <1>4, <1>5, <1>6, <1>7

LEMMA AbortStays ==
    ASSUME HostTypes, AbortActive \/ UNCHANGED <<active, paused>>
    PROVE  active' = NoActive \/ RecoveryStays
<1>1. CASE active.phase \in {"pausing", "flushing", "pinned"} /\ active' = [active EXCEPT !.aborted = TRUE]
    <2>1. active \in Active /\ Recovering
        BY <1>1, ActiveIsRecovery
    <2>2. /\ active'.c = active.c /\ active'.gen = active.gen /\ active'.base = active.base
          /\ active'.aborted = TRUE /\ active'.phase = active.phase
        BY <1>1, <2>1, Updated
    <2> QED BY <2>1, <2>2 DEF RecoveryStays
<1> QED BY <1>1 DEF AbortActive, RecoveryStays

\* A request is queued in place of its client's.
LEMMA QueueForgets ==
    ASSUME HostTypes, QueueInv, NEW c \in Clients, NEW g \in Int,
           link = "ready", UNCHANGED <<pass, link, cache>>,
           \/ UNCHANGED <<pend, cold, preps, build>>
           \/ Forget(c, g) /\ pend' \subseteq pend
           \/ /\ Forget(c, g)
              /\ \E r \in Request : r.c = c /\ ~Known(Key(r)) /\ pend' = {p \in pend : p.c # c} \cup {r},
           AbortActive \/ UNCHANGED <<active, paused>>
    PROVE  /\ QueueInv'
           /\ \A k : Known(k)' => Known(k) \/ \E r \in pend' \ pend : Key(r) = k
<1>1. active' = NoActive \/ RecoveryStays
    BY AbortStays
<1>2. ~Recovering' \/ (Recovering' /\ Recovering /\ Key(active') = Key(active))
    <2>1. CASE active' = NoActive
        BY <2>1 DEF Recovering
    <2>2. CASE RecoveryStays
        BY <2>2, StaysRecovering
    <2> QED BY <1>1, <2>1, <2>2
<1>3. /\ build' # NoBuild => cache' = NoSeq
      /\ build'.current => build.current /\ build' = build /\ Key(build) \in cold' /\ ~Prepared(build)'
      /\ Building' \subseteq Building
    <2>1. CASE Forget(c, g)
        BY <2>1, Forgets
    <2>2. CASE UNCHANGED <<pend, cold, preps, build>>
        BY <2>2 DEF QueueInv, BuildApart, Prepared, Building, BuildRequest
    <2> QED BY <2>1, <2>2
<1>4. \A k : Shared(k, Building)' => Shared(k, Building)
    BY <1>3 DEF Shared
<1>5. \A r \in pend' : r \in pend \/ ~Known(Key(r))
    OBVIOUS
<1>6. \A k : Shared(k, pend') => Shared(k, pend) \/ ~Known(k)
    BY <1>5 DEF Shared
<1>7. \A p, q \in pend' : p.c = q.c => p = q
    BY DEF QueueInv
<1>8. PassApart'
    <2>1. \A p \in pass : ~Shared(Key(p), pend')
        BY <1>6 DEF QueueInv, PassApart, Known, Shared
    <2> QED BY <1>2, <1>4, <2>1 DEF QueueInv, PassApart, Shared
<1>9. BuildApart'
    BY <1>2, <1>3 DEF QueueInv, BuildApart, Key
<1>10. Recovering' /\ Shared(Key(active), pend)' => active'.aborted /\ active'.phase \in {"pausing", "flushing"}
    <2>1. ASSUME Recovering', Shared(Key(active), pend)'
          PROVE  active'.aborted /\ active'.phase \in {"pausing", "flushing"}
        <3>1. Recovering /\ Shared(Key(active), pend')
            BY <1>2, <2>1 DEF Shared, Key
        <3>2. Shared(Key(active), pend)
            BY <1>6, <3>1 DEF Known
        <3>3. RecoveryStays
            BY <1>1, <2>1 DEF Recovering
        <3> QED BY <3>1, <3>2, <3>3, StaysRecovering DEF QueueInv
    <2> QED BY <2>1
<1>11. QueueInv'
    BY <1>7, <1>8, <1>9, <1>10 DEF QueueInv, Idle
<1>12. \A k : Known(k)' => Known(k) \/ \E r \in pend' \ pend : Key(r) = k
    BY <1>2, <1>4 DEF Known, Shared, Key
<1> QED BY <1>11, <1>12

\* takeRunnablePass: a request whose build is under way is not runnable.
LEMMA QueueTakes ==
    ASSUME HostTypes, QueueInv, TakePass PROVE QueueInv' /\ \A k : Known(k)' => Known(k)
<1>2. /\ ~Recovering /\ pass = {} /\ link = "ready" /\ pass' \subseteq pend /\ pend' \subseteq pend
      /\ (pass' # {} => pend' = pend \ pass')
      /\ UNCHANGED <<link, active, build, cold, preps, cache>>
    BY DEF TakePass
<1>3. \A r \in pass' : Runnable(r)
    BY DEF TakePass
<1>4. \A p \in pass' : ~Shared(Key(p), pend') /\ ~Shared(Key(p), Building)'
    <2>1. ASSUME NEW p \in pass' PROVE ~Shared(Key(p), pend')
        BY <1>2, <2>1 DEF QueueInv, Shared, Key
    <2>2. ASSUME NEW p \in pass', Shared(Key(p), Building)' PROVE FALSE
        <3>1. build.current /\ Key(p) = Key(build)
            BY <1>2, <2>2, BuildIsClients DEF Shared, Building, BuildRequest
        <3>2. IsCold(p) /\ cache = NoSeq /\ build # NoBuild /\ ~Prepared(p)
            BY <3>1, BuildIsClients DEF QueueInv, BuildApart, IsCold, Prepared
        <3> QED BY <1>3, <3>2 DEF Runnable
    <2> QED BY <2>1, <2>2
<1>5. PassApart'
    BY <1>2, <1>4 DEF QueueInv, PassApart, Recovering
<1>6. BuildApart'
    BY <1>2 DEF QueueInv, BuildApart, Prepared, Recovering
<1>7. QueueInv'
    BY <1>2, <1>5, <1>6 DEF QueueInv, Idle, Recovering
<1>8. \A k : Known(k)' => Known(k)
    BY <1>2 DEF Known, Shared, Building, BuildRequest, Recovering
<1> QED BY <1>7, <1>8

\* A request's recovery begins, or goes over to a snapshot.
LEMMA QueueCold ==
    ASSUME HostTypes, QueueInv, NEW r \in Request, NEW aborted \in BOOLEAN, RecoverCold(r, aborted),
           link = "ready", UNCHANGED <<link, cache>>,
           pass' \subseteq pass, ~Shared(Key(r), pass'), ~Publishing(r), Known(Key(r)),
           Shared(Key(r), pend) => aborted,
           ~Recovering \/ Key(r) = Key(active)
    PROVE  QueueInv' /\ \A k : Known(k)' => Known(k)
<1>1. /\ r.c \in Clients /\ r.gen \in Gens
      /\ \A k : Shared(k, Building) <=> build.current /\ k = Key(build)
      /\ ~(build.current /\ Key(r) = Key(build))
    BY BuildIsClients DEF Request
<1>2. \A k : Shared(k, pass') => Shared(k, pass)
    BY DEF Shared
<1>3. ASSUME NEW p, Key(p) = Key(r), DeliverPrepared(r, p, aborted)
      PROVE  QueueInv' /\ \A k : Known(k)' => Known(k)
    <2>1. /\ active'.c = r.c /\ active'.gen = r.gen /\ active'.phase = "pausing"
          /\ active'.aborted = aborted
        BY <1>3 DEF DeliverPrepared, NoActive
    <2>2. Recovering' /\ Key(active') = Key(r)
        BY <1>1, <2>1, Bounds DEF Recovering, NoActive, Key
    <2>3. UNCHANGED <<pend, build>> /\ cold \subseteq cold' /\ preps' = preps \cup {p}
        BY <1>3 DEF DeliverPrepared
    <2>4. \A k : Shared(k, Building)' <=> Shared(k, Building)
        BY <2>3 DEF Shared, Building, BuildRequest
    <2>5. PassApart'
        BY <1>2, <2>2, <2>3, <2>4 DEF QueueInv, PassApart, Shared, Key
    <2>6. BuildApart'
        <3>1. build.current => Key(build) \in cold' /\ ~Prepared(build)'
            BY <1>1, <1>3, <2>3 DEF QueueInv, BuildApart, Prepared
        <3> QED BY <1>1, <2>2, <2>3, <3>1 DEF QueueInv, BuildApart, Key
    <2>7. Shared(Key(active), pend)' => aborted
        BY <2>2, <2>3 DEF Shared, Key
    <2>8. QueueInv'
        BY <2>1, <2>3, <2>5, <2>6, <2>7 DEF QueueInv, Idle
    <2>9. \A k : Known(k)' => Known(k)
        BY <1>2, <2>2, <2>3, <2>4 DEF Known, Shared, Key
    <2> QED BY <2>8, <2>9
<1>4. CASE AwaitPreparation(r) /\ ~Prepared(r) /\ cache = NoSeq
    <2>1. /\ ~Recovering' /\ cold' = cold \cup {Key(r)} /\ preps' = preps
          /\ \/ /\ build = NoBuild /\ pend' = pend
                /\ build' = [c |-> r.c, gen |-> r.gen, base |-> r.base, cut |-> head, current |-> TRUE]
             \/ pend' = Requeued(r, pend) /\ build' = build
        BY <1>4 DEF AwaitPreparation, Recovering
    <2>2. \A k : Shared(k, pend') => Shared(k, pend) \/ k = Key(r)
        BY <2>1, Requeues DEF Shared
    <2>3. \A p, q \in pend' : p.c = q.c => p = q
        BY <2>1, Requeues DEF QueueInv
    <2>4. CASE build' = build /\ pend' = Requeued(r, pend)
        <3>1. \A k : Shared(k, Building)' <=> Shared(k, Building)
            BY <2>4 DEF Shared, Building, BuildRequest
        <3>2. PassApart'
            <4>1. \A p \in pass' : ~Shared(Key(p), pend') /\ ~Shared(Key(p), Building)'
                BY <2>2, <3>1 DEF QueueInv, PassApart, Shared
            <4> QED BY <2>1, <4>1 DEF QueueInv, PassApart, Shared, Key
        <3>3. BuildApart'
            BY <1>4, <2>1, <2>4 DEF QueueInv, BuildApart, Prepared
        <3>4. QueueInv'
            BY <2>1, <2>3, <3>2, <3>3 DEF QueueInv, Idle
        <3>5. \A k : Known(k)' => Known(k)
            BY <1>2, <2>1, <2>2, <3>1 DEF Known, Shared
        <3> QED BY <3>4, <3>5
    <2>5. CASE /\ build = NoBuild /\ pend' = pend
               /\ build' = [c |-> r.c, gen |-> r.gen, base |-> r.base, cut |-> head, current |-> TRUE]
        <3>1. build'.current = TRUE /\ Key(build') = Key(r) /\ Key(BuildRequest') = Key(r)
            BY <2>5 DEF Key, BuildRequest
        <3>2. \A k : Shared(k, Building)' <=> k = Key(r)
            BY <3>1 DEF Shared, Building, BuildRequest, Key
        <3>3. PassApart'
            <4>1. \A p \in pass' : Key(p) # Key(r)
                BY DEF Shared
            <4>2. \A p \in pass' : ~Shared(Key(p), pend')
                BY <2>5 DEF QueueInv, PassApart, Shared
            <4>3. \A p \in pass' : ~Shared(Key(p), pend)' /\ ~Shared(Key(p), Building)'
                BY <3>2, <4>1, <4>2 DEF Shared
            <4> QED BY <2>1, <4>3 DEF QueueInv, PassApart
        <3>4. BuildApart'
            <4>1. Key(build)' = Key(r)
                BY <3>1 DEF Key
            <4>2. ~Prepared(build)'
                BY <1>4, <2>1, <4>1 DEF Prepared, Key
            <4> QED BY <1>4, <2>1, <4>1, <4>2 DEF BuildApart
        <3>5. QueueInv'
            BY <2>1, <2>3, <3>3, <3>4 DEF QueueInv, Idle
        <3>6. \A k : Known(k)' => Known(k)
            BY <1>2, <2>1, <2>5, <3>2 DEF Known, Shared
        <3> QED BY <3>5, <3>6
    <2> QED BY <2>1, <2>4, <2>5
<1>5. CASE \E p \in preps : Key(p) = Key(r) /\ DeliverPrepared(r, p, aborted)
    BY <1>3, <1>5
<1>6. CASE DeliverPrepared(r, [c |-> r.c, gen |-> r.gen, cut |-> cache], aborted)
    <2> DEFINE p == [c |-> r.c, gen |-> r.gen, cut |-> cache]
    <2>1. Key(p) = Key(r)
        BY DEF Key
    <2> QED BY <1>3, <1>6, <2>1
<1> QED BY <1>4, <1>5, <1>6 DEF RecoverCold

LEMMA QueueStarts ==
    ASSUME HostTypes, QueueInv, StartRecovery PROVE QueueInv' /\ \A k : Known(k)' => Known(k)
<1>1. PICK r \in pass :
          /\ pass' = pass \ {r}
          /\ \/ /\ active' = [NoActive EXCEPT !.c = r.c, !.gen = r.gen, !.base = r.base,
                                 !.mode = "warm", !.phase = "pausing"]
                /\ UNCHANGED <<pend, cold, preps, build>>
             \/ RecoverCold(r, FALSE)
    BY DEF StartRecovery
<1>2. ~Recovering /\ link = "ready" /\ UNCHANGED <<link, cache>>
    BY DEF StartRecovery
<1>3. r \in Request /\ r.c \in Clients /\ r.gen \in Gens
    BY DEF HostTypes, HostTypeOK, Request
<1>4. /\ pass' \subseteq pass /\ ~Shared(Key(r), pass') /\ Known(Key(r))
      /\ ~Shared(Key(r), pend) /\ ~Shared(Key(r), Building) /\ ~Publishing(r)
    <2>1. \A p \in pass' : p \in pass /\ p # r
        BY <1>1
    <2>2. ~Shared(Key(r), pass')
        BY <2>1 DEF QueueInv, PassApart, Shared, Key
    <2> QED BY <1>1, <2>1, <2>2, BuildIsClients DEF QueueInv, PassApart, Known, Shared
<1>5. CASE RecoverCold(r, FALSE)
    BY <1>2, <1>3, <1>4, <1>5, QueueCold
<1>6. CASE /\ active' = [NoActive EXCEPT !.c = r.c, !.gen = r.gen, !.base = r.base,
                            !.mode = "warm", !.phase = "pausing"]
           /\ UNCHANGED <<pend, cold, preps, build>>
    <2>1. active'.c = r.c /\ active'.gen = r.gen
        BY <1>6 DEF NoActive
    <2>2. Recovering' /\ Key(active') = Key(r)
        BY <1>3, <2>1, Bounds DEF Recovering, NoActive, Key
    <2>3. \A k : Shared(k, Building)' <=> Shared(k, Building)
        BY <1>6 DEF Shared, Building, BuildRequest
    <2>4. PassApart'
        BY <1>4, <1>6, <2>2, <2>3 DEF QueueInv, PassApart, Shared, Key
    <2>5. BuildApart'
        BY <1>2, <1>4, <1>6, <2>2, BuildIsClients DEF QueueInv, BuildApart, Prepared, Key
    <2>6. ~Shared(Key(active), pend)'
        BY <1>4, <1>6, <2>2 DEF Shared, Key
    <2>7. QueueInv'
        BY <1>2, <1>6, <2>4, <2>5, <2>6 DEF QueueInv, Idle
    <2>8. \A k : Known(k)' => Known(k)
        BY <1>4, <1>6, <2>2, <2>3 DEF Known, Shared, Key
    <2> QED BY <2>7, <2>8
<1> QED BY <1>1, <1>5, <1>6

LEMMA QueueClosed == ASSUME NEW reason, ClosePair(reason) PROVE QueueInv'
<1>1. /\ pend' = {} /\ pass' = {} /\ active' = NoActive /\ build' = NoBuild /\ link' = "down"
    BY DEF ClosePair
<1>2. ~Recovering' /\ ~build'.current
    BY <1>1 DEF Recovering, NoBuild
<1> QED BY <1>1, <1>2 DEF QueueInv, Idle, PassApart, BuildApart

\* A recovery goes on in the phase its frame or its answer has brought.
LEMMA PhaseMoves ==
    ASSUME HostTypes, PhaseInv,
           \/ active.phase = "pausing" /\ FlushThroughHead
           \/ /\ active.phase = "flushing" /\ ~active.aborted
              /\ active' = [active EXCEPT !.phase = "uncertain"]
           \/ active.phase = "uncertain" /\ Outcome("ready")
           \/ active.phase = "pinned" /\ active' = [active EXCEPT !.next = active.next + 1]
    PROVE  RecoveryStays
<1>1. active \in Active /\ Recovering
    BY ActiveIsRecovery
<1>2. CASE active.phase = "pausing" /\ FlushThroughHead
    <2>1. /\ active'.c = active.c /\ active'.gen = active.gen /\ active'.base = active.base
          /\ active'.aborted = active.aborted /\ active'.phase = "flushing"
        BY <1>1, <1>2, Updated DEF FlushThroughHead
    <2> QED BY <1>1, <2>1 DEF RecoveryStays
<1>3. CASE ~active.aborted /\ active' = [active EXCEPT !.phase = "uncertain"]
    <2>1. active'.c = active.c /\ active'.gen = active.gen /\ active'.base = active.base
        BY <1>1, <1>3, Updated
    <2> QED BY <1>1, <1>3, <2>1 DEF RecoveryStays
<1>4. CASE active.phase = "uncertain" /\ Outcome("ready")
    <2> DEFINE n == IF active.mode = "warm" THEN active.base ELSE active.cut
    <2>1. active' = [active EXCEPT !.phase = "pinned", !.next = n]
        BY <1>4 DEF Outcome
    <2> HIDE DEF n
    <2>2. active'.c = active.c /\ active'.gen = active.gen /\ active'.base = active.base
        BY <1>1, <2>1, Updated
    <2> QED BY <1>1, <1>4, <2>2 DEF RecoveryStays
<1>5. CASE active.phase = "pinned" /\ active' = [active EXCEPT !.next = active.next + 1]
    <2> DEFINE n == active.next + 1
    <2>1. active' = [active EXCEPT !.next = n]
        BY <1>5
    <2> HIDE DEF n
    <2>2. active'.c = active.c /\ active'.gen = active.gen /\ active'.base = active.base
        BY <1>1, <2>1, Updated
    <2> QED BY <1>1, <1>5, <2>2 DEF RecoveryStays
<1> QED BY <1>2, <1>3, <1>4, <1>5

LEMMA QueueOutput ==
    ASSUME HostTypes, PhaseInv, QueueInv, TerminalOutput
    PROVE  QueueInv' /\ (link' = "down" \/ \A k : Known(k)' => Known(k))
<1>1. CASE UNCHANGED <<link, pend, cold, pass, active, preps, build>>
    BY <1>1, QueueSame DEF TerminalOutput, RecoveryStays
<1>2. CASE ClosePair("canonical publisher queue exceeded")
    BY <1>2, QueueClosed DEF ClosePair
<1>3. CASE AbortForPressure /\ active.phase \in PreMarker /\ UNCHANGED <<link, pass, build>>
    <2>1. active \in Active /\ Recovering
        BY <1>3, ActiveIsRecovery DEF PreMarker
    <2>2. link = "ready"
        BY <2>1 DEF QueueInv, Idle, Recovering
    <2>3. /\ active'.c = active.c /\ active'.gen = active.gen /\ active'.base = active.base
          /\ active'.aborted = TRUE /\ active'.phase = active.phase /\ active.phase \in {"pausing", "flushing"}
        BY <1>3, <2>1, Updated DEF AbortForPressure, PhaseInv, PreMarker
    <2>4. RecoveryStays
        BY <2>1, <2>3 DEF RecoveryStays
    <2>5. pend' = Requeued(ActiveRequest, pend) /\ cold \subseteq cold' /\ preps' \subseteq preps
        BY <1>3 DEF AbortForPressure, DropPreparation
    <2>6. cache' = cache
        BY DEF TerminalOutput
    <2> QED BY <1>3, <2>1, <2>2, <2>3, <2>4, <2>5, <2>6, QueueRetries
<1> QED BY <1>1, <1>2, <1>3 DEF TerminalOutput

LEMMA QueueControl ==
    ASSUME HostTypes, PhaseInv, QueueInv, AttachInv,
           HandleReadyAck \/ HandleDeliveryReset \/ HandleBarrierResult \/ EnqueueAttach
    PROVE  /\ QueueInv'
           /\ \/ link' = "down"
              \/ \A k : Known(k)' => Known(k)
              \/ EnqueueAttach /\ \A k : Known(k)' => Known(k) \/ k = Key(Head(toHost).req)
<1>1. CASE \E reason : ClosePair(reason)
    BY <1>1, QueueClosed DEF ClosePair
<1>2. CASE HandleReadyAck /\ ~ \E reason : ClosePair(reason)
    BY <1>2, QueueSame DEF HandleReadyAck, RecoveryStays
<1>3. CASE HandleDeliveryReset /\ ~ \E reason : ClosePair(reason)
    <2> DEFINE f == Head(toHost)
    <2>1. /\ Forget(f.c, f.gen) /\ pend' \subseteq pend
          /\ AbortActive \/ UNCHANGED <<active, paused>>
          /\ link = "ready" /\ UNCHANGED <<pass, link, cache>>
        BY <1>3 DEF HandleDeliveryReset
    <2>2. f.c \in Clients /\ f.gen \in Int
        <3>1. f \in HostFrame /\ f.kind = "delivery-reset"
            BY <1>3, ReceivesHead DEF HandleDeliveryReset, Receives
        <3> QED BY <3>1 DEF HostFrame, Gens
    <2> HIDE DEF f
    <2>3. QueueInv' /\ \A k : Known(k)' => Known(k) \/ \E r \in pend' \ pend : Key(r) = k
        BY <2>1, <2>2, QueueForgets
    <2> QED BY <2>1, <2>3
<1>4. CASE HandleBarrierResult /\ active.phase = "uncertain" /\ Outcome(Head(toHost).status)
    <2>1. /\ Recovering /\ active.phase \notin {"pausing", "flushing"}
          /\ link = "ready" /\ UNCHANGED <<link, pass, build>>
        BY <1>4, ActiveIsRecovery DEF HandleBarrierResult
    <2>2. CASE Complete /\ preps' \subseteq preps /\ UNCHANGED cache
        BY <2>1, <2>2, QueueSame DEF Complete
    <2>3. CASE Retry /\ preps' \subseteq preps /\ cache' \in {cache, NoSeq}
        BY <2>1, <2>3, QueueRetries DEF Retry
    <2>4. CASE Outcome("ready") /\ UNCHANGED <<pend, cold, preps, cache>>
        BY <1>4, <2>1, <2>4, PhaseMoves, QueueSame
    <2> QED BY <1>4, <2>2, <2>3, <2>4 DEF Outcome, DropPreparation
<1>5. CASE HandleBarrierResult /\ UNCHANGED <<pend, cold, active, preps, cache>>
    BY <1>5, QueueSame DEF HandleBarrierResult, RecoveryStays
<1>6. CASE EnqueueAttach /\ ~ \E reason : ClosePair(reason)
    <2> DEFINE r == Head(toHost).req
               g == r.gen - 1
    <2>1. /\ \/ UNCHANGED <<pend, cold, preps, build>>
             \/ Forget(r.c, g) /\ pend' = {p \in pend : p.c # r.c} \cup {r}
          /\ AbortActive \/ UNCHANGED <<active, paused>>
          /\ link = "ready" /\ UNCHANGED <<pass, link, cache>>
        BY <1>6 DEF EnqueueAttach
    <2>2. r \in Request /\ r.c \in Clients /\ g \in Int
        <3>1. Head(toHost) \in HostFrame /\ Head(toHost).kind = "attach-request"
            BY <1>6, ReceivesHead DEF EnqueueAttach, Receives
        <3>2. r \in Request
            BY <3>1 DEF HostFrame
        <3>3. r.c \in Clients /\ r.gen \in Int
            BY <3>2 DEF Request, Gens
        <3> QED BY <3>2, <3>3
    <2>3. ~Known(Key(r))
        <3>1. toHost \in Seq(HostFrame) /\ toHost # <<>> /\ Head(toHost).kind = "attach-request"
            BY <1>6 DEF EnqueueAttach, Receives, HostTypes, LinkTypeOK
        <3>2. 1 \in DOMAIN toHost /\ toHost[1] = Head(toHost)
            BY <3>1, TailAt
        <3> QED BY <2>1, <3>1, <3>2 DEF AttachInv, AttachAt
    <2> HIDE DEF g
    <2>4. QueueInv' /\ \A k : Known(k)' => Known(k) \/ \E q \in pend' \ pend : Key(q) = k
        BY <2>1, <2>2, <2>3, QueueForgets
    <2>5. \A q \in pend' \ pend : q = r
        BY <2>1
    <2> QED BY <1>6, <2>4, <2>5
<1> QED BY <1>1, <1>2, <1>3, <1>4, <1>5, <1>6 DEF HandleBarrierResult

LEMMA QueueRecovers ==
    ASSUME ~DataBatch, HostTypes, PhaseInv, QueueInv,
           PlanWarm \/ PlanCold \/ SendBarrier \/ SendDirected \/ SendReplayCommit
    PROVE  QueueInv' /\ (link' = "down" \/ \A k : Known(k)' => Known(k))
<1>1. link = "ready" /\ Recovering /\ active \in Active
    BY ActiveIsRecovery DEF PlanWarm, PlanCold, SendBarrier, SendDirected, SendReplayCommit, Pausing
<1>2. CASE PlanWarm
    <2>1. UNCHANGED <<link, pass, cache>>
        BY <1>2 DEF PlanWarm
    <2>2. CASE RecoverCold(ActiveRequest, active.aborted)
        <3>1. ActiveRequest \in Request /\ Key(ActiveRequest) = Key(active) /\ active.aborted \in BOOLEAN
            BY <1>1, ActiveIsRecovery DEF Active
        <3>2. ~Shared(Key(active), pass') /\ Known(Key(active)) /\ ~Publishing(ActiveRequest)
            BY <1>1, <2>1, <3>1, BuildIsClients DEF QueueInv, PassApart, BuildApart, Known
        <3>3. Shared(Key(active), pend) => active.aborted
            BY <1>1 DEF QueueInv
        <3> QED BY <1>1, <2>1, <2>2, <3>1, <3>2, <3>3, QueueCold
    <2>3. CASE FlushThroughHead /\ UNCHANGED <<pend, cold, preps, build>>
        BY <1>2, <2>1, <2>3, PhaseMoves, QueueSame DEF PlanWarm, Pausing
    <2> QED BY <1>2, <2>2, <2>3 DEF PlanWarm
<1>3. CASE PlanCold
    <2>1. UNCHANGED <<link, pass, build>> /\ preps' \subseteq preps /\ cache' \in {cache, NoSeq}
        BY <1>3 DEF PlanCold, DropPreparation
    <2>2. CASE Retry
        BY <1>1, <2>1, <2>2, QueueRetries DEF Retry
    <2>3. CASE (FlushThroughHead \/ active' = NoActive) /\ UNCHANGED <<pend, cold>>
        BY <1>3, <2>1, <2>3, PhaseMoves, QueueSame DEF PlanCold, Pausing
    <2> QED BY <1>3, <2>2, <2>3 DEF PlanCold
<1>4. CASE SendBarrier
    <2>1. CASE ClosePair("canonical publisher cannot reach the requested commit")
        BY <2>1, QueueClosed DEF ClosePair
    <2>2. CASE ~ClosePair("canonical publisher cannot reach the requested commit")
        <3>1. /\ UNCHANGED <<link, pend, cold, pass, preps, build, cache>>
              /\ \/ active' = NoActive
                 \/ ~active.aborted /\ active' = [active EXCEPT !.phase = "uncertain"]
            BY <1>4, <2>2 DEF SendBarrier
        <3>2. active' = NoActive \/ RecoveryStays
            BY <1>4, <3>1, PhaseMoves DEF SendBarrier
        <3> QED BY <3>1, <3>2, QueueSame
    <2> QED BY <2>1, <2>2
<1>5. CASE SendDirected
    <2>1. CASE ClosePair("delivery marker outcome is uncertain")
        BY <2>1, QueueClosed DEF ClosePair
    <2>2. CASE ~ClosePair("delivery marker outcome is uncertain")
        <3>1. /\ UNCHANGED <<link, pend, cold, pass, preps, build, cache>>
              /\ active' = [active EXCEPT !.next = active.next + 1]
            BY <1>5, <2>2 DEF SendDirected
        <3>2. RecoveryStays
            BY <1>5, <3>1, PhaseMoves DEF SendDirected
        <3> QED BY <3>1, <3>2, QueueSame
    <2> QED BY <2>1, <2>2
<1>6. CASE SendReplayCommit
    BY <1>6, QueueSame DEF SendReplayCommit, Complete, DropPreparation
<1> QED BY <1>2, <1>3, <1>4, <1>5, <1>6

LEMMA QueueOthers ==
    ASSUME ~DataBatch, HostTypes, QueueInv, StreamInv,
           \/ Pump \/ EvictJournal \/ ExpireCheckpoint \/ FlushDataBatch \/ ReceiveDataAck
           \/ SocketCloses \/ RefuseEarlyTraffic \/ TakePass \/ StartRecovery \/ FlushFrame
           \/ BarrierTimeout \/ BuildFails \/ BuildSucceeds \/ Prepare
    PROVE  QueueInv' /\ (link' = "down" \/ \A k : Known(k)' => Known(k))
<1>1. CASE \E reason : ClosePair(reason)
    BY <1>1, QueueClosed DEF ClosePair
<1>2. ~FlushDataBatch /\ (ReceiveDataAck => UNCHANGED active)
    BY EmptySeq DEF FlushDataBatch, ReceiveDataAck, StreamInv
<1>3. CASE Pump \/ EvictJournal \/ ExpireCheckpoint \/ ReceiveDataAck \/ FlushFrame
    <2>1. UNCHANGED <<link, pend, cold, pass, active, preps, build>> /\ cache' \in {cache, NoSeq}
        BY <1>2, <1>3 DEF Pump, EvictJournal, ExpireCheckpoint, ReceiveDataAck, FlushFrame
    <2> QED BY <2>1, QueueSame DEF RecoveryStays
<1>4. CASE Prepare
    <2>1. /\ UNCHANGED <<pend, cold, pass, active, preps, build, cache>> /\ link # "ready"
        BY <1>4 DEF Prepare
    <2> QED BY <2>1, QueueSame DEF RecoveryStays
<1>5. CASE SocketCloses \/ RefuseEarlyTraffic \/ BarrierTimeout
    BY <1>1, <1>5 DEF SocketCloses, RefuseEarlyTraffic, BarrierTimeout
<1>6. CASE BuildFails /\ ~ \E reason : ClosePair(reason)
    BY <1>6, QueueBuilt DEF BuildFails
<1>7. CASE BuildSucceeds
    BY <1>7, QueueBuilt DEF BuildSucceeds
<1> QED BY <1>1, <1>2, <1>3, <1>4, <1>5, <1>6, <1>7, QueueTakes, QueueStarts

LEMMA NextQueue ==
    ASSUME ~DataBatch, HostTypes, StreamInv, PhaseInv, QueueInv, AttachInv,
           HostNext \/ Prepare \/ BuildSucceeds
    PROVE  /\ QueueInv'
           /\ \/ link' = "down"
              \/ \A k : Known(k)' => Known(k)
              \/ EnqueueAttach /\ \A k : Known(k)' => Known(k) \/ k = Key(Head(toHost).req)
BY QueueOutput, QueueControl, QueueRecovers, QueueOthers DEF HostNext

-----------------------------------------------------------------------------
(* AttachInv *)

\* The host takes the first control frame, or none.
Takes == toHost' = toHost \/ (toHost # <<>> /\ toHost' = Tail(toHost))

LEMMA TakesAt ==
    ASSUME HostTypes, Takes
    PROVE  \E d \in {0, 1} : \A i \in DOMAIN toHost' :
               i \in Nat /\ i + d \in DOMAIN toHost /\ toHost'[i] = toHost[i + d]
<1>1. toHost \in Seq(HostFrame)
    BY DEF HostTypes, LinkTypeOK
<1>2. CASE toHost' = toHost
    <2>1. \A i \in DOMAIN toHost' : i \in Nat /\ i + 0 \in DOMAIN toHost /\ toHost'[i] = toHost[i + 0]
        BY <1>1, <1>2, LenProperties
    <2> QED BY <2>1
<1>3. CASE toHost # <<>> /\ toHost' = Tail(toHost)
    <2>1. \A i \in DOMAIN toHost' : i \in Nat /\ i + 1 \in DOMAIN toHost /\ toHost'[i] = toHost[i + 1]
        BY <1>1, <1>3, TailAt
    <2> QED BY <2>1
<1> QED BY <1>2, <1>3 DEF Takes

LEMMA AttachKept ==
    ASSUME HostTypes, AttachInv, link # "down", Takes, \A k : Known(k)' => Known(k)
    PROVE  AttachInv'
<1>1. PICK d \in {0, 1} : \A i \in DOMAIN toHost' :
               i \in Nat /\ i + d \in DOMAIN toHost /\ toHost'[i] = toHost[i + d]
    BY TakesAt
<1>2. ASSUME NEW i \in DOMAIN toHost', AttachAt(i)',
             NEW j \in DOMAIN toHost', AttachAt(j)', i # j
      PROVE  Key(toHost'[i].req) # Key(toHost'[j].req)
    <2>1. i + d \in DOMAIN toHost /\ j + d \in DOMAIN toHost /\ i + d # j + d
        BY <1>1, <1>2
    <2> QED BY <1>1, <1>2, <2>1 DEF AttachInv, AttachAt
<1>3. ASSUME NEW i \in DOMAIN toHost', AttachAt(i)', NEW k, k = Key(toHost'[i].req)
      PROVE  ~Known(k)'
    BY <1>1, <1>3 DEF AttachInv, AttachAt, Key
<1> QED BY <1>2, <1>3 DEF AttachInv, Key, Known

LEMMA AttachTaken ==
    ASSUME HostTypes, AttachInv, link # "down", toHost # <<>>, toHost' = Tail(toHost),
           Head(toHost).kind = "attach-request",
           \A k : Known(k)' => Known(k) \/ k = Key(Head(toHost).req)
    PROVE  AttachInv'
<1>1. toHost \in Seq(HostFrame)
    BY DEF HostTypes, LinkTypeOK
<1>2. /\ 1 \in DOMAIN toHost /\ AttachAt(1) /\ toHost[1] = Head(toHost)
      /\ \A i \in DOMAIN toHost' : i + 1 \in DOMAIN toHost /\ i + 1 # 1 /\ i \in Nat /\ toHost'[i] = toHost[i + 1]
    BY <1>1, TailAt DEF AttachAt
<1>3. ASSUME NEW i \in DOMAIN toHost', AttachAt(i)',
             NEW j \in DOMAIN toHost', AttachAt(j)', i # j
      PROVE  Key(toHost'[i].req) # Key(toHost'[j].req)
    <2>1. i + 1 \in DOMAIN toHost /\ j + 1 \in DOMAIN toHost /\ i + 1 # j + 1
        BY <1>2, <1>3
    <2> QED BY <1>2, <1>3, <2>1 DEF AttachInv, AttachAt
<1>4. ASSUME NEW i \in DOMAIN toHost', AttachAt(i)', NEW k, k = Key(toHost'[i].req)
      PROVE  ~Known(k)'
    BY <1>2, <1>4 DEF AttachInv, AttachAt, Key
<1> QED BY <1>3, <1>4 DEF AttachInv, Key, Known

LEMMA HostTakes ==
    ASSUME ~DataBatch, StreamInv, HostNext \/ BuildSucceeds
    PROVE  \/ \E reason : ClosePair(reason)
           \/ Takes /\ (link' = link \/ link = "preparing") /\ (link' = "down" => link = "down")
<1>1. ~FlushDataBatch
    BY EmptySeq DEF FlushDataBatch, StreamInv
<1>2. CASE EnqueueAttach \/ HandleDeliveryReset \/ HandleBarrierResult \/ HandleReadyAck
    BY <1>2 DEF EnqueueAttach, HandleDeliveryReset, HandleBarrierResult, HandleReadyAck, Receives, Takes
<1>3. CASE SocketCloses \/ RefuseEarlyTraffic \/ BarrierTimeout
    BY <1>3 DEF SocketCloses, RefuseEarlyTraffic, BarrierTimeout
<1>4. CASE TerminalOutput \/ SendBarrier \/ SendDirected \/ BuildFails
    BY <1>4 DEF TerminalOutput, SendBarrier, SendDirected, BuildFails, Takes
<1>5. CASE Pump \/ EvictJournal \/ ExpireCheckpoint \/ ReceiveDataAck \/ TakePass \/ StartRecovery
           \/ PlanWarm \/ PlanCold \/ FlushFrame \/ SendReplayCommit \/ BuildSucceeds
    BY <1>5 DEF Pump, EvictJournal, ExpireCheckpoint, ReceiveDataAck, TakePass, StartRecovery,
        PlanWarm, PlanCold, FlushFrame, SendReplayCommit, BuildSucceeds, Takes
<1> QED BY <1>1, <1>2, <1>3, <1>4, <1>5 DEF HostNext

LEMMA HostAttach ==
    ASSUME ~DataBatch, HostTypes, StreamInv, PhaseInv, QueueInv, AttachInv,
           HostNext \/ Prepare \/ BuildSucceeds
    PROVE  AttachInv'
<1>1. CASE link' = "down"
    BY <1>1 DEF AttachInv
<1>2. CASE Prepare
    <2>1. toHost' = <<>>
        BY <1>2 DEF Prepare
    <2> QED BY <2>1 DEF AttachInv
<1>3. CASE link' # "down" /\ (HostNext \/ BuildSucceeds)
    <2>1. Takes /\ link # "down"
        BY <1>3, HostTakes DEF ClosePair
    <2>2. \/ \A k : Known(k)' => Known(k)
          \/ EnqueueAttach /\ \A k : Known(k)' => Known(k) \/ k = Key(Head(toHost).req)
        BY <1>3, NextQueue
    <2>3. CASE EnqueueAttach /\ \A k : Known(k)' => Known(k) \/ k = Key(Head(toHost).req)
        <3>1. toHost # <<>> /\ Head(toHost).kind = "attach-request" /\ toHost' = Tail(toHost)
            BY <1>3, <2>3 DEF EnqueueAttach, Receives, ClosePair
        <3> QED BY <2>1, <2>3, <3>1, AttachTaken
    <2> QED BY <2>1, <2>2, <2>3, AttachKept
<1> QED BY <1>1, <1>2, <1>3

-----------------------------------------------------------------------------
(* What the host wants *)

WantsNoMore ==
    /\ \A r : Wanted(r)' => Wanted(r)
    /\ Recovering' => (Recovering /\ Key(active') = Key(active)) \/ Wanted(ActiveRequest')

LEMMA WantedKept ==
    ASSUME HostTypes, Takes,
           \A r \in pend' \cup pass' \cup Building' : Wanted(r),
           \/ active' = NoActive
           \/ RecoveryStays /\ (Served => Served')
           \/ Wanted(ActiveRequest')
    PROVE  WantsNoMore
<1>1. PICK d \in {0, 1} : \A i \in DOMAIN toHost' :
               i \in Nat /\ i + d \in DOMAIN toHost /\ toHost'[i] = toHost[i + d]
    BY TakesAt
<1>2. \A r : (\E i \in DOMAIN toHost' : AttachAt(i)' /\ r = toHost'[i].req) => Wanted(r)
    BY <1>1 DEF Wanted, AttachAt
<1>3. /\ Recovering' /\ ~Served' => Wanted(ActiveRequest')
      /\ Recovering' => (Recovering /\ Key(active') = Key(active)) \/ Wanted(ActiveRequest')
    <2>1. CASE active' = NoActive
        BY <2>1 DEF Recovering
    <2>2. CASE RecoveryStays /\ (Served => Served')
        <3>1. (Recovering' <=> Recovering) /\ Key(active') = Key(active) /\ ActiveRequest' = ActiveRequest
            BY <2>2, StaysRecovering
        <3> QED BY <2>2, <3>1 DEF Wanted
    <2> QED BY <2>1, <2>2
<1>4. \A r : Wanted(r)' => Wanted(r)
    BY <1>2, <1>3 DEF Wanted
<1> QED BY <1>3, <1>4 DEF WantsNoMore

\* An answer stays on its way until the host takes it.
LEMMA ServedStays ==
    ASSUME HostTypes, toHost' = toHost \/ (toHost # <<>> /\ toHost' = Tail(toHost) /\ Head(toHost).kind # "result"),
           active.phase = "pinned" => active'.phase = "pinned"
    PROVE  Served => Served'
<1>1. toHost \in Seq(HostFrame)
    BY DEF HostTypes, LinkTypeOK
<1>2. ASSUME NEW i \in DOMAIN toHost, ResultAt(i), toHost[i].status = "ready" PROVE Served'
    <2>1. CASE toHost' = toHost
        BY <1>2, <2>1 DEF Served, ResultAt
    <2>2. CASE toHost # <<>> /\ toHost' = Tail(toHost) /\ Head(toHost).kind # "result"
        <3>1. i # 1
            BY <1>1, <1>2, <2>2, TailAt DEF ResultAt
        <3>2. i - 1 \in DOMAIN toHost' /\ toHost'[i - 1] = toHost[i]
            BY <1>1, <2>2, <3>1, TailAt
        <3> QED BY <1>2, <3>2 DEF Served, ResultAt
    <2> QED BY <2>1, <2>2
<1> QED BY <1>2 DEF Served

LEMMA QueuedIsWanted ==
    /\ \A r : r \in pend \/ r \in pass \/ r \in Building => Wanted(r)
    /\ Recovering /\ ~Served => Wanted(ActiveRequest)
BY DEF Wanted

\* A retried recovery has not been answered with "ready".
LEMMA NotServed ==
    ASSUME HostTypes, WireInv, link = "ready",
           \/ active.phase \in {"pausing", "flushing"}
           \/ /\ active.phase = "uncertain"
              /\ toHost # <<>> /\ Head(toHost).kind = "result" /\ Head(toHost).status # "ready"
    PROVE  ~Served
<1>1. toHost \in Seq(HostFrame)
    BY DEF HostTypes, LinkTypeOK
<1>2. ASSUME NEW i \in DOMAIN toHost, ResultAt(i), toHost[i].status = "ready" PROVE FALSE
    <2>1. active.phase = "uncertain"
        BY <1>2 DEF WireInv, ResultInv
    <2>2. 1 \in DOMAIN toHost /\ toHost[1] = Head(toHost) /\ ResultAt(1)
        BY <1>1, <2>1, TailAt DEF ResultAt
    <2>3. i = 1
        BY <1>2, <2>2 DEF WireInv, ResultInv
    <2> QED BY <1>2, <2>1, <2>2, <2>3
<1> QED BY <1>2 DEF Served

LEMMA ColdWants ==
    ASSUME HostTypes, Takes, NEW r \in Request, NEW aborted, RecoverCold(r, aborted), Wanted(r),
           pass' \subseteq pass
    PROVE  WantsNoMore
<1>1. \A q \in pass' : Wanted(q)
    BY QueuedIsWanted
<1>2. /\ active' = NoActive \/ ActiveRequest' = r
      /\ pend' \subseteq pend \cup {r}
      /\ Building' \subseteq Building \cup {r}
    <2>1. ASSUME NEW p, DeliverPrepared(r, p, aborted)
          PROVE  ActiveRequest' = r /\ pend' = pend /\ Building' = Building
        <3>1. active'.c = r.c /\ active'.gen = r.gen /\ active'.base = r.base /\ UNCHANGED <<pend, build>>
            BY <2>1 DEF DeliverPrepared, NoActive
        <3>2. ActiveRequest' = r
            BY <3>1 DEF ActiveRequest, Request
        <3> QED BY <3>1, <3>2 DEF Building, BuildRequest
    <2>2. CASE AwaitPreparation(r)
        <3>1. active' = NoActive /\ pend' \subseteq pend \cup {r}
            BY <2>2, Requeues DEF AwaitPreparation
        <3>2. CASE build' = build
            BY <3>1, <3>2 DEF Building, BuildRequest
        <3>3. CASE build' = [c |-> r.c, gen |-> r.gen, base |-> r.base, cut |-> head, current |-> TRUE]
            <4>1. BuildRequest' = r
                BY <3>3 DEF BuildRequest, Request
            <4> QED BY <3>1, <4>1 DEF Building
        <3> QED BY <2>2, <3>1, <3>2, <3>3 DEF AwaitPreparation
    <2> QED BY <2>1, <2>2 DEF RecoverCold
<1>3. \A q \in pend' \cup pass' \cup Building' : Wanted(q)
    BY <1>1, <1>2, QueuedIsWanted
<1> QED BY <1>2, <1>3, WantedKept

LEMMA SameWants ==
    ASSUME HostTypes, Takes, pend' \subseteq pend, pass' \subseteq pass, Building' \subseteq Building,
           active' = NoActive \/ (RecoveryStays /\ (Served => Served'))
    PROVE  WantsNoMore
<1>1. \A q \in pend' \cup pass' \cup Building' : Wanted(q)
    BY QueuedIsWanted
<1> QED BY <1>1, WantedKept

LEMMA RetryWants ==
    ASSUME HostTypes, Takes, pend' = Requeued(ActiveRequest, pend), Recovering, ~Served,
           UNCHANGED <<pass, build>>, active' = NoActive \/ RecoveryStays
    PROVE  WantsNoMore
<1>1. \A q \in pend' \cup pass' \cup Building' : Wanted(q)
    BY QueuedIsWanted, Requeues DEF Building, BuildRequest
<1> QED BY <1>1, WantedKept

LEMMA OutputWants ==
    ASSUME HostTypes, PhaseInv, QueueInv, WireInv, TerminalOutput
    PROVE  (\E reason : ClosePair(reason)) \/ WantsNoMore
<1>1. CASE UNCHANGED <<link, pend, pass, active, build, toHost>>
    BY <1>1, SameWants, ServedStays DEF RecoveryStays, Takes, Building, BuildRequest
<1>2. CASE AbortForPressure /\ active.phase \in PreMarker /\ UNCHANGED <<link, pass, build, toHost>>
    <2>1. active \in Active /\ Recovering
        BY <1>2, ActiveIsRecovery DEF PreMarker
    <2>2. link = "ready"
        BY <2>1 DEF QueueInv, Idle, Recovering
    <2>3. /\ active'.c = active.c /\ active'.gen = active.gen /\ active'.base = active.base
          /\ active'.aborted = TRUE /\ active'.phase = active.phase /\ active.phase \in {"pausing", "flushing"}
        BY <1>2, <2>1, Updated DEF AbortForPressure, PhaseInv, PreMarker
    <2>4. RecoveryStays
        BY <2>1, <2>3 DEF RecoveryStays
    <2>5. ~Served
        BY <2>2, <2>3, NotServed
    <2> QED BY <1>2, <2>1, <2>4, <2>5, RetryWants DEF AbortForPressure, Takes
<1> QED BY <1>1, <1>2 DEF TerminalOutput

LEMMA ControlWants ==
    ASSUME HostTypes, PhaseInv, QueueInv, WireInv,
           HandleReadyAck \/ HandleDeliveryReset \/ HandleBarrierResult \/ EnqueueAttach
    PROVE  (\E reason : ClosePair(reason)) \/ WantsNoMore
<1> SUFFICES ASSUME ~ \E reason : ClosePair(reason) PROVE WantsNoMore
    OBVIOUS
<1>1. Takes /\ toHost # <<>> /\ toHost' = Tail(toHost) /\ toHost \in Seq(HostFrame)
    BY DEF HandleReadyAck, HandleDeliveryReset, HandleBarrierResult, EnqueueAttach, Receives, Takes,
           HostTypes, LinkTypeOK
<1>2. CASE HandleReadyAck
    BY <1>1, <1>2, SameWants, ServedStays DEF HandleReadyAck, Receives, RecoveryStays, Building, BuildRequest
<1>3. ASSUME AbortActive \/ UNCHANGED <<active, paused>>, Head(toHost).kind # "result"
      PROVE  active' = NoActive \/ (RecoveryStays /\ (Served => Served'))
    <2>1. CASE active.phase = "pinned" /\ active' = [active EXCEPT !.aborted = TRUE]
        <3>1. active \in Active
            BY <2>1, ActiveIsRecovery
        <3>2. active'.phase = "pinned"
            BY <2>1, <3>1, Updated
        <3> QED BY <1>1, <1>3, <3>2, AbortStays, ServedStays
    <2>2. CASE active.phase # "pinned" \/ active' = active
        BY <1>1, <1>3, <2>2, AbortStays, ServedStays
    <2> QED BY <1>3, <2>1, <2>2 DEF AbortActive
<1>4. CASE HandleDeliveryReset
    <2> DEFINE f == Head(toHost)
    <2>1. /\ Forget(f.c, f.gen) /\ pend' \subseteq pend
          /\ AbortActive \/ UNCHANGED <<active, paused>>
          /\ UNCHANGED <<pass, cache>> /\ f.kind = "delivery-reset"
        BY <1>4 DEF HandleDeliveryReset, Receives
    <2>2. f.c \in Clients /\ f.gen \in Int
        <3>1. f \in HostFrame
            BY <1>1, ReceivesHead
        <3> QED BY <2>1, <3>1 DEF HostFrame, Gens
    <2>3. Building' \subseteq Building
        <3> HIDE DEF f
        <3> QED BY <2>1, <2>2, Forgets
    <2> QED BY <1>1, <1>3, <2>1, <2>3, SameWants
<1>5. CASE EnqueueAttach
    <2> DEFINE r == Head(toHost).req
               g == r.gen - 1
    <2>1. /\ \/ UNCHANGED <<pend, cold, preps, build>>
             \/ Forget(r.c, g) /\ pend' = {p \in pend : p.c # r.c} \cup {r}
          /\ AbortActive \/ UNCHANGED <<active, paused>>
          /\ UNCHANGED <<pass, cache>> /\ Head(toHost).kind = "attach-request"
        BY <1>5 DEF EnqueueAttach, Receives
    <2>2. r.c \in Clients /\ g \in Int
        <3>1. Head(toHost) \in HostFrame
            BY <1>1, ReceivesHead
        <3>2. r \in Request
            BY <2>1, <3>1 DEF HostFrame
        <3> QED BY <3>2 DEF Request, Gens
    <2>3. Building' \subseteq Building
        <3> HIDE DEF g, r
        <3>1. CASE Forget(r.c, g)
            BY <2>1, <2>2, <3>1, Forgets
        <3>2. CASE UNCHANGED build
            BY <3>2 DEF Building, BuildRequest
        <3> QED BY <2>1, <3>1, <3>2
    <2>4. Wanted(r)
        BY <1>1, <2>1, TailAt DEF Wanted, AttachAt
    <2>5. \A q \in pend' \cup pass' \cup Building' : Wanted(q)
        BY <2>1, <2>3, <2>4, QueuedIsWanted
    <2> QED BY <1>1, <1>3, <2>1, <2>5, WantedKept
<1>6. CASE HandleBarrierResult
    <2>1. /\ link = "ready" /\ Head(toHost).kind = "result" /\ UNCHANGED <<pass, build>>
          /\ Building' = Building
        BY <1>6 DEF HandleBarrierResult, Receives, Building, BuildRequest
    <2>2. active.phase = "uncertain" /\ Head(toHost).id = ActiveIdentity
        <3>1. 1 \in DOMAIN toHost /\ toHost[1] = Head(toHost) /\ ResultAt(1)
            BY <1>1, <2>1, TailAt DEF ResultAt
        <3> QED BY <2>1, <3>1 DEF WireInv, ResultInv
    <2>3. Outcome(Head(toHost).status) /\ Recovering
        BY <1>6, <2>2, ActiveIsRecovery DEF HandleBarrierResult
    <2>4. CASE Outcome("ready") /\ Head(toHost).status = "ready"
        <3>1. RecoveryStays /\ UNCHANGED pend
            BY <2>2, <2>4, PhaseMoves DEF Outcome
        <3>2. active'.phase = "pinned"
            <4> DEFINE n == IF active.mode = "warm" THEN active.base ELSE active.cut
            <4>1. active' = [active EXCEPT !.phase = "pinned", !.next = n] /\ active \in Active
                BY <2>2, <2>4, ActiveIsRecovery DEF Outcome
            <4> HIDE DEF n
            <4> QED BY <4>1, Updated
        <3>3. Served'
            BY <3>2 DEF Served
        <3> QED BY <1>1, <2>1, <3>1, <3>3, SameWants
    <2>5. CASE Complete
        BY <1>1, <2>1, <2>5, SameWants DEF Complete
    <2>6. CASE Retry /\ Head(toHost).status # "ready"
        <3>1. ~Served
            BY <1>1, <2>1, <2>2, <2>6, NotServed
        <3> QED BY <1>1, <2>1, <2>3, <2>6, <3>1, RetryWants DEF Retry
    <2> QED BY <2>3, <2>4, <2>5, <2>6 DEF Outcome
<1> QED BY <1>2, <1>4, <1>5, <1>6

LEMMA RecoversWant ==
    ASSUME ~DataBatch, HostTypes, PhaseInv, QueueInv, WireInv,
           StartRecovery \/ PlanWarm \/ PlanCold \/ SendBarrier \/ SendDirected \/ SendReplayCommit
    PROVE  (\E reason : ClosePair(reason)) \/ WantsNoMore
<1> SUFFICES ASSUME ~ \E reason : ClosePair(reason) PROVE WantsNoMore
    OBVIOUS
<1>1. Takes /\ UNCHANGED toHost /\ link = "ready"
    BY DEF StartRecovery, PlanWarm, PlanCold, SendBarrier, SendDirected, SendReplayCommit, Takes, Pausing
<1>2. ASSUME UNCHANGED <<pend, pass, build>>,
             active' = NoActive \/ (RecoveryStays /\ (active.phase = "pinned" => active'.phase = "pinned"))
      PROVE  WantsNoMore
    BY <1>1, <1>2, SameWants, ServedStays DEF Building, BuildRequest
<1>3. CASE StartRecovery
    <2>1. PICK r \in pass :
              /\ pass' = pass \ {r}
              /\ \/ /\ active' = [NoActive EXCEPT !.c = r.c, !.gen = r.gen, !.base = r.base,
                                     !.mode = "warm", !.phase = "pausing"]
                    /\ UNCHANGED <<pend, cold, preps, build>>
                 \/ RecoverCold(r, FALSE)
        BY <1>3 DEF StartRecovery
    <2>2. r \in Request /\ Wanted(r) /\ pass' \subseteq pass
        BY <2>1, QueuedIsWanted DEF HostTypes, HostTypeOK
    <2>3. CASE /\ active' = [NoActive EXCEPT !.c = r.c, !.gen = r.gen, !.base = r.base,
                                !.mode = "warm", !.phase = "pausing"]
               /\ UNCHANGED <<pend, cold, preps, build>>
        <3>1. active'.c = r.c /\ active'.gen = r.gen /\ active'.base = r.base
            BY <2>3 DEF NoActive
        <3>2. ActiveRequest' = r
            BY <2>2, <3>1 DEF ActiveRequest, Request
        <3>3. \A q \in pend' \cup pass' \cup Building' : Wanted(q)
            BY <2>2, <2>3, QueuedIsWanted DEF Building, BuildRequest
        <3> QED BY <1>1, <2>2, <3>2, <3>3, WantedKept
    <2> QED BY <1>1, <2>1, <2>2, <2>3, ColdWants
<1>4. CASE PlanWarm
    <2>1. active.phase = "pausing" /\ UNCHANGED pass
        BY <1>4 DEF PlanWarm, Pausing
    <2>2. CASE RecoverCold(ActiveRequest, active.aborted)
        <3>1. Recovering /\ ActiveRequest \in Request
            BY <2>1, ActiveIsRecovery
        <3>2. Wanted(ActiveRequest)
            BY <1>1, <2>1, <3>1, NotServed, QueuedIsWanted
        <3> QED BY <1>1, <2>1, <2>2, <3>1, <3>2, ColdWants
    <2>3. CASE FlushThroughHead /\ UNCHANGED <<pend, cold, preps, build>>
        BY <1>2, <2>1, <2>3, PhaseMoves
    <2> QED BY <1>4, <2>2, <2>3 DEF PlanWarm
<1>5. CASE PlanCold
    <2>1. UNCHANGED <<pass, build>> /\ active.phase = "pausing"
        BY <1>5 DEF PlanCold, Pausing
    <2>2. CASE Retry
        <3>1. Recovering /\ ~Served
            BY <1>1, <2>1, ActiveIsRecovery, NotServed
        <3> QED BY <1>1, <2>1, <2>2, <3>1, RetryWants DEF Retry
    <2>3. CASE (FlushThroughHead \/ active' = NoActive) /\ UNCHANGED pend
        BY <1>2, <2>1, <2>3, PhaseMoves
    <2> QED BY <1>5, <2>2, <2>3 DEF PlanCold
<1>6. CASE SendBarrier
    <2>1. /\ UNCHANGED <<pend, pass, build>> /\ active.phase = "flushing"
          /\ active' = NoActive \/ (~active.aborted /\ active' = [active EXCEPT !.phase = "uncertain"])
        BY <1>6 DEF SendBarrier
    <2> QED BY <1>2, <2>1, PhaseMoves
<1>7. CASE SendDirected
    <2> DEFINE n == active.next + 1
    <2>1. /\ UNCHANGED <<pend, pass, build>> /\ active.phase = "pinned"
          /\ active' = [active EXCEPT !.next = n] /\ active \in Active
        BY <1>7, ActiveIsRecovery DEF SendDirected
    <2>2. RecoveryStays
        BY <2>1, PhaseMoves
    <2> HIDE DEF n
    <2>3. active'.phase = "pinned"
        BY <2>1, Updated
    <2> QED BY <1>2, <2>1, <2>2, <2>3
<1>8. CASE SendReplayCommit
    BY <1>2, <1>8 DEF SendReplayCommit, Complete
<1> QED BY <1>3, <1>4, <1>5, <1>6, <1>7, <1>8

LEMMA OthersWant ==
    ASSUME ~DataBatch, HostTypes, StreamInv,
           \/ Pump \/ EvictJournal \/ ExpireCheckpoint \/ FlushDataBatch \/ ReceiveDataAck
           \/ SocketCloses \/ RefuseEarlyTraffic \/ TakePass \/ FlushFrame
           \/ BarrierTimeout \/ BuildFails \/ BuildSucceeds
    PROVE  (\E reason : ClosePair(reason)) \/ WantsNoMore
<1> SUFFICES ASSUME ~ \E reason : ClosePair(reason) PROVE WantsNoMore
    OBVIOUS
<1>1. ~FlushDataBatch /\ (ReceiveDataAck => UNCHANGED active)
    BY EmptySeq DEF FlushDataBatch, ReceiveDataAck, StreamInv
<1>2. UNCHANGED <<active, toHost>>
    BY <1>1 DEF Pump, EvictJournal, ExpireCheckpoint, ReceiveDataAck, SocketCloses, RefuseEarlyTraffic,
        TakePass, FlushFrame, BarrierTimeout, BuildFails, BuildSucceeds
<1>3. Takes /\ RecoveryStays /\ (Served => Served')
    BY <1>2, ServedStays DEF Takes, RecoveryStays
<1>4. \A q \in pend' \cup pass' \cup Building' : Wanted(q)
    <2>1. CASE BuildFails \/ BuildSucceeds
        <3>1. /\ pass' = pass /\ Building' = {}
              /\ pend' = pend \/ (build.current /\ pend' = Requeued(BuildRequest, pend))
            <4>1. /\ build' = NoBuild /\ pass' = pass
                  /\ pend' = pend \/ (build.current /\ pend' = Requeued(BuildRequest, pend))
                <5>1. CASE BuildSucceeds
                    BY <5>1 DEF BuildSucceeds
                <5>2. CASE BuildFails /\ ~ClosePair("snapshot preparation failed")
                    BY <5>2 DEF BuildFails
                <5> QED BY <2>1, <5>1, <5>2
            <4> QED BY <4>1 DEF Building, NoBuild
        <3>2. build.current => BuildRequest \in Building
            BY DEF Building
        <3> QED BY <3>1, <3>2, QueuedIsWanted, Requeues
    <2>2. CASE TakePass
        BY <2>2, QueuedIsWanted DEF TakePass, Building, BuildRequest
    <2>3. CASE UNCHANGED <<pend, pass, build>>
        BY <2>3, QueuedIsWanted DEF Building, BuildRequest
    <2> QED BY <1>1, <2>1, <2>2, <2>3 DEF Pump, EvictJournal, ExpireCheckpoint, ReceiveDataAck,
        SocketCloses, RefuseEarlyTraffic, FlushFrame, BarrierTimeout
<1> QED BY <1>3, <1>4, WantedKept

\* The host comes to want a request only by being sent it.
LEMMA HostWants ==
    ASSUME ~DataBatch, HostTypes, StreamInv, PhaseInv, QueueInv, WireInv, HostNext \/ BuildSucceeds
    PROVE  (\E reason : ClosePair(reason)) \/ WantsNoMore
BY OutputWants, ControlWants, RecoversWant, OthersWant DEF HostNext

-----------------------------------------------------------------------------
(* Deliveries and requests *)

\* What a step may do to a client's delivery, the answer to a barrier aside.
Moves(c) ==
    \/ gen'[c] > gen[c]
    \/ /\ gen'[c] = gen[c] /\ dat'[c] = NoData
       /\ ctl'[c] = "none" \/ (ctl'[c] = "active" /\ DataClosing(c)')
    \/ /\ gen'[c] = gen[c] /\ ctl'[c] = ctl[c] /\ dat'[c] = dat[c]
       /\ ctl[c] = "active" /\ DataClosing(c) => DataClosing(c)'
    \/ gen'[c] = gen[c] /\ ~Attached(c)
    \/ /\ gen'[c] = gen[c] /\ ctl'[c] = ctl[c] /\ ~Fresh(dat[c])
       /\ dat[c].state \in {"catching", "synced"} /\ dat'[c].state \in {"catching", "synced"}

LEMMA GenIsInt == ASSUME RelayTypes, NEW c \in Clients PROVE gen[c] \in Int
<1>1. gen \in [Clients -> 0 .. MaxGen]
    BY DEF RelayTypes, RelayTypeOK
<1>2. gen[c] \in 0 .. MaxGen
    BY <1>1
<1> QED BY <1>2, Bounds

LEMMA OldStays ==
    ASSUME RelayTypes, NEW c \in Clients, Moves(c), gen'[c] \in Int, NEW g \in Int, Old(<<c, g>>)
    PROVE  Old(<<c, g>>)'
<1>1. gen[c] \in Int
    BY GenIsInt
<1>2. g < gen[c] \/ (g = gen[c] /\ Attached(c))
    BY DEF Old
<1>3. g < gen'[c] \/ (g = gen'[c] /\ Attached(c)')
    <2>1. NoData.state = "none"
        BY DEF NoData
    <2> QED BY <1>1, <1>2, <2>1 DEF Moves, Attached
<1> QED BY <1>3 DEF Old

LEMMA WaitingStays ==
    ASSUME RelayTypes, NEW r \in Request, Moves(r.c), gen'[r.c] \in Int, Waiting(r)
    PROVE  Waiting(r)'
<1>1. r.c \in Clients /\ r.gen \in Int /\ Key(r) = <<r.c, r.gen>>
    BY DEF Request, Gens, Key
<1>2. gen[r.c] \in Int /\ NoData.state = "none"
    BY <1>1, GenIsInt DEF NoData
<1>3. Old(Key(r)) /\ Old(<<r.c, r.gen>>)'
    BY <1>1, OldStays DEF Waiting
<1>4. r.gen < gen[r.c] \/ (r.gen = gen[r.c] /\ Attached(r.c))
    BY <1>1, <1>3 DEF Old
<1>5. CASE r.gen # gen'[r.c] \/ dat'[r.c].state = "none"
    BY <1>1, <1>3, <1>5 DEF Waiting, Untouched, From, Key
<1>6. CASE r.gen = gen'[r.c] /\ dat'[r.c].state # "none"
    <2>1. r.gen = gen[r.c] /\ Attached(r.c) /\ gen'[r.c] = gen[r.c]
        BY <1>2, <1>1, <1>4, <1>6 DEF Moves
    <2>2. dat'[r.c] = dat[r.c] \/ (~Fresh(dat[r.c]) /\ dat[r.c].state # "none")
        BY <1>2, <1>6, <2>1 DEF Moves
    <2>3. dat'[r.c] = dat[r.c]
        BY <1>1, <2>1, <2>2 DEF Waiting, Untouched
    <2> QED BY <1>1, <1>3, <2>1, <2>3 DEF Waiting, Untouched, From, Key
<1> QED BY <1>5, <1>6

LEMMA UntouchedStays ==
    ASSUME RelayTypes, NEW c \in Clients, Moves(c), gen'[c] \in Int, NEW g \in Int,
           Untouched(<<c, g>>), Old(<<c, g>>)
    PROVE  Untouched(<<c, g>>)'
<1>1. gen[c] \in Int /\ NoData.state = "none"
    BY GenIsInt DEF NoData
<1>2. g < gen[c] \/ (g = gen[c] /\ Attached(c))
    BY DEF Old
<1>3. ASSUME g = gen'[c], dat'[c].state # "none" PROVE Fresh(dat'[c])
    <2>1. g = gen[c] /\ Attached(c) /\ gen'[c] = gen[c]
        BY <1>1, <1>2, <1>3 DEF Moves
    <2>2. dat'[c] = dat[c] \/ (~Fresh(dat[c]) /\ dat[c].state # "none")
        BY <1>1, <1>3, <2>1 DEF Moves
    <2> QED BY <1>3, <2>1, <2>2 DEF Untouched
<1> QED BY <1>3 DEF Untouched, Fresh

LEMMA HostDownMoves ==
    ASSUME RelayTypes, NEW c \in Clients, UNCHANGED <<ctl, gen>>, resets' = WithoutHostResets(resets),
           dat' = CatchingUp(dat) \/ UNCHANGED dat
    PROVE  Moves(c)
<1>1. DataClosing(c) => DataClosing(c)'
    BY DEF DataClosing, WithoutHostResets
<1>2. CASE dat'[c] = dat[c]
    BY <1>1, <1>2 DEF Moves
<1>3. CASE dat[c].state = "synced" /\ dat'[c] = [dat[c] EXCEPT !.state = "catching"]
    <2>1. dat[c] \in Data
        BY <1>3, SocketIsData
    <2>2. dat'[c].state = "catching" /\ ~Fresh(dat[c])
        BY <1>3, <2>1 DEF Data, Fresh
    <2> QED BY <1>3, <2>2 DEF Moves
<1> QED BY <1>2, <1>3 DEF CatchingUp

LEMMA FailMoves ==
    ASSUME RelayTypes, NEW c \in Clients, NEW reason, FailCurrentHost(reason) PROVE Moves(c)
BY HostDownMoves DEF FailCurrentHost

LEMMA StillMoves ==
    ASSUME UNCHANGED <<gen, ctl, dat>>, resets \subseteq resets', NEW c \in Clients PROVE Moves(c)
BY DEF Moves, DataClosing

LEMMA CanonicalMoves ==
    ASSUME RelayTypes, NEW c \in Clients, CanonicalEvent PROVE Moves(c)
<1>1. CASE FailCurrentHost("canonical data sequence gap")
    BY <1>1, FailMoves
<1>2. CASE ~FailCurrentHost("canonical data sequence gap")
    <2> DEFINE seq == Head(toRelay).seq
    <2>1. /\ UNCHANGED <<gen, ctl>> /\ resets \subseteq resets'
          /\ dat'[c] = dat[c] \/ (dat[c].state = "synced" /\ dat'[c] = [dat[c] EXCEPT !.sent = seq])
        BY <1>2 DEF CanonicalEvent
    <2>2. DataClosing(c) => DataClosing(c)'
        BY <2>1 DEF DataClosing
    <2>3. CASE dat[c].state = "synced" /\ dat'[c] = [dat[c] EXCEPT !.sent = seq]
        <3>1. dat[c] \in Data
            BY <2>3, SocketIsData
        <3>2. dat'[c].state = "synced" /\ ~Fresh(dat[c])
            BY <2>3, <3>1 DEF Data, Fresh
        <3> QED BY <2>1, <2>3, <3>2 DEF Moves
    <2> QED BY <2>1, <2>2, <2>3 DEF Moves
<1> QED BY <1>1, <1>2

\* The delivery a barrier is about is the only one its handling moves.
BarrierFails ==
    \/ FailCurrentHost("delivery barrier does not match canonical head")
    \/ FailCurrentHost("delivery barrier conflicts with active delivery")
    \/ FailCurrentHost("delivery barrier conflicts with pinned delivery")

LEMMA BarrierIsFrame ==
    ASSUME RelayTypes, HandleBarrier
    PROVE  LET id == Head(toRelay).id
           IN  id \in Identity /\ id.c \in Clients /\ id.gen \in Gens /\ Head(toRelay).kind = "barrier"
<1>1. Head(toRelay) \in RelayFrame /\ Head(toRelay).kind = "barrier"
    BY ProcessesHead DEF HandleBarrier, Processes
<1>2. Head(toRelay).id \in Identity
    BY <1>1 DEF RelayFrame
<1> QED BY <1>1, <1>2 DEF Identity

\* A barrier is accepted: the delivery of c is pinned.
Pins(c) ==
    LET id == Head(toRelay).id
    IN  /\ Processes("barrier") /\ toRelay' = Tail(toRelay)
        /\ c = id.c /\ id.gen = gen[c] /\ id.commit = doHead
        /\ dat[c].state = "catching" /\ Unadvanced(dat[c]) /\ ctl[c] = "active"
        /\ id.mode = "warm" => dat[c].first # NoSeq
        /\ dat' = [dat EXCEPT ![c] = PinnedData(dat[c], id)]
        /\ toHost' = Append(toHost, [kind |-> "result", id |-> id, status |-> "ready"])
        /\ UNCHANGED <<gen, ctl, resets, doHead, host, readying, blame>>

LEMMA BarrierMoves ==
    ASSUME RelayTypes, NEW c \in Clients, HandleBarrier
    PROVE  Moves(c) \/ Pins(c)
<1> DEFINE id == Head(toRelay).id
<1>1. CASE BarrierFails
    BY <1>1, FailMoves DEF BarrierFails
<1>2. CASE ~BarrierFails
    <2>1. /\ UNCHANGED <<gen, resets, doHead, host, readying, blame>> /\ toRelay' = Tail(toRelay)
          /\ UNCHANGED <<ctl, dat>> \/ ("ready" \in Answers(id) /\ PinDelivery(id))
        BY <1>2 DEF HandleBarrier, BarrierFails
    <2>2. CASE UNCHANGED <<ctl, dat>>
        BY <2>1, <2>2, StillMoves
    <2>3. CASE Isolate(id.c)
        <3>1. \/ dat'[c] = NoData /\ ctl'[c] = "none"
              \/ dat'[c] = dat[c] /\ ctl'[c] = ctl[c]
            BY <2>3 DEF Isolate, RelayTypes, RelayTypeOK
        <3> QED BY <2>1, <3>1 DEF Moves, DataClosing
    <2>4. CASE /\ "ready" \in Answers(id) /\ dat' = [dat EXCEPT ![id.c] = PinnedData(dat[id.c], id)]
               /\ BarrierResult(id, "ready") /\ UNCHANGED ctl
        <3>1. /\ id.gen = gen[id.c] /\ ~Gone(id.c)
              /\ id.mode = "warm" => dat[id.c].first # NoSeq
            BY <2>4 DEF Answers
        <3>2. CASE c # id.c
            <4>1. dat'[c] = dat[c]
                BY <2>4, <3>2 DEF RelayTypes, RelayTypeOK
            <4> QED BY <2>1, <2>4, <4>1 DEF Moves, DataClosing
        <3>3. CASE c = id.c
            <4>1. Processes("barrier") /\ host = "active"
                BY DEF HandleBarrier, Processes
            <4>2. id.commit = doHead /\ dat[c].state = "catching" /\ Unadvanced(dat[c])
                BY <1>2, <3>1, <3>3 DEF HandleBarrier, BarrierFails
            <4> QED BY <2>1, <2>4, <3>1, <3>3, <4>1, <4>2 DEF Pins, Gone, BarrierResult, ToHost
        <3> QED BY <3>2, <3>3
    <2> QED BY <2>1, <2>2, <2>3, <2>4 DEF PinDelivery
<1> QED BY <1>1, <1>2

LEMMA DirectedIsFrame ==
    ASSUME RelayTypes, DirectedFrame
    PROVE  LET f == Head(toRelay)
           IN  /\ f \in RelayFrame /\ f.kind \in {"directed", "commit"}
               /\ f.c \in Clients /\ f.gen \in Gens /\ f.seq \in Seqs
<1>1. Head(toRelay) \in RelayFrame /\ Head(toRelay).kind \in {"directed", "commit"}
    BY ProcessesHead DEF DirectedFrame, Processes
<1> QED BY <1>1 DEF RelayFrame

LEMMA DirectedMoves ==
    ASSUME RelayTypes, NEW c \in Clients, DirectedFrame PROVE Moves(c)
<1> DEFINE f == Head(toRelay)
           d == dat[f.c]
<1>1. CASE \/ FailCurrentHost("directed replay exceeds pinned commit")
           \/ FailCurrentHost("directed replay sequence gap")
    BY <1>1, FailMoves
<1>2. CASE UNCHANGED <<gen, ctl, dat>> /\ resets \subseteq resets'
    BY <1>2, StillMoves
<1>3. CASE /\ UNCHANGED <<gen, ctl, resets>> /\ dat' = [dat EXCEPT ![f.c] = Delivered(d, f)]
           /\ WithinPin(d, f) /\ ContinuesReplay(d, f)
    <2>1. CASE c # f.c
        <3>1. dat'[c] = dat[c]
            BY <1>3, <2>1 DEF RelayTypes, RelayTypeOK
        <3> QED BY <1>3, <3>1 DEF Moves, DataClosing
    <2>2. CASE c = f.c
        <3>1. dat'[c] = Delivered(dat[c], f) /\ dat[c].state = "catching" /\ dat[c].mode # "none"
            BY <1>3, <2>2 DEF RelayTypes, RelayTypeOK, ContinuesReplay, WithinPin
        <3>2. dat[c] \in Data
            BY <3>1, SocketIsData
        <3>3. dat'[c].state \in {"catching", "synced"}
            BY <3>1, <3>2 DEF Delivered, Data
        <3> QED BY <1>3, <3>1, <3>3 DEF Moves, Fresh
    <2> QED BY <2>1, <2>2
<1> QED BY <1>1, <1>2, <1>3 DEF DirectedFrame

LEMMA ResetMoves ==
    ASSUME RelayTypes, NEW c \in Clients, FinishReset PROVE Moves(c)
<1>1. PICK r \in resets :
          /\ resets' = resets \ {r}
          /\ IF gen[r.c] = r.gen /\ ctl[r.c] = "active" THEN ReplaceDelivery(r)
             ELSE UNCHANGED <<gen, ctl, dat>>
    BY DEF FinishReset
<1>2. r.c \in Clients /\ gen[c] \in Int
    BY <1>1, GenIsInt DEF RelayTypes, RelayTypeOK, Reset
<1>3. CASE r.c = c /\ gen[c] = r.gen /\ ctl[c] = "active"
    <2>1. ReplaceDelivery(r)
        BY <1>1, <1>3
    <2>2. gen'[c] = IF r.gen < MaxGen THEN r.gen + 1 ELSE r.gen
        BY <1>3, <2>1 DEF ReplaceDelivery, RelayTypes, RelayTypeOK
    <2>3. r.gen < MaxGen \/ (dat'[c] = NoData /\ ctl'[c] = "none")
        BY <1>3, <2>1 DEF ReplaceDelivery, Isolate, RelayTypes, RelayTypeOK
    <2>4. CASE r.gen < MaxGen
        <3>1. gen'[c] > gen[c]
            BY <1>2, <1>3, <2>2, <2>4
        <3> QED BY <3>1 DEF Moves
    <2>5. CASE ~(r.gen < MaxGen)
        BY <1>3, <2>2, <2>3, <2>5 DEF Moves
    <2> QED BY <2>4, <2>5
<1>4. CASE ~(r.c = c /\ gen[c] = r.gen /\ ctl[c] = "active")
    <2>1. dat'[c] = dat[c] /\ ctl'[c] = ctl[c] /\ gen'[c] = gen[c]
        BY <1>1, <1>2, <1>4 DEF ReplaceDelivery, Isolate, RelayTypes, RelayTypeOK
    <2>2. ctl[c] = "active" /\ DataClosing(c) => DataClosing(c)'
        BY <1>1, <1>4, <2>1 DEF DataClosing
    <2> QED BY <2>1, <2>2 DEF Moves
<1> QED BY <1>3, <1>4

LEMMA BrowserMoves ==
    ASSUME RelayTypes, NEW c \in Clients, DataOf(c), Browsers PROVE Moves(c)
<1>1. PICK b \in Clients :
        \/ BrowserConnects(b) \/ BrowserOpensData(b) \/ BrowserAttaches(b)
        \/ BrowserAcknowledges(b) \/ BrowserDataCloses(b) \/ BrowserCloses(b)
    BY Zenon DEF Browsers
<1>2. resets \subseteq resets'
    BY <1>1
    DEF BrowserConnects, BrowserOpensData, BrowserAttaches, BrowserAcknowledges,
        BrowserDataCloses, BrowserCloses
<1>3. /\ dat \in [Clients -> Data \cup {NoData}]
      /\ ctl \in [Clients -> {"none", "awaiting", "active"}]
      /\ gen \in [Clients -> 0 .. MaxGen]
    BY DEF RelayTypes, RelayTypeOK
<1>4. CASE b # c
    <2>1. UNCHANGED <<dat[c], ctl[c], gen[c]>>
        BY <1>1, <1>3, <1>4
        DEF BrowserConnects, BrowserOpensData, BrowserAttaches, BrowserAcknowledges,
            BrowserDataCloses, BrowserCloses, Isolate
    <2> QED BY <1>2, <2>1 DEF Moves, DataClosing
<1>5. CASE b = c
    <2>1. CASE BrowserConnects(c)
        <3>1. gen'[c] = gen[c] + 1 /\ gen[c] \in Int
            BY <1>3, <2>1 DEF BrowserConnects
        <3> QED BY <3>1 DEF Moves
    <2>2. CASE BrowserDataCloses(c) \/ BrowserCloses(c)
        <3>1. gen' = gen /\ dat'[c] = NoData
            BY <1>3, <2>2 DEF BrowserDataCloses, BrowserCloses, Isolate
        <3>2. ctl'[c] = "none" \/ (ctl'[c] = "active" /\ DataClosing(c)')
            BY <1>3, <2>2 DEF BrowserDataCloses, BrowserCloses, Isolate, DataClosing
        <3> QED BY <3>1, <3>2 DEF Moves
    <2>3. CASE BrowserOpensData(c)
        <3>1. gen' = gen /\ ~Attached(c)
            BY <2>3 DEF BrowserOpensData, Attached, DataClosing, NoData
        <3> QED BY <3>1 DEF Moves
    <2>4. CASE BrowserAttaches(c)
        <3>1. gen' = gen /\ ~Attached(c)
            BY <2>4 DEF BrowserAttaches, Attached, NoData
        <3> QED BY <3>1 DEF Moves
    <2>5. CASE BrowserAcknowledges(c)
        <3>1. dat[c] \in Data /\ dat[c].sent # NoSeq /\ dat[c].state \in {"catching", "synced"}
            <4>1. dat[c].state # "none" /\ dat[c].state # "awaiting"
                BY <2>5 DEF BrowserAcknowledges, DataOf
            <4> QED BY <2>5, <4>1, SocketIsData DEF BrowserAcknowledges, Data
        <3>2. PICK seq \in dat[c].acked + 1 .. dat[c].sent : dat' = [dat EXCEPT ![c].acked = seq]
            BY <2>5 DEF BrowserAcknowledges
        <3>3. dat[c].acked \in Int /\ dat[c].sent \in Int
            BY <3>1, Bounds DEF Data, MaybeSeqs, Seqs, NoSeq
        <3>4. ~Fresh(dat[c])
            BY <3>2, <3>3 DEF Fresh, Unadvanced
        <3>5. gen' = gen /\ ctl' = ctl
            BY <2>5 DEF BrowserAcknowledges
        <3>6. dat'[c].state = dat[c].state
            BY <1>3, <3>1, <3>2 DEF Data
        <3> QED BY <3>1, <3>4, <3>5, <3>6 DEF Moves
    <2> QED BY <1>1, <1>5, <2>1, <2>2, <2>3, <2>4, <2>5
<1> QED BY <1>4, <1>5

LEMMA AllMove ==
    ASSUME Types, DataInv, ~DataBatch, [Next]_vars, NEW c \in Clients
    PROVE  (Moves(c) \/ Pins(c)) /\ gen'[c] \in Int
<1>1. gen'[c] \in Int
    <2>1. Types'
        BY NextTypes
    <2>2. gen' \in [Clients -> 0 .. MaxGen]
        BY <2>1 DEF Types, RelayTypes, RelayTypeOK
    <2>3. gen'[c] \in 0 .. MaxGen
        BY <2>2
    <2> QED BY <2>3, Bounds
<1>2. RelayTypes /\ DataOf(c)
    BY DEF Types, DataInv
<1>3. CASE HostConnects
    BY <1>1, <1>2, <1>3, HostDownMoves DEF HostConnects, HostPaired
<1>4. CASE UNCHANGED relayVars \/ SnapshotPublished
    <2>1. UNCHANGED <<gen, ctl, dat, resets>>
        BY <1>4 DEF relayVars, SnapshotPublished, Publishes
    <2> QED BY <1>1, <2>1, StillMoves
<1>5. CASE HostSocketClosed
    BY <1>1, <1>2, <1>5, FailMoves DEF HostSocketClosed
<1>6. CASE Relays
    <2>1. ~SendDataAck
        BY DEF SendDataAck
    <2>2. CASE HostReady
        <3>1. CASE FailCurrentHost("host state does not match session")
            BY <1>1, <1>2, <3>1, FailMoves
        <3>2. CASE UNCHANGED <<gen, ctl, dat>> /\ resets \subseteq resets'
            BY <1>1, <3>2, StillMoves
        <3> QED BY <2>2, <3>1, <3>2 DEF HostReady
    <2> QED BY <1>1, <1>2, <1>6, <2>1, <2>2, CanonicalMoves, BarrierMoves, DirectedMoves, ResetMoves DEF Relays
<1>7. CASE Browsers
    BY <1>1, <1>2, <1>7, BrowserMoves
<1>8. CASE UNCHANGED vars
    BY <1>4, <1>8 DEF vars
<1> QED BY <1>1, <1>3, <1>4, <1>5, <1>6, <1>7, <1>8 DEF Next

LEMMA PinsKeep ==
    ASSUME RelayTypes, NEW c \in Clients, Pins(c)
    PROVE  LET id == Head(toRelay).id
           IN  /\ id \in Identity /\ dat[c] \in Data /\ toRelay # <<>>
               /\ dat'[c] = PinnedData(dat[c], id) /\ dat'[c].state = "catching"
               /\ \A b \in Clients : b # c => dat'[b] = dat[b]
<1> DEFINE id == Head(toRelay).id
<1>1. Head(toRelay) \in RelayFrame /\ Head(toRelay).kind = "barrier" /\ toRelay # <<>>
    BY ProcessesHead DEF Pins, Processes
<1>2. id \in Identity
    BY <1>1 DEF RelayFrame
<1>3. dat[c] \in Data /\ dat[c].state = "catching"
    BY SocketIsData DEF Pins
<1>4. /\ dat'[c] = PinnedData(dat[c], id)
      /\ \A b \in Clients : b # c => dat'[b] = dat[b]
    BY DEF Pins, RelayTypes, RelayTypeOK
<1>5. dat'[c].state = "catching"
    BY <1>3, <1>4 DEF PinnedData, Data
<1> QED BY <1>1, <1>2, <1>3, <1>4, <1>5

\* Whatever a step does, a request stays old, and one of another delivery stays as it is.
LEMMA OldKept ==
    ASSUME RelayTypes, NEW c \in Clients, Moves(c) \/ Pins(c), gen'[c] \in Int, NEW g \in Int,
           Old(<<c, g>>)
    PROVE  Old(<<c, g>>)'
<1>1. CASE Pins(c)
    BY <1>1, PinsKeep DEF Pins, Old, Attached
<1> QED BY <1>1, OldStays, Zenon

LEMMA WaitingKept ==
    ASSUME RelayTypes, NEW r \in Request, gen'[r.c] \in Int, Waiting(r),
           Moves(r.c) \/ (Pins(r.c) /\ r.gen # gen[r.c])
    PROVE  Waiting(r)'
<1>1. r.c \in Clients /\ r.gen \in Int /\ Key(r) = <<r.c, r.gen>>
    BY DEF Request, Gens, Key
<1>2. CASE Pins(r.c) /\ r.gen # gen[r.c]
    <2>1. Old(<<r.c, r.gen>>)'
        BY <1>1, <1>2, OldKept DEF Waiting
    <2>2. r.gen # gen'[r.c]
        BY <1>2 DEF Pins
    <2> QED BY <1>1, <2>1, <2>2 DEF Waiting, Untouched, From, Key
<1> QED BY <1>2, WaitingStays

-----------------------------------------------------------------------------
(* What the relay does to the wire *)

LEMMA ConcatAt ==
    ASSUME NEW S, NEW s \in Seq(S), NEW t \in Seq(S)
    PROVE  /\ s \o t \in Seq(S)
           /\ \A i \in DOMAIN s : i \in DOMAIN (s \o t) /\ (s \o t)[i] = s[i]
           /\ \A i \in DOMAIN (s \o t) :
                 i \in DOMAIN s \/ (i - Len(s) \in DOMAIN t /\ (s \o t)[i] = t[i - Len(s)])
<1>1. /\ Len(s) \in Nat /\ DOMAIN s = 1 .. Len(s)
      /\ Len(t) \in Nat /\ DOMAIN t = 1 .. Len(t)
    BY LenProperties
<1>2. /\ s \o t \in Seq(S) /\ Len(s \o t) = Len(s) + Len(t)
      /\ \A i \in 1 .. Len(s) + Len(t) : (s \o t)[i] = IF i <= Len(s) THEN s[i] ELSE t[i - Len(s)]
    BY ConcatProperties
<1>3. DOMAIN (s \o t) = 1 .. Len(s) + Len(t)
    BY <1>2, LenProperties
<1> QED BY <1>1, <1>2, <1>3

\* Control frames are sent last; of one of these kinds.
RelaySends(kinds) ==
    /\ \A i \in DOMAIN toHost : i \in DOMAIN toHost' /\ toHost'[i] = toHost[i]
    /\ \A i \in DOMAIN toHost' : i \in DOMAIN toHost \/ toHost'[i].kind \in kinds

\* The next data frame is taken, or none, or all are dropped with the pair.
RelayTakes ==
    \/ toRelay' = toRelay
    \/ toRelay' = <<>>
    \/ toRelay # <<>> /\ toRelay' = Tail(toRelay)

LEMMA SendsOne ==
    ASSUME RelayTypes, NEW f \in HostFrame, NEW kinds, f.kind \in kinds,
           toHost' = toHost \/ toHost' = Append(toHost, f)
    PROVE  RelaySends(kinds)
<1>1. toHost \in Seq(HostFrame)
    BY DEF RelayTypes, LinkTypeOK
<1>2. CASE toHost' = toHost
    BY <1>2 DEF RelaySends
<1>3. CASE toHost' = Append(toHost, f)
    <2>1. /\ Len(Append(toHost, f)) = Len(toHost) + 1 /\ Append(toHost, f) \in Seq(HostFrame)
          /\ \A i \in 1 .. Len(toHost) : Append(toHost, f)[i] = toHost[i]
          /\ Append(toHost, f)[Len(toHost) + 1] = f
        BY <1>1, AppendProperties
    <2>2. /\ DOMAIN toHost = 1 .. Len(toHost) /\ Len(toHost) \in Nat
          /\ DOMAIN Append(toHost, f) = 1 .. Len(toHost) + 1
        BY <1>1, <2>1, LenProperties
    <2> QED BY <1>3, <2>1, <2>2 DEF RelaySends
<1> QED BY <1>2, <1>3

LEMMA ResetSends ==
    ASSUME RelayTypes, FinishReset PROVE RelaySends({"host-ready-ack", "delivery-reset"})
<1>1. PICK r \in resets :
          LET isReady == EndsHostReady(r)
              acks == IF isReady THEN <<ReadyAck(doHead)>> ELSE <<>>
              current == gen[r.c] = r.gen /\ ctl[r.c] = "active"
          IN  /\ IF current THEN ReplaceDelivery(r) ELSE UNCHANGED <<gen, ctl, dat>>
              /\ toHost' = IF host = "active"
                           THEN toHost \o (IF current THEN ResetNotice(r) ELSE <<>>) \o acks
                           ELSE toHost
    BY DEF FinishReset
<1> DEFINE acks == IF EndsHostReady(r) THEN <<ReadyAck(doHead)>> ELSE <<>>
           current == gen[r.c] = r.gen /\ ctl[r.c] = "active"
           notice == IF current THEN ResetNotice(r) ELSE <<>>
<1>2. r \in Reset /\ r.c \in Clients /\ r.gen \in Gens /\ doHead \in Seqs
    BY <1>1 DEF RelayTypes, RelayTypeOK, Reset
<1>3. toHost \in Seq(HostFrame)
    BY DEF RelayTypes, LinkTypeOK
<1>4. acks \in Seq(HostFrame) /\ \A i \in DOMAIN acks : acks[i].kind = "host-ready-ack"
    <2>1. ReadyAck(doHead) \in HostFrame /\ ReadyAck(doHead).kind = "host-ready-ack"
        BY <1>2 DEF ReadyAck, HostFrame
    <2> QED BY <2>1
<1>5. notice \in Seq(HostFrame) /\ \A i \in DOMAIN notice : notice[i].kind = "delivery-reset"
    <2>1. CASE current /\ r.why = "slow-client" /\ ctl'[r.c] = "active"
        <3>1. r.gen < MaxGen
            BY <1>1, <1>2, <2>1 DEF ReplaceDelivery, Isolate, RelayTypes, RelayTypeOK
        <3>2. r.gen + 1 \in Gens
            BY <1>2, <3>1, Bounds DEF Gens
        <3> DEFINE f == [kind |-> "delivery-reset", c |-> r.c, gen |-> r.gen + 1]
        <3>3. f \in HostFrame /\ f.kind = "delivery-reset"
            BY <1>2, <3>2 DEF HostFrame
        <3>4. notice = <<f>>
            BY <2>1 DEF ResetNotice
        <3> HIDE DEF f, notice
        <3> QED BY <3>3, <3>4
    <2>2. CASE ~(current /\ r.why = "slow-client" /\ ctl'[r.c] = "active")
        <3>1. notice = <<>>
            BY <2>2 DEF ResetNotice
        <3> HIDE DEF notice
        <3> QED BY <3>1, EmptySeq
    <2> QED BY <2>1, <2>2
<1>6. toHost' = toHost \/ toHost' = (toHost \o notice) \o acks
    BY <1>1
<1> HIDE DEF notice, acks
<1>7. toHost \o notice \in Seq(HostFrame)
    BY <1>3, <1>5, ConcatProperties
<1>8. CASE toHost' = (toHost \o notice) \o acks
    <2>1. \A i \in DOMAIN toHost : i \in DOMAIN toHost' /\ toHost'[i] = toHost[i]
        BY <1>3, <1>4, <1>5, <1>7, <1>8, ConcatAt
    <2>2. \A i \in DOMAIN (toHost \o notice) :
              /\ toHost'[i] = (toHost \o notice)[i]
              /\ i \in DOMAIN toHost \/ toHost'[i].kind = "delivery-reset"
        BY <1>3, <1>4, <1>5, <1>7, <1>8, ConcatAt
    <2>3. \A i \in DOMAIN toHost' : i \in DOMAIN (toHost \o notice) \/ toHost'[i].kind = "host-ready-ack"
        BY <1>4, <1>7, <1>8, ConcatAt
    <2> QED BY <2>1, <2>2, <2>3 DEF RelaySends
<1>9. CASE toHost' = toHost
    BY <1>9 DEF RelaySends
<1> QED BY <1>6, <1>8, <1>9

LEMMA BarrierSends ==
    ASSUME RelayTypes, HandleBarrier
    PROVE  \/ BarrierFails
           \/ /\ toRelay # <<>> /\ toRelay' = Tail(toRelay) /\ Head(toRelay).kind = "barrier"
              /\ \E status : /\ toHost' = Append(toHost, [kind |-> "result", id |-> Head(toRelay).id,
                                                         status |-> status])
                             /\ [kind |-> "result", id |-> Head(toRelay).id, status |-> status]
                                    \in HostFrame
<1> DEFINE id == Head(toRelay).id
<1>1. CASE ~BarrierFails
    <2>1. toRelay # <<>> /\ toRelay' = Tail(toRelay) /\ Head(toRelay).kind = "barrier" /\ host = "active"
        BY <1>1 DEF HandleBarrier, BarrierFails, Processes
    <2>2. \E status \in {"ready", "stale", "missing-live-seed", "snapshot-missing",
                         "browser-control-send-failed"} : BarrierResult(id, status)
        BY <1>1 DEF HandleBarrier, BarrierFails, PinDelivery, Answers
    <2>3. id \in Identity
        BY BarrierIsFrame
    <2>4. \A status \in {"ready", "stale", "missing-live-seed", "snapshot-missing",
                         "browser-control-send-failed"} :
              [kind |-> "result", id |-> id, status |-> status] \in HostFrame
        BY <2>3 DEF HostFrame
    <2> QED BY <2>1, <2>2, <2>4 DEF BarrierResult, ToHost
<1> QED BY <1>1

LEMMA RelayWire ==
    ASSUME ~DataBatch, RelayTypes, HostSocketClosed \/ Relays \/ Browsers
    PROVE  /\ RelayTakes
           /\ \/ RelaySends({"host-ready-ack", "delivery-reset"})
              \/ HandleBarrier /\ RelaySends({"result"})
              \/ (\E c \in Clients : BrowserAttaches(c)) /\ RelaySends({"attach-request"})
<1>1. toHost' = toHost => RelaySends({"host-ready-ack", "delivery-reset"})
    BY DEF RelaySends
<1>2. ASSUME NEW reason, FailCurrentHost(reason)
      PROVE  RelayTakes /\ RelaySends({"host-ready-ack", "delivery-reset"})
    BY <1>1, <1>2 DEF FailCurrentHost, RelayTakes
<1>3. CASE HostSocketClosed
    BY <1>2, <1>3 DEF HostSocketClosed
<1>4. CASE HostReady
    <2>1. CASE FailCurrentHost("host state does not match session")
        BY <1>2, <2>1
    <2> DEFINE f == ReadyAck(Head(toRelay).seq)
    <2>2. CASE /\ toRelay # <<>> /\ toRelay' = Tail(toRelay)
               /\ toHost' = toHost \/ toHost' = Append(toHost, f)
        <3>1. Head(toRelay) \in RelayFrame /\ Head(toRelay).kind = "host-ready"
            BY <1>4, <2>2, ProcessesHead DEF HostReady, Processes
        <3>2. Head(toRelay).seq \in Seqs
            BY <3>1 DEF RelayFrame
        <3>3. f \in HostFrame /\ f.kind = "host-ready-ack"
            BY <3>2 DEF ReadyAck, HostFrame
        <3> HIDE DEF f
        <3>4. RelaySends({"host-ready-ack", "delivery-reset"})
            BY <2>2, <3>3, SendsOne
        <3> QED BY <2>2, <3>4 DEF RelayTakes
    <2> QED BY <1>4, <2>1, <2>2 DEF HostReady, Processes
<1>5. CASE CanonicalEvent
    BY <1>1, <1>2, <1>5 DEF CanonicalEvent, Processes, RelayTakes
<1>6. CASE HandleBarrier
    <2>1. CASE BarrierFails
        BY <1>2, <2>1 DEF BarrierFails
    <2>2. CASE ~BarrierFails
        <3>1. PICK status :
                  /\ toHost' = Append(toHost, [kind |-> "result", id |-> Head(toRelay).id,
                                               status |-> status])
                  /\ [kind |-> "result", id |-> Head(toRelay).id, status |-> status] \in HostFrame
            BY <1>6, <2>2, BarrierSends
        <3>2. RelaySends({"result"})
            BY <3>1, SendsOne
        <3> QED BY <1>6, <2>2, <3>2, BarrierSends DEF RelayTakes
    <2> QED BY <2>1, <2>2
<1>7. CASE DirectedFrame
    BY <1>1, <1>2, <1>7 DEF DirectedFrame, Processes, RelayTakes
<1>8. CASE FinishReset
    BY <1>8, ResetSends DEF FinishReset, RelayTakes
<1>9. CASE Browsers
    <2>1. PICK c \in Clients :
            \/ BrowserConnects(c) \/ BrowserOpensData(c) \/ BrowserAttaches(c)
            \/ BrowserAcknowledges(c) \/ BrowserDataCloses(c) \/ BrowserCloses(c)
        BY <1>9 DEF Browsers
    <2>2. CASE ~BrowserAttaches(c)
        BY <1>1, <2>1, <2>2 DEF BrowserConnects, BrowserOpensData, BrowserAcknowledges,
            BrowserDataCloses, BrowserCloses, linkVars, RelayTakes
    <2>3. CASE BrowserAttaches(c)
        <3>1. PICK base \in {NoSeq} \cup 0 .. doHead :
                  ToHost([kind |-> "attach-request", req |-> [c |-> c, gen |-> gen[c], base |-> base]])
            BY <2>3 DEF BrowserAttaches
        <3> DEFINE f == [kind |-> "attach-request", req |-> [c |-> c, gen |-> gen[c], base |-> base]]
        <3>2. f \in HostFrame /\ f.kind = "attach-request"
            <4>1. gen[c] \in Gens /\ doHead \in Seqs
                BY <2>3 DEF BrowserAttaches, RelayTypes, RelayTypeOK, ClientHasGen
            <4>2. base \in MaybeSeqs
                BY <3>1, <4>1, Bounds DEF MaybeSeqs, Seqs
            <4> QED BY <4>1, <4>2 DEF HostFrame, Request
        <3>3. toHost' = toHost \/ toHost' = Append(toHost, f)
            BY <3>1 DEF ToHost
        <3> HIDE DEF f
        <3>4. RelaySends({"attach-request"})
            BY <3>2, <3>3, SendsOne
        <3> QED BY <2>3, <3>4 DEF BrowserAttaches, RelayTakes
    <2> QED BY <2>2, <2>3
<1> QED BY <1>3, <1>4, <1>5, <1>6, <1>7, <1>8, <1>9 DEF Relays, SendDataAck

-----------------------------------------------------------------------------
(* The steps of the host *)

Busy == active.phase \in {"uncertain", "pinned"}
SameRecovery ==
    /\ active'.c = active.c /\ active'.gen = active.gen /\ active'.base = active.base
    /\ active'.mode = active.mode /\ active'.phase = active.phase /\ active'.cut = active.cut
    /\ active'.commit = active.commit /\ active'.next = active.next

\* Nothing is sent, and no barrier is answered.
HostQuiet ==
    /\ UNCHANGED <<link, sent, toRelay>>
    /\ toHost' = toHost \/ (toHost # <<>> /\ toHost' = Tail(toHost) /\ Head(toHost).kind # "result")
    /\ SameRecovery \/ (~Busy /\ ~Busy')
HostActivated ==
    /\ link = "preparing" /\ link' = "ready" /\ toHost # <<>> /\ toHost' = Tail(toHost)
    /\ UNCHANGED <<sent, toRelay, active>>
HostSends(f) == link = "ready" /\ toRelay' = toRelay \o <<f>> /\ UNCHANGED <<link, toHost>>
HostSendsEvent ==
    /\ HostSends([kind |-> "event", seq |-> sent + 1])
    /\ ~Busy /\ sent' = sent + 1 /\ UNCHANGED active
HostSendsBarrier ==
    /\ HostSends([kind |-> "barrier", id |-> ActiveIdentity])
    /\ active.phase = "flushing" /\ sent = active.commit
    /\ sent' = sent /\ active' = [active EXCEPT !.phase = "uncertain"]
HostSendsReplay ==
    /\ HostSends(Directed("directed", active.next + 1))
    /\ active.phase = "pinned" /\ active.next < active.commit
    /\ sent' = sent /\ active' = [active EXCEPT !.next = active.next + 1]
HostSendsCommit ==
    /\ HostSends(Directed("commit", active.commit))
    /\ active.phase = "pinned" /\ active.next = active.commit
    /\ sent' = sent /\ active' = NoActive

LEMMA SameOrIdle ==
    ASSUME HostTypes, PhaseInv,
           \/ UNCHANGED active
           \/ AbortActive
           \/ AbortForPressure /\ active.phase \in PreMarker
    PROVE  SameRecovery \/ (~Busy /\ ~Busy')
<1>1. CASE active' = active
    BY <1>1 DEF SameRecovery
<1>2. CASE active.phase # "none" /\ active' = [active EXCEPT !.aborted = TRUE]
    <2>1. active \in Active
        BY <1>2, ActiveIsRecovery
    <2> QED BY <1>2, <2>1, Updated DEF SameRecovery
<1>3. CASE active.phase = "queued"
    BY <1>3 DEF PhaseInv
<1> QED BY <1>1, <1>2, <1>3 DEF AbortActive, AbortForPressure, PreMarker

LEMMA IdleEnds == ASSUME active' = NoActive \/ active'.phase \in {"pausing", "flushing"} PROVE ~Busy'
BY DEF Busy, NoActive

LEMMA ColdIsIdle == ASSUME NEW r, NEW aborted, RecoverCold(r, aborted) PROVE ~Busy'
<1>1. ASSUME NEW p, DeliverPrepared(r, p, aborted) PROVE ~Busy'
    <2>1. active'.phase = "pausing"
        BY <1>1 DEF DeliverPrepared, NoActive
    <2> QED BY <2>1, IdleEnds
<1> QED BY <1>1, IdleEnds DEF RecoverCold, AwaitPreparation

LEMMA QuietControl ==
    ASSUME HostTypes, PhaseInv, EnqueueAttach \/ HandleDeliveryReset
    PROVE  (\E reason : ClosePair(reason)) \/ HostQuiet
<1> SUFFICES ASSUME ~ \E reason : ClosePair(reason) PROVE HostQuiet
    OBVIOUS
<1>1. /\ UNCHANGED <<link, sent, toRelay>> /\ toHost # <<>> /\ toHost' = Tail(toHost)
      /\ Head(toHost).kind # "result"
      /\ AbortActive \/ UNCHANGED active
    BY DEF EnqueueAttach, HandleDeliveryReset, Receives
<1> QED BY <1>1, SameOrIdle DEF HostQuiet

LEMMA QuietRecovery ==
    ASSUME HostTypes, PhaseInv, StartRecovery \/ PlanWarm \/ PlanCold PROVE HostQuiet
<1>1. UNCHANGED <<link, sent, toRelay, toHost>>
    BY DEF StartRecovery, PlanWarm, PlanCold
<1>2. ~Busy
    BY ActiveIsRecovery DEF StartRecovery, PlanWarm, PlanCold, Pausing, Busy
<1>3. ~Busy'
    <2>1. ASSUME FlushThroughHead, active.phase = "pausing" PROVE ~Busy'
        <3>1. active \in Active /\ active' = [active EXCEPT !.phase = "flushing", !.commit = head]
            BY <2>1, ActiveIsRecovery DEF FlushThroughHead
        <3>2. active'.phase = "flushing"
            BY <3>1, Updated
        <3> QED BY <3>2, IdleEnds
    <2>2. CASE StartRecovery
        <3>1. PICK r \in pass :
                  \/ active' = [NoActive EXCEPT !.c = r.c, !.gen = r.gen, !.base = r.base,
                                   !.mode = "warm", !.phase = "pausing"]
                  \/ RecoverCold(r, FALSE)
            BY <2>2 DEF StartRecovery
        <3>2. CASE active' = [NoActive EXCEPT !.c = r.c, !.gen = r.gen, !.base = r.base,
                                 !.mode = "warm", !.phase = "pausing"]
            <4>1. active'.phase = "pausing"
                BY <3>2 DEF NoActive
            <4> QED BY <4>1, IdleEnds
        <3> QED BY <3>1, <3>2, ColdIsIdle
    <2>3. CASE PlanWarm \/ PlanCold
        BY <2>1, <2>3, ColdIsIdle, IdleEnds DEF PlanWarm, PlanCold, Pausing, Retry
    <2> QED BY <2>2, <2>3
<1> QED BY <1>1, <1>2, <1>3 DEF HostQuiet

LEMMA QuietOthers ==
    ASSUME ~DataBatch, HostTypes, PhaseInv, StreamInv,
           \/ TerminalOutput \/ EvictJournal \/ ExpireCheckpoint \/ FlushDataBatch \/ ReceiveDataAck
           \/ SocketCloses \/ RefuseEarlyTraffic \/ TakePass \/ BarrierTimeout
           \/ BuildFails \/ BuildSucceeds
    PROVE  (\E reason : ClosePair(reason)) \/ HostQuiet
<1>1. ~FlushDataBatch /\ (ReceiveDataAck => UNCHANGED <<active, toRelay>>)
    BY EmptySeq DEF FlushDataBatch, ReceiveDataAck, StreamInv
<1>2. CASE TerminalOutput
    <2>1. CASE \E reason : ClosePair(reason)
        BY <2>1
    <2>2. CASE /\ UNCHANGED <<link, sent, toRelay, toHost>>
               /\ UNCHANGED active \/ (AbortForPressure /\ active.phase \in PreMarker)
        BY <2>2, SameOrIdle DEF HostQuiet
    <2> QED BY <1>2, <2>1, <2>2 DEF TerminalOutput
<1>3. CASE SocketCloses \/ RefuseEarlyTraffic \/ BarrierTimeout
    BY <1>3 DEF SocketCloses, RefuseEarlyTraffic, BarrierTimeout
<1>4. CASE EvictJournal \/ ExpireCheckpoint \/ ReceiveDataAck \/ TakePass \/ BuildFails \/ BuildSucceeds
    <2>1. CASE UNCHANGED <<link, sent, toRelay, toHost, active>>
        BY <2>1, SameOrIdle DEF HostQuiet
    <2> QED BY <1>1, <1>4, <2>1 DEF EvictJournal, ExpireCheckpoint, ReceiveDataAck, TakePass, BuildFails,
        BuildSucceeds
<1> QED BY <1>1, <1>2, <1>3, <1>4

LEMMA HostKinds ==
    ASSUME ~DataBatch, HostTypes, PhaseInv, StreamInv, HostNext \/ BuildSucceeds
    PROVE  \/ \E reason : ClosePair(reason)
           \/ HostQuiet \/ HostActivated \/ HandleBarrierResult
           \/ HostSendsEvent \/ HostSendsBarrier \/ HostSendsReplay \/ HostSendsCommit
<1>1. CASE Pump \/ FlushFrame
    <2>1. ~Busy
        BY <1>1 DEF Pump, FlushFrame, Busy, PhaseInv
    <2> QED BY <1>1, <2>1 DEF Pump, FlushFrame, Emit, HostSends, HostSendsEvent
<1>2. CASE HandleReadyAck
    BY <1>2 DEF HandleReadyAck, Receives, HostActivated
<1>3. CASE SendBarrier
    <2>1. CASE active' = NoActive /\ active.phase = "flushing" /\ UNCHANGED <<link, sent, toRelay, toHost>>
        BY <2>1, IdleEnds DEF HostQuiet, Busy
    <2>2. CASE \E reason : ClosePair(reason)
        BY <2>2
    <2> QED BY <1>3, <2>1, <2>2 DEF SendBarrier, Emit, HostSends, HostSendsBarrier
<1>4. CASE SendDirected \/ SendReplayCommit
    BY <1>4 DEF SendDirected, SendReplayCommit, Emit, Complete, HostSends, HostSendsReplay, HostSendsCommit
<1> QED BY <1>1, <1>2, <1>3, <1>4, QuietControl, QuietRecovery, QuietOthers DEF HostNext

-----------------------------------------------------------------------------
(* RequestsInv *)

FrameOK(f) ==
    /\ f.kind = "barrier" => Untouched(Key(f.id)) /\ Old(Key(f.id))
    /\ f.kind \in {"directed", "commit"} => Old(Key(f))

LEMMA FramesOfRequests ==
    RequestsInv <=>
        /\ link # "down" => \A r \in Request : Wanted(r) => Waiting(r)
        /\ link # "down" /\ Recovering => Old(Key(active))
        /\ \A i \in DOMAIN toRelay : FrameOK(toRelay[i])
BY DEF RequestsInv, FrameOK, BarrierAt, ReplayAt

\* No delivery is pinned by this step.
NoPin == \A c \in Clients : Moves(c) /\ gen'[c] \in Int

LEMMA FrameStays ==
    ASSUME RelayTypes, NoPin, NEW f \in RelayFrame, FrameOK(f) PROVE FrameOK(f)'
<1>1. CASE f.kind = "barrier"
    <2>1. f.id.c \in Clients /\ f.id.gen \in Int
        BY <1>1 DEF RelayFrame, Identity, Gens
    <2>2. \A k : k = <<f.id.c, f.id.gen>> => Untouched(k) /\ Old(k)
        BY <1>1 DEF FrameOK, Key
    <2>3. \A k : k = <<f.id.c, f.id.gen>> => Untouched(k)' /\ Old(k)'
        BY <2>1, <2>2, UntouchedStays, OldStays DEF NoPin
    <2> QED BY <1>1, <2>3 DEF FrameOK, Key
<1>2. CASE f.kind \in {"directed", "commit"}
    <2>1. f.c \in Clients /\ f.gen \in Int
        BY <1>2 DEF RelayFrame, Gens
    <2>2. \A k : k = <<f.c, f.gen>> => Old(k)
        BY <1>2 DEF FrameOK, Key
    <2>3. \A k : k = <<f.c, f.gen>> => Old(k)'
        BY <2>1, <2>2, OldStays, Zenon DEF NoPin
    <2> QED BY <1>2, <2>3 DEF FrameOK, Key
<1> QED BY <1>1, <1>2 DEF FrameOK

LEMMA FramesStay ==
    ASSUME Types, Types', NoPin, \A i \in DOMAIN toRelay' : FrameOK(toRelay'[i])
    PROVE  (\A i \in DOMAIN toRelay : FrameOK(toRelay[i]))'
<1>1. \A i \in DOMAIN toRelay' : toRelay'[i] \in RelayFrame
    BY DEF Types, RelayTypes, LinkTypeOK
<1>2. \A f \in RelayFrame : FrameOK(f) => FrameOK(f)'
    BY FrameStays DEF Types
<1>3. ASSUME NEW i \in DOMAIN toRelay', NEW f, f = toRelay'[i] PROVE FrameOK(f)'
    BY <1>1, <1>2, <1>3
<1> QED BY <1>3 DEF FrameOK, Key, Old, Untouched, Fresh, Attached, DataClosing, Unadvanced

\* Every step: what is wanted has been waiting, and is not what is being pinned.
LEMMA RequestsStay ==
    ASSUME Types, Types', RequestsInv, link # "down",
           \A c \in Clients : (Moves(c) \/ Pins(c)) /\ gen'[c] \in Int,
           \A r \in Request : Wanted(r)' => Waiting(r)' \/ Wanted(r),
           \A r \in Request : Wanted(r)' /\ Pins(r.c) => Moves(r.c) \/ r.gen # gen[r.c],
           Recovering' => (Recovering /\ Key(active') = Key(active)) \/ Wanted(ActiveRequest')
    PROVE  /\ (\A r \in Request : Wanted(r) => Waiting(r))'
           /\ (Recovering => Old(Key(active)))'
<1>1. \A r \in Request : Wanted(r) => Waiting(r)
    BY DEF RequestsInv
<1>2. \A r \in Request : r.c \in Clients
    BY DEF Request
<1>3. ASSUME NEW r \in Request, Wanted(r)' PROVE Waiting(r)'
    BY <1>1, <1>2, <1>3, WaitingKept DEF Types
<1>4. \A c \in Clients, g \in Int : Old(<<c, g>>) => Old(<<c, g>>)'
    BY OldKept DEF Types
<1>5. ASSUME Recovering' PROVE \E c \in Clients, g \in Int : Key(active') = <<c, g>> /\ Old(<<c, g>>)'
    <2>1. /\ active'.c \in Clients /\ active'.gen \in Gens
          /\ ActiveRequest' \in Request /\ Key(ActiveRequest') = Key(active')
        <3>1. HostTypes'
            BY DEF Types
        <3>2. active' \in Active
            BY <1>5, <3>1 DEF HostTypes, HostTypeOK, Recovering
        <3> QED BY <3>2 DEF Active, ActiveRequest, Request, Key
    <2>2. CASE Recovering /\ Key(active') = Key(active)
        <3>1. Old(Key(active))
            BY <2>2 DEF RequestsInv
        <3> QED BY <1>4, <2>1, <2>2, <3>1 DEF Key, Gens
    <2>3. CASE Wanted(ActiveRequest')
        <3>1. Waiting(ActiveRequest')
            BY <1>1, <2>1, <2>3
        <3>2. Old(Key(active'))
            BY <2>1, <3>1 DEF Waiting
        <3> QED BY <1>4, <2>1, <3>2 DEF Key, Gens
    <2> QED BY <1>5, <2>2, <2>3
<1>6. Recovering' => (Old(Key(active)))'
    BY <1>5 DEF Old, Key, Attached, DataClosing
<1> QED BY <1>3, <1>6

LEMMA FramesSent ==
    ASSUME Types, \A i \in DOMAIN toRelay : FrameOK(toRelay[i]), NEW f \in RelayFrame, FrameOK(f),
           toRelay' = toRelay \o <<f>>
    PROVE  \A i \in DOMAIN toRelay' : FrameOK(toRelay'[i])
<1>1. toRelay \in Seq(RelayFrame)
    BY DEF Types, RelayTypes, LinkTypeOK
<1>2. \A i \in DOMAIN toRelay' : i \in DOMAIN toRelay \/ i = Len(toRelay) + 1
    BY <1>1, LastAt
<1> QED BY <1>1, <1>2, LastAt

LEMMA HostFrames ==
    ASSUME ~DataBatch, Types, PhaseInv, WireInv, RequestsInv,
           HostSendsEvent \/ HostSendsBarrier \/ HostSendsReplay \/ HostSendsCommit,
           toRelay' \in Seq(RelayFrame)
    PROVE  \A i \in DOMAIN toRelay' : FrameOK(toRelay'[i])
<1>1. \A i \in DOMAIN toRelay : FrameOK(toRelay[i])
    BY FramesOfRequests
<1>2. ASSUME NEW f, toRelay' = toRelay \o <<f>> PROVE f \in RelayFrame
    <2>1. toRelay \in Seq(RelayFrame)
        BY DEF Types, RelayTypes, LinkTypeOK
    <2>2. toRelay' = Append(toRelay, f)
        BY <1>2, <2>1
    <2> QED BY <2>1, <2>2
<1>3. CASE HostSendsEvent
    <2> DEFINE f == [kind |-> "event", seq |-> sent + 1]
    <2>1. FrameOK(f) /\ toRelay' = toRelay \o <<f>>
        BY <1>3 DEF FrameOK, HostSendsEvent, HostSends
    <2> HIDE DEF f
    <2> QED BY <1>1, <1>2, <2>1, FramesSent
<1>4. CASE HostSendsBarrier
    <2> DEFINE f == [kind |-> "barrier", id |-> ActiveIdentity]
    <2>1. toRelay' = toRelay \o <<f>> /\ link = "ready" /\ active.phase = "flushing"
        BY <1>4 DEF HostSendsBarrier, HostSends
    <2>2. HostTypes /\ Recovering /\ ~Served
        BY <2>1, ActiveIsRecovery, NotServed DEF Types
    <2>3. ActiveRequest \in Request /\ Wanted(ActiveRequest) /\ Key(ActiveRequest) = Key(ActiveIdentity)
        BY <2>2, ActiveIsRecovery, QueuedIsWanted DEF Key, ActiveRequest, ActiveIdentity
    <2>4. Untouched(Key(ActiveIdentity)) /\ Old(Key(ActiveIdentity))
        BY <2>1, <2>3 DEF RequestsInv, Waiting
    <2>5. FrameOK(f)
        BY <2>4 DEF FrameOK
    <2> HIDE DEF f
    <2> QED BY <1>1, <1>2, <2>1, <2>5, FramesSent
<1>5. ASSUME NEW kind \in {"directed", "commit"}, NEW n, HostSends(Directed(kind, n)), active.phase = "pinned"
      PROVE  \A i \in DOMAIN toRelay' : FrameOK(toRelay'[i])
    <2> DEFINE f == Directed(kind, n)
    <2>1. toRelay' = toRelay \o <<f>> /\ link = "ready"
        BY <1>5 DEF HostSends
    <2>2. Recovering
        BY <1>5, ActiveIsRecovery DEF Types
    <2>3. Old(Key(active)) /\ Key(f) = Key(active) /\ f.kind \in {"directed", "commit"}
        BY <2>1, <2>2 DEF RequestsInv, Directed, Key
    <2>4. FrameOK(f)
        BY <2>3 DEF FrameOK
    <2> HIDE DEF f
    <2> QED BY <1>1, <1>2, <2>1, <2>4, FramesSent
<1>6. CASE HostSendsReplay
    <2> DEFINE n == active.next + 1
    <2>1. HostSends(Directed("directed", n)) /\ active.phase = "pinned"
        BY <1>6 DEF HostSendsReplay
    <2> HIDE DEF n
    <2> QED BY <1>5, <2>1
<1>7. CASE HostSendsCommit
    BY <1>5, <1>7 DEF HostSendsCommit
<1> QED BY <1>3, <1>4, <1>6, <1>7

LEMMA HostRequests ==
    ASSUME ~DataBatch, Types, Types', StreamInv, PhaseInv, QueueInv, AttachInv, WireInv, RequestsInv,
           HostNext \/ BuildSucceeds, UNCHANGED <<gen, ctl, dat, resets>>
    PROVE  RequestsInv'
<1>1. HostTypes /\ RelayTypes
    BY DEF Types
<1>2. NoPin
    <2>1. \A c \in Clients : gen'[c] \in Int
        BY <1>1, GenIsInt
    <2> QED BY <2>1, StillMoves DEF NoPin
<1>3. \A i \in DOMAIN toRelay' : FrameOK(toRelay'[i])
    <2>1. CASE toRelay' = toRelay
        BY <2>1, FramesOfRequests
    <2>2. CASE HostSendsEvent \/ HostSendsBarrier \/ HostSendsReplay \/ HostSendsCommit
        BY <2>2, HostFrames DEF Types, RelayTypes, LinkTypeOK
    <2> QED BY <1>1, <2>1, <2>2, HostKinds DEF ClosePair, HostQuiet, HostActivated, HandleBarrierResult
<1>4. (\A i \in DOMAIN toRelay : FrameOK(toRelay[i]))'
    BY <1>2, <1>3, FramesStay
<1>5. /\ (link # "down" => \A r \in Request : Wanted(r) => Waiting(r))'
      /\ (link # "down" /\ Recovering => Old(Key(active)))'
    <2>1. CASE link' = "down"
        BY <2>1
    <2>2. CASE link' # "down"
        <3>1. link # "down" /\ WantsNoMore
            BY <1>1, <2>2, HostWants, HostTakes DEF ClosePair
        <3>2. /\ (\A r \in Request : Wanted(r) => Waiting(r))'
              /\ (Recovering => Old(Key(active)))'
            <4>1. \A c \in Clients : Moves(c) /\ gen'[c] \in Int
                BY <1>2 DEF NoPin
            <4>2. \A r : Wanted(r)' => Wanted(r)
                BY <3>1 DEF WantsNoMore
            <4>3. Recovering' => (Recovering /\ Key(active') = Key(active)) \/ Wanted(ActiveRequest')
                BY <3>1 DEF WantsNoMore
            <4>4. \A r \in Request : r.c \in Clients
                BY DEF Request
            <4> QED BY <3>1, <4>1, <4>2, <4>3, <4>4, RequestsStay
        <3> QED BY <3>2
    <2> QED BY <2>1, <2>2
<1>6. (/\ link # "down" => \A r \in Request : Wanted(r) => Waiting(r)
       /\ link # "down" /\ Recovering => Old(Key(active))
       /\ \A i \in DOMAIN toRelay : FrameOK(toRelay[i]))'
    BY <1>4, <1>5
<1> QED BY <1>6, FramesOfRequests, PTL

LEMMA FramesTaken ==
    ASSUME RelayTypes, RelayTakes
    PROVE  \A i \in DOMAIN toRelay' : \E j \in DOMAIN toRelay : toRelay'[i] = toRelay[j]
<1>1. toRelay \in Seq(RelayFrame)
    BY DEF RelayTypes, LinkTypeOK
<1>2. CASE toRelay' = toRelay
    BY <1>2
<1>3. CASE toRelay' = <<>>
    BY <1>3
<1>4. CASE toRelay # <<>> /\ toRelay' = Tail(toRelay)
    BY <1>1, <1>4, TailAt
<1> QED BY <1>2, <1>3, <1>4 DEF RelayTakes

\* An answer on its way stays there.
LEMMA SentKept ==
    ASSUME NEW kinds, RelaySends(kinds), UNCHANGED active
    PROVE  Served => Served'
BY DEF RelaySends, Served, ResultAt

\* A barrier that the relay handles is the only frame, and the host waits for its answer.
LEMMA BarrierAlone ==
    ASSUME HostTypes, RelayTypes, WireInv, toRelay # <<>>, Head(toRelay).kind = "barrier"
    PROVE  /\ Tail(toRelay) = <<>> /\ Len(toRelay) = 1 /\ BarrierAt(1) /\ toRelay[1] = Head(toRelay)
           /\ Head(toRelay).id.commit = sent
           /\ link # "down" =>
                 /\ link = "ready" /\ active.phase = "uncertain" /\ Recovering
                 /\ Head(toRelay).id = ActiveIdentity
                 /\ \A i \in DOMAIN toHost : ~ResultAt(i)
<1>1. toRelay \in Seq(RelayFrame)
    BY DEF RelayTypes, LinkTypeOK
<1>2. /\ 1 \in DOMAIN toRelay /\ toRelay[1] = Head(toRelay) /\ BarrierAt(1)
      /\ Tail(toRelay) \in Seq(RelayFrame) /\ Len(Tail(toRelay)) = Len(toRelay) - 1
    BY <1>1, TailAt, ProcessesHead DEF BarrierAt
<1>3. /\ Len(toRelay) = 1 /\ Head(toRelay).id.commit = sent
      /\ link = "ready" => active.phase = "uncertain" /\ Head(toRelay).id = ActiveIdentity
    BY <1>2 DEF WireInv, BarrierInv
<1>4. Tail(toRelay) = <<>>
    <2>1. Len(Tail(toRelay)) = 0
        BY <1>2, <1>3
    <2> QED BY <1>2, <2>1, EmptySeq
<1>5. link # "preparing"
    BY <1>2 DEF WireInv, BarrierAt
<1>6. link \in {"down", "preparing", "ready"}
    BY DEF HostTypes, HostTypeOK
<1>7. active.phase = "uncertain" => Recovering
    BY ActiveIsRecovery
<1>8. link # "down" => \A i \in DOMAIN toHost : ~ResultAt(i)
    BY DEF WireInv, ResultInv
<1> QED BY <1>2, <1>3, <1>4, <1>5, <1>6, <1>7, <1>8

\* When a barrier is accepted, its request waits nowhere else.
LEMMA PinnedWaitsNowhere ==
    ASSUME HostTypes, RelayTypes, QueueInv, AttachInv, WireInv, NEW c \in Clients, Pins(c),
           RelaySends({"result"}), UNCHANGED hostVars, link # "down",
           NEW r \in Request, Wanted(r)', r.c = c
    PROVE  r.gen # gen[c]
<1> DEFINE id == Head(toRelay).id
<1>1. toRelay # <<>> /\ Head(toRelay).kind = "barrier" /\ c = id.c /\ id.gen = gen[c]
    BY DEF Pins, Processes
<1>2. link = "ready" /\ active.phase = "uncertain" /\ Recovering /\ id = ActiveIdentity
    BY <1>1, BarrierAlone
<1>3. Key(active) = <<c, gen[c]>>
    BY <1>1, <1>2 DEF Key, ActiveIdentity
<1>4. Served'
    <2> DEFINE f == [kind |-> "result", id |-> id, status |-> "ready"]
    <2>1. f \in HostFrame
        <3>1. id \in Identity
            BY PinsKeep
        <3> QED BY <3>1 DEF HostFrame
    <2>2. toHost' = Append(toHost, f) /\ toHost \in Seq(HostFrame)
        BY DEF Pins, RelayTypes, LinkTypeOK
    <2>3. f.kind = "result" /\ f.status = "ready"
        OBVIOUS
    <2> HIDE DEF f
    <2>4. Len(toHost) + 1 \in DOMAIN toHost' /\ toHost'[Len(toHost) + 1] = f
        <3>1. /\ Len(toHost') = Len(toHost) + 1 /\ toHost' \in Seq(HostFrame)
              /\ toHost'[Len(toHost) + 1] = f
            BY <2>1, <2>2, AppendProperties
        <3>2. DOMAIN toHost' = 1 .. Len(toHost) + 1 /\ Len(toHost) \in Nat
            BY <2>2, <3>1, LenProperties
        <3> QED BY <3>1, <3>2
    <2> QED BY <2>3, <2>4 DEF Served, ResultAt
<1>5. UNCHANGED <<pend, pass, build, active>>
    BY DEF hostVars
<1>6. \/ r \in pend \/ r \in pass \/ r \in Building
      \/ \E i \in DOMAIN toHost : AttachAt(i) /\ r = toHost[i].req
    BY <1>4, <1>5 DEF Wanted, Building, BuildRequest, RelaySends, AttachAt
<1>7. r \in pend \/ r \in pass \/ r \in Building => Key(r) # Key(active)
    BY <1>2, BuildIsClients DEF QueueInv, PassApart, BuildApart, Shared
<1>8. (\E i \in DOMAIN toHost : AttachAt(i) /\ r = toHost[i].req) => Key(r) # Key(active)
    BY <1>2 DEF AttachInv, Known
<1> QED BY <1>3, <1>6, <1>7, <1>8 DEF Key

\* A browser's attachment is a new request, which waits.
LEMMA AttachWaits ==
    ASSUME RelayTypes, DataInv, NEW c \in Clients, BrowserAttaches(c),
           NEW i \in DOMAIN toHost', i \notin DOMAIN toHost
    PROVE  /\ toHost'[i].req.c = c /\ toHost'[i].req.gen = gen[c] /\ gen[c] \in Gens
           /\ ~Attached(c) /\ \A q : q = toHost'[i].req => Waiting(q)'
           /\ \A j \in DOMAIN toHost' : j \in DOMAIN toHost \/ j = i
<1>1. PICK base \in {NoSeq} \cup 0 .. doHead :
          /\ dat' = [dat EXCEPT ![c].state = "catching", ![c].first = base,
                                ![c].acked = base, ![c].sent = base]
          /\ ToHost([kind |-> "attach-request", req |-> [c |-> c, gen |-> gen[c], base |-> base]])
    BY DEF BrowserAttaches
<1> DEFINE q == [c |-> c, gen |-> gen[c], base |-> base]
           f == [kind |-> "attach-request", req |-> q]
<1>2. /\ dat[c].state = "awaiting" /\ UNCHANGED <<gen, resets>> /\ gen[c] \in Gens
      /\ dat[c] \in Data /\ ctl' = [ctl EXCEPT ![c] = "active"] /\ ctl[c] # "none"
    BY SocketIsData DEF BrowserAttaches, RelayTypes, ClientHasGen
<1>3. dat[c].pin = NoSeq /\ dat[c].mode = "none"
    BY <1>2 DEF DataInv, DataOf
<1>4. base \in MaybeSeqs
    <2>1. doHead \in Seqs
        BY DEF RelayTypes, RelayTypeOK
    <2> QED BY <1>1, <2>1, Bounds DEF MaybeSeqs, Seqs
<1>5. q \in Request /\ f \in HostFrame /\ q.c = c /\ q.gen = gen[c] /\ q.base = base
    BY <1>2, <1>4 DEF Request, HostFrame
<1>6. toHost' = toHost \/ toHost' = Append(toHost, f)
    BY <1>1 DEF ToHost
<1>7. toHost \in Seq(HostFrame)
    BY DEF RelayTypes, LinkTypeOK
<1>8. f.req = q
    OBVIOUS
<1>9. /\ toHost'[i] = f
      /\ \A j \in DOMAIN toHost' : j \in DOMAIN toHost \/ j = i
    <2> HIDE DEF f, q
    <2>1. toHost' = Append(toHost, f)
        BY <1>6
    <2>2. /\ Len(toHost') = Len(toHost) + 1 /\ toHost' \in Seq(HostFrame)
          /\ toHost'[Len(toHost) + 1] = f
        BY <1>5, <1>7, <2>1, AppendProperties
    <2>3. DOMAIN toHost' = 1 .. Len(toHost) + 1 /\ Len(toHost) \in Nat /\ DOMAIN toHost = 1 .. Len(toHost)
        BY <1>7, <2>2, LenProperties
    <2> QED BY <2>2, <2>3
<1>10. /\ dat'[c].state = "catching" /\ dat'[c].first = base /\ dat'[c].acked = base
       /\ dat'[c].sent = base /\ dat'[c].pin = NoSeq /\ dat'[c].mode = "none"
    BY <1>1, <1>2, <1>3 DEF RelayTypes, RelayTypeOK, Data
<1>11. toHost'[i].req = q
    BY <1>8, <1>9
<1>12. ASSUME NEW r, r = toHost'[i].req PROVE Waiting(r)'
    <2> HIDE DEF q
    <2>1. r.c = c /\ r.gen = gen[c] /\ r.base = base
        BY <1>5, <1>11, <1>12
    <2>2. gen'[c] = gen[c]
        BY <1>2
    <2>3. Fresh(dat'[c]) /\ Attached(c)'
        BY <1>10 DEF Fresh, Unadvanced, Attached
    <2>4. Untouched(Key(r))' /\ From(r)' /\ Old(Key(r))'
        BY <1>10, <2>1, <2>2, <2>3 DEF Untouched, From, Old, Key
    <2> QED BY <2>4 DEF Waiting
<1>13. ~Attached(c)
    BY <1>2 DEF Attached, NoData
<1> QED BY <1>2, <1>5, <1>9, <1>11, <1>12, <1>13

LEMMA PinSends ==
    ASSUME RelayTypes, NEW c \in Clients, Pins(c) PROVE RelaySends({"result"})
<1> DEFINE f == [kind |-> "result", id |-> Head(toRelay).id, status |-> "ready"]
<1>1. f \in HostFrame
    <2>1. Head(toRelay).id \in Identity
        BY PinsKeep
    <2> QED BY <2>1 DEF HostFrame
<1>2. toHost' = Append(toHost, f) /\ f.kind = "result"
    BY DEF Pins
<1> HIDE DEF f
<1> QED BY <1>1, <1>2, SendsOne

LEMMA RelayWants ==
    ASSUME ~DataBatch, Types, DataInv, HostSocketClosed \/ Relays \/ Browsers, UNCHANGED hostVars
    PROVE  \A r : Wanted(r)' => Waiting(r)' \/ Wanted(r)
<1>1. RelayTypes /\ UNCHANGED <<pend, pass, build, active>>
    BY DEF Types, hostVars
<1>2. PICK kinds :
          /\ RelaySends(kinds)
          /\ "attach-request" \in kinds => \E c \in Clients : BrowserAttaches(c)
    BY <1>1, RelayWire
<1>3. Served => Served'
    BY <1>1, <1>2, SentKept
<1>4. ASSUME NEW r, Wanted(r)', ~Wanted(r) PROVE Waiting(r)'
    <2>1. PICK i \in DOMAIN toHost' : toHost'[i].kind = "attach-request" /\ r = toHost'[i].req
        BY <1>1, <1>3, <1>4 DEF Wanted, Recovering, ActiveRequest, Building, BuildRequest, AttachAt
    <2>2. i \notin DOMAIN toHost
        BY <1>2, <1>4, <2>1 DEF Wanted, RelaySends, AttachAt
    <2>3. PICK c \in Clients : BrowserAttaches(c)
        BY <1>2, <2>1, <2>2 DEF RelaySends
    <2> QED BY <1>1, <2>1, <2>2, <2>3, AttachWaits
<1> QED BY <1>4

LEMMA RelayRequests ==
    ASSUME ~DataBatch, Types, Types', DataInv, QueueInv, AttachInv, WireInv, RequestsInv,
           [Next]_vars, HostSocketClosed \/ Relays \/ Browsers, UNCHANGED hostVars
    PROVE  RequestsInv'
<1>1. HostTypes /\ RelayTypes
    BY DEF Types
<1>2. \A c \in Clients : (Moves(c) \/ Pins(c)) /\ gen'[c] \in Int
    BY AllMove
<1>3. (\A i \in DOMAIN toRelay : FrameOK(toRelay[i]))'
    <2>1. CASE NoPin
        <3>1. \A i \in DOMAIN toRelay : FrameOK(toRelay[i])
            BY FramesOfRequests
        <3>2. \A i \in DOMAIN toRelay' : \E j \in DOMAIN toRelay : toRelay'[i] = toRelay[j]
            BY <1>1, RelayWire, FramesTaken
        <3>3. \A i \in DOMAIN toRelay' : FrameOK(toRelay'[i])
            BY <3>1, <3>2
        <3> QED BY <2>1, <3>3, FramesStay
    <2>2. CASE ~NoPin
        <3>1. PICK c \in Clients : Pins(c)
            BY <1>2, <2>2 DEF NoPin
        <3>2. toRelay' = <<>>
            BY <1>1, <3>1, BarrierAlone DEF Pins, Processes
        <3> QED BY <3>2
    <2> QED BY <2>1, <2>2
<1>4. CASE link # "down"
    <2>1. UNCHANGED <<active, link>>
        BY DEF hostVars
    <2>2. \A r : Wanted(r)' => Waiting(r)' \/ Wanted(r)
        BY RelayWants
    <2>3. ASSUME NEW r \in Request, Wanted(r)', Pins(r.c) PROVE r.gen # gen[r.c]
        <3>1. r.c \in Clients
            BY DEF Request
        <3>2. RelaySends({"result"})
            BY <1>1, <2>3, <3>1, PinSends
        <3> QED BY <1>1, <1>4, <2>3, <3>1, <3>2, PinnedWaitsNowhere
    <2>4. Recovering' => Recovering /\ Key(active') = Key(active)
        BY <2>1 DEF Recovering
    <2>5. /\ (\A r \in Request : Wanted(r) => Waiting(r))'
          /\ (Recovering => Old(Key(active)))'
        BY <1>2, <1>4, <2>2, <2>3, <2>4, RequestsStay
    <2>6. (/\ link # "down" => \A r \in Request : Wanted(r) => Waiting(r)
           /\ link # "down" /\ Recovering => Old(Key(active))
           /\ \A i \in DOMAIN toRelay : FrameOK(toRelay[i]))'
        BY <1>3, <2>5
    <2> QED BY <2>6, FramesOfRequests, PTL
<1>5. CASE link = "down"
    <2>1. link' = "down"
        BY <1>5 DEF hostVars
    <2>2. (/\ link # "down" => \A r \in Request : Wanted(r) => Waiting(r)
           /\ link # "down" /\ Recovering => Old(Key(active))
           /\ \A i \in DOMAIN toRelay : FrameOK(toRelay[i]))'
        BY <1>3, <2>1
    <2> QED BY <2>2, FramesOfRequests, PTL
<1> QED BY <1>4, <1>5

\* A host connects without a request.
LEMMA ConnectsRequests == ASSUME Types, QueueInv, Prepare PROVE RequestsInv'
<1>1. /\ pend' = {} /\ pass' = {} /\ ~build'.current /\ active' = NoActive /\ toHost' = <<>>
      /\ toRelay' = <<[kind |-> "host-ready", seq |-> head]>>
    BY DEF Prepare, QueueInv, Idle, NoBuild
<1>2. (\A r : ~Wanted(r))'
    BY <1>1 DEF Wanted, Building, Recovering
<1>3. ~Recovering'
    BY <1>1 DEF Recovering
<1>4. (\A i \in DOMAIN toRelay : FrameOK(toRelay[i]))'
    BY <1>1 DEF FrameOK
<1>5. (/\ link # "down" => \A r \in Request : Wanted(r) => Waiting(r)
       /\ link # "down" /\ Recovering => Old(Key(active))
       /\ \A i \in DOMAIN toRelay : FrameOK(toRelay[i]))'
    BY <1>2, <1>3, <1>4
<1> QED BY <1>5, FramesOfRequests, PTL

LEMMA RelayAttach ==
    ASSUME ~DataBatch, Types, DataInv, AttachInv, RequestsInv,
           HostSocketClosed \/ Relays \/ Browsers, UNCHANGED hostVars
    PROVE  AttachInv'
<1>1. HostTypes /\ RelayTypes /\ UNCHANGED <<pend, pass, build, active, link>>
    BY DEF Types, hostVars
<1>2. \A k : Known(k)' <=> Known(k)
    BY <1>1 DEF Known, Shared, Building, BuildRequest, Recovering, Key
<1>3. PICK kinds :
          /\ RelaySends(kinds)
          /\ "attach-request" \in kinds => \E c \in Clients : BrowserAttaches(c)
    BY <1>1, RelayWire
<1>4. CASE link # "down"
    <2>1. \A r \in Request : Wanted(r) => Old(Key(r))
        BY <1>4 DEF RequestsInv, Waiting
    <2>2. \A k : Known(k) => Old(k)
        <3>1. \A r : r \in pend \/ r \in pass \/ r \in Building => r \in Request
            <4>1. build.current => BuildRequest \in Request
                BY <1>1, BuildIsClients, Bounds DEF BuildRequest, Build, Request
            <4>2. pend \subseteq Request /\ pass \subseteq Request
                BY <1>1 DEF HostTypes, HostTypeOK
            <4> QED BY <4>1, <4>2 DEF Building
        <3>2. Recovering => Old(Key(active))
            BY <1>4 DEF RequestsInv
        <3> QED BY <2>1, <3>1, <3>2, QueuedIsWanted DEF Known, Shared
    <2>3. \A j \in DOMAIN toHost : AttachAt(j) => Old(Key(toHost[j].req))
        <3>1. \A j \in DOMAIN toHost : AttachAt(j) => toHost[j].req \in Request
            BY <1>1 DEF RelayTypes, LinkTypeOK, HostFrame, AttachAt
        <3> QED BY <2>1, <3>1 DEF Wanted
    <2>4. ASSUME NEW i \in DOMAIN toHost', AttachAt(i)', i \notin DOMAIN toHost
          PROVE  /\ ~Old(Key(toHost'[i].req))
                 /\ \A j \in DOMAIN toHost' : j \in DOMAIN toHost \/ j = i
        <3>1. PICK c \in Clients : BrowserAttaches(c)
            BY <1>3, <2>4 DEF RelaySends, AttachAt
        <3>2. /\ toHost'[i].req.c = c /\ toHost'[i].req.gen = gen[c] /\ gen[c] \in Gens /\ ~Attached(c)
              /\ \A j \in DOMAIN toHost' : j \in DOMAIN toHost \/ j = i
            BY <1>1, <2>4, <3>1, AttachWaits
        <3>3. gen[c] \in Int
            BY <3>2 DEF Gens
        <3> QED BY <3>2, <3>3 DEF Old, Key
    <2>5. \A i \in DOMAIN toHost : toHost'[i] = toHost[i] /\ i \in DOMAIN toHost'
        BY <1>3 DEF RelaySends
    <2>6. ASSUME NEW i \in DOMAIN toHost', AttachAt(i)' PROVE ~Known(Key(toHost'[i].req))
        BY <1>4, <2>2, <2>4, <2>5, <2>6 DEF AttachInv, AttachAt
    <2>7. ASSUME NEW i \in DOMAIN toHost', AttachAt(i)', NEW j \in DOMAIN toHost', AttachAt(j)', i # j
          PROVE  Key(toHost'[i].req) # Key(toHost'[j].req)
        <3>1. CASE i \in DOMAIN toHost /\ j \in DOMAIN toHost
            BY <1>4, <2>5, <2>7, <3>1 DEF AttachInv, AttachAt
        <3>2. CASE i \notin DOMAIN toHost
            <4>1. j \in DOMAIN toHost
                BY <2>4, <2>7, <3>2
            <4>2. Old(Key(toHost'[j].req))
                BY <2>3, <2>5, <2>7, <4>1 DEF AttachAt
            <4> QED BY <2>4, <2>7, <3>2, <4>2
        <3>3. CASE j \notin DOMAIN toHost
            <4>1. i \in DOMAIN toHost
                BY <2>4, <2>7, <3>3
            <4>2. Old(Key(toHost'[i].req))
                BY <2>3, <2>5, <2>7, <4>1 DEF AttachAt
            <4> QED BY <2>4, <2>7, <3>3, <4>2
        <3> QED BY <3>1, <3>2, <3>3
    <2>8. ASSUME NEW i \in DOMAIN toHost', AttachAt(i)', NEW k, k = Key(toHost'[i].req) PROVE ~Known(k)'
        BY <1>2, <2>6, <2>8
    <2> QED BY <2>7, <2>8 DEF AttachInv, Key, Known
<1> QED BY <1>1, <1>4 DEF AttachInv

-----------------------------------------------------------------------------
(* WireInv *)

\* Which results are on their way, when the host has taken a frame or none.
LEMMA ResultsLeft ==
    ASSUME HostTypes, ResultInv, link # "down", link' = "ready", UNCHANGED toRelay,
           toHost' = toHost \/ (toHost # <<>> /\ toHost' = Tail(toHost)),
           \A i \in DOMAIN toHost :
              ResultAt(i) /\ link = "ready" /\ active.phase = "uncertain" => SameRecovery
    PROVE  ResultInv'
<1>1. PICK d \in {0, 1} : \A i \in DOMAIN toHost' :
           i \in Nat /\ i + d \in DOMAIN toHost /\ toHost'[i] = toHost[i + d]
    BY TakesAt DEF Takes
<1>2. ASSUME NEW i \in DOMAIN toHost', ResultAt(i)', NEW j \in DOMAIN toHost', ResultAt(j)'
      PROVE  /\ active'.phase = "uncertain" /\ toHost'[i].id = ActiveIdentity'
             /\ toRelay' = <<>> /\ i = j
    <2>1. i + d \in DOMAIN toHost /\ ResultAt(i + d) /\ j + d \in DOMAIN toHost /\ ResultAt(j + d)
        BY <1>1, <1>2 DEF ResultAt
    <2>2. /\ link = "ready" /\ active.phase = "uncertain" /\ toHost[i + d].id = ActiveIdentity
          /\ toRelay = <<>> /\ i + d = j + d
        BY <2>1 DEF ResultInv
    <2>3. SameRecovery
        BY <2>1, <2>2
    <2>4. ActiveIdentity' = ActiveIdentity /\ active'.phase = "uncertain"
        BY <2>2, <2>3 DEF SameRecovery, ActiveIdentity
    <2>5. i = j
        BY <1>1, <2>2
    <2> QED BY <1>1, <1>2, <2>2, <2>4, <2>5
<1> QED BY <1>2 DEF ResultInv

LEMMA NoResults ==
    ASSUME ResultInv, link # "down", active.phase # "uncertain" PROVE \A i \in DOMAIN toHost : ~ResultAt(i)
BY DEF ResultInv

LEMMA WireClosed == ASSUME WireInv, NEW reason, ClosePair(reason) PROVE WireInv'
<1>1. link' = "down" /\ UNCHANGED <<toRelay, sent>>
    BY DEF ClosePair
<1>2. BarrierInv'
    BY <1>1 DEF WireInv, BarrierInv, BarrierAt
<1>3. RunInv'
    BY <1>1 DEF WireInv, RunInv, ReplayAt, DirectedAt, Key
<1>4. ResultInv'
    BY <1>1 DEF ResultInv
<1> QED BY <1>1, <1>2, <1>3, <1>4 DEF WireInv

LEMMA WireActivated == ASSUME HostTypes, WireInv, HostActivated, active = NoActive PROVE WireInv'
<1>1. /\ link = "preparing" /\ link' = "ready" /\ UNCHANGED <<sent, toRelay, active>>
      /\ active.phase = "none"
    BY DEF HostActivated, NoActive
<1>2. \A i \in DOMAIN toRelay' : toRelay'[i].kind = "host-ready"
    BY <1>1 DEF WireInv
<1>3. BarrierInv'
    BY <1>2 DEF BarrierInv, BarrierAt
<1>4. RunInv'
    BY <1>1, <1>2 DEF RunInv, ReplayAt
<1>5. \A i \in DOMAIN toHost : ~ResultAt(i)
    BY <1>1, NoResults DEF WireInv
<1>6. ResultInv'
    BY <1>1, <1>5, ResultsLeft DEF WireInv, HostActivated
<1> QED BY <1>1, <1>3, <1>4, <1>6 DEF WireInv

LEMMA WireQuiet == ASSUME HostTypes, WireInv, HostQuiet PROVE WireInv'
<1>1. UNCHANGED <<link, sent, toRelay>> /\ (Busy \/ Busy' => SameRecovery)
    BY DEF HostQuiet
<1>2. BarrierInv'
    <2>1. ASSUME NEW i \in DOMAIN toRelay, BarrierAt(i), link = "ready"
          PROVE  active'.phase = "uncertain" /\ toRelay[i].id = ActiveIdentity'
        <3>1. active.phase = "uncertain" /\ toRelay[i].id = ActiveIdentity
            BY <2>1 DEF WireInv, BarrierInv
        <3>2. SameRecovery
            BY <1>1, <3>1 DEF Busy
        <3> QED BY <3>1, <3>2 DEF SameRecovery, ActiveIdentity
    <2> QED BY <1>1, <2>1 DEF WireInv, BarrierInv, BarrierAt
<1>3. RunInv'
    <2>1. active.phase = "pinned" \/ active'.phase = "pinned" =>
              active'.phase = "pinned" /\ active.phase = "pinned" /\ Key(active') = Key(active)
        BY <1>1 DEF Busy, SameRecovery, Key
    <2> QED BY <1>1, <2>1 DEF WireInv, RunInv, ReplayAt, DirectedAt, Key
<1>4. ResultInv'
    <2>1. CASE link = "ready"
        <3>1. active.phase = "uncertain" => SameRecovery
            BY <1>1 DEF Busy
        <3> QED BY <1>1, <2>1, <3>1, ResultsLeft DEF WireInv, HostQuiet
    <2>2. CASE link = "down"
        BY <1>1, <2>2 DEF ResultInv
    <2>3. CASE link = "preparing"
        <3>1. \A i \in DOMAIN toHost : ~ResultAt(i)
            BY <2>3 DEF WireInv, ResultInv
        <3>2. PICK d \in {0, 1} : \A i \in DOMAIN toHost' :
                  i \in Nat /\ i + d \in DOMAIN toHost /\ toHost'[i] = toHost[i + d]
            BY TakesAt DEF Takes, HostQuiet
        <3>3. \A i \in DOMAIN toHost' : ~ResultAt(i)'
            BY <3>1, <3>2 DEF ResultAt
        <3> QED BY <3>3 DEF ResultInv
    <2> QED BY <2>1, <2>2, <2>3 DEF HostTypes, HostTypeOK
<1> QED BY <1>1, <1>2, <1>3, <1>4 DEF WireInv

LEMMA ResultAlone ==
    ASSUME HostTypes, WireInv, HandleBarrierResult
    PROVE  /\ active.phase = "uncertain" /\ Recovering /\ toRelay = <<>> /\ link = "ready"
           /\ toHost # <<>> /\ Head(toHost).id = ActiveIdentity
           /\ Outcome(Head(toHost).status) /\ UNCHANGED <<link, toRelay, sent>>
           /\ toHost' = Tail(toHost)
           /\ \A i \in DOMAIN toHost' : ~ResultAt(i)'
           /\ \A i \in DOMAIN toHost : ResultAt(i) => toHost[i] = Head(toHost)
<1>1. toHost \in Seq(HostFrame) /\ toHost # <<>> /\ Head(toHost).kind = "result" /\ link = "ready"
      /\ toHost' = Tail(toHost)
    BY DEF HostTypes, LinkTypeOK, HandleBarrierResult, Receives
<1>2. 1 \in DOMAIN toHost /\ toHost[1] = Head(toHost) /\ ResultAt(1)
    BY <1>1, TailAt DEF ResultAt
<1>3. active.phase = "uncertain" /\ Head(toHost).id = ActiveIdentity /\ toRelay = <<>>
    BY <1>1, <1>2 DEF WireInv, ResultInv
<1>4. \A i \in DOMAIN toHost : ResultAt(i) => i = 1
    BY <1>1, <1>2 DEF WireInv, ResultInv
<1>5. \A i \in DOMAIN toHost' : i \in Nat \ {0} /\ i + 1 \in DOMAIN toHost /\ toHost'[i] = toHost[i + 1]
    BY <1>1, TailAt
<1>6. \A i \in DOMAIN toHost' : i + 1 # 1
    BY <1>5
<1>7. \A i \in DOMAIN toHost' : ~ResultAt(i)'
    BY <1>4, <1>5, <1>6 DEF ResultAt
<1> QED BY <1>1, <1>2, <1>3, <1>4, <1>7, ActiveIsRecovery DEF HandleBarrierResult

LEMMA WireResult == ASSUME HostTypes, WireInv, HandleBarrierResult PROVE WireInv'
<1>1. toRelay' = <<>> /\ link' = "ready" /\ \A i \in DOMAIN toHost' : ~ResultAt(i)'
    BY ResultAlone
<1> QED BY <1>1 DEF WireInv, BarrierInv, RunInv, ResultInv

\* What the host sends is last.
LEMMA SentAt ==
    ASSUME HostTypes, NEW f, HostSends(f), HostTypes'
    PROVE  /\ f \in RelayFrame
           /\ Len(toRelay) \in Nat /\ DOMAIN toRelay = 1 .. Len(toRelay)
           /\ DOMAIN toRelay' = 1 .. Len(toRelay) + 1 /\ Len(toRelay') = Len(toRelay) + 1
           /\ \A i \in DOMAIN toRelay : toRelay'[i] = toRelay[i]
           /\ toRelay'[Len(toRelay) + 1] = f
<1>1. toRelay \in Seq(RelayFrame) /\ toRelay' \in Seq(RelayFrame) /\ toRelay' = toRelay \o <<f>>
    BY DEF HostTypes, LinkTypeOK, HostSends
<1>2. toRelay' = Append(toRelay, f)
    BY <1>1
<1>3. f \in RelayFrame
    BY <1>1, <1>2
<1> QED BY <1>1, <1>3, LastAt

LEMMA WireSendsResults ==
    ASSUME WireInv, link = "ready", UNCHANGED toHost, active.phase # "uncertain" PROVE ResultInv'
<1>1. \A i \in DOMAIN toHost' : ~ResultAt(i)'
    BY NoResults DEF WireInv, ResultAt
<1> QED BY <1>1 DEF ResultInv

LEMMA WireSendsOther ==
    ASSUME HostTypes, HostTypes', WireInv, HostSendsEvent \/ HostSendsBarrier PROVE WireInv'
<1>1. PICK f :
          /\ HostSends(f)
          /\ \/ f.kind = "event" /\ UNCHANGED active /\ ~Busy
             \/ /\ f.kind = "barrier" /\ f.id = ActiveIdentity /\ sent' = sent /\ f.id.commit = sent
                /\ active.phase = "flushing" /\ active' = [active EXCEPT !.phase = "uncertain"]
    BY DEF HostSendsEvent, HostSendsBarrier, ActiveIdentity
<1>2. /\ Len(toRelay) \in Nat /\ DOMAIN toRelay = 1 .. Len(toRelay)
      /\ DOMAIN toRelay' = 1 .. Len(toRelay) + 1 /\ Len(toRelay') = Len(toRelay) + 1
      /\ \A i \in DOMAIN toRelay : toRelay'[i] = toRelay[i]
      /\ toRelay'[Len(toRelay) + 1] = f
    BY <1>1, SentAt
<1>3. link = "ready" /\ UNCHANGED <<link, toHost>> /\ ~Busy
    BY <1>1 DEF HostSends, Busy
<1>4. active'.phase # "pinned" /\ (f.kind = "barrier" => active'.phase = "uncertain" /\ ActiveIdentity' = f.id)
    <2>1. CASE UNCHANGED active /\ f.kind = "event"
        BY <1>3, <2>1 DEF Busy
    <2>2. CASE /\ f.kind = "barrier" /\ f.id = ActiveIdentity /\ active.phase = "flushing"
               /\ active' = [active EXCEPT !.phase = "uncertain"]
        <3>1. active \in Active
            BY <2>2, ActiveIsRecovery
        <3>2. /\ active'.phase = "uncertain" /\ active'.c = active.c /\ active'.gen = active.gen
              /\ active'.mode = active.mode /\ active'.cut = active.cut /\ active'.commit = active.commit
            BY <2>2, <3>1, Updated
        <3> QED BY <2>2, <3>2 DEF ActiveIdentity
    <2> QED BY <1>1, <2>1, <2>2
<1>5. \A i \in DOMAIN toRelay : ~BarrierAt(i)
    BY <1>3 DEF WireInv, BarrierInv, Busy
<1>6. BarrierInv'
    <2>1. ASSUME NEW i \in DOMAIN toRelay', BarrierAt(i)'
          PROVE  /\ i = Len(toRelay') /\ toRelay'[i].id.commit = sent'
                 /\ active'.phase = "uncertain" /\ toRelay'[i].id = ActiveIdentity'
        <3>1. i = Len(toRelay) + 1
            BY <1>2, <1>5, <2>1 DEF BarrierAt
        <3>2. f.kind = "barrier"
            BY <1>2, <2>1, <3>1 DEF BarrierAt
        <3> QED BY <1>1, <1>2, <1>4, <3>1, <3>2
    <2> QED BY <2>1 DEF BarrierInv
<1>7. RunInv'
    <2>1. ASSUME NEW j \in DOMAIN toRelay', ReplayAt(j)'
          PROVE  j \in DOMAIN toRelay /\ ReplayAt(j) /\ toRelay'[j] = toRelay[j]
        BY <1>1, <1>2, <2>1 DEF ReplayAt
    <2>2. ASSUME NEW j \in DOMAIN toRelay', ReplayAt(j)', NEW i \in 1 .. j - 1
          PROVE  /\ i \in DOMAIN toRelay /\ toRelay'[i] = toRelay[i]
                 /\ toRelay'[i].kind = "directed" /\ Key(toRelay'[i]) = Key(toRelay'[j])
        <3>1. j \in DOMAIN toRelay /\ ReplayAt(j) /\ toRelay'[j] = toRelay[j]
            BY <2>1, <2>2
        <3>2. i \in DOMAIN toRelay
            BY <1>2, <3>1
        <3> QED BY <1>2, <3>1, <3>2 DEF WireInv, RunInv, DirectedAt
    <2>3. ASSUME NEW i \in DOMAIN toRelay', toRelay'[i].kind = "directed"
          PROVE  i # Len(toRelay') /\ ReplayAt(i + 1)'
        <3>1. i \in DOMAIN toRelay /\ toRelay[i].kind = "directed"
            BY <1>1, <1>2, <2>3
        <3>2. i # Len(toRelay) /\ ReplayAt(i + 1)
            BY <1>3, <3>1 DEF WireInv, RunInv, Busy
        <3>3. i + 1 \in DOMAIN toRelay /\ i # Len(toRelay')
            BY <1>2, <3>1, <3>2
        <3> QED BY <1>2, <3>2, <3>3 DEF ReplayAt
    <2> QED BY <1>4, <2>2, <2>3 DEF RunInv, DirectedAt, Key
<1>8. ResultInv'
    BY <1>3, WireSendsResults DEF Busy
<1> QED BY <1>3, <1>6, <1>7, <1>8 DEF WireInv

LEMMA WireSendsReplay ==
    ASSUME HostTypes, HostTypes', WireInv, HostSendsReplay \/ HostSendsCommit PROVE WireInv'
<1>1. PICK f :
          /\ HostSends(f) /\ Key(f) = Key(active) /\ active.phase = "pinned"
          /\ \/ f.kind = "directed" /\ active' = [active EXCEPT !.next = active.next + 1]
             \/ f.kind = "commit" /\ active' = NoActive
    BY DEF HostSendsReplay, HostSendsCommit, Directed, Key
<1>2. /\ Len(toRelay) \in Nat /\ DOMAIN toRelay = 1 .. Len(toRelay)
      /\ DOMAIN toRelay' = 1 .. Len(toRelay) + 1 /\ Len(toRelay') = Len(toRelay) + 1
      /\ \A i \in DOMAIN toRelay : toRelay'[i] = toRelay[i]
      /\ toRelay'[Len(toRelay) + 1] = f
    BY <1>1, SentAt
<1>3. link = "ready" /\ UNCHANGED <<link, toHost>>
    BY <1>1 DEF HostSends
<1>4. \/ f.kind = "directed" /\ active'.phase = "pinned" /\ Key(active') = Key(active)
      \/ f.kind = "commit" /\ active'.phase = "none"
    <2>1. CASE f.kind = "directed" /\ active' = [active EXCEPT !.next = active.next + 1]
        <3>1. active \in Active
            BY <1>1, ActiveIsRecovery
        <3> DEFINE n == active.next + 1
        <3>2. active' = [active EXCEPT !.next = n]
            BY <2>1
        <3> HIDE DEF n
        <3>3. active'.phase = active.phase /\ active'.c = active.c /\ active'.gen = active.gen
            BY <3>1, <3>2, Updated
        <3> QED BY <1>1, <2>1, <3>3 DEF Key
    <2>2. CASE f.kind = "commit" /\ active' = NoActive
        BY <2>2 DEF NoActive
    <2> QED BY <1>1, <2>1, <2>2
<1>5. \A i \in DOMAIN toRelay : toRelay[i].kind = "directed" /\ Key(toRelay[i]) = Key(active)
    BY <1>1, <1>3 DEF WireInv, RunInv, DirectedAt
<1>6. \A i \in DOMAIN toRelay' :
          /\ toRelay'[i].kind \in {"directed", "commit"} /\ Key(toRelay'[i]) = Key(active)
          /\ i \in DOMAIN toRelay => toRelay'[i].kind = "directed"
          /\ i \notin DOMAIN toRelay => i = Len(toRelay) + 1 /\ toRelay'[i] = f
    BY <1>1, <1>2, <1>4, <1>5
<1>7. BarrierInv'
    BY <1>6 DEF BarrierInv, BarrierAt
<1>8. RunInv'
    <2>1. ASSUME NEW j \in DOMAIN toRelay', NEW i \in 1 .. j - 1
          PROVE  toRelay'[i].kind = "directed" /\ Key(toRelay'[i]) = Key(toRelay'[j])
        <3>1. i \in DOMAIN toRelay /\ i \in DOMAIN toRelay'
            BY <1>2
        <3> QED BY <1>6, <3>1
    <2>2. ASSUME NEW i \in DOMAIN toRelay', toRelay'[i].kind = "directed", i = Len(toRelay')
          PROVE  active'.phase = "pinned" /\ Key(toRelay'[i]) = Key(active')
        BY <1>2, <1>4, <1>6, <2>2
    <2>3. ASSUME NEW i \in DOMAIN toRelay', i # Len(toRelay') PROVE ReplayAt(i + 1)'
        <3>1. i + 1 \in DOMAIN toRelay'
            BY <1>2, <2>3
        <3> QED BY <1>6, <3>1 DEF ReplayAt
    <2>4. ASSUME active'.phase = "pinned", NEW i \in DOMAIN toRelay'
          PROVE  toRelay'[i].kind = "directed" /\ Key(toRelay'[i]) = Key(active')
        BY <1>4, <1>6, <2>4
    <2> QED BY <2>1, <2>2, <2>3, <2>4 DEF RunInv, DirectedAt, Key
<1>9. ResultInv'
    BY <1>1, <1>3, WireSendsResults
<1> QED BY <1>3, <1>7, <1>8, <1>9 DEF WireInv

LEMMA HostWire ==
    ASSUME ~DataBatch, HostTypes, HostTypes', StreamInv, PhaseInv, QueueInv, WireInv, HostNext \/ BuildSucceeds
    PROVE  WireInv'
<1>1. CASE HostActivated
    <2>1. active = NoActive
        BY <1>1 DEF HostActivated, QueueInv, Idle
    <2> QED BY <1>1, <2>1, WireActivated
<1> QED BY <1>1, HostKinds, WireClosed, WireQuiet, WireResult, WireSendsOther, WireSendsReplay

LEMMA ConnectsWire == ASSUME Prepare PROVE WireInv'
<1>1. /\ link' = "preparing" /\ toHost' = <<>> /\ toRelay' = <<[kind |-> "host-ready", seq |-> head]>>
    BY DEF Prepare
<1>2. \A i \in DOMAIN toRelay' : toRelay'[i].kind = "host-ready"
    BY <1>1
<1>3. BarrierInv'
    BY <1>2 DEF BarrierInv, BarrierAt
<1>4. RunInv'
    BY <1>1, <1>2 DEF RunInv, ReplayAt
<1>5. ResultInv'
    BY <1>1 DEF ResultInv
<1> QED BY <1>2, <1>3, <1>4, <1>5 DEF WireInv

LEMMA WireTaken ==
    ASSUME RelayTypes, WireInv, RelayTakes, UNCHANGED <<link, active, sent>>
    PROVE  BarrierInv' /\ RunInv' /\ (link' = "preparing" => \A i \in DOMAIN toRelay' : toRelay'[i].kind = "host-ready")
<1>1. toRelay \in Seq(RelayFrame)
    BY DEF RelayTypes, LinkTypeOK
<1>2. CASE toRelay' = toRelay
    BY <1>2 DEF WireInv, BarrierInv, RunInv, BarrierAt, ReplayAt, DirectedAt, ActiveIdentity, Key
<1>3. CASE toRelay' = <<>>
    BY <1>3 DEF BarrierInv, RunInv
<1>4. CASE toRelay # <<>> /\ toRelay' = Tail(toRelay)
    <2>1. /\ Len(toRelay) \in Nat \ {0} /\ Len(toRelay') = Len(toRelay) - 1
          /\ DOMAIN toRelay = 1 .. Len(toRelay) /\ DOMAIN toRelay' = 1 .. Len(toRelay) - 1
          /\ \A i \in DOMAIN toRelay' : i + 1 \in DOMAIN toRelay /\ toRelay'[i] = toRelay[i + 1]
        BY <1>1, <1>4, TailAt
    <2>2. BarrierInv'
        <3>1. ASSUME NEW i \in DOMAIN toRelay', BarrierAt(i)'
              PROVE  /\ i = Len(toRelay') /\ toRelay'[i].id.commit = sent
                     /\ link = "ready" => active.phase = "uncertain" /\ toRelay'[i].id = ActiveIdentity
            <4>1. i + 1 \in DOMAIN toRelay /\ BarrierAt(i + 1)
                BY <2>1, <3>1 DEF BarrierAt
            <4> QED BY <2>1, <4>1 DEF WireInv, BarrierInv
        <3> QED BY <3>1 DEF BarrierInv, ActiveIdentity
    <2>3. RunInv'
        <3>1. ASSUME NEW j \in DOMAIN toRelay', ReplayAt(j)', NEW i \in 1 .. j - 1
              PROVE  toRelay'[i].kind = "directed" /\ Key(toRelay'[i]) = Key(toRelay'[j])
            <4>1. j + 1 \in DOMAIN toRelay /\ ReplayAt(j + 1) /\ toRelay'[j] = toRelay[j + 1]
                BY <2>1, <3>1 DEF ReplayAt
            <4>2. i \in DOMAIN toRelay' /\ i + 1 \in 1 .. (j + 1) - 1
                BY <2>1, <3>1
            <4> QED BY <2>1, <4>1, <4>2 DEF WireInv, RunInv, DirectedAt
        <3>2. ASSUME NEW i \in DOMAIN toRelay', toRelay'[i].kind = "directed"
              PROVE  IF i = Len(toRelay')
                     THEN link = "ready" => active.phase = "pinned" /\ Key(toRelay'[i]) = Key(active)
                     ELSE ReplayAt(i + 1)'
            <4>1. i + 1 \in DOMAIN toRelay /\ toRelay[i + 1].kind = "directed" /\ toRelay'[i] = toRelay[i + 1]
                BY <2>1, <3>2
            <4>2. CASE i = Len(toRelay')
                BY <2>1, <4>1, <4>2 DEF WireInv, RunInv
            <4>3. CASE i # Len(toRelay')
                <5>1. i + 1 # Len(toRelay) /\ i + 1 \in DOMAIN toRelay'
                    BY <2>1, <4>3
                <5>2. ReplayAt((i + 1) + 1)
                    BY <4>1, <5>1 DEF WireInv, RunInv
                <5> QED BY <2>1, <4>3, <5>1, <5>2 DEF ReplayAt
            <4> QED BY <4>2, <4>3
        <3>3. ASSUME link = "ready", active.phase = "pinned", NEW i \in DOMAIN toRelay'
              PROVE  toRelay'[i].kind = "directed" /\ Key(toRelay'[i]) = Key(active)
            BY <2>1, <3>3 DEF WireInv, RunInv, DirectedAt
        <3> QED BY <3>1, <3>2, <3>3 DEF RunInv, DirectedAt, Key
    <2> QED BY <2>1, <2>2, <2>3 DEF WireInv
<1> QED BY <1>2, <1>3, <1>4 DEF RelayTakes, WireInv

LEMMA ResultsSent ==
    ASSUME HostTypes, RelayTypes, WireInv, UNCHANGED <<link, active>>, RelayTakes,
           \/ RelaySends({"host-ready-ack", "delivery-reset"}) \/ RelaySends({"attach-request"})
           \/ HandleBarrier
    PROVE  ResultInv'
<1>1. CASE link = "down"
    BY <1>1 DEF ResultInv
<1>2. ActiveIdentity' = ActiveIdentity
    BY DEF ActiveIdentity
<1>3. CASE link # "down" /\ ~HandleBarrier
    <2>1. \A i \in DOMAIN toHost' : ResultAt(i)' => i \in DOMAIN toHost /\ ResultAt(i) /\ toHost'[i] = toHost[i]
        BY <1>3 DEF RelaySends, ResultAt
    <2>2. toRelay = <<>> => toRelay' = <<>>
        BY DEF RelayTakes
    <2> QED BY <1>2, <1>3, <2>1, <2>2 DEF WireInv, ResultInv
<1>4. CASE link # "down" /\ HandleBarrier
    <2>1. toRelay # <<>> /\ Head(toRelay).kind = "barrier"
        BY <1>4 DEF HandleBarrier, Processes
    <2>2. /\ Tail(toRelay) = <<>> /\ link = "ready" /\ active.phase = "uncertain"
          /\ Head(toRelay).id = ActiveIdentity /\ \A i \in DOMAIN toHost : ~ResultAt(i)
        BY <1>4, <2>1, BarrierAlone
    <2>3. CASE BarrierFails
        <3>1. toHost' = toHost
            BY <2>3 DEF BarrierFails, FailCurrentHost
        <3> QED BY <2>2, <3>1 DEF ResultInv, ResultAt
    <2>4. CASE ~BarrierFails
        <3>1. PICK f \in HostFrame : f.id = Head(toRelay).id /\ toHost' = Append(toHost, f) /\ toRelay' = Tail(toRelay)
            BY <1>4, <2>4, BarrierSends
        <3>2. toHost \in Seq(HostFrame)
            BY DEF HostTypes, LinkTypeOK
        <3>3. /\ Len(toHost') = Len(toHost) + 1 /\ toHost' \in Seq(HostFrame)
              /\ \A i \in 1 .. Len(toHost) : toHost'[i] = toHost[i]
              /\ toHost'[Len(toHost) + 1] = f
            BY <3>1, <3>2, AppendProperties
        <3>4. /\ DOMAIN toHost' = 1 .. Len(toHost) + 1 /\ DOMAIN toHost = 1 .. Len(toHost)
              /\ Len(toHost) \in Nat
            BY <3>2, <3>3, LenProperties
        <3>5. \A i \in DOMAIN toHost' : ResultAt(i)' => i = Len(toHost) + 1 /\ toHost'[i] = f
            BY <2>2, <3>3, <3>4 DEF ResultAt
        <3> QED BY <1>2, <2>2, <3>1, <3>5 DEF ResultInv
    <2> QED BY <2>3, <2>4
<1> QED BY <1>1, <1>3, <1>4

LEMMA RelayKeepsWire ==
    ASSUME ~DataBatch, Types, WireInv, HostSocketClosed \/ Relays \/ Browsers, UNCHANGED hostVars
    PROVE  WireInv'
<1>1. HostTypes /\ RelayTypes /\ UNCHANGED <<link, active, sent>>
    BY DEF Types, hostVars
<1>2. RelayTakes /\ (\/ RelaySends({"host-ready-ack", "delivery-reset"}) \/ RelaySends({"attach-request"})
                     \/ HandleBarrier)
    BY <1>1, RelayWire
<1>3. BarrierInv' /\ RunInv' /\ (link' = "preparing" => \A i \in DOMAIN toRelay' : toRelay'[i].kind = "host-ready")
    BY <1>1, <1>2, WireTaken
<1>4. ResultInv'
    BY <1>1, <1>2, ResultsSent
<1> QED BY <1>3, <1>4 DEF WireInv

-----------------------------------------------------------------------------
(* Two smaller facts *)

LEMMA CutEnds == ASSUME active' = NoActive PROVE CutInv'
BY DEF CutInv, NoActive

LEMMA CutStays ==
    ASSUME HostTypes, CutInv,
           \/ UNCHANGED active
           \/ AbortActive
           \/ AbortForPressure
           \/ FlushThroughHead
           \/ active' = [active EXCEPT !.phase = "uncertain"]
           \/ active' = [active EXCEPT !.next = active.next + 1]
           \/ Outcome("ready")
    PROVE  CutInv'
<1>1. CASE active \in Active
    <2>1. ASSUME NEW p, NEW n, \/ active' = [active EXCEPT !.aborted = TRUE]
                               \/ active' = [active EXCEPT !.phase = p]
                               \/ active' = [active EXCEPT !.next = n]
                               \/ active' = [active EXCEPT !.phase = p, !.next = n]
                               \/ active' = [active EXCEPT !.phase = p, !.commit = n]
          PROVE  active'.mode = active.mode /\ active'.cut = active.cut
        <3>1. CASE active' = [active EXCEPT !.aborted = TRUE]
            BY <1>1, <3>1, Updated
        <3>2. CASE active' = [active EXCEPT !.phase = p]
            BY <1>1, <3>2, Updated
        <3>3. CASE active' = [active EXCEPT !.next = n]
            BY <1>1, <3>3, Updated
        <3>4. CASE active' = [active EXCEPT !.phase = p, !.next = n]
            BY <1>1, <3>4, Updated
        <3>5. CASE active' = [active EXCEPT !.phase = p, !.commit = n]
            BY <1>1, <3>5, Updated, SMTT(30)
        <3> QED BY <2>1, <3>1, <3>2, <3>3, <3>4, <3>5
    <2>2. \/ UNCHANGED active \/ active' = NoActive
          \/ active'.mode = active.mode /\ active'.cut = active.cut
        BY <2>1 DEF FlushThroughHead, Outcome, AbortActive, AbortForPressure
    <2> QED BY <2>2, CutEnds DEF CutInv
<1>2. CASE active = NoActive
    <2>1. \/ UNCHANGED active \/ active' = NoActive
          \/ active'.mode = active.mode
        BY <1>2 DEF FlushThroughHead, Outcome, AbortActive, AbortForPressure, NoActive
    <2>2. active.mode = "none"
        BY <1>2 DEF NoActive
    <2> QED BY <1>2, <2>1, <2>2, CutEnds DEF CutInv
<1> QED BY <1>1, <1>2 DEF HostTypes, HostTypeOK

LEMMA CutCold ==
    ASSUME HostTypes, NEW r, NEW aborted, RecoverCold(r, aborted) PROVE CutInv'
<1>1. ASSUME NEW p, p.cut \in Seqs, DeliverPrepared(r, p, aborted) PROVE CutInv'
    <2>1. active'.cut = p.cut
        BY <1>1 DEF DeliverPrepared, NoActive
    <2> QED BY <1>1, <2>1 DEF CutInv
<1>2. \A p \in preps : p.cut \in Seqs
    BY DEF HostTypes, HostTypeOK, Preparation
<1>3. cache # NoSeq => cache \in Seqs
    BY DEF HostTypes, HostTypeOK, MaybeSeqs
<1>4. CASE \E p \in preps : Key(p) = Key(r) /\ DeliverPrepared(r, p, aborted)
    BY <1>1, <1>2, <1>4
<1>5. CASE cache # NoSeq /\ DeliverPrepared(r, [c |-> r.c, gen |-> r.gen, cut |-> cache], aborted)
    <2> DEFINE p == [c |-> r.c, gen |-> r.gen, cut |-> cache]
    <2>1. p.cut \in Seqs
        BY <1>3, <1>5
    <2>2. DeliverPrepared(r, p, aborted)
        BY <1>5
    <2> HIDE DEF p
    <2> QED BY <1>1, <2>1, <2>2
<1>6. CASE AwaitPreparation(r)
    BY <1>6, CutEnds DEF AwaitPreparation
<1> QED BY <1>4, <1>5, <1>6 DEF RecoverCold

LEMMA CutControl ==
    ASSUME HostTypes, CutInv,
           HandleReadyAck \/ EnqueueAttach \/ HandleDeliveryReset \/ HandleBarrierResult \/ TerminalOutput
    PROVE  CutInv'
BY CutEnds, CutStays DEF HandleReadyAck, EnqueueAttach, HandleDeliveryReset, HandleBarrierResult,
    TerminalOutput, ClosePair, Outcome, Complete, Retry

LEMMA CutRecovery ==
    ASSUME ~DataBatch, HostTypes, CutInv,
           StartRecovery \/ PlanWarm \/ PlanCold \/ SendBarrier \/ SendDirected \/ SendReplayCommit
    PROVE  CutInv'
<1>1. CASE StartRecovery
    <2>1. PICK r \in pass :
              \/ active' = [NoActive EXCEPT !.c = r.c, !.gen = r.gen, !.base = r.base,
                               !.mode = "warm", !.phase = "pausing"]
              \/ RecoverCold(r, FALSE)
        BY <1>1 DEF StartRecovery
    <2>2. CASE active' = [NoActive EXCEPT !.c = r.c, !.gen = r.gen, !.base = r.base,
                             !.mode = "warm", !.phase = "pausing"]
        <3>1. active'.mode = "warm"
            BY <2>2 DEF NoActive
        <3> QED BY <3>1 DEF CutInv
    <2> QED BY <2>1, <2>2, CutCold
<1>2. CASE PlanWarm \/ PlanCold
    BY <1>2, CutEnds, CutStays, CutCold DEF PlanWarm, PlanCold, Retry
<1>3. CASE SendBarrier \/ SendDirected \/ SendReplayCommit
    BY <1>3, CutEnds, CutStays DEF SendBarrier, SendDirected, SendReplayCommit, ClosePair, Complete
<1> QED BY <1>1, <1>2, <1>3

LEMMA NextCut ==
    ASSUME ~DataBatch, HostTypes, StreamInv, CutInv, HostNext \/ BuildSucceeds \/ Prepare PROVE CutInv'
<1>1. ~FlushDataBatch /\ (ReceiveDataAck => UNCHANGED active)
    BY EmptySeq DEF FlushDataBatch, ReceiveDataAck, StreamInv
<1>2. CASE \/ Pump \/ EvictJournal \/ ExpireCheckpoint \/ ReceiveDataAck \/ SocketCloses
           \/ RefuseEarlyTraffic \/ TakePass \/ FlushFrame \/ BarrierTimeout \/ BuildFails
           \/ BuildSucceeds \/ Prepare
    BY <1>1, <1>2, CutEnds, CutStays DEF Pump, EvictJournal, ExpireCheckpoint, SocketCloses, RefuseEarlyTraffic,
        TakePass, FlushFrame, BarrierTimeout, BuildFails, BuildSucceeds, Prepare, ClosePair
<1> QED BY <1>1, <1>2, CutControl, CutRecovery DEF HostNext

LEMMA ControlKept ==
    ASSUME RelayTypes, NEW c \in Clients, ctl[c] = "none" => dat[c].state = "none",
           \/ UNCHANGED <<ctl, dat>>
           \/ \E b : Isolate(b)
           \/ UNCHANGED ctl /\ (dat'[c].state # "none" => dat[c].state # "none")
           \/ ctl'[c] # "none"
    PROVE  ctl'[c] = "none" => dat'[c].state = "none"
<1>1. ASSUME NEW b, Isolate(b) PROVE ctl'[c] = "none" => dat'[c].state = "none"
    <2>1. /\ dat \in [Clients -> Data \cup {NoData}]
          /\ ctl \in [Clients -> {"none", "awaiting", "active"}]
          /\ ctl' = [ctl EXCEPT ![b] = "none"] /\ dat' = [dat EXCEPT ![b] = NoData]
        BY <1>1 DEF RelayTypes, RelayTypeOK, Isolate
    <2>2. NoData.state = "none"
        BY DEF NoData
    <2>3. CASE b = c
        BY <2>1, <2>2, <2>3
    <2>4. CASE b # c
        BY <2>1, <2>4
    <2> QED BY <2>3, <2>4
<1> QED BY <1>1

LEMMA NextControl ==
    ASSUME ~DataBatch, Types, DataInv, ControlInv, [Next]_vars PROVE ControlInv'
<1> SUFFICES ASSUME NEW c \in Clients PROVE ctl'[c] = "none" => dat'[c].state = "none"
    BY DEF ControlInv
<1>1. RelayTypes /\ (ctl[c] = "none" => dat[c].state = "none")
    BY DEF Types, ControlInv
<1>2. NoData.state = "none"
    BY DEF NoData
<1>3. CASE UNCHANGED <<ctl, dat>>
    BY <1>1, <1>3
<1>4. CASE UNCHANGED ctl /\ dat' = CatchingUp(dat)
    BY <1>1, <1>4, ControlKept DEF CatchingUp
<1>5. ASSUME NEW reason, FailCurrentHost(reason) PROVE ctl'[c] = "none" => dat'[c].state = "none"
    BY <1>3, <1>4, <1>5 DEF FailCurrentHost
<1>6. CASE CanonicalEvent
    <2>1. CASE FailCurrentHost("canonical data sequence gap")
        BY <1>5, <2>1
    <2>2. CASE UNCHANGED ctl /\ (dat'[c].state # "none" => dat[c].state # "none")
        BY <1>1, <2>2, ControlKept
    <2> QED BY <1>6, <2>1, <2>2 DEF CanonicalEvent
<1>7. CASE HandleBarrier
    <2>1. CASE BarrierFails
        BY <1>5, <2>1 DEF BarrierFails
    <2>2. CASE \E b : Isolate(b)
        BY <1>1, <2>2, ControlKept
    <2>3. CASE "ready" \in Answers(Head(toRelay).id)
               /\ dat' = [dat EXCEPT ![Head(toRelay).id.c] = PinnedData(dat[Head(toRelay).id.c], Head(toRelay).id)]
               /\ UNCHANGED ctl
        <3>1. ~Gone(Head(toRelay).id.c)
            BY <2>3 DEF Answers
        <3>2. dat'[c].state # "none" => dat[c].state # "none"
            BY <1>1, <2>3, <3>1 DEF Gone, RelayTypes, RelayTypeOK
        <3> QED BY <1>1, <2>3, <3>2, ControlKept
    <2> QED BY <1>3, <1>7, <2>1, <2>2, <2>3 DEF HandleBarrier, BarrierFails, PinDelivery
<1>8. CASE DirectedFrame
    <2>1. CASE \/ FailCurrentHost("directed replay exceeds pinned commit")
               \/ FailCurrentHost("directed replay sequence gap")
        BY <1>5, <2>1
    <2> DEFINE f == Head(toRelay)
    <2>2. CASE UNCHANGED ctl /\ dat' = [dat EXCEPT ![f.c] = Delivered(dat[f.c], f)] /\ dat[f.c].state # "none"
        <3>1. dat'[c].state # "none" => dat[c].state # "none"
            BY <1>1, <2>2 DEF RelayTypes, RelayTypeOK
        <3> QED BY <1>1, <2>2, <3>1, ControlKept
    <2> QED BY <1>3, <1>8, <2>1, <2>2 DEF DirectedFrame
<1>9. CASE FinishReset
    <2>1. PICK r \in resets : ReplaceDelivery(r) \/ UNCHANGED <<gen, ctl, dat>>
        BY <1>9 DEF FinishReset
    <2>2. CASE dat' = [dat EXCEPT ![r.c] = NoData] /\ UNCHANGED ctl
        <3>1. dat'[c].state # "none" => dat[c].state # "none"
            BY <1>1, <1>2, <2>2 DEF RelayTypes, RelayTypeOK
        <3> QED BY <1>1, <2>2, <3>1, ControlKept
    <2> QED BY <1>1, <1>3, <2>1, <2>2, ControlKept DEF ReplaceDelivery
<1>10. CASE Browsers
    <2>1. PICK b \in Clients :
            \/ BrowserConnects(b) \/ BrowserOpensData(b) \/ BrowserAttaches(b)
            \/ BrowserAcknowledges(b) \/ BrowserDataCloses(b) \/ BrowserCloses(b)
        BY <1>10 DEF Browsers
    <2>2. CASE BrowserConnects(b)
        BY <1>1, <1>2, <2>2 DEF BrowserConnects, RelayTypes, RelayTypeOK
    <2>3. CASE BrowserOpensData(b)
        BY <1>1, <1>2, <2>3 DEF BrowserOpensData, RelayTypes, RelayTypeOK
    <2>4. CASE BrowserAttaches(b)
        <3>1. ctl' = [ctl EXCEPT ![b] = "active"] /\ (c # b => dat'[c] = dat[c])
            <4>1. dat \in [Clients -> Data \cup {NoData}]
                BY <1>1 DEF RelayTypes, RelayTypeOK
            <4>2. c # b => dat'[c] = dat[c]
                BY <2>4, <4>1 DEF BrowserAttaches
            <4> QED BY <2>4, <4>2 DEF BrowserAttaches
        <3> QED BY <1>1, <3>1 DEF RelayTypes, RelayTypeOK
    <2>5. CASE BrowserAcknowledges(b)
        <3>1. ctl' = ctl /\ ctl[b] = "active" /\ (c # b => dat'[c] = dat[c])
            BY <2>5 DEF BrowserAcknowledges, RelayTypes, RelayTypeOK
        <3> QED BY <1>1, <3>1
    <2>6. CASE BrowserDataCloses(b) \/ BrowserCloses(b)
        <3>1. CASE dat' = [dat EXCEPT ![b] = NoData] /\ UNCHANGED ctl
            BY <1>1, <1>2, <3>1 DEF RelayTypes, RelayTypeOK
        <3> QED BY <1>1, <2>6, <3>1, ControlKept DEF BrowserDataCloses, BrowserCloses
    <2> QED BY <2>1, <2>2, <2>3, <2>4, <2>5, <2>6
<1>11. CASE HostConnects
    BY <1>4, <1>11 DEF HostConnects, HostPaired
<1>12. CASE UNCHANGED relayVars \/ SnapshotPublished
    BY <1>3, <1>12 DEF relayVars, SnapshotPublished, Publishes
<1>13. CASE HostReady
    BY <1>3, <1>5, <1>13 DEF HostReady
<1>14. CASE HostSocketClosed
    BY <1>5, <1>14 DEF HostSocketClosed
<1>15. ~SendDataAck /\ (UNCHANGED vars => UNCHANGED relayVars)
    BY DEF SendDataAck, vars
<1> QED BY <1>6, <1>7, <1>8, <1>9, <1>10, <1>11, <1>12, <1>13, <1>14, <1>15 DEF Next, Relays

-----------------------------------------------------------------------------
(* ReplayInv *)

LEMMA FeedsSame ==
    ASSUME UNCHANGED <<gen, dat, resets>> PROVE \A k : Feeds(k)' <=> Feeds(k)
<1>1. ASSUME NEW k PROVE Feeds(k)' <=> Feeds(k)
    BY DEF Feeds, ResetBySerial
<1> QED BY <1>1

\* What the three parts are of a next state, with the keys named.
FollowsNext == \A i \in DOMAIN toRelay' : ReplayAt(i)' =>
    \A k : k = Key(toRelay'[i]) /\ Feeds(k)' => Follows(dat'[toRelay'[i].c], toRelay'[i], i)
GoesOnNext == link' = "ready" /\ active'.phase = "pinned" =>
    \A k : k = Key(active') /\ Feeds(k)' =>
        PinnedFor(dat[active.c])' /\ dat'[active'.c].sent + Len(toRelay') = active'.next
StartsNext == link' = "ready" => \A i \in DOMAIN toHost' : ResultAt(i)' /\ toHost'[i].status = "ready" =>
    \A k : k = Key(active') /\ Feeds(k)' => PinnedFor(dat[active.c])' /\ dat'[active'.c].sent = Start'

LEMMA ReplayNext ==
    ASSUME host' = "active" => FollowsNext /\ GoesOnNext /\ StartsNext PROVE ReplayInv'
<1>1. FollowsNext => FramesFollow'
    BY DEF FollowsNext, FramesFollow, Feeds, Key, ResetBySerial, ReplayAt
<1>2. GoesOnNext => ReplayGoesOn'
    BY DEF GoesOnNext, ReplayGoesOn, Feeds, Key, ResetBySerial
<1>3. StartsNext => ReplayStarts'
    BY DEF StartsNext, ReplayStarts, Feeds, Key, ResetBySerial
<1>4. host' = "active" => FramesFollow' /\ ReplayGoesOn' /\ ReplayStarts'
    BY <1>1, <1>2, <1>3
<1> QED BY <1>4 DEF ReplayInv

LEMMA ReplayStays ==
    ASSUME ReplayInv, UNCHANGED <<gen, dat, resets, host, toRelay, toHost, link>>,
           SameRecovery
    PROVE  ReplayInv'
<1>1. \A k : Feeds(k)' <=> Feeds(k)
    BY FeedsSame
<1>2. host = "active" => FollowsNext
    BY <1>1 DEF FollowsNext, FramesFollow, ReplayInv, ReplayAt
<1>3. Key(active') = Key(active) /\ Start' = Start
    BY DEF SameRecovery, Key, Start
<1>4. host = "active" => GoesOnNext
    BY <1>1, <1>3 DEF GoesOnNext, ReplayGoesOn, ReplayInv, SameRecovery, PinnedFor
<1>5. host = "active" => StartsNext
    BY <1>1, <1>3 DEF StartsNext, ReplayStarts, ReplayInv, SameRecovery, PinnedFor, ResultAt
<1> QED BY <1>2, <1>4, <1>5, ReplayNext

\* The frames stay, the answers may be taken, and the recovery goes on or is not one that
\* has sent its barrier.
LEMMA ReplayQuiet ==
    ASSUME HostTypes, WireInv, ReplayInv, UNCHANGED <<gen, dat, resets, host>>,
           HostQuiet \/ (HostActivated /\ active = NoActive)
    PROVE  ReplayInv'
<1>1. \A k : Feeds(k)' <=> Feeds(k)
    BY FeedsSame
<1>2. UNCHANGED toRelay
    BY DEF HostQuiet, HostActivated
<1>3. host = "active" => FollowsNext
    BY <1>1, <1>2 DEF FollowsNext, FramesFollow, ReplayInv, ReplayAt
<1>4. \A i \in DOMAIN toHost' : \E j \in DOMAIN toHost : toHost'[i] = toHost[j]
    <2>1. Takes
        BY DEF HostQuiet, HostActivated, Takes
    <2> QED BY <2>1, TakesAt
<1>5. CASE HostQuiet /\ SameRecovery
    <2>1. Key(active') = Key(active) /\ Start' = Start /\ link' = link
        BY <1>5 DEF SameRecovery, Key, Start, HostQuiet
    <2>2. host = "active" => GoesOnNext
        BY <1>1, <1>2, <1>5, <2>1 DEF GoesOnNext, ReplayGoesOn, ReplayInv, SameRecovery, PinnedFor
    <2>3. host = "active" => StartsNext
        <3>1. SUFFICES ASSUME host = "active", link = "ready", NEW i \in DOMAIN toHost', ResultAt(i)',
                              toHost'[i].status = "ready", Feeds(Key(active))
                       PROVE  PinnedFor(dat[active.c])' /\ dat'[active'.c].sent = Start'
            BY <1>1, <2>1 DEF StartsNext
        <3>2. PICK j \in DOMAIN toHost : toHost'[i] = toHost[j]
            BY <1>4
        <3>3. PinnedFor(dat[active.c]) /\ dat[active.c].sent = Start
            BY <3>1, <3>2 DEF ReplayInv, ReplayStarts, ResultAt
        <3> QED BY <1>5, <2>1, <3>3 DEF PinnedFor, SameRecovery
    <2> QED BY <1>3, <2>2, <2>3, ReplayNext
<1>6. CASE (HostQuiet /\ ~Busy /\ ~Busy') \/ (HostActivated /\ active = NoActive)
    <2>1. link' = "ready" => active'.phase # "pinned"
        BY <1>6 DEF Busy, HostActivated, NoActive
    <2>2. link' = "ready" => link # "down" /\ active.phase # "uncertain"
        BY <1>6 DEF Busy, HostActivated, HostQuiet, NoActive
    <2>3. link' = "ready" => \A i \in DOMAIN toHost : ~ResultAt(i)
        BY <2>2 DEF WireInv, ResultInv
    <2>4. GoesOnNext
        BY <2>1 DEF GoesOnNext
    <2>5. StartsNext
        BY <1>4, <2>3 DEF StartsNext, ResultAt
    <2> QED BY <1>3, <2>4, <2>5, ReplayNext
<1> QED BY <1>5, <1>6 DEF HostQuiet

LEMMA ReplayClosed ==
    ASSUME ReplayInv, UNCHANGED <<gen, dat, resets, host>>, NEW reason, ClosePair(reason)
    PROVE  ReplayInv'
<1>1. \A k : Feeds(k)' <=> Feeds(k)
    BY FeedsSame
<1>2. UNCHANGED toRelay /\ link' = "down"
    BY DEF ClosePair
<1>3. host = "active" => FollowsNext
    BY <1>1, <1>2 DEF FollowsNext, FramesFollow, ReplayInv, ReplayAt
<1>4. GoesOnNext /\ StartsNext
    BY <1>2 DEF GoesOnNext, StartsNext
<1> QED BY <1>3, <1>4, ReplayNext

LEMMA SocketInts ==
    ASSUME RelayTypes, NEW c \in Clients, dat[c].state = "catching"
    PROVE  dat[c] \in Data /\ dat[c].sent \in Int /\ dat[c].pin \in Int
<1>1. dat[c] \in Data
    BY SocketIsData
<1>2. dat[c].sent \in MaybeSeqs /\ dat[c].pin \in MaybeSeqs
    BY <1>1 DEF Data
<1> QED BY <1>1, <1>2, Bounds DEF MaybeSeqs, Seqs, NoSeq

LEMMA ReplayResult ==
    ASSUME HostTypes, RelayTypes, WireInv, ReplayInv, UNCHANGED <<gen, dat, resets, host>>,
           HandleBarrierResult
    PROVE  ReplayInv'
<1>1. \A k : Feeds(k)' <=> Feeds(k)
    BY FeedsSame
<1>2. /\ active.phase = "uncertain" /\ Recovering /\ toRelay = <<>> /\ link = "ready"
      /\ toHost # <<>> /\ Outcome(Head(toHost).status) /\ UNCHANGED <<link, toRelay, sent>>
      /\ \A i \in DOMAIN toHost' : ~ResultAt(i)'
    BY ResultAlone
<1>3. FollowsNext /\ StartsNext
    BY <1>2 DEF FollowsNext, StartsNext
<1>4. CASE active' = NoActive
    <2>1. GoesOnNext
        BY <1>4 DEF GoesOnNext, NoActive
    <2> QED BY <1>3, <2>1, ReplayNext
<1>5. CASE /\ Head(toHost).status = "ready"
           /\ active' = [active EXCEPT !.phase = "pinned",
                           !.next = IF active.mode = "warm" THEN active.base ELSE active.cut]
    <2>1. active'.c = active.c /\ active'.gen = active.gen /\ active'.commit = active.commit
          /\ active'.next = Start
        <3>1. active \in Active
            BY <1>2, ActiveIsRecovery
        <3> QED BY <1>5, <3>1, Updated DEF Start
    <2>2. 1 \in DOMAIN toHost /\ toHost[1] = Head(toHost) /\ ResultAt(1)
        <3>1. toHost \in Seq(HostFrame)
            BY DEF HostTypes, LinkTypeOK
        <3> QED BY <1>2, <3>1, TailAt DEF HandleBarrierResult, Receives, ResultAt
    <2>3. host = "active" => GoesOnNext
        <3>1. SUFFICES ASSUME host = "active", Feeds(Key(active))
                       PROVE  PinnedFor(dat[active.c])' /\ dat'[active'.c].sent + Len(toRelay') = active'.next
            BY <1>1, <2>1 DEF GoesOnNext, Key
        <3>2. PinnedFor(dat[active.c]) /\ dat[active.c].sent = Start
            BY <1>2, <1>5, <2>2, <3>1 DEF ReplayInv, ReplayStarts
        <3>3. dat[active.c].sent \in Int
            <4>1. active.c \in Clients
                BY <1>2, ActiveIsRecovery
            <4> QED BY <3>1, <4>1, SocketInts DEF Feeds, Key
        <3>4. Len(toRelay') = 0
            BY <1>2
        <3>5. dat[active.c].sent + Len(toRelay') = active'.next
            BY <2>1, <3>2, <3>3, <3>4
        <3> QED BY <2>1, <3>2, <3>5 DEF PinnedFor
    <2> QED BY <1>3, <2>3, ReplayNext
<1> QED BY <1>2, <1>4, <1>5 DEF Outcome, Complete, Retry

LEMMA NoAnswers ==
    ASSUME WireInv, link = "ready", active.phase # "uncertain" PROVE \A i \in DOMAIN toHost : ~ResultAt(i)
BY NoResults DEF WireInv

LEMMA ReplaySendsOther ==
    ASSUME HostTypes, HostTypes', WireInv, ReplayInv, UNCHANGED <<gen, dat, resets, host>>,
           HostSendsEvent \/ HostSendsBarrier
    PROVE  ReplayInv'
<1>1. \A k : Feeds(k)' <=> Feeds(k)
    BY FeedsSame
<1>2. PICK f : HostSends(f) /\ f.kind \notin {"directed", "commit"}
    BY DEF HostSendsEvent, HostSendsBarrier
<1>3. /\ DOMAIN toRelay' = 1 .. Len(toRelay) + 1 /\ DOMAIN toRelay = 1 .. Len(toRelay)
      /\ Len(toRelay) \in Nat
      /\ \A i \in DOMAIN toRelay : toRelay'[i] = toRelay[i]
      /\ toRelay'[Len(toRelay) + 1] = f
    BY <1>2, SentAt
<1>4. host = "active" => FollowsNext
    <2>1. SUFFICES ASSUME host = "active", NEW i \in DOMAIN toRelay', ReplayAt(i)', Feeds(Key(toRelay'[i]))
                   PROVE  Follows(dat'[toRelay'[i].c], toRelay'[i], i)
        BY <1>1 DEF FollowsNext
    <2>2. i \in DOMAIN toRelay /\ toRelay'[i] = toRelay[i]
        BY <1>2, <1>3, <2>1 DEF ReplayAt
    <2> QED BY <2>1, <2>2 DEF ReplayInv, FramesFollow, ReplayAt
<1>5. active'.phase # "pinned" /\ link = "ready" /\ UNCHANGED <<link, toHost>>
    <2>1. CASE HostSendsEvent
        BY <2>1 DEF HostSendsEvent, HostSends, Busy
    <2>2. CASE HostSendsBarrier
        <3>1. active \in Active
            BY <2>2, ActiveIsRecovery DEF HostSendsBarrier
        <3> QED BY <2>2, <3>1, Updated DEF HostSendsBarrier, HostSends
    <2> QED BY <2>1, <2>2
<1>6. \A i \in DOMAIN toHost : ~ResultAt(i)
    BY <1>5, NoAnswers DEF HostSendsEvent, HostSendsBarrier, Busy
<1>7. GoesOnNext /\ StartsNext
    BY <1>5, <1>6 DEF GoesOnNext, StartsNext, ResultAt
<1> QED BY <1>4, <1>7, ReplayNext

\* The next frame of a replay follows the ones on the wire.
LEMMA ReplaySends ==
    ASSUME HostTypes, HostTypes', RelayTypes, WireInv, ReplayInv, UNCHANGED <<gen, dat, resets, host>>,
           HostSendsReplay \/ HostSendsCommit
    PROVE  ReplayInv'
<1>1. \A k : Feeds(k)' <=> Feeds(k)
    BY FeedsSame
<1>2. link = "ready" /\ active.phase = "pinned" /\ UNCHANGED <<link, toHost>> /\ active \in Active
    BY ActiveIsRecovery DEF HostSendsReplay, HostSendsCommit, HostSends
<1>3. active.c \in Clients /\ active.next \in Int /\ active.commit \in Int
    <2>1. active.c \in Clients /\ active.next \in MaybeSeqs /\ active.commit \in MaybeSeqs
        BY <1>2 DEF Active
    <2> QED BY <2>1, Bounds DEF MaybeSeqs, Seqs, NoSeq
<1>4. PICK f :
        /\ HostSends(f)
        /\ f.c = active.c /\ f.gen = active.gen
        /\ \/ f.kind = "directed" /\ f.seq = active.next + 1 /\ active.next < active.commit
              /\ active' = [active EXCEPT !.next = active.next + 1]
           \/ f.kind = "commit" /\ f.seq = active.commit /\ active.next = active.commit
              /\ active' = NoActive
    BY DEF HostSendsReplay, HostSendsCommit, Directed
<1>5. /\ DOMAIN toRelay' = 1 .. Len(toRelay) + 1 /\ DOMAIN toRelay = 1 .. Len(toRelay)
      /\ Len(toRelay) \in Nat /\ Len(toRelay') = Len(toRelay) + 1
      /\ \A i \in DOMAIN toRelay : toRelay'[i] = toRelay[i]
      /\ toRelay'[Len(toRelay) + 1] = f
    BY <1>4, SentAt
<1>6. ASSUME host = "active", Feeds(Key(active))
      PROVE  /\ PinnedFor(dat[active.c]) /\ dat[active.c].sent + Len(toRelay) = active.next
             /\ dat[active.c].sent \in Int
    <2>1. dat[active.c].sent \in Int
        BY <1>3, <1>6, SocketInts DEF Feeds, Key
    <2> QED BY <1>2, <1>6, <2>1 DEF ReplayInv, ReplayGoesOn
<1>7. host = "active" => FollowsNext
    <2>1. SUFFICES ASSUME host = "active", NEW i \in DOMAIN toRelay', ReplayAt(i)', Feeds(Key(toRelay'[i]))
                   PROVE  Follows(dat'[toRelay'[i].c], toRelay'[i], i)
        BY <1>1 DEF FollowsNext
    <2>2. CASE i \in DOMAIN toRelay
        BY <1>5, <2>1, <2>2 DEF ReplayInv, FramesFollow, ReplayAt
    <2>3. CASE i \notin DOMAIN toRelay
        <3>1. i = Len(toRelay) + 1 /\ toRelay'[i] = f
            BY <1>5, <2>3
        <3>2. Key(f) = Key(active)
            BY <1>4 DEF Key
        <3>3. PinnedFor(dat[active.c]) /\ dat[active.c].sent + Len(toRelay) = active.next
              /\ dat[active.c].sent \in Int
            BY <1>6, <2>1, <3>1, <3>2
        <3>4. Follows(dat[active.c], f, i)
            BY <1>3, <1>4, <1>5, <3>1, <3>3, SMTT(30) DEF Follows, PinnedFor
        <3> QED BY <1>4, <3>1, <3>4
    <2> QED BY <2>2, <2>3
<1>8. host = "active" => GoesOnNext
    <2>1. CASE active' = NoActive
        BY <2>1 DEF GoesOnNext, NoActive
    <2>2. CASE active' = [active EXCEPT !.next = active.next + 1]
        <3> DEFINE n == active.next + 1
        <3>1. active' = [active EXCEPT !.next = n]
            BY <2>2
        <3> HIDE DEF n
        <3>2. active'.c = active.c /\ active'.gen = active.gen /\ active'.commit = active.commit
              /\ active'.next = n
            BY <1>2, <3>1, Updated
        <3>3. SUFFICES ASSUME host = "active", Feeds(Key(active))
                       PROVE  PinnedFor(dat[active.c])' /\ dat'[active'.c].sent + Len(toRelay') = active'.next
            BY <1>1, <3>2 DEF GoesOnNext, Key
        <3>4. dat[active.c].sent + Len(toRelay') = n
            <4>1. dat[active.c].sent + Len(toRelay) = active.next /\ dat[active.c].sent \in Int
                BY <1>6, <3>3
            <4>2. dat[active.c].sent + Len(toRelay') = active.next + 1
                BY <1>5, <4>1
            <4> QED BY <4>2 DEF n
        <3> QED BY <1>6, <3>2, <3>3, <3>4 DEF PinnedFor
    <2> QED BY <1>4, <2>1, <2>2
<1>9. StartsNext
    <2>1. \A i \in DOMAIN toHost : ~ResultAt(i)
        BY <1>2, NoAnswers
    <2> QED BY <1>2, <2>1 DEF StartsNext, ResultAt
<1> QED BY <1>7, <1>8, <1>9, ReplayNext

LEMMA HostReplay ==
    ASSUME ~DataBatch, Types, Types', StreamInv, PhaseInv, QueueInv, WireInv, ReplayInv,
           HostNext \/ BuildSucceeds, UNCHANGED <<gen, dat, resets, host>>
    PROVE  ReplayInv'
<1>1. HostTypes /\ RelayTypes /\ HostTypes'
    BY DEF Types
<1>2. HostActivated => active = NoActive
    BY DEF HostActivated, QueueInv, Idle
<1> QED BY <1>1, <1>2, HostKinds, ReplayClosed, ReplayQuiet, ReplayResult, ReplaySendsOther, ReplaySends

LEMMA ConnectsReplay == ASSUME HostPaired PROVE ReplayInv'
BY DEF HostPaired, ReplayInv

\* The steps of the relay: a delivery that is being replayed is as it was, if it still is.
Steady(k) ==
    Feeds(k)' => /\ Feeds(k) /\ dat'[k[1]].sent = dat[k[1]].sent
                 /\ dat'[k[1]].mode = dat[k[1]].mode /\ dat'[k[1]].pin = dat[k[1]].pin

LEMMA ReplayFrames ==
    ASSUME RelayTypes, NEW i \in DOMAIN toRelay, ReplayAt(i)
    PROVE  /\ toRelay[i].c \in Clients /\ toRelay[i].gen \in Int /\ toRelay[i].seq \in Int
           /\ Key(toRelay[i]) = <<toRelay[i].c, toRelay[i].gen>>
<1>1. toRelay[i] \in RelayFrame /\ toRelay[i].kind \in {"directed", "commit"}
    BY DEF RelayTypes, LinkTypeOK, ReplayAt
<1>2. toRelay[i].c \in Clients /\ toRelay[i].gen \in Gens /\ toRelay[i].seq \in Seqs
    BY <1>1 DEF RelayFrame
<1> QED BY <1>2, Bounds DEF Key, Gens, Seqs

LEMMA SteadyReplay ==
    ASSUME HostTypes, RelayTypes, WireInv, RequestsInv, ReplayInv, UNCHANGED <<toRelay, link, active, host>>,
           \A c \in Clients, g \in Int : Old(<<c, g>>) => Steady(<<c, g>>),
           \A i \in DOMAIN toHost' : ResultAt(i)' => i \in DOMAIN toHost /\ toHost'[i] = toHost[i]
    PROVE  ReplayInv'
<1>1. host = "active" => FollowsNext
    <2>1. SUFFICES ASSUME host = "active", NEW i \in DOMAIN toRelay, ReplayAt(i), Feeds(Key(toRelay[i]))'
                   PROVE  Follows(dat'[toRelay[i].c], toRelay[i], i)
        BY DEF FollowsNext, ReplayAt, Feeds, ResetBySerial, Key
    <2> DEFINE f == toRelay[i]
    <2>2. f.c \in Clients /\ f.gen \in Int /\ Key(f) = <<f.c, f.gen>>
        BY <2>1, ReplayFrames
    <2>3. Old(<<f.c, f.gen>>)
        BY <2>1, <2>2 DEF RequestsInv
    <2>4. Steady(<<f.c, f.gen>>)
        BY <2>2, <2>3
    <2>5. Feeds(<<f.c, f.gen>>)'
        BY <2>1, <2>2 DEF Feeds, Key, ResetBySerial
    <2>6. /\ Feeds(Key(f)) /\ dat'[f.c].sent = dat[f.c].sent
          /\ dat'[f.c].mode = dat[f.c].mode /\ dat'[f.c].pin = dat[f.c].pin
        BY <2>2, <2>4, <2>5 DEF Steady
    <2>7. Follows(dat[f.c], f, i)
        BY <2>1, <2>6 DEF ReplayInv, FramesFollow
    <2> QED BY <2>6, <2>7 DEF Follows
<1>2. ASSUME host = "active", link = "ready", Recovering, NEW k, k = Key(active), Feeds(k)'
      PROVE  /\ Feeds(Key(active)) /\ dat'[active.c].sent = dat[active.c].sent
             /\ dat'[active.c].mode = dat[active.c].mode /\ dat'[active.c].pin = dat[active.c].pin
    <2>1. active.c \in Clients /\ active.gen \in Int /\ k = <<active.c, active.gen>>
        BY <1>2, ActiveIsRecovery DEF Gens, Key
    <2>2. Old(<<active.c, active.gen>>)
        BY <1>2, <2>1 DEF RequestsInv
    <2> QED BY <1>2, <2>1, <2>2 DEF Steady
<1>3. host = "active" => GoesOnNext
    <2>1. active.phase = "pinned" => Recovering
        BY ActiveIsRecovery
    <2>2. SUFFICES ASSUME host = "active", link = "ready", active.phase = "pinned", NEW k, k = Key(active), Feeds(k)'
                   PROVE  PinnedFor(dat[active.c])' /\ dat'[active.c].sent + Len(toRelay) = active.next
        BY DEF GoesOnNext
    <2>3. /\ Feeds(Key(active)) /\ dat'[active.c].sent = dat[active.c].sent
          /\ dat'[active.c].mode = dat[active.c].mode /\ dat'[active.c].pin = dat[active.c].pin
        BY <1>2, <2>1, <2>2
    <2> QED BY <2>2, <2>3 DEF ReplayInv, ReplayGoesOn, PinnedFor
<1>4. host = "active" => StartsNext
    <2>1. SUFFICES ASSUME host = "active", link = "ready", NEW i \in DOMAIN toHost', ResultAt(i)',
                          toHost'[i].status = "ready", NEW k, k = Key(active), Feeds(k)'
                   PROVE  PinnedFor(dat[active.c])' /\ dat'[active.c].sent = Start
        BY DEF StartsNext, Start
    <2>2. i \in DOMAIN toHost /\ ResultAt(i) /\ toHost[i].status = "ready"
        BY <2>1 DEF ResultAt
    <2>3. Recovering
        <3>1. active.phase = "uncertain"
            BY <2>1, <2>2 DEF WireInv, ResultInv
        <3> QED BY <3>1, ActiveIsRecovery
    <2>4. /\ Feeds(Key(active)) /\ dat'[active.c].sent = dat[active.c].sent
          /\ dat'[active.c].mode = dat[active.c].mode /\ dat'[active.c].pin = dat[active.c].pin
        BY <1>2, <2>1, <2>3
    <2> QED BY <2>1, <2>2, <2>4 DEF ReplayInv, ReplayStarts, PinnedFor
<1> QED BY <1>1, <1>3, <1>4, ReplayNext

LEMMA ResetSteady ==
    ASSUME RelayTypes, DataInv, FinishReset, NEW c \in Clients, NEW g \in Int PROVE Steady(<<c, g>>)
<1>1. PICK r \in resets :
        /\ resets' = resets \ {r}
        /\ \/ gen[r.c] = r.gen /\ ctl[r.c] = "active" /\ ReplaceDelivery(r)
           \/ ~(gen[r.c] = r.gen /\ ctl[r.c] = "active") /\ UNCHANGED <<gen, ctl, dat>>
    BY DEF FinishReset
<1>2. r.c \in Clients /\ NoData.state = "none"
    BY DEF RelayTypes, RelayTypeOK, Reset, NoData
<1>3. CASE r.c = c /\ ReplaceDelivery(r)
    <2>1. dat'[c] = NoData
        BY <1>2, <1>3 DEF ReplaceDelivery, Isolate, RelayTypes, RelayTypeOK
    <2> QED BY <1>2, <2>1 DEF Steady, Feeds
<1>4. CASE ~(r.c = c /\ ReplaceDelivery(r))
    <2>1. dat'[c] = dat[c] /\ gen'[c] = gen[c]
        BY <1>1, <1>2, <1>4 DEF ReplaceDelivery, Isolate, RelayTypes, RelayTypeOK
    <2>2. dat[c].state = "catching" => ~(r.c = c /\ r.gen = gen[c])
        BY <1>1, <1>4 DEF DataInv, DataOf
    <2>3. dat[c].state = "catching" /\ ResetBySerial(c) => ResetBySerial(c)'
        BY <1>1, <2>1, <2>2 DEF ResetBySerial
    <2>4. Feeds(<<c, g>>)' => Feeds(<<c, g>>)
        BY <2>1, <2>3 DEF Feeds
    <2> QED BY <2>1, <2>4 DEF Steady
<1> QED BY <1>3, <1>4

LEMMA BrowserSteady ==
    ASSUME RelayTypes, Browsers, NEW c \in Clients, NEW g \in Int, Old(<<c, g>>) PROVE Steady(<<c, g>>)
<1>1. PICK b \in Clients :
        \/ BrowserConnects(b) \/ BrowserOpensData(b) \/ BrowserAttaches(b)
        \/ BrowserAcknowledges(b) \/ BrowserDataCloses(b) \/ BrowserCloses(b)
    BY Zenon DEF Browsers
<1>2. resets \subseteq resets' /\ NoData.state = "none"
    BY <1>1
    DEF BrowserConnects, BrowserOpensData, BrowserAttaches, BrowserAcknowledges,
        BrowserDataCloses, BrowserCloses, NoData
<1>3. /\ dat \in [Clients -> Data \cup {NoData}]
      /\ ctl \in [Clients -> {"none", "awaiting", "active"}]
      /\ gen \in [Clients -> 0 .. MaxGen]
    BY DEF RelayTypes, RelayTypeOK
<1>4. CASE /\ gen'[c] = gen[c] /\ dat'[c].sent = dat[c].sent /\ dat'[c].mode = dat[c].mode
           /\ dat'[c].pin = dat[c].pin /\ dat'[c].state = dat[c].state
    <2>1. ResetBySerial(c) => ResetBySerial(c)'
        BY <1>2, <1>4 DEF ResetBySerial
    <2> QED BY <1>4, <2>1 DEF Steady, Feeds
<1>5. CASE dat'[c].state # "catching"
    BY <1>5 DEF Steady, Feeds
<1>6. CASE b # c
    <2>1. dat'[c] = dat[c] /\ gen'[c] = gen[c]
        BY <1>1, <1>3, <1>6
        DEF BrowserConnects, BrowserOpensData, BrowserAttaches, BrowserAcknowledges,
            BrowserDataCloses, BrowserCloses, Isolate
    <2> QED BY <1>4, <2>1
<1>7. CASE b = c
    <2>1. CASE BrowserConnects(c) \/ BrowserDataCloses(c) \/ BrowserCloses(c)
        <3>1. dat'[c] = NoData
            BY <1>3, <2>1 DEF BrowserConnects, BrowserDataCloses, BrowserCloses, Isolate
        <3> QED BY <1>2, <1>5, <3>1
    <2>2. CASE BrowserOpensData(c) \/ BrowserAttaches(c)
        <3>1. gen' = gen /\ ~Attached(c)
            <4>1. CASE BrowserOpensData(c)
                BY <4>1 DEF BrowserOpensData, Attached, DataClosing, NoData
            <4>2. CASE BrowserAttaches(c)
                BY <4>2 DEF BrowserAttaches, Attached, NoData
            <4> QED BY <2>2, <4>1, <4>2
        <3>2. g # gen[c]
            BY <3>1 DEF Old
        <3> QED BY <3>1, <3>2 DEF Steady, Feeds
    <2>3. CASE BrowserAcknowledges(c)
        <3>1. PICK seq : dat' = [dat EXCEPT ![c].acked = seq]
            BY <2>3 DEF BrowserAcknowledges
        <3>2. gen' = gen
            BY <2>3 DEF BrowserAcknowledges
        <3>3. CASE dat[c] \in Data
            BY <1>3, <1>4, <3>1, <3>2, <3>3 DEF Data
        <3>4. CASE dat[c] = NoData
            BY <2>3, <3>4 DEF BrowserAcknowledges, NoData
        <3> QED BY <1>3, <3>3, <3>4
    <2> QED BY <1>1, <1>7, <2>1, <2>2, <2>3
<1> QED BY <1>6, <1>7

\* The other side has no replay in flight when an event or a barrier is handled.
LEMMA EventAlone ==
    ASSUME HostTypes, RelayTypes, WireInv, toRelay # <<>>, Head(toRelay).kind \notin {"directed", "commit"}
    PROVE  /\ \A i \in DOMAIN toRelay : ~ReplayAt(i)
           /\ link = "ready" => active.phase # "pinned"
           /\ link # "down" => \A i \in DOMAIN toHost : ~ResultAt(i)
<1>1. 1 \in DOMAIN toRelay /\ toRelay[1] = Head(toRelay) /\ DOMAIN toRelay = 1 .. Len(toRelay)
      /\ Len(toRelay) \in Nat
    <2>1. toRelay \in Seq(RelayFrame)
        BY DEF RelayTypes, LinkTypeOK
    <2> QED BY <2>1, TailAt
<1>2. ASSUME NEW j \in DOMAIN toRelay, ReplayAt(j) PROVE FALSE
    <2>1. j # 1
        BY <1>1, <1>2 DEF ReplayAt
    <2>2. 1 \in 1 .. j - 1
        BY <1>1, <2>1
    <2>3. DirectedAt(1, Key(toRelay[j]))
        BY <1>2, <2>2 DEF WireInv, RunInv
    <2> QED BY <1>1, <2>3 DEF DirectedAt
<1>3. link = "ready" => active.phase # "pinned"
    BY <1>1 DEF WireInv, RunInv, DirectedAt
<1>4. link # "down" => \A i \in DOMAIN toHost : ~ResultAt(i)
    BY DEF WireInv, ResultInv
<1> QED BY <1>2, <1>3, <1>4

LEMMA TakenKinds ==
    ASSUME RelayTypes, toRelay # <<>>, toRelay' = Tail(toRelay),
           \A i \in DOMAIN toRelay : ~ReplayAt(i)
    PROVE  \A i \in DOMAIN toRelay' : ~ReplayAt(i)'
<1>1. toRelay \in Seq(RelayFrame)
    BY DEF RelayTypes, LinkTypeOK
<1> QED BY <1>1, TailAt DEF ReplayAt

LEMMA NothingReplayed ==
    ASSUME \A i \in DOMAIN toRelay' : ~ReplayAt(i)', link' = "ready" => active'.phase # "pinned",
           link' = "ready" => \A i \in DOMAIN toHost' : ResultAt(i)' => toHost'[i].status # "ready"
    PROVE  ReplayInv'
<1>1. FollowsNext /\ GoesOnNext /\ StartsNext
    BY DEF FollowsNext, GoesOnNext, StartsNext
<1> QED BY <1>1, ReplayNext

LEMMA FailedReplay == ASSUME NEW reason, FailCurrentHost(reason) PROVE ReplayInv'
BY DEF FailCurrentHost, ReplayInv

LEMMA EventReplay ==
    ASSUME HostTypes, RelayTypes, WireInv, CanonicalEvent, UNCHANGED hostVars PROVE ReplayInv'
<1>1. CASE FailCurrentHost("canonical data sequence gap")
    BY <1>1, FailedReplay
<1>2. CASE ~FailCurrentHost("canonical data sequence gap")
    <2>1. toRelay # <<>> /\ Head(toRelay).kind = "event" /\ toRelay' = Tail(toRelay) /\ toHost' = toHost
        BY <1>2 DEF CanonicalEvent, Processes
    <2>2. /\ \A i \in DOMAIN toRelay : ~ReplayAt(i)
          /\ link = "ready" => active.phase # "pinned"
          /\ link # "down" => \A i \in DOMAIN toHost : ~ResultAt(i)
        BY <2>1, EventAlone
    <2>3. \A i \in DOMAIN toRelay' : ~ReplayAt(i)'
        BY <2>1, <2>2, TakenKinds
    <2> QED BY <2>1, <2>2, <2>3, NothingReplayed DEF hostVars, ResultAt
<1> QED BY <1>1, <1>2

LEMMA HostReadyReplay ==
    ASSUME Types, StreamInv, HostReady, UNCHANGED hostVars PROVE ReplayInv'
<1>1. CASE FailCurrentHost("host state does not match session")
    BY <1>1, FailedReplay
<1>2. CASE ~FailCurrentHost("host state does not match session")
    <2>1. host = "paired" /\ toRelay' = Tail(toRelay)
        BY <1>2 DEF HostReady, Processes
    <2>2. toRelay' = <<>> /\ link' # "ready"
        <3>1. \A f : Tail(<<f>>) = <<>>
            OBVIOUS
        <3>2. toRelay = <<[kind |-> "host-ready", seq |-> sent]>> /\ link # "ready"
            BY <2>1 DEF StreamInv
        <3> QED BY <2>1, <3>1, <3>2 DEF hostVars
    <2> QED BY <2>2, NothingReplayed
<1> QED BY <1>1, <1>2

LEMMA BarrierAnswers ==
    ASSUME RelayTypes, HandleBarrier, ~BarrierFails
    PROVE  LET id == Head(toRelay).id
           IN  /\ toRelay' = Tail(toRelay) /\ UNCHANGED <<host, readying, doHead, gen, resets, blame>>
               /\ \/ Pins(id.c)
                  \/ \E status :
                        LET f == [kind |-> "result", id |-> id, status |-> status]
                        IN  /\ status # "ready" /\ f \in HostFrame /\ toHost' = Append(toHost, f)
                            /\ UNCHANGED dat \/ Isolate(id.c)
<1> DEFINE id == Head(toRelay).id
<1>1. Processes("barrier") /\ host = "active" /\ toRelay # <<>> /\ Head(toRelay).kind = "barrier"
    BY DEF HandleBarrier, Processes
<1>2. /\ toRelay' = Tail(toRelay) /\ UNCHANGED <<host, readying, doHead, gen, resets, blame>>
      /\ \E status \in Answers(id) : IF status = "ready" THEN PinDelivery(id)
                                     ELSE BarrierResult(id, status) /\ UNCHANGED <<ctl, dat>>
    BY DEF HandleBarrier, BarrierFails
<1>3. \A status \in {"stale", "missing-live-seed", "snapshot-missing", "browser-control-send-failed"} :
          /\ status # "ready"
          /\ [kind |-> "result", id |-> id, status |-> status] \in HostFrame
    <2>1. id \in Identity
        BY BarrierIsFrame
    <2> QED BY <2>1 DEF HostFrame
<1>4. ASSUME NEW status \in {"stale", "missing-live-seed", "snapshot-missing", "browser-control-send-failed"},
             BarrierResult(id, status), UNCHANGED dat \/ Isolate(id.c)
      PROVE  \E s : LET f == [kind |-> "result", id |-> id, status |-> s]
                    IN  /\ s # "ready" /\ f \in HostFrame /\ toHost' = Append(toHost, f)
                        /\ UNCHANGED dat \/ Isolate(id.c)
    BY <1>1, <1>3, <1>4 DEF BarrierResult, ToHost
<1>5. CASE \E status \in Answers(id) :
               status # "ready" /\ BarrierResult(id, status) /\ UNCHANGED dat
    BY <1>2, <1>4, <1>5 DEF Answers
<1>6. CASE "ready" \in Answers(id) /\ PinDelivery(id)
    <2>1. CASE BarrierResult(id, "browser-control-send-failed") /\ Isolate(id.c)
        BY <1>2, <1>4, <2>1
    <2>2. CASE /\ dat' = [dat EXCEPT ![id.c] = PinnedData(dat[id.c], id)]
               /\ BarrierResult(id, "ready") /\ UNCHANGED ctl
        <3>1. /\ id.gen = gen[id.c] /\ ~Gone(id.c)
              /\ id.mode = "warm" => dat[id.c].first # NoSeq
            BY <1>6 DEF Answers
        <3>2. id.commit = doHead /\ dat[id.c].state = "catching" /\ Unadvanced(dat[id.c])
            BY <3>1 DEF HandleBarrier, BarrierFails
        <3> QED BY <1>1, <1>2, <2>2, <3>1, <3>2 DEF Pins, Gone, BarrierResult, ToHost
    <2> QED BY <1>6, <2>1, <2>2 DEF PinDelivery
<1> QED BY <1>2, <1>5, <1>6

LEMMA BarrierReplay ==
    ASSUME HostTypes, RelayTypes, WireInv, RequestsInv, CutInv, HandleBarrier, UNCHANGED hostVars
    PROVE  ReplayInv'
<1> DEFINE id == Head(toRelay).id
<1>1. CASE BarrierFails
    BY <1>1, FailedReplay DEF BarrierFails
<1>2. CASE ~BarrierFails
    <2>1. toRelay # <<>> /\ Head(toRelay).kind = "barrier" /\ id.c \in Clients
        BY BarrierIsFrame DEF HandleBarrier, Processes
    <2>2. /\ Tail(toRelay) = <<>>
          /\ link # "down" =>
                /\ link = "ready" /\ active.phase = "uncertain" /\ Recovering
                /\ id = ActiveIdentity
                /\ \A i \in DOMAIN toHost : ~ResultAt(i)
        BY <2>1, BarrierAlone
    <2>3. toRelay' = <<>> /\ UNCHANGED <<link, active>>
        BY <1>2, <2>2, BarrierAnswers DEF hostVars
    <2>4. FollowsNext /\ GoesOnNext
        BY <2>2, <2>3 DEF FollowsNext, GoesOnNext
    <2>5. CASE Pins(id.c)
        <3>1. SUFFICES ASSUME link = "ready"
                       PROVE  PinnedFor(dat[active.c])' /\ dat'[active.c].sent = Start
            BY <2>3, <2>4, ReplayNext DEF StartsNext, Start
        <3>2. /\ active.c = id.c /\ id.gen = active.gen /\ id.mode = active.mode /\ id.cut = active.cut
              /\ id.commit = active.commit /\ active \in Active /\ active.phase = "uncertain"
            BY <2>2, <3>1, ActiveIsRecovery, SMTT(30) DEF ActiveIdentity
        <3> DEFINE c == active.c
                   d == dat[c]
        <3>3. /\ dat'[c] = PinnedData(d, id) /\ d \in Data /\ d.state = "catching"
              /\ Unadvanced(d) /\ id.gen = gen[c] /\ c \in Clients
              /\ id.mode = "warm" => d.first # NoSeq
            BY <2>1, <2>5, <3>2, PinsKeep DEF Pins
        <3>4. CASE active.mode = "warm"
            <4>1. dat'[c] = [d EXCEPT !.mode = "warm", !.pin = id.commit]
                BY <3>2, <3>3, <3>4, Zenon DEF PinnedData
            <4>2. dat'[c].mode = "warm" /\ dat'[c].pin = active.commit /\ dat'[c].sent = d.sent
                BY <3>2, <3>3, <4>1 DEF Data
            <4>3. d.sent = d.first /\ d.first # NoSeq
                BY <3>2, <3>3, <3>4 DEF Unadvanced
            <4>4. d.first = active.base
                <5>1. ~Served
                    BY <2>2, <3>1, <3>2 DEF Served
                <5>2. ActiveRequest \in Request /\ Wanted(ActiveRequest)
                    BY <2>2, <3>1, <5>1, ActiveIsRecovery, QueuedIsWanted
                <5>3. From(ActiveRequest)
                    BY <3>1, <5>2 DEF RequestsInv, Waiting
                <5> QED BY <3>2, <3>3, <5>3 DEF From, ActiveRequest
            <4> QED BY <2>3, <3>4, <4>2, <4>3, <4>4 DEF PinnedFor, Start
        <3>5. CASE active.mode = "snapshot"
            <4>1. dat'[c] = [d EXCEPT !.mode = "snapshot", !.pin = id.commit, !.cut = id.cut,
                                      !.first = id.cut, !.acked = id.cut, !.sent = id.cut]
                BY <3>2, <3>3, <3>5 DEF PinnedData
            <4>2. dat'[c].mode = "snapshot" /\ dat'[c].pin = active.commit /\ dat'[c].sent = active.cut
                BY <3>2, <3>3, <4>1 DEF Data
            <4>3. active.cut # NoSeq
                <5>1. active.cut \in Seqs
                    BY <3>5 DEF CutInv
                <5> QED BY <5>1, Bounds DEF Seqs, NoSeq
            <4> QED BY <2>3, <3>5, <4>2, <4>3 DEF PinnedFor, Start
        <3>6. active.mode \in {"warm", "snapshot"}
            BY <3>2 DEF Active
        <3> QED BY <3>4, <3>5, <3>6
    <2>6. CASE ~Pins(id.c)
        <3>1. PICK f \in HostFrame : f.kind = "result" /\ f.status # "ready" /\ toHost' = Append(toHost, f)
            BY <1>2, <2>6, BarrierAnswers
        <3>2. \A i \in DOMAIN toHost' : (i \in DOMAIN toHost /\ toHost'[i] = toHost[i]) \/ toHost'[i] = f
            <4>1. toHost \in Seq(HostFrame)
                BY DEF RelayTypes, LinkTypeOK
            <4>2. toHost' = toHost \o <<f>>
                BY <3>1, <4>1
            <4>3. \A i \in DOMAIN toHost' : i \in DOMAIN toHost \/ i = Len(toHost) + 1
                BY <4>1, <4>2, LastAt
            <4> QED BY <4>1, <4>2, <4>3, LastAt
        <3>3. link' = "ready" => \A i \in DOMAIN toHost' : ResultAt(i)' => toHost'[i].status # "ready"
            BY <2>2, <2>3, <3>1, <3>2 DEF ResultAt
        <3>4. StartsNext
            BY <3>3 DEF StartsNext
        <3> QED BY <2>4, <3>4, ReplayNext
    <2> QED BY <2>5, <2>6
<1> QED BY <1>1, <1>2

\* What becomes of a frame of a replay: it fails the pair, it is delivered, or its delivery
\* is not one that is being replayed.
Delivers(f) ==
    /\ f.gen = gen[f.c] /\ dat[f.c].state = "catching"
    /\ WithinPin(dat[f.c], f) /\ ContinuesReplay(dat[f.c], f)
    /\ dat' = [dat EXCEPT ![f.c] = Delivered(dat[f.c], f)]
    /\ UNCHANGED resets

LEMMA DirectedOutcomes ==
    ASSUME RelayTypes, DirectedFrame
    PROVE  \/ \E reason : FailCurrentHost(reason)
           \/ /\ toRelay' = Tail(toRelay) /\ UNCHANGED <<host, readying, doHead, gen, ctl, toHost, blame>>
              /\ \/ Delivers(Head(toRelay))
                 \/ /\ UNCHANGED dat /\ resets \subseteq resets'
                    /\ \A k : k = Key(Head(toRelay)) => ~Feeds(k)'
<1> DEFINE f == Head(toRelay)
           d == dat[f.c]
           ignored == f.gen # gen[f.c] \/ d.state \in {"none", "synced"}
<1>1. CASE ~ \E reason : FailCurrentHost(reason)
    <2>1. /\ toRelay' = Tail(toRelay) /\ UNCHANGED <<host, readying, doHead, gen, ctl, toHost, blame>>
          /\ ignored \/ (WithinPin(d, f) /\ ContinuesReplay(d, f))
          /\ \/ ignored /\ UNCHANGED <<dat, resets>>
             \/ /\ ~ignored /\ UNCHANGED dat
                /\ \/ resets' = resets \cup {[c |-> f.c, gen |-> f.gen, why |-> "slow-client"]}
                   \/ resets' = resets \cup {[c |-> f.c, gen |-> f.gen, why |-> "data-disconnected"]}
             \/ ~ignored /\ dat' = [dat EXCEPT ![f.c] = Delivered(d, f)] /\ UNCHANGED resets
        BY <1>1 DEF DirectedFrame
    <2>2. CASE ignored /\ UNCHANGED <<dat, resets>>
        <3>1. ASSUME NEW k, k = Key(f), Feeds(k)' PROVE FALSE
            BY <2>1, <2>2, <3>1 DEF Feeds, Key
        <3> QED BY <2>1, <2>2, <3>1
    <2>3. CASE /\ ~ignored /\ UNCHANGED dat
               /\ \/ resets' = resets \cup {[c |-> f.c, gen |-> f.gen, why |-> "slow-client"]}
                  \/ resets' = resets \cup {[c |-> f.c, gen |-> f.gen, why |-> "data-disconnected"]}
        <3>1. PICK why \in {"slow-client", "data-disconnected"} :
                  resets' = resets \cup {[c |-> f.c, gen |-> f.gen, why |-> why]}
            BY <2>3, Zenon
        <3> DEFINE r == [c |-> f.c, gen |-> f.gen, why |-> why]
        <3>2. r.c = f.c /\ r.gen = gen'[f.c] /\ r.why # "data-closed" /\ r \in resets'
            BY <2>1, <2>3, <3>1
        <3> HIDE DEF r
        <3>3. ASSUME NEW k, k = Key(f), Feeds(k)' PROVE FALSE
            BY <2>1, <3>2, <3>3 DEF Feeds, Key, ResetBySerial
        <3> QED BY <2>1, <2>3, <3>1, <3>3
    <2>4. CASE ~ignored /\ dat' = [dat EXCEPT ![f.c] = Delivered(d, f)] /\ UNCHANGED resets
        <3>1. WithinPin(d, f) /\ ContinuesReplay(d, f) /\ d.state = "catching"
            BY <2>1, <2>4 DEF ContinuesReplay
        <3> QED BY <2>1, <2>4, <3>1 DEF Delivers
    <2> QED BY <2>1, <2>2, <2>3, <2>4
<1> QED BY <1>1

\* What follows a replay's frame on the wire is of the same replay.
LEMMA RunAlone ==
    ASSUME RelayTypes, WireInv, toRelay # <<>>, Head(toRelay).kind \in {"directed", "commit"},
           toRelay' = Tail(toRelay)
    PROVE  /\ \A j \in DOMAIN toRelay' : ReplayAt(j)' =>
                  /\ j + 1 \in DOMAIN toRelay /\ toRelay'[j] = toRelay[j + 1] /\ ReplayAt(j + 1) /\ j \in Nat
                  /\ Head(toRelay).kind = "directed" /\ Key(toRelay'[j]) = Key(Head(toRelay))
           /\ link = "ready" /\ active.phase = "pinned" =>
                  Head(toRelay).kind = "directed" /\ Key(Head(toRelay)) = Key(active)
           /\ link # "down" => \A i \in DOMAIN toHost : ~ResultAt(i)
<1>1. /\ 1 \in DOMAIN toRelay /\ toRelay[1] = Head(toRelay) /\ DOMAIN toRelay = 1 .. Len(toRelay)
      /\ Len(toRelay) \in Nat \ {0} /\ DOMAIN toRelay' = 1 .. Len(toRelay) - 1
      /\ \A i \in DOMAIN toRelay' : i + 1 \in DOMAIN toRelay /\ toRelay'[i] = toRelay[i + 1]
    <2>1. toRelay \in Seq(RelayFrame)
        BY DEF RelayTypes, LinkTypeOK
    <2> QED BY <2>1, TailAt
<1>2. ASSUME NEW j \in DOMAIN toRelay', ReplayAt(j)'
      PROVE  /\ ReplayAt(j + 1) /\ Head(toRelay).kind = "directed"
             /\ Key(toRelay'[j]) = Key(Head(toRelay))
    <2>1. ReplayAt(j + 1) /\ j + 1 \in DOMAIN toRelay /\ toRelay'[j] = toRelay[j + 1]
        BY <1>1, <1>2 DEF ReplayAt
    <2>2. 1 \in 1 .. (j + 1) - 1
        BY <1>1
    <2>3. DirectedAt(1, Key(toRelay[j + 1]))
        BY <2>1, <2>2 DEF WireInv, RunInv
    <2> QED BY <1>1, <2>1, <2>3 DEF DirectedAt
<1>3. link = "ready" /\ active.phase = "pinned" => DirectedAt(1, Key(active))
    BY <1>1 DEF WireInv, RunInv
<1>4. link # "down" => \A i \in DOMAIN toHost : ~ResultAt(i)
    BY DEF WireInv, ResultInv
<1> QED BY <1>1, <1>2, <1>3, <1>4 DEF DirectedAt

LEMMA DirectedReplay ==
    ASSUME HostTypes, RelayTypes, WireInv, ReplayInv, DirectedFrame, UNCHANGED hostVars PROVE ReplayInv'
<1> DEFINE f == Head(toRelay)
           d == dat[f.c]
<1>1. CASE \E reason : FailCurrentHost(reason)
    BY <1>1, FailedReplay
<1>2. ASSUME toRelay' = Tail(toRelay), UNCHANGED <<host, gen, toHost>>,
             Delivers(f) \/ \A k : k = Key(f) => ~Feeds(k)'
      PROVE  ReplayInv'
    <2>1. /\ toRelay # <<>> /\ host = "active" /\ UNCHANGED <<link, active>>
          /\ f.kind \in {"directed", "commit"} /\ f.c \in Clients /\ f.seq \in Int
        <3>1. f.kind \in {"directed", "commit"} /\ f.c \in Clients /\ f.seq \in Seqs
            BY DirectedIsFrame
        <3>2. toRelay # <<>> /\ host = "active"
            BY DEF DirectedFrame, Processes
        <3>3. f.seq \in Int
            BY <3>1, Bounds DEF Seqs
        <3> QED BY <3>1, <3>2, <3>3 DEF hostVars
    <2>2. /\ \A j \in DOMAIN toRelay' : ReplayAt(j)' =>
                  /\ j + 1 \in DOMAIN toRelay /\ toRelay'[j] = toRelay[j + 1] /\ ReplayAt(j + 1) /\ j \in Nat
                  /\ f.kind = "directed" /\ Key(toRelay'[j]) = Key(f)
          /\ link = "ready" /\ active.phase = "pinned" => f.kind = "directed" /\ Key(f) = Key(active)
          /\ link # "down" => \A i \in DOMAIN toHost : ~ResultAt(i)
        BY <1>2, <2>1, RunAlone
    <2>3. StartsNext
        BY <1>2, <2>1, <2>2 DEF StartsNext, ResultAt
    <2>4. CASE \A k : k = Key(f) => ~Feeds(k)'
        <3>1. FollowsNext
            BY <2>2, <2>4 DEF FollowsNext
        <3>2. GoesOnNext
            BY <2>1, <2>2, <2>4 DEF GoesOnNext
        <3> QED BY <2>3, <3>1, <3>2, ReplayNext
    <2>5. CASE Delivers(f) /\ f.kind = "commit"
        <3>1. FollowsNext /\ GoesOnNext
            BY <2>1, <2>2, <2>5 DEF FollowsNext, GoesOnNext
        <3> QED BY <2>3, <3>1, ReplayNext
    <2>6. CASE Delivers(f) /\ f.kind = "directed"
        <3>1. d \in Data /\ d.sent \in Int /\ d.pin \in Int
            BY <2>1, <2>6, SocketInts DEF Delivers
        <3>2. /\ dat'[f.c].sent = d.sent + 1 /\ dat'[f.c].mode = d.mode /\ dat'[f.c].pin = d.pin
            <4>1. dat'[f.c] = [d EXCEPT !.sent = f.seq] /\ f.seq = d.sent + 1
                BY <2>1, <2>6 DEF Delivers, Delivered, ContinuesReplay, RelayTypes, RelayTypeOK
            <4> QED BY <3>1, <4>1 DEF Data
        <3>3. \A k : k = Key(f) /\ Feeds(k)' => Feeds(k) /\ d.sent + 1 # NoSeq
            <4>1. ASSUME NEW k, k = Key(f), Feeds(k)' PROVE Feeds(k)
                BY <1>2, <2>6, <4>1 DEF Feeds, Delivers, Key, ResetBySerial
            <4>2. d.sent + 1 # NoSeq
                <5>1. d.sent # NoSeq /\ d.sent \in MaybeSeqs
                    BY <2>6, <3>1 DEF Delivers, ContinuesReplay, Data
                <5> QED BY <5>1, Bounds DEF MaybeSeqs, Seqs, NoSeq
            <4> QED BY <4>1, <4>2
        <3>4. FollowsNext
            <4>1. SUFFICES ASSUME NEW j \in DOMAIN toRelay', ReplayAt(j)', NEW k, k = Key(toRelay'[j]), Feeds(k)'
                           PROVE  Follows(dat'[toRelay'[j].c], toRelay'[j], j)
                BY DEF FollowsNext
            <4>2. /\ j + 1 \in DOMAIN toRelay /\ toRelay'[j] = toRelay[j + 1] /\ ReplayAt(j + 1) /\ j \in Nat
                  /\ Key(toRelay[j + 1]) = Key(f)
                BY <2>2, <4>1
            <4>3. Feeds(Key(toRelay[j + 1])) /\ toRelay[j + 1].c = f.c /\ d.sent + 1 # NoSeq
                BY <3>3, <4>1, <4>2 DEF Key
            <4>4. Follows(d, toRelay[j + 1], j + 1)
                BY <2>1, <4>2, <4>3 DEF ReplayInv, FramesFollow
            <4>5. Follows(dat'[f.c], toRelay[j + 1], j)
                BY <3>1, <3>2, <4>2, <4>3, <4>4 DEF Follows
            <4> QED BY <4>2, <4>3, <4>5
        <3>5. GoesOnNext
            <4>1. SUFFICES ASSUME link = "ready", active.phase = "pinned", NEW k, k = Key(active), Feeds(k)'
                           PROVE  PinnedFor(dat[active.c])' /\ dat'[active.c].sent + Len(toRelay') = active.next
                BY <2>1 DEF GoesOnNext
            <4>2. Key(f) = Key(active) /\ active.c = f.c
                BY <2>2, <4>1 DEF Key
            <4>3. Feeds(Key(active)) /\ d.sent + 1 # NoSeq
                BY <3>3, <4>1, <4>2
            <4>4. PinnedFor(d) /\ d.sent + Len(toRelay) = active.next
                BY <2>1, <4>1, <4>2, <4>3 DEF ReplayInv, ReplayGoesOn
            <4>5. Len(toRelay') = Len(toRelay) - 1 /\ Len(toRelay) \in Nat
                <5>1. toRelay \in Seq(RelayFrame)
                    BY DEF RelayTypes, LinkTypeOK
                <5> QED BY <1>2, <2>1, <5>1, TailAt
            <4>6. (d.sent + 1) + Len(toRelay') = active.next
                BY <3>1, <4>4, <4>5
            <4> QED BY <2>1, <3>2, <4>2, <4>3, <4>4, <4>6 DEF PinnedFor
        <3> QED BY <2>3, <3>4, <3>5, ReplayNext
    <2> QED BY <1>2, <2>1, <2>4, <2>5, <2>6
<1> QED BY <1>1, <1>2, DirectedOutcomes

\* Resets and browsers only take deliveries away.
LEMMA RestReplay ==
    ASSUME ~DataBatch, Types, DataInv, WireInv, RequestsInv, ReplayInv, FinishReset \/ Browsers, UNCHANGED hostVars
    PROVE  ReplayInv'
<1>1. HostTypes /\ RelayTypes /\ UNCHANGED <<link, active>>
    BY DEF Types, hostVars
<1>2. \A c \in Clients, g \in Int : Old(<<c, g>>) => Steady(<<c, g>>)
    BY <1>1, ResetSteady, BrowserSteady, Zenon
<1>3. UNCHANGED <<toRelay, host>>
    BY DEF FinishReset, Browsers, BrowserConnects, BrowserOpensData, BrowserAttaches,
        BrowserAcknowledges, BrowserDataCloses, BrowserCloses, linkVars
<1>4. ~HandleBarrier
    <2>1. SUFFICES ASSUME HandleBarrier PROVE FALSE
        OBVIOUS
    <2>2. host = "active" /\ toRelay # <<>>
        BY <2>1 DEF HandleBarrier, Processes
    <2>3. toRelay' = Tail(toRelay)
        BY <1>1, <1>3, <2>1, <2>2, BarrierAnswers DEF BarrierFails, FailCurrentHost
    <2>4. toRelay \in Seq(RelayFrame)
        BY <1>1 DEF RelayTypes, LinkTypeOK
    <2>5. Len(Tail(toRelay)) # Len(toRelay)
        BY <2>2, <2>4, TailAt
    <2> QED BY <1>3, <2>3, <2>5
<1>5. \A i \in DOMAIN toHost' : ResultAt(i)' => i \in DOMAIN toHost /\ toHost'[i] = toHost[i]
    <2>1. RelaySends({"host-ready-ack", "delivery-reset"}) \/ RelaySends({"attach-request"})
        BY <1>1, <1>4, RelayWire DEF Relays
    <2> QED BY <2>1 DEF RelaySends, ResultAt
<1> QED BY <1>1, <1>2, <1>3, <1>5, SteadyReplay

LEMMA RelayReplay ==
    ASSUME ~DataBatch, Types, StreamInv, DataInv, WireInv, RequestsInv, CutInv, ReplayInv,
           HostSocketClosed \/ Relays \/ Browsers, UNCHANGED hostVars
    PROVE  ReplayInv'
<1>1. HostTypes /\ RelayTypes
    BY DEF Types
<1>2. ~SendDataAck
    BY DEF SendDataAck
<1>3. HostSocketClosed => ReplayInv'
    BY FailedReplay DEF HostSocketClosed
<1> QED BY <1>1, <1>2, <1>3, HostReadyReplay, EventReplay, BarrierReplay, DirectedReplay, RestReplay DEF Relays

-----------------------------------------------------------------------------
(* PinInv *)

LEMMA PinStays ==
    ASSUME PinInv, UNCHANGED <<host, readying>>,
           \A c \in Clients : Pinned(c)' =>
               /\ Pinned(c)
               /\ host = "active" /\ PinHeld(c) => PinHeld(c)'
               /\ HostResetDue(c) => HostResetDue(c)'
    PROVE  PinInv'
<1>1. host' = "active" => \A c \in Clients : Pinned(c)' => PinHeld(c)'
    BY DEF PinInv
<1>2. host' = "active" /\ ~readying' => \A b, c \in Clients : Pinned(b)' /\ Pinned(c)' => b = c
    BY DEF PinInv
<1>3. host' = "active" /\ readying' => \A c \in Clients : Pinned(c)' => HostResetDue(c)'
    BY DEF PinInv
<1>4. host' # "active" => ~readying'
    BY DEF PinInv
<1> QED BY <1>1, <1>2, <1>3, <1>4 DEF PinInv

LEMMA ServedIsBusy ==
    ASSUME WireInv, link # "down", Served PROVE Busy
BY DEF WireInv, ResultInv, Served, Busy

\* The third way for a pin to be held: its replay's frames are the only ones on the wire.
Replays(c) ==
    /\ \A i \in DOMAIN toRelay : DirectedAt(i, <<c, gen[c]>>)
    /\ link # "preparing"
    /\ link = "ready" => Recovering /\ Served /\ Key(active) = <<c, gen[c]>>
Commits(c) ==
    \E i \in DOMAIN toRelay : toRelay[i].kind = "commit" /\ Key(toRelay[i]) = <<c, gen[c]>>

LEMMA HeldBy == ASSUME NEW c PROVE PinHeld(c) <=> ResetBySerial(c) \/ Commits(c) \/ Replays(c)
BY DEF PinHeld, Commits, Replays

LEMMA HeldByNext ==
    ASSUME NEW c, ResetBySerial(c)' \/ Commits(c)' \/ Replays(c)' PROVE PinHeld(c)'
<1>1. (ResetBySerial(c) \/ Commits(c) \/ Replays(c))'
    OBVIOUS
<1> QED BY <1>1, HeldBy, PTL

LEMMA HostHolds ==
    ASSUME HostTypes, HostTypes', WireInv, UNCHANGED <<gen, dat, resets, host, readying>>, NEW c \in Clients,
           PinHeld(c),
           \/ \E reason : ClosePair(reason)
           \/ HostQuiet \/ HostActivated \/ HandleBarrierResult
           \/ HostSendsEvent \/ HostSendsBarrier \/ HostSendsReplay \/ HostSendsCommit
    PROVE  PinHeld(c)'
<1>1. CASE ResetBySerial(c)
    <2>1. ResetBySerial(c)'
        BY <1>1 DEF ResetBySerial
    <2> QED BY <2>1, HeldByNext
<1>2. toRelay' = toRelay \/ \E f : HostSends(f)
    BY DEF ClosePair, HostQuiet, HostActivated, HandleBarrierResult, HostSendsEvent, HostSendsBarrier,
        HostSendsReplay, HostSendsCommit
<1>3. \A i \in DOMAIN toRelay : i \in DOMAIN toRelay' /\ toRelay'[i] = toRelay[i]
    <2>1. ASSUME NEW f, HostSends(f)
          PROVE  \A i \in DOMAIN toRelay : i \in DOMAIN toRelay' /\ toRelay'[i] = toRelay[i]
        BY <2>1, SentAt
    <2> QED BY <1>2, <2>1
<1>4. CASE Commits(c)
    <2>1. Commits(c)'
        BY <1>3, <1>4 DEF Commits
    <2> QED BY <2>1, HeldByNext
<1>5. CASE Replays(c)
    <2>1. CASE \E reason : ClosePair(reason)
        <3>1. Replays(c)'
            BY <1>5, <2>1 DEF Replays, ClosePair, DirectedAt
        <3> QED BY <3>1, HeldByNext
    <2>2. CASE HostQuiet
        <3>1. link = "ready" => /\ Recovering /\ Served /\ Busy /\ SameRecovery
            BY <1>5, <2>2, ServedIsBusy DEF Replays, HostQuiet
        <3>2. link = "ready" => Recovering' /\ Key(active') = Key(active)
            <4>1. link = "ready" => active.c \in Clients
                BY <3>1, ActiveIsRecovery
            <4> QED BY <3>1, <4>1, Bounds DEF SameRecovery, Recovering, NoActive, Key
        <3>3. link = "ready" => Served'
            BY <2>2, <3>1, ServedStays DEF HostQuiet, SameRecovery
        <3>4. Replays(c)'
            BY <1>5, <2>2, <3>2, <3>3 DEF Replays, HostQuiet, DirectedAt
        <3> QED BY <3>4, HeldByNext
    <2>3. CASE HostActivated
        BY <1>5, <2>3 DEF Replays, HostActivated
    <2>4. CASE HandleBarrierResult
        <3>1. /\ active.phase = "uncertain" /\ Recovering /\ toRelay = <<>> /\ link = "ready"
              /\ Outcome(Head(toHost).status) /\ UNCHANGED <<link, toRelay>>
              /\ \A i \in DOMAIN toHost : ResultAt(i) => toHost[i] = Head(toHost)
            BY <2>4, ResultAlone
        <3>2. Served /\ Key(active) = <<c, gen[c]>>
            BY <1>5, <3>1 DEF Replays
        <3>3. Head(toHost).status = "ready"
            BY <3>1, <3>2 DEF Served
        <3>4. active' = [active EXCEPT !.phase = "pinned",
                           !.next = IF active.mode = "warm" THEN active.base ELSE active.cut]
            BY <3>1, <3>3 DEF Outcome
        <3>5. active'.c = active.c /\ active'.gen = active.gen /\ active'.phase = "pinned" /\ active.c \in Clients
            <4>1. active \in Active /\ active.c \in Clients
                BY <3>1, ActiveIsRecovery
            <4> QED BY <3>4, <4>1, Updated
        <3>6. Replays(c)'
            BY <3>1, <3>2, <3>5, Bounds DEF Replays, Recovering, NoActive, Key, Served
        <3> QED BY <3>6, HeldByNext
    <2>5. CASE HostSendsEvent \/ HostSendsBarrier
        BY <1>5, <2>5, ServedIsBusy DEF Replays, HostSendsEvent, HostSendsBarrier, HostSends, Busy
    <2>6. CASE HostSendsReplay
        <3>1. link = "ready" /\ active.phase = "pinned" /\ active \in Active /\ Key(active) = <<c, gen[c]>>
              /\ UNCHANGED link
            BY <1>5, <2>6, ActiveIsRecovery DEF HostSendsReplay, HostSends, Replays
        <3> DEFINE n == active.next + 1
        <3>2. active' = [active EXCEPT !.next = n] /\ HostSends(Directed("directed", n))
            BY <2>6 DEF HostSendsReplay
        <3> HIDE DEF n
        <3>3. active'.c = active.c /\ active'.gen = active.gen /\ active'.phase = "pinned" /\ active.c \in Clients
            BY <3>1, <3>2, Updated, ActiveIsRecovery
        <3>4. \A i \in DOMAIN toRelay' : toRelay'[i].kind = "directed" /\ Key(toRelay'[i]) = <<c, gen'[c]>>
            <4>1. /\ DOMAIN toRelay' = 1 .. Len(toRelay) + 1 /\ DOMAIN toRelay = 1 .. Len(toRelay)
                  /\ Len(toRelay) \in Nat /\ \A i \in DOMAIN toRelay : toRelay'[i] = toRelay[i]
                  /\ toRelay'[Len(toRelay) + 1] = Directed("directed", n)
                BY <3>2, SentAt
            <4>2. Key(Directed("directed", n)) = <<c, gen[c]>> /\ Directed("directed", n).kind = "directed"
                BY <3>1 DEF Directed, Key
            <4>3. \A i \in DOMAIN toRelay' : i \in DOMAIN toRelay \/ i = Len(toRelay) + 1
                BY <4>1
            <4>4. \A i \in DOMAIN toRelay : toRelay[i].kind = "directed" /\ Key(toRelay[i]) = <<c, gen[c]>>
                BY <1>5 DEF Replays, DirectedAt
            <4> QED BY <4>1, <4>2, <4>3, <4>4
        <3>5. Replays(c)'
            BY <3>1, <3>3, <3>4, Bounds DEF Replays, Recovering, NoActive, Key, Served, DirectedAt
        <3> QED BY <3>5, HeldByNext
    <2>7. CASE HostSendsCommit
        <3> DEFINE f == Directed("commit", active.commit)
        <3>1. HostSends(f) /\ Key(active) = <<c, gen[c]>>
            BY <1>5, <2>7 DEF HostSendsCommit, HostSends, Replays
        <3>2. f.kind = "commit" /\ Key(f) = <<c, gen'[c]>>
            BY <3>1 DEF Directed, Key
        <3> HIDE DEF f
        <3>3. toRelay'[Len(toRelay) + 1] = f /\ Len(toRelay) + 1 \in DOMAIN toRelay'
            BY <3>1, SentAt
        <3>4. Commits(c)'
            BY <3>2, <3>3 DEF Commits
        <3> QED BY <3>4, HeldByNext
    <2> QED BY <2>1, <2>2, <2>3, <2>4, <2>5, <2>6, <2>7
<1> QED BY <1>1, <1>4, <1>5, HeldBy

LEMMA HostPins ==
    ASSUME ~DataBatch, HostTypes, HostTypes', PhaseInv, StreamInv, WireInv, PinInv,
           HostNext \/ BuildSucceeds, UNCHANGED <<gen, dat, resets, host, readying>>
    PROVE  PinInv'
<1>1. \A c \in Clients : PinHeld(c) => PinHeld(c)'
    BY HostHolds, HostKinds
<1>2. \A c \in Clients : (Pinned(c)' => Pinned(c)) /\ (HostResetDue(c) => HostResetDue(c)')
    BY DEF Pinned, HostResetDue
<1> QED BY <1>1, <1>2, PinStays

LEMMA ConnectsPins == ASSUME HostPaired PROVE PinInv'
BY DEF HostPaired, PinInv

LEMMA FailedPins == ASSUME NEW reason, FailCurrentHost(reason) PROVE PinInv'
BY DEF FailCurrentHost, PinInv

\* The steps of the relay.
LEMMA NonePinned ==
    ASSUME HostTypes, RelayTypes, WireInv, PinInv, host = "active", SerialIdle,
           toRelay # <<>>, Head(toRelay).kind \notin {"directed", "commit"}
    PROVE  \A c \in Clients : ~Pinned(c)
<1>1. SUFFICES ASSUME NEW c \in Clients, Pinned(c) PROVE FALSE
    OBVIOUS
<1>2. ResetBySerial(c) \/ Commits(c) \/ Replays(c)
    BY <1>1, HeldBy DEF PinInv
<1>3. ~ResetBySerial(c)
    BY DEF ResetBySerial, SerialIdle
<1>4. \A i \in DOMAIN toRelay : ~ReplayAt(i)
    BY EventAlone
<1>5. ~Commits(c)
    BY <1>4 DEF Commits, ReplayAt
<1>6. ~Replays(c)
    <2>1. toRelay \in Seq(RelayFrame)
        BY DEF RelayTypes, LinkTypeOK
    <2>2. 1 \in DOMAIN toRelay
        BY <2>1, TailAt
    <2> QED BY <1>4, <2>2 DEF Replays, DirectedAt, ReplayAt
<1> QED BY <1>2, <1>3, <1>5, <1>6

LEMMA EventPins ==
    ASSUME HostTypes, RelayTypes, WireInv, PinInv, CanonicalEvent PROVE PinInv'
<1>1. CASE FailCurrentHost("canonical data sequence gap")
    BY <1>1, FailedPins
<1>2. CASE ~FailCurrentHost("canonical data sequence gap")
    <2>1. /\ host = "active" /\ SerialIdle /\ toRelay # <<>> /\ Head(toRelay).kind = "event"
          /\ UNCHANGED <<host, readying>>
        BY <1>2 DEF CanonicalEvent, Processes
    <2>2. \A c \in Clients : ~Pinned(c)
        BY <2>1, NonePinned
    <2>3. \A c \in Clients : dat'[c] = dat[c] \/ dat'[c].state = "synced"
        <3>1. ASSUME NEW c \in Clients
              PROVE  \/ dat'[c] = dat[c]
                     \/ dat[c].state = "synced" /\ dat'[c] = [dat[c] EXCEPT !.sent = Head(toRelay).seq]
            BY <1>2 DEF CanonicalEvent
        <3>2. \A c \in Clients : dat[c].state = "synced" => dat[c] \in Data
            BY SocketIsData
        <3>3. ASSUME NEW d \in Data, NEW seq PROVE [d EXCEPT !.sent = seq].state = d.state
            BY DEF Data
        <3>4. ASSUME NEW c \in Clients PROVE dat'[c] = dat[c] \/ dat'[c].state = "synced"
            <4>1. CASE dat'[c] = dat[c]
                BY <4>1
            <4>2. CASE dat[c].state = "synced" /\ dat'[c] = [dat[c] EXCEPT !.sent = Head(toRelay).seq]
                <5>1. dat[c] \in Data
                    BY <3>2, <4>2
                <5> QED BY <3>3, <4>2, <5>1
            <4> QED BY <3>1, <4>1, <4>2
        <3> QED BY <3>4
    <2>4. \A c \in Clients : ~Pinned(c)'
        BY <2>2, <2>3 DEF Pinned
    <2> QED BY <2>1, <2>4, PinStays
<1> QED BY <1>1, <1>2

LEMMA HostReadyPins ==
    ASSUME RelayTypes, DataInv, HostReady PROVE PinInv'
<1>1. CASE FailCurrentHost("host state does not match session")
    BY <1>1, FailedPins
<1>2. CASE ~FailCurrentHost("host state does not match session")
    <2> DEFINE due == {[c |-> c, gen |-> gen[c], why |-> "host-reconnect"] :
                           c \in {b \in Clients : ctl[b] = "active"}}
    <2>1. host' = "active" /\ resets' = resets \cup due /\ readying' = (due # {}) /\ UNCHANGED <<gen, ctl, dat>>
        BY <1>2 DEF HostReady
    <2>2. ASSUME NEW c \in Clients, Pinned(c)' PROVE HostResetDue(c)' /\ due # {}
        <3>1. ctl[c] = "active"
            BY <2>1, <2>2 DEF DataInv, DataOf, Pinned
        <3>2. [c |-> c, gen |-> gen[c], why |-> "host-reconnect"] \in due
            BY <3>1
        <3> HIDE DEF due
        <3> QED BY <2>1, <3>2 DEF HostResetDue
    <2> HIDE DEF due
    <2>3. \A c \in Clients : HostResetDue(c)' => PinHeld(c)'
        <3>1. ASSUME NEW c \in Clients, HostResetDue(c)' PROVE ResetBySerial(c)'
            <4> DEFINE r == [c |-> c, gen |-> gen'[c], why |-> "host-reconnect"]
            <4>1. r.c = c /\ r.gen = gen'[c] /\ r.why # "data-closed" /\ r \in resets'
                BY <3>1 DEF HostResetDue
            <4> HIDE DEF r
            <4> QED BY <4>1 DEF ResetBySerial
        <3> QED BY <3>1, HeldByNext
    <2> QED BY <2>1, <2>2, <2>3 DEF PinInv
<1> QED BY <1>1, <1>2

LEMMA BarrierPins ==
    ASSUME HostTypes, RelayTypes, WireInv, PinInv, HandleBarrier, UNCHANGED hostVars PROVE PinInv'
<1> DEFINE id == Head(toRelay).id
<1>1. CASE BarrierFails
    BY <1>1, FailedPins DEF BarrierFails
<1>2. CASE ~BarrierFails
    <2>1. /\ toRelay # <<>> /\ Head(toRelay).kind = "barrier" /\ id.c \in Clients /\ id \in Identity
          /\ host = "active" /\ SerialIdle
        BY BarrierIsFrame DEF HandleBarrier, Processes
    <2>2. \A c \in Clients : ~Pinned(c)
        BY <2>1, NonePinned
    <2>3. toRelay' = Tail(toRelay) /\ UNCHANGED <<host, readying, gen, resets, link, active>> /\ ~readying
        BY <1>2, <2>1, BarrierAnswers DEF hostVars, SerialIdle
    <2>4. CASE Pins(id.c)
        <3>1. \A c \in Clients : Pinned(c)' => c = id.c
            BY <2>2, <2>4, PinsKeep, <2>1 DEF Pinned
        <3>2. /\ Tail(toRelay) = <<>> /\ link # "preparing"
              /\ link = "ready" => Recovering /\ id = ActiveIdentity
            <4>1. link # "preparing"
                <5>1. BarrierAt(1) /\ 1 \in DOMAIN toRelay
                    <6>1. toRelay \in Seq(RelayFrame)
                        BY DEF RelayTypes, LinkTypeOK
                    <6> QED BY <2>1, <6>1, TailAt DEF BarrierAt
                <5> QED BY <5>1 DEF WireInv, BarrierAt
            <4> QED BY <2>1, <4>1, BarrierAlone
        <3>3. Served'
            <4> DEFINE f == [kind |-> "result", id |-> id, status |-> "ready"]
            <4>1. f \in HostFrame /\ f.kind = "result" /\ f.status = "ready"
                BY <2>1 DEF HostFrame
            <4>2. toHost' = Append(toHost, f) /\ toHost \in Seq(HostFrame)
                BY <2>4 DEF Pins, RelayTypes, LinkTypeOK
            <4> HIDE DEF f
            <4>3. toHost' = toHost \o <<f>>
                BY <4>1, <4>2, SMTT(30)
            <4>4. Len(toHost) + 1 \in DOMAIN toHost' /\ toHost'[Len(toHost) + 1] = f
                BY <4>1, <4>2, <4>3, LastAt
            <4> QED BY <4>1, <4>4 DEF Served, ResultAt
        <3>4. link = "ready" => Key(active) = <<id.c, gen[id.c]>>
            BY <2>4, <3>2 DEF Pins, Key, ActiveIdentity
        <3>5. \A c \in Clients : Pinned(c)' => PinHeld(c)'
            <4>1. ASSUME NEW c, c = id.c PROVE Replays(c)'
                BY <2>3, <3>2, <3>3, <3>4, <4>1 DEF Replays, Recovering, Key
            <4> QED BY <3>1, <4>1, HeldByNext
        <3> QED BY <2>1, <2>3, <3>1, <3>5 DEF PinInv
    <2>5. CASE ~Pins(id.c)
        <3>1. UNCHANGED dat \/ Isolate(id.c)
            BY <1>2, <2>5, BarrierAnswers
        <3>2. \A c \in Clients : dat'[c] = dat[c] \/ dat'[c] = NoData
            BY <3>1 DEF Isolate, RelayTypes, RelayTypeOK
        <3>3. \A c \in Clients : ~Pinned(c)'
            BY <2>2, <3>2 DEF Pinned, NoData
        <3> QED BY <2>3, <3>3, PinStays
    <2> QED BY <2>4, <2>5, Zenon
<1> QED BY <1>1, <1>2

LEMMA HeldStays ==
    ASSUME NEW c, gen'[c] = gen[c], ResetBySerial(c) => ResetBySerial(c)',
           UNCHANGED <<toRelay, link, active>>, Served => Served', PinHeld(c)
    PROVE  PinHeld(c)'
<1>1. CASE ResetBySerial(c)
    BY <1>1, HeldByNext
<1>2. CASE Commits(c)
    <2>1. Commits(c)'
        BY <1>2 DEF Commits, Key
    <2> QED BY <2>1, HeldByNext
<1>3. CASE Replays(c)
    <2>1. Replays(c)'
        BY <1>3 DEF Replays, DirectedAt, Key, Recovering
    <2> QED BY <2>1, HeldByNext
<1> QED BY <1>1, <1>2, <1>3, HeldBy

LEMMA DirectedPins ==
    ASSUME HostTypes, RelayTypes, WireInv, PinInv, DirectedFrame, UNCHANGED hostVars PROVE PinInv'
<1> DEFINE f == Head(toRelay)
<1>1. CASE \E reason : FailCurrentHost(reason)
    BY <1>1, FailedPins
<1>2. ASSUME toRelay' = Tail(toRelay), UNCHANGED <<host, readying, gen, toHost>>,
             \/ Delivers(f)
             \/ UNCHANGED dat /\ resets \subseteq resets' /\ \A k : k = Key(f) => ~Feeds(k)'
      PROVE  PinInv'
    <2>1. /\ toRelay # <<>> /\ UNCHANGED <<link, active>> /\ f.c \in Clients /\ resets \subseteq resets'
        BY <1>2, DirectedIsFrame DEF DirectedFrame, Processes, hostVars, Delivers
    <2>2. /\ toRelay[1] = f /\ DOMAIN toRelay' = 1 .. Len(toRelay) - 1 /\ Len(toRelay) \in Nat
          /\ \A i \in DOMAIN toRelay' : i + 1 \in DOMAIN toRelay /\ toRelay'[i] = toRelay[i + 1]
          /\ \A i \in DOMAIN toRelay : i # 1 => i - 1 \in DOMAIN toRelay' /\ toRelay'[i - 1] = toRelay[i]
        <3>1. toRelay \in Seq(RelayFrame)
            BY DEF RelayTypes, LinkTypeOK
        <3> QED BY <1>2, <2>1, <3>1, TailAt
    <2>3. ASSUME NEW c \in Clients, Pinned(c)'
          PROVE  Pinned(c) /\ (Delivers(f) /\ f.c = c => f.kind # "commit")
        <3>1. CASE UNCHANGED dat /\ ~Delivers(f)
            BY <2>3, <3>1 DEF Pinned
        <3>2. CASE Delivers(f) /\ f.c # c
            <4>1. dat'[c] = dat[c]
                BY <3>2 DEF Delivers, RelayTypes, RelayTypeOK
            <4> QED BY <2>3, <3>2, <4>1 DEF Pinned
        <3>3. CASE Delivers(f) /\ f.c = c
            <4>1. dat[c] \in Data /\ dat[c].state = "catching" /\ dat'[c] = Delivered(dat[c], f)
                BY <3>3, SocketInts DEF Delivers, RelayTypes, RelayTypeOK
            <4>2. f.kind # "commit"
                BY <2>3, <4>1 DEF Delivered, Data, Pinned
            <4>3. dat'[c].pin = dat[c].pin
                BY <4>1, <4>2 DEF Delivered, Data
            <4> QED BY <2>3, <4>1, <4>2, <4>3 DEF Pinned
        <3> QED BY <1>2, <3>1, <3>2, <3>3
    <2>4. ASSUME NEW c \in Clients, Pinned(c)', PinHeld(c) PROVE PinHeld(c)'
        <3>1. CASE ResetBySerial(c)
            <4>1. ResetBySerial(c)'
                BY <1>2, <2>1, <3>1 DEF ResetBySerial
            <4> QED BY <4>1, HeldByNext
        <3>2. CASE Commits(c)
            <4>1. PICK i \in DOMAIN toRelay : toRelay[i].kind = "commit" /\ Key(toRelay[i]) = <<c, gen[c]>>
                BY <3>2 DEF Commits
            <4>2. CASE i # 1
                <5>1. i - 1 \in DOMAIN toRelay' /\ toRelay'[i - 1] = toRelay[i] /\ gen' = gen
                    BY <1>2, <2>2, <4>2
                <5>2. PICK j \in DOMAIN toRelay' : toRelay'[j] = toRelay[i]
                    BY <5>1
                <5>3. Commits(c)'
                    BY <4>1, <5>1, <5>2 DEF Commits, Key
                <5> QED BY <5>3, HeldByNext
            <4>3. CASE i = 1
                <5>1. f.kind = "commit" /\ Key(f) = <<c, gen[c]>> /\ f.c = c
                    BY <2>2, <4>1, <4>3 DEF Key
                <5>2. ASSUME NEW k, k = Key(f) PROVE ~Feeds(k)'
                    BY <1>2, <2>3, <2>4, <5>1, <5>2
                <5>3. PICK k : k = <<c, gen[c]>>
                    OBVIOUS
                <5>4. ResetBySerial(c)'
                    <6>1. k[1] = c /\ k[2] = gen'[c] /\ ~Feeds(k)'
                        BY <1>2, <5>1, <5>2, <5>3
                    <6> QED BY <2>4, <6>1 DEF Feeds, Pinned
                <5> QED BY <5>4, HeldByNext
            <4> QED BY <4>2, <4>3
        <3>3. CASE Replays(c)
            <4>1. Served => Served'
                BY <1>2, <2>1 DEF Served, ResultAt
            <4>2. Replays(c)'
                BY <1>2, <2>1, <2>2, <3>3, <4>1 DEF Replays, DirectedAt, Recovering
            <4> QED BY <4>2, HeldByNext
        <3> QED BY <2>4, <3>1, <3>2, <3>3, HeldBy
    <2>5. \A c \in Clients : HostResetDue(c) => HostResetDue(c)'
        BY <1>2, <2>1 DEF HostResetDue
    <2> QED BY <1>2, <2>3, <2>4, <2>5, PinStays, Zenon
<1> QED BY <1>1, <1>2, DirectedOutcomes

LEMMA ResetPins ==
    ASSUME ~DataBatch, RelayTypes, DataInv, PinInv, FinishReset, UNCHANGED hostVars PROVE PinInv'
<1>1. PICK r \in resets :
        /\ resets' = resets \ {r}
        /\ readying' = (readying /\ ~EndsHostReady(r))
        /\ \/ gen[r.c] = r.gen /\ ctl[r.c] = "active" /\ ReplaceDelivery(r)
           \/ ~(gen[r.c] = r.gen /\ ctl[r.c] = "active") /\ UNCHANGED <<gen, ctl, dat>>
    BY DEF FinishReset
<1>2. r.c \in Clients /\ NoData.state = "none" /\ UNCHANGED <<host, toRelay, link, active>>
    BY DEF RelayTypes, RelayTypeOK, Reset, NoData, FinishReset, hostVars
<1>3. ASSUME NEW c \in Clients, Pinned(c)'
      PROVE  dat'[c] = dat[c] /\ gen'[c] = gen[c] /\ ~(r.c = c /\ r.gen = gen[c])
    <2>1. CASE r.c = c /\ ReplaceDelivery(r)
        <3>1. dat'[c] = NoData
            BY <1>2, <2>1 DEF ReplaceDelivery, Isolate, RelayTypes, RelayTypeOK
        <3> QED BY <1>2, <1>3, <3>1 DEF Pinned
    <2>2. CASE ~(r.c = c /\ ReplaceDelivery(r))
        <3>1. dat'[c] = dat[c] /\ gen'[c] = gen[c]
            BY <1>1, <1>2, <2>2 DEF ReplaceDelivery, Isolate, RelayTypes, RelayTypeOK
        <3>2. ctl[c] = "active"
            BY <1>3, <3>1 DEF DataInv, DataOf, Pinned
        <3> QED BY <1>1, <2>2, <3>1, <3>2
    <2> QED BY <2>1, <2>2
<1>4. Served => Served'
    BY <1>2, ResetSends, SentKept
<1>5. ASSUME NEW c \in Clients, Pinned(c)'
      PROVE  /\ Pinned(c)
             /\ PinHeld(c) => PinHeld(c)'
             /\ HostResetDue(c) => HostResetDue(c)' /\ ~EndsHostReady(r)
    <2>1. Pinned(c) /\ (ResetBySerial(c) => ResetBySerial(c)')
        BY <1>1, <1>3, <1>5 DEF Pinned, ResetBySerial
    <2>2. PinHeld(c) => PinHeld(c)'
        BY <1>2, <1>3, <1>4, <1>5, <2>1, HeldStays
    <2>3. ASSUME HostResetDue(c) PROVE HostResetDue(c)' /\ ~EndsHostReady(r)
        <3> DEFINE q == [c |-> c, gen |-> gen[c], why |-> "host-reconnect"]
        <3>1. q.c = c /\ q.gen = gen[c] /\ q.why = "host-reconnect" /\ q \in resets
            BY <2>3 DEF HostResetDue
        <3>2. [c |-> c, gen |-> gen'[c], why |-> "host-reconnect"] = q
            BY <1>3, <1>5
        <3> HIDE DEF q
        <3>3. q \in resets \ {r}
            BY <1>3, <1>5, <3>1
        <3> QED BY <1>1, <3>1, <3>2, <3>3 DEF HostResetDue, EndsHostReady
    <2> QED BY <2>1, <2>2, <2>3
<1>6. CASE readying' = readying
    BY <1>2, <1>5, <1>6, PinStays
<1>7. CASE readying' # readying
    <2>1. readying /\ EndsHostReady(r) /\ ~readying' /\ host = "active"
        <3>1. readying \in BOOLEAN
            BY DEF RelayTypes, RelayTypeOK
        <3>2. EndsHostReady(r) \in BOOLEAN
            BY DEF EndsHostReady
        <3>3. readying /\ EndsHostReady(r)
            BY <1>1, <1>7, <3>1, <3>2
        <3> QED BY <1>1, <3>3 DEF PinInv
    <2>2. \A c \in Clients : ~Pinned(c)'
        BY <1>5, <2>1 DEF PinInv
    <2> QED BY <1>2, <2>1, <2>2 DEF PinInv
<1> QED BY <1>6, <1>7

LEMMA BrowserPins ==
    ASSUME ~DataBatch, RelayTypes, DataInv, PinInv, Browsers, UNCHANGED hostVars PROVE PinInv'
<1>1. PICK b \in Clients :
        \/ BrowserConnects(b) \/ BrowserOpensData(b) \/ BrowserAttaches(b)
        \/ BrowserAcknowledges(b) \/ BrowserDataCloses(b) \/ BrowserCloses(b)
    BY Zenon DEF Browsers
<1>2. /\ resets \subseteq resets' /\ NoData.state = "none"
      /\ UNCHANGED <<host, readying, toRelay, link, active>>
    BY <1>1
    DEF BrowserConnects, BrowserOpensData, BrowserAttaches, BrowserAcknowledges,
        BrowserDataCloses, BrowserCloses, NoData, hostVars, linkVars
<1>3. /\ dat \in [Clients -> Data \cup {NoData}]
      /\ gen \in [Clients -> 0 .. MaxGen]
    BY DEF RelayTypes, RelayTypeOK
<1>4. ASSUME NEW c \in Clients, Pinned(c)' PROVE gen'[c] = gen[c] /\ Pinned(c)
    <2>1. CASE b # c
        <3>1. dat'[c] = dat[c] /\ gen'[c] = gen[c]
            BY <1>1, <1>3, <2>1
            DEF BrowserConnects, BrowserOpensData, BrowserAttaches, BrowserAcknowledges,
                BrowserDataCloses, BrowserCloses, Isolate
        <3> QED BY <1>4, <3>1 DEF Pinned
    <2>2. CASE BrowserConnects(c) \/ BrowserDataCloses(c) \/ BrowserCloses(c)
        <3>1. dat'[c] = NoData
            BY <1>3, <2>2 DEF BrowserConnects, BrowserDataCloses, BrowserCloses, Isolate
        <3> QED BY <1>2, <1>4, <3>1 DEF Pinned
    <2>3. CASE BrowserOpensData(c)
        <3>1. dat'[c].state = "awaiting"
            BY <1>3, <2>3 DEF BrowserOpensData, NoData
        <3> QED BY <1>4, <3>1 DEF Pinned
    <2>4. CASE BrowserAttaches(c)
        <3>1. dat[c].pin = NoSeq /\ dat[c] \in Data
            BY <2>4, SocketIsData DEF BrowserAttaches, DataInv, DataOf
        <3>2. dat'[c].pin = NoSeq
            BY <1>3, <2>4, <3>1 DEF BrowserAttaches, Data
        <3> QED BY <1>4, <3>2 DEF Pinned
    <2>5. CASE BrowserAcknowledges(c)
        <3>1. PICK seq : dat' = [dat EXCEPT ![c].acked = seq]
            BY <2>5 DEF BrowserAcknowledges
        <3>2. dat[c] \in Data /\ gen' = gen
            BY <1>3, <2>5 DEF BrowserAcknowledges, NoData
        <3>3. dat'[c].state = dat[c].state /\ dat'[c].pin = dat[c].pin
            BY <1>3, <3>1, <3>2 DEF Data
        <3> QED BY <1>4, <3>2, <3>3 DEF Pinned
    <2> QED BY <1>1, <2>1, <2>2, <2>3, <2>4, <2>5
<1>5. Served => Served'
    <2>1. \E kinds : RelaySends(kinds)
        BY RelayWire
    <2> QED BY <1>2, <2>1, SentKept
<1>6. ASSUME NEW c \in Clients, Pinned(c)'
      PROVE  (PinHeld(c) => PinHeld(c)') /\ (HostResetDue(c) => HostResetDue(c)')
    <2>1. (ResetBySerial(c) => ResetBySerial(c)') /\ (HostResetDue(c) => HostResetDue(c)')
        BY <1>2, <1>4, <1>6 DEF ResetBySerial, HostResetDue
    <2> QED BY <1>2, <1>4, <1>5, <1>6, <2>1, HeldStays
<1> QED BY <1>2, <1>4, <1>6, PinStays

LEMMA RelayPins ==
    ASSUME ~DataBatch, Types, DataInv, WireInv, PinInv, HostSocketClosed \/ Relays \/ Browsers,
           UNCHANGED hostVars
    PROVE  PinInv'
<1>1. HostTypes /\ RelayTypes
    BY DEF Types
<1>2. ~SendDataAck
    BY DEF SendDataAck
<1>3. HostSocketClosed => PinInv'
    BY FailedPins DEF HostSocketClosed
<1> QED BY <1>1, <1>2, <1>3, HostReadyPins, EventPins, BarrierPins, DirectedPins, ResetPins, BrowserPins
        DEF Relays

-----------------------------------------------------------------------------
(* RecoveryIsAccepted and PinPausesStream *)

Accepted == RecoveryIsAccepted /\ PinPausesStream

LEMMA SameBlame == ASSUME Accepted, UNCHANGED blame PROVE Accepted'
BY DEF Accepted, RecoveryIsAccepted, PinPausesStream

LEMMA OtherBlame ==
    ASSUME blame' \in {"none", "host state does not match session", "host control channel disconnected"}
    PROVE  Accepted'
BY DEF Accepted, RecoveryIsAccepted, PinPausesStream

\* Without batching, the events that are on their way are all on the wire.
LEMMA WireIsStream ==
    ASSUME ~DataBatch, Types, StreamInv, host = "active" PROVE Contiguous(toRelay, doHead, sent)
<1>1. outbox = <<>> /\ Contiguous(InFlight, doHead, sent)
    BY DEF StreamInv
<1>2. toRelay \in Seq(RelayFrame)
    BY StreamTypes
<1>3. \A s \in Seq(RelayFrame) : s \o <<>> = s
    OBVIOUS
<1> QED BY <1>1, <1>2, <1>3 DEF InFlight

\* A barrier meets the head it was sent for, and a delivery as it attached.
LEMMA BarrierAccepted ==
    ASSUME ~DataBatch, Types, StreamInv, WireInv, RequestsInv, HandleBarrier PROVE UNCHANGED blame
<1> DEFINE id == Head(toRelay).id
<1>1. /\ toRelay # <<>> /\ Head(toRelay).kind = "barrier" /\ host = "active"
      /\ HostTypes /\ RelayTypes /\ toRelay \in Seq(RelayFrame) /\ doHead \in Int /\ sent \in Int
    BY StreamTypes DEF HandleBarrier, Processes, Types
<1>2. Len(toRelay) = 1 /\ BarrierAt(1) /\ toRelay[1] = Head(toRelay) /\ id.commit = sent
    BY <1>1, BarrierAlone
<1>3. id.commit = doHead
    <2>1. Events(toRelay) = {}
        <3>1. DOMAIN toRelay = 1 .. 1
            BY <1>1, <1>2, TailAt
        <3> QED BY <1>2, <3>1 DEF Events, BarrierAt
    <2>2. Contiguous(toRelay, doHead, sent)
        BY <1>1, WireIsStream
    <2>3. doHead + 1 .. sent = {} /\ doHead <= sent
        BY <2>1, <2>2 DEF Contiguous
    <2> QED BY <1>1, <1>2, <2>3
<1>4. id.gen = gen[id.c] /\ ~Gone(id.c) => Fresh(dat[id.c])
    <2>1. 1 \in DOMAIN toRelay
        BY <1>1, TailAt
    <2>2. PICK k : k = Key(id)
        OBVIOUS
    <2>3. Untouched(k) /\ k[1] = id.c /\ k[2] = id.gen
        BY <1>2, <2>1, <2>2 DEF RequestsInv, Key
    <2> QED BY <2>3 DEF Untouched, Gone
<1> QED BY <1>3, <1>4 DEF HandleBarrier, Fresh

\* A frame of a replay goes on where its delivery's cursor is.
LEMMA DirectedAccepted ==
    ASSUME Types, ControlInv, WireInv, RequestsInv, ReplayInv, DirectedFrame PROVE UNCHANGED blame
<1> DEFINE f == Head(toRelay)
           d == dat[f.c]
<1>1. /\ toRelay # <<>> /\ host = "active" /\ SerialIdle /\ RelayTypes
      /\ f.kind \in {"directed", "commit"} /\ f.c \in Clients
    BY DirectedIsFrame DEF DirectedFrame, Processes, Types
<1>2. 1 \in DOMAIN toRelay /\ toRelay[1] = f /\ ReplayAt(1)
    <2>1. toRelay \in Seq(RelayFrame)
        BY <1>1 DEF RelayTypes, LinkTypeOK
    <2> QED BY <1>1, <2>1, TailAt DEF ReplayAt
<1>3. f.gen = gen[f.c] /\ d.state \notin {"none", "synced"} => d.state = "catching"
    <2>1. PICK k : k = Key(f)
        OBVIOUS
    <2>2. f.gen < gen[f.c] \/ (f.gen = gen[f.c] /\ Attached(f.c))
        <3>1. Old(k) /\ k[1] = f.c /\ k[2] = f.gen
            BY <1>2, <2>1 DEF RequestsInv, Key
        <3> QED BY <3>1 DEF Old
    <2>3. gen[f.c] \in Int
        BY <1>1, GenIsInt
    <2> QED BY <1>1, <2>2, <2>3 DEF Attached, ControlInv, NoData
<1>4. ASSUME f.gen = gen[f.c], d.state \notin {"none", "synced"}
      PROVE  WithinPin(d, f) /\ ContinuesReplay(d, f)
    <2>1. ~ResetBySerial(f.c)
        BY <1>1 DEF SerialIdle, ResetBySerial
    <2>2. ASSUME NEW k, k = Key(f) PROVE Feeds(k)
        BY <1>3, <1>4, <2>1, <2>2 DEF Feeds, Key
    <2>3. Follows(d, f, 1)
        BY <1>1, <1>2, <2>2 DEF ReplayInv, FramesFollow
    <2>4. d.sent \in Int
        BY <1>1, <1>3, <1>4, SocketInts
    <2> QED BY <1>1, <1>3, <1>4, <2>3, <2>4 DEF Follows, WithinPin, ContinuesReplay
<1> QED BY <1>4 DEF DirectedFrame

\* An event follows the relay's head, and finds nothing pinned.
LEMMA EventAccepted ==
    ASSUME ~DataBatch, Types, StreamInv, WireInv, PinInv, CanonicalEvent PROVE UNCHANGED blame
<1>1. /\ toRelay # <<>> /\ Head(toRelay).kind = "event" /\ host = "active" /\ SerialIdle
      /\ HostTypes /\ RelayTypes /\ toRelay \in Seq(RelayFrame) /\ doHead \in Int /\ sent \in Int
    BY StreamTypes DEF CanonicalEvent, Processes, Types
<1>2. Head(toRelay).seq = doHead + 1
    BY <1>1, WireIsStream, TailEvent
<1>3. \A c \in Clients : ~Pinned(c)
    BY <1>1, NonePinned
<1> QED BY <1>2, <1>3 DEF CanonicalEvent

LEMMA RelayAccepted ==
    ASSUME ~DataBatch, Types, StreamInv, ControlInv, WireInv, RequestsInv, ReplayInv, PinInv, Accepted,
           HostSocketClosed \/ Relays \/ Browsers
    PROVE  Accepted'
<1>1. CASE HostSocketClosed
    BY <1>1, OtherBlame DEF HostSocketClosed, FailCurrentHost
<1>2. CASE HostReady
    <2>1. UNCHANGED blame \/ blame' = "host state does not match session"
        BY <1>2 DEF HostReady, FailCurrentHost
    <2> QED BY <2>1, SameBlame, OtherBlame
<1>3. CASE CanonicalEvent \/ HandleBarrier \/ DirectedFrame
    BY <1>3, EventAccepted, BarrierAccepted, DirectedAccepted, SameBlame
<1>4. CASE SendDataAck
    BY <1>4 DEF SendDataAck
<1>5. CASE FinishReset \/ Browsers
    <2>1. UNCHANGED blame
        BY <1>5 DEF FinishReset, Browsers, BrowserConnects, BrowserOpensData, BrowserAttaches,
            BrowserAcknowledges, BrowserDataCloses, BrowserCloses
    <2> QED BY <2>1, SameBlame, Zenon
<1> QED BY <1>1, <1>2, <1>3, <1>4, <1>5 DEF Relays

-----------------------------------------------------------------------------
(* The invariant *)

LEMMA InitRecovery == Init => RecoveryInv
<1> SUFFICES ASSUME Init PROVE RecoveryInv
    OBVIOUS
<1>1. /\ pend = {} /\ pass = {} /\ active = NoActive /\ build = NoBuild /\ link = "down" /\ ~paused
      /\ toRelay = <<>> /\ toHost = <<>> /\ host = "none" /\ ~readying /\ blame = "none"
      /\ \A c \in Clients : ctl[c] = "none" /\ dat[c] = NoData
    BY DEF Init, HostInit, RelayInit
<1>2. PhaseInv /\ CutInv /\ ~Recovering /\ ~build.current
    BY <1>1 DEF PhaseInv, CutInv, NoActive, Recovering, NoBuild
<1>3. QueueInv
    BY <1>1, <1>2 DEF QueueInv, Idle, PassApart, BuildApart, Shared
<1>4. AttachInv /\ RequestsInv /\ ReplayInv
    BY <1>1 DEF AttachInv, RequestsInv, ReplayInv
<1>5. WireInv
    BY <1>1 DEF WireInv, BarrierInv, RunInv, ResultInv
<1>6. PinInv /\ ControlInv
    BY <1>1 DEF PinInv, ControlInv, NoData
<1>7. RecoveryIsAccepted /\ PinPausesStream
    BY <1>1 DEF RecoveryIsAccepted, PinPausesStream
<1> QED BY <1>2, <1>3, <1>4, <1>5, <1>6, <1>7 DEF RecoveryInv

LEMMA ConnectsRecovery ==
    ASSUME ~DataBatch, Types, StreamInv, RecoveryInv, ControlInv', HostConnects PROVE RecoveryInv'
<1>1. HostTypes /\ RelayTypes /\ Prepare /\ HostPaired
    BY DEF Types, HostConnects
<1>2. PhaseInv /\ QueueInv /\ AttachInv /\ CutInv
    BY DEF RecoveryInv
<1>3. PhaseInv' /\ QueueInv' /\ AttachInv' /\ CutInv'
    BY <1>1, <1>2, NextPhase, NextQueue, HostAttach, NextCut
<1>4. RequestsInv' /\ WireInv' /\ ReplayInv' /\ PinInv'
    BY <1>1, <1>2, ConnectsRequests, ConnectsWire, ConnectsReplay, ConnectsPins
<1>5. Accepted'
    BY <1>1, OtherBlame DEF HostPaired
<1> QED BY <1>3, <1>4, <1>5 DEF RecoveryInv, Accepted

LEMMA HostRecovery ==
    ASSUME ~DataBatch, Types, Types', StreamInv, RecoveryInv, ControlInv', HostNext \/ BuildSucceeds,
           UNCHANGED <<gen, ctl, dat, resets, host, readying, blame>>
    PROVE  RecoveryInv'
<1>1. HostTypes /\ RelayTypes /\ HostTypes'
    BY DEF Types
<1>2. /\ PhaseInv /\ QueueInv /\ AttachInv /\ RequestsInv /\ WireInv /\ ReplayInv /\ PinInv /\ CutInv
      /\ Accepted
    BY DEF RecoveryInv, Accepted
<1>3. PhaseInv' /\ QueueInv' /\ AttachInv' /\ CutInv'
    BY <1>1, <1>2, NextPhase, NextQueue, HostAttach, NextCut
<1>4. RequestsInv' /\ WireInv'
    BY <1>1, <1>2, HostRequests, HostWire
<1>5. ReplayInv' /\ PinInv'
    BY <1>1, <1>2, HostReplay, HostPins
<1>6. Accepted'
    BY <1>2, SameBlame
<1> QED BY <1>3, <1>4, <1>5, <1>6 DEF RecoveryInv, Accepted

LEMMA RelayRecovery ==
    ASSUME ~DataBatch, Types, Types', StreamInv, DataInv, RecoveryInv, ControlInv', [Next]_vars,
           HostSocketClosed \/ Relays \/ Browsers, UNCHANGED hostVars
    PROVE  RecoveryInv'
<1>1. HostTypes /\ RelayTypes
    BY DEF Types
<1>2. /\ PhaseInv /\ QueueInv /\ AttachInv /\ RequestsInv /\ WireInv /\ ReplayInv /\ PinInv /\ CutInv
      /\ ControlInv /\ Accepted
    BY DEF RecoveryInv, Accepted
<1>3. PhaseInv' /\ QueueInv' /\ CutInv'
    BY <1>2 DEF hostVars, PhaseInv, QueueInv, CutInv, Idle, PassApart, BuildApart, Shared, Building,
        BuildRequest, Recovering, Key, Prepared
<1>4. RequestsInv' /\ AttachInv' /\ WireInv'
    BY <1>2, RelayRequests, RelayAttach, RelayKeepsWire
<1>5. ReplayInv' /\ PinInv'
    BY <1>2, RelayReplay, RelayPins
<1>6. Accepted'
    BY <1>2, RelayAccepted
<1> QED BY <1>3, <1>4, <1>5, <1>6 DEF RecoveryInv, Accepted

LEMMA SameRecoveryInv == ASSUME RecoveryInv, UNCHANGED vars PROVE RecoveryInv'
<1>1. /\ UNCHANGED <<pend, pass, cold, preps, cache, active, build, link, paused, sent, head, toRelay, toHost>>
      /\ UNCHANGED <<gen, ctl, dat, resets, host, readying, blame>>
    BY DEF vars, hostVars, relayVars, linkVars
<1>2. PhaseInv' /\ QueueInv' /\ CutInv' /\ ControlInv'
    BY <1>1 DEF RecoveryInv, PhaseInv, QueueInv, CutInv, ControlInv, Idle, PassApart, BuildApart,
        Shared, Building, BuildRequest, Recovering, Key, Prepared
<1>3. AttachInv' /\ WireInv'
    BY <1>1, SMTT(30) DEF RecoveryInv, AttachInv, AttachAt, Known, Shared, Building, BuildRequest, Recovering, Key,
        WireInv, BarrierInv, RunInv, ResultInv, BarrierAt, ReplayAt, DirectedAt, ResultAt, ActiveIdentity
<1>4. RequestsInv'
    BY <1>1 DEF RecoveryInv, RequestsInv, Wanted, Waiting, Untouched, From, Old, Attached, DataClosing, Fresh,
        Unadvanced, Served, ResultAt, AttachAt, BarrierAt, ReplayAt, Key, Building, BuildRequest,
        Recovering, ActiveRequest
<1>5. ReplayInv'
    BY <1>1 DEF RecoveryInv, ReplayInv, FramesFollow, ReplayGoesOn, ReplayStarts, Feeds, ResetBySerial, Follows,
        PinnedFor, Start, ReplayAt, ResultAt, Key
<1>6. PinInv'
    BY <1>1 DEF RecoveryInv, PinInv, PinHeld, Pinned, HostResetDue, ResetBySerial, DirectedAt, Key, Served,
        ResultAt, Recovering
<1>7. RecoveryIsAccepted' /\ PinPausesStream'
    BY <1>1 DEF RecoveryInv, RecoveryIsAccepted, PinPausesStream
<1> QED BY <1>2, <1>3, <1>4, <1>5, <1>6, <1>7 DEF RecoveryInv

LEMMA NextRecovery ==
    ASSUME ~DataBatch
    PROVE  Types /\ StreamInv /\ DataInv /\ RecoveryInv /\ [Next]_vars => RecoveryInv'
<1> SUFFICES ASSUME Types, StreamInv, DataInv, RecoveryInv, [Next]_vars PROVE RecoveryInv'
    OBVIOUS
<1>1. Types' /\ ControlInv'
    BY NextTypes, NextControl DEF RecoveryInv
<1>2. CASE HostConnects
    BY <1>1, <1>2, ConnectsRecovery
<1>3. CASE SnapshotPublished
    BY <1>1, <1>3, HostRecovery DEF SnapshotPublished, Publishes
<1>4. CASE HostNext /\ UNCHANGED relayVars
    BY <1>1, <1>4, HostRecovery DEF relayVars
<1>5. CASE (HostSocketClosed \/ Relays \/ Browsers) /\ UNCHANGED hostVars
    BY <1>1, <1>5, RelayRecovery
<1>6. CASE UNCHANGED vars
    BY <1>6, SameRecoveryInv
<1> QED BY <1>2, <1>3, <1>4, <1>5, <1>6 DEF Next

LEMMA RecoveryHolds == ASSUME ~DataBatch PROVE Spec => []RecoveryInv
<1>1. Init => Types /\ StreamInv /\ DataInv /\ RecoveryInv
    <2>1. Init => StreamInv
        BY DEF Init, HostInit, RelayInit, StreamInv
    <2> QED BY <2>1, InitTypes, InitData, InitRecovery
<1>2. Types /\ StreamInv /\ DataInv /\ RecoveryInv /\ [Next]_vars
          => (Types /\ StreamInv /\ DataInv /\ RecoveryInv)'
    BY NextTypes, NextStream, NextData, NextRecovery
<1> QED BY <1>1, <1>2, PTL DEF Spec

\* RecoveryIsAccepted: whatever resets, reconnections and slow clients interrupt, the relay
\* never fails the pair over a barrier or a replay, because a barrier is the last frame on
\* the wire, for a delivery that is as it attached, and a replay starts at its cursor.
THEOREM RecoveryAcceptance == ASSUME ~DataBatch PROVE Spec => []RecoveryIsAccepted
<1>1. RecoveryInv => RecoveryIsAccepted
    BY DEF RecoveryInv
<1> QED BY <1>1, RecoveryHolds, PTL

\* PinPausesStream: no canonical event reaches the relay while a delivery is pinned,
\* because the publisher sends none from a barrier to its answer, and the replay's frames
\* are before whatever it sends when it is resumed.
THEOREM PinsPauseTheStream == ASSUME ~DataBatch PROVE Spec => []PinPausesStream
<1>1. RecoveryInv => PinPausesStream
    BY DEF RecoveryInv
<1> QED BY <1>1, RecoveryHolds, PTL

\* OnePinnedDelivery: a ready host's deliveries are pinned one after the other, since a
\* pinned one is the recovery that holds the publisher, or is last on the wire.
THEOREM PinsAreSerial == ASSUME ~DataBatch PROVE Spec => []OnePinnedDelivery
<1>1. RecoveryInv => OnePinnedDelivery
    BY DEF RecoveryInv, PinInv, OnePinnedDelivery, Current
<1> QED BY <1>1, RecoveryHolds, PTL

=============================================================================

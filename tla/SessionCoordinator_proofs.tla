---------------------- MODULE SessionCoordinator_proofs ----------------------
(***************************************************************************)
(* Proofs about SessionCoordinator, for every bound on generations,        *)
(* sequence numbers and buffered frames.                                   *)
(***************************************************************************)
EXTENDS SessionCoordinator, SequenceTheorems, TLAPS

(***************************************************************************)
(* The inductive invariant.  ReplicaIsAuthorityPrefix alone is not         *)
(* inductive: what is adopted is the draft plus the buffered frames, so    *)
(* both must be known to continue the cut the delivery started from, and   *)
(* the restore that ends must be the current delivery's.                   *)
(***************************************************************************)

\* A delivery is of the fenced generation and its state says where its events go.
DeliveryInv ==
    /\ HasDelivery => /\ delivery.gen \in Gens /\ delivery.gen = fence
                      /\ state \in {"replaying", "restoring", "live"}
    /\ ~HasDelivery => delivery = NoDelivery /\ state \notin {"replaying", "restoring", "live"}
    /\ HasDelivery => (state = "restoring" <=> delivery.candidate # "live")
    /\ delivery.committed => delivery.received >= delivery.expected
    /\ state = "live" => delivery.committed
    /\ delivery.committed /\ delivery.candidate # "none" => state = "live"

\* Buffered frames continue what is applied; a candidate has no buffer.
BufferInv ==
    /\ delivery.candidate = "none" => delivery.applied = delivery.base
    /\ delivery.received = delivery.applied + Len(delivery.buffered)
    /\ \A i \in DOMAIN delivery.buffered : delivery.buffered[i] = delivery.applied + i
    /\ delivery.candidate # "none" => delivery.buffered = <<>>

\* The candidate shows the authority's events up to delivery.applied.
DraftInv ==
    /\ delivery.candidate = "live" =>
          cursor = [gen |-> delivery.gen, seq |-> delivery.applied]
    /\ delivery.candidate = "restored" => draft = Authority(delivery.applied)

\* Between the start and its download, nothing is restored yet.
OpeningInv ==
    opening => /\ delivery.mode = "snapshot" /\ delivery.candidate = "none"
               /\ \A r \in restores : ~r.current

DrainInv == ready # <<>> => HasDelivery

IInv ==
    /\ TypeOK
    /\ DeliveryInv
    /\ BufferInv
    /\ DraftInv
    /\ OpeningInv
    /\ DrainInv
    /\ PendingIsFenced
    /\ CurrentRestoreIsOfDelivery
    /\ ReplicaIsAuthorityPrefix

-----------------------------------------------------------------------------
(* The authority's content *)

\* Writing event n + 1 after the first n events is the first n + 1 events: what
\* applyFrame does to a replica that is a prefix of the authority.
LEMMA AuthorityAppend ==
    ASSUME NEW n \in Nat
    PROVE  Append(Authority(n), n + 1) = Authority(n + 1)
<1>1. Authority(n) \in Seq(Nat) /\ Len(Authority(n)) = n
    BY DEF Authority
<1>2. Authority(n + 1) \in Seq(Nat) /\ Len(Authority(n + 1)) = n + 1
    BY DEF Authority
<1>3. Append(Authority(n), n + 1) \in Seq(Nat)
      /\ Len(Append(Authority(n), n + 1)) = n + 1
    BY <1>1, AppendProperties
<1>4. \A i \in 1 .. n + 1 : Append(Authority(n), n + 1)[i] = Authority(n + 1)[i]
    BY <1>1, AppendProperties DEF Authority
<1> QED
    BY <1>2, <1>3, <1>4, SeqEqual

\* A snapshot cut at n followed by buffered events that continue it is a prefix of
\* the authority: what #flushBuffered makes of a restored candidate.
LEMMA AuthorityConcat ==
    ASSUME NEW n \in Nat, NEW s \in Seq(Nat), \A i \in DOMAIN s : s[i] = n + i
    PROVE  Authority(n) \o s = Authority(n + Len(s))
<1>1. Authority(n) \in Seq(Nat) /\ Len(Authority(n)) = n
    BY DEF Authority
<1>0. Len(s) \in Nat /\ DOMAIN s = 1 .. Len(s)
    BY LenProperties
<1>2. Authority(n + Len(s)) \in Seq(Nat) /\ Len(Authority(n + Len(s))) = n + Len(s)
    BY <1>0 DEF Authority
<1>3. /\ Authority(n) \o s \in Seq(Nat)
      /\ Len(Authority(n) \o s) = Len(Authority(n)) + Len(s)
      /\ \A i \in 1 .. Len(Authority(n)) + Len(s) :
            (Authority(n) \o s)[i] = IF i <= Len(Authority(n)) THEN Authority(n)[i]
                                     ELSE s[i - Len(Authority(n))]
    BY <1>1, ConcatProperties, Zenon
<1>4. \A i \in 1 .. n + Len(s) : (Authority(n) \o s)[i] = Authority(n + Len(s))[i]
  <2> SUFFICES ASSUME NEW i \in 1 .. n + Len(s)
               PROVE  (Authority(n) \o s)[i] = i
      BY <1>0 DEF Authority
  <2>1. (Authority(n) \o s)[i] = IF i <= n THEN Authority(n)[i] ELSE s[i - n]
      BY <1>1, <1>3, Zenon
  <2>2. CASE i <= n
      BY <2>1, <2>2, <1>0 DEF Authority
  <2>3. CASE ~(i <= n)
    <3>1. i - n \in DOMAIN s
        BY <2>3, <1>0
    <3> QED
        BY <2>1, <2>3, <3>1, <1>0, SMTT(30)
  <2> QED
      BY <2>2, <2>3
<1> QED
    BY <1>1, <1>2, <1>3, <1>4, SeqEqual, ZenonT(60)

\* The content up to an event the model may reach is a content.
LEMMA AuthorityType ==
    ASSUME NEW n \in Seqs
    PROVE  Authority(n) \in Seq(Seqs)
BY BoundsAssumption DEF Authority, Seqs

-----------------------------------------------------------------------------
(* The inductive invariant *)

\* The null values have the types of what they stand for.
LEMMA NullTypes ==
    /\ 0 \in Seqs /\ 0 \in 0 .. MaxGen
    /\ NoCursor \in Cursor
    /\ NoDelivery \in Delivery
    /\ <<>> \in Seq(Seqs) /\ <<>> \in Seq(Frame)
<1>1. 0 \in Seqs /\ 0 \in 0 .. MaxGen
    BY BoundsAssumption DEF Seqs
<1>2. <<>> \in Seq(Seqs) /\ <<>> \in Seq(Frame)
    OBVIOUS
<1>3. NoCursor \in Cursor
    BY <1>1 DEF NoCursor, Cursor
<1>4. NoDelivery \in Delivery
    BY <1>1, <1>2 DEF NoDelivery, Delivery
<1> QED
    BY <1>1, <1>2, <1>3, <1>4

\* The coordinator starts idle, with the invariant: no delivery, no replica.
LEMMA InitInv == Init => IInv
<1> SUFFICES ASSUME Init PROVE IInv
    OBVIOUS
<1>1. TypeOK
    BY NullTypes DEF Init, TypeOK, States
<1> USE DEF Init, NoDelivery, NoCursor, HasDelivery
<1>2. DeliveryInv /\ DraftInv /\ OpeningInv /\ DrainInv
    BY DEF DeliveryInv, DraftInv, OpeningInv, DrainInv
<1>3. BufferInv
    BY DEF BufferInv
<1>4. PendingIsFenced /\ CurrentRestoreIsOfDelivery /\ ReplicaIsAuthorityPrefix
    BY DEF PendingIsFenced, CurrentRestoreIsOfDelivery, ReplicaIsAuthorityPrefix
<1> QED
    BY <1>1, <1>2, <1>3, <1>4 DEF IInv

\* Superseding the restores in flight leaves restores, none of them current.
LEMMA CancelledRestores ==
    ASSUME NEW inFlight, inFlight \subseteq Restore, CancelRestore(inFlight)
    PROVE  /\ restores' \subseteq Restore
           /\ \A r \in restores' : ~r.current
           /\ timer' = FALSE
BY DEF CancelRestore, Restore

\* A resync keeps the invariant, whatever it found, as long as the visible replica
\* is left alone or given up.
LEMMA ResyncInv ==
    ASSUME IInv,
           NEW inFlight, inFlight \subseteq restores, Resync(inFlight),
           fence' \in 0 .. MaxGen, cursor' \in Cursor, acked' \in Cursor,
           screen' \in Seq(Seqs), ReplicaIsAuthorityPrefix'
    PROVE  IInv'
<1>1. restores' \subseteq Restore /\ (\A r \in restores' : ~r.current) /\ timer' = FALSE
    BY CancelledRestores DEF Resync, DiscardPendingDelivery, IInv, TypeOK
<1>2. /\ state' = "resyncing"
      /\ delivery' = NoDelivery
      /\ draft' = <<>> /\ pending' = <<>> /\ ready' = <<>> /\ opening' = FALSE
    BY DEF Resync, DiscardPendingDelivery
<1>3. TypeOK'
    BY <1>1, <1>2, NullTypes DEF TypeOK, States
<1>4. DeliveryInv' /\ DraftInv' /\ OpeningInv' /\ DrainInv'
    BY <1>1, <1>2 DEF DeliveryInv, DraftInv, OpeningInv, DrainInv, HasDelivery, NoDelivery
<1>5. BufferInv'
    BY <1>2 DEF BufferInv, NoDelivery
<1>6. PendingIsFenced' /\ CurrentRestoreIsOfDelivery'
    BY <1>1, <1>2 DEF PendingIsFenced, CurrentRestoreIsOfDelivery
<1> QED
    BY <1>3, <1>4, <1>5, <1>6 DEF IInv

\* A newer generation found no handler half way: it discards the delivery in flight
\* and keeps at most frames of its own.
LEMMA FencedInv ==
    ASSUME IInv, fence' \in Gens, state' = "awaiting-control",
           ready = <<>>, ~opening,
           pending' \in Seq(Frame), \A i \in DOMAIN pending' : pending'[i].gen = fence',
           IF HasDelivery THEN DiscardPendingDelivery(restores)
                          ELSE UNCHANGED <<delivery, draft, restores, timer>>,
           UNCHANGED <<cursor, screen, ready, opening, acked>>
    PROVE  IInv'
<1> USE DEF IInv
<1>1. restores' \subseteq Restore /\ (\A r \in restores' : ~r.current) /\ timer' \in BOOLEAN
  <2>1. CASE HasDelivery
      BY <2>1, CancelledRestores DEF DiscardPendingDelivery, TypeOK
  <2>2. CASE ~HasDelivery
      BY <2>2, Zenon DEF HasDelivery, DeliveryInv, TypeOK, CurrentRestoreIsOfDelivery, NoDelivery
  <2> QED
      BY <2>1, <2>2
<1>2. delivery' = NoDelivery /\ draft' \in Seq(Seqs)
    BY NullTypes DEF DiscardPendingDelivery, DeliveryInv, TypeOK
<1>3. TypeOK'
    BY <1>1, <1>2, NullTypes DEF TypeOK, States, Gens
<1>4. DeliveryInv' /\ DraftInv' /\ OpeningInv' /\ DrainInv'
    BY <1>1, <1>2 DEF DeliveryInv, DraftInv, OpeningInv, DrainInv, HasDelivery, NoDelivery
<1>5. BufferInv'
    BY <1>2 DEF BufferInv, NoDelivery
<1>6. PendingIsFenced' /\ CurrentRestoreIsOfDelivery' /\ ReplicaIsAuthorityPrefix'
    BY <1>1, <1>2 DEF PendingIsFenced, CurrentRestoreIsOfDelivery, ReplicaIsAuthorityPrefix
<1> QED
    BY <1>3, <1>4, <1>5, <1>6

\* The generation filters keep frames, and only frames of the generation.
LEMMA PendingFromType ==
    ASSUME IInv, NEW gen \in Gens, gen >= fence
    PROVE  /\ PendingFrom(gen) \in Seq(Frame)
           /\ \A i \in DOMAIN PendingFrom(gen) : PendingFrom(gen)[i].gen = gen
<1> USE DEF IInv, PendingFrom
<1>1. CASE gen > fence
    BY <1>1, NullTypes
<1>2. CASE gen = fence
    BY <1>2, NullTypes DEF PendingIsFenced, TypeOK, Gens
<1> QED
    BY <1>1, <1>2, BoundsAssumption DEF TypeOK, Gens

\* fenceDeliveryGeneration keeps the invariant: an older generation is ignored, a newer
\* one discards what was in flight.
LEMMA FenceInv ==
    ASSUME IInv, NEW gen \in Gens, FenceDeliveryGeneration(gen)
    PROVE  IInv'
<1>1. gen >= fence
    BY BoundsAssumption DEF FenceDeliveryGeneration, Gens, IInv, TypeOK
<1> QED
    BY <1>1, PendingFromType, FencedInv DEF FenceDeliveryGeneration, Returned

\* A start that conflicts with the fence or the delivery (#acceptDeliveryStart) ends in a
\* resync, which keeps the invariant.
LEMMA ConflictInv ==
    ASSUME IInv, NEW mode, NEW gen, NEW base, NEW commit,
           ConflictingStart(mode, gen, base, commit)
    PROVE  IInv'
BY ResyncInv DEF ConflictingStart, RequestResync, IInv, TypeOK, ReplicaIsAuthorityPrefix

\* A delivery that starts replaces the one in flight and supersedes its restore.
LEMMA StartInv ==
    ASSUME IInv, NEW mode \in {"warm", "snapshot"}, NEW gen \in Gens, NEW base \in Seqs,
           NEW commit \in Seqs, AcceptsStart(gen),
           fence' = gen, CancelRestore(restores), draft' = <<>>,
           delivery' = NewDelivery(mode, gen, base, commit,
                                   IF mode = "warm" THEN "live" ELSE "none"),
           mode = "warm" => /\ cursor.seq = base /\ cursor # NoCursor
                            /\ cursor' = [gen |-> gen, seq |-> base]
                            /\ state' = "replaying"
                            /\ UNCHANGED opening,
           mode = "snapshot" => state' = "restoring" /\ opening' = TRUE /\ UNCHANGED cursor,
           TakePendingFrames(gen), UNCHANGED <<screen, acked>>
    PROVE  IInv'
<1> USE DEF IInv
<1>1. restores' \subseteq Restore /\ (\A r \in restores' : ~r.current) /\ timer' = FALSE
    BY CancelledRestores DEF TypeOK
<1>2. ready' \in Seq(Frame) /\ (\A i \in DOMAIN ready' : ready'[i].gen = gen) /\ pending' = <<>>
  <2>1. gen >= fence
      BY DEF AcceptsStart
  <2> QED
      BY <2>1, PendingFromType DEF TakePendingFrames
<1>3. fence' \in 0 .. MaxGen /\ delivery' \in Delivery
    BY NullTypes, BoundsAssumption DEF NewDelivery, Delivery, Gens
<1>4. opening' \in BOOLEAN /\ (mode = "warm" => ~opening')
  <2>1. opening = FALSE
      BY Zenon DEF AcceptsStart, Returned, TypeOK
  <2> QED
      BY <2>1
<1>5. cursor' \in Cursor
    BY <1>3 DEF TypeOK, Cursor
<1>6. TypeOK'
    BY <1>1, <1>2, <1>3, <1>4, <1>5, NullTypes DEF TypeOK, States
<1>7. DeliveryInv' /\ DraftInv' /\ OpeningInv' /\ DrainInv'
    BY <1>1, <1>4 DEF DeliveryInv, DraftInv, OpeningInv, DrainInv, HasDelivery, NewDelivery, NoDelivery
<1>8. BufferInv'
    BY DEF BufferInv, NewDelivery, Seqs
<1>9. PendingIsFenced' /\ CurrentRestoreIsOfDelivery'
    BY <1>1, <1>2 DEF PendingIsFenced, CurrentRestoreIsOfDelivery, NewDelivery
<1>10. ReplicaIsAuthorityPrefix'
    BY DEF ReplicaIsAuthorityPrefix
<1> QED
    BY <1>6, <1>7, <1>8, <1>9, <1>10

\* startWarmReplay keeps the invariant.
LEMMA WarmInv ==
    ASSUME IInv, NEW gen \in Gens, NEW base \in Seqs, NEW commit \in Seqs,
           StartWarmReplay(gen, base, commit)
    PROVE  IInv'
<1>1. CASE commit < base \/ cursor = NoCursor \/ cursor.seq # base
    BY <1>1, ResyncInv DEF StartWarmReplay, RequestResync, IInv, TypeOK, Gens,
                           ReplicaIsAuthorityPrefix
<1>2. CASE ~(commit < base \/ cursor = NoCursor \/ cursor.seq # base)
    BY <1>2, StartInv DEF StartWarmReplay
<1> QED
    BY <1>1, <1>2

\* startSnapshot keeps the invariant, up to its first await.
LEMMA SnapshotInv ==
    ASSUME IInv, NEW gen \in Gens, NEW cut \in Seqs, NEW commit \in Seqs,
           StartSnapshot(gen, cut, commit)
    PROVE  IInv'
<1>1. CASE commit < cut
    BY <1>1, ResyncInv DEF StartSnapshot, RequestResync, IInv, TypeOK, Gens,
                           ReplicaIsAuthorityPrefix
<1>2. CASE ~(commit < cut)
    BY <1>2, StartInv DEF StartSnapshot
<1> QED
    BY <1>1, <1>2

\* startSnapshot's call of the restore keeps the invariant: it is the delivery's own.
LEMMA BeginRestoreInv ==
    ASSUME IInv, BeginRestore
    PROVE  IInv'
<1> DEFINE r == [gen |-> delivery.gen, cut |-> delivery.base, current |-> TRUE]
<1> USE DEF IInv, BeginRestore
<1>1. /\ HasDelivery /\ delivery.mode = "snapshot" /\ delivery.candidate = "none"
      /\ delivery.gen = fence
    BY DEF OpeningInv, DeliveryInv, HasDelivery, TypeOK
<1>2. r \in Restore
  <2>1. delivery.gen \in Gens
      BY <1>1 DEF DeliveryInv
  <2> QED
      BY <2>1 DEF Restore, TypeOK, Delivery
<1>3. TypeOK'
    BY <1>2 DEF TypeOK
<1>4. DeliveryInv' /\ BufferInv' /\ DraftInv' /\ DrainInv'
    BY DEF DeliveryInv, BufferInv, DraftInv, DrainInv, HasDelivery
<1>5. OpeningInv' /\ PendingIsFenced' /\ ReplicaIsAuthorityPrefix'
    BY DEF OpeningInv, PendingIsFenced, ReplicaIsAuthorityPrefix
<1>6. CurrentRestoreIsOfDelivery'
    BY <1>1 DEF OpeningInv, CurrentRestoreIsOfDelivery
<1> QED
    BY <1>3, <1>4, <1>5, <1>6

\* A failed restore keeps the invariant.
LEMMA RestoreFailsInv ==
    ASSUME IInv, NEW r \in restores, RestoreFails(r)
    PROVE  IInv'
BY ResyncInv DEF RestoreFails, IInv, TypeOK, ReplicaIsAuthorityPrefix

\* The restore deadline keeps the invariant.
LEMMA DeadlineInv ==
    ASSUME IInv, RestoreDeadline
    PROVE  IInv'
BY ResyncInv DEF RestoreDeadline, RequestResync, IInv, TypeOK, ReplicaIsAuthorityPrefix

\* The end of a superseded restore (the attempt check of startSnapshot) changes nothing that
\* is shown.
LEMMA SupersededInv ==
    ASSUME IInv, NEW r \in restores, FinishSupersededRestore(r)
    PROVE  IInv'
<1> USE DEF IInv, FinishSupersededRestore
<1>1. TypeOK'
    BY DEF TypeOK
<1>2. DeliveryInv' /\ BufferInv' /\ DraftInv' /\ DrainInv'
    BY DEF DeliveryInv, BufferInv, DraftInv, DrainInv, HasDelivery
<1>3. OpeningInv' /\ PendingIsFenced' /\ CurrentRestoreIsOfDelivery' /\ ReplicaIsAuthorityPrefix'
    BY DEF OpeningInv, PendingIsFenced, CurrentRestoreIsOfDelivery, ReplicaIsAuthorityPrefix
<1> QED
    BY <1>1, <1>2, <1>3

\* close keeps the invariant.
LEMMA CloseInv ==
    ASSUME IInv, Close
    PROVE  IInv'
<1> USE DEF IInv, Close, DiscardPendingDelivery
<1>1. restores' \subseteq Restore /\ (\A r \in restores' : ~r.current) /\ timer' = FALSE
    BY CancelledRestores DEF TypeOK
<1>2. TypeOK'
    BY <1>1, NullTypes DEF TypeOK, States
<1>3. DeliveryInv' /\ DraftInv' /\ OpeningInv' /\ DrainInv'
    BY <1>1 DEF DeliveryInv, DraftInv, OpeningInv, DrainInv, HasDelivery, NoDelivery, Returned
<1>4. BufferInv'
    BY DEF BufferInv, NoDelivery
<1>5. PendingIsFenced' /\ CurrentRestoreIsOfDelivery' /\ ReplicaIsAuthorityPrefix'
    BY <1>1 DEF PendingIsFenced, CurrentRestoreIsOfDelivery, ReplicaIsAuthorityPrefix, Returned
<1> QED
    BY <1>2, <1>3, <1>4, <1>5

\* The restored snapshot and the frames buffered behind it are the authority's events
\* up to the last one received: what is adopted, or kept until its commit.
LEMMA RestoredContent ==
    ASSUME IInv, delivery.candidate = "none", HasDelivery
    PROVE  /\ delivery.applied = delivery.base
           /\ delivery.applied + Len(delivery.buffered) = delivery.received
           /\ Authority(delivery.base) \o delivery.buffered = Authority(delivery.received)
           /\ Authority(delivery.received) \in Seq(Seqs)
<1> USE DEF IInv
<1>1. delivery \in Delivery
    BY DEF TypeOK
<1>2. /\ delivery.base \in Nat /\ delivery.received \in Seqs
      /\ delivery.buffered \in Seq(Seqs) /\ delivery.buffered \in Seq(Nat)
    BY <1>1, BoundsAssumption DEF Delivery, Seqs
<1>3. /\ delivery.applied = delivery.base
      /\ delivery.applied + Len(delivery.buffered) = delivery.received
      /\ \A i \in DOMAIN delivery.buffered : delivery.buffered[i] = delivery.base + i
    BY DEF BufferInv
<1>4. Authority(delivery.base) \o delivery.buffered = Authority(delivery.base + Len(delivery.buffered))
    BY <1>2, <1>3, AuthorityConcat, Zenon
<1> QED
    BY <1>2, <1>3, <1>4, AuthorityType

\* The end of the current restore keeps the invariant: #flushBuffered applies what was
\* buffered, and #tryCommit may adopt the candidate.
LEMMA FinishRestoreInv ==
    ASSUME IInv, NEW r \in restores, FinishRestore(r)
    PROVE  IInv'
<1> USE DEF IInv
<1> DEFINE d == [delivery EXCEPT !.candidate = "restored",
                                 !.applied = delivery.received, !.buffered = <<>>]
           content == Authority(delivery.received)
<1>1. /\ delivery.mode = "snapshot" /\ delivery.candidate = "none"
      /\ r.gen = delivery.gen /\ r.cut = delivery.base /\ HasDelivery
    BY DEF FinishRestore, CurrentRestoreIsOfDelivery, HasDelivery
<1>2. /\ delivery.applied + Len(delivery.buffered) = delivery.received
      /\ Authority(r.cut) \o delivery.buffered = content
      /\ content \in Seq(Seqs)
    BY <1>1, RestoredContent, Zenon
<1>3. delivery \in Delivery /\ delivery.received \in Seqs /\ Len(<<>>) = 0
    BY DEF TypeOK, Delivery
<1>4. /\ delivery.gen = fence /\ state = "restoring"
      /\ delivery.committed => delivery.received >= delivery.expected
    BY <1>1 DEF DeliveryInv
<1>5. /\ restores' \subseteq restores
      /\ UNCHANGED <<fence, pending, ready, opening, acked>>
      /\ ready = <<>> /\ ~opening
    BY DEF FinishRestore, Returned
<1>6. \A q \in restores' : ~q.current
  <2>1. ASSUME NEW q \in restores, q.current PROVE q = r
      BY <2>1 DEF FinishRestore, CurrentRestoreIsOfDelivery, TypeOK, Restore
  <2> QED
      BY <2>1 DEF FinishRestore
<1>7. \/ delivery.committed /\ Adopt(d, content)
      \/ /\ ~delivery.committed
         /\ delivery' = d /\ draft' = content /\ UNCHANGED <<state, cursor, screen, timer>>
  <2> DEFINE e == [delivery EXCEPT !.candidate = "restored",
                                   !.applied = delivery.applied + Len(delivery.buffered),
                                   !.buffered = <<>>]
  <2>1. e = d
      BY <1>2, Zenon
  <2>2. e.committed = delivery.committed
      BY <1>3 DEF Delivery
  <2>3. \/ e.committed /\ Adopt(e, Authority(r.cut) \o delivery.buffered)
        \/ /\ ~e.committed
           /\ delivery' = e /\ draft' = Authority(r.cut) \o delivery.buffered
           /\ UNCHANGED <<state, cursor, screen, timer>>
      BY Zenon DEF FinishRestore
  <2> QED
      BY <1>2, <2>1, <2>2, <2>3, Zenon
<1>8. CASE delivery.committed
  <2>1. /\ screen' = content
        /\ cursor' = [gen |-> delivery.gen, seq |-> delivery.received]
        /\ delivery' = [d EXCEPT !.candidate = "live"]
        /\ draft' = <<>> /\ state' = "live" /\ timer' = FALSE
      BY <1>3, <1>7, <1>8 DEF Adopt, Delivery
  <2>2. TypeOK'
      BY <1>2, <1>3, <1>5, <2>1, NullTypes DEF TypeOK, States, Delivery, Cursor
  <2>3. DeliveryInv' /\ DraftInv' /\ OpeningInv' /\ DrainInv'
      BY <1>1, <1>3, <1>4, <1>5, <1>8, <2>1
      DEF DeliveryInv, DraftInv, OpeningInv, DrainInv, HasDelivery, Delivery
  <2>4. BufferInv'
      BY <1>3, <2>1 DEF BufferInv, Delivery, Seqs
  <2>5. PendingIsFenced' /\ CurrentRestoreIsOfDelivery'
      BY <1>5, <1>6 DEF PendingIsFenced, CurrentRestoreIsOfDelivery
  <2>6. ReplicaIsAuthorityPrefix'
      BY <2>1 DEF ReplicaIsAuthorityPrefix
  <2> QED
      BY <2>2, <2>3, <2>4, <2>5, <2>6
<1>9. CASE ~delivery.committed
  <2>1. delivery' = d /\ draft' = content /\ UNCHANGED <<state, cursor, screen, timer>>
      BY <1>7, <1>9
  <2>2. TypeOK'
      BY <1>2, <1>3, <1>5, <2>1, NullTypes DEF TypeOK, States, Delivery
  <2>3. DeliveryInv' /\ DraftInv' /\ OpeningInv' /\ DrainInv'
      BY <1>1, <1>3, <1>4, <1>5, <1>9, <2>1
      DEF DeliveryInv, DraftInv, OpeningInv, DrainInv, HasDelivery, Delivery
  <2>4. BufferInv'
      BY <1>3, <2>1 DEF BufferInv, Delivery, Seqs
  <2>5. PendingIsFenced' /\ CurrentRestoreIsOfDelivery' /\ ReplicaIsAuthorityPrefix'
      BY <1>5, <1>6, <2>1 DEF PendingIsFenced, CurrentRestoreIsOfDelivery, ReplicaIsAuthorityPrefix
  <2> QED
      BY <2>2, <2>3, <2>4, <2>5
<1> QED
    BY <1>8, <1>9

-----------------------------------------------------------------------------
(* Data frames *)

\* What #acceptFrame may rely on: the frame is either a new one, of any generation,
\* met with no handler half way, or one the drain loop took, of the fenced generation.
Accepting(f, rest) ==
    /\ f \in Frame
    /\ rest \in Seq(Frame)
    /\ f.gen > fence => ready = <<>> /\ ~opening
    /\ \A i \in DOMAIN rest : rest[i].gen = fence /\ delivery.gen = fence
    /\ rest # <<>> => HasDelivery

\* A frame of a newer generation (#acceptFrame) keeps the invariant.
LEMMA NewerInv ==
    ASSUME IInv, NEW f, NEW rest, Accepting(f, rest), AcceptNewerGeneration(f)
    PROVE  IInv'
<1> DEFINE frames == Append(PendingFrom(f.gen), f)
<1>1. f \in Frame /\ f.gen \in Gens /\ f.gen >= fence
    BY BoundsAssumption DEF Accepting, Frame, AcceptNewerGeneration, Gens, IInv, TypeOK
<1>2. frames = <<f>> /\ frames \in Seq(Frame)
  <2>1. PendingFrom(f.gen) = <<>>
      BY DEF AcceptNewerGeneration, PendingFrom
  <2> QED
      BY <1>1, <2>1
<1>3. CASE f.kind = "reset" \/ OverBudget(frames, <<>>)
    BY <1>1, <1>3, ResyncInv DEF AcceptNewerGeneration, RequestResync, IInv, TypeOK, Gens,
                                 ReplicaIsAuthorityPrefix
<1>4. CASE ~(f.kind = "reset" \/ OverBudget(frames, <<>>))
  <2>1. /\ state' = "awaiting-control" /\ pending' = frames /\ fence' = f.gen
        /\ IF HasDelivery THEN DiscardPendingDelivery(restores)
                          ELSE UNCHANGED <<delivery, draft, restores, timer>>
        /\ UNCHANGED <<cursor, screen, ready, opening, acked>>
      BY <1>4, Zenon DEF AcceptNewerGeneration
  <2>2. ready = <<>> /\ ~opening
      BY DEF Accepting, AcceptNewerGeneration
  <2>3. \A i \in DOMAIN pending' : pending'[i].gen = fence'
      BY <1>2, <2>1
  <2> QED
      BY <1>1, <1>2, <2>1, <2>2, <2>3, FencedInv
<1> QED
    BY <1>3, <1>4

\* #bufferPendingFrame keeps the invariant, within the budget or over it.
LEMMA BufferPendingInv ==
    ASSUME IInv, NEW f, NEW rest, Accepting(f, rest), BufferPendingFrame(f)
    PROVE  IInv'
<1> USE DEF IInv
<1>1. CASE OverBudget(Append(pending, f), <<>>)
    BY <1>1, ResyncInv DEF BufferPendingFrame, RequestResync, TypeOK, ReplicaIsAuthorityPrefix
<1>2. CASE ~OverBudget(Append(pending, f), <<>>)
  <2>1. /\ pending' = Append(pending, f)
        /\ UNCHANGED <<state, delivery, draft, ready, opening, restores, timer,
                       fence, cursor, screen, acked>>
      BY <1>2 DEF BufferPendingFrame
  <2>2. pending' \in Seq(Frame) /\ \A i \in DOMAIN pending' : pending'[i].gen = fence
    <3>1. f \in Frame /\ pending \in Seq(Frame) /\ f.gen = fence
        BY DEF Accepting, BufferPendingFrame, TypeOK
    <3>2. \A i \in DOMAIN pending : pending[i].gen = fence
        BY DEF PendingIsFenced
    <3> QED
        BY <2>1, <3>1, <3>2
  <2>3. TypeOK'
      BY <2>1, <2>2 DEF TypeOK
  <2>4. DeliveryInv' /\ BufferInv' /\ DraftInv' /\ OpeningInv' /\ DrainInv'
      BY <2>1 DEF DeliveryInv, BufferInv, DraftInv, OpeningInv, DrainInv, HasDelivery
  <2>5. PendingIsFenced' /\ CurrentRestoreIsOfDelivery' /\ ReplicaIsAuthorityPrefix'
      BY <2>1, <2>2 DEF PendingIsFenced, CurrentRestoreIsOfDelivery, ReplicaIsAuthorityPrefix
  <2> QED
      BY <2>3, <2>4, <2>5
<1> QED
    BY <1>1, <1>2

\* A frame that #acceptFrame rejects keeps the invariant.
LEMMA RejectInv ==
    ASSUME IInv, NEW f, RejectFrame(f)
    PROVE  IInv'
BY ResyncInv DEF RejectFrame, RequestResync, IInv, TypeOK, ReplicaIsAuthorityPrefix

\* An event that arrives during a restore is buffered or exceeds the budget; both keep the
\* invariant.
LEMMA BufferEventInv ==
    ASSUME IInv, NEW f, NEW rest, Accepting(f, rest), BufferEvent(f, rest)
    PROVE  IInv'
<1> USE DEF IInv
<1> DEFINE buffered == Append(delivery.buffered, f.seq)
<1>1. CASE OverBudget(pending, buffered)
    BY <1>1, ResyncInv DEF BufferEvent, RequestResync, TypeOK, ReplicaIsAuthorityPrefix
<1>2. CASE ~OverBudget(pending, buffered)
  <2>1. /\ delivery' = [delivery EXCEPT !.received = f.seq, !.buffered = buffered]
        /\ acked' = [gen |-> f.gen, seq |-> f.seq]
        /\ ready' = rest
        /\ UNCHANGED <<state, draft, pending, opening, restores, timer, fence, cursor, screen>>
      BY <1>2 DEF BufferEvent
  <2>2. /\ f.seq \in Seqs /\ f.gen \in 0 .. MaxGen
        /\ delivery \in Delivery /\ rest \in Seq(Frame)
      BY DEF Accepting, Frame, Gens, TypeOK
  <2>3. f.seq = delivery.received + 1 /\ delivery.candidate = "none" /\ HasDelivery
      BY DEF BufferEvent, ContinuesDelivery
  <2>4. buffered \in Seq(Seqs) /\ delivery.buffered \in Seq(Seqs)
      BY <2>2 DEF Delivery
  <2>5. TypeOK'
      BY <2>1, <2>2, <2>4 DEF TypeOK, Delivery, Cursor
  <2>6. DeliveryInv' /\ DraftInv' /\ OpeningInv' /\ DrainInv'
      BY <2>1, <2>2, <2>3 DEF DeliveryInv, DraftInv, OpeningInv, DrainInv, HasDelivery, Delivery,
                              Accepting, Seqs
  <2>7. BufferInv'
      BY <2>1, <2>2, <2>3, <2>4, BoundsAssumption, SMTT(30) DEF BufferInv, Delivery, Seqs
  <2>8. PendingIsFenced' /\ CurrentRestoreIsOfDelivery' /\ ReplicaIsAuthorityPrefix'
      BY <2>1, <2>2 DEF PendingIsFenced, CurrentRestoreIsOfDelivery, ReplicaIsAuthorityPrefix,
                        Accepting, Delivery
  <2> QED
      BY <2>5, <2>6, <2>7, <2>8
<1> QED
    BY <1>1, <1>2

\* An event applied to the visible replica or to the candidate keeps the invariant.
LEMMA ApplyEventInv ==
    ASSUME IInv, NEW f, NEW rest, Accepting(f, rest), ApplyEvent(f, rest)
    PROVE  IInv'
<1> USE DEF IInv
<1>1. /\ delivery' = [delivery EXCEPT !.received = f.seq, !.applied = f.seq]
      /\ acked' = [gen |-> f.gen, seq |-> f.seq]
      /\ ready' = rest
      /\ UNCHANGED <<state, fence, pending, opening, restores, timer>>
    BY DEF ApplyEvent
<1>2. /\ f.seq \in Seqs /\ f.gen \in 0 .. MaxGen
      /\ delivery \in Delivery /\ rest \in Seq(Frame)
    BY DEF Accepting, Frame, Gens, TypeOK
<1>3. /\ f.seq = delivery.received + 1 /\ delivery.candidate # "none" /\ HasDelivery
      /\ f.gen = fence
    BY DEF ApplyEvent, ContinuesDelivery
<1>4. delivery.buffered = <<>> /\ delivery.applied = delivery.received
    BY <1>2, <1>3 DEF BufferInv, Delivery, Seqs
<1>5. delivery.received \in Nat /\ Append(Authority(delivery.received), f.seq) = Authority(f.seq)
  <2>1. delivery.received \in Nat
      BY <1>2, BoundsAssumption DEF Delivery, Seqs
  <2> QED
      BY <1>3, <2>1, AuthorityAppend, Zenon
<1>6. CASE delivery.candidate = "live"
  <2>1. screen' = Append(screen, f.seq) /\ cursor' = [gen |-> f.gen, seq |-> f.seq] /\ draft' = draft
      BY <1>6 DEF ApplyEvent
  <2>2. cursor = [gen |-> fence, seq |-> delivery.received] /\ cursor # NoCursor
    <3>1. cursor = [gen |-> fence, seq |-> delivery.received] /\ fence \in Gens
        BY <1>3, <1>4, <1>6 DEF DraftInv, DeliveryInv
    <3> QED
        BY <3>1 DEF NoCursor, Gens
  <2>3. screen = Authority(delivery.received)
      BY <2>2 DEF ReplicaIsAuthorityPrefix
  <2>4. screen' = Authority(f.seq)
      BY <1>5, <2>1, <2>3
  <2>5. TypeOK'
      BY <1>1, <1>2, <2>1, <2>4, AuthorityType DEF TypeOK, Delivery, Cursor
  <2>6. DeliveryInv' /\ DraftInv' /\ OpeningInv' /\ DrainInv'
      BY <1>1, <1>2, <1>3, <1>6, <2>1
      DEF DeliveryInv, DraftInv, OpeningInv, DrainInv, HasDelivery, Delivery, Accepting, Seqs
  <2>7. BufferInv'
      BY <1>1, <1>2, <1>4, <1>6, BoundsAssumption DEF BufferInv, Delivery, Seqs
  <2>8. PendingIsFenced' /\ CurrentRestoreIsOfDelivery'
      BY <1>1, <1>2 DEF PendingIsFenced, CurrentRestoreIsOfDelivery, Accepting, Delivery
  <2>9. ReplicaIsAuthorityPrefix'
      BY <2>1, <2>4 DEF ReplicaIsAuthorityPrefix
  <2> QED
      BY <2>5, <2>6, <2>7, <2>8, <2>9
<1>7. CASE delivery.candidate = "restored"
  <2>1. draft' = Append(draft, f.seq) /\ UNCHANGED <<screen, cursor>>
      BY <1>7 DEF ApplyEvent
  <2>2. draft' = Authority(f.seq)
      BY <1>4, <1>5, <1>7, <2>1 DEF DraftInv
  <2>3. TypeOK'
      BY <1>1, <1>2, <2>1, <2>2, AuthorityType DEF TypeOK, Delivery, Cursor
  <2>4. DeliveryInv' /\ DraftInv' /\ OpeningInv' /\ DrainInv'
      BY <1>1, <1>2, <1>3, <1>7, <2>1, <2>2
      DEF DeliveryInv, DraftInv, OpeningInv, DrainInv, HasDelivery, Delivery, Accepting, Seqs
  <2>5. BufferInv'
      BY <1>1, <1>2, <1>4, <1>7, BoundsAssumption DEF BufferInv, Delivery, Seqs
  <2>6. PendingIsFenced' /\ CurrentRestoreIsOfDelivery' /\ ReplicaIsAuthorityPrefix'
      BY <1>1, <1>2, <2>1 DEF PendingIsFenced, CurrentRestoreIsOfDelivery,
                              ReplicaIsAuthorityPrefix, Accepting, Delivery
  <2> QED
      BY <2>3, <2>4, <2>5, <2>6
<1> QED
    BY <1>2, <1>3, <1>6, <1>7 DEF Delivery

\* A replica that throws on an event keeps the invariant.
LEMMA ApplyFailsInv ==
    ASSUME IInv, NEW f, NEW rest, Accepting(f, rest), ApplyFails(f)
    PROVE  IInv'
<1> USE DEF IInv
<1>1. f.seq \in Seqs /\ Append(screen, f.seq) \in Seq(Seqs)
    BY DEF Accepting, Frame, TypeOK
<1>2. \/ cursor' = NoCursor /\ screen' \in {screen, Append(screen, f.seq)}
      \/ UNCHANGED <<screen, cursor>>
    BY DEF ApplyFails
<1>3. screen' \in Seq(Seqs) /\ cursor' \in Cursor /\ ReplicaIsAuthorityPrefix'
    BY <1>1, <1>2, NullTypes DEF TypeOK, ReplicaIsAuthorityPrefix
<1>4. Resync(restores) /\ UNCHANGED <<fence, acked>>
    BY DEF ApplyFails, RequestResync
<1> QED
    BY <1>3, <1>4, ResyncInv DEF TypeOK

\* A candidate whose adoption throws keeps the invariant.
LEMMA AdoptFailsInv ==
    ASSUME IInv, NEW f, NEW rest, Accepting(f, rest), AdoptFails(f)
    PROVE  IInv'
<1>1. acked' \in Cursor
    BY DEF AdoptFails, Accepting, Frame, Cursor, Gens
<1> QED
    BY <1>1, ResyncInv DEF AdoptFails, RequestResync, IInv, TypeOK, ReplicaIsAuthorityPrefix

\* #acceptCommit and #tryCommit keep the invariant.
LEMMA CommitInv ==
    ASSUME IInv, NEW f, NEW rest, Accepting(f, rest), AcceptCommit(f, rest)
    PROVE  IInv'
<1> USE DEF IInv
<1> DEFINE d == [delivery EXCEPT !.committed = TRUE]
<1>1. /\ f.seq = delivery.received /\ f.seq = delivery.expected /\ f.gen = fence /\ HasDelivery
      /\ delivery.received >= delivery.expected
      /\ f.seq \in Seqs /\ f.gen \in 0 .. MaxGen
      /\ delivery \in Delivery /\ rest \in Seq(Frame)
    BY BoundsAssumption DEF AcceptCommit, CompletesDelivery, Accepting, Frame, Gens, Seqs, TypeOK
<1>2. /\ acked' = [gen |-> f.gen, seq |-> f.seq]
      /\ ready' = rest
      /\ UNCHANGED <<fence, pending, opening, restores>>
    BY DEF AcceptCommit
<1>3. d.candidate = delivery.candidate
    BY <1>1 DEF Delivery
<1>4. CASE d.candidate \in {"none", "live"}
  <2>1. /\ delivery' = d /\ UNCHANGED <<cursor, screen, draft>>
        /\ \/ d.candidate = "none" /\ UNCHANGED <<state, timer>>
           \/ d.candidate = "live" /\ state' = "live" /\ timer' = FALSE
      BY <1>4, Zenon DEF AcceptCommit
  <2>2. TypeOK'
      BY <1>1, <1>2, <2>1 DEF TypeOK, States, Delivery, Cursor
  <2>3. DeliveryInv' /\ DraftInv' /\ OpeningInv' /\ DrainInv'
      BY <1>1, <1>2, <1>3, <2>1
      DEF DeliveryInv, DraftInv, OpeningInv, DrainInv, HasDelivery, Delivery, Accepting
  <2>4. BufferInv'
      BY <1>1, <2>1 DEF BufferInv, Delivery
  <2>5. PendingIsFenced' /\ CurrentRestoreIsOfDelivery' /\ ReplicaIsAuthorityPrefix'
      BY <1>1, <1>2, <2>1 DEF PendingIsFenced, CurrentRestoreIsOfDelivery,
                              ReplicaIsAuthorityPrefix, Accepting, Delivery
  <2> QED
      BY <2>2, <2>3, <2>4, <2>5
<1>5. CASE d.candidate = "restored"
  <2>1. /\ screen' = draft /\ cursor' = [gen |-> d.gen, seq |-> d.applied]
        /\ delivery' = [d EXCEPT !.candidate = "live"]
        /\ draft' = <<>> /\ state' = "live" /\ timer' = FALSE
      BY <1>5 DEF AcceptCommit, Adopt
  <2>2. screen' = Authority(delivery.applied)
        /\ cursor' = [gen |-> delivery.gen, seq |-> delivery.applied]
      BY <1>1, <1>3, <1>5, <2>1 DEF DraftInv, Delivery
  <2>3. TypeOK'
    <3>1. cursor' \in Cursor /\ acked' \in Cursor
        BY <1>1, <1>2, <2>2 DEF Delivery, Cursor
    <3>2. delivery' \in Delivery
        BY <1>1, <2>1 DEF Delivery
    <3>3. screen' \in Seq(Seqs) /\ draft' \in Seq(Seqs)
        BY <2>1, NullTypes DEF TypeOK
    <3> QED
        BY <1>1, <1>2, <2>1, <3>1, <3>2, <3>3 DEF TypeOK, States
  <2>4. DeliveryInv' /\ DraftInv' /\ OpeningInv' /\ DrainInv'
      BY <1>1, <1>2, <1>3, <1>5, <2>1, <2>2
      DEF DeliveryInv, DraftInv, OpeningInv, DrainInv, HasDelivery, Delivery, Accepting
  <2>5. BufferInv'
      BY <1>1, <1>3, <1>5, <2>1 DEF BufferInv, Delivery
  <2>6. PendingIsFenced' /\ CurrentRestoreIsOfDelivery' /\ ReplicaIsAuthorityPrefix'
      BY <1>1, <1>2, <1>3, <1>5, <2>1, <2>2
      DEF PendingIsFenced, CurrentRestoreIsOfDelivery, ReplicaIsAuthorityPrefix, Accepting, Delivery
  <2> QED
      BY <2>3, <2>4, <2>5, <2>6
<1> QED
    BY <1>1, <1>3, <1>4, <1>5 DEF Delivery

\* Whatever #acceptFrame makes of the frame, the invariant is kept.
LEMMA AcceptFrameInv ==
    ASSUME IInv, NEW f, NEW rest, Accepting(f, rest), AcceptFrame(f, rest)
    PROVE  IInv'
BY NewerInv, BufferPendingInv, RejectInv, BufferEventInv, ApplyEventInv, ApplyFailsInv,
   CommitInv, AdoptFailsInv DEF AcceptFrame

\* acceptData keeps the invariant.
LEMMA AcceptDataInv ==
    ASSUME IInv, NEW f \in Frame, AcceptData(f)
    PROVE  IInv'
<1>1. Accepting(f, <<>>)
    BY NullTypes DEF Accepting, AcceptData, Returned
<1> QED
    BY <1>1, AcceptFrameInv DEF AcceptData

\* One frame of #drainPendingFrames keeps the invariant.
LEMMA DrainFrameInv ==
    ASSUME IInv, DrainPendingFrame
    PROVE  IInv'
<1>1. ready \in Seq(Frame) /\ ready # <<>>
    BY DEF IInv, TypeOK, DrainPendingFrame
<1>2. Head(ready) \in Frame /\ Tail(ready) \in Seq(Frame)
    BY <1>1
<1>3. /\ Head(ready).gen = fence
      /\ \A i \in DOMAIN Tail(ready) : Tail(ready)[i].gen = fence /\ delivery.gen = fence
    BY <1>1 DEF IInv, PendingIsFenced
<1>4. fence \in Nat /\ HasDelivery
    BY <1>1, BoundsAssumption DEF IInv, TypeOK, DrainInv
<1>5. Accepting(Head(ready), Tail(ready))
    BY <1>2, <1>3, <1>4 DEF Accepting
<1> QED
    BY <1>5, AcceptFrameInv DEF DrainPendingFrame

-----------------------------------------------------------------------------
(* Theorems *)

\* Every step, and stuttering, keeps the strengthening.
LEMMA StepInv == IInv /\ [Next]_vars => IInv'
<1> SUFFICES ASSUME IInv, [Next]_vars PROVE IInv'
    OBVIOUS
<1>1. ASSUME NEW gen \in Gens, FenceDeliveryGeneration(gen) PROVE IInv'
    BY <1>1, FenceInv
<1>2. ASSUME NEW mode \in {"warm", "snapshot"}, NEW gen \in Gens, NEW base \in Seqs,
             NEW commit \in Seqs, ConflictingStart(mode, gen, base, commit)
      PROVE IInv'
    BY <1>2, ConflictInv
<1>3. ASSUME NEW gen \in Gens, NEW base \in Seqs, NEW commit \in Seqs,
             StartWarmReplay(gen, base, commit)
      PROVE IInv'
    BY <1>3, WarmInv
<1>4. ASSUME NEW gen \in Gens, NEW cut \in Seqs, NEW commit \in Seqs,
             StartSnapshot(gen, cut, commit)
      PROVE IInv'
    BY <1>4, SnapshotInv
<1>5. CASE BeginRestore
    BY <1>5, BeginRestoreInv
<1>6. ASSUME NEW f \in Frame, AcceptData(f) PROVE IInv'
    BY <1>6, AcceptDataInv
<1>7. CASE DrainPendingFrame
    BY <1>7, DrainFrameInv
<1>8. ASSUME NEW r \in restores,
             FinishRestore(r) \/ FinishSupersededRestore(r) \/ RestoreFails(r)
      PROVE IInv'
    BY <1>8, FinishRestoreInv, SupersededInv, RestoreFailsInv
<1>9. CASE RestoreDeadline
    BY <1>9, DeadlineInv
<1>10. CASE Close
    BY <1>10, CloseInv
<1>11. CASE UNCHANGED vars
  <2> USE <1>11 DEF vars, IInv
  <2>1. TypeOK' /\ DeliveryInv' /\ BufferInv'
      BY DEF TypeOK, DeliveryInv, BufferInv, HasDelivery
  <2>2. DraftInv' /\ OpeningInv' /\ DrainInv'
      BY DEF DraftInv, OpeningInv, DrainInv, HasDelivery
  <2>3. PendingIsFenced' /\ CurrentRestoreIsOfDelivery' /\ ReplicaIsAuthorityPrefix'
      BY DEF PendingIsFenced, CurrentRestoreIsOfDelivery, ReplicaIsAuthorityPrefix
  <2> QED
      BY <2>1, <2>2, <2>3
<1> QED
    BY <1>1, <1>2, <1>3, <1>4, <1>5, <1>6, <1>7, <1>8, <1>9, <1>10, <1>11 DEF Next

\* The strengthening is an invariant of the coordinator, for every bound.
THEOREM Invariance == Spec => []IInv
BY InitInv, StepInv, PTL DEF Spec

\* Type correctness.
THEOREM TypeCorrect == Spec => []TypeOK
<1>1. IInv => TypeOK
    BY DEF IInv
<1> QED
    BY <1>1, Invariance, PTL

\* Whatever the two sockets deliver, in whatever order, and whichever restore ends
\* first, the visible replica is a prefix of the authority (#acceptFrame, #tryCommit).
THEOREM VisibleReplicaIsAuthorityPrefix == Spec => []ReplicaIsAuthorityPrefix
<1>1. IInv => ReplicaIsAuthorityPrefix
    BY DEF IInv
<1> QED
    BY <1>1, Invariance, PTL

\* A live terminal has passed its delivery's watermark and shows all it received
\* (#acceptCommit and #tryCommit are the only ways into the live state).
THEOREM LiveTerminalIsCaughtUp == Spec => []LiveIsCaughtUp
<1>1. IInv => LiveIsCaughtUp
  <2> SUFFICES ASSUME IInv, state = "live" PROVE LiveIsCaughtUp
      BY DEF LiveIsCaughtUp
  <2>1. /\ HasDelivery /\ delivery.gen = fence /\ delivery.candidate = "live"
        /\ delivery.received >= delivery.expected
      BY DEF IInv, DeliveryInv, HasDelivery, TypeOK, Delivery
  <2>2. delivery.applied = delivery.received
      BY <2>1 DEF IInv, BufferInv, TypeOK, Delivery, Seqs
  <2> QED
      BY <2>1, <2>2 DEF IInv, DraftInv, LiveIsCaughtUp
<1> QED
    BY <1>1, Invariance, PTL

\* The restore that may be adopted is the current delivery's (the attempt counter of
\* startSnapshot), and frames kept for a missing start are the fenced generation's.
THEOREM RestoresAndFramesAreFenced == Spec => [](CurrentRestoreIsOfDelivery /\ PendingIsFenced)
<1>1. IInv => CurrentRestoreIsOfDelivery /\ PendingIsFenced
    BY DEF IInv
<1> QED
    BY <1>1, Invariance, PTL

-----------------------------------------------------------------------------
(***************************************************************************)
(* What the steps may do: how acknowledgements and the visible replica may *)
(* change, and the budget of the frames held back.                         *)
(***************************************************************************)


\* The types these proofs calculate with.
LEMMA Numbers ==
    ASSUME TypeOK
    PROVE  /\ fence \in Nat /\ acked.gen \in Nat /\ acked.seq \in Nat
           /\ delivery \in Delivery /\ delivery.received \in Nat /\ delivery.expected \in Nat
           /\ delivery.applied \in Nat /\ delivery.gen \in Nat
           /\ cursor.seq \in Nat
BY BoundsAssumption DEF TypeOK, Cursor, Delivery, Seqs

-----------------------------------------------------------------------------
(* Acknowledgements *)

(***************************************************************************)
(* That acknowledgements advance is a property of steps.  It needs to know *)
(* how the last acknowledgement lies to the delivery: it is not ahead of   *)
(* what this one has received, and a delivery that has gone leaves no      *)
(* generation in which another could start below it.                       *)
(***************************************************************************)
AckInv ==
    /\ acked.gen <= fence
    /\ HasDelivery /\ acked.gen = fence => acked.seq <= delivery.received
    /\ ~HasDelivery /\ state \notin {"resyncing", "closed"} =>
          acked.gen < fence \/ acked.gen = 0

AckStep ==
    \/ acked'.gen > acked.gen
    \/ acked'.gen = acked.gen /\ acked'.seq >= acked.seq

\* A step that acknowledges nothing and ends in a resync, keeps no delivery.
LEMMA ResyncAck ==
    ASSUME TypeOK, TypeOK', AckInv, RequestResync, fence' >= fence, UNCHANGED acked
    PROVE  AckInv' /\ AckStep
<1>1. state' = "resyncing" /\ delivery' = NoDelivery
    BY DEF RequestResync, Resync, DiscardPendingDelivery
<1>2. fence' \in Nat /\ ~HasDelivery'
    BY <1>1, BoundsAssumption DEF TypeOK, HasDelivery, NoDelivery
<1> QED
    BY <1>1, <1>2, Numbers DEF AckInv, AckStep

\* A newer generation, whatever happens to the delivery in flight.
LEMMA NewerAck ==
    ASSUME TypeOK, TypeOK', AckInv, fence' > fence, UNCHANGED acked
    PROVE  AckInv' /\ AckStep
<1>1. fence' \in Nat
    BY BoundsAssumption DEF TypeOK
<1> QED
    BY <1>1, Numbers DEF AckInv, AckStep

\* A start is of a newer generation than everything acknowledged.
LEMMA StartAck ==
    ASSUME IInv, IInv', AckInv, NEW gen \in Gens, AcceptsStart(gen),
           fence' = gen, UNCHANGED acked
    PROVE  AckInv' /\ AckStep
<1>1. gen \in Nat /\ gen > 0 /\ gen >= fence
    BY DEF Gens, AcceptsStart
<1>2. acked.gen < gen
    BY <1>1, Numbers DEF AcceptsStart, AckInv, IInv, DeliveryInv
<1> QED
    BY <1>1, <1>2, Numbers DEF AckInv, AckStep, IInv

\* Acknowledging an event or a commit of the fenced generation, at what is received.
LEMMA ReceiveAck ==
    ASSUME IInv, IInv', AckInv, HasDelivery, NEW f \in Frame, f.gen = fence,
           UNCHANGED fence, acked' = [gen |-> f.gen, seq |-> f.seq],
           f.seq >= delivery.received, HasDelivery' => delivery'.received = f.seq,
           HasDelivery' \/ state' = "resyncing"
    PROVE  AckInv' /\ AckStep
<1>1. f.gen \in Nat /\ f.seq \in Nat /\ acked'.gen = f.gen /\ acked'.seq = f.seq
    BY BoundsAssumption DEF Frame, Gens, Seqs
<1> QED
    BY <1>1, Numbers DEF AckInv, AckStep, IInv

\* #acceptFrame
LEMMA AcceptFrameAck ==
    ASSUME IInv, IInv', AckInv, NEW f, NEW rest, Accepting(f, rest), AcceptFrame(f, rest)
    PROVE  AckInv' /\ AckStep
<1> USE DEF Accepting
<1>0. f \in Frame /\ f.seq \in Nat /\ TypeOK /\ TypeOK' /\ fence \in Nat
    BY Numbers, BoundsAssumption DEF Frame, Seqs, IInv
<1>1. CASE AcceptNewerGeneration(f)
    BY <1>0, <1>1, NewerAck DEF AcceptNewerGeneration
<1>2. CASE BufferPendingFrame(f)
  <2>1. CASE RequestResync
      BY <1>0, <1>2, <2>1, ResyncAck DEF BufferPendingFrame
  <2>2. CASE UNCHANGED <<state, delivery>>
      BY <1>0, <1>2, <2>2, Numbers DEF BufferPendingFrame, AckInv, AckStep, HasDelivery
  <2> QED
      BY <1>2, <2>1, <2>2 DEF BufferPendingFrame
<1>3. CASE RejectFrame(f)
    BY <1>0, <1>3, ResyncAck DEF RejectFrame
<1>4. CASE BufferEvent(f, rest)
  <2>1. CASE RequestResync /\ UNCHANGED acked
      BY <1>0, <1>4, <2>1, ResyncAck DEF BufferEvent
  <2>2. CASE /\ delivery' = [delivery EXCEPT !.received = f.seq,
                                 !.buffered = Append(delivery.buffered, f.seq)]
             /\ acked' = [gen |-> f.gen, seq |-> f.seq]
    <3>1. delivery'.received = f.seq /\ delivery'.mode = delivery.mode
        BY <1>0, <2>2, Numbers DEF Delivery
    <3> QED
        BY <1>0, <1>4, <2>2, <3>1, Numbers, ReceiveAck
        DEF BufferEvent, ContinuesDelivery, HasDelivery
  <2> QED
      BY <1>4, <2>1, <2>2 DEF BufferEvent
<1>5. CASE ApplyEvent(f, rest)
  <2>1. delivery'.received = f.seq /\ delivery'.mode = delivery.mode
      BY <1>0, <1>5, Numbers DEF Delivery, ApplyEvent
  <2> QED
      BY <1>0, <1>5, <2>1, Numbers, ReceiveAck, SMTT(30) DEF ApplyEvent, ContinuesDelivery, HasDelivery
<1>6. CASE ApplyFails(f)
    BY <1>0, <1>6, ResyncAck DEF ApplyFails
<1>7. CASE AcceptCommit(f, rest)
  <2>1. delivery'.received = delivery.received /\ delivery'.mode = delivery.mode
      BY <1>0, <1>7, Numbers DEF Delivery, AcceptCommit, Adopt
  <2> QED
    <3>1. /\ HasDelivery /\ f.gen = fence /\ f.seq = delivery.received
          /\ UNCHANGED fence /\ acked' = [gen |-> f.gen, seq |-> f.seq]
        BY <1>7 DEF AcceptCommit, CompletesDelivery
    <3>2. HasDelivery' /\ delivery'.received = f.seq /\ f.seq >= delivery.received
        BY <1>0, <2>1, <3>1 DEF HasDelivery
    <3> QED
        BY <1>0, <3>1, <3>2, ReceiveAck
<1>8. CASE AdoptFails(f)
  <2>1. state' = "resyncing" /\ ~HasDelivery'
      BY <1>8 DEF AdoptFails, RequestResync, Resync, DiscardPendingDelivery, HasDelivery, NoDelivery
  <2> QED
      BY <1>0, <1>8, <2>1, Numbers, ReceiveAck DEF AdoptFails, CompletesDelivery
<1> QED
    BY <1>1, <1>2, <1>3, <1>4, <1>5, <1>6, <1>7, <1>8 DEF AcceptFrame

\* What the drain loop takes may be accepted.
LEMMA DrainAccepts ==
    ASSUME IInv, DrainPendingFrame
    PROVE  Accepting(Head(ready), Tail(ready))
<1>1. ready \in Seq(Frame) /\ ready # <<>>
    BY DEF IInv, TypeOK, DrainPendingFrame
<1>2. Head(ready) \in Frame /\ Tail(ready) \in Seq(Frame)
    BY <1>1
<1>3. /\ Head(ready).gen = fence
      /\ \A i \in DOMAIN Tail(ready) : Tail(ready)[i].gen = fence /\ delivery.gen = fence
    BY <1>1 DEF IInv, PendingIsFenced
<1>4. fence \in Nat /\ HasDelivery
    BY <1>1, BoundsAssumption DEF IInv, TypeOK, DrainInv
<1> QED
    BY <1>2, <1>3, <1>4 DEF Accepting

\* Every step keeps AckInv and acknowledges no less than the last one.
LEMMA StepAck ==
    ASSUME IInv, IInv', AckInv, [Next]_vars
    PROVE  AckInv' /\ AckStep
<1>0. TypeOK /\ TypeOK' /\ fence \in Nat
    BY Numbers DEF IInv
<1>1. ASSUME NEW gen \in Gens, FenceDeliveryGeneration(gen) PROVE AckInv' /\ AckStep
    BY <1>0, <1>1, NewerAck DEF FenceDeliveryGeneration
<1>2. ASSUME NEW mode, NEW gen, NEW base, NEW commit, ConflictingStart(mode, gen, base, commit)
      PROVE  AckInv' /\ AckStep
    BY <1>0, <1>2, ResyncAck DEF ConflictingStart
<1>3. ASSUME NEW gen \in Gens, NEW base \in Seqs, NEW commit \in Seqs,
             StartWarmReplay(gen, base, commit) \/ StartSnapshot(gen, base, commit)
      PROVE  AckInv' /\ AckStep
    BY <1>3, StartAck DEF StartWarmReplay, StartSnapshot
<1>4. ASSUME NEW f \in Frame, AcceptData(f) PROVE AckInv' /\ AckStep
  <2>1. Accepting(f, <<>>)
      BY <1>4, NullTypes DEF Accepting, AcceptData, Returned
  <2> QED
      BY <1>4, <2>1, AcceptFrameAck DEF AcceptData
<1>5. CASE DrainPendingFrame
    BY <1>5, DrainAccepts, AcceptFrameAck DEF DrainPendingFrame
<1>6. ASSUME NEW r \in restores, FinishRestore(r) PROVE AckInv' /\ AckStep
  <2>1. /\ delivery'.received = delivery.received /\ delivery'.mode = delivery.mode
        /\ UNCHANGED <<fence, acked>> /\ HasDelivery
      BY <1>0, <1>6, Numbers DEF FinishRestore, Adopt, Delivery, IInv,
                                 CurrentRestoreIsOfDelivery, HasDelivery
  <2> QED
      BY <1>0, <2>1, Numbers DEF AckInv, AckStep, HasDelivery
<1>7. ASSUME NEW r \in restores, RestoreFails(r) PROVE AckInv' /\ AckStep
  <2>1. state' = "resyncing" /\ ~HasDelivery' /\ UNCHANGED <<fence, acked>>
      BY <1>7 DEF RestoreFails, Resync, DiscardPendingDelivery, HasDelivery, NoDelivery
  <2> QED
      BY <1>0, <2>1, Numbers DEF AckInv, AckStep
<1>8. CASE RestoreDeadline
    BY <1>0, <1>8, ResyncAck DEF RestoreDeadline
<1>9. CASE Close
  <2>1. state' = "closed" /\ ~HasDelivery' /\ UNCHANGED <<fence, acked>>
      BY <1>9 DEF Close, DiscardPendingDelivery, HasDelivery, NoDelivery
  <2> QED
      BY <1>0, <2>1, Numbers DEF AckInv, AckStep
<1>10. ASSUME \/ BeginRestore
              \/ \E r \in restores : FinishSupersededRestore(r)
              \/ UNCHANGED vars
       PROVE  AckInv' /\ AckStep
  <2>1. UNCHANGED <<state, fence, delivery, acked>>
      BY <1>10 DEF BeginRestore, FinishSupersededRestore, vars
  <2> QED
      BY <1>0, <2>1, Numbers DEF AckInv, AckStep, HasDelivery
<1> QED
    BY <1>1, <1>2, <1>3, <1>4, <1>5, <1>6, <1>7, <1>8, <1>9, <1>10 DEF Next

\* An acknowledgement never goes back within a generation, nor to an earlier one: the
\* relay closes a browser whose acknowledgements regress (onAcknowledge, #acceptFrame).
THEOREM AcknowledgementsNeverRegress == Spec => AcknowledgementsAdvance
<1>1. Init => AckInv
    BY DEF Init, AckInv, HasDelivery, NoDelivery, NoCursor
<1>2. AckStep <=> \/ acked'.gen > acked.gen
                  \/ acked'.gen = acked.gen /\ acked'.seq >= acked.seq
    BY DEF AckStep
<1>3. IInv /\ IInv' /\ AckInv /\ [Next]_vars => AckInv' /\ AckStep
    BY StepAck
<1> QED
    BY <1>1, <1>2, <1>3, Invariance, PTL DEF Spec, AcknowledgementsAdvance

-----------------------------------------------------------------------------
(* The budget of the frames held back *)

(***************************************************************************)
(* The code never adds up what it holds: #bufferBudgetExceeded compares    *)
(* the frames kept for a start and for a restore, and not those the drain  *)
(* loop has still to accept.  The budget holds because a drained frame     *)
(* leaves one place before it takes another.                               *)
(***************************************************************************)

\* Where nothing is delivered, only frames for a missing start are held.
LEMMA HeldWithoutDelivery ==
    ASSUME IInv, ~HasDelivery
    PROVE  delivery.buffered = <<>> /\ ready = <<>>
BY DEF IInv, DeliveryInv, DrainInv, NoDelivery

\* A resync holds nothing.
LEMMA ResyncHeld ==
    ASSUME NEW inFlight, Resync(inFlight)
    PROVE  BufferWithinBudget'
<1>1. pending' = <<>> /\ ready' = <<>> /\ delivery'.buffered = <<>>
    BY DEF Resync, DiscardPendingDelivery, NoDelivery
<1> QED
    BY <1>1, BoundsAssumption DEF BufferWithinBudget

\* The lengths are numbers.
LEMMA Lengths ==
    ASSUME TypeOK
    PROVE  Len(pending) \in Nat /\ Len(ready) \in Nat /\ Len(delivery.buffered) \in Nat
BY LenProperties DEF TypeOK, Delivery

\* What the next state holds, length by length.
LEMMA HeldBy ==
    ASSUME NEW p \in Nat, NEW r \in Nat, NEW b \in Nat, p + r + b <= MaxBuffered,
           Len(pending') = p, Len(ready') = r, Len(delivery'.buffered) = b
    PROVE  BufferWithinBudget'
BY DEF BufferWithinBudget

\* What holds no more than the current state is within the budget.
LEMMA Spare ==
    ASSUME TypeOK, BufferWithinBudget, NEW p \in Nat, NEW r \in Nat, NEW b \in Nat,
           p <= Len(pending), r + b <= Len(ready) + Len(delivery.buffered)
    PROVE  p + r + b <= MaxBuffered
<1> DEFINE a == Len(pending)
           c == Len(ready)
           d == Len(delivery.buffered)
<1>1. a \in Nat /\ c \in Nat /\ d \in Nat
    BY Lengths
<1>2. a + c + d <= MaxBuffered
    BY DEF BufferWithinBudget
<1>3. p <= a /\ r + b <= c + d
    OBVIOUS
<1> HIDE DEF a, c, d
<1> QED
    BY <1>1, <1>2, <1>3, BoundsAssumption

\* The frames kept for an older generation go, those of this one stay.
LEMMA PendingFromHeld ==
    ASSUME TypeOK, NEW gen
    PROVE  Len(PendingFrom(gen)) \in Nat /\ Len(PendingFrom(gen)) <= Len(pending)
BY Lengths DEF PendingFrom

\* A frame that is accepted is one place less in the drain loop, if it came from there.
Takes(rest) ==
    \/ ready = <<>> /\ rest = <<>>
    \/ Len(rest) \in Nat /\ Len(rest) + 1 = Len(ready)

\* #acceptFrame holds no more than the budget.
LEMMA AcceptFrameHeld ==
    ASSUME IInv, BufferWithinBudget, NEW f \in Frame, NEW rest, Accepting(f, rest),
           Takes(rest), AcceptFrame(f, rest)
    PROVE  BufferWithinBudget'
<1>0. TypeOK /\ MaxBuffered \in Nat
    BY BoundsAssumption DEF IInv
<1>1. CASE RequestResync
    BY <1>1, ResyncHeld DEF RequestResync
<1>2. CASE AcceptNewerGeneration(f) /\ ~RequestResync
  <2>1. ready = <<>> /\ UNCHANGED ready /\ delivery'.buffered = <<>>
      BY <1>2, HeldWithoutDelivery
      DEF AcceptNewerGeneration, Accepting, DiscardPendingDelivery, NoDelivery
  <2>2. /\ pending' = Append(PendingFrom(f.gen), f)
        /\ ~(Len(Append(PendingFrom(f.gen), f)) + Len(<<>>) > MaxBuffered)
      BY <1>2 DEF AcceptNewerGeneration, OverBudget, Resync, RequestResync
  <2>3. PendingFrom(f.gen) \in Seq(Frame)
      BY <1>0 DEF PendingFrom, TypeOK
  <2>4. Len(pending') \in Nat /\ Len(pending') <= MaxBuffered
      BY <1>0, <2>2, <2>3
  <2>5. Len(ready') = 0 /\ Len(delivery'.buffered) = 0
      BY <2>1
  <2> QED
      BY <1>0, <2>4, <2>5, HeldBy
<1>3. CASE BufferPendingFrame(f) /\ ~RequestResync
  <2>1. /\ pending' = Append(pending, f) /\ ~(Len(Append(pending, f)) + Len(<<>>) > MaxBuffered)
        /\ UNCHANGED <<delivery, ready>> /\ ~HasDelivery
      BY <1>3 DEF BufferPendingFrame, OverBudget
  <2>2. Len(ready') = 0 /\ Len(delivery'.buffered) = 0
      BY <2>1, HeldWithoutDelivery
  <2>3. Len(pending') \in Nat /\ Len(pending') <= MaxBuffered
      BY <1>0, <2>1 DEF TypeOK
  <2> QED
      BY <1>0, <2>2, <2>3, HeldBy
<1>4. CASE BufferEvent(f, rest) /\ ~RequestResync
  <2> DEFINE buffered == Append(delivery.buffered, f.seq)
  <2>1. Len(pending) + Len(buffered) <= MaxBuffered /\ ready' = rest /\ UNCHANGED pending
        /\ delivery' = [delivery EXCEPT !.received = f.seq, !.buffered = buffered]
      BY <1>0, <1>4, Lengths DEF BufferEvent, OverBudget
  <2>2. f.seq \in Seqs
      BY DEF Frame
  <2>3. Len(buffered) = Len(delivery.buffered) + 1
      BY <1>0, <2>2 DEF TypeOK, Delivery
  <2>4. Len(delivery'.buffered) = Len(delivery.buffered) + 1
      BY <1>0, <2>1, <2>3, Numbers DEF Delivery
  <2>5. CASE ready = <<>> /\ rest = <<>>
    <3>1. Len(ready') = 0 /\ Len(pending) + 0 + (Len(delivery.buffered) + 1) <= MaxBuffered
        BY <1>0, <2>1, <2>3, <2>5, Lengths
    <3> QED
        BY <1>0, <2>1, <2>4, <3>1, Lengths, HeldBy
  <2>6. CASE Len(rest) \in Nat /\ Len(rest) + 1 = Len(ready)
    <3>1. /\ Len(delivery.buffered) + 1 \in Nat
          /\ Len(rest) + (Len(delivery.buffered) + 1) <= Len(ready) + Len(delivery.buffered)
        BY <1>0, <2>6, Lengths
    <3>2. PICK r \in Nat, b \in Nat : r = Len(rest) /\ b = Len(delivery.buffered) + 1
        BY <2>6, <3>1
    <3>3. PICK p \in Nat : p = Len(pending)
        BY <1>0, Lengths
    <3>4. p <= Len(pending) /\ r + b <= Len(ready) + Len(delivery.buffered)
        BY <3>1, <3>2, <3>3
    <3>5. p + r + b <= MaxBuffered
        BY <1>0, <3>4, Spare
    <3> QED
        BY <2>1, <2>4, <3>2, <3>3, <3>5, HeldBy
  <2> QED
      BY <2>5, <2>6 DEF Takes
<1>5. CASE ApplyEvent(f, rest) \/ AcceptCommit(f, rest)
  <2>1. delivery'.buffered = delivery.buffered /\ ready' = rest /\ UNCHANGED pending
      BY <1>0, <1>5, Numbers DEF ApplyEvent, AcceptCommit, Adopt, Delivery
  <2>2. Len(rest) \in Nat /\ Len(rest) <= Len(ready)
      BY <1>0, Lengths DEF Takes
  <2>3. PICK p \in Nat, b \in Nat : p = Len(pending) /\ b = Len(delivery.buffered)
      BY <1>0, Lengths
  <2>4. PICK r \in Nat : r = Len(rest)
      BY <2>2
  <2>5. p <= Len(pending) /\ r + b <= Len(ready) + Len(delivery.buffered)
      BY <1>0, <2>2, <2>3, <2>4, Lengths
  <2>6. p + r + b <= MaxBuffered
      BY <1>0, <2>5, Spare
  <2> QED
      BY <2>1, <2>3, <2>4, <2>6, HeldBy
<1> QED
    BY <1>1, <1>2, <1>3, <1>4, <1>5
    DEF AcceptFrame, RejectFrame, ApplyFails, AdoptFails

\* Every step keeps the budget.
LEMMA StepHeld ==
    ASSUME IInv, BufferWithinBudget, [Next]_vars
    PROVE  BufferWithinBudget'
<1>0. TypeOK /\ MaxBuffered \in Nat
    BY BoundsAssumption DEF IInv
<1>1. ASSUME NEW gen \in Gens, FenceDeliveryGeneration(gen) PROVE BufferWithinBudget'
  <2>1. /\ pending' = PendingFrom(gen) /\ UNCHANGED ready
        /\ delivery'.buffered = <<>>
      BY <1>1, HeldWithoutDelivery
      DEF FenceDeliveryGeneration, DiscardPendingDelivery, NoDelivery
  <2>2. Len(delivery'.buffered) = 0
      BY <2>1
  <2>3. Len(PendingFrom(gen)) + Len(ready) + 0 <= MaxBuffered
      BY <1>0, PendingFromHeld, Lengths, Spare
  <2> QED
      BY <1>0, <2>1, <2>2, <2>3, PendingFromHeld, Lengths, HeldBy
<1>2. ASSUME NEW gen \in Gens, NEW base \in Seqs, NEW commit \in Seqs,
             StartWarmReplay(gen, base, commit) \/ StartSnapshot(gen, base, commit)
      PROVE  BufferWithinBudget'
  <2>1. CASE RequestResync
      BY <2>1, ResyncHeld DEF RequestResync
  <2>2. CASE ~RequestResync
    <3>1. /\ ready' = PendingFrom(gen) /\ pending' = <<>>
          /\ delivery'.buffered = <<>>
        BY <1>2, <2>2 DEF StartWarmReplay, StartSnapshot, TakePendingFrames, NewDelivery
    <3>2. Len(pending') = 0 /\ Len(delivery'.buffered) = 0
        BY <3>1
    <3>3. Len(PendingFrom(gen)) + 0 + 0 <= MaxBuffered
        BY <1>0, PendingFromHeld, Lengths, Spare
    <3>4. 0 + Len(PendingFrom(gen)) + 0 <= MaxBuffered
        BY <1>0, <3>3, PendingFromHeld
    <3> QED
        BY <1>0, <3>1, <3>2, <3>4, PendingFromHeld, HeldBy
  <2> QED
      BY <2>1, <2>2
<1>3. ASSUME NEW f \in Frame, AcceptData(f) PROVE BufferWithinBudget'
  <2>1. Accepting(f, <<>>) /\ Takes(<<>>)
      BY <1>3, NullTypes DEF Accepting, AcceptData, Returned, Takes
  <2> QED
      BY <1>3, <2>1, AcceptFrameHeld DEF AcceptData
<1>4. CASE DrainPendingFrame
  <2>1. ready \in Seq(Frame) /\ ready # <<>>
      BY <1>0, <1>4 DEF TypeOK, DrainPendingFrame
  <2>2. Head(ready) \in Frame /\ Takes(Tail(ready))
      BY <2>1 DEF Takes
  <2> QED
      BY <1>4, <2>2, DrainAccepts, AcceptFrameHeld DEF DrainPendingFrame
<1>5. ASSUME NEW r \in restores, FinishRestore(r) PROVE BufferWithinBudget'
  <2>1. delivery'.buffered = <<>> /\ UNCHANGED <<pending, ready>>
      BY <1>0, <1>5, Numbers DEF FinishRestore, Adopt, Delivery
  <2>2. Len(delivery'.buffered) = 0
      BY <2>1
  <2>3. Len(pending) + Len(ready) + 0 <= MaxBuffered
      BY <1>0, Lengths, Spare
  <2> QED
      BY <1>0, <2>1, <2>2, <2>3, Lengths, HeldBy
<1>6. ASSUME NEW r \in restores, RestoreFails(r) PROVE BufferWithinBudget'
    BY <1>6, ResyncHeld DEF RestoreFails
<1>7. ASSUME RestoreDeadline \/ (\E mode, gen, base, commit :
                                    ConflictingStart(mode, gen, base, commit))
      PROVE  BufferWithinBudget'
    BY <1>7, ResyncHeld DEF RestoreDeadline, ConflictingStart, RequestResync
<1>8. CASE Close
  <2>1. pending' = <<>> /\ delivery'.buffered = <<>> /\ UNCHANGED ready
      BY <1>8 DEF Close, DiscardPendingDelivery, NoDelivery
  <2>2. Len(pending') = 0 /\ Len(delivery'.buffered) = 0
      BY <2>1
  <2>3. 0 + Len(ready) + 0 <= MaxBuffered
      BY <1>0, Lengths, Spare
  <2> QED
      BY <1>0, <2>1, <2>2, <2>3, Lengths, HeldBy
<1>9. ASSUME \/ BeginRestore
             \/ \E r \in restores : FinishSupersededRestore(r)
             \/ UNCHANGED vars
      PROVE  BufferWithinBudget'
    BY <1>9 DEF BeginRestore, FinishSupersededRestore, vars, BufferWithinBudget
<1> QED
    BY <1>1, <1>2, <1>3, <1>4, <1>5, <1>6, <1>7, <1>8, <1>9 DEF Next

\* However slow a download is, and however many frames overtake their start, no more
\* than maxBufferedTailFrames are held back (#bufferBudgetExceeded).
THEOREM HeldFramesAreBounded == Spec => []BufferWithinBudget
<1>1. Init => BufferWithinBudget
    BY BoundsAssumption DEF Init, NoDelivery, BufferWithinBudget
<1>2. IInv /\ BufferWithinBudget /\ [Next]_vars => BufferWithinBudget'
    BY StepHeld
<1> QED
    BY <1>1, <1>2, Invariance, PTL DEF Spec

-----------------------------------------------------------------------------
(* The visible replica *)

\* It stays, grows by the next event, or becomes that of a committed delivery.
ScreenStep ==
    screen' \notin {screen, Append(screen, Len(screen) + 1)} =>
        /\ state' = "live"
        /\ delivery'.committed
        /\ Len(screen') >= delivery'.expected

\* What the next event is to the visible replica.
LEMMA NextEventIsShown ==
    ASSUME IInv, HasDelivery, delivery.candidate = "live"
    PROVE  Len(screen) = delivery.received
<1>1. /\ cursor # NoCursor /\ cursor.seq = delivery.applied
      /\ delivery.applied = delivery.received
    BY Numbers DEF IInv, DeliveryInv, DraftInv, BufferInv, NoCursor, Gens
<1> QED
    BY <1>1, Numbers DEF IInv, ReplicaIsAuthorityPrefix, Authority

\* #acceptFrame changes the visible replica by one event, or adopts at the commit.
LEMMA AcceptFrameScreen ==
    ASSUME IInv, NEW f \in Frame, NEW rest, AcceptFrame(f, rest)
    PROVE  ScreenStep
<1>0. /\ TypeOK /\ delivery \in Delivery
      /\ delivery.applied \in Nat /\ delivery.received \in Nat
    BY Numbers DEF IInv
<1>1. CASE UNCHANGED screen
    BY <1>1 DEF ScreenStep
<1>2. CASE (ApplyEvent(f, rest) \/ ApplyFails(f)) /\ screen' # screen
  <2>1. screen' = Append(screen, f.seq) /\ delivery.candidate = "live"
        /\ f.seq = delivery.received + 1 /\ HasDelivery
      BY <1>2 DEF ApplyEvent, ApplyFails, ContinuesDelivery
  <2> QED
      BY <2>1, NextEventIsShown DEF ScreenStep
<1>3. CASE AcceptCommit(f, rest) /\ screen' # screen
  <2> DEFINE d == [delivery EXCEPT !.committed = TRUE]
  <2>1. CompletesDelivery(f) /\ d.candidate = "restored" /\ Adopt(d, draft)
      BY <1>3 DEF AcceptCommit
  <2>2. /\ state' = "live" /\ screen' = draft /\ delivery'.committed
        /\ delivery'.expected = delivery.expected /\ delivery.candidate = "restored"
      BY <1>0, <2>1 DEF Adopt, Delivery
  <2>3. delivery.expected = delivery.received /\ delivery.applied = delivery.received
        /\ draft = Authority(delivery.applied)
      BY <1>0, <2>1, <2>2 DEF CompletesDelivery, IInv, BufferInv, DraftInv
  <2> QED
      BY <1>0, <2>2, <2>3 DEF ScreenStep, Authority
<1> QED
    BY <1>1, <1>2, <1>3
    DEF AcceptFrame, AcceptNewerGeneration, BufferPendingFrame, RejectFrame, BufferEvent, AdoptFails

\* So does every step: only the end of a restore adopts as well.
LEMMA StepScreen ==
    ASSUME IInv, [Next]_vars
    PROVE  ScreenStep
<1>0. TypeOK
    BY DEF IInv
<1>1. ASSUME NEW f \in Frame, AcceptData(f) PROVE ScreenStep
    BY <1>1, AcceptFrameScreen DEF AcceptData
<1>2. CASE DrainPendingFrame
  <2>1. Head(ready) \in Frame
      BY <1>0, <1>2 DEF TypeOK, DrainPendingFrame
  <2> QED
      BY <1>2, <2>1, AcceptFrameScreen DEF DrainPendingFrame
<1>3. ASSUME NEW r \in restores, FinishRestore(r), screen' # screen PROVE ScreenStep
  <2> DEFINE content == Authority(r.cut) \o delivery.buffered
  <2>1. /\ delivery.committed /\ state' = "live" /\ screen' = content
        /\ delivery'.committed /\ delivery'.expected = delivery.expected
      BY <1>0, <1>3, Numbers DEF FinishRestore, Adopt, Delivery
  <2>2. /\ r.cut = delivery.applied /\ delivery.received >= delivery.expected
        /\ delivery.received = delivery.applied + Len(delivery.buffered)
      BY <1>0, <1>3, <2>1 DEF FinishRestore, IInv, CurrentRestoreIsOfDelivery, BufferInv, DeliveryInv
  <2>3. Len(content) = delivery.received
    <3>1. Authority(delivery.applied) \in Seq(Nat) /\ Len(Authority(delivery.applied)) = delivery.applied
        BY <1>0, Numbers DEF Authority
    <3>2. delivery.buffered \in Seq(Nat)
        BY <1>0, BoundsAssumption DEF TypeOK, Delivery, Seqs
    <3>3. r.cut = delivery.applied /\ Len(delivery.buffered) \in Nat
        BY <1>0, <2>2, Lengths
    <3>4. content = Authority(delivery.applied) \o delivery.buffered
        BY <3>3
    <3>5. Len(content) = Len(Authority(delivery.applied)) + Len(delivery.buffered)
        BY <3>1, <3>2, <3>4, ConcatProperties, ZenonT(60)
    <3> QED
        BY <2>2, <3>1, <3>5
  <2> QED
      BY <1>0, <2>1, <2>2, <2>3, Numbers DEF ScreenStep
<1>4. CASE UNCHANGED screen
    BY <1>4 DEF ScreenStep
<1> QED
    BY <1>1, <1>2, <1>3, <1>4
    DEF Next, FenceDeliveryGeneration, ConflictingStart, StartWarmReplay, StartSnapshot,
        BeginRestore, FinishSupersededRestore, RestoreFails, RestoreDeadline, Close, vars

\* The visible terminal grows event by event, or is replaced as a whole by a restore
\* whose commit has been received (#tryCommit): a half-caught-up snapshot is never shown.
THEOREM HalfRestoredIsNeverShown == Spec => ReplacedOnlyByCommittedRestore
<1>1. ScreenStep <=>
         (screen' \notin {screen, Append(screen, Len(screen) + 1)} =>
             /\ state' = "live"
             /\ delivery'.committed
             /\ Len(screen') >= delivery'.expected)
    BY DEF ScreenStep
<1>2. IInv /\ [Next]_vars => ScreenStep
    BY StepScreen
<1> QED
    BY <1>1, <1>2, Invariance, PTL DEF Spec, ReplacedOnlyByCommittedRestore
===============================================================================

----------------------- MODULE BrowserProtocol_proofs -----------------------
(***************************************************************************)
(* What the page and the relay tell one another.  First, that the page     *)
(* never gives the relay cause to take what it says for a protocol error,  *)
(* but for what is on its way when a data socket is lost.  Then, that a    *)
(* page whose terminal is live is fed, or is told that it is not.  Proved  *)
(* for every bound on sets, generations, events and faults.                *)
(*                                                                         *)
(* What the relay compares a frame with changes while the frame is on its  *)
(* way, so the invariant speaks of the frames there: of the generations    *)
(* and cursors they name, and of the attach and the acknowledgements of    *)
(* the present delivery.  A step of the page adds to them (PageSpeaks), a  *)
(* step of the relay takes the first (RelayHears), and what else they do   *)
(* leaves what is said about the rest.  What the page has heard of the     *)
(* host is the last of the frames about it: WordInv says that after the    *)
(* loss of the host this last word, heard or on its way, is "offline".     *)
(***************************************************************************)
EXTENDS BrowserConnection_proofs

-----------------------------------------------------------------------------
(* What the page says on its control socket *)

\* Nobody is ahead of the session's head.
CursorInv ==
    /\ Behind(head)
    /\ \A i \in DOMAIN dataWire.frames :
          dataWire.frames[i].kind \in {"event", "commit"} => dataWire.frames[i].seq <= head
    /\ \A i \in DOMAIN up : up[i].kind = "attach" => up[i].cursor <= head

\* Nor does anything name a generation before the relay has begun it.
GenInv ==
    /\ \A i \in DOMAIN up : up[i].gen <= gen /\ (HoldsControl => up[i].gen <= C.gen)
    /\ \A i \in DOMAIN ctlWire.frames :
          ctlWire.frames[i].kind = "start" => ctlWire.frames[i].gen <= C.gen
    /\ \A a \in attaching :
          /\ a.set <= sets
          /\ page.attempt = "offered" => a.set # page.offer.set
          /\ a.set = C.set => a.gen <= C.gen

\* A delivery is attached once, and while its data socket awaits that.
AttachOnce ==
    /\ \A i, j \in DOMAIN up :
          up[i].kind = "attach" /\ up[j].kind = "attach" /\ up[i].gen = up[j].gen => i = j
    /\ \A a, b \in attaching : a.set = b.set => a = b
    /\ \A i \in DOMAIN up : up[i].kind = "attach" =>
          /\ \A a \in attaching : a.set = control.set => up[i].gen # a.gen
          /\ up[i].gen = gen /\ HasData => data.state = "awaiting"

\* Until its sockets are open, the page has said nothing of the delivery.
Opening == C.current /\ (C.control = "opening" \/ C.data = "opening")
Unspoken ==
    /\ K.state = "awaiting" /\ NoStart
    /\ control.set = C.set => \A i \in DOMAIN up : up[i].gen # C.gen
    /\ \A a \in attaching : ~SameSocket(a, C)
    /\ SameSocket(data, C) => data.state = "awaiting"
OpeningInv == Opening => Unspoken

\* Nor has anybody while the ticket of its data socket is unused.
UnusedInv ==
    \A t \in tickets : t.channel = "data" =>
        /\ control.set = t.set => \A i \in DOMAIN up : up[i].gen # t.gen
        /\ SameSocket(dataWire, t) =>
              /\ C.data = "opening"
              /\ \A i \in DOMAIN dataWire.frames : dataWire.frames[i].kind = "refused"

\* A data socket that the page believes to be gone is gone, and will not be opened.
PageData == [set |-> C.set, channel |-> "data", gen |-> C.gen]
Claimed == PageData \in upgrades /\ PageData \in tickets
GoneInv ==
    C.current =>
        /\ \A i \in DOMAIN dataWire.frames :
              dataWire.frames[i].kind \in {"closed", "refused"} => ~HoldsData /\ ~Claimed
        /\ C.data = "none" /\ C.control \in {"open", "closing"} =>
              ~SameSocket(data, C) /\ ~Claimed

\* Acknowledgements of the delivery are of what has been sent, and do not go back.
AckOf(i, g) == up[i].kind = "ack" /\ up[i].gen = g
AcksOnTheWay ==
    IsOpen(data) =>
        /\ \A i \in DOMAIN up : AckOf(i, gen) =>
              Fed /\ data.acked <= up[i].cursor /\ up[i].cursor <= data.sent
        /\ \A i, j \in DOMAIN up :
              AckOf(i, gen) /\ AckOf(j, gen) /\ i <= j => up[i].cursor <= up[j].cursor
AcksOfPage ==
    C.current /\ HoldsData =>
        /\ \A i \in DOMAIN up : AckOf(i, C.gen) => up[i].cursor <= page.acks.last
        /\ Fed => data.acked = data.first \/ data.acked <= page.acks.last
        /\ page.acks.pending # NoSeq =>
              Fed /\ data.first <= page.acks.pending /\ page.acks.pending <= data.sent

TalkInv ==
    /\ CursorInv /\ GenInv /\ AttachOnce /\ OpeningInv /\ UnusedInv /\ GoneInv
    /\ AcksOnTheWay /\ AcksOfPage

-----------------------------------------------------------------------------
(* What a callback says *)

\* It attaches its data socket, or acknowledges.
Attached ==
    /\ HoldsControl /\ C.current /\ DataOpens /\ K' = K
    /\ up' = Append(up, AttachOf(C.gen, K.cursor))
Spoke(out) ==
    /\ HoldsControl /\ C.current /\ C.control = "open" /\ ~Opening
    /\ \A t \in tickets : t.channel = "data" => ~SameSocket(C, t)
    /\ out \in Seq(PageFrame)
    /\ \A i \in DOMAIN out : out[i] = Ack(C.gen, out[i].cursor)
    /\ up' = up \o out

LEMMA PageSpeaks ==
    ASSUME BaseInv, LinkInv, StreamInv, OpeningInv, UnusedInv, NEW q, NEW ctl, NEW dat, NEW h,
           PageBecomes(q, ctl, dat), Outcome(q, ctl, dat, h)
    PROVE  up' = up \/ Attached \/ Spoke(q.out)
<1>0. /\ PageInv /\ Frames /\ WireInv /\ OwnInv /\ OpenInv /\ SetInv /\ Sound(q)
      /\ DataTicketInv
    BY OutcomeIs DEF LinkInv, BaseInv, TypesInv
<1>1. /\ up' = IF HoldsControl THEN up \o q.out ELSE up
      /\ C' = q.connection /\ K' = q.coordinator
    BY <1>0, BecomesIs DEF C, K
<1>2. up \in Seq(PageFrame) /\ q.out \in Seq(PageFrame)
    BY <1>0 DEF Frames, Sound, PageShape, Page
<1>3. CASE ~HoldsControl \/ q.out = <<>>
  <2>1. up \o <<>> = up
      BY <1>2
  <2> QED BY <1>1, <1>3, <2>1
<1>4. CASE HoldsControl /\ q.out # <<>>
  <2>1. page.out = <<>>
      BY <1>0 DEF PageInv
  <2>2. CASE OpensData(q, ctl, dat)
    <3>1. /\ q.out = <<AttachOf(C.gen, K.cursor)>> /\ C.current /\ K' = K
          /\ TakenData(ctl, dat) /\ Head(dataWire.frames).kind = "open"
          /\ C'.current /\ C'.data = "open" /\ C'.gen = C.gen
        BY <1>1, <1>4, <2>2 DEF OpensData, Changes, C, K
    <3>2. DataOpens
      <4>1. PageMoves
          BY PageMovesAlong DEF LinkInv
      <4>2. C.data = "opening"
        <5>1. 1 \in DOMAIN dataWire.frames /\ dataWire.frames[1].kind = "open"
            BY <1>0, <3>1, FramesHead DEF TakenData
        <5> QED BY <1>0, <5>1 DEF OpenInv
      <4>3. C' # NoConnection
          BY <3>1 DEF NoConnection
      <4> QED BY <3>1, <4>1, <4>2, <4>3
          DEF PageMoves, Leaves, Lingers, Joins, ControlOpens, DataDrops, Renewed, GoesOn,
              Remains, NewConnection
    <3>3. up' = Append(up, AttachOf(C.gen, K.cursor))
      <4> DEFINE frame == AttachOf(C.gen, K.cursor)
      <4>1. q.out = <<frame>>
          BY <3>1
      <4>2. frame \in PageFrame
          BY <1>2, <4>1
      <4> HIDE DEF frame
      <4>3. up \o <<frame>> = Append(up, frame)
          BY <1>2, <4>2
      <4> QED BY <1>1, <1>4, <4>1, <4>3 DEF frame
    <3> QED BY <1>4, <3>1, <3>2, <3>3 DEF Attached
  <2>3. CASE Starts(q, ctl, dat, h) \/ Takes(q, ctl, dat) \/ Flushes(q, ctl, dat)
    <3>1. C.current
        BY <2>3 DEF Starts, Takes, Flushes, C
    <3>2. /\ C.control = "open"
          /\ \A i \in DOMAIN q.out : q.out[i] = Ack(C.gen, q.out[i].cursor)
      <4>1. CASE Starts(q, ctl, dat, h)
        <5>1. OnlyAcks(page, q.out)
            BY <2>1, <4>1 DEF Starts, Started
        <5>2. 1 \in DOMAIN q.out
            BY <1>2, <1>4
        <5> QED BY <5>1, <5>2 DEF OnlyAcks, C
      <4>2. CASE Takes(q, ctl, dat)
        <5>1. /\ q.out = Append(<<>>, Ack(C.gen, Head(dataWire.frames).seq))
              /\ C.control = "open"
            BY <1>4, <2>1, <4>2 DEF Takes, Accepted, C
        <5> QED BY <5>1 DEF Ack
      <4>3. CASE Flushes(q, ctl, dat)
        <5>1. q.out = <<Ack(C.gen, page.acks.pending)>> /\ C.control = "open"
            BY <1>4, <4>3 DEF Flushes, C
        <5> QED BY <5>1 DEF Ack
      <4> QED BY <2>3, <4>1, <4>2, <4>3
    <3>3. \/ K.state # "awaiting"
          \/ ctlWire.frames # <<>> /\ StartOf(1) /\ 1 \in DOMAIN ctlWire.frames
      <4>1. CASE Starts(q, ctl, dat, h)
          BY <1>0, <4>1, FramesHead DEF Starts, Heard, StartOf, C
      <4>2. CASE Takes(q, ctl, dat)
          BY <1>4, <2>1, <4>2 DEF Takes, Accepted, Delivering, K
      <4>3. CASE Flushes(q, ctl, dat)
        <5>1. page.acks.pending # NoSeq
            BY <1>4, <4>3 DEF Flushes
        <5> QED BY <3>1, <5>1 DEF StreamInv
      <4> QED BY <2>3, <4>1, <4>2, <4>3
    <3>4. ~Opening
        BY <3>3 DEF OpeningInv, Unspoken, NoStart
    <3>5. ASSUME NEW t \in tickets, t.channel = "data", SameSocket(C, t) PROVE FALSE
      <4>1. K.state = "awaiting"
          BY <1>0, <3>1, <3>5 DEF DataTicketInv
      <4>2. /\ ctlWire.set = t.set
            /\ \A i \in DOMAIN ctlWire.frames :
                  ctlWire.frames[i].kind = "start" => ctlWire.frames[i].gen # t.gen
          BY <1>0, <3>5 DEF DataTicketInv, WireInv, SameSocket
      <4> QED BY <3>3, <3>5, <4>1, <4>2 DEF StartOf, SameSocket
    <3> QED BY <1>1, <1>2, <1>4, <3>1, <3>2, <3>4, <3>5 DEF Spoke
  <2>4. CASE \/ Stays(q, ctl, dat) \/ Activates(q, ctl, dat) \/ OpensControl(q, ctl, dat)
             \/ DropsData(q, ctl, dat) \/ Resyncs(q, ctl, dat)
    <3>1. q.out = <<>>
        BY <2>1, <2>4 DEF Stays, Quiet, Activates, OpensControl, DropsData, Resyncs
    <3> QED BY <1>4, <3>1
  <2> QED BY <2>2, <2>3, <2>4 DEF Outcome
<1> QED BY <1>3, <1>4

-----------------------------------------------------------------------------
(* A callback keeps the order in which it speaks *)

LEMMA AppendIs ==
    ASSUME NEW s \in Seq(PageFrame), NEW f \in PageFrame
    PROVE  /\ DOMAIN Append(s, f) = 1 .. Len(s) + 1 /\ Len(Append(s, f)) = Len(s) + 1
           /\ \A i \in DOMAIN s : Append(s, f)[i] = s[i]
           /\ Append(s, f)[Len(s) + 1] = f
  OBVIOUS

LEMMA ConcatIs ==
    ASSUME NEW s \in Seq(PageFrame), NEW t \in Seq(PageFrame)
    PROVE  /\ Len(t) \in Nat /\ DOMAIN t = 1 .. Len(t)
           /\ DOMAIN (s \o t) = 1 .. Len(s) + Len(t) /\ Len(s \o t) = Len(s) + Len(t)
           /\ \A i \in DOMAIN s : (s \o t)[i] = s[i]
           /\ \A i \in DOMAIN (s \o t) : i > Len(s) => (s \o t)[i] = t[i - Len(s)]
<1>1. DOMAIN s = 1 .. Len(s) /\ Len(s) \in Nat
    OBVIOUS
<1>2. DOMAIN t = 1 .. Len(t) /\ Len(t) \in Nat
    OBVIOUS
<1>3. Len(s \o t) = Len(s) + Len(t)
    OBVIOUS
<1>4. DOMAIN (s \o t) = 1 .. Len(s) + Len(t)
    OBVIOUS
<1>5. \A i \in DOMAIN s : (s \o t)[i] = s[i]
    BY <1>1, <1>2
<1>6. \A i \in DOMAIN (s \o t) : i > Len(s) => (s \o t)[i] = t[i - Len(s)]
    BY <1>1, <1>2, <1>4
<1> QED BY <1>1, <1>2, <1>3, <1>4, <1>5, <1>6

\* What becomes of the frames on their way from the page.
LEMMA UpGrows ==
    ASSUME Frames, NEW out, up' = up \/ Attached \/ Spoke(out), K.cursor \in MaybeSeqs,
           C.gen \in Gens \/ ~C.current
    PROVE  /\ DOMAIN up = 1 .. Len(up) /\ Len(up) \in Nat /\ DOMAIN up' = 1 .. Len(up')
           /\ Len(up') \in Nat /\ Len(up) <= Len(up')
           /\ \A i \in DOMAIN up : i \in DOMAIN up' /\ up'[i] = up[i]
           /\ \A i \in DOMAIN up' :
                 \/ i \in DOMAIN up /\ up'[i] = up[i]
                 \/ Attached /\ i = Len(up) + 1 /\ up'[i] = AttachOf(C.gen, K.cursor)
                 \/ /\ Spoke(out) /\ i \notin DOMAIN up /\ i - Len(up) \in DOMAIN out
                    /\ up'[i] = out[i - Len(up)] /\ up'[i] = Ack(C.gen, up'[i].cursor)
<1>1. up \in Seq(PageFrame) /\ DOMAIN up = 1 .. Len(up) /\ Len(up) \in Nat
    BY DEF Frames
<1>2. CASE up' = up
    BY <1>1, <1>2
<1>3. CASE Attached
  <2> DEFINE f == AttachOf(C.gen, K.cursor)
  <2>1. up' = Append(up, f)
      BY <1>3 DEF Attached
  <2>2. C.current
      BY <1>3 DEF Attached
  <2>3. f \in PageFrame
      BY <2>2 DEF AttachOf, PageFrame
  <2> HIDE DEF f
  <2>4. /\ DOMAIN Append(up, f) = 1 .. Len(up) + 1 /\ Len(Append(up, f)) = Len(up) + 1
        /\ \A i \in DOMAIN up : Append(up, f)[i] = up[i]
        /\ Append(up, f)[Len(up) + 1] = f
      BY <1>1, <2>3, AppendIs
  <2>5. /\ DOMAIN up' = 1 .. Len(up) + 1 /\ Len(up') = Len(up) + 1
        /\ \A i \in DOMAIN up : up'[i] = up[i]
        /\ up'[Len(up) + 1] = f
      BY <2>1, <2>4, Zenon
  <2> QED BY <1>1, <1>3, <2>5 DEF f
<1>4. CASE Spoke(out)
  <2>1. /\ up' = up \o out /\ out \in Seq(PageFrame)
        /\ \A i \in DOMAIN out : out[i] = Ack(C.gen, out[i].cursor)
      BY <1>4 DEF Spoke
  <2>2. /\ DOMAIN up' = 1 .. Len(up) + Len(out) /\ Len(up') = Len(up) + Len(out)
        /\ Len(out) \in Nat /\ DOMAIN out = 1 .. Len(out)
        /\ \A i \in DOMAIN up : up'[i] = up[i]
        /\ \A i \in DOMAIN up' : i > Len(up) => up'[i] = out[i - Len(up)]
    <3>1. up \in Seq(PageFrame) /\ out \in Seq(PageFrame)
        BY <1>1, <2>1
    <3>2. /\ Len(out) \in Nat /\ DOMAIN out = 1 .. Len(out)
          /\ DOMAIN (up \o out) = 1 .. Len(up) + Len(out) /\ Len(up \o out) = Len(up) + Len(out)
          /\ \A i \in DOMAIN up : (up \o out)[i] = up[i]
          /\ \A i \in DOMAIN (up \o out) : i > Len(up) => (up \o out)[i] = out[i - Len(up)]
        BY <3>1, ConcatIs, Zenon
    <3> QED BY <2>1, <3>2, ZenonT(60)
  <2>3. \A i \in DOMAIN up' : i \notin DOMAIN up => i > Len(up) /\ i - Len(up) \in DOMAIN out
      BY <1>1, <2>2
  <2>4. \A i \in DOMAIN up' : i \notin DOMAIN up =>
           up'[i] = out[i - Len(up)] /\ up'[i] = Ack(C.gen, up'[i].cursor)
      BY <2>1, <2>2, <2>3
  <2>5. \A i \in DOMAIN up : i \in DOMAIN up'
      BY <1>1, <2>2
  <2> QED BY <1>1, <1>4, <2>2, <2>3, <2>4, <2>5
<1> QED BY <1>2, <1>3, <1>4

\* What it says is of its own generation.
LEMMA UpOfPage ==
    ASSUME BaseInv, NEW out, up' = up \/ Attached \/ Spoke(out)
    PROVE  /\ DOMAIN up = 1 .. Len(up) /\ Len(up) \in Nat /\ DOMAIN up' = 1 .. Len(up')
           /\ Len(up') \in Nat /\ Len(up) <= Len(up')
           /\ \A i \in DOMAIN up : i \in DOMAIN up' /\ up'[i] = up[i]
           /\ \A i \in DOMAIN up' :
                 \/ i \in DOMAIN up /\ up'[i] = up[i]
                 \/ /\ Attached /\ i = Len(up) + 1 /\ up'[i] = AttachOf(C.gen, K.cursor)
                    /\ up'[i].kind = "attach" /\ up'[i].gen = C.gen
                 \/ /\ Spoke(out) /\ i \notin DOMAIN up /\ i - Len(up) \in DOMAIN out
                    /\ up'[i] = out[i - Len(up)] /\ up'[i] = Ack(C.gen, up'[i].cursor)
                    /\ up'[i].kind = "ack" /\ up'[i].gen = C.gen
<1>1. Frames /\ PageInv
    BY DEF BaseInv, TypesInv
<1>2. K.cursor \in MaybeSeqs /\ (C.gen \in Gens \/ ~C.current)
    BY <1>1 DEF PageInv, Sound, PageShape, PageFence, Page, Coordinator, K, C
<1>3. \A g, cursor : /\ AttachOf(g, cursor).kind = "attach" /\ AttachOf(g, cursor).gen = g
                     /\ Ack(g, cursor).kind = "ack" /\ Ack(g, cursor).gen = g
    BY DEF AttachOf, Ack
<1>4. /\ DOMAIN up = 1 .. Len(up) /\ Len(up) \in Nat /\ DOMAIN up' = 1 .. Len(up')
      /\ Len(up') \in Nat /\ Len(up) <= Len(up')
      /\ \A i \in DOMAIN up : i \in DOMAIN up' /\ up'[i] = up[i]
      /\ \A i \in DOMAIN up' :
            \/ i \in DOMAIN up /\ up'[i] = up[i]
            \/ Attached /\ i = Len(up) + 1 /\ up'[i] = AttachOf(C.gen, K.cursor)
            \/ /\ Spoke(out) /\ i \notin DOMAIN up /\ i - Len(up) \in DOMAIN out
               /\ up'[i] = out[i - Len(up)] /\ up'[i] = Ack(C.gen, up'[i].cursor)
    BY <1>1, <1>2, UpGrows
<1>5. ASSUME NEW i \in DOMAIN up'
      PROVE  \/ i \in DOMAIN up /\ up'[i] = up[i]
             \/ /\ Attached /\ i = Len(up) + 1 /\ up'[i] = AttachOf(C.gen, K.cursor)
                /\ up'[i].kind = "attach" /\ up'[i].gen = C.gen
             \/ /\ Spoke(out) /\ i \notin DOMAIN up /\ i - Len(up) \in DOMAIN out
                /\ up'[i] = out[i - Len(up)] /\ up'[i] = Ack(C.gen, up'[i].cursor)
                /\ up'[i].kind = "ack" /\ up'[i].gen = C.gen
    BY <1>3, <1>4
<1> QED BY <1>4, <1>5

-----------------------------------------------------------------------------
(* A callback keeps what is said *)

LEMMA OutcomeBehind ==
    ASSUME BaseInv, CursorInv, NEW q, NEW ctl, NEW dat, Outcome(q, ctl, dat, head)
    PROVE  /\ q.coordinator.cursor <= head /\ q.coordinator.received <= head
           /\ \A i \in DOMAIN q.coordinator.pending : q.coordinator.pending[i].seq <= head
<1>0. /\ Frames /\ PageInv /\ Sound(q) /\ head \in Seqs
      /\ K.cursor <= head /\ K.received <= head
      /\ \A i \in DOMAIN K.pending : K.pending[i].seq <= head
    BY OutcomeIs DEF BaseInv, TypesInv, RelayTypes, CursorInv, Behind, K
<1>1. NoSeq <= head /\ DOMAIN <<>> = {}
    BY <1>0, SeqsAreNumbers DEF NoSeq
<1>2. CASE Stays(q, ctl, dat)
  <2>1. /\ q.coordinator.cursor \in {K.cursor, K.received, NoSeq}
        /\ q.coordinator.received \in {K.received, NoSeq}
        /\ q.coordinator.pending \in {K.pending, <<>>}
      BY <1>2 DEF Stays, Quiet, K
  <2> QED BY <1>0, <1>1, <2>1
<1>3. CASE Activates(q, ctl, dat)
  <2>1. /\ q.coordinator.cursor = K.cursor
        /\ \/ q.coordinator.state = "awaiting" /\ q.coordinator.pending = <<>>
           \/ q.coordinator = K
      BY <1>3 DEF Activates, K
  <2>2. q.coordinator.state = "awaiting" => q.coordinator.received = NoSeq
      BY <1>0 DEF Sound, PageDelivery
  <2> QED BY <1>0, <1>1, <2>1, <2>2
<1>4. CASE q.coordinator = K
    BY <1>0, <1>4
<1>5. CASE Resyncs(q, ctl, dat)
  <2>1. /\ q.coordinator.cursor = K.cursor /\ q.coordinator.state = "awaiting"
        /\ q.coordinator.pending = <<>>
      BY <1>5 DEF Resyncs, K
  <2>2. q.coordinator.received = NoSeq
      BY <1>0, <2>1 DEF Sound, PageDelivery
  <2> QED BY <1>0, <1>1, <2>1, <2>2
<1>6. CASE Starts(q, ctl, dat, head)
  <2>1. /\ q.coordinator.cursor <= head /\ q.coordinator.received <= head
        /\ q.coordinator.state \in Delivering \cup {"resyncing"}
      BY <1>6 DEF Starts, Started
  <2>2. q.coordinator.pending = <<>>
      BY <1>0, <2>1 DEF Sound, PageDelivery, Delivering
  <2> QED BY <1>1, <2>1, <2>2
<1>7. CASE Takes(q, ctl, dat)
  <2> DEFINE f == Head(dataWire.frames)
  <2>1. Accepted(page, f, q) /\ f.kind \in {"event", "commit"} /\ dataWire.frames # <<>>
      BY <1>7 DEF Takes, TakenData
  <2>2. f = dataWire.frames[1] /\ 1 \in DOMAIN dataWire.frames /\ f \in DataFrame
      BY <1>0, <2>1, FramesHead
  <2> HIDE DEF f
  <2>3. f.seq <= head
      BY <2>1, <2>2 DEF CursorInv
  <2>4. q.coordinator.cursor <= head /\ q.coordinator.received <= head
      BY <1>0, <1>1, <2>1, <2>3 DEF Accepted, K
  <2>5. \A i \in DOMAIN q.coordinator.pending : q.coordinator.pending[i].seq <= head
    <3>1. CASE q.coordinator.pending \in {K.pending, <<>>}
        BY <1>0, <1>1, <3>1
    <3>2. CASE K.state = "awaiting" /\ q.coordinator = [K EXCEPT !.pending = Append(@, f)]
      <4>1. K \in Coordinator
          BY <1>0 DEF PageInv, Sound, PageShape, Page, K
      <4>2. q.coordinator.pending = Append(K.pending, f) /\ K.pending \in Seq(DataFrame)
          BY <3>2, <4>1 DEF Coordinator
      <4>3. \A i \in DOMAIN q.coordinator.pending :
               \/ q.coordinator.pending[i] = f
               \/ i \in DOMAIN K.pending /\ q.coordinator.pending[i] = K.pending[i]
          BY <2>2, <4>2
      <4> QED BY <1>0, <2>3, <4>3
    <3>3. \/ q.coordinator.state \in Delivering \/ q.coordinator = K
          \/ q.coordinator.state = "resyncing"
          \/ K.state = "awaiting" /\ q.coordinator = [K EXCEPT !.pending = Append(@, f)]
        BY <2>1 DEF Accepted, K
    <3>4. q.coordinator.state \in Delivering \cup {"resyncing"} => q.coordinator.pending = <<>>
        BY <1>0 DEF Sound, PageDelivery, Delivering
    <3> QED BY <3>1, <3>2, <3>3, <3>4
  <2> QED BY <2>4, <2>5
<1>8. CASE \/ OpensControl(q, ctl, dat) \/ OpensData(q, ctl, dat) \/ DropsData(q, ctl, dat)
           \/ Flushes(q, ctl, dat)
    BY <1>4, <1>8 DEF OpensControl, OpensData, DropsData, Flushes, K
<1> QED BY <1>2, <1>3, <1>5, <1>6, <1>7, <1>8 DEF Outcome

LEMMA PageCursors ==
    ASSUME BaseInv, CursorInv, NEW q, NEW ctl, NEW dat,
           PageBecomes(q, ctl, dat), Outcome(q, ctl, dat, head),
           up' = up \/ Attached \/ Spoke(q.out)
    PROVE  CursorInv'
<1>0. PageInv /\ Frames /\ WireInv /\ Sound(q)
    BY OutcomeIs DEF BaseInv, TypesInv
<1>1. head' = head /\ page'.coordinator = q.coordinator
    BY <1>0, BecomesIs
<1>2. K.cursor <= head
    BY DEF CursorInv, Behind, K
<1>3. \A i \in DOMAIN up' : up'[i].kind = "attach" => up'[i].cursor <= head
  <2>1. \A g, cursor : AttachOf(g, cursor).cursor = cursor
      BY DEF AttachOf
  <2>2. ASSUME NEW i \in DOMAIN up', up'[i].kind = "attach" PROVE up'[i].cursor <= head
      BY <1>2, <2>1, <2>2, UpOfPage DEF CursorInv
  <2> QED BY <2>2
<1>4. /\ \A i \in DOMAIN ctlWire'.frames :
            ctlWire'.frames[i].kind = "start" => ctlWire'.frames[i].cut <= head
      /\ \A i \in DOMAIN dataWire'.frames :
            dataWire'.frames[i].kind \in {"event", "commit"} => dataWire'.frames[i].seq <= head
    BY <1>0, PageKeepsFrames DEF CursorInv, Behind
<1>5. Behind(head)'
    BY <1>1, <1>4, OutcomeBehind DEF Behind
<1> QED BY <1>1, <1>3, <1>4, <1>5 DEF CursorInv

LEMMA PageGens ==
    ASSUME BaseInv, LinkInv, GenInv, NEW q, NEW ctl, NEW dat, NEW h,
           PageBecomes(q, ctl, dat), Outcome(q, ctl, dat, h),
           up' = up \/ Attached \/ Spoke(q.out)
    PROVE  GenInv'
<1>0. /\ PageInv /\ Frames /\ WireInv /\ Sound(q) /\ SetInv /\ OwnInv /\ OpenInv
      /\ AttachInv /\ WireInv' /\ RelayTypes
    BY OutcomeIs, PageWires DEF BaseInv, TypesInv, LinkInv
<1>1. /\ gen' = gen /\ control' = control /\ attaching' = attaching /\ sets' = sets
    BY <1>0, BecomesIs
<1>2. /\ PageMoves
      /\ page'.attempt = "offered" =>
            page.attempt = "offered" /\ page'.offer = page.offer /\ (Leaves \/ Lingers)
    BY <1>0, PageMovesAlong
<1>3. /\ gen \in Int /\ C.gen \in Int /\ C.set \in Nat
      /\ \A i \in DOMAIN up : up[i].gen \in Int
      /\ IsOpen(control) => control.set # 0
      /\ \A i \in DOMAIN ctlWire.frames : ctlWire.frames[i].kind \in {"start", "resync"} =>
            ctlWire.frames[i].gen \in Int
  <2>1. \A i \in DOMAIN up : up[i].gen \in Int
    <3>1. ASSUME NEW i \in DOMAIN up PROVE up[i].gen \in Int
      <4>1. up[i] \in PageFrame
          BY <1>0 DEF Frames
      <4> QED BY <4>1, SeqsAreNumbers DEF PageFrame
    <3> QED BY <3>1
  <2>2. ASSUME NEW i \in DOMAIN ctlWire.frames, ctlWire.frames[i].kind \in {"start", "resync"}
        PROVE  ctlWire.frames[i].gen \in Int
    <3>1. ctlWire.frames[i] \in ControlFrame
        BY <1>0 DEF Frames
    <3> QED BY <2>2, <3>1, SeqsAreNumbers DEF ControlFrame
  <2> QED BY <2>1, <2>2, LinkNumbers
\* The generation of a page that stays on its socket only grows.
<1>4. HoldsControl' => HoldsControl /\ C.gen <= C'.gen /\ C'.set = C.set
  <2>1. HoldsControl' => IsOpen(control) /\ control.set = C'.set /\ control.set # 0
      BY <1>0, <1>1, <1>3 DEF HoldsControl, WireInv, C
  <2>2. CASE Leaves
      BY <2>1, <2>2 DEF Leaves, NoConnection
  <2>3. CASE Joins
      BY <1>0, <2>1, <2>3 DEF Joins, NewConnection, SetInv
  <2>4. CASE Lingers \/ ControlOpens \/ DataOpens \/ DataDrops
    <3>1. C'.set = C.set /\ C'.gen = C.gen
        BY <2>4 DEF Lingers, Remains, ControlOpens, DataOpens, DataDrops, GoesOn
    <3> QED BY <1>0, <1>3, <2>1, <3>1 DEF HoldsControl, WireInv
  <2>5. CASE Renewed
    <3>1. C'.set = C.set /\ C'.gen = Head(ctlWire.frames).gen /\ C.gen < C'.gen
          /\ C'.gen \in Gens
        BY <2>5 DEF Renewed, GoesOn
    <3>2. C.gen <= C'.gen
        BY <1>3, <3>1, SeqsAreNumbers
    <3> QED BY <1>0, <2>1, <3>1, <3>2 DEF HoldsControl, WireInv
  <2> QED BY <1>2, <2>2, <2>3, <2>4, <2>5 DEF PageMoves
<1>5. HoldsControl => C.gen <= gen
    BY <1>0 DEF OwnInv
<1>6. C'.gen \in Int
  <2>1. C' = q.connection /\ q.connection.gen \in 0 .. MaxGen
      BY <1>0, BecomesIs, SocketsOfPage DEF C
  <2> QED BY <2>1, Bounds
<1>7. ASSUME NEW i \in DOMAIN up'
      PROVE  up'[i].gen <= gen' /\ (HoldsControl' => up'[i].gen <= C'.gen)
  <2>1. CASE i \in DOMAIN up /\ up'[i] = up[i]
      BY <1>1, <1>3, <1>4, <1>6, <2>1 DEF GenInv
  <2>2. CASE ~(i \in DOMAIN up /\ up'[i] = up[i])
    <3>1. up'[i].gen = C.gen /\ HoldsControl
        BY <2>2, UpOfPage DEF Attached, Spoke
    <3> QED BY <1>1, <1>3, <1>4, <1>5, <1>6, <3>1
  <2> QED BY <2>1, <2>2
<1>8. ASSUME NEW i \in DOMAIN ctlWire'.frames, ctlWire'.frames[i].kind = "start"
      PROVE  ctlWire'.frames[i].gen <= C'.gen
  <2>1. /\ \E j \in DOMAIN ctlWire.frames : ctlWire'.frames[i] = ctlWire.frames[j]
        /\ ctlWire'.set = ctlWire.set
      BY <1>0, <1>8, PageKeepsFrames
  <2>2. ctlWire'.frames[i].gen <= C.gen /\ ctlWire'.frames[i].gen \in Int
      BY <1>3, <1>8, <2>1 DEF GenInv
  <2>3. CASE Leaves
    <3>1. ctlWire'.set = 0 /\ C'.set = 0 /\ C'.gen = 0 /\ C.set = 0
        BY <1>0, <2>1, <2>3 DEF Leaves, NoConnection, WireInv
    <3>2. C.gen = 0
      <4>1. C.control = "none"
          BY <1>0, <3>1, LinkNumbers
      <4> QED BY <1>0, <4>1 DEF PageInv, Sound, PageShape, NoConnection, C
    <3> QED BY <2>2, <3>1, <3>2
  <2>4. CASE Joins
    <3>1. ctlWire'.frames = <<>>
        BY <2>4, FreshIs DEF Joins
    <3> QED BY <1>8, <3>1
  <2>5. CASE Lingers \/ ControlOpens \/ DataOpens \/ DataDrops
    <3>1. C'.gen = C.gen
        BY <2>5 DEF Lingers, Remains, ControlOpens, DataOpens, DataDrops, GoesOn
    <3> QED BY <2>2, <3>1
  <2>6. CASE Renewed
    <3>1. C'.gen = Head(ctlWire.frames).gen /\ C.gen < C'.gen
        BY <2>6 DEF Renewed, GoesOn
    <3> QED BY <1>3, <1>6, <2>2, <3>1
  <2> QED BY <1>2, <2>3, <2>4, <2>5, <2>6 DEF PageMoves
<1>9. ASSUME NEW a \in attaching'
      PROVE  /\ a.set <= sets'
             /\ page'.attempt = "offered" => a.set # page'.offer.set
             /\ a.set = C'.set => a.gen <= C'.gen
  <2>1. /\ a \in attaching /\ a.set # 0 /\ a.set <= sets
        /\ page.attempt = "offered" => a.set # page.offer.set
        /\ a.set = C.set => a.gen <= C.gen
        /\ a.gen \in Int
      BY <1>0, <1>1, SeqsAreNumbers DEF GenInv, AttachInv, RelayTypes
  <2>2. a.set = C'.set => a.gen <= C'.gen
    <3>1. CASE Leaves
        BY <2>1, <3>1 DEF Leaves, NoConnection
    <3>2. CASE Joins
        BY <2>1, <3>2 DEF Joins, NewConnection
    <3>3. CASE Lingers \/ ControlOpens \/ DataOpens \/ DataDrops
      <4>1. C'.set = C.set /\ C'.gen = C.gen
          BY <3>3 DEF Lingers, Remains, ControlOpens, DataOpens, DataDrops, GoesOn
      <4> QED BY <2>1, <4>1
    <3>4. CASE Renewed
      <4>1. C'.set = C.set /\ C.gen < C'.gen
          BY <3>4 DEF Renewed, GoesOn
      <4> QED BY <1>3, <1>6, <2>1, <4>1
    <3> QED BY <1>2, <3>1, <3>2, <3>3, <3>4 DEF PageMoves
  <2> QED BY <1>1, <1>2, <2>1, <2>2
<1> QED BY <1>7, <1>8, <1>9 DEF GenInv

\* What a callback finds and leaves of the relay, and how it moves the page.
LEMMA PageStep ==
    ASSUME BaseInv, LinkInv, NEW q, NEW ctl, NEW dat, NEW h,
           PageBecomes(q, ctl, dat), Outcome(q, ctl, dat, h)
    PROVE  /\ UNCHANGED <<client, gen, sets, tickets, control, data, attaching, head, blame>>
           /\ C' = q.connection /\ K' = q.coordinator /\ page'.acks = q.acks
           /\ PageMoves /\ WireInv'
           /\ page'.attempt = "offered" =>
                 page.attempt = "offered" /\ page'.offer = page.offer /\ (Leaves \/ Lingers)
           /\ \A i \in DOMAIN ctlWire'.frames :
                 /\ ctlWire'.set = ctlWire.set
                 /\ \E j \in DOMAIN ctlWire.frames : ctlWire'.frames[i] = ctlWire.frames[j]
           /\ \A i \in DOMAIN dataWire'.frames :
                 /\ dataWire'.set = dataWire.set /\ dataWire'.gen = dataWire.gen
                 /\ \E j \in DOMAIN dataWire.frames : dataWire'.frames[i] = dataWire.frames[j]
<1>0. PageInv /\ Frames /\ WireInv /\ Sound(q) /\ SetInv /\ OpenInv
    BY OutcomeIs DEF BaseInv, TypesInv, LinkInv
<1>1. /\ UNCHANGED <<client, gen, sets, tickets, control, data, attaching, head, blame>>
      /\ C' = q.connection /\ K' = q.coordinator /\ page'.acks = q.acks
    BY <1>0, BecomesIs DEF C, K
<1>2. /\ PageMoves
      /\ page'.attempt = "offered" =>
            page.attempt = "offered" /\ page'.offer = page.offer /\ (Leaves \/ Lingers)
    BY <1>0, PageMovesAlong
<1>3. WireInv'
    BY <1>0, PageWires
<1>4. \A i \in DOMAIN ctlWire'.frames :
         /\ ctlWire'.set = ctlWire.set
         /\ \E j \in DOMAIN ctlWire.frames : ctlWire'.frames[i] = ctlWire.frames[j]
    BY <1>0, PageKeepsFrames
<1>5. \A i \in DOMAIN dataWire'.frames :
         /\ dataWire'.set = dataWire.set /\ dataWire'.gen = dataWire.gen
         /\ \E j \in DOMAIN dataWire.frames : dataWire'.frames[i] = dataWire.frames[j]
    BY <1>0, PageKeepsFrames
<1> QED BY <1>1, <1>2, <1>3, <1>4, <1>5

\* Whose the control socket is.
LEMMA HolderIs ==
    ASSUME BaseInv
    PROVE  HoldsControl <=> control.set = C.set /\ C.set # 0
<1>1. ctlWire.set = C.set /\ (IsOpen(control) <=> control.set # 0)
    BY LinkNumbers DEF BaseInv, WireInv
<1> QED BY <1>1 DEF HoldsControl

\* A page attaches a delivery of which nothing has been said.
LEMMA PageAttaches ==
    ASSUME BaseInv, LinkInv, AttachOnce, OpeningInv, NEW q, NEW ctl, NEW dat, NEW h,
           PageBecomes(q, ctl, dat), Outcome(q, ctl, dat, h),
           up' = up \/ Attached \/ Spoke(q.out)
    PROVE  AttachOnce'
<1>1. UNCHANGED <<gen, control, data, attaching>>
    BY PageStep
<1>2. Len(up) \in Nat /\ DOMAIN up = 1 .. Len(up)
    BY UpOfPage
<1>3. \A i \in DOMAIN up' : up'[i].kind = "attach" =>
         \/ i \in DOMAIN up /\ up'[i] = up[i]
         \/ Attached /\ i = Len(up) + 1 /\ up'[i].gen = C.gen
  <2>1. \A i \in DOMAIN up' :
           \/ i \in DOMAIN up /\ up'[i] = up[i]
           \/ /\ Attached /\ i = Len(up) + 1 /\ up'[i] = AttachOf(C.gen, K.cursor)
              /\ up'[i].kind = "attach" /\ up'[i].gen = C.gen
           \/ /\ Spoke(q.out) /\ i \notin DOMAIN up /\ i - Len(up) \in DOMAIN q.out
              /\ up'[i] = q.out[i - Len(up)] /\ up'[i] = Ack(C.gen, up'[i].cursor)
              /\ up'[i].kind = "ack" /\ up'[i].gen = C.gen
      BY UpOfPage
  <2> QED BY <2>1, Zenon
<1>4. Attached => /\ control.set = C.set
                  /\ \A i \in DOMAIN up : up[i].gen # C.gen
                  /\ \A a \in attaching : a.set = C.set => a.gen # C.gen
                  /\ data.set = C.set /\ data.gen = C.gen => data.state = "awaiting"
  <2>1. SUFFICES ASSUME Attached
                 PROVE  /\ control.set = C.set
                        /\ \A i \in DOMAIN up : up[i].gen # C.gen
                        /\ \A a \in attaching : a.set = C.set => a.gen # C.gen
                        /\ data.set = C.set /\ data.gen = C.gen => data.state = "awaiting"
      OBVIOUS
  <2>2. control.set = C.set
      BY <2>1, HolderIs DEF Attached
  <2>3. Unspoken
      BY <2>1 DEF Attached, DataOpens, Opening, OpeningInv
  <2> QED BY <2>2, <2>3 DEF Unspoken, SameSocket
<1>5. ASSUME NEW i \in DOMAIN up', NEW j \in DOMAIN up', up'[i].kind = "attach",
             up'[j].kind = "attach", up'[i].gen = up'[j].gen
      PROVE  i = j
    BY <1>3, <1>4, <1>5 DEF AttachOnce
<1>6. ASSUME NEW i \in DOMAIN up', up'[i].kind = "attach"
      PROVE  /\ \A a \in attaching : a.set = control.set => up'[i].gen # a.gen
             /\ up'[i].gen = gen /\ HasData => data.state = "awaiting"
    BY <1>3, <1>4, <1>6 DEF AttachOnce, HasData, SameSocket
<1>7. HasData' <=> HasData
    BY <1>1 DEF HasData
<1> QED BY <1>1, <1>5, <1>6, <1>7 DEF AttachOnce

-----------------------------------------------------------------------------
(* Until its sockets are open, the page says nothing *)

LEMMA PageWaits ==
    ASSUME PageInv, Frames, NEW q, NEW ctl, NEW dat, NEW h, Outcome(q, ctl, dat, h),
           K.state = "awaiting", NoStart, q.connection.current
    PROVE  q.coordinator.state = "awaiting"
<1>1. CASE Stays(q, ctl, dat)
    BY <1>1 DEF Stays, Quiet, Continues, K
<1>2. CASE Activates(q, ctl, dat)
    BY <1>2 DEF Activates, K
<1>3. CASE OpensControl(q, ctl, dat) \/ OpensData(q, ctl, dat) \/ DropsData(q, ctl, dat)
           \/ Flushes(q, ctl, dat)
    BY <1>3 DEF OpensControl, OpensData, DropsData, Flushes, K
<1>4. CASE Resyncs(q, ctl, dat)
    BY <1>4 DEF Resyncs
<1>5. CASE Starts(q, ctl, dat, h)
  <2>1. StartOf(1) /\ 1 \in DOMAIN ctlWire.frames
      BY <1>5, FramesHead DEF Starts, Heard, StartOf, C
  <2> QED BY <2>1 DEF NoStart
<1>6. CASE Takes(q, ctl, dat)
  <2>1. Accepted(page, Head(dataWire.frames), q)
      BY <1>6 DEF Takes
  <2>2. /\ K.state \notin {"resyncing", "closed"} /\ K.state \notin Delivering
        /\ K \in Coordinator
      BY DEF PageInv, Sound, PageShape, Page, K, Delivering
  <2>3. q.coordinator = [K EXCEPT !.pending = Append(@, Head(dataWire.frames))]
      BY <2>1, <2>2 DEF Accepted, K
  <2> QED BY <2>2, <2>3 DEF Coordinator
<1> QED BY <1>1, <1>2, <1>3, <1>4, <1>5, <1>6 DEF Outcome

LEMMA PageOpening ==
    ASSUME BaseInv, LinkInv, GenInv, OpeningInv, NEW q, NEW ctl, NEW dat, NEW h,
           PageBecomes(q, ctl, dat), Outcome(q, ctl, dat, h),
           up' = up \/ Attached \/ Spoke(q.out)
    PROVE  OpeningInv'
<1>0. PageInv /\ Frames /\ Sound(q) /\ SetInv /\ OwnInv /\ FenceInv
    BY OutcomeIs DEF BaseInv, TypesInv, LinkInv
<1>1. /\ UNCHANGED <<gen, sets, control, data, attaching>>
      /\ C' = q.connection /\ K' = q.coordinator /\ PageMoves
      /\ \A i \in DOMAIN ctlWire'.frames :
            /\ ctlWire'.set = ctlWire.set
            /\ \E j \in DOMAIN ctlWire.frames : ctlWire'.frames[i] = ctlWire.frames[j]
    BY PageStep
<1>2. SUFFICES ASSUME Opening' PROVE Unspoken'
    BY DEF OpeningInv
<1>3. C'.current
    BY <1>2 DEF Opening
\* What was opening before is the same delivery, of which nothing has been said.
<1>4. ASSUME Opening, C'.set = C.set, C'.gen = C.gen, C'.data # "open"
      PROVE  Unspoken'
  <2>1. Unspoken
      BY <1>4 DEF OpeningInv
  <2>2. K'.state = "awaiting"
      BY <1>0, <1>1, <1>3, <2>1, PageWaits DEF Unspoken
  <2>3. NoStart'
      BY <1>1, <1>4, <2>1 DEF Unspoken, NoStart, StartOf
  <2>4. up' = up
    <3>1. ~Attached
        BY <1>4 DEF Attached, DataOpens, GoesOn
    <3> QED BY <1>4, <3>1 DEF Spoke
  <2> QED BY <1>1, <1>4, <2>1, <2>2, <2>3, <2>4 DEF Unspoken, SameSocket
<1>5. CASE Leaves
    BY <1>3, <1>5 DEF Leaves, NoConnection
<1>6. CASE Lingers
  <2>1. Remains(C, C')
      BY <1>6 DEF Lingers
  <2>2. Opening /\ C'.set = C.set /\ C'.gen = C.gen /\ C'.data = C.data
      BY <1>2, <2>1 DEF Opening, Remains
  <2>3. CASE C'.data # "open"
      BY <1>4, <2>2, <2>3
  <2>4. CASE C'.data = "open"
    <3>1. C.control \in {"open", "closing"}
        BY <2>2, <2>4 DEF BaseInv, WireInv
    <3> QED BY <2>2, <2>4, <3>1 DEF Opening
  <2> QED BY <2>3, <2>4
<1>7. CASE Joins
  <2>1. /\ page.attempt = "offered" /\ q.connection = NewConnection(page)
        /\ C'.set = page.offer.set /\ C'.set # 0 /\ C'.set # C.set
        /\ ctlWire'.frames = <<>>
      BY <1>0, <1>1, <1>7, FreshIs, LinkNumbers DEF Joins, NewConnection, SetInv
  <2>2. K'.state = "awaiting"
    <3>1. Activates(q, ctl, dat)
      <4>1. q.connection # NoConnection
          BY <1>1, <1>3 DEF NoConnection
      <4>2. q.connection.set # page.connection.set
          BY <1>1, <2>1 DEF C
      <4> QED BY <1>0, <4>1, <4>2, OutcomeConnects
              DEF Remains, OpensControl, DropsData, Changes
    <3>2. \/ q.coordinator.state = "awaiting"
          \/ page.coordinator.fence = page.offer.gen /\ q.coordinator = page.coordinator
        BY <3>1 DEF Activates
    <3>3. K.fence = page.offer.gen => K.state \in {"awaiting", "closed"}
        BY <1>0, <2>1 DEF FenceInv, Unspent
    <3>4. K.state # "closed"
        BY <1>0, <2>1 DEF PageInv, Sound, PageFence, K
    <3> QED BY <1>1, <3>2, <3>3, <3>4 DEF K
  <2>3. NoStart'
      BY <2>1 DEF NoStart
  <2>4. control.set # C'.set /\ data.set # C'.set /\ \A a \in attaching : a.set # C'.set
      BY <1>0, <2>1 DEF SetInv, GenInv
  <2> QED BY <1>1, <2>2, <2>3, <2>4 DEF Unspoken, SameSocket
<1>8. CASE ControlOpens
  <2>1. Opening /\ C'.set = C.set /\ C'.gen = C.gen /\ C'.data # "open"
      BY <1>8 DEF ControlOpens, GoesOn, Opening
  <2> QED BY <1>4, <2>1
<1>9. CASE DataOpens
    BY <1>2, <1>9 DEF DataOpens, GoesOn, Opening
<1>10. CASE DataDrops
  <2>1. Opening /\ C'.set = C.set /\ C'.gen = C.gen /\ C'.data # "open"
      BY <1>2, <1>10 DEF DataDrops, GoesOn, Opening
  <2> QED BY <1>4, <2>1
<1>11. CASE Renewed
  <2>1. /\ C'.set = C.set /\ C.gen < C'.gen /\ C'.gen \in Int /\ C.gen \in Int /\ C.control = "open"
    <3>1. C'.set = C.set /\ C.gen < C'.gen /\ C'.gen \in Gens /\ C.control = "open"
        BY <1>11 DEF Renewed, GoesOn
    <3> QED BY <3>1, SeqsAreNumbers, LinkNumbers
  <2>2. K'.state = "awaiting"
    <3>1. q.connection # NoConnection
        BY <1>1, <1>3 DEF NoConnection
    <3>2. q.connection.gen # page.connection.gen /\ q.connection.set = page.connection.set
        BY <1>1, <2>1 DEF C
    <3>3. page.attempt = "offered" => page.offer.set # page.connection.set
        BY <1>0 DEF SetInv, C
    <3>4. Resyncs(q, ctl, dat)
        BY <1>0, <3>1, <3>2, <3>3, OutcomeConnects
           DEF Remains, Activates, NewConnection, OpensControl, DropsData, Changes
    <3> QED BY <1>1, <3>4 DEF Resyncs
  <2>3. NoStart'
    <3>1. ASSUME NEW i \in DOMAIN ctlWire'.frames, ctlWire'.frames[i].kind = "start"
          PROVE  ctlWire'.frames[i].gen # C'.gen
      <4>1. PICK j \in DOMAIN ctlWire.frames : ctlWire'.frames[i] = ctlWire.frames[j]
          BY <1>1, <3>1
      <4>2. ctlWire.frames[j].gen <= C.gen
          BY <3>1, <4>1 DEF GenInv
      <4>3. ctlWire.frames[j].gen \in Int
        <5>1. ctlWire.frames[j] \in ControlFrame /\ ctlWire.frames[j].kind = "start"
            BY <1>0, <3>1, <4>1 DEF Frames
        <5> QED BY <5>1, StartTyped, SeqsAreNumbers
      <4> QED BY <2>1, <4>1, <4>2, <4>3
    <3> QED BY <3>1 DEF NoStart, StartOf
  <2>4. ASSUME control.set = C.set, NEW i \in DOMAIN up' PROVE up'[i].gen # C'.gen
    <3>1. HoldsControl
      <4>1. C.set # 0
          BY <2>1, LinkNumbers
      <4> QED BY <2>4, <4>1, HolderIs
    <3>2. CASE i \in DOMAIN up /\ up'[i] = up[i]
      <4>1. up[i].gen <= C.gen
          BY <3>1, <3>2 DEF GenInv
      <4>2. up[i].gen \in Int
        <5>1. up[i] \in PageFrame
            BY <1>0, <3>2 DEF Frames
        <5>2. up[i].gen \in Gens
            BY <5>1 DEF PageFrame
        <5> QED BY <5>2, SeqsAreNumbers
      <4> QED BY <2>1, <3>2, <4>1, <4>2
    <3>3. CASE up'[i].gen = C.gen
        BY <2>1, <3>3
    <3> QED BY <3>2, <3>3, UpOfPage
  <2>5. \A a \in attaching : ~(a.set = C.set /\ a.gen = C'.gen)
    <3>1. \A a \in attaching : a.gen \in Int
        BY SeqsAreNumbers DEF BaseInv, TypesInv, RelayTypes
    <3> QED BY <2>1, <3>1 DEF GenInv
  <2>6. ~(data.set = C.set /\ data.gen = C'.gen)
    <3>1. C.set # 0
        BY <2>1, LinkNumbers
    <3>2. data.set = C.set => IsOpen(data) /\ data.gen \in Int
        BY <3>1, LinkNumbers
    <3> QED BY <1>0, <2>1, <3>2 DEF OwnInv
  <2> QED BY <1>1, <2>1, <2>2, <2>3, <2>4, <2>5, <2>6 DEF Unspoken, SameSocket
<1> QED BY <1>1, <1>5, <1>6, <1>7, <1>8, <1>9, <1>10, <1>11 DEF PageMoves

LEMMA PageUnused ==
    ASSUME BaseInv, LinkInv, UnusedInv, NEW q, NEW ctl, NEW dat, NEW h,
           PageBecomes(q, ctl, dat), Outcome(q, ctl, dat, h),
           up' = up \/ Attached \/ Spoke(q.out)
    PROVE  UnusedInv'
<1>0. PageInv /\ Frames
    BY DEF BaseInv, TypesInv
<1>1. /\ UNCHANGED <<tickets, control>> /\ PageMoves
      /\ \A i \in DOMAIN dataWire'.frames :
            /\ dataWire'.set = dataWire.set /\ dataWire'.gen = dataWire.gen
            /\ \E j \in DOMAIN dataWire.frames : dataWire'.frames[i] = dataWire.frames[j]
    BY PageStep
<1>2. SUFFICES ASSUME NEW t \in tickets, t.channel = "data"
               PROVE  /\ control.set = t.set => \A i \in DOMAIN up' : up'[i].gen # t.gen
                      /\ SameSocket(dataWire', t) =>
                            /\ C'.data = "opening"
                            /\ \A i \in DOMAIN dataWire'.frames :
                                  dataWire'.frames[i].kind = "refused"
    BY <1>1 DEF UnusedInv, SameSocket
<1>3. t.set # 0
    BY LinkNumbers
<1>4. DataOpens => ~SameSocket(dataWire, t)
  <2>1. SUFFICES ASSUME DataOpens, SameSocket(dataWire, t) PROVE FALSE
      OBVIOUS
  <2>2. 1 \in DOMAIN dataWire.frames /\ dataWire.frames[1].kind = "open"
      BY <1>0, <2>1, FramesHead DEF DataOpens, Fetches
  <2> QED BY <1>2, <2>1, <2>2 DEF UnusedInv
<1>5. ASSUME control.set = t.set, NEW i \in DOMAIN up' PROVE up'[i].gen # t.gen
  <2>1. CASE i \in DOMAIN up /\ up'[i] = up[i]
      BY <1>2, <1>5, <2>1 DEF UnusedInv
  <2>2. CASE Attached /\ up'[i].gen = C.gen
    <3>1. C.set = t.set
        BY <1>5, <2>2, HolderIs DEF Attached
    <3>2. dataWire.set = C.set /\ dataWire.gen = C.gen
        BY <2>2, WireOfPage DEF Attached, DataOpens
    <3> QED BY <1>4, <2>2, <3>1, <3>2 DEF Attached, SameSocket
  <2>3. CASE Spoke(q.out) /\ up'[i].gen = C.gen
    <3>1. C.set = t.set
        BY <1>5, <2>3, HolderIs DEF Spoke
    <3> QED BY <1>2, <2>3, <3>1 DEF Spoke, SameSocket
  <2> QED BY <2>1, <2>2, <2>3, UpOfPage
<1>6. ASSUME SameSocket(dataWire', t)
      PROVE  /\ C'.data = "opening"
             /\ \A i \in DOMAIN dataWire'.frames : dataWire'.frames[i].kind = "refused"
  <2>1. dataWire'.set = t.set /\ dataWire'.gen = t.gen
      BY <1>6 DEF SameSocket
  <2>2. CASE Leaves \/ Joins \/ DataDrops
      BY <1>3, <2>1, <2>2 DEF Leaves, Joins, DataDrops
  <2>3. CASE Lingers
    <3>1. SameSocket(dataWire, t)
      <4>1. dataWire' = dataWire \/ Fetches
          BY <2>3 DEF Lingers
      <4>2. Fetches => dataWire'.set = dataWire.set /\ dataWire'.gen = dataWire.gen
          BY WiresTyped, UntoldIs DEF Fetches
      <4> QED BY <2>1, <4>1, <4>2 DEF SameSocket
    <3>2. /\ C.data = "opening"
          /\ \A i \in DOMAIN dataWire.frames : dataWire.frames[i].kind = "refused"
        BY <1>2, <3>1 DEF UnusedInv
    <3> QED BY <1>1, <2>3, <3>2 DEF Lingers, Remains
  <2>4. CASE ControlOpens \/ Renewed
    <3>1. C'.data = "opening" /\ \E s, g : dataWire' = Fresh(s, g)
        BY <2>4 DEF ControlOpens, Renewed, GoesOn
    <3> QED BY <3>1, FreshIs
  <2>5. CASE DataOpens
    <3>1. dataWire'.set = dataWire.set /\ dataWire'.gen = dataWire.gen
        BY <2>5, WiresTyped, UntoldIs DEF DataOpens, Fetches
    <3> QED BY <1>4, <2>1, <2>5, <3>1 DEF SameSocket
  <2> QED BY <1>1, <2>2, <2>3, <2>4, <2>5 DEF PageMoves
<1> QED BY <1>5, <1>6

LEMMA PageGone ==
    ASSUME BaseInv, LinkInv, GoneInv, NEW q, NEW ctl, NEW dat, NEW h,
           PageBecomes(q, ctl, dat), Outcome(q, ctl, dat, h)
    PROVE  GoneInv'
<1>0. PageInv /\ Frames /\ SetInv
    BY DEF BaseInv, TypesInv, LinkInv
<1>1. /\ UNCHANGED <<tickets, data>> /\ C' = q.connection /\ PageMoves
      /\ \A i \in DOMAIN dataWire'.frames :
            /\ dataWire'.set = dataWire.set /\ dataWire'.gen = dataWire.gen
            /\ \E j \in DOMAIN dataWire.frames : dataWire'.frames[i] = dataWire.frames[j]
    BY PageStep
<1>2. SUFFICES ASSUME C'.current
               PROVE  /\ \A i \in DOMAIN dataWire'.frames :
                            dataWire'.frames[i].kind \in {"closed", "refused"} =>
                               ~HoldsData' /\ ~Claimed'
                      /\ C'.data = "none" /\ C'.control \in {"open", "closing"} =>
                            ~SameSocket(data', C') /\ ~Claimed'
    BY DEF GoneInv
<1>3. ~Leaves
    BY <1>2 DEF Leaves, NoConnection
<1>4. (C.current /\ C'.set = C.set) \/ Joins
    BY <1>1, <1>2, <1>3
       DEF PageMoves, Lingers, Remains, ControlOpens, DataOpens, DataDrops, Renewed, GoesOn
<1>5. C'.set = C.set /\ C'.gen = C.gen /\ upgrades' = upgrades => (Claimed' <=> Claimed)
    BY <1>1 DEF Claimed, PageData
<1>6. ASSUME NEW i \in DOMAIN dataWire'.frames,
             dataWire'.frames[i].kind \in {"closed", "refused"}
      PROVE  ~HoldsData' /\ ~Claimed'
  <2>1. ~Joins /\ ~ControlOpens /\ ~DataDrops /\ ~Renewed
    <3>1. Joins \/ ControlOpens \/ DataDrops \/ Renewed => dataWire'.frames = <<>>
        BY FreshIs DEF Joins, ControlOpens, DataDrops, Renewed
    <3> QED BY <1>6, <3>1
  <2>2. C.current /\ C'.set = C.set /\ C'.gen = C.gen /\ upgrades' = upgrades
      BY <1>1, <1>3, <1>4, <2>1 DEF PageMoves, Lingers, Remains, DataOpens, GoesOn
  <2>3. ~HoldsData /\ ~Claimed
      BY <1>1, <1>6, <2>2 DEF GoneInv
  <2>4. HoldsData' => HoldsData
      BY <1>1 DEF HoldsData, SameSocket, IsOpen, NoSocket
  <2> QED BY <1>5, <2>2, <2>3, <2>4
<1>7. ASSUME C'.data = "none", C'.control \in {"open", "closing"}
      PROVE  ~SameSocket(data', C') /\ ~Claimed'
  <2>1. Lingers \/ DataDrops
      BY <1>1, <1>3, <1>7
         DEF PageMoves, Joins, NewConnection, ControlOpens, DataOpens, Renewed, GoesOn
  <2>2. /\ C.current /\ C'.set = C.set /\ C'.gen = C.gen /\ upgrades' = upgrades
        /\ C.control \in {"open", "closing"}
      BY <1>2, <1>7, <2>1 DEF Lingers, Remains, DataDrops, GoesOn
  <2>3. ~SameSocket(data, C) /\ ~Claimed
    <3>1. CASE C.data = "none"
        BY <2>2, <3>1 DEF GoneInv
    <3>2. CASE C.data # "none"
      <4>1. DropsData(q, ctl, dat)
        <5>1. q.connection # NoConnection
            BY <1>1, <1>2 DEF NoConnection
        <5>2. q.connection.data = "none" /\ page.connection.data # "none"
              /\ q.connection.set = page.connection.set
            BY <1>1, <1>7, <2>2, <3>2 DEF C
        <5>3. page.attempt = "offered" => page.offer.set # page.connection.set
            BY <1>0 DEF SetInv, C
        <5> QED BY <1>0, <5>1, <5>2, <5>3, OutcomeConnects
                DEF Remains, Activates, NewConnection, OpensControl, Changes
      <4>2. /\ 1 \in DOMAIN dataWire.frames
            /\ dataWire.frames[1].kind \in {"closed", "refused"}
          BY <1>0, <4>1, FramesHead DEF DropsData, TakenData
      <4>3. ~HoldsData /\ ~Claimed
          BY <2>2, <4>2 DEF GoneInv
      <4>4. dataWire.set = C.set /\ dataWire.gen = C.gen /\ C.set # 0
          BY <3>2, WireOfPage
      <4>5. data.set # 0 => IsOpen(data)
          BY LinkNumbers
      <4> QED BY <4>3, <4>4, <4>5 DEF HoldsData, SameSocket
    <3> QED BY <3>1, <3>2
  <2> QED BY <1>1, <1>5, <2>2, <2>3 DEF SameSocket
<1> QED BY <1>6, <1>7

-----------------------------------------------------------------------------
(* What is acknowledged has been sent *)

\* A coordinator that has taken no more frames of a delivery than were sent.
LEMMA ReachedWithin ==
    ASSUME BaseInv, IsOpen(data), Fed, NEW c, NEW n \in Nat,
           Reached(c, data.first, data.commit, n), c.received \in Int, n <= Told
    PROVE  data.first <= c.received /\ c.received <= data.sent
<1>1. RelayInv
    BY DEF BaseInv, TypesInv
<1>2. /\ data.first \in Int /\ data.sent \in Int /\ data.commit \in Int
      /\ Committed => data.commit <= data.sent
    BY <1>1, StreamTyped, SeqsAreNumbers DEF RelayInv, Fed, Committed
<1>3. data.first <= c.received
    BY DEF Reached
<1>4. CASE Committed
  <2>1. n <= data.sent - data.first + 1
      BY <1>4 DEF Told
  <2> QED BY <1>2, <1>3, <1>4, <2>1 DEF Reached
<1>5. CASE ~Committed
  <2>1. n <= data.sent - data.first
      BY <1>2, <1>5 DEF Told
  <2> QED BY <1>2, <1>3, <2>1 DEF Reached
<1> QED BY <1>4, <1>5

\* Who speaks of a delivery the relay keeps listens to it.
LEMMA SpeakerListens ==
    ASSUME BaseInv, GoneInv, NEW out, Spoke(out), IsOpen(data), gen = C.gen
    PROVE  C.current /\ C.data = "open" /\ HoldsData
<1>1. C.current /\ C.control = "open" /\ C.data # "opening" /\ HoldsControl
    BY DEF Spoke, Opening
<1>2. data.set = control.set /\ data.gen = gen
    BY <1>1 DEF BaseInv, ConnInv, SocketInv, HoldsControl
<1>3. SameSocket(data, C)
    BY <1>1, <1>2, HolderIs DEF SameSocket
<1>4. C.data # "none"
    BY <1>1, <1>3 DEF GoneInv
<1>5. C.data = "open"
  <2>1. C.data \in {"none", "opening", "open"}
      BY DEF BaseInv, TypesInv, PageInv, Sound, PageShape, Page, Connection, C
  <2> QED BY <1>1, <1>4, <2>1
<1>6. dataWire.set = C.set /\ dataWire.gen = C.gen
    BY <1>4, WireOfPage
<1> QED BY <1>1, <1>3, <1>5, <1>6 DEF HoldsData, SameSocket

\* What a page says of the delivery that it listens to.
Sayable(cursor) ==
    Fed /\ data.first <= cursor /\ cursor <= data.sent
Heeded(q) ==
    /\ \A i \in DOMAIN q.out : Sayable(q.out[i].cursor) /\ page.acks.last <= q.out[i].cursor
    /\ \A i, j \in DOMAIN q.out : i <= j => q.out[i].cursor <= q.out[j].cursor
    /\ q.connection.current /\ q.connection.set = C.set /\ q.connection.data = "open" =>
          /\ page.acks.last <= q.acks.last
          /\ \A i \in DOMAIN q.out : q.out[i].cursor <= q.acks.last
          /\ q.acks.pending # NoSeq => Sayable(q.acks.pending)

LEMMA SaysNothing ==
    ASSUME BaseInv, page.acks.pending # NoSeq => Sayable(page.acks.pending),
           NEW q, q.out = <<>>,
           q.connection.current /\ q.connection.set = C.set /\ q.connection.data = "open" =>
              /\ q.acks.last = page.acks.last
              /\ q.acks.pending = NoSeq \/ q.acks.pending = page.acks.pending
                 \/ Sayable(q.acks.pending)
    PROVE  Heeded(q)
<1>1. page.acks.last <= page.acks.last
  <2>1. page.acks.last \in MaybeSeqs
      BY DEF BaseInv, TypesInv, PageInv, Sound, PageShape, Page, Acks
  <2> QED BY <2>1, SeqsAreNumbers
<1>2. DOMAIN q.out = {}
    OBVIOUS
<1> QED BY <1>1, <1>2 DEF Heeded

LEMMA SaysOnce ==
    ASSUME BaseInv, NEW q, NEW g, NEW cursor \in Seqs, q.out = <<Ack(g, cursor)>>,
           Sayable(cursor), page.acks.last <= cursor, q.acks.last = cursor,
           q.acks.pending = NoSeq
    PROVE  Heeded(q)
<1>1. DOMAIN q.out = {1} /\ q.out[1] = Ack(g, cursor)
    OBVIOUS
<1>2. q.out[1].cursor = cursor
    BY <1>1 DEF Ack
<1>3. cursor <= cursor
    BY SeqsAreNumbers
<1> QED BY <1>1, <1>2, <1>3 DEF Heeded

LEMMA TakesHeeded ==
    ASSUME BaseInv, LinkInv, StreamInv, C.current, C.data = "open", HoldsData,
           page.acks.pending # NoSeq => Sayable(page.acks.pending),
           NEW q, NEW ctl, NEW dat, Takes(q, ctl, dat)
    PROVE  Heeded(q)
<1>0. PageInv /\ Frames /\ page.out = <<>>
    BY DEF BaseInv, TypesInv, PageInv
<1> DEFINE f == Head(dataWire.frames)
<1>1. /\ Accepted(page, f, q) /\ dataWire.frames # <<>> /\ f.kind \in {"event", "commit"}
    BY DEF Takes, TakenData
<1>2. f = dataWire.frames[1] /\ f \in DataFrame
    BY <1>0, <1>1, FramesHead
<1> HIDE DEF f
<1>3. f.seq \in Seqs
    BY <1>1, <1>2, FrameTyped
<1>4. q.connection = page.connection \/ ~q.connection.current
    BY <1>1 DEF Accepted, NoConnection
<1>5. ASSUME K.state \in Delivering, q.coordinator.state \in Delivering,
             q.coordinator.received = f.seq
      PROVE  Sayable(f.seq)
  <2>1. Followed /\ IsOpen(data) /\ Ahead = 0
      BY <1>5, ListenerFollows DEF Ahead
  <2>2. PICK k \in Nat : Reached(K, data.first, data.commit, k) /\ Follows(k)
      BY <2>1 DEF Followed
  <2>3. Flows(dataWire.frames, 0, data.first, data.commit, Told, k)
      BY <2>1, <2>2 DEF Follows
  <2>4. f = StreamFrame(data.first, data.commit, k + 1)
      BY <1>1, <1>2, <2>1, <2>2, <2>3, StreamTyped, FlowTaken DEF Followed
  <2>5. k + 1 <= Told /\ k + 1 \in Nat
    <3>1. Len(dataWire.frames) - 0 + k = Told
        BY <2>3 DEF Flows
    <3>2. Len(dataWire.frames) \in Nat /\ Len(dataWire.frames) >= 1
        BY <1>1, StreamTyped
    <3> QED BY <2>2, <3>1, <3>2
  <2>6. Reached(q.coordinator, data.first, data.commit, k + 1)
    <3>1. Sound(page) /\ Reached(page.coordinator, data.first, data.commit, k)
        BY <1>0, <2>2 DEF PageInv, K
    <3>2. data.first \in Seqs /\ data.commit \in Seqs /\ data.first <= data.commit
        BY <2>1, StreamTyped DEF Followed
    <3> QED BY <1>1, <2>2, <2>4, <3>1, <3>2, AcceptReaches
  <2>7. q.coordinator.received \in Int
      BY <1>3, <1>5, SeqsAreNumbers
  <2>8. data.first <= q.coordinator.received /\ q.coordinator.received <= data.sent
      BY <2>1, <2>5, <2>6, <2>7, ReachedWithin DEF Followed
  <2> QED BY <1>5, <2>1, <2>8 DEF Sayable, Followed
<1>6. CASE q.out = <<>>
  <2>1. ASSUME q.connection.current
        PROVE  /\ q.acks.last = page.acks.last
               /\ q.acks.pending = NoSeq \/ q.acks.pending = page.acks.pending
                  \/ Sayable(q.acks.pending)
    <3>1. q.connection # NoConnection
        BY <2>1 DEF NoConnection
    <3>2. \/ q.acks = page.acks
          \/ /\ K.state \in Delivering /\ q.coordinator.state \in Delivering
             /\ q.coordinator.received = f.seq
             /\ q.acks.last = page.acks.last
             /\ q.acks.pending \in {page.acks.pending, f.seq}
      <4>1. q.out # Append(page.out, Ack(page.connection.gen, f.seq))
        <5>1. Append(<<>>, Ack(page.connection.gen, f.seq)) # <<>>
            OBVIOUS
        <5> QED BY <1>0, <1>6, <5>1
      <4> QED BY <1>1, <3>1, <4>1 DEF Accepted, K
    <3> QED BY <1>5, <3>2
  <2> QED BY <1>6, <2>1, SaysNothing
<1>7. CASE q.out # <<>>
  <2>1. /\ K.state \in Delivering /\ q.coordinator.state \in Delivering
        /\ q.coordinator.received = f.seq
        /\ q.out = Append(page.out, Ack(page.connection.gen, f.seq))
        /\ page.acks.last <= f.seq /\ q.acks.last = f.seq /\ q.acks.pending = NoSeq
      BY <1>0, <1>1, <1>7 DEF Accepted, K
  <2>2. q.out = <<Ack(page.connection.gen, f.seq)>>
    <3>1. Append(<<>>, Ack(page.connection.gen, f.seq)) = <<Ack(page.connection.gen, f.seq)>>
        OBVIOUS
    <3> QED BY <1>0, <2>1, <3>1
  <2> QED BY <1>3, <1>5, <2>1, <2>2, SaysOnce
<1> QED BY <1>6, <1>7

LEMMA StartsHeeded ==
    ASSUME BaseInv, LinkInv, StreamInv, C.current, C.data = "open", HoldsData,
           page.acks.pending # NoSeq => Sayable(page.acks.pending),
           NEW q, NEW ctl, NEW dat, NEW h, Starts(q, ctl, dat, h), Sound(q)
    PROVE  Heeded(q)
<1>0. PageInv /\ Frames /\ page.out = <<>>
    BY DEF BaseInv, TypesInv, PageInv
<1> DEFINE f == Head(ctlWire.frames)
<1>1. /\ ctlWire.frames # <<>> /\ f.kind = "start" /\ f.gen = C.gen /\ Started(page, f, h, q)
    BY DEF Starts, Heard, C
<1>2. StartOf(1) /\ 1 \in DOMAIN ctlWire.frames /\ f = ctlWire.frames[1]
    BY <1>0, <1>1, FramesHead DEF StartOf
<1> HIDE DEF f
<1>3. Announced /\ IsOpen(data)
    BY <1>2 DEF StreamInv, HoldsData, Streaming, Unfed, Followed, GivenUp, NoStart
<1>4. f.cut = data.first
    BY <1>2, <1>3 DEF Announced
<1>5. CASE q.out = <<>> /\ (q.connection # NoConnection => q.acks = page.acks)
  <2>1. q.connection.current => q.connection # NoConnection
      BY DEF NoConnection
  <2> QED BY <1>5, <2>1, SaysNothing
<1>6. CASE ~(q.out = <<>> /\ (q.connection # NoConnection => q.acks = page.acks))
  <2>1. \A commit \in Seqs :
           /\ page.coordinator.state = "awaiting" /\ page.out = <<>>
           /\ page.acks.pending = NoSeq /\ f.cut <= commit
           /\ \A i \in DOMAIN page.coordinator.pending :
                 page.coordinator.pending[i] = StreamFrame(f.cut, commit, i)
           => InStream(page, f.cut, commit, Len(page.coordinator.pending), q)
      BY <1>0, <1>1, <1>6 DEF Started
  <2>2. /\ page.coordinator.state = "awaiting" /\ page.acks.pending = NoSeq
      BY <1>3 DEF Announced, StreamInv, K
  <2>3. /\ f.cut <= data.commit /\ data.commit \in Seqs
        /\ \A i \in DOMAIN page.coordinator.pending :
              page.coordinator.pending[i] = StreamFrame(f.cut, data.commit, i)
      BY <1>3, <1>4, StreamTyped DEF Announced, K
  <2>4. InStream(page, f.cut, data.commit, Len(page.coordinator.pending), q)
      BY <1>0, <2>1, <2>2, <2>3
  <2>5. PICK k \in Nat : k = Len(K.pending)
      BY StreamTyped
  <2>6. /\ Reached(q.coordinator, data.first, data.commit, k)
        /\ Spoken(page, data.first, q)
      BY <1>4, <2>4, <2>5 DEF InStream, K
  <2>7. k <= Told
    <3>1. Len(dataWire.frames) - 0 + k = Told
        BY <1>3, <2>5 DEF Announced, Follows, Flows, Ahead
    <3>2. Len(dataWire.frames) \in Nat /\ Told \in Int
        BY <1>3, StreamTyped DEF Announced
    <3>3. k \in Nat
        BY <2>5
    <3> QED BY <3>1, <3>2, <3>3
  <2>8. q.coordinator.received \in Seqs
      BY <2>6 DEF Reached, Sound, PageDelivery
  <2>9. /\ data.first <= q.coordinator.received /\ q.coordinator.received <= data.sent
        /\ q.coordinator.received \in Int /\ data.sent \in Int
      BY <1>3, <2>5, <2>6, <2>7, <2>8, ReachedWithin, StreamTyped, SeqsAreNumbers DEF Announced
  <2>10. ASSUME NEW c \in MaybeSeqs, data.first <= c, c <= q.coordinator.received
         PROVE  Sayable(c)
    <3>1. c \in Int
        BY SeqsAreNumbers
    <3> QED BY <1>3, <2>9, <2>10, <3>1 DEF Sayable, Announced
  <2>11. /\ \A i \in DOMAIN q.out : q.out[i].cursor \in MaybeSeqs
         /\ q.acks.pending \in MaybeSeqs
    <3>1. q.out \in Seq(PageFrame) /\ q.acks.pending \in MaybeSeqs
        BY DEF Sound, PageShape, Page, Acks
    <3>2. \A i \in DOMAIN q.out : q.out[i] \in PageFrame
        BY <3>1
    <3> QED BY <3>1, <3>2 DEF PageFrame
  <2>12. q.connection.current => q.connection # NoConnection
      BY DEF NoConnection
  <2> QED BY <2>6, <2>10, <2>11, <2>12 DEF Spoken, Heeded
<1> QED BY <1>5, <1>6

LEMMA ListenerHeeded ==
    ASSUME BaseInv, LinkInv, StreamInv, C.current, C.data = "open", HoldsData,
           page.acks.pending # NoSeq => Sayable(page.acks.pending),
           NEW q, NEW ctl, NEW dat, NEW h, Outcome(q, ctl, dat, h)
    PROVE  Heeded(q)
<1>0. PageInv /\ Frames /\ page.out = <<>> /\ Sound(q) /\ OpenInv /\ SetInv
    BY OutcomeIs DEF BaseInv, TypesInv, PageInv, LinkInv
<1>1. CASE Stays(q, ctl, dat)
  <2>1. q.out = <<>> /\ (q.connection.current => q.acks = page.acks)
      BY <1>0, <1>1 DEF Stays, Quiet
  <2> QED BY <2>1, SaysNothing
<1>2. CASE Activates(q, ctl, dat)
  <2>1. q.out = <<>> /\ q.connection.data # "open"
      BY <1>2 DEF Activates, NewConnection
  <2> QED BY <2>1, SaysNothing
<1>3. CASE OpensControl(q, ctl, dat) \/ DropsData(q, ctl, dat)
  <2>1. q.out = <<>> /\ q.connection.data # "open"
      BY <1>3 DEF OpensControl, DropsData, Changes
  <2> QED BY <2>1, SaysNothing
<1>4. CASE OpensData(q, ctl, dat)
  <2>1. dataWire.frames # <<>> /\ Head(dataWire.frames).kind = "open"
      BY <1>4 DEF OpensData, TakenData
  <2>2. 1 \in DOMAIN dataWire.frames /\ dataWire.frames[1].kind = "open"
      BY <1>0, <2>1, FramesHead
  <2> QED BY <1>0, <2>2 DEF OpenInv
<1>5. CASE Resyncs(q, ctl, dat)
  <2>1. q.out = <<>> /\ ~(q.connection.current /\ q.connection.data = "open")
      BY <1>5 DEF Resyncs, Changes, NoConnection
  <2> QED BY <2>1, SaysNothing
<1>6. CASE Starts(q, ctl, dat, h)
    BY <1>0, <1>6, StartsHeeded
<1>7. CASE Takes(q, ctl, dat)
    BY <1>7, TakesHeeded
<1>8. CASE Flushes(q, ctl, dat)
  <2>1. CASE q.out = <<>>
    <3>1. ASSUME q.connection.current
          PROVE  q.acks.last = page.acks.last /\ q.acks.pending = NoSeq
      <4>1. q.connection # NoConnection
          BY <3>1 DEF NoConnection
      <4> QED BY <1>8, <2>1, <4>1 DEF Flushes
    <3> QED BY <2>1, <3>1, SaysNothing
  <2>2. CASE q.out # <<>>
    <3>1. /\ q.out = <<Ack(page.connection.gen, page.acks.pending)>>
          /\ page.acks.pending # NoSeq
          /\ q.acks.last = page.acks.pending /\ q.acks.pending = NoSeq
        BY <1>8, <2>2 DEF Flushes
    <3>2. page.acks.pending \in Seqs /\ page.acks.last <= page.acks.pending
      <4>1. page.acks.pending \in MaybeSeqs
          BY <1>0 DEF PageInv, Sound, PageShape, Page, Acks
      <4> QED BY <1>0, <3>1, <4>1 DEF PageInv, Sound, PageShape, MaybeSeqs
    <3> QED BY <3>1, <3>2, SaysOnce
  <2> QED BY <2>1, <2>2
<1> QED BY <1>1, <1>2, <1>3, <1>4, <1>5, <1>6, <1>7, <1>8 DEF Outcome

\* Numbers of what is acknowledged, as the provers need them.
LEMMA AckNumbers ==
    ASSUME BaseInv
    PROVE  /\ \A i \in DOMAIN up : up[i].cursor \in Int /\ up[i].gen \in Int
           /\ page.acks.last \in Int /\ page.acks.pending \in Int
           /\ IsOpen(data) /\ Fed =>
                 /\ data.first \in Int /\ data.acked \in Int /\ data.sent \in Int
                 /\ data.first <= data.sent
<1>1. Frames /\ Sound(page) /\ RelayInv
    BY DEF BaseInv, TypesInv, PageInv
<1>2. ASSUME NEW i \in DOMAIN up PROVE up[i].cursor \in Int /\ up[i].gen \in Int
  <2>1. up[i] \in PageFrame
      BY <1>1, <1>2 DEF Frames
  <2>2. up[i].cursor \in MaybeSeqs /\ up[i].gen \in Gens
      BY <2>1 DEF PageFrame
  <2> QED BY <2>2, SeqsAreNumbers
<1>3. page.acks.last \in MaybeSeqs /\ page.acks.pending \in MaybeSeqs
    BY <1>1 DEF Sound, PageShape, Page, Acks
<1> QED BY <1>1, <1>2, <1>3, SeqsAreNumbers DEF RelayInv

LEMMA PageAcksOnTheWay ==
    ASSUME BaseInv, LinkInv, StreamInv, GoneInv, AcksOnTheWay, AcksOfPage,
           NEW q, NEW ctl, NEW dat, NEW h,
           PageBecomes(q, ctl, dat), Outcome(q, ctl, dat, h),
           up' = up \/ Attached \/ Spoke(q.out)
    PROVE  AcksOnTheWay'
<1>0. UNCHANGED <<gen, data>>
    BY PageStep
<1>1. SUFFICES ASSUME IsOpen(data)
               PROVE  /\ \A i \in DOMAIN up' : AckOf(i, gen)' =>
                            Fed /\ data.acked <= up'[i].cursor /\ up'[i].cursor <= data.sent
                      /\ \A i, j \in DOMAIN up' : AckOf(i, gen)' /\ AckOf(j, gen)' /\ i <= j =>
                            up'[i].cursor <= up'[j].cursor
  <2>1. (Fed' <=> Fed) /\ (IsOpen(data)' <=> IsOpen(data))
      BY <1>0 DEF Fed, IsOpen, NoSocket
  <2> QED BY <1>0, <2>1 DEF AcksOnTheWay
<1>2. ASSUME NEW i \in DOMAIN up', AckOf(i, gen)'
      PROVE  \/ i \in DOMAIN up /\ up'[i] = up[i] /\ AckOf(i, gen)
             \/ /\ Spoke(q.out) /\ gen = C.gen /\ i \notin DOMAIN up
                /\ i - Len(up) \in DOMAIN q.out /\ up'[i] = q.out[i - Len(up)]
  <2>1. up'[i].kind = "ack" /\ up'[i].gen = gen
      BY <1>0, <1>2 DEF AckOf
  <2>2. \/ i \in DOMAIN up /\ up'[i] = up[i]
        \/ up'[i].kind = "attach"
        \/ /\ Spoke(q.out) /\ i \notin DOMAIN up /\ i - Len(up) \in DOMAIN q.out
           /\ up'[i] = q.out[i - Len(up)] /\ up'[i].gen = C.gen
      BY UpOfPage
  <2> QED BY <2>1, <2>2 DEF AckOf
<1>3. ASSUME Spoke(q.out), gen = C.gen
      PROVE  /\ C.current /\ HoldsData
             /\ \A i \in DOMAIN q.out : Sayable(q.out[i].cursor)
                                        /\ page.acks.last <= q.out[i].cursor
             /\ \A i, j \in DOMAIN q.out : i <= j => q.out[i].cursor <= q.out[j].cursor
  <2>1. C.current /\ C.data = "open" /\ HoldsData
      BY <1>1, <1>3, SpeakerListens
  <2>2. page.acks.pending # NoSeq => Sayable(page.acks.pending)
      BY <2>1 DEF AcksOfPage, Sayable
  <2>3. Heeded(q)
      BY <2>1, <2>2, ListenerHeeded
  <2> QED BY <2>1, <2>3 DEF Heeded
<1>4. Spoke(q.out) => \A i \in DOMAIN q.out : q.out[i].cursor \in Int
  <2>1. SUFFICES ASSUME Spoke(q.out), NEW i \in DOMAIN q.out PROVE q.out[i].cursor \in Int
      OBVIOUS
  <2>2. q.out \in Seq(PageFrame)
      BY <2>1 DEF Spoke
  <2>3. q.out[i] \in PageFrame
      BY <2>2
  <2>4. q.out[i].cursor \in MaybeSeqs
      BY <2>3 DEF PageFrame
  <2> QED BY <2>4, SeqsAreNumbers
<1>5. ASSUME NEW i \in DOMAIN up', AckOf(i, gen)'
      PROVE  Fed /\ data.acked <= up'[i].cursor /\ up'[i].cursor <= data.sent
  <2>1. CASE i \in DOMAIN up /\ up'[i] = up[i] /\ AckOf(i, gen)
      BY <1>1, <2>1 DEF AcksOnTheWay
  <2>2. CASE /\ Spoke(q.out) /\ gen = C.gen /\ i - Len(up) \in DOMAIN q.out
             /\ up'[i] = q.out[i - Len(up)]
    <3>1. /\ Sayable(up'[i].cursor) /\ page.acks.last <= up'[i].cursor
          /\ up'[i].cursor \in Int /\ C.current /\ HoldsData
        BY <1>3, <1>4, <2>2
    <3>2. data.acked = data.first \/ data.acked <= page.acks.last
        BY <3>1 DEF AcksOfPage, Sayable
    <3>3. /\ page.acks.last \in Int /\ data.acked \in Int
        BY <1>1, <3>1, AckNumbers DEF Sayable
    <3> QED BY <3>1, <3>2, <3>3 DEF Sayable
  <2> QED BY <1>2, <1>5, <2>1, <2>2
<1>6. ASSUME NEW i \in DOMAIN up', NEW j \in DOMAIN up', AckOf(i, gen)', AckOf(j, gen)', i <= j
      PROVE  up'[i].cursor <= up'[j].cursor
  <2>0. DOMAIN up = 1 .. Len(up) /\ Len(up) \in Nat /\ i \in Nat /\ j \in Nat /\ i >= 1 /\ j >= 1
      BY UpOfPage
  <2>1. CASE i \in DOMAIN up /\ j \in DOMAIN up
    <3>1. up'[i] = up[i] /\ up'[j] = up[j] /\ AckOf(i, gen) /\ AckOf(j, gen)
        BY <1>2, <1>6, <2>1
    <3> QED BY <1>1, <1>6, <2>1, <3>1 DEF AcksOnTheWay
  <2>2. CASE i \in DOMAIN up /\ j \notin DOMAIN up
    <3>1. up'[i] = up[i] /\ AckOf(i, gen)
        BY <1>2, <1>6, <2>2
    <3>2. /\ Spoke(q.out) /\ gen = C.gen
          /\ j - Len(up) \in DOMAIN q.out /\ up'[j] = q.out[j - Len(up)]
        BY <1>2, <1>6, <2>2
    <3>3. C.current /\ HoldsData /\ page.acks.last <= up'[j].cursor /\ up'[j].cursor \in Int
        BY <1>3, <1>4, <3>2
    <3>4. up[i].cursor <= page.acks.last
        BY <2>2, <3>1, <3>2, <3>3 DEF AcksOfPage
    <3>5. up[i].cursor \in Int /\ page.acks.last \in Int
        BY <2>2, AckNumbers
    <3> QED BY <3>1, <3>3, <3>4, <3>5
  <2>3. CASE i \notin DOMAIN up
    <3>1. j \notin DOMAIN up
        BY <1>6, <2>0, <2>3
    <3>2. /\ Spoke(q.out) /\ gen = C.gen
          /\ i - Len(up) \in DOMAIN q.out /\ up'[i] = q.out[i - Len(up)]
          /\ j - Len(up) \in DOMAIN q.out /\ up'[j] = q.out[j - Len(up)]
        BY <1>2, <1>6, <2>3, <3>1
    <3>3. i - Len(up) <= j - Len(up)
        BY <1>6, <2>0
    <3> QED BY <1>3, <3>2, <3>3
  <2> QED BY <2>1, <2>2, <2>3
<1> QED BY <1>5, <1>6

\* Nor has a page that waits for its delivery anything to acknowledge.
LEMMA PageWaitsSilently ==
    ASSUME BaseInv, K.state = "awaiting", NoStart, page.acks.pending = NoSeq,
           NEW q, NEW ctl, NEW dat, NEW h, Outcome(q, ctl, dat, h), q.connection.current
    PROVE  q.acks.pending = NoSeq
<1>0. PageInv /\ Frames
    BY DEF BaseInv, TypesInv
<1>1. q.connection # NoConnection
    BY DEF NoConnection
<1>2. CASE Stays(q, ctl, dat)
    BY <1>2 DEF Stays, Quiet
<1>3. CASE Activates(q, ctl, dat) \/ Resyncs(q, ctl, dat)
    BY <1>1, <1>3 DEF Activates, Resyncs, NoAcks
<1>4. CASE OpensControl(q, ctl, dat) \/ DropsData(q, ctl, dat)
    BY <1>4 DEF OpensControl, DropsData
<1>5. CASE OpensData(q, ctl, dat) \/ Flushes(q, ctl, dat)
    BY <1>1, <1>5 DEF OpensData, Flushes
<1>6. CASE Starts(q, ctl, dat, h)
  <2>1. StartOf(1) /\ 1 \in DOMAIN ctlWire.frames
      BY <1>0, <1>6, FramesHead DEF Starts, Heard, StartOf, C
  <2> QED BY <2>1 DEF NoStart
<1>7. CASE Takes(q, ctl, dat)
  <2>1. page.coordinator.state = "awaiting"
      BY DEF K
  <2> QED BY <1>7, <2>1 DEF Takes, Accepted, Delivering
<1> QED BY <1>2, <1>3, <1>4, <1>5, <1>6, <1>7 DEF Outcome

LEMMA PageAcksOfPage ==
    ASSUME BaseInv, LinkInv, StreamInv, OpeningInv, AcksOfPage,
           NEW q, NEW ctl, NEW dat, NEW h,
           PageBecomes(q, ctl, dat), Outcome(q, ctl, dat, h),
           up' = up \/ Attached \/ Spoke(q.out)
    PROVE  AcksOfPage'
<1>0. /\ UNCHANGED <<gen, data, control>> /\ C' = q.connection /\ page'.acks = q.acks
      /\ PageMoves /\ WireInv' /\ OwnInv
    BY PageStep DEF LinkInv
<1>1. SUFFICES ASSUME C'.current, HoldsData'
               PROVE  /\ \A i \in DOMAIN up' : AckOf(i, C.gen)' => up'[i].cursor <= q.acks.last
                      /\ Fed => data.acked = data.first \/ data.acked <= q.acks.last
                      /\ q.acks.pending # NoSeq => Sayable(q.acks.pending)
    BY <1>0 DEF AcksOfPage, Sayable, Fed
<1>2. /\ IsOpen(data) /\ data.set # 0 /\ data.set = C'.set /\ data.gen = C'.gen
      /\ dataWire'.set = data.set /\ dataWire'.gen = data.gen /\ C'.data # "none"
  <2>1. IsOpen(data) /\ dataWire'.set = data.set /\ dataWire'.gen = data.gen
      BY <1>0, <1>1 DEF HoldsData, SameSocket, IsOpen, NoSocket
  <2>2. data.set # 0
      BY <2>1, LinkNumbers
  <2>3. dataWire'.set = DataSocket(page').set /\ dataWire'.gen = DataSocket(page').gen
      BY <1>0 DEF WireInv
  <2> QED BY <2>1, <2>2, <2>3 DEF DataSocket, NoSocket, C
<1>3. Lingers \/ ControlOpens \/ DataOpens
  <2>1. ~Leaves /\ ~Joins /\ ~DataDrops
      BY <1>2 DEF Leaves, Joins, DataDrops, NoConnection
  <2>2. ~Renewed
    <3>1. SUFFICES ASSUME Renewed PROVE FALSE
        OBVIOUS
    <3>2. C'.set = C.set /\ C.gen < C'.gen
        BY <3>1 DEF Renewed, GoesOn
    <3>3. data.gen <= C.gen /\ data.gen \in Int /\ C.gen \in Int
        BY <1>0, <1>2, <3>2, LinkNumbers DEF OwnInv
    <3> QED BY <1>2, <3>2, <3>3
  <2> QED BY <1>0, <2>1, <2>2 DEF PageMoves
<1>4. C.current /\ C'.set = C.set /\ C'.gen = C.gen
    BY <1>1, <1>3 DEF Lingers, Remains, ControlOpens, DataOpens, GoesOn
<1>5. SameSocket(data, C)
    BY <1>2, <1>4 DEF SameSocket
<1>6. CASE Opening
  <2>1. Unspoken
      BY <1>6 DEF OpeningInv
  <2>2. data.state = "awaiting" /\ ~Fed
      BY <1>5, <2>1 DEF Unspoken, Fed
  <2>3. q.acks.pending = NoSeq
    <3>1. K.state = "awaiting" /\ NoStart /\ q.connection.current
        BY <1>0, <1>1, <2>1 DEF Unspoken
    <3>2. page.acks.pending = NoSeq
        BY <1>4, <3>1 DEF StreamInv
    <3> QED BY <3>1, <3>2, PageWaitsSilently
  <2>4. ASSUME NEW i \in DOMAIN up', AckOf(i, C.gen)' PROVE FALSE
    <3>1. up'[i].kind = "ack" /\ up'[i].gen = C.gen
        BY <1>4, <2>4 DEF AckOf
    <3>2. ~Spoke(q.out)
        BY <1>6 DEF Spoke
    <3>3. i \in DOMAIN up /\ up'[i] = up[i]
        BY <3>1, <3>2, UpOfPage
    <3>4. control.set = C.set
      <4>1. up # <<>>
          BY <3>3
      <4> QED BY <1>2, <1>4, <4>1 DEF BaseInv, ConnInv, SocketInv
    <3> QED BY <2>1, <3>1, <3>3, <3>4 DEF Unspoken
  <2> QED BY <2>2, <2>3, <2>4
<1>7. CASE ~Opening
  <2>1. Lingers
      BY <1>3, <1>4, <1>7 DEF ControlOpens, DataOpens, Opening
  <2>2. C.data = C'.data /\ C.data = "open"
    <3>1. C.data \in {"none", "opening", "open"}
        BY DEF BaseInv, TypesInv, PageInv, Sound, PageShape, Page, Connection, C
    <3> QED BY <1>2, <1>4, <1>7, <2>1, <3>1 DEF Lingers, Remains, Opening
  <2>3. HoldsData
    <3>1. dataWire.set = C.set /\ dataWire.gen = C.gen
        BY <2>2, WireOfPage
    <3> QED BY <1>2, <1>5, <3>1 DEF HoldsData, SameSocket
  <2>4. page.acks.pending # NoSeq => Sayable(page.acks.pending)
      BY <1>4, <2>3 DEF AcksOfPage, Sayable
  <2>5. Heeded(q)
      BY <1>4, <2>2, <2>3, <2>4, ListenerHeeded
  <2>6. /\ page.acks.last <= q.acks.last
        /\ \A i \in DOMAIN q.out : q.out[i].cursor <= q.acks.last
        /\ q.acks.pending # NoSeq => Sayable(q.acks.pending)
      BY <1>0, <1>1, <1>4, <2>2, <2>5 DEF Heeded
  <2>7. q.acks.last \in Int /\ page.acks.last \in Int
    <3>1. Sound(q)
        BY OutcomeIs DEF BaseInv, TypesInv
    <3>2. q.acks.last \in MaybeSeqs
        BY <3>1 DEF Sound, PageShape, Page, Acks
    <3> QED BY <3>2, SeqsAreNumbers, AckNumbers
  <2>8. ASSUME NEW i \in DOMAIN up', AckOf(i, C.gen)' PROVE up'[i].cursor <= q.acks.last
    <3>1. up'[i].kind = "ack" /\ up'[i].gen = C.gen
        BY <1>4, <2>8 DEF AckOf
    <3>2. CASE i \in DOMAIN up /\ up'[i] = up[i]
      <4>1. up[i].cursor <= page.acks.last
          BY <1>4, <2>3, <3>1, <3>2 DEF AcksOfPage, AckOf
      <4>2. up[i].cursor \in Int
          BY <3>2, AckNumbers
      <4> QED BY <2>6, <2>7, <3>2, <4>1, <4>2
    <3>3. CASE i - Len(up) \in DOMAIN q.out /\ up'[i] = q.out[i - Len(up)]
        BY <2>6, <3>3
    <3> QED BY <3>1, <3>2, <3>3, UpOfPage
  <2>9. Fed => data.acked = data.first \/ data.acked <= q.acks.last
    <3>1. Fed => data.acked = data.first \/ data.acked <= page.acks.last
        BY <1>4, <2>3 DEF AcksOfPage
    <3>2. Fed => data.acked \in Int
        BY <1>2, AckNumbers
    <3> QED BY <2>6, <2>7, <3>1, <3>2
  <2> QED BY <2>6, <2>8, <2>9
<1> QED BY <1>6, <1>7

LEMMA PageKeepsTalk ==
    ASSUME BaseInv, LinkInv, StreamInv, TalkInv, NEW q, NEW ctl, NEW dat,
           PageBecomes(q, ctl, dat), Outcome(q, ctl, dat, head)
    PROVE  TalkInv' /\ blame' = blame
<1>1. /\ CursorInv /\ GenInv /\ AttachOnce /\ OpeningInv /\ UnusedInv /\ GoneInv
      /\ AcksOnTheWay /\ AcksOfPage
    BY DEF TalkInv
<1>2. up' = up \/ Attached \/ Spoke(q.out)
    BY <1>1, PageSpeaks
<1>3. CursorInv' /\ GenInv'
    BY <1>1, <1>2, PageCursors, PageGens
<1>4. AttachOnce' /\ OpeningInv'
    BY <1>1, <1>2, PageAttaches, PageOpening
<1>5. UnusedInv' /\ GoneInv'
    BY <1>1, <1>2, PageUnused, PageGone
<1>6. AcksOnTheWay' /\ AcksOfPage'
    BY <1>1, <1>2, PageAcksOnTheWay, PageAcksOfPage
<1>7. blame' = blame
    BY PageStep
<1> QED BY <1>3, <1>4, <1>5, <1>6, <1>7 DEF TalkInv

-----------------------------------------------------------------------------
(* What the relay hears, and says *)

\* It reads the frames of the page in their order.
LEMMA UpShrinks ==
    ASSUME BaseInv, RelayActions
    PROVE  \E s \in {0, 1} : \A i \in DOMAIN up' :
              i \in Nat /\ i + s \in DOMAIN up /\ up'[i] = up[i + s]
<1>0. Frames /\ up \in Seq(PageFrame)
    BY DEF BaseInv, TypesInv, Frames
<1>1. CASE up' = up
  <2>1. \A i \in DOMAIN up' : i \in Nat /\ i + 0 = i
      BY <1>0, <1>1
  <2> QED BY <1>1, <2>1
<1>2. CASE up' = <<>>
    BY <1>2
<1>3. CASE up # <<>> /\ up' = Tail(up)
  <2>1. \A i \in DOMAIN Tail(up) : i \in Nat
      BY <1>0
  <2>2. \A i \in DOMAIN Tail(up) : Tail(up)[i] = up[i + 1] /\ i + 1 \in DOMAIN up
      BY <1>0, <1>3, UpTyped
  <2> QED BY <1>3, <2>1, <2>2
<1> QED BY <1>1, <1>2, <1>3, RelayReads

\* An attach that awaits the writer lease.
AwaitsLease ==
    /\ up # <<>> /\ up[1].kind = "attach" /\ up[1].gen = gen /\ up' = Tail(up)
    /\ IsOpen(control) /\ HasData /\ data.state = "awaiting"
    /\ \A a \in attaching : a.set # control.set
    /\ attaching' = attaching \cup
          {[set |-> control.set, gen |-> gen, cursor |-> up[1].cursor]}
    /\ UNCHANGED <<client, gen, sets, tickets, upgrades, control, data, ctlWire, dataWire, head>>
\* An attach, of which this was the first thing heard or whose lease has come.
AttachesNow ==
    /\ Attaches
    /\ \/ up # <<>> /\ up[1].kind = "attach" /\ up[1].gen = gen /\ up' = Tail(up)
          /\ attaching' = attaching
       \/ /\ \E a \in attaching :
                a.set = control.set /\ a.gen = gen /\ attaching' = attaching \ {a}
          /\ up' = up
AcksNow ==
    /\ Acknowledged
    /\ up # <<>> /\ up[1].kind = "ack" /\ up[1].gen = gen /\ up' = Tail(up)
    /\ data' = [data EXCEPT !.acked = up[1].cursor]
    /\ attaching' = attaching
\* Everything else.
GoesItsWay ==
    /\ attaching' \subseteq attaching
    /\ \/ Closes \/ Renews \/ HostGone \/ Rises \/ Replay \/ Output
       \/ \E mode \in {"warm", "snapshot"}, cut \in Seqs : StartRecovery(mode, cut)
       \/ \E u \in upgrades : AcceptControl(u) \/ AcceptData(u) \/ Refuse(u)
Hearing == AwaitsLease \/ AttachesNow \/ AcksNow \/ GoesItsWay

\* What the relay may blame the page for.
Forgiven == blame' \in {blame, "no delivered cursor", "no data before attach"}

LEMMA AttachHeard ==
    ASSUME BaseInv, ReceiveAttach
    PROVE  /\ Hearing
           /\ \/ Forgiven
              \/ /\ up # <<>> /\ up[1].kind = "attach" /\ up[1].gen = gen /\ HasData
                 /\ data.state # "awaiting" \/ up[1].cursor > head
<1>0. ConnInv /\ Frames /\ RelayTypes
    BY DEF BaseInv, TypesInv
<1> DEFINE m == up[1]
           v == AttachVerdict(control.set, m)
<1>1. /\ IsOpen(control) /\ control \in Control /\ up # <<>> /\ m.kind = "attach"
      /\ \A a \in attaching : a.set # control.set
    BY <1>0 DEF ReceiveAttach, ConnInv, SocketInv, IsOpen
<1>2. Attach(m, v) /\ UNCHANGED <<upgrades, resets, head, host>>
    BY DEF ReceiveAttach
<1>3. m.cursor \in MaybeSeqs
    BY <1>0, <1>1, UpTyped
<1>4. /\ v = "ok" => m.gen = gen /\ HasData /\ data.state = "awaiting" /\ ~(m.cursor > head)
      /\ v = "already attached" => m.gen = gen /\ HasData /\ data.state # "awaiting"
      /\ v = "replica cursor exceeds head" => m.gen = gen /\ HasData /\ m.cursor > head
      /\ v \in {"ok", "stale", "already attached", "replica cursor exceeds head",
                "no data before attach"}
    BY DEF AttachVerdict
<1> HIDE DEF v
<1>5. CASE v = "ok" /\ control.state = "active"
  <2>1. AttachData(m.cursor) /\ UNCHANGED <<reservations, attaching, dataWire, blame>> /\ Taken
      BY <1>2, <1>5 DEF Attach
  <2>2. m.cursor <= head
    <3>1. m.cursor \in Int /\ head \in Int
        BY <1>0, <1>3, SeqsAreNumbers DEF RelayTypes
    <3> QED BY <1>4, <1>5, <3>1
  <2>3. Attaches
      BY <1>1, <1>2, <1>3, <1>4, <1>5, <2>1, <2>2 DEF Attaches, reservations
  <2> QED BY <1>1, <1>4, <1>5, <2>1, <2>3 DEF Hearing, AttachesNow, Taken, Forgiven
<1>6. CASE v = "ok" /\ control.state = "awaiting"
  <2>1. /\ attaching' = attaching \cup {[set |-> control.set, gen |-> gen, cursor |-> m.cursor]}
        /\ Taken /\ UNCHANGED <<reservations, control, data, closed, ctlWire, dataWire, blame>>
      BY <1>2, <1>6 DEF Attach
  <2>2. AwaitsLease
      BY <1>1, <1>2, <1>4, <1>6, <2>1 DEF AwaitsLease, Taken, reservations
  <2> QED BY <2>1, <2>2 DEF Hearing, Forgiven
<1>7. CASE v = "stale"
  <2>1. UNCHANGED <<reservations, control, data, ctlWire, dataWire, attaching, blame>>
      BY <1>2, <1>7 DEF Attach
  <2>2. Closes
      BY <1>2, <2>1 DEF Closes, reservations
  <2> QED BY <2>1, <2>2 DEF Hearing, GoesItsWay, Forgiven
<1>8. CASE v = "already attached"
  <2>1. Isolate(v) /\ UNCHANGED attaching
      BY <1>2, <1>8 DEF Attach
  <2>2. Closes
      BY <1>2, <2>1 DEF Isolate, CloseControl, CloseData, Closes, Reasons
  <2> QED BY <1>1, <1>4, <1>8, <2>1, <2>2 DEF Hearing, GoesItsWay
<1>9. CASE v \in {"replica cursor exceeds head", "no data before attach"}
  <2>1. CloseProtocol(v) /\ UNCHANGED attaching
      BY <1>2, <1>9 DEF Attach
  <2>2. Closes
      BY <1>2, <2>1 DEF CloseProtocol, CloseControl, Closes, Reasons, reservations
  <2>3. blame' = v
      BY <2>1 DEF CloseProtocol
  <2> QED BY <1>1, <1>4, <1>9, <2>1, <2>2, <2>3 DEF Hearing, GoesItsWay, Forgiven
<1>10. control.state \in {"awaiting", "active"}
    BY <1>1 DEF Control
<1> QED BY <1>4, <1>5, <1>6, <1>7, <1>8, <1>9, <1>10

LEMMA AckHeard ==
    ASSUME BaseInv, ReceiveAck
    PROVE  /\ Hearing
           /\ \/ Forgiven
              \/ /\ up # <<>> /\ up[1].kind = "ack" /\ up[1].gen = gen /\ IsOpen(data)
                 /\ up[1].cursor > data.sent \/ up[1].cursor < data.acked
<1>0. ConnInv /\ Frames /\ RelayTypes
    BY DEF BaseInv, TypesInv
<1> DEFINE m == up[1]
           v == AckVerdict(m)
<1>1. IsOpen(control) /\ up # <<>> /\ m.kind = "ack"
    BY <1>0 DEF ReceiveAck, ConnInv, SocketInv
<1>2. /\ UNCHANGED <<upgrades, resets, attaching, head, host>>
      /\ IF v \in {"ok", "stale"}
         THEN /\ Taken
              /\ data' = IF v = "ok" THEN [data EXCEPT !.acked = m.cursor] ELSE data
              /\ UNCHANGED <<reservations, control, closed, ctlWire, dataWire, blame>>
         ELSE CloseProtocol(v)
    BY DEF ReceiveAck
<1>3. m.cursor \in MaybeSeqs
    BY <1>0, <1>1, UpTyped
<1>4. /\ v = "ok" => /\ IsOpen(data) /\ data.sent # NoSeq /\ ~(m.cursor > data.sent)
                     /\ ~(data.acked # NoSeq /\ m.cursor < data.acked) /\ m.gen = gen
      /\ v = "exceeds delivered cursor" =>
            /\ IsOpen(data) /\ m.gen = gen
            /\ m.cursor > data.sent \/ m.cursor < data.acked
      /\ v \in {"ok", "stale", "exceeds delivered cursor", "no delivered cursor"}
    BY DEF AckVerdict
<1> HIDE DEF v
<1>5. CASE v = "ok"
  <2>1. data.sent \in MaybeSeqs /\ data.acked \in MaybeSeqs
      BY <1>0, <1>4, <1>5 DEF RelayTypes, Data, IsOpen
  <2>2. m.cursor <= data.sent /\ (data.acked = NoSeq \/ data.acked <= m.cursor)
      BY <1>3, <1>4, <1>5, <2>1, Bounds DEF MaybeSeqs, Seqs, NoSeq
  <2>3. /\ data' = [data EXCEPT !.acked = m.cursor] /\ Taken
        /\ UNCHANGED <<reservations, control, ctlWire, dataWire, blame>>
      BY <1>2, <1>5
  <2>4. Acknowledged
      BY <1>1, <1>2, <1>3, <1>4, <1>5, <2>2, <2>3 DEF Acknowledged, reservations
  <2> QED BY <1>1, <1>2, <1>4, <1>5, <2>3, <2>4 DEF Hearing, AcksNow, Taken, Forgiven
<1>6. CASE v = "stale"
  <2>1. UNCHANGED <<reservations, control, data, ctlWire, dataWire, blame>>
      BY <1>2, <1>6
  <2>2. Closes
      BY <1>2, <2>1 DEF Closes, reservations
  <2> QED BY <1>2, <2>1, <2>2 DEF Hearing, GoesItsWay, Forgiven
<1>7. CASE v \in {"exceeds delivered cursor", "no delivered cursor"}
  <2>1. CloseProtocol(v)
      BY <1>2, <1>7
  <2>2. Closes
      BY <1>2, <2>1 DEF CloseProtocol, CloseControl, Closes, Reasons, reservations
  <2>3. blame' = v
      BY <2>1 DEF CloseProtocol
  <2> QED BY <1>1, <1>2, <1>4, <1>7, <2>2, <2>3 DEF Hearing, GoesItsWay, Forgiven
<1> QED BY <1>4, <1>5, <1>6, <1>7

LEMMA LeaseHeard ==
    ASSUME BaseInv, NEW a \in attaching, FinishAttach(a) PROVE Hearing /\ blame' = blame
<1>0. AttachInv /\ RelayTypes
    BY DEF BaseInv, TypesInv
<1>1. /\ a.set # 0 /\ a.cursor \in MaybeSeqs
      /\ UNCHANGED <<reservations, upgrades, closed, resets, head, host, dataWire, up, blame>>
      /\ attaching' = attaching \ {a}
    BY <1>0 DEF AttachInv, RelayTypes, FinishAttach
<1>2. CASE AttachVerdict(a.set, a) = "ok"
  <2>1. /\ control.set = a.set /\ HasData /\ data.state = "awaiting" /\ ~(a.cursor > head)
        /\ a.gen = gen
      BY <1>2 DEF AttachVerdict
  <2>2. IsOpen(control)
      BY <1>1, <2>1 DEF IsOpen, NoSocket
  <2>3. a.cursor <= head
    <3>1. a.cursor \in Int /\ head \in Int
        BY <1>0, <1>1, SeqsAreNumbers DEF RelayTypes
    <3> QED BY <2>1, <3>1
  <2>4. AttachData(a.cursor)
      BY <1>2 DEF FinishAttach
  <2>5. Attaches
      BY <1>1, <2>1, <2>2, <2>3, <2>4 DEF Attaches, reservations
  <2> QED BY <1>1, <2>1, <2>5 DEF Hearing, AttachesNow
<1>3. CASE AttachVerdict(a.set, a) # "ok"
  <2>1. Closes
      BY <1>1, <1>3 DEF FinishAttach, Closes, reservations
  <2> QED BY <1>1, <2>1 DEF Hearing, GoesItsWay
<1> QED BY <1>2, <1>3

LEMMA CloseHeard ==
    ASSUME NEW k \in closed,
           DataCloseHandled(k) \/ UnattachedDataCloseHandled(k) \/ ControlCloseHandled(k)
    PROVE  Hearing /\ blame' = blame
<1>1. attaching' = attaching /\ blame' = blame
    BY DEF DataCloseHandled, UnattachedDataCloseHandled, ControlCloseHandled
<1>2. Closes
  <2>1. CASE DataCloseHandled(k)
      BY <2>1 DEF DataCloseHandled, Closes, reservations, wires
  <2>2. CASE UnattachedDataCloseHandled(k)
      BY <2>2 DEF UnattachedDataCloseHandled, CloseControl, Closes, Reasons
  <2>3. CASE ControlCloseHandled(k)
    <3>1. CASE IsOpen(control)
        BY <2>3, <3>1 DEF ControlCloseHandled, Closes
    <3>2. CASE ~IsOpen(control)
        BY <2>3, <3>2 DEF ControlCloseHandled, CloseData, Closes, Reasons
    <3> QED BY <3>1, <3>2
  <2> QED BY <2>1, <2>2, <2>3
<1> QED BY <1>1, <1>2 DEF Hearing, GoesItsWay

LEMMA ResetHeard ==
    ASSUME NEW r \in resets, EndReset(r) PROVE Hearing /\ blame' = blame
<1>1. attaching' = attaching /\ blame' = blame
    BY DEF EndReset
<1>2. Renews \/ Closes
  <2>1. CASE IsOpen(control) /\ ResetIsCurrent(r)
      BY <2>1 DEF EndReset, ResetIsCurrent, Renews
  <2>2. CASE ~(IsOpen(control) /\ ResetIsCurrent(r))
      BY <2>2 DEF EndReset, Closes
  <2> QED BY <2>1, <2>2
<1> QED BY <1>1, <1>2 DEF Hearing, GoesItsWay

\* A host that returns leaves the sockets alone.
LEMMA ReturnRises ==
    ASSUME BaseInv, HostReturns PROVE Rises
<1>1. head' \in head .. MaxSeq /\ head \in Seqs
    BY DEF HostReturns, HostReady, BaseInv, TypesInv, RelayTypes
<1>2. head <= head' /\ head' \in Seqs
    BY <1>1, Bounds DEF Seqs
<1> QED BY <1>2 DEF HostReturns, HostReady, Rises, reservations, wires

\* Everything the relay does is one of these, and what it blames the page for says why.
LEMMA RelayHears ==
    ASSUME BaseInv, RelayActions
    PROVE  /\ Hearing
           /\ \/ Forgiven
              \/ /\ up # <<>> /\ up[1].kind = "attach" /\ up[1].gen = gen /\ HasData
                 /\ data.state # "awaiting" \/ up[1].cursor > head
              \/ /\ up # <<>> /\ up[1].kind = "ack" /\ up[1].gen = gen /\ IsOpen(data)
                 /\ up[1].cursor > data.sent \/ up[1].cursor < data.acked
<1>1. CASE LosesControl \/ LosesData
  <2>1. attaching' = attaching /\ blame' = blame
      BY <1>1 DEF LosesControl, LosesData, ControlGone, DataGone
  <2>2. Closes
    <3>1. CASE LosesControl
        BY <3>1 DEF LosesControl, ControlGone, CloseControl, Closes, Reasons, reservations
    <3>2. CASE LosesData
        BY <3>2 DEF LosesData, DataGone, CloseData, Closes, Reasons, reservations
    <3> QED BY <1>1, <3>1, <3>2
  <2> QED BY <2>1, <2>2 DEF Hearing, GoesItsWay, Forgiven
<1>2. CASE ResetBegins
  <2>1. Closes /\ attaching' = attaching /\ blame' = blame
      BY <1>2 DEF ResetBegins, BeginReset, Closes, reservations, wires
  <2> QED BY <2>1 DEF Hearing, GoesItsWay, Forgiven
<1>3. CASE HostLost \/ HostReturns \/ Host \/ HostOutput
  <2>1. \/ HostGone \/ Rises \/ Replay \/ Output
        \/ \E mode \in {"warm", "snapshot"}, cut \in Seqs : StartRecovery(mode, cut)
    <3>1. CASE HostReturns
        BY <3>1, ReturnRises
    <3>2. CASE HostLost \/ Host \/ HostOutput
        BY <3>2 DEF HostLost, Host, Recovers, HostOutput
    <3> QED BY <1>3, <3>1, <3>2
  <2>2. attaching' = attaching /\ blame' = blame
      BY <1>3 DEF HostLost, HostGone, HostReturns, HostReady, Host, Recovers, HostOutput, Replay,
                  Output, StartRecovery
  <2> QED BY <2>1, <2>2 DEF Hearing, GoesItsWay, Forgiven
<1>4. CASE Relay
  <2>1. ASSUME NEW u \in upgrades, AcceptControl(u) \/ AcceptData(u) \/ Refuse(u)
        PROVE  Hearing /\ blame' = blame
    <3>1. attaching' = attaching /\ blame' = blame
        BY <2>1 DEF AcceptControl, AcceptData, Refuse
    <3> QED BY <2>1, <3>1 DEF Hearing, GoesItsWay
  <2>2. Relays
      BY <1>4 DEF Relay
  <2>3. CASE ReceiveAttach
      BY <2>3, AttachHeard
  <2>4. CASE ReceiveAck
      BY <2>4, AckHeard
  <2>5. CASE ~ReceiveAttach /\ ~ReceiveAck
    <3>1. Hearing /\ blame' = blame
        BY <2>1, <2>2, <2>5, LeaseHeard, CloseHeard, ResetHeard DEF Relays
    <3> QED BY <3>1 DEF Forgiven
  <2> QED BY <2>3, <2>4, <2>5
<1> QED BY <1>1, <1>2, <1>3, <1>4 DEF RelayActions

\* What a step of the relay leaves of the page, and how its head moves.
LEMMA RelayStep ==
    ASSUME BaseInv, RelayActions
    PROVE  /\ SocketStep /\ PageRests /\ page' = page /\ C' = C /\ K' = K
           /\ head \in Int /\ head' \in Int /\ head <= head'
           /\ BaseInv'
<1>0. ConnInv /\ AttachInv /\ Frames /\ RelayTypes
    BY DEF BaseInv, TypesInv
<1>1. SocketStep /\ PageRests /\ page' = page /\ C' = C /\ K' = K
    BY <1>0, RelayStepIs, RelayRecords, RelayReads DEF PageRests, C, K
<1>2. head \in Int /\ head' \in Int /\ head <= head'
  <2>1. head \in Int
      BY <1>0, SeqsAreNumbers DEF RelayTypes
  <2>2. CASE Output
      BY <2>1, <2>2 DEF Output
  <2>3. CASE Rises
      BY <2>1, <2>3, SeqsAreNumbers DEF Rises
  <2>4. CASE ~Output /\ ~Rises
    <3>1. head' = head
        BY <1>1, <2>4 DEF SocketStep, Closes, Renews, Attaches, Acknowledged, HostGone,
                          StartRecovery, Replay, AcceptControl, AcceptData, Refuse
    <3> QED BY <2>1, <3>1
  <2> QED BY <2>2, <2>3, <2>4
<1>3. BaseInv'
  <2>1. [Next]_vars
      BY Zenon DEF RelayActions, Next
  <2> QED BY <2>1, StepKeepsBase
<1> QED BY <1>1, <1>2, <1>3

\* What the host sends on a data socket: the next event, or the commit.
LEMMA HostSends ==
    ASSUME BaseInv, head' \in Int, head <= head', Replay \/ Output
    PROVE  /\ ctlWire' = ctlWire
           /\ \/ dataWire' = dataWire
              \/ HoldsData /\ \E f \in DataFrame :
                    /\ dataWire' = Onto(dataWire, f)
                    /\ f.kind \in {"event", "commit"} /\ f.seq <= head'
<1>0. ConnInv /\ Frames /\ RelayTypes /\ RelayInv
    BY DEF BaseInv, TypesInv
<1>1. head \in Int /\ head' \in Int /\ head <= head'
    BY <1>0, SeqsAreNumbers DEF RelayTypes
<1>2. CASE Replay
  <2>1. /\ IsOpen(data) /\ Fed /\ data.state = "pinned" /\ ctlWire' = ctlWire
      BY <1>2 DEF Replay, Fed
  <2>2. /\ data.sent \in Int /\ data.commit \in Int /\ data.commit <= head
        /\ data.sent \in Seqs /\ data.commit \in Seqs
      BY <1>0, <2>1, SeqsAreNumbers DEF RelayInv
  <2>3. CASE data.sent < data.commit
    <3> DEFINE f0 == [kind |-> "event", seq |-> data.sent + 1]
    <3>1. data.sent + 1 \in Seqs /\ data.sent + 1 <= head
        BY <1>1, <2>2, <2>3, Bounds DEF Seqs
    <3>2. f0 \in DataFrame /\ f0.seq <= head'
      <4>1. f0 \in DataFrame /\ f0.seq = data.sent + 1
          BY <3>1, SentFrames
      <4> QED BY <1>1, <2>2, <3>1, <4>1
    <3>3. dataWire' = ToData(f0)
        BY <1>2, <2>3 DEF Replay
    <3>4. f0.kind \in {"event", "commit"}
        BY DEF f0
    <3> HIDE DEF f0
    <3> QED BY <2>1, <3>2, <3>3, <3>4 DEF ToData
  <2>4. CASE ~(data.sent < data.commit)
    <3> DEFINE f0 == [kind |-> "commit", seq |-> data.commit]
    <3>2. f0 \in DataFrame /\ f0.seq <= head'
      <4>1. f0 \in DataFrame /\ f0.seq = data.commit
          BY <2>2, SentFrames
      <4> QED BY <1>1, <2>2, <4>1
    <3>3. dataWire' = ToData(f0)
        BY <1>2, <2>4 DEF Replay
    <3>4. f0.kind \in {"event", "commit"}
        BY DEF f0
    <3> HIDE DEF f0
    <3> QED BY <2>1, <3>2, <3>3, <3>4 DEF ToData
  <2> QED BY <2>3, <2>4
<1>3. CASE Output
  <2> DEFINE f0 == [kind |-> "event", seq |-> head + 1]
  <2>1. ctlWire' = ctlWire /\ head' = head + 1 /\ dataWire' \in {dataWire, ToData(f0)}
      BY <1>3 DEF Output
  <2>2. head + 1 \in Seqs
    <3>1. head < MaxSeq /\ head \in Seqs
        BY <1>0, <1>3 DEF Output, RelayTypes
    <3> QED BY <3>1, Bounds DEF Seqs
  <2>3. f0 \in DataFrame /\ f0.seq <= head'
    <3>1. f0 \in DataFrame /\ f0.seq = head + 1
        BY <2>2, SentFrames
    <3> QED BY <1>1, <2>1, <3>1
  <2>4. f0.kind \in {"event", "commit"}
      BY DEF f0
  <2> HIDE DEF f0
  <2> QED BY <2>1, <2>3, <2>4 DEF ToData
<1> QED BY <1>2, <1>3

\* What the relay says is no news of a generation or a head to come.
LEMMA RelaySays ==
    ASSUME BaseInv, RelayActions
    PROVE  /\ \/ Startless
              \/ \E f \in ControlFrame :
                    /\ ctlWire' = Onto(ctlWire, f)
                    /\ f.kind = "start" =>
                          /\ HoldsControl /\ IsOpen(data) /\ f.gen = gen /\ f.cut <= head
                          /\ data.state = "catching" /\ control' = control /\ Fed'
           /\ \/ dataWire' = dataWire
              \/ \E f \in DataFrame :
                    /\ dataWire' = Onto(dataWire, f)
                    /\ f.kind \in {"event", "commit"} => f.seq <= head' /\ HoldsData
<1>0. ConnInv /\ Frames /\ RelayTypes /\ RelayInv
    BY DEF BaseInv, TypesInv
<1>1. SocketStep /\ head \in Int /\ head' \in Int /\ head <= head'
    BY RelayStep
<1> DEFINE NoNews ==
             /\ \/ ctlWire' = ctlWire
                \/ \E f \in ControlFrame :
                      /\ ctlWire' \in {Onto(ctlWire, f), Onto(Onto(ctlWire, f), Frame("offline"))}
                      /\ f.kind # "start"
             /\ \/ dataWire' = dataWire
                \/ \E f \in DataFrame :
                      dataWire' = Onto(dataWire, f) /\ f.kind \notin {"event", "commit"}
<1>2. ASSUME NEW why \in Reasons
      PROVE  /\ Closing(why) \in ControlFrame /\ Closing(why).kind # "start"
             /\ Closing(why) \in DataFrame /\ Closing(why).kind \notin {"event", "commit"}
    BY <1>2, ClosingsAreFrames
<1>3. "replaced" \in Reasons
    BY DEF Reasons
<1>4. /\ Frame("open") \in ControlFrame /\ Frame("open").kind # "start"
      /\ Frame("refused") \in ControlFrame /\ Frame("refused").kind # "start"
      /\ Frame("open") \in DataFrame /\ Frame("open").kind \notin {"event", "commit"}
      /\ Frame("refused") \in DataFrame /\ Frame("refused").kind \notin {"event", "commit"}
  <2>1. Frame("open").kind = "open" /\ Frame("refused").kind = "refused"
      BY DEF Frame
  <2> QED BY <2>1, SentFrames
<1>5. CASE NoNews
  <2>1. Startless
      BY <1>5, SaysNoStart
  <2> QED BY <1>5, <2>1
<1>6. CASE Closes
  <2>1. NoNews
      BY <1>2, <1>6 DEF Closes, ToControl, ToData
  <2> QED BY <1>5, <2>1
<1>7. CASE Renews
  <2> DEFINE f0 == [kind |-> "resync", gen |-> gen + 1]
  <2>1. gen + 1 \in Gens
    <3>1. IsOpen(control) /\ gen < MaxGen /\ gen \in Gens
        BY <1>0, <1>7, NamesTyped DEF Renews
    <3> QED BY <3>1, Bounds DEF Gens
  <2>2. f0 \in ControlFrame /\ f0.kind # "start"
      BY <2>1, SentFrames
  <2>3. ctlWire' = ToControl(f0) /\ dataWire' = ToData(Closing("replaced"))
      BY <1>7 DEF Renews, CloseData
  <2> HIDE DEF f0
  <2>4. NoNews
      BY <1>2, <1>3, <2>2, <2>3 DEF ToControl, ToData
  <2> QED BY <1>5, <2>4
<1>8. CASE Attaches
  <2> DEFINE f0 == [kind |-> "welcome", gen |-> gen]
  <2>1. gen \in Gens
      BY <1>0, <1>8, NamesTyped DEF Attaches
  <2>2. f0 \in ControlFrame /\ f0.kind # "start"
      BY <2>1, SentFrames
  <2> DEFINE g0 == Frame("offline")
  <2>3. /\ dataWire' = dataWire
        /\ \/ ctlWire' \in {ctlWire, ToControl(f0)}
           \/ ctlWire' = Onto(ctlWire, g0)
           \/ ctlWire' = Onto(ToControl(f0), g0) /\ HoldsControl
      BY <1>8 DEF Attaches, AttachData
  <2>4. g0 \in ControlFrame /\ g0.kind # "start"
      BY SentFrames
  <2>5. g0 = Frame("offline")
      OBVIOUS
  <2> HIDE DEF f0, g0
  <2>6. NoNews
      BY <2>2, <2>3, <2>4, <2>5 DEF ToControl
  <2> QED BY <1>5, <2>6
<1>9. CASE Acknowledged \/ Rises
  <2>1. NoNews
      BY <1>9 DEF Acknowledged, Rises
  <2> QED BY <1>5, <2>1
<1>13. CASE HostGone
  <2> DEFINE f0 == Frame("offline")
  <2>1. f0 \in ControlFrame /\ f0.kind # "start"
      BY SentFrames
  <2>2. dataWire' = dataWire /\ ctlWire' = ToControl(f0)
      BY <1>13 DEF HostGone
  <2> HIDE DEF f0
  <2>3. NoNews
      BY <2>1, <2>2 DEF ToControl
  <2> QED BY <1>5, <2>3
<1>10. ASSUME NEW mode \in {"warm", "snapshot"}, NEW cut \in Seqs, StartRecovery(mode, cut)
       PROVE  \E f \in ControlFrame :
                 /\ ctlWire' \in {ctlWire, Onto(ctlWire, f)}
                 /\ f.kind = "start" /\ f.gen = gen /\ f.cut <= head
                 /\ ctlWire' = Onto(ctlWire, f) => HoldsControl
  <2> DEFINE f0 == [kind |-> "start", mode |-> mode, gen |-> gen, cut |-> cut]
  <2>1. gen \in Gens /\ cut <= head
      BY <1>0, <1>10, NamesTyped DEF StartRecovery
  <2>2. f0 \in ControlFrame /\ f0.kind = "start" /\ f0.gen = gen /\ f0.cut <= head
      BY <2>1, SentFrames
  <2>3. ctlWire' = ToControl(f0)
      BY <1>10 DEF StartRecovery
  <2> HIDE DEF f0
  <2>4. ctlWire' \in {ctlWire, Onto(ctlWire, f0)} /\ (~HoldsControl => ctlWire' = ctlWire)
      BY <2>3 DEF ToControl
  <2>5. Onto(ctlWire, f0) # ctlWire
    <3>1. ctlWire \in [set : 0 .. MaxSets, gen : 0 .. MaxGen, frames : Seq(ControlFrame)]
        BY <1>0 DEF Frames
    <3>2. /\ Len(Onto(ctlWire, f0).frames) = Len(ctlWire.frames) + 1
          /\ Len(ctlWire.frames) \in Nat
        BY <2>2, <3>1, FramesGrow
    <3> QED BY <3>2
  <2> QED BY <2>2, <2>4, <2>5
<1>11. ASSUME NEW mode \in {"warm", "snapshot"}, NEW cut \in Seqs, StartRecovery(mode, cut)
       PROVE  /\ IsOpen(data) /\ data.state = "catching" /\ control' = control
              /\ dataWire' = dataWire /\ Fed'
  <2>1. data' = [data EXCEPT !.state = "pinned", !.first = cut, !.acked = cut, !.sent = cut,
                             !.commit = head] /\ IsOpen(data)
      BY <1>11 DEF StartRecovery
  <2>2. data \in Data
      BY <1>0, <2>1 DEF RelayTypes, IsOpen
  <2>3. data'.state = "pinned"
      BY <2>1, <2>2 DEF Data
  <2> QED BY <1>11, <2>3 DEF StartRecovery, Fed
<1>12. CASE Replay \/ Output
  <2>1. Startless
      BY <1>1, <1>12, HostSends, SaysNoStart
  <2> QED BY <1>1, <1>12, <2>1, HostSends
<1>14. ASSUME NEW u \in upgrades, AcceptControl(u) \/ AcceptData(u) \/ Refuse(u) PROVE NoNews
  <2>1. CASE AcceptControl(u)
    <3>1. /\ ctlWire' \in {Onto(ctlWire, Frame("open")), ToControl(Closing("replaced"))}
          /\ dataWire' = ToData(Closing("replaced"))
        BY <2>1 DEF AcceptControl, CloseData
    <3> QED BY <1>2, <1>3, <1>4, <3>1 DEF ToControl, ToData
  <2>2. CASE AcceptData(u)
    <3>1. /\ dataWire' \in {Onto(dataWire, Frame("open")), ToData(Closing("replaced"))}
          /\ ctlWire' = ctlWire
        BY <2>2 DEF AcceptData
    <3> QED BY <1>2, <1>3, <1>4, <3>1 DEF ToData
  <2>3. CASE Refuse(u)
    <3>1. /\ dataWire' \in {Onto(dataWire, Frame("refused")), dataWire}
          /\ ctlWire' \in {Onto(ctlWire, Frame("refused")), ctlWire}
        BY <2>3 DEF Refuse
    <3> QED BY <1>4, <3>1
  <2> QED BY <1>14, <2>1, <2>2, <2>3
<1>15. ASSUME NEW mode \in {"warm", "snapshot"}, NEW cut \in Seqs, StartRecovery(mode, cut)
       PROVE  /\ \/ Startless
                 \/ \E f \in ControlFrame :
                    /\ ctlWire' = Onto(ctlWire, f)
                    /\ f.kind = "start" =>
                          /\ HoldsControl /\ IsOpen(data) /\ f.gen = gen /\ f.cut <= head
                          /\ data.state = "catching" /\ control' = control /\ Fed'
              /\ dataWire' = dataWire
    BY <1>10, <1>11, <1>15, SaysNoStart
<1> HIDE DEF NoNews
<1> QED BY <1>1, <1>5, <1>6, <1>7, <1>8, <1>9, <1>12, <1>13, <1>14, <1>15 DEF SocketStep

\* The frames on their way to the page.
LEMMA RelayFramesSay ==
    ASSUME BaseInv, RelayActions
    PROVE  /\ \A i \in DOMAIN ctlWire'.frames :
                 \/ i \in DOMAIN ctlWire.frames /\ ctlWire'.frames[i] = ctlWire.frames[i]
                 \/ ctlWire'.frames[i].kind = "start" =>
                       /\ HoldsControl /\ IsOpen(data) /\ ctlWire'.frames[i].gen = gen
                       /\ ctlWire'.frames[i].cut <= head
                       /\ data.state = "catching" /\ control' = control /\ Fed'
           /\ \A i \in DOMAIN dataWire'.frames :
                 \/ i \in DOMAIN dataWire.frames /\ dataWire'.frames[i] = dataWire.frames[i]
                 \/ dataWire'.frames[i].kind \in {"event", "commit"} =>
                       dataWire'.frames[i].seq <= head' /\ HoldsData
<1>2. ASSUME NEW f \in ControlFrame, ctlWire' = Onto(ctlWire, f),
             f.kind = "start" =>
                          /\ HoldsControl /\ IsOpen(data) /\ f.gen = gen /\ f.cut <= head
                          /\ data.state = "catching" /\ control' = control /\ Fed'
      PROVE  \A i \in DOMAIN ctlWire'.frames :
                 \/ i \in DOMAIN ctlWire.frames /\ ctlWire'.frames[i] = ctlWire.frames[i]
                 \/ ctlWire'.frames[i].kind = "start" =>
                       /\ HoldsControl /\ IsOpen(data) /\ ctlWire'.frames[i].gen = gen
                       /\ ctlWire'.frames[i].cut <= head
                       /\ data.state = "catching" /\ control' = control /\ Fed'
  <2>1. \A i \in DOMAIN ctlWire'.frames :
           \/ i \in DOMAIN ctlWire.frames /\ ctlWire'.frames[i] = ctlWire.frames[i]
           \/ i = Len(ctlWire.frames) + 1 /\ ctlWire'.frames[i] = f
      BY <1>2, CtlOnto
  <2> QED BY <1>2, <2>1, Zenon
<1>4. ASSUME NEW f \in DataFrame, dataWire' = Onto(dataWire, f),
             f.kind \in {"event", "commit"} => f.seq <= head' /\ HoldsData
      PROVE  \A i \in DOMAIN dataWire'.frames :
                 \/ i \in DOMAIN dataWire.frames /\ dataWire'.frames[i] = dataWire.frames[i]
                 \/ dataWire'.frames[i].kind \in {"event", "commit"} =>
                       dataWire'.frames[i].seq <= head' /\ HoldsData
  <2>1. \A i \in DOMAIN dataWire'.frames :
           \/ i \in DOMAIN dataWire.frames /\ dataWire'.frames[i] = dataWire.frames[i]
           \/ i = Len(dataWire.frames) + 1 /\ dataWire'.frames[i] = f
      BY <1>4, DatOnto
  <2> QED BY <1>4, <2>1, Zenon
<1>5. \A i \in DOMAIN ctlWire'.frames :
                 \/ i \in DOMAIN ctlWire.frames /\ ctlWire'.frames[i] = ctlWire.frames[i]
                 \/ ctlWire'.frames[i].kind = "start" =>
                       /\ HoldsControl /\ IsOpen(data) /\ ctlWire'.frames[i].gen = gen
                       /\ ctlWire'.frames[i].cut <= head
                       /\ data.state = "catching" /\ control' = control /\ Fed'
    BY <1>2, RelaySays DEF Startless
<1>6. \A i \in DOMAIN dataWire'.frames :
                 \/ i \in DOMAIN dataWire.frames /\ dataWire'.frames[i] = dataWire.frames[i]
                 \/ dataWire'.frames[i].kind \in {"event", "commit"} =>
                       dataWire'.frames[i].seq <= head' /\ HoldsData
    BY <1>4, RelaySays
<1> QED BY <1>5, <1>6

LEMMA RelayCursors ==
    ASSUME BaseInv, CursorInv, RelayActions PROVE CursorInv'
<1>1. /\ page' = page /\ K' = K /\ head \in Int /\ head' \in Int /\ head <= head'
      /\ PageInv /\ Frames /\ BaseInv'
    BY RelayStep DEF BaseInv, TypesInv
<1>2. /\ K.cursor \in Int /\ K.received \in Int /\ K.pending \in Seq(DataFrame)
  <2>1. K \in Coordinator
      BY <1>1 DEF PageInv, Sound, PageShape, Page, K
  <2> QED BY <2>1, SeqsAreNumbers DEF Coordinator
<1>3. Behind(head)'
  <2>1. K.cursor <= head' /\ K.received <= head'
      BY <1>1, <1>2 DEF CursorInv, Behind, K
  <2>2. ASSUME NEW i \in DOMAIN K.pending PROVE K.pending[i].seq <= head'
    <3>1. K.pending[i].seq \in Int /\ K.pending[i].seq <= head
      <4>1. K.pending[i] \in DataFrame /\ K.pending[i].kind \in {"event", "commit"}
          BY <1>1, <1>2, <2>2 DEF PageInv, Sound, PageDelivery, K
      <4>2. K.pending[i].seq \in Seqs
          BY <4>1, FrameTyped
      <4> QED BY <2>2, <4>2, SeqsAreNumbers DEF CursorInv, Behind, K
    <3> QED BY <1>1, <3>1
  <2>3. ASSUME NEW i \in DOMAIN ctlWire'.frames, ctlWire'.frames[i].kind = "start"
        PROVE  ctlWire'.frames[i].cut <= head'
    <3>1. ctlWire'.frames[i].cut \in Int
      <4>1. Frames' /\ ctlWire'.frames \in Seq(ControlFrame)
          BY <1>1 DEF BaseInv, TypesInv, Frames
      <4>2. ctlWire'.frames[i] \in ControlFrame
          BY <2>3, <4>1
      <4>3. ctlWire'.frames[i].cut \in Seqs
          BY <2>3, <4>2, StartTyped
      <4> QED BY <4>3, SeqsAreNumbers
    <3>2. ctlWire'.frames[i].cut <= head
        BY <2>3, RelayFramesSay DEF CursorInv, Behind
    <3> QED BY <1>1, <3>1, <3>2
  <2> QED BY <1>1, <2>1, <2>2, <2>3 DEF Behind, K
<1>4. ASSUME NEW i \in DOMAIN dataWire'.frames,
             dataWire'.frames[i].kind \in {"event", "commit"}
      PROVE  dataWire'.frames[i].seq <= head'
  <2>1. dataWire'.frames[i].seq \in Int
    <3>1. Frames' /\ dataWire'.frames \in Seq(DataFrame)
        BY <1>1 DEF BaseInv, TypesInv, Frames
    <3>2. dataWire'.frames[i] \in DataFrame
        BY <1>4, <3>1
    <3>3. dataWire'.frames[i].seq \in Seqs
        BY <1>4, <3>2, FrameTyped
    <3> QED BY <3>3, SeqsAreNumbers
  <2>2. dataWire'.frames[i].seq <= head \/ dataWire'.frames[i].seq <= head'
      BY <1>4, RelayFramesSay DEF CursorInv
  <2> QED BY <1>1, <2>1, <2>2
<1>5. ASSUME NEW i \in DOMAIN up', up'[i].kind = "attach" PROVE up'[i].cursor <= head'
  <2>1. PICK j \in DOMAIN up : up'[i] = up[j]
      BY <1>5, UpShrinks
  <2>2. up[j].cursor \in Int /\ up[j].cursor <= head
      BY <1>5, <2>1, AckNumbers DEF CursorInv
  <2> QED BY <1>1, <2>1, <2>2
<1> QED BY <1>3, <1>4, <1>5 DEF CursorInv

\* How the sockets of the relay move.
LEMMA SocketsMove ==
    ASSUME BaseInv, RelayActions
    PROVE  \/ Quietly \/ Renews
           \/ \E u \in upgrades : AcceptControl(u) \/ AcceptData(u) \/ Refuse(u)
<1>1. ConnInv /\ Frames /\ RelayTypes /\ RelayInv
    BY DEF BaseInv, TypesInv
<1>2. SocketStep
    BY RelayStep
<1> QED BY <1>1, <1>2, QuietSteps DEF SocketStep

\* A control socket that is open is the one that was, or has just been accepted.
LEMMA ControlStays ==
    ASSUME BaseInv, RelayActions, IsOpen(control')
    PROVE  \/ IsOpen(control) /\ control'.set = control.set /\ (HoldsControl' <=> HoldsControl)
           \/ up' = <<>> /\ \E u \in upgrades : AcceptControl(u)
<1>1. ctlWire'.set = ctlWire.set
  <2>1. ConnInv /\ Frames /\ RelayTypes /\ RelayInv /\ SocketStep
      BY RelayStep DEF BaseInv, TypesInv
  <2> QED BY <2>1, RelayAddsFrames
<1>2. IsOpen(control) /\ control'.set = control.set => (HoldsControl' <=> HoldsControl)
    BY <1>1 DEF HoldsControl
<1>3. CASE Quietly
  <2>1. control'.set = control.set /\ IsOpen(control)
      BY <1>3 DEF Quietly, IsOpen
  <2> QED BY <1>2, <2>1
<1>4. CASE Renews
  <2>1. IsOpen(control) /\ control \in Control /\ control' = [control EXCEPT !.gen = gen + 1]
      BY <1>4 DEF Renews, BaseInv, ConnInv, SocketInv, IsOpen
  <2>2. control'.set = control.set
      BY <2>1 DEF Control
  <2> QED BY <1>2, <2>1, <2>2
<1>5. ASSUME NEW u \in upgrades, AcceptControl(u)
      PROVE  up' = <<>> /\ \E v \in upgrades : AcceptControl(v)
  <2>1. up' = <<>>
      BY <1>5 DEF AcceptControl
  <2> QED BY <1>5, <2>1
<1>6. ASSUME NEW u \in upgrades, AcceptData(u) \/ Refuse(u) PROVE control' = control
    BY <1>6 DEF AcceptData, Refuse
<1>7. control' = control => control'.set = control.set /\ IsOpen(control)
    OBVIOUS
<1> QED BY <1>2, <1>3, <1>4, <1>5, <1>6, <1>7, SocketsMove

\* The row of a client with a control socket only moves on.
LEMMA GenGrows ==
    ASSUME BaseInv, RelayActions
    PROVE  gen \in Int /\ gen' \in Int /\ (IsOpen(control) => gen <= gen')
<1>0. ConnInv /\ SocketInv /\ SocketStep /\ BaseInv'
    BY RelayStep DEF BaseInv, ConnInv
<1>1. gen \in Int /\ gen' \in Int
    BY <1>0 DEF BaseInv, ConnInv, ClientInv
<1>2. ASSUME IsOpen(control) PROVE gen' = gen \/ gen' = gen + 1
  <2>1. client = "registered"
      BY <1>0, <1>2 DEF SocketInv
  <2> QED BY <1>0, <2>1, RowMoves DEF ReservedGen
<1> QED BY <1>1, <1>2

\* What is on its way from the page was said on the control socket that is open.
LEMMA SpokenOn ==
    ASSUME BaseInv, RelayActions, NEW i \in DOMAIN up'
    PROVE  /\ up' # <<>> /\ up # <<>> /\ IsOpen(control) /\ IsOpen(control')
           /\ control'.set = control.set /\ (HoldsControl' <=> HoldsControl)
<1>1. up' # <<>>
    OBVIOUS
<1>2. PICK s \in {0, 1} : i + s \in DOMAIN up
    BY UpShrinks
<1>3. up # <<>>
    BY <1>2
<1>4. IsOpen(control) /\ IsOpen(control')
    BY <1>1, <1>3, RelayStep DEF BaseInv, ConnInv, SocketInv, IsOpen
<1> QED BY <1>1, <1>3, <1>4, ControlStays

LEMMA RelayGens ==
    ASSUME BaseInv, LinkInv, GenInv, RelayActions PROVE GenInv'
<1>0. /\ SetInv /\ OwnInv /\ WireInv /\ SocketInv
      /\ page' = page /\ C' = C /\ sets' = sets
    BY RelayStep DEF LinkInv, BaseInv, ConnInv, PageRests
<1>1. ASSUME NEW i \in DOMAIN up'
      PROVE  up'[i].gen <= gen' /\ (HoldsControl' => up'[i].gen <= C.gen)
  <2>1. PICK j \in DOMAIN up : up'[i] = up[j]
      BY UpShrinks
  <2>2. up[j].gen \in Int /\ up[j].gen <= gen /\ (HoldsControl => up[j].gen <= C.gen)
      BY AckNumbers DEF GenInv
  <2>3. IsOpen(control) /\ (HoldsControl' <=> HoldsControl)
      BY SpokenOn
  <2>4. gen \in Int /\ gen' \in Int /\ gen <= gen'
      BY <2>3, GenGrows
  <2> QED BY <2>1, <2>2, <2>3, <2>4
<1>2. ASSUME NEW i \in DOMAIN ctlWire'.frames, ctlWire'.frames[i].kind = "start"
      PROVE  ctlWire'.frames[i].gen <= C.gen
  <2>1. CASE i \in DOMAIN ctlWire.frames /\ ctlWire'.frames[i] = ctlWire.frames[i]
      BY <1>2, <2>1 DEF GenInv
  <2>2. CASE HoldsControl /\ IsOpen(data) /\ ctlWire'.frames[i].gen = gen
    <3>1. data.gen = gen /\ data.set = C.set
        BY <1>0, <2>2 DEF SocketInv, HoldsControl, WireInv
    <3> QED BY <1>0, <2>2, <3>1 DEF OwnInv
  <2> QED BY <1>2, <2>1, <2>2, RelayFramesSay
<1>3. ASSUME NEW a \in attaching'
      PROVE  /\ a.set <= sets
             /\ page.attempt = "offered" => a.set # page.offer.set
             /\ a.set = C.set => a.gen <= C.gen
  <2>1. CASE a \in attaching
      BY <2>1 DEF GenInv
  <2>2. CASE a \notin attaching
    <3>1. AwaitsLease /\ a = [set |-> control.set, gen |-> gen, cursor |-> up[1].cursor]
        BY <1>3, <2>2, RelayHears DEF Hearing, AwaitsLease, AttachesNow, AcksNow, GoesItsWay
    <3>2. a.set = control.set /\ a.gen = gen /\ up # <<>> /\ up[1].gen = gen
        BY <3>1 DEF AwaitsLease
    <3>3. 1 \in DOMAIN up
      <4>1. up \in Seq(PageFrame)
          BY DEF BaseInv, TypesInv, Frames
      <4> QED BY <3>2, <4>1
    <3>4. a.set = C.set => HoldsControl
      <4>1. IsOpen(control)
          BY <3>1 DEF AwaitsLease
      <4> QED BY <1>0, <3>2, <4>1 DEF HoldsControl, WireInv
    <3> QED BY <1>0, <3>2, <3>3, <3>4 DEF SetInv, GenInv
  <2> QED BY <2>1, <2>2
<1> QED BY <1>0, <1>1, <1>2, <1>3 DEF GenInv

\* How the delivery on the data socket goes on.
DataKept == IsOpen(data) /\ IsOpen(data') /\ data'.set = data.set /\ data'.gen = data.gen
Begun ==
    /\ AttachesNow /\ IsOpen(control) /\ HasData /\ data.state = "awaiting"
    /\ data'.state \in {"catching", "missed"}
Confirmed ==
    /\ AcksNow /\ data'.acked = up[1].cursor
    /\ data'.state = data.state /\ data'.first = data.first /\ data'.sent = data.sent
Missed == data.state = "catching" /\ data'.state = "missed"
Answered ==
    /\ data.state = "catching" /\ data'.state = "pinned" /\ data'.acked = data'.first
    /\ IsOpen(control)
FedOn ==
    /\ Fed /\ Fed' /\ data'.first = data.first /\ data'.acked = data.acked
    /\ data.sent <= data'.sent

LEMMA DeliveryGoesOn ==
    ASSUME BaseInv, RelayActions
    PROVE  \/ data' \in {data, NoSocket}
           \/ \E u \in upgrades : AcceptData(u)
           \/ DataKept /\ (Begun \/ Confirmed \/ Missed \/ Answered \/ FedOn)
<1>0. RelayTypes /\ RelayInv /\ (IsOpen(data) => data \in Data)
    BY DEF BaseInv, TypesInv, RelayTypes, IsOpen
<1>1. ASSUME NEW d, IsOpen(data), data' = d, d.set = data.set, d.gen = data.gen PROVE DataKept
  <2>1. data.set # 0 /\ NoSocket.set = 0
      BY <1>1, LinkNumbers DEF NoSocket
  <2> QED BY <1>1, <2>1 DEF DataKept, IsOpen
<1>2. CASE AwaitsLease
    BY <1>2 DEF AwaitsLease
<1>3. CASE AttachesNow
  <2>1. IsOpen(control) /\ HasData /\ data.state = "awaiting" /\ IsOpen(data)
    <3>1. data.state = "awaiting" /\ HasData /\ IsOpen(control)
        BY <1>3 DEF AttachesNow, Attaches
    <3>2. data.set = control.set /\ control.set # 0
        BY <3>1, LinkNumbers DEF HasData, SameSocket
    <3> QED BY <3>1, <3>2 DEF IsOpen, NoSocket
  <2>2. PICK cursor \in MaybeSeqs :
           data' = [data EXCEPT !.state = IF host THEN "catching" ELSE "missed",
                                !.first = cursor, !.acked = cursor, !.sent = cursor]
      BY <1>3 DEF AttachesNow, Attaches, AttachData
  <2>3. data'.set = data.set /\ data'.gen = data.gen /\ data'.state \in {"catching", "missed"}
      BY <1>0, <2>1, <2>2 DEF Data
  <2> QED BY <1>1, <1>3, <2>1, <2>3 DEF Begun
<1>4. CASE AcksNow
  <2>1. IsOpen(data) /\ data' = [data EXCEPT !.acked = up[1].cursor]
      BY <1>4 DEF AcksNow, Acknowledged
  <2>2. /\ data'.set = data.set /\ data'.gen = data.gen /\ data'.state = data.state
        /\ data'.first = data.first /\ data'.sent = data.sent /\ data'.acked = up[1].cursor
      BY <1>0, <2>1 DEF Data
  <2> QED BY <1>1, <1>4, <2>1, <2>2 DEF Confirmed
<1>5. CASE Closes \/ Renews
    BY <1>5 DEF Closes, Renews, CloseData
<1>6. CASE HostGone
  <2>1. CASE ~IsOpen(data)
      BY <1>6, <2>1 DEF HostGone
  <2>2. CASE IsOpen(data)
    <3>1. data' = [data EXCEPT !.state = Demoted(data.state)]
        BY <1>6, <2>2 DEF HostGone
    <3>2. /\ data'.set = data.set /\ data'.gen = data.gen /\ data'.state = Demoted(data.state)
          /\ data'.first = data.first /\ data'.acked = data.acked /\ data'.sent = data.sent
        BY <1>0, <2>2, <3>1 DEF Data
    <3>3. CASE data.state = "catching"
        BY <1>1, <2>2, <3>2, <3>3 DEF Missed, Demoted
    <3>4. CASE data.state \in {"pinned", "synced"}
      <4>1. data.sent \in Int /\ Fed /\ Fed'
          BY <1>0, <2>2, <3>2, <3>4, SeqsAreNumbers DEF RelayInv, Fed, Demoted
      <4> QED BY <1>1, <2>2, <3>2, <4>1 DEF FedOn
    <3>5. CASE data.state \notin {"catching", "pinned", "synced"}
        BY <1>0, <2>2, <3>1, <3>5 DEF Data, Demoted
    <3> QED BY <3>3, <3>4, <3>5
  <2> QED BY <2>1, <2>2
<1>10. CASE Rises
    BY <1>10 DEF Rises
<1>7. ASSUME NEW mode \in {"warm", "snapshot"}, NEW cut \in Seqs, StartRecovery(mode, cut)
      PROVE  DataKept /\ Answered
  <2>1. /\ IsOpen(data) /\ data.state = "catching" /\ IsOpen(control)
        /\ data' = [data EXCEPT !.state = "pinned", !.first = cut, !.acked = cut, !.sent = cut,
                                !.commit = head]
      BY <1>7 DEF StartRecovery
  <2>2. /\ data'.set = data.set /\ data'.gen = data.gen /\ data'.state = "pinned"
        /\ data'.first = cut /\ data'.acked = cut
      BY <1>0, <2>1 DEF Data
  <2> QED BY <1>1, <2>1, <2>2 DEF Answered
<1>8. CASE Replay \/ Output
  <2>1. CASE data' = data
      BY <2>1
  <2>2. CASE data' # data
    <3>1. /\ IsOpen(data) /\ data.state \in {"pinned", "synced"}
          /\ \/ data' = [data EXCEPT !.sent = data.sent + 1]
             \/ data' = [data EXCEPT !.state = "synced"]
             \/ data' = [data EXCEPT !.sent = head + 1] /\ data.state = "synced"
        BY <1>8, <2>2 DEF Replay, Output
    <3>2. /\ data.sent \in Int /\ head \in Int /\ (data.state = "synced" => data.sent = head)
        BY <1>0, <3>1, SeqsAreNumbers DEF RelayInv, Fed, RelayTypes
    <3>3. /\ data'.set = data.set /\ data'.gen = data.gen
          /\ data'.state \in {"pinned", "synced"}
          /\ data'.first = data.first /\ data'.acked = data.acked
          /\ \/ data'.sent = data.sent + 1
             \/ data'.sent = data.sent
             \/ data'.sent = head + 1 /\ data.state = "synced"
        BY <1>0, <3>1 DEF Data
    <3>4. data.sent <= data'.sent
        BY <3>2, <3>3
    <3> QED BY <1>1, <3>1, <3>3, <3>4 DEF FedOn, Fed
  <2> QED BY <2>1, <2>2
<1>9. ASSUME NEW u \in upgrades, AcceptControl(u) \/ Refuse(u) PROVE data' \in {data, NoSocket}
    BY <1>9 DEF AcceptControl, CloseData, Refuse
<1> QED BY <1>2, <1>3, <1>4, <1>5, <1>6, <1>7, <1>8, <1>9, <1>10, RelayHears
       DEF Hearing, GoesItsWay

\* A generation begins with a control socket or a resync, and closes the data socket.
LEMMA GenStays ==
    ASSUME BaseInv, RelayActions, IsOpen(data') PROVE gen' = gen
<1>1. data' # NoSocket
    BY DEF IsOpen
<1> QED BY <1>1, SocketsMove DEF Quietly, Renews, CloseData, AcceptControl, AcceptData, Refuse,
                                 reservations

LEMMA RelayAttaches ==
    ASSUME BaseInv, LinkInv, AttachOnce, RelayActions PROVE AttachOnce'
<1>0. up \in Seq(PageFrame)
    BY DEF BaseInv, TypesInv, Frames
<1>1. ASSUME NEW i \in DOMAIN up', NEW j \in DOMAIN up',
             up'[i].kind = "attach", up'[j].kind = "attach", up'[i].gen = up'[j].gen
      PROVE  i = j
  <2>1. PICK s \in {0, 1} : \A n \in DOMAIN up' :
                              n \in Nat /\ n + s \in DOMAIN up /\ up'[n] = up[n + s]
      BY UpShrinks
  <2>2. /\ i \in Nat /\ i + s \in DOMAIN up /\ up'[i] = up[i + s]
        /\ j \in Nat /\ j + s \in DOMAIN up /\ up'[j] = up[j + s]
      BY <2>1
  <2>3. i + s = j + s
      BY <1>1, <2>2 DEF AttachOnce
  <2> QED BY <2>2, <2>3
<1>2. ASSUME NEW a \in attaching', NEW b \in attaching', a.set = b.set PROVE a = b
  <2>1. \/ attaching' \subseteq attaching
        \/ /\ \A c \in attaching : c.set # control.set
           /\ attaching' = attaching \cup
                 {[set |-> control.set, gen |-> gen, cursor |-> up[1].cursor]}
      BY RelayHears DEF Hearing, AwaitsLease, AttachesNow, AcksNow, GoesItsWay
  <2> QED BY <1>2, <2>1 DEF AttachOnce
\* The attach that is read is the only one of its generation.
<1>3. ASSUME up # <<>>, up[1].kind = "attach", up' = Tail(up), NEW i \in DOMAIN up',
             up'[i].kind = "attach"
      PROVE  up'[i].gen # up[1].gen
  <2>1. up'[i] = up[i + 1] /\ i + 1 \in DOMAIN up /\ i \in Nat /\ i # 0
    <3>1. Frames
        BY DEF BaseInv, TypesInv
    <3>2. \A n \in DOMAIN Tail(up) : Tail(up)[n] = up[n + 1] /\ n + 1 \in DOMAIN up
        BY <1>3, <3>1, UpTyped
    <3>3. \A n \in DOMAIN Tail(up) : n \in Nat /\ n # 0
        BY <1>0, <1>3
    <3> QED BY <1>3, <3>2, <3>3
  <2>2. 1 \in DOMAIN up
      BY <1>0, <1>3
  <2>3. i + 1 # 1
      BY <2>1
  <2> QED BY <1>3, <2>1, <2>2, <2>3 DEF AttachOnce
<1>4. ASSUME NEW i \in DOMAIN up', up'[i].kind = "attach"
      PROVE  /\ \A a \in attaching' : a.set = control'.set => up'[i].gen # a.gen
             /\ up'[i].gen = gen' /\ HasData' => data'.state = "awaiting"
  <2>1. PICK j \in DOMAIN up : up'[i] = up[j]
      BY UpShrinks
  <2>2. IsOpen(control) /\ control'.set = control.set /\ IsOpen(control')
      BY SpokenOn
  <2>3. /\ \A a \in attaching : a.set = control.set => up'[i].gen # a.gen
        /\ up'[i].gen = gen /\ HasData => data.state = "awaiting"
      BY <1>4, <2>1 DEF AttachOnce
  <2>4. ASSUME NEW a \in attaching', a.set = control'.set PROVE up'[i].gen # a.gen
    <3>1. CASE a \in attaching
        BY <2>2, <2>3, <2>4, <3>1
    <3>2. CASE a \notin attaching
      <4>1. AwaitsLease /\ a = [set |-> control.set, gen |-> gen, cursor |-> up[1].cursor]
          BY <2>4, <3>2, RelayHears DEF Hearing, AwaitsLease, AttachesNow, AcksNow, GoesItsWay
      <4>2. /\ a.gen = gen /\ up # <<>> /\ up[1].gen = gen /\ up[1].kind = "attach"
            /\ up' = Tail(up)
          BY <4>1 DEF AwaitsLease
      <4> QED BY <1>3, <1>4, <4>2
    <3> QED BY <3>1, <3>2
  <2>5. ASSUME up'[i].gen = gen', HasData' PROVE data'.state = "awaiting"
    <3>1. data'.set = control'.set /\ data'.gen = gen' /\ control'.set # 0
      <4>1. control.set # 0
          BY <2>2, LinkNumbers
      <4> QED BY <2>2, <2>5, <4>1 DEF HasData, SameSocket
    <3>2. IsOpen(data')
        BY <3>1 DEF IsOpen, NoSocket
    <3>3. gen' = gen
        BY <3>2, GenStays
    <3>4. ASSUME data'.set = data.set, data'.gen = data.gen PROVE data.state = "awaiting"
        BY <2>2, <2>3, <2>5, <3>1, <3>3, <3>4 DEF HasData, SameSocket
    <3>5. CASE data' \in {data, NoSocket}
        BY <3>2, <3>4, <3>5 DEF IsOpen
    <3>6. ASSUME NEW u \in upgrades, AcceptData(u) PROVE data'.state = "awaiting"
      <4>1. data' = [set |-> u.set, gen |-> u.gen, state |-> "awaiting", first |-> NoSeq,
                     acked |-> NoSeq, sent |-> NoSeq, commit |-> NoSeq]
          BY <3>6 DEF AcceptData
      <4> QED BY <4>1
    <3>7. CASE DataKept /\ (Begun \/ Confirmed \/ Missed \/ Answered \/ FedOn)
      <4>1. data.state = "awaiting"
          BY <3>4, <3>7 DEF DataKept
      <4>2. Begun \/ Confirmed
          BY <3>7, <4>1 DEF Missed, Answered, FedOn, Fed
      <4>3. CASE Begun
        <5>1. \/ up # <<>> /\ up[1].kind = "attach" /\ up[1].gen = gen /\ up' = Tail(up)
              \/ \E a \in attaching : a.set = control.set /\ a.gen = gen
            BY <4>3 DEF Begun, AttachesNow
        <5> QED BY <1>3, <1>4, <2>3, <2>5, <3>3, <5>1
      <4>4. CASE Confirmed
          BY <4>1, <4>4 DEF Confirmed
      <4> QED BY <4>2, <4>3, <4>4
    <3> QED BY <3>5, <3>6, <3>7, DeliveryGoesOn
  <2> QED BY <2>4, <2>5
<1> QED BY <1>1, <1>2, <1>4 DEF AttachOnce

\* Nothing is begun for a page that is still opening its sockets.
LEMMA RelayOpening ==
    ASSUME BaseInv, LinkInv, OpeningInv, RelayActions PROVE OpeningInv'
<1> SUFFICES ASSUME Opening' PROVE Unspoken'
    BY DEF OpeningInv
<1>0. /\ C' = C /\ K' = K /\ SocketInv /\ WireInv
    BY RelayStep DEF BaseInv, ConnInv
<1>1. /\ Opening /\ K.state = "awaiting" /\ NoStart
      /\ control.set = C.set => \A i \in DOMAIN up : up[i].gen # C.gen
      /\ \A a \in attaching : ~SameSocket(a, C)
      /\ SameSocket(data, C) => data.state = "awaiting"
    BY <1>0 DEF OpeningInv, Opening, Unspoken
<1>2. C.set # 0
  <2>1. PageFence(page)
      BY DEF BaseInv, TypesInv, PageInv, Sound
  <2>2. C.control # "none"
      BY <1>1, <2>1 DEF PageFence, Opening, C
  <2> QED BY <2>2, LinkNumbers
<1>3. NoStart'
  <2>1. ASSUME NEW i \in DOMAIN ctlWire'.frames, ctlWire'.frames[i].kind = "start",
               ctlWire'.frames[i].gen = C.gen
        PROVE  FALSE
    <3>1. CASE i \in DOMAIN ctlWire.frames /\ ctlWire'.frames[i] = ctlWire.frames[i]
        BY <1>1, <2>1, <3>1 DEF NoStart, StartOf
    <3>2. CASE HoldsControl /\ IsOpen(data) /\ ctlWire'.frames[i].gen = gen
               /\ data.state = "catching"
      <4>1. data.set = C.set /\ data.gen = C.gen
          BY <1>0, <2>1, <3>2 DEF HoldsControl, SocketInv, WireInv
      <4> QED BY <1>1, <3>2, <4>1 DEF SameSocket
    <3> QED BY <2>1, <3>1, <3>2, RelayFramesSay
  <2> QED BY <1>0, <2>1 DEF NoStart, StartOf
<1>4. ASSUME control'.set = C.set, NEW i \in DOMAIN up' PROVE up'[i].gen # C.gen
  <2>1. PICK j \in DOMAIN up : up'[i] = up[j]
      BY UpShrinks
  <2>2. control'.set = control.set
      BY SpokenOn
  <2> QED BY <1>1, <1>4, <2>1, <2>2
\* What is read is not of the page's generation.
<1>5. ASSUME up # <<>>, up[1].gen = gen, control.set = C.set PROVE gen # C.gen
  <2>1. 1 \in DOMAIN up
    <3>1. up \in Seq(PageFrame)
        BY DEF BaseInv, TypesInv, Frames
    <3> QED BY <1>5, <3>1
  <2> QED BY <1>1, <1>5, <2>1
<1>6. ASSUME NEW a \in attaching' PROVE ~SameSocket(a, C)
  <2>1. CASE a \in attaching
      BY <1>1, <2>1
  <2>2. CASE a \notin attaching
    <3>1. AwaitsLease /\ a = [set |-> control.set, gen |-> gen, cursor |-> up[1].cursor]
        BY <1>6, <2>2, RelayHears DEF Hearing, AwaitsLease, AttachesNow, AcksNow, GoesItsWay
    <3>2. a.set = control.set /\ a.gen = gen /\ up # <<>> /\ up[1].gen = gen
        BY <3>1 DEF AwaitsLease
    <3> QED BY <1>5, <3>2 DEF SameSocket
  <2> QED BY <2>1, <2>2
<1>7. ASSUME SameSocket(data', C) PROVE data'.state = "awaiting"
  <2>1. IsOpen(data')
      BY <1>2, <1>7 DEF IsOpen, NoSocket, SameSocket
  <2>2. CASE data' \in {data, NoSocket}
      BY <1>1, <1>7, <2>1, <2>2 DEF IsOpen
  <2>3. ASSUME NEW u \in upgrades, AcceptData(u) PROVE data'.state = "awaiting"
    <3>1. data' = [set |-> u.set, gen |-> u.gen, state |-> "awaiting", first |-> NoSeq,
                   acked |-> NoSeq, sent |-> NoSeq, commit |-> NoSeq]
        BY <2>3 DEF AcceptData
    <3> QED BY <3>1
  <2>4. CASE DataKept /\ (Begun \/ Confirmed \/ Missed \/ Answered \/ FedOn)
    <3>1. data.set = C.set /\ data.gen = C.gen /\ data.state = "awaiting"
        BY <1>1, <1>7, <2>4 DEF DataKept, SameSocket
    <3>2. Begun \/ Confirmed
        BY <2>4, <3>1 DEF Missed, Answered, FedOn, Fed
    <3>3. ~Begun
      <4>1. SUFFICES ASSUME Begun PROVE FALSE
          OBVIOUS
      <4>2. /\ control.set = C.set /\ gen = C.gen
            /\ \/ up # <<>> /\ up[1].gen = gen
               \/ \E a \in attaching : a.set = control.set /\ a.gen = gen
          BY <3>1, <4>1 DEF Begun, AttachesNow, HasData, SameSocket
      <4> QED BY <1>1, <1>5, <4>2 DEF SameSocket
    <3> QED BY <3>1, <3>2, <3>3 DEF Confirmed
  <2> QED BY <2>2, <2>3, <2>4, DeliveryGoesOn
<1> QED BY <1>0, <1>1, <1>3, <1>4, <1>6, <1>7 DEF Unspoken

\* What a data socket is told, and why.
TellsData(f) ==
    \/ f.kind \in {"event", "commit"} /\ HoldsData
    \/ f.kind = "closed" /\ HoldsData /\ ~HoldsData'
    \/ f.kind = "open" /\ \E u \in upgrades : AcceptData(u) /\ SameSocket(dataWire, u)
    \/ /\ f.kind = "refused"
       /\ \E u \in upgrades : Refuse(u) /\ u.channel = "data" /\ SameSocket(dataWire, u)

LEMMA RelayTells ==
    ASSUME BaseInv, RelayActions
    PROVE  /\ dataWire'.set = dataWire.set /\ dataWire'.gen = dataWire.gen
           /\ \A i \in DOMAIN dataWire'.frames :
                 \/ i \in DOMAIN dataWire.frames /\ dataWire'.frames[i] = dataWire.frames[i]
                 \/ TellsData(dataWire'.frames[i])
<1>0. /\ SocketStep /\ head' \in Int /\ head <= head'
      /\ ConnInv /\ Frames /\ RelayTypes /\ RelayInv
    BY RelayStep DEF BaseInv, TypesInv
<1>1. dataWire'.set = dataWire.set /\ dataWire'.gen = dataWire.gen
    BY <1>0, RelayAddsFrames
<1>2. /\ Closing("replaced") \in DataFrame /\ Closing("replaced").kind = "closed"
      /\ Frame("open") \in DataFrame /\ Frame("open").kind = "open"
      /\ Frame("refused") \in DataFrame /\ Frame("refused").kind = "refused"
      /\ \A why \in Reasons : Closing(why) \in DataFrame /\ Closing(why).kind = "closed"
  <2>1. Frame("open").kind = "open" /\ Frame("refused").kind = "refused"
      BY DEF Frame
  <2>2. "replaced" \in Reasons
      BY DEF Reasons
  <2> QED BY <2>1, <2>2, SentFrames, ClosingsAreFrames
<1>3. data' = NoSocket => ~HoldsData'
    BY DEF HoldsData, IsOpen
<1>4. \/ dataWire' = dataWire
      \/ \E f \in DataFrame : dataWire' = Onto(dataWire, f) /\ TellsData(f)
  <2>1. ASSUME NEW why \in Reasons, data' = NoSocket, dataWire' = ToData(Closing(why))
        PROVE  \/ dataWire' = dataWire
               \/ \E f \in DataFrame : dataWire' = Onto(dataWire, f) /\ TellsData(f)
      BY <1>2, <1>3, <2>1 DEF ToData, TellsData
  <2>2. CASE Closes
      BY <2>1, <2>2 DEF Closes
  <2>3. CASE Renews
      BY <2>1, <2>3 DEF Renews, CloseData, Reasons
  <2>4. CASE Attaches \/ Acknowledged \/ HostGone \/ Rises
      BY <2>4 DEF Attaches, Acknowledged, HostGone, Rises
  <2>5. ASSUME NEW mode \in {"warm", "snapshot"}, NEW cut \in Seqs, StartRecovery(mode, cut)
        PROVE  dataWire' = dataWire
      BY <2>5 DEF StartRecovery
  <2>6. CASE Replay \/ Output
      BY <1>0, <2>6, HostSends DEF TellsData
  <2>7. ASSUME NEW u \in upgrades, AcceptControl(u)
        PROVE  \/ dataWire' = dataWire
               \/ \E f \in DataFrame : dataWire' = Onto(dataWire, f) /\ TellsData(f)
      BY <2>1, <2>7 DEF AcceptControl, CloseData, Reasons
  <2>8. ASSUME NEW u \in upgrades, AcceptData(u)
        PROVE  \/ dataWire' = dataWire
               \/ \E f \in DataFrame : dataWire' = Onto(dataWire, f) /\ TellsData(f)
    <3>1. CASE SameSocket(dataWire, u)
      <4>1. dataWire' = Onto(dataWire, Frame("open"))
          BY <2>8, <3>1 DEF AcceptData
      <4>2. TellsData(Frame("open"))
          BY <1>2, <2>8, <3>1 DEF TellsData
      <4> QED BY <1>2, <4>1, <4>2
    <3>2. CASE ~SameSocket(dataWire, u)
      <4>1. dataWire' = ToData(Closing("replaced")) /\ data'.set = u.set /\ data'.gen = u.gen
          BY <2>8, <3>2 DEF AcceptData
      <4>2. ~HoldsData'
          BY <1>1, <3>2, <4>1 DEF HoldsData, SameSocket
      <4> QED BY <1>2, <4>1, <4>2 DEF ToData, TellsData
    <3> QED BY <3>1, <3>2
  <2>9. ASSUME NEW u \in upgrades, Refuse(u)
        PROVE  \/ dataWire' = dataWire
               \/ \E f \in DataFrame : dataWire' = Onto(dataWire, f) /\ TellsData(f)
    <3>1. \/ dataWire' = dataWire
          \/ /\ dataWire' = Onto(dataWire, Frame("refused"))
             /\ u.channel # "control" /\ SameSocket(dataWire, u)
        BY <2>9 DEF Refuse
    <3>2. u.channel \in {"control", "data"}
        BY LinkNumbers
    <3>3. u.channel # "control" /\ SameSocket(dataWire, u) => TellsData(Frame("refused"))
        BY <1>2, <2>9, <3>2 DEF TellsData
    <3> QED BY <1>2, <3>1, <3>3
  <2> QED BY <1>0, <2>2, <2>3, <2>4, <2>5, <2>6, <2>7, <2>8, <2>9 DEF SocketStep
<1>5. ASSUME NEW f \in DataFrame, dataWire' = Onto(dataWire, f), TellsData(f)
      PROVE  \A i \in DOMAIN dataWire'.frames :
                 \/ i \in DOMAIN dataWire.frames /\ dataWire'.frames[i] = dataWire.frames[i]
                 \/ TellsData(dataWire'.frames[i])
  <2>1. \A i \in DOMAIN dataWire'.frames :
           \/ i \in DOMAIN dataWire.frames /\ dataWire'.frames[i] = dataWire.frames[i]
           \/ i = Len(dataWire.frames) + 1 /\ dataWire'.frames[i] = f
      BY <1>5, DatOnto
  <2> QED BY <1>5, <2>1, Zenon
<1> QED BY <1>1, <1>4, <1>5

\* Only a reset issues a ticket, for a generation nobody has heard of.
LEMMA TicketsMove ==
    ASSUME BaseInv, RelayActions, NEW t \in tickets'
    PROVE  \/ t \in tickets
           \/ /\ IsOpen(control) /\ t = [set |-> control.set, channel |-> "data", gen |-> gen + 1]
<1>1. CASE Quietly
    BY <1>1 DEF Quietly
<1>2. CASE Renews
    BY <1>2 DEF Renews
<1>3. ASSUME NEW u \in upgrades, AcceptControl(u) \/ AcceptData(u) \/ Refuse(u)
      PROVE  tickets' \subseteq tickets
    BY <1>3 DEF AcceptControl, AcceptData, Refuse, reservations
<1> QED BY <1>1, <1>2, <1>3, SocketsMove

LEMMA RelayUnused ==
    ASSUME BaseInv, LinkInv, GenInv, UnusedInv, RelayActions PROVE UnusedInv'
<1>0. C' = C /\ SetInv /\ OwnInv /\ DataTicketInv /\ WireInv
    BY RelayStep DEF LinkInv, BaseInv
<1>1. ASSUME NEW t \in tickets', t.channel = "data", control'.set = t.set, NEW i \in DOMAIN up'
      PROVE  up'[i].gen # t.gen
  <2>1. PICK j \in DOMAIN up : up'[i] = up[j]
      BY UpShrinks
  <2>2. control'.set = control.set
      BY SpokenOn
  <2>3. CASE t \in tickets
      BY <1>1, <2>1, <2>2, <2>3 DEF UnusedInv
  <2>4. CASE t.gen = gen + 1
    <3>1. up[j].gen \in Int /\ up[j].gen <= gen /\ gen \in Int
        BY AckNumbers, LinkNumbers DEF GenInv
    <3> QED BY <2>1, <2>4, <3>1
  <2> QED BY <2>3, <2>4, TicketsMove
<1>2. ASSUME NEW t \in tickets', t.channel = "data", SameSocket(dataWire', t)
      PROVE  /\ C.data = "opening"
             /\ \A i \in DOMAIN dataWire'.frames : dataWire'.frames[i].kind = "refused"
  <2>1. SameSocket(dataWire, t)
      BY <1>2, RelayTells DEF SameSocket
  <2>2. CASE t \in tickets
    <3>1. /\ C.data = "opening"
          /\ \A i \in DOMAIN dataWire.frames : dataWire.frames[i].kind = "refused"
        BY <1>2, <2>1, <2>2 DEF UnusedInv
    <3>2. ~HoldsData
        BY <1>0, <1>2, <2>1, <2>2 DEF DataTicketInv, HoldsData, SameSocket
    <3>3. ASSUME NEW u \in upgrades, AcceptData(u), SameSocket(dataWire, u) PROVE FALSE
      <4>1. u \in tickets /\ u.channel = "data" /\ tickets' = tickets \ {u}
          BY <3>3 DEF AcceptData, Acceptable
      <4>2. t \in Ticket /\ u \in Ticket
          BY <2>2, <4>1, LinkNumbers
      <4>3. t = u
          BY <1>2, <2>1, <3>3, <4>1, <4>2, TicketIs DEF SameSocket
      <4> QED BY <4>1, <4>3
    <3>4. \A f : TellsData(f) => f.kind = "refused"
        BY <3>2, <3>3 DEF TellsData
    <3> QED BY <3>1, <3>4, RelayTells
  <2>3. CASE IsOpen(control) /\ t = [set |-> control.set, channel |-> "data", gen |-> gen + 1]
    <3>1. control.set # 0 /\ t.set = control.set /\ t.gen = gen + 1
        BY <2>3, LinkNumbers
    <3>2. dataWire.set = control.set /\ dataWire.gen = gen + 1
        BY <2>1, <3>1 DEF SameSocket
    <3>3. C.set = control.set /\ C.gen = gen + 1 /\ C.set # 0
        BY <3>1, <3>2, WireOfPage
    <3>4. C.gen <= gen
        BY <1>0, <3>3, HolderIs DEF OwnInv
    <3>5. gen \in Int
        BY LinkNumbers
    <3> QED BY <3>3, <3>4, <3>5
  <2> QED BY <2>2, <2>3, TicketsMove
<1> QED BY <1>0, <1>1, <1>2 DEF UnusedInv

\* A request of the page that is granted was one that could be.
LEMMA PageDataIs ==
    ASSUME BaseInv, NEW u \in upgrades, u.channel = "data", u.set = C.set, u.gen = C.gen
    PROVE  u = PageData
<1>1. u \in Ticket
    BY LinkNumbers
<1>2. PageData \in Ticket /\ PageData.set = C.set /\ PageData.gen = C.gen
      /\ PageData.channel = "data"
    BY <1>1 DEF PageData, Ticket
<1> QED BY <1>1, <1>2, TicketIs

LEMMA RelayGone ==
    ASSUME BaseInv, LinkInv, GoneInv, RelayActions PROVE GoneInv'
<1>0. C' = C /\ OwnInv /\ DataTicketInv /\ WireInv /\ upgrades' \subseteq upgrades
      /\ PageData' = PageData
  <2>1. C' = C /\ upgrades' \subseteq upgrades
      BY RelayStep DEF PageRests
  <2> QED BY <2>1 DEF LinkInv, BaseInv, PageData
<1> SUFFICES ASSUME C.current
             PROVE  /\ \A i \in DOMAIN dataWire'.frames :
                         dataWire'.frames[i].kind \in {"closed", "refused"} =>
                            ~HoldsData' /\ ~Claimed'
                    /\ C.data = "none" /\ C.control \in {"open", "closing"} =>
                         ~SameSocket(data', C) /\ ~Claimed'
    BY <1>0 DEF GoneInv
<1>1. Claimed' => Claimed
  <2>1. SUFFICES ASSUME PageData \in upgrades', PageData \in tickets' PROVE Claimed
      BY <1>0 DEF Claimed
  <2>2. CASE PageData \in tickets
      BY <1>0, <2>1, <2>2 DEF Claimed
  <2>3. CASE IsOpen(control)
             /\ PageData = [set |-> control.set, channel |-> "data", gen |-> gen + 1]
    <3>1. C.set = control.set /\ C.gen = gen + 1 /\ control.set # 0 /\ gen \in Int
        BY <2>3, LinkNumbers DEF PageData
    <3>2. C.gen <= gen
        BY <1>0, <3>1, HolderIs DEF OwnInv
    <3> QED BY <3>1, <3>2
  <2> QED BY <2>1, <2>2, <2>3, TicketsMove
<1>2. ASSUME SameSocket(data', C), C.set # 0 PROVE SameSocket(data, C) \/ Claimed
  <2>1. data' # NoSocket
      BY <1>2 DEF SameSocket, NoSocket
  <2>2. ASSUME NEW u \in upgrades, AcceptData(u) PROVE Claimed
    <3>1. u \in tickets /\ u.channel = "data" /\ data'.set = u.set /\ data'.gen = u.gen
        BY <2>2 DEF AcceptData, Acceptable
    <3>2. u = PageData
        BY <1>2, <3>1, PageDataIs DEF SameSocket
    <3> QED BY <3>1, <3>2 DEF Claimed
  <2> QED BY <1>2, <2>1, <2>2, DeliveryGoesOn DEF DataKept, SameSocket
<1>3. ASSUME HoldsData PROVE ~Claimed
  <2>1. data.set # 0 /\ dataWire.set = data.set /\ dataWire.gen = data.gen
      BY <1>3, LinkNumbers DEF HoldsData, SameSocket
  <2>2. data.set = C.set /\ data.gen = C.gen
      BY <2>1, WireOfPage
  <2>3. PageData.set = C.set /\ PageData.gen = C.gen /\ PageData.channel = "data"
      BY DEF PageData
  <2> QED BY <1>0, <2>2, <2>3 DEF Claimed, DataTicketInv, SameSocket
<1>4. ASSUME NEW i \in DOMAIN dataWire'.frames,
             dataWire'.frames[i].kind \in {"closed", "refused"}
      PROVE  ~HoldsData' /\ ~Claimed'
  <2>1. CASE i \in DOMAIN dataWire.frames /\ dataWire'.frames[i] = dataWire.frames[i]
    <3>1. ~HoldsData /\ ~Claimed
        BY <1>4, <2>1 DEF GoneInv
    <3>2. C.data # "none" /\ dataWire.set = C.set /\ dataWire.gen = C.gen /\ C.set # 0
      <4>1. dataWire.frames # <<>>
          BY <2>1
      <4> QED BY <4>1, WireOfPage
    <3>3. ~HoldsData'
      <4>1. SUFFICES ASSUME HoldsData' PROVE FALSE
          OBVIOUS
      <4>2. SameSocket(data', C)
          BY <3>2, <4>1, RelayTells DEF HoldsData, SameSocket
      <4>3. SameSocket(data, C)
          BY <1>2, <3>1, <3>2, <4>2
      <4>4. HoldsData
          BY <3>2, <4>3 DEF HoldsData, SameSocket, IsOpen, NoSocket
      <4> QED BY <3>1, <4>4
    <3> QED BY <1>1, <3>1, <3>3
  <2>2. CASE dataWire'.frames[i].kind = "closed" /\ HoldsData /\ ~HoldsData'
      BY <1>1, <1>3, <2>2
  <2>3. ASSUME NEW u \in upgrades, Refuse(u), u.channel = "data", SameSocket(dataWire, u)
        PROVE  ~HoldsData' /\ ~Claimed'
    <3>1. u.set = C.set /\ u.gen = C.gen
      <4>1. u.set # 0
          BY LinkNumbers
      <4> QED BY <2>3, <4>1, WireOfPage DEF SameSocket
    <3>2. u = PageData
        BY <2>3, <3>1, PageDataIs
    <3>3. upgrades' = upgrades \ {u} /\ data' = data
        BY <2>3 DEF Refuse
    <3>4. ~SameSocket(data, u)
        BY <1>0, <2>3 DEF DataTicketInv
    <3>5. ~HoldsData'
        BY <2>3, <3>3, <3>4, RelayTells DEF HoldsData, SameSocket
    <3> QED BY <1>0, <3>2, <3>3, <3>5 DEF Claimed
  <2>4. dataWire'.frames[i].kind \notin {"event", "commit", "open"}
      BY <1>4
  <2> QED BY <2>1, <2>2, <2>3, <2>4, RelayTells DEF TellsData
<1>5. ASSUME C.data = "none", C.control \in {"open", "closing"}
      PROVE  ~SameSocket(data', C) /\ ~Claimed'
  <2>1. C.set # 0
    <3>1. C.control # "none"
        BY <1>5
    <3> QED BY <3>1, LinkNumbers
  <2> QED BY <1>1, <1>2, <1>5, <2>1 DEF GoneInv
<1> QED BY <1>4, <1>5

\* A data socket that is accepted has not been spoken of.
LEMMA AcceptedUnspoken ==
    ASSUME BaseInv, UnusedInv, NEW u \in upgrades, AcceptData(u)
    PROVE  /\ up' = up /\ u.gen = gen /\ ~Fed'
           /\ \A i \in DOMAIN up : up[i].gen # u.gen
<1>1. /\ up' = up /\ u \in tickets /\ u.channel = "data" /\ control.set = u.set /\ gen = u.gen
    BY DEF AcceptData, Acceptable
<1>2. data' = [set |-> u.set, gen |-> u.gen, state |-> "awaiting", first |-> NoSeq,
               acked |-> NoSeq, sent |-> NoSeq, commit |-> NoSeq]
    BY DEF AcceptData
<1>3. ~Fed'
    BY <1>2 DEF Fed
<1> QED BY <1>1, <1>3 DEF UnusedInv

LEMMA RelayAcksOnTheWay ==
    ASSUME BaseInv, LinkInv, UnusedInv, AcksOnTheWay, RelayActions PROVE AcksOnTheWay'
<1> SUFFICES ASSUME IsOpen(data')
             PROVE  /\ \A i \in DOMAIN up' : up'[i].kind = "ack" /\ up'[i].gen = gen' =>
                         Fed' /\ data'.acked <= up'[i].cursor /\ up'[i].cursor <= data'.sent
                    /\ \A i, j \in DOMAIN up' :
                         /\ up'[i].kind = "ack" /\ up'[i].gen = gen'
                         /\ up'[j].kind = "ack" /\ up'[j].gen = gen' /\ i <= j
                         => up'[i].cursor <= up'[j].cursor
    BY DEF AcksOnTheWay, AckOf
<1>1. gen' = gen
    BY GenStays
<1>2. PICK s \in {0, 1} : \A i \in DOMAIN up' :
                            i \in Nat /\ i + s \in DOMAIN up /\ up'[i] = up[i + s]
    BY UpShrinks
<1>3. ASSUME NEW u \in upgrades, AcceptData(u)
      PROVE  \A i \in DOMAIN up' : up'[i].gen # gen'
    BY <1>1, <1>3, AcceptedUnspoken
<1>4. ASSUME ~\E u \in upgrades : AcceptData(u) PROVE IsOpen(data)
    BY <1>4, DeliveryGoesOn DEF DataKept, IsOpen
<1>5. ASSUME IsOpen(data), NEW i \in DOMAIN up', up'[i].kind = "ack", up'[i].gen = gen'
      PROVE  /\ Fed /\ data.acked <= up'[i].cursor /\ up'[i].cursor <= data.sent
             /\ up'[i].cursor \in Int /\ data.acked \in Int /\ data.sent \in Int
             /\ i + s \in DOMAIN up /\ AckOf(i + s, gen) /\ i \in Nat
  <2>1. i + s \in DOMAIN up /\ up'[i] = up[i + s] /\ AckOf(i + s, gen) /\ i \in Nat
      BY <1>1, <1>2, <1>5 DEF AckOf
  <2>2. Fed /\ data.acked <= up[i + s].cursor /\ up[i + s].cursor <= data.sent
      BY <1>5, <2>1 DEF AcksOnTheWay
  <2>3. up[i + s].cursor \in Int /\ data.acked \in Int /\ data.sent \in Int
      BY <1>5, <2>1, <2>2, AckNumbers
  <2> QED BY <2>1, <2>2, <2>3
<1>6. ASSUME NEW i \in DOMAIN up', up'[i].kind = "ack", up'[i].gen = gen'
      PROVE  Fed' /\ data'.acked <= up'[i].cursor /\ up'[i].cursor <= data'.sent
  <2>1. /\ IsOpen(data) /\ ~\E u \in upgrades : AcceptData(u)
        /\ Fed /\ data.acked <= up'[i].cursor /\ up'[i].cursor <= data.sent
        /\ up'[i].cursor \in Int /\ data.sent \in Int
      BY <1>3, <1>4, <1>5, <1>6
  <2>2. CASE data' \in {data, NoSocket}
      BY <2>1, <2>2 DEF IsOpen, Fed
  <2>3. CASE Begun \/ Missed \/ Answered
      BY <2>1, <2>3 DEF Begun, Missed, Answered, Fed
  <2>4. CASE Confirmed
    <3>1. /\ data'.state = data.state /\ data'.sent = data.sent /\ data'.acked = up[1].cursor
          /\ up # <<>> /\ up[1].kind = "ack" /\ up[1].gen = gen
        BY <2>4 DEF Confirmed, AcksNow
    <3>2. 1 \in DOMAIN up /\ AckOf(1, gen) /\ 1 <= i + s
      <4>1. up \in Seq(PageFrame)
          BY DEF BaseInv, TypesInv, Frames
      <4>2. i + s \in DOMAIN up
          BY <1>2
      <4> QED BY <3>1, <4>1, <4>2 DEF AckOf
    <3>3. i + s \in DOMAIN up /\ AckOf(i + s, gen) /\ up'[i] = up[i + s]
        BY <1>2, <1>5, <1>6, <2>1
    <3>4. up[1].cursor <= up'[i].cursor
        BY <2>1, <3>2, <3>3 DEF AcksOnTheWay
    <3> QED BY <2>1, <3>1, <3>4 DEF Fed
  <2>5. CASE FedOn
    <3>1. data'.sent \in Int
      <4>1. RelayTypes' /\ RelayInv'
          BY RelayStep DEF BaseInv, TypesInv
      <4>2. data'.sent \in Seqs
          BY <2>5, <4>1 DEF FedOn, RelayInv
      <4> QED BY <4>2, SeqsAreNumbers
    <3> QED BY <2>1, <2>5, <3>1 DEF FedOn
  <2> QED BY <2>1, <2>2, <2>3, <2>4, <2>5, DeliveryGoesOn
<1>7. ASSUME NEW i \in DOMAIN up', NEW j \in DOMAIN up',
             up'[i].kind = "ack", up'[i].gen = gen', up'[j].kind = "ack", up'[j].gen = gen',
             i <= j
      PROVE  up'[i].cursor <= up'[j].cursor
  <2>1. IsOpen(data)
      BY <1>3, <1>4, <1>7
  <2>2. /\ i + s \in DOMAIN up /\ AckOf(i + s, gen) /\ i \in Nat /\ up'[i] = up[i + s]
        /\ j + s \in DOMAIN up /\ AckOf(j + s, gen) /\ j \in Nat /\ up'[j] = up[j + s]
      BY <1>2, <1>5, <1>7, <2>1
  <2>3. i + s <= j + s
      BY <1>7, <2>2
  <2> QED BY <2>1, <2>2, <2>3 DEF AcksOnTheWay
<1> QED BY <1>6, <1>7

LEMMA RelayAcksOfPage ==
    ASSUME BaseInv, LinkInv, StreamInv, UnusedInv, AcksOfPage, RelayActions
    PROVE  AcksOfPage'
<1>0. C' = C /\ page' = page /\ DataTicketInv /\ SocketInv
    BY RelayStep DEF LinkInv, BaseInv, ConnInv
<1> SUFFICES ASSUME C.current, HoldsData'
             PROVE  /\ \A i \in DOMAIN up' : up'[i].kind = "ack" /\ up'[i].gen = C.gen =>
                         up'[i].cursor <= page.acks.last
                    /\ Fed' => data'.acked = data'.first \/ data'.acked <= page.acks.last
                    /\ page.acks.pending # NoSeq =>
                         /\ Fed' /\ data'.first <= page.acks.pending
                         /\ page.acks.pending <= data'.sent
    BY <1>0 DEF AcksOfPage, AckOf
<1>1. IsOpen(data')
    BY DEF HoldsData
<1>2. ASSUME NEW i \in DOMAIN up', up'[i].kind = "ack", up'[i].gen = C.gen,
             \A j \in DOMAIN up : AckOf(j, C.gen) => up[j].cursor <= page.acks.last
      PROVE  up'[i].cursor <= page.acks.last
  <2>1. PICK j \in DOMAIN up : up'[i] = up[j]
      BY UpShrinks
  <2> QED BY <1>2, <2>1 DEF AckOf
<1>3. ASSUME NEW u \in upgrades, AcceptData(u)
      PROVE  /\ page.acks.pending = NoSeq /\ ~Fed'
             /\ \A i \in DOMAIN up' : up'[i].gen # C.gen
  <2>1. /\ u \in tickets /\ u.channel = "data" /\ data'.set = u.set /\ data'.gen = u.gen
        /\ u.set # 0
      BY <1>3, LinkNumbers DEF AcceptData, Acceptable
  <2>2. SameSocket(dataWire, u)
      BY <2>1, RelayTells DEF HoldsData, SameSocket
  <2>3. SameSocket(C, u)
      BY <2>1, <2>2, WireOfPage DEF SameSocket
  <2>4. K.state = "awaiting"
      BY <1>0, <2>1, <2>3 DEF DataTicketInv
  <2>5. page.acks.pending = NoSeq
      BY <2>4 DEF StreamInv
  <2> QED BY <1>3, <2>3, <2>5, AcceptedUnspoken DEF SameSocket
<1>4. CASE data' = data \/ DataKept
  <2>1. HoldsData
      BY <1>4, RelayTells DEF HoldsData, DataKept, SameSocket, IsOpen
  <2>2. /\ \A i \in DOMAIN up : AckOf(i, C.gen) => up[i].cursor <= page.acks.last
        /\ Fed => data.acked = data.first \/ data.acked <= page.acks.last
        /\ page.acks.pending # NoSeq =>
              Fed /\ data.first <= page.acks.pending /\ page.acks.pending <= data.sent
      BY <2>1 DEF AcksOfPage
  <2>3. \A i \in DOMAIN up' : up'[i].kind = "ack" /\ up'[i].gen = C.gen =>
           up'[i].cursor <= page.acks.last
      BY <1>2, <2>2
  <2>4. CASE data' = data
      BY <2>2, <2>3, <2>4 DEF Fed
  <2>5. CASE Begun \/ Missed \/ Answered
    <3>1. ~Fed
        BY <2>5 DEF Begun, Missed, Answered, Fed
    <3>2. Fed' => data'.acked = data'.first
        BY <2>5 DEF Begun, Missed, Answered, Fed
    <3> QED BY <2>2, <2>3, <3>1, <3>2
  <2>6. CASE Confirmed
    <3>1. /\ data'.state = data.state /\ data'.sent = data.sent /\ data'.acked = up[1].cursor
          /\ data'.first = data.first
          /\ up # <<>> /\ up[1].kind = "ack" /\ up[1].gen = gen /\ IsOpen(control)
        BY <2>6 DEF Confirmed, AcksNow, Acknowledged
    <3>2. 1 \in DOMAIN up
      <4>1. up \in Seq(PageFrame)
          BY DEF BaseInv, TypesInv, Frames
      <4> QED BY <3>1, <4>1
    <3>3. C.gen = gen
      <4>1. data.gen = gen /\ data.set # 0
          BY <1>0, <2>1, <3>1, LinkNumbers DEF SocketInv, HoldsData
      <4> QED BY <2>1, <4>1, WireOfPage DEF HoldsData, SameSocket
    <3>4. up[1].cursor <= page.acks.last
        BY <2>2, <3>1, <3>2, <3>3 DEF AckOf
    <3> QED BY <2>2, <2>3, <3>1, <3>4 DEF Fed
  <2>7. CASE FedOn
    <3>1. page.acks.pending # NoSeq => page.acks.pending <= data'.sent
      <4>1. RelayInv' /\ IsOpen(data)
          BY <2>1, RelayStep DEF BaseInv, TypesInv, HoldsData
      <4>2. data'.sent \in Seqs
          BY <1>1, <2>7, <4>1 DEF FedOn, RelayInv
      <4>3. data'.sent \in Int /\ data.sent \in Int /\ page.acks.pending \in Int
          BY <2>7, <4>1, <4>2, SeqsAreNumbers, AckNumbers DEF FedOn
      <4> QED BY <2>2, <2>7, <4>3 DEF FedOn
    <3> QED BY <2>2, <2>3, <2>7, <3>1 DEF FedOn
  <2>8. \/ data' = data \/ (\E u \in upgrades : AcceptData(u))
        \/ Begun \/ Confirmed \/ Missed \/ Answered \/ FedOn
      BY <1>1, DeliveryGoesOn DEF IsOpen
  <2>9. ASSUME NEW u \in upgrades, AcceptData(u)
        PROVE  /\ Fed' => data'.acked = data'.first \/ data'.acked <= page.acks.last
               /\ page.acks.pending # NoSeq =>
                         /\ Fed' /\ data'.first <= page.acks.pending
                         /\ page.acks.pending <= data'.sent
      BY <1>3, <2>9
  <2> QED BY <2>3, <2>4, <2>5, <2>6, <2>7, <2>8, <2>9
<1>5. CASE \E u \in upgrades : AcceptData(u)
    BY <1>3, <1>5
<1> QED BY <1>1, <1>4, <1>5, DeliveryGoesOn DEF IsOpen

\* The relay has no cause to blame the page, but for what was on its way when a data socket
\* was lost.
LEMMA RelayBlames ==
    ASSUME BaseInv, CursorInv, AttachOnce, AcksOnTheWay, RelayActions PROVE Forgiven
<1>1. 1 \in DOMAIN up \/ up = <<>>
  <2>1. up \in Seq(PageFrame)
      BY DEF BaseInv, TypesInv, Frames
  <2> QED BY <2>1
<1>2. ASSUME up # <<>>, up[1].kind = "attach", up[1].gen = gen, HasData,
             data.state # "awaiting" \/ up[1].cursor > head
      PROVE  FALSE
  <2>1. data.state = "awaiting" /\ up[1].cursor <= head
      BY <1>1, <1>2 DEF AttachOnce, CursorInv
  <2>2. up[1].cursor \in Int /\ head \in Int
      BY <1>1, <1>2, AckNumbers, RelayStep
  <2> QED BY <1>2, <2>1, <2>2
<1>3. ASSUME up # <<>>, up[1].kind = "ack", up[1].gen = gen, IsOpen(data),
             up[1].cursor > data.sent \/ up[1].cursor < data.acked
      PROVE  FALSE
  <2>1. Fed /\ data.acked <= up[1].cursor /\ up[1].cursor <= data.sent
      BY <1>1, <1>3 DEF AcksOnTheWay, AckOf
  <2>2. up[1].cursor \in Int /\ data.acked \in Int /\ data.sent \in Int
      BY <1>1, <1>3, <2>1, AckNumbers
  <2> QED BY <1>3, <2>1, <2>2
<1> QED BY <1>2, <1>3, RelayHears

LEMMA RelayKeepsTalk ==
    ASSUME BaseInv, LinkInv, StreamInv, TalkInv, RelayActions PROVE TalkInv' /\ Forgiven
<1>1. /\ CursorInv /\ GenInv /\ AttachOnce /\ OpeningInv /\ UnusedInv /\ GoneInv
      /\ AcksOnTheWay /\ AcksOfPage
    BY DEF TalkInv
<1>2. CursorInv' /\ GenInv' /\ AttachOnce'
    BY <1>1, RelayCursors, RelayGens, RelayAttaches
<1>3. OpeningInv' /\ UnusedInv' /\ GoneInv'
    BY <1>1, RelayOpening, RelayUnused, RelayGone
<1>4. AcksOnTheWay' /\ AcksOfPage' /\ Forgiven
    BY <1>1, RelayAcksOnTheWay, RelayAcksOfPage, RelayBlames
<1> QED BY <1>2, <1>3, <1>4 DEF TalkInv

\* What is not on the sockets of the page, or about them, is not said by it.
LEMMA RestingKeepsTalk ==
    ASSUME BaseInv, LinkInv, TalkInv,
           UNCHANGED <<control, data, ctlWire, dataWire, up, attaching, head>>,
           C' = C, K' = K, page'.acks = page.acks,
           IsOpen(control) => gen' = gen, sets' \in Int, sets <= sets',
           page'.attempt = "offered" => \/ page'.offer.set = sets + 1
                                        \/ page' = page,
           \A t \in tickets' : t \in tickets \/ t.set = sets + 1,
           Claimed' => Claimed
    PROVE  TalkInv'
<1>0. /\ CursorInv /\ GenInv /\ AttachOnce /\ OpeningInv /\ UnusedInv /\ GoneInv
      /\ AcksOnTheWay /\ AcksOfPage /\ SocketInv /\ AttachInv /\ SetInv /\ RelayTypes
    BY DEF TalkInv, BaseInv, ConnInv, LinkInv, TypesInv
<1>1. up # <<>> => gen' = gen
    BY <1>0 DEF SocketInv
<1>2. \A i \in DOMAIN up : gen' = gen
  <2>1. up = <<>> => DOMAIN up = {}
      OBVIOUS
  <2> QED BY <1>1, <2>1
<1>3. (HoldsControl' <=> HoldsControl) /\ (HoldsData' <=> HoldsData) /\ (Fed' <=> Fed)
    BY DEF HoldsControl, HoldsData, Fed, IsOpen, SameSocket
<1>4. CursorInv'
  <2>1. Behind(head)' <=> Behind(head)
      BY DEF Behind, K
  <2> QED BY <1>0, <2>1 DEF CursorInv
<1>5. GenInv'
  <2>1. ASSUME NEW a \in attaching
        PROVE  a.set <= sets' /\ (page'.attempt = "offered" => a.set # page'.offer.set)
    <3>1. a.set \in Int /\ sets \in Int /\ a.set <= sets
      <4>1. a.set \in Sets
          BY <1>0 DEF RelayTypes
      <4> QED BY <1>0, <4>1, SeqsAreNumbers, LinkNumbers DEF GenInv
    <3>2. a.set <= sets' /\ a.set # sets + 1
        BY <3>1
    <3> QED BY <1>0, <3>2 DEF GenInv
  <2> QED BY <1>0, <1>2, <1>3, <2>1 DEF GenInv
<1>6. AttachOnce'
  <2>1. \A i \in DOMAIN up : (HasData' <=> HasData) /\ gen' = gen
      BY <1>2 DEF HasData
  <2> QED BY <1>0, <2>1 DEF AttachOnce
<1>7. OpeningInv'
    BY <1>0 DEF OpeningInv, Opening, Unspoken, NoStart, StartOf
<1>8. UnusedInv'
  <2>1. ASSUME NEW t \in tickets', t.channel = "data"
        PROVE  /\ control.set = t.set => \A i \in DOMAIN up : up[i].gen # t.gen
               /\ SameSocket(dataWire, t) =>
                     /\ C.data = "opening"
                     /\ \A i \in DOMAIN dataWire.frames : dataWire.frames[i].kind = "refused"
    <3>1. CASE t \in tickets
        BY <1>0, <2>1, <3>1 DEF UnusedInv
    <3>2. CASE t.set = sets + 1
      <4>1. control.set # sets + 1 /\ C.set # sets + 1 /\ sets + 1 # 0
        <5>1. sets \in Nat /\ control.set \in Nat /\ C.set \in Nat
            BY LinkNumbers
        <5>2. control.set <= sets /\ C.set <= sets
            BY <1>0 DEF SetInv
        <5> QED BY <5>1, <5>2
      <4>2. dataWire.set # sets + 1
          BY <4>1, WireOfPage DEF BaseInv
      <4> QED BY <3>2, <4>1, <4>2 DEF SameSocket
    <3> QED BY <2>1, <3>1, <3>2
  <2> QED BY <2>1 DEF UnusedInv
<1>9. GoneInv'
    BY <1>0, <1>3 DEF GoneInv
<1>10. AcksOnTheWay'
  <2>1. \A i \in DOMAIN up : AckOf(i, gen)' <=> AckOf(i, gen)
      BY <1>2 DEF AckOf
  <2> QED BY <1>0, <1>3, <2>1 DEF AcksOnTheWay, IsOpen, AckOf
<1>11. AcksOfPage'
    BY <1>0, <1>3 DEF AcksOfPage, AckOf
<1> QED BY <1>4, <1>5, <1>6, <1>7, <1>8, <1>9, <1>10, <1>11 DEF TalkInv

\* New tickets have a number nobody has seen.
LEMMA ReserveKeepsTalk ==
    ASSUME BaseInv, LinkInv, TalkInv, Reserve, C' = C, K' = K, page'.acks = page.acks,
           page'.offer.set = sets + 1 \/ page' = page
    PROVE  TalkInv' /\ blame' = blame
<1>0. ConnInv /\ RelayTypes /\ RelayInv /\ SetInv
    BY DEF BaseInv, TypesInv, LinkInv
<1>1. /\ UNCHANGED <<upgrades, control, data, attaching, head, wires, blame>>
      /\ sets' = sets + 1 /\ (IsOpen(control) => gen' = gen)
      /\ tickets' = [set : {sets + 1}, channel : {"control", "data"}, gen : {ReservedGen}]
    BY <1>0, ReserveIs
<1>2. UNCHANGED <<control, data, ctlWire, dataWire, up, attaching, head>>
    BY <1>1 DEF wires
<1>3. sets' \in Int /\ sets <= sets' /\ C.set # sets + 1
  <2>1. sets \in Nat /\ C.set \in Nat
      BY LinkNumbers
  <2> QED BY <1>0, <1>1, <2>1 DEF SetInv
<1>4. \A t \in tickets' : t.set = sets + 1
    BY <1>1
<1>5. ~Claimed'
  <2>1. PageData'.set = C.set
      BY DEF PageData
  <2> QED BY <1>3, <1>4, <2>1 DEF Claimed
<1> QED BY <1>1, <1>2, <1>3, <1>4, <1>5, RestingKeepsTalk

LEMMA OthersKeepTalk ==
    ASSUME BaseInv, LinkInv, TalkInv, OtherConnects \/ TicketsLapse \/ UNCHANGED vars
    PROVE  TalkInv' /\ blame' = blame
<1>0. ConnInv /\ SetInv
    BY DEF BaseInv, LinkInv
<1>1. /\ UNCHANGED <<sets, control, data, attaching, head, ctlWire, dataWire, up, page, blame>>
      /\ tickets' \subseteq tickets
    BY DEF OtherConnects, TicketsLapse, TicketsExpire, vars, relayVars, reservations, wires
<1>2. C' = C /\ K' = K /\ PageData' = PageData /\ PageData.set = C.set
    BY <1>1 DEF C, K, PageData
<1>3. IsOpen(control) => gen' = gen
    BY <1>0 DEF OtherConnects, reservations, TicketsLapse, TicketsExpire, vars, relayVars,
                ConnInv, SocketInv
<1>4. sets' \in Int /\ sets <= sets'
  <2>1. sets \in Nat
      BY LinkNumbers
  <2> QED BY <1>1, <2>1
<1>5. \A u \in upgrades' : u \in upgrades \/ u.set # C.set
    BY <1>0 DEF OtherConnects, TicketsLapse, TicketsExpire, vars, relayVars, wires, SetInv
<1>6. Claimed' => Claimed
    BY <1>1, <1>2, <1>5 DEF Claimed
<1> QED BY <1>1, <1>2, <1>3, <1>4, <1>6, RestingKeepsTalk

LEMMA StepKeepsTalk ==
    ASSUME BaseInv, LinkInv, StreamInv, TalkInv, [Next]_vars PROVE TalkInv' /\ Forgiven
<1>0. PageInv /\ Frames /\ RelayTypes
    BY DEF BaseInv, TypesInv
<1>1. blame' = blame => Forgiven
    BY DEF Forgiven
<1>2. CASE PageActions
  <2>1. Behind(head) /\ head \in Int
      BY <1>0, SeqsAreNumbers DEF TalkInv, CursorInv, RelayTypes
  <2>2. PICK q, ctl, dat : PageBecomes(q, ctl, dat) /\ Outcome(q, ctl, dat, head)
      BY <1>0, <1>2, <2>1, PageOutcome
  <2> QED BY <1>1, <2>2, PageKeepsTalk
<1>3. CASE RelayActions
    BY <1>3, RelayKeepsTalk
<1>4. CASE ReserveSet
  <2>1. /\ Reserve
        /\ page' = [page EXCEPT !.attempt = "offered",
                                !.offer = [set |-> sets + 1, gen |-> ReservedGen]]
      BY <1>4 DEF ReserveSet
  <2>2. page \in Page
      BY <1>0 DEF PageInv, Sound, PageShape
  <2>3. C' = C /\ K' = K /\ page'.acks = page.acks /\ page'.offer.set = sets + 1
      BY <2>1, <2>2 DEF Page, C, K
  <2> QED BY <1>1, <2>1, <2>3, ReserveKeepsTalk
<1>5. CASE OtherReserves
  <2>1. Reserve /\ page' = page /\ C' = C /\ K' = K
      BY <1>5 DEF OtherReserves, C, K
  <2> QED BY <1>1, <2>1, ReserveKeepsTalk
<1>6. CASE OtherConnects \/ TicketsLapse \/ UNCHANGED vars
    BY <1>1, <1>6, OthersKeepTalk
<1> QED BY <1>2, <1>3, <1>4, <1>5, <1>6, StepIs

LEMMA InitIsTalk == Init => TalkInv
<1> SUFFICES ASSUME Init PROVE TalkInv
    OBVIOUS
<1>1. /\ tickets = {} /\ attaching = {} /\ head = 0 /\ up = <<>>
      /\ data = NoSocket /\ ctlWire = NoWire /\ dataWire = NoWire /\ C = NoConnection
    BY DEF Init, LinkInit, RelayConnectionsInit, NewPage, C
<1>2. ~C.current /\ ~IsOpen(data)
    BY <1>1 DEF NoConnection, IsOpen
<1>3. DOMAIN ctlWire.frames = {} /\ DOMAIN dataWire.frames = {} /\ DOMAIN up = {}
    BY <1>1 DEF NoWire
<1>4. CursorInv
  <2>1. K.cursor = NoSeq /\ K.received = NoSeq /\ K.pending = <<>> /\ NoSeq <= head
      BY <1>1 DEF Init, NewPage, K, NoSeq
  <2>2. DOMAIN K.pending = {}
      BY <2>1
  <2> QED BY <1>3, <2>1, <2>2 DEF CursorInv, Behind, K
<1>5. GenInv /\ AttachOnce
    BY <1>1, <1>3 DEF GenInv, AttachOnce
<1>6. OpeningInv /\ UnusedInv /\ GoneInv
    BY <1>1, <1>2 DEF OpeningInv, Opening, UnusedInv, GoneInv
<1>7. AcksOnTheWay /\ AcksOfPage
    BY <1>2 DEF AcksOnTheWay, AcksOfPage
<1> QED BY <1>4, <1>5, <1>6, <1>7 DEF TalkInv

LEMMA TalkAlways ==
    Spec => [](BaseInv /\ LinkInv /\ StreamInv /\ TalkInv /\ PageKeepsProtocol)
<1>1. Init => BaseInv /\ LinkInv /\ StreamInv /\ TalkInv /\ PageKeepsProtocol
  <2>1. ASSUME Init PROVE StreamInv /\ PageKeepsProtocol
    <3>1. ~C.current /\ blame = "none"
        BY <2>1 DEF Init, RelayConnectionsInit, NewPage, NoConnection, C
    <3> QED BY <3>1 DEF StreamInv, PageKeepsProtocol
  <2> QED BY <2>1, InitIsBase, InitIsLink, InitIsTalk
<1>2. ASSUME BaseInv, LinkInv, StreamInv, TalkInv, PageKeepsProtocol, [Next]_vars
      PROVE  BaseInv' /\ LinkInv' /\ StreamInv' /\ TalkInv' /\ PageKeepsProtocol'
  <2>1. TalkInv' /\ Forgiven
      BY <1>2, StepKeepsTalk
  <2>2. PageKeepsProtocol'
      BY <1>2, <2>1 DEF PageKeepsProtocol, Forgiven
  <2> QED BY <1>2, <2>1, <2>2, StepKeepsBase, StepKeepsLink, StepKeepsStream
<1> QED BY <1>1, <1>2, PTL DEF Spec

\* The relay never closes the page's socket for a cursor ahead of what it has sent, for a
\* second attach of a delivery, or for an attach ahead of the session's head: whatever the
\* page does, and however its sockets are lost, reset or replaced, what it says on them is
\* what the relay is prepared to hear.
THEOREM ProtocolIsKept == Spec => []PageKeepsProtocol
<1>1. BaseInv /\ LinkInv /\ StreamInv /\ TalkInv /\ PageKeepsProtocol => PageKeepsProtocol
    OBVIOUS
<1> QED BY <1>1, TalkAlways, PTL

-----------------------------------------------------------------------------
(* What the page has heard of the host *)

\* A callback says nothing of the host, unless it hears a frame that does.
Silent(p, q) == DOMAIN q = DOMAIN p /\ q.hostOnline = p.hostOnline
Voiced(p) == "hostOnline" \in DOMAIN p

LEMMA ConnectingIsSilent ==
    ASSUME NEW p, Voiced(p)
    PROVE  /\ Silent(p, ScheduleReconnect(p)) /\ Silent(p, Disconnect(p))
           /\ Silent(p, FailFullConnection(p)) /\ Silent(p, StartFullConnection(p))
           /\ Silent(p, Restart(p)) /\ Silent(p, ScheduleSnapshotRetry(p))
<1>1. ASSUME NEW r, Voiced(r)
      PROVE  /\ Silent(r, ScheduleReconnect(r)) /\ Silent(r, Disconnect(r))
             /\ Silent(r, StartFullConnection(r)) /\ Silent(r, ScheduleSnapshotRetry(r))
  <2>1. Silent(r, ScheduleReconnect(r))
      BY <1>1 DEF ScheduleReconnect, Silent, Voiced
  <2>2. Silent(r, Disconnect(r))
      BY <1>1 DEF Disconnect, Silent, Voiced
  <2>3. Silent(r, StartFullConnection(r))
      BY <1>1 DEF StartFullConnection, Silent, Voiced
  <2>4. Silent(r, ScheduleSnapshotRetry(r))
      BY <1>1 DEF ScheduleSnapshotRetry, Silent, Voiced
  <2> QED BY <2>1, <2>2, <2>3, <2>4
<1>2. Silent(p, FailFullConnection(p))
    BY <1>1 DEF FailFullConnection, Silent, Voiced
<1>3. Silent(p, Restart(p))
    BY <1>1, <1>2 DEF Restart, Silent, Voiced
<1> QED BY <1>1, <1>2, <1>3

LEMMA EndingIsSilent ==
    ASSUME NEW p, Voiced(p)
    PROVE  Silent(p, ReconnectNow(p)) /\ Silent(p, Close(p)) /\ Silent(p, AuthenticationFails(p))
<1>1. Silent(p, Disconnect(p))
    BY ConnectingIsSilent
<1>2. Silent(p, ReconnectNow(p))
  <2> DEFINE w == [p EXCEPT !.blocked = FALSE, !.retry = FALSE, !.reconnect = FALSE]
  <2>1. Silent(p, w) /\ Voiced(w)
      BY DEF Silent, Voiced
  <2> QED BY <2>1, ConnectingIsSilent DEF ReconnectNow, Silent
<1>3. Silent(p, Close(p))
    BY <1>1 DEF Close, Silent, Voiced
<1>4. Silent(p, AuthenticationFails(p))
    BY <1>1 DEF AuthenticationFails, Silent, Voiced
<1> QED BY <1>2, <1>3, <1>4

LEMMA SendingIsSilent ==
    ASSUME NEW p, Voiced(p)
    PROVE  /\ \A frame : Silent(p, Send(p, frame))
           /\ Silent(p, Flush(p)) /\ Silent(p, SendAttach(p))
           /\ \A cursor : Silent(p, Acknowledge(p, cursor))
<1>1. ASSUME NEW r, Voiced(r), NEW frame PROVE Silent(r, Send(r, frame))
    BY <1>1, ConnectingIsSilent DEF Send, Silent, Voiced
<1>2. ASSUME NEW r, Voiced(r) PROVE Silent(r, Flush(r))
  <2> DEFINE idle == [r EXCEPT !.acks.pending = NoSeq, !.acks.timer = FALSE]
             sent == Send(idle, [kind |-> "ack", gen |-> r.connection.gen,
                                 cursor |-> r.acks.pending])
             last == [sent EXCEPT !.acks.last = r.acks.pending]
  <2>1. Silent(r, idle) /\ Voiced(idle)
      BY <1>2 DEF Silent, Voiced
  <2>2. Silent(idle, sent)
      BY <1>1, <2>1
  <2>3. Silent(sent, last)
      BY <2>1, <2>2 DEF Silent, Voiced
  <2>4. Flush(r) \in {idle, last, sent}
      BY DEF Flush
  <2> HIDE DEF idle, sent, last
  <2> QED BY <2>1, <2>2, <2>3, <2>4 DEF Silent
<1>3. Silent(p, SendAttach(p))
  <2> DEFINE sent == Send(p, [kind |-> "attach", gen |-> p.connection.gen,
                              cursor |-> p.coordinator.cursor])
             watched == [sent EXCEPT !.acks = [NoAcks EXCEPT !.last = p.coordinator.cursor],
                                     !.watchdog = TRUE]
  <2>1. Silent(p, sent)
      BY <1>1
  <2>2. Silent(sent, watched)
      BY <2>1 DEF Silent, Voiced
  <2>3. SendAttach(p) \in {sent, watched}
      BY DEF SendAttach
  <2> HIDE DEF sent, watched
  <2> QED BY <2>1, <2>2, <2>3 DEF Silent
<1>4. ASSUME NEW cursor PROVE Silent(p, Acknowledge(p, cursor))
  <2> DEFINE queued == [p EXCEPT !.acks.pending = cursor]
             timed == [queued EXCEPT !.acks.timer = TRUE]
  <2>1. Silent(p, queued) /\ Voiced(queued) /\ Silent(queued, timed)
      BY DEF Silent, Voiced
  <2>2. Acknowledge(p, cursor) \in {p, FailFullConnection(p), Flush(queued), timed}
      BY DEF Acknowledge
  <2> HIDE DEF queued, timed
  <2> QED BY <1>2, <2>1, <2>2, ConnectingIsSilent DEF Silent
<1> QED BY <1>1, <1>2, <1>3, <1>4

LEMMA DeliveringIsSilent ==
    ASSUME NEW p, Voiced(p)
    PROVE  /\ \A g : Silent(p, FenceDeliveryGeneration(p, g))
           /\ Silent(p, SyncDeliveryState(p))
           /\ \A reason : Silent(p, RequestResync(p, reason))
           /\ Silent(p, TryCommit(p))
           /\ \A f : Silent(p, AcceptFrame(p, f))
<1>1. \A g : Silent(p, FenceDeliveryGeneration(p, g))
    BY DEF FenceDeliveryGeneration, Silent, Voiced
<1>2. Silent(p, SyncDeliveryState(p))
    BY DEF SyncDeliveryState, Silent, Voiced
<1>3. ASSUME NEW reason PROVE Silent(p, RequestResync(p, reason))
  <2> DEFINE w == [p EXCEPT !.coordinator = NoDelivery(@, "resyncing")]
  <2>1. Silent(p, w) /\ Voiced(w)
      BY DEF Silent, Voiced
  <2>2. RequestResync(p, reason) \in {ScheduleSnapshotRetry(w), FailFullConnection(w)}
      BY DEF RequestResync
  <2> HIDE DEF w
  <2> QED BY <2>1, <2>2, ConnectingIsSilent DEF Silent
<1>4. ASSUME NEW r, Voiced(r) PROVE Silent(r, TryCommit(r))
    BY <1>4 DEF TryCommit, Silent, Voiced
<1>5. ASSUME NEW f PROVE Silent(p, AcceptFrame(p, f))
  <2> DEFINE at == [p EXCEPT !.coordinator.received = f.seq,
                             !.coordinator.cursor = IF p.coordinator.candidate = "live"
                                                    THEN f.seq ELSE @]
             done == [p EXCEPT !.coordinator.committed = TRUE]
             late == [p EXCEPT !.coordinator.pending = Append(@, f)]
  <2>1. /\ Silent(p, at) /\ Voiced(at) /\ Silent(p, done) /\ Voiced(done) /\ Silent(p, late)
      BY DEF Silent, Voiced
  <2>2. AcceptFrame(p, f) \in {p, late, Acknowledge(at, f.seq),
                               TryCommit(Acknowledge(done, f.seq)), RequestResync(p, "journal-gap")}
      BY DEF AcceptFrame
  <2> HIDE DEF at, done, late
  <2>3. Silent(at, Acknowledge(at, f.seq)) /\ Silent(done, Acknowledge(done, f.seq))
      BY <2>1, SendingIsSilent
  <2>4. Voiced(Acknowledge(done, f.seq))
      BY <2>1, <2>3 DEF Silent, Voiced
  <2>5. Silent(Acknowledge(done, f.seq), TryCommit(Acknowledge(done, f.seq)))
      BY <1>4, <2>4
  <2> QED BY <1>3, <2>1, <2>2, <2>3, <2>5 DEF Silent
<1> QED BY <1>1, <1>2, <1>3, <1>4, <1>5

LEMMA ChangesAreSilent ==
    ASSUME NEW p, Voiced(p)
    PROVE  /\ Silent(p, FinishRestore(p)) /\ Silent(p, RestoreFails(p))
           /\ Silent(p, RestoreDeadline(p))
           /\ Silent(p, ReconnectTimer(p)) /\ Silent(p, RetryTimer(p)) /\ Silent(p, GraceTimer(p))
           /\ Silent(p, WatchdogTimer(p)) /\ Silent(p, AckTimer(p))
           /\ Silent(p, Activate(p)) /\ Silent(p, ControlOpen(p)) /\ Silent(p, DataOpen(p))
           /\ \A why : Silent(p, ControlClosed(p, why))
           /\ Silent(p, DataClosed(p)) /\ Silent(p, DataRefused(p))
           /\ \A g, expired : Silent(p, HandleResyncRequired(p, g, expired))
<1>1. ASSUME NEW r, Silent(p, r)
      PROVE  /\ Voiced(r) /\ Silent(p, FailFullConnection(r)) /\ Silent(p, Disconnect(r))
             /\ Silent(p, StartFullConnection(r)) /\ Silent(p, Restart(r))
             /\ Silent(p, Flush(r)) /\ Silent(p, SendAttach(r))
             /\ \A g : Silent(p, FenceDeliveryGeneration(r, g))
             /\ Silent(p, SyncDeliveryState(r)) /\ Silent(p, TryCommit(r))
             /\ \A reason : Silent(p, RequestResync(r, reason))
  <2>1. Voiced(r)
      BY <1>1 DEF Silent, Voiced
  <2> QED BY <1>1, <2>1, ConnectingIsSilent, SendingIsSilent, DeliveringIsSilent DEF Silent
<1>2. Silent(p, p)
    BY DEF Silent
<1>3. Silent(p, FinishRestore(p)) /\ Silent(p, RestoreFails(p)) /\ Silent(p, RestoreDeadline(p))
  <2> DEFINE w == [p EXCEPT !.coordinator.candidate = "restored"]
  <2>1. Silent(p, w)
      BY DEF Silent, Voiced
  <2> HIDE DEF w
  <2>2. Silent(p, SyncDeliveryState(TryCommit(w)))
      BY <1>1, <2>1
  <2>3. FinishRestore(p) = SyncDeliveryState(TryCommit(w))
      BY DEF FinishRestore, w
  <2> QED BY <1>1, <1>2, <2>2, <2>3 DEF RestoreFails, RestoreDeadline
<1>4. /\ Silent(p, ReconnectTimer(p)) /\ Silent(p, RetryTimer(p)) /\ Silent(p, GraceTimer(p))
      /\ Silent(p, WatchdogTimer(p)) /\ Silent(p, AckTimer(p))
  <2>1. /\ Silent(p, [p EXCEPT !.reconnect = FALSE]) /\ Silent(p, [p EXCEPT !.retry = FALSE])
        /\ Silent(p, [p EXCEPT !.grace = FALSE]) /\ Silent(p, [p EXCEPT !.watchdog = FALSE])
        /\ Silent(p, [p EXCEPT !.acks.timer = FALSE])
      BY DEF Silent, Voiced
  <2> QED BY <1>1, <1>2, <2>1
          DEF ReconnectTimer, RetryTimer, GraceTimer, WatchdogTimer, AckTimer
<1>5. Silent(p, Activate(p))
  <2>1. Silent(p, FenceDeliveryGeneration(p, p.offer.gen))
      BY <1>1, <1>2
  <2> QED BY <2>1 DEF Activate, Silent, Voiced
<1>6. Silent(p, ControlOpen(p)) /\ Silent(p, DataClosed(p))
    BY DEF ControlOpen, DataClosed, Silent, Voiced
<1>7. Silent(p, DataOpen(p))
  <2>1. Silent(p, [p EXCEPT !.connection.data = "open", !.attempt = "none",
                            !.phase = "attaching"])
      BY DEF Silent, Voiced
  <2> QED BY <1>1, <2>1 DEF DataOpen
<1>8. ASSUME NEW why PROVE Silent(p, ControlClosed(p, why))
    BY <1>1, <1>2 DEF ControlClosed, Silent, Voiced
<1>9. Silent(p, DataRefused(p))
    BY <1>1, <1>2 DEF DataRefused, Silent, Voiced
<1>10. ASSUME NEW g, NEW expired PROVE Silent(p, HandleResyncRequired(p, g, expired))
  <2> DEFINE w == [p EXCEPT !.retry = FALSE, !.watchdog = FALSE, !.grace = FALSE]
             s == SyncDeliveryState(FenceDeliveryGeneration(w, g))
             t == [s EXCEPT !.connection.gen = g, !.connection.data = "opening",
                            !.acks = NoAcks, !.phase = "reconnecting"]
  <2>1. Silent(p, w)
      BY DEF Silent, Voiced
  <2>2. Silent(p, s)
    <3> HIDE DEF w
    <3> QED BY <1>1, <2>1
  <2>3. Silent(p, t)
    <3> HIDE DEF s
    <3> QED BY <2>2 DEF Silent, Voiced
  <2>4. HandleResyncRequired(p, g, expired) \in {FailFullConnection(p), FailFullConnection(s), t}
    <3> HIDE DEF s
    <3>1. HandleResyncRequired(p, g, expired) \in {FailFullConnection(p), ReplaceData(s, g)}
        BY DEF HandleResyncRequired, s
    <3> QED BY <3>1 DEF ReplaceData
  <2> HIDE DEF s, t
  <2> QED BY <1>1, <1>2, <2>2, <2>3, <2>4
<1> QED BY <1>3, <1>4, <1>5, <1>6, <1>7, <1>8, <1>9, <1>10

\* What the page has heard of the host, in a step of its own.
HostHeard ==
    C'.set = C.set =>
        \/ ctlWire' = ctlWire /\ page'.hostOnline = page.hostOnline
        \/ /\ Hears
           /\ LET kind == Head(ctlWire.frames).kind IN
              /\ kind \notin {"start", "welcome", "offline"} =>
                    page'.hostOnline = page.hostOnline
              /\ kind = "offline" /\ C.current => ~page'.hostOnline

LEMMA PageHears ==
    ASSUME PageInv, Frames, PageActions PROVE HostHeard
<1>0. Voiced(page)
    BY DEF PageInv, Sound, PageShape, Page, Voiced
<1>1. ASSUME NEW q, NEW ctl, NEW dat, PageBecomes(q, ctl, dat)
      PROVE  /\ page' = [q EXCEPT !.out = <<>>]
             /\ C'.set = C.set => ctlWire' = ctl
  <2>1. /\ page' = [q EXCEPT !.out = <<>>]
        /\ q.connection.set = page.connection.set => ctlWire' = ctl
      BY <1>1 DEF PageBecomes
  <2>2. C' = q.connection
      BY <2>1 DEF C
  <2> QED BY <2>1, <2>2 DEF C
<1>2. ASSUME NEW q, Silent(page, q), Runs(q) PROVE HostHeard
  <2>1. page' = [q EXCEPT !.out = <<>>] /\ (C'.set = C.set => ctlWire' = ctlWire)
      BY <1>1, <1>2 DEF Runs
  <2>2. page'.hostOnline = page.hostOnline
      BY <1>0, <1>2, <2>1 DEF Silent, Voiced
  <2> QED BY <2>1, <2>2 DEF HostHeard
<1>3. Silent(page, StartFullConnection(page)) /\ Silent(page, FailFullConnection(page))
    BY <1>0, ConnectingIsSilent
<1>4. /\ Silent(page, ReconnectNow(page)) /\ Silent(page, Close(page))
      /\ Silent(page, AuthenticationFails(page))
    BY <1>0, EndingIsSilent
<1>5. CASE \/ Begin \/ ActivateConnection \/ ReservationFails \/ ReservationRefused
           \/ Heartbeats \/ UserReconnects \/ UserCloses
  <2>1. Silent(page, Activate(page))
      BY <1>0, ChangesAreSilent
  <2> QED BY <1>2, <1>3, <1>4, <1>5, <2>1
          DEF Begin, ActivateConnection, ReservationFails, ReservationRefused, Heartbeats,
              HeartbeatFails, UserReconnects, UserCloses
<1>6. CASE Waits \/ Reconnects \/ Retries \/ RestoreEnds \/ RestoreErrs
    BY <1>0, <1>2, <1>6, ChangesAreSilent
       DEF Waits, Acknowledges, GraceEnds, WatchdogFires, RestoreLate, Reconnects, Retries,
           RestoreEnds, RestoreErrs
<1>7. CASE ControlSeenClosing
  <2>1. Silent(page, [page EXCEPT !.connection.control = "closing"])
      BY <1>0 DEF Silent, Voiced
  <2> QED BY <1>2, <1>7, <2>1 DEF ControlSeenClosing
<1>8. CASE DataArrives
  <2> DEFINE f == Head(dataWire.frames)
             q == DataEvent(page, f)
  <2>1. q \in {page, DataOpen(page), DataRefused(page), DataClosed(page),
               SyncDeliveryState(AcceptFrame(page, f))}
    <3> HIDE DEF f
    <3> QED BY DEF DataEvent
  <2> HIDE DEF f
  <2>2. Silent(page, SyncDeliveryState(AcceptFrame(page, f)))
    <3>1. Silent(page, AcceptFrame(page, f))
        BY <1>0, DeliveringIsSilent
    <3>2. Voiced(AcceptFrame(page, f))
        BY <1>0, <3>1 DEF Silent, Voiced
    <3> QED BY <3>1, <3>2, DeliveringIsSilent DEF Silent
  <2>3. PageBecomes(q, ctlWire, Untold(dataWire))
      BY <1>8 DEF DataArrives, f
  <2> HIDE DEF q
  <2>4. Silent(page, page)
      BY DEF Silent
  <2>5. Silent(page, q)
      BY <1>0, <2>1, <2>2, <2>4, ChangesAreSilent
  <2>6. page' = [q EXCEPT !.out = <<>>] /\ (C'.set = C.set => ctlWire' = ctlWire)
      BY <1>1, <2>3
  <2>7. page'.hostOnline = page.hostOnline
      BY <1>0, <2>5, <2>6 DEF Silent, Voiced
  <2> QED BY <2>6, <2>7 DEF HostHeard
<1>9. ASSUME NEW expired \in BOOLEAN, ControlArrives(expired) PROVE HostHeard
  <2> DEFINE f == Head(ctlWire.frames)
             q == ControlEvent(page, f, expired)
  <2>1. PageBecomes(q, Untold(ctlWire), dataWire) /\ ctlWire.frames # <<>>
      BY <1>9 DEF ControlArrives
  <2>2. f \in ControlFrame
      BY <2>1 DEF Frames
  <2> HIDE DEF f
  <2>3. f.kind \notin {"start", "welcome", "offline"} =>
           q \in {page, ControlOpen(page), FailFullConnection(page), ControlClosed(page, f.why),
                  HandleResyncRequired(page, f.gen, expired)}
      BY <2>2 DEF ControlEvent, ControlFrame
  <2>4. f.kind = "offline" /\ C.current => q = HostOffline(page)
      BY DEF ControlEvent, C
  <2> HIDE DEF q
  <2>5. page' = [q EXCEPT !.out = <<>>] /\ (C'.set = C.set => ctlWire' = Untold(ctlWire))
      BY <1>1, <2>1
  <2>6. Silent(page, page)
      BY DEF Silent
  <2>7. f.kind \notin {"start", "welcome", "offline"} => page'.hostOnline = page.hostOnline
    <3>1. f.kind \notin {"start", "welcome", "offline"} => Silent(page, q)
        BY <1>0, <1>3, <2>3, <2>6, ChangesAreSilent
    <3> QED BY <1>0, <2>5, <3>1 DEF Silent, Voiced
  <2>8. f.kind = "offline" /\ C.current => ~page'.hostOnline
      BY <1>0, <2>4, <2>5 DEF HostOffline, Voiced
  <2> QED BY <2>1, <2>5, <2>7, <2>8 DEF HostHeard, Hears, f
<1> QED BY <1>5, <1>6, <1>7, <1>8, <1>9 DEF PageActions, Sockets

\* Until it is fed again, a page whose synced data socket has lost its host is told so after
\* all that it is told otherwise.
LastWord ==
    \/ \E i \in DOMAIN ctlWire.frames :
          /\ ctlWire.frames[i].kind = "offline"
          /\ \A j \in DOMAIN ctlWire.frames :
                j > i => ctlWire.frames[j].kind \notin {"start", "welcome"}
    \/ /\ ~page.hostOnline
       /\ \A j \in DOMAIN ctlWire.frames : ctlWire.frames[j].kind \notin {"start", "welcome"}
WordInv ==
    C.current /\ HoldsControl /\ IsOpen(data) /\ data.state = "demoted" => LastWord

\* What else is said leaves the last word, and to say it again makes it the last.
LEMMA WordStays ==
    ASSUME BaseInv, NEW f \in ControlFrame, ctlWire' = Onto(ctlWire, f),
           \/ f.kind = "offline"
           \/ LastWord /\ f.kind \notin {"start", "welcome"} /\ page' = page
    PROVE  LastWord'
<1> DEFINE n == Len(ctlWire.frames) + 1
<1>1. /\ n \in DOMAIN ctlWire'.frames /\ ctlWire'.frames[n] = f
      /\ \A j \in DOMAIN ctlWire'.frames : j \in Int /\ ~(j > n)
      /\ \A j \in DOMAIN ctlWire'.frames :
            \/ j \in DOMAIN ctlWire.frames /\ ctlWire'.frames[j] = ctlWire.frames[j]
            \/ ctlWire'.frames[j] = f
      /\ \A j \in DOMAIN ctlWire.frames :
            j \in DOMAIN ctlWire'.frames /\ ctlWire'.frames[j] = ctlWire.frames[j]
    BY WiresTyped, FramesGrow
<1> HIDE DEF n
<1>2. CASE f.kind = "offline"
    BY <1>1, <1>2 DEF LastWord
<1>3. CASE LastWord /\ f.kind \notin {"start", "welcome"} /\ page' = page
    BY <1>1, <1>3 DEF LastWord
<1> QED BY <1>2, <1>3

LEMMA PageKeepsWord ==
    ASSUME BaseInv, LinkInv, WordInv, PageActions PROVE WordInv'
<1>0. PageInv /\ Frames /\ SetInv
    BY DEF BaseInv, TypesInv, LinkInv
<1>1. PICK q, ctl, dat : PageBecomes(q, ctl, dat) /\ Outcome(q, ctl, dat, MaxSeq)
    BY <1>0, BehindTheBound, PageOutcome
<1>2. PageMoves /\ HostHeard
    BY <1>0, <1>1, PageMovesAlong, PageHears DEF LinkInv
<1>3. control' = control /\ data' = data
    BY <1>1 DEF PageBecomes
<1> SUFFICES ASSUME C'.current, HoldsControl', IsOpen(data'), data'.state = "demoted"
             PROVE  LastWord'
    BY DEF WordInv
<1>4. ~Leaves
    BY DEF Leaves, NoConnection
<1>5. ~Joins
  <2>1. ASSUME Joins PROVE FALSE
    <3>1. ctlWire'.set = page.offer.set /\ page.attempt = "offered"
        BY <2>1, FreshIs DEF Joins
    <3> QED BY <1>0, <1>3, <3>1 DEF SetInv, HoldsControl
  <2> QED BY <2>1
<1>6. C.current /\ C'.set = C.set
    BY <1>2, <1>4, <1>5
       DEF PageMoves, Lingers, Remains, ControlOpens, DataOpens, DataDrops, Renewed, GoesOn
<1>7. CASE ctlWire' = ctlWire /\ page'.hostOnline = page.hostOnline
  <2>1. LastWord
      BY <1>3, <1>6, <1>7 DEF WordInv, HoldsControl, IsOpen
  <2> QED BY <1>7, <2>1 DEF LastWord
<1>8. CASE Hears
  <2>1. /\ ctlWire.frames # <<>> /\ ctlWire' = Untold(ctlWire)
        /\ ctlWire'.set = ctlWire.set /\ ctlWire'.frames = Tail(ctlWire.frames)
        /\ ctlWire.frames \in Seq(ControlFrame)
      BY <1>8, WiresTyped DEF Hears, Untold
  <2>2. /\ \A j \in DOMAIN ctlWire'.frames :
              j \in Int /\ j + 1 \in DOMAIN ctlWire.frames
              /\ ctlWire'.frames[j] = ctlWire.frames[j + 1]
        /\ \A i \in DOMAIN ctlWire.frames :
              i \in Int /\ (i # 1 => i - 1 \in DOMAIN ctlWire'.frames /\ i > 1)
        /\ 1 \in DOMAIN ctlWire.frames /\ Head(ctlWire.frames) = ctlWire.frames[1]
      BY <2>1
  <2>3. LastWord
      BY <1>3, <1>6, <2>1 DEF WordInv, HoldsControl, IsOpen
  <2>4. /\ Head(ctlWire.frames).kind \notin {"start", "welcome", "offline"} =>
              page'.hostOnline = page.hostOnline
        /\ Head(ctlWire.frames).kind = "offline" => ~page'.hostOnline
    <3>1. ctlWire' # ctlWire
      <4>1. \A fs \in Seq(ControlFrame) : fs # <<>> => Len(Tail(fs)) # Len(fs)
          OBVIOUS
      <4> QED BY <2>1, <4>1
    <3> QED BY <1>2, <1>6, <3>1 DEF HostHeard
  <2>5. ASSUME NEW i \in DOMAIN ctlWire.frames, ctlWire.frames[i].kind = "offline",
               \A j \in DOMAIN ctlWire.frames :
                  j > i => ctlWire.frames[j].kind \notin {"start", "welcome"}
        PROVE  LastWord'
    <3>1. CASE i = 1
      <4>1. ~page'.hostOnline
          BY <2>2, <2>4, <2>5, <3>1
      <4>2. \A j \in DOMAIN ctlWire'.frames : ctlWire'.frames[j].kind \notin {"start", "welcome"}
        <5>1. ASSUME NEW j \in DOMAIN ctlWire'.frames
              PROVE  ctlWire'.frames[j].kind \notin {"start", "welcome"}
          <6>1. j + 1 > 1
              BY <2>1, <5>1
          <6> QED BY <2>2, <2>5, <3>1, <6>1
        <5> QED BY <5>1
      <4> QED BY <4>1, <4>2 DEF LastWord
    <3>2. CASE i # 1
      <4>1. i - 1 \in DOMAIN ctlWire'.frames /\ ctlWire'.frames[i - 1].kind = "offline"
        <5>1. i - 1 \in DOMAIN ctlWire'.frames /\ (i - 1) + 1 = i
            BY <2>2, <3>2
        <5> QED BY <2>2, <2>5, <5>1
      <4>2. ASSUME NEW j \in DOMAIN ctlWire'.frames, j > i - 1
            PROVE  ctlWire'.frames[j].kind \notin {"start", "welcome"}
        <5>1. j + 1 > i
            BY <2>2, <4>2
        <5> QED BY <2>2, <2>5, <5>1
      <4> QED BY <4>1, <4>2 DEF LastWord
    <3> QED BY <3>1, <3>2
  <2>6. ASSUME ~page.hostOnline,
               \A j \in DOMAIN ctlWire.frames : ctlWire.frames[j].kind \notin {"start", "welcome"}
        PROVE  LastWord'
    <3>1. ~page'.hostOnline
        BY <2>2, <2>4, <2>6
    <3> QED BY <2>2, <2>6, <3>1 DEF LastWord
  <2> QED BY <2>3, <2>5, <2>6 DEF LastWord
<1> QED BY <1>2, <1>6, <1>7, <1>8 DEF HostHeard

LEMMA RelayKeepsWord ==
    ASSUME BaseInv, WordInv, RelayActions PROVE WordInv'
<1>0. ConnInv /\ AttachInv /\ Frames /\ RelayTypes /\ RelayInv
    BY DEF BaseInv, TypesInv, ConnInv
<1>1. SocketStep /\ page' = page /\ C' = C
    BY <1>0, RelayStepIs DEF C
<1> SUFFICES ASSUME C.current, HoldsControl', IsOpen(data'), data'.state = "demoted"
             PROVE  LastWord'
    BY <1>1 DEF WordInv
<1>2. IsOpen(data) => data \in Data
    BY <1>0 DEF RelayTypes, IsOpen
<1>3. ctlWire'.set = ctlWire.set
    BY <1>0, <1>1, RelayAddsFrames
<1>4. ASSUME HoldsControl, IsOpen(data), data.state = "demoted", ctlWire' = ctlWire
      PROVE  LastWord'
    BY <1>1, <1>4 DEF WordInv, LastWord
<1>5. CASE Closes
    BY <1>4, <1>5 DEF Closes, HoldsControl, IsOpen
<1>6. CASE Renews
    BY <1>6 DEF Renews, CloseData, IsOpen
<1>7. CASE Attaches
  <2>1. data \in Data
      BY <1>0, <1>2, <1>7, Bounds
         DEF Attaches, HasData, SameSocket, IsOpen, NoSocket, ConnInv, SocketInv, Control, Sets
  <2>2. PICK cursor \in MaybeSeqs : AttachData(cursor)
      BY <1>7 DEF Attaches
  <2>3. data' = [data EXCEPT !.state = IF host THEN "catching" ELSE "missed",
                             !.first = cursor, !.acked = cursor, !.sent = cursor]
      BY <2>2 DEF AttachData
  <2> QED BY <2>1, <2>3 DEF Data
<1>8. CASE Acknowledged
  <2>1. PICK cursor \in MaybeSeqs : data' = [data EXCEPT !.acked = cursor]
      BY <1>8 DEF Acknowledged
  <2>2. IsOpen(data) /\ control' = control /\ ctlWire' = ctlWire
      BY <1>8 DEF Acknowledged
  <2>3. data'.state = data.state
      BY <1>2, <2>1, <2>2 DEF Data
  <2> QED BY <1>4, <2>2, <2>3 DEF HoldsControl
<1>9. CASE HostGone
  <2>1. control' = control /\ ctlWire' = ToControl(Frame("offline"))
      BY <1>9 DEF HostGone, reservations
  <2>2. ctlWire' = Onto(ctlWire, Frame("offline"))
      BY <1>3, <2>1 DEF ToControl, HoldsControl
  <2> QED BY <2>2, SentFrames, WordStays DEF Frame
<1>10. CASE Rises
    BY <1>4, <1>10 DEF Rises, HoldsControl
<1>11. ASSUME NEW mode \in {"warm", "snapshot"}, NEW cut \in Seqs, StartRecovery(mode, cut)
       PROVE  LastWord'
  <2>1. /\ IsOpen(data)
        /\ data' = [data EXCEPT !.state = "pinned", !.first = cut, !.acked = cut, !.sent = cut,
                                !.commit = head]
      BY <1>11 DEF StartRecovery
  <2> QED BY <1>2, <2>1 DEF Data
<1>12. CASE Replay \/ Output
  <2>1. \/ data' = data
        \/ /\ IsOpen(data) /\ data.state \in {"pinned", "synced"}
           /\ \/ \E n : data' = [data EXCEPT !.sent = n]
              \/ data' = [data EXCEPT !.state = "synced"]
      BY <1>12 DEF Replay, Output
  <2>2. data' = data
      BY <1>2, <2>1 DEF Data
  <2>3. control' = control /\ ctlWire' = ctlWire
      BY <1>12 DEF Replay, Output
  <2> QED BY <1>4, <2>2, <2>3 DEF HoldsControl
<1>13. ASSUME NEW u \in upgrades, AcceptControl(u) \/ AcceptData(u) PROVE LastWord'
    BY <1>13 DEF AcceptControl, AcceptData, CloseData, IsOpen
<1>14. ASSUME NEW u \in upgrades, Refuse(u) PROVE LastWord'
  <2>1. /\ data' = data /\ control' = control
        /\ ctlWire' \in {ctlWire, Onto(ctlWire, Frame("refused"))}
      BY <1>14 DEF Refuse
  <2>2. HoldsControl
      BY <1>3, <2>1 DEF HoldsControl
  <2>3. LastWord
      BY <2>1, <2>2 DEF WordInv
  <2>4. CASE ctlWire' = Onto(ctlWire, Frame("refused"))
      BY <1>1, <2>3, <2>4, SentFrames, WordStays DEF Frame
  <2> QED BY <1>4, <2>1, <2>2, <2>4
<1> QED BY <1>1, <1>5, <1>6, <1>7, <1>8, <1>9, <1>10, <1>11, <1>12, <1>13, <1>14
        DEF SocketStep

LEMMA StepKeepsWord ==
    ASSUME BaseInv, LinkInv, WordInv, [Next]_vars PROVE WordInv'
<1>0. page \in Page
    BY DEF BaseInv, TypesInv, PageInv, Sound, PageShape
<1>1. CASE ReserveSet \/ OtherReserves \/ OtherConnects \/ TicketsLapse \/ UNCHANGED vars
  <2>1. /\ UNCHANGED <<control, data, ctlWire>>
        /\ \/ page' = page
           \/ \E g : page' = [page EXCEPT !.attempt = "offered", !.offer = g]
      BY <1>1 DEF ReserveSet, OtherReserves, OtherConnects, TicketsLapse, TicketsExpire,
                  Reserve, vars, relayVars, reservations, wires
  <2>2. C' = C /\ page'.hostOnline = page.hostOnline
      BY <1>0, <2>1 DEF Page, C
  <2> QED BY <2>1, <2>2 DEF WordInv, LastWord, HoldsControl
<1> QED BY <1>1, PageKeepsWord, RelayKeepsWord, StepIs

LEMMA WordAlways == Spec => [](BaseInv /\ LinkInv /\ StreamInv /\ WordInv)
<1>1. Init => WordInv
    BY DEF Init, NewPage, NoConnection, C, WordInv
<1>2. BaseInv /\ LinkInv /\ WordInv /\ [Next]_vars => WordInv'
    BY StepKeepsWord
<1>3. Spec => []WordInv
    BY <1>1, <1>2, LinkAlways, PTL DEF Spec
<1> QED BY <1>3, StreamAlways, PTL

\* A page that shows a live terminal is fed, has been told that the host is offline, or is
\* about to be told that it is not fed.
LEMMA LiveFed ==
    ASSUME BaseInv, LinkInv, StreamInv, WordInv PROVE LiveIsFed
<1>0. WireInv /\ ClosedInv /\ Sound(page)
    BY DEF BaseInv, TypesInv, PageInv, LinkInv
<1> SUFFICES ASSUME K.state = "live", C.current, C.data = "open"
             PROVE  \/ /\ HoldsControl /\ HoldsData
                       /\ data.state \in {"synced", "demoted"}
                       /\ data.state = "demoted" => ToldOffline
                    \/ Ends(ctlWire) \/ Ends(dataWire)
    BY DEF LiveIsFed, C, K
<1>1. HoldsControl \/ Ends(ctlWire)
    BY <1>0 DEF WireInv, ClosedInv, Has, Ends
<1>2. HoldsData \/ Ends(dataWire)
    BY <1>0 DEF ClosedInv, Has, Ends
<1>3. ASSUME HoldsData PROVE data.state \in {"synced", "demoted"} /\ IsOpen(data)
  <2>1. Followed /\ IsOpen(data)
      BY <1>3, ListenerFollows DEF Delivering
  <2>2. Ahead = 0
      BY DEF Ahead
  <2>3. PICK k \in Nat : Reached(K, data.first, data.commit, k) /\ Follows(k)
      BY <2>1 DEF Followed
  <2>4. K.committed
      BY <1>0 DEF Sound, PageDelivery, K
  <2>5. data.commit <= K.received /\ k = K.received - data.first + 1
      BY <2>3, <2>4 DEF Reached
  <2>6. ASSUME ~Committed PROVE FALSE
    <3>1. /\ data.first \in Int /\ data.sent \in Int /\ data.commit \in Int
          /\ K.received \in Int /\ data.sent <= data.commit
          /\ Len(dataWire.frames) \in Nat
          /\ Len(dataWire.frames) + k = data.sent - data.first
        BY <2>1, <2>2, <2>3, <2>6, DeliveryNumbers DEF Followed
    <3> HIDE DEF K
    <3> QED BY <2>5, <3>1, SMTT(30)
  <2> QED BY <2>1, <2>6 DEF Committed
<1>4. ASSUME HoldsControl, HoldsData, data.state = "demoted" PROVE ToldOffline
    BY <1>3, <1>4 DEF WordInv, LastWord, ToldOffline
<1> QED BY <1>1, <1>2, <1>3, <1>4

\* A page that shows a live terminal is fed by the relay, has been told that the host is
\* offline or is about to be told that it is not fed, in every state, the loss of a host at
\* any moment included.
THEOREM LiveStaysFed == Spec => []LiveIsFed
BY WordAlways, LiveFed, PTL

=============================================================================

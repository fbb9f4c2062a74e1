------------------------- MODULE InputPipeline_proofs -------------------------
(***************************************************************************)
(* Proofs about WriterLease and InputPipeline, for any set of clients and  *)
(* any bounds.                                                             *)
(***************************************************************************)
EXTENDS InputPipeline, SequenceTheorems, FiniteSetTheorems, TLAPS


(***************************************************************************)
(* The inductive invariant.  That one writer is live follows from each     *)
(* live writer holding the one lease, which is inductive together with     *)
(* the types (a socket that awaits its attach has no fence).               *)
(***************************************************************************)
LeaseInv == LeaseTypeOK /\ WriterHoldsLease /\ LiveLeaseHasHolder

-----------------------------------------------------------------------------

\* What a release leaves of the lease: it is another's, or it is no longer live.
LEMMA ReleaseEndsLease ==
    ASSUME LeaseInv, NEW c \in Clients
    PROVE  /\ Released(c) \in [client : Clients \cup {NoClient}, conn : 0 .. MaxConns,
                               fence : 0 .. MaxFence, live : BOOLEAN]
           /\ Released(c).client = lease.client /\ Released(c).conn = lease.conn
           /\ Released(c).fence = lease.fence
           /\ Released(c).live => lease.live /\ lease.client # c
           /\ lease.client # c => Released(c) = lease
<1>1. lease \in [client : Clients \cup {NoClient}, conn : 0 .. MaxConns,
                 fence : 0 .. MaxFence, live : BOOLEAN]
    BY DEF LeaseInv, LeaseTypeOK
<1>2. lease.live /\ lease.client = c => lease.conn = sock[c].conn /\ lease.fence = sock[c].fence
    BY DEF LeaseInv, LiveLeaseHasHolder
<1> QED
    BY <1>1, <1>2 DEF Released

\* The initial state satisfies the invariant.
LEMMA InitInv == LeaseInit => LeaseInv
<1> SUFFICES ASSUME LeaseInit PROVE LeaseInv
    OBVIOUS
<1>1. lease = [client |-> NoClient, conn |-> 0, fence |-> 0, live |-> FALSE]
    BY DEF LeaseInit
<1>2. 0 \in 0 .. MaxConns /\ 0 \in 0 .. MaxFence
    BY LeaseAssumption
<1>3. sock \in [Clients -> Socket]
    BY <1>2 DEF LeaseInit, Socket
<1>4. \A c \in Clients : sock[c].state = "closed" /\ ~sock[c].live
    BY DEF LeaseInit
<1>5. LeaseTypeOK
    BY <1>1, <1>2, <1>3, <1>4 DEF LeaseInit, LeaseTypeOK
<1> QED
    BY <1>1, <1>4, <1>5 DEF LeaseInv, WriterHoldsLease, LiveLeaseHasHolder, Live

\* A new control socket preserves the invariant.
LEMMA AcceptPreserves ==
    ASSUME LeaseInv, NEW c \in Clients, AcceptControl(c)
    PROVE  LeaseInv'
<1>1. /\ lease' = Released(c)
      /\ sock' = [sock EXCEPT ![c] = Accepted(c)]
      /\ acquiring' = acquiring
    BY DEF AcceptControl
<1>2. sock \in [Clients -> Socket] /\ Accepted(c) \in Socket
    BY LeaseAssumption DEF LeaseInv, LeaseTypeOK, AcceptControl, Accepted, Socket
<1>3. LeaseTypeOK'
  <2>1. sock' \in [Clients -> Socket] /\ acquiring' \subseteq (Clients \X (1 .. MaxConns))
      BY <1>1, <1>2 DEF LeaseInv, LeaseTypeOK
  <2>2. Accepted(c).conn > 0 /\ Accepted(c).fence = 0
      BY <1>2, LeaseAssumption DEF Accepted, Socket
  <2>3. \A d \in Clients : sock'[d].state = "awaiting" => sock'[d].conn > 0 /\ sock'[d].fence = 0
      BY <1>1, <1>2, <2>2 DEF LeaseInv, LeaseTypeOK
  <2>4. lease' \in [client : Clients \cup {NoClient}, conn : 0 .. MaxConns,
                   fence : 0 .. MaxFence, live : BOOLEAN]
      BY <1>1, ReleaseEndsLease
  <2> QED
      BY <2>1, <2>3, <2>4 DEF LeaseTypeOK
<1>4. WriterHoldsLease'
  <2> SUFFICES ASSUME NEW d \in Clients, Live(d)'
               PROVE  /\ lease'.live /\ lease'.client = d
                      /\ lease'.conn = sock'[d].conn /\ lease'.fence = sock'[d].fence
      BY DEF WriterHoldsLease
  <2>1. d # c
      BY <1>1, <1>2 DEF Live, Accepted
  <2>2. sock'[d] = sock[d] /\ Live(d)
      BY <1>1, <1>2, <2>1 DEF Live
  <2> QED
      BY <1>1, <2>1, <2>2, ReleaseEndsLease DEF LeaseInv, WriterHoldsLease
<1>5. LiveLeaseHasHolder'
    BY <1>1, <1>2, ReleaseEndsLease DEF LeaseInv, LiveLeaseHasHolder
<1> QED
    BY <1>3, <1>4, <1>5 DEF LeaseInv

\* Closing a socket, with or without the release, preserves the invariant.
LEMMA ClosePreserves ==
    ASSUME LeaseInv, NEW c \in Clients, CloseProtocol(c) \/ CloseControl(c)
    PROVE  LeaseInv'
<1>1. sock \in [Clients -> Socket]
    BY DEF LeaseInv, LeaseTypeOK
<1>2. PICK state \in {"closing", "closed"} : sock' = [sock EXCEPT ![c].state = state]
    BY DEF CloseProtocol, CloseControl
<1>3. /\ sock' \in [Clients -> Socket]
      /\ \A d \in Clients : /\ sock'[d].fence = sock[d].fence
                            /\ sock'[d].conn = sock[d].conn
                            /\ sock'[d].live = sock[d].live
                            /\ d # c => sock'[d] = sock[d]
      /\ sock'[c].state = state
    BY <1>1, <1>2 DEF Socket
<1>4. acquiring' = acquiring /\ (lease' = lease \/ lease' = Released(c))
    BY DEF CloseProtocol, CloseControl
<1>5. LeaseTypeOK'
    BY <1>3, <1>4, ReleaseEndsLease DEF LeaseInv, LeaseTypeOK
<1>6. WriterHoldsLease'
  <2> SUFFICES ASSUME NEW d \in Clients, Live(d)'
               PROVE  /\ lease'.live /\ lease'.client = d
                      /\ lease'.conn = sock'[d].conn /\ lease'.fence = sock'[d].fence
      BY DEF WriterHoldsLease
  <2>1. d # c /\ Live(d)
      BY <1>3 DEF Live
  <2> QED
      BY <1>3, <1>4, <2>1, ReleaseEndsLease DEF LeaseInv, WriterHoldsLease
<1>7. LiveLeaseHasHolder'
  <2>1. CASE CloseProtocol(c)
    <3>1. lease' = lease /\ sock[c].state # "closed" /\ sock'[c].state = "closing"
        BY <2>1, <1>1 DEF CloseProtocol, Socket
    <3> QED
        BY <1>3, <3>1 DEF LeaseInv, LiveLeaseHasHolder
  <2>2. CASE CloseControl(c)
      BY <1>3, <2>2, ReleaseEndsLease DEF LeaseInv, LiveLeaseHasHolder, CloseControl
  <2> QED
      BY <2>1, <2>2
<1> QED
    BY <1>5, <1>6, <1>7 DEF LeaseInv

\* A browser that becomes active without a lease preserves the invariant.
LEMMA WaitingPreserves ==
    ASSUME LeaseInv, NEW c \in Clients, sock[c].state = "awaiting",
           sock' = [sock EXCEPT ![c].state = "active"], lease' = lease,
           acquiring' \subseteq acquiring
    PROVE  LeaseInv'
<1>1. sock \in [Clients -> Socket] /\ sock[c].fence = 0
    BY DEF LeaseInv, LeaseTypeOK
<1>2. /\ sock' \in [Clients -> Socket]
      /\ \A d \in Clients : /\ sock'[d].fence = sock[d].fence
                            /\ sock'[d].conn = sock[d].conn
                            /\ d # c => sock'[d] = sock[d]
      /\ sock'[c].state = "active"
    BY <1>1 DEF Socket
<1>3. LeaseTypeOK'
    BY <1>2 DEF LeaseInv, LeaseTypeOK
<1>4. WriterHoldsLease'
    BY <1>1, <1>2 DEF LeaseInv, WriterHoldsLease, Live
<1>5. LiveLeaseHasHolder'
    BY <1>2 DEF LeaseInv, LiveLeaseHasHolder
<1> QED
    BY <1>3, <1>4, <1>5 DEF LeaseInv

\* The end of an acquire that takes the lease preserves the invariant.
LEMMA AcquirePreserves ==
    ASSUME LeaseInv, NEW c \in Clients, NEW n \in 1 .. MaxConns, Acquire(c, n)
    PROVE  LeaseInv'
<1> DEFINE fence == lease.fence + 1
<1>1. /\ ~lease.live
      /\ lease' = [client |-> c, conn |-> n, fence |-> fence, live |-> ~Stale(c, n)]
      /\ acquiring' \subseteq acquiring
      /\ fence \in 1 .. MaxFence
      /\ sock \in [Clients -> Socket]
  <2>1. lease.fence \in 0 .. MaxFence /\ sock \in [Clients -> Socket]
      BY DEF LeaseInv, LeaseTypeOK
  <2>2. ~lease.live /\ lease.fence < MaxFence /\ acquiring' \subseteq acquiring
      BY DEF Acquire, Taken
  <2>3. lease' = [client |-> c, conn |-> n, fence |-> fence, live |-> ~Stale(c, n)]
      BY DEF Acquire, NextFence
  <2>4. fence \in 1 .. MaxFence
      BY <2>1, <2>2, LeaseAssumption
  <2> QED
      BY <2>1, <2>2, <2>3, <2>4
<1>1a. lease' \in [client : Clients \cup {NoClient}, conn : 0 .. MaxConns,
                 fence : 0 .. MaxFence, live : BOOLEAN]
  <2>1. n \in 0 .. MaxConns /\ fence \in 0 .. MaxFence /\ (~Stale(c, n)) \in BOOLEAN
      BY <1>1, LeaseAssumption DEF Stale
  <2> QED
      BY <1>1, <2>1
<1>2. \A d \in Clients : ~Live(d)
    BY <1>1 DEF LeaseInv, WriterHoldsLease
<1>3. /\ sock' \in [Clients -> Socket]
      /\ \A d \in Clients \ {c} :
            /\ sock'[d].fence = sock[d].fence /\ sock'[d].live = sock[d].live
            /\ sock'[d].state \in {sock[d].state, "closing"} /\ sock'[d].conn = sock[d].conn
  <2>1. \A d \in Clients : sock'[d] =
            IF d \in Displaced(c, n)
            THEN [sock[d] EXCEPT !.state = IF @ = "closed" THEN @ ELSE "closing"]
            ELSE IF d = c /\ ~Stale(c, n)
            THEN [sock[d] EXCEPT !.state = "active", !.fence = fence, !.live = TRUE]
            ELSE sock[d]
      BY DEF Acquire, NextFence
  <2>2. \A d \in Clients : sock'[d] \in Socket
    <3> SUFFICES ASSUME NEW d \in Clients PROVE sock'[d] \in Socket
        OBVIOUS
    <3>1. sock[d] \in Socket /\ fence \in 0 .. MaxFence
        BY <1>1, LeaseAssumption
    <3>2. CASE d \in Displaced(c, n)
        BY <2>1, <3>1, <3>2 DEF Socket
    <3>3. CASE d \notin Displaced(c, n) /\ d = c /\ ~Stale(c, n)
        BY <2>1, <3>1, <3>3 DEF Socket
    <3>4. CASE d \notin Displaced(c, n) /\ ~(d = c /\ ~Stale(c, n))
        BY <2>1, <3>1, <3>4
    <3> QED
        BY <3>2, <3>3, <3>4
  <2>3. DOMAIN sock' = Clients /\ sock' = [d \in Clients |-> sock'[d]]
      BY DEF Acquire
  <2>4. sock' \in [Clients -> Socket]
      BY <2>2, <2>3
  <2> QED
      BY <1>1, <2>1, <2>4, ZenonT(60) DEF Socket
<1>4. CASE Stale(c, n)
  <2>1. ~lease'.live
      BY <1>1, <1>4
  <2>2. /\ sock'[c].fence = sock[c].fence /\ sock'[c].live = sock[c].live
        /\ sock'[c].state \in {sock[c].state, "closing"} /\ sock'[c].conn = sock[c].conn
      BY <1>1, <1>4 DEF Acquire, Socket
  <2>3. LeaseTypeOK'
    <3>1. \A d \in Clients : sock'[d].state = "awaiting" =>
              sock'[d].conn > 0 /\ sock'[d].fence = 0
        BY <1>3, <2>2 DEF LeaseInv, LeaseTypeOK
    <3> QED
        BY <1>1a, <1>1, <1>3, <3>1 DEF LeaseInv, LeaseTypeOK
  <2>4. \A d \in Clients : ~Live(d)'
      BY <1>2, <1>3, <2>2 DEF Live
  <2> QED
      BY <2>1, <2>3, <2>4 DEF LeaseInv, WriterHoldsLease, LiveLeaseHasHolder
<1>5. CASE ~Stale(c, n)
  <2>1. sock[c].conn = n /\ sock[c].fence = 0
      BY <1>5 DEF Stale, LeaseInv, LeaseTypeOK
  <2>2. c \notin Displaced(c, n)
      BY <2>1 DEF Displaced
  <2>3. /\ sock'[c].state = "active" /\ sock'[c].fence = fence
        /\ sock'[c].conn = n
      BY <1>1, <1>5, <2>1, <2>2 DEF Acquire, NextFence, Socket
  <2>4. LeaseTypeOK'
    <3>1. \A d \in Clients : sock'[d].state = "awaiting" =>
              sock'[d].conn > 0 /\ sock'[d].fence = 0
        BY <1>3, <2>3 DEF LeaseInv, LeaseTypeOK
    <3> QED
        BY <1>1a, <1>1, <1>3, <3>1 DEF LeaseInv, LeaseTypeOK
  <2>5. \A d \in Clients : Live(d)' => d = c
      BY <1>2, <1>3 DEF Live
  <2>6. WriterHoldsLease'
      BY <1>1, <1>5, <2>3, <2>5 DEF WriterHoldsLease
  <2>7. LiveLeaseHasHolder'
      BY <1>1, <2>3 DEF LiveLeaseHasHolder
  <2> QED
      BY <2>4, <2>6, <2>7 DEF LeaseInv
<1> QED
    BY <1>4, <1>5

\* Expiry preserves the invariant.
LEMMA ExpiryPreserves == LeaseInv /\ LeaseExpires => LeaseInv'
<1> SUFFICES ASSUME LeaseInv, LeaseExpires PROVE LeaseInv'
    OBVIOUS
<1>1. /\ sock \in [Clients -> Socket]
      /\ sock' \in [Clients -> Socket]
      /\ \A c \in Clients : /\ sock'[c].state = sock[c].state /\ sock'[c].fence = sock[c].fence
                            /\ sock'[c].conn = sock[c].conn
                            /\ sock[c].fence = lease.fence => ~sock'[c].live
                            /\ sock[c].fence # lease.fence => sock'[c] = sock[c]
    BY ZenonT(60) DEF LeaseInv, LeaseTypeOK, LeaseExpires, Socket
<1>2. LeaseTypeOK'
  <2>1. lease' \in [client : Clients \cup {NoClient}, conn : 0 .. MaxConns,
                   fence : 0 .. MaxFence, live : BOOLEAN]
      BY DEF LeaseInv, LeaseTypeOK, LeaseExpires
  <2>2. acquiring' \subseteq (Clients \X (1 .. MaxConns))
      BY DEF LeaseInv, LeaseTypeOK, LeaseExpires
  <2>3. \A c \in Clients : sock'[c].state = "awaiting" => sock'[c].conn > 0 /\ sock'[c].fence = 0
      BY <1>1 DEF LeaseInv, LeaseTypeOK
  <2> QED
      BY <1>1, <2>1, <2>2, <2>3 DEF LeaseTypeOK
<1>3. \A c \in Clients : ~Live(c)'
    BY <1>1 DEF LeaseInv, WriterHoldsLease, Live
<1>4. ~lease'.live
    BY DEF LeaseExpires, LeaseInv, LeaseTypeOK
<1> QED
    BY <1>2, <1>3, <1>4 DEF LeaseInv, WriterHoldsLease, LiveLeaseHasHolder

\* Every step preserves the invariant.
LEMMA NextInv == LeaseInv /\ [LeaseNext]_leaseVars => LeaseInv'
<1> SUFFICES ASSUME LeaseInv, [LeaseNext]_leaseVars PROVE LeaseInv'
    OBVIOUS
<1>1. CASE UNCHANGED leaseVars
    BY <1>1 DEF leaseVars, LeaseInv, LeaseTypeOK, WriterHoldsLease, LiveLeaseHasHolder, Live
<1>2. CASE LeaseExpires
    BY <1>2, ExpiryPreserves
<1>3. ASSUME NEW c \in Clients, LeaseStep(c) PROVE LeaseInv'
  <2>1. CASE AcceptControl(c)
      BY <2>1, AcceptPreserves
  <2>2. CASE CloseProtocol(c) \/ CloseControl(c)
      BY <2>2, ClosePreserves
  <2>3. CASE AttachWaiting(c)
      BY <2>3, WaitingPreserves DEF AttachWaiting
  <2>4. CASE BeginAcquire(c)
    <3>1. sock[c].conn \in 1 .. MaxConns
        BY <2>4 DEF BeginAcquire, LeaseInv, LeaseTypeOK, Socket
    <3> QED
        BY <2>4, <3>1 DEF BeginAcquire, LeaseInv, LeaseTypeOK, WriterHoldsLease,
                          LiveLeaseHasHolder, Live
  <2>5. ASSUME NEW n \in 1 .. MaxConns, AcquireTooLate(c, n) PROVE LeaseInv'
    <3>1. CASE Stale(c, n)
        BY <2>5, <3>1 DEF AcquireTooLate, LeaseInv, LeaseTypeOK, WriterHoldsLease,
                          LiveLeaseHasHolder, Live
    <3>2. CASE ~Stale(c, n)
        BY <2>5, <3>2, WaitingPreserves DEF AcquireTooLate, Stale
    <3> QED
        BY <3>1, <3>2
  <2>6. ASSUME NEW n \in 1 .. MaxConns, Acquire(c, n) PROVE LeaseInv'
      BY <2>6, AcquirePreserves
  <2> QED
      BY <1>3, <2>1, <2>2, <2>3, <2>4, <2>5, <2>6 DEF LeaseStep
<1> QED
    BY <1>1, <1>2, <1>3 DEF LeaseNext

-----------------------------------------------------------------------------
(* Theorems *)

LEMMA SpecInv == LeaseSpec => []LeaseInv
    BY InitInv, NextInv, PTL DEF LeaseSpec

\* Type correctness (class WriterAuthority and the socket attachments).
THEOREM LeaseTypes == LeaseSpec => []LeaseTypeOK
<1>1. LeaseInv => LeaseTypeOK
    BY DEF LeaseInv
<1> QED
    BY <1>1, SpecInv, PTL

\* A browser whose input is forwarded holds the lease on this very connection, and no
\* connection that is gone leaves a live lease behind (liveAttachment and release).
THEOREM LeaseAndWriterAgree == LeaseSpec => [](WriterHoldsLease /\ LiveLeaseHasHolder)
<1>1. LeaseInv => WriterHoldsLease /\ LiveLeaseHasHolder
    BY DEF LeaseInv
<1> QED
    BY <1>1, SpecInv, PTL

\* There is never more than one writer (liveAttachment).
THEOREM AtMostOneWriter == LeaseSpec => []OneLiveWriter
<1>1. LeaseInv => OneLiveWriter
    BY DEF LeaseInv, WriterHoldsLease, OneLiveWriter
<1> QED
    BY <1>1, SpecInv, PTL

\* What a step does to the lease: only an acquire changes its holder, when it is free.
LEMMA LeaseChanges ==
    ASSUME LeaseInv, LeaseNext
    PROVE  \/ /\ lease'.client = lease.client /\ lease'.conn = lease.conn
              /\ lease'.fence = lease.fence
           \/ ~lease.live /\ lease'.fence = lease.fence + 1
<1>1. lease \in [client : Clients \cup {NoClient}, conn : 0 .. MaxConns,
                 fence : 0 .. MaxFence, live : BOOLEAN]
    BY DEF LeaseInv, LeaseTypeOK
<1>2. CASE LeaseExpires
    BY <1>1, <1>2 DEF LeaseExpires
<1>3. ASSUME NEW c \in Clients, LeaseStep(c)
      PROVE  \/ /\ lease'.client = lease.client /\ lease'.conn = lease.conn
                /\ lease'.fence = lease.fence
             \/ ~lease.live /\ lease'.fence = lease.fence + 1
  <2>1. CASE AcceptControl(c) \/ CloseControl(c)
      BY <2>1, ReleaseEndsLease DEF AcceptControl, CloseControl
  <2>2. CASE CloseProtocol(c) \/ AttachWaiting(c) \/ BeginAcquire(c)
      BY <2>2 DEF CloseProtocol, AttachWaiting, BeginAcquire
  <2>3. ASSUME NEW n \in 1 .. MaxConns, AcquireTooLate(c, n) PROVE lease' = lease
      BY <2>3 DEF AcquireTooLate
  <2>4. ASSUME NEW n \in 1 .. MaxConns, Acquire(c, n)
        PROVE  ~lease.live /\ lease'.fence = lease.fence + 1
      BY <2>4 DEF Acquire, Taken, NextFence
  <2> QED
      BY <1>3, <2>1, <2>2, <2>3, <2>4 DEF LeaseStep
<1> QED
    BY <1>2, <1>3 DEF LeaseNext

\* Whenever the lease changes hands its fence grows (acquire).
THEOREM FencesGrow == LeaseSpec => FenceGrows
<1>1. ASSUME LeaseInv, [LeaseNext]_leaseVars
      PROVE  [lease'.fence >= lease.fence
              /\ (<<lease'.client, lease'.conn>> # <<lease.client, lease.conn>> =>
                     lease'.fence > lease.fence)]_leaseVars
  <2>1. lease.fence \in Nat
      BY <1>1 DEF LeaseInv, LeaseTypeOK
  <2> QED
      BY <1>1, <2>1, LeaseChanges
<1> QED
    BY <1>1, SpecInv, PTL DEF LeaseSpec, FenceGrows

\* A live lease is never taken away (the second read of the lease in acquire).
THEOREM LiveLeasesAreKept == LeaseSpec => LiveLeaseIsNotTaken
<1>1. ASSUME LeaseInv, [LeaseNext]_leaseVars
      PROVE  [lease.live /\ lease'.live =>
                 lease'.client = lease.client /\ lease'.conn = lease.conn]_leaseVars
    BY <1>1, LeaseChanges
<1> QED
    BY <1>1, SpecInv, PTL DEF LeaseSpec, LiveLeaseIsNotTaken

-----------------------------------------------------------------------------
(***************************************************************************)
(* InputPipeline.  The inductive invariant follows an input on its way: an *)
(* identity names one intent of its client's ledger, it is in at most one  *)
(* place between the browser and the host, and while it is underway it has *)
(* neither taken effect nor got a verdict that an effect would make false. *)
(***************************************************************************)

Input == [fence : 1 .. MaxFence, client : Clients, epoch : 1 .. MaxFence, seq : 1 .. MaxIntents]
KeyFrame == [epoch : 1 .. MaxFence, seq : 1 .. MaxIntents]
Connection == Clients \X (0 .. MaxConns)
Forward == [conn : Connection, id : Input]
HostAck == [conn : Connection, id : Input, status : Host!Status]
DownFrame == [type : {"welcome", "inactive", "ack"}, fence : 0 .. MaxFence, epoch : 0 .. MaxFence,
              seq : 0 .. MaxIntents, status : {"none"} \cup Host!Status]

QueueTypes ==
    /\ page \in [Clients -> 0 .. MaxConns]
    /\ up \in [Clients -> Seq(KeyFrame)]
    /\ down \in [Clients -> Seq(DownFrame)]
    /\ toHost \in Seq(Forward)
    /\ acks \in Seq(HostAck)

Attached(a) == a.state \in {"open", "sealed"}

\* Identities are assigned in the order of consumption, so that each names one intent; the
\* next one of the epoch that is attached is above all of its identities.
InOrder(ints) ==
    \A i, j \in DOMAIN ints : i < j /\ ints[i].seq > 0 /\ ints[j].seq > 0 =>
        \/ ints[i].fence < ints[j].fence
        \/ ints[i].fence = ints[j].fence /\ ints[i].seq < ints[j].seq

Ledger(a, ints) ==
    /\ a \in Browser!Authority
    /\ ints \in Seq(Browser!Intent) /\ Len(ints) <= MaxIntents
    /\ \A i \in DOMAIN ints :
          /\ ints[i].phase # "pre"
          /\ ints[i].phase = "done" <=> ints[i].result # "none"
          /\ ints[i].phase # "done" => ints[i].seq > 0
          /\ ints[i].seq > 0 => ints[i].fence > 0
          /\ ints[i].fence <= a.highest
    /\ Attached(a) =>
          /\ a.fence = a.highest /\ a.fence > 0
          /\ a.next > 0 /\ a.next <= Len(ints) + 1
          /\ \A i \in DOMAIN ints : ints[i].fence = a.fence => ints[i].seq < a.next
    /\ InOrder(ints)

Ledgers ==
    /\ authority \in [Clients -> Browser!Authority]
    /\ intents \in [Clients -> Seq(Browser!Intent)]
    /\ \A c \in Clients : Ledger(authority[c], intents[c])

\* What a page has of its connection is of that connection; no fence is above the lease's.
Linked(c) ==
    /\ page[c] \in {0, sock[c].conn}
    /\ page[c] = 0 => authority[c].state = "detached"
    /\ authority[c].highest <= lease.fence
    /\ sock[c].fence <= lease.fence
    /\ Attached(authority[c]) => authority[c].fence = sock[c].fence
    /\ sock[c].state = "awaiting" => down[c] = <<>>
    /\ \A i \in DOMAIN up[c] : sock[c].state = "active" /\ up[c][i].epoch = sock[c].fence
    /\ \A i \in DOMAIN down[c] : down[c][i].type = "welcome" =>
          /\ i = 1 /\ down[c][i].fence = sock[c].fence
          /\ page[c] # 0 /\ down[c][i].fence > 0 => down[c][i].fence > authority[c].highest

Links == \A c \in Clients : Linked(c)

\* The lease's fence is one connection's, and the host has bound it to its client.
FencesAreLeases ==
    /\ \A i \in DOMAIN toHost :
          /\ toHost[i].conn[1] = toHost[i].id.client
          /\ toHost[i].id.epoch = toHost[i].id.fence
          /\ toHost[i].id.fence <= lease.fence
          /\ toHost[i].id.fence = lease.fence => toHost[i].conn = <<lease.client, lease.conn>>
    /\ inputFence <= lease.fence
    /\ inputWriter.highWater # 0 =>
          /\ inputWriter.epoch = inputFence
          /\ inputFence = lease.fence => inputWriter.client = lease.client

-----------------------------------------------------------------------------
(* An input on its way *)

\* The intents of its client that an identity names.
Named(id) == {i \in DOMAIN intents[id.client] :
                  intents[id.client][i].fence = id.epoch /\ intents[id.client][i].seq = id.seq}

InputOf(c, frame) == [fence |-> frame.epoch, client |-> c, epoch |-> frame.epoch, seq |-> frame.seq]

InUp(id) == \E i \in DOMAIN up[id.client] : InputOf(id.client, up[id.client][i]) = id
InToHost(id) == \E i \in DOMAIN toHost : toHost[i].id = id
OnItsWay(id) == InUp(id) \/ InToHost(id)

SentOnce ==
    /\ \A c \in Clients : \A i, j \in DOMAIN up[c] : up[c][i] = up[c][j] => i = j
    /\ \A i, j \in DOMAIN toHost : toHost[i].id = toHost[j].id => i = j
    /\ \A i \in DOMAIN toHost : ~InUp(toHost[i].id)

Took(id) == \E k \in DOMAIN log : log[k] = id

\* The identity names an intent, and its result is one of results.
HasResult(id, results) ==
    /\ Named(id) # {}
    /\ \A i \in Named(id) : intents[id.client][i].result \in results

\* What is underway has not taken effect and is not said to be refused.
Underway ==
    \A id \in Input : OnItsWay(id) =>
        ~Took(id) /\ HasResult(id, {"none", "uncertain"})

\* What took effect is an input of a browser and is not said to be refused.
EffectsAreInputs ==
    /\ \A k \in DOMAIN log : log[k] \in Input /\ log[k].epoch = log[k].fence
    /\ \A id \in Input : Took(id) =>
          HasResult(id, {"none", "uncertain", "written", "duplicate"})

\* An acknowledgement on its way is true, and stays true until it arrives.
Justified(id, status) ==
    /\ Named(id) # {}
    /\ status \in {"written", "duplicate"} => Took(id)
    /\ status = "rejected" => ~Took(id) /\ ~OnItsWay(id)

AnswersAreTrue ==
    /\ \A i \in DOMAIN acks : acks[i].id.epoch = acks[i].id.fence /\ Justified(acks[i].id, acks[i].status)
    /\ \A c \in Clients : \A i \in DOMAIN down[c] : down[c][i].type = "ack" =>
          /\ InputOf(c, down[c][i]) \in Input /\ down[c][i].status # "none"
          /\ Justified(InputOf(c, down[c][i]), down[c][i].status)

-----------------------------------------------------------------------------
(* The ledgers *)

\* What the end of an intent, with one of these results, or the loss of its transport may
\* make of it.
Ended(x, y, results) ==
    \/ y = x
    \/ x.phase \in {"sent", "terminating"} /\ y = [x EXCEPT !.phase = "terminating"]
    \/ /\ x.phase \in {"sent", "terminating"}
       /\ \E r \in results : y = [x EXCEPT !.phase = "done", !.result = r]

Verdicts == {"written", "duplicate", "rejected", "uncertain"}

\* An epoch that is still attached is the one that was.
Demoted(a, b) ==
    /\ b \in Browser!Authority /\ b.highest = a.highest
    /\ Attached(b) => Attached(a) /\ b.fence = a.fence /\ b.next = a.next

\* The step ends intents of c, and its authority goes no further.
IntentsEnd(c, results) ==
    /\ authority' = [authority EXCEPT ![c] = authority'[c]]
    /\ intents' = [intents EXCEPT ![c] = intents'[c]]
    /\ Demoted(authority[c], authority'[c])
    /\ intents'[c] \in Seq(Browser!Intent) /\ Len(intents'[c]) = Len(intents[c])
    /\ \A i \in DOMAIN intents[c] : Ended(intents[c][i], intents'[c][i], results)

LEMMA MappedLedger ==
    ASSUME NEW S, NEW s \in Seq(S), NEW t, t = [i \in DOMAIN s |-> t[i]],
           \A i \in DOMAIN s : t[i] \in S
    PROVE  t \in Seq(S) /\ Len(t) = Len(s) /\ DOMAIN t = DOMAIN s
<1>1. DOMAIN s = 1 .. Len(s) /\ Len(s) \in Nat
    BY LenProperties
<1>2. t \in [1 .. Len(s) -> S]
    BY <1>1
<1> QED BY <1>1, <1>2, SeqDef, LenProperties

\* An intent that ends keeps its identity, and a result that it has.
LEMMA EndedFacts ==
    ASSUME NEW x \in Browser!Intent, NEW y, NEW results \in SUBSET Verdicts, Ended(x, y, results),
           x.phase = "done" <=> x.result # "none", x.phase # "pre"
    PROVE  /\ y \in Browser!Intent /\ y.fence = x.fence /\ y.seq = x.seq /\ y.phase # "pre"
           /\ y.phase = "done" <=> y.result # "none"
           /\ y.phase # "done" => x.phase # "done"
           /\ y.result = x.result \/ (x.result = "none" /\ y.result \in results)
<1>1. CASE y = x
    BY <1>1
<1>2. CASE x.phase \in {"sent", "terminating"} /\ y = [x EXCEPT !.phase = "terminating"]
    BY <1>2 DEF Browser!Intent, Browser!Phases
<1>3. CASE /\ x.phase \in {"sent", "terminating"}
           /\ \E r \in results : y = [x EXCEPT !.phase = "done", !.result = r]
  <2>1. PICK r \in results : y = [x EXCEPT !.phase = "done", !.result = r]
      BY <1>3
  <2>2. r \in Verdicts
      BY <2>1
  <2> QED
      BY <1>3, <2>1, <2>2 DEF Browser!Intent, Browser!Phases, Browser!Results, Verdicts
<1> QED
    BY <1>1, <1>2, <1>3 DEF Ended

\* The positions of a ledger.
LEMMA LedgerFacts ==
    ASSUME Ledgers, NEW c \in Clients
    PROVE  /\ Ledger(authority[c], intents[c]) /\ authority[c] \in Browser!Authority
           /\ intents[c] \in Seq(Browser!Intent)
           /\ DOMAIN intents[c] = 1 .. Len(intents[c]) /\ Len(intents[c]) \in Nat
           /\ \A i \in DOMAIN intents[c] :
                 /\ intents[c][i] \in Browser!Intent
                 /\ intents[c][i].phase # "pre"
                 /\ intents[c][i].phase = "done" <=> intents[c][i].result # "none"
<1>1. Ledger(authority[c], intents[c]) /\ intents[c] \in Seq(Browser!Intent)
      /\ authority[c] \in Browser!Authority
    BY DEF Ledgers
<1>2. DOMAIN intents[c] = 1 .. Len(intents[c]) /\ Len(intents[c]) \in Nat
    BY <1>1, LenProperties
<1>3. \A i \in DOMAIN intents[c] : intents[c][i] \in Browser!Intent
    BY <1>1, <1>2, ElementOfSeq
<1> QED
    BY <1>1, <1>2, <1>3 DEF Ledger

\* A step that ends intents preserves the ledgers.
LEMMA EndsKeepLedgers ==
    ASSUME Ledgers, NEW c \in Clients, NEW results \in SUBSET Verdicts, IntentsEnd(c, results)
    PROVE  Ledgers'
<1> DEFINE ints == intents[c]
           ends == intents'[c]
           a == authority[c]
           b == authority'[c]
<1>1. /\ Ledger(a, ints) /\ DOMAIN ints = 1 .. Len(ints) /\ ints \in Seq(Browser!Intent)
      /\ \A i \in DOMAIN ints : /\ ints[i] \in Browser!Intent /\ ints[i].phase # "pre"
                                /\ ints[i].phase = "done" <=> ints[i].result # "none"
    BY LedgerFacts
<1>2. /\ ends \in Seq(Browser!Intent) /\ Len(ends) = Len(ints) /\ DOMAIN ends = DOMAIN ints
      /\ b \in Browser!Authority /\ b.highest = a.highest
      /\ Attached(b) => Attached(a) /\ b.fence = a.fence /\ b.next = a.next
  <2>1. ends \in Seq(Browser!Intent) /\ Len(ends) = Len(ints)
      BY DEF IntentsEnd
  <2>2. DOMAIN ends = 1 .. Len(ends)
      BY <2>1, LenProperties
  <2> QED
      BY <1>1, <2>1, <2>2 DEF IntentsEnd, Demoted
<1>3. \A i \in DOMAIN ints :
          /\ ends[i].fence = ints[i].fence /\ ends[i].seq = ints[i].seq
          /\ ends[i].phase # "pre"
          /\ ends[i].phase = "done" <=> ends[i].result # "none"
          /\ ends[i].phase # "done" => ints[i].phase # "done"
  <2> TAKE i \in DOMAIN ints
  <2> QED
      BY <1>1, EndedFacts DEF IntentsEnd
<1>4. Ledger(b, ends)
  <2> HIDE DEF ints, ends, a, b
  <2>1. InOrder(ends)
      BY <1>1, <1>2, <1>3 DEF Ledger, InOrder
  <2>2. \A i \in DOMAIN ends :
          /\ ends[i].phase # "pre"
          /\ ends[i].phase = "done" <=> ends[i].result # "none"
          /\ ends[i].phase # "done" => ends[i].seq > 0
          /\ ends[i].seq > 0 => ends[i].fence > 0
          /\ ends[i].fence <= b.highest
    <3> TAKE i \in DOMAIN ends
    <3>1. i \in DOMAIN ints
        BY <1>2
    <3>2. /\ ints[i].phase # "done" => ints[i].seq > 0
          /\ ints[i].seq > 0 => ints[i].fence > 0
          /\ ints[i].fence <= a.highest
        BY <1>1, <3>1 DEF Ledger
    <3> QED
        BY <1>2, <1>3, <3>1, <3>2
  <2>3. Attached(b) =>
          /\ b.fence = b.highest /\ b.fence > 0
          /\ b.next > 0 /\ b.next <= Len(ends) + 1
          /\ \A i \in DOMAIN ends : ends[i].fence = b.fence => ends[i].seq < b.next
      BY <1>1, <1>2, <1>3 DEF Ledger
  <2> QED
      BY <1>1, <1>2, <2>1, <2>2, <2>3 DEF Ledger
<1>5. \A d \in Clients : d # c => authority'[d] = authority[d] /\ intents'[d] = intents[d]
    BY DEF IntentsEnd, Ledgers
<1>6. authority' \in [Clients -> Browser!Authority] /\ intents' \in [Clients -> Seq(Browser!Intent)]
    BY <1>2 DEF IntentsEnd, Ledgers
<1> QED
    BY <1>4, <1>5, <1>6 DEF Ledgers

\* Sealing, detaching and waiting take an authority no further.
LEMMA AuthorityDemoted ==
    ASSUME NEW a \in Browser!Authority
    PROVE  /\ Demoted(a, a)
           /\ \A fence : /\ Demoted(a, Browser!SealEpochOf(a, fence))
                         /\ a.state = "detached" => Browser!SealEpochOf(a, fence) = a
           /\ Demoted(a, [Browser!Seal(a, FALSE) EXCEPT !.lease = 0])
           /\ Demoted(a, Browser!Detached(a.highest))
           /\ Browser!Detached(a.highest).state = "detached"
           /\ Demoted(a, [Browser!Detached(a.highest) EXCEPT !.state = "read-only"])
<1>1. Demoted(a, a)
    BY DEF Demoted
<1>2. 0 \in 0 .. MaxFence /\ 0 \in 0 .. MaxIntents + 1
    BY LeaseAssumption, PipelineAssumption
<1>3. \A replace \in BOOLEAN : Demoted(a, Browser!Seal(a, replace))
    BY DEF Demoted, Attached, Browser!Seal, Browser!Authority
<1>4. \A fence : /\ Demoted(a, Browser!SealEpochOf(a, fence))
                 /\ a.state = "detached" => Browser!SealEpochOf(a, fence) = a
    BY <1>1, <1>3 DEF Browser!SealEpochOf
<1>5. Demoted(a, [Browser!Seal(a, FALSE) EXCEPT !.lease = 0])
    BY <1>2 DEF Demoted, Attached, Browser!Seal, Browser!Authority
<1>6. /\ Demoted(a, Browser!Detached(a.highest)) /\ Browser!Detached(a.highest).state = "detached"
      /\ Demoted(a, [Browser!Detached(a.highest) EXCEPT !.state = "read-only"])
    BY <1>2 DEF Demoted, Attached, Browser!Detached, Browser!Authority
<1> QED
    BY <1>1, <1>4, <1>5, <1>6

\* Giving results to intents that await one.
LEMMA FinishEnds ==
    ASSUME Ledgers, NEW c \in Clients, NEW ids, NEW r \in Verdicts,
           \A i \in ids : i \in DOMAIN intents[c] => intents[c][i].phase \in {"sent", "terminating"}
    PROVE  LET ends == Browser!Finish(intents[c], ids, r)
           IN  /\ ends \in Seq(Browser!Intent) /\ Len(ends) = Len(intents[c])
               /\ \A i \in DOMAIN intents[c] :
                     /\ Ended(intents[c][i], ends[i], {r})
                     /\ i \notin ids => ends[i] = intents[c][i]
<1> DEFINE ends == Browser!Finish(intents[c], ids, r)
<1>1. /\ ends = [i \in DOMAIN intents[c] |-> ends[i]]
      /\ \A i \in DOMAIN intents[c] :
            ends[i] = IF i \in ids THEN [intents[c][i] EXCEPT !.phase = "done", !.result = r]
                      ELSE intents[c][i]
    BY DEF Browser!Finish
<1> HIDE DEF ends
<1>2. \A i \in DOMAIN intents[c] :
          Ended(intents[c][i], ends[i], {r}) /\ (i \notin ids => ends[i] = intents[c][i])
    BY <1>1 DEF Ended
<1>3. \A i \in DOMAIN intents[c] : ends[i] \in Browser!Intent
    BY <1>2, LedgerFacts, EndedFacts
<1>4. ends \in Seq(Browser!Intent) /\ Len(ends) = Len(intents[c])
  <2>1. intents[c] \in Seq(Browser!Intent)
      BY LedgerFacts
  <2> QED
      BY <1>1, <1>3, <2>1, MappedLedger
<1> QED
    BY <1>2, <1>4 DEF ends

\* Waiting for a proof, for a transport that is lost or a deadline.
LEMMA TerminationEnds ==
    ASSUME Ledgers, NEW c \in Clients, NEW ids,
           \A i \in ids : i \in DOMAIN intents[c] => intents[c][i].phase = "sent"
    PROVE  LET ends == Browser!BeginTermination(intents[c], ids)
           IN  /\ ends \in Seq(Browser!Intent) /\ Len(ends) = Len(intents[c])
               /\ \A i \in DOMAIN intents[c] : Ended(intents[c][i], ends[i], {})
<1> DEFINE ends == Browser!BeginTermination(intents[c], ids)
<1>1. /\ ends = [i \in DOMAIN intents[c] |-> ends[i]]
      /\ \A i \in DOMAIN intents[c] :
            ends[i] = IF i \in ids THEN [intents[c][i] EXCEPT !.phase = "terminating"]
                      ELSE intents[c][i]
    BY DEF Browser!BeginTermination
<1> HIDE DEF ends
<1>2. \A i \in DOMAIN intents[c] : Ended(intents[c][i], ends[i], {})
    BY <1>1 DEF Ended
<1>3. \A i \in DOMAIN intents[c] : ends[i] \in Browser!Intent
    BY <1>2, LedgerFacts, EndedFacts
<1>4. ends \in Seq(Browser!Intent) /\ Len(ends) = Len(intents[c])
  <2>1. intents[c] \in Seq(Browser!Intent)
      BY LedgerFacts
  <2> QED
      BY <1>1, <1>3, <2>1, MappedLedger
<1> QED
    BY <1>2, <1>4 DEF ends

\* The loss of a control transport
LEMMA SettleEnds ==
    ASSUME Ledgers, NEW c \in Clients
    PROVE  LET ends == Browser!Settle(intents[c], "control-replaced")
           IN  /\ ends \in Seq(Browser!Intent) /\ Len(ends) = Len(intents[c])
               /\ \A i \in DOMAIN intents[c] : Ended(intents[c][i], ends[i], {})
<1>1. Browser!InPhase(intents[c], "pre") = {}
    BY LedgerFacts DEF Browser!InPhase
<1>2. Browser!Finish(intents[c], Browser!InPhase(intents[c], "pre"), "not-sent") = intents[c]
  <2>1. Browser!Finish(intents[c], {}, "not-sent") = [i \in DOMAIN intents[c] |-> intents[c][i]]
      BY DEF Browser!Finish
  <2>2. intents[c] = [i \in DOMAIN intents[c] |-> intents[c][i]]
      BY LedgerFacts, LenProperties
  <2> QED
      BY <1>1, <2>1, <2>2
<1>3. Browser!Settle(intents[c], "control-replaced")
          = Browser!BeginTermination(intents[c], Browser!InPhase(intents[c], "sent"))
    BY <1>2 DEF Browser!Settle
<1> DEFINE sent == Browser!InPhase(intents[c], "sent")
<1>4. \A i \in sent : i \in DOMAIN intents[c] => intents[c][i].phase = "sent"
    BY DEF Browser!InPhase
<1> HIDE DEF sent
<1>5. LET ends == Browser!BeginTermination(intents[c], sent)
      IN  /\ ends \in Seq(Browser!Intent) /\ Len(ends) = Len(intents[c])
          /\ \A i \in DOMAIN intents[c] : Ended(intents[c][i], ends[i], {})
    BY <1>4, TerminationEnds
<1> QED
    BY <1>3, <1>5 DEF sent

\* A step of this form ends intents.
LEMMA EndsByForm ==
    ASSUME Ledgers, NEW c \in Clients, NEW b, NEW ends, NEW results,
           authority' = [authority EXCEPT ![c] = b], intents' = [intents EXCEPT ![c] = ends],
           Demoted(authority[c], b),
           ends \in Seq(Browser!Intent), Len(ends) = Len(intents[c]),
           \A i \in DOMAIN intents[c] : Ended(intents[c][i], ends[i], results)
    PROVE  IntentsEnd(c, results) /\ authority'[c] = b /\ intents'[c] = ends
<1>1. authority'[c] = b /\ intents'[c] = ends
    BY DEF Ledgers
<1> QED
    BY <1>1 DEF IntentsEnd

LEMMA DetachEnds ==
    ASSUME Ledgers, NEW c \in Clients, Browser!Detach(c, "control-replaced")
    PROVE  IntentsEnd(c, {}) /\ authority'[c].state = "detached"
<1> DEFINE b == Browser!Detached(authority[c].highest)
           ends == Browser!Settle(intents[c], "control-replaced")
<1>1. authority' = [authority EXCEPT ![c] = b] /\ intents' = [intents EXCEPT ![c] = ends]
    BY DEF Browser!Detach, Ledgers
<1>2. Demoted(authority[c], b) /\ b.state = "detached"
    BY LedgerFacts, AuthorityDemoted
<1>3. /\ ends \in Seq(Browser!Intent) /\ Len(ends) = Len(intents[c])
      /\ \A i \in DOMAIN intents[c] : Ended(intents[c][i], ends[i], {})
    BY SettleEnds
<1> HIDE DEF b, ends
<1> QED
    BY <1>1, <1>2, <1>3, EndsByForm

LEMMA RevokeEnds ==
    ASSUME Ledgers, NEW c \in Clients, Browser!Revoke(c)
    PROVE  IntentsEnd(c, {})
<1> DEFINE b == [Browser!Seal(authority[c], FALSE) EXCEPT !.lease = 0]
           ends == Browser!Settle(intents[c], "control-replaced")
<1>1. authority' = [authority EXCEPT ![c] = b] /\ intents' = [intents EXCEPT ![c] = ends]
    BY DEF Browser!Revoke, Ledgers
<1>2. Demoted(authority[c], b)
    BY LedgerFacts, AuthorityDemoted
<1>3. /\ ends \in Seq(Browser!Intent) /\ Len(ends) = Len(intents[c])
      /\ \A i \in DOMAIN intents[c] : Ended(intents[c][i], ends[i], {})
    BY SettleEnds
<1> HIDE DEF b, ends
<1> QED
    BY <1>1, <1>2, <1>3, EndsByForm

\* attachTransport settles what the former transport leaves.
LEMMA ResettledEnds ==
    ASSUME Ledgers, NEW c \in Clients
    PROVE  LET ends == Browser!Resettled(c)
           IN  /\ ends \in Seq(Browser!Intent) /\ Len(ends) = Len(intents[c])
               /\ \A i \in DOMAIN intents[c] : Ended(intents[c][i], ends[i], {})
<1>1. CASE authority[c].state = "detached"
    BY <1>1, LedgerFacts DEF Browser!Resettled, Ended
<1>2. CASE authority[c].state # "detached"
    BY <1>2, SettleEnds DEF Browser!Resettled
<1> QED
    BY <1>1, <1>2

LEMMA WelcomeWaitingEnds ==
    ASSUME Ledgers, NEW c \in Clients, Browser!WelcomeWaiting(c)
    PROVE  IntentsEnd(c, {})
<1> DEFINE a == authority[c]
           b == IF a.state \in {"open", "sealed"} THEN [Browser!Seal(a, FALSE) EXCEPT !.lease = 0]
                ELSE [Browser!Detached(a.highest) EXCEPT !.state = "read-only"]
           ends == Browser!Resettled(c)
<1>1. authority' = [authority EXCEPT ![c] = b] /\ intents' = [intents EXCEPT ![c] = ends]
    BY DEF Browser!WelcomeWaiting, Ledgers
<1>2. Demoted(a, b)
    BY LedgerFacts, AuthorityDemoted
<1>3. /\ ends \in Seq(Browser!Intent) /\ Len(ends) = Len(intents[c])
      /\ \A i \in DOMAIN intents[c] : Ended(intents[c][i], ends[i], {})
    BY ResettledEnds
<1> HIDE DEF b, ends
<1> QED
    BY <1>1, <1>2, <1>3, EndsByForm

\* A deadline gives an uncertain result or none.
LEMMA TimerEnds ==
    ASSUME Ledgers, NEW c \in Clients, Browser!ExpireSent(c) \/ Browser!ExpireTerminating(c)
    PROVE  /\ IntentsEnd(c, {"uncertain"})
           /\ authority[c].state = "detached" => authority'[c].state = "detached"
<1>1. CASE Browser!ExpireSent(c)
  <2>1. PICK i \in Browser!InPhase(intents[c], "sent") :
            /\ intents' = [intents EXCEPT ![c] = Browser!BeginTermination(@, {i})]
            /\ authority' = [authority EXCEPT ![c] = Browser!SealEpochOf(@, intents[c][i].fence)]
      BY <1>1 DEF Browser!ExpireSent
  <2> DEFINE b == Browser!SealEpochOf(authority[c], intents[c][i].fence)
             ends == Browser!BeginTermination(intents[c], {i})
  <2>2. authority' = [authority EXCEPT ![c] = b] /\ intents' = [intents EXCEPT ![c] = ends]
      BY <2>1 DEF Ledgers
  <2>3. Demoted(authority[c], b) /\ (authority[c].state = "detached" => b = authority[c])
      BY LedgerFacts, AuthorityDemoted
  <2>4. /\ ends \in Seq(Browser!Intent) /\ Len(ends) = Len(intents[c])
        /\ \A j \in DOMAIN intents[c] : Ended(intents[c][j], ends[j], {})
      BY TerminationEnds DEF Browser!InPhase
  <2>5. \A j \in DOMAIN intents[c] : Ended(intents[c][j], ends[j], {"uncertain"})
      BY <2>4 DEF Ended
  <2> HIDE DEF b, ends
  <2> QED
      BY <2>2, <2>3, <2>4, <2>5, EndsByForm
<1>2. CASE Browser!ExpireTerminating(c)
  <2>1. PICK i \in Browser!Terminating(c) :
            /\ intents' = [intents EXCEPT ![c] = Browser!Finish(@, {i}, "uncertain")]
            /\ UNCHANGED authority
      BY <1>2 DEF Browser!ExpireTerminating
  <2> DEFINE ends == Browser!Finish(intents[c], {i}, "uncertain")
  <2>2. authority' = [authority EXCEPT ![c] = authority[c]] /\ intents' = [intents EXCEPT ![c] = ends]
      BY <2>1 DEF Ledgers
  <2>3. Demoted(authority[c], authority[c])
      BY LedgerFacts, AuthorityDemoted
  <2>4. /\ ends \in Seq(Browser!Intent) /\ Len(ends) = Len(intents[c])
        /\ \A j \in DOMAIN intents[c] : Ended(intents[c][j], ends[j], {"uncertain"})
    <3>1. "uncertain" \in Verdicts /\ intents[c][i].phase = "terminating"
        BY <2>1 DEF Verdicts, Browser!Terminating, Browser!InPhase
    <3> QED
        BY <3>1, FinishEnds
  <2> HIDE DEF ends
  <2> QED
      BY <2>2, <2>3, <2>4, EndsByForm
<1> QED
    BY <1>1, <1>2

\* An acknowledgement gives its status to the intents it names, which await one.
LEMMA AcknowledgementEnds ==
    ASSUME Ledgers, NEW c \in Clients, NEW fence, NEW seq, NEW status \in Verdicts,
           Browser!AcceptAcknowledgement(c, fence, seq, status)
    PROVE  /\ IntentsEnd(c, {status})
           /\ \A i \in DOMAIN intents[c] :
                 intents'[c][i] # intents[c][i] => intents[c][i].fence = fence /\ intents[c][i].seq = seq
<1> DEFINE ids == Browser!Matches(c, fence, seq)
           b == IF status = "uncertain" /\ ids # {} THEN Browser!SealEpochOf(authority[c], fence)
                ELSE authority[c]
           ends == Browser!Finish(intents[c], ids, status)
<1>1. authority' = [authority EXCEPT ![c] = b] /\ intents' = [intents EXCEPT ![c] = ends]
    BY DEF Browser!AcceptAcknowledgement, Ledgers
<1>2. Demoted(authority[c], b)
    BY LedgerFacts, AuthorityDemoted
<1>3. \A i \in ids : /\ intents[c][i].phase \in {"sent", "terminating"}
                     /\ intents[c][i].fence = fence /\ intents[c][i].seq = seq
    BY DEF Browser!Matches, Browser!Awaits
<1> HIDE DEF ids
<1>4. /\ ends \in Seq(Browser!Intent) /\ Len(ends) = Len(intents[c])
      /\ \A i \in DOMAIN intents[c] :
            /\ Ended(intents[c][i], ends[i], {status})
            /\ i \notin ids => ends[i] = intents[c][i]
    BY <1>3, FinishEnds
<1> HIDE DEF b, ends
<1>5. IntentsEnd(c, {status}) /\ intents'[c] = ends
    BY <1>1, <1>2, <1>4, EndsByForm
<1> QED
    BY <1>3, <1>4, <1>5

\* What a key becomes: it has no identity, or the next one of the open epoch.
KeyOf(a, x) ==
    \/ x.seq = 0 /\ x.fence = 0 /\ x.phase = "done" /\ x.result = "not-sent"
    \/ /\ x.seq = a.next /\ x.fence = a.fence
       /\ \/ x.phase \in {"sent", "terminating"} /\ x.result = "none"
          \/ x.phase = "done" /\ x.result = "not-sent"

\* The step adds an intent to the ledger of c.
KeyAdded(c, x) ==
    /\ authority' = [authority EXCEPT ![c] = authority'[c]]
    /\ intents' = [intents EXCEPT ![c] = Append(intents[c], x)]
    /\ x \in Browser!Intent /\ KeyOf(authority[c], x)
    /\ authority[c].state = "open" /\ Len(intents[c]) < MaxIntents
    /\ authority'[c] \in Browser!Authority /\ Attached(authority'[c])
    /\ authority'[c].highest = authority[c].highest
    /\ authority'[c].fence = authority[c].fence
    /\ authority'[c].next = authority[c].next + (IF x.seq = 0 THEN 0 ELSE 1)

\* The instance of BrowserInput has the operators of FiniteSets under its own name.
LEMMA SameCardinality == ASSUME NEW S PROVE Browser!Cardinality(S) = Cardinality(S)
    BY DEF Browser!Cardinality, Cardinality

\* The ledger with the new intent, before it is admitted
LEMMA KeyWaits ==
    ASSUME Ledgers, NEW c \in Clients
    PROVE  /\ Browser!Consumed(intents[c], "key") = Append(intents[c], Browser!New("key"))
           /\ Browser!New("key") \in Browser!Intent
<1>1. Browser!Superseded(intents[c], "key") = {}
    BY DEF Browser!Superseded
<1>2. Browser!Finish(intents[c], {}, "not-sent") = intents[c]
  <2>1. Browser!Finish(intents[c], {}, "not-sent") = [i \in DOMAIN intents[c] |-> intents[c][i]]
      BY DEF Browser!Finish
  <2>2. intents[c] = [i \in DOMAIN intents[c] |-> intents[c][i]]
      BY LedgerFacts, LenProperties
  <2> QED
      BY <2>1, <2>2
<1>3. Browser!InPhase(intents[c], "pre") = {}
    BY LedgerFacts DEF Browser!InPhase
<1>4. Browser!Cardinality(Browser!InPhase(intents[c], "pre")) = 0
    BY <1>3, FS_EmptySet, SameCardinality
<1>5. Browser!New("key") \in Browser!Intent
    BY LeaseAssumption, PipelineAssumption
    DEF Browser!New, Browser!Intent, Browser!Phases, Browser!Results
<1>6. Browser!Consumed(intents[c], "key") =
          IF Browser!Cardinality(Browser!InPhase(intents[c], "pre")) < 1
          THEN Append(intents[c], Browser!New("key"))
          ELSE Append(intents[c], [Browser!New("key") EXCEPT !.phase = "done", !.result = "not-sent"])
    BY <1>1, <1>2 DEF Browser!Consumed
<1>7. Browser!Cardinality(Browser!InPhase(intents[c], "pre")) < 1
    BY <1>4
<1> QED
    BY <1>5, <1>6, <1>7, Zenon

\* A key is given the next identity, or none, at once.
LEMMA KeyConsumed ==
    ASSUME Ledgers, NEW c \in Clients, NEW cut, NEW n \in 0 .. 1, NEW how,
           Browser!ConsumeKey(c, cut, n, how)
    PROVE  \E x \in Browser!Intent : KeyAdded(c, x)
<1> DEFINE a == authority[c]
           new == Browser!New("key")
           ints == Append(intents[c], new)
           last == Len(intents[c]) + 1
           admitted == Browser!Admitted(c, ints, cut)
           refused == Browser!InPhase(ints, "pre") \ admitted
           x == IF last \in admitted
                THEN Browser!Decided(c, new, Browser!Rank(last, admitted), n, how)
                ELSE [new EXCEPT !.phase = "done", !.result = "not-sent"]
           advanced == [a EXCEPT !.next = @ + Browser!Cardinality(admitted)]
           b == IF how = "accepted" THEN advanced ELSE Browser!Seal(advanced, TRUE)
<1>1. /\ Ledger(a, intents[c]) /\ a \in Browser!Authority
      /\ intents[c] \in Seq(Browser!Intent) /\ DOMAIN intents[c] = 1 .. Len(intents[c])
      /\ Len(intents[c]) \in Nat
      /\ \A i \in DOMAIN intents[c] : intents[c][i].phase # "pre"
    BY LedgerFacts
<1>2. /\ new \in Browser!Intent
      /\ ints \in Seq(Browser!Intent) /\ Len(ints) = last /\ DOMAIN ints = 1 .. last
      /\ ints[last] = new /\ \A i \in DOMAIN intents[c] : ints[i] = intents[c][i]
  <2>1. new \in Browser!Intent
      BY KeyWaits
  <2> HIDE DEF new
  <2> QED
      BY <1>1, <2>1, AppendProperties, LenProperties
<1>3. new.phase = "pre" /\ new.seq = 0 /\ new.fence = 0 /\ new.result = "none"
    BY DEF Browser!New
<1> HIDE DEF new
<1>4. /\ a.state = "open" /\ Len(intents[c]) < MaxIntents
      /\ Browser!AdmitAndSend(c, ints, cut, n, how)
    BY <1>2, <1>3, KeyWaits DEF Browser!ConsumeKey, new
<1> HIDE DEF ints
<1>5. Browser!InPhase(ints, "pre") = {last}
    BY <1>1, <1>2, <1>3, SMTT(30) DEF Browser!InPhase
<1>6. admitted = {} \/ admitted = {last}
    BY <1>5 DEF Browser!Admitted, Browser!Unexpired
<1>7. /\ n \in 0 .. Browser!Cardinality(admitted)
      /\ how = "accepted" <=> n = Browser!Cardinality(admitted)
      /\ authority' = [authority EXCEPT ![c] = b]
      /\ intents' = [intents EXCEPT ![c] =
            [i \in DOMAIN ints |->
                IF i \in admitted
                THEN Browser!Decided(c, ints[i], Browser!Rank(i, admitted), n, how)
                ELSE Browser!Finish(ints, refused, "not-sent")[i]]]
  <2>1. n \in 0 .. Browser!Cardinality(admitted)
      BY <1>4 DEF Browser!AdmitAndSend
  <2>2. how = "accepted" <=> n = Browser!Cardinality(admitted)
      BY <1>4 DEF Browser!AdmitAndSend
  <2>3. authority' = [authority EXCEPT ![c] = b]
      BY <1>4 DEF Browser!AdmitAndSend
  <2>4. intents' = [intents EXCEPT ![c] =
            [i \in DOMAIN ints |->
                IF i \in admitted
                THEN Browser!Decided(c, ints[i], Browser!Rank(i, admitted), n, how)
                ELSE Browser!Finish(ints, refused, "not-sent")[i]]]
      BY <1>4 DEF Browser!AdmitAndSend
  <2> QED
      BY <2>1, <2>2, <2>3, <2>4
<1>8. intents'[c] = [i \in DOMAIN ints |-> IF i = last THEN x ELSE ints[i]]
  <2>1. \A i \in DOMAIN ints : Browser!Finish(ints, refused, "not-sent")[i] =
            IF i \in refused THEN [ints[i] EXCEPT !.phase = "done", !.result = "not-sent"]
            ELSE ints[i]
      BY DEF Browser!Finish
  <2>2. \A i \in DOMAIN ints : i # last => i \notin admitted /\ i \notin refused
      BY <1>5, <1>6
  <2>3. last \notin admitted => last \in refused
      BY <1>5
  <2>4. intents'[c] = [i \in DOMAIN ints |->
                IF i \in admitted
                THEN Browser!Decided(c, ints[i], Browser!Rank(i, admitted), n, how)
                ELSE Browser!Finish(ints, refused, "not-sent")[i]]
      BY <1>7 DEF Ledgers
  <2> HIDE DEF refused, admitted
  <2> QED
      BY <1>2, <2>1, <2>2, <2>3, <2>4
<1>9. /\ x \in Browser!Intent /\ KeyOf(a, x)
      /\ b \in Browser!Authority /\ Attached(b) /\ b.highest = a.highest /\ b.fence = a.fence
      /\ b.next = a.next + (IF x.seq = 0 THEN 0 ELSE 1)
  <2>1. /\ a.next \in 1 .. MaxIntents /\ a.fence \in 0 .. MaxFence
      BY <1>1, <1>4, PipelineAssumption DEF Ledger, Attached, Browser!Authority
  <2>2. CASE admitted = {}
    <3>1. Browser!Cardinality(admitted) = 0
        BY <2>2, FS_EmptySet, SameCardinality
    <3>2. how = "accepted"
        BY <1>7, <3>1
    <3>3. b = [a EXCEPT !.next = @ + 0]
        BY <3>1, <3>2
    <3>4. x = [new EXCEPT !.phase = "done", !.result = "not-sent"]
        BY <2>2
    <3>5. /\ x \in Browser!Intent /\ x.seq = 0 /\ x.fence = 0
          /\ x.phase = "done" /\ x.result = "not-sent"
        BY <1>2, <1>3, <3>4 DEF Browser!Intent, Browser!Phases, Browser!Results
    <3>6. /\ b \in Browser!Authority /\ b.state = "open"
          /\ b.highest = a.highest /\ b.fence = a.fence /\ b.next = a.next
      <4>1. a.next + 0 = a.next
          BY <2>1
      <4>2. b = [a EXCEPT !.next = a.next]
          BY <3>3, <4>1
      <4> HIDE DEF b
      <4> QED
          BY <1>1, <1>4, <4>2 DEF Browser!Authority
    <3> HIDE DEF x, b
    <3> QED
        BY <1>1, <1>4, <2>1, <3>5, <3>6 DEF KeyOf, Attached
  <2>3. CASE admitted = {last}
    <3>1. Browser!Cardinality(admitted) = 1
        BY <2>3, FS_Singleton, SameCardinality
    <3>2. Browser!Rank(last, admitted) = 1
      <4>1. {j \in {last} : j <= last} = {last}
          BY <1>1
      <4>2. Browser!Cardinality({last}) = 1
          BY FS_Singleton, SameCardinality
      <4> QED
          BY <2>3, <4>1, <4>2 DEF Browser!Rank
    <3>3. x = Browser!Decided(c, new, 1, n, how)
        BY <2>3, <3>2
    <3>4. x \in Browser!Intent /\ x.seq = a.next /\ KeyOf(a, x)
      <4> DEFINE identified == [new EXCEPT !.fence = a.fence, !.seq = a.next + 1 - 1]
      <4>1. /\ identified \in Browser!Intent /\ identified.seq = a.next
            /\ identified.fence = a.fence /\ identified.result = "none"
        <5>1. a.next + 1 - 1 = a.next /\ a.next \in 0 .. MaxIntents
            BY <2>1, PipelineAssumption
        <5>2. identified = [new EXCEPT !.fence = a.fence, !.seq = a.next]
            BY <5>1
        <5> HIDE DEF identified
        <5> QED
            BY <1>2, <1>3, <2>1, <5>1, <5>2 DEF Browser!Intent
      <4>2. x = IF 1 <= n THEN [identified EXCEPT !.phase = "sent"]
                ELSE IF 1 = n + 1 /\ how = "uncertain"
                     THEN [identified EXCEPT !.phase = "terminating"]
                     ELSE [identified EXCEPT !.phase = "done", !.result = "not-sent"]
          BY <3>3 DEF Browser!Decided
      <4> HIDE DEF identified, x
      <4>3. \/ x = [identified EXCEPT !.phase = "sent"]
            \/ x = [identified EXCEPT !.phase = "terminating"]
            \/ x = [identified EXCEPT !.phase = "done", !.result = "not-sent"]
          BY <4>2
      <4>4. x \in Browser!Intent /\ x.seq = a.next /\ x.fence = a.fence
            /\ \/ x.phase \in {"sent", "terminating"} /\ x.result = "none"
               \/ x.phase = "done" /\ x.result = "not-sent"
          BY <4>1, <4>3 DEF Browser!Intent, Browser!Phases, Browser!Results
      <4> QED
          BY <4>4 DEF KeyOf
    <3>5. /\ advanced \in Browser!Authority /\ advanced.state = "open"
          /\ advanced.highest = a.highest /\ advanced.fence = a.fence
          /\ advanced.next = a.next + 1
        BY <1>1, <1>4, <2>1, <3>1, PipelineAssumption, SMTT(30) DEF Browser!Authority
    <3> HIDE DEF advanced, x
    <3>6. /\ b \in Browser!Authority /\ Attached(b)
          /\ b.highest = a.highest /\ b.fence = a.fence /\ b.next = a.next + 1
        BY <3>5 DEF Browser!Seal, Browser!Authority, Attached
    <3> HIDE DEF b
    <3> QED
        BY <2>1, <3>4, <3>6
  <2> QED
      BY <1>6, <2>2, <2>3
<1> HIDE DEF x, b, admitted
<1>10. intents'[c] = Append(intents[c], x)
  <2>1. /\ Append(intents[c], x) \in Seq(Browser!Intent) /\ Len(Append(intents[c], x)) = last
        /\ Append(intents[c], x)[last] = x
        /\ \A i \in 1 .. Len(intents[c]) : Append(intents[c], x)[i] = intents[c][i]
      BY <1>1, <1>9, AppendProperties
  <2>2. Append(intents[c], x) \in [1 .. last -> Browser!Intent]
      BY <2>1, LenProperties
  <2> HIDE DEF last
  <2>3. \A i \in 1 .. last : intents'[c][i] = Append(intents[c], x)[i]
      BY <1>1, <1>2, <1>8, <2>1 DEF last
  <2> QED
      BY <1>2, <1>8, <2>2, <2>3
<1>11. /\ authority'[c] = b /\ intents' = [intents EXCEPT ![c] = intents'[c]]
    BY <1>7 DEF Ledgers
<1>12. KeyAdded(c, x)
    BY <1>4, <1>7, <1>9, <1>10, <1>11 DEF KeyAdded
<1> QED
    BY <1>9, <1>12

\* A new key preserves the ledgers: its identity is above all before it.
LEMMA KeyKeepsLedgers ==
    ASSUME Ledgers, NEW c \in Clients, NEW x, KeyAdded(c, x)
    PROVE  Ledgers'
<1> DEFINE a == authority[c]
           b == authority'[c]
           ints == intents[c]
           more == Append(ints, x)
           last == Len(ints) + 1
<1>1. /\ Ledger(a, ints) /\ ints \in Seq(Browser!Intent)
      /\ DOMAIN ints = 1 .. Len(ints) /\ Len(ints) \in Nat
      /\ \A i \in DOMAIN ints : ints[i] \in Browser!Intent
    BY LedgerFacts
<1>2. /\ x \in Browser!Intent /\ KeyOf(a, x) /\ Attached(a) /\ Len(ints) < MaxIntents
      /\ b \in Browser!Authority /\ b.highest = a.highest /\ b.fence = a.fence /\ Attached(b)
      /\ b.next = a.next + (IF x.seq = 0 THEN 0 ELSE 1)
      /\ intents'[c] = more
    BY DEF KeyAdded, Attached, Ledgers
<1>3. /\ more \in Seq(Browser!Intent) /\ Len(more) = last /\ DOMAIN more = 1 .. last
      /\ more[last] = x /\ \A i \in DOMAIN ints : more[i] = ints[i]
    BY <1>1, <1>2, AppendProperties, LenProperties
<1>4. /\ a.fence = a.highest /\ a.fence > 0 /\ a.next > 0 /\ a.next <= last
      /\ a.fence \in Nat /\ a.next \in Nat
      /\ \A i \in DOMAIN ints : ints[i].fence = a.fence => ints[i].seq < a.next
    BY <1>1, <1>2, LeaseAssumption, PipelineAssumption DEF Ledger, Browser!Authority
<1>5. Ledger(b, more)
  <2>1. \A i \in DOMAIN ints : /\ ints[i].fence \in Nat /\ ints[i].seq \in Nat
                               /\ ints[i].fence <= a.fence
      BY <1>1, <1>4, LeaseAssumption, PipelineAssumption, SMTT(30) DEF Ledger, Browser!Intent
  <2>2. \/ x.seq = 0 /\ x.fence = 0
        \/ x.seq = a.next /\ x.fence = a.fence
      BY <1>2 DEF KeyOf
  <2>3. InOrder(more)
    <3>1. ASSUME NEW i \in DOMAIN more, NEW j \in DOMAIN more, i < j, more[i].seq > 0, more[j].seq > 0
          PROVE  \/ more[i].fence < more[j].fence
                 \/ more[i].fence = more[j].fence /\ more[i].seq < more[j].seq
      <4>1. i \in DOMAIN ints /\ more[i] = ints[i]
          BY <1>1, <1>3, <3>1
      <4>2. CASE j \in DOMAIN ints
          BY <1>1, <1>3, <3>1, <4>1, <4>2 DEF Ledger, InOrder
      <4>3. CASE j = last
        <5>1. x.seq = a.next /\ x.fence = a.fence
            BY <1>3, <2>2, <3>1, <4>3
        <5> QED
            BY <1>3, <1>4, <2>1, <4>1, <4>3, <5>1
      <4> QED
          BY <1>1, <1>3, <4>2, <4>3, SMTT(30)
    <3> QED
        BY <3>1 DEF InOrder
  <2>4. /\ x.phase # "pre"
        /\ x.phase = "done" <=> x.result # "none"
        /\ x.phase # "done" => x.seq > 0
        /\ x.seq > 0 => x.fence > 0
        /\ x.fence <= b.highest
      BY <1>2, <1>4 DEF KeyOf
  <2>5. \A i \in DOMAIN more :
          /\ more[i].phase # "pre"
          /\ more[i].phase = "done" <=> more[i].result # "none"
          /\ more[i].phase # "done" => more[i].seq > 0
          /\ more[i].seq > 0 => more[i].fence > 0
          /\ more[i].fence <= b.highest
    <3> TAKE i \in DOMAIN more
    <3>1. CASE i = last
        BY <1>3, <2>4, <3>1
    <3>2. CASE i \in DOMAIN ints
        BY <1>1, <1>2, <1>3, <3>2 DEF Ledger
    <3> QED
        BY <1>1, <1>3, <3>1, <3>2
  <2>6. /\ b.fence = b.highest /\ b.fence > 0
        /\ b.next > 0 /\ b.next <= Len(more) + 1
        /\ \A i \in DOMAIN more : more[i].fence = b.fence => more[i].seq < b.next
    <3>1. \A i \in DOMAIN more : more[i].fence = b.fence => more[i].seq < b.next
      <4> SUFFICES ASSUME NEW i \in DOMAIN more, more[i].fence = b.fence
                   PROVE  more[i].seq < b.next
          OBVIOUS
      <4>1. CASE i = last
          BY <1>2, <1>3, <1>4, <2>2, <4>1
      <4>2. CASE i \in DOMAIN ints
          BY <1>2, <1>3, <1>4, <2>1, <4>2
      <4> QED
          BY <1>1, <1>3, <4>1, <4>2
    <3>2. b.next = a.next \/ b.next = a.next + 1
        BY <1>2, <1>4
    <3>3. Len(more) + 1 = last + 1 /\ last \in Nat
        BY <1>1, <1>3
    <3> HIDE DEF more, last, a, b
    <3>4. b.next > 0 /\ b.next <= Len(more) + 1
        BY <1>4, <3>2, <3>3
    <3> QED
        BY <1>2, <1>4, <3>1, <3>4
  <2> QED
      BY <1>1, <1>2, <1>3, <2>3, <2>5, <2>6, PipelineAssumption, SMTT(30) DEF Ledger
<1>6. /\ \A d \in Clients : d # c => authority'[d] = authority[d] /\ intents'[d] = intents[d]
      /\ authority' \in [Clients -> Browser!Authority]
      /\ intents' \in [Clients -> Seq(Browser!Intent)]
    BY <1>2, <1>3 DEF KeyAdded, Ledgers
<1> QED
    BY <1>2, <1>5, <1>6 DEF Ledgers

\* A welcome with a new fence opens an epoch, which has no intents yet.
EpochOpened(c, fence) ==
    /\ fence > authority[c].highest
    /\ authority' = [authority EXCEPT ![c] = Browser!Opened(fence)]
    /\ intents' = [intents EXCEPT ![c] = intents'[c]]
    /\ intents'[c] \in Seq(Browser!Intent) /\ Len(intents'[c]) = Len(intents[c])
    /\ \A i \in DOMAIN intents[c] : Ended(intents[c][i], intents'[c][i], {})

LEMMA WelcomeOpensEpoch ==
    ASSUME Ledgers, NEW c \in Clients, NEW fence, Browser!WelcomeWriter(c, fence)
    PROVE  EpochOpened(c, fence)
<1>1. ~Browser!HasResized(c)
    BY LedgerFacts DEF Browser!HasResized, Browser!Intent
<1>2. /\ fence > authority[c].highest
      /\ authority' = [authority EXCEPT ![c] = Browser!Opened(fence)]
      /\ intents' = [intents EXCEPT ![c] = Browser!Resettled(c)]
    BY <1>1 DEF Browser!WelcomeWriter
<1>3. intents'[c] = Browser!Resettled(c)
    BY <1>2 DEF Ledgers
<1> QED
    BY <1>2, <1>3, ResettledEnds DEF EpochOpened

LEMMA EpochKeepsLedgers ==
    ASSUME Ledgers, NEW c \in Clients, NEW fence \in 1 .. MaxFence, EpochOpened(c, fence)
    PROVE  Ledgers'
<1> DEFINE a == authority[c]
           b == Browser!Opened(fence)
           ints == intents[c]
           ends == intents'[c]
<1>1. /\ Ledger(a, ints) /\ ints \in Seq(Browser!Intent) /\ DOMAIN ints = 1 .. Len(ints)
      /\ Len(ints) \in Nat /\ a.highest \in Nat
      /\ \A i \in DOMAIN ints : /\ ints[i] \in Browser!Intent /\ ints[i].phase # "pre"
                                /\ ints[i].phase = "done" <=> ints[i].result # "none"
    BY LedgerFacts, LeaseAssumption DEF Browser!Authority
<1>2. /\ b \in Browser!Authority /\ b.highest = fence /\ b.fence = fence /\ b.next = 1
      /\ fence \in Nat /\ fence > a.highest /\ fence > 0
    BY LeaseAssumption, PipelineAssumption DEF Browser!Opened, Browser!Authority, EpochOpened
<1>3. /\ ends \in Seq(Browser!Intent) /\ Len(ends) = Len(ints) /\ DOMAIN ends = DOMAIN ints
      /\ authority'[c] = b
    BY <1>1, LenProperties DEF EpochOpened, Ledgers
<1>4. \A i \in DOMAIN ints :
          /\ ends[i].fence = ints[i].fence /\ ends[i].seq = ints[i].seq
          /\ ends[i].phase # "pre"
          /\ ends[i].phase = "done" <=> ends[i].result # "none"
          /\ ends[i].phase # "done" => ints[i].phase # "done"
  <2> TAKE i \in DOMAIN ints
  <2> QED
      BY <1>1, EndedFacts DEF EpochOpened
<1>5. \A i \in DOMAIN ints : /\ ints[i].fence \in Nat /\ ints[i].fence <= a.highest
                             /\ ints[i].phase # "done" => ints[i].seq > 0
                             /\ ints[i].seq > 0 => ints[i].fence > 0
    BY <1>1, LeaseAssumption, SMTT(30) DEF Ledger, Browser!Intent
<1>6. Ledger(b, ends)
  <2> HIDE DEF ends, b
  <2>1. InOrder(ends)
      BY <1>1, <1>3, <1>4, SMTT(30) DEF Ledger, InOrder
  <2>2. \A i \in DOMAIN ends :
          /\ ends[i].phase # "pre"
          /\ ends[i].phase = "done" <=> ends[i].result # "none"
          /\ ends[i].phase # "done" => ends[i].seq > 0
          /\ ends[i].seq > 0 => ends[i].fence > 0
          /\ ends[i].fence <= b.highest
    <3> TAKE i \in DOMAIN ends
    <3>1. i \in DOMAIN ints
        BY <1>3
    <3> QED
        BY <1>1, <1>2, <1>4, <1>5, <3>1
  <2>3. \A i \in DOMAIN ends : ends[i].fence # b.fence
    <3> TAKE i \in DOMAIN ends
    <3>1. i \in DOMAIN ints
        BY <1>3
    <3> QED
        BY <1>1, <1>2, <1>4, <1>5, <3>1
  <2> QED
      BY <1>1, <1>2, <1>3, <2>1, <2>2, <2>3 DEF Ledger
<1>7. /\ \A d \in Clients : d # c => authority'[d] = authority[d] /\ intents'[d] = intents[d]
      /\ authority' \in [Clients -> Browser!Authority]
      /\ intents' \in [Clients -> Seq(Browser!Intent)]
    BY <1>2, <1>3 DEF EpochOpened, Ledgers
<1> QED
    BY <1>3, <1>6, <1>7 DEF Ledgers

-----------------------------------------------------------------------------
(* The host.  What is proved of HostInput is used here under the name Answers; the journal  *)
(* and the subscriber of HostSession play no part in it.                                    *)

Answers == INSTANCE HostSession_proofs WITH
    Epochs <- 1 .. MaxFence, MaxInputSeq <- MaxIntents,
    MaxEvents <- 0, SegmentFrames <- 1, JournalFrames <- 1,
    offsets <- <<>>, journal <- <<>>, subscriber <- <<>>

LEMMA HostAssumptions == Answers!HostInputAssumption /\ Answers!HostSessionAssumption
    BY LeaseAssumption, PipelineAssumption
    DEF Answers!HostInputAssumption, Answers!HostSessionAssumption

LEMMA SameSubmission ==
    ASSUME NEW id, Host!SubmitInput(id) PROVE Answers!SubmitInput(id)
    BY DEF Host!SubmitInput, Host!RefuseUntouched, Host!RefuseUnbound, Host!AnswerRetry,
           Host!RefuseInvalid, Host!CommitInput, Host!CommitFails, Host!TakeFenceOnly,
           Host!Current, Host!Bound, Host!AlreadyTried, Host!MayBeInvalid,
           Host!RememberedWritten, Host!Remember, Host!WriterAt, Host!ResultsAt, Host!NoWriter,
           Answers!SubmitInput, Answers!RefuseUntouched, Answers!RefuseUnbound,
           Answers!AnswerRetry, Answers!RefuseInvalid, Answers!CommitInput,
           Answers!CommitFails, Answers!TakeFenceOnly, Answers!Current, Answers!Bound,
           Answers!AlreadyTried, Answers!MayBeInvalid, Answers!RememberedWritten,
           Answers!Remember, Answers!WriterAt, Answers!ResultsAt, Answers!NoWriter

LEMMA SameHostInit == Host!HostInputInit => Answers!HostInputInit
    BY DEF Host!HostInputInit, Answers!HostInputInit, Host!NoWriter, Answers!NoWriter,
           Host!NoAnswer, Answers!NoAnswer

\* What an input that is given to the host does there.
LEMMA InputSubmitted ==
    ASSUME Answers!IInv, NEW id \in Input, Host!SubmitInput(id)
    PROVE  /\ Answers!IInv'
           /\ inputFence \in Nat /\ inputFence' \in Nat
           /\ answer'.id = id /\ answer'.status \in Host!Status
           /\ answer'.status \in {"written", "duplicate"} => Took(id)'
           /\ \/ log' = log
              \/ /\ log' = Append(log, id) /\ answer'.status \in {"written", "uncertain"}
                 /\ \A k \in DOMAIN log :
                       /\ log[k].fence <= id.fence
                       /\ log[k].fence = id.fence =>
                             log[k].client = id.client /\ log[k].epoch = id.epoch /\ log[k].seq < id.seq
           /\ \/ inputFence' = inputFence /\ inputWriter' = inputWriter
              \/ /\ inputFence' = id.fence
                 /\ inputWriter'.highWater # 0 =>
                       inputWriter'.client = id.client /\ inputWriter'.epoch = id.epoch
<1>1. id \in Answers!Identity /\ id.fence \in Nat /\ id.fence > 0 /\ id.seq > 0
    BY LeaseAssumption, PipelineAssumption DEF Input, Answers!Identity
<1>2. Answers!SubmitInput(id)
    BY SameSubmission
<1>3. Answers!IInv'
    BY <1>1, <1>2, HostAssumptions, Answers!NextIInv DEF Answers!HostInputNext
<1>4. inputFence \in Nat /\ inputFence' \in Nat
    BY <1>3, LeaseAssumption DEF Answers!IInv, Answers!TypeOK
<1>5. answer'.id = id /\ answer'.status \in Host!Status
    BY <1>2 DEF Answers!SubmitInput, Answers!RefuseUntouched, Answers!RefuseUnbound,
           Answers!AnswerRetry, Answers!RefuseInvalid, Answers!CommitInput,
           Answers!CommitFails, Host!Status
<1>6. answer'.status \in {"written", "duplicate"} => Took(id)'
    BY <1>3, <1>5 DEF Answers!IInv, Answers!AnswersMatchLog, Answers!Took, Took
<1>7. CASE \/ Answers!RefuseUntouched(id) \/ Answers!RefuseUnbound(id)
           \/ Answers!AnswerRetry(id) \/ Answers!RefuseInvalid(id)
  <2>1. log' = log
      BY <1>7 DEF Answers!RefuseUntouched, Answers!RefuseUnbound, Answers!AnswerRetry,
                  Answers!RefuseInvalid, Answers!TakeFenceOnly
  <2>2. \/ inputFence' = inputFence /\ inputWriter' = inputWriter
        \/ inputFence' = id.fence /\ inputWriter'.highWater = 0
    <3>1. CASE Answers!RefuseUntouched(id)
        BY <3>1 DEF Answers!RefuseUntouched
    <3>2. CASE Answers!TakeFenceOnly(id)
        BY <3>2 DEF Answers!TakeFenceOnly, Answers!WriterAt, Answers!NoWriter
    <3> QED
        BY <1>7, <3>1, <3>2 DEF Answers!RefuseUnbound, Answers!AnswerRetry, Answers!RefuseInvalid
  <2> QED
      BY <1>3, <1>4, <1>5, <1>6, <2>1, <2>2
<1>8. CASE Answers!CommitInput(id) \/ Answers!CommitFails(id)
  <2>1. /\ Answers!Current(id) /\ Answers!Bound(id) /\ ~Answers!AlreadyTried(id)
        /\ inputFence' = id.fence
        /\ inputWriter'.client = id.client /\ inputWriter'.epoch = id.epoch
        /\ log' \in {log, Append(log, id)}
        /\ answer'.status \in {"written", "uncertain"}
      BY <1>8 DEF Answers!CommitInput, Answers!CommitFails, Answers!Remember
  <2>2. \A k \in DOMAIN log :
            /\ log[k].fence <= id.fence
            /\ log[k].fence = id.fence =>
                  log[k].client = id.client /\ log[k].epoch = id.epoch /\ log[k].seq < id.seq
      BY <1>1, <2>1, HostAssumptions, Answers!AcceptedIsNew
  <2> QED
      BY <1>3, <1>4, <1>5, <1>6, <2>1, <2>2
<1> QED
    BY <1>2, <1>7, <1>8 DEF Answers!SubmitInput

-----------------------------------------------------------------------------
(* The lease and the connections in the pipeline *)

\* Every step of the pipeline is a step of the lease, or leaves it alone.
LEMMA StepIsLeaseStep == PipelineNext => [LeaseNext]_leaseVars
<1> SUFFICES ASSUME PipelineNext PROVE LeaseNext \/ UNCHANGED leaseVars
    OBVIOUS
<1>1. ASSUME NEW c \in Clients, BrowserActs(c) PROVE UNCHANGED leaseVars
    BY <1>1 DEF BrowserActs
<1>2. CASE HostActs
    BY <1>2 DEF HostActs, HostReceives, HostConnects, RelayLosesHost, HostLosesRelay
<1>3. CASE RelayActs
  <2>1. ASSUME NEW c \in Clients, Connect(c) \/ Close(c) \/ RefuseKey(c)
        PROVE  LeaseStep(c)
      BY <2>1 DEF Connect, Close, RefuseKey, LeaseStep
  <2>2. ASSUME NEW c \in Clients, Attach(c) PROVE LeaseStep(c)
      BY <2>2 DEF Attach, LeaseStep
  <2>3. ASSUME NEW c \in Clients, RefuseRenewal(c) \/ ForwardKey(c)
        PROVE  UNCHANGED leaseVars
      BY <2>3 DEF RefuseRenewal, ForwardKey
  <2>4. ASSUME NEW c \in Clients, NEW n \in 1 .. MaxConns, FinishAttach(c, n)
        PROVE  LeaseStep(c)
      BY <2>4 DEF FinishAttach, LeaseStep
  <2>5. CASE Expire
      BY <2>5 DEF Expire, LeaseNext
  <2>6. CASE RelayAck
      BY <2>6 DEF RelayAck
  <2> QED
      BY <1>3, <2>1, <2>2, <2>3, <2>4, <2>5, <2>6 DEF RelayActs, LeaseNext
<1> QED
    BY <1>1, <1>2, <1>3 DEF PipelineNext

\* The types of the lease and of a socket
LEMMA LeaseFacts ==
    ASSUME LeaseInv
    PROVE  /\ lease.fence \in Nat
           /\ sock \in [Clients -> Socket]
           /\ \A c \in Clients : /\ sock[c] \in Socket /\ sock[c].fence \in Nat
                                 /\ sock[c].fence \in 0 .. MaxFence /\ sock[c].conn \in 0 .. MaxConns
                                 /\ sock[c].state = "awaiting" => sock[c].conn # 0 /\ sock[c].fence = 0
    BY LeaseAssumption DEF LeaseInv, LeaseTypeOK, Socket

\* The step leaves the connection of d its number and its fence.
SocketKept(d) ==
    /\ sock'[d].fence = sock[d].fence /\ sock'[d].conn = sock[d].conn
    /\ sock'[d].state \in {sock[d].state, "closing", "closed"}

\* The step leaves the lease with its holder.
HolderKept ==
    lease'.client = lease.client /\ lease'.conn = lease.conn /\ lease'.fence = lease.fence

LEMMA CloseKeeps ==
    ASSUME LeaseInv, NEW c \in Clients, CloseProtocol(c) \/ CloseControl(c)
    PROVE  HolderKept /\ \A d \in Clients : SocketKept(d)
<1>1. \/ sock' = [sock EXCEPT ![c].state = "closing"]
      \/ sock' = [sock EXCEPT ![c].state = "closed"]
    BY DEF CloseProtocol, CloseControl
<1>2. \A d \in Clients : SocketKept(d)
    BY <1>1, LeaseFacts DEF SocketKept, Socket
<1>3. lease' = lease \/ lease' = Released(c)
    BY DEF CloseProtocol, CloseControl
<1> QED
    BY <1>2, <1>3, ReleaseEndsLease DEF HolderKept

LEMMA ExpiryKeeps ==
    ASSUME LeaseInv, LeaseExpires
    PROVE  HolderKept /\ \A d \in Clients : SocketKept(d)
<1>1. \A d \in Clients : SocketKept(d)
    BY LeaseFacts DEF LeaseExpires, SocketKept, Socket
<1>2. HolderKept
    BY DEF LeaseExpires, HolderKept, LeaseInv, LeaseTypeOK
<1> QED
    BY <1>1, <1>2

\* An attach becomes active without a lease.
LEMMA WaitingKeeps ==
    ASSUME LeaseInv, NEW c \in Clients, sock[c].state = "awaiting",
           sock' = [sock EXCEPT ![c].state = "active"]
    PROVE  /\ sock'[c].state = "active" /\ sock'[c].fence = 0 /\ sock'[c].conn = sock[c].conn
           /\ \A d \in Clients \ {c} : SocketKept(d)
    BY LeaseFacts DEF SocketKept, Socket

LEMMA AcquireKeeps ==
    ASSUME LeaseInv, NEW c \in Clients, NEW n \in 1 .. MaxConns, Acquire(c, n)
    PROVE  /\ lease'.fence = lease.fence + 1
           /\ \A d \in Clients \ {c} : SocketKept(d)
           /\ Stale(c, n) => SocketKept(c)
           /\ ~Stale(c, n) => /\ sock[c].state = "awaiting" /\ sock'[c].state = "active"
                              /\ sock'[c].fence = lease.fence + 1 /\ sock'[c].conn = sock[c].conn
<1>1. lease'.fence = lease.fence + 1
    BY DEF Acquire, NextFence
<1>2. \A d \in Clients : sock'[d] =
          IF d \in Displaced(c, n)
          THEN [sock[d] EXCEPT !.state = IF @ = "closed" THEN @ ELSE "closing"]
          ELSE IF d = c /\ ~Stale(c, n)
          THEN [sock[d] EXCEPT !.state = "active", !.fence = lease.fence + 1, !.live = TRUE]
          ELSE sock[d]
    BY DEF Acquire, NextFence
<1>3. \A d \in Clients : d # c \/ Stale(c, n) => SocketKept(d)
    BY <1>2, LeaseFacts DEF SocketKept, Socket
<1>4. ~Stale(c, n) => sock[c].state = "awaiting" /\ c \notin Displaced(c, n)
    BY LeaseFacts DEF Stale, Displaced
<1>5. ~Stale(c, n) => /\ sock'[c].state = "active" /\ sock'[c].fence = lease.fence + 1
                      /\ sock'[c].conn = sock[c].conn
    BY <1>2, <1>4, LeaseFacts DEF Socket
<1> QED
    BY <1>1, <1>3, <1>4, <1>5

-----------------------------------------------------------------------------
(* What a page has of its connection *)

\* A connection that only loses messages, or gets one that is no welcome, keeps its link.
LEMMA LinkKept ==
    ASSUME NEW d \in Clients, Linked(d), lease.fence \in Nat, lease'.fence \in Nat,
           authority[d] \in Browser!Authority, sock[d].fence \in Nat,
           lease'.fence >= lease.fence,
           sock'[d].fence = sock[d].fence, sock'[d].conn = sock[d].conn,
           sock'[d].state = "awaiting" => sock[d].state = "awaiting" /\ down'[d] = down[d],
           \/ page'[d] = page[d]
           \/ page'[d] = 0 /\ authority'[d].state = "detached",
           Demoted(authority[d], authority'[d]),
           page[d] = 0 => authority'[d].state = "detached",
           \A i \in DOMAIN up'[d] : /\ sock'[d].state = "active"
                                    /\ \E j \in DOMAIN up[d] : up'[d][i].epoch = up[d][j].epoch,
           \A i \in DOMAIN down'[d] : down'[d][i].type = "welcome" =>
                i \in DOMAIN down[d] /\ down'[d][i] = down[d][i]
    PROVE  Linked(d)'
<1>1. authority[d].highest \in Nat /\ authority'[d].highest = authority[d].highest
    BY LeaseAssumption DEF Demoted, Browser!Authority
<1>2. Attached(authority'[d]) => authority'[d].fence = sock'[d].fence
    BY DEF Demoted, Linked
<1>3. \A i \in DOMAIN up'[d] : sock'[d].state = "active" /\ up'[d][i].epoch = sock'[d].fence
    BY DEF Linked
<1>4. \A i \in DOMAIN down'[d] : down'[d][i].type = "welcome" =>
          /\ i = 1 /\ down'[d][i].fence = sock'[d].fence
          /\ page'[d] # 0 /\ down'[d][i].fence > 0 => down'[d][i].fence > authority'[d].highest
    BY <1>1 DEF Linked
<1>5. /\ page'[d] \in {0, sock'[d].conn}
      /\ page'[d] = 0 => authority'[d].state = "detached"
    BY DEF Linked
<1>6. authority'[d].highest <= lease'.fence /\ sock'[d].fence <= lease'.fence
    BY <1>1 DEF Linked
<1>7. sock'[d].state = "awaiting" => down'[d] = <<>>
    BY DEF Linked
<1> QED
    BY <1>2, <1>3, <1>4, <1>5, <1>6, <1>7 DEF Linked

\* The elements of a queue after one is added or taken.
LEMMA AddedToQueue ==
    ASSUME NEW S, NEW s \in Seq(S), NEW x \in S
    PROVE  /\ Append(s, x) \in Seq(S)
           /\ DOMAIN s = 1 .. Len(s) /\ Len(s) \in Nat
           /\ DOMAIN Append(s, x) = 1 .. Len(s) + 1
           /\ Append(s, x)[Len(s) + 1] = x
           /\ \A i \in DOMAIN s : i \in DOMAIN Append(s, x) /\ Append(s, x)[i] = s[i]
           /\ \A i \in DOMAIN Append(s, x) :
                 \/ i \in DOMAIN s /\ i # Len(s) + 1 /\ Append(s, x)[i] = s[i] /\ s[i] \in S
                 \/ i = Len(s) + 1 /\ i \notin DOMAIN s /\ Append(s, x)[i] = x
<1>1. DOMAIN s = 1 .. Len(s) /\ Len(s) \in Nat
    BY LenProperties
<1>2. Append(s, x) \in Seq(S) /\ Len(Append(s, x)) = Len(s) + 1
      /\ Append(s, x)[Len(s) + 1] = x /\ \A i \in 1 .. Len(s) : Append(s, x)[i] = s[i]
    BY AppendProperties
<1>3. DOMAIN Append(s, x) = 1 .. Len(s) + 1
    BY <1>2, LenProperties
<1>4. \A i \in DOMAIN s : s[i] \in S
    BY <1>1, ElementOfSeq
<1> QED
    BY <1>1, <1>2, <1>3, <1>4

LEMMA TakenFromQueue ==
    ASSUME NEW S, NEW s \in Seq(S), s # <<>>
    PROVE  /\ Tail(s) \in Seq(S) /\ Head(s) \in S /\ 1 \in DOMAIN s /\ Head(s) = s[1]
           /\ \A i \in DOMAIN Tail(s) : i \in Nat /\ i > 0 /\ i + 1 \in DOMAIN s /\ Tail(s)[i] = s[i + 1]
<1>1. DOMAIN s = 1 .. Len(s) /\ Len(s) \in Nat \ {0}
    BY LenProperties, EmptySeq
<1>2. /\ Tail(s) \in Seq(S) /\ Head(s) \in S /\ Len(Tail(s)) = Len(s) - 1
      /\ \A i \in 1 .. Len(Tail(s)) : Tail(s)[i] = s[i + 1]
    BY HeadTailProperties
<1>3. DOMAIN Tail(s) = 1 .. Len(s) - 1
    BY <1>2, LenProperties
<1>4. Head(s) = s[1]
    OBVIOUS
<1> QED
    BY <1>1, <1>2, <1>3, <1>4

LEMMA EmptyQueue == ASSUME NEW S PROVE <<>> \in Seq(S) /\ DOMAIN <<>> = {}
    OBVIOUS

\* What is left of the keys after the relay drops those of sockets that are not open
LEMMA HeardKeys ==
    ASSUME NEW frames \in [Clients -> Seq(KeyFrame)], up' = Heard(frames)
    PROVE  /\ up' \in [Clients -> Seq(KeyFrame)]
           /\ \A d \in Clients : \/ up'[d] = <<>> /\ DOMAIN up'[d] = {}
                                 \/ up'[d] = frames[d] /\ sock'[d].state = "active"
<1>1. \A d \in Clients : up'[d] = IF sock'[d].state = "active" THEN frames[d] ELSE <<>>
    BY DEF Heard
<1>2. \A d \in Clients : up'[d] \in Seq(KeyFrame)
    BY <1>1, EmptyQueue
<1>3. up' = [d \in Clients |-> up'[d]]
    BY DEF Heard
<1>4. up' \in [Clients -> Seq(KeyFrame)]
    BY <1>2, <1>3
<1> QED
    BY <1>1, <1>4, EmptyQueue

\* A frame to a browser is the last one on its connection.
LEMMA FrameSentDown ==
    ASSUME QueueTypes, NEW c \in Clients, NEW frame \in DownFrame, SendDown(c, frame)
    PROVE  /\ down' \in [Clients -> Seq(DownFrame)]
           /\ \A d \in Clients : d # c => down'[d] = down[d]
           /\ down'[c] = Append(down[c], frame)
           /\ \A i \in DOMAIN down'[c] :
                 \/ i \in DOMAIN down[c] /\ down'[c][i] = down[c][i]
                 \/ i = Len(down[c]) + 1 /\ down'[c][i] = frame
<1>1. down \in [Clients -> Seq(DownFrame)] /\ down[c] \in Seq(DownFrame)
    BY DEF QueueTypes
<1>2. down'[c] = Append(down[c], frame) /\ \A d \in Clients : d # c => down'[d] = down[d]
    BY <1>1 DEF SendDown
<1>3. Append(down[c], frame) \in Seq(DownFrame)
    BY <1>1, AddedToQueue
<1>4. down' \in [Clients -> Seq(DownFrame)]
    BY <1>1, <1>2, <1>3 DEF SendDown
<1> QED
    BY <1>1, <1>2, <1>4, AddedToQueue

LEMMA FrameTypes ==
    /\ \A fence \in 0 .. MaxFence : Welcome(fence) \in DownFrame /\ Welcome(fence).type = "welcome"
                                    /\ Welcome(fence).fence = fence
    /\ Inactive \in DownFrame /\ Inactive.type = "inactive"
    /\ \A fence \in 0 .. MaxFence, epoch \in 0 .. MaxFence, seq \in 0 .. MaxIntents,
          status \in Host!Status :
          Ack(fence, epoch, seq, status) \in DownFrame /\ Ack(fence, epoch, seq, status).type = "ack"
<1>1. 0 \in 0 .. MaxFence /\ 0 \in 0 .. MaxIntents
    BY LeaseAssumption, PipelineAssumption
<1> QED
    BY <1>1 DEF Welcome, Inactive, Ack, DownFrame

\* A connection that the step does not touch keeps its link.
LEMMA LinkUntouched ==
    ASSUME NEW d \in Clients, Linked(d), LeaseInv, Ledgers, lease'.fence \in Nat,
           lease'.fence >= lease.fence, SocketKept(d),
           authority'[d] = authority[d], page'[d] = page[d], down'[d] = down[d],
           \/ DOMAIN up'[d] = {}
           \/ up'[d] = up[d] /\ sock'[d].state = "active"
           \/ up'[d] = up[d] /\ sock'[d] = sock[d]
    PROVE  Linked(d)'
<1>1. lease.fence \in Nat /\ sock[d].fence \in Nat /\ authority[d] \in Browser!Authority
    BY LeaseFacts, LedgerFacts
<1>2. Demoted(authority[d], authority'[d])
    BY <1>1, AuthorityDemoted
<1>3. page[d] = 0 => authority'[d].state = "detached"
    BY DEF Linked
<1>4. \A i \in DOMAIN up'[d] : /\ sock'[d].state = "active"
                               /\ \E j \in DOMAIN up[d] : up'[d][i].epoch = up[d][j].epoch
    BY DEF Linked
<1>5. sock'[d].state = "awaiting" => sock[d].state = "awaiting" /\ down'[d] = down[d]
    BY DEF SocketKept
<1>6. sock'[d].fence = sock[d].fence /\ sock'[d].conn = sock[d].conn
    BY DEF SocketKept
<1> QED
    BY <1>1, <1>2, <1>3, <1>4, <1>5, <1>6, LinkKept

\* The fence of the lease never falls.
LEMMA LeaseFenceGrows ==
    ASSUME LeaseInv, [LeaseNext]_leaseVars
    PROVE  /\ lease'.fence \in Nat /\ lease'.fence >= lease.fence
           /\ HolderKept \/ lease'.fence = lease.fence + 1
<1>1. lease.fence \in Nat
    BY LeaseFacts
<1> QED
    BY <1>1, LeaseChanges DEF HolderKept, leaseVars

-----------------------------------------------------------------------------
(* The relay's steps keep the links *)

Connected == QueueTypes /\ Links

LEMMA ConnectKeepsLinks ==
    ASSUME LeaseInv, Connected, Ledgers, NEW c \in Clients, Connect(c)
    PROVE  Connected'
<1>1. /\ page[c] = 0 /\ AcceptControl(c) /\ UNCHANGED <<authority, toHost, acks>>
      /\ page' = [page EXCEPT ![c] = sock'[c].conn]
      /\ up' = [up EXCEPT ![c] = <<>>] /\ down' = [down EXCEPT ![c] = <<>>]
    BY DEF Connect, browserVars
<1>2. LeaseNext
    BY <1>1 DEF LeaseNext, LeaseStep
<1>3. LeaseInv' /\ lease'.fence \in Nat /\ lease'.fence >= lease.fence
    BY <1>2, NextInv, LeaseFenceGrows
<1>4. /\ sock'[c].fence = 0 /\ sock'[c].conn \in 0 .. MaxConns /\ sock'[c].conn = sock[c].conn + 1
      /\ \A d \in Clients : d # c => sock'[d] = sock[d]
  <2>1. sock' = [sock EXCEPT ![c] = Accepted(c)]
      BY <1>1 DEF AcceptControl
  <2>2. sock'[c] = Accepted(c) /\ \A d \in Clients : d # c => sock'[d] = sock[d]
      BY <2>1, LeaseFacts
  <2>3. LeaseInv' => sock'[c].conn \in 0 .. MaxConns
      BY DEF LeaseInv, LeaseTypeOK, Socket
  <2> QED
      BY <1>3, <2>2, <2>3 DEF Accepted
<1>5. QueueTypes'
    BY <1>1, <1>4 DEF Connected, QueueTypes
<1>6. ASSUME NEW d \in Clients, d # c PROVE Linked(d)'
  <2>1. Linked(d) /\ SocketKept(d) /\ sock'[d] = sock[d]
      BY <1>4, <1>6 DEF Connected, Links, SocketKept
  <2>2. authority'[d] = authority[d] /\ page'[d] = page[d] /\ down'[d] = down[d] /\ up'[d] = up[d]
      BY <1>1, <1>6 DEF Connected, QueueTypes
  <2> QED
      BY <1>3, <2>1, <2>2, LinkUntouched
<1>7. Linked(c)'
  <2>1. /\ page'[c] = sock'[c].conn /\ up'[c] = <<>> /\ down'[c] = <<>>
        /\ authority'[c] = authority[c]
      BY <1>1 DEF Connected, QueueTypes
  <2>2. Linked(c) /\ authority[c].state = "detached" /\ ~Attached(authority[c])
      BY <1>1 DEF Connected, Links, Linked, Attached
  <2>3. authority[c].highest \in Nat /\ lease.fence \in Nat
      BY LedgerFacts, LeaseFacts, LeaseAssumption DEF Browser!Authority
  <2>4. authority'[c].highest <= lease'.fence /\ sock'[c].fence <= lease'.fence
      BY <1>3, <1>4, <2>1, <2>2, <2>3 DEF Linked
  <2> QED
      BY <2>1, <2>2, <2>4 DEF Linked
<1> QED
    BY <1>5, <1>6, <1>7 DEF Connected, Links

LEMMA CloseKeepsLinks ==
    ASSUME LeaseInv, Connected, Ledgers, NEW c \in Clients, Close(c)
    PROVE  Connected'
<1>1. /\ CloseProtocol(c) \/ CloseControl(c)
      /\ up' = Heard(up) /\ UNCHANGED <<authority, page, down, toHost, acks>>
    BY DEF Close, browserVars
<1>2. LeaseNext
    BY <1>1 DEF LeaseNext, LeaseStep
<1>3. lease'.fence \in Nat /\ lease'.fence >= lease.fence
    BY <1>2, LeaseFenceGrows
<1>4. up \in [Clients -> Seq(KeyFrame)]
    BY DEF Connected, QueueTypes
<1>5. /\ up' \in [Clients -> Seq(KeyFrame)]
      /\ \A d \in Clients : \/ DOMAIN up'[d] = {}
                            \/ up'[d] = up[d] /\ sock'[d].state = "active"
    BY <1>1, <1>4, HeardKeys
<1>6. \A d \in Clients : SocketKept(d) /\ Linked(d)
    BY <1>1, CloseKeeps DEF Connected, Links
<1>7. \A d \in Clients : Linked(d)'
    BY <1>1, <1>3, <1>5, <1>6, LinkUntouched
<1> QED
    BY <1>1, <1>5, <1>7 DEF Connected, QueueTypes, Links

LEMMA ExpireKeepsLinks ==
    ASSUME LeaseInv, Connected, Ledgers, Expire
    PROVE  Connected'
<1>1. LeaseExpires /\ UNCHANGED <<authority, page, up, down, toHost, acks>>
    BY DEF Expire, browserVars, pipeVars
<1>2. LeaseNext
    BY <1>1 DEF LeaseNext
<1>3. lease'.fence \in Nat /\ lease'.fence >= lease.fence
    BY <1>2, LeaseFenceGrows
<1>4. \A d \in Clients : SocketKept(d) /\ Linked(d) /\ sock'[d].state = sock[d].state
  <2>1. \A d \in Clients : sock'[d].state = sock[d].state
      BY <1>1, LeaseFacts DEF LeaseExpires, Socket
  <2> QED
      BY <1>1, <2>1, ExpiryKeeps DEF Connected, Links
<1>5. \A d \in Clients : \/ DOMAIN up'[d] = {}
                         \/ up'[d] = up[d] /\ sock'[d].state = "active"
  <2> TAKE d \in Clients
  <2>1. up'[d] = up[d] /\ up[d] \in Seq(KeyFrame)
      BY <1>1 DEF Connected, QueueTypes
  <2> QED
      BY <1>4, <2>1 DEF Linked
<1>6. \A d \in Clients : Linked(d)'
    BY <1>1, <1>3, <1>4, <1>5, LinkUntouched
<1> QED
    BY <1>1, <1>6 DEF Connected, QueueTypes, Links

\* A socket that becomes active gets its welcome, the first frame of its connection.
LEMMA WelcomeKeepsLink ==
    ASSUME LeaseInv, LeaseInv', Connected, Ledgers, NEW c \in Clients,
           sock[c].state = "awaiting", sock'[c].state = "active", sock'[c].conn = sock[c].conn,
           \/ sock'[c].fence = 0
           \/ sock'[c].fence = lease'.fence /\ lease'.fence > lease.fence,
           lease'.fence >= lease.fence,
           SendDown(c, Welcome(sock'[c].fence)), DOMAIN up'[c] = {},
           UNCHANGED <<authority, page>>
    PROVE  Linked(c)' /\ down' \in [Clients -> Seq(DownFrame)]
           /\ \A d \in Clients : d # c => down'[d] = down[d]
<1>1. /\ Linked(c) /\ lease.fence \in Nat /\ lease'.fence \in Nat /\ sock'[c].fence \in 0 .. MaxFence
      /\ sock[c].fence = 0 /\ authority[c].highest \in Nat
  <2>1. sock' \in [Clients -> Socket] /\ lease'.fence \in Nat
      BY LeaseAssumption DEF LeaseInv, LeaseTypeOK
  <2>2. sock'[c].fence \in 0 .. MaxFence
      BY <2>1 DEF Socket
  <2>3. authority[c].highest \in Nat
      BY LedgerFacts, LeaseAssumption DEF Browser!Authority
  <2> QED
      BY <2>1, <2>2, <2>3, LeaseFacts DEF Connected, Links
<1> DEFINE frame == Welcome(sock'[c].fence)
<1>2. frame \in DownFrame /\ frame.type = "welcome" /\ frame.fence = sock'[c].fence
    BY <1>1, FrameTypes
<1>3. QueueTypes /\ SendDown(c, frame)
    BY DEF Connected
<1> HIDE DEF frame
<1>4. /\ down' \in [Clients -> Seq(DownFrame)]
      /\ \A d \in Clients : d # c => down'[d] = down[d]
      /\ \A i \in DOMAIN down'[c] :
            \/ i \in DOMAIN down[c] /\ down'[c][i] = down[c][i]
            \/ i = Len(down[c]) + 1 /\ down'[c][i] = frame
    BY <1>2, <1>3, FrameSentDown
<1>5. down[c] = <<>> /\ DOMAIN down[c] = {} /\ Len(down[c]) = 0
    BY <1>1 DEF Linked
<1>6. \A i \in DOMAIN down'[c] : i = 1 /\ down'[c][i] = frame
    BY <1>4, <1>5
<1>7. ~Attached(authority[c])
  <2>1. Attached(authority[c]) => authority[c].fence > 0
      BY LedgerFacts DEF Ledger
  <2> QED
      BY <1>1, <2>1 DEF Linked
<1>8. sock'[c].fence > 0 => sock'[c].fence > authority[c].highest
    BY <1>1 DEF Linked
<1>9. authority[c].highest <= lease'.fence /\ sock'[c].fence <= lease'.fence
    BY <1>1 DEF Linked
<1>10. page'[c] \in {0, sock'[c].conn} /\ (page'[c] = 0 => authority'[c].state = "detached")
    BY <1>1 DEF Linked
<1>11. Linked(c)'
    BY <1>2, <1>6, <1>7, <1>8, <1>9, <1>10 DEF Linked
<1> QED
    BY <1>4, <1>11


LEMMA AttachKeepsLinks ==
    ASSUME LeaseInv, Connected, Ledgers, NEW c \in Clients, Attach(c)
    PROVE  Connected'
<1>1. /\ \/ AttachWaiting(c) /\ SendDown(c, Welcome(0))
         \/ BeginAcquire(c) /\ UNCHANGED down
      /\ UNCHANGED <<authority, page, up, toHost, acks>>
    BY DEF Attach, browserVars
<1>2. LeaseNext
    BY <1>1 DEF LeaseNext, LeaseStep
<1>3. LeaseInv' /\ lease'.fence \in Nat /\ lease'.fence >= lease.fence
    BY <1>2, NextInv, LeaseFenceGrows
<1>4. CASE AttachWaiting(c) /\ SendDown(c, Welcome(0))
  <2>1. sock[c].state = "awaiting" /\ sock' = [sock EXCEPT ![c].state = "active"]
      BY <1>4 DEF AttachWaiting
  <2>2. /\ sock'[c].state = "active" /\ sock'[c].fence = 0 /\ sock'[c].conn = sock[c].conn
        /\ \A d \in Clients \ {c} : SocketKept(d) /\ sock'[d] = sock[d]
      BY <2>1, WaitingKeeps, LeaseFacts
  <2>3. DOMAIN up'[c] = {}
      BY <1>1, <2>1 DEF Connected, QueueTypes, Links, Linked
  <2>4. /\ Linked(c)' /\ down' \in [Clients -> Seq(DownFrame)]
        /\ \A d \in Clients : d # c => down'[d] = down[d]
      BY <1>1, <1>3, <1>4, <2>1, <2>2, <2>3, WelcomeKeepsLink
  <2>5. ASSUME NEW d \in Clients, d # c PROVE Linked(d)'
      BY <1>1, <1>3, <2>2, <2>4, <2>5, LinkUntouched DEF Connected, Links
  <2> QED
      BY <1>1, <2>4, <2>5 DEF Connected, QueueTypes, Links
<1>5. CASE BeginAcquire(c) /\ UNCHANGED down
  <2>1. sock' = sock
      BY <1>5 DEF BeginAcquire
  <2>2. ASSUME NEW d \in Clients PROVE Linked(d)'
      BY <1>1, <1>3, <1>5, <2>1, LinkUntouched DEF Connected, Links, SocketKept
  <2> QED
      BY <1>1, <1>5, <2>2 DEF Connected, QueueTypes, Links
<1> QED
    BY <1>1, <1>4, <1>5

LEMMA FinishAttachKeepsLinks ==
    ASSUME LeaseInv, Connected, Ledgers, NEW c \in Clients, NEW n \in 1 .. MaxConns,
           FinishAttach(c, n)
    PROVE  Connected'
<1>1. /\ AcquireTooLate(c, n) \/ Acquire(c, n)
      /\ IF Stale(c, n) THEN UNCHANGED down ELSE SendDown(c, Welcome(sock'[c].fence))
      /\ up' = Heard(up) /\ UNCHANGED <<authority, page, toHost, acks>>
    BY DEF FinishAttach, browserVars
<1>2. LeaseNext
    BY <1>1 DEF LeaseNext, LeaseStep
<1>3. LeaseInv' /\ lease'.fence \in Nat /\ lease'.fence >= lease.fence
    BY <1>2, NextInv, LeaseFenceGrows
<1>4. /\ \A d \in Clients \ {c} : SocketKept(d)
      /\ Stale(c, n) => SocketKept(c)
      /\ ~Stale(c, n) =>
            /\ sock[c].state = "awaiting" /\ sock'[c].state = "active" /\ sock'[c].conn = sock[c].conn
            /\ \/ sock'[c].fence = 0
               \/ sock'[c].fence = lease'.fence /\ lease'.fence > lease.fence
  <2>1. CASE Acquire(c, n)
    <3>1. lease.fence + 1 > lease.fence
        BY LeaseFacts
    <3> QED
        BY <2>1, <3>1, AcquireKeeps
  <2>2. CASE AcquireTooLate(c, n)
    <3>1. sock' = IF Stale(c, n) THEN sock ELSE [sock EXCEPT ![c].state = "active"]
        BY <2>2 DEF AcquireTooLate
    <3>2. CASE Stale(c, n)
        BY <3>1, <3>2 DEF SocketKept
    <3>3. CASE ~Stale(c, n)
        BY <3>1, <3>3, WaitingKeeps DEF Stale
    <3> QED
        BY <3>2, <3>3
  <2> QED
      BY <1>1, <2>1, <2>2
<1>5. /\ up' \in [Clients -> Seq(KeyFrame)]
      /\ \A d \in Clients : \/ DOMAIN up'[d] = {}
                            \/ up'[d] = up[d] /\ sock'[d].state = "active"
  <2>1. up \in [Clients -> Seq(KeyFrame)]
      BY DEF Connected, QueueTypes
  <2> QED
      BY <1>1, <2>1, HeardKeys
<1>6. ASSUME NEW d \in Clients, SocketKept(d), down'[d] = down[d]
      PROVE  Linked(d)'
    BY <1>1, <1>3, <1>5, <1>6, LinkUntouched DEF Connected, Links
<1>7. CASE Stale(c, n)
  <2>1. down' = down /\ \A d \in Clients : SocketKept(d)
      BY <1>1, <1>4, <1>7
  <2> QED
      BY <1>1, <1>5, <1>6, <2>1 DEF Connected, QueueTypes, Links
<1>8. CASE ~Stale(c, n)
  <2>1. DOMAIN up'[c] = {}
    <3>1. DOMAIN up[c] = {}
        BY <1>4, <1>8 DEF Connected, Links, Linked
    <3> QED
        BY <1>5, <3>1
  <2>2. /\ Linked(c)' /\ down' \in [Clients -> Seq(DownFrame)]
        /\ \A d \in Clients : d # c => down'[d] = down[d]
      BY <1>1, <1>3, <1>4, <1>8, <2>1, WelcomeKeepsLink
  <2>3. ASSUME NEW d \in Clients, d # c PROVE Linked(d)'
      BY <1>4, <1>6, <2>2, <2>3
  <2> QED
      BY <1>1, <1>5, <2>2, <2>3 DEF Connected, QueueTypes, Links
<1> QED
    BY <1>7, <1>8

\* A frame that is no welcome, to a connection that is active
LEMMA SentDownKeepsLinks ==
    ASSUME LeaseInv, Connected, Ledgers, lease'.fence \in Nat, lease'.fence >= lease.fence,
           \A d \in Clients : SocketKept(d), UNCHANGED <<authority, page>>,
           NEW c \in Clients, NEW frame \in DownFrame, frame.type # "welcome",
           SendDown(c, frame), sock[c].state # "awaiting",
           \A d \in Clients : \A i \in DOMAIN up'[d] :
                /\ sock'[d].state = "active"
                /\ \E j \in DOMAIN up[d] : up'[d][i].epoch = up[d][j].epoch
    PROVE  Links' /\ down' \in [Clients -> Seq(DownFrame)]
<1>1. /\ down' \in [Clients -> Seq(DownFrame)]
      /\ \A d \in Clients : d # c => down'[d] = down[d]
      /\ \A i \in DOMAIN down'[c] :
            \/ i \in DOMAIN down[c] /\ down'[c][i] = down[c][i]
            \/ i = Len(down[c]) + 1 /\ down'[c][i] = frame
    BY FrameSentDown DEF Connected
<1>2. ASSUME NEW d \in Clients PROVE Linked(d)'
  <2>1. /\ Linked(d) /\ lease.fence \in Nat /\ sock[d].fence \in Nat
        /\ authority[d] \in Browser!Authority
        /\ sock'[d].fence = sock[d].fence /\ sock'[d].conn = sock[d].conn
      BY LeaseFacts, LedgerFacts DEF Connected, Links, SocketKept
  <2>2. sock'[d].state = "awaiting" => sock[d].state = "awaiting" /\ down'[d] = down[d]
      BY <1>1 DEF SocketKept
  <2>3. Demoted(authority[d], authority'[d])
      BY <2>1, AuthorityDemoted
  <2>4. page[d] = 0 => authority'[d].state = "detached"
      BY <2>1 DEF Linked
  <2>5. \A i \in DOMAIN down'[d] : down'[d][i].type = "welcome" =>
            i \in DOMAIN down[d] /\ down'[d][i] = down[d][i]
      BY <1>1
  <2> QED
      BY <2>1, <2>2, <2>3, <2>4, <2>5, LinkKept
<1> QED
    BY <1>1, <1>2 DEF Links

LEMMA RefuseRenewalKeepsLinks ==
    ASSUME LeaseInv, Connected, Ledgers, NEW c \in Clients, RefuseRenewal(c)
    PROVE  Connected'
<1>1. /\ SendDown(c, Inactive) /\ sock[c].state = "active"
      /\ UNCHANGED <<lease, sock, authority, page, up, toHost, acks>>
    BY DEF RefuseRenewal, browserVars, leaseVars
<1>2. Inactive \in DownFrame /\ Inactive.type # "welcome"
    BY FrameTypes
<1>3. lease'.fence \in Nat /\ lease'.fence >= lease.fence /\ \A d \in Clients : SocketKept(d)
    BY <1>1, LeaseFacts DEF SocketKept
<1>4. \A d \in Clients : \A i \in DOMAIN up'[d] :
          /\ sock'[d].state = "active"
          /\ \E j \in DOMAIN up[d] : up'[d][i].epoch = up[d][j].epoch
    BY <1>1 DEF Connected, Links, Linked
<1>5. Links' /\ down' \in [Clients -> Seq(DownFrame)]
    BY <1>1, <1>2, <1>3, <1>4, SentDownKeepsLinks
<1> QED
    BY <1>1, <1>5 DEF Connected, QueueTypes

\* A key that the relay takes from its queue
LEMMA KeyTaken ==
    ASSUME LeaseInv, Connected, NEW c \in Clients, up[c] # <<>>
    PROVE  LET frame == Head(up[c])
           IN  /\ frame \in KeyFrame /\ frame.epoch = sock[c].fence /\ sock[c].state = "active"
               /\ 1 \in DOMAIN up[c] /\ up[c][1] = frame
               /\ Forwarded(c, frame) \in Forward
               /\ Forwarded(c, frame).conn = <<c, sock[c].conn>>
               /\ Forwarded(c, frame).id = InputOf(c, frame)
               /\ InputOf(c, frame) \in Input
<1>1. up[c] \in Seq(KeyFrame) /\ Linked(c)
    BY DEF Connected, QueueTypes, Links
<1>2. Head(up[c]) \in KeyFrame /\ 1 \in DOMAIN up[c] /\ Head(up[c]) = up[c][1]
    BY <1>1, TakenFromQueue
<1>3. Head(up[c]).epoch = sock[c].fence /\ sock[c].state = "active"
    BY <1>1, <1>2 DEF Linked
<1>4. InputOf(c, Head(up[c])) \in Input
    BY <1>2 DEF InputOf, Input, KeyFrame
<1>5. <<c, sock[c].conn>> \in Connection
    BY LeaseFacts DEF Connection
<1>6. /\ Forwarded(c, Head(up[c])).conn = <<c, sock[c].conn>>
      /\ Forwarded(c, Head(up[c])).id = InputOf(c, Head(up[c]))
    BY <1>3 DEF Forwarded, InputOf, ConnId
<1>7. Forwarded(c, Head(up[c])) \in Forward
    BY <1>3, <1>4, <1>5, <1>6 DEF Forwarded, Forward, ConnId, InputOf
<1> QED
    BY <1>2, <1>3, <1>4, <1>6, <1>7

LEMMA ForwardKeyKeepsLinks ==
    ASSUME LeaseInv, Connected, Ledgers, NEW c \in Clients, ForwardKey(c)
    PROVE  Connected'
<1>1. /\ up[c] # <<>> /\ toHost' = Append(toHost, Forwarded(c, Head(up[c])))
      /\ up' = [up EXCEPT ![c] = Tail(@)]
      /\ UNCHANGED <<lease, sock, authority, page, down, acks>>
    BY DEF ForwardKey, browserVars, leaseVars
<1>2. up \in [Clients -> Seq(KeyFrame)] /\ up[c] \in Seq(KeyFrame) /\ toHost \in Seq(Forward)
    BY DEF Connected, QueueTypes
<1>3. /\ Tail(up[c]) \in Seq(KeyFrame)
      /\ \A i \in DOMAIN Tail(up[c]) : i + 1 \in DOMAIN up[c] /\ Tail(up[c])[i] = up[c][i + 1]
    BY <1>1, <1>2, TakenFromQueue
<1>4. up' \in [Clients -> Seq(KeyFrame)] /\ up'[c] = Tail(up[c]) /\ \A d \in Clients : d # c => up'[d] = up[d]
    BY <1>1, <1>2, <1>3
<1>5. toHost' \in Seq(Forward)
    BY <1>1, <1>2, KeyTaken, AddedToQueue
<1>6. lease'.fence \in Nat /\ lease'.fence >= lease.fence /\ lease.fence \in Nat
    BY <1>1, LeaseFacts
<1>7. ASSUME NEW d \in Clients PROVE Linked(d)'
  <2>1. /\ Linked(d) /\ sock[d].fence \in Nat
        /\ authority[d] \in Browser!Authority /\ authority'[d] = authority[d]
        /\ sock'[d] = sock[d] /\ page'[d] = page[d] /\ down'[d] = down[d]
      BY <1>1, LeaseFacts, LedgerFacts DEF Connected, Links
  <2>2. \A i \in DOMAIN up'[d] : /\ sock'[d].state = "active"
                                 /\ \E j \in DOMAIN up[d] : up'[d][i].epoch = up[d][j].epoch
    <3>1. \A j \in DOMAIN up[d] : sock[d].state = "active"
        BY <2>1 DEF Linked
    <3>2. \A i \in DOMAIN up'[d] : \E j \in DOMAIN up[d] : up'[d][i] = up[d][j]
        BY <1>3, <1>4
    <3> QED
        BY <2>1, <3>1, <3>2
  <2>3. Demoted(authority[d], authority'[d])
      BY <2>1, AuthorityDemoted
  <2>4. page[d] = 0 => authority'[d].state = "detached"
      BY <2>1 DEF Linked
  <2> QED
      BY <1>6, <2>1, <2>2, <2>3, <2>4, LinkKept
<1> QED
    BY <1>1, <1>4, <1>5, <1>7 DEF Connected, QueueTypes, Links

\* What becomes of a key that the relay refuses
LEMMA KeyRefused ==
    ASSUME LeaseInv, Connected, NEW c \in Clients, RefuseKey(c)
    PROVE  LET frame == Head(up[c])
               answer_ == Ack(sock[c].fence, frame.epoch, frame.seq, "uncertain")
           IN  /\ up[c] # <<>> /\ CloseControl(c) /\ SendDown(c, answer_) /\ up' = Heard(up)
               /\ answer_ \in DownFrame /\ answer_.type = "ack" /\ answer_.status = "uncertain"
               /\ InputOf(c, answer_) = InputOf(c, frame)
               /\ \/ toHost' = toHost
                  \/ Live(c) /\ toHost' = Append(toHost, Forwarded(c, frame))
               /\ acks' = acks \/ acks' = <<>>
               /\ UNCHANGED <<browserVars, hostVars, page>>
<1> DEFINE frame == Head(up[c])
<1>1. /\ up[c] # <<>> /\ CloseControl(c) /\ SendDown(c, Ack(sock[c].fence, frame.epoch, frame.seq, "uncertain"))
      /\ up' = Heard(up)
      /\ \/ toHost' = toHost
         \/ Live(c) /\ toHost' = Append(toHost, Forwarded(c, frame))
      /\ acks' = acks \/ acks' = <<>>
      /\ UNCHANGED <<browserVars, hostVars, page>>
    BY DEF RefuseKey, RefusalStatus
<1>2. frame.epoch \in 0 .. MaxFence /\ frame.seq \in 0 .. MaxIntents /\ sock[c].fence \in 0 .. MaxFence
    BY <1>1, KeyTaken, LeaseFacts, LeaseAssumption, PipelineAssumption DEF KeyFrame
<1>3. "uncertain" \in Host!Status
    BY DEF Host!Status
<1>4. /\ Ack(sock[c].fence, frame.epoch, frame.seq, "uncertain") \in DownFrame
      /\ Ack(sock[c].fence, frame.epoch, frame.seq, "uncertain").type = "ack"
    BY <1>2, <1>3, FrameTypes
<1> QED
    BY <1>1, <1>4 DEF Ack, InputOf

LEMMA RefuseKeyKeepsLinks ==
    ASSUME LeaseInv, Connected, Ledgers, NEW c \in Clients, RefuseKey(c)
    PROVE  Connected'
<1> DEFINE frame == Head(up[c])
           refusal == Ack(sock[c].fence, frame.epoch, frame.seq, "uncertain")
<1>1. /\ up[c] # <<>> /\ CloseControl(c) /\ SendDown(c, refusal) /\ up' = Heard(up)
      /\ refusal \in DownFrame /\ refusal.type = "ack"
      /\ toHost' = toHost \/ toHost' = Append(toHost, Forwarded(c, frame))
      /\ acks' = acks \/ acks' = <<>>
      /\ UNCHANGED <<authority, page>>
    BY KeyRefused DEF browserVars
<1>2. LeaseNext
    BY <1>1 DEF LeaseNext, LeaseStep
<1>3. lease'.fence \in Nat /\ lease'.fence >= lease.fence /\ \A d \in Clients : SocketKept(d)
    BY <1>1, <1>2, LeaseFenceGrows, CloseKeeps
<1>4. Forwarded(c, frame) \in Forward /\ sock[c].state = "active"
    BY <1>1, KeyTaken
<1> HIDE DEF frame, refusal
<1>5. up \in [Clients -> Seq(KeyFrame)] /\ toHost \in Seq(Forward) /\ acks \in Seq(HostAck)
    BY DEF Connected, QueueTypes
<1>6. /\ up' \in [Clients -> Seq(KeyFrame)]
      /\ \A d \in Clients : \/ DOMAIN up'[d] = {}
                            \/ up'[d] = up[d] /\ sock'[d].state = "active"
    BY <1>1, <1>5, HeardKeys
<1>7. Links' /\ down' \in [Clients -> Seq(DownFrame)]
    BY <1>1, <1>3, <1>4, <1>6, SentDownKeepsLinks
<1>8. toHost' \in Seq(Forward) /\ acks' \in Seq(HostAck)
  <2>1. Append(toHost, Forwarded(c, frame)) \in Seq(Forward)
      BY <1>4, <1>5, AddedToQueue
  <2>2. <<>> \in Seq(HostAck)
      BY EmptyQueue
  <2> QED
      BY <1>1, <1>5, <2>1, <2>2
<1> QED
    BY <1>1, <1>6, <1>7, <1>8 DEF Connected, QueueTypes

\* An acknowledgement that the relay passes on
LEMMA AckRelayed ==
    ASSUME LeaseInv, Connected, RelayAck
    PROVE  LET ack == Head(acks)
               c == ack.id.client
               frame == Ack(sock[c].fence, ack.id.epoch, ack.id.seq, ack.status)
           IN  /\ acks # <<>> /\ acks' = Tail(acks) /\ acks' \in Seq(HostAck)
               /\ ack \in HostAck /\ c \in Clients /\ 1 \in DOMAIN acks /\ ack = acks[1]
               /\ \/ down' = down
                  \/ /\ SendDown(c, frame) /\ sock[c].state = "active"
                     /\ frame \in DownFrame /\ frame.type = "ack" /\ frame.status = ack.status
                     /\ frame.epoch = ack.id.epoch /\ frame.seq = ack.id.seq
               /\ UNCHANGED <<leaseVars, browserVars, hostVars, page, up, toHost>>
<1> DEFINE ack == Head(acks)
           c == ack.id.client
           frame == Ack(sock[c].fence, ack.id.epoch, ack.id.seq, ack.status)
<1>1. /\ acks # <<>> /\ acks' = Tail(acks)
      /\ \/ down' = down
         \/ SendDown(c, frame) /\ sock[c].state = "active"
      /\ UNCHANGED <<leaseVars, browserVars, hostVars, page, up, toHost>>
    BY DEF RelayAck
<1>2. Tail(acks) \in Seq(HostAck) /\ ack \in HostAck /\ 1 \in DOMAIN acks /\ ack = acks[1]
    BY <1>1, TakenFromQueue DEF Connected, QueueTypes
<1>3. c \in Clients /\ ack.id.epoch \in 0 .. MaxFence /\ ack.id.seq \in 0 .. MaxIntents
      /\ ack.status \in Host!Status
    BY <1>2, LeaseAssumption, PipelineAssumption DEF HostAck, Input
<1>4. sock[c].fence \in 0 .. MaxFence
    BY <1>3, LeaseFacts
<1>5. frame \in DownFrame /\ frame.type = "ack"
    BY <1>3, <1>4, FrameTypes
<1>6. frame.status = ack.status /\ frame.epoch = ack.id.epoch /\ frame.seq = ack.id.seq
    BY DEF Ack
<1> HIDE DEF frame, c, ack
<1>7. QED
    BY <1>1, <1>2, <1>3, <1>5, <1>6 DEF frame, c, ack

LEMMA RelayAckKeepsLinks ==
    ASSUME LeaseInv, Connected, Ledgers, RelayAck
    PROVE  Connected'
<1> DEFINE ack == Head(acks)
           c == ack.id.client
           frame == Ack(sock[c].fence, ack.id.epoch, ack.id.seq, ack.status)
<1>1. /\ acks' \in Seq(HostAck) /\ c \in Clients
      /\ \/ down' = down
         \/ SendDown(c, frame) /\ sock[c].state = "active" /\ frame \in DownFrame /\ frame.type = "ack"
      /\ UNCHANGED <<lease, sock, authority, page, up, toHost>>
    BY AckRelayed DEF leaseVars, browserVars
<1> HIDE DEF frame, c, ack
<1>2. lease'.fence \in Nat /\ lease'.fence >= lease.fence /\ \A d \in Clients : SocketKept(d)
    BY <1>1, LeaseFacts DEF SocketKept
<1>3. \A d \in Clients : \A i \in DOMAIN up'[d] :
          /\ sock'[d].state = "active"
          /\ \E j \in DOMAIN up[d] : up'[d][i].epoch = up[d][j].epoch
    BY <1>1 DEF Connected, Links, Linked
<1>4. CASE down' = down
    BY <1>1, <1>4 DEF Connected, QueueTypes, Links, Linked, Attached
<1>5. CASE SendDown(c, frame) /\ sock[c].state = "active" /\ frame \in DownFrame /\ frame.type = "ack"
  <2>1. Links' /\ down' \in [Clients -> Seq(DownFrame)]
      BY <1>1, <1>2, <1>3, <1>5, SentDownKeepsLinks
  <2> QED
      BY <1>1, <2>1 DEF Connected, QueueTypes
<1> QED
    BY <1>1, <1>4, <1>5

-----------------------------------------------------------------------------
(* The host's steps keep the links *)

\* What the host does with a key
LEMMA KeySubmitted ==
    ASSUME Connected, HostReceives
    PROVE  LET input == Head(toHost)
               ack == [conn |-> input.conn, id |-> input.id, status |-> answer'.status]
           IN  /\ toHost # <<>> /\ toHost' = Tail(toHost) /\ toHost' \in Seq(Forward)
               /\ input \in Forward /\ input.id \in Input
               /\ 1 \in DOMAIN toHost /\ input = toHost[1]
               /\ \A i \in DOMAIN toHost' : i \in Nat /\ i > 0 /\ i + 1 \in DOMAIN toHost
                                            /\ toHost'[i] = toHost[i + 1]
               /\ Host!SubmitInput(input.id)
               /\ acks' = acks \/ acks' = Append(acks, ack)
               /\ UNCHANGED <<leaseVars, browserVars, page, up, down>>
<1>1. /\ toHost # <<>> /\ toHost' = Tail(toHost) /\ Host!SubmitInput(Head(toHost).id)
      /\ \/ acks' = acks
         \/ acks' = Append(acks, [conn |-> Head(toHost).conn, id |-> Head(toHost).id, status |-> answer'.status])
      /\ UNCHANGED <<leaseVars, browserVars, page, up, down>>
    BY DEF HostReceives
<1>2. toHost \in Seq(Forward)
    BY DEF Connected, QueueTypes
<1>3. /\ Tail(toHost) \in Seq(Forward) /\ Head(toHost) \in Forward
      /\ 1 \in DOMAIN toHost /\ Head(toHost) = toHost[1]
      /\ \A i \in DOMAIN Tail(toHost) : i \in Nat /\ i > 0 /\ i + 1 \in DOMAIN toHost
                                        /\ Tail(toHost)[i] = toHost[i + 1]
    BY <1>1, <1>2, TakenFromQueue
<1>4. Head(toHost).id \in Input
    BY <1>3 DEF Forward
<1> QED
    BY <1>1, <1>3, <1>4

LEMMA HostKeepsLinks ==
    ASSUME LeaseInv, Answers!IInv, Connected, Ledgers, HostActs
    PROVE  Connected'
<1>1. UNCHANGED <<lease, sock, authority, page, up, down>>
    BY DEF HostActs, HostReceives, HostConnects, RelayLosesHost, HostLosesRelay, leaseVars, browserVars
<1>2. Links'
    BY <1>1 DEF Connected, Links, Linked, Attached
<1>3. toHost' \in Seq(Forward) /\ acks' \in Seq(HostAck)
  <2>1. toHost \in Seq(Forward) /\ acks \in Seq(HostAck)
      BY DEF Connected, QueueTypes
  <2>2. CASE HostReceives
    <3> DEFINE input == Head(toHost)
               ack == [conn |-> input.conn, id |-> input.id, status |-> answer'.status]
    <3>1. /\ toHost' \in Seq(Forward) /\ input \in Forward /\ input.id \in Input
          /\ Host!SubmitInput(input.id) /\ (acks' = acks \/ acks' = Append(acks, ack))
        BY <2>2, KeySubmitted
    <3>2. answer'.status \in Host!Status
        BY <3>1, InputSubmitted
    <3>3. ack \in HostAck
        BY <3>1, <3>2 DEF HostAck, Forward
    <3> HIDE DEF ack, input
    <3> QED
        BY <2>1, <3>1, <3>3, AddedToQueue, SMTT(30)
  <2>3. CASE HostConnects \/ RelayLosesHost \/ HostLosesRelay
    <3>1. toHost' \in {toHost, <<>>} /\ acks' \in {acks, <<>>}
        BY <2>3 DEF HostConnects, RelayLosesHost, HostLosesRelay
    <3> QED
        BY <2>1, <3>1, EmptyQueue
  <2> QED
      BY <2>2, <2>3 DEF HostActs
<1> QED
    BY <1>1, <1>2, <1>3 DEF Connected, QueueTypes

-----------------------------------------------------------------------------
(* The browsers' steps *)

\* The step ends intents of c, may take a frame from its connection, and may give the
\* connection up.
BrowserEnds(c, results) ==
    /\ IntentsEnd(c, results)
    /\ \/ page' = page
       \/ page' = [page EXCEPT ![c] = 0] /\ authority'[c].state = "detached"
    /\ page[c] = 0 => authority'[c].state = "detached"
    /\ down' = down \/ (down[c] # <<>> /\ down' = [down EXCEPT ![c] = Tail(@)])
    /\ UNCHANGED <<leaseVars, hostVars, up, toHost, acks>>

\* A welcome opens the epoch of its fence.
BrowserOpens(c, fence) ==
    /\ EpochOpened(c, fence) /\ fence \in 1 .. MaxFence
    /\ page[c] # 0 /\ down[c] # <<>> /\ fence = Head(down[c]).fence
    /\ Head(down[c]).type = "welcome"
    /\ down' = [down EXCEPT ![c] = Tail(@)]
    /\ UNCHANGED <<leaseVars, hostVars, page, up, toHost, acks>>

\* A key is consumed, with the intent x, and may be sent.
BrowserPresses(c, x) ==
    /\ KeyAdded(c, x) /\ page[c] # 0
    /\ \/ up' = up /\ x.phase # "sent"
       \/ x.phase # "done" /\ up' = Heard([up EXCEPT ![c] = Append(@, [epoch |-> x.fence, seq |-> x.seq])])
    /\ UNCHANGED <<leaseVars, hostVars, page, down, toHost, acks>>

\* An acknowledgement ends the intent that it names.
AckTaken(c, frame) ==
    /\ down[c] # <<>> /\ frame.type = "ack" /\ frame.status \in Verdicts
    /\ BrowserEnds(c, {frame.status})
    /\ \A i \in DOMAIN intents[c] : intents'[c][i] # intents[c][i] =>
          intents[c][i].fence = frame.epoch /\ intents[c][i].seq = frame.seq

LEMMA NothingEnds ==
    ASSUME Ledgers, NEW c \in Clients, UNCHANGED <<authority, intents>>, NEW results
    PROVE  IntentsEnd(c, results)
<1>1. authority[c] \in Browser!Authority /\ intents[c] \in Seq(Browser!Intent)
    BY LedgerFacts
<1>2. Demoted(authority[c], authority'[c])
    BY <1>1, AuthorityDemoted
<1>3. authority' = [authority EXCEPT ![c] = authority'[c]] /\ intents' = [intents EXCEPT ![c] = intents'[c]]
    BY DEF Ledgers
<1> QED
    BY <1>1, <1>2, <1>3 DEF IntentsEnd, Ended

LEMMA ReceivedForms ==
    ASSUME Connected, Ledgers, AnswersAreTrue, NEW c \in Clients, BrowserReceives(c),
           UNCHANGED leaseVars
    PROVE  \/ BrowserEnds(c, {})
           \/ \E fence \in 1 .. MaxFence : BrowserOpens(c, fence)
           \/ AckTaken(c, Head(down[c]))
<1> DEFINE frame == Head(down[c])
<1>1. /\ page[c] # 0 /\ down[c] # <<>> /\ down' = [down EXCEPT ![c] = Tail(@)]
      /\ UNCHANGED <<leaseVars, hostVars, up, toHost, acks>>
      /\ \/ frame.type = "welcome" /\ TakeWelcome(c, frame.fence)
         \/ frame.type = "inactive" /\ Browser!Revoke(c) /\ UNCHANGED page
         \/ frame.type = "ack" /\ TakeAck(c, frame) /\ UNCHANGED page
    BY DEF BrowserReceives
<1>2. frame \in DownFrame /\ 1 \in DOMAIN down[c] /\ frame = down[c][1]
    BY <1>1, TakenFromQueue DEF Connected, QueueTypes
<1> HIDE DEF frame
<1>3. CASE frame.type = "welcome" /\ TakeWelcome(c, frame.fence)
  <2>1. CASE frame.fence = 0
    <3>1. IntentsEnd(c, {}) /\ page' = page
        BY <1>3, <2>1, WelcomeWaitingEnds DEF TakeWelcome
    <3> QED
        BY <1>1, <3>1 DEF BrowserEnds
  <2>2. CASE frame.fence # 0 /\ frame.fence > authority[c].highest
    <3>1. Browser!WelcomeWriter(c, frame.fence) /\ page' = page
        BY <1>3, <2>2 DEF TakeWelcome
    <3>2. EpochOpened(c, frame.fence)
        BY <3>1, WelcomeOpensEpoch
    <3>3. frame.fence \in 1 .. MaxFence
        BY <1>2, <2>2, LeaseAssumption DEF DownFrame
    <3>4. BrowserOpens(c, frame.fence)
        BY <1>1, <1>3, <3>1, <3>2, <3>3 DEF BrowserOpens, frame
    <3> QED
        BY <3>3, <3>4
  <2>3. CASE frame.fence # 0 /\ ~(frame.fence > authority[c].highest)
    <3>1. Browser!Detach(c, "control-replaced") /\ page' = [page EXCEPT ![c] = 0]
        BY <1>3, <2>3 DEF TakeWelcome
    <3>2. IntentsEnd(c, {}) /\ authority'[c].state = "detached"
        BY <3>1, DetachEnds
    <3> QED
        BY <1>1, <3>1, <3>2 DEF BrowserEnds
  <2> QED
      BY <2>1, <2>2, <2>3
<1>4. CASE frame.type = "inactive" /\ Browser!Revoke(c) /\ UNCHANGED page
  <2>1. IntentsEnd(c, {})
      BY <1>4, RevokeEnds
  <2> QED
      BY <1>1, <1>4, <2>1 DEF BrowserEnds
<1>5. CASE frame.type = "ack" /\ TakeAck(c, frame) /\ UNCHANGED page
  <2>1. frame.status \in Verdicts
    <3>1. frame.status # "none"
        BY <1>2, <1>5 DEF AnswersAreTrue
    <3> QED
        BY <1>2, <3>1 DEF DownFrame, Host!Status, Verdicts
  <2>2. CASE frame.epoch = frame.fence
    <3>1. Browser!AcceptAcknowledgement(c, frame.fence, frame.seq, frame.status)
        BY <1>5, <2>2 DEF TakeAck
    <3>2. /\ IntentsEnd(c, {frame.status})
          /\ \A i \in DOMAIN intents[c] : intents'[c][i] # intents[c][i] =>
                intents[c][i].fence = frame.epoch /\ intents[c][i].seq = frame.seq
        BY <2>1, <2>2, <3>1, AcknowledgementEnds
    <3>3. BrowserEnds(c, {frame.status})
        BY <1>1, <1>5, <3>2 DEF BrowserEnds
    <3> QED
        BY <1>1, <1>5, <2>1, <3>2, <3>3 DEF AckTaken, frame
  <2>3. CASE frame.epoch # frame.fence
    <3>1. UNCHANGED <<authority, intents>>
        BY <1>5, <2>3 DEF TakeAck, browserVars
    <3>2. IntentsEnd(c, {})
        BY <3>1, NothingEnds
    <3>3. BrowserEnds(c, {})
        BY <1>1, <1>5, <3>2 DEF BrowserEnds
    <3> QED
        BY <3>3
  <2> QED
      BY <2>2, <2>3
<1> QED
    BY <1>1, <1>3, <1>4, <1>5

LEMMA PressedForm ==
    ASSUME Connected, Ledgers, NEW c \in Clients, PressKey(c), UNCHANGED leaseVars
    PROVE  \E x \in Browser!Intent : BrowserPresses(c, x)
<1> DEFINE key == intents'[c][Len(intents'[c])]
           frame == [epoch |-> key.fence, seq |-> key.seq]
<1>1. /\ page[c] # 0 /\ UNCHANGED <<hostVars, page, down, toHost, acks>>
      /\ \E cut \in 1 .. MaxIntents, n \in 0 .. 1, how \in Browser!SendDecisions :
            Browser!ConsumeKey(c, cut, n, how)
      /\ CASE key.phase = "sent" -> up' = Heard([up EXCEPT ![c] = Append(@, frame)])
           [] key.phase = "terminating" ->
                 up' \in {up, Heard([up EXCEPT ![c] = Append(@, frame)])}
           [] key.phase = "done" -> up' = up
    BY DEF PressKey
<1>2. PICK x \in Browser!Intent : KeyAdded(c, x)
    BY <1>1, KeyConsumed
<1>3. key = x
  <2>1. intents'[c] = Append(intents[c], x) /\ intents[c] \in Seq(Browser!Intent)
      BY <1>2, LedgerFacts DEF KeyAdded, Ledgers
  <2>2. Len(Append(intents[c], x)) = Len(intents[c]) + 1 /\ Append(intents[c], x)[Len(intents[c]) + 1] = x
      BY <1>2, <2>1, AppendProperties
  <2> QED
      BY <2>1, <2>2
<1>4. x.phase \in {"sent", "terminating", "done"}
    BY <1>2 DEF KeyAdded, KeyOf
<1> HIDE DEF key
<1>5. \/ up' = up /\ x.phase # "sent"
      \/ x.phase # "done" /\ up' = Heard([up EXCEPT ![c] = Append(@, [epoch |-> x.fence, seq |-> x.seq])])
  <2>1. frame = [epoch |-> x.fence, seq |-> x.seq]
      BY <1>3
  <2> HIDE DEF frame
  <2>2. CASE key.phase = "sent"
      BY <1>1, <1>3, <2>1, <2>2
  <2>3. CASE key.phase = "terminating"
      BY <1>1, <1>3, <2>1, <2>3
  <2>4. CASE key.phase = "done"
      BY <1>1, <1>3, <2>1, <2>4
  <2> QED
      BY <1>3, <1>4, <2>2, <2>3, <2>4
<1> QED
    BY <1>1, <1>2, <1>5 DEF BrowserPresses

LEMMA BrowserForms ==
    ASSUME Connected, Ledgers, AnswersAreTrue, NEW c \in Clients, BrowserActs(c)
    PROVE  \/ \E x \in Browser!Intent : BrowserPresses(c, x)
           \/ BrowserEnds(c, {"uncertain"})
           \/ \E fence \in 1 .. MaxFence : BrowserOpens(c, fence)
           \/ AckTaken(c, Head(down[c]))
<1>1. UNCHANGED leaseVars
    BY DEF BrowserActs
<1>2. CASE PressKey(c)
    BY <1>1, <1>2, PressedForm
<1>3. CASE BrowserTimer(c)
  <2>1. /\ Browser!ExpireSent(c) \/ Browser!ExpireTerminating(c)
        /\ UNCHANGED <<hostVars, page, up, down, toHost, acks>>
      BY <1>3 DEF BrowserTimer, pipeVars
  <2>2. IntentsEnd(c, {"uncertain"}) /\ (authority[c].state = "detached" => authority'[c].state = "detached")
      BY <2>1, TimerEnds
  <2>3. page[c] = 0 => authority[c].state = "detached"
      BY Zenon DEF Connected, Links, Linked
  <2> QED
      BY <1>1, <2>1, <2>2, <2>3 DEF BrowserEnds
<1>4. ASSUME BrowserEnds(c, {}) PROVE BrowserEnds(c, {"uncertain"})
    BY <1>4 DEF BrowserEnds, IntentsEnd, Ended
<1>5. CASE LeaveConnection(c)
  <2>1. /\ Browser!Detach(c, "control-replaced") /\ page' = [page EXCEPT ![c] = 0]
        /\ UNCHANGED <<hostVars, up, down, toHost, acks>>
      BY <1>5 DEF LeaveConnection
  <2>2. IntentsEnd(c, {}) /\ authority'[c].state = "detached"
      BY <2>1, DetachEnds
  <2>3. BrowserEnds(c, {})
      BY <1>1, <2>1, <2>2 DEF BrowserEnds
  <2> QED
      BY <1>4, <2>3
<1>6. CASE BrowserReceives(c)
    BY <1>1, <1>4, <1>6, ReceivedForms
<1> QED
    BY <1>2, <1>3, <1>5, <1>6 DEF BrowserActs

LEMMA EndsKeepLinks ==
    ASSUME LeaseInv, Connected, Ledgers, NEW c \in Clients, NEW results, BrowserEnds(c, results)
    PROVE  Connected'
<1>1. /\ authority' = [authority EXCEPT ![c] = authority'[c]]
      /\ Demoted(authority[c], authority'[c])
      /\ \/ page' = page
         \/ page' = [page EXCEPT ![c] = 0] /\ authority'[c].state = "detached"
      /\ page[c] = 0 => authority'[c].state = "detached"
      /\ down' = down \/ (down[c] # <<>> /\ down' = [down EXCEPT ![c] = Tail(@)])
      /\ UNCHANGED <<lease, sock, up, toHost, acks>>
    BY DEF BrowserEnds, IntentsEnd, leaseVars
<1>2. QueueTypes /\ down[c] \in Seq(DownFrame)
    BY DEF Connected, QueueTypes
<1>3. ASSUME down[c] # <<>>
      PROVE  /\ Tail(down[c]) \in Seq(DownFrame)
             /\ \A i \in DOMAIN Tail(down[c]) : i \in Nat /\ i > 0 /\ i + 1 \in DOMAIN down[c]
                                                /\ Tail(down[c])[i] = down[c][i + 1]
    BY <1>2, <1>3, TakenFromQueue
<1>4. /\ page' \in [Clients -> 0 .. MaxConns] /\ down' \in [Clients -> Seq(DownFrame)]
      /\ \A d \in Clients : d # c => page'[d] = page[d] /\ down'[d] = down[d] /\ authority'[d] = authority[d]
      /\ page'[c] = page[c] \/ (page'[c] = 0 /\ authority'[c].state = "detached")
      /\ down'[c] = down[c] \/ (down[c] # <<>> /\ down'[c] = Tail(down[c]))
  <2>1. page \in [Clients -> 0 .. MaxConns] /\ down \in [Clients -> Seq(DownFrame)]
        /\ authority \in [Clients -> Browser!Authority]
      BY <1>2 DEF QueueTypes, Ledgers
  <2>2. 0 \in 0 .. MaxConns
      BY LeaseAssumption
  <2>3. /\ page' \in [Clients -> 0 .. MaxConns]
        /\ page'[c] = page[c] \/ (page'[c] = 0 /\ authority'[c].state = "detached")
        /\ \A d \in Clients : d # c => page'[d] = page[d]
      BY <1>1, <2>1, <2>2
  <2>4. /\ down' \in [Clients -> Seq(DownFrame)]
        /\ down'[c] = down[c] \/ (down[c] # <<>> /\ down'[c] = Tail(down[c]))
        /\ \A d \in Clients : d # c => down'[d] = down[d]
      BY <1>1, <1>3, <2>1
  <2>5. \A d \in Clients : d # c => authority'[d] = authority[d]
      BY <1>1, <2>1
  <2> QED
      BY <2>3, <2>4, <2>5
<1>5. lease.fence \in Nat /\ lease'.fence \in Nat /\ lease'.fence >= lease.fence
    BY <1>1, LeaseFacts
<1>6. ASSUME NEW d \in Clients, d # c PROVE Linked(d)'
  <2>1. Linked(d)
      BY DEF Connected, Links
  <2> QED
      BY <1>1, <1>4, <1>6, <2>1 DEF Linked, Attached
<1>7. Linked(c)'
  <2>1. /\ Linked(c) /\ authority[c] \in Browser!Authority /\ sock[c].fence \in Nat
        /\ sock'[c] = sock[c] /\ up'[c] = up[c]
      BY <1>1, LedgerFacts, LeaseFacts DEF Connected, Links
  <2>2. sock'[c].state = "awaiting" => sock[c].state = "awaiting" /\ down'[c] = down[c]
      BY <1>4, <2>1 DEF Linked
  <2>3. \A i \in DOMAIN up'[c] : /\ sock'[c].state = "active"
                                 /\ \E j \in DOMAIN up[c] : up'[c][i].epoch = up[c][j].epoch
      BY <2>1 DEF Linked
  <2>4. \A i \in DOMAIN down'[c] : down'[c][i].type = "welcome" =>
            i \in DOMAIN down[c] /\ down'[c][i] = down[c][i]
    <3>1. CASE down'[c] = down[c]
        BY <3>1
    <3>2. CASE down[c] # <<>> /\ down'[c] = Tail(down[c])
      <4>1. \A j \in DOMAIN down[c] : down[c][j].type = "welcome" => j = 1
          BY <2>1 DEF Linked
      <4>2. \A i \in DOMAIN Tail(down[c]) : /\ i \in Nat /\ i > 0 /\ i + 1 \in DOMAIN down[c]
                                            /\ Tail(down[c])[i] = down[c][i + 1]
          BY <1>3, <3>2
      <4>3. \A i \in Nat : i > 0 => i + 1 # 1
          OBVIOUS
      <4> QED
          BY <3>2, <4>1, <4>2, <4>3
    <3> QED
        BY <1>4, <3>1, <3>2
  <2> QED
      BY <1>1, <1>4, <1>5, <2>1, <2>2, <2>3, <2>4, LinkKept
<1> QED
    BY <1>1, <1>2, <1>4, <1>6, <1>7 DEF Connected, QueueTypes, Links

LEMMA OpensKeepLinks ==
    ASSUME LeaseInv, Connected, Ledgers, NEW c \in Clients, NEW fence \in 1 .. MaxFence,
           BrowserOpens(c, fence)
    PROVE  Connected'
<1>1. /\ authority' = [authority EXCEPT ![c] = Browser!Opened(fence)]
      /\ page[c] # 0 /\ down[c] # <<>> /\ fence = Head(down[c]).fence
      /\ Head(down[c]).type = "welcome"
      /\ down' = [down EXCEPT ![c] = Tail(@)]
      /\ UNCHANGED <<lease, sock, page, up, toHost, acks>>
    BY DEF BrowserOpens, EpochOpened, leaseVars
<1>2. QueueTypes /\ down[c] \in Seq(DownFrame) /\ down \in [Clients -> Seq(DownFrame)] /\ Linked(c)
    BY DEF Connected, QueueTypes, Links
<1>3. /\ Tail(down[c]) \in Seq(DownFrame) /\ 1 \in DOMAIN down[c] /\ Head(down[c]) = down[c][1]
      /\ \A i \in DOMAIN Tail(down[c]) : i \in Nat /\ i > 0 /\ i + 1 \in DOMAIN down[c]
                                         /\ Tail(down[c])[i] = down[c][i + 1]
    BY <1>1, <1>2, TakenFromQueue
<1>4. /\ down' \in [Clients -> Seq(DownFrame)] /\ down'[c] = Tail(down[c])
      /\ \A d \in Clients : d # c => down'[d] = down[d] /\ authority'[d] = authority[d]
      /\ authority'[c] = Browser!Opened(fence)
    BY <1>1, <1>2, <1>3 DEF Ledgers
<1>5. ASSUME NEW d \in Clients, d # c PROVE Linked(d)'
  <2>1. Linked(d)
      BY DEF Connected, Links
  <2> QED
      BY <1>1, <1>4, <1>5, <2>1 DEF Linked, Attached
<1>6. Linked(c)'
  <2>1. fence = sock[c].fence
      BY <1>1, <1>2, <1>3 DEF Linked
  <2>2. /\ authority'[c].highest = fence /\ authority'[c].fence = fence
      BY <1>4 DEF Browser!Opened
  <2>3. \A i \in DOMAIN down'[c] : down'[c][i].type # "welcome"
    <3>1. \A j \in DOMAIN down[c] : down[c][j].type = "welcome" => j = 1
        BY <1>2 DEF Linked
    <3>2. \A i \in Nat : i > 0 => i + 1 # 1
        OBVIOUS
    <3> QED
        BY <1>3, <1>4, <3>1, <3>2, SMTT(30)
  <2>4. sock[c].state # "awaiting"
      BY <1>1, <1>2 DEF Linked
  <2> QED
      BY <1>1, <1>2, <2>1, <2>2, <2>3, <2>4 DEF Linked
<1> QED
    BY <1>1, <1>2, <1>4, <1>5, <1>6 DEF Connected, QueueTypes, Links

\* What a key adds to the queue of its browser
LEMMA KeyInQueue ==
    ASSUME Connected, Ledgers, NEW c \in Clients, NEW x \in Browser!Intent, BrowserPresses(c, x)
    PROVE  LET frame == [epoch |-> x.fence, seq |-> x.seq]
           IN  /\ up' \in [Clients -> Seq(KeyFrame)]
               /\ \A d \in Clients : d # c => DOMAIN up'[d] = {} \/ up'[d] = up[d]
               /\ x.phase # "done" => x.seq > 0 /\ frame \in KeyFrame /\ x.fence = authority[c].fence
               /\ \/ DOMAIN up'[c] = {} \/ up'[c] = up[c]
                  \/ x.phase # "done" /\ up'[c] = Append(up[c], frame) /\ sock'[c].state = "active"
<1> DEFINE frame == [epoch |-> x.fence, seq |-> x.seq]
<1>1. up \in [Clients -> Seq(KeyFrame)] /\ up[c] \in Seq(KeyFrame)
    BY DEF Connected, QueueTypes
<1>2. /\ authority[c].fence > 0 /\ authority[c].next > 0
      /\ authority[c].fence \in Nat /\ authority[c].next \in Nat
    BY LedgerFacts, LeaseAssumption, PipelineAssumption
    DEF BrowserPresses, KeyAdded, Ledger, Attached, Browser!Authority
<1>3. x.phase # "done" => x.seq > 0 /\ frame \in KeyFrame /\ x.fence = authority[c].fence
  <2> SUFFICES ASSUME x.phase # "done" PROVE x.seq > 0 /\ frame \in KeyFrame /\ x.fence = authority[c].fence
      OBVIOUS
  <2>1. x.seq = authority[c].next /\ x.fence = authority[c].fence
      BY DEF BrowserPresses, KeyAdded, KeyOf
  <2>2. x.fence \in 0 .. MaxFence /\ x.seq \in 0 .. MaxIntents
      BY DEF Browser!Intent
  <2>3. x.fence \in 1 .. MaxFence /\ x.seq \in 1 .. MaxIntents
      BY <1>2, <2>1, <2>2, LeaseAssumption, PipelineAssumption
  <2> QED
      BY <2>1, <2>3 DEF KeyFrame
<1> HIDE DEF frame
<1>4. CASE up' = up
    BY <1>1, <1>3, <1>4 DEF frame
<1>5. CASE x.phase # "done" /\ up' = Heard([up EXCEPT ![c] = Append(@, frame)])
  <2> DEFINE more == [up EXCEPT ![c] = Append(@, frame)]
  <2>1. Append(up[c], frame) \in Seq(KeyFrame)
      BY <1>1, <1>3, <1>5, AddedToQueue
  <2>2. more \in [Clients -> Seq(KeyFrame)] /\ more[c] = Append(up[c], frame)
        /\ \A d \in Clients : d # c => more[d] = up[d]
      BY <1>1, <2>1
  <2> HIDE DEF more
  <2>3. /\ up' \in [Clients -> Seq(KeyFrame)]
        /\ \A d \in Clients : \/ DOMAIN up'[d] = {}
                              \/ up'[d] = more[d] /\ sock'[d].state = "active"
      BY <1>5, <2>2, HeardKeys DEF more
  <2> QED
      BY <1>3, <1>5, <2>2, <2>3 DEF frame
<1> QED
    BY <1>4, <1>5 DEF BrowserPresses, frame

LEMMA PressKeepsLinks ==
    ASSUME LeaseInv, Connected, Ledgers, NEW c \in Clients, NEW x \in Browser!Intent,
           BrowserPresses(c, x)
    PROVE  Connected'
<1> DEFINE frame == [epoch |-> x.fence, seq |-> x.seq]
<1>1. /\ authority' = [authority EXCEPT ![c] = authority'[c]]
      /\ Attached(authority[c]) /\ authority'[c].highest = authority[c].highest
      /\ authority'[c].fence = authority[c].fence /\ page[c] # 0
      /\ UNCHANGED <<lease, sock, page, down, toHost, acks>>
    BY DEF BrowserPresses, KeyAdded, leaseVars, Attached
<1>2. /\ up' \in [Clients -> Seq(KeyFrame)]
      /\ \A d \in Clients : d # c => DOMAIN up'[d] = {} \/ up'[d] = up[d]
      /\ x.phase # "done" => x.fence = authority[c].fence
      /\ \/ DOMAIN up'[c] = {} \/ up'[c] = up[c]
         \/ x.phase # "done" /\ up'[c] = Append(up[c], frame) /\ sock'[c].state = "active"
      /\ x.phase # "done" => frame \in KeyFrame
    BY KeyInQueue
<1>3. ASSUME NEW d \in Clients, d # c PROVE Linked(d)'
  <2>1. Linked(d) /\ authority'[d] = authority[d]
      BY <1>1, <1>3 DEF Connected, Links, Ledgers
  <2>2. \A i \in DOMAIN up'[d] : sock'[d].state = "active" /\ up'[d][i].epoch = sock'[d].fence
      BY <1>1, <1>2, <1>3, <2>1 DEF Linked
  <2> QED
      BY <1>1, <2>1, <2>2 DEF Linked, Attached
<1>4. Linked(c)'
  <2>1. Linked(c) /\ up[c] \in Seq(KeyFrame)
      BY DEF Connected, Links, QueueTypes
  <2>2. \A i \in DOMAIN up'[c] : sock'[c].state = "active" /\ up'[c][i].epoch = sock'[c].fence
    <3>1. CASE DOMAIN up'[c] = {}
        BY <3>1
    <3>2. CASE up'[c] = up[c]
        BY <1>1, <2>1, <3>2 DEF Linked
    <3>3. CASE x.phase # "done" /\ up'[c] = Append(up[c], frame) /\ sock'[c].state = "active"
      <4>1. frame.epoch = sock[c].fence /\ frame \in KeyFrame
          BY <1>1, <1>2, <2>1, <3>3 DEF Linked
      <4> HIDE DEF frame
      <4>2. \A i \in DOMAIN up'[c] : up'[c][i] = frame \/ (i \in DOMAIN up[c] /\ up'[c][i] = up[c][i])
          BY <2>1, <3>3, <4>1, AddedToQueue
      <4> QED
          BY <1>1, <2>1, <3>3, <4>1, <4>2 DEF Linked
    <3> QED
        BY <1>2, <3>1, <3>2, <3>3
  <2>3. authority'[c].fence = sock'[c].fence
      BY <1>1, <2>1 DEF Linked
  <2> QED
      BY <1>1, <2>1, <2>2, <2>3 DEF Linked
<1> QED
    BY <1>1, <1>2, <1>3, <1>4 DEF Connected, QueueTypes, Links

\* Every step keeps the queues, the links and the ledgers.
LEMMA StepKeepsLinks ==
    ASSUME LeaseInv, Answers!IInv, Connected, Ledgers, AnswersAreTrue, PipelineNext
    PROVE  Connected' /\ Ledgers'
<1>1. ASSUME NEW c \in Clients, BrowserActs(c) PROVE Connected' /\ Ledgers'
  <2>1. ASSUME NEW x \in Browser!Intent, BrowserPresses(c, x) PROVE Connected' /\ Ledgers'
      BY <2>1, PressKeepsLinks, KeyKeepsLedgers DEF BrowserPresses
  <2>2. ASSUME NEW results \in SUBSET Verdicts, BrowserEnds(c, results) PROVE Connected' /\ Ledgers'
      BY <2>2, EndsKeepLinks, EndsKeepLedgers DEF BrowserEnds
  <2>3. ASSUME NEW fence \in 1 .. MaxFence, BrowserOpens(c, fence) PROVE Connected' /\ Ledgers'
      BY <2>3, OpensKeepLinks, EpochKeepsLedgers DEF BrowserOpens
  <2>4. CASE AckTaken(c, Head(down[c]))
    <3>1. {Head(down[c]).status} \in SUBSET Verdicts /\ BrowserEnds(c, {Head(down[c]).status})
        BY <2>4 DEF AckTaken
    <3> QED
        BY <2>2, <3>1
  <2>5. {"uncertain"} \in SUBSET Verdicts
      BY DEF Verdicts
  <2> QED
      BY <1>1, <2>1, <2>2, <2>3, <2>4, <2>5, BrowserForms
<1>2. CASE HostActs
  <2>1. UNCHANGED browserVars
      BY <1>2 DEF HostActs, HostReceives, HostConnects, RelayLosesHost, HostLosesRelay
  <2> QED
      BY <1>2, <2>1, HostKeepsLinks DEF browserVars, Ledgers
<1>3. CASE RelayActs
  <2>1. UNCHANGED browserVars
      BY <1>3 DEF RelayActs, Connect, Close, Attach, RefuseRenewal, ForwardKey, RefuseKey,
                  FinishAttach, Expire, RelayAck
  <2>2. Connected'
      BY <1>3, ConnectKeepsLinks, CloseKeepsLinks, AttachKeepsLinks, RefuseRenewalKeepsLinks,
         ForwardKeyKeepsLinks, RefuseKeyKeepsLinks, FinishAttachKeepsLinks, ExpireKeepsLinks,
         RelayAckKeepsLinks DEF RelayActs
  <2> QED
      BY <2>1, <2>2 DEF browserVars, Ledgers
<1> QED
    BY <1>1, <1>2, <1>3 DEF PipelineNext

-----------------------------------------------------------------------------
(* What reaches the host *)

HostOrder == FencesAreLeases /\ FencesReachHostInOrder

LEMMA QueuedTypes ==
    ASSUME QueueTypes
    PROVE  /\ toHost \in Seq(Forward) /\ DOMAIN toHost = 1 .. Len(toHost) /\ Len(toHost) \in Nat
           /\ \A i \in DOMAIN toHost :
                 /\ toHost[i] \in Forward /\ toHost[i].id \in Input
                 /\ toHost[i].id.fence \in Nat /\ toHost[i].id.client \in Clients
<1>1. toHost \in Seq(Forward)
    BY DEF QueueTypes
<1>2. DOMAIN toHost = 1 .. Len(toHost) /\ Len(toHost) \in Nat
    BY <1>1, LenProperties
<1>3. \A i \in DOMAIN toHost : toHost[i] \in Forward
    BY <1>1, <1>2, ElementOfSeq
<1>4. \A i \in DOMAIN toHost : toHost[i].id \in Input
    BY <1>3 DEF Forward
<1>5. \A id \in Input : id.fence \in Nat /\ id.client \in Clients
    BY LeaseAssumption DEF Input
<1> QED
    BY <1>1, <1>2, <1>3, <1>4, <1>5

\* The queue to the host stays or is lost.
LEMMA QueueKeepsFences ==
    ASSUME HostOrder, QueueTypes, Answers!IInv, lease.fence \in Nat,
           HolderKept \/ lease'.fence = lease.fence + 1,
           UNCHANGED hostVars, toHost' = toHost \/ toHost' = <<>>
    PROVE  HostOrder'
<1>1. inputFence \in Nat /\ inputFence' = inputFence /\ inputWriter' = inputWriter
    BY LeaseAssumption DEF Answers!IInv, Answers!TypeOK, hostVars
<1>2. \A i \in DOMAIN toHost : toHost[i].id.fence \in Nat
    BY QueuedTypes
<1>3. FencesAreLeases'
  <2>1. \A i \in DOMAIN toHost' : toHost'[i] = toHost[i] /\ i \in DOMAIN toHost
      BY EmptyQueue
  <2>2. \A i \in DOMAIN toHost :
          /\ toHost[i].id.fence <= lease'.fence
          /\ toHost[i].id.fence = lease'.fence => toHost[i].conn = <<lease'.client, lease'.conn>>
    <3>1. CASE HolderKept
        BY <3>1 DEF HostOrder, FencesAreLeases, HolderKept
    <3>2. CASE lease'.fence = lease.fence + 1
        BY <1>2, <3>2 DEF HostOrder, FencesAreLeases
    <3> QED
        BY <3>1, <3>2
  <2>3. /\ inputFence' <= lease'.fence
        /\ inputWriter'.highWater # 0 =>
              /\ inputWriter'.epoch = inputFence'
              /\ inputFence' = lease'.fence => inputWriter'.client = lease'.client
    <3>1. CASE HolderKept
        BY <1>1, <3>1 DEF HostOrder, FencesAreLeases, HolderKept
    <3>2. CASE lease'.fence = lease.fence + 1
        BY <1>1, <3>2 DEF HostOrder, FencesAreLeases
    <3> QED
        BY <3>1, <3>2
  <2> QED
      BY <2>1, <2>2, <2>3 DEF HostOrder, FencesAreLeases
<1>4. FencesReachHostInOrder'
  <2>1. CASE toHost' = toHost
      BY <1>1, <2>1 DEF HostOrder, FencesReachHostInOrder
  <2>2. CASE toHost' = <<>>
      BY <2>2, EmptyQueue DEF FencesReachHostInOrder
  <2> QED
      BY <2>1, <2>2
<1> QED
    BY <1>3, <1>4 DEF HostOrder

\* A key that is forwarded has the fence of the lease.
LEMMA ForwardKeepsFences ==
    ASSUME HostOrder, LeaseInv, Connected, Answers!IInv, NEW c \in Clients, up[c] # <<>>, Live(c),
           HolderKept, UNCHANGED hostVars, toHost' = Append(toHost, Forwarded(c, Head(up[c])))
    PROVE  HostOrder'
<1> DEFINE new == Forwarded(c, Head(up[c]))
<1>1. inputFence \in Nat /\ inputFence' = inputFence /\ inputWriter' = inputWriter
    BY LeaseAssumption DEF Answers!IInv, Answers!TypeOK, hostVars
<1>2. /\ toHost \in Seq(Forward) /\ DOMAIN toHost = 1 .. Len(toHost) /\ Len(toHost) \in Nat
      /\ \A i \in DOMAIN toHost : toHost[i].id.fence \in Nat
    BY QueuedTypes DEF Connected
<1>3. lease.client = c /\ lease.conn = sock[c].conn /\ lease.fence = sock[c].fence
    BY DEF LeaseInv, WriterHoldsLease
<1>4. /\ new \in Forward /\ new.conn = <<lease.client, lease.conn>>
      /\ new.id.client = c /\ new.id.fence = lease.fence /\ new.id.epoch = lease.fence
      /\ new.conn[1] = c
  <2> DEFINE frame == Head(up[c])
  <2>1. /\ frame.epoch = sock[c].fence /\ new \in Forward
        /\ new.conn = <<c, sock[c].conn>> /\ new.id = InputOf(c, frame)
      BY KeyTaken
  <2>2. /\ InputOf(c, frame).client = c /\ InputOf(c, frame).fence = frame.epoch
        /\ InputOf(c, frame).epoch = frame.epoch
      BY DEF InputOf
  <2>3. <<c, sock[c].conn>>[1] = c
      OBVIOUS
  <2> HIDE DEF new, frame
  <2> QED
      BY <1>3, <2>1, <2>2, <2>3
<1>5. lease.fence \in Nat /\ lease'.client = lease.client /\ lease'.conn = lease.conn /\ lease'.fence = lease.fence
    BY LeaseFacts DEF HolderKept
<1> HIDE DEF new
<1>6. /\ DOMAIN toHost' = 1 .. Len(toHost) + 1
      /\ toHost'[Len(toHost) + 1] = new
      /\ \A i \in DOMAIN toHost : toHost'[i] = toHost[i]
      /\ \A i \in DOMAIN toHost' : i \in DOMAIN toHost \/ i = Len(toHost) + 1
    BY <1>2, <1>4, AddedToQueue DEF new
<1>7. FencesAreLeases'
  <2>1. \A i \in DOMAIN toHost' :
          /\ toHost'[i].conn[1] = toHost'[i].id.client
          /\ toHost'[i].id.epoch = toHost'[i].id.fence
          /\ toHost'[i].id.fence <= lease'.fence
          /\ toHost'[i].id.fence = lease'.fence => toHost'[i].conn = <<lease'.client, lease'.conn>>
    <3> TAKE i \in DOMAIN toHost'
    <3>1. CASE i \in DOMAIN toHost
        BY <1>5, <1>6, <3>1 DEF HostOrder, FencesAreLeases
    <3>2. CASE i = Len(toHost) + 1
        BY <1>4, <1>5, <1>6, <3>2
    <3> QED
        BY <1>6, <3>1, <3>2
  <2> QED
      BY <1>1, <1>5, <2>1 DEF HostOrder, FencesAreLeases
<1>8. FencesReachHostInOrder'
  <2>1. ASSUME NEW i \in DOMAIN toHost', NEW j \in DOMAIN toHost', i < j
        PROVE  \/ toHost'[i].id.fence < toHost'[j].id.fence
               \/ /\ toHost'[i].id.fence = toHost'[j].id.fence
                  /\ toHost'[i].conn = toHost'[j].conn
    <3>1. i \in DOMAIN toHost
        BY <1>2, <1>6, <2>1
    <3>2. CASE j \in DOMAIN toHost
        BY <1>6, <2>1, <3>1, <3>2 DEF HostOrder, FencesReachHostInOrder
    <3>3. CASE j = Len(toHost) + 1
      <4>1. /\ toHost[i].id.fence <= lease.fence /\ toHost[i].id.fence \in Nat
            /\ toHost[i].id.fence = lease.fence => toHost[i].conn = <<lease.client, lease.conn>>
          BY <1>2, <3>1 DEF HostOrder, FencesAreLeases
      <4>2. toHost'[i] = toHost[i] /\ toHost'[j] = new
          BY <1>6, <3>1, <3>3
      <4> QED
          BY <1>4, <1>5, <4>1, <4>2, SMTT(30)
    <3> QED
        BY <1>6, <3>2, <3>3
  <2>2. ASSUME NEW i \in DOMAIN toHost'
        PROVE  LET id == toHost'[i].id
               IN  /\ inputFence' <= id.fence
                   /\ inputFence' = id.fence /\ inputWriter'.highWater # 0 =>
                         inputWriter'.client = id.client /\ inputWriter'.epoch = id.epoch
    <3>1. CASE i \in DOMAIN toHost
        BY <1>1, <1>6, <3>1 DEF HostOrder, FencesReachHostInOrder
    <3>2. CASE i = Len(toHost) + 1
        BY <1>1, <1>3, <1>4, <1>6, <3>2 DEF HostOrder, FencesAreLeases
    <3> QED
        BY <1>6, <3>1, <3>2
  <2> QED
      BY <2>1, <2>2 DEF FencesReachHostInOrder
<1> QED
    BY <1>7, <1>8 DEF HostOrder

LEMMA SubmissionKeepsFences ==
    ASSUME HostOrder, LeaseInv, Connected, Answers!IInv, HostReceives
    PROVE  HostOrder'
<1> DEFINE id == Head(toHost).id
<1>1. /\ 1 \in DOMAIN toHost /\ Head(toHost) = toHost[1] /\ id \in Input
      /\ \A i \in DOMAIN toHost' : i \in Nat /\ i > 0 /\ i + 1 \in DOMAIN toHost
                                   /\ toHost'[i] = toHost[i + 1]
      /\ Host!SubmitInput(id) /\ lease' = lease
    BY KeySubmitted DEF leaseVars
<1>2. /\ inputFence \in Nat /\ inputFence' \in Nat
      /\ \/ inputFence' = inputFence /\ inputWriter' = inputWriter
         \/ /\ inputFence' = id.fence
            /\ inputWriter'.highWater # 0 =>
                  inputWriter'.client = id.client /\ inputWriter'.epoch = id.epoch
    BY <1>1, InputSubmitted
<1>3. /\ id.epoch = id.fence /\ id.fence <= lease.fence /\ id.fence \in Nat
      /\ toHost[1].conn[1] = id.client
      /\ id.fence = lease.fence => id.client = lease.client
  <2>1. /\ id.epoch = id.fence /\ id.fence <= lease.fence
        /\ toHost[1].conn[1] = id.client
        /\ id.fence = lease.fence => toHost[1].conn = <<lease.client, lease.conn>>
      BY <1>1 DEF HostOrder, FencesAreLeases
  <2>2. id.fence \in Nat
      BY <1>1, QueuedTypes DEF Connected
  <2>3. <<lease.client, lease.conn>>[1] = lease.client
      OBVIOUS
  <2> QED
      BY <2>1, <2>2, <2>3
<1>4. \A i \in DOMAIN toHost : toHost[i].id.fence \in Nat
    BY QueuedTypes DEF Connected
<1>5. \A i \in DOMAIN toHost' :
          \/ id.fence < toHost'[i].id.fence
          \/ /\ id.fence = toHost'[i].id.fence /\ id.client = toHost'[i].id.client
             /\ id.epoch = toHost'[i].id.epoch
  <2> TAKE i \in DOMAIN toHost'
  <2>1. i \in Nat /\ i > 0 /\ i + 1 \in DOMAIN toHost /\ toHost'[i] = toHost[i + 1] /\ 1 < i + 1
      BY <1>1
  <2>2. \/ toHost[1].id.fence < toHost[i + 1].id.fence
        \/ /\ toHost[1].id.fence = toHost[i + 1].id.fence
           /\ toHost[1].conn = toHost[i + 1].conn
      BY <1>1, <2>1 DEF HostOrder, FencesReachHostInOrder
  <2>3. toHost[i + 1].conn[1] = toHost[i + 1].id.client /\ toHost[i + 1].id.epoch = toHost[i + 1].id.fence
      BY <2>1 DEF HostOrder, FencesAreLeases
  <2> QED
      BY <1>1, <1>3, <2>1, <2>2, <2>3
<1> HIDE DEF id
<1>6. FencesAreLeases'
  <2>1. \A i \in DOMAIN toHost' :
          /\ toHost'[i].conn[1] = toHost'[i].id.client
          /\ toHost'[i].id.epoch = toHost'[i].id.fence
          /\ toHost'[i].id.fence <= lease'.fence
          /\ toHost'[i].id.fence = lease'.fence => toHost'[i].conn = <<lease'.client, lease'.conn>>
      BY <1>1 DEF HostOrder, FencesAreLeases
  <2>2. /\ inputFence' <= lease'.fence
        /\ inputWriter'.highWater # 0 =>
              /\ inputWriter'.epoch = inputFence'
              /\ inputFence' = lease'.fence => inputWriter'.client = lease'.client
      BY <1>1, <1>2, <1>3 DEF HostOrder, FencesAreLeases
  <2> QED
      BY <2>1, <2>2 DEF FencesAreLeases
<1>7. FencesReachHostInOrder'
  <2>1. ASSUME NEW i \in DOMAIN toHost', NEW j \in DOMAIN toHost', i < j
        PROVE  \/ toHost'[i].id.fence < toHost'[j].id.fence
               \/ /\ toHost'[i].id.fence = toHost'[j].id.fence
                  /\ toHost'[i].conn = toHost'[j].conn
    <3>1. /\ i + 1 \in DOMAIN toHost /\ j + 1 \in DOMAIN toHost /\ i + 1 < j + 1
          /\ toHost'[i] = toHost[i + 1] /\ toHost'[j] = toHost[j + 1]
        BY <1>1, <2>1
    <3> QED
        BY <3>1 DEF HostOrder, FencesReachHostInOrder
  <2>2. ASSUME NEW i \in DOMAIN toHost'
        PROVE  /\ inputFence' <= toHost'[i].id.fence
               /\ inputFence' = toHost'[i].id.fence /\ inputWriter'.highWater # 0 =>
                     inputWriter'.client = toHost'[i].id.client /\ inputWriter'.epoch = toHost'[i].id.epoch
    <3>1. CASE inputFence' = inputFence /\ inputWriter' = inputWriter
        BY <1>1, <3>1 DEF HostOrder, FencesReachHostInOrder
    <3>2. CASE /\ inputFence' = id.fence
               /\ inputWriter'.highWater # 0 =>
                     inputWriter'.client = id.client /\ inputWriter'.epoch = id.epoch
      <4>1. toHost'[i].id.fence \in Nat
          BY <1>1, <1>4
      <4> QED
          BY <1>3, <1>5, <3>2, <4>1
    <3> QED
        BY <1>2, <3>1, <3>2
  <2> QED
      BY <2>1, <2>2 DEF FencesReachHostInOrder
<1> QED
    BY <1>6, <1>7 DEF HostOrder

LEMMA StepKeepsFences ==
    ASSUME HostOrder, LeaseInv, Connected, Ledgers, AnswersAreTrue, Answers!IInv, PipelineNext
    PROVE  HostOrder' /\ Answers!IInv'
<1>1. lease.fence \in Nat /\ QueueTypes
    BY LeaseFacts DEF Connected
<1>2. HolderKept \/ lease'.fence = lease.fence + 1
  <2>1. [LeaseNext]_leaseVars
      BY StepIsLeaseStep
  <2> QED
      BY <2>1, LeaseFenceGrows
<1>3. ASSUME UNCHANGED hostVars PROVE Answers!IInv'
  <2>1. UNCHANGED Answers!hostInputVars
      BY <1>3 DEF hostVars, Answers!hostInputVars
  <2> QED
      BY <2>1, HostAssumptions, Answers!NextIInv
<1>4. ASSUME UNCHANGED hostVars, toHost' = toHost \/ toHost' = <<>> PROVE HostOrder' /\ Answers!IInv'
    BY <1>1, <1>2, <1>3, <1>4, QueueKeepsFences
<1>5. ASSUME NEW c \in Clients, BrowserActs(c) PROVE UNCHANGED hostVars /\ toHost' = toHost
  <2>1. CASE BrowserTimer(c)
      BY <2>1 DEF BrowserTimer, pipeVars
  <2>2. CASE PressKey(c) \/ LeaveConnection(c) \/ BrowserReceives(c)
      BY <2>2 DEF PressKey, LeaveConnection, BrowserReceives
  <2> QED
      BY <1>5, <2>1, <2>2 DEF BrowserActs
<1>6. CASE HostActs
  <2>1. CASE HostReceives
    <3>1. Head(toHost).id \in Input /\ Host!SubmitInput(Head(toHost).id)
        BY <2>1, KeySubmitted
    <3> QED
        BY <2>1, <3>1, SubmissionKeepsFences, InputSubmitted
  <2>2. CASE HostConnects \/ RelayLosesHost \/ HostLosesRelay
    <3>1. UNCHANGED hostVars /\ (toHost' = toHost \/ toHost' = <<>>)
        BY <2>2 DEF HostConnects, RelayLosesHost, HostLosesRelay
    <3> QED
        BY <1>4, <3>1
  <2> QED
      BY <1>6, <2>1, <2>2 DEF HostActs
<1>7. ASSUME NEW c \in Clients, ForwardKey(c) PROVE HostOrder' /\ Answers!IInv'
  <2>1. /\ up[c] # <<>> /\ Live(c) /\ toHost' = Append(toHost, Forwarded(c, Head(up[c])))
        /\ UNCHANGED <<lease, hostVars>>
      BY <1>7 DEF ForwardKey, leaseVars
  <2> QED
      BY <1>3, <2>1, ForwardKeepsFences DEF HolderKept
<1>8. ASSUME NEW c \in Clients, RefuseKey(c) PROVE HostOrder' /\ Answers!IInv'
  <2>1. /\ up[c] # <<>> /\ CloseControl(c) /\ UNCHANGED hostVars
        /\ \/ toHost' = toHost
           \/ Live(c) /\ toHost' = Append(toHost, Forwarded(c, Head(up[c])))
      BY <1>8, KeyRefused
  <2>2. HolderKept
      BY <2>1, CloseKeeps
  <2> QED
      BY <1>3, <1>4, <2>1, <2>2, ForwardKeepsFences
<1>9. CASE RelayActs
  <2>1. ASSUME NEW c \in Clients,
               Connect(c) \/ Close(c) \/ Attach(c) \/ RefuseRenewal(c)
        PROVE  UNCHANGED hostVars /\ toHost' = toHost
      BY <2>1 DEF Connect, Close, Attach, RefuseRenewal
  <2>2. ASSUME NEW c \in Clients, NEW n \in 1 .. MaxConns, FinishAttach(c, n)
        PROVE  UNCHANGED hostVars /\ toHost' = toHost
      BY <2>2 DEF FinishAttach
  <2>3. CASE Expire \/ RelayAck
    <3>1. UNCHANGED hostVars /\ toHost' = toHost
        BY <2>3 DEF Expire, RelayAck, pipeVars
    <3> QED
        BY <1>4, <3>1
  <2> QED
      BY <1>4, <1>7, <1>8, <1>9, <2>1, <2>2, <2>3 DEF RelayActs
<1> QED
    BY <1>4, <1>5, <1>6, <1>9 DEF PipelineNext

-----------------------------------------------------------------------------
(* What a step does to the truth of verdicts and acknowledgements *)

Truth == SentOnce /\ Underway /\ EffectsAreInputs /\ AnswersAreTrue

LEMMA NamesOne ==
    ASSUME Ledgers, NEW id \in Input
    PROVE  /\ Named(id) \subseteq DOMAIN intents[id.client]
           /\ \A i, j \in Named(id) : i = j
<1>1. id.client \in Clients /\ id.seq > 0 /\ id.seq \in Nat /\ id.epoch \in Nat
    BY LeaseAssumption, PipelineAssumption DEF Input
<1>2. InOrder(intents[id.client]) /\ DOMAIN intents[id.client] = 1 .. Len(intents[id.client])
    BY <1>1, LedgerFacts DEF Ledger
<1>3. Named(id) \subseteq DOMAIN intents[id.client]
    BY DEF Named
<1>4. ASSUME NEW i \in Named(id), NEW j \in Named(id), i < j PROVE FALSE
    BY <1>1, <1>2, <1>4, SMTT(30) DEF Named, InOrder
<1>5. \A i, j \in Named(id) : i \in Int /\ j \in Int
    BY <1>2, <1>3
<1>6. \A i, j \in Named(id) : ~(i < j) /\ ~(j < i)
    BY <1>4
<1> QED
    BY <1>3, <1>5, <1>6

\* The identity names what it did, and a verdict of it is compatible with where it is.
VerdictKept(id, old, new) ==
    \/ new = old
    \/ /\ old = "none" /\ new \in Verdicts
       /\ OnItsWay(id) => new = "uncertain"
       /\ Took(id) => new # "rejected"

ResultsKept(id) ==
    /\ Named(id)' = Named(id)
    /\ \A i \in Named(id) :
          VerdictKept(id, intents[id.client][i].result, intents'[id.client][i].result)

\* Nothing takes effect, and only what was not named is put on its way.
LEMMA TruthKept ==
    ASSUME Underway, EffectsAreInputs, log' = log,
           \A id \in Input : Named(id) # {} => ResultsKept(id) /\ (OnItsWay(id)' => OnItsWay(id)),
           \A id \in Input : Named(id) = {} /\ OnItsWay(id)' => HasResult(id, {"none"})'
    PROVE  /\ Underway' /\ EffectsAreInputs'
           /\ \A id \in Input : \A status : Justified(id, status) => Justified(id, status)'
<1>1. \A id : Took(id)' <=> Took(id)
    BY DEF Took
<1>2. ASSUME NEW id \in Input, OnItsWay(id)'
      PROVE  ~Took(id)' /\ HasResult(id, {"none", "uncertain"})'
  <2>1. CASE Named(id) = {}
    <3>1. ~Took(id)
        BY <2>1 DEF EffectsAreInputs, HasResult
    <3>2. HasResult(id, {"none"})'
        BY <1>2, <2>1
    <3> QED
        BY <1>1, <3>1, <3>2 DEF HasResult
  <2>2. CASE Named(id) # {}
    <3>1. ResultsKept(id) /\ OnItsWay(id)
        BY <1>2, <2>2
    <3>2. ~Took(id) /\ HasResult(id, {"none", "uncertain"})
        BY <3>1 DEF Underway
    <3> QED
        BY <1>1, <3>1, <3>2 DEF HasResult, ResultsKept, VerdictKept
  <2> QED
      BY <2>1, <2>2
<1>3. ASSUME NEW id \in Input, Took(id)'
      PROVE  HasResult(id, {"none", "uncertain", "written", "duplicate"})'
  <2>1. Took(id) /\ HasResult(id, {"none", "uncertain", "written", "duplicate"})
      BY <1>1, <1>3 DEF EffectsAreInputs
  <2>2. ResultsKept(id)
      BY <2>1 DEF HasResult
  <2> QED
      BY <2>1, <2>2 DEF HasResult, ResultsKept, VerdictKept, Verdicts
<1>4. ASSUME NEW id \in Input, NEW status, Justified(id, status) PROVE Justified(id, status)'
  <2>1. ResultsKept(id) /\ (OnItsWay(id)' => OnItsWay(id))
      BY <1>4 DEF Justified
  <2> QED
      BY <1>1, <1>4, <2>1 DEF Justified, ResultsKept
<1> QED
    BY <1>2, <1>3, <1>4 DEF Underway, EffectsAreInputs

\* The acknowledgements are those that were, and new ones that are true.
LEMMA AnswersKept ==
    ASSUME QueueTypes, AnswersAreTrue,
           \A id \in Input : \A status : Justified(id, status) => Justified(id, status)',
           \A i \in DOMAIN acks' :
              \/ \E j \in DOMAIN acks : acks'[i] = acks[j]
              \/ \E id \in Input : \E status :
                    /\ acks'[i].id = id /\ acks'[i].status = status
                    /\ id.epoch = id.fence /\ Justified(id, status)',
           \A d \in Clients : \A i \in DOMAIN down'[d] :
              \/ down'[d][i].type # "ack"
              \/ \E j \in DOMAIN down[d] : down'[d][i] = down[d][j]
              \/ \E id \in Input : \E status :
                    /\ InputOf(d, down'[d][i]) = id /\ down'[d][i].status = status
                    /\ status # "none" /\ Justified(id, status)'
    PROVE  AnswersAreTrue'
<1>1. \A j \in DOMAIN acks : acks[j].id \in Input
  <2>1. acks \in Seq(HostAck) /\ DOMAIN acks = 1 .. Len(acks)
      BY LenProperties DEF QueueTypes
  <2>2. \A j \in DOMAIN acks : acks[j] \in HostAck
      BY <2>1, ElementOfSeq
  <2> QED
      BY <2>2 DEF HostAck
<1>2. ASSUME NEW i \in DOMAIN acks'
      PROVE  \E id \in Input : \E status :
                /\ acks'[i].id = id /\ acks'[i].status = status
                /\ id.epoch = id.fence /\ Justified(id, status)'
  <2>1. CASE \E j \in DOMAIN acks : acks'[i] = acks[j]
    <3>1. PICK j \in DOMAIN acks : acks'[i] = acks[j]
        BY <2>1
    <3>2. /\ acks[j].id \in Input /\ acks[j].id.epoch = acks[j].id.fence
          /\ Justified(acks[j].id, acks[j].status)
        BY <1>1 DEF AnswersAreTrue
    <3>3. \E id \in Input : \E status : acks[j].id = id /\ acks[j].status = status
                                        /\ Justified(id, status)
        BY <3>2
    <3> QED
        BY <3>1, <3>2, <3>3
  <2> QED
      BY <2>1
<1>3. ASSUME NEW d \in Clients, NEW i \in DOMAIN down'[d], down'[d][i].type = "ack"
      PROVE  \E id \in Input : \E status :
                /\ InputOf(d, down'[d][i]) = id /\ down'[d][i].status = status
                /\ status # "none" /\ Justified(id, status)'
  <2>1. CASE \E j \in DOMAIN down[d] : down'[d][i] = down[d][j]
    <3>1. PICK j \in DOMAIN down[d] : down'[d][i] = down[d][j]
        BY <2>1
    <3>2. /\ InputOf(d, down[d][j]) \in Input /\ down[d][j].status # "none"
          /\ Justified(InputOf(d, down[d][j]), down[d][j].status)
        BY <1>3, <3>1 DEF AnswersAreTrue
    <3>3. \E id \in Input : \E status : InputOf(d, down[d][j]) = id /\ down[d][j].status = status
                                        /\ Justified(id, status)
        BY <3>2
    <3>4. InputOf(d, down'[d][i]) = InputOf(d, down[d][j])
        BY <3>1
    <3> QED
        BY <3>1, <3>2, <3>3, <3>4
  <2> QED
      BY <1>3, <2>1
<1>4. (\A i \in DOMAIN acks : acks[i].id.epoch = acks[i].id.fence /\ Justified(acks[i].id, acks[i].status))'
  <2> SUFFICES ASSUME NEW i \in DOMAIN acks'
               PROVE  (acks[i].id.epoch = acks[i].id.fence /\ Justified(acks[i].id, acks[i].status))'
      OBVIOUS
  <2>1. PICK id \in Input : \E status :
            /\ acks'[i].id = id /\ acks'[i].status = status
            /\ id.epoch = id.fence /\ Justified(id, status)'
      BY <1>2
  <2>2. PICK status : /\ acks'[i].id = id /\ acks'[i].status = status
                      /\ id.epoch = id.fence /\ Justified(id, status)'
      BY <2>1
  <2> QED
      BY <2>2 DEF Justified, Named, Took, OnItsWay, InUp, InToHost
<1>5. (\A d \in Clients : \A i \in DOMAIN down[d] : down[d][i].type = "ack" =>
          /\ InputOf(d, down[d][i]) \in Input /\ down[d][i].status # "none"
          /\ Justified(InputOf(d, down[d][i]), down[d][i].status))'
  <2> SUFFICES ASSUME NEW d \in Clients, NEW i \in DOMAIN down'[d], down'[d][i].type = "ack"
               PROVE  (/\ InputOf(d, down[d][i]) \in Input /\ down[d][i].status # "none"
                       /\ Justified(InputOf(d, down[d][i]), down[d][i].status))'
      OBVIOUS
  <2>1. PICK id \in Input : \E status :
            /\ InputOf(d, down'[d][i]) = id /\ down'[d][i].status = status
            /\ status # "none" /\ Justified(id, status)'
      BY <1>3
  <2>2. PICK status : /\ InputOf(d, down'[d][i]) = id /\ down'[d][i].status = status
                      /\ status # "none" /\ Justified(id, status)'
      BY <2>1
  <2>3. InputOf(d, down[d][i])' = id
      BY <2>2 DEF InputOf
  <2> QED
      BY <2>2, <2>3 DEF Justified, Named, Took, OnItsWay, InUp, InToHost
<1> QED
    BY <1>4, <1>5 DEF AnswersAreTrue

\* Queues that lose frames
LEMMA LostFrames ==
    ASSUME QueueTypes, SentOnce, \A d \in Clients : DOMAIN up'[d] = {} \/ up'[d] = up[d],
           toHost' = toHost \/ toHost' = <<>>
    PROVE  SentOnce' /\ \A id \in Input : OnItsWay(id)' => OnItsWay(id)
<1>1. \A d \in Clients : \A i \in DOMAIN up'[d] : i \in DOMAIN up[d] /\ up'[d][i] = up[d][i]
    OBVIOUS
<1>2. \A i \in DOMAIN toHost' : i \in DOMAIN toHost /\ toHost'[i] = toHost[i]
    BY EmptyQueue
<1>3. \A id \in Input : id.client \in Clients
    BY DEF Input
<1>4. ASSUME NEW id, id.client \in Clients PROVE (InUp(id)' => InUp(id)) /\ (InToHost(id)' => InToHost(id))
  <2>1. InUp(id)' => InUp(id)
      BY <1>1, <1>4 DEF InUp, InputOf
  <2>2. InToHost(id)' => InToHost(id)
      BY <1>2 DEF InToHost
  <2> QED
      BY <2>1, <2>2
<1>5. SentOnce'
  <2>1. \A c \in Clients : \A i, j \in DOMAIN up'[c] : up'[c][i] = up'[c][j] => i = j
      BY <1>1 DEF SentOnce
  <2>2. \A i, j \in DOMAIN toHost' : toHost'[i].id = toHost'[j].id => i = j
      BY <1>2, Zenon DEF SentOnce
  <2>3. (\A i \in DOMAIN toHost : ~InUp(toHost[i].id))'
    <3> SUFFICES ASSUME NEW i \in DOMAIN toHost', InUp(toHost[i].id)' PROVE FALSE
        OBVIOUS
    <3>1. i \in DOMAIN toHost /\ toHost'[i] = toHost[i] /\ ~InUp(toHost[i].id)
        BY <1>2 DEF SentOnce
    <3>2. toHost[i].id.client \in Clients
        BY <3>1, QueuedTypes
    <3> QED
        BY <1>1, <3>1, <3>2 DEF InUp, InputOf
  <2> QED
      BY <2>1, <2>2, <2>3 DEF SentOnce
<1> QED
    BY <1>3, <1>4, <1>5 DEF OnItsWay

\* The intents stay, and nothing is added to the queues but frames that acknowledge nothing.
LEMMA QuietKeepsTruth ==
    ASSUME Truth, QueueTypes, UNCHANGED <<intents, log>>,
           \A d \in Clients : DOMAIN up'[d] = {} \/ up'[d] = up[d],
           toHost' = toHost \/ toHost' = <<>>, acks' = acks \/ acks' = <<>>,
           \A d \in Clients : \A i \in DOMAIN down'[d] :
              \/ down'[d][i].type # "ack"
              \/ \E j \in DOMAIN down[d] : down'[d][i] = down[d][j]
    PROVE  Truth'
<1>1. SentOnce' /\ \A id \in Input : OnItsWay(id)' => OnItsWay(id)
    BY LostFrames DEF Truth
<1>2. \A id \in Input : ResultsKept(id)
    BY DEF ResultsKept, VerdictKept, Named
<1>3. \A id \in Input : Named(id) = {} => ~OnItsWay(id)
    BY DEF Truth, Underway, HasResult
<1>4. /\ Underway' /\ EffectsAreInputs'
      /\ \A id \in Input : \A status : Justified(id, status) => Justified(id, status)'
    BY <1>1, <1>2, <1>3, TruthKept DEF Truth
<1>5. \A i \in DOMAIN acks' : \E j \in DOMAIN acks : acks'[i] = acks[j]
    BY EmptyQueue
<1>6. AnswersAreTrue'
    BY <1>4, <1>5, AnswersKept DEF Truth
<1> QED
    BY <1>1, <1>4, <1>6 DEF Truth

\* Intents that end keep their names.
LEMMA EndedNames ==
    ASSUME Ledgers, NEW c \in Clients, NEW results \in SUBSET Verdicts,
           intents' = [intents EXCEPT ![c] = intents'[c]],
           intents'[c] \in Seq(Browser!Intent), Len(intents'[c]) = Len(intents[c]),
           \A i \in DOMAIN intents[c] : Ended(intents[c][i], intents'[c][i], results)
    PROVE  /\ \A d \in Clients : DOMAIN intents'[d] = DOMAIN intents[d]
           /\ \A d \in Clients : \A i \in DOMAIN intents[d] :
                 /\ intents'[d][i].fence = intents[d][i].fence
                 /\ intents'[d][i].seq = intents[d][i].seq
                 /\ \/ intents'[d][i].result = intents[d][i].result
                    \/ d = c /\ intents[d][i].result = "none" /\ intents'[d][i].result \in results
           /\ \A id \in Input : Named(id)' = Named(id)
<1>1. \A d \in Clients : d # c => intents'[d] = intents[d]
    BY DEF Ledgers
<1>2. DOMAIN intents'[c] = DOMAIN intents[c]
  <2>1. DOMAIN intents'[c] = 1 .. Len(intents'[c])
      BY LenProperties
  <2> QED
      BY <2>1, LedgerFacts
<1>3. \A i \in DOMAIN intents[c] :
         /\ intents'[c][i].fence = intents[c][i].fence
         /\ intents'[c][i].seq = intents[c][i].seq
         /\ \/ intents'[c][i].result = intents[c][i].result
            \/ intents[c][i].result = "none" /\ intents'[c][i].result \in results
  <2> TAKE i \in DOMAIN intents[c]
  <2>1. /\ intents[c][i] \in Browser!Intent /\ intents[c][i].phase # "pre"
        /\ intents[c][i].phase = "done" <=> intents[c][i].result # "none"
      BY LedgerFacts
  <2>2. Ended(intents[c][i], intents'[c][i], results)
      OBVIOUS
  <2> QED
      BY <2>1, <2>2, EndedFacts
<1>4. \A id \in Input : id.client \in Clients
    BY DEF Input
<1>5. ASSUME NEW id \in Input PROVE Named(id)' = Named(id)
  <2>1. DOMAIN intents'[id.client] = DOMAIN intents[id.client]
      BY <1>1, <1>2, <1>4
  <2>2. \A i \in DOMAIN intents[id.client] :
            /\ intents'[id.client][i].fence = intents[id.client][i].fence
            /\ intents'[id.client][i].seq = intents[id.client][i].seq
      BY <1>1, <1>3, <1>4
  <2> QED
      BY <2>1, <2>2 DEF Named
<1> QED
    BY <1>1, <1>2, <1>3, <1>5

\* A browser's step that ends intents, with verdicts that are compatible with where they are
LEMMA EndsKeepTruth ==
    ASSUME Truth, Ledgers, QueueTypes, NEW c \in Clients, NEW results \in SUBSET Verdicts,
           intents' = [intents EXCEPT ![c] = intents'[c]],
           intents'[c] \in Seq(Browser!Intent), Len(intents'[c]) = Len(intents[c]),
           \A i \in DOMAIN intents[c] : Ended(intents[c][i], intents'[c][i], results),
           \A id \in Input : \A i \in Named(id) : \A r \in results :
              \/ intents'[id.client][i].result = intents[id.client][i].result
              \/ /\ OnItsWay(id) => r = "uncertain"
                 /\ Took(id) => r # "rejected",
           down' = down \/ (down[c] # <<>> /\ down' = [down EXCEPT ![c] = Tail(@)]),
           UNCHANGED <<up, toHost, acks, log>>
    PROVE  Truth'
<1>1. SentOnce' /\ \A id \in Input : OnItsWay(id)' => OnItsWay(id)
    BY LostFrames DEF Truth
<1>2. /\ \A d \in Clients : \A i \in DOMAIN intents[d] :
                 \/ intents'[d][i].result = intents[d][i].result
                 \/ d = c /\ intents[d][i].result = "none" /\ intents'[d][i].result \in results
      /\ \A id \in Input : Named(id)' = Named(id)
    BY EndedNames
<1>3. ASSUME NEW id \in Input PROVE ResultsKept(id)
  <2>1. id.client \in Clients /\ Named(id) \subseteq DOMAIN intents[id.client]
      BY NamesOne DEF Input
  <2>2. ASSUME NEW i \in Named(id)
        PROVE  VerdictKept(id, intents[id.client][i].result, intents'[id.client][i].result)
    <3>1. CASE intents'[id.client][i].result = intents[id.client][i].result
        BY <3>1 DEF VerdictKept
    <3>2. CASE intents'[id.client][i].result # intents[id.client][i].result
      <4>1. intents[id.client][i].result = "none" /\ intents'[id.client][i].result \in results
          BY <1>2, <2>1, <2>2, <3>2
      <4>2. /\ OnItsWay(id) => intents'[id.client][i].result = "uncertain"
            /\ Took(id) => intents'[id.client][i].result # "rejected"
          BY <2>2, <3>2, <4>1
      <4> QED
          BY <4>1, <4>2 DEF VerdictKept
    <3> QED
        BY <3>1, <3>2
  <2> QED
      BY <1>2, <2>2 DEF ResultsKept
<1>4. \A id \in Input : Named(id) = {} => ~OnItsWay(id)
    BY DEF Truth, Underway, HasResult
<1>5. /\ Underway' /\ EffectsAreInputs'
      /\ \A id \in Input : \A status : Justified(id, status) => Justified(id, status)'
    BY <1>1, <1>3, <1>4, TruthKept DEF Truth
<1>6. \A d \in Clients : \A i \in DOMAIN down'[d] : \E j \in DOMAIN down[d] : down'[d][i] = down[d][j]
  <2>1. CASE down' = down
      BY <2>1
  <2>2. CASE down[c] # <<>> /\ down' = [down EXCEPT ![c] = Tail(@)]
    <3>1. down \in [Clients -> Seq(DownFrame)] /\ down[c] \in Seq(DownFrame)
        BY DEF QueueTypes
    <3>2. \A i \in DOMAIN Tail(down[c]) : i + 1 \in DOMAIN down[c] /\ Tail(down[c])[i] = down[c][i + 1]
        BY <2>2, <3>1, TakenFromQueue
    <3>3. down'[c] = Tail(down[c]) /\ \A d \in Clients : d # c => down'[d] = down[d]
        BY <2>2, <3>1
    <3>4. ASSUME NEW d \in Clients, NEW i \in DOMAIN down'[d]
          PROVE  \E j \in DOMAIN down[d] : down'[d][i] = down[d][j]
      <4>1. CASE d = c
          BY <3>2, <3>3, <3>4, <4>1, ZenonT(60)
      <4>2. CASE d # c
          BY <3>3, <3>4, <4>2
      <4> QED
          BY <4>1, <4>2
    <3> QED
        BY <3>4
  <2> QED
      BY <2>1, <2>2
<1>7. AnswersAreTrue'
    BY <1>5, <1>6, AnswersKept DEF Truth
<1> QED
    BY <1>1, <1>5, <1>7 DEF Truth

\* What is on its way, or took effect, was sent under the fence of its epoch.
LEMMA OneFence ==
    ASSUME Truth, HostOrder, NEW id \in Input, OnItsWay(id) \/ Took(id)
    PROVE  id.fence = id.epoch /\ id = InputOf(id.client, [epoch |-> id.epoch, seq |-> id.seq])
<1>1. id.fence = id.epoch
  <2>1. CASE InUp(id)
      BY <2>1 DEF InUp, InputOf
  <2>2. CASE InToHost(id)
      BY <2>2 DEF InToHost, HostOrder, FencesAreLeases
  <2>3. CASE Took(id)
      BY <2>3 DEF Took, Truth, EffectsAreInputs
  <2> QED
      BY <2>1, <2>2, <2>3 DEF OnItsWay
<1> QED
    BY <1>1 DEF Input, InputOf

LEMMA BrowserEndsKeepsTruth ==
    ASSUME Truth, Ledgers, QueueTypes, HostOrder, NEW c \in Clients,
           BrowserEnds(c, {"uncertain"}) \/ AckTaken(c, Head(down[c]))
    PROVE  Truth'
<1>1. CASE BrowserEnds(c, {"uncertain"})
  <2>1. {"uncertain"} \in SUBSET Verdicts /\ \A r \in {"uncertain"} : r = "uncertain" /\ r # "rejected"
      BY DEF Verdicts
  <2>2. /\ intents' = [intents EXCEPT ![c] = intents'[c]]
        /\ intents'[c] \in Seq(Browser!Intent) /\ Len(intents'[c]) = Len(intents[c])
        /\ \A i \in DOMAIN intents[c] : Ended(intents[c][i], intents'[c][i], {"uncertain"})
        /\ down' = down \/ (down[c] # <<>> /\ down' = [down EXCEPT ![c] = Tail(@)])
        /\ UNCHANGED <<up, toHost, acks, log>>
      BY <1>1 DEF BrowserEnds, IntentsEnd, hostVars
  <2> QED
      BY <2>1, <2>2, EndsKeepTruth
<1>2. CASE AckTaken(c, Head(down[c]))
  <2> DEFINE frame == Head(down[c])
  <2>1. /\ down[c] # <<>> /\ frame.type = "ack" /\ {frame.status} \in SUBSET Verdicts
        /\ intents' = [intents EXCEPT ![c] = intents'[c]]
        /\ intents'[c] \in Seq(Browser!Intent) /\ Len(intents'[c]) = Len(intents[c])
        /\ \A i \in DOMAIN intents[c] : Ended(intents[c][i], intents'[c][i], {frame.status})
        /\ \A i \in DOMAIN intents[c] : intents'[c][i] # intents[c][i] =>
              intents[c][i].fence = frame.epoch /\ intents[c][i].seq = frame.seq
        /\ down' = down \/ (down[c] # <<>> /\ down' = [down EXCEPT ![c] = Tail(@)])
        /\ UNCHANGED <<up, toHost, acks, log>>
      BY <1>2 DEF AckTaken, BrowserEnds, IntentsEnd, hostVars
  <2>2. 1 \in DOMAIN down[c] /\ frame = down[c][1]
      BY <2>1, TakenFromQueue DEF QueueTypes
  <2> HIDE DEF frame
  <2>3. InputOf(c, frame) \in Input /\ Justified(InputOf(c, frame), frame.status)
      BY <2>1, <2>2 DEF Truth, AnswersAreTrue
  <2>4. /\ OnItsWay(InputOf(c, frame)) => frame.status = "uncertain"
        /\ Took(InputOf(c, frame)) => frame.status # "rejected"
    <3>1. frame.status \in {"written", "duplicate", "rejected", "uncertain"}
        BY <2>1 DEF Verdicts
    <3>2. OnItsWay(InputOf(c, frame)) => ~Took(InputOf(c, frame))
        BY <2>3 DEF Truth, Underway
    <3> QED
        BY <2>3, <3>1, <3>2 DEF Justified
  <2>5. ASSUME NEW id \in Input, NEW i \in Named(id)
        PROVE  \/ intents'[id.client][i].result = intents[id.client][i].result
               \/ /\ OnItsWay(id) => frame.status = "uncertain"
                  /\ Took(id) => frame.status # "rejected"
    <3>1. i \in DOMAIN intents[id.client] /\ id.client \in Clients
          /\ intents[id.client][i].fence = id.epoch /\ intents[id.client][i].seq = id.seq
        BY <2>5 DEF Named, Input
    <3>2. CASE id.client # c
      <4>1. intents'[id.client] = intents[id.client]
          BY <2>1, <3>1, <3>2 DEF Ledgers
      <4> QED
          BY <4>1
    <3>3. CASE id.client = c /\ intents'[c][i] # intents[c][i]
      <4>1. id.epoch = frame.epoch /\ id.seq = frame.seq
          BY <2>1, <3>1, <3>3
      <4>2. OnItsWay(id) \/ Took(id) => id = InputOf(c, frame)
          BY <3>3, <4>1, OneFence DEF InputOf
      <4> QED
          BY <2>4, <4>2
    <3>4. CASE id.client = c /\ intents'[c][i] = intents[c][i]
        BY <3>4
    <3> QED
        BY <3>2, <3>3, <3>4
  <2>6. \A id \in Input : \A i \in Named(id) : \A r \in {frame.status} :
              \/ intents'[id.client][i].result = intents[id.client][i].result
              \/ /\ OnItsWay(id) => r = "uncertain"
                 /\ Took(id) => r # "rejected"
      BY <2>5
  <2> QED
      BY <2>1, <2>6, EndsKeepTruth
<1> QED
    BY <1>1, <1>2

LEMMA BrowserOpensKeepsTruth ==
    ASSUME Truth, Ledgers, QueueTypes, NEW c \in Clients, NEW fence, BrowserOpens(c, fence)
    PROVE  Truth'
<1>1. /\ intents' = [intents EXCEPT ![c] = intents'[c]]
      /\ intents'[c] \in Seq(Browser!Intent) /\ Len(intents'[c]) = Len(intents[c])
      /\ \A i \in DOMAIN intents[c] : Ended(intents[c][i], intents'[c][i], {})
      /\ down[c] # <<>> /\ down' = [down EXCEPT ![c] = Tail(@)]
      /\ UNCHANGED <<up, toHost, acks, log>>
    BY DEF BrowserOpens, EpochOpened, hostVars
<1>2. {} \in SUBSET Verdicts /\ \A r : r \notin {}
    OBVIOUS
<1> QED
    BY <1>1, <1>2, EndsKeepTruth

\* The intent of a key that is consumed is named by no identity that was used before.
LEMMA KeyNames ==
    ASSUME Ledgers, NEW c \in Clients, NEW x \in Browser!Intent, KeyAdded(c, x)
    PROVE  /\ \A d \in Clients : d # c => intents'[d] = intents[d]
           /\ DOMAIN intents'[c] = DOMAIN intents[c] \cup {Len(intents[c]) + 1}
           /\ Len(intents[c]) + 1 \notin DOMAIN intents[c]
           /\ intents'[c][Len(intents[c]) + 1] = x
           /\ \A i \in DOMAIN intents[c] : intents'[c][i] = intents[c][i]
           /\ \A id \in Input : id.client = c /\ id.epoch = x.fence /\ id.seq = x.seq => Named(id) = {}
           /\ \A id \in Input : Named(id) # {} => Named(id)' = Named(id)
<1>1. /\ intents[c] \in Seq(Browser!Intent) /\ DOMAIN intents[c] = 1 .. Len(intents[c])
      /\ Len(intents[c]) \in Nat
      /\ intents' = [intents EXCEPT ![c] = Append(intents[c], x)]
    BY LedgerFacts DEF KeyAdded
<1>2. intents'[c] = Append(intents[c], x) /\ \A d \in Clients : d # c => intents'[d] = intents[d]
    BY <1>1 DEF Ledgers
<1>3. /\ DOMAIN Append(intents[c], x) = 1 .. Len(intents[c]) + 1
      /\ Append(intents[c], x)[Len(intents[c]) + 1] = x
      /\ \A i \in DOMAIN intents[c] : Append(intents[c], x)[i] = intents[c][i]
    BY <1>1, AddedToQueue
<1>4. /\ DOMAIN intents'[c] = DOMAIN intents[c] \cup {Len(intents[c]) + 1}
      /\ Len(intents[c]) + 1 \notin DOMAIN intents[c]
    BY <1>1, <1>2, <1>3
<1>5. ASSUME NEW id \in Input, id.client = c, id.epoch = x.fence, id.seq = x.seq, Named(id) # {}
      PROVE  FALSE
  <2>1. id.seq > 0
      BY PipelineAssumption DEF Input
  <2>2. x.seq = authority[c].next /\ x.fence = authority[c].fence /\ Attached(authority[c])
      BY <1>5, <2>1 DEF KeyAdded, KeyOf, Attached
  <2>3. PICK i \in DOMAIN intents[c] : intents[c][i].fence = x.fence /\ intents[c][i].seq = x.seq
      BY <1>5 DEF Named
  <2>4. intents[c][i].seq < authority[c].next
      BY <2>2, <2>3, LedgerFacts DEF Ledger
  <2>5. authority[c].next \in Nat
      BY LedgerFacts, PipelineAssumption DEF Browser!Authority
  <2> QED
      BY <2>2, <2>3, <2>4, <2>5
<1>6. ASSUME NEW id \in Input, Named(id) # {} PROVE Named(id)' = Named(id)
  <2>1. CASE id.client = c
    <3>1. ~(id.epoch = x.fence /\ id.seq = x.seq)
        BY <1>5, <1>6, <2>1
    <3> QED
        BY <1>2, <1>3, <1>4, <2>1, <3>1, SMTT(30) DEF Named
  <2>2. CASE id.client # c
    <3>1. intents'[id.client] = intents[id.client]
        BY <1>2, <2>2 DEF Input
    <3> QED
        BY <3>1 DEF Named
  <2> QED
      BY <2>1, <2>2
<1> QED
    BY <1>2, <1>3, <1>4, <1>5, <1>6

LEMMA BrowserPressesKeepsTruth ==
    ASSUME Truth, Ledgers, Connected, NEW c \in Clients, NEW x \in Browser!Intent, BrowserPresses(c, x)
    PROVE  Truth'
<1> DEFINE frame == [epoch |-> x.fence, seq |-> x.seq]
           new == InputOf(c, frame)
           last == Len(intents[c]) + 1
<1>1. KeyAdded(c, x) /\ UNCHANGED <<down, toHost, acks, log>>
    BY DEF BrowserPresses, hostVars
<1>2. /\ \A d \in Clients : d # c => DOMAIN up'[d] = {} \/ up'[d] = up[d]
      /\ x.phase # "done" => x.seq > 0 /\ frame \in KeyFrame
      /\ \/ DOMAIN up'[c] = {} \/ up'[c] = up[c]
         \/ x.phase # "done" /\ up'[c] = Append(up[c], frame)
    BY KeyInQueue
<1>3. /\ \A d \in Clients : d # c => intents'[d] = intents[d]
      /\ DOMAIN intents'[c] = DOMAIN intents[c] \cup {last} /\ last \notin DOMAIN intents[c]
      /\ intents'[c][last] = x
      /\ \A i \in DOMAIN intents[c] : intents'[c][i] = intents[c][i]
      /\ \A id \in Input : id.client = c /\ id.epoch = x.fence /\ id.seq = x.seq => Named(id) = {}
      /\ \A id \in Input : Named(id) # {} => Named(id)' = Named(id)
    BY <1>1, KeyNames
<1>4. /\ new.client = c /\ new.epoch = x.fence /\ new.seq = x.seq
      /\ frame \in KeyFrame => new \in Input
    BY DEF InputOf, Input, KeyFrame
<1>5. \A id \in Input : Named(id) = {} => ~OnItsWay(id)
    BY DEF Truth, Underway, HasResult
<1>6. x.phase # "done" => new \in Input /\ Named(new) = {} /\ ~OnItsWay(new)
    BY <1>2, <1>3, <1>4, <1>5
<1>7. up[c] \in Seq(KeyFrame)
    BY DEF Connected, QueueTypes
<1> HIDE DEF last, new, frame
<1>8. ASSUME NEW i \in DOMAIN up'[c]
      PROVE  \/ i \in DOMAIN up[c] /\ up'[c][i] = up[c][i]
             \/ i \notin DOMAIN up[c] /\ i = Len(up[c]) + 1 /\ up'[c][i] = frame /\ x.phase # "done"
  <2>1. CASE x.phase # "done" /\ up'[c] = Append(up[c], frame)
      BY <1>2, <1>7, <1>8, <2>1, AddedToQueue
  <2> QED
      BY <1>2, <1>8, <2>1
<1>9. ASSUME NEW id, id.client \in Clients, InUp(id)'
      PROVE  InUp(id) \/ (id = new /\ x.phase # "done")
  <2>1. PICK i \in DOMAIN up'[id.client] : InputOf(id.client, up'[id.client][i]) = id
      BY <1>9 DEF InUp, InputOf
  <2>2. CASE id.client # c
    <3>1. i \in DOMAIN up[id.client] /\ up'[id.client][i] = up[id.client][i]
        BY <1>2, <1>9, <2>1, <2>2
    <3> QED
        BY <2>1, <3>1 DEF InUp
  <2>3. CASE id.client = c
      BY <1>8, <2>1, <2>3 DEF InUp, new
  <2> QED
      BY <2>2, <2>3
<1>10. \A id : InToHost(id)' <=> InToHost(id)
    BY <1>1 DEF InToHost
<1>11. \A id \in Input : OnItsWay(id)' => OnItsWay(id) \/ (id = new /\ x.phase # "done")
    BY <1>9, <1>10 DEF OnItsWay, Input
<1>12. SentOnce'
  <2>1. ASSUME NEW d \in Clients, NEW i \in DOMAIN up'[d], NEW j \in DOMAIN up'[d], up'[d][i] = up'[d][j]
        PROVE  i = j
    <3>1. CASE d # c
        BY <1>2, <2>1, <3>1 DEF Truth, SentOnce
    <3>2. CASE d = c
      <4>1. \A k \in DOMAIN up[c] : x.phase # "done" => up[c][k] # frame
          BY <1>4, <1>6 DEF OnItsWay, InUp, new
      <4> QED
          BY <1>8, <2>1, <3>2, <4>1 DEF Truth, SentOnce
    <3> QED
        BY <3>1, <3>2
  <2>2. (\A i \in DOMAIN toHost : ~InUp(toHost[i].id))'
    <3> SUFFICES ASSUME NEW i \in DOMAIN toHost', InUp(toHost[i].id)' PROVE FALSE
        OBVIOUS
    <3>1. /\ i \in DOMAIN toHost /\ toHost'[i] = toHost[i] /\ ~InUp(toHost[i].id)
          /\ InToHost(toHost[i].id) /\ toHost[i].id \in Input /\ toHost[i].id.client \in Clients
        BY <1>1, QueuedTypes DEF Truth, SentOnce, InToHost, Connected
    <3>2. \A id : id = toHost[i].id => InUp(id)'
        BY <1>1 DEF InUp, InputOf
    <3>3. toHost[i].id = new /\ x.phase # "done"
        BY <1>9, <3>1, <3>2
    <3> QED
        BY <1>6, <3>1, <3>3 DEF OnItsWay
  <2>3. \A i, j \in DOMAIN toHost' : toHost'[i].id = toHost'[j].id => i = j
      BY <1>1 DEF Truth, SentOnce
  <2> QED
      BY <2>1, <2>2, <2>3 DEF SentOnce
<1>13. ASSUME NEW id \in Input, Named(id) # {} PROVE ResultsKept(id) /\ (OnItsWay(id)' => OnItsWay(id))
  <2>1. Named(id)' = Named(id)
      BY <1>3, <1>13
  <2>2. \A i \in Named(id) : intents'[id.client][i] = intents[id.client][i]
      BY <1>3 DEF Named, Input
  <2>3. OnItsWay(id)' => OnItsWay(id)
      BY <1>6, <1>11, <1>13
  <2> QED
      BY <2>1, <2>2, <2>3 DEF ResultsKept, VerdictKept
<1>14. ASSUME NEW id \in Input, Named(id) = {}, OnItsWay(id)' PROVE HasResult(id, {"none"})'
  <2>1. id = new /\ x.phase # "done"
      BY <1>5, <1>11, <1>14
  <2>2. x.result = "none"
      BY <1>1, <2>1 DEF KeyAdded, KeyOf
  <2>3. last \in Named(id)'
      BY <1>3, <1>4, <2>1 DEF Named
  <2>4. \A i \in Named(id)' : i = last
      BY <1>3, <1>4, <1>14, <2>1 DEF Named
  <2> QED
      BY <1>3, <1>4, <2>1, <2>2, <2>3, <2>4 DEF HasResult
<1>15. /\ Underway' /\ EffectsAreInputs'
       /\ \A id \in Input : \A status : Justified(id, status) => Justified(id, status)'
    BY <1>1, <1>13, <1>14, TruthKept DEF Truth
<1>16. AnswersAreTrue'
    BY <1>1, <1>15, AnswersKept DEF Truth, Connected
<1> QED
    BY <1>12, <1>15, <1>16 DEF Truth

\* Nothing is consumed, ended or given to the host: keys move on, and acknowledgements that
\* are true.
LEMMA MovedKeepsTruth ==
    ASSUME Truth, QueueTypes, UNCHANGED <<intents, log>>, SentOnce',
           \A id \in Input : OnItsWay(id)' => OnItsWay(id),
           \A i \in DOMAIN acks' : \E j \in DOMAIN acks : acks'[i] = acks[j],
           \A d \in Clients : \A i \in DOMAIN down'[d] :
              \/ down'[d][i].type # "ack"
              \/ \E j \in DOMAIN down[d] : down'[d][i] = down[d][j]
              \/ \E id \in Input : \E status :
                    /\ InputOf(d, down'[d][i]) = id /\ down'[d][i].status = status
                    /\ status # "none" /\ Justified(id, status)
    PROVE  Truth'
<1>1. \A id \in Input : ResultsKept(id)
    BY DEF ResultsKept, VerdictKept, Named
<1>2. \A id \in Input : Named(id) = {} => ~OnItsWay(id)
    BY DEF Truth, Underway, HasResult
<1>3. /\ Underway' /\ EffectsAreInputs'
      /\ \A id \in Input : \A status : Justified(id, status) => Justified(id, status)'
    BY <1>1, <1>2, TruthKept DEF Truth
<1>4. AnswersAreTrue'
    BY <1>3, AnswersKept DEF Truth
<1> QED
    BY <1>3, <1>4 DEF Truth

LEMMA KeyForwarded ==
    ASSUME Truth, Connected, LeaseInv, NEW c \in Clients, up[c] # <<>>,
           \A d \in Clients : d # c => DOMAIN up'[d] = {} \/ up'[d] = up[d],
           DOMAIN up'[c] = {} \/ up'[c] = Tail(up[c]),
           toHost' = Append(toHost, Forwarded(c, Head(up[c])))
    PROVE  SentOnce' /\ \A id \in Input : OnItsWay(id)' => OnItsWay(id)
<1> DEFINE frame == Head(up[c])
           new == Forwarded(c, frame)
<1>1. /\ new \in Forward /\ new.id = InputOf(c, frame) /\ new.id \in Input
      /\ 1 \in DOMAIN up[c] /\ up[c][1] = frame /\ frame \in KeyFrame
      /\ new.id.client = c
    BY KeyTaken DEF InputOf
<1>2. /\ up \in [Clients -> Seq(KeyFrame)] /\ up[c] \in Seq(KeyFrame)
      /\ toHost \in Seq(Forward) /\ DOMAIN toHost = 1 .. Len(toHost) /\ Len(toHost) \in Nat
    BY QueuedTypes DEF Connected, QueueTypes
<1>3. \A i \in DOMAIN Tail(up[c]) : /\ i \in Nat /\ i > 0 /\ i + 1 \in DOMAIN up[c]
                                    /\ Tail(up[c])[i] = up[c][i + 1]
    BY <1>2, TakenFromQueue
<1> HIDE DEF new, frame
<1>4. /\ \A i \in DOMAIN toHost : i \in DOMAIN toHost' /\ toHost'[i] = toHost[i]
      /\ \A i \in DOMAIN toHost' :
            \/ i \in DOMAIN toHost /\ toHost'[i] = toHost[i]
            \/ i = Len(toHost) + 1 /\ i \notin DOMAIN toHost /\ toHost'[i] = new
    BY <1>1, <1>2, AddedToQueue DEF new, frame
<1>5. \A d \in Clients : \A i \in DOMAIN up'[d] : \E j \in DOMAIN up[d] : up'[d][i] = up[d][j]
  <2> TAKE d \in Clients
  <2>1. CASE d = c
      BY <1>3, <2>1
  <2>2. CASE d # c
      BY <2>2
  <2> QED
      BY <2>1, <2>2
<1>6. \A d \in Clients : \A i \in DOMAIN up[d] : up[d][i] \in KeyFrame
  <2> TAKE d \in Clients
  <2>1. up[d] \in Seq(KeyFrame) /\ DOMAIN up[d] = 1 .. Len(up[d])
      BY <1>2, LenProperties
  <2> QED
      BY <2>1, ElementOfSeq
<1>7. InUp(new.id)
    BY <1>1 DEF InUp
<1>8. \A i \in DOMAIN up'[c] : up'[c][i] # frame
  <2> TAKE i \in DOMAIN up'[c]
  <2>1. i \in DOMAIN Tail(up[c]) /\ up'[c][i] = Tail(up[c])[i]
      OBVIOUS
  <2>2. i \in Nat /\ i > 0 /\ i + 1 \in DOMAIN up[c] /\ up'[c][i] = up[c][i + 1] /\ i + 1 # 1
      BY <1>3, <2>1
  <2> QED
      BY <1>1, <2>2 DEF Truth, SentOnce
<1>9. ASSUME NEW id, id.client \in Clients, InUp(id)' PROVE InUp(id) /\ id # new.id
  <2>1. PICK i \in DOMAIN up'[id.client] : InputOf(id.client, up'[id.client][i]) = id
      BY <1>9 DEF InUp, InputOf
  <2>2. PICK j \in DOMAIN up[id.client] : up'[id.client][i] = up[id.client][j]
      BY <1>5, <1>9, <2>1
  <2>3. InUp(id)
      BY <2>1, <2>2 DEF InUp
  <2>4. ASSUME id = new.id PROVE FALSE
    <3>1. id.client = c /\ InputOf(c, up'[c][i]) = InputOf(c, frame) /\ i \in DOMAIN up'[c]
        BY <1>1, <2>1, <2>4
    <3>2. up'[c][i] \in KeyFrame
        BY <1>6, <2>2, <3>1
    <3>3. up'[c][i] = frame
        BY <1>1, <3>1, <3>2 DEF InputOf, KeyFrame
    <3> QED
        BY <1>8, <3>1, <3>3
  <2> QED
      BY <2>3, <2>4
<1>10. \A id : InToHost(id)' => InToHost(id) \/ id = new.id
    BY <1>4 DEF InToHost
<1>11. \A id \in Input : OnItsWay(id)' => OnItsWay(id)
    BY <1>7, <1>9, <1>10 DEF OnItsWay, Input
<1>12. \A d \in Clients : \A i, j \in DOMAIN up'[d] : up'[d][i] = up'[d][j] => i = j
  <2> TAKE d \in Clients
  <2>1. CASE d = c
    <3> SUFFICES ASSUME NEW i \in DOMAIN up'[c], NEW j \in DOMAIN up'[c], up'[c][i] = up'[c][j]
                 PROVE  i = j
        BY <2>1
    <3>1. i \in DOMAIN Tail(up[c]) /\ j \in DOMAIN Tail(up[c]) /\ up'[c] = Tail(up[c])
        OBVIOUS
    <3>2. /\ i \in Nat /\ j \in Nat /\ i + 1 \in DOMAIN up[c] /\ j + 1 \in DOMAIN up[c]
          /\ up[c][i + 1] = up[c][j + 1]
        BY <1>3, <3>1
    <3>3. i + 1 = j + 1
        BY <3>2 DEF Truth, SentOnce
    <3> QED
        BY <3>2, <3>3
  <2>2. CASE d # c
      BY <2>2 DEF Truth, SentOnce
  <2> QED
      BY <2>1, <2>2
<1>13. \A i, j \in DOMAIN toHost' : toHost'[i].id = toHost'[j].id => i = j
  <2>1. \A i \in DOMAIN toHost : toHost[i].id # new.id
      BY <1>7 DEF Truth, SentOnce
  <2> QED
      BY <1>4, <2>1 DEF Truth, SentOnce
<1>14. (\A i \in DOMAIN toHost : ~InUp(toHost[i].id))'
  <2> SUFFICES ASSUME NEW i \in DOMAIN toHost', InUp(toHost[i].id)' PROVE FALSE
      BY Zenon
  <2>1. \A id : id = toHost'[i].id => InUp(id)'
      BY DEF InUp, InputOf
  <2>2. CASE i \in DOMAIN toHost /\ toHost'[i] = toHost[i]
    <3>1. toHost[i].id.client \in Clients /\ ~InUp(toHost[i].id)
        BY <2>2, QueuedTypes DEF Truth, SentOnce, Connected
    <3> QED
        BY <1>9, <2>1, <2>2, <3>1
  <2>3. CASE toHost'[i] = new
      BY <1>1, <1>9, <2>1, <2>3
  <2> QED
      BY <1>4, <2>2, <2>3
<1> QED
    BY <1>11, <1>12, <1>13, <1>14 DEF SentOnce

LEMMA ForwardKeyKeepsTruth ==
    ASSUME Truth, Connected, LeaseInv, NEW c \in Clients, ForwardKey(c)
    PROVE  Truth'
<1>1. /\ up[c] # <<>> /\ toHost' = Append(toHost, Forwarded(c, Head(up[c])))
      /\ up' = [up EXCEPT ![c] = Tail(@)]
      /\ UNCHANGED <<intents, log, acks, down>>
    BY DEF ForwardKey, browserVars, hostVars
<1>2. up'[c] = Tail(up[c]) /\ \A d \in Clients : d # c => up'[d] = up[d]
    BY <1>1 DEF Connected, QueueTypes
<1>3. SentOnce' /\ \A id \in Input : OnItsWay(id)' => OnItsWay(id)
    BY <1>1, <1>2, KeyForwarded
<1> QED
    BY <1>1, <1>3, MovedKeepsTruth DEF Connected

LEMMA RefuseKeyKeepsTruth ==
    ASSUME Truth, Connected, LeaseInv, NEW c \in Clients, RefuseKey(c)
    PROVE  Truth'
<1> DEFINE frame == Head(up[c])
           refusal == Ack(sock[c].fence, frame.epoch, frame.seq, "uncertain")
<1>1. /\ up[c] # <<>> /\ CloseControl(c) /\ SendDown(c, refusal) /\ up' = Heard(up)
      /\ refusal \in DownFrame /\ refusal.type = "ack" /\ refusal.status = "uncertain"
      /\ InputOf(c, refusal) = InputOf(c, frame)
      /\ \/ toHost' = toHost
         \/ toHost' = Append(toHost, Forwarded(c, frame))
      /\ acks' = acks \/ acks' = <<>>
      /\ UNCHANGED <<intents, log>>
    BY KeyRefused DEF browserVars, hostVars
<1>2. InputOf(c, frame) \in Input /\ 1 \in DOMAIN up[c] /\ up[c][1] = frame
    BY <1>1, KeyTaken
<1> HIDE DEF frame, refusal
<1>3. InUp(InputOf(c, frame))
    BY <1>2 DEF InUp, InputOf
<1>4. Justified(InputOf(c, frame), "uncertain")
    BY <1>2, <1>3 DEF Truth, Underway, OnItsWay, HasResult, Justified
<1>5. \A d \in Clients : DOMAIN up'[d] = {} \/ up'[d] = up[d]
  <2>1. up \in [Clients -> Seq(KeyFrame)]
      BY DEF Connected, QueueTypes
  <2> QED
      BY <1>1, <2>1, HeardKeys
<1>6. DOMAIN up'[c] = {}
  <2>1. sock'[c].state = "closed"
      BY <1>1, LeaseFacts DEF CloseControl, Socket
  <2>2. up \in [Clients -> Seq(KeyFrame)]
      BY DEF Connected, QueueTypes
  <2> QED
      BY <1>1, <2>1, <2>2, HeardKeys
<1>7. SentOnce' /\ \A id \in Input : OnItsWay(id)' => OnItsWay(id)
  <2>1. CASE toHost' = toHost
      BY <1>5, <2>1, LostFrames DEF Truth, Connected
  <2>2. CASE toHost' = Append(toHost, Forwarded(c, frame))
      BY <1>1, <1>5, <1>6, <2>2, KeyForwarded DEF frame
  <2> QED
      BY <1>1, <2>1, <2>2
<1>8. \A i \in DOMAIN acks' : \E j \in DOMAIN acks : acks'[i] = acks[j]
    BY <1>1, EmptyQueue
<1>9. ASSUME NEW d \in Clients, NEW i \in DOMAIN down'[d]
      PROVE  \/ \E j \in DOMAIN down[d] : down'[d][i] = down[d][j]
             \/ \E id \in Input : \E status :
                   /\ InputOf(d, down'[d][i]) = id /\ down'[d][i].status = status
                   /\ status # "none" /\ Justified(id, status)
  <2>1. /\ d # c => down'[d] = down[d]
        /\ d = c => (i \in DOMAIN down[c] /\ down'[c][i] = down[c][i]) \/ down'[c][i] = refusal
      BY <1>1, <1>9, FrameSentDown DEF Connected
  <2>2. CASE d = c /\ down'[c][i] = refusal
    <3>1. InputOf(d, down'[d][i]) = InputOf(c, frame) /\ down'[d][i].status = "uncertain"
        BY <1>1, <2>2
    <3> QED
        BY <1>2, <1>4, <3>1
  <2>3. CASE ~(d = c /\ down'[c][i] = refusal)
      BY <1>9, <2>1, <2>3
  <2> QED
      BY <2>2, <2>3
<1> QED
    BY <1>1, <1>7, <1>8, <1>9, MovedKeepsTruth DEF Connected

LEMMA RelayAckKeepsTruth ==
    ASSUME Truth, Connected, LeaseInv, RelayAck
    PROVE  Truth'
<1> DEFINE ack == Head(acks)
           c == ack.id.client
           frame == Ack(sock[c].fence, ack.id.epoch, ack.id.seq, ack.status)
<1>1. /\ acks # <<>> /\ acks' = Tail(acks)
      /\ ack \in HostAck /\ c \in Clients /\ 1 \in DOMAIN acks /\ ack = acks[1]
      /\ \/ down' = down
         \/ /\ SendDown(c, frame) /\ frame \in DownFrame /\ frame.status = ack.status
            /\ frame.epoch = ack.id.epoch /\ frame.seq = ack.id.seq
      /\ UNCHANGED <<intents, log, up, toHost>>
    BY AckRelayed DEF browserVars, hostVars
<1> HIDE DEF frame, c, ack
<1>2. \A i \in DOMAIN acks' : \E j \in DOMAIN acks : acks'[i] = acks[j]
  <2>1. \A i \in DOMAIN Tail(acks) : i + 1 \in DOMAIN acks /\ Tail(acks)[i] = acks[i + 1]
      BY <1>1, TakenFromQueue DEF Connected, QueueTypes
  <2> QED
      BY <1>1, <2>1
<1>3. /\ ack.id \in Input /\ Justified(ack.id, ack.status) /\ ack.status # "none"
      /\ ack.id.epoch = ack.id.fence
    BY <1>1 DEF Truth, AnswersAreTrue, HostAck, Host!Status
<1>4. frame.epoch = ack.id.epoch /\ frame.seq = ack.id.seq => InputOf(c, frame) = ack.id
    BY <1>3 DEF InputOf, Input, c
<1>5. SentOnce' /\ \A id \in Input : OnItsWay(id)' => OnItsWay(id)
    BY <1>1, LostFrames DEF Truth, Connected
<1>6. ASSUME NEW d \in Clients, NEW i \in DOMAIN down'[d]
      PROVE  \/ \E j \in DOMAIN down[d] : down'[d][i] = down[d][j]
             \/ \E id \in Input : \E status :
                   /\ InputOf(d, down'[d][i]) = id /\ down'[d][i].status = status
                   /\ status # "none" /\ Justified(id, status)
  <2>1. CASE down' = down
      BY <1>6, <2>1
  <2>2. CASE /\ SendDown(c, frame) /\ frame \in DownFrame /\ frame.status = ack.status
             /\ frame.epoch = ack.id.epoch /\ frame.seq = ack.id.seq
    <3>1. /\ d # c => down'[d] = down[d]
          /\ d = c => (i \in DOMAIN down[c] /\ down'[c][i] = down[c][i]) \/ down'[c][i] = frame
        BY <1>1, <1>6, <2>2, FrameSentDown DEF Connected
    <3>2. CASE d = c /\ down'[c][i] = frame
      <4>1. InputOf(d, down'[d][i]) = ack.id /\ down'[d][i].status = ack.status
          BY <1>4, <2>2, <3>2
      <4> QED
          BY <1>3, <4>1
    <3>3. CASE ~(d = c /\ down'[c][i] = frame)
        BY <1>6, <3>1, <3>3
    <3> QED
        BY <3>2, <3>3
  <2> QED
      BY <1>1, <2>1, <2>2
<1> QED
    BY <1>1, <1>2, <1>5, <1>6, MovedKeepsTruth DEF Connected

LEMMA HostReceivesKeepsTruth ==
    ASSUME Truth, Connected, HostOrder, Answers!IInv, HostReceives
    PROVE  Truth'
<1>0. PICK id, conn : id = Head(toHost).id /\ conn = Head(toHost).conn
    OBVIOUS
<1> DEFINE ack == [conn |-> conn, id |-> id, status |-> answer'.status]
<1>1. /\ id \in Input /\ 1 \in DOMAIN toHost /\ id = toHost[1].id
      /\ \A i \in DOMAIN toHost' : i \in Nat /\ i > 0 /\ i + 1 \in DOMAIN toHost
                                   /\ toHost'[i] = toHost[i + 1]
      /\ Host!SubmitInput(id) /\ conn = toHost[1].conn
      /\ acks' = acks \/ acks' = Append(acks, ack)
      /\ UNCHANGED <<intents, up, down>>
    BY <1>0, KeySubmitted DEF browserVars
<1>2. Head(toHost) \in Forward
    BY KeySubmitted
<1>3. /\ answer'.id = id /\ answer'.status \in Host!Status
      /\ answer'.status \in {"written", "duplicate"} => Took(id)'
      /\ \/ log' = log
         \/ log' = Append(log, id) /\ answer'.status \in {"written", "uncertain"}
    BY <1>1, InputSubmitted
<1>4. /\ id.epoch = id.fence /\ InToHost(id) /\ ~InUp(id) /\ ~Took(id)
      /\ HasResult(id, {"none", "uncertain"})
  <2>1. InToHost(id) /\ id.epoch = id.fence /\ ~InUp(id)
      BY <1>1 DEF InToHost, Truth, SentOnce, HostOrder, FencesAreLeases
  <2> QED
      BY <1>1, <2>1 DEF Truth, Underway, OnItsWay
<1>5. \A other : (InUp(other)' <=> InUp(other)) /\ Named(other)' = Named(other)
    BY <1>1 DEF InUp, InputOf, Named
<1>6. ASSUME NEW other, InToHost(other)' PROVE InToHost(other) /\ other # id
  <2>1. PICK i \in DOMAIN toHost' : toHost'[i].id = other
      BY <1>6 DEF InToHost
  <2>2. i + 1 \in DOMAIN toHost /\ toHost[i + 1].id = other /\ i + 1 # 1
      BY <1>1, <2>1
  <2> QED
      BY <1>1, <2>2 DEF InToHost, Truth, SentOnce
<1>7. \A other : OnItsWay(other)' => OnItsWay(other) /\ other # id
    BY <1>4, <1>5, <1>6 DEF OnItsWay
<1>8. \A k \in DOMAIN log : log[k] \in Input
    BY DEF Truth, EffectsAreInputs
<1>9. log \in Seq(Answers!Identity)
    BY DEF Answers!IInv, Answers!TypeOK
<1>10. id \in Answers!Identity
    BY <1>1, LeaseAssumption, PipelineAssumption DEF Input, Answers!Identity
<1>11. /\ \A k \in DOMAIN log : k \in DOMAIN log' /\ log'[k] = log[k]
       /\ \A k \in DOMAIN log' : log'[k] = id \/ (k \in DOMAIN log /\ log'[k] = log[k])
    BY <1>3, <1>9, <1>10, AddedToQueue
<1>12. \A other : (Took(other) => Took(other)') /\ (Took(other)' => Took(other) \/ other = id)
    BY <1>11 DEF Took
<1>13. log' = log => \A other : Took(other)' <=> Took(other)
    BY DEF Took
<1>14. \A other, results : HasResult(other, results)' <=> HasResult(other, results)
    BY <1>1, <1>5 DEF HasResult
<1>15. SentOnce'
  <2>1. \A d \in Clients : \A i, j \in DOMAIN up'[d] : up'[d][i] = up'[d][j] => i = j
      BY <1>1 DEF Truth, SentOnce
  <2>2. \A i, j \in DOMAIN toHost' : toHost'[i].id = toHost'[j].id => i = j
    <3> SUFFICES ASSUME NEW i \in DOMAIN toHost', NEW j \in DOMAIN toHost', toHost'[i].id = toHost'[j].id
                 PROVE  i = j
        OBVIOUS
    <3>1. /\ i \in Nat /\ j \in Nat /\ i + 1 \in DOMAIN toHost /\ j + 1 \in DOMAIN toHost
          /\ toHost[i + 1].id = toHost[j + 1].id
        BY <1>1
    <3>2. i + 1 = j + 1
        BY <3>1 DEF Truth, SentOnce
    <3> QED
        BY <3>1, <3>2
  <2>3. (\A i \in DOMAIN toHost : ~InUp(toHost[i].id))'
    <3> SUFFICES ASSUME NEW i \in DOMAIN toHost', InUp(toHost[i].id)' PROVE FALSE
        OBVIOUS
    <3>1. i + 1 \in DOMAIN toHost /\ toHost'[i] = toHost[i + 1]
        BY <1>1
    <3>2. \A other : other = toHost'[i].id => InUp(other)'
        BY DEF InUp, InputOf
    <3> QED
        BY <1>5, <3>1, <3>2 DEF Truth, SentOnce
  <2> QED
      BY <2>1, <2>2, <2>3 DEF SentOnce
<1>16. Underway'
  <2> SUFFICES ASSUME NEW other \in Input, OnItsWay(other)'
               PROVE  ~Took(other)' /\ HasResult(other, {"none", "uncertain"})'
      BY DEF Underway
  <2>1. OnItsWay(other) /\ other # id
      BY <1>7
  <2>2. ~Took(other) /\ HasResult(other, {"none", "uncertain"})
      BY <2>1 DEF Truth, Underway
  <2> QED
      BY <1>12, <1>14, <2>1, <2>2
<1>17. EffectsAreInputs'
  <2>1. \A k \in DOMAIN log' : log'[k] \in Input /\ log'[k].epoch = log'[k].fence
      BY <1>1, <1>4, <1>11 DEF Truth, EffectsAreInputs
  <2>2. ASSUME NEW other \in Input, Took(other)'
        PROVE  HasResult(other, {"none", "uncertain", "written", "duplicate"})'
    <3>1. CASE Took(other)
        BY <1>14, <3>1 DEF Truth, EffectsAreInputs
    <3>2. CASE other = id
      <4>1. HasResult(id, {"none", "uncertain", "written", "duplicate"})
          BY <1>4 DEF HasResult
      <4> QED
          BY <1>14, <3>2, <4>1
    <3> QED
        BY <1>12, <2>2, <3>1, <3>2
  <2> QED
      BY <2>1, <2>2 DEF EffectsAreInputs
<1>18. ASSUME NEW other \in Input, NEW status, Justified(other, status) PROVE Justified(other, status)'
  <2>1. status = "rejected" => ~Took(other) /\ ~OnItsWay(other) /\ other # id
      BY <1>4, <1>18 DEF Justified, OnItsWay
  <2> QED
      BY <1>5, <1>7, <1>12, <1>18, <2>1 DEF Justified
<1>19. ASSUME NEW status, status = answer'.status PROVE Justified(id, status)'
  <2>1. Named(id)' # {}
      BY <1>4, <1>5 DEF HasResult
  <2>2. status = "rejected" => ~Took(id)' /\ ~OnItsWay(id)'
      BY <1>3, <1>4, <1>7, <1>13, <1>19
  <2> QED
      BY <1>3, <1>19, <2>1, <2>2 DEF Justified
<1>20. \A i \in DOMAIN acks' :
          \/ \E j \in DOMAIN acks : acks'[i] = acks[j]
          \/ \E other \in Input : \E status :
                /\ acks'[i].id = other /\ acks'[i].status = status
                /\ other.epoch = other.fence /\ Justified(other, status)'
  <2>1. CASE acks' = acks
      BY <2>1
  <2>2. CASE acks' = Append(acks, ack)
    <3>1. ack \in HostAck /\ ack.id = id /\ ack.status = answer'.status
        BY <1>0, <1>1, <1>2, <1>3 DEF HostAck, Forward
    <3>2. acks \in Seq(HostAck)
        BY DEF Connected, QueueTypes
    <3> HIDE DEF ack
    <3>3. \A i \in DOMAIN acks' : acks'[i] = ack \/ (i \in DOMAIN acks /\ acks'[i] = acks[i])
        BY <2>2, <3>1, <3>2, AddedToQueue
    <3> QED
        BY <1>1, <1>4, <1>19, <3>1, <3>3
  <2> QED
      BY <1>1, <2>1, <2>2
<1>21. AnswersAreTrue'
  <2>1. \A d \in Clients : \A i \in DOMAIN down'[d] : \E j \in DOMAIN down[d] : down'[d][i] = down[d][j]
      BY <1>1
  <2> QED
      BY <1>18, <1>20, <2>1, AnswersKept DEF Truth, Connected
<1> QED
    BY <1>15, <1>16, <1>17, <1>21 DEF Truth

LEMMA StepKeepsTruth ==
    ASSUME Truth, LeaseInv, Connected, Ledgers, HostOrder, Answers!IInv, PipelineNext
    PROVE  Truth'
<1>1. ASSUME NEW c \in Clients, BrowserActs(c) PROVE Truth'
  <2>1. \/ \E x \in Browser!Intent : BrowserPresses(c, x)
        \/ BrowserEnds(c, {"uncertain"})
        \/ \E fence \in 1 .. MaxFence : BrowserOpens(c, fence)
        \/ AckTaken(c, Head(down[c]))
      BY <1>1, BrowserForms DEF Truth
  <2> QED
      BY <2>1, BrowserPressesKeepsTruth, BrowserEndsKeepsTruth, BrowserOpensKeepsTruth DEF Connected
<1>2. ASSUME UNCHANGED <<intents, log>>,
             \A d \in Clients : DOMAIN up'[d] = {} \/ up'[d] = up[d],
             toHost' = toHost \/ toHost' = <<>>, acks' = acks \/ acks' = <<>>,
             \A d \in Clients : \A i \in DOMAIN down'[d] :
                \/ down'[d][i].type # "ack"
                \/ \E j \in DOMAIN down[d] : down'[d][i] = down[d][j]
      PROVE  Truth'
    BY <1>2, QuietKeepsTruth DEF Connected
<1>3. CASE HostActs
  <2>1. CASE HostConnects \/ RelayLosesHost \/ HostLosesRelay
    <3>1. /\ UNCHANGED <<intents, log, up, down>>
          /\ toHost' = toHost \/ toHost' = <<>>
          /\ acks' = acks \/ acks' = <<>>
        BY <2>1 DEF HostConnects, RelayLosesHost, HostLosesRelay, browserVars, hostVars
    <3> QED
        BY <1>2, <3>1
  <2> QED
      BY <1>3, <2>1, HostReceivesKeepsTruth DEF HostActs
<1>4. up \in [Clients -> Seq(KeyFrame)] /\ down \in [Clients -> Seq(DownFrame)]
    BY DEF Connected, QueueTypes
<1>5. ASSUME up' = Heard(up) PROVE \A d \in Clients : DOMAIN up'[d] = {} \/ up'[d] = up[d]
    BY <1>4, <1>5, HeardKeys
<1>6. ASSUME NEW c \in Clients, NEW frame \in DownFrame, frame.type # "ack", SendDown(c, frame)
      PROVE  \A d \in Clients : \A i \in DOMAIN down'[d] :
                \/ down'[d][i].type # "ack"
                \/ \E j \in DOMAIN down[d] : down'[d][i] = down[d][j]
  <2> TAKE d \in Clients
  <2>1. CASE d = c
      BY <1>6, <2>1, FrameSentDown DEF Connected
  <2>2. CASE d # c
      BY <1>6, <2>2, FrameSentDown DEF Connected
  <2> QED
      BY <2>1, <2>2
<1>7. ASSUME NEW c \in Clients, Connect(c) PROVE Truth'
  <2>1. /\ UNCHANGED <<intents, log, toHost, acks>>
        /\ up' = [up EXCEPT ![c] = <<>>] /\ down' = [down EXCEPT ![c] = <<>>]
      BY <1>7 DEF Connect, browserVars, hostVars
  <2>2. \A d \in Clients : /\ DOMAIN up'[d] = {} \/ up'[d] = up[d]
                           /\ DOMAIN down'[d] = {} \/ down'[d] = down[d]
    <3> TAKE d \in Clients
    <3>1. up'[d] \in {<<>>, up[d]} /\ down'[d] \in {<<>>, down[d]}
        BY <1>4, <2>1
    <3> QED
        BY <3>1, EmptyQueue
  <2> QED
      BY <1>2, <2>1, <2>2
<1>8. ASSUME NEW c \in Clients, Close(c) PROVE Truth'
  <2>1. UNCHANGED <<intents, log, toHost, acks, down>> /\ up' = Heard(up)
      BY <1>8 DEF Close, browserVars, hostVars
  <2> QED
      BY <1>2, <1>5, <2>1
<1>9. 0 \in 0 .. MaxFence
    BY LeaseAssumption
<1>10. ASSUME NEW c \in Clients, Attach(c) PROVE Truth'
  <2>1. /\ UNCHANGED <<intents, log, toHost, acks, up>>
        /\ SendDown(c, Welcome(0)) \/ down' = down
      BY <1>10 DEF Attach, browserVars, hostVars
  <2>2. Welcome(0) \in DownFrame /\ Welcome(0).type # "ack"
      BY <1>9, FrameTypes
  <2> QED
      BY <1>2, <1>6, <2>1, <2>2
<1>11. ASSUME NEW c \in Clients, NEW n \in 1 .. MaxConns, FinishAttach(c, n) PROVE Truth'
  <2>1. /\ UNCHANGED <<intents, log, toHost, acks>> /\ up' = Heard(up)
        /\ SendDown(c, Welcome(sock'[c].fence)) \/ down' = down
        /\ AcquireTooLate(c, n) \/ Acquire(c, n)
      BY <1>11 DEF FinishAttach, browserVars, hostVars
  <2>2. LeaseInv'
    <3>1. LeaseNext
        BY <2>1 DEF LeaseNext, LeaseStep
    <3> QED
        BY <3>1, NextInv
  <2>3. sock'[c].fence \in 0 .. MaxFence
      BY <2>2 DEF LeaseInv, LeaseTypeOK, Socket
  <2> DEFINE frame == Welcome(sock'[c].fence)
  <2>4. frame \in DownFrame /\ frame.type # "ack"
      BY <2>3, FrameTypes
  <2>5. SendDown(c, frame) \/ down' = down
      BY <2>1
  <2> HIDE DEF frame
  <2> QED
      BY <1>2, <1>5, <1>6, <2>1, <2>4, <2>5
<1>12. ASSUME NEW c \in Clients, RefuseRenewal(c) PROVE Truth'
  <2>1. /\ UNCHANGED <<intents, log, toHost, acks, up>> /\ SendDown(c, Inactive)
      BY <1>12 DEF RefuseRenewal, browserVars, hostVars
  <2>2. Inactive \in DownFrame /\ Inactive.type # "ack"
      BY FrameTypes
  <2> QED
      BY <1>2, <1>6, <2>1, <2>2
<1>13. CASE Expire
  <2>1. UNCHANGED <<intents, log, toHost, acks, up, down>>
      BY <1>13 DEF Expire, browserVars, hostVars, pipeVars
  <2> QED
      BY <1>2, <2>1
<1>14. CASE RelayActs
    BY <1>7, <1>8, <1>10, <1>11, <1>12, <1>13, <1>14, ForwardKeyKeepsTruth, RefuseKeyKeepsTruth,
       RelayAckKeepsTruth DEF RelayActs
<1> QED
    BY <1>1, <1>3, <1>14 DEF PipelineNext

-----------------------------------------------------------------------------
(* The invariant *)

PipelineInv ==
    /\ LeaseInv
    /\ Answers!IInv
    /\ Connected
    /\ Ledgers
    /\ HostOrder
    /\ Truth

LEMMA InitPipelineInv == PipelineInit => PipelineInv
<1> SUFFICES ASSUME PipelineInit PROVE PipelineInv
    OBVIOUS
<1>1. /\ LeaseInit /\ Browser!BrowserInit /\ Host!HostInputInit
      /\ page = [c \in Clients |-> 0]
      /\ up = [c \in Clients |-> <<>>] /\ down = [c \in Clients |-> <<>>]
      /\ toHost = <<>> /\ acks = <<>>
    BY DEF PipelineInit
<1>2. LeaseInv
    BY <1>1, InitInv
<1>3. Answers!IInv
    BY <1>1, SameHostInit, HostAssumptions, Answers!InitIInv
<1>4. /\ authority = [c \in Clients |-> Browser!Detached(0)]
      /\ intents = [c \in Clients |-> <<>>]
    BY <1>1 DEF Browser!BrowserInit
<1>5. Browser!Detached(0) \in Browser!Authority /\ Browser!Detached(0).state = "detached"
      /\ Browser!Detached(0).highest = 0
    BY LeaseAssumption, PipelineAssumption DEF Browser!Detached, Browser!Authority
<1>6. Ledgers
  <2>1. <<>> \in Seq(Browser!Intent) /\ Len(<<>>) = 0 /\ DOMAIN <<>> = {}
      BY EmptyQueue
  <2>2. Ledger(Browser!Detached(0), <<>>)
      BY <1>5, <2>1, PipelineAssumption DEF Ledger, Attached, InOrder
  <2> QED
      BY <1>4, <1>5, <2>1, <2>2 DEF Ledgers
<1>7. QueueTypes
  <2>1. 0 \in 0 .. MaxConns
      BY LeaseAssumption
  <2> QED
      BY <1>1, <2>1, EmptyQueue DEF QueueTypes
<1>8. Links
  <2>1. lease.fence = 0 /\ \A c \in Clients : sock[c].fence = 0 /\ sock[c].state = "closed"
      BY <1>1 DEF LeaseInit
  <2> SUFFICES ASSUME NEW c \in Clients PROVE Linked(c)
      BY DEF Links
  <2>2. page[c] = 0 /\ DOMAIN up[c] = {} /\ DOMAIN down[c] = {} /\ authority[c] = Browser!Detached(0)
      BY <1>1, <1>4, EmptyQueue
  <2> QED
      BY <1>5, <2>1, <2>2 DEF Linked, Attached
<1>9. HostOrder
  <2>1. lease.fence = 0 /\ inputFence = 0 /\ inputWriter.highWater = 0
      BY <1>1 DEF LeaseInit, Host!HostInputInit, Host!NoWriter
  <2>2. DOMAIN toHost = {}
      BY <1>1, EmptyQueue
  <2> QED
      BY <2>1, <2>2 DEF HostOrder, FencesAreLeases, FencesReachHostInOrder
<1>10. Truth
  <2>1. /\ \A c \in Clients : DOMAIN up[c] = {} /\ DOMAIN down[c] = {}
        /\ DOMAIN toHost = {} /\ DOMAIN acks = {} /\ DOMAIN log = {}
      BY <1>1, EmptyQueue DEF Host!HostInputInit
  <2>2. \A id \in Input : ~OnItsWay(id) /\ ~Took(id)
      BY <2>1 DEF Input, OnItsWay, InUp, InToHost, Took
  <2> QED
      BY <2>1, <2>2 DEF Truth, SentOnce, Underway, EffectsAreInputs, AnswersAreTrue
<1> QED
    BY <1>2, <1>3, <1>6, <1>7, <1>8, <1>9, <1>10 DEF PipelineInv, Connected

LEMMA NextPipelineInv == PipelineInv /\ [PipelineNext]_pipelineVars => PipelineInv'
<1>1. ASSUME PipelineInv, PipelineNext PROVE PipelineInv'
  <2>1. LeaseInv /\ Answers!IInv /\ Connected /\ Ledgers /\ HostOrder /\ Truth /\ AnswersAreTrue
      BY <1>1 DEF PipelineInv, Truth
  <2>2. LeaseInv'
      BY <1>1, <2>1, StepIsLeaseStep, NextInv
  <2>3. Connected' /\ Ledgers'
      BY <1>1, <2>1, StepKeepsLinks
  <2>4. HostOrder' /\ Answers!IInv'
      BY <1>1, <2>1, StepKeepsFences
  <2>5. Truth'
      BY <1>1, <2>1, StepKeepsTruth
  <2> QED
      BY <2>2, <2>3, <2>4, <2>5 DEF PipelineInv
<1>2. ASSUME PipelineInv, UNCHANGED pipelineVars PROVE PipelineInv'
  <2>1. UNCHANGED <<lease, sock, acquiring, authority, intents, session, inputFence, inputWriter,
                    inputResults, log, answer, page, up, down, toHost, acks>>
      BY <1>2 DEF pipelineVars, leaseVars, browserVars, hostVars, pipeVars
  <2>2. LeaseInv'
    <3>1. UNCHANGED leaseVars
        BY <2>1 DEF leaseVars
    <3> QED
        BY <1>2, <3>1, NextInv DEF PipelineInv
  <2>3. Answers!IInv'
    <3>1. UNCHANGED Answers!hostInputVars
        BY <2>1 DEF Answers!hostInputVars
    <3> QED
        BY <1>2, <3>1, HostAssumptions, Answers!NextIInv DEF PipelineInv
  <2>4. Connected' /\ Ledgers'
      BY <1>2, <2>1 DEF PipelineInv, Connected, QueueTypes, Links, Linked, Ledgers, Attached
  <2>5. HostOrder'
      BY <1>2, <2>1 DEF PipelineInv, HostOrder, FencesAreLeases, FencesReachHostInOrder
  <2>6. Truth'
    <3>1. Truth /\ QueueTypes
        BY <1>2 DEF PipelineInv, Connected
    <3> QED
        BY <2>1, <3>1, QuietKeepsTruth
  <2> QED
      BY <2>2, <2>3, <2>4, <2>5, <2>6 DEF PipelineInv
<1> QED
    BY <1>1, <1>2

LEMMA PipelineSpecInv == PipelineSpec => []PipelineInv
    BY InitPipelineInv, NextPipelineInv, PTL DEF PipelineSpec

\* Whatever connections are lost, and whoever takes the lease, no browser is welcomed with a
\* fence that it must refuse (acquire and attachAuthority).
THEOREM EveryWelcomeIsFresh == PipelineSpec => []WelcomesAreFresh
<1>1. PipelineInv => WelcomesAreFresh
    BY DEF PipelineInv, Connected, Links, Linked, WelcomesAreFresh
<1> QED
    BY <1>1, PipelineSpecInv, PTL

\* A displaced writer's keys never follow its successor's to the host, which has not bound
\* their fence to another writer (liveAttachment when a key is forwarded).
THEOREM HostHearsFencesInOrder == PipelineSpec => []FencesReachHostInOrder
<1>1. PipelineInv => FencesReachHostInOrder
    BY DEF PipelineInv, HostOrder
<1> QED
    BY <1>1, PipelineSpecInv, PTL

\* The relay in the pipeline is the relay of WriterLease: what is proved of the lease holds of
\* it (class WriterAuthority).
THEOREM PipelineKeepsLease == PipelineSpec => LeaseSpec
<1>1. PipelineInit => LeaseInit
    BY DEF PipelineInit
<1>2. [PipelineNext]_pipelineVars => [LeaseNext]_leaseVars
    BY StepIsLeaseStep DEF pipelineVars
<1> QED
    BY <1>1, <1>2, PTL DEF PipelineSpec, LeaseSpec

-----------------------------------------------------------------------------
(* The pipeline keeps the contract: a step reports verdicts that are true, or one input     *)
(* takes effect.                                                                            *)

Told == [c \in Clients |-> [i \in DOMAIN intents[c] |-> VerdictOf(intents[c][i])]]
Effects == [k \in DOMAIN log |-> <<log[k].client, PlaceOf(log[k])>>]

LEMMA SameLength ==
    ASSUME NEW S, NEW s \in Seq(S), NEW t, t = [i \in DOMAIN s |-> t[i]]
    PROVE  Len(t) = Len(s) /\ DOMAIN t = DOMAIN s
<1>1. DOMAIN s = 1 .. Len(s) /\ Len(s) \in Nat
    BY LenProperties
<1>2. t \in [1 .. Len(s) -> {t[i] : i \in DOMAIN s}]
    BY <1>1
<1>3. t \in Seq({t[i] : i \in DOMAIN s})
    BY <1>1, <1>2, SeqDef
<1> QED BY <1>1, <1>2, <1>3, LenProperties

\* The place of an input is that of the one intent that it names.
LEMMA PlaceNamed ==
    ASSUME Ledgers, NEW id \in Input, Named(id) # {}
    PROVE  /\ PlaceOf(id) \in Named(id) /\ PlaceOf(id) \in DOMAIN intents[id.client]
           /\ PlaceOf(id) \in Nat
           /\ \A i \in Named(id) : i = PlaceOf(id)
           /\ Named(id)' = Named(id) => PlaceOf(id)' = PlaceOf(id)
<1>1. /\ Named(id) \subseteq DOMAIN intents[id.client]
      /\ \A i, j \in Named(id) : i = j
    BY NamesOne
<1>2. PlaceOf(id) \in Named(id)
    BY DEF PlaceOf, Named
<1>3. Named(id)' = Named(id) => PlaceOf(id)' \in Named(id)'
    BY DEF PlaceOf, Named
<1>4. id.client \in Clients
    BY DEF Input
<1>5. DOMAIN intents[id.client] = 1 .. Len(intents[id.client]) /\ Len(intents[id.client]) \in Nat
    BY <1>4, LedgerFacts
<1> QED
    BY <1>1, <1>2, <1>3, <1>5

\* An intent took effect when an input that names it did.
LEMMA EffectNamed ==
    ASSUME PipelineInv, NEW c \in Clients, NEW i
    PROVE  Promise!Effective(c, i) <=>
              \E k \in DOMAIN log : log[k].client = c /\ i \in Named(log[k])
<1>1. Ledgers /\ EffectsAreInputs
    BY DEF PipelineInv, Truth
<1>2. ASSUME NEW k \in DOMAIN log
      PROVE  /\ log[k] \in Input /\ Named(log[k]) # {}
             /\ PlaceOf(log[k]) \in Named(log[k]) /\ \A j \in Named(log[k]) : j = PlaceOf(log[k])
  <2>1. log[k] \in Input /\ Took(log[k])
      BY <1>1 DEF EffectsAreInputs, Took
  <2>2. Named(log[k]) # {}
      BY <1>1, <2>1 DEF EffectsAreInputs, HasResult
  <2> QED
      BY <1>1, <2>1, <2>2, PlaceNamed
<1>3. Promise!Effective(c, i) <=> \E k \in DOMAIN log : <<log[k].client, PlaceOf(log[k])>> = <<c, i>>
    BY DEF Promise!Effective
<1> QED
    BY <1>2, <1>3

\* Nothing takes effect, and each verdict is the former one or is true.
LEMMA VerdictsReported ==
    ASSUME PipelineInv, log' = log,
           \A id \in Input : Named(id) # {} => Named(id)' = Named(id),
           \A c \in Clients :
              /\ intents'[c] \in Seq(Browser!Intent)
              /\ DOMAIN intents[c] \subseteq DOMAIN intents'[c]
              /\ \A i \in DOMAIN intents'[c] :
                    \/ i \in DOMAIN intents[c] /\ VerdictOf(intents'[c][i]) = VerdictOf(intents[c][i])
                    \/ i \notin DOMAIN intents[c] /\ VerdictOf(intents'[c][i]) = "none"
                    \/ /\ i \in DOMAIN intents[c] => VerdictOf(intents[c][i]) = "none"
                       /\ Promise!Justified(c, i, VerdictOf(intents'[c][i]))
    PROVE  Promise!Report
<1>1. Ledgers /\ EffectsAreInputs
    BY Zenon DEF PipelineInv, Truth
<1>2. ASSUME NEW k \in DOMAIN log PROVE PlaceOf(log[k])' = PlaceOf(log[k])
  <2>1. log[k] \in Input /\ Took(log[k])
      BY <1>1 DEF EffectsAreInputs, Took
  <2>2. Named(log[k]) # {}
      BY <1>1, <2>1 DEF EffectsAreInputs, HasResult
  <2>3. PICK id \in Input : id = log[k] /\ Named(id) # {}
      BY <2>1, <2>2
  <2>4. PlaceOf(id)' = PlaceOf(id)
      BY <1>1, <2>3, PlaceNamed
  <2> QED
      BY <2>3, <2>4 DEF PlaceOf
<1>3. Effects' = Effects
    BY <1>2 DEF Effects
<1>4. ASSUME NEW c \in Clients
      PROVE  /\ Len(Told[c]) <= Len(Told'[c])
             /\ DOMAIN Told[c] = DOMAIN intents[c] /\ DOMAIN Told'[c] = DOMAIN intents'[c]
             /\ \A i \in DOMAIN Told[c] : Told[c][i] = VerdictOf(intents[c][i])
             /\ \A i \in DOMAIN Told'[c] : Told'[c][i] = VerdictOf(intents'[c][i])
  <2>1. /\ intents[c] \in Seq(Browser!Intent) /\ intents'[c] \in Seq(Browser!Intent)
        /\ DOMAIN intents[c] = 1 .. Len(intents[c]) /\ DOMAIN intents'[c] = 1 .. Len(intents'[c])
        /\ Len(intents[c]) \in Nat /\ Len(intents'[c]) \in Nat
    <3>1. intents[c] \in Seq(Browser!Intent) /\ intents'[c] \in Seq(Browser!Intent)
        BY <1>1 DEF Ledgers
    <3> QED
        BY <3>1, LenProperties
  <2>2. Len(intents[c]) <= Len(intents'[c])
      BY <2>1
  <2>3. /\ Told[c] = [i \in DOMAIN intents[c] |-> VerdictOf(intents[c][i])]
        /\ Told'[c] = [i \in DOMAIN intents'[c] |-> VerdictOf(intents'[c][i])]
      BY DEF Told
  <2>4. /\ Told[c] = [i \in DOMAIN intents[c] |-> Told[c][i]]
        /\ Told'[c] = [i \in DOMAIN intents'[c] |-> Told'[c][i]]
      BY <2>3
  <2>5. Len(Told[c]) = Len(intents[c]) /\ Len(Told'[c]) = Len(intents'[c])
      BY <2>1, <2>4, SameLength
  <2> QED
      BY <2>2, <2>3, <2>5
<1>5. ASSUME NEW c \in Clients, NEW i \in DOMAIN Told'[c]
      PROVE  \/ Told'[c][i] = Promise!Before(c, i)
             \/ Promise!Before(c, i) = "none" /\ Promise!Justified(c, i, Told'[c][i])
  <2>1. Promise!Before(c, i) = IF i \in DOMAIN Told[c] THEN Told[c][i] ELSE "none"
      BY DEF Promise!Before, Told
  <2> QED
      BY <1>4, <1>5, <2>1, SMTT(30)
<1> QED
    BY <1>3, <1>4, <1>5 DEF Promise!Report, Told, Effects

\* Intents that end with verdicts that are true
LEMMA EndsAreReported ==
    ASSUME PipelineInv, log' = log, NEW c \in Clients, NEW results \in SUBSET Verdicts,
           intents' = [intents EXCEPT ![c] = intents'[c]],
           intents'[c] \in Seq(Browser!Intent), Len(intents'[c]) = Len(intents[c]),
           \A i \in DOMAIN intents[c] : Ended(intents[c][i], intents'[c][i], results),
           \A i \in DOMAIN intents[c] : \A r \in results :
              intents'[c][i] # intents[c][i] =>
                  /\ r \in {"written", "duplicate"} => Promise!Effective(c, i)
                  /\ r = "rejected" => ~Promise!Effective(c, i)
    PROVE  Promise!Report
<1>1. Ledgers
    BY DEF PipelineInv
<1>2. /\ \A d \in Clients : DOMAIN intents'[d] = DOMAIN intents[d]
      /\ \A d \in Clients : \A i \in DOMAIN intents[d] :
            \/ intents'[d][i].result = intents[d][i].result
            \/ d = c /\ intents[d][i].result = "none" /\ intents'[d][i].result \in results
      /\ \A id \in Input : Named(id)' = Named(id)
    BY <1>1, EndedNames
<1>3. ASSUME NEW d \in Clients
      PROVE  /\ intents'[d] \in Seq(Browser!Intent)
             /\ DOMAIN intents[d] \subseteq DOMAIN intents'[d]
             /\ \A i \in DOMAIN intents'[d] :
                    \/ i \in DOMAIN intents[d] /\ VerdictOf(intents'[d][i]) = VerdictOf(intents[d][i])
                    \/ i \notin DOMAIN intents[d] /\ VerdictOf(intents'[d][i]) = "none"
                    \/ /\ i \in DOMAIN intents[d] => VerdictOf(intents[d][i]) = "none"
                       /\ Promise!Justified(d, i, VerdictOf(intents'[d][i]))
  <2>1. intents'[d] \in Seq(Browser!Intent)
    <3>1. CASE d = c
        BY <3>1
    <3>2. CASE d # c
        BY <1>1, <3>2 DEF Ledgers
    <3> QED
        BY <3>1, <3>2
  <2>2. ASSUME NEW i \in DOMAIN intents[d]
        PROVE  \/ VerdictOf(intents'[d][i]) = VerdictOf(intents[d][i])
               \/ /\ VerdictOf(intents[d][i]) = "none"
                  /\ Promise!Justified(d, i, VerdictOf(intents'[d][i]))
    <3>1. CASE intents'[d][i].result = intents[d][i].result
        BY <3>1 DEF VerdictOf
    <3>2. CASE intents'[d][i].result # intents[d][i].result
      <4> DEFINE r == intents'[d][i].result
                 verdict == VerdictOf(intents'[d][i])
      <4>1. d = c /\ intents[d][i].result = "none" /\ r \in results
            /\ intents'[c][i] # intents[c][i]
          BY <1>2, <2>2, <3>2
      <4>2. r \in {"written", "duplicate", "rejected", "uncertain"}
          BY <4>1 DEF Verdicts
      <4>3. /\ r \in {"written", "duplicate"} => Promise!Effective(c, i)
            /\ r = "rejected" => ~Promise!Effective(c, i)
          BY <2>2, <4>1
      <4>4. verdict = IF r = "duplicate" THEN "written" ELSE r
          BY DEF VerdictOf
      <4>5. VerdictOf(intents[d][i]) = "none"
          BY <4>1 DEF VerdictOf
      <4> HIDE DEF r, verdict
      <4>6. \/ verdict = "written" /\ Promise!Effective(c, i)
            \/ verdict = "rejected" /\ ~Promise!Effective(c, i)
            \/ verdict = "uncertain"
          BY <4>2, <4>3, <4>4
      <4>7. Promise!Justified(c, i, verdict)
        <5>1. CASE verdict = "written" /\ Promise!Effective(c, i)
            BY <5>1 DEF Promise!Justified
        <5>2. CASE verdict = "rejected" /\ ~Promise!Effective(c, i)
            BY <5>2 DEF Promise!Justified
        <5>3. CASE verdict = "uncertain"
            BY <5>3 DEF Promise!Justified
        <5> QED
            BY <4>6, <5>1, <5>2, <5>3
      <4> QED
          BY <4>1, <4>5, <4>7 DEF verdict
    <3> QED
        BY <3>1, <3>2
  <2> QED
      BY <1>2, <2>1, <2>2
<1> QED
    BY <1>2, <1>3, VerdictsReported

LEMMA KeyIsReported ==
    ASSUME PipelineInv, NEW c \in Clients, NEW x \in Browser!Intent, BrowserPresses(c, x)
    PROVE  Promise!Report
<1>1. Ledgers /\ KeyAdded(c, x) /\ log' = log
    BY DEF PipelineInv, BrowserPresses, hostVars
<1> DEFINE last == Len(intents[c]) + 1
<1>2. /\ \A d \in Clients : d # c => intents'[d] = intents[d]
      /\ DOMAIN intents'[c] = DOMAIN intents[c] \cup {last} /\ last \notin DOMAIN intents[c]
      /\ intents'[c][last] = x
      /\ \A i \in DOMAIN intents[c] : intents'[c][i] = intents[c][i]
      /\ \A id \in Input : Named(id) # {} => Named(id)' = Named(id)
    BY <1>1, KeyNames
<1> HIDE DEF last
<1>3. x.result \in {"none", "not-sent"}
    BY <1>1 DEF KeyAdded, KeyOf
<1>4. ~Promise!Effective(c, last)
  <2>1. ASSUME NEW k \in DOMAIN log, log[k].client = c, last \in Named(log[k]) PROVE FALSE
      BY <1>2, <2>1 DEF Named
  <2> QED
      BY <2>1, EffectNamed
<1>5. \/ VerdictOf(x) = "none"
      \/ Promise!Justified(c, last, VerdictOf(x))
  <2>1. VerdictOf(x) = x.result
      BY <1>3 DEF VerdictOf
  <2>2. Promise!Justified(c, last, "not-sent")
      BY <1>4 DEF Promise!Justified
  <2> QED
      BY <1>3, <2>1, <2>2
<1>6. ASSUME NEW d \in Clients
      PROVE  /\ intents'[d] \in Seq(Browser!Intent)
             /\ DOMAIN intents[d] \subseteq DOMAIN intents'[d]
             /\ \A i \in DOMAIN intents'[d] :
                    \/ i \in DOMAIN intents[d] /\ VerdictOf(intents'[d][i]) = VerdictOf(intents[d][i])
                    \/ i \notin DOMAIN intents[d] /\ VerdictOf(intents'[d][i]) = "none"
                    \/ /\ i \in DOMAIN intents[d] => VerdictOf(intents[d][i]) = "none"
                       /\ Promise!Justified(d, i, VerdictOf(intents'[d][i]))
  <2>1. CASE d # c
      BY <1>1, <1>2, <2>1 DEF Ledgers
  <2>2. CASE d = c
    <3>1. intents'[c] \in Seq(Browser!Intent)
      <4>1. Ledgers'
          BY <1>1, KeyKeepsLedgers
      <4> QED
          BY <4>1 DEF Ledgers
    <3> QED
        BY <1>2, <1>5, <2>2, <3>1
  <2> QED
      BY <2>1, <2>2
<1> QED
    BY <1>1, <1>2, <1>6, VerdictsReported

\* An input is its fields.
LEMMA SameInput ==
    ASSUME NEW a \in Input, NEW b \in Input, a.fence = b.fence, a.client = b.client,
           a.epoch = b.epoch, a.seq = b.seq
    PROVE  a = b
    BY DEF Input

LEMMA AckIsReported ==
    ASSUME PipelineInv, NEW c \in Clients, AckTaken(c, Head(down[c]))
    PROVE  Promise!Report
<1> DEFINE frame == Head(down[c])
           id == InputOf(c, frame)
<1>1. /\ down[c] # <<>> /\ frame.type = "ack" /\ {frame.status} \in SUBSET Verdicts
      /\ intents' = [intents EXCEPT ![c] = intents'[c]]
      /\ intents'[c] \in Seq(Browser!Intent) /\ Len(intents'[c]) = Len(intents[c])
      /\ \A i \in DOMAIN intents[c] : Ended(intents[c][i], intents'[c][i], {frame.status})
      /\ \A i \in DOMAIN intents[c] : intents'[c][i] # intents[c][i] =>
            intents[c][i].fence = frame.epoch /\ intents[c][i].seq = frame.seq
      /\ log' = log
    BY DEF AckTaken, BrowserEnds, IntentsEnd, hostVars
<1>2. 1 \in DOMAIN down[c] /\ frame = down[c][1]
    BY <1>1, TakenFromQueue DEF PipelineInv, Connected, QueueTypes
<1> HIDE DEF frame
<1>3. id \in Input /\ Justified(id, frame.status)
    BY <1>1, <1>2 DEF PipelineInv, Truth, AnswersAreTrue
<1>4. id.client = c /\ id.fence = frame.epoch /\ id.epoch = frame.epoch /\ id.seq = frame.seq
    BY DEF InputOf
<1> HIDE DEF id
<1>5. ASSUME NEW i \in DOMAIN intents[c], intents'[c][i] # intents[c][i]
      PROVE  /\ frame.status \in {"written", "duplicate"} => Promise!Effective(c, i)
             /\ frame.status = "rejected" => ~Promise!Effective(c, i)
  <2>1. /\ intents[c][i].fence = frame.epoch /\ intents[c][i].seq = frame.seq /\ i \in Named(id)
      BY <1>1, <1>4, <1>5 DEF Named
  <2>2. Took(id) => Promise!Effective(c, i)
    <3>1. Took(id) => \E k \in DOMAIN log : log[k].client = c /\ i \in Named(log[k])
        BY <1>4, <2>1 DEF Took
    <3> QED
        BY <3>1, EffectNamed
  <2>3. Promise!Effective(c, i) => Took(id)
    <3> SUFFICES ASSUME NEW k \in DOMAIN log, log[k].client = c, i \in Named(log[k]) PROVE Took(id)
        BY EffectNamed
    <3>1. log[k] \in Input /\ log[k].epoch = log[k].fence
        BY DEF PipelineInv, Truth, EffectsAreInputs
    <3>2. log[k].epoch = frame.epoch /\ log[k].seq = frame.seq
        BY <2>1 DEF Named
    <3>3. PICK e : e = log[k]
        OBVIOUS
    <3>4. /\ e \in Input /\ e.client = id.client /\ e.fence = id.fence
          /\ e.epoch = id.epoch /\ e.seq = id.seq
        BY <1>4, <3>1, <3>2, <3>3
    <3>5. e = id
        BY <1>3, <3>4, SameInput
    <3>6. log[k] = id
        BY <3>3, <3>5
    <3> QED
        BY <3>6 DEF Took
  <2> QED
      BY <1>3, <2>2, <2>3 DEF Justified
<1>6. \A i \in DOMAIN intents[c] : \A r \in {frame.status} :
         intents'[c][i] # intents[c][i] =>
             /\ r \in {"written", "duplicate"} => Promise!Effective(c, i)
             /\ r = "rejected" => ~Promise!Effective(c, i)
    BY <1>5, Zenon
<1> QED
    BY <1>1, <1>6, EndsAreReported, Zenon

\* An input that takes effect is later than those of its client that did.
LEMMA EffectIsTaken ==
    ASSUME PipelineInv, HostReceives, log' # log
    PROVE  \E c \in Clients : \E i \in DOMAIN Told[c] : Promise!TakeEffect(c, i)
<1>0. PICK id : id = Head(toHost).id
    OBVIOUS
<1>1. Ledgers /\ EffectsAreInputs /\ Underway /\ Answers!IInv /\ Connected /\ HostOrder
    BY DEF PipelineInv, Truth
<1>2. /\ id \in Input /\ 1 \in DOMAIN toHost /\ toHost[1].id = id /\ Host!SubmitInput(id)
      /\ intents' = intents
    BY <1>0, <1>1, KeySubmitted DEF browserVars
<1>3. /\ log' = Append(log, id)
      /\ \A k \in DOMAIN log :
            /\ log[k].fence <= id.fence
            /\ log[k].fence = id.fence =>
                  log[k].client = id.client /\ log[k].epoch = id.epoch /\ log[k].seq < id.seq
    BY <1>1, <1>2, InputSubmitted
<1>4. HasResult(id, {"none", "uncertain"}) /\ id.epoch = id.fence /\ id.client \in Clients
  <2>1. OnItsWay(id) /\ id.epoch = id.fence
      BY <1>1, <1>2 DEF OnItsWay, InToHost, HostOrder, FencesAreLeases
  <2> QED
      BY <1>1, <1>2, <2>1 DEF Underway, Input
<1> DEFINE c == id.client
           i == PlaceOf(id)
<1>5. /\ i \in Named(id) /\ i \in DOMAIN intents[c] /\ i \in Nat
      /\ intents[c][i].fence = id.epoch /\ intents[c][i].seq = id.seq
      /\ intents[c][i].result \in {"none", "uncertain"}
  <2>1. PlaceOf(id) \in Named(id) /\ PlaceOf(id) \in DOMAIN intents[id.client] /\ PlaceOf(id) \in Nat
      BY <1>1, <1>2, <1>4, PlaceNamed DEF HasResult
  <2> QED
      BY <1>4, <2>1 DEF HasResult, Named
<1>6. \A k \in DOMAIN log :
          /\ log[k] \in Input /\ log[k].epoch = log[k].fence /\ Named(log[k]) # {}
          /\ PlaceOf(log[k]) \in Named(log[k]) /\ PlaceOf(log[k]) \in DOMAIN intents[log[k].client]
          /\ PlaceOf(log[k]) \in Nat /\ log[k].client \in Clients
  <2> TAKE k \in DOMAIN log
  <2>1. log[k] \in Input /\ Took(log[k]) /\ log[k].epoch = log[k].fence
      BY <1>1 DEF EffectsAreInputs, Took
  <2>2. Named(log[k]) # {}
      BY <1>1, <2>1 DEF EffectsAreInputs, HasResult
  <2>3. log[k].client \in Clients
      BY <2>1 DEF Input
  <2> QED
      BY <1>1, <2>1, <2>2, <2>3, PlaceNamed
<1>7. \A e : PlaceOf(e)' = PlaceOf(e)
    BY <1>2 DEF PlaceOf
<1>8. ASSUME NEW k \in DOMAIN log, log[k].client = c PROVE PlaceOf(log[k]) < i
  <2> DEFINE j == PlaceOf(log[k])
  <2>1. /\ j \in DOMAIN intents[c] /\ j \in Nat
        /\ intents[c][j].fence = log[k].epoch /\ intents[c][j].seq = log[k].seq
      BY <1>6, <1>8 DEF Named
  <2>2. /\ log[k].epoch <= id.epoch
        /\ log[k].epoch = id.epoch => log[k].seq < id.seq
      BY <1>3, <1>4, <1>6
  <2>3. /\ log[k].epoch \in Nat /\ id.epoch \in Nat /\ log[k].seq \in Nat /\ id.seq \in Nat
        /\ log[k].seq > 0 /\ id.seq > 0
    <3>1. \A e \in Input : e.epoch \in Nat /\ e.seq \in Nat /\ e.seq > 0
        BY LeaseAssumption, PipelineAssumption DEF Input
    <3> QED
        BY <1>2, <1>6, <3>1
  <2>4. InOrder(intents[c])
      BY <1>4, LedgerFacts, <1>1 DEF Ledger
  <2> HIDE DEF i, j, c
  <2>5. ~(i < j)
      BY <1>5, <2>1, <2>2, <2>3, <2>4 DEF InOrder
  <2>6. i # j
      BY <1>5, <2>1, <2>2, <2>3
  <2> QED
      BY <1>5, <2>1, <2>5, <2>6 DEF j
<1>9. /\ log \in Seq(Input) /\ DOMAIN log = 1 .. Len(log) /\ Len(log) \in Nat
  <2>1. log \in Seq(Answers!Identity)
      BY <1>1 DEF Answers!IInv, Answers!TypeOK
  <2>2. DOMAIN log = 1 .. Len(log) /\ Len(log) \in Nat /\ log \in [1 .. Len(log) -> Answers!Identity]
      BY <2>1, LenProperties
  <2>3. log \in [1 .. Len(log) -> Input]
      BY <1>6, <2>2
  <2> QED
      BY <2>2, <2>3, SeqDef
<1>10. Effects' = Append(Effects, <<c, i>>)
  <2>1. /\ DOMAIN log' = 1 .. Len(log) + 1 /\ log'[Len(log) + 1] = id
        /\ \A k \in DOMAIN log : log'[k] = log[k]
    <3>1. id \in Input /\ log \in Seq(Input)
        BY <1>2, <1>9
    <3>2. /\ DOMAIN Append(log, id) = 1 .. Len(log) + 1 /\ Append(log, id)[Len(log) + 1] = id
          /\ \A k \in DOMAIN log : Append(log, id)[k] = log[k]
        BY <3>1, AddedToQueue
    <3> QED
        BY <1>3, <3>2
  <2>2. Effects \in Seq(Clients \X Nat) /\ Len(Effects) = Len(log)
    <3>1. Effects \in [1 .. Len(log) -> Clients \X Nat]
        BY <1>6, <1>9 DEF Effects
    <3>2. Effects \in Seq(Clients \X Nat)
        BY <1>9, <3>1, SeqDef
    <3> QED
        BY <1>9, <3>1, <3>2, LenProperties
  <2>3. <<c, i>> \in Clients \X Nat
      BY <1>4, <1>5
  <2>4. Effects' = [k \in 1 .. Len(log) + 1 |-> <<log'[k].client, PlaceOf(log'[k])>>]
    <3>1. Effects' = [k \in DOMAIN log' |-> <<log'[k].client, PlaceOf(log[k])'>>]
        BY DEF Effects
    <3>2. \A k : PlaceOf(log[k])' = PlaceOf(log'[k])
        BY <1>2 DEF PlaceOf
    <3> QED
        BY <2>1, <3>1, <3>2
  <2> DEFINE more == Append(Effects, <<c, i>>)
  <2>5. /\ more \in [1 .. Len(log) + 1 -> Clients \X Nat]
        /\ more[Len(log) + 1] = <<c, i>>
        /\ \A k \in 1 .. Len(log) : more[k] = Effects[k]
    <3> HIDE DEF i, c
    <3>1. /\ more \in Seq(Clients \X Nat) /\ Len(more) = Len(log) + 1
          /\ more[Len(log) + 1] = <<c, i>> /\ \A k \in 1 .. Len(log) : more[k] = Effects[k]
        BY <2>2, <2>3, AppendProperties
    <3> QED
        BY <3>1, LenProperties
  <2>6. \A k \in 1 .. Len(log) : Effects[k] = <<log'[k].client, PlaceOf(log'[k])>>
      BY <1>9, <2>1 DEF Effects
  <2>7. \A k \in 1 .. Len(log) + 1 : more[k] = <<log'[k].client, PlaceOf(log'[k])>>
    <3> HIDE DEF more
    <3> QED
        BY <1>9, <2>1, <2>5, <2>6
  <2> HIDE DEF more
  <2>8. Effects' = more
      BY <2>4, <2>5, <2>7
  <2> QED
      BY <2>8 DEF more
<1>11. Told' = Told
    BY <1>2 DEF Told
<1>12. Told[c][i] \in {"none", "uncertain"} /\ i \in DOMAIN Told[c]
  <2>1. Told[c] = [j \in DOMAIN intents[c] |-> VerdictOf(intents[c][j])]
      BY <1>4 DEF Told
  <2> HIDE DEF i, c
  <2> QED
      BY <1>5, <2>1 DEF VerdictOf
<1>13. \A k \in DOMAIN Effects : Effects[k][1] = c => Effects[k][2] < i
    BY <1>8 DEF Effects
<1>14. PICK d, j : d \in Clients /\ j \in DOMAIN Told[d] /\ d = c /\ j = i
    BY <1>4, <1>12
<1> HIDE DEF i, c
<1>15. Promise!TakeEffect(d, j)
  <2>1. /\ Told[d][j] \in {"none", "uncertain"}
        /\ \A k \in DOMAIN Effects : Effects[k][1] = d => Effects[k][2] < j
        /\ Effects' = Append(Effects, <<d, j>>)
        /\ Told' = Told
      BY <1>10, <1>11, <1>12, <1>13, <1>14
  <2> QED
      BY <2>1 DEF Promise!TakeEffect, Told, Effects
<1> QED
    BY <1>14, <1>15

\* Where neither the intents nor the effects change, nothing is told.
LEMMA NothingIsTold ==
    ASSUME UNCHANGED <<intents, log>>
    PROVE  UNCHANGED <<Told, Effects>>
<1>1. Told' = Told
    BY DEF Told
<1>2. Effects' = Effects
    BY DEF Effects, PlaceOf
<1> QED
    BY <1>1, <1>2

LEMMA BrowserKeepsContract ==
    ASSUME PipelineInv, NEW c \in Clients, BrowserActs(c)
    PROVE  Promise!Report
<1>1. Connected /\ Ledgers /\ AnswersAreTrue
    BY DEF PipelineInv, Truth
<1>2. ASSUME NEW x \in Browser!Intent, BrowserPresses(c, x) PROVE Promise!Report
    BY <1>2, KeyIsReported
<1>3. CASE BrowserEnds(c, {"uncertain"})
  <2>1. {"uncertain"} \in SUBSET Verdicts
      BY DEF Verdicts
  <2>2. /\ log' = log /\ intents' = [intents EXCEPT ![c] = intents'[c]]
        /\ intents'[c] \in Seq(Browser!Intent) /\ Len(intents'[c]) = Len(intents[c])
        /\ \A i \in DOMAIN intents[c] : Ended(intents[c][i], intents'[c][i], {"uncertain"})
      BY <1>3 DEF BrowserEnds, IntentsEnd, hostVars
  <2>3. \A r \in {"uncertain"} : r \notin {"written", "duplicate"} /\ r # "rejected"
      OBVIOUS
  <2> QED
      BY <2>1, <2>2, <2>3, EndsAreReported
<1>4. ASSUME NEW fence \in 1 .. MaxFence, BrowserOpens(c, fence) PROVE Promise!Report
  <2>1. {} \in SUBSET Verdicts
      OBVIOUS
  <2>2. /\ log' = log /\ intents' = [intents EXCEPT ![c] = intents'[c]]
        /\ intents'[c] \in Seq(Browser!Intent) /\ Len(intents'[c]) = Len(intents[c])
        /\ \A i \in DOMAIN intents[c] : Ended(intents[c][i], intents'[c][i], {})
      BY <1>4 DEF BrowserOpens, EpochOpened, IntentsEnd, hostVars
  <2> QED
      BY <2>1, <2>2, EndsAreReported
<1>5. CASE AckTaken(c, Head(down[c]))
    BY <1>5, AckIsReported
<1> QED
    BY <1>1, <1>2, <1>3, <1>4, <1>5, BrowserForms

LEMMA StepKeepsContract ==
    ASSUME PipelineInv, PipelineNext
    PROVE  [Promise!ContractNext]_(Promise!contractVars)
<1>1. ASSUME NEW c \in Clients, BrowserActs(c) PROVE Promise!ContractNext
    BY <1>1, BrowserKeepsContract DEF Promise!ContractNext
<1>2. ASSUME HostReceives, log' # log PROVE Promise!ContractNext
  <2>1. PICK c, i : c \in Clients /\ i \in DOMAIN Told[c] /\ Promise!TakeEffect(c, i)
      BY <1>2, EffectIsTaken
  <2> QED
      BY <2>1 DEF Promise!ContractNext, Told
<1>3. ASSUME UNCHANGED <<intents, log>> PROVE UNCHANGED Promise!contractVars
  <2>1. UNCHANGED <<Told, Effects>>
      BY <1>3, NothingIsTold
  <2> QED
      BY <2>1 DEF Promise!contractVars, Told, Effects
<1>4. CASE HostActs
  <2>1. intents' = intents
      BY <1>4 DEF HostActs, HostReceives, HostConnects, RelayLosesHost, HostLosesRelay, browserVars
  <2>2. CASE HostConnects \/ RelayLosesHost \/ HostLosesRelay
    <3>1. log' = log
        BY <2>2 DEF HostConnects, RelayLosesHost, HostLosesRelay, hostVars
    <3> QED
        BY <1>3, <2>1, <3>1
  <2>3. CASE HostReceives
    <3>1. CASE log' = log
        BY <1>3, <2>1, <3>1
    <3> QED
        BY <1>2, <2>3, <3>1
  <2> QED
      BY <1>4, <2>2, <2>3 DEF HostActs
<1>5. CASE RelayActs
  <2>1. UNCHANGED <<intents, log>>
    <3>1. UNCHANGED <<browserVars, hostVars>>
        BY <1>5 DEF RelayActs, Connect, Close, Attach, RefuseRenewal, ForwardKey, RefuseKey,
                    FinishAttach, Expire, RelayAck
    <3> QED
        BY <3>1 DEF browserVars, hostVars
  <2> QED
      BY <1>3, <2>1
<1> QED
    BY <1>1, <1>4, <1>5 DEF PipelineNext

LEMMA InitKeepsContract == PipelineInit => Promise!ContractInit
<1> SUFFICES ASSUME PipelineInit PROVE Promise!ContractInit
    OBVIOUS
<1>1. intents = [c \in Clients |-> <<>>] /\ log = <<>>
    BY DEF PipelineInit, Browser!BrowserInit, Host!HostInputInit
<1>2. Effects = <<>>
    BY <1>1 DEF Effects
<1>3. Told = [c \in Clients |-> <<>>]
    BY <1>1 DEF Told
<1> QED
    BY <1>2, <1>3 DEF Promise!ContractInit, Told, Effects

\* Input takes effect at most once and in the order in which its user made it, each intent
\* gets one verdict, and the verdict is true: whatever connections are lost, whatever timers
\* end, and whoever takes the lease (the dispatcher, the relay's input path and the host's).
THEOREM PipelineKeepsContract == PipelineSpec => InputContract
<1>1. PipelineInv /\ [PipelineNext]_pipelineVars => [Promise!ContractNext]_(Promise!contractVars)
  <2>1. CASE UNCHANGED pipelineVars
    <3>1. UNCHANGED <<intents, log>>
        BY <2>1 DEF pipelineVars, browserVars, hostVars
    <3>2. UNCHANGED <<Told, Effects>>
        BY <3>1, NothingIsTold
    <3> QED
        BY <3>2 DEF Promise!contractVars, Told, Effects
  <2> QED
      BY <2>1, StepKeepsContract
<1> QED
    BY <1>1, InitKeepsContract, PipelineSpecInv, PTL DEF PipelineSpec, InputContract, Promise!Contract
=============================================================================

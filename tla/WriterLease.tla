------------------------------ MODULE WriterLease ------------------------------
(***************************************************************************)
(* Who may write: the relay's writer lease (class WriterAuthority,         *)
(* apps/terminal-cloud/src/worker/writer-authority.ts) and the control     *)
(* connections of the browsers that ask for it, as the connection          *)
(* lifecycle, the attach handler and the socket runtime drive it.          *)
(*                                                                         *)
(* Every client has the role writer.  A client's connections are numbered; *)
(* the relay keeps one control socket per client, and a connection that is *)
(* closed or replaced may still be waiting for its digest.  Time is not    *)
(* counted: a lease that is live may expire at any time, and a renewal     *)
(* that succeeds changes nothing.                                          *)
(***************************************************************************)
EXTENDS Naturals, FiniteSets

CONSTANTS
    Clients,     \* browser clients
    NoClient,    \* stands for no client
    MaxConns,    \* bound on the connections of one client; 0 stands for none
    MaxFence     \* bound on writer fences (the code's is 2^64 - 1)

ASSUME LeaseAssumption ==
    /\ NoClient \notin Clients
    /\ MaxConns \in Nat
    /\ MaxFence \in Nat

VARIABLES
    lease,      \* the row writer_lease; live means that expires_at is in the future
    sock,       \* each client's last control socket with its SocketAttachment
    acquiring   \* attaches that await the digest of their token in acquire

leaseVars == <<lease, sock, acquiring>>

\* An attachment's leaseFence (0 is null), and whether its leaseExpiresAt is in the future.
\* A socket is closing until its close event is handled.
Socket == [conn : 0 .. MaxConns, state : {"awaiting", "active", "closing", "closed"},
           fence : 0 .. MaxFence, live : BOOLEAN]

LeaseInit ==
    /\ lease = [client |-> NoClient, conn |-> 0, fence |-> 0, live |-> FALSE]
    /\ sock = [c \in Clients |-> [conn |-> 0, state |-> "closed", fence |-> 0, live |-> FALSE]]
    /\ acquiring = {}

-----------------------------------------------------------------------------

\* liveAttachment: the client's open control socket holds a lease that has not expired.
Live(c) == sock[c].state = "active" /\ sock[c].fence > 0 /\ sock[c].live

\* release: the lease ends if this connection holds it.
Released(c) ==
    IF lease.client = c /\ lease.conn = sock[c].conn /\ lease.fence = sock[c].fence
    THEN [lease EXCEPT !.live = FALSE]
    ELSE lease

Accepted(c) == [conn |-> sock[c].conn + 1, state |-> "awaiting", fence |-> 0, live |-> FALSE]

\* acceptSocket for a control channel: the client's former socket is released and closed.
AcceptControl(c) ==
    /\ sock[c].conn < MaxConns
    /\ lease' = Released(c)
    /\ sock' = [sock EXCEPT ![c] = Accepted(c)]
    /\ UNCHANGED acquiring

\* closeProtocol: the relay closes the socket and leaves the rest to its close event.
CloseProtocol(c) ==
    /\ sock[c].state \in {"awaiting", "active"}
    /\ sock' = [sock EXCEPT ![c].state = "closing"]
    /\ UNCHANGED <<lease, acquiring>>

\* The close event of the control socket is handled, or its connection is isolated.
CloseControl(c) ==
    /\ sock[c].state # "closed"
    /\ lease' = Released(c)
    /\ sock' = [sock EXCEPT ![c].state = "closed"]
    /\ UNCHANGED acquiring

\* attach while another client holds the lease: the browser is active and may not write.
AttachWaiting(c) ==
    /\ sock[c].state = "awaiting"
    /\ <<c, sock[c].conn>> \notin acquiring
    /\ lease.live
    /\ sock' = [sock EXCEPT ![c].state = "active"]
    /\ UNCHANGED <<lease, acquiring>>

\* attach when the lease looks free: the token's digest is awaited.
BeginAcquire(c) ==
    /\ sock[c].state = "awaiting"
    /\ <<c, sock[c].conn>> \notin acquiring
    /\ ~lease.live
    /\ acquiring' = acquiring \cup {<<c, sock[c].conn>>}
    /\ UNCHANGED <<lease, sock>>

\* #resolveAttachContext fails after the await: the connection is gone.
Stale(c, n) == sock[c].conn # n \/ sock[c].state # "awaiting"

\* current.expires_at > now, after the digest
Taken == lease.live

\* Another client was faster.
AcquireTooLate(c, n) ==
    /\ <<c, n>> \in acquiring
    /\ Taken
    /\ sock' = IF Stale(c, n) THEN sock ELSE [sock EXCEPT ![c].state = "active"]
    /\ acquiring' = acquiring \ {<<c, n>>}
    /\ UNCHANGED lease

\* Mutant: a client that comes back keeps its fence.
KeptFence(c) == IF lease.client = c THEN lease.fence ELSE lease.fence + 1

\* Mutant: a lease that changes hands keeps its fence.
SameFence(c) == IF lease.fence = 0 THEN 1 ELSE lease.fence

NextFence(c) == lease.fence + 1

\* closeDisplacedWriters: every other writer that has held a lease is closed.
Displaced(c, n) == {d \in Clients : sock[d].fence > 0 /\ <<d, sock[d].conn>> # <<c, n>>}

\* The lease is taken under the next fence.  If the connection has gone in the meantime
\* the lease is released again, but the others have been closed.
Acquire(c, n) ==
    /\ <<c, n>> \in acquiring
    /\ ~Taken
    /\ lease.fence < MaxFence
    /\ lease' = [client |-> c, conn |-> n, fence |-> NextFence(c), live |-> ~Stale(c, n)]
    /\ sock' = [d \in Clients |->
          IF d \in Displaced(c, n) THEN [sock[d] EXCEPT !.state = IF @ = "closed" THEN @ ELSE "closing"]
          ELSE IF d = c /\ ~Stale(c, n)
          THEN [sock[d] EXCEPT !.state = "active", !.fence = NextFence(c), !.live = TRUE]
          ELSE sock[d]]
    /\ acquiring' = acquiring \ {<<c, n>>}

\* The row and the attachment of its holder have the same expiry.
LeaseExpires ==
    /\ lease.live
    /\ lease' = [lease EXCEPT !.live = FALSE]
    /\ sock' = [c \in Clients |->
          IF sock[c].fence = lease.fence THEN [sock[c] EXCEPT !.live = FALSE] ELSE sock[c]]
    /\ UNCHANGED acquiring

LeaseStep(c) ==
    \/ AcceptControl(c) \/ CloseProtocol(c) \/ CloseControl(c)
    \/ AttachWaiting(c) \/ BeginAcquire(c)
    \/ \E n \in 1 .. MaxConns : AcquireTooLate(c, n) \/ Acquire(c, n)

LeaseNext == LeaseExpires \/ \E c \in Clients : LeaseStep(c)

LeaseSpec == LeaseInit /\ [][LeaseNext]_leaseVars

-----------------------------------------------------------------------------
(* Properties *)

LeaseTypeOK ==
    /\ lease \in [client : Clients \cup {NoClient}, conn : 0 .. MaxConns,
                  fence : 0 .. MaxFence, live : BOOLEAN]
    /\ sock \in [Clients -> Socket]
    /\ acquiring \subseteq (Clients \X (1 .. MaxConns))
    /\ \A c \in Clients : sock[c].state = "awaiting" => sock[c].conn > 0 /\ sock[c].fence = 0

\* At most one browser can have its input forwarded, however many attaches wait for their
\* digests, connections are replaced and leases expire (liveAttachment).
OneLiveWriter == \A b, c \in Clients : Live(b) /\ Live(c) => b = c

\* Whoever is forwarded holds the lease itself, on this very connection and under the
\* fence that its inputs are stamped with.
WriterHoldsLease ==
    \A c \in Clients : Live(c) =>
        /\ lease.live /\ lease.client = c
        /\ lease.conn = sock[c].conn /\ lease.fence = sock[c].fence

\* A lease that is live belongs to the present connection of its client, whose close is
\* still to be handled: no connection that is gone or replaced leaves a lease behind that
\* the next writer must wait for to expire (every caller of release).
LiveLeaseHasHolder ==
    lease.live => \E c \in Clients : /\ lease.client = c
                                     /\ sock[c].state \in {"active", "closing"}
                                     /\ sock[c].conn = lease.conn
                                     /\ sock[c].fence = lease.fence

\* A lease that is live is never taken away: it first expires or is released, even if an
\* attach that saw it free before its digest comes to the end of its await only now (the
\* second read of the lease in acquire).
LiveLeaseIsNotTaken ==
    [][lease.live /\ lease'.live =>
          lease'.client = lease.client /\ lease'.conn = lease.conn]_leaseVars

\* A fence is never granted twice: it grows whenever the lease changes hands.
FenceGrows ==
    [][lease'.fence >= lease.fence
       /\ (<<lease'.client, lease'.conn>> # <<lease.client, lease.conn>> =>
              lease'.fence > lease.fence)]_leaseVars
=============================================================================

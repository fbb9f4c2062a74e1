----------------------- MODULE BrowserConnection_proofs -----------------------
(***************************************************************************)
(* Whatever a page and its twin do, and however often sockets, tickets and *)
(* digests fail, the relay keeps the data socket of a client to the        *)
(* connection set and the generation its control socket speaks of; the     *)
(* page's coordinator is fenced at its connection's generation; a page     *)
(* that shows a live terminal is fed; and nothing of a delivery is lost.   *)
(* Proved for every bound on sets, generations, events and faults.         *)
(***************************************************************************)
EXTENDS BrowserConnection, FiniteSetTheorems, NaturalsInduction, WellFoundedInduction, TLAPS

(***************************************************************************)
(* A data socket is accepted by its ticket, so the control socket must     *)
(* carry the generation of the client's row, which only accepting another  *)
(* control socket and a reset change; and the row of a client that has a   *)
(* control socket must not expire with its tickets.                        *)
(***************************************************************************)
ClientInv ==
    /\ client \in {"none", "reserved", "registered"}
    /\ gen \in 0 .. MaxGen /\ sets \in Nat
    /\ client = "reserved" => gen \in Gens
    /\ tickets \subseteq Ticket
SocketInv ==
    /\ control \in Control \cup {NoSocket}
    /\ {"set", "gen"} \subseteq DOMAIN data
    /\ up # <<>> => IsOpen(control)
    /\ IsOpen(control) => client = "registered" /\ control.gen = gen
    /\ IsOpen(control) /\ IsOpen(data) => data.set = control.set /\ data.gen = gen
ConnInv == ClientInv /\ SocketInv

\* An attach that awaits the lease came from a control socket.
AttachInv == \A a \in attaching : a.set # 0

connVars == <<client, gen, sets, tickets, control, data, up>>

\* What the proofs calculate with.
LEMMA Bounds == MaxSets \in Nat \ {0} /\ MaxGen \in Nat \ {0} /\ MaxSeq \in Nat
BY BrowserLinkAssumption DEF BrowserLinkAssumption

\* No socket of the relay is opened or closed, and no row is written.
LEMMA SameConnections ==
    ASSUME ConnInv, UNCHANGED connVars PROVE ConnInv'
BY DEF ConnInv, ClientInv, SocketInv, connVars, IsOpen, NoSocket

-----------------------------------------------------------------------------
(* Reservations and tickets *)

LEMMA ReservePreserves ==
    ASSUME ConnInv, Reserve PROVE ConnInv'
<1>1. /\ sets + 1 \in Sets /\ ReservedGen \in Gens
      /\ tickets' = [set : {sets + 1}, channel : {"control", "data"}, gen : {ReservedGen}]
      /\ sets' = sets + 1
    BY Bounds DEF ConnInv, ClientInv, Reserve, ReservedGen, Gens, Sets, reservations
<1>2. tickets' \subseteq Ticket
    BY <1>1 DEF Ticket
<1>3. /\ client' \in {"none", "reserved", "registered"}
      /\ gen' \in 0 .. MaxGen
      /\ client' = "reserved" => gen' \in Gens
      /\ client = "registered" => client' = client /\ gen' = gen
    BY Bounds DEF ConnInv, ClientInv, Reserve, Gens
<1>4. UNCHANGED <<control, data, up>>
    BY DEF Reserve, wires
<1>5. SocketInv'
    BY <1>3, <1>4 DEF ConnInv, SocketInv, IsOpen, NoSocket
<1> QED BY <1>1, <1>2, <1>3, <1>5 DEF ConnInv, ClientInv

\* Only the row of a client that never had a control socket goes.
LEMMA ExpiryPreserves ==
    ASSUME ConnInv, TicketsExpire PROVE ConnInv'
<1>1. UNCHANGED <<control, data, up>> /\ sets' = sets /\ tickets' = {}
    BY DEF TicketsExpire, wires
<1>2. /\ client' \in {"none", "reserved", "registered"} /\ client' # "reserved"
      /\ gen' \in 0 .. MaxGen
      /\ client = "registered" => client' = client /\ gen' = gen
    BY Bounds DEF ConnInv, ClientInv, TicketsExpire
<1> QED BY <1>1, <1>2 DEF ConnInv, ClientInv, SocketInv, IsOpen, NoSocket

\* The control socket that is accepted takes the row's place with its generation, and no
\* data socket stays open beside it.
LEMMA AcceptControlPreserves ==
    ASSUME ConnInv, NEW u \in upgrades, AcceptControl(u) PROVE ConnInv'
<1>1. u \in Ticket /\ u \in tickets
    BY DEF ConnInv, ClientInv, AcceptControl, Acceptable
<1>2. /\ client' = "registered" /\ gen' = u.gen /\ sets' = sets
      /\ tickets' \subseteq tickets
      /\ control' = [set |-> u.set, gen |-> u.gen, state |-> "awaiting"]
      /\ data' = NoSocket /\ up' = <<>>
    BY DEF AcceptControl, CloseData
<1>3. u.set \in Sets /\ u.gen \in Gens
    BY <1>1 DEF Ticket
<1>4. ClientInv'
    BY <1>2, <1>3, Bounds DEF ConnInv, ClientInv, Gens
<1>5. SocketInv'
    BY <1>2, <1>3 DEF SocketInv, Control, IsOpen, NoSocket
<1> QED BY <1>4, <1>5 DEF ConnInv

\* A data socket is accepted only beside the control socket of its set and generation.
LEMMA AcceptDataPreserves ==
    ASSUME ConnInv, NEW u \in upgrades, AcceptData(u) PROVE ConnInv'
<1>1. /\ control.set = u.set /\ gen = u.gen
      /\ UNCHANGED <<client, gen, sets, control, up>>
      /\ tickets' \subseteq tickets
      /\ data' = [set |-> u.set, gen |-> u.gen, state |-> "awaiting", first |-> NoSeq,
                  acked |-> NoSeq, sent |-> NoSeq, commit |-> NoSeq]
    BY DEF AcceptData, Acceptable
<1> QED BY <1>1 DEF ConnInv, ClientInv, SocketInv, IsOpen, NoSocket

-----------------------------------------------------------------------------
(* Closing, and the new delivery of a reset *)

\* Sockets only close, and tickets only go.
LEMMA ClosingPreserves ==
    ASSUME ConnInv, UNCHANGED <<client, gen, sets>>, tickets' \subseteq tickets,
           \/ control' = control /\ up' = up
           \/ control' = NoSocket /\ up' = <<>>,
           data' \in {data, NoSocket}
    PROVE  ConnInv'
BY DEF ConnInv, ClientInv, SocketInv, IsOpen, NoSocket

LEMMA ProtocolClosePreserves ==
    ASSUME ConnInv, NEW why, CloseProtocol(why) PROVE ConnInv'
BY ClosingPreserves DEF CloseProtocol, CloseControl, reservations

LEMMA IsolationPreserves ==
    ASSUME ConnInv, NEW why, Isolate(why) PROVE ConnInv'
BY ClosingPreserves DEF Isolate, CloseControl, CloseData

LEMMA CloseHandlersPreserve ==
    ASSUME ConnInv, NEW k \in closed,
           DataCloseHandled(k) \/ UnattachedDataCloseHandled(k) \/ ControlCloseHandled(k)
    PROVE  ConnInv'
<1>1. CASE DataCloseHandled(k)
    BY <1>1, SameConnections DEF DataCloseHandled, connVars, reservations, wires
<1>2. CASE UnattachedDataCloseHandled(k)
    BY <1>2, ClosingPreserves DEF UnattachedDataCloseHandled, CloseControl
<1>3. CASE ControlCloseHandled(k)
    <2>1. tickets' \subseteq tickets /\ data' \in {data, NoSocket}
        BY <1>3 DEF ControlCloseHandled, CloseData
    <2> QED BY <1>3, <2>1, ClosingPreserves DEF ControlCloseHandled
<1> QED BY <1>1, <1>2, <1>3

\* The control socket goes over to the new generation in the step that closes the data
\* socket of the old one; a reset that is no longer current does nothing.
LEMMA ResetPreserves ==
    ASSUME ConnInv, NEW r \in resets, EndReset(r) PROVE ConnInv'
<1>1. CASE IsOpen(control) /\ ResetIsCurrent(r)
    <2>1. /\ gen' = gen + 1 /\ gen < MaxGen
          /\ tickets' = {[set |-> control.set, channel |-> "data", gen |-> gen + 1]}
          /\ data' = NoSocket /\ control' = [control EXCEPT !.gen = gen + 1]
          /\ UNCHANGED <<client, sets, up>>
        BY <1>1 DEF EndReset, CloseData
    <2>2. control \in Control /\ client = "registered"
        BY <1>1 DEF ConnInv, SocketInv, IsOpen
    <2>3. gen + 1 \in Gens /\ gen + 1 \in 0 .. MaxGen
        BY <2>1, Bounds DEF ConnInv, ClientInv, Gens
    <2>4. control' \in Control /\ control'.gen = gen'
        BY <2>1, <2>2, <2>3 DEF Control
    <2>5. tickets' \subseteq Ticket
        BY <2>1, <2>2, <2>3 DEF Control, Ticket
    <2> QED
        BY <2>1, <2>2, <2>3, <2>4, <2>5, <1>1
        DEF ConnInv, ClientInv, SocketInv, IsOpen, NoSocket
<1>2. CASE ~(IsOpen(control) /\ ResetIsCurrent(r))
    BY <1>2, SameConnections DEF EndReset, connVars
<1> QED BY <1>1, <1>2

-----------------------------------------------------------------------------
(* Attaches, acknowledgements and delivery *)

\* The attachments of both sockets change, and what names them does not.
LEMMA AttachmentsPreserve ==
    ASSUME ConnInv, UNCHANGED <<client, gen, sets, tickets>>,
           up' = up \/ IsOpen(control),
           control' = control \/ (IsOpen(control) /\ control' \in Control
                                  /\ control'.set = control.set /\ control'.gen = control.gen),
           {"set", "gen"} \subseteq DOMAIN data',
           data' = data \/ (IsOpen(data) /\ data'.set = data.set /\ data'.gen = data.gen)
    PROVE  ConnInv'
<1>1. IsOpen(control)' => IsOpen(control)
    BY DEF IsOpen
<1>2. IsOpen(control) => IsOpen(control)'
    BY DEF IsOpen, Control, NoSocket, ConnInv, SocketInv
<1> QED BY <1>1, <1>2 DEF ConnInv, ClientInv, SocketInv

\* A delivery begins on a data socket of the control socket's.
LEMMA AttachDataPreserves ==
    ASSUME ConnInv, IsOpen(control), HasData, NEW cursor, AttachData(cursor),
           UNCHANGED <<client, gen, sets, tickets>>
    PROVE  ConnInv'
<1>1. control \in Control /\ control.set # 0
    BY Bounds DEF ConnInv, SocketInv, IsOpen, Control, Sets
<1>2. IsOpen(data)
    BY <1>1 DEF HasData, SameSocket, IsOpen, NoSocket
<1>3. control' \in Control /\ control'.set = control.set /\ control'.gen = control.gen
    BY <1>1 DEF AttachData, Control
<1>4. /\ {"set", "gen"} \subseteq DOMAIN data'
      /\ data'.set = data.set /\ data'.gen = data.gen
    BY DEF AttachData, ConnInv, SocketInv
<1> QED BY <1>2, <1>3, <1>4, AttachmentsPreserve

LEMMA VerdictHasData ==
    ASSUME NEW set, NEW m, AttachVerdict(set, m) = "ok",
           control.state \in {"awaiting", "active"}
    PROVE  HasData /\ control.set = set
BY DEF AttachVerdict

LEMMA ReceiveAttachPreserves ==
    ASSUME ConnInv, ReceiveAttach PROVE ConnInv'
<1> DEFINE verdict == AttachVerdict(control.set, up[1])
<1>0. IsOpen(control) /\ Attach(up[1], verdict)
    BY DEF ReceiveAttach, ConnInv, SocketInv
<1>1. CASE verdict = "ok" /\ control.state = "active"
    <2>1. AttachData(up[1].cursor) /\ UNCHANGED reservations
        BY <1>0, <1>1 DEF Attach
    <2> QED BY <1>0, <1>1, <2>1, VerdictHasData, AttachDataPreserves DEF reservations
<1>2. CASE \/ verdict = "stale"
           \/ verdict = "ok" /\ control.state = "awaiting"
    <2>1. UNCHANGED <<reservations, control, data>>
        BY <1>0, <1>2 DEF Attach
    <2> QED
        BY <1>0, <2>1, AttachmentsPreserve DEF reservations, ConnInv, SocketInv
<1>3. CASE verdict = "already attached"
    BY <1>0, <1>3, IsolationPreserves DEF Attach
<1>4. CASE /\ verdict \notin {"stale", "ok", "already attached"}
    BY <1>0, <1>4, ProtocolClosePreserves DEF Attach
<1>5. control.state \in {"awaiting", "active"}
    BY <1>0 DEF ConnInv, SocketInv, IsOpen, Control
<1> QED BY <1>1, <1>2, <1>3, <1>4, <1>5

\* Everything is looked at again after the lease.
LEMMA FinishAttachPreserves ==
    ASSUME ConnInv, AttachInv, NEW a \in attaching, FinishAttach(a) PROVE ConnInv'
<1>1. CASE AttachVerdict(a.set, a) = "ok"
    <2>1. control.set = a.set
        BY <1>1 DEF AttachVerdict
    <2>2. IsOpen(control) /\ control.state \in {"awaiting", "active"}
        BY <2>1 DEF AttachInv, IsOpen, NoSocket, ConnInv, SocketInv, Control
    <2>3. HasData /\ AttachData(a.cursor) /\ UNCHANGED reservations
        BY <1>1, <2>2, VerdictHasData DEF FinishAttach
    <2> QED BY <2>2, <2>3, AttachDataPreserves DEF reservations
<1>2. CASE AttachVerdict(a.set, a) # "ok"
    BY <1>2, SameConnections DEF FinishAttach, connVars, reservations
<1> QED BY <1>1, <1>2

LEMMA ReceiveAckPreserves ==
    ASSUME ConnInv, ReceiveAck PROVE ConnInv'
<1> DEFINE verdict == AckVerdict(up[1])
<1>0. IsOpen(control)
    BY DEF ReceiveAck, ConnInv, SocketInv
<1>1. CASE verdict \in {"ok", "stale"}
    <2>1. /\ UNCHANGED <<reservations, control>>
          /\ data' = IF verdict = "ok" THEN [data EXCEPT !.acked = up[1].cursor] ELSE data
        BY <1>1 DEF ReceiveAck
    <2>2. verdict = "ok" => IsOpen(data)
        BY DEF AckVerdict
    <2>3. /\ {"set", "gen"} \subseteq DOMAIN data'
          /\ data'.set = data.set /\ data'.gen = data.gen
        BY <2>1 DEF ConnInv, SocketInv
    <2> QED BY <1>0, <2>1, <2>2, <2>3, AttachmentsPreserve DEF reservations
<1>2. CASE verdict \notin {"ok", "stale"}
    BY <1>2, ProtocolClosePreserves DEF ReceiveAck
<1> QED BY <1>1, <1>2

LEMMA DeliveryPreserves ==
    ASSUME ConnInv,
           \/ \E mode \in {"warm", "snapshot"}, cut \in Seqs : StartRecovery(mode, cut)
           \/ HostGone \/ Replay \/ Output
    PROVE  ConnInv'
<1>1. UNCHANGED <<client, gen, sets, tickets, control, up>>
    BY DEF StartRecovery, HostGone, Replay, Output, reservations, wires
<1>2. /\ {"set", "gen"} \subseteq DOMAIN data'
      /\ data' = data \/ (IsOpen(data) /\ data'.set = data.set /\ data'.gen = data.gen)
    BY DEF StartRecovery, HostGone, Replay, Output, ConnInv, SocketInv
<1> QED BY <1>1, <1>2, AttachmentsPreserve DEF ConnInv, SocketInv

-----------------------------------------------------------------------------
(* Every step *)

\* A callback of the page changes nothing at the relay but the frames on their way to it.
LEMMA PagePreserves ==
    ASSUME ConnInv, NEW next, NEW ctl, NEW dat, PageBecomes(next, ctl, dat)
    PROVE  ConnInv' /\ attaching' = attaching
<1>1. /\ UNCHANGED <<client, gen, sets, tickets, control, data, attaching>>
      /\ up' = up \/ IsOpen(control)
    BY DEF PageBecomes, reservations, HoldsControl
<1>2. {"set", "gen"} \subseteq DOMAIN data'
    BY <1>1 DEF ConnInv, SocketInv
<1> QED BY <1>1, <1>2, AttachmentsPreserve

LEMMA PageStepsPreserve ==
    ASSUME ConnInv,
           \/ Begin \/ ActivateConnection \/ Sockets \/ Waits \/ Reconnects \/ Retries
           \/ RestoreEnds \/ ReservationFails \/ ReservationRefused \/ ControlSeenClosing
           \/ RestoreErrs \/ Heartbeats \/ UserReconnects \/ UserCloses
    PROVE  ConnInv' /\ attaching' = attaching
<1>1. PICK next, ctl, dat : PageBecomes(next, ctl, dat)
    BY DEF Begin, ActivateConnection, Sockets, ControlArrives, DataArrives, Waits,
           Acknowledges, GraceEnds, WatchdogFires, RestoreLate, Reconnects, Retries,
           RestoreEnds, ReservationFails, ReservationRefused, ControlSeenClosing,
           RestoreErrs, Heartbeats, UserReconnects, UserCloses, Runs
<1> QED BY <1>1, PagePreserves

LEMMA RelayStepsPreserve ==
    ASSUME ConnInv, AttachInv, Relays \/ Recovers PROVE ConnInv'
<1>1. ASSUME NEW u \in upgrades, AcceptControl(u) \/ AcceptData(u) \/ Refuse(u)
      PROVE  ConnInv'
    <2>1. CASE Refuse(u)
        BY <2>1, SameConnections DEF Refuse, reservations, connVars
    <2> QED BY <1>1, <2>1, AcceptControlPreserves, AcceptDataPreserves
<1>2. ASSUME NEW k \in closed,
             DataCloseHandled(k) \/ UnattachedDataCloseHandled(k) \/ ControlCloseHandled(k)
      PROVE  ConnInv'
    BY <1>2, CloseHandlersPreserve
<1>3. ASSUME NEW r \in resets, EndReset(r) PROVE ConnInv'
    BY <1>3, ResetPreserves
<1>4. ASSUME NEW a \in attaching, FinishAttach(a) PROVE ConnInv'
    BY <1>4, FinishAttachPreserves
<1>5. CASE ReceiveAttach \/ ReceiveAck
    BY <1>5, ReceiveAttachPreserves, ReceiveAckPreserves
<1>6. CASE Recovers
    BY <1>6, DeliveryPreserves DEF Recovers
<1> QED BY <1>1, <1>2, <1>3, <1>4, <1>5, <1>6 DEF Relays

LEMMA SocketsLostPreserve ==
    ASSUME ConnInv, LosesControl \/ LosesData PROVE ConnInv'
<1>1. CASE LosesControl
    BY <1>1, ClosingPreserves DEF LosesControl, ControlGone, CloseControl, reservations
<1>2. CASE LosesData
    BY <1>2, ClosingPreserves DEF LosesData, DataGone, CloseData, reservations
<1> QED BY <1>1, <1>2

LEMMA StepPreservesConnInv ==
    ASSUME ConnInv, AttachInv, [Next]_vars PROVE ConnInv'
<1>1. CASE ReserveSet \/ OtherReserves
    BY <1>1, ReservePreserves DEF ReserveSet, OtherReserves
<1>2. CASE OtherConnects \/ HostReturns \/ ResetBegins \/ UNCHANGED vars
    BY <1>2, SameConnections
    DEF OtherConnects, HostReturns, HostReady, ResetBegins, BeginReset, vars, relayVars,
        reservations, wires, connVars
<1>3. CASE TicketsLapse
    BY <1>3, ExpiryPreserves DEF TicketsLapse
<1>4. CASE HostLost \/ HostOutput
    BY <1>4, DeliveryPreserves DEF HostLost, HostOutput
<1>5. CASE Relay \/ Host
    BY <1>5, RelayStepsPreserve DEF Relay, Host
<1> QED
    BY <1>1, <1>2, <1>3, <1>4, <1>5, PageStepsPreserve, SocketsLostPreserve
    DEF Next, Attempts

LEMMA StepPreservesAttachInv ==
    ASSUME ConnInv, AttachInv, [Next]_vars PROVE AttachInv'
<1>1. ASSUME ReceiveAttach PROVE AttachInv'
    <2>1. control.set # 0
        BY <1>1 DEF ReceiveAttach, ConnInv, SocketInv, IsOpen, Control, Sets
    <2>2. \/ attaching' = attaching
          \/ attaching' = attaching \cup
                              {[set |-> control.set, gen |-> gen, cursor |-> up[1].cursor]}
        BY <1>1 DEF ReceiveAttach, Attach
    <2> QED BY <2>1, <2>2 DEF AttachInv
<1>2. ASSUME Relay \/ Host, ~ReceiveAttach PROVE attaching' \subseteq attaching
    BY <1>2
    DEF Relay, Relays, Host, Recovers, AcceptControl, AcceptData, Refuse, DataCloseHandled,
        UnattachedDataCloseHandled, ControlCloseHandled, EndReset, ReceiveAck, FinishAttach,
        StartRecovery, Replay
<1>3. ASSUME \/ ReserveSet \/ OtherReserves \/ OtherConnects \/ LosesControl \/ LosesData
             \/ TicketsLapse \/ HostLost \/ HostReturns \/ ResetBegins \/ HostOutput
             \/ UNCHANGED vars
      PROVE  attaching' = attaching
    BY <1>3
    DEF ReserveSet, OtherReserves, Reserve, OtherConnects, LosesControl, ControlGone,
        LosesData, DataGone, TicketsLapse, TicketsExpire, HostLost, HostGone, HostReturns,
        HostReady, ResetBegins, BeginReset, HostOutput, Output, vars, relayVars
<1> QED BY <1>1, <1>2, <1>3, PageStepsPreserve DEF Next, Attempts, AttachInv, Relay, Relays

-----------------------------------------------------------------------------
(* DeliveryIsCurrent: the relay feeds a client only the delivery its control socket is of: *)
(* a control socket displaces both sockets of its predecessor, a reset closes the data      *)
(* socket it replaces, and a ticket of an older generation opens nothing                    *)
(* (acceptSocket, reset).                                                                   *)
THEOREM DeliveryStaysCurrent == Spec => []DeliveryIsCurrent
<1>1. Init => ConnInv /\ AttachInv
    BY Bounds
    DEF Init, LinkInit, RelayConnectionsInit, ConnInv, ClientInv, SocketInv, AttachInv,
        IsOpen, NoSocket
<1>2. ConnInv /\ AttachInv /\ [Next]_vars => (ConnInv /\ AttachInv)'
    BY StepPreservesConnInv, StepPreservesAttachInv
<1>3. ConnInv => DeliveryIsCurrent
    BY DEF ConnInv, SocketInv, DeliveryIsCurrent, SameSocket
<1> QED BY <1>1, <1>2, <1>3, PTL DEF Spec

-----------------------------------------------------------------------------
(* The page by itself *)

\* What holds of the page's fields between the calls of a callback.
PageShape(p) ==
    /\ p \in Page
    /\ p.connection.control # "none" => p.connection.gen \in Gens /\ p.connection.set \in Sets
    /\ p.connection.control = "none" => p.connection = NoConnection
    /\ p.attempt = "offered" => p.offer.gen \in Gens /\ p.offer.set \in Sets
    /\ p.acks.pending # NoSeq => p.acks.last <= p.acks.pending

\* A current connection is the coordinator's, and the generation that was promised is not
\* one it has left behind.
PageFence(p) ==
    /\ p.connection.current =>
          /\ p.coordinator.fence = p.connection.gen
          /\ p.phase # "closed" /\ p.connection.control # "none"
          /\ p.attempt \notin {"reserving", "offered"}
    /\ p.attempt = "offered" => p.coordinator.fence <= p.offer.gen
    /\ p.phase = "closed" => p.attempt = "none"
    /\ p.coordinator.state = "closed" <=> p.phase = "closed"

Delivering == {"restoring", "replaying", "live"}

\* The coordinator's delivery.
PageDelivery(c) ==
    /\ c.state = "awaiting" => ~c.committed /\ c.candidate = "none" /\ c.received = NoSeq
    /\ c.state = "live" => c.committed /\ c.candidate = "live"
    /\ c.state = "idle" => c.fence = 0
    /\ c.state \in Delivering => c.received \in Seqs
    /\ c.state \notin {"awaiting", "closed"} => c.pending = <<>>
    /\ \A i \in DOMAIN c.pending : c.pending[i].kind \in {"event", "commit"}

Sound(p) == PageShape(p) /\ PageFence(p) /\ PageDelivery(p.coordinator)

\* A callback that sends nothing and opens nothing: it may leave the connection or no longer
\* listen to it, and may give up the delivery or make it live.
Remains(c, d) ==
    /\ d.set = c.set /\ d.gen = c.gen /\ d.data = c.data
    /\ d.control = c.control \/ (c.control = "open" /\ d.control = "closing")
    /\ d.current => c.current
Continues(c, d) ==
    \/ d = c
    \/ (c.state # "awaiting" /\ d.state = "resyncing")
    \/ /\ c.state = "restoring" /\ d.state \in {"restoring", "live"}
       /\ d.received = c.received /\ d.committed = c.committed
Quiet(p, q) ==
    /\ Sound(q)
    /\ q.out = p.out
    /\ q.connection = NoConnection \/ Remains(p.connection, q.connection)
    /\ q.attempt = "offered" => p.attempt = "offered" /\ q.offer = p.offer
    /\ q.coordinator.fence = p.coordinator.fence
    /\ q.connection.current => Continues(p.coordinator, q.coordinator) /\ q.acks = p.acks
    /\ p.coordinator.state \in {"awaiting", "closed"} =>
          q.coordinator.state \in {"awaiting", "closed"}
    /\ q.coordinator.cursor \in {p.coordinator.cursor, p.coordinator.received, NoSeq}
    /\ q.coordinator.received \in {p.coordinator.received, NoSeq}
    /\ q.coordinator.pending \in {p.coordinator.pending, <<>>}

LEMMA QuietTwice ==
    ASSUME NEW p, NEW q, NEW r, Quiet(p, q), Quiet(q, r) PROVE Quiet(p, r)
<1>1. q.connection = NoConnection => r.connection = NoConnection
    BY DEF Quiet, Remains, Sound, PageShape, NoConnection
<1>2. q.connection.current => Continues(p.coordinator, q.coordinator)
    BY DEF Quiet
<1>3. r.connection.current => q.connection.current
    BY <1>1 DEF Quiet, Remains, NoConnection
<1>4. r.connection = NoConnection \/ Remains(p.connection, r.connection)
    BY <1>1 DEF Quiet, Remains
<1>5. r.connection.current => Continues(p.coordinator, r.coordinator) /\ r.acks = p.acks
    BY <1>2, <1>3 DEF Quiet, Continues
<1> QED BY <1>4, <1>5 DEF Quiet

\* Timers, flags and phases other than "closed".
LEMMA FlagsAreQuiet ==
    ASSUME NEW p, Sound(p), NEW q \in Page,
           q.connection = p.connection, q.attempt = p.attempt, q.offer = p.offer,
           q.coordinator = p.coordinator, q.acks = p.acks, q.out = p.out,
           q.phase = "closed" <=> p.phase = "closed"
    PROVE  Quiet(p, q)
<1>1. Sound(q)
    BY DEF Sound, PageShape, PageFence
<1>2. Remains(p.connection, q.connection) /\ Continues(p.coordinator, q.coordinator)
    BY DEF Remains, Continues
<1> QED BY <1>1, <1>2 DEF Quiet

LEMMA NothingTyped == NoConnection \in Connection /\ NoOffer \in Offer /\ NoAcks \in Acks
BY Bounds DEF Connection, Offer, Acks, NoConnection, NoOffer, NoAcks, MaybeSeqs

LEMMA UnheardTyped ==
    ASSUME NEW c \in Connection
    PROVE  /\ [c EXCEPT !.current = FALSE] \in Connection
           /\ Remains(c, [c EXCEPT !.current = FALSE]) /\ ~[c EXCEPT !.current = FALSE].current
           /\ c = NoConnection => [c EXCEPT !.current = FALSE] = c
<1> DEFINE d == [c EXCEPT !.current = FALSE]
<1>1. d \in Connection /\ d.set = c.set /\ d.gen = c.gen /\ d.data = c.data
      /\ d.control = c.control /\ d.current = FALSE
    BY DEF Connection
<1>2. c = NoConnection => c.current = FALSE
    BY DEF NoConnection
<1>3. c = NoConnection => d = c
    BY <1>2 DEF Connection
<1> QED BY <1>1, <1>3 DEF Remains

LEMMA DisconnectIs ==
    ASSUME NEW p, Sound(p), NEW q, q = Disconnect(p)
    PROVE  /\ Quiet(p, q)
           /\ q.connection = NoConnection /\ q.attempt = "none" /\ q.coordinator = p.coordinator
           /\ q.phase = p.phase /\ q.blocked = p.blocked /\ q.retry = p.retry
           /\ q.out = p.out
<1>1. /\ q \in Page
      /\ q.connection = NoConnection /\ q.attempt = "none" /\ q.coordinator = p.coordinator
      /\ q.phase = p.phase /\ q.blocked = p.blocked /\ q.retry = p.retry /\ q.acks = NoAcks
      /\ q.out = p.out
    BY NothingTyped DEF Disconnect, Sound, PageShape, Page, Attempt
<1>2. Sound(q)
    BY <1>1 DEF Sound, PageShape, PageFence, NoConnection, NoAcks
<1> QED BY <1>1, <1>2 DEF Quiet, NoConnection

LEMMA ScheduleReconnectIs ==
    ASSUME NEW p, Sound(p)
    PROVE  /\ Quiet(p, ScheduleReconnect(p))
           /\ ScheduleReconnect(p).connection = p.connection
           /\ ScheduleReconnect(p).attempt = p.attempt
           /\ ScheduleReconnect(p).coordinator = p.coordinator
<1> DEFINE q == ScheduleReconnect(p)
<1>1. /\ q \in Page
      /\ q.connection = p.connection /\ q.attempt = p.attempt /\ q.offer = p.offer
      /\ q.coordinator = p.coordinator /\ q.acks = p.acks /\ q.out = p.out
      /\ q.phase = "closed" <=> p.phase = "closed"
    BY ZenonT(60) DEF ScheduleReconnect, Sound, PageShape, Page, Phase, IsClosed
<1> QED BY <1>1, FlagsAreQuiet

LEMMA ScheduleRetryIs ==
    ASSUME NEW p, Sound(p)
    PROVE  /\ Quiet(p, ScheduleSnapshotRetry(p))
           /\ ScheduleSnapshotRetry(p).connection = p.connection
           /\ ScheduleSnapshotRetry(p).attempt = p.attempt
           /\ ScheduleSnapshotRetry(p).coordinator = p.coordinator
           /\ ScheduleSnapshotRetry(p).acks = p.acks
<1> DEFINE q == ScheduleSnapshotRetry(p)
<1>1. /\ q \in Page
      /\ q.connection = p.connection /\ q.attempt = p.attempt /\ q.offer = p.offer
      /\ q.coordinator = p.coordinator /\ q.acks = p.acks /\ q.out = p.out
      /\ q.phase = "closed" <=> p.phase = "closed"
    BY ZenonT(60) DEF ScheduleSnapshotRetry, Sound, PageShape, Page, Phase, IsClosed
<1> QED BY <1>1, FlagsAreQuiet

LEMMA StartIs ==
    ASSUME NEW p, Sound(p) PROVE Quiet(p, StartFullConnection(p))
<1> DEFINE q == StartFullConnection(p)
<1>1. CASE IsClosed(p) \/ p.blocked \/ p.attempt # "none"
    BY <1>1, FlagsAreQuiet DEF StartFullConnection, Sound, PageShape
<1>2. CASE ~ (IsClosed(p) \/ p.blocked \/ p.attempt # "none")
  <2>1. q \in Page
    BY UnheardTyped, ZenonT(60) DEF StartFullConnection, Sound, PageShape, Page, Phase, Attempt
  <2>2. /\ q.connection = [p.connection EXCEPT !.current = FALSE]
        /\ q.attempt = "reserving" /\ q.phase = "reconnecting" /\ q.coordinator = p.coordinator
        /\ q.acks = p.acks /\ q.out = p.out
    BY <1>2 DEF StartFullConnection, Sound, PageShape, Page
  <2>3. /\ ~q.connection.current /\ Remains(p.connection, q.connection)
        /\ q.connection.control = p.connection.control
        /\ q.connection.control = "none" => q.connection = NoConnection
    BY <2>2, UnheardTyped DEF Sound, PageShape, Page, Connection
  <2> HIDE DEF q
  <2>4. PageShape(q)
    BY <2>1, <2>2, <2>3 DEF Sound, PageShape, Remains
  <2>5. PageFence(q)
    BY <1>2, <2>2, <2>3 DEF Sound, PageFence, IsClosed
  <2>6. Quiet(p, q)
    BY <2>2, <2>3, <2>4, <2>5 DEF Quiet, Sound
  <2> QED BY <2>6 DEF q
<1> QED BY <1>1, <1>2

LEMMA FailIs ==
    ASSUME NEW p, Sound(p)
    PROVE  /\ Quiet(p, FailFullConnection(p))
           /\ FailFullConnection(p).connection = NoConnection
           /\ FailFullConnection(p).coordinator = p.coordinator
<1> DEFINE d == Disconnect(p)
<1>1. Quiet(p, d) /\ Sound(d) /\ d.connection = NoConnection /\ d.coordinator = p.coordinator
    BY DisconnectIs DEF Quiet
<1> HIDE DEF d
<1>2. Quiet(p, ScheduleReconnect(d))
    BY <1>1, ScheduleReconnectIs, QuietTwice
<1>3. FailFullConnection(p) = ScheduleReconnect(d)
    BY DEF FailFullConnection, d
<1> QED BY <1>1, <1>2, <1>3, ScheduleReconnectIs

LEMMA RestartIs ==
    ASSUME NEW p, Sound(p) PROVE Quiet(p, Restart(p))
<1> DEFINE d == Disconnect(p)
<1>1. Quiet(p, d) /\ Sound(d)
    BY DisconnectIs DEF Quiet
<1> HIDE DEF d
<1>2. Quiet(p, StartFullConnection(d))
    BY <1>1, StartIs, QuietTwice
<1>3. Restart(p) = StartFullConnection(d) \/ Restart(p) = FailFullConnection(p)
    BY DEF Restart, d
<1> QED BY <1>2, <1>3, FailIs

\* Closing a page, and credentials that are refused.
LEMMA CloseIsQuiet == ASSUME NEW p, Sound(p) PROVE Quiet(p, Close(p))
<1> DEFINE d == Disconnect(p)
           q == Close(p)
<1>1. Quiet(p, d) /\ Sound(d) /\ d.connection = NoConnection /\ d.attempt = "none"
      /\ d.coordinator = p.coordinator
    BY DisconnectIs DEF Quiet
<1>2. d.coordinator \in Coordinator
    BY <1>1 DEF Sound, PageShape, Page
<1> HIDE DEF d
<1>3. q.coordinator = [d.coordinator EXCEPT !.state = "closed"]
    BY <1>1 DEF Close, d, Sound, PageShape, Page
<1>4. q \in Page
  <2>1. [d.coordinator EXCEPT !.state = "closed"] \in Coordinator
      BY <1>2 DEF Coordinator
  <2> QED BY <1>1, <2>1 DEF Close, d, Sound, PageShape, Page, Phase
<1>5. q.connection = d.connection /\ q.attempt = d.attempt /\ q.acks = d.acks /\ q.out = d.out
      /\ q.phase = "closed"
    BY <1>1 DEF Close, d, Sound, PageShape, Page, Phase
<1>6. q.coordinator.state = "closed" /\ q.coordinator.fence = d.coordinator.fence
      /\ q.coordinator.pending = d.coordinator.pending
      /\ q.coordinator.received = d.coordinator.received
      /\ q.coordinator.cursor = d.coordinator.cursor
    BY <1>2, <1>3 DEF Coordinator
<1>7. Sound(q)
    BY <1>1, <1>4, <1>5, <1>6 DEF Sound, PageShape, PageFence, PageDelivery, NoConnection, Delivering
<1> QED BY <1>1, <1>5, <1>6, <1>7 DEF Quiet, NoConnection

LEMMA RefusalIsQuiet == ASSUME NEW p, Sound(p), p.phase # "closed" PROVE Quiet(p, AuthenticationFails(p))
<1> DEFINE d == Disconnect(p)
           q == AuthenticationFails(p)
<1>1. Quiet(p, d) /\ Sound(d) /\ d.phase # "closed"
    BY DisconnectIs DEF Quiet
<1> HIDE DEF d
<1>2. /\ q \in Page
      /\ q.connection = d.connection /\ q.attempt = d.attempt /\ q.offer = d.offer
      /\ q.coordinator = d.coordinator /\ q.acks = d.acks /\ q.out = d.out
      /\ q.phase # "closed"
    BY <1>1 DEF AuthenticationFails, d, Sound, PageShape, Page, Phase
<1> HIDE DEF q
<1>3. Quiet(d, q)
    BY <1>1, <1>2, FlagsAreQuiet
<1> QED BY <1>1, <1>3, QuietTwice DEF q

\* The user, and the timers.
LEMMA ReconnectIsQuiet == ASSUME NEW p, Sound(p) PROVE Quiet(p, ReconnectNow(p))
<1> DEFINE q == [p EXCEPT !.blocked = FALSE, !.retry = FALSE, !.reconnect = FALSE]
<1>1. /\ q \in Page
      /\ q.connection = p.connection /\ q.attempt = p.attempt /\ q.offer = p.offer
      /\ q.coordinator = p.coordinator /\ q.acks = p.acks /\ q.out = p.out
      /\ q.phase = p.phase
    BY DEF Sound, PageShape, Page
<1>2. ReconnectNow(p) = Restart(q)
    BY DEF ReconnectNow
<1> HIDE DEF q
<1>3. Quiet(p, q) /\ Sound(q)
    BY <1>1, FlagsAreQuiet DEF Quiet
<1> QED BY <1>2, <1>3, RestartIs, QuietTwice

LEMMA TimersAreQuiet ==
    ASSUME NEW p, Sound(p)
    PROVE  /\ Quiet(p, ReconnectTimer(p)) /\ Quiet(p, RetryTimer(p))
           /\ Quiet(p, GraceTimer(p)) /\ Quiet(p, WatchdogTimer(p))
<1> DEFINE reconnect == [p EXCEPT !.reconnect = FALSE]
           retry == [p EXCEPT !.retry = FALSE]
           grace == [p EXCEPT !.grace = FALSE]
           watchdog == [p EXCEPT !.watchdog = FALSE]
<1>1. ASSUME NEW q \in {reconnect, retry, grace, watchdog} PROVE Quiet(p, q) /\ Sound(q)
  <2>1. /\ q \in Page
        /\ q.connection = p.connection /\ q.attempt = p.attempt /\ q.offer = p.offer
        /\ q.coordinator = p.coordinator /\ q.acks = p.acks /\ q.out = p.out
        /\ q.phase = p.phase
      BY DEF Sound, PageShape, Page
  <2> QED BY <2>1, FlagsAreQuiet DEF Quiet
<1>2. /\ ReconnectTimer(p) = StartFullConnection(reconnect)
      /\ RetryTimer(p) \in {retry, Restart(retry)}
      /\ GraceTimer(p) \in {grace, FailFullConnection(grace)}
      /\ WatchdogTimer(p) \in {watchdog, FailFullConnection(watchdog)}
    BY DEF ReconnectTimer, RetryTimer, GraceTimer, WatchdogTimer
<1> HIDE DEF reconnect, retry, grace, watchdog
<1>3. Quiet(p, StartFullConnection(reconnect))
    BY <1>1, StartIs, QuietTwice
<1>4. Quiet(p, Restart(retry))
    BY <1>1, RestartIs, QuietTwice
<1>5. Quiet(p, FailFullConnection(grace)) /\ Quiet(p, FailFullConnection(watchdog))
    BY <1>1, FailIs, QuietTwice
<1> QED BY <1>1, <1>2, <1>3, <1>4, <1>5

LEMMA ControlClosedIsQuiet ==
    ASSUME NEW p, Sound(p), p.phase # "closed", NEW why PROVE Quiet(p, ControlClosed(p, why))
<1> DEFINE d == Disconnect(p)
           q == [d EXCEPT !.blocked = TRUE, !.phase = "displaced"]
<1>1. Quiet(p, d) /\ Sound(d) /\ d.phase # "closed"
    BY DisconnectIs DEF Quiet
<1>2. ControlClosed(p, why) \in {q, FailFullConnection(p)}
    BY DEF ControlClosed
<1> HIDE DEF d
<1>3. /\ q \in Page
      /\ q.connection = d.connection /\ q.attempt = d.attempt /\ q.offer = d.offer
      /\ q.coordinator = d.coordinator /\ q.acks = d.acks /\ q.out = d.out
      /\ q.phase # "closed"
    BY <1>1 DEF Sound, PageShape, Page, Phase
<1> HIDE DEF q
<1>4. Quiet(p, q)
    BY <1>1, <1>3, FlagsAreQuiet, QuietTwice
<1> QED BY <1>2, <1>4, FailIs

LEMMA WelcomeIsQuiet ==
    ASSUME NEW p, Sound(p), p.phase # "closed", NEW f PROVE Quiet(p, AcceptWelcome(p, f))
<1> DEFINE q == [p EXCEPT !.hostOnline = TRUE, !.phase = "attaching"]
<1>1. /\ q \in Page
      /\ q.connection = p.connection /\ q.attempt = p.attempt /\ q.offer = p.offer
      /\ q.coordinator = p.coordinator /\ q.acks = p.acks /\ q.out = p.out
      /\ q.phase # "closed"
    BY DEF Sound, PageShape, Page, Phase
<1>2. AcceptWelcome(p, f) \in {q, FailFullConnection(p)}
    BY DEF AcceptWelcome
<1> QED BY <1>1, <1>2, FlagsAreQuiet, FailIs

LEMMA OfflineIsQuiet ==
    ASSUME NEW p, Sound(p), p.phase # "closed" PROVE Quiet(p, HostOffline(p))
<1> DEFINE q == HostOffline(p)
<1>1. /\ q \in Page
      /\ q.connection = p.connection /\ q.attempt = p.attempt /\ q.offer = p.offer
      /\ q.coordinator = p.coordinator /\ q.acks = p.acks /\ q.out = p.out
      /\ q.phase # "closed"
    BY DEF HostOffline, Sound, PageShape, Page, Phase
<1> QED BY <1>1, FlagsAreQuiet

LEMMA ClosingIsQuiet ==
    ASSUME NEW p, Sound(p), p.connection.control = "open"
    PROVE  Quiet(p, [p EXCEPT !.connection.control = "closing"])
<1> DEFINE q == [p EXCEPT !.connection.control = "closing"]
           c == p.connection
           d == [c EXCEPT !.control = "closing"]
<1>1. /\ d \in Connection /\ d.control = "closing" /\ d.current = c.current
      /\ d.set = c.set /\ d.gen = c.gen /\ d.data = c.data
    BY DEF Sound, PageShape, Page, Connection
<1> HIDE DEF d
<1>2. /\ q \in Page
      /\ q.connection = d /\ q.attempt = p.attempt /\ q.offer = p.offer
      /\ q.coordinator = p.coordinator /\ q.acks = p.acks /\ q.out = p.out
      /\ q.phase = p.phase
    BY <1>1 DEF Sound, PageShape, Page, d
<1> HIDE DEF q
<1>3. Sound(q)
    BY <1>1, <1>2 DEF Sound, PageShape, PageFence
<1>4. Remains(p.connection, q.connection) /\ Continues(p.coordinator, q.coordinator)
    BY <1>1, <1>2 DEF Remains, Continues
<1>5. Quiet(p, q)
    BY <1>2, <1>3, <1>4 DEF Quiet
<1> QED BY <1>5 DEF q

-----------------------------------------------------------------------------
(* The coordinator's delivery *)

\* A callback that only changes the coordinator.
LEMMA CoordinatorChanges ==
    ASSUME NEW p, Sound(p), NEW c \in Coordinator, NEW q, q = [p EXCEPT !.coordinator = c],
           PageDelivery(c), c.fence = p.coordinator.fence,
           c.state = "closed" <=> p.coordinator.state = "closed"
    PROVE  /\ Sound(q)
           /\ q.coordinator = c /\ q.connection = p.connection /\ q.attempt = p.attempt
           /\ q.offer = p.offer /\ q.acks = p.acks /\ q.out = p.out /\ q.phase = p.phase
           /\ q \in Page
<1>1. /\ q \in Page
      /\ q.coordinator = c /\ q.connection = p.connection /\ q.attempt = p.attempt
      /\ q.offer = p.offer /\ q.acks = p.acks /\ q.out = p.out /\ q.phase = p.phase
    BY DEF Sound, PageShape, Page
<1>2. Sound(q)
    BY <1>1 DEF Sound, PageShape, PageFence
<1> QED BY <1>1, <1>2

LEMMA NoDeliveryIs ==
    ASSUME NEW c \in Coordinator, NEW state \in {"awaiting", "resyncing"}, NEW d,
           d = NoDelivery(c, state)
    PROVE  /\ d \in Coordinator /\ d.state = state /\ d.fence = c.fence /\ d.cursor = c.cursor
           /\ d.received = NoSeq /\ d.candidate = "none" /\ ~d.committed /\ d.pending = <<>>
           /\ state = "resyncing" => PageDelivery(d)
<1>1. <<>> \in Seq(DataFrame) /\ NoSeq \in MaybeSeqs
    BY DEF MaybeSeqs
<1>2. /\ d \in Coordinator /\ d.state = state /\ d.fence = c.fence /\ d.cursor = c.cursor
      /\ d.received = NoSeq /\ d.candidate = "none" /\ d.committed = FALSE /\ d.pending = <<>>
    BY <1>1 DEF NoDelivery, Coordinator
<1> HIDE DEF NoDelivery
<1> QED BY <1>2 DEF PageDelivery, Delivering

\* A resync that the page asks for itself leaves the connection or waits for a retry.
LEMMA ResyncIs ==
    ASSUME NEW p, Sound(p), p.coordinator.state # "closed", NEW reason,
           NEW q, q = RequestResync(p, reason)
    PROVE  /\ Sound(q) /\ q.out = p.out
           /\ q.coordinator = NoDelivery(p.coordinator, "resyncing")
           /\ q.connection = NoConnection \/ (q.connection = p.connection /\ q.acks = p.acks)
           /\ q.attempt = "offered" => p.attempt = "offered" /\ q.offer = p.offer
<1> DEFINE c == NoDelivery(p.coordinator, "resyncing")
           r == [p EXCEPT !.coordinator = c]
<1>1. /\ c \in Coordinator /\ PageDelivery(c) /\ c.fence = p.coordinator.fence
      /\ c.state = "resyncing"
    BY NoDeliveryIs DEF Sound, PageShape, Page
<1>2. q \in {ScheduleSnapshotRetry(r), FailFullConnection(r)}
    BY DEF RequestResync
<1> HIDE DEF c
<1>3. /\ Sound(r) /\ r.coordinator = c /\ r.connection = p.connection /\ r.attempt = p.attempt
      /\ r.offer = p.offer /\ r.acks = p.acks /\ r.out = p.out
    BY <1>1, CoordinatorChanges
<1> HIDE DEF r
<1>4. CASE q = ScheduleSnapshotRetry(r)
  <2>1. Quiet(r, q) /\ q.connection = r.connection /\ q.acks = r.acks
        /\ q.coordinator = r.coordinator
      BY <1>3, <1>4, ScheduleRetryIs
  <2> QED BY <1>3, <2>1 DEF Quiet, c
<1>5. CASE q = FailFullConnection(r)
  <2>1. Quiet(r, q) /\ q.connection = NoConnection /\ q.coordinator = r.coordinator
      BY <1>3, <1>5, FailIs
  <2> QED BY <1>3, <2>1 DEF Quiet, c
<1> QED BY <1>2, <1>4, <1>5

LEMMA ResyncIsQuiet ==
    ASSUME NEW p, Sound(p), p.coordinator.state = "restoring", NEW reason
    PROVE  Quiet(p, RequestResync(p, reason))
<1> DEFINE q == RequestResync(p, reason)
<1>1. /\ Sound(q) /\ q.out = p.out
      /\ q.coordinator = NoDelivery(p.coordinator, "resyncing")
      /\ q.connection = NoConnection \/ (q.connection = p.connection /\ q.acks = p.acks)
      /\ q.attempt = "offered" => p.attempt = "offered" /\ q.offer = p.offer
    BY ResyncIs
<1>2. /\ q.coordinator.state = "resyncing" /\ q.coordinator.fence = p.coordinator.fence
      /\ q.coordinator.cursor = p.coordinator.cursor /\ q.coordinator.received = NoSeq
      /\ q.coordinator.pending = <<>>
    BY <1>1, NoDeliveryIs DEF Sound, PageShape, Page
<1> HIDE DEF q
<1>3. q.connection = NoConnection \/ Remains(p.connection, q.connection)
    BY <1>1 DEF Remains
<1>4. q.connection.current => Continues(p.coordinator, q.coordinator) /\ q.acks = p.acks
    BY <1>1, <1>2 DEF Continues, NoConnection
<1>5. Quiet(p, q)
    BY <1>1, <1>2, <1>3, <1>4 DEF Quiet
<1> QED BY <1>5 DEF q

LEMMA SyncIs ==
    ASSUME NEW p, Sound(p)
    PROVE  /\ Quiet(p, SyncDeliveryState(p))
           /\ SyncDeliveryState(p).connection = p.connection
           /\ SyncDeliveryState(p).coordinator = p.coordinator
           /\ SyncDeliveryState(p).acks = p.acks
           /\ SyncDeliveryState(p).attempt = p.attempt
           /\ SyncDeliveryState(p).offer = p.offer
<1> DEFINE q == SyncDeliveryState(p)
<1>1. /\ q \in Page
      /\ q.connection = p.connection /\ q.attempt = p.attempt /\ q.offer = p.offer
      /\ q.coordinator = p.coordinator /\ q.acks = p.acks /\ q.out = p.out
    BY DEF SyncDeliveryState, Sound, PageShape, Page, Phase
<1>2. q.phase = "closed" <=> p.phase = "closed"
    BY DEF SyncDeliveryState, Sound, PageShape, PageFence, Page
<1> HIDE DEF q
<1>3. Quiet(p, q)
    BY <1>1, <1>2, FlagsAreQuiet
<1> QED BY <1>1, <1>3 DEF q

LEMMA TryCommitIs ==
    ASSUME NEW p, Sound(p), p.coordinator.state \in Delivering, NEW q, q = TryCommit(p)
    PROVE  /\ Sound(q)
           /\ q.connection = p.connection /\ q.acks = p.acks /\ q.out = p.out
           /\ q.attempt = p.attempt /\ q.offer = p.offer
           /\ q.coordinator.fence = p.coordinator.fence
           /\ q.coordinator.received = p.coordinator.received
           /\ q.coordinator.committed = p.coordinator.committed
           /\ q.coordinator.pending = p.coordinator.pending
           /\ q.coordinator.state \in {p.coordinator.state, "live"}
           /\ q.coordinator.cursor \in {p.coordinator.cursor, p.coordinator.received}
<1> DEFINE c == p.coordinator
           d == [[[c EXCEPT !.state = "live"] EXCEPT !.candidate = "live"]
                    EXCEPT !.cursor = c.received]
<1>1. c \in Coordinator
    BY DEF Sound, PageShape, Page
<1>2. CASE ~(c.committed /\ c.candidate # "none")
    BY <1>2 DEF TryCommit
<1>3. CASE c.committed /\ c.candidate # "none"
  <2>1. /\ d \in Coordinator /\ d.state = "live" /\ d.candidate = "live" /\ d.cursor = c.received
        /\ d.fence = c.fence /\ d.received = c.received /\ d.committed = c.committed
        /\ d.pending = c.pending
      BY <1>1 DEF Coordinator
  <2>2. q = [p EXCEPT !.coordinator = d]
      BY <1>3 DEF TryCommit, Sound, PageShape, Page, Coordinator
  <2> HIDE DEF d
  <2>3. PageDelivery(d)
      BY <1>3, <2>1 DEF Sound, PageDelivery, Delivering
  <2> QED BY <2>1, <2>2, <2>3, CoordinatorChanges DEF Delivering
<1> QED BY <1>2, <1>3

LEMMA RestoresAreQuiet ==
    ASSUME NEW p, Sound(p)
    PROVE  /\ Restoring(p) => Quiet(p, FinishRestore(p)) /\ Quiet(p, RestoreFails(p))
           /\ p.coordinator.state = "restoring" => Quiet(p, RestoreDeadline(p))
<1>1. p.coordinator.state = "restoring" => Quiet(p, RestoreDeadline(p))
    BY ResyncIsQuiet DEF RestoreDeadline
<1>2. ASSUME Restoring(p) PROVE Quiet(p, RestoreFails(p))
  <2> DEFINE q == RequestResync(p, "restore-failed")
  <2>1. Quiet(p, q) /\ Sound(q)
      BY <1>2, ResyncIsQuiet DEF Restoring, Quiet
  <2> HIDE DEF q
  <2>2. Quiet(p, SyncDeliveryState(q))
      BY <2>1, SyncIs, QuietTwice
  <2> QED BY <2>2 DEF RestoreFails, q
<1>3. ASSUME Restoring(p) PROVE Quiet(p, FinishRestore(p))
  <2> DEFINE c == p.coordinator
             d == [c EXCEPT !.candidate = "restored"]
             r == [p EXCEPT !.coordinator = d]
             q == TryCommit(r)
  <2>1. /\ d \in Coordinator /\ d.state = "restoring" /\ d.candidate = "restored"
        /\ d.cursor = c.cursor /\ d.fence = c.fence /\ d.received = c.received
        /\ d.committed = c.committed /\ d.pending = c.pending
      BY <1>3 DEF Coordinator, Restoring, Sound, PageShape, Page
  <2>2. r = [p EXCEPT !.coordinator.candidate = "restored"]
      OBVIOUS
  <2> HIDE DEF d
  <2>3. PageDelivery(d)
      BY <1>3, <2>1 DEF Restoring, Sound, PageDelivery, Delivering
  <2>4. /\ Sound(r) /\ r.coordinator = d /\ r.connection = p.connection /\ r.attempt = p.attempt
        /\ r.offer = p.offer /\ r.acks = p.acks /\ r.out = p.out
      BY <1>3, <2>1, <2>3, CoordinatorChanges DEF Restoring
  <2> HIDE DEF r
  <2>5. /\ Sound(q)
        /\ q.connection = r.connection /\ q.acks = r.acks /\ q.out = r.out
        /\ q.attempt = r.attempt /\ q.offer = r.offer
        /\ q.coordinator.fence = d.fence
        /\ q.coordinator.received = d.received
        /\ q.coordinator.committed = d.committed
        /\ q.coordinator.pending = d.pending
        /\ q.coordinator.state \in {"restoring", "live"}
        /\ q.coordinator.cursor \in {d.cursor, d.received}
      BY <2>1, <2>4, TryCommitIs DEF Delivering
  <2> HIDE DEF q
  <2>6. Remains(p.connection, q.connection) /\ Continues(c, q.coordinator)
      BY <1>3, <2>1, <2>4, <2>5 DEF Remains, Continues, Restoring
  <2>7. Quiet(p, q)
      BY <1>3, <2>1, <2>4, <2>5, <2>6 DEF Quiet, Restoring
  <2>8. Quiet(p, SyncDeliveryState(q))
      BY <2>5, <2>7, SyncIs, QuietTwice
  <2>9. FinishRestore(p) = SyncDeliveryState(q)
      BY <2>2 DEF FinishRestore, q
  <2> QED BY <2>8, <2>9
<1> QED BY <1>1, <1>2, <1>3

-----------------------------------------------------------------------------
(* What the page sends *)

Ack(g, cursor) == [kind |-> "ack", gen |-> g, cursor |-> cursor]
AttachOf(g, cursor) == [kind |-> "attach", gen |-> g, cursor |-> cursor]

LEMMA AppendSends ==
    ASSUME NEW s \in Seq(PageFrame), NEW f PROVE Append(s, f) # s
<1>1. Len(Append(s, f)) = Len(s) + 1 /\ Len(s) \in Nat
    OBVIOUS
<1> QED BY <1>1

\* A frame goes out on an open control socket, and fails the connection otherwise.
LEMMA SendIs ==
    ASSUME NEW p, Sound(p), NEW f \in PageFrame, NEW q, q = Send(p, f)
    PROVE  /\ Sound(q) /\ q.coordinator = p.coordinator
           /\ q.attempt = "offered" => p.attempt = "offered" /\ q.offer = p.offer
           /\ \/ /\ p.connection.control = "open" /\ Sent(p, q)
                 /\ q.out = Append(p.out, f)
                 /\ q.connection = p.connection /\ q.acks = p.acks /\ q.attempt = p.attempt
                 /\ q.phase = p.phase
              \/ ~Sent(p, q) /\ Quiet(p, q) /\ q.connection = NoConnection
<1>1. CASE p.connection.control = "open"
  <2>1. p.out \in Seq(PageFrame)
      BY DEF Sound, PageShape, Page
  <2>2. /\ q \in Page
        /\ q.out = Append(p.out, f)
        /\ q.coordinator = p.coordinator /\ q.connection = p.connection /\ q.attempt = p.attempt
        /\ q.offer = p.offer /\ q.acks = p.acks /\ q.phase = p.phase
      BY <1>1, <2>1, SMTT(30) DEF Send, Sound, PageShape, Page
  <2>3. Sent(p, q)
      BY <2>1, <2>2, AppendSends DEF Sent
  <2>4. Sound(q)
      BY <2>2 DEF Sound, PageShape, PageFence
  <2> QED BY <1>1, <2>2, <2>3, <2>4
<1>2. CASE p.connection.control # "open"
  <2>1. q = FailFullConnection(p)
      BY <1>2 DEF Send
  <2>2. Quiet(p, q) /\ q.connection = NoConnection /\ q.coordinator = p.coordinator
      BY <2>1, FailIs
  <2> QED BY <2>2 DEF Quiet, Sent
<1> QED BY <1>1, <1>2

\* What an acknowledgement of a cursor does to the page: nothing to the coordinator.
Acked(p, cursor, q) ==
    /\ Sound(q) /\ q.coordinator = p.coordinator
    /\ q.attempt = "offered" => p.attempt = "offered" /\ q.offer = p.offer
    /\ q.connection = p.connection \/ q.connection = NoConnection
    /\ \/ /\ q.out = p.out
          /\ q.connection # NoConnection =>
                /\ q.acks.last = p.acks.last
                /\ q.acks.pending \in {p.acks.pending, cursor}
       \/ /\ q.out = Append(p.out, Ack(p.connection.gen, cursor))
          /\ p.connection.control = "open" /\ q.connection = p.connection
          /\ p.acks.last <= cursor
          /\ q.acks.last = cursor /\ q.acks.pending = NoSeq

LEMMA AckTyped ==
    ASSUME NEW p, Sound(p), p.connection.control = "open", NEW cursor \in MaybeSeqs
    PROVE  Ack(p.connection.gen, cursor) \in PageFrame
           /\ AttachOf(p.connection.gen, cursor) \in PageFrame
BY DEF Ack, AttachOf, PageFrame, Sound, PageShape

LEMMA FlushIs ==
    ASSUME NEW p, Sound(p), NEW q, q = Flush(p)
    PROVE  /\ Sound(q) /\ q.coordinator = p.coordinator
           /\ q.attempt = "offered" => p.attempt = "offered" /\ q.offer = p.offer
           /\ q.connection = p.connection \/ q.connection = NoConnection
           /\ \/ /\ q.out = p.out
                 /\ q.connection # NoConnection =>
                       /\ p.acks.pending = NoSeq
                       /\ q.acks.last = p.acks.last /\ q.acks.pending = NoSeq
              \/ /\ q.out = Append(p.out, Ack(p.connection.gen, p.acks.pending))
                 /\ p.acks.pending # NoSeq
                 /\ p.connection.control = "open" /\ q.connection = p.connection
                 /\ q.acks.last = p.acks.pending /\ q.acks.pending = NoSeq
<1> DEFINE cursor == p.acks.pending
           rest == [[p.acks EXCEPT !.pending = NoSeq] EXCEPT !.timer = FALSE]
           idle == [p EXCEPT !.acks = rest]
           frame == Ack(p.connection.gen, cursor)
           sent == Send(idle, frame)
<1>1. /\ rest \in Acks /\ rest.last = p.acks.last /\ rest.pending = NoSeq
      /\ cursor \in MaybeSeqs
    BY DEF Sound, PageShape, Page, Acks, MaybeSeqs
<1>2. q = IF cursor = NoSeq THEN idle
          ELSE IF Sent(p, sent) THEN [sent EXCEPT !.acks.last = cursor] ELSE sent
    BY DEF Flush, Ack, Sound, PageShape, Page
<1> HIDE DEF rest
<1>3. /\ idle \in Page
      /\ idle.acks = rest /\ idle.connection = p.connection /\ idle.attempt = p.attempt
      /\ idle.offer = p.offer /\ idle.coordinator = p.coordinator /\ idle.out = p.out
      /\ idle.phase = p.phase
    BY <1>1 DEF Sound, PageShape, Page
<1> HIDE DEF idle
<1>4. Sound(idle)
    BY <1>1, <1>3 DEF Sound, PageShape, PageFence
<1>5. CASE cursor = NoSeq
    BY <1>1, <1>2, <1>3, <1>4, <1>5
<1>6. CASE cursor # NoSeq /\ p.connection.control = "open"
  <2>1. frame \in PageFrame
      BY <1>1, <1>6, AckTyped
  <2> HIDE DEF frame
  <2>2. /\ Sound(sent) /\ sent.coordinator = p.coordinator
        /\ sent.attempt = "offered" => p.attempt = "offered" /\ sent.offer = p.offer
      BY <1>3, <1>4, <2>1, SendIs
  <2>3. /\ Sent(p, sent)
        /\ sent.out = Append(p.out, frame)
        /\ sent.connection = p.connection /\ sent.acks = rest
        /\ sent.attempt = p.attempt /\ sent.phase = p.phase
    <3>1. idle.out \in Seq(PageFrame)
        BY <1>3 DEF Page
    <3>2. sent.out = Append(idle.out, frame) /\ sent.connection = idle.connection
          /\ sent.acks = idle.acks /\ sent.attempt = idle.attempt /\ sent.phase = idle.phase
        BY <1>3, <1>6, <3>1 DEF Send, Page
    <3> QED BY <1>3, <3>1, <3>2, AppendSends DEF Sent
  <2> HIDE DEF sent
  <2> DEFINE more == [rest EXCEPT !.last = cursor]
  <2>4. q = [sent EXCEPT !.acks = more]
      BY <1>2, <1>6, <2>3 DEF Sound, PageShape, Page
  <2>5. more \in Acks /\ more.last = cursor /\ more.pending = NoSeq
      BY <1>1 DEF Acks
  <2> HIDE DEF more
  <2>6. /\ q \in Page
        /\ q.acks = more /\ q.connection = sent.connection /\ q.attempt = sent.attempt
        /\ q.offer = sent.offer /\ q.coordinator = sent.coordinator /\ q.out = sent.out
        /\ q.phase = sent.phase
      BY <2>2, <2>4, <2>5 DEF Sound, PageShape, Page
  <2>7. Sound(q)
      BY <2>2, <2>5, <2>6 DEF Sound, PageShape, PageFence
  <2> QED BY <1>6, <2>2, <2>3, <2>5, <2>6, <2>7 DEF frame
<1>7. CASE cursor # NoSeq /\ p.connection.control # "open"
  <2>1. sent = FailFullConnection(idle)
      BY <1>3, <1>7 DEF Send
  <2>2. Quiet(idle, sent) /\ sent.connection = NoConnection
        /\ sent.coordinator = idle.coordinator
      BY <1>4, <2>1, FailIs
  <2>3. ~Sent(p, sent)
      BY <1>3, <2>2 DEF Quiet, Sent
  <2> QED BY <1>2, <1>3, <1>7, <2>2, <2>3 DEF Quiet
<1> QED BY <1>5, <1>6, <1>7

LEMMA AcknowledgeIs ==
    ASSUME NEW p, Sound(p), NEW cursor \in Seqs, NEW q, q = Acknowledge(p, cursor)
    PROVE  Acked(p, cursor, q)
<1> DEFINE previous == IF p.acks.pending # NoSeq THEN p.acks.pending ELSE p.acks.last
           more == [p.acks EXCEPT !.pending = cursor]
           waiting == [more EXCEPT !.timer = TRUE]
           queued == [p EXCEPT !.acks = more]
           late == [p EXCEPT !.acks = waiting]
<1>0. p.acks \in Acks /\ cursor \in MaybeSeqs /\ cursor # NoSeq
    BY DEF Sound, PageShape, Page, MaybeSeqs, Seqs, NoSeq
<1>1. /\ previous \in MaybeSeqs /\ p.acks.last \in MaybeSeqs /\ p.acks.last <= previous
    BY <1>0 DEF Acks, MaybeSeqs, Seqs, NoSeq, Sound, PageShape
<1>2. /\ more \in Acks /\ more.last = p.acks.last /\ more.pending = cursor
      /\ waiting \in Acks /\ waiting.last = p.acks.last /\ waiting.pending = cursor
    BY <1>0 DEF Acks
<1>3. q = IF p.connection.gen # p.coordinator.fence \/ cursor = previous THEN p
          ELSE IF cursor < previous THEN FailFullConnection(p)
          ELSE IF p.acks.last = NoSeq \/ p.coordinator.state # "live" THEN Flush(queued)
          ELSE late
    BY DEF Acknowledge, Sound, PageShape, Page
<1> HIDE DEF previous, more, waiting
<1>4. ASSUME NEW r, NEW a \in {more, waiting}, r = [p EXCEPT !.acks = a], p.acks.last <= cursor
      PROVE  /\ Sound(r)
             /\ r.acks = a /\ r.connection = p.connection /\ r.attempt = p.attempt
             /\ r.offer = p.offer /\ r.coordinator = p.coordinator /\ r.out = p.out
  <2>1. /\ r \in Page
        /\ r.acks = a /\ r.connection = p.connection /\ r.attempt = p.attempt
        /\ r.offer = p.offer /\ r.coordinator = p.coordinator /\ r.out = p.out
        /\ r.phase = p.phase
      BY <1>2, <1>4 DEF Sound, PageShape, Page
  <2>2. Sound(r)
      BY <1>2, <1>4, <2>1 DEF Sound, PageShape, PageFence
  <2> QED BY <2>1, <2>2
<1>5. CASE p.connection.gen # p.coordinator.fence \/ cursor = previous
    BY <1>3, <1>5 DEF Acked
<1>6. CASE /\ ~(p.connection.gen # p.coordinator.fence \/ cursor = previous)
           /\ cursor < previous
  <2>1. q = FailFullConnection(p)
      BY <1>3, <1>6
  <2> QED BY <2>1, FailIs DEF Acked, Quiet
<1>7. CASE /\ ~(p.connection.gen # p.coordinator.fence \/ cursor = previous)
           /\ ~(cursor < previous)
  <2>1. cursor > previous /\ p.acks.last <= cursor
      BY <1>1, <1>7 DEF MaybeSeqs, Seqs, NoSeq
  <2>2. CASE p.acks.last = NoSeq \/ p.coordinator.state # "live"
    <3>1. q = Flush(queued)
        BY <1>3, <1>7, <2>1, <2>2
    <3>2. /\ Sound(queued)
          /\ queued.acks = more /\ queued.connection = p.connection
          /\ queued.attempt = p.attempt
          /\ queued.offer = p.offer /\ queued.coordinator = p.coordinator
          /\ queued.out = p.out
        BY <1>4, <2>1
    <3> HIDE DEF queued
    <3> QED BY <1>0, <1>2, <2>1, <3>1, <3>2, FlushIs, SMTT(30) DEF Acked
  <2>3. CASE ~(p.acks.last = NoSeq \/ p.coordinator.state # "live")
    <3>1. q = late
        BY <1>3, <1>7, <2>1, <2>3
    <3>2. /\ Sound(late)
          /\ late.acks = waiting /\ late.connection = p.connection
          /\ late.attempt = p.attempt
          /\ late.offer = p.offer /\ late.coordinator = p.coordinator
          /\ late.out = p.out
        BY <1>4, <2>1
    <3> HIDE DEF late
    <3> QED BY <1>2, <3>1, <3>2 DEF Acked
  <2> QED BY <2>2, <2>3
<1> QED BY <1>5, <1>6, <1>7

-----------------------------------------------------------------------------
(* A frame of the delivery *)

\* What accepting a frame of a delivery does.
Accepted(p, f, q) ==
    LET c == p.coordinator
        d == q.coordinator
    IN  /\ Sound(q)
        /\ q.attempt = "offered" => p.attempt = "offered" /\ q.offer = p.offer
        /\ q.connection = p.connection \/ q.connection = NoConnection
        /\ d.fence = c.fence
        /\ d.cursor \in {c.cursor, c.received, f.seq}
        /\ d.received \in {c.received, NoSeq, f.seq}
        /\ \/ /\ c.state \in {"resyncing", "closed"} /\ d = c
              /\ q.connection = p.connection /\ q.acks = p.acks /\ q.out = p.out
           \/ /\ c.state = "awaiting" /\ d = [c EXCEPT !.pending = Append(@, f)]
              /\ q.connection = p.connection /\ q.acks = p.acks /\ q.out = p.out
           \/ /\ c.state \in Delivering /\ d.state = "resyncing" /\ d.pending = <<>>
              /\ ~(f.kind = "event" /\ f.seq = c.received + 1)
              /\ ~(f.kind = "commit" /\ f.seq = c.received)
              /\ q.out = p.out
              /\ q.connection # NoConnection => q.acks = p.acks
           \/ /\ c.state \in Delivering /\ d.state \in Delivering /\ d.received = f.seq
              /\ \/ f.kind = "event" /\ f.seq = c.received + 1 /\ d.committed = c.committed
                 \/ f.kind = "commit" /\ f.seq = c.received /\ d.committed
              /\ \/ /\ q.out = p.out
                    /\ q.connection # NoConnection =>
                          /\ q.acks.last = p.acks.last
                          /\ q.acks.pending \in {p.acks.pending, f.seq}
                 \/ /\ q.out = Append(p.out, Ack(p.connection.gen, f.seq))
                    /\ p.connection.control = "open" /\ q.connection = p.connection
                    /\ p.acks.last <= f.seq
                    /\ q.acks.last = f.seq /\ q.acks.pending = NoSeq

LEMMA FrameTyped ==
    ASSUME NEW f \in DataFrame, f.kind \in {"event", "commit"} PROVE f.seq \in Seqs
BY DEF DataFrame

LEMMA AcceptFrameIs ==
    ASSUME NEW p, Sound(p), p.coordinator.state # "idle",
           NEW f \in DataFrame, f.kind \in {"event", "commit"}, NEW q, q = AcceptFrame(p, f)
    PROVE  Accepted(p, f, q)
<1> DEFINE c == p.coordinator
           at == [[c EXCEPT !.received = f.seq]
                     EXCEPT !.cursor = IF c.candidate = "live" THEN f.seq ELSE @]
           over == [c EXCEPT !.committed = TRUE]
           later == [c EXCEPT !.pending = Append(@, f)]
<1>0. /\ c \in Coordinator /\ c.received \in MaybeSeqs /\ f.seq \in Seqs /\ f.seq \in MaybeSeqs
    BY FrameTyped DEF Sound, PageShape, Page, Coordinator, MaybeSeqs
<1>1. CASE c.state \in {"resyncing", "closed"}
    BY <1>1 DEF AcceptFrame, Accepted
<1>2. CASE c.state = "awaiting"
  <2>1. q = [p EXCEPT !.coordinator = later]
      BY <1>2 DEF AcceptFrame, Sound, PageShape, Page, Coordinator
  <2>2. c.pending \in Seq(DataFrame) /\ later.pending = Append(c.pending, f)
      BY <1>0 DEF Coordinator
  <2>3. /\ later \in Coordinator /\ later.state = c.state /\ later.fence = c.fence
        /\ later.candidate = c.candidate /\ later.committed = c.committed
        /\ later.received = c.received /\ later.cursor = c.cursor
    <3> DEFINE pending == Append(c.pending, f)
    <3>1. pending \in Seq(DataFrame) /\ later = [c EXCEPT !.pending = pending]
        BY <2>2
    <3> HIDE DEF pending, later
    <3> QED BY <1>0, <3>1 DEF Coordinator
  <2>4. \A i \in DOMAIN later.pending : later.pending[i].kind \in {"event", "commit"}
    <3>1. \A i \in DOMAIN c.pending : c.pending[i].kind \in {"event", "commit"}
        BY DEF Sound, PageDelivery
    <3>2. ASSUME NEW i \in DOMAIN Append(c.pending, f)
          PROVE  Append(c.pending, f)[i] = f
                 \/ (i \in DOMAIN c.pending /\ Append(c.pending, f)[i] = c.pending[i])
        BY <2>2
    <3> QED BY <2>2, <3>1, <3>2
  <2>5. later = [c EXCEPT !.pending = Append(@, f)]
      OBVIOUS
  <2> HIDE DEF later
  <2>6. PageDelivery(later)
      BY <1>2, <2>3, <2>4 DEF Sound, PageDelivery, Delivering
  <2>7. /\ Sound(q) /\ q.coordinator = later /\ q.connection = p.connection
        /\ q.attempt = p.attempt /\ q.offer = p.offer /\ q.acks = p.acks /\ q.out = p.out
      BY <2>1, <2>3, <2>6, CoordinatorChanges
  <2> QED BY <1>2, <2>3, <2>5, <2>7 DEF Accepted
<1>3. CASE c.state \in Delivering /\ f.kind = "event" /\ f.seq = c.received + 1
  <2>1. /\ at \in Coordinator /\ at.state = c.state /\ at.fence = c.fence
        /\ at.candidate = c.candidate /\ at.committed = c.committed
        /\ at.received = f.seq /\ at.cursor \in {c.cursor, f.seq} /\ at.pending = c.pending
      BY <1>0 DEF Coordinator
  <2>2. PageDelivery(at)
    <3> HIDE DEF at
    <3> QED BY <1>0, <1>3, <2>1 DEF Sound, PageDelivery, Delivering
  <2> DEFINE r == [p EXCEPT !.coordinator = at]
  <2>3. q = Acknowledge(r, f.seq)
    <3>1. r = [p EXCEPT !.coordinator.received = f.seq,
                        !.coordinator.cursor = IF c.candidate = "live" THEN f.seq ELSE @]
        BY DEF Sound, PageShape, Page, Coordinator
    <3> HIDE DEF r
    <3> QED BY <1>3, <3>1 DEF AcceptFrame, Delivering
  <2> HIDE DEF at
  <2>4. /\ Sound(r) /\ r.coordinator = at /\ r.connection = p.connection
        /\ r.attempt = p.attempt /\ r.offer = p.offer /\ r.acks = p.acks /\ r.out = p.out
      BY <2>1, <2>2, CoordinatorChanges
  <2> HIDE DEF r
  <2>5. Acked(r, f.seq, q)
      BY <1>0, <2>3, <2>4, AcknowledgeIs
  <2> QED BY <1>3, <2>1, <2>4, <2>5 DEF Accepted, Acked
<1>4. CASE c.state \in Delivering /\ f.kind = "commit" /\ f.seq = c.received
  <2>1. /\ over \in Coordinator /\ over.state = c.state /\ over.fence = c.fence
        /\ over.candidate = c.candidate /\ over.committed = TRUE
        /\ over.received = f.seq /\ over.cursor = c.cursor /\ over.pending = c.pending
      BY <1>0, <1>4 DEF Coordinator
  <2>2. PageDelivery(over)
    <3> HIDE DEF over
    <3> QED BY <1>0, <1>4, <2>1 DEF Sound, PageDelivery, Delivering
  <2> DEFINE r == [p EXCEPT !.coordinator = over]
             s == Acknowledge(r, f.seq)
  <2>3. q = TryCommit(s)
    <3>1. r = [p EXCEPT !.coordinator.committed = TRUE]
        BY DEF Sound, PageShape, Page, Coordinator
    <3> HIDE DEF r
    <3> QED BY <1>4, <3>1 DEF AcceptFrame, Delivering
  <2> HIDE DEF over
  <2>4. /\ Sound(r) /\ r.coordinator = over /\ r.connection = p.connection
        /\ r.attempt = p.attempt /\ r.offer = p.offer /\ r.acks = p.acks /\ r.out = p.out
      BY <2>1, <2>2, CoordinatorChanges
  <2> HIDE DEF r
  <2>5. Acked(r, f.seq, s) /\ Sound(s) /\ s.coordinator = over
      BY <1>0, <2>4, AcknowledgeIs DEF Acked
  <2> HIDE DEF s
  <2>6. /\ Sound(q)
        /\ q.connection = s.connection /\ q.acks = s.acks /\ q.out = s.out
        /\ q.attempt = s.attempt /\ q.offer = s.offer
        /\ q.coordinator.fence = over.fence
        /\ q.coordinator.received = over.received
        /\ q.coordinator.committed = over.committed
        /\ q.coordinator.pending = over.pending
        /\ q.coordinator.state \in {over.state, "live"}
        /\ q.coordinator.cursor \in {over.cursor, over.received}
      BY <1>4, <2>1, <2>3, <2>5, TryCommitIs
  <2> QED BY <1>4, <2>1, <2>4, <2>5, <2>6 DEF Accepted, Acked, Delivering
<1>5. CASE /\ c.state \in Delivering
           /\ ~(f.kind = "event" /\ f.seq = c.received + 1)
           /\ ~(f.kind = "commit" /\ f.seq = c.received)
  <2>1. q = RequestResync(p, "journal-gap")
      BY <1>5 DEF AcceptFrame, Delivering
  <2>2. c.state # "closed"
      BY <1>5 DEF Delivering
  <2>3. /\ Sound(q) /\ q.out = p.out
        /\ q.coordinator = NoDelivery(c, "resyncing")
        /\ q.connection = NoConnection \/ (q.connection = p.connection /\ q.acks = p.acks)
        /\ q.attempt = "offered" => p.attempt = "offered" /\ q.offer = p.offer
      BY <2>1, <2>2, ResyncIs
  <2>4. /\ q.coordinator.state = "resyncing" /\ q.coordinator.fence = c.fence
        /\ q.coordinator.cursor = c.cursor /\ q.coordinator.received = NoSeq
        /\ q.coordinator.pending = <<>>
      BY <1>0, <2>3, NoDeliveryIs
  <2> QED BY <1>5, <2>3, <2>4 DEF Accepted, Sound, PageShape
<1> QED BY <1>0, <1>1, <1>2, <1>3, <1>4, <1>5 DEF Coordinator, Delivering

-----------------------------------------------------------------------------
(* The connection *)

LEMMA FenceIs ==
    ASSUME NEW p, Sound(p), ~IsClosed(p), NEW g \in Gens, p.coordinator.fence <= g,
           NEW q, q = FenceDeliveryGeneration(p, g)
    PROVE  /\ q \in Page
           /\ q.coordinator.fence = g /\ PageDelivery(q.coordinator)
           /\ q.coordinator.state # "closed"
           /\ q.coordinator.cursor = p.coordinator.cursor
           /\ \/ /\ p.coordinator.fence < g
                 /\ q.coordinator.state = "awaiting" /\ q.coordinator.pending = <<>>
              \/ p.coordinator.fence = g /\ q.coordinator = p.coordinator
           /\ q.connection = p.connection /\ q.attempt = p.attempt /\ q.offer = p.offer
           /\ q.acks = p.acks /\ q.out = p.out /\ q.phase = p.phase
<1> DEFINE c == p.coordinator
           d == NoDelivery(c, "awaiting")
           e == [d EXCEPT !.fence = g]
<1>0. c \in Coordinator /\ c.fence \in 0 .. MaxGen /\ g \in 0 .. MaxGen /\ c.state # "closed"
    BY Bounds DEF Sound, PageShape, PageFence, Page, Coordinator, Gens, IsClosed
<1>1. CASE c.fence < g
  <2>1. /\ d \in Coordinator /\ d.state = "awaiting" /\ d.cursor = c.cursor
        /\ d.received = NoSeq /\ d.candidate = "none" /\ ~d.committed /\ d.pending = <<>>
      BY <1>0, NoDeliveryIs
  <2>2. q = [p EXCEPT !.coordinator = e]
      BY <1>0, <1>1 DEF FenceDeliveryGeneration
  <2> HIDE DEF d
  <2>3. /\ e \in Coordinator /\ e.state = "awaiting" /\ e.cursor = c.cursor /\ e.fence = g
        /\ e.received = NoSeq /\ e.candidate = "none" /\ ~e.committed /\ e.pending = <<>>
      BY <1>0, <2>1 DEF Coordinator
  <2> HIDE DEF e
  <2>4. /\ q \in Page /\ q.coordinator = e
        /\ q.connection = p.connection /\ q.attempt = p.attempt /\ q.offer = p.offer
        /\ q.acks = p.acks /\ q.out = p.out /\ q.phase = p.phase
      BY <2>2, <2>3 DEF Sound, PageShape, Page
  <2>5. PageDelivery(e)
      BY <2>3 DEF PageDelivery, Delivering
  <2> QED BY <1>1, <2>3, <2>4, <2>5
<1>2. CASE ~(c.fence < g)
    BY <1>0, <1>2 DEF FenceDeliveryGeneration, Sound, PageShape, Gens
<1> QED BY <1>1, <1>2

NewConnection(p) ==
    [set |-> p.offer.set, gen |-> p.offer.gen, control |-> "opening", data |-> "none",
     current |-> TRUE]

\* The connection that was reserved replaces the former one.
LEMMA ActivateIs ==
    ASSUME NEW p, Sound(p), p.attempt = "offered", NEW q, q = Activate(p)
    PROVE  /\ Sound(q)
           /\ q.connection = NewConnection(p) /\ q.attempt = "control" /\ q.acks = NoAcks
           /\ q.out = p.out
           /\ q.coordinator.fence = p.offer.gen
           /\ q.coordinator.cursor = p.coordinator.cursor
           /\ \/ /\ p.coordinator.fence < p.offer.gen
                 /\ q.coordinator.state = "awaiting" /\ q.coordinator.pending = <<>>
              \/ p.coordinator.fence = p.offer.gen /\ q.coordinator = p.coordinator
<1> DEFINE r == FenceDeliveryGeneration(p, p.offer.gen)
<1>1. p.offer.gen \in Gens /\ p.offer.set \in Sets /\ p.coordinator.fence <= p.offer.gen
      /\ ~IsClosed(p)
    BY DEF Sound, PageShape, PageFence, IsClosed
<1>2. /\ r \in Page
      /\ r.coordinator.fence = p.offer.gen /\ PageDelivery(r.coordinator)
      /\ r.coordinator.state # "closed"
      /\ r.coordinator.cursor = p.coordinator.cursor
      /\ \/ /\ p.coordinator.fence < p.offer.gen
            /\ r.coordinator.state = "awaiting" /\ r.coordinator.pending = <<>>
         \/ p.coordinator.fence = p.offer.gen /\ r.coordinator = p.coordinator
      /\ r.out = p.out /\ r.phase # "closed"
    BY <1>1, FenceIs DEF IsClosed
<1> HIDE DEF r
<1>3. NewConnection(p) \in Connection
    BY <1>1, Bounds DEF NewConnection, Connection, Sets, Gens
<1>4. /\ q \in Page
      /\ q.connection = NewConnection(p) /\ q.attempt = "control" /\ q.acks = NoAcks
      /\ q.out = r.out /\ q.coordinator = r.coordinator /\ q.phase = r.phase
    BY <1>2, <1>3, NothingTyped DEF Activate, NewConnection, r, Page, Attempt
<1>5. Sound(q)
    BY <1>1, <1>2, <1>4 DEF Sound, PageShape, PageFence, NewConnection, NoAcks
<1> QED BY <1>2, <1>4, <1>5

\* The control socket opens, and the page asks for the data socket.
LEMMA ControlOpenIs ==
    ASSUME NEW p, Sound(p), p.connection.current, NEW q, q = ControlOpen(p)
    PROVE  /\ Sound(q)
           /\ q.connection \in Connection
           /\ q.connection.set = p.connection.set /\ q.connection.gen = p.connection.gen
           /\ q.connection.control = "open" /\ q.connection.data = "opening"
           /\ q.connection.current
           /\ q.attempt = "data" /\ q.acks = p.acks /\ q.out = p.out
           /\ q.coordinator = p.coordinator
<1> DEFINE c == p.connection
           d == [[c EXCEPT !.control = "open"] EXCEPT !.data = "opening"]
<1>1. /\ d \in Connection /\ d.control = "open" /\ d.data = "opening"
      /\ d.current = c.current /\ d.set = c.set /\ d.gen = c.gen
    BY DEF Sound, PageShape, Page, Connection
<1>2. q = [p EXCEPT !.connection = d, !.attempt = "data"]
    BY DEF ControlOpen, Sound, PageShape, Page, Connection
<1> HIDE DEF d
<1>3. /\ q \in Page
      /\ q.connection = d /\ q.attempt = "data" /\ q.acks = p.acks /\ q.out = p.out
      /\ q.coordinator = p.coordinator /\ q.phase = p.phase
    BY <1>1, <1>2 DEF Sound, PageShape, Page, Attempt
<1>4. Sound(q)
    BY <1>1, <1>3 DEF Sound, PageShape, PageFence
<1> QED BY <1>1, <1>3, <1>4

\* The data socket opens, and the page attaches.
LEMMA DataOpenIs ==
    ASSUME NEW p, Sound(p), p.connection.current, NEW q, q = DataOpen(p)
    PROVE  /\ Sound(q) /\ q.coordinator = p.coordinator
           /\ q.attempt # "offered"
           /\ \/ /\ p.connection.control = "open"
                 /\ q.connection \in Connection
                 /\ q.connection.set = p.connection.set /\ q.connection.gen = p.connection.gen
                 /\ q.connection.control = "open" /\ q.connection.data = "open"
                 /\ q.connection.current
                 /\ q.out = Append(p.out, AttachOf(p.connection.gen, p.coordinator.cursor))
                 /\ q.acks.last = p.coordinator.cursor /\ q.acks.pending = NoSeq
              \/ p.connection.control # "open" /\ q.connection = NoConnection /\ q.out = p.out
<1> DEFINE c == p.connection
           d == [c EXCEPT !.data = "open"]
           r == [p EXCEPT !.connection = d, !.attempt = "none", !.phase = "attaching"]
           cursor == p.coordinator.cursor
           frame == AttachOf(c.gen, cursor)
           sent == Send(r, frame)
           acks == [NoAcks EXCEPT !.last = cursor]
<1>1. /\ d \in Connection /\ d.control = c.control /\ d.data = "open"
      /\ d.current = c.current /\ d.set = c.set /\ d.gen = c.gen
      /\ cursor \in MaybeSeqs /\ p.phase # "closed" /\ p.coordinator.state # "closed"
    BY DEF Sound, PageShape, PageFence, Page, Connection, Coordinator
<1>2. DataOpen(p) = SendAttach(r)
    BY DEF DataOpen, Sound, PageShape, Page, Connection
<1> HIDE DEF d
<1>3. /\ r \in Page
      /\ r.connection = d /\ r.attempt = "none" /\ r.acks = p.acks /\ r.out = p.out
      /\ r.coordinator = p.coordinator /\ r.phase = "attaching"
    BY <1>1 DEF Sound, PageShape, Page, Attempt, Phase
<1>4. Sound(r)
    BY <1>1, <1>3 DEF Sound, PageShape, PageFence
<1>5. q = IF Sent(r, sent) THEN [sent EXCEPT !.acks = acks, !.watchdog = TRUE] ELSE sent
    BY <1>1, <1>2, <1>3 DEF SendAttach, AttachOf
<1>6. acks \in Acks /\ acks.last = cursor /\ acks.pending = NoSeq
    BY <1>1 DEF NoAcks, Acks, MaybeSeqs
<1> HIDE DEF r, acks
<1>7. CASE c.control = "open"
  <2>1. frame \in PageFrame
      BY <1>1, <1>7, AckTyped
  <2> HIDE DEF frame
  <2>2. /\ Sound(sent) /\ sent.coordinator = p.coordinator
        /\ Sent(r, sent) /\ sent.out = Append(p.out, frame)
        /\ sent.connection = d /\ sent.attempt = "none"
    <3>1. r.out \in Seq(PageFrame)
        BY <1>3 DEF Page
    <3>2. sent.out = Append(r.out, frame)
        BY <1>1, <1>3, <1>7, <3>1 DEF Send, Page
    <3>3. Sent(r, sent)
        BY <3>1, <3>2, AppendSends DEF Sent
    <3> QED BY <1>3, <1>4, <2>1, <3>2, <3>3, SendIs
  <2> HIDE DEF sent
  <2>3. /\ q \in Page
        /\ q.connection = d /\ q.attempt = "none" /\ q.acks = acks /\ q.out = sent.out
        /\ q.coordinator = p.coordinator /\ q.phase = sent.phase
      BY <1>5, <1>6, <2>2, ZenonT(60) DEF Sound, PageShape, Page
  <2>4. Sound(q)
      BY <1>6, <2>2, <2>3 DEF Sound, PageShape, PageFence
  <2> QED BY <1>1, <1>6, <1>7, <2>2, <2>3, <2>4 DEF frame
<1>8. CASE c.control # "open"
  <2>1. sent = FailFullConnection(r)
      BY <1>1, <1>3, <1>8 DEF Send
  <2>2. Quiet(r, sent) /\ sent.connection = NoConnection /\ sent.coordinator = r.coordinator
      BY <1>4, <2>1, FailIs
  <2>3. ~Sent(r, sent)
      BY <2>2 DEF Quiet, Sent
  <2> QED BY <1>3, <1>5, <1>8, <2>2, <2>3 DEF Quiet
<1> QED BY <1>7, <1>8

\* The data socket closes, or is refused.
LEMMA DataGoneIs ==
    ASSUME NEW p, Sound(p), p.connection.current, NEW q, q \in {DataClosed(p), DataRefused(p)}
    PROVE  \/ Quiet(p, q) /\ q.connection = NoConnection
           \/ /\ Sound(q)
              /\ q.connection \in Connection
              /\ q.connection.set = p.connection.set /\ q.connection.gen = p.connection.gen
              /\ q.connection.control = p.connection.control /\ q.connection.data = "none"
              /\ q.connection.current
              /\ q.attempt # "offered" /\ q.acks = p.acks /\ q.out = p.out
              /\ q.coordinator = p.coordinator
<1> DEFINE c == p.connection
           d == [c EXCEPT !.data = "none"]
<1>1. /\ d \in Connection /\ d.control = c.control /\ d.data = "none"
      /\ d.current = c.current /\ d.set = c.set /\ d.gen = c.gen
      /\ p.phase # "closed" /\ p.coordinator.state # "closed" /\ p.attempt # "offered"
    BY DEF Sound, PageShape, PageFence, Page, Connection
<1>2. CASE q = FailFullConnection(p)
    BY <1>2, FailIs
<1>3. CASE q # FailFullConnection(p)
  <2>1. \/ q = [p EXCEPT !.connection = d, !.grace = TRUE, !.phase = "reconnecting"]
        \/ q = [p EXCEPT !.connection = d]
      BY <1>3 DEF DataClosed, DataRefused, Sound, PageShape, Page, Connection
  <2> HIDE DEF d
  <2>2. /\ q \in Page
        /\ q.connection = d /\ q.attempt = p.attempt /\ q.acks = p.acks /\ q.out = p.out
        /\ q.coordinator = p.coordinator /\ q.phase # "closed" /\ q.offer = p.offer
      BY <1>1, <2>1, ZenonT(60) DEF Sound, PageShape, Page, Phase
  <2>3. Sound(q)
      BY <1>1, <2>2 DEF Sound, PageShape, PageFence
  <2> QED BY <1>1, <2>2, <2>3
<1> QED BY <1>2, <1>3

\* A resync of the relay: a new generation, and a data socket for it.
LEMMA ResyncRequiredIs ==
    ASSUME NEW p, Sound(p), p.connection.current, NEW g \in Gens, NEW expired \in BOOLEAN,
           NEW q, q = HandleResyncRequired(p, g, expired)
    PROVE  /\ Sound(q) /\ q.attempt # "offered" /\ q.out = p.out
           /\ q.coordinator.cursor = p.coordinator.cursor
           /\ \/ Quiet(p, q) /\ q.connection = NoConnection
              \/ /\ p.connection.gen < g
                 /\ q.coordinator.fence = g
                 /\ q.coordinator.state = "awaiting" /\ q.coordinator.pending = <<>>
                 /\ \/ q.connection = NoConnection
                    \/ /\ q.connection \in Connection /\ p.connection.control = "open"
                       /\ q.connection.set = p.connection.set /\ q.connection.gen = g
                       /\ q.connection.control = "open" /\ q.connection.data = "opening"
                       /\ q.connection.current /\ q.acks = NoAcks
<1>0. /\ p.coordinator.fence = p.connection.gen /\ p.phase # "closed"
      /\ p.attempt \notin {"reserving", "offered"} /\ p.coordinator.state # "closed"
    BY DEF Sound, PageFence
<1>1. CASE g <= p.connection.gen \/ expired
  <2>1. q = FailFullConnection(p)
      BY <1>1 DEF HandleResyncRequired
  <2>2. Quiet(p, q) /\ q.connection = NoConnection /\ q.coordinator = p.coordinator
      BY <2>1, FailIs
  <2> QED BY <1>0, <2>2 DEF Quiet
<1>2. CASE ~(g <= p.connection.gen \/ expired)
  <2> DEFINE r == [p EXCEPT !.retry = FALSE, !.watchdog = FALSE, !.grace = FALSE]
             s == FenceDeliveryGeneration(r, g)
  <2>1. /\ r \in Page
        /\ r.connection = p.connection /\ r.attempt = p.attempt /\ r.offer = p.offer
        /\ r.coordinator = p.coordinator /\ r.acks = p.acks /\ r.out = p.out
        /\ r.phase = p.phase
      BY DEF Sound, PageShape, Page
  <2>2. p.connection.gen < g
      BY <1>2 DEF Sound, PageShape, Page, Connection, Gens
  <2>3. q = ReplaceData(SyncDeliveryState(s), g)
      BY <1>2 DEF HandleResyncRequired
  <2> HIDE DEF r
  <2>4. Sound(r)
      BY <2>1, FlagsAreQuiet DEF Quiet
  <2>5. /\ s \in Page
        /\ s.coordinator.fence = g /\ PageDelivery(s.coordinator)
        /\ s.coordinator.state = "awaiting" /\ s.coordinator.pending = <<>>
        /\ s.coordinator.cursor = p.coordinator.cursor
        /\ s.connection = p.connection /\ s.attempt = p.attempt /\ s.offer = p.offer
        /\ s.acks = p.acks /\ s.out = p.out /\ s.phase = p.phase
    <3>1. /\ r.coordinator.fence < g /\ ~IsClosed(r) /\ r.coordinator.fence <= g
          /\ r.coordinator.fence # g
        BY <1>0, <2>1, <2>2 DEF IsClosed, Sound, PageShape, Page, Connection, Gens
    <3>2. /\ s \in Page
          /\ s.coordinator.fence = g /\ PageDelivery(s.coordinator)
          /\ s.coordinator.cursor = r.coordinator.cursor
          /\ \/ s.coordinator.state = "awaiting" /\ s.coordinator.pending = <<>>
             \/ r.coordinator.fence = g
          /\ s.connection = r.connection /\ s.attempt = r.attempt /\ s.offer = r.offer
          /\ s.acks = r.acks /\ s.out = r.out /\ s.phase = r.phase
        BY <2>4, <3>1, FenceIs
    <3> QED BY <2>1, <3>1, <3>2
  <2> HIDE DEF s
  <2>6. q = ReplaceData(s, g)
      BY <2>3, <2>5 DEF SyncDeliveryState
  <2>7. CASE p.connection.control = "open"
    <3> DEFINE c == p.connection
               d == [[c EXCEPT !.gen = g] EXCEPT !.data = "opening"]
    <3>1. /\ d \in Connection /\ d.control = "open" /\ d.data = "opening"
          /\ d.current = c.current /\ d.set = c.set /\ d.gen = g
      <4>1. c \in Connection /\ g \in 0 .. MaxGen
          BY Bounds DEF Sound, PageShape, Page, Gens
      <4>2. [c EXCEPT !.gen = g] \in Connection
          BY <4>1 DEF Connection
      <4> QED BY <2>7, <4>1, <4>2 DEF Connection
    <3>2. q = [s EXCEPT !.connection = d, !.acks = NoAcks, !.phase = "reconnecting"]
      <4>1. d = [[s.connection EXCEPT !.gen = g] EXCEPT !.data = "opening"]
          BY <2>5
      <4>2. s.connection \in Connection
          BY <2>5 DEF Page
      <4>3. d = [s.connection EXCEPT !.gen = g, !.data = "opening"]
          BY <4>1, <4>2 DEF Connection
      <4>4. q = [s EXCEPT !.connection.gen = g, !.connection.data = "opening",
                          !.acks = NoAcks, !.phase = "reconnecting"]
          BY <2>5, <2>6, <2>7 DEF ReplaceData
      <4> HIDE DEF d
      <4>5. s = [connection |-> s.connection, attempt |-> s.attempt, offer |-> s.offer,
                 reconnect |-> s.reconnect, retry |-> s.retry, grace |-> s.grace,
                 watchdog |-> s.watchdog, phase |-> s.phase, hostOnline |-> s.hostOnline,
                 refused |-> s.refused, blocked |-> s.blocked,
                 coordinator |-> s.coordinator, acks |-> s.acks, out |-> s.out]
          BY <2>5 DEF Page
      <4> QED BY <2>5, <4>3, <4>4 DEF Page
    <3> HIDE DEF d
    <3>3. /\ q \in Page
          /\ q.connection = d /\ q.attempt = s.attempt /\ q.acks = NoAcks /\ q.out = s.out
          /\ q.coordinator = s.coordinator /\ q.phase = "reconnecting" /\ q.offer = s.offer
        BY <2>5, <3>1, <3>2, NothingTyped, ZenonT(60) DEF Page, Phase
    <3>4. Sound(q)
        BY <1>0, <2>5, <3>1, <3>3 DEF Sound, PageShape, PageFence, NoAcks
    <3> QED BY <1>0, <2>2, <2>5, <2>7, <3>1, <3>3, <3>4
  <2>8. CASE p.connection.control # "open"
    <3> DEFINE d == Disconnect(s)
    <3>1. /\ d \in Page
          /\ d.connection = NoConnection /\ d.attempt = "none" /\ d.coordinator = s.coordinator
          /\ d.phase = s.phase /\ d.acks = NoAcks /\ d.out = s.out
        BY <2>5, NothingTyped DEF Disconnect, Page, Attempt
    <3>2. Sound(d)
        BY <1>0, <2>5, <3>1 DEF Sound, PageShape, PageFence, NoConnection, NoAcks
    <3>3. q = ScheduleReconnect(d)
        BY <2>5, <2>6, <2>8 DEF ReplaceData, FailFullConnection
    <3> HIDE DEF d
    <3>4. /\ Quiet(d, q) /\ q.connection = d.connection /\ q.attempt = d.attempt
          /\ q.coordinator = d.coordinator
        BY <3>2, <3>3, ScheduleReconnectIs
    <3> QED BY <2>2, <2>5, <3>1, <3>4 DEF Quiet
  <2> QED BY <2>7, <2>8
<1> QED BY <1>1, <1>2

-----------------------------------------------------------------------------
(* The start of a delivery *)

\* The frame that comes n-th in a delivery from first that commits at commit.
StreamFrame(first, commit, n) ==
    IF n <= commit - first THEN [kind |-> "event", seq |-> first + n]
    ELSE IF n = commit - first + 1 THEN [kind |-> "commit", seq |-> commit]
    ELSE [kind |-> "event", seq |-> first + n - 1]

\* The coordinator has accepted n of them.
Reached(c, first, commit, n) ==
    /\ c.state \in Delivering
    /\ first <= c.received
    /\ IF c.committed THEN commit <= c.received /\ n = c.received - first + 1
       ELSE c.received <= commit /\ n = c.received - first

LEMMA AcceptReaches ==
    ASSUME NEW p, Sound(p), NEW first \in Seqs, NEW commit \in Seqs, first <= commit,
           NEW n \in Nat, Reached(p.coordinator, first, commit, n),
           NEW f, f = StreamFrame(first, commit, n + 1), NEW q, Accepted(p, f, q)
    PROVE  Reached(q.coordinator, first, commit, n + 1)
<1> DEFINE c == p.coordinator
           d == q.coordinator
<1>1. c.received \in Seqs /\ c.state \in Delivering
    BY DEF Sound, PageDelivery, Reached
<1>2. c.received \in Int /\ first \in Int /\ commit \in Int /\ f.seq \in Int
    BY <1>1, Bounds DEF Seqs, StreamFrame
<1>3. /\ f.kind = "event" => f.seq = c.received + 1 /\ f.seq # c.received
      /\ f.kind = "event" /\ ~c.committed => f.seq <= commit
      /\ f.kind = "commit" => f.seq = c.received /\ f.seq = commit /\ ~c.committed
      /\ f.kind \in {"event", "commit"}
    BY <1>2 DEF Reached, StreamFrame
<1>4. /\ d.state \in Delivering /\ d.received = f.seq
      /\ \/ f.kind = "event" /\ f.seq = c.received + 1 /\ d.committed = c.committed
         \/ f.kind = "commit" /\ f.seq = c.received /\ d.committed
    BY <1>1, <1>3 DEF Accepted, Delivering
<1>5. CASE f.kind = "event"
    BY <1>2, <1>3, <1>4, <1>5 DEF Reached
<1>6. CASE f.kind = "commit"
    BY <1>2, <1>3, <1>4, <1>6 DEF Reached
<1> QED BY <1>3, <1>5, <1>6

-----------------------------------------------------------------------------
(* The frames that overtook the start: by induction over them, which is by the smallest  *)
(* counterexample.                                                                       *)

\* A set that holds 0 and the next of each of its members holds them all.
LEMMA Climb ==
    ASSUME NEW n \in Nat, NEW S, 0 \in S,
           \A m \in 0 .. n : m \in S /\ m < n => m + 1 \in S
    PROVE  n \in S
<1> DEFINE T == {m \in 0 .. n : m \notin S}
           Below == {ss \in Nat \X Nat : ss[1] < ss[2]}
<1>1. SUFFICES ASSUME T # {} PROVE FALSE
    OBVIOUS
<1>2. IsWellFoundedOn(Below, Nat)
    BY NatLessThanWellFounded DEF OpToRel
<1>3. T \subseteq Nat
    OBVIOUS
<1>4. PICK m \in T : \A k \in T : ~(<<k, m>> \in Below)
  <2> HIDE DEF T, Below
  <2> QED BY <1>1, <1>2, <1>3, WFMin
<1>5. \A k \in T : ~(k < m)
    BY <1>3, <1>4
<1>6. m - 1 \in 0 .. n /\ m - 1 \in S
    BY <1>5
<1> QED BY <1>6

TakesUpto(p, frames, n, taken) ==
    taken = [m \in 0 .. n |-> IF m = 0 THEN p ELSE AcceptFrame(taken[m - 1], frames[m])]

\* The function that TakeFrames defines exists.
LEMMA TakenExists ==
    ASSUME NEW p, NEW frames, NEW N \in Nat
    PROVE  \E taken : TakesUpto(p, frames, N, taken)
<1> DEFINE S == {n \in 0 .. N : \E taken : TakesUpto(p, frames, n, taken)}
<1>1. 0 \in S
  <2> DEFINE g == [m \in 0 .. 0 |-> p]
  <2>1. TakesUpto(p, frames, 0, g)
      BY DEF TakesUpto
  <2>2. \E taken : TakesUpto(p, frames, 0, taken)
    <3> HIDE DEF g
    <3> QED BY <2>1
  <2> QED BY <2>2
<1>2. ASSUME NEW n \in 0 .. N, n \in S, n < N PROVE n + 1 \in S
  <2>1. PICK f : TakesUpto(p, frames, n, f)
      BY <1>2
  <2> DEFINE g == [m \in 0 .. n + 1 |->
                      IF m = n + 1 THEN AcceptFrame(f[n], frames[n + 1]) ELSE f[m]]
  <2>2. \A m \in 0 .. n : f[m] = IF m = 0 THEN p ELSE AcceptFrame(f[m - 1], frames[m])
      BY <2>1 DEF TakesUpto
  <2>3. ASSUME NEW m \in 0 .. n + 1
        PROVE  g[m] = IF m = 0 THEN p ELSE AcceptFrame(g[m - 1], frames[m])
    <3>1. CASE m = n + 1
      <4>1. m # 0 /\ m - 1 = n /\ n \in 0 .. n + 1 /\ n # n + 1
          BY <3>1
      <4>2. g[m - 1] = f[n]
          BY <4>1
      <4>3. g[m] = AcceptFrame(f[n], frames[n + 1])
          BY <3>1
      <4> HIDE DEF g
      <4> QED BY <4>1, <4>2, <4>3, <3>1
    <3>2. CASE m \in 0 .. n
      <4>1. g[m] = f[m] /\ (m # 0 => g[m - 1] = f[m - 1])
          BY <3>2
      <4> HIDE DEF g
      <4> QED BY <3>2, <4>1, <2>2
    <3> QED BY <3>1, <3>2
  <2>4. TakesUpto(p, frames, n + 1, g)
    <3>1. DOMAIN g = 0 .. n + 1
        OBVIOUS
    <3>2. g = [m \in 0 .. n + 1 |-> g[m]]
        OBVIOUS
    <3> HIDE DEF g
    <3> QED BY <2>3, <3>1, <3>2 DEF TakesUpto
  <2>5. n + 1 \in 0 .. N
      BY <1>2
  <2> HIDE DEF g
  <2> QED BY <2>4, <2>5
<1>3. N \in S
  <2> HIDE DEF S
  <2> QED BY <1>1, <1>2, Climb
<1> QED BY <1>3

LEMMA TakenIs ==
    ASSUME NEW p, NEW frames, Len(frames) \in Nat
    PROVE  \E taken :
              /\ taken[0] = p
              /\ \A n \in 1 .. Len(frames) : taken[n] = AcceptFrame(taken[n - 1], frames[n])
              /\ TakeFrames(p, frames) = taken[Len(frames)]
<1> DEFINE taken == CHOOSE f : TakesUpto(p, frames, Len(frames), f)
<1>1. TakesUpto(p, frames, Len(frames), taken)
    BY TakenExists
<1>2. TakeFrames(p, frames) = taken[Len(frames)]
    BY DEF TakeFrames, TakesUpto
<1> HIDE DEF taken
<1>3. \A n \in 0 .. Len(frames) :
         taken[n] = IF n = 0 THEN p ELSE AcceptFrame(taken[n - 1], frames[n])
    BY <1>1 DEF TakesUpto
<1>4. taken[0] = p
    BY <1>3
<1>5. ASSUME NEW n \in 1 .. Len(frames) PROVE taken[n] = AcceptFrame(taken[n - 1], frames[n])
  <2>1. n \in 0 .. Len(frames) /\ n # 0
      OBVIOUS
  <2> QED BY <1>3, <2>1, Zenon
<1> QED BY <1>2, <1>4, <1>5

\* What taking frames leaves, whatever they are: all that it sends are acknowledgements.
OnlyAcks(p, out) ==
    \A i \in DOMAIN out :
        out[i] = Ack(p.connection.gen, out[i].cursor) /\ p.connection.control = "open"
Drained(p, h, q) ==
    /\ Sound(q)
    /\ p.out = <<>> => OnlyAcks(p, q.out)
    /\ q.attempt = "offered" => p.attempt = "offered" /\ q.offer = p.offer
    /\ q.connection \in {p.connection, NoConnection}
    /\ q.coordinator.fence = p.coordinator.fence
    /\ q.coordinator.state \in Delivering \cup {"resyncing"}
    /\ q.coordinator.cursor <= h /\ q.coordinator.received <= h

\* What is acknowledged meanwhile, of a delivery from first.
Spoken(p, first, q) ==
    /\ \A i \in DOMAIN q.out :
          /\ q.out[i] = Ack(p.connection.gen, q.out[i].cursor)
          /\ first <= q.out[i].cursor /\ q.out[i].cursor <= q.coordinator.received
          /\ p.acks.last <= q.out[i].cursor
    /\ \A i, j \in DOMAIN q.out : i <= j => q.out[i].cursor <= q.out[j].cursor
    /\ q.connection # NoConnection =>
          /\ p.acks.last <= q.acks.last
          /\ \A i \in DOMAIN q.out : q.out[i].cursor <= q.acks.last
          /\ q.acks.pending # NoSeq =>
                first <= q.acks.pending /\ q.acks.pending <= q.coordinator.received
InStream(p, first, commit, n, q) ==
    Reached(q.coordinator, first, commit, n) /\ Spoken(p, first, q)

LEMMA AcceptDrains ==
    ASSUME NEW p, NEW h \in Int, NEW q, Sound(p), Drained(p, h, q),
           NEW f \in DataFrame, f.kind \in {"event", "commit"}, f.seq <= h,
           NEW r, r = AcceptFrame(q, f)
    PROVE  Drained(p, h, r)
<1>1. q.coordinator.state # "idle" /\ q.coordinator.state \notin {"awaiting", "closed"}
    BY DEF Drained, Delivering
<1>2. Accepted(q, f, r)
    BY <1>1, AcceptFrameIs DEF Drained
<1>3. r.coordinator.state \in Delivering \cup {"resyncing"}
    BY <1>1, <1>2 DEF Accepted, Drained
<1>4. NoSeq <= h
  <2>1. f.seq \in Seqs
      BY FrameTyped
  <2> QED BY <2>1, Bounds DEF Seqs, NoSeq
<1>5. r.coordinator.cursor <= h /\ r.coordinator.received <= h
    BY <1>2, <1>4 DEF Accepted, Drained
<1>6. ASSUME p.out = <<>> PROVE OnlyAcks(p, r.out)
  <2>1. OnlyAcks(p, q.out) /\ q.out \in Seq(PageFrame)
        /\ q.connection \in {p.connection, NoConnection}
      BY <1>6 DEF Drained, Sound, PageShape, Page
  <2>2. \/ r.out = q.out
        \/ /\ r.out = Append(q.out, Ack(q.connection.gen, f.seq))
           /\ q.connection.control = "open"
      BY <1>2 DEF Accepted
  <2>3. CASE r.out = q.out
      BY <2>1, <2>3
  <2>4. CASE /\ r.out = Append(q.out, Ack(q.connection.gen, f.seq))
             /\ q.connection.control = "open"
    <3> DEFINE ack == Ack(q.connection.gen, f.seq)
    <3>1. q.connection = p.connection
        BY <2>1, <2>4 DEF NoConnection
    <3>2. ack = Ack(p.connection.gen, ack.cursor)
        BY <3>1 DEF Ack
    <3>3. r.out = Append(q.out, ack)
        BY <2>4
    <3> HIDE DEF ack
    <3>4. \A i \in DOMAIN r.out : r.out[i] = ack \/ (i \in DOMAIN q.out /\ r.out[i] = q.out[i])
        BY <2>1, <3>3
    <3>5. p.connection.control = "open"
        BY <2>4, <3>1
    <3> QED BY <2>1, <3>2, <3>4, <3>5 DEF OnlyAcks
  <2> QED BY <2>2, <2>3, <2>4
<1> QED BY <1>2, <1>3, <1>5, <1>6 DEF Accepted, Drained

LEMMA AcceptStreams ==
    ASSUME NEW p, NEW first \in Seqs, NEW commit \in Seqs, first <= commit, NEW n \in Nat,
           NEW q, Sound(p), Sound(q), q.connection \in {p.connection, NoConnection},
           InStream(p, first, commit, n, q),
           NEW f \in DataFrame, f = StreamFrame(first, commit, n + 1), f.seq \in Seqs,
           NEW r, Accepted(q, f, r)
    PROVE  InStream(p, first, commit, n + 1, r)
<1>1. Reached(r.coordinator, first, commit, n + 1)
    BY AcceptReaches DEF InStream
<1> DEFINE c == q.coordinator
           d == r.coordinator
<1>2. /\ c.state \in Delivering /\ d.state \in Delivering
      /\ c.received \in Seqs /\ d.received \in Seqs /\ first <= d.received
    BY <1>1 DEF InStream, Reached, Accepted, Sound, PageDelivery
<1>3. \A x \in Seqs : x \in Int
    BY Bounds DEF Seqs
<1>4. /\ d.received = f.seq /\ c.received <= f.seq
      /\ \/ /\ r.out = q.out
            /\ r.connection # NoConnection =>
                  /\ r.acks.last = q.acks.last
                  /\ r.acks.pending \in {q.acks.pending, f.seq}
         \/ /\ r.out = Append(q.out, Ack(q.connection.gen, f.seq))
            /\ q.connection.control = "open" /\ r.connection = q.connection
            /\ q.acks.last <= f.seq
            /\ r.acks.last = f.seq /\ r.acks.pending = NoSeq
  <2>1. d.state \notin {"resyncing"} /\ c.state \notin {"resyncing", "closed", "awaiting"}
      BY <1>2 DEF Delivering
  <2>2. /\ d.received = f.seq
        /\ \/ f.seq = c.received + 1
           \/ f.seq = c.received
      BY <1>2, <2>1 DEF Accepted
  <2>3. c.received <= f.seq
      BY <1>2, <1>3, <2>2
  <2> QED BY <1>2, <2>1, <2>2, <2>3 DEF Accepted
<1>5. q.out \in Seq(PageFrame) /\ q.acks \in Acks /\ p.acks \in Acks
    BY DEF Sound, PageShape, Page
<1>6. \A i \in DOMAIN q.out : q.out[i].cursor \in Int
  <2>1. ASSUME NEW i \in DOMAIN q.out PROVE q.out[i].cursor \in Int
    <3>1. q.out[i] \in PageFrame
        BY <1>5
    <3> QED BY <1>3, <3>1 DEF PageFrame, MaybeSeqs, NoSeq
  <2> QED BY <2>1
<1>7. q.acks.last \in Int /\ p.acks.last \in Int /\ f.seq \in Int /\ c.received \in Int
    BY <1>2, <1>3, <1>5, SMTT(30) DEF Acks, MaybeSeqs, NoSeq
<1>8. r.connection # NoConnection => q.connection # NoConnection
    BY DEF Accepted
<1>9. CASE /\ r.out = q.out
           /\ r.connection # NoConnection =>
                  /\ r.acks.last = q.acks.last
                  /\ r.acks.pending \in {q.acks.pending, f.seq}
  <2>1. \A i \in DOMAIN q.out : q.out[i].cursor <= d.received
      BY <1>3, <1>4, <1>6, <1>7 DEF InStream, Spoken
  <2>2. q.acks.pending # NoSeq /\ q.connection # NoConnection
           => q.acks.pending \in Int /\ q.acks.pending <= d.received
      BY <1>3, <1>4, <1>5, <1>7 DEF InStream, Spoken, Acks, MaybeSeqs
  <2>3. Spoken(p, first, r)
      BY <1>2, <1>4, <1>7, <1>8, <1>9, <2>1, <2>2 DEF InStream, Spoken
  <2> QED BY <1>1, <2>3 DEF InStream
<1>10. CASE /\ r.out = Append(q.out, Ack(q.connection.gen, f.seq))
            /\ q.connection.control = "open" /\ r.connection = q.connection
            /\ q.acks.last <= f.seq
            /\ r.acks.last = f.seq /\ r.acks.pending = NoSeq
  <2> DEFINE k == Len(q.out) + 1
             ack == Ack(q.connection.gen, f.seq)
  <2>1. q.connection = p.connection /\ q.connection # NoConnection
      BY <1>10 DEF NoConnection
  <2>2. /\ DOMAIN r.out = 1 .. k /\ DOMAIN q.out = 1 .. Len(q.out) /\ Len(q.out) \in Nat
        /\ \A i \in 1 .. Len(q.out) : r.out[i] = q.out[i]
        /\ r.out[k] = ack
      BY <1>5, <1>10
  <2>3. ack.cursor = f.seq /\ ack = Ack(p.connection.gen, ack.cursor)
      BY <2>1 DEF Ack
  <2> HIDE DEF ack
  <2>4. \A i \in DOMAIN r.out : i \in DOMAIN q.out \/ i = k
      BY <2>2
  <2>5. \A i \in DOMAIN q.out :
           /\ q.out[i] = Ack(p.connection.gen, q.out[i].cursor)
           /\ first <= q.out[i].cursor /\ q.out[i].cursor <= f.seq
           /\ p.acks.last <= q.out[i].cursor
      BY <1>4, <1>6, <1>7, <1>10, <2>1 DEF InStream, Spoken
  <2>6. p.acks.last <= f.seq
      BY <1>7, <1>10, <2>1 DEF InStream, Spoken
  <2>7. \A i \in DOMAIN r.out :
           /\ r.out[i] = Ack(p.connection.gen, r.out[i].cursor)
           /\ first <= r.out[i].cursor /\ r.out[i].cursor <= f.seq
           /\ p.acks.last <= r.out[i].cursor
    <3>1. ASSUME NEW i \in DOMAIN q.out
          PROVE  /\ r.out[i] = Ack(p.connection.gen, r.out[i].cursor)
                 /\ first <= r.out[i].cursor /\ r.out[i].cursor <= f.seq
                 /\ p.acks.last <= r.out[i].cursor
        BY <2>2, <2>5
    <3>2. /\ r.out[k] = Ack(p.connection.gen, r.out[k].cursor)
          /\ first <= r.out[k].cursor /\ r.out[k].cursor <= f.seq
          /\ p.acks.last <= r.out[k].cursor
        BY <1>2, <1>4, <1>7, <2>2, <2>3, <2>6
    <3> QED BY <2>4, <3>1, <3>2
  <2>8. ASSUME NEW i \in DOMAIN r.out, NEW j \in DOMAIN r.out, i <= j
        PROVE  r.out[i].cursor <= r.out[j].cursor
    <3>1. CASE j = k
        BY <2>2, <2>3, <2>7, <3>1
    <3>2. CASE j # k
      <4>1. i \in DOMAIN q.out /\ j \in DOMAIN q.out
          BY <2>2, <2>8, <3>2
      <4> QED BY <2>2, <2>8, <4>1 DEF InStream, Spoken
    <3> QED BY <3>1, <3>2
  <2>9. Spoken(p, first, r)
      BY <1>4, <1>10, <2>6, <2>7, <2>8 DEF Spoken
  <2> QED BY <1>1, <2>9 DEF InStream
<1> QED BY <1>4, <1>9, <1>10

LEMMA DrainIs ==
    ASSUME NEW p, NEW h \in Int, Drained(p, h, p), NEW frames \in Seq(DataFrame),
           \A i \in DOMAIN frames : frames[i].kind \in {"event", "commit"} /\ frames[i].seq <= h,
           NEW q, q = TakeFrames(p, frames)
    PROVE  /\ Drained(p, h, q)
           /\ \A first, commit \in Seqs :
                 /\ first <= commit
                 /\ \A i \in DOMAIN frames : frames[i] = StreamFrame(first, commit, i)
                 /\ InStream(p, first, commit, 0, p)
                 => InStream(p, first, commit, Len(frames), q)
<1> DEFINE N == Len(frames)
<1>1. N \in Nat /\ DOMAIN frames = 1 .. N /\ \A i \in 1 .. N : frames[i] \in DataFrame
    OBVIOUS
<1>2. PICK taken :
         /\ taken[0] = p
         /\ \A n \in 1 .. N : taken[n] = AcceptFrame(taken[n - 1], frames[n])
         /\ q = taken[N]
    BY <1>1, TakenIs
<1> HIDE DEF N
<1>3. ASSUME NEW n \in 0 .. N, n < N
      PROVE  /\ n + 1 \in 1 .. N /\ n \in Nat /\ n + 1 \in 0 .. N
             /\ taken[n + 1] = AcceptFrame(taken[n], frames[n + 1])
             /\ frames[n + 1] \in DataFrame /\ frames[n + 1].kind \in {"event", "commit"}
             /\ frames[n + 1].seq <= h
  <2>1. n + 1 \in 1 .. N /\ n \in Nat /\ n + 1 \in 0 .. N /\ (n + 1) - 1 = n
      BY <1>1, <1>3
  <2> QED BY <1>1, <1>2, <2>1
<1> DEFINE S == {n \in 0 .. N : Drained(p, h, taken[n])}
<1>4. N \in S
  <2>1. 0 \in S
      BY <1>1, <1>2
  <2>2. ASSUME NEW n \in 0 .. N, n \in S, n < N PROVE n + 1 \in S
    <3>1. Drained(p, h, taken[n])
        BY <2>2
    <3>2. Drained(p, h, taken[n + 1])
      <4>1. Sound(p)
          BY DEF Drained
      <4> QED BY <1>3, <2>2, <3>1, <4>1, AcceptDrains
    <3> QED BY <1>3, <2>2, <3>2
  <2> HIDE DEF S
  <2> QED BY <1>1, <2>1, <2>2, Climb
<1>5. ASSUME NEW first \in Seqs, NEW commit \in Seqs, first <= commit,
             \A i \in DOMAIN frames : frames[i] = StreamFrame(first, commit, i),
             InStream(p, first, commit, 0, p)
      PROVE  InStream(p, first, commit, N, q)
  <2> DEFINE R == {n \in 0 .. N : /\ Drained(p, h, taken[n])
                                  /\ InStream(p, first, commit, n, taken[n])}
  <2>1. 0 \in R
      BY <1>1, <1>2, <1>5
  <2>2. ASSUME NEW n \in 0 .. N, n \in R, n < N PROVE n + 1 \in R
    <3>1. Drained(p, h, taken[n]) /\ InStream(p, first, commit, n, taken[n]) /\ Sound(p)
        BY <2>2 DEF Drained
    <3>2. Drained(p, h, taken[n + 1])
        BY <1>3, <2>2, <3>1, AcceptDrains
    <3>3. Accepted(taken[n], frames[n + 1], taken[n + 1])
      <4>1. taken[n].coordinator.state # "idle"
          BY <3>1 DEF Drained, Delivering
      <4> QED BY <1>3, <2>2, <3>1, <4>1, AcceptFrameIs DEF Drained
    <3>4. frames[n + 1] = StreamFrame(first, commit, n + 1) /\ frames[n + 1].seq \in Seqs
        BY <1>1, <1>3, <1>5, <2>2, FrameTyped
    <3>5. InStream(p, first, commit, n + 1, taken[n + 1])
        BY <1>3, <1>5, <2>2, <3>1, <3>3, <3>4, AcceptStreams DEF Drained
    <3> QED BY <1>3, <2>2, <3>2, <3>5
  <2>3. N \in R
    <3> HIDE DEF R
    <3> QED BY <1>1, <2>1, <2>2, Climb
  <2> QED BY <1>2, <2>3
<1>6. Drained(p, h, q)
    BY <1>2, <1>4
<1> QED BY <1>5, <1>6 DEF N

\* What a start of the page's own generation does.
Started(p, f, h, q) ==
    LET c == p.coordinator
        d == q.coordinator
    IN  /\ Sound(q)
        /\ q.attempt # "offered"
        /\ q.connection \in {p.connection, NoConnection}
        /\ d.fence = c.fence
        /\ d.cursor <= h /\ d.received <= h
        /\ p.out = <<>> => OnlyAcks(p, q.out)
        /\ \/ c.state = "resyncing" /\ d = c /\ q.acks = p.acks /\ q.out = p.out
           \/ /\ c.state # "resyncing" /\ f.mode = "warm" /\ f.cut # c.cursor
              /\ d.state = "resyncing" /\ q.out = p.out
              /\ q.connection # NoConnection => q.acks = p.acks
           \/ /\ d.state \in Delivering \cup {"resyncing"}
              /\ \A commit \in Seqs :
                    /\ c.state = "awaiting" /\ p.out = <<>> /\ p.acks.pending = NoSeq
                    /\ f.cut <= commit
                    /\ \A i \in DOMAIN c.pending : c.pending[i] = StreamFrame(f.cut, commit, i)
                    => InStream(p, f.cut, commit, Len(c.pending), q)

LEMMA StartTyped ==
    ASSUME NEW f \in ControlFrame, f.kind = "start"
    PROVE  f.mode \in {"warm", "snapshot"} /\ f.gen \in Gens /\ f.cut \in Seqs
BY DEF ControlFrame

LEMMA StartDeliveryIs ==
    ASSUME NEW p, Sound(p), p.connection.current,
           NEW f \in ControlFrame, f.kind = "start", f.gen = p.connection.gen,
           NEW h \in Int, f.cut <= h, p.coordinator.cursor <= h, p.coordinator.received <= h,
           \A i \in DOMAIN p.coordinator.pending : p.coordinator.pending[i].seq <= h,
           NEW q, q = StartDelivery(p, f)
    PROVE  Started(p, f, h, q)
<1> DEFINE c == p.coordinator
           state == IF f.mode = "warm" THEN "replaying" ELSE "restoring"
           candidate == IF f.mode = "warm" THEN "live" ELSE "none"
           b == [c EXCEPT !.received = f.cut, !.pending = <<>>, !.state = state,
                          !.candidate = candidate]
           begun == [p EXCEPT !.coordinator = b]
<1>1. /\ c.fence = f.gen /\ c.state \notin {"closed", "idle"} /\ p.attempt # "offered"
      /\ f.cut \in Seqs /\ f.cut \in MaybeSeqs /\ ~(f.gen < c.fence)
      /\ c \in Coordinator /\ p \in Page
    BY Bounds, StartTyped
       DEF Sound, PageShape, PageFence, PageDelivery, Page, Gens, MaybeSeqs, Coordinator
<1>0. OnlyAcks(p, <<>>)
    BY DEF OnlyAcks
<1>2. CASE c.state = "resyncing"
  <2>1. q = p
      BY <1>2 DEF StartDelivery
  <2> QED BY <1>0, <1>1, <1>2, <2>1 DEF Started
<1>3. CASE c.state # "resyncing" /\ f.mode = "warm" /\ f.cut # c.cursor
  <2>1. q = RequestResync(p, "journal-gap")
      BY <1>1, <1>3 DEF StartDelivery
  <2>2. /\ Sound(q) /\ q.out = p.out
        /\ q.coordinator = NoDelivery(c, "resyncing")
        /\ q.connection = NoConnection \/ (q.connection = p.connection /\ q.acks = p.acks)
        /\ q.attempt = "offered" => p.attempt = "offered"
      BY <1>1, <2>1, ResyncIs
  <2>3. /\ q.coordinator.state = "resyncing" /\ q.coordinator.fence = c.fence
        /\ q.coordinator.cursor = c.cursor /\ q.coordinator.received = NoSeq
      BY <1>1, <2>2, NoDeliveryIs
  <2>4. NoSeq <= h
      BY <1>1, Bounds DEF NoSeq, Seqs
  <2> QED BY <1>0, <1>1, <1>3, <2>2, <2>3, <2>4 DEF Started
<1>4. CASE c.state # "resyncing" /\ ~(f.mode = "warm" /\ f.cut # c.cursor)
  <2>1. q = TakeFrames(begun, c.pending)
      BY <1>1, <1>4 DEF StartDelivery
  <2>2. /\ b \in Coordinator /\ b.state = state /\ b.candidate = candidate
        /\ b.received = f.cut /\ b.pending = <<>> /\ b.fence = c.fence
        /\ b.cursor = c.cursor /\ b.committed = c.committed
    <3>1. <<>> \in Seq(DataFrame)
        OBVIOUS
    <3> QED BY <1>1, <3>1 DEF Coordinator
  <2>3. state \in {"replaying", "restoring"}
      OBVIOUS
  <2> HIDE DEF b, state
  <2>4. PageDelivery(b)
      BY <1>1, <2>2, <2>3 DEF PageDelivery, Delivering
  <2>5. b.state # "closed" /\ c.state # "closed"
      BY <1>1, <2>2, <2>3
  <2>6. /\ Sound(begun) /\ begun.coordinator = b /\ begun.connection = p.connection
        /\ begun.attempt = p.attempt /\ begun.offer = p.offer /\ begun.acks = p.acks
        /\ begun.out = p.out
      BY <2>2, <2>4, <2>5, CoordinatorChanges
  <2> HIDE DEF begun
  <2>7. Drained(begun, h, begun)
      BY <1>1, <2>2, <2>3, <2>6 DEF Drained, Delivering, OnlyAcks
  <2>8. /\ c.pending \in Seq(DataFrame)
        /\ \A i \in DOMAIN c.pending :
              c.pending[i].kind \in {"event", "commit"} /\ c.pending[i].seq <= h
      BY <1>1 DEF Coordinator, Sound, PageDelivery
  <2>9. /\ Drained(begun, h, q)
        /\ \A first, commit \in Seqs :
              /\ first <= commit
              /\ \A i \in DOMAIN c.pending : c.pending[i] = StreamFrame(first, commit, i)
              /\ InStream(begun, first, commit, 0, begun)
              => InStream(begun, first, commit, Len(c.pending), q)
      BY <2>1, <2>7, <2>8, DrainIs
  <2>10. ASSUME NEW commit \in Seqs, c.state = "awaiting", p.out = <<>>,
                p.acks.pending = NoSeq, f.cut <= commit,
                \A i \in DOMAIN c.pending : c.pending[i] = StreamFrame(f.cut, commit, i)
         PROVE  InStream(p, f.cut, commit, Len(c.pending), q)
    <3>1. Reached(b, f.cut, commit, 0)
      <4>1. b.state \in Delivering /\ ~b.committed
          BY <2>2, <2>3, <2>10 DEF Delivering, Sound, PageDelivery
      <4>2. f.cut \in Int
          BY <1>1, Bounds DEF Seqs
      <4> QED BY <2>2, <2>10, <4>1, <4>2 DEF Reached
    <3>2. Spoken(begun, f.cut, begun)
      <4>1. DOMAIN begun.out = {} /\ begun.acks.pending = NoSeq
          BY <2>6, <2>10
      <4>2. begun.acks.last <= begun.acks.last
          BY <2>6 DEF Sound, PageShape, Page, Acks, MaybeSeqs, Seqs, NoSeq
      <4> QED BY <4>1, <4>2 DEF Spoken
    <3>3. InStream(begun, f.cut, commit, Len(c.pending), q)
        BY <1>1, <2>6, <2>9, <2>10, <3>1, <3>2 DEF InStream
    <3> QED BY <2>6, <3>3 DEF InStream, Spoken
  <2>11. /\ Sound(q) /\ q.attempt # "offered"
         /\ q.connection \in {p.connection, NoConnection}
         /\ q.coordinator.fence = c.fence
         /\ q.coordinator.cursor <= h /\ q.coordinator.received <= h
         /\ q.coordinator.state \in Delivering \cup {"resyncing"}
         /\ p.out = <<>> => OnlyAcks(p, q.out)
      BY <1>1, <2>2, <2>6, <2>9 DEF Drained, OnlyAcks
  <2> QED BY <2>10, <2>11 DEF Started
<1> QED BY <1>2, <1>3, <1>4

LEMMA HandleStartIs ==
    ASSUME NEW p, Sound(p), p.connection.current,
           NEW f \in ControlFrame, f.kind = "start",
           NEW h \in Int, f.cut <= h, p.coordinator.cursor <= h, p.coordinator.received <= h,
           \A i \in DOMAIN p.coordinator.pending : p.coordinator.pending[i].seq <= h,
           NEW q, q = HandleStart(p, f)
    PROVE  \/ f.gen < p.connection.gen /\ q = p
           \/ f.gen > p.connection.gen /\ Quiet(p, q) /\ q.connection = NoConnection
           \/ f.gen = p.connection.gen /\ Started(p, f, h, q)
<1>1. CASE f.gen < p.connection.gen
    BY <1>1 DEF HandleStart
<1>2. CASE f.gen > p.connection.gen
    BY <1>2, FailIs, StartTyped DEF HandleStart, Sound, PageShape, Page, Connection, Gens
<1>3. CASE f.gen = p.connection.gen
  <2>1. ~(f.gen < p.connection.gen) /\ ~(f.gen > p.connection.gen)
      BY <1>3, StartTyped DEF Gens
  <2>2. ASSUME NEW r, Started(p, f, h, r), q \in {r, SyncDeliveryState(r)}
        PROVE  Started(p, f, h, q)
    <3>1. CASE q = r
        BY <2>2, <3>1
    <3>2. CASE q = SyncDeliveryState(r)
      <4>1. Sound(r)
          BY <2>2 DEF Started
      <4>2. /\ Sound(q) /\ q.out = r.out
            /\ q.connection = r.connection /\ q.coordinator = r.coordinator
            /\ q.acks = r.acks /\ q.attempt = r.attempt
          BY <3>2, <4>1, SyncIs DEF Quiet
      <4> QED BY <2>2, <4>2 DEF Started, InStream, Spoken
    <3> QED BY <2>2, <3>1, <3>2
  <2>3. ASSUME NEW w \in Page,
               w.connection = p.connection, w.attempt = p.attempt, w.offer = p.offer,
               w.coordinator = p.coordinator, w.acks = p.acks, w.out = p.out,
               w.phase = "closed" <=> p.phase = "closed"
        PROVE  Started(p, f, h, StartDelivery(w, f))
    <3> DEFINE r == StartDelivery(w, f)
    <3>1. Sound(w)
        BY <2>3, FlagsAreQuiet DEF Quiet
    <3>2. Started(w, f, h, r)
        BY <1>3, <2>3, <3>1, StartDeliveryIs
    <3> HIDE DEF r
    <3>3. Started(p, f, h, r)
        BY <2>3, <3>2 DEF Started, InStream, Spoken, OnlyAcks
    <3> QED BY <3>3 DEF r
  <2>4. CASE f.mode = "warm"
    <3> DEFINE w == [p EXCEPT !.hostOnline = TRUE]
    <3>1. /\ w \in Page
          /\ w.connection = p.connection /\ w.attempt = p.attempt /\ w.offer = p.offer
          /\ w.coordinator = p.coordinator /\ w.acks = p.acks /\ w.out = p.out
          /\ w.phase = p.phase
        BY DEF Sound, PageShape, Page
    <3>2. q = SyncDeliveryState(StartDelivery(w, f))
        BY <2>1, <2>4 DEF HandleStart
    <3> HIDE DEF w
    <3>3. Started(p, f, h, StartDelivery(w, f))
        BY <2>3, <3>1
    <3> QED BY <1>3, <2>2, <3>2, <3>3
  <2>5. CASE f.mode # "warm"
    <3> DEFINE w == [p EXCEPT !.watchdog = FALSE, !.hostOnline = TRUE, !.phase = "restoring"]
    <3>1. /\ w \in Page
          /\ w.connection = p.connection /\ w.attempt = p.attempt /\ w.offer = p.offer
          /\ w.coordinator = p.coordinator /\ w.acks = p.acks /\ w.out = p.out
          /\ w.phase # "closed" /\ p.phase # "closed"
        BY DEF Sound, PageShape, PageFence, Page, Phase
    <3>2. q \in {StartDelivery(w, f), SyncDeliveryState(StartDelivery(w, f))}
        BY <2>1, <2>5 DEF HandleStart
    <3> HIDE DEF w
    <3>3. Started(p, f, h, StartDelivery(w, f))
        BY <2>3, <3>1
    <3> QED BY <1>3, <2>2, <3>2, <3>3
  <2> QED BY <2>4, <2>5
<1> QED BY <1>1, <1>2, <1>3, StartTyped DEF Sound, PageShape, Page, Connection, Gens

-----------------------------------------------------------------------------
(* What a callback makes of the page, and which frame it takes off a wire *)

Kept(ctl, dat) == ctl = ctlWire /\ dat = dataWire
Heard(ctl, dat) == ctlWire.frames # <<>> /\ ctl = Untold(ctlWire) /\ dat = dataWire
TakenData(ctl, dat) == dataWire.frames # <<>> /\ ctl = ctlWire /\ dat = Untold(dataWire)

\* It stays on its connection or leaves it.
Stays(q, ctl, dat) ==
    /\ Quiet(page, q)
    /\ \/ Kept(ctl, dat)
       \/ /\ Heard(ctl, dat)
          /\ LET f == Head(ctlWire.frames) IN
             q.connection.current => \/ f.kind \in {"welcome", "offline"}
                                     \/ f.kind = "start" /\ f.gen < page.connection.gen
       \/ TakenData(ctl, dat) /\ ~q.connection.current
\* It goes over to the connection set it has reserved.
Activates(q, ctl, dat) ==
    LET c == page.coordinator
        d == q.coordinator
    IN  /\ Kept(ctl, dat) /\ page.attempt = "offered"
        /\ page.offer.set \in Sets /\ page.offer.gen \in Gens
        /\ Sound(q) /\ q.out = <<>>
        /\ q.connection = NewConnection(page) /\ q.attempt = "control" /\ q.acks = NoAcks
        /\ d.fence = page.offer.gen /\ d.cursor = c.cursor
        /\ \/ c.fence < page.offer.gen /\ d.state = "awaiting" /\ d.pending = <<>>
           \/ c.fence = page.offer.gen /\ d = c
\* The connection is another of the same set.
Changes(q, gen_, control_, data_) ==
    /\ q.connection \in Connection
    /\ q.connection.set = page.connection.set /\ q.connection.gen = gen_
    /\ q.connection.control = control_ /\ q.connection.data = data_
    /\ q.connection.current
OpensControl(q, ctl, dat) ==
    /\ Heard(ctl, dat) /\ Head(ctlWire.frames).kind = "open" /\ page.connection.current
    /\ Sound(q) /\ q.out = <<>>
    /\ Changes(q, page.connection.gen, "open", "opening")
    /\ q.attempt = "data" /\ q.acks = page.acks /\ q.coordinator = page.coordinator
OpensData(q, ctl, dat) ==
    /\ TakenData(ctl, dat) /\ Head(dataWire.frames).kind = "open" /\ page.connection.current
    /\ Sound(q) /\ q.attempt # "offered" /\ q.coordinator = page.coordinator
    /\ \/ /\ page.connection.control = "open"
          /\ Changes(q, page.connection.gen, "open", "open")
          /\ q.out = <<AttachOf(page.connection.gen, page.coordinator.cursor)>>
          /\ q.acks.last = page.coordinator.cursor /\ q.acks.pending = NoSeq
       \/ q.connection = NoConnection /\ q.out = <<>>
DropsData(q, ctl, dat) ==
    /\ TakenData(ctl, dat) /\ page.connection.current
    /\ Head(dataWire.frames).kind \in {"closed", "refused"}
    /\ Sound(q) /\ q.out = <<>> /\ q.attempt # "offered"
    /\ Changes(q, page.connection.gen, page.connection.control, "none")
    /\ q.acks = page.acks /\ q.coordinator = page.coordinator
Resyncs(q, ctl, dat) ==
    LET f == Head(ctlWire.frames) IN
    /\ Heard(ctl, dat) /\ f.kind = "resync" /\ page.connection.current
    /\ Sound(q) /\ q.attempt # "offered" /\ q.out = <<>>
    /\ page.connection.gen < f.gen
    /\ q.coordinator.fence = f.gen /\ q.coordinator.cursor = page.coordinator.cursor
    /\ q.coordinator.state = "awaiting" /\ q.coordinator.pending = <<>>
    /\ \/ q.connection = NoConnection
       \/ /\ page.connection.control = "open" /\ Changes(q, f.gen, "open", "opening")
          /\ q.acks = NoAcks
Starts(q, ctl, dat, h) ==
    LET f == Head(ctlWire.frames) IN
    /\ Heard(ctl, dat) /\ f.kind = "start" /\ page.connection.current
    /\ f.gen = page.connection.gen /\ Started(page, f, h, q)
Takes(q, ctl, dat) ==
    LET f == Head(dataWire.frames) IN
    /\ TakenData(ctl, dat) /\ f.kind \in {"event", "commit"} /\ page.connection.current
    /\ Accepted(page, f, q)
Flushes(q, ctl, dat) ==
    /\ Kept(ctl, dat) /\ page.connection.current
    /\ Sound(q) /\ q.coordinator = page.coordinator /\ q.attempt # "offered"
    /\ q.connection = page.connection \/ q.connection = NoConnection
    /\ \/ /\ q.out = <<>>
          /\ q.connection # NoConnection => q.acks.last = page.acks.last /\ q.acks.pending = NoSeq
       \/ /\ q.out = <<Ack(page.connection.gen, page.acks.pending)>>
          /\ page.acks.pending # NoSeq
          /\ page.connection.control = "open" /\ q.connection = page.connection
          /\ q.acks.last = page.acks.pending /\ q.acks.pending = NoSeq

Outcome(q, ctl, dat, h) ==
    \/ Stays(q, ctl, dat) \/ Activates(q, ctl, dat) \/ OpensControl(q, ctl, dat)
    \/ OpensData(q, ctl, dat) \/ DropsData(q, ctl, dat) \/ Resyncs(q, ctl, dat)
    \/ Starts(q, ctl, dat, h) \/ Takes(q, ctl, dat) \/ Flushes(q, ctl, dat)

\* Sequence numbers that the page has and that are on their way to it.
Behind(h) ==
    /\ page.coordinator.cursor <= h /\ page.coordinator.received <= h
    /\ \A i \in DOMAIN page.coordinator.pending : page.coordinator.pending[i].seq <= h
    /\ \A i \in DOMAIN ctlWire.frames :
          ctlWire.frames[i].kind = "start" => ctlWire.frames[i].cut <= h
PageInv == Sound(page) /\ page.out = <<>>
Frames ==
    /\ ctlWire \in [set : 0 .. MaxSets, gen : 0 .. MaxGen, frames : Seq(ControlFrame)]
    /\ dataWire \in [set : 0 .. MaxSets, gen : 0 .. MaxGen, frames : Seq(DataFrame)]
    /\ up \in Seq(PageFrame)
    /\ upgrades \subseteq Ticket

LEMMA StayingIsQuiet ==
    ASSUME NEW q, Quiet(page, q), NEW ctl, NEW dat, Kept(ctl, dat) PROVE Stays(q, ctl, dat)
BY DEF Stays

LEMMA NotListening ==
    ASSUME PageInv PROVE Quiet(page, page)
BY FlagsAreQuiet DEF PageInv, Sound, PageShape

LEMMA FramesHead ==
    ASSUME Frames
    PROVE  /\ ctlWire.frames # <<>> => Head(ctlWire.frames) \in ControlFrame
                                       /\ Head(ctlWire.frames) = ctlWire.frames[1]
                                       /\ 1 \in DOMAIN ctlWire.frames
           /\ dataWire.frames # <<>> => Head(dataWire.frames) \in DataFrame
                                        /\ Head(dataWire.frames) = dataWire.frames[1]
                                        /\ 1 \in DOMAIN dataWire.frames
<1>1. ctlWire.frames \in Seq(ControlFrame) /\ dataWire.frames \in Seq(DataFrame)
    BY DEF Frames
<1> QED BY <1>1

\* A frame of the control socket.
LEMMA ControlOutcome ==
    ASSUME PageInv, Frames, NEW h \in Int, Behind(h), NEW expired \in BOOLEAN,
           ctlWire.frames # <<>>, NEW q, q = ControlEvent(page, Head(ctlWire.frames), expired)
    PROVE  Outcome(q, Untold(ctlWire), dataWire, h)
<1> DEFINE f == Head(ctlWire.frames)
           c == page.connection
<1>1. f \in ControlFrame /\ f = ctlWire.frames[1] /\ 1 \in DOMAIN ctlWire.frames
    BY FramesHead
<1>2. Sound(page) /\ page.out = <<>> /\ Heard(Untold(ctlWire), dataWire)
    BY DEF PageInv, Heard
<1> HIDE DEF f
<1>3. CASE ~c.current
  <2>1. q = page
      BY <1>3 DEF ControlEvent, f
  <2> QED BY <1>2, <1>3, <2>1, NotListening DEF Outcome, Stays
<1>4. CASE c.current
  <2>1. page.phase # "closed" /\ page.attempt # "offered" /\ page.coordinator.state # "closed"
      BY <1>2, <1>4 DEF Sound, PageFence
  <2>2. ASSUME Quiet(page, q), q.connection = NoConnection
        PROVE  Outcome(q, Untold(ctlWire), dataWire, h)
      BY <1>2, <2>2 DEF Outcome, Stays, NoConnection
  <2>3. CASE f.kind = "open"
    <3>1. q = ControlOpen(page)
        BY <1>4, <2>3 DEF ControlEvent, f
    <3>2. OpensControl(q, Untold(ctlWire), dataWire)
        BY <1>2, <1>4, <2>3, <3>1, ControlOpenIs DEF OpensControl, Changes, f
    <3> QED BY <3>2 DEF Outcome
  <2>4. CASE f.kind = "refused"
    <3>1. q = FailFullConnection(page)
        BY <1>4, <2>4 DEF ControlEvent, f
    <3> QED BY <1>2, <2>2, <3>1, FailIs
  <2>5. CASE f.kind = "closed"
    <3>1. q = ControlClosed(page, f.why)
        BY <1>4, <2>5 DEF ControlEvent, f
    <3>2. Quiet(page, q)
        BY <1>2, <2>1, <3>1, ControlClosedIsQuiet
    <3>3. q.connection = NoConnection
      <4>1. CASE f.why = "replaced"
        <5>1. Disconnect(page).connection = NoConnection /\ Disconnect(page) \in Page
            BY <1>2, DisconnectIs DEF Quiet, Sound, PageShape
        <5> QED BY <3>1, <4>1, <5>1 DEF ControlClosed, Page
      <4>2. CASE f.why # "replaced"
          BY <1>2, <3>1, <4>2, FailIs DEF ControlClosed
      <4> QED BY <4>1, <4>2
    <3> QED BY <2>2, <3>2, <3>3
  <2>6. CASE f.kind = "welcome"
    <3>1. q = AcceptWelcome(page, f)
        BY <1>4, <2>6 DEF ControlEvent, f
    <3>2. Quiet(page, q)
        BY <1>2, <2>1, <3>1, WelcomeIsQuiet
    <3> QED BY <1>2, <2>6, <3>2 DEF Outcome, Stays, f
  <2>7. CASE f.kind = "resync"
    <3>1. q = HandleResyncRequired(page, f.gen, expired) /\ f.gen \in Gens
        BY <1>1, <1>4, <2>7 DEF ControlEvent, f, ControlFrame
    <3>2. /\ Sound(q) /\ q.attempt # "offered" /\ q.out = page.out
          /\ q.coordinator.cursor = page.coordinator.cursor
          /\ \/ Quiet(page, q) /\ q.connection = NoConnection
             \/ /\ c.gen < f.gen
                /\ q.coordinator.fence = f.gen
                /\ q.coordinator.state = "awaiting" /\ q.coordinator.pending = <<>>
                /\ \/ q.connection = NoConnection
                   \/ /\ q.connection \in Connection /\ c.control = "open"
                      /\ q.connection.set = c.set /\ q.connection.gen = f.gen
                      /\ q.connection.control = "open" /\ q.connection.data = "opening"
                      /\ q.connection.current /\ q.acks = NoAcks
        BY <1>2, <1>4, <3>1, ResyncRequiredIs
    <3>3. CASE Quiet(page, q) /\ q.connection = NoConnection
        BY <2>2, <3>3
    <3>4. CASE ~(Quiet(page, q) /\ q.connection = NoConnection)
        BY <1>2, <1>4, <2>7, <3>2, <3>4 DEF Outcome, Resyncs, Changes, f
    <3> QED BY <3>3, <3>4
  <2>8. CASE f.kind = "start"
    <3>1. q = HandleStart(page, f)
        BY <1>4, <2>8 DEF ControlEvent, f
    <3>2. \/ f.gen < c.gen /\ q = page
          \/ f.gen > c.gen /\ Quiet(page, q) /\ q.connection = NoConnection
          \/ f.gen = c.gen /\ Started(page, f, h, q)
        BY <1>1, <1>2, <1>4, <2>8, <3>1, HandleStartIs DEF Behind
    <3>3. CASE f.gen < c.gen /\ q = page
        BY <1>2, <2>8, <3>3, NotListening DEF Outcome, Stays, f
    <3>4. CASE f.gen = c.gen /\ Started(page, f, h, q)
        BY <1>2, <1>4, <2>8, <3>4 DEF Outcome, Starts, f
    <3> QED BY <2>2, <3>2, <3>3, <3>4
  <2>9. CASE f.kind = "offline"
    <3>1. q = HostOffline(page)
        BY <1>4, <2>9 DEF ControlEvent, f
    <3>2. Quiet(page, q)
        BY <1>2, <2>1, <3>1, OfflineIsQuiet
    <3> QED BY <1>2, <2>9, <3>2 DEF Outcome, Stays, f
  <2>10. f.kind \in {"open", "refused", "closed", "welcome", "offline", "resync", "start"}
      BY <1>1 DEF ControlFrame
  <2> QED BY <2>3, <2>4, <2>5, <2>6, <2>7, <2>8, <2>9, <2>10
<1> QED BY <1>3, <1>4

\* A frame of the data socket.
LEMMA DataOutcome ==
    ASSUME PageInv, Frames, NEW h, dataWire.frames # <<>>,
           NEW q, q = DataEvent(page, Head(dataWire.frames))
    PROVE  Outcome(q, ctlWire, Untold(dataWire), h)
<1> DEFINE f == Head(dataWire.frames)
           c == page.connection
<1>1. f \in DataFrame
    BY FramesHead
<1>2. Sound(page) /\ page.out = <<>> /\ TakenData(ctlWire, Untold(dataWire))
    BY DEF PageInv, TakenData
<1> HIDE DEF f
<1>3. CASE ~c.current
  <2>1. q = page
      BY <1>3 DEF DataEvent, f
  <2> QED BY <1>2, <1>3, <2>1, NotListening DEF Outcome, Stays
<1>4. CASE c.current
  <2>1. CASE f.kind = "open"
    <3>1. q = DataOpen(page)
        BY <1>4, <2>1 DEF DataEvent, f
    <3>2. /\ Sound(q) /\ q.coordinator = page.coordinator
          /\ q.attempt # "offered"
          /\ \/ /\ c.control = "open"
                /\ q.connection \in Connection
                /\ q.connection.set = c.set /\ q.connection.gen = c.gen
                /\ q.connection.control = "open" /\ q.connection.data = "open"
                /\ q.connection.current
                /\ q.out = Append(page.out, AttachOf(c.gen, page.coordinator.cursor))
                /\ q.acks.last = page.coordinator.cursor /\ q.acks.pending = NoSeq
             \/ c.control # "open" /\ q.connection = NoConnection /\ q.out = page.out
        BY <1>2, <1>4, <3>1, DataOpenIs
    <3>3. \A x : Append(<<>>, x) = <<x>>
        OBVIOUS
    <3> QED BY <1>2, <1>4, <2>1, <3>2, <3>3 DEF Outcome, OpensData, Changes, f
  <2>2. CASE f.kind \in {"closed", "refused"}
    <3>1. q \in {DataClosed(page), DataRefused(page)}
        BY <1>4, <2>2 DEF DataEvent, f
    <3>2. \/ Quiet(page, q) /\ q.connection = NoConnection
          \/ /\ Sound(q)
             /\ q.connection \in Connection
             /\ q.connection.set = c.set /\ q.connection.gen = c.gen
             /\ q.connection.control = c.control /\ q.connection.data = "none"
             /\ q.connection.current
             /\ q.attempt # "offered" /\ q.acks = page.acks /\ q.out = page.out
             /\ q.coordinator = page.coordinator
        BY <1>2, <1>4, <3>1, DataGoneIs
    <3>3. CASE Quiet(page, q) /\ q.connection = NoConnection
        BY <1>2, <3>3 DEF Outcome, Stays, NoConnection
    <3>4. CASE ~(Quiet(page, q) /\ q.connection = NoConnection)
        BY <1>2, <1>4, <2>2, <3>2, <3>4 DEF Outcome, DropsData, Changes, f
    <3> QED BY <3>3, <3>4
  <2>3. CASE f.kind \in {"event", "commit"}
    <3> DEFINE r == AcceptFrame(page, f)
    <3>1. q = SyncDeliveryState(r)
        BY <1>4, <2>3 DEF DataEvent, f
    <3>2. page.coordinator.state # "idle"
        BY <1>2, <1>4 DEF Sound, PageShape, PageFence, PageDelivery, Gens
    <3>3. Accepted(page, f, r)
        BY <1>1, <1>2, <2>3, <3>2, AcceptFrameIs
    <3> HIDE DEF r
    <3>4. /\ Sound(q) /\ q.out = r.out
          /\ q.connection = r.connection /\ q.coordinator = r.coordinator
          /\ q.acks = r.acks /\ q.attempt = r.attempt /\ q.offer = r.offer
        BY <3>1, <3>3, SyncIs DEF Accepted, Quiet
    <3>5. Accepted(page, f, q)
        BY <3>3, <3>4 DEF Accepted
    <3> QED BY <1>2, <1>4, <2>3, <3>5 DEF Outcome, Takes, f
  <2>4. f.kind \in {"open", "refused", "closed", "event", "commit"}
      BY <1>1 DEF DataFrame
  <2> QED BY <2>1, <2>2, <2>3, <2>4
<1> QED BY <1>3, <1>4

\* The timer of the acknowledgements.
LEMMA AckTimerOutcome ==
    ASSUME PageInv, NEW h, NEW q, q = AckTimer(page)
    PROVE  Outcome(q, ctlWire, dataWire, h)
<1>0. Sound(page) /\ page.out = <<>>
    BY DEF PageInv
<1>1. CASE page.connection.current
  <2>1. q = Flush(page) /\ page.attempt # "offered"
      BY <1>0, <1>1 DEF AckTimer, Sound, PageFence
  <2>2. /\ Sound(q) /\ q.coordinator = page.coordinator
        /\ q.attempt = "offered" => page.attempt = "offered" /\ q.offer = page.offer
        /\ q.connection = page.connection \/ q.connection = NoConnection
        /\ \/ /\ q.out = page.out
              /\ q.connection # NoConnection =>
                    /\ page.acks.pending = NoSeq
                    /\ q.acks.last = page.acks.last /\ q.acks.pending = NoSeq
           \/ /\ q.out = Append(page.out, Ack(page.connection.gen, page.acks.pending))
              /\ page.acks.pending # NoSeq
              /\ page.connection.control = "open" /\ q.connection = page.connection
              /\ q.acks.last = page.acks.pending /\ q.acks.pending = NoSeq
      BY <1>0, <2>1, FlushIs
  <2>3. \A x : Append(<<>>, x) = <<x>>
      OBVIOUS
  <2> QED BY <1>0, <1>1, <2>1, <2>2, <2>3 DEF Outcome, Flushes, Kept
<1>2. CASE ~page.connection.current
  <2> DEFINE a == [page.acks EXCEPT !.timer = FALSE]
  <2>1. a \in Acks /\ a.pending = page.acks.pending /\ a.last = page.acks.last
      BY <1>0 DEF Sound, PageShape, Page, Acks
  <2>2. q = [page EXCEPT !.acks = a]
      BY <1>0, <1>2 DEF AckTimer, Sound, PageShape, Page
  <2> HIDE DEF a
  <2>3. /\ q \in Page
        /\ q.connection = page.connection /\ q.attempt = page.attempt /\ q.offer = page.offer
        /\ q.coordinator = page.coordinator /\ q.acks = a /\ q.out = page.out
        /\ q.phase = page.phase
      BY <1>0, <2>1, <2>2 DEF Sound, PageShape, Page
  <2>4. Sound(q)
      BY <1>0, <2>1, <2>3 DEF Sound, PageShape, PageFence
  <2>5. Quiet(page, q)
      BY <1>2, <2>3, <2>4 DEF Quiet, Remains
  <2> QED BY <2>5, StayingIsQuiet DEF Outcome, Kept
<1> QED BY <1>1, <1>2

PageActions ==
    \/ Begin \/ ActivateConnection \/ Sockets \/ Waits \/ Reconnects \/ Retries
    \/ RestoreEnds \/ ReservationFails \/ ReservationRefused \/ ControlSeenClosing
    \/ RestoreErrs \/ Heartbeats \/ UserReconnects \/ UserCloses

LEMMA PageOutcome ==
    ASSUME PageInv, Frames, NEW h \in Int, Behind(h), PageActions
    PROVE  \E q, ctl, dat : PageBecomes(q, ctl, dat) /\ Outcome(q, ctl, dat, h)
<1>0. Sound(page) /\ page.out = <<>>
    BY DEF PageInv
<1>1. ASSUME NEW q, Quiet(page, q), Runs(q)
      PROVE  \E r, ctl, dat : PageBecomes(r, ctl, dat) /\ Outcome(r, ctl, dat, h)
    BY <1>1 DEF Runs, Outcome, Stays, Kept
<1>2. CASE Sockets
  <2>1. ASSUME NEW expired \in BOOLEAN, ControlArrives(expired)
        PROVE  \E q, ctl, dat : PageBecomes(q, ctl, dat) /\ Outcome(q, ctl, dat, h)
    <3> DEFINE q == ControlEvent(page, Head(ctlWire.frames), expired)
    <3>1. PageBecomes(q, Untold(ctlWire), dataWire) /\ ctlWire.frames # <<>>
        BY <2>1 DEF ControlArrives
    <3> HIDE DEF q
    <3>2. Outcome(q, Untold(ctlWire), dataWire, h)
        BY <3>1, ControlOutcome DEF q
    <3> QED BY <3>1, <3>2
  <2>2. ASSUME DataArrives
        PROVE  \E q, ctl, dat : PageBecomes(q, ctl, dat) /\ Outcome(q, ctl, dat, h)
    <3> DEFINE q == DataEvent(page, Head(dataWire.frames))
    <3>1. PageBecomes(q, ctlWire, Untold(dataWire)) /\ dataWire.frames # <<>>
        BY <2>2 DEF DataArrives
    <3> HIDE DEF q
    <3>2. Outcome(q, ctlWire, Untold(dataWire), h)
        BY <3>1, DataOutcome DEF q
    <3> QED BY <3>1, <3>2
  <2> QED BY <1>2, <2>1, <2>2 DEF Sockets
<1>3. CASE ActivateConnection
  <2> DEFINE q == Activate(page)
  <2>1. PageBecomes(q, ctlWire, dataWire) /\ page.attempt = "offered"
      BY <1>3 DEF ActivateConnection, Runs
  <2> HIDE DEF q
  <2>2. page.offer.set \in Sets /\ page.offer.gen \in Gens
      BY <1>0, <2>1 DEF Sound, PageShape
  <2>3. Activates(q, ctlWire, dataWire)
      BY <1>0, <2>1, <2>2, ActivateIs DEF Activates, Kept, q
  <2> QED BY <2>1, <2>3 DEF Outcome
<1>4. CASE Acknowledges
  <2> DEFINE q == AckTimer(page)
  <2>1. PageBecomes(q, ctlWire, dataWire)
      BY <1>4 DEF Acknowledges, Runs
  <2> HIDE DEF q
  <2>2. Outcome(q, ctlWire, dataWire, h)
      BY AckTimerOutcome DEF q
  <2> QED BY <2>1, <2>2
<1>5. CASE GraceEnds \/ WatchdogFires \/ Reconnects \/ Retries
    BY <1>0, <1>1, <1>5, TimersAreQuiet DEF GraceEnds, WatchdogFires, Reconnects, Retries
<1>6. CASE RestoreLate \/ RestoreEnds \/ RestoreErrs
    BY <1>0, <1>1, <1>6, RestoresAreQuiet DEF RestoreLate, RestoreEnds, RestoreErrs
<1>7. CASE Begin
    BY <1>0, <1>1, <1>7, StartIs DEF Begin
<1>8. CASE ReservationFails \/ Heartbeats
    BY <1>0, <1>1, <1>8, FailIs DEF ReservationFails, Heartbeats, HeartbeatFails
<1>9. CASE ReservationRefused
  <2>1. page.phase # "closed"
      BY <1>0, <1>9 DEF ReservationRefused, Sound, PageFence
  <2> QED BY <1>0, <1>1, <1>9, <2>1, RefusalIsQuiet DEF ReservationRefused
<1>10. CASE ControlSeenClosing
    BY <1>0, <1>1, <1>10, ClosingIsQuiet DEF ControlSeenClosing
<1>11. CASE UserReconnects \/ UserCloses
    BY <1>0, <1>1, <1>11, ReconnectIsQuiet, CloseIsQuiet DEF UserReconnects, UserCloses
<1> QED BY <1>2, <1>3, <1>4, <1>5, <1>6, <1>7, <1>8, <1>9, <1>10, <1>11
        DEF PageActions, Waits

-----------------------------------------------------------------------------
(* A step of the page, and the relay's as far as its sockets go *)

\* What becomes of the state when a callback has made q of the page.
LEMMA BecomesIs ==
    ASSUME NEW q, NEW ctl, NEW dat, PageBecomes(q, ctl, dat), Sound(q)
    PROVE  /\ UNCHANGED <<client, gen, sets, tickets, control, data, closed, resets, attaching,
                          head, host, blame, others>>
           /\ PageInv'
           /\ page'.connection = q.connection /\ page'.attempt = q.attempt
           /\ page'.offer = q.offer /\ page'.coordinator = q.coordinator
           /\ page'.acks = q.acks
           /\ ctlWire' = IF q.connection.set # page.connection.set
                         THEN Fresh(q.connection.set, 0) ELSE ctl
           /\ dataWire' = IF DataSocket(q) # DataSocket(page)
                          THEN Fresh(DataSocket(q).set, DataSocket(q).gen) ELSE dat
           /\ upgrades' = upgrades
                 \cup Named(q.connection.set # page.connection.set /\ Connected(q),
                            Opened(q, "control", q.connection.gen))
                 \cup Named(DataSocket(q) # DataSocket(page) /\ q.connection.data = "opening",
                            Opened(q, "data", q.connection.gen))
           /\ up' = IF HoldsControl THEN up \o q.out ELSE up
<1>1. /\ UNCHANGED <<client, gen, sets, tickets, control, data, closed, resets, attaching,
                     head, host, blame, others>>
      /\ page' = [q EXCEPT !.out = <<>>]
      /\ ctlWire' = IF q.connection.set # page.connection.set
                    THEN Fresh(q.connection.set, 0) ELSE ctl
      /\ dataWire' = IF DataSocket(q) # DataSocket(page)
                     THEN Fresh(DataSocket(q).set, DataSocket(q).gen) ELSE dat
      /\ upgrades' = upgrades
            \cup Named(q.connection.set # page.connection.set /\ Connected(q),
                       Opened(q, "control", q.connection.gen))
            \cup Named(DataSocket(q) # DataSocket(page) /\ q.connection.data = "opening",
                       Opened(q, "data", q.connection.gen))
      /\ up' = IF HoldsControl THEN up \o q.out ELSE up
    BY DEF PageBecomes, reservations
<1>2. q \in Page
    BY DEF Sound, PageShape
<1>3. <<>> \in Seq(PageFrame)
    OBVIOUS
<1>4. /\ page' \in Page /\ page'.out = <<>>
      /\ page'.connection = q.connection /\ page'.attempt = q.attempt
      /\ page'.offer = q.offer /\ page'.coordinator = q.coordinator
      /\ page'.acks = q.acks /\ page'.phase = q.phase
    BY <1>1, <1>2, <1>3 DEF Page
<1>5. Sound(page')
    BY <1>4 DEF Sound, PageShape, PageFence
<1> QED BY <1>1, <1>4, <1>5 DEF PageInv

Reasons == {"replaced", "protocol", "isolated", "lost"}

\* The control or the data socket closes, or neither.
Closes ==
    /\ UNCHANGED <<client, gen, sets, upgrades, head, host>>
    /\ tickets' \subseteq tickets
    /\ \/ control' = control /\ ctlWire' = ctlWire
       \/ control' = NoSocket /\ \E why \in Reasons : ctlWire' = ToControl(Closing(why))
    /\ \/ data' = data /\ dataWire' = dataWire
       \/ data' = NoSocket /\ \E why \in Reasons : dataWire' = ToData(Closing(why))
\* A reset that is still current.
Renews ==
    /\ IsOpen(control) /\ control.state = "active" /\ gen < MaxGen
    /\ gen' = gen + 1
    /\ tickets' = {[set |-> control.set, channel |-> "data", gen |-> gen + 1]}
    /\ CloseData("replaced")
    /\ control' = [control EXCEPT !.gen = gen + 1]
    /\ ctlWire' = ToControl([kind |-> "resync", gen |-> gen + 1])
    /\ UNCHANGED <<client, sets, upgrades, head, host>>
Attaches ==
    /\ IsOpen(control) /\ HasData /\ data.state = "awaiting"
    /\ \E cursor \in MaybeSeqs : cursor <= head /\ AttachData(cursor)
    /\ UNCHANGED <<client, gen, sets, tickets, upgrades, head, host, dataWire>>
Acknowledged ==
    /\ IsOpen(control) /\ IsOpen(data)
    /\ \E cursor \in MaybeSeqs :
          /\ data' = [data EXCEPT !.acked = cursor]
          /\ data.sent # NoSeq /\ cursor <= data.sent
          /\ data.acked = NoSeq \/ data.acked <= cursor
    /\ UNCHANGED <<client, gen, sets, tickets, upgrades, control, head, host, ctlWire, dataWire>>
\* The host's head may have grown while it was gone.
Rises ==
    /\ ~host /\ host' /\ head <= head' /\ head' \in Seqs
    /\ UNCHANGED <<client, gen, sets, tickets, upgrades, control, data, ctlWire, dataWire>>
SocketStep ==
    \/ Closes \/ Renews \/ Attaches \/ Acknowledged \/ HostGone \/ Rises
    \/ \E mode \in {"warm", "snapshot"}, cut \in Seqs : StartRecovery(mode, cut)
    \/ Replay \/ Output
    \/ \E u \in upgrades : AcceptControl(u) \/ AcceptData(u) \/ Refuse(u)

RelayActions ==
    \/ LosesControl \/ LosesData \/ HostLost \/ ResetBegins
    \/ HostReturns \/ Relay \/ Host \/ HostOutput

\* What the relay keeps has its type, and a delivery is at its place in the journal.
\* Only what a host that is there has not yet finished grows with it.
Fed == data.state \in {"pinned", "synced", "stalled", "demoted"}
RelayInv ==
    /\ IsOpen(data) /\ data.state \in {"catching", "pinned", "synced"} => host
    /\ IsOpen(data) /\ Fed =>
        /\ data.first \in Seqs /\ data.sent \in Seqs /\ data.commit \in Seqs /\ data.acked \in Seqs
        /\ data.first <= data.sent /\ data.first <= data.commit
        /\ data.commit <= head /\ data.sent <= head
        /\ data.state \in {"pinned", "stalled"} => data.sent <= data.commit
        /\ data.state = "pinned" => data.commit = head
        /\ data.state = "synced" => data.sent = head
        /\ data.state = "demoted" => data.commit <= data.sent
RelayTypes ==
    /\ sets \in 0 .. MaxSets /\ head \in Seqs /\ host \in BOOLEAN
    /\ closed \subseteq Ticket
    /\ data \in Data \cup {NoSocket}
    /\ resets \subseteq Reset
    /\ attaching \subseteq [set : Sets, gen : Gens, cursor : MaybeSeqs]
    /\ blame \in {"none", "no delivered cursor", "exceeds delivered cursor",
                  "already attached", "replica cursor exceeds head", "no data before attach"}

LEMMA SeqsAreNumbers ==
    /\ \A x \in MaybeSeqs : x \in Int
    /\ \A x \in Seqs : x \in Int /\ x \in MaybeSeqs /\ x >= 0 /\ x <= MaxSeq
    /\ \A x \in Gens : x \in Int /\ x >= 1
    /\ \A x \in Sets : x \in Int /\ x >= 1
BY Bounds DEF MaybeSeqs, Seqs, NoSeq, Gens, Sets

LEMMA UpTyped ==
    ASSUME Frames, up # <<>>
    PROVE  /\ up[1] \in PageFrame /\ up[1].cursor \in MaybeSeqs /\ up[1].gen \in Gens
           /\ Tail(up) \in Seq(PageFrame)
           /\ Len(Tail(up)) = Len(up) - 1
           /\ \A i \in DOMAIN Tail(up) : Tail(up)[i] = up[i + 1] /\ i + 1 \in DOMAIN up
<1>1. up \in Seq(PageFrame)
    BY DEF Frames
<1>2. up[1] \in PageFrame
    BY <1>1
<1> QED BY <1>1, <1>2 DEF PageFrame

LEMMA ReceiveAttachStep ==
    ASSUME ConnInv, Frames, RelayTypes, ReceiveAttach PROVE SocketStep /\ head' = head
<1> DEFINE m == up[1]
           v == AttachVerdict(control.set, m)
<1>1. IsOpen(control) /\ control \in Control
    BY DEF ReceiveAttach, ConnInv, SocketInv, IsOpen
<1>2. Attach(m, v) /\ UNCHANGED <<upgrades, resets, head, host>>
    BY DEF ReceiveAttach
<1>3. up # <<>> /\ m.cursor \in MaybeSeqs
    BY UpTyped DEF ReceiveAttach
<1>4. v = "ok" => HasData /\ data.state = "awaiting" /\ ~(m.cursor > head)
    BY DEF AttachVerdict
<1> HIDE DEF v
<1>5. CASE v = "ok" /\ control.state = "active"
  <2>1. AttachData(m.cursor) /\ UNCHANGED <<reservations, dataWire>>
      BY <1>2, <1>5 DEF Attach
  <2>2. m.cursor <= head
    <3>1. m.cursor \in Int /\ head \in Int
        BY <1>3, SeqsAreNumbers DEF RelayTypes
    <3> QED BY <1>4, <1>5, <3>1
  <2> QED BY <1>1, <1>2, <1>3, <1>4, <1>5, <2>1, <2>2 DEF SocketStep, Attaches, reservations
<1>6. CASE v = "stale" \/ (v = "ok" /\ control.state = "awaiting")
  <2>1. UNCHANGED <<reservations, control, data, ctlWire, dataWire>>
      BY <1>2, <1>6 DEF Attach
  <2> QED BY <1>2, <2>1 DEF SocketStep, Closes, reservations
<1>7. CASE v = "already attached"
  <2>1. Isolate(v)
      BY <1>2, <1>7 DEF Attach
  <2>2. Closes
      BY <1>2, <2>1 DEF Isolate, CloseControl, CloseData, Closes, Reasons
  <2> QED BY <1>2, <2>2 DEF SocketStep
<1>8. CASE v \notin {"ok", "stale", "already attached"}
  <2>1. CloseProtocol(v)
      BY <1>2, <1>8 DEF Attach
  <2>2. Closes
      BY <1>2, <2>1 DEF CloseProtocol, CloseControl, Closes, Reasons, reservations
  <2> QED BY <1>2, <2>2 DEF SocketStep
<1>9. control.state \in {"awaiting", "active"}
    BY <1>1 DEF Control
<1> QED BY <1>5, <1>6, <1>7, <1>8, <1>9

LEMMA ReceiveAckStep ==
    ASSUME ConnInv, Frames, RelayTypes, ReceiveAck PROVE SocketStep /\ head' = head
<1> DEFINE m == up[1]
           v == AckVerdict(m)
<1>1. IsOpen(control) /\ control \in Control
    BY DEF ReceiveAck, ConnInv, SocketInv, IsOpen
<1>2. /\ UNCHANGED <<upgrades, resets, attaching, head, host>>
      /\ IF v \in {"ok", "stale"}
         THEN /\ Taken
              /\ data' = IF v = "ok" THEN [data EXCEPT !.acked = m.cursor] ELSE data
              /\ UNCHANGED <<reservations, control, closed, ctlWire, dataWire, blame>>
         ELSE CloseProtocol(v)
    BY DEF ReceiveAck
<1>3. up # <<>> /\ m.cursor \in MaybeSeqs
    BY UpTyped DEF ReceiveAck
<1>4. v = "ok" => /\ IsOpen(data) /\ data.sent # NoSeq /\ ~(m.cursor > data.sent)
                  /\ ~(data.acked # NoSeq /\ m.cursor < data.acked)
    BY DEF AckVerdict
<1> HIDE DEF v
<1>5. CASE v = "ok"
  <2>1. data.sent \in MaybeSeqs /\ data.acked \in MaybeSeqs
      BY <1>4, <1>5 DEF RelayTypes, Data, IsOpen
  <2>2. m.cursor <= data.sent /\ (data.acked = NoSeq \/ data.acked <= m.cursor)
      BY <1>3, <1>4, <1>5, <2>1, Bounds DEF MaybeSeqs, Seqs, NoSeq
  <2> QED BY <1>1, <1>2, <1>3, <1>4, <1>5, <2>2 DEF SocketStep, Acknowledged, reservations
<1>6. CASE v = "stale"
  <2>1. UNCHANGED <<reservations, control, data, ctlWire, dataWire>>
      BY <1>2, <1>6
  <2> QED BY <1>2, <2>1 DEF SocketStep, Closes, reservations
<1>8. CASE v \notin {"ok", "stale"}
  <2>2. Closes
      BY <1>2, <1>8 DEF CloseProtocol, CloseControl, Closes, Reasons, reservations
  <2> QED BY <1>2, <2>2 DEF SocketStep
<1> QED BY <1>5, <1>6, <1>8

LEMMA FinishAttachStep ==
    ASSUME ConnInv, AttachInv, RelayTypes, NEW a \in attaching, FinishAttach(a)
    PROVE  SocketStep /\ head' = head
<1>1. /\ a.set # 0 /\ a.cursor \in MaybeSeqs
      /\ UNCHANGED <<reservations, upgrades, closed, resets, head, host, dataWire, up, blame>>
    BY DEF AttachInv, RelayTypes, FinishAttach
<1>2. CASE AttachVerdict(a.set, a) = "ok"
  <2>1. /\ control.set = a.set /\ HasData /\ data.state = "awaiting" /\ ~(a.cursor > head)
      BY <1>2 DEF AttachVerdict
  <2>2. IsOpen(control)
      BY <1>1, <2>1 DEF IsOpen, NoSocket
  <2>3. a.cursor <= head
    <3>1. a.cursor \in Int /\ head \in Int
        BY <1>1, SeqsAreNumbers DEF RelayTypes
    <3> QED BY <2>1, <3>1
  <2>4. AttachData(a.cursor)
      BY <1>2 DEF FinishAttach
  <2> QED BY <1>1, <2>1, <2>2, <2>3, <2>4 DEF SocketStep, Attaches, reservations
<1>3. CASE AttachVerdict(a.set, a) # "ok"
    BY <1>1, <1>3 DEF FinishAttach, SocketStep, Closes, reservations
<1> QED BY <1>2, <1>3

LEMMA CloseHandlerSteps ==
    ASSUME NEW k \in closed,
           DataCloseHandled(k) \/ UnattachedDataCloseHandled(k) \/ ControlCloseHandled(k)
    PROVE  SocketStep /\ head' = head
<1>1. CASE DataCloseHandled(k)
    BY <1>1 DEF DataCloseHandled, SocketStep, Closes, reservations, wires
<1>2. CASE UnattachedDataCloseHandled(k)
    BY <1>2 DEF UnattachedDataCloseHandled, CloseControl, SocketStep, Closes, Reasons
<1>3. CASE ControlCloseHandled(k)
  <2>1. CASE IsOpen(control)
      BY <1>3, <2>1 DEF ControlCloseHandled, SocketStep, Closes
  <2>2. CASE ~IsOpen(control)
      BY <1>3, <2>2 DEF ControlCloseHandled, CloseData, SocketStep, Closes, Reasons
  <2> QED BY <2>1, <2>2
<1> QED BY <1>1, <1>2, <1>3

LEMMA ResetSteps ==
    ASSUME NEW r \in resets, EndReset(r) PROVE SocketStep /\ head' = head
<1>1. CASE IsOpen(control) /\ ResetIsCurrent(r)
    BY <1>1 DEF EndReset, ResetIsCurrent, SocketStep, Renews
<1>2. CASE ~(IsOpen(control) /\ ResetIsCurrent(r))
    BY <1>2 DEF EndReset, SocketStep, Closes
<1> QED BY <1>1, <1>2

\* Every step of the relay and its host is one of these.
LEMMA RelayStepIs ==
    ASSUME ConnInv, AttachInv, Frames, RelayTypes, RelayActions
    PROVE  SocketStep /\ page' = page /\ others' = others
<1>1. page' = page /\ others' = others
    BY DEF RelayActions, LosesControl, LosesData, HostLost, HostReturns, ResetBegins, Relay,
           Host, HostOutput
<1>2. ASSUME LosesControl \/ LosesData PROVE SocketStep /\ head' = head
  <2>1. CASE LosesControl
      BY <2>1 DEF LosesControl, ControlGone, CloseControl, SocketStep, Closes, Reasons,
                  reservations
  <2>2. CASE LosesData
      BY <2>2 DEF LosesData, DataGone, CloseData, SocketStep, Closes, Reasons, reservations
  <2> QED BY <1>2, <2>1, <2>2
<1>3. ASSUME HostLost \/ HostReturns, RelayTypes PROVE SocketStep
  <2>1. CASE HostLost
      BY <2>1 DEF HostLost, SocketStep
  <2>2. CASE HostReturns
    <3>1. head' \in head .. MaxSeq /\ head \in Seqs
        BY <1>3, <2>2 DEF HostReturns, HostReady, RelayTypes
    <3>2. head <= head' /\ head' \in Seqs
        BY <3>1, Bounds DEF Seqs
    <3> QED BY <2>2, <3>2 DEF HostReturns, HostReady, SocketStep, Rises, reservations, wires
  <2> QED BY <1>3, <2>1, <2>2
<1>4. ASSUME ResetBegins PROVE SocketStep /\ head' = head
    BY <1>4 DEF ResetBegins, BeginReset, SocketStep, Closes, reservations, wires
<1>5. ASSUME Host \/ HostOutput PROVE SocketStep
  <2>1. CASE Host
      BY <2>1 DEF Host, Recovers, SocketStep
  <2>2. CASE HostOutput
      BY <2>2 DEF HostOutput, SocketStep
  <2> QED BY <1>5, <2>1, <2>2
<1>6. ASSUME Relay PROVE SocketStep /\ head' = head
  <2>1. Relays
      BY <1>6 DEF Relay
  <2>2. ASSUME NEW u \in upgrades, AcceptControl(u) \/ AcceptData(u) \/ Refuse(u)
        PROVE  SocketStep /\ head' = head
      BY <2>2 DEF SocketStep, AcceptControl, AcceptData, Refuse
  <2> QED BY <2>1, <2>2, CloseHandlerSteps, ResetSteps, ReceiveAttachStep, ReceiveAckStep,
             FinishAttachStep DEF Relays
<1> QED BY <1>1, <1>2, <1>3, <1>4, <1>5, <1>6 DEF RelayActions

-----------------------------------------------------------------------------
(* Types *)

OtherTypes == others \subseteq Ticket /\ faults \in 0 .. MaxFaults
TypesInv == PageInv /\ Frames /\ RelayTypes /\ RelayInv /\ OtherTypes

LEMMA WireTyped ==
    ASSUME NEW T, NEW w, w \in [set : 0 .. MaxSets, gen : 0 .. MaxGen, frames : Seq(T)]
    PROVE  /\ \A f \in T :
                 /\ Onto(w, f) \in [set : 0 .. MaxSets, gen : 0 .. MaxGen, frames : Seq(T)]
                 /\ Onto(w, f).set = w.set /\ Onto(w, f).gen = w.gen
                 /\ Onto(w, f).frames = Append(w.frames, f)
           /\ w.frames # <<>> =>
                 /\ Untold(w) \in [set : 0 .. MaxSets, gen : 0 .. MaxGen, frames : Seq(T)]
                 /\ Untold(w).set = w.set /\ Untold(w).gen = w.gen
                 /\ Untold(w).frames = Tail(w.frames)
           /\ \A n \in 0 .. MaxSets, g \in 0 .. MaxGen :
                 /\ Fresh(n, g) \in [set : 0 .. MaxSets, gen : 0 .. MaxGen, frames : Seq(T)]
                 /\ Fresh(n, g).set = n /\ Fresh(n, g).gen = g /\ Fresh(n, g).frames = <<>>
<1>1. w.frames \in Seq(T)
    OBVIOUS
<1>2. ASSUME NEW f \in T
      PROVE  /\ Onto(w, f) \in [set : 0 .. MaxSets, gen : 0 .. MaxGen, frames : Seq(T)]
             /\ Onto(w, f).set = w.set /\ Onto(w, f).gen = w.gen
             /\ Onto(w, f).frames = Append(w.frames, f)
  <2>1. Append(w.frames, f) \in Seq(T)
      BY <1>1
  <2> QED BY <2>1 DEF Onto
<1>3. ASSUME w.frames # <<>>
      PROVE  /\ Untold(w) \in [set : 0 .. MaxSets, gen : 0 .. MaxGen, frames : Seq(T)]
             /\ Untold(w).set = w.set /\ Untold(w).gen = w.gen
             /\ Untold(w).frames = Tail(w.frames)
  <2>1. Tail(w.frames) \in Seq(T)
      BY <1>1, <1>3
  <2> QED BY <2>1 DEF Untold
<1>4. ASSUME NEW n \in 0 .. MaxSets, NEW g \in 0 .. MaxGen
      PROVE  /\ Fresh(n, g) \in [set : 0 .. MaxSets, gen : 0 .. MaxGen, frames : Seq(T)]
             /\ Fresh(n, g).set = n /\ Fresh(n, g).gen = g /\ Fresh(n, g).frames = <<>>
  <2>1. <<>> \in Seq(T)
      OBVIOUS
  <2> QED BY <2>1 DEF Fresh
<1> QED BY <1>2, <1>3, <1>4

\* What an appended frame and a taken frame leave of the others.
LEMMA FramesMove ==
    ASSUME NEW T, NEW s \in Seq(T)
    PROVE  /\ DOMAIN s = 1 .. Len(s) /\ Len(s) \in Nat
           /\ \A f \in T :
                 /\ Append(s, f) # <<>>
                 /\ DOMAIN Append(s, f) = 1 .. Len(s) + 1
                 /\ Len(Append(s, f)) = Len(s) + 1
                 /\ Append(s, f)[Len(s) + 1] = f
                 /\ \A i \in DOMAIN s : Append(s, f)[i] = s[i] /\ i \in DOMAIN Append(s, f)
           /\ s # <<>> =>
                 /\ Len(s) >= 1 /\ Len(Tail(s)) = Len(s) - 1
                 /\ DOMAIN Tail(s) = 1 .. Len(s) - 1
                 /\ \A i \in DOMAIN Tail(s) : Tail(s)[i] = s[i + 1] /\ i + 1 \in DOMAIN s
                 /\ Head(s) = s[1] /\ 1 \in DOMAIN s
OBVIOUS

\* Frames the relay sends.
LEMMA SentFrames ==
    /\ Frame("open") \in ControlFrame /\ Frame("refused") \in ControlFrame
    /\ Frame("offline") \in ControlFrame /\ Frame("offline").kind = "offline"
    /\ Frame("open") \in DataFrame /\ Frame("refused") \in DataFrame
    /\ \A why \in Reasons : Closing(why) \in ControlFrame /\ Closing(why) \in DataFrame
    /\ \A g \in Gens : /\ [kind |-> "welcome", gen |-> g] \in ControlFrame
                       /\ [kind |-> "resync", gen |-> g] \in ControlFrame
    /\ \A g \in Gens, cut \in Seqs, mode \in {"warm", "snapshot"} :
          [kind |-> "start", mode |-> mode, gen |-> g, cut |-> cut] \in ControlFrame
    /\ \A n \in Seqs : /\ [kind |-> "event", seq |-> n] \in DataFrame
                       /\ [kind |-> "commit", seq |-> n] \in DataFrame
BY DEF ControlFrame, DataFrame, Frame, Closing, Reasons

\* A frame the relay sends on a control or a data socket, if the page holds that one.
ControlSends(f) ==
    /\ f \in ControlFrame /\ ctlWire.set \in Sets
    /\ f.kind \in {"start", "resync"} => IsOpen(control) /\ f.gen = gen'
\* Nothing, one frame, or two frames of which none begins or renews a delivery.
ControlSaid ==
    \/ ctlWire' = ctlWire
    \/ \E f \in ControlFrame : ctlWire' = Onto(ctlWire, f) /\ ControlSends(f)
    \/ \E f \in ControlFrame :
          /\ ctlWire' = Onto(Onto(ctlWire, f), Frame("offline"))
          /\ ControlSends(f) /\ f.kind = "welcome"
DataSends(f) ==
    /\ f \in DataFrame /\ dataWire' = Onto(dataWire, f) /\ dataWire.set \in Sets
    /\ f.kind \in {"event", "commit"} => HoldsData

\* A socket step adds at most one frame to a data socket's wire, and two to a control
\* socket's.
LEMMA SocketStepSends ==
    ASSUME ConnInv, Frames, RelayTypes, RelayInv, SocketStep
    PROVE  /\ ControlSaid
           /\ dataWire' = dataWire \/ \E f \in DataFrame : DataSends(f)
<1>0. /\ IsOpen(control) => gen \in Gens /\ control.gen = gen /\ control.set \in Sets
      /\ IsOpen(data) => data.set \in Sets
    BY DEF ConnInv, ClientInv, SocketInv, Control, IsOpen, RelayTypes, Data
<1>a. ASSUME NEW f \in ControlFrame, ctlWire' = ToControl(f),
             f.kind \in {"start", "resync"} => IsOpen(control) /\ f.gen = gen'
      PROVE  ControlSaid
    BY <1>0, <1>a DEF ToControl, ControlSends, ControlSaid, HoldsControl
<1>b. ASSUME NEW f \in DataFrame, dataWire' = ToData(f)
      PROVE  dataWire' = dataWire \/ \E g \in DataFrame : DataSends(g)
    BY <1>0, <1>b DEF ToData, DataSends, HoldsData, SameSocket
<1>c. ASSUME NEW why \in Reasons
      PROVE  /\ Closing(why) \in ControlFrame /\ Closing(why) \in DataFrame
             /\ Closing(why).kind \notin {"start", "resync"}
    BY SentFrames DEF Closing
<1>d. "replaced" \in Reasons
    BY DEF Reasons
<1>e. ctlWire' = ctlWire => ControlSaid
    BY DEF ControlSaid
<1>1. CASE Closes
    BY <1>1, <1>a, <1>b, <1>c, <1>e DEF Closes
<1>2. CASE Renews
  <2>1. gen + 1 \in Gens /\ gen' = gen + 1 /\ IsOpen(control)
      BY <1>0, <1>2, Bounds DEF Renews, Gens
  <2> DEFINE f == [kind |-> "resync", gen |-> gen + 1]
  <2>2. f \in ControlFrame /\ f.gen = gen' /\ f.kind = "resync"
      BY <2>1, SentFrames
  <2>3. ctlWire' = ToControl(f) /\ dataWire' = ToData(Closing("replaced"))
      BY <1>2 DEF Renews, CloseData
  <2> HIDE DEF f
  <2> QED BY <1>a, <1>b, <1>c, <1>d, <2>1, <2>2, <2>3
<1>3. CASE Attaches
  <2> DEFINE f == [kind |-> "welcome", gen |-> gen]
  <2>1. f \in ControlFrame /\ f.kind = "welcome"
      BY <1>0, <1>3, SentFrames DEF Attaches
  <2>2. /\ \/ ctlWire' \in {ctlWire, ToControl(f), ToControl(Frame("offline"))}
           \/ HoldsControl /\ ctlWire' = Onto(Onto(ctlWire, f), Frame("offline"))
        /\ dataWire' = dataWire
      BY <1>3 DEF Attaches, AttachData, ToControl
  <2> HIDE DEF f
  <2>3. CASE HoldsControl /\ ctlWire' = Onto(Onto(ctlWire, f), Frame("offline"))
      BY <1>0, <1>3, <2>1, <2>2, <2>3 DEF ControlSaid, ControlSends, HoldsControl
  <2> QED BY <1>a, <1>e, <2>1, <2>2, <2>3, SentFrames
<1>4. CASE Acknowledged \/ Rises \/ HostGone
  <2>1. ctlWire' \in {ctlWire, ToControl(Frame("offline"))} /\ dataWire' = dataWire
      BY <1>4 DEF Acknowledged, Rises, HostGone
  <2> QED BY <1>a, <1>e, <2>1, SentFrames
<1>5. ASSUME NEW mode \in {"warm", "snapshot"}, NEW cut \in Seqs, StartRecovery(mode, cut)
      PROVE  ControlSaid /\ dataWire' = dataWire
  <2> DEFINE f == [kind |-> "start", mode |-> mode, gen |-> gen, cut |-> cut]
  <2>1. /\ IsOpen(control) /\ gen' = gen /\ dataWire' = dataWire /\ ctlWire' = ToControl(f)
      BY <1>5 DEF StartRecovery, reservations
  <2>2. f \in ControlFrame /\ f.gen = gen'
      BY <1>0, <2>1, SentFrames
  <2> HIDE DEF f
  <2> QED BY <1>a, <2>1, <2>2
<1>6. CASE Replay
  <2>1. IsOpen(data) /\ data.state = "pinned" /\ data.commit \in Seqs /\ data.sent \in Seqs
        /\ ctlWire' = ctlWire
      BY <1>6 DEF Replay, RelayInv, Fed
  <2>2. data.sent < data.commit => data.sent + 1 \in Seqs
      BY <2>1, Bounds DEF Seqs
  <2>3. \E f \in DataFrame : dataWire' = ToData(f)
      BY <1>6, <2>1, <2>2, SentFrames DEF Replay
  <2> QED BY <1>b, <1>e, <2>1, <2>3
<1>7. CASE Output
  <2>1. head + 1 \in Seqs
    <3>1. head < MaxSeq /\ head \in Seqs
        BY <1>7 DEF Output, RelayTypes
    <3> QED BY <3>1, Bounds DEF Seqs
  <2>2. dataWire' = dataWire \/ \E f \in DataFrame : dataWire' = ToData(f)
      BY <1>7, <2>1, SentFrames DEF Output
  <2>3. ctlWire' = ctlWire
      BY <1>7 DEF Output
  <2> QED BY <1>b, <1>e, <2>2, <2>3
<1>8. ASSUME NEW u \in upgrades, AcceptControl(u) \/ AcceptData(u) \/ Refuse(u)
      PROVE  /\ ControlSaid
             /\ dataWire' = dataWire \/ \E f \in DataFrame : DataSends(f)
  <2>1. ASSUME NEW f \in {Frame("open"), Frame("refused")}
        PROVE  /\ f \in ControlFrame /\ f \in DataFrame
               /\ f.kind \notin {"start", "resync", "event", "commit"}
      BY <2>1, SentFrames DEF Frame
  <2>2. CASE AcceptControl(u)
    <3>1. u.set \in Sets
        BY <2>2 DEF AcceptControl, Acceptable, ConnInv, ClientInv, Ticket
    <3>2. dataWire' = ToData(Closing("replaced"))
        BY <2>2 DEF AcceptControl, CloseData
    <3>3. CASE ctlWire.set = u.set
      <4>1. ctlWire' = Onto(ctlWire, Frame("open"))
          BY <2>2, <3>3 DEF AcceptControl
      <4>2. ControlSaid
          BY <2>1, <3>1, <3>3, <4>1 DEF ControlSaid, ControlSends
      <4> QED BY <1>b, <1>c, <1>d, <2>1, <3>2, <4>2
    <3>4. CASE ctlWire.set # u.set
      <4>1. ctlWire' = ToControl(Closing("replaced"))
          BY <2>2, <3>4 DEF AcceptControl
      <4> QED BY <1>a, <1>b, <1>c, <1>d, <3>2, <4>1
    <3> QED BY <3>3, <3>4
  <2>3. CASE AcceptData(u)
    <3>1. u.set \in Sets /\ ctlWire' = ctlWire
        BY <2>3 DEF AcceptData, Acceptable, ConnInv, ClientInv, Ticket
    <3>3. CASE SameSocket(dataWire, u)
      <4>1. dataWire' = Onto(dataWire, Frame("open"))
          BY <2>3, <3>3 DEF AcceptData
      <4>2. DataSends(Frame("open"))
          BY <2>1, <3>1, <3>3, <4>1 DEF DataSends, SameSocket
      <4> QED BY <1>e, <2>1, <3>1, <4>2
    <3>4. CASE ~SameSocket(dataWire, u)
      <4>1. dataWire' = ToData(Closing("replaced"))
          BY <2>3, <3>4 DEF AcceptData
      <4> QED BY <1>b, <1>c, <1>d, <1>e, <3>1, <4>1
    <3> QED BY <3>3, <3>4
  <2>4. CASE Refuse(u)
    <3>1. \/ ctlWire' = ctlWire
          \/ ctlWire' = Onto(ctlWire, Frame("refused")) /\ ctlWire.set = u.set
        BY <2>4 DEF Refuse
    <3>2. \/ dataWire' = dataWire
          \/ dataWire' = Onto(dataWire, Frame("refused")) /\ dataWire.set = u.set
        BY <2>4 DEF Refuse, SameSocket
    <3>3. u.set \in Sets
        BY <1>8 DEF Frames, Ticket
    <3> QED BY <2>1, <3>1, <3>2, <3>3 DEF ControlSaid, ControlSends, DataSends
  <2> QED BY <1>8, <2>2, <2>3, <2>4
<1> QED BY <1>1, <1>2, <1>3, <1>4, <1>5, <1>6, <1>7, <1>8 DEF SocketStep

\* What becomes of the frames that the relay has yet to read, and of the requests.
LEMMA RelayReads ==
    ASSUME RelayActions
    PROVE  /\ \/ up' = up \/ up' = <<>>
              \/ up # <<>> /\ up' = Tail(up)
           /\ upgrades' \subseteq upgrades
<1>1. ASSUME Relays
      PROVE  /\ up' = up \/ up' = <<>> \/ (up # <<>> /\ up' = Tail(up))
             /\ upgrades' \subseteq upgrades
  <2>1. ASSUME NEW u \in upgrades, AcceptControl(u) \/ AcceptData(u) \/ Refuse(u)
        PROVE  (up' = up \/ up' = <<>>) /\ upgrades' \subseteq upgrades
      BY <2>1 DEF AcceptControl, AcceptData, Refuse
  <2>2. ASSUME NEW k \in closed,
               DataCloseHandled(k) \/ UnattachedDataCloseHandled(k) \/ ControlCloseHandled(k)
        PROVE  (up' = up \/ up' = <<>>) /\ upgrades' \subseteq upgrades
      BY <2>2 DEF DataCloseHandled, UnattachedDataCloseHandled, ControlCloseHandled,
                  CloseControl, wires
  <2>3. ASSUME NEW r \in resets, EndReset(r)
        PROVE  up' = up /\ upgrades' \subseteq upgrades
      BY <2>3 DEF EndReset
  <2>4. ASSUME NEW a \in attaching, FinishAttach(a)
        PROVE  up' = up /\ upgrades' \subseteq upgrades
      BY <2>4 DEF FinishAttach
  <2>5. CASE ReceiveAttach
      BY <2>5 DEF ReceiveAttach, Attach, Taken, Isolate, CloseProtocol, CloseControl
  <2>6. CASE ReceiveAck
      BY <2>6 DEF ReceiveAck, Taken, CloseProtocol, CloseControl
  <2> QED BY <1>1, <2>1, <2>2, <2>3, <2>4, <2>5, <2>6 DEF Relays
<1>2. ASSUME Recovers PROVE up' = up /\ upgrades' \subseteq upgrades
    BY <1>2 DEF Recovers, StartRecovery, Replay
<1>3. CASE LosesControl \/ LosesData \/ HostLost \/ HostReturns \/ ResetBegins \/ HostOutput
    BY <1>3 DEF LosesControl, ControlGone, CloseControl, LosesData, DataGone, HostLost,
                HostGone, HostReturns, HostReady, ResetBegins, BeginReset, HostOutput,
                Output, wires
<1> QED BY <1>1, <1>2, <1>3 DEF RelayActions, Relay, Host

LEMMA RelayFrames ==
    ASSUME ConnInv, AttachInv, Frames, RelayTypes, RelayInv, RelayActions
    PROVE  Frames'
<1>1. SocketStep
    BY RelayStepIs
<1>2. ctlWire' \in [set : 0 .. MaxSets, gen : 0 .. MaxGen, frames : Seq(ControlFrame)]
  <2>1. ctlWire \in [set : 0 .. MaxSets, gen : 0 .. MaxGen, frames : Seq(ControlFrame)]
      BY DEF Frames
  <2>2. CASE ctlWire' = ctlWire
      BY <2>1, <2>2
  <2>3. ASSUME NEW f \in ControlFrame,
               ctlWire' \in {Onto(ctlWire, f), Onto(Onto(ctlWire, f), Frame("offline"))}
        PROVE  ctlWire' \in [set : 0 .. MaxSets, gen : 0 .. MaxGen, frames : Seq(ControlFrame)]
    <3>1. Onto(ctlWire, f) \in [set : 0 .. MaxSets, gen : 0 .. MaxGen, frames : Seq(ControlFrame)]
        BY <2>1, <2>3, WireTyped
    <3> DEFINE w == Onto(ctlWire, f)
               g == Frame("offline")
    <3>2. w \in [set : 0 .. MaxSets, gen : 0 .. MaxGen, frames : Seq(ControlFrame)]
          /\ g \in ControlFrame /\ ctlWire' \in {w, Onto(w, g)}
        BY <2>3, <3>1, SentFrames
    <3> HIDE DEF w, g
    <3>3. Onto(w, g) \in [set : 0 .. MaxSets, gen : 0 .. MaxGen, frames : Seq(ControlFrame)]
        BY <3>2, WireTyped
    <3> QED BY <3>2, <3>3, Zenon
  <2> QED BY <1>1, <2>2, <2>3, SocketStepSends DEF ControlSaid
<1>3. dataWire' \in [set : 0 .. MaxSets, gen : 0 .. MaxGen, frames : Seq(DataFrame)]
  <2>1. dataWire \in [set : 0 .. MaxSets, gen : 0 .. MaxGen, frames : Seq(DataFrame)]
      BY DEF Frames
  <2>2. CASE dataWire' = dataWire
      BY <2>1, <2>2
  <2>3. ASSUME NEW f \in DataFrame, DataSends(f)
        PROVE  dataWire' \in [set : 0 .. MaxSets, gen : 0 .. MaxGen, frames : Seq(DataFrame)]
      BY <2>1, <2>3, WireTyped DEF DataSends
  <2> QED BY <1>1, <2>2, <2>3, SocketStepSends
<1>4. up' \in Seq(PageFrame) /\ upgrades' \subseteq upgrades
  <2>1. <<>> \in Seq(PageFrame)
      OBVIOUS
  <2> QED BY <2>1, RelayReads, UpTyped DEF Frames
<1> QED BY <1>2, <1>3, <1>4 DEF Frames

\* The delivery on a data socket moves along the journal.
LEMMA DeliveryMoves ==
    ASSUME ConnInv, RelayTypes, RelayInv, SocketStep
    PROVE  data' \in Data \cup {NoSocket} /\ RelayInv' /\ head' \in Seqs /\ host' \in BOOLEAN
<1>0. /\ data \in Data \cup {NoSocket} /\ head \in Seqs /\ host \in BOOLEAN
      /\ IsOpen(data) => data \in Data
    BY DEF RelayTypes, IsOpen
<1>1. IsOpen(control) => gen \in Gens /\ control.gen = gen /\ control \in Control
    BY DEF ConnInv, ClientInv, SocketInv, Control, IsOpen
<1> DEFINE Moves ==
              data' \in Data \cup {NoSocket} /\ RelayInv' /\ head' \in Seqs /\ host' \in BOOLEAN
<1>2. ASSUME data' \in {data, NoSocket}, UNCHANGED <<head, host>>
      PROVE  Moves
    BY <1>0, <1>2 DEF RelayInv, IsOpen, Fed
<1>4. CASE Closes \/ Renews
    BY <1>2, <1>4 DEF Closes, Renews, CloseData
<1>5. CASE Attaches
  <2>1. PICK cursor \in MaybeSeqs : cursor <= head /\ AttachData(cursor)
      BY <1>5 DEF Attaches
  <2>2. IsOpen(data) /\ data \in Data
      BY <1>0, <1>1, <1>5 DEF Attaches, HasData, SameSocket, IsOpen, NoSocket, Control, Sets
  <2>3. data' \in Data /\ data'.state = IF host THEN "catching" ELSE "missed"
      BY <2>1, <2>2 DEF AttachData, Data
  <2>4. UNCHANGED <<head, host>>
      BY <1>5 DEF Attaches
  <2> QED BY <1>0, <2>3, <2>4 DEF RelayInv, Fed
<1>6. CASE Acknowledged
  <2>1. PICK cursor \in MaybeSeqs :
           /\ data' = [data EXCEPT !.acked = cursor]
           /\ cursor <= data.sent /\ (data.acked = NoSeq \/ data.acked <= cursor)
      BY <1>6 DEF Acknowledged
  <2>2. IsOpen(data) /\ data \in Data /\ UNCHANGED <<head, host>>
      BY <1>0, <1>6 DEF Acknowledged
  <2>3. /\ data' \in Data /\ data'.state = data.state /\ data'.first = data.first
        /\ data'.sent = data.sent /\ data'.commit = data.commit /\ data'.acked = cursor
      BY <2>1, <2>2 DEF Data
  <2>4. Fed => cursor \in Seqs
    <3>1. Fed => data.acked \in Seqs /\ data.acked # NoSeq
        BY <2>2, Bounds DEF RelayInv, Seqs, NoSeq
    <3>2. Fed => cursor >= 0
        BY <2>1, <3>1, SeqsAreNumbers
    <3> QED BY <3>2, Bounds DEF MaybeSeqs, NoSeq, Seqs
  <2> QED BY <1>0, <2>2, <2>3, <2>4 DEF RelayInv, Fed
<1>7. CASE HostGone
  <2>1. /\ host' = FALSE /\ head' = head
        /\ data' = IF IsOpen(data) THEN [data EXCEPT !.state = Demoted(@)] ELSE data
      BY <1>7 DEF HostGone
  <2>2. CASE ~IsOpen(data)
      BY <1>0, <2>1, <2>2 DEF RelayInv, IsOpen
  <2>3. CASE IsOpen(data)
    <3>1. /\ data' \in Data /\ data'.state = Demoted(data.state)
          /\ data'.first = data.first /\ data'.sent = data.sent
          /\ data'.commit = data.commit /\ data'.acked = data.acked
        BY <1>0, <2>1, <2>3 DEF Data, Demoted
    <3>2. /\ data'.state \notin {"catching", "pinned", "synced"}
          /\ data'.state = "stalled" => data.state \in {"pinned", "stalled"}
          /\ data'.state = "demoted" => data.state \in {"synced", "demoted"}
        BY <1>0, <2>3, <3>1 DEF Data, Demoted
    <3>3. Fed' => Fed
        BY <3>2 DEF Fed
    <3>5. data.state = "synced" /\ Fed => data.commit <= data.sent
        BY <2>3 DEF RelayInv
    <3> QED BY <1>0, <2>1, <2>3, <3>1, <3>2, <3>3, <3>5 DEF RelayInv, Fed
  <2> QED BY <2>2, <2>3
<1>12. CASE Rises
  <2>1. /\ ~host /\ host' = TRUE /\ head <= head' /\ head' \in Seqs /\ data' = data
      BY <1>0, <1>12 DEF Rises
  <2>2. CASE ~(IsOpen(data) /\ Fed)
      BY <1>0, <2>1, <2>2 DEF RelayInv, IsOpen, Fed
  <2>3. CASE IsOpen(data) /\ Fed
    <3>1. /\ data.state \in {"stalled", "demoted"}
          /\ data.sent \in Seqs /\ data.commit \in Seqs
          /\ data.sent <= head /\ data.commit <= head
        BY <2>1, <2>3 DEF RelayInv, Fed
    <3>2. data.sent <= head' /\ data.commit <= head'
        BY <1>0, <2>1, <3>1, SeqsAreNumbers
    <3> QED BY <1>0, <2>1, <2>3, <3>1, <3>2 DEF RelayInv, IsOpen, Fed
  <2> QED BY <2>2, <2>3
<1>8. ASSUME NEW mode \in {"warm", "snapshot"}, NEW cut \in Seqs, StartRecovery(mode, cut)
      PROVE  Moves
  <2>1. /\ IsOpen(data) /\ data \in Data /\ data.state = "catching" /\ cut <= head
        /\ UNCHANGED <<head, host>>
        /\ data' = [data EXCEPT !.state = "pinned", !.first = cut, !.acked = cut,
                                !.sent = cut, !.commit = head]
      BY <1>0, <1>8 DEF StartRecovery
  <2>2. /\ data' \in Data /\ data'.state = "pinned" /\ data'.first = cut
        /\ data'.acked = cut /\ data'.sent = cut /\ data'.commit = head
    <3>1. cut \in MaybeSeqs /\ head \in MaybeSeqs
        BY <1>0, SeqsAreNumbers
    <3> QED BY <2>1, <3>1 DEF Data
  <2>3. cut <= cut /\ head <= head /\ cut <= head
      BY <1>0, <2>1, SeqsAreNumbers
  <2>4. host
      BY <2>1 DEF RelayInv
  <2> QED BY <1>0, <2>1, <2>2, <2>3, <2>4 DEF RelayInv, Fed
<1>9. CASE Replay
  <2>1. /\ IsOpen(data) /\ data \in Data /\ data.state = "pinned" /\ head' = head
        /\ host' = host /\ host
      BY <1>0, <1>9 DEF Replay, RelayInv
  <2>2. /\ data.first \in Seqs /\ data.sent \in Seqs /\ data.commit \in Seqs
        /\ data.acked \in Seqs
        /\ data.first <= data.sent /\ data.first <= data.commit /\ data.commit <= head
        /\ data.sent <= data.commit /\ data.commit = head /\ data.sent <= head
      BY <2>1 DEF RelayInv, Fed
  <2>3. CASE data.sent < data.commit
    <3>1. data.sent + 1 \in Seqs /\ data.sent + 1 \in MaybeSeqs
      <4>1. data.sent + 1 \in Seqs
          BY <2>2, <2>3, Bounds DEF Seqs
      <4> QED BY <4>1, SeqsAreNumbers
    <3>2. /\ data' \in Data /\ data'.state = "pinned" /\ data'.first = data.first
          /\ data'.acked = data.acked /\ data'.sent = data.sent + 1
          /\ data'.commit = data.commit
        BY <1>9, <2>1, <2>3, <3>1 DEF Replay, Data
    <3>3. /\ data.first <= data.sent + 1 /\ data.sent + 1 <= data.commit
          /\ data.sent + 1 <= head
        BY <2>2, <2>3, SeqsAreNumbers
    <3> QED BY <1>0, <2>1, <2>2, <3>1, <3>2, <3>3 DEF RelayInv, Fed
  <2>4. CASE ~(data.sent < data.commit)
    <3>1. /\ data' \in Data /\ data'.state = "synced" /\ data'.first = data.first
          /\ data'.acked = data.acked /\ data'.sent = data.sent
          /\ data'.commit = data.commit
        BY <1>9, <2>1, <2>4 DEF Replay, Data
    <3>2. data.sent = head
        BY <2>2, <2>4, SeqsAreNumbers
    <3> QED BY <1>0, <2>1, <2>2, <3>1, <3>2 DEF RelayInv, Fed
  <2> QED BY <2>3, <2>4
<1>10. CASE Output
  <2>1. /\ head < MaxSeq /\ head' = head + 1 /\ host' = host
        /\ ~(IsOpen(data) /\ data.state \in {"pinned", "stalled", "demoted"})
      BY <1>10 DEF Output
  <2>2. head' \in Seqs /\ head' \in MaybeSeqs /\ head <= head'
    <3>1. head' \in Seqs /\ head <= head'
        BY <1>0, <2>1, Bounds DEF Seqs
    <3> QED BY <3>1, SeqsAreNumbers
  <2>3. CASE IsOpen(data) /\ data.state = "synced"
    <3>1. /\ data' \in Data /\ data'.state = "synced" /\ data'.first = data.first
          /\ data'.acked = data.acked /\ data'.sent = head'
          /\ data'.commit = data.commit
        BY <1>0, <1>10, <2>1, <2>2, <2>3 DEF Output, Data
    <3>2. /\ data.first \in Seqs /\ data.sent \in Seqs /\ data.commit \in Seqs
          /\ data.acked \in Seqs /\ data.sent = head
          /\ data.first <= data.sent /\ data.first <= data.commit /\ data.commit <= head
        BY <2>3 DEF RelayInv, Fed
    <3>3. data.first <= head' /\ data.commit <= head' /\ head' <= head' /\ host
        BY <1>0, <2>2, <2>3, <3>2, SeqsAreNumbers DEF RelayInv
    <3> QED BY <1>0, <2>1, <2>2, <3>1, <3>2, <3>3 DEF RelayInv, Fed
  <2>4. CASE ~(IsOpen(data) /\ data.state = "synced")
    <3>1. data' = data
        BY <1>10, <2>4 DEF Output
    <3> QED BY <1>0, <2>1, <2>2, <2>4, <3>1 DEF RelayInv, Fed, IsOpen
  <2> QED BY <2>3, <2>4
<1>11. ASSUME NEW u \in upgrades, AcceptControl(u) \/ AcceptData(u) \/ Refuse(u)
       PROVE  Moves
  <2>1. UNCHANGED <<head, host>>
      BY <1>11 DEF AcceptControl, AcceptData, Refuse
  <2>2. CASE AcceptControl(u) \/ Refuse(u)
      BY <1>2, <2>1, <2>2 DEF AcceptControl, CloseData, Refuse
  <2>3. CASE AcceptData(u)
    <3>1. u \in Ticket
        BY <2>3 DEF AcceptData, Acceptable, ConnInv, ClientInv
    <3>2. data' \in Data /\ data'.state = "awaiting"
        BY <2>3, <3>1 DEF AcceptData, Data, Ticket, MaybeSeqs
    <3> QED BY <1>0, <2>1, <3>2 DEF RelayInv, Fed
  <2> QED BY <1>11, <2>2, <2>3
<1> QED BY <1>4, <1>5, <1>6, <1>7, <1>8, <1>9, <1>10, <1>11, <1>12 DEF SocketStep

\* The names of sockets that close, of resets and of attaches.
LEMMA NamesTyped ==
    ASSUME ConnInv, RelayTypes
    PROVE  /\ ControlName \subseteq Ticket /\ DataName \subseteq Ticket
           /\ IsOpen(control) => control.set \in Sets /\ gen \in Gens
<1>1. IsOpen(control) => control \in Control /\ control.gen = gen
    BY DEF ConnInv, SocketInv, IsOpen
<1>2. IsOpen(data) => data \in Data
    BY DEF RelayTypes, IsOpen
<1> QED BY <1>1, <1>2
        DEF ControlName, DataName, Named, ControlTicket, DataTicket, Ticket, Control, Data

LEMMA RelayRecords ==
    ASSUME ConnInv, AttachInv, Frames, RelayTypes, RelayActions
    PROVE  /\ closed' \subseteq Ticket /\ sets' = sets
           /\ resets' \subseteq Reset
           /\ attaching' \subseteq [set : Sets, gen : Gens, cursor : MaybeSeqs]
           /\ blame' \in {"none", "no delivered cursor", "exceeds delivered cursor",
                          "already attached", "replica cursor exceeds head",
                          "no data before attach"}
<1> DEFINE Typed ==
              /\ closed' \subseteq Ticket /\ sets' = sets
              /\ resets' \subseteq Reset
              /\ attaching' \subseteq [set : Sets, gen : Gens, cursor : MaybeSeqs]
              /\ blame' \in {"none", "no delivered cursor", "exceeds delivered cursor",
                             "already attached", "replica cursor exceeds head",
                             "no data before attach"}
<1>0. /\ closed \subseteq Ticket
      /\ resets \subseteq Reset
      /\ attaching \subseteq [set : Sets, gen : Gens, cursor : MaybeSeqs]
      /\ blame \in {"none", "no delivered cursor", "exceeds delivered cursor",
                    "already attached", "replica cursor exceeds head",
                    "no data before attach"}
    BY DEF RelayTypes
<1>1. ASSUME sets' = sets, closed' \subseteq closed \cup ControlName \cup DataName,
             resets' \subseteq resets, attaching' \subseteq attaching, blame' = blame
      PROVE  Typed
    BY <1>0, <1>1, NamesTyped
<1>2. ASSUME Relays PROVE Typed
  <2>1. ASSUME NEW u \in upgrades, AcceptControl(u) \/ AcceptData(u) \/ Refuse(u)
        PROVE  Typed
    <3> HIDE DEF Typed
    <3> QED BY <1>1, <2>1 DEF AcceptControl, AcceptData, Refuse, reservations
  <2>2. ASSUME NEW k \in closed, DataCloseHandled(k) PROVE Typed
    <3>1. /\ closed' = closed \ {k} /\ sets' = sets /\ attaching' = attaching
          /\ blame' = blame
          /\ \/ resets' = resets
             \/ k.gen = gen
                /\ resets' = resets \cup {[set |-> k.set, gen |-> gen, ready |-> FALSE]}
        BY <2>2 DEF DataCloseHandled, reservations
    <3>2. k.gen = gen => [set |-> k.set, gen |-> gen, ready |-> FALSE] \in Reset
        BY <1>0 DEF Ticket, Reset
    <3> QED BY <1>0, <3>1, <3>2
  <2>3. ASSUME NEW k \in closed, UnattachedDataCloseHandled(k) PROVE Typed
    <3> HIDE DEF Typed
    <3> QED BY <1>1, <2>3 DEF UnattachedDataCloseHandled
  <2>4. ASSUME NEW k \in closed, ControlCloseHandled(k) PROVE Typed
    <3>1. closed' \subseteq closed \cup DataName
        BY <2>4 DEF ControlCloseHandled
    <3> HIDE DEF Typed
    <3> QED BY <1>1, <2>4, <3>1 DEF ControlCloseHandled
  <2>5. ASSUME NEW r \in resets, EndReset(r) PROVE Typed
    <3>1. closed' \subseteq closed \cup DataName
        BY <2>5 DEF EndReset
    <3> HIDE DEF Typed
    <3> QED BY <1>1, <2>5, <3>1 DEF EndReset
  <2>6. ASSUME NEW a \in attaching, FinishAttach(a) PROVE Typed
    <3> HIDE DEF Typed
    <3> QED BY <1>1, <2>6 DEF FinishAttach, reservations
  <2>7. CASE ReceiveAttach
    <3> DEFINE v == AttachVerdict(control.set, up[1])
    <3>1. v \in {"stale", "no data before attach", "already attached",
                 "replica cursor exceeds head", "ok"}
        BY DEF AttachVerdict
    <3>2. Attach(up[1], v) /\ resets' = resets /\ IsOpen(control)
          /\ up[1].cursor \in MaybeSeqs
        BY <2>7, UpTyped DEF ReceiveAttach, ConnInv, SocketInv
    <3> HIDE DEF v
    <3>3. \/ /\ attaching' \subseteq attaching \cup
                       {[set |-> control.set, gen |-> gen, cursor |-> up[1].cursor]}
             /\ UNCHANGED <<sets, closed, blame>>
          \/ /\ attaching' = attaching /\ blame' = v /\ sets' = sets
             /\ v \in {"no data before attach", "already attached",
                       "replica cursor exceeds head"}
             /\ closed' \subseteq closed \cup ControlName \cup DataName
      <4>1. control.state \in {"awaiting", "active"}
          BY <3>2 DEF ConnInv, SocketInv, IsOpen, Control
      <4>2. CASE v = "ok" /\ control.state = "active"
          BY <3>2, <4>2 DEF Attach, reservations
      <4>3. CASE v = "stale" \/ (v = "ok" /\ control.state = "awaiting")
          BY <3>2, <4>3 DEF Attach, reservations
      <4>4. CASE v = "already attached"
          BY <3>2, <4>4 DEF Attach, Isolate
      <4>5. CASE v \in {"no data before attach", "replica cursor exceeds head"}
          BY <3>2, <4>5 DEF Attach, CloseProtocol, reservations
      <4> QED BY <3>1, <4>1, <4>2, <4>3, <4>4, <4>5
    <3>4. [set |-> control.set, gen |-> gen, cursor |-> up[1].cursor]
             \in [set : Sets, gen : Gens, cursor : MaybeSeqs]
        BY <3>2, NamesTyped
    <3> QED BY <1>0, <3>2, <3>3, <3>4, NamesTyped
  <2>8. CASE ReceiveAck
    <3> DEFINE v == AckVerdict(up[1])
    <3>1. v \in {"stale", "no delivered cursor", "exceeds delivered cursor", "ok"}
        BY DEF AckVerdict
    <3>2. /\ UNCHANGED <<resets, attaching, sets>>
          /\ \/ UNCHANGED <<closed, blame>>
             \/ /\ v \notin {"ok", "stale"} /\ blame' = v
                /\ closed' = closed \cup ControlName
        BY <2>8 DEF ReceiveAck, CloseProtocol, reservations
    <3> HIDE DEF v
    <3> QED BY <1>0, <3>1, <3>2, NamesTyped
  <2> HIDE DEF Typed
  <2> QED BY <1>2, <2>1, <2>2, <2>3, <2>4, <2>5, <2>6, <2>7, <2>8 DEF Relays
<1>3. ASSUME Recovers \/ HostLost \/ HostOutput PROVE Typed
  <2>1. UNCHANGED <<sets, closed, attaching, blame>> /\ resets' \subseteq resets
      BY <1>3 DEF Recovers, StartRecovery, Replay, HostLost, HostGone, HostOutput, Output,
                  reservations
  <2> HIDE DEF Typed
  <2> QED BY <1>1, <2>1
<1>4. ASSUME LosesControl \/ LosesData PROVE Typed
  <2>1. UNCHANGED <<sets, resets, attaching, blame>>
        /\ closed' \subseteq closed \cup ControlName \cup DataName
      BY <1>4 DEF LosesControl, ControlGone, LosesData, DataGone, reservations
  <2> HIDE DEF Typed
  <2> QED BY <1>1, <2>1
<1>5. ASSUME ResetBegins \/ HostReturns PROVE Typed
  <2>1. /\ UNCHANGED <<sets, closed, attaching, blame>>
        /\ \/ resets' = resets
           \/ /\ IsOpen(control)
              /\ \E ready \in BOOLEAN :
                    resets' = resets \cup {[set |-> control.set, gen |-> gen, ready |-> ready]}
      BY <1>5 DEF ResetBegins, BeginReset, HostReturns, HostReady, reservations
  <2>2. IsOpen(control) =>
           \A ready \in BOOLEAN : [set |-> control.set, gen |-> gen, ready |-> ready] \in Reset
      BY NamesTyped DEF Reset
  <2> QED BY <1>0, <2>1, <2>2
<1> HIDE DEF Typed
<1>6. Typed
    BY <1>2, <1>3, <1>4, <1>5 DEF RelayActions, Relay, Host
<1> QED BY <1>6 DEF Typed

C == page.connection
K == page.coordinator

\* The page's sockets, and the wires from them.
WireInv ==
    /\ ctlWire.set = C.set
    /\ dataWire.set = DataSocket(page).set /\ dataWire.gen = DataSocket(page).gen
    /\ C.data # "none" => C.control \in {"open", "closing"}
    /\ C.data = "none" => dataWire.frames = <<>>

\* Generations grow: the page's is below what the relay would promise next, and so is that of
\* every delivery on its way.  A generation that was only promised has delivered nothing.
Unspent == K.state \in {"awaiting", "closed"} /\ K.pending = <<>>
FenceInv ==
    /\ client = "reserved" => gen = 1
    /\ K.fence <= ReservedGen
    /\ K.fence = ReservedGen => Unspent
    /\ page.attempt = "offered" =>
          /\ page.offer.gen <= ReservedGen
          /\ K.fence = page.offer.gen => Unspent
    /\ \A i \in DOMAIN ctlWire.frames :
          ctlWire.frames[i].kind \in {"start", "resync"} => ctlWire.frames[i].gen < ReservedGen
    /\ IsOpen(data) => data.gen < ReservedGen
    /\ \A i \in DOMAIN dataWire.frames :
          dataWire.frames[i].kind \in {"event", "commit"} => dataWire.gen < ReservedGen

BaseInv == ConnInv /\ AttachInv /\ TypesInv /\ WireInv /\ FenceInv

-----------------------------------------------------------------------------
(* What the page may become *)

\* The new page is sound, and at most one frame was taken.
LEMMA OutcomeIs ==
    ASSUME PageInv, Frames, NEW q, NEW ctl, NEW dat, NEW h, Outcome(q, ctl, dat, h)
    PROVE  /\ Sound(q)
           /\ Kept(ctl, dat) \/ Heard(ctl, dat) \/ TakenData(ctl, dat)
           /\ q.attempt = "offered" => page.attempt = "offered" /\ q.offer = page.offer
<1>1. page.connection.current => page.attempt # "offered"
    BY DEF PageInv, Sound, PageFence
<1>2. ASSUME Stays(q, ctl, dat)
      PROVE  /\ Sound(q)
             /\ Kept(ctl, dat) \/ Heard(ctl, dat) \/ TakenData(ctl, dat)
             /\ q.attempt = "offered" => page.attempt = "offered" /\ q.offer = page.offer
    BY <1>2 DEF Stays, Quiet
<1>3. ASSUME Activates(q, ctl, dat)
      PROVE  Sound(q) /\ Kept(ctl, dat) /\ q.attempt # "offered"
    BY <1>3 DEF Activates
<1>4. ASSUME OpensControl(q, ctl, dat) \/ OpensData(q, ctl, dat) \/ DropsData(q, ctl, dat)
                \/ Resyncs(q, ctl, dat)
      PROVE  Sound(q) /\ (Heard(ctl, dat) \/ TakenData(ctl, dat)) /\ q.attempt # "offered"
    BY <1>4 DEF OpensControl, OpensData, DropsData, Resyncs
<1>5. ASSUME Starts(q, ctl, dat, h)
      PROVE  Sound(q) /\ Heard(ctl, dat) /\ q.attempt # "offered"
    BY <1>5 DEF Starts, Started
<1>6. ASSUME Takes(q, ctl, dat)
      PROVE  Sound(q) /\ TakenData(ctl, dat) /\ q.attempt # "offered"
    BY <1>1, <1>6 DEF Takes, Accepted
<1>7. ASSUME Flushes(q, ctl, dat)
      PROVE  Sound(q) /\ Kept(ctl, dat) /\ q.attempt # "offered"
    BY <1>7 DEF Flushes
<1> QED BY <1>2, <1>3, <1>4, <1>5, <1>6, <1>7 DEF Outcome

\* How the connection may change.
LEMMA OutcomeConnects ==
    ASSUME PageInv, Frames, NEW q, NEW ctl, NEW dat, NEW h, Outcome(q, ctl, dat, h)
    PROVE  \/ q.connection = NoConnection
           \/ Remains(page.connection, q.connection)
           \/ Activates(q, ctl, dat) /\ q.connection = NewConnection(page)
           \/ OpensControl(q, ctl, dat)
           \/ OpensData(q, ctl, dat) /\ q.connection.data = "open"
              /\ Changes(q, page.connection.gen, "open", "open")
              /\ page.connection.control = "open"
           \/ DropsData(q, ctl, dat)
           \/ Resyncs(q, ctl, dat) /\ q.connection.data = "opening"
              /\ Changes(q, Head(ctlWire.frames).gen, "open", "opening")
              /\ page.connection.control = "open"
<1>1. ASSUME q.connection = page.connection PROVE Remains(page.connection, q.connection)
    BY <1>1 DEF Remains
<1>2. CASE Stays(q, ctl, dat)
    BY <1>2 DEF Stays, Quiet
<1>3. CASE Activates(q, ctl, dat)
    BY <1>3 DEF Activates
<1>4. CASE OpensControl(q, ctl, dat) \/ DropsData(q, ctl, dat)
    BY <1>4
<1>5. CASE OpensData(q, ctl, dat)
    BY <1>5 DEF OpensData, Changes
<1>6. CASE Resyncs(q, ctl, dat)
    BY <1>6 DEF Resyncs, Changes
<1>7. CASE Starts(q, ctl, dat, h)
    BY <1>1, <1>7 DEF Starts, Started
<1>8. CASE Takes(q, ctl, dat)
    BY <1>1, <1>8 DEF Takes, Accepted
<1>9. CASE Flushes(q, ctl, dat)
    BY <1>1, <1>9 DEF Flushes
<1> QED BY <1>2, <1>3, <1>4, <1>5, <1>6, <1>7, <1>8, <1>9 DEF Outcome

-----------------------------------------------------------------------------
(* Types, and the wires of the page *)

\* The sockets of a page.
LEMMA SocketsOfPage ==
    ASSUME NEW q, Sound(q)
    PROVE  /\ q.connection \in Connection
           /\ q.connection.set \in 0 .. MaxSets /\ q.connection.gen \in 0 .. MaxGen
           /\ DataSocket(q).set \in 0 .. MaxSets /\ DataSocket(q).gen \in 0 .. MaxGen
           /\ Connected(q) => q.connection.set \in Sets /\ q.connection.gen \in Gens
           /\ q.connection.data # "none" =>
                 /\ Connected(q) /\ DataSocket(q).set = q.connection.set
                 /\ DataSocket(q).gen = q.connection.gen
           /\ q.connection.data = "none" =>
                 DataSocket(q) = NoSocket /\ DataSocket(q).set = 0 /\ DataSocket(q).gen = 0
           /\ q.connection.set # 0 <=> Connected(q)
           /\ DataSocket(q).set # 0 <=> q.connection.data # "none"
           /\ q.connection.data # "none" => q.connection.control # "none"
<1>1. q.connection \in Connection
    BY DEF Sound, PageShape, Page
<1>2. /\ Connected(q) => q.connection.set \in Sets /\ q.connection.gen \in Gens
      /\ q.connection.data # "none" => Connected(q) /\ q.connection.control # "none"
      /\ ~Connected(q) => q.connection.set = 0
    BY DEF Sound, PageShape, Connected, NoConnection
<1>3. q.connection.set \in 0 .. MaxSets /\ q.connection.gen \in 0 .. MaxGen
    BY <1>1 DEF Connection
<1>4. 0 \in 0 .. MaxSets /\ 0 \in 0 .. MaxGen /\ 0 \notin Sets
    BY Bounds DEF Sets
<1> QED BY <1>1, <1>2, <1>3, <1>4 DEF DataSocket, NoSocket

LEMMA PageFrames ==
    ASSUME Frames, PageInv, NEW q, NEW ctl, NEW dat, PageBecomes(q, ctl, dat), Sound(q),
           Kept(ctl, dat) \/ Heard(ctl, dat) \/ TakenData(ctl, dat)
    PROVE  Frames'
<1> DEFINE Control_ == [set : 0 .. MaxSets, gen : 0 .. MaxGen, frames : Seq(ControlFrame)]
           Data_ == [set : 0 .. MaxSets, gen : 0 .. MaxGen, frames : Seq(DataFrame)]
<1>1. ctlWire \in Control_ /\ dataWire \in Data_ /\ up \in Seq(PageFrame)
      /\ upgrades \subseteq Ticket
    BY DEF Frames
<1>2. ctl \in Control_ /\ dat \in Data_
  <2> HIDE DEF Control_, Data_
  <2>1. ctlWire.frames # <<>> => Untold(ctlWire) \in Control_
      BY <1>1, WireTyped DEF Control_
  <2>2. dataWire.frames # <<>> => Untold(dataWire) \in Data_
      BY <1>1, WireTyped DEF Data_
  <2> QED BY <1>1, <2>1, <2>2 DEF Kept, Heard, TakenData
<1>3. /\ Fresh(q.connection.set, 0) \in Control_
      /\ Fresh(DataSocket(q).set, DataSocket(q).gen) \in Data_
  <2>1. <<>> \in Seq(ControlFrame) /\ <<>> \in Seq(DataFrame) /\ 0 \in 0 .. MaxGen
      BY Bounds
  <2> QED BY <2>1, SocketsOfPage DEF Fresh
<1>4. ctlWire' \in Control_ /\ dataWire' \in Data_
  <2> HIDE DEF Control_, Data_
  <2> QED BY <1>2, <1>3, BecomesIs
<1>5. up' \in Seq(PageFrame)
  <2>1. q.out \in Seq(PageFrame)
      BY DEF Sound, PageShape, Page
  <2>2. up \o q.out \in Seq(PageFrame)
      BY <1>1, <2>1
  <2> QED BY <1>1, <2>2, BecomesIs
<1>6. upgrades' \subseteq Ticket
  <2>1. Connected(q) => /\ Opened(q, "control", q.connection.gen) \in Ticket
                        /\ Opened(q, "data", q.connection.gen) \in Ticket
      BY SocketsOfPage DEF Opened, Ticket
  <2>2. q.connection.data = "opening" => Connected(q)
      BY SocketsOfPage
  <2>3. /\ Named(q.connection.set # page.connection.set /\ Connected(q),
                 Opened(q, "control", q.connection.gen)) \subseteq Ticket
        /\ Named(DataSocket(q) # DataSocket(page) /\ q.connection.data = "opening",
                 Opened(q, "data", q.connection.gen)) \subseteq Ticket
      BY <2>1, <2>2 DEF Named
  <2> QED BY <1>1, <2>3, BecomesIs
<1> QED BY <1>4, <1>5, <1>6 DEF Frames

\* A callback leaves the relay as it was.
LEMMA PageLeavesRelay ==
    ASSUME NEW q, NEW ctl, NEW dat, PageBecomes(q, ctl, dat), Sound(q), RelayTypes, RelayInv
    PROVE  RelayTypes' /\ RelayInv' /\ ReservedGen' = ReservedGen
<1>1. UNCHANGED <<client, gen, sets, data, closed, resets, attaching, head, host, blame>>
    BY BecomesIs
<1> QED BY <1>1 DEF RelayTypes, RelayInv, IsOpen, Fed, ReservedGen

\* The wires still belong to the sockets.
LEMMA PageWires ==
    ASSUME Frames, PageInv, WireInv,
           NEW q, NEW ctl, NEW dat, NEW h, PageBecomes(q, ctl, dat), Outcome(q, ctl, dat, h)
    PROVE  /\ WireInv'
           /\ ctlWire' \in {ctlWire, Untold(ctlWire)} \/ ctlWire'.frames = <<>>
           /\ dataWire' \in {dataWire, Untold(dataWire)} \/ dataWire'.frames = <<>>
           /\ ctlWire' = Untold(ctlWire) => ctlWire.frames # <<>> \/ ctlWire'.frames = <<>>
           /\ dataWire' = Untold(dataWire) => dataWire.frames # <<>> \/ dataWire'.frames = <<>>
<1>1. /\ Sound(q) /\ Sound(page)
      /\ Kept(ctl, dat) \/ Heard(ctl, dat) \/ TakenData(ctl, dat)
    BY OutcomeIs DEF PageInv
<1>2. /\ page'.connection = q.connection
      /\ ctlWire' = IF q.connection.set # page.connection.set
                    THEN Fresh(q.connection.set, 0) ELSE ctl
      /\ dataWire' = IF DataSocket(q) # DataSocket(page)
                     THEN Fresh(DataSocket(q).set, DataSocket(q).gen) ELSE dat
    BY <1>1, BecomesIs
<1>3. DataSocket(page') = DataSocket(q)
    BY <1>2 DEF DataSocket
<1>4. /\ ctl.set = ctlWire.set /\ dat.set = dataWire.set /\ dat.gen = dataWire.gen
      /\ ctlWire.frames # <<>> \/ ctl = ctlWire
      /\ dataWire.frames # <<>> \/ dat = dataWire
    BY <1>1 DEF Kept, Heard, TakenData, Untold, Frames
<1>5. /\ ctlWire'.set = q.connection.set
      /\ dataWire'.set = DataSocket(q).set /\ dataWire'.gen = DataSocket(q).gen
    BY <1>2, <1>4 DEF Fresh, WireInv, C
<1>6. q.connection.data # "none" => q.connection.control \in {"open", "closing"}
  <2>1. CASE q.connection = NoConnection \/ Remains(page.connection, q.connection)
      BY <1>1, <2>1 DEF Remains, WireInv, C, NoConnection
  <2>2. CASE Activates(q, ctl, dat) /\ q.connection = NewConnection(page)
      BY <2>2 DEF NewConnection
  <2>3. CASE OpensControl(q, ctl, dat) \/ DropsData(q, ctl, dat)
      BY <2>3 DEF OpensControl, DropsData, Changes
  <2>4. CASE \E g : Changes(q, g, "open", "open") \/ Changes(q, g, "open", "opening")
      BY <2>4 DEF Changes
  <2> QED BY <2>1, <2>2, <2>3, <2>4, OutcomeConnects
<1>7. q.connection.data = "none" => dataWire'.frames = <<>>
  <2>1. q.connection.data = "none" => DataSocket(q) = NoSocket
      BY <1>1, SocketsOfPage
  <2>2. CASE DataSocket(q) # DataSocket(page)
      BY <1>2, <2>2 DEF Fresh
  <2>3. CASE DataSocket(q) = DataSocket(page) /\ q.connection.data = "none"
    <3>1. page.connection.data = "none"
        BY <1>1, <2>1, <2>3, SocketsOfPage DEF NoSocket
    <3> QED BY <1>2, <1>4, <2>3, <3>1 DEF WireInv, C
  <2> QED BY <2>2, <2>3
<1>8. WireInv'
    BY <1>2, <1>3, <1>5, <1>6, <1>7 DEF WireInv, C
<1>9. /\ ctlWire' \in {ctlWire, Untold(ctlWire)} \/ ctlWire'.frames = <<>>
      /\ dataWire' \in {dataWire, Untold(dataWire)} \/ dataWire'.frames = <<>>
    BY <1>1, <1>2 DEF Kept, Heard, TakenData, Fresh
<1>10. ctlWire' # ctlWire /\ ctlWire'.frames # <<>> => ctlWire.frames # <<>>
    BY <1>1, <1>2, <1>4 DEF Kept, Heard, TakenData, Fresh
<1>11. dataWire' # dataWire /\ dataWire'.frames # <<>> => dataWire.frames # <<>>
    BY <1>1, <1>2, <1>4 DEF Kept, Heard, TakenData, Fresh
<1>12. /\ ctlWire' = Untold(ctlWire) => ctlWire.frames # <<>> \/ ctlWire'.frames = <<>>
       /\ dataWire' = Untold(dataWire) => dataWire.frames # <<>> \/ dataWire'.frames = <<>>
  <2>1. CASE ctlWire' = ctlWire
      BY <2>1, <1>11
  <2> QED BY <1>10, <1>11
<1> QED BY <1>8, <1>9, <1>12

\* A callback adds no frame to a wire.
LEMMA PageKeepsFrames ==
    ASSUME Frames, PageInv, WireInv,
           NEW q, NEW ctl, NEW dat, NEW h, PageBecomes(q, ctl, dat), Outcome(q, ctl, dat, h)
    PROVE  /\ \A i \in DOMAIN ctlWire'.frames :
                 /\ ctlWire'.set = ctlWire.set
                 /\ \/ i \in DOMAIN ctlWire.frames /\ ctlWire'.frames[i] = ctlWire.frames[i]
                       /\ ctlWire' = ctlWire
                    \/ i + 1 \in DOMAIN ctlWire.frames
                       /\ ctlWire'.frames[i] = ctlWire.frames[i + 1]
                       /\ ctlWire' = Untold(ctlWire)
           /\ \A i \in DOMAIN dataWire'.frames :
                 /\ dataWire'.set = dataWire.set /\ dataWire'.gen = dataWire.gen
                 /\ \/ i \in DOMAIN dataWire.frames /\ dataWire'.frames[i] = dataWire.frames[i]
                       /\ dataWire' = dataWire
                    \/ i + 1 \in DOMAIN dataWire.frames
                       /\ dataWire'.frames[i] = dataWire.frames[i + 1]
                       /\ dataWire' = Untold(dataWire)
<1>1. /\ ctlWire' \in {ctlWire, Untold(ctlWire)} \/ ctlWire'.frames = <<>>
      /\ dataWire' \in {dataWire, Untold(dataWire)} \/ dataWire'.frames = <<>>
      /\ ctlWire' = Untold(ctlWire) => ctlWire.frames # <<>> \/ ctlWire'.frames = <<>>
      /\ dataWire' = Untold(dataWire) => dataWire.frames # <<>> \/ dataWire'.frames = <<>>
    BY PageWires
<1>2. ctlWire.frames \in Seq(ControlFrame) /\ dataWire.frames \in Seq(DataFrame)
    BY DEF Frames
<1>3. ctlWire.frames # <<>> =>
         /\ Untold(ctlWire).set = ctlWire.set /\ Untold(ctlWire).frames = Tail(ctlWire.frames)
         /\ \A i \in DOMAIN Tail(ctlWire.frames) :
               Tail(ctlWire.frames)[i] = ctlWire.frames[i + 1] /\ i + 1 \in DOMAIN ctlWire.frames
  <2>1. ctlWire \in [set : 0 .. MaxSets, gen : 0 .. MaxGen, frames : Seq(ControlFrame)]
      BY DEF Frames
  <2> QED BY <1>2, <2>1, WireTyped, FramesMove
<1>4. dataWire.frames # <<>> =>
         /\ Untold(dataWire).set = dataWire.set /\ Untold(dataWire).gen = dataWire.gen
         /\ Untold(dataWire).frames = Tail(dataWire.frames)
         /\ \A i \in DOMAIN Tail(dataWire.frames) :
               /\ Tail(dataWire.frames)[i] = dataWire.frames[i + 1]
               /\ i + 1 \in DOMAIN dataWire.frames
  <2>1. dataWire \in [set : 0 .. MaxSets, gen : 0 .. MaxGen, frames : Seq(DataFrame)]
      BY DEF Frames
  <2> QED BY <1>2, <2>1, WireTyped, FramesMove
<1>5. DOMAIN <<>> = {}
    OBVIOUS
<1>6. ASSUME NEW i \in DOMAIN ctlWire'.frames
      PROVE  /\ ctlWire'.set = ctlWire.set
             /\ \/ i \in DOMAIN ctlWire.frames /\ ctlWire'.frames[i] = ctlWire.frames[i]
                   /\ ctlWire' = ctlWire
                \/ i + 1 \in DOMAIN ctlWire.frames
                   /\ ctlWire'.frames[i] = ctlWire.frames[i + 1]
                   /\ ctlWire' = Untold(ctlWire)
  <2>1. ctlWire'.frames # <<>>
      BY <1>5
  <2>2. CASE ctlWire' = ctlWire
      BY <2>2
  <2>3. CASE ctlWire' = Untold(ctlWire)
      BY <1>1, <1>3, <2>1, <2>3
  <2> QED BY <1>1, <2>1, <2>2, <2>3
<1>7. ASSUME NEW i \in DOMAIN dataWire'.frames
      PROVE  /\ dataWire'.set = dataWire.set /\ dataWire'.gen = dataWire.gen
             /\ \/ i \in DOMAIN dataWire.frames /\ dataWire'.frames[i] = dataWire.frames[i]
                   /\ dataWire' = dataWire
                \/ i + 1 \in DOMAIN dataWire.frames
                   /\ dataWire'.frames[i] = dataWire.frames[i + 1]
                   /\ dataWire' = Untold(dataWire)
  <2>1. dataWire'.frames # <<>>
      BY <1>5
  <2>2. CASE dataWire' = dataWire
      BY <2>2
  <2>3. CASE dataWire' = Untold(dataWire)
      BY <1>1, <1>4, <2>1, <2>3
  <2> QED BY <1>1, <2>1, <2>2, <2>3
<1> QED BY <1>6, <1>7

-----------------------------------------------------------------------------
(* The fence *)

LEMMA GensAreNumbers ==
    ASSUME ConnInv, PageInv
    PROVE  /\ gen \in Int /\ ReservedGen \in Int
           /\ page.coordinator.fence \in Int /\ page.offer.gen \in Int
           /\ page.connection.gen \in Int
<1>1. gen \in Int /\ client \in {"none", "reserved", "registered"}
    BY Bounds DEF ConnInv, ClientInv
<1>2. ReservedGen \in Int
    BY <1>1 DEF ReservedGen
<1>3. /\ page.coordinator \in Coordinator /\ page.offer \in Offer
      /\ page.connection \in Connection
    BY DEF PageInv, Sound, PageShape, Page
<1>4. \A x \in 0 .. MaxGen : x \in Int
    OBVIOUS
<1> QED BY <1>1, <1>2, <1>3, <1>4 DEF Coordinator, Offer, Connection

\* What a callback makes of the fence and of a delivery that has nothing.
LEMMA OutcomeFence ==
    ASSUME BaseInv, NEW q, NEW ctl, NEW dat, NEW h, Outcome(q, ctl, dat, h)
    PROVE  /\ q.coordinator.fence <= ReservedGen
           /\ \A g \in {ReservedGen} \cup
                       (IF q.attempt = "offered" THEN {q.offer.gen} ELSE {}) :
                 q.coordinator.fence = g =>
                    q.coordinator.state \in {"awaiting", "closed"}
                    /\ q.coordinator.pending = <<>>
<1> DEFINE d == q.coordinator
           g(x) == x = ReservedGen \/ (q.attempt = "offered" /\ x = q.offer.gen)
           None == d.state \in {"awaiting", "closed"} /\ d.pending = <<>>
<1>0. /\ PageInv /\ Frames /\ ConnInv
      /\ K.fence <= ReservedGen
      /\ K.fence = ReservedGen => Unspent
      /\ page.attempt = "offered" => page.offer.gen <= ReservedGen
                                     /\ (K.fence = page.offer.gen => Unspent)
      /\ ReservedGen \in Int /\ K.fence \in Int
    BY GensAreNumbers DEF BaseInv, TypesInv, FenceInv, K
<1>1. /\ Sound(q)
      /\ q.attempt = "offered" => page.attempt = "offered" /\ q.offer = page.offer
    BY <1>0, OutcomeIs
<1>2. ASSUME d.fence = K.fence, Unspent => None
      PROVE  d.fence <= ReservedGen /\ \A x : g(x) => (d.fence = x => None)
    BY <1>0, <1>1, <1>2
<1>3. page.connection.current =>
         K.fence = page.connection.gen /\ page.attempt # "offered"
    BY <1>0 DEF PageInv, Sound, PageFence, K
<1>4. CASE Stays(q, ctl, dat)
  <2>1. /\ d.fence = K.fence
        /\ K.state \in {"awaiting", "closed"} => d.state \in {"awaiting", "closed"}
        /\ d.pending \in {K.pending, <<>>}
      BY <1>4 DEF Stays, Quiet, K
  <2> QED BY <1>2, <2>1 DEF Unspent
<1>5. CASE Activates(q, ctl, dat)
  <2>1. page.attempt = "offered" /\ d.fence = page.offer.gen /\ q.attempt = "control"
      BY <1>5 DEF Activates
  <2>2. \/ d.state = "awaiting" /\ d.pending = <<>>
        \/ K.fence = page.offer.gen /\ d = K
      BY <1>5 DEF Activates, K
  <2>3. None
      BY <1>0, <2>1, <2>2 DEF Unspent
  <2> QED BY <1>0, <2>1, <2>3
<1>6. CASE OpensControl(q, ctl, dat) \/ OpensData(q, ctl, dat) \/ DropsData(q, ctl, dat)
             \/ Flushes(q, ctl, dat)
  <2>1. d = K
      BY <1>6 DEF OpensControl, OpensData, DropsData, Flushes, K
  <2> QED BY <1>2, <2>1 DEF Unspent
<1>7. CASE Resyncs(q, ctl, dat)
  <2>1. /\ d.state = "awaiting" /\ d.pending = <<>> /\ ctlWire.frames # <<>>
        /\ d.fence = Head(ctlWire.frames).gen /\ Head(ctlWire.frames).kind = "resync"
        /\ q.attempt # "offered"
      BY <1>7 DEF Resyncs, Heard
  <2>2. d.fence < ReservedGen /\ d.fence \in Int
    <3>1. Head(ctlWire.frames) = ctlWire.frames[1] /\ 1 \in DOMAIN ctlWire.frames
          /\ ctlWire.frames[1] \in ControlFrame
        BY <1>0, <2>1, FramesHead
    <3>2. ctlWire.frames[1].gen \in Gens
        BY <2>1, <3>1 DEF ControlFrame
    <3> QED BY <2>1, <3>1, <3>2, SeqsAreNumbers DEF BaseInv, FenceInv
  <2> QED BY <1>0, <2>1, <2>2
<1>8. CASE Starts(q, ctl, dat, h)
  <2>1. /\ d.fence = K.fence /\ ctlWire.frames # <<>> /\ page.connection.current
        /\ K.fence = Head(ctlWire.frames).gen /\ Head(ctlWire.frames).kind = "start"
        /\ q.attempt # "offered"
      BY <1>3, <1>8 DEF Starts, Started, Heard, K
  <2>2. K.fence < ReservedGen
    <3>1. Head(ctlWire.frames) = ctlWire.frames[1] /\ 1 \in DOMAIN ctlWire.frames
        BY <1>0, <2>1, FramesHead
    <3> QED BY <2>1, <3>1 DEF BaseInv, FenceInv
  <2> QED BY <1>0, <2>1, <2>2
<1>9. CASE Takes(q, ctl, dat)
  <2>1. /\ d.fence = K.fence /\ dataWire.frames # <<>> /\ page.connection.current
        /\ Head(dataWire.frames).kind \in {"event", "commit"}
        /\ q.attempt # "offered"
      BY <1>3, <1>9 DEF Takes, Accepted, TakenData, K
  <2>2. K.fence < ReservedGen
    <3>1. Head(dataWire.frames) = dataWire.frames[1] /\ 1 \in DOMAIN dataWire.frames
        BY <1>0, <2>1, FramesHead
    <3>2. dataWire.gen < ReservedGen
        BY <2>1, <3>1 DEF BaseInv, FenceInv
    <3>3. dataWire.gen = page.connection.gen
        BY <2>1 DEF BaseInv, WireInv, DataSocket, C
    <3> QED BY <1>3, <2>1, <3>2, <3>3
  <2> QED BY <1>0, <2>1, <2>2
<1> QED BY <1>4, <1>5, <1>6, <1>7, <1>8, <1>9 DEF Outcome

\* A callback preserves what lies under every other part.
LEMMA PageKeepsBase ==
    ASSUME BaseInv, NEW q, NEW ctl, NEW dat, NEW h, PageBecomes(q, ctl, dat),
           Outcome(q, ctl, dat, h)
    PROVE  PageInv' /\ Frames' /\ RelayTypes' /\ RelayInv' /\ others' = others
           /\ WireInv' /\ FenceInv'
<1>0. PageInv /\ Frames /\ ConnInv /\ WireInv /\ RelayTypes /\ RelayInv
    BY DEF BaseInv, TypesInv
<1>1. /\ Sound(q)
      /\ Kept(ctl, dat) \/ Heard(ctl, dat) \/ TakenData(ctl, dat)
      /\ q.attempt = "offered" => page.attempt = "offered" /\ q.offer = page.offer
    BY <1>0, OutcomeIs
<1>2. PageInv' /\ Frames' /\ RelayTypes' /\ RelayInv' /\ others' = others /\ WireInv'
      /\ ReservedGen' = ReservedGen
    BY <1>0, <1>1, PageFrames, PageLeavesRelay, BecomesIs, PageWires
<1>3. /\ page'.coordinator = q.coordinator /\ page'.attempt = q.attempt /\ page'.offer = q.offer
      /\ UNCHANGED <<client, gen, data>>
    BY <1>1, BecomesIs
<1>4. /\ K'.fence <= ReservedGen
      /\ K'.fence = ReservedGen => Unspent'
      /\ page'.attempt = "offered" => (K'.fence = page'.offer.gen => Unspent')
    BY <1>3, OutcomeFence DEF K, Unspent
<1>5. page'.attempt = "offered" => page'.offer.gen <= ReservedGen
    BY <1>1, <1>3 DEF BaseInv, FenceInv
<1>6. \A i \in DOMAIN ctlWire'.frames :
         ctlWire'.frames[i].kind \in {"start", "resync"} => ctlWire'.frames[i].gen < ReservedGen
    BY <1>0, PageKeepsFrames DEF BaseInv, FenceInv
<1>7. \A i \in DOMAIN dataWire'.frames :
         dataWire'.frames[i].kind \in {"event", "commit"} => dataWire'.gen < ReservedGen
    BY <1>0, PageKeepsFrames DEF BaseInv, FenceInv
<1>8. (client' = "reserved" => gen' = 1) /\ (IsOpen(data)' => data'.gen < ReservedGen)
    BY <1>3 DEF BaseInv, FenceInv, IsOpen
<1>9. FenceInv'
    BY <1>2, <1>4, <1>5, <1>6, <1>7, <1>8 DEF FenceInv
<1> QED BY <1>2, <1>9

\* The client's row moves on only to the generation it promised.
LEMMA RowMoves ==
    ASSUME ConnInv, SocketStep
    PROVE  /\ UNCHANGED <<client, gen>> \/ (client' = "registered" /\ gen' = ReservedGen)
           /\ ReservedGen' \in Int /\ ReservedGen <= ReservedGen'
           /\ client' = "registered" => gen' < ReservedGen'
           /\ IsOpen(control) => client' = "registered"
<1>0. /\ gen \in Int /\ client \in {"none", "reserved", "registered"} /\ ReservedGen \in Int
      /\ IsOpen(control) => client = "registered"
  <2>1. gen \in Int /\ client \in {"none", "reserved", "registered"}
      BY Bounds DEF ConnInv, ClientInv
  <2> QED BY <2>1 DEF ReservedGen, ConnInv, SocketInv
<1>1. UNCHANGED <<client, gen>> \/ (client' = "registered" /\ gen' = ReservedGen)
  <2>1. CASE Closes \/ Attaches \/ Acknowledged \/ Rises
      BY <2>1 DEF Closes, Attaches, Acknowledged, Rises
  <2>2. CASE Renews
      BY <1>0, <2>2 DEF Renews, ReservedGen
  <2>3. CASE \/ HostGone \/ Replay \/ Output
             \/ \E mode \in {"warm", "snapshot"}, cut \in Seqs : StartRecovery(mode, cut)
      BY <2>3 DEF HostGone, Replay, Output, StartRecovery, reservations
  <2>4. ASSUME NEW u \in upgrades, AcceptControl(u) \/ AcceptData(u) \/ Refuse(u)
        PROVE  UNCHANGED <<client, gen>> \/ (client' = "registered" /\ gen' = ReservedGen)
      BY <2>4 DEF AcceptControl, AcceptData, Refuse, Acceptable, Claims, reservations
  <2> QED BY <2>1, <2>2, <2>3, <2>4 DEF SocketStep
<1> QED BY <1>0, <1>1 DEF ReservedGen

\* A data socket closes, stays the one it is, or is the one of a request.
LEMMA DataMoves ==
    ASSUME ConnInv, RelayTypes, RelayInv, SocketStep
    PROVE  \/ data' = NoSocket
           \/ data' = data
           \/ IsOpen(data) /\ SameSocket(data', data) /\ data' \in Data
           \/ \E u \in upgrades : AcceptData(u)
<1>0. /\ IsOpen(data) => data \in Data
      /\ data' \in Data \cup {NoSocket}
    BY DeliveryMoves DEF RelayTypes, IsOpen
<1>1. CASE Closes \/ Renews
    BY <1>1 DEF Closes, Renews, CloseData
<1>2. CASE Attaches
  <2>1. IsOpen(data)
      BY <1>2, Bounds
         DEF Attaches, HasData, SameSocket, IsOpen, NoSocket, ConnInv, SocketInv, Control, Sets
  <2>2. PICK cursor \in MaybeSeqs : AttachData(cursor)
      BY <1>2 DEF Attaches
  <2>3. data' = [data EXCEPT !.state = IF host THEN "catching" ELSE "missed",
                             !.first = cursor, !.acked = cursor, !.sent = cursor]
      BY <2>2 DEF AttachData
  <2> QED BY <1>0, <2>1, <2>3 DEF Data, SameSocket
<1>3. CASE Acknowledged
  <2>1. PICK cursor \in MaybeSeqs : data' = [data EXCEPT !.acked = cursor]
      BY <1>3 DEF Acknowledged
  <2>2. IsOpen(data)
      BY <1>3 DEF Acknowledged
  <2> QED BY <1>0, <2>1, <2>2 DEF Data, SameSocket
<1>4. CASE HostGone \/ Rises
  <2>1. \/ data' = data
        \/ IsOpen(data) /\ data' = [data EXCEPT !.state = Demoted(@)]
      BY <1>4 DEF HostGone, Rises
  <2>2. IsOpen(data) /\ data' # data => data'.set = data.set /\ data'.gen = data.gen
      BY <1>0, <2>1 DEF Data
  <2> QED BY <1>0, <2>1, <2>2 DEF SameSocket, IsOpen
<1>5. ASSUME NEW mode \in {"warm", "snapshot"}, NEW cut \in Seqs, StartRecovery(mode, cut)
      PROVE  IsOpen(data) /\ SameSocket(data', data) /\ data' \in Data
  <2>1. /\ IsOpen(data)
        /\ data' = [data EXCEPT !.state = "pinned", !.first = cut, !.acked = cut, !.sent = cut,
                                !.commit = head]
      BY <1>5 DEF StartRecovery
  <2>2. cut \in MaybeSeqs /\ head \in MaybeSeqs
      BY SeqsAreNumbers DEF RelayTypes
  <2> QED BY <1>0, <2>1, <2>2 DEF Data, SameSocket
<1>6. CASE Replay \/ Output
  <2>1. \/ data' = data
        \/ /\ IsOpen(data)
           /\ \/ \E n : data' = [data EXCEPT !.sent = n]
              \/ data' = [data EXCEPT !.state = "synced"]
      BY <1>6 DEF Replay, Output
  <2>2. IsOpen(data) /\ data' # data => data'.set = data.set /\ data'.gen = data.gen
      BY <1>0, <2>1 DEF Data
  <2> QED BY <1>0, <2>1, <2>2 DEF SameSocket
<1>7. ASSUME NEW u \in upgrades, AcceptControl(u) \/ AcceptData(u) \/ Refuse(u)
      PROVE  data' = NoSocket \/ data' = data \/ \E v \in upgrades : AcceptData(v)
    BY <1>7 DEF AcceptControl, CloseData, Refuse
<1> QED BY <1>1, <1>2, <1>3, <1>4, <1>5, <1>6, <1>7 DEF SocketStep

LEMMA FramesGrow ==
    ASSUME NEW T, NEW w, w \in [set : 0 .. MaxSets, gen : 0 .. MaxGen, frames : Seq(T)],
           NEW f \in T
    PROVE  /\ Onto(w, f).set = w.set /\ Onto(w, f).gen = w.gen
           /\ Onto(w, f).frames = Append(w.frames, f)
           /\ DOMAIN w.frames = 1 .. Len(w.frames) /\ Len(w.frames) \in Nat
           /\ DOMAIN Onto(w, f).frames = 1 .. Len(w.frames) + 1
           /\ Len(Onto(w, f).frames) = Len(w.frames) + 1
           /\ Onto(w, f).frames[Len(w.frames) + 1] = f
           /\ \A i \in DOMAIN Onto(w, f).frames :
                 \/ i \in DOMAIN w.frames /\ Onto(w, f).frames[i] = w.frames[i]
                 \/ i = Len(w.frames) + 1 /\ Onto(w, f).frames[i] = f
           /\ \A i \in DOMAIN w.frames :
                 i \in DOMAIN Onto(w, f).frames /\ Onto(w, f).frames[i] = w.frames[i]
           /\ Onto(w, f).frames # <<>>
<1>1. w.frames \in Seq(T)
    OBVIOUS
<1>2. /\ Onto(w, f).set = w.set /\ Onto(w, f).gen = w.gen
      /\ Onto(w, f).frames = Append(w.frames, f)
    BY <1>1 DEF Onto
<1> QED BY <1>1, <1>2, FramesMove

\* The frames that the relay has added to a wire.
LEMMA RelayAddsFrames ==
    ASSUME ConnInv, Frames, RelayTypes, RelayInv, SocketStep
    PROVE  /\ ctlWire'.set = ctlWire.set
           /\ dataWire'.set = dataWire.set /\ dataWire'.gen = dataWire.gen
           /\ \A i \in DOMAIN ctlWire'.frames :
                 \/ i \in DOMAIN ctlWire.frames /\ ctlWire'.frames[i] = ctlWire.frames[i]
                 \/ ControlSends(ctlWire'.frames[i])
           /\ \A i \in DOMAIN dataWire'.frames :
                 \/ i \in DOMAIN dataWire.frames /\ dataWire'.frames[i] = dataWire.frames[i]
                 \/ DataSends(dataWire'.frames[i]) /\ i = Len(dataWire.frames) + 1
           /\ \A i \in DOMAIN ctlWire.frames :
                 i \in DOMAIN ctlWire'.frames /\ ctlWire'.frames[i] = ctlWire.frames[i]
           /\ \A i \in DOMAIN dataWire.frames :
                 i \in DOMAIN dataWire'.frames /\ dataWire'.frames[i] = dataWire.frames[i]
<1>1. /\ ctlWire \in [set : 0 .. MaxSets, gen : 0 .. MaxGen, frames : Seq(ControlFrame)]
      /\ dataWire \in [set : 0 .. MaxSets, gen : 0 .. MaxGen, frames : Seq(DataFrame)]
    BY DEF Frames
<1>2. /\ ctlWire'.set = ctlWire.set
      /\ \A i \in DOMAIN ctlWire'.frames :
            \/ i \in DOMAIN ctlWire.frames /\ ctlWire'.frames[i] = ctlWire.frames[i]
            \/ ControlSends(ctlWire'.frames[i])
      /\ \A i \in DOMAIN ctlWire.frames :
            i \in DOMAIN ctlWire'.frames /\ ctlWire'.frames[i] = ctlWire.frames[i]
  <2> DEFINE Grown(w) ==
                /\ w \in [set : 0 .. MaxSets, gen : 0 .. MaxGen, frames : Seq(ControlFrame)]
                /\ w.set = ctlWire.set
                /\ \A i \in DOMAIN w.frames :
                      \/ i \in DOMAIN ctlWire.frames /\ w.frames[i] = ctlWire.frames[i]
                      \/ ControlSends(w.frames[i])
                /\ \A i \in DOMAIN ctlWire.frames :
                      i \in DOMAIN w.frames /\ w.frames[i] = ctlWire.frames[i]
  <2>1. Grown(ctlWire)
      BY <1>1
  <2>2. ASSUME NEW w, Grown(w), NEW f \in ControlFrame, ControlSends(f) PROVE Grown(Onto(w, f))
    <3>1. w \in [set : 0 .. MaxSets, gen : 0 .. MaxGen, frames : Seq(ControlFrame)]
        BY <2>2
    <3>2. /\ Onto(w, f).set = w.set
          /\ \A i \in DOMAIN Onto(w, f).frames :
                \/ i \in DOMAIN w.frames /\ Onto(w, f).frames[i] = w.frames[i]
                \/ Onto(w, f).frames[i] = f
          /\ \A i \in DOMAIN w.frames :
                i \in DOMAIN Onto(w, f).frames /\ Onto(w, f).frames[i] = w.frames[i]
        BY <3>1, FramesGrow
    <3>3. Onto(w, f) \in [set : 0 .. MaxSets, gen : 0 .. MaxGen, frames : Seq(ControlFrame)]
        BY <3>1, WireTyped
    <3> QED BY <2>2, <3>2, <3>3
  <2>3. Grown(ctlWire')
    <3> HIDE DEF Grown
    <3>1. ASSUME NEW f \in ControlFrame, ControlSends(f)
          PROVE  Frame("offline") \in ControlFrame /\ ControlSends(Frame("offline"))
        BY <3>1, SentFrames DEF ControlSends
    <3>2. ASSUME NEW f \in ControlFrame, ControlSends(f)
          PROVE  Grown(Onto(ctlWire, f)) /\ Grown(Onto(Onto(ctlWire, f), Frame("offline")))
        BY <2>1, <2>2, <3>1, <3>2
    <3> QED BY <2>1, <3>2, SocketStepSends DEF ControlSaid
  <2> QED BY <2>3
<1>3. /\ dataWire'.set = dataWire.set /\ dataWire'.gen = dataWire.gen
      /\ \A i \in DOMAIN dataWire'.frames :
            \/ i \in DOMAIN dataWire.frames /\ dataWire'.frames[i] = dataWire.frames[i]
            \/ DataSends(dataWire'.frames[i]) /\ i = Len(dataWire.frames) + 1
      /\ \A i \in DOMAIN dataWire.frames :
            i \in DOMAIN dataWire'.frames /\ dataWire'.frames[i] = dataWire.frames[i]
  <2>1. CASE dataWire' = dataWire
      BY <2>1
  <2>2. ASSUME NEW f \in DataFrame, DataSends(f)
        PROVE  /\ dataWire'.set = dataWire.set /\ dataWire'.gen = dataWire.gen
               /\ \A i \in DOMAIN dataWire'.frames :
                     \/ i \in DOMAIN dataWire.frames /\ dataWire'.frames[i] = dataWire.frames[i]
                     \/ DataSends(dataWire'.frames[i]) /\ i = Len(dataWire.frames) + 1
               /\ \A i \in DOMAIN dataWire.frames :
                     i \in DOMAIN dataWire'.frames /\ dataWire'.frames[i] = dataWire.frames[i]
    <3>1. dataWire' = Onto(dataWire, f)
        BY <2>2 DEF DataSends
    <3>2. /\ Onto(dataWire, f).set = dataWire.set /\ Onto(dataWire, f).gen = dataWire.gen
          /\ \A i \in DOMAIN Onto(dataWire, f).frames :
                \/ /\ i \in DOMAIN dataWire.frames
                   /\ Onto(dataWire, f).frames[i] = dataWire.frames[i]
                \/ i = Len(dataWire.frames) + 1 /\ Onto(dataWire, f).frames[i] = f
          /\ \A i \in DOMAIN dataWire.frames :
                /\ i \in DOMAIN Onto(dataWire, f).frames
                /\ Onto(dataWire, f).frames[i] = dataWire.frames[i]
        BY <1>1, FramesGrow
    <3> QED BY <2>2, <3>1, <3>2
  <2> QED BY <2>1, <2>2, SocketStepSends
<1> QED BY <1>2, <1>3

LEMMA RelayKeepsBase ==
    ASSUME BaseInv, RelayActions
    PROVE  PageInv' /\ Frames' /\ RelayTypes' /\ RelayInv' /\ others' = others
           /\ WireInv' /\ FenceInv'
<1>0. /\ ConnInv /\ AttachInv /\ PageInv /\ Frames /\ WireInv /\ RelayTypes /\ RelayInv
    BY DEF BaseInv, TypesInv
<1>1. SocketStep /\ page' = page /\ others' = others
    BY <1>0, RelayStepIs
<1>2. PageInv'
    BY <1>0, <1>1 DEF PageInv
<1>3. Frames'
    BY <1>0, RelayFrames
<1>4. RelayInv' /\ RelayTypes'
  <2>1. data' \in Data \cup {NoSocket} /\ RelayInv' /\ head' \in Seqs /\ host' \in BOOLEAN
      BY <1>0, <1>1, DeliveryMoves
  <2>2. /\ closed' \subseteq Ticket /\ sets' = sets
        /\ resets' \subseteq Reset
        /\ attaching' \subseteq [set : Sets, gen : Gens, cursor : MaybeSeqs]
        /\ blame' \in {"none", "no delivered cursor", "exceeds delivered cursor",
                       "already attached", "replica cursor exceeds head",
                       "no data before attach"}
      BY <1>0, RelayRecords
  <2> QED BY <1>0, <2>1, <2>2 DEF RelayTypes
<1>5. WireInv'
  <2>1. /\ ctlWire'.set = ctlWire.set
        /\ dataWire'.set = dataWire.set /\ dataWire'.gen = dataWire.gen
        /\ dataWire' = dataWire \/ dataWire.set \in Sets
      BY <1>0, <1>1, RelayAddsFrames, SocketStepSends DEF DataSends
  <2>2. C.data = "none" => dataWire.set = 0
      BY <1>0 DEF WireInv, C, DataSocket, NoSocket
  <2>3. 0 \notin Sets
      BY Bounds DEF Sets
  <2> QED BY <1>0, <1>1, <2>1, <2>2, <2>3 DEF WireInv, C, DataSocket
<1>6. FenceInv'
  <2>1. /\ UNCHANGED <<client, gen>> \/ (client' = "registered" /\ gen' = ReservedGen)
        /\ ReservedGen' \in Int /\ ReservedGen <= ReservedGen'
        /\ client' = "registered" => gen' < ReservedGen'
        /\ IsOpen(control) => client' = "registered"
      BY <1>0, <1>1, RowMoves
  <2>2. ReservedGen \in Int /\ K.fence \in Int /\ page.offer.gen \in Int /\ gen \in Int
      BY <1>0, GensAreNumbers DEF K
  <2>3. \A x \in Int : (x <= ReservedGen => x <= ReservedGen')
                       /\ (x < ReservedGen => x < ReservedGen')
                       /\ (x <= ReservedGen /\ x = ReservedGen' => x = ReservedGen)
      BY <2>1, <2>2
  <2>4. client' = "reserved" => gen' = 1
      BY <2>1 DEF BaseInv, FenceInv
  <2>5. K.fence <= ReservedGen' /\ (K.fence = ReservedGen' => Unspent)
      BY <2>2, <2>3 DEF BaseInv, FenceInv
  <2>6. page.attempt = "offered" =>
           page.offer.gen <= ReservedGen' /\ (K.fence = page.offer.gen => Unspent)
      BY <2>2, <2>3 DEF BaseInv, FenceInv
  <2>7. ASSUME NEW i \in DOMAIN ctlWire'.frames,
               ctlWire'.frames[i].kind \in {"start", "resync"}
        PROVE  ctlWire'.frames[i].gen < ReservedGen'
    <3>1. CASE i \in DOMAIN ctlWire.frames /\ ctlWire'.frames[i] = ctlWire.frames[i]
      <4>1. ctlWire.frames[i].gen \in Int
        <5>1. ctlWire.frames[i] \in ControlFrame
            BY <1>0, <3>1 DEF Frames
        <5>2. ctlWire.frames[i].gen \in Gens
            BY <2>7, <3>1, <5>1 DEF ControlFrame
        <5> QED BY <5>2, SeqsAreNumbers
      <4>2. ctlWire.frames[i].gen < ReservedGen
          BY <2>7, <3>1 DEF BaseInv, FenceInv
      <4> QED BY <2>3, <3>1, <4>1, <4>2
    <3>2. CASE ControlSends(ctlWire'.frames[i])
        BY <2>1, <2>7, <3>2 DEF ControlSends
    <3> QED BY <1>0, <1>1, <3>1, <3>2, RelayAddsFrames
  <2>8. IsOpen(data)' => data'.gen < ReservedGen'
    <3>1. CASE data' = NoSocket
        BY <3>1 DEF IsOpen
    <3>2. CASE IsOpen(data) /\ data'.gen = data.gen
      <4>1. data.gen \in Int
          BY <1>0, <3>2, SeqsAreNumbers DEF RelayTypes, Data, IsOpen
      <4>2. data.gen < ReservedGen
          BY <3>2 DEF BaseInv, FenceInv
      <4> QED BY <2>3, <3>2, <4>1, <4>2
    <3>3. ASSUME NEW u \in upgrades, AcceptData(u) PROVE data'.gen < ReservedGen'
      <4>1. data'.gen = u.gen /\ u.gen = gen /\ gen' = gen /\ control.set = u.set
            /\ u \in Ticket
          BY <1>0, <3>3 DEF AcceptData, Acceptable, ConnInv, ClientInv
      <4>2. IsOpen(control)
          BY <4>1, Bounds DEF Ticket, Sets, IsOpen, NoSocket
      <4> QED BY <2>1, <4>1, <4>2
    <3>4. IsOpen(data)' => data' # NoSocket
        BY DEF IsOpen
    <3> QED BY <1>0, <1>1, <3>1, <3>2, <3>3, <3>4, DataMoves DEF SameSocket, IsOpen
  <2>9. ASSUME NEW i \in DOMAIN dataWire'.frames,
               dataWire'.frames[i].kind \in {"event", "commit"}
        PROVE  dataWire'.gen < ReservedGen'
    <3>1. dataWire'.gen = dataWire.gen /\ dataWire.gen \in Int
        BY <1>0, <1>1, RelayAddsFrames DEF Frames
    <3>2. dataWire.gen < ReservedGen
      <4>1. CASE i \in DOMAIN dataWire.frames /\ dataWire'.frames[i] = dataWire.frames[i]
          BY <2>9, <4>1 DEF BaseInv, FenceInv
      <4>2. CASE DataSends(dataWire'.frames[i])
          BY <2>9, <4>2 DEF DataSends, HoldsData, SameSocket, BaseInv, FenceInv
      <4> QED BY <1>0, <1>1, <4>1, <4>2, RelayAddsFrames
    <3> QED BY <2>3, <3>1, <3>2
  <2>10. K' = K /\ page' = page /\ (Unspent => Unspent')
      BY <1>1 DEF K, Unspent
  <2> QED BY <2>4, <2>5, <2>6, <2>7, <2>8, <2>9, <2>10 DEF FenceInv
<1> QED BY <1>1, <1>2, <1>3, <1>4, <1>5, <1>6

-----------------------------------------------------------------------------
(* The other steps *)

\* What a reservation leaves of the relay.
LEMMA ReserveIs ==
    ASSUME ConnInv, RelayTypes, RelayInv, Reserve
    PROVE  /\ UNCHANGED <<upgrades, control, data, closed, resets, attaching, head, host, wires,
                          blame>>
           /\ RelayTypes' /\ RelayInv' /\ ReservedGen' = ReservedGen
           /\ ReservedGen \in Gens /\ sets + 1 \in Sets /\ sets' = sets + 1
           /\ tickets' = [set : {sets + 1}, channel : {"control", "data"}, gen : {ReservedGen}]
           /\ tickets' \subseteq Ticket
           /\ client' = "reserved" => gen' = 1 \/ (client = "reserved" /\ gen' = gen)
           /\ IsOpen(control) => gen' = gen
<1>1. /\ UNCHANGED <<upgrades, control, data, closed, resets, attaching, head, host, wires,
                     blame>>
      /\ sets < MaxSets /\ sets' = sets + 1
      /\ tickets' = [set : {sets + 1}, channel : {"control", "data"}, gen : {ReservedGen}]
      /\ IF client = "none" THEN client' = "reserved" /\ gen' = 1 ELSE UNCHANGED <<client, gen>>
      /\ ReservedGen <= MaxGen
    BY DEF Reserve
<1>2. client \in {"none", "reserved", "registered"} /\ gen \in 0 .. MaxGen
      /\ (client = "reserved" => gen \in Gens) /\ sets \in 0 .. MaxSets
    BY DEF ConnInv, ClientInv, RelayTypes
<1>3. ReservedGen \in Gens /\ sets + 1 \in Sets
    BY <1>1, <1>2, Bounds DEF ReservedGen, Gens, Sets
<1>4. ReservedGen' = ReservedGen
    BY <1>1, <1>2 DEF ReservedGen
<1>5. RelayTypes' /\ RelayInv'
  <2>1. sets + 1 \in 0 .. MaxSets
      BY <1>3, Bounds DEF Sets
  <2> QED BY <1>1, <2>1 DEF RelayTypes, RelayInv, IsOpen, Fed
<1>6. tickets' \subseteq Ticket
    BY <1>1, <1>3 DEF Ticket
<1>7. IsOpen(control) => gen' = gen
    BY <1>1 DEF ConnInv, SocketInv
<1> QED BY <1>1, <1>3, <1>4, <1>5, <1>6, <1>7

LEMMA ReserveSetKeepsBase ==
    ASSUME BaseInv, ReserveSet
    PROVE  PageInv' /\ Frames' /\ RelayTypes' /\ RelayInv' /\ others' = others
           /\ WireInv' /\ FenceInv'
<1>0. /\ ConnInv /\ AttachInv /\ PageInv /\ Frames /\ WireInv /\ RelayTypes /\ RelayInv
      /\ Reserve /\ others' = others
    BY DEF BaseInv, TypesInv, ReserveSet
<1> DEFINE o == [set |-> sets + 1, gen |-> ReservedGen]
<1>1. /\ page.attempt = "reserving"
      /\ page' = [page EXCEPT !.attempt = "offered", !.offer = o]
    BY DEF ReserveSet
<1>2. /\ UNCHANGED <<upgrades, control, data, closed, resets, attaching, head, wires, blame>>
      /\ RelayTypes' /\ RelayInv' /\ ReservedGen' = ReservedGen
      /\ ReservedGen \in Gens /\ sets + 1 \in Sets
      /\ client' = "reserved" => gen' = 1 \/ (client = "reserved" /\ gen' = gen)
    BY <1>0, ReserveIs
<1>3. o \in Offer /\ o.gen = ReservedGen /\ o.set = sets + 1
    BY <1>2, Bounds DEF Offer, Gens, Sets
<1> HIDE DEF o
<1>4. /\ page' \in Page
      /\ page'.attempt = "offered" /\ page'.offer = o
      /\ page'.connection = page.connection /\ page'.coordinator = page.coordinator
      /\ page'.acks = page.acks /\ page'.out = page.out /\ page'.phase = page.phase
    BY <1>0, <1>1, <1>3 DEF PageInv, Sound, PageShape, Page, Attempt
<1>5. ~page.connection.current /\ page.phase # "closed"
    BY <1>0, <1>1 DEF PageInv, Sound, PageFence
<1>6. page.coordinator.fence <= ReservedGen
    BY DEF BaseInv, FenceInv, K
<1>7. Sound(page')
  <2>1. PageShape(page')
      BY <1>0, <1>2, <1>3, <1>4 DEF PageInv, Sound, PageShape
  <2>2. PageFence(page')
      BY <1>0, <1>3, <1>4, <1>5, <1>6 DEF PageInv, Sound, PageFence
  <2> QED BY <1>0, <1>4, <2>1, <2>2 DEF PageInv, Sound
<1>8. PageInv' /\ Frames' /\ WireInv'
    BY <1>0, <1>2, <1>4, <1>7 DEF PageInv, Frames, WireInv, wires, C, DataSocket
<1>9. FenceInv'
  <2>1. K' = K /\ (Unspent => Unspent') /\ ctlWire' = ctlWire /\ dataWire' = dataWire
        /\ data' = data
      BY <1>2, <1>4 DEF K, Unspent, wires
  <2>2. ReservedGen <= ReservedGen
      BY <1>2, SeqsAreNumbers
  <2> QED BY <1>2, <1>3, <1>4, <2>1, <2>2 DEF BaseInv, FenceInv, IsOpen
<1> QED BY <1>0, <1>2, <1>8, <1>9

\* The page, the data socket and the frames are left alone.
LEMMA RestKeepsBase ==
    ASSUME BaseInv, UNCHANGED <<page, data, ctlWire, dataWire>>, ReservedGen' = ReservedGen,
           client' = "reserved" => gen' = 1
    PROVE  PageInv' /\ WireInv' /\ FenceInv'
<1>1. K' = K /\ (Unspent => Unspent')
    BY DEF K, Unspent
<1> QED BY <1>1 DEF BaseInv, TypesInv, PageInv, WireInv, C, DataSocket, FenceInv, IsOpen

LEMMA OthersKeepBase ==
    ASSUME BaseInv, OtherReserves \/ OtherConnects \/ TicketsLapse \/ UNCHANGED vars
    PROVE  PageInv' /\ Frames' /\ RelayTypes' /\ RelayInv' /\ others' \subseteq Ticket
           /\ WireInv' /\ FenceInv'
<1>0. /\ ConnInv /\ RelayTypes /\ RelayInv /\ Frames /\ others \subseteq Ticket
      /\ client = "reserved" => gen = 1
    BY DEF BaseInv, TypesInv, OtherTypes, FenceInv
<1>1. CASE OtherReserves
  <2>1. /\ Reserve /\ others' = others \cup tickets' /\ page' = page
      BY <1>1 DEF OtherReserves
  <2>2. /\ UNCHANGED <<upgrades, data, ctlWire, dataWire, up>>
        /\ RelayTypes' /\ RelayInv' /\ ReservedGen' = ReservedGen /\ tickets' \subseteq Ticket
        /\ client' = "reserved" => gen' = 1
      BY <1>0, <2>1, ReserveIs DEF wires
  <2>3. Frames'
      BY <1>0, <2>2 DEF Frames
  <2> QED BY <1>0, <2>1, <2>2, <2>3, RestKeepsBase
<1>2. CASE OtherConnects
  <2>1. PICK t \in others : upgrades' = upgrades \cup {t} /\ others' = others \ {t}
      BY <1>2 DEF OtherConnects
  <2>2. /\ UNCHANGED <<client, gen, sets, tickets, control, data, closed, resets, attaching,
                       head, host, ctlWire, dataWire, up, blame, page>>
      BY <1>2 DEF OtherConnects, reservations, wires
  <2>3. Frames' /\ RelayTypes' /\ RelayInv' /\ ReservedGen' = ReservedGen
      BY <1>0, <2>1, <2>2 DEF Frames, RelayTypes, RelayInv, Fed, IsOpen, ReservedGen
  <2> QED BY <1>0, <2>1, <2>2, <2>3, RestKeepsBase
<1>3. CASE TicketsLapse
  <2>1. /\ UNCHANGED <<sets, upgrades, control, data, closed, resets, attaching, head, host,
                       ctlWire, dataWire, up, blame, page, others>>
        /\ client' = IF client = "reserved" THEN "none" ELSE client
        /\ gen' = IF client = "reserved" THEN 0 ELSE gen
      BY <1>3 DEF TicketsLapse, TicketsExpire, wires
  <2>2. Frames' /\ RelayTypes' /\ RelayInv'
      BY <1>0, <2>1 DEF Frames, RelayTypes, RelayInv, Fed, IsOpen
  <2>3. ReservedGen' = ReservedGen /\ (client' = "reserved" => gen' = 1)
      BY <1>0, <2>1 DEF ReservedGen
  <2> QED BY <1>0, <2>1, <2>2, <2>3, RestKeepsBase
<1>4. CASE UNCHANGED vars
  <2>1. UNCHANGED <<client, gen, sets, tickets, upgrades, control, data, closed, resets,
                    attaching, head, host, ctlWire, dataWire, up, blame, page, others>>
      BY <1>4 DEF vars, relayVars
  <2>2. Frames' /\ RelayTypes' /\ RelayInv' /\ ReservedGen' = ReservedGen
      BY <1>0, <2>1 DEF Frames, RelayTypes, RelayInv, Fed, IsOpen, ReservedGen
  <2> QED BY <1>0, <2>1, <2>2, RestKeepsBase
<1> QED BY <1>1, <1>2, <1>3, <1>4

LEMMA FaultsCounted ==
    ASSUME faults \in 0 .. MaxFaults, [Next]_vars PROVE faults' \in 0 .. MaxFaults
<1>0. MaxFaults \in Nat
    BY BrowserConnectionAssumption DEF BrowserConnectionAssumption
<1>1. ASSUME Fault \/ NoFault \/ Late PROVE faults' \in 0 .. MaxFaults
    BY <1>0, <1>1 DEF Fault, NoFault, Late
<1>2. CASE Attempts \/ Sockets \/ Waits \/ Reconnects \/ Retries \/ RestoreEnds
    BY <1>1, <1>2 DEF Attempts, Begin, ReserveSet, ActivateConnection, Sockets, ControlArrives,
       DataArrives, Waits, Acknowledges, GraceEnds, WatchdogFires, RestoreLate, Reconnects,
       Retries, RestoreEnds
<1>3. CASE \/ ReservationFails \/ ReservationRefused \/ ControlSeenClosing \/ RestoreErrs
           \/ Heartbeats \/ UserReconnects \/ UserCloses
    BY <1>1, <1>3 DEF ReservationFails, ReservationRefused, ControlSeenClosing, RestoreErrs,
       Heartbeats, UserReconnects, UserCloses
<1>4. CASE OtherReserves
    BY <1>0, <1>4 DEF OtherReserves
<1>5. CASE \/ OtherConnects \/ LosesControl \/ LosesData \/ TicketsLapse \/ HostLost
           \/ ResetBegins
    BY <1>1, <1>5 DEF OtherConnects, LosesControl, LosesData, TicketsLapse, HostLost,
       ResetBegins
<1>6. CASE HostReturns \/ Relay \/ Host \/ HostOutput \/ UNCHANGED vars
    BY <1>6 DEF HostReturns, Relay, Host, HostOutput, vars
<1> QED BY <1>2, <1>3, <1>4, <1>5, <1>6 DEF Next

\* The page's sequence numbers are within their type.
LEMMA BehindTheBound ==
    ASSUME PageInv, Frames PROVE Behind(MaxSeq) /\ MaxSeq \in Int
<1>1. page.coordinator \in Coordinator
    BY DEF PageInv, Sound, PageShape, Page
<1>2. /\ page.coordinator.cursor \in MaybeSeqs /\ page.coordinator.received \in MaybeSeqs
      /\ page.coordinator.pending \in Seq(DataFrame)
    BY <1>1 DEF Coordinator
<1>3. \A x \in MaybeSeqs : x <= MaxSeq
    BY Bounds DEF MaybeSeqs, Seqs, NoSeq
<1>4. ASSUME NEW i \in DOMAIN page.coordinator.pending
      PROVE  page.coordinator.pending[i].seq <= MaxSeq
  <2>1. page.coordinator.pending[i] \in DataFrame
      BY <1>2
  <2>2. page.coordinator.pending[i].kind \in {"event", "commit"}
      BY DEF PageInv, Sound, PageDelivery
  <2>3. page.coordinator.pending[i].seq \in Seqs
      BY <2>1, <2>2 DEF DataFrame
  <2> QED BY <2>3, SeqsAreNumbers
<1>5. ASSUME NEW i \in DOMAIN ctlWire.frames, ctlWire.frames[i].kind = "start"
      PROVE  ctlWire.frames[i].cut <= MaxSeq
  <2>1. ctlWire.frames[i] \in ControlFrame
      BY DEF Frames
  <2>2. ctlWire.frames[i].cut \in Seqs
      BY <1>5, <2>1 DEF ControlFrame
  <2> QED BY <2>2, SeqsAreNumbers
<1> QED BY <1>2, <1>3, <1>4, <1>5, Bounds DEF Behind

\* Every step of the system is one of the page, of the relay, or of something else.
LEMMA StepIs ==
    ASSUME [Next]_vars
    PROVE  \/ PageActions \/ RelayActions \/ ReserveSet
           \/ OtherReserves \/ OtherConnects \/ TicketsLapse \/ UNCHANGED vars
BY DEF Next, Attempts, PageActions, RelayActions

LEMMA StepKeepsBase ==
    ASSUME BaseInv, [Next]_vars PROVE BaseInv'
<1>0. ConnInv /\ AttachInv /\ PageInv /\ Frames /\ OtherTypes
    BY DEF BaseInv, TypesInv
<1>1. ConnInv' /\ AttachInv'
    BY <1>0, StepPreservesConnInv, StepPreservesAttachInv
<1>2. faults' \in 0 .. MaxFaults
    BY <1>0, FaultsCounted DEF OtherTypes
<1>3. PageInv' /\ Frames' /\ RelayTypes' /\ RelayInv' /\ others' \subseteq Ticket
      /\ WireInv' /\ FenceInv'
  <2>1. CASE PageActions
    <3>1. PICK q, ctl, dat : PageBecomes(q, ctl, dat) /\ Outcome(q, ctl, dat, MaxSeq)
        BY <1>0, <2>1, BehindTheBound, PageOutcome
    <3> QED BY <1>0, <3>1, PageKeepsBase DEF OtherTypes
  <2>2. CASE RelayActions
      BY <1>0, <2>2, RelayKeepsBase DEF OtherTypes
  <2>3. CASE ReserveSet
      BY <1>0, <2>3, ReserveSetKeepsBase DEF OtherTypes
  <2>4. CASE OtherReserves \/ OtherConnects \/ TicketsLapse \/ UNCHANGED vars
      BY <2>4, OthersKeepBase
  <2> QED BY <2>1, <2>2, <2>3, <2>4, StepIs
<1> QED BY <1>1, <1>2, <1>3 DEF BaseInv, TypesInv, OtherTypes

LEMMA InitIsBase == Init => BaseInv
<1> SUFFICES ASSUME Init PROVE BaseInv
    OBVIOUS
<1>0. /\ client = "none" /\ gen = 0 /\ sets = 0 /\ tickets = {} /\ upgrades = {}
      /\ control = NoSocket /\ data = NoSocket /\ closed = {} /\ resets = {} /\ attaching = {}
      /\ head = 0 /\ host = TRUE /\ blame = "none" /\ ctlWire = NoWire /\ dataWire = NoWire /\ up = <<>>
      /\ page = NewPage /\ others = {} /\ faults = 0
    BY DEF Init, LinkInit, RelayConnectionsInit
<1>1. ConnInv /\ AttachInv
    BY <1>0, Bounds DEF ConnInv, ClientInv, SocketInv, AttachInv, IsOpen, NoSocket
<1>2. /\ page.connection = NoConnection /\ page.attempt = "none" /\ page.offer = NoOffer
      /\ page.acks = NoAcks /\ page.out = <<>> /\ page.phase = "idle"
      /\ page.coordinator = [state |-> "idle", fence |-> 0, cursor |-> NoSeq,
                             received |-> NoSeq, candidate |-> "none", committed |-> FALSE,
                             pending |-> <<>>]
    BY <1>0 DEF NewPage
<1>3. page.coordinator \in Coordinator
  <2>1. <<>> \in Seq(DataFrame) /\ NoSeq \in MaybeSeqs /\ 0 \in 0 .. MaxGen
      BY Bounds DEF MaybeSeqs
  <2> QED BY <1>2, <2>1 DEF Coordinator
<1>4. page \in Page
  <2>1. <<>> \in Seq(PageFrame)
      OBVIOUS
  <2> DEFINE coordinator_ == page.coordinator
  <2>2. page = [connection |-> NoConnection, attempt |-> "none", offer |-> NoOffer,
                reconnect |-> FALSE, retry |-> FALSE, grace |-> FALSE, watchdog |-> FALSE,
                phase |-> "idle", hostOnline |-> TRUE, refused |-> FALSE, blocked |-> FALSE,
                coordinator |-> coordinator_, acks |-> NoAcks, out |-> <<>>]
      BY <1>0, <1>2 DEF NewPage
  <2>3. coordinator_ \in Coordinator
      BY <1>3
  <2> HIDE DEF coordinator_
  <2> QED BY <2>1, <2>2, <2>3, NothingTyped DEF Page, Attempt, Phase
<1>5. PageInv
  <2>1. PageShape(page)
      BY <1>2, <1>4 DEF PageShape, NoConnection, NoAcks
  <2>2. PageFence(page)
      BY <1>2 DEF PageFence, NoConnection
  <2>3. PageDelivery(page.coordinator)
      BY <1>2 DEF PageDelivery, Delivering
  <2> QED BY <1>2, <2>1, <2>2, <2>3 DEF PageInv, Sound
<1>6. Frames
  <2>1. <<>> \in Seq(ControlFrame) /\ <<>> \in Seq(DataFrame) /\ <<>> \in Seq(PageFrame)
        /\ 0 \in 0 .. MaxGen /\ 0 \in 0 .. MaxSets
      BY Bounds
  <2> QED BY <1>0, <2>1 DEF Frames, NoWire
<1>7. RelayTypes /\ RelayInv /\ OtherTypes
  <2>1. 0 \in 0 .. MaxSets /\ 0 \in Seqs /\ 0 \in 0 .. MaxFaults
      BY Bounds, BrowserConnectionAssumption DEF BrowserConnectionAssumption, Seqs
  <2> QED BY <1>0, <2>1 DEF RelayTypes, RelayInv, OtherTypes, IsOpen
<1>8. WireInv
    BY <1>0, <1>2 DEF WireInv, C, DataSocket, NoConnection, NoSocket, NoWire
<1>9. FenceInv
    BY <1>0, <1>2 DEF FenceInv, K, ReservedGen, IsOpen, NoWire
<1> QED BY <1>1, <1>5, <1>6, <1>7, <1>8, <1>9 DEF BaseInv, TypesInv

LEMMA BaseAlways == Spec => []BaseInv
<1>1. Init => BaseInv
    BY InitIsBase
<1>2. BaseInv /\ [Next]_vars => BaseInv'
    BY StepKeepsBase
<1> QED BY <1>1, <1>2, PTL DEF Spec

\* Every part of the state has its type.
THEOREM TypeCorrect == Spec => []TypeOK
<1>1. BaseInv => TypeOK
  <2> SUFFICES ASSUME BaseInv PROVE TypeOK
      OBVIOUS
  <2>0. ConnInv /\ PageInv /\ Frames /\ RelayTypes /\ OtherTypes
      BY DEF BaseInv, TypesInv
  <2>1. LinkTypeOK
      BY <2>0 DEF LinkTypeOK, Frames
  <2>2. RelayConnectionsTypeOK
      BY <2>0 DEF RelayConnectionsTypeOK, RelayTypes, ConnInv, ClientInv, SocketInv
  <2>3. page \in Page
      BY <2>0 DEF PageInv, Sound, PageShape
  <2> QED BY <2>0, <2>1, <2>2, <2>3 DEF TypeOK, OtherTypes
<1> QED BY <1>1, BaseAlways, PTL

\* The coordinator is fenced at the generation of the connection, in every state.
THEOREM FenceStaysCurrent == Spec => []FenceIsCurrent
<1>1. BaseInv => FenceIsCurrent
    BY DEF BaseInv, TypesInv, PageInv, Sound, PageFence, FenceIsCurrent
<1> QED BY <1>1, BaseAlways, PTL

-----------------------------------------------------------------------------
(* The link: tickets, requests, sockets and wires of the page's own set *)

\* Sets are numbered as they are reserved, and each has one page.
SetInv ==
    /\ C.set <= sets /\ control.set <= sets /\ data.set <= sets
    /\ \A u \in upgrades \cup others \cup tickets : u.set <= sets
    /\ \A t \in others : t.set # C.set /\ t \notin upgrades
    /\ page.attempt = "offered" =>
          /\ page.offer.set <= sets
          /\ page.offer.set \notin {C.set, control.set, data.set}
          /\ \A u \in upgrades \cup others : u.set # page.offer.set
OneTicket == \A t, u \in tickets : t.channel = u.channel => t = u
\* Within its set, the page follows the relay's generation.
OwnInv ==
    /\ HoldsControl => C.gen <= gen
    /\ HoldsControl => \A i \in DOMAIN ctlWire.frames :
          ctlWire.frames[i].kind \in {"start", "resync"} => ctlWire.frames[i].gen <= gen
    /\ IsOpen(data) /\ data.set = C.set => data.gen <= C.gen
    /\ \A u \in upgrades : u.set = C.set =>
          u.gen <= C.gen /\ (u.channel = "control" /\ C.control = "opening" => u.gen = C.gen)
    /\ C.control = "opening" =>
          /\ data.set # C.set
          /\ \A u \in upgrades : u.channel = "data" => u.set # C.set
\* A ticket has not been used.
ControlTicketInv ==
    \A t \in tickets : t.channel = "control" =>
        /\ control.set # t.set
        /\ t \in upgrades /\ ctlWire.set = t.set =>
              ctlWire.frames = <<>> /\ C.control = "opening"
DataTicketInv ==
    /\ \A u \in upgrades \cup others \cup tickets : u.channel = "data" => ~SameSocket(data, u)
    /\ \A t \in tickets : t.channel = "data" =>
        /\ SameSocket(dataWire, t) =>
              /\ \A i \in DOMAIN dataWire.frames :
                    dataWire.frames[i].kind \notin {"event", "commit"}
              /\ t \in upgrades => C.data = "opening" /\ dataWire.frames = <<>>
        /\ ctlWire.set = t.set => \A i \in DOMAIN ctlWire.frames :
              ctlWire.frames[i].kind = "start" => ctlWire.frames[i].gen # t.gen
        /\ C.current /\ SameSocket(C, t) => K.state = "awaiting" /\ K.pending = <<>>
\* What a socket says first is that it is open, and last that it is closed.
OpenInv ==
    /\ \A i \in DOMAIN ctlWire.frames :
          ctlWire.frames[i].kind = "open" => i = 1 /\ C.control = "opening"
    /\ \A i \in DOMAIN dataWire.frames :
          dataWire.frames[i].kind = "open" => i = 1 /\ C.data = "opening"
    /\ C.current /\ C.data = "opening" /\ HoldsData =>
          dataWire.frames # <<>> /\ dataWire.frames[1].kind = "open"
Has(wire, kind) == \E i \in DOMAIN wire.frames : wire.frames[i].kind = kind
ClosedInv ==
    C.current =>
        /\ C.control \in {"open", "closing"} \/ Has(ctlWire, "open") =>
              HoldsControl \/ Has(ctlWire, "closed")
        /\ C.data = "open" \/ Has(dataWire, "open") => HoldsData \/ Has(dataWire, "closed")
LinkInv ==
    /\ SetInv /\ OneTicket /\ OwnInv /\ ControlTicketInv /\ DataTicketInv /\ OpenInv
    /\ ClosedInv

-----------------------------------------------------------------------------
(* How a callback moves the page along its link *)

Hears == ctlWire.frames # <<>> /\ ctlWire' = Untold(ctlWire)
Fetches == dataWire.frames # <<>> /\ dataWire' = Untold(dataWire)
GoesOn(gen_, control_, data_) ==
    /\ C.current /\ C'.current /\ C'.set = C.set /\ C'.gen = gen_
    /\ C'.control = control_ /\ C'.data = data_

Leaves ==
    C' = NoConnection /\ upgrades' = upgrades /\ ctlWire'.set = 0 /\ dataWire'.set = 0
Lingers ==
    /\ Remains(C, C') /\ upgrades' = upgrades
    /\ \/ UNCHANGED <<ctlWire, dataWire>>
       \/ /\ Hears /\ dataWire' = dataWire
          /\ C'.current => Head(ctlWire.frames).kind \in {"welcome", "offline", "start"}
       \/ /\ Fetches /\ ctlWire' = ctlWire
          /\ C'.current => Head(dataWire.frames).kind \in {"event", "commit"}
Joins ==
    /\ page.attempt = "offered" /\ page.offer.set \in Sets /\ page.offer.gen \in Gens
    /\ C' = NewConnection(page)
    /\ upgrades' = upgrades \cup
          {[set |-> page.offer.set, channel |-> "control", gen |-> page.offer.gen]}
    /\ ctlWire' = Fresh(page.offer.set, 0)
    /\ dataWire'.set = 0 /\ dataWire'.frames = <<>>
ControlOpens ==
    /\ Hears /\ Head(ctlWire.frames).kind = "open"
    /\ C.control = "opening" /\ C.data = "none" /\ GoesOn(C.gen, "open", "opening")
    /\ upgrades' = upgrades \cup {[set |-> C.set, channel |-> "data", gen |-> C.gen]}
    /\ dataWire' = Fresh(C.set, C.gen)
DataOpens ==
    /\ Fetches /\ ctlWire' = ctlWire /\ Head(dataWire.frames).kind = "open"
    /\ C.control = "open" /\ C.data = "opening" /\ GoesOn(C.gen, "open", "open")
    /\ upgrades' = upgrades
DataDrops ==
    /\ ctlWire' = ctlWire /\ GoesOn(C.gen, C.control, "none") /\ upgrades' = upgrades
    /\ dataWire'.set = 0 /\ dataWire'.frames = <<>>
Renewed ==
    LET g == Head(ctlWire.frames).gen IN
    /\ Hears /\ Head(ctlWire.frames).kind = "resync" /\ C.gen < g /\ g \in Gens
    /\ C.control = "open" /\ GoesOn(g, "open", "opening")
    /\ upgrades' = upgrades \cup {[set |-> C.set, channel |-> "data", gen |-> g]}
    /\ dataWire' = Fresh(C.set, g)

PageMoves ==
    \/ Leaves \/ Lingers \/ Joins \/ ControlOpens \/ DataOpens \/ DataDrops \/ Renewed

LEMMA PageMovesAlong ==
    ASSUME BaseInv, SetInv, OpenInv, NEW q, NEW ctl, NEW dat, NEW h,
           PageBecomes(q, ctl, dat), Outcome(q, ctl, dat, h)
    PROVE  /\ UNCHANGED <<client, gen, sets, tickets, control, data, others>>
           /\ PageMoves
           /\ page'.attempt = "offered" =>
                 page.attempt = "offered" /\ page'.offer = page.offer /\ (Leaves \/ Lingers)
<1>0. PageInv /\ Frames /\ WireInv
    BY DEF BaseInv, TypesInv
<1>1. /\ Sound(q) /\ Sound(page)
      /\ Kept(ctl, dat) \/ Heard(ctl, dat) \/ TakenData(ctl, dat)
      /\ q.attempt = "offered" => page.attempt = "offered" /\ q.offer = page.offer
    BY <1>0, OutcomeIs DEF PageInv
<1>2. /\ UNCHANGED <<client, gen, sets, tickets, control, data, others>>
      /\ C' = q.connection /\ page'.attempt = q.attempt /\ page'.offer = q.offer
      /\ ctlWire' = IF q.connection.set # page.connection.set
                    THEN Fresh(q.connection.set, 0) ELSE ctl
      /\ dataWire' = IF DataSocket(q) # DataSocket(page)
                     THEN Fresh(DataSocket(q).set, DataSocket(q).gen) ELSE dat
      /\ upgrades' = upgrades
            \cup Named(q.connection.set # page.connection.set /\ Connected(q),
                       Opened(q, "control", q.connection.gen))
            \cup Named(DataSocket(q) # DataSocket(page) /\ q.connection.data = "opening",
                       Opened(q, "data", q.connection.gen))
    BY <1>1, BecomesIs DEF C
<1>3. /\ WireInv' /\ DataSocket(page') = DataSocket(q)
    BY <1>0, <1>2, PageWires DEF DataSocket, C
<1>4. ctlWire'.set = q.connection.set /\ dataWire'.set = DataSocket(q).set
    BY <1>2, <1>3 DEF WireInv
<1>5. ASSUME q.connection = NoConnection PROVE Leaves
  <2>1. DataSocket(q) = NoSocket /\ ~Connected(q) /\ q.connection.data = "none"
        /\ q.connection.set = 0
      BY <1>5 DEF DataSocket, Connected, NoConnection
  <2>2. upgrades' = upgrades
      BY <1>2, <2>1 DEF Named
  <2> QED BY <1>2, <1>4, <1>5, <2>1, <2>2 DEF Leaves, NoSocket
<1>6. ASSUME Remains(page.connection, q.connection)
      PROVE  Remains(C, C') /\ upgrades' = upgrades /\ ctlWire' = ctl /\ dataWire' = dat
  <2>1. DataSocket(q) = DataSocket(page) /\ q.connection.set = page.connection.set
      BY <1>6 DEF Remains, DataSocket
  <2>2. upgrades' = upgrades /\ ctlWire' = ctl /\ dataWire' = dat
      BY <1>2, <2>1 DEF Named
  <2> QED BY <1>2, <1>6, <2>2 DEF C
<1>7. ASSUME q.connection = page.connection PROVE Remains(page.connection, q.connection)
    BY <1>7 DEF Remains
<1>8. q.connection.data # "none" =>
         DataSocket(q) = [set |-> q.connection.set, gen |-> q.connection.gen]
    BY DEF DataSocket
<1>9. /\ ctlWire.frames # <<>> =>
            Head(ctlWire.frames) = ctlWire.frames[1] /\ 1 \in DOMAIN ctlWire.frames
            /\ Head(ctlWire.frames) \in ControlFrame
      /\ dataWire.frames # <<>> =>
            Head(dataWire.frames) = dataWire.frames[1] /\ 1 \in DOMAIN dataWire.frames
    BY <1>0, FramesHead
<1> DEFINE Goal ==
              /\ PageMoves
              /\ page'.attempt = "offered" =>
                    page.attempt = "offered" /\ page'.offer = page.offer /\ (Leaves \/ Lingers)
<1>10. CASE Stays(q, ctl, dat)
  <2>1. CASE q.connection = NoConnection
      BY <1>1, <1>2, <1>5, <2>1 DEF PageMoves
  <2>2. CASE Remains(page.connection, q.connection)
    <3>1. Lingers
        BY <1>2, <1>6, <1>10, <2>2 DEF Stays, Lingers, Kept, Heard, TakenData, Hears, Fetches
    <3> QED BY <1>1, <1>2, <3>1 DEF PageMoves
  <2> QED BY <1>10, <2>1, <2>2 DEF Stays, Quiet
<1>11. CASE Activates(q, ctl, dat)
  <2>1. /\ page.attempt = "offered" /\ page.offer.set \in Sets /\ page.offer.gen \in Gens
        /\ q.connection = NewConnection(page) /\ q.attempt = "control"
      BY <1>11 DEF Activates
  <2>2. /\ q.connection.set = page.offer.set /\ q.connection.gen = page.offer.gen
        /\ q.connection.data = "none" /\ page.offer.set # page.connection.set
      BY <2>1 DEF NewConnection, SetInv, C
  <2>3. DataSocket(q) = NoSocket /\ Connected(q)
      BY <1>1, <2>1, <2>2, SocketsOfPage, Bounds DEF Sets
  <2>4. /\ ctlWire' = Fresh(page.offer.set, 0)
        /\ upgrades' = upgrades \cup {Opened(q, "control", q.connection.gen)}
      BY <1>2, <2>2, <2>3 DEF Named
  <2>5. dataWire'.set = 0 /\ dataWire'.frames = <<>>
      BY <1>2, <1>3, <1>4, <2>2, <2>3 DEF WireInv, NoSocket
  <2>6. Joins
      BY <1>2, <2>1, <2>2, <2>4, <2>5 DEF Joins, Opened
  <2> QED BY <1>2, <2>1, <2>6 DEF PageMoves
<1>12. CASE OpensControl(q, ctl, dat)
  <2>1. /\ Heard(ctl, dat) /\ Head(ctlWire.frames).kind = "open" /\ page.connection.current
        /\ Changes(q, page.connection.gen, "open", "opening") /\ q.attempt = "data"
      BY <1>12 DEF OpensControl
  <2>2. C.control = "opening" /\ C.data = "none"
      BY <1>0, <1>9, <2>1 DEF OpenInv, WireInv, Heard
  <2>3. /\ DataSocket(page) = NoSocket /\ q.connection.data = "opening"
        /\ DataSocket(q) = [set |-> C.set, gen |-> C.gen]
        /\ q.connection.set = C.set /\ q.connection.gen = C.gen /\ C.set # 0
      BY <1>1, <1>8, <2>1, <2>2, SocketsOfPage DEF Changes, C
  <2>4. DataSocket(q) # DataSocket(page)
      BY <2>3 DEF NoSocket
  <2>5. /\ ctlWire' = Untold(ctlWire) /\ ctlWire.frames # <<>>
        /\ dataWire' = Fresh(C.set, C.gen)
        /\ upgrades' = upgrades \cup {Opened(q, "data", C.gen)}
      BY <1>2, <2>1, <2>3, <2>4 DEF Named, Heard, C
  <2>6. ControlOpens
      BY <1>2, <2>1, <2>2, <2>3, <2>5 DEF ControlOpens, Opened, Hears, GoesOn, Changes, C
  <2> QED BY <1>2, <2>1, <2>6 DEF PageMoves
<1>13. CASE OpensData(q, ctl, dat) /\ q.connection # NoConnection
  <2>1. /\ TakenData(ctl, dat) /\ Head(dataWire.frames).kind = "open" /\ page.connection.current
        /\ Changes(q, page.connection.gen, "open", "open") /\ q.attempt # "offered"
        /\ page.connection.control = "open"
      BY <1>13 DEF OpensData
  <2>2. C.data = "opening"
      BY <1>9, <2>1 DEF OpenInv, TakenData
  <2>3. DataSocket(q) = DataSocket(page) /\ q.connection.set = page.connection.set
      BY <2>1, <2>2 DEF Changes, C, DataSocket
  <2>4. ctlWire' = ctlWire /\ dataWire' = Untold(dataWire) /\ dataWire.frames # <<>>
        /\ upgrades' = upgrades
      BY <1>2, <2>1, <2>3 DEF TakenData, Named
  <2>5. DataOpens
      BY <1>2, <2>1, <2>2, <2>4 DEF DataOpens, Fetches, GoesOn, Changes, C
  <2> QED BY <1>2, <2>1, <2>5 DEF PageMoves
<1>14. CASE DropsData(q, ctl, dat)
  <2>1. /\ TakenData(ctl, dat) /\ page.connection.current /\ q.attempt # "offered"
        /\ Changes(q, page.connection.gen, page.connection.control, "none")
      BY <1>14 DEF DropsData
  <2>2. DataSocket(q) = NoSocket /\ q.connection.set = page.connection.set
      BY <2>1 DEF Changes, DataSocket
  <2>3. ctlWire' = ctlWire /\ upgrades' = upgrades
      BY <1>2, <2>1, <2>2 DEF TakenData, Named, Changes
  <2>4. dataWire'.set = 0 /\ dataWire'.frames = <<>>
      BY <1>2, <1>3, <1>4, <2>1, <2>2 DEF WireInv, NoSocket, Changes
  <2>5. DataDrops
      BY <1>2, <2>1, <2>3, <2>4 DEF DataDrops, GoesOn, Changes, C
  <2> QED BY <1>2, <2>1, <2>5 DEF PageMoves
<1>15. CASE Resyncs(q, ctl, dat) /\ q.connection # NoConnection
  <2> DEFINE f == Head(ctlWire.frames)
  <2>1. /\ Heard(ctl, dat) /\ f.kind = "resync" /\ page.connection.current
        /\ q.attempt # "offered" /\ page.connection.gen < f.gen
        /\ page.connection.control = "open" /\ Changes(q, f.gen, "open", "opening")
      BY <1>15 DEF Resyncs
  <2>2. f.gen \in Gens
      BY <1>9, <2>1 DEF Heard, ControlFrame
  <2>3. /\ q.connection.data = "opening"
        /\ DataSocket(q) = [set |-> C.set, gen |-> f.gen]
        /\ q.connection.set = C.set /\ q.connection.gen = f.gen
      BY <1>1, <1>8, <2>1 DEF Changes, C
  <2>4. DataSocket(q) # DataSocket(page)
    <3>1. DataSocket(page).gen \in {0, C.gen} /\ C.gen \in Int /\ f.gen \in Int /\ f.gen # 0
        BY <1>1, <2>2, SocketsOfPage, SeqsAreNumbers DEF C, Connection
    <3>2. C.gen < f.gen
        BY <2>1 DEF C
    <3> HIDE DEF f
    <3>3. DataSocket(page).gen # f.gen
        BY <3>1, <3>2
    <3> QED BY <2>3, <3>3
  <2>5. /\ ctlWire' = Untold(ctlWire) /\ ctlWire.frames # <<>>
        /\ dataWire' = Fresh(C.set, f.gen)
        /\ upgrades' = upgrades \cup {Opened(q, "data", f.gen)}
      BY <1>2, <2>1, <2>3, <2>4 DEF Named, Heard, C
  <2>6. Renewed
      BY <1>2, <2>1, <2>2, <2>3, <2>5 DEF Renewed, Opened, Hears, GoesOn, Changes, C
  <2> QED BY <1>2, <2>1, <2>6 DEF PageMoves
<1>16. CASE Starts(q, ctl, dat, h) \/ Takes(q, ctl, dat) \/ Flushes(q, ctl, dat)
  <2>1. /\ q.connection = page.connection \/ q.connection = NoConnection
        /\ \/ Kept(ctl, dat)
           \/ Heard(ctl, dat) /\ Head(ctlWire.frames).kind = "start"
           \/ TakenData(ctl, dat) /\ Head(dataWire.frames).kind \in {"event", "commit"}
      BY <1>16 DEF Starts, Started, Takes, Accepted, Flushes
  <2>2. CASE q.connection = NoConnection
      BY <1>1, <1>2, <1>5, <2>2 DEF PageMoves
  <2>3. CASE q.connection = page.connection
    <3>1. Lingers
        BY <1>6, <1>7, <2>1, <2>3 DEF Lingers, Kept, Heard, TakenData, Hears, Fetches
    <3> QED BY <1>1, <1>2, <3>1 DEF PageMoves
  <2> QED BY <2>1, <2>2, <2>3
<1>17. CASE (OpensData(q, ctl, dat) \/ Resyncs(q, ctl, dat)) /\ q.connection = NoConnection
    BY <1>1, <1>2, <1>5, <1>17 DEF PageMoves
<1>18. Goal
    BY <1>10, <1>11, <1>12, <1>13, <1>14, <1>15, <1>16, <1>17 DEF Outcome
<1> QED BY <1>2, <1>18

-----------------------------------------------------------------------------
(* A callback preserves the link *)

RelayRests == UNCHANGED <<client, gen, sets, tickets, control, data, others>>

\* Numbers, as the provers need them.
LEMMA LinkNumbers ==
    ASSUME BaseInv
    PROVE  /\ sets \in Nat /\ gen \in Int
           /\ C.set \in Nat /\ C.gen \in Int /\ control.set \in Nat /\ data.set \in Nat
           /\ IsOpen(data) => data.gen \in Int /\ data.set \in Sets /\ data.set # 0
           /\ IsOpen(control) => control.set \in Sets /\ control.set # 0
           /\ data.set # 0 => IsOpen(data)
           /\ control.set # 0 => IsOpen(control)
           /\ ~IsOpen(data) => data.set = 0 /\ data.gen = 0
           /\ ~IsOpen(control) => control.set = 0
           /\ \A u \in upgrades \cup others \cup tickets :
                 u \in Ticket /\ u.set \in Sets /\ u.set # 0 /\ u.gen \in Gens /\ u.gen \in Int
                 /\ u.set \in Nat /\ u.channel \in {"control", "data"}
           /\ page.attempt = "offered" => page.offer.set \in Nat /\ page.offer.set # 0
           /\ C.control # "none" => C.set # 0
<1>1. sets \in Nat /\ gen \in Int /\ tickets \subseteq Ticket
      /\ control \in Control \cup {NoSocket}
    BY Bounds DEF BaseInv, ConnInv, ClientInv, SocketInv
<1>2. C \in Connection /\ (C.control # "none" => C.set \in Sets)
      /\ (page.attempt = "offered" => page.offer.set \in Sets)
    BY DEF BaseInv, TypesInv, PageInv, Sound, PageShape, Page, C
<1>3. data \in Data \cup {NoSocket} /\ upgrades \subseteq Ticket /\ others \subseteq Ticket
    BY DEF BaseInv, TypesInv, RelayTypes, Frames, OtherTypes
<1>4. \A x \in Sets : x \in Nat /\ x # 0
    BY Bounds DEF Sets
<1>5. C.set \in Nat /\ C.gen \in Int
    BY <1>2, Bounds DEF Connection
<1>6. /\ IsOpen(data) => data.set \in Sets /\ data.gen \in Gens
      /\ IsOpen(control) => control.set \in Sets
      /\ ~IsOpen(data) => data.set = 0 /\ data.gen = 0
      /\ ~IsOpen(control) => control.set = 0
    BY <1>1, <1>3 DEF IsOpen, Data, Control, NoSocket
<1>7. \A u \in upgrades \cup others \cup tickets :
         u \in Ticket /\ u.set \in Sets /\ u.gen \in Gens /\ u.channel \in {"control", "data"}
    BY <1>1, <1>3 DEF Ticket
<1>8. \A x \in Gens : x \in Int
    BY SeqsAreNumbers
<1> QED BY <1>1, <1>2, <1>4, <1>5, <1>6, <1>7, <1>8

LEMMA PageSets ==
    ASSUME BaseInv, SetInv, RelayRests, PageMoves,
           page'.attempt = "offered" =>
              page.attempt = "offered" /\ page'.offer = page.offer /\ (Leaves \/ Lingers)
    PROVE  SetInv'
<1>0. RelayRests
    OBVIOUS
<1>1. C'.set \in {0, C.set} \/ (page.attempt = "offered" /\ C'.set = page.offer.set)
    BY DEF PageMoves, Leaves, Lingers, Joins, ControlOpens, DataOpens, DataDrops, Renewed,
           GoesOn, Remains, NoConnection, NewConnection
<1>2. C'.set <= sets /\ \A t \in others : t.set # C'.set
  <2>1. CASE C'.set \in {0, C.set}
      BY <2>1, LinkNumbers DEF SetInv
  <2>2. CASE page.attempt = "offered" /\ C'.set = page.offer.set
      BY <2>2 DEF SetInv
  <2> QED BY <1>1, <2>1, <2>2
<1>3. \A u \in upgrades' : u \in upgrades \/ (u.set = C'.set /\ ~Leaves /\ ~Lingers)
  <2>1. CASE Leaves \/ Lingers \/ DataOpens \/ DataDrops
      BY <2>1 DEF Leaves, Lingers, DataOpens, DataDrops
  <2>2. CASE Joins
    <3>1. C'.control = "opening" /\ C'.set = page.offer.set /\ C'.set # 0 /\ C.set # C'.set
        BY <2>2, LinkNumbers DEF Joins, NewConnection, SetInv
    <3>2. ~Leaves /\ ~Lingers
        BY <3>1 DEF Leaves, Lingers, Remains, NoConnection
    <3> QED BY <2>2, <3>1, <3>2 DEF Joins
  <2>3. CASE ControlOpens
    <3>1. C'.control = "open" /\ C.control = "opening"
        BY <2>3 DEF ControlOpens, GoesOn
    <3>2. ~Leaves /\ ~Lingers
        BY <3>1 DEF Leaves, Lingers, Remains, NoConnection
    <3> QED BY <2>3, <3>2 DEF ControlOpens, GoesOn
  <2>4. CASE Renewed
    <3>1. C'.control = "open" /\ C'.gen # C.gen
        BY <2>4, LinkNumbers, SeqsAreNumbers DEF Renewed, GoesOn
    <3>2. ~Leaves /\ ~Lingers
        BY <3>1 DEF Leaves, Lingers, Remains, NoConnection
    <3> QED BY <2>4, <3>2 DEF Renewed, GoesOn
  <2> QED BY <2>1, <2>2, <2>3, <2>4 DEF PageMoves
<1>4. \A u \in upgrades' \cup others \cup tickets : u.set <= sets
    BY <1>2, <1>3 DEF SetInv
<1>5. \A t \in others : t \notin upgrades'
    BY <1>2, <1>3 DEF SetInv
<1>6. ASSUME page'.attempt = "offered"
      PROVE  /\ page.offer.set <= sets
             /\ page.offer.set \notin {C'.set, control.set, data.set}
             /\ \A u \in upgrades' \cup others : u.set # page.offer.set
  <2>1. C'.set \in {0, C.set}
      BY <1>6 DEF Leaves, Lingers, Remains, NoConnection
  <2>2. upgrades' = upgrades /\ page.attempt = "offered"
      BY <1>6 DEF Leaves, Lingers
  <2> QED BY <2>1, <2>2, LinkNumbers DEF SetInv
<1>7. page'.attempt = "offered" => page'.offer = page.offer
    OBVIOUS
<1> QED BY <1>0, <1>2, <1>4, <1>5, <1>6, <1>7 DEF SetInv, RelayRests

LEMMA PageOwn ==
    ASSUME BaseInv, LinkInv, RelayRests, PageMoves, NEW q, NEW ctl, NEW dat, NEW h,
           PageBecomes(q, ctl, dat), Outcome(q, ctl, dat, h)
    PROVE  OwnInv'
<1>0. RelayRests /\ SetInv /\ OwnInv /\ WireInv /\ PageInv /\ Frames
    BY DEF LinkInv, BaseInv, TypesInv
<1>a. /\ ctlWire'.set = C'.set
      /\ \A i \in DOMAIN ctlWire'.frames :
            /\ ctlWire'.set = ctlWire.set
            /\ \E j \in DOMAIN ctlWire.frames : ctlWire'.frames[i] = ctlWire.frames[j]
  <2>1. ctlWire'.set = C'.set
      BY <1>0, PageWires DEF WireInv
  <2> QED BY <1>0, <2>1, PageKeepsFrames
<1>b. HoldsControl' <=> IsOpen(control) /\ C'.set = control.set
    BY <1>0, <1>a DEF RelayRests, HoldsControl, IsOpen
<1>c. HoldsControl <=> IsOpen(control) /\ C.set = control.set
    BY <1>0 DEF WireInv, HoldsControl
<1>1. HoldsControl' => \A i \in DOMAIN ctlWire'.frames :
         ctlWire'.frames[i].kind \in {"start", "resync"} => ctlWire'.frames[i].gen <= gen
    BY <1>0, <1>a, <1>b, <1>c DEF OwnInv, WireInv
<1>2. CASE Leaves
  <2>1. /\ C'.set = 0 /\ C'.control = "none" /\ upgrades' = upgrades
      BY <1>2 DEF Leaves, NoConnection
  <2>2. ~HoldsControl' /\ (IsOpen(data) => data.set # 0)
      BY <1>b, <2>1, LinkNumbers
  <2> QED BY <1>0, <2>1, <2>2, LinkNumbers DEF OwnInv, RelayRests, IsOpen
<1>3. CASE Lingers \/ DataOpens \/ DataDrops
  <2>1. /\ C'.set = C.set /\ C'.gen = C.gen /\ upgrades' = upgrades
        /\ C'.control = "opening" => C.control = "opening"
      BY <1>3 DEF Lingers, DataOpens, DataDrops, Remains, GoesOn
  <2> QED BY <1>0, <1>1, <1>b, <1>c, <2>1 DEF OwnInv, RelayRests, IsOpen
<1>4. CASE Joins
  <2> DEFINE s == page.offer.set
             u == [set |-> s, channel |-> "control", gen |-> page.offer.gen]
  <2>1. /\ C'.set = s /\ C'.gen = page.offer.gen /\ C'.control = "opening"
        /\ upgrades' = upgrades \cup {u}
        /\ s \notin {C.set, control.set, data.set} /\ \A v \in upgrades : v.set # s
        /\ page.offer.gen \in Int
      BY <1>0, <1>4, SeqsAreNumbers DEF Joins, NewConnection, SetInv
  <2>2. u.set = s /\ u.gen = page.offer.gen /\ u.channel = "control"
      OBVIOUS
  <2> HIDE DEF s, u
  <2>3. ~HoldsControl'
      BY <1>b, <2>1
  <2>4. \A v \in upgrades' : v.set = C'.set => v = u
      BY <2>1
  <2>5. page.offer.gen <= page.offer.gen
      BY <2>1
  <2> QED BY <1>0, <2>1, <2>2, <2>3, <2>4, <2>5 DEF OwnInv, RelayRests
<1>5. CASE ControlOpens
  <2>1. /\ C'.set = C.set /\ C'.gen = C.gen /\ C'.control = "open"
        /\ upgrades' = upgrades \cup {[set |-> C.set, channel |-> "data", gen |-> C.gen]}
      BY <1>5 DEF ControlOpens, GoesOn
  <2>2. C.gen <= C.gen
      BY LinkNumbers
  <2> QED BY <1>0, <1>1, <1>b, <1>c, <2>1, <2>2 DEF OwnInv, RelayRests, IsOpen
<1>6. CASE Renewed
  <2> DEFINE g == Head(ctlWire.frames).gen
  <2>1. /\ C'.set = C.set /\ C'.gen = g /\ C'.control = "open" /\ C.gen < g /\ g \in Gens
        /\ upgrades' = upgrades \cup {[set |-> C.set, channel |-> "data", gen |-> g]}
        /\ Head(ctlWire.frames).kind = "resync" /\ ctlWire.frames # <<>>
      BY <1>6 DEF Renewed, GoesOn, Hears
  <2>2. HoldsControl => g <= gen
      BY <1>0, <2>1, FramesHead DEF OwnInv
  <2>3. g \in Int /\ C.gen \in Int /\ g <= g
      BY <2>1, LinkNumbers, SeqsAreNumbers
  <2> HIDE DEF g
  <2>4. \A x \in Int : x <= C.gen => x <= g
      BY <2>1, <2>3
  <2>5. IsOpen(data) /\ data.set = C.set => data.gen <= g
      BY <1>0, <2>4, LinkNumbers DEF OwnInv
  <2>6. \A v \in upgrades' : v.set = C.set => v.gen <= g
      BY <1>0, <2>1, <2>3, <2>4, LinkNumbers DEF OwnInv
  <2> QED BY <1>0, <1>1, <1>b, <1>c, <2>1, <2>2, <2>5, <2>6 DEF OwnInv, RelayRests, IsOpen
<1> QED BY <1>2, <1>3, <1>4, <1>5, <1>6 DEF PageMoves

LEMMA PageControlTickets ==
    ASSUME BaseInv, LinkInv, RelayRests, PageMoves, NEW q, NEW ctl, NEW dat, NEW h,
           PageBecomes(q, ctl, dat), Outcome(q, ctl, dat, h)
    PROVE  ControlTicketInv'
<1>0. RelayRests /\ SetInv /\ ControlTicketInv /\ WireInv /\ PageInv /\ Frames
    BY DEF LinkInv, BaseInv, TypesInv
<1>1. SUFFICES ASSUME NEW t \in tickets, t.channel = "control", t \in upgrades',
                      ctlWire'.set = t.set
               PROVE  ctlWire'.frames = <<>> /\ C'.control = "opening"
  <2>1. \A t \in tickets : t.channel = "control" => control.set # t.set
      BY <1>0 DEF ControlTicketInv
  <2> QED BY <1>0, <2>1 DEF ControlTicketInv, RelayRests
<1>2. t \in upgrades /\ ctlWire.set = t.set => ctlWire.frames = <<>> /\ C.control = "opening"
    BY <1>0, <1>1 DEF ControlTicketInv
<1>3. ctlWire.set = C.set
    BY <1>0 DEF WireInv
<1>4. CASE Leaves
    BY <1>1, <1>4, LinkNumbers DEF Leaves
<1>5. CASE Lingers
  <2>1. C'.set = C.set /\ t \in upgrades /\ (C'.control = C.control \/ C.control = "open")
      BY <1>1, <1>5 DEF Lingers, Remains
  <2>2. ctlWire' = ctlWire \/ (ctlWire.frames # <<>> /\ ctlWire' = Untold(ctlWire))
      BY <1>5 DEF Lingers, Hears
  <2>3. ctlWire'.set = ctlWire.set
      BY <1>0, <2>2 DEF Untold, Frames
  <2> QED BY <1>0, <1>1, <1>2, <2>1, <2>2, <2>3
<1>6. CASE Joins
    BY <1>6 DEF Joins, Fresh, NewConnection
<1>7. CASE ControlOpens \/ Renewed
  <2>1. ctlWire.frames # <<>> /\ ctlWire'.set = ctlWire.set
      BY <1>0, <1>7 DEF ControlOpens, Renewed, Hears, Untold, Frames
  <2>2. t \in upgrades
      BY <1>1, <1>7 DEF ControlOpens, Renewed
  <2> QED BY <1>1, <1>2, <2>1, <2>2
<1>8. CASE DataOpens \/ DataDrops
  <2>1. t \in upgrades /\ ctlWire' = ctlWire /\ C'.control = C.control
      BY <1>1, <1>8 DEF DataOpens, DataDrops, GoesOn
  <2> QED BY <1>1, <1>2, <2>1
<1> QED BY <1>4, <1>5, <1>6, <1>7, <1>8 DEF PageMoves

LEMMA UntoldIs ==
    ASSUME NEW T, NEW w, w \in [set : 0 .. MaxSets, gen : 0 .. MaxGen, frames : Seq(T)],
           w.frames # <<>>
    PROVE  /\ Untold(w).set = w.set /\ Untold(w).gen = w.gen /\ Untold(w) # w
           /\ Untold(w).frames = Tail(w.frames)
           /\ DOMAIN w.frames = 1 .. Len(w.frames) /\ Len(w.frames) \in Nat \ {0}
           /\ DOMAIN Untold(w).frames = 1 .. Len(w.frames) - 1
           /\ Len(Untold(w).frames) = Len(w.frames) - 1
           /\ \A i \in DOMAIN Untold(w).frames :
                 Untold(w).frames[i] = w.frames[i + 1] /\ i + 1 \in DOMAIN w.frames
           /\ \A kind : Has(Untold(w), kind) => Has(w, kind)
           /\ \A kind : Has(w, kind) /\ Head(w.frames).kind # kind => Has(Untold(w), kind)
<1>1. w.frames \in Seq(T)
    OBVIOUS
<1>2. /\ Untold(w).set = w.set /\ Untold(w).gen = w.gen
      /\ Untold(w).frames = Tail(w.frames)
    BY <1>1 DEF Untold
<1>3. /\ DOMAIN w.frames = 1 .. Len(w.frames) /\ Len(w.frames) \in Nat \ {0}
      /\ DOMAIN Tail(w.frames) = 1 .. Len(w.frames) - 1
      /\ Len(Tail(w.frames)) = Len(w.frames) - 1
      /\ \A i \in DOMAIN Tail(w.frames) :
            Tail(w.frames)[i] = w.frames[i + 1] /\ i + 1 \in DOMAIN w.frames
      /\ Head(w.frames) = w.frames[1]
    BY <1>1
<1>4. Untold(w) # w
    BY <1>2, <1>3
<1>5. ASSUME NEW kind, Has(Untold(w), kind) PROVE Has(w, kind)
    BY <1>2, <1>3, <1>5 DEF Has
<1>6. ASSUME NEW kind, Has(w, kind), Head(w.frames).kind # kind PROVE Has(Untold(w), kind)
  <2>1. PICK i \in 1 .. Len(w.frames) : w.frames[i].kind = kind
      BY <1>3, <1>6 DEF Has
  <2>2. i # 1
      BY <1>3, <1>6, <2>1
  <2>3. i - 1 \in 1 .. Len(w.frames) - 1 /\ (i - 1) + 1 = i
      BY <1>3, <2>1, <2>2
  <2>4. Tail(w.frames)[i - 1] = w.frames[i]
      BY <1>3, <2>3
  <2> QED BY <1>2, <1>3, <2>1, <2>3, <2>4 DEF Has
<1> QED BY <1>2, <1>3, <1>4, <1>5, <1>6

LEMMA WiresTyped ==
    ASSUME BaseInv
    PROVE  /\ ctlWire \in [set : 0 .. MaxSets, gen : 0 .. MaxGen, frames : Seq(ControlFrame)]
           /\ dataWire \in [set : 0 .. MaxSets, gen : 0 .. MaxGen, frames : Seq(DataFrame)]
BY DEF BaseInv, TypesInv, Frames

LEMMA FreshIs ==
    ASSUME NEW s, NEW g
    PROVE  /\ Fresh(s, g).set = s /\ Fresh(s, g).gen = g /\ Fresh(s, g).frames = <<>>
           /\ DOMAIN Fresh(s, g).frames = {}
           /\ \A kind : ~Has(Fresh(s, g), kind)
<1>1. Fresh(s, g).set = s /\ Fresh(s, g).gen = g /\ Fresh(s, g).frames = <<>>
    BY DEF Fresh
<1>2. DOMAIN <<>> = {}
    OBVIOUS
<1> QED BY <1>1, <1>2 DEF Has

\* What a wire says of the page.
LEMMA WireOfPage ==
    ASSUME BaseInv
    PROVE  /\ ctlWire.set = C.set
           /\ C.data # "none" => dataWire.set = C.set /\ dataWire.gen = C.gen /\ C.set # 0
                                 /\ C.control \in {"open", "closing"}
           /\ C.data = "none" => dataWire.set = 0 /\ dataWire.frames = <<>>
           /\ dataWire.frames # <<>> => C.data # "none"
           /\ C.control # "none" => C.set # 0
<1>1. WireInv /\ Sound(page)
    BY DEF BaseInv, TypesInv, PageInv
<1>2. C.control # "none" => C.set # 0
    BY LinkNumbers
<1>3. C.data \in {"none"} \/ C.control # "none"
    BY <1>1, SocketsOfPage DEF C
<1> QED BY <1>1, <1>2, <1>3 DEF WireInv, DataSocket, C, NoSocket

\* A delivery whose ticket is unused has reached nobody.
LEMMA PageUnspent ==
    ASSUME BaseInv, LinkInv, NEW q, NEW ctl, NEW dat, NEW h, Outcome(q, ctl, dat, h),
           q.connection.current,
           NEW t \in tickets, t.channel = "data", SameSocket(q.connection, t)
    PROVE  q.coordinator.state = "awaiting" /\ q.coordinator.pending = <<>>
<1>0. PageInv /\ Frames /\ WireInv /\ Sound(q) /\ DataTicketInv
    BY OutcomeIs DEF LinkInv, BaseInv, TypesInv
<1>1. C.current /\ SameSocket(C, t) => K.state = "awaiting" /\ K.pending = <<>>
    BY <1>0 DEF DataTicketInv
<1>2. q.connection # NoConnection
    BY DEF NoConnection
<1>3. CASE Stays(q, ctl, dat)
  <2>1. Remains(C, q.connection) /\ Continues(K, q.coordinator)
      BY <1>2, <1>3 DEF Stays, Quiet, C, K
  <2>2. C.current /\ SameSocket(C, t)
      BY <2>1 DEF Remains, SameSocket
  <2> QED BY <1>1, <2>1, <2>2 DEF Continues
<1>4. CASE Activates(q, ctl, dat)
  <2>1. \/ q.coordinator.state = "awaiting" /\ q.coordinator.pending = <<>>
        \/ K.fence = page.offer.gen /\ q.coordinator = K
      BY <1>4 DEF Activates, K
  <2>2. page.attempt = "offered" /\ (K.fence = page.offer.gen => Unspent)
      BY <1>4 DEF Activates, BaseInv, FenceInv
  <2>3. q.coordinator.state # "closed"
      BY <1>0 DEF Sound, PageFence
  <2> QED BY <2>1, <2>2, <2>3 DEF Unspent
<1>5. CASE OpensControl(q, ctl, dat) \/ OpensData(q, ctl, dat) \/ DropsData(q, ctl, dat)
              \/ Flushes(q, ctl, dat)
  <2>1. /\ q.coordinator = K /\ C.current
        /\ q.connection.set = C.set /\ q.connection.gen = C.gen
      BY <1>2, <1>5 DEF OpensControl, OpensData, DropsData, Flushes, Changes, C, K
  <2> QED BY <1>1, <2>1 DEF SameSocket
<1>6. CASE Resyncs(q, ctl, dat)
    BY <1>6 DEF Resyncs
<1>7. CASE Starts(q, ctl, dat, h)
  <2> DEFINE f == Head(ctlWire.frames)
  <2>1. /\ ctlWire.frames # <<>> /\ f.kind = "start" /\ f.gen = C.gen
        /\ q.connection = C
      BY <1>2, <1>7 DEF Starts, Started, Heard, C
  <2>2. f = ctlWire.frames[1] /\ 1 \in DOMAIN ctlWire.frames
      BY <1>0, <2>1, FramesHead
  <2>3. ctlWire.set = t.set /\ f.gen = t.gen
      BY <2>1, WireOfPage DEF SameSocket
  <2> QED BY <1>0, <2>1, <2>2, <2>3 DEF DataTicketInv
<1>8. CASE Takes(q, ctl, dat)
  <2> DEFINE f == Head(dataWire.frames)
  <2>1. /\ dataWire.frames # <<>> /\ f.kind \in {"event", "commit"}
        /\ q.connection = C
      BY <1>2, <1>8 DEF Takes, Accepted, TakenData, C
  <2>2. f = dataWire.frames[1] /\ 1 \in DOMAIN dataWire.frames
      BY <1>0, <2>1, FramesHead
  <2>3. SameSocket(dataWire, t)
      BY <2>1, WireOfPage DEF SameSocket
  <2> QED BY <1>0, <2>1, <2>2, <2>3 DEF DataTicketInv
<1> QED BY <1>3, <1>4, <1>5, <1>6, <1>7, <1>8 DEF Outcome

LEMMA PageDataTickets ==
    ASSUME BaseInv, LinkInv, RelayRests, PageMoves, NEW q, NEW ctl, NEW dat, NEW h,
           PageBecomes(q, ctl, dat), Outcome(q, ctl, dat, h)
    PROVE  DataTicketInv'
<1>0. RelayRests /\ SetInv /\ OwnInv /\ DataTicketInv /\ WireInv /\ PageInv /\ Frames
    BY DEF LinkInv, BaseInv, TypesInv
<1>1. C' = q.connection /\ K' = q.coordinator
    BY <1>0, OutcomeIs, BecomesIs DEF C, K
<1>2. ASSUME NEW u \in upgrades' \cup others \cup tickets, u.channel = "data"
      PROVE  ~SameSocket(data, u)
  <2>1. CASE u \in upgrades \cup others \cup tickets
      BY <1>0, <1>2, <2>1 DEF DataTicketInv
  <2>2. CASE ControlOpens /\ u \notin upgrades \cup others \cup tickets
    <3>1. u.set = C.set /\ C.control = "opening"
        BY <1>2, <2>2 DEF ControlOpens
    <3> QED BY <1>0, <3>1 DEF OwnInv, SameSocket
  <2>3. CASE Renewed /\ u \notin upgrades \cup others \cup tickets
    <3> DEFINE g == Head(ctlWire.frames).gen
    <3>1. u.set = C.set /\ u.gen = g /\ C.gen < g /\ g \in Gens /\ C.control = "open"
        BY <1>2, <2>3 DEF Renewed
    <3>2. g \in Int /\ C.gen \in Int /\ C.set # 0
        BY <3>1, LinkNumbers, SeqsAreNumbers
    <3> HIDE DEF g
    <3>3. ASSUME data.set = C.set /\ data.gen = g PROVE FALSE
      <4>1. IsOpen(data) /\ data.gen \in Int
          BY <3>2, <3>3, LinkNumbers
      <4>2. data.gen <= C.gen
          BY <1>0, <3>3, <4>1 DEF OwnInv
      <4> QED BY <3>1, <3>2, <3>3, <4>1, <4>2
    <3> QED BY <3>1, <3>3 DEF SameSocket
  <2>4. CASE Joins /\ u \notin upgrades \cup others \cup tickets
      BY <1>2, <2>4 DEF Joins
  <2> QED BY <2>1, <2>2, <2>3, <2>4
          DEF PageMoves, Leaves, Lingers, DataOpens, DataDrops
<1>3. ASSUME NEW t \in tickets, t.channel = "data"
      PROVE  /\ SameSocket(dataWire', t) =>
                   /\ \A i \in DOMAIN dataWire'.frames :
                         dataWire'.frames[i].kind \notin {"event", "commit"}
                   /\ t \in upgrades' => C'.data = "opening" /\ dataWire'.frames = <<>>
             /\ ctlWire'.set = t.set => \A i \in DOMAIN ctlWire'.frames :
                   ctlWire'.frames[i].kind = "start" => ctlWire'.frames[i].gen # t.gen
             /\ C'.current /\ SameSocket(C', t) => K'.state = "awaiting" /\ K'.pending = <<>>
  <2>1. /\ SameSocket(dataWire, t) =>
              /\ \A i \in DOMAIN dataWire.frames :
                    dataWire.frames[i].kind \notin {"event", "commit"}
              /\ t \in upgrades => C.data = "opening" /\ dataWire.frames = <<>>
        /\ ctlWire.set = t.set => \A i \in DOMAIN ctlWire.frames :
              ctlWire.frames[i].kind = "start" => ctlWire.frames[i].gen # t.gen
      BY <1>0, <1>3 DEF DataTicketInv
  <2>2. ASSUME SameSocket(dataWire', t), NEW i \in DOMAIN dataWire'.frames
        PROVE  dataWire'.frames[i].kind \notin {"event", "commit"}
      BY <1>0, <2>1, <2>2, PageKeepsFrames DEF SameSocket
  <2>3. ASSUME ctlWire'.set = t.set, NEW i \in DOMAIN ctlWire'.frames,
               ctlWire'.frames[i].kind = "start"
        PROVE  ctlWire'.frames[i].gen # t.gen
      BY <1>0, <2>1, <2>3, PageKeepsFrames
  <2>4. C'.current /\ SameSocket(C', t) => K'.state = "awaiting" /\ K'.pending = <<>>
      BY <1>1, <1>3, PageUnspent
  <2>5. ASSUME SameSocket(dataWire', t), t \in upgrades'
        PROVE  C'.data = "opening" /\ dataWire'.frames = <<>>
    <3>1. t.set # 0
        BY <1>3, LinkNumbers
    <3>2. CASE Leaves \/ Joins \/ DataDrops
        BY <2>5, <3>1, <3>2 DEF Leaves, Joins, DataDrops, SameSocket
    <3>3. CASE ControlOpens \/ Renewed
        BY <3>3, FreshIs DEF ControlOpens, Renewed, GoesOn
    <3>4. CASE Lingers \/ DataOpens
      <4>1. /\ t \in upgrades
            /\ dataWire' = dataWire \/ (dataWire.frames # <<>> /\ dataWire' = Untold(dataWire))
          BY <2>5, <3>4 DEF Lingers, DataOpens, Fetches
      <4>2. dataWire'.set = dataWire.set /\ dataWire'.gen = dataWire.gen
          BY <4>1, WiresTyped, UntoldIs
      <4>3. C.data = "opening" /\ dataWire.frames = <<>> /\ dataWire' = dataWire
          BY <2>1, <2>5, <4>1, <4>2 DEF SameSocket
      <4>4. ~DataOpens
          BY <4>3 DEF DataOpens, Fetches
      <4> QED BY <3>4, <4>3, <4>4 DEF Lingers, Remains
    <3> QED BY <3>2, <3>3, <3>4 DEF PageMoves
  <2> QED BY <2>2, <2>3, <2>4, <2>5
<1> QED BY <1>0, <1>2, <1>3 DEF DataTicketInv, RelayRests

LEMMA PageOpen ==
    ASSUME BaseInv, LinkInv, RelayRests, PageMoves, NEW q, NEW ctl, NEW dat, NEW h,
           PageBecomes(q, ctl, dat), Outcome(q, ctl, dat, h)
    PROVE  OpenInv'
<1>0. /\ RelayRests /\ OwnInv /\ OpenInv /\ WireInv /\ PageInv /\ Frames
    BY DEF LinkInv, BaseInv, TypesInv
<1>a. /\ ctlWire.frames # <<>> => Untold(ctlWire) # ctlWire
      /\ dataWire.frames # <<>> =>
            /\ Untold(dataWire) # dataWire
            /\ Untold(dataWire).set = dataWire.set /\ Untold(dataWire).gen = dataWire.gen
    BY WiresTyped, UntoldIs
<1>b. /\ DOMAIN ctlWire'.frames \subseteq Nat \ {0}
      /\ DOMAIN dataWire'.frames \subseteq Nat \ {0}
  <2>1. Frames'
      BY <1>0, OutcomeIs, PageFrames
  <2>2. ctlWire'.frames \in Seq(ControlFrame) /\ dataWire'.frames \in Seq(DataFrame)
      BY <2>1 DEF Frames
  <2> QED BY <2>2
<1>1. ASSUME NEW i \in DOMAIN ctlWire'.frames, ctlWire'.frames[i].kind = "open"
      PROVE  i = 1 /\ C'.control = "opening"
  <2>1. /\ ctlWire'.set = ctlWire.set
        /\ \/ i \in DOMAIN ctlWire.frames /\ ctlWire'.frames[i] = ctlWire.frames[i]
              /\ ctlWire' = ctlWire
           \/ i + 1 \in DOMAIN ctlWire.frames
              /\ ctlWire'.frames[i] = ctlWire.frames[i + 1]
      BY <1>0, PageKeepsFrames
  <2>2. i \in Nat \ {0} /\ i + 1 # 1
      BY <1>b
  <2>3. i = 1 /\ ctlWire' = ctlWire /\ C.control = "opening"
      BY <1>0, <1>1, <2>1, <2>2 DEF OpenInv
  <2>4. ctlWire'.frames # <<>> /\ ctlWire.set # 0
      BY <1>1, <2>3, WireOfPage
  <2> QED BY <1>a, <2>1, <2>3, <2>4
          DEF PageMoves, Leaves, Lingers, Remains, Joins, Fresh, ControlOpens, Renewed, Hears,
              DataOpens, DataDrops, GoesOn
<1>2. ASSUME NEW i \in DOMAIN dataWire'.frames, dataWire'.frames[i].kind = "open"
      PROVE  i = 1 /\ C'.data = "opening"
  <2>1. /\ dataWire'.set = dataWire.set
        /\ \/ i \in DOMAIN dataWire.frames /\ dataWire'.frames[i] = dataWire.frames[i]
              /\ dataWire' = dataWire
           \/ i + 1 \in DOMAIN dataWire.frames
              /\ dataWire'.frames[i] = dataWire.frames[i + 1]
      BY <1>0, PageKeepsFrames
  <2>2. i \in Nat \ {0} /\ i + 1 # 1
      BY <1>b
  <2>3. i = 1 /\ dataWire' = dataWire /\ C.data = "opening"
      BY <1>0, <1>2, <2>1, <2>2 DEF OpenInv
  <2>4. dataWire'.frames # <<>> /\ dataWire.set # 0
      BY <1>2, <2>3, WireOfPage
  <2> QED BY <1>a, <2>1, <2>3, <2>4
          DEF PageMoves, Leaves, Lingers, Remains, Joins, Fresh, ControlOpens, Renewed, Fetches,
              DataOpens, DataDrops, GoesOn
<1>3. ASSUME C'.current, C'.data = "opening", IsOpen(data), SameSocket(dataWire', data)
      PROVE  dataWire'.frames # <<>> /\ dataWire'.frames[1].kind = "open"
  <2>1. CASE Lingers
    <3>0. C.current /\ C.data = "opening"
        BY <1>3, <2>1 DEF Lingers, Remains
    <3>a. dataWire' = dataWire
          \/ (Fetches /\ Head(dataWire.frames).kind \in {"event", "commit"})
        BY <1>3, <2>1 DEF Lingers
    <3>1. /\ C.current /\ C.data = "opening"
          /\ dataWire' = dataWire
             \/ (Fetches /\ Head(dataWire.frames).kind \in {"event", "commit"})
        BY <3>0, <3>a
    <3>2. SameSocket(dataWire, data)
        BY <1>3, <1>a, <3>1 DEF Fetches, SameSocket
    <3>3. dataWire.frames # <<>> /\ dataWire.frames[1].kind = "open"
        BY <1>0, <1>3, <3>1, <3>2 DEF OpenInv, HoldsData
    <3> QED BY <1>0, <3>1, <3>3, FramesHead
  <2>2. CASE ControlOpens
    <3>1. C.control = "opening" /\ data.set = C.set
        BY <1>3, <2>2 DEF ControlOpens, SameSocket, Fresh
    <3> QED BY <1>0, <3>1 DEF OwnInv
  <2>3. CASE Renewed
    <3> DEFINE g == Head(ctlWire.frames).gen
    <3>1. data.set = C.set /\ data.gen = g /\ C.gen < g
        BY <1>3, <2>3 DEF Renewed, SameSocket, Fresh
    <3>2. data.gen <= C.gen /\ data.gen \in Int /\ C.gen \in Int
        BY <1>0, <1>3, <3>1, LinkNumbers DEF OwnInv
    <3> HIDE DEF g
    <3> QED BY <3>1, <3>2
  <2> QED BY <1>3, <2>1, <2>2, <2>3
          DEF PageMoves, Leaves, Joins, NoConnection, NewConnection, DataOpens, DataDrops, GoesOn
<1> QED BY <1>0, <1>1, <1>2, <1>3 DEF OpenInv, HoldsData, IsOpen, RelayRests

LEMMA PageClosed ==
    ASSUME BaseInv, LinkInv, RelayRests, PageMoves
    PROVE  ClosedInv'
<1>0. control' = control /\ data' = data /\ ClosedInv /\ WireInv
    BY DEF LinkInv, BaseInv, RelayRests
<1> SUFFICES ASSUME C'.current
             PROVE  /\ C'.control \in {"open", "closing"} \/ Has(ctlWire', "open") =>
                          HoldsControl' \/ Has(ctlWire', "closed")
                    /\ C'.data = "open" \/ Has(dataWire', "open") =>
                          HoldsData' \/ Has(dataWire', "closed")
    BY DEF ClosedInv
<1>1. C.current =>
         /\ C.control \in {"open", "closing"} \/ Has(ctlWire, "open") =>
               HoldsControl \/ Has(ctlWire, "closed")
         /\ C.data = "open" \/ Has(dataWire, "open") => HoldsData \/ Has(dataWire, "closed")
    BY <1>0 DEF ClosedInv
<1>2. ctlWire.frames # <<>> =>
         /\ Untold(ctlWire).set = ctlWire.set
         /\ Has(Untold(ctlWire), "open") => Has(ctlWire, "open")
         /\ Has(ctlWire, "closed") /\ Head(ctlWire.frames).kind # "closed" =>
               Has(Untold(ctlWire), "closed")
         /\ Head(ctlWire.frames).kind = "open" => Has(ctlWire, "open")
  <2>1. Head(ctlWire.frames).kind = "open" /\ ctlWire.frames # <<>> => Has(ctlWire, "open")
      BY FramesHead DEF Has, BaseInv, TypesInv
  <2> QED BY <2>1, WiresTyped, UntoldIs
<1>3. dataWire.frames # <<>> =>
         /\ Untold(dataWire).set = dataWire.set /\ Untold(dataWire).gen = dataWire.gen
         /\ Has(Untold(dataWire), "open") => Has(dataWire, "open")
         /\ Has(dataWire, "closed") /\ Head(dataWire.frames).kind # "closed" =>
               Has(Untold(dataWire), "closed")
         /\ Head(dataWire.frames).kind = "open" => Has(dataWire, "open")
  <2>1. Head(dataWire.frames).kind = "open" /\ dataWire.frames # <<>> => Has(dataWire, "open")
      BY FramesHead DEF Has, BaseInv, TypesInv
  <2> QED BY <2>1, WiresTyped, UntoldIs
<1>4. /\ ctlWire'.set = ctlWire.set /\ HoldsControl => HoldsControl'
      /\ dataWire'.set = dataWire.set /\ dataWire'.gen = dataWire.gen /\ HoldsData => HoldsData'
    BY <1>0 DEF HoldsControl, HoldsData, IsOpen, SameSocket
<1>5. CASE Lingers
  <2>1. C.current /\ C'.data = C.data
        /\ (C'.control \in {"open", "closing"} => C.control \in {"open", "closing"})
      BY <1>5 DEF Lingers, Remains
  <2>2. \/ ctlWire' = ctlWire /\ dataWire' = dataWire
        \/ /\ ctlWire.frames # <<>> /\ ctlWire' = Untold(ctlWire) /\ dataWire' = dataWire
           /\ Head(ctlWire.frames).kind # "closed"
        \/ /\ dataWire.frames # <<>> /\ dataWire' = Untold(dataWire) /\ ctlWire' = ctlWire
           /\ Head(dataWire.frames).kind # "closed"
      BY <1>5 DEF Lingers, Hears, Fetches
  <2> QED BY <1>1, <1>2, <1>3, <1>4, <2>1, <2>2
<1>6. CASE Joins
  <2>1. ctlWire' = Fresh(page.offer.set, 0) /\ dataWire'.frames = <<>>
        /\ C'.control = "opening" /\ C'.data = "none"
      BY <1>6 DEF Joins, NewConnection
  <2>2. ~Has(ctlWire', "open") /\ ~Has(dataWire', "open")
    <3>1. \A i \in DOMAIN <<>> : FALSE
        OBVIOUS
    <3> QED BY <2>1, <3>1, FreshIs DEF Has
  <2> QED BY <2>1, <2>2
<1>7. CASE ControlOpens \/ Renewed
  <2>1. /\ C.current /\ ctlWire.frames # <<>> /\ ctlWire' = Untold(ctlWire)
        /\ Head(ctlWire.frames).kind \in {"open", "resync"}
        /\ Head(ctlWire.frames).kind = "open" \/ C.control = "open"
        /\ C'.data = "opening"
      BY <1>7 DEF ControlOpens, Renewed, Hears, GoesOn
  <2>2. \E s, g : dataWire' = Fresh(s, g)
      BY <1>7 DEF ControlOpens, Renewed
  <2>3. ~Has(dataWire', "open")
      BY <2>2, FreshIs
  <2> QED BY <1>1, <1>2, <1>4, <2>1, <2>3
<1>8. CASE DataOpens
  <2>1. /\ C.current /\ dataWire.frames # <<>> /\ dataWire' = Untold(dataWire)
        /\ Head(dataWire.frames).kind = "open" /\ ctlWire' = ctlWire
        /\ C'.control = C.control
      BY <1>8 DEF DataOpens, Fetches, GoesOn
  <2> QED BY <1>1, <1>3, <1>4, <2>1
<1>9. CASE DataDrops
  <2>1. /\ C.current /\ ctlWire' = ctlWire /\ dataWire'.frames = <<>>
        /\ C'.control = C.control /\ C'.data = "none"
      BY <1>9 DEF DataDrops, GoesOn
  <2>2. ~Has(dataWire', "open")
    <3>1. \A i \in DOMAIN <<>> : FALSE
        OBVIOUS
    <3> QED BY <2>1, <3>1 DEF Has
  <2> QED BY <1>1, <1>4, <2>1, <2>2
<1> QED BY <1>5, <1>6, <1>7, <1>8, <1>9 DEF PageMoves, Leaves, NoConnection

\* A callback preserves the link.
LEMMA PageKeepsLink ==
    ASSUME BaseInv, LinkInv, NEW q, NEW ctl, NEW dat, NEW h,
           PageBecomes(q, ctl, dat), Outcome(q, ctl, dat, h)
    PROVE  LinkInv'
<1>0. SetInv /\ OpenInv /\ OneTicket
    BY DEF LinkInv
<1>1. /\ RelayRests /\ PageMoves
      /\ page'.attempt = "offered" =>
            page.attempt = "offered" /\ page'.offer = page.offer /\ (Leaves \/ Lingers)
    BY <1>0, PageMovesAlong DEF RelayRests
<1>2. SetInv' /\ OwnInv' /\ ControlTicketInv' /\ DataTicketInv' /\ OpenInv' /\ ClosedInv'
    BY <1>0, <1>1, PageSets, PageOwn, PageControlTickets, PageDataTickets, PageOpen, PageClosed
<1>3. OneTicket'
    BY <1>0, <1>1 DEF OneTicket, RelayRests
<1> QED BY <1>2, <1>3 DEF LinkInv

-----------------------------------------------------------------------------
(* A step of the relay preserves the link *)

\* No socket is opened, and no generation begun.
Quietly ==
    /\ gen' = gen /\ tickets' \subseteq tickets
    /\ \/ control'.set = control.set /\ (IsOpen(control') <=> IsOpen(control))
       \/ control' = NoSocket /\ (HoldsControl => Has(ctlWire', "closed"))
    /\ \/ data'.set = data.set /\ data'.gen = data.gen /\ (IsOpen(data') <=> IsOpen(data))
       \/ data' = NoSocket /\ (HoldsData => Has(dataWire', "closed"))
    /\ \/ ctlWire' = ctlWire
       \/ \E f \in ControlFrame :
             /\ HoldsControl /\ ctlWire' = Onto(ctlWire, f)
             /\ f.kind \in {"closed", "welcome", "offline", "start"}
             /\ f.kind = "start" => IsOpen(data) /\ f.gen = gen
       \/ \E f \in ControlFrame :
             /\ HoldsControl /\ ctlWire' = Onto(Onto(ctlWire, f), Frame("offline"))
             /\ f.kind = "welcome"
    /\ \/ dataWire' = dataWire
       \/ \E f \in DataFrame :
             /\ HoldsData /\ dataWire' = Onto(dataWire, f)
             /\ f.kind \in {"closed", "event", "commit"}

\* What was on a wire is on it when a frame is added.
LEMMA OntoHas ==
    ASSUME NEW T, NEW w, w \in [set : 0 .. MaxSets, gen : 0 .. MaxGen, frames : Seq(T)],
           NEW f \in T
    PROVE  /\ Has(Onto(w, f), f.kind)
           /\ \A kind : Has(w, kind) => Has(Onto(w, f), kind)
           /\ \A kind : Has(Onto(w, f), kind) => Has(w, kind) \/ kind = f.kind
<1>1. /\ DOMAIN Onto(w, f).frames = 1 .. Len(w.frames) + 1 /\ Len(w.frames) \in Nat
      /\ Onto(w, f).frames[Len(w.frames) + 1] = f
      /\ \A i \in DOMAIN Onto(w, f).frames :
            \/ i \in DOMAIN w.frames /\ Onto(w, f).frames[i] = w.frames[i]
            \/ i = Len(w.frames) + 1 /\ Onto(w, f).frames[i] = f
      /\ \A i \in DOMAIN w.frames :
            i \in DOMAIN Onto(w, f).frames /\ Onto(w, f).frames[i] = w.frames[i]
    BY FramesGrow
<1>2. Len(w.frames) + 1 \in DOMAIN Onto(w, f).frames
    BY <1>1
<1> QED BY <1>1, <1>2 DEF Has

LEMMA ClosingsAreFrames ==
    ASSUME NEW why \in Reasons
    PROVE  /\ Closing(why) \in ControlFrame /\ Closing(why) \in DataFrame
           /\ Closing(why).kind = "closed"
BY SentFrames DEF Closing

\* Telling the page that its socket has closed.
LEMMA ClosingTold ==
    ASSUME Frames, NEW why \in Reasons
    PROVE  /\ ctlWire' = ToControl(Closing(why)) =>
                 /\ HoldsControl => Has(ctlWire', "closed")
                 /\ \/ ctlWire' = ctlWire
                    \/ \E f \in ControlFrame :
                          /\ HoldsControl /\ ctlWire' = Onto(ctlWire, f) /\ f.kind = "closed"
           /\ dataWire' = ToData(Closing(why)) =>
                 /\ HoldsData => Has(dataWire', "closed")
                 /\ \/ dataWire' = dataWire
                    \/ \E f \in DataFrame :
                          /\ HoldsData /\ dataWire' = Onto(dataWire, f) /\ f.kind = "closed"
<1>1. /\ Closing(why) \in ControlFrame /\ Closing(why) \in DataFrame
      /\ Closing(why).kind = "closed"
    BY ClosingsAreFrames
<1>2. /\ ctlWire \in [set : 0 .. MaxSets, gen : 0 .. MaxGen, frames : Seq(ControlFrame)]
      /\ dataWire \in [set : 0 .. MaxSets, gen : 0 .. MaxGen, frames : Seq(DataFrame)]
    BY DEF Frames
<1>3. Has(Onto(ctlWire, Closing(why)), "closed") /\ Has(Onto(dataWire, Closing(why)), "closed")
    BY <1>1, <1>2, OntoHas
<1> QED BY <1>1, <1>3 DEF ToControl, ToData

LEMMA QuietSteps ==
    ASSUME ConnInv, Frames, RelayTypes, RelayInv,
           \/ Closes \/ Attaches \/ Acknowledged \/ HostGone \/ Rises \/ Replay \/ Output
           \/ \E mode \in {"warm", "snapshot"}, cut \in Seqs : StartRecovery(mode, cut)
    PROVE  Quietly
<1>0. /\ IsOpen(data) => data \in Data
      /\ IsOpen(control) => control \in Control /\ gen \in Gens
    BY DEF RelayTypes, IsOpen, ConnInv, ClientInv, SocketInv, Control
<1>1. CASE Closes
  <2>1. gen' = gen /\ tickets' \subseteq tickets
      BY <1>1 DEF Closes
  <2>2. \/ control' = control /\ ctlWire' = ctlWire
        \/ /\ control' = NoSocket
           /\ HoldsControl => Has(ctlWire', "closed")
           /\ \/ ctlWire' = ctlWire
              \/ \E f \in ControlFrame :
                    /\ HoldsControl /\ ctlWire' = Onto(ctlWire, f) /\ f.kind = "closed"
      BY <1>1, ClosingTold DEF Closes
  <2>3. \/ data' = data /\ dataWire' = dataWire
        \/ /\ data' = NoSocket
           /\ HoldsData => Has(dataWire', "closed")
           /\ \/ dataWire' = dataWire
              \/ \E f \in DataFrame :
                    /\ HoldsData /\ dataWire' = Onto(dataWire, f) /\ f.kind = "closed"
      BY <1>1, ClosingTold DEF Closes
  <2> QED BY <2>1, <2>2, <2>3 DEF Quietly
<1>2. CASE Attaches
  <2>1. PICK cursor \in MaybeSeqs : AttachData(cursor)
      BY <1>2 DEF Attaches
  <2>2. IsOpen(control) /\ IsOpen(data)
      BY <1>2, Bounds
         DEF Attaches, HasData, SameSocket, IsOpen, NoSocket, ConnInv, SocketInv, Control, Sets
  <2>3. /\ control'.set = control.set /\ IsOpen(control')
        /\ data'.set = data.set /\ data'.gen = data.gen /\ IsOpen(data')
    <3>1. /\ control' = [control EXCEPT !.state = "active"]
          /\ \E state : data' = [data EXCEPT !.state = state, !.first = cursor,
                                             !.acked = cursor, !.sent = cursor]
        BY <2>1 DEF AttachData
    <3>2. control'.set = control.set /\ data'.set = data.set /\ data'.gen = data.gen
        BY <1>0, <2>2, <3>1 DEF Control, Data
    <3>3. control.set # 0 /\ data.set # 0
        BY <1>0, <2>2, Bounds DEF Control, Data, Sets
    <3> QED BY <3>2, <3>3, <2>2 DEF IsOpen, NoSocket
  <2>4. \/ ctlWire' = ctlWire
        \/ \E f \in ControlFrame :
              /\ HoldsControl /\ ctlWire' = Onto(ctlWire, f)
              /\ f.kind \in {"welcome", "offline"}
        \/ \E f \in ControlFrame :
              /\ HoldsControl /\ ctlWire' = Onto(Onto(ctlWire, f), Frame("offline"))
              /\ f.kind = "welcome"
    <3> DEFINE w == [kind |-> "welcome", gen |-> gen]
    <3>1. /\ w \in ControlFrame /\ w.kind = "welcome"
          /\ Frame("offline") \in ControlFrame /\ Frame("offline").kind = "offline"
        BY <1>0, <2>2, SentFrames DEF Frame
    <3>2. \/ ctlWire' = ctlWire
          \/ HoldsControl /\ ctlWire' \in {Onto(ctlWire, w), Onto(ctlWire, Frame("offline"))}
          \/ HoldsControl /\ ctlWire' = Onto(Onto(ctlWire, w), Frame("offline"))
        BY <2>1 DEF AttachData, ToControl
    <3> HIDE DEF w
    <3> QED BY <3>1, <3>2
  <2>5. gen' = gen /\ tickets' = tickets /\ dataWire' = dataWire
      BY <1>2 DEF Attaches
  <2> QED BY <2>2, <2>3, <2>4, <2>5 DEF Quietly
<1>3. CASE Acknowledged \/ HostGone \/ Rises
  <2>1. /\ gen' = gen /\ tickets' = tickets /\ control' = control /\ dataWire' = dataWire
        /\ \/ data' = data
           \/ /\ IsOpen(data)
              /\ (\E cursor : data' = [data EXCEPT !.acked = cursor])
                 \/ (\E state : data' = [data EXCEPT !.state = state])
        /\ ctlWire' \in {ctlWire, ToControl(Frame("offline"))}
      BY <1>3 DEF Acknowledged, HostGone, Rises, reservations, wires
  <2>2. /\ data'.set = data.set /\ data'.gen = data.gen
        /\ IsOpen(data) => data.set # 0
      BY <1>0, <2>1, Bounds DEF Data, Sets
  <2>3. IsOpen(data') <=> IsOpen(data)
      BY <2>1, <2>2 DEF IsOpen, NoSocket
  <2>4. Frame("offline") \in ControlFrame /\ Frame("offline").kind = "offline"
      BY SentFrames DEF Frame
  <2>5. \/ ctlWire' = ctlWire
        \/ \E f \in ControlFrame :
              HoldsControl /\ ctlWire' = Onto(ctlWire, f) /\ f.kind = "offline"
      BY <2>1, <2>4 DEF ToControl
  <2> QED BY <2>1, <2>2, <2>3, <2>5 DEF Quietly
<1>4. ASSUME NEW mode \in {"warm", "snapshot"}, NEW cut \in Seqs, StartRecovery(mode, cut)
      PROVE  Quietly
  <2> DEFINE f == [kind |-> "start", mode |-> mode, gen |-> gen, cut |-> cut]
  <2>1. /\ gen' = gen /\ tickets' = tickets /\ control' = control
        /\ dataWire' = dataWire /\ IsOpen(data) /\ IsOpen(control)
        /\ data' = [data EXCEPT !.state = "pinned", !.first = cut, !.acked = cut, !.sent = cut,
                                !.commit = head]
        /\ ctlWire' = ToControl(f)
      BY <1>4 DEF StartRecovery, reservations
  <2>2. data'.set = data.set /\ data'.gen = data.gen
      BY <1>0, <2>1 DEF Data
  <2>3. data.set # 0
      BY <1>0, <2>1, Bounds DEF Data, Sets
  <2>4. f \in ControlFrame /\ f.kind = "start" /\ f.gen = gen
      BY <1>0, <2>1, SentFrames
  <2> HIDE DEF f
  <2>5. \/ ctlWire' = ctlWire
        \/ /\ HoldsControl /\ ctlWire' = Onto(ctlWire, f)
           /\ f.kind = "start" /\ f \in ControlFrame /\ IsOpen(data) /\ f.gen = gen
      BY <2>1, <2>4 DEF ToControl
  <2> QED BY <2>1, <2>2, <2>3, <2>5 DEF Quietly, IsOpen, NoSocket
<1>5. CASE Replay \/ Output
  <2>1. /\ gen' = gen /\ tickets' = tickets /\ control' = control /\ ctlWire' = ctlWire
        /\ \/ data' = data
           \/ /\ IsOpen(data)
              /\ (\E n : data' = [data EXCEPT !.sent = n])
                 \/ data' = [data EXCEPT !.state = "synced"]
      BY <1>5 DEF Replay, Output, reservations
  <2>2. IsOpen(data) => data.set # 0
      BY <1>0, Bounds DEF Data, Sets
  <2>3. data'.set = data.set /\ data'.gen = data.gen /\ (IsOpen(data') <=> IsOpen(data))
    <3>1. CASE data' = data
        BY <3>1
    <3>2. CASE IsOpen(data) /\ data' # data
      <4>1. data'.set = data.set /\ data'.gen = data.gen
          BY <1>0, <2>1, <3>2 DEF Data
      <4> QED BY <2>2, <3>2, <4>1 DEF IsOpen, NoSocket
    <3> QED BY <2>1, <3>1, <3>2
  <2>4. ASSUME NEW f \in {[kind |-> "event", seq |-> data.sent + 1],
                          [kind |-> "commit", seq |-> data.commit],
                          [kind |-> "event", seq |-> head + 1]},
               dataWire' = ToData(f)
        PROVE  \/ dataWire' = dataWire
               \/ \E g \in DataFrame :
                     /\ HoldsData /\ dataWire' = Onto(dataWire, g)
                     /\ g.kind \in {"event", "commit"}
    <3>1. f.kind \in {"event", "commit"}
        BY <2>4
    <3>2. f \in DataFrame \/ dataWire' = dataWire
      <4>1. dataWire' = dataWire \/ \E g \in DataFrame : DataSends(g)
        <5>1. SocketStep
            BY <1>5 DEF SocketStep
        <5> QED BY <5>1, SocketStepSends
      <4>2. ASSUME NEW g \in DataFrame, DataSends(g), dataWire' # dataWire
            PROVE  f \in DataFrame
        <5>1. Onto(dataWire, f) = Onto(dataWire, g)
            BY <2>4, <4>2 DEF ToData, DataSends
        <5>2. dataWire.frames \in Seq(DataFrame) /\ dataWire \in
                 [set : 0 .. MaxSets, gen : 0 .. MaxGen, frames : Seq(DataFrame)]
            BY DEF Frames
        <5>3. Append(dataWire.frames, f) = Append(dataWire.frames, g)
            BY <5>1, <5>2 DEF Onto
        <5>4. f = g
            BY <5>2, <5>3
        <5> QED BY <4>2, <5>4
      <4> QED BY <4>1, <4>2
    <3> QED BY <2>4, <3>1, <3>2 DEF ToData
  <2>5. dataWire' = dataWire
        \/ \E f \in {[kind |-> "event", seq |-> data.sent + 1],
                     [kind |-> "commit", seq |-> data.commit],
                     [kind |-> "event", seq |-> head + 1]} : dataWire' = ToData(f)
      BY <1>5 DEF Replay, Output
  <2>6. \/ dataWire' = dataWire
        \/ \E g \in DataFrame :
              /\ HoldsData /\ dataWire' = Onto(dataWire, g)
              /\ g.kind \in {"event", "commit"}
      BY <2>4, <2>5
  <2> QED BY <2>1, <2>3, <2>6 DEF Quietly
<1> QED BY <1>1, <1>2, <1>3, <1>4, <1>5

\* What a step of the relay leaves alone.
PageRests == page' = page /\ others' = others /\ sets' = sets /\ upgrades' \subseteq upgrades

LEMMA TicketIs ==
    ASSUME NEW t \in Ticket, NEW u \in Ticket,
           t.set = u.set, t.channel = u.channel, t.gen = u.gen
    PROVE  t = u
BY DEF Ticket

LEMMA QuietKeepsLink ==
    ASSUME BaseInv, LinkInv, PageRests, Quietly PROVE LinkInv'
<1>0. /\ SetInv /\ OneTicket /\ OwnInv /\ ControlTicketInv /\ DataTicketInv /\ OpenInv
      /\ ClosedInv /\ WireInv /\ SocketInv
    BY DEF LinkInv, BaseInv, ConnInv
<1>1. /\ gen' = gen /\ tickets' \subseteq tickets /\ upgrades' \subseteq upgrades
      /\ others' = others /\ sets' = sets /\ page' = page /\ C' = C /\ K' = K
    BY DEF Quietly, PageRests, C, K
<1>2. /\ control'.set \in {0, control.set} /\ data'.set \in {0, data.set}
      /\ IsOpen(control') => IsOpen(control) /\ control'.set = control.set
      /\ IsOpen(data') =>
            IsOpen(data) /\ data'.set = data.set /\ data'.gen = data.gen
      /\ data'.set # 0 => data'.set = data.set /\ data'.gen = data.gen
    BY DEF Quietly, IsOpen, NoSocket
<1>3. /\ ctlWire'.set = ctlWire.set
      /\ \A i \in DOMAIN ctlWire'.frames :
            \/ i \in DOMAIN ctlWire.frames /\ ctlWire'.frames[i] = ctlWire.frames[i]
            \/ /\ HoldsControl
               /\ ctlWire'.frames[i].kind \in {"closed", "welcome", "offline", "start"}
               /\ ctlWire'.frames[i].kind = "start" =>
                     IsOpen(data) /\ ctlWire'.frames[i].gen = gen
      /\ \A kind : Has(ctlWire, kind) => Has(ctlWire', kind)
      /\ Has(ctlWire', "open") => Has(ctlWire, "open")
      /\ HoldsControl \/ ctlWire' = ctlWire
  <2> DEFINE Grown(w) ==
                /\ w \in [set : 0 .. MaxSets, gen : 0 .. MaxGen, frames : Seq(ControlFrame)]
                /\ w.set = ctlWire.set
                /\ \A i \in DOMAIN w.frames :
                      \/ i \in DOMAIN ctlWire.frames /\ w.frames[i] = ctlWire.frames[i]
                      \/ /\ HoldsControl
                         /\ w.frames[i].kind \in {"closed", "welcome", "offline", "start"}
                         /\ w.frames[i].kind = "start" => IsOpen(data) /\ w.frames[i].gen = gen
                /\ \A kind : Has(ctlWire, kind) => Has(w, kind)
                /\ Has(w, "open") => Has(ctlWire, "open")
  <2>1. Grown(ctlWire)
      BY WiresTyped
  <2>2. ASSUME NEW w, Grown(w), NEW f \in ControlFrame, HoldsControl,
               f.kind \in {"closed", "welcome", "offline", "start"},
               f.kind = "start" => IsOpen(data) /\ f.gen = gen
        PROVE  Grown(Onto(w, f))
    <3>1. w \in [set : 0 .. MaxSets, gen : 0 .. MaxGen, frames : Seq(ControlFrame)]
        BY <2>2
    <3>2. /\ Onto(w, f).set = w.set
          /\ \A i \in DOMAIN Onto(w, f).frames :
                \/ i \in DOMAIN w.frames /\ Onto(w, f).frames[i] = w.frames[i]
                \/ i = Len(w.frames) + 1 /\ Onto(w, f).frames[i] = f
        BY <3>1, FramesGrow
    <3>3. /\ \A kind : Has(w, kind) => Has(Onto(w, f), kind)
          /\ \A kind : Has(Onto(w, f), kind) => Has(w, kind) \/ kind = f.kind
        BY <3>1, OntoHas
    <3>4. f.kind # "open"
        BY <2>2
    <3>5. Onto(w, f) \in [set : 0 .. MaxSets, gen : 0 .. MaxGen, frames : Seq(ControlFrame)]
        BY <3>1, WireTyped
    <3> QED BY <2>2, <3>2, <3>3, <3>4, <3>5
  <2>3. Grown(ctlWire') /\ (HoldsControl \/ ctlWire' = ctlWire)
    <3>1. /\ Frame("offline") \in ControlFrame
          /\ Frame("offline").kind \in {"closed", "welcome", "offline", "start"}
          /\ Frame("offline").kind # "start"
        BY SentFrames DEF Frame
    <3>2. \/ ctlWire' = ctlWire
          \/ \E f \in ControlFrame :
                /\ HoldsControl /\ f.kind \in {"closed", "welcome", "offline", "start"}
                /\ f.kind = "start" => IsOpen(data) /\ f.gen = gen
                /\ ctlWire' \in {Onto(ctlWire, f), Onto(Onto(ctlWire, f), Frame("offline"))}
        BY DEF Quietly
    <3> HIDE DEF Grown
    <3> QED BY <2>1, <2>2, <3>1, <3>2
  <2> QED BY <2>3
<1>4. /\ dataWire'.set = dataWire.set /\ dataWire'.gen = dataWire.gen
      /\ \A i \in DOMAIN dataWire'.frames :
            \/ i \in DOMAIN dataWire.frames /\ dataWire'.frames[i] = dataWire.frames[i]
            \/ dataWire'.frames[i].kind \in {"closed", "event", "commit"}
      /\ dataWire.frames # <<>> =>
            dataWire'.frames # <<>> /\ dataWire'.frames[1] = dataWire.frames[1]
      /\ \A kind : Has(dataWire, kind) => Has(dataWire', kind)
      /\ Has(dataWire', "open") => Has(dataWire, "open")
      /\ HoldsData \/ dataWire' = dataWire
  <2>1. CASE dataWire' = dataWire
      BY <2>1
  <2>2. ASSUME NEW f \in DataFrame, HoldsData, dataWire' = Onto(dataWire, f),
               f.kind \in {"closed", "event", "commit"}
        PROVE  <1>4!1 /\ <1>4!2 /\ <1>4!3 /\ <1>4!4 /\ <1>4!5 /\ <1>4!6
    <3>1. /\ Onto(dataWire, f).set = dataWire.set /\ Onto(dataWire, f).gen = dataWire.gen
          /\ Onto(dataWire, f).frames # <<>>
          /\ \A i \in DOMAIN Onto(dataWire, f).frames :
                \/ i \in DOMAIN dataWire.frames
                   /\ Onto(dataWire, f).frames[i] = dataWire.frames[i]
                \/ i = Len(dataWire.frames) + 1 /\ Onto(dataWire, f).frames[i] = f
          /\ \A i \in DOMAIN dataWire.frames : Onto(dataWire, f).frames[i] = dataWire.frames[i]
        BY WiresTyped, FramesGrow
    <3>2. /\ \A kind : Has(dataWire, kind) => Has(Onto(dataWire, f), kind)
          /\ \A kind : Has(Onto(dataWire, f), kind) => Has(dataWire, kind) \/ kind = f.kind
        BY WiresTyped, OntoHas
    <3>3. f.kind # "open"
        BY <2>2
    <3>4. dataWire.frames # <<>> => 1 \in DOMAIN dataWire.frames
        BY WiresTyped, FramesMove
    <3> QED BY <2>2, <3>1, <3>2, <3>3, <3>4
  <2> QED BY <2>1, <2>2 DEF Quietly
<1>5. /\ HoldsControl' => HoldsControl
      /\ HoldsData' => HoldsData
    BY <1>2, <1>3, <1>4 DEF HoldsControl, HoldsData, IsOpen, SameSocket
<1>6. /\ HoldsControl => HoldsControl' \/ Has(ctlWire', "closed")
      /\ HoldsData => HoldsData' \/ Has(dataWire', "closed")
    BY <1>3, <1>4 DEF Quietly, HoldsControl, HoldsData, IsOpen, SameSocket
<1>7. SetInv'
  <2>1. control'.set <= sets /\ data'.set <= sets
      BY <1>0, <1>2, LinkNumbers DEF SetInv
  <2>2. page.attempt = "offered" => page.offer.set \notin {C.set, control'.set, data'.set}
      BY <1>0, <1>2, LinkNumbers DEF SetInv
  <2> QED BY <1>0, <1>1, <2>1, <2>2 DEF SetInv
<1>8. OneTicket'
    BY <1>0, <1>1 DEF OneTicket
<1>9. OwnInv'
  <2>1. ASSUME HoldsControl', NEW i \in DOMAIN ctlWire'.frames,
               ctlWire'.frames[i].kind \in {"start", "resync"}
        PROVE  ctlWire'.frames[i].gen <= gen
    <3>1. gen <= gen
        BY LinkNumbers
    <3> QED BY <1>0, <1>3, <1>5, <2>1, <3>1 DEF OwnInv
  <2>2. IsOpen(data)' /\ data'.set = C.set => data'.gen <= C.gen
      BY <1>0, <1>2 DEF OwnInv, IsOpen
  <2>3. C.control = "opening" => data'.set # C.set
      BY <1>0, <1>2, LinkNumbers DEF OwnInv
  <2>4. HoldsControl' => C.gen <= gen
      BY <1>0, <1>5 DEF OwnInv
  <2>5. \A u \in upgrades' : u.set = C.set =>
           u.gen <= C.gen /\ (u.channel = "control" /\ C.control = "opening" => u.gen = C.gen)
      BY <1>0, <1>1 DEF OwnInv
  <2>6. C.control = "opening" => \A u \in upgrades' : u.channel = "data" => u.set # C.set
      BY <1>0, <1>1 DEF OwnInv
  <2> QED BY <1>1, <2>1, <2>2, <2>3, <2>4, <2>5, <2>6 DEF OwnInv
<1>10. ControlTicketInv'
  <2>1. ASSUME NEW t \in tickets', t.channel = "control"
        PROVE  /\ control'.set # t.set
               /\ t \in upgrades' /\ ctlWire'.set = t.set =>
                     ctlWire'.frames = <<>> /\ C.control = "opening"
    <3>1. control.set # t.set /\ t.set # 0 /\ t \in tickets
        BY <1>0, <1>1, <2>1, LinkNumbers DEF ControlTicketInv
    <3>2. ctlWire'.set = t.set => ctlWire' = ctlWire
        BY <1>3, <3>1 DEF HoldsControl
    <3> QED BY <1>0, <1>1, <1>2, <2>1, <3>1, <3>2 DEF ControlTicketInv
  <2> QED BY <1>1, <2>1 DEF ControlTicketInv
<1>11. DataTicketInv'
  <2>1. ASSUME NEW u \in upgrades' \cup others' \cup tickets', u.channel = "data"
        PROVE  ~SameSocket(data, u) /\ ~SameSocket(data', u)
    <3>1. u \in upgrades \cup others \cup tickets /\ u.set # 0
        BY <1>1, <2>1, LinkNumbers
    <3>2. ~SameSocket(data, u)
        BY <1>0, <2>1, <3>1 DEF DataTicketInv
    <3> QED BY <1>2, <3>1, <3>2 DEF SameSocket
  <2>2. ASSUME NEW t \in tickets', t.channel = "data"
        PROVE  /\ SameSocket(dataWire', t) =>
                     /\ \A i \in DOMAIN dataWire'.frames :
                           dataWire'.frames[i].kind \notin {"event", "commit"}
                     /\ t \in upgrades' => C.data = "opening" /\ dataWire'.frames = <<>>
               /\ ctlWire'.set = t.set => \A i \in DOMAIN ctlWire'.frames :
                     ctlWire'.frames[i].kind = "start" => ctlWire'.frames[i].gen # t.gen
               /\ C.current /\ SameSocket(C, t) => K.state = "awaiting" /\ K.pending = <<>>
    <3>1. t \in tickets /\ ~SameSocket(data, t)
        BY <1>1, <2>1, <2>2
    <3>2. /\ SameSocket(dataWire, t) =>
                /\ \A i \in DOMAIN dataWire.frames :
                      dataWire.frames[i].kind \notin {"event", "commit"}
                /\ t \in upgrades => C.data = "opening" /\ dataWire.frames = <<>>
          /\ ctlWire.set = t.set => \A i \in DOMAIN ctlWire.frames :
                ctlWire.frames[i].kind = "start" => ctlWire.frames[i].gen # t.gen
          /\ C.current /\ SameSocket(C, t) => K.state = "awaiting" /\ K.pending = <<>>
        BY <1>0, <2>2, <3>1 DEF DataTicketInv
    <3>3. SameSocket(dataWire', t) => SameSocket(dataWire, t) /\ dataWire' = dataWire
        BY <1>4, <3>1 DEF SameSocket, HoldsData
    <3>4. ASSUME ctlWire'.set = t.set, NEW i \in DOMAIN ctlWire'.frames,
                 ctlWire'.frames[i].kind = "start"
          PROVE  ctlWire'.frames[i].gen # t.gen
      <4>1. CASE i \in DOMAIN ctlWire.frames /\ ctlWire'.frames[i] = ctlWire.frames[i]
          BY <1>3, <3>2, <3>4, <4>1
      <4>2. CASE HoldsControl /\ IsOpen(data) /\ ctlWire'.frames[i].gen = gen
        <5>1. data.set = control.set /\ data.gen = gen /\ control.set = t.set
            BY <1>0, <1>3, <3>4, <4>2 DEF HoldsControl, SocketInv
        <5> QED BY <3>1, <4>2, <5>1 DEF SameSocket
      <4> QED BY <1>3, <3>4, <4>1, <4>2
    <3> QED BY <1>1, <3>2, <3>3, <3>4
  <2> QED BY <1>1, <2>1, <2>2 DEF DataTicketInv
<1>12. OpenInv'
  <2>1. \A i \in DOMAIN ctlWire'.frames :
           ctlWire'.frames[i].kind = "open" => i = 1 /\ C.control = "opening"
      BY <1>0, <1>3 DEF OpenInv
  <2>2. \A i \in DOMAIN dataWire'.frames :
           dataWire'.frames[i].kind = "open" => i = 1 /\ C.data = "opening"
      BY <1>0, <1>4 DEF OpenInv
  <2>3. C.current /\ C.data = "opening" /\ HoldsData' =>
           dataWire'.frames # <<>> /\ dataWire'.frames[1].kind = "open"
      BY <1>0, <1>4, <1>5 DEF OpenInv
  <2> QED BY <1>1, <2>1, <2>2, <2>3 DEF OpenInv
<1>13. ClosedInv'
    BY <1>0, <1>1, <1>3, <1>4, <1>6 DEF ClosedInv
<1> QED BY <1>7, <1>8, <1>9, <1>10, <1>11, <1>12, <1>13 DEF LinkInv

\* What one more frame leaves of a control wire, and of a data wire.
LEMMA CtlOnto ==
    ASSUME BaseInv, NEW f \in ControlFrame, ctlWire' = Onto(ctlWire, f)
    PROVE  /\ ctlWire'.set = ctlWire.set
           /\ \A i \in DOMAIN ctlWire'.frames :
                 \/ i \in DOMAIN ctlWire.frames /\ ctlWire'.frames[i] = ctlWire.frames[i]
                 \/ i = Len(ctlWire.frames) + 1 /\ ctlWire'.frames[i] = f
           /\ \A kind : Has(ctlWire, kind) => Has(ctlWire', kind)
           /\ Has(ctlWire', f.kind)
           /\ \A kind : Has(ctlWire', kind) => Has(ctlWire, kind) \/ kind = f.kind
<1>1. /\ Onto(ctlWire, f).set = ctlWire.set
      /\ \A i \in DOMAIN Onto(ctlWire, f).frames :
            \/ i \in DOMAIN ctlWire.frames /\ Onto(ctlWire, f).frames[i] = ctlWire.frames[i]
            \/ i = Len(ctlWire.frames) + 1 /\ Onto(ctlWire, f).frames[i] = f
    BY WiresTyped, FramesGrow
<1>2. /\ \A kind : Has(ctlWire, kind) => Has(Onto(ctlWire, f), kind)
      /\ Has(Onto(ctlWire, f), f.kind)
      /\ \A kind : Has(Onto(ctlWire, f), kind) => Has(ctlWire, kind) \/ kind = f.kind
    BY WiresTyped, OntoHas
<1> QED BY <1>1, <1>2

LEMMA DatOnto ==
    ASSUME BaseInv, NEW f \in DataFrame, dataWire' = Onto(dataWire, f)
    PROVE  /\ dataWire'.set = dataWire.set /\ dataWire'.gen = dataWire.gen
           /\ \A i \in DOMAIN dataWire'.frames :
                 \/ i \in DOMAIN dataWire.frames /\ dataWire'.frames[i] = dataWire.frames[i]
                 \/ i = Len(dataWire.frames) + 1 /\ dataWire'.frames[i] = f
           /\ dataWire'.frames # <<>> /\ dataWire'.frames[Len(dataWire.frames) + 1] = f
           /\ dataWire.frames # <<>> => dataWire'.frames[1] = dataWire.frames[1]
           /\ \A kind : Has(dataWire, kind) => Has(dataWire', kind)
           /\ Has(dataWire', f.kind)
           /\ \A kind : Has(dataWire', kind) => Has(dataWire, kind) \/ kind = f.kind
<1>1. /\ Onto(dataWire, f).set = dataWire.set /\ Onto(dataWire, f).gen = dataWire.gen
      /\ \A i \in DOMAIN Onto(dataWire, f).frames :
            \/ i \in DOMAIN dataWire.frames /\ Onto(dataWire, f).frames[i] = dataWire.frames[i]
            \/ i = Len(dataWire.frames) + 1 /\ Onto(dataWire, f).frames[i] = f
      /\ Onto(dataWire, f).frames # <<>>
      /\ Onto(dataWire, f).frames[Len(dataWire.frames) + 1] = f
      /\ \A i \in DOMAIN dataWire.frames : Onto(dataWire, f).frames[i] = dataWire.frames[i]
    BY WiresTyped, FramesGrow
<1>2. /\ \A kind : Has(dataWire, kind) => Has(Onto(dataWire, f), kind)
      /\ Has(Onto(dataWire, f), f.kind)
      /\ \A kind : Has(Onto(dataWire, f), kind) => Has(dataWire, kind) \/ kind = f.kind
    BY WiresTyped, OntoHas
<1>3. dataWire.frames # <<>> => 1 \in DOMAIN dataWire.frames
    BY WiresTyped, FramesMove
<1> QED BY <1>1, <1>2, <1>3

\* A data socket that is replaced: the frames, and that its page is told.
LEMMA DataReplaced ==
    ASSUME BaseInv, CloseData("replaced")
    PROVE  /\ data' = NoSocket /\ ~HoldsData' /\ data'.set = 0
           /\ dataWire'.set = dataWire.set /\ dataWire'.gen = dataWire.gen
           /\ \A i \in DOMAIN dataWire'.frames :
                 \/ i \in DOMAIN dataWire.frames /\ dataWire'.frames[i] = dataWire.frames[i]
                 \/ dataWire'.frames[i].kind = "closed"
           /\ Has(dataWire', "open") => Has(dataWire, "open")
           /\ HoldsData \/ Has(dataWire, "closed") => Has(dataWire', "closed")
           /\ HoldsData \/ dataWire' = dataWire
<1>1. /\ data' = NoSocket /\ dataWire' = ToData(Closing("replaced"))
      /\ Closing("replaced") \in DataFrame /\ Closing("replaced").kind = "closed"
    BY ClosingsAreFrames DEF CloseData, Reasons
<1>2. data'.set = 0 /\ ~HoldsData'
    BY <1>1 DEF HoldsData, IsOpen, NoSocket
<1>3. CASE HoldsData
  <2>1. dataWire' = Onto(dataWire, Closing("replaced"))
      BY <1>1, <1>3 DEF ToData
  <2>2. Closing("replaced").kind # "open"
      BY <1>1
  <2> QED BY <1>1, <1>2, <1>3, <2>1, <2>2, DatOnto
<1>4. CASE ~HoldsData
    BY <1>1, <1>2, <1>4 DEF ToData
<1> QED BY <1>3, <1>4

\* No ticket is the one of the data socket the page is fed by.
LEMMA ReplacedTickets ==
    ASSUME BaseInv, DataTicketInv, CloseData("replaced"), NEW t \in tickets, t.channel = "data"
    PROVE  SameSocket(dataWire', t) => SameSocket(dataWire, t) /\ dataWire' = dataWire
<1>1. ~SameSocket(data, t)
    BY DEF DataTicketInv
<1> QED BY <1>1, DataReplaced DEF SameSocket, HoldsData

LEMMA RenewsKeepsLink ==
    ASSUME BaseInv, LinkInv, PageRests, Renews PROVE LinkInv'
<1>0. /\ SetInv /\ OneTicket /\ OwnInv /\ ControlTicketInv /\ DataTicketInv /\ OpenInv
      /\ ClosedInv /\ WireInv /\ SocketInv /\ ClientInv
    BY DEF LinkInv, BaseInv, ConnInv
<1> DEFINE t0 == [set |-> control.set, channel |-> "data", gen |-> gen + 1]
           f0 == [kind |-> "resync", gen |-> gen + 1]
<1>1. /\ IsOpen(control) /\ gen' = gen + 1 /\ tickets' = {t0} /\ CloseData("replaced")
      /\ control' = [control EXCEPT !.gen = gen + 1]
      /\ ctlWire' = ToControl(f0) /\ upgrades' = upgrades
      /\ others' = others /\ sets' = sets /\ page' = page /\ C' = C /\ K' = K
    BY DEF Renews, PageRests, C, K
<1>2. /\ t0.set = control.set /\ t0.channel = "data" /\ t0.gen = gen + 1
      /\ f0.kind = "resync" /\ f0.gen = gen + 1 /\ f0 \in ControlFrame
  <2>1. gen + 1 \in Gens
      BY <1>0, Bounds DEF Renews, ClientInv, Gens
  <2> QED BY <2>1, SentFrames
<1>n. gen \in Int /\ C.gen \in Int /\ \A x \in Int : x <= gen => x <= gen + 1
    BY LinkNumbers
<1> HIDE DEF t0, f0
<1>3. control'.set = control.set /\ control'.set # 0 /\ IsOpen(control')
  <2>1. control \in Control /\ control.set # 0
      BY <1>0, <1>1, LinkNumbers DEF SocketInv, IsOpen
  <2>2. control'.set = control.set
      BY <1>1, <2>1 DEF Control
  <2> QED BY <2>1, <2>2 DEF IsOpen, NoSocket
<1>4. /\ ctlWire'.set = ctlWire.set
      /\ \A i \in DOMAIN ctlWire'.frames :
            \/ i \in DOMAIN ctlWire.frames /\ ctlWire'.frames[i] = ctlWire.frames[i]
            \/ ctlWire'.frames[i] = f0
      /\ \A kind : Has(ctlWire, kind) => Has(ctlWire', kind)
      /\ Has(ctlWire', "open") => Has(ctlWire, "open")
      /\ HoldsControl' <=> HoldsControl
  <2>1. CASE HoldsControl
    <3>1. ctlWire' = Onto(ctlWire, f0)
        BY <1>1, <2>1 DEF ToControl
    <3>2. ctlWire'.set = ctlWire.set
        BY <1>2, <3>1, CtlOnto
    <3> QED BY <1>2, <1>3, <2>1, <3>1, <3>2, CtlOnto DEF HoldsControl, IsOpen
  <2>2. CASE ~HoldsControl
    <3>1. ctlWire' = ctlWire
        BY <1>1, <2>2 DEF ToControl
    <3> QED BY <1>1, <1>3, <2>2, <3>1 DEF HoldsControl, IsOpen
  <2> QED BY <2>1, <2>2
<1>5. SetInv'
  <2>1. t0.set <= sets /\ control'.set <= sets /\ data'.set <= sets
      BY <1>0, <1>1, <1>2, <1>3, DataReplaced, LinkNumbers DEF SetInv
  <2>2. page.attempt = "offered" => page.offer.set \notin {C.set, control'.set, data'.set}
      BY <1>0, <1>1, <1>3, DataReplaced, LinkNumbers DEF SetInv
  <2>3. \A u \in upgrades' \cup others' \cup tickets' : u.set <= sets
      BY <1>0, <1>1, <2>1 DEF SetInv
  <2> QED BY <1>0, <1>1, <2>1, <2>2, <2>3 DEF SetInv
<1>6. OneTicket'
    BY <1>1 DEF OneTicket
<1>7. OwnInv'
  <2>1. ASSUME HoldsControl', NEW i \in DOMAIN ctlWire'.frames,
               ctlWire'.frames[i].kind \in {"start", "resync"}
        PROVE  ctlWire'.frames[i].gen <= gen + 1
    <3>1. CASE i \in DOMAIN ctlWire.frames /\ ctlWire'.frames[i] = ctlWire.frames[i]
      <4>1. ctlWire.frames[i].gen <= gen
          BY <1>0, <1>4, <2>1, <3>1 DEF OwnInv
      <4>2. ctlWire.frames[i].gen \in Int
        <5>1. ctlWire.frames[i] \in ControlFrame
            BY <3>1, WiresTyped, FramesMove
        <5>2. ctlWire.frames[i].gen \in Gens
            BY <2>1, <3>1, <5>1 DEF ControlFrame
        <5> QED BY <5>2, SeqsAreNumbers
      <4> QED BY <1>n, <3>1, <4>1, <4>2
    <3>2. CASE ctlWire'.frames[i] = f0
        BY <1>2, <1>n, <3>2
    <3> QED BY <1>4, <2>1, <3>1, <3>2
  <2>2. HoldsControl' => C.gen <= gen + 1
      BY <1>0, <1>4, <1>n DEF OwnInv
  <2>3. ~IsOpen(data') /\ (C.control = "opening" => data'.set # C.set)
      BY <1>1, DataReplaced, LinkNumbers DEF IsOpen
  <2> QED BY <1>0, <1>1, <2>1, <2>2, <2>3 DEF OwnInv, IsOpen
<1>8. ControlTicketInv'
    BY <1>1, <1>2 DEF ControlTicketInv
<1>a. ctlWire.set = t0.set => HoldsControl /\ C.gen <= gen /\ C.gen # t0.gen
  <2>1. ctlWire.set = t0.set => HoldsControl
      BY <1>1, <1>2 DEF HoldsControl
  <2>2. HoldsControl => C.gen <= gen
      BY <1>0 DEF OwnInv
  <2> QED BY <1>2, <1>n, <2>1, <2>2
<1>b. ~SameSocket(C, t0) /\ ~SameSocket(dataWire', t0)
  <2>1. ~SameSocket(C, t0)
      BY <1>a, WireOfPage DEF SameSocket
  <2>2. dataWire'.set = dataWire.set /\ dataWire'.gen = dataWire.gen
      BY <1>1, DataReplaced
  <2>3. dataWire.set = 0 \/ (dataWire.set = C.set /\ dataWire.gen = C.gen)
      BY WireOfPage
  <2> QED BY <1>2, <1>3, <2>1, <2>2, <2>3 DEF SameSocket
<1>9. DataTicketInv'
  <2>1. ASSUME NEW u \in upgrades' \cup others' \cup tickets' PROVE ~SameSocket(data', u)
    <3>1. u.set # 0
        BY <1>1, <1>2, <1>3, <2>1, LinkNumbers
    <3> QED BY <1>1, <3>1, DataReplaced DEF SameSocket
  <2>2. ASSUME ctlWire'.set = t0.set, NEW i \in DOMAIN ctlWire'.frames,
               ctlWire'.frames[i].kind = "start"
        PROVE  ctlWire'.frames[i].gen # t0.gen
    <3>1. i \in DOMAIN ctlWire.frames /\ ctlWire'.frames[i] = ctlWire.frames[i]
        BY <1>2, <1>4, <2>2
    <3>2. ctlWire.frames[i].gen <= gen
        BY <1>0, <1>4, <1>a, <2>2, <3>1 DEF OwnInv
    <3>3. ctlWire.frames[i].gen \in Int
      <4>1. ctlWire.frames[i] \in ControlFrame
          BY <3>1, WiresTyped, FramesMove
      <4>2. ctlWire.frames[i].gen \in Gens
          BY <2>2, <3>1, <4>1 DEF ControlFrame
      <4> QED BY <4>2, SeqsAreNumbers
    <3> QED BY <1>2, <1>n, <3>1, <3>2, <3>3
  <2> QED BY <1>1, <1>b, <2>1, <2>2 DEF DataTicketInv
<1>10. OpenInv'
  <2>1. \A i \in DOMAIN ctlWire'.frames :
           ctlWire'.frames[i].kind = "open" => i = 1 /\ C.control = "opening"
      BY <1>0, <1>2, <1>4 DEF OpenInv
  <2>2. \A i \in DOMAIN dataWire'.frames :
           dataWire'.frames[i].kind = "open" => i = 1 /\ C.data = "opening"
      BY <1>0, <1>1, DataReplaced DEF OpenInv
  <2> QED BY <1>1, <2>1, <2>2, DataReplaced DEF OpenInv
<1>11. ClosedInv'
    BY <1>0, <1>1, <1>4, DataReplaced DEF ClosedInv
<1> QED BY <1>5, <1>6, <1>7, <1>8, <1>9, <1>10, <1>11 DEF LinkInv

\* A ticket's control socket is the first thing its wire hears of.
LEMMA AcceptControlKeepsLink ==
    ASSUME BaseInv, LinkInv, PageRests, NEW u \in upgrades, AcceptControl(u) PROVE LinkInv'
<1>0. /\ SetInv /\ OneTicket /\ OwnInv /\ ControlTicketInv /\ DataTicketInv /\ OpenInv
      /\ ClosedInv /\ WireInv
    BY DEF LinkInv, BaseInv
<1>1. /\ u \in tickets /\ u.channel = "control" /\ gen' = u.gen
      /\ upgrades' = upgrades \ {u} /\ tickets' = tickets \ {u}
      /\ control' = [set |-> u.set, gen |-> u.gen, state |-> "awaiting"]
      /\ ctlWire' = IF ctlWire.set = u.set THEN Onto(ctlWire, Frame("open"))
                    ELSE ToControl(Closing("replaced"))
      /\ CloseData("replaced")
      /\ others' = others /\ sets' = sets /\ page' = page /\ C' = C /\ K' = K
    BY DEF AcceptControl, Acceptable, PageRests, C, K
<1>2. /\ control'.set = u.set /\ u.set # 0 /\ IsOpen(control') /\ u.gen \in Int
      /\ C.gen \in Int
    BY <1>1, LinkNumbers DEF IsOpen, NoSocket
<1>3. ctlWire.set = u.set =>
         /\ ctlWire.frames = <<>> /\ C.control = "opening" /\ C.set = u.set /\ u.gen = C.gen
  <2>1. ctlWire.set = C.set
      BY <1>0 DEF WireInv
  <2> QED BY <1>0, <1>1, <2>1 DEF ControlTicketInv, OwnInv
<1>4. /\ ctlWire'.set = ctlWire.set
      /\ \A i \in DOMAIN ctlWire'.frames :
            \/ i \in DOMAIN ctlWire.frames /\ ctlWire'.frames[i] = ctlWire.frames[i]
            \/ ctlWire'.frames[i].kind = "closed"
            \/ i = 1 /\ ctlWire.set = u.set /\ ctlWire'.frames[i].kind = "open"
      /\ Has(ctlWire, "closed") => Has(ctlWire', "closed")
      /\ ctlWire.set # u.set =>
            /\ HoldsControl => Has(ctlWire', "closed")
            /\ Has(ctlWire', "open") => Has(ctlWire, "open")
  <2>1. CASE ctlWire.set = u.set
    <3>1. ctlWire' = Onto(ctlWire, Frame("open"))
        BY <1>1, <2>1
    <3>2. Frame("open") \in ControlFrame /\ Frame("open").kind = "open"
        BY SentFrames DEF Frame
    <3>3. Len(ctlWire.frames) + 1 = 1
        BY <1>3, <2>1
    <3> QED BY <2>1, <3>1, <3>2, <3>3, CtlOnto
  <2>2. CASE ctlWire.set # u.set
    <3>1. ctlWire' = ToControl(Closing("replaced"))
        BY <1>1, <2>2
    <3>2. Closing("replaced") \in ControlFrame /\ Closing("replaced").kind = "closed"
        BY ClosingsAreFrames DEF Reasons
    <3>3. CASE HoldsControl
      <4>1. ctlWire' = Onto(ctlWire, Closing("replaced"))
          BY <3>1, <3>3 DEF ToControl
      <4>2. Closing("replaced").kind # "open"
          BY <3>2
      <4> QED BY <2>2, <3>2, <4>1, <4>2, CtlOnto
    <3>4. CASE ~HoldsControl
        BY <2>2, <3>1, <3>4 DEF ToControl
    <3> QED BY <3>3, <3>4
  <2> QED BY <2>1, <2>2
<1>5. HoldsControl' <=> ctlWire.set = u.set
    BY <1>2, <1>4 DEF HoldsControl, IsOpen
<1>6. SetInv'
  <2>1. control'.set <= sets /\ data'.set <= sets
      BY <1>0, <1>1, <1>2, DataReplaced, LinkNumbers DEF SetInv
  <2>2. page.attempt = "offered" => page.offer.set \notin {C.set, control'.set, data'.set}
      BY <1>0, <1>1, <1>2, DataReplaced, LinkNumbers DEF SetInv
  <2> QED BY <1>0, <1>1, <2>1, <2>2 DEF SetInv
<1>7. OneTicket' /\ \A t \in tickets' : t.channel = "data"
  <2>1. \A t \in tickets : t.channel \in {"control", "data"}
      BY LinkNumbers
  <2> QED BY <1>0, <1>1, <2>1 DEF OneTicket
<1>8. OwnInv'
  <2>1. HoldsControl' => C.gen <= u.gen
      BY <1>2, <1>3, <1>5
  <2>2. ASSUME HoldsControl', NEW i \in DOMAIN ctlWire'.frames,
               ctlWire'.frames[i].kind \in {"start", "resync"}
        PROVE  FALSE
    <3>1. ctlWire.frames = <<>>
        BY <1>3, <1>5, <2>2
    <3>2. i \notin DOMAIN ctlWire.frames
        BY <3>1
    <3> QED BY <1>4, <2>2, <3>2
  <2>3. ~IsOpen(data') /\ (C.control = "opening" => data'.set # C.set)
      BY <1>1, DataReplaced, LinkNumbers DEF IsOpen
  <2>4. \A v \in upgrades' : v.set = C.set =>
           v.gen <= C.gen /\ (v.channel = "control" /\ C.control = "opening" => v.gen = C.gen)
      BY <1>0, <1>1 DEF OwnInv
  <2>5. C.control = "opening" => \A v \in upgrades' : v.channel = "data" => v.set # C.set
      BY <1>0, <1>1 DEF OwnInv
  <2> QED BY <1>1, <2>1, <2>2, <2>3, <2>4, <2>5 DEF OwnInv, IsOpen
<1>9. ControlTicketInv'
    BY <1>7 DEF ControlTicketInv
<1>10. DataTicketInv'
  <2>1. ASSUME NEW v \in upgrades' \cup others' \cup tickets' PROVE ~SameSocket(data', v)
    <3>1. v.set # 0
        BY <1>1, <2>1, LinkNumbers
    <3> QED BY <1>1, <3>1, DataReplaced DEF SameSocket
  <2>2. ASSUME NEW t \in tickets'
        PROVE  /\ SameSocket(dataWire', t) =>
                     /\ \A i \in DOMAIN dataWire'.frames :
                           dataWire'.frames[i].kind \notin {"event", "commit"}
                     /\ t \in upgrades' => C.data = "opening" /\ dataWire'.frames = <<>>
               /\ ctlWire'.set = t.set => \A i \in DOMAIN ctlWire'.frames :
                     ctlWire'.frames[i].kind = "start" => ctlWire'.frames[i].gen # t.gen
               /\ C.current /\ SameSocket(C, t) => K.state = "awaiting" /\ K.pending = <<>>
    <3>1. t \in tickets /\ t.channel = "data"
        BY <1>1, <1>7, <2>2
    <3>2. SameSocket(dataWire', t) => SameSocket(dataWire, t) /\ dataWire' = dataWire
        BY <1>0, <1>1, <3>1, ReplacedTickets
    <3> QED BY <1>0, <1>1, <1>4, <3>1, <3>2 DEF DataTicketInv
  <2> QED BY <1>1, <2>1, <2>2 DEF DataTicketInv
<1>11. OpenInv'
  <2>1. \A i \in DOMAIN ctlWire'.frames :
           ctlWire'.frames[i].kind = "open" => i = 1 /\ C.control = "opening"
      BY <1>0, <1>3, <1>4 DEF OpenInv
  <2>2. \A i \in DOMAIN dataWire'.frames :
           dataWire'.frames[i].kind = "open" => i = 1 /\ C.data = "opening"
      BY <1>0, <1>1, DataReplaced DEF OpenInv
  <2> QED BY <1>1, <2>1, <2>2, DataReplaced DEF OpenInv
<1>12. ClosedInv'
    BY <1>0, <1>1, <1>4, <1>5, DataReplaced DEF ClosedInv
<1> QED BY <1>6, <1>7, <1>8, <1>9, <1>10, <1>11, <1>12 DEF LinkInv

LEMMA AcceptDataKeepsLink ==
    ASSUME BaseInv, LinkInv, PageRests, NEW u \in upgrades, AcceptData(u) PROVE LinkInv'
<1>0. /\ SetInv /\ OneTicket /\ OwnInv /\ ControlTicketInv /\ DataTicketInv /\ OpenInv
      /\ ClosedInv /\ WireInv
    BY DEF LinkInv, BaseInv
<1>1. /\ u \in tickets /\ u.channel = "data" /\ control.set = u.set /\ gen = u.gen
      /\ gen' = gen /\ control' = control /\ ctlWire' = ctlWire
      /\ upgrades' = upgrades \ {u} /\ tickets' = tickets \ {u}
      /\ data' = [set |-> u.set, gen |-> u.gen, state |-> "awaiting", first |-> NoSeq,
                  acked |-> NoSeq, sent |-> NoSeq, commit |-> NoSeq]
      /\ dataWire' = IF SameSocket(dataWire, u) THEN Onto(dataWire, Frame("open"))
                     ELSE ToData(Closing("replaced"))
      /\ others' = others /\ sets' = sets /\ page' = page /\ C' = C /\ K' = K
    BY DEF AcceptData, Acceptable, PageRests, C, K
<1>2. /\ data'.set = u.set /\ data'.gen = u.gen /\ u.set # 0 /\ IsOpen(data')
    BY <1>1, LinkNumbers DEF IsOpen, NoSocket
<1>3. SameSocket(dataWire, u) => dataWire.frames = <<>> /\ C.data = "opening"
    BY <1>0, <1>1 DEF DataTicketInv
<1>4. /\ dataWire'.set = dataWire.set /\ dataWire'.gen = dataWire.gen
      /\ \A i \in DOMAIN dataWire'.frames :
            \/ i \in DOMAIN dataWire.frames /\ dataWire'.frames[i] = dataWire.frames[i]
            \/ dataWire'.frames[i].kind = "closed"
            \/ i = 1 /\ SameSocket(dataWire, u) /\ dataWire'.frames[i].kind = "open"
      /\ Has(dataWire, "closed") => Has(dataWire', "closed")
      /\ SameSocket(dataWire, u) => dataWire'.frames # <<>> /\ dataWire'.frames[1].kind = "open"
      /\ ~SameSocket(dataWire, u) =>
            /\ HoldsData => Has(dataWire', "closed")
            /\ Has(dataWire', "open") => Has(dataWire, "open")
  <2>1. CASE SameSocket(dataWire, u)
    <3>1. dataWire' = Onto(dataWire, Frame("open"))
        BY <1>1, <2>1
    <3>2. Frame("open") \in DataFrame /\ Frame("open").kind = "open"
        BY SentFrames DEF Frame
    <3>3. Len(dataWire.frames) + 1 = 1
        BY <1>3, <2>1
    <3>4. dataWire'.frames[1] = Frame("open")
        BY <3>1, <3>2, <3>3, DatOnto
    <3> QED BY <2>1, <3>1, <3>2, <3>3, <3>4, DatOnto
  <2>2. CASE ~SameSocket(dataWire, u)
    <3>1. dataWire' = ToData(Closing("replaced"))
        BY <1>1, <2>2
    <3>2. Closing("replaced") \in DataFrame /\ Closing("replaced").kind = "closed"
        BY ClosingsAreFrames DEF Reasons
    <3>3. CASE HoldsData
      <4>1. dataWire' = Onto(dataWire, Closing("replaced"))
          BY <3>1, <3>3 DEF ToData
      <4>2. Closing("replaced").kind # "open"
          BY <3>2
      <4> QED BY <2>2, <3>2, <4>1, <4>2, DatOnto
    <3>4. CASE ~HoldsData
        BY <2>2, <3>1, <3>4 DEF ToData
    <3> QED BY <3>3, <3>4
  <2> QED BY <2>1, <2>2
<1>5. HoldsData' <=> SameSocket(dataWire, u)
    BY <1>2, <1>4 DEF HoldsData, IsOpen, SameSocket
<1>6. SetInv'
    BY <1>0, <1>1, <1>2 DEF SetInv
<1>7. OneTicket' /\ \A t \in tickets' : t.channel # "data"
    BY <1>0, <1>1 DEF OneTicket
<1>8. OwnInv'
  <2>1. HoldsControl' <=> HoldsControl
      BY <1>1 DEF HoldsControl, IsOpen
  <2>2. data'.set = C.set => data'.gen <= C.gen /\ C.control # "opening"
      BY <1>0, <1>1, <1>2 DEF OwnInv
  <2> QED BY <1>0, <1>1, <2>1, <2>2 DEF OwnInv
<1>9. ControlTicketInv'
    BY <1>0, <1>1 DEF ControlTicketInv
<1>10. DataTicketInv'
  <2>1. ASSUME NEW v \in upgrades' \cup others' \cup tickets', v.channel = "data"
        PROVE  ~SameSocket(data', v)
    <3>1. v # u
        BY <1>0, <1>1, <2>1 DEF SetInv
    <3>2. v \in Ticket /\ u \in Ticket
        BY <1>1, <2>1, LinkNumbers
    <3> QED BY <1>1, <1>2, <2>1, <3>1, <3>2, TicketIs DEF SameSocket
  <2> QED BY <1>7, <2>1 DEF DataTicketInv
<1>11. OpenInv'
  <2>1. \A i \in DOMAIN dataWire'.frames :
           dataWire'.frames[i].kind = "open" => i = 1 /\ C.data = "opening"
      BY <1>0, <1>3, <1>4 DEF OpenInv
  <2> QED BY <1>0, <1>1, <1>4, <1>5, <2>1 DEF OpenInv
<1>12. ClosedInv'
  <2>1. HoldsControl' <=> HoldsControl
      BY <1>1 DEF HoldsControl, IsOpen
  <2> QED BY <1>0, <1>1, <1>4, <1>5, <2>1 DEF ClosedInv
<1> QED BY <1>6, <1>7, <1>8, <1>9, <1>10, <1>11, <1>12 DEF LinkInv

\* A request that is refused was not the one of a ticket.
LEMMA RefuseKeepsLink ==
    ASSUME BaseInv, LinkInv, PageRests, NEW u \in upgrades, Refuse(u) PROVE LinkInv'
<1>0. /\ SetInv /\ OneTicket /\ OwnInv /\ ControlTicketInv /\ DataTicketInv /\ OpenInv
      /\ ClosedInv /\ WireInv
    BY DEF LinkInv, BaseInv
<1> DEFINE f0 == Frame("refused")
<1>1. /\ upgrades' = upgrades \ {u}
      /\ tickets' = tickets /\ gen' = gen /\ control' = control /\ data' = data
      /\ \/ ctlWire' = ctlWire
         \/ ctlWire' = Onto(ctlWire, f0) /\ u.channel = "control" /\ ctlWire.set = u.set
      /\ \/ dataWire' = dataWire
         \/ dataWire' = Onto(dataWire, f0) /\ u.channel # "control" /\ SameSocket(dataWire, u)
      /\ others' = others /\ sets' = sets /\ page' = page /\ C' = C /\ K' = K
    BY DEF Refuse, PageRests, C, K, reservations
<1>2. f0 \in ControlFrame /\ f0 \in DataFrame /\ f0.kind = "refused"
    BY SentFrames DEF Frame
<1> HIDE DEF f0
<1>3. /\ ctlWire'.set = ctlWire.set
      /\ \A i \in DOMAIN ctlWire'.frames :
            \/ i \in DOMAIN ctlWire.frames /\ ctlWire'.frames[i] = ctlWire.frames[i]
            \/ ctlWire'.frames[i].kind = "refused"
      /\ \A kind : Has(ctlWire, kind) => Has(ctlWire', kind)
      /\ Has(ctlWire', "open") => Has(ctlWire, "open")
      /\ ctlWire' = ctlWire \/ (u.channel = "control" /\ ctlWire.set = u.set)
  <2>1. "refused" # "open"
      OBVIOUS
  <2> QED BY <1>1, <1>2, <2>1, CtlOnto
<1>4. /\ dataWire'.set = dataWire.set /\ dataWire'.gen = dataWire.gen
      /\ \A i \in DOMAIN dataWire'.frames :
            \/ i \in DOMAIN dataWire.frames /\ dataWire'.frames[i] = dataWire.frames[i]
            \/ dataWire'.frames[i].kind = "refused"
      /\ dataWire.frames # <<>> =>
            dataWire'.frames # <<>> /\ dataWire'.frames[1] = dataWire.frames[1]
      /\ \A kind : Has(dataWire, kind) => Has(dataWire', kind)
      /\ Has(dataWire', "open") => Has(dataWire, "open")
      /\ dataWire' = dataWire \/ (u.channel = "data" /\ SameSocket(dataWire, u))
  <2>1. "refused" # "open" /\ u.channel \in {"control", "data"}
      BY LinkNumbers
  <2> QED BY <1>1, <1>2, <2>1, DatOnto
<1>5. (HoldsControl' <=> HoldsControl) /\ (HoldsData' <=> HoldsData)
    BY <1>1, <1>3, <1>4 DEF HoldsControl, HoldsData, IsOpen, SameSocket
<1>6. SetInv' /\ OneTicket'
    BY <1>0, <1>1 DEF SetInv, OneTicket
<1>7. OwnInv'
    BY <1>0, <1>1, <1>3, <1>5 DEF OwnInv, IsOpen
<1>8. ControlTicketInv'
  <2>1. ASSUME NEW t \in tickets, t.channel = "control", t \in upgrades', ctlWire'.set = t.set
        PROVE  ctlWire'.frames = <<>> /\ C.control = "opening"
    <3>1. ctlWire.frames = <<>> /\ C.control = "opening" /\ ctlWire.set = C.set /\ t # u
        BY <1>0, <1>1, <1>3, <2>1 DEF ControlTicketInv, WireInv
    <3>2. ~(u.channel = "control" /\ ctlWire.set = u.set)
      <4>1. ASSUME u.channel = "control", ctlWire.set = u.set PROVE FALSE
        <5>1. t.gen = C.gen /\ u.gen = C.gen /\ t.set = u.set
            BY <1>0, <1>1, <1>3, <2>1, <3>1, <4>1 DEF OwnInv
        <5>2. t \in Ticket /\ u \in Ticket
            BY <2>1, LinkNumbers
        <5> QED BY <2>1, <3>1, <4>1, <5>1, <5>2, TicketIs
      <4> QED BY <4>1
    <3> QED BY <1>3, <3>1, <3>2
  <2> QED BY <1>0, <1>1, <2>1 DEF ControlTicketInv
<1>9. DataTicketInv'
  <2>1. ASSUME NEW t \in tickets, t.channel = "data", SameSocket(dataWire', t)
        PROVE  /\ \A i \in DOMAIN dataWire'.frames :
                     dataWire'.frames[i].kind \notin {"event", "commit"}
               /\ t \in upgrades' => C.data = "opening" /\ dataWire'.frames = <<>>
    <3>1. SameSocket(dataWire, t)
        BY <1>4, <2>1 DEF SameSocket
    <3>2. /\ \A i \in DOMAIN dataWire.frames :
                dataWire.frames[i].kind \notin {"event", "commit"}
          /\ t \in upgrades => C.data = "opening" /\ dataWire.frames = <<>>
        BY <1>0, <2>1, <3>1 DEF DataTicketInv
    <3>3. ASSUME t \in upgrades' PROVE dataWire' = dataWire
      <4>1. ASSUME u.channel = "data", SameSocket(dataWire, u) PROVE t = u
        <5>1. t \in Ticket /\ u \in Ticket
            BY <2>1, LinkNumbers
        <5> QED BY <2>1, <3>1, <4>1, <5>1, TicketIs DEF SameSocket
      <4> QED BY <1>1, <1>4, <3>3, <4>1
    <3> QED BY <1>1, <1>4, <3>2, <3>3
  <2>2. ASSUME NEW t \in tickets, t.channel = "data", ctlWire'.set = t.set,
               NEW i \in DOMAIN ctlWire'.frames, ctlWire'.frames[i].kind = "start"
        PROVE  ctlWire'.frames[i].gen # t.gen
      BY <1>0, <1>3, <2>2 DEF DataTicketInv
  <2> QED BY <1>0, <1>1, <2>1, <2>2 DEF DataTicketInv
<1>10. OpenInv'
    BY <1>0, <1>1, <1>3, <1>4, <1>5 DEF OpenInv
<1>11. ClosedInv'
    BY <1>0, <1>1, <1>3, <1>4, <1>5 DEF ClosedInv
<1> QED BY <1>6, <1>7, <1>8, <1>9, <1>10, <1>11 DEF LinkInv

LEMMA RelayKeepsLink ==
    ASSUME BaseInv, LinkInv, RelayActions PROVE LinkInv'
<1>0. ConnInv /\ AttachInv /\ Frames /\ RelayTypes /\ RelayInv
    BY DEF BaseInv, TypesInv
<1>1. SocketStep /\ PageRests
    BY <1>0, RelayStepIs, RelayRecords, RelayReads DEF PageRests
<1>2. CASE Renews
    BY <1>1, <1>2, RenewsKeepsLink
<1>3. ASSUME NEW u \in upgrades, AcceptControl(u) \/ AcceptData(u) \/ Refuse(u)
      PROVE  LinkInv'
    BY <1>1, <1>3, AcceptControlKeepsLink, AcceptDataKeepsLink, RefuseKeepsLink
<1>4. CASE \/ Closes \/ Attaches \/ Acknowledged \/ HostGone \/ Rises \/ Replay \/ Output
           \/ \E mode \in {"warm", "snapshot"}, cut \in Seqs : StartRecovery(mode, cut)
    BY <1>0, <1>1, <1>4, QuietSteps, QuietKeepsLink
<1> QED BY <1>1, <1>2, <1>3, <1>4 DEF SocketStep

\* New tickets have a number nobody has seen.
LEMMA ReserveKeepsLink ==
    ASSUME BaseInv, LinkInv, Reserve, C' = C, K' = K,
           \/ others' = others /\ page'.attempt = "offered" /\ page'.offer.set = sets + 1
           \/ others' = others \cup tickets' /\ page' = page
    PROVE  LinkInv'
<1>0. /\ SetInv /\ OneTicket /\ OwnInv /\ ControlTicketInv /\ DataTicketInv /\ OpenInv
      /\ ClosedInv /\ WireInv /\ ConnInv /\ RelayTypes /\ RelayInv
    BY DEF LinkInv, BaseInv, TypesInv
<1>1. /\ UNCHANGED <<upgrades, control, data, ctlWire, dataWire>>
      /\ sets' = sets + 1 /\ (IsOpen(control) => gen' = gen)
      /\ tickets' = [set : {sets + 1}, channel : {"control", "data"}, gen : {ReservedGen}]
    BY <1>0, ReserveIs DEF wires
<1>2. /\ sets \in Nat /\ sets + 1 <= sets + 1
      /\ \A x \in Int : x <= sets => x <= sets + 1 /\ x # sets + 1
    BY LinkNumbers
<1>3. \A t \in tickets' : t.set = sets + 1 /\ t.gen = ReservedGen
    BY <1>1
<1>4. /\ C.set <= sets + 1 /\ C.set # sets + 1
      /\ control.set <= sets + 1 /\ control.set # sets + 1
      /\ data.set <= sets + 1 /\ data.set # sets + 1
      /\ \A u \in upgrades \cup others \cup tickets : u.set <= sets + 1 /\ u.set # sets + 1
      /\ page.attempt = "offered" => page.offer.set <= sets + 1 /\ page.offer.set # sets + 1
    BY <1>0, <1>2, LinkNumbers DEF SetInv
<1>5. ctlWire.set # sets + 1 /\ dataWire.set # sets + 1
  <2>1. sets + 1 # 0
      BY <1>2
  <2> QED BY <1>4, <2>1, WireOfPage
<1>6. SetInv'
  <2>1. \A u \in upgrades' \cup others' \cup tickets' : u.set <= sets + 1
      BY <1>1, <1>2, <1>3, <1>4
  <2>2. \A t \in others' : t.set # C.set /\ t \notin upgrades'
      BY <1>0, <1>1, <1>3, <1>4 DEF SetInv
  <2>3. page'.attempt = "offered" =>
           /\ page'.offer.set <= sets + 1
           /\ page'.offer.set \notin {C.set, control.set, data.set}
           /\ \A u \in upgrades \cup others' : u.set # page'.offer.set
    <3>1. CASE others' = others /\ page'.offer.set = sets + 1
        BY <1>2, <1>4, <3>1
    <3>2. CASE others' = others \cup tickets' /\ page' = page
        BY <1>0, <1>3, <1>4, <3>2 DEF SetInv
    <3> QED BY <3>1, <3>2
  <2> QED BY <1>1, <1>4, <2>1, <2>2, <2>3 DEF SetInv
<1>7. OneTicket'
    BY <1>1 DEF OneTicket
<1>8. OwnInv'
  <2>1. (HoldsControl' <=> HoldsControl) /\ (HoldsControl => gen' = gen)
      BY <1>1 DEF HoldsControl, IsOpen
  <2> QED BY <1>0, <1>1, <2>1 DEF OwnInv, IsOpen
<1>9. ControlTicketInv'
    BY <1>1, <1>3, <1>4, <1>5 DEF ControlTicketInv
<1>10. DataTicketInv'
  <2>1. \A u \in upgrades' \cup others' \cup tickets' :
           u.channel = "data" => ~SameSocket(data, u)
    <3>1. \A u \in tickets' : ~SameSocket(data, u)
        BY <1>3, <1>4 DEF SameSocket
    <3>2. \A u \in upgrades \cup others : u.channel = "data" => ~SameSocket(data, u)
        BY <1>0 DEF DataTicketInv
    <3> QED BY <1>1, <3>1, <3>2
  <2> QED BY <1>1, <1>3, <1>4, <1>5, <2>1 DEF DataTicketInv, SameSocket
<1>11. OpenInv' /\ ClosedInv'
  <2>1. (HoldsControl' <=> HoldsControl) /\ (HoldsData' <=> HoldsData)
      BY <1>1 DEF HoldsControl, HoldsData, IsOpen
  <2> QED BY <1>0, <1>1, <2>1 DEF OpenInv, ClosedInv
<1> QED BY <1>6, <1>7, <1>8, <1>9, <1>10, <1>11 DEF LinkInv

LEMMA OthersKeepLink ==
    ASSUME BaseInv, LinkInv, OtherConnects \/ TicketsLapse \/ UNCHANGED vars PROVE LinkInv'
<1>0. /\ SetInv /\ OneTicket /\ OwnInv /\ ControlTicketInv /\ DataTicketInv /\ OpenInv
      /\ ClosedInv /\ WireInv /\ ConnInv
    BY DEF LinkInv, BaseInv
<1>1. /\ UNCHANGED <<sets, control, data, ctlWire, dataWire, page>> /\ C' = C /\ K' = K
      /\ tickets' \subseteq tickets
    BY DEF OtherConnects, TicketsLapse, TicketsExpire, vars, relayVars, reservations, wires, C, K
<1>2. (HoldsControl' <=> HoldsControl) /\ (HoldsData' <=> HoldsData)
    BY <1>1 DEF HoldsControl, HoldsData, IsOpen
<1>3. OneTicket' /\ OpenInv' /\ ClosedInv'
    BY <1>0, <1>1, <1>2 DEF OneTicket, OpenInv, ClosedInv
<1>4. CASE OtherConnects
  <2>1. PICK t \in others : upgrades' = upgrades \cup {t} /\ others' = others \ {t}
      BY <1>4 DEF OtherConnects
  <2>2. gen' = gen /\ tickets' = tickets
      BY <1>4 DEF OtherConnects, reservations
  <2>3. t.set # C.set /\ t.set # 0 /\ ctlWire.set # t.set /\ dataWire.set # t.set
      BY <1>0, <2>1, LinkNumbers, WireOfPage DEF SetInv
  <2>4. SetInv'
      BY <1>0, <1>1, <2>1, <2>2 DEF SetInv
  <2>5. OwnInv'
      BY <1>0, <1>1, <1>2, <2>1, <2>2, <2>3 DEF OwnInv, IsOpen
  <2>6. ControlTicketInv'
      BY <1>0, <1>1, <2>1, <2>2, <2>3 DEF ControlTicketInv
  <2>7. DataTicketInv'
    <3>1. \A u \in upgrades' \cup others' \cup tickets' :
             u.channel = "data" => ~SameSocket(data, u)
        BY <1>0, <2>1, <2>2 DEF DataTicketInv
    <3> QED BY <1>0, <1>1, <2>1, <2>2, <2>3, <3>1 DEF DataTicketInv, SameSocket
  <2> QED BY <1>3, <2>4, <2>5, <2>6, <2>7 DEF LinkInv
<1>5. CASE TicketsLapse \/ UNCHANGED vars
  <2>1. upgrades' = upgrades /\ others' = others /\ (IsOpen(control) => gen' = gen)
      BY <1>0, <1>5 DEF TicketsLapse, TicketsExpire, vars, relayVars, ConnInv, SocketInv
  <2>2. HoldsControl => gen' = gen
      BY <2>1 DEF HoldsControl
  <2>3. SetInv' /\ OwnInv' /\ ControlTicketInv' /\ DataTicketInv'
    <3>1. SetInv'
        BY <1>0, <1>1, <2>1 DEF SetInv
    <3>2. OwnInv'
        BY <1>0, <1>1, <1>2, <2>1, <2>2 DEF OwnInv, IsOpen
    <3>3. ControlTicketInv'
        BY <1>0, <1>1, <2>1 DEF ControlTicketInv
    <3>4. DataTicketInv'
        BY <1>0, <1>1, <2>1 DEF DataTicketInv
    <3> QED BY <3>1, <3>2, <3>3, <3>4
  <2> QED BY <1>3, <2>3 DEF LinkInv
<1> QED BY <1>4, <1>5

LEMMA StepKeepsLink ==
    ASSUME BaseInv, LinkInv, [Next]_vars PROVE LinkInv'
<1>0. PageInv /\ Frames
    BY DEF BaseInv, TypesInv
<1>1. CASE PageActions
  <2>1. PICK q, ctl, dat : PageBecomes(q, ctl, dat) /\ Outcome(q, ctl, dat, MaxSeq)
      BY <1>0, <1>1, BehindTheBound, PageOutcome
  <2> QED BY <2>1, PageKeepsLink
<1>2. CASE RelayActions
    BY <1>2, RelayKeepsLink
<1>3. CASE ReserveSet
  <2>1. /\ Reserve /\ others' = others
        /\ page' = [page EXCEPT !.attempt = "offered",
                                !.offer = [set |-> sets + 1, gen |-> ReservedGen]]
      BY <1>3 DEF ReserveSet
  <2>2. page \in Page
      BY <1>0 DEF PageInv, Sound, PageShape
  <2>3. C' = C /\ K' = K /\ page'.attempt = "offered" /\ page'.offer.set = sets + 1
      BY <2>1, <2>2 DEF Page, C, K
  <2> QED BY <2>1, <2>3, ReserveKeepsLink
<1>4. CASE OtherReserves
  <2>1. Reserve /\ others' = others \cup tickets' /\ page' = page /\ C' = C /\ K' = K
      BY <1>4 DEF OtherReserves, C, K
  <2> QED BY <2>1, ReserveKeepsLink
<1>5. CASE OtherConnects \/ TicketsLapse \/ UNCHANGED vars
    BY <1>5, OthersKeepLink
<1> QED BY <1>1, <1>2, <1>3, <1>4, <1>5, StepIs

LEMMA InitIsLink == Init => LinkInv
<1> SUFFICES ASSUME Init PROVE LinkInv
    OBVIOUS
<1>1. /\ gen = 0 /\ sets = 0 /\ tickets = {} /\ upgrades = {} /\ others = {}
      /\ control = NoSocket /\ data = NoSocket /\ ctlWire = NoWire /\ dataWire = NoWire
      /\ C = NoConnection /\ page.attempt = "none"
    BY DEF Init, LinkInit, RelayConnectionsInit, NewPage, C
<1>2. control.set = 0 /\ data.set = 0 /\ C.set = 0 /\ C.control = "none" /\ ~C.current
      /\ ~IsOpen(control) /\ ~IsOpen(data) /\ 0 <= 0
    BY <1>1 DEF NoSocket, NoConnection, IsOpen
<1>3. DOMAIN ctlWire.frames = {} /\ DOMAIN dataWire.frames = {}
    BY <1>1 DEF NoWire
<1>4. SetInv /\ OneTicket
    BY <1>1, <1>2 DEF SetInv, OneTicket
<1>5. OwnInv
    BY <1>1, <1>2 DEF OwnInv, HoldsControl
<1>6. ControlTicketInv /\ DataTicketInv
    BY <1>1 DEF ControlTicketInv, DataTicketInv
<1>7. OpenInv /\ ClosedInv
    BY <1>2, <1>3 DEF OpenInv, ClosedInv
<1> QED BY <1>4, <1>5, <1>6, <1>7 DEF LinkInv

LEMMA LinkAlways == Spec => [](BaseInv /\ LinkInv)
<1>1. Init => BaseInv /\ LinkInv
    BY InitIsBase, InitIsLink
<1>2. BaseInv /\ LinkInv /\ [Next]_vars => BaseInv' /\ LinkInv'
    BY StepKeepsBase, StepKeepsLink
<1> QED BY <1>1, <1>2, PTL DEF Spec

-----------------------------------------------------------------------------
(* The stream: a delivery from the socket that feeds it to the coordinator *)

\* The frames of a socket are those of a delivery from first that commits at commit, after
\* the k that have been taken, up to the n-th; the first one may still say that it is open.
Flows(frames, ahead, first, commit, n, k) ==
    /\ Len(frames) - ahead + k = n
    /\ \A i \in DOMAIN frames :
          i > ahead => frames[i] = StreamFrame(first, commit, k + i - ahead)

LEMMA FlowOpens ==
    ASSUME NEW frames \in Seq(DataFrame), frames # <<>>, NEW first, NEW commit, NEW n \in Int,
           NEW k \in Nat, Flows(frames, 1, first, commit, n, k)
    PROVE  Flows(Tail(frames), 0, first, commit, n, k)
<1>1. /\ Len(frames) \in Nat \ {0} /\ Len(Tail(frames)) = Len(frames) - 1
      /\ \A i \in DOMAIN Tail(frames) :
            /\ i \in Nat \ {0} /\ i + 1 \in DOMAIN frames /\ Tail(frames)[i] = frames[i + 1]
    OBVIOUS
<1>2. Len(Tail(frames)) - 0 + k = n
    BY <1>1 DEF Flows
<1>3. ASSUME NEW i \in DOMAIN Tail(frames)
      PROVE  Tail(frames)[i] = StreamFrame(first, commit, k + i - 0)
  <2>1. i + 1 > 1 /\ k + (i + 1) - 1 = k + i - 0
      BY <1>1
  <2>2. frames[i + 1] = StreamFrame(first, commit, k + (i + 1) - 1)
      BY <1>1, <2>1 DEF Flows
  <2> QED BY <1>1, <2>1, <2>2
<1> QED BY <1>2, <1>3 DEF Flows

LEMMA FlowTaken ==
    ASSUME NEW frames \in Seq(DataFrame), frames # <<>>, NEW first, NEW commit, NEW n \in Int,
           NEW k \in Nat, Flows(frames, 0, first, commit, n, k)
    PROVE  /\ frames[1] = StreamFrame(first, commit, k + 1)
           /\ Flows(Tail(frames), 0, first, commit, n, k + 1)
<1>1. /\ Len(frames) \in Nat \ {0} /\ Len(Tail(frames)) = Len(frames) - 1
      /\ 1 \in DOMAIN frames
      /\ \A i \in DOMAIN Tail(frames) :
            /\ i \in Nat \ {0} /\ i + 1 \in DOMAIN frames /\ Tail(frames)[i] = frames[i + 1]
    OBVIOUS
<1>2. Len(Tail(frames)) - 0 + (k + 1) = n
    BY <1>1 DEF Flows
<1>3. ASSUME NEW i \in DOMAIN Tail(frames)
      PROVE  Tail(frames)[i] = StreamFrame(first, commit, (k + 1) + i - 0)
  <2>1. i + 1 > 0 /\ k + (i + 1) - 0 = (k + 1) + i - 0
      BY <1>1
  <2>2. frames[i + 1] = StreamFrame(first, commit, k + (i + 1) - 0)
      BY <1>1, <2>1 DEF Flows
  <2> QED BY <1>1, <2>1, <2>2
<1>4. frames[1] = StreamFrame(first, commit, k + 1)
  <2>1. k + 1 - 0 = k + 1 /\ 1 > 0
      OBVIOUS
  <2>2. frames[1] = StreamFrame(first, commit, k + 1 - 0)
      BY <1>1, <2>1 DEF Flows
  <2> QED BY <2>1, <2>2
<1> QED BY <1>2, <1>3, <1>4 DEF Flows

LEMMA FlowGrows ==
    ASSUME NEW frames \in Seq(DataFrame), NEW ahead \in {0, 1}, NEW first, NEW commit,
           NEW n \in Int, NEW k \in Nat, Flows(frames, ahead, first, commit, n, k),
           NEW f \in DataFrame, f = StreamFrame(first, commit, n + 1)
    PROVE  Flows(Append(frames, f), ahead, first, commit, n + 1, k)
<1>1. /\ Len(frames) \in Nat /\ Len(Append(frames, f)) = Len(frames) + 1
      /\ \A i \in DOMAIN Append(frames, f) :
            \/ i \in DOMAIN frames /\ Append(frames, f)[i] = frames[i]
            \/ i = Len(frames) + 1 /\ Append(frames, f)[i] = f
    OBVIOUS
<1>2. Len(frames) - ahead + k = n
    BY DEF Flows
<1>3. Len(Append(frames, f)) - ahead + k = n + 1 /\ k + (Len(frames) + 1) - ahead = n + 1
    BY <1>1, <1>2
<1>4. ASSUME NEW i \in DOMAIN Append(frames, f), i > ahead
      PROVE  Append(frames, f)[i] = StreamFrame(first, commit, k + i - ahead)
    BY <1>1, <1>3, <1>4 DEF Flows
<1> QED BY <1>3, <1>4 DEF Flows

\* The frames the relay has sent of the delivery it feeds, and whether the page has yet to
\* hear that its data socket is open.
Committed == data.state \in {"synced", "demoted"}
Told == data.sent - data.first + (IF Committed THEN 1 ELSE 0)
Ahead == IF C.data = "opening" THEN 1 ELSE 0
Follows(k) == Flows(dataWire.frames, Ahead, data.first, data.commit, Told, k)
StartOf(i) == ctlWire.frames[i].kind = "start" /\ ctlWire.frames[i].gen = C.gen
NoStart == \A i \in DOMAIN ctlWire.frames : ~StartOf(i)

\* The host has not answered; its start is on its way, and what overtook it is pending; the
\* coordinator has begun the delivery, or given it up.
Unfed ==
    ~Fed /\ K.state = "awaiting" /\ K.pending = <<>> /\ NoStart /\ Len(dataWire.frames) = Ahead
Announced ==
    /\ Fed /\ K.state = "awaiting"
    /\ \E i \in DOMAIN ctlWire.frames :
          /\ StartOf(i) /\ ctlWire.frames[i].cut = data.first
          /\ \A j \in DOMAIN ctlWire.frames : StartOf(j) => j = i
    /\ \A i \in DOMAIN K.pending : K.pending[i] = StreamFrame(data.first, data.commit, i)
    /\ Follows(Len(K.pending))
Followed ==
    Fed /\ NoStart /\ \E k \in Nat : Reached(K, data.first, data.commit, k) /\ Follows(k)
GivenUp == Fed /\ NoStart /\ K.state = "resyncing"
Streaming == Unfed \/ Announced \/ Followed \/ GivenUp
StreamInv ==
    /\ C.current /\ K.state = "awaiting" => page.acks.pending = NoSeq
    /\ C.current /\ HoldsData => Streaming

\* Numbers of a delivery, as the provers need them.
LEMMA StreamTyped ==
    ASSUME BaseInv
    PROVE  /\ dataWire.frames \in Seq(DataFrame) /\ ctlWire.frames \in Seq(ControlFrame)
           /\ Ahead \in {0, 1} /\ Len(dataWire.frames) \in Nat
           /\ K.pending \in Seq(DataFrame) /\ Len(K.pending) \in Nat
           /\ IsOpen(data) /\ Fed =>
                 /\ data.first \in Seqs /\ data.sent \in Seqs /\ data.commit \in Seqs
                 /\ data.first \in Int /\ data.sent \in Int /\ data.commit \in Int
                 /\ data.first <= data.commit /\ data.first <= data.sent
                 /\ Told \in Int
<1>1. PageInv /\ Frames /\ RelayInv
    BY DEF BaseInv, TypesInv
<1>2. dataWire.frames \in Seq(DataFrame) /\ ctlWire.frames \in Seq(ControlFrame)
    BY <1>1 DEF Frames
<1>3. K.pending \in Seq(DataFrame)
    BY <1>1 DEF PageInv, Sound, PageShape, Page, Coordinator, K
<1>4. ASSUME IsOpen(data), Fed
      PROVE  /\ data.first \in Seqs /\ data.sent \in Seqs /\ data.commit \in Seqs
             /\ data.first \in Int /\ data.sent \in Int /\ data.commit \in Int
             /\ data.first <= data.commit /\ data.first <= data.sent
    BY <1>1, <1>4, SeqsAreNumbers DEF RelayInv
<1>5. IsOpen(data) /\ Fed => Told \in Int
    BY <1>4 DEF Told
<1> QED BY <1>2, <1>3, <1>4, <1>5 DEF Ahead

-----------------------------------------------------------------------------
(* A callback preserves the stream *)

\* A control frame is taken that is no start of the delivery.
LEMMA StartsKept ==
    ASSUME BaseInv, C'.gen = C.gen, data' = data,
           \/ ctlWire' = ctlWire
           \/ /\ ctlWire.frames # <<>> /\ ctlWire' = Untold(ctlWire)
              /\ ~StartOf(1)
    PROVE  /\ NoStart => NoStart'
           /\ (\E i \in DOMAIN ctlWire.frames :
                  /\ StartOf(i) /\ ctlWire.frames[i].cut = data.first
                  /\ \A j \in DOMAIN ctlWire.frames : StartOf(j) => j = i)
              => (\E i \in DOMAIN ctlWire.frames :
                  /\ StartOf(i) /\ ctlWire.frames[i].cut = data.first
                  /\ \A j \in DOMAIN ctlWire.frames : StartOf(j) => j = i)'
<1>1. CASE ctlWire' = ctlWire
    BY <1>1 DEF NoStart, StartOf
<1>2. CASE ctlWire.frames # <<>> /\ ctlWire' = Untold(ctlWire) /\ ~StartOf(1)
  <2>1. /\ DOMAIN ctlWire.frames = 1 .. Len(ctlWire.frames) /\ Len(ctlWire.frames) \in Nat \ {0}
        /\ DOMAIN ctlWire'.frames = 1 .. Len(ctlWire.frames) - 1
        /\ \A i \in DOMAIN ctlWire'.frames :
              ctlWire'.frames[i] = ctlWire.frames[i + 1] /\ i + 1 \in DOMAIN ctlWire.frames
      BY <1>2, WiresTyped, UntoldIs
  <2>2. \A i \in DOMAIN ctlWire'.frames : StartOf(i)' <=> StartOf(i + 1)
      BY <2>1 DEF StartOf
  <2>3. NoStart => NoStart'
      BY <2>1, <2>2 DEF NoStart
  <2>4. ASSUME NEW i \in DOMAIN ctlWire.frames, StartOf(i), ctlWire.frames[i].cut = data.first,
               \A j \in DOMAIN ctlWire.frames : StartOf(j) => j = i
        PROVE  /\ i - 1 \in DOMAIN ctlWire'.frames
               /\ StartOf(i - 1)' /\ ctlWire'.frames[i - 1].cut = data.first
               /\ \A j \in DOMAIN ctlWire'.frames : StartOf(j)' => j = i - 1
    <3>1. i # 1
        BY <1>2, <2>4
    <3>2. i - 1 \in DOMAIN ctlWire'.frames /\ (i - 1) + 1 = i
        BY <2>1, <3>1
    <3>3. StartOf(i - 1)' /\ ctlWire'.frames[i - 1].cut = data.first
        BY <2>1, <2>2, <2>4, <3>2
    <3>4. ASSUME NEW j \in DOMAIN ctlWire'.frames, StartOf(j)' PROVE j = i - 1
      <4>1. j + 1 = i
          BY <2>1, <2>2, <2>4, <3>4
      <4> QED BY <2>1, <4>1
    <3> QED BY <3>2, <3>3, <3>4
  <2> QED BY <2>3, <2>4
<1> QED BY <1>1, <1>2

LEMMA PageKeepsStream ==
    ASSUME BaseInv, LinkInv, StreamInv, NEW q, NEW ctl, NEW dat, NEW h,
           PageBecomes(q, ctl, dat), Outcome(q, ctl, dat, h)
    PROVE  StreamInv'
<1>0. /\ PageInv /\ Frames /\ WireInv /\ OwnInv /\ OpenInv /\ SetInv /\ Sound(q)
    BY OutcomeIs DEF LinkInv, BaseInv, TypesInv
<1>1. /\ data' = data /\ C' = q.connection /\ K' = q.coordinator /\ page'.acks = q.acks
      /\ ctlWire' = IF q.connection.set # page.connection.set
                    THEN Fresh(q.connection.set, 0) ELSE ctl
      /\ dataWire' = IF DataSocket(q) # DataSocket(page)
                     THEN Fresh(DataSocket(q).set, DataSocket(q).gen) ELSE dat
    BY <1>0, BecomesIs DEF C, K
<1>2. /\ dataWire'.set = DataSocket(q).set /\ dataWire'.gen = DataSocket(q).gen
  <2>1. WireInv' /\ DataSocket(page') = DataSocket(q)
      BY <1>0, <1>1, PageWires, OutcomeIs DEF DataSocket, C
  <2> QED BY <2>1 DEF WireInv
<1>3. SUFFICES ASSUME C'.current
               PROVE  /\ K'.state = "awaiting" => page'.acks.pending = NoSeq
                      /\ HoldsData' => Streaming'
    BY DEF StreamInv
<1>4. C' # NoConnection /\ q.connection # NoConnection
    BY <1>1, <1>3 DEF NoConnection
<1>5. Told' = Told /\ (Fed' <=> Fed)
    BY <1>1 DEF Told, Fed, Committed
<1>6. HoldsData' => IsOpen(data) /\ data.set = DataSocket(q).set /\ data.gen = DataSocket(q).gen
                    /\ data.set # 0 /\ C'.data # "none"
    BY <1>1, <1>2, LinkNumbers DEF HoldsData, IsOpen, SameSocket, DataSocket, NoSocket
<1>7. ASSUME q.connection.set = page.connection.set, q.connection.gen = page.connection.gen,
             q.connection.data = page.connection.data
      PROVE  ctlWire' = ctl /\ dataWire' = dat /\ C'.gen = C.gen /\ Ahead' = Ahead
    BY <1>1, <1>7 DEF DataSocket, Ahead, C
<1>8. /\ C.current /\ K.state = "awaiting" => page.acks.pending = NoSeq
      /\ C.current /\ HoldsData => Streaming
    BY DEF StreamInv
<1>9. /\ ctlWire.frames # <<>> =>
            Head(ctlWire.frames) = ctlWire.frames[1] /\ 1 \in DOMAIN ctlWire.frames
      /\ dataWire.frames # <<>> =>
            /\ Head(dataWire.frames) = dataWire.frames[1] /\ 1 \in DOMAIN dataWire.frames
            /\ Head(dataWire.frames) \in DataFrame
            /\ Untold(dataWire).frames = Tail(dataWire.frames)
            /\ Untold(dataWire).set = dataWire.set /\ Untold(dataWire).gen = dataWire.gen
    BY <1>0, FramesHead, WiresTyped, UntoldIs
<1>10. CASE Stays(q, ctl, dat)
  <2>1. /\ Remains(page.connection, q.connection) /\ Continues(K, q.coordinator)
        /\ q.acks = page.acks /\ C.current
      BY <1>1, <1>3, <1>4, <1>10 DEF Stays, Quiet, Remains, C, K
  <2>2. ctlWire' = ctl /\ dataWire' = dat /\ C'.gen = C.gen /\ Ahead' = Ahead
      BY <1>7, <2>1 DEF Remains
  <2>3. /\ dataWire' = dataWire
        /\ \/ ctlWire' = ctlWire
           \/ ctlWire.frames # <<>> /\ ctlWire' = Untold(ctlWire) /\ ~StartOf(1)
    <3>1. CASE Kept(ctl, dat)
        BY <2>2, <3>1 DEF Kept
    <3>2. CASE ~Kept(ctl, dat)
      <4>0. /\ Heard(ctl, dat)
            /\ \/ Head(ctlWire.frames).kind \in {"welcome", "offline"}
               \/ Head(ctlWire.frames).gen < C.gen
          BY <1>1, <1>3, <1>10, <3>2 DEF Stays, C
      <4>1. /\ ctlWire.frames # <<>> /\ ctl = Untold(ctlWire) /\ dat = dataWire
            /\ \/ Head(ctlWire.frames).kind \in {"welcome", "offline"}
               \/ Head(ctlWire.frames).gen < C.gen
          BY <4>0 DEF Heard
      <4>2. ~StartOf(1)
        <5>1. CASE Head(ctlWire.frames).kind \in {"welcome", "offline"}
            BY <1>9, <4>1, <5>1 DEF StartOf
        <5>2. CASE Head(ctlWire.frames).gen < C.gen
          <6>1. C.gen \in Int
              BY LinkNumbers
          <6>2. Head(ctlWire.frames).gen # C.gen
              BY <5>2, <6>1
          <6> QED BY <1>9, <4>1, <6>2 DEF StartOf
        <5> QED BY <4>1, <5>1, <5>2
      <4> QED BY <2>2, <4>1, <4>2
    <3> QED BY <3>1, <3>2
  <2>4. K'.state = "awaiting" => K.state = "awaiting" /\ K' = K
      BY <1>1, <2>1 DEF Continues
  <2>5. ASSUME HoldsData' PROVE Streaming'
    <3>1. HoldsData
        BY <1>1, <2>3, <2>5 DEF HoldsData, IsOpen, SameSocket
    <3>2. Streaming
        BY <1>8, <2>1, <3>1
    <3>3. \A k \in Nat : Follows(k) => Follows(k)'
        BY <1>1, <1>5, <2>2, <2>3 DEF Follows
    <3>4. CASE Unfed
      <4>1. K' = K
          BY <1>1, <2>1, <3>4 DEF Unfed, Continues
      <4> QED BY <1>1, <1>5, <2>2, <2>3, <3>4, <4>1, StartsKept DEF Unfed, Streaming
    <3>5. CASE Announced
      <4>1. K' = K
          BY <1>1, <2>1, <3>5 DEF Announced, Continues
      <4>2. Follows(Len(K.pending))'
          BY <3>3, <3>5, <4>1, StreamTyped DEF Announced, Follows
      <4>3. (\E i \in DOMAIN ctlWire.frames :
                  /\ StartOf(i) /\ ctlWire.frames[i].cut = data.first
                  /\ \A j \in DOMAIN ctlWire.frames : StartOf(j) => j = i)'
          BY <1>1, <2>2, <2>3, <3>5, StartsKept DEF Announced
      <4> HIDE DEF K
      <4>4. Announced'
          BY <1>1, <1>5, <3>5, <4>1, <4>2, <4>3 DEF Announced
      <4> QED BY <4>4 DEF Streaming
    <3>6. CASE Followed
      <4>1. PICK k \in Nat : Reached(K, data.first, data.commit, k) /\ Follows(k)
          BY <3>6 DEF Followed
      <4>2. NoStart' /\ Fed'
          BY <1>1, <1>5, <2>2, <2>3, <3>6, StartsKept DEF Followed
      <4>3. Follows(k)'
          BY <3>3, <4>1
      <4>4. Reached(K', data.first, data.commit, k) \/ K'.state = "resyncing"
          BY <1>1, <2>1, <4>1 DEF Continues, Reached, Delivering
      <4> QED BY <1>1, <4>2, <4>3, <4>4 DEF Streaming, Followed, GivenUp
    <3>7. CASE GivenUp
      <4>1. K'.state = "resyncing"
          BY <1>1, <2>1, <3>7 DEF GivenUp, Continues
      <4> QED BY <1>1, <1>5, <2>2, <2>3, <3>7, <4>1, StartsKept DEF GivenUp, Streaming
    <3> QED BY <3>2, <3>4, <3>5, <3>6, <3>7 DEF Streaming
  <2> QED BY <1>1, <1>8, <2>1, <2>4, <2>5
<1>11. CASE Activates(q, ctl, dat)
  <2>1. C'.data = "none" /\ page'.acks.pending = NoSeq
      BY <1>1, <1>11 DEF Activates, NewConnection, NoAcks
  <2> QED BY <1>6, <2>1
<1>12. CASE OpensControl(q, ctl, dat)
  <2>1. /\ K' = K /\ page'.acks = page.acks /\ C.current
        /\ q.connection.data = "opening" /\ q.connection.set = C.set
        /\ ctlWire.frames # <<>> /\ Head(ctlWire.frames).kind = "open"
      BY <1>1, <1>12 DEF OpensControl, Heard, Changes, C, K
  <2>2. C.control = "opening"
      BY <1>0, <1>9, <2>1 DEF OpenInv
  <2>3. data.set # C.set
      BY <1>0, <2>2 DEF OwnInv
  <2>4. ~HoldsData'
      BY <1>6, <2>1, <2>3 DEF DataSocket
  <2> QED BY <1>8, <2>1, <2>4
<1>13. CASE OpensData(q, ctl, dat)
  <2>1. /\ TakenData(ctl, dat) /\ Head(dataWire.frames).kind = "open" /\ C.current
        /\ Changes(q, page.connection.gen, "open", "open")
        /\ q.coordinator = K /\ q.acks.pending = NoSeq
      BY <1>4, <1>13 DEF OpensData, C, K
  <2>2. C.data = "opening" /\ dataWire.frames # <<>>
      BY <1>0, <1>9, <2>1 DEF OpenInv, TakenData
  <2>3. /\ q.connection.set = page.connection.set /\ q.connection.gen = page.connection.gen
        /\ q.connection.data = "open" /\ page.connection.data = "opening"
      BY <2>1, <2>2 DEF Changes, C
  <2>4. /\ ctlWire' = ctlWire /\ dataWire' = Untold(dataWire) /\ C'.gen = C.gen
        /\ Ahead = 1 /\ Ahead' = 0 /\ K' = K
      BY <1>1, <2>1, <2>2, <2>3 DEF TakenData, DataSocket, Ahead, C
  <2>5. ASSUME HoldsData' PROVE Streaming'
    <3>1. HoldsData
        BY <1>1, <1>9, <2>2, <2>4, <2>5 DEF HoldsData, IsOpen, SameSocket
    <3>2. Streaming /\ IsOpen(data)
        BY <1>8, <2>1, <3>1 DEF HoldsData
    <3>3. NoStart => NoStart'
        BY <2>4 DEF NoStart, StartOf
    <3>4. dataWire'.frames = Tail(dataWire.frames)
        BY <1>9, <2>2, <2>4
    <3>5. ASSUME Fed, NEW k \in Nat, Follows(k) PROVE Follows(k)'
      <4>1. Flows(dataWire.frames, 1, data.first, data.commit, Told, k)
          BY <2>4, <3>5 DEF Follows
      <4>2. Flows(Tail(dataWire.frames), 0, data.first, data.commit, Told, k)
          BY <2>2, <3>2, <3>5, <4>1, StreamTyped, FlowOpens
      <4> QED BY <1>1, <1>5, <2>4, <3>4, <4>2 DEF Follows
    <3>6. CASE Unfed
      <4>1. Len(dataWire.frames) = 1
          BY <2>4, <3>6 DEF Unfed
      <4>2. Len(Tail(dataWire.frames)) = 0
          BY <2>2, <4>1, StreamTyped
      <4> QED BY <1>1, <1>5, <2>4, <3>3, <3>4, <3>6, <4>2 DEF Unfed, Streaming
    <3>7. CASE Announced
      <4>1. Follows(Len(K.pending))'
          BY <2>4, <3>5, <3>7, StreamTyped DEF Announced, Follows
      <4>2. (\E i \in DOMAIN ctlWire.frames :
                  /\ StartOf(i) /\ ctlWire.frames[i].cut = data.first
                  /\ \A j \in DOMAIN ctlWire.frames : StartOf(j) => j = i)'
          BY <1>1, <2>4, <3>7 DEF Announced, StartOf
      <4> HIDE DEF K
      <4>3. Announced'
          BY <1>1, <1>5, <2>4, <3>7, <4>1, <4>2 DEF Announced
      <4> QED BY <4>3 DEF Streaming
    <3>8. CASE Followed
      <4>1. PICK k \in Nat : Reached(K, data.first, data.commit, k) /\ Follows(k)
          BY <3>8 DEF Followed
      <4>2. Follows(k)' /\ Fed' /\ NoStart'
          BY <1>5, <3>3, <3>5, <3>8, <4>1 DEF Followed
      <4> QED BY <1>1, <2>4, <4>1, <4>2 DEF Followed, Streaming
    <3>9. CASE GivenUp
        BY <1>5, <2>4, <3>3, <3>9 DEF GivenUp, Streaming
    <3> QED BY <3>2, <3>6, <3>7, <3>8, <3>9 DEF Streaming
  <2> QED BY <1>1, <2>1, <2>5
<1>14. CASE DropsData(q, ctl, dat)
  <2>1. C'.data = "none" /\ K' = K /\ page'.acks = page.acks /\ C.current
      BY <1>1, <1>14 DEF DropsData, Changes, C, K
  <2> QED BY <1>6, <1>8, <2>1
<1>15. CASE Resyncs(q, ctl, dat)
  <2> DEFINE g == Head(ctlWire.frames).gen
  <2>1. /\ C.gen < g /\ q.connection.set = C.set /\ q.connection.gen = g
        /\ q.connection.data = "opening" /\ page'.acks.pending = NoSeq
        /\ ctlWire.frames # <<>> /\ Head(ctlWire.frames).kind = "resync"
      BY <1>1, <1>4, <1>15 DEF Resyncs, Changes, C, NoAcks, Heard
  <2>2. g \in Int /\ C.gen \in Int
    <3>1. Head(ctlWire.frames) \in ControlFrame
        BY <1>0, <2>1, FramesHead
    <3>2. g \in Gens
        BY <2>1, <3>1 DEF ControlFrame
    <3> QED BY <3>2, SeqsAreNumbers, LinkNumbers
  <2>3. HoldsData' => IsOpen(data) /\ data.set = C.set /\ data.gen = g
      BY <1>6, <2>1 DEF DataSocket
  <2>4. IsOpen(data) /\ data.set = C.set => data.gen <= C.gen
      BY <1>0 DEF OwnInv
  <2>5. ~HoldsData'
    <3> HIDE DEF g
    <3> QED BY <2>1, <2>2, <2>3, <2>4
  <2> QED BY <2>1, <2>5
<1>16. CASE Starts(q, ctl, dat, h)
  <2> DEFINE f == Head(ctlWire.frames)
  <2>1. /\ Heard(ctl, dat) /\ f.kind = "start" /\ C.current /\ f.gen = C.gen
        /\ Started(page, f, h, q) /\ q.connection = page.connection
      BY <1>4, <1>16 DEF Starts, Started, C
  <2>2. /\ ctlWire' = Untold(ctlWire) /\ dataWire' = dataWire /\ C' = C /\ Ahead' = Ahead
        /\ ctlWire.frames # <<>>
      BY <1>1, <1>7, <2>1 DEF Heard, C
  <2>3. StartOf(1) /\ 1 \in DOMAIN ctlWire.frames /\ f = ctlWire.frames[1]
      BY <1>9, <2>1, <2>2 DEF StartOf
  <2>4. K'.state # "awaiting"
      BY <1>1, <2>1 DEF Started, Delivering
  <2>5. ASSUME HoldsData' PROVE Streaming'
    <3>1. HoldsData
        BY <1>1, <2>2, <2>5 DEF HoldsData, IsOpen, SameSocket
    <3>2. Announced /\ IsOpen(data)
        BY <1>8, <2>1, <2>3, <3>1 DEF HoldsData, Streaming, Unfed, Followed, GivenUp, NoStart
    <3>3. f.cut = data.first /\ \A j \in DOMAIN ctlWire.frames : StartOf(j) => j = 1
        BY <2>3, <3>2 DEF Announced
    <3>4. NoStart' /\ Fed'
      <4>1. \A i \in DOMAIN ctlWire'.frames :
               /\ ctlWire'.frames[i] = ctlWire.frames[i + 1] /\ i + 1 \in DOMAIN ctlWire.frames
               /\ i \in Nat \ {0}
          BY <2>2, WiresTyped, UntoldIs, SMTT(30)
      <4>2. \A i \in DOMAIN ctlWire'.frames : i + 1 # 1
          BY <4>1
      <4> QED BY <1>5, <2>2, <3>2, <3>3, <4>1, <4>2 DEF NoStart, StartOf, Announced
    <3>5. CASE K'.state = "resyncing"
        BY <3>4, <3>5 DEF Streaming, GivenUp
    <3>6. CASE K'.state # "resyncing"
      <4>1. /\ page.coordinator.state = "awaiting" /\ page.out = <<>>
            /\ page.acks.pending = NoSeq
          BY <1>0, <1>8, <2>1, <3>2 DEF Announced, PageInv, K
      <4>2. /\ f.cut <= data.commit /\ data.commit \in Seqs
            /\ \A i \in DOMAIN page.coordinator.pending :
                  page.coordinator.pending[i] = StreamFrame(f.cut, data.commit, i)
          BY <3>2, <3>3, StreamTyped DEF Announced, K
      <4>3. InStream(page, f.cut, data.commit, Len(page.coordinator.pending), q)
        <5>1. \A commit \in Seqs :
                    /\ page.coordinator.state = "awaiting" /\ page.out = <<>>
                    /\ page.acks.pending = NoSeq /\ f.cut <= commit
                    /\ \A i \in DOMAIN page.coordinator.pending :
                          page.coordinator.pending[i] = StreamFrame(f.cut, commit, i)
                    => InStream(page, f.cut, commit, Len(page.coordinator.pending), q)
          <6> HIDE DEF f
          <6> QED BY <1>1, <2>1, <3>6, <4>1 DEF Started
        <5> HIDE DEF f
        <5> QED BY <4>1, <4>2, <5>1
      <4>4. Reached(K', data.first, data.commit, Len(K.pending))
          BY <1>1, <3>3, <4>3 DEF InStream, K
      <4>5. PICK k \in Nat : k = Len(K.pending)
          BY StreamTyped
      <4>6. Follows(k)
          BY <3>2, <4>5 DEF Announced
      <4>7. Follows(k)'
          BY <1>1, <1>5, <2>2, <4>6 DEF Follows
      <4> QED BY <1>1, <3>4, <4>4, <4>5, <4>7 DEF Streaming, Followed
    <3> QED BY <3>5, <3>6
  <2> QED BY <2>4, <2>5
<1>17. CASE Takes(q, ctl, dat)
  <2> DEFINE f == Head(dataWire.frames)
  <2>1. /\ TakenData(ctl, dat) /\ f.kind \in {"event", "commit"} /\ C.current
        /\ Accepted(page, f, q) /\ q.connection = page.connection
      BY <1>4, <1>17 DEF Takes, Accepted, C
  <2>2. /\ ctlWire' = ctlWire /\ dataWire' = Untold(dataWire) /\ C' = C /\ Ahead' = Ahead
        /\ dataWire.frames # <<>> /\ f = dataWire.frames[1]
        /\ dataWire'.frames = Tail(dataWire.frames) /\ f \in DataFrame
      BY <1>1, <1>7, <1>9, <2>1 DEF TakenData, C
  <2> HIDE DEF f
  <2>3. K'.state = "awaiting" => K.state = "awaiting" /\ page'.acks = page.acks
      BY <1>1, <2>1 DEF Accepted, Delivering, K
  <2>4. ASSUME HoldsData' PROVE Streaming'
    <3>1. HoldsData /\ IsOpen(data)
        BY <1>1, <1>9, <2>2, <2>4 DEF HoldsData, IsOpen, SameSocket
    <3>2. Streaming
        BY <1>8, <2>1, <3>1
    <3>3. Ahead = 0
        BY <1>0, <2>1, <2>2, <3>1 DEF OpenInv, Ahead
    <3>4. NoStart => NoStart'
        BY <2>2 DEF NoStart, StartOf
    <3>5. ~Unfed
        BY <2>2, <3>3, StreamTyped DEF Unfed
    <3>6. ASSUME Fed, NEW k \in Nat, Follows(k)
          PROVE  f = StreamFrame(data.first, data.commit, k + 1) /\ Follows(k + 1)'
      <4>1. Flows(dataWire.frames, 0, data.first, data.commit, Told, k)
          BY <3>3, <3>6 DEF Follows
      <4>2. /\ f = StreamFrame(data.first, data.commit, k + 1)
            /\ Flows(Tail(dataWire.frames), 0, data.first, data.commit, Told, k + 1)
          BY <2>2, <3>1, <3>6, <4>1, StreamTyped, FlowTaken
      <4> QED BY <1>1, <1>5, <2>2, <3>3, <4>2 DEF Follows
    <3>7. CASE Announced
      <4>1. K' = [K EXCEPT !.pending = Append(@, f)]
          BY <1>1, <2>1, <3>7 DEF Accepted, Delivering, Announced, K
      <4>2. K \in Coordinator
          BY <1>0 DEF PageInv, Sound, PageShape, Page, K
      <4>3. K'.pending = Append(K.pending, f) /\ K'.state = K.state
          BY <4>1, <4>2 DEF Coordinator
      <4>4. PICK n \in Nat : n = Len(K.pending)
          BY StreamTyped
      <4>a. Follows(n) /\ Fed
          BY <3>7, <4>4 DEF Announced
      <4>5. /\ Len(K'.pending) = n + 1
            /\ \A i \in DOMAIN K'.pending :
                  \/ i \in DOMAIN K.pending /\ K'.pending[i] = K.pending[i]
                  \/ i = n + 1 /\ K'.pending[i] = f
          BY <2>2, <4>3, <4>4, StreamTyped, SMTT(30)
      <4>6. f = StreamFrame(data.first, data.commit, n + 1) /\ Follows(n + 1)'
          BY <3>6, <4>4, <4>a
      <4>7. \A i \in DOMAIN K'.pending : K'.pending[i] = StreamFrame(data.first, data.commit, i)
          BY <3>7, <4>5, <4>6 DEF Announced
      <4>8. (\E i \in DOMAIN ctlWire.frames :
                  /\ StartOf(i) /\ ctlWire.frames[i].cut = data.first
                  /\ \A j \in DOMAIN ctlWire.frames : StartOf(j) => j = i)'
          BY <1>1, <2>2, <3>7 DEF Announced, StartOf
      <4>9. Follows(Len(K.pending))'
          BY <4>5, <4>6 DEF Follows
      <4>10. Fed' /\ K'.state = "awaiting"
          BY <1>5, <3>7, <4>3 DEF Announced
      <4>11. \A i \in DOMAIN K'.pending : K'.pending[i] = StreamFrame(data'.first, data'.commit, i)
          BY <1>1, <4>7
      <4>12. Announced'
          BY <4>8, <4>9, <4>10, <4>11, Zenon DEF Announced
      <4> QED BY <4>12 DEF Streaming
    <3>8. CASE Followed
      <4>1. PICK k \in Nat : Reached(K, data.first, data.commit, k) /\ Follows(k)
          BY <3>8 DEF Followed
      <4>2. f = StreamFrame(data.first, data.commit, k + 1) /\ Follows(k + 1)'
          BY <3>6, <3>8, <4>1 DEF Followed
      <4>3. Reached(K', data.first, data.commit, k + 1)
        <5>1. Sound(page) /\ Reached(page.coordinator, data.first, data.commit, k)
            BY <1>0, <4>1 DEF PageInv, K
        <5>2. data.first \in Seqs /\ data.commit \in Seqs /\ data.first <= data.commit
            BY <3>1, <3>8, StreamTyped DEF Followed
        <5>3. Reached(q.coordinator, data.first, data.commit, k + 1)
            BY <2>1, <4>1, <4>2, <5>1, <5>2, AcceptReaches
        <5> QED BY <1>1, <5>3
      <4>4. k + 1 \in Nat /\ Fed' /\ NoStart'
          BY <1>5, <3>4, <3>8, <4>1 DEF Followed
      <4> HIDE DEF K
      <4> QED BY <1>1, <4>2, <4>3, <4>4 DEF Followed, Streaming
    <3>9. CASE GivenUp
      <4>1. K'.state = "resyncing"
          BY <1>1, <2>1, <3>9 DEF Accepted, Delivering, GivenUp, K
      <4> QED BY <1>5, <3>4, <3>9, <4>1 DEF GivenUp, Streaming
    <3> QED BY <3>2, <3>5, <3>7, <3>8, <3>9 DEF Streaming
  <2> QED BY <1>1, <1>8, <2>1, <2>3, <2>4
<1>18. CASE Flushes(q, ctl, dat)
  <2>1. /\ Kept(ctl, dat) /\ q.connection = page.connection /\ q.coordinator = page.coordinator
        /\ page'.acks.pending = NoSeq /\ C.current
      BY <1>1, <1>4, <1>18 DEF Flushes, C
  <2>2. /\ ctlWire' = ctlWire /\ dataWire' = dataWire /\ C' = C /\ K' = K
      BY <1>1, <1>7, <2>1 DEF Kept, C, K
  <2>3. HoldsData' => HoldsData
      BY <1>1, <2>2, Zenon DEF HoldsData, IsOpen, SameSocket
  <2>4. Streaming => Streaming'
      BY <1>1, <2>2
         DEF Streaming, Unfed, Announced, Followed, GivenUp, Follows, NoStart, StartOf, Told,
             Ahead, Fed, Committed
  <2> QED BY <1>8, <2>1, <2>3, <2>4
<1> QED BY <1>10, <1>11, <1>12, <1>13, <1>14, <1>15, <1>16, <1>17, <1>18 DEF Outcome

-----------------------------------------------------------------------------
(* A step of the relay preserves the stream *)

\* What the control socket is told, other than a start, leaves the starts on their way.
Startless ==
    /\ \A i \in DOMAIN ctlWire'.frames :
          \/ i \in DOMAIN ctlWire.frames /\ ctlWire'.frames[i] = ctlWire.frames[i]
          \/ ctlWire'.frames[i].kind # "start"
    /\ \A i \in DOMAIN ctlWire.frames :
          i \in DOMAIN ctlWire'.frames /\ ctlWire'.frames[i] = ctlWire.frames[i]
LEMMA SaysNoStart ==
    ASSUME BaseInv,
           \/ ctlWire' = ctlWire
           \/ \E f \in ControlFrame :
                 /\ ctlWire' \in {Onto(ctlWire, f), Onto(Onto(ctlWire, f), Frame("offline"))}
                 /\ f.kind # "start"
    PROVE  Startless
<1>1. CASE ctlWire' = ctlWire
    BY <1>1 DEF Startless
<1>2. ASSUME NEW f \in ControlFrame, f.kind # "start",
             ctlWire' \in {Onto(ctlWire, f), Onto(Onto(ctlWire, f), Frame("offline"))}
      PROVE  Startless
  <2> DEFINE w == Onto(ctlWire, f)
             g == Frame("offline")
  <2>1. /\ w \in [set : 0 .. MaxSets, gen : 0 .. MaxGen, frames : Seq(ControlFrame)]
        /\ g \in ControlFrame /\ g.kind # "start"
      BY WiresTyped, WireTyped, SentFrames DEF Frame
  <2>2. /\ \A i \in DOMAIN w.frames :
              \/ i \in DOMAIN ctlWire.frames /\ w.frames[i] = ctlWire.frames[i]
              \/ w.frames[i] = f
        /\ \A i \in DOMAIN ctlWire.frames :
              i \in DOMAIN w.frames /\ w.frames[i] = ctlWire.frames[i]
      BY WiresTyped, FramesGrow
  <2> HIDE DEF w, g
  <2>3. /\ \A i \in DOMAIN Onto(w, g).frames :
              \/ i \in DOMAIN w.frames /\ Onto(w, g).frames[i] = w.frames[i]
              \/ Onto(w, g).frames[i] = g
        /\ \A i \in DOMAIN w.frames :
              i \in DOMAIN Onto(w, g).frames /\ Onto(w, g).frames[i] = w.frames[i]
      BY <2>1, FramesGrow
  <2>4. ctlWire' = w \/ ctlWire' = Onto(w, g)
      BY <1>2 DEF w, g
  <2> QED BY <1>2, <2>1, <2>2, <2>3, <2>4 DEF Startless
<1> QED BY <1>1, <1>2

LEMMA StartsStay ==
    ASSUME C' = C, data'.first = data.first, Startless
    PROVE  /\ NoStart => NoStart'
           /\ (\E i \in DOMAIN ctlWire.frames :
                  /\ StartOf(i) /\ ctlWire.frames[i].cut = data.first
                  /\ \A j \in DOMAIN ctlWire.frames : StartOf(j) => j = i)
              => (\E i \in DOMAIN ctlWire.frames :
                  /\ StartOf(i) /\ ctlWire.frames[i].cut = data.first
                  /\ \A j \in DOMAIN ctlWire.frames : StartOf(j) => j = i)'
<1>1. /\ \A i \in DOMAIN ctlWire'.frames :
            StartOf(i)' => i \in DOMAIN ctlWire.frames /\ StartOf(i)
      /\ \A i \in DOMAIN ctlWire.frames :
            /\ i \in DOMAIN ctlWire'.frames /\ ctlWire'.frames[i] = ctlWire.frames[i]
            /\ StartOf(i) => StartOf(i)'
    BY DEF Startless, StartOf
<1>2. NoStart => NoStart'
    BY <1>1 DEF NoStart
<1>3. ASSUME NEW i \in DOMAIN ctlWire.frames, StartOf(i), ctlWire.frames[i].cut = data.first,
             \A j \in DOMAIN ctlWire.frames : StartOf(j) => j = i
      PROVE  /\ i \in DOMAIN ctlWire'.frames
             /\ StartOf(i)' /\ ctlWire'.frames[i].cut = data'.first
             /\ \A j \in DOMAIN ctlWire'.frames : StartOf(j)' => j = i
    BY <1>1, <1>3
<1> QED BY <1>2, <1>3

\* A step that feeds the page nothing, and tells it of no start.
LEMMA StreamRests ==
    ASSUME BaseInv, StreamInv, C' = C, K' = K,
           data'.set = data.set, data'.gen = data.gen, Fed' <=> Fed, Committed' <=> Committed,
           data'.first = data.first, data'.sent = data.sent, data'.commit = data.commit,
           IsOpen(data') => IsOpen(data), dataWire' = dataWire, Startless
    PROVE  C.current /\ HoldsData' => Streaming'
<1> SUFFICES ASSUME C.current, HoldsData' PROVE Streaming'
    OBVIOUS
<1>1. HoldsData
    BY DEF HoldsData, IsOpen, SameSocket
<1>2. Streaming
    BY <1>1 DEF StreamInv
<1>3. /\ Told' = Told /\ (Fed' <=> Fed) /\ Ahead' = Ahead
      /\ \A k : Follows(k)' <=> Follows(k)
    BY DEF Told, Ahead, Follows
<1>4. CASE Unfed
    BY <1>3, <1>4, StartsStay DEF Unfed, Streaming
<1>5. CASE Announced
  <2>1. (\E i \in DOMAIN ctlWire.frames :
                  /\ StartOf(i) /\ ctlWire.frames[i].cut = data.first
                  /\ \A j \in DOMAIN ctlWire.frames : StartOf(j) => j = i)'
      BY <1>5, StartsStay DEF Announced
  <2>2. Follows(Len(K.pending))'
    <3>1. Follows(Len(K.pending))
        BY <1>5 DEF Announced
    <3> QED BY <1>3, <3>1 DEF Follows
  <2>3. Fed' /\ K'.state = "awaiting"
      BY <1>3, <1>5 DEF Announced
  <2>4. \A i \in DOMAIN K'.pending : K'.pending[i] = StreamFrame(data'.first, data'.commit, i)
      BY <1>5 DEF Announced
  <2>5. Announced'
      BY <2>1, <2>2, <2>3, <2>4, Zenon DEF Announced
  <2> QED BY <2>5 DEF Streaming
<1>6. CASE Followed
  <2>1. PICK k \in Nat : Reached(K, data.first, data.commit, k) /\ Follows(k)
      BY <1>6 DEF Followed
  <2>2. Reached(K', data'.first, data'.commit, k) /\ Follows(k)'
      BY <1>3, <2>1
  <2>3. Fed' /\ NoStart'
      BY <1>3, <1>6, StartsStay DEF Followed
  <2>4. Followed'
      BY <2>2, <2>3 DEF Followed
  <2> QED BY <2>4 DEF Streaming
<1>7. CASE GivenUp
    BY <1>3, <1>7, StartsStay DEF GivenUp, Streaming
<1> QED BY <1>2, <1>4, <1>5, <1>6, <1>7 DEF Streaming

\* One more frame of the delivery is sent.
LEMMA StreamGrows ==
    ASSUME BaseInv, StreamInv, C' = C, K' = K, ctlWire' = ctlWire, Fed, Fed', IsOpen(data),
           data'.set = data.set, data'.gen = data.gen,
           data'.first = data.first, data'.commit = data.commit, Told' = Told + 1,
           NEW f \in DataFrame, f = StreamFrame(data.first, data.commit, Told + 1),
           dataWire' = ToData(f)
    PROVE  C.current /\ HoldsData' => Streaming'
<1> SUFFICES ASSUME C.current, HoldsData' PROVE Streaming'
    OBVIOUS
<1>1. HoldsData /\ dataWire' = Onto(dataWire, f)
  <2>1. CASE HoldsData
      BY <2>1 DEF ToData
  <2>2. CASE ~HoldsData
      BY <2>2 DEF ToData, HoldsData, SameSocket, IsOpen
  <2> QED BY <2>1, <2>2
<1>2. Streaming
    BY <1>1 DEF StreamInv
<1>3. dataWire'.frames = Append(dataWire.frames, f)
    BY <1>1, WiresTyped DEF Onto
<1>4. ASSUME NEW k \in Nat, Follows(k) PROVE Follows(k)'
  <2>1. Flows(dataWire.frames, Ahead, data.first, data.commit, Told, k)
      BY <1>4 DEF Follows
  <2>2. Flows(dataWire'.frames, Ahead, data.first, data.commit, Told + 1, k)
    <3>1. /\ dataWire.frames \in Seq(DataFrame) /\ Ahead \in {0, 1} /\ Told \in Int
        BY StreamTyped
    <3>2. Flows(Append(dataWire.frames, f), Ahead, data.first, data.commit, Told + 1, k)
      <4> HIDE DEF Told, Ahead
      <4> QED BY <2>1, <3>1, FlowGrows
    <3> QED BY <1>3, <3>2
  <2>3. Ahead' = Ahead
      BY DEF Ahead
  <2> QED BY <2>2, <2>3 DEF Follows
<1>5. NoStart => NoStart'
    BY DEF NoStart, StartOf
<1>6. CASE Announced
  <2>1. (\E i \in DOMAIN ctlWire.frames :
                  /\ StartOf(i) /\ ctlWire.frames[i].cut = data.first
                  /\ \A j \in DOMAIN ctlWire.frames : StartOf(j) => j = i)'
      BY <1>6 DEF Announced, StartOf
  <2>2. Follows(Len(K.pending))'
    <3>1. Follows(Len(K.pending)) /\ Len(K.pending) \in Nat
        BY <1>6, StreamTyped DEF Announced
    <3> QED BY <1>4, <3>1 DEF Follows
  <2>3. Fed' /\ K'.state = "awaiting"
      BY <1>6 DEF Announced
  <2>4. \A i \in DOMAIN K'.pending : K'.pending[i] = StreamFrame(data'.first, data'.commit, i)
      BY <1>6 DEF Announced
  <2>5. Announced'
      BY <2>1, <2>2, <2>3, <2>4, Zenon DEF Announced
  <2> QED BY <2>5 DEF Streaming
<1>7. CASE Followed
  <2>1. PICK k \in Nat : Reached(K, data.first, data.commit, k) /\ Follows(k)
      BY <1>7 DEF Followed
  <2>2. Reached(K', data'.first, data'.commit, k) /\ Follows(k)'
      BY <1>4, <2>1
  <2>3. Followed'
      BY <1>5, <1>7, <2>2 DEF Followed
  <2> QED BY <2>3 DEF Streaming
<1>8. CASE GivenUp
    BY <1>5, <1>8 DEF GivenUp, Streaming
<1> QED BY <1>2, <1>6, <1>7, <1>8 DEF Streaming, Unfed

LEMMA AttachesKeepsStream ==
    ASSUME BaseInv, StreamInv, PageRests, Attaches PROVE C.current /\ HoldsData' => Streaming'
<1>0. SocketInv /\ RelayTypes /\ ClientInv
    BY DEF BaseInv, ConnInv, TypesInv
<1> SUFFICES ASSUME C.current, HoldsData' PROVE Streaming'
    OBVIOUS
<1>1. PICK cursor \in MaybeSeqs : AttachData(cursor)
    BY DEF Attaches
<1>2. /\ IsOpen(control) /\ HasData /\ data.state = "awaiting" /\ dataWire' = dataWire
      /\ C' = C /\ K' = K
    BY DEF Attaches, PageRests, C, K
<1>3. data \in Data /\ control \in Control /\ gen \in Gens
  <2>1. control \in Control /\ gen \in Gens
      BY <1>0, <1>2 DEF SocketInv, IsOpen, Control
  <2>2. data # NoSocket
      BY <1>2, <2>1, Bounds DEF HasData, SameSocket, NoSocket, Control, Sets
  <2> QED BY <1>0, <2>1, <2>2 DEF RelayTypes
<1>4. data'.set = data.set /\ data'.gen = data.gen /\ data'.state \in {"catching", "missed"}
  <2>1. data' = [data EXCEPT !.state = IF host THEN "catching" ELSE "missed",
                             !.first = cursor, !.acked = cursor, !.sent = cursor]
      BY <1>1 DEF AttachData
  <2> QED BY <1>3, <2>1 DEF Data
<1>5. HoldsData
  <2>1. data.set # 0
      BY <1>3, Bounds DEF Data, Sets
  <2> QED BY <1>2, <1>4, <2>1 DEF HoldsData, SameSocket, IsOpen, NoSocket
<1>6. Unfed
    BY <1>2, <1>5 DEF StreamInv, Streaming, Announced, Followed, GivenUp, Fed
<1>7. NoStart'
  <2> DEFINE w == [kind |-> "welcome", gen |-> gen]
  <2>1. w \in ControlFrame /\ w.kind = "welcome"
      BY <1>3, SentFrames
  <2>2. /\ Frame("offline") \in ControlFrame /\ Frame("offline").kind # "start"
        /\ w.kind # "start"
      BY SentFrames DEF Frame
  <2>3. \/ ctlWire' = ctlWire
        \/ ctlWire' \in {Onto(ctlWire, w), Onto(ctlWire, Frame("offline"))}
        \/ ctlWire' = Onto(Onto(ctlWire, w), Frame("offline"))
      BY <1>1 DEF AttachData, ToControl
  <2> HIDE DEF w
  <2>4. Startless
      BY <2>1, <2>2, <2>3, SaysNoStart
  <2>5. NoStart
      BY <1>6 DEF Unfed
  <2> QED BY <1>2, <2>4, <2>5 DEF Startless, NoStart, StartOf
<1>8. ~Fed' /\ Ahead' = Ahead
    BY <1>2, <1>4 DEF Fed, Ahead
<1> QED BY <1>2, <1>6, <1>7, <1>8 DEF Unfed, Streaming

\* The host answers: the page holds the control socket on which it is told.
LEMMA RecoveryKeepsStream ==
    ASSUME BaseInv, StreamInv, PageRests,
           NEW mode \in {"warm", "snapshot"}, NEW cut \in Seqs, StartRecovery(mode, cut)
    PROVE  C.current /\ HoldsData' => Streaming'
<1>0. SocketInv /\ RelayTypes /\ ClientInv
    BY DEF BaseInv, ConnInv, TypesInv
<1> SUFFICES ASSUME C.current, HoldsData' PROVE Streaming'
    OBVIOUS
<1> DEFINE f == [kind |-> "start", mode |-> mode, gen |-> gen, cut |-> cut]
<1>1. /\ IsOpen(control) /\ IsOpen(data) /\ data.state = "catching"
      /\ data' = [data EXCEPT !.state = "pinned", !.first = cut, !.acked = cut, !.sent = cut,
                              !.commit = head]
      /\ ctlWire' = ToControl(f) /\ dataWire' = dataWire /\ C' = C /\ K' = K
    BY DEF StartRecovery, PageRests, C, K
<1>2. data \in Data /\ control \in Control /\ gen \in Gens
    BY <1>0, <1>1 DEF RelayTypes, SocketInv, IsOpen, Control
<1>3. /\ data'.set = data.set /\ data'.gen = data.gen /\ data'.state = "pinned"
      /\ data'.first = cut /\ data'.sent = cut
    BY <1>1, <1>2 DEF Data
<1>4. HoldsData
    BY <1>1, <1>3 DEF HoldsData, SameSocket
<1>5. Unfed
    BY <1>1, <1>4 DEF StreamInv, Streaming, Announced, Followed, GivenUp, Fed
<1>6. HoldsControl /\ gen = C.gen
  <2>1. data.set = control.set /\ data.gen = gen /\ data.set # 0
      BY <1>0, <1>1, <1>2, LinkNumbers DEF SocketInv
  <2>2. dataWire.set # 0 /\ dataWire.set = data.set /\ dataWire.gen = data.gen
      BY <1>4, <2>1 DEF HoldsData, SameSocket
  <2>3. dataWire.set = C.set /\ dataWire.gen = C.gen /\ ctlWire.set = C.set
      BY <2>2, WireOfPage
  <2> QED BY <1>1, <2>1, <2>2, <2>3 DEF HoldsControl
<1>7. f \in ControlFrame /\ f.kind = "start" /\ f.gen = gen /\ f.cut = cut
    BY <1>2, SentFrames
<1>8. ctlWire' = Onto(ctlWire, f)
    BY <1>1, <1>6 DEF ToControl
<1> HIDE DEF f
<1>9. /\ Len(ctlWire.frames) + 1 \in DOMAIN ctlWire'.frames
      /\ ctlWire'.frames[Len(ctlWire.frames) + 1] = f
      /\ \A j \in DOMAIN ctlWire'.frames :
            \/ j \in DOMAIN ctlWire.frames /\ ctlWire'.frames[j] = ctlWire.frames[j]
            \/ j = Len(ctlWire.frames) + 1
  <2>1. ctlWire'.frames = Append(ctlWire.frames, f) /\ ctlWire.frames \in Seq(ControlFrame)
      BY <1>8, WiresTyped DEF Onto
  <2> QED BY <1>7, <2>1
<1>10. PICK n : n = Len(ctlWire.frames) + 1
    OBVIOUS
<1>11. n \in DOMAIN ctlWire'.frames /\ StartOf(n)' /\ ctlWire'.frames[n].cut = data'.first
    BY <1>1, <1>3, <1>6, <1>7, <1>9, <1>10 DEF StartOf
<1>12. ASSUME NEW j \in DOMAIN ctlWire'.frames, StartOf(j)' PROVE j = n
    BY <1>1, <1>5, <1>9, <1>10, <1>12 DEF Unfed, NoStart, StartOf
<1>13. K'.pending = <<>> /\ K'.state = "awaiting" /\ Fed'
    BY <1>1, <1>3, <1>5 DEF Unfed, Fed
<1>14. Follows(Len(K.pending))'
  <2>1. Len(dataWire'.frames) = Ahead' /\ Ahead' \in {0, 1}
      BY <1>1, <1>5, StreamTyped DEF Unfed, Ahead
  <2>2. Told' = 0
    <3>1. cut \in Int /\ ~Committed'
        BY <1>3, SeqsAreNumbers DEF Committed
    <3> QED BY <1>3, <3>1 DEF Told
  <2>3. DOMAIN dataWire'.frames = 1 .. Len(dataWire'.frames)
      BY <1>1, StreamTyped
  <2>4. \A i \in DOMAIN dataWire'.frames : ~(i > Ahead')
      BY <2>1, <2>3
  <2>5. Len(K'.pending) = 0
      BY <1>13
  <2>6. Len(dataWire'.frames) - Ahead' + 0 = Told'
    <3>1. \A x \in {0, 1} : x - x + 0 = 0
        OBVIOUS
    <3> QED BY <2>1, <2>2, <3>1, Zenon
  <2>7. Flows(dataWire'.frames, Ahead', data'.first, data'.commit, Told', 0)
      BY <2>4, <2>6, Zenon DEF Flows
  <2> QED BY <2>5, <2>7, Zenon DEF Follows
<1>15. \A i \in DOMAIN K'.pending : K'.pending[i] = StreamFrame(data'.first, data'.commit, i)
    BY <1>13
<1>16. Announced'
    BY <1>11, <1>12, <1>13, <1>14, <1>15, Zenon DEF Announced
<1> QED BY <1>16 DEF Streaming

\* A frame the host sends is the next one of the delivery.
LEMMA SendingKeepsStream ==
    ASSUME BaseInv, StreamInv, PageRests, Replay \/ Output
    PROVE  C.current /\ HoldsData' => Streaming'
<1>0. RelayTypes /\ RelayInv /\ C' = C /\ K' = K /\ ctlWire' = ctlWire
    BY DEF BaseInv, TypesInv, PageRests, C, K, Replay, Output
<1>1. IsOpen(data) => data \in Data
    BY <1>0 DEF RelayTypes, IsOpen
<1>2. CASE Replay
  <2>1. IsOpen(data) /\ data.state = "pinned" /\ data \in Data /\ Fed
      BY <1>1, <1>2 DEF Replay, Fed
  <2>2. /\ data.first \in Int /\ data.sent \in Int /\ data.commit \in Int
        /\ data.sent <= data.commit /\ Told = data.sent - data.first /\ data.commit \in Seqs
        /\ data.sent \in Seqs /\ data.first <= data.sent
      BY <1>0, <2>1, StreamTyped DEF RelayInv, Told, Committed
  <2>3. CASE data.sent < data.commit
    <3> DEFINE f == [kind |-> "event", seq |-> data.sent + 1]
    <3>1. data' = [data EXCEPT !.sent = @ + 1] /\ dataWire' = ToData(f)
        BY <1>2, <2>3 DEF Replay
    <3>2. /\ data'.set = data.set /\ data'.gen = data.gen /\ data'.state = data.state
          /\ data'.first = data.first /\ data'.commit = data.commit
          /\ data'.sent = data.sent + 1
        BY <2>1, <3>1 DEF Data
    <3>3. Told' = Told + 1 /\ Fed'
        BY <2>1, <2>2, <3>2 DEF Told, Fed, Committed
    <3>4. f = StreamFrame(data.first, data.commit, Told + 1)
        BY <2>2, <2>3 DEF StreamFrame
    <3>5. f \in DataFrame
      <4>1. data.sent + 1 \in Seqs
          BY <2>2, <2>3, Bounds DEF Seqs
      <4> QED BY <4>1, SentFrames
    <3> HIDE DEF f
    <3> QED BY <1>0, <2>1, <3>1, <3>2, <3>3, <3>4, <3>5, StreamGrows
  <2>4. CASE ~(data.sent < data.commit)
    <3> DEFINE f == [kind |-> "commit", seq |-> data.commit]
    <3>1. data' = [data EXCEPT !.state = "synced"] /\ dataWire' = ToData(f)
        BY <1>2, <2>4 DEF Replay
    <3>2. /\ data'.set = data.set /\ data'.gen = data.gen /\ data'.state = "synced"
          /\ data'.first = data.first /\ data'.commit = data.commit
          /\ data'.sent = data.sent
        BY <2>1, <3>1 DEF Data
    <3>3. Told' = Told + 1 /\ Fed'
        BY <2>1, <2>2, <3>2 DEF Told, Fed, Committed
    <3>4. f = StreamFrame(data.first, data.commit, Told + 1)
        BY <2>2, <2>4 DEF StreamFrame
    <3>5. f \in DataFrame
        BY <2>2, SentFrames
    <3> HIDE DEF f
    <3> QED BY <1>0, <2>1, <3>1, <3>2, <3>3, <3>4, <3>5, StreamGrows
  <2> QED BY <2>3, <2>4
<1>3. CASE Output /\ IsOpen(data) /\ data.state = "synced"
  <2> DEFINE f == [kind |-> "event", seq |-> head + 1]
  <2>1. data \in Data /\ Fed
      BY <1>1, <1>3 DEF Fed
  <2>2. /\ data.first \in Int /\ data.sent \in Int /\ data.commit \in Int
        /\ data.sent = head /\ data.commit <= head /\ Told = data.sent - data.first + 1
        /\ data.first <= data.commit
      BY <1>0, <1>3, <2>1, StreamTyped DEF RelayInv, Told, Committed
  <2>3. data' = [data EXCEPT !.sent = head + 1] /\ dataWire' = ToData(f) /\ head < MaxSeq
      BY <1>3 DEF Output
  <2>4. /\ data'.set = data.set /\ data'.gen = data.gen /\ data'.state = "synced"
        /\ data'.first = data.first /\ data'.commit = data.commit
        /\ data'.sent = head + 1
      BY <1>3, <2>1, <2>3 DEF Data
  <2>5. Told' = Told + 1 /\ Fed'
      BY <2>1, <2>2, <2>4 DEF Told, Fed, Committed
  <2>6. f = StreamFrame(data.first, data.commit, Told + 1)
    <3>1. /\ ~(Told + 1 <= data.commit - data.first) /\ ~(Told + 1 = data.commit - data.first + 1)
          /\ data.first + (Told + 1) - 1 = head + 1
        BY <2>2
    <3> QED BY <3>1 DEF StreamFrame
  <2>7. f \in DataFrame
    <3>1. head + 1 \in Seqs
      <4>1. head \in 0 .. MaxSeq /\ MaxSeq \in Nat /\ head < MaxSeq
          BY <1>0, <2>3, Bounds DEF RelayTypes, Seqs
      <4> QED BY <4>1 DEF Seqs
    <3> QED BY <3>1, SentFrames
  <2> HIDE DEF f
  <2> QED BY <1>0, <1>3, <2>1, <2>3, <2>4, <2>5, <2>6, <2>7, StreamGrows
<1>4. CASE Output /\ ~(IsOpen(data) /\ data.state = "synced")
  <2>1. data' = data /\ dataWire' = dataWire
      BY <1>4 DEF Output
  <2>2. Fed' = Fed /\ Committed' = Committed
      BY <2>1 DEF Fed, Committed
  <2> QED BY <1>0, <2>1, <2>2, SaysNoStart, StreamRests
<1> QED BY <1>2, <1>3, <1>4

\* A data socket that is accepted has been fed nothing.
LEMMA AcceptDataKeepsStream ==
    ASSUME BaseInv, LinkInv, PageRests, NEW u \in upgrades, AcceptData(u)
    PROVE  C.current /\ HoldsData' => Streaming'
<1> SUFFICES ASSUME C.current, HoldsData' PROVE Streaming'
    OBVIOUS
<1>0. DataTicketInv /\ WireInv
    BY DEF LinkInv, BaseInv
<1>1. /\ u \in tickets /\ u.channel = "data" /\ ctlWire' = ctlWire
      /\ data' = [set |-> u.set, gen |-> u.gen, state |-> "awaiting", first |-> NoSeq,
                  acked |-> NoSeq, sent |-> NoSeq, commit |-> NoSeq]
      /\ dataWire' = IF SameSocket(dataWire, u) THEN Onto(dataWire, Frame("open"))
                     ELSE ToData(Closing("replaced"))
      /\ C' = C /\ K' = K
    BY DEF AcceptData, Acceptable, PageRests, C, K
<1>2. /\ Frame("open") \in DataFrame /\ Closing("replaced") \in DataFrame
    BY SentFrames, ClosingsAreFrames DEF Reasons
<1>3. dataWire'.set = dataWire.set /\ dataWire'.gen = dataWire.gen
    BY <1>1, <1>2, DatOnto DEF ToData
<1>4. SameSocket(dataWire, u)
    BY <1>1, <1>3 DEF HoldsData, SameSocket
<1>5. /\ dataWire.frames = <<>> /\ C.data = "opening"
      /\ dataWire.set = C.set /\ dataWire.gen = C.gen
    BY <1>0, <1>1, <1>4, WireOfPage DEF DataTicketInv
<1>6. K.state = "awaiting" /\ K.pending = <<>>
    BY <1>0, <1>1, <1>4, <1>5 DEF DataTicketInv, SameSocket
<1>7. NoStart'
  <2>1. ctlWire.set = u.set /\ C.gen = u.gen
      BY <1>0, <1>4, <1>5 DEF WireInv, SameSocket
  <2> QED BY <1>0, <1>1, <2>1 DEF DataTicketInv, NoStart, StartOf
<1>8. dataWire'.frames = <<Frame("open")>>
    BY <1>1, <1>4, <1>5, WiresTyped DEF Onto
<1>9. Len(dataWire'.frames) = 1 /\ Ahead' = 1
    BY <1>1, <1>5, <1>8 DEF Ahead
<1>10. ~Fed'
    BY <1>1 DEF Fed
<1> QED BY <1>1, <1>6, <1>7, <1>9, <1>10 DEF Unfed, Streaming

LEMMA RelayKeepsStream ==
    ASSUME BaseInv, LinkInv, StreamInv, RelayActions PROVE StreamInv'
<1>0. ConnInv /\ AttachInv /\ Frames /\ RelayTypes /\ RelayInv /\ SocketInv
    BY DEF BaseInv, TypesInv, ConnInv
<1>1. SocketStep /\ PageRests /\ page' = page /\ C' = C /\ K' = K
    BY <1>0, RelayStepIs, RelayRecords, RelayReads DEF PageRests, C, K
<1>2. SUFFICES C.current /\ HoldsData' => Streaming'
    BY <1>1 DEF StreamInv
<1>3. ASSUME data' = NoSocket PROVE ~HoldsData'
    BY <1>3 DEF HoldsData, IsOpen
<1>4. CASE Closes
  <2>1. (data' = data /\ dataWire' = dataWire) \/ data' = NoSocket
      BY <1>4 DEF Closes
  <2>2. Startless
    <3>1. ASSUME NEW why \in Reasons
          PROVE  Closing(why) \in ControlFrame /\ Closing(why).kind # "start"
        BY <3>1, ClosingsAreFrames
    <3> QED BY <1>4, <3>1, SaysNoStart DEF Closes, ToControl
  <2>3. data' = data => Fed' = Fed /\ Committed' = Committed
      BY DEF Fed, Committed
  <2> QED BY <1>1, <1>3, <2>1, <2>2, <2>3, StreamRests
<1>5. CASE Renews
    BY <1>3, <1>5 DEF Renews, CloseData
<1>6. CASE Attaches
    BY <1>1, <1>6, AttachesKeepsStream
<1>7. CASE Acknowledged \/ HostGone \/ Rises
  <2>1. /\ dataWire' = dataWire /\ ctlWire' \in {ctlWire, Onto(ctlWire, Frame("offline"))}
        /\ \/ data' = data
           \/ /\ IsOpen(data)
              /\ (\E cursor : data' = [data EXCEPT !.acked = cursor])
                 \/ data' = [data EXCEPT !.state = Demoted(@)]
      BY <1>7 DEF Acknowledged, HostGone, Rises, ToControl
  <2>2. Startless
    <3>1. Frame("offline") \in ControlFrame /\ Frame("offline").kind # "start"
        BY SentFrames DEF Frame
    <3> QED BY <2>1, <3>1, SaysNoStart
  <2>3. /\ data'.set = data.set /\ data'.gen = data.gen
        /\ data'.first = data.first /\ data'.sent = data.sent /\ data'.commit = data.commit
        /\ data'.state \in {data.state, Demoted(data.state)}
        /\ IsOpen(data') => IsOpen(data)
    <3>1. IsOpen(data) => data \in Data
        BY <1>0 DEF RelayTypes, IsOpen
    <3> QED BY <2>1, <3>1 DEF Data
  <2>4. (Fed' <=> Fed) /\ (Committed' <=> Committed)
      BY <2>3 DEF Fed, Committed, Demoted
  <2> QED BY <1>1, <2>1, <2>2, <2>3, <2>4, StreamRests
<1>8. ASSUME NEW mode \in {"warm", "snapshot"}, NEW cut \in Seqs, StartRecovery(mode, cut)
      PROVE  C.current /\ HoldsData' => Streaming'
    BY <1>1, <1>8, RecoveryKeepsStream
<1>9. CASE Replay \/ Output
    BY <1>1, <1>9, SendingKeepsStream
<1>10. ASSUME NEW u \in upgrades, AcceptControl(u)
       PROVE  C.current /\ HoldsData' => Streaming'
    BY <1>3, <1>10 DEF AcceptControl, CloseData
<1>11. ASSUME NEW u \in upgrades, AcceptData(u)
       PROVE  C.current /\ HoldsData' => Streaming'
    BY <1>1, <1>11, AcceptDataKeepsStream
<1>12. ASSUME NEW u \in upgrades, Refuse(u)
       PROVE  C.current /\ HoldsData' => Streaming'
  <2> DEFINE f0 == Frame("refused")
  <2>1. /\ data' = data
        /\ ctlWire' \in {ctlWire, Onto(ctlWire, f0)}
        /\ \/ dataWire' = dataWire
           \/ dataWire' = Onto(dataWire, f0) /\ u.channel # "control" /\ SameSocket(dataWire, u)
      BY <1>12 DEF Refuse
  <2>2. f0 \in ControlFrame /\ f0 \in DataFrame /\ f0.kind # "start"
      BY SentFrames DEF Frame
  <2> HIDE DEF f0
  <2>3. CASE dataWire' = dataWire
    <3>1. Startless
        BY <2>1, <2>2, SaysNoStart
    <3>2. Fed' = Fed /\ Committed' = Committed
        BY <2>1 DEF Fed, Committed
    <3> QED BY <1>1, <2>1, <2>3, <3>1, <3>2, StreamRests
  <2>4. CASE dataWire' = Onto(dataWire, f0) /\ u.channel # "control" /\ SameSocket(dataWire, u)
    <3>1. dataWire'.set = dataWire.set /\ dataWire'.gen = dataWire.gen
        BY <2>2, <2>4, DatOnto
    <3>2. u.channel = "data"
        BY <2>4, LinkNumbers
    <3>3. ~SameSocket(data, u)
        BY <3>2 DEF LinkInv, DataTicketInv
    <3>4. ~HoldsData'
        BY <2>1, <2>4, <3>1, <3>3 DEF HoldsData, SameSocket
    <3> QED BY <3>4
  <2> QED BY <2>1, <2>3, <2>4
<1> QED BY <1>1, <1>4, <1>5, <1>6, <1>7, <1>8, <1>9, <1>10, <1>11, <1>12 DEF SocketStep

\* What the other page does, and what expires, is not on the page's sockets.
LEMMA OthersKeepStream ==
    ASSUME BaseInv, StreamInv, page'.acks = page.acks, C' = C, K' = K,
           UNCHANGED <<data, ctlWire, dataWire>>
    PROVE  StreamInv'
<1>1. Startless /\ Fed' = Fed /\ Committed' = Committed
    BY SaysNoStart DEF Fed, Committed
<1>2. C.current /\ HoldsData' => Streaming'
    BY <1>1, StreamRests
<1> QED BY <1>2 DEF StreamInv

LEMMA StepKeepsStream ==
    ASSUME BaseInv, LinkInv, StreamInv, [Next]_vars PROVE StreamInv'
<1>0. PageInv /\ Frames
    BY DEF BaseInv, TypesInv
<1>1. CASE PageActions
  <2>1. PICK q, ctl, dat : PageBecomes(q, ctl, dat) /\ Outcome(q, ctl, dat, MaxSeq)
      BY <1>0, <1>1, BehindTheBound, PageOutcome
  <2> QED BY <2>1, PageKeepsStream
<1>2. CASE RelayActions
    BY <1>2, RelayKeepsStream
<1>3. CASE ReserveSet
  <2>1. /\ Reserve
        /\ page' = [page EXCEPT !.attempt = "offered",
                                !.offer = [set |-> sets + 1, gen |-> ReservedGen]]
      BY <1>3 DEF ReserveSet
  <2>2. page \in Page
      BY <1>0 DEF PageInv, Sound, PageShape
  <2>3. C' = C /\ K' = K /\ page'.acks = page.acks
      BY <2>1, <2>2 DEF Page, C, K
  <2>4. UNCHANGED <<data, ctlWire, dataWire>>
      BY <2>1 DEF Reserve, wires
  <2> QED BY <2>3, <2>4, OthersKeepStream
<1>4. CASE OtherReserves \/ OtherConnects \/ TicketsLapse \/ UNCHANGED vars
  <2>1. page' = page /\ UNCHANGED <<data, ctlWire, dataWire>>
      BY <1>4 DEF OtherReserves, OtherConnects, TicketsLapse, TicketsExpire, Reserve, vars,
                  relayVars, reservations, wires
  <2>2. C' = C /\ K' = K
      BY <2>1 DEF C, K
  <2> QED BY <2>1, <2>2, OthersKeepStream
<1> QED BY <1>1, <1>2, <1>3, <1>4, StepIs

LEMMA StreamAlways == Spec => [](BaseInv /\ LinkInv /\ StreamInv)
<1>1. Init => BaseInv /\ LinkInv /\ StreamInv
  <2>1. ASSUME Init PROVE StreamInv
    <3>1. ~C.current
        BY <2>1 DEF Init, NewPage, NoConnection, C
    <3> QED BY <3>1 DEF StreamInv
  <2> QED BY <2>1, InitIsBase, InitIsLink
<1>2. BaseInv /\ LinkInv /\ StreamInv /\ [Next]_vars => BaseInv' /\ LinkInv' /\ StreamInv'
    BY StepKeepsBase, StepKeepsLink, StepKeepsStream
<1> QED BY <1>1, <1>2, PTL DEF Spec

-----------------------------------------------------------------------------
(* What the stream says of a page that is listening *)

\* The page listens to a delivery that the relay is feeding it.
LEMMA ListenerFollows ==
    ASSUME BaseInv, StreamInv, C.current, HoldsData, K.state \in Delivering
    PROVE  Followed /\ IsOpen(data)
<1>1. Streaming
    BY DEF StreamInv
<1>2. K.state # "awaiting" /\ K.state # "resyncing"
    BY DEF Delivering
<1> QED BY <1>1, <1>2 DEF Streaming, Unfed, Announced, GivenUp, HoldsData

\* Where the relay and the coordinator are in the delivery.
LEMMA DeliveryNumbers ==
    ASSUME BaseInv, IsOpen(data), Fed, NEW k \in Nat, Follows(k), Ahead = 0,
           Reached(K, data.first, data.commit, k)
    PROVE  /\ data.first \in Int /\ data.sent \in Int /\ data.commit \in Int
           /\ K.received \in Int /\ data.first <= data.commit
           /\ ~Committed => data.sent <= data.commit
           /\ Committed => data.commit <= data.sent
           /\ Len(dataWire.frames) \in Nat
           /\ Len(dataWire.frames) + k = data.sent - data.first + (IF Committed THEN 1 ELSE 0)
<1>1. RelayInv /\ Sound(page) /\ RelayTypes
    BY DEF BaseInv, TypesInv, PageInv
<1>2. K.received \in Seqs
    BY <1>1 DEF Sound, PageDelivery, Reached, K
<1>3. Len(dataWire.frames) + k = Told
  <2>1. Len(dataWire.frames) - 0 + k = Told
      BY DEF Follows, Flows
  <2>2. Len(dataWire.frames) \in Nat
      BY StreamTyped
  <2> QED BY <2>1, <2>2
<1>4. /\ ~Committed => data.sent <= data.commit
      /\ Committed => data.commit <= data.sent
    BY <1>1 DEF RelayInv, Fed, Committed
<1> QED BY <1>2, <1>3, <1>4, StreamTyped, SeqsAreNumbers DEF Told

\* The events among the frames of a delivery: all of them, but for its commit.
LEMMA EventsAre ==
    ASSUME NEW frames \in Seq(DataFrame), NEW first \in Int, NEW commit \in Int, NEW n \in Int,
           NEW k \in Nat, first <= commit, Flows(frames, 0, first, commit, n, k)
    PROVE  LET events == {i \in DOMAIN frames : frames[i].kind = "event"}
               c == commit - first + 1
           IN  Cardinality(events) = IF k < c /\ c <= n THEN n - k - 1 ELSE n - k
<1> DEFINE events == {i \in DOMAIN frames : frames[i].kind = "event"}
           c == commit - first + 1
           L == Len(frames)
<1>1. L \in Nat /\ DOMAIN frames = 1 .. L /\ L = n - k
    BY DEF Flows
<1>2. c \in Int /\ c - k \in Int
    OBVIOUS
<1> HIDE DEF L
<1>3. ASSUME NEW i \in 1 .. L PROVE frames[i].kind = "event" <=> i # c - k
  <2>1. frames[i] = StreamFrame(first, commit, k + i)
    <3>1. i > 0 /\ k + i - 0 = k + i
        OBVIOUS
    <3> QED BY <1>1, <3>1 DEF Flows
  <2>2. StreamFrame(first, commit, k + i).kind = "event" <=> k + i # commit - first + 1
    <3>1. k + i \in Int /\ (k + i <= commit - first => k + i # commit - first + 1)
        OBVIOUS
    <3>2. CASE k + i <= commit - first
        BY <3>1, <3>2 DEF StreamFrame
    <3>3. CASE ~(k + i <= commit - first)
        BY <3>3 DEF StreamFrame
    <3> QED BY <3>2, <3>3
  <2>3. k + i # commit - first + 1 <=> i # c - k
      OBVIOUS
  <2> QED BY <2>1, <2>2, <2>3
<1>4. events = (1 .. L) \ {c - k}
    BY <1>1, <1>3
<1>5. IsFiniteSet(1 .. L) /\ Cardinality(1 .. L) = L
    BY <1>1, FS_Interval
<1>6. Cardinality((1 .. L) \ {c - k}) = IF c - k \in 1 .. L THEN L - 1 ELSE L
  <2> HIDE DEF c
  <2> QED BY <1>5, FS_RemoveElement
<1>7. c - k \in 1 .. L <=> k < c /\ c <= n
    BY <1>1, <1>2
<1> HIDE DEF c, events
<1>8. Cardinality(events) = IF k < c /\ c <= n THEN n - k - 1 ELSE n - k
    BY <1>1, <1>4, <1>6, <1>7
<1> QED BY <1>8 DEF events, c

\* What the relay has sent is what the page has received and what is on its way to it.
LEMMA NothingLost ==
    ASSUME BaseInv, LinkInv, StreamInv PROVE NothingIsSkipped
<1> SUFFICES ASSUME C.current, K.state \in Delivering, HoldsData, C.data = "open"
             PROVE  K.received + Coming = data.sent
    BY DEF NothingIsSkipped, C, K, Delivering
<1>1. Followed /\ IsOpen(data)
    BY ListenerFollows
<1>2. Ahead = 0
    BY DEF Ahead
<1>3. PICK k \in Nat : Reached(K, data.first, data.commit, k) /\ Follows(k)
    BY <1>1 DEF Followed
<1> DEFINE first == data.first
           commit == data.commit
           sent == data.sent
           received == K.received
           synced == Committed
<1>4. /\ first \in Int /\ sent \in Int /\ commit \in Int /\ received \in Int /\ first <= commit
      /\ ~synced => sent <= commit
      /\ synced => commit <= sent
      /\ k <= sent - first + (IF synced THEN 1 ELSE 0)
  <2>1. Fed
      BY <1>1 DEF Followed
  <2>2. /\ first \in Int /\ sent \in Int /\ commit \in Int /\ received \in Int
        /\ first <= commit
        /\ ~synced => sent <= commit
        /\ synced => commit <= sent
        /\ Len(dataWire.frames) \in Nat
        /\ Len(dataWire.frames) + k = sent - first + (IF synced THEN 1 ELSE 0)
      BY <1>1, <1>2, <1>3, <2>1, DeliveryNumbers DEF Followed
  <2> HIDE DEF first, sent, commit, received, synced
  <2> QED BY <2>2
<1>5. Told = sent - first + (IF synced THEN 1 ELSE 0) /\ Told \in Int
    BY <1>4 DEF Told
<1>6. Coming = IF k < commit - first + 1 /\ commit - first + 1 <= Told
               THEN Told - k - 1 ELSE Told - k
  <2>1. Flows(dataWire.frames, 0, first, commit, Told, k)
      BY <1>2, <1>3 DEF Follows
  <2>2. dataWire.frames \in Seq(DataFrame)
      BY StreamTyped
  <2> DEFINE told == Told
             frames == dataWire.frames
  <2>3. told \in Int /\ Flows(frames, 0, first, commit, told, k) /\ frames \in Seq(DataFrame)
      BY <1>5, <2>1, <2>2
  <2> HIDE DEF first, commit, told, frames
  <2>4. Cardinality({i \in DOMAIN frames : frames[i].kind = "event"})
           = IF k < commit - first + 1 /\ commit - first + 1 <= told THEN told - k - 1 ELSE told - k
      BY <1>4, <2>3, EventsAre
  <2> QED BY <2>4 DEF Coming, told, frames
<1>7. IF K.committed THEN commit <= received /\ k = received - first + 1
      ELSE received <= commit /\ k = received - first
    BY <1>3 DEF Reached
<1> HIDE DEF first, commit, sent, received, synced, Told
<1>8. CASE K.committed
  <2>1. commit <= received /\ k = received - first + 1
      BY <1>7, <1>8
  <2>2. synced /\ Coming = Told - k
      BY <1>4, <1>6, <2>1
  <2>3. Told = sent - first + 1
      BY <1>5, <2>2
  <2>4. received + Coming = sent
      BY <1>4, <2>1, <2>2, <2>3
  <2> QED BY <2>4 DEF received, sent
<1>9. CASE ~K.committed
  <2>1. received <= commit /\ k = received - first
      BY <1>7, <1>9
  <2>2. CASE synced
    <3>1. Told = sent - first + 1
        BY <1>5, <2>2
    <3>2. Coming = Told - k - 1
        BY <1>4, <1>6, <2>1, <2>2, <3>1
    <3>3. received + Coming = sent
        BY <1>4, <2>1, <3>1, <3>2
    <3> QED BY <3>3 DEF received, sent
  <2>3. CASE ~synced
    <3>1. Told = sent - first
        BY <1>4, <1>5, <2>3
    <3>2. Coming = Told - k
        BY <1>4, <1>6, <2>1, <2>3, <3>1
    <3>3. received + Coming = sent
        BY <1>4, <2>1, <3>1, <3>2
    <3> QED BY <3>3 DEF received, sent
  <2> QED BY <2>2, <2>3
<1> QED BY <1>8, <1>9

\* No event of a delivery is lost or taken twice between the relay and the coordinator, in
\* every state.
THEOREM NothingGetsLost == Spec => []NothingIsSkipped
BY StreamAlways, NothingLost, PTL

=============================================================================

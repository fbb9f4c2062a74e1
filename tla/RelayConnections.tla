-------------------------- MODULE RelayConnections --------------------------
(***************************************************************************)
(* The relay's side of one browser client's connections: the reservation   *)
(* of a connection set, its tickets, the control and the data socket they  *)
(* open, delivery generations and resets (relay-connection-lifecycle.ts,   *)
(* relay-connection-store.ts, browser-delivery-controller.ts).             *)
(*                                                                         *)
(* Two pages may share the client: the page of BrowserSession, and another *)
(* one of which only what it asks of the relay is modelled.  A socket is   *)
(* named by its ticket: the set, the channel and the generation.           *)
(*                                                                         *)
(* RelayDelivery has many clients whose sockets come and go at will, to    *)
(* study the host's recovery; here it is the host that answers at will.    *)
(***************************************************************************)
EXTENDS BrowserLink

VARIABLES
    client,     \* client_delivery: the client's row is missing, reserved or registered
    gen,        \* its delivery_generation
    sets,       \* how many connection sets have been reserved
    tickets,    \* connection_ticket rows
    control,    \* the client's open control socket, or NoSocket
    data,       \* the client's open data socket, or NoSocket
    closed,     \* sockets that closed and whose close handler has not run
    resets,     \* resets that await the digest of their ticket
    attaching,  \* attaches that await the writer lease
    head,       \* the session's head
    host,       \* whether the session has a host that is ready
    blame       \* why the relay last closed a control socket for a protocol error

relayVars == <<client, gen, sets, tickets, upgrades, control, data, closed, resets,
               attaching, head, host, ctlWire, dataWire, up, blame>>
reservations == <<client, gen, sets, tickets>>

NoSocket == [set |-> 0, gen |-> 0]

Control == [set : Sets, gen : Gens, state : {"awaiting", "active"}]

\* The code's catching-up is "catching" while the host may answer the attach and "pinned"
\* when it has.  After the loss of that host it is "missed", or, if the socket had been
\* pinned or synced, "stalled" or "demoted": with its cursors and its commit, which the
\* code keeps, and sent nothing more.
Data == [set : Sets, gen : Gens,
         state : {"awaiting", "catching", "missed", "pinned", "synced", "stalled", "demoted"},
         first : MaybeSeqs, acked : MaybeSeqs, sent : MaybeSeqs, commit : MaybeSeqs]

\* ready: the reset belongs to a host-ready, and to the host that sent it.
Reset == [set : Sets, gen : Gens, ready : BOOLEAN]

RelayConnectionsTypeOK ==
    /\ client \in {"none", "reserved", "registered"} /\ host \in BOOLEAN
    /\ gen \in 0 .. MaxGen /\ sets \in 0 .. MaxSets /\ head \in Seqs
    /\ tickets \subseteq Ticket /\ closed \subseteq Ticket
    /\ control \in Control \cup {NoSocket}
    /\ data \in Data \cup {NoSocket}
    /\ resets \subseteq Reset
    /\ attaching \subseteq [set : Sets, gen : Gens, cursor : MaybeSeqs]
    /\ blame \in {"none", "no delivered cursor", "exceeds delivered cursor",
                  "already attached", "replica cursor exceeds head", "no data before attach"}

RelayConnectionsInit ==
    /\ client = "none" /\ gen = 0 /\ sets = 0
    /\ tickets = {}
    /\ control = NoSocket /\ data = NoSocket /\ closed = {}
    /\ resets = {} /\ attaching = {}
    /\ head = 0 /\ host = TRUE
    /\ blame = "none"

-----------------------------------------------------------------------------
(* Sockets *)

IsOpen(s) == s # NoSocket
SameSocket(s, t) == s.set = t.set /\ s.gen = t.gen

\* What is sent reaches the page only on a socket it still holds.
HoldsControl == IsOpen(control) /\ ctlWire.set = control.set
HoldsData == IsOpen(data) /\ SameSocket(dataWire, data)
ToControl(f) == IF HoldsControl THEN Onto(ctlWire, f) ELSE ctlWire
ToData(f) == IF HoldsData THEN Onto(dataWire, f) ELSE dataWire

\* A socket that closes no longer counts as open; its close handler runs later.
CloseControl(why) ==
    /\ control' = NoSocket /\ up' = <<>>
    /\ ctlWire' = ToControl(Closing(why))
CloseData(why) ==
    /\ data' = NoSocket
    /\ dataWire' = ToData(Closing(why))
ControlTicket == [set |-> control.set, channel |-> "control", gen |-> control.gen]
DataTicket == [set |-> data.set, channel |-> "data", gen |-> data.gen]
Named(open, ticket) == IF open THEN {ticket} ELSE {}
ControlName == Named(IsOpen(control), ControlTicket)
DataName == Named(IsOpen(data), DataTicket)

\* closeProtocol: the control socket alone.
CloseProtocol(why) ==
    /\ CloseControl("protocol")
    /\ closed' = closed \cup ControlName
    /\ blame' = why
    /\ UNCHANGED <<reservations, data, dataWire>>

\* isolateBrowserConnection: both sockets of the connection, and its tickets.
Isolate(why) ==
    /\ CloseControl("isolated")
    /\ tickets' = {t \in tickets : t.set # control.set}
    /\ IF IsOpen(data) /\ SameSocket(data, control)
       THEN CloseData("isolated") /\ closed' = closed \cup ControlName \cup DataName
       ELSE closed' = closed \cup ControlName /\ UNCHANGED <<data, dataWire>>
    /\ blame' = why
    /\ UNCHANGED <<client, gen, sets>>

-----------------------------------------------------------------------------
(* Connection sets and tickets *)

\* createConnectionSet: the client's pending tickets are revoked and two are issued.  A
\* client that is registered is promised the generation after its own.
ReservedGen == CASE client = "none" -> 1
                 [] client = "reserved" -> gen
                 [] client = "registered" -> gen + 1
Reserve ==
    /\ sets < MaxSets /\ ReservedGen <= MaxGen
    /\ sets' = sets + 1
    /\ tickets' = [set : {sets + 1}, channel : {"control", "data"}, gen : {ReservedGen}]
    /\ IF client = "none" THEN client' = "reserved" /\ gen' = 1 ELSE UNCHANGED <<client, gen>>
    /\ UNCHANGED <<upgrades, control, data, closed, resets, attaching, head, host, wires,
                   blame>>

\* Tickets live for 30 s, and with them the row of a client that never connected.
TicketsExpire ==
    /\ tickets # {}
    /\ tickets' = {}
    /\ client' = IF client = "reserved" THEN "none" ELSE client
    /\ gen' = IF client = "reserved" THEN 0 ELSE gen
    /\ UNCHANGED <<sets, upgrades, control, data, closed, resets, attaching, head, host,
                   wires, blame>>

\* acceptSocket, after the digest.  claimBrowserControl makes the promised generation the
\* client's own; a data ticket needs the open control socket of its set.
Claims(u) == u.gen = ReservedGen
Acceptable(u) ==
    /\ u \in tickets
    /\ \/ u.channel = "control" /\ Claims(u)
       \/ u.channel = "data" /\ control.set = u.set /\ gen = u.gen

\* Mutant: a control socket displaces the control socket only.
AcceptControlAlone(u) ==
    /\ u \in upgrades /\ Acceptable(u) /\ u.channel = "control"
    /\ client' = "registered" /\ gen' = u.gen
    /\ upgrades' = upgrades \ {u} /\ tickets' = tickets \ {u}
    /\ closed' = closed \cup ControlName
    /\ control' = [set |-> u.set, gen |-> u.gen, state |-> "awaiting"]
    /\ ctlWire' = IF ctlWire.set = u.set THEN Onto(ctlWire, Frame("open"))
                  ELSE ToControl(Closing("replaced"))
    /\ up' = <<>>
    /\ UNCHANGED <<sets, data, dataWire, resets, attaching, head, host, blame>>

\* A control socket displaces every socket of its client.
AcceptControl(u) ==
    /\ u \in upgrades /\ Acceptable(u) /\ u.channel = "control"
    /\ client' = "registered" /\ gen' = u.gen
    /\ upgrades' = upgrades \ {u} /\ tickets' = tickets \ {u}
    /\ closed' = closed \cup ControlName \cup DataName
    /\ control' = [set |-> u.set, gen |-> u.gen, state |-> "awaiting"]
    /\ ctlWire' = IF ctlWire.set = u.set THEN Onto(ctlWire, Frame("open"))
                  ELSE ToControl(Closing("replaced"))
    /\ up' = <<>>
    /\ CloseData("replaced")
    /\ UNCHANGED <<sets, resets, attaching, head, host, blame>>

\* A data socket displaces the other data sockets of its client.
AcceptData(u) ==
    /\ u \in upgrades /\ Acceptable(u) /\ u.channel = "data"
    /\ upgrades' = upgrades \ {u} /\ tickets' = tickets \ {u}
    /\ closed' = closed \cup DataName
    /\ data' = [set |-> u.set, gen |-> u.gen, state |-> "awaiting", first |-> NoSeq,
                acked |-> NoSeq, sent |-> NoSeq, commit |-> NoSeq]
    /\ dataWire' = IF SameSocket(dataWire, u) THEN Onto(dataWire, Frame("open"))
                   ELSE ToData(Closing("replaced"))
    /\ UNCHANGED <<client, gen, sets, control, resets, attaching, head, host, ctlWire, up,
                   blame>>

Refuse(u) ==
    /\ u \in upgrades /\ ~Acceptable(u)
    /\ upgrades' = upgrades \ {u}
    /\ IF u.channel = "control"
       THEN /\ ctlWire' = IF ctlWire.set = u.set THEN Onto(ctlWire, Frame("refused")) ELSE ctlWire
            /\ dataWire' = dataWire
       ELSE /\ dataWire' = IF SameSocket(dataWire, u) THEN Onto(dataWire, Frame("refused"))
                           ELSE dataWire
            /\ ctlWire' = ctlWire
    /\ UNCHANGED <<reservations, control, data, closed, resets, attaching, head, host, up,
                   blame>>

-----------------------------------------------------------------------------
(* Close handlers and resets *)

ControlGone(why) ==
    /\ IsOpen(control)
    /\ CloseControl(why)
    /\ closed' = closed \cup ControlName
    /\ UNCHANGED <<reservations, upgrades, data, resets, attaching, head, host, dataWire,
                   blame>>
DataGone(why) ==
    /\ IsOpen(data)
    /\ CloseData(why)
    /\ closed' = closed \cup DataName
    /\ UNCHANGED <<reservations, upgrades, control, resets, attaching, head, host, ctlWire,
                   up, blame>>

\* processWebSocketClose for a data socket: its connection is isolated if it has not been
\* attached, and is given a new delivery if it has.
DataCloseHandled(k) ==
    /\ k \in closed /\ k.channel = "data"
    /\ closed' = closed \ {k}
    /\ resets' = IF k.gen = gen /\ ~IsOpen(data) /\ control.set = k.set
                 THEN resets \cup {[set |-> k.set, gen |-> gen, ready |-> FALSE]} ELSE resets
    /\ ~(k.gen = gen /\ ~IsOpen(data) /\ control.set = k.set /\ control.state = "awaiting")
    /\ UNCHANGED <<reservations, upgrades, control, data, attaching, head, host, wires,
                   blame>>
UnattachedDataCloseHandled(k) ==
    /\ k \in closed /\ k.channel = "data"
    /\ k.gen = gen /\ ~IsOpen(data) /\ control.set = k.set /\ control.state = "awaiting"
    /\ CloseControl("isolated")
    /\ tickets' = {t \in tickets : t.set # control.set}
    /\ closed' = (closed \ {k}) \cup ControlName
    /\ UNCHANGED <<client, gen, sets, upgrades, data, resets, attaching, head, host,
                   dataWire, blame>>

\* And for a control socket: unless another one has taken over, its data socket goes too.
ControlCloseHandled(k) ==
    /\ k \in closed /\ k.channel = "control"
    /\ IF IsOpen(control)
       THEN closed' = closed \ {k} /\ UNCHANGED <<tickets, data, dataWire>>
       ELSE /\ tickets' = {t \in tickets : t.set # k.set}
            /\ CloseData("replaced")
            /\ closed' = (closed \ {k}) \cup DataName
    /\ UNCHANGED <<client, gen, sets, upgrades, control, resets, attaching, head, host,
                   ctlWire, up, blame>>

\* BrowserDeliveryController.reset, up to the digest: a slow client, a replay that is no
\* longer available.
BeginReset ==
    /\ IsOpen(control) /\ control.state = "active"
    /\ resets' = resets \cup {[set |-> control.set, gen |-> gen, ready |-> FALSE]}
    /\ UNCHANGED <<reservations, upgrades, control, data, closed, attaching, head, host,
                   wires, blame>>

\* And after it: nothing happens unless control socket and generation are still the same.
ResetIsCurrent(r) ==
    control.set = r.set /\ control.state = "active" /\ gen = r.gen
EndReset(r) ==
    /\ r \in resets /\ gen < MaxGen
    /\ resets' = resets \ {r}
    /\ IF IsOpen(control) /\ ResetIsCurrent(r)
       THEN /\ gen' = gen + 1
            /\ tickets' = {[set |-> control.set, channel |-> "data", gen |-> gen + 1]}
            /\ CloseData("replaced")
            /\ closed' = closed \cup DataName
            /\ control' = [control EXCEPT !.gen = gen + 1]
            /\ ctlWire' = ToControl([kind |-> "resync", gen |-> gen + 1])
       ELSE UNCHANGED <<gen, tickets, data, dataWire, closed, control, ctlWire>>
    /\ UNCHANGED <<client, sets, upgrades, attaching, head, host, up, blame>>

-----------------------------------------------------------------------------
(* Attach and acknowledgements *)

Taken == up' = Tail(up)
HasData == SameSocket(data, [set |-> control.set, gen |-> gen])

\* resolveAttachContext.
AttachVerdict(set, m) ==
    IF m.gen # gen \/ control.set # set \/ control.gen # gen THEN "stale"
    ELSE IF ~HasData
         THEN IF control.state = "awaiting" THEN "no data before attach" ELSE "stale"
    ELSE IF data.state # "awaiting" THEN "already attached"
    ELSE IF m.cursor > head THEN "replica cursor exceeds head"
    ELSE "ok"
AttachData(cursor) ==
    /\ control' = [control EXCEPT !.state = "active"]
    /\ data' = [data EXCEPT !.state = IF host THEN "catching" ELSE "missed",
                            !.first = cursor, !.acked = cursor, !.sent = cursor]
    /\ LET welcomed == IF control.state = "awaiting"
                       THEN ToControl([kind |-> "welcome", gen |-> gen]) ELSE ctlWire
       IN  ctlWire' = IF host \/ ~HoldsControl THEN welcomed ELSE Onto(welcomed, Frame("offline"))

\* attach, up to the lease a first one awaits.  The lane of a socket is serial.
Attach(m, verdict) ==
    CASE verdict = "stale" ->
            Taken /\ UNCHANGED <<reservations, control, data, closed, attaching, ctlWire,
                                 dataWire, blame>>
      [] verdict = "ok" /\ control.state = "awaiting" ->
            /\ attaching' = attaching \cup
                                {[set |-> control.set, gen |-> gen, cursor |-> m.cursor]}
            /\ Taken
            /\ UNCHANGED <<reservations, control, data, closed, ctlWire, dataWire, blame>>
      [] verdict = "ok" /\ control.state = "active" ->
            /\ AttachData(m.cursor) /\ Taken
            /\ UNCHANGED <<reservations, closed, attaching, dataWire, blame>>
      [] verdict = "already attached" -> Isolate(verdict) /\ UNCHANGED attaching
      [] OTHER -> CloseProtocol(verdict) /\ UNCHANGED attaching
ReceiveAttach ==
    /\ up # <<>> /\ up[1].kind = "attach"
    /\ \A a \in attaching : a.set # control.set
    /\ Attach(up[1], AttachVerdict(control.set, up[1]))
    /\ UNCHANGED <<upgrades, resets, head, host>>

\* And after it: everything is looked at again.
FinishAttach(a) ==
    /\ a \in attaching
    /\ attaching' = attaching \ {a}
    /\ IF AttachVerdict(a.set, a) = "ok" THEN AttachData(a.cursor)
       ELSE UNCHANGED <<control, data, ctlWire>>
    /\ UNCHANGED <<reservations, upgrades, closed, resets, head, host, dataWire, up, blame>>

\* acknowledge.
AckVerdict(m) ==
    IF control.state # "active" \/ m.gen # gen THEN "stale"
    ELSE IF ~IsOpen(data) \/ data.gen # m.gen \/ data.sent = NoSeq THEN "no delivered cursor"
    ELSE IF m.cursor > data.sent \/ (data.acked # NoSeq /\ m.cursor < data.acked)
         THEN "exceeds delivered cursor"
    ELSE "ok"
ReceiveAck ==
    /\ up # <<>> /\ up[1].kind = "ack"
    /\ \A a \in attaching : a.set # control.set
    /\ LET verdict == AckVerdict(up[1]) IN
       IF verdict \in {"ok", "stale"}
       THEN /\ Taken
            /\ data' = IF verdict = "ok" THEN [data EXCEPT !.acked = up[1].cursor] ELSE data
            /\ UNCHANGED <<reservations, control, closed, ctlWire, dataWire, blame>>
       ELSE CloseProtocol(verdict)
    /\ UNCHANGED <<upgrades, resets, attaching, head, host>>

-----------------------------------------------------------------------------
(* The host, and delivery *)

\* markBrowserDataCatchingUp.
Demoted(state) ==
    CASE state = "catching" -> "missed"
      [] state = "pinned" -> "stalled"
      [] state = "synced" -> "demoted"
      [] OTHER -> state

\* Mutant: the browsers are not told.
HostGoneUntold ==
    /\ host' = FALSE
    /\ resets' = {r \in resets : ~r.ready}
    /\ data' = IF IsOpen(data) THEN [data EXCEPT !.state = Demoted(@)] ELSE data
    /\ UNCHANGED <<reservations, upgrades, control, closed, attaching, head, wires, blame>>

\* failCurrentHost, or the control socket of another host: the browsers are told, and their
\* data sockets are marked as catching up.  A host-ready in progress ends with its host.
HostGone ==
    /\ host' = FALSE
    /\ resets' = {r \in resets : ~r.ready}
    /\ data' = IF IsOpen(data) THEN [data EXCEPT !.state = Demoted(@)] ELSE data
    /\ ctlWire' = ToControl(Frame("offline"))
    /\ UNCHANGED <<reservations, upgrades, control, closed, attaching, head, dataWire, up,
                   blame>>

\* Mutant: an attached browser keeps its delivery.
HostReadyAlone ==
    /\ ~host /\ host' = TRUE
    /\ head' \in head .. MaxSeq
    /\ UNCHANGED <<reservations, upgrades, control, data, closed, resets, attaching, wires, blame>>

\* host-ready: the host names its head, and an attached browser is given a new delivery.
HostReady ==
    /\ ~host /\ host' = TRUE
    /\ head' \in head .. MaxSeq
    /\ resets' = IF IsOpen(control) /\ control.state = "active"
                 THEN resets \cup {[set |-> control.set, gen |-> gen, ready |-> TRUE]} ELSE resets
    /\ UNCHANGED <<reservations, upgrades, control, data, closed, attaching, wires, blame>>

\* The host answers an attach: a warm replay from the browser's cursor, or a snapshot that
\* is not behind it (ColdIsNotBehind of Delivery), pinned to the present head.
StartRecovery(mode, cut) ==
    /\ IsOpen(control) /\ IsOpen(data) /\ data.state = "catching"
    /\ data.first <= cut /\ cut <= head
    /\ mode = "warm" => data.first # NoSeq /\ cut = data.first
    /\ data' = [data EXCEPT !.state = "pinned", !.first = cut, !.acked = cut, !.sent = cut,
                            !.commit = head]
    /\ ctlWire' = ToControl([kind |-> "start", mode |-> mode, gen |-> gen, cut |-> cut])
    /\ UNCHANGED <<reservations, upgrades, control, closed, resets, attaching, head, host,
                   dataWire, up, blame>>

\* The tail up to the commit, and the commit.
Replay ==
    /\ IsOpen(data) /\ data.state = "pinned"
    /\ IF data.sent < data.commit
       THEN /\ data' = [data EXCEPT !.sent = @ + 1]
            /\ dataWire' = ToData([kind |-> "event", seq |-> data.sent + 1])
       ELSE /\ data' = [data EXCEPT !.state = "synced"]
            /\ dataWire' = ToData([kind |-> "commit", seq |-> data.commit])
    /\ UNCHANGED <<reservations, upgrades, control, closed, resets, attaching, head, host,
                   ctlWire, up, blame>>

\* Mutant: what is sent is not recorded with the socket.
OutputUnrecorded ==
    /\ host /\ head < MaxSeq
    /\ ~(IsOpen(data) /\ data.state \in {"pinned", "stalled", "demoted"})
    /\ head' = head + 1
    /\ dataWire' = IF IsOpen(data) /\ data.state = "synced"
                   THEN ToData([kind |-> "event", seq |-> head + 1]) ELSE dataWire
    /\ UNCHANGED <<reservations, upgrades, control, data, closed, resets, attaching, host,
                   ctlWire, up, blame>>

\* A canonical event: the host sends none while a delivery is pinned, nor before those of
\* its predecessor have been reset (the host-ready-ack comes after the resets).
Output ==
    /\ host /\ head < MaxSeq
    /\ ~(IsOpen(data) /\ data.state \in {"pinned", "stalled", "demoted"})
    /\ head' = head + 1
    /\ IF IsOpen(data) /\ data.state = "synced"
       THEN /\ data' = [data EXCEPT !.sent = head + 1]
            /\ dataWire' = ToData([kind |-> "event", seq |-> head + 1])
       ELSE UNCHANGED <<data, dataWire>>
    /\ UNCHANGED <<reservations, upgrades, control, closed, resets, attaching, host,
                   ctlWire, up, blame>>

-----------------------------------------------------------------------------
\* What the relay does by itself, and what the host makes it do.
Relays ==
    \/ \E u \in upgrades : AcceptControl(u) \/ AcceptData(u) \/ Refuse(u)
    \/ \E k \in closed : \/ DataCloseHandled(k) \/ UnattachedDataCloseHandled(k)
                         \/ ControlCloseHandled(k)
    \/ \E r \in resets : EndReset(r)
    \/ ReceiveAttach \/ ReceiveAck
    \/ \E a \in attaching : FinishAttach(a)
Recovers ==
    \/ \E mode \in {"warm", "snapshot"}, cut \in Seqs : StartRecovery(mode, cut)
    \/ Replay

=============================================================================

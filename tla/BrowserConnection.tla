-------------------------- MODULE BrowserConnection --------------------------
(***************************************************************************)
(* A page (BrowserSession) and the relay (RelayConnections): how the page  *)
(* connects, is given new deliveries, loses its sockets and comes back,    *)
(* while another page of the same client may take its place.               *)
(***************************************************************************)
EXTENDS RelayConnections, BrowserSession

CONSTANT MaxFaults   \* bound on what goes wrong, and on what the user does

ASSUME BrowserConnectionAssumption == MaxFaults \in Nat

VARIABLES
    others,   \* the tickets the other page holds
    faults    \* what has gone wrong so far

vars == <<relayVars, page, others, faults>>

Init ==
    /\ LinkInit /\ RelayConnectionsInit
    /\ page = NewPage
    /\ others = {}
    /\ faults = 0

-----------------------------------------------------------------------------
(* A callback of the page turns it into p: the sockets it opens and drops, and what it   *)
(* sends.  A socket that the page closes reaches the relay as one that nobody holds.     *)

DataSocket(p) ==
    IF p.connection.data = "none" THEN NoSocket
    ELSE [set |-> p.connection.set, gen |-> p.connection.gen]
Fresh(set, g) == [set |-> set, gen |-> g, frames |-> <<>>]
Opened(p, channel, g) ==
    [set |-> p.connection.set, channel |-> channel, gen |-> g]

PageBecomes(next, ctl, dat) ==
    /\ UNCHANGED <<reservations, control, data, closed, resets, attaching, head, host, blame,
                   others>>
    /\ \E p \in {next} :
       \E controls \in {p.connection.set # page.connection.set},
          datas \in {DataSocket(p) # DataSocket(page)} :
          /\ page' = [p EXCEPT !.out = <<>>]
          /\ ctlWire' = IF controls THEN Fresh(p.connection.set, 0) ELSE ctl
          /\ dataWire' = IF datas THEN Fresh(DataSocket(p).set, DataSocket(p).gen) ELSE dat
          /\ upgrades' = upgrades
                \cup Named(controls /\ Connected(p), Opened(p, "control", p.connection.gen))
                \cup Named(datas /\ p.connection.data = "opening",
                           Opened(p, "data", p.connection.gen))
          /\ up' = IF HoldsControl THEN up \o p.out ELSE up
Runs(p) == PageBecomes(p, ctlWire, dataWire)

Fault == faults < MaxFaults /\ faults' = faults + 1
NoFault == UNCHANGED faults

\* Whether anything is still on its way to the page, or about to be sent to it, or waits for
\* the host.
Busy ==
    \/ ~host
    \/ upgrades # {} \/ closed # {} \/ resets # {} \/ attaching # {} \/ up # <<>>
    \/ ctlWire.frames # <<>> \/ dataWire.frames # <<>>
    \/ HoldsData /\ data.state \in {"catching", "pinned"}
    \/ page.attempt # "none" \/ page.reconnect \/ Restoring(page)

\* A deadline passes: that is a fault while what it awaits may still come.
Late == IF Busy THEN Fault ELSE NoFault

-----------------------------------------------------------------------------
(* Tasks of the page *)

Begin == page.phase = "idle" /\ Runs(StartFullConnection(page)) /\ NoFault

\* The request reaches the relay, and its response the page.
ReserveSet ==
    /\ page.attempt = "reserving"
    /\ Reserve
    /\ page' = [page EXCEPT !.attempt = "offered",
                            !.offer = [set |-> sets + 1, gen |-> ReservedGen]]
    /\ UNCHANGED others /\ NoFault
ActivateConnection ==
    page.attempt = "offered" /\ Runs(Activate(page)) /\ NoFault
ReservationFails ==
    page.attempt \in {"reserving", "offered"} /\ Runs(FailFullConnection(page)) /\ Fault
ReservationRefused ==
    page.attempt = "reserving" /\ Runs(AuthenticationFails(page)) /\ Fault

\* The ticket of a resync may have expired when the page reads it.
ControlArrives(expired) ==
    /\ ctlWire.frames # <<>>
    /\ LET f == Head(ctlWire.frames) IN
       /\ expired => f.kind = "resync" /\ Opened(page, "data", f.gen) \notin tickets
       /\ PageBecomes(ControlEvent(page, f, expired), Untold(ctlWire), dataWire)
    /\ NoFault
DataArrives ==
    /\ dataWire.frames # <<>>
    /\ PageBecomes(DataEvent(page, Head(dataWire.frames)), ctlWire, Untold(dataWire))
    /\ NoFault

\* The readyState changes before the close event is dispatched.
ControlSeenClosing ==
    /\ page.connection.control = "open"
    /\ ctlWire.frames # <<>> /\ Head(ctlWire.frames).kind = "closed"
    /\ Runs([page EXCEPT !.connection.control = "closing"]) /\ NoFault

RestoreEnds == Restoring(page) /\ Runs(FinishRestore(page)) /\ NoFault
RestoreErrs == Restoring(page) /\ Runs(RestoreFails(page)) /\ Fault
RestoreLate ==
    page.coordinator.state = "restoring" /\ Runs(RestoreDeadline(page)) /\ Late

Acknowledges == page.acks.timer /\ Runs(AckTimer(page)) /\ NoFault
Reconnects == page.reconnect /\ Runs(ReconnectTimer(page)) /\ NoFault
Retries == page.retry /\ Runs(RetryTimer(page)) /\ Late
GraceEnds == page.grace /\ Runs(GraceTimer(page)) /\ Late
WatchdogFires == page.watchdog /\ Runs(WatchdogTimer(page)) /\ Late
Heartbeats ==
    /\ page.connection.current /\ page.connection.data = "open"
    /\ Runs(HeartbeatFails(page))
    /\ IF page.connection.control = "open" THEN Fault ELSE NoFault

UserReconnects == page.phase \notin {"idle", "closed"} /\ Runs(ReconnectNow(page)) /\ Fault
UserCloses == page.phase # "closed" /\ Runs(Close(page)) /\ Fault

-----------------------------------------------------------------------------
(* The other page, and faults of the relay's side *)

OtherReserves ==
    /\ Reserve
    /\ others' = others \cup tickets'
    /\ UNCHANGED page
    /\ faults + 1 < MaxFaults /\ faults' = faults + 2
OtherConnects ==
    /\ \E t \in others : upgrades' = upgrades \cup {t} /\ others' = others \ {t}
    /\ UNCHANGED <<reservations, control, data, closed, resets, attaching, head, host, wires,
                   blame, page>>
    /\ NoFault
LosesControl == ControlGone("lost") /\ (IF HoldsControl THEN Fault ELSE NoFault)
                /\ UNCHANGED <<page, others>>
LosesData == DataGone("lost") /\ (IF HoldsData THEN Fault ELSE NoFault)
             /\ UNCHANGED <<page, others>>
TicketsLapse == TicketsExpire /\ Fault /\ UNCHANGED <<page, others>>

HostLost == HostGone /\ Fault /\ UNCHANGED <<page, others>>
HostReturns == HostReady /\ UNCHANGED <<page, others, faults>>
ResetBegins == BeginReset /\ Fault /\ UNCHANGED <<page, others>>

Relay == UNCHANGED <<page, others, faults>> /\ Relays
Host == UNCHANGED <<page, others, faults>> /\ Recovers
HostOutput == Output /\ UNCHANGED <<page, others, faults>>

Sockets == (\E expired \in BOOLEAN : ControlArrives(expired)) \/ DataArrives
Attempts == Begin \/ ReserveSet \/ ActivateConnection
Waits == Acknowledges \/ GraceEnds \/ WatchdogFires \/ RestoreLate

Next ==
    \/ Attempts \/ Sockets \/ Waits \/ Reconnects \/ Retries \/ RestoreEnds
    \/ ReservationFails \/ ReservationRefused \/ ControlSeenClosing \/ RestoreErrs
    \/ Heartbeats \/ UserReconnects \/ UserCloses
    \/ OtherReserves \/ OtherConnects
    \/ LosesControl \/ LosesData \/ TicketsLapse \/ HostLost \/ ResetBegins
    \/ HostReturns \/ Relay \/ Host \/ HostOutput

Steps ==
    \/ Attempts \/ Waits \/ Reconnects \/ Retries \/ RestoreEnds
    \/ HostReturns \/ Relay \/ Host \/ Sockets

Fairness == WF_vars(Steps)

Spec == Init /\ [][Next]_vars /\ Fairness

-----------------------------------------------------------------------------
(* Properties *)

\* Every part of the state has its type.
TypeOK ==
    /\ LinkTypeOK /\ RelayConnectionsTypeOK /\ page \in Page
    /\ others \subseteq Ticket /\ faults \in 0 .. MaxFaults

\* The page has nothing to do: not begun, closed, displaced, or its credentials refused.
Idle == page.phase \in {"idle", "closed"} \/ page.blocked \/ page.refused

\* Something will happen to the connection: a socket opens or closes, a delivery is live, a
\* restore has its deadline, or a timer runs.
Watched ==
    LET c == page.connection
        state == page.coordinator.state
    IN  CASE c.data = "none" -> c.control \in {"opening", "closing"} \/ page.grace
          [] c.data = "opening" -> TRUE
          [] c.data = "open" -> state \in {"live", "restoring"} \/ page.watchdog

\* The one way the code does lose a page, which takes three faults: a restore that outlived
\* its connection ends, and cancels the retry that another failed restore had scheduled.
Forgotten ==
    /\ page.phase = "live" /\ ~Connected(page)
    /\ page.attempt = "none" /\ ~page.reconnect /\ ~page.retry

\* Whatever fails, and in whatever order its timers, sockets and promises are heard of, the
\* page is connecting, waiting to connect, or on a connection that cannot be silent for ever
\* (#scheduleReconnect, #scheduleSnapshotRetry and the timers they leave to one another).
NeverStranded ==
    \/ Idle \/ Forgotten
    \/ page.attempt # "none" \/ page.reconnect \/ page.retry
    \/ page.connection.current /\ Watched

\* The coordinator is fenced at the generation of the connection, so that what an older
\* delivery left in it is neither acknowledged nor taken for the new one.
FenceIsCurrent ==
    page.connection.current => page.coordinator.fence = page.connection.gen

\* The relay never feeds a data socket of another connection set or an older generation
\* than the control socket the client speaks on.
DeliveryIsCurrent ==
    IsOpen(control) /\ IsOpen(data) => SameSocket(control, data) /\ data.gen = gen

\* A page whose terminal is live is fed by the relay, or is about to be told that it is not,
\* or has been told that the host is offline: it is never cut off without a word.
Ends(wire) == \E i \in DOMAIN wire.frames : wire.frames[i].kind \in {"closed", "resync"}
ToldOffline ==
    \/ ~page.hostOnline
    \/ \E i \in DOMAIN ctlWire.frames : ctlWire.frames[i].kind = "offline"
LiveIsFed ==
    /\ page.coordinator.state = "live" /\ page.connection.current
    /\ page.connection.data = "open"
    => \/ /\ HoldsControl /\ HoldsData
          /\ data.state \in {"synced", "demoted"}
          /\ data.state = "demoted" => ToldOffline
       \/ Ends(ctlWire) \/ Ends(dataWire)

\* What the relay has sent is what the page has received and what is on its way: no event is
\* lost or taken twice, although control and data frames overtake one another.
Coming ==
    Cardinality({i \in DOMAIN dataWire.frames : dataWire.frames[i].kind = "event"})
NothingIsSkipped ==
    /\ page.connection.current
    /\ page.coordinator.state \in {"restoring", "replaying", "live"}
    /\ HoldsData /\ page.connection.data = "open"
    /\ data.state \in {"pinned", "synced", "stalled", "demoted"}
    => page.coordinator.received + Coming = data.sent

\* The relay never has cause to take a page's frames for a protocol error, except for one
\* that was on its way when the data socket was lost.
PageKeepsProtocol ==
    blame \notin {"exceeds delivered cursor", "already attached", "replica cursor exceeds head"}

\* Once nothing more goes wrong, the page is live, or waits for its user.
Settled ==
    \/ Idle \/ Forgotten
    \/ /\ page.coordinator.state = "live" /\ page.connection.current
       /\ page.connection.data = "open" /\ HoldsControl /\ HoldsData /\ data.state = "synced"
PageRecovers == <>[]Settled

=============================================================================

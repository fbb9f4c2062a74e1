---------------------------- MODULE InputPipeline ----------------------------
(***************************************************************************)
(* Input from the key to the PTY: the browsers' dispatchers (BrowserInput),*)
(* the relay's writer lease (WriterLease) and the host's input sequence    *)
(* (HostInput), joined by the control sockets.                             *)
(*                                                                         *)
(* Every intent is a valid key, so that it is sent when it is consumed.    *)
(* An epoch is named by its writer fence, as in BrowserInput.  The queues  *)
(* up, down, toHost and acks hold what is on a socket or waits in the      *)
(* queue behind it; a queue is emptied when its socket is replaced.        *)
(***************************************************************************)
EXTENDS WriterLease, Sequences

CONSTANTS
    MaxIntents,     \* bound on the keys of one browser
    MaxPending,     \* INPUT_QUEUE_CONTRACT.maxPending
    DedupEntries,   \* inputDedupEntries of the host session
    MaxLinks        \* bound on the host's connections

ASSUME PipelineAssumption ==
    /\ MaxIntents \in Nat
    /\ MaxPending \in Nat \ {0}
    /\ DedupEntries \in Nat \ {0}
    /\ MaxLinks \in Nat

VARIABLES
    authority, intents, admitting,   \* the dispatchers of the browsers
    session, inputFence, inputWriter, inputResults, log, answer,   \* the host's session
    page,     \* the control connection that a browser has open; 0 is none
    up,       \* keys on the way to the relay, on the client's last connection
    down,     \* frames on the way to the browser, on the client's last connection
    toHost,   \* forwarded keys on the way to the host
    acks,     \* acknowledgements on the way to the relay
    link      \* the host's connection as each end sees it, and their number

browserVars == <<authority, intents, admitting>>
hostVars == <<session, inputFence, inputWriter, inputResults, log, answer>>
pipeVars == <<page, up, down, toHost, acks, link>>
pipelineVars == <<leaseVars, browserVars, hostVars, pipeVars>>

Browser == INSTANCE BrowserInput WITH Kinds <- {"key"}, MaxCount <- 1
Host == INSTANCE HostInput WITH Epochs <- 1 .. MaxFence, MaxInputSeq <- MaxIntents

PipelineInit ==
    /\ LeaseInit
    /\ Browser!BrowserInit
    /\ Host!HostInputInit
    /\ page = [c \in Clients |-> 0]
    /\ up = [c \in Clients |-> <<>>]
    /\ down = [c \in Clients |-> <<>>]
    /\ toHost = <<>>
    /\ acks = <<>>
    /\ link = [relay |-> FALSE, host |-> FALSE, count |-> 0]

-----------------------------------------------------------------------------
(* Frames: a welcome, an inactive lease or an acknowledgement. *)

Welcome(fence) ==
    [type |-> "welcome", fence |-> fence, epoch |-> 0, seq |-> 0, status |-> "none"]
Inactive == [type |-> "inactive", fence |-> 0, epoch |-> 0, seq |-> 0, status |-> "none"]
Ack(fence, epoch, seq, status) ==
    [type |-> "ack", fence |-> fence, epoch |-> epoch, seq |-> seq, status |-> status]

SendDown(c, frame) == down' = [down EXCEPT ![c] = Append(@, frame)]

\* The relay drops what arrives at a control socket that is no longer open.
Heard(frames) == [c \in Clients |-> IF sock'[c].state = "active" THEN frames[c] ELSE <<>>]

-----------------------------------------------------------------------------
(* The browser *)

\* A key is consumed and handed to the control socket, if it accepts it.
PressKey(c) ==
    /\ page[c] # 0
    /\ \E cut \in 1 .. MaxIntents, n \in 0 .. 1, how \in Browser!SendDecisions :
          Browser!ConsumeKey(c, cut, n, how)
    /\ LET key == intents'[c][Len(intents'[c])]
           frame == [epoch |-> key.fence, seq |-> key.seq]
       IN  CASE key.phase = "sent" -> up' = Heard([up EXCEPT ![c] = Append(@, frame)])
             [] key.phase = "terminating" ->
                   up' \in {up, Heard([up EXCEPT ![c] = Append(@, frame)])}
             [] key.phase = "done" -> up' = up
    /\ UNCHANGED <<hostVars, page, down, toHost, acks, link>>

BrowserTimer(c) ==
    /\ Browser!ExpireSent(c) \/ Browser!ExpireTerminating(c)
    /\ UNCHANGED <<hostVars, pipeVars>>

\* The page gives its connection up: it was closed, it failed, or the dispatcher asks for
\* another one.
LeaveConnection(c) ==
    /\ page[c] # 0
    /\ Browser!Detach(c, "control-replaced")
    /\ page' = [page EXCEPT ![c] = 0]
    /\ UNCHANGED <<hostVars, up, down, toHost, acks, link>>

\* acceptWelcome of a fence that is not new is a protocol failure.
TakeWelcome(c, fence) ==
    IF fence = 0 THEN Browser!WelcomeWaiting(c) /\ UNCHANGED page
    ELSE IF fence > authority[c].highest THEN Browser!WelcomeWriter(c, fence) /\ UNCHANGED page
    ELSE Browser!Detach(c, "control-replaced") /\ page' = [page EXCEPT ![c] = 0]

\* An acknowledgement is compared by fence, epoch and sequence number.
TakeAck(c, frame) ==
    IF frame.epoch = frame.fence
    THEN Browser!AcceptAcknowledgement(c, frame.fence, frame.seq, frame.status)
    ELSE UNCHANGED browserVars

BrowserReceives(c) ==
    /\ page[c] # 0 /\ page[c] = sock[c].conn /\ down[c] # <<>>
    /\ LET frame == Head(down[c])
       IN  \/ frame.type = "welcome" /\ TakeWelcome(c, frame.fence)
           \/ frame.type = "inactive" /\ Browser!Revoke(c) /\ UNCHANGED page
           \/ frame.type = "ack" /\ TakeAck(c, frame) /\ UNCHANGED page
    /\ down' = [down EXCEPT ![c] = Tail(@)]
    /\ UNCHANGED <<hostVars, up, toHost, acks, link>>

BrowserActs(c) ==
    /\ UNCHANGED leaseVars
    /\ PressKey(c) \/ BrowserTimer(c) \/ LeaveConnection(c) \/ BrowserReceives(c)

-----------------------------------------------------------------------------
(* The relay and the control connections of the browsers *)

Connect(c) ==
    /\ page[c] = 0
    /\ AcceptControl(c)
    /\ page' = [page EXCEPT ![c] = sock'[c].conn]
    /\ up' = [up EXCEPT ![c] = <<>>]
    /\ down' = [down EXCEPT ![c] = <<>>]
    /\ UNCHANGED <<browserVars, hostVars, toHost, acks, link>>

Close(c) ==
    /\ CloseProtocol(c) \/ CloseControl(c)
    /\ up' = Heard(up)
    /\ UNCHANGED <<browserVars, hostVars, page, down, toHost, acks, link>>

\* attach, up to its await
Attach(c) ==
    /\ \/ AttachWaiting(c) /\ SendDown(c, Welcome(0))
       \/ BeginAcquire(c) /\ UNCHANGED down
    /\ UNCHANGED <<browserVars, hostVars, page, up, toHost, acks, link>>

\* attach, after its await: the welcome tells the fence.
FinishAttach(c, n) ==
    /\ AcquireTooLate(c, n) \/ Acquire(c, n)
    /\ IF Stale(c, n) THEN UNCHANGED down ELSE SendDown(c, Welcome(sock'[c].fence))
    /\ up' = Heard(up)
    /\ UNCHANGED <<browserVars, hostVars, page, toHost, acks, link>>

Expire ==
    /\ LeaseExpires
    /\ UNCHANGED <<browserVars, hostVars, pipeVars>>

\* A renewal of a lease that is no longer live is answered inactive.
RefuseRenewal(c) ==
    /\ sock[c].state = "active" /\ sock[c].fence > 0 /\ ~Live(c)
    /\ page[c] = sock[c].conn /\ authority[c].lease > 0
    /\ \A i \in DOMAIN down[c] : down[c][i].type # "inactive"
    /\ SendDown(c, Inactive)
    /\ UNCHANGED <<leaseVars, browserVars, hostVars, page, up, toHost, acks, link>>

ConnId(c) == <<c, sock[c].conn>>

Forwarded(c, frame) ==
    [conn |-> ConnId(c),
     id |-> [fence |-> sock[c].fence, client |-> c, epoch |-> frame.epoch, seq |-> frame.seq]]

\* A key of the live writer is stamped with its fence and forwarded.
ForwardKey(c) ==
    /\ up[c] # <<>> /\ sock[c].state = "active"
    /\ Live(c) /\ link.relay
    /\ toHost' = Append(toHost, Forwarded(c, Head(up[c])))
    /\ up' = [up EXCEPT ![c] = Tail(@)]
    /\ UNCHANGED <<leaseVars, browserVars, hostVars, page, down, acks, link>>

\* Mutant: a key that is refused is acknowledged as rejected.
RejectOnly == "rejected"

\* mustFenceInputEpoch: a writer's key that is refused is acknowledged as uncertain.
RefusalStatus == "uncertain"

\* rejectInput: the key is not forwarded, or its send to the host fails, which closes the
\* host's connection.  The browser is answered and isolated.
RefuseKey(c) ==
    /\ up[c] # <<>> /\ sock[c].state = "active"
    /\ LET frame == Head(up[c])
       IN  /\ SendDown(c, Ack(sock[c].fence, frame.epoch, frame.seq, RefusalStatus))
           /\ \/ UNCHANGED <<toHost, acks, link>>
              \/ /\ Live(c) /\ link.relay
                 /\ toHost' \in {toHost, Append(toHost, Forwarded(c, frame))}
                 /\ acks' = <<>>
                 /\ link' = [link EXCEPT !.relay = FALSE]
    /\ CloseControl(c)
    /\ up' = Heard(up)
    /\ UNCHANGED <<browserVars, hostVars, page>>

\* An acknowledgement is for the connection that its key came from, if it is still active.
RelayAck ==
    /\ acks # <<>> /\ link.relay
    /\ LET ack == Head(acks)
           c == ack.id.client
       IN  IF ConnId(c) = ack.conn /\ sock[c].state = "active"
           THEN SendDown(c, Ack(sock[c].fence, ack.id.epoch, ack.id.seq, ack.status))
           ELSE UNCHANGED down
    /\ acks' = Tail(acks)
    /\ UNCHANGED <<leaseVars, browserVars, hostVars, page, up, toHost, link>>

RelayActs ==
    \/ \E c \in Clients :
          \/ Connect(c) \/ Close(c) \/ Attach(c) \/ RefuseRenewal(c)
          \/ ForwardKey(c) \/ RefuseKey(c)
          \/ \E n \in 1 .. MaxConns : FinishAttach(c, n)
    \/ Expire
    \/ RelayAck

-----------------------------------------------------------------------------
(* The host and its connection.  Its session fails with an input that fails; the other    *)
(* ends of a session are in HostInput.                                                   *)

\* The acknowledgement leaves unless the connection has been closed.
HostReceives ==
    /\ link.host /\ toHost # <<>>
    /\ LET input == Head(toHost)
       IN  /\ Host!SubmitInput(input.id)
           /\ acks' = IF link.relay
                      THEN Append(acks, [conn |-> input.conn, id |-> input.id, status |-> answer'.status])
                      ELSE acks
    /\ toHost' = Tail(toHost)
    /\ UNCHANGED <<leaseVars, browserVars, page, up, down, link>>

\* The host becomes ready on a new connection, after it has closed the former one.
HostConnects ==
    /\ ~link.host
    /\ link.count < MaxLinks
    /\ link' = [relay |-> TRUE, host |-> TRUE, count |-> link.count + 1]
    /\ toHost' = <<>>
    /\ acks' = <<>>
    /\ UNCHANGED <<leaseVars, browserVars, hostVars, page, up, down>>

\* Each end loses the connection by itself: keys may still reach the host when the relay
\* has closed it, and acknowledgements the relay when the host has.
RelayLosesHost ==
    /\ link.relay
    /\ link' = [link EXCEPT !.relay = FALSE]
    /\ acks' = <<>>
    /\ UNCHANGED <<leaseVars, browserVars, hostVars, page, up, down, toHost>>

HostLosesRelay ==
    /\ link.host
    /\ link' = [link EXCEPT !.host = FALSE]
    /\ toHost' = <<>>
    /\ UNCHANGED <<leaseVars, browserVars, hostVars, page, up, down, acks>>

HostActs ==
    HostReceives \/ HostConnects \/ RelayLosesHost \/ HostLosesRelay

PipelineNext == RelayActs \/ HostActs \/ \E c \in Clients : BrowserActs(c)

PipelineSpec == PipelineInit /\ [][PipelineNext]_pipelineVars

-----------------------------------------------------------------------------
(* Properties *)

\* The place of an input among the intents of its client.
PlaceOf(id) ==
    CHOOSE i \in DOMAIN intents[id.client] :
        intents[id.client][i].fence = id.epoch /\ intents[id.client][i].seq = id.seq

VerdictOf(intent) == IF intent.result = "duplicate" THEN "written" ELSE intent.result

Promise == INSTANCE InputContract WITH
    verdicts <- [c \in Clients |-> [i \in DOMAIN intents[c] |-> VerdictOf(intents[c][i])]],
    effects <- [k \in DOMAIN log |-> <<log[k].client, PlaceOf(log[k])>>]

\* Input takes effect at most once and in order, and what the user is told of it is true,
\* whatever connections are lost and whoever takes the lease (the whole input path).
InputContract == Promise!Contract

\* What reaches the host is in the order of fences, and each fence is one connection's: a
\* displaced writer's keys never follow its successor's, so that the host never has to
\* refuse an input for its fence or its writer (liveAttachment when a key is forwarded).
FencesReachHostInOrder ==
    /\ \A i, j \in DOMAIN toHost : i < j =>
          \/ toHost[i].id.fence < toHost[j].id.fence
          \/ /\ toHost[i].id.fence = toHost[j].id.fence
             /\ toHost[i].conn = toHost[j].conn
    /\ \A i \in DOMAIN toHost :
          LET id == toHost[i].id
          IN  /\ inputFence <= id.fence
              /\ inputFence = id.fence /\ inputWriter.highWater # 0 =>
                    inputWriter.client = id.client /\ inputWriter.epoch = id.epoch

\* No welcome has a fence that its browser must refuse (acquire and attachAuthority).
WelcomesAreFresh ==
    \A c \in Clients : page[c] # 0 /\ page[c] = sock[c].conn =>
        \A i \in DOMAIN down[c] :
            down[c][i].type = "welcome" /\ down[c][i].fence > 0 =>
                down[c][i].fence > authority[c].highest
=============================================================================

---------------------------- MODULE RelayDelivery ----------------------------
(***************************************************************************)
(* The relay's side of delivery: the host and browser connections of one   *)
(* session's Durable Object (apps/terminal-cloud/src/worker).              *)
(*                                                                         *)
(* What the host sends is processed by one serial queue.  A reset of a     *)
(* browser's delivery awaits a digest, so it is in flight for a while; the *)
(* serial queue awaits those its own messages began.                       *)
(***************************************************************************)
EXTENDS HostLink

VARIABLES
    doHead,     \* session_state.head_event_seq
    host,       \* "none", "paired" (not ready yet), "active": the current host pair
    readying,   \* handleControl awaits the resets that follow a host-ready
    pairs,      \* how many host pairs there have been
    gen,        \* client -> delivery_generation, 0 before the first connection
    ctl,        \* client -> the browser control socket's controlState, or "none"
    dat,        \* client -> the browser data socket's attachment, or NoData
    resets,     \* resets that await their digest
    published,  \* the cut of the newest published snapshot, or NoSeq
    blame       \* why the relay last failed the host pair

relayVars == <<doHead, host, readying, pairs, gen, ctl, dat, resets, published, blame>>

NoData == [state |-> "none", first |-> NoSeq, acked |-> NoSeq, sent |-> NoSeq,
           mode |-> "none", cut |-> NoSeq, pin |-> NoSeq]

Data == [state : {"awaiting", "catching", "synced"}, first : MaybeSeqs,
         acked : MaybeSeqs, sent : MaybeSeqs, mode : {"none", "warm", "snapshot"},
         cut : MaybeSeqs, pin : MaybeSeqs]

\* "data-closed" is the reset of a data socket's close event; the serial queue
\* awaits the others.
Reasons == {"host-reconnect", "slow-client", "journal-gap", "data-disconnected",
            "data-closed"}
Reset == [c : Clients, gen : Gens, why : Reasons]

RelayTypeOK ==
    /\ doHead \in Seqs
    /\ host \in {"none", "paired", "active"}
    /\ readying \in BOOLEAN
    /\ pairs \in 0 .. MaxPairs
    /\ gen \in [Clients -> 0 .. MaxGen]
    /\ ctl \in [Clients -> {"none", "awaiting", "active"}]
    /\ dat \in [Clients -> Data \cup {NoData}]
    /\ resets \subseteq Reset
    /\ published \in MaybeSeqs
    /\ blame \in {"none", "host state does not match session",
                  "canonical data sequence gap",
                  "delivery barrier does not match canonical head",
                  "delivery barrier conflicts with active delivery",
                  "delivery barrier conflicts with pinned delivery",
                  "directed replay exceeds pinned commit",
                  "directed replay sequence gap",
                  "host control channel disconnected"}

RelayInit ==
    /\ doHead = 0
    /\ host = "none" /\ readying = FALSE /\ pairs = 0
    /\ gen = [c \in Clients |-> 0]
    /\ ctl = [c \in Clients |-> "none"]
    /\ dat = [c \in Clients |-> NoData]
    /\ resets = {}
    /\ published = NoSeq
    /\ blame = "none"

Pinned(c) == dat[c].state = "catching" /\ dat[c].pin # NoSeq

\* isolateBrowserConnection: the client's sockets are closed.
Isolate(c) ==
    /\ ctl' = [ctl EXCEPT ![c] = "none"]
    /\ dat' = [dat EXCEPT ![c] = NoData]

\* No reset of this serial queue's messages is awaited.
SerialIdle == ~readying /\ \A r \in resets : r.why = "data-closed"

-----------------------------------------------------------------------------
(* The host pair *)

\* Mutant: browsers stay synced without a host.
StillSynced(data) == data

\* markBrowserDataCatchingUp; the pin of a synced delivery stays.
CatchingUp(data) ==
    [c \in Clients |-> IF data[c].state = "synced" THEN [data[c] EXCEPT !.state = "catching"]
                       ELSE data[c]]

\* A host-reconnect reset checks its pair again after its digest.
WithoutHostResets(rs) == {r \in rs : r.why # "host-reconnect"}

\* acceptSocket for the host's control and data tickets: advanceHostFence closes the
\* previous pair.
HostPaired ==
    /\ pairs < MaxPairs
    /\ pairs' = pairs + 1
    /\ host' = "paired"
    /\ readying' = FALSE
    /\ dat' = CatchingUp(dat)
    /\ resets' = WithoutHostResets(resets)
    /\ blame' = "none"
    /\ UNCHANGED <<doHead, gen, ctl, published>>

\* failCurrentHost: both sockets of the pair are closed.
FailCurrentHost(reason) ==
    /\ host' = "none"
    /\ readying' = FALSE
    /\ dat' = IF host = "active" THEN CatchingUp(dat) ELSE dat
    /\ resets' = WithoutHostResets(resets)
    /\ toRelay' = <<>>
    /\ blame' = reason
    /\ UNCHANGED <<doHead, pairs, gen, ctl, published, toHost, credit>>

\* #processWebSocketClose for a host socket.
HostSocketClosed ==
    /\ host # "none"
    /\ FailCurrentHost("host control channel disconnected")

\* The next message of the serial queue, from the current pair.
Processes(kind) ==
    /\ host = IF kind = "host-ready" THEN "paired" ELSE "active"
    /\ SerialIdle
    /\ toRelay # <<>> /\ Head(toRelay).kind = kind

ToHost(frame) == toHost' = IF host = "active" THEN Append(toHost, frame) ELSE toHost

ReadyAck(seq) == [kind |-> "host-ready-ack", seq |-> seq]

\* handleControl, host-ready: every active browser starts a new delivery, and the host
\* is acknowledged when the last of these resets has ended.
HostReady ==
    /\ Processes("host-ready")
    /\ LET seq == Head(toRelay).seq
           due == {[c |-> c, gen |-> gen[c], why |-> "host-reconnect"] :
                      c \in {b \in Clients : ctl[b] = "active"}}
       IN  IF seq < doHead
           THEN FailCurrentHost("host state does not match session")
           ELSE /\ doHead' = seq
                /\ host' = "active"
                /\ resets' = resets \cup due
                /\ readying' = (due # {})
                /\ toHost' = IF due = {} THEN Append(toHost, ReadyAck(seq)) ELSE toHost
                /\ toRelay' = Tail(toRelay)
                /\ UNCHANGED <<pairs, gen, ctl, dat, published, blame, credit>>

-----------------------------------------------------------------------------
(* Deliveries *)

\* advanceDeliveryCursor, for an event.
ContinuesCursor(d, seq) == seq = d.sent + 1
ExceedsCredit(d, seq) == seq - d.acked > MaxOutstanding

\* #handleDataFrame and HostDataBatchProcessor: a canonical event, for every synced
\* browser.  A send may fail.
CanonicalEvent ==
    /\ Processes("event")
    /\ LET seq == Head(toRelay).seq
           synced == {c \in Clients : dat[c].state = "synced"}
           gaps == {c \in synced : ~ContinuesCursor(dat[c], seq)}
           slow == {c \in synced \ gaps : ExceedsCredit(dat[c], seq)}
       IN  IF (\E c \in Clients : Pinned(c)) \/ seq # doHead + 1
           THEN FailCurrentHost("canonical data sequence gap")
           ELSE \E broken \in SUBSET (synced \ (gaps \cup slow)) :
                   /\ doHead' = seq
                   /\ dat' = [c \in Clients |->
                                 IF c \in synced \ (gaps \cup slow \cup broken)
                                 THEN [dat[c] EXCEPT !.sent = seq] ELSE dat[c]]
                   /\ resets' = resets
                         \cup {[c |-> c, gen |-> gen[c], why |-> "journal-gap"] : c \in gaps}
                         \cup {[c |-> c, gen |-> gen[c], why |-> "slow-client"] : c \in slow}
                         \cup {[c |-> c, gen |-> gen[c], why |-> "data-disconnected"] :
                               c \in broken}
                   /\ toRelay' = Tail(toRelay)
                   /\ UNCHANGED <<host, readying, pairs, gen, ctl, published, blame, toHost,
                                  credit>>

BarrierResult(id, status) ==
    ToHost([kind |-> "result", id |-> id, status |-> status])

\* hasUnadvancedDeliveryCursor
Unadvanced(d) == d.first = d.acked /\ d.first = d.sent

\* Mutants: a snapshot pin leaves the cursors, or moves them to the commit.
PinnedKeepingCursor(d, id) ==
    [d EXCEPT !.mode = id.mode, !.pin = id.commit, !.cut = id.cut]
PinnedAtCommit(d, id) ==
    IF id.mode = "warm"
    THEN [d EXCEPT !.mode = "warm", !.pin = id.commit]
    ELSE [d EXCEPT !.mode = "snapshot", !.pin = id.commit, !.cut = id.cut,
                   !.first = id.cut, !.acked = id.cut, !.sent = id.commit]

PinnedData(d, id) ==
    IF id.mode = "warm"
    THEN [d EXCEPT !.mode = "warm", !.pin = id.commit]
    ELSE [d EXCEPT !.mode = "snapshot", !.pin = id.commit, !.cut = id.cut,
                   !.first = id.cut, !.acked = id.cut, !.sent = id.cut]

Gone(c) == ctl[c] # "active" \/ dat[c].state = "none"

\* The answers a barrier may get.  Only a snapshot that is not the newest may have been
\* retired.
Answers(id) ==
    IF id.gen # gen[id.c] \/ Gone(id.c) THEN {"stale"}
    ELSE IF id.mode = "warm"
    THEN IF dat[id.c].first = NoSeq THEN {"missing-live-seed"} ELSE {"ready"}
    ELSE IF id.cut < published THEN {"ready", "snapshot-missing"} ELSE {"ready"}

\* DeliveryBarrierController.handle, for a barrier it accepts: pin, then start.
PinDelivery(id) ==
    \/ /\ dat' = [dat EXCEPT ![id.c] = PinnedData(dat[id.c], id)]
       /\ BarrierResult(id, "ready")
       /\ UNCHANGED ctl
    \/ /\ Isolate(id.c)
       /\ BarrierResult(id, "browser-control-send-failed")

\* DeliveryBarrierController.handle
HandleBarrier ==
    /\ Processes("barrier")
    /\ LET id == Head(toRelay).id
           d == dat[id.c]
           hasNoPin == d.pin = NoSeq
           hasExactPin == d.mode = id.mode /\ d.cut = id.cut /\ d.pin = id.commit
           current == id.gen = gen[id.c] /\ ~Gone(id.c)
       IN  IF id.commit # doHead
           THEN FailCurrentHost("delivery barrier does not match canonical head")
           ELSE IF current /\ ~(d.state = "catching" /\ Unadvanced(d))
           THEN FailCurrentHost("delivery barrier conflicts with active delivery")
           ELSE IF current /\ ~hasNoPin /\ ~hasExactPin
           THEN FailCurrentHost("delivery barrier conflicts with pinned delivery")
           ELSE /\ \E status \in Answers(id) :
                      IF status = "ready" THEN PinDelivery(id)
                      ELSE BarrierResult(id, status) /\ UNCHANGED <<ctl, dat>>
                /\ toRelay' = Tail(toRelay)
                /\ UNCHANGED <<doHead, host, readying, pairs, gen, resets, published, blame,
                               credit>>

\* #isDirectedFrameWithinPinnedCommit
WithinPin(d, f) ==
    /\ d.mode # "none"
    /\ IF f.kind = "commit" THEN f.seq = d.pin ELSE f.seq <= d.pin

\* advanceDeliveryCursor, for a frame of a replay.
ContinuesReplay(d, f) ==
    /\ d.state = "catching" /\ d.sent # NoSeq
    /\ IF f.kind = "commit" THEN f.seq = d.sent ELSE f.seq = d.sent + 1

Delivered(d, f) ==
    IF f.kind = "commit" THEN [d EXCEPT !.state = "synced"] ELSE [d EXCEPT !.sent = f.seq]

\* #handleDataFrame, for a replay's frame or its commit.  The send may fail.
DirectedFrame ==
    /\ Processes("directed") \/ Processes("commit")
    /\ LET f == Head(toRelay)
           d == dat[f.c]
           ignored == f.gen # gen[f.c] \/ d.state \in {"none", "synced"}
           resetFor(why) == {[c |-> f.c, gen |-> f.gen, why |-> why]}
       IN  IF ~ignored /\ ~WithinPin(d, f)
           THEN FailCurrentHost("directed replay exceeds pinned commit")
           ELSE IF ~ignored /\ ~ContinuesReplay(d, f)
           THEN FailCurrentHost("directed replay sequence gap")
           ELSE /\ \/ /\ ignored
                      /\ UNCHANGED <<dat, resets>>
                   \/ /\ ~ignored
                      /\ ExceedsCredit(d, f.seq)
                      /\ resets' = resets \cup resetFor("slow-client")
                      /\ UNCHANGED dat
                   \/ /\ ~ignored
                      /\ ~ExceedsCredit(d, f.seq)
                      /\ \/ /\ dat' = [dat EXCEPT ![f.c] = Delivered(d, f)]
                            /\ UNCHANGED resets
                         \/ /\ resets' = resets \cup resetFor("data-disconnected")
                            /\ UNCHANGED dat
                /\ toRelay' = Tail(toRelay)
                /\ UNCHANGED <<doHead, host, readying, pairs, gen, ctl, published, blame,
                               toHost, credit>>

\* handleData: the message in flight has been processed.
SendDataAck ==
    /\ DataBatch /\ host = "active" /\ SerialIdle
    /\ credit = "sent" /\ toRelay = <<>>
    /\ credit' = "acked"
    /\ UNCHANGED <<relayVars, toRelay, toHost>>

-----------------------------------------------------------------------------
(* Resets *)

\* BrowserDeliveryController.reset after its digest: the data socket is closed, and the
\* browser is given a ticket for the next generation; if that cannot be sent its
\* connection is isolated.  At the bound MaxGen it always is.
ReplaceDelivery(r) ==
    /\ gen' = [gen EXCEPT ![r.c] = IF r.gen < MaxGen THEN r.gen + 1 ELSE r.gen]
    /\ \/ /\ r.gen < MaxGen
          /\ dat' = [dat EXCEPT ![r.c] = NoData]
          /\ UNCHANGED ctl
       \/ Isolate(r.c)

\* A slow client's host is told, if the browser was.
ResetNotice(r) ==
    IF r.why = "slow-client" /\ ctl'[r.c] = "active"
    THEN <<[kind |-> "delivery-reset", c |-> r.c, gen |-> r.gen + 1]>> ELSE <<>>

\* Mutant: a reset that has been overtaken does not count.
EndsHostReadyIfCurrent(r) ==
    /\ readying /\ gen[r.c] = r.gen
    /\ \A q \in resets \ {r} : q.why # "host-reconnect"

\* The Promise.all of handleControl's resets.
EndsHostReady(r) == readying /\ \A q \in resets \ {r} : q.why # "host-reconnect"

\* reset after its digest, unless it has been overtaken; the last one that a host-ready
\* waits for acknowledges it.
FinishReset ==
    /\ \E r \in resets :
          LET isReady == EndsHostReady(r)
              acks == IF isReady THEN <<ReadyAck(doHead)>> ELSE <<>>
              current == gen[r.c] = r.gen /\ ctl[r.c] = "active"
          IN  /\ resets' = resets \ {r}
              /\ readying' = (readying /\ ~isReady)
              /\ IF current THEN ReplaceDelivery(r) ELSE UNCHANGED <<gen, ctl, dat>>
              /\ toHost' = IF host = "active"
                           THEN toHost \o (IF current THEN ResetNotice(r) ELSE <<>>) \o acks
                           ELSE toHost
    /\ UNCHANGED <<doHead, host, pairs, published, blame, toRelay, credit>>

-----------------------------------------------------------------------------
(* Browsers *)

\* acceptSocket for a control ticket: the client's earlier sockets are closed.
BrowserConnects(c) ==
    /\ gen[c] < MaxGen
    /\ gen' = [gen EXCEPT ![c] = gen[c] + 1]
    /\ ctl' = [ctl EXCEPT ![c] = "awaiting"]
    /\ dat' = [dat EXCEPT ![c] = NoData]
    /\ UNCHANGED <<doHead, host, readying, pairs, resets, published, blame, linkVars>>

\* acceptSocket for a data ticket, of which there is one per generation.
BrowserOpensData(c) ==
    /\ ctl[c] # "none"
    /\ dat[c] = NoData
    /\ [c |-> c, gen |-> gen[c], why |-> "data-closed"] \notin resets
    /\ dat' = [dat EXCEPT ![c].state = "awaiting"]
    /\ UNCHANGED <<doHead, host, readying, pairs, gen, ctl, resets, published, blame, linkVars>>

\* attach, from its second check on.
BrowserAttaches(c) ==
    /\ ctl[c] # "none"
    /\ dat[c].state = "awaiting"
    /\ \E base \in {NoSeq} \cup 0 .. doHead :
          /\ dat' = [dat EXCEPT ![c].state = "catching", ![c].first = base,
                                ![c].acked = base, ![c].sent = base]
          /\ ToHost([kind |-> "attach-request", req |-> [c |-> c, gen |-> gen[c], base |-> base]])
    /\ ctl' = [ctl EXCEPT ![c] = "active"]
    /\ UNCHANGED <<doHead, host, readying, pairs, gen, resets, published, blame, toRelay, credit>>

\* acknowledge; a browser acknowledges what it was sent.
BrowserAcknowledges(c) ==
    /\ host = "active" /\ ctl[c] = "active"
    /\ dat[c].sent # NoSeq
    /\ \E seq \in dat[c].acked + 1 .. dat[c].sent : dat' = [dat EXCEPT ![c].acked = seq]
    /\ UNCHANGED <<doHead, host, readying, pairs, gen, ctl, resets, published, blame, linkVars>>

\* #processWebSocketClose for a browser's data socket.
BrowserDataCloses(c) ==
    /\ dat[c] # NoData
    /\ IF ctl[c] = "active"
       THEN /\ dat' = [dat EXCEPT ![c] = NoData]
            /\ resets' = resets \cup {[c |-> c, gen |-> gen[c], why |-> "data-closed"]}
            /\ UNCHANGED ctl
       ELSE /\ Isolate(c)
            /\ UNCHANGED resets
    /\ UNCHANGED <<doHead, host, readying, pairs, gen, published, blame, linkVars>>

\* #processWebSocketClose for a browser's control socket.
BrowserCloses(c) ==
    /\ ctl[c] # "none"
    /\ Isolate(c)
    /\ UNCHANGED <<doHead, host, readying, pairs, gen, resets, published, blame, linkVars>>

\* A snapshot upload is finalized.
Publishes(cut) ==
    /\ published' = IF cut > published THEN cut ELSE published
    /\ UNCHANGED <<doHead, host, readying, pairs, gen, ctl, dat, resets, blame>>

Relays ==
    \/ HostReady
    \/ CanonicalEvent \/ HandleBarrier \/ DirectedFrame
    \/ SendDataAck
    \/ FinishReset

Browsers ==
    \E c \in Clients :
        \/ BrowserConnects(c) \/ BrowserOpensData(c) \/ BrowserAttaches(c)
        \/ BrowserAcknowledges(c) \/ BrowserDataCloses(c) \/ BrowserCloses(c)

=============================================================================

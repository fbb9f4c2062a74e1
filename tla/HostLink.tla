------------------------------ MODULE HostLink ------------------------------
(***************************************************************************)
(* The pair of WebSockets between a host and its relay session, and what   *)
(* travels on them: the part that HostDelivery and RelayDelivery share.    *)
(*                                                                         *)
(* An event of the terminal authority is named by its sequence number; its *)
(* PTY offset is a function of the number and is not modelled.  Session    *)
(* epoch and engine are constant.                                          *)
(***************************************************************************)
EXTENDS Integers, Sequences, FiniteSets

CONSTANTS
    Clients,         \* browser clients; a client has one stream
    NoClient,        \* stands for no client
    MaxHead,         \* bound on the authority's event sequence numbers
    MaxGen,          \* bound on delivery generations
    MaxPairs,        \* bound on host connections
    MaxQueue,        \* HOST_CANONICAL_QUEUE_LIMITS, in events
    MaxReplay,       \* WARM_REPLAY_MAX_FRAMES and _OUTSTANDING_BYTES, in events
    MaxOutstanding,  \* MAX_DELIVERY_OUTSTANDING_BYTES, in events
    DataBatch        \* host-data-batch-v1 has been negotiated

ASSUME LinkAssumption ==
    /\ NoClient \notin Clients
    /\ MaxHead \in Nat
    /\ MaxGen \in Nat \ {0}
    /\ MaxPairs \in Nat
    /\ MaxQueue \in Nat \ {0}
    /\ MaxReplay \in Nat \ {0} /\ MaxReplay <= MaxQueue
    /\ MaxOutstanding \in Nat
    /\ DataBatch \in BOOLEAN

VARIABLES
    toRelay,   \* host-ready, then host data frames sent and not yet processed
    toHost,    \* relay control frames sent and not yet handled by the host
    credit     \* the data message in flight: "free", "sent", "acked"

linkVars == <<toRelay, toHost, credit>>

NoSeq == -1   \* a null cursor: a browser without a live replica, no snapshot
Seqs == 0 .. MaxHead
MaybeSeqs == Seqs \cup {NoSeq}
Gens == 1 .. MaxGen

\* A DeliveryBarrier, or its result: the identity the two sides compare.
Identity == [c : Clients, gen : Gens, mode : {"warm", "snapshot"},
             cut : MaybeSeqs, commit : Seqs]

RelayFrame ==
    [kind : {"host-ready", "event"}, seq : Seqs]
    \cup [kind : {"directed", "commit"}, c : Clients, gen : Gens, seq : Seqs]
    \cup [kind : {"barrier"}, id : Identity]

\* An attach-request; base is NoSeq when the browser has no live replica.
Request == [c : Clients, gen : Gens, base : MaybeSeqs]

HostFrame ==
    [kind : {"host-ready-ack"}, seq : Seqs]
    \cup [kind : {"attach-request"}, req : Request]
    \cup [kind : {"delivery-reset"}, c : Clients, gen : Gens]
    \cup [kind : {"result"}, id : Identity,
          status : {"ready", "stale", "missing-live-seed", "snapshot-missing",
                    "browser-control-send-failed"}]

LinkTypeOK ==
    /\ toRelay \in Seq(RelayFrame)
    /\ toHost \in Seq(HostFrame)
    /\ credit \in {"free", "sent", "acked"}

=============================================================================

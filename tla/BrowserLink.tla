----------------------------- MODULE BrowserLink -----------------------------
(***************************************************************************)
(* One page and the relay of its session: connection tickets, the control  *)
(* and the data WebSocket, and what travels on them.  The part that        *)
(* BrowserSession and RelayConnections share.                              *)
(*                                                                         *)
(* A connection set, and the socket a ticket opens, is named by its number *)
(* and its delivery generation.  An event is its sequence number.  Engine  *)
(* and session epoch are constant.                                         *)
(***************************************************************************)
EXTENDS Integers, Sequences, FiniteSets

CONSTANTS
    MaxSets,    \* bound on connection sets
    MaxGen,     \* bound on delivery generations
    MaxSeq      \* bound on the canonical head

ASSUME BrowserLinkAssumption ==
    MaxSets \in Nat \ {0} /\ MaxGen \in Nat \ {0} /\ MaxSeq \in Nat

VARIABLES
    upgrades,   \* WebSocket requests on their way, or awaiting their ticket's digest
    ctlWire,    \* the control socket the page holds, and the frames on their way to it
    dataWire,   \* the data socket the page holds, likewise
    up          \* the frames on their way from the control socket the relay holds

wires == <<ctlWire, dataWire, up>>

Sets == 1 .. MaxSets
Gens == 1 .. MaxGen
Seqs == 0 .. MaxSeq
NoSeq == -1   \* a null cursor
MaybeSeqs == Seqs \cup {NoSeq}

Ticket == [set : Sets, channel : {"control", "data"}, gen : Gens]
NoWire == [set |-> 0, gen |-> 0, frames |-> <<>>]

Onto(wire, f) == [wire EXCEPT !.frames = Append(@, f)]
Untold(wire) == [wire EXCEPT !.frames = Tail(@)]

Frame(kind) == [kind |-> kind]
Closing(why) == [kind |-> "closed", why |-> why]

\* The kinds of frames a control socket delivers, with what they carry, and those of a
\* data socket; "open", "refused" and "closed" are events of the socket itself.
ControlFrame ==
    [kind : {"open", "refused", "offline"}]
    \cup [kind : {"closed"}, why : {"replaced", "protocol", "isolated", "lost"}]
    \cup [kind : {"welcome", "resync"}, gen : Gens]
    \cup [kind : {"start"}, mode : {"warm", "snapshot"}, gen : Gens, cut : Seqs]
DataFrame ==
    [kind : {"open", "refused"}]
    \cup [kind : {"closed"}, why : {"replaced", "protocol", "isolated", "lost"}]
    \cup [kind : {"event", "commit"}, seq : Seqs]
PageFrame == [kind : {"attach", "ack"}, gen : Gens, cursor : MaybeSeqs]

LinkTypeOK ==
    /\ upgrades \subseteq Ticket
    /\ \A w \in {ctlWire, dataWire} : w.set \in 0 .. MaxSets /\ w.gen \in 0 .. MaxGen
    /\ \A i \in DOMAIN ctlWire.frames : ctlWire.frames[i] \in ControlFrame
    /\ \A i \in DOMAIN dataWire.frames : dataWire.frames[i] \in DataFrame
    /\ \A i \in DOMAIN up : up[i] \in PageFrame

LinkInit ==
    /\ upgrades = {}
    /\ ctlWire = NoWire /\ dataWire = NoWire /\ up = <<>>

=============================================================================

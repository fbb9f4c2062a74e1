----------------------------- MODULE MCDelivery -----------------------------
(* Small instances of Delivery for TLC. *)
EXTENDS Delivery, TLC

\* Clients are only compared for equality, so they may be exchanged in a run that
\* checks no liveness.
Symmetry == Permutations(Clients)

\* When its last pair is lost, nothing is delivered any more: a barrier is processed from
\* the current pair only.  What follows cannot violate a property of barriers.
PairLives == pairs = MaxPairs => host # "none"

=============================================================================

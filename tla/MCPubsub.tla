------------------------------ MODULE MCPubsub ------------------------------
(* A finite instance of Pubsub for TLC. *)
EXTENDS Pubsub

\* A seed under which channels collide, and one that spreads them.
SomeHashes == {[k \in Channel |-> 4 * (k % 2)], [k \in Channel |-> k]}

\* What the unset counter of a new client may hold, on either side of zero.
SomeLeftover == {-1, 0, 1}
=============================================================================

----------------------------- MODULE MCObjects -----------------------------
(* A finite instance of Objects for TLC. *)
EXTENDS Objects

\* A seed under which members collide until the table has grown.
SomeHashes == {[m \in Member |-> 2 * (m % 2)]}
=============================================================================

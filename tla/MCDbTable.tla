----------------------------- MODULE MCDbTable -----------------------------
(* A finite instance of DbTable for TLC. *)
EXTENDS DbTable

\* A seed under which keys collide until the table has grown, and one that spreads them.
SomeHashes == {[k \in Key |-> 4 * (k % 2)], [k \in Key |-> k]}
=============================================================================

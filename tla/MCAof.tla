------------------------------- MODULE MCAof -------------------------------
(* Finite instances of Aof for TLC. *)
EXTENDS Aof, TLC

\* At most one mishap in a behaviour.
OneMishap == {{}} \cup {{m} : m \in Mishap}

\* Any combination of the mishaps that end or repeat a rewrite.
RewriteMishaps == SUBSET {"nested_rewrite", "child_failed", "crash_in_rewrite",
                          "stop_in_rewrite", "torn_crash"}

\* At most one mishap, or any combination of those that end or repeat a rewrite.
SomeMishaps == OneMishap \cup RewriteMishaps

EarlyReap == {{}, {"early_reap"}}

Interchangeable == Permutations(Child) \cup Permutations(Inode)
=============================================================================

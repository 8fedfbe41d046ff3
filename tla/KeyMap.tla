------------------------------- MODULE KeyMap -------------------------------
(***************************************************************************)
(* What the keyspace promises to the commands: a map from keys to objects, *)
(* of which only the state of the deadline matters here.  Buckets, growth  *)
(* and the place of the expiry cursor are invisible; the expiry cycle may  *)
(* remove expired keys and nothing else.                                   *)
(***************************************************************************)
EXTENDS TLC

CONSTANT Key

VARIABLE map

Deadline == {"none", "pending", "passed"}

Init == map = <<>>

Without(S) == [k \in DOMAIN map \ S |-> map[k]]

Set(k, t) == map' = (k :> t) @@ map
Remove(k) == map' = Without({k})
Move(k, to) == k \in DOMAIN map /\ map' = (to :> map[k]) @@ Without({k})
Flush == map' = <<>>
Expire(k) == k \in DOMAIN map /\ map[k] = "pending" /\ map' = [map EXCEPT ![k] = "passed"]
Sweep(S) == (\A k \in S : map[k] = "passed") /\ map' = Without(S)

Next ==
    \/ \E k \in Key, t \in Deadline \ {"passed"} : Set(k, t)
    \/ \E k \in Key : Remove(k) \/ Expire(k)
    \/ \E k, to \in Key : Move(k, to)
    \/ Flush
    \/ \E S \in SUBSET DOMAIN map : Sweep(S)

Spec == Init /\ [][Next]_map
=============================================================================

----------------------------- MODULE DurableLog -----------------------------
(***************************************************************************)
(* What the append-only log promises: every write goes to the log and to   *)
(* memory in one step, stopping loses the memory and nothing else, and     *)
(* starting again brings memory back to exactly what the log holds.        *)
(* Rewriting the log, forking and reaping are invisible.                   *)
(***************************************************************************)
EXTENDS Sequences

CONSTANT Write

VARIABLES log, mem, up

vars == <<log, mem, up>>

Init == log = <<>> /\ mem = <<>> /\ up = TRUE

Execute(w) ==
    /\ up
    /\ log' = Append(log, w)
    /\ mem' = Append(mem, w)
    /\ UNCHANGED up

Stop == up /\ up' = FALSE /\ mem' = <<>> /\ UNCHANGED log

Start == ~up /\ up' = TRUE /\ mem' = log /\ UNCHANGED log

Next == (\E w \in Write : Execute(w)) \/ Stop \/ Start

Spec == Init /\ [][Next]_vars
=============================================================================

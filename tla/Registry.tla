------------------------------ MODULE Registry ------------------------------
(***************************************************************************)
(* What pubsub.h promises: a relation between clients and channels.  A     *)
(* client counts its subscriptions, repeated ones included, gets every     *)
(* message of its channels once, and is forgotten when it disconnects.     *)
(***************************************************************************)
EXTENDS Integers, Sequences, FiniteSets

CONSTANTS Client, Channel, Leftover, MaxCount

VARIABLES subs, live, subscribed, ret

vars == <<subs, live, subscribed, ret>>

Channels(c) == {ch \in Channel : <<c, ch>> \in subs}
Listeners(ch) == {c \in Client : <<c, ch>> \in subs}
Without(c) == {s \in subs : s[1] # c}

Init ==
    /\ subs = {} /\ live = {} /\ subscribed = [c \in Client |-> 0]
    /\ ret = <<"create">>

Connect(c) ==
    /\ ret' = <<"connect", c>>
    /\ c \notin live /\ live' = live \cup {c}
    /\ \E n \in Leftover : subscribed' = [subscribed EXCEPT ![c] = n]
    /\ UNCHANGED subs

Subscribe(c, ch) ==
    /\ ret' = <<"subscribe", c, ch, subscribed[c] + 1>>
    /\ c \in live /\ subscribed[c] < MaxCount
    /\ subscribed' = [subscribed EXCEPT ![c] = @ + 1]
    /\ subs' = subs \cup {<<c, ch>>}
    /\ UNCHANGED live

Unsubscribe(c, ch) ==
    /\ ret' = <<"unsubscribe", c, ch, subscribed'[c]>>
    /\ c \in live
    /\ subscribed' = IF <<c, ch>> \in subs THEN [subscribed EXCEPT ![c] = @ - 1] ELSE subscribed
    /\ subs' = subs \ {<<c, ch>>}
    /\ UNCHANGED live

\* One confirmation for each channel, in some order, counting down.
UnsubscribeChannels(c) ==
    /\ ret'[1] = "frames" /\ c \in live
    /\ LET mine == Channels(c) IN
       \E order \in [1 .. Cardinality(mine) -> mine] :
         /\ \A ch \in mine : \E i \in DOMAIN order : order[i] = ch
         /\ subscribed' = [subscribed EXCEPT ![c] = @ - Len(order)]
         /\ ret' = <<"frames", c, [i \in DOMAIN order |-> <<order[i], subscribed[c] - i>>]>>
    /\ subs' = Without(c)
    /\ UNCHANGED live

Disconnect(c) ==
    /\ ret' = <<"disconnect", c>>
    /\ c \in live /\ live' = live \ {c}
    /\ subscribed' = [subscribed EXCEPT ![c] = 0]
    /\ subs' = Without(c)

Publish(ch) ==
    /\ ret'[1] = "publish"
    /\ LET to == Listeners(ch) IN
       ret' = <<"publish", ch, [c \in Client |-> IF c \in to THEN 1 ELSE 0], Cardinality(to)>>
    /\ UNCHANGED <<subs, live, subscribed>>

Next ==
    \/ \E c \in Client : Connect(c) \/ UnsubscribeChannels(c) \/ Disconnect(c)
    \/ \E c \in Client, ch \in Channel : Subscribe(c, ch) \/ Unsubscribe(c, ch)
    \/ \E ch \in Channel : Publish(ch)

Spec == Init /\ [][Next]_vars
=============================================================================

------------------------------- MODULE Pubsub -------------------------------
(***************************************************************************)
(* The channel registry of pubsub.c: a hash table from channels to lists   *)
(* of clients, and the counter each client carries.  The callers are those *)
(* pubsub.h names: clients that connect, subscribe and disconnect, and     *)
(* publishers.  No command of db.c calls the registry.                     *)
(***************************************************************************)
EXTENDS List, Dict

CONSTANTS
    Client, Channel,
    Hashes,      \* the hash functions a random seed may give
    Leftover,    \* what the counter of a new client may hold: client_init leaves the
                 \* int as the allocator returned it, negative values included
    MaxCount     \* bound on the counter of a client

ASSUME PubsubAssumption == Client \subseteq Nat \ {0} /\ Leftover \subseteq Int

VARIABLES
    channels,     \* the table
    live,         \* the clients that exist
    subscribed,   \* their counters
    ret,          \* the last call, the frames it appended and what it returned
    negative      \* history: the clients a connect ever found with a counter below zero

vars == <<channels, live, subscribed, ret, negative>>

Init ==
    /\ \E h \in Hashes : channels = dict_create(h)
    /\ live = {} /\ subscribed = [c \in Client |-> 0]
    /\ ret = <<"create">> /\ negative = {}

channel_subscribers(chan) == dict_get(channels, chan)

client_in_list(l, c) == LET seq == Nodes(l) IN \E i \in 1 .. l.len : l.node[seq[i]].val = c

Connect(c) ==
    /\ c \notin live /\ live' = live \cup {c}
    /\ \E n \in Leftover :
         /\ subscribed' = [subscribed EXCEPT ![c] = n]
         /\ negative' = IF n < 0 THEN negative \cup {c} ELSE negative
    /\ ret' = <<"connect", c>>
    /\ UNCHANGED channels

\* Mutant: no look for an earlier subscription.
pubsub_subscribe_again(c, chan) ==
    LET l == channel_subscribers(chan) IN
    /\ c \in live /\ subscribed[c] < MaxCount
    /\ channels' = IF l = NoEntry
                   THEN dict_set(channels, chan, list_push_tail(list_create, c))
                   ELSE InPlace(channels, chan, list_push_tail(l, c))
    /\ subscribed' = [subscribed EXCEPT ![c] = @ + 1]
    /\ ret' = <<"subscribe", c, chan, subscribed'[c]>>
    /\ UNCHANGED <<live, negative>>

pubsub_subscribe(c, chan) ==
    LET l == channel_subscribers(chan) IN
    /\ c \in live /\ subscribed[c] < MaxCount
    /\ channels' = IF l = NoEntry
                   THEN dict_set(channels, chan, list_push_tail(list_create, c))
                   ELSE IF client_in_list(l, c) THEN channels
                   ELSE InPlace(channels, chan, list_push_tail(l, c))
    /\ subscribed' = [subscribed EXCEPT ![c] = @ + 1]
    /\ ret' = <<"subscribe", c, chan, subscribed'[c]>>
    /\ UNCHANGED <<live, negative>>

\* The first node of the client goes.
Detached(l, c) ==
    LET seq == Nodes(l)
        at == {i \in 1 .. l.len : l.node[seq[i]].val = c}
    IN  list_detach(l, seq[Min(at)])

\* Mutant: the counter goes down for a channel the client does not listen to.
Unsubscribed_always(r, c, chan) ==
    LET l == dict_get(r.d, chan)
        held == l # NoEntry /\ client_in_list(l, c)
    IN  [d |-> IF held THEN InPlace(r.d, chan, Detached(l, c)) ELSE r.d,
         n |-> IF r.n > 0 THEN r.n - 1 ELSE r.n]

\* The table and the counter after pubsub_unsubscribe.
Unsubscribed(r, c, chan) ==
    LET l == dict_get(r.d, chan) IN
    IF l # NoEntry /\ client_in_list(l, c)
    THEN [d |-> InPlace(r.d, chan, Detached(l, c)), n |-> IF r.n > 0 THEN r.n - 1 ELSE r.n]
    ELSE r

pubsub_unsubscribe(c, chan) ==
    LET r == Unsubscribed([d |-> channels, n |-> subscribed[c]], c, chan) IN
    /\ c \in live
    /\ channels' = r.d /\ subscribed' = [subscribed EXCEPT ![c] = r.n]
    /\ ret' = <<"unsubscribe", c, chan, r.n>>
    /\ UNCHANGED <<live, negative>>

\* Every node of the client goes, from every list.
Purged(l, c) ==
    LET Turn(k, n) == IF k.node[n].val = c THEN list_detach(k, n) ELSE k
    IN  FoldLeft(Turn, l, Nodes(l))

\* pubsub_unsubscribe_all, and the client is freed.
pubsub_unsubscribe_all(c) ==
    /\ c \in live /\ live' = live \ {c}
    /\ channels' = IF subscribed[c] = 0 THEN channels
                   ELSE [channels EXCEPT !.table = [b \in DOMAIN @ |->
                           [i \in DOMAIN @[b] |-> [key |-> @[b][i].key,
                                                   val |-> Purged(@[b][i].val, c)]]]]
    /\ subscribed' = [subscribed EXCEPT ![c] = 0]
    /\ ret' = <<"disconnect", c>>
    /\ UNCHANGED negative

\* The channels in the order of the iterator, with a frame for each one that is left.
pubsub_unsubscribe_channels(c) ==
    LET Turn(r, e) ==
          IF client_in_list(e.val, c)
          THEN LET u == Unsubscribed([d |-> r.d, n |-> r.n], c, e.key) IN
               [d |-> u.d, n |-> u.n, frames |-> Append(r.frames, <<e.key, u.n>>)]
          ELSE r
        start == [d |-> channels, n |-> subscribed[c], frames |-> <<>>]
        r == IF subscribed[c] = 0 THEN start ELSE FoldLeft(Turn, start, Entries(channels))
    IN  /\ c \in live
        /\ channels' = r.d /\ subscribed' = [subscribed EXCEPT ![c] = r.n]
        /\ ret' = <<"frames", c, r.frames>>
        /\ UNCHANGED <<live, negative>>

\* A frame for every node of the list; an empty channel is dropped.
pubsub_publish(chan) ==
    LET l == channel_subscribers(chan)
        seq == Nodes(l)
        frames(c) == Cardinality({i \in 1 .. l.len : l.node[seq[i]].val = c})
    IN  /\ IF l = NoEntry
           THEN ret' = <<"publish", chan, [c \in Client |-> 0], 0>> /\ UNCHANGED channels
           ELSE /\ channels' = IF l.len = 0 THEN dict_delete(channels, chan) ELSE channels
                /\ ret' = <<"publish", chan, [c \in Client |-> frames(c)], l.len>>
        /\ UNCHANGED <<live, subscribed, negative>>

Next ==
    \/ \E c \in Client :
         Connect(c) \/ pubsub_unsubscribe_channels(c) \/ pubsub_unsubscribe_all(c)
    \/ \E c \in Client, chan \in Channel : pubsub_subscribe(c, chan) \/ pubsub_unsubscribe(c, chan)
    \/ \E chan \in Channel : pubsub_publish(chan)

Spec == Init /\ [][Next]_vars
-----------------------------------------------------------------------------
\* The clients that the list of a channel holds.
Listeners(chan) ==
    LET l == channel_subscribers(chan) IN
    IF l = NoEntry THEN {}
    ELSE LET seq == Nodes(l) IN {l.node[seq[i]].val : i \in 1 .. l.len}

\* pubsub.c 42-82, server.c 69-76: the sweep at a disconnect is skipped when the
\* counter is 0.  A list holds a freed client only if client_init once found a
\* counter below zero at its address, which subscriptions can bring up to 0 while
\* the client is listed; from 0 and above, repeated subscriptions, channels left
\* one by one or all together, and dropped channels never lead there.
SubscribersLive == \A chan \in Channel : Listeners(chan) \subseteq live \cup negative

Abstract == INSTANCE Registry WITH
    subs <- UNION {{<<c, chan>> : c \in Listeners(chan)} : chan \in Channel}

\* pubsub.c: lists, table growth, dropped channels and early returns are invisible:
\* subscriptions are a relation, and a message reaches each subscriber once.  Every
\* step is one of the registry until a counter starts below zero.
ImplementsRegistry ==
    Abstract!Init /\ [][negative' = {} => Abstract!Next \/ UNCHANGED Abstract!vars]_vars
=============================================================================

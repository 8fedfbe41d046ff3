----------------------------- MODULE EventLoop -----------------------------
(***************************************************************************)
(* The event loop of server.c with its clients, in both forms: epoll and   *)
(* select.  Peers connect, send their bytes in pieces, read the replies    *)
(* when they like, shut down or reset; the kernel keeps what is in         *)
(* between.  Every handler of an event is one step, as nothing else runs   *)
(* in the server; the accept loop is one step per connection.              *)
(***************************************************************************)
EXTENDS Integers, Sequences, FiniteSets

CONSTANTS
    Peer,
    Listener,                 \* the listening socket, among the events
    Scripts,                  \* what the peers may send: for each peer items of bytes
                              \* that are a command, or that are malformed
    Cuts,                     \* the offsets in its stream at which a peer may pause
    Order,                    \* the order in which the peers connect
    Leavers,                  \* the peers that may shut down or reset
    ParseCommand(_),          \* resp_parse_command of resp.c
    Quit,                     \* the arguments of QUIT
    Refusal,                  \* -ERR max number of clients reached
    READ_CHUNK, MAX_QUERY_BUF, MAX_CLIENTS, EPOLL_MAX_EVENTS,
    FdRoom,                   \* descriptors below FD_SETSIZE left for clients
    SNDBUF,                   \* replies a socket takes before the peer reads
    MaxTroubles               \* bound on failing calls, resets, shutdowns and signals

ASSUME LoopAssumption ==
    /\ Listener \notin Peer
    /\ {READ_CHUNK, MAX_QUERY_BUF, MAX_CLIENTS, EPOLL_MAX_EVENTS, FdRoom, SNDBUF} \subseteq Nat \ {0}
    /\ MaxTroubles \in Nat

VARIABLES
    script,     \* what each peer sends in this behaviour
    io,         \* "epoll" or "select"
    pc,         \* "wait", "events" or "stopped"
    batch,      \* the events still to be handled in this round
    skipped,    \* ready descriptors the last epoll_wait had no room for, in order
    clients,    \* the array of clients, by peer
    client,     \* their fields
    g_stop,
    backlog,    \* connections nobody has accepted
    link,       \* the kernel's side of each connection
    got,        \* replies each peer has read
    done,       \* commands dispatched for each peer
    why,        \* why a connection is to be closed
    troubles,   \* failing calls, resets, shutdowns and signals so far
    unarmed     \* peers for which an epoll_ctl MOD failed

server == <<pc, batch, skipped, clients, client>>
history == <<got, done, why, troubles, unarmed>>
env == <<script, io>>
vars == <<env, server, g_stop, backlog, link, history>>

\* One item after the other; a stream is what a peer sends in all.
Stream(p) ==
    LET join[i \in 0 .. Len(script[p])] == IF i = 0 THEN <<>> ELSE join[i - 1] \o script[p][i].bytes
    IN  join[Len(script[p])]

client_init == [in |-> <<>>, out |-> <<>>, out_sent |-> 0, closing |-> FALSE, events |-> {}]

Idle == [phase |-> "idle", sent |-> 0, read |-> 0, fin |-> FALSE, rst |-> FALSE, tx |-> <<>>]

Init ==
    /\ script \in Scripts /\ io \in {"epoll", "select"}
    /\ pc = "wait" /\ batch = <<>> /\ skipped = <<>> /\ clients = <<>> /\ g_stop = FALSE
    /\ client = [p \in Peer |-> client_init]
    /\ backlog = <<>> /\ link = [p \in Peer |-> Idle]
    /\ got = [p \in Peer |-> <<>>] /\ done = [p \in Peer |-> <<>>]
    /\ why = [p \in Peer |-> "none"] /\ troubles = 0 /\ unarmed = {}
-----------------------------------------------------------------------------
(* The peers and the kernel. *)

Trouble == troubles < MaxTroubles /\ troubles' = troubles + 1

Connect(p) ==
    /\ \E i \in DOMAIN Order :
         Order[i] = p /\ \A j \in 1 .. i - 1 : link[Order[j]].phase # "idle"
    /\ link[p].phase = "idle" /\ pc # "stopped"
    /\ link' = [link EXCEPT ![p].phase = "queued"]
    /\ backlog' = Append(backlog, p)
    /\ UNCHANGED <<env, server, g_stop, history>>

Send(p) ==
    /\ link[p].phase \in {"queued", "open"} /\ ~link[p].fin /\ ~link[p].rst
    /\ LET pauses == {n \in Cuts[p] \cup {Len(Stream(p))} : link[p].sent < n /\ n <= Len(Stream(p))} IN
       \E n \in pauses : (\A k \in pauses : n <= k) /\ link' = [link EXCEPT ![p].sent = n]
    /\ UNCHANGED <<env, server, g_stop, backlog, history>>

\* shutdown(SHUT_WR): the replies can still be read.
Shut(p) ==
    /\ p \in Leavers /\ Trouble
    /\ link[p].phase \in {"queued", "open"} /\ ~link[p].fin /\ ~link[p].rst
    /\ link' = [link EXCEPT ![p].fin = TRUE]
    /\ UNCHANGED <<env, server, g_stop, backlog, got, done, why, unarmed>>

\* The connection breaks; the kernel may report the error with or without the end
\* of the input.
Reset(p) ==
    /\ p \in Leavers /\ Trouble
    /\ link[p].phase = "open" /\ ~link[p].rst
    /\ \E end \in {TRUE, link[p].fin} :
         link' = [link EXCEPT ![p].rst = TRUE, ![p].fin = end, ![p].tx = <<>>]
    /\ UNCHANGED <<env, server, g_stop, backlog, got, done, why, unarmed>>

\* Closing a socket with unread input resets the connection, which may cost the peer
\* what was on its way.
Discard(p) ==
    /\ link[p].phase = "closed" /\ link[p].read < link[p].sent /\ link[p].tx # <<>>
    /\ link' = [link EXCEPT ![p].tx = <<>>]
    /\ UNCHANGED <<env, server, g_stop, backlog, history>>

Receive(p) ==
    /\ link[p].tx # <<>>
    /\ got' = [got EXCEPT ![p] = Append(@, Head(link[p].tx))]
    /\ link' = [link EXCEPT ![p].tx = Tail(@)]
    /\ UNCHANGED <<env, server, g_stop, backlog, done, why, troubles, unarmed>>

on_signal ==
    /\ ~g_stop /\ pc # "stopped" /\ Trouble
    /\ g_stop' = TRUE
    /\ UNCHANGED <<env, server, backlog, link, got, done, why, unarmed>>
-----------------------------------------------------------------------------
(* Waiting for events. *)

Pending(c) == Len(c.out) > c.out_sent

Unread(p) == link[p].read < link[p].sent

\* Mutant: select is never asked about output.
Watched_in(p) == IF io = "epoll" THEN client[p].events ELSE {"IN"}

\* What each loop asks the kernel to watch.
Watched(p) ==
    IF io = "epoll" THEN client[p].events
    ELSE {"IN"} \cup (IF Pending(client[p]) THEN {"OUT"} ELSE {})

\* epoll reports an error unasked, select as readable and writable.
Flags(p) ==
    LET in == Unread(p) \/ link[p].fin \/ (io = "select" /\ link[p].rst)
        out == Len(link[p].tx) < SNDBUF \/ link[p].rst
    IN  (Watched(p) \cap ((IF in THEN {"IN"} ELSE {}) \cup (IF out THEN {"OUT"} ELSE {})))
          \cup (IF io = "epoll" /\ link[p].rst THEN {"ERR"} ELSE {})

Ready ==
    {[who |-> clients[i], fl |-> Flags(clients[i])] :
       i \in {j \in DOMAIN clients : Flags(clients[j]) # {}}}
      \cup (IF backlog # <<>> THEN {[who |-> Listener, fl |-> {"IN"}]} ELSE {})

Orders == {b \in [1 .. Cardinality(Ready) -> Ready] : \A i, j \in DOMAIN b : b[i] = b[j] => i = j}

\* epoll_wait returns as many as fit, those it left out last time before the others.
epoll_wait ==
    LET StillReady(x) == \E e \in Ready : e.who = x
        first == SelectSeq(skipped, StillReady)
        n == IF Cardinality(Ready) < EPOLL_MAX_EVENTS THEN Cardinality(Ready) ELSE EPOLL_MAX_EVENTS
    IN  \E b \in Orders :
          /\ \A i \in 1 .. Len(first) : b[i].who = first[i]
          /\ batch' = SubSeq(b, 1, n)
          /\ skipped' = [i \in 1 .. Len(b) - n |-> b[n + i].who]

\* The select loop looks at the listener and then at the clients in array order.
select ==
    LET Place(e) == IF e.who = Listener THEN 0 ELSE CHOOSE i \in DOMAIN clients : clients[i] = e.who
    IN  \E b \in Orders :
          /\ \A i, j \in DOMAIN b : i < j => Place(b[i]) < Place(b[j])
          /\ batch' = b
          /\ UNCHANGED skipped

Wait ==
    /\ pc = "wait" /\ ~g_stop /\ Ready # {}
    /\ IF io = "epoll" THEN epoll_wait ELSE select
    /\ pc' = "events"
    /\ UNCHANGED <<env, clients, client, g_stop, backlog, link, history>>
-----------------------------------------------------------------------------
(* The handlers. *)

Serving(x) == pc = "events" /\ batch # <<>> /\ Head(batch).who = x

\* One turn of the accept loop for the connection at the head of the backlog.
accept_clients ==
    /\ Serving(Listener) /\ backlog # <<>>
    /\ backlog' = Tail(backlog)
    /\ LET p == Head(backlog) IN
       IF (io = "select" /\ Len(clients) >= FdRoom) \/ Len(clients) >= MAX_CLIENTS
       THEN /\ link' = [link EXCEPT ![p].phase = "closed",
                          ![p].tx = IF io = "select" /\ Len(clients) >= FdRoom
                                    THEN <<>> ELSE <<Refusal>>]
            /\ why' = [why EXCEPT ![p] = "refused"]
            /\ UNCHANGED <<clients, client, troubles>>
       ELSE /\ link' = [link EXCEPT ![p].phase = "open"]
            /\ clients' = Append(clients, p)
            /\ \/ /\ client' = [client EXCEPT ![p].events =
                                   IF io = "epoll" THEN {"IN"} ELSE {}]
                  /\ UNCHANGED <<why, troubles>>
               \/ /\ io = "epoll" /\ Trouble    \* epoll_ctl ADD
                  /\ client' = [client EXCEPT ![p].closing = TRUE]
                  /\ why' = [why EXCEPT ![p] = "fault"]
    /\ UNCHANGED <<env, pc, batch, skipped, g_stop, got, done, unarmed>>

\* The loop ends with an empty backlog, or with an error that leaves it as it is.
AcceptEnds ==
    /\ Serving(Listener)
    /\ \/ backlog = <<>> /\ UNCHANGED troubles
       \/ backlog # <<>> /\ Trouble
    /\ batch' = Tail(batch)
    /\ UNCHANGED <<env, pc, skipped, clients, client, g_stop, backlog, link, got, done, why, unarmed>>

\* A command without arguments is ignored, QUIT is answered and closes.
dispatch_command(r, argv) ==
    IF argv = <<>> THEN r
    ELSE [r EXCEPT !.out = Append(@, argv), !.done = Append(@, argv),
                   !.why = IF argv = Quit THEN "quit" ELSE @,
                   !.ret = IF argv = Quit THEN "stay" ELSE @]

\* Every complete command in the input; r is a read in progress.
Drain(r0) ==
    LET turn[i \in Nat] ==
          IF i = 0 THEN [r |-> r0, go |-> TRUE]
          ELSE LET t == turn[i - 1]
                   cmd == ParseCommand(t.r.in)
               IN  IF ~t.go THEN t
                   ELSE IF cmd.n > 0
                   THEN LET r == dispatch_command(t.r, cmd.argv) IN
                        [r |-> [r EXCEPT !.in = SubSeq(@, cmd.n + 1, Len(@))],
                         go |-> r.ret = "more"]
                   ELSE IF cmd.n < 0
                   THEN [r |-> [t.r EXCEPT !.ret = "fail", !.why = "protocol"], go |-> FALSE]
                   ELSE [r |-> t.r, go |-> FALSE]
    IN  turn[Len(r0.in) + 1].r

\* Mutant: the cap counts everything the client ever sent.
Recv_total(p, r) ==
    LET upto == IF r.read + READ_CHUNK < link[p].sent THEN r.read + READ_CHUNK ELSE link[p].sent
        in == r.in \o SubSeq(Stream(p), r.read + 1, upto)
    IN  IF upto = r.read THEN [r EXCEPT !.ret = "stay"]
        ELSE IF upto > MAX_QUERY_BUF
             THEN [r EXCEPT !.in = in, !.read = upto, !.ret = "fail", !.why = "size"]
             ELSE Drain([r EXCEPT !.in = in, !.read = upto])

\* One recv and what follows from it.
Recv(p, r) ==
    LET upto == IF r.read + READ_CHUNK < link[p].sent THEN r.read + READ_CHUNK ELSE link[p].sent
        in == r.in \o SubSeq(Stream(p), r.read + 1, upto)
    IN  IF upto > r.read
        THEN IF Len(in) > MAX_QUERY_BUF
             THEN [r EXCEPT !.in = in, !.read = upto, !.ret = "fail", !.why = "size"]
             ELSE Drain([r EXCEPT !.in = in, !.read = upto])
        ELSE IF link[p].rst THEN [r EXCEPT !.ret = "fail", !.why = "error"]
        ELSE IF link[p].fin THEN [r EXCEPT !.ret = "fail", !.why = "eof"]
        ELSE [r EXCEPT !.ret = "stay"]

\* recv until there is nothing left, the client is to be closed or fails.
read_client(p) ==
    LET turn[i \in Nat] ==
          IF i = 0 THEN [in |-> client[p].in, out |-> client[p].out, done |-> done[p],
                         read |-> link[p].read, why |-> "none", ret |-> "more"]
          ELSE LET r == turn[i - 1] IN IF r.ret = "more" THEN Recv(p, r) ELSE r
    IN  turn[(link[p].sent - link[p].read) \div READ_CHUNK + 2]

\* Mutant: the offset is not reset with the buffer.
write_client_noreset(p, out, out_sent) ==
    LET room == SNDBUF - Len(link[p].tx)
        n == IF room < Len(out) - out_sent THEN room ELSE Len(out) - out_sent
    IN  [out |-> IF out_sent + n = Len(out) THEN <<>> ELSE out, out_sent |-> out_sent + n,
         tx |-> link[p].tx \o SubSeq(out, out_sent + 1, out_sent + n)]

\* Mutant: a partial send is sent again from the start.
write_client_again(p, out, out_sent) ==
    LET room == SNDBUF - Len(link[p].tx)
        n == IF room < Len(out) THEN room ELSE Len(out)
    IN  [out |-> IF n = Len(out) THEN <<>> ELSE out, out_sent |-> 0,
         tx |-> link[p].tx \o SubSeq(out, 1, n)]

\* What send takes now; the buffer is reset once it is empty.
write_client(p, out, out_sent) ==
    LET room == SNDBUF - Len(link[p].tx)
        n == IF room < Len(out) - out_sent THEN room ELSE Len(out) - out_sent
        flushed == out_sent + n = Len(out)
    IN  [out |-> IF flushed THEN <<>> ELSE out,
         out_sent |-> IF flushed THEN 0 ELSE out_sent + n,
         tx |-> link[p].tx \o SubSeq(out, out_sent + 1, out_sent + n)]

\* Mutant: off by one.
client_update_epoll_late(c) == {"IN"} \cup (IF Len(c.out) > c.out_sent + 1 THEN {"OUT"} ELSE {})

\* The events client_update_epoll registers.
client_update_epoll(c) == {"IN"} \cup (IF Pending(c) THEN {"OUT"} ELSE {})

\* A client is written to when its socket is ready, and once more before it is closed.
Writes(fl, closing) == "OUT" \in fl \/ closing

\* An error without input closes the client at once.
HangUp(p) ==
    /\ Serving(p) /\ "ERR" \in Head(batch).fl /\ "IN" \notin Head(batch).fl
    /\ batch' = Tail(batch)
    /\ client' = [client EXCEPT ![p].closing = TRUE]
    /\ why' = [why EXCEPT ![p] = "error"]
    /\ UNCHANGED <<env, pc, skipped, clients, g_stop, backlog, link, got, done, troubles, unarmed>>

\* What the handler reads, if the client is readable.
Read(p) ==
    IF "IN" \in Head(batch).fl THEN read_client(p)
    ELSE [in |-> client[p].in, out |-> client[p].out, done |-> done[p], read |-> link[p].read,
          why |-> "none", ret |-> "stay"]

\* After a read r: writing if asked to, and the last flush of a client that is to be
\* closed.  At most one of the two writes has an effect.
AfterRead(p, r) ==
    LET fl == Head(batch).fl
        c == client[p]
        failed == r.ret = "fail"
        quit == ~failed /\ r.why = "quit"
        broken == ~failed /\ ~quit /\ "OUT" \in fl /\ Len(r.out) > c.out_sent /\ link[p].rst
        closing == failed \/ quit \/ broken
        writes == ~link[p].rst /\ Writes(fl, closing)
        w == IF writes THEN write_client(p, r.out, c.out_sent)
             ELSE [out |-> r.out, out_sent |-> c.out_sent, tx |-> link[p].tx]
        c1 == [in |-> r.in, out |-> r.out, out_sent |-> c.out_sent, closing |-> closing,
               events |-> c.events]
        c2 == [in |-> r.in, out |-> w.out, out_sent |-> w.out_sent, closing |-> closing,
               events |-> c.events]
        \* client_update_epoll is called after a read and after a write that did not fail
        mod1 == IF "IN" \in fl /\ ~failed THEN client_update_epoll(c1) ELSE c.events
        mod2 == IF "OUT" \in fl /\ ~closing THEN client_update_epoll(c2) ELSE mod1
    IN  /\ Serving(p) /\ ~("ERR" \in fl /\ "IN" \notin fl)
        /\ batch' = Tail(batch)
        /\ done' = [done EXCEPT ![p] = r.done]
        /\ why' = [why EXCEPT ![p] = IF broken THEN "error" ELSE r.why]
        /\ link' = [link EXCEPT ![p].read = r.read, ![p].tx = w.tx]
        /\ \/ /\ client' = [client EXCEPT ![p] =
                             [c2 EXCEPT !.events = IF io = "epoll" THEN mod2 ELSE @]]
              /\ UNCHANGED <<troubles, unarmed>>
           \/ /\ io = "epoll" /\ Trouble    \* epoll_ctl MOD
              /\ \E e \in {c.events, mod1} \ {mod2} :
                   client' = [client EXCEPT ![p] = [c2 EXCEPT !.events = e]]
              /\ unarmed' = unarmed \cup {p}
        /\ UNCHANGED <<env, pc, skipped, clients, g_stop, backlog, got>>

HandleClient(p) == AfterRead(p, Read(p))

\* Mutant: closing clients stay until the next round.
compact_clients_later ==
    /\ pc = "events" /\ batch = <<>>
    /\ pc' = "wait"
    /\ UNCHANGED <<env, batch, skipped, clients, client, g_stop, backlog, link, history>>

\* The clients that are not closing move up in the array, in their order.
compact_clients ==
    /\ pc = "events" /\ batch = <<>>
    /\ pc' = "wait"
    /\ LET keep == {i \in DOMAIN clients : ~client[clients[i]].closing} IN
       \E at \in [1 .. Cardinality(keep) -> keep] :
         /\ \A v, w \in DOMAIN at : v < w => at[v] < at[w]
         /\ \A i \in keep : \E w \in DOMAIN at : at[w] = i
         /\ clients' = [w \in DOMAIN at |-> clients[at[w]]]
    /\ link' = [p \in Peer |-> IF client[p].closing THEN [link[p] EXCEPT !.phase = "closed"]
                               ELSE link[p]]
    /\ client' = [p \in Peer |-> IF client[p].closing THEN client_init ELSE client[p]]
    /\ UNCHANGED <<env, batch, skipped, g_stop, backlog, history>>

\* Mutant: the loop goes on until the clients have left.
Stop_idle ==
    /\ pc = "wait" /\ g_stop /\ clients = <<>>
    /\ pc' = "stopped"
    /\ UNCHANGED <<env, batch, skipped, clients, client, g_stop, backlog, link, history>>

\* The loop ends and frees every client; the listener is closed.
Stop ==
    /\ pc = "wait" /\ g_stop
    /\ pc' = "stopped"
    /\ clients' = <<>> /\ client' = [p \in Peer |-> client_init] /\ backlog' = <<>>
    /\ link' = [p \in Peer |-> IF link[p].phase \in {"queued", "open"}
                               THEN [link[p] EXCEPT !.phase = "closed"] ELSE link[p]]
    /\ why' = [p \in Peer |-> IF link[p].phase \in {"queued", "open"} THEN "stop" ELSE why[p]]
    /\ UNCHANGED <<env, batch, skipped, g_stop, got, done, troubles, unarmed>>

ServerStep ==
    Wait \/ accept_clients \/ AcceptEnds \/ (\E p \in Peer : HangUp(p) \/ HandleClient(p))
      \/ compact_clients \/ Stop

PeerStep ==
    \E p \in Peer : Connect(p) \/ Send(p) \/ Shut(p) \/ Reset(p) \/ Discard(p) \/ Receive(p)

Next == ServerStep \/ PeerStep \/ on_signal

Spec == Init /\ [][Next]_vars

Handling == pc = "events" /\ batch # <<>>

\* The loop runs, and the peers read.  The sockets are non-blocking, so that every
\* round ends: this is weak fairness of the handlers, each of which is enabled at
\* its event and uses it up.
FairSpec ==
    /\ Spec
    /\ WF_vars(Wait) /\ WF_vars(compact_clients) /\ WF_vars(Stop)
    /\ []<>~Handling
    /\ \A p \in Peer : WF_vars(Receive(p))
-----------------------------------------------------------------------------
Members == {clients[i] : i \in DOMAIN clients}

Reasons == {"none", "eof", "error", "quit", "size", "protocol", "refused", "fault", "stop"}

TypeOK ==
    /\ io \in {"epoll", "select"} /\ pc \in {"wait", "events", "stopped"} /\ g_stop \in BOOLEAN
    /\ clients \in Seq(Peer) /\ Len(clients) <= MAX_CLIENTS /\ backlog \in Seq(Peer)
    /\ \A p \in Peer :
         /\ client[p].out_sent \in 0 .. Len(client[p].out)
         /\ client[p].closing \in BOOLEAN /\ client[p].events \subseteq {"IN", "OUT"}
         /\ link[p].phase \in {"idle", "queued", "open", "closed"}
         /\ link[p].read \in 0 .. link[p].sent /\ Len(link[p].tx) <= SNDBUF
         /\ why[p] \in Reasons
    /\ troubles \in 0 .. MaxTroubles /\ unarmed \subseteq Peer

\* Bytes in the first k items of a script.
End(p, k) ==
    LET sum[i \in 0 .. k] == IF i = 0 THEN 0 ELSE sum[i - 1] + Len(script[p][i].bytes) IN sum[k]

Ends(p, i) == script[p][i].malformed \/ script[p][i].argv = Quit

\* The commands a peer has completed with its first n bytes, up to the one that
\* ends the connection.
Completed(p, n) ==
    LET whole == {i \in 1 .. Len(script[p]) :
                    /\ End(p, i) <= n /\ ~script[p][i].malformed
                    /\ \A j \in 1 .. i - 1 : ~Ends(p, j)}
        argv == [i \in 1 .. Cardinality(whole) |-> script[p][i].argv]
        HasName(a) == a # <<>>
    IN  SelectSeq(argv, HasName)

Prefix(s, t) == Len(s) <= Len(t) /\ s = SubSeq(t, 1, Len(s))

\* server.c 233-281, resp.c: the commands that are dispatched are the ones the peer
\* sent, once and in order, wherever the packets and the recv calls cut its stream,
\* none is held back once its last byte was read, and only a malformed one is taken
\* for a protocol error.
FragmentationInvisible ==
    \A p \in Peer :
      /\ Prefix(done[p], Completed(p, link[p].read))
      /\ why[p] \in {"none", "quit", "eof", "protocol"} => done[p] = Completed(p, link[p].read)
      /\ why[p] = "protocol" =>
           \E i \in 1 .. Len(script[p]) : script[p][i].malformed /\ End(p, i - 1) < link[p].read

\* server.c 283-301: what a peer has read, what is on its way and what waits in the
\* output buffer are together the replies to its commands; a closed connection may
\* have cut them off but never skips or repeats one.
RepliesInOrder ==
    \A p \in Peer :
      LET taken == got[p] \o link[p].tx IN
      IF why[p] = "refused" THEN Prefix(taken, <<Refusal>>)
      ELSE /\ Prefix(taken, done[p])
           /\ (p \in Members /\ ~link[p].rst) =>
                taken \o SubSeq(client[p].out, client[p].out_sent + 1, Len(client[p].out)) = done[p]

\* server.c 368-401: an event of this round refers to a client that exists, is not
\* closing and has no other event; so the pointer in it is good, although handlers
\* of the same round accept and close clients.
NoStaleEvent ==
    \A i \in DOMAIN batch :
      batch[i].who # Listener =>
        /\ batch[i].who \in Members /\ ~client[batch[i].who].closing
        /\ \A j \in DOMAIN batch : batch[j].who = batch[i].who => i = j

\* server.c 323-336: whenever the loop waits, a client is watched for output exactly
\* if it has some, unless the kernel refused to change the registration.
Armed ==
    (pc = "wait" /\ io = "epoll") =>
      \A p \in Members \ unarmed : "OUT" \in client[p].events <=> Pending(client[p])

\* server.c 243-247: only a command longer than the cap less one chunk can make the
\* server drop a client for the size of its input.
CutShortOnlyIfHuge ==
    \A p \in Peer :
      why[p] = "size" =>
        \E i \in 1 .. Len(script[p]) : Len(script[p][i].bytes) > MAX_QUERY_BUF - READ_CHUNK

\* Both loops: a command that was sent completely over a connection that stays is
\* answered in the end.  Answers may be lost only with the connection, or when
\* epoll_ctl failed.
Answered ==
    []<>(\A p \in Peer :
           \/ Len(got[p]) >= Len(Completed(p, link[p].sent))
           \/ link[p].phase \in {"idle", "closed"}
           \/ p \in unarmed)

\* server.c 358, 405-410: a signal ends the loop.
StopEnds == []<>(g_stop => pc = "stopped")
=============================================================================

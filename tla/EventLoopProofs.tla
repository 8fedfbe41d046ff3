-------------------------- MODULE EventLoopProofs --------------------------
(***************************************************************************)
(* For every number of peers, every parser, every script, every limit and  *)
(* both loops: the events of a round refer to live clients, and a client   *)
(* with output is watched for it.                                          *)
(***************************************************************************)
EXTENDS EventLoop, FiniteSetTheorems, SequenceTheorems, TLAPS

Fields == {"in", "out", "out_sent", "closing", "events"}

\* A connection is queued, or open and then in the array, or neither; a client that
\* is not in the array has its initial fields.
Shape ==
    /\ clients \in Seq(Peer) /\ backlog \in Seq(Peer)
    /\ DOMAIN client = Peer /\ DOMAIN link = Peer
    /\ \A p \in Peer : /\ DOMAIN client[p] = Fields
                       /\ client[p].closing \in BOOLEAN
                       /\ "phase" \in DOMAIN link[p]
    /\ \A p \in Members : link[p].phase = "open"
    /\ \A p \in Peer \ Members : client[p] = client_init
    /\ \A i, j \in DOMAIN backlog : backlog[i] = backlog[j] => i = j
    /\ \A i \in DOMAIN backlog : link[backlog[i]].phase = "queued"

EventRecord == [who : Peer \cup {Listener}, fl : SUBSET {"IN", "OUT", "ERR"}]

\* The events of a round, and what compaction leaves.
Round ==
    /\ batch \in Seq(EventRecord)
    /\ pc # "events" => batch = <<>>
    /\ pc # "events" => \A p \in Members : ~client[p].closing
    /\ NoStaleEvent

\* Armed, also in the middle of a round.
Watch ==
    io = "epoll" =>
      \A p \in Members \ unarmed :
        client[p].closing \/ ("OUT" \in client[p].events <=> Pending(client[p]))

LoopInv == Shape /\ Round /\ Watch

LEMMA InitInv == Init => LoopInv
  <1> SUFFICES ASSUME Init PROVE LoopInv
    OBVIOUS
  <1>1. Members = {}
    BY DEF Init, Members
  <1>2. Shape
    <2>1. \A p \in Peer : client[p] = client_init /\ link[p] = Idle
      BY DEF Init
    <2>2. DOMAIN client_init = Fields /\ client_init.closing \in BOOLEAN
      BY DEF Fields, client_init
    <2>3. "phase" \in DOMAIN Idle
      BY DEF Idle
    <2>4. clients = <<>> /\ backlog = <<>> /\ DOMAIN client = Peer /\ DOMAIN link = Peer
      BY DEF Init
    <2> QED
      BY <1>1, <2>1, <2>2, <2>3, <2>4 DEF Shape
  <1>3. Round
    BY <1>1 DEF Init, Round, NoStaleEvent
  <1>4. Watch
    BY <1>1 DEF Watch
  <1> QED
    BY <1>2, <1>3, <1>4 DEF LoopInv

\* The array and the backlog hold peers.
LEMMA Ranges ==
  ASSUME Shape
  PROVE  /\ Len(clients) \in Nat /\ DOMAIN clients = 1 .. Len(clients)
         /\ \A i \in DOMAIN clients : clients[i] \in Peer
         /\ \A i \in DOMAIN backlog : backlog[i] \in Peer
         /\ Members \subseteq Peer
  <1>1. clients \in Seq(Peer) /\ backlog \in Seq(Peer)
    BY DEF Shape
  <1>2. /\ Len(clients) \in Nat /\ DOMAIN clients = 1 .. Len(clients)
        /\ \A i \in DOMAIN clients : clients[i] \in Peer
    BY <1>1, LenProperties
  <1>3. \A i \in DOMAIN backlog : backlog[i] \in Peer
    BY <1>1, LenProperties
  <1> QED
    BY <1>2, <1>3 DEF Members

\* What may be in a batch.
LEMMA ReadySound ==
  ASSUME Shape
  PROVE  /\ IsFiniteSet(Ready)
         /\ \A e \in Ready : /\ e \in EventRecord
                             /\ e.who = Listener \/ e.who \in Members
         /\ \A e, f \in Ready : e.who = f.who => e = f
  <1> DEFINE J == {j \in DOMAIN clients : Flags(clients[j]) # {}}
             E(i) == [who |-> clients[i], fl |-> Flags(clients[i])]
             A == {E(i) : i \in J}
             L == IF backlog # <<>> THEN {[who |-> Listener, fl |-> {"IN"}]} ELSE {}
  <1>1. Ready = A \cup L
    BY DEF Ready
  <1>2. \A p : Flags(p) \in SUBSET {"IN", "OUT", "ERR"}
    BY DEF Flags
  <1>3. IsFiniteSet(A)
    <2>1. Len(clients) \in Nat /\ DOMAIN clients = 1 .. Len(clients)
      BY LenProperties DEF Shape
    <2>2. IsFiniteSet(DOMAIN clients)
      BY <2>1, FS_Interval
    <2>3. IsFiniteSet(J)
      BY <2>2, FS_Subset
    <2>4. [i \in J |-> E(i)] \in Surjection(J, A)
      BY Zenon DEF Surjection
    <2> QED
      BY <2>3, <2>4, FS_Surjection
  <1>4. IsFiniteSet(L)
    BY FS_EmptySet, FS_Singleton, Zenon
  <1>5. IsFiniteSet(Ready)
    BY <1>1, <1>3, <1>4, FS_Union, Zenon
  <1>6. \A i \in DOMAIN clients : clients[i] \in Peer /\ clients[i] \in Members
    BY ElementOfSeq, LenProperties DEF Shape, Members
  <1>7. \A e \in Ready : e \in EventRecord /\ (e.who = Listener \/ e.who \in Members)
    BY <1>1, <1>2, <1>6 DEF EventRecord
  <1>8. ASSUME NEW e \in Ready, NEW f \in Ready, e.who = f.who
        PROVE  e = f
    <2>1. \A g \in A : g.who \in Peer /\ g = [who |-> g.who, fl |-> Flags(g.who)]
      BY <1>6
    <2>2. \A g \in L : g.who = Listener /\ g = [who |-> Listener, fl |-> {"IN"}]
      OBVIOUS
    <2> HIDE DEF A, L
    <2> QED
      BY <1>1, <1>8, <2>1, <2>2, LoopAssumption
  <1> QED
    BY <1>5, <1>7, <1>8

\* The batch of a round: live clients, each at most once.
LEMMA BatchSound ==
  ASSUME Shape, NEW b \in Orders, NEW n \in 0 .. Cardinality(Ready)
  PROVE  /\ b \in Seq(Ready) /\ Len(b) = Cardinality(Ready)
         /\ SubSeq(b, 1, n) \in Seq(EventRecord)
         /\ \A i \in DOMAIN SubSeq(b, 1, n) :
              SubSeq(b, 1, n)[i].who # Listener =>
                /\ SubSeq(b, 1, n)[i].who \in Members
                /\ \A j \in DOMAIN SubSeq(b, 1, n) :
                     SubSeq(b, 1, n)[j].who = SubSeq(b, 1, n)[i].who => i = j
  <1> DEFINE N == Cardinality(Ready)
             s == SubSeq(b, 1, n)
  <1>1. N \in Nat
    BY ReadySound, FS_CardinalityType
  <1>2. b \in [1 .. N -> Ready] /\ \A i, j \in 1 .. N : b[i] = b[j] => i = j
    BY DEF Orders
  <1> HIDE DEF N
  <1>3. b \in Seq(Ready) /\ Len(b) = N
    BY <1>1, <1>2, SeqDef, LenProperties
  <1>4. n \in 0 .. N
    BY DEF N
  <1>5. s \in Seq(Ready) /\ Len(s) = n /\ \A i \in 1 .. n : s[i] = b[i]
    BY <1>1, <1>3, <1>4, SubSeqProperties
  <1>6. DOMAIN s = 1 .. n
    BY <1>5, LenProperties
  <1> HIDE DEF s
  <1>7. \A i \in 1 .. n : s[i] = b[i] /\ b[i] \in Ready /\ i \in 1 .. N
    BY <1>1, <1>2, <1>4, <1>5
  <1>8. s \in Seq(EventRecord)
    BY <1>5, <1>6, <1>7, <1>4, <1>1, ReadySound, SeqDef
  <1>9. \A i, j \in 1 .. n : s[j].who = s[i].who => i = j
    BY <1>2, <1>7, ReadySound
  <1>10. \A i \in 1 .. n : s[i].who # Listener => s[i].who \in Members
    BY <1>7, ReadySound
  <1> QED
    BY <1>3, <1>6, <1>8, <1>9, <1>10 DEF N, s

\* The peers and the kernel touch neither the array nor the events.
LEMMA OutsideStep ==
  ASSUME LoopInv, PeerStep \/ on_signal
  PROVE  LoopInv'
  <1>1. UNCHANGED <<pc, batch, clients, client, io, unarmed>>
    BY Zenon DEF PeerStep, Connect, Send, Shut, Reset, Discard, Receive, on_signal,
           server, env, history
  <1>2. Members' = Members
    BY <1>1 DEF Members
  <1>3. Round' /\ Watch'
    BY <1>1, <1>2 DEF LoopInv, Round, Watch, NoStaleEvent, Pending
  <1>4. Shape'
    <2> USE DEF LoopInv
    <2>1. ASSUME NEW p \in Peer, Connect(p)
          PROVE  Shape'
      <3>1. /\ link' = [link EXCEPT ![p].phase = "queued"]
            /\ backlog' = Append(backlog, p) /\ link[p].phase = "idle"
        BY <2>1 DEF Connect
      <3>2. \A q \in Peer : link'[q].phase = IF q = p THEN "queued" ELSE link[q].phase
        BY <3>1 DEF Shape
      <3>3. DOMAIN link' = Peer /\ \A q \in Peer : "phase" \in DOMAIN link'[q]
        BY <3>1 DEF Shape
      <3>4. p \notin Members /\ \A i \in DOMAIN backlog : backlog[i] # p /\ backlog[i] \in Peer
        BY <3>1, Ranges DEF Shape
      <3>5. /\ backlog' \in Seq(Peer) /\ DOMAIN backlog' = 1 .. Len(backlog) + 1
            /\ \A i \in DOMAIN backlog' :
                 backlog'[i] = IF i \in DOMAIN backlog THEN backlog[i] ELSE p
            /\ DOMAIN backlog = 1 .. Len(backlog) /\ Len(backlog) \in Nat
        BY <3>1, AppendProperties, LenProperties DEF Shape
      <3>6. \A i, j \in DOMAIN backlog' : backlog'[i] = backlog'[j] => i = j
        BY <3>4, <3>5 DEF Shape
      <3>7. \A i \in DOMAIN backlog' : link'[backlog'[i]].phase = "queued"
        BY <3>2, <3>4, <3>5 DEF Shape
      <3>8. \A q \in Members : q \in Peer
        BY Ranges
      <3> QED
        BY <1>1, <1>2, <3>2, <3>3, <3>4, <3>5, <3>6, <3>7, <3>8, SMTT(30) DEF Shape
    <2>2. ASSUME /\ backlog' = backlog /\ DOMAIN link' = DOMAIN link
                 /\ \A q \in Peer : /\ "phase" \in DOMAIN link'[q]
                                   /\ link'[q].phase = link[q].phase
          PROVE  Shape'
      <3>1. \A q \in Members : q \in Peer
        BY Ranges
      <3>2. \A i \in DOMAIN backlog : backlog[i] \in Peer
        BY Ranges
      <3> QED
        BY <1>1, <1>2, <2>2, <3>1, <3>2 DEF Shape
    <2>3. ASSUME NEW p \in Peer,
                 Send(p) \/ Shut(p) \/ Reset(p) \/ Discard(p) \/ Receive(p)
          PROVE  Shape'
      <3>1. backlog' = backlog
        BY <2>3 DEF Send, Shut, Reset, Discard, Receive
      <3>2. /\ DOMAIN link' = DOMAIN link
            /\ \A q \in Peer : "phase" \in DOMAIN link'[q] /\ link'[q].phase = link[q].phase
        <4> USE DEF Shape
        <4>1. CASE Send(p)
          BY <4>1 DEF Send
        <4>2. CASE Shut(p)
          BY <4>2 DEF Shut
        <4>3. CASE Reset(p)
          BY <4>3 DEF Reset
        <4>4. CASE Discard(p)
          BY <4>4 DEF Discard
        <4>5. CASE Receive(p)
          BY <4>5 DEF Receive
        <4> QED
          BY <2>3, <4>1, <4>2, <4>3, <4>4, <4>5, SMTT(30)
      <3> QED
        BY <2>2, <3>1, <3>2, SMTT(30)
    <2>4. ASSUME on_signal PROVE Shape'
      BY <2>2, <2>4 DEF on_signal, Shape
    <2> QED
      BY <2>1, <2>3, <2>4 DEF PeerStep
  <1> QED
    BY <1>3, <1>4, SMTT(30) DEF LoopInv

\* A new round.
LEMMA WaitStep ==
  ASSUME LoopInv, Wait
  PROVE  LoopInv'
  <1>1. UNCHANGED <<clients, client, backlog, link, io, unarmed>> /\ pc' = "events" /\ pc = "wait"
    BY DEF Wait, env, history
  <1>2. Members' = Members
    BY <1>1 DEF Members
  <1>3. Shape' /\ Watch'
    BY <1>1, <1>2 DEF LoopInv, Shape, Watch, Pending
  <1>4. Cardinality(Ready) \in Nat
    BY ReadySound, FS_CardinalityType DEF LoopInv
  <1>5. \E b \in Orders : \E n \in 0 .. Cardinality(Ready) : batch' = SubSeq(b, 1, n)
    <2>1. CASE io = "epoll"
      <3> DEFINE n == IF Cardinality(Ready) < EPOLL_MAX_EVENTS THEN Cardinality(Ready)
                      ELSE EPOLL_MAX_EVENTS
      <3>1. PICK b \in Orders : batch' = SubSeq(b, 1, n)
        BY <2>1, Zenon DEF Wait, epoll_wait
      <3>2. n \in 0 .. Cardinality(Ready)
        BY <1>4, LoopAssumption
      <3> QED
        BY <3>1, <3>2
    <2>2. CASE io # "epoll"
      <3>1. PICK b \in Orders : batch' = b
        BY <2>2 DEF Wait, select
      <3>2. b \in Seq(Ready) /\ Len(b) = Cardinality(Ready)
        BY <1>4, BatchSound DEF LoopInv
      <3>3. SubSeq(b, 1, Len(b)) = b
        BY <3>2, SubSeqFull
      <3> QED
        BY <1>4, <3>1, <3>2, <3>3
    <2> QED
      BY <2>1, <2>2
  <1>6. Round'
    <2>1. PICK b \in Orders, n \in 0 .. Cardinality(Ready) : batch' = SubSeq(b, 1, n)
      BY <1>5
    <2>2. \A p \in Members : ~client[p].closing
      BY <1>1 DEF LoopInv, Round
    <2> QED
      BY <1>1, <1>2, <2>1, <2>2, BatchSound DEF LoopInv, Round, NoStaleEvent
  <1> QED
    BY <1>3, <1>6 DEF LoopInv

\* The events that are left once the first has been handled.
LEMMA TailFresh ==
  ASSUME Round, batch # <<>>, batch' = Tail(batch), Members \subseteq Members',
         \A q \in Members : q # Head(batch).who => client'[q].closing = client[q].closing
  PROVE  batch' \in Seq(EventRecord) /\ NoStaleEvent'
  <1>1. batch \in Seq(EventRecord) /\ Len(batch) \in Nat /\ DOMAIN batch = 1 .. Len(batch)
    BY LenProperties DEF Round
  <1>2. /\ batch' \in Seq(EventRecord) /\ Head(batch) = batch[1] /\ 1 \in DOMAIN batch
        /\ DOMAIN batch' = 1 .. Len(batch) - 1
        /\ \A i \in 1 .. Len(batch) - 1 : batch'[i] = batch[i + 1] /\ i + 1 \in DOMAIN batch
    BY <1>1, HeadTailProperties, LenProperties, EmptySeq
  <1>3. ASSUME NEW i \in DOMAIN batch', batch'[i].who # Listener
        PROVE  /\ batch'[i].who \in Members' /\ ~client'[batch'[i].who].closing
               /\ \A j \in DOMAIN batch' : batch'[j].who = batch'[i].who => i = j
    <2>1. /\ batch[i + 1].who \in Members /\ ~client[batch[i + 1].who].closing
          /\ \A j \in DOMAIN batch : batch[j].who = batch[i + 1].who => i + 1 = j
      BY <1>2, <1>3 DEF Round, NoStaleEvent
    <2>2. batch[i + 1].who # Head(batch).who
      BY <1>1, <1>2, <2>1
    <2>3. \A j \in DOMAIN batch' : batch'[j].who = batch'[i].who => i = j
      BY <1>1, <1>2, <2>1
    <2> QED
      BY <1>2, <2>1, <2>2, <2>3
  <1> QED
    BY <1>2, <1>3 DEF NoStaleEvent

\* A handler that leaves the array alone and changes the client of its event only.
LEMMA HandlerStep ==
  ASSUME LoopInv, pc = "events", UNCHANGED <<pc, clients, backlog, io>>,
         batch # <<>>, batch' = Tail(batch),
         NEW p \in Members, Head(batch).who = p,
         NEW c, client' = [client EXCEPT ![p] = c], DOMAIN c = Fields, c.closing \in BOOLEAN,
         DOMAIN link' = DOMAIN link,
         \A q \in Peer : "phase" \in DOMAIN link'[q] /\ link'[q].phase = link[q].phase,
         unarmed \subseteq unarmed',
         (io = "epoll" /\ p \notin unarmed') =>
           (c.closing \/ ("OUT" \in c.events <=> Pending(c)))
  PROVE  LoopInv'
  <1>1. Members' = Members
    BY DEF Members
  <1>2. Members \subseteq Peer
    BY Ranges DEF LoopInv
  <1>3. client'[p] = c /\ \A q \in Peer \ {p} : client'[q] = client[q]
    BY <1>2 DEF LoopInv, Shape
  <1>4. Shape'
    <2>1. \A i \in DOMAIN backlog : backlog[i] \in Peer
      BY Ranges DEF LoopInv
    <2>2. DOMAIN client' = Peer
      BY DEF LoopInv, Shape
    <2> QED
      BY <1>1, <1>2, <1>3, <2>1, <2>2 DEF LoopInv, Shape
  <1>5. Round'
    <2>1. batch' \in Seq(EventRecord) /\ NoStaleEvent'
      BY <1>1, <1>2, <1>3, TailFresh DEF LoopInv
    <2> QED
      BY <2>1 DEF Round
  <1>6. Watch'
    BY <1>1, <1>2, <1>3 DEF LoopInv, Watch
  <1> QED
    BY <1>4, <1>5, <1>6 DEF LoopInv

\* The client of the event at the head of the batch.
LEMMA ServedClient ==
  ASSUME LoopInv, NEW p \in Peer, Serving(p)
  PROVE  /\ pc = "events" /\ batch # <<>> /\ Head(batch).who = p
         /\ p \in Members /\ ~client[p].closing /\ DOMAIN client[p] = Fields
  <1>1. batch \in Seq(EventRecord) /\ batch # <<>>
    BY DEF LoopInv, Round, Serving
  <1>2. Head(batch) = batch[1] /\ 1 \in DOMAIN batch
    BY <1>1, HeadTailProperties, LenProperties, EmptySeq
  <1> QED
    BY <1>2, LoopAssumption DEF LoopInv, Shape, Round, NoStaleEvent, Serving

LEMMA HangUpStep ==
  ASSUME LoopInv, NEW p \in Peer, HangUp(p)
  PROVE  LoopInv'
  <1> DEFINE c == [client[p] EXCEPT !.closing = TRUE]
  <1>1. Serving(p) /\ batch' = Tail(batch) /\ UNCHANGED <<pc, clients, backlog, io, link, unarmed>>
    BY DEF HangUp, env
  <1>2. client' = [client EXCEPT ![p] = c]
    BY DEF HangUp, LoopInv, Shape
  <1>3. DOMAIN c = Fields /\ c.closing = TRUE
    BY DEF LoopInv, Shape, Fields
  <1> HIDE DEF c
  <1>4. \A q \in Peer : "phase" \in DOMAIN link'[q] /\ link'[q].phase = link[q].phase
    BY <1>1 DEF LoopInv, Shape
  <1> QED
    BY <1>1, <1>2, <1>3, <1>4, ServedClient, HandlerStep, Zenon

LEMMA HandleClientStep ==
  ASSUME LoopInv, NEW p \in Peer, HandleClient(p)
  PROVE  LoopInv'
  <1> DEFINE
        fl == Head(batch).fl
        c == client[p]
        r == IF "IN" \in fl THEN read_client(p)
             ELSE [in |-> c.in, out |-> c.out, done |-> done[p], read |-> link[p].read,
                   why |-> "none", ret |-> "stay"]
        failed == r.ret = "fail"
        quit == ~failed /\ r.why = "quit"
        broken == ~failed /\ ~quit /\ "OUT" \in fl /\ Len(r.out) > c.out_sent /\ link[p].rst
        closing == failed \/ quit \/ broken
        writes == ~link[p].rst /\ Writes(fl, closing)
        w == IF writes THEN write_client(p, r.out, c.out_sent)
             ELSE [out |-> r.out, out_sent |-> c.out_sent, tx |-> link[p].tx]
        c1 == [in |-> r.in, out |-> r.out, out_sent |-> c.out_sent, closing |-> closing,
               events |-> c.events]
        c2 == [in |-> r.in, out |-> w.out, out_sent |-> w.out_sent, closing |-> closing,
               events |-> c.events]
        mod1 == IF "IN" \in fl /\ ~failed THEN client_update_epoll(c1) ELSE c.events
        mod2 == IF "OUT" \in fl /\ ~closing THEN client_update_epoll(c2) ELSE mod1
  <1>1. /\ Serving(p) /\ ~("ERR" \in fl /\ "IN" \notin fl) /\ batch' = Tail(batch)
        /\ UNCHANGED <<pc, clients, backlog, io>>
        /\ link' = [link EXCEPT ![p].read = r.read, ![p].tx = w.tx]
    BY Zenon DEF HandleClient, AfterRead, Read, env
  <1>2. \E e : /\ client' = [client EXCEPT ![p] = [c2 EXCEPT !.events = e]]
               /\ \/ unarmed' = unarmed /\ (io = "epoll" => e = mod2)
                  \/ unarmed' = unarmed \cup {p}
    <2>1. CASE /\ client' = [client EXCEPT ![p] =
                     [c2 EXCEPT !.events = IF io = "epoll" THEN mod2 ELSE @]]
               /\ unarmed' = unarmed
      <3> HIDE DEF fl, r, failed, quit, broken, closing, writes, w, c1, mod1, mod2
      <3> QED
        BY <2>1, Zenon
    <2>2. CASE /\ \E e \in {c.events, mod1} \ {mod2} :
                    client' = [client EXCEPT ![p] = [c2 EXCEPT !.events = e]]
               /\ unarmed' = unarmed \cup {p}
      <3> HIDE DEF fl, r, failed, quit, broken, closing, writes, w, c1, mod1, mod2
      <3> QED
        BY <2>2, Zenon
    <2>3. \/ /\ client' = [client EXCEPT ![p] =
                     [c2 EXCEPT !.events = IF io = "epoll" THEN mod2 ELSE @]]
             /\ unarmed' = unarmed
          \/ /\ \E e \in {c.events, mod1} \ {mod2} :
                  client' = [client EXCEPT ![p] = [c2 EXCEPT !.events = e]]
             /\ unarmed' = unarmed \cup {p}
      BY Zenon DEF HandleClient, AfterRead, Read
    <2> QED
      BY <2>1, <2>2, <2>3, Zenon
  <1>3. /\ pc = "events" /\ batch # <<>> /\ Head(batch).who = p
        /\ p \in Members /\ ~c.closing
    BY <1>1, ServedClient
  <1>4. /\ DOMAIN link' = DOMAIN link
        /\ \A q \in Peer : "phase" \in DOMAIN link'[q] /\ link'[q].phase = link[q].phase
    BY <1>1 DEF LoopInv, Shape
  <1>5. closing \in BOOLEAN
    BY SMTT(30)
  <1>6. ASSUME io = "epoll", p \notin unarmed, ~closing
        PROVE  "OUT" \in mod2 <=> Len(w.out) > w.out_sent
    <2>1. CASE "OUT" \in fl
      BY <1>6, <2>1, ZenonT(40) DEF client_update_epoll, Pending
    <2>2. CASE "OUT" \notin fl
      <3>1. ~writes
        BY <1>6, <2>2, SMTT(30) DEF Writes
      <3>2. w.out = r.out /\ w.out_sent = c.out_sent
        BY <3>1, ZenonT(40)
      <3>3. CASE "IN" \in fl
        BY <1>6, <2>2, <3>2, <3>3, ZenonT(40) DEF client_update_epoll, Pending
      <3>4. CASE "IN" \notin fl
        <4>1. r.out = c.out /\ mod2 = c.events
          BY <2>2, <3>4, ZenonT(40)
        <4>2. "OUT" \in c.events <=> Len(c.out) > c.out_sent
          BY <1>3, <1>6 DEF LoopInv, Watch, Pending
        <4> QED
          BY <3>2, <4>1, <4>2, ZenonT(40)
      <3> QED
        BY <3>3, <3>4, ZenonT(40)
    <2> QED
      BY <2>1, <2>2, ZenonT(40)
  <1> HIDE DEF fl, r, failed, quit, broken, closing, writes, w, mod1, mod2
  <1> DEFINE K(e) == [c2 EXCEPT !.events = e]
  <1>7. \A e : /\ DOMAIN K(e) = Fields /\ K(e).closing = closing /\ K(e).events = e
               /\ Pending(K(e)) <=> Len(w.out) > w.out_sent
    BY DEF Fields, Pending
  <1>8. PICK e : /\ client' = [client EXCEPT ![p] = K(e)]
                 /\ \/ unarmed' = unarmed /\ (io = "epoll" => e = mod2)
                    \/ unarmed' = unarmed \cup {p}
    BY <1>2, Zenon
  <1> HIDE DEF K, c2
  <1>9. (io = "epoll" /\ p \notin unarmed') =>
           (K(e).closing \/ ("OUT" \in K(e).events <=> Pending(K(e))))
    BY <1>6, <1>7, <1>8
  <1>10. K(e).closing \in BOOLEAN /\ DOMAIN K(e) = Fields /\ unarmed \subseteq unarmed'
    BY <1>5, <1>7, <1>8
  <1> QED
    BY <1>1, <1>3, <1>4, <1>8, <1>9, <1>10, HandlerStep, ZenonT(40)

\* A connection leaves the backlog and is refused or becomes a client.
LEMMA AcceptStep ==
  ASSUME LoopInv, accept_clients
  PROVE  LoopInv'
  <1> DEFINE p == Head(backlog)
             refused == (io = "select" /\ Len(clients) >= FdRoom) \/ Len(clients) >= MAX_CLIENTS
  <1>1. /\ backlog # <<>> /\ backlog' = Tail(backlog) /\ UNCHANGED <<pc, batch, io, unarmed>>
        /\ pc = "events"
    BY DEF accept_clients, Serving, env
  <1>2. /\ backlog \in Seq(Peer) /\ backlog' \in Seq(Peer) /\ p = backlog[1] /\ p \in Peer
        /\ 1 \in DOMAIN backlog
        /\ \A i \in DOMAIN backlog' : /\ i + 1 \in DOMAIN backlog /\ i \in Nat \ {0}
                                     /\ backlog'[i] = backlog[i + 1]
    BY <1>1, HeadTailProperties, LenProperties, EmptySeq DEF LoopInv, Shape
  <1>3. link[p].phase = "queued" /\ p \notin Members /\ client[p] = client_init
    BY <1>2 DEF LoopInv, Shape
  <1>4. /\ \A i, j \in DOMAIN backlog' : backlog'[i] = backlog'[j] => i = j
        /\ \A i \in DOMAIN backlog' : /\ backlog'[i] \in Peer \ {p}
                                     /\ link[backlog'[i]].phase = "queued"
    <2>1. \A i \in DOMAIN backlog' : /\ backlog'[i] \in Peer /\ backlog'[i] # p
                                    /\ link[backlog'[i]].phase = "queued"
      <3> SUFFICES ASSUME NEW i \in DOMAIN backlog'
                   PROVE  /\ backlog[i + 1] \in Peer /\ backlog[i + 1] # backlog[1]
                          /\ link[backlog[i + 1]].phase = "queued"
        BY <1>2
      <3>1. i + 1 \in DOMAIN backlog /\ 1 \in DOMAIN backlog /\ i + 1 # 1
        BY <1>2
      <3> QED
        BY <3>1, Ranges DEF LoopInv, Shape
    <2>2. \A i, j \in DOMAIN backlog' : backlog'[i] = backlog'[j] => i = j
      BY <1>2, SMTT(30) DEF LoopInv, Shape
    <2> QED
      BY <2>1, <2>2, SMTT(30)
  <1>5. Members \subseteq Peer
    BY Ranges DEF LoopInv
  <1>6. \/ refused /\ UNCHANGED <<clients, client>>
        \/ /\ ~refused /\ clients' = Append(clients, p)
           /\ \/ client' = [client EXCEPT ![p].events = IF io = "epoll" THEN {"IN"} ELSE {}]
              \/ client' = [client EXCEPT ![p].closing = TRUE]
    BY DEF accept_clients
  <1>7. /\ DOMAIN link' = Peer
        /\ \A q \in Peer : "phase" \in DOMAIN link'[q]
        /\ \A q \in Peer \ {p} : link'[q] = link[q]
        /\ ~refused => link'[p].phase = "open"
    <2>1. CASE refused
      <3>1. \E t : link' = [link EXCEPT ![p].phase = "closed", ![p].tx = t]
        BY <2>1, Zenon DEF accept_clients
      <3>2. PICK t : link' = [link EXCEPT ![p].phase = "closed", ![p].tx = t]
        BY <3>1, Zenon
      <3> HIDE DEF p
      <3> QED
        BY <1>2, <2>1, <3>2 DEF LoopInv, Shape
    <2>2. CASE ~refused
      <3>1. link' = [link EXCEPT ![p].phase = "open"]
        BY <2>2 DEF accept_clients
      <3> HIDE DEF p
      <3> QED
        BY <1>2, <2>2, <3>1 DEF LoopInv, Shape
    <2> QED
      BY <2>1, <2>2
  <1> HIDE DEF p, refused
  <1>8. /\ clients' \in Seq(Peer)
        /\ \/ refused /\ Members' = Members
           \/ ~refused /\ Members' = Members \cup {p}
    <2>1. CASE refused
      BY <1>6, <2>1 DEF LoopInv, Shape, Members
    <2>2. CASE ~refused
      <3>1. /\ clients' \in Seq(Peer) /\ DOMAIN clients = 1 .. Len(clients) /\ Len(clients) \in Nat
            /\ DOMAIN clients' = 1 .. Len(clients) + 1 /\ clients'[Len(clients) + 1] = p
            /\ \A i \in 1 .. Len(clients) : clients'[i] = clients[i]
        <4>1. clients \in Seq(Peer) /\ clients' = Append(clients, p) /\ p \in Peer
          BY <1>2, <1>6, <2>2 DEF LoopInv, Shape
        <4>2. clients' \in Seq(Peer) /\ Len(clients') = Len(clients) + 1
          BY <4>1, AppendProperties
        <4> QED
          BY <4>1, <4>2, AppendProperties, LenProperties
      <3>2. DOMAIN clients' = DOMAIN clients \cup {Len(clients) + 1}
        BY <3>1
      <3> QED
        BY <2>2, <3>1, <3>2 DEF Members
    <2> QED
      BY <2>1, <2>2
  <1>9. /\ DOMAIN client' = Peer
        /\ \A q \in Peer \ {p} : client'[q] = client[q]
        /\ refused => client'[p] = client_init
        /\ DOMAIN client'[p] = Fields /\ client'[p].closing \in BOOLEAN
        /\ io = "epoll" => client'[p].closing \/ client'[p] = client_init
                            \/ client'[p] = [client_init EXCEPT !.events = {"IN"}]
    <2> USE DEF Fields, LoopInv, Shape
    <2>1. CASE refused
      BY <1>2, <1>3, <1>6, <2>1
    <2>2. CASE client' = [client EXCEPT ![p].events = IF io = "epoll" THEN {"IN"} ELSE {}]
      BY <1>2, <1>3, <2>2, <1>6, ZenonT(40) DEF client_init
    <2>3. CASE client' = [client EXCEPT ![p].closing = TRUE]
      BY <1>2, <1>3, <2>3, <1>6 DEF client_init
    <2> QED
      BY <1>6, <2>1, <2>2, <2>3
  <1>10. Shape'
    <2>1. \A i \in DOMAIN backlog' : link'[backlog'[i]].phase = "queued"
      BY <1>4, <1>7
    <2>2. \A q \in Members' : link'[q].phase = "open"
      BY <1>3, <1>5, <1>7, <1>8 DEF LoopInv, Shape
    <2>3. \A q \in Peer \ Members' : client'[q] = client_init
      BY <1>3, <1>5, <1>8, <1>9 DEF LoopInv, Shape
    <2>4. \A q \in Peer : DOMAIN client'[q] = Fields /\ client'[q].closing \in BOOLEAN
      BY <1>9, SMTT(30) DEF LoopInv, Shape
    <2> QED
      BY <1>2, <1>4, <1>7, <1>8, <1>9, <2>1, <2>2, <2>3, <2>4 DEF Shape
  <1>11. Round'
    <2>1. Members \subseteq Members' /\ \A q \in Members : client'[q] = client[q]
      BY <1>3, <1>5, <1>8, <1>9
    <2> QED
      BY <1>1, <2>1 DEF LoopInv, Round, NoStaleEvent
  <1>12. Watch'
    <2>1. ASSUME io = "epoll"
          PROVE  client'[p].closing \/ ("OUT" \in client'[p].events <=> Pending(client'[p])) \/ refused
      <3>1. CASE client'[p] = [client_init EXCEPT !.events = {"IN"}]
        BY <3>1, SMTT(30) DEF client_init, Pending
      <3>2. CASE client'[p] = client_init
        BY <3>2, SMTT(30) DEF client_init, Pending
      <3> QED
        BY <1>9, <2>1, <3>1, <3>2
    <2> QED
      BY <1>1, <1>3, <1>5, <1>8, <1>9, <2>1 DEF LoopInv, Watch
  <1> QED
    BY <1>10, <1>11, <1>12 DEF LoopInv

LEMMA AcceptEndsStep ==
  ASSUME LoopInv, AcceptEnds
  PROVE  LoopInv'
  <1>1. /\ pc = "events" /\ batch # <<>> /\ batch' = Tail(batch)
        /\ UNCHANGED <<pc, clients, client, backlog, link, io, unarmed>>
    BY DEF AcceptEnds, Serving, env
  <1>2. Members' = Members
    BY <1>1, SMTT(30) DEF Members
  <1>3. batch' \in Seq(EventRecord) /\ NoStaleEvent'
    BY <1>1, <1>2, TailFresh DEF LoopInv
  <1> QED
    BY <1>1, <1>2, <1>3 DEF LoopInv, Shape, Round, Watch, Pending

\* The array afterwards holds exactly the clients that were not closing.
LEMMA CompactStep ==
  ASSUME LoopInv, compact_clients
  PROVE  LoopInv'
  <1> DEFINE keep == {i \in DOMAIN clients : ~client[clients[i]].closing}
  <1>1. /\ batch = <<>> /\ pc' = "wait" /\ UNCHANGED <<batch, backlog, io, unarmed>>
        /\ link' = [p \in Peer |-> IF client[p].closing THEN [link[p] EXCEPT !.phase = "closed"]
                                  ELSE link[p]]
        /\ client' = [p \in Peer |-> IF client[p].closing THEN client_init ELSE client[p]]
    BY DEF compact_clients, env, history
  <1>2. PICK at \in [1 .. Cardinality(keep) -> keep] :
          /\ \A i \in keep : \E w \in DOMAIN at : at[w] = i
          /\ clients' = [w \in DOMAIN at |-> clients[at[w]]]
    BY ZenonT(40) DEF compact_clients
  <1>3. /\ Len(clients) \in Nat /\ DOMAIN clients = 1 .. Len(clients) /\ Members \subseteq Peer
        /\ \A i \in DOMAIN clients : clients[i] \in Peer
    BY Ranges DEF LoopInv
  <1>4. Cardinality(keep) \in Nat
    <2>1. IsFiniteSet(DOMAIN clients)
      BY <1>3, FS_Interval, SMTT(30)
    <2> QED
      BY <2>1, FS_Subset, FS_CardinalityType
  <1>5. \A w \in 1 .. Cardinality(keep) : at[w] \in keep /\ clients'[w] = clients[at[w]]
    BY <1>2
  <1>6. DOMAIN clients' = 1 .. Cardinality(keep)
    BY <1>2
  <1>7. clients' \in Seq(Peer)
    <2>1. clients' \in [1 .. Cardinality(keep) -> Peer]
      BY <1>2, <1>3
    <2> HIDE DEF keep
    <2> QED
      BY <1>4, <2>1, SeqDef, SMTT(30)
  <1>8. Members' = {q \in Members : ~client[q].closing}
    <2>1. ASSUME NEW q \in Members' PROVE q \in Members /\ ~client[q].closing
      <3>1. PICK w \in 1 .. Cardinality(keep) : q = clients'[w]
        BY <1>6, SMTT(30) DEF Members
      <3>2. at[w] \in keep /\ q = clients[at[w]]
        BY <1>5, <3>1, SMTT(30)
      <3> QED
        BY <3>2 DEF Members
    <2>2. ASSUME NEW q \in Members, ~client[q].closing PROVE q \in Members'
      <3>1. PICK i \in keep : clients[i] = q
        BY <2>2 DEF Members
      <3>2. PICK w \in 1 .. Cardinality(keep) : at[w] = i
        BY <1>2
      <3> QED
        BY <1>5, <1>6, <3>1, <3>2, Zenon DEF Members
    <2> QED
      BY <2>1, <2>2, SMTT(30)
  <1> HIDE DEF keep
  <1>9. client_init.closing = FALSE /\ DOMAIN client_init = Fields
    BY DEF client_init, Fields
  <1>10. \A q \in Peer : /\ ~client'[q].closing /\ client'[q].closing \in BOOLEAN
                         /\ DOMAIN client'[q] = Fields
    BY <1>1, <1>9, ZenonT(40) DEF LoopInv, Shape
  <1>11. Shape'
    <2>1. \A q \in Members' : link'[q].phase = "open"
      BY <1>1, <1>3, <1>8 DEF LoopInv, Shape
    <2>2. \A q \in Peer \ Members' : client'[q] = client_init
      BY <1>1, <1>8 DEF LoopInv, Shape
    <2>3. \A i \in DOMAIN backlog' : link'[backlog'[i]].phase = "queued"
      <3>1. ASSUME NEW i \in DOMAIN backlog
            PROVE  backlog[i] \in Peer /\ ~client[backlog[i]].closing /\ link[backlog[i]].phase = "queued"
        <4>1. backlog[i] \in Peer /\ link[backlog[i]].phase = "queued"
          BY Ranges, SMTT(30) DEF LoopInv, Shape
        <4>2. backlog[i] \notin Members
          BY <4>1 DEF LoopInv, Shape
        <4> QED
          BY <1>9, <4>1, <4>2, SMTT(30) DEF LoopInv, Shape
      <3> QED
        BY <1>1, <3>1
    <2>4. \A q \in Peer : "phase" \in DOMAIN link'[q]
      BY <1>1 DEF LoopInv, Shape
    <2>5. DOMAIN link' = Peer /\ DOMAIN client' = Peer
      BY <1>1
    <2> QED
      BY <1>1, <1>7, <1>10, <2>1, <2>2, <2>3, <2>4, <2>5 DEF LoopInv, Shape
  <1>12. Round'
    BY <1>1, <1>3, <1>8, <1>10 DEF LoopInv, Round, NoStaleEvent
  <1>13. Watch'
    BY <1>1, <1>3, <1>8 DEF LoopInv, Watch
  <1> QED
    BY <1>11, <1>12, <1>13 DEF LoopInv

LEMMA StopStep ==
  ASSUME LoopInv, Stop
  PROVE  LoopInv'
  <1>1. /\ batch' = <<>> /\ pc' = "stopped" /\ clients' = <<>> /\ backlog' = <<>>
        /\ client' = [p \in Peer |-> client_init]
        /\ link' = [p \in Peer |-> IF link[p].phase \in {"queued", "open"}
                                  THEN [link[p] EXCEPT !.phase = "closed"] ELSE link[p]]
    BY DEF Stop, LoopInv, Round
  <1>2. Members' = {}
    BY <1>1, SMTT(30) DEF Members
  <1>3. DOMAIN client_init = Fields /\ client_init.closing \in BOOLEAN
    BY DEF client_init, Fields
  <1>4. DOMAIN link' = Peer /\ \A q \in Peer : "phase" \in DOMAIN link'[q]
    BY <1>1 DEF LoopInv, Shape
  <1>5. Shape'
    BY <1>1, <1>2, <1>3, <1>4 DEF Shape
  <1> QED
    BY <1>1, <1>2, <1>5 DEF LoopInv, Round, NoStaleEvent, Watch

LEMMA NextInv == LoopInv /\ [Next]_vars => LoopInv'
  <1> SUFFICES ASSUME LoopInv, [Next]_vars PROVE LoopInv'
    OBVIOUS
  <1>1. CASE UNCHANGED vars
    <2>1. UNCHANGED <<pc, batch, clients, client, backlog, link, io, unarmed>>
      BY <1>1 DEF vars, env, server, history
    <2>2. Members' = Members
      BY <2>1, SMTT(30) DEF Members
    <2>3. Shape'
      BY <2>1, <2>2, SMTT(30) DEF LoopInv, Shape
    <2>4. Round' /\ Watch'
      BY <2>1, <2>2 DEF LoopInv, Round, Watch, NoStaleEvent, Pending
    <2> QED
      BY <2>3, <2>4 DEF LoopInv
  <1>2. CASE ServerStep
    BY <1>2, WaitStep, AcceptStep, AcceptEndsStep, HangUpStep, HandleClientStep,
       CompactStep, StopStep DEF ServerStep
  <1> QED
    BY <1>1, <1>2, OutsideStep DEF Next

\* server.c 355-402: whatever the clients do and in whatever order the events of a
\* round are handled, none of them refers to a client that was freed or is closing.
THEOREM EventsStayGood == Spec => []NoStaleEvent
  <1>1. LoopInv => NoStaleEvent
    BY DEF LoopInv, Round
  <1> QED
    BY <1>1, InitInv, NextInv, PTL DEF Spec

\* server.c 323-336: when the epoll loop waits, EPOLLOUT is registered for exactly the
\* clients with pending output, whatever was read, answered, sent and closed.
THEOREM OutputIsWatched == Spec => []Armed
  <1>1. LoopInv => Armed
    BY DEF LoopInv, Round, Watch, Armed
  <1> QED
    BY <1>1, InitInv, NextInv, PTL DEF Spec
=============================================================================

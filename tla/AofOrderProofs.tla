--------------------------- MODULE AofOrderProofs ---------------------------
(***************************************************************************)
(* Proof that stops, crashes and torn frames never make the log of Aof     *)
(* replay a write twice or out of order.                                   *)
(***************************************************************************)
EXTENDS AofProofs

\* The part of a file that aof_replay reads, up to the first torn frame, holds
\* writes numbered at most n in increasing order.
Ordered(f, n) ==
    \A j \in 1 .. Len(f) :
      (\A k \in 1 .. j : f[k] # Torn) => f[j] <= n /\ \A i \in 1 .. j - 1 : f[i] < f[j]

\* An ordered dataset or buffer: no frame of it is torn.
Whole(s, n) == Ordered(s, n) /\ \A k \in 1 .. Len(s) : s[k] # Torn

\* The mishaps that NeverTwice tolerates.
Tolerated == {"crash_in_rewrite", "stop_in_rewrite", "torn_crash"}

\* The strengthening of NeverTwice. CleanInv with equality to the executed writes
\* weakened to order, and with what a crash or a stop leaves behind: a log that may
\* be torn or older than the dataset that was lost, and at most one orphaned rewrite
\* child that can still rename its file over the log while the server is down.
OrderInv ==
    LET n == Len(executed) IN
    /\ \A p, q \in Proc : Rewriting(p) /\ Rewriting(q) => p = q
    /\ \A c \in Child : pc[c] \in {"none", "save", "zombie", "open", "write", "rename"}
    /\ tmppath # aofpath
    /\ tmppath = g_aof_fd => tmppath = NoInode
    /\ \A p \in Proc :
         /\ pc[p] = "write" => tmpfd[p] = tmppath /\ file[tmppath] = <<>>
         /\ pc[p] = "rename" => tmppath # NoInode /\ file[tmppath] = snap[p]
         /\ Rewriting(p) => Whole(snap[p] \o g_rewrite_buf, n)
    /\ Up => Whole(store, n)
    /\ g_aof_rewriting => Up /\ ~Rewriting(Server)
    /\ ~g_aof_rewriting => (Up => ~LiveRewriter) /\ g_rewrite_buf = <<>>
    /\ Ordered(file[aofpath], n)
    /\ IF g_aof_rewriting /\ ~LiveRewriter
       THEN /\ g_aof_fd \in Inode /\ g_aof_fd # aofpath
            /\ Whole(file[aofpath] \o g_rewrite_buf, n)
       ELSE Up => g_aof_fd = aofpath

\* OrderInv holds until another mishap happens.
InOrder == mishaps \subseteq Tolerated => OrderInv
-----------------------------------------------------------------------------
\* The next write extends an ordered file (aof_append_command).
LEMMA OrderedAppend ==
    ASSUME NEW f \in Seq(Frame), NEW n \in Nat, Ordered(f, n)
    PROVE  Ordered(Append(f, n + 1), n + 1)
  BY DEF Ordered, Frame, Torn

\* A torn frame at its end leaves a file ordered (kill -9 inside write).
LEMMA OrderedTorn ==
    ASSUME NEW f \in Seq(Frame), NEW n \in Nat, Ordered(f, n)
    PROVE  Ordered(Append(f, Torn), n)
  BY DEF Ordered, Frame, Torn

\* An ordered file stays ordered when further writes are executed.
LEMMA OrderedLater ==
    ASSUME NEW f \in Seq(Frame), NEW n \in Nat, Ordered(f, n)
    PROVE  Ordered(f, n + 1)
  BY DEF Ordered, Frame

\* The next write extends an ordered dataset (dispatch_command).
LEMMA WholeAppend ==
    ASSUME NEW s \in Seq(Frame), NEW n \in Nat, Whole(s, n)
    PROVE  Whole(Append(s, n + 1), n + 1)
  <1>1. Ordered(Append(s, n + 1), n + 1)
    BY OrderedAppend DEF Whole
  <1>2. QED
    BY <1>1 DEF Whole, Torn, Frame

\* What precedes the rewrite buffer is ordered when the two together are.
LEMMA WholePrefix ==
    ASSUME NEW s \in Seq(Frame), NEW t \in Seq(Frame), NEW n \in Nat, Whole(s \o t, n)
    PROVE  Whole(s, n)
  <1>1. /\ Len(s \o t) = Len(s) + Len(t) /\ Len(s) \in Nat /\ Len(t) \in Nat
        /\ \A i \in 1 .. Len(s) : (s \o t)[i] = s[i]
    OBVIOUS
  <1>2. \A k \in 1 .. Len(s) : s[k] # Torn
    BY <1>1 DEF Whole
  <1>3. Ordered(s, n)
    <2> SUFFICES ASSUME NEW j \in 1 .. Len(s)
                 PROVE  s[j] <= n /\ \A i \in 1 .. j - 1 : s[i] < s[j]
      BY DEF Ordered
    <2>1. /\ j \in 1 .. Len(s \o t) /\ \A k \in 1 .. j : (s \o t)[k] # Torn
      BY <1>1, <1>2
    <2>2. (s \o t)[j] <= n /\ \A i \in 1 .. j - 1 : (s \o t)[i] < (s \o t)[j]
      BY <2>1, Zenon DEF Whole, Ordered
    <2>3. QED
      BY <1>1, <2>2
  <1>4. QED
    BY <1>2, <1>3 DEF Whole

\* Replaying an ordered file gives an ordered dataset (aof_replay).
LEMMA ReplayOrdered ==
    ASSUME NEW f \in Seq(Frame), NEW n \in Nat, Ordered(f, n)
    PROVE  Whole(Replay(f), n)
  <1> DEFINE bad == {i \in 1 .. Len(f) : f[i] = Torn}
             first == CHOOSE i \in bad : \A j \in bad : i <= j
  <1>1. CASE bad = {}
    <2>1. \A k \in 1 .. Len(f) : f[k] # Torn
      BY <1>1
    <2>2. QED
      BY <2>1, ReplayWhole DEF Whole
  <1>2. CASE bad # {}
    <2>1. \E m \in bad : \A k \in bad : m <= k
      <3>1. bad \in SUBSET Nat
        OBVIOUS
      <3> HIDE DEF bad
      <3> QED BY <1>2, <3>1, FirstPosition
    <2>2. first \in bad /\ \A j \in bad : first <= j
      <3> HIDE DEF bad
      <3> QED BY <2>1
    <2>3. Replay(f) = SubSeq(f, 1, first - 1)
      BY <1>2, Zenon DEF Replay
    <2>4. first \in 1 .. Len(f) /\ \A k \in 1 .. first - 1 : f[k] # Torn
      <3> HIDE DEF first
      <3> QED BY <2>2
    <2> HIDE DEF bad, first
    <2>5. /\ Len(SubSeq(f, 1, first - 1)) = first - 1
          /\ \A i \in 1 .. first - 1 : SubSeq(f, 1, first - 1)[i] = f[i]
      BY <2>4
    <2>6. \A j \in 1 .. first - 1 : f[j] <= n /\ \A i \in 1 .. j - 1 : f[i] < f[j]
      BY <2>4 DEF Ordered
    <2>7. QED
      BY <2>3, <2>4, <2>5, <2>6 DEF Whole, Ordered
  <1>3. QED
    BY <1>1, <1>2
-----------------------------------------------------------------------------
\* A dataset with an empty rewrite buffer behind it is the dataset.
LEMMA WholeAlone ==
    ASSUME NEW s \in Seq(Frame), NEW n \in Nat
    PROVE  Whole(s \o <<>>, n) <=> Whole(s, n)
  BY ConcatEmptySeq, Zenon

\* An executed write keeps everything in order: it has the next number, and is in
\* the log, in the dataset and, during a rewrite, in the buffer (server.c 493-512,
\* aof.c 73-88).
LEMMA WriteOrdered ==
    ASSUME TypeOK, OrderInv, dispatch_command, mishaps' \subseteq Tolerated
    PROVE  OrderInv'
  <1> USE AofAssumption DEF Proc
  <1> DEFINE n == Len(executed)
             w == n + 1
  <1>1. n \in Nat /\ w \in Frame
    BY DEF TypeOK, Frame
  <1>2. /\ pc[Server] = "serve" /\ Up /\ ~Rewriting(Server)
        /\ store' = Append(store, w)
        /\ executed' = Append(executed, w)
        /\ UNCHANGED <<pc, snap, tmpfd, g_aof_fd, g_aof_rewriting, aofpath, tmppath>>
    BY DEF dispatch_command, procVars, Up, Rewriting
  <1>3. g_aof_fd \in Inode
    BY <1>2 DEF OrderInv, TypeOK
  <1>4. /\ file' = [file EXCEPT ![g_aof_fd] = Append(@, w)]
        /\ g_rewrite_buf' = IF g_aof_rewriting THEN Append(g_rewrite_buf, w)
                                               ELSE g_rewrite_buf
    BY <1>3 DEF dispatch_command, aof_append_command, Note, Tolerated
  <1>5. Len(executed') = n + 1
    BY <1>2 DEF TypeOK
  <1> HIDE DEF n, w
  <1>6. Whole(store', n + 1)
    BY <1>1, <1>2, WholeAppend DEF OrderInv, TypeOK, n, w
  <1>7. \A s \in Seq(Frame) : g_aof_rewriting /\ Whole(s \o g_rewrite_buf, n)
                                => Whole(s \o g_rewrite_buf', n + 1)
    <2> SUFFICES ASSUME NEW s \in Seq(Frame), g_aof_rewriting, Whole(s \o g_rewrite_buf, n)
                 PROVE  Whole(s \o g_rewrite_buf', n + 1)
      OBVIOUS
    <2>1. g_rewrite_buf \in Seq(Frame) /\ s \o g_rewrite_buf \in Seq(Frame)
      BY ConcatProperties DEF TypeOK
    <2>2. s \o g_rewrite_buf' = Append(s \o g_rewrite_buf, w)
      BY <1>1, <1>4, <2>1, ConcatAppend
    <2>3. QED
      BY <1>1, <2>1, <2>2, WholeAppend DEF w
  <1>8. Ordered(file'[aofpath], n + 1)
    <2>1. file[aofpath] \in Seq(Frame) /\ Ordered(file[aofpath], n)
      BY DEF OrderInv, TypeOK, n
    <2>2. file'[aofpath] = IF aofpath = g_aof_fd THEN Append(file[aofpath], w)
                                                 ELSE file[aofpath]
      BY <1>4 DEF TypeOK
    <2>3. QED
      BY <1>1, <2>1, <2>2, OrderedAppend, OrderedLater DEF w
  <1>9. tmppath \in Inode => file'[tmppath] = file[tmppath]
    BY <1>3, <1>4 DEF OrderInv, TypeOK
  <1>10. g_aof_rewriting /\ ~LiveRewriter => Whole(file'[aofpath] \o g_rewrite_buf', n + 1)
    <2> SUFFICES ASSUME g_aof_rewriting, ~LiveRewriter
                 PROVE  Whole(file'[aofpath] \o g_rewrite_buf', n + 1)
      OBVIOUS
    <2>1. g_aof_fd # aofpath /\ Whole(file[aofpath] \o g_rewrite_buf, n)
      BY DEF OrderInv, n
    <2>2. file'[aofpath] = file[aofpath] /\ file[aofpath] \in Seq(Frame)
      BY <1>4, <2>1 DEF TypeOK
    <2>3. QED
      BY <1>7, <2>1, <2>2
  <1>11. \A p \in Proc : Rewriting(p) => Whole(snap[p] \o g_rewrite_buf', n + 1)
    <2> SUFFICES ASSUME NEW p \in Proc, Rewriting(p)
                 PROVE  Whole(snap[p] \o g_rewrite_buf', n + 1)
      OBVIOUS
    <2>1. LiveRewriter
      BY <1>2 DEF LiveRewriter
    <2>2. g_aof_rewriting
      BY <1>2, <2>1 DEF OrderInv
    <2>3. Whole(snap[p] \o g_rewrite_buf, n) /\ snap[p] \in Seq(Frame)
      BY DEF OrderInv, TypeOK, n
    <2>4. QED
      BY <1>7, <2>2, <2>3
  <1>12. /\ \A p \in Proc : Rewriting(p)' <=> Rewriting(p)
         /\ LiveRewriter' <=> LiveRewriter
         /\ Up' <=> Up
    BY <1>2 DEF Rewriting, LiveRewriter, Up
  <1>13. \A p \in Proc :
           /\ pc'[p] = "write" => tmpfd'[p] = tmppath' /\ file'[tmppath'] = <<>>
           /\ pc'[p] = "rename" => tmppath' # NoInode /\ file'[tmppath'] = snap'[p]
    BY <1>2, <1>9 DEF OrderInv, TypeOK
  <1>14. ~g_aof_rewriting' => (Up' => ~LiveRewriter') /\ g_rewrite_buf' = <<>>
    BY <1>2, <1>4, <1>12 DEF OrderInv
  <1>15. QED
    BY <1>2, <1>3, <1>5, <1>6, <1>8, <1>10, <1>11, <1>12, <1>13, <1>14, ZenonT(40) DEF OrderInv

\* The end of the server process keeps the order: an orphaned child still holds an
\* ordered snapshot, now without the buffer, and the log is as it was or has one
\* torn frame more (server.c 530-541).
LEMMA EndOrdered ==
    ASSUME TypeOK, OrderInv, ProcessEnds,
           \/ UNCHANGED file
           \/ g_aof_fd # NoInode /\ file' = [file EXCEPT ![g_aof_fd] = Append(@, Torn)]
    PROVE  OrderInv'
  <1> USE AofAssumption DEF Proc
  <1> DEFINE n == Len(executed)
  <1>1. n \in Nat
    BY DEF TypeOK
  <1>2. /\ pc' = [p \in Proc |-> IF p = Server THEN "down"
                                 ELSE IF pc[p] = "zombie" THEN "none" ELSE pc[p]]
        /\ tmpfd' = [tmpfd EXCEPT ![Server] = NoInode]
        /\ snap' = [snap EXCEPT ![Server] = <<>>]
        /\ g_aof_fd' = NoInode /\ g_aof_rewriting' = FALSE /\ g_rewrite_buf' = <<>>
        /\ UNCHANGED <<aofpath, tmppath, executed>>
    BY DEF ProcessEnds
  <1>3. /\ ~Up'
        /\ \A p \in Proc : Rewriting(p)' => Rewriting(p) /\ p # Server
    BY <1>2 DEF Up, Rewriting
  <1>4. \A p \in Proc : Rewriting(p)' => Whole(snap'[p] \o g_rewrite_buf', n)
    <2> SUFFICES ASSUME NEW p \in Proc, Rewriting(p)'
                 PROVE  Whole(snap'[p] \o g_rewrite_buf', n)
      OBVIOUS
    <2>1. Rewriting(p) /\ snap'[p] = snap[p] /\ snap[p] \in Seq(Frame)
      BY <1>2, <1>3 DEF TypeOK
    <2>2. Whole(snap[p] \o g_rewrite_buf, n) /\ g_rewrite_buf \in Seq(Frame)
      BY <2>1 DEF OrderInv, TypeOK
    <2> HIDE DEF n
    <2>3. Whole(snap[p], n)
      BY <1>1, <2>1, <2>2, WholePrefix
    <2>4. QED
      BY <1>1, <1>2, <2>1, <2>3, WholeAlone
  <1>5. Ordered(file'[aofpath], n)
    <2>1. file[aofpath] \in Seq(Frame) /\ Ordered(file[aofpath], n)
      BY DEF OrderInv, TypeOK
    <2>2. file'[aofpath] \in {file[aofpath], Append(file[aofpath], Torn)}
      BY DEF TypeOK
    <2> HIDE DEF n
    <2>3. QED
      BY <1>1, <2>1, <2>2, OrderedTorn
  <1>6. tmppath \in Inode => file'[tmppath] = file[tmppath]
    BY DEF OrderInv, TypeOK
  <1>7. \A p \in Proc :
          /\ pc'[p] = "write" => tmpfd'[p] = tmppath' /\ file'[tmppath'] = <<>>
          /\ pc'[p] = "rename" => tmppath' # NoInode /\ file'[tmppath'] = snap'[p]
    BY <1>2, <1>6 DEF OrderInv, TypeOK
  <1>8. \A c \in Child : pc'[c] \in {"none", "save", "zombie", "open", "write", "rename"}
    BY <1>2 DEF OrderInv
  <1>9. QED
    BY <1>2, <1>3, <1>4, <1>5, <1>7, <1>8, ZenonT(40) DEF OrderInv

\* A rename puts an ordered snapshot in place of the log: REWRITEAOF reopens it, a
\* child of a running server leaves that to reap_children, and an orphan to the next
\* start (aof.c 299-308, db.c 763-808).
LEMMA RenameOrdered ==
    ASSUME TypeOK, OrderInv, NEW p \in Proc, RwRename(p), mishaps' \subseteq Tolerated
    PROVE  OrderInv'
  <1> USE AofAssumption DEF Proc
  <1> DEFINE n == Len(executed)
  <1>1. n \in Nat
    BY DEF TypeOK
  <1>2. /\ pc[p] = "rename" /\ Rewriting(p)
        /\ tmppath \in Inode /\ tmppath # aofpath /\ tmppath # g_aof_fd
        /\ file[tmppath] = snap[p] /\ snap[p] \in Seq(Frame)
        /\ g_rewrite_buf \in Seq(Frame)
        /\ Whole(snap[p] \o g_rewrite_buf, n)
        /\ aofpath' = tmppath /\ tmppath' = NoInode
        /\ UNCHANGED <<store, g_aof_rewriting, executed>>
    BY DEF OrderInv, TypeOK, RwRename, Rewriting
  <1>3. Whole(snap[p], n) /\ Ordered(snap[p], n)
    <2> HIDE DEF n
    <2> QED BY <1>1, <1>2, WholePrefix DEF Whole
  <1>4. CASE p = Server
    <2>1. Up /\ ~g_aof_rewriting /\ g_rewrite_buf = <<>> /\ ~LiveRewriter
      <3>1. Up
        BY <1>2, <1>4 DEF Up
      <3>2. QED
        BY <1>2, <1>4, <3>1, Zenon DEF OrderInv
    <2>2. /\ g_aof_fd' = tmppath
          /\ file' = [file EXCEPT ![tmppath] = @ \o g_rewrite_buf]
          /\ g_rewrite_buf' = <<>>
          /\ pc' = [pc EXCEPT ![Server] = "serve"]
      <3>1. "io_error" \notin mishaps'
        BY DEF Tolerated
      <3>2. QED
        BY <1>4, <3>1, ZenonT(40) DEF RwRename, aof_reopen
    <2>3. file'[tmppath] = snap[p]
      BY <1>2, <2>1, <2>2, ConcatEmptySeq DEF TypeOK
    <2>4. /\ \A q \in Proc : ~Rewriting(q)' /\ pc'[q] \notin {"write", "rename"}
          /\ \A c \in Child : pc'[c] = pc[c]
      BY <2>1, <2>2 DEF LiveRewriter, Rewriting, TypeOK
    <2>5. ~LiveRewriter'
      BY <2>4 DEF LiveRewriter
    <2>6. QED
      BY <1>2, <1>3, <2>1, <2>2, <2>3, <2>4, <2>5, ZenonT(40) DEF OrderInv
  <1>5. CASE p # Server
    <2>1. /\ pc' = [pc EXCEPT ![p] = IF pc[Server] = "down" THEN "none" ELSE "zombie"]
          /\ UNCHANGED <<g_aof_fd, g_rewrite_buf, file>>
      BY <1>5 DEF RwRename, Exit
    <2>2. p \in Child /\ ~Rewriting(Server) /\ LiveRewriter
      BY <1>2, <1>5, Zenon DEF OrderInv, LiveRewriter
    <2>3. /\ \A q \in Proc : ~Rewriting(q)' /\ pc'[q] \notin {"write", "rename"}
          /\ \A c \in Child : pc'[c] \in {"none", "save", "zombie", "open", "write", "rename"}
          /\ Up' <=> Up
      BY <1>2, <2>1, <2>2 DEF OrderInv, TypeOK, Rewriting, Up
    <2>4. ~LiveRewriter'
      BY <2>3 DEF LiveRewriter
    <2>5. Up <=> g_aof_rewriting
      BY <2>2 DEF OrderInv
    <2>6. g_aof_rewriting => g_aof_fd \in Inode /\ g_aof_fd # tmppath
      BY <1>2, <2>2, <2>5 DEF OrderInv, TypeOK
    <2>7. QED
      BY <1>2, <1>3, <2>1, <2>3, <2>4, <2>5, <2>6, ZenonT(40) DEF OrderInv
  <1>6. QED
    BY <1>4, <1>5

\* Every step with no mishap beyond the tolerated ones preserves OrderInv: one step
\* per action of Aof.
LEMMA OrderStep ==
    ASSUME TypeOK, OrderInv, [Next]_vars, mishaps' \subseteq Tolerated
    PROVE  OrderInv'
  <1> USE AofAssumption DEF Proc
  <1> DEFINE n == Len(executed)
  <1>1. n \in Nat /\ store \in Seq(Frame)
    BY DEF TypeOK
  <1>2. ~g_aof_rewriting /\ Up => Whole(store \o g_rewrite_buf, n)
    <2> SUFFICES ASSUME ~g_aof_rewriting, Up
                 PROVE  Whole(store \o g_rewrite_buf, n)
      OBVIOUS
    <2>1. g_rewrite_buf = <<>> /\ Whole(store, n)
      BY DEF OrderInv
    <2> HIDE DEF n
    <2>2. QED
      BY <1>1, <2>1, WholeAlone
  <1>3. CASE dispatch_command
    BY <1>3, WriteOrdered
  <1>4. CASE cmd_rewriteaof
    <2>1. ~g_aof_rewriting /\ ~LiveRewriter
      BY <1>4 DEF cmd_rewriteaof, Note, Tolerated
    <2>2. /\ pc[Server] = "serve" /\ Up
          /\ pc' = [pc EXCEPT ![Server] = "open"]
          /\ snap' = [snap EXCEPT ![Server] = store]
          /\ UNCHANGED <<tmpfd, store, g_aof_fd, g_aof_rewriting, g_rewrite_buf, file,
                         aofpath, tmppath, executed>>
      BY <1>4 DEF cmd_rewriteaof, memVars, diskVars, Up
    <2>3. /\ \A q \in Proc : /\ Rewriting(q)' => q = Server
                             /\ pc'[q] \notin {"write", "rename"}
          /\ \A c \in Child : pc'[c] = pc[c]
          /\ Up'
      BY <2>1, <2>2 DEF LiveRewriter, Rewriting, TypeOK, Up
    <2>4. ~LiveRewriter' /\ snap'[Server] = store
      BY <2>2, <2>3 DEF LiveRewriter, TypeOK
    <2>5. QED
      BY <1>2, <2>1, <2>2, <2>3, <2>4, ZenonT(40) DEF OrderInv
  <1>5. CASE cmd_save
    BY <1>5, ZenonT(40)
    DEF cmd_save, OrderInv, procVars, memVars, ghostVars, Rewriting, LiveRewriter, Up
  <1>6. ASSUME NEW c \in Child, cmd_bgrewriteaof(c)
        PROVE  OrderInv'
    <2>1. /\ pc[Server] = "serve" /\ Up /\ ~g_aof_rewriting /\ g_aof_rewriting'
          /\ pc' = [pc EXCEPT ![c] = "open"]
          /\ snap' = [snap EXCEPT ![c] = store]
          /\ UNCHANGED <<tmpfd, store, g_aof_fd, g_rewrite_buf, file,
                         aofpath, tmppath, executed>>
      BY <1>6 DEF cmd_bgrewriteaof, diskVars, Up
    <2>2. ~LiveRewriter
      BY <2>1, Zenon DEF OrderInv
    <2>3. /\ \A q \in Proc : /\ Rewriting(q)' => q = c
                             /\ pc'[q] \notin {"write", "rename"}
          /\ Rewriting(c)' /\ ~Rewriting(Server)' /\ Up'
          /\ \A d \in Child : pc'[d] \in {"none", "save", "zombie", "open", "write", "rename"}
      BY <2>1, <2>2 DEF OrderInv, LiveRewriter, Rewriting, TypeOK, Up
    <2>4. LiveRewriter' /\ snap'[c] = store
      BY <2>1, <2>3 DEF LiveRewriter, TypeOK
    <2>5. QED
      BY <1>2, <2>1, <2>2, <2>3, <2>4, ZenonT(40) DEF OrderInv
  <1>7. ASSUME NEW c \in Child, cmd_bgsave(c) \/ SaveExit(c)
        PROVE  OrderInv'
    <2>1. /\ pc[c] \in {"none", "save"}
          /\ \E x \in {"none", "save", "zombie"} : pc' = [pc EXCEPT ![c] = x]
          /\ \A q \in Proc : q # c => snap'[q] = snap[q] /\ tmpfd'[q] = tmpfd[q]
          /\ UNCHANGED <<store, g_aof_fd, g_aof_rewriting, g_rewrite_buf, file,
                         aofpath, tmppath, executed>>
      BY <1>7 DEF cmd_bgsave, SaveExit, Exit, memVars, diskVars, ghostVars, TypeOK
    <2>2. /\ \A q \in Proc : (Rewriting(q)' <=> Rewriting(q)) /\ (Rewriting(q) => q # c)
          /\ \A q \in Proc : /\ pc'[q] = "write" => pc[q] = "write" /\ q # c
                             /\ pc'[q] = "rename" => pc[q] = "rename" /\ q # c
          /\ \A d \in Child : pc'[d] \in {"none", "save", "zombie", "open", "write", "rename"}
          /\ Up' <=> Up
      BY <2>1 DEF OrderInv, Rewriting, TypeOK, Up
    <2>3. LiveRewriter' <=> LiveRewriter
      BY <2>2 DEF LiveRewriter
    <2>4. QED
      BY <2>1, <2>2, <2>3, ZenonT(40) DEF OrderInv
  <1>8. ASSUME NEW p \in Proc, RwOpen(p)
        PROVE  OrderInv'
    <2>1. PICK i \in IF tmppath = NoInode THEN Inode \ InUse ELSE {tmppath} :
            /\ tmppath' = i
            /\ tmpfd' = [tmpfd EXCEPT ![p] = i]
            /\ file' = [file EXCEPT ![i] = <<>>]
      BY <1>8, Zenon DEF RwOpen
    <2>2. /\ pc' = [pc EXCEPT ![p] = "write"] /\ Rewriting(p)
          /\ UNCHANGED <<snap, store, g_aof_fd, g_aof_rewriting, g_rewrite_buf,
                         aofpath, executed>>
      BY <1>8 DEF RwOpen, memVars, ghostVars, Rewriting
    <2>3. i \in Inode /\ i # aofpath /\ i # g_aof_fd
      BY <2>1 DEF OrderInv, TypeOK, InUse
    <2>4. file'[aofpath] = file[aofpath] /\ file'[i] = <<>>
      BY <2>1, <2>3, SMTT(30) DEF TypeOK
    <2>5. /\ \A q \in Proc : Rewriting(q)' <=> Rewriting(q)
          /\ LiveRewriter' <=> LiveRewriter
          /\ Up' <=> Up
          /\ \A c \in Child :
               pc'[c] \in {"none", "save", "zombie", "open", "write", "rename"}
      BY <2>2, SMTT(30) DEF OrderInv, TypeOK, Rewriting, LiveRewriter, Up
    <2>6. \A q \in Proc : /\ pc'[q] = "write" => q = p /\ tmpfd'[q] = i
                          /\ pc'[q] # "rename"
      BY <2>1, <2>2, SMTT(30) DEF OrderInv, TypeOK, Rewriting
    <2>7. QED
      BY <2>1, <2>2, <2>3, <2>4, <2>5, <2>6, ZenonT(40) DEF OrderInv
  <1>9. ASSUME NEW p \in Proc, RwWrite(p)
        PROVE  OrderInv'
    <2>1. tmpfd[p] = tmppath /\ tmppath \in Inode /\ file[tmppath] = <<>>
      BY <1>9 DEF OrderInv, TypeOK, RwWrite
    <2>2. Overlay(snap[p], <<>>) = {snap[p]}
      BY DEF Overlay, TypeOK
    <2>3. file' = [file EXCEPT ![tmppath] = snap[p]]
      BY <1>9, <2>1, <2>2, ZenonT(40) DEF RwWrite
    <2>4. /\ pc' = [pc EXCEPT ![p] = "rename"] /\ Rewriting(p)
          /\ UNCHANGED <<snap, store, g_aof_fd, g_aof_rewriting, g_rewrite_buf,
                         aofpath, tmppath, executed>>
      BY <1>9 DEF RwWrite, memVars, ghostVars, Rewriting
    <2>5. /\ file'[aofpath] = file[aofpath] /\ file'[tmppath] = snap[p]
          /\ tmppath # NoInode
      BY <2>1, <2>3 DEF OrderInv, TypeOK
    <2>6. /\ \A q \in Proc : Rewriting(q)' <=> Rewriting(q)
          /\ LiveRewriter' <=> LiveRewriter
          /\ Up' <=> Up
          /\ \A c \in Child :
               pc'[c] \in {"none", "save", "zombie", "open", "write", "rename"}
      BY <2>4, SMTT(30) DEF OrderInv, TypeOK, Rewriting, LiveRewriter, Up
    <2>7. \A q \in Proc : /\ pc'[q] = "rename" => q = p
                          /\ pc'[q] # "write"
      BY <2>4, SMTT(30) DEF OrderInv, TypeOK, Rewriting
    <2>8. QED
      BY <2>4, <2>5, <2>6, <2>7, ZenonT(40) DEF OrderInv
  <1>10. ASSUME NEW p \in Proc, RwRename(p)
         PROVE  OrderInv'
    BY <1>10, RenameOrdered
  <1>11. ASSUME NEW p \in Proc, RwFail(p)
         PROVE  OrderInv'
    <2>1. p = Server
      BY <1>11 DEF RwFail, Note, Tolerated
    <2>2. /\ pc' = [pc EXCEPT ![Server] = "serve"] /\ Rewriting(Server)
          /\ UNCHANGED <<store, g_aof_fd, g_aof_rewriting, g_rewrite_buf, file, aofpath,
                         tmppath, executed>>
      BY <1>11, <2>1 DEF RwFail, diskVars
    <2>3. /\ \A q \in Proc : ~Rewriting(q)' /\ pc'[q] \notin {"write", "rename"}
          /\ Up /\ Up'
          /\ \A c \in Child : pc'[c] = pc[c]
      BY <2>2 DEF OrderInv, TypeOK, Rewriting, Up
    <2>4. ~LiveRewriter /\ ~LiveRewriter'
      BY <2>2, <2>3, Zenon DEF OrderInv, LiveRewriter
    <2>5. QED
      BY <2>2, <2>3, <2>4, ZenonT(40) DEF OrderInv
  <1>12. CASE ReapBegin
    <2>1. /\ pc[Server] = "serve" /\ pc' = [pc EXCEPT ![Server] = "reap"]
          /\ UNCHANGED <<snap, tmpfd, store, g_aof_fd, g_aof_rewriting, g_rewrite_buf,
                         file, aofpath, tmppath, executed>>
      BY <1>12 DEF ReapBegin, diskVars, ghostVars
    <2>2. /\ \A q \in Proc : Rewriting(q)' <=> Rewriting(q)
          /\ \A q \in Proc : q # Server => pc'[q] = pc[q]
          /\ pc'[Server] \notin {"write", "rename"}
          /\ Up' <=> Up
      BY <2>1 DEF Rewriting, TypeOK, Up
    <2>3. LiveRewriter' <=> LiveRewriter
      BY <2>2 DEF LiveRewriter
    <2>4. \A q \in Proc : /\ pc'[q] = "write" => pc[q] = "write"
                          /\ pc'[q] = "rename" => pc[q] = "rename"
      BY <2>2
    <2>5. \A c \in Child : pc'[c] = pc[c]
      BY <2>2
    <2>6. QED
      BY <2>1, <2>2, <2>3, <2>4, <2>5, ZenonT(40) DEF OrderInv
  <1>13. CASE ReapFinish
    <2>1. /\ pc' = [p \in Proc |-> IF p = Server THEN "serve"
                                   ELSE IF pc[p] = "zombie" THEN "none" ELSE pc[p]]
          /\ g_aof_rewriting' = FALSE
          /\ UNCHANGED <<snap, tmpfd, store, aofpath, tmppath, executed>>
          /\ pc[Server] = "reap"
      BY <1>13 DEF ReapFinish
    <2>2. /\ \A q \in Proc : Rewriting(q)' <=> Rewriting(q)
          /\ \A c \in Child :
               pc'[c] \in {"none", "save", "zombie", "open", "write", "rename"}
          /\ \A q \in Proc : /\ pc'[q] = "write" => pc[q] = "write"
                             /\ pc'[q] = "rename" => pc[q] = "rename"
          /\ Up /\ Up'
      BY <2>1, SMTT(30) DEF OrderInv, TypeOK, Rewriting, Up
    <2>3. LiveRewriter' <=> LiveRewriter
      BY <2>2 DEF LiveRewriter
    <2>4. CASE g_aof_rewriting
      <3>1. "io_error" \notin mishaps' /\ "early_reap" \notin mishaps'
        BY DEF Tolerated
      <3>2. /\ ~LiveRewriter
            /\ g_aof_fd' = aofpath
            /\ file' = [file EXCEPT ![aofpath] = @ \o g_rewrite_buf]
            /\ g_rewrite_buf' = <<>>
        BY <1>13, <2>4, <3>1, ZenonT(40) DEF ReapFinish, aof_reopen
      <3>3. file'[aofpath] = file[aofpath] \o g_rewrite_buf
        BY <3>2 DEF TypeOK
      <3>4. Ordered(file'[aofpath], n)
        BY <2>4, <3>2, <3>3, Zenon DEF OrderInv, Whole
      <3>5. ~Rewriting(Server) /\ \A q \in Proc : ~Rewriting(q)
        BY <2>4, <3>2, Zenon DEF OrderInv, LiveRewriter
      <3>6. \A q \in Proc : ~Rewriting(q)' /\ pc'[q] \notin {"write", "rename"}
        BY <2>2, <3>5 DEF Rewriting
      <3>7. QED
        BY <2>1, <2>2, <2>3, <3>2, <3>4, <3>6, ZenonT(40) DEF OrderInv
    <2>5. CASE ~g_aof_rewriting
      <3>1. UNCHANGED <<g_aof_fd, file, g_rewrite_buf>>
        BY <1>13, <2>5 DEF ReapFinish
      <3>2. QED
        BY <2>1, <2>2, <2>3, <2>5, <3>1, ZenonT(40) DEF OrderInv
    <2>6. QED
      BY <2>4, <2>5
  <1>14. CASE Crash
    BY <1>14, EndOrdered DEF Crash
  <1>15. CASE CrashInAppend
    BY <1>15, EndOrdered DEF CrashInAppend
  <1>16. CASE Shutdown
    BY <1>16, EndOrdered DEF Shutdown
  <1>17. CASE server_run
    <2>1. rdb = <<>>
      BY <1>17 DEF server_run, Note, Tolerated
    <2>2. /\ pc[Server] = "down" /\ \A c \in Child : pc[c] = "none"
          /\ pc' = [pc EXCEPT ![Server] = "serve"]
          /\ store' = rdb \o Replay(file[aofpath])
          /\ g_aof_fd' = aofpath
          /\ UNCHANGED <<snap, tmpfd, g_aof_rewriting, g_rewrite_buf, file, aofpath,
                         tmppath, executed>>
      BY <1>17 DEF server_run, diskVars
    <2>3. Whole(store', n)
      <3>1. file[aofpath] \in Seq(Frame) /\ Ordered(file[aofpath], n)
        BY DEF OrderInv, TypeOK
      <3> HIDE DEF n
      <3>2. Whole(Replay(file[aofpath]), n) /\ Replay(file[aofpath]) \in Seq(Frame)
        BY <1>1, <3>1, ReplayOrdered, ReplayType
      <3>3. QED
        BY <2>1, <2>2, <3>2, ConcatEmptySeq
    <2>4. /\ \A q \in Proc : ~Rewriting(q)' /\ pc'[q] \notin {"write", "rename"}
          /\ ~Up /\ Up'
          /\ \A c \in Child : pc'[c] = pc[c]
      BY <2>2 DEF TypeOK, Rewriting, Up
    <2>5. ~LiveRewriter'
      BY <2>4 DEF LiveRewriter
    <2>6. ~g_aof_rewriting
      BY <2>4 DEF OrderInv
    <2>7. QED
      BY <2>2, <2>3, <2>4, <2>5, <2>6, ZenonT(40) DEF OrderInv
  <1>18. CASE UNCHANGED vars
    BY <1>18, ZenonT(40) DEF OrderInv, vars, procVars, memVars, diskVars, ghostVars,
       Rewriting, LiveRewriter, Up
  <1>19. QED
    BY ZenonT(40), <1>3, <1>4, <1>5, <1>6, <1>7, <1>8, <1>9, <1>10, <1>11, <1>12, <1>13,
       <1>14, <1>15, <1>16, <1>17, <1>18 DEF Next, Step

\* The order of the log, phase by phase, survives stops, crashes and torn frames.
THEOREM InOrderHolds == Spec => []InOrder
  <1>1. Init => InOrder
    <2> SUFFICES ASSUME Init PROVE OrderInv
      BY DEF InOrder
    <2> USE AofAssumption DEF Proc
    <2>1. \A p \in Proc : /\ ~Rewriting(p) /\ pc[p] \notin {"write", "rename"}
                          /\ p # Server => pc[p] = "none"
      BY DEF Init, Rewriting
    <2>2. ~LiveRewriter /\ \A c \in Child : pc[c] = "none"
      BY <2>1 DEF LiveRewriter
    <2>3. Whole(<<>>, Len(executed)) /\ Ordered(<<>>, Len(executed))
      BY DEF Whole, Ordered
    <2>4. file[aofpath] = <<>> /\ tmppath # aofpath
      BY DEF Init
    <2>5. QED
      BY <2>1, <2>2, <2>3, <2>4, ZenonT(40) DEF Init, OrderInv
  <1>2. TypeOK /\ InOrder /\ [Next]_vars => InOrder'
    BY MishapsGrow, OrderStep DEF InOrder
  <1>3. QED
    BY <1>1, <1>2, TypeCorrect, PTL DEF Spec

\* Stopping, crashing or tearing a frame may lose the writes of an unfinished
\* rewrite, but the log never replays a write twice or out of order (aof.c 98-105).
THEOREM NeverTwiceHolds == Spec => []NeverTwice
  <1>1. TypeOK /\ InOrder => NeverTwice
    <2> SUFFICES ASSUME TypeOK, InOrder, mishaps \subseteq Tolerated
                 PROVE  \A i, j \in 1 .. Len(OnDisk) : i < j => OnDisk[i] < OnDisk[j]
      BY DEF NeverTwice, Tolerated
    <2>1. Len(executed) \in Nat /\ file[aofpath] \in Seq(Frame)
      BY DEF TypeOK
    <2>2. Ordered(file[aofpath], Len(executed))
      BY DEF InOrder, OrderInv
    <2>3. Whole(OnDisk, Len(executed)) /\ OnDisk \in Seq(Frame)
      BY <2>1, <2>2, ReplayOrdered, ReplayType DEF OnDisk
    <2>4. QED
      BY <2>3 DEF Whole, Ordered
  <1>2. QED
    BY <1>1, TypeCorrect, InOrderHolds, PTL
=============================================================================

----------------------------- MODULE AofProofs -----------------------------
(***************************************************************************)
(* Proofs about Aof, for every number of children, inodes and commands and *)
(* every set of allowed mishaps.                                           *)
(***************************************************************************)
EXTENDS Aof, SequenceTheorems, WellFoundedInduction, TLAPS

\* Appending a frame to a concatenation appends it to the second part
\* (aof_append_command on the log and on the rewrite buffer).
LEMMA ConcatAppend ==
    ASSUME NEW s \in Seq(Frame), NEW t \in Seq(Frame), NEW w \in Frame
    PROVE  s \o Append(t, w) = Append(s \o t, w)
  OBVIOUS

\* A log without a torn frame is replayed completely (aof_replay).
LEMMA ReplayWhole ==
    ASSUME NEW s \in Seq(Frame), \A i \in 1 .. Len(s) : s[i] # Torn
    PROVE  Replay(s) = s
  BY DEF Replay

\* A nonempty set of positions has a first one (the torn frame at which aof_replay
\* stops).
LEMMA FirstPosition ==
    ASSUME NEW T \in SUBSET Nat, T # {}
    PROVE  \E m \in T : \A n \in T : m <= n
  <1>1. PICK m \in T : \A n \in T : ~(<<n, m>> \in OpToRel(<, Nat))
    BY WFMin, NatLessThanWellFounded, Zenon
  <1>2. \A n \in T : ~(n < m)
    BY <1>1, Zenon DEF OpToRel
  <1>3. QED
    BY <1>2

\* Replaying any file gives a sequence of commands (aof_replay).
LEMMA ReplayType ==
    ASSUME NEW s \in Seq(Frame)
    PROVE  Replay(s) \in Seq(Frame)
  <1> DEFINE bad == {i \in 1 .. Len(s) : s[i] = Torn}
             first == CHOOSE i \in bad : \A j \in bad : i <= j
  <1>1. CASE bad = {}
    BY <1>1 DEF Replay
  <1>2. CASE bad # {}
    <2>1. \E m \in bad : \A n \in bad : m <= n
      <3>1. bad \in SUBSET Nat
        OBVIOUS
      <3> HIDE DEF bad
      <3> QED BY <1>2, <3>1, FirstPosition
    <2>2. first \in bad
      <3> HIDE DEF bad
      <3> QED BY <2>1
    <2>3. first - 1 \in Int /\ \A i \in 1 .. first - 1 : s[i] \in Frame
      <3> HIDE DEF first
      <3> QED BY <2>2
    <2>4. SubSeq(s, 1, first - 1) \in Seq(Frame)
      <3> HIDE DEF first
      <3> QED BY <2>3, SubSeqProperties
    <2>5. QED
      BY <1>2, <2>4, Zenon DEF Replay
  <1>3. QED
    BY <1>1, <1>2
-----------------------------------------------------------------------------
\* aof_reopen keeps the types (aof.c 90-107).
LEMMA ReopenType ==
    ASSUME TypeOK, NEW path \in Inode, NEW noted \in SUBSET Mishap,
           aof_reopen(path, noted)
    PROVE  /\ g_aof_fd' \in Inode \cup {NoInode}
           /\ file' \in [Inode -> Seq(Frame)]
           /\ g_rewrite_buf' \in Seq(Frame)
           /\ mishaps' \subseteq Mishap
  <1> USE DEF TypeOK
  <1>1. \A n \in 0 .. Len(g_rewrite_buf) - 1 :
          file[path] \o SubSeq(g_rewrite_buf, 1, n) \o <<Torn>> \in Seq(Frame)
    <2> SUFFICES ASSUME NEW n \in 0 .. Len(g_rewrite_buf) - 1
                 PROVE  file[path] \o SubSeq(g_rewrite_buf, 1, n) \o <<Torn>> \in Seq(Frame)
      OBVIOUS
    <2>1. SubSeq(g_rewrite_buf, 1, n) \in Seq(Frame)
      BY SubSeqProperties, ElementOfSeq
    <2>2. <<Torn>> \in Seq(Frame)
      BY DEF Torn, Frame
    <2>3. QED
      BY <2>1, <2>2, ConcatProperties
  <1>2. file[path] \o g_rewrite_buf \in Seq(Frame)
    BY ConcatProperties
  <1>3. <<>> \in Seq(Frame)
    OBVIOUS
  <1>4. mishaps' \subseteq Mishap
    BY Zenon DEF aof_reopen, Mishap
  <1>5. QED
    BY <1>1, <1>2, <1>3, <1>4, Zenon DEF aof_reopen

\* What a rewrite leaves in its temporary file is a sequence of frames (aof.c
\* 280-298).
LEMMA OverlayType ==
    ASSUME NEW stream \in Seq(Frame), NEW old \in Seq(Frame),
           NEW new \in Overlay(stream, old)
    PROVE  new \in Seq(Frame)
  <1>1. \A k \in 2 .. Len(old) : stream \o SubSeq(old, k, Len(old)) \in Seq(Frame)
    <2> SUFFICES ASSUME NEW k \in 2 .. Len(old)
                 PROVE  stream \o SubSeq(old, k, Len(old)) \in Seq(Frame)
      OBVIOUS
    <2>1. SubSeq(old, k, Len(old)) \in Seq(Frame)
      BY SubSeqProperties, ElementOfSeq
    <2>2. QED
      BY <2>1, ConcatProperties
  <1>2. Append(stream, Torn) \in Seq(Frame)
    BY DEF Torn, Frame
  <1>3. QED
    BY <1>1, <1>2, Zenon DEF Overlay

\* Recording a mishap keeps the type of the history variable.
LEMMA NoteType ==
    ASSUME TypeOK, NEW m \in Mishap, NEW cond, Note(m, cond)
    PROVE  mishaps' \subseteq Mishap
  BY DEF TypeOK, Note

\* A child's exit keeps the types (server.c 47-50).
LEMMA ExitType ==
    ASSUME TypeOK, NEW c \in Child, Exit(c)
    PROVE  /\ pc' \in [Proc -> {"none", "save", "zombie", "serve", "reap", "down",
                               "open", "write", "rename"}]
           /\ snap' \in [Proc -> Seq(Frame)]
           /\ tmpfd' \in [Proc -> Inode \cup {NoInode}]
           /\ g_sigchld' \in BOOLEAN
           /\ \A p \in Proc : pc'[p] = "write" => tmpfd'[p] \in Inode
  BY DEF TypeOK, Exit, Proc

\* So does the end of the server process (server.c 530-541).
LEMMA EndType ==
    ASSUME TypeOK, ProcessEnds
    PROVE  /\ pc' \in [Proc -> {"none", "save", "zombie", "serve", "reap", "down",
                               "open", "write", "rename"}]
           /\ snap' \in [Proc -> Seq(Frame)]
           /\ tmpfd' \in [Proc -> Inode \cup {NoInode}]
           /\ \A p \in Proc : pc'[p] = "write" => tmpfd'[p] \in Inode
           /\ store' \in Seq(Frame)
           /\ g_aof_fd' \in Inode \cup {NoInode}
           /\ g_rewrite_buf' \in Seq(Frame)
  BY DEF TypeOK, ProcessEnds, Proc

\* The type invariant is inductive: one step per action of Aof.
LEMMA TypeStep ==
    ASSUME TypeOK, [Next]_vars
    PROVE  TypeOK'
  <1> USE AofAssumption DEF TypeOK, Frame, Proc
  <1>1. CASE dispatch_command
    <2>1. /\ file' \in [Inode -> Seq(Frame)]
          /\ g_rewrite_buf' \in Seq(Frame)
          /\ mishaps' \subseteq Mishap
      <3>1. Len(executed) + 1 \in Frame /\ Torn \in Frame
        BY DEF Torn
      <3>2. "io_error" \in Mishap
        BY DEF Mishap
      <3>3. CASE g_aof_fd = NoInode
        BY <1>1, <3>3 DEF dispatch_command
      <3>4. CASE g_aof_fd # NoInode
        <4>1. aof_append_command(Len(executed) + 1)
          BY <1>1, <3>4 DEF dispatch_command
        <4>2. mishaps' \subseteq Mishap
          BY <4>1, <3>2 DEF aof_append_command, Note
        <4>3. /\ file' \in [Inode -> Seq(Frame)]
              /\ g_rewrite_buf' \in Seq(Frame)
          <5>1. \A s \in Seq(Frame) : /\ Append(s, Len(executed) + 1) \in Seq(Frame)
                                      /\ Append(s, Torn) \in Seq(Frame)
            BY <3>1
          <5>2. \/ file' = [file EXCEPT ![g_aof_fd] = Append(@, Len(executed) + 1)]
                \/ file' = file
                \/ file' = [file EXCEPT ![g_aof_fd] = Append(@, Torn)]
            BY <4>1, Zenon DEF aof_append_command
          <5>3. \/ g_rewrite_buf' = Append(g_rewrite_buf, Len(executed) + 1)
                \/ g_rewrite_buf' = g_rewrite_buf
            BY <4>1, Zenon DEF aof_append_command
          <5>4. file' \in [Inode -> Seq(Frame)]
            <6>1. \A x \in Seq(Frame) : [file EXCEPT ![g_aof_fd] = x] \in [Inode -> Seq(Frame)]
              BY Zenon
            <6>2. file[g_aof_fd] \in Seq(Frame)
              BY <3>4
            <6>3. QED
              BY <5>1, <5>2, <6>1, <6>2, ZenonT(40)
          <5>5. g_rewrite_buf' \in Seq(Frame)
            BY <5>1, <5>3, Zenon
          <5>6. QED
            BY <5>4, <5>5
        <4>4. QED
          BY <4>2, <4>3
      <3>5. QED
        BY <3>3, <3>4
    <2>2. QED
      BY <1>1, <2>1 DEF dispatch_command, procVars
  <1>2. CASE cmd_rewriteaof
    BY <1>2 DEF cmd_rewriteaof, Note, Mishap, memVars, diskVars
  <1>3. CASE cmd_save
    BY <1>3 DEF cmd_save, procVars, memVars, ghostVars
  <1>4. ASSUME NEW c \in Child, cmd_bgrewriteaof(c)
        PROVE  TypeOK'
    BY <1>4 DEF cmd_bgrewriteaof, diskVars
  <1>5. ASSUME NEW c \in Child, cmd_bgsave(c)
        PROVE  TypeOK'
    BY <1>5 DEF cmd_bgsave, memVars, diskVars
  <1>6. ASSUME NEW c \in Child, SaveExit(c)
        PROVE  TypeOK'
    BY <1>6 DEF SaveExit, Exit, ghostVars
  <1>7. ASSUME NEW p \in Proc, RwOpen(p)
        PROVE  TypeOK'
    BY <1>7 DEF RwOpen, InUse, memVars, ghostVars
  <1>8. ASSUME NEW p \in Proc, RwWrite(p)
        PROVE  TypeOK'
    <2>1. \A new \in Overlay(snap[p], file[tmpfd[p]]) : new \in Seq(Frame)
      BY <1>8, OverlayType DEF RwWrite
    <2>2. QED
      BY <1>8, <2>1 DEF RwWrite, memVars, ghostVars
  <1>9. ASSUME NEW p \in Proc, RwRename(p)
        PROVE  TypeOK'
    <2>1. CASE p = Server
      <3>1. tmppath \in Inode /\ mishaps \in SUBSET Mishap
        BY <1>9 DEF RwRename
      <3>2. aof_reopen(tmppath, mishaps)
        BY <1>9, <2>1 DEF RwRename
      <3>3. /\ pc' = [pc EXCEPT ![Server] = "serve"]
            /\ snap' = [snap EXCEPT ![Server] = <<>>]
            /\ aofpath' = tmppath /\ tmppath' = NoInode
            /\ UNCHANGED <<tmpfd, g_sigchld, store, g_aof_rewriting, rdb, forks, executed>>
        BY <1>9, <2>1 DEF RwRename
      <3>4. /\ g_aof_fd' \in Inode \cup {NoInode}
            /\ file' \in [Inode -> Seq(Frame)]
            /\ g_rewrite_buf' \in Seq(Frame)
            /\ mishaps' \subseteq Mishap
        <4> HIDE DEF TypeOK
        <4> QED BY <3>1, <3>2, ReopenType
      <3>5. /\ pc' \in [Proc -> {"none", "save", "zombie", "serve", "reap", "down",
                                "open", "write", "rename"}]
            /\ snap' \in [Proc -> Seq(Frame)]
        BY <3>3
      <3>6. \A q \in Proc : pc'[q] = "write" => tmpfd'[q] \in Inode
        BY <3>3
      <3>7. /\ tmpfd' \in [Proc -> Inode \cup {NoInode}]
            /\ store' \in Seq(Frame) /\ rdb' \in Seq(Frame) /\ executed' \in Seq(Frame)
            /\ g_aof_rewriting' \in BOOLEAN /\ g_sigchld' \in BOOLEAN /\ forks' \in Nat
        BY <3>3
      <3>8. aofpath' \in Inode /\ tmppath' \in Inode \cup {NoInode}
        BY <3>1, <3>3
      <3>9. QED
        BY <3>4, <3>5, <3>6, <3>7, <3>8, Zenon
    <2>2. CASE p # Server
      BY <1>9, <2>2, ExitType, Zenon DEF RwRename
    <2>3. QED
      BY <2>1, <2>2, Zenon
  <1>10. ASSUME NEW p \in Proc, RwFail(p)
         PROVE  TypeOK'
    <2>1. CASE p = Server
      <3>1. /\ pc' = [pc EXCEPT ![Server] = "serve"]
            /\ tmpfd' = [tmpfd EXCEPT ![Server] = NoInode]
            /\ snap' = [snap EXCEPT ![Server] = <<>>]
            /\ UNCHANGED <<g_sigchld, mishaps, store, g_aof_fd, g_aof_rewriting,
                           g_rewrite_buf, diskVars, forks, executed>>
        BY <1>10, <2>1 DEF RwFail
      <3>2. QED
        BY <3>1 DEF diskVars
    <2>2. CASE p # Server
      <3>1. "child_failed" \in Mishap
        BY DEF Mishap
      <3>2. QED
        BY <1>10, <2>2, <3>1, ExitType, NoteType, Zenon DEF RwFail, diskVars
    <2>3. QED
      BY <2>1, <2>2, Zenon
  <1>11. CASE ReapBegin
    BY <1>11, Zenon DEF ReapBegin, diskVars, ghostVars
  <1>12. CASE ReapFinish
    <2>1. (IF LiveRewriter THEN mishaps \cup {"early_reap"} ELSE mishaps) \in SUBSET Mishap
      BY DEF Mishap
    <2>2. CASE g_aof_rewriting
      BY <1>12, <2>1, <2>2, ReopenType, Zenon DEF ReapFinish
    <2>3. CASE ~g_aof_rewriting
      BY <1>12, <2>3, Zenon DEF ReapFinish
    <2>4. QED
      BY <2>2, <2>3, Zenon
  <1>13. CASE Crash
    <2>1. mishaps' \subseteq Mishap
      BY <1>13, NoteType DEF Crash, Mishap
    <2>2. QED
      BY <1>13, <2>1, EndType, Zenon DEF Crash, ProcessEnds
  <1>14. CASE CrashInAppend
    <2>1. mishaps' \subseteq Mishap
      BY <1>14 DEF CrashInAppend, Mishap
    <2>2. file' \in [Inode -> Seq(Frame)]
      BY <1>14 DEF CrashInAppend, Torn
    <2>3. QED
      BY <1>14, <2>1, <2>2, EndType, Zenon DEF CrashInAppend, ProcessEnds
  <1>15. CASE Shutdown
    <2>1. mishaps' \subseteq Mishap
      BY <1>15, NoteType DEF Shutdown, Mishap
    <2>2. rdb' \in Seq(Frame)
      BY <1>15 DEF Shutdown
    <2>3. QED
      BY <1>15, <2>1, <2>2, EndType, Zenon DEF Shutdown, ProcessEnds
  <1>16. CASE server_run
    BY <1>16, ReplayType DEF server_run, Note, Mishap, diskVars
  <1>17. CASE UNCHANGED vars
    BY <1>17 DEF vars, procVars, memVars, diskVars, ghostVars
  <1>18. QED
    BY ZenonT(40), <1>1, <1>2, <1>3, <1>4, <1>5, <1>6, <1>7, <1>8, <1>9, <1>10, <1>11, <1>12,
       <1>13, <1>14, <1>15, <1>16, <1>17 DEF Next, Step

\* Every reachable state of the log, its rewrites and its recovery is well typed.
THEOREM TypeCorrect == Spec => []TypeOK
  <1>1. Init => TypeOK
    <2> SUFFICES ASSUME Init PROVE TypeOK
      OBVIOUS
    <2>1. <<>> \in Seq(Frame)
      OBVIOUS
    <2>2. QED
      BY <2>1, AofAssumption, Zenon DEF Init, TypeOK
  <1>2. QED
    BY <1>1, TypeStep, PTL DEF Spec
-----------------------------------------------------------------------------
\* Mishaps are never forgotten.
LEMMA MishapsGrow ==
    ASSUME [Next]_vars
    PROVE  mishaps \subseteq mishaps'
  BY Zenon DEF Next, Step, vars, procVars, memVars, diskVars, ghostVars, Note,
         dispatch_command, aof_append_command, cmd_rewriteaof, cmd_save,
         cmd_bgrewriteaof, cmd_bgsave, SaveExit, RwOpen, RwWrite, RwRename, RwFail,
         aof_reopen, ReapBegin, ReapFinish, Crash, CrashInAppend, Shutdown, server_run

\* Without a mishap every step preserves CleanInv: one step per action of Aof.
LEMMA CleanStep ==
    ASSUME TypeOK, CleanInv, [Next]_vars, mishaps = {}, mishaps' = {}
    PROVE  CleanInv'
  <1> USE AofAssumption DEF Proc, Rewriting, LiveRewriter, Up
  <1>1. CASE dispatch_command
    <2> DEFINE w == Len(executed) + 1
    <2>1. w \in Frame /\ w # Torn
      BY DEF TypeOK, Frame, Torn
    <2>2. g_aof_fd \in Inode
      BY <1>1 DEF CleanInv, TypeOK, dispatch_command
    <2>3. /\ file' = [file EXCEPT ![g_aof_fd] = Append(@, w)]
          /\ g_rewrite_buf' = IF g_aof_rewriting THEN Append(g_rewrite_buf, w)
                                                 ELSE g_rewrite_buf
      BY <1>1, <2>2 DEF dispatch_command, aof_append_command, Note
    <2>4. /\ store' = Append(store, w)
          /\ executed' = Append(executed, w)
          /\ UNCHANGED <<pc, snap, tmpfd, g_aof_fd, g_aof_rewriting, aofpath, tmppath>>
          /\ pc[Server] = "serve"
      BY <1>1 DEF dispatch_command, procVars
    <2> HIDE DEF w
    <2>5. \A i \in 1 .. Len(executed') : executed'[i] # Torn
      BY <2>1, <2>4 DEF CleanInv, TypeOK
    <2>6. \A s \in Seq(Frame) : s \o Append(g_rewrite_buf, w) = Append(s \o g_rewrite_buf, w)
      BY <2>1, ConcatAppend, SMTT(30) DEF TypeOK
    <2>7. CASE g_aof_rewriting /\ ~LiveRewriter
      <3>1. file'[aofpath] = file[aofpath]
        BY <2>2, <2>3, <2>7 DEF CleanInv, TypeOK
      <3>2. file'[aofpath] \o g_rewrite_buf' = executed'
        BY <2>3, <2>4, <2>6, <2>7, <3>1, Zenon DEF CleanInv, TypeOK
      <3>3. QED
        BY <2>2, <2>3, <2>4, <2>5, <2>7, <3>2, Zenon DEF CleanInv, TypeOK
    <2>8. CASE ~(g_aof_rewriting /\ ~LiveRewriter)
      <3>1. g_aof_fd = aofpath /\ file'[aofpath] = executed'
        BY <2>2, <2>3, <2>4, <2>8, SMTT(30) DEF CleanInv, TypeOK
      <3>2. \A c \in Child : Rewriting(c) => snap[c] \o g_rewrite_buf' = executed'
        <4> SUFFICES ASSUME NEW c \in Child, Rewriting(c)
                     PROVE  snap[c] \o g_rewrite_buf' = executed'
          OBVIOUS
        <4>1. g_aof_rewriting /\ snap[c] \o g_rewrite_buf = executed
          BY DEF CleanInv
        <4>2. snap[c] \in Seq(Frame)
          BY DEF TypeOK
        <4>3. QED
          BY <2>3, <2>4, <2>6, <4>1, <4>2, ZenonT(40)
      <3>3. tmppath \in Inode => file'[tmppath] = file[tmppath]
        BY <2>2, <2>3, <3>1 DEF CleanInv, TypeOK
      <3>4. QED
        <4>1. \A p \in Proc :
                /\ pc[p] = "write" => tmpfd[p] = tmppath /\ file'[tmppath] = <<>>
                /\ pc[p] = "rename" => tmppath # NoInode /\ file'[tmppath] = snap[p]
          BY <3>3 DEF CleanInv, TypeOK
        <4>2. ~g_aof_rewriting => g_rewrite_buf' = <<>>
          BY <2>3 DEF CleanInv
        <4>3. ~Rewriting(Server)
          BY <2>4
        <4>4. QED
          BY <2>4, <2>5, <2>8, <3>1, <3>2, <4>1, <4>2, <4>3, Zenon DEF CleanInv
    <2>9. QED
      BY <2>7, <2>8
  <1>2. CASE cmd_rewriteaof
    BY <1>2, ZenonT(40) DEF CleanInv, TypeOK, cmd_rewriteaof, Note, memVars, diskVars
  <1>3. CASE cmd_save
    BY <1>3 DEF CleanInv, TypeOK, cmd_save, procVars, memVars, ghostVars
  <1>4. ASSUME NEW c \in Child, cmd_bgrewriteaof(c)
        PROVE  CleanInv'
    BY <1>4, ConcatEmptySeq DEF CleanInv, TypeOK, cmd_bgrewriteaof, diskVars
  <1>5. ASSUME NEW c \in Child, cmd_bgsave(c)
        PROVE  CleanInv'
    BY <1>5, Zenon DEF CleanInv, TypeOK, cmd_bgsave, memVars, diskVars
  <1>6. ASSUME NEW c \in Child, SaveExit(c)
        PROVE  CleanInv'
    BY <1>6, Zenon DEF CleanInv, TypeOK, SaveExit, Exit, ghostVars
  <1>7. ASSUME NEW p \in Proc, RwOpen(p)
        PROVE  CleanInv'
    <2>1. PICK i \in IF tmppath = NoInode THEN Inode \ InUse ELSE {tmppath} :
            /\ tmppath' = i
            /\ tmpfd' = [tmpfd EXCEPT ![p] = i]
            /\ file' = [file EXCEPT ![i] = <<>>]
      BY <1>7, Zenon DEF RwOpen
    <2>2. /\ pc' = [pc EXCEPT ![p] = "write"] /\ Rewriting(p)
          /\ UNCHANGED <<snap, store, g_aof_fd, g_aof_rewriting, g_rewrite_buf,
                         aofpath, executed>>
      BY <1>7 DEF RwOpen, memVars, ghostVars
    <2>3. i \in Inode /\ i # aofpath /\ i # g_aof_fd
      BY <2>1, AofAssumption DEF CleanInv, TypeOK, InUse
    <2>4. file'[aofpath] = file[aofpath] /\ file'[i] = <<>>
      BY <2>1, <2>3, SMTT(30) DEF TypeOK
    <2>5. /\ \A q \in Proc : Rewriting(q)' <=> Rewriting(q)
          /\ LiveRewriter' <=> LiveRewriter
          /\ Up' <=> Up
          /\ \A c \in Child :
               pc'[c] \in {"none", "save", "zombie", "open", "write", "rename"}
      BY <2>2, SMTT(30) DEF CleanInv, TypeOK
    <2>6. \A q \in Proc : /\ pc'[q] = "write" => q = p /\ tmpfd'[q] = i
                          /\ pc'[q] # "rename"
      BY <2>1, <2>2, SMTT(30) DEF CleanInv, TypeOK
    <2> HIDE DEF Rewriting, LiveRewriter, Up
    <2>7. QED
      BY <2>1, <2>2, <2>3, <2>4, <2>5, <2>6, SMTT(30) DEF CleanInv, TypeOK
  <1>8. ASSUME NEW p \in Proc, RwWrite(p)
        PROVE  CleanInv'
    <2>1. tmpfd[p] = tmppath /\ tmppath \in Inode /\ file[tmppath] = <<>>
      BY <1>8 DEF CleanInv, TypeOK, RwWrite
    <2>2. Overlay(snap[p], <<>>) = {snap[p]}
      BY DEF Overlay, TypeOK
    <2>3. file' = [file EXCEPT ![tmppath] = snap[p]]
      BY <1>8, <2>1, <2>2, ZenonT(40) DEF RwWrite
    <2>4. QED
      BY <1>8, <2>1, <2>3, SMTT(30) DEF CleanInv, TypeOK, RwWrite, memVars, ghostVars
  <1>9. ASSUME NEW p \in Proc, RwRename(p)
        PROVE  CleanInv'
    <2>1. /\ tmppath \in Inode /\ tmppath # aofpath
          /\ file[tmppath] = snap[p]
          /\ aofpath' = tmppath /\ tmppath' = NoInode
          /\ UNCHANGED <<store, g_aof_rewriting, executed>>
      BY <1>9 DEF CleanInv, TypeOK, RwRename
    <2>2. CASE p = Server
      <3>1. ~g_aof_rewriting /\ g_rewrite_buf = <<>> /\ snap[p] = executed
        BY <1>9, <2>2, ZenonT(40) DEF CleanInv, RwRename
      <3>2. /\ g_aof_fd' = tmppath
            /\ file' = [file EXCEPT ![tmppath] = @ \o g_rewrite_buf]
            /\ g_rewrite_buf' = <<>>
        BY <1>9, <2>2, ZenonT(40) DEF RwRename, aof_reopen
      <3>3. file'[tmppath] = executed
        BY <2>1, <3>1, <3>2, ConcatEmptySeq DEF TypeOK
      <3>4. /\ pc' = [pc EXCEPT ![Server] = "serve"]
            /\ UNCHANGED tmpfd
        BY <1>9, <2>2 DEF RwRename
      <3>5. /\ Rewriting(Server)
            /\ \A q \in Proc : ~Rewriting(q)' /\ pc'[q] \notin {"write", "rename"}
            /\ ~LiveRewriter' /\ Up'
            /\ \A c \in Child : pc'[c] = pc[c]
        BY <1>9, <2>2, <3>4 DEF CleanInv, TypeOK, RwRename
      <3>6. store = executed
        <4>1. Up
          BY <3>5
        <4> HIDE DEF Rewriting, LiveRewriter, Up
        <4>2. QED
          BY <4>1, Zenon DEF CleanInv
      <3> HIDE DEF Rewriting, LiveRewriter, Up
      <3>7. QED
        BY <2>1, <3>1, <3>2, <3>3, <3>5, <3>6, ZenonT(40) DEF CleanInv
    <2>3. CASE p # Server
      <3>1. /\ p \in Child /\ Rewriting(p) /\ g_aof_rewriting /\ Up
            /\ g_aof_fd = aofpath /\ ~Rewriting(Server)
        BY <1>9, <2>3 DEF CleanInv, RwRename
      <3>2. /\ pc' = [pc EXCEPT ![p] = "zombie"]
            /\ snap' = [snap EXCEPT ![p] = <<>>]
            /\ tmpfd' = [tmpfd EXCEPT ![p] = NoInode]
            /\ UNCHANGED <<g_aof_fd, g_rewrite_buf, file>>
        BY <1>9, <2>3, <3>1, SMTT(30) DEF RwRename, Exit
      <3>3. \A q \in Proc : pc'[q] \notin {"open", "write", "rename"}
        BY <3>1, <3>2, SMTT(30) DEF CleanInv, TypeOK
      <3>4. file'[aofpath'] \o g_rewrite_buf' = executed'
        BY <2>1, <3>1, <3>2, ZenonT(40) DEF CleanInv
      <3>5. QED
        BY <2>1, <3>1, <3>2, <3>3, <3>4, SMTT(30) DEF CleanInv, TypeOK
    <2>4. QED
      BY <2>2, <2>3
  <1>10. ASSUME NEW p \in Proc, RwFail(p)
         PROVE  CleanInv'
    <2>1. p = Server
      BY <1>10 DEF RwFail, Note
    <2>2. /\ pc' = [pc EXCEPT ![Server] = "serve"] /\ Rewriting(Server)
          /\ UNCHANGED <<store, g_aof_fd, g_aof_rewriting, g_rewrite_buf, file, aofpath,
                         tmppath, executed>>
          /\ \A q \in Child : snap'[q] = snap[q] /\ tmpfd'[q] = tmpfd[q]
      BY <1>10, <2>1, SMTT(30) DEF RwFail, diskVars, TypeOK
    <2>3. /\ \A q \in Proc : ~Rewriting(q)'
          /\ ~LiveRewriter /\ ~LiveRewriter' /\ Up /\ Up'
          /\ \A c \in Child : pc'[c] = pc[c]
          /\ \A q \in Proc : pc'[q] \notin {"write", "rename"}
      BY <2>2, ZenonT(40) DEF CleanInv, TypeOK
    <2> HIDE DEF Rewriting, LiveRewriter, Up
    <2>4. QED
      BY <2>2, <2>3, Zenon DEF CleanInv
  <1>11. CASE ReapBegin
    BY <1>11, SMTT(30) DEF CleanInv, TypeOK, ReapBegin, diskVars, ghostVars
  <1>12. CASE ReapFinish
    <2>1. /\ pc' = [p \in Proc |-> IF p = Server THEN "serve"
                                   ELSE IF pc[p] = "zombie" THEN "none" ELSE pc[p]]
          /\ g_aof_rewriting' = FALSE
          /\ UNCHANGED <<snap, tmpfd, store, aofpath, tmppath, executed>>
          /\ pc[Server] = "reap"
      BY <1>12 DEF ReapFinish
    <2>2. CASE g_aof_rewriting
      <3>1. ~LiveRewriter
        BY <1>12, <2>2, Zenon DEF ReapFinish, aof_reopen
      <3>2. /\ g_aof_fd' = aofpath
            /\ file' = [file EXCEPT ![aofpath] = @ \o g_rewrite_buf]
            /\ g_rewrite_buf' = <<>>
        BY <1>12, <2>2, Zenon DEF ReapFinish, aof_reopen
      <3>3. file'[aofpath] = executed
        BY <2>2, <3>1, <3>2, SMTT(30) DEF CleanInv, TypeOK
      <3>4. QED
        BY <2>1, <2>2, <3>1, <3>2, <3>3, SMTT(30) DEF CleanInv, TypeOK
    <2>3. CASE ~g_aof_rewriting
      <3>1. UNCHANGED <<g_aof_fd, file, g_rewrite_buf>>
        BY <1>12, <2>3, SMTT(30) DEF ReapFinish
      <3>2. /\ \A q \in Proc : Rewriting(q)' <=> Rewriting(q)
            /\ LiveRewriter' <=> LiveRewriter
            /\ Up /\ Up'
            /\ \A c \in Child :
                 pc'[c] \in {"none", "save", "zombie", "open", "write", "rename"}
            /\ \A q \in Proc : /\ pc'[q] = "write" => pc[q] = "write"
                               /\ pc'[q] = "rename" => pc[q] = "rename"
        BY <2>1, SMTT(30) DEF CleanInv, TypeOK
      <3> HIDE DEF Rewriting, LiveRewriter, Up
      <3>3. QED
        BY <2>1, <2>3, <3>1, <3>2 DEF CleanInv
    <2>4. QED
      BY <2>2, <2>3
  <1>13. CASE Crash
    BY <1>13, Zenon DEF CleanInv, TypeOK, Crash, ProcessEnds, Note
  <1>14. CASE CrashInAppend
    BY <1>14 DEF CrashInAppend
  <1>15. CASE Shutdown
    BY <1>15, ZenonT(40) DEF CleanInv, TypeOK, Shutdown, ProcessEnds, Note
  <1>16. CASE server_run
    <2>1. file[aofpath] = executed
      BY <1>16, ZenonT(40) DEF CleanInv, server_run
    <2>2. Replay(executed) = executed
      BY ReplayWhole, SMTT(30) DEF CleanInv, TypeOK
    <2>3. rdb = <<>>
      BY <1>16, Zenon DEF server_run, Note
    <2>4. store' = executed
      BY <1>16, <2>1, <2>2, <2>3, ConcatEmptySeq DEF server_run, TypeOK
    <2>5. QED
      BY <1>16, <2>1, <2>4, Zenon DEF CleanInv, TypeOK, server_run, diskVars
  <1>17. CASE UNCHANGED vars
    BY <1>17, Zenon DEF CleanInv, vars, procVars, memVars, diskVars, ghostVars
  <1>18. QED
    BY SMTT(30), <1>1, <1>2, <1>3, <1>4, <1>5, <1>6, <1>7, <1>8, <1>9, <1>10, <1>11, <1>12,
       <1>13, <1>14, <1>15, <1>16, <1>17 DEF Next, Step

\* The log, its temporary file, the rewrite buffer and the processes at work on
\* them agree phase by phase in every behaviour that has met no mishap.
THEOREM CompleteByPhaseHolds == Spec => []CompleteByPhase
  <1>1. Init => CompleteByPhase
    <2> SUFFICES ASSUME Init PROVE CleanInv
      BY DEF CompleteByPhase
    <2> USE AofAssumption DEF Proc
    <2>1. \A p \in Proc : ~Rewriting(p) /\ (p # Server => pc[p] = "none")
      BY DEF Init, Rewriting
    <2>2. ~LiveRewriter
      BY <2>1 DEF LiveRewriter
    <2>3. \A i \in 1 .. Len(executed) : executed[i] # Torn
      BY DEF Init
    <2>4. ~Rewriting(Server)
      BY <2>1
    <2>5. \A p \in Proc : pc[p] \notin {"write", "rename"}
      BY <2>1 DEF Rewriting
    <2>6. QED
      BY <2>1, <2>2, <2>3, <2>4, <2>5, Zenon DEF Init, CleanInv
  <1>2. TypeOK /\ CompleteByPhase /\ [Next]_vars => CompleteByPhase'
    BY MishapsGrow, CleanStep DEF CompleteByPhase
  <1>3. QED
    BY <1>1, <1>2, TypeCorrect, PTL DEF Spec

\* A log described by CleanInv replays to the executed writes (aof_replay).
LEMMA CleanRecoverable ==
    ASSUME TypeOK, CleanInv
    PROVE  Recoverable = executed
  <1> USE DEF TypeOK
  <1>1. \A i \in 1 .. Len(executed) : executed[i] # Torn
    BY DEF CleanInv
  <1>2. CASE g_aof_rewriting /\ ~LiveRewriter
    <2>1. file[aofpath] \o g_rewrite_buf = executed /\ g_aof_fd # aofpath
      BY <1>2 DEF CleanInv
    <2>2. \A i \in 1 .. Len(file[aofpath]) : file[aofpath][i] # Torn
      BY <1>1, <2>1, ConcatProperties
    <2>3. Replay(file[aofpath]) = file[aofpath]
      BY <2>2, ReplayWhole
    <2>4. QED
      BY <1>2, <2>1, <2>3, SMTT(30) DEF Recoverable, OnDisk, Swapped
  <1>3. CASE ~(g_aof_rewriting /\ ~LiveRewriter)
    <2>1. file[aofpath] = executed /\ ~Swapped
      BY <1>3 DEF CleanInv, Swapped
    <2>2. Replay(executed) = executed
      BY <1>1, ReplayWhole
    <2>3. QED
      BY <2>1, <2>2, ConcatEmptySeq, SMTT(30) DEF Recoverable, OnDisk
  <1>4. QED
    BY <1>2, <1>3

\* No write is lost, duplicated or reordered by the log or by its rewrites, and a
\* running server holds every one of them, unless one of the listed mishaps happens
\* (aof.c 23-26, 73-107, server.c 493-512).
THEOREM LogCompleteHolds == Spec => []LogComplete
  <1>1. TypeOK /\ CompleteByPhase => LogComplete
    BY CleanRecoverable DEF CompleteByPhase, CleanInv, LogComplete
  <1>2. QED
    BY <1>1, TypeCorrect, CompleteByPhaseHolds, PTL

-----------------------------------------------------------------------------
\* The strengthening of LogsToLiveFile: while the server runs, a live rewrite child
\* means that g_aof_rewriting is set (db.c 792-806, server.c 61-64).
LiveInv ==
    {"early_reap", "io_error"} \cap mishaps = {} /\ Up
      => /\ ~g_aof_rewriting => g_aof_fd = aofpath
         /\ LiveRewriter => g_aof_rewriting

\* Outside a background rewrite the server appends to the file the next start
\* will read, whatever else has gone wrong (server.c 61-64, db.c 772-776).
THEOREM LogsToLiveFileHolds == Spec => []LogsToLiveFile
  <1>1. Init => LiveInv
    BY AofAssumption, SMTT(30) DEF Init, LiveInv, LiveRewriter, Rewriting, Up, Proc
  <1>2. ASSUME TypeOK, LiveInv, [Next]_vars
        PROVE  LiveInv'
    <2> SUFFICES ASSUME {"early_reap", "io_error"} \cap mishaps' = {}, Up'
                 PROVE  /\ ~g_aof_rewriting' => g_aof_fd' = aofpath'
                        /\ LiveRewriter' => g_aof_rewriting'
      BY DEF LiveInv
    <2>1. {"early_reap", "io_error"} \cap mishaps = {}
      BY <1>2, MishapsGrow, SMTT(30)
    <2> USE <1>2, <2>1, AofAssumption DEF LiveInv, LiveRewriter, Rewriting, Up, Proc, TypeOK
    <2>2. CASE dispatch_command
      BY <2>2, SMTT(30) DEF dispatch_command, procVars
    <2>3. CASE cmd_rewriteaof
      BY <2>3, SMTT(30) DEF cmd_rewriteaof, memVars, diskVars
    <2>4. CASE cmd_save
      BY <2>4, SMTT(30) DEF cmd_save, procVars, memVars
    <2>5. ASSUME NEW c \in Child, cmd_bgrewriteaof(c) \/ cmd_bgsave(c) \/ SaveExit(c)
          PROVE  /\ ~g_aof_rewriting' => g_aof_fd' = aofpath'
                 /\ LiveRewriter' => g_aof_rewriting'
      BY <2>5, SMTT(30) DEF cmd_bgrewriteaof, cmd_bgsave, SaveExit, Exit, memVars, diskVars
    <2>6. ASSUME NEW p \in Proc, RwOpen(p) \/ RwWrite(p) \/ RwFail(p)
          PROVE  /\ ~g_aof_rewriting' => g_aof_fd' = aofpath'
                 /\ LiveRewriter' => g_aof_rewriting'
      BY <2>6, Zenon DEF RwOpen, RwWrite, RwFail, Exit, memVars, diskVars
    <2>7. ASSUME NEW p \in Proc, RwRename(p)
          PROVE  /\ ~g_aof_rewriting' => g_aof_fd' = aofpath'
                 /\ LiveRewriter' => g_aof_rewriting'
      BY <2>7, ZenonT(40) DEF RwRename, Exit, aof_reopen
    <2>8. CASE ReapBegin
      BY <2>8 DEF ReapBegin, diskVars
    <2>9. CASE ReapFinish
      BY <2>9, ZenonT(40) DEF ReapFinish, aof_reopen
    <2>10. CASE Crash \/ CrashInAppend \/ Shutdown
      BY <2>10 DEF Crash, CrashInAppend, Shutdown, ProcessEnds
    <2>11. CASE server_run
      BY <2>11, SMTT(30) DEF server_run, diskVars
    <2>12. CASE UNCHANGED vars
      BY <2>12 DEF vars, procVars, memVars, diskVars
    <2>13. QED
      BY <2>2, <2>3, <2>4, <2>5, <2>6, <2>7, <2>8, <2>9, <2>10, <2>11, <2>12, SMTT(30)
      DEF Next, Step
  <1>3. LiveInv => LogsToLiveFile
    BY DEF LiveInv, LogsToLiveFile
  <1>4. QED
    BY <1>1, <1>2, <1>3, TypeCorrect, PTL DEF Spec
-----------------------------------------------------------------------------
\* Up to its first mishap the log with its rewrites, crashes and restarts implements
\* the abstract durable log (aof.h 7-9): a write appends to log and memory at once,
\* stopping loses memory only, starting restores it, and everything else stutters.
THEOREM Refinement == Spec => ImplementsDurableLog
  <1>1. Init => Durable!Init
    <2> SUFFICES ASSUME Init PROVE Durable!Init
      OBVIOUS
    <2>1. Recoverable = <<>>
      BY DEF Init, Recoverable, OnDisk, Swapped, Replay
    <2>2. QED
      BY <2>1, AofAssumption DEF Init, Durable!Init, Up, Proc
  <1>2. ASSUME TypeOK, CompleteByPhase', LogComplete, LogComplete', [Next]_vars,
               mishaps' = {}
        PROVE  [Durable!Next]_(Durable!vars)
    <2>1. Recoverable = executed /\ Recoverable' = executed'
      BY <1>2, MishapsGrow, SMTT(30) DEF LogComplete
    <2>2. Up' => store' = executed'
      BY <1>2 DEF CompleteByPhase, CleanInv
    <2>3. CASE dispatch_command
      <3>1. Durable!Execute(Len(executed) + 1)
        BY <2>1, <2>3 DEF Durable!Execute, dispatch_command, procVars, Up
      <3>2. Len(executed) + 1 \in 1 .. MaxWrites
        BY <1>2, <2>3, AofAssumption DEF dispatch_command, TypeOK
      <3>3. QED
        BY <3>1, <3>2 DEF Durable!Next
    <2>4. CASE Crash \/ CrashInAppend \/ Shutdown
      <3>1. Up /\ ~Up' /\ store' = <<>> /\ executed' = executed
        BY <2>4 DEF Crash, CrashInAppend, Shutdown, ProcessEnds, Up, Proc
      <3>2. Durable!Stop
        BY <2>1, <3>1 DEF Durable!Stop, Up
      <3>3. QED
        BY <3>2, SMTT(30) DEF Durable!Next
    <2>5. CASE server_run
      <3>1. ~Up /\ Up' /\ executed' = executed
        BY <1>2, <2>5 DEF server_run, Up, TypeOK, Proc
      <3>2. Durable!Start
        BY <2>1, <2>2, <3>1 DEF Durable!Start, Up
      <3>3. QED
        BY <3>2 DEF Durable!Next
    <2>6. ASSUME executed' = executed, store' = store, Up' = Up
          PROVE  [Durable!Next]_(Durable!vars)
      BY <2>1, <2>6 DEF Durable!vars
    <2>7. CASE cmd_rewriteaof \/ cmd_save \/ ReapBegin \/ ReapFinish \/ UNCHANGED vars
      <3>1. executed' = executed /\ store' = store /\ Up' = Up
        BY <1>2, <2>7, AofAssumption
        DEF cmd_rewriteaof, cmd_save, ReapBegin, ReapFinish, vars, procVars, memVars,
            diskVars, ghostVars, Up, TypeOK, Proc
      <3>2. QED
        BY <2>6, <3>1, SMTT(30)
    <2>8. ASSUME NEW c \in Child, cmd_bgrewriteaof(c) \/ cmd_bgsave(c) \/ SaveExit(c)
          PROVE  [Durable!Next]_(Durable!vars)
      <3>1. executed' = executed /\ store' = store /\ Up' = Up
        BY <1>2, <2>8, AofAssumption, Zenon
        DEF cmd_bgrewriteaof, cmd_bgsave, SaveExit, Exit, memVars, ghostVars, Up, TypeOK, Proc
      <3>2. QED
        BY <2>6, <3>1, SMTT(30)
    <2>9. ASSUME NEW p \in Proc, RwOpen(p) \/ RwWrite(p) \/ RwRename(p) \/ RwFail(p)
          PROVE  [Durable!Next]_(Durable!vars)
      <3>1. executed' = executed /\ store' = store
        BY <2>9, Zenon DEF RwOpen, RwWrite, RwRename, RwFail, memVars, ghostVars
      <3>2. Up' = Up
        BY <1>2, <2>9, AofAssumption, Zenon
        DEF RwOpen, RwWrite, RwRename, RwFail, Rewriting, Exit, Up, TypeOK, Proc
      <3>3. QED
        BY <2>6, <3>1, <3>2, SMTT(30)
    <2>10. QED
      BY <1>2, <2>3, <2>4, <2>5, <2>7, <2>8, <2>9 DEF Next, Step
  <1>3. QED
    BY <1>1, <1>2, TypeCorrect, CompleteByPhaseHolds, LogCompleteHolds, PTL
    DEF Spec, ImplementsDurableLog
=============================================================================

-------------------------------- MODULE Aof --------------------------------
(***************************************************************************)
(* The append-only log of miniredis: logging a write before it is executed *)
(* (db.c dispatch_command, aof.c), the two ways of rewriting the log       *)
(* (REWRITEAOF in the server process, BGREWRITEAOF in a forked child), the *)
(* reaping of children by the event loop (server.c reap_children), and     *)
(* stopping, crashing and starting again (server.c server_run).            *)
(*                                                                         *)
(* Data.  A write command is a number, numbered in the order the server    *)
(* executes it, and a dataset is the sequence of the writes that produced  *)
(* it.  Two equal sequences stand for equal datasets whatever the commands *)
(* compute, as long as they are deterministic.  A log file is the sequence *)
(* of its frames; the compact stream a rewrite produces for a dataset is   *)
(* represented by the writes that dataset stands for, because that is what *)
(* replaying it into an empty store gives.  Torn is the fragment of a      *)
(* frame that an interrupted or failed write(2) leaves behind.             *)
(***************************************************************************)
EXTENDS Naturals, Sequences

CONSTANTS
    Child,       \* process ids of forked children
    Inode,       \* inodes of the directory that holds the log
    NoInode,     \* no inode: a closed descriptor or a missing name
    Server,      \* the server process
    RdbOn,       \* --rdb was given: g_rdb_path is set
    Allowed,     \* bound: the combinations of mishaps a run may meet
    MaxWrites,   \* bound: write commands issued by clients
    MaxForks,    \* bound: REWRITEAOF, BGREWRITEAOF and BGSAVE commands issued
    MaxStore     \* bound: history a start may load, and a torn log's length

ASSUME AofAssumption ==
    /\ NoInode \notin Inode
    /\ Server \notin Child
    /\ RdbOn \in BOOLEAN
    /\ {} \in Allowed
    /\ MaxWrites \in Nat /\ MaxForks \in Nat /\ MaxStore \in Nat

Torn == 0
Frame == Nat
Proc == Child \cup {Server}

\* The ways a run can leave the path on which the log is complete. They are
\* recorded, never read, by the actions.
Mishap == {"early_reap",        \* aof_reopen ran while a rewrite child was alive
           "nested_rewrite",    \* REWRITEAOF while a background rewrite is in flight
           "child_failed",      \* a rewrite child failed
           "crash_in_rewrite",  \* kill -9 while a background rewrite is in flight
           "stop_in_rewrite",   \* SIGTERM while a background rewrite is in flight
           "torn_crash",        \* kill -9 in the middle of appending a frame
           "io_error",          \* write(2) or open(2) of the log failed
           "rdb_base"}          \* the log was replayed on top of a snapshot

VARIABLES
    pc,               \* where each process is
    snap,             \* the dataset a process is serialising
    tmpfd,            \* its descriptor of <path>.rewrite.tmp
    store,            \* the dataset of the server process
    g_aof_fd,         \* inode the server appends to
    g_aof_rewriting,
    g_rewrite_buf,
    g_sigchld,
    file,             \* frames in each inode
    aofpath,          \* inode named by g_aof_path
    tmppath,          \* inode named by <path>.rewrite.tmp
    rdb,              \* dataset dump.rdb loads to: empty when there is no file
    forks,            \* commands counted against MaxForks
    executed,         \* history variable: every write ever executed
    mishaps           \* history variable: a subset of Mishap

memVars  == <<store, g_aof_fd, g_aof_rewriting, g_rewrite_buf, g_sigchld>>
diskVars == <<file, aofpath, tmppath, rdb>>
procVars == <<pc, snap, tmpfd>>
ghostVars == <<forks, executed, mishaps>>
vars == <<procVars, memVars, diskVars, ghostVars>>

Up == pc[Server] # "down"
Rewriting(p) == pc[p] \in {"open", "write", "rename"}
LiveRewriter == \E c \in Child : Rewriting(c)
Note(m, cond) == mishaps' = IF cond THEN mishaps \cup {m} ELSE mishaps

Init ==
    /\ pc = [p \in Proc |-> IF p = Server THEN "serve" ELSE "none"]
    /\ snap = [p \in Proc |-> <<>>]
    /\ tmpfd = [p \in Proc |-> NoInode]
    /\ store = <<>>
    /\ g_aof_rewriting = FALSE /\ g_rewrite_buf = <<>> /\ g_sigchld = FALSE
    /\ file = [i \in Inode |-> <<>>]
    /\ aofpath \in Inode /\ g_aof_fd = aofpath
    /\ tmppath = NoInode
    /\ rdb = <<>>
    /\ forks = 0 /\ executed = <<>> /\ mishaps = {}
-----------------------------------------------------------------------------
(***************************************************************************)
(* dispatch_command for a command whose is_write flag is set.  The frame   *)
(* is appended first; the command is executed whether or not the append    *)
(* succeeded, and only a successful append is mirrored into the rewrite    *)
(* buffer.  With g_aof_fd closed nothing is logged.                        *)
(***************************************************************************)
aof_append_command_unmirrored(w) ==    \* mutant: the rewrite buffer is forgotten
    /\ file' = [file EXCEPT ![g_aof_fd] = Append(@, w)]
    /\ UNCHANGED <<g_rewrite_buf, mishaps>>

aof_append_command(w) ==
    \/ /\ file' = [file EXCEPT ![g_aof_fd] = Append(@, w)]
       /\ g_rewrite_buf' = IF g_aof_rewriting THEN Append(g_rewrite_buf, w)
                                              ELSE g_rewrite_buf
       /\ UNCHANGED mishaps
    \/ /\ \/ UNCHANGED file
          \/ file' = [file EXCEPT ![g_aof_fd] = Append(@, Torn)]
       /\ Note("io_error", TRUE)
       /\ UNCHANGED g_rewrite_buf

dispatch_command ==
    LET w == Len(executed) + 1 IN
    /\ pc[Server] = "serve"
    /\ Len(executed) < MaxWrites
    /\ IF g_aof_fd # NoInode
       THEN aof_append_command(w)
       ELSE UNCHANGED <<file, g_rewrite_buf, mishaps>>
    /\ store' = Append(store, w)
    /\ executed' = Append(executed, w)
    /\ UNCHANGED <<procVars, g_aof_fd, g_aof_rewriting, g_sigchld,
                   aofpath, tmppath, rdb, forks>>

(***************************************************************************)
(* aof_reopen: close the descriptor, open whatever inode g_aof_path names  *)
(* now, append the rewrite buffer to it and clear the buffer.  When open   *)
(* fails the descriptor stays closed and the buffer is kept; when the      *)
(* flush fails part of it is on disk and the buffer is dropped.            *)
(***************************************************************************)
aof_reopen_unflushed(path, noted) ==    \* mutant: the buffer is dropped
    /\ g_aof_fd' = path
    /\ g_rewrite_buf' = <<>>
    /\ mishaps' = noted
    /\ UNCHANGED file

aof_reopen_uncleared(path, noted) ==    \* mutant: dynbuf_clear is missing
    /\ g_aof_fd' = path
    /\ file' = [file EXCEPT ![path] = @ \o g_rewrite_buf]
    /\ mishaps' = noted
    /\ UNCHANGED g_rewrite_buf

aof_reopen_samefd(path, noted) ==    \* mutant: the new descriptor is not kept
    /\ file' = [file EXCEPT ![path] = @ \o g_rewrite_buf]
    /\ g_rewrite_buf' = <<>>
    /\ mishaps' = noted
    /\ UNCHANGED g_aof_fd

aof_reopen(path, noted) ==
    \/ /\ g_aof_fd' = path
       /\ file' = [file EXCEPT ![path] = @ \o g_rewrite_buf]
       /\ g_rewrite_buf' = <<>>
       /\ mishaps' = noted
    \/ /\ g_aof_fd' = NoInode
       /\ UNCHANGED <<file, g_rewrite_buf>>
       /\ mishaps' = noted \cup {"io_error"}
    \/ /\ g_rewrite_buf # <<>>
       /\ g_aof_fd' = path
       /\ \E n \in 0 .. Len(g_rewrite_buf) - 1 :
            file' = [file EXCEPT ![path] = @ \o SubSeq(g_rewrite_buf, 1, n) \o <<Torn>>]
       /\ g_rewrite_buf' = <<>>
       /\ mishaps' = noted \cup {"io_error"}
-----------------------------------------------------------------------------
(***************************************************************************)
(* Starting a rewrite.  cmd_rewriteaof runs aof_rewrite in the server      *)
(* itself and does not look at g_aof_rewriting; cmd_bgrewriteaof does, and *)
(* forks.  cmd_bgsave forks a snapshot child without any such guard.       *)
(***************************************************************************)
cmd_rewriteaof ==
    /\ pc[Server] = "serve"
    /\ forks < MaxForks /\ forks' = forks + 1
    /\ pc' = [pc EXCEPT ![Server] = "open"]
    /\ snap' = [snap EXCEPT ![Server] = store]
    /\ Note("nested_rewrite", g_aof_rewriting \/ LiveRewriter)
    /\ UNCHANGED <<tmpfd, memVars, diskVars, executed>>

cmd_bgrewriteaof(c) ==
    /\ pc[Server] = "serve"
    /\ ~g_aof_rewriting
    /\ pc[c] = "none"
    /\ forks < MaxForks /\ forks' = forks + 1
    /\ pc' = [pc EXCEPT ![c] = "open"]
    /\ snap' = [snap EXCEPT ![c] = store]
    /\ g_aof_rewriting' = TRUE
    /\ UNCHANGED <<tmpfd, store, g_aof_fd, g_rewrite_buf, g_sigchld, diskVars,
                   executed, mishaps>>

cmd_bgsave(c) ==
    /\ RdbOn
    /\ pc[Server] = "serve"
    /\ pc[c] = "none"
    /\ forks < MaxForks /\ forks' = forks + 1
    /\ pc' = [pc EXCEPT ![c] = "save"]
    /\ snap' = [snap EXCEPT ![c] = store]
    /\ UNCHANGED <<tmpfd, memVars, diskVars, executed, mishaps>>

\* SAVE runs rdb_save in the server.
cmd_save ==
    /\ RdbOn
    /\ pc[Server] = "serve"
    /\ rdb' \in {store, rdb}
    /\ UNCHANGED <<procVars, memVars, file, aofpath, tmppath, ghostVars>>

Exit_silent(c) ==    \* mutant: no SIGCHLD handler
    /\ pc' = [pc EXCEPT ![c] = IF pc[Server] = "down" THEN "none" ELSE "zombie"]
    /\ tmpfd' = [tmpfd EXCEPT ![c] = NoInode]
    /\ snap' = [snap EXCEPT ![c] = <<>>]
    /\ UNCHANGED g_sigchld

\* A child calls _exit: the kernel raises SIGCHLD in the parent, if it still runs,
\* and keeps a zombie until waitpid; without the parent init reaps the child.
Exit(c) ==
    /\ pc' = [pc EXCEPT ![c] = IF pc[Server] = "down" THEN "none" ELSE "zombie"]
    /\ g_sigchld' = (pc[Server] # "down")
    /\ tmpfd' = [tmpfd EXCEPT ![c] = NoInode]
    /\ snap' = [snap EXCEPT ![c] = <<>>]

\* The snapshot child's rdb_save took effect or failed (its use of a shared
\* temporary file is the subject of module Rdb).
SaveExit(c) ==
    /\ pc[c] = "save"
    /\ Exit(c)
    /\ rdb' \in {snap[c], rdb}
    /\ UNCHANGED <<store, g_aof_fd, g_aof_rewriting, g_rewrite_buf,
                   file, aofpath, tmppath, ghostVars>>
-----------------------------------------------------------------------------
(***************************************************************************)
(* aof_rewrite, executed step by step by the server or by a child, so that *)
(* two processes can be in it at once: both use the same temporary name.   *)
(***************************************************************************)
InUse == {aofpath, tmppath, g_aof_fd} \cup {tmpfd[p] : p \in Proc}

RwOpen_nocreate(p) ==    \* mutant: O_CREAT is missing and the result unchecked
    /\ pc[p] = "open"
    /\ tmpfd' = [tmpfd EXCEPT ![p] = tmppath]
    /\ file' = [i \in Inode |-> IF i = tmppath THEN <<>> ELSE file[i]]
    /\ pc' = [pc EXCEPT ![p] = "write"]
    /\ UNCHANGED <<snap, memVars, aofpath, tmppath, rdb, ghostVars>>

\* open(tmppath, O_CREAT | O_TRUNC)
RwOpen(p) ==
    /\ pc[p] = "open"
    /\ \E i \in IF tmppath = NoInode THEN Inode \ InUse ELSE {tmppath} :
         /\ tmppath' = i
         /\ tmpfd' = [tmpfd EXCEPT ![p] = i]
         /\ file' = [file EXCEPT ![i] = <<>>]
    /\ pc' = [pc EXCEPT ![p] = "write"]
    /\ UNCHANGED <<snap, memVars, aofpath, rdb, ghostVars>>

\* What is in a file that held old after stream is written from offset 0: bytes
\* past the end of the new stream stay, cut inside a frame or between two.
Overlay(stream, old) ==
    IF stream = <<>> THEN {old}
    ELSE {stream} \cup (IF old = <<>> THEN {} ELSE
            {Append(stream, Torn)}
              \cup {stream \o SubSeq(old, k, Len(old)) : k \in 2 .. Len(old)})

\* The dict_iter loop over aof_rewrite_key, then fsync and close.
RwWrite(p) ==
    /\ pc[p] = "write"
    /\ \E new \in Overlay(snap[p], file[tmpfd[p]]) :
         file' = [file EXCEPT ![tmpfd[p]] = new]
    /\ tmpfd' = [tmpfd EXCEPT ![p] = NoInode]
    /\ pc' = [pc EXCEPT ![p] = "rename"]
    /\ UNCHANGED <<snap, memVars, aofpath, tmppath, rdb, ghostVars>>

\* rename(tmppath, path) succeeds; REWRITEAOF goes on with aof_reopen.
RwRename(p) ==
    /\ pc[p] = "rename"
    /\ tmppath # NoInode
    /\ aofpath' = tmppath
    /\ tmppath' = NoInode
    /\ IF p = Server
       THEN /\ pc' = [pc EXCEPT ![Server] = "serve"]
            /\ aof_reopen(tmppath, mishaps)
            /\ snap' = [snap EXCEPT ![Server] = <<>>]
            /\ UNCHANGED <<tmpfd, g_sigchld>>
       ELSE /\ Exit(p)
            /\ UNCHANGED <<g_aof_fd, g_rewrite_buf, file, mishaps>>
    /\ UNCHANGED <<store, g_aof_rewriting, rdb, forks, executed>>

\* Any step of aof_rewrite fails, the rename with ENOENT included, or a child
\* is killed. A failed REWRITEAOF replies an error and does not reopen.
RwFail(p) ==
    /\ Rewriting(p)
    /\ IF p = Server
       THEN /\ pc' = [pc EXCEPT ![Server] = "serve"]
            /\ tmpfd' = [tmpfd EXCEPT ![Server] = NoInode]
            /\ snap' = [snap EXCEPT ![Server] = <<>>]
            /\ UNCHANGED <<g_sigchld, mishaps>>
       ELSE /\ Exit(p)
            /\ Note("child_failed", TRUE)
    /\ UNCHANGED <<store, g_aof_fd, g_aof_rewriting, g_rewrite_buf,
                   diskVars, forks, executed>>
-----------------------------------------------------------------------------
(***************************************************************************)
(* reap_children.  The flag is cleared first; a child may exit between     *)
(* that and the waitpid loop.  Whichever child was reaped, a set           *)
(* g_aof_rewriting is taken to mean that the rewrite child has finished.   *)
(***************************************************************************)
ReapBegin ==
    /\ pc[Server] = "serve"
    /\ g_sigchld
    /\ g_sigchld' = FALSE
    /\ pc' = [pc EXCEPT ![Server] = "reap"]
    /\ UNCHANGED <<snap, tmpfd, store, g_aof_fd, g_aof_rewriting, g_rewrite_buf,
                   diskVars, ghostVars>>

ReapFinish_one ==    \* mutant: waitpid is called once, not in a loop
    /\ pc[Server] = "reap"
    /\ \E c \in Child :
         /\ (\E z \in Child : pc[z] = "zombie") => pc[c] = "zombie"
         /\ pc' = [pc EXCEPT ![Server] = "serve",
                            ![c] = IF @ = "zombie" THEN "none" ELSE @]
    /\ IF g_aof_rewriting THEN aof_reopen(aofpath, mishaps)
                          ELSE UNCHANGED <<g_aof_fd, file, g_rewrite_buf, mishaps>>
    /\ g_aof_rewriting' = FALSE
    /\ UNCHANGED <<snap, tmpfd, store, g_sigchld, aofpath, tmppath, rdb, forks, executed>>

ReapFinish ==
    /\ pc[Server] = "reap"
    /\ pc' = [p \in Proc |-> IF p = Server THEN "serve"
                             ELSE IF pc[p] = "zombie" THEN "none" ELSE pc[p]]
    /\ IF g_aof_rewriting
       THEN aof_reopen(aofpath, IF LiveRewriter THEN mishaps \cup {"early_reap"}
                                                ELSE mishaps)
       ELSE UNCHANGED <<g_aof_fd, file, g_rewrite_buf, mishaps>>
    /\ g_aof_rewriting' = FALSE
    /\ UNCHANGED <<snap, tmpfd, store, g_sigchld, aofpath, tmppath, rdb,
                   forks, executed>>
-----------------------------------------------------------------------------
\* What is left of the server process once it is gone: its children go on.
ProcessEnds ==
    /\ pc' = [p \in Proc |-> IF p = Server THEN "down"
                             ELSE IF pc[p] = "zombie" THEN "none" ELSE pc[p]]
    /\ tmpfd' = [tmpfd EXCEPT ![Server] = NoInode]
    /\ snap' = [snap EXCEPT ![Server] = <<>>]
    /\ store' = <<>> /\ g_aof_fd' = NoInode
    /\ g_aof_rewriting' = FALSE /\ g_rewrite_buf' = <<>> /\ g_sigchld' = FALSE
    /\ UNCHANGED <<aofpath, tmppath, forks, executed>>

\* kill -9 between two commands or during a rewrite; page cache survives.
Crash ==
    /\ pc[Server] # "down"
    /\ ProcessEnds
    /\ Note("crash_in_rewrite", g_aof_rewriting)
    /\ UNCHANGED <<file, rdb>>

\* kill -9 inside the write(2) of aof_append_command: the command was neither
\* executed nor acknowledged, part of its frame is in the file.
CrashInAppend ==
    /\ pc[Server] = "serve"
    /\ g_aof_fd # NoInode
    /\ Len(file[g_aof_fd]) < MaxStore
    /\ ProcessEnds
    /\ file' = [file EXCEPT ![g_aof_fd] = Append(@, Torn)]
    /\ mishaps' = mishaps \cup {"torn_crash"}
         \cup (IF g_aof_rewriting THEN {"crash_in_rewrite"} ELSE {})
    /\ UNCHANGED rdb

\* SIGTERM: the loop ends, the snapshot is saved, the log is closed; children
\* are not waited for and the rewrite buffer is not flushed.
Shutdown ==
    /\ pc[Server] = "serve"
    /\ ProcessEnds
    /\ rdb' \in IF RdbOn THEN {store, rdb} ELSE {rdb}
    /\ Note("stop_in_rewrite", g_aof_rewriting)
    /\ UNCHANGED file

\* aof_replay: commands up to the first frame that does not parse.
Replay(frames) ==
    LET bad == {i \in 1 .. Len(frames) : frames[i] = Torn} IN
    IF bad = {} THEN frames
    ELSE SubSeq(frames, 1, (CHOOSE i \in bad : \A j \in bad : i <= j) - 1)

\* server_run. A child inherits the listening socket, so create_listener fails
\* until every child of the previous server has gone.
server_run ==
    /\ pc[Server] = "down"
    /\ \A c \in Child : pc[c] = "none"
    /\ Len(rdb \o Replay(file[aofpath])) <= MaxStore
    /\ pc' = [pc EXCEPT ![Server] = "serve"]
    /\ store' = rdb \o Replay(file[aofpath])
    /\ g_aof_fd' = aofpath
    /\ Note("rdb_base", rdb # <<>>)
    /\ UNCHANGED <<snap, tmpfd, g_aof_rewriting, g_rewrite_buf, g_sigchld,
                   diskVars, forks, executed>>
-----------------------------------------------------------------------------
Step ==
    \/ dispatch_command
    \/ cmd_rewriteaof \/ cmd_save
    \/ \E c \in Child : cmd_bgrewriteaof(c) \/ cmd_bgsave(c) \/ SaveExit(c)
    \/ \E p \in Proc : RwOpen(p) \/ RwWrite(p) \/ RwRename(p) \/ RwFail(p)
    \/ ReapBegin \/ ReapFinish
    \/ Crash \/ CrashInAppend \/ Shutdown
    \/ server_run

Next == Step /\ mishaps' \in Allowed

Spec == Init /\ [][Next]_vars

\* The operating system keeps running every process that is ready, and the event
\* loop reaches reap_children after every batch of at most 100 ms.
Fairness ==
    /\ \A p \in Proc : WF_vars(RwOpen(p) \/ RwWrite(p) \/ RwRename(p) \/ RwFail(p))
    /\ \A c \in Child : WF_vars(SaveExit(c))
    /\ WF_vars(ReapBegin) /\ WF_vars(ReapFinish)

FairSpec == Spec /\ Fairness
-----------------------------------------------------------------------------
\* Types, and the descriptor discipline of aof_rewrite: a process that is
\* about to write its stream holds an open temporary file (aof.c 280-298).
TypeOK ==
    /\ pc \in [Proc -> {"none", "save", "zombie", "serve", "reap", "down",
                       "open", "write", "rename"}]
    /\ snap \in [Proc -> Seq(Frame)]
    /\ tmpfd \in [Proc -> Inode \cup {NoInode}]
    /\ store \in Seq(Frame)
    /\ g_aof_fd \in Inode \cup {NoInode}
    /\ g_aof_rewriting \in BOOLEAN
    /\ g_rewrite_buf \in Seq(Frame)
    /\ g_sigchld \in BOOLEAN
    /\ file \in [Inode -> Seq(Frame)]
    /\ aofpath \in Inode
    /\ tmppath \in Inode \cup {NoInode}
    /\ rdb \in Seq(Frame)
    /\ forks \in Nat
    /\ executed \in Seq(Frame)
    /\ mishaps \subseteq Mishap
    /\ \A p \in Proc : pc[p] = "write" => tmpfd[p] \in Inode

\* What a restart at this moment would find, and what it would find once the
\* server has reaped a rewrite child that already renamed its file.
OnDisk == Replay(file[aofpath])
Swapped == g_aof_rewriting /\ g_aof_fd # aofpath
Recoverable == OnDisk \o (IF Swapped THEN g_rewrite_buf ELSE <<>>)

\* aof.c 23-26 and 73-107, server.c 493-512: as long as no mishap has happened,
\* the log on disk, completed by the rewrite buffer while a finished child waits
\* to be reaped, replays to every executed write, each once and in order, and a
\* running server holds the same writes, across crashes, clean stops and both
\* kinds of rewrite.
LogComplete == mishaps = {} => Recoverable = executed /\ (Up => store = executed)

\* What holds, phase by phase, on the path without mishaps; it is inductive and
\* implies LogComplete. At most one process is inside
\* aof_rewrite, its temporary file is neither the log nor open for appending,
\* and until its rename the log alone is complete; between the rename and the
\* reaping of the child, log and rewrite buffer together are (aof.c 73-107,
\* 275-308, server.c 55-65, db.c 763-808).
CleanInv ==
    /\ \A i \in 1 .. Len(executed) : executed[i] # Torn
    /\ \A p, q \in Proc : Rewriting(p) /\ Rewriting(q) => p = q
    /\ \A c \in Child : pc[c] \in {"none", "save", "zombie", "open", "write", "rename"}
    /\ tmppath \notin {aofpath} \cup (IF g_aof_fd = NoInode THEN {} ELSE {g_aof_fd})
    /\ \A p \in Proc :
         /\ pc[p] = "write" => tmpfd[p] = tmppath /\ file[tmppath] = <<>>
         /\ pc[p] = "rename" => tmppath # NoInode /\ file[tmppath] = snap[p]
    /\ Up => store = executed
    /\ g_aof_rewriting => /\ Up /\ ~Rewriting(Server)
                          /\ \A c \in Child : Rewriting(c) => snap[c] \o g_rewrite_buf = executed
    /\ ~g_aof_rewriting => ~LiveRewriter /\ g_rewrite_buf = <<>>
    /\ Rewriting(Server) => snap[Server] = executed
    /\ IF g_aof_rewriting /\ ~LiveRewriter
       THEN /\ g_aof_fd \in Inode /\ g_aof_fd # aofpath
            /\ file[aofpath] \o g_rewrite_buf = executed
       ELSE /\ Up => g_aof_fd = aofpath
            /\ file[aofpath] = executed

\* CleanInv holds as long as no mishap has happened.
CompleteByPhase == mishaps = {} => CleanInv

\* server.c 61-64, db.c 776: outside a background rewrite the server appends to
\* the file that a restart will read, even after nested rewrites, failed children
\* and crashes; only an early reap or a failed open can break that.
LogsToLiveFile ==
    /\ {"early_reap", "io_error"} \cap mishaps = {}
    /\ Up
    /\ ~g_aof_rewriting
    => g_aof_fd = aofpath

\* aof.c 98-105: stopping, crashing or tearing a frame may lose writes of an
\* unfinished rewrite, but the log never holds a write twice or out of order.
NeverTwice ==
    mishaps \subseteq {"crash_in_rewrite", "stop_in_rewrite", "torn_crash"}
      => \A i, j \in 1 .. Len(OnDisk) : i < j => OnDisk[i] < OnDisk[j]

\* server.c 55-65: a background rewrite does not stay in flight forever.
RewriteEnds == g_aof_rewriting ~> ~g_aof_rewriting

\* server.c 47-60: every child that exits is reaped, also one that exits between
\* the clearing of g_sigchld and the waitpid loop.
ZombiesReaped == \A c \in Child : pc[c] = "zombie" ~> pc[c] = "none"

Durable == INSTANCE DurableLog
             WITH Write <- 1 .. MaxWrites,
                  log <- Recoverable, mem <- store, up <- Up

\* aof.h 7-9: up to the first mishap the log with its rewrites is a durable log,
\* and rewriting, forking and reaping change nothing a client can tell.
ImplementsDurableLog ==
    Durable!Init /\ [][mishaps' = {} => Durable!Next \/ UNCHANGED Durable!vars]_vars
-----------------------------------------------------------------------------
\* aof.c 23-25, "no write is lost across the rewrite": a BGSAVE child that exits
\* during the rewrite does not matter.
CompleteDespiteBgsave == mishaps \subseteq {"early_reap"} => Recoverable = executed
=============================================================================

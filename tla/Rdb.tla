-------------------------------- MODULE Rdb --------------------------------
(***************************************************************************)
(* The snapshot file: SAVE and the save at shutdown by the server, BGSAVE  *)
(* by forked children, and the load at start.  All of them run rdb_save    *)
(* on the same "<path>.tmp", and nothing keeps two of them apart.          *)
(*                                                                         *)
(* The dataset is one number per key, its latest write, and 0 for no key.  *)
(* A file is a sequence of such records.  One write(2) writes one record,  *)
(* at the offset of the descriptor; a gap before it reads as a hole.       *)
(***************************************************************************)
EXTENDS Integers, Sequences, FiniteSets

CONSTANTS
    NKeys,      \* how many keys
    Child,      \* processes forked by BGSAVE
    NFiles,     \* how many files
    Server,     \* the server process
    MaxWrites   \* bound: writes to the dataset

ASSUME RdbAssumption ==
    /\ NKeys \in Nat \ {0} /\ MaxWrites \in Nat
    /\ NFiles \in Nat \ {0} /\ Server \notin Child

Inode == 1 .. NFiles
None == 0
Proc == Child \cup {Server}
Hole == -1
Dataset == [1 .. NKeys -> 0 .. MaxWrites]
NoData == [k \in 1 .. NKeys |-> 0]

VARIABLES
    up,        \* "up", "saving", "stopping" (the save at shutdown) or "down"
    mem,       \* the dataset; after a stop, what it was
    writes,    \* how many writes were made
    saver,     \* rdb_save in each process: where it is, its image, offset and file
    data,      \* contents of the files
    path, tmp, \* the files the two names stand for
    images,    \* history: every dataset a save was started from
    overlapped,\* history: a save began while another was running
    clean      \* history: the server is down after a save that succeeded

vars == <<up, mem, writes, saver, data, path, tmp, images, overlapped, clean>>

\* rdb_save of an image: the next step, the offset and the open file.
At(image, pc, off, ino) == [pc |-> pc, image |-> image, off |-> off, ino |-> ino]
NoSave == At(NoData, "idle", 0, None)
Saving(p) == saver[p].pc # "idle"
Busy == \E p \in Proc : Saving(p)
Free(i) == i \notin {path, tmp} /\ \A p \in Proc : saver[p].ino # i
-----------------------------------------------------------------------------
Init ==
    /\ up = "up" /\ mem = NoData /\ writes = 0
    /\ saver = [p \in Proc |-> NoSave]
    /\ data = [i \in Inode |-> <<>>] /\ path = None /\ tmp = None
    /\ images = {} /\ overlapped = FALSE /\ clean = FALSE

\* A command that writes key k.
Write(k) ==
    /\ up = "up" /\ writes < MaxWrites
    /\ writes' = writes + 1
    /\ mem' = [mem EXCEPT ![k] = writes + 1]
    /\ UNCHANGED <<up, saver, data, path, tmp, images, overlapped, clean>>

\* rdb_save serialises the whole dataset before it opens the file.
RdbStart(p) ==
    /\ saver' = [saver EXCEPT ![p] = At(mem, "open", 0, None)]
    /\ images' = images \cup {mem}
    /\ overlapped' = (overlapped \/ Busy)
    /\ UNCHANGED <<mem, writes, data, path, tmp, clean>>

cmd_save == up = "up" /\ up' = "saving" /\ RdbStart(Server)

cmd_bgsave(c) == up = "up" /\ ~Saving(c) /\ RdbStart(c) /\ UNCHANGED up

\* SIGTERM: the loop ends and the server saves.
Shutdown == up = "up" /\ up' = "stopping" /\ RdbStart(Server)

\* open(tmppath, O_WRONLY | O_CREAT | O_TRUNC): the file of that name, emptied,
\* or a new one.  Which number a new file gets makes no difference.
RdbOpen(p) ==
    /\ saver[p].pc = "open"
    /\ tmp = None => \E i \in Inode : Free(i)
    /\ LET i == IF tmp # None THEN tmp ELSE CHOOSE j \in Inode : Free(j) IN
          /\ data' = [data EXCEPT ![i] = <<>>]
          /\ tmp' = i
          /\ saver' = [saver EXCEPT ![p] = At(@.image, "write", 0, i)]
    /\ UNCHANGED <<up, mem, writes, path, images, overlapped, clean>>

\* A record written at offset n of a file that holds f.
Overlay(f, n, record) ==
    [i \in 1 .. (IF Len(f) > n THEN Len(f) ELSE n + 1) |->
        IF i = n + 1 THEN record ELSE IF i <= Len(f) THEN f[i] ELSE Hole]

\* Mutant: write_full starts over when it reaches the end.
RdbWrite_stuck(p) ==
    LET s == saver[p] IN
    /\ s.pc = "write"
    /\ data' = [data EXCEPT ![s.ino] = Overlay(@, s.off, s.image[s.off + 1])]
    /\ saver' = [saver EXCEPT ![p].off = (s.off + 1) % NKeys]
    /\ UNCHANGED <<up, mem, writes, path, tmp, images, overlapped, clean>>

\* One write(2) of write_full's loop.
RdbWrite(p) ==
    LET s == saver[p] IN
    /\ s.pc = "write"
    /\ data' = [data EXCEPT ![s.ino] = Overlay(@, s.off, s.image[s.off + 1])]
    /\ saver' = [saver EXCEPT ![p] =
                   At(s.image, IF s.off + 1 = NKeys THEN "rename" ELSE "write", s.off + 1, s.ino)]
    /\ UNCHANGED <<up, mem, writes, path, tmp, images, overlapped, clean>>

\* Mutant: the descriptor is not closed.
RdbEnd_leaks(p, ok) ==
    /\ saver' = [saver EXCEPT ![p] = [NoSave EXCEPT !.ino = saver[p].ino]]
    /\ IF p = Server
       THEN /\ up' = IF up = "stopping" THEN "down" ELSE "up"
            /\ clean' = (up = "stopping" /\ ok)
       ELSE UNCHANGED <<up, clean>>

\* rdb_save has returned: a child exits, the server answers or stops.
RdbEnd(p, ok) ==
    /\ saver' = [saver EXCEPT ![p] = NoSave]
    /\ IF p = Server
       THEN /\ up' = IF up = "stopping" THEN "down" ELSE "up"
            /\ clean' = (up = "stopping" /\ ok)
       ELSE UNCHANGED <<up, clean>>

\* A file with no name and no open descriptor is gone.
Reclaim == data' = [i \in Inode |-> IF i \in {path', tmp'} \/ \E q \in Proc : saver'[q].ino = i
                                   THEN data[i] ELSE <<>>]

\* Mutant: the rename goes ahead when a write has failed.
RdbRename_early(p) ==
    /\ saver[p].pc \in {"write", "rename"} /\ tmp # None
    /\ path' = tmp /\ tmp' = None
    /\ RdbEnd(p, TRUE) /\ Reclaim
    /\ UNCHANGED <<mem, writes, images, overlapped>>

\* rename(tmppath, path) moves whatever file has the name by now.
RdbRename(p) ==
    /\ saver[p].pc = "rename" /\ tmp # None
    /\ path' = tmp /\ tmp' = None
    /\ RdbEnd(p, TRUE) /\ Reclaim
    /\ UNCHANGED <<mem, writes, images, overlapped>>

\* open, write, fsync or rename fails; rename does when the name is gone.  The
\* temporary file stays as it is.
RdbFail(p) ==
    /\ Saving(p)
    /\ UNCHANGED <<path, tmp>>
    /\ RdbEnd(p, FALSE) /\ Reclaim
    /\ UNCHANGED <<mem, writes, images, overlapped>>

\* kill -9 of the server; children live on.
Crash ==
    /\ up # "down"
    /\ up' = "down" /\ clean' = FALSE
    /\ saver' = [saver EXCEPT ![Server] = NoSave]
    /\ UNCHANGED <<path, tmp>>
    /\ Reclaim
    /\ UNCHANGED <<mem, writes, images, overlapped>>

\* Mutant: the bounds check refuses the last record.
Readable_short(f) == {k \in 1 .. NKeys : \A j \in 1 .. k : j < Len(f) /\ f[j] # Hole}

\* rdb_load reads records until one is missing or corrupt, and keeps those.
Readable(f) == {k \in 1 .. NKeys : \A j \in 1 .. k : j <= Len(f) /\ f[j] # Hole}
rdb_load(f) == [k \in 1 .. NKeys |-> IF k \in Readable(f) THEN f[k] ELSE 0]
OnDisk == IF path = None THEN NoData ELSE rdb_load(data[path])

\* Mutant: the snapshot is not loaded.
server_run_empty ==
    /\ up = "down" /\ ~Busy
    /\ up' = "up" /\ clean' = FALSE
    /\ mem' = NoData
    /\ UNCHANGED <<writes, saver, data, path, tmp, images, overlapped>>

\* Children hold the listening socket of the server that forked them, so a
\* new server cannot bind before they have gone.
server_run ==
    /\ up = "down" /\ ~Busy
    /\ up' = "up" /\ clean' = FALSE
    /\ mem' = OnDisk
    /\ UNCHANGED <<writes, saver, data, path, tmp, images, overlapped>>

Step(p) == RdbOpen(p) \/ RdbWrite(p) \/ RdbRename(p) \/ RdbFail(p)

Next == \/ \E k \in 1 .. NKeys : Write(k)
        \/ cmd_save
        \/ \E c \in Child : cmd_bgsave(c)
        \/ Shutdown
        \/ \E p \in Proc : Step(p)
        \/ Crash
        \/ server_run

Spec == Init /\ [][Next]_vars

\* A process inside rdb_save is scheduled, and each of its system calls ends.
FairSpec == Spec /\ \A p \in Proc : WF_vars(Step(p))
-----------------------------------------------------------------------------
\* Types, and the descriptor discipline of rdb_save: a process has a temporary
\* file open exactly between its open(2) and the end of the call.
TypeOK ==
    /\ up \in {"up", "saving", "stopping", "down"}
    /\ mem \in Dataset /\ writes \in 0 .. MaxWrites
    /\ \A p \in Proc : /\ saver[p].pc \in {"idle", "open", "write", "rename"}
                       /\ saver[p].image \in Dataset /\ saver[p].off \in 0 .. NKeys
                       /\ saver[p].ino \in Inode \cup {None}
                       /\ (saver[p].pc \in {"write", "rename"}) <=> (saver[p].ino # None)
    /\ \A i \in Inode : /\ Len(data[i]) <= NKeys
                        /\ \A j \in DOMAIN data[i] : data[i][j] \in 0 .. MaxWrites \cup {Hole}
    /\ path \in Inode \cup {None} /\ tmp \in Inode \cup {None}
    /\ images \subseteq Dataset /\ overlapped \in BOOLEAN /\ clean \in BOOLEAN

\* README.md: saved to <path>.tmp and renamed atomically, never a half-written
\* file.  The snapshot is one of the datasets a save was started from.
SnapshotWhole == path # None => \E image \in images : data[path] = image

\* While no two saves overlap that holds, whatever fails or is killed in the
\* middle of a save, and whatever temporary file is left behind.
SnapshotWholeAlone == ~overlapped => SnapshotWhole

\* server.c: persist on clean shutdown.  After a stop whose save succeeded the
\* snapshot holds the dataset of the stop.
StopPersists == clean => OnDisk = mem

\* While no two saves overlap that holds.
StopPersistsAlone == ~overlapped => StopPersists

\* While no two saves overlap, the snapshot is replaced only by a later one: no
\* save takes the file back to an older dataset.
NeverOlder ==
    [][~overlapped' /\ path # None /\ path' # path
          => \A k \in 1 .. NKeys : data'[path'][k] >= data[path][k]]_vars

\* Every call of rdb_save comes to an end, in whichever process and whatever
\* the other savers do to its temporary file.
SavesEnd == \A p \in Proc : Saving(p) ~> ~Saving(p)
=============================================================================

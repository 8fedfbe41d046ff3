----------------------------- MODULE RdbProofs -----------------------------
(***************************************************************************)
(* Proofs about Rdb for any number of keys, files, writes and children:    *)
(* types and, as long as no two saves have overlapped, that the snapshot   *)
(* is whole, that a clean stop persists, and that no save goes back.       *)
(***************************************************************************)
EXTENDS Rdb, TLAPS

Record == 0 .. MaxWrites \cup {Hole}
Save == [pc : {"idle", "open", "write", "rename"}, image : Dataset,
         off : 0 .. NKeys, ino : Inode \cup {None}]

\* Types, how far each saver is at each of its steps, and that the server is
\* inside rdb_save exactly while it answers nobody.
Shape ==
    /\ up \in {"up", "saving", "stopping", "down"}
    /\ mem \in Dataset /\ writes \in 0 .. MaxWrites
    /\ saver \in [Proc -> Save]
    /\ data \in [Inode -> Seq(Record)] /\ \A i \in Inode : Len(data[i]) <= NKeys
    /\ path \in Inode \cup {None} /\ tmp \in Inode \cup {None}
    /\ images \in SUBSET Dataset /\ overlapped \in BOOLEAN /\ clean \in BOOLEAN
    /\ \A p \in Proc : /\ saver[p].pc = "open" => saver[p].off = 0
                       /\ saver[p].pc = "write" => saver[p].off < NKeys
                       /\ saver[p].pc = "rename" => saver[p].off = NKeys
                       /\ saver[p].pc \in {"write", "rename"} <=> saver[p].ino # None
    /\ Saving(Server) <=> up \in {"saving", "stopping"}

\* The write of key k that the snapshot holds.
Held(k) == IF path = None THEN 0 ELSE data[path][k]

\* The savers while no two of them have overlapped: there is one at most, the
\* temporary file is its own and holds its image up to its offset, and the image
\* lies between the snapshot and the dataset.
OneSaver ==
    /\ \A p, q \in Proc : Saving(p) /\ Saving(q) => p = q
    /\ tmp # None => tmp # path
    /\ \A p \in Proc : saver[p].pc \in {"write", "rename"} =>
         /\ saver[p].ino = tmp
         /\ Len(data[tmp]) = saver[p].off
         /\ \A i \in 1 .. saver[p].off : data[tmp][i] = saver[p].image[i]
    /\ \A p \in Proc : Saving(p) =>
         /\ saver[p].image \in images
         /\ \A k \in 1 .. NKeys : Held(k) <= saver[p].image[k] /\ saver[p].image[k] <= mem[k]
    /\ Saving(Server) => saver[Server].image = mem

\* The snapshot while no two saves have overlapped: a dataset that was saved, no
\* later than the one in memory, and equal to it after a clean stop.
OneSnapshot ==
    /\ path # None => data[path] \in images
    /\ \A k \in 1 .. NKeys : Held(k) <= mem[k] /\ mem[k] <= writes
    /\ clean => up = "down" /\ ~Busy /\ path # None /\ data[path] = mem

Alone == ~overlapped => OneSaver /\ OneSnapshot
-----------------------------------------------------------------------------
\* Writing a record inside a file, or right behind it or beyond, gives a file
\* (write_full, rdb.c).
LEMMA OverlayType ==
    ASSUME NEW f \in Seq(Record), NEW n \in 0 .. NKeys - 1, NEW r \in Record, Len(f) <= NKeys
    PROVE  Overlay(f, n, r) \in Seq(Record) /\ Len(Overlay(f, n, r)) <= NKeys
  <1> DEFINE m == IF Len(f) > n THEN Len(f) ELSE n + 1
  <1>1. m \in Nat /\ m <= NKeys
    BY RdbAssumption
  <1>2. \A i \in 1 .. m : (IF i = n + 1 THEN r ELSE IF i <= Len(f) THEN f[i] ELSE Hole) \in Record
    BY DEF Record
  <1>3. QED
    BY <1>1, <1>2 DEF Overlay

\* Files that are reclaimed become empty, the others stay as they are.
LEMMA ReclaimType ==
    ASSUME Shape, Reclaim
    PROVE  data' \in [Inode -> Seq(Record)] /\ \A i \in Inode : Len(data'[i]) <= NKeys
  BY RdbAssumption DEF Shape, Reclaim

\* What rdb_load keeps of any file is a dataset.
LEMMA LoadType ==
    ASSUME Shape
    PROVE  OnDisk \in Dataset
  <1>1. CASE path = None
    BY <1>1, RdbAssumption DEF OnDisk, NoData, Dataset
  <1>2. CASE path # None
    <2>1. path \in Inode /\ data[path] \in Seq(Record)
      BY <1>2 DEF Shape
    <2>2. \A k \in Readable(data[path]) : data[path][k] \in 0 .. MaxWrites
      BY <2>1, RdbAssumption DEF Readable, Record
    <2>3. QED
      BY <1>2, <2>2, RdbAssumption DEF OnDisk, rdb_load, Dataset
  <1>3. QED
    BY <1>1, <1>2

\* A process that is not inside rdb_save.
LEMMA NoSaveType == NoSave \in Save /\ NoSave.pc = "idle" /\ NoSave.ino = None
  BY RdbAssumption DEF NoSave, At, Save, Dataset, NoData, Inode, None

\* Every step keeps Shape.
LEMMA ShapeStep ==
    ASSUME Shape, [Next]_vars
    PROVE  Shape'
  <1> USE RdbAssumption
  <1>1. ASSUME NEW k \in 1 .. NKeys, Write(k) PROVE Shape'
    BY <1>1, SMTT(20) DEF Shape, Write, Dataset, Saving
  <1>2. ASSUME NEW p \in Proc, RdbStart(p),
               p = Server => up' \in {"saving", "stopping"},
               p # Server => up = "up" /\ up' = up
        PROVE  Shape'
    <2> DEFINE s == At(mem, "open", 0, None)
    <2>1. s \in Save /\ s.pc = "open" /\ s.off = 0 /\ s.ino = None
      BY DEF Shape, At, Save, Inode, None
    <2>2. saver' = [saver EXCEPT ![p] = s] /\ UNCHANGED <<mem, writes, data, path, tmp, clean>>
      BY <1>2 DEF RdbStart
    <2>3. images' \in SUBSET Dataset /\ overlapped' \in BOOLEAN
      BY <1>2 DEF RdbStart, Shape
    <2> HIDE DEF s
    <2>4. QED
      BY <1>2, <2>1, <2>2, <2>3 DEF Shape, Saving, Proc
  <1>3. ASSUME NEW p \in Proc, RdbOpen(p) PROVE Shape'
    <2> PICK i \in Inode : /\ data' = [data EXCEPT ![i] = <<>>]
                           /\ tmp' = i
                           /\ saver' = [saver EXCEPT ![p] = At(saver[p].image, "write", 0, i)]
      <3>1. CASE tmp # None
        BY <1>3, <3>1, Zenon DEF RdbOpen, Shape
      <3>2. CASE tmp = None
        BY <1>3, <3>2, Zenon DEF RdbOpen
      <3>3. QED
        BY <3>1, <3>2
    <2>1. i # None
      BY DEF Inode, None
    <2>2. /\ saver[p].pc = "open"
          /\ UNCHANGED <<up, mem, writes, path, images, overlapped, clean>>
      BY <1>3 DEF RdbOpen
    <2>3. /\ saver' \in [Proc -> Save]
          /\ saver'[p].pc = "write" /\ saver'[p].ino = i /\ saver'[p].off = 0
          /\ \A q \in Proc \ {p} : saver'[q] = saver[q]
      BY DEF Shape, Save, At
    <2>4. data' \in [Inode -> Seq(Record)] /\ \A j \in Inode : Len(data'[j]) <= NKeys
      BY DEF Shape
    <2>5. QED
      BY <2>1, <2>2, <2>3, <2>4 DEF Shape, Saving, Proc
  <1>4. ASSUME NEW p \in Proc, RdbWrite(p) PROVE Shape'
    <2> DEFINE s == saver[p]
               f == data[s.ino]
               r == s.image[s.off + 1]
    <2>1. s \in Save /\ s.pc = "write" /\ s.off \in 0 .. NKeys - 1 /\ s.ino \in Inode
      BY <1>4 DEF RdbWrite, Shape, Save
    <2>2. r \in Record /\ f \in Seq(Record) /\ Len(f) <= NKeys
      BY <2>1, SMTT(20) DEF Shape, Save, Dataset, Record
    <2>3. /\ data' = [data EXCEPT ![s.ino] = Overlay(f, s.off, r)]
          /\ UNCHANGED <<up, mem, writes, path, tmp, images, overlapped, clean>>
      BY <1>4 DEF RdbWrite
    <2>4. data' \in [Inode -> Seq(Record)] /\ \A j \in Inode : Len(data'[j]) <= NKeys
      BY <2>1, <2>2, <2>3, OverlayType, Zenon DEF Shape
    <2>5. /\ saver' \in [Proc -> Save]
          /\ saver'[p].pc = (IF s.off + 1 = NKeys THEN "rename" ELSE "write")
          /\ saver'[p].off = s.off + 1 /\ saver'[p].ino = s.ino
          /\ \A q \in Proc \ {p} : saver'[q] = saver[q]
      BY <1>4, <2>1 DEF RdbWrite, Shape, Save, At
    <2>6. /\ saver'[p].pc \in {"write", "rename"} /\ saver'[p].ino # None
          /\ saver'[p].pc = "write" => saver'[p].off < NKeys
          /\ saver'[p].pc = "rename" => saver'[p].off = NKeys
      BY <2>1, <2>5 DEF Inode, None
    <2>7. \A q \in Proc : /\ saver'[q].pc = "open" => saver'[q].off = 0
                          /\ saver'[q].pc = "write" => saver'[q].off < NKeys
                          /\ saver'[q].pc = "rename" => saver'[q].off = NKeys
                          /\ saver'[q].pc \in {"write", "rename"} <=> saver'[q].ino # None
      <3> TAKE q \in Proc
      <3>1. CASE q = p
        BY <2>6, <3>1
      <3>2. CASE q # p
        BY <2>5, <3>2 DEF Shape
      <3>3. QED
        BY <3>1, <3>2
    <2>8. Saving(Server)' <=> Saving(Server)
      BY <2>1, <2>5, <2>6 DEF Saving, Proc
    <2>9. QED
      BY <2>3, <2>4, <2>5, <2>7, <2>8, Zenon DEF Shape
  <1>5. ASSUME NEW p \in Proc, NEW ok \in BOOLEAN, RdbEnd(p, ok), Saving(p), Reclaim,
               path' \in Inode \cup {None}, tmp' \in Inode \cup {None},
               UNCHANGED <<mem, writes, images, overlapped>>
        PROVE  Shape'
    BY <1>5, ReclaimType, NoSaveType, Zenon DEF Shape, RdbEnd, Saving, Proc
  <1>6. ASSUME NEW p \in Proc, RdbRename(p) PROVE Shape'
    <2>1. path' \in Inode \cup {None} /\ tmp' \in Inode \cup {None} /\ Saving(p)
      BY <1>6 DEF RdbRename, Shape, Saving
    <2>2. QED
      BY <1>5, <1>6, <2>1, Zenon DEF RdbRename
  <1>7. ASSUME NEW p \in Proc, RdbFail(p) PROVE Shape'
    <2>1. path' \in Inode \cup {None} /\ tmp' \in Inode \cup {None} /\ Saving(p)
      BY <1>7 DEF RdbFail, Shape
    <2>2. QED
      BY <1>5, <1>7, <2>1, Zenon DEF RdbFail
  <1>8. CASE Crash
    BY <1>8, ReclaimType, NoSaveType, Zenon DEF Shape, Crash, Saving, Proc
  <1>9. CASE server_run
    BY <1>9, LoadType, Zenon DEF Shape, server_run, Saving
  <1>10. CASE UNCHANGED vars
    BY <1>10 DEF Shape, vars, Saving
  <1>11. cmd_save => Shape'
    BY <1>2 DEF cmd_save, Proc
  <1>12. Shutdown => Shape'
    BY <1>2 DEF Shutdown, Proc
  <1>13. ASSUME NEW c \in Child, cmd_bgsave(c) PROVE Shape'
    BY <1>2, <1>13 DEF cmd_bgsave, Proc
  <1>14. QED
    BY <1>1, <1>3, <1>4, <1>6, <1>7, <1>8, <1>9, <1>10, <1>11, <1>12, <1>13 DEF Next, Step

\* Shape holds initially: nobody saves and there are no files.
LEMMA InitShape == Init => Shape
  <1> SUFFICES ASSUME Init PROVE Shape
    OBVIOUS
  <1>1. NoData \in Dataset /\ <<>> \in Seq(Record) /\ Len(<<>>) = 0 /\ Server \in Proc
    BY RdbAssumption DEF NoData, Dataset, Proc
  <1>2. saver \in [Proc -> Save] /\ \A p \in Proc : saver[p] = NoSave
    BY NoSaveType DEF Init
  <1>3. data \in [Inode -> Seq(Record)] /\ \A i \in Inode : Len(data[i]) <= NKeys
    BY <1>1, RdbAssumption DEF Init
  <1>4. \A p \in Proc : ~Saving(p) /\ saver[p].pc = "idle" /\ saver[p].ino = None
    BY <1>2, NoSaveType DEF Saving
  <1>5. overlapped \in BOOLEAN /\ clean \in BOOLEAN /\ images \in SUBSET Dataset
    BY Zenon DEF Init
  <1>6. /\ up = "up" /\ mem \in Dataset /\ writes \in 0 .. MaxWrites
        /\ path = None /\ tmp = None
    BY <1>1, RdbAssumption DEF Init
  <1>7. QED
    BY <1>1, <1>2, <1>3, <1>4, <1>5, <1>6 DEF Shape

\* The datasets, the snapshot and its savers stay well typed, and a process has a
\* temporary file open exactly between its open(2) and the end of rdb_save (rdb.c).
THEOREM TypeCorrect == Spec => []TypeOK
  <1>1. Shape => TypeOK
    BY DEF Shape, TypeOK, Save, Record
  <1>2. QED
    BY <1>1, InitShape, ShapeStep, PTL DEF Spec
-----------------------------------------------------------------------------
\* Without a running save no process has the temporary file open.
LEMMA Quiet ==
    ASSUME ~Busy
    PROVE  \A p \in Proc : ~Saving(p) /\ saver[p].pc = "idle"
  BY DEF Busy, Saving

\* A file that still has a name survives the reclaiming of files.
LEMMA ReclaimKeeps ==
    ASSUME Shape, Reclaim
    PROVE  /\ path' \in Inode => data'[path'] = data[path']
           /\ tmp' \in Inode => data'[tmp'] = data[tmp']
  BY DEF Shape, Reclaim

\* A saver that ends without a rename leaves the snapshot as it is.
LEMMA EndKeeps ==
    ASSUME Shape, OneSaver, OneSnapshot, NEW p \in Proc,
           saver' = [saver EXCEPT ![p] = NoSave], Reclaim,
           UNCHANGED <<path, tmp, mem, writes, images>>
    PROVE  OneSaver' /\ \A k \in 1 .. NKeys : Held(k)' = Held(k)
  <1>1. \A k \in 1 .. NKeys : Held(k)' = Held(k)
    BY ReclaimKeeps DEF Held, Shape
  <1>2. \A q \in Proc : saver'[q] = IF q = p THEN NoSave ELSE saver[q]
    BY DEF Shape
  <1>3. \A q \in Proc : Saving(q)' => q # p /\ Saving(q) /\ saver'[q] = saver[q]
    BY <1>2, NoSaveType DEF Saving
  <1>4. \A q \in Proc : saver'[q].pc \in {"write", "rename"} =>
           saver'[q] = saver[q] /\ tmp \in Inode /\ data'[tmp] = data[tmp]
    <2> SUFFICES ASSUME NEW q \in Proc, saver'[q].pc \in {"write", "rename"}
                 PROVE  saver'[q] = saver[q] /\ tmp \in Inode /\ data'[tmp] = data[tmp]
      OBVIOUS
    <2>1. saver'[q] = saver[q] /\ saver[q].ino # None /\ saver[q].ino = tmp
      BY <1>2, NoSaveType DEF OneSaver, Shape
    <2>2. QED
      BY <2>1, ReclaimKeeps DEF Shape
  <1>5. QED
    BY <1>1, <1>3, <1>4 DEF OneSaver, Proc

\* rdb_load gives back a file that is a whole dataset.
LEMMA LoadWhole ==
    ASSUME NEW f \in Seq(Record), f \in Dataset
    PROVE  rdb_load(f) = f
  <1> USE RdbAssumption
  <1>1. DOMAIN f = 1 .. NKeys /\ DOMAIN f = 1 .. Len(f) /\ Len(f) \in Nat
    BY DEF Dataset
  <1>2. Len(f) = NKeys
    BY <1>1
  <1>3. Readable(f) = 1 .. NKeys
    BY <1>2 DEF Readable, Dataset, Hole
  <1>4. QED
    BY <1>3 DEF rdb_load, Dataset

\* Every step keeps Alone.
LEMMA AloneStep ==
    ASSUME Shape, Shape', Alone, [Next]_vars
    PROVE  Alone'
  <1> SUFFICES ASSUME ~overlapped' PROVE OneSaver' /\ OneSnapshot'
    BY DEF Alone
  <1>1. ~overlapped
    BY Zenon DEF Next, vars, Write, cmd_save, cmd_bgsave, Shutdown, RdbStart, Step, RdbOpen, RdbWrite,
           RdbRename, RdbFail, Crash, server_run
  <1>2. OneSaver /\ OneSnapshot
    BY <1>1 DEF Alone
  <1> USE RdbAssumption
  <1>3. ASSUME NEW k \in 1 .. NKeys, Write(k) PROVE OneSaver' /\ OneSnapshot'
    <2>1. \A j \in 1 .. NKeys : mem'[j] \in Int /\ mem[j] <= mem'[j] /\ mem'[j] <= writes'
      BY <1>2, <1>3 DEF Write, Shape, OneSnapshot, Dataset
    <2>2. ~Saving(Server) /\ ~clean
      BY <1>2, <1>3 DEF Write, Shape, OneSnapshot
    <2>3. UNCHANGED <<up, saver, data, path, tmp, images, clean>>
      BY <1>3 DEF Write
    <2>4. \A j \in 1 .. NKeys : Held(j)' = Held(j) /\ Held(j) \in Int /\ mem[j] \in Int
      BY <1>2, <2>3 DEF Held, OneSnapshot, Shape, Dataset
    <2>5. OneSnapshot'
      BY <1>2, <2>1, <2>2, <2>3, <2>4 DEF OneSnapshot
    <2>6. ASSUME NEW p \in Proc, Saving(p)', NEW j \in 1 .. NKeys
          PROVE  Held(j)' <= saver'[p].image[j] /\ saver'[p].image[j] <= mem'[j]
      <3>1. Saving(p) /\ saver'[p] = saver[p] /\ saver[p].image[j] \in Int
        BY <2>3, <2>6 DEF Saving, Shape, Save, Dataset
      <3>2. QED
        BY <1>2, <2>1, <2>4, <3>1 DEF OneSaver
    <2>7. OneSaver'
      BY <1>2, <2>2, <2>3, <2>6 DEF OneSaver, Saving
    <2>8. QED
      BY <2>5, <2>7
  <1>4. ASSUME NEW p \in Proc, RdbStart(p), up = "up", up' # "down"
        PROVE OneSaver' /\ OneSnapshot'
    <2>1. ~Busy
      BY <1>4, Zenon DEF RdbStart
    <2>2. \A q \in Proc : saver'[q] = IF q = p THEN At(mem, "open", 0, None) ELSE saver[q]
      BY <1>4 DEF RdbStart, Shape
    <2>3. /\ UNCHANGED <<mem, writes, data, path, tmp, clean>>
          /\ images' = images \cup {mem}
      BY <1>4 DEF RdbStart
    <2>4. \A j \in 1 .. NKeys : Held(j)' = Held(j) /\ Held(j) <= mem[j] /\ mem[j] <= mem[j]
      BY <1>2, <2>3 DEF Held, OneSnapshot, Shape, Dataset
    <2>5. \A q \in Proc : Saving(q)' => q = p /\ saver'[q].image = mem /\ saver'[q].pc = "open"
      BY <2>1, <2>2, Quiet DEF Saving, At
    <2>6. \A q \in Proc : saver'[q].pc \notin {"write", "rename"}
      BY <2>1, <2>2, Quiet DEF At
    <2>7. ~clean
      BY <1>2, <1>4 DEF OneSnapshot
    <2>8. OneSnapshot'
      BY <1>2, <2>3, <2>4, <2>7 DEF OneSnapshot
    <2>9. OneSaver'
      BY <1>2, <2>3, <2>4, <2>5, <2>6 DEF OneSaver, Proc
    <2>10. QED
      BY <2>8, <2>9
  <1>5. ASSUME NEW p \in Proc, RdbOpen(p) PROVE OneSaver' /\ OneSnapshot'
    <2>1. PICK i \in Inode : /\ i # path
                             /\ data' = [data EXCEPT ![i] = <<>>]
                             /\ tmp' = i
                             /\ saver' = [saver EXCEPT ![p] = At(saver[p].image, "write", 0, i)]
      <3>1. CASE tmp # None
        BY <1>2, <1>5, <3>1, Zenon DEF RdbOpen, Shape, OneSaver
      <3>2. CASE tmp = None
        BY <1>5, <3>2, Zenon DEF RdbOpen, Free
      <3>3. QED
        BY <3>1, <3>2
    <2>2. /\ saver[p].pc = "open" /\ Saving(p)
          /\ UNCHANGED <<up, mem, writes, path, images, clean>>
      BY <1>5 DEF RdbOpen, Saving
    <2>3. \A q \in Proc : saver'[q] = IF q = p THEN At(saver[p].image, "write", 0, i) ELSE saver[q]
      BY <2>1 DEF Shape
    <2>4. path \in Inode => data'[path] = data[path]
      BY <2>1 DEF Shape
    <2>5. \A j \in 1 .. NKeys : Held(j)' = Held(j)
      BY <2>2, <2>4 DEF Held, Shape
    <2>6. \A q \in Proc : Saving(q)' => q = p /\ Saving(q) /\ saver'[q].image = saver[q].image
      BY <1>2, <2>2, <2>3 DEF OneSaver, Saving, At
    <2>7. OneSnapshot'
      <3>1. ~clean
        BY <1>2, <2>2, Quiet DEF OneSnapshot
      <3>2. QED
        BY <1>2, <2>2, <2>4, <2>5, <3>1 DEF OneSnapshot, Shape
    <2>8. \A q \in Proc : saver'[q].pc \in {"write", "rename"} =>
             /\ saver'[q].ino = tmp' /\ saver'[q].off = 0 /\ Len(data'[tmp']) = 0
      <3>1. data'[i] = <<>>
        BY <2>1 DEF Shape
      <3>2. QED
        BY <2>1, <2>3, <2>6, <3>1 DEF At, Saving
    <2>9. OneSaver'
      BY <1>2, <2>1, <2>2, <2>5, <2>6, <2>8 DEF OneSaver, Proc
    <2>10. QED
      BY <2>7, <2>9
  <1>6. ASSUME NEW p \in Proc, RdbWrite(p) PROVE OneSaver' /\ OneSnapshot'
    <2> DEFINE s == saver[p]
    <2>1. /\ s.pc = "write" /\ s.ino = tmp /\ s.off \in 0 .. NKeys - 1 /\ tmp \in Inode
          /\ tmp # path /\ Len(data[tmp]) = s.off /\ Saving(p)
          /\ data[tmp] \in Seq(Record)
      <3>1. s \in Save /\ s.pc = "write" /\ Saving(p)
        BY <1>6, Zenon DEF RdbWrite, Shape, Saving
      <3>2. s.off < NKeys /\ s.ino # None /\ s.ino = tmp /\ Len(data[tmp]) = s.off
        BY <1>2, <3>1 DEF Shape, OneSaver
      <3>3. tmp \in Inode /\ tmp # path
        BY <1>2, <3>2 DEF Shape, OneSaver
      <3>4. s.off \in 0 .. NKeys - 1
        BY <3>1, <3>2 DEF Save
      <3>5. data[tmp] \in Seq(Record)
        BY <3>3 DEF Shape
      <3>6. QED
        BY <3>1, <3>2, <3>3, <3>4, <3>5
    <2>2. /\ data' = [data EXCEPT ![tmp] = Overlay(data[tmp], s.off, s.image[s.off + 1])]
          /\ UNCHANGED <<up, mem, writes, path, tmp, images, clean>>
      BY <1>6, <2>1 DEF RdbWrite
    <2>3. /\ Len(data'[tmp]) = s.off + 1
          /\ \A i \in 1 .. s.off + 1 : data'[tmp][i] = s.image[i]
      <3>1. data'[tmp] = Overlay(data[tmp], s.off, s.image[s.off + 1])
        BY <2>1, <2>2 DEF Shape
      <3>2. \A i \in 1 .. s.off : data[tmp][i] = s.image[i]
        BY <1>2, <2>1 DEF OneSaver
      <3>3. QED
        BY <2>1, <3>1, <3>2 DEF Overlay
    <2>4. \A q \in Proc : /\ q # p => saver'[q] = saver[q]
                          /\ saver'[p].image = s.image /\ saver'[p].off = s.off + 1
                          /\ saver'[p].ino = tmp
      BY <1>6, <2>1 DEF RdbWrite, Shape, At
    <2>5. path \in Inode => data'[path] = data[path]
      BY <2>1, <2>2 DEF Shape
    <2>6. \A j \in 1 .. NKeys : Held(j)' = Held(j)
      BY <2>2, <2>5 DEF Held, Shape
    <2>7. \A q \in Proc : Saving(q)' => q = p
      BY <1>2, <2>1, <2>4, SMTT(20) DEF OneSaver, Saving
    <2>8. OneSnapshot'
      <3>1. ~clean
        BY <1>2, <2>1, Quiet DEF OneSnapshot
      <3>2. QED
        BY <1>2, <2>2, <2>5, <2>6, <3>1 DEF OneSnapshot, Shape
    <2>9. \A q \in Proc : saver'[q].pc \in {"write", "rename"} => q = p
      BY <2>7, SMTT(20) DEF Saving
    <2>10. OneSaver'
      BY <1>2, <2>1, <2>2, <2>3, <2>4, <2>6, <2>7, <2>9 DEF OneSaver, Proc
    <2>11. QED
      BY <2>8, <2>10
  <1>7. ASSUME NEW p \in Proc, RdbRename(p) PROVE OneSaver' /\ OneSnapshot'
    <2> DEFINE image == saver[p].image
    <2>1. /\ saver[p].pc = "rename" /\ Saving(p) /\ saver[p].off = NKeys
          /\ tmp \in Inode /\ data[tmp] \in Seq(Record) /\ image \in Dataset
          /\ Len(data[tmp]) = NKeys /\ \A i \in 1 .. NKeys : data[tmp][i] = image[i]
      BY <1>2, <1>7 DEF RdbRename, Shape, OneSaver, Save, Saving
    <2>2. data[tmp] = image
      BY <2>1, SMTT(20) DEF Dataset
    <2>3. /\ path' = tmp /\ tmp' = None /\ UNCHANGED <<mem, writes, images>>
          /\ RdbEnd(p, TRUE) /\ Reclaim
      BY <1>7, Zenon DEF RdbRename
    <2>4. path' \in Inode /\ path' # None /\ data'[path'] = image
      BY <2>1, <2>2, <2>3, ReclaimKeeps DEF Inode, None
    <2>5. \A q \in Proc : saver'[q].pc = "idle"
      BY <1>2, <2>1, <2>3, NoSaveType DEF RdbEnd, Shape, OneSaver, Saving
    <2>6. OneSaver'
      BY <2>3, <2>5 DEF OneSaver, Saving, Proc
    <2>7. image \in images /\ \A k \in 1 .. NKeys : image[k] <= mem[k] /\ mem[k] <= writes
      BY <1>2, <2>1 DEF OneSaver, OneSnapshot
    <2>8. clean' => up' = "down" /\ image = mem
      <3>1. CASE p = Server
        BY <1>2, <2>1, <2>3, <3>1, Zenon DEF RdbEnd, OneSaver
      <3>2. CASE p # Server
        BY <1>2, <2>1, <2>3, <3>2, Quiet, Zenon DEF RdbEnd, OneSnapshot
      <3>3. QED
        BY <3>1, <3>2
    <2>9. OneSnapshot'
      BY <2>3, <2>4, <2>5, <2>7, <2>8 DEF OneSnapshot, Held, Busy, Saving
    <2>10. QED
      BY <2>6, <2>9
  <1>8. ASSUME NEW p \in Proc, saver' = [saver EXCEPT ![p] = NoSave], Reclaim, ~clean',
               UNCHANGED <<path, tmp, mem, writes, images>>
        PROVE OneSaver' /\ OneSnapshot'
    <2>1. OneSaver' /\ \A k \in 1 .. NKeys : Held(k)' = Held(k)
      BY <1>2, <1>8, EndKeeps, Zenon
    <2>2. path \in Inode => data'[path'] = data[path]
      BY <1>8, ReclaimKeeps
    <2>3. OneSnapshot'
      BY <1>2, <1>8, <2>1, <2>2 DEF OneSnapshot, Shape
    <2>4. QED
      BY <2>1, <2>3
  <1>9. ASSUME NEW p \in Proc, RdbFail(p) PROVE OneSaver' /\ OneSnapshot'
    <2>1. ~clean'
      BY <1>2, <1>9, Quiet, Zenon DEF RdbFail, RdbEnd, OneSnapshot
    <2>2. QED
      BY <1>8, <1>9, <2>1, Zenon DEF RdbFail, RdbEnd
  <1>10. CASE Crash
    BY <1>8, <1>10, Zenon DEF Crash, Proc
  <1>11. CASE server_run
    <2>1. /\ ~Busy /\ mem' = OnDisk /\ clean' = FALSE
          /\ UNCHANGED <<writes, saver, data, path, tmp, images>>
      BY <1>11 DEF server_run
    <2>2. \A k \in 1 .. NKeys : Held(k)' = Held(k) /\ Held(k) \in Int /\ mem'[k] = Held(k)
      <3>1. CASE path = None
        BY <2>1, <3>1 DEF Held, OnDisk, NoData
      <3>2. CASE path # None
        <4>1. data[path] \in Seq(Record) /\ data[path] \in Dataset
          BY <1>2, <3>2 DEF Shape, OneSnapshot
        <4>2. OnDisk = data[path]
          BY <3>2, <4>1, LoadWhole DEF OnDisk
        <4>3. QED
          BY <2>1, <3>2, <4>1, <4>2 DEF Held, Dataset
      <3>3. QED
        BY <3>1, <3>2
    <2>3. \A k \in 1 .. NKeys : mem[k] \in Int /\ writes \in Int
      BY DEF Shape, Dataset
    <2>4. OneSnapshot'
      BY <1>2, <2>1, <2>2, <2>3 DEF OneSnapshot
    <2>5. \A q \in Proc : saver'[q].pc = "idle"
      BY <2>1, Quiet
    <2>6. OneSaver'
      BY <1>2, <2>1, <2>5 DEF OneSaver, Saving, Proc
    <2>7. QED
      BY <2>4, <2>6
  <1>12. CASE UNCHANGED vars
    BY <1>2, <1>12 DEF vars, OneSaver, OneSnapshot, Saving, Held, Busy
  <1>13. cmd_save => OneSaver' /\ OneSnapshot'
    BY <1>4 DEF cmd_save, Proc
  <1>14. Shutdown => OneSaver' /\ OneSnapshot'
    BY <1>4 DEF Shutdown, Proc
  <1>15. ASSUME NEW c \in Child, cmd_bgsave(c) PROVE OneSaver' /\ OneSnapshot'
    BY <1>4, <1>15 DEF cmd_bgsave, Proc
  <1>16. QED
    BY <1>3, <1>5, <1>6, <1>7, <1>9, <1>10, <1>11, <1>12, <1>13, <1>14, <1>15 DEF Next, Step

\* The two invariants hold in every reachable state.
LEMMA Invariant == Spec => [](Shape /\ Alone)
  <1>1. Init => Alone
    <2> SUFFICES ASSUME Init PROVE OneSaver /\ OneSnapshot
      BY DEF Alone
    <2>1. \A p \in Proc : saver[p].pc = "idle"
      BY NoSaveType DEF Init
    <2>2. OneSaver
      BY <2>1 DEF Init, OneSaver, Saving, Proc
    <2>3. OneSnapshot
      BY RdbAssumption DEF Init, OneSnapshot, Held, NoData
    <2>4. QED
      BY <2>2, <2>3
  <1>2. QED
    BY <1>1, InitShape, ShapeStep, AloneStep, PTL DEF Spec

\* README.md, "never a half-written file": while no two saves overlap the snapshot
\* is one of the datasets a save was started from, whatever fails or is killed.
THEOREM SnapshotWholeHolds == Spec => []SnapshotWholeAlone
  <1>1. Shape /\ Alone => SnapshotWholeAlone
    BY DEF Alone, OneSnapshot, SnapshotWholeAlone, SnapshotWhole
  <1>2. QED
    BY <1>1, Invariant, PTL

\* server.c, "persist on clean shutdown": while no two saves overlap, a load after a
\* stop whose save succeeded gives back the dataset of the stop.
THEOREM StopPersistsHolds == Spec => []StopPersistsAlone
  <1>1. ASSUME Shape, Alone, ~overlapped, clean PROVE OnDisk = mem
    <2>1. path # None /\ data[path] = mem /\ path \in Inode
      BY <1>1 DEF Alone, OneSnapshot, Shape
    <2>2. QED
      BY <1>1, <2>1, LoadWhole DEF OnDisk, Shape
  <1>2. Shape /\ Alone => StopPersistsAlone
    BY <1>1 DEF StopPersistsAlone, StopPersists
  <1>3. QED
    BY <1>2, Invariant, PTL

\* While no two saves overlap, rename(2) replaces the snapshot only by a later one
\* (rdb.c): each key is as in the old snapshot or written since.
THEOREM NeverOlderHolds == Spec => NeverOlder
  <1> DEFINE Later == ~overlapped' /\ path # None /\ path' # path
                        => \A k \in 1 .. NKeys : data'[path'][k] >= data[path][k]
  <1>1. ASSUME Shape, Alone, [Next]_vars PROVE Later
    <2> SUFFICES ASSUME ~overlapped', path # None, path' # path, NEW k \in 1 .. NKeys
                 PROVE  data'[path'][k] >= data[path][k]
      OBVIOUS
    <2>1. PICK p \in Proc : RdbRename(p)
      BY <1>1, Zenon DEF Next, vars, Write, cmd_save, cmd_bgsave, Shutdown, RdbStart, Step, RdbOpen, RdbWrite,
             RdbFail, Crash, server_run
    <2>2. ~overlapped /\ OneSaver /\ OneSnapshot
      BY <1>1, <2>1 DEF RdbRename, Alone
    <2>3. /\ tmp \in Inode /\ path' = tmp /\ Saving(p) /\ Reclaim
          /\ data[tmp][k] = saver[p].image[k] /\ saver[p].image \in Dataset
      BY <1>1, <2>1, <2>2 DEF RdbRename, Shape, OneSaver, Save, Saving
    <2>4. data'[path'][k] = saver[p].image[k]
      BY <1>1, <2>3, ReclaimKeeps
    <2>5. data[path][k] <= saver[p].image[k] /\ data[path] \in Dataset
      BY <1>1, <2>2, <2>3 DEF OneSaver, OneSnapshot, Held, Shape
    <2>6. QED
      BY <2>3, <2>4, <2>5, RdbAssumption DEF Dataset
  <1>2. QED
    BY <1>1, Invariant, PTL DEF Spec, NeverOlder
=============================================================================

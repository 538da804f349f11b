---------------------------- MODULE HostFsProof -----------------------------
(* Proofs about the tables of HostFs, for any number of descriptors, files,
   threads, handles and sessions.                                             *)
EXTENDS HostFs, SequenceTheorems, WellFoundedInduction, TLAPS

Typed ==
  /\ os \in [Fd -> File \cup {NULL}]
  /\ opened \in [Fd -> BOOLEAN]
  /\ open_dirs \in [Did -> [opened : BOOLEAN, pos : Nat]]
  /\ handle \in [Handle -> {Closed} \cup [fid : Fd, file : File]]
  /\ dhandle \in [DirHandle -> {DClosed} \cup [did : Did, seen : Nat]]

\* Only what close_hostfs would close is open.
OpenInRange == \A d \in Fd : opened[d] => d >= 3 /\ d < MaxFiles

\* While there is a connection no two directory handles share an entry of
\* open_dirs.
DirApart ==
  up => \A g, h \in DirHandle :
    dhandle[g] # DClosed /\ dhandle[h] # DClosed /\ g # h => dhandle[g].did # dhandle[h].did

FileInv == OpenInRange /\ FilesTracked /\ HandleMeansFile
DirInv  == DirInStep /\ DirApart
FsInv   == Typed /\ FileInv /\ DirInv

-----------------------------------------------------------------------------
\* The lowest free number is a free number.  (open, dir_open)
LEMMA MinIsLowest ==
  ASSUME NEW S \in SUBSET Nat, S # {}
  PROVE  Min(S) \in S
  <1>1. PICK x \in S : \A y \in S : ~(<<y, x>> \in OpToRel(<, Nat))
    BY NatLessThanWellFounded, WFMin
  <1>2. \A y \in S : x =< y
    <2>1. SUFFICES ASSUME NEW y \in S PROVE x =< y
      OBVIOUS
    <2>2. ~(y < x)
      BY <1>1 DEF OpToRel
    <2> QED
      BY <2>2
  <1> QED
    BY <1>2 DEF Min

LEMMA InvInit ==
  ASSUME Init
  PROVE  FsInv
  <1> USE HostFsAssumption DEF Init
  <1>1. Typed
    BY DEF Typed, Closed, DClosed
  <1>2. FileInv
    BY DEF FileInv, OpenInRange, FilesTracked, HandleMeansFile
  <1>3. DirInv
    BY DEF DirInv, DirInStep, DirApart
  <1> QED
    BY <1>1, <1>2, <1>3 DEF FsInv

\* A step that leaves the tables and the handles alone may lose the connection.
LEMMA TablesAlone ==
  ASSUME FsInv, UNCHANGED <<os, opened, open_dirs, handle, dhandle>>, up' => up
  PROVE  FsInv'
  <1>1. Typed'
    BY DEF FsInv, Typed
  <1>2. FileInv'
    BY DEF FsInv, FileInv, OpenInRange, FilesTracked, HandleMeansFile, ServerHas
  <1>3. DirInv'
    BY DEF FsInv, DirInv, DirInStep, DirApart
  <1> QED
    BY <1>1, <1>2, <1>3 DEF FsInv

\* A step on files may leave the directories alone, and lose the connection.
LEMMA DirsAlone ==
  ASSUME DirInv, UNCHANGED <<open_dirs, dhandle>>, up' => up
  PROVE  DirInv'
  BY DEF DirInv, DirInStep, DirApart

LEMMA FilesAlone ==
  ASSUME FileInv, UNCHANGED <<os, opened, handle>>, up' => up
  PROVE  FileInv'
  BY DEF FileInv, OpenInRange, FilesTracked, HandleMeansFile, ServerHas

-----------------------------------------------------------------------------
LEMMA InvReconnect ==
  ASSUME FsInv, Reconnect, Fresh
  PROVE  FsInv'
  <1> USE HostFsAssumption DEF Reconnect, FsInv
  <1>1. Typed'
    BY DEF Typed
  <1>2. \A d \in Fd : os'[d] = NULL
    BY DEF Typed, FileInv, OpenInRange, FilesTracked, Closes
  <1>3. FileInv'
    BY <1>2 DEF Typed, FileInv, OpenInRange, FilesTracked, HandleMeansFile
  <1>4. DirInv'
    BY DEF DirInv, DirInStep, DirApart
  <1> QED
    BY <1>1, <1>3, <1>4

LEMMA InvOpen ==
  ASSUME FsInv, {0, 1, 2} \subseteq Own, NEW h \in Handle, NEW f \in File, io_open(h, f)
  PROVE  FsInv'
  <1> DEFINE d == Min(FreeFd)
  <1> USE HostFsAssumption DEF FsInv
  <1>1. d \in Fd /\ os[d] = NULL /\ d >= 3 /\ d \in Nat
    <2>1. FreeFd \in SUBSET Nat /\ FreeFd # {}
      BY DEF FreeFd, io_open
    <2>2. d \in FreeFd
      BY <2>1, MinIsLowest
    <2>3. d \in Fd /\ d \notin Own /\ os[d] = NULL
      BY <2>2 DEF FreeFd
    <2>4. d \in Nat /\ d # 0 /\ d # 1 /\ d # 2
      BY <2>3
    <2> QED
      BY <2>3, <2>4
  <1>2. (up' => up) /\ UNCHANGED <<open_dirs, dhandle>> /\ up
    BY DEF io_open, open_file, pcvars
  <1>3. open_file(d, f)
    BY DEF io_open
  <1> HIDE DEF d
  <1>4. handle' \in {handle, [handle EXCEPT ![h] = [fid |-> d, file |-> f]]}
        /\ (up' => handle' = IF Fits(d) THEN [handle EXCEPT ![h] = [fid |-> d, file |-> f]]
                                       ELSE handle)
    BY <1>2 DEF io_open, d
  <1>5. CASE ~Fits(d)
    <2>1. UNCHANGED <<os, opened>>
      BY <1>3, <1>5 DEF open_file, pcvars
    <2>2. up' => handle' = handle
      BY <1>4, <1>5
    <2>3. Typed'
      BY <1>1, <1>2, <1>4, <2>1 DEF Typed
    <2>4. FileInv'
      <3>1. OpenInRange' /\ FilesTracked'
        BY <2>1 DEF FileInv, OpenInRange, FilesTracked
      <3>2. ASSUME up' PROVE HandleMeansFile'
        BY <3>2, <2>1, <2>2, <1>2 DEF FileInv, HandleMeansFile, ServerHas
      <3>3. CASE ~up'
        BY <3>1, <3>3 DEF FileInv, HandleMeansFile
      <3> QED
        BY <3>1, <3>2, <3>3 DEF FileInv
    <2> QED
      BY <2>3, <2>4, <1>2, DirsAlone
  <1>6. CASE Fits(d)
    <2>1. os' = [os EXCEPT ![d] = f] /\ opened' = [opened EXCEPT ![d] = TRUE]
      BY <1>3, <1>6 DEF open_file
    <2>2. Typed'
      BY <1>1, <1>2, <1>4, <2>1 DEF Typed
    <2>3. OpenInRange'
      BY <1>1, <1>6, <2>1 DEF Typed, FileInv, OpenInRange, Fits
    <2>4. FilesTracked'
      BY <1>1, <2>1 DEF Typed, FileInv, FilesTracked
    <2>5. HandleMeansFile'
      <3>1. SUFFICES ASSUME up', NEW i \in Handle, handle'[i] # Closed
                     PROVE  /\ ServerHas(handle[i].fid)'
                            /\ os'[handle'[i].fid] = handle'[i].file
                            /\ \A g \in Handle \ {i} : handle'[g].fid # handle'[i].fid
        BY DEF HandleMeansFile
      <3>2. handle' = [handle EXCEPT ![h] = [fid |-> d, file |-> f]]
        BY <3>1, <1>4, <1>6
      <3>3. \A g \in Handle : handle[g].fid # d
        <4>1. SUFFICES ASSUME NEW g \in Handle PROVE handle[g].fid # d
          OBVIOUS
        <4>2. CASE handle[g] = Closed
          BY <4>2, <1>1 DEF Closed
        <4>3. CASE handle[g] # Closed
          BY <4>3, <1>1, <1>2 DEF Typed, FileInv, HandleMeansFile
        <4> QED
          BY <4>2, <4>3
      <3>4. CASE i = h
        BY <3>2, <3>3, <3>4, <1>1, <1>6, <2>1 DEF Typed, ServerHas, Fits
      <3>5. CASE i # h
        <4>1. handle'[i] = handle[i] /\ handle[i] # Closed
          BY <3>1, <3>2, <3>5 DEF Typed
        <4>2. handle[i] \in [fid : Fd, file : File] /\ handle[i].fid # d
          BY <3>3, <4>1 DEF Typed
        <4>3. ServerHas(handle[i].fid) /\ os[handle[i].fid] = handle[i].file
              /\ \A g \in Handle \ {i} : handle[g].fid # handle[i].fid
          BY <4>1, <1>2 DEF FileInv, HandleMeansFile
        <4> QED
          BY <3>2, <4>1, <4>2, <4>3, <2>1 DEF Typed, ServerHas
      <3> QED
        BY <3>4, <3>5
    <2> QED
      BY <2>2, <2>3, <2>4, <2>5, <1>2, DirsAlone DEF FileInv
  <1> QED
    BY <1>5, <1>6

LEMMA InvClose ==
  ASSUME FsInv, NEW h \in Handle, io_close(h)
  PROVE  FsInv'
  <1> DEFINE d == handle[h].fid
  <1> USE HostFsAssumption DEF FsInv
  <1>1. handle[h] \in [fid : Fd, file : File] /\ d \in Fd
    BY DEF io_close, Typed
  <1>2. handle' = [handle EXCEPT ![h] = Closed]
    BY DEF io_close
  <1>3. CASE ~up
    <2>1. ~up' /\ UNCHANGED <<os, opened, open_dirs, dhandle>>
      BY <1>3 DEF io_close, pcvars
    <2>2. Typed'
      BY <1>2, <2>1 DEF Typed
    <2>3. FileInv'
      BY <2>1 DEF FileInv, OpenInRange, FilesTracked, HandleMeansFile
    <2> QED
      BY <2>1, <2>2, <2>3, DirsAlone
  <1>4. CASE up
    <2>1. ServerHas(d) /\ d > 2 /\ \A g \in Handle \ {h} : handle[g].fid # d
      <3>1. ServerHas(d) /\ \A g \in Handle \ {h} : handle[g].fid # d
        BY <1>4 DEF io_close, FileInv, HandleMeansFile
      <3>2. d \in Nat /\ d >= 3
        BY <3>1, <1>1 DEF ServerHas, FileInv, OpenInRange
      <3> QED
        BY <3>1, <3>2
    <2>2. handle_close(d) /\ (up' => up) /\ UNCHANGED dhandle
      BY <1>4 DEF io_close
    <2>3. /\ os' = [os EXCEPT ![d] = NULL]
          /\ opened' = [opened EXCEPT ![d] = FALSE]
          /\ UNCHANGED open_dirs
      BY <2>1, <2>2 DEF handle_close, ServerHas
    <2> HIDE DEF d
    <2>4. Typed'
      BY <1>1, <1>2, <2>2, <2>3 DEF Typed
    <2>5. OpenInRange' /\ FilesTracked'
      BY <1>1, <2>3 DEF Typed, FileInv, OpenInRange, FilesTracked
    <2>6. HandleMeansFile'
      <3>1. SUFFICES ASSUME NEW i \in Handle, handle'[i] # Closed
                     PROVE  /\ ServerHas(handle[i].fid)'
                            /\ os'[handle'[i].fid] = handle'[i].file
                            /\ \A g \in Handle \ {i} : handle'[g].fid # handle'[i].fid
        BY DEF HandleMeansFile
      <3>2. i # h /\ handle'[i] = handle[i]
        BY <3>1, <1>2 DEF Typed
      <3>3. handle[i] \in [fid : Fd, file : File] /\ handle[i].fid # d
        BY <2>1, <3>1, <3>2 DEF Typed
      <3>4. ServerHas(handle[i].fid) /\ os[handle[i].fid] = handle[i].file
            /\ \A g \in Handle \ {i} : handle[g].fid # handle[i].fid
        BY <1>4, <3>1, <3>2 DEF FileInv, HandleMeansFile
      <3>5. \A g \in Handle \ {i} : handle'[g].fid # handle'[i].fid
        <4>1. NULL # handle[i].fid
          BY <3>3
        <4> QED
          BY <4>1, <1>2, <3>2, <3>4 DEF Typed, Closed
      <3> QED
        BY <3>2, <3>3, <3>4, <3>5, <2>3 DEF Typed, ServerHas
    <2> QED
      BY <2>2, <2>3, <2>4, <2>5, <2>6, DirsAlone DEF FileInv
  <1> QED
    BY <1>3, <1>4

-----------------------------------------------------------------------------
LEMMA InvDopen ==
  ASSUME FsInv, NEW h \in DirHandle, io_dopen(h)
  PROVE  FsInv'
  <1> DEFINE d == Min(FreeDid)
  <1> USE HostFsAssumption DEF FsInv
  <1>1. d \in Did /\ ~open_dirs[d].opened
    <2>1. FreeDid \in SUBSET Nat /\ FreeDid # {}
      BY DEF FreeDid, io_dopen, Did
    <2>2. d \in FreeDid
      BY <2>1, MinIsLowest
    <2> QED
      BY <2>2 DEF FreeDid
  <1>2. /\ up /\ UNCHANGED <<os, opened, handle>>
        /\ open_dirs' = [open_dirs EXCEPT ![d] = [opened |-> TRUE, pos |-> 0]]
        /\ dhandle' \in {dhandle, [dhandle EXCEPT ![h] = [did |-> d, seen |-> 0]]}
        /\ up' => dhandle' = [dhandle EXCEPT ![h] = [did |-> d, seen |-> 0]]
    BY DEF io_dopen
  <1> HIDE DEF d
  <1>3. Typed'
    BY <1>1, <1>2 DEF Typed
  <1>4. FileInv'
    BY <1>2, FilesAlone
  <1>5. ASSUME NEW g \in DirHandle, dhandle[g] # DClosed
        PROVE  /\ dhandle[g].did \in Did /\ dhandle[g].did # d
               /\ open_dirs[dhandle[g].did].opened
               /\ open_dirs[dhandle[g].did].pos = dhandle[g].seen
    <2>1. dhandle[g].did \in Did
      BY <1>5 DEF Typed
    <2>2. open_dirs[dhandle[g].did].opened /\ open_dirs[dhandle[g].did].pos = dhandle[g].seen
      BY <1>5, <1>2 DEF DirInv, DirInStep
    <2> QED
      BY <2>1, <2>2, <1>1
  <1>6. ASSUME up', NEW g \in DirHandle, dhandle'[g] # DClosed, g # h
        PROVE  dhandle[g] # DClosed /\ dhandle'[g] = dhandle[g]
    BY <1>6, <1>2 DEF Typed
  <1>7. DirInStep'
    <2>1. SUFFICES ASSUME up', NEW g \in DirHandle, dhandle'[g] # DClosed
                   PROVE  /\ open_dirs'[dhandle'[g].did].opened
                          /\ open_dirs'[dhandle'[g].did].pos = dhandle'[g].seen
      BY DEF DirInStep
    <2>2. CASE g = h
      BY <2>1, <2>2, <1>1, <1>2 DEF Typed
    <2>3. CASE g # h
      BY <2>1, <2>3, <1>2, <1>5, <1>6 DEF Typed
    <2> QED
      BY <2>2, <2>3
  <1>8. DirApart'
    <2>1. SUFFICES ASSUME up', NEW g \in DirHandle, NEW i \in DirHandle, g # i,
                          dhandle'[g] # DClosed, dhandle'[i] # DClosed
                   PROVE  dhandle'[g].did # dhandle'[i].did
      BY DEF DirApart
    <2>2. dhandle'[h].did = d
      BY <2>1, <1>2 DEF Typed
    <2>3. CASE g = h
      BY <2>1, <2>2, <2>3, <1>5, <1>6
    <2>4. CASE i = h
      BY <2>1, <2>2, <2>4, <1>5, <1>6
    <2>5. CASE g # h /\ i # h
      BY <2>1, <2>5, <1>2, <1>6 DEF DirInv, DirApart
    <2> QED
      BY <2>3, <2>4, <2>5
  <1> QED
    BY <1>3, <1>4, <1>7, <1>8 DEF DirInv

LEMMA InvDread ==
  ASSUME FsInv, NEW h \in DirHandle, io_dread(h)
  PROVE  FsInv'
  <1> DEFINE d == dhandle[h].did
  <1> USE HostFsAssumption DEF FsInv
  <1>1. d \in Did /\ dhandle[h] \in [did : Did, seen : Nat] /\ dhandle[h] # DClosed
    BY DEF io_dread, Typed
  <1>2. /\ up /\ UNCHANGED <<os, opened, handle, up>>
        /\ open_dirs' = [open_dirs EXCEPT ![d].pos = @ + 1]
        /\ dhandle' = [dhandle EXCEPT ![h].seen = @ + 1]
    BY DEF io_dread
  <1>3. \A g \in DirHandle : dhandle'[g].did = dhandle[g].did
    BY <1>1, <1>2 DEF Typed
  <1>4. \A g \in DirHandle \ {h} : dhandle'[g] = dhandle[g]
    BY <1>2 DEF Typed
  <1>5. Typed'
    BY <1>1, <1>2 DEF Typed
  <1>6. FileInv'
    BY <1>2, FilesAlone
  <1>7. DirApart'
    BY <1>1, <1>2, <1>3, <1>4 DEF DirInv, DirApart
  <1>8. DirInStep'
    <2>1. SUFFICES ASSUME NEW g \in DirHandle, dhandle'[g] # DClosed
                   PROVE  /\ open_dirs'[dhandle'[g].did].opened
                          /\ open_dirs'[dhandle'[g].did].pos = dhandle'[g].seen
      BY DEF DirInStep
    <2>2. CASE g = h
      <3>1. open_dirs[d].opened /\ open_dirs[d].pos = dhandle[h].seen
        BY <1>1, <1>2 DEF DirInv, DirInStep
      <3> QED
        BY <2>2, <3>1, <1>1, <1>2, <1>3 DEF Typed
    <2>3. CASE g # h
      <3>1. dhandle'[g] = dhandle[g] /\ dhandle[g] # DClosed /\ dhandle[g].did \in Did
        BY <2>1, <2>3, <1>4 DEF Typed
      <3>2. dhandle[g].did # d
        BY <3>1, <2>3, <1>1, <1>2 DEF DirInv, DirApart
      <3>3. open_dirs'[dhandle[g].did] = open_dirs[dhandle[g].did]
        BY <3>1, <3>2, <1>1, <1>2 DEF Typed
      <3> QED
        BY <3>1, <3>3, <1>2 DEF DirInv, DirInStep
    <2> QED
      BY <2>2, <2>3
  <1> QED
    BY <1>5, <1>6, <1>7, <1>8 DEF DirInv

LEMMA InvDclose ==
  ASSUME FsInv, NEW h \in DirHandle, io_dclose(h)
  PROVE  FsInv'
  <1> DEFINE d == dhandle[h].did
  <1> USE HostFsAssumption DEF FsInv
  <1>1. d \in Did /\ dhandle[h] # DClosed
    BY DEF io_dclose, Typed
  <1>2. /\ (up' => up) /\ UNCHANGED <<os, opened, handle>>
        /\ dhandle' = [dhandle EXCEPT ![h] = DClosed]
        /\ open_dirs' \in {open_dirs, [open_dirs EXCEPT ![d] = [opened |-> FALSE, pos |-> 0]]}
    BY DEF io_dclose
  <1> HIDE DEF d
  <1>3. Typed'
    <2>1. [opened |-> FALSE, pos |-> 0] \in [opened : BOOLEAN, pos : Nat]
      OBVIOUS
    <2>2. open_dirs' \in [Did -> [opened : BOOLEAN, pos : Nat]]
      BY <2>1, <1>1, <1>2 DEF Typed
    <2> QED
      BY <2>2, <1>2 DEF Typed
  <1>4. FileInv'
    BY <1>2, FilesAlone
  <1>5. ASSUME NEW g \in DirHandle, dhandle'[g] # DClosed
        PROVE  g # h /\ dhandle'[g] = dhandle[g] /\ dhandle[g] # DClosed
    BY <1>5, <1>2 DEF Typed
  <1>6. DirApart'
    BY <1>2, <1>5 DEF DirInv, DirApart
  <1>7. DirInStep'
    <2>1. SUFFICES ASSUME up', NEW g \in DirHandle, dhandle'[g] # DClosed
                   PROVE  /\ open_dirs'[dhandle[g].did].opened
                          /\ open_dirs'[dhandle[g].did].pos = dhandle[g].seen
      BY <1>5 DEF DirInStep
    <2>2. g # h /\ dhandle[g] # DClosed /\ dhandle[g].did \in Did
      BY <2>1, <1>5 DEF Typed
    <2>3. dhandle[g].did # d
      BY <2>1, <2>2, <1>1, <1>2 DEF DirInv, DirApart, d
    <2>4. open_dirs'[dhandle[g].did] = open_dirs[dhandle[g].did]
      BY <2>2, <2>3, <1>1, <1>2 DEF Typed
    <2> QED
      BY <2>1, <2>2, <2>4, <1>2 DEF DirInv, DirInStep
  <1> QED
    BY <1>3, <1>4, <1>6, <1>7 DEF DirInv

-----------------------------------------------------------------------------
\* What a transfer of data does to the tables: nothing.
LEMMA InvStep ==
  ASSUME FsInv, Fresh, {0, 1, 2} \subseteq Own, [Next]_vars
  PROVE  FsInv'
  <1>1. CASE LinkBreaks
    BY <1>1, TablesAlone DEF LinkBreaks, pcvars
  <1>2. CASE Reconnect
    BY <1>2, InvReconnect
  <1>3. CASE \E h \in Handle, f \in File : io_open(h, f)
    BY <1>3, InvOpen
  <1>4. CASE \E h \in Handle : io_close(h)
    BY <1>4, InvClose
  <1>5. CASE \E h \in Handle, o \in 0..FileSize : io_lseek(h, o)
    BY <1>5, TablesAlone DEF io_lseek
  <1>6. CASE \E h \in Handle, t \in Thread, op \in {"read", "write"}, n \in 1..MaxLen :
               usb_data(t, h, op, n)
    BY <1>6, TablesAlone DEF usb_data, pcvars
  <1>7. CASE \E t \in Thread : ReadBlock(t)
    <2>1. UNCHANGED <<os, opened, open_dirs, handle, dhandle>> /\ (up' => up)
      BY <1>7 DEF ReadBlock
    <2> QED
      BY <2>1, TablesAlone
  <1>8. CASE \E t \in Thread : WriteBlock(t)
    <2>1. UNCHANGED <<os, opened, open_dirs, handle, dhandle>> /\ (up' => up)
      BY <1>8 DEF WriteBlock
    <2> QED
      BY <2>1, TablesAlone
  <1>9. CASE \E t \in Thread : BlockFails(t) \/ Return(t)
    <2>1. UNCHANGED <<os, opened, open_dirs, handle, dhandle>> /\ (up' => up)
      BY <1>9 DEF BlockFails, Return, pcvars
    <2> QED
      BY <2>1, TablesAlone
  <1>10. CASE \E h \in DirHandle : io_dopen(h)
    BY <1>10, InvDopen
  <1>11. CASE \E h \in DirHandle : io_dread(h)
    BY <1>11, InvDread
  <1>12. CASE \E h \in DirHandle : io_dclose(h)
    BY <1>12, InvDclose
  <1>13. CASE UNCHANGED vars
    BY <1>13, TablesAlone DEF vars, pcvars
  <1> QED
    BY <1>1, <1>2, <1>3, <1>4, <1>5, <1>6, <1>7, <1>8, <1>9, <1>10, <1>11, <1>12, <1>13
       DEF Next

\* If programs close their handles before the next session, a handle means the
\* file it was opened on, while there is a connection: its number is an open
\* descriptor on that file, and no other handle has it, whatever answers are lost
\* and whatever closed in between.  (io_open, io_close, open_file, handle_close)
THEOREM HandlesKept ==
  ASSUME Fresh, {0, 1, 2} \subseteq Own
  PROVE  Spec => []HandleMeansFile
  <1>1. Init => FsInv
    BY InvInit
  <1>2. FsInv /\ [Next]_vars => FsInv'
    BY InvStep
  <1>3. FsInv => HandleMeansFile
    BY DEF FsInv, FileInv
  <1> QED
    BY <1>1, <1>2, <1>3, PTL DEF Spec

\* Under the same condition open_files says what is open, so that no session
\* leaves a descriptor behind, and a directory handle is where the entry of
\* open_dirs it names is.  (open_file, handle_close, close_hostfs, handle_dread)
THEOREM TablesKept ==
  ASSUME Fresh, {0, 1, 2} \subseteq Own
  PROVE  Spec => []TablesAgree
  <1>1. Init => FsInv
    BY InvInit
  <1>2. FsInv /\ [Next]_vars => FsInv'
    BY InvStep
  <1>3. FsInv => TablesAgree
    BY DEF FsInv, FileInv, DirInv, TablesAgree
  <1> QED
    BY <1>1, <1>2, <1>3, PTL DEF Spec

-----------------------------------------------------------------------------
(* Long reads and writes.                                                  *)

Calls == [op : {"idle", "read", "write"}, h : Handle \cup {NULL}, len : Nat,
          blocks : Nat, residual : Nat, ret : Int, failed : BOOLEAN, data : Seq(Nat),
          start : Nat]

\* The bytes a call has still to transfer.
Left(c) == c.blocks * MaxBlock + c.residual

\* Where a call is that has had no error: s are the bytes of its file, o is the
\* offset of its descriptor, u says whether there is a connection.
Placed(c, s, o, u) ==
  /\ ~Finished(c) => c.ret >= 0 /\ ~c.failed
  /\ c.ret >= 0 /\ u => /\ o >= c.start + c.ret
                        /\ ~c.failed => o = c.start + c.ret
  /\ c.ret > 0 => c.start + c.ret <= Len(s)
ReadSoFar(c, s) ==
  c.op = "read" /\ c.ret >= 0 =>
    /\ Len(c.data) = c.ret
    /\ \A i \in 1..c.ret : c.data[i] = s[c.start + i]
    /\ ~c.failed => Left(c) = c.len - c.ret \/ c.start + c.ret >= Len(s)
WrittenSoFar(c, s) ==
  c.op = "write" /\ c.ret >= 0 =>
    /\ \A i \in 1..c.ret : s[c.start + i] = i
    /\ ~c.failed => Left(c) = c.len - c.ret

OnTrack(c, s, o, u) == Placed(c, s, o, u) /\ ReadSoFar(c, s) /\ WrittenSoFar(c, s)

LEMMA MaxOfTwo ==
  ASSUME NEW a \in Int, NEW b \in Int
  PROVE  Max({a, b}) = IF a >= b THEN a ELSE b
  <1>1. CASE a >= b
    <2>1. \A x \in {a, b} : (\A y \in {a, b} : x >= y) <=> x = a
      BY <1>1
    <2> QED
      BY <1>1, <2>1 DEF Max
  <1>2. CASE ~(a >= b)
    <2>1. \A x \in {a, b} : (\A y \in {a, b} : x >= y) <=> x = b
      BY <1>2
    <2> QED
      BY <1>2, <2>1 DEF Max
  <1> QED
    BY <1>1, <1>2

LEMMA MinOfTwo ==
  ASSUME NEW a \in Int, NEW b \in Int
  PROVE  Min({a, b}) = IF a =< b THEN a ELSE b
  <1>1. CASE a =< b
    <2>1. \A x \in {a, b} : (\A y \in {a, b} : x =< y) <=> x = a
      BY <1>1
    <2> QED
      BY <1>1, <2>1 DEF Min
  <1>2. CASE ~(a =< b)
    <2>1. \A x \in {a, b} : (\A y \in {a, b} : x =< y) <=> x = b
      BY <1>2
    <2> QED
      BY <1>2, <2>1 DEF Min
  <1> QED
    BY <1>1, <1>2

\* What is left of a call at its start, and after a block.
LEMMA BlockCounts ==
  ASSUME NEW c \in Calls, ~Finished(c)
  PROVE  /\ BlockLen(c) \in Nat \ {0}
         /\ Left(Advance(c)) = Left(c) - BlockLen(c)
  <1> USE HostFsAssumption DEF Calls
  <1>1. CASE c.blocks > 0
    <2>1. Advance(c).blocks = c.blocks - 1 /\ Advance(c).residual = c.residual
      BY <1>1 DEF Advance
    <2>2. (c.blocks - 1) * MaxBlock = c.blocks * MaxBlock - MaxBlock
      OBVIOUS
    <2> QED
      BY <1>1, <2>1, <2>2 DEF BlockLen, Left
  <1>2. CASE ~(c.blocks > 0)
    <2>1. c.blocks = 0 /\ c.residual > 0
      BY <1>2 DEF Finished
    <2>2. Advance(c).blocks = 0 /\ Advance(c).residual = 0
      BY <1>2, <2>1 DEF Advance
    <2> QED
      BY <1>2, <2>1, <2>2 DEF BlockLen, Left
  <1> QED
    BY <1>1, <1>2

\* A call whose loop ends has no block left, one whose loop goes on keeps all but
\* its counters.
LEMMA StopFields ==
  ASSUME NEW c \in Calls
  PROVE  LET e == Stop(c) IN
         /\ e \in Calls /\ e.blocks = 0 /\ e.residual = 0
         /\ e.op = c.op /\ e.h = c.h /\ e.len = c.len /\ e.start = c.start
         /\ e.data = c.data /\ e.failed = c.failed /\ e.ret = c.ret
  <1>1. Stop(c) \in Calls /\ Stop(c).blocks = 0 /\ Stop(c).residual = 0
    BY DEF Stop, Calls
  <1>2. /\ Stop(c).op = c.op /\ Stop(c).h = c.h /\ Stop(c).len = c.len
        /\ Stop(c).start = c.start
    BY DEF Stop, Calls
  <1>3. Stop(c).data = c.data /\ Stop(c).failed = c.failed /\ Stop(c).ret = c.ret
    BY DEF Stop, Calls
  <1> QED
    BY <1>1, <1>2, <1>3

LEMMA AdvanceFields ==
  ASSUME NEW c \in Calls
  PROVE  LET e == Advance(c) IN
         /\ e \in Calls
         /\ e.op = c.op /\ e.h = c.h /\ e.len = c.len /\ e.start = c.start
         /\ e.data = c.data /\ e.failed = c.failed /\ e.ret = c.ret
  <1>1. Advance(c) \in Calls
    <2>1. CASE c.blocks > 0
      <3>1. c.blocks - 1 \in Nat /\ Advance(c) = [c EXCEPT !.blocks = c.blocks - 1]
        BY <2>1 DEF Advance, Calls
      <3> QED
        BY <3>1 DEF Calls
    <2>2. CASE ~(c.blocks > 0)
      BY <2>2 DEF Advance, Calls
    <2> QED
      BY <2>1, <2>2
  <1>2. /\ Advance(c).op = c.op /\ Advance(c).h = c.h /\ Advance(c).len = c.len
        /\ Advance(c).start = c.start
    BY DEF Advance, Calls
  <1>3. Advance(c).data = c.data /\ Advance(c).failed = c.failed /\ Advance(c).ret = c.ret
    BY DEF Advance, Calls
  <1> QED
    BY <1>1, <1>2, <1>3

LEMMA RetFields ==
  ASSUME NEW c \in Calls, NEW m \in Int
  PROVE  LET e == [c EXCEPT !.ret = m] IN
         /\ e \in Calls /\ e.blocks = c.blocks /\ e.residual = c.residual
         /\ e.op = c.op /\ e.h = c.h /\ e.len = c.len /\ e.start = c.start
         /\ e.data = c.data /\ e.failed = c.failed /\ e.ret = m
  <1> DEFINE e == [c EXCEPT !.ret = m]
  <1>1. e \in Calls /\ e.blocks = c.blocks /\ e.residual = c.residual
    BY DEF Calls
  <1>2. e.op = c.op /\ e.h = c.h /\ e.len = c.len /\ e.start = c.start
    BY DEF Calls
  <1>3. e.data = c.data /\ e.failed = c.failed /\ e.ret = m
    BY DEF Calls
  <1> QED
    BY <1>1, <1>2, <1>3

\* What the loops make of an answer.
LEMMA AfterTransfer ==
  ASSUME NEW c \in Calls, NEW n \in Int, n > 0, ~Finished(c)
  PROVE  LET e == AfterBlock(c, n) IN
         /\ e \in Calls
         /\ e.op = c.op /\ e.h = c.h /\ e.len = c.len /\ e.start = c.start
         /\ e.data = c.data /\ e.failed = c.failed
         /\ e.ret = c.ret + n
         /\ Left(e) = Left(c) - BlockLen(c)
  <1> DEFINE m == c.ret + n
             b == [c EXCEPT !.ret = m]
             e == AfterBlock(c, n)
  <1>1. e = Advance(b) /\ m \in Int
    BY DEF AfterBlock, Calls
  <1> HIDE DEF m
  <1>2. /\ b \in Calls /\ b.blocks = c.blocks /\ b.residual = c.residual
        /\ b.op = c.op /\ b.h = c.h /\ b.len = c.len /\ b.start = c.start
        /\ b.data = c.data /\ b.failed = c.failed /\ b.ret = m
    BY <1>1, RetFields
  <1> HIDE DEF b, e
  <1>3. ~Finished(b) /\ Left(b) = Left(c) /\ BlockLen(b) = BlockLen(c)
    BY <1>2 DEF Finished, Left, BlockLen
  <1>4. /\ e \in Calls
        /\ e.op = b.op /\ e.h = b.h /\ e.len = b.len /\ e.start = b.start
        /\ e.data = b.data /\ e.failed = b.failed /\ e.ret = b.ret
    BY <1>1, <1>2, AdvanceFields
  <1>5. Left(e) = Left(b) - BlockLen(b)
    BY <1>1, <1>2, <1>3, BlockCounts
  <1> QED
    BY <1>2, <1>3, <1>4, <1>5 DEF e, m

LEMMA AfterEnd ==
  ASSUME NEW c \in Calls, NEW n \in Int, ~(n > 0)
  PROVE  LET e == AfterBlock(c, n) IN
         /\ e \in Calls /\ Finished(e)
         /\ e.op = c.op /\ e.h = c.h /\ e.len = c.len /\ e.start = c.start
         /\ e.data = c.data /\ e.failed = (n < 0)
         /\ e.ret = IF n < 0 /\ c.ret = 0 THEN n ELSE c.ret
         /\ Left(e) = 0
  <1> DEFINE m == IF n < 0 /\ c.ret = 0 THEN n ELSE c.ret
             p == n < 0
             b == [c EXCEPT !.ret = m, !.failed = p]
             e == AfterBlock(c, n)
  <1>1. e = Stop(b) /\ m \in Int /\ p \in BOOLEAN
    BY DEF AfterBlock, Calls
  <1>b. b = [c EXCEPT !.ret = m, !.failed = p]
    OBVIOUS
  <1> HIDE DEF m, p, b
  <1>2. /\ b \in Calls
        /\ b.op = c.op /\ b.h = c.h /\ b.len = c.len /\ b.start = c.start
        /\ b.data = c.data /\ b.failed = p /\ b.ret = m
    <2>1. b \in Calls
      BY <1>1, <1>b DEF Calls
    <2>2. b.op = c.op /\ b.h = c.h /\ b.len = c.len /\ b.start = c.start
      BY <1>1, <1>b DEF Calls
    <2>3. b.data = c.data /\ b.failed = p /\ b.ret = m
      BY <1>1, <1>b DEF Calls
    <2> QED
      BY <2>1, <2>2, <2>3
  <1> HIDE DEF e
  <1>3. /\ e \in Calls /\ e.blocks = 0 /\ e.residual = 0
        /\ e.op = c.op /\ e.h = c.h /\ e.len = c.len /\ e.start = c.start
        /\ e.data = c.data /\ e.failed = p /\ e.ret = m
    BY <1>1, <1>2, StopFields
  <1>4. Left(e) = 0
    BY <1>3, HostFsAssumption DEF Left
  <1> QED
    BY <1>3, <1>4 DEF Finished, e, m, p

\* A call whose exchange failed returns an error and says nothing.
LEMMA Stopped ==
  ASSUME NEW c \in Calls, NEW s, NEW o, NEW u
  PROVE  LET e == Stop([c EXCEPT !.ret = ERR]) IN
         e \in Calls /\ e.op = c.op /\ e.h = c.h /\ OnTrack(e, s, o, u)
  <1> DEFINE b == [c EXCEPT !.ret = ERR]
             e == Stop(b)
  <1>1. b \in Calls /\ b.op = c.op /\ b.h = c.h /\ b.ret = ERR
    BY RetFields DEF ERR
  <1> HIDE DEF b
  <1>2. /\ e \in Calls /\ e.op = c.op /\ e.h = c.h
        /\ e.blocks = 0 /\ e.residual = 0 /\ e.ret = -1
    BY <1>1, StopFields DEF ERR
  <1> HIDE DEF e
  <1>3. OnTrack(e, s, o, u)
    BY <1>2 DEF OnTrack, Placed, ReadSoFar, WrittenSoFar, Finished
  <1> QED
    BY <1>2, <1>3 DEF e, b

-----------------------------------------------------------------------------
LEMMA FunctionIsSeq ==
  ASSUME NEW n \in Nat, NEW f \in [1..n -> Nat]
  PROVE  f \in Seq(Nat) /\ Len(f) = n
  <1>1. f \in Seq(Nat)
    BY SeqDef
  <1>2. Len(f) \in Nat /\ 1..Len(f) = 1..n
    BY <1>1, LenProperties
  <1> QED
    BY <1>1, <1>2

\* z holds b from offset o on, and s elsewhere.
Holds(z, s, o, b, k) ==
  \A i \in 1..Len(z) : z[i] = IF i > o /\ i <= o + k THEN b[i - o] ELSE s[i]

\* A write replaces the bytes from the offset on and may make the file longer.
LEMMA Overwritten ==
  ASSUME NEW s \in Seq(Nat), NEW o \in Nat, NEW k \in Nat, o <= Len(s),
         NEW b \in [1..k -> Nat],
         NEW z, z = Overwrite(s, o, b)
  PROVE  /\ z \in Seq(Nat) /\ Len(z) >= Len(s) /\ Len(z) >= o + k
         /\ Holds(z, s, o, b, k)
  <1> DEFINE m == Max({Len(s), o + Len(b)})
  <1>2. Len(b) = k
    BY FunctionIsSeq
  <1>3. Len(s) \in Nat /\ \A i \in 1..Len(s) : s[i] \in Nat
    BY LenProperties, ElementOfSeq
  <1>4. z = [i \in 1..m |-> IF i > o /\ i <= o + Len(b) THEN b[i - o] ELSE s[i]]
    BY DEF Overwrite
  <1>5. m = IF Len(s) >= o + k THEN Len(s) ELSE o + k
    <2>1. m = Max({Len(s), o + k})
      BY <1>2
    <2> HIDE DEF m
    <2>2. Len(s) \in Int /\ o + k \in Int
      BY <1>3
    <2> QED
      BY <2>1, <2>2, MaxOfTwo
  <1> HIDE DEF m
  <1>6. m \in Nat /\ m >= Len(s) /\ m >= o + k /\ (m = Len(s) \/ m = o + k)
    BY <1>3, <1>5
  <1> DEFINE v(i) == IF i > o /\ i <= o + k THEN b[i - o] ELSE s[i]
  <1>7. z = [i \in 1..m |-> v(i)]
    BY <1>2, <1>4
  <1>8. ASSUME NEW i \in 1..m
        PROVE  v(i) \in Nat
    <2>1. CASE i > o /\ i <= o + k
      <3>1. i - o \in 1..k
        BY <2>1, <1>6
      <3> QED
        BY <2>1, <3>1
    <2>2. CASE ~(i > o /\ i <= o + k)
      <3>1. i \in 1..Len(s)
        BY <2>2, <1>3, <1>6
      <3> QED
        BY <2>2, <3>1, <1>3
    <2> QED
      BY <2>1, <2>2
  <1> HIDE DEF v, Holds
  <1>9. z \in [1..m -> Nat]
    BY <1>7, <1>8
  <1>10. z \in Seq(Nat) /\ Len(z) = m
    BY <1>6, <1>9, FunctionIsSeq
  <1> QED
    BY <1>6, <1>7, <1>10 DEF v, Holds

\* What is added to the buffer.
LEMMA DataFields ==
  ASSUME NEW c \in Calls, NEW m \in Seq(Nat)
  PROVE  LET e == [c EXCEPT !.data = m] IN
         /\ e \in Calls /\ e.blocks = c.blocks /\ e.residual = c.residual
         /\ e.op = c.op /\ e.h = c.h /\ e.len = c.len /\ e.start = c.start
         /\ e.data = m /\ e.failed = c.failed /\ e.ret = c.ret
  <1> DEFINE e == [c EXCEPT !.data = m]
  <1>1. e \in Calls /\ e.blocks = c.blocks /\ e.residual = c.residual
    BY DEF Calls
  <1>2. e.op = c.op /\ e.h = c.h /\ e.len = c.len /\ e.start = c.start
    BY DEF Calls
  <1>3. e.data = m /\ e.failed = c.failed /\ e.ret = c.ret
    BY DEF Calls
  <1> QED
    BY <1>1, <1>2, <1>3

\* An exchange of a read call that has had no error.
LEMMA ReadGoes ==
  ASSUME NEW c \in Calls, NEW s \in Seq(Nat), NEW o \in Nat, c.op = "read", ~Finished(c),
         OnTrack(c, s, o, TRUE), NEW k \in Nat, NEW res \in Int,
         \/ res = k /\ k = Min({BlockLen(c), Max({0, Len(s) - o})})
         \/ res = ERR
  PROVE  LET e == AfterBlock([c EXCEPT !.data = c.data \o SubSeq(s, o + 1, o + res)], res)
         IN  /\ e \in Calls /\ e.op = "read" /\ e.h = c.h
             /\ OnTrack(e, s, o + k, TRUE)
  <1> DEFINE part == SubSeq(s, o + 1, o + res)
             more == c.data \o part
             b == [c EXCEPT !.data = more]
             e == AfterBlock(b, res)
             n == BlockLen(c)
  <1>1. /\ c.ret \in Nat /\ c.start \in Nat /\ c.len \in Nat /\ Left(c) \in Int
        /\ c.data \in Seq(Nat) /\ c.failed \in BOOLEAN
    <2>1. c.ret \in Int /\ c.ret >= 0 /\ c.blocks \in Nat /\ c.residual \in Nat
      BY DEF Calls, OnTrack, Placed
    <2>2. Left(c) \in Int
      BY <2>1, HostFsAssumption DEF Left
    <2> QED
      BY <2>1, <2>2 DEF Calls
  <1>2. o = c.start + c.ret /\ ~c.failed
    BY <1>1 DEF OnTrack, Placed
  <1>3. n \in Nat \ {0} /\ Len(s) \in Nat
    BY BlockCounts, LenProperties
  <1>4. /\ Len(c.data) = c.ret
        /\ \A i \in 1..c.ret : c.data[i] = s[c.start + i]
        /\ Left(c) = c.len - c.ret \/ o >= Len(s)
    <2>1. ReadSoFar(c, s) /\ c.op = "read" /\ c.ret >= 0
      BY <1>1 DEF OnTrack
    <2>2. Len(c.data) = c.ret /\ \A i \in 1..c.ret : c.data[i] = s[c.start + i]
      BY <2>1 DEF ReadSoFar
    <2>3. Left(c) = c.len - c.ret \/ c.start + c.ret >= Len(s)
      BY <1>2, <2>1 DEF ReadSoFar
    <2> QED
      BY <1>2, <2>2, <2>3
  <1> HIDE DEF n
  <1>5. res > 0 => /\ res = k /\ k <= n /\ o + k <= Len(s)
                   /\ k = n \/ o + k = Len(s)
    <2> DEFINE l == Len(s) - o
               m == Max({0, l})
    <2>1. l \in Int
      BY <1>3
    <2>2. m = IF 0 >= l THEN 0 ELSE l
      BY <2>1, MaxOfTwo
    <2> HIDE DEF m
    <2>3. Min({n, m}) = IF n =< m THEN n ELSE m
      BY <1>3, <2>1, <2>2, MinOfTwo
    <2>4. res > 0 => res = k /\ k = Min({n, m})
      BY DEF ERR, m, n
    <2> QED
      BY <1>3, <2>1, <2>2, <2>3, <2>4
  <1>6. res = 0 => o >= Len(s) /\ k = 0
    <2> DEFINE l == Len(s) - o
               m == Max({0, l})
    <2>1. l \in Int
      BY <1>3
    <2>2. m = IF 0 >= l THEN 0 ELSE l
      BY <2>1, MaxOfTwo
    <2> HIDE DEF m
    <2>3. Min({n, m}) = IF n =< m THEN n ELSE m
      BY <1>3, <2>1, <2>2, MinOfTwo
    <2>4. res = 0 => k = 0 /\ k = Min({n, m})
      BY DEF ERR, m, n
    <2> QED
      BY <1>3, <2>1, <2>2, <2>3, <2>4
  <1>7. /\ part \in Seq(Nat)
        /\ Len(part) = IF res > 0 THEN res ELSE 0
        /\ \A i \in 1..res : part[i] = s[o + i]
    <2>1. \A i \in (o + 1)..(o + res) : s[i] \in Nat
      <3>1. \A i \in 1..Len(s) : s[i] \in Nat
        BY ElementOfSeq
      <3>2. \A i \in (o + 1)..(o + res) : i \in 1..Len(s)
        BY <1>3, <1>5
      <3> QED
        BY <3>1, <3>2
    <2>2. o + 1 \in Int /\ o + res \in Int
      OBVIOUS
    <2>3. /\ part \in Seq(Nat)
          /\ Len(part) = IF o + 1 <= o + res THEN (o + res) - (o + 1) + 1 ELSE 0
          /\ \A i \in 1..((o + res) - (o + 1) + 1) : part[i] = s[(o + 1) + i - 1]
      BY <2>1, <2>2, SubSeqProperties
    <2> HIDE DEF part
    <2>4. \A i \in 1..res : i \in 1..((o + res) - (o + 1) + 1) /\ (o + 1) + i - 1 = o + i
      OBVIOUS
    <2> QED
      BY <2>3, <2>4
  <1> HIDE DEF part
  <1>8. /\ more \in Seq(Nat) /\ Len(more) = c.ret + Len(part)
        /\ \A i \in 1..(c.ret + Len(part)) :
             more[i] = IF i <= c.ret THEN c.data[i] ELSE part[i - c.ret]
    <2> DEFINE old == c.data
    <2>1. old \in Seq(Nat) /\ part \in Seq(Nat)
      BY <1>1, <1>7
    <2>2. Len(old) = c.ret
      BY <1>4
    <2>3. more = old \o part
      OBVIOUS
    <2> HIDE DEF old, more
    <2>4. /\ old \o part \in Seq(Nat)
          /\ Len(old \o part) = Len(old) + Len(part)
          /\ \A i \in 1..(Len(old) + Len(part)) :
               (old \o part)[i] = IF i <= Len(old) THEN old[i] ELSE part[i - Len(old)]
      BY <2>1, ConcatProperties
    <2> QED
      BY <2>2, <2>3, <2>4 DEF old
  <1> HIDE DEF more
  <1>9. /\ b \in Calls /\ b.blocks = c.blocks /\ b.residual = c.residual
        /\ b.op = c.op /\ b.h = c.h /\ b.len = c.len /\ b.start = c.start
        /\ b.data = more /\ b.failed = c.failed /\ b.ret = c.ret
    BY <1>8, DataFields
  <1>10. ~Finished(b) /\ Left(b) = Left(c) /\ BlockLen(b) = n
    BY <1>9 DEF Finished, Left, BlockLen, n
  <1> HIDE DEF b, e
  <1>11. CASE res > 0
    <2>1. /\ e \in Calls
          /\ e.op = "read" /\ e.h = c.h /\ e.len = c.len /\ e.start = c.start
          /\ e.data = more /\ ~e.failed
          /\ e.ret = c.ret + res
          /\ Left(e) = Left(c) - n
      <3>1. e = AfterBlock(b, res)
        BY DEF e
      <3> QED
        BY <1>2, <1>9, <1>10, <1>11, <3>1, AfterTransfer
    <2>2. Placed(e, s, o + k, TRUE)
      <3>1. o + k = e.start + e.ret /\ e.ret >= 0 /\ e.start + e.ret <= Len(s)
        <4>1. res = k /\ o + k <= Len(s)
          BY <1>5, <1>11
        <4>2. e.start = c.start /\ e.ret = c.ret + k
          BY <2>1, <4>1
        <4> QED
          BY <1>1, <1>2, <4>1, <4>2
      <3> QED
        BY <3>1, <1>1, <2>1 DEF Placed
    <2>3. Len(e.data) = e.ret
      BY <1>7, <1>8, <1>11, <2>1
    <2>4. ASSUME NEW i \in 1..e.ret
          PROVE  e.data[i] = s[e.start + i]
      <3>1. i \in 1..(c.ret + Len(part))
        BY <1>7, <1>11, <2>1
      <3>2. CASE i <= c.ret
        BY <1>1, <1>4, <1>8, <2>1, <3>1, <3>2
      <3>3. CASE ~(i <= c.ret)
        <4> DEFINE q == c.ret  st == c.start
        <4>1. i \in 1..(q + res) /\ ~(i <= q) /\ q \in Nat /\ st \in Nat /\ o = st + q
          BY <1>1, <1>2, <2>1, <3>3
        <4> HIDE DEF q, st
        <4>2. i - q \in 1..res /\ o + (i - q) = st + i
          BY <4>1
        <4> USE DEF q, st
        <4> QED
          BY <1>7, <1>8, <2>1, <3>1, <3>3, <4>2
      <3> QED
        BY <3>2, <3>3
    <2>5. Left(e) = e.len - e.ret \/ e.start + e.ret >= Len(s)
      <3>1. CASE o >= Len(s)
        BY <1>3, <1>5, <1>11, <3>1
      <3>2. CASE k = n /\ Left(c) = c.len - c.ret
        <4>1. res = n
          BY <1>5, <1>11, <3>2
        <4> QED
          BY <1>1, <1>3, <2>1, <3>2, <4>1
      <3>3. CASE o + k = Len(s)
        <4>1. e.start + e.ret = Len(s)
          BY <1>1, <1>2, <1>5, <1>11, <2>1, <3>3
        <4> QED
          BY <1>3, <4>1
      <3> QED
        BY <1>4, <1>5, <1>11, <3>1, <3>2, <3>3
    <2>6. ReadSoFar(e, s)
      BY <2>3, <2>4, <2>5 DEF ReadSoFar
    <2>7. WrittenSoFar(e, s)
      BY <2>1 DEF WrittenSoFar
    <2> QED
      BY <2>1, <2>2, <2>6, <2>7 DEF OnTrack, e, b, more, part
  <1>12. CASE ~(res > 0)
    <2>1. /\ e \in Calls /\ Finished(e)
          /\ e.op = "read" /\ e.h = c.h /\ e.len = c.len /\ e.start = c.start
          /\ e.data = more /\ e.failed = (res < 0)
          /\ e.ret = IF res < 0 /\ c.ret = 0 THEN res ELSE c.ret
      <3>1. e = AfterBlock(b, res)
        BY DEF e
      <3> QED
        BY <1>9, <1>12, <3>1, AfterEnd
    <2>2. /\ e.ret >= 0 => e.ret = c.ret
          /\ ~e.failed => k = 0 /\ o >= Len(s)
      <3>1. e.ret >= 0 => e.ret = c.ret
        BY <2>1
      <3>2. ~e.failed => ~(res < 0)
        BY <2>1
      <3> QED
        BY <1>6, <1>12, <3>1, <3>2
    <2>3. Placed(e, s, o + k, TRUE)
      <3>1. e.ret >= 0 => o + k >= e.start + e.ret
        BY <1>1, <1>2, <2>1, <2>2
      <3>2. e.ret >= 0 /\ ~e.failed => o + k = e.start + e.ret
        BY <1>1, <1>2, <2>1, <2>2
      <3>3. e.ret > 0 => e.start + e.ret <= Len(s)
        <4>1. c.ret > 0 => c.start + c.ret <= Len(s)
          BY DEF OnTrack, Placed
        <4>2. e.ret \in Int
          BY <2>1 DEF Calls
        <4> QED
          BY <2>1, <2>2, <4>1, <4>2
      <3> QED
        BY <2>1, <3>1, <3>2, <3>3 DEF Placed
    <2>4. ReadSoFar(e, s)
      <3>1. Len(part) = 0
        BY <1>7, <1>12
      <3>2. e.ret >= 0 => /\ Len(e.data) = e.ret
                          /\ \A i \in 1..e.ret : e.data[i] = s[e.start + i]
        BY <1>1, <1>4, <1>8, <2>1, <2>2, <3>1
      <3>3. ~e.failed /\ e.ret >= 0 => e.start + e.ret >= Len(s)
        BY <1>1, <1>2, <1>3, <2>1, <2>2
      <3> QED
        BY <3>2, <3>3 DEF ReadSoFar
    <2>5. WrittenSoFar(e, s)
      BY <2>1 DEF WrittenSoFar
    <2> QED
      BY <2>1, <2>3, <2>4, <2>5 DEF OnTrack, e, b, more, part
  <1> QED
    BY <1>11, <1>12

\* An exchange of a write call that has had no error.
LEMMA WriteGoes ==
  ASSUME NEW c \in Calls, NEW s \in Seq(Nat), NEW o \in Nat, c.op = "write", ~Finished(c),
         OnTrack(c, s, o, TRUE), o <= Len(s), NEW k \in Nat, NEW res \in Int,
         \/ res = k /\ k = BlockLen(c)
         \/ res = ERR
  PROVE  LET e == AfterBlock(c, res)
             z == Overwrite(s, o, [i \in 1..k |-> c.ret + i])
         IN  /\ e \in Calls /\ e.op = "write" /\ e.h = c.h
             /\ z \in Seq(Nat)
             /\ OnTrack(e, z, o + k, TRUE)
  <1> DEFINE n == BlockLen(c)
             r == c.ret
             a == c.start
             b == [i \in 1..k |-> r + i]
             e == AfterBlock(c, res)
             z == Overwrite(s, o, b)
  <1>1. /\ c.ret \in Nat /\ c.start \in Nat /\ c.len \in Nat /\ Left(c) \in Int
        /\ c.failed \in BOOLEAN
    <2>1. c.ret \in Int /\ c.ret >= 0 /\ c.blocks \in Nat /\ c.residual \in Nat
      BY DEF Calls, OnTrack, Placed
    <2>2. Left(c) \in Int
      BY <2>1, HostFsAssumption DEF Left
    <2> QED
      BY <2>1, <2>2 DEF Calls
  <1>2. o = a + r /\ r \in Nat /\ a \in Nat
    BY <1>1 DEF OnTrack, Placed
  <1>3. n \in Nat \ {0} /\ Len(s) \in Nat
    BY BlockCounts, LenProperties
  <1>4. /\ \A i \in 1..r : s[a + i] = i
        /\ Left(c) = c.len - r /\ ~c.failed
    BY <1>1 DEF OnTrack, Placed, WrittenSoFar
  <1> HIDE DEF r, a
  <1>b. b \in [1..k -> Nat] /\ \A i \in 1..k : b[i] = r + i
    BY <1>2
  <1>z. z = Overwrite(s, o, b)
    OBVIOUS
  <1> HIDE DEF b, z
  <1>5. /\ z \in Seq(Nat) /\ Len(z) >= Len(s) /\ Len(z) >= o + k
        /\ \A i \in 1..Len(z) : z[i] = IF i > o /\ i <= o + k THEN r + (i - o) ELSE s[i]
    <2>1. /\ z \in Seq(Nat) /\ Len(z) >= Len(s) /\ Len(z) >= o + k
          /\ Holds(z, s, o, b, k)
      BY <1>b, <1>z, Overwritten
    <2>2. ASSUME NEW i \in 1..Len(z), i > o /\ i <= o + k
          PROVE  b[i - o] = r + (i - o)
      <3>1. Len(z) \in Nat
        BY <2>1, LenProperties
      <3>2. i - o \in 1..k
        BY <2>2, <3>1
      <3> QED
        BY <1>b, <3>2
    <2> QED
      BY <2>1, <2>2 DEF Holds
  <1>6. Len(z) \in Nat
    BY <1>5, LenProperties
  <1> HIDE DEF n, e, z
  <1>7. ASSUME NEW i \in 1..(r + k)
        PROVE  z[a + i] = i
    <2> DEFINE j == a + i
    <2>1. j \in 1..Len(z) /\ i \in Int /\ j \in Int /\ j - o = i - r
      <3>1. Len(z) >= o + k
        BY <1>5
      <3> QED
        BY <3>1, <1>2, <1>6
    <2> HIDE DEF j
    <2>2. z[j] = IF j > o /\ j <= o + k THEN r + (j - o) ELSE s[j]
      BY <1>5, <2>1
    <2>3. CASE i <= r
      <3>1. ~(j > o) /\ i \in 1..r
        BY <1>2, <2>1, <2>3
      <3>2. s[j] = i
        BY <1>4, <3>1 DEF j
      <3> QED
        BY <2>2, <3>1, <3>2 DEF j
    <2>4. CASE ~(i <= r)
      <3>1. j > o /\ j <= o + k /\ r + (j - o) = i
        BY <1>2, <2>1, <2>4
      <3> QED
        BY <2>2, <3>1 DEF j
    <2> QED
      BY <2>3, <2>4
  <1>8. CASE res > 0
    <2>1. res = k /\ k = n
      BY <1>8 DEF ERR, n
    <2>2. /\ e \in Calls
          /\ e.op = "write" /\ e.h = c.h /\ e.len = c.len /\ e.start = a
          /\ ~e.failed
          /\ e.ret = r + k
          /\ Left(e) = Left(c) - k
      <3>1. e = AfterBlock(c, res)
        BY DEF e
      <3> QED
        BY <1>4, <1>8, <2>1, <3>1, AfterTransfer DEF n, r, a
    <2>3. Placed(e, z, o + k, TRUE)
      <3>1. o + k = e.start + e.ret /\ e.ret >= 0
        BY <1>1, <1>2, <2>2
      <3> QED
        BY <1>5, <2>2, <3>1 DEF Placed
    <2>4. Left(e) = e.len - e.ret
      BY <1>1, <1>2, <1>4, <2>2
    <2>5. WrittenSoFar(e, z)
      BY <1>7, <2>2, <2>4 DEF WrittenSoFar
    <2>6. ReadSoFar(e, z)
      BY <2>2 DEF ReadSoFar
    <2> QED
      BY <1>5, <2>2, <2>3, <2>5, <2>6 DEF OnTrack, e, z, b, r
  <1>9. CASE ~(res > 0)
    <2>1. res < 0
      BY <1>3, <1>9 DEF ERR, n
    <2>2. /\ e \in Calls /\ Finished(e)
          /\ e.op = "write" /\ e.h = c.h /\ e.len = c.len /\ e.start = a
          /\ e.failed
          /\ e.ret = IF r = 0 THEN res ELSE r
      <3>1. e = AfterBlock(c, res)
        BY DEF e
      <3> QED
        BY <1>9, <2>1, <3>1, AfterEnd DEF r, a
    <2>3. e.ret >= 0 => e.ret = r
      BY <1>2, <2>1, <2>2
    <2>4. Placed(e, z, o + k, TRUE)
      <3>1. e.ret >= 0 => o + k >= e.start + e.ret /\ e.start + e.ret <= Len(z)
        <4>1. o + k <= Len(z) /\ o + k \in Nat
          BY <1>5
        <4>2. e.ret >= 0 => e.ret = r /\ e.start = a
          BY <2>2, <2>3
        <4>3. a + r <= o + k
          BY <1>2
        <4> QED
          BY <1>2, <1>6, <4>1, <4>2, <4>3
      <3>2. e.ret \in Int
        BY <2>2 DEF Calls
      <3> QED
        BY <2>2, <3>1, <3>2 DEF Placed
    <2>5. WrittenSoFar(e, z)
      <3>1. e.ret >= 0 => \A i \in 1..e.ret : i \in 1..(r + k)
        BY <1>2, <2>3
      <3> QED
        BY <1>7, <2>2, <3>1 DEF WrittenSoFar
    <2>6. ReadSoFar(e, z)
      BY <2>2 DEF ReadSoFar
    <2> QED
      BY <1>5, <2>2, <2>4, <2>5, <2>6 DEF OnTrack, e, z, b, r
  <1> QED
    BY <1>8, <1>9
-----------------------------------------------------------------------------
(* The calls under way.                                                    *)

DataTyped ==
  /\ disk \in [File -> Seq(Nat)]
  /\ off \in [Fd -> Nat]
  /\ call \in [Thread -> Calls]

Busy(t) == call[t].op # "idle"
FileOf(t) == handle[call[t].h].file
FdOf(t) == handle[call[t].h].fid

\* A call keeps its handle open, and no other call has that handle.
HoldsHandle ==
  \A t \in Thread : Busy(t) =>
    /\ call[t].h \in Handle /\ handle[call[t].h] # Closed
    /\ \A u \in Thread : Busy(u) /\ call[u].h = call[t].h => u = t

\* No file is open through two handles.
OneHandle ==
  \A g, h \in Handle :
    handle[g] # Closed /\ handle[h] # Closed /\ handle[g].file = handle[h].file => g = h

Transfers ==
  \A t \in Thread : Busy(t) => OnTrack(call[t], disk[FileOf(t)], off[FdOf(t)], up)

TransferInv == DataTyped /\ HoldsHandle /\ OneHandle /\ Transfers

\* What a call holds, in a state of the tables.
LEMMA BusyHas ==
  ASSUME FsInv, TransferInv, NEW t \in Thread, Busy(t)
  PROVE  /\ call[t] \in Calls /\ call[t].h \in Handle /\ handle[call[t].h] # Closed
         /\ FileOf(t) \in File /\ FdOf(t) \in Fd
         /\ disk[FileOf(t)] \in Seq(Nat) /\ off[FdOf(t)] \in Nat
         /\ up => os[FdOf(t)] = FileOf(t) /\ ServerHas(FdOf(t))
  <1>1. call[t] \in Calls /\ call[t].h \in Handle /\ handle[call[t].h] # Closed
    BY DEF TransferInv, DataTyped, HoldsHandle
  <1>2. handle[call[t].h] \in [fid : Fd, file : File]
    BY <1>1 DEF FsInv, Typed
  <1>3. FileOf(t) \in File /\ FdOf(t) \in Fd
    BY <1>2 DEF FileOf, FdOf
  <1>4. disk[FileOf(t)] \in Seq(Nat) /\ off[FdOf(t)] \in Nat
    BY <1>3 DEF TransferInv, DataTyped
  <1>5. up => os[FdOf(t)] = FileOf(t) /\ ServerHas(FdOf(t))
    BY <1>1 DEF FsInv, FileInv, HandleMeansFile, FileOf, FdOf
  <1> QED
    BY <1>1, <1>3, <1>4, <1>5

\* Two calls are on two files and two descriptors.
LEMMA BusyApart ==
  ASSUME FsInv, TransferInv, NEW t \in Thread, NEW u \in Thread, Busy(t), Busy(u), t # u
  PROVE  FileOf(t) # FileOf(u) /\ (up => FdOf(t) # FdOf(u))
  <1>1. /\ call[t].h \in Handle /\ handle[call[t].h] # Closed
        /\ call[u].h \in Handle /\ handle[call[u].h] # Closed
        /\ call[t].h # call[u].h
    BY DEF TransferInv, HoldsHandle
  <1>2. FileOf(t) # FileOf(u)
    BY <1>1 DEF TransferInv, OneHandle, FileOf
  <1>3. up => FdOf(t) # FdOf(u)
    BY <1>1 DEF FsInv, FileInv, HandleMeansFile, FdOf
  <1> QED
    BY <1>2, <1>3

\* A call stays on track when the bytes of its file and, while there is a
\* connection, its offset stay.
LEMMA TrackStays ==
  ASSUME NEW c, NEW s, NEW o, NEW u, NEW o2, NEW u2,
         OnTrack(c, s, o, u), u2 => u, u2 => o2 = o
  PROVE  OnTrack(c, s, o2, u2)
  BY DEF OnTrack, Placed

\* A step that changes no call.
LEMMA CallsAlone ==
  ASSUME FsInv, TransferInv, UNCHANGED <<disk, call>>, up' => up,
         off' \in [Fd -> Nat], OneHandle',
         \A t \in Thread : Busy(t) =>
           /\ handle'[call[t].h] = handle[call[t].h]
           /\ up' => off'[FdOf(t)] = off[FdOf(t)]
  PROVE  TransferInv'
  <1>1. DataTyped'
    BY DEF TransferInv, DataTyped
  <1>2. HoldsHandle'
    BY DEF TransferInv, HoldsHandle, Busy
  <1>3. Transfers'
    <2>1. SUFFICES ASSUME NEW t \in Thread, Busy(t)
                   PROVE  OnTrack(call[t], disk[FileOf(t)], off[FdOf(t)], up)'
      BY DEF Transfers, Busy
    <2>2. FileOf(t)' = FileOf(t) /\ FdOf(t)' = FdOf(t)
      BY <2>1 DEF FileOf, FdOf
    <2>3. OnTrack(call[t], disk[FileOf(t)], off[FdOf(t)], up)
      BY <2>1 DEF TransferInv, Transfers
    <2>4. OnTrack(call[t], disk[FileOf(t)], off'[FdOf(t)], up')
      BY <2>1, <2>3, TrackStays
    <2> QED
      BY <2>2, <2>4 DEF OnTrack, Placed, ReadSoFar, WrittenSoFar
  <1> QED
    BY <1>1, <1>2, <1>3 DEF TransferInv

\* A step of one call under way.
LEMMA OneCall ==
  ASSUME FsInv, TransferInv, NEW t \in Thread, Busy(t), NEW e \in Calls,
         call' = [call EXCEPT ![t] = e], e.op = call[t].op, e.h = call[t].h,
         UNCHANGED handle, up' => up,
         disk' \in [File -> Seq(Nat)], off' \in [Fd -> Nat],
         \A f \in File : f # FileOf(t) => disk'[f] = disk[f],
         \A d \in Fd : d # FdOf(t) => off'[d] = off[d],
         OnTrack(e, disk'[FileOf(t)], off'[FdOf(t)], up')
  PROVE  TransferInv'
  <1>1. /\ call'[t] = e
        /\ \A u \in Thread : u # t => call'[u] = call[u]
        /\ call' \in [Thread -> Calls]
    BY DEF TransferInv, DataTyped
  <1>2. DataTyped'
    BY <1>1 DEF DataTyped
  <1>3. \A u \in Thread : (Busy(u)' <=> Busy(u)) /\ call'[u].h = call[u].h
    BY <1>1 DEF Busy
  <1>4. HoldsHandle'
    BY <1>3 DEF TransferInv, HoldsHandle
  <1>5. OneHandle'
    BY DEF TransferInv, OneHandle
  <1>6. Transfers'
    <2>1. SUFFICES ASSUME NEW u \in Thread, Busy(u)
                   PROVE  OnTrack(call'[u], disk'[FileOf(u)], off'[FdOf(u)], up')
      BY <1>3 DEF Transfers, FileOf, FdOf
    <2>2. CASE u = t
      BY <1>1, <2>2
    <2>3. CASE u # t
      <3>1. /\ FileOf(u) \in File /\ FdOf(u) \in Fd
            /\ FileOf(u) # FileOf(t) /\ (up => FdOf(u) # FdOf(t))
        BY <2>1, <2>3, BusyHas, BusyApart
      <3>2. disk'[FileOf(u)] = disk[FileOf(u)] /\ (up' => off'[FdOf(u)] = off[FdOf(u)])
        BY <3>1
      <3>3. OnTrack(call[u], disk[FileOf(u)], off[FdOf(u)], up)
        BY <2>1 DEF TransferInv, Transfers
      <3>4. OnTrack(call[u], disk[FileOf(u)], off'[FdOf(u)], up')
        BY <3>2, <3>3, TrackStays
      <3> QED
        BY <1>1, <2>3, <3>2, <3>4
    <2> QED
      BY <2>2, <2>3
  <1> QED
    BY <1>2, <1>4, <1>5, <1>6 DEF TransferInv

-----------------------------------------------------------------------------
LEMMA TransferInit ==
  ASSUME Init
  PROVE  TransferInv
  <1> USE HostFsAssumption DEF Init
  <1>1. DataTyped
    <2>1. [i \in 1..FileSize |-> MaxLen + i] \in Seq(Nat)
      <3>1. [i \in 1..FileSize |-> MaxLen + i] \in [1..FileSize -> Nat]
        OBVIOUS
      <3> QED
        BY <3>1, FunctionIsSeq
    <2>2. disk \in [File -> Seq(Nat)]
      BY <2>1
    <2>3. NoCall \in Calls
      BY EmptySeq DEF NoCall, Calls
    <2> QED
      BY <2>2, <2>3 DEF DataTyped
  <1>2. \A t \in Thread : ~Busy(t)
    BY DEF Busy, NoCall
  <1>3. HoldsHandle /\ Transfers
    BY <1>2 DEF HoldsHandle, Transfers
  <1>4. OneHandle
    BY DEF OneHandle
  <1> QED
    BY <1>1, <1>3, <1>4 DEF TransferInv

\* Programs have closed their handles, so no call is under way.
LEMMA TransferReconnect ==
  ASSUME FsInv, TransferInv, Reconnect, Fresh
  PROVE  TransferInv'
  <1>1. \A t \in Thread : ~Busy(t)
    BY DEF Reconnect, TransferInv, HoldsHandle
  <1>2. DataTyped'
    BY DEF Reconnect, TransferInv, DataTyped
  <1>3. HoldsHandle' /\ Transfers'
    BY <1>1 DEF Reconnect, HoldsHandle, Transfers, Busy
  <1>4. OneHandle'
    BY DEF Reconnect, TransferInv, OneHandle
  <1> QED
    BY <1>2, <1>3, <1>4 DEF TransferInv

\* The descriptor of a new handle was free, so no call had it.
LEMMA TransferOpen ==
  ASSUME FsInv, TransferInv, NEW h \in Handle, NEW f \in File, io_open(h, f)
  PROVE  TransferInv'
  <1> DEFINE d == Min(FreeFd)
  <1> USE HostFsAssumption
  <1>1. d \in Fd /\ os[d] = NULL
    <2>1. FreeFd \in SUBSET Nat /\ FreeFd # {}
      BY DEF FreeFd, io_open
    <2>2. d \in FreeFd
      BY <2>1, MinIsLowest
    <2> QED
      BY <2>2 DEF FreeFd
  <1>2. /\ up /\ (up' => up) /\ UNCHANGED <<disk, call>>
        /\ handle[h] = Closed /\ \A g \in Handle : handle[g].file # f
    BY DEF io_open
  <1>3. off' \in {off, [off EXCEPT ![d] = 0]}
    BY DEF io_open, open_file, pcvars
  <1>4. handle' \in {handle, [handle EXCEPT ![h] = [fid |-> d, file |-> f]]}
    BY DEF io_open
  <1> HIDE DEF d
  <1>5. off' \in [Fd -> Nat]
    BY <1>1, <1>3 DEF TransferInv, DataTyped
  <1>6. OneHandle'
    <2>1. CASE handle' = handle
      BY <2>1 DEF TransferInv, OneHandle
    <2>2. CASE handle' = [handle EXCEPT ![h] = [fid |-> d, file |-> f]]
      <3>1. handle'[h].file = f /\ \A g \in Handle \ {h} : handle'[g] = handle[g]
        BY <2>2 DEF FsInv, Typed
      <3> QED
        BY <3>1, <1>2 DEF TransferInv, OneHandle
    <2> QED
      BY <2>1, <2>2, <1>4
  <1>7. ASSUME NEW t \in Thread, Busy(t)
        PROVE  /\ handle'[call[t].h] = handle[call[t].h]
               /\ up' => off'[FdOf(t)] = off[FdOf(t)]
    <2>1. /\ call[t].h \in Handle /\ handle[call[t].h] # Closed
          /\ FileOf(t) \in File /\ FdOf(t) \in Fd /\ os[FdOf(t)] = FileOf(t)
      BY <1>2, <1>7, BusyHas
    <2>2. call[t].h # h /\ FdOf(t) # d
      BY <2>1, <1>1, <1>2
    <2>3. handle'[call[t].h] = handle[call[t].h]
      BY <2>1, <2>2, <1>4 DEF FsInv, Typed
    <2>4. off'[FdOf(t)] = off[FdOf(t)]
      BY <2>1, <2>2, <1>3 DEF TransferInv, DataTyped
    <2> QED
      BY <2>3, <2>4
  <1> QED
    BY <1>2, <1>5, <1>6, <1>7, CallsAlone

\* The handle that is closed is not in use, and no call has its descriptor.
LEMMA TransferClose ==
  ASSUME FsInv, TransferInv, NEW h \in Handle, io_close(h)
  PROVE  TransferInv'
  <1> DEFINE d == handle[h].fid
  <1> USE HostFsAssumption
  <1>1. handle[h] # Closed /\ d \in Fd
    BY DEF io_close, FsInv, Typed
  <1>2. /\ (up' => up) /\ UNCHANGED <<disk, call>>
        /\ handle' = [handle EXCEPT ![h] = Closed]
        /\ \A t \in Thread : call[t].h # h
    BY DEF io_close, InUse
  <1>3. off' \in {off, [off EXCEPT ![d] = 0]}
    BY DEF io_close, handle_close, pcvars
  <1> HIDE DEF d
  <1>4. off' \in [Fd -> Nat]
    BY <1>1, <1>3 DEF TransferInv, DataTyped
  <1>5. OneHandle'
    <2>1. handle'[h] = Closed /\ \A g \in Handle \ {h} : handle'[g] = handle[g]
      BY <1>2 DEF FsInv, Typed
    <2> QED
      BY <2>1 DEF TransferInv, OneHandle
  <1>6. ASSUME NEW t \in Thread, Busy(t)
        PROVE  /\ handle'[call[t].h] = handle[call[t].h]
               /\ up' => off'[FdOf(t)] = off[FdOf(t)]
    <2>1. call[t].h \in Handle /\ handle[call[t].h] # Closed /\ FdOf(t) \in Fd
      BY <1>6, BusyHas
    <2>2. handle'[call[t].h] = handle[call[t].h]
      BY <2>1, <1>2 DEF FsInv, Typed
    <2>3. up => FdOf(t) # d
      BY <2>1, <1>1, <1>2 DEF FsInv, FileInv, HandleMeansFile, FdOf, d
    <2>4. up => off'[FdOf(t)] = off[FdOf(t)]
      BY <2>1, <2>3, <1>3 DEF TransferInv, DataTyped
    <2> QED
      BY <2>2, <2>4, <1>2
  <1> QED
    BY <1>2, <1>4, <1>5, <1>6, CallsAlone

LEMMA TransferSeek ==
  ASSUME FsInv, TransferInv, NEW h \in Handle, NEW o \in 0..FileSize, io_lseek(h, o)
  PROVE  TransferInv'
  <1> DEFINE d == handle[h].fid
  <1> USE HostFsAssumption
  <1>1. handle[h] # Closed /\ d \in Fd
    BY DEF io_lseek, FsInv, Typed
  <1>2. /\ up' = up /\ UNCHANGED <<disk, call, handle>>
        /\ off' = [off EXCEPT ![d] = o]
        /\ \A t \in Thread : call[t].h # h
    BY DEF io_lseek, InUse
  <1> HIDE DEF d
  <1>3. off' \in [Fd -> Nat]
    BY <1>1, <1>2 DEF TransferInv, DataTyped
  <1>4. OneHandle'
    BY <1>2 DEF TransferInv, OneHandle
  <1>5. ASSUME NEW t \in Thread, Busy(t)
        PROVE  /\ handle'[call[t].h] = handle[call[t].h]
               /\ up' => off'[FdOf(t)] = off[FdOf(t)]
    <2>1. call[t].h \in Handle /\ handle[call[t].h] # Closed /\ FdOf(t) \in Fd
      BY <1>5, BusyHas
    <2>2. up => FdOf(t) # d
      BY <2>1, <1>1, <1>2 DEF FsInv, FileInv, HandleMeansFile, FdOf, d
    <2>3. up => off'[FdOf(t)] = off[FdOf(t)]
      BY <2>1, <2>2, <1>2 DEF TransferInv, DataTyped
    <2> QED
      BY <2>3, <1>2
  <1> QED
    BY <1>2, <1>3, <1>4, <1>5, CallsAlone

\* A call starts at the offset of its descriptor with all of its bytes to go.
LEMMA TransferStarts ==
  ASSUME FsInv, TransferInv, NEW t \in Thread, NEW h \in Handle,
         NEW op \in {"read", "write"}, NEW n \in 1..MaxLen, usb_data(t, h, op, n)
  PROVE  TransferInv'
  <1> DEFINE q == n \div MaxBlock
             r == n % MaxBlock
             a == off[handle[h].fid]
             e == [op |-> op, h |-> h, len |-> n, blocks |-> q, residual |-> r,
                   ret |-> 0, failed |-> FALSE, data |-> <<>>, start |-> a]
  <1> USE HostFsAssumption
  <1>1. /\ ~Busy(t) /\ handle[h] # Closed /\ \A u \in Thread : call[u].h # h
        /\ call' = [call EXCEPT ![t] = e]
        /\ UNCHANGED <<disk, off, up, handle>>
    BY DEF usb_data, Busy, InUse, pcvars
  <1>2. q \in Nat /\ r \in Nat /\ q * MaxBlock + r = n /\ n \in Nat
    OBVIOUS
  <1>3. a \in Nat
    <2>1. handle[h].fid \in Fd
      BY <1>1 DEF FsInv, Typed
    <2> QED
      BY <2>1 DEF TransferInv, DataTyped
  <1> HIDE DEF q, r, a
  <1>4. e \in Calls
    BY <1>2, <1>3, EmptySeq DEF Calls
  <1>5. /\ e.op = op /\ e.h = h /\ e.len = n /\ e.blocks = q /\ e.residual = r
        /\ e.ret = 0 /\ ~e.failed /\ e.data = <<>> /\ e.start = a
    OBVIOUS
  <1> HIDE DEF e
  <1>6. call'[t] = e /\ \A u \in Thread : u # t => call'[u] = call[u]
    BY <1>1 DEF TransferInv, DataTyped
  <1>7. DataTyped'
    BY <1>1, <1>4 DEF TransferInv, DataTyped
  <1>8. HoldsHandle'
    <2>1. Busy(t)' /\ \A u \in Thread : u # t => (Busy(u)' <=> Busy(u))
      BY <1>5, <1>6 DEF Busy
    <2> QED
      BY <2>1, <1>1, <1>5, <1>6 DEF TransferInv, HoldsHandle
  <1>9. OneHandle'
    BY <1>1 DEF TransferInv, OneHandle
  <1>10. Transfers'
    <2>1. SUFFICES ASSUME NEW u \in Thread, Busy(u)'
                   PROVE  OnTrack(call'[u], disk[handle[call'[u].h].file],
                                  off[handle[call'[u].h].fid], up)
      BY <1>1 DEF Transfers, FileOf, FdOf
    <2>2. CASE u # t
      <3>1. Busy(u) /\ call'[u] = call[u]
        BY <1>6, <2>1, <2>2 DEF Busy
      <3> QED
        BY <3>1 DEF TransferInv, Transfers, FileOf, FdOf
    <2>3. CASE u = t
      <3> DEFINE s == disk[handle[h].file]
      <3>1. Placed(e, s, a, up)
        BY <1>3, <1>5 DEF Placed
      <3>2. ReadSoFar(e, s) /\ WrittenSoFar(e, s)
        <4>1. Left(e) = e.len - e.ret
          BY <1>2, <1>5 DEF Left
        <4>2. Len(e.data) = e.ret
          BY <1>5
        <4> QED
          BY <4>1, <4>2, <1>5 DEF ReadSoFar, WrittenSoFar
      <3>3. OnTrack(e, s, a, up)
        BY <3>1, <3>2 DEF OnTrack
      <3> QED
        BY <3>3, <1>5, <1>6, <2>3 DEF a
    <2> QED
      BY <2>2, <2>3
  <1> QED
    BY <1>7, <1>8, <1>9, <1>10 DEF TransferInv

LEMMA TransferReturns ==
  ASSUME FsInv, TransferInv, NEW t \in Thread, Return(t)
  PROVE  TransferInv'
  <1>1. call' = [call EXCEPT ![t] = NoCall] /\ UNCHANGED <<disk, off, up, handle>>
    BY DEF Return, pcvars
  <1>2. NoCall \in Calls /\ NoCall.op = "idle"
    BY EmptySeq DEF NoCall, Calls
  <1>3. call'[t] = NoCall /\ \A u \in Thread : u # t => call'[u] = call[u]
    BY <1>1 DEF TransferInv, DataTyped
  <1>4. ~Busy(t)' /\ \A u \in Thread : u # t => (Busy(u)' <=> Busy(u))
    BY <1>2, <1>3 DEF Busy
  <1>5. DataTyped'
    BY <1>1, <1>2 DEF TransferInv, DataTyped
  <1>6. HoldsHandle'
    BY <1>1, <1>3, <1>4 DEF TransferInv, HoldsHandle
  <1>7. OneHandle'
    BY <1>1 DEF TransferInv, OneHandle
  <1>8. Transfers'
    <2>1. SUFFICES ASSUME NEW u \in Thread, Busy(u)'
                   PROVE  OnTrack(call'[u], disk[handle[call'[u].h].file],
                                  off[handle[call'[u].h].fid], up)
      BY <1>1 DEF Transfers, FileOf, FdOf
    <2>2. Busy(u) /\ call'[u] = call[u]
      BY <1>3, <1>4, <2>1
    <2> QED
      BY <2>2 DEF TransferInv, Transfers, FileOf, FdOf
  <1> QED
    BY <1>5, <1>6, <1>7, <1>8 DEF TransferInv

\* An exchange of a call: the answer arrives, or is lost and the call fails.
LEMMA TransferAnswer ==
  ASSUME FsInv, TransferInv, NEW t \in Thread, Busy(t), up, NEW c \in Calls,
         c.op = call[t].op, c.h = call[t].h, Answer(t, c), UNCHANGED handle,
         disk' \in [File -> Seq(Nat)], off' \in [Fd -> Nat],
         \A f \in File : f # FileOf(t) => disk'[f] = disk[f],
         \A d \in Fd : d # FdOf(t) => off'[d] = off[d],
         OnTrack(c, disk'[FileOf(t)], off'[FdOf(t)], TRUE)
  PROVE  TransferInv'
  <1>1. CASE call' = [call EXCEPT ![t] = c] /\ UNCHANGED up
    <2>1. OnTrack(c, disk'[FileOf(t)], off'[FdOf(t)], up')
      BY TrackStays
    <2> QED
      BY <1>1, <2>1, OneCall
  <1>2. CASE call' = [call EXCEPT ![t] = Stop([c EXCEPT !.ret = ERR])] /\ up' = FALSE
    <2> DEFINE e == Stop([c EXCEPT !.ret = ERR])
    <2>1. /\ e \in Calls /\ e.op = call[t].op /\ e.h = call[t].h
          /\ OnTrack(e, disk'[FileOf(t)], off'[FdOf(t)], up')
      BY Stopped
    <2>2. call' = [call EXCEPT ![t] = e] /\ (up' => up)
      BY <1>2
    <2> HIDE DEF e
    <2> QED
      BY <2>1, <2>2, OneCall
  <1> QED
    BY <1>1, <1>2 DEF Answer

LEMMA TransferRead ==
  ASSUME FsInv, TransferInv, NEW t \in Thread, ReadBlock(t)
  PROVE  TransferInv'
  <1> DEFINE c == call[t]
             d == FdOf(t)
             s == disk[FileOf(t)]
             o == off[d]
  <1>1. /\ up /\ c.op = "read" /\ ~Finished(c) /\ Busy(t)
        /\ UNCHANGED <<disk, os, handle>>
    BY DEF ReadBlock, Busy
  <1>2. /\ c \in Calls /\ c.h \in Handle /\ FileOf(t) \in File /\ d \in Fd
        /\ s \in Seq(Nat) /\ o \in Nat /\ os[d] = FileOf(t) /\ ServerHas(d)
    BY <1>1, BusyHas
  <1>3. OnTrack(c, s, o, TRUE)
    BY <1>1, TrackStays DEF TransferInv, Transfers
  <1>4. PICK r \in ReadResults(d, BlockLen(c)) :
          /\ off' = [off EXCEPT ![d] = off[d] + r.k]
          /\ Answer(t, AfterBlock([c EXCEPT !.data = c.data \o
               SubSeq(disk[os[d]], off[d] + 1, off[d] + r.res)], r.res))
    BY <1>2 DEF ReadBlock, FdOf
  <1> DEFINE e == AfterBlock([c EXCEPT !.data = c.data \o SubSeq(s, o + 1, o + r.res)], r.res)
  <1>5. Answer(t, e)
    BY <1>2, <1>4
  <1>6. /\ r.k \in Nat /\ r.res \in Int
        /\ \/ r.res = r.k /\ r.k = Min({BlockLen(c), Max({0, Len(s) - o})})
           \/ r.res = ERR
    <2> DEFINE l == Len(s) - o
               m == Max({0, l})
               n == BlockLen(c)
               k == Min({n, m})
    <2>1. l \in Int
      BY <1>2, LenProperties
    <2>2. m \in Nat
      BY <2>1, MaxOfTwo
    <2>3. n \in Nat
      BY <1>1, <1>2, BlockCounts
    <2> HIDE DEF m, n
    <2>4. k \in Nat
      BY <2>2, <2>3, MinOfTwo
    <2>5. r \in {[k |-> k, res |-> k]} \cup {[k |-> j, res |-> ERR] : j \in 0..k}
      BY <1>2 DEF ReadResults, m, n
    <2> HIDE DEF k
    <2> QED
      BY <2>4, <2>5 DEF ERR, k, m, n
  <1> HIDE DEF c, d, s, o
  <1>7. e \in Calls /\ e.op = "read" /\ e.h = c.h /\ OnTrack(e, s, o + r.k, TRUE)
    BY <1>1, <1>2, <1>3, <1>6, ReadGoes
  <1> HIDE DEF e
  <1>8. /\ off' \in [Fd -> Nat] /\ off'[d] = o + r.k
        /\ \A x \in Fd : x # d => off'[x] = off[x]
    BY <1>2, <1>4, <1>6 DEF TransferInv, DataTyped, o
  <1>9. disk' \in [File -> Seq(Nat)]
    BY <1>1 DEF TransferInv, DataTyped
  <1>10. OnTrack(e, disk'[FileOf(t)], off'[FdOf(t)], TRUE)
    BY <1>1, <1>7, <1>8 DEF s, d
  <1> QED
    BY <1>1, <1>5, <1>7, <1>8, <1>9, <1>10, TransferAnswer DEF c, d

LEMMA TransferWrite ==
  ASSUME FsInv, TransferInv, NEW t \in Thread, WriteBlock(t)
  PROVE  TransferInv'
  <1> DEFINE c == call[t]
             d == FdOf(t)
             f == FileOf(t)
             s == disk[f]
             o == off[d]
  <1>1. /\ up /\ c.op = "write" /\ ~Finished(c) /\ Busy(t)
        /\ UNCHANGED <<os, handle>>
    BY DEF WriteBlock, Busy
  <1>2. /\ c \in Calls /\ c.h \in Handle /\ f \in File /\ d \in Fd
        /\ s \in Seq(Nat) /\ o \in Nat /\ os[d] = f /\ ServerHas(d)
    BY <1>1, BusyHas
  <1>3. OnTrack(c, s, o, TRUE)
    BY <1>1, TrackStays DEF TransferInv, Transfers
  <1>4. /\ off[d] <= Len(disk[os[d]])
        /\ \E r \in WriteResults(BlockLen(c)) :
             /\ disk' = [disk EXCEPT ![os[d]] =
                  Overwrite(disk[os[d]], off[d], [i \in 1..r.k |-> c.ret + i])]
             /\ off' = [off EXCEPT ![d] = off[d] + r.k]
             /\ Answer(t, AfterBlock(c, r.res))
    BY <1>2 DEF WriteBlock, FdOf
  <1>5. PICK r \in WriteResults(BlockLen(c)) :
          /\ disk' = [disk EXCEPT ![f] =
               Overwrite(s, o, [i \in 1..r.k |-> c.ret + i])]
          /\ off' = [off EXCEPT ![d] = off[d] + r.k]
          /\ Answer(t, AfterBlock(c, r.res))
    BY <1>2, <1>4
  <1> DEFINE e == AfterBlock(c, r.res)
             z == Overwrite(s, o, [i \in 1..r.k |-> c.ret + i])
  <1>6. /\ r.k \in Nat /\ r.res \in Int
        /\ \/ r.res = r.k /\ r.k = BlockLen(c)
           \/ r.res = ERR
    <2> DEFINE n == BlockLen(c)
    <2>1. n \in Nat
      BY <1>1, <1>2, BlockCounts
    <2>2. r \in {[k |-> n, res |-> n]} \cup {[k |-> j, res |-> ERR] : j \in 0..(n - 1)}
      BY DEF WriteResults
    <2> HIDE DEF n
    <2> QED
      BY <2>1, <2>2 DEF ERR, n
  <1>7. o <= Len(s)
    BY <1>2, <1>4
  <1>8. Answer(t, e) /\ disk' = [disk EXCEPT ![f] = z]
    BY <1>5
  <1> HIDE DEF c, d, f, s, o
  <1>9. /\ e \in Calls /\ e.op = "write" /\ e.h = c.h /\ z \in Seq(Nat)
        /\ OnTrack(e, z, o + r.k, TRUE)
    BY <1>1, <1>2, <1>3, <1>6, <1>7, WriteGoes
  <1> HIDE DEF e, z
  <1>10. /\ off' \in [Fd -> Nat] /\ off'[d] = o + r.k
         /\ \A x \in Fd : x # d => off'[x] = off[x]
    BY <1>2, <1>5, <1>6 DEF TransferInv, DataTyped, o
  <1>11. /\ disk' \in [File -> Seq(Nat)] /\ disk'[f] = z
         /\ \A x \in File : x # f => disk'[x] = disk[x]
    BY <1>2, <1>8, <1>9 DEF TransferInv, DataTyped
  <1>12. OnTrack(e, disk'[FileOf(t)], off'[FdOf(t)], TRUE)
    BY <1>9, <1>10, <1>11 DEF f, d
  <1> QED
    BY <1>1, <1>8, <1>9, <1>10, <1>11, <1>12, TransferAnswer DEF c, d, f

LEMMA TransferFails ==
  ASSUME FsInv, TransferInv, NEW t \in Thread, BlockFails(t)
  PROVE  TransferInv'
  <1> DEFINE c == call[t]
             e == Stop([c EXCEPT !.ret = ERR])
  <1>1. /\ Busy(t) /\ UNCHANGED <<disk, off, handle>> /\ (up' => up)
        /\ call' = [call EXCEPT ![t] = e]
    BY DEF BlockFails, Busy, pcvars
  <1>2. c \in Calls
    BY DEF TransferInv, DataTyped
  <1>3. /\ e \in Calls /\ e.op = c.op /\ e.h = c.h
        /\ OnTrack(e, disk'[FileOf(t)], off'[FdOf(t)], up')
    BY <1>2, Stopped
  <1>4. disk' \in [File -> Seq(Nat)] /\ off' \in [Fd -> Nat]
    BY <1>1 DEF TransferInv, DataTyped
  <1> HIDE DEF e
  <1> QED
    BY <1>1, <1>3, <1>4, OneCall

\* A step that has nothing to do with files.
LEMMA TransferAlone ==
  ASSUME FsInv, TransferInv, UNCHANGED <<disk, off, handle, call>>, up' => up
  PROVE  TransferInv'
  <1>1. off' \in [Fd -> Nat] /\ OneHandle'
    BY DEF TransferInv, DataTyped, OneHandle
  <1> QED
    BY <1>1, CallsAlone

LEMMA TransferStep ==
  ASSUME FsInv, TransferInv, Fresh, [Next]_vars
  PROVE  TransferInv'
  <1>1. CASE LinkBreaks
    BY <1>1, TransferAlone DEF LinkBreaks, pcvars
  <1>2. CASE Reconnect
    BY <1>2, TransferReconnect
  <1>3. CASE \E h \in Handle, f \in File : io_open(h, f)
    BY <1>3, TransferOpen
  <1>4. CASE \E h \in Handle : io_close(h)
    BY <1>4, TransferClose
  <1>5. CASE \E h \in Handle, o \in 0..FileSize : io_lseek(h, o)
    BY <1>5, TransferSeek
  <1>6. CASE \E h \in Handle, t \in Thread, op \in {"read", "write"}, n \in 1..MaxLen :
               usb_data(t, h, op, n)
    BY <1>6, TransferStarts
  <1>7. CASE \E t \in Thread : ReadBlock(t)
    BY <1>7, TransferRead
  <1>8. CASE \E t \in Thread : WriteBlock(t)
    BY <1>8, TransferWrite
  <1>9. CASE \E t \in Thread : BlockFails(t)
    BY <1>9, TransferFails
  <1>10. CASE \E t \in Thread : Return(t)
    BY <1>10, TransferReturns
  <1>11. CASE \E h \in DirHandle : io_dopen(h) \/ io_dread(h) \/ io_dclose(h)
    <2>1. UNCHANGED <<disk, off, handle, call>> /\ (up' => up)
      BY <1>11 DEF io_dopen, io_dread, io_dclose
    <2> QED
      BY <2>1, TransferAlone
  <1>12. CASE UNCHANGED vars
    BY <1>12, TransferAlone DEF vars, pcvars
  <1> QED
    BY <1>1, <1>2, <1>3, <1>4, <1>5, <1>6, <1>7, <1>8, <1>9, <1>10, <1>11, <1>12 DEF Next

LEMMA TransferHolds ==
  ASSUME Fresh, {0, 1, 2} \subseteq Own
  PROVE  Spec => [](FsInv /\ TransferInv)
  <1>1. Init => FsInv /\ TransferInv
    BY InvInit, TransferInit
  <1>2. FsInv /\ TransferInv /\ [Next]_vars => FsInv' /\ TransferInv'
    BY InvStep, TransferStep
  <1> QED
    BY <1>1, <1>2, PTL DEF Spec

\* The bytes of a piece of a file, one by one.
LEMMA Piece ==
  ASSUME NEW s \in Seq(Nat), NEW a \in Nat, NEW n \in Nat, n > 0 => a + n <= Len(s),
         NEW b \in Seq(Nat), Len(b) = n, \A i \in 1..n : b[i] = s[a + i]
  PROVE  b = SubSeq(s, a + 1, a + n)
  <1> DEFINE z == SubSeq(s, a + 1, a + n)
  <1>1. \A i \in (a + 1)..(a + n) : s[i] \in Nat
    <2>1. \A i \in (a + 1)..(a + n) : i \in 1..Len(s)
      BY LenProperties
    <2> QED
      BY <2>1, ElementOfSeq
  <1>2. a + 1 \in Int /\ a + n \in Int
    OBVIOUS
  <1>3. /\ z \in Seq(Nat)
        /\ Len(z) = IF a + 1 <= a + n THEN (a + n) - (a + 1) + 1 ELSE 0
        /\ \A i \in 1..((a + n) - (a + 1) + 1) : z[i] = s[(a + 1) + i - 1]
    BY <1>1, <1>2, SubSeqProperties
  <1> HIDE DEF z
  <1>4. Len(z) = n
    BY <1>3
  <1>5. \A i \in 1..n : i \in 1..((a + n) - (a + 1) + 1) /\ (a + 1) + i - 1 = a + i
    OBVIOUS
  <1>6. \A i \in 1..n : z[i] = b[i]
    BY <1>3, <1>5
  <1>7. z = b
    BY <1>3, <1>4, <1>6, SeqEqual
  <1> QED
    BY <1>7 DEF z

\* If programs close their handles before the next session, a read that succeeds
\* returns the bytes that follow its offset, all that were asked for or all
\* there are, and leaves the offset behind them, whatever other threads do
\* between its blocks and wherever the connection breaks.
\* (usb_read_data, fixed_read, handle_read)
THEOREM ReadsExact ==
  ASSUME Fresh, {0, 1, 2} \subseteq Own
  PROVE  Spec => []ReadExact
  <1>1. ASSUME FsInv, TransferInv PROVE ReadExact
    <2>1. SUFFICES ASSUME NEW t \in Thread, Done(t, "read")
                   PROVE  LET c == call[t]
                              s == disk[FileOf(t)]
                              o == off[FdOf(t)]
                          IN  /\ Len(c.data) = c.ret
                              /\ c.data = SubSeq(s, c.start + 1, c.start + c.ret)
                              /\ up => o >= c.start + c.ret
                              /\ ~c.failed => /\ up => o = c.start + c.ret
                                              /\ c.ret < c.len => c.start + c.ret >= Len(s)
      BY DEF ReadExact, FileOf, FdOf
    <2> DEFINE c == call[t]
               s == disk[FileOf(t)]
               o == off[FdOf(t)]
    <2>2. Busy(t) /\ c.op = "read" /\ c.ret >= 0 /\ c.blocks = 0 /\ c.residual = 0
      BY <2>1 DEF Done, Busy, Finished
    <2>3. c \in Calls /\ s \in Seq(Nat) /\ o \in Nat
      BY <1>1, <2>2, BusyHas
    <2>4. OnTrack(c, s, o, up)
      BY <1>1, <2>2 DEF TransferInv, Transfers
    <2> HIDE DEF c, s, o
    <2>5. c.ret \in Nat /\ c.start \in Nat /\ c.len \in Nat /\ c.data \in Seq(Nat)
      BY <2>2, <2>3 DEF Calls
    <2>6. c.ret > 0 => c.start + c.ret <= Len(s)
      BY <2>4 DEF OnTrack, Placed
    <2>7. Len(c.data) = c.ret /\ \A i \in 1..c.ret : c.data[i] = s[c.start + i]
      BY <2>2, <2>4 DEF OnTrack, ReadSoFar
    <2>8. c.data = SubSeq(s, c.start + 1, c.start + c.ret)
      <3> DEFINE b == c.data
                 a == c.start
                 n == c.ret
      <3>1. b \in Seq(Nat) /\ a \in Nat /\ n \in Nat /\ (n > 0 => a + n <= Len(s))
        BY <2>5, <2>6
      <3>2. Len(b) = n /\ \A i \in 1..n : b[i] = s[a + i]
        BY <2>7
      <3> HIDE DEF a, b, n
      <3>3. b = SubSeq(s, a + 1, a + n)
        BY <2>3, <3>1, <3>2, Piece
      <3> QED
        BY <3>3 DEF a, b, n
    <2>9. up => o >= c.start + c.ret /\ (~c.failed => o = c.start + c.ret)
      BY <2>2, <2>4 DEF OnTrack, Placed
    <2>10. ~c.failed /\ c.ret < c.len => c.start + c.ret >= Len(s)
      <3>1. Left(c) = 0
        BY <2>2, HostFsAssumption DEF Left
      <3>2. ~c.failed => Left(c) = c.len - c.ret \/ c.start + c.ret >= Len(s)
        BY <2>2, <2>4 DEF OnTrack, ReadSoFar
      <3> QED
        BY <2>5, <3>1, <3>2
    <2> QED
      BY <2>7, <2>8, <2>9, <2>10 DEF c, s, o
  <1> QED
    BY <1>1, TransferHolds, PTL

\* Under the same condition a write that succeeds has put its bytes into the file,
\* in order, from its offset on, and leaves the offset behind them; one that ends
\* early at an error has put at least the bytes there that it counts.
\* (usb_write_data, fixed_write, handle_write)
THEOREM WritesExact ==
  ASSUME Fresh, {0, 1, 2} \subseteq Own
  PROVE  Spec => []WriteExact
  <1>1. ASSUME FsInv, TransferInv PROVE WriteExact
    <2>1. SUFFICES ASSUME NEW t \in Thread, Done(t, "write")
                   PROVE  LET c == call[t]
                              s == disk[FileOf(t)]
                              o == off[FdOf(t)]
                          IN  /\ SubSeq(s, c.start + 1, c.start + c.ret)
                                   = [i \in 1..c.ret |-> i]
                              /\ up => o >= c.start + c.ret
                              /\ ~c.failed => /\ up => o = c.start + c.ret
                                              /\ c.ret = c.len
      BY DEF WriteExact, FileOf, FdOf
    <2> DEFINE c == call[t]
               s == disk[FileOf(t)]
               o == off[FdOf(t)]
    <2>2. Busy(t) /\ c.op = "write" /\ c.ret >= 0 /\ c.blocks = 0 /\ c.residual = 0
      BY <2>1 DEF Done, Busy, Finished
    <2>3. c \in Calls /\ s \in Seq(Nat) /\ o \in Nat
      BY <1>1, <2>2, BusyHas
    <2>4. OnTrack(c, s, o, up)
      BY <1>1, <2>2 DEF TransferInv, Transfers
    <2> HIDE DEF c, s, o
    <2>5. c.ret \in Nat /\ c.start \in Nat /\ c.len \in Nat
      BY <2>2, <2>3 DEF Calls
    <2>6. c.ret > 0 => c.start + c.ret <= Len(s)
      BY <2>4 DEF OnTrack, Placed
    <2>7. \A i \in 1..c.ret : s[c.start + i] = i
      BY <2>2, <2>4 DEF OnTrack, WrittenSoFar
    <2>8. SubSeq(s, c.start + 1, c.start + c.ret) = [i \in 1..c.ret |-> i]
      <3> DEFINE a == c.start
                 n == c.ret
                 b == [i \in 1..n |-> i]
      <3>1. a \in Nat /\ n \in Nat /\ (n > 0 => a + n <= Len(s))
        BY <2>5, <2>6
      <3>2. \A i \in 1..n : s[a + i] = i
        BY <2>7
      <3> HIDE DEF a, n
      <3>3. b \in [1..n -> Nat] /\ \A i \in 1..n : b[i] = i
        BY <3>1
      <3> HIDE DEF b
      <3>4. b \in Seq(Nat) /\ Len(b) = n
        BY <3>1, <3>3, FunctionIsSeq
      <3>5. \A i \in 1..n : b[i] = s[a + i]
        BY <3>2, <3>3
      <3>6. b = SubSeq(s, a + 1, a + n)
        BY <2>3, <3>1, <3>4, <3>5, Piece
      <3> QED
        BY <3>6 DEF a, b, n
    <2>9. up => o >= c.start + c.ret /\ (~c.failed => o = c.start + c.ret)
      BY <2>2, <2>4 DEF OnTrack, Placed
    <2>10. ~c.failed => c.ret = c.len
      <3>1. Left(c) = 0
        BY <2>2, HostFsAssumption DEF Left
      <3>2. ~c.failed => Left(c) = c.len - c.ret
        BY <2>2, <2>4 DEF OnTrack, WrittenSoFar
      <3> QED
        BY <2>5, <3>1, <3>2
    <2> QED
      BY <2>8, <2>9, <2>10 DEF c, s, o
  <1> QED
    BY <1>1, TransferHolds, PTL
=============================================================================

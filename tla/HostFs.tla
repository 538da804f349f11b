------------------------------- MODULE HostFs -------------------------------
(***************************************************************************)
(* The host file system: usbhostfs/host_driver.c on the PSP turns file     *)
(* calls into commands, usbhostfs_pc/main.c runs them on the files of the  *)
(* PC.  A handle of the PSP keeps the PC's descriptor number in arg->arg;  *)
(* the PC keeps open_files, indexed by that number, and open_dirs.         *)
(*                                                                         *)
(* One exchange (command_xchg) is one step: the semaphore of the driver    *)
(* serialises exchanges and UsbLink shows that an answer belongs to its    *)
(* command.  A long read or write is a sequence of exchanges, between      *)
(* which other threads have theirs and the link may break.  When it does,  *)
(* an exchange fails before or after the PC has run the command, and the   *)
(* PC starts a new session with empty tables.  A handle says nothing about *)
(* the session it was opened in.                                           *)
(*                                                                         *)
(* Every error code is ERR; names and open modes are left out.             *)
(***************************************************************************)
EXTENDS Integers, Sequences, FiniteSetsExt

CONSTANTS MaxFiles,  \* MAX_FILES: size of open_files
          MaxDirs,   \* MAX_DIRS
          Fd,        \* descriptors of the PC's operating system, 0..n
          Own,       \* the ones the PC program holds itself: 0, 1, 2, sockets
          File,      \* files on the PC
          FileSize,  \* bound: bytes of each file at first
          MaxSize,   \* bound: bytes a file grows to
          NumEntries,\* entries of a directory
          MaxBlock,  \* HOSTFS_MAX_BLOCK
          MaxLen,    \* bound: bytes of a read or write call
          Thread,    \* threads of the PSP
          Handle,    \* file handles of the PSP
          DirHandle, \* directory handles of the PSP
          MaxSession,\* bound: sessions
          Fresh,     \* TRUE: programs close their handles when the connection
                     \* breaks, before the next session
          NULL

ERR == -1

ASSUME HostFsAssumption ==
  /\ MaxFiles \in Nat /\ MaxDirs \in Nat \ {0}
  /\ Fd \subseteq Nat /\ Own \subseteq Fd
  /\ FileSize \in Nat /\ MaxSize \in Nat /\ NumEntries \in Nat \ {0}
  /\ MaxBlock \in Nat \ {0} /\ MaxLen \in Nat \ {0}
  /\ MaxSession \in Nat
  /\ Fresh \in BOOLEAN
  /\ NULL \notin Fd \cup File

Did == 0..(MaxDirs - 1)

VARIABLES
  disk,      \* file -> its bytes
  os, off,   \* descriptor -> the file it is open on or NULL, its offset
  opened,    \* open_files[fd].opened
  open_dirs, \* did -> [opened, pos]
  up,        \* the PSP has a connection
  session,   \* how many sessions the PC has started
  handle,    \* handle -> arg->arg, and the file it was opened on
  dhandle,   \* directory handle -> arg->arg, and how many entries it gave
  call       \* thread -> the read or write it is in

pcvars == <<os, off, opened, open_dirs>>
vars == <<disk, os, off, opened, open_dirs, up, session, handle, dhandle, call>>

Closed  == [fid |-> NULL, file |-> NULL]
DClosed == [did |-> NULL, seen |-> 0]
NoCall  == [op |-> "idle", h |-> NULL, len |-> 0, blocks |-> 0, residual |-> 0,
            ret |-> 0, failed |-> FALSE, data |-> <<>>, start |-> 0]

\* The bytes of a file at first are told apart from those a call writes,
\* 1..MaxLen.
Init ==
  /\ disk = [f \in File |-> [i \in 1..FileSize |-> MaxLen + i]]
  /\ os = [d \in Fd |-> NULL]
  /\ off = [d \in Fd |-> 0]
  /\ opened = [d \in Fd |-> FALSE]
  /\ open_dirs = [d \in Did |-> [opened |-> FALSE, pos |-> 0]]
  /\ up = TRUE
  /\ session = 1
  /\ handle = [h \in Handle |-> Closed]
  /\ dhandle = [h \in DirHandle |-> DClosed]
  /\ call = [t \in Thread |-> NoCall]

InUse(h) == \E t \in Thread : call[t].h = h

-----------------------------------------------------------------------------
(* The session.                                                            *)

\* The PSP finds the connection gone.
LinkBreaks ==
  /\ up
  /\ up' = FALSE
  /\ UNCHANGED <<disk, pcvars, session, handle, dhandle, call>>

\* The descriptors close_hostfs closes, and the tables init_hostfs clears.
Closes == {d \in Fd : d >= 3 /\ d < MaxFiles /\ opened[d]}

Reconnect ==
  /\ ~up
  /\ session < MaxSession
  /\ Fresh => /\ \A h \in Handle : handle[h] = Closed
              /\ \A h \in DirHandle : dhandle[h] = DClosed
  /\ os' = [d \in Fd |-> IF d \in Closes THEN NULL ELSE os[d]]
  /\ off' = [d \in Fd |-> 0]
  /\ opened' = [d \in Fd |-> FALSE]
  /\ open_dirs' = [d \in Did |-> [opened |-> FALSE, pos |-> 0]]
  /\ up' = TRUE
  /\ session' = session + 1
  /\ UNCHANGED <<disk, handle, dhandle, call>>

-----------------------------------------------------------------------------
(* open and close.                                                         *)

\* open(): the lowest free descriptor; open_file gives one back that does not
\* fit into open_files.
FreeFd == {d \in Fd \ Own : os[d] = NULL}
FitsAlways(d) == TRUE                                \* mutant of Fits
Fits(d) == d < MaxFiles

OpenNoFlag(d, f) ==                                  \* mutant of open_file
  IF Fits(d)
    THEN /\ os' = [os EXCEPT ![d] = f]
         /\ off' = [off EXCEPT ![d] = 0]
         /\ UNCHANGED <<opened, open_dirs>>
    ELSE UNCHANGED pcvars

open_file(d, f) ==
  IF Fits(d)
    THEN /\ os' = [os EXCEPT ![d] = f]
         /\ off' = [off EXCEPT ![d] = 0]
         /\ opened' = [opened EXCEPT ![d] = TRUE]
         /\ UNCHANGED open_dirs
    ELSE UNCHANGED pcvars

io_open(h, f) ==
  /\ up
  /\ handle[h] = Closed
  /\ \A g \in Handle : handle[g].file # f
  /\ FreeFd # {}
  /\ LET d == Min(FreeFd)
     IN  /\ open_file(d, f)
         /\ \/ /\ handle' = IF Fits(d)
                 THEN [handle EXCEPT ![h] = [fid |-> d, file |-> f]]
                 ELSE handle
               /\ UNCHANGED up
            \/ up' = FALSE /\ UNCHANGED handle      \* the answer is lost
  /\ UNCHANGED <<disk, session, dhandle, call>>

\* handle_close of the PC.
handle_close(d) ==
  IF d > 2 /\ d < MaxFiles /\ opened[d]
    THEN /\ os' = [os EXCEPT ![d] = NULL]
         /\ off' = [off EXCEPT ![d] = 0]
         /\ opened' = [opened EXCEPT ![d] = FALSE]
         /\ UNCHANGED open_dirs
    ELSE UNCHANGED pcvars

\* The handle is gone whatever io_close returns.
io_close(h) ==
  /\ handle[h] # Closed
  /\ ~InUse(h)
  /\ handle' = [handle EXCEPT ![h] = Closed]
  /\ \/ up /\ handle_close(handle[h].fid) /\ up' \in BOOLEAN
     \/ ~up /\ UNCHANGED <<pcvars, up>>
  /\ UNCHANGED <<disk, session, dhandle, call>>

-----------------------------------------------------------------------------
(* Long reads and writes.                                                  *)

\* usb_read_data and usb_write_data up to their loops.
usb_data(t, h, op, len) ==
  /\ call[t].op = "idle"
  /\ handle[h] # Closed
  /\ ~InUse(h)
  /\ op = "write" => off[handle[h].fid] + len <= MaxSize
  /\ call' = [call EXCEPT ![t] =
       [op |-> op, h |-> h, len |-> len, blocks |-> len \div MaxBlock,
        residual |-> len % MaxBlock, ret |-> 0, failed |-> FALSE, data |-> <<>>,
        start |-> off[handle[h].fid]]]
  /\ UNCHANGED <<disk, pcvars, up, session, handle, dhandle>>

BlockLen(c)  == IF c.blocks > 0 THEN MaxBlock ELSE c.residual
Finished(c)  == c.blocks = 0 /\ c.residual = 0

AdvanceToEnd(c) ==                                   \* mutant of Advance
  IF c.blocks > 1 THEN [c EXCEPT !.blocks = @ - 1]
                  ELSE [c EXCEPT !.blocks = 0, !.residual = 0]

\* One block has been transferred.
Advance(c) == IF c.blocks > 0 THEN [c EXCEPT !.blocks = @ - 1]
                              ELSE [c EXCEPT !.residual = 0]
Stop(c) == [c EXCEPT !.blocks = 0, !.residual = 0]

\* What the loops make of resp.res; failed notes that the PC gave an error.
AfterBlockTotal(c, res) ==                           \* mutant of AfterBlock
  IF res > 0 THEN Advance([c EXCEPT !.ret = @ + BlockLen(c)])
  ELSE Stop([c EXCEPT !.ret = IF res < 0 /\ @ = 0 THEN res ELSE @,
                      !.failed = res < 0])

AfterBlock(c, res) ==
  IF res > 0 THEN Advance([c EXCEPT !.ret = @ + res])
  ELSE Stop([c EXCEPT !.ret = IF res < 0 /\ @ = 0 THEN res ELSE @,
                      !.failed = res < 0])

ServerHas(d) == d < MaxFiles /\ opened[d]

\* fixed_read of n bytes gets k: all there are, or fewer when the disk fails;
\* then it answers with the error alone.
ReadResults(d, n) ==
  LET k == Min({n, Max({0, Len(disk[os[d]]) - off[d]})})
  IN  {[k |-> k, res |-> k]} \cup {[k |-> j, res |-> ERR] : j \in 0..k}

\* The answer arrives, or is lost and the connection with it.
Answer(t, c) ==
  \/ call' = [call EXCEPT ![t] = c] /\ UNCHANGED up
  \/ call' = [call EXCEPT ![t] = Stop([c EXCEPT !.ret = ERR])] /\ up' = FALSE

\* handle_read, and the answer taken by usb_read_data.
ReadBlock(t) ==
  LET c == call[t]
      d == handle[c.h].fid
  IN  /\ up
      /\ c.op = "read" /\ ~Finished(c)
      /\ \/ /\ ServerHas(d)
            /\ \E r \in ReadResults(d, BlockLen(c)) :
                 /\ off' = [off EXCEPT ![d] = @ + r.k]
                 /\ Answer(t, AfterBlock([c EXCEPT !.data = @ \o
                      SubSeq(disk[os[d]], off[d] + 1, off[d] + r.res)], r.res))
         \/ ~ServerHas(d) /\ Answer(t, AfterBlock(c, ERR)) /\ UNCHANGED off
      /\ UNCHANGED <<disk, os, opened, open_dirs, session, handle, dhandle>>

\* fixed_write of n bytes writes k, and answers with the error alone if that is
\* not all.
WriteResults(n) ==
  {[k |-> n, res |-> n]} \cup {[k |-> j, res |-> ERR] : j \in 0..(n - 1)}

\* The file with bytes b at offset o; it may grow.
Overwrite(s, o, b) ==
  [i \in 1..Max({Len(s), o + Len(b)}) |->
     IF i > o /\ i <= o + Len(b) THEN b[i - o] ELSE s[i]]

\* handle_write, and the answer taken by usb_write_data.  Byte i of the buffer
\* is i, and the buffer pointer stands ret bytes into it.
WriteBlock(t) ==
  LET c == call[t]
      d == handle[c.h].fid
  IN  /\ up
      /\ c.op = "write" /\ ~Finished(c)
      /\ \/ /\ ServerHas(d)
            /\ off[d] <= Len(disk[os[d]])
            /\ \E r \in WriteResults(BlockLen(c)) :
                 /\ disk' = [disk EXCEPT ![os[d]] =
                      Overwrite(@, off[d], [i \in 1..r.k |-> c.ret + i])]
                 /\ off' = [off EXCEPT ![d] = @ + r.k]
                 /\ Answer(t, AfterBlock(c, r.res))
         \/ ~ServerHas(d) /\ Answer(t, AfterBlock(c, ERR)) /\ UNCHANGED <<disk, off>>
      /\ UNCHANGED <<os, opened, open_dirs, session, handle, dhandle>>

\* usb_connected is false, or command_xchg fails before the PC has the command.
BlockFails(t) ==
  LET c == call[t]
  IN  /\ c.op \in {"read", "write"} /\ ~Finished(c)
      /\ up' = FALSE
      /\ call' = [call EXCEPT ![t] = Stop([c EXCEPT !.ret = ERR])]
      /\ UNCHANGED <<disk, pcvars, session, handle, dhandle>>

\* io_read or io_write returns.
Return(t) ==
  /\ call[t].op # "idle"
  /\ Finished(call[t])
  /\ call' = [call EXCEPT ![t] = NoCall]
  /\ UNCHANGED <<disk, pcvars, up, session, handle, dhandle>>

\* lseek to any place in the file; whence is left out, and so is a place past
\* the end of the file.
io_lseek(h, o) ==
  LET d == handle[h].fid
  IN  /\ up
      /\ handle[h] # Closed
      /\ ~InUse(h)
      /\ d > 2 /\ ServerHas(d)
      /\ o <= Len(disk[os[d]])
      /\ off' = [off EXCEPT ![d] = o]
      /\ UNCHANGED <<disk, os, opened, open_dirs, up, session, handle, dhandle, call>>

-----------------------------------------------------------------------------
(* Directories.                                                            *)

FreeDid == {d \in Did : ~open_dirs[d].opened}

io_dopen(h) ==
  /\ up
  /\ dhandle[h] = DClosed
  /\ FreeDid # {}
  /\ LET d == Min(FreeDid)
     IN  /\ open_dirs' = [open_dirs EXCEPT ![d] = [opened |-> TRUE, pos |-> 0]]
         /\ \/ /\ dhandle' = [dhandle EXCEPT ![h] =
                    [did |-> d, seen |-> 0]]
               /\ UNCHANGED up
            \/ up' = FALSE /\ UNCHANGED dhandle
  /\ UNCHANGED <<disk, os, off, opened, session, handle, call>>

io_dread(h) ==
  LET d == dhandle[h].did
  IN  /\ up
      /\ dhandle[h] # DClosed
      /\ open_dirs[d].opened
      /\ open_dirs[d].pos < NumEntries
      /\ open_dirs' = [open_dirs EXCEPT ![d].pos = @ + 1]
      /\ dhandle' = [dhandle EXCEPT ![h].seen = @ + 1]
      /\ UNCHANGED <<disk, os, off, opened, up, session, handle, call>>

io_dclose(h) ==
  LET d == dhandle[h].did
  IN  /\ dhandle[h] # DClosed
      /\ dhandle' = [dhandle EXCEPT ![h] = DClosed]
      /\ \/ /\ up
            /\ open_dirs' = [open_dirs EXCEPT ![d] = [opened |-> FALSE, pos |-> 0]]
            /\ up' \in BOOLEAN
         \/ ~up /\ UNCHANGED <<open_dirs, up>>
      /\ UNCHANGED <<disk, os, off, opened, session, handle, call>>

-----------------------------------------------------------------------------
Next ==
  \/ LinkBreaks \/ Reconnect
  \/ \E h \in Handle :
       \/ \E f \in File : io_open(h, f)
       \/ io_close(h)
       \/ \E o \in 0..FileSize : io_lseek(h, o)
       \/ \E t \in Thread, op \in {"read", "write"}, n \in 1..MaxLen : usb_data(t, h, op, n)
  \/ \E t \in Thread : ReadBlock(t) \/ WriteBlock(t) \/ BlockFails(t) \/ Return(t)
  \/ \E h \in DirHandle : io_dopen(h) \/ io_dread(h) \/ io_dclose(h)

Spec == Init /\ [][Next]_vars

-----------------------------------------------------------------------------
\* open_files is exactly what the operating system has open for the file
\* system: a lost answer or a new session leaves no descriptor behind, and no
\* flag without one.  (open_file, handle_close, close_hostfs, init_hostfs)
FilesTracked == \A d \in Fd : opened[d] <=> os[d] # NULL

\* While there is a connection, the number in a handle is an open descriptor on
\* the file the handle was opened on, and no two handles share one.
\* (io_open, io_close, open_file, handle_close)
HandleMeansFile ==
  up => \A h \in Handle : handle[h] # Closed =>
    /\ ServerHas(handle[h].fid)
    /\ os[handle[h].fid] = handle[h].file
    /\ \A g \in Handle \ {h} : handle[g].fid # handle[h].fid

\* A directory handle gets every entry once: the position the PC keeps is the
\* number of entries this handle was given.  (io_dopen, io_dread, handle_dread)
DirInStep ==
  up => \A h \in DirHandle : dhandle[h] # DClosed =>
    /\ open_dirs[dhandle[h].did].opened
    /\ open_dirs[dhandle[h].did].pos = dhandle[h].seen

\* Both tables of the PC agree with what they stand for.
TablesAgree == FilesTracked /\ DirInStep

Done(t, op) == call[t].op = op /\ Finished(call[t]) /\ call[t].ret >= 0

\* A read that succeeds returns the next bytes of the file, all that were asked
\* for or all there are, and moves the offset past them, however many blocks it
\* took and whatever other threads did between them.  One that ends early at an
\* error returns the bytes of the blocks before.  (usb_read_data, fixed_read)
ReadExact ==
  \A t \in Thread : Done(t, "read") =>
    LET c == call[t]
        f == handle[c.h].file
    IN  /\ Len(c.data) = c.ret
        /\ c.data = SubSeq(disk[f], c.start + 1, c.start + c.ret)
        /\ up => off[handle[c.h].fid] >= c.start + c.ret
        /\ ~c.failed => /\ up => off[handle[c.h].fid] = c.start + c.ret
                        /\ c.ret < c.len => c.start + c.ret >= Len(disk[f])

\* A write that succeeds has written all of its bytes, in order, and left the
\* offset behind them.  One that ends early at an error has written at least the
\* bytes it counts: those of the failing block are not in the count.
\* (usb_write_data, fixed_write)
WriteExact ==
  \A t \in Thread : Done(t, "write") =>
    LET c == call[t]
        f == handle[c.h].file
    IN  /\ SubSeq(disk[f], c.start + 1, c.start + c.ret) = [i \in 1..c.ret |-> i]
        /\ up => off[handle[c.h].fid] >= c.start + c.ret
        /\ ~c.failed => /\ up => off[handle[c.h].fid] = c.start + c.ret
                        /\ c.ret = c.len
=============================================================================

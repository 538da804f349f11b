----------------------------- MODULE PcSockets -----------------------------
(* The sockets of usbhostfs_pc.  One thread, async_thread, accepts clients on
   the channels (a new client takes the place of the old one) and passes what
   they send to the PSP; the main thread passes what the PSP sends to them and
   opens and closes the device.  The two share g_clientsocks and g_hDev
   without a lock, and all descriptors of the process: one that is closed is
   the next to be used again.  In daemon mode the shell's client is also the
   standard output of the process.                                          *)
EXTENDS Integers, FiniteSets, FiniteSetsExt

CONSTANTS
  Chan,      \* 0..MAX_ASYNC_CHANNELS-1
  SHELL,     \* ASYNC_SHELL
  Client,    \* programs that connect, 1..n in the order in which they do
  Fd,        \* descriptors left to the process
  Daemon,    \* g_daemon
  Talks,     \* every client sends something as soon as it connects
  MaxMsg,    \* bound: messages of the clients after their first
  NULL

VARIABLES
  os,          \* descriptor -> the client it belongs to, FileName, or NULL
  cl,          \* client -> [st, chan, out]
  g_clientsocks,
  read_save, read_set,
  at,          \* where async_thread is: [step, todo, data]
  g_hDev,      \* there is a device
  main,        \* where the main thread is: [step, fd]
  stdout,      \* daemon mode: the client that is the standard output, or NULL
  mixed,       \* history: a message went to the PSP on a channel that is not its sender's
  sent,        \* how many messages the clients have sent after their first
  dead         \* the process has been killed by SIGPIPE or has exited

vars == <<os, cl, g_clientsocks, read_save, read_set, at, g_hDev, main, stdout, mixed, sent, dead>>
kernel == <<os, cl>>
async == <<g_clientsocks, read_save, read_set, at, stdout>>
usb == <<g_hDev, main, mixed, sent>>

None == -1
Gone == [st |-> "gone", chan |-> 0, out |-> 0]
Free == {f \in Fd : os[f] = NULL}
FileName == 0

-----------------------------------------------------------------------------
(* Clients.                                                                *)

Connect(c) ==
  /\ cl[c].st = "new" /\ \A b \in Client : b < c => cl[b].st # "new"
  /\ \E i \in Chan :
       cl' = [cl EXCEPT ![c].st = "waiting", ![c].chan = i,
                        ![c].out = IF Talks THEN 1 ELSE 0]
  /\ UNCHANGED <<os, async, usb, dead>>

Send(c) ==
  /\ cl[c].st \in {"waiting", "open"}
  /\ sent < MaxMsg
  /\ sent' = sent + 1
  /\ cl' = [cl EXCEPT ![c].out = @ + 1]
  /\ UNCHANGED <<os, async, g_hDev, main, mixed, dead>>

\* A client that is accepted may leave; what it sent can still be read.
Leave(c) ==
  /\ cl[c].st = "open"
  /\ cl' = [cl EXCEPT ![c].st = "left"]
  /\ UNCHANGED <<os, async, usb, dead>>

-----------------------------------------------------------------------------
(* async_thread.                                                           *)

\* Something can be read from a descriptor: data, or the end.
Readable(f) ==
  os[f] \in Client /\ (cl[os[f]].out > 0 \/ cl[os[f]].st # "open")

Waiting(i) == {c \in Client : cl[c].st = "waiting" /\ cl[c].chan = i}
Pending == {i \in Chan : Waiting(i) # {}}

\* Where the thread goes with the channels in todo left in a loop: the loop over
\* the listening sockets, then the one over the clients, then select again.
At(step, todo) == [step |-> IF todo = {} THEN "select" ELSE step, todo |-> todo, data |-> NULL]
ToRead(set, socks) == At("read", {i \in Chan : socks[i] \in set})
ToAccept(todo, set, socks) == IF todo = {} THEN ToRead(set, socks) ELSE At("accept", todo)

I == Min(at.todo)

\* close() of a client's descriptor.
Close(f) ==
  /\ os' = [os EXCEPT ![f] = NULL]
  /\ cl' = [cl EXCEPT ![os[f]] = Gone]

Select ==
  /\ at.step = "select"
  /\ read_set' = {f \in read_save : Readable(f)}
  /\ read_set' # {} \/ Pending # {}
  /\ at' = ToAccept(Pending, read_set', g_clientsocks)
  /\ UNCHANGED <<kernel, g_clientsocks, read_save, stdout, usb, dead>>

\* Mutant of Replace: the descriptor of the old client stays in the set watched.
ReplaceWatched ==
  /\ at.step = "accept"
  /\ LET old == g_clientsocks[I]
     IN  IF old = None THEN UNCHANGED kernel ELSE Close(old)
  /\ at' = [at EXCEPT !.step = "accepting"]
  /\ UNCHANGED <<g_clientsocks, read_save, read_set, stdout, usb, dead>>

\* The old client of a channel is closed; others may get its descriptor.
Replace ==
  /\ at.step = "accept"
  /\ LET old == g_clientsocks[I]
     IN  IF old = None THEN UNCHANGED <<kernel, read_save>>
         ELSE Close(old) /\ read_save' = read_save \ {old}
  /\ at' = [at EXCEPT !.step = "accepting"]
  /\ UNCHANGED <<g_clientsocks, read_set, stdout, usb, dead>>

WatchNot(f) == read_save                              \* mutant of Watch
\* FD_SET of a new client.
Watch(f) == read_save \cup {f}

\* accept(): the lowest free descriptor.  The process does not run out of them.
Accept ==
  /\ at.step = "accepting"
  /\ Free # {}
  /\ \E c \in Waiting(I) :
       /\ os' = [os EXCEPT ![Min(Free)] = c]
       /\ g_clientsocks' = [g_clientsocks EXCEPT ![I] = Min(Free)]
       /\ read_save' = Watch(Min(Free))
       /\ cl' = [cl EXCEPT ![c].st = "open"]
       /\ stdout' = IF Daemon /\ I = SHELL THEN c ELSE stdout
  /\ at' = ToAccept(at.todo \ {I}, read_set, g_clientsocks')
  /\ read_set' = IF at'.step = "select" THEN {} ELSE read_set
  /\ UNCHANGED <<usb, dead>>

\* The loop over the clients goes on; read_set has done its service at its end.
NextRead ==
  /\ at' = At("read", at.todo \ {I})
  /\ read_set' = IF at'.step = "select" THEN {} ELSE read_set

\* read() of a descriptor that select reported, which is not yet to say that the
\* client that has it now has sent something: if not, the thread blocks.
Sock == g_clientsocks[I]

ReadData ==
  /\ at.step = "read"
  /\ Readable(Sock) /\ cl[os[Sock]].out > 0
  /\ cl' = [cl EXCEPT ![os[Sock]].out = @ - 1]
  /\ \/ at' = [at EXCEPT !.step = "send", !.data = os[Sock]] /\ UNCHANGED read_set
     \/ \* "@...": a command for the console of the daemon
        /\ Daemon /\ I = SHELL
        /\ NextRead
  /\ UNCHANGED <<os, g_clientsocks, read_save, stdout, usb, dead>>

Kept == g_clientsocks                                 \* mutant of Forgotten
\* g_clientsocks after the client has gone.
Forgotten == [g_clientsocks EXCEPT ![I] = None]

\* The output of the daemon after the shell's client has gone.
Eof == IF Daemon /\ I = SHELL THEN NULL ELSE stdout

ReadEof ==
  /\ at.step = "read"
  /\ Readable(Sock) /\ cl[os[Sock]].out = 0
  /\ read_save' = read_save \ {Sock}
  /\ Close(Sock)
  /\ g_clientsocks' = Forgotten
  /\ stdout' = Eof
  /\ NextRead
  /\ UNCHANGED <<usb, dead>>

\* The packet goes out with the number of the channel if there is a device; a
\* device that closes meanwhile makes the transfer fail.
PassOn ==
  /\ at.step = "send"
  /\ mixed' = (mixed \/ (g_hDev /\ I # cl[at.data].chan))
  /\ NextRead
  /\ UNCHANGED <<kernel, g_clientsocks, read_save, stdout, g_hDev, main, sent, dead>>

-----------------------------------------------------------------------------
(* The main thread.                                                        *)

OpenDevice ==
  /\ main.step = "wait"
  /\ g_hDev' = TRUE
  /\ main' = [main EXCEPT !.step = "loop"]
  /\ UNCHANGED <<kernel, async, mixed, sent, dead>>

\* close_device, close_hostfs with the files of the session, and again.
CloseDevice ==
  /\ main.step = "loop"
  /\ g_hDev' = FALSE
  /\ os' = [f \in Fd |-> IF os[f] = FileName THEN NULL ELSE os[f]]
  /\ main' = [main EXCEPT !.step = "wait"]
  /\ UNCHANGED <<cl, async, mixed, sent, dead>>

\* A file is opened for the PSP, or closed.
UseFile ==
  /\ main.step = "loop"
  /\ \/ \E f \in Fd : os[f] = FileName /\ os' = [os EXCEPT ![f] = NULL]
     \/ /\ Cardinality({f \in Fd : os[f] = FileName}) + Cardinality(Chan) < Cardinality(Fd)
        /\ Free # {}
        /\ os' = [os EXCEPT ![Min(Free)] = FileName]
  /\ UNCHANGED <<cl, async, usb, dead>>

\* do_async and do_bulk: a packet of the PSP for a channel with a client.
PspSends ==
  /\ main.step = "loop"
  /\ \E i \in Chan :
       main' = IF g_clientsocks[i] # None
               THEN [main EXCEPT !.step = "write", !.fd = g_clientsocks[i]] ELSE main
  /\ UNCHANGED <<kernel, async, g_hDev, mixed, sent, dead>>

\* The write comes later; the descriptor may be another client's by then, or
\* nobody's.
WriteClient ==
  /\ main.step = "write"
  /\ main' = [main EXCEPT !.step = "loop", !.fd = None]
  /\ UNCHANGED <<kernel, async, g_hDev, mixed, sent, dead>>

\* The connection of a client that has left may be reset: then a write raises
\* SIGPIPE, which nobody catches.
Die ==
  /\ main.step = "write" /\ os[main.fd] \in Client /\ cl[os[main.fd]].st = "left"
  /\ dead' = TRUE
  /\ UNCHANGED <<kernel, async, usb>>

-----------------------------------------------------------------------------
Init ==
  /\ os = [f \in Fd |-> NULL]
  /\ cl = [c \in Client |-> [st |-> "new", chan |-> 0, out |-> 0]]
  /\ g_clientsocks = [i \in Chan |-> None]
  /\ read_save = {}
  /\ read_set = {}
  /\ at = At("select", {})
  /\ g_hDev = FALSE
  /\ main = [step |-> "wait", fd |-> None]
  /\ stdout = NULL
  /\ mixed = FALSE
  /\ sent = 0
  /\ dead = FALSE

AsyncStep == ~dead /\ (Select \/ Replace \/ Accept \/ ReadData \/ ReadEof \/ PassOn)
MainStep == ~dead /\ (OpenDevice \/ CloseDevice \/ UseFile \/ PspSends \/ WriteClient \/ Die)
ClientStep == ~dead /\ \E c \in Client : Connect(c) \/ Send(c) \/ Leave(c)
Next == AsyncStep \/ MainStep \/ ClientStep

Fairness == WF_vars(AsyncStep)
FairSpec == Init /\ [][Next]_vars /\ Fairness

-----------------------------------------------------------------------------
\* Each time it waits, async_thread watches exactly the descriptors of the
\* clients it has, each of them open and on its own channel: nothing is forgotten,
\* and nothing closed or used again for a file is watched.  In daemon mode the
\* output of the console goes to the client that has the shell's channel, and to
\* none that has left it (async_thread, lines 3010, 3036 and 3095).
WatchesClients ==
  /\ at.step = "select" =>
       read_save = {g_clientsocks[i] : i \in Chan} \ {None}
  /\ \A i \in Chan :
       g_clientsocks[i] # None /\ ~(at.step = "accepting" /\ I = i) =>
         os[g_clientsocks[i]] \in Client /\ cl[os[g_clientsocks[i]]].chan = i
  /\ Daemon /\ at.step = "select" =>
       stdout = IF g_clientsocks[SHELL] = None THEN NULL ELSE os[g_clientsocks[SHELL]]

\* What goes to the PSP on a channel is from a client of that channel, though
\* descriptors and channels change hands (async_thread, line 3088).
FromOwnChannel == ~mixed

\* Clients that connect are accepted and what they send is read, whatever the
\* others do and whatever the main thread waits for.
Wants(c) == cl[c].st = "waiting" \/ (cl[c].st = "open" /\ cl[c].out > 0)
ClientsServed ==
  (\E c \in Client : Wants(c)) ~> (\A c \in Client : ~Wants(c)) \/ dead
============================================================================

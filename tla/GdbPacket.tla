------------------------------ MODULE GdbPacket ------------------------------
(* The packets between GDB and the server usbgdb.  Each side acknowledges what it
   takes; what came damaged is refused and sent again.  A break key pressed while
   the program runs makes it trap, if it does not trap for another reason first.
   GDB, which is not in this repository, sends a command at a time, and passes over
   packets that come while it waits for an acknowledge.                       *)
EXTENDS Naturals, Sequences

CONSTANTS
  MaxCmd,     \* bound: commands of GDB
  MaxBreak,   \* bound: break keys
  MaxDamage   \* bound: packets damaged

VARIABLES
  in, out,    \* characters and packets to the server and to GDB
  stub,       \* [pc, n, copies, then]: the server's thread
  gdb,        \* [st, n, cmd, took]: GDB; n counts its commands
  ran,        \* history: the commands that the server has run
  damage, keys

pktvars == <<in, out, stub, gdb, ran, damage, keys>>

-----------------------------------------------------------------------------
Packet(n, cmd) == [n |-> n, cmd |-> cmd, ok |-> TRUE]
Char(c) == [n |-> 0, cmd |-> c, ok |-> TRUE]
IsPacket(x) == x.n > 0
Copies(n, count) == [i \in 1..count |-> Packet(n, "answer")]

-----------------------------------------------------------------------------
(* The server.                                                              *)

\* The first time through putpacket's loop.
Put(n, then) ==
  /\ stub' = [pc |-> "ack", n |-> n, copies |-> 1, then |-> then]
  /\ out' = out \o <<Char("+")>> \o Copies(n, 1)

\* Mutant of Acknowledged: what comes is not looked at.
AnyChar(ch) == TRUE

Acknowledged(ch) == ch.cmd = "+"

\* Anything else is a refusal; each further copy is put behind the last ones.
putpacket ==
  /\ stub.pc = "ack" /\ in # <<>>
  /\ in' = Tail(in)
  /\ IF Acknowledged(Head(in)) THEN stub' = [stub EXCEPT !.pc = stub.then] /\ UNCHANGED out
     ELSE /\ stub' = [stub EXCEPT !.copies = @ + 1]
          /\ out' = out \o Copies(stub.n, stub.copies + 1)
  /\ UNCHANGED <<gdb, ran, damage, keys>>

\* What is no packet is passed over, a damaged packet is refused.
Skip ==
  /\ stub.pc = "get" /\ in # <<>> /\ ~IsPacket(Head(in))
  /\ in' = Tail(in)
  /\ UNCHANGED <<out, stub, gdb, ran, damage, keys>>

Refuse ==
  /\ stub.pc = "get" /\ in # <<>> /\ IsPacket(Head(in)) /\ ~Head(in).ok
  /\ in' = Tail(in) /\ out' = Append(out, Char("-"))
  /\ UNCHANGED <<stub, gdb, ran, damage, keys>>

\* A good packet, and what GdbHandleException does with it.  A command to continue
\* or step has no answer but the next exception; a reset that fails has one.
Obey ==
  /\ stub.pc = "get" /\ in # <<>> /\ IsPacket(Head(in)) /\ Head(in).ok
  /\ in' = Tail(in) /\ ran' = Append(ran, Head(in).n)
  /\ LET n == Head(in).n
     IN  CASE Head(in).cmd = "query" -> Put(n, "get")
           [] Head(in).cmd = "detach" -> Put(n, "end")
           [] Head(in).cmd = "run" ->
                stub' = [stub EXCEPT !.pc = "poll", !.n = n] /\ out' = Append(out, Char("+"))
           [] Head(in).cmd = "reset" ->
                \/ stub' = [stub EXCEPT !.pc = "end"] /\ out' = Append(out, Char("+"))
                \/ Put(n, "get")
  /\ UNCHANGED <<gdb, damage, keys>>

\* The program traps, by a break or not: peekDebugChar leaves the key where it is.
\* The exception answers the command that let it run.
Exception ==
  /\ stub.pc = "poll"
  /\ stub' = [stub EXCEPT !.pc = "ack", !.copies = 1, !.then = "get"]
  /\ out' = out \o Copies(stub.n, 1)
  /\ UNCHANGED <<in, gdb, ran, damage, keys>>

-----------------------------------------------------------------------------
(* GDB.                                                                     *)

GdbSend ==
  /\ gdb.st = "idle" /\ gdb.n < MaxCmd
  /\ \E cmd \in {"query", "run", "detach", "reset"} :
       /\ gdb' = [gdb EXCEPT !.st = "sent", !.n = @ + 1, !.cmd = cmd]
       /\ in' = Append(in, Packet(gdb.n + 1, cmd))
  /\ UNCHANGED <<out, stub, ran, damage, keys>>

\* Waiting for the acknowledge.
GdbAck ==
  /\ gdb.st = "sent" /\ out # <<>> /\ out' = Tail(out)
  /\ IF IsPacket(Head(out)) THEN in' = Append(in, Char("+")) /\ UNCHANGED gdb
     ELSE IF Head(out).cmd = "-" THEN in' = Append(in, Packet(gdb.n, gdb.cmd)) /\ UNCHANGED gdb
     ELSE gdb' = [gdb EXCEPT !.st = "answer"] /\ UNCHANGED in
  /\ UNCHANGED <<stub, ran, damage, keys>>

\* Waiting for the answer.
GdbAnswer ==
  /\ gdb.st = "answer" /\ out # <<>> /\ out' = Tail(out)
  /\ IF ~IsPacket(Head(out)) THEN UNCHANGED <<in, gdb>>
     ELSE IF ~Head(out).ok THEN in' = Append(in, Char("-")) /\ UNCHANGED gdb
     ELSE /\ in' = Append(in, Char("+"))
          /\ gdb' = [gdb EXCEPT !.st = IF gdb.cmd = "detach" THEN "over" ELSE "idle", !.took = Head(out).n]
  /\ UNCHANGED <<stub, ran, damage, keys>>

GdbBreak ==
  /\ gdb.st = "answer" /\ gdb.cmd = "run" /\ keys < MaxBreak
  /\ in' = Append(in, Char("break")) /\ keys' = keys + 1
  /\ UNCHANGED <<out, stub, gdb, ran, damage>>

Damaged(s, i) == [s EXCEPT ![i].ok = FALSE]

Damage ==
  /\ damage < MaxDamage /\ damage' = damage + 1
  /\ \/ \E i \in {j \in DOMAIN in : IsPacket(in[j])} : in' = Damaged(in, i) /\ UNCHANGED out
     \/ \E i \in {j \in DOMAIN out : IsPacket(out[j])} : out' = Damaged(out, i) /\ UNCHANGED in
  /\ UNCHANGED <<stub, gdb, ran, keys>>

-----------------------------------------------------------------------------
\* The server's first call is made before the program has started.
PacketsInit ==
  /\ in = <<>> /\ out = <<>>
  /\ stub = [pc |-> "get", n |-> 0, copies |-> 0, then |-> "get"]
  /\ gdb = [st |-> "idle", n |-> 0, cmd |-> "none", took |-> 0]
  /\ ran = <<>> /\ damage = 0 /\ keys = 0

PacketsNext ==
  \/ putpacket \/ Skip \/ Refuse \/ Obey \/ Exception
  \/ GdbSend \/ GdbAck \/ GdbAnswer \/ GdbBreak \/ Damage

PacketsSpec == PacketsInit /\ [][PacketsNext]_pktvars

-----------------------------------------------------------------------------
Quiet == in = <<>> /\ out = <<>>
\* The server waits for characters, or has gone.
Waits == stub.pc \in {"get", "ack"}

\* Each command of GDB is run once and in order, and what GDB takes for its answer
\* is its answer, though packets are damaged, the break key comes in place of an
\* acknowledge and copies of an answer pile up (putpacket, line 79; getpacket, line
\* 163).  GDB and the server never wait for each other if nothing is damaged, or one
\* packet and no break key was pressed.  Else they may: every refusal brings more
\* copies, each copy one more acknowledge, and one that is left over is taken for
\* that of a later answer, which is not sent again if it is damaged.
EachAnswered ==
  /\ ran = [i \in 1..Len(ran) |-> i]
  /\ gdb.st = "idle" => gdb.took = gdb.n /\ Len(ran) = gdb.n
  /\ damage = 0 \/ (damage = 1 /\ keys = 0) => ~(Quiet /\ Waits /\ gdb.st \in {"sent", "answer"})
=============================================================================

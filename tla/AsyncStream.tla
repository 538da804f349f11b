---------------------------- MODULE AsyncStream ----------------------------
(***************************************************************************)
(* What the asynchronous channels of the USB driver promise their clients  *)
(* (usbhostfs/usbasync.h): each open channel is a bounded FIFO of bytes    *)
(* coming from the PC.  A packet that does not fit is cut, never           *)
(* reordered; a read takes the oldest bytes, once.  AsyncChan implements   *)
(* this module with shared ring buffers, an event flag and blocked reader  *)
(* threads.                                                                *)
(***************************************************************************)
EXTENDS Integers, Sequences

CONSTANTS Channel,    \* channel numbers
          Byte,       \* what a byte can be
          Thread,     \* reader threads
          Capacity,   \* bytes a channel can hold
          MaxPacket,  \* longest payload of one packet
          MaxLen      \* largest read request

VARIABLES open,   \* the registered channels
          queue,  \* queue[c]: bytes accepted on c and not yet read
          data    \* data[t]: what the last successful read of t returned

vars == <<open, queue, data>>

Packets == UNION {[1..n -> Byte] : n \in 1..MaxPacket}

Smaller(a, b) == IF a < b THEN a ELSE b

Init ==
  /\ open = {}
  /\ queue = [c \in Channel |-> <<>>]
  /\ data = [t \in Thread |-> <<>>]

Open(c) ==
  /\ c \notin open
  /\ open' = open \cup {c}
  /\ queue' = [queue EXCEPT ![c] = <<>>]
  /\ UNCHANGED data

Close(c) ==
  /\ c \in open
  /\ open' = open \ {c}
  /\ queue' = [queue EXCEPT ![c] = <<>>]
  /\ UNCHANGED data

Clear(c) ==
  /\ c \in open
  /\ queue' = [queue EXCEPT ![c] = <<>>]
  /\ UNCHANGED <<open, data>>

\* The bytes that fit are appended, the rest of the packet is lost.
Put(c, p) ==
  /\ c \in open
  /\ LET n == Smaller(Len(p), Capacity - Len(queue[c]))
     IN  queue' = [queue EXCEPT ![c] = @ \o SubSeq(p, 1, n)]
  /\ UNCHANGED <<open, data>>

Take(t, c, len) ==
  /\ c \in open
  /\ LET n == Smaller(len, Len(queue[c]))
     IN  /\ data' = [data EXCEPT ![t] = SubSeq(queue[c], 1, n)]
         /\ queue' = [queue EXCEPT ![c] = SubSeq(@, n + 1, Len(@))]
  /\ UNCHANGED open

Next ==
  \/ \E c \in Channel : Open(c) \/ Close(c) \/ Clear(c)
  \/ \E c \in Channel, p \in Packets : Put(c, p)
  \/ \E t \in Thread, c \in Channel, len \in 1..MaxLen : Take(t, c, len)

Spec == Init /\ [][Next]_vars
=============================================================================

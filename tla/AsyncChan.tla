----------------------------- MODULE AsyncChan -----------------------------
(***************************************************************************)
(* The asynchronous channels of the PSP driver, usbhostfs/main.c:          *)
(* fill_async (run by usb_thread for every packet of endpoint 3) stores    *)
(* bytes into the ring buffer registered for a channel and raises the      *)
(* channel's bit of g_asyncevent; client threads register, flush, read and *)
(* unregister channels.                                                    *)
(*                                                                         *)
(* Everything between pspSdkDisableInterrupts and pspSdkEnableInterrupts   *)
(* is one step.  A read and a flush look at g_async_chan[chan] before they *)
(* disable interrupts and use it after: the check is a step of its own, so *)
(* is the wake-up of a blocked reader, and so is the protected part.       *)
(***************************************************************************)
EXTENDS Integers, Sequences

CONSTANTS MaxChannels,  \* MAX_ASYNC_CHANNELS
          AsyncUser,    \* ASYNC_USER, first channel ASYNC_ALLOC_CHAN may give
          MaxBuffer,    \* MAX_ASYNC_BUFFER
          Byte,         \* values of a byte
          Endp,         \* struct AsyncEndpoint objects owned by the clients
          Thread,       \* client threads
          MaxPacket,    \* bound: payload bytes of one packet (504 in the code)
          MaxLen,       \* bound: size of a read request
          OwnerOnly,    \* TRUE: a channel is unregistered by its own client, outside
                        \* of its calls, as tools/echo/main.c:46-60 does
          NULL

ASSUME ChannelAssumption ==
  /\ MaxChannels \in Nat \ {0}
  /\ AsyncUser \in Nat
  /\ MaxBuffer \in Nat \ {0}
  /\ MaxPacket \in Nat \ {0}
  /\ MaxLen \in Nat \ {0}
  /\ OwnerOnly \in BOOLEAN
  /\ NULL \notin Endp

Channel == 0..(MaxChannels - 1)
Pos     == 0..(MaxBuffer - 1)
Packets == UNION {[1..n -> Byte] : n \in 1..MaxPacket}
Smaller(a, b) == IF a < b THEN a ELSE b

VARIABLES
  g_async_chan,                     \* channel -> registered endpoint or NULL
  buffer, read_pos, write_pos, size,\* the fields of each AsyncEndpoint
  g_asyncevent,                     \* set of channels whose event bit is up
  pc,      \* "idle"; "wait" (blocked in a read), "woken" (before the copy);
           \* "flush" (before the reset); "fault" (went through a NULL pointer)
  frame,   \* arguments of the call in progress
  data     \* what the last completed read of the thread copied out

ring == <<buffer, read_pos, write_pos, size>>
vars == <<g_async_chan, buffer, read_pos, write_pos, size, g_asyncevent,
          pc, frame, data>>

Frame == [chan : Channel, len : 1..MaxLen, timed : BOOLEAN]
NoCall == [chan |-> 0, len |-> 1, timed |-> FALSE]  \* a thread outside of a call

Registered(e) == \E c \in Channel : g_async_chan[c] = e

Init ==
  /\ g_async_chan = [c \in Channel |-> NULL]
  /\ buffer \in [Endp -> {[i \in Pos |-> b] : b \in Byte}]
  /\ read_pos = [e \in Endp |-> 0]
  /\ write_pos = [e \in Endp |-> 0]
  /\ size = [e \in Endp |-> 0]
  /\ g_asyncevent = {}
  /\ pc = [t \in Thread |-> "idle"]
  /\ frame = [t \in Thread |-> NoCall]
  /\ data = [t \in Thread |-> <<>>]

-----------------------------------------------------------------------------
(* sceKernelSetEventFlag / sceKernelWaitEventFlag with WAITOR | WAITCLEAR, *)
(* one bit per channel: setting a bit on which a thread waits hands it to  *)
(* that thread and leaves the bit down.                                    *)

Waiting(t, c) == pc[t] = "wait" /\ frame[t].chan = c
Woken(t, c)   == pc[t] = "woken" /\ frame[t].chan = c

\* sceKernelSetEventFlag(g_asyncevent, 1 << c), the caller's own pc being p.
SetEventFlag(c, p) ==
  \/ \E t \in Thread :
       /\ Waiting(t, c)
       /\ pc' = [p EXCEPT ![t] = "woken"]
       /\ UNCHANGED g_asyncevent
  \/ /\ \A t \in Thread : ~Waiting(t, c)
     /\ pc' = p
     /\ g_asyncevent' = g_asyncevent \cup {c}

-----------------------------------------------------------------------------
FreeOffByOne(e) == MaxBuffer - size[e] + 1          \* mutant of Free

\* The room left in the ring of e.
Free(e) == MaxBuffer - size[e]

\* fill_async: a packet with a good header for a registered channel.  Any
\* other packet is only reported.  The bit goes up even when no byte fitted.
fill_async(c, p) ==
  LET e == g_async_chan[c]
      n == Smaller(Len(p), Free(e))
  IN  /\ e # NULL
      /\ buffer' = [buffer EXCEPT ![e] = [i \in Pos |->
             LET k == (i - write_pos[e]) % MaxBuffer
             IN  IF k < n THEN p[k + 1] ELSE @[i]]]
      /\ write_pos' = [write_pos EXCEPT ![e] = (@ + n) % MaxBuffer]
      /\ size' = [size EXCEPT ![e] = @ + n]
      /\ SetEventFlag(c, pc)
      /\ UNCHANGED <<g_async_chan, read_pos, frame, data>>

\* Mutant of Flush: the write position is not reset.
FlushKeepsWritePos(c, e) ==
  /\ size' = [size EXCEPT ![e] = 0]
  /\ read_pos' = [read_pos EXCEPT ![e] = 0]
  /\ g_asyncevent' = g_asyncevent \ {c}
  /\ UNCHANGED <<buffer, write_pos>>

\* The protected part of usbAsyncFlush.
Flush(c, e) ==
  /\ size' = [size EXCEPT ![e] = 0]
  /\ read_pos' = [read_pos EXCEPT ![e] = 0]
  /\ write_pos' = [write_pos EXCEPT ![e] = 0]
  /\ g_asyncevent' = g_asyncevent \ {c}
  /\ UNCHANGED buffer

InRange(c) == c \in Channel                          \* mutant of IsOpen

\* What a read and a flush check on entry, with interrupts still enabled.
IsOpen(c) == g_async_chan[c] # NULL

\* usbAsyncFlush finds the channel registered; otherwise it just returns.
FlushCall(t, c) ==
  /\ pc[t] = "idle"
  /\ IsOpen(c)
  /\ pc' = [pc EXCEPT ![t] = "flush"]
  /\ frame' = [frame EXCEPT ![t].chan = c]
  /\ UNCHANGED <<g_async_chan, ring, g_asyncevent, data>>

FlushDo(t) ==
  LET c == frame[t].chan
  IN  /\ pc[t] = "flush"
      /\ g_async_chan[c] # NULL
      /\ Flush(c, g_async_chan[c])
      /\ pc' = [pc EXCEPT ![t] = "idle"]
      /\ frame' = [frame EXCEPT ![t] = NoCall]
      /\ UNCHANGED <<g_async_chan, data>>

\* Mutant of RegisterOn: the endpoint keeps what an earlier registration left.
RegisterUnflushed(c, e) ==
  /\ ~Registered(e)
  /\ g_async_chan[c] = NULL
  /\ g_async_chan' = [g_async_chan EXCEPT ![c] = e]
  /\ UNCHANGED <<ring, g_asyncevent, pc, frame, data>>

\* usbAsyncRegister on a channel that is free.  A taken channel gives -1.
RegisterOn(c, e) ==
  /\ ~Registered(e)                 \* each client registers its endpoint once
  /\ g_async_chan[c] = NULL
  /\ g_async_chan' = [g_async_chan EXCEPT ![c] = e]
  /\ Flush(c, e)
  /\ UNCHANGED <<pc, frame, data>>

\* ASYNC_ALLOC_CHAN: the lowest free channel from ASYNC_USER up; -1 if none.
RegisterAlloc(e) ==
  \E c \in Channel :
    /\ c >= AsyncUser
    /\ \A d \in Channel : (d >= AsyncUser /\ d < c) => g_async_chan[d] # NULL
    /\ RegisterOn(c, e)

usbAsyncRegister(e) == RegisterAlloc(e) \/ \E c \in Channel : RegisterOn(c, e)

\* usbAsyncUnregister leaves the endpoint and the event bit as they are.
usbAsyncUnregister(t, c) ==
  /\ pc[t] = "idle"
  /\ OwnerOnly => \A u \in Thread : pc[u] = "idle" \/ frame[u].chan # c
  /\ g_async_chan[c] # NULL
  /\ g_async_chan' = [g_async_chan EXCEPT ![c] = NULL]
  /\ UNCHANGED <<ring, g_asyncevent, pc, frame, data>>

-----------------------------------------------------------------------------
(* usbAsyncReadWithTimeout; a channel that is not registered gives -1.     *)

\* Entry and wait: through at once if the bit is up, taking it down.
ReadCall(t, c, n, timed) ==
  /\ pc[t] = "idle"
  /\ IsOpen(c)
  /\ frame' = [frame EXCEPT ![t] = [chan |-> c, len |-> n, timed |-> timed]]
  /\ pc' = [pc EXCEPT ![t] = IF c \in g_asyncevent THEN "woken" ELSE "wait"]
  /\ g_asyncevent' = g_asyncevent \ {c}
  /\ UNCHANGED <<g_async_chan, ring, data>>

\* sceKernelWaitEventFlag gave an error: return -1.
ReadTimeout(t) ==
  /\ pc[t] = "wait"
  /\ frame[t].timed
  /\ pc' = [pc EXCEPT ![t] = "idle"]
  /\ frame' = [frame EXCEPT ![t] = NoCall]
  /\ UNCHANGED <<g_async_chan, ring, g_asyncevent, data>>

ReraiseNever(c, left, p) == pc' = p /\ UNCHANGED g_asyncevent  \* mutant of Reraise

\* The bit, taken down by the wait, goes up again while bytes are left.
Reraise(c, left, p) ==
  IF left # 0 THEN SetEventFlag(c, p) ELSE pc' = p /\ UNCHANGED g_asyncevent

\* After the wake-up: copy the oldest bytes, raise the bit again if some are
\* left.  The channel pointer is not checked a second time.
ReadCopy(t) ==
  LET c == frame[t].chan
      e == g_async_chan[c]
      n == Smaller(frame[t].len, size[e])
  IN  /\ pc[t] = "woken"
      /\ e # NULL
      /\ data' = [data EXCEPT ![t] =
             [i \in 1..n |-> buffer[e][(read_pos[e] + i - 1) % MaxBuffer]]]
      /\ read_pos' = [read_pos EXCEPT ![e] = (@ + n) % MaxBuffer]
      /\ size' = [size EXCEPT ![e] = @ - n]
      /\ Reraise(c, size[e] - n, [pc EXCEPT ![t] = "idle"])
      /\ frame' = [frame EXCEPT ![t] = NoCall]
      /\ UNCHANGED <<g_async_chan, buffer, write_pos>>

\* Either protected part with the channel gone since the check: an access
\* through a NULL pointer.
Fault(t) ==
  /\ pc[t] \in {"woken", "flush"}
  /\ g_async_chan[frame[t].chan] = NULL
  /\ pc' = [pc EXCEPT ![t] = "fault"]
  /\ UNCHANGED <<g_async_chan, ring, g_asyncevent, frame, data>>

Next ==
  \/ \E c \in Channel, p \in Packets : fill_async(c, p)
  \/ \E e \in Endp : usbAsyncRegister(e)
  \/ \E t \in Thread, c \in Channel : usbAsyncUnregister(t, c) \/ FlushCall(t, c)
  \/ \E t \in Thread, c \in Channel, n \in 1..MaxLen, timed \in BOOLEAN :
       ReadCall(t, c, n, timed)
  \/ \E t \in Thread : ReadTimeout(t) \/ ReadCopy(t) \/ FlushDo(t) \/ Fault(t)

\* A thread whose wait is over is scheduled again; packets, calls of clients
\* and timeouts may never come.
Fairness == \A t \in Thread : WF_vars(ReadCopy(t))

Spec     == Init /\ [][Next]_vars
FairSpec == Spec /\ Fairness

-----------------------------------------------------------------------------
\* Every field of the driver's tables and of the calls in progress is in range.
TypeOK ==
  /\ g_async_chan \in [Channel -> Endp \cup {NULL}]
  /\ buffer \in [Endp -> [Pos -> Byte]]
  /\ read_pos \in [Endp -> Pos]
  /\ write_pos \in [Endp -> Pos]
  /\ size \in [Endp -> 0..MaxBuffer]
  /\ g_asyncevent \subseteq Channel
  /\ pc \in [Thread -> {"idle", "wait", "woken", "flush", "fault"}]
  /\ frame \in [Thread -> Frame]
  /\ DOMAIN data = Thread

\* The three ring-buffer fields, which fill_async and the reader advance
\* independently, always agree: the write position is size bytes after the
\* read position.
RingOK ==
  \A e \in Endp : write_pos[e] = (read_pos[e] + size[e]) % MaxBuffer

HasData(c) == g_async_chan[c] # NULL /\ size[g_async_chan[c]] # 0

\* Bytes are never stored with nobody told: as long as a registered channel
\* holds data, a reader of it is on its way to the copy, or its event bit is up
\* and nobody sleeps on it.  The wait clears the bit before the copy, a read may
\* leave bytes behind and a flush clears the bit: each must put the pieces back,
\* for every other reader of the channel.
NoLostWakeup ==
  \A c \in Channel : HasData(c) =>
    \/ \E t \in Thread : Woken(t, c)
    \/ c \in g_asyncevent /\ \A t \in Thread : ~Waiting(t, c)

\* usbAsyncReadWithTimeout and usbAsyncFlush check the channel before they
\* disable interrupts (lines 806, 851) and use it after: no call goes through
\* a NULL g_async_chan entry.
NoFault == \A t \in Thread : pc[t] # "fault"

\* Data for a sleeping reader ends its sleep (or is taken by another reader).
DataWakes ==
  \A t \in Thread, c \in Channel :
    (Waiting(t, c) /\ HasData(c)) ~> ~(Waiting(t, c) /\ HasData(c))

\* The bytes of an endpoint, oldest first.
Contents(e) ==
  [i \in 1..size[e] |-> buffer[e][(read_pos[e] + i - 1) % MaxBuffer]]

Stream == INSTANCE AsyncStream WITH
  open     <- {c \in Channel : g_async_chan[c] # NULL},
  queue    <- [c \in Channel |-> IF g_async_chan[c] = NULL THEN <<>>
                                 ELSE Contents(g_async_chan[c])],
  Capacity <- MaxBuffer

\* The ring buffers, the event flag and the blocked readers implement one
\* bounded FIFO per channel: a reader gets the bytes of the packets in order,
\* each once, none from before the registration or from another channel.
IsStream == Stream!Spec
=============================================================================

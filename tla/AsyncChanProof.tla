--------------------------- MODULE AsyncChanProof ---------------------------
(***************************************************************************)
(* Proofs about AsyncChan for any number of channels, endpoints, threads   *)
(* and any buffer size.                                                    *)
(***************************************************************************)
EXTENDS AsyncChan, SequenceTheorems, TLAPS

\* No two channels share an endpoint: usbAsyncRegister is called once for each.
Injective ==
  \A c, d \in Channel :
    g_async_chan[c] # NULL /\ g_async_chan[c] = g_async_chan[d] => c = d

\* With disciplined clients, a channel stays registered during the calls on it.
ChannelHeld ==
  OwnerOnly => \A t \in Thread :
    /\ pc[t] # "fault"
    /\ pc[t] # "idle" => g_async_chan[frame[t].chan] # NULL

\* The two halves of NoLostWakeup.  The first alone is not inductive: a copy
\* that leaves bytes behind relies on the second.
BitOrReader ==
  \A c \in Channel :
    HasData(c) => c \in g_asyncevent \/ \E t \in Thread : Woken(t, c)

NoSleepOnEvent ==
  \A t \in Thread, c \in Channel : Waiting(t, c) => c \notin g_asyncevent

\* The inductive invariant.
IInv == TypeOK /\ RingOK /\ Injective /\ BitOrReader /\ NoSleepOnEvent /\ ChannelHeld

-----------------------------------------------------------------------------
\* The position arithmetic of the ring buffer.
LEMMA ModRange ==
  ASSUME NEW x \in Int, NEW m \in Nat \ {0}
  PROVE  x % m \in 0..(m - 1)
  OBVIOUS

\* Advancing write_pos by k in the ring is adding k to the size.
LEMMA ModAdd ==
  ASSUME NEW m \in Nat \ {0}, NEW a \in 0..(m - 1), NEW s \in 0..m, NEW k \in 0..(m - s)
  PROVE  (((a + s) % m) + k) % m = (a + (s + k)) % m
  <1>1. CASE a + s < m
    BY <1>1
  <1>2. CASE a + s >= m
    <2>1. (a + s) % m = a + s - m
      BY <1>2
    <2>2. (a + s) - m + k < m
      OBVIOUS
    <2>3. (a + (s + k)) % m = a + s + k - m
      BY <1>2
    <2>4. (a + s - m + k) % m = a + s - m + k
      BY <1>2, <2>2
    <2> QED BY <2>1, <2>3, <2>4
  <1> QED BY <1>1, <1>2

\* Advancing read_pos by k in the ring is taking k from the size.
LEMMA ModTake ==
  ASSUME NEW m \in Nat \ {0}, NEW a \in 0..(m - 1), NEW s \in 0..m, NEW k \in 0..s
  PROVE  (((a + k) % m) + (s - k)) % m = (a + s) % m
  <1>1. CASE a + k < m
    BY <1>1
  <1>2. CASE a + k >= m
    <2>1. (a + k) % m = a + k - m
      BY <1>2
    <2>2. (a + s) % m = a + s - m
      BY <1>2
    <2>3. (a + s - m) % m = a + s - m
      BY <1>2
    <2> QED BY <2>1, <2>2, <2>3
  <1> QED BY <1>1, <1>2

-----------------------------------------------------------------------------
\* Raising a bit hands it to a sleeping reader or leaves it up: either way the
\* channel has a bit or a woken reader, and other readers are not disturbed.
LEMMA SetEventFlagEffect ==
  ASSUME TypeOK, NoSleepOnEvent, NEW c \in Channel, frame' = frame,
         SetEventFlag(c, pc)
  PROVE  /\ pc' \in [Thread -> {"idle", "wait", "woken", "flush", "fault"}]
         /\ g_asyncevent' \subseteq Channel
         /\ g_asyncevent \subseteq g_asyncevent'
         /\ g_asyncevent' \subseteq g_asyncevent \cup {c}
         /\ c \in g_asyncevent' \/ \E t \in Thread : Woken(t, c)'
         /\ \A t \in Thread, d \in Channel : Woken(t, d) => Woken(t, d)'
         /\ \A t \in Thread, d \in Channel : Waiting(t, d)' => Waiting(t, d) /\ d \notin g_asyncevent'
         /\ \A t \in Thread : pc'[t] = pc[t] \/ (pc[t] = "wait" /\ pc'[t] = "woken")
  <1>1. CASE \E t \in Thread : Waiting(t, c) /\ pc' = [pc EXCEPT ![t] = "woken"]
                               /\ UNCHANGED g_asyncevent
    BY <1>1 DEF TypeOK, NoSleepOnEvent, Waiting, Woken
  <1>2. CASE /\ \A t \in Thread : ~Waiting(t, c)
             /\ pc' = pc
             /\ g_asyncevent' = g_asyncevent \cup {c}
    BY <1>2 DEF TypeOK, NoSleepOnEvent, Waiting, Woken
  <1> QED BY <1>1, <1>2 DEF SetEventFlag

\* The driver starts with no channel, empty rings and no bit up.
LEMMA InitIInv == Init => IInv
  BY ChannelAssumption
  DEF Init, IInv, TypeOK, RingOK, Injective, BitOrReader, NoSleepOnEvent, ChannelHeld,
      HasData, Waiting, Woken, Channel, Pos, Frame, NoCall

\* A packet (fill_async) keeps the invariant: what it stores fits, and it
\* raises the bit of its own channel only.
LEMMA FillStep ==
  ASSUME IInv, NEW c \in Channel, NEW p \in Packets, fill_async(c, p)
  PROVE  IInv'
  <1> DEFINE e == g_async_chan[c]
             n == Smaller(Len(p), Free(e))
  <1>0. /\ e \in Endp
        /\ frame' = frame
        /\ SetEventFlag(c, pc)
        /\ TypeOK /\ RingOK /\ Injective /\ BitOrReader /\ NoSleepOnEvent /\ ChannelHeld
    BY DEF fill_async, IInv, TypeOK
  <1>1. /\ Len(p) \in Nat
        /\ \A k \in 1..Len(p) : p[k] \in Byte
    BY ChannelAssumption DEF Packets
  <1>2. n \in 0..(MaxBuffer - size[e]) /\ n <= Len(p)
    BY <1>0, <1>1, ChannelAssumption DEF Smaller, Free, TypeOK
  <1> HIDE DEF n
  <1>3. buffer' \in [Endp -> [Pos -> Byte]]
    <2>1. SUFFICES ASSUME NEW i \in Pos
                   PROVE (LET k == (i - write_pos[e]) % MaxBuffer
                          IN  IF k < n THEN p[k + 1] ELSE buffer[e][i]) \in Byte
      BY <1>0 DEF fill_async, TypeOK, n
    <2>0. i - write_pos[e] \in Int
      BY <1>0, ChannelAssumption DEF TypeOK, Pos
    <2>2. (i - write_pos[e]) % MaxBuffer \in 0..(MaxBuffer - 1)
      BY <2>0, ModRange, ChannelAssumption
    <2> QED BY <1>0, <1>1, <1>2, <2>2 DEF TypeOK
  <1>4. /\ write_pos' = [write_pos EXCEPT ![e] = (@ + n) % MaxBuffer]
        /\ size' = [size EXCEPT ![e] = @ + n]
        /\ UNCHANGED <<g_async_chan, read_pos, frame, data>>
    BY DEF fill_async, n
  <1>5. write_pos' \in [Endp -> Pos] /\ size' \in [Endp -> 0..MaxBuffer]
    <2>0. write_pos[e] + n \in Int
      BY <1>0, <1>2, ChannelAssumption DEF TypeOK, Pos
    <2>1. (write_pos[e] + n) % MaxBuffer \in Pos
      BY <2>0, ModRange, ChannelAssumption DEF Pos
    <2> QED BY <1>0, <1>2, <1>4, <2>1, ChannelAssumption DEF TypeOK
  <1>6. TypeOK'
    BY <1>0, <1>3, <1>4, <1>5, SetEventFlagEffect DEF TypeOK
  <1>7. RingOK'
    <2>1. (((read_pos[e] + size[e]) % MaxBuffer) + n) % MaxBuffer
            = (read_pos[e] + (size[e] + n)) % MaxBuffer
      BY <1>0, <1>2, ModAdd, ChannelAssumption DEF TypeOK, Pos
    <2> QED BY <1>0, <1>4, <2>1 DEF RingOK, TypeOK
  <1>8. Injective'
    BY <1>0, <1>4 DEF Injective
  <1>9. BitOrReader'
    <2> SUFFICES ASSUME NEW d \in Channel, HasData(d)'
                 PROVE  d \in g_asyncevent' \/ \E t \in Thread : Woken(t, d)'
      BY DEF BitOrReader
    <2>1. CASE d = c
      BY <1>0, <2>1, SetEventFlagEffect
    <2>2. CASE d # c
      <3>1. HasData(d)
        BY <1>0, <1>4, <2>2 DEF HasData, Injective, TypeOK
      <3> QED BY <3>1, <1>0, SetEventFlagEffect DEF BitOrReader
    <2> QED BY <2>1, <2>2
  <1>10. NoSleepOnEvent'
    BY <1>0, SetEventFlagEffect DEF NoSleepOnEvent
  <1>11. ChannelHeld'
    BY <1>0, <1>4, SetEventFlagEffect DEF ChannelHeld
  <1> QED BY <1>6, <1>7, <1>8, <1>9, <1>10, <1>11 DEF IInv

\* The reset of an endpoint that no other channel uses.
LEMMA FlushEffect ==
  ASSUME IInv, NEW c \in Channel, NEW e \in Endp, Flush(c, e)
  PROVE  /\ buffer' \in [Endp -> [Pos -> Byte]]
         /\ read_pos' \in [Endp -> Pos]
         /\ write_pos' \in [Endp -> Pos]
         /\ size' \in [Endp -> 0..MaxBuffer]
         /\ g_asyncevent' \subseteq Channel
         /\ g_asyncevent' = g_asyncevent \ {c}
         /\ RingOK'
         /\ size'[e] = 0
         /\ \A f \in Endp : f # e => size'[f] = size[f]
  <1>1. 0 \in Pos /\ 0 \in 0..MaxBuffer /\ (0 + 0) % MaxBuffer = 0
    BY ChannelAssumption DEF Pos
  <1> QED BY <1>1 DEF Flush, IInv, TypeOK, RingOK

\* A registration (usbAsyncRegister) keeps the invariant.
LEMMA RegisterStep ==
  ASSUME IInv, NEW c \in Channel, NEW e \in Endp, RegisterOn(c, e)
  PROVE  IInv'
  <1>0. /\ TypeOK /\ RingOK /\ Injective /\ BitOrReader /\ NoSleepOnEvent /\ ChannelHeld
        /\ Flush(c, e)
        /\ g_async_chan[c] = NULL
        /\ g_async_chan' = [g_async_chan EXCEPT ![c] = e]
        /\ UNCHANGED <<pc, frame, data>>
        /\ \A d \in Channel : g_async_chan[d] # e
        /\ e # NULL
    BY ChannelAssumption DEF RegisterOn, Registered, IInv
  <1>1. TypeOK'
    BY <1>0, FlushEffect DEF TypeOK
  <1>2. RingOK'
    BY <1>0, FlushEffect
  <1>3. Injective'
    BY <1>0 DEF Injective, TypeOK
  <1>4. BitOrReader'
    <2> SUFFICES ASSUME NEW d \in Channel, HasData(d)'
                 PROVE  d \in g_asyncevent' \/ \E t \in Thread : Woken(t, d)'
      BY DEF BitOrReader
    <2>1. d # c /\ HasData(d)
      BY <1>0, FlushEffect DEF HasData, TypeOK
    <2> QED BY <1>0, <2>1, FlushEffect DEF BitOrReader, Woken
  <1>5. NoSleepOnEvent'
    BY <1>0, FlushEffect DEF NoSleepOnEvent, Waiting
  <1>6. ChannelHeld'
    BY <1>0 DEF ChannelHeld, TypeOK, Frame
  <1> QED BY <1>1, <1>2, <1>3, <1>4, <1>5, <1>6 DEF IInv

\* The protected part of usbAsyncFlush keeps the invariant: it takes the bit
\* down together with the bytes.
LEMMA FlushStep ==
  ASSUME IInv, NEW t \in Thread, FlushDo(t)
  PROVE  IInv'
  <1> DEFINE c == frame[t].chan
             e == g_async_chan[c]
  <1>0. /\ TypeOK /\ RingOK /\ Injective /\ BitOrReader /\ NoSleepOnEvent /\ ChannelHeld
        /\ c \in Channel /\ e \in Endp
        /\ Flush(c, e)
        /\ pc[t] = "flush"
        /\ pc' = [pc EXCEPT ![t] = "idle"]
        /\ frame' = [frame EXCEPT ![t] = NoCall]
        /\ UNCHANGED <<g_async_chan, data>>
    BY DEF FlushDo, IInv, TypeOK, Frame
  <1> HIDE DEF c, e
  <1>1. TypeOK'
    <2>1. NoCall \in Frame
      BY ChannelAssumption DEF NoCall, Frame, Channel
    <2> QED BY <1>0, <2>1, FlushEffect DEF TypeOK
  <1>2. RingOK'
    BY <1>0, FlushEffect
  <1>3. Injective'
    BY <1>0 DEF Injective
  <1>4. BitOrReader'
    <2> SUFFICES ASSUME NEW d \in Channel, HasData(d)'
                 PROVE  d \in g_asyncevent' \/ \E u \in Thread : Woken(u, d)'
      BY DEF BitOrReader
    <2>1. d # c /\ HasData(d)
      BY <1>0, FlushEffect DEF HasData, TypeOK, e
    <2>2. \A u \in Thread : Woken(u, d) => Woken(u, d)'
      BY <1>0 DEF Woken, TypeOK
    <2> QED BY <1>0, <2>1, <2>2, FlushEffect DEF BitOrReader
  <1>5. NoSleepOnEvent'
    BY <1>0, FlushEffect DEF NoSleepOnEvent, Waiting, TypeOK
  <1>6. ChannelHeld'
    BY <1>0 DEF ChannelHeld, TypeOK
  <1> QED BY <1>1, <1>2, <1>3, <1>4, <1>5, <1>6 DEF IInv

\* usbAsyncUnregister keeps the invariant; with OwnerOnly nobody is in a call
\* on the channel.
LEMMA UnregisterStep ==
  ASSUME IInv, NEW t \in Thread, NEW c \in Channel, usbAsyncUnregister(t, c)
  PROVE  IInv'
  <1> USE DEF usbAsyncUnregister, IInv, ring
  <1>1. TypeOK' /\ RingOK' /\ Injective'
    BY DEF TypeOK, RingOK, Injective
  <1>2. BitOrReader'
    BY DEF BitOrReader, HasData, Woken, TypeOK
  <1>3. NoSleepOnEvent'
    BY DEF NoSleepOnEvent, Waiting
  <1>4. ChannelHeld'
    BY DEF ChannelHeld, TypeOK, Frame
  <1> QED BY <1>1, <1>2, <1>3, <1>4

\* The entry of usbAsyncFlush keeps the invariant.
LEMMA FlushCallStep ==
  ASSUME IInv, NEW t \in Thread, NEW c \in Channel, FlushCall(t, c)
  PROVE  IInv'
  <1> USE DEF FlushCall, IsOpen, IInv, ring
  <1>1. TypeOK' /\ RingOK' /\ Injective'
    BY DEF TypeOK, RingOK, Injective, Frame
  <1>2. BitOrReader'
    BY DEF BitOrReader, HasData, Woken, TypeOK
  <1>3. NoSleepOnEvent'
    BY DEF NoSleepOnEvent, Waiting, TypeOK
  <1>4. ChannelHeld'
    BY DEF ChannelHeld, TypeOK, Frame
  <1> QED BY <1>1, <1>2, <1>3, <1>4

\* The entry of a read keeps the invariant: the bit it clears makes it woken.
LEMMA ReadCallStep ==
  ASSUME IInv, NEW t \in Thread, NEW c \in Channel, NEW n \in 1..MaxLen,
         NEW timed \in BOOLEAN, ReadCall(t, c, n, timed)
  PROVE  IInv'
  <1> USE DEF ReadCall, IsOpen, IInv, ring
  <1>1. TypeOK' /\ RingOK' /\ Injective'
    BY DEF TypeOK, RingOK, Injective, Frame
  <1>2. BitOrReader'
    BY DEF BitOrReader, HasData, Woken, TypeOK
  <1>3. NoSleepOnEvent'
    BY DEF NoSleepOnEvent, Waiting, TypeOK
  <1>4. ChannelHeld'
    BY DEF ChannelHeld, TypeOK, Frame
  <1> QED BY <1>1, <1>2, <1>3, <1>4

\* A read that times out keeps the invariant: it was asleep, so it held no bit.
LEMMA ReadTimeoutStep ==
  ASSUME IInv, NEW t \in Thread, ReadTimeout(t)
  PROVE  IInv'
  <1> USE DEF ReadTimeout, IInv, ring
  <1>0. NoCall \in Frame
    BY ChannelAssumption DEF NoCall, Frame, Channel
  <1>1. TypeOK' /\ RingOK' /\ Injective'
    BY <1>0 DEF TypeOK, RingOK, Injective
  <1>2. BitOrReader'
    BY DEF BitOrReader, HasData, Woken, TypeOK
  <1>3. NoSleepOnEvent'
    BY DEF NoSleepOnEvent, Waiting, TypeOK
  <1>4. ChannelHeld'
    BY DEF ChannelHeld, TypeOK
  <1> QED BY <1>1, <1>2, <1>3, <1>4

\* A call that goes through a NULL channel keeps the invariant (it cannot
\* happen with OwnerOnly).
LEMMA FaultStep ==
  ASSUME IInv, NEW t \in Thread, Fault(t)
  PROVE  IInv'
  <1> USE DEF Fault, IInv, ring
  <1>1. TypeOK' /\ RingOK' /\ Injective'
    BY DEF TypeOK, RingOK, Injective
  <1>2. BitOrReader'
    BY DEF BitOrReader, HasData, Woken, TypeOK
  <1>3. NoSleepOnEvent'
    BY DEF NoSleepOnEvent, Waiting, TypeOK
  <1>4. ChannelHeld'
    BY DEF ChannelHeld, TypeOK
  <1> QED BY <1>1, <1>2, <1>3, <1>4

\* The copy: the only step that ends a woken reader, so the one where a
\* wake-up could be lost.  It either empties the endpoint or passes the bit on.
LEMMA ReadCopyStep ==
  ASSUME IInv, NEW t \in Thread, ReadCopy(t)
  PROVE  IInv'
  <1> DEFINE c == frame[t].chan
             e == g_async_chan[c]
             n == Smaller(frame[t].len, size[e])
             p == [pc EXCEPT ![t] = "idle"]
  <1>0. /\ TypeOK /\ RingOK /\ Injective /\ BitOrReader /\ NoSleepOnEvent /\ ChannelHeld
        /\ c \in Channel /\ e \in Endp
        /\ pc[t] = "woken"
    BY DEF ReadCopy, IInv, TypeOK, Frame
  <1>1. n \in 0..size[e]
    BY <1>0, ChannelAssumption DEF Smaller, TypeOK, Frame
  <1>2. /\ read_pos' = [read_pos EXCEPT ![e] = (@ + n) % MaxBuffer]
        /\ size' = [size EXCEPT ![e] = @ - n]
        /\ frame' = [frame EXCEPT ![t] = NoCall]
        /\ DOMAIN data' = DOMAIN data
        /\ UNCHANGED <<g_async_chan, buffer, write_pos>>
        /\ IF size[e] - n # 0 THEN SetEventFlag(c, p)
                              ELSE pc' = p /\ UNCHANGED g_asyncevent
    BY DEF ReadCopy, Reraise
  <1> HIDE DEF n
  \* What happens to the threads and the bit.
  <1>3. /\ pc' \in [Thread -> {"idle", "wait", "woken", "flush", "fault"}]
        /\ pc'[t] = "idle"
        /\ g_asyncevent' \in {g_asyncevent, g_asyncevent \cup {c}}
        /\ \A u \in Thread \ {t} :
             \/ pc'[u] = pc[u] /\ (pc[u] = "wait" /\ frame[u].chan = c => g_asyncevent' = g_asyncevent)
             \/ pc[u] = "wait" /\ frame[u].chan = c /\ pc'[u] = "woken"
        /\ size[e] - n # 0 => \/ c \in g_asyncevent'
                              \/ \E u \in Thread \ {t} : frame[u].chan = c /\ pc'[u] = "woken"
    <2>1. CASE size[e] - n = 0
      BY <1>0, <1>2, <2>1 DEF TypeOK
    <2>2. CASE size[e] - n # 0
      <3>1. SetEventFlag(c, p)
        BY <1>2, <2>2
      <3>2. CASE \E u \in Thread : Waiting(u, c) /\ pc' = [p EXCEPT ![u] = "woken"]
                                   /\ UNCHANGED g_asyncevent
        <4>1. PICK u \in Thread : Waiting(u, c) /\ pc' = [p EXCEPT ![u] = "woken"]
                                 /\ UNCHANGED g_asyncevent
          BY <3>2
        <4>2. u # t
          BY <1>0, <4>1 DEF Waiting
        <4> QED BY <1>0, <4>1, <4>2 DEF Waiting, TypeOK
      <3>3. CASE /\ \A u \in Thread : ~Waiting(u, c)
                 /\ pc' = p
                 /\ g_asyncevent' = g_asyncevent \cup {c}
        BY <1>0, <3>3 DEF Waiting, TypeOK
      <3> QED BY <3>1, <3>2, <3>3 DEF SetEventFlag
    <2> QED BY <2>1, <2>2
  <1> HIDE DEF c, e, p
  <1>4. TypeOK'
    <2>1. NoCall \in Frame
      BY ChannelAssumption DEF NoCall, Frame, Channel
    <2>2. read_pos[e] + n \in Int
      BY <1>0, <1>1, ChannelAssumption DEF TypeOK, Pos
    <2>3. (read_pos[e] + n) % MaxBuffer \in Pos
      BY <2>2, ModRange, ChannelAssumption DEF Pos
    <2>4. size[e] - n \in 0..MaxBuffer
      BY <1>0, <1>1, ChannelAssumption DEF TypeOK
    <2> QED BY <1>0, <1>2, <1>3, <2>1, <2>3, <2>4 DEF TypeOK
  <1>5. RingOK'
    <2>1. (((read_pos[e] + n) % MaxBuffer) + (size[e] - n)) % MaxBuffer
            = (read_pos[e] + size[e]) % MaxBuffer
      BY <1>0, <1>1, ModTake, ChannelAssumption DEF TypeOK, Pos
    <2> QED BY <1>0, <1>2, <2>1 DEF RingOK, TypeOK
  <1>6. Injective'
    BY <1>0, <1>2 DEF Injective
  <1>7. BitOrReader'
    <2> SUFFICES ASSUME NEW d \in Channel, HasData(d)'
                 PROVE  d \in g_asyncevent' \/ \E u \in Thread : Woken(u, d)'
      BY DEF BitOrReader
    <2>0. \A u \in Thread \ {t} : frame'[u] = frame[u]
      BY <1>0, <1>2 DEF TypeOK
    <2>1. CASE d = c
      <3>1. size[e] - n # 0
        BY <1>0, <1>2, <2>1 DEF HasData, TypeOK, e
      <3> QED BY <1>3, <2>0, <2>1, <3>1 DEF Woken
    <2>2. CASE d # c
      <3>1. HasData(d)
        BY <1>0, <1>2, <2>2 DEF HasData, Injective, TypeOK, e
      <3>2. d \in g_asyncevent \/ \E u \in Thread \ {t} : Woken(u, d)
        BY <1>0, <2>2, <3>1 DEF BitOrReader, Woken, c
      <3> QED BY <1>3, <2>0, <3>2 DEF Woken
    <2> QED BY <2>1, <2>2
  <1>8. NoSleepOnEvent'
    <2> SUFFICES ASSUME NEW u \in Thread, NEW d \in Channel, Waiting(u, d)'
                 PROVE  d \notin g_asyncevent'
      BY DEF NoSleepOnEvent
    <2>1. u # t
      BY <1>3 DEF Waiting
    <2>2. frame'[u] = frame[u] /\ Waiting(u, d)
      BY <1>0, <1>2, <1>3, <2>1 DEF Waiting, TypeOK
    <2> QED BY <1>0, <1>3, <2>1, <2>2 DEF Waiting, NoSleepOnEvent
  <1>9. ChannelHeld'
    BY <1>0, <1>2, <1>3 DEF ChannelHeld, TypeOK
  <1> QED BY <1>4, <1>5, <1>6, <1>7, <1>8, <1>9 DEF IInv

-----------------------------------------------------------------------------
\* Every step of the driver and its clients keeps the invariant.
LEMMA NextIInv == IInv /\ [Next]_vars => IInv'
  <1> SUFFICES ASSUME IInv, [Next]_vars PROVE IInv'
    OBVIOUS
  <1>1. ASSUME NEW e \in Endp, usbAsyncRegister(e) PROVE IInv'
    BY <1>1, RegisterStep DEF usbAsyncRegister, RegisterAlloc
  <1>2. CASE UNCHANGED vars
    BY <1>2 DEF vars, IInv, TypeOK, RingOK, Injective, BitOrReader, NoSleepOnEvent,
                ChannelHeld, HasData, Waiting, Woken
  <1> QED BY <1>1, <1>2, FillStep, UnregisterStep, FlushCallStep, ReadCallStep,
             ReadTimeoutStep, ReadCopyStep, FlushStep, FaultStep DEF Next

\* The invariant holds in every reachable state.
LEMMA IInvAlways == Spec => []IInv
  BY InitIInv, NextIInv, PTL DEF Spec

\* Type correctness of the channel tables and of the calls in progress.
THEOREM TypeCorrect == Spec => []TypeOK
  <1>1. IInv => TypeOK
    BY DEF IInv
  <1> QED BY <1>1, IInvAlways, PTL

\* fill_async and the reader keep write_pos, read_pos and size consistent for
\* every buffer size, packet length and order of packets, reads and flushes.
THEOREM RingConsistent == Spec => []RingOK
  <1>1. IInv => RingOK
    BY DEF IInv
  <1> QED BY <1>1, IInvAlways, PTL

\* Clearing the bit in the wait and raising it again in the copy never loses
\* the wake-up of a channel that holds data, whatever the number of readers.
THEOREM WakeupKept == Spec => []NoLostWakeup
  <1>1. IInv => NoLostWakeup
    BY DEF IInv, BitOrReader, NoSleepOnEvent, NoLostWakeup
  <1> QED BY <1>1, IInvAlways, PTL

\* If channels are only unregistered by their own client outside of its calls,
\* the unchecked g_async_chan[chan] after the wait is never NULL.
THEOREM OwnerNeverFaults ==
  ASSUME OwnerOnly
  PROVE  Spec => []NoFault
  <1>1. IInv => NoFault
    BY DEF IInv, ChannelHeld, NoFault
  <1> QED BY <1>1, IInvAlways, PTL

-----------------------------------------------------------------------------
(* The refinement of AsyncStream.                                          *)

\* The variables of AsyncStream that the driver's state stands for.
Opened == {c \in Channel : g_async_chan[c] # NULL}
Queue  == [c \in Channel |-> IF g_async_chan[c] = NULL THEN <<>>
                             ELSE Contents(g_async_chan[c])]

\* What a position counted from read_pos holds is a byte.
LEMMA RingByte ==
  ASSUME NEW b \in [Pos -> Byte], NEW r \in Pos, NEW i \in Nat
  PROVE  b[(r + i - 1) % MaxBuffer] \in Byte
  <1>1. r + i - 1 \in Int
    BY ChannelAssumption DEF Pos
  <1> QED BY <1>1, ModRange, ChannelAssumption DEF Pos

\* The bytes of an endpoint are a sequence as long as its size, oldest first.
LEMMA ContentsSeq ==
  ASSUME TypeOK, NEW e \in Endp
  PROVE  /\ Contents(e) \in Seq(Byte)
         /\ Len(Contents(e)) = size[e]
         /\ size[e] \in 0..MaxBuffer
         /\ \A i \in 1..size[e] :
              Contents(e)[i] = buffer[e][(read_pos[e] + i - 1) % MaxBuffer]
  <1>1. buffer[e] \in [Pos -> Byte] /\ read_pos[e] \in Pos /\ size[e] \in 0..MaxBuffer
    BY DEF TypeOK
  <1>2. Contents(e) = [i \in 1..size[e] |-> buffer[e][(read_pos[e] + i - 1) % MaxBuffer]]
    BY DEF Contents
  <1>3. Contents(e) \in [1..size[e] -> Byte]
    <2>1. \A i \in 1..size[e] : buffer[e][(read_pos[e] + i - 1) % MaxBuffer] \in Byte
      BY <1>1, RingByte, ChannelAssumption
    <2> QED BY <1>2, <2>1
  <1>4. size[e] \in Nat
    BY <1>1, ChannelAssumption
  <1>5. Contents(e) \in Seq(Byte)
    BY <1>3, <1>4, SeqDef
  <1>6. Len(Contents(e)) = size[e]
    BY <1>3, <1>4, <1>5, LenProperties
  <1> QED BY <1>1, <1>2, <1>5, <1>6

LEMMA ContentsSeqNext ==
  ASSUME TypeOK', NEW e \in Endp
  PROVE  /\ Contents(e)' \in Seq(Byte)
         /\ Len(Contents(e)') = size'[e]
         /\ size'[e] \in 0..MaxBuffer
         /\ \A i \in 1..size'[e] :
              Contents(e)'[i] = buffer'[e][(read_pos'[e] + i - 1) % MaxBuffer]
  <1>1. buffer'[e] \in [Pos -> Byte] /\ read_pos'[e] \in Pos /\ size'[e] \in 0..MaxBuffer
    BY DEF TypeOK
  <1>2. Contents(e)' = [i \in 1..size'[e] |-> buffer'[e][(read_pos'[e] + i - 1) % MaxBuffer]]
    BY DEF Contents
  <1>3. Contents(e)' \in [1..size'[e] -> Byte]
    <2>1. \A i \in 1..size'[e] : buffer'[e][(read_pos'[e] + i - 1) % MaxBuffer] \in Byte
      BY <1>1, RingByte, ChannelAssumption
    <2> QED BY <1>2, <2>1
  <1>4. size'[e] \in Nat
    BY <1>1, ChannelAssumption
  <1>5. Contents(e)' \in Seq(Byte)
    BY <1>3, <1>4, SeqDef
  <1>6. Len(Contents(e)') = size'[e]
    BY <1>3, <1>4, <1>5, LenProperties
  <1> QED BY <1>1, <1>2, <1>5, <1>6

\* An endpoint without bytes stands for the empty queue.
LEMMA EmptyContents ==
  ASSUME TypeOK, NEW e \in Endp, size[e] = 0
  PROVE  Contents(e) = <<>>
  BY ContentsSeq, EmptySeq

\* The start of the driver is the start of the FIFOs.
LEMMA StreamInit == Init => Stream!Init
  BY DEF Init, Stream!Init

\* A step that leaves the tables, the rings and the data alone is no step of
\* the FIFOs.
LEMMA StreamStutter ==
  ASSUME UNCHANGED <<g_async_chan, ring, data>>
  PROVE  UNCHANGED Stream!vars
  BY DEF ring, Stream!vars, Contents

\* A packet appends the bytes that fit to the queue of its channel.
LEMMA StreamPut ==
  ASSUME IInv, NEW c \in Channel, NEW p \in Packets, fill_async(c, p),
         NEW e, e = g_async_chan[c]
  PROVE  Stream!Put(c, p)
  <1> DEFINE n == Smaller(Len(p), Free(e))
             q == Contents(e)
             u == SubSeq(p, 1, n)
  <1>0. /\ TypeOK /\ RingOK /\ Injective /\ TypeOK'
        /\ e \in Endp /\ e # NULL
        /\ UNCHANGED <<g_async_chan, read_pos, data>>
    BY FillStep, ChannelAssumption DEF fill_async, IInv, TypeOK
  <1>1. Len(p) \in Nat /\ \A k \in 1..Len(p) : p[k] \in Byte
    BY ChannelAssumption DEF Packets
  <1>2. n \in 0..(MaxBuffer - size[e]) /\ n <= Len(p) /\ n \in Int
    BY <1>0, <1>1, ChannelAssumption DEF Smaller, Free, TypeOK
  <1>3. /\ buffer' = [buffer EXCEPT ![e] = [i \in Pos |->
               LET k == (i - write_pos[e]) % MaxBuffer
               IN  IF k < n THEN p[k + 1] ELSE buffer[e][i]]]
        /\ size' = [size EXCEPT ![e] = @ + n]
    BY DEF fill_async
  <1>4. n = Stream!Smaller(Len(p), MaxBuffer - Len(q))
    BY <1>0, ContentsSeq DEF Smaller, Stream!Smaller, Free
  <1> HIDE DEF n
  <1>5. /\ u \in Seq(Byte)
        /\ Len(u) = n
        /\ \A i \in 1..n : u[i] = p[i]
    BY <1>1, <1>2, SubSeqProperties
  <1>6. /\ q \in Seq(Byte) /\ Len(q) = size[e] /\ size[e] \in 0..MaxBuffer
        /\ \A i \in 1..size[e] : q[i] = buffer[e][(read_pos[e] + i - 1) % MaxBuffer]
    BY <1>0, ContentsSeq
  <1> HIDE DEF q, u
  <1>7. /\ q \o u \in Seq(Byte)
        /\ Len(q \o u) = size[e] + n
        /\ \A i \in 1..(size[e] + n) : (q \o u)[i] = IF i <= size[e] THEN q[i] ELSE u[i - size[e]]
    <2>1. /\ q \o u \in Seq(Byte)
          /\ Len(q \o u) = Len(q) + Len(u)
          /\ \A i \in 1..(Len(q) + Len(u)) :
               (q \o u)[i] = IF i <= Len(q) THEN q[i] ELSE u[i - Len(q)]
      BY <1>5, <1>6, ConcatProperties
    <2> QED BY <1>5, <1>6, <2>1
  <1>8. /\ Contents(e)' \in Seq(Byte) /\ Len(Contents(e)') = size[e] + n
        /\ \A i \in 1..(size[e] + n) :
             Contents(e)'[i] = buffer'[e][(read_pos[e] + i - 1) % MaxBuffer]
    <2>1. size'[e] = size[e] + n /\ read_pos'[e] = read_pos[e]
      BY <1>0, <1>3 DEF TypeOK
    <2> QED BY <1>0, <2>1, ContentsSeqNext
  <1>9. \A i \in 1..(size[e] + n) : Contents(e)'[i] = (q \o u)[i]
    <2> TAKE i \in 1..(size[e] + n)
    <2> DEFINE j == (read_pos[e] + i - 1) % MaxBuffer
               k == (j - write_pos[e]) % MaxBuffer
    <2>0. /\ read_pos[e] \in Pos /\ size[e] \in Nat /\ n \in Nat
          /\ write_pos[e] = (read_pos[e] + size[e]) % MaxBuffer
          /\ read_pos[e] + i - 1 \in Int /\ i \in Int /\ i >= 1
      BY <1>0, <1>2, ChannelAssumption DEF TypeOK, RingOK, Pos
    <2>1. j \in Pos
      BY <2>0, ModRange, ChannelAssumption DEF Pos
    <2>2. k \in Nat /\ (i <= size[e] => k >= n) /\ (i > size[e] => k = i - size[e] - 1)
      <3> DEFINE m == MaxBuffer
                 r == read_pos[e]
                 s == size[e]
                 w == write_pos[e]
      <3>0. m \in Nat /\ m > 0 /\ r \in 0..(m - 1)
        BY <2>0, ChannelAssumption DEF Pos
      <3>1. /\ m \in Nat /\ r \in Nat /\ s \in Nat /\ n \in Nat /\ i \in Nat
            /\ m > 0 /\ r < m /\ s + n <= m /\ i >= 1 /\ i <= s + n
        <4>1. s \in Nat /\ n \in Nat /\ n \in 0..(m - s) /\ i \in 1..(s + n)
          BY <2>0, <1>2
        <4> HIDE DEF m, r, s
        <4> QED BY <3>0, <4>1
      <3>2. j = (r + i - 1) % m /\ w = (r + s) % m /\ k = (j - w) % m
        BY <2>0
      <3> HIDE DEF m, r, s, w, j, k
      <3>3. j = IF r + i - 1 < m THEN r + i - 1 ELSE r + i - 1 - m
        BY <3>1, <3>2
      <3>4. w = IF r + s < m THEN r + s ELSE r + s - m
        BY <3>1, <3>2
      <3>5. k = IF j >= w THEN j - w ELSE j - w + m
        BY <3>1, <3>2, <3>3, <3>4
      <3>6. k \in Nat /\ (i <= s => k >= n) /\ (i > s => k = i - s - 1)
        BY <3>1, <3>3, <3>4, <3>5
      <3> QED BY <3>6 DEF s
    <2>4. buffer'[e][j] = IF k < n THEN p[k + 1] ELSE buffer[e][j]
      BY <1>0, <1>3, <2>1 DEF TypeOK
    <2>5. Contents(e)'[i] = buffer'[e][j]
      BY <1>8
    <2> HIDE DEF j, k
    <2>6. CASE i <= size[e]
      <3>1. (q \o u)[i] = q[i]
        BY <1>7, <2>6
      <3>2. q[i] = buffer[e][j]
        BY <1>6, <2>6, <2>0 DEF j
      <3>3. ~(k < n)
        BY <2>0, <2>2, <2>6
      <3> QED BY <2>4, <2>5, <3>1, <3>2, <3>3
    <2>7. CASE ~(i <= size[e])
      <3>0. i - size[e] \in 1..n
        BY <2>0, <2>7
      <3>1. (q \o u)[i] = p[i - size[e]]
        BY <1>7, <1>5, <2>7, <3>0
      <3>2. k + 1 = i - size[e] /\ k < n
        BY <2>0, <2>2, <2>7, <3>0
      <3> QED BY <2>4, <2>5, <3>1, <3>2
    <2> QED BY <2>6, <2>7
  <1>10. Contents(e)' = q \o u
    BY <1>7, <1>8, <1>9, SeqEqual
  <1>11. ASSUME NEW d \in Channel, d # c, g_async_chan[d] # NULL
         PROVE  Contents(g_async_chan[d])' = Contents(g_async_chan[d])
    <2>1. g_async_chan[d] \in Endp /\ g_async_chan[d] # e /\ g_async_chan'[d] = g_async_chan[d]
      BY <1>0, <1>11 DEF TypeOK, Injective
    <2>2. PICK f \in Endp : f = g_async_chan[d]
      BY <2>1
    <2>3. /\ size'[f] = size[f] /\ buffer'[f] = buffer[f] /\ read_pos'[f] = read_pos[f]
      BY <1>0, <1>3, <2>1, <2>2 DEF TypeOK
    <2>4. Contents(f)' = Contents(f)
      BY <2>3 DEF Contents
    <2> QED BY <2>1, <2>2, <2>4 DEF Contents
  <1>12. Queue' = [Queue EXCEPT ![c] = q \o u]
    BY <1>0, <1>10, <1>11 DEF Queue, Contents
  <1>13. Queue[c] = q
    BY <1>0 DEF Queue, q
  <1>14. Opened' = Opened /\ c \in Opened
    BY <1>0 DEF Opened
  <1> QED BY <1>0, <1>4, <1>12, <1>13, <1>14 DEF Stream!Put, Queue, Opened, u

\* The queues of the channels whose endpoints a step leaves alone.
LEMMA OtherQueues ==
  ASSUME TypeOK, NEW d \in Channel, g_async_chan[d] # NULL,
         g_async_chan'[d] = g_async_chan[d],
         size'[g_async_chan[d]] = size[g_async_chan[d]],
         buffer'[g_async_chan[d]] = buffer[g_async_chan[d]],
         read_pos'[g_async_chan[d]] = read_pos[g_async_chan[d]]
  PROVE  Contents(g_async_chan[d])' = Contents(g_async_chan[d])
  BY DEF Contents

\* The reset of an endpoint, which FlushDo and RegisterOn share: its channel
\* has an empty queue afterwards, the other channels the one they had.
LEMMA FlushQueues ==
  ASSUME IInv, TypeOK', NEW c \in Channel, NEW e \in Endp, Flush(c, e),
         \A d \in Channel : d # c => g_async_chan'[d] = g_async_chan[d] /\ g_async_chan[d] # e,
         g_async_chan'[c] = e
  PROVE  Queue' = [Queue EXCEPT ![c] = <<>>]
  <1>0. TypeOK /\ e # NULL
    BY ChannelAssumption DEF IInv
  <1>1. Contents(e)' = <<>>
    <2>1. size'[e] = 0
      BY FlushEffect
    <2>2. Contents(e)' \in Seq(Byte) /\ Len(Contents(e)') = 0
      BY <2>1, ContentsSeqNext
    <2> QED BY <2>2, EmptySeq
  <1>2. ASSUME NEW d \in Channel, d # c, g_async_chan[d] # NULL
        PROVE  Contents(g_async_chan[d])' = Contents(g_async_chan[d])
    BY <1>0, <1>2, OtherQueues DEF Flush, TypeOK
  <1>3. Contents(g_async_chan[c])' = <<>>
    BY <1>1 DEF Contents
  <1> QED BY <1>0, <1>2, <1>3 DEF Queue

\* A flush empties the queue of its channel.
LEMMA StreamClear ==
  ASSUME IInv, NEW t \in Thread, FlushDo(t), NEW c \in Channel, c = frame[t].chan
  PROVE  Stream!Clear(c)
  <1>2. PICK e \in Endp : e = g_async_chan[c]
    BY DEF FlushDo, IInv, TypeOK
  <1>3. /\ Flush(c, e) /\ e # NULL
        /\ UNCHANGED <<g_async_chan, data>>
        /\ \A d \in Channel : d # c => g_async_chan[d] # e
    BY <1>2 DEF FlushDo, IInv, Injective
  <1>4. TypeOK'
    BY FlushStep DEF IInv
  <1>5. Queue' = [Queue EXCEPT ![c] = <<>>]
    BY <1>2, <1>3, <1>4, FlushQueues
  <1>6. c \in Opened /\ Opened' = Opened
    BY <1>2, <1>3 DEF Opened
  <1> QED BY <1>3, <1>5, <1>6 DEF Stream!Clear, Queue, Opened

\* A registration opens a channel with an empty queue.
LEMMA StreamOpen ==
  ASSUME IInv, NEW c \in Channel, NEW e \in Endp, RegisterOn(c, e)
  PROVE  Stream!Open(c)
  <1>1. /\ Flush(c, e)
        /\ g_async_chan[c] = NULL
        /\ g_async_chan' = [g_async_chan EXCEPT ![c] = e]
        /\ UNCHANGED data
        /\ \A d \in Channel : g_async_chan[d] # e
        /\ e # NULL /\ TypeOK
    BY ChannelAssumption DEF RegisterOn, Registered, IInv
  <1>2. TypeOK'
    BY RegisterStep DEF IInv
  <1>3. Queue' = [Queue EXCEPT ![c] = <<>>]
    BY <1>1, <1>2, FlushQueues DEF TypeOK
  <1>4. c \notin Opened /\ Opened' = Opened \cup {c}
    BY <1>1 DEF Opened, TypeOK
  <1> QED BY <1>1, <1>3, <1>4 DEF Stream!Open, Queue, Opened

\* usbAsyncUnregister closes its channel; what was in the ring is lost.
LEMMA StreamClose ==
  ASSUME IInv, NEW t \in Thread, NEW c \in Channel, usbAsyncUnregister(t, c)
  PROVE  Stream!Close(c)
  <1>1. /\ g_async_chan[c] # NULL
        /\ g_async_chan' = [g_async_chan EXCEPT ![c] = NULL]
        /\ UNCHANGED <<ring, data>>
        /\ TypeOK
    BY DEF usbAsyncUnregister, IInv
  <1>2. ASSUME NEW d \in Channel, d # c, g_async_chan[d] # NULL
        PROVE  Contents(g_async_chan[d])' = Contents(g_async_chan[d])
    BY <1>1, <1>2, OtherQueues DEF ring, TypeOK
  <1>3. Queue' = [Queue EXCEPT ![c] = <<>>]
    BY <1>1, <1>2 DEF Queue, TypeOK
  <1>4. c \in Opened /\ Opened' = Opened \ {c}
    BY <1>1 DEF Opened, TypeOK
  <1> QED BY <1>1, <1>3, <1>4 DEF Stream!Close, Queue, Opened

\* The copy of a reader takes the oldest bytes off the queue.
LEMMA StreamTake ==
  ASSUME IInv, NEW t \in Thread, ReadCopy(t),
         NEW c \in Channel, c = frame[t].chan,
         NEW len \in 1..MaxLen, len = frame[t].len
  PROVE  Stream!Take(t, c, len)
  <1>2. PICK e \in Endp : e = g_async_chan[c]
    BY DEF ReadCopy, IInv, TypeOK
  <1> DEFINE n == Smaller(len, size[e])
             q == Contents(e)
             u == SubSeq(q, n + 1, Len(q))
  <1>3. /\ TypeOK /\ RingOK /\ Injective /\ TypeOK' /\ e # NULL
        /\ len \in Nat
    BY <1>2, ReadCopyStep, ChannelAssumption DEF IInv, TypeOK, Frame
  <1>4. /\ data' = [data EXCEPT ![t] =
              [i \in 1..n |-> buffer[e][(read_pos[e] + i - 1) % MaxBuffer]]]
        /\ read_pos' = [read_pos EXCEPT ![e] = (@ + n) % MaxBuffer]
        /\ size' = [size EXCEPT ![e] = @ - n]
        /\ UNCHANGED <<g_async_chan, buffer>>
    BY <1>2 DEF ReadCopy
  <1>5. /\ q \in Seq(Byte) /\ Len(q) = size[e] /\ size[e] \in 0..MaxBuffer
        /\ \A i \in 1..size[e] : q[i] = buffer[e][(read_pos[e] + i - 1) % MaxBuffer]
    BY <1>3, ContentsSeq
  <1>6. n \in Nat /\ n <= size[e] /\ size[e] \in Nat
    BY <1>3, <1>5, ChannelAssumption DEF Smaller
  <1>7. n = Stream!Smaller(len, Len(q))
    BY <1>5 DEF Smaller, Stream!Smaller
  <1> HIDE DEF n, q
  <1>8. [i \in 1..n |-> buffer[e][(read_pos[e] + i - 1) % MaxBuffer]] = SubSeq(q, 1, n)
    <2>1. \A i \in 1..n : q[i] \in Byte
      BY <1>5, <1>6
    <2>2. /\ SubSeq(q, 1, n) \in Seq(Byte)
          /\ Len(SubSeq(q, 1, n)) = n
          /\ \A i \in 1..n : SubSeq(q, 1, n)[i] = q[i]
      BY <1>6, <2>1, SubSeqProperties
    <2>3. DOMAIN SubSeq(q, 1, n) = 1..n
      BY <2>2, LenProperties
    <2>4. SubSeq(q, 1, n) = [i \in 1..n |-> SubSeq(q, 1, n)[i]]
      BY <2>2, <2>3, LenProperties
    <2> QED BY <1>5, <1>6, <2>2, <2>4
  <1>9. /\ u \in Seq(Byte)
        /\ Len(u) = size[e] - n
        /\ \A i \in 1..(size[e] - n) : u[i] = q[n + i]
    <2>1. \A i \in (n + 1)..Len(q) : q[i] \in Byte
      BY <1>5, <1>6
    <2> QED BY <1>5, <1>6, <2>1, SubSeqProperties
  <1> HIDE DEF u
  <1>10. /\ Contents(e)' \in Seq(Byte)
         /\ Len(Contents(e)') = size[e] - n
         /\ \A i \in 1..(size[e] - n) :
              Contents(e)'[i] = buffer[e][(((read_pos[e] + n) % MaxBuffer) + i - 1) % MaxBuffer]
    <2>1. /\ size'[e] = size[e] - n
          /\ read_pos'[e] = (read_pos[e] + n) % MaxBuffer
          /\ buffer'[e] = buffer[e]
      BY <1>3, <1>4 DEF TypeOK
    <2> QED BY <1>3, <2>1, ContentsSeqNext
  <1>11. \A i \in 1..(size[e] - n) : Contents(e)'[i] = u[i]
    <2> TAKE i \in 1..(size[e] - n)
    <2>1. (((read_pos[e] + n) % MaxBuffer) + i - 1) % MaxBuffer
            = (read_pos[e] + (n + i) - 1) % MaxBuffer
      <3> DEFINE m == MaxBuffer
                 r == read_pos[e]
                 s == size[e]
                 a == (r + n) % m
      <3>1. /\ m \in Nat /\ r \in Nat /\ s \in Nat /\ i \in Nat
            /\ m > 0 /\ r < m /\ s <= m /\ i >= 1 /\ n + i <= s
        BY <1>3, <1>5, <1>6, ChannelAssumption DEF Pos, TypeOK
      <3> HIDE DEF m, r, s
      <3>2. a = IF r + n < m THEN r + n ELSE r + n - m
        BY <1>6, <3>1
      <3> HIDE DEF a
      <3>3. (a + i - 1) % m = IF a + i - 1 < m THEN a + i - 1 ELSE a + i - 1 - m
        BY <1>6, <3>1, <3>2
      <3>4. (r + (n + i) - 1) % m = IF r + (n + i) - 1 < m THEN r + (n + i) - 1
                                                          ELSE r + (n + i) - 1 - m
        BY <1>6, <3>1
      <3>5. (a + i - 1) % m = (r + (n + i) - 1) % m
        BY <1>6, <3>1, <3>2, <3>3, <3>4
      <3> QED BY <3>5 DEF a, r, m
    <2>2. n + i \in 1..size[e]
      BY <1>6
    <2>3. q[n + i] = buffer[e][(read_pos[e] + (n + i) - 1) % MaxBuffer]
      BY <1>5, <2>2
    <2> QED BY <1>9, <1>10, <2>1, <2>3
  <1>12. Contents(e)' = u
    BY <1>9, <1>10, <1>11, SeqEqual
  <1>13. ASSUME NEW d \in Channel, d # c, g_async_chan[d] # NULL
         PROVE  Contents(g_async_chan[d])' = Contents(g_async_chan[d])
    <2>1. g_async_chan[d] \in Endp /\ g_async_chan[d] # e
      BY <1>2, <1>3, <1>13 DEF TypeOK, Injective
    <2> QED BY <1>3, <1>4, <1>13, <2>1, OtherQueues DEF TypeOK
  <1>14. Queue' = [Queue EXCEPT ![c] = u]
    <2>0. g_async_chan'[c] = e
      BY <1>2, <1>4
    <2>1. Contents(g_async_chan[c])' = u
      BY <1>12, <2>0 DEF Contents
    <2> QED BY <1>2, <1>3, <1>4, <1>13, <2>1 DEF Queue
  <1>15. Queue[c] = q
    BY <1>2, <1>3 DEF Queue, q
  <1>16. Opened' = Opened /\ c \in Opened
    BY <1>2, <1>3, <1>4 DEF Opened
  <1> QED BY <1>4, <1>7, <1>8, <1>14, <1>15, <1>16 DEF Stream!Take, Queue, Opened, u

\* Every step of the driver and its clients is a step of the FIFOs or leaves
\* them alone.
LEMMA StreamNext == IInv /\ [Next]_vars => [Stream!Next]_(Stream!vars)
  <1> SUFFICES ASSUME IInv, [Next]_vars
               PROVE  Stream!Next \/ UNCHANGED Stream!vars
    OBVIOUS
  <1>1. ASSUME NEW d \in Channel, NEW r \in Packets, fill_async(d, r)
        PROVE  Stream!Next
    <2>1. Stream!Put(d, r)
      BY <1>1, StreamPut
    <2>2. r \in Stream!Packets
      BY DEF Packets, Stream!Packets
    <2>3. \E c \in Channel, p \in Stream!Packets : Stream!Put(c, p)
      BY <2>1, <2>2
    <2> QED BY <2>3 DEF Stream!Next
  <1>2. ASSUME NEW e \in Endp, usbAsyncRegister(e)
        PROVE  Stream!Next
    <2>1. PICK c \in Channel : RegisterOn(c, e)
      BY <1>2 DEF usbAsyncRegister, RegisterAlloc
    <2> QED BY <2>1, StreamOpen DEF Stream!Next
  <1>3. ASSUME NEW t \in Thread, NEW c \in Channel, usbAsyncUnregister(t, c)
        PROVE  Stream!Next
    BY <1>3, StreamClose DEF Stream!Next
  <1>4. ASSUME NEW t \in Thread, FlushDo(t)
        PROVE  Stream!Next
    <2>1. PICK c \in Channel : c = frame[t].chan
      BY DEF IInv, TypeOK, Frame
    <2> QED BY <1>4, <2>1, StreamClear DEF Stream!Next
  <1>5. ASSUME NEW u \in Thread, ReadCopy(u)
        PROVE  Stream!Next
    <2>1. PICK d \in Channel, n \in 1..MaxLen : d = frame[u].chan /\ n = frame[u].len
      BY DEF IInv, TypeOK, Frame
    <2>2. Stream!Take(u, d, n)
      BY <1>5, <2>1, StreamTake
    <2>3. \E t \in Thread, c \in Channel, len \in 1..MaxLen : Stream!Take(t, c, len)
      BY <2>2
    <2> QED BY <2>3 DEF Stream!Next
  <1>6. ASSUME NEW t \in Thread,
               \/ ReadTimeout(t) \/ Fault(t)
               \/ \E c \in Channel : FlushCall(t, c)
               \/ \E c \in Channel, n \in 1..MaxLen, timed \in BOOLEAN : ReadCall(t, c, n, timed)
        PROVE  UNCHANGED Stream!vars
    BY <1>6, StreamStutter DEF ReadTimeout, Fault, FlushCall, ReadCall
  <1>7. CASE UNCHANGED vars
    BY <1>7, StreamStutter DEF vars, ring
  <1> QED BY <1>1, <1>2, <1>3, <1>4, <1>5, <1>6, <1>7 DEF Next

\* The ring buffers, the event flag and the readers, whose check and copy are
\* separate steps, implement one bounded FIFO per channel, for every number of
\* channels, endpoints and threads and every size of buffer, packet and read.
THEOREM ImplementsStream == Spec => IsStream
  <1>1. Spec => Stream!Init /\ [][Stream!Next]_(Stream!vars)
    BY StreamInit, StreamNext, IInvAlways, PTL DEF Spec
  <1> QED BY <1>1 DEF IsStream, Stream!Spec
=============================================================================

---------------------------- MODULE UsbLinkProof ----------------------------
(***************************************************************************)
(* Proofs about UsbLink for any number of client threads, whatever the     *)
(* controller does with requests without a cable and however fast the bus  *)
(* is (Framed needs a bus slower than the PSP).                            *)
(***************************************************************************)
EXTENDS UsbLink, SequenceTheorems, FiniteSetTheorems, TLAPS

\* What is left of a script: a rest of one of them, or the data of an answer.
Todos ==
  { <<>>, <<W("put"), W("data"), R("resp")>>, <<W("data"), R("resp")>>,
    <<R("resp")>>, <<R("rdata")>>, <<W("get"), R("resp")>>, <<W("async")>>,
    <<W("bulk"), W("bulkdata")>>, <<W("bulkdata")>>,
    <<W("bulk"), [dir |-> "misaligned"]>>, <<[dir |-> "misaligned"]>>,
    <<W("hello"), R("resp")>>, <<R("magic")>> }

Place == {"wait", "handle", "idle", "enter", "sema", "run", "BULKIN", "BULKOUT",
          "woken", "locked"}
Job == [op : CallOps \cup {"hello", "attach", NULL}, seq : 0..1, todo : Todos,
        ok : BOOLEAN, reply : Msg \cup {NULL}]
InHandler == {"data", "bulk", "reply", "rdata"}

\* The type of every variable.
LinkType ==
  /\ g_mainevent \subseteq WakeBits \cup {"CONNECT"}
  /\ g_transevent \subseteq {"BULKIN", "BULKOUT"}
  /\ g_mainsema \in Seq(Thread)
  /\ g_connected \in BOOLEAN
  /\ g_bulkin_req \in Req /\ g_bulkout_req \in Req /\ g_async_req \in Req
  /\ pc \in [Thread -> Place]
  /\ job \in [Thread -> Job]
  /\ result \subseteq WakeBits
  /\ attached \in BOOLEAN
  /\ pulls \in 0..MaxPull
  /\ pcst \in {"search", "magic", "loop"} \cup InHandler
  /\ g_hDev \in BOOLEAN
  /\ hand \in Msg \cup {NULL}
  /\ g_bulkin_req.st = "pend" => g_bulkin_req.msg \in Msg
  /\ hand # NULL <=> pcst \in InHandler

\* t is inside of an exchange or has locked the bus.
Busy(t) == /\ pc[t] \in {"run", "BULKIN", "BULKOUT", "woken", "locked"}
           /\ job[t].op # "attach"

\* g_mainsema: the thread at its head is the one that is busy, the others sleep.
SemaOK ==
  /\ \A i, j \in 1..Len(g_mainsema) : g_mainsema[i] = g_mainsema[j] => i = j
  /\ \A t \in Thread : Busy(t) <=> g_mainsema # <<>> /\ g_mainsema[1] = t
  /\ \A t \in Thread : pc[t] = "sema" <=> \E i \in 2..Len(g_mainsema) : g_mainsema[i] = t

\* Where usb_thread and the clients can be in which job.
PlacesOK ==
  /\ job[Usb].op \in {NULL, "attach", "hello"}
  /\ job[Usb].op = NULL <=> pc[Usb] \in {"wait", "handle"}
  /\ job[Usb].op = "attach" =>
       /\ pc[Usb] \in {"run", "BULKOUT", "woken"}
       /\ job[Usb].todo \in {<<>>, <<R("magic")>>}
  /\ pc[Usb] # "idle"
  /\ pc[Usb] # "handle" => result = {}
  /\ g_connected => pc[Usb] \in {"wait", "handle"}
  /\ \A t \in Client :
       /\ job[t].op \in CallOps \cup {NULL}
       /\ pc[t] \notin {"wait", "handle"}
       /\ job[t].op = NULL <=> pc[t] = "idle"

\* A thread waits for the end of the transfer that comes next in its script,
\* and has done nothing of it before it holds the semaphore.
ScriptsOK ==
  \A t \in Thread :
    /\ pc[t] \in {"BULKIN", "BULKOUT", "woken"} => job[t].todo # <<>>
    /\ pc[t] = "BULKIN" => Head(job[t].todo).dir = "w"
    /\ pc[t] = "BULKOUT" => Head(job[t].todo).dir = "r"
    /\ pc[t] = "woken" => Head(job[t].todo).dir \in {"w", "r"}
    /\ pc[t] \in {"enter", "sema"} => job[t].todo = Script(job[t].op)

ThreadInv == LinkType /\ SemaOK /\ PlacesOK /\ ScriptsOK

-----------------------------------------------------------------------------
\* No attach or detach that usb_thread has not handled.
NoNews == {"ATTACH", "DETACH"} \cap (g_mainevent \cup result) = {}

\* The PC has sent the magic on the handle it has open.
Serving == attached /\ g_hDev /\ pcst \notin {"search", "magic"}

\* usb_thread has heard from the PC in the session it handles.
Heard ==
  \/ g_connected
  \/ job[Usb].op = "hello"
  \/ /\ job[Usb].op = "attach"
     /\ \/ job[Usb].todo = <<>> /\ job[Usb].ok
        \/ pc[Usb] \in {"BULKOUT", "woken"} /\ g_bulkout_req.ok

SessionInv ==
  /\ g_hDev => attached
  /\ NoNews /\ Heard => Serving
  /\ NoNews /\ g_connected =>
       \/ g_async_req.st = "pend"
       \/ "ASYNC" \in g_mainevent \cup result /\ g_async_req.ok

-----------------------------------------------------------------------------
\* The PC has taken a transfer of the exchange that t still goes on with.
Begun(t) ==
  /\ job[t].todo # <<>>
  /\ \/ job[t].todo # Script(job[t].op)
     \/ pc[t] = "woken" /\ g_bulkin_req.ok

\* A message that belongs to the call t makes now.
Own(m, t) == m.who = t /\ m.seq = job[t].seq

\* What the PC can receive is what the busy thread writes.
OnBus == g_bulkin_req.st = "pend" => \E t \in Thread :
  /\ Busy(t) /\ pc[t] = "BULKIN"
  /\ g_bulkin_req.msg = M(Head(job[t].todo).kind, t, job[t].seq)

\* The PC works on the command of the busy thread, once it has taken it.
HandOf(t) == Busy(t) /\ Begun(t) /\ g_hDev /\ hand # NULL => Own(hand, t)

\* What the busy thread has read is the magic or its own answer.
AnswerOf(t) ==
  /\ Busy(t) /\ pc[t] \in {"BULKOUT", "woken"} /\ Head(job[t].todo).dir = "r"
  /\ g_bulkout_req.ok /\ g_bulkout_req.msg # NULL /\ g_bulkout_req.msg.kind # "magic"
  => g_bulkout_req.msg.kind \in {"resp", "rdata"} /\ Own(g_bulkout_req.msg, t)

\* Only the handshake reads a magic.
MagicRead == \A t \in Thread : job[t].todo = <<R("magic")>> => job[t].op = "attach"

PairInv ==
  /\ Paired
  /\ OnBus
  /\ MagicRead
  /\ \A t \in Thread : HandOf(t)
  /\ \A t \in Thread : AnswerOf(t)

-----------------------------------------------------------------------------
\* The two transfers that the PC takes in the state st and just before it.
First(st)  == IF st = "data" THEN "put" ELSE "bulk"
Second(st) == IF st = "data" THEN "data" ELSE "bulkdata"

\* t is between the two writes of a put or a bulk write, which the PC takes in
\* the state st: the first is through, or the second is next.
Expects(t, st) ==
  /\ Busy(t) /\ job[t].todo # <<>> /\ Head(job[t].todo).dir = "w"
  /\ \/ pc[t] = "woken" /\ Head(job[t].todo).kind = First(st) /\ g_bulkin_req.ok
     \/ pc[t] \in {"run", "BULKIN"} /\ Head(job[t].todo).kind = Second(st)

Odd == {<<W("bulk"), [dir |-> "misaligned"]>>, <<[dir |-> "misaligned"]>>}

FrameInv ==
  \* No bulk write is cut short after its header, and a lock has no transfers.
  /\ \A t \in Thread : /\ job[t].todo \notin Odd
                       /\ job[t].op = "lock" => job[t].todo = <<>>
  \* What the PC expects is what the thread of its command expects.
  /\ g_hDev /\ pcst \in {"data", "bulk"} =>
       /\ Expects(hand.who, pcst)
       /\ pc[hand.who] = "BULKIN" => g_bulkin_req.st = "pend"
  /\ \A t \in Thread : \A st \in {"data", "bulk"} :
       Expects(t, st) => g_hDev /\ pcst = st

-----------------------------------------------------------------------------
\* Every script is one of the rests.
LEMMA ScriptTodos ==
  ASSUME NEW op \in CallOps \cup {"hello", "attach"}
  PROVE  Script(op) \in Todos
  <1>1. CASE op \in {"put", "get", "async"}
    BY <1>1 DEF Script, Todos
  <1>2. CASE op \in {"bulk", "bulk16", "lock"}
    BY <1>2 DEF Script, Todos
  <1>3. CASE op \in {"hello", "attach"}
    BY <1>3 DEF Script, Todos
  <1> QED BY <1>1, <1>2, <1>3 DEF CallOps

LEMMA Tuples ==
  ASSUME NEW a, NEW b, NEW c
  PROVE  /\ Head(<<a>>) = a /\ Tail(<<a>>) = <<>>
         /\ Head(<<a, b>>) = a /\ Tail(<<a, b>>) = <<b>>
         /\ Head(<<a, b, c>>) = a /\ Tail(<<a, b, c>>) = <<b, c>>
  OBVIOUS

\* The next transfer of a rest, and the rest after it.
LEMMA TodosNext ==
  ASSUME NEW s \in Todos, s # <<>>
  PROVE  /\ Tail(s) \in Todos
         /\ Head(s).dir \in {"w", "r", "misaligned"}
         /\ Head(s).dir = "w" => Head(s).kind \in
              {"put", "data", "get", "async", "bulk", "bulkdata", "hello"}
  <1> DEFINE mis == [dir |-> "misaligned"]
  <1>0. /\ \A k : W(k).dir = "w" /\ W(k).kind = k
        /\ \A k : R(k).dir = "r"
        /\ mis.dir = "misaligned"
    BY DEF W, R
  <1> HIDE DEF mis
  <1>1. CASE s = <<W("put"), W("data"), R("resp")>>
    <2>1. Head(s) = W("put") /\ Tail(s) = <<W("data"), R("resp")>>
      BY <1>1, Tuples
    <2> QED BY <1>0, <2>1 DEF Todos
  <1>2. CASE s = <<W("data"), R("resp")>>
    <2>1. Head(s) = W("data") /\ Tail(s) = <<R("resp")>>
      BY <1>2, Tuples
    <2> QED BY <1>0, <2>1 DEF Todos
  <1>3. CASE s = <<W("get"), R("resp")>>
    <2>1. Head(s) = W("get") /\ Tail(s) = <<R("resp")>>
      BY <1>3, Tuples
    <2> QED BY <1>0, <2>1 DEF Todos
  <1>4. CASE s = <<W("hello"), R("resp")>>
    <2>1. Head(s) = W("hello") /\ Tail(s) = <<R("resp")>>
      BY <1>4, Tuples
    <2> QED BY <1>0, <2>1 DEF Todos
  <1>5. CASE s = <<W("bulk"), W("bulkdata")>>
    <2>1. Head(s) = W("bulk") /\ Tail(s) = <<W("bulkdata")>>
      BY <1>5, Tuples
    <2> QED BY <1>0, <2>1 DEF Todos
  <1>6. CASE s = <<W("bulk"), mis>>
    <2>1. Head(s) = W("bulk") /\ Tail(s) = <<mis>>
      BY <1>6, Tuples
    <2> QED BY <1>0, <2>1 DEF Todos, mis
  <1>7. CASE \E e \in {R("resp"), R("rdata"), R("magic"), mis, W("async"), W("bulkdata")} :
               s = <<e>>
    <2>1. PICK e \in {R("resp"), R("rdata"), R("magic"), mis, W("async"), W("bulkdata")} :
               s = <<e>>
      BY <1>7
    <2>2. Head(s) = e /\ Tail(s) = <<>>
      BY <2>1, Tuples
    <2> QED BY <1>0, <2>1, <2>2 DEF Todos
  <1> QED BY <1>1, <1>2, <1>3, <1>4, <1>5, <1>6, <1>7 DEF Todos, mis

-----------------------------------------------------------------------------
(* Threads, jobs and the semaphore.                                        *)

\* Two threads are never inside of an exchange at the same time.
LEMMA OneBusy ==
  ASSUME SemaOK, NEW t \in Thread, NEW u \in Thread, Busy(t), Busy(u)
  PROVE  t = u
  BY DEF SemaOK

LEMMA InitThread == Init => ThreadInv
  <1> SUFFICES ASSUME Init PROVE ThreadInv
    OBVIOUS
  <1>1. NoJob \in Job /\ NoJob.op = NULL
    BY DEF NoJob, Job, Todos
  <1>2. LinkType
    <2>1. FreeReq \in Req /\ FreeReq.st = "free"
      BY DEF FreeReq, Req
    <2>2. <<>> \in Seq(Thread)
      BY EmptySeq
    <2>3. pc \in [Thread -> Place] /\ job \in [Thread -> Job]
      BY <1>1 DEF Init, Place
    <2>4. pulls \in 0..MaxPull
      BY LinkAssumption DEF Init
    <2> QED BY <2>1, <2>2, <2>3, <2>4 DEF Init, LinkType, InHandler
  <1>3. SemaOK
    <2>1. Len(g_mainsema) = 0
      BY EmptySeq DEF Init
    <2> QED BY <2>1 DEF Init, SemaOK, Busy
  <1>4. PlacesOK
    BY <1>1, LinkAssumption, NullAssumption DEF Init, PlacesOK, Thread
  <1>5. ScriptsOK
    BY DEF Init, ScriptsOK
  <1> QED BY <1>2, <1>3, <1>4, <1>5 DEF ThreadInv

\* sceKernelSetEventFlag(g_transevent) only wakes threads that wait for one of
\* its bits.
LEMMA WakeEffect ==
  ASSUME LinkType, NEW bits \in SUBSET {"BULKIN", "BULKOUT"}, SetTransevent(bits)
  PROVE  /\ pc' \in [Thread -> Place]
         /\ g_transevent' \subseteq {"BULKIN", "BULKOUT"}
         /\ \A t \in Thread : pc'[t] = pc[t] \/ (pc[t] \in bits /\ pc'[t] = "woken")
  <1>1. PICK S \in SUBSET UNION {{t \in Thread : pc[t] = b} : b \in bits} :
          /\ pc' = [t \in Thread |-> IF t \in S THEN "woken" ELSE pc[t]]
          /\ g_transevent' = g_transevent \cup {b \in bits : {t \in Thread : pc[t] = b} = {}}
    BY DEF SetTransevent
  <1>2. \A t \in S : t \in Thread /\ pc[t] \in bits
    OBVIOUS
  <1> QED BY <1>1, <1>2 DEF LinkType, Place

\* A step of the bus at most wakes threads that wait for a transfer.
LEMMA WokenThreads ==
  ASSUME ThreadInv, UNCHANGED psp,
         \A t \in Thread : \/ pc'[t] = pc[t]
                           \/ pc[t] \in {"BULKIN", "BULKOUT"} /\ pc'[t] = "woken"
  PROVE  /\ \A t \in Thread : Busy(t)' <=> Busy(t)
         /\ SemaOK' /\ PlacesOK' /\ ScriptsOK'
  <1>0. SemaOK /\ PlacesOK /\ ScriptsOK /\ Usb \in Thread /\ Client \subseteq Thread
    BY DEF ThreadInv, Thread
  <1>1. UNCHANGED <<g_mainsema, g_connected, job, result>>
    BY DEF psp
  <1>2. \A t \in Thread : Busy(t)' <=> Busy(t)
    BY <1>1 DEF Busy
  <1>3. SemaOK'
    BY <1>0, <1>1, <1>2 DEF SemaOK
  <1>4. PlacesOK'
    BY <1>0, <1>1 DEF PlacesOK
  <1>5. ScriptsOK'
    BY <1>0, <1>1 DEF ScriptsOK
  <1> QED BY <1>2, <1>3, <1>4, <1>5

\* The threads after sceKernelSignalSema: the busy thread t has gone on to p,
\* and the one that waited longest, if any, is busy now.
LEMMA SignalEffect ==
  ASSUME ThreadInv, NEW t \in Thread, Busy(t), NEW x \in {"idle", "handle"},
         SignalSema([pc EXCEPT ![t] = x]),
         \A u \in Thread \ {t} : job'[u] = job[u]
  PROVE  /\ g_mainsema' \in Seq(Thread)
         /\ pc' \in [Thread -> Place]
         /\ pc'[t] = x
         /\ \A u \in Thread \ {t} : pc'[u] = pc[u] \/ (pc[u] = "sema" /\ pc'[u] = "run")
         /\ SemaOK'
  <1> DEFINE s == g_mainsema
             s2 == Tail(g_mainsema)
             p == [pc EXCEPT ![t] = x]
  <1>0. /\ s \in Seq(Thread) /\ s # <<>> /\ s[1] = t
        /\ SemaOK /\ PlacesOK
        /\ pc \in [Thread -> Place]
        /\ g_mainsema' = s2
        /\ pc' = IF s2 = <<>> THEN p ELSE [p EXCEPT ![Head(s2)] = "run"]
    BY DEF ThreadInv, LinkType, SemaOK, SignalSema
  <1>1. /\ s2 \in Seq(Thread) /\ Len(s2) = Len(s) - 1 /\ Len(s) \in Nat /\ Len(s) >= 1
        /\ \A i \in 1..Len(s2) : s2[i] = s[i + 1]
    BY <1>0, HeadTailProperties, LenProperties, EmptySeq
  <1>2. s2 # <<>> => /\ Len(s2) >= 1 /\ Head(s2) = s[2] /\ s2[1] = s[2]
                     /\ s[2] \in Thread /\ pc[s[2]] = "sema" /\ s[2] # t
    <2> SUFFICES ASSUME s2 # <<>>
                 PROVE  /\ Len(s2) >= 1 /\ Head(s2) = s[2] /\ s2[1] = s[2]
                        /\ s[2] \in Thread /\ pc[s[2]] = "sema" /\ s[2] # t
      OBVIOUS
    <2>1. Len(s2) \in Nat /\ Len(s2) >= 1
      BY <1>1, EmptySeq
    <2>2. Head(s2) = s2[1] /\ s2[1] = s[2]
      BY <1>1, <2>1
    <2>3. s[2] \in Thread
      BY <1>0, <1>1, <2>1, ElementOfSeq
    <2>4. 2 \in 2..Len(s) /\ 1 \in 1..Len(s) /\ 2 \in 1..Len(s)
      BY <1>1, <2>1
    <2> QED BY <1>0, <2>1, <2>2, <2>3, <2>4 DEF SemaOK
  <1> HIDE DEF s2, s
  <1>3. /\ pc' \in [Thread -> Place]
        /\ pc'[t] = x
        /\ \A u \in Thread \ {t} : pc'[u] = IF s2 # <<>> /\ u = s[2] THEN "run" ELSE pc[u]
    BY <1>0, <1>2 DEF Place
  <1>4. \A u \in Thread \ {t} : pc[u] = "sema" => job[u].op # "attach"
    BY <1>0, LinkAssumption, NullAssumption DEF PlacesOK, Thread, CallOps
  <1>5. \A u \in Thread : Busy(u)' <=> s2 # <<>> /\ s2[1] = u
    <2> TAKE u \in Thread
    <2>1. CASE u = t
      BY <1>2, <1>3, <2>1 DEF Busy
    <2>2. CASE u # t
      <3>1. ~Busy(u)
        BY <1>0, <2>2, OneBusy
      <3>2. job'[u] = job[u]
        BY <2>2
      <3>3. CASE s2 # <<>> /\ u = s[2]
        BY <1>2, <1>3, <1>4, <2>2, <3>2, <3>3 DEF Busy
      <3>4. CASE ~(s2 # <<>> /\ u = s[2])
        BY <1>2, <1>3, <2>2, <3>1, <3>2, <3>4 DEF Busy
      <3> QED BY <3>3, <3>4
    <2> QED BY <2>1, <2>2
  <1>6. \A i, j \in 1..Len(s2) : s2[i] = s2[j] => i = j
    <2> SUFFICES ASSUME NEW i \in 1..Len(s2), NEW j \in 1..Len(s2), s2[i] = s2[j]
                 PROVE  i = j
      OBVIOUS
    <2>1. i + 1 \in 1..Len(s) /\ j + 1 \in 1..Len(s) /\ s[i + 1] = s[j + 1]
      BY <1>1
    <2>2. i + 1 = j + 1
      BY <1>0, <2>1 DEF SemaOK, s
    <2> QED BY <2>2
  <1>7. \A u \in Thread : pc'[u] = "sema" <=> \E i \in 2..Len(s2) : s2[i] = u
    <2> TAKE u \in Thread
    <2>1. pc[u] = "sema" <=> \E i \in 2..Len(s) : s[i] = u
      BY <1>0 DEF SemaOK, s
    <2>2. \A i, j \in 1..Len(s) : s[i] = s[j] => i = j
      BY <1>0 DEF SemaOK, s
    <2>3. ASSUME pc'[u] = "sema" PROVE \E i \in 2..Len(s2) : s2[i] = u
      <3>1. u # t /\ pc[u] = "sema" /\ (s2 # <<>> => u # s[2])
        BY <1>3, <2>3
      <3>2. PICK i \in 2..Len(s) : s[i] = u
        BY <2>1, <3>1
      <3>3. s2 # <<>>
        BY <1>1, <3>2, EmptySeq
      <3>4. i # 2
        BY <3>1, <3>2, <3>3
      <3>5. i - 1 \in 2..Len(s2) /\ i - 1 \in 1..Len(s2) /\ (i - 1) + 1 = i
        BY <1>1, <3>2, <3>4
      <3>6. s2[i - 1] = u
        BY <1>1, <3>2, <3>5
      <3> QED BY <3>5, <3>6
    <2>4. ASSUME NEW i \in 2..Len(s2), s2[i] = u PROVE pc'[u] = "sema"
      <3>1. /\ i + 1 \in 2..Len(s) /\ i + 1 \in 1..Len(s) /\ i + 1 # 1 /\ i + 1 # 2
            /\ 1 \in 1..Len(s) /\ 2 \in 1..Len(s) /\ i \in 1..Len(s2)
        BY <1>1, <2>4
      <3>2. s[i + 1] = u
        BY <1>1, <2>4, <3>1
      <3>3. pc[u] = "sema"
        BY <2>1, <3>1, <3>2
      <3>4. u # s[1] /\ u # s[2]
        BY <2>2, <3>1, <3>2
      <3> QED BY <1>0, <1>3, <3>3, <3>4 DEF s
    <2> QED BY <2>3, <2>4
  <1>8. SemaOK'
    BY <1>0, <1>5, <1>6, <1>7 DEF SemaOK
  <1> QED BY <1>0, <1>1, <1>2, <1>3, <1>8

\* What a request is after it was submitted, cancelled or completed.
LEMMA RequestTypes ==
  ASSUME LinkType
  PROVE  /\ \A m \in Msg \cup {NULL} :
              /\ Submitted(m) \in Req /\ ~Submitted(m).ok /\ Submitted(m).msg = m
              /\ attached \/ DetachedReq = "queued" => Submitted(m).st = "pend"
              /\ Submitted(m).st # "pend" => Submitted(m).st = "free"
              /\ Completed(m) \in Req /\ Completed(m).st = "done" /\ Completed(m).ok
              /\ Completed(m).msg = m
         /\ \A r \in Req : /\ Cancelled(r) \in Req /\ Cancelled(r).st # "pend"
                           /\ r.st = "pend" => ~Cancelled(r).ok
                           /\ r.st # "pend" => Cancelled(r) = r
  <1>1. NULL \in Msg \cup {NULL}
    OBVIOUS
  <1>2. ASSUME NEW m \in Msg \cup {NULL}
        PROVE  /\ Submitted(m) \in Req /\ ~Submitted(m).ok /\ Submitted(m).msg = m
               /\ attached \/ DetachedReq = "queued" => Submitted(m).st = "pend"
               /\ Submitted(m).st # "pend" => Submitted(m).st = "free"
               /\ Completed(m) \in Req /\ Completed(m).st = "done" /\ Completed(m).ok
               /\ Completed(m).msg = m
    BY DEF Submitted, Completed, Req
  <1>3. ASSUME NEW r \in Req
        PROVE  /\ Cancelled(r) \in Req /\ Cancelled(r).st # "pend"
               /\ r.st = "pend" => ~Cancelled(r).ok
               /\ r.st # "pend" => Cancelled(r) = r
    BY DEF Cancelled, Req
  <1> QED BY <1>2, <1>3

\* The message of a transfer that t writes.
LEMMA WriteMsg ==
  ASSUME LinkType, NEW t \in Thread, job[t].todo # <<>>, Head(job[t].todo).dir = "w"
  PROVE  M(Head(job[t].todo).kind, t, job[t].seq) \in Msg
  <1>1. job[t].todo \in Todos /\ job[t].seq \in 0..1
    BY DEF LinkType, Job
  <1>2. Head(job[t].todo).kind \in
          {"put", "data", "get", "async", "bulk", "bulkdata", "hello"}
    BY <1>1, TodosNext
  <1> QED BY <1>1, <1>2 DEF M, Msg

\* The conjuncts of the invariant, as every step uses them.
LEMMA ThreadParts ==
  ASSUME ThreadInv
  PROVE  /\ LinkType /\ SemaOK /\ PlacesOK /\ ScriptsOK
         /\ Usb \in Thread /\ Client \subseteq Thread /\ Usb \notin Client
         /\ pc \in [Thread -> Place] /\ job \in [Thread -> Job]
         /\ \A t \in Thread : t \in Client \/ t = Usb
         /\ NULL \notin CallOps \cup {"hello", "attach"} \cup Msg
         /\ \A t \in Client : job[t].op # "attach" /\ job[t].op # "hello"
  <1>1. "attach" \notin CallOps /\ "hello" \notin CallOps
    BY DEF CallOps
  <1> QED BY <1>1, LinkAssumption, NullAssumption DEF ThreadInv, LinkType, PlacesOK, Thread

\* The start of a write, by a thread that holds the semaphore.
LEMMA SubmitWriteThread ==
  ASSUME ThreadInv, NEW t \in Thread, SubmitWrite(t)
  PROVE  ThreadInv' /\ Busy(t) /\ (\A u \in Thread : Busy(u)' <=> Busy(u))
  <1> DEFINE m == M(Head(job[t].todo).kind, t, job[t].seq)
  <1>0. /\ pc[t] = "run" /\ job[t].todo # <<>> /\ Head(job[t].todo).dir = "w"
        /\ g_bulkin_req' = Submitted(m)
        /\ g_transevent' = g_transevent \ {"BULKIN"}
        /\ pc' = [pc EXCEPT ![t] = "BULKIN"]
        /\ UNCHANGED <<g_mainevent, g_bulkout_req, g_async_req, g_mainsema, g_connected,
                       job, result, attached, pulls, pcst, g_hDev, hand>>
    BY DEF SubmitWrite, psp, bus, host
  <1>1. m \in Msg
    BY <1>0, ThreadParts, WriteMsg
  <1> HIDE DEF m
  <1>2. job[t].op # "attach"
    <2>1. R("magic").dir # "w"
      BY DEF R
    <2>2. Head(<<R("magic")>>) = R("magic")
      BY Tuples
    <2> QED BY <1>0, <2>1, <2>2, ThreadParts DEF PlacesOK
  <1>3. Busy(t)
    BY <1>0, <1>2 DEF Busy
  <1>4. LinkType'
    BY <1>0, <1>1, ThreadParts, RequestTypes DEF LinkType, Place
  <1>5. SemaOK' /\ (\A u \in Thread : Busy(u)' <=> Busy(u))
    <2>1. /\ \A u \in Thread : Busy(u)' <=> Busy(u)
          /\ \A u \in Thread : pc'[u] = "sema" <=> pc[u] = "sema"
      BY <1>0, <1>3, ThreadParts DEF Busy
    <2> QED BY <1>0, <2>1, ThreadParts DEF SemaOK
  <1>6. PlacesOK'
    BY <1>0, <1>2, ThreadParts DEF PlacesOK
  <1>7. ScriptsOK'
    BY <1>0, ThreadParts DEF ScriptsOK
  <1> QED BY <1>3, <1>4, <1>5, <1>6, <1>7 DEF ThreadInv

\* The start of a read; a refused one ends the exchange.
LEMMA SubmitReadThread ==
  ASSUME ThreadInv, NEW t \in Thread, SubmitRead(t)
  PROVE  ThreadInv' /\ (\A u \in Thread : Busy(u)' <=> Busy(u))
  <1>0. /\ pc[t] = "run" /\ job[t].todo # <<>> /\ Head(job[t].todo).dir = "r"
        /\ g_bulkout_req' = Submitted(NULL)
        /\ g_transevent' = g_transevent \ {"BULKOUT"}
        /\ UNCHANGED <<g_mainevent, g_bulkin_req, g_async_req, g_mainsema, g_connected,
                       result, attached, pulls, pcst, g_hDev, hand>>
    BY DEF SubmitRead, bus, host
  <1>1. CASE pc' = [pc EXCEPT ![t] = "BULKOUT"] /\ UNCHANGED job
    <2>1. LinkType'
      BY <1>0, <1>1, ThreadParts, RequestTypes DEF LinkType, Place
    <2>2. /\ \A u \in Thread : Busy(u)' <=> Busy(u)
          /\ \A u \in Thread : pc'[u] = "sema" <=> pc[u] = "sema"
      BY <1>0, <1>1, ThreadParts DEF Busy
    <2>3. SemaOK'
      BY <1>0, <2>2, ThreadParts DEF SemaOK
    <2>4. PlacesOK'
      BY <1>0, <1>1, ThreadParts DEF PlacesOK
    <2>5. ScriptsOK'
      BY <1>0, <1>1, ThreadParts DEF ScriptsOK
    <2> QED BY <2>1, <2>2, <2>3, <2>4, <2>5 DEF ThreadInv
  <1>2. CASE job' = [job EXCEPT ![t].ok = FALSE, ![t].todo = <<>>] /\ UNCHANGED pc
    <2>0. /\ job' \in [Thread -> Job]
          /\ \A u \in Thread \ {t} : job'[u] = job[u]
          /\ job'[t].todo = <<>> /\ ~job'[t].ok
          /\ job'[t].op = job[t].op
      BY <1>2, ThreadParts DEF Job, Todos
    <2>1. LinkType'
      BY <1>0, <1>2, <2>0, ThreadParts, RequestTypes DEF LinkType
    <2>2. \A u \in Thread : Busy(u)' <=> Busy(u)
      BY <1>2, <2>0 DEF Busy
    <2>3. SemaOK'
      BY <1>0, <1>2, <2>2, ThreadParts DEF SemaOK
    <2>4. PlacesOK'
      BY <1>0, <1>2, <2>0, ThreadParts DEF PlacesOK
    <2>5. ScriptsOK'
      BY <1>0, <1>2, <2>0, ThreadParts DEF ScriptsOK
    <2> QED BY <2>1, <2>2, <2>3, <2>4, <2>5 DEF ThreadInv
  <1> QED BY <1>1, <1>2 DEF SubmitRead

\* A step of a thread in its exchange that leaves only the job different.
LEMMA JobStep ==
  ASSUME ThreadInv, NEW t \in Thread, pc[t] \in {"run", "woken"},
         pc' = [pc EXCEPT ![t] = "run"],
         job' \in [Thread -> Job],
         \A u \in Thread \ {t} : job'[u] = job[u],
         job'[t].op = job[t].op,
         job[t].op = "attach" => job'[t].todo \in {<<>>, <<R("magic")>>},
         UNCHANGED <<g_mainevent, g_transevent, g_bulkin_req, g_bulkout_req, g_async_req,
                     g_mainsema, g_connected, result, attached, pulls, pcst, g_hDev, hand>>
  PROVE  ThreadInv' /\ (\A u \in Thread : Busy(u)' <=> Busy(u))
  <1>1. LinkType'
    BY ThreadParts DEF LinkType, Place
  <1>2. /\ \A u \in Thread : Busy(u)' <=> Busy(u)
        /\ \A u \in Thread : pc'[u] = "sema" <=> pc[u] = "sema"
    BY ThreadParts DEF Busy
  <1>3. SemaOK'
    BY <1>2, ThreadParts DEF SemaOK
  <1>4. PlacesOK'
    BY ThreadParts DEF PlacesOK
  <1>5. ScriptsOK'
    BY ThreadParts DEF ScriptsOK
  <1> QED BY <1>1, <1>2, <1>3, <1>4, <1>5 DEF ThreadInv

\* The attach job has no write in it.
LEMMA AttachReads ==
  ASSUME ThreadInv, NEW t \in Thread, job[t].op = "attach", job[t].todo # <<>>
  PROVE  /\ t = Usb /\ job[t].todo = <<R("magic")>>
         /\ Head(job[t].todo) = R("magic") /\ Tail(job[t].todo) = <<>>
         /\ Head(job[t].todo).dir = "r" /\ Head(job[t].todo).kind = "magic"
  <1>1. t = Usb /\ job[t].todo = <<R("magic")>>
    BY ThreadParts DEF PlacesOK
  <1>2. R("magic").dir = "r" /\ R("magic").kind = "magic"
    BY DEF R
  <1> QED BY <1>1, <1>2, Tuples

\* What the end of a write makes of the job.
LEMMA WriteDoneJob ==
  ASSUME ThreadInv, NEW t \in Thread, WriteDone(t)
  PROVE  /\ Busy(t) /\ pc[t] = "woken" /\ job[t].todo # <<>> /\ Head(job[t].todo).dir = "w"
         /\ job' \in [Thread -> Job]
         /\ \A u \in Thread \ {t} : job'[u] = job[u]
         /\ job'[t].op = job[t].op /\ job'[t].seq = job[t].seq /\ job'[t].reply = job[t].reply
         /\ g_bulkin_req.ok => job'[t].todo = Tail(job[t].todo) /\ job'[t].ok = job[t].ok
         /\ ~g_bulkin_req.ok => job'[t].todo = <<>> /\ ~job'[t].ok
  <1>1. pc[t] = "woken" /\ job[t].todo # <<>> /\ Head(job[t].todo).dir = "w"
    BY ThreadParts DEF WriteDone, ScriptsOK
  <1>2. Busy(t)
    BY <1>1, AttachReads DEF Busy
  <1>3. job[t] \in Job /\ Tail(job[t].todo) \in Todos /\ <<>> \in Todos
    <2>1. job[t] \in Job /\ job[t].todo \in Todos
      BY ThreadParts DEF Job
    <2>2. <<>> \in Todos
      BY DEF Todos
    <2> QED BY <1>1, <2>1, <2>2, TodosNext
  <1>4. CASE g_bulkin_req.ok
    <2>1. job' = [job EXCEPT ![t] = [job[t] EXCEPT !.todo = Tail(@)]]
      BY <1>4 DEF WriteDone
    <2> QED BY <1>1, <1>2, <1>3, <1>4, <2>1, ThreadParts DEF Job
  <1>5. CASE ~g_bulkin_req.ok
    <2>1. job' = [job EXCEPT ![t] = [job[t] EXCEPT !.todo = <<>>, !.ok = FALSE]]
      BY <1>5 DEF WriteDone
    <2> QED BY <1>1, <1>2, <1>3, <1>5, <2>1, ThreadParts DEF Job
  <1> QED BY <1>4, <1>5

LEMMA WriteDoneThread ==
  ASSUME ThreadInv, NEW t \in Thread, WriteDone(t)
  PROVE  ThreadInv' /\ (\A u \in Thread : Busy(u)' <=> Busy(u))
  <1>1. /\ pc' = [pc EXCEPT ![t] = "run"]
        /\ UNCHANGED <<g_mainevent, g_transevent, g_bulkin_req, g_bulkout_req, g_async_req,
                       g_mainsema, g_connected, result, attached, pulls, pcst, g_hDev, hand>>
    BY DEF WriteDone, bus, host
  <1>2. job[t].op # "attach"
    BY WriteDoneJob DEF Busy
  <1> QED BY <1>1, <1>2, WriteDoneJob, JobStep

LEMMA WriteMisalignedJob ==
  ASSUME ThreadInv, NEW t \in Thread, WriteMisaligned(t)
  PROVE  /\ Busy(t) /\ pc[t] = "run"
         /\ job' \in [Thread -> Job]
         /\ \A u \in Thread \ {t} : job'[u] = job[u]
         /\ job'[t].op = job[t].op /\ job'[t].seq = job[t].seq /\ job'[t].reply = job[t].reply
         /\ job'[t].todo = <<>> /\ ~job'[t].ok
  <1>1. /\ pc[t] = "run" /\ job[t].todo # <<>> /\ Head(job[t].todo).dir = "misaligned"
        /\ job' = [job EXCEPT ![t].todo = <<>>, ![t].ok = FALSE]
    BY DEF WriteMisaligned
  <1>2. Busy(t)
    BY <1>1, AttachReads DEF Busy
  <1> QED BY <1>1, <1>2, ThreadParts DEF Job, Todos

LEMMA WriteMisalignedThread ==
  ASSUME ThreadInv, NEW t \in Thread, WriteMisaligned(t)
  PROVE  ThreadInv' /\ (\A u \in Thread : Busy(u)' <=> Busy(u))
  <1>1. /\ pc' = [pc EXCEPT ![t] = "run"]
        /\ UNCHANGED <<g_mainevent, g_transevent, g_bulkin_req, g_bulkout_req, g_async_req,
                       g_mainsema, g_connected, result, attached, pulls, pcst, g_hDev, hand>>
    <2>1. pc[t] = "run" /\ UNCHANGED pc
      BY DEF WriteMisaligned
    <2>2. pc' = [pc EXCEPT ![t] = "run"]
      BY <2>1, ThreadParts
    <2> QED BY <2>2 DEF WriteMisaligned, bus, host
  <1>2. job[t].op # "attach"
    BY WriteMisalignedJob DEF Busy
  <1> QED BY <1>1, <1>2, WriteMisalignedJob, JobStep

\* What the end of a read makes of the job: it fails, ignores a magic, or takes
\* the message.
LEMMA ReadDoneJob ==
  ASSUME ThreadInv, NEW t \in Thread, ReadDone(t)
  PROVE  /\ pc[t] = "woken" /\ job[t].todo # <<>> /\ Head(job[t].todo).dir = "r"
         /\ job' \in [Thread -> Job]
         /\ \A u \in Thread \ {t} : job'[u] = job[u]
         /\ job'[t].op = job[t].op /\ job'[t].seq = job[t].seq
         /\ job[t].op = "attach" => job'[t].todo \in {<<>>, <<R("magic")>>}
         /\ \/ job'[t].todo = <<>> /\ ~job'[t].ok /\ job'[t].reply = job[t].reply
            \/ /\ g_bulkout_req.ok /\ g_bulkout_req.msg # NULL
               /\ g_bulkout_req.msg.kind = "magic" /\ Head(job[t].todo).kind # "magic"
               /\ job'[t] = job[t]
            \/ /\ g_bulkout_req.ok /\ g_bulkout_req.msg # NULL
               /\ ~(g_bulkout_req.msg.kind = "magic" /\ Head(job[t].todo).kind # "magic")
               /\ job'[t].reply = g_bulkout_req.msg
               /\ job'[t].todo \in {<<R("rdata")>>, Tail(job[t].todo)}
               /\ job'[t].ok = job[t].ok
  <1> DEFINE m == g_bulkout_req.msg
             j == job[t]
  <1>1. pc[t] = "woken" /\ j.todo # <<>> /\ Head(j.todo).dir = "r"
    BY ThreadParts DEF ReadDone, ScriptsOK
  <1>2. /\ j \in Job /\ Tail(j.todo) \in Todos /\ <<>> \in Todos /\ <<R("rdata")>> \in Todos
        /\ j.todo \in Todos /\ m \in Msg \cup {NULL}
    <2>1. j \in Job /\ j.todo \in Todos
      BY ThreadParts DEF Job
    <2>2. m \in Msg \cup {NULL}
      BY ThreadParts DEF LinkType, Req
    <2>3. <<>> \in Todos /\ <<R("rdata")>> \in Todos
      BY DEF Todos
    <2> QED BY <1>1, <2>1, <2>2, <2>3, TodosNext
  <1>3. CASE ~g_bulkout_req.ok \/ m = NULL
    <2>1. job' = [job EXCEPT ![t] = [job[t] EXCEPT !.todo = <<>>, !.ok = FALSE]]
      BY <1>3 DEF ReadDone
    <2> QED BY <1>1, <1>2, <2>1, ThreadParts DEF Job
  <1>4. CASE g_bulkout_req.ok /\ m # NULL /\ m.kind = "magic" /\ Head(j.todo).kind # "magic"
    <2>1. job' = [job EXCEPT ![t] = job[t]]
      BY <1>4 DEF ReadDone
    <2>2. job' = job
      BY <2>1, ThreadParts
    <2>3. job[t].op = "attach" => job[t].todo = <<R("magic")>>
      BY <1>1, AttachReads
    <2> QED BY <1>1, <1>4, <2>2, <2>3, ThreadParts
  <1>5. CASE g_bulkout_req.ok /\ m # NULL /\ ~(m.kind = "magic" /\ Head(j.todo).kind # "magic")
    <2> DEFINE td == IF Head(j.todo).kind = "resp" /\ m.more THEN <<R("rdata")>> ELSE Tail(j.todo)
    <2>1. job' = [job EXCEPT ![t] = [job[t] EXCEPT !.reply = m, !.todo = td]]
      BY <1>5 DEF ReadDone
    <2>2. td \in {<<R("rdata")>>, Tail(j.todo)}
      OBVIOUS
    <2>3. j.op = "attach" => td = <<>>
      BY <1>1, AttachReads
    <2> HIDE DEF td
    <2>4. /\ job' \in [Thread -> Job]
          /\ \A u \in Thread \ {t} : job'[u] = job[u]
          /\ job'[t].op = j.op /\ job'[t].seq = j.seq
          /\ job'[t].reply = m /\ job'[t].todo = td /\ job'[t].ok = j.ok
      BY <1>2, <1>5, <2>1, <2>2, ThreadParts DEF Job
    <2> QED BY <1>1, <1>5, <2>2, <2>3, <2>4
  <1> QED BY <1>3, <1>4, <1>5

LEMMA ReadDoneThread ==
  ASSUME ThreadInv, NEW t \in Thread, ReadDone(t)
  PROVE  ThreadInv' /\ (\A u \in Thread : Busy(u)' <=> Busy(u))
  <1>1. /\ pc' = [pc EXCEPT ![t] = "run"]
        /\ UNCHANGED <<g_mainevent, g_transevent, g_bulkin_req, g_bulkout_req, g_async_req,
                       g_mainsema, g_connected, result, attached, pulls, pcst, g_hDev, hand>>
    BY DEF ReadDone, bus, host
  <1> QED BY <1>1, ReadDoneJob, JobStep

\* sceKernelWaitSema: t takes the semaphore or goes to the end of the queue.
LEMMA WaitSemaThread ==
  ASSUME ThreadInv, NEW t \in Thread, WaitSema(t)
  PROVE  /\ ThreadInv'
         /\ job[t].todo = Script(job[t].op)
         /\ pc'[t] \in {"run", "sema"}
         /\ \A u \in Thread \ {t} : pc'[u] = pc[u] /\ (Busy(u)' <=> Busy(u))
  <1> DEFINE s == g_mainsema
             n == Len(g_mainsema)
             s2 == Append(g_mainsema, t)
  <1>0. /\ pc[t] = "enter"
        /\ g_mainsema' = s2
        /\ pc' = [pc EXCEPT ![t] = IF s = <<>> THEN "run" ELSE "sema"]
        /\ UNCHANGED <<g_mainevent, g_transevent, g_bulkin_req, g_bulkout_req, g_async_req,
                       g_connected, job, result, attached, pulls, pcst, g_hDev, hand>>
    BY DEF WaitSema, bus, host
  <1>1. /\ s \in Seq(Thread) /\ n \in Nat
        /\ s2 \in Seq(Thread) /\ Len(s2) = n + 1 /\ s2[n + 1] = t
        /\ \A i \in 1..n : s2[i] = s[i] /\ s[i] \in Thread
        /\ s = <<>> <=> n = 0
    <2>1. s \in Seq(Thread)
      BY ThreadParts DEF LinkType
    <2> QED BY <2>1, AppendProperties, LenProperties, ElementOfSeq, EmptySeq
  <1>2. \A i \in 1..n : s[i] # t
    <2> SUFFICES ASSUME NEW i \in 1..n, s[i] = t PROVE FALSE
      OBVIOUS
    <2>1. i = 1 \/ i \in 2..n
      BY <1>1
    <2>2. s # <<>>
      BY <1>1
    <2> QED BY <1>0, <2>1, <2>2, ThreadParts DEF SemaOK, Busy
  <1>3. job[t].op # "attach"
    BY <1>0, ThreadParts DEF PlacesOK
  <1>4. /\ \A u \in Thread \ {t} : pc'[u] = pc[u] /\ (Busy(u)' <=> Busy(u))
        /\ pc'[t] = IF s = <<>> THEN "run" ELSE "sema"
        /\ pc' \in [Thread -> Place]
    BY <1>0, ThreadParts DEF Busy, Place
  <1>5. Busy(t)' <=> s = <<>>
    BY <1>0, <1>3, <1>4 DEF Busy
  <1>6. ~Busy(t) /\ pc[t] # "sema"
    BY <1>0 DEF Busy
  <1> HIDE DEF s, s2, n
  <1>7. LinkType'
    BY <1>0, <1>1, <1>4, ThreadParts DEF LinkType
  <1>8. SemaOK'
    <2>0. s2 # <<>> /\ s2[1] = IF n = 0 THEN t ELSE s[1]
      BY <1>1, EmptySeq
    <2>1. \A i, j \in 1..Len(s2) : s2[i] = s2[j] => i = j
      <3> SUFFICES ASSUME NEW i \in 1..(n + 1), NEW j \in 1..(n + 1), s2[i] = s2[j]
                   PROVE  i = j
        BY <1>1
      <3>1. i \in 1..n \/ i = n + 1
        BY <1>1
      <3>2. j \in 1..n \/ j = n + 1
        BY <1>1
      <3> QED BY <1>1, <1>2, <3>1, <3>2, ThreadParts DEF SemaOK, s, n
    <2>2. \A u \in Thread : Busy(u)' <=> s2[1] = u
      <3> TAKE u \in Thread
      <3>1. CASE u = t
        BY <1>1, <1>2, <1>5, <2>0, <3>1
      <3>2. CASE u # t
        BY <1>1, <1>4, <2>0, <3>2, ThreadParts DEF SemaOK, s, n
      <3> QED BY <3>1, <3>2
    <2>3. \A u \in Thread : pc'[u] = "sema" <=> \E i \in 2..Len(s2) : s2[i] = u
      <3> TAKE u \in Thread
      <3>0. pc[u] = "sema" <=> \E i \in 2..n : s[i] = u
        BY ThreadParts DEF SemaOK, s, n
      <3>1. CASE u = t
        <4>1. s # <<>> => n + 1 \in 2..Len(s2)
          BY <1>1
        <4>2. s = <<>> => 2..Len(s2) = {}
          BY <1>1
        <4> QED BY <1>1, <1>4, <3>1, <4>1, <4>2
      <3>2. CASE u # t
        <4>1. ASSUME NEW i \in 2..Len(s2), s2[i] = u PROVE \E k \in 2..n : s[k] = u
          <5>1. i # n + 1
            BY <1>1, <3>2, <4>1
          <5>2. i \in 2..n /\ i \in 1..n
            BY <1>1, <5>1
          <5> QED BY <1>1, <4>1, <5>2
        <4>2. ASSUME NEW k \in 2..n, s[k] = u PROVE \E i \in 2..Len(s2) : s2[i] = u
          <5>1. k \in 2..Len(s2) /\ k \in 1..n
            BY <1>1
          <5> QED BY <1>1, <4>2, <5>1
        <4> QED BY <1>4, <3>0, <3>2, <4>1, <4>2
      <3> QED BY <3>1, <3>2
    <2> QED BY <1>0, <2>0, <2>1, <2>2, <2>3 DEF SemaOK
  <1>9. PlacesOK'
    BY <1>0, <1>4, ThreadParts DEF PlacesOK
  <1>10. ScriptsOK'
    BY <1>0, <1>4, ThreadParts DEF ScriptsOK
  <1> QED BY <1>0, <1>4, <1>7, <1>8, <1>9, <1>10, ThreadParts DEF ThreadInv, ScriptsOK

\* usbLockBus returns: the client stays busy.
LEMMA LockBusThread ==
  ASSUME ThreadInv, NEW t \in Thread, LockBus(t)
  PROVE  ThreadInv' /\ (\A u \in Thread : Busy(u)' <=> Busy(u))
  <1>0. /\ pc[t] = "run" /\ job[t].op = "lock"
        /\ pc' = [pc EXCEPT ![t] = "locked"]
        /\ UNCHANGED <<g_mainevent, g_transevent, g_bulkin_req, g_bulkout_req, g_async_req,
                       g_mainsema, g_connected, job, result, attached, pulls, pcst, g_hDev, hand>>
    BY DEF LockBus, psp, bus, host
  <1>1. t \in Client
    BY <1>0, ThreadParts DEF PlacesOK, CallOps
  <1>2. LinkType'
    BY <1>0, ThreadParts DEF LinkType, Place
  <1>3. /\ \A u \in Thread : Busy(u)' <=> Busy(u)
        /\ \A u \in Thread : pc'[u] = "sema" <=> pc[u] = "sema"
    BY <1>0, ThreadParts DEF Busy
  <1>4. SemaOK'
    BY <1>0, <1>3, ThreadParts DEF SemaOK
  <1>5. PlacesOK'
    BY <1>0, <1>1, ThreadParts DEF PlacesOK
  <1>6. ScriptsOK'
    BY <1>0, ThreadParts DEF ScriptsOK
  <1> QED BY <1>2, <1>3, <1>4, <1>5, <1>6 DEF ThreadInv

\* The end of an exchange, which hands the semaphore on.
LEMMA FinishThread ==
  ASSUME ThreadInv, NEW t \in Thread, Finish(t)
  PROVE  /\ ThreadInv' /\ t \in Client /\ Busy(t) /\ ~Busy(t)'
         /\ \A u \in Thread \ {t} : /\ job'[u] = job[u]
                                    /\ pc'[u] = pc[u] \/ (pc[u] = "sema" /\ pc'[u] = "run")
         /\ pc'[t] = "idle"
         /\ job'[t].op = NULL /\ job'[t].todo = <<>> /\ job'[t].reply = NULL
  <1>0. /\ t # Usb /\ pc[t] \in {"run", "locked"}
        /\ SignalSema([pc EXCEPT ![t] = "idle"])
        /\ job' = [job EXCEPT ![t] = [NoJob EXCEPT !.seq = job[t].seq]]
        /\ UNCHANGED <<g_mainevent, g_transevent, g_bulkin_req, g_bulkout_req, g_async_req,
                       g_connected, result, attached, pulls, pcst, g_hDev, hand>>
    BY DEF Finish, bus, host
  <1>1. t \in Client /\ Busy(t)
    BY <1>0, ThreadParts DEF Busy
  <1>2. /\ job' \in [Thread -> Job]
        /\ \A u \in Thread \ {t} : job'[u] = job[u]
        /\ job'[t].op = NULL /\ job'[t].todo = <<>> /\ job'[t].reply = NULL
    <2>1. job[t].seq \in 0..1
      BY ThreadParts DEF Job
    <2>2. [NoJob EXCEPT !.seq = job[t].seq] \in Job
      BY <2>1 DEF NoJob, Job, Todos
    <2>3. /\ [NoJob EXCEPT !.seq = job[t].seq].op = NULL
          /\ [NoJob EXCEPT !.seq = job[t].seq].todo = <<>>
          /\ [NoJob EXCEPT !.seq = job[t].seq].reply = NULL
      BY DEF NoJob
    <2> QED BY <1>0, <2>2, <2>3, ThreadParts
  <1>3. /\ g_mainsema' \in Seq(Thread)
        /\ pc' \in [Thread -> Place]
        /\ pc'[t] = "idle"
        /\ \A u \in Thread \ {t} : pc'[u] = pc[u] \/ (pc[u] = "sema" /\ pc'[u] = "run")
        /\ SemaOK'
    BY <1>0, <1>1, <1>2, SignalEffect
  <1>4. LinkType'
    BY <1>0, <1>2, <1>3, ThreadParts DEF LinkType
  <1>5. PlacesOK'
    <2>1. Usb # t /\ job'[Usb] = job[Usb]
      BY <1>0, <1>2, ThreadParts
    <2>2. pc'[Usb] = pc[Usb] \/ (pc[Usb] = "sema" /\ pc'[Usb] = "run")
      BY <1>3, <2>1, ThreadParts
    <2>3. \A u \in Client : /\ job'[u].op \in CallOps \cup {NULL}
                            /\ pc'[u] \notin {"wait", "handle"}
                            /\ job'[u].op = NULL <=> pc'[u] = "idle"
      BY <1>2, <1>3, ThreadParts DEF PlacesOK
    <2> QED BY <1>0, <2>1, <2>2, <2>3, ThreadParts DEF PlacesOK
  <1>6. ScriptsOK'
    BY <1>2, <1>3, ThreadParts DEF ScriptsOK
  <1>7. ~Busy(t)'
    BY <1>3 DEF Busy
  <1> QED BY <1>1, <1>2, <1>3, <1>4, <1>5, <1>6, <1>7 DEF ThreadInv

\* The entry of a call.
LEMMA CallThread ==
  ASSUME ThreadInv, NEW t \in Client, NEW op \in Ops, Call(t, op)
  PROVE  /\ ThreadInv' /\ t \in Thread /\ ~Busy(t)
         /\ \A u \in Thread : Busy(u)' <=> Busy(u)
         /\ \A u \in Thread \ {t} : job'[u] = job[u] /\ pc'[u] = pc[u]
         /\ job'[t].reply = NULL
  <1> DEFINE j == NewJob(op, 1 - job[t].seq)
  <1>0. /\ pc[t] = "idle"
        /\ job' = [job EXCEPT ![t] = j]
        /\ pc' = [pc EXCEPT ![t] = "enter"]
        /\ UNCHANGED <<g_mainevent, g_transevent, g_bulkin_req, g_bulkout_req, g_async_req,
                       g_mainsema, g_connected, result, attached, pulls, pcst, g_hDev, hand>>
    BY DEF Call, bus, host
  <1>1. op \in CallOps /\ t \in Thread
    BY LinkAssumption DEF Thread
  <1>2. j \in Job
    <2>1. Script(op) \in Todos
      BY <1>1, ScriptTodos
    <2>2. 1 - job[t].seq \in 0..1
      BY <1>1, ThreadParts DEF Job
    <2> QED BY <1>1, <2>1, <2>2 DEF Job, NewJob
  <1>3. j.op = op /\ j.todo = Script(op) /\ j.reply = NULL
    BY DEF NewJob
  <1> HIDE DEF j
  <1>4. LinkType'
    BY <1>0, <1>1, <1>2, ThreadParts DEF LinkType, Place
  <1>5. /\ \A u \in Thread : Busy(u)' <=> Busy(u)
        /\ \A u \in Thread : pc'[u] = "sema" <=> pc[u] = "sema"
    BY <1>0, <1>1, ThreadParts DEF Busy
  <1>6. SemaOK'
    BY <1>0, <1>5, ThreadParts DEF SemaOK
  <1>7. PlacesOK'
    BY <1>0, <1>1, <1>3, ThreadParts DEF PlacesOK
  <1>8. ScriptsOK'
    BY <1>0, <1>1, <1>3, ThreadParts DEF ScriptsOK
  <1>9. ~Busy(t)
    BY <1>0 DEF Busy
  <1> QED BY <1>0, <1>1, <1>3, <1>4, <1>5, <1>6, <1>7, <1>8, <1>9, ThreadParts DEF ThreadInv

\* The steps of usb_thread between its exchanges: no thread becomes busy.
LEMMA UsbIdleThread ==
  ASSUME ThreadInv, UsbWake \/ UsbAsync \/ UsbDetach \/ UsbLoop
  PROVE  /\ ThreadInv' /\ pc[Usb] \in {"wait", "handle"} /\ pc'[Usb] \in {"wait", "handle"}
         /\ \A u \in Thread : Busy(u)' <=> Busy(u)
         /\ \A u \in Thread \ {Usb} : pc'[u] = pc[u]
         /\ UNCHANGED <<job, g_mainsema, g_bulkin_req, g_bulkout_req, bus, host>>
  <1>1. /\ pc[Usb] \in {"wait", "handle"} /\ pc'[Usb] \in {"wait", "handle"}
        /\ pc' \in [Thread -> Place]
        /\ \A u \in Thread \ {Usb} : pc'[u] = pc[u]
        /\ UNCHANGED <<job, g_mainsema, g_transevent, g_bulkin_req, g_bulkout_req,
                       attached, pulls, pcst, g_hDev, hand>>
    <2>1. CASE UsbWake
      BY <2>1, ThreadParts DEF UsbWake, bus, host, Place
    <2>2. CASE UsbAsync
      BY <2>2, ThreadParts DEF UsbAsync, bus, host
    <2>3. CASE UsbDetach
      BY <2>3, ThreadParts DEF UsbDetach, bus, host
    <2>4. CASE UsbLoop
      BY <2>4, ThreadParts DEF UsbLoop, psp, bus, host, Place
    <2> QED BY <2>1, <2>2, <2>3, <2>4
  <1>2. LinkType'
    <2>1. CASE UsbWake
      BY <1>1, <2>1, ThreadParts DEF UsbWake, LinkType
    <2>2. CASE UsbAsync
      <3>1. Submitted(NULL) \in Req
        BY ThreadParts, RequestTypes
      <3> QED BY <1>1, <2>2, <3>1, ThreadParts DEF UsbAsync, LinkType
    <2>3. CASE UsbDetach
      BY <1>1, <2>3, ThreadParts DEF UsbDetach, Disconnect, LinkType
    <2>4. CASE UsbLoop
      BY <1>1, <2>4, ThreadParts DEF UsbLoop, psp, LinkType
    <2> QED BY <2>1, <2>2, <2>3, <2>4
  <1>3. /\ \A u \in Thread : Busy(u)' <=> Busy(u)
        /\ \A u \in Thread : pc'[u] = "sema" <=> pc[u] = "sema"
    BY <1>1, ThreadParts DEF Busy
  <1>4. SemaOK'
    BY <1>1, <1>3, ThreadParts DEF SemaOK
  <1>5. /\ pc'[Usb] # "handle" => result' = {}
        /\ g_connected' => g_connected
    <2>1. CASE UsbWake
      BY <2>1, ThreadParts DEF UsbWake
    <2>2. CASE UsbAsync
      BY <2>2 DEF UsbAsync
    <2>3. CASE UsbDetach
      BY <2>3 DEF UsbDetach, Disconnect
    <2>4. CASE UsbLoop
      BY <2>4, ThreadParts DEF UsbLoop, psp
    <2> QED BY <2>1, <2>2, <2>3, <2>4
  <1>6. PlacesOK'
    BY <1>1, <1>5, ThreadParts DEF PlacesOK
  <1>7. ScriptsOK'
    BY <1>1, ThreadParts DEF ScriptsOK
  <1> QED BY <1>1, <1>2, <1>3, <1>4, <1>6, <1>7 DEF ThreadInv, bus, host

\* A job of usb_thread begins or ends without the semaphore: it goes to x with
\* the job j.
LEMMA UsbJobStep ==
  ASSUME ThreadInv, NEW x \in Place, NEW j \in Job,
         ~Busy(Usb), pc[Usb] # "sema",
         pc' = [pc EXCEPT ![Usb] = x], job' = [job EXCEPT ![Usb] = j],
         result' = {}, g_mainevent' \subseteq g_mainevent, g_connected' \in BOOLEAN,
         UNCHANGED <<g_transevent, g_bulkin_req, g_bulkout_req, g_async_req, g_mainsema,
                     attached, pulls, pcst, g_hDev, hand>>,
         \/ x = "run" /\ j.op = "attach" /\ j.todo = <<R("magic")>> /\ ~g_connected'
         \/ x = "enter" /\ j.op = "hello" /\ j.todo = Script("hello") /\ ~g_connected'
         \/ x = "handle" /\ j.op = NULL
  PROVE  ThreadInv' /\ (\A u \in Thread : Busy(u)' <=> Busy(u))
  <1>1. LinkType'
    BY ThreadParts DEF LinkType
  <1>2. /\ \A u \in Thread : Busy(u)' <=> Busy(u)
        /\ \A u \in Thread : pc'[u] = "sema" <=> pc[u] = "sema"
    BY ThreadParts DEF Busy
  <1>3. SemaOK'
    BY <1>2, ThreadParts DEF SemaOK
  <1>4. PlacesOK'
    BY ThreadParts DEF PlacesOK
  <1>5. ScriptsOK'
    BY ThreadParts DEF ScriptsOK
  <1> QED BY <1>1, <1>2, <1>3, <1>4, <1>5 DEF ThreadInv

LEMMA UsbAttachThread ==
  ASSUME ThreadInv, UsbAttach
  PROVE  /\ ThreadInv' /\ (\A u \in Thread : Busy(u)' <=> Busy(u)) /\ ~Busy(Usb)
         /\ \A u \in Thread \ {Usb} : pc'[u] = pc[u] /\ job'[u] = job[u]
         /\ pc'[Usb] = "run" /\ job'[Usb].op = "attach" /\ job'[Usb].todo # <<>>
         /\ ~g_connected' /\ job'[Usb].reply = NULL
         /\ UNCHANGED <<g_bulkin_req, g_bulkout_req, attached, pulls, pcst, g_hDev, hand>>
  <1> DEFINE j == NewJob("attach", 0)
  <1>0. /\ pc[Usb] = "handle"
        /\ result' = {} /\ ~g_connected' /\ g_connected' \in BOOLEAN
        /\ g_mainevent' \subseteq g_mainevent
        /\ job' = [job EXCEPT ![Usb] = j]
        /\ pc' = [pc EXCEPT ![Usb] = "run"]
        /\ UNCHANGED <<g_transevent, g_bulkin_req, g_bulkout_req, g_async_req, g_mainsema,
                       attached, pulls, pcst, g_hDev, hand>>
    BY DEF UsbAttach, Disconnect, bus, host
  <1>1. j.op = "attach" /\ j.todo = <<R("magic")>> /\ j.reply = NULL /\ j \in Job
    <2>1. Script("attach") = <<R("magic")>>
      BY DEF Script
    <2>2. <<R("magic")>> \in Todos
      BY DEF Todos
    <2> QED BY <2>1, <2>2 DEF Job, NewJob
  <1> HIDE DEF j
  <1>2. ~Busy(Usb) /\ pc[Usb] # "sema" /\ "run" \in Place
    BY <1>0 DEF Busy, Place
  <1>3. ThreadInv' /\ (\A u \in Thread : Busy(u)' <=> Busy(u))
    BY <1>0, <1>1, <1>2, UsbJobStep
  <1>4. <<R("magic")>> # <<>>
    OBVIOUS
  <1> QED BY <1>0, <1>1, <1>2, <1>3, <1>4, ThreadParts

\* The magic is right: the hello exchange follows; or it is not.
LEMMA UsbMagicThread ==
  ASSUME ThreadInv, UsbMagic
  PROVE  /\ ThreadInv' /\ (\A u \in Thread : Busy(u)' <=> Busy(u)) /\ ~Busy(Usb)
         /\ \A u \in Thread \ {Usb} : pc'[u] = pc[u] /\ job'[u] = job[u]
         /\ job[Usb].op = "attach" /\ job[Usb].todo = <<>>
         /\ \/ job[Usb].ok /\ job'[Usb].op = "hello" /\ pc'[Usb] = "enter"
            \/ job'[Usb].op = NULL /\ pc'[Usb] = "handle"
         /\ job'[Usb].reply = NULL
         /\ UNCHANGED <<g_bulkin_req, g_bulkout_req, g_async_req, g_mainevent, g_connected,
                        result, attached, pulls, pcst, g_hDev, hand>>
  <1>0. /\ pc[Usb] = "run" /\ job[Usb].op = "attach" /\ job[Usb].todo = <<>>
        /\ UNCHANGED <<g_mainevent, g_transevent, g_bulkin_req, g_bulkout_req, g_async_req,
                       g_mainsema, g_connected, result, attached, pulls, pcst, g_hDev, hand>>
    BY DEF UsbMagic, bus, host
  <1>1. ~Busy(Usb) /\ pc[Usb] # "sema" /\ result = {} /\ ~g_connected /\ g_connected \in BOOLEAN
    BY <1>0, ThreadParts DEF Busy, PlacesOK, LinkType
  <1>2. CASE job[Usb].ok /\ job[Usb].reply.kind \in {"magic", "resp"}
    <2> DEFINE j == NewJob("hello", 0)
    <2>1. job' = [job EXCEPT ![Usb] = j] /\ pc' = [pc EXCEPT ![Usb] = "enter"]
      BY <1>2 DEF UsbMagic
    <2>3. j \in Job /\ j.op = "hello" /\ j.todo = Script("hello") /\ j.reply = NULL
      BY ScriptTodos DEF Job, NewJob
    <2> HIDE DEF j
    <2>4. "enter" \in Place
      BY DEF Place
    <2>5. ThreadInv' /\ (\A u \in Thread : Busy(u)' <=> Busy(u))
      BY <1>0, <1>1, <2>1, <2>3, <2>4, UsbJobStep
    <2> QED BY <1>0, <1>1, <1>2, <2>1, <2>3, <2>5, ThreadParts
  <1>3. CASE ~(job[Usb].ok /\ job[Usb].reply.kind \in {"magic", "resp"})
    <2>1. job' = [job EXCEPT ![Usb] = NoJob] /\ pc' = [pc EXCEPT ![Usb] = "handle"]
      BY <1>3 DEF UsbMagic
    <2>2. NoJob \in Job /\ NoJob.op = NULL /\ NoJob.reply = NULL
      BY DEF NoJob, Job, Todos
    <2>3. "handle" \in Place
      BY DEF Place
    <2>4. ThreadInv' /\ (\A u \in Thread : Busy(u)' <=> Busy(u))
      BY <1>0, <1>1, <2>1, <2>2, <2>3, UsbJobStep
    <2> QED BY <1>0, <1>1, <2>1, <2>2, <2>4, ThreadParts
  <1> QED BY <1>2, <1>3

\* The end of the hello exchange hands the semaphore on.
LEMMA UsbHelloThread ==
  ASSUME ThreadInv, UsbHello
  PROVE  /\ ThreadInv' /\ Busy(Usb) /\ ~Busy(Usb)'
         /\ \A u \in Thread \ {Usb} : /\ job'[u] = job[u]
                                      /\ pc'[u] = pc[u] \/ (pc[u] = "sema" /\ pc'[u] = "run")
         /\ pc'[Usb] = "handle" /\ job[Usb].op = "hello" /\ job'[Usb].op = NULL
         /\ job'[Usb].reply = NULL /\ job'[Usb].todo = <<>>
         /\ result = {} /\ ~g_connected
         /\ UNCHANGED <<g_bulkin_req, g_bulkout_req, result, attached, pulls, pcst, g_hDev, hand>>
  <1>0. /\ pc[Usb] = "run" /\ job[Usb].op = "hello"
        /\ SignalSema([pc EXCEPT ![Usb] = "handle"])
        /\ job' = [job EXCEPT ![Usb] = NoJob]
        /\ UNCHANGED <<g_transevent, g_bulkin_req, g_bulkout_req, result,
                       attached, pulls, pcst, g_hDev, hand>>
    BY DEF UsbHello, bus, host
  <1>1. Busy(Usb) /\ Usb \in Thread
    BY <1>0, ThreadParts DEF Busy
  <1>2. NoJob \in Job /\ NoJob.op = NULL /\ NoJob.reply = NULL /\ NoJob.todo = <<>>
    BY DEF NoJob, Job, Todos
  <1>3. /\ job' \in [Thread -> Job]
        /\ job'[Usb].op = NULL /\ job'[Usb].reply = NULL /\ job'[Usb].todo = <<>>
        /\ \A u \in Thread \ {Usb} : job'[u] = job[u]
    BY <1>0, <1>2, ThreadParts
  <1>4. /\ g_mainsema' \in Seq(Thread)
        /\ pc' \in [Thread -> Place]
        /\ pc'[Usb] = "handle"
        /\ \A u \in Thread \ {Usb} : pc'[u] = pc[u] \/ (pc[u] = "sema" /\ pc'[u] = "run")
        /\ SemaOK'
    BY <1>0, <1>1, <1>3, SignalEffect
  <1>5. result = {} /\ ~g_connected
    BY <1>0, ThreadParts DEF PlacesOK
  <1>6. /\ g_async_req' \in Req /\ g_connected' \in BOOLEAN
        /\ g_mainevent' \subseteq WakeBits \cup {"CONNECT"}
    <2>0. /\ g_async_req \in Req /\ g_connected \in BOOLEAN
          /\ g_mainevent \subseteq WakeBits \cup {"CONNECT"}
          /\ Submitted(NULL) \in Req
      BY ThreadParts, RequestTypes DEF LinkType
    <2>1. CASE job[Usb].ok
      <3>1. /\ g_async_req' = Submitted(NULL) /\ g_connected' = TRUE
            /\ g_mainevent' = (g_mainevent \ {"ASYNC"}) \cup {"CONNECT"}
        BY <2>1 DEF UsbHello
      <3> QED BY <2>0, <3>1
    <2>2. CASE ~job[Usb].ok
      <3>1. UNCHANGED <<g_async_req, g_connected, g_mainevent>>
        BY <2>2 DEF UsbHello
      <3> QED BY <2>0, <3>1
    <2> QED BY <2>1, <2>2
  <1>7. LinkType'
    BY <1>0, <1>3, <1>4, <1>5, <1>6, ThreadParts DEF LinkType
  <1>8. PlacesOK'
    <2>1. \A u \in Client : /\ job'[u].op \in CallOps \cup {NULL}
                            /\ pc'[u] \notin {"wait", "handle"}
                            /\ job'[u].op = NULL <=> pc'[u] = "idle"
      BY <1>3, <1>4, ThreadParts DEF PlacesOK
    <2> QED BY <1>0, <1>3, <1>4, <1>5, <2>1, ThreadParts DEF PlacesOK
  <1>9. ScriptsOK'
    BY <1>3, <1>4, ThreadParts DEF ScriptsOK
  <1>10. ~Busy(Usb)'
    BY <1>4 DEF Busy
  <1> QED BY <1>0, <1>1, <1>3, <1>4, <1>5, <1>7, <1>8, <1>9, <1>10 DEF ThreadInv

-----------------------------------------------------------------------------
(* The bus, the cable and the PC: they only wake threads.                  *)

\* The threads stay where they are, but for some that wait for one of bits.
OnlyWakes(bits) ==
  /\ UNCHANGED <<g_mainsema, g_connected, job, result>>
  /\ g_transevent' \subseteq {"BULKIN", "BULKOUT"}
  /\ pc' \in [Thread -> Place]
  /\ \A t \in Thread : pc'[t] = pc[t] \/ (pc[t] \in bits /\ pc'[t] = "woken")

LEMMA SendEffect ==
  ASSUME LinkType, NEW m \in Msg, Send(m)
  PROVE  /\ OnlyWakes({"BULKOUT"}) /\ g_hDev /\ g_bulkout_req.st = "pend"
         /\ g_bulkout_req' \in Req /\ g_bulkout_req' = Completed(m)
         /\ UNCHANGED <<g_mainevent, g_bulkin_req, g_async_req, attached, pulls>>
  <1>1. Completed(m) \in Req
    BY RequestTypes
  <1>2. SetTransevent({"BULKOUT"}) /\ UNCHANGED <<g_mainsema, g_connected, job, result>>
    BY DEF Send, psp
  <1>3. OnlyWakes({"BULKOUT"})
    BY <1>2, WakeEffect DEF OnlyWakes
  <1> QED BY <1>1, <1>3 DEF Send, CanSend, bus

LEMMA RecvEffect ==
  ASSUME LinkType, Recv
  PROVE  /\ OnlyWakes({"BULKIN"}) /\ g_hDev /\ g_bulkin_req.st = "pend"
         /\ g_bulkin_req.msg \in Msg
         /\ g_bulkin_req' \in Req /\ g_bulkin_req'.st = "done" /\ g_bulkin_req'.ok
         /\ UNCHANGED <<g_mainevent, g_bulkout_req, g_async_req, attached, pulls>>
  <1>1. Completed(NULL) \in Req /\ Completed(NULL).st = "done" /\ Completed(NULL).ok
    BY RequestTypes
  <1>2. SetTransevent({"BULKIN"}) /\ UNCHANGED <<g_mainsema, g_connected, job, result>>
    BY DEF Recv, psp
  <1>3. OnlyWakes({"BULKIN"})
    BY <1>2, WakeEffect DEF OnlyWakes
  <1>4. g_bulkin_req.msg \in Msg
    BY DEF Recv, CanRecv, LinkType
  <1> QED BY <1>1, <1>3, <1>4 DEF Recv, CanRecv, bus

LEMMA CancelEffect ==
  ASSUME LinkType, NEW events \in SUBSET {"ATTACH", "DETACH"}, CancelAll(events), UNCHANGED psp
  PROVE  /\ OnlyWakes({"BULKIN", "BULKOUT"})
         /\ g_bulkin_req' \in Req /\ g_bulkin_req' = Cancelled(g_bulkin_req)
         /\ g_bulkout_req' \in Req /\ g_bulkout_req' = Cancelled(g_bulkout_req)
         /\ g_async_req' \in Req
         /\ g_mainevent \cup events \subseteq g_mainevent'
         /\ g_mainevent' \subseteq WakeBits \cup {"CONNECT"}
  <1> DEFINE bits == {b \in {"BULKIN", "BULKOUT"} :
       IF b = "BULKIN" THEN g_bulkin_req.st = "pend" ELSE g_bulkout_req.st = "pend"}
  <1>1. SetTransevent(bits) /\ UNCHANGED <<g_mainsema, g_connected, job, result>>
    BY DEF CancelAll, psp
  <1>2. bits \in SUBSET {"BULKIN", "BULKOUT"}
    OBVIOUS
  <1> HIDE DEF bits
  <1>3. OnlyWakes({"BULKIN", "BULKOUT"})
    BY <1>1, <1>2, WakeEffect DEF OnlyWakes
  <1>4. /\ Cancelled(g_bulkin_req) \in Req /\ Cancelled(g_bulkout_req) \in Req
        /\ Cancelled(g_async_req) \in Req
    BY RequestTypes DEF LinkType
  <1>5. /\ g_mainevent' = g_mainevent \cup events
                      \cup (IF g_async_req.st = "pend" THEN {"ASYNC"} ELSE {})
        /\ g_bulkin_req' = Cancelled(g_bulkin_req)
        /\ g_bulkout_req' = Cancelled(g_bulkout_req)
        /\ g_async_req' = Cancelled(g_async_req)
    BY DEF CancelAll
  <1>6. /\ g_mainevent \cup events \subseteq g_mainevent'
        /\ g_mainevent' \subseteq WakeBits \cup {"CONNECT"}
    BY <1>5 DEF LinkType, WakeBits
  <1> QED BY <1>3, <1>4, <1>5, <1>6

LEMMA OnlyWakesThread ==
  ASSUME ThreadInv, OnlyWakes({"BULKIN", "BULKOUT"}), LinkType'
  PROVE  ThreadInv' /\ (\A t \in Thread : Busy(t)' <=> Busy(t))
  <1>1. UNCHANGED psp
    BY DEF OnlyWakes, psp
  <1>2. \A t \in Thread : \/ pc'[t] = pc[t]
                          \/ pc[t] \in {"BULKIN", "BULKOUT"} /\ pc'[t] = "woken"
    BY DEF OnlyWakes
  <1> QED BY <1>1, <1>2, WokenThreads DEF ThreadInv

\* The messages that the PC writes.
LEMMA PcMessages ==
  ASSUME LinkType
  PROVE  /\ M("magic", Usb, 0) \in Msg
         /\ \A h \in Msg : /\ M("rdata", h.who, h.seq) \in Msg
                           /\ \A b \in BOOLEAN : [M("resp", h.who, h.seq) EXCEPT !.more = b] \in Msg
  BY DEF M, Msg, Thread

BusStep == PcStep \/ PcAsync \/ Unplug \/ Plug

\* Every step outside of the PSP.
LEMMA BusThread ==
  ASSUME ThreadInv, BusStep
  PROVE  /\ ThreadInv' /\ OnlyWakes({"BULKIN", "BULKOUT"})
         /\ \A t \in Thread : Busy(t)' <=> Busy(t)
  <1> DEFINE Same == /\ UNCHANGED <<g_mainsema, g_connected, job, result, pc, g_transevent>>
  <1>0. LinkType /\ (Same => OnlyWakes({}))
    BY ThreadParts DEF OnlyWakes, LinkType
  <1>w. \A bits \in SUBSET {"BULKIN", "BULKOUT"} :
          OnlyWakes(bits) => OnlyWakes({"BULKIN", "BULKOUT"})
    BY DEF OnlyWakes
  <1>h. pcst \in InHandler => hand \in Msg
    BY <1>0 DEF LinkType
  <1>1. CASE PcOpen
    <2>1. Same /\ LinkType'
      BY <1>0, <1>1 DEF PcOpen, LinkType, psp, bus, InHandler
    <2> QED BY <1>0, <1>w, <2>1, OnlyWakesThread
  <1>2. CASE PcMagic
    <2>1. Send(M("magic", Usb, 0)) /\ pcst = "magic" /\ pcst' = "loop" /\ UNCHANGED <<g_hDev, hand>>
      BY <1>2 DEF PcMagic
    <2>2. M("magic", Usb, 0) \in Msg
      BY <1>0, PcMessages
    <2>3. OnlyWakes({"BULKOUT"}) /\ LinkType'
      BY <1>0, <2>1, <2>2, SendEffect DEF LinkType, OnlyWakes, InHandler
    <2> QED BY <1>w, <2>3, OnlyWakesThread
  <1>3. CASE PcRead
    <2>1. /\ Recv /\ pcst' = HandlerFor(g_bulkin_req.msg.kind)
          /\ hand' = IF pcst' = "loop" THEN NULL ELSE g_bulkin_req.msg
          /\ UNCHANGED g_hDev
      BY <1>3 DEF PcRead
    <2>2. pcst' \in {"loop"} \cup InHandler /\ "loop" \notin InHandler
      BY <2>1 DEF HandlerFor, InHandler
    <2>3. g_bulkin_req.msg # NULL
      BY <1>0, <2>1, RecvEffect, ThreadParts
    <2>4. OnlyWakes({"BULKIN"}) /\ LinkType'
      BY <1>0, <2>1, <2>2, <2>3, RecvEffect DEF LinkType, OnlyWakes
    <2> QED BY <1>w, <2>4, OnlyWakesThread
  <1>4. CASE PcData
    <2>1. /\ Recv /\ pcst \in InHandler /\ pcst' \in {"reply", "loop"}
          /\ hand' = (IF pcst' \in {"loop", "search"} THEN NULL ELSE hand)
          /\ UNCHANGED g_hDev
      BY <1>4 DEF PcData, InHandler, InHand
    <2>2. OnlyWakes({"BULKIN"}) /\ LinkType'
      BY <1>0, <1>h, <2>1, RecvEffect, ThreadParts DEF LinkType, OnlyWakes, InHandler
    <2> QED BY <1>w, <2>2, OnlyWakesThread
  <1>5. CASE PcReply
    <2>1. PICK more \in (IF hand.kind = "get" THEN BOOLEAN ELSE {FALSE}) :
            /\ Send([M("resp", hand.who, hand.seq) EXCEPT !.more = more])
            /\ pcst' = IF more THEN "rdata" ELSE "loop"
      BY <1>5 DEF PcReply
    <2>2. more \in BOOLEAN
      BY <2>1
    <2>3. [M("resp", hand.who, hand.seq) EXCEPT !.more = more] \in Msg
      BY <1>0, <1>5, <1>h, <2>2, PcMessages DEF PcReply, InHandler
    <2>4. /\ pcst \in InHandler /\ pcst' \in {"rdata", "loop"} /\ UNCHANGED g_hDev
          /\ hand' = (IF pcst' \in {"loop", "search"} THEN NULL ELSE hand)
      BY <1>5, <2>1 DEF PcReply, InHandler, InHand
    <2>5. OnlyWakes({"BULKOUT"}) /\ LinkType'
      BY <1>0, <1>h, <2>1, <2>3, <2>4, SendEffect, ThreadParts DEF LinkType, OnlyWakes, InHandler
    <2> QED BY <1>w, <2>5, OnlyWakesThread
  <1>6. CASE PcReplyData
    <2>1. M("rdata", hand.who, hand.seq) \in Msg
      BY <1>0, <1>6, <1>h, PcMessages DEF PcReplyData, InHandler
    <2>2. /\ Send(M("rdata", hand.who, hand.seq)) /\ pcst' = "loop" /\ UNCHANGED g_hDev
          /\ hand' = NULL
      BY <1>6 DEF PcReplyData, InHand
    <2>3. OnlyWakes({"BULKOUT"}) /\ LinkType'
      BY <1>0, <2>1, <2>2, SendEffect DEF LinkType, OnlyWakes, InHandler
    <2> QED BY <1>w, <2>3, OnlyWakesThread
  <1>7. CASE PcBroken \/ PcTimeout
    <2>1. /\ UNCHANGED <<g_mainevent, g_transevent, g_bulkin_req, g_bulkout_req, g_async_req,
                         pc, g_mainsema, g_connected, job, result, attached, pulls, g_hDev>>
          /\ pcst' \in {"search", "loop"} /\ hand' = NULL
      BY <1>7 DEF PcBroken, PcTimeout, InHand, psp, bus
    <2>2. Same /\ LinkType'
      BY <1>0, <2>1 DEF LinkType, InHandler
    <2> QED BY <1>0, <1>w, <2>2, OnlyWakesThread
  <1>8. CASE PcReset
    <2>1. /\ CancelAll({"DETACH", "ATTACH"}) /\ UNCHANGED psp
          /\ pcst = "magic" /\ pcst' = "search" /\ g_hDev' = FALSE
          /\ UNCHANGED <<attached, pulls, hand>>
      BY <1>8 DEF PcReset, bus
    <2>2. OnlyWakes({"BULKIN", "BULKOUT"}) /\ LinkType'
      <3>1. g_bulkin_req'.st # "pend"
        BY <1>0, <2>1, CancelEffect, RequestTypes DEF LinkType
      <3> QED BY <1>0, <2>1, <3>1, CancelEffect DEF LinkType, OnlyWakes, InHandler
    <2> QED BY <2>2, OnlyWakesThread
  <1>9. CASE PcAsync
    <2>1. Completed(NULL) \in Req
      BY <1>0, RequestTypes
    <2>2. Same /\ LinkType'
      BY <1>0, <1>9, <2>1 DEF PcAsync, LinkType, psp, bus, host, WakeBits
    <2> QED BY <1>0, <1>w, <2>2, OnlyWakesThread
  <1>10. CASE Unplug
    <2>1. /\ CancelAll({"DETACH"}) /\ UNCHANGED psp /\ g_hDev' = FALSE /\ attached' = FALSE
          /\ UNCHANGED <<pcst, hand>> /\ pulls' = pulls + 1 /\ pulls < MaxPull
      BY <1>10 DEF Unplug
    <2>2. pulls' \in 0..MaxPull
      BY <1>0, <2>1, LinkAssumption DEF LinkType
    <2>3. OnlyWakes({"BULKIN", "BULKOUT"}) /\ LinkType'
      <3>1. g_bulkin_req'.st # "pend"
        BY <1>0, <2>1, CancelEffect, RequestTypes DEF LinkType
      <3> QED BY <1>0, <2>1, <2>2, <3>1, CancelEffect DEF LinkType, OnlyWakes
    <2> QED BY <2>3, OnlyWakesThread
  <1>11. CASE Plug
    <2>1. Same /\ LinkType'
      BY <1>0, <1>11 DEF Plug, LinkType, psp, host, WakeBits
    <2> QED BY <1>0, <1>w, <2>1, OnlyWakesThread
  <1> QED BY <1>1, <1>2, <1>3, <1>4, <1>5, <1>6, <1>7, <1>8, <1>9, <1>10, <1>11
          DEF BusStep, PcStep

LEMMA NextThread == ThreadInv /\ [Next]_vars => ThreadInv'
  <1> SUFFICES ASSUME ThreadInv, [Next]_vars PROVE ThreadInv'
    OBVIOUS
  <1>1. CASE \E t \in Client, op \in Ops : Call(t, op)
    BY <1>1, CallThread
  <1>2. CASE \E t \in Thread : ThreadStep(t)
    BY <1>2, SubmitWriteThread, SubmitReadThread, WriteDoneThread, WriteMisalignedThread,
       ReadDoneThread, WaitSemaThread, LockBusThread, FinishThread DEF ThreadStep
  <1>3. CASE UsbStep
    BY <1>3, UsbIdleThread, UsbAttachThread, UsbMagicThread, UsbHelloThread DEF UsbStep
  <1>4. CASE BusStep
    BY <1>4, BusThread
  <1>5. CASE UNCHANGED vars
    BY <1>5 DEF vars, ThreadInv, LinkType, SemaOK, PlacesOK, ScriptsOK, Busy
  <1> QED BY <1>1, <1>2, <1>3, <1>4, <1>5 DEF Next, BusStep

-----------------------------------------------------------------------------
(* The session: what g_connected says of the PC.                           *)

\* A client's step, or a transfer of usb_thread, tells usb_thread nothing that
\* it has not heard.
LEMMA HeardByThread ==
  ASSUME ThreadInv,
         (\E t \in Client, op \in Ops : Call(t, op)) \/ (\E t \in Thread : ThreadStep(t))
  PROVE  /\ Heard' => Heard
         /\ UNCHANGED <<g_mainevent, result, g_connected, g_async_req, attached, g_hDev, pcst>>
  <1>0. g_connected' = g_connected => (Heard' =>
          \/ g_connected
          \/ job'[Usb].op = "hello"
          \/ /\ job'[Usb].op = "attach"
             /\ \/ job'[Usb].todo = <<>> /\ job'[Usb].ok
                \/ pc'[Usb] \in {"BULKOUT", "woken"} /\ g_bulkout_req'.ok)
    BY DEF Heard
  <1>1. ASSUME NEW t \in Client, NEW op \in Ops, Call(t, op)
        PROVE  /\ Heard' => Heard
               /\ UNCHANGED <<g_mainevent, result, g_connected, g_async_req, attached, g_hDev, pcst>>
    <2>1. UNCHANGED <<g_mainevent, result, g_connected, g_async_req, g_bulkout_req, attached, g_hDev, pcst>>
      BY <1>1 DEF Call, bus, host
    <2>2. job'[Usb] = job[Usb] /\ pc'[Usb] = pc[Usb]
      BY <1>1, CallThread, ThreadParts
    <2> QED BY <1>0, <2>1, <2>2 DEF Heard
  <1>2. ASSUME NEW t \in Thread, SubmitWrite(t)
        PROVE  /\ Heard' => Heard
               /\ UNCHANGED <<g_mainevent, result, g_connected, g_async_req, attached, g_hDev, pcst>>
    <2>1. /\ UNCHANGED <<g_mainevent, result, g_connected, g_async_req, g_bulkout_req,
                         job, attached, g_hDev, pcst>>
          /\ pc' = [pc EXCEPT ![t] = "BULKIN"]
      BY <1>2 DEF SubmitWrite, psp, bus, host
    <2>2. pc'[Usb] = pc[Usb] \/ pc'[Usb] = "BULKIN"
      BY <2>1, ThreadParts
    <2> QED BY <1>0, <2>1, <2>2 DEF Heard
  <1>3. ASSUME NEW t \in Thread, SubmitRead(t)
        PROVE  /\ Heard' => Heard
               /\ UNCHANGED <<g_mainevent, result, g_connected, g_async_req, attached, g_hDev, pcst>>
    <2>1. /\ UNCHANGED <<g_mainevent, result, g_connected, g_async_req, attached, g_hDev, pcst>>
          /\ g_bulkout_req' = Submitted(NULL)
      BY <1>3 DEF SubmitRead, bus, host
    <2>2. ~g_bulkout_req'.ok
      BY <2>1, RequestTypes, ThreadParts
    <2>3. job'[Usb] = job[Usb] \/ (job'[Usb].op = job[Usb].op /\ ~job'[Usb].ok)
      <3>1. CASE UNCHANGED job
        BY <3>1
      <3>2. CASE job' = [job EXCEPT ![t].ok = FALSE, ![t].todo = <<>>]
        BY <3>2, ThreadParts DEF Job
      <3> QED BY <1>3, <3>1, <3>2 DEF SubmitRead
    <2> QED BY <1>0, <2>1, <2>2, <2>3 DEF Heard
  <1>4. ASSUME NEW t \in Thread, WriteDone(t) \/ WriteMisaligned(t)
        PROVE  /\ Heard' => Heard
               /\ UNCHANGED <<g_mainevent, result, g_connected, g_async_req, attached, g_hDev, pcst>>
    <2>1. /\ UNCHANGED <<g_mainevent, result, g_connected, g_async_req, g_bulkout_req,
                         attached, g_hDev, pcst>>
          /\ \A u \in Thread \ {t} : pc'[u] = pc[u]
      <3>1. CASE WriteDone(t)
        BY <3>1, ThreadParts DEF WriteDone, bus, host
      <3>2. CASE WriteMisaligned(t)
        BY <3>2 DEF WriteMisaligned, bus, host
      <3> QED BY <1>4, <3>1, <3>2
    <2>2. /\ job[t].op # "attach" /\ job'[t].op = job[t].op
          /\ \A u \in Thread \ {t} : job'[u] = job[u]
      BY <1>4, WriteDoneJob, WriteMisalignedJob DEF Busy
    <2>3. CASE t = Usb
      BY <1>0, <2>1, <2>2, <2>3 DEF Heard
    <2>4. CASE t # Usb
      <3>1. job'[Usb] = job[Usb] /\ pc'[Usb] = pc[Usb]
        BY <2>1, <2>2, <2>4, ThreadParts
      <3> QED BY <1>0, <2>1, <3>1 DEF Heard
    <2> QED BY <2>1, <2>3, <2>4
  <1>5. ASSUME NEW t \in Thread, ReadDone(t)
        PROVE  /\ Heard' => Heard
               /\ UNCHANGED <<g_mainevent, result, g_connected, g_async_req, attached, g_hDev, pcst>>
    <2>1. /\ UNCHANGED <<g_mainevent, result, g_connected, g_async_req, g_bulkout_req,
                         attached, g_hDev, pcst>>
          /\ pc[t] = "woken" /\ pc' = [pc EXCEPT ![t] = "run"]
      BY <1>5 DEF ReadDone, bus, host
    <2>2. CASE t = Usb
      <3>1. job'[Usb].op = job[Usb].op /\ pc'[Usb] = "run"
        BY <1>5, <2>1, <2>2, ReadDoneJob, ThreadParts
      <3>2. job'[Usb].todo = <<>> /\ job'[Usb].ok => g_bulkout_req.ok \/ job'[Usb] = job[Usb]
        BY <1>5, <2>2, ReadDoneJob
      <3> QED BY <1>0, <2>1, <2>2, <3>1, <3>2 DEF Heard
    <2>3. CASE t # Usb
      <3>1. job'[Usb] = job[Usb] /\ pc'[Usb] = pc[Usb]
        BY <1>5, <2>1, <2>3, ReadDoneJob, ThreadParts
      <3> QED BY <1>0, <2>1, <3>1 DEF Heard
    <2> QED BY <2>1, <2>2, <2>3
  <1>6. ASSUME NEW t \in Thread, WaitSema(t) \/ LockBus(t) \/ Finish(t)
        PROVE  /\ Heard' => Heard
               /\ UNCHANGED <<g_mainevent, result, g_connected, g_async_req, attached, g_hDev, pcst>>
    <2>1. UNCHANGED <<g_mainevent, result, g_connected, g_async_req, g_bulkout_req,
                      attached, g_hDev, pcst>>
      BY <1>6 DEF WaitSema, LockBus, Finish, psp, bus, host
    <2>2. /\ job'[Usb] = job[Usb]
          /\ pc'[Usb] = pc[Usb] \/ pc'[Usb] \notin {"BULKOUT", "woken"}
      <3>1. CASE WaitSema(t)
        <4>1. UNCHANGED job
          BY <3>1 DEF WaitSema
        <4> QED BY <3>1, <4>1, WaitSemaThread, ThreadParts
      <3>2. CASE LockBus(t)
        BY <3>2, ThreadParts DEF LockBus, psp
      <3>3. CASE Finish(t)
        <4>1. t # Usb
          BY <3>3, FinishThread, ThreadParts
        <4> QED BY <3>3, <4>1, FinishThread, ThreadParts
      <3> QED BY <1>6, <3>1, <3>2, <3>3
    <2> QED BY <1>0, <2>1, <2>2 DEF Heard
  <1> QED BY <1>1, <1>2, <1>3, <1>4, <1>5, <1>6 DEF ThreadStep

LEMMA ThreadSession ==
  ASSUME ThreadInv, SessionInv,
         (\E t \in Client, op \in Ops : Call(t, op)) \/ (\E t \in Thread : ThreadStep(t))
  PROVE  SessionInv'
  BY HeardByThread DEF SessionInv, NoNews, Serving

\* The steps of usb_thread.
LEMMA UsbSession ==
  ASSUME ThreadInv, SessionInv, UsbStep
  PROVE  SessionInv'
  <1>0. /\ UNCHANGED <<attached, g_hDev, pcst, g_bulkout_req>>
        /\ Serving' <=> Serving
    <2>1. UNCHANGED <<attached, g_hDev, pcst, g_bulkout_req>>
      BY DEF UsbStep, UsbWake, UsbAsync, UsbDetach, UsbAttach, UsbLoop, UsbMagic, UsbHello, bus, host
    <2> QED BY <2>1 DEF Serving
  <1>1. CASE UsbWake
    <2>1. /\ result = {} /\ result' = g_mainevent \cap WakeBits
          /\ g_mainevent' = g_mainevent \ result'
          /\ UNCHANGED <<g_connected, job, g_async_req>>
          /\ pc[Usb] = "wait" /\ pc'[Usb] = "handle"
      BY <1>1, ThreadParts DEF UsbWake, PlacesOK
    <2>2. g_mainevent' \cup result' = g_mainevent \cup result
      BY <2>1
    <2>3. Heard' <=> Heard
      BY <1>0, <2>1 DEF Heard
    <2> QED BY <1>0, <2>1, <2>2, <2>3 DEF SessionInv, NoNews
  <1>2. CASE UsbAsync
    <2>1. /\ result' = result \ {"ASYNC"} /\ g_mainevent' \subseteq g_mainevent
          /\ g_mainevent \ {"ASYNC"} \subseteq g_mainevent'
          /\ UNCHANGED <<g_connected, job, pc>>
          /\ IF g_async_req.ok THEN g_async_req' = Submitted(NULL)
             ELSE UNCHANGED <<g_async_req, g_mainevent>>
      BY <1>2 DEF UsbAsync
    <2>2. NoNews' <=> NoNews
      BY <2>1 DEF NoNews
    <2>3. Heard' <=> Heard
      BY <1>0, <2>1 DEF Heard
    <2>4. NoNews /\ g_connected => attached
      BY DEF SessionInv, Heard, Serving
    <2>5. NoNews /\ g_connected => g_async_req'.st = "pend"
      <3>1. CASE g_async_req.ok
        BY <2>1, <2>4, <3>1, RequestTypes, ThreadParts
      <3>2. CASE ~g_async_req.ok
        BY <2>1, <3>2 DEF SessionInv
      <3> QED BY <3>1, <3>2
    <2> QED BY <1>0, <2>1, <2>2, <2>3, <2>5 DEF SessionInv
  <1>3. CASE UsbDetach
    <2>1. ~g_connected' /\ UNCHANGED <<job, pc>> /\ pc[Usb] = "handle"
      BY <1>3 DEF UsbDetach, Disconnect
    <2>2. job'[Usb].op = NULL /\ NULL # "attach" /\ NULL # "hello"
      BY <2>1, ThreadParts DEF PlacesOK
    <2>3. ~Heard'
      BY <2>1, <2>2 DEF Heard
    <2> QED BY <1>0, <2>1, <2>3 DEF SessionInv
  <1>4. CASE UsbAttach
    <2>1. ~Heard' /\ ~g_connected'
      BY <1>4, UsbAttachThread DEF Heard
    <2> QED BY <1>0, <2>1 DEF SessionInv
  <1>5. CASE UsbLoop
    <2>1. /\ UNCHANGED <<g_connected, job, g_async_req, result, g_mainevent>>
          /\ pc[Usb] = "handle" /\ pc'[Usb] = "wait"
      BY <1>5, ThreadParts DEF UsbLoop, psp
    <2>2. Heard' <=> Heard
      BY <1>0, <2>1 DEF Heard
    <2> QED BY <1>0, <2>1, <2>2 DEF SessionInv, NoNews
  <1>6. CASE UsbMagic
    <2>1. /\ UNCHANGED <<g_connected, g_async_req, result, g_mainevent>>
          /\ Heard' => Heard
      <3>1. NULL # "attach" /\ NULL # "hello"
        BY ThreadParts
      <3> QED BY <1>6, <3>1, UsbMagicThread DEF Heard
    <2> QED BY <1>0, <2>1 DEF SessionInv, NoNews
  <1>7. CASE UsbHello
    <2>1. /\ job[Usb].op = "hello" /\ ~g_connected /\ UNCHANGED result
          /\ job'[Usb].op = NULL /\ NULL # "attach" /\ NULL # "hello"
      BY <1>7, UsbHelloThread, ThreadParts
    <2>2. CASE job[Usb].ok
      <3>1. /\ g_async_req' = Submitted(NULL)
            /\ g_mainevent' = (g_mainevent \ {"ASYNC"}) \cup {"CONNECT"}
        BY <1>7, <2>2 DEF UsbHello
      <3>2. NoNews' <=> NoNews
        BY <2>1, <3>1 DEF NoNews
      <3>3. NoNews => Serving
        BY <2>1 DEF SessionInv, Heard
      <3>4. NoNews => g_async_req'.st = "pend"
        BY <3>1, <3>3, RequestTypes, ThreadParts DEF Serving
      <3> QED BY <1>0, <3>2, <3>3, <3>4 DEF SessionInv
    <2>3. CASE ~job[Usb].ok
      <3>1. ~g_connected'
        BY <1>7, <2>1, <2>3 DEF UsbHello
      <3>2. ~Heard'
        BY <2>1, <3>1 DEF Heard
      <3> QED BY <1>0, <3>1, <3>2 DEF SessionInv
    <2> QED BY <2>2, <2>3
  <1> QED BY <1>1, <1>2, <1>3, <1>4, <1>5, <1>6, <1>7 DEF UsbStep

\* The cable, the bus and the PC.  Only the magic makes usb_thread hear of the
\* PC; the end of a session is news.
LEMMA BusSession ==
  ASSUME ThreadInv, SessionInv, BusStep
  PROVE  SessionInv'
  <1>0. UNCHANGED <<g_connected, job, result>> /\ LinkType
    BY BusThread, ThreadParts DEF OnlyWakes
  <1>h. \A t \in Thread : pc'[t] = pc[t] \/ (pc[t] \in {"BULKIN", "BULKOUT"} /\ pc'[t] = "woken")
    BY BusThread DEF OnlyWakes
  <1>1. CASE PcOpen \/ PcBroken
    <2>1. /\ UNCHANGED <<g_mainevent, g_async_req, g_bulkout_req, pc, attached>>
          /\ g_hDev' => attached
          /\ ~Serving
      BY <1>1 DEF PcOpen, PcBroken, bus, Serving, SessionInv
    <2>2. Heard' <=> Heard
      BY <1>0, <2>1 DEF Heard
    <2> QED BY <1>0, <2>1, <2>2 DEF SessionInv, NoNews
  <1>2. CASE PcMagic \/ PcRead \/ PcData \/ PcReply \/ PcReplyData \/ PcTimeout
    <2>1. /\ g_hDev /\ g_hDev' /\ UNCHANGED <<g_mainevent, g_async_req, attached>>
          /\ pcst' \notin {"search", "magic"}
      <3>1. CASE PcMagic
        BY <3>1 DEF PcMagic, Send, CanSend, bus
      <3>2. CASE PcRead
        BY <3>2 DEF PcRead, Recv, CanRecv, bus, HandlerFor
      <3>3. CASE PcData
        BY <3>3 DEF PcData, Recv, CanRecv, bus
      <3>4. CASE PcReply
        BY <3>4 DEF PcReply, Send, CanSend, bus
      <3>5. CASE PcReplyData
        BY <3>5 DEF PcReplyData, Send, CanSend, bus
      <3>6. CASE PcTimeout
        BY <3>6 DEF PcTimeout, bus
      <3> QED BY <1>2, <3>1, <3>2, <3>3, <3>4, <3>5, <3>6
    <2>2. attached /\ Serving'
      BY <2>1 DEF SessionInv, Serving
    <2> QED BY <1>0, <2>1, <2>2 DEF SessionInv, NoNews
  <1>3. CASE PcReset \/ Unplug
    <2>1. ~g_hDev' /\ "DETACH" \in g_mainevent'
      <3>1. CASE PcReset
        BY <1>0, <3>1, CancelEffect DEF PcReset
      <3>2. CASE Unplug
        BY <1>0, <3>2, CancelEffect DEF Unplug
      <3> QED BY <1>3, <3>1, <3>2
    <2>2. ~NoNews'
      BY <2>1 DEF NoNews
    <2> QED BY <2>1, <2>2 DEF SessionInv
  <1>4. CASE PcAsync
    <2>1. /\ UNCHANGED <<g_bulkout_req, pc, attached, g_hDev, pcst>>
          /\ g_mainevent' = g_mainevent \cup {"ASYNC"} /\ g_async_req' = Completed(NULL)
      BY <1>4 DEF PcAsync, bus, host
    <2>2. (Heard' <=> Heard) /\ (NoNews' <=> NoNews) /\ (Serving' <=> Serving)
      BY <1>0, <2>1 DEF Heard, NoNews, Serving
    <2>3. g_async_req'.ok
      BY <1>0, <2>1, RequestTypes
    <2> QED BY <1>0, <2>1, <2>2, <2>3 DEF SessionInv
  <1>5. CASE Plug
    <2>1. "ATTACH" \in g_mainevent' /\ attached'
      BY <1>5 DEF Plug
    <2>2. ~NoNews'
      BY <2>1 DEF NoNews
    <2> QED BY <2>1, <2>2 DEF SessionInv
  <1> QED BY <1>1, <1>2, <1>3, <1>4, <1>5 DEF BusStep, PcStep

LEMMA NextSession == ThreadInv /\ SessionInv /\ [Next]_vars => SessionInv'
  <1> SUFFICES ASSUME ThreadInv, SessionInv, [Next]_vars PROVE SessionInv'
    OBVIOUS
  <1>1. CASE UNCHANGED vars
    BY <1>1 DEF vars, SessionInv, NoNews, Serving, Heard
  <1> QED BY <1>1, ThreadSession, UsbSession, BusSession DEF Next, BusStep

-----------------------------------------------------------------------------
(* The pairing of commands and answers.                                    *)

\* A call starts with a write that is a command.
LEMMA ScriptStarts ==
  ASSUME NEW op \in CallOps \cup {"hello"}
  PROVE  /\ Script(op) # <<R("magic")>>
         /\ Script(op) # <<>> => /\ Head(Script(op)).dir = "w"
                                 /\ Head(Script(op)).kind \in {"put", "get", "async", "bulk", "hello"}
  <1> DEFINE mis == [dir |-> "misaligned"]
  <1>0. /\ \A k : W(k).dir = "w" /\ W(k).kind = k
        /\ \A k : R(k).dir = "r"
    BY DEF W, R
  <1> HIDE DEF mis
  <1>1. CASE op = "put"
    <2>1. Script(op) = <<W("put"), W("data"), R("resp")>>
      BY <1>1 DEF Script
    <2>2. Head(Script(op)) = W("put")
      BY <2>1, Tuples
    <2> QED BY <1>0, <2>1, <2>2, Tuples
  <1>2. CASE op \in {"get", "hello"}
    <2>1. Script(op) = <<W(op), R("resp")>>
      BY <1>2 DEF Script
    <2>2. Head(Script(op)) = W(op)
      BY <2>1, Tuples
    <2> QED BY <1>0, <1>2, <2>1, <2>2, Tuples
  <1>3. CASE op = "async"
    <2>1. Script(op) = <<W("async")>>
      BY <1>3 DEF Script
    <2>2. Head(Script(op)) = W("async")
      BY <2>1, Tuples
    <2> QED BY <1>0, <2>1, <2>2, Tuples
  <1>4. CASE op \in {"bulk", "bulk16"}
    <2>1. \E e : Script(op) = <<W("bulk"), e>>
      BY <1>4 DEF Script
    <2>2. Head(Script(op)) = W("bulk")
      BY <2>1, Tuples
    <2>3. Head(<<R("magic")>>) = R("magic")
      BY Tuples
    <2> QED BY <1>0, <2>2, <2>3
  <1>5. CASE op = "lock"
    BY <1>5 DEF Script
  <1> QED BY <1>1, <1>2, <1>3, <1>4, <1>5 DEF CallOps

\* No rest of a script but the handshake's own is the read of a magic.
LEMMA TailNotMagic ==
  ASSUME NEW s \in Todos, s # <<>>
  PROVE  /\ Tail(s) # <<R("magic")>>
         /\ <<R("rdata")>> # <<R("magic")>> /\ <<>> # <<R("magic")>>
  <1> DEFINE mis == [dir |-> "misaligned"]
             mag == <<R("magic")>>
  <1>0. /\ Head(mag) = R("magic") /\ R("magic").dir = "r" /\ R("magic").kind = "magic"
        /\ \A k : W(k).dir = "w" /\ R(k).kind = k
        /\ mis.dir = "misaligned"
    BY Tuples DEF R, W
  <1>1. /\ \A a, b : <<a, b>> # mag
        /\ <<R("resp")>> # mag /\ <<R("rdata")>> # mag
        /\ <<W("bulkdata")>> # mag /\ <<mis>> # mag /\ <<>> # mag
    <2>1. /\ Head(<<R("resp")>>) = R("resp") /\ Head(<<R("rdata")>>) = R("rdata")
          /\ Head(<<W("bulkdata")>>) = W("bulkdata") /\ Head(<<mis>>) = mis
      BY Tuples
    <2>2. Len(mag) = 1 /\ Len(<<>>) = 0 /\ \A a, b : Len(<<a, b>>) = 2
      OBVIOUS
    <2> QED BY <1>0, <2>1, <2>2
  <1>2. /\ \A a : Tail(<<a>>) = <<>>
        /\ \A a, b : Tail(<<a, b>>) = <<b>>
        /\ \A a, b, c : Tail(<<a, b, c>>) = <<b, c>>
    BY Tuples
  <1>3. \/ \E a : s = <<a>>
        \/ \E a : s = <<a, R("resp")>>
        \/ \E a, b : s = <<a, b, R("resp")>>
        \/ \E a : s = <<a, W("bulkdata")>>
        \/ \E a : s = <<a, mis>>
    BY DEF Todos
  <1> SUFFICES Tail(s) # mag /\ <<R("rdata")>> # mag /\ <<>> # mag
    OBVIOUS
  <1> HIDE DEF mag, mis
  <1>4. CASE \E a : s = <<a>>
    BY <1>1, <1>2, <1>4
  <1>5. CASE \E a : s = <<a, R("resp")>>
    BY <1>1, <1>2, <1>5
  <1>6. CASE \E a, b : s = <<a, b, R("resp")>>
    BY <1>1, <1>2, <1>6
  <1>7. CASE \E a : s = <<a, W("bulkdata")>>
    BY <1>1, <1>2, <1>7
  <1>8. CASE \E a : s = <<a, mis>>
    BY <1>1, <1>2, <1>8
  <1> QED BY <1>3, <1>4, <1>5, <1>6, <1>7, <1>8

\* What a rest begins to read is an answer, or the magic of the handshake.
LEMMA ReadKinds ==
  ASSUME NEW s \in Todos, s # <<>>, s # <<R("magic")>>, Head(s).dir = "r"
  PROVE  Head(s).kind \in {"resp", "rdata"}
  <1> DEFINE mis == [dir |-> "misaligned"]
  <1>0. /\ \A k : W(k).dir = "w" /\ R(k).kind = k
        /\ mis.dir = "misaligned"
    BY DEF W, R
  <1> HIDE DEF mis
  <1>1. CASE \E k, a, b : s = <<W(k), a, b>>
    BY <1>0, <1>1, Tuples
  <1>2. CASE \E k, a : s = <<W(k), a>>
    BY <1>0, <1>2, Tuples
  <1>3. CASE \E e \in {R("resp"), R("rdata"), mis, W("async"), W("bulkdata")} : s = <<e>>
    <2>1. PICK e \in {R("resp"), R("rdata"), mis, W("async"), W("bulkdata")} : s = <<e>>
      BY <1>3
    <2>2. Head(s) = e
      BY <2>1, Tuples
    <2> QED BY <1>0, <2>2
  <1>4. \/ \E k, a, b : s = <<W(k), a, b>>
        \/ \E k, a : s = <<W(k), a>>
        \/ \E e \in {R("resp"), R("rdata"), mis, W("async"), W("bulkdata")} : s = <<e>>
    BY DEF Todos, mis
  <1> QED BY <1>1, <1>2, <1>3, <1>4

\* A busy thread that reads has had its command taken.
LEMMA ReaderBegun ==
  ASSUME ThreadInv, NEW t \in Thread, Busy(t), job[t].todo # <<>>
  PROVE  /\ job[t].op \in CallOps \cup {"hello"}
         /\ Head(job[t].todo).dir = "r" => Begun(t)
         /\ Head(job[t].todo).kind = "data" /\ Head(job[t].todo).dir = "w" => Begun(t)
  <1>1. job[t].op \in CallOps \cup {"hello"}
    BY ThreadParts DEF Busy, PlacesOK
  <1> QED BY <1>1, ScriptStarts DEF Begun

\* Nothing of the exchange of u changes.
LEMMA SamePair ==
  ASSUME NEW u \in Thread, HandOf(u), AnswerOf(u),
         job'[u] = job[u], pc'[u] = pc[u], Busy(u)' => Busy(u),
         UNCHANGED <<g_bulkin_req, g_bulkout_req, g_hDev, hand>>
  PROVE  HandOf(u)' /\ AnswerOf(u)'
  BY DEF HandOf, AnswerOf, Begun, Own

\* A thread that just got the semaphore has nothing on the bus.
LEMMA FreshPair ==
  ASSUME NEW u \in Thread, job'[u].todo = Script(job'[u].op), pc'[u] \in {"run", "sema"}
  PROVE  HandOf(u)' /\ AnswerOf(u)'
  BY DEF HandOf, AnswerOf, Begun

LEMMA IdlePair ==
  ASSUME NEW u \in Thread, ~Busy(u)'
  PROVE  HandOf(u)' /\ AnswerOf(u)'
  BY DEF HandOf, AnswerOf

\* The request of a thread that is in BULKIN stays what it was.
LEMMA SameOnBus ==
  ASSUME OnBus, g_bulkin_req' = g_bulkin_req,
         \A u \in Thread : Busy(u) /\ pc[u] = "BULKIN" =>
            Busy(u)' /\ pc'[u] = "BULKIN" /\ job'[u] = job[u]
  PROVE  OnBus'
  BY DEF OnBus

LEMMA CallPair ==
  ASSUME ThreadInv, PairInv, NEW t \in Client, NEW op \in Ops, Call(t, op)
  PROVE  PairInv'
  <1>0. /\ t \in Thread /\ ~Busy(t) /\ ~Busy(t)'
        /\ \A u \in Thread : Busy(u)' <=> Busy(u)
        /\ \A u \in Thread \ {t} : job'[u] = job[u] /\ pc'[u] = pc[u]
        /\ job'[t].reply = NULL
        /\ UNCHANGED <<g_bulkin_req, g_bulkout_req, g_hDev, hand>>
    BY CallThread DEF Call, host
  <1>1. Paired'
    BY <1>0 DEF PairInv, Paired
  <1>2. OnBus'
    <2>1. \A u \in Thread : Busy(u) => u # t
      BY <1>0
    <2> QED BY <1>0, <2>1, SameOnBus DEF PairInv
  <1>3. MagicRead'
    <2>1. job'[t].todo = Script(op) /\ op \in CallOps
      BY <1>0, LinkAssumption, ThreadParts DEF Call, NewJob
    <2> QED BY <1>0, <2>1, ScriptStarts DEF PairInv, MagicRead
  <1>4. \A u \in Thread : HandOf(u)' /\ AnswerOf(u)'
    <2> TAKE u \in Thread
    <2>1. CASE u = t
      BY <1>0, <2>1, IdlePair
    <2>2. CASE u # t
      BY <1>0, <2>2, SamePair DEF PairInv
    <2> QED BY <2>1, <2>2
  <1> QED BY <1>1, <1>2, <1>3, <1>4 DEF PairInv

LEMMA SubmitWritePair ==
  ASSUME ThreadInv, PairInv, NEW t \in Thread, SubmitWrite(t)
  PROVE  PairInv'
  <1> DEFINE m == M(Head(job[t].todo).kind, t, job[t].seq)
  <1>0. /\ pc[t] = "run" /\ g_bulkin_req' = Submitted(m)
        /\ pc'[t] = "BULKIN" /\ \A u \in Thread \ {t} : pc'[u] = pc[u]
        /\ UNCHANGED <<job, g_bulkout_req, g_hDev, hand>>
    BY ThreadParts DEF SubmitWrite, psp, host
  <1>1. m \in Msg
    BY ThreadParts, WriteMsg DEF SubmitWrite
  <1> HIDE DEF m
  <1>2. /\ Busy(t) /\ Busy(t)' /\ \A u \in Thread \ {t} : ~Busy(u)'
    BY SubmitWriteThread, OneBusy, ThreadParts
  <1>3. Paired' /\ MagicRead'
    BY <1>0 DEF PairInv, Paired, MagicRead
  <1>4. OnBus'
    <2>1. g_bulkin_req'.msg = m
      BY <1>0, <1>1, RequestTypes, ThreadParts
    <2> QED BY <1>0, <1>2, <2>1 DEF OnBus, m
  <1>5. \A u \in Thread : HandOf(u)' /\ AnswerOf(u)'
    <2> TAKE u \in Thread
    <2>1. CASE u = t
      BY <1>0, <1>2, <2>1 DEF PairInv, HandOf, AnswerOf, Begun, Own
    <2>2. CASE u # t
      BY <1>2, <2>2, IdlePair
    <2> QED BY <2>1, <2>2
  <1> QED BY <1>3, <1>4, <1>5 DEF PairInv

LEMMA SubmitReadPair ==
  ASSUME ThreadInv, PairInv, NEW t \in Thread, SubmitRead(t)
  PROVE  PairInv'
  <1>0. /\ pc[t] = "run"
        /\ \A u \in Thread \ {t} : pc'[u] = pc[u] /\ job'[u] = job[u]
        /\ \/ pc'[t] = "BULKOUT" /\ job'[t] = job[t]
           \/ pc'[t] = "run" /\ job'[t].todo = <<>>
        /\ job'[t].reply = job[t].reply /\ job'[t].op = job[t].op /\ job'[t].seq = job[t].seq
        /\ UNCHANGED <<g_bulkin_req, g_hDev, hand>>
    <2>1. pc[t] = "run" /\ UNCHANGED <<g_bulkin_req, g_hDev, hand>>
      BY DEF SubmitRead, host
    <2>2. CASE pc' = [pc EXCEPT ![t] = "BULKOUT"] /\ UNCHANGED job
      BY <2>1, <2>2, ThreadParts
    <2>3. CASE job' = [job EXCEPT ![t].ok = FALSE, ![t].todo = <<>>] /\ UNCHANGED pc
      BY <2>1, <2>3, ThreadParts DEF Job
    <2> QED BY <2>1, <2>2, <2>3 DEF SubmitRead
  <1>1. ~g_bulkout_req'.ok
    BY RequestTypes, ThreadParts DEF SubmitRead
  <1>2. \A u \in Thread : Busy(u)' <=> Busy(u)
    BY SubmitReadThread
  <1>3. Paired'
    BY <1>0 DEF PairInv, Paired
  <1>4. MagicRead'
    BY <1>0 DEF PairInv, MagicRead
  <1>5. OnBus'
    <2>1. \A u \in Thread : pc[u] = "BULKIN" => u # t
      BY <1>0
    <2> QED BY <1>0, <1>2, <2>1, SameOnBus DEF PairInv
  <1>6. \A u \in Thread : HandOf(u)' /\ AnswerOf(u)'
    <2> TAKE u \in Thread
    <2>1. AnswerOf(u)'
      BY <1>1 DEF AnswerOf
    <2>2. CASE u = t
      BY <1>0, <1>2, <2>1, <2>2 DEF PairInv, HandOf, Begun, Own
    <2>3. CASE u # t
      BY <1>0, <1>2, <2>1, <2>3 DEF PairInv, HandOf, Begun, Own
    <2> QED BY <2>2, <2>3
  <1> QED BY <1>3, <1>4, <1>5, <1>6 DEF PairInv

\* The end of a write.
LEMMA WriteEndPair ==
  ASSUME ThreadInv, PairInv, NEW t \in Thread, WriteDone(t) \/ WriteMisaligned(t)
  PROVE  PairInv'
  <1>0. /\ Busy(t) /\ pc[t] \in {"run", "woken"} /\ pc'[t] = "run"
        /\ \A u \in Thread \ {t} : pc'[u] = pc[u] /\ job'[u] = job[u]
        /\ job'[t].op = job[t].op /\ job'[t].seq = job[t].seq /\ job'[t].reply = job[t].reply
        /\ \/ job'[t].todo = <<>>
           \/ job[t].todo # <<>> /\ job'[t].todo = Tail(job[t].todo) /\ g_bulkin_req.ok /\ pc[t] = "woken"
        /\ \A u \in Thread : Busy(u)' <=> Busy(u)
        /\ UNCHANGED <<g_bulkin_req, g_bulkout_req, g_hDev, hand>>
    <2>1. CASE WriteDone(t)
      <3>1. /\ pc' = [pc EXCEPT ![t] = "run"]
            /\ UNCHANGED <<g_bulkin_req, g_bulkout_req, g_hDev, hand>>
        BY <2>1 DEF WriteDone, host
      <3> QED BY <2>1, <3>1, WriteDoneJob, WriteDoneThread, ThreadParts
    <2>2. CASE WriteMisaligned(t)
      <3>1. UNCHANGED <<pc, g_bulkin_req, g_bulkout_req, g_hDev, hand>>
        BY <2>2 DEF WriteMisaligned, host
      <3> QED BY <2>2, <3>1, WriteMisalignedJob, WriteMisalignedThread
    <2> QED BY <2>1, <2>2
  <1>1. Paired'
    BY <1>0 DEF PairInv, Paired
  <1>2. MagicRead'
    <2>1. job[t].todo \in Todos
      BY ThreadParts DEF Job
    <2>2. <<>> # <<R("magic")>>
      OBVIOUS
    <2>3. job'[t].todo # <<R("magic")>>
      BY <1>0, <2>1, <2>2, TailNotMagic
    <2> QED BY <1>0, <2>3 DEF PairInv, MagicRead
  <1>3. OnBus'
    <2>1. \A u \in Thread : Busy(u) => pc[u] # "BULKIN"
      BY <1>0, OneBusy, ThreadParts
    <2> QED BY <1>0, <2>1 DEF PairInv, OnBus
  <1>4. \A u \in Thread : HandOf(u)' /\ AnswerOf(u)'
    <2> TAKE u \in Thread
    <2>1. CASE u = t
      <3>1. job'[t].todo # <<>> => Begun(t)
        BY <1>0 DEF Begun
      <3> QED BY <1>0, <2>1, <3>1 DEF PairInv, HandOf, AnswerOf, Begun, Own
    <2>2. CASE u # t
      BY <1>0, <2>2, SamePair DEF PairInv
    <2> QED BY <2>1, <2>2
  <1> QED BY <1>1, <1>2, <1>3, <1>4 DEF PairInv

\* The end of a read.
LEMMA ReadDonePair ==
  ASSUME ThreadInv, PairInv, NEW t \in Thread, ReadDone(t)
  PROVE  PairInv'
  <1> DEFINE m == g_bulkout_req.msg
  <1>0. /\ pc[t] = "woken" /\ pc'[t] = "run" /\ \A u \in Thread \ {t} : pc'[u] = pc[u]
        /\ UNCHANGED <<g_bulkin_req, g_bulkout_req, g_hDev, hand>>
    BY ThreadParts DEF ReadDone, host
  <1>1. \A u \in Thread : Busy(u)' <=> Busy(u)
    BY ReadDoneThread
  <1>2. /\ job[t].todo # <<>> /\ Head(job[t].todo).dir = "r"
        /\ \A u \in Thread \ {t} : job'[u] = job[u]
        /\ job'[t].op = job[t].op /\ job'[t].seq = job[t].seq
        /\ \/ job'[t].todo = <<>> /\ job'[t].reply = job[t].reply
           \/ job'[t] = job[t]
           \/ /\ g_bulkout_req.ok /\ m # NULL
              /\ ~(m.kind = "magic" /\ Head(job[t].todo).kind # "magic")
              /\ job'[t].reply = m
              /\ job'[t].todo \in {<<R("rdata")>>, Tail(job[t].todo)}
    BY ReadDoneJob
  <1>3. job[t].op # "attach" => Busy(t)
    BY <1>0 DEF Busy
  <1>4. job[t].op # "attach" => Head(job[t].todo).kind # "magic"
    <2> SUFFICES ASSUME job[t].op # "attach" PROVE Head(job[t].todo).kind # "magic"
      OBVIOUS
    <2>1. job[t].todo # <<R("magic")>> /\ job[t].todo \in Todos
      BY ThreadParts DEF PairInv, MagicRead, Job
    <2> QED BY <1>2, <2>1, ReadKinds
  <1>5. Paired'
    <2>1. ASSUME job[t].op # "attach", job'[t].reply = m, m # NULL, g_bulkout_req.ok,
                 ~(m.kind = "magic" /\ Head(job[t].todo).kind # "magic")
          PROVE  m.kind \in {"resp", "rdata"} /\ m.who = t /\ m.seq = job[t].seq
      BY <1>0, <1>2, <1>3, <1>4, <2>1 DEF PairInv, AnswerOf, Own
    <2>2. job'[t].op # "attach" /\ job'[t].reply # NULL =>
            /\ job'[t].reply.kind \in {"resp", "rdata"}
            /\ job'[t].reply.who = t /\ job'[t].reply.seq = job'[t].seq
      BY <1>2, <2>1 DEF PairInv, Paired
    <2> QED BY <1>2, <2>2 DEF PairInv, Paired
  <1>6. MagicRead'
    <2>1. job[t].todo \in Todos
      BY ThreadParts DEF Job
    <2>2. job'[t].todo # <<R("magic")>> \/ job'[t] = job[t]
      BY <1>2, <2>1, TailNotMagic
    <2> QED BY <1>2, <2>2 DEF PairInv, MagicRead
  <1>7. OnBus'
    <2>1. \A u \in Thread : pc[u] = "BULKIN" => u # t
      BY <1>0
    <2> QED BY <1>0, <1>1, <1>2, <2>1, SameOnBus DEF PairInv
  <1>8. \A u \in Thread : HandOf(u)' /\ AnswerOf(u)'
    <2> TAKE u \in Thread
    <2>1. CASE u = t
      <3>1. Busy(t) => Begun(t)
        BY <1>2, ReaderBegun
      <3> QED BY <1>0, <1>1, <1>2, <2>1, <3>1 DEF PairInv, HandOf, AnswerOf, Own
    <2>2. CASE u # t
      BY <1>0, <1>1, <1>2, <2>2, SamePair DEF PairInv
    <2> QED BY <2>1, <2>2
  <1> QED BY <1>5, <1>6, <1>7, <1>8 DEF PairInv

\* A thread enters the queue of the semaphore.
LEMMA WaitSemaPair ==
  ASSUME ThreadInv, PairInv, NEW t \in Thread, WaitSema(t)
  PROVE  PairInv'
  <1>0. /\ UNCHANGED <<job, g_bulkin_req, g_bulkout_req, g_hDev, hand>>
        /\ pc[t] = "enter"
    BY DEF WaitSema, host
  <1>1. /\ job[t].todo = Script(job[t].op) /\ pc'[t] \in {"run", "sema"}
        /\ \A u \in Thread \ {t} : pc'[u] = pc[u] /\ (Busy(u)' <=> Busy(u))
    BY WaitSemaThread
  <1>2. Paired' /\ MagicRead'
    BY <1>0 DEF PairInv, Paired, MagicRead
  <1>3. OnBus'
    <2>1. \A u \in Thread : pc[u] = "BULKIN" => u # t
      BY <1>0
    <2> QED BY <1>0, <1>1, <2>1, SameOnBus DEF PairInv
  <1>4. \A u \in Thread : HandOf(u)' /\ AnswerOf(u)'
    <2> TAKE u \in Thread
    <2>1. CASE u = t
      BY <1>0, <1>1, <2>1, FreshPair
    <2>2. CASE u # t
      BY <1>0, <1>1, <2>2, SamePair DEF PairInv
    <2> QED BY <2>1, <2>2
  <1> QED BY <1>2, <1>3, <1>4 DEF PairInv

LEMMA LockBusPair ==
  ASSUME ThreadInv, PairInv, NEW t \in Thread, LockBus(t)
  PROVE  PairInv'
  <1>0. /\ UNCHANGED <<job, g_bulkin_req, g_bulkout_req, g_hDev, hand>>
        /\ pc[t] = "run" /\ pc'[t] = "locked" /\ \A u \in Thread \ {t} : pc'[u] = pc[u]
    BY ThreadParts DEF LockBus, psp, host
  <1>1. \A u \in Thread : Busy(u)' <=> Busy(u)
    BY LockBusThread
  <1>2. Paired' /\ MagicRead'
    BY <1>0 DEF PairInv, Paired, MagicRead
  <1>3. OnBus'
    <2>1. \A u \in Thread : pc[u] = "BULKIN" => u # t
      BY <1>0
    <2> QED BY <1>0, <1>1, <2>1, SameOnBus DEF PairInv
  <1>4. \A u \in Thread : HandOf(u)' /\ AnswerOf(u)'
    <2> TAKE u \in Thread
    <2>1. CASE u = t
      BY <1>0, <1>1, <2>1 DEF PairInv, HandOf, AnswerOf, Begun, Own
    <2>2. CASE u # t
      BY <1>0, <1>1, <2>2, SamePair DEF PairInv
    <2> QED BY <2>1, <2>2
  <1> QED BY <1>2, <1>3, <1>4 DEF PairInv

\* The semaphore goes from t to the thread that waited longest.
LEMMA SignalPair ==
  ASSUME ThreadInv, ThreadInv', PairInv, NEW t \in Thread, Busy(t), ~Busy(t)',
         pc[t] # "BULKIN", job'[t].reply = NULL, job'[t].todo = <<>>,
         \A u \in Thread \ {t} : /\ job'[u] = job[u]
                                 /\ pc'[u] = pc[u] \/ (pc[u] = "sema" /\ pc'[u] = "run"),
         UNCHANGED <<g_bulkin_req, g_bulkout_req, g_hDev, hand>>
  PROVE  PairInv'
  <1>1. Paired'
    BY DEF PairInv, Paired
  <1>2. OnBus'
    <2>1. \A u \in Thread : Busy(u) => pc[u] # "BULKIN"
      BY OneBusy, ThreadParts
    <2> QED BY <2>1 DEF PairInv, OnBus
  <1>3. MagicRead'
    <2>1. <<>> # <<R("magic")>>
      OBVIOUS
    <2> QED BY <2>1 DEF PairInv, MagicRead
  <1>4. \A u \in Thread : HandOf(u)' /\ AnswerOf(u)'
    <2> TAKE u \in Thread
    <2>1. CASE u = t
      BY <2>1, IdlePair
    <2>2. CASE u # t /\ pc'[u] = pc[u]
      <3>1. ~Busy(u)
        BY <2>2, OneBusy, ThreadParts
      <3>2. ~Busy(u)'
        BY <2>2, <3>1 DEF Busy
      <3> QED BY <3>2, IdlePair
    <2>3. CASE u # t /\ pc[u] = "sema" /\ pc'[u] = "run"
      <3>1. job'[u].todo = Script(job'[u].op)
        BY <2>3, ThreadParts DEF ScriptsOK
      <3> QED BY <2>3, <3>1, FreshPair
    <2> QED BY <2>1, <2>2, <2>3
  <1> QED BY <1>1, <1>2, <1>3, <1>4 DEF PairInv

LEMMA FinishPair ==
  ASSUME ThreadInv, PairInv, NEW t \in Thread, Finish(t)
  PROVE  PairInv'
  <1>1. /\ UNCHANGED <<g_bulkin_req, g_bulkout_req, g_hDev, hand>>
        /\ pc[t] # "BULKIN"
    BY DEF Finish, host
  <1> QED BY <1>1, FinishThread, SignalPair

\* usb_thread.
LEMMA UsbPair ==
  ASSUME ThreadInv, PairInv, UsbStep
  PROVE  PairInv'
  <1>1. CASE UsbWake \/ UsbAsync \/ UsbDetach \/ UsbLoop
    <2>1. /\ \A u \in Thread : Busy(u)' <=> Busy(u)
          /\ \A u \in Thread \ {Usb} : pc'[u] = pc[u]
          /\ pc[Usb] \in {"wait", "handle"}
          /\ UNCHANGED <<job, g_bulkin_req, g_bulkout_req, g_hDev, hand>>
      BY <1>1, UsbIdleThread DEF host
    <2>2. ~Busy(Usb) /\ ~Busy(Usb)' /\ Usb \in Thread
      BY <2>1, ThreadParts DEF Busy
    <2>3. Paired' /\ MagicRead'
      BY <2>1 DEF PairInv, Paired, MagicRead
    <2>4. OnBus'
      <3>1. \A u \in Thread : Busy(u) => u # Usb
        BY <2>2
      <3> QED BY <2>1, <3>1, SameOnBus DEF PairInv
    <2>5. \A u \in Thread : HandOf(u)' /\ AnswerOf(u)'
      <3> TAKE u \in Thread
      <3>1. CASE u = Usb
        BY <2>2, <3>1, IdlePair
      <3>2. CASE u # Usb
        BY <2>1, <3>2, SamePair DEF PairInv
      <3> QED BY <3>1, <3>2
    <2> QED BY <2>3, <2>4, <2>5 DEF PairInv
  <1>2. CASE UsbAttach \/ UsbMagic
    <2>1. /\ \A u \in Thread : Busy(u)' <=> Busy(u)
          /\ ~Busy(Usb)
          /\ \A u \in Thread \ {Usb} : pc'[u] = pc[u] /\ job'[u] = job[u]
          /\ UNCHANGED <<g_bulkin_req, g_bulkout_req, g_hDev, hand>>
          /\ job'[Usb].reply = NULL
      BY <1>2, UsbAttachThread, UsbMagicThread
    <2>2. job'[Usb].todo = <<R("magic")>> => job'[Usb].op = "attach"
      <3>1. CASE UsbAttach
        BY <3>1, UsbAttachThread
      <3>2. CASE UsbMagic
        <4>1. <<>> # <<R("magic")>> /\ NoJob.todo = <<>>
          BY DEF NoJob
        <4>2. NewJob("hello", 0).todo # <<R("magic")>>
          BY ScriptStarts DEF NewJob
        <4>3. job' = [job EXCEPT ![Usb] = NewJob("hello", 0)] \/ job' = [job EXCEPT ![Usb] = NoJob]
          BY <3>2 DEF UsbMagic
        <4> HIDE DEF NewJob
        <4>4. job'[Usb] = NewJob("hello", 0) \/ job'[Usb] = NoJob
          BY <4>3, ThreadParts
        <4> QED BY <4>1, <4>2, <4>4
      <3> QED BY <1>2, <3>1, <3>2
    <2>3. Paired' /\ MagicRead'
      BY <2>1, <2>2 DEF PairInv, Paired, MagicRead
    <2>4. OnBus'
      <3>1. \A u \in Thread : Busy(u) => u # Usb
        BY <2>1
      <3> QED BY <2>1, <3>1, SameOnBus DEF PairInv
    <2>5. \A u \in Thread : HandOf(u)' /\ AnswerOf(u)'
      <3> TAKE u \in Thread
      <3>1. CASE u = Usb
        BY <2>1, <3>1, IdlePair
      <3>2. CASE u # Usb
        BY <2>1, <3>2, SamePair DEF PairInv
      <3> QED BY <3>1, <3>2
    <2> QED BY <2>3, <2>4, <2>5 DEF PairInv
  <1>3. CASE UsbHello
    <2>1. pc[Usb] # "BULKIN"
      BY <1>3 DEF UsbHello
    <2> QED BY <1>3, <2>1, UsbHelloThread, ThreadParts, SignalPair
  <1> QED BY <1>1, <1>2, <1>3 DEF UsbStep

\* The PC takes a transfer: of the busy thread, for its own next write.
LEMMA TakenPair ==
  ASSUME ThreadInv, PairInv, Recv, UNCHANGED g_hDev,
         hand' = NULL \/ hand' = g_bulkin_req.msg
           \/ (hand' = hand /\ g_bulkin_req.msg.kind = "data")
  PROVE  PairInv'
  <1>0. /\ OnlyWakes({"BULKIN"}) /\ g_hDev /\ g_bulkin_req.st = "pend"
        /\ g_bulkin_req'.st = "done" /\ UNCHANGED <<g_bulkout_req, job>>
    BY RecvEffect, ThreadParts DEF OnlyWakes
  <1>1. PICK t \in Thread :
          /\ Busy(t) /\ pc[t] = "BULKIN"
          /\ g_bulkin_req.msg = M(Head(job[t].todo).kind, t, job[t].seq)
    BY <1>0 DEF PairInv, OnBus
  <1>2. \A u \in Thread : Busy(u)' <=> Busy(u)
    <2>1. \A u \in Thread : \/ pc'[u] = pc[u]
                            \/ pc[u] \in {"BULKIN", "BULKOUT"} /\ pc'[u] = "woken"
      BY <1>0 DEF OnlyWakes
    <2>2. UNCHANGED psp
      BY <1>0 DEF OnlyWakes, psp
    <2> QED BY <2>1, <2>2, WokenThreads
  <1>3. \A u \in Thread \ {t} : ~Busy(u)'
    BY <1>1, <1>2, OneBusy, ThreadParts
  <1>4. /\ job[t].todo # <<>> /\ Head(job[t].todo).dir = "w"
        /\ g_bulkin_req.msg.kind = Head(job[t].todo).kind
        /\ Own(g_bulkin_req.msg, t)
    BY <1>1, ThreadParts DEF ScriptsOK, M, Own
  <1>5. Paired' /\ MagicRead'
    BY <1>0 DEF PairInv, Paired, MagicRead
  <1>6. OnBus'
    BY <1>0 DEF OnBus
  <1>7. hand' # NULL => Own(hand', t)
    <2>1. CASE hand' = hand /\ g_bulkin_req.msg.kind = "data"
      <3>1. Begun(t)
        BY <1>1, <1>4, <2>1, ReaderBegun
      <3> QED BY <1>0, <1>1, <2>1, <3>1 DEF PairInv, HandOf
    <2> QED BY <1>4, <2>1
  <1>8. \A u \in Thread : HandOf(u)' /\ AnswerOf(u)'
    <2> TAKE u \in Thread
    <2>1. CASE u = t
      <3>1. AnswerOf(u)'
        BY <1>0, <1>4, <2>1 DEF AnswerOf
      <3>2. HandOf(u)'
        BY <1>0, <1>7, <2>1 DEF HandOf, Own
      <3> QED BY <3>1, <3>2
    <2>2. CASE u # t
      BY <1>3, <2>2, IdlePair
    <2> QED BY <2>1, <2>2
  <1> QED BY <1>5, <1>6, <1>8 DEF PairInv

\* The PC sends the magic, or the answer to the command in its hand.
LEMMA SentPair ==
  ASSUME ThreadInv, PairInv, NEW m \in Msg, Send(m), UNCHANGED g_hDev,
         hand' = NULL \/ hand' = hand,
         m.kind = "magic"
           \/ (hand # NULL /\ m.kind \in {"resp", "rdata"} /\ m.who = hand.who /\ m.seq = hand.seq)
  PROVE  PairInv'
  <1>0. /\ OnlyWakes({"BULKOUT"}) /\ g_hDev
        /\ UNCHANGED <<g_bulkin_req, job>>
    BY SendEffect, ThreadParts DEF OnlyWakes
  <1>1. g_bulkout_req'.msg = m
    BY SendEffect, RequestTypes, ThreadParts
  <1>2. /\ \A u \in Thread : Busy(u)' <=> Busy(u)
        /\ \A u \in Thread : pc'[u] = pc[u] \/ (pc[u] = "BULKOUT" /\ pc'[u] = "woken")
    <2>1. \A u \in Thread : \/ pc'[u] = pc[u]
                            \/ pc[u] \in {"BULKIN", "BULKOUT"} /\ pc'[u] = "woken"
      BY <1>0 DEF OnlyWakes
    <2>2. UNCHANGED psp
      BY <1>0 DEF OnlyWakes, psp
    <2> QED BY <1>0, <2>1, <2>2, WokenThreads DEF OnlyWakes
  <1>3. Paired' /\ MagicRead'
    BY <1>0 DEF PairInv, Paired, MagicRead
  <1>4. OnBus'
    <2>1. \A u \in Thread : pc[u] = "BULKIN" => pc'[u] = "BULKIN"
      BY <1>2
    <2> QED BY <1>0, <1>2, <2>1, SameOnBus DEF PairInv
  <1>5. \A u \in Thread : Busy(u) /\ pc[u] = "BULKOUT" => Begun(u)
    BY ReaderBegun, ThreadParts DEF ScriptsOK
  <1>6. ASSUME NEW u \in Thread, Busy(u), pc[u] \in {"BULKOUT", "woken"}, Head(job[u].todo).dir = "r"
        PROVE  hand # NULL => Own(hand, u)
    <2>1. Begun(u)
      BY <1>6, ReaderBegun, ThreadParts DEF ScriptsOK
    <2> QED BY <1>0, <1>6, <2>1 DEF PairInv, HandOf
  <1>7. \A u \in Thread : HandOf(u)' /\ AnswerOf(u)'
    <2> TAKE u \in Thread
    <2>1. HandOf(u)'
      <3>1. CASE pc'[u] = pc[u]
        BY <1>0, <1>2, <3>1 DEF PairInv, HandOf, Begun, Own
      <3>2. CASE pc[u] = "BULKOUT" /\ pc'[u] = "woken"
        BY <1>0, <1>2, <1>5, <3>2 DEF PairInv, HandOf, Own
      <3> QED BY <1>2, <3>1, <3>2
    <2>2. AnswerOf(u)'
      <3> SUFFICES ASSUME Busy(u)', pc'[u] \in {"BULKOUT", "woken"},
                          Head(job'[u].todo).dir = "r", m.kind # "magic"
                   PROVE  m.kind \in {"resp", "rdata"} /\ m.who = u /\ m.seq = job'[u].seq
        BY <1>1 DEF AnswerOf, Own
      <3>1. pc[u] \in {"BULKOUT", "woken"} /\ Busy(u) /\ Head(job[u].todo).dir = "r"
        BY <1>0, <1>2
      <3>2. Own(hand, u)
        BY <1>6, <3>1
      <3> QED BY <1>0, <3>2 DEF Own
    <2> QED BY <2>1, <2>2
  <1> QED BY <1>3, <1>4, <1>7 DEF PairInv

\* Everything on the bus is cancelled, and the handle of the PC is gone.
LEMMA CancelPair ==
  ASSUME ThreadInv, PairInv, NEW events \in SUBSET {"ATTACH", "DETACH"},
         CancelAll(events), UNCHANGED psp, ~g_hDev'
  PROVE  PairInv'
  <1>0. /\ OnlyWakes({"BULKIN", "BULKOUT"}) /\ UNCHANGED job
        /\ g_bulkin_req' = Cancelled(g_bulkin_req)
        /\ g_bulkout_req' = Cancelled(g_bulkout_req)
    BY CancelEffect, ThreadParts DEF OnlyWakes
  <1>1. /\ g_bulkin_req'.st # "pend"
        /\ g_bulkout_req'.ok => g_bulkout_req' = g_bulkout_req
    BY <1>0, RequestTypes, ThreadParts DEF LinkType
  <1>2. /\ \A u \in Thread : Busy(u)' <=> Busy(u)
        /\ \A u \in Thread : \/ pc'[u] = pc[u]
                             \/ pc[u] \in {"BULKIN", "BULKOUT"} /\ pc'[u] = "woken"
    BY <1>0, WokenThreads DEF OnlyWakes
  <1>3. Paired' /\ MagicRead'
    BY <1>0 DEF PairInv, Paired, MagicRead
  <1>4. OnBus'
    BY <1>1 DEF OnBus
  <1>5. \A u \in Thread : HandOf(u)'
    BY DEF HandOf
  <1>6. \A u \in Thread : AnswerOf(u)'
    <2> TAKE u \in Thread
    <2>1. CASE pc[u] = "BULKIN"
      <3>1. Head(job'[u].todo).dir = "w" /\ "w" # "r"
        BY <1>0, <2>1, ThreadParts DEF ScriptsOK
      <3> QED BY <3>1 DEF AnswerOf
    <2>2. CASE pc[u] # "BULKIN"
      <3>1. pc'[u] \in {"BULKOUT", "woken"} => pc[u] \in {"BULKOUT", "woken"}
        BY <1>2, <2>2
      <3> QED BY <1>0, <1>1, <1>2, <3>1 DEF PairInv, AnswerOf, Own
    <2> QED BY <2>1, <2>2
  <1> QED BY <1>3, <1>4, <1>5, <1>6 DEF PairInv

LEMMA BusPair ==
  ASSUME ThreadInv, PairInv, BusStep
  PROVE  PairInv'
  <1>1. CASE PcOpen \/ PcBroken \/ PcTimeout \/ PcAsync \/ Plug
    <2>1. /\ UNCHANGED <<job, pc, g_bulkin_req, g_bulkout_req>>
          /\ hand' = NULL \/ (hand' = hand /\ g_hDev' = g_hDev)
      <3>1. CASE PcOpen
        BY <3>1, ThreadParts DEF PcOpen, psp, LinkType, InHandler
      <3>2. CASE PcBroken \/ PcTimeout
        BY <3>2 DEF PcBroken, PcTimeout, InHand, psp
      <3>3. CASE PcAsync \/ Plug
        BY <3>3 DEF PcAsync, Plug, psp, host
      <3> QED BY <1>1, <3>1, <3>2, <3>3
    <2>2. \A u \in Thread : Busy(u)' <=> Busy(u)
      BY <2>1 DEF Busy
    <2>3. Paired' /\ MagicRead' /\ OnBus'
      BY <2>1, <2>2 DEF PairInv, Paired, MagicRead, OnBus
    <2>4. \A u \in Thread : HandOf(u)' /\ AnswerOf(u)'
      BY <2>1, <2>2 DEF PairInv, HandOf, AnswerOf, Begun, Own
    <2> QED BY <2>3, <2>4 DEF PairInv
  <1>2. CASE PcMagic
    <2>1. M("magic", Usb, 0) \in Msg /\ M("magic", Usb, 0).kind = "magic"
      BY PcMessages, ThreadParts DEF M
    <2> QED BY <1>2, <2>1, SentPair DEF PcMagic
  <1>3. CASE PcRead
    BY <1>3, TakenPair DEF PcRead
  <1>4. CASE PcData
    <2>1. /\ Recv /\ UNCHANGED g_hDev
          /\ hand' = NULL \/ (hand' = hand /\ g_bulkin_req.msg.kind = "data")
      BY <1>4 DEF PcData, InHand
    <2> QED BY <2>1, TakenPair
  <1>5. CASE PcReply
    <2>0. hand \in Msg /\ hand # NULL /\ LinkType
      BY <1>5, ThreadParts DEF PcReply, LinkType, InHandler
    <2>1. PICK more \in BOOLEAN : Send([M("resp", hand.who, hand.seq) EXCEPT !.more = more])
      BY <1>5 DEF PcReply
    <2> DEFINE m == [M("resp", hand.who, hand.seq) EXCEPT !.more = more]
    <2>2. m \in Msg
      BY <2>0, <2>1, PcMessages
    <2>3. m.kind = "resp" /\ m.who = hand.who /\ m.seq = hand.seq
      BY DEF M
    <2>4. UNCHANGED g_hDev /\ (hand' = NULL \/ hand' = hand)
      BY <1>5 DEF PcReply, InHand
    <2> HIDE DEF m
    <2>5. Send(m)
      BY <2>1 DEF m
    <2> QED BY <2>0, <2>2, <2>3, <2>4, <2>5, SentPair
  <1>6. CASE PcReplyData
    <2> DEFINE m == M("rdata", hand.who, hand.seq)
    <2>0. hand \in Msg /\ hand # NULL /\ LinkType
      BY <1>6, ThreadParts DEF PcReplyData, LinkType, InHandler
    <2>1. m \in Msg
      BY <2>0, PcMessages
    <2>2. m.kind = "rdata" /\ m.who = hand.who /\ m.seq = hand.seq
      BY DEF M
    <2>3. Send(m) /\ UNCHANGED g_hDev /\ (hand' = NULL \/ hand' = hand)
      BY <1>6 DEF PcReplyData, InHand
    <2> HIDE DEF m
    <2> QED BY <2>0, <2>1, <2>2, <2>3, SentPair
  <1>7. CASE PcReset
    <2>1. CancelAll({"DETACH", "ATTACH"}) /\ UNCHANGED psp /\ ~g_hDev'
      BY <1>7 DEF PcReset
    <2> QED BY <2>1, CancelPair
  <1>8. CASE Unplug
    <2>1. CancelAll({"DETACH"}) /\ UNCHANGED psp /\ ~g_hDev'
      BY <1>8 DEF Unplug
    <2> QED BY <2>1, CancelPair
  <1> QED BY <1>1, <1>2, <1>3, <1>4, <1>5, <1>6, <1>7, <1>8 DEF BusStep, PcStep

LEMMA NextPair == ThreadInv /\ PairInv /\ [Next]_vars => PairInv'
  <1> SUFFICES ASSUME ThreadInv, PairInv, [Next]_vars PROVE PairInv'
    OBVIOUS
  <1>1. CASE \E t \in Client, op \in Ops : Call(t, op)
    BY <1>1, CallPair
  <1>2. CASE \E t \in Thread : ThreadStep(t)
    BY <1>2, SubmitWritePair, SubmitReadPair, WriteEndPair, ReadDonePair, WaitSemaPair,
       LockBusPair, FinishPair DEF ThreadStep
  <1>3. CASE UsbStep
    BY <1>3, UsbPair
  <1>4. CASE BusStep
    BY <1>4, BusPair
  <1>5. CASE UNCHANGED vars
    BY <1>5 DEF vars, PairInv, Paired, OnBus, MagicRead, HandOf, AnswerOf, Begun, Own, Busy
  <1> QED BY <1>1, <1>2, <1>3, <1>4, <1>5 DEF Next, BusStep

-----------------------------------------------------------------------------
(* The framing of commands that are followed by data, on a bus slower than *)
(* the PSP.                                                                *)

\* What comes after what in a rest.
LEMMA TodosFrame ==
  ASSUME NEW s \in Todos, s # <<>>, s \notin Odd
  PROVE  /\ Head(s).dir \in {"w", "r"}
         /\ Head(s).dir = "w" /\ Head(s).kind \in {"put", "bulk"} =>
              /\ Tail(s) # <<>> /\ Head(Tail(s)).dir = "w"
              /\ Head(Tail(s)).kind = IF Head(s).kind = "put" THEN "data" ELSE "bulkdata"
         /\ Tail(s) # <<>> /\ Head(Tail(s)).dir = "w" =>
              /\ Head(s).dir = "w"
              /\ \/ Head(s).kind = "put" /\ Head(Tail(s)).kind = "data"
                 \/ Head(s).kind = "bulk" /\ Head(Tail(s)).kind = "bulkdata"
         /\ Head(s).dir = "r" => Tail(s) = <<>>
         /\ Tail(s) \notin Odd
  <1> DEFINE mis == [dir |-> "misaligned"]
  <1>0. /\ \A k : W(k).dir = "w" /\ W(k).kind = k
        /\ \A k : R(k).dir = "r" /\ R(k).kind = k
        /\ mis.dir = "misaligned"
        /\ Odd = {<<W("bulk"), mis>>, <<mis>>}
    BY DEF W, R, Odd
  <1> HIDE DEF mis
  <1>e. <<>> \notin Odd
    BY <1>0
  <1>r. <<R("resp")>> \notin Odd /\ <<W("bulkdata")>> \notin Odd
    <2>1. /\ Head(<<R("resp")>>).dir = "r" /\ Head(<<W("bulkdata")>>).kind = "bulkdata"
          /\ Head(<<W("bulkdata")>>).dir = "w"
          /\ Head(<<W("bulk"), mis>>).kind = "bulk" /\ Head(<<W("bulk"), mis>>).dir = "w"
          /\ Head(<<mis>>).dir = "misaligned"
      BY <1>0, Tuples
    <2> QED BY <1>0, <2>1
  <1>1. CASE s = <<W("put"), W("data"), R("resp")>>
    <2>1. Head(s) = W("put") /\ Tail(s) = <<W("data"), R("resp")>> /\ Head(Tail(s)) = W("data")
      BY <1>1, Tuples
    <2>2. <<W("data"), R("resp")>> \notin Odd
      <3>1. Head(<<W("data"), R("resp")>>).kind = "data" /\ Head(<<W("data"), R("resp")>>).dir = "w"
            /\ Head(<<W("bulk"), mis>>).kind = "bulk" /\ Head(<<mis>>).dir = "misaligned"
        BY <1>0, Tuples
      <3> QED BY <1>0, <3>1
    <2>3. Tail(s) # <<>>
      BY <2>1
    <2> QED BY <1>0, <2>1, <2>2, <2>3
  <1>2. CASE s \in {<<W("data"), R("resp")>>, <<W("get"), R("resp")>>, <<W("hello"), R("resp")>>}
    <2>1. PICK k \in {"data", "get", "hello"} : s = <<W(k), R("resp")>>
      BY <1>2
    <2>2. Head(s) = W(k) /\ Tail(s) = <<R("resp")>> /\ Head(Tail(s)) = R("resp")
      BY <2>1, Tuples
    <2> QED BY <1>0, <1>r, <2>1, <2>2
  <1>3. CASE s = <<W("bulk"), W("bulkdata")>>
    <2>1. Head(s) = W("bulk") /\ Tail(s) = <<W("bulkdata")>> /\ Head(Tail(s)) = W("bulkdata")
      BY <1>3, Tuples
    <2>2. Tail(s) # <<>>
      BY <2>1
    <2> QED BY <1>0, <1>r, <2>1, <2>2
  <1>4. CASE \E e \in {R("resp"), R("rdata"), R("magic"), W("async"), W("bulkdata")} : s = <<e>>
    <2>1. PICK e \in {R("resp"), R("rdata"), R("magic"), W("async"), W("bulkdata")} : s = <<e>>
      BY <1>4
    <2>2. Head(s) = e /\ Tail(s) = <<>>
      BY <2>1, Tuples
    <2> QED BY <1>0, <1>e, <2>1, <2>2
  <1> QED BY <1>0, <1>1, <1>2, <1>3, <1>4 DEF Todos, mis

\* Its script is one of those a client starts when "bulk16" is not called.
LEMMA ScriptFrame ==
  ASSUME NEW op \in CallOps \cup {"hello", "attach"}, op # "bulk16"
  PROVE  /\ Script(op) \notin Odd
         /\ op = "lock" => Script(op) = <<>>
         /\ Script(op) # <<>> /\ Head(Script(op)).dir = "w" =>
              Head(Script(op)).kind \notin {"data", "bulkdata"}
  <1> DEFINE mis == [dir |-> "misaligned"]
  <1>0. /\ \A k : W(k).dir = "w" /\ W(k).kind = k
        /\ \A k : R(k).dir = "r" /\ R(k).kind = k
        /\ mis.dir = "misaligned"
        /\ Odd = {<<W("bulk"), mis>>, <<mis>>}
        /\ Head(<<W("bulk"), mis>>) = W("bulk") /\ Tail(<<W("bulk"), mis>>) = <<mis>>
        /\ Head(<<mis>>) = mis
    BY Tuples DEF W, R, Odd
  <1> HIDE DEF mis
  <1>1. op \in {"put", "get", "async", "hello"} => /\ Head(Script(op)).dir = "w"
                                                   /\ Head(Script(op)).kind = op
    <2>1. CASE op = "put"
      <3>1. Script(op) = <<W("put"), W("data"), R("resp")>>
        BY <2>1 DEF Script
      <3> QED BY <1>0, <2>1, <3>1, Tuples
    <2>2. CASE op \in {"get", "hello"}
      <3>1. Script(op) = <<W(op), R("resp")>>
        BY <2>2 DEF Script
      <3> QED BY <1>0, <2>2, <3>1, Tuples
    <2>3. CASE op = "async"
      <3>1. Script(op) = <<W("async")>>
        BY <2>3 DEF Script
      <3> QED BY <1>0, <2>3, <3>1, Tuples
    <2> QED BY <2>1, <2>2, <2>3
  <1>2. CASE op \in {"put", "get", "async", "hello"}
    BY <1>0, <1>1, <1>2
  <1>3. CASE op = "bulk"
    <2>1. Script(op) = <<W("bulk"), W("bulkdata")>>
      BY <1>3 DEF Script
    <2>2. Head(Script(op)) = W("bulk") /\ Tail(Script(op)) = <<W("bulkdata")>>
      BY <2>1, Tuples
    <2>3. Head(<<W("bulkdata")>>) = W("bulkdata")
      BY Tuples
    <2>4. <<W("bulkdata")>> # <<mis>>
      BY <1>0, <2>3
    <2>5. Script(op) # <<W("bulk"), mis>>
      BY <1>0, <2>2, <2>4
    <2>6. Script(op) # <<mis>>
      BY <1>0, <2>2
    <2> QED BY <1>0, <1>3, <2>2, <2>5, <2>6
  <1>4. CASE op = "lock"
    <2>1. Script(op) = <<>>
      BY <1>4 DEF Script
    <2> QED BY <1>0, <2>1
  <1>5. CASE op = "attach"
    <2>1. Script(op) = <<R("magic")>>
      BY <1>5 DEF Script
    <2>2. Head(Script(op)) = R("magic")
      BY <2>1, Tuples
    <2> QED BY <1>0, <1>5, <2>2
  <1> QED BY <1>2, <1>3, <1>4, <1>5 DEF CallOps

\* Only the busy thread waits for the end of a write, and it is woken.
LEMMA WriterWoken ==
  ASSUME ThreadInv, NEW t \in Thread, Busy(t), pc[t] = "BULKIN",
         NEW bits \in SUBSET {"BULKIN", "BULKOUT"}, "BULKIN" \in bits, SetTransevent(bits)
  PROVE  pc'[t] = "woken"
  <1>1. {u \in Thread : pc[u] = "BULKIN"} = {t}
    <2>1. ASSUME NEW u \in Thread, pc[u] = "BULKIN" PROVE u = t
      <3>1. job[u].todo # <<>> /\ Head(job[u].todo).dir = "w"
        BY <2>1, ThreadParts DEF ScriptsOK
      <3>2. Busy(u)
        BY <2>1, <3>1, AttachReads DEF Busy
      <3> QED BY <3>2, OneBusy, ThreadParts
    <2> QED BY <2>1
  <1>2. PICK S \in SUBSET UNION {{u \in Thread : pc[u] = b} : b \in bits} :
          /\ \A b \in bits : {u \in Thread : pc[u] = b} # {} =>
                               Cardinality(S \cap {u \in Thread : pc[u] = b}) = 1
          /\ pc' = [u \in Thread |-> IF u \in S THEN "woken" ELSE pc[u]]
    BY DEF SetTransevent
  <1>3. Cardinality(S \cap {t}) = 1
    BY <1>1, <1>2
  <1>4. S \cap {t} # {}
    BY <1>3, FS_EmptySet
  <1> QED BY <1>2, <1>4

\* Of a thread that waits, only a completed or cancelled request wakes it.
LEMMA WriterStays ==
  ASSUME ThreadInv, NEW t \in Thread, pc[t] = "BULKIN", pc'[t] # pc[t],
         NEW events \in SUBSET {"ATTACH", "DETACH"}, CancelAll(events)
  PROVE  g_bulkin_req.st = "pend"
  <1> DEFINE bits == {b \in {"BULKIN", "BULKOUT"} :
       IF b = "BULKIN" THEN g_bulkin_req.st = "pend" ELSE g_bulkout_req.st = "pend"}
  <1>1. SetTransevent(bits) /\ bits \in SUBSET {"BULKIN", "BULKOUT"}
    BY DEF CancelAll
  <1>2. "BULKIN" \in bits => g_bulkin_req.st = "pend"
    OBVIOUS
  <1> HIDE DEF bits
  <1>3. pc[t] \in bits
    BY <1>1, WakeEffect, ThreadParts
  <1> QED BY <1>2, <1>3

\* What t expects is a matter of its own state.
LEMMA SameExpects ==
  ASSUME NEW u \in Thread, NEW st \in {"data", "bulk"},
         \/ ~Busy(u) /\ ~Busy(u)'
         \/ /\ job'[u] = job[u] /\ pc'[u] = pc[u] /\ (Busy(u)' <=> Busy(u))
            /\ g_bulkin_req' = g_bulkin_req
  PROVE  Expects(u, st)' <=> Expects(u, st)
  BY DEF Expects

\* A step of the PSP that leaves alone what the threads expect of the PC.
LEMMA FrameKept ==
  ASSUME ThreadInv, FrameInv, UNCHANGED <<pcst, g_hDev, hand>>,
         \A t \in Thread : /\ job'[t].todo \notin Odd
                           /\ job'[t].op = "lock" => job'[t].todo = <<>>,
         \A t \in Thread : \A st \in {"data", "bulk"} : Expects(t, st)' <=> Expects(t, st),
         \A t \in Thread : pc'[t] = "BULKIN" =>
            \/ pc[t] = "BULKIN" /\ g_bulkin_req' = g_bulkin_req
            \/ g_hDev => g_bulkin_req'.st = "pend"
  PROVE  FrameInv'
  <1>1. \A t \in Thread : \A st \in {"data", "bulk"} : Expects(t, st)' => g_hDev' /\ pcst' = st
    BY DEF FrameInv
  <1>2. g_hDev /\ pcst \in {"data", "bulk"} => hand.who \in Thread
    BY ThreadParts DEF LinkType, InHandler, Msg
  <1>3. g_hDev' /\ pcst' \in {"data", "bulk"} =>
          /\ Expects(hand.who, pcst)'
          /\ pc'[hand'.who] = "BULKIN" => g_bulkin_req'.st = "pend"
    <2> SUFFICES ASSUME g_hDev, pcst \in {"data", "bulk"}
                 PROVE  /\ Expects(hand.who, pcst)'
                        /\ pc'[hand.who] = "BULKIN" => g_bulkin_req'.st = "pend"
      OBVIOUS
    <2>1. Expects(hand.who, pcst) /\ (pc[hand.who] = "BULKIN" => g_bulkin_req.st = "pend")
      BY DEF FrameInv
    <2>2. Expects(hand.who, pcst)'
      <3>1. CASE pcst = "data"
        BY <1>2, <2>1, <3>1 DEF Expects
      <3>2. CASE pcst = "bulk"
        BY <1>2, <2>1, <3>2 DEF Expects
      <3> QED BY <3>1, <3>2
    <2> QED BY <1>2, <2>1, <2>2
  <1> QED BY <1>1, <1>3 DEF FrameInv

\* Nobody expects anything.
LEMMA NothingExpected ==
  ASSUME \A t \in Thread : /\ job'[t].todo \notin Odd
                           /\ job'[t].op = "lock" => job'[t].todo = <<>>,
         ~g_hDev' \/ pcst' \notin {"data", "bulk"},
         \A t \in Thread : \A st \in {"data", "bulk"} : ~Expects(t, st)'
  PROVE  FrameInv'
  BY DEF FrameInv

LEMMA CallFrame ==
  ASSUME "bulk16" \notin Ops, ThreadInv, FrameInv, NEW t \in Client, NEW op \in Ops, Call(t, op)
  PROVE  FrameInv'
  <1>0. /\ t \in Thread /\ ~Busy(t) /\ ~Busy(t)'
        /\ \A u \in Thread : Busy(u)' <=> Busy(u)
        /\ \A u \in Thread \ {t} : job'[u] = job[u] /\ pc'[u] = pc[u]
        /\ pc'[t] = "enter"
        /\ UNCHANGED <<g_bulkin_req, pcst, g_hDev, hand>>
    BY CallThread, ThreadParts DEF Call, host
  <1>1. job'[t].todo = Script(op) /\ job'[t].op = op /\ op \in CallOps /\ op # "bulk16"
    BY <1>0, LinkAssumption, ThreadParts DEF Call, NewJob
  <1>2. \A u \in Thread : /\ job'[u].todo \notin Odd
                          /\ job'[u].op = "lock" => job'[u].todo = <<>>
    <2>1. Script(op) \notin Odd /\ (op = "lock" => Script(op) = <<>>)
      BY <1>1, ScriptFrame
    <2> QED BY <1>0, <1>1, <2>1 DEF FrameInv
  <1>3. \A u \in Thread : \A st \in {"data", "bulk"} : Expects(u, st)' <=> Expects(u, st)
    BY <1>0, SameExpects
  <1>4. \A u \in Thread : pc'[u] = "BULKIN" => pc[u] = "BULKIN"
    BY <1>0
  <1> QED BY <1>0, <1>2, <1>3, <1>4, FrameKept

LEMMA SubmitWriteFrame ==
  ASSUME ThreadInv, SessionInv, FrameInv, NEW t \in Thread, SubmitWrite(t)
  PROVE  FrameInv'
  <1> DEFINE m == M(Head(job[t].todo).kind, t, job[t].seq)
  <1>0. /\ pc[t] = "run" /\ g_bulkin_req' = Submitted(m)
        /\ pc'[t] = "BULKIN" /\ \A u \in Thread \ {t} : pc'[u] = pc[u]
        /\ UNCHANGED <<job, pcst, g_hDev, hand>>
    BY ThreadParts DEF SubmitWrite, psp, host
  <1>1. m \in Msg
    BY ThreadParts, WriteMsg DEF SubmitWrite
  <1> HIDE DEF m
  <1>2. /\ Busy(t) /\ Busy(t)' /\ \A u \in Thread \ {t} : ~Busy(u) /\ ~Busy(u)'
    BY SubmitWriteThread, OneBusy, ThreadParts
  <1>3. g_hDev => g_bulkin_req'.st = "pend"
    BY <1>0, <1>1, RequestTypes, ThreadParts DEF SessionInv
  <1>4. \A u \in Thread : \A st \in {"data", "bulk"} : Expects(u, st)' <=> Expects(u, st)
    <2> TAKE u \in Thread
    <2> TAKE st \in {"data", "bulk"}
    <2>1. CASE u = t
      BY <1>0, <1>2, <2>1 DEF Expects
    <2>2. CASE u # t
      BY <1>2, <2>2, SameExpects
    <2> QED BY <2>1, <2>2
  <1>5. \A u \in Thread : pc'[u] = "BULKIN" =>
            \/ pc[u] = "BULKIN" /\ g_bulkin_req' = g_bulkin_req
            \/ g_hDev => g_bulkin_req'.st = "pend"
    BY <1>3
  <1>6. \A u \in Thread : /\ job'[u].todo \notin Odd
                          /\ job'[u].op = "lock" => job'[u].todo = <<>>
    BY <1>0 DEF FrameInv
  <1> QED BY <1>0, <1>4, <1>5, <1>6, FrameKept

LEMMA SubmitReadFrame ==
  ASSUME ThreadInv, FrameInv, NEW t \in Thread, SubmitRead(t)
  PROVE  FrameInv'
  <1>0. /\ pc[t] = "run" /\ job[t].todo # <<>> /\ Head(job[t].todo).dir = "r"
        /\ \A u \in Thread \ {t} : pc'[u] = pc[u] /\ job'[u] = job[u]
        /\ \/ pc'[t] = "BULKOUT" /\ job'[t] = job[t]
           \/ pc'[t] = "run" /\ job'[t].todo = <<>>
        /\ job'[t].op = job[t].op
        /\ UNCHANGED <<g_bulkin_req, pcst, g_hDev, hand>>
    <2>1. /\ pc[t] = "run" /\ job[t].todo # <<>> /\ Head(job[t].todo).dir = "r"
          /\ UNCHANGED <<g_bulkin_req, pcst, g_hDev, hand>>
      BY DEF SubmitRead, host
    <2>2. CASE pc' = [pc EXCEPT ![t] = "BULKOUT"] /\ UNCHANGED job
      BY <2>1, <2>2, ThreadParts
    <2>3. CASE job' = [job EXCEPT ![t].ok = FALSE, ![t].todo = <<>>] /\ UNCHANGED pc
      BY <2>1, <2>3, ThreadParts DEF Job
    <2> QED BY <2>1, <2>2, <2>3 DEF SubmitRead
  <1>1. \A u \in Thread : Busy(u)' <=> Busy(u)
    BY SubmitReadThread
  <1>2. \A u \in Thread : \A st \in {"data", "bulk"} : Expects(u, st)' <=> Expects(u, st)
    <2> TAKE u \in Thread
    <2> TAKE st \in {"data", "bulk"}
    <2>1. CASE u = t
      <3>1. "r" # "w"
        OBVIOUS
      <3> QED BY <1>0, <2>1, <3>1 DEF Expects
    <2>2. CASE u # t
      BY <1>0, <1>1, <2>2, SameExpects
    <2> QED BY <2>1, <2>2
  <1>3. \A u \in Thread : pc'[u] = "BULKIN" => pc[u] = "BULKIN"
    BY <1>0
  <1>4. \A u \in Thread : /\ job'[u].todo \notin Odd
                          /\ job'[u].op = "lock" => job'[u].todo = <<>>
    <2>1. <<>> \notin Odd
      BY DEF Odd
    <2> QED BY <1>0, <2>1 DEF FrameInv
  <1> QED BY <1>0, <1>2, <1>3, <1>4, FrameKept

\* The end of a write: after the command of a put or a bulk write comes its data.
LEMMA WriteDoneFrame ==
  ASSUME ThreadInv, FrameInv, NEW t \in Thread, WriteDone(t)
  PROVE  FrameInv'
  <1>0. /\ Busy(t) /\ pc[t] = "woken" /\ job[t].todo # <<>> /\ Head(job[t].todo).dir = "w"
        /\ pc'[t] = "run"
        /\ \A u \in Thread \ {t} : pc'[u] = pc[u] /\ job'[u] = job[u]
        /\ job'[t].op = job[t].op
        /\ g_bulkin_req.ok => job'[t].todo = Tail(job[t].todo)
        /\ ~g_bulkin_req.ok => job'[t].todo = <<>>
        /\ \A u \in Thread : Busy(u)' <=> Busy(u)
        /\ UNCHANGED <<g_bulkin_req, pcst, g_hDev, hand>>
    BY WriteDoneJob, WriteDoneThread, ThreadParts DEF WriteDone, host
  <1>1. job[t].todo \in Todos /\ job[t].todo \notin Odd
    BY ThreadParts DEF FrameInv, Job
  <1> DEFINE s == job[t].todo
  <1>2. /\ Head(s).kind \in {"put", "bulk"} =>
              /\ Tail(s) # <<>> /\ Head(Tail(s)).dir = "w"
              /\ Head(Tail(s)).kind = IF Head(s).kind = "put" THEN "data" ELSE "bulkdata"
        /\ Tail(s) # <<>> /\ Head(Tail(s)).dir = "w" =>
              \/ Head(s).kind = "put" /\ Head(Tail(s)).kind = "data"
              \/ Head(s).kind = "bulk" /\ Head(Tail(s)).kind = "bulkdata"
        /\ Tail(s) \notin Odd
    BY <1>0, <1>1, TodosFrame
  <1>3. \A u \in Thread : \A st \in {"data", "bulk"} : Expects(u, st)' <=> Expects(u, st)
    <2> TAKE u \in Thread
    <2> TAKE st \in {"data", "bulk"}
    <2>1. CASE u = t
      <3>1. Expects(t, st) <=> Head(s).kind = First(st) /\ g_bulkin_req.ok
        BY <1>0 DEF Expects
      <3>2. Expects(t, st)' <=> job'[t].todo # <<>> /\ Head(job'[t].todo).dir = "w"
                                /\ Head(job'[t].todo).kind = Second(st)
        BY <1>0 DEF Expects
      <3>3. CASE ~g_bulkin_req.ok
        BY <1>0, <2>1, <3>1, <3>2, <3>3
      <3>4. CASE g_bulkin_req.ok
        BY <1>0, <1>2, <2>1, <3>1, <3>2, <3>4 DEF First, Second
      <3> QED BY <3>3, <3>4
    <2>2. CASE u # t
      BY <1>0, <2>2, SameExpects
    <2> QED BY <2>1, <2>2
  <1>4. \A u \in Thread : pc'[u] = "BULKIN" => pc[u] = "BULKIN"
    BY <1>0
  <1>5. \A u \in Thread : /\ job'[u].todo \notin Odd
                          /\ job'[u].op = "lock" => job'[u].todo = <<>>
    <2>1. <<>> \notin Odd
      BY DEF Odd
    <2>2. job[t].op # "lock"
      BY <1>0 DEF FrameInv
    <2> QED BY <1>0, <1>2, <2>1, <2>2 DEF FrameInv
  <1> QED BY <1>0, <1>3, <1>4, <1>5, FrameKept

LEMMA ReadDoneFrame ==
  ASSUME ThreadInv, FrameInv, NEW t \in Thread, ReadDone(t)
  PROVE  FrameInv'
  <1>0. /\ pc[t] = "woken" /\ pc'[t] = "run"
        /\ job[t].todo # <<>> /\ Head(job[t].todo).dir = "r"
        /\ \A u \in Thread \ {t} : pc'[u] = pc[u] /\ job'[u] = job[u]
        /\ job'[t].op = job[t].op
        /\ \A u \in Thread : Busy(u)' <=> Busy(u)
        /\ UNCHANGED <<g_bulkin_req, pcst, g_hDev, hand>>
    BY ReadDoneJob, ReadDoneThread, ThreadParts DEF ReadDone, host
  <1>1. job'[t].todo \in {<<>>, job[t].todo, <<R("rdata")>>, Tail(job[t].todo)}
    BY ReadDoneJob
  <1>2. job[t].todo \in Todos /\ job[t].todo \notin Odd
    BY ThreadParts DEF FrameInv, Job
  <1>3. Tail(job[t].todo) = <<>>
    BY <1>0, <1>2, TodosFrame
  <1>4. <<>> \notin Odd /\ <<R("rdata")>> \notin Odd /\ Head(<<R("rdata")>>).dir = "r"
    <2>1. <<>> \notin Odd
      BY DEF Odd
    <2>2. Head(<<R("rdata")>>).dir = "r"
      BY Tuples DEF R
    <2>3. /\ Head(<<W("bulk"), [dir |-> "misaligned"]>>).dir = "w"
          /\ Head(<<[dir |-> "misaligned"]>>).dir = "misaligned"
      BY Tuples DEF W
    <2> QED BY <2>1, <2>2, <2>3 DEF Odd
  <1>5. job'[t].todo = <<>> \/ Head(job'[t].todo).dir = "r"
    BY <1>0, <1>1, <1>3, <1>4
  <1>6. \A u \in Thread : \A st \in {"data", "bulk"} : Expects(u, st)' <=> Expects(u, st)
    <2> TAKE u \in Thread
    <2> TAKE st \in {"data", "bulk"}
    <2>1. CASE u = t
      <3>1. "r" # "w"
        OBVIOUS
      <3> QED BY <1>0, <1>5, <2>1, <3>1 DEF Expects
    <2>2. CASE u # t
      BY <1>0, <2>2, SameExpects
    <2> QED BY <2>1, <2>2
  <1>7. \A u \in Thread : pc'[u] = "BULKIN" => pc[u] = "BULKIN"
    BY <1>0
  <1>8. \A u \in Thread : /\ job'[u].todo \notin Odd
                          /\ job'[u].op = "lock" => job'[u].todo = <<>>
    <2>1. job[t].op # "lock"
      BY <1>0 DEF FrameInv
    <2>2. job'[t].todo \notin Odd
      BY <1>1, <1>2, <1>3, <1>4
    <2> QED BY <1>0, <2>1, <2>2 DEF FrameInv
  <1> QED BY <1>0, <1>6, <1>7, <1>8, FrameKept

\* A thread that is about to start its script expects nothing.
LEMMA StartExpects ==
  ASSUME ThreadInv, FrameInv, NEW u \in Thread, pc[u] \in {"enter", "sema"},
         pc'[u] \in {"run", "sema"}, job'[u] = job[u], NEW st \in {"data", "bulk"}
  PROVE  ~Expects(u, st) /\ ~Expects(u, st)'
  <1>1. job[u].todo = Script(job[u].op) /\ job[u].op \in CallOps \cup {"hello", "attach"}
    <2>1. job[u].op # NULL
      BY ThreadParts DEF PlacesOK
    <2> QED BY <2>1, ThreadParts DEF ScriptsOK, Job
  <1>2. job[u].op # "bulk16"
    <2>1. Script("bulk16") = <<W("bulk"), [dir |-> "misaligned"]>>
      BY DEF Script
    <2> QED BY <1>1, <2>1 DEF FrameInv, Odd
  <1>3. job[u].todo # <<>> /\ Head(job[u].todo).dir = "w" =>
          Head(job[u].todo).kind \notin {"data", "bulkdata"}
    BY <1>1, <1>2, ScriptFrame
  <1>4. Second(st) \in {"data", "bulkdata"}
    BY DEF Second
  <1>5. ~Expects(u, st)
    BY DEF Expects
  <1>6. ~Expects(u, st)'
    BY <1>3, <1>4 DEF Expects
  <1> QED BY <1>5, <1>6

LEMMA WaitSemaFrame ==
  ASSUME ThreadInv, FrameInv, NEW t \in Thread, WaitSema(t)
  PROVE  FrameInv'
  <1>0. /\ UNCHANGED <<job, g_bulkin_req, pcst, g_hDev, hand>>
        /\ pc[t] = "enter"
        /\ pc'[t] \in {"run", "sema"}
        /\ \A u \in Thread \ {t} : pc'[u] = pc[u] /\ (Busy(u)' <=> Busy(u))
    BY WaitSemaThread DEF WaitSema, host
  <1>1. \A u \in Thread : \A st \in {"data", "bulk"} : Expects(u, st)' <=> Expects(u, st)
    <2> TAKE u \in Thread
    <2> TAKE st \in {"data", "bulk"}
    <2>1. CASE u = t
      BY <1>0, <2>1, StartExpects
    <2>2. CASE u # t
      BY <1>0, <2>2, SameExpects
    <2> QED BY <2>1, <2>2
  <1>2. \A u \in Thread : pc'[u] = "BULKIN" => pc[u] = "BULKIN"
    BY <1>0
  <1>3. \A u \in Thread : /\ job'[u].todo \notin Odd
                          /\ job'[u].op = "lock" => job'[u].todo = <<>>
    BY <1>0 DEF FrameInv
  <1> QED BY <1>0, <1>1, <1>2, <1>3, FrameKept

LEMMA LockBusFrame ==
  ASSUME ThreadInv, FrameInv, NEW t \in Thread, LockBus(t)
  PROVE  FrameInv'
  <1>0. /\ UNCHANGED <<job, g_bulkin_req, pcst, g_hDev, hand>>
        /\ job[t].op = "lock"
        /\ pc'[t] = "locked" /\ \A u \in Thread \ {t} : pc'[u] = pc[u]
    BY ThreadParts DEF LockBus, psp, host
  <1>1. \A u \in Thread : Busy(u)' <=> Busy(u)
    BY LockBusThread
  <1>2. \A u \in Thread : \A st \in {"data", "bulk"} : Expects(u, st)' <=> Expects(u, st)
    <2> TAKE u \in Thread
    <2> TAKE st \in {"data", "bulk"}
    <2>1. CASE u = t
      BY <1>0, <2>1 DEF Expects, FrameInv
    <2>2. CASE u # t
      BY <1>0, <1>1, <2>2, SameExpects
    <2> QED BY <2>1, <2>2
  <1>3. \A u \in Thread : pc'[u] = "BULKIN" => pc[u] = "BULKIN"
    BY <1>0
  <1>4. \A u \in Thread : /\ job'[u].todo \notin Odd
                          /\ job'[u].op = "lock" => job'[u].todo = <<>>
    BY <1>0 DEF FrameInv
  <1> QED BY <1>0, <1>2, <1>3, <1>4, FrameKept

\* The semaphore goes on from a thread that has ended its exchange.
LEMMA SignalFrame ==
  ASSUME ThreadInv, FrameInv, NEW t \in Thread, Busy(t), ~Busy(t)',
         job[t].todo = <<>> \/ pc[t] = "locked",
         job'[t].op = NULL, job'[t].todo = <<>>,
         \A u \in Thread \ {t} : /\ job'[u] = job[u]
                                 /\ pc'[u] = pc[u] \/ (pc[u] = "sema" /\ pc'[u] = "run"),
         pc'[t] \in {"idle", "handle"},
         UNCHANGED <<g_bulkin_req, pcst, g_hDev, hand>>
  PROVE  FrameInv'
  <1>1. \A u \in Thread : \A st \in {"data", "bulk"} : Expects(u, st)' <=> Expects(u, st)
    <2> TAKE u \in Thread
    <2> TAKE st \in {"data", "bulk"}
    <2>1. CASE u = t
      BY <2>1 DEF Expects
    <2>2. CASE u # t /\ pc'[u] = pc[u]
      <3>1. ~Busy(u)
        BY <2>2, OneBusy, ThreadParts
      <3>2. ~Busy(u)'
        BY <2>2, <3>1 DEF Busy
      <3> QED BY <3>1, <3>2, SameExpects
    <2>3. CASE u # t /\ pc[u] = "sema" /\ pc'[u] = "run"
      BY <2>3, StartExpects
    <2> QED BY <2>1, <2>2, <2>3
  <1>2. \A u \in Thread : pc'[u] = "BULKIN" => pc[u] = "BULKIN"
    OBVIOUS
  <1>3. \A u \in Thread : /\ job'[u].todo \notin Odd
                          /\ job'[u].op = "lock" => job'[u].todo = <<>>
    <2>1. <<>> \notin Odd
      BY DEF Odd
    <2> QED BY <2>1 DEF FrameInv
  <1> QED BY <1>1, <1>2, <1>3, FrameKept

LEMMA FinishFrame ==
  ASSUME ThreadInv, FrameInv, NEW t \in Thread, Finish(t)
  PROVE  FrameInv'
  <1>1. /\ UNCHANGED <<g_bulkin_req, pcst, g_hDev, hand>>
        /\ job[t].todo = <<>> \/ pc[t] = "locked"
    BY DEF Finish, host
  <1> QED BY <1>1, FinishThread, SignalFrame

LEMMA UsbFrame ==
  ASSUME ThreadInv, FrameInv, UsbStep
  PROVE  FrameInv'
  <1>1. CASE UsbHello
    <2>1. job[Usb].todo = <<>>
      BY <1>1 DEF UsbHello
    <2> QED BY <1>1, <2>1, UsbHelloThread, ThreadParts, SignalFrame
  <1>2. CASE ~UsbHello
    <2>1. /\ \A u \in Thread : Busy(u)' <=> Busy(u)
          /\ \A u \in Thread \ {Usb} : pc'[u] = pc[u] /\ job'[u] = job[u]
          /\ ~Busy(Usb)
          /\ pc'[Usb] # "BULKIN"
          /\ UNCHANGED <<g_bulkin_req, pcst, g_hDev, hand>>
      <3>1. CASE UsbWake \/ UsbAsync \/ UsbDetach \/ UsbLoop
        BY <3>1, UsbIdleThread DEF host, Busy
      <3>2. CASE UsbAttach
        BY <3>2, UsbAttachThread
      <3>3. CASE UsbMagic
        BY <3>3, UsbMagicThread
      <3> QED BY <1>2, <3>1, <3>2, <3>3 DEF UsbStep
    <2>2. /\ job'[Usb].todo \notin Odd
          /\ job'[Usb].op = "lock" => job'[Usb].todo = <<>>
      <3>1. CASE UsbWake \/ UsbAsync \/ UsbDetach \/ UsbLoop
        BY <3>1, UsbIdleThread, ThreadParts DEF FrameInv
      <3>2. CASE UsbAttach \/ UsbMagic
        <4>1. /\ NoJob.todo \notin Odd /\ NoJob.op # "lock"
              /\ NewJob("hello", 0).todo \notin Odd /\ NewJob("hello", 0).op # "lock"
              /\ NewJob("attach", 0).todo \notin Odd /\ NewJob("attach", 0).op # "lock"
          <5>1. /\ Script("hello") \notin Odd /\ Script("attach") \notin Odd
            BY ScriptFrame
          <5>2. <<>> \notin Odd /\ NULL # "lock"
            BY ThreadParts DEF Odd, CallOps
          <5> QED BY <5>1, <5>2 DEF NoJob, NewJob
        <4>2. \E j \in {NewJob("hello", 0), NewJob("attach", 0), NoJob} : job' = [job EXCEPT ![Usb] = j]
          BY <3>2 DEF UsbAttach, UsbMagic
        <4>3. job'[Usb] \in {NewJob("hello", 0), NewJob("attach", 0), NoJob}
          BY <4>2, ThreadParts
        <4> QED BY <4>1, <4>3
      <3> QED BY <1>2, <3>1, <3>2 DEF UsbStep
    <2>3. \A u \in Thread : \A st \in {"data", "bulk"} : Expects(u, st)' <=> Expects(u, st)
      <3> TAKE u \in Thread
      <3> TAKE st \in {"data", "bulk"}
      <3>1. CASE u = Usb
        BY <2>1, <3>1, SameExpects
      <3>2. CASE u # Usb
        BY <2>1, <3>2, SameExpects
      <3> QED BY <3>1, <3>2
    <2>4. \A u \in Thread : pc'[u] = "BULKIN" => pc[u] = "BULKIN"
      BY <2>1
    <2>5. \A u \in Thread : /\ job'[u].todo \notin Odd
                            /\ job'[u].op = "lock" => job'[u].todo = <<>>
      BY <2>1, <2>2 DEF FrameInv
    <2> QED BY <2>1, <2>3, <2>4, <2>5, FrameKept
  <1> QED BY <1>1, <1>2

-----------------------------------------------------------------------------
\* The PC takes a transfer: the command whose data it waits for now, or the
\* data, or a command without any.
LEMMA TakenFrame ==
  ASSUME ThreadInv, PairInv, FrameInv, PcRead \/ PcData
  PROVE  FrameInv'
  <1>0. /\ Recv /\ OnlyWakes({"BULKIN"}) /\ g_hDev /\ g_hDev' /\ g_bulkin_req.st = "pend"
        /\ g_bulkin_req'.st = "done" /\ g_bulkin_req'.ok /\ UNCHANGED <<job>>
    BY RecvEffect, ThreadParts DEF OnlyWakes, PcRead, PcData
  <1>1. PICK t \in Thread :
          /\ Busy(t) /\ pc[t] = "BULKIN"
          /\ g_bulkin_req.msg = M(Head(job[t].todo).kind, t, job[t].seq)
    BY <1>0 DEF PairInv, OnBus
  <1> DEFINE k == Head(job[t].todo).kind
  <1>2. /\ g_bulkin_req.msg.kind = k /\ g_bulkin_req.msg.who = t
        /\ job[t].todo # <<>> /\ Head(job[t].todo).dir = "w"
    BY <1>1, ThreadParts DEF M, ScriptsOK
  <1>3. /\ \A u \in Thread : Busy(u)' <=> Busy(u)
        /\ \A u \in Thread \ {t} : ~Busy(u)'
    <2>1. \A u \in Thread : \/ pc'[u] = pc[u]
                            \/ pc[u] \in {"BULKIN", "BULKOUT"} /\ pc'[u] = "woken"
      BY <1>0 DEF OnlyWakes
    <2>2. UNCHANGED psp
      BY <1>0 DEF OnlyWakes, psp
    <2> QED BY <1>1, <2>1, <2>2, WokenThreads, OneBusy, ThreadParts
  <1>4. pc'[t] = "woken"
    BY <1>0, <1>1, WriterWoken DEF Recv
  <1> HIDE DEF k
  <1>5. \A u \in Thread : \A st \in {"data", "bulk"} :
          Expects(u, st)' <=> u = t /\ k = First(st)
    BY <1>0, <1>1, <1>2, <1>3, <1>4 DEF Expects, k
  <1>6. \A st \in {"data", "bulk"} : Expects(t, st) <=> k = Second(st)
    BY <1>1, <1>2 DEF Expects, k
  <1>7. \A u \in Thread : /\ job'[u].todo \notin Odd
                          /\ job'[u].op = "lock" => job'[u].todo = <<>>
    BY <1>0 DEF FrameInv
  <1>8. CASE PcRead
    <2>1. pcst = "loop" /\ pcst' = HandlerFor(k) /\ (pcst' # "loop" => hand' = g_bulkin_req.msg)
      BY <1>2, <1>8 DEF PcRead
    <2>2. \A st \in {"data", "bulk"} : pcst' = st <=> k = First(st)
      BY <2>1 DEF HandlerFor, First
    <2>3. pcst' \in {"data", "bulk"} => hand'.who = t
      BY <1>2, <2>1
    <2>4. \A u \in Thread : \A st \in {"data", "bulk"} : Expects(u, st)' => g_hDev' /\ pcst' = st
      BY <1>0, <1>5, <2>2
    <2>5. pcst' \in {"data", "bulk"} => /\ Expects(hand.who, pcst)'
                                         /\ pc'[hand'.who] # "BULKIN"
      <3>1. CASE pcst' = "data"
        <4>1. Expects(t, "data")'
          BY <1>5, <2>2, <3>1
        <4> QED BY <1>4, <2>3, <3>1, <4>1 DEF Expects
      <3>2. CASE pcst' = "bulk"
        <4>1. Expects(t, "bulk")'
          BY <1>5, <2>2, <3>2
        <4> QED BY <1>4, <2>3, <3>2, <4>1 DEF Expects
      <3> QED BY <3>1, <3>2
    <2> QED BY <1>7, <2>4, <2>5 DEF FrameInv
  <1>9. CASE PcData
    <2>1. pcst \in {"data", "bulk"} /\ pcst' \in {"reply", "loop"}
      BY <1>9 DEF PcData
    <2>2. Expects(hand.who, pcst) /\ hand.who \in Thread
      BY <1>0, <2>1, ThreadParts DEF FrameInv, LinkType, InHandler, Msg
    <2>3. hand.who = t
      BY <1>1, <2>2, OneBusy, ThreadParts DEF Expects
    <2>4. k = Second(pcst)
      BY <1>6, <2>1, <2>2, <2>3
    <2>5. \A st \in {"data", "bulk"} : k # First(st)
      BY <2>4 DEF First, Second
    <2>6. \A u \in Thread : \A st \in {"data", "bulk"} : ~Expects(u, st)'
      BY <1>5, <2>5
    <2> QED BY <1>7, <2>1, <2>6, NothingExpected
  <1> QED BY <1>8, <1>9

\* A step of the bus or the PC that leaves the writers where they are, when no
\* thread expects the PC to take its data.
LEMMA QuietFrame ==
  ASSUME ThreadInv, FrameInv, OnlyWakes({"BULKOUT"}), g_bulkin_req' = g_bulkin_req,
         ~g_hDev \/ pcst \notin {"data", "bulk"},
         ~g_hDev' \/ pcst' \notin {"data", "bulk"}
  PROVE  FrameInv'
  <1>0. UNCHANGED job /\ \A u \in Thread : pc'[u] = pc[u] \/ (pc[u] = "BULKOUT" /\ pc'[u] = "woken")
    BY DEF OnlyWakes
  <1>1. \A u \in Thread : Busy(u)' => Busy(u)
    BY <1>0 DEF Busy
  <1>2. \A u \in Thread : \A st \in {"data", "bulk"} : ~Expects(u, st)'
    <2> TAKE u \in Thread
    <2> TAKE st \in {"data", "bulk"}
    <2>1. ~Expects(u, st)
      BY DEF FrameInv
    <2>2. CASE pc'[u] = pc[u]
      BY <1>0, <1>1, <2>1, <2>2 DEF Expects
    <2>3. CASE pc[u] = "BULKOUT" /\ pc'[u] = "woken"
      <3>1. Head(job'[u].todo).dir = "r" /\ "r" # "w"
        BY <1>0, <2>3, ThreadParts DEF ScriptsOK
      <3> QED BY <3>1 DEF Expects
    <2> QED BY <1>0, <2>2, <2>3
  <1>3. \A u \in Thread : /\ job'[u].todo \notin Odd
                          /\ job'[u].op = "lock" => job'[u].todo = <<>>
    BY <1>0 DEF FrameInv
  <1> QED BY <1>2, <1>3, NothingExpected

\* Everything on the bus is cancelled while every busy thread sleeps.
LEMMA CancelFrame ==
  ASSUME Prompt, BusTurn, ThreadInv, FrameInv, NEW events \in SUBSET {"ATTACH", "DETACH"},
         CancelAll(events), UNCHANGED psp, ~g_hDev'
  PROVE  FrameInv'
  <1>0. /\ OnlyWakes({"BULKIN", "BULKOUT"}) /\ UNCHANGED job
        /\ g_bulkin_req' = Cancelled(g_bulkin_req)
    BY CancelEffect, ThreadParts DEF OnlyWakes
  <1>1. /\ g_bulkin_req.st = "pend" => ~g_bulkin_req'.ok
    BY <1>0, RequestTypes, ThreadParts DEF LinkType
  <1>2. \A u \in Thread : pc[u] \notin {"run", "woken"}
    BY DEF BusTurn, CanRun
  <1>3. /\ \A u \in Thread : \/ pc'[u] = pc[u]
                             \/ pc[u] \in {"BULKIN", "BULKOUT"} /\ pc'[u] = "woken"
        /\ \A u \in Thread : Busy(u)' <=> Busy(u)
    BY <1>0, WokenThreads DEF OnlyWakes
  <1>4. \A u \in Thread : \A st \in {"data", "bulk"} : ~Expects(u, st)'
    <2> TAKE u \in Thread
    <2> TAKE st \in {"data", "bulk"}
    <2> SUFFICES ASSUME Expects(u, st)' PROVE FALSE
      OBVIOUS
    <2>0. Busy(u) /\ job[u].todo # <<>> /\ Head(job[u].todo).dir = "w"
      BY <1>0, <1>3 DEF Expects
    <2>1. CASE pc[u] = "BULKIN" /\ pc'[u] = "woken"
      <3>1. g_bulkin_req.st = "pend"
        BY <2>1, WriterStays
      <3> QED BY <1>1, <2>1, <3>1 DEF Expects
    <2>2. CASE pc[u] = "BULKOUT" /\ pc'[u] = "woken"
      <3>1. Head(job[u].todo).dir = "r"
        BY <2>2, ThreadParts DEF ScriptsOK
      <3> QED BY <2>0, <3>1
    <2>3. CASE pc'[u] = pc[u]
      <3>1. pc[u] = "BULKIN" /\ Head(job[u].todo).kind = Second(st)
        BY <1>0, <1>2, <2>3 DEF Expects
      <3>2. Expects(u, st)
        BY <2>0, <3>1 DEF Expects
      <3>3. g_hDev /\ pcst = st
        BY <3>2 DEF FrameInv
      <3>4. Expects(hand.who, pcst) /\ hand.who \in Thread
        BY <3>3, ThreadParts DEF FrameInv, LinkType, InHandler, Msg
      <3>5. hand.who = u
        BY <2>0, <3>4, OneBusy, ThreadParts DEF Expects
      <3>6. g_bulkin_req.st = "pend"
        BY <3>1, <3>3, <3>5 DEF FrameInv
      <3> DEFINE bits == {b \in {"BULKIN", "BULKOUT"} :
           IF b = "BULKIN" THEN g_bulkin_req.st = "pend" ELSE g_bulkout_req.st = "pend"}
      <3>7. SetTransevent(bits) /\ bits \in SUBSET {"BULKIN", "BULKOUT"}
        BY DEF CancelAll
      <3>8. "BULKIN" \in bits
        BY <3>6
      <3> HIDE DEF bits
      <3>9. pc'[u] = "woken"
        BY <2>0, <3>1, <3>7, <3>8, WriterWoken
      <3> QED BY <2>3, <3>1, <3>9
    <2> QED BY <1>3, <2>1, <2>2, <2>3
  <1>5. \A u \in Thread : /\ job'[u].todo \notin Odd
                          /\ job'[u].op = "lock" => job'[u].todo = <<>>
    BY <1>0 DEF FrameInv
  <1> QED BY <1>4, <1>5, NothingExpected

\* A handler of the PC never gives up on data that is still to come.
LEMMA NoDataTimeout ==
  ASSUME Prompt, ThreadInv, FrameInv, PcTimeout
  PROVE  pcst \notin {"data", "bulk"}
  <1> SUFFICES ASSUME pcst \in {"data", "bulk"} PROVE FALSE
    OBVIOUS
  <1>1. g_hDev /\ ~CanRecv /\ BusTurn
    BY DEF PcTimeout
  <1>2. Expects(hand.who, pcst) /\ hand.who \in Thread
    BY <1>1, ThreadParts DEF FrameInv, LinkType, InHandler, Msg
  <1>3. pc[hand.who] \notin {"run", "woken"}
    BY <1>1, <1>2 DEF BusTurn, CanRun
  <1>4. pc[hand.who] = "BULKIN"
    BY <1>2, <1>3 DEF Expects
  <1> QED BY <1>1, <1>4 DEF FrameInv, CanRecv

LEMMA BusFrame ==
  ASSUME Prompt, ThreadInv, PairInv, FrameInv, BusStep
  PROVE  FrameInv'
  <1>0. LinkType /\ Usb \in Thread
    BY ThreadParts
  <1>s. UNCHANGED <<g_mainsema, g_connected, job, result, pc, g_transevent>> => OnlyWakes({"BULKOUT"})
    BY <1>0 DEF OnlyWakes, LinkType
  <1>1. CASE PcOpen \/ PcBroken \/ PcTimeout
    <2>1. /\ UNCHANGED <<g_mainsema, g_connected, job, result, pc, g_transevent, g_bulkin_req>>
          /\ pcst' \notin {"data", "bulk"}
      BY <1>1 DEF PcOpen, PcBroken, PcTimeout, psp
    <2>2. ~g_hDev \/ pcst \notin {"data", "bulk"}
      BY <1>1, NoDataTimeout DEF PcOpen, PcBroken
    <2> QED BY <1>s, <2>1, <2>2, QuietFrame
  <1>2. CASE PcMagic \/ PcReply \/ PcReplyData
    <2>1. \E m \in Msg : Send(m)
      <3>1. CASE PcMagic
        BY <1>0, <3>1, PcMessages DEF PcMagic
      <3>2. CASE PcReply
        <4>1. hand \in Msg
          BY <1>0, <3>2 DEF PcReply, LinkType, InHandler
        <4>2. PICK more \in BOOLEAN : Send([M("resp", hand.who, hand.seq) EXCEPT !.more = more])
          BY <3>2 DEF PcReply
        <4> QED BY <1>0, <4>1, <4>2, PcMessages
      <3>3. CASE PcReplyData
        <4>1. hand \in Msg
          BY <1>0, <3>3 DEF PcReplyData, LinkType, InHandler
        <4> QED BY <1>0, <3>3, <4>1, PcMessages DEF PcReplyData
      <3> QED BY <1>2, <3>1, <3>2, <3>3
    <2>2. OnlyWakes({"BULKOUT"}) /\ g_bulkin_req' = g_bulkin_req
      BY <1>0, <2>1, SendEffect
    <2>3. pcst \notin {"data", "bulk"} /\ pcst' \notin {"data", "bulk"}
      BY <1>2 DEF PcMagic, PcReply, PcReplyData
    <2> QED BY <2>2, <2>3, QuietFrame
  <1>3. CASE PcRead \/ PcData
    BY <1>3, TakenFrame
  <1>4. CASE PcReset
    <2>1. CancelAll({"DETACH", "ATTACH"}) /\ UNCHANGED psp /\ ~g_hDev' /\ BusTurn
      BY <1>4 DEF PcReset
    <2> QED BY <2>1, CancelFrame
  <1>5. CASE Unplug
    <2>1. CancelAll({"DETACH"}) /\ UNCHANGED psp /\ ~g_hDev' /\ BusTurn
      BY <1>5 DEF Unplug
    <2> QED BY <2>1, CancelFrame
  <1>6. CASE PcAsync \/ Plug
    <2>1. UNCHANGED <<job, pc, g_bulkin_req, pcst, g_hDev, hand>>
      BY <1>6 DEF PcAsync, Plug, psp, host
    <2>2. \A u \in Thread : Busy(u)' <=> Busy(u)
      BY <2>1 DEF Busy
    <2>3. \A u \in Thread : \A st \in {"data", "bulk"} : Expects(u, st)' <=> Expects(u, st)
      BY <2>1, <2>2, SameExpects
    <2>4. \A u \in Thread : /\ job'[u].todo \notin Odd
                            /\ job'[u].op = "lock" => job'[u].todo = <<>>
      BY <2>1 DEF FrameInv
    <2> QED BY <2>1, <2>3, <2>4, FrameKept
  <1> QED BY <1>1, <1>2, <1>3, <1>4, <1>5, <1>6 DEF BusStep, PcStep

LEMMA NextFrame ==
  ASSUME Prompt, "bulk16" \notin Ops, ThreadInv, SessionInv, PairInv, FrameInv, [Next]_vars
  PROVE  FrameInv'
  <1>1. CASE \E t \in Client, op \in Ops : Call(t, op)
    BY <1>1, CallFrame
  <1>2. ASSUME NEW t \in Thread, WriteMisaligned(t) PROVE FALSE
    <2>1. /\ job[t].todo \in Todos /\ job[t].todo # <<>> /\ job[t].todo \notin Odd
          /\ Head(job[t].todo).dir = "misaligned"
      BY <1>2, ThreadParts DEF WriteMisaligned, FrameInv, Job
    <2> QED BY <2>1, TodosFrame
  <1>3. CASE \E t \in Thread : ThreadStep(t)
    BY <1>2, <1>3, SubmitWriteFrame, SubmitReadFrame, WriteDoneFrame, ReadDoneFrame,
       WaitSemaFrame, LockBusFrame, FinishFrame DEF ThreadStep
  <1>4. CASE UsbStep
    BY <1>4, UsbFrame
  <1>5. CASE BusStep
    BY <1>5, BusFrame
  <1>6. CASE UNCHANGED vars
    BY <1>6 DEF vars, FrameInv, Expects, Busy
  <1> QED BY <1>1, <1>3, <1>4, <1>5, <1>6 DEF Next, BusStep

-----------------------------------------------------------------------------
\* The state before the cable is plugged in.
LEMMA InitRest == Init => SessionInv /\ PairInv /\ FrameInv
  <1> SUFFICES ASSUME Init PROVE SessionInv /\ PairInv /\ FrameInv
    OBVIOUS
  <1>1. ThreadInv
    BY InitThread
  <1>2. /\ \A t \in Thread : job[t] = NoJob /\ ~Busy(t)
        /\ ~g_hDev /\ ~g_connected /\ g_bulkin_req.st = "free" /\ hand = NULL
        /\ NoJob.todo = <<>> /\ NoJob.op = NULL /\ NoJob.reply = NULL
    BY DEF Init, NoJob, Busy, FreeReq
  <1>3. <<>> # <<R("magic")>> /\ <<>> \notin Odd
    BY DEF Odd
  <1>4. NULL # "hello" /\ NULL # "attach" /\ NULL # "lock"
    BY <1>1, ThreadParts DEF CallOps
  <1>5. SessionInv
    BY <1>1, <1>2, <1>4, ThreadParts DEF SessionInv, Heard
  <1>6. PairInv
    BY <1>2, <1>3 DEF PairInv, Paired, OnBus, MagicRead, HandOf, AnswerOf
  <1>7. FrameInv
    BY <1>2, <1>3, <1>4 DEF FrameInv, Expects
  <1> QED BY <1>5, <1>6, <1>7

LinkInv == ThreadInv /\ SessionInv /\ PairInv

LEMMA LinkInvariant == Spec => []LinkInv
  <1>1. Init => LinkInv
    BY InitThread, InitRest DEF LinkInv
  <1>2. LinkInv /\ [Next]_vars => LinkInv'
    BY NextThread, NextSession, NextPair DEF LinkInv
  <1> QED BY <1>1, <1>2, PTL DEF Spec

\* Every variable keeps its type: requests, jobs, events and the state of the PC.
THEOREM TypeCorrect == Spec => []LinkType
  <1>1. LinkInv => LinkType
    BY ThreadParts DEF LinkInv
  <1> QED BY <1>1, LinkInvariant, PTL

\* The requests g_bulkin_req and g_bulkout_req and the bits of g_transevent are
\* shared by all threads; g_mainsema keeps their exchanges apart.
Exclusive == \A t, u \in Thread : Busy(t) /\ Busy(u) => t = u

\* Two threads are never inside of an exchange: the transfers of one call go
\* over the bus without those of another between them.
THEOREM MutualExclusion == Spec => []Exclusive
  <1>1. LinkInv => Exclusive
    BY OneBusy, ThreadParts DEF LinkInv, Exclusive
  <1> QED BY <1>1, LinkInvariant, PTL

\* usb_connected() tells the truth once usb_thread has handled the last attach
\* or detach (main.c: g_connected).
THEOREM SessionTrue == Spec => []SessionOK
  <1>1. LinkInv => SessionOK
    <2> SUFFICES ASSUME LinkInv, g_connected, Settled
                 PROVE  attached /\ g_hDev /\ pcst \notin {"search", "magic"}
      BY DEF SessionOK
    <2>1. result = {}
      BY ThreadParts DEF LinkInv, PlacesOK, Settled
    <2>2. NoNews /\ Heard
      BY <2>1 DEF Settled, NoNews, Heard
    <2> QED BY <2>2 DEF LinkInv, SessionInv, Serving
  <1> QED BY <1>1, LinkInvariant, PTL

\* In a settled session data from the sockets of the PC can still come in:
\* usb_thread never loses the request g_async_req.
THEOREM AsyncKept == Spec => []AsyncAlive
  <1>1. LinkInv => AsyncAlive
    <2> SUFFICES ASSUME LinkInv, g_connected, Settled
                 PROVE  g_async_req.st = "pend" \/ ("ASYNC" \in g_mainevent /\ g_async_req.ok)
      BY DEF AsyncAlive
    <2>1. result = {}
      BY ThreadParts DEF LinkInv, PlacesOK, Settled
    <2>2. NoNews
      BY <2>1 DEF Settled, NoNews
    <2> QED BY <2>1, <2>2 DEF LinkInv, SessionInv
  <1> QED BY <1>1, LinkInvariant, PTL

\* An answer that a thread has read belongs to the call it makes now, although
\* command_xchg looks at the magic only, and whatever timeouts, pulled cables
\* and requests left over from an earlier session came before it.
THEOREM AnswersPaired == Spec => []Paired
  <1>1. LinkInv => Paired
    BY DEF LinkInv, PairInv
  <1> QED BY <1>1, LinkInvariant, PTL

\* On a bus slower than the PSP, and without misaligned bulk writes, the PC
\* never takes data for a command or a command for data.
THEOREM CommandsFramed ==
  ASSUME Prompt, "bulk16" \notin Ops
  PROVE  Spec => []Framed
  <1> DEFINE Inv == LinkInv /\ FrameInv
  <1>1. Init => Inv
    BY InitThread, InitRest DEF LinkInv
  <1>2. Inv /\ [Next]_vars => Inv'
    BY NextThread, NextSession, NextPair, NextFrame DEF LinkInv
  <1>3. Inv => Framed
    <2> SUFFICES ASSUME Inv, CanRecv
                 PROVE  LET m == g_bulkin_req.msg
                        IN  CASE pcst = "data" -> m.kind = "data" /\ m.who = hand.who
                              [] pcst = "bulk" -> m.kind = "bulkdata" /\ m.who = hand.who
                              [] OTHER         -> m.kind \notin {"data", "bulkdata"}
      BY DEF Framed
    <2>0. ThreadInv /\ PairInv /\ FrameInv /\ g_hDev /\ g_bulkin_req.st = "pend"
      BY DEF LinkInv, CanRecv
    <2>1. PICK t \in Thread :
            /\ Busy(t) /\ pc[t] = "BULKIN"
            /\ g_bulkin_req.msg = M(Head(job[t].todo).kind, t, job[t].seq)
      BY <2>0 DEF PairInv, OnBus
    <2> DEFINE m == g_bulkin_req.msg
    <2>2. /\ m.kind = Head(job[t].todo).kind /\ m.who = t
          /\ job[t].todo # <<>> /\ Head(job[t].todo).dir = "w"
      BY <2>0, <2>1, ThreadParts DEF M, ScriptsOK
    <2>3. \A st \in {"data", "bulk"} : Expects(t, st) <=> m.kind = Second(st)
      BY <2>1, <2>2 DEF Expects
    <2>4. CASE pcst \in {"data", "bulk"}
      <3>1. Expects(hand.who, pcst) /\ hand.who \in Thread
        BY <2>0, <2>4, ThreadParts DEF FrameInv, LinkType, InHandler, Msg
      <3>2. hand.who = t
        BY <2>0, <2>1, <3>1, OneBusy, ThreadParts DEF Expects
      <3>3. m.kind = Second(pcst)
        BY <2>3, <2>4, <3>1, <3>2
      <3> QED BY <2>2, <2>4, <3>2, <3>3 DEF Second
    <2>5. CASE pcst \notin {"data", "bulk"}
      <3>1. \A st \in {"data", "bulk"} : m.kind # Second(st)
        BY <2>0, <2>1, <2>3, <2>5 DEF FrameInv
      <3>2. m.kind # "data" /\ m.kind # "bulkdata"
        BY <3>1 DEF Second
      <3> QED BY <2>5, <3>2
    <2> QED BY <2>4, <2>5
  <1> QED BY <1>1, <1>2, <1>3, PTL DEF Spec
=============================================================================

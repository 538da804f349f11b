--------------------------- MODULE ExceptionsProof ---------------------------
(* Proofs about Exceptions for any number of contexts, threads and debuggers. *)
EXTENDS Exceptions, TLAPS

Pc == {"run", "begin", "walk", "posted", "asleep", "woken", "untaken", "parked", "leave", "dead"}
ThreadRecord ==
  [pc : Pc, ctx : Ctx \cup {NULL}, ev : Handler \cup {NULL}]

ServerRecord == [pc : {"off", "wait", "busy", "answered", "ending"}, ctx : Ctx \cup {NULL}]

Typed ==
  /\ valid \in [Ctx -> BOOLEAN]
  /\ thid \in [Ctx -> Thread \cup {NULL}]
  /\ cont \in [Ctx -> Cont]
  /\ g_currex \in Ctx \cup {NULL}
  /\ g_eventhead \in Handler \cup {NULL}
  /\ pNext \in [Handler -> Handler \cup {NULL}]
  /\ mbox \in [Handler -> Seq(Ctx)]
  /\ server \in [Handler -> ServerRecord]
  /\ th \in [Thread -> ThreadRecord]
  /\ wake \in [Thread -> Nat]
  /\ \A t \in Thread : th[t].pc \in {"posted", "asleep", "woken"} => th[t].ev # NULL

\* A context that is in use has the name of a thread.
ValidNamed == \A c \in Ctx : valid[c] => thid[c] \in Thread

\* A thread in a trap has a context, the one that says so.
Holds(t, c) == c \in Ctx /\ t \in Thread /\ InTrap(t) /\ th[t].ctx = c /\ thid[c] = t /\ valid[c]
Holding == \A t \in Thread : InTrap(t) => Holds(t, th[t].ctx)

\* The inductive invariant of ContextsHeld.
CtxInv == Typed /\ ValidNamed /\ Holding /\ CurrexInUse

\* The thread of a context waits for debugger h, and has no wake-up left over.
WaitsFor(c, h) ==
  /\ Holds(thid[c], c)
  /\ th[thid[c]].ev = h /\ th[thid[c]].pc \in {"posted", "asleep"} /\ wake[thid[c]] = 0

Has(h) == server[h].pc \in {"busy", "answered", "ending"}

\* What is in a message box waits, and so does what its debugger has taken out.
PostsWait == \A h \in Handler : \A i \in DOMAIN mbox[h] : WaitsFor(mbox[h][i], h)
PostedOnce == \A h \in Handler : \A i, j \in DOMAIN mbox[h] : mbox[h][i] = mbox[h][j] => i = j
TakenWaits ==
  \A h \in Handler : Has(h) =>
    WaitsFor(server[h].ctx, h) /\ \A i \in DOMAIN mbox[h] : mbox[h][i] # server[h].ctx

\* A wake-up is left over only for a thread that is about to sleep.
WakesAwaited == \A t \in Thread : wake[t] > 0 => wake[t] = 1 /\ th[t].pc = "posted"

\* The inductive invariant of PostOnLiveStack.
PostInv == CtxInv /\ PostsWait /\ PostedOnce /\ TakenWaits /\ WakesAwaited

-----------------------------------------------------------------------------
LEMMA CtxInvInit ==
  ASSUME Init
  PROVE  CtxInv
  <1>1. Typed
    <2>1. Running \in ThreadRecord /\ [pc |-> "off", ctx |-> NULL] \in ServerRecord
      BY DEF Running, ThreadRecord, ServerRecord, Pc
    <2>2. Running.pc = "run"
      BY DEF Running
    <2> QED BY <2>1, <2>2 DEF Init, Typed, Cont
  <1>2. ValidNamed /\ Holding /\ CurrexInUse
    BY DEF Init, ValidNamed, Holding, CurrexInUse, InTrap, Running
  <1> QED BY <1>1, <1>2 DEF CtxInv

\* A thread moves in its trap.
LEMMA GoTyped ==
  ASSUME Typed, NEW t \in Thread, NEW p \in Pc, th' = [th EXCEPT ![t].pc = p]
  PROVE  /\ th' \in [Thread -> ThreadRecord]
         /\ \A u \in Thread : th'[u].ctx = th[u].ctx
         /\ \A u \in Thread \ {t} : th'[u] = th[u]
         /\ th'[t].pc = p /\ th'[t].ev = th[t].ev
  BY DEF Typed, ThreadRecord

LEMMA WalkTyped ==
  ASSUME Typed, NEW t \in Thread, NEW e \in Handler \cup {NULL},
         th' = [th EXCEPT ![t].pc = "walk", ![t].ev = e]
  PROVE  /\ th' \in [Thread -> ThreadRecord]
         /\ \A u \in Thread : th'[u].ctx = th[u].ctx
         /\ \A u \in Thread \ {t} : th'[u] = th[u]
         /\ th'[t].pc = "walk" /\ th'[t].ev = e
  <1>1. "walk" \in Pc
    BY DEF Pc
  <1> QED BY <1>1 DEF Typed, ThreadRecord

\* Sleeping and waking change where a thread is, and its wake-ups.
LEMMA SleepTyped ==
  ASSUME Typed, NEW t \in Thread, NEW p \in Pc, NEW q \in Pc, SleepThread(t, p, q)
  PROVE  /\ th' \in [Thread -> ThreadRecord] /\ wake' \in [Thread -> Nat]
         /\ \A u \in Thread : th'[u].ctx = th[u].ctx
         /\ \A u \in Thread \ {t} : th'[u] = th[u] /\ wake'[u] = wake[u]
         /\ th'[t].ev = th[t].ev
         /\ IF wake[t] > 0 THEN th'[t].pc = p /\ wake'[t] = wake[t] - 1
                           ELSE th'[t].pc = q /\ wake'[t] = wake[t]
  <1>1. wake \in [Thread -> Nat] /\ th[t].ev \in Handler \cup {NULL}
    BY DEF Typed, ThreadRecord
  <1>2. CASE wake[t] > 0
    <2>1. th' = [th EXCEPT ![t].pc = p] /\ wake' = [wake EXCEPT ![t] = @ - 1]
      BY <1>2 DEF SleepThread, Go
    <2>2. wake' \in [Thread -> Nat] /\ wake'[t] = wake[t] - 1 /\ \A u \in Thread \ {t} : wake'[u] = wake[u]
      BY <1>1, <1>2, <2>1
    <2>3. th' = [th EXCEPT ![t].pc = p]
      BY <2>1
    <2>4. /\ th' \in [Thread -> ThreadRecord]
          /\ \A u \in Thread : th'[u].ctx = th[u].ctx
          /\ \A u \in Thread \ {t} : th'[u] = th[u]
          /\ th'[t].pc = p /\ th'[t].ev = th[t].ev
      BY <1>1, <2>3, GoTyped
    <2> QED BY <1>2, <2>2, <2>4
  <1>3. CASE ~(wake[t] > 0)
    <2>1. th' = [th EXCEPT ![t].pc = q] /\ wake' = wake
      BY <1>3 DEF SleepThread, Go
    <2> QED BY <1>1, <1>3, <2>1, GoTyped
  <1> QED BY <1>2, <1>3

LEMMA WakeupTyped ==
  ASSUME Typed, NEW t \in Thread, WakeupThread(t)
  PROVE  /\ th' \in [Thread -> ThreadRecord] /\ wake' \in [Thread -> Nat]
         /\ \A u \in Thread : th'[u].ctx = th[u].ctx
         /\ \A u \in Thread \ {t} : th'[u] = th[u] /\ wake'[u] = wake[u]
         /\ th'[t].ev = th[t].ev
         /\ \/ th[t].pc = "asleep" /\ th'[t].pc = "woken" /\ wake' = wake
            \/ th[t].pc = "parked" /\ th'[t].pc = "leave" /\ wake' = wake
            \/ th[t].pc = "dead" /\ th' = th /\ wake' = wake
            \/ th[t].pc \notin {"asleep", "parked", "dead"} /\ th' = th /\ wake'[t] = wake[t] + 1
  <1>1. wake \in [Thread -> Nat] /\ th[t].ev \in Handler \cup {NULL} /\ th \in [Thread -> ThreadRecord]
    BY DEF Typed, ThreadRecord
  <1>2. CASE th[t].pc = "asleep"
    <2>1. th' = [th EXCEPT ![t].pc = "woken"] /\ wake' = wake
      BY <1>2 DEF WakeupThread, At, Go
    <2> QED BY <1>1, <1>2, <2>1, GoTyped DEF Pc
  <1>3. CASE th[t].pc = "parked"
    <2>1. th' = [th EXCEPT ![t].pc = "leave"] /\ wake' = wake
      BY <1>3 DEF WakeupThread, At, Go
    <2> QED BY <1>1, <1>3, <2>1, GoTyped DEF Pc
  <1>4. CASE th[t].pc = "dead"
    <2>1. th' = th /\ wake' = wake
      BY <1>4 DEF WakeupThread, At
    <2> QED BY <1>1, <1>4, <2>1
  <1>5. CASE th[t].pc \notin {"asleep", "parked", "dead"}
    <2>1. th' = th /\ wake' = [wake EXCEPT ![t] = @ + 1]
      BY <1>5 DEF WakeupThread, At
    <2> QED BY <1>1, <1>5, <2>1
  <1> QED BY <1>2, <1>3, <1>4, <1>5

\* Contexts stay with their threads while no context is claimed or freed.
LEMMA CtxKept ==
  ASSUME CtxInv, Typed', CurrexInUse', UNCHANGED <<valid, thid>>,
         \A t \in Thread : th'[t].ctx = th[t].ctx /\ (InTrap(t)' => InTrap(t))
  PROVE  CtxInv'
  <1>1. ValidNamed'
    BY DEF CtxInv, ValidNamed
  <1>2. Holding'
    BY DEF CtxInv, Holding, Holds
  <1> QED BY <1>1, <1>2 DEF CtxInv

-----------------------------------------------------------------------------
(* CtxInv is inductive.                                                     *)

\* A context is claimed: it was free, so no thread had it.
LEMMA TrapKeeps ==
  ASSUME CtxInv, NEW t \in Thread, Trap(t)
  PROVE  CtxInv'
  <1>1. CASE FreeCtx = {} /\ UNCHANGED <<valid, thid, g_currex, th>>
    <2>1. Typed' /\ CurrexInUse'
      BY <1>1 DEF Trap, CtxInv, Typed, CurrexInUse
    <2>2. \A u \in Thread : th'[u].ctx = th[u].ctx /\ (InTrap(u)' => InTrap(u))
      BY <1>1 DEF InTrap
    <2> QED BY <1>1, <2>1, <2>2, CtxKept
  <1>2. ASSUME NEW c \in FreeCtx,
               valid' = [valid EXCEPT ![c] = TRUE],
               thid' = [thid EXCEPT ![c] = t],
               g_currex' = IF g_currex = NULL THEN c ELSE g_currex,
               th' = [th EXCEPT ![t] = [pc |-> "begin", ctx |-> c, ev |-> NULL]]
        PROVE  CtxInv'
    <2>1. c \in Ctx /\ ~valid[c]
      BY DEF FreeCtx
    <2>2. [pc |-> "begin", ctx |-> c, ev |-> NULL] \in ThreadRecord
      BY <2>1 DEF ThreadRecord, Pc
    <2>3. Typed'
      BY <1>2, <2>1, <2>2 DEF Trap, CtxInv, Typed
    <2>4. ValidNamed' /\ CurrexInUse'
      BY <1>2, <2>1 DEF CtxInv, Typed, ValidNamed, CurrexInUse
    <2>5. Holding'
      <3> SUFFICES ASSUME NEW u \in Thread, InTrap(u)'
                   PROVE  Holds(u, th[u].ctx)'
        BY DEF Holding
      <3>1. CASE u = t
        BY <1>2, <2>1, <3>1 DEF CtxInv, Typed, Holds, InTrap
      <3>2. CASE u # t
        <4>1. th'[u] = th[u] /\ Holds(u, th[u].ctx)
          BY <1>2, <3>2 DEF CtxInv, Typed, Holding, InTrap
        <4> QED BY <1>2, <2>1, <4>1 DEF CtxInv, Typed, Holds, InTrap
      <3> QED BY <3>1, <3>2
    <2> QED BY <2>3, <2>4, <2>5 DEF CtxInv
  <1> QED BY <1>1, <1>2 DEF Trap

\* It is freed: the thread leaves its trap.
LEMMA LeaveKeeps ==
  ASSUME CtxInv, NEW t \in Thread, Leave(t)
  PROVE  CtxInv'
  <1> DEFINE c == th[t].ctx
  <1>1. /\ Holds(t, c)
        /\ g_currex' = IF g_currex = c THEN NULL ELSE g_currex
        /\ valid' = [valid EXCEPT ![c] = FALSE]
        /\ th' = [th EXCEPT ![t] = Running]
        /\ thid' = thid
    BY DEF Leave, CurrexAfter, CtxInv, Holding, At, InTrap
  <1>2. c \in Ctx /\ thid[c] = t
    BY <1>1 DEF Holds
  <1>3. Running \in ThreadRecord /\ Running.pc = "run"
    BY DEF Running, ThreadRecord, Pc
  <1>4. Typed'
    BY <1>1, <1>2, <1>3 DEF Leave, CtxInv, Typed
  <1>5. ValidNamed' /\ CurrexInUse'
    BY <1>1, <1>2, ExceptionAssumption DEF CtxInv, Typed, ValidNamed, CurrexInUse
  <1>6. Holding'
    <2> SUFFICES ASSUME NEW u \in Thread, InTrap(u)'
                 PROVE  Holds(u, th[u].ctx)'
      BY DEF Holding
    <2>1. u # t /\ th'[u] = th[u] /\ InTrap(u)
      BY <1>1, <1>3 DEF CtxInv, Typed, InTrap
    <2>2. Holds(u, th[u].ctx)
      BY <2>1 DEF CtxInv, Holding
    <2> QED BY <1>1, <1>2, <2>1, <2>2 DEF CtxInv, Typed, Holds, InTrap
  <1> QED BY <1>4, <1>5, <1>6 DEF CtxInv

\* A thread moves in its trap, and does nothing to a context but set its cont.
LEMMA ThreadKeeps ==
  ASSUME CtxInv, NEW t \in Thread, ThreadStep(t), ~Leave(t)
  PROVE  CtxInv'
  <1>1. InTrap(t) /\ th[t].ctx \in Ctx
    BY DEF ThreadStep, HandleBegin, Offer, Sleep, Woken, Untaken, Exit, At, InTrap, CtxInv, Holding, Holds
  <1>2. UNCHANGED <<valid, thid, g_currex, g_eventhead, pNext, server>>
    BY DEF ThreadStep, HandleBegin, Offer, Sleep, Woken, Untaken, Exit
  <1>3. Typed /\ th[t].ev \in Handler \cup {NULL} /\ (th[t].ev # NULL => pNext[th[t].ev] \in Handler \cup {NULL})
    BY DEF CtxInv, Typed, ThreadRecord
  <1>4. cont' \in [Ctx -> Cont] /\ mbox' \in [Handler -> Seq(Ctx)]
    <2>1. cont' \in [Ctx -> Cont]
      BY <1>1, <1>3 DEF ThreadStep, HandleBegin, Offer, Sleep, Woken, Untaken, Exit, Typed, Cont
    <2>2. mbox' = mbox \/ \E h \in Handler : mbox' = [mbox EXCEPT ![h] = Append(@, th[t].ctx)]
      BY <1>3 DEF ThreadStep, HandleBegin, Offer, Sleep, Woken, Untaken, Exit
    <2>3. \A h \in Handler : Append(mbox[h], th[t].ctx) \in Seq(Ctx)
      BY <1>1, <1>3 DEF Typed
    <2> QED BY <1>3, <2>1, <2>2, <2>3 DEF Typed
  <1>5. wake \in [Thread -> Nat]
        /\ {"untaken", "posted", "woken", "asleep", "leave", "parked", "dead"} \subseteq Pc
    BY <1>3 DEF Typed, Pc
  <1>6. /\ th' \in [Thread -> ThreadRecord] /\ wake' \in [Thread -> Nat]
        /\ \A u \in Thread : th'[u].ctx = th[u].ctx
        /\ \A u \in Thread \ {t} : th'[u] = th[u]
        /\ th'[t].pc \in {"posted", "asleep", "woken"} => th'[t].ev # NULL
    <2>1. CASE HandleBegin(t)
      <3>1. th' = [th EXCEPT ![t].pc = "walk", ![t].ev = g_eventhead] /\ wake' = wake
        BY <2>1 DEF HandleBegin
      <3>2. g_eventhead \in Handler \cup {NULL} /\ wake \in [Thread -> Nat]
        BY <1>3 DEF Typed
      <3> QED BY <1>3, <3>1, <3>2, WalkTyped
    <2>2. CASE Offer(t)
      <3>1. wake' = wake /\ pNext \in [Handler -> Handler \cup {NULL}]
        BY <2>2, <1>3 DEF Offer, Typed
      <3>2. \/ th' = [th EXCEPT ![t].pc = "untaken"]
            \/ th[t].ev # NULL /\ th' = [th EXCEPT ![t].pc = "posted"]
            \/ th[t].ev # NULL /\ th' = [th EXCEPT ![t].ev = pNext[th[t].ev]] /\ th[t].pc = "walk"
        BY <2>2 DEF Offer, Go, At
      <3>3. CASE th' = [th EXCEPT ![t].pc = "untaken"]
        BY <1>3, <3>1, <3>3, <1>5, GoTyped
      <3>4. CASE th[t].ev # NULL /\ th' = [th EXCEPT ![t].pc = "posted"]
        BY <1>3, <3>1, <3>4, <1>5, GoTyped
      <3>5. CASE th[t].ev # NULL /\ th' = [th EXCEPT ![t].ev = pNext[th[t].ev]] /\ th[t].pc = "walk"
        <4>1. th' = [th EXCEPT ![t].pc = "walk", ![t].ev = pNext[th[t].ev]]
          BY <1>3, <3>5 DEF Typed, ThreadRecord
        <4>2. pNext[th[t].ev] \in Handler \cup {NULL} /\ wake \in [Thread -> Nat]
          BY <1>3, <3>5 DEF Typed
        <4> QED BY <1>3, <3>1, <4>1, <4>2, WalkTyped
      <3> QED BY <3>2, <3>3, <3>4, <3>5
    <2>3. CASE Sleep(t)
      <3>1. SleepThread(t, "woken", "asleep") /\ th[t].ev # NULL
        BY <2>3, <1>3 DEF Sleep, At, Typed
      <3> QED BY <1>3, <3>1, <1>5, SleepTyped
    <2>4. CASE Woken(t)
      <3>1. wake' = wake /\ th[t].pc = "woken"
        BY <2>4 DEF Woken, At
      <3>2. \/ th' = [th EXCEPT ![t].pc = "leave"]
            \/ th' = [th EXCEPT ![t].pc = "walk", ![t].ev = pNext[@]]
        BY <2>4 DEF Woken
      <3>3. CASE th' = [th EXCEPT ![t].pc = "leave"]
        BY <1>3, <3>1, <3>3, <1>5, GoTyped
      <3>4. CASE th' = [th EXCEPT ![t].pc = "walk", ![t].ev = pNext[@]]
        <4>1. pNext[th[t].ev] \in Handler \cup {NULL} /\ wake \in [Thread -> Nat]
          BY <1>3, <3>1 DEF Typed
        <4>2. th' = [th EXCEPT ![t].pc = "walk", ![t].ev = pNext[th[t].ev]]
          BY <1>3, <3>4 DEF Typed, ThreadRecord
        <4> QED BY <1>3, <3>1, <4>1, <4>2, WalkTyped
      <3> QED BY <3>2, <3>3, <3>4
    <2>5. CASE Untaken(t)
      <3>1. \/ th' = [th EXCEPT ![t].pc = "leave"] /\ wake' = wake
            \/ SleepThread(t, "leave", "parked")
        BY <2>5 DEF Untaken, Go
      <3>3. CASE th' = [th EXCEPT ![t].pc = "leave"] /\ wake' = wake
        BY <1>3, <3>3, <1>5, GoTyped
      <3>4. CASE SleepThread(t, "leave", "parked")
        BY <1>3, <3>4, <1>5, SleepTyped
      <3> QED BY <3>1, <3>3, <3>4
    <2>6. CASE Exit(t)
      <3>1. th' = [th EXCEPT ![t].pc = "dead"] /\ wake' = wake
        BY <2>6 DEF Exit, Go
      <3> QED BY <1>3, <3>1, <1>5, GoTyped
    <2> QED BY <2>1, <2>2, <2>3, <2>4, <2>5, <2>6 DEF ThreadStep
  <1>7. Typed'
    <2>1. \A u \in Thread : th'[u].pc \in {"posted", "asleep", "woken"} => th'[u].ev # NULL
      BY <1>3, <1>6 DEF Typed
    <2> QED BY <1>2, <1>3, <1>4, <1>6, <2>1 DEF Typed
  <1>8. \A u \in Thread : InTrap(u)' => InTrap(u)
    BY <1>1, <1>6 DEF InTrap
  <1>9. CurrexInUse'
    BY <1>2 DEF CtxInv, CurrexInUse
  <1> QED BY <1>2, <1>6, <1>7, <1>8, <1>9, CtxKept

\* A wake-up of whatever a context names as its thread.
LEMMA WakeupAny ==
  ASSUME Typed, NEW t, WakeupThread(t)
  PROVE  /\ th' \in [Thread -> ThreadRecord] /\ wake' \in [Thread -> Nat]
         /\ \A u \in Thread : th'[u].ctx = th[u].ctx /\ (InTrap(u)' => InTrap(u))
         /\ \A u \in Thread : th'[u].pc \in {"posted", "asleep", "woken"} => th'[u].ev # NULL
  <1>1. CASE t \in Thread
    <2>1. /\ th' \in [Thread -> ThreadRecord] /\ wake' \in [Thread -> Nat]
          /\ \A u \in Thread : th'[u].ctx = th[u].ctx
          /\ \A u \in Thread \ {t} : th'[u] = th[u] /\ wake'[u] = wake[u]
          /\ th'[t].ev = th[t].ev
          /\ \/ th[t].pc = "asleep" /\ th'[t].pc = "woken" /\ wake' = wake
             \/ th[t].pc = "parked" /\ th'[t].pc = "leave" /\ wake' = wake
             \/ th[t].pc = "dead" /\ th' = th /\ wake' = wake
             \/ th[t].pc \notin {"asleep", "parked", "dead"} /\ th' = th /\ wake'[t] = wake[t] + 1
      BY <1>1, WakeupTyped
    <2>2. \A u \in Thread : th[u].pc \in {"posted", "asleep", "woken"} => th[u].ev # NULL
      BY DEF Typed
    <2> QED BY <1>1, <2>1, <2>2 DEF InTrap
  <1>2. CASE t \notin Thread
    <2>1. \/ th' = th
          \/ th' = [th EXCEPT ![t].pc = "woken"] \/ th' = [th EXCEPT ![t].pc = "leave"]
      BY DEF WakeupThread, At, Go
    <2>2. wake' = wake \/ wake' = [wake EXCEPT ![t] = @ + 1]
      BY DEF WakeupThread, At, Go
    <2>3. th' \in [Thread -> ThreadRecord] /\ \A u \in Thread : th'[u] = th[u]
      BY <1>2, <2>1 DEF Typed
    <2>4. wake' \in [Thread -> Nat]
      BY <1>2, <2>2 DEF Typed
    <2> QED BY <2>3, <2>4 DEF Typed, InTrap
  <1> QED BY <1>1, <1>2

\* A debugger waits, answers, wakes: it sets the cont of a context at most.
LEMMA DebuggerKeeps ==
  ASSUME CtxInv, NEW h \in Handler,
         \/ debugRegisterEventHandler(h) \/ debugWaitDebugEvent(h)
         \/ GdbAnswer(h) \/ GdbWake(h)
  PROVE  CtxInv'
  <1>1. UNCHANGED <<valid, thid, g_currex>>
    BY DEF debugRegisterEventHandler, debugWaitDebugEvent, GdbAnswer, GdbHandleException, GdbWake
  <1>2. CurrexInUse'
    BY <1>1 DEF CtxInv, CurrexInUse
  <1>3. Typed /\ mbox[h] \in Seq(Ctx) /\ server[h] \in ServerRecord
    BY DEF CtxInv, Typed
  <1>4. CASE debugRegisterEventHandler(h)
    <2>1. [pc |-> "wait", ctx |-> NULL] \in ServerRecord
      BY DEF ServerRecord
    <2>2. Typed'
      BY <1>3, <1>4, <2>1 DEF debugRegisterEventHandler, Typed
    <2>3. \A t \in Thread : th'[t].ctx = th[t].ctx /\ (InTrap(t)' => InTrap(t))
      BY <1>4 DEF debugRegisterEventHandler, InTrap
    <2> QED BY <1>1, <1>2, <2>2, <2>3, CtxKept
  <1>5. CASE debugWaitDebugEvent(h)
    <2>1. Head(mbox[h]) \in Ctx /\ Tail(mbox[h]) \in Seq(Ctx)
      BY <1>3, <1>5 DEF debugWaitDebugEvent
    <2>2. [pc |-> "busy", ctx |-> Head(mbox[h])] \in ServerRecord
      BY <2>1 DEF ServerRecord
    <2>3. Typed'
      BY <1>3, <1>5, <2>1, <2>2 DEF debugWaitDebugEvent, Typed
    <2>4. \A t \in Thread : th'[t].ctx = th[t].ctx /\ (InTrap(t)' => InTrap(t))
      BY <1>5 DEF debugWaitDebugEvent, InTrap
    <2> QED BY <1>1, <1>2, <2>3, <2>4, CtxKept
  <1>6. CASE GdbAnswer(h)
    <2>1. PICK c \in Cont, p \in {"answered", "ending"} : GdbHandleException(h, c, p)
      BY <1>6 DEF GdbAnswer, Cont
    <2>2. cont' \in [Ctx -> Cont] /\ server' \in [Handler -> ServerRecord]
      BY <1>3, <2>1 DEF GdbHandleException, Typed, ServerRecord
    <2>3. Typed'
      BY <1>3, <2>1, <2>2 DEF GdbHandleException, Typed
    <2>4. \A t \in Thread : th'[t].ctx = th[t].ctx /\ (InTrap(t)' => InTrap(t))
      BY <2>1 DEF GdbHandleException, InTrap
    <2> QED BY <1>1, <1>2, <2>3, <2>4, CtxKept
  <1>7. CASE GdbWake(h)
    <2>1. /\ th' \in [Thread -> ThreadRecord] /\ wake' \in [Thread -> Nat]
          /\ \A u \in Thread : th'[u].ctx = th[u].ctx /\ (InTrap(u)' => InTrap(u))
          /\ \A u \in Thread : th'[u].pc \in {"posted", "asleep", "woken"} => th'[u].ev # NULL
      <3>1. WakeupThread(thid[server[h].ctx])
        BY <1>7 DEF GdbWake
      <3> QED BY <1>3, <3>1, WakeupAny
    <2>2. server' \in [Handler -> ServerRecord]
      <3>1. [pc |-> "wait", ctx |-> NULL] \in ServerRecord /\ [pc |-> "off", ctx |-> NULL] \in ServerRecord
        BY DEF ServerRecord
      <3> QED BY <1>3, <1>7, <3>1 DEF GdbWake, Typed
    <2>3. /\ Unlink(h)[1] \in Handler \cup {NULL}
          /\ Unlink(h)[2] \in [Handler -> Handler \cup {NULL}]
      <3>1. CASE g_eventhead = h
        BY <1>3, <3>1 DEF Unlink, Typed
      <3>2. CASE g_eventhead # h
        <4> DEFINE f == [g \in Handler |-> IF pNext[g] = h THEN pNext[h] ELSE pNext[g]]
        <4>1. f \in [Handler -> Handler \cup {NULL}]
          BY <1>3 DEF Typed
        <4>2. Unlink(h)[1] = g_eventhead /\ Unlink(h)[2] = f
          BY <3>2 DEF Unlink
        <4> QED BY <1>3, <4>1, <4>2 DEF Typed
      <3> QED BY <3>1, <3>2
    <2>4. g_eventhead' \in Handler \cup {NULL} /\ pNext' \in [Handler -> Handler \cup {NULL}]
      BY <1>3, <1>7, <2>3 DEF GdbWake, Typed
    <2>5. Typed'
      BY <1>3, <1>7, <2>1, <2>2, <2>4 DEF GdbWake, Typed
    <2> QED BY <1>1, <1>2, <2>1, <2>5, CtxKept
  <1> QED BY <1>4, <1>5, <1>6, <1>7

\* The shell resumes the thread of a context, or takes another context.
LEMMA ResumeKeeps ==
  ASSUME CtxInv, NEW c \in Cont, exceptionResume(c)
  PROVE  CtxInv'
  <1>1. Typed
    BY DEF CtxInv
  <1>2. /\ th' \in [Thread -> ThreadRecord] /\ wake' \in [Thread -> Nat]
        /\ \A u \in Thread : th'[u].ctx = th[u].ctx /\ (InTrap(u)' => InTrap(u))
        /\ \A u \in Thread : th'[u].pc \in {"posted", "asleep", "woken"} => th'[u].ev # NULL
    BY <1>1, WakeupAny DEF exceptionResume
  <1>3. Typed'
    BY <1>1, <1>2 DEF exceptionResume, Typed
  <1>4. UNCHANGED <<valid, thid, g_currex>> /\ CurrexInUse'
    BY DEF exceptionResume, CtxInv, CurrexInUse
  <1> QED BY <1>2, <1>3, <1>4, CtxKept

LEMMA SetCtxKeeps ==
  ASSUME CtxInv, NEW c \in Ctx, exceptionSetCtx(c)
  PROVE  CtxInv'
  <1>1. Typed' /\ CurrexInUse'
    BY DEF exceptionSetCtx, CtxInv, Typed, CurrexInUse
  <1>2. UNCHANGED <<valid, thid>> /\ \A t \in Thread : th'[t].ctx = th[t].ctx /\ (InTrap(t)' => InTrap(t))
    BY DEF exceptionSetCtx, InTrap
  <1> QED BY <1>1, <1>2, CtxKept

LEMMA CtxInvNext ==
  ASSUME CtxInv, [Next]_vars
  PROVE  CtxInv'
  <1>1. ASSUME NEW t \in Thread, Trap(t) PROVE CtxInv'
    BY <1>1, TrapKeeps
  <1>2. ASSUME NEW t \in Thread, ThreadStep(t) PROVE CtxInv'
    BY <1>2, LeaveKeeps, ThreadKeeps
  <1>3. ASSUME NEW h \in Handler,
               \/ debugRegisterEventHandler(h) \/ debugWaitDebugEvent(h)
               \/ GdbAnswer(h) \/ GdbWake(h)
        PROVE  CtxInv'
    BY <1>3, DebuggerKeeps
  <1>4. ASSUME NEW c \in {"CONTINUE", "STEP"}, exceptionResume(c) PROVE CtxInv'
    BY <1>4, ResumeKeeps DEF Cont
  <1>5. ASSUME NEW c \in Ctx, exceptionSetCtx(c) PROVE CtxInv'
    BY <1>5, SetCtxKeeps
  <1>6. CASE UNCHANGED vars
    BY <1>6 DEF vars, CtxInv, Typed, ValidNamed, Holding, Holds, InTrap, CurrexInUse
  <1> QED BY <1>1, <1>2, <1>3, <1>4, <1>5, <1>6 DEF Next

\* Each stopped thread has a context of its own until it leaves the trap, and
\* the shell works on one that is in use (psplinkExceptionHandler, psplinkTrap,
\* exceptionSetCtx).
THEOREM ContextsKept == Spec => []ContextsHeld
  <1>1. Init => CtxInv
    BY CtxInvInit
  <1>2. CtxInv /\ [Next]_vars => CtxInv'
    BY CtxInvNext
  <1>3. CtxInv => ContextsHeld
    BY DEF CtxInv, Holding, Holds, ContextsHeld, OwnContext
  <1> QED BY <1>1, <1>2, <1>3, PTL DEF Spec

-----------------------------------------------------------------------------
(* PostInv is inductive, when the shell leaves threads of debuggers alone.  *)

LEMMA PostInvInit ==
  ASSUME Init
  PROVE  PostInv
  <1>1. PostsWait /\ PostedOnce
    BY DEF Init, PostsWait, PostedOnce
  <1>2. TakenWaits /\ WakesAwaited
    BY DEF Init, TakenWaits, WakesAwaited, Has
  <1> QED BY <1>1, <1>2, CtxInvInit DEF PostInv

\* A context keeps waiting while its thread is left alone.
LEMMA WaitKept ==
  ASSUME NEW c, NEW h, WaitsFor(c, h), valid'[c], thid'[c] = thid[c],
         th'[thid[c]] = th[thid[c]], wake'[thid[c]] = wake[thid[c]]
  PROVE  WaitsFor(c, h)'
  BY DEF WaitsFor, Holds, InTrap

\* A step of a thread that waits for nobody, and of nobody else.
LEMMA Elsewhere ==
  ASSUME PostInv, CtxInv', NEW t \in Thread, th[t].pc \notin {"posted", "asleep"},
         th'[t].pc # "posted",
         UNCHANGED <<mbox, server, wake>>,
         \A u \in Thread \ {t} : th'[u] = th[u],
         \A c \in Ctx : valid[c] /\ thid[c] # t => valid'[c] /\ thid'[c] = thid[c]
  PROVE  PostInv'
  <1>1. ASSUME NEW c, NEW h, WaitsFor(c, h) PROVE WaitsFor(c, h)'
    <2>1. c \in Ctx /\ valid[c] /\ thid[c] \in Thread \ {t}
      BY <1>1 DEF WaitsFor, Holds
    <2> QED BY <1>1, <2>1, WaitKept
  <1>2. PostsWait'
    BY <1>1 DEF PostInv, PostsWait
  <1>3. PostedOnce'
    BY DEF PostInv, PostedOnce
  <1>4. TakenWaits'
    BY <1>1 DEF PostInv, TakenWaits, Has
  <1>5. WakesAwaited'
    BY DEF PostInv, WakesAwaited
  <1> QED BY <1>2, <1>3, <1>4, <1>5 DEF PostInv

\* A thread posts its context and is about to sleep.
LEMMA PostKeeps ==
  ASSUME PostInv, CtxInv', NEW t \in Thread, NEW h \in Handler,
         th[t].pc = "walk", th[t].ev = h,
         mbox' = [mbox EXCEPT ![h] = Append(@, th[t].ctx)],
         th' = [th EXCEPT ![t].pc = "posted"],
         UNCHANGED <<valid, thid, server, wake>>
  PROVE  PostInv'
  <1>1. PICK c \in Ctx : c = th[t].ctx /\ Typed /\ thid[c] = t /\ valid[c]
    BY DEF PostInv, CtxInv, Holding, InTrap, Holds
  <1>2. wake[t] = 0
    <2>1. wake[t] \in Nat
      BY <1>1 DEF Typed
    <2>2. ~(wake[t] > 0)
      BY DEF PostInv, WakesAwaited
    <2> QED BY <2>1, <2>2
  <1>3. th'[t].pc = "posted" /\ th'[t].ev = h /\ th'[t].ctx = c /\ \A u \in Thread \ {t} : th'[u] = th[u]
    BY <1>1 DEF Typed, ThreadRecord
  <1>4. WaitsFor(c, h)'
    BY <1>1, <1>2, <1>3 DEF WaitsFor, Holds, InTrap
  <1>5. ASSUME NEW d, NEW g, WaitsFor(d, g) PROVE WaitsFor(d, g)' /\ d # c
    <2>1. d \in Ctx /\ valid[d] /\ thid[d] \in Thread \ {t}
      BY <1>5 DEF WaitsFor, Holds
    <2> QED BY <1>1, <1>3, <1>5, <2>1, WaitKept
  <1>6. \A g \in Handler \ {h} : mbox'[g] = mbox[g]
    BY <1>1 DEF Typed
  <1>7. /\ mbox[h] \in Seq(Ctx) /\ mbox'[h] = Append(mbox[h], c)
        /\ DOMAIN mbox'[h] = DOMAIN mbox[h] \cup {Len(mbox[h]) + 1}
        /\ mbox'[h][Len(mbox[h]) + 1] = c
        /\ \A i \in DOMAIN mbox[h] : mbox'[h][i] = mbox[h][i]
        /\ Len(mbox[h]) + 1 \notin DOMAIN mbox[h]
    BY <1>1 DEF Typed
  <1>8. PostsWait'
    <2> SUFFICES ASSUME NEW g \in Handler, NEW i \in DOMAIN mbox'[g]
                 PROVE  WaitsFor(mbox[g][i], g)'
      BY DEF PostsWait
    <2>1. CASE g = h /\ i = Len(mbox[h]) + 1
      BY <1>4, <1>7, <2>1 DEF WaitsFor, Holds, InTrap
    <2>2. CASE ~(g = h /\ i = Len(mbox[h]) + 1)
      <3>1. i \in DOMAIN mbox[g] /\ mbox'[g][i] = mbox[g][i]
        BY <1>6, <1>7, <2>2
      <3>2. WaitsFor(mbox[g][i], g)
        BY <3>1 DEF PostInv, PostsWait
      <3>3. PICK d : d = mbox[g][i]
        OBVIOUS
      <3>4. WaitsFor(d, g)'
        BY <3>2, <3>3, <1>5
      <3> QED BY <3>1, <3>3, <3>4 DEF WaitsFor, Holds, InTrap
    <2> QED BY <2>1, <2>2
  <1>9. PostedOnce'
    <2>1. \A i \in DOMAIN mbox[h] : mbox[h][i] # c
      BY <1>5 DEF PostInv, PostsWait
    <2> QED BY <1>6, <1>7, <2>1 DEF PostInv, PostedOnce
  <1>10. TakenWaits'
    <2> SUFFICES ASSUME NEW g \in Handler, Has(g)
                 PROVE  WaitsFor(server[g].ctx, g)' /\ \A i \in DOMAIN mbox'[g] : mbox'[g][i] # server[g].ctx
      BY DEF TakenWaits, Has
    <2>1. WaitsFor(server[g].ctx, g) /\ \A i \in DOMAIN mbox[g] : mbox[g][i] # server[g].ctx
      BY DEF PostInv, TakenWaits
    <2>2. PICK d : d = server[g].ctx
      OBVIOUS
    <2>3. WaitsFor(d, g)' /\ d # c
      BY <2>1, <2>2, <1>5
    <2> QED BY <1>6, <1>7, <2>1, <2>2, <2>3 DEF WaitsFor, Holds, InTrap
  <1>11. WakesAwaited'
    BY <1>2, <1>3 DEF PostInv, WakesAwaited
  <1> QED BY <1>8, <1>9, <1>10, <1>11 DEF PostInv

\* A thread that posted goes to sleep, or on if it was woken already: then no
\* debugger has its message any more.
LEMMA SleepPost ==
  ASSUME PostInv, CtxInv', NEW t \in Thread, Sleep(t)
  PROVE  PostInv'
  <1>1. Typed /\ wake[t] \in Nat /\ th[t].pc = "posted" /\ (wake[t] > 0 => wake[t] = 1)
    BY DEF PostInv, CtxInv, Typed, Sleep, At, WakesAwaited
  <1>2. UNCHANGED <<valid, thid, mbox, server>>
    BY DEF Sleep
  <1>3. /\ \A u \in Thread : th'[u].ctx = th[u].ctx
        /\ \A u \in Thread \ {t} : th'[u] = th[u] /\ wake'[u] = wake[u]
        /\ th'[t].ev = th[t].ev
        /\ IF wake[t] > 0 THEN th'[t].pc = "woken" /\ wake'[t] = wake[t] - 1
                          ELSE th'[t].pc = "asleep" /\ wake'[t] = wake[t]
    <2>1. SleepThread(t, "woken", "asleep") /\ "woken" \in Pc /\ "asleep" \in Pc
      BY DEF Sleep, Pc
    <2> QED BY <1>1, <2>1, SleepTyped
  <1>4. ASSUME NEW c, NEW h, WaitsFor(c, h) PROVE WaitsFor(c, h)'
    <2>1. CASE thid[c] = t
      <3>1. wake[t] = 0
        BY <1>4, <2>1 DEF WaitsFor
      <3> QED BY <1>2, <1>3, <1>4, <2>1, <3>1 DEF WaitsFor, Holds, InTrap
    <2>2. CASE thid[c] # t
      <3>1. thid[c] \in Thread \ {t} /\ valid[c]
        BY <1>4, <2>2 DEF WaitsFor, Holds
      <3> QED BY <1>2, <1>3, <1>4, <3>1, WaitKept
    <2> QED BY <2>1, <2>2
  <1>5. PostsWait'
    BY <1>2, <1>4 DEF PostInv, PostsWait
  <1>6. PostedOnce'
    BY <1>2 DEF PostInv, PostedOnce
  <1>7. TakenWaits'
    BY <1>2, <1>4 DEF PostInv, TakenWaits, Has
  <1>8. WakesAwaited'
    BY <1>1, <1>3 DEF PostInv, WakesAwaited
  <1> QED BY <1>5, <1>6, <1>7, <1>8 DEF PostInv

\* Every step of a thread.
LEMMA ThreadPost ==
  ASSUME PostInv, CtxInv', NEW t \in Thread, Trap(t) \/ ThreadStep(t)
  PROVE  PostInv'
  <1>1. Typed /\ th \in [Thread -> ThreadRecord]
    BY DEF PostInv, CtxInv, Typed
  <1>2. CASE Trap(t)
    <2>1. /\ th[t].pc = "run" /\ UNCHANGED <<mbox, server, wake>>
          /\ \A c \in Ctx : valid[c] /\ thid[c] # t => valid'[c] /\ thid'[c] = thid[c]
      BY <1>1, <1>2 DEF Trap, At, FreeCtx, Typed
    <2>2. th' = th \/ \E c \in Ctx : th' = [th EXCEPT ![t] = [pc |-> "begin", ctx |-> c, ev |-> NULL]]
      BY <1>2 DEF Trap, FreeCtx
    <2>3. th'[t].pc # "posted" /\ \A u \in Thread \ {t} : th'[u] = th[u]
      BY <1>1, <2>1, <2>2
    <2> QED BY <2>1, <2>3, Elsewhere
  <1>3. CASE Sleep(t)
    BY <1>3, SleepPost
  <1>4. CASE Offer(t) /\ mbox' # mbox
    <2>1. PICK h \in Handler :
            /\ th[t].pc = "walk" /\ th[t].ev = h
            /\ mbox' = [mbox EXCEPT ![h] = Append(@, th[t].ctx)]
            /\ th' = [th EXCEPT ![t].pc = "posted"]
            /\ UNCHANGED <<valid, thid, server, wake>>
      BY <1>1, <1>4 DEF Offer, At, Go, ThreadRecord
    <2> QED BY <2>1, PostKeeps
  <1>5. CASE Leave(t)
    <2>1. th[t].pc = "leave" /\ UNCHANGED <<thid, mbox, server, wake>>
      BY <1>5 DEF Leave, At
    <2>2. Holds(t, th[t].ctx)
      BY <2>1 DEF PostInv, CtxInv, Holding, InTrap
    <2>3. \A c \in Ctx : valid[c] /\ thid[c] # t => valid'[c] /\ thid'[c] = thid[c]
      BY <1>1, <1>5, <2>1, <2>2 DEF Leave, Holds, Typed
    <2>4. th'[t].pc # "posted" /\ \A u \in Thread \ {t} : th'[u] = th[u]
      BY <1>1, <1>5 DEF Leave, Running
    <2> QED BY <2>1, <2>3, <2>4, Elsewhere
  <1>6. CASE HandleBegin(t) \/ (Offer(t) /\ mbox' = mbox) \/ Woken(t) \/ Untaken(t) \/ Exit(t)
    <2>1. UNCHANGED <<valid, thid, mbox, server>> /\ th[t].pc \in {"begin", "walk", "woken", "untaken", "leave"}
      BY <1>6 DEF HandleBegin, Offer, Woken, Untaken, Exit, At
    <2>2. wake[t] = 0
      <3>1. wake[t] \in Nat /\ ~(wake[t] > 0)
        BY <1>1, <2>1 DEF PostInv, Typed, WakesAwaited
      <3> QED BY <3>1
    <2>3. /\ wake' = wake
          /\ \/ \E p \in {"untaken", "leave", "parked", "dead"} : th' = [th EXCEPT ![t].pc = p]
             \/ \E e : th' = [th EXCEPT ![t].pc = "walk", ![t].ev = e]
             \/ th[t].pc = "walk" /\ \E e : th' = [th EXCEPT ![t].ev = e]
      <3>1. CASE HandleBegin(t)
        BY <3>1 DEF HandleBegin
      <3>2. CASE Offer(t) /\ mbox' = mbox
        <4>1. \A h \in Handler : [mbox EXCEPT ![h] = Append(@, th[t].ctx)] # mbox
          <5>1. \A h \in Handler : mbox[h] \in Seq(Ctx) /\ Len(Append(mbox[h], th[t].ctx)) # Len(mbox[h])
            BY <1>1 DEF Typed
          <5> QED BY <1>1, <5>1 DEF Typed
        <4> QED BY <1>1, <3>2, <4>1 DEF Offer, Go, At, ThreadRecord
      <3>3. CASE Woken(t)
        BY <3>3 DEF Woken
      <3>4. CASE Untaken(t)
        BY <3>4, <2>2 DEF Untaken, SleepThread, Go
      <3>5. CASE Exit(t)
        BY <3>5 DEF Exit, Go
      <3> QED BY <1>6, <3>1, <3>2, <3>3, <3>4, <3>5
    <2>4. th'[t].pc # "posted" /\ \A u \in Thread \ {t} : th'[u] = th[u]
      <3>1. CASE \E p \in {"untaken", "leave", "parked", "dead"} : th' = [th EXCEPT ![t].pc = p]
        BY <1>1, <3>1 DEF ThreadRecord
      <3>2. CASE \E e : th' = [th EXCEPT ![t].pc = "walk", ![t].ev = e]
        BY <1>1, <3>2 DEF ThreadRecord
      <3>3. CASE th[t].pc = "walk" /\ \E e : th' = [th EXCEPT ![t].ev = e]
        BY <1>1, <3>3 DEF ThreadRecord
      <3> QED BY <2>3, <3>1, <3>2, <3>3
    <2> QED BY <2>1, <2>3, <2>4, Elsewhere
  <1> QED BY <1>2, <1>3, <1>4, <1>5, <1>6 DEF ThreadStep

\* A debugger takes a context out of its message box.
LEMMA TakePost ==
  ASSUME PostInv, CtxInv', NEW h \in Handler, debugWaitDebugEvent(h)
  PROVE  PostInv'
  <1>1. /\ UNCHANGED <<valid, thid, th, wake>>
        /\ mbox[h] \in Seq(Ctx) /\ mbox[h] # <<>> /\ mbox' \in [Handler -> Seq(Ctx)]
        /\ mbox'[h] = Tail(mbox[h]) /\ \A g \in Handler \ {h} : mbox'[g] = mbox[g] /\ server'[g] = server[g]
        /\ server'[h] = [pc |-> "busy", ctx |-> Head(mbox[h])]
    BY DEF debugWaitDebugEvent, PostInv, CtxInv, Typed
  <1>2. /\ Head(mbox[h]) = mbox[h][1] /\ 1 \in DOMAIN mbox[h]
        /\ \A i \in DOMAIN mbox'[h] : i + 1 \in DOMAIN mbox[h] /\ i + 1 # 1 /\ mbox'[h][i] = mbox[h][i + 1]
        /\ \A i \in DOMAIN mbox'[h] : i \in Nat
    BY <1>1
  <1>3. ASSUME NEW c, NEW g, WaitsFor(c, g) PROVE WaitsFor(c, g)'
    BY <1>1, <1>3 DEF WaitsFor, Holds, InTrap
  <1>4. PostsWait'
    <2> SUFFICES ASSUME NEW g \in Handler, NEW i \in DOMAIN mbox'[g]
                 PROVE  WaitsFor(mbox[g][i], g)'
      BY DEF PostsWait
    <2>1. PICK d : d = mbox'[g][i]
      OBVIOUS
    <2>2. WaitsFor(d, g)
      <3>1. \A j \in DOMAIN mbox[g] : WaitsFor(mbox[g][j], g)
        BY DEF PostInv, PostsWait
      <3>2. CASE g = h
        <4>1. i + 1 \in DOMAIN mbox[g] /\ d = mbox[g][i + 1]
          BY <1>2, <2>1, <3>2
        <4> QED BY <3>1, <4>1
      <3>3. CASE g # h
        BY <1>1, <2>1, <3>1, <3>3
      <3> QED BY <3>2, <3>3
    <2>3. WaitsFor(d, g)'
      BY <2>2, <1>3
    <2> QED BY <2>1, <2>3 DEF WaitsFor, Holds, InTrap
  <1>5. PostedOnce'
    <2> SUFFICES ASSUME NEW g \in Handler, NEW i \in DOMAIN mbox'[g], NEW j \in DOMAIN mbox'[g],
                        mbox'[g][i] = mbox'[g][j]
                 PROVE  i = j
      BY DEF PostedOnce
    <2>1. CASE g = h
      <3>1. i + 1 = j + 1
        BY <1>2, <2>1 DEF PostInv, PostedOnce
      <3> QED BY <1>2, <2>1, <3>1
    <2>2. CASE g # h
      BY <1>1, <2>2 DEF PostInv, PostedOnce
    <2> QED BY <2>1, <2>2
  <1>6. TakenWaits'
    <2> SUFFICES ASSUME NEW g \in Handler, Has(g)'
                 PROVE  WaitsFor(server[g].ctx, g)' /\ \A i \in DOMAIN mbox'[g] : mbox'[g][i] # server'[g].ctx
      BY DEF TakenWaits
    <2>1. CASE g = h
      <3>1. PICK d : d = server'[g].ctx
        OBVIOUS
      <3>2. d = mbox[h][1] /\ WaitsFor(d, g)
        BY <1>1, <1>2, <2>1, <3>1 DEF PostInv, PostsWait
      <3>3. WaitsFor(d, g)'
        BY <3>2, <1>3
      <3>4. \A i \in DOMAIN mbox'[g] : mbox'[g][i] # d
        BY <1>2, <2>1, <3>2 DEF PostInv, PostedOnce
      <3> QED BY <3>1, <3>3, <3>4 DEF WaitsFor, Holds, InTrap
    <2>2. CASE g # h
      <3>1. PICK d : d = server'[g].ctx
        OBVIOUS
      <3>2. WaitsFor(d, g) /\ \A i \in DOMAIN mbox'[g] : mbox'[g][i] # d
        BY <1>1, <2>2, <3>1 DEF PostInv, TakenWaits, Has
      <3>3. WaitsFor(d, g)'
        BY <3>2, <1>3
      <3> QED BY <3>1, <3>2, <3>3 DEF WaitsFor, Holds, InTrap
    <2> QED BY <2>1, <2>2
  <1>7. WakesAwaited'
    BY <1>1 DEF PostInv, WakesAwaited
  <1> QED BY <1>4, <1>5, <1>6, <1>7 DEF PostInv

\* It wakes the thread of the context it has taken: no other context has it.
LEMMA WakePost ==
  ASSUME PostInv, CtxInv', NEW h \in Handler, GdbWake(h)
  PROVE  PostInv'
  <1>1. PICK c : c = server[h].ctx
    OBVIOUS
  <1>2. PICK t : t = thid[c]
    OBVIOUS
  <1>3. /\ WaitsFor(c, h) /\ \A i \in DOMAIN mbox[h] : mbox[h][i] # c
        /\ Typed /\ UNCHANGED <<valid, thid, mbox>>
        /\ WakeupThread(t)
    BY <1>1, <1>2 DEF PostInv, CtxInv, TakenWaits, Has, GdbWake
  <1>4. /\ t \in Thread /\ th[t].ctx = c /\ th[t].ev = h /\ th[t].pc \in {"posted", "asleep"}
        /\ wake[t] = 0
    BY <1>2, <1>3 DEF WaitsFor, Holds
  <1>5. /\ \A u \in Thread \ {t} : th'[u] = th[u] /\ wake'[u] = wake[u]
        /\ \/ th'[t].pc = "woken" /\ wake' = wake
           \/ th[t].pc = "posted" /\ th' = th /\ wake'[t] = 1
    BY <1>3, <1>4, WakeupTyped
  <1>6. ~Has(h)' /\ \A g \in Handler \ {h} : server'[g] = server[g]
    BY <1>3 DEF GdbWake, Has, Typed
  <1>7. ASSUME NEW d, NEW g \in Handler, WaitsFor(d, g), g # h \/ d # c PROVE WaitsFor(d, g)'
    <2>1. thid[d] \in Thread \ {t} /\ valid[d]
      BY <1>4, <1>7 DEF WaitsFor, Holds
    <2> QED BY <1>3, <1>5, <1>7, <2>1, WaitKept
  <1>8. PostsWait'
    <2> SUFFICES ASSUME NEW g \in Handler, NEW i \in DOMAIN mbox[g]
                 PROVE  WaitsFor(mbox[g][i], g)'
      BY <1>3 DEF PostsWait
    <2>1. PICK d : d = mbox[g][i]
      OBVIOUS
    <2>2. WaitsFor(d, g)'
      BY <1>3, <1>7, <2>1 DEF PostInv, PostsWait
    <2> QED BY <1>3, <2>1, <2>2 DEF WaitsFor, Holds, InTrap
  <1>9. PostedOnce'
    BY <1>3 DEF PostInv, PostedOnce
  <1>10. TakenWaits'
    <2> SUFFICES ASSUME NEW g \in Handler \ {h}, Has(g)
                 PROVE  WaitsFor(server[g].ctx, g)' /\ \A i \in DOMAIN mbox[g] : mbox[g][i] # server[g].ctx
      BY <1>3, <1>6 DEF TakenWaits, Has
    <2>1. PICK d : d = server[g].ctx
      OBVIOUS
    <2>2. WaitsFor(d, g)' /\ \A i \in DOMAIN mbox[g] : mbox[g][i] # d
      BY <1>7, <2>1 DEF PostInv, TakenWaits
    <2> QED BY <1>6, <2>1, <2>2 DEF WaitsFor, Holds, InTrap
  <1>11. WakesAwaited'
    BY <1>4, <1>5 DEF PostInv, WakesAwaited
  <1> QED BY <1>8, <1>9, <1>10, <1>11 DEF PostInv

\* Every step of a debugger.
LEMMA DebuggerPost ==
  ASSUME PostInv, CtxInv', NEW h \in Handler,
         \/ debugRegisterEventHandler(h) \/ debugWaitDebugEvent(h)
         \/ GdbAnswer(h) \/ GdbWake(h)
  PROVE  PostInv'
  <1>1. CASE debugRegisterEventHandler(h) \/ GdbAnswer(h)
    <2>1. /\ UNCHANGED <<valid, thid, mbox, th, wake>> /\ (Has(h)' => Has(h))
          /\ \A g \in Handler \ {h} : server'[g] = server[g]
          /\ Has(h)' => server'[h].ctx = server[h].ctx
      BY <1>1 DEF debugRegisterEventHandler, GdbAnswer, GdbHandleException, PostInv, CtxInv, Typed,
                  ServerRecord, Has
    <2>2. PostsWait' /\ PostedOnce' /\ WakesAwaited'
      BY <2>1 DEF PostInv, PostsWait, PostedOnce, WakesAwaited, WaitsFor, Holds, InTrap
    <2>3. TakenWaits'
      BY <2>1 DEF PostInv, TakenWaits, Has, WaitsFor, Holds, InTrap
    <2> QED BY <2>2, <2>3 DEF PostInv
  <1>2. CASE debugWaitDebugEvent(h)
    BY <1>2, TakePost
  <1>3. CASE GdbWake(h)
    BY <1>3, WakePost
  <1> QED BY <1>1, <1>2, <1>3

\* The shell resumes a thread that no debugger took.
LEMMA ResumePost ==
  ASSUME PostInv, CtxInv', Parked, NEW c, exceptionResume(c)
  PROVE  PostInv'
  <1>1. PICK t : t = thid[g_currex]
    OBVIOUS
  <1>2. /\ Typed /\ t \in Thread /\ th[t].pc = "parked" /\ WakeupThread(t)
        /\ UNCHANGED <<valid, thid, mbox, server>>
    BY <1>1 DEF exceptionResume, At, PostInv, CtxInv, CurrexInUse, ValidNamed, Typed
  <1>3. th'[t].pc = "leave" /\ wake' = wake /\ \A u \in Thread \ {t} : th'[u] = th[u]
    BY <1>2, WakeupTyped
  <1> QED BY <1>2, <1>3, Elsewhere

LEMMA PostInvNext ==
  ASSUME PostInv, Parked, [Next]_vars
  PROVE  PostInv'
  <1>1. CtxInv'
    BY CtxInvNext DEF PostInv
  <1>2. ASSUME NEW t \in Thread, Trap(t) \/ ThreadStep(t) PROVE PostInv'
    BY <1>1, <1>2, ThreadPost
  <1>3. ASSUME NEW h \in Handler,
               \/ debugRegisterEventHandler(h) \/ debugWaitDebugEvent(h)
               \/ GdbAnswer(h) \/ GdbWake(h)
        PROVE  PostInv'
    BY <1>1, <1>3, DebuggerPost
  <1>4. ASSUME NEW c, exceptionResume(c) PROVE PostInv'
    BY <1>1, <1>4, ResumePost
  <1>5. CASE UNCHANGED vars \/ \E c \in Ctx : exceptionSetCtx(c)
    <2>1. UNCHANGED <<valid, thid, mbox, server, th, wake>>
      BY <1>5 DEF vars, exceptionSetCtx
    <2> QED BY <1>1, <2>1 DEF PostInv, PostsWait, PostedOnce, TakenWaits, WakesAwaited, WaitsFor,
                              Holds, InTrap, Has
  <1> QED BY <1>2, <1>3, <1>4, <1>5 DEF Next

\* A message in a message box lies on the stack of a thread that is still in
\* the post of its context, if the shell resumes only threads that no debugger
\* took (debugHandleException, exceptionResume).
THEOREM PostsLive ==
  ASSUME Parked
  PROVE  Spec => []PostOnLiveStack
  <1>1. Init => PostInv
    BY PostInvInit
  <1>2. PostInv /\ [Next]_vars => PostInv'
    BY PostInvNext
  <1>3. PostInv => PostOnLiveStack
    BY DEF PostInv, PostsWait, WaitsFor, PostOnLiveStack
  <1> QED BY <1>1, <1>2, <1>3, PTL DEF Spec

-----------------------------------------------------------------------------
(* ListHasServers is inductive: with no loop in it, the last debugger of    *)
(* the list is the one without a next one.                                  *)

Servers == {h \in Handler : server[h].pc # "off"}
Links == [Handler -> Handler \cup {NULL}]

LEMMA RegisterList ==
  ASSUME NEW L \in SUBSET Handler, NEW e, NEW n \in Links, IsList(L, e, n),
         NEW h \in Handler, h \notin L
  PROVE  IsList(L \cup {h}, h, [n EXCEPT ![h] = e])
  <1> DEFINE M == L \cup {h}
             m == [n EXCEPT ![h] = e]
  <1>1. NULL \notin Handler /\ e \in L \cup {NULL} /\ \A g \in L : n[g] \in L \cup {NULL}
    BY ExceptionAssumption DEF IsList
  <1>2. m[h] = e /\ \A g \in L : m[g] = n[g]
    BY DEF Links
  <1>3. \A g \in L : g = e <=> \A x \in L : n[x] # g
    BY DEF IsList
  <1> HIDE DEF M, m
  <1>4. h \in M /\ h # NULL /\ \A g \in M : m[g] \in M \cup {NULL}
    BY <1>1, <1>2 DEF M
  <1>5. \A g \in M : g = h <=> \A x \in M : m[x] # g
    <2>1. \A x \in M : m[x] # h
      BY <1>1, <1>2 DEF M
    <2>2. ASSUME NEW g \in L
          PROVE  \E x \in M : m[x] = g
      <3>1. CASE g = e
        BY <3>1, <1>2 DEF M
      <3>2. CASE g # e
        BY <3>2, <1>2, <1>3 DEF M
      <3> QED
        BY <3>1, <3>2
    <2> QED
      BY <2>1, <2>2 DEF M
  <1>6. \A g, x \in M : m[g] = m[x] => g = x
    <2>1. \A g, x \in L : n[g] = n[x] => g = x
      BY DEF IsList
    <2>2. \A g \in L : n[g] # e
      <3>1. SUFFICES ASSUME NEW g \in L, n[g] = e PROVE FALSE
        OBVIOUS
      <3>2. e # NULL
        BY <3>1 DEF IsList
      <3> QED
        BY <3>1, <3>2, <1>1, <1>3
    <2> QED
      BY <2>1, <2>2, <1>2 DEF M
  <1>7. ASSUME NEW S \in SUBSET M, S # {}
        PROVE  \E g \in S : m[g] \notin S
    <2> DEFINE R == S \ {h}
    <2>1. R \in SUBSET L
      BY DEF M
    <2>2. CASE R = {}
      <3>1. S = {h}
        BY <1>7, <2>2
      <3> QED
        BY <3>1, <1>1, <1>2
    <2>3. CASE R # {}
      <3>1. PICK g \in R : n[g] \notin R
        BY <2>1, <2>3 DEF IsList
      <3>2. n[g] # h /\ m[g] = n[g] /\ g \in S
        BY <3>1, <2>1, <1>1, <1>2
      <3> QED
        BY <3>1, <3>2
    <2> QED
      BY <2>2, <2>3
  <1> QED
    BY <1>4, <1>5, <1>6, <1>7 DEF IsList, M, m

\* The head leaves the list.
LEMMA UnlinkFirst ==
  ASSUME NEW L \in SUBSET Handler, NEW e, NEW n \in Links, IsList(L, e, n),
         e \in L
  PROVE  IsList(L \ {e}, n[e], n)
  <1> DEFINE M == L \ {e}
  <1>1. /\ NULL \notin L /\ \A g \in L : n[g] \in L \cup {NULL}
        /\ \A g \in L : g = e <=> \A x \in L : n[x] # g
        /\ \A g, x \in L : n[g] = n[x] => g = x
    BY ExceptionAssumption DEF IsList
  <1>2. n[e] \in M \cup {NULL} /\ \A g \in M : n[g] \in M \cup {NULL}
    BY <1>1
  <1>3. ASSUME NEW S \in SUBSET M, S # {}
        PROVE  \E g \in S : n[g] \notin S
    BY <1>3 DEF IsList
  <1>4. n[e] = NULL <=> M = {}
    <2>1. M = {} => n[e] = NULL
      BY <1>2
    <2>2. ASSUME n[e] = NULL, M # {} PROVE FALSE
      <3>1. PICK g \in M : n[g] \notin M
        BY <2>2, <1>3
      <3>2. n[g] = n[e]
        BY <3>1, <2>2, <1>2
      <3> QED
        BY <3>1, <3>2, <1>1
    <2> QED
      BY <2>1, <2>2
  <1>5. \A g \in M : g = n[e] <=> \A x \in M : n[x] # g
    <2>1. ASSUME NEW g \in M, g = n[e], NEW x \in M
          PROVE  n[x] # g
      BY <2>1, <1>1
    <2>2. ASSUME NEW g \in M, \A x \in M : n[x] # g
          PROVE  g = n[e]
      <3>1. PICK x \in L : n[x] = g
        BY <2>2, <1>1
      <3> QED
        BY <3>1, <2>2
    <2> QED
      BY <2>1, <2>2
  <1>6. \A g, x \in M : n[g] = n[x] => g = x
    BY <1>1
  <1> HIDE DEF M
  <1> QED
    BY <1>2, <1>3, <1>4, <1>5, <1>6 DEF IsList, M

\* Another one leaves it, and the one before it takes over its link.
LEMMA UnlinkOther ==
  ASSUME NEW L \in SUBSET Handler, NEW e, NEW n \in Links, IsList(L, e, n),
         NEW h \in L, h # e
  PROVE  IsList(L \ {h}, e, [g \in Handler |-> IF n[g] = h THEN n[h] ELSE n[g]])
  <1> DEFINE M == L \ {h}
             m == [g \in Handler |-> IF n[g] = h THEN n[h] ELSE n[g]]
  <1>1. /\ NULL \notin L /\ \A g \in L : n[g] \in L \cup {NULL}
        /\ \A g \in L : g = e <=> \A x \in L : n[x] # g
        /\ \A g, x \in L : n[g] = n[x] => g = x
        /\ e \in L \cup {NULL} /\ (e = NULL <=> L = {})
    BY ExceptionAssumption DEF IsList
  <1>2. \A g \in L : m[g] = IF n[g] = h THEN n[h] ELSE n[g]
    OBVIOUS
  <1>3. n[h] # h
    <2>1. {h} \in (SUBSET L) \ {{}}
      OBVIOUS
    <2> QED
      BY <2>1 DEF IsList
  <1>4. PICK p \in L : n[p] = h
    BY <1>1
  <1>5. p \in M /\ m[p] = n[h] /\ \A g \in M : g # p => m[g] = n[g] /\ n[g] # h
    BY <1>1, <1>2, <1>3, <1>4
  <1> HIDE DEF m
  <1>6. /\ e \in M \cup {NULL} /\ (e = NULL <=> M = {})
        /\ \A g \in M : m[g] \in M \cup {NULL}
    BY <1>1, <1>3, <1>5
  <1>7. \A g \in M : g = e <=> \A x \in M : m[x] # g
    <2>1. ASSUME NEW g \in M, g = e, NEW x \in M
          PROVE  m[x] # g
      BY <2>1, <1>1, <1>5
    <2>2. ASSUME NEW g \in M, g # e
          PROVE  \E x \in M : m[x] = g
      <3>1. PICK x \in L : n[x] = g
        BY <2>2, <1>1
      <3>2. CASE x = h
        BY <3>1, <3>2, <1>5
      <3>3. CASE x # h
        BY <3>1, <3>3, <2>2, <1>4, <1>5
      <3> QED
        BY <3>2, <3>3
    <2> QED
      BY <2>1, <2>2
  <1>8. \A g, x \in M : m[g] = m[x] => g = x
    BY <1>1, <1>5
  <1>9. ASSUME NEW S \in SUBSET M, S # {}
        PROVE  \E g \in S : m[g] \notin S
    <2>1. CASE p \in S /\ n[h] \notin S
      BY <2>1, <1>5
    <2>2. CASE p \in S /\ n[h] \in S
      <3>1. S \cup {h} \in (SUBSET L) \ {{}}
        BY <1>9
      <3>2. PICK g \in S \cup {h} : n[g] \notin S \cup {h}
        BY <3>1 DEF IsList
      <3>3. g # h /\ g # p /\ g \in S
        BY <3>2, <2>2, <1>4
      <3> QED
        BY <3>2, <3>3, <1>5
    <2>3. CASE p \notin S
      <3>1. S \in (SUBSET L) \ {{}}
        BY <1>9
      <3>2. PICK g \in S : n[g] \notin S
        BY <3>1 DEF IsList
      <3> QED
        BY <3>2, <2>3, <1>5
    <2> QED
      BY <2>1, <2>2, <2>3
  <1> HIDE DEF M
  <1>10. IsList(M, e, m)
    BY <1>6, <1>7, <1>8, <1>9 DEF IsList
  <1> QED
    BY <1>10 DEF M, m

\* A step that neither starts nor ends a server leaves the list alone.
LEMMA ListAlone ==
  ASSUME ListHasServers, UNCHANGED <<g_eventhead, pNext>>, Servers' = Servers
  PROVE  ListHasServers'
  BY DEF ListHasServers, Servers, IsList

LEMMA ListRegister ==
  ASSUME Typed, ListHasServers, NEW h \in Handler, debugRegisterEventHandler(h)
  PROVE  ListHasServers'
  <1>1. h \notin Servers /\ Servers \in SUBSET Handler
    BY DEF debugRegisterEventHandler, Servers
  <1>2. /\ pNext' = [pNext EXCEPT ![h] = g_eventhead] /\ g_eventhead' = h
        /\ server' = [server EXCEPT ![h] = [pc |-> "wait", ctx |-> NULL]]
    BY DEF debugRegisterEventHandler
  <1>3. Servers' = Servers \cup {h}
    BY <1>2 DEF Typed, Servers
  <1>4. IsList(Servers, g_eventhead, pNext) /\ pNext \in Links
    BY DEF ListHasServers, Servers, Typed, Links
  <1>5. IsList(Servers', g_eventhead', pNext')
    BY <1>1, <1>2, <1>3, <1>4, RegisterList
  <1> QED
    BY <1>5 DEF ListHasServers, Servers

LEMMA ListUnregister ==
  ASSUME Typed, ListHasServers, NEW h \in Handler, GdbWake(h), server[h].pc = "ending"
  PROVE  ListHasServers'
  <1>1. /\ server' = [server EXCEPT ![h] = [pc |-> "off", ctx |-> NULL]]
        /\ g_eventhead' = Unlink(h)[1] /\ pNext' = Unlink(h)[2]
    BY DEF GdbWake
  <1>2. h \in Servers /\ Servers \in SUBSET Handler
    BY DEF Servers
  <1>3. Servers' = Servers \ {h}
    BY <1>1 DEF Typed, Servers
  <1>4. IsList(Servers, g_eventhead, pNext) /\ pNext \in Links
    BY DEF ListHasServers, Servers, Typed, Links
  <1>5. CASE g_eventhead = h
    <2>1. g_eventhead' = pNext[h] /\ pNext' = pNext
      BY <1>1, <1>5 DEF Unlink
    <2>2. IsList(Servers', g_eventhead', pNext')
      BY <1>2, <1>3, <1>4, <1>5, <2>1, UnlinkFirst
    <2> QED
      BY <2>2 DEF ListHasServers, Servers
  <1>6. CASE g_eventhead # h
    <2>1. /\ g_eventhead' = g_eventhead
          /\ pNext' = [g \in Handler |-> IF pNext[g] = h THEN pNext[h] ELSE pNext[g]]
      BY <1>1, <1>6 DEF Unlink
    <2>2. IsList(Servers', g_eventhead', pNext')
      BY <1>2, <1>3, <1>4, <1>6, <2>1, UnlinkOther
    <2> QED
      BY <2>2 DEF ListHasServers, Servers
  <1> QED
    BY <1>5, <1>6

LEMMA ListNext ==
  ASSUME Typed, ListHasServers, [Next]_vars
  PROVE  ListHasServers'
  <1>1. ASSUME NEW t \in Thread, Trap(t) \/ ThreadStep(t) PROVE ListHasServers'
    <2>1. UNCHANGED <<g_eventhead, pNext, server>>
      BY <1>1 DEF Trap, ThreadStep, HandleBegin, Offer, Sleep, Woken, Untaken, Leave, Exit
    <2> QED
      BY <2>1, ListAlone DEF Servers
  <1>2. ASSUME NEW h \in Handler, debugRegisterEventHandler(h) PROVE ListHasServers'
    BY <1>2, ListRegister
  <1>3. ASSUME NEW h \in Handler, debugWaitDebugEvent(h) \/ GdbAnswer(h) PROVE ListHasServers'
    <2>1. CASE debugWaitDebugEvent(h)
      <3> DEFINE r == [pc |-> "busy", ctx |-> Head(mbox[h])]
      <3>1. /\ server' = [server EXCEPT ![h] = r] /\ server[h].pc # "off"
            /\ UNCHANGED <<g_eventhead, pNext>>
        BY <2>1 DEF debugWaitDebugEvent
      <3> HIDE DEF r
      <3>2. r.pc = "busy"
        BY DEF r
      <3>3. Servers' = Servers
        BY <3>1, <3>2 DEF Servers, Typed
      <3> QED
        BY <3>1, <3>3, ListAlone
    <2>2. ASSUME NEW c, NEW p \in {"answered", "ending"}, GdbHandleException(h, c, p)
          PROVE  ListHasServers'
      <3> DEFINE r == [server[h] EXCEPT !.pc = p]
      <3>1. r.pc = p
        BY DEF Typed, ServerRecord
      <3>2. /\ server' = [server EXCEPT ![h] = r] /\ server[h].pc # "off"
            /\ UNCHANGED <<g_eventhead, pNext>>
        BY <2>2 DEF GdbHandleException
      <3> HIDE DEF r
      <3>3. Servers' = Servers
        BY <3>1, <3>2 DEF Servers, Typed
      <3> QED
        BY <3>2, <3>3, ListAlone
    <2> QED
      BY <1>3, <2>1, <2>2 DEF GdbAnswer
  <1>4. ASSUME NEW h \in Handler, GdbWake(h) PROVE ListHasServers'
    <2>1. CASE server[h].pc = "answered"
      <3>1. /\ UNCHANGED <<g_eventhead, pNext>>
            /\ server' = [server EXCEPT ![h] = [pc |-> "wait", ctx |-> NULL]]
        BY <1>4, <2>1 DEF GdbWake
      <3>2. Servers' = Servers
        BY <2>1, <3>1 DEF Servers, Typed
      <3> QED
        BY <3>1, <3>2, ListAlone
    <2>2. CASE server[h].pc = "ending"
      BY <1>4, <2>2, ListUnregister
    <2> QED
      BY <1>4, <2>1, <2>2 DEF GdbWake
  <1>5. ASSUME NEW c, exceptionResume(c) \/ exceptionSetCtx(c) PROVE ListHasServers'
    <2>1. UNCHANGED <<g_eventhead, pNext, server>>
      BY <1>5 DEF exceptionResume, exceptionSetCtx
    <2> QED
      BY <2>1, ListAlone DEF Servers
  <1>6. CASE UNCHANGED vars
    <2>1. UNCHANGED <<g_eventhead, pNext, server>>
      BY <1>6 DEF vars
    <2> QED
      BY <2>1, ListAlone DEF Servers
  <1> QED
    BY <1>1, <1>2, <1>3, <1>4, <1>5, <1>6 DEF Next

\* The list leads to every debugger whose server runs, once, and to no other,
\* whatever order they come and go in (debugRegisterEventHandler,
\* debugUnregisterEventHandler).
THEOREM ServersListed == Spec => []ListHasServers
  <1>1. Init => CtxInv /\ ListHasServers
    <2>1. ASSUME Init PROVE ListHasServers
      <3>1. Servers = {} /\ g_eventhead = NULL
        BY <2>1 DEF Init, Servers
      <3>2. IsList({}, NULL, pNext)
        BY DEF IsList
      <3> QED
        BY <3>1, <3>2 DEF ListHasServers, Servers
    <2> QED
      BY <2>1, CtxInvInit
  <1>2. CtxInv /\ ListHasServers /\ [Next]_vars => CtxInv' /\ ListHasServers'
    BY CtxInvNext, ListNext DEF CtxInv
  <1> QED BY <1>1, <1>2, PTL DEF Spec
==============================================================================

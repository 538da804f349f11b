----------------------------- MODULE Exceptions -----------------------------
(***************************************************************************)
(* A thread of the debugged program takes an exception and stops:          *)
(* psplink/exception_asm.S claims one of the contexts, psplinkTrap and     *)
(* debugHandleException offer it to the registered debuggers, one after    *)
(* the other, by posting a message and going to sleep, and park the thread *)
(* when none takes it.  usbgdb/main.c is such a debugger; the shell        *)
(* (exresume, step, exctx) reaches every context through g_currex.         *)
(*                                                                         *)
(* The trap runs with interrupts off up to the end of debugClearException  *)
(* and again from the end of debugHandleException on; in between every     *)
(* read or write of shared state is a step.  A shell command is one step:  *)
(* the shell's thread has the highest priority.                            *)
(***************************************************************************)
EXTENDS Integers, Sequences

CONSTANTS MaxContext,  \* PSPLINK_MAX_CONTEXT
          Thread,      \* threads, the shell's own among them
          ParseThread, \* the shell's thread, "PspLink"
          Handler,     \* debuggers (struct DebugEventHandler and its server)
          Mine,        \* debugger -> threads with an entry in [membase, memtop]
          MaxWake,     \* bound: wake-ups a thread has left over
          Detach,      \* TRUE: a debugger may detach or lose its connection
          Parked,      \* TRUE: the shell resumes a thread only when no debugger
                       \* took it, and only once
          NULL

Ctx  == 1..MaxContext
Cont == {"EXIT", "CONTINUE", "STEP", "NOT_HANDLED"}

ASSUME ExceptionAssumption ==
  /\ MaxContext \in Nat \ {0}
  /\ MaxWake \in Nat
  /\ ParseThread \in Thread
  /\ Mine \in [Handler -> SUBSET Thread]
  /\ Detach \in BOOLEAN
  /\ Parked \in BOOLEAN
  /\ NULL \notin Thread \cup Handler \cup Ctx

VARIABLES
  valid, thid, cont,   \* the fields of each context
  g_currex,            \* the context the shell works on, or NULL
  g_eventhead, pNext,  \* the list of debuggers
  mbox,                \* debugger -> contexts posted to its message box
  server,              \* debugger -> where its thread is, and its context
  th,                  \* thread -> where it is, its context, its list position
  wake,                \* thread -> wake-ups left over (wakeupCount)
  crashed              \* psplinkTrap went through a NULL context

vars == <<valid, thid, cont, g_currex, g_eventhead, pNext, mbox, server, th,
          wake, crashed>>

Running == [pc |-> "run", ctx |-> NULL, ev |-> NULL]

Init ==
  /\ valid = [c \in Ctx |-> FALSE]
  /\ thid = [c \in Ctx |-> NULL]
  /\ cont = [c \in Ctx |-> "EXIT"]
  /\ g_currex = NULL
  /\ g_eventhead = NULL
  /\ pNext = [h \in Handler |-> NULL]
  /\ mbox = [h \in Handler |-> <<>>]
  /\ server = [h \in Handler |-> [pc |-> "off", ctx |-> NULL]]
  /\ th = [t \in Thread |-> Running]
  /\ wake = [t \in Thread |-> 0]
  /\ crashed = FALSE

\* suspend_module: the threads of a debugger's module do not run while it
\* talks to its user.
CanRun(t) == ~crashed /\ \A h \in Handler : t \in Mine[h] => server[h].pc # "busy"

At(t, p)  == th[t].pc = p
Go(t, p)  == th' = [th EXCEPT ![t].pc = p]
InTrap(t) == th[t].pc \notin {"run", "dead"}

\* sceKernelSleepThread: p is where the thread goes on, q where it sleeps.
SleepThread(t, p, q) ==
  IF wake[t] > 0 THEN Go(t, p) /\ wake' = [wake EXCEPT ![t] = @ - 1]
                 ELSE Go(t, q) /\ UNCHANGED wake

\* sceKernelWakeupThread: a thread that does not sleep keeps the wake-up.
WakeupThread(t) ==
  CASE At(t, "asleep") -> Go(t, "woken") /\ UNCHANGED wake
    [] At(t, "parked") -> Go(t, "leave") /\ UNCHANGED wake
    [] At(t, "dead")   -> UNCHANGED <<th, wake>>
    [] OTHER -> UNCHANGED th /\ wake' = [wake EXCEPT ![t] = @ + 1]

-----------------------------------------------------------------------------
(* The trapping thread.                                                    *)

FreeCtx == {c \in Ctx : ~valid[c]}

\* psplinkExceptionHandler claims the first free context; psplinkTrap makes it
\* the current one if there is none, and notes the thread.  The code after the
\* search does not look whether there was a free context.
Trap(t) ==
  /\ CanRun(t)
  /\ At(t, "run")
  /\ \/ \E c \in FreeCtx :
          /\ \A d \in FreeCtx : c <= d
          /\ valid' = [valid EXCEPT ![c] = TRUE]
          /\ thid' = [thid EXCEPT ![c] = t]
          /\ g_currex' = IF g_currex = NULL THEN c ELSE g_currex
          /\ th' = [th EXCEPT ![t] = [pc |-> "begin", ctx |-> c, ev |-> NULL]]
          /\ UNCHANGED crashed
     \/ /\ FreeCtx = {}
        /\ crashed' = TRUE
        /\ UNCHANGED <<valid, thid, g_currex, th>>
  /\ UNCHANGED <<cont, g_eventhead, pNext, mbox, server, wake>>

\* debugHandleException up to its loop.
HandleBegin(t) ==
  /\ CanRun(t)
  /\ At(t, "begin")
  /\ cont' = [cont EXCEPT ![th[t].ctx] = "NOT_HANDLED"]
  /\ th' = [th EXCEPT ![t].pc = "walk", ![t].ev = g_eventhead]
  /\ UNCHANGED <<valid, thid, g_currex, g_eventhead, pNext, mbox, server, wake, crashed>>

\* One turn of the loop: skip a debugger that is not interested, post to one
\* that is, or leave the loop at the end of the list.
Offer(t) ==
  LET h == th[t].ev
  IN  /\ CanRun(t)
      /\ At(t, "walk")
      /\ \/ h = NULL /\ Go(t, "untaken") /\ UNCHANGED mbox
         \/ /\ h # NULL
            /\ t \notin Mine[h]
            /\ th' = [th EXCEPT ![t].ev = pNext[h]]
            /\ UNCHANGED mbox
         \/ /\ h # NULL
            /\ t \in Mine[h]
            /\ mbox' = [mbox EXCEPT ![h] = Append(@, th[t].ctx)]
            /\ Go(t, "posted")
      /\ UNCHANGED <<valid, thid, cont, g_currex, g_eventhead, pNext, server, wake, crashed>>

SleepForgetful(t) ==                                 \* mutant of Sleep
  /\ CanRun(t)
  /\ At(t, "posted")
  /\ Go(t, "asleep")
  /\ wake' = [wake EXCEPT ![t] = 0]
  /\ UNCHANGED <<valid, thid, cont, g_currex, g_eventhead, pNext, mbox, server, crashed>>

SleepNever(t) ==                                     \* mutant of Sleep
  /\ CanRun(t)
  /\ At(t, "posted")
  /\ Go(t, "woken")
  /\ UNCHANGED <<valid, thid, cont, g_currex, g_eventhead, pNext, mbox, server, wake, crashed>>

Sleep(t) ==
  /\ CanRun(t)
  /\ At(t, "posted")
  /\ SleepThread(t, "woken", "asleep")
  /\ UNCHANGED <<valid, thid, cont, g_currex, g_eventhead, pNext, mbox, server, crashed>>

\* After that sleep: leave the loop if the debugger set cont, else go on.
Woken(t) ==
  /\ CanRun(t)
  /\ At(t, "woken")
  /\ th' = IF cont[th[t].ctx] # "NOT_HANDLED" THEN [th EXCEPT ![t].pc = "leave"]
           ELSE [th EXCEPT ![t].pc = "walk", ![t].ev = pNext[@]]
  /\ UNCHANGED <<valid, thid, cont, g_currex, g_eventhead, pNext, mbox, server, wake, crashed>>

\* No debugger took it: the shell's own thread jumps back into its command
\* loop, any other one sleeps until the shell resumes it.
Untaken(t) ==
  /\ CanRun(t)
  /\ At(t, "untaken")
  /\ IF t = ParseThread
       THEN /\ cont' = [cont EXCEPT ![th[t].ctx] = "CONTINUE"]
            /\ Go(t, "leave")
            /\ UNCHANGED wake
       ELSE SleepThread(t, "leave", "parked") /\ UNCHANGED cont
  /\ UNCHANGED <<valid, thid, g_currex, g_eventhead, pNext, mbox, server, crashed>>

LeaveCurrex(c) == g_currex                           \* mutant of CurrexAfter
CurrexAfter(c) == IF g_currex = c THEN NULL ELSE g_currex

\* The end of psplinkTrap and of the handler, which frees the context.
Leave(t) ==
  LET c == th[t].ctx
  IN  /\ CanRun(t)
      /\ At(t, "leave")
      /\ cont[c] # "EXIT"
      /\ g_currex' = CurrexAfter(c)
      /\ valid' = [valid EXCEPT ![c] = FALSE]
      /\ th' = [th EXCEPT ![t] = Running]
      /\ UNCHANGED <<thid, cont, g_eventhead, pNext, mbox, server, wake, crashed>>

\* PSP_EXCEPTION_EXIT: the thread ends where it is.
Exit(t) ==
  /\ CanRun(t)
  /\ At(t, "leave")
  /\ cont[th[t].ctx] = "EXIT"
  /\ Go(t, "dead")
  /\ UNCHANGED <<valid, thid, cont, g_currex, g_eventhead, pNext, mbox, server, wake, crashed>>

-----------------------------------------------------------------------------
(* A debugger: main_thread and GdbHandleException of usbgdb.               *)

\* A server that ended is not started again while its message box holds
\* messages: its module is loaded anew, with a message box of its own.
debugRegisterEventHandler(h) ==
  /\ ~crashed
  /\ server[h].pc = "off" /\ mbox[h] = <<>>
  /\ pNext' = [pNext EXCEPT ![h] = g_eventhead]
  /\ g_eventhead' = h
  /\ server' = [server EXCEPT ![h] = [pc |-> "wait", ctx |-> NULL]]
  /\ UNCHANGED <<valid, thid, cont, g_currex, mbox, th, wake, crashed>>

\* debugWaitDebugEvent returns a context; suspend_module.
debugWaitDebugEvent(h) ==
  /\ ~crashed
  /\ server[h].pc = "wait"
  /\ mbox[h] # <<>>
  /\ server' = [server EXCEPT ![h] = [pc |-> "busy", ctx |-> Head(mbox[h])]]
  /\ mbox' = [mbox EXCEPT ![h] = Tail(@)]
  /\ UNCHANGED <<valid, thid, cont, g_currex, g_eventhead, pNext, th, wake, crashed>>

\* GdbHandleException ends, p is what main_thread does after the wake-up:
\* "c" and "s" keep the server; "D" and a lost connection end it.
GdbHandleException(h, c, p) ==
  /\ ~crashed
  /\ server[h].pc = "busy"
  /\ cont' = [cont EXCEPT ![server[h].ctx] = c]
  /\ server' = [server EXCEPT ![h].pc = p]
  /\ UNCHANGED <<valid, thid, g_currex, g_eventhead, pNext, mbox, th, wake, crashed>>

GdbAnswer(h) ==
  \/ \E c \in {"CONTINUE", "STEP"} : GdbHandleException(h, c, "answered")
  \/ /\ Detach
     /\ \E c \in {"CONTINUE", "EXIT"} : GdbHandleException(h, c, "ending")

\* debugUnregisterEventHandler: the list without h.
UnlinkHead(h) == <<IF g_eventhead = h THEN NULL ELSE g_eventhead, pNext>>
                                                     \* mutant of Unlink
Unlink(h) ==
  IF g_eventhead = h THEN <<pNext[h], pNext>>
  ELSE <<g_eventhead, [g \in Handler |-> IF pNext[g] = h THEN pNext[h] ELSE pNext[g]]>>

\* sceKernelWakeupThread(ctx->thid) of main_thread; a server that ends takes
\* itself off the list.
GdbWake(h) ==
  /\ ~crashed
  /\ server[h].pc \in {"answered", "ending"}
  /\ WakeupThread(thid[server[h].ctx])
  /\ IF server[h].pc = "answered"
       THEN /\ server' = [server EXCEPT ![h] = [pc |-> "wait", ctx |-> NULL]]
            /\ UNCHANGED <<g_eventhead, pNext>>
       ELSE /\ server' = [server EXCEPT ![h] = [pc |-> "off", ctx |-> NULL]]
            /\ g_eventhead' = Unlink(h)[1]
            /\ pNext' = Unlink(h)[2]
  /\ UNCHANGED <<valid, thid, cont, g_currex, mbox, crashed>>

-----------------------------------------------------------------------------
(* The shell.                                                              *)

ShellRuns == ~crashed /\ At(ParseThread, "run")

\* exceptionResume(NULL, c): exresume, step and skip.
exceptionResume(c) ==
  LET t == thid[g_currex]
  IN  /\ ShellRuns
      /\ g_currex # NULL
      /\ Parked => At(t, "parked")
      /\ wake[t] < MaxWake
      /\ cont' = [cont EXCEPT ![g_currex] = c]
      /\ WakeupThread(t)
      /\ UNCHANGED <<valid, thid, g_currex, g_eventhead, pNext, mbox, server, crashed>>

exceptionSetCtx(c) ==
  /\ ShellRuns
  /\ valid[c]
  /\ g_currex' = c
  /\ UNCHANGED <<valid, thid, cont, g_eventhead, pNext, mbox, server, th, wake, crashed>>

-----------------------------------------------------------------------------
ThreadStep(t) ==
  \/ HandleBegin(t) \/ Offer(t) \/ Sleep(t) \/ Woken(t) \/ Untaken(t)
  \/ Leave(t) \/ Exit(t)

Next ==
  \/ \E t \in Thread : Trap(t) \/ ThreadStep(t)
  \/ \E h \in Handler :
       \/ debugRegisterEventHandler(h) \/ debugWaitDebugEvent(h)
       \/ GdbAnswer(h) \/ GdbWake(h)
  \/ \E c \in {"CONTINUE", "STEP"} : exceptionResume(c)
  \/ \E c \in Ctx : exceptionSetCtx(c)

Spec == Init /\ [][Next]_vars

\* Threads of the program get the processor again and again; the user of a
\* debugger answers in the end, and the debugger then goes on by itself.
FairSpec ==
  /\ Spec
  /\ \A t \in Thread : SF_vars(ThreadStep(t))
  /\ \A h \in Handler : WF_vars(GdbAnswer(h) \/ GdbWake(h))

-----------------------------------------------------------------------------
\* Each stopped thread has a context of its own, in use and marked with its
\* name, until it leaves the trap.  (psplinkExceptionHandler, psplinkTrap)
OwnContext ==
  \A t \in Thread : InTrap(t) =>
    /\ valid[th[t].ctx] /\ thid[th[t].ctx] = t
    /\ \A u \in Thread \ {t} : InTrap(u) => th[u].ctx # th[t].ctx

\* The context the shell works on is in use: exprint, setreg and exresume never
\* touch one that was given back.  (psplinkTrap, exceptionSetCtx)
CurrexInUse == g_currex # NULL => valid[g_currex]

\* No context is taken from a thread, or from the shell, that has it.
ContextsHeld == OwnContext /\ CurrexInUse

\* A message lies on the stack of the thread that posted it; while it is in a
\* message box that thread is still inside of the post's frame.
\* (debugHandleException: post, sceKernelSendMbx, sceKernelSleepThread)
PostOnLiveStack ==
  \A h \in Handler : \A i \in DOMAIN mbox[h] :
    LET t == thid[mbox[h][i]]
    IN  th[t].ev = h /\ th[t].pc \in {"posted", "asleep"}

\* e is the head of a list of just the debuggers L, with n the links: one way in
\* to each, the head's from outside, and no loop.
IsList(L, e, n) ==
  /\ e \in L \cup {NULL} /\ (e = NULL <=> L = {})
  /\ \A h \in L : n[h] \in L \cup {NULL}
  /\ \A h \in L : h = e <=> \A g \in L : n[g] # h
  /\ \A g, h \in L : n[g] = n[h] => g = h
  /\ \A S \in (SUBSET L) \ {{}} : \E h \in S : n[h] \notin S

\* A debugger is on the list exactly while its server runs, also when others
\* come and go.  (debugRegisterEventHandler, debugUnregisterEventHandler)
ListHasServers ==
  IsList({h \in Handler : server[h].pc # "off"}, g_eventhead, pNext)

\* Once a debugger or the shell has said how a stopped thread goes on, it does
\* go on, also when the answer comes before the thread has gone to sleep.
\* (debugHandleException, GdbHandleException, exceptionResume)
AnswerTakesEffect ==
  \A t \in Thread :
    (InTrap(t) /\ th[t].pc # "begin" /\ cont[th[t].ctx] # "NOT_HANDLED")
      ~> (~InTrap(t) \/ crashed)

\* exception_asm.S:154 "if we don't find one pass NULL in $a0 so the thread can
\* be terminated": running out of contexts costs a thread, not the system.
\* (psplinkExceptionHandler, psplinkTrap)
NoCrash == ~crashed
=============================================================================

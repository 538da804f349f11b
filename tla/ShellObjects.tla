---------------------------- MODULE ShellObjects ----------------------------
(* The commands of the shell on modules, threads and other objects of the kernel,
   beside the threads of the programs.  The shell's thread has a high priority:
   the others run while it waits, for the module it stops, starts or loads, or
   for the USB bus when it prints.                                            *)
EXTENDS Naturals, FiniteSets

CONSTANTS
  Module,       \* places in memory where a program's module can be
  ThreadId,     \* identifiers of threads
  Flag,         \* identifiers of event flags; the other objects are like them
  MaxListed,    \* identifiers that a list of the kernel has room for (100)
  MaxObjectOps, \* bound: commands of the shell
  None

ASSUME ObjectsAssumption == IsFiniteSet(ThreadId) /\ MaxListed \in Nat

VARIABLES
  module,   \* place -> "none", "loaded", "started" or "stopped"
  thread,   \* identifier -> [entry, st, susp]; entry: the place its code is at
  flag,     \* identifier -> its bits, or None
  monitors, \* what psplink's handler of thread events is registered for, by identifier
  thevent,  \* g_context.thevent, or None if negative
  kill,     \* the command kill under way: [mod, at, thids], or None
  torn,     \* history: other threads ran between kill's list and its end, or the list was cut
  asked

obvars == <<module, thread, flag, monitors, thevent, kill, torn, asked>>
others == <<flag, monitors, thevent>>

-----------------------------------------------------------------------------
NoThread == [entry |-> None, st |-> "none", susp |-> FALSE]
Handlers == 1..2
Exists == {t \in ThreadId : thread[t].st # "none"}
InModule(m) == {t \in Exists : thread[t].entry = m}
Removed(T) == [t \in ThreadId |-> IF t \in T THEN NoThread ELSE thread[t]]

\* The shell is at its prompt.
AtPrompt == kill = None /\ asked < MaxObjectOps /\ asked' = asked + 1

-----------------------------------------------------------------------------
(* Threads of the programs.                                                 *)

\* While a handler of thread events prints, the command that caused the event
\* waits; otherwise kill does not wait between its list and its end.
OthersRun == kill # None /\ kill.at = "end" => monitors # {}

ProgramStep ==
  /\ OthersRun
  /\ \E t \in Exists :
       /\ thread[t].st = "live" /\ ~thread[t].susp
       /\ \/ \E u \in ThreadId \ Exists :
               thread' = [thread EXCEPT ![u] = [entry |-> thread[t].entry, st |-> "live", susp |-> FALSE]]
          \/ thread' = [thread EXCEPT ![t] = [@ EXCEPT !.st = "dormant"]]
          \/ thread' = Removed({t})
  /\ torn' = (torn \/ (kill # None /\ kill.at = "end"))
  /\ UNCHANGED <<module, others, kill, asked>>

-----------------------------------------------------------------------------
(* Threads and other objects by identifier or name.                         *)

\* What each command does to a thread that exists; the kernel refuses the rest.
Thsusp(x) == IF x.st = "live" THEN [x EXCEPT !.susp = TRUE] ELSE x
Thresm(x) == [x EXCEPT !.susp = FALSE]
Thterm(x) == [x EXCEPT !.st = "dormant", !.susp = FALSE]
Thdel(x) == IF x.st = "dormant" THEN NoThread ELSE x
Thtdel(x) == NoThread

\* A name that is unknown and an identifier that is none change nothing.
thread_do_cmd ==
  /\ AtPrompt
  /\ \E t \in Exists :
       \/ thread' = [thread EXCEPT ![t] = Thsusp(@)]
       \/ thread' = [thread EXCEPT ![t] = Thresm(@)]
       \/ thread' = [thread EXCEPT ![t] = Thterm(@)]
       \/ thread' = [thread EXCEPT ![t] = Thdel(@)]
       \/ thread' = [thread EXCEPT ![t] = Thtdel(@)]
  /\ UNCHANGED <<module, others, kill, torn>>

\* The thread stays, dormant, if it cannot be started.
thcreat_cmd ==
  /\ AtPrompt
  /\ \E t \in ThreadId \ Exists, m \in {x \in Module : module[x] # "none"} \cup {None}, st \in {"live", "dormant"} :
       thread' = [thread EXCEPT ![t] = [entry |-> m, st |-> st, susp |-> FALSE]]
  /\ UNCHANGED <<module, others, kill, torn>>

\* evset, evclr and evdel; the other objects can only be deleted.
flag_cmd ==
  /\ AtPrompt
  /\ \E f \in {x \in Flag : flag[x] # None} :
       \/ \E bits \in SUBSET {0} : flag' = [flag EXCEPT ![f] = @ \cup bits]
       \/ \E bits \in SUBSET {0} : flag' = [flag EXCEPT ![f] = @ \ bits]
       \/ flag' = [flag EXCEPT ![f] = None]
  /\ UNCHANGED <<module, thread, monitors, thevent, kill, torn>>

-----------------------------------------------------------------------------
(* The monitor of thread events.                                            *)

\* The handler registered before goes.
Released == IF thevent # None THEN monitors \ {thevent} ELSE monitors

\* A class that is unknown is found after the release; registering may fail.
thmon_cmd ==
  /\ AtPrompt
  /\ \/ monitors' = Released /\ thevent' = None
     \/ \E h \in Handlers \ monitors : monitors' = Released \cup {h} /\ thevent' = h
  /\ UNCHANGED <<module, thread, flag, kill, torn>>

thmonoff_cmd ==
  /\ AtPrompt
  /\ monitors' = Released /\ thevent' = None
  /\ UNCHANGED <<module, thread, flag, kill, torn>>

\* thevdel does not tell g_context.
thevdel_cmd ==
  /\ AtPrompt
  /\ \E h \in monitors : monitors' = monitors \ {h}
  /\ UNCHANGED <<module, thread, flag, thevent, kill, torn>>

-----------------------------------------------------------------------------
(* Modules.                                                                 *)

\* sceKernelStartModule runs the module's start function, which makes threads.
Started(m) ==
  /\ module' = [module EXCEPT ![m] = "started"]
  /\ \/ UNCHANGED thread
     \/ \E t \in ThreadId \ Exists :
          thread' = [thread EXCEPT ![t] = [entry |-> m, st |-> "live", susp |-> FALSE]]

modload_cmd ==
  /\ AtPrompt
  /\ \E m \in Module : module[m] = "none" /\ module' = [module EXCEPT ![m] = "loaded"]
  /\ UNCHANGED <<thread, others, kill, torn>>

modstart_cmd ==
  /\ AtPrompt
  /\ \E m \in Module : module[m] \in {"loaded", "stopped"} /\ Started(m)
  /\ UNCHANGED <<others, kill, torn>>

\* load_start_module: a module that cannot be started stays loaded.
ldstart_cmd ==
  /\ AtPrompt
  /\ \E m \in Module :
       /\ module[m] = "none"
       /\ \/ Started(m)
          \/ module' = [module EXCEPT ![m] = "loaded"] /\ UNCHANGED thread
  /\ UNCHANGED <<others, kill, torn>>

\* sceKernelStopModule runs the module's stop function, which may refuse, and
\* ends any of its threads or none.
Stopped(m) ==
  /\ module[m] = "started" /\ module' = [module EXCEPT ![m] = "stopped"]
  /\ \E T \in SUBSET InModule(m) : thread' = Removed(T)

modstop_cmd ==
  /\ AtPrompt
  /\ \E m \in Module : Stopped(m)
  /\ UNCHANGED <<others, kill, torn>>

\* The kernel unloads what is not running, whatever threads there are.
CanUnload(m) == module[m] \in {"loaded", "stopped"}

modunld_cmd ==
  /\ AtPrompt
  /\ \E m \in Module : CanUnload(m) /\ module' = [module EXCEPT ![m] = "none"]
  /\ UNCHANGED <<thread, others, kill, torn>>

\* modstun unloads even if the module could not be stopped.
modstun_cmd ==
  /\ AtPrompt
  /\ \E m \in Module :
       /\ module[m] # "none" /\ module' = [module EXCEPT ![m] = "none"]
       /\ IF module[m] = "started" THEN \E T \in SUBSET InModule(m) : thread' = Removed(T)
          ELSE UNCHANGED thread
  /\ UNCHANGED <<others, kill, torn>>

-----------------------------------------------------------------------------
(* kill: stop, end the threads, unload.                                     *)

\* psplinkReferThreadsByModule looks at the identifiers that one list has room for.
Listed(m) == {S \cap InModule(m) : S \in {R \in SUBSET Exists : R = Exists \/ Cardinality(R) = MaxListed}}
Cut == Cardinality(Exists) > MaxListed

KillStart ==
  /\ AtPrompt
  /\ \E m \in Module : module[m] # "none" /\ kill' = [mod |-> m, at |-> "stop", thids |-> {}]
  /\ torn' = FALSE
  /\ UNCHANGED <<module, thread, others>>

KillStop ==
  /\ kill # None /\ kill.at = "stop"
  /\ \/ Stopped(kill.mod) /\ kill' = [kill EXCEPT !.at = "list"]
     \/ kill' = None /\ UNCHANGED <<module, thread>>
  /\ UNCHANGED <<others, torn, asked>>

\* Mutant of KillList: only the threads that run are ended.
KillListLive ==
  /\ kill # None /\ kill.at = "list"
  /\ \E T \in Listed(kill.mod) :
       kill' = [kill EXCEPT !.at = "end", !.thids = {t \in T : thread[t].st = "live" /\ ~thread[t].susp}]
  /\ torn' = Cut
  /\ UNCHANGED <<module, thread, others, asked>>

KillList ==
  /\ kill # None /\ kill.at = "list"
  /\ \E T \in Listed(kill.mod) : kill' = [kill EXCEPT !.at = "end", !.thids = T]
  /\ torn' = Cut
  /\ UNCHANGED <<module, thread, others, asked>>

\* An identifier on the list may be gone, or be another thread's by then.
KillThread ==
  /\ kill # None /\ kill.at = "end"
  /\ \E t \in kill.thids :
       /\ thread' = Removed({t})
       /\ kill' = [kill EXCEPT !.thids = @ \ {t}]
  /\ UNCHANGED <<module, others, torn, asked>>

KillEnd ==
  /\ kill # None /\ kill.at = "end" /\ kill.thids = {}
  /\ \/ module' = [module EXCEPT ![kill.mod] = "none"]
     \/ UNCHANGED module
  /\ kill' = None
  /\ UNCHANGED <<thread, others, torn, asked>>

-----------------------------------------------------------------------------
ObjectsInit ==
  /\ module = [m \in Module |-> "none"]
  /\ thread = [t \in ThreadId |-> NoThread]
  /\ flag = [f \in Flag |-> {}]
  /\ monitors = {} /\ thevent = None
  /\ kill = None /\ torn = FALSE /\ asked = 0

ObjectsNext ==
  \/ ProgramStep
  \/ thread_do_cmd \/ thcreat_cmd \/ flag_cmd
  \/ thmon_cmd \/ thmonoff_cmd \/ thevdel_cmd
  \/ modload_cmd \/ modstart_cmd \/ ldstart_cmd \/ modstop_cmd \/ modunld_cmd \/ modstun_cmd
  \/ KillStart \/ KillStop \/ KillList \/ KillThread \/ KillEnd

ObjectsSpec == ObjectsInit /\ [][ObjectsNext]_obvars

-----------------------------------------------------------------------------
\* kill leaves no thread in the memory of the module it unloads, whatever the
\* threads did while the module was being stopped, unless a monitor let them run
\* after the list, or the list was too short (kill_cmd, line 1641).
KillComplete ==
  [][kill # None /\ kill' = None /\ module[kill.mod] # "none" /\ module'[kill.mod] = "none" /\ ~torn
       => InModule(kill.mod) = {}]_obvars
=============================================================================

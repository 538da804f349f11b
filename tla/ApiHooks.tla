------------------------------ MODULE ApiHooks ------------------------------
(* Hooks on functions of the PSP.  The shell puts the address of a dispatcher
   in the place of a function, in the table of system calls or in the import of
   a module; a thread that calls the function runs the dispatcher, which says
   so on the shell, perhaps puts the thread to sleep, calls the function, and
   says what it returned.  Hooks are set and deleted while threads are inside. *)
EXTENDS Naturals, Sequences, FiniteSets

CONSTANTS
  MaxIds,       \* APIHOOK_MAXIDS
  Syscall,      \* entries of the table of system calls
  Import,       \* imports of modules that jump to a function
  Stub,         \* imports that are system calls
  UserImport,   \* the imports of user modules among them
  Thread,       \* threads that call functions
  MaxOps,       \* bound: commands of the shell
  MaxInside,    \* bound: dispatchers a call is in, where hooks lead to hooks
  NULL

Word == Syscall \cup Import \cup Stub
Id == 0..(MaxIds - 1)

\* What a word may hold, see below; NULL stands for the absence of something.
Value == ({"fn"} \X Word) \cup ({"hook"} \X Id)

ASSUME HookAssumption == NULL \notin Value \cup [id : Id, w : Word]

VARIABLES
  word,         \* word -> what is written there: <<"fn", w>>, the function that
                \* belongs there, or <<"hook", i>>, the dispatcher of hook i
  hooks,        \* id -> g_apihooks[id]
  setting,      \* the hook whose fields are set and whose word is not
  userdispatch, \* g_userdispatch is known
  call,         \* thread -> its call
  knots,        \* history: imports that were hooked while they were
  ops

vars == <<word, hooks, setting, userdispatch, call, knots, ops>>

-----------------------------------------------------------------------------
NoHook == [func |-> NULL, at |-> NULL, sleep |-> FALSE]
NoCall == [pc |-> "idle", w |-> NULL, id |-> NULL, fn |-> NULL, inside |-> <<>>, ran |-> <<>>,
           late |-> FALSE]
Home(w) == <<"fn", w>>

\* find_free_hook: the first slot without a function.
find_free_hook ==
  {i \in Id : hooks[i].func = NULL /\ \A j \in Id : j < i => hooks[j].func # NULL}

\* What _apiHookGenericCommon refuses: a system call that is not in the table,
\* since it is hooked; an import that is no jump; one of a user module before
\* psplink_user has told its dispatchers.
Hookable(w) ==
  /\ w \in Syscall => word[w] = Home(w)
  /\ w \notin Stub
  /\ w \in UserImport => userdispatch

\* The command apihook or apihooks: fields first, the function among them ...
SetHook ==
  /\ setting = NULL
  /\ ops < MaxOps /\ ops' = ops + 1
  /\ \E w \in Word, s \in BOOLEAN, i \in find_free_hook :
       /\ Hookable(w)
       /\ hooks' = [hooks EXCEPT ![i] = [func |-> word[w], at |-> w, sleep |-> s]]
       /\ setting' = [id |-> i, w |-> w]
       /\ knots' = IF word[w] # Home(w) THEN knots \cup {w} ELSE knots
  /\ UNCHANGED <<word, userdispatch, call>>

\* ... then the word.
PatchWord ==
  /\ setting # NULL
  /\ word' = [word EXCEPT ![setting.w] = <<"hook", setting.id>>]
  /\ setting' = NULL
  /\ UNCHANGED <<hooks, userdispatch, call, knots, ops>>

\* Threads on their way to the dispatcher of hook i.
Late(i) == [t \in Thread |-> IF call[t].pc = "enter" /\ call[t].id = i
                             THEN [call[t] EXCEPT !.late = TRUE] ELSE call[t]]

DeleteOnly(i) == UNCHANGED word                       \* mutant of Restore

\* Restore original function
Restore(i) == word' = [word EXCEPT ![hooks[i].at] = hooks[i].func]

\* apiHookGenericDelete, with interrupts off.
apiHookGenericDelete ==
  /\ setting = NULL
  /\ ops < MaxOps /\ ops' = ops + 1
  /\ \E i \in Id :
       /\ hooks[i].func # NULL
       /\ Restore(i)
       /\ hooks' = [hooks EXCEPT ![i].func = NULL]
       /\ call' = Late(i)
  /\ UNCHANGED <<setting, userdispatch, knots>>

\* psplink_user starts.
apiHookRegisterUserDispatch ==
  /\ ~userdispatch
  /\ userdispatch' = TRUE
  /\ UNCHANGED <<word, hooks, setting, call, knots, ops>>

-----------------------------------------------------------------------------
(* A thread that calls a function.                                          *)

\* It goes where a value of a word leads: into the function or a dispatcher.
Goes(c, to) ==
  IF to[1] = "fn" THEN [c EXCEPT !.pc = "run", !.fn = to[2]]
  ELSE [c EXCEPT !.pc = "enter", !.id = to[2]]

Call(t) ==
  /\ call[t].pc = "idle"
  /\ \E w \in Word :
       call' = [call EXCEPT ![t] = Goes([NoCall EXCEPT !.w = w], word[w])]
  /\ UNCHANGED <<word, hooks, setting, userdispatch, knots, ops>>

\* _apiHookHandle reads func with interrupts off; without one the dispatcher
\* returns at once.
Dispatch(t) ==
  /\ call[t].pc = "enter" /\ Len(call[t].inside) < MaxInside
  /\ LET c == call[t]
         f == hooks[c.id].func
     IN  call' = [call EXCEPT ![t] =
           IF f = NULL THEN [c EXCEPT !.pc = "back"]
           ELSE [c EXCEPT !.pc = "say", !.fn = f, !.inside = Append(@, c.id)]]
  /\ UNCHANGED <<word, hooks, setting, userdispatch, knots, ops>>

\* The rest of it: what it says and whether it sleeps is read from the slot as
\* it is now; the shell wakes a sleeper with thwake.
Sleeps(t) == hooks[call[t].inside[Len(call[t].inside)]].sleep

Say(t) ==
  /\ call[t].pc = "say"
  /\ call' = [call EXCEPT ![t] = IF Sleeps(t) THEN [@ EXCEPT !.pc = "asleep"] ELSE Goes(@, @.fn)]
  /\ UNCHANGED <<word, hooks, setting, userdispatch, knots, ops>>

thwake_cmd(t) ==
  /\ call[t].pc = "asleep"
  /\ call' = [call EXCEPT ![t] = Goes(@, @.fn)]
  /\ UNCHANGED <<word, hooks, setting, userdispatch, knots, ops>>

\* The function.
Run(t) ==
  /\ call[t].pc = "run"
  /\ call' = [call EXCEPT ![t].ran = Append(@, call[t].fn), ![t].pc = "back"]
  /\ UNCHANGED <<word, hooks, setting, userdispatch, knots, ops>>

\* Back through _apiHookReturn, which may put the thread to sleep once more.
Return(t) ==
  /\ call[t].pc = "back"
  /\ call[t].inside # <<>>
  /\ call' = [call EXCEPT ![t].inside = SubSeq(@, 1, Len(@) - 1),
                ![t].pc = IF Sleeps(t) /\ hooks[call[t].inside[Len(call[t].inside)]].func # NULL
                          THEN "dozing" ELSE "back"]
  /\ UNCHANGED <<word, hooks, setting, userdispatch, knots, ops>>

WakeReturn(t) ==
  /\ call[t].pc = "dozing"
  /\ call' = [call EXCEPT ![t].pc = "back"]
  /\ UNCHANGED <<word, hooks, setting, userdispatch, knots, ops>>

Done(t) ==
  /\ call[t].pc = "back" /\ call[t].inside = <<>>
  /\ call' = [call EXCEPT ![t] = NoCall]
  /\ UNCHANGED <<word, hooks, setting, userdispatch, knots, ops>>

-----------------------------------------------------------------------------
Init ==
  /\ word = [w \in Word |-> Home(w)]
  /\ hooks = [i \in Id |-> NoHook]
  /\ setting = NULL /\ userdispatch = FALSE
  /\ call = [t \in Thread |-> NoCall]
  /\ knots = {} /\ ops = 0

Next ==
  \/ SetHook \/ PatchWord \/ apiHookGenericDelete \/ apiHookRegisterUserDispatch
  \/ \E t \in Thread : Call(t) \/ Dispatch(t) \/ Say(t) \/ thwake_cmd(t) \/ Run(t)
                       \/ Return(t) \/ WakeReturn(t) \/ Done(t)

Spec == Init /\ [][Next]_vars

-----------------------------------------------------------------------------
\* However hooks are set, deleted and set again while threads are inside, a
\* call ends after it has run its own function, and that once.  It may miss it
\* when its hook is deleted between the jump to the dispatcher and the look at
\* the slot, and where an import was hooked twice (_apiHookHandle, line 138).
RunsItsFunction ==
  \A t \in Thread :
    call[t].pc = "back" /\ call[t].inside = <<>> /\ ~call[t].late /\ call[t].w \notin knots
      => call[t].ran = <<call[t].w>>
============================================================================

---------------------------- MODULE CommandsProof ----------------------------
(* Proofs about components that MCCommands runs: the API hooks of psplink, for any
   number of hooks, words, threads and commands; the start with its configuration,
   for any settings, files, directories and changes; the command kill, for any
   modules and threads; the memory commands, for any table of regions, expressions
   and sizes; and the packets of usbgdb, for any number of commands, break keys and
   damaged packets.                                                            *)
EXTENDS ApiHooks, ShellStart, ShellObjects, ShellMemory, GdbPacket, SequenceTheorems, FiniteSetTheorems,
        WellFoundedInduction, TLAPS

(* The hooks.                                                               *)

CallRecord ==
  [pc : {"idle", "enter", "say", "asleep", "run", "back", "dozing"},
   w : Word \cup {NULL}, id : Id \cup {NULL}, fn : Value \cup Word \cup Id \cup {NULL},
   inside : Seq(Id), ran : Seq(Value \cup Word \cup Id \cup {NULL}), late : BOOLEAN]

HooksTyped ==
  /\ word \in [Word -> Value]
  /\ hooks \in [Id -> [func : Value \cup {NULL}, at : Word \cup {NULL}, sleep : BOOLEAN]]
  /\ setting = NULL \/ setting \in [id : Id, w : Word]
  /\ call \in [Thread -> CallRecord]

\* A word that was never hooked twice holds its function, or a hook that does.
WordLeadsHome ==
  \A w \in Word \ knots :
    \/ word[w] = Home(w)
    \/ \E i \in Id : word[w] = <<"hook", i>> /\ hooks[i].func = Home(w) /\ hooks[i].at = w

\* The hook that is being set is in use, and the word's own function in it.
SettingReady ==
  setting # NULL =>
    /\ hooks[setting.id].func # NULL /\ hooks[setting.id].at = setting.w
    /\ setting.w \notin knots =>
         word[setting.w] = Home(setting.w) /\ hooks[setting.id].func = Home(setting.w)

\* Every other hook in use is in the word it is for.
HookInPlace ==
  \A i \in Id :
    /\ hooks[i].func # NULL => hooks[i].at \in Word
    /\ hooks[i].func # NULL /\ hooks[i].at \notin knots /\ (setting = NULL \/ setting.id # i) =>
         word[hooks[i].at] = <<"hook", i>>

\* A call is on its way to its own function, or has run it.
OnItsWay(c) ==
  /\ c.pc = "enter" => c.id \in Id /\ hooks[c.id].func = Home(c.w) /\ c.ran = <<>>
  /\ c.pc \in {"say", "asleep"} => c.fn = Home(c.w) /\ c.ran = <<>>
  /\ c.pc = "run" => c.fn = c.w /\ c.ran = <<>>
  /\ c.pc \in {"back", "dozing"} => c.ran = <<c.w>>

CallsOnTheirWay ==
  \A t \in Thread :
    call[t].pc # "idle" =>
      /\ call[t].w \in Word
      /\ call[t].pc = "enter" => call[t].id \in Id
      /\ call[t].pc \in {"say", "asleep"} => call[t].fn \in Value
      /\ ~call[t].late /\ call[t].w \notin knots => OnItsWay(call[t])

\* The inductive invariant.
HookInv == HooksTyped /\ WordLeadsHome /\ SettingReady /\ HookInPlace /\ CallsOnTheirWay

\* When no hook is left, every word that was never hooked twice has its own
\* function again (apiHookGenericDelete, line 343).
Restored ==
  setting = NULL /\ (\A i \in Id : hooks[i].func = NULL)
    => \A w \in Word \ knots : word[w] = Home(w)

-----------------------------------------------------------------------------
\* The first state.
LEMMA HookInvInit ==
  ASSUME Init
  PROVE  HookInv
  <1> USE HookAssumption, Init DEF Init, Home, NoHook, NoCall
  <1>1. HooksTyped
    BY DEF HooksTyped, Value, CallRecord
  <1>2. WordLeadsHome /\ SettingReady /\ HookInPlace
    BY DEF WordLeadsHome, SettingReady, HookInPlace
  <1>3. CallsOnTheirWay
    BY DEF CallsOnTheirWay
  <1> QED BY <1>1, <1>2, <1>3 DEF HookInv

\* The first half of setting a hook: a free slot takes the word's value.
LEMMA SetHookKeeps ==
  ASSUME HookInv, SetHook
  PROVE  HookInv'
  <1> USE DEF HookInv
  <1>1. PICK w \in Word, s \in BOOLEAN, i \in Id :
          /\ hooks[i].func = NULL
          /\ hooks' = [hooks EXCEPT ![i] = [func |-> word[w], at |-> w, sleep |-> s]]
          /\ setting' = [id |-> i, w |-> w]
          /\ knots' = IF word[w] # Home(w) THEN knots \cup {w} ELSE knots
    BY DEF SetHook, find_free_hook
  <1>2. UNCHANGED <<word, call>> /\ setting = NULL
    BY DEF SetHook
  <1>3. \A j \in Id : j # i => hooks'[j] = hooks[j]
    BY <1>1 DEF HooksTyped
  <1>4. hooks'[i] = [func |-> word[w], at |-> w, sleep |-> s]
    BY <1>1 DEF HooksTyped
  <1>5. word[w] # NULL /\ setting' # NULL /\ \A v \in Word : Home(v) # NULL
    BY <1>1, HookAssumption DEF HooksTyped, Home, Value
  <1>6. HooksTyped'
    BY <1>1, <1>2 DEF HooksTyped
  <1>7. WordLeadsHome'
    <2> SUFFICES ASSUME NEW v \in Word \ knots', word[v] # Home(v)
                 PROVE  \E j \in Id : word[v] = <<"hook", j>> /\ hooks'[j].func = Home(v) /\ hooks'[j].at = v
      BY <1>2 DEF WordLeadsHome, Home
    <2>1. v \notin knots
      BY <1>1
    <2>2. PICK j \in Id : word[v] = <<"hook", j>> /\ hooks[j].func = Home(v) /\ hooks[j].at = v
      BY <2>1 DEF WordLeadsHome
    <2>3. j # i
      BY <2>2, <1>1, <1>5
    <2> QED BY <2>2, <2>3, <1>3
  <1>8. SettingReady'
    BY <1>1, <1>2, <1>4, <1>5 DEF SettingReady, Home
  <1>9. HookInPlace'
    <2> SUFFICES ASSUME NEW j \in Id
                 PROVE  /\ hooks'[j].func # NULL => hooks'[j].at \in Word
                        /\ hooks'[j].func # NULL /\ hooks'[j].at \notin knots' /\ j # i =>
                             word[hooks'[j].at] = <<"hook", j>>
      BY <1>1, <1>2, <1>5 DEF HookInPlace
    <2>1. CASE j = i
      BY <2>1, <1>4
    <2>2. CASE j # i
      BY <2>2, <1>1, <1>2, <1>3 DEF HookInPlace
    <2> QED BY <2>1, <2>2
  <1>10. CallsOnTheirWay'
    <2> SUFFICES ASSUME NEW t \in Thread, call[t].pc # "idle"
                 PROVE  /\ call[t].w \in Word
                        /\ call[t].pc = "enter" => call[t].id \in Id
                        /\ call[t].pc \in {"say", "asleep"} => call[t].fn \in Value
                        /\ ~call[t].late /\ call[t].w \notin knots' => OnItsWay(call[t])'
      BY <1>2 DEF CallsOnTheirWay
    <2>1. ~call[t].late /\ call[t].w \notin knots' => OnItsWay(call[t])
      BY <1>1 DEF CallsOnTheirWay
    <2>2. call[t].pc = "enter" /\ OnItsWay(call[t]) => call[t].id # i
      BY <1>1, <1>5 DEF CallsOnTheirWay, OnItsWay
    <2>3. OnItsWay(call[t]) => OnItsWay(call[t])'
      BY <1>2, <1>3, <2>2 DEF OnItsWay, CallsOnTheirWay, Home
    <2> QED BY <2>1, <2>3 DEF CallsOnTheirWay
  <1> QED BY <1>6, <1>7, <1>8, <1>9, <1>10

\* The second half: the word.
LEMMA PatchWordKeeps ==
  ASSUME HookInv, PatchWord
  PROVE  HookInv'
  <1> USE DEF HookInv
  <1>1. /\ setting \in [id : Id, w : Word] /\ setting' = NULL
        /\ word' = [word EXCEPT ![setting.w] = <<"hook", setting.id>>]
        /\ UNCHANGED <<hooks, call, knots>>
    BY DEF PatchWord, HooksTyped
  <1>2. setting # NULL
    BY DEF PatchWord
  <1>3. word' \in [Word -> Value] /\ word'[setting.w] = <<"hook", setting.id>>
        /\ \A v \in Word : v # setting.w => word'[v] = word[v]
    BY <1>1 DEF HooksTyped, Value
  <1>4. HooksTyped'
    BY <1>1, <1>3 DEF HooksTyped
  <1>5. WordLeadsHome'
    BY <1>1, <1>2, <1>3 DEF WordLeadsHome, SettingReady, Home
  <1>6. SettingReady'
    BY <1>1 DEF SettingReady
  <1>7. HookInPlace'
    <2> SUFFICES ASSUME NEW j \in Id, hooks[j].func # NULL
                 PROVE  hooks[j].at \in Word /\ (hooks[j].at \notin knots => word'[hooks[j].at] = <<"hook", j>>)
      BY <1>1 DEF HookInPlace
    <2>1. hooks[j].at \in Word
      BY DEF HookInPlace
    <2>2. CASE j = setting.id
      BY <1>2, <1>3, <2>1, <2>2 DEF SettingReady
    <2>3. CASE j # setting.id
      <3>1. hooks[j].at \notin knots => word[hooks[j].at] = <<"hook", j>>
        BY <2>3 DEF HookInPlace
      <3>2. hooks[j].at \notin knots => hooks[j].at # setting.w
        BY <3>1, <1>2, <2>1 DEF SettingReady, Home
      <3> QED BY <3>1, <3>2, <1>3, <2>1
    <2> QED BY <2>2, <2>3
  <1>8. CallsOnTheirWay'
    BY <1>1 DEF CallsOnTheirWay, OnItsWay, Home
  <1> QED BY <1>4, <1>5, <1>6, <1>7, <1>8

\* A delete gives the word its value back and empties the slot; threads on their
\* way to it are late.
LEMMA DeleteKeeps ==
  ASSUME HookInv, apiHookGenericDelete
  PROVE  HookInv'
  <1> USE DEF HookInv
  <1>1. PICK i \in Id :
          /\ hooks[i].func # NULL
          /\ word' = [word EXCEPT ![hooks[i].at] = hooks[i].func]
          /\ hooks' = [hooks EXCEPT ![i].func = NULL]
          /\ call' = Late(i)
    BY DEF apiHookGenericDelete, Restore
  <1>2. setting = NULL /\ UNCHANGED <<setting, knots>>
    BY DEF apiHookGenericDelete
  <1>3. hooks[i].at \in Word /\ hooks[i].func \in Value
    BY <1>1 DEF HookInPlace, HooksTyped
  <1>4. /\ hooks' \in [Id -> [func : Value \cup {NULL}, at : Word \cup {NULL}, sleep : BOOLEAN]]
        /\ hooks'[i].func = NULL
        /\ \A j \in Id : j # i => hooks'[j] = hooks[j]
    BY <1>1 DEF HooksTyped
  <1>5. /\ word' \in [Word -> Value] /\ word'[hooks[i].at] = hooks[i].func
        /\ \A v \in Word : v # hooks[i].at => word'[v] = word[v]
    BY <1>1, <1>3 DEF HooksTyped
  <1>6. /\ call' \in [Thread -> CallRecord]
        /\ \A t \in Thread : IF call[t].pc = "enter" /\ call[t].id = i
                             THEN call'[t] = [call[t] EXCEPT !.late = TRUE]
                             ELSE call'[t] = call[t]
    <2>1. call' = [t \in Thread |-> IF call[t].pc = "enter" /\ call[t].id = i
                                     THEN [call[t] EXCEPT !.late = TRUE] ELSE call[t]]
      BY <1>1 DEF Late
    <2>2. \A t \in Thread : call[t] \in CallRecord
      BY DEF HooksTyped
    <2>3. \A t \in Thread : [call[t] EXCEPT !.late = TRUE] \in CallRecord
      BY <2>2 DEF CallRecord
    <2> QED BY <2>1, <2>2, <2>3
  <1>7. HooksTyped'
    BY <1>2, <1>4, <1>5, <1>6 DEF HooksTyped
  <1>8. hooks[i].at \notin knots => hooks[i].func = Home(hooks[i].at)
    <2> SUFFICES ASSUME hooks[i].at \notin knots
                 PROVE  hooks[i].func = Home(hooks[i].at)
      OBVIOUS
    <2>1. word[hooks[i].at] = <<"hook", i>>
      BY <1>1, <1>2 DEF HookInPlace
    <2> QED BY <2>1, <1>3 DEF WordLeadsHome, Home
  <1>9. WordLeadsHome'
    <2> SUFFICES ASSUME NEW v \in Word \ knots, word'[v] # Home(v)
                 PROVE  \E j \in Id : word'[v] = <<"hook", j>> /\ hooks'[j].func = Home(v) /\ hooks'[j].at = v
      BY <1>2 DEF WordLeadsHome, Home
    <2>1. v # hooks[i].at
      BY <1>5, <1>8
    <2>2. PICK j \in Id : word[v] = <<"hook", j>> /\ hooks[j].func = Home(v) /\ hooks[j].at = v
      BY <2>1, <1>5 DEF WordLeadsHome
    <2> QED BY <2>1, <2>2, <1>4, <1>5
  <1>10. SettingReady'
    BY <1>2 DEF SettingReady
  <1>11. HookInPlace'
    <2> SUFFICES ASSUME NEW j \in Id, hooks'[j].func # NULL
                 PROVE  /\ hooks'[j].at \in Word
                        /\ hooks'[j].at \notin knots => word'[hooks'[j].at] = <<"hook", j>>
      BY <1>2 DEF HookInPlace
    <2>1. j # i /\ hooks'[j] = hooks[j]
      BY <1>4
    <2>2. hooks[j].at \in Word /\ (hooks[j].at \notin knots => word[hooks[j].at] = <<"hook", j>>)
      BY <2>1, <1>2 DEF HookInPlace
    <2>3. hooks[i].at \notin knots => word[hooks[i].at] = <<"hook", i>>
      BY <1>1, <1>2 DEF HookInPlace
    <2> QED BY <2>1, <2>2, <2>3, <1>5
  <1>12. CallsOnTheirWay'
    <2> SUFFICES ASSUME NEW t \in Thread, call'[t].pc # "idle"
                 PROVE  /\ call'[t].w \in Word
                        /\ call'[t].pc = "enter" => call'[t].id \in Id
                        /\ call'[t].pc \in {"say", "asleep"} => call'[t].fn \in Value
                        /\ ~call'[t].late /\ call'[t].w \notin knots => OnItsWay(call[t])'
      BY <1>2 DEF CallsOnTheirWay
    <2>1. CASE call[t].pc = "enter" /\ call[t].id = i
      <3>1. call[t] \in CallRecord
        BY DEF HooksTyped
      <3>2. call'[t] = [call[t] EXCEPT !.late = TRUE]
        BY <2>1, <1>6
      <3>3. call'[t].late /\ call'[t].w = call[t].w /\ call'[t].pc = "enter" /\ call'[t].id = i
        BY <2>1, <3>1, <3>2 DEF CallRecord
      <3>4. call[t].w \in Word
        BY <2>1 DEF CallsOnTheirWay
      <3> QED BY <3>3, <3>4
    <2>2. CASE ~(call[t].pc = "enter" /\ call[t].id = i)
      BY <2>2, <1>4, <1>6 DEF CallsOnTheirWay, OnItsWay, Home
    <2> QED BY <2>1, <2>2
  <1> QED BY <1>7, <1>9, <1>10, <1>11, <1>12

\* Steps of the threads change one call only.
LEMMA OtherCallsKept ==
  ASSUME HookInv, NEW t \in Thread, UNCHANGED <<word, hooks, setting, knots>>,
         call' \in [Thread -> CallRecord],
         \A u \in Thread : u # t => call'[u] = call[u],
         call'[t].pc # "idle" =>
           /\ call'[t].w \in Word
           /\ call'[t].pc = "enter" => call'[t].id \in Id
           /\ call'[t].pc \in {"say", "asleep"} => call'[t].fn \in Value
           /\ ~call'[t].late /\ call'[t].w \notin knots => OnItsWay(call'[t])
  PROVE  HookInv'
  <1> USE DEF HookInv
  <1>1. HooksTyped' /\ WordLeadsHome' /\ SettingReady' /\ HookInPlace'
    BY DEF HooksTyped, WordLeadsHome, SettingReady, HookInPlace, Home
  <1>2. CallsOnTheirWay'
    <2> SUFFICES ASSUME NEW u \in Thread, call'[u].pc # "idle"
                 PROVE  /\ call'[u].w \in Word
                        /\ call'[u].pc = "enter" => call'[u].id \in Id
                        /\ call'[u].pc \in {"say", "asleep"} => call'[u].fn \in Value
                        /\ ~call'[u].late /\ call'[u].w \notin knots => OnItsWay(call[u])'
      BY DEF CallsOnTheirWay
    <2>1. OnItsWay(call'[u]) => OnItsWay(call[u])'
      BY DEF OnItsWay, Home
    <2>2. CASE u = t
      BY <2>1, <2>2
    <2>3. CASE u # t
      BY <2>1, <2>3 DEF CallsOnTheirWay
    <2> QED BY <2>2, <2>3
  <1> QED BY <1>1, <1>2

\* Where a call goes from a value: on its way if that is its own function.
LEMMA GoesOn ==
  ASSUME NEW c \in CallRecord, NEW to \in Value, c.w \in Word
  PROVE  /\ Goes(c, to) \in CallRecord /\ Goes(c, to).pc \in {"run", "enter"}
         /\ Goes(c, to).w = c.w /\ Goes(c, to).late = c.late /\ Goes(c, to).ran = c.ran
         /\ Goes(c, to).pc = "enter" => Goes(c, to).id \in Id /\ to = <<"hook", Goes(c, to).id>>
         /\ to = Home(c.w) => Goes(c, to).pc = "run" /\ Goes(c, to).fn = c.w
  <1>1. CASE to \in {"fn"} \X Word
    <2>1. PICK w \in Word : to = <<"fn", w>>
      BY <1>1
    <2>2. Goes(c, to) = [c EXCEPT !.pc = "run", !.fn = w]
      BY <2>1 DEF Goes
    <2>3. [c EXCEPT !.pc = "run", !.fn = w] \in CallRecord
      BY DEF CallRecord
    <2>4. to = Home(c.w) => w = c.w
      BY <2>1 DEF Home
    <2> QED BY <2>2, <2>3, <2>4 DEF CallRecord
  <1>2. CASE to \in {"hook"} \X Id
    <2>1. PICK i \in Id : to = <<"hook", i>>
      BY <1>2
    <2>2. Goes(c, to) = [c EXCEPT !.pc = "enter", !.id = i]
      BY <2>1 DEF Goes
    <2>3. [c EXCEPT !.pc = "enter", !.id = i] \in CallRecord
      BY DEF CallRecord
    <2>4. to # Home(c.w)
      BY <2>1 DEF Home
    <2> QED BY <2>1, <2>2, <2>3, <2>4 DEF CallRecord
  <1> QED BY <1>1, <1>2 DEF Value

\* A call starts in range, with nothing run.
LEMMA NewCall ==
  ASSUME NEW w \in Word
  PROVE  LET c == [NoCall EXCEPT !.w = w]
         IN  c \in CallRecord /\ c.w = w /\ c.ran = <<>> /\ c.late = FALSE
  <1>1. NoCall \in CallRecord /\ NoCall.ran = <<>> /\ NoCall.late = FALSE
    BY DEF NoCall, CallRecord
  <1>2. \A r \in CallRecord :
          LET c == [r EXCEPT !.w = w]
          IN  c \in CallRecord /\ c.w = w /\ c.ran = r.ran /\ c.late = r.late
    BY DEF CallRecord
  <1> QED BY <1>1, <1>2

LEMMA CallKeeps ==
  ASSUME HookInv, NEW t \in Thread, Call(t)
  PROVE  HookInv'
  <1> USE DEF HookInv
  <1>1. PICK w \in Word : call' = [call EXCEPT ![t] = Goes([NoCall EXCEPT !.w = w], word[w])]
    BY DEF Call
  <1> DEFINE c == [NoCall EXCEPT !.w = w]
             d == Goes(c, word[w])
  <1>2. c \in CallRecord /\ c.w = w /\ c.ran = <<>> /\ c.late = FALSE
    BY NewCall
  <1>3. word[w] \in Value
    BY DEF HooksTyped
  <1>4. /\ d \in CallRecord /\ d.pc \in {"run", "enter"} /\ d.w = w /\ d.ran = <<>>
        /\ d.pc = "enter" => d.id \in Id /\ word[w] = <<"hook", d.id>>
        /\ word[w] = Home(w) => d.pc = "run" /\ d.fn = w
    <2> HIDE DEF c
    <2> QED BY <1>2, <1>3, GoesOn
  <1>5. w \notin knots => OnItsWay(d)
    <2> SUFFICES ASSUME w \notin knots PROVE OnItsWay(d)
      OBVIOUS
    <2>1. CASE word[w] = Home(w)
      BY <1>4, <2>1 DEF OnItsWay
    <2>2. CASE word[w] # Home(w)
      <3>1. PICK i \in Id : word[w] = <<"hook", i>> /\ hooks[i].func = Home(w)
        BY <2>2 DEF WordLeadsHome
      <3>2. d.pc = "enter" => d.id = i
        BY <1>4, <3>1
      <3>3. d.pc = "run" => FALSE
        BY <1>2, <3>1 DEF Goes
      <3> QED BY <1>4, <3>1, <3>2, <3>3 DEF OnItsWay
    <2> QED BY <2>1, <2>2
  <1>6. call'[t] = d /\ call' \in [Thread -> CallRecord] /\ \A u \in Thread : u # t => call'[u] = call[u]
    BY <1>1, <1>4 DEF HooksTyped
  <1>7. UNCHANGED <<word, hooks, setting, knots>>
    BY DEF Call
  <1> HIDE DEF d, HookInv
  <1> QED BY <1>4, <1>5, <1>6, <1>7, OtherCallsKept

\* The dispatcher takes the function of its hook.
LEMMA HandleKeeps ==
  ASSUME HookInv, NEW t \in Thread, Dispatch(t)
  PROVE  HookInv'
  <1> USE DEF HookInv
  <1> DEFINE f == hooks[call[t].id].func
             d == IF f = NULL THEN [call[t] EXCEPT !.pc = "back"]
                  ELSE [call[t] EXCEPT !.pc = "say", !.fn = f, !.inside = Append(@, call[t].id)]
  <1>1. call' = [call EXCEPT ![t] = d] /\ call[t].pc = "enter" /\ UNCHANGED <<word, hooks, setting, knots>>
    <2>1. call' = [call EXCEPT ![t] = d]
      BY Zenon DEF Dispatch
    <2> QED BY <2>1 DEF Dispatch
  <1>2. call[t] \in CallRecord /\ call[t].id \in Id /\ call[t].w \in Word
    BY <1>1 DEF HooksTyped, CallsOnTheirWay
  <1>3. f \in Value \cup {NULL}
    BY <1>2 DEF HooksTyped
  <1>4. /\ d \in CallRecord /\ d.w = call[t].w /\ d.late = call[t].late /\ d.ran = call[t].ran
        /\ IF f = NULL THEN d.pc = "back" ELSE d.pc = "say" /\ d.fn = f
    <2>1. Append(call[t].inside, call[t].id) \in Seq(Id)
      BY <1>2 DEF CallRecord
    <2>2. CASE f = NULL
      BY <1>2, <2>2 DEF CallRecord
    <2>3. CASE f # NULL
      BY <1>2, <1>3, <2>1, <2>3 DEF CallRecord
    <2> QED BY <2>2, <2>3
  <1> HIDE DEF d
  <1>5. ~call[t].late /\ call[t].w \notin knots => OnItsWay(d)
    <2> SUFFICES ASSUME ~call[t].late, call[t].w \notin knots PROVE OnItsWay(d)
      OBVIOUS
    <2>1. f = Home(call[t].w) /\ call[t].ran = <<>>
      BY <1>1 DEF CallsOnTheirWay, OnItsWay
    <2>2. Home(call[t].w) # NULL
      BY <1>2, HookAssumption DEF Home, Value
    <2> QED BY <1>4, <2>1, <2>2 DEF OnItsWay
  <1>6. call'[t] = d /\ call' \in [Thread -> CallRecord] /\ \A u \in Thread : u # t => call'[u] = call[u]
    BY <1>1, <1>4 DEF HooksTyped
  <1>7. d.pc # "enter" /\ (d.pc = "say" => d.fn \in Value) /\ d.pc # "asleep"
    BY <1>3, <1>4
  <1> HIDE DEF HookInv, f
  <1> QED BY <1>1, <1>2, <1>4, <1>5, <1>6, <1>7, OtherCallsKept

\* A call leaves the dispatcher for its function, or sleeps first.
LEMMA LeaveKeeps ==
  ASSUME HookInv, NEW t \in Thread, call[t].pc \in {"say", "asleep"},
         UNCHANGED <<word, hooks, setting, knots>>,
         \/ call' = [call EXCEPT ![t] = Goes(@, @.fn)]
         \/ call' = [call EXCEPT ![t].pc = "asleep"]
  PROVE  HookInv'
  <1> USE DEF HookInv
  <1>1. call[t] \in CallRecord /\ call[t].w \in Word /\ call[t].fn \in Value
    BY DEF HooksTyped, CallsOnTheirWay
  <1>2. ~call[t].late /\ call[t].w \notin knots => call[t].fn = Home(call[t].w) /\ call[t].ran = <<>>
    BY DEF CallsOnTheirWay, OnItsWay
  <1>3. CASE call' = [call EXCEPT ![t] = Goes(@, @.fn)]
    <2> DEFINE d == Goes(call[t], call[t].fn)
    <2>1. /\ d \in CallRecord /\ d.pc \in {"run", "enter"} /\ d.w = call[t].w
          /\ d.late = call[t].late /\ d.ran = call[t].ran /\ (d.pc = "enter" => d.id \in Id)
          /\ call[t].fn = Home(call[t].w) => d.pc = "run" /\ d.fn = call[t].w
      BY <1>1, GoesOn
    <2>2. call'[t] = d /\ call' \in [Thread -> CallRecord] /\ \A u \in Thread : u # t => call'[u] = call[u]
      BY <1>3, <2>1 DEF HooksTyped
    <2> HIDE DEF d
    <2>3. ~d.late /\ d.w \notin knots => OnItsWay(d)
      BY <1>2, <2>1 DEF OnItsWay
    <2> HIDE DEF HookInv
    <2> QED BY <1>1, <2>1, <2>2, <2>3, OtherCallsKept
  <1>4. CASE call' = [call EXCEPT ![t].pc = "asleep"]
    <2> DEFINE d == [call[t] EXCEPT !.pc = "asleep"]
    <2>1. /\ d \in CallRecord /\ d.pc = "asleep" /\ d.w = call[t].w /\ d.fn = call[t].fn
          /\ d.late = call[t].late /\ d.ran = call[t].ran
      BY <1>1 DEF CallRecord
    <2>2. call'[t] = d /\ call' \in [Thread -> CallRecord] /\ \A u \in Thread : u # t => call'[u] = call[u]
      BY <1>4, <2>1 DEF HooksTyped
    <2> HIDE DEF d
    <2>3. ~d.late /\ d.w \notin knots => OnItsWay(d)
      BY <1>2, <2>1 DEF OnItsWay
    <2> HIDE DEF HookInv
    <2> QED BY <1>1, <2>1, <2>2, <2>3, OtherCallsKept
  <1> QED BY <1>3, <1>4

\* The function runs.
LEMMA RunKeeps ==
  ASSUME HookInv, NEW t \in Thread, Run(t)
  PROVE  HookInv'
  <1> USE DEF HookInv
  <1> DEFINE d == [call[t] EXCEPT !.ran = Append(@, call[t].fn), !.pc = "back"]
  <1>1. call' = [call EXCEPT ![t] = d] /\ call[t].pc = "run" /\ UNCHANGED <<word, hooks, setting, knots>>
    BY DEF Run
  <1>2. call[t] \in CallRecord /\ call[t].w \in Word
    BY <1>1 DEF HooksTyped, CallsOnTheirWay
  <1>3. /\ d \in CallRecord /\ d.w = call[t].w /\ d.late = call[t].late
        /\ d.pc = "back" /\ d.ran = Append(call[t].ran, call[t].fn)
    <2>1. Append(call[t].ran, call[t].fn) \in Seq(Value \cup Word \cup Id \cup {NULL})
      BY <1>2 DEF CallRecord
    <2>2. \A r \in Seq(Value \cup Word \cup Id \cup {NULL}) :
            LET e == [call[t] EXCEPT !.ran = r, !.pc = "back"]
            IN  e \in CallRecord /\ e.w = call[t].w /\ e.late = call[t].late /\ e.pc = "back" /\ e.ran = r
      BY <1>2 DEF CallRecord
    <2> QED BY <2>1, <2>2
  <1> HIDE DEF d
  <1>4. ~call[t].late /\ call[t].w \notin knots => d.ran = <<call[t].w>>
    <2>1. ~call[t].late /\ call[t].w \notin knots => call[t].fn = call[t].w /\ call[t].ran = <<>>
      BY <1>1 DEF CallsOnTheirWay, OnItsWay
    <2>2. \A x : Append(<<>>, x) = <<x>>
      OBVIOUS
    <2> QED BY <1>3, <2>1, <2>2
  <1>5. ~d.late /\ d.w \notin knots => OnItsWay(d)
    BY <1>3, <1>4 DEF OnItsWay
  <1>6. call'[t] = d /\ call' \in [Thread -> CallRecord] /\ \A u \in Thread : u # t => call'[u] = call[u]
    BY <1>1, <1>3 DEF HooksTyped
  <1> HIDE DEF HookInv
  <1> QED BY <1>1, <1>2, <1>3, <1>5, <1>6, OtherCallsKept

\* On the way back only the dispatchers change.
LEMMA BackKeeps ==
  ASSUME HookInv, NEW t \in Thread, call[t].pc \in {"back", "dozing"},
         UNCHANGED <<word, hooks, setting, knots>>,
         NEW p \in {"back", "dozing"}, NEW inside \in Seq(Id),
         call' = [call EXCEPT ![t].inside = inside, ![t].pc = p]
  PROVE  HookInv'
  <1> USE DEF HookInv
  <1> DEFINE d == [call[t] EXCEPT !.inside = inside, !.pc = p]
  <1>1. call[t] \in CallRecord /\ call[t].w \in Word
    BY DEF HooksTyped, CallsOnTheirWay
  <1>2. d \in CallRecord /\ d.w = call[t].w /\ d.late = call[t].late /\ d.pc = p /\ d.ran = call[t].ran
    BY <1>1 DEF CallRecord
  <1> HIDE DEF d
  <1>3. ~d.late /\ d.w \notin knots => OnItsWay(d)
    BY <1>2 DEF CallsOnTheirWay, OnItsWay
  <1>4. call'[t] = d /\ call' \in [Thread -> CallRecord] /\ \A u \in Thread : u # t => call'[u] = call[u]
    BY <1>2 DEF HooksTyped, d
  <1> HIDE DEF HookInv
  <1> QED BY <1>1, <1>2, <1>3, <1>4, OtherCallsKept

-----------------------------------------------------------------------------
\* Every step keeps the invariant.
LEMMA HookInvNext ==
  ASSUME HookInv, [Next]_vars
  PROVE  HookInv'
  <1>1. CASE SetHook
    BY <1>1, SetHookKeeps
  <1>2. CASE PatchWord
    BY <1>2, PatchWordKeeps
  <1>3. CASE apiHookGenericDelete
    BY <1>3, DeleteKeeps
  <1>4. CASE apiHookRegisterUserDispatch \/ UNCHANGED vars
    <2>1. UNCHANGED <<word, hooks, setting, call, knots>>
      BY <1>4 DEF apiHookRegisterUserDispatch, vars
    <2> QED BY <2>1 DEF HookInv, HooksTyped, WordLeadsHome, SettingReady, HookInPlace,
                        CallsOnTheirWay, OnItsWay, Home
  <1>5. ASSUME NEW t \in Thread, Call(t) PROVE HookInv'
    BY <1>5, CallKeeps
  <1>6. ASSUME NEW t \in Thread, Dispatch(t) PROVE HookInv'
    BY <1>6, HandleKeeps
  <1>7. ASSUME NEW t \in Thread, Say(t) \/ thwake_cmd(t) PROVE HookInv'
    <2>1. call[t].pc \in {"say", "asleep"} /\ UNCHANGED <<word, hooks, setting, knots>>
      BY <1>7 DEF Say, thwake_cmd
    <2>2. \/ call' = [call EXCEPT ![t] = Goes(@, @.fn)]
          \/ call' = [call EXCEPT ![t].pc = "asleep"]
      BY <1>7 DEF Say, thwake_cmd
    <2> QED BY <2>1, <2>2, LeaveKeeps
  <1>8. ASSUME NEW t \in Thread, Run(t) PROVE HookInv'
    BY <1>8, RunKeeps
  <1>9. ASSUME NEW t \in Thread, Return(t) PROVE HookInv'
    <2> DEFINE i == SubSeq(call[t].inside, 1, Len(call[t].inside) - 1)
               p == IF Sleeps(t) /\ hooks[call[t].inside[Len(call[t].inside)]].func # NULL
                    THEN "dozing" ELSE "back"
    <2>1. call[t].inside \in Seq(Id) /\ call[t].inside # <<>>
      BY <1>9 DEF Return, HookInv, HooksTyped, CallRecord
    <2>2. i \in Seq(Id) /\ p \in {"back", "dozing"}
      BY <2>1
    <2>3. call' = [call EXCEPT ![t].inside = i, ![t].pc = p]
      BY <1>9 DEF Return
    <2>4. call[t].pc \in {"back", "dozing"} /\ UNCHANGED <<word, hooks, setting, knots>>
      BY <1>9 DEF Return
    <2> HIDE DEF i, p
    <2> QED BY <2>2, <2>3, <2>4, BackKeeps
  <1>10. ASSUME NEW t \in Thread, WakeReturn(t) PROVE HookInv'
    <2>1. call[t] \in CallRecord /\ call \in [Thread -> CallRecord]
      BY DEF HookInv, HooksTyped
    <2>2. call' = [call EXCEPT ![t].inside = call[t].inside, ![t].pc = "back"]
      BY <1>10, <2>1 DEF WakeReturn, CallRecord
    <2>3. call[t].pc \in {"back", "dozing"} /\ UNCHANGED <<word, hooks, setting, knots>>
      BY <1>10 DEF WakeReturn
    <2>4. call[t].inside \in Seq(Id)
      BY <2>1 DEF CallRecord
    <2> QED BY <2>2, <2>3, <2>4, BackKeeps
  <1>11. ASSUME NEW t \in Thread, Done(t) PROVE HookInv'
    <2>1. call' = [call EXCEPT ![t] = NoCall] /\ UNCHANGED <<word, hooks, setting, knots>>
      BY <1>11 DEF Done
    <2>2. NoCall \in CallRecord /\ NoCall.pc = "idle"
      BY DEF NoCall, CallRecord
    <2>3. /\ call' \in [Thread -> CallRecord] /\ call'[t].pc = "idle"
          /\ \A u \in Thread : u # t => call'[u] = call[u]
      BY <2>1, <2>2 DEF HookInv, HooksTyped
    <2> QED BY <2>1, <2>3, OtherCallsKept
  <1> QED BY <1>1, <1>2, <1>3, <1>4, <1>5, <1>6, <1>7, <1>8, <1>9, <1>10, <1>11 DEF Next

\* A call that ended has run its own function once, however many hooks are set
\* and deleted while it is under way (_apiHookHandle, line 138).
THEOREM FunctionRuns == Spec => []RunsItsFunction
  <1>1. Init => HookInv
    BY HookInvInit
  <1>2. HookInv /\ [Next]_vars => HookInv'
    BY HookInvNext
  <1>3. HookInv => RunsItsFunction
    BY DEF HookInv, CallsOnTheirWay, OnItsWay, RunsItsFunction
  <1> QED BY <1>1, <1>2, <1>3, PTL DEF Spec

\* Without hooks the functions are back in their words (apiHookGenericDelete).
THEOREM HooksLeaveNothing == Spec => []Restored
  <1>1. Init => HookInv
    BY HookInvInit
  <1>2. HookInv /\ [Next]_vars => HookInv'
    BY HookInvNext
  <1>3. HookInv => Restored
    <2> SUFFICES ASSUME HookInv, \A i \in Id : hooks[i].func = NULL, NEW w \in Word \ knots
                 PROVE  word[w] = Home(w)
      BY DEF Restored
    <2>1. Home(w) # NULL
      BY HookAssumption DEF Value, Home
    <2> QED BY <2>1 DEF HookInv, WordLeadsHome
  <1> QED BY <1>1, <1>2, <1>3, PTL DEF Spec

-----------------------------------------------------------------------------
(* The start and the configuration.                                        *)

File == Seq(Setting)
StartTyped ==
  /\ fw200 \in BOOLEAN
  /\ pc \in {"menu", "config", "usb", "dir", "hook", "mods", "shell", "off"}
  /\ arg \in Dir \cup {Nil}
  /\ saved \in [dir : Dir, key : Key] \cup {Nil}
  /\ ini \in File \cup {Nil} /\ tmp \in File \cup {Nil}
  /\ ctx \in [dir : Dir \cup {Nil}, key : Key, hook : BOOLEAN, exits : BOOLEAN, usb : BOOLEAN]
  /\ job \in Job \cup {Nil}
  /\ due \subseteq Dir
  /\ Up => ctx.dir \in Dir
  /\ job # Nil /\ job.at # "tmp" => tmp # Nil

\* psplink.ini is still as it was before the change.
Before ==
  /\ ini # Nil /\ Settings(ini) = old
  /\ want = Changed(old, job.name, job.val, job.add)

\* What is left to copy, and that the rest has been copied with the change.
Copied(s) == Values(tmp) = Changed(Values(s), job.name, job.val, job.found)
CopyOf(file) ==
  \E k \in 0..Len(file) :
    job.rest = SubSeq(file, k + 1, Len(file)) /\ Copied(SubSeq(file, 1, k))

\* The file that has the settings at each point of configChange, or after it.
Idle ==
  job = Nil =>
    \/ ini # Nil /\ (Fits(ini) => Settings(ini) \in {old, want})
    \/ ini = Nil /\ tmp # Nil /\ Values(tmp) = want

Changing ==
  job # Nil =>
    /\ job.at \in {"tmp", "ini"} => Before /\ ~job.found
    /\ job.at = "ini" => tmp = <<>>
    /\ job.at = "copy" => Before /\ CopyOf(Lines(ini))
    /\ job.at = "add" => Before /\ Copied(Lines(ini))
    /\ job.at = "remove" => Before /\ Values(tmp) = want
    /\ job.at = "rename" => ini = Nil /\ Values(tmp) = want
    /\ job.found => job.add

ConfInv == ~excused => Idle /\ Changing

\* The directories that the next shell may start in.
Due ==
  /\ fw200 => saved = Nil
  /\ saved # Nil => saved.dir \in due
  /\ pc \in {"menu", "off", "hook", "mods", "shell"} => Root \in due
  /\ pc \in {"config", "usb", "dir"} =>
       IF fw200 /\ arg # Nil THEN arg \in due ELSE saved = Nil => Root \in due

-----------------------------------------------------------------------------
(* The settings of a file.                                                 *)

LEMMA LastOf ==
  ASSUME NEW k \in Nat, NEW S \in SUBSET (1..k), S # {}
  PROVE  \E i \in S : \A j \in S : j <= i
  <1> DEFINE T == {k - i : i \in S}
  <1>1. T \in SUBSET Nat /\ T # {}
    <2>1. \A i \in S : i \in Nat /\ k - i \in Nat
      OBVIOUS
    <2> QED
      BY <2>1
  <1> HIDE DEF T
  <1>2. PICK x \in T : \A y \in T : ~(<<y, x>> \in OpToRel(<, Nat))
    BY <1>1, NatLessThanWellFounded, WFMin
  <1>3. \A y \in T : ~(y < x)
    BY <1>1, <1>2 DEF OpToRel
  <1>4. PICK i \in S : x = k - i
    BY DEF T
  <1>5. ASSUME NEW j \in S PROVE j <= i
    <2>1. k - j \in T
      BY DEF T
    <2>2. ~(k - j < k - i)
      BY <1>3, <1>4, <2>1
    <2> QED
      BY <2>2
  <1> QED
    BY <1>5

LEMMA OfNames ==
  ASSUME NEW s
  PROVE  DOMAIN Values(s) = Name /\ Values(s) = [n \in Name |-> Values(s)[n]]
  BY DEF Values

\* A file without lines has no settings, and each line overrides what is above it.
LEMMA NoSettings == Values(<<>>) = [n \in Name |-> Nil]
  <1>1. \A n : Mentions(<<>>, n) = {}
    BY DEF Mentions
  <1> QED
    BY <1>1 DEF Values

LEMMA OneMore ==
  ASSUME NEW s \in File, NEW l \in Setting
  PROVE  /\ Append(s, l) \in File
         /\ Values(Append(s, l)) = [Values(s) EXCEPT ![l.name] = l.val]
  <1> DEFINE t == Append(s, l)
             k == Len(s)
  <1>1. /\ t \in File /\ k \in Nat /\ Len(t) = k + 1 /\ t[k + 1] = l
        /\ \A i \in 1..k : t[i] = s[i]
        /\ DOMAIN s = 1..k /\ DOMAIN t = 1..(k + 1)
    BY DEF File
  <1>2. l.name \in Name /\ l.val \in Val
    BY DEF Setting
  <1> HIDE DEF t, k
  <1>3. ASSUME NEW n \in Name
        PROVE  Values(t)[n] = IF n = l.name THEN l.val ELSE Values(s)[n]
    <2> DEFINE M == Mentions(t, n)
               last == CHOOSE i \in M : \A j \in M : j <= i
    <2>1. Values(t)[n] = IF M = {} THEN Nil ELSE t[last].val
      BY DEF Values
    <2>2. CASE n = l.name
      <3>1. k + 1 \in M /\ M \subseteq 1..(k + 1)
        BY <1>1, <2>2 DEF Mentions
      <3>2. \A i \in M : (\A j \in M : j <= i) <=> i = k + 1
        BY <1>1, <3>1
      <3> HIDE DEF M
      <3>3. last = k + 1
        BY <3>1, <3>2
      <3> HIDE DEF last
      <3> QED
        BY <1>1, <2>1, <2>2, <3>1, <3>3
    <2>3. CASE n # l.name
      <3>1. M = Mentions(s, n)
        BY <1>1, <2>3 DEF Mentions
      <3>2. Values(s)[n] = IF M = {} THEN Nil ELSE s[last].val
        BY <3>1 DEF Values
      <3>3. M \in SUBSET (1..k)
        BY <1>1, <3>1 DEF Mentions
      <3> HIDE DEF M
      <3>4. M # {} => last \in M
        BY <1>1, <3>3, LastOf
      <3> HIDE DEF last
      <3> QED
        BY <1>1, <2>1, <2>3, <3>2, <3>3, <3>4
    <2> QED
      BY <2>2, <2>3
  <1>4. Values(t) = [n \in Name |-> Values(t)[n]] /\ Values(s) = [n \in Name |-> Values(s)[n]]
    BY DEF Values
  <1>5. Values(t) = [Values(s) EXCEPT ![l.name] = l.val]
    BY <1>2, <1>3, <1>4
  <1> QED
    BY <1>1, <1>5 DEF t

\* What is read of a file: its lines, all if they fit.
LEMMA LinesOf ==
  ASSUME NEW file \in File
  PROVE  /\ Lines(file) \in File
         /\ Fits(file) => Lines(file) = file
  <1> DEFINE n == IF Len(file) < Room THEN Len(file) ELSE Room
  <1>1. file # Nil /\ Room \in Nat /\ Len(file) \in Nat
    BY StartAssumption DEF File
  <1>2. n \in 0..Len(file) /\ (Len(file) <= Room => n = Len(file))
    BY <1>1
  <1> HIDE DEF n
  <1>3. Lines(file) = SubSeq(file, 1, n)
    BY <1>1 DEF Lines, n
  <1>4. \A i \in 1..n : file[i] \in Setting
    BY <1>1, <1>2 DEF File
  <1>5. SubSeq(file, 1, n) \in File
    BY <1>2, <1>4, SubSeqProperties DEF File
  <1> QED
    BY <1>1, <1>2, <1>3, <1>5, SubSeqFull DEF Fits, File

-----------------------------------------------------------------------------
(* Types.                                                                   *)

LEMMA StartTypedInit == StartInit => StartTyped
  BY StartAssumption DEF StartInit, StartTyped, NoContext, File, Key, Up

LEMMA StartTypedSession ==
  ASSUME StartTyped,
         \/ Bootstrap \/ LoadConfig \/ InitUsb \/ ShellInit \/ HookExit \/ LoadModules
         \/ PowerOff \/ PowerOn \/ ExitReset \/ ResetThread
         \/ reset_cmd \/ Leave \/ chdir_cmd
  PROVE  StartTyped'
  <1> USE DEF StartTyped, Up
  <1>1. CASE Bootstrap
    BY <1>1 DEF Bootstrap, Boot, session, configs
  <1>2. CASE LoadConfig
    BY <1>2 DEF LoadConfig, configs
  <1>3. CASE InitUsb
    BY <1>3 DEF InitUsb, configs
  <1>4. CASE ShellInit
    <2>1. /\ ctx' \in [dir : Dir \cup {Nil}, key : Key, hook : BOOLEAN, exits : BOOLEAN, usb : BOOLEAN]
          /\ ctx'.dir \in Dir
      BY <1>4, StartAssumption DEF ShellInit
    <2> QED
      BY <1>4, <2>1, StartAssumption DEF ShellInit, configs, SavedAfter
  <1>5. CASE HookExit
    BY <1>5 DEF HookExit, configs
  <1>6. CASE LoadModules
    BY <1>6 DEF LoadModules, configs
  <1>7. CASE PowerOff
    BY <1>7, StartAssumption DEF PowerOff, NewSession, NoContext, Key
  <1>8. CASE PowerOn
    BY <1>8 DEF PowerOn, configs, session
  <1>9. CASE ExitReset
    BY <1>9 DEF ExitReset, configs
  <1>10. CASE ResetThread \/ reset_cmd
    <2>1. PICK key \in Key : Reset(key)
      BY <1>10 DEF ResetThread, reset_cmd, Key
    <2>2. Up
      BY <1>10 DEF ResetThread, reset_cmd, Prompt
    <2>3. /\ saved' \in [dir : Dir, key : Key] \cup {Nil}
          /\ UNCHANGED <<fw200, ini, tmp>>
      BY <2>1, <2>2 DEF Reset
    <2>4. CASE job' = Nil /\ Boot("config", IF fw200 THEN ctx.dir ELSE Nil)
               /\ due' = {ctx.dir} /\ NewSession
      BY <2>2, <2>3, <2>4 DEF Boot, NewSession, NoContext, Key
    <2>5. CASE /\ ctx' = [ctx EXCEPT !.key = key]
               /\ due' = due \cup IF fw200 THEN {} ELSE {ctx.dir}
               /\ UNCHANGED <<pc, arg, job>>
      <3>1. /\ ctx' \in [dir : Dir \cup {Nil}, key : Key, hook : BOOLEAN, exits : BOOLEAN, usb : BOOLEAN]
            /\ ctx'.dir = ctx.dir
        BY <2>5
      <3> QED
        BY <2>2, <2>3, <2>5, <3>1
    <2> QED
      BY <2>1, <2>4, <2>5 DEF Reset
  <1>11. CASE Leave
    BY <1>11 DEF Leave, Boot, NewSession, NoContext, configs, Key
  <1>12. CASE chdir_cmd
    BY <1>12 DEF chdir_cmd, configs
  <1> QED
    BY <1>1, <1>2, <1>3, <1>4, <1>5, <1>6, <1>7, <1>8, <1>9, <1>10, <1>11, <1>12

\* A step of configChange that leaves the rest of the program alone.
LEMMA TypedFiles ==
  ASSUME StartTyped, JobFrame, ini' \in File \cup {Nil}, tmp' \in File \cup {Nil},
         job' \in Job \cup {Nil}, job' # Nil /\ job'.at # "tmp" => tmp' # Nil
  PROVE  StartTyped'
  BY DEF StartTyped, JobFrame, session, Up

\* configChange between two operations on files.
LEMMA AtWork ==
  ASSUME StartTyped, NEW x, At(x)
  PROVE  /\ job \in Job /\ job # Nil /\ job.at = x
         /\ x # "tmp" => tmp \in File /\ tmp # Nil
         /\ x # "rename" => Follows[x] # "tmp" /\ [job EXCEPT !.at = Follows[@]] \in Job
  BY DEF StartTyped, At, Follows, Job

\* What fdprintf has written.
LEMMA Writes ==
  ASSUME NEW l \in Setting, tmp \in File, Write(l)
  PROVE  /\ tmp' \in File /\ tmp' # Nil
         /\ ~excused' => ~excused /\ tmp' = Append(tmp, l)
  <1>1. tmp \in Seq(Setting) /\ Append(tmp, l) \in Seq(Setting)
    BY DEF File
  <1>2. Nil \notin Seq(Setting)
    BY StartAssumption
  <1> QED
    BY <1>1, <1>2 DEF Write, File

\* The line that is copied next.
LEMMA NextLine ==
  ASSUME StartTyped, At("copy"), job.rest # <<>>
  PROVE  LET l == Head(job.rest) IN
         /\ l \in Setting /\ [l EXCEPT !.val = job.val] \in Setting
         /\ Tail(job.rest) \in File
  <1> DEFINE l == Head(job.rest)
  <1>1. job.rest \in Seq(Setting) /\ job.val \in Val
    BY AtWork DEF Job
  <1>2. l \in Setting /\ Tail(job.rest) \in Seq(Setting)
    BY <1>1, HeadTailProperties
  <1> HIDE DEF l
  <1>3. [l EXCEPT !.val = job.val] \in Setting
    BY <1>1, <1>2 DEF Setting
  <1> QED
    BY <1>2, <1>3 DEF l, File

LEMMA StartTypedFiles ==
  ASSUME StartTyped,
         \/ OpenTmp \/ OpenIni \/ CopyLine \/ CopyEnd \/ AddLine \/ RemoveIni \/ RenameTmp
  PROVE  StartTyped'
  <1>1. /\ JobFrame
        /\ ini \in File \cup {Nil} /\ tmp \in File \cup {Nil}
    BY DEF OpenTmp, OpenIni, CopyLine, CopyEnd, AddLine, RemoveIni, RenameTmp, StartTyped
  <1>2. CASE OpenTmp
    BY <1>1, <1>2, AtWork, TypedFiles, EmptySeq, StartAssumption DEF OpenTmp, Go, File
  <1>3. CASE OpenIni
    <2>1. /\ At("ini") /\ ini' = ini
          /\ \/ tmp' = tmp /\ job' \in Job
             \/ job' = Nil /\ tmp' = Nil
      <3>1. CASE ini # Nil
        <4> DEFINE j == [job EXCEPT !.at = Follows[@]]
        <4>1. j \in Job
          BY <1>3, AtWork DEF OpenIni
        <4>2. Lines(ini) \in Seq(Setting)
          BY <1>1, <3>1, LinesOf DEF File
        <4> HIDE DEF j
        <4>3. [j EXCEPT !.rest = Lines(ini)] \in Job
          BY <4>1, <4>2 DEF Job
        <4>4. [job EXCEPT !.at = Follows[@], !.rest = Lines(ini)] = [j EXCEPT !.rest = Lines(ini)]
          BY DEF j
        <4> QED
          BY <1>3, <3>1, <4>1, <4>3, <4>4 DEF OpenIni, j
      <3> QED
        BY <1>3, <3>1 DEF OpenIni
    <2> QED
      BY <1>1, <2>1, AtWork, TypedFiles
  <1>4. CASE CopyLine
    <2> DEFINE l == Head(job.rest)
    <2>1. /\ At("copy") /\ job.rest # <<>> /\ ini' = ini
      BY <1>4 DEF CopyLine
    <2>2. l \in Setting /\ [l EXCEPT !.val = job.val] \in Setting /\ Tail(job.rest) \in Seq(Setting)
      BY <2>1, NextLine DEF File
    <2>3. job' \in Job
      <3>1. job \in Job
        BY <2>1, AtWork
      <3>2. \/ job' = [job EXCEPT !.rest = Tail(@)]
            \/ job' = [job EXCEPT !.rest = Tail(@), !.found = TRUE]
        BY <1>4 DEF CopyLine
      <3> QED
        BY <2>2, <3>1, <3>2 DEF Job
    <2>4. tmp' \in File /\ tmp' # Nil
      <3>1. \/ Write(l) \/ Write([l EXCEPT !.val = job.val]) \/ tmp' = tmp
        BY <1>4 DEF CopyLine
      <3> HIDE DEF l
      <3> QED
        BY <2>1, <2>2, <3>1, AtWork, Writes
    <2> QED
      BY <1>1, <2>1, <2>3, <2>4, TypedFiles
  <1>5. CASE CopyEnd
    BY <1>1, <1>5, AtWork, TypedFiles DEF CopyEnd, Go
  <1>6. CASE AddLine
    <2>1. At("add") /\ Go /\ ini' = ini
      BY <1>6 DEF AddLine
    <2>2. [name |-> job.name, val |-> job.val] \in Setting
      BY <2>1, AtWork DEF Setting, Job
    <2>3. tmp' \in File /\ tmp' # Nil
      BY <1>6, <2>1, <2>2, AtWork, Writes DEF AddLine
    <2> QED
      BY <1>1, <2>1, <2>3, AtWork, TypedFiles DEF Go
  <1>7. CASE RemoveIni
    BY <1>1, <1>7, AtWork, TypedFiles DEF RemoveIni, Go
  <1>8. CASE RenameTmp
    BY <1>1, <1>8, AtWork, TypedFiles DEF RenameTmp
  <1> QED
    BY <1>2, <1>3, <1>4, <1>5, <1>6, <1>7, <1>8

LEMMA StartTypedNext == StartTyped /\ [StartNext]_stvars => StartTyped'
  <1> SUFFICES ASSUME StartTyped, [StartNext]_stvars PROVE StartTyped'
    OBVIOUS
  <1>1. CASE confset_cmd
    <2>1. job' \in Job /\ job'.at = "tmp"
      BY <1>1, EmptySeq DEF confset_cmd, Job
    <2> QED
      BY <1>1, <2>1 DEF confset_cmd, session, StartTyped, Up
  <1>2. CASE UNCHANGED stvars
    BY <1>2 DEF stvars, StartTyped, Up
  <1> QED
    BY <1>1, <1>2, StartTypedSession, StartTypedFiles DEF StartNext

-----------------------------------------------------------------------------
(* The directory.                                                           *)

LEMMA DueInit == StartInit => Due
  BY StartAssumption DEF StartInit, Due, Up

LEMMA DueReset ==
  ASSUME StartTyped, Due, Up, NEW key \in Key, Reset(key)
  PROVE  Due'
  <1>1. /\ ctx.dir \in Dir /\ Nil \notin Dir /\ fw200' = fw200
        /\ saved' = IF fw200 THEN saved ELSE [dir |-> ctx.dir, key |-> key]
        /\ ~fw200 => saved' # Nil
    BY StartAssumption DEF StartTyped, Reset
  <1>2. CASE Boot("config", IF fw200 THEN ctx.dir ELSE Nil) /\ due' = {ctx.dir}
    BY <1>1, <1>2 DEF Boot, Due
  <1>3. CASE due' = due \cup (IF fw200 THEN {} ELSE {ctx.dir}) /\ UNCHANGED <<pc, arg>>
    BY <1>1, <1>3 DEF Due, Up
  <1> QED
    BY <1>2, <1>3 DEF Reset

LEMMA DueNext == StartTyped /\ Due /\ [StartNext]_stvars => Due'
  <1> SUFFICES ASSUME StartTyped, Due, [StartNext]_stvars PROVE Due'
    OBVIOUS
  <1>1. CASE UNCHANGED <<fw200, pc, arg, saved, due>>
    BY <1>1 DEF Due
  <1>2. CASE Bootstrap \/ LoadConfig \/ InitUsb
    <2>1. CASE Bootstrap
      BY <2>1 DEF Bootstrap, Boot, Due
    <2>2. CASE LoadConfig
      BY <2>2 DEF LoadConfig, Due
    <2>3. CASE InitUsb
      BY <2>3 DEF InitUsb, Due
    <2> QED
      BY <1>2, <2>1, <2>2, <2>3
  <1>3. CASE ShellInit
    BY <1>3 DEF ShellInit, SavedAfter, Due
  <1>4. CASE HookExit \/ LoadModules \/ PowerOn
    <2>1. /\ UNCHANGED <<fw200, arg, saved, due>>
          /\ pc \in {"hook", "mods", "off"} /\ pc' \in {"mods", "shell", "menu"}
      BY <1>4 DEF HookExit, LoadModules, PowerOn
    <2> QED
      BY <2>1 DEF Due
  <1>5. CASE PowerOff
    BY <1>5 DEF PowerOff, Due
  <1>6. CASE ResetThread \/ reset_cmd
    BY <1>6, DueReset DEF ResetThread, reset_cmd, Prompt, Up, StartTyped, Key
  <1>7. CASE Leave
    BY <1>7 DEF Leave, Boot, Prompt, Due
  <1>8. CASE ExitReset \/ chdir_cmd \/ confset_cmd
    BY <1>1, <1>8 DEF ExitReset, chdir_cmd, confset_cmd
  <1>9. CASE OpenTmp \/ OpenIni \/ CopyLine \/ CopyEnd \/ AddLine \/ RemoveIni \/ RenameTmp
    BY <1>1, <1>9 DEF OpenTmp, OpenIni, CopyLine, CopyEnd, AddLine, RemoveIni, RenameTmp, JobFrame
  <1> QED
    BY <1>1, <1>2, <1>3, <1>4, <1>5, <1>6, <1>7, <1>8, <1>9 DEF StartNext, stvars

LEMMA StartInvAlways == StartSpec => [](StartTyped /\ Due)
  <1>1. StartInit => StartTyped /\ Due
    BY StartTypedInit, DueInit
  <1>2. StartTyped /\ Due /\ [StartNext]_stvars => (StartTyped /\ Due)'
    BY StartTypedNext, DueNext
  <1> QED
    BY <1>1, <1>2, PTL DEF StartSpec

\* A shell starts in the directory that the one before was in when it was reset,
\* however often a reset failed before, the memory was used by other programs or
\* power was cut; else it starts in host0:/.  (psplinkReset, initialise)
THEOREM DirectoryIsKept == StartSpec => DirectoryKept
  <1>1. ASSUME StartTyped, Due, [StartNext]_stvars, pc = "dir", pc' = "hook"
        PROVE  ctx'.dir \in due
    <2>1. ShellInit
      BY <1>1 DEF StartNext, stvars, Bootstrap, Boot, LoadConfig, InitUsb, HookExit, LoadModules,
         PowerOff, PowerOn, ExitReset, ResetThread, reset_cmd, Leave, chdir_cmd, confset_cmd, Prompt,
         Up, OpenTmp, OpenIni, CopyLine, CopyEnd, AddLine, RemoveIni, RenameTmp, At
    <2>2. ctx'.dir = CASE fw200 /\ arg # Nil -> arg
                       [] ~fw200 /\ saved # Nil -> saved.dir
                       [] OTHER -> Root
      BY <2>1 DEF ShellInit, StartTyped
    <2> QED
      BY <1>1, <2>2 DEF Due
  <1>2. StartTyped /\ Due /\ [StartNext]_stvars
        => [pc = "dir" /\ pc' = "hook" => ctx'.dir \in due]_stvars
    BY <1>1
  <1> QED
    BY <1>2, StartInvAlways, PTL DEF StartSpec, DirectoryKept

-----------------------------------------------------------------------------
(* The configuration.                                                       *)

LEMMA ConfInit == StartInit => ConfInv
  BY StartAssumption DEF StartInit, ConfInv, Idle, Changing

\* A change that nobody goes on with has left the settings in psplink.ini or, after
\* the remove, in psplink.ini.tmp.
LEMMA CutOff ==
  ASSUME StartTyped, ConfInv, job' = Nil, UNCHANGED <<ini, tmp, old, want, excused>>
  PROVE  ConfInv'
  <1>1. CASE excused
    BY <1>1 DEF ConfInv
  <1>2. CASE ~excused /\ job = Nil
    BY <1>2 DEF ConfInv, Idle, Changing
  <1>3. CASE ~excused /\ job # Nil
    <2>1. job.at \in {"tmp", "ini", "copy", "add", "remove", "rename"} /\ Changing
      BY <1>3 DEF StartTyped, Job, ConfInv
    <2>2. CASE job.at = "rename"
      BY <1>3, <2>1, <2>2 DEF StartTyped, Changing, ConfInv, Idle
    <2>3. CASE job.at # "rename"
      BY <1>3, <2>1, <2>3 DEF Before, Changing, ConfInv, Idle
    <2> QED
      BY <2>2, <2>3
  <1> QED
    BY <1>1, <1>2, <1>3

LEMMA ConfKept ==
  ASSUME ConfInv, UNCHANGED <<ini, tmp, job, old, want, excused>>
  PROVE  ConfInv'
  BY DEF ConfInv, Idle, Changing, Before, Copied, CopyOf

LEMMA ConfSession ==
  ASSUME StartTyped, ConfInv,
         \/ Bootstrap \/ LoadConfig \/ InitUsb \/ ShellInit \/ HookExit \/ LoadModules
         \/ PowerOff \/ PowerOn \/ ExitReset \/ ResetThread
         \/ reset_cmd \/ Leave \/ chdir_cmd
  PROVE  ConfInv'
  <1>1. CASE PowerOff
    BY <1>1, CutOff DEF PowerOff
  <1>2. CASE ResetThread \/ reset_cmd
    <2>1. PICK key : Reset(key)
      BY <1>2 DEF ResetThread, reset_cmd
    <2> QED
      BY <2>1, CutOff, ConfKept DEF Reset
  <1>3. CASE UNCHANGED configs
    BY <1>3, ConfKept DEF configs
  <1> QED
    BY <1>1, <1>2, <1>3 DEF Bootstrap, LoadConfig, InitUsb, ShellInit, HookExit, LoadModules,
       PowerOn, ExitReset, Leave, chdir_cmd

LEMMA ConfSet ==
  ASSUME StartTyped, ConfInv, confset_cmd
  PROVE  ConfInv'
  <1>1. PICK name \in Name, val \in Val, add \in BOOLEAN :
          /\ job' = [at |-> "tmp", name |-> name, val |-> val, add |-> add, rest |-> <<>>, found |-> FALSE]
          /\ old' = Settings(ini)
          /\ want' = Changed(Settings(ini), name, val, add)
    BY DEF confset_cmd
  <1>2. ini' = ini /\ (~excused' => ini # Nil)
    BY DEF confset_cmd
  <1>3. job' # Nil
    <2>1. job' \in Job
      BY <1>1, EmptySeq DEF Job
    <2> QED
      BY <2>1, StartAssumption
  <1> QED
    BY <1>1, <1>2, <1>3 DEF ConfInv, Idle, Changing, Before

\* Opening the two files; when one cannot be opened, nothing has changed.
LEMMA ConfOpen ==
  ASSUME StartTyped, ConfInv, OpenTmp \/ OpenIni
  PROVE  ConfInv'
  <1> SUFFICES ASSUME ~excused' PROVE Idle' /\ Changing'
    BY DEF ConfInv
  <1>1. PICK x \in {"tmp", "ini"} : At(x) /\ (x = "tmp" => OpenTmp) /\ (x = "ini" => OpenIni)
    BY DEF OpenTmp, OpenIni
  <1>2. job \in Job /\ job # Nil /\ job.at = x /\ Nil \notin Job
        /\ [job EXCEPT !.at = Follows[@]] \in Job
    BY <1>1, AtWork, StartAssumption
  <1>3. ~excused /\ Before /\ ~job.found /\ (x = "ini" => tmp = <<>>)
    BY <1>1, <1>2 DEF OpenTmp, OpenIni, ConfInv, Changing
  <1>4. ini' = ini /\ old' = old
    BY <1>1 DEF OpenTmp, OpenIni
  <1>5. CASE job' = Nil /\ want' = old
    BY <1>3, <1>4, <1>5 DEF Idle, Changing, Before
  <1>6. CASE x = "tmp" /\ tmp' = <<>> /\ Go /\ UNCHANGED want
    <2>1. job'.at = "ini" /\ UNCHANGED <<job.name, job.val, job.add, job.found>> /\ job' # Nil
      BY <1>2, <1>6 DEF Go, Follows, Job
    <2> QED
      BY <1>3, <1>4, <1>6, <2>1 DEF Idle, Changing, Before
  <1>7. CASE x = "ini" /\ job' = [job EXCEPT !.at = Follows[@], !.rest = Lines(ini)] /\ UNCHANGED <<tmp, want>>
    <2>1. /\ job'.at = "copy" /\ job'.rest = Lines(ini)
          /\ UNCHANGED <<job.name, job.val, job.add, job.found>>
      BY <1>2, <1>7 DEF Follows, Job
    <2>2. Lines(ini) \in File
      BY <1>3, LinesOf DEF StartTyped, Before
    <2>3. CopyOf(Lines(ini))'
      <3> DEFINE s == Lines(ini)
      <3>1. s \in Seq(Setting) /\ Len(s) \in Nat
        BY <2>2 DEF File
      <3>2. Lines(ini)' = s
        BY <1>4 DEF Lines
      <3> HIDE DEF s
      <3>3. job'.rest = SubSeq(s, 0 + 1, Len(s)) /\ SubSeq(s, 1, 0) = <<>>
        BY <2>1, <3>1, SubSeqFull, SubSeqEmpty DEF s
      <3>4. Values(tmp') = Changed(Values(<<>>), job'.name, job'.val, job'.found)
        BY <1>3, <1>7, <2>1, NoSettings DEF Changed
      <3>5. \E k \in 0..Len(s) :
              /\ job'.rest = SubSeq(s, k + 1, Len(s))
              /\ Values(tmp') = Changed(Values(SubSeq(s, 1, k)), job'.name, job'.val, job'.found)
        <4>1. 0 \in 0..Len(s)
          BY <3>1
        <4> QED
          BY <3>3, <3>4, <4>1
      <3> QED
        BY <3>2, <3>5 DEF CopyOf, Copied
    <2> QED
      BY <1>3, <1>4, <1>7, <2>1, <2>3 DEF Idle, Changing, Before
  <1> QED
    BY <1>1, <1>5, <1>6, <1>7 DEF OpenTmp, OpenIni

\* One more line of the file is the next of those that are left.
LEMMA OneCopied ==
  ASSUME NEW s \in File, NEW k \in 0..Len(s), SubSeq(s, k + 1, Len(s)) # <<>>
  PROVE  LET r == SubSeq(s, k + 1, Len(s)) IN
         /\ k + 1 \in 0..Len(s)
         /\ Tail(r) = SubSeq(s, k + 1 + 1, Len(s))
         /\ Values(SubSeq(s, 1, k + 1))
              = [Values(SubSeq(s, 1, k)) EXCEPT ![Head(r).name] = Head(r).val]
  <1>1. s \in Seq(Setting) /\ Len(s) \in Nat
    BY DEF File
  <1>2. k < Len(s)
    <2>1. k \in Nat /\ k <= Len(s)
      BY <1>1
    <2>2. SUFFICES ASSUME k = Len(s) PROVE FALSE
      BY <1>1, <2>1
    <2> QED
      BY <1>1, <2>1, <2>2, SubSeqEmpty
  <1>3. k + 1 \in 1..Len(s) /\ k + 1 \in 1..Len(s) /\ Len(s) \in (k + 1)..Len(s)
    BY <1>1, <1>2
  <1>4. /\ Head(SubSeq(s, k + 1, Len(s))) = s[k + 1]
        /\ Tail(SubSeq(s, k + 1, Len(s))) = SubSeq(s, k + 1 + 1, Len(s))
    BY <1>1, <1>3, HeadTailOfSubSeq
  <1>5. SubSeq(s, 1, k) \in Seq(Setting)
    <2>1. \A i \in 1..k : s[i] \in Setting
      BY <1>1, <1>2
    <2> QED
      BY <1>2, <2>1, SubSeqProperties
  <1>6. s[k + 1] \in Setting
    BY <1>1, <1>3
  <1>7. SubSeq(s, 1, k + 1) = Append(SubSeq(s, 1, k), s[k + 1])
    <2>1. 1 \in 1..Len(s) /\ k + 1 \in 1..Len(s) /\ k + 1 - 1 = k
      BY <1>1, <1>3
    <2>2. SubSeq(s, 1, k + 1) = SubSeq(s, 1, k) \o <<s[k + 1]>>
      BY <1>1, <2>1, SubSeqRecursiveSecond
    <2> QED
      BY <1>5, <1>6, <2>2, AppendIsConcat
  <1>8. Values(SubSeq(s, 1, k + 1)) = [Values(SubSeq(s, 1, k)) EXCEPT ![s[k + 1].name] = s[k + 1].val]
    BY <1>5, <1>6, <1>7, OneMore DEF File
  <1> QED
    BY <1>3, <1>4, <1>8

\* Copying a line, or dropping or replacing it, keeps the copy in step.
LEMMA ConfCopy ==
  ASSUME StartTyped, ConfInv, CopyLine
  PROVE  ConfInv'
  <1> SUFFICES ASSUME ~excused' PROVE Idle' /\ Changing'
    BY DEF ConfInv
  <1> DEFINE l == Head(job.rest)
             ls == Lines(ini)
             v(n) == Values(SubSeq(ls, 1, n))
  <1>1. /\ At("copy") /\ job.rest # <<>>
        /\ ini' = ini /\ old' = old /\ want' = want
    BY DEF CopyLine
  <1>2. /\ job \in Job /\ job # Nil /\ job.at = "copy" /\ tmp \in File /\ Nil \notin Job
        /\ l \in Setting /\ [l EXCEPT !.val = job.val] \in Setting
    BY <1>1, AtWork, NextLine, StartAssumption
  <1>3. /\ ~excused
        /\ \/ /\ l.name # job.name /\ tmp' = Append(tmp, l)
              /\ job' = [job EXCEPT !.rest = Tail(@)]
           \/ /\ l.name = job.name /\ job.add /\ tmp' = Append(tmp, [l EXCEPT !.val = job.val])
              /\ job' = [job EXCEPT !.rest = Tail(@), !.found = TRUE]
           \/ /\ l.name = job.name /\ ~job.add /\ tmp' = tmp
              /\ job' = [job EXCEPT !.rest = Tail(@)]
    BY <1>2, Writes DEF CopyLine
  <1>4. Before /\ (job.found => job.add) /\ CopyOf(ls)
    BY <1>2, <1>3 DEF ConfInv, Changing
  <1>5. ls \in File
    BY <1>4, LinesOf DEF Before, StartTyped
  <1>6. ls' = ls
    BY <1>1 DEF Lines
  <1> HIDE DEF ls
  <1>7. PICK k \in 0..Len(ls) : job.rest = SubSeq(ls, k + 1, Len(ls)) /\ Copied(SubSeq(ls, 1, k))
    BY <1>4 DEF CopyOf
  <1>8. /\ k + 1 \in 0..Len(ls) /\ Tail(job.rest) = SubSeq(ls, k + 1 + 1, Len(ls))
        /\ v(k + 1) = [v(k) EXCEPT ![l.name] = l.val]
    BY <1>1, <1>5, <1>7, OneCopied
  <1> HIDE DEF l
  <1>9. /\ job'.at = "copy" /\ job'.rest = Tail(job.rest)
        /\ UNCHANGED <<job.name, job.val, job.add>>
        /\ job'.found = (job.found \/ (l.name = job.name /\ job.add))
        /\ job' # Nil
    <2>1. job'.found = (job.found \/ (l.name = job.name /\ job.add)) /\ UNCHANGED <<job.name, job.val, job.add>>
      BY <1>2, <1>3 DEF Job
    <2>2. job'.at = "copy" /\ job'.rest = Tail(job.rest)
      BY <1>2, <1>3 DEF Job
    <2>3. job' \in Job
      <3>1. Tail(job.rest) \in Seq(Setting)
        BY <1>1, NextLine DEF File
      <3> QED
        BY <1>2, <1>3, <3>1 DEF Job
    <2> QED
      BY <1>2, <2>1, <2>2, <2>3
  <1>10. Values(tmp') = Changed(v(k + 1), job'.name, job'.val, job'.found)
    <2> DEFINE m == [l EXCEPT !.val = job.val]
               a == v(k)
               f == job.found
               name == job.name
    <2>1. Values(tmp) = [a EXCEPT ![name] = IF f THEN job.val ELSE Nil]
      BY <1>7 DEF Copied, Changed
    <2>2. DOMAIN a = Name /\ a = [n \in Name |-> a[n]] /\ name \in Name
      BY <1>2, OfNames DEF Job
    <2>3. /\ Values(Append(tmp, l)) = [Values(tmp) EXCEPT ![l.name] = l.val]
          /\ Values(Append(tmp, m)) = [Values(tmp) EXCEPT ![m.name] = m.val]
          /\ m.name = l.name /\ m.val = job.val /\ l.name \in Name
      BY <1>2, OneMore DEF Setting
    <2>4. v(k + 1) = [a EXCEPT ![l.name] = l.val]
      BY <1>8
    <2>5. \/ l.name # name /\ tmp' = Append(tmp, l)
          \/ l.name = name /\ job.add /\ tmp' = Append(tmp, m)
          \/ l.name = name /\ ~job.add /\ tmp' = tmp
      BY <1>3
    <2>6. job.add \in BOOLEAN /\ f \in BOOLEAN /\ (f => job.add)
      BY <1>2, <1>4 DEF Job
    <2> HIDE DEF m, a, name, f
    <2>7. CASE l.name # name
      <3>1. Values(tmp') = [n \in Name |-> IF n = l.name THEN l.val
                             ELSE IF n = name THEN (IF f THEN job.val ELSE Nil) ELSE a[n]]
        BY <2>1, <2>2, <2>3, <2>5, <2>7
      <3>2. job'.found = f /\ job'.name = name /\ job'.val = job.val
        BY <1>9, <2>6, <2>7 DEF f, name
      <3>3. Changed(v(k + 1), name, job.val, f)
              = [n \in Name |-> IF n = name THEN (IF f THEN job.val ELSE Nil)
                                ELSE IF n = l.name THEN l.val ELSE a[n]]
        BY <2>2, <2>4 DEF Changed
      <3> QED
        BY <2>7, <3>1, <3>2, <3>3
    <2>8. CASE l.name = name /\ job.add
      <3>1. Values(tmp') = [n \in Name |-> IF n = name THEN job.val ELSE a[n]]
        BY <2>1, <2>2, <2>3, <2>5, <2>8
      <3>2. job'.found = TRUE /\ job'.name = name /\ job'.val = job.val
        BY <1>9, <2>6, <2>8 DEF f, name
      <3>3. Changed(v(k + 1), name, job.val, TRUE)
              = [n \in Name |-> IF n = name THEN job.val ELSE a[n]]
        BY <2>2, <2>4, <2>8 DEF Changed
      <3> QED
        BY <3>1, <3>2, <3>3
    <2>9. CASE l.name = name /\ ~job.add
      <3>1. Values(tmp') = [n \in Name |-> IF n = name THEN Nil ELSE a[n]]
        BY <2>1, <2>2, <2>5, <2>6, <2>9
      <3>2. job'.found = FALSE /\ job'.name = name /\ job'.val = job.val
        BY <1>9, <2>6, <2>9 DEF f, name
      <3>3. Changed(v(k + 1), name, job.val, FALSE)
              = [n \in Name |-> IF n = name THEN Nil ELSE a[n]]
        BY <2>2, <2>4, <2>9 DEF Changed
      <3> QED
        BY <3>1, <3>2, <3>3
    <2> QED
      BY <2>5, <2>7, <2>8, <2>9
  <1>11. CopyOf(ls)'
    BY <1>6, <1>7, <1>8, <1>9, <1>10 DEF CopyOf, Copied
  <1> QED
    BY <1>1, <1>4, <1>6, <1>9, <1>11 DEF Idle, Changing, Before, ls

\* The end of the copy, and the line that is added if none was replaced.
LEMMA ConfAdd ==
  ASSUME StartTyped, ConfInv, CopyEnd \/ AddLine
  PROVE  ConfInv'
  <1> SUFFICES ASSUME ~excused' PROVE Idle' /\ Changing'
    BY DEF ConfInv
  <1>1. PICK x \in {"copy", "add"} :
          At(x) /\ (x = "copy" => CopyEnd) /\ (x = "add" => AddLine)
    BY DEF CopyEnd, AddLine
  <1>2. ini' = ini /\ old' = old /\ want' = want /\ Go
    BY <1>1 DEF CopyEnd, AddLine
  <1>3. /\ job \in Job /\ job # Nil /\ job.at = x /\ tmp \in File /\ Nil \notin Job
        /\ [job EXCEPT !.at = Follows[@]] \in Job
    BY <1>1, AtWork, StartAssumption
  <1>4. /\ job' # Nil /\ job'.at = Follows[x]
        /\ UNCHANGED <<job.name, job.val, job.add, job.found>>
    BY <1>2, <1>3 DEF Go, Job
  <1>5. CASE x = "copy"
    <2>1. tmp' = tmp /\ ~excused /\ job.rest = <<>>
      BY <1>1, <1>5 DEF CopyEnd
    <2>2. Before /\ (job.found => job.add) /\ CopyOf(Lines(ini))
      BY <1>3, <1>5, <2>1 DEF ConfInv, Changing
    <2> DEFINE s == Lines(ini)
    <2>3. s \in Seq(Setting) /\ Len(s) \in Nat /\ s' = s
      BY <1>2, <2>2, LinesOf DEF Before, StartTyped, File, Lines
    <2> HIDE DEF s
    <2>4. PICK k \in 0..Len(s) : SubSeq(s, k + 1, Len(s)) = <<>> /\ Copied(SubSeq(s, 1, k))
      BY <2>1, <2>2 DEF CopyOf, s
    <2>5. k = Len(s)
      <3>1. k \in Int /\ k + 1 \in Int /\ k <= Len(s)
        BY <2>3
      <3>2. \A i \in (k + 1)..Len(s) : s[i] \in Setting
        BY <2>3
      <3>3. Len(SubSeq(s, k + 1, Len(s))) = IF k + 1 <= Len(s) THEN Len(s) - (k + 1) + 1 ELSE 0
        BY <2>3, <3>1, <3>2, SubSeqProperties
      <3>4. Len(<<>>) = 0
        OBVIOUS
      <3>5. (IF k + 1 <= Len(s) THEN Len(s) - (k + 1) + 1 ELSE 0) = 0
        BY <2>4, <3>3, <3>4
      <3> QED
        BY <2>3, <3>1, <3>5
    <2>6. Copied(s)
      BY <2>3, <2>4, <2>5, SubSeqFull
    <2>7. job'.at = "add" /\ Copied(s)'
      BY <1>4, <1>5, <2>1, <2>3, <2>6 DEF Follows, Copied
    <2> QED
      BY <1>2, <1>4, <2>2, <2>7 DEF Idle, Changing, Before, s
  <1>6. CASE x = "add"
    <2> DEFINE a == Values(Lines(ini))
               l == [name |-> job.name, val |-> job.val]
    <2>1. l \in Setting
      BY <1>3 DEF Setting, Job
    <2>2. /\ ~excused
          /\ tmp' = IF job.add /\ ~job.found THEN Append(tmp, l) ELSE tmp
      BY <1>1, <1>3, <1>6, <2>1, Writes DEF AddLine
    <2>3. Before /\ (job.found => job.add) /\ Copied(Lines(ini))
      BY <1>3, <1>6, <2>2 DEF ConfInv, Changing
    <2>4. /\ want = [a EXCEPT ![job.name] = IF job.add THEN job.val ELSE Nil]
          /\ Values(tmp) = [a EXCEPT ![job.name] = IF job.found THEN job.val ELSE Nil]
      BY <2>3 DEF Before, Settings, Changed, Copied
    <2>5. Values(Append(tmp, l)) = [Values(tmp) EXCEPT ![job.name] = job.val]
      BY <1>3, <2>1, OneMore
    <2> HIDE DEF a
    <2>6. Values(tmp') = want
      BY <2>2, <2>3, <2>4, <2>5
    <2>7. job'.at = "remove"
      BY <1>4, <1>6 DEF Follows
    <2> QED
      BY <1>2, <1>4, <2>3, <2>6, <2>7 DEF Idle, Changing, Before
  <1> QED
    BY <1>1, <1>5, <1>6

\* The old file goes when the new one is whole, and the new one takes its name.
LEMMA ConfReplace ==
  ASSUME StartTyped, ConfInv, RemoveIni \/ RenameTmp
  PROVE  ConfInv'
  <1> SUFFICES ASSUME ~excused' PROVE Idle' /\ Changing'
    BY DEF ConfInv
  <1>1. CASE RemoveIni
    <2>1. At("remove") /\ tmp' = tmp /\ old' = old /\ ~excused
      BY <1>1 DEF RemoveIni
    <2>2. /\ job \in Job /\ job # Nil /\ job.at = "remove" /\ tmp # Nil /\ Nil \notin Job
          /\ [job EXCEPT !.at = Follows[@]] \in Job
      BY <2>1, AtWork, StartAssumption
    <2>3. Before /\ Values(tmp) = want /\ (job.found => job.add)
      BY <2>1, <2>2 DEF ConfInv, Changing
    <2>4. CASE ini' = Nil /\ Go /\ UNCHANGED want
      <3>1. job' # Nil /\ job'.at = "rename" /\ UNCHANGED <<job.add, job.found>>
        BY <2>2, <2>4 DEF Go, Follows, Job
      <3> QED
        BY <2>1, <2>2, <2>3, <2>4, <3>1 DEF Idle, Changing
    <2>5. CASE job' = Nil /\ want' = old /\ UNCHANGED ini
      BY <2>1, <2>3, <2>5 DEF Idle, Changing, Before
    <2> QED
      BY <1>1, <2>4, <2>5 DEF RemoveIni
  <1>2. CASE RenameTmp
    <2>1. At("rename") /\ job' = Nil /\ want' = want /\ ~excused
      BY <1>2 DEF RenameTmp
    <2>2. job # Nil /\ job.at = "rename" /\ tmp \in File /\ tmp # Nil
      BY <2>1, AtWork
    <2>3. ini = Nil /\ Values(tmp) = want
      BY <2>1, <2>2 DEF ConfInv, Changing
    <2>4. CASE ini' = tmp /\ tmp' = Nil /\ old' = want
      <3>1. Fits(tmp) => Settings(tmp) = want
        BY <2>2, <2>3, LinesOf DEF Settings
      <3> QED
        BY <2>1, <2>2, <2>4, <3>1 DEF Idle, Changing
    <2>5. CASE UNCHANGED <<ini, tmp, old>>
      BY <2>1, <2>2, <2>3, <2>5 DEF Idle, Changing
    <2> QED
      BY <1>2, <2>4, <2>5 DEF RenameTmp
  <1> QED
    BY <1>1, <1>2

LEMMA ConfNext == StartTyped /\ ConfInv /\ [StartNext]_stvars => ConfInv'
  <1>1. ASSUME UNCHANGED stvars, ConfInv PROVE ConfInv'
    BY <1>1, ConfKept DEF stvars
  <1> QED
    BY <1>1, ConfSession, ConfSet, ConfOpen, ConfCopy, ConfAdd, ConfReplace DEF StartNext

\* No change of a setting loses another, wherever power is cut and whatever fails
\* to open, to go or to be renamed, for any file and any number of changes; the
\* writes succeed and the files fit into the buffer.  (configChange)
THEOREM ConfigIsSafe == StartSpec => []ConfigSafe
  <1>1. StartInit => StartTyped /\ ConfInv
    BY StartTypedInit, ConfInit
  <1>2. StartTyped /\ ConfInv /\ [StartNext]_stvars => (StartTyped /\ ConfInv)'
    BY StartTypedNext, ConfNext
  <1>3. StartTyped /\ ConfInv => ConfigSafe
    <2> SUFFICES ASSUME StartTyped, ConfInv, ~excused, Fits(ini), Fits(tmp)
                 PROVE  \/ ini # Nil /\ Settings(ini) \in {old, want}
                        \/ ini = Nil /\ tmp # Nil /\ Settings(tmp) = want
      BY DEF ConfigSafe
    <2>1. tmp # Nil => Settings(tmp) = Values(tmp)
      BY LinesOf DEF StartTyped, Settings
    <2>2. CASE job = Nil
      BY <2>1, <2>2 DEF ConfInv, Idle
    <2>3. CASE job # Nil
      <3>1. job.at \in {"tmp", "ini", "copy", "add", "remove", "rename"}
        BY <2>3 DEF StartTyped, Job
      <3> QED
        BY <2>1, <2>3, <3>1 DEF ConfInv, Changing, Before, StartTyped
    <2> QED
      BY <2>2, <2>3
  <1> QED
    BY <1>1, <1>2, <1>3, PTL DEF StartSpec
-----------------------------------------------------------------------------
(* kill.                                                                    *)

\* The types that matter here.
ObjectsTyped ==
  /\ module \in [Module -> {"none", "loaded", "started", "stopped"}]
  /\ kill # None => kill \in [mod : Module, at : {"stop", "list", "end"}, thids : SUBSET ThreadId]

\* Unless it was disturbed, the list of kill still names every thread of the module.
NoneMissed ==
  kill # None /\ kill.at = "end" /\ ~torn => InModule(kill.mod) \subseteq kill.thids

\* The commands of the prompt leave kill alone; none is under way.
LEMMA OnlyAtPrompt ==
  ASSUME \/ thread_do_cmd \/ thcreat_cmd \/ flag_cmd
         \/ thmon_cmd \/ thmonoff_cmd \/ thevdel_cmd
         \/ modload_cmd \/ modstart_cmd \/ ldstart_cmd \/ modstop_cmd \/ modunld_cmd \/ modstun_cmd
  PROVE  kill = None /\ kill' = None
  BY DEF AtPrompt, thread_do_cmd, thcreat_cmd, flag_cmd, thmon_cmd, thmonoff_cmd, thevdel_cmd,
         modload_cmd, modstart_cmd, ldstart_cmd, modstop_cmd, modunld_cmd, modstun_cmd

\* A list that was not cut holds every thread of the module.
LEMMA ListIsFull ==
  ASSUME NEW m, NEW T \in Listed(m), ~Cut
  PROVE  T = InModule(m)
  <1>1. PICK R \in SUBSET Exists :
          /\ T = R \cap InModule(m)
          /\ R = Exists \/ Cardinality(R) = MaxListed
    BY DEF Listed
  <1>2. IsFiniteSet(Exists)
    BY ObjectsAssumption, FS_Subset DEF Exists
  <1>3. Cardinality(Exists) \in Nat /\ Cardinality(R) \in Nat /\ Cardinality(R) <= Cardinality(Exists)
    BY <1>2, FS_Subset, FS_CardinalityType
  <1>4. Cardinality(Exists) <= MaxListed
    BY <1>3, ObjectsAssumption DEF Cut
  <1>5. R = Exists
    BY <1>1, <1>2, <1>3, <1>4, FS_Subset, ObjectsAssumption
  <1> QED
    BY <1>1, <1>5 DEF InModule

\* Types are kept.
LEMMA ObjectsTypedNext ==
  ASSUME ObjectsTyped, [ObjectsNext]_obvars
  PROVE  ObjectsTyped'
  <1> DEFINE States == {"none", "loaded", "started", "stopped"}
             Kills == [mod : Module, at : {"stop", "list", "end"}, thids : SUBSET ThreadId]
  <1>1. module' \in [Module -> States]
    <2>1. CASE UNCHANGED module
      BY <2>1 DEF ObjectsTyped
    <2>2. ASSUME NEW m, NEW st \in States, module' = [module EXCEPT ![m] = st]
          PROVE  module' \in [Module -> States]
      BY <2>2 DEF ObjectsTyped
    <2>3. CASE modload_cmd \/ modstart_cmd \/ ldstart_cmd \/ modstop_cmd \/ modunld_cmd \/ modstun_cmd
      BY <2>1, <2>2, <2>3 DEF modload_cmd, modstart_cmd, ldstart_cmd, modstop_cmd, modunld_cmd,
         modstun_cmd, Started, Stopped
    <2>4. CASE KillStop
      BY <2>1, <2>2, <2>4 DEF KillStop, Stopped
    <2>5. CASE KillEnd
      BY <2>1, <2>2, <2>5 DEF KillEnd
    <2> QED
      BY <2>1, <2>3, <2>4, <2>5 DEF ObjectsNext, obvars, ProgramStep, thread_do_cmd, thcreat_cmd,
         flag_cmd, thmon_cmd, thmonoff_cmd, thevdel_cmd, KillStart, KillList, KillThread
  <1>2. kill' # None => kill' \in Kills
    <2>1. CASE kill' = kill \/ kill' = None
      BY <2>1 DEF ObjectsTyped
    <2>2. CASE KillStart
      BY <2>2 DEF KillStart
    <2>3. CASE KillStop /\ kill' # None
      BY <2>3 DEF KillStop, ObjectsTyped
    <2>4. CASE KillList
      <3>1. PICK T \in Listed(kill.mod) : kill' = [kill EXCEPT !.at = "end", !.thids = T]
        BY <2>4 DEF KillList
      <3>2. T \in SUBSET ThreadId
        BY DEF Listed, InModule, Exists
      <3> QED
        BY <2>4, <3>1, <3>2 DEF KillList, ObjectsTyped
    <2>5. CASE KillThread
      BY <2>5 DEF KillThread, ObjectsTyped
    <2> QED
      BY <2>1, <2>2, <2>3, <2>4, <2>5, OnlyAtPrompt DEF ObjectsNext, obvars, ProgramStep, KillEnd
  <1> QED
    BY <1>1, <1>2 DEF ObjectsTyped

\* Only the threads of the programs can add a thread that the list does not name,
\* and they tear it.
LEMMA NoneMissedNext ==
  ASSUME ObjectsTyped, NoneMissed, [ObjectsNext]_obvars
  PROVE  NoneMissed'
  <1>1. CASE UNCHANGED obvars
    BY <1>1 DEF obvars, NoneMissed, InModule, Exists
  <1>2. CASE ProgramStep
    BY <1>2 DEF ProgramStep, NoneMissed
  <1>3. CASE kill' = None
    BY <1>3 DEF NoneMissed
  <1>4. CASE KillStart
    BY <1>4 DEF KillStart, NoneMissed
  <1>5. CASE KillStop /\ kill' # None
    BY <1>5 DEF KillStop, NoneMissed, ObjectsTyped
  <1>6. CASE KillList
    <2>1. PICK T \in Listed(kill.mod) : kill' = [kill EXCEPT !.at = "end", !.thids = T]
      BY <1>6 DEF KillList
    <2>2. kill'.mod = kill.mod /\ kill'.thids = T /\ torn' = Cut /\ UNCHANGED thread
      BY <1>6, <2>1 DEF KillList, ObjectsTyped
    <2>3. ~torn' => T = InModule(kill.mod)
      BY <2>2, ListIsFull
    <2> QED
      BY <2>2, <2>3 DEF NoneMissed, InModule, Exists
  <1>7. CASE KillThread
    <2>1. PICK t \in kill.thids : thread' = Removed({t}) /\ kill' = [kill EXCEPT !.thids = @ \ {t}]
      BY <1>7 DEF KillThread
    <2>2. kill'.mod = kill.mod /\ kill'.thids = kill.thids \ {t} /\ torn' = torn
      BY <1>7, <2>1 DEF KillThread, ObjectsTyped
    <2>3. ASSUME NEW u \in InModule(kill.mod)', kill'.mod = kill.mod
          PROVE  u \in InModule(kill.mod) /\ u # t
      BY <2>1, <2>3 DEF InModule, Exists, Removed, NoThread
    <2> QED
      BY <1>7, <2>2, <2>3 DEF NoneMissed, KillThread
  <1> QED
    BY <1>1, <1>2, <1>3, <1>4, <1>5, <1>6, <1>7, OnlyAtPrompt DEF ObjectsNext, KillEnd

\* kill leaves no thread in the memory of the module it unloads, for any modules,
\* threads, list length and number of commands, unless a monitor let other threads
\* run after the list, or the list was too short.  (kill_cmd, line 1641)
THEOREM KillIsComplete == ObjectsSpec => KillComplete
  <1> DEFINE Inv == ObjectsTyped /\ NoneMissed
  <1>1. ObjectsInit => Inv
    BY DEF ObjectsInit, ObjectsTyped, NoneMissed
  <1>2. Inv /\ [ObjectsNext]_obvars => Inv'
    BY ObjectsTypedNext, NoneMissedNext
  <1>3. ASSUME Inv, [ObjectsNext]_obvars,
               kill # None, kill' = None, module[kill.mod] # "none", module'[kill.mod] = "none", ~torn
        PROVE  InModule(kill.mod) = {}
    <2>1. CASE KillEnd
      BY <1>3, <2>1 DEF KillEnd, NoneMissed
    <2>2. CASE KillStop
      BY <1>3, <2>2 DEF KillStop, Stopped, ObjectsTyped
    <2>3. CASE UNCHANGED module
      BY <1>3, <2>3
    <2> QED
      BY <1>3, <2>1, <2>2, <2>3, OnlyAtPrompt DEF ObjectsNext, obvars, ProgramStep, KillStart, KillList, KillThread
  <1> QED
    BY <1>1, <1>2, <1>3, PTL DEF ObjectsSpec, KillComplete

-----------------------------------------------------------------------------
(* The packets.                                                             *)

Cmds == {"query", "run", "detach", "reset"}
ToServer == [n : Nat, cmd : Cmds \cup {"+", "-", "break"}, ok : BOOLEAN]
ToGdb == [n : Nat, cmd : {"answer", "+", "-"}, ok : BOOLEAN]

PacketsTyped ==
  /\ in \in Seq(ToServer) /\ out \in Seq(ToGdb)
  /\ stub \in [pc : {"get", "ack", "poll", "end"}, n : Nat, copies : Nat, then : {"get", "end"}]
  /\ gdb \in [st : {"idle", "sent", "answer", "over"}, n : Nat, cmd : Cmds \cup {"none"}, took : Nat]
  /\ ran \in Seq(Nat) /\ damage \in Nat /\ keys \in Nat

\* The command that GDB has sent is on its way, or was run.
OnWay == Len(ran) < gdb.n
Asks == gdb.st \in {"sent", "answer"}

RanInOrder ==
  /\ ran = [i \in 1..Len(ran) |-> i]
  /\ Len(ran) = gdb.n \/ (gdb.st = "sent" /\ Len(ran) + 1 = gdb.n)
  /\ gdb.st \in {"idle", "over"} => gdb.took = gdb.n
  /\ gdb.st = "sent" => gdb.n > 0 /\ gdb.cmd \in Cmds
  /\ stub.pc \in {"ack", "poll"} => stub.n = Len(ran) /\ Len(ran) > 0
  /\ stub.pc = "poll" => ~OnWay /\ Asks
  /\ gdb.st = "answer" => gdb.n > 0

\* Nothing else but the command that is on its way is a packet to the server;
\* before it comes the acknowledge that the server waits for.
OneCommandComes ==
  /\ \A i \in 1..Len(in) : IsPacket(in[i]) =>
       /\ gdb.st = "sent" /\ OnWay
       /\ in[i].n = gdb.n /\ in[i].cmd = gdb.cmd
       /\ \A j \in 1..Len(in) : IsPacket(in[j]) => j = i
       /\ \A j \in 1..Len(out) : IsPacket(out[j])
       /\ stub.pc = "ack" => \E j \in 1..(i - 1) : in[j].cmd = "+"
  /\ \A i \in 1..Len(in) : ~IsPacket(in[i]) => in[i].cmd \notin Cmds
  /\ stub.pc = "ack" /\ gdb.st = "idle" => \E i \in 1..Len(in) : in[i].cmd = "+"

\* The answers that come are of the last command, behind its acknowledge, and
\* before that copies of the answer before.
OutInOrder ==
  /\ \A i \in 1..Len(out) : IsPacket(out[i]) => out[i].cmd = "answer"
  /\ gdb.st # "sent" => \A i \in 1..Len(out) : out[i].n = gdb.n /\ IsPacket(out[i])
  /\ gdb.st = "sent" /\ OnWay =>
       \A i \in 1..Len(out) :
         /\ IsPacket(out[i]) => out[i].n = Len(ran)
         /\ ~IsPacket(out[i]) =>
              /\ out[i].cmd = "-" /\ stub.pc # "ack"
              /\ \A j \in 1..Len(out) : ~IsPacket(out[j]) => j = i
  /\ gdb.st = "sent" /\ ~OnWay =>
       \E j \in 1..Len(out) :
         /\ ~IsPacket(out[j]) /\ out[j].cmd = "+"
         /\ \A i \in 1..(j - 1) : IsPacket(out[i]) /\ out[i].n < gdb.n
         /\ \A i \in (j + 1)..Len(out) : IsPacket(out[i]) /\ out[i].n = gdb.n

\* The command or its refusal.
NotForgotten ==
  gdb.st = "sent" /\ OnWay =>
    (\E i \in 1..Len(in) : IsPacket(in[i])) \/ (\E i \in 1..Len(out) : ~IsPacket(out[i]))

\* While the server waits for the acknowledge of an answer, there is a copy of it or
\* a character for the server.
Answering == Asks /\ ~OnWay
AckComes ==
  stub.pc = "ack" /\ Answering => in # <<>> \/ \E i \in 1..Len(out) : out[i].n = gdb.n

\* The program that runs is what the command let run, and has not answered it.
NoAnswerYet == stub.pc = "poll" => \A i \in 1..Len(out) : out[i].n < gdb.n

GoodAnswer == \E i \in 1..Len(out) : out[i].n = gdb.n /\ out[i].ok
Undamaged ==
  damage = 0 =>
    /\ \A i \in 1..Len(out) : out[i].ok
    /\ Answering /\ stub.pc \in {"ack", "get"} => GoodAnswer

Answer(ok) == [n |-> gdb.n, cmd |-> "answer", ok |-> ok]

\* Without damage or break keys there is one copy of everything.
InStep ==
  damage = 0 /\ keys = 0 =>
    /\ gdb.st \in {"idle", "over"} => out = <<>> /\ in = IF stub.pc = "ack" THEN <<Char("+")>> ELSE <<>>
    /\ gdb.st = "sent" /\ OnWay =>
         /\ out = <<>>
         /\ in = IF stub.pc = "ack" THEN <<Char("+"), Packet(gdb.n, gdb.cmd)>> ELSE <<Packet(gdb.n, gdb.cmd)>>
    /\ gdb.st = "sent" /\ ~OnWay =>
         in = <<>> /\ out = IF stub.pc = "ack" THEN <<Char("+"), Answer(TRUE)>> ELSE <<Char("+")>>
    /\ gdb.st = "answer" => in = <<>> /\ out = IF stub.pc = "ack" THEN <<Answer(TRUE)>> ELSE <<>>
    /\ Answering => stub.pc # "get"

\* One damaged answer is the only one, until it is refused.
OneDamage ==
  damage = 1 /\ keys = 0 /\ Answering /\ stub.pc \in {"ack", "get"} =>
    \/ GoodAnswer
    \/ stub.pc = "ack" /\ in = <<>> /\ out \in {<<Char("+"), Answer(FALSE)>>, <<Answer(FALSE)>>}
    \/ stub.pc = "ack" /\ in = <<Char("-")>> /\ out = <<>> /\ gdb.st = "answer"

PacketsInv ==
  /\ PacketsTyped /\ RanInOrder /\ OneCommandComes /\ OutInOrder /\ NotForgotten
  /\ AckComes /\ NoAnswerYet /\ Undamaged /\ InStep /\ OneDamage

USE DEF IsPacket, Cmds, OnWay, Asks, Answering

\* At first nothing is on its way.
LEMMA PacketsInvInit ==
  ASSUME PacketsInit
  PROVE  PacketsInv
  BY DEF Char, Packet, ToServer, ToGdb, PacketsInit, PacketsInv, PacketsTyped, RanInOrder, OneCommandComes, OutInOrder, NotForgotten,
     AckComes, NoAnswerYet, Undamaged, InStep, OneDamage

\* The first character is gone.
LEMMA FirstGone ==
  ASSUME NEW S, NEW s \in Seq(S), s # <<>>
  PROVE  /\ Tail(s) \in Seq(S) /\ Len(Tail(s)) = Len(s) - 1 /\ Len(s) > 0 /\ Head(s) = s[1]
         /\ Len(s) \in Nat
         /\ \A i \in 1..Len(Tail(s)) : Tail(s)[i] = s[i + 1] /\ i + 1 \in 1..Len(s) /\ i + 1 # 1
         /\ \A i \in 1..Len(s) : i # 1 => s[i] = Tail(s)[i - 1] /\ i - 1 \in 1..Len(Tail(s))
  BY HeadTailProperties, LenProperties, EmptySeq

\* One item behind.
Behind(s, x) == Append(s, x)

LEMMA OneBehind ==
  ASSUME NEW S, NEW s \in Seq(S), NEW x \in S
  PROVE  LET t == Behind(s, x)
         IN  /\ t \in Seq(S) /\ Len(t) = Len(s) + 1 /\ t # <<>>
             /\ \A i \in 1..Len(s) : i \in 1..Len(t) /\ t[i] = s[i]
             /\ \A i \in 1..Len(t) : (i \in 1..Len(s) /\ t[i] = s[i]) \/ (i = Len(s) + 1 /\ t[i] = x)
             /\ Len(s) + 1 \in 1..Len(t) /\ t[Len(s) + 1] = x
  <1> DEFINE t == Behind(s, x)
  <1>1. t \in Seq(S) /\ Len(t) = Len(s) + 1 /\ Len(s) \in Nat /\ t # <<>>
        /\ (\A i \in 1..Len(s) : t[i] = s[i]) /\ t[Len(s) + 1] = x
    BY AppendProperties, LenProperties DEF Behind
  <1> HIDE DEF t
  <1>2. /\ \A i \in 1..Len(s) : i \in 1..Len(t)
        /\ \A i \in 1..Len(t) : i \in 1..Len(s) \/ i = Len(s) + 1
        /\ Len(s) + 1 \in 1..Len(t)
    BY <1>1
  <1>3. /\ t \in Seq(S) /\ Len(t) = Len(s) + 1 /\ t # <<>>
        /\ \A i \in 1..Len(s) : i \in 1..Len(t) /\ t[i] = s[i]
        /\ \A i \in 1..Len(t) : (i \in 1..Len(s) /\ t[i] = s[i]) \/ (i = Len(s) + 1 /\ t[i] = x)
        /\ Len(s) + 1 \in 1..Len(t) /\ t[Len(s) + 1] = x
    BY <1>1, <1>2
  <1> QED
    BY <1>3 DEF t

\* Copies of an answer behind.
WithCopies(s, n, count) == s \o Copies(n, count)

LEMMA CopiesBehind ==
  ASSUME NEW s \in Seq(ToGdb), NEW n \in Nat, NEW count \in Nat
  PROVE  LET t == WithCopies(s, n, count)
         IN  /\ t \in Seq(ToGdb) /\ Len(t) = Len(s) + count /\ Len(s) \in Nat
             /\ \A i \in 1..Len(s) : i \in 1..Len(t) /\ t[i] = s[i]
             /\ \A i \in 1..Len(t) : (i \in 1..Len(s) /\ t[i] = s[i]) \/ (i > Len(s) /\ t[i] = Packet(n, "answer"))
             /\ count > 0 => Len(s) + 1 \in 1..Len(t) /\ t[Len(s) + 1] = Packet(n, "answer")
  <1> DEFINE c == [i \in 1..count |-> Packet(n, "answer")]
  <1>1. c \in [1..count -> ToGdb]
    BY DEF Packet, ToGdb
  <1>2. c \in Seq(ToGdb) /\ Len(c) = count
    BY <1>1, SeqDef
  <1>3. \A i \in 1..count : c[i] = Packet(n, "answer")
    OBVIOUS
  <1>4. Copies(n, count) = c
    BY DEF Copies
  <1> HIDE DEF c
  <1>5. s \o c \in Seq(ToGdb) /\ Len(s \o c) = Len(s) + count /\ Len(s) \in Nat
    BY <1>2, ConcatProperties, LenProperties
  <1>6. \A i \in 1..Len(s) : (s \o c)[i] = s[i]
    BY <1>2, ConcatProperties
  <1>7. \A i \in (Len(s) + 1)..(Len(s) + Len(c)) : (s \o c)[i] = c[i - Len(s)]
    BY <1>2, ConcatProperties, LenProperties
  <1>8. \A i \in (Len(s) + 1)..(Len(s) + count) : (s \o c)[i] = Packet(n, "answer")
    <2> SUFFICES ASSUME NEW i \in (Len(s) + 1)..(Len(s) + count) PROVE (s \o c)[i] = Packet(n, "answer")
      OBVIOUS
    <2>1. i - Len(s) \in 1..count /\ i \in (Len(s) + 1)..(Len(s) + Len(c))
      BY <1>5, <1>2
    <2> QED
      BY <2>1, <1>3, <1>7
  <1> DEFINE t == WithCopies(s, n, count)
  <1>9. t = s \o c
    BY <1>4 DEF WithCopies
  <1> HIDE DEF t
  <1>a. t \in Seq(ToGdb) /\ Len(t) = Len(s) + count
    BY <1>5, <1>9
  <1>b. \A i \in 1..Len(s) : t[i] = s[i]
    BY <1>6, <1>9
  <1>c. \A i \in (Len(s) + 1)..(Len(s) + count) : t[i] = Packet(n, "answer")
    BY <1>8, <1>9
  <1>d. \A i \in 1..Len(s) : i \in 1..Len(t)
    BY <1>a, <1>5
  <1>e. \A i \in 1..Len(t) : i \in 1..Len(s) \/ (i > Len(s) /\ i \in (Len(s) + 1)..(Len(s) + count))
    BY <1>a, <1>5
  <1>f. count > 0 => Len(s) + 1 \in 1..Len(t) /\ Len(s) + 1 \in (Len(s) + 1)..(Len(s) + count)
    BY <1>a, <1>5
  <1>g. /\ \A i \in 1..Len(s) : i \in 1..Len(t) /\ t[i] = s[i]
        /\ \A i \in 1..Len(t) : (i \in 1..Len(s) /\ t[i] = s[i]) \/ (i > Len(s) /\ t[i] = Packet(n, "answer"))
        /\ count > 0 => Len(s) + 1 \in 1..Len(t) /\ t[Len(s) + 1] = Packet(n, "answer")
    BY <1>b, <1>c, <1>d, <1>e, <1>f
  <1> QED
    BY <1>5, <1>a, <1>g DEF t

\* What is in a packet and in a character.
LEMMA PacketIs ==
  /\ \A n, c : Packet(n, c).n = n /\ Packet(n, c).cmd = c /\ Packet(n, c).ok = TRUE
  /\ \A c : Char(c).n = 0 /\ Char(c).cmd = c /\ Char(c).ok = TRUE
  BY DEF Packet, Char

\* Where they belong.
LEMMA PacketTyped ==
  ASSUME NEW n \in Nat
  PROVE  /\ Packet(n, "answer") \in ToGdb
         /\ \A c \in Cmds : Packet(n, c) \in ToServer
         /\ \A c \in {"+", "-"} : Char(c) \in ToGdb
         /\ \A c \in {"+", "-", "break"} : Char(c) \in ToServer
  BY DEF Packet, Char, ToServer, ToGdb

\* What is left when the first of one or two is gone.
LEMMA RestOf ==
  ASSUME NEW x, NEW y
  PROVE  Tail(<<x>>) = <<>> /\ Tail(<<x, y>>) = <<y>>
  OBVIOUS

\* What the types say of the parts.
LEMMA Parts ==
  ASSUME PacketsTyped
  PROVE  /\ stub.pc \in {"get", "ack", "poll", "end"} /\ stub.n \in Nat /\ stub.copies \in Nat
         /\ stub.then \in {"get", "end"}
         /\ gdb.st \in {"idle", "sent", "answer", "over"} /\ gdb.n \in Nat /\ gdb.took \in Nat
         /\ gdb.cmd \in Cmds \cup {"none"}
         /\ Len(in) \in Nat /\ Len(out) \in Nat /\ Len(ran) \in Nat /\ damage \in Nat /\ keys \in Nat
         /\ \A i \in 1..Len(in) : in[i] \in ToServer /\ in[i].n \in Nat
         /\ \A i \in 1..Len(out) : out[i] \in ToGdb /\ out[i].n \in Nat /\ out[i].cmd \in {"answer", "+", "-"} /\ out[i].ok \in BOOLEAN
  <1>1. in \in Seq(ToServer) /\ out \in Seq(ToGdb) /\ ran \in Seq(Nat) /\ damage \in Nat /\ keys \in Nat
    BY DEF PacketsTyped
  <1>a. /\ Len(in) \in Nat /\ Len(out) \in Nat /\ Len(ran) \in Nat
        /\ \A i \in 1..Len(in) : in[i] \in ToServer
        /\ \A i \in 1..Len(out) : out[i] \in ToGdb
    BY <1>1, ElementOfSeq, LenProperties
  <1>b. /\ \A x \in ToServer : x.n \in Nat
        /\ \A x \in ToGdb : x.n \in Nat /\ x.cmd \in {"answer", "+", "-"} /\ x.ok \in BOOLEAN
    BY DEF ToServer, ToGdb
  <1>2. /\ Len(in) \in Nat /\ Len(out) \in Nat /\ Len(ran) \in Nat
        /\ \A i \in 1..Len(in) : in[i] \in ToServer /\ in[i].n \in Nat
        /\ \A i \in 1..Len(out) : out[i] \in ToGdb /\ out[i].n \in Nat /\ out[i].cmd \in {"answer", "+", "-"} /\ out[i].ok \in BOOLEAN
    BY <1>a, <1>b
  <1>3. stub \in [pc : {"get", "ack", "poll", "end"}, n : Nat, copies : Nat, then : {"get", "end"}]
    BY DEF PacketsTyped
  <1>4. gdb \in [st : {"idle", "sent", "answer", "over"}, n : Nat, cmd : Cmds \cup {"none"}, took : Nat]
    BY DEF PacketsTyped
  <1>5. /\ stub.pc \in {"get", "ack", "poll", "end"} /\ stub.n \in Nat /\ stub.copies \in Nat
        /\ stub.then \in {"get", "end"}
    BY <1>3
  <1>6. /\ gdb.st \in {"idle", "sent", "answer", "over"} /\ gdb.n \in Nat /\ gdb.took \in Nat
        /\ gdb.cmd \in Cmds \cup {"none"}
    BY <1>4
  <1> QED
    BY <1>1, <1>2, <1>5, <1>6

\* putpacket: an acknowledge ends the loop, anything else brings further copies
\* of the same answer.
LEMMA putpacketKeeps ==
  ASSUME PacketsInv, putpacket
  PROVE  PacketsInv'
  <1>t. PacketsTyped /\ RanInOrder /\ OneCommandComes /\ OutInOrder /\ NotForgotten /\ AckComes /\ NoAnswerYet /\ Undamaged /\ InStep /\ OneDamage
    BY DEF PacketsInv
  <1>p. /\ stub.pc \in {"get", "ack", "poll", "end"} /\ stub.n \in Nat /\ stub.copies \in Nat
        /\ stub.then \in {"get", "end"}
        /\ gdb.st \in {"idle", "sent", "answer", "over"} /\ gdb.n \in Nat
        /\ Len(in) \in Nat /\ Len(out) \in Nat /\ Len(ran) \in Nat
        /\ \A i \in 1..Len(in) : in[i].n \in Nat
        /\ \A i \in 1..Len(out) : out[i].n \in Nat
    BY <1>t, Parts
  <1>0. stub.pc = "ack" /\ in # <<>> /\ in' = Tail(in) /\ gdb' = gdb /\ ran' = ran /\ damage' = damage /\ keys' = keys
    BY DEF putpacket
  <1>1. /\ in' \in Seq(ToServer) /\ Len(in') = Len(in) - 1 /\ Len(in) > 0 /\ Head(in) = in[1] /\ Len(in) \in Nat
        /\ \A i \in 1..Len(in') : in'[i] = in[i + 1] /\ i + 1 \in 1..Len(in) /\ i + 1 # 1
        /\ \A i \in 1..Len(in) : i # 1 => in[i] = in'[i - 1] /\ i - 1 \in 1..Len(in')
    BY <1>0, <1>t, FirstGone DEF PacketsTyped
  <1>2. CASE Acknowledged(Head(in))
    <2>1. stub' = [stub EXCEPT !.pc = stub.then] /\ out' = out
      BY <1>2, <1>0 DEF putpacket
    <2>2. stub'.pc \in {"get", "end"} /\ in[1].cmd = "+" /\ stub'.n = stub.n
      BY <1>1, <1>2, <2>1, <1>p DEF Acknowledged
    <2>22. ~IsPacket(in[1])
      BY <1>1, <1>t, <2>2, <1>p DEF OneCommandComes, RanInOrder
    <2>3. PacketsTyped'
      BY <1>0, <1>1, <2>1, <1>t DEF PacketsTyped
    <2>4. RanInOrder'
      BY <1>0, <2>2, <1>t DEF RanInOrder
    <2>5. OneCommandComes'
      BY <1>0, <1>1, <2>1, <2>2, <1>t DEF OneCommandComes
    <2>6. OutInOrder'
      BY <1>0, <2>1, <2>2, <1>t DEF OutInOrder
    <2>7. NotForgotten'
      <3>1. \A i \in 1..Len(in) : IsPacket(in[i]) => \E j \in 1..Len(in') : IsPacket(in'[j])
        BY <1>1, <2>22
      <3> QED
        BY <1>0, <2>1, <3>1, <1>t DEF NotForgotten
    <2>8. AckComes'
      BY <2>2 DEF AckComes
    <2>9. Undamaged'
      BY <1>0, <2>1, <2>2, <1>t DEF Undamaged, GoodAnswer
    <2>10. InStep'
      <3>1. ASSUME in = <<Char("+")>> PROVE in' = <<>>
        BY <1>0, <3>1
      <3>2. ASSUME in = <<Char("+"), Packet(gdb.n, gdb.cmd)>> PROVE in' = <<Packet(gdb.n, gdb.cmd)>>
        BY <1>0, <3>2
      <3> QED
        BY <1>0, <2>1, <2>2, <3>1, <3>2, <1>t, <1>p DEF InStep
    <2>11. OneDamage'
      <3>1. in = <<Char("-")>> => in[1].cmd = "-"
        <4>1. in = <<Char("-")>> => in[1] = Char("-")
          OBVIOUS
        <4>2. Char("-").cmd = "-"
          BY DEF Char
        <4> QED
          BY <4>1, <4>2, Zenon
      <3> QED
        BY <1>0, <1>1, <2>1, <2>2, <3>1, <1>t DEF OneDamage, GoodAnswer, Answer
    <2>12. NoAnswerYet'
      BY <2>2 DEF NoAnswerYet
    <2> QED
      BY <2>12, <2>3, <2>4, <2>5, <2>6, <2>7, <2>8, <2>9, <2>10, <2>11 DEF PacketsInv
  <1>3. CASE ~Acknowledged(Head(in))
    <2>1. stub' = [stub EXCEPT !.copies = @ + 1] /\ out' = out \o Copies(stub.n, stub.copies + 1)
      BY <1>3, <1>0 DEF putpacket
    <2>2. stub'.pc = "ack" /\ stub'.n = stub.n /\ stub.n = Len(ran) /\ Len(ran) <= gdb.n
      BY <1>0, <2>1, <1>p, <1>t DEF RanInOrder
    <2>o. out \in Seq(ToGdb) /\ stub.copies + 1 \in Nat /\ stub.copies + 1 > 0
      BY <1>t, <1>p DEF PacketsTyped
    <2>3. /\ out' \in Seq(ToGdb)
          /\ \A i \in 1..Len(out) : i \in 1..Len(out') /\ out'[i] = out[i]
          /\ \A i \in 1..Len(out') : (i \in 1..Len(out) /\ out'[i] = out[i]) \/ (i > Len(out) /\ out'[i] = Packet(Len(ran), "answer"))
          /\ Len(out) + 1 \in 1..Len(out') /\ out'[Len(out) + 1] = Packet(Len(ran), "answer")
      <3>1. out' = WithCopies(out, stub.n, stub.copies + 1)
        BY <2>1 DEF WithCopies
      <3>2. PICK n, count : n = stub.n /\ count = stub.copies + 1 /\ n \in Nat /\ count \in Nat /\ count > 0
        BY <2>o, <1>p
      <3>3. LET t == WithCopies(out, n, count)
            IN  /\ t \in Seq(ToGdb)
                /\ \A i \in 1..Len(out) : i \in 1..Len(t) /\ t[i] = out[i]
                /\ \A i \in 1..Len(t) : (i \in 1..Len(out) /\ t[i] = out[i]) \/ (i > Len(out) /\ t[i] = Packet(n, "answer"))
                /\ Len(out) + 1 \in 1..Len(t) /\ t[Len(out) + 1] = Packet(n, "answer")
        BY <3>2, <2>o, CopiesBehind
      <3>4. out' = WithCopies(out, n, count) /\ n = Len(ran)
        BY <3>1, <3>2, <2>2, Zenon
      <3> QED
        BY <3>3, <3>4, Zenon
    <2>4. in[1].cmd # "+"
      BY <1>1, <1>3 DEF Acknowledged
    <2>5. ~IsPacket(in[1])
      BY <1>0, <1>1, <2>4, <1>t DEF OneCommandComes
    <2>a. \A i \in 1..Len(out') : (i \in 1..Len(out) /\ out'[i] = out[i])
                \/ (i > Len(out) /\ out'[i].n = Len(ran) /\ out'[i].cmd = "answer" /\ out'[i].ok)
      BY <2>3, PacketIs
    <2>6. PacketsTyped'
      <3>1. stub' \in [pc : {"get", "ack", "poll", "end"}, n : Nat, copies : Nat, then : {"get", "end"}]
        BY <2>1, <2>o, <1>t DEF PacketsTyped
      <3> QED
        BY <1>0, <1>1, <2>3, <3>1, <1>t DEF PacketsTyped
    <2>7. RanInOrder'
      BY <1>0, <2>2, <1>t DEF RanInOrder
    <2>8. OneCommandComes'
      <3>1. ASSUME NEW i \in 1..Len(in'), IsPacket(in'[i])
            PROVE  /\ gdb.st = "sent" /\ OnWay
                   /\ in'[i].n = gdb.n /\ in'[i].cmd = gdb.cmd
                   /\ \A j \in 1..Len(in') : IsPacket(in'[j]) => j = i
                   /\ \A j \in 1..Len(out') : IsPacket(out'[j])
                   /\ \E j \in 1..(i - 1) : in'[j].cmd = "+"
        <4>1. i + 1 \in 1..Len(in) /\ in'[i] = in[i + 1] /\ IsPacket(in[i + 1])
          BY <1>1, <3>1
        <4>2. /\ gdb.st = "sent" /\ OnWay
              /\ in'[i].n = gdb.n /\ in'[i].cmd = gdb.cmd
              /\ \A j \in 1..Len(in) : IsPacket(in[j]) => j = i + 1
              /\ \A j \in 1..Len(out) : IsPacket(out[j])
              /\ \E j \in 1..i : in[j].cmd = "+"
          BY <4>1, <1>0, <1>t DEF OneCommandComes
        <4>3. PICK j \in 1..i : in[j].cmd = "+"
          BY <4>2
        <4>4. j # 1 /\ j \in 1..Len(in) /\ j - 1 \in 1..(i - 1) /\ in'[j - 1].cmd = "+"
          BY <4>3, <2>4, <1>1, <4>1
        <4>5. \A k \in 1..Len(in') : IsPacket(in'[k]) => k = i
          BY <1>1, <4>2, <4>1
        <4>6. \A k \in 1..Len(out') : IsPacket(out'[k])
          <5>1. Len(ran) > 0
            BY <1>0, <1>t DEF RanInOrder
          <5> QED
            BY <4>2, <2>a, <5>1
        <4> QED
          BY <4>2, <4>4, <4>5, <4>6
      <3>2. \A i \in 1..Len(in') : ~IsPacket(in'[i]) => in'[i].cmd \notin Cmds
        BY <1>1, <1>t DEF OneCommandComes
      <3>3. gdb.st = "idle" => \E i \in 1..Len(in') : in'[i].cmd = "+"
        BY <1>0, <1>1, <2>4, <1>t DEF OneCommandComes
      <3> QED
        BY <1>0, <3>1, <3>2, <3>3 DEF OneCommandComes
    <2>9. OutInOrder'
      <3>0. Len(ran) > 0 /\ (gdb.st # "sent" \/ ~OnWay => Len(ran) = gdb.n)
        BY <1>0, <1>t, <1>p DEF RanInOrder
      <3>1. \A i \in 1..Len(out') : IsPacket(out'[i]) => out'[i].cmd = "answer"
        BY <2>a, <1>t DEF OutInOrder
      <3>2. gdb.st # "sent" => \A i \in 1..Len(out') : out'[i].n = gdb.n /\ IsPacket(out'[i])
        BY <2>a, <3>0, <1>t DEF OutInOrder
      <3>3. gdb.st = "sent" /\ OnWay => \A i \in 1..Len(out') : out'[i].n = Len(ran) /\ IsPacket(out'[i])
        <4>1. gdb.st = "sent" /\ OnWay => \A i \in 1..Len(out) : out[i].n = Len(ran) /\ IsPacket(out[i])
          BY <1>0, <1>t DEF OutInOrder
        <4> QED
          BY <4>1, <2>a, <3>0
      <3>4. ASSUME gdb.st = "sent", ~OnWay
            PROVE  \E j \in 1..Len(out') :
                     /\ ~IsPacket(out'[j]) /\ out'[j].cmd = "+"
                     /\ \A i \in 1..(j - 1) : IsPacket(out'[i]) /\ out'[i].n < gdb.n
                     /\ \A i \in (j + 1)..Len(out') : IsPacket(out'[i]) /\ out'[i].n = gdb.n
        <4>1. PICK j \in 1..Len(out) :
                     /\ ~IsPacket(out[j]) /\ out[j].cmd = "+"
                     /\ \A i \in 1..(j - 1) : IsPacket(out[i]) /\ out[i].n < gdb.n
                     /\ \A i \in (j + 1)..Len(out) : IsPacket(out[i]) /\ out[i].n = gdb.n
          BY <3>4, <1>t DEF OutInOrder
        <4>2. \A i \in 1..(j - 1) : i \in 1..Len(out)
          BY <1>p
        <4>3. \A i \in (j + 1)..Len(out') : i \in 1..Len(out') /\ (i \in 1..Len(out) => i \in (j + 1)..Len(out))
          BY <1>p
        <4>4. \A i \in (j + 1)..Len(out') : IsPacket(out'[i]) /\ out'[i].n = gdb.n
          BY <4>1, <4>3, <2>a, <3>0, <3>4
        <4> QED
          BY <4>1, <4>2, <4>4, <2>3
      <3> QED
        BY <1>0, <3>1, <3>2, <3>3, <3>4 DEF OutInOrder
    <2>10. NotForgotten'
      <3>1. \A i \in 1..Len(in) : IsPacket(in[i]) => \E j \in 1..Len(in') : IsPacket(in'[j])
        BY <1>1, <2>5
      <3> QED
        BY <1>0, <2>3, <3>1, <1>t DEF NotForgotten
    <2>12. out'[Len(out) + 1] = Packet(Len(ran), "answer") /\ Len(out) + 1 \in 1..Len(out')
      BY <2>3, <2>2
    <2>13. ~OnWay => Len(ran) = gdb.n
      BY <2>2, <1>p
    <2>14. ~OnWay => GoodAnswer'
      BY <1>0, <2>12, <2>13, PacketIs DEF GoodAnswer
    <2>11. AckComes'
      BY <1>0, <2>14 DEF AckComes, GoodAnswer
    <2>15. Undamaged'
      BY <1>0, <2>14, <2>3, <2>a, <1>t DEF Undamaged
    <2>16. InStep'
      <3>1. in # <<Char("+")>> /\ in # <<Char("+"), Packet(gdb.n, gdb.cmd)>>
        BY <2>4, PacketIs
      <3> QED
        BY <1>0, <3>1, <1>t, <1>p DEF InStep
    <2>17. OneDamage'
      BY <1>0, <2>14 DEF OneDamage
    <2>18. NoAnswerYet'
      BY <2>2 DEF NoAnswerYet
    <2> QED
      BY <2>18, <2>6, <2>7, <2>8, <2>9, <2>10, <2>11, <2>15, <2>16, <2>17 DEF PacketsInv
  <1> QED
    BY <1>2, <1>3

\* What is no packet is passed over.
LEMMA SkipKeeps ==
  ASSUME PacketsInv, Skip
  PROVE  PacketsInv'
  <1>t. PacketsTyped /\ RanInOrder /\ OneCommandComes /\ OutInOrder /\ NotForgotten /\ AckComes /\ NoAnswerYet /\ Undamaged /\ InStep /\ OneDamage
    BY DEF PacketsInv
  <1>p. /\ stub.pc \in {"get", "ack", "poll", "end"} /\ stub.n \in Nat /\ stub.copies \in Nat
        /\ stub.then \in {"get", "end"}
        /\ gdb.st \in {"idle", "sent", "answer", "over"} /\ gdb.n \in Nat
        /\ Len(in) \in Nat /\ Len(out) \in Nat /\ Len(ran) \in Nat
        /\ \A i \in 1..Len(in) : in[i].n \in Nat
        /\ \A i \in 1..Len(out) : out[i].n \in Nat
    BY <1>t, Parts
  <1>0. stub.pc = "get" /\ in # <<>> /\ ~IsPacket(Head(in)) /\ in' = Tail(in)
        /\ out' = out /\ stub' = stub /\ gdb' = gdb /\ ran' = ran /\ damage' = damage /\ keys' = keys
    BY DEF Skip
  <1>1. /\ in' \in Seq(ToServer) /\ Len(in') = Len(in) - 1 /\ Len(in) > 0 /\ Head(in) = in[1] /\ Len(in) \in Nat
        /\ \A i \in 1..Len(in') : in'[i] = in[i + 1] /\ i + 1 \in 1..Len(in) /\ i + 1 # 1
        /\ \A i \in 1..Len(in) : i # 1 => in[i] = in'[i - 1] /\ i - 1 \in 1..Len(in')
    BY <1>0, <1>t, FirstGone DEF PacketsTyped
  <1>2. ~IsPacket(in[1])
    BY <1>0, <1>1
  <1>3. PacketsTyped'
    BY <1>0, <1>1, <1>t DEF PacketsTyped
  <1>4. RanInOrder'
    BY <1>0, <1>t DEF RanInOrder
  <1>5. OneCommandComes'
    BY <1>0, <1>1, <1>t DEF OneCommandComes
  <1>6. OutInOrder'
    BY <1>0, <1>t DEF OutInOrder
  <1>7. NotForgotten'
    <2>1. \A i \in 1..Len(in) : IsPacket(in[i]) => \E j \in 1..Len(in') : IsPacket(in'[j])
      BY <1>1, <1>2
    <2> QED
      BY <1>0, <2>1, <1>t DEF NotForgotten
  <1>8. AckComes' /\ NoAnswerYet'
    BY <1>0 DEF AckComes, NoAnswerYet
  <1>9. Undamaged'
    BY <1>0, <1>t DEF Undamaged, GoodAnswer
  <1>10. InStep'
    <2>1. ~(damage = 0 /\ keys = 0)
      <3>1. gdb.st = "sent" => in # <<Packet(gdb.n, gdb.cmd)>>
        <4>1. in = <<Packet(gdb.n, gdb.cmd)>> => in[1] = Packet(gdb.n, gdb.cmd)
          OBVIOUS
        <4>2. gdb.st = "sent" => gdb.n > 0
          BY <1>t DEF RanInOrder
        <4>3. Packet(gdb.n, gdb.cmd).n = gdb.n
          BY PacketIs
        <4> QED
          BY <1>2, <4>1, <4>2, <4>3
      <3> QED
        BY <1>0, <3>1, <1>t, <1>p DEF InStep
    <2> QED
      BY <1>0, <2>1 DEF InStep
  <1>11. OneDamage'
    BY <1>0, <1>t DEF OneDamage, GoodAnswer
  <1> QED
    BY <1>3, <1>4, <1>5, <1>6, <1>7, <1>8, <1>9, <1>10, <1>11 DEF PacketsInv

\* The refusal takes the damaged command's place.
LEMMA RefuseKeeps ==
  ASSUME PacketsInv, Refuse
  PROVE  PacketsInv'
  <1>t. PacketsTyped /\ RanInOrder /\ OneCommandComes /\ OutInOrder /\ NotForgotten /\ AckComes /\ NoAnswerYet /\ Undamaged /\ InStep /\ OneDamage
    BY DEF PacketsInv
  <1>p. /\ stub.pc \in {"get", "ack", "poll", "end"} /\ stub.n \in Nat /\ stub.copies \in Nat
        /\ stub.then \in {"get", "end"}
        /\ gdb.st \in {"idle", "sent", "answer", "over"} /\ gdb.n \in Nat
        /\ Len(in) \in Nat /\ Len(out) \in Nat /\ Len(ran) \in Nat
        /\ \A i \in 1..Len(in) : in[i].n \in Nat
        /\ \A i \in 1..Len(out) : out[i].n \in Nat
    BY <1>t, Parts
  <1>0. stub.pc = "get" /\ in # <<>> /\ IsPacket(Head(in)) /\ ~Head(in).ok /\ in' = Tail(in) /\ out' = Append(out, Char("-"))
        /\ stub' = stub /\ gdb' = gdb /\ ran' = ran /\ damage' = damage /\ keys' = keys
    BY DEF Refuse
  <1>1. /\ in' \in Seq(ToServer) /\ Len(in') = Len(in) - 1 /\ Len(in) > 0 /\ Head(in) = in[1] /\ Len(in) \in Nat
        /\ \A i \in 1..Len(in') : in'[i] = in[i + 1] /\ i + 1 \in 1..Len(in) /\ i + 1 # 1
        /\ \A i \in 1..Len(in) : i # 1 => in[i] = in'[i - 1] /\ i - 1 \in 1..Len(in')
    BY <1>0, <1>t, FirstGone DEF PacketsTyped
  <1>2. IsPacket(in[1]) /\ 1 \in 1..Len(in) /\ ~in[1].ok
    BY <1>0, <1>1
  <1>3. /\ gdb.st = "sent" /\ OnWay
        /\ \A j \in 1..Len(in) : IsPacket(in[j]) => j = 1
        /\ \A j \in 1..Len(out) : IsPacket(out[j])
    BY <1>2, <1>t DEF OneCommandComes
  <1>a. \A i \in 1..Len(in') : ~IsPacket(in'[i])
    BY <1>1, <1>3
  <1>b. Char("-") \in ToGdb /\ Char("-").n = 0 /\ Char("-").cmd = "-" /\ Char("-").ok = TRUE
    BY PacketTyped, PacketIs
  <1>o. /\ out' \in Seq(ToGdb)
        /\ \A i \in 1..Len(out) : i \in 1..Len(out') /\ out'[i] = out[i]
        /\ \A i \in 1..Len(out') : (i \in 1..Len(out) /\ out'[i] = out[i]) \/ (i = Len(out) + 1 /\ out'[i] = Char("-"))
        /\ Len(out) + 1 \in 1..Len(out') /\ out'[Len(out) + 1] = Char("-")
    <2>1. out \in Seq(ToGdb)
      BY <1>t DEF PacketsTyped
    <2>2. out' = Behind(out, Char("-"))
      BY <1>0 DEF Behind
    <2>3. PICK x \in ToGdb : x = Char("-")
      BY <1>b
    <2>4. LET t == Behind(out, x)
          IN  /\ t \in Seq(ToGdb)
              /\ \A i \in 1..Len(out) : i \in 1..Len(t) /\ t[i] = out[i]
              /\ \A i \in 1..Len(t) : (i \in 1..Len(out) /\ t[i] = out[i]) \/ (i = Len(out) + 1 /\ t[i] = x)
              /\ Len(out) + 1 \in 1..Len(t) /\ t[Len(out) + 1] = x
      BY <2>1, OneBehind
    <2> QED
      BY <2>2, <2>3, <2>4, Zenon
  <1>4. PacketsTyped'
    BY <1>0, <1>1, <1>o, <1>t DEF PacketsTyped
  <1>5. RanInOrder'
    BY <1>0, <1>t DEF RanInOrder
  <1>6. OneCommandComes'
    <2>1. \A i \in 1..Len(in') : ~IsPacket(in'[i]) => in'[i].cmd \notin Cmds
      BY <1>1, <1>t DEF OneCommandComes
    <2> QED
      BY <1>0, <1>a, <2>1 DEF OneCommandComes
  <1>7. OutInOrder'
    <2>1. \A i \in 1..Len(out') : IsPacket(out'[i]) => out'[i].cmd = "answer" /\ out'[i].n = Len(ran)
      BY <1>3, <1>o, <1>b, <1>t DEF OutInOrder
    <2>2. \A i \in 1..Len(out') : ~IsPacket(out'[i]) => out'[i].cmd = "-" /\ i = Len(out) + 1
      BY <1>3, <1>o, <1>b
    <2> QED
      BY <1>0, <1>3, <2>1, <2>2 DEF OutInOrder
  <1>8. NotForgotten'
    BY <1>o, <1>b DEF NotForgotten
  <1>9. AckComes' /\ NoAnswerYet'
    BY <1>0 DEF AckComes, NoAnswerYet
  <1>10. Undamaged'
    <2>1. damage = 0 => \A i \in 1..Len(out') : out'[i].ok
      BY <1>o, <1>b, <1>t DEF Undamaged
    <2> QED
      BY <1>0, <1>3, <2>1 DEF Undamaged
  <1>11. InStep'
    <2>1. in # <<Packet(gdb.n, gdb.cmd)>>
      <3>1. in = <<Packet(gdb.n, gdb.cmd)>> => in[1] = Packet(gdb.n, gdb.cmd)
        OBVIOUS
      <3>2. Packet(gdb.n, gdb.cmd).ok = TRUE
        BY PacketIs
      <3> QED
        BY <1>2, <3>1, <3>2
    <2> QED
      BY <1>0, <1>3, <2>1, <1>t, <1>p DEF InStep
  <1>12. OneDamage'
    BY <1>0, <1>3 DEF OneDamage
  <1> QED
    BY <1>4, <1>5, <1>6, <1>7, <1>8, <1>9, <1>10, <1>11, <1>12 DEF PacketsInv

\* One item behind another.
LEMMA TwoOf ==
  ASSUME NEW S, NEW a \in S, NEW b \in S
  PROVE  Append(<<a>>, b) = <<a, b>>
  <1> DEFINE s == Append(<<a>>, b)
             t == <<a, b>>
  <1>1. <<a>> \in Seq(S) /\ Len(<<a>>) = 1 /\ <<a>>[1] = a
    OBVIOUS
  <1>2. t \in Seq(S) /\ Len(t) = 2 /\ t[1] = a /\ t[2] = b
    OBVIOUS
  <1>3. s \in Seq(S) /\ Len(s) = 2 /\ s[1] = a /\ s[2] = b
    BY <1>1, AppendProperties
  <1> HIDE DEF s, t
  <1>4. \A i \in 1..2 : s[i] = t[i]
    BY <1>2, <1>3
  <1> QED
    BY <1>2, <1>3, <1>4, SeqEqual DEF s, t

\* What putpacket's first time through its loop sends.
LEMMA PutSends ==
  ASSUME NEW s \in Seq(ToGdb), NEW n \in Nat
  PROVE  s \o <<Char("+")>> \o Copies(n, 1) = Behind(Behind(s, Char("+")), Packet(n, "answer"))
  <1>1. Copies(n, 1) = <<Packet(n, "answer")>>
    BY DEF Copies
  <1>2. \A x : <<x>> = <<x>>
    OBVIOUS
  <1> DEFINE a == Char("+")
             b == Packet(n, "answer")
  <1>3. a \in ToGdb /\ b \in ToGdb
    BY PacketTyped
  <1> HIDE DEF a, b
  <1>4. s \o <<a>> \o <<b>> = Append(Append(s, a), b)
    BY <1>3
  <1> QED
    BY <1>1, <1>4 DEF Behind, a, b

\* The command is run; its acknowledge goes out, and its answer unless it runs on.
LEMMA ObeyKeeps ==
  ASSUME PacketsInv, Obey
  PROVE  PacketsInv'
  <1>t. PacketsTyped /\ RanInOrder /\ OneCommandComes /\ OutInOrder /\ NotForgotten /\ AckComes /\ NoAnswerYet /\ Undamaged /\ InStep /\ OneDamage
    BY DEF PacketsInv
  <1>p. /\ stub.pc \in {"get", "ack", "poll", "end"} /\ stub.n \in Nat /\ stub.copies \in Nat
        /\ stub.then \in {"get", "end"}
        /\ gdb.st \in {"idle", "sent", "answer", "over"} /\ gdb.n \in Nat
        /\ Len(in) \in Nat /\ Len(out) \in Nat /\ Len(ran) \in Nat
        /\ \A i \in 1..Len(in) : in[i].n \in Nat
        /\ \A i \in 1..Len(out) : out[i].n \in Nat
    BY <1>t, Parts
  <1>0. /\ stub.pc = "get" /\ in # <<>> /\ IsPacket(Head(in)) /\ Head(in).ok /\ in' = Tail(in)
        /\ ran' = Append(ran, Head(in).n) /\ gdb' = gdb /\ damage' = damage /\ keys' = keys
    BY DEF Obey
  <1>1. /\ in' \in Seq(ToServer) /\ Len(in') = Len(in) - 1 /\ Len(in) > 0 /\ Head(in) = in[1] /\ Len(in) \in Nat
        /\ \A i \in 1..Len(in') : in'[i] = in[i + 1] /\ i + 1 \in 1..Len(in) /\ i + 1 # 1
        /\ \A i \in 1..Len(in) : i # 1 => in[i] = in'[i - 1] /\ i - 1 \in 1..Len(in')
    BY <1>0, <1>t, FirstGone DEF PacketsTyped
  <1>2. IsPacket(in[1]) /\ 1 \in 1..Len(in)
    BY <1>0, <1>1
  <1>3. /\ gdb.st = "sent" /\ OnWay /\ in[1].n = gdb.n /\ in[1].cmd = gdb.cmd
        /\ \A j \in 1..Len(in) : IsPacket(in[j]) => j = 1
        /\ \A j \in 1..Len(out) : IsPacket(out[j])
    BY <1>2, <1>t DEF OneCommandComes
  <1>4. gdb.cmd \in Cmds /\ gdb.n = Len(ran) + 1
    BY <1>3, <1>t, <1>p DEF RanInOrder
  <1>5. ran' \in Seq(Nat) /\ ran' = [i \in 1..Len(ran') |-> i] /\ Len(ran') = gdb.n
    <2>1. ran \in Seq(Nat) /\ ran' = Append(ran, gdb.n) /\ ran = [i \in 1..Len(ran) |-> i]
      BY <1>0, <1>1, <1>3, <1>t DEF PacketsTyped, RanInOrder
    <2>2. ran' \in Seq(Nat) /\ Len(ran') = Len(ran) + 1 /\ (\A i \in 1..Len(ran) : ran'[i] = ran[i]) /\ ran'[Len(ran) + 1] = gdb.n
      BY <2>1, <1>p, AppendProperties
    <2>3. \A i \in 1..Len(ran') : ran'[i] = i
      BY <2>1, <2>2, <1>4, <1>p
    <2>4. ran' = [i \in 1..Len(ran') |-> ran'[i]]
      BY <2>2
    <2> QED
      BY <2>2, <2>3, <2>4, <1>4
  <1>a. \A i \in 1..Len(in') : ~IsPacket(in'[i]) /\ in'[i].cmd \notin Cmds
    BY <1>1, <1>3, <1>t DEF OneCommandComes
  <1>b. \A i \in 1..Len(out) : IsPacket(out[i]) /\ out[i].n = Len(ran) /\ out[i].n < gdb.n /\ out[i].cmd = "answer"
    BY <1>3, <1>4, <1>p, <1>t DEF OutInOrder
  <1>c. Char("+") \in ToGdb /\ Char("+").n = 0 /\ Char("+").cmd = "+" /\ Char("+").ok = TRUE
    BY PacketTyped, PacketIs
  <1>d. /\ Packet(gdb.n, "answer") \in ToGdb /\ Packet(gdb.n, "answer").n = gdb.n
        /\ Packet(gdb.n, "answer").cmd = "answer" /\ Packet(gdb.n, "answer").ok = TRUE
    BY <1>p, PacketTyped, PacketIs
  <1>e. damage = 0 => \A i \in 1..Len(out) : out[i].ok
    BY <1>t DEF Undamaged
  <1>f. damage = 0 /\ keys = 0 => in' = <<>> /\ out = <<>>
    <2>1. in = <<Packet(gdb.n, gdb.cmd)>> => Tail(in) = <<>>
      OBVIOUS
    <2> QED
      BY <1>0, <1>3, <2>1, <1>t DEF InStep
  <1>g. \/ /\ stub' = [pc |-> "ack", n |-> gdb.n, copies |-> 1, then |-> stub'.then] /\ stub'.then \in {"get", "end"}
           /\ out' = out \o <<Char("+")>> \o Copies(gdb.n, 1)
        \/ /\ stub' \in [pc : {"poll", "end"}, n : Nat, copies : Nat, then : {"get", "end"}]
           /\ stub'.pc = "poll" => stub'.n = gdb.n
           /\ out' = Append(out, Char("+"))
    <2>1. Head(in).n = gdb.n /\ Head(in).cmd = gdb.cmd
      BY <1>1, <1>3
    <2>2. CASE gdb.cmd = "query"
      <3>1. Put(gdb.n, "get")
        BY <2>1, <2>2 DEF Obey
      <3> QED
        BY <3>1 DEF Put
    <2>3. CASE gdb.cmd = "detach"
      <3>1. Put(gdb.n, "end")
        BY <2>1, <2>3 DEF Obey
      <3> QED
        BY <3>1 DEF Put
    <2>4. CASE gdb.cmd = "run"
      <3>1. stub' = [stub EXCEPT !.pc = "poll", !.n = gdb.n] /\ out' = Append(out, Char("+"))
        BY <2>1, <2>4 DEF Obey
      <3>2. stub' \in [pc : {"poll", "end"}, n : Nat, copies : Nat, then : {"get", "end"}] /\ stub'.n = gdb.n
        BY <3>1, <1>p, <1>t DEF PacketsTyped
      <3> QED
        BY <3>1, <3>2
    <2>5. CASE gdb.cmd = "reset"
      <3>1. (stub' = [stub EXCEPT !.pc = "end"] /\ out' = Append(out, Char("+"))) \/ Put(gdb.n, "get")
        BY <2>1, <2>5 DEF Obey
      <3>2. CASE stub' = [stub EXCEPT !.pc = "end"] /\ out' = Append(out, Char("+"))
        <4>1. stub' \in [pc : {"poll", "end"}, n : Nat, copies : Nat, then : {"get", "end"}] /\ stub'.pc = "end"
          BY <3>2, <1>p, <1>t DEF PacketsTyped
        <4> QED
          BY <3>2, <4>1
      <3>3. CASE Put(gdb.n, "get")
        BY <3>3 DEF Put
      <3> QED
        BY <3>1, <3>2, <3>3
    <2> QED
      BY <1>4, <2>2, <2>3, <2>4, <2>5
  \* The acknowledge is there, behind what was there; then the answer, or nothing.
  <1>h. /\ out' \in Seq(ToGdb) /\ stub' \in [pc : {"get", "ack", "poll", "end"}, n : Nat, copies : Nat, then : {"get", "end"}]
        /\ stub'.pc \in {"ack", "poll", "end"} /\ (stub'.pc \in {"ack", "poll"} => stub'.n = gdb.n)
        /\ \A i \in 1..Len(out) : i \in 1..Len(out') /\ out'[i] = out[i]
        /\ Len(out) + 1 \in 1..Len(out') /\ out'[Len(out) + 1] = Char("+")
        /\ \A i \in 1..Len(out') : \/ i \in 1..Len(out) /\ out'[i] = out[i]
                                   \/ i = Len(out) + 1 /\ out'[i] = Char("+")
                                   \/ stub'.pc = "ack" /\ i = Len(out) + 2 /\ out'[i] = Packet(gdb.n, "answer")
        /\ stub'.pc = "ack" => Len(out) + 2 \in 1..Len(out') /\ out'[Len(out) + 2] = Packet(gdb.n, "answer")
        /\ out = <<>> => out' = IF stub'.pc = "ack" THEN <<Char("+"), Packet(gdb.n, "answer")>> ELSE <<Char("+")>>
    <2>1. out \in Seq(ToGdb)
      BY <1>t DEF PacketsTyped
    <2>2. PICK a \in ToGdb : a = Char("+")
      BY <1>c
    <2>3. PICK b \in ToGdb : b = Packet(gdb.n, "answer")
      BY <1>d
    <2> DEFINE s == Behind(out, a)
    <2>4. /\ s \in Seq(ToGdb) /\ Len(s) = Len(out) + 1
          /\ \A i \in 1..Len(out) : i \in 1..Len(s) /\ s[i] = out[i]
          /\ \A i \in 1..Len(s) : (i \in 1..Len(out) /\ s[i] = out[i]) \/ (i = Len(out) + 1 /\ s[i] = a)
          /\ Len(out) + 1 \in 1..Len(s) /\ s[Len(out) + 1] = a
      BY <2>1, OneBehind
    <2>5. out = <<>> => s = <<a>>
      BY DEF Behind
    <2>6. s = Append(out, a)
      BY DEF Behind
    <2> HIDE DEF s
    <2>7. CASE /\ stub' = [pc |-> "ack", n |-> gdb.n, copies |-> 1, then |-> stub'.then] /\ stub'.then \in {"get", "end"}
               /\ out' = out \o <<Char("+")>> \o Copies(gdb.n, 1)
      <3> DEFINE r == Behind(s, b)
      <3>1. out' = r
        BY <2>1, <2>2, <2>3, <2>7, <1>p, PutSends DEF s
      <3>2. /\ r \in Seq(ToGdb) /\ Len(r) = Len(s) + 1
            /\ \A i \in 1..Len(s) : i \in 1..Len(r) /\ r[i] = s[i]
            /\ \A i \in 1..Len(r) : (i \in 1..Len(s) /\ r[i] = s[i]) \/ (i = Len(s) + 1 /\ r[i] = b)
            /\ Len(s) + 1 \in 1..Len(r) /\ r[Len(s) + 1] = b
        BY <2>4, OneBehind
      <3>3. s = <<a>> => r = <<a, b>>
        <4>1. s = <<a>> => r = Append(<<a>>, b)
          BY Zenon DEF Behind
        <4>2. Append(<<a>>, b) = <<a, b>>
          BY TwoOf
        <4> QED
          BY <4>1, <4>2, Zenon
      <3> HIDE DEF r
      <3>4. Len(s) + 1 = Len(out) + 2
        BY <2>4, <1>p
      <3>5. /\ \A i \in 1..Len(out) : i \in 1..Len(r) /\ r[i] = out[i]
            /\ \A i \in 1..Len(r) : \/ i \in 1..Len(out) /\ r[i] = out[i]
                                    \/ i = Len(out) + 1 /\ r[i] = a
                                    \/ i = Len(out) + 2 /\ r[i] = b
            /\ Len(out) + 1 \in 1..Len(r) /\ r[Len(out) + 1] = a
            /\ Len(out) + 2 \in 1..Len(r) /\ r[Len(out) + 2] = b
        BY <2>4, <3>2, <3>4
      <3>6. stub'.pc = "ack" /\ stub'.n = gdb.n /\ stub' \in [pc : {"get", "ack", "poll", "end"}, n : Nat, copies : Nat, then : {"get", "end"}]
        BY <2>7, <1>p
      <3> QED
        BY <3>1, <3>2, <3>3, <3>5, <3>6, <2>2, <2>3, <2>5
    <2>8. CASE /\ stub' \in [pc : {"poll", "end"}, n : Nat, copies : Nat, then : {"get", "end"}]
               /\ stub'.pc = "poll" => stub'.n = gdb.n
               /\ out' = Append(out, Char("+"))
      <3>1. out' = s
        BY <2>2, <2>6, <2>8
      <3>2. stub'.pc \in {"poll", "end"} /\ stub' \in [pc : {"get", "ack", "poll", "end"}, n : Nat, copies : Nat, then : {"get", "end"}]
        BY <2>8
      <3> QED
        BY <3>1, <3>2, <2>2, <2>4, <2>5, <2>8
    <2> QED
      BY <1>g, <2>7, <2>8
  <1>6. PacketsTyped'
    BY <1>0, <1>1, <1>5, <1>h, <1>t DEF PacketsTyped
  <1>i. ~OnWay' /\ gdb.n > 0
    BY <1>0, <1>4, <1>5, <1>p
  <1>7. RanInOrder'
    BY <1>0, <1>3, <1>4, <1>5, <1>h, <1>i, <1>p DEF RanInOrder
  <1>8. OneCommandComes'
    BY <1>0, <1>3, <1>a DEF OneCommandComes
  <1>j. \A i \in 1..Len(out') : \/ i \in 1..Len(out) /\ IsPacket(out'[i]) /\ out'[i].n < gdb.n /\ out'[i].cmd = "answer" /\ (damage = 0 => out'[i].ok)
                                \/ i = Len(out) + 1 /\ out'[i].n = 0 /\ out'[i].cmd = "+" /\ out'[i].ok
                                \/ stub'.pc = "ack" /\ i = Len(out) + 2 /\ out'[i].n = gdb.n /\ out'[i].cmd = "answer" /\ out'[i].ok
    BY <1>b, <1>c, <1>d, <1>e, <1>h
  <1>9. OutInOrder'
    <2>1. \A i \in 1..Len(out') : IsPacket(out'[i]) => out'[i].cmd = "answer"
      BY <1>j
    <2> DEFINE j == Len(out) + 1
    <2>2. j \in 1..Len(out') /\ ~IsPacket(out'[j]) /\ out'[j].cmd = "+"
      BY <1>h, <1>c
    <2>3. \A i \in 1..(j - 1) : IsPacket(out'[i]) /\ out'[i].n < gdb.n
      BY <1>h, <1>b, <1>p
    <2>4. \A i \in (j + 1)..Len(out') : IsPacket(out'[i]) /\ out'[i].n = gdb.n
      <3>1. \A i \in (j + 1)..Len(out') : i \in 1..Len(out') /\ i # Len(out) + 1 /\ i \notin 1..Len(out)
        BY <1>p
      <3> QED
        BY <3>1, <1>j, <1>i
    <2> HIDE DEF j
    <2> QED
      BY <1>0, <1>3, <1>i, <2>1, <2>2, <2>3, <2>4 DEF OutInOrder
  <1>10. NotForgotten'
    BY <1>i DEF NotForgotten
  <1>k. stub'.pc = "ack" => GoodAnswer'
    BY <1>0, <1>h, <1>d DEF GoodAnswer
  <1>11. AckComes'
    BY <1>0, <1>k DEF AckComes, GoodAnswer
  <1>12. NoAnswerYet'
    BY <1>0, <1>j, <1>i DEF NoAnswerYet
  <1>13. Undamaged'
    BY <1>0, <1>j, <1>k, <1>h DEF Undamaged
  <1>14. InStep'
    BY <1>0, <1>3, <1>f, <1>h, <1>i, PacketIs DEF InStep, Answer, Packet
  <1>15. OneDamage'
    BY <1>k, <1>h DEF OneDamage
  <1> QED
    BY <1>6, <1>7, <1>8, <1>9, <1>10, <1>11, <1>12, <1>13, <1>14, <1>15 DEF PacketsInv

\* The exception answers the command that let the program run.
LEMMA ExceptionKeeps ==
  ASSUME PacketsInv, Exception
  PROVE  PacketsInv'
  <1>t. PacketsTyped /\ RanInOrder /\ OneCommandComes /\ OutInOrder /\ NotForgotten /\ AckComes /\ NoAnswerYet /\ Undamaged /\ InStep /\ OneDamage
    BY DEF PacketsInv
  <1>p. /\ stub.pc \in {"get", "ack", "poll", "end"} /\ stub.n \in Nat /\ stub.copies \in Nat
        /\ stub.then \in {"get", "end"}
        /\ gdb.st \in {"idle", "sent", "answer", "over"} /\ gdb.n \in Nat
        /\ Len(in) \in Nat /\ Len(out) \in Nat /\ Len(ran) \in Nat
        /\ \A i \in 1..Len(in) : in[i].n \in Nat
        /\ \A i \in 1..Len(out) : out[i].n \in Nat
    BY <1>t, Parts
  <1>0. /\ stub.pc = "poll" /\ stub' = [stub EXCEPT !.pc = "ack", !.copies = 1, !.then = "get"]
        /\ out' = out \o Copies(stub.n, 1) /\ in' = in /\ gdb' = gdb /\ ran' = ran /\ damage' = damage /\ keys' = keys
    BY DEF Exception
  <1>1. stub.n = gdb.n /\ Len(ran) = gdb.n /\ gdb.n > 0 /\ ~OnWay /\ Asks
    BY <1>0, <1>t, <1>p DEF RanInOrder
  <1>2. /\ Packet(gdb.n, "answer") \in ToGdb /\ Packet(gdb.n, "answer").n = gdb.n
        /\ Packet(gdb.n, "answer").cmd = "answer" /\ Packet(gdb.n, "answer").ok = TRUE
    BY <1>p, PacketTyped, PacketIs
  <1>a. out' = Append(out, Packet(gdb.n, "answer"))
    <2>1. Copies(gdb.n, 1) = <<Packet(gdb.n, "answer")>>
      BY DEF Copies
    <2>2. out \in Seq(ToGdb)
      BY <1>t DEF PacketsTyped
    <2>3. out' = out \o <<Packet(gdb.n, "answer")>>
      BY <1>0, <1>1, <2>1
    <2> QED
      BY <2>2, <2>3, <1>2, AppendIsConcat
  <1>b. <<Packet(gdb.n, "answer")>> = Append(<<>>, Packet(gdb.n, "answer")) /\ <<Char("+"), Packet(gdb.n, "answer")>> = Append(<<Char("+")>>, Packet(gdb.n, "answer"))
    <2>1. PICK a \in ToGdb : a = Char("+")
      BY PacketTyped
    <2>2. PICK b \in ToGdb : b = Packet(gdb.n, "answer")
      BY <1>2
    <2>3. <<b>> = Append(<<>>, b) /\ <<a, b>> = Append(<<a>>, b)
      BY TwoOf
    <2> QED
      BY <2>1, <2>2, <2>3, Zenon
  <1>o. /\ out' \in Seq(ToGdb) /\ out' # <<>>
        /\ \A i \in 1..Len(out) : i \in 1..Len(out') /\ out'[i] = out[i]
        /\ \A i \in 1..Len(out') : (i \in 1..Len(out) /\ out'[i] = out[i]) \/ (i = Len(out) + 1 /\ out'[i] = Packet(gdb.n, "answer"))
        /\ Len(out) + 1 \in 1..Len(out') /\ out'[Len(out) + 1] = Packet(gdb.n, "answer")
    <2>1. out \in Seq(ToGdb)
      BY <1>t DEF PacketsTyped
    <2>2. out' = Behind(out, Packet(gdb.n, "answer"))
      BY <1>a, <1>2 DEF Behind
    <2>3. PICK x \in ToGdb : x = Packet(gdb.n, "answer")
      BY <1>a, <1>2
    <2>4. LET t == Behind(out, x)
          IN  /\ t \in Seq(ToGdb) /\ t # <<>>
              /\ \A i \in 1..Len(out) : i \in 1..Len(t) /\ t[i] = out[i]
              /\ \A i \in 1..Len(t) : (i \in 1..Len(out) /\ t[i] = out[i]) \/ (i = Len(out) + 1 /\ t[i] = x)
              /\ Len(out) + 1 \in 1..Len(t) /\ t[Len(out) + 1] = x
      BY <2>1, OneBehind
    <2> QED
      BY <2>2, <2>3, <2>4, Zenon
  <1>c. stub'.pc = "ack" /\ stub'.n = gdb.n /\ stub' \in [pc : {"get", "ack", "poll", "end"}, n : Nat, copies : Nat, then : {"get", "end"}]
    BY <1>0, <1>1, <1>t DEF PacketsTyped
  <1>d. \A i \in 1..Len(out') : (i \in 1..Len(out) /\ out'[i] = out[i])
              \/ (i = Len(out) + 1 /\ out'[i].n = gdb.n /\ out'[i].cmd = "answer" /\ out'[i].ok)
    BY <1>o, <1>2
  <1>3. PacketsTyped'
    BY <1>0, <1>c, <1>o, <1>t DEF PacketsTyped
  <1>4. RanInOrder'
    BY <1>0, <1>1, <1>c, <1>t DEF RanInOrder
  <1>5. OneCommandComes'
    <2>1. gdb.st # "idle" /\ \A i \in 1..Len(in) : ~IsPacket(in[i])
      BY <1>1, <1>t DEF OneCommandComes
    <2> QED
      BY <1>0, <2>1, <1>t DEF OneCommandComes
  <1>6. OutInOrder'
    <2>1. \A i \in 1..Len(out') : IsPacket(out'[i]) => out'[i].cmd = "answer"
      BY <1>d, <1>t DEF OutInOrder
    <2>2. gdb.st # "sent" => \A i \in 1..Len(out') : out'[i].n = gdb.n /\ IsPacket(out'[i])
      BY <1>d, <1>1, <1>t DEF OutInOrder
    <2>3. ASSUME gdb.st = "sent"
          PROVE  \E j \in 1..Len(out') :
                   /\ ~IsPacket(out'[j]) /\ out'[j].cmd = "+"
                   /\ \A i \in 1..(j - 1) : IsPacket(out'[i]) /\ out'[i].n < gdb.n
                   /\ \A i \in (j + 1)..Len(out') : IsPacket(out'[i]) /\ out'[i].n = gdb.n
      <3>1. PICK j \in 1..Len(out) :
                   /\ ~IsPacket(out[j]) /\ out[j].cmd = "+"
                   /\ \A i \in 1..(j - 1) : IsPacket(out[i]) /\ out[i].n < gdb.n
                   /\ \A i \in (j + 1)..Len(out) : IsPacket(out[i]) /\ out[i].n = gdb.n
        BY <2>3, <1>1, <1>t DEF OutInOrder
      <3>2. \A i \in 1..(j - 1) : i \in 1..Len(out)
        BY <1>p
      <3>3. \A i \in (j + 1)..Len(out') : i \in 1..Len(out') /\ (i \in 1..Len(out) => i \in (j + 1)..Len(out))
        BY <1>p
      <3>4. \A i \in (j + 1)..Len(out') : IsPacket(out'[i]) /\ out'[i].n = gdb.n
        BY <3>1, <3>3, <1>d, <1>1
      <3> QED
        BY <3>1, <3>2, <3>4, <1>o
    <2> QED
      BY <1>0, <1>1, <2>1, <2>2, <2>3 DEF OutInOrder
  <1>7. NotForgotten'
    BY <1>0, <1>1 DEF NotForgotten
  <1>8. GoodAnswer'
    BY <1>0, <1>o, <1>2 DEF GoodAnswer
  <1>9. AckComes' /\ NoAnswerYet'
    BY <1>8, <1>c DEF AckComes, NoAnswerYet, GoodAnswer
  <1>10. Undamaged'
    BY <1>0, <1>8, <1>d, <1>t DEF Undamaged
  <1>11. InStep'
    <2>1. Answer(TRUE) = Packet(gdb.n, "answer")
      BY DEF Answer, Packet
    <2> QED
      BY <1>0, <1>1, <1>a, <1>b, <1>c, <2>1, <1>t DEF InStep, Answer
  <1>12. OneDamage'
    BY <1>8 DEF OneDamage
  <1> QED
    BY <1>3, <1>4, <1>5, <1>6, <1>7, <1>9, <1>10, <1>11, <1>12 DEF PacketsInv

\* GDB sends when its last command is answered.
LEMMA GdbSendKeeps ==
  ASSUME PacketsInv, GdbSend
  PROVE  PacketsInv'
  <1>t. PacketsTyped /\ RanInOrder /\ OneCommandComes /\ OutInOrder /\ NotForgotten /\ AckComes /\ NoAnswerYet /\ Undamaged /\ InStep /\ OneDamage
    BY DEF PacketsInv
  <1>p. /\ stub.pc \in {"get", "ack", "poll", "end"} /\ stub.n \in Nat /\ stub.copies \in Nat
        /\ stub.then \in {"get", "end"}
        /\ gdb.st \in {"idle", "sent", "answer", "over"} /\ gdb.n \in Nat
        /\ Len(in) \in Nat /\ Len(out) \in Nat /\ Len(ran) \in Nat
        /\ \A i \in 1..Len(in) : in[i].n \in Nat
        /\ \A i \in 1..Len(out) : out[i].n \in Nat
    BY <1>t, Parts
  <1>0. gdb.st = "idle" /\ out' = out /\ stub' = stub /\ ran' = ran /\ damage' = damage /\ keys' = keys
    BY DEF GdbSend
  <1>1. PICK cmd \in Cmds : /\ gdb' = [gdb EXCEPT !.st = "sent", !.n = @ + 1, !.cmd = cmd]
                            /\ in' = Append(in, Packet(gdb.n + 1, cmd))
    BY DEF GdbSend
  <1>2. gdb'.st = "sent" /\ gdb'.n = gdb.n + 1 /\ gdb'.cmd = cmd /\ gdb' \in [st : {"idle", "sent", "answer", "over"}, n : Nat, cmd : Cmds \cup {"none"}, took : Nat]
    <2>1. gdb \in [st : {"idle", "sent", "answer", "over"}, n : Nat, cmd : Cmds \cup {"none"}, took : Nat]
      BY <1>t DEF PacketsTyped
    <2>2. gdb' = [st |-> "sent", n |-> gdb.n + 1, cmd |-> cmd, took |-> gdb.took]
      BY <1>1, <2>1
    <2>3. gdb.n + 1 \in Nat /\ gdb.took \in Nat
      BY <2>1
    <2> QED
      BY <2>2, <2>3
  <1>3. Len(ran) = gdb.n /\ OnWay' /\ stub.pc # "poll"
    BY <1>0, <1>2, <1>t, <1>p DEF RanInOrder
  <1>4. /\ Packet(gdb.n + 1, cmd) \in ToServer /\ Packet(gdb.n + 1, cmd).n = gdb.n + 1
        /\ Packet(gdb.n + 1, cmd).cmd = cmd /\ Packet(gdb.n + 1, cmd).ok = TRUE
    <2>1. gdb.n + 1 \in Nat
      BY <1>p
    <2> QED
      BY <2>1, PacketTyped, PacketIs
  <1>i. /\ in' \in Seq(ToServer) /\ in' # <<>>
        /\ \A i \in 1..Len(in) : i \in 1..Len(in') /\ in'[i] = in[i]
        /\ \A i \in 1..Len(in') : (i \in 1..Len(in) /\ in'[i] = in[i]) \/ (i = Len(in) + 1 /\ in'[i] = Packet(gdb.n + 1, cmd))
        /\ Len(in) + 1 \in 1..Len(in') /\ in'[Len(in) + 1] = Packet(gdb.n + 1, cmd)
    <2>1. in \in Seq(ToServer)
      BY <1>t DEF PacketsTyped
    <2>2. in' = Behind(in, Packet(gdb.n + 1, cmd))
      BY <1>1, <1>4 DEF Behind
    <2>3. PICK x \in ToServer : x = Packet(gdb.n + 1, cmd)
      BY <1>1, <1>4
    <2>4. LET t == Behind(in, x)
          IN  /\ t \in Seq(ToServer) /\ t # <<>>
              /\ \A i \in 1..Len(in) : i \in 1..Len(t) /\ t[i] = in[i]
              /\ \A i \in 1..Len(t) : (i \in 1..Len(in) /\ t[i] = in[i]) \/ (i = Len(in) + 1 /\ t[i] = x)
              /\ Len(in) + 1 \in 1..Len(t) /\ t[Len(in) + 1] = x
      BY <2>1, OneBehind
    <2> QED
      BY <2>2, <2>3, <2>4, Zenon
  <1>b. \A i \in 1..Len(in) : ~IsPacket(in[i])
    BY <1>0, <1>t DEF OneCommandComes
  <1>c. \A i \in 1..Len(out) : out[i].n = gdb.n /\ IsPacket(out[i])
    BY <1>0, <1>t DEF OutInOrder
  <1>5. PacketsTyped'
    BY <1>0, <1>i, <1>2, <1>t DEF PacketsTyped
  <1>6. RanInOrder'
    BY <1>0, <1>2, <1>3, <1>t, <1>p DEF RanInOrder
  <1>7. OneCommandComes'
    <2>1. \A i \in 1..Len(in') : IsPacket(in'[i]) => i = Len(in) + 1 /\ in'[i].n = gdb.n + 1 /\ in'[i].cmd = cmd
      BY <1>i, <1>b, <1>4
    <2>2. \A i \in 1..Len(in') : ~IsPacket(in'[i]) => in'[i].cmd \notin Cmds
      <3>1. IsPacket(Packet(gdb.n + 1, cmd))
        BY <1>4, <1>p
      <3> QED
        BY <1>i, <3>1, <1>t DEF OneCommandComes
    <2>3. stub.pc = "ack" => \E j \in 1..Len(in) : in'[j].cmd = "+"
      BY <1>0, <1>i, <1>t DEF OneCommandComes
    <2>4. (Len(in) + 1) - 1 = Len(in)
      BY <1>p
    <2>5. \A j \in 1..Len(out) : IsPacket(out[j])
      BY <1>c
    <2> QED
      BY <1>0, <1>2, <1>3, <2>1, <2>2, <2>3, <2>4, <2>5 DEF OneCommandComes
  <1>8. OutInOrder'
    BY <1>0, <1>2, <1>3, <1>c, <1>t DEF OutInOrder
  <1>9. NotForgotten'
    <2>1. IsPacket(in'[Len(in) + 1])
      BY <1>i, <1>4, <1>p
    <2> QED
      BY <2>1, <1>i DEF NotForgotten
  <1>10. AckComes' /\ NoAnswerYet'
    BY <1>0, <1>3 DEF AckComes, NoAnswerYet
  <1>11. Undamaged'
    BY <1>0, <1>3, <1>t DEF Undamaged
  <1>12. InStep'
    <2>1. in = <<>> => in' = <<Packet(gdb.n + 1, cmd)>>
      BY <1>1
    <2>2. in = <<Char("+")>> => in' = <<Char("+"), Packet(gdb.n + 1, cmd)>>
      <3>1. PICK a \in ToServer : a = Char("+")
        BY PacketTyped
      <3>2. PICK b \in ToServer : b = Packet(gdb.n + 1, cmd)
        BY <1>4
      <3>3. <<a, b>> = Append(<<a>>, b)
        BY TwoOf
      <3> QED
        BY <1>1, <3>1, <3>2, <3>3, Zenon
    <2> QED
      BY <1>0, <1>2, <1>3, <2>1, <2>2, <1>t DEF InStep
  <1>13. OneDamage'
    BY <1>3 DEF OneDamage
  <1> QED
    BY <1>5, <1>6, <1>7, <1>8, <1>9, <1>10, <1>11, <1>12, <1>13 DEF PacketsInv

\* A key is no packet.
LEMMA GdbBreakKeeps ==
  ASSUME PacketsInv, GdbBreak
  PROVE  PacketsInv'
  <1>t. PacketsTyped /\ RanInOrder /\ OneCommandComes /\ OutInOrder /\ NotForgotten /\ AckComes /\ NoAnswerYet /\ Undamaged /\ InStep /\ OneDamage
    BY DEF PacketsInv
  <1>p. /\ stub.pc \in {"get", "ack", "poll", "end"} /\ stub.n \in Nat /\ stub.copies \in Nat
        /\ stub.then \in {"get", "end"}
        /\ gdb.st \in {"idle", "sent", "answer", "over"} /\ gdb.n \in Nat
        /\ Len(in) \in Nat /\ Len(out) \in Nat /\ Len(ran) \in Nat
        /\ \A i \in 1..Len(in) : in[i].n \in Nat
        /\ \A i \in 1..Len(out) : out[i].n \in Nat
    BY <1>t, Parts
  <1>0. /\ gdb.st = "answer" /\ in' = Append(in, Char("break")) /\ keys' = keys + 1
        /\ out' = out /\ stub' = stub /\ gdb' = gdb /\ ran' = ran /\ damage' = damage
    BY DEF GdbBreak
  <1>1. Char("break") \in ToServer /\ Char("break").n = 0 /\ Char("break").cmd = "break"
    BY PacketTyped, PacketIs
  <1>i. /\ in' \in Seq(ToServer) /\ in' # <<>>
        /\ \A i \in 1..Len(in) : i \in 1..Len(in') /\ in'[i] = in[i]
        /\ \A i \in 1..Len(in') : (i \in 1..Len(in) /\ in'[i] = in[i]) \/ (i = Len(in) + 1 /\ in'[i] = Char("break"))
        /\ Len(in) + 1 \in 1..Len(in') /\ in'[Len(in) + 1] = Char("break")
    <2>1. in \in Seq(ToServer)
      BY <1>t DEF PacketsTyped
    <2>2. in' = Behind(in, Char("break"))
      BY <1>0, <1>1 DEF Behind
    <2>3. PICK x \in ToServer : x = Char("break")
      BY <1>0, <1>1
    <2>4. LET t == Behind(in, x)
          IN  /\ t \in Seq(ToServer) /\ t # <<>>
              /\ \A i \in 1..Len(in) : i \in 1..Len(t) /\ t[i] = in[i]
              /\ \A i \in 1..Len(t) : (i \in 1..Len(in) /\ t[i] = in[i]) \/ (i = Len(in) + 1 /\ t[i] = x)
              /\ Len(in) + 1 \in 1..Len(t) /\ t[Len(in) + 1] = x
      BY <2>1, OneBehind
    <2> QED
      BY <2>2, <2>3, <2>4, Zenon
  <1>2. keys \in Nat /\ keys' \in Nat /\ keys' # 0
    BY <1>0, <1>t DEF PacketsTyped
  <1>3. PacketsTyped'
    BY <1>0, <1>i, <1>2, <1>t DEF PacketsTyped
  <1>4. RanInOrder'
    BY <1>0, <1>t DEF RanInOrder
  <1>5. OneCommandComes'
    <2>1. \A i \in 1..Len(in') : ~IsPacket(in'[i])
      BY <1>0, <1>1, <1>i, <1>t DEF OneCommandComes
    <2>2. \A i \in 1..Len(in') : in'[i].cmd \notin Cmds
      BY <1>0, <1>1, <1>i, <1>t DEF OneCommandComes
    <2> QED
      BY <1>0, <2>1, <2>2 DEF OneCommandComes
  <1>6. OutInOrder'
    BY <1>0, <1>t DEF OutInOrder
  <1>7. NotForgotten'
    BY <1>0 DEF NotForgotten
  <1>8. AckComes' /\ NoAnswerYet'
    BY <1>0, <1>i, <1>t DEF AckComes, NoAnswerYet
  <1>9. Undamaged'
    BY <1>0, <1>t DEF Undamaged, GoodAnswer
  <1>10. InStep' /\ OneDamage'
    BY <1>2 DEF InStep, OneDamage
  <1> QED
    BY <1>3, <1>4, <1>5, <1>6, <1>7, <1>8, <1>9, <1>10 DEF PacketsInv

\* GDB takes a copy of an old answer, a refusal or its acknowledge.
LEMMA GdbAckKeeps ==
  ASSUME PacketsInv, GdbAck
  PROVE  PacketsInv'
  <1>t. PacketsTyped /\ RanInOrder /\ OneCommandComes /\ OutInOrder /\ NotForgotten /\ AckComes /\ NoAnswerYet /\ Undamaged /\ InStep /\ OneDamage
    BY DEF PacketsInv
  <1>p. /\ stub.pc \in {"get", "ack", "poll", "end"} /\ stub.n \in Nat /\ stub.copies \in Nat
        /\ stub.then \in {"get", "end"}
        /\ gdb.st \in {"idle", "sent", "answer", "over"} /\ gdb.n \in Nat
        /\ Len(in) \in Nat /\ Len(out) \in Nat /\ Len(ran) \in Nat
        /\ \A i \in 1..Len(in) : in[i].n \in Nat
        /\ \A i \in 1..Len(out) : out[i].n \in Nat
    BY <1>t, Parts
  <1>0. /\ gdb.st = "sent" /\ out # <<>> /\ out' = Tail(out)
        /\ stub' = stub /\ ran' = ran /\ damage' = damage /\ keys' = keys
    BY DEF GdbAck
  <1>o. /\ out' \in Seq(ToGdb) /\ Len(out') = Len(out) - 1 /\ Len(out) > 0 /\ Head(out) = out[1] /\ Len(out) \in Nat
        /\ \A i \in 1..Len(out') : out'[i] = out[i + 1] /\ i + 1 \in 1..Len(out) /\ i + 1 # 1
        /\ \A i \in 1..Len(out) : i # 1 => out[i] = out'[i - 1] /\ i - 1 \in 1..Len(out')
    BY <1>0, <1>t, FirstGone DEF PacketsTyped
  <1>1. gdb.n > 0 /\ gdb.cmd \in Cmds /\ 1 \in 1..Len(out)
    BY <1>0, <1>o, <1>t DEF RanInOrder
  <1>2. damage = 0 => \A i \in 1..Len(out') : out'[i].ok
    BY <1>o, <1>t DEF Undamaged
  <1>3. (stub.pc = "poll" => ~OnWay) /\ (stub.pc = "poll" => \A i \in 1..Len(out') : out'[i].n < gdb.n)
    BY <1>o, <1>t DEF RanInOrder, NoAnswerYet
  \* The answers are behind what is taken.
  <1>4. ~OnWay => \A i \in 1..Len(out) : out[i].n = gdb.n => i # 1
    <2>1. ASSUME ~OnWay, out[1].n = gdb.n PROVE FALSE
      <3>1. PICK j \in 1..Len(out) :
                   /\ ~IsPacket(out[j]) /\ out[j].cmd = "+"
                   /\ \A i \in 1..(j - 1) : IsPacket(out[i]) /\ out[i].n < gdb.n
                   /\ \A i \in (j + 1)..Len(out) : IsPacket(out[i]) /\ out[i].n = gdb.n
        BY <2>1, <1>0, <1>t DEF OutInOrder
      <3>2. j # 1
        BY <3>1, <2>1, <1>1
      <3>3. 1 \in 1..(j - 1)
        BY <3>2, <1>o
      <3> QED
        BY <3>1, <3>3, <2>1, <1>p
    <2> QED
      BY <2>1
  <1>5. ~OnWay /\ GoodAnswer => \E i \in 1..Len(out') : out'[i].n = gdb.n /\ out'[i].ok
    BY <1>4, <1>o DEF GoodAnswer
  <1>6. CASE IsPacket(Head(out))
    <2>1. in' = Append(in, Char("+")) /\ gdb' = gdb
      BY <1>0, <1>6 DEF GdbAck
    <2>2. Char("+") \in ToServer /\ Char("+").n = 0 /\ Char("+").cmd = "+"
      BY PacketTyped, PacketIs
    <2>i. /\ in' \in Seq(ToServer) /\ in' # <<>>
          /\ \A i \in 1..Len(in) : i \in 1..Len(in') /\ in'[i] = in[i]
          /\ \A i \in 1..Len(in') : (i \in 1..Len(in) /\ in'[i] = in[i]) \/ (i = Len(in) + 1 /\ in'[i] = Char("+"))
          /\ Len(in) + 1 \in 1..Len(in') /\ in'[Len(in) + 1] = Char("+")
      <3>1. in \in Seq(ToServer)
        BY <1>t DEF PacketsTyped
      <3>2. in' = Behind(in, Char("+"))
        BY <2>1, <2>2 DEF Behind
      <3>3. PICK x \in ToServer : x = Char("+")
        BY <2>1, <2>2
      <3>4. LET t == Behind(in, x)
            IN  /\ t \in Seq(ToServer) /\ t # <<>>
                /\ \A i \in 1..Len(in) : i \in 1..Len(t) /\ t[i] = in[i]
                /\ \A i \in 1..Len(t) : (i \in 1..Len(in) /\ t[i] = in[i]) \/ (i = Len(in) + 1 /\ t[i] = x)
                /\ Len(in) + 1 \in 1..Len(t) /\ t[Len(in) + 1] = x
        BY <3>1, OneBehind
      <3> QED
        BY <3>2, <3>3, <3>4, Zenon
    <2>3. PacketsTyped'
      BY <1>0, <1>o, <2>1, <2>i, <1>t DEF PacketsTyped
    <2>4. RanInOrder'
      BY <1>0, <2>1, <1>t DEF RanInOrder
    <2>5. OneCommandComes'
      <3>1. ASSUME NEW i \in 1..Len(in'), IsPacket(in'[i])
            PROVE  /\ OnWay
                   /\ in'[i].n = gdb.n /\ in'[i].cmd = gdb.cmd
                   /\ \A j \in 1..Len(in') : IsPacket(in'[j]) => j = i
                   /\ \A j \in 1..Len(out') : IsPacket(out'[j])
                   /\ stub.pc = "ack" => \E j \in 1..(i - 1) : in'[j].cmd = "+"
        <4>1. i \in 1..Len(in) /\ in'[i] = in[i]
          BY <3>1, <2>i, <2>2
        <4>2. /\ OnWay
              /\ in[i].n = gdb.n /\ in[i].cmd = gdb.cmd
              /\ \A j \in 1..Len(in) : IsPacket(in[j]) => j = i
              /\ \A j \in 1..Len(out) : IsPacket(out[j])
              /\ stub.pc = "ack" => \E j \in 1..(i - 1) : in[j].cmd = "+"
          BY <3>1, <4>1, <1>t DEF OneCommandComes
        <4>3. \A j \in 1..Len(in') : IsPacket(in'[j]) => j = i
          BY <4>2, <2>i, <2>2
        <4>4. \A j \in 1..Len(out') : IsPacket(out'[j])
          BY <4>2, <1>o
        <4>5. \A j \in 1..(i - 1) : j \in 1..Len(in)
          BY <4>1, <1>p
        <4> QED
          BY <4>1, <4>2, <4>3, <4>4, <4>5, <2>i
      <3>2. \A i \in 1..Len(in') : ~IsPacket(in'[i]) => in'[i].cmd \notin Cmds
        BY <2>i, <2>2, <1>t DEF OneCommandComes
      <3> QED
        BY <1>0, <2>1, <3>1, <3>2 DEF OneCommandComes
    <2>6. OutInOrder'
      <3>1. \A i \in 1..Len(out') : IsPacket(out'[i]) => out'[i].cmd = "answer"
        BY <1>o, <1>t DEF OutInOrder
      <3>2. ASSUME OnWay
            PROVE  \A i \in 1..Len(out') :
                     /\ IsPacket(out'[i]) => out'[i].n = Len(ran)
                     /\ ~IsPacket(out'[i]) =>
                          /\ out'[i].cmd = "-" /\ stub.pc # "ack"
                          /\ \A j \in 1..Len(out') : ~IsPacket(out'[j]) => j = i
        <4>1. \A i \in 1..Len(out) :
                     /\ IsPacket(out[i]) => out[i].n = Len(ran)
                     /\ ~IsPacket(out[i]) =>
                          /\ out[i].cmd = "-" /\ stub.pc # "ack"
                          /\ \A j \in 1..Len(out) : ~IsPacket(out[j]) => j = i
          BY <3>2, <1>0, <1>t DEF OutInOrder
        <4>2. \A i \in 1..Len(out') : /\ IsPacket(out'[i]) => out'[i].n = Len(ran)
                                      /\ ~IsPacket(out'[i]) => out'[i].cmd = "-" /\ stub.pc # "ack"
          BY <4>1, <1>o
        <4>3. ASSUME NEW i \in 1..Len(out'), NEW j \in 1..Len(out'), ~IsPacket(out'[i]), ~IsPacket(out'[j])
              PROVE  j = i
          <5>1. /\ i + 1 \in 1..Len(out) /\ ~IsPacket(out[i + 1])
                /\ j + 1 \in 1..Len(out) /\ ~IsPacket(out[j + 1])
            BY <4>3, <1>o
          <5>2. j + 1 = i + 1
            BY <4>1, <5>1
          <5> QED
            BY <5>2
        <4> QED
          BY <4>2, <4>3
      <3>3. ASSUME ~OnWay
            PROVE  \E j \in 1..Len(out') :
                   /\ ~IsPacket(out'[j]) /\ out'[j].cmd = "+"
                   /\ \A i \in 1..(j - 1) : IsPacket(out'[i]) /\ out'[i].n < gdb.n
                   /\ \A i \in (j + 1)..Len(out') : IsPacket(out'[i]) /\ out'[i].n = gdb.n
        <4>1. PICK j \in 1..Len(out) :
                   /\ ~IsPacket(out[j]) /\ out[j].cmd = "+"
                   /\ \A i \in 1..(j - 1) : IsPacket(out[i]) /\ out[i].n < gdb.n
                   /\ \A i \in (j + 1)..Len(out) : IsPacket(out[i]) /\ out[i].n = gdb.n
          BY <3>3, <1>0, <1>t DEF OutInOrder
        <4>2. j # 1
          BY <4>1, <1>6, <1>o
        <4> DEFINE k == j - 1
        <4>3. k \in 1..Len(out') /\ out'[k] = out[j] /\ k \in Int
          BY <4>2, <1>o
        <4>4. \A i \in 1..(k - 1) : i \in 1..Len(out') /\ i + 1 \in 1..(j - 1)
          BY <1>o
        <4>5. \A i \in (k + 1)..Len(out') : i \in 1..Len(out') /\ i + 1 \in (j + 1)..Len(out)
          BY <4>2, <1>o
        <4> HIDE DEF k
        <4>6. \A i \in 1..(k - 1) : IsPacket(out'[i]) /\ out'[i].n < gdb.n
          BY <4>1, <4>4, <1>o
        <4>7. \A i \in (k + 1)..Len(out') : IsPacket(out'[i]) /\ out'[i].n = gdb.n
          BY <4>1, <4>5, <1>o
        <4> QED
          BY <4>1, <4>3, <4>6, <4>7
      <3> QED
        BY <1>0, <2>1, <3>1, <3>2, <3>3 DEF OutInOrder
    <2>7. NotForgotten'
      <3>1. \A i \in 1..Len(out) : ~IsPacket(out[i]) => \E j \in 1..Len(out') : ~IsPacket(out'[j])
        BY <1>o, <1>6
      <3> QED
        BY <1>0, <2>1, <2>i, <3>1, <1>t DEF NotForgotten
    <2>8. AckComes' /\ NoAnswerYet'
      BY <1>0, <2>1, <2>i, <1>3 DEF AckComes, NoAnswerYet
    <2>9. Undamaged'
      BY <1>0, <2>1, <1>2, <1>5, <1>t DEF Undamaged, GoodAnswer
    <2>10. ~(damage = 0 /\ keys = 0)
      <3>1. out # <<Char("+")>> /\ out # <<Char("+"), Answer(TRUE)>>
        <4>1. ASSUME NEW x, out = <<Char("+"), x>> PROVE FALSE
          <5>1. out[1] = Char("+")
            BY <4>1
          <5> QED
            BY <5>1, <1>6, <1>o, PacketIs
        <4>2. ASSUME out = <<Char("+")>> PROVE FALSE
          <5>1. out[1] = Char("+")
            BY <4>2
          <5> QED
            BY <5>1, <1>6, <1>o, PacketIs
        <4> QED
          BY <4>1, <4>2
      <3> QED
        BY <1>0, <3>1, <1>t DEF InStep
    <2>11. InStep'
      BY <1>0, <2>10 DEF InStep
    <2>12. OneDamage'
      <3>1. \A ok : out # <<Char("+"), Answer(ok)>>
        <4>1. ASSUME NEW x, out = <<Char("+"), x>> PROVE FALSE
          <5>1. out[1] = Char("+")
            BY <4>1
          <5> QED
            BY <5>1, <1>6, <1>o, PacketIs
        <4> QED
          BY <4>1
      <3>2. ~OnWay => \A ok : out # <<Answer(ok)>>
        <4>1. ASSUME ~OnWay, NEW ok, out = <<Answer(ok)>> PROVE FALSE
          <5>1. out[1] = Answer(ok) /\ Answer(ok).n = gdb.n
            BY <4>1 DEF Answer
          <5> QED
            BY <5>1, <4>1, <1>4, <1>1
        <4> QED
          BY <4>1
      <3> QED
        BY <1>0, <2>1, <3>1, <3>2, <1>5, <1>t DEF OneDamage, GoodAnswer
    <2> QED
      BY <2>3, <2>4, <2>5, <2>6, <2>7, <2>8, <2>9, <2>11, <2>12 DEF PacketsInv
  <1>7. CASE ~IsPacket(Head(out)) /\ Head(out).cmd = "-"
    <2>1. in' = Append(in, Packet(gdb.n, gdb.cmd)) /\ gdb' = gdb
      BY <1>0, <1>7 DEF GdbAck
    <2>2. /\ Packet(gdb.n, gdb.cmd) \in ToServer /\ Packet(gdb.n, gdb.cmd).n = gdb.n
          /\ Packet(gdb.n, gdb.cmd).cmd = gdb.cmd
      BY <1>1, <1>p, PacketTyped, PacketIs
    <2>i. /\ in' \in Seq(ToServer) /\ in' # <<>>
          /\ \A i \in 1..Len(in) : i \in 1..Len(in') /\ in'[i] = in[i]
          /\ \A i \in 1..Len(in') : (i \in 1..Len(in) /\ in'[i] = in[i]) \/ (i = Len(in) + 1 /\ in'[i] = Packet(gdb.n, gdb.cmd))
          /\ Len(in) + 1 \in 1..Len(in') /\ in'[Len(in) + 1] = Packet(gdb.n, gdb.cmd)
      <3>1. in \in Seq(ToServer)
        BY <1>t DEF PacketsTyped
      <3>2. in' = Behind(in, Packet(gdb.n, gdb.cmd))
        BY <2>1, <2>2 DEF Behind
      <3>3. PICK x \in ToServer : x = Packet(gdb.n, gdb.cmd)
        BY <2>1, <2>2
      <3>4. LET t == Behind(in, x)
            IN  /\ t \in Seq(ToServer) /\ t # <<>>
                /\ \A i \in 1..Len(in) : i \in 1..Len(t) /\ t[i] = in[i]
                /\ \A i \in 1..Len(t) : (i \in 1..Len(in) /\ t[i] = in[i]) \/ (i = Len(in) + 1 /\ t[i] = x)
                /\ Len(in) + 1 \in 1..Len(t) /\ t[Len(in) + 1] = x
        BY <3>1, OneBehind
      <3> QED
        BY <3>2, <3>3, <3>4, Zenon
    <2>3. OnWay
      <3>1. ASSUME ~OnWay PROVE FALSE
        <4>1. PICK j \in 1..Len(out) :
                   /\ ~IsPacket(out[j]) /\ out[j].cmd = "+"
                   /\ \A i \in 1..(j - 1) : IsPacket(out[i]) /\ out[i].n < gdb.n
                   /\ \A i \in (j + 1)..Len(out) : IsPacket(out[i]) /\ out[i].n = gdb.n
          BY <3>1, <1>0, <1>t DEF OutInOrder
        <4>2. j # 1
          BY <4>1, <1>7, <1>o
        <4>3. 1 \in 1..(j - 1)
          BY <4>2, <1>o
        <4> QED
          BY <4>1, <4>3, <1>7, <1>o
      <3> QED
        BY <3>1
    <2>4. /\ stub.pc # "ack"
          /\ \A i \in 1..Len(out) : IsPacket(out[i]) => out[i].n = Len(ran)
          /\ \A i \in 1..Len(out) : ~IsPacket(out[i]) => i = 1
      BY <1>0, <1>1, <1>7, <1>o, <2>3, <1>t DEF OutInOrder
    <2>5. \A i \in 1..Len(out') : IsPacket(out'[i]) /\ out'[i].n = Len(ran) /\ out'[i].cmd = "answer"
      BY <1>o, <2>4, <1>t DEF OutInOrder
    <2>6. \A i \in 1..Len(in) : ~IsPacket(in[i])
      BY <1>1, <1>7, <1>o, <1>t DEF OneCommandComes
    <2>7. PacketsTyped'
      BY <1>0, <1>o, <2>1, <2>i, <1>t DEF PacketsTyped
    <2>8. RanInOrder'
      BY <1>0, <2>1, <1>t DEF RanInOrder
    <2>9. OneCommandComes'
      <3>1. \A i \in 1..Len(in') : IsPacket(in'[i]) => i = Len(in) + 1 /\ in'[i].n = gdb.n /\ in'[i].cmd = gdb.cmd
        BY <2>i, <2>2, <2>6
      <3>2. IsPacket(Packet(gdb.n, gdb.cmd))
        BY <2>2, <1>1
      <3>3. \A i \in 1..Len(in') : ~IsPacket(in'[i]) => in'[i].cmd \notin Cmds
        BY <2>i, <3>2, <1>t DEF OneCommandComes
      <3> QED
        BY <1>0, <2>1, <2>3, <2>4, <2>5, <3>1, <3>3 DEF OneCommandComes
    <2>10. OutInOrder'
      BY <1>0, <2>1, <2>3, <2>5 DEF OutInOrder
    <2>11. NotForgotten'
      <3>1. IsPacket(in'[Len(in) + 1])
        BY <2>i, <2>2, <1>1
      <3> QED
        BY <3>1, <2>i DEF NotForgotten
    <2>12. AckComes' /\ NoAnswerYet'
      BY <1>0, <2>1, <2>4, <1>3 DEF AckComes, NoAnswerYet
    <2>13. Undamaged'
      BY <1>0, <2>1, <2>3, <1>2 DEF Undamaged
    <2>14. InStep'
      BY <1>0, <2>1, <2>3, <1>t DEF InStep
    <2>15. OneDamage'
      BY <1>0, <2>1, <2>3 DEF OneDamage
    <2> QED
      BY <2>7, <2>8, <2>9, <2>10, <2>11, <2>12, <2>13, <2>14, <2>15 DEF PacketsInv
  <1>8. CASE ~IsPacket(Head(out)) /\ Head(out).cmd # "-"
    <2>1. gdb' = [gdb EXCEPT !.st = "answer"] /\ in' = in
      BY <1>0, <1>8 DEF GdbAck
    <2>2. gdb'.st = "answer" /\ gdb'.n = gdb.n /\ gdb' \in [st : {"idle", "sent", "answer", "over"}, n : Nat, cmd : Cmds \cup {"none"}, took : Nat]
      BY <2>1, <1>t DEF PacketsTyped
    <2>3. ~OnWay
      BY <1>0, <1>1, <1>8, <1>o, <1>t DEF OutInOrder
    <2>4. \A i \in 1..Len(out') : IsPacket(out'[i]) /\ out'[i].n = gdb.n /\ out'[i].cmd = "answer"
      <3>1. PICK j \in 1..Len(out) :
                   /\ ~IsPacket(out[j]) /\ out[j].cmd = "+"
                   /\ \A i \in 1..(j - 1) : IsPacket(out[i]) /\ out[i].n < gdb.n
                   /\ \A i \in (j + 1)..Len(out) : IsPacket(out[i]) /\ out[i].n = gdb.n
        BY <2>3, <1>0, <1>t DEF OutInOrder
      <3>2. 1 \in 1..(j - 1) \/ j = 1
        BY <1>o
      <3>3. j = 1
        BY <3>1, <3>2, <1>8, <1>o
      <3>4. \A i \in 1..Len(out') : i + 1 \in (j + 1)..Len(out)
        BY <3>3, <1>o
      <3> QED
        BY <3>1, <3>4, <1>o, <1>t DEF OutInOrder
    <2>5. \A i \in 1..Len(in) : ~IsPacket(in[i])
      BY <2>3, <1>t DEF OneCommandComes
    <2>6. PacketsTyped'
      BY <1>0, <1>o, <2>1, <2>2, <1>t DEF PacketsTyped
    <2>7. RanInOrder'
      BY <1>0, <1>1, <2>2, <2>3, <1>t, <1>p DEF RanInOrder
    <2>8. OneCommandComes'
      BY <1>0, <2>1, <2>2, <2>5, <1>t DEF OneCommandComes
    <2>9. OutInOrder'
      BY <2>2, <2>4 DEF OutInOrder
    <2>10. NotForgotten'
      BY <2>2 DEF NotForgotten
    <2>11. AckComes'
      <3>1. (\E i \in 1..Len(out) : out[i].n = gdb.n) => \E i \in 1..Len(out') : out'[i].n = gdb.n
        BY <1>4, <1>o, <2>3
      <3>2. stub.pc = "ack" => in # <<>> \/ \E i \in 1..Len(out) : out[i].n = gdb.n
        BY <1>0, <2>3, <1>t DEF AckComes
      <3> QED
        BY <1>0, <2>1, <2>2, <3>1, <3>2 DEF AckComes
    <2>12. NoAnswerYet'
      BY <1>0, <1>3, <2>2 DEF NoAnswerYet
    <2>13. Undamaged'
      BY <1>0, <1>2, <1>5, <2>2, <2>3, <1>t DEF Undamaged, GoodAnswer
    <2>14. InStep'
      <3>1. Tail(<<Char("+"), Answer(TRUE)>>) = <<Answer(TRUE)>> /\ Tail(<<Char("+")>>) = <<>>
        BY RestOf
      <3>2. Answer(TRUE)' = Answer(TRUE)
        BY <2>2 DEF Answer
      <3> QED
        BY <1>0, <2>1, <2>2, <2>3, <3>1, <3>2, <1>t DEF InStep
    <2>15. OneDamage'
      <3>1. Tail(<<Char("+"), Answer(FALSE)>>) = <<Answer(FALSE)>>
        BY RestOf
      <3>2. Answer(FALSE)' = Answer(FALSE)
        BY <2>2 DEF Answer
      <3>3. out # <<Answer(FALSE)>>
        <4>1. ASSUME out = <<Answer(FALSE)>> PROVE FALSE
          <5>1. out[1] = Answer(FALSE) /\ Answer(FALSE).n = gdb.n
            BY <4>1 DEF Answer
          <5> QED
            BY <5>1, <1>8, <1>1, <1>o
        <4> QED
          BY <4>1
      <3> QED
        BY <1>0, <1>5, <2>1, <2>2, <2>3, <3>1, <3>2, <3>3, <1>t DEF OneDamage, GoodAnswer
    <2> QED
      BY <2>6, <2>7, <2>8, <2>9, <2>10, <2>11, <2>12, <2>13, <2>14, <2>15 DEF PacketsInv
  <1> QED
    BY <1>6, <1>7, <1>8

\* GDB refuses an answer, or takes it.
LEMMA GdbAnswerKeeps ==
  ASSUME PacketsInv, GdbAnswer
  PROVE  PacketsInv'
  <1>t. PacketsTyped /\ RanInOrder /\ OneCommandComes /\ OutInOrder /\ NotForgotten /\ AckComes /\ NoAnswerYet /\ Undamaged /\ InStep /\ OneDamage
    BY DEF PacketsInv
  <1>p. /\ stub.pc \in {"get", "ack", "poll", "end"} /\ stub.n \in Nat /\ stub.copies \in Nat
        /\ stub.then \in {"get", "end"}
        /\ gdb.st \in {"idle", "sent", "answer", "over"} /\ gdb.n \in Nat
        /\ Len(in) \in Nat /\ Len(out) \in Nat /\ Len(ran) \in Nat
        /\ \A i \in 1..Len(in) : in[i].n \in Nat
        /\ \A i \in 1..Len(out) : out[i].n \in Nat
    BY <1>t, Parts
  <1>0. /\ gdb.st = "answer" /\ out # <<>> /\ out' = Tail(out)
        /\ stub' = stub /\ ran' = ran /\ damage' = damage /\ keys' = keys
    BY DEF GdbAnswer
  <1>o. /\ out' \in Seq(ToGdb) /\ Len(out') = Len(out) - 1 /\ Len(out) > 0 /\ Head(out) = out[1] /\ Len(out) \in Nat
        /\ \A i \in 1..Len(out') : out'[i] = out[i + 1] /\ i + 1 \in 1..Len(out) /\ i + 1 # 1
        /\ \A i \in 1..Len(out) : i # 1 => out[i] = out'[i - 1] /\ i - 1 \in 1..Len(out')
    BY <1>0, <1>t, FirstGone DEF PacketsTyped
  <1>1. /\ gdb.n > 0 /\ Len(ran) = gdb.n /\ ~OnWay /\ 1 \in 1..Len(out)
        /\ \A i \in 1..Len(out) : IsPacket(out[i]) /\ out[i].n = gdb.n
    BY <1>0, <1>o, <1>t, <1>p DEF RanInOrder, OutInOrder
  <1>2. \A i \in 1..Len(out') : IsPacket(out'[i]) /\ out'[i].n = gdb.n /\ out'[i].cmd = "answer"
    BY <1>1, <1>o, <1>t DEF OutInOrder
  <1>3. damage = 0 => \A i \in 1..Len(out') : out'[i].ok
    BY <1>o, <1>t DEF Undamaged
  <1>4. \A i \in 1..Len(in) : ~IsPacket(in[i]) /\ in[i].cmd \notin Cmds
    BY <1>0, <1>t DEF OneCommandComes
  <1>5. stub.pc # "poll"
    BY <1>1, <1>t, <1>p DEF NoAnswerYet
  <1>6. CASE ~Head(out).ok
    <2>1. in' = Append(in, Char("-")) /\ gdb' = gdb
      BY <1>0, <1>1, <1>o, <1>6 DEF GdbAnswer
    <2>2. Char("-") \in ToServer /\ Char("-").n = 0 /\ Char("-").cmd = "-"
      BY PacketTyped, PacketIs
    <2>i. /\ in' \in Seq(ToServer) /\ in' # <<>>
          /\ \A i \in 1..Len(in) : i \in 1..Len(in') /\ in'[i] = in[i]
          /\ \A i \in 1..Len(in') : (i \in 1..Len(in) /\ in'[i] = in[i]) \/ (i = Len(in) + 1 /\ in'[i] = Char("-"))
          /\ Len(in) + 1 \in 1..Len(in') /\ in'[Len(in) + 1] = Char("-")
      <3>1. in \in Seq(ToServer)
        BY <1>t DEF PacketsTyped
      <3>2. in' = Behind(in, Char("-"))
        BY <2>1, <2>2 DEF Behind
      <3>3. PICK x \in ToServer : x = Char("-")
        BY <2>1, <2>2
      <3>4. LET t == Behind(in, x)
            IN  /\ t \in Seq(ToServer) /\ t # <<>>
                /\ \A i \in 1..Len(in) : i \in 1..Len(t) /\ t[i] = in[i]
                /\ \A i \in 1..Len(t) : (i \in 1..Len(in) /\ t[i] = in[i]) \/ (i = Len(in) + 1 /\ t[i] = x)
                /\ Len(in) + 1 \in 1..Len(t) /\ t[Len(in) + 1] = x
        BY <3>1, OneBehind
      <3> QED
        BY <3>2, <3>3, <3>4, Zenon
    <2>3. PacketsTyped'
      BY <1>0, <1>o, <2>1, <2>i, <1>t DEF PacketsTyped
    <2>4. RanInOrder'
      BY <1>0, <2>1, <1>t DEF RanInOrder
    <2>5. OneCommandComes'
      <3>1. \A i \in 1..Len(in') : ~IsPacket(in'[i]) /\ in'[i].cmd \notin Cmds
        BY <1>4, <2>2, <2>i
      <3> QED
        BY <1>0, <2>1, <3>1 DEF OneCommandComes
    <2>6. OutInOrder'
      BY <1>0, <1>2, <2>1 DEF OutInOrder
    <2>7. NotForgotten'
      BY <1>0, <2>1 DEF NotForgotten
    <2>8. AckComes' /\ NoAnswerYet'
      BY <1>0, <1>5, <2>i DEF AckComes, NoAnswerYet
    <2>9. damage # 0
      BY <1>1, <1>6, <1>o, <1>t DEF Undamaged
    <2>10. Undamaged' /\ InStep'
      BY <1>0, <2>9 DEF Undamaged, InStep
    <2>11. OneDamage'
      <3>1. GoodAnswer => GoodAnswer'
        <4>1. GoodAnswer => \E i \in 1..Len(out') : out'[i].n = gdb.n /\ out'[i].ok
          BY <1>o, <1>6 DEF GoodAnswer
        <4> QED
          BY <2>1, <4>1 DEF GoodAnswer
      <3>2. out # <<Char("+"), Answer(FALSE)>>
        <4>1. ASSUME NEW x, out = <<Char("+"), x>> PROVE FALSE
          <5>1. out[1] = Char("+")
            BY <4>1
          <5> QED
            BY <5>1, <1>1, PacketIs
        <4> QED
          BY <4>1
      <3>3. out = <<Answer(FALSE)>> => out' = <<>>
        BY <1>0
      <3>4. in = <<>> => in' = <<Char("-")>>
        BY <2>1
      <3> QED
        BY <1>0, <1>1, <2>1, <3>1, <3>2, <3>3, <3>4, <1>t DEF OneDamage
    <2> QED
      BY <2>3, <2>4, <2>5, <2>6, <2>7, <2>8, <2>10, <2>11 DEF PacketsInv
  <1>7. CASE Head(out).ok
    <2>1. /\ in' = Append(in, Char("+"))
          /\ gdb' = [gdb EXCEPT !.st = IF gdb.cmd = "detach" THEN "over" ELSE "idle", !.took = Head(out).n]
      BY <1>0, <1>1, <1>o, <1>7 DEF GdbAnswer
    <2>2. /\ gdb'.st \in {"idle", "over"} /\ gdb'.n = gdb.n /\ gdb'.took = gdb.n
          /\ gdb' \in [st : {"idle", "sent", "answer", "over"}, n : Nat, cmd : Cmds \cup {"none"}, took : Nat]
      <3>1. gdb \in [st : {"idle", "sent", "answer", "over"}, n : Nat, cmd : Cmds \cup {"none"}, took : Nat]
        BY <1>t DEF PacketsTyped
      <3>2. Head(out).n = gdb.n /\ (IF gdb.cmd = "detach" THEN "over" ELSE "idle") \in {"idle", "over"}
        BY <1>1, <1>o
      <3> QED
        BY <2>1, <3>1, <3>2
    <2>3. Char("+") \in ToServer /\ Char("+").n = 0 /\ Char("+").cmd = "+"
      BY PacketTyped, PacketIs
    <2>i. /\ in' \in Seq(ToServer) /\ in' # <<>>
          /\ \A i \in 1..Len(in) : i \in 1..Len(in') /\ in'[i] = in[i]
          /\ \A i \in 1..Len(in') : (i \in 1..Len(in) /\ in'[i] = in[i]) \/ (i = Len(in) + 1 /\ in'[i] = Char("+"))
          /\ Len(in) + 1 \in 1..Len(in') /\ in'[Len(in) + 1] = Char("+")
      <3>1. in \in Seq(ToServer)
        BY <1>t DEF PacketsTyped
      <3>2. in' = Behind(in, Char("+"))
        BY <2>1, <2>3 DEF Behind
      <3>3. PICK x \in ToServer : x = Char("+")
        BY <2>1, <2>3
      <3>4. LET t == Behind(in, x)
            IN  /\ t \in Seq(ToServer) /\ t # <<>>
                /\ \A i \in 1..Len(in) : i \in 1..Len(t) /\ t[i] = in[i]
                /\ \A i \in 1..Len(t) : (i \in 1..Len(in) /\ t[i] = in[i]) \/ (i = Len(in) + 1 /\ t[i] = x)
                /\ Len(in) + 1 \in 1..Len(t) /\ t[Len(in) + 1] = x
        BY <3>1, OneBehind
      <3> QED
        BY <3>2, <3>3, <3>4, Zenon
    <2>4. PacketsTyped'
      BY <1>0, <1>o, <2>2, <2>i, <1>t DEF PacketsTyped
    <2>5. RanInOrder'
      BY <1>0, <1>1, <1>5, <2>2, <1>t DEF RanInOrder
    <2>6. OneCommandComes'
      <3>1. \A i \in 1..Len(in') : ~IsPacket(in'[i]) /\ in'[i].cmd \notin Cmds
        BY <1>4, <2>3, <2>i
      <3> QED
        BY <3>1, <2>3, <2>i DEF OneCommandComes
    <2>7. OutInOrder'
      BY <1>2, <2>2 DEF OutInOrder
    <2>8. NotForgotten' /\ OneDamage'
      BY <2>2 DEF NotForgotten, OneDamage
    <2>9. AckComes' /\ NoAnswerYet'
      BY <1>0, <1>5, <2>2 DEF AckComes, NoAnswerYet
    <2>10. Undamaged'
      BY <1>0, <1>3, <2>2 DEF Undamaged
    <2>11. InStep'
      <3>1. damage = 0 /\ keys = 0 => in = <<>> /\ out = <<Answer(TRUE)>> /\ stub.pc = "ack"
        BY <1>0, <1>t DEF InStep
      <3>2. out = <<Answer(TRUE)>> => out' = <<>>
        BY <1>0
      <3>3. in = <<>> => in' = <<Char("+")>>
        BY <2>1
      <3> QED
        BY <1>0, <2>2, <3>1, <3>2, <3>3 DEF InStep
    <2> QED
      BY <2>4, <2>5, <2>6, <2>7, <2>8, <2>9, <2>10, <2>11 DEF PacketsInv
  <1> QED
    BY <1>6, <1>7

\* What is damaged stays where it is.
LEMMA DamagedStays ==
  ASSUME NEW S, NEW C, S = [n : Nat, cmd : C, ok : BOOLEAN], NEW s \in Seq(S), NEW i \in 1..Len(s)
  PROVE  /\ Damaged(s, i) \in Seq(S) /\ Len(Damaged(s, i)) = Len(s)
         /\ \A j \in 1..Len(s) : /\ Damaged(s, i)[j].n = s[j].n /\ Damaged(s, i)[j].cmd = s[j].cmd
                                 /\ j # i => Damaged(s, i)[j] = s[j]
  <1> DEFINE d == Damaged(s, i)
  <1>1. s[i] \in S /\ [s[i] EXCEPT !.ok = FALSE] \in S
        /\ [s[i] EXCEPT !.ok = FALSE].n = s[i].n /\ [s[i] EXCEPT !.ok = FALSE].cmd = s[i].cmd
    <2>1. s[i] \in S
      BY ElementOfSeq
    <2>2. s[i] \in [n : Nat, cmd : C, ok : BOOLEAN]
      BY <2>1
    <2>3. [s[i] EXCEPT !.ok = FALSE] \in [n : Nat, cmd : C, ok : BOOLEAN]
          /\ [s[i] EXCEPT !.ok = FALSE].n = s[i].n /\ [s[i] EXCEPT !.ok = FALSE].cmd = s[i].cmd
      BY <2>2
    <2> QED
      BY <2>1, <2>3
  <1>2. d = [s EXCEPT ![i] = [s[i] EXCEPT !.ok = FALSE]]
    BY DEF Damaged
  <1> HIDE DEF d
  <1> DEFINE x == [s[i] EXCEPT !.ok = FALSE]
  <1>3. d = [s EXCEPT ![i] = x]
    BY <1>2
  <1>4. x \in S /\ x.n = s[i].n /\ x.cmd = s[i].cmd
    BY <1>1
  <1> HIDE DEF x
  <1>5. d \in Seq(S) /\ Len(d) = Len(s) /\ \A j \in 1..Len(s) : d[j] = IF j = i THEN x ELSE s[j]
    BY <1>3, <1>4, ExceptSeq
  <1> QED
    BY <1>4, <1>5 DEF d

\* Damage changes no number and no order.
LEMMA DamageKeeps ==
  ASSUME PacketsInv, Damage
  PROVE  PacketsInv'
  <1>t. PacketsTyped /\ RanInOrder /\ OneCommandComes /\ OutInOrder /\ NotForgotten /\ AckComes /\ NoAnswerYet /\ Undamaged /\ InStep /\ OneDamage
    BY DEF PacketsInv
  <1>p. /\ stub.pc \in {"get", "ack", "poll", "end"} /\ stub.n \in Nat /\ stub.copies \in Nat
        /\ stub.then \in {"get", "end"}
        /\ gdb.st \in {"idle", "sent", "answer", "over"} /\ gdb.n \in Nat
        /\ Len(in) \in Nat /\ Len(out) \in Nat /\ Len(ran) \in Nat
        /\ \A i \in 1..Len(in) : in[i].n \in Nat
        /\ \A i \in 1..Len(out) : out[i].n \in Nat
    BY <1>t, Parts
  <1>0. damage' = damage + 1 /\ stub' = stub /\ gdb' = gdb /\ ran' = ran /\ keys' = keys
    BY DEF Damage
  <1>1. damage \in Nat /\ damage' \in Nat /\ damage' # 0 /\ (damage' = 1 => damage = 0)
    BY <1>0, <1>t DEF PacketsTyped
  <1>2. Undamaged' /\ InStep'
    BY <1>1 DEF Undamaged, InStep
  <1>3. RanInOrder'
    BY <1>0, <1>t DEF RanInOrder
  <1>4. CASE \E i \in {j \in DOMAIN in : IsPacket(in[j])} : in' = Damaged(in, i) /\ UNCHANGED out
    <2>1. PICK i \in DOMAIN in : IsPacket(in[i]) /\ in' = Damaged(in, i) /\ out' = out
      BY <1>4
    <2>2. i \in 1..Len(in) /\ in \in Seq(ToServer)
      BY <2>1, <1>t DEF PacketsTyped
    <2>3. /\ in' \in Seq(ToServer) /\ Len(in') = Len(in)
          /\ \A j \in 1..Len(in) : in'[j].n = in[j].n /\ in'[j].cmd = in[j].cmd
      <3>1. /\ Damaged(in, i) \in Seq(ToServer) /\ Len(Damaged(in, i)) = Len(in)
            /\ \A j \in 1..Len(in) : Damaged(in, i)[j].n = in[j].n /\ Damaged(in, i)[j].cmd = in[j].cmd
        BY <2>2, DamagedStays DEF ToServer
      <3> QED
        BY <2>1, <3>1
    <2>4. OnWay
      BY <2>1, <2>2, <1>t DEF OneCommandComes
    <2>5. PacketsTyped'
      BY <1>0, <1>1, <2>1, <2>3, <1>t DEF PacketsTyped
    <2>6. OneCommandComes'
      <3>1. ASSUME NEW k \in 1..Len(in'), IsPacket(in'[k])
            PROVE  /\ gdb.st = "sent"
                   /\ in'[k].n = gdb.n /\ in'[k].cmd = gdb.cmd
                   /\ \A j \in 1..Len(in') : IsPacket(in'[j]) => j = k
                   /\ \A j \in 1..Len(out) : IsPacket(out[j])
                   /\ stub.pc = "ack" => \E j \in 1..(k - 1) : in'[j].cmd = "+"
        <4>1. k \in 1..Len(in) /\ IsPacket(in[k]) /\ \A j \in 1..(k - 1) : j \in 1..Len(in)
          BY <2>3, <3>1, <1>p
        <4>2. /\ gdb.st = "sent"
              /\ in[k].n = gdb.n /\ in[k].cmd = gdb.cmd
              /\ \A j \in 1..Len(in) : IsPacket(in[j]) => j = k
              /\ \A j \in 1..Len(out) : IsPacket(out[j])
              /\ stub.pc = "ack" => \E j \in 1..(k - 1) : in[j].cmd = "+"
          BY <4>1, <1>t DEF OneCommandComes
        <4> QED
          BY <4>1, <4>2, <2>3
      <3>2. \A k \in 1..Len(in') : ~IsPacket(in'[k]) => in'[k].cmd \notin Cmds
        BY <2>3, <1>t DEF OneCommandComes
      <3>3. gdb.st # "idle"
        BY <2>1, <2>2, <1>t DEF OneCommandComes
      <3> QED
        BY <1>0, <2>1, <2>4, <3>1, <3>2, <3>3 DEF OneCommandComes
    <2>7. OutInOrder'
      BY <1>0, <2>1, <1>t DEF OutInOrder
    <2>8. NotForgotten'
      BY <1>0, <2>1, <2>3, <1>t DEF NotForgotten
    <2>9. AckComes' /\ OneDamage'
      BY <1>0, <2>4 DEF AckComes, OneDamage
    <2>10. NoAnswerYet'
      BY <1>0, <2>1, <1>t DEF NoAnswerYet
    <2> QED
      BY <1>2, <1>3, <2>5, <2>6, <2>7, <2>8, <2>9, <2>10 DEF PacketsInv
  <1>5. CASE \E i \in {j \in DOMAIN out : IsPacket(out[j])} : out' = Damaged(out, i) /\ UNCHANGED in
    <2>1. PICK i \in DOMAIN out : IsPacket(out[i]) /\ out' = Damaged(out, i) /\ in' = in
      BY <1>5
    <2>2. i \in 1..Len(out) /\ out \in Seq(ToGdb)
      BY <2>1, <1>t DEF PacketsTyped
    <2>3. /\ out' \in Seq(ToGdb) /\ Len(out') = Len(out)
          /\ \A j \in 1..Len(out) : out'[j].n = out[j].n /\ out'[j].cmd = out[j].cmd
      <3>1. /\ Damaged(out, i) \in Seq(ToGdb) /\ Len(Damaged(out, i)) = Len(out)
            /\ \A j \in 1..Len(out) : Damaged(out, i)[j].n = out[j].n /\ Damaged(out, i)[j].cmd = out[j].cmd
        BY <2>2, DamagedStays DEF ToGdb
      <3> QED
        BY <2>1, <3>1
    <2>5. PacketsTyped'
      BY <1>0, <1>1, <2>1, <2>3, <1>t DEF PacketsTyped
    <2>6. OneCommandComes'
      BY <1>0, <2>1, <2>3, <1>t DEF OneCommandComes
    <2>7. OutInOrder'
      <3>1. \A k \in 1..Len(out') : IsPacket(out'[k]) => out'[k].cmd = "answer"
        BY <2>3, <1>t DEF OutInOrder
      <3>2. gdb.st # "sent" => \A k \in 1..Len(out') : out'[k].n = gdb.n /\ IsPacket(out'[k])
        BY <2>3, <1>t DEF OutInOrder
      <3>3. ASSUME gdb.st = "sent", OnWay
            PROVE  \A k \in 1..Len(out') :
                     /\ IsPacket(out'[k]) => out'[k].n = Len(ran)
                     /\ ~IsPacket(out'[k]) =>
                          /\ out'[k].cmd = "-" /\ stub.pc # "ack"
                          /\ \A j \in 1..Len(out') : ~IsPacket(out'[j]) => j = k
        <4>1. \A k \in 1..Len(out) :
                     /\ IsPacket(out[k]) => out[k].n = Len(ran)
                     /\ ~IsPacket(out[k]) =>
                          /\ out[k].cmd = "-" /\ stub.pc # "ack"
                          /\ \A j \in 1..Len(out) : ~IsPacket(out[j]) => j = k
          BY <3>3, <1>t DEF OutInOrder
        <4> QED
          BY <4>1, <2>3
      <3>4. ASSUME gdb.st = "sent", ~OnWay
            PROVE  \E j \in 1..Len(out') :
                     /\ ~IsPacket(out'[j]) /\ out'[j].cmd = "+"
                     /\ \A k \in 1..(j - 1) : IsPacket(out'[k]) /\ out'[k].n < gdb.n
                     /\ \A k \in (j + 1)..Len(out') : IsPacket(out'[k]) /\ out'[k].n = gdb.n
        <4>1. PICK j \in 1..Len(out) :
                     /\ ~IsPacket(out[j]) /\ out[j].cmd = "+"
                     /\ \A k \in 1..(j - 1) : IsPacket(out[k]) /\ out[k].n < gdb.n
                     /\ \A k \in (j + 1)..Len(out) : IsPacket(out[k]) /\ out[k].n = gdb.n
          BY <3>4, <1>t DEF OutInOrder
        <4>2. (\A k \in 1..(j - 1) : k \in 1..Len(out)) /\ (\A k \in (j + 1)..Len(out) : k \in 1..Len(out))
          BY <1>p
        <4> QED
          BY <4>1, <4>2, <2>3
      <3> QED
        BY <1>0, <3>1, <3>2, <3>3, <3>4 DEF OutInOrder
    <2>8. NotForgotten'
      BY <1>0, <2>1, <2>3, <1>t DEF NotForgotten
    <2>9. AckComes' /\ NoAnswerYet'
      BY <1>0, <2>1, <2>3, <1>t DEF AckComes, NoAnswerYet
    <2>10. OneDamage'
      <3> SUFFICES ASSUME damage' = 1, keys' = 0, Answering', stub'.pc \in {"ack", "get"}
                   PROVE  stub'.pc = "ack" /\ in' = <<>> /\ out' \in {<<Char("+"), Answer(FALSE)'>>, <<Answer(FALSE)'>>}
        BY DEF OneDamage
      <3>1. damage = 0 /\ keys = 0 /\ gdb.st \in {"sent", "answer"} /\ ~OnWay /\ stub.pc \in {"ack", "get"}
        BY <1>0, <1>1
      <3>2. stub.pc = "ack" /\ in = <<>> /\ (out = <<Char("+"), Answer(TRUE)>> \/ out = <<Answer(TRUE)>>)
        BY <3>1, <1>t DEF InStep
      <3>3. Damaged(<<Answer(TRUE)>>, 1) = <<Answer(FALSE)>> /\ Damaged(<<Char("+"), Answer(TRUE)>>, 2) = <<Char("+"), Answer(FALSE)>>
        <4> DEFINE a == Answer(TRUE)
                   b == Answer(FALSE)
        <4>1. [a EXCEPT !.ok = FALSE] = b
          <5>1. \A x \in ToGdb, y \in ToGdb : x.n = y.n /\ x.cmd = y.cmd /\ x.ok = y.ok => x = y
            BY DEF ToGdb
          <5>2. a \in ToGdb /\ a.n = gdb.n /\ a.cmd = "answer"
            BY <1>p DEF Answer, ToGdb
          <5>3. b \in ToGdb /\ b.n = gdb.n /\ b.cmd = "answer" /\ b.ok = FALSE
            BY <1>p DEF Answer, ToGdb
          <5> HIDE DEF a, b
          <5> DEFINE c == [a EXCEPT !.ok = FALSE]
          <5>4. c \in ToGdb /\ c.n = a.n /\ c.cmd = a.cmd /\ c.ok = FALSE
            BY <5>2 DEF ToGdb
          <5> HIDE DEF c
          <5>5. c = b
            BY <5>1, <5>2, <5>3, <5>4
          <5> QED
            BY <5>5 DEF c
        <4> HIDE DEF a, b
        <4>2. \A c : [<<a>> EXCEPT ![1] = b] = <<b>> /\ [<<c, a>> EXCEPT ![2] = b] = <<c, b>>
          OBVIOUS
        <4>3. \A c : Damaged(<<a>>, 1) = [<<a>> EXCEPT ![1] = b] /\ Damaged(<<c, a>>, 2) = [<<c, a>> EXCEPT ![2] = b]
          BY <4>1 DEF Damaged
        <4> QED
          BY <4>2, <4>3, Zenon DEF a, b
      <3>4. out = <<Answer(TRUE)>> => i = 1
        BY <2>2
      <3>5. out = <<Char("+"), Answer(TRUE)>> => i = 2
        <4>1. out = <<Char("+"), Answer(TRUE)>> => out[1] = Char("+") /\ i \in {1, 2}
          BY <2>2
        <4> QED
          BY <4>1, <2>1, PacketIs
      <3>6. Answer(FALSE)' = Answer(FALSE)
        BY <1>0 DEF Answer
      <3> QED
        BY <1>0, <2>1, <3>2, <3>3, <3>4, <3>5, <3>6
    <2> QED
      BY <1>2, <1>3, <2>5, <2>6, <2>7, <2>8, <2>9, <2>10 DEF PacketsInv
  <1> QED
    BY <1>4, <1>5 DEF Damage

\* Nothing changes.
LEMMA PacketsStutter ==
  ASSUME PacketsInv, UNCHANGED pktvars
  PROVE  PacketsInv'
  BY DEF pktvars, PacketsInv, PacketsTyped, RanInOrder, OneCommandComes, OutInOrder, NotForgotten,
     AckComes, NoAnswerYet, Undamaged, GoodAnswer, InStep, Answer, OneDamage

\* Commands are run once and in order, an answer is that of its command, and GDB
\* and the server do not wait for each other, whatever the number of commands, keys
\* and damaged packets.
THEOREM AnswersOnce == PacketsSpec => []EachAnswered
  <1>1. PacketsInit => PacketsInv
    BY PacketsInvInit
  <1>2. PacketsInv /\ [PacketsNext]_pktvars => PacketsInv'
    BY putpacketKeeps, SkipKeeps, RefuseKeeps, ObeyKeeps, ExceptionKeeps, GdbSendKeeps, GdbAckKeeps,
       GdbAnswerKeeps, GdbBreakKeeps, DamageKeeps, PacketsStutter DEF PacketsNext
  <1>3. PacketsInv => EachAnswered
    <2> SUFFICES ASSUME PacketsInv PROVE EachAnswered
      OBVIOUS
    <2>t. PacketsTyped /\ RanInOrder /\ OneCommandComes /\ OutInOrder /\ NotForgotten /\ AckComes /\ NoAnswerYet /\ Undamaged /\ InStep /\ OneDamage
      BY DEF PacketsInv
    <2>p. /\ stub.pc \in {"get", "ack", "poll", "end"} /\ stub.n \in Nat /\ stub.copies \in Nat
          /\ stub.then \in {"get", "end"}
          /\ gdb.st \in {"idle", "sent", "answer", "over"} /\ gdb.n \in Nat
          /\ Len(in) \in Nat /\ Len(out) \in Nat /\ Len(ran) \in Nat
          /\ \A i \in 1..Len(in) : in[i].n \in Nat
          /\ \A i \in 1..Len(out) : out[i].n \in Nat
      BY <2>t, Parts
    <2>1. ran = [i \in 1..Len(ran) |-> i] /\ (gdb.st = "idle" => gdb.took = gdb.n /\ Len(ran) = gdb.n)
      BY <2>t DEF RanInOrder
    <2>2. ASSUME damage = 0 \/ (damage = 1 /\ keys = 0), in = <<>>, out = <<>>, stub.pc \in {"get", "ack"},
                 gdb.st \in {"sent", "answer"}
          PROVE  FALSE
      <3>1. ~OnWay
        <4>1. gdb.st = "answer" => ~OnWay
          BY <2>t, <2>p DEF RanInOrder
        <4>2. gdb.st = "sent" => ~OnWay
          BY <2>2, <2>t DEF NotForgotten
        <4> QED
          BY <2>2, <4>1, <4>2
      <3>2. gdb.st = "answer"
        BY <2>2, <3>1, <2>t DEF OutInOrder
      <3>3. stub.pc = "get"
        BY <2>2, <3>1, <3>2, <2>t DEF AckComes
      <3>4. ~GoodAnswer
        BY <2>2 DEF GoodAnswer
      <3> QED
        BY <2>2, <3>1, <3>2, <3>3, <3>4, <2>t DEF Undamaged, OneDamage
    <2> QED
      BY <2>1, <2>2 DEF EachAnswered, Quiet, Waits
  <1> QED
    BY <1>1, <1>2, <1>3, PTL DEF PacketsSpec

LEMMA Least ==
  ASSUME NEW T \in SUBSET Nat, T # {}
  PROVE  \E m \in T : \A k \in T : m <= k
  <1>1. PICK x \in T : \A y \in T : ~(<<y, x>> \in OpToRel(<, Nat))
    BY NatLessThanWellFounded, WFMin
  <1>2. \A y \in T : ~(y < x)
    BY <1>1 DEF OpToRel
  <1> QED
    BY <1>2

-----------------------------------------------------------------------------
(* The memory.  Recursion over the numbers to n.                            *)

LEMMA ModuloRange ==
  ASSUME NEW x \in Int, NEW m \in Nat \ {0}
  PROVE  x % m \in 0..(m - 1)
  OBVIOUS

LEMMA SmallModulo ==
  ASSUME NEW m \in Nat \ {0}, NEW x \in 0..(m - 1)
  PROVE  x % m = x
  OBVIOUS

LEMMA Quotient ==
  ASSUME NEW l \in Nat, NEW r \in Nat, r # 0
  PROVE  l \div r \in 0..l
  <1>1. PICK q : q = l \div r
    OBVIOUS
  <1>2. q \in Int /\ r * q <= l /\ l < r * (q + 1)
    BY <1>1
  <1>3. q >= 0
    BY <1>2
  <1>4. q <= l
    BY <1>2, <1>3
  <1> QED
    BY <1>1, <1>2, <1>3, <1>4

\* What holds of 0 and goes on holds of every number.
LEMMA AllNumbers ==
  ASSUME NEW T, 0 \in T, \A k \in Nat : k \in T => k + 1 \in T
  PROVE  Nat \subseteq T
  <1> SUFFICES ASSUME Nat \ T # {} PROVE FALSE
    OBVIOUS
  <1>1. PICK U \in SUBSET Nat : U = Nat \ T
    OBVIOUS
  <1>2. PICK m \in U : \A k \in U : ~(<<k, m>> \in OpToRel(<, Nat))
    BY <1>1, NatLessThanWellFounded, WFMin
  <1>2a. m \in Nat /\ m \notin T
    BY <1>1, <1>2
  <1>2b. m # 0
    BY <1>2a
  <1>3. m \in Nat /\ m - 1 \in Nat /\ m - 1 < m /\ (m - 1) + 1 = m
    BY <1>2a, <1>2b
  <1>4. m - 1 \in T
    BY <1>1, <1>2, <1>3 DEF OpToRel
  <1> QED
    BY <1>1, <1>2, <1>3, <1>4

\* A function that is stepped n times.
LEMMA Stepped ==
  ASSUME NEW S, NEW first \in S, NEW n \in Nat, NEW next \in [1..n -> [S -> S]]
  PROVE  \E g \in [0..n -> S] : g[0] = first /\ \A k \in 1..n : g[k] = next[k][g[k - 1]]
  <1> DEFINE Good(g, m) == g \in [0..m -> S] /\ g[0] = first /\ \A k \in 1..m : g[k] = next[k][g[k - 1]]
             T == {m \in Nat : m <= n => \E g : Good(g, m)}
  <1>1. 0 \in T
    <2> DEFINE h == [k \in 0..0 |-> first]
    <2>1. Good(h, 0)
      OBVIOUS
    <2> QED
      BY <2>1
  <1>2. ASSUME NEW m \in Nat, m \in T PROVE m + 1 \in T
    <2> SUFFICES ASSUME m + 1 <= n PROVE \E g : Good(g, m + 1)
      OBVIOUS
    <2>1. PICK g : Good(g, m)
      BY <1>2
    <2>2. m + 1 \in 1..n /\ m \in 0..m /\ g[m] \in S
      BY <2>1
    <2>3. PICK v : v = next[m + 1][g[m]] /\ v \in S
      BY <2>2
    <2> DEFINE h == [k \in 0..(m + 1) |-> IF k = m + 1 THEN v ELSE g[k]]
    <2>4. h \in [0..(m + 1) -> S]
      BY <2>1, <2>3
    <2>5. ASSUME NEW k \in 1..(m + 1) PROVE h[k] = next[k][h[k - 1]]
      <3>1. k - 1 \in 0..m /\ h[k - 1] = g[k - 1]
        OBVIOUS
      <3>2. CASE k = m + 1
        BY <2>3, <3>1, <3>2
      <3>3. CASE k # m + 1
        BY <2>1, <3>1, <3>3
      <3> QED
        BY <3>2, <3>3
    <2>6. h[0] = first
      BY <2>1
    <2>7. Good(h, m + 1)
      BY <2>4, <2>5, <2>6
    <2> QED
      BY <2>7
  <1> HIDE DEF T
  <1>3. n \in T
    BY <1>1, <1>2, AllNumbers
  <1> QED
    BY <1>3 DEF T

-----------------------------------------------------------------------------
(* Regions.                                                                 *)

MemTyped == mem \in [Addr -> Byte] /\ protoff \in BOOLEAN /\ dump \in Addr

\* What a command may touch.
Reach == IF protoff THEN Addr ELSE Mapped

LEMMA ReachIs == Reach \subseteq Addr /\ {} \in SUBSET Reach
  BY DEF Reach, Mapped

LEMMA ByteTyped == ASSUME MemTyped, NEW a \in Int PROVE ByteAt(a) \in Byte /\ ByteAt(a) \in Nat
  <1>1. a % Limit \in Addr
    BY ModuloRange, MemoryAssumption DEF Addr
  <1> QED
    BY <1>1, MemoryAssumption DEF MemTyped, ByteAt, Byte

LEMMA WordTyped == ASSUME MemTyped, NEW a \in Int PROVE WordAt(a) \in Addr
  <1>1. PICK b0, b1, b2, b3 \in Nat : b0 = ByteAt(a) /\ b1 = ByteAt(a + 1) /\ b2 = ByteAt(a + 2) /\ b3 = ByteAt(a + 3)
    BY ByteTyped
  <1>2. PICK w \in Int : w = b0 + Radix * (b1 + Radix * (b2 + Radix * b3))
    <2>1. Radix * b3 \in Int
      BY MemoryAssumption
    <2>2. PICK x \in Int : x = b2 + Radix * b3
      BY <2>1
    <2>3. PICK y \in Int : y = b1 + Radix * x
      BY MemoryAssumption
    <2>4. PICK z \in Int : z = b0 + Radix * y
      BY MemoryAssumption
    <2> QED
      BY <2>2, <2>3, <2>4
  <1> QED
    BY <1>1, <1>2, ModuloRange, MemoryAssumption DEF WordAt, Addr

\* What is left of the region an address is in.
LEMMA Left ==
  ASSUME NEW a \in Addr, NEW write
  PROVE  LET left == memValidate(a, write)
         IN  \/ left = 0
             \/ protoff /\ left = Page
             \/ \E r \in Region : /\ r.base \in Nat /\ r.size \in Nat /\ r.base + r.size < Limit
                                  /\ r.base % 4 = 0 /\ r.size % 4 = 0 /\ (r.v1only => V1)
                                  /\ r.base <= a /\ a < r.base + r.size
                                  /\ left = r.size - (a - r.base)
  <1> DEFINE good == {r \in RegionsOf(a) : (write => r.write) /\ (r.v1only => V1)}
             n == IF good = {} THEN 0 ELSE LET r == CHOOSE q \in good : TRUE IN r.size - (a - r.base)
  <1>1. memValidate(a, write) = IF protoff /\ n = 0 THEN Page ELSE n
    BY DEF memValidate
  <1>2. CASE good = {}
    BY <1>1, <1>2
  <1>3. CASE good # {}
    <2>1. PICK r : r = CHOOSE q \in good : TRUE
      OBVIOUS
    <2>2. r \in good /\ n = r.size - (a - r.base)
      BY <1>3, <2>1
    <2>3. r \in Region /\ r.base <= a /\ a < r.base + r.size /\ (r.v1only => V1)
      BY <2>2 DEF RegionsOf
    <2>4. r.base \in Nat /\ r.size \in Nat /\ r.base + r.size < Limit /\ r.base % 4 = 0 /\ r.size % 4 = 0
      BY <2>3, MemoryAssumption
    <2> HIDE DEF n, good
    <2> QED
      BY <1>1, <2>2, <2>3, <2>4
  <1> QED
    BY <1>2, <1>3

LEMMA LeftTyped == ASSUME NEW a \in Addr, NEW write PROVE memValidate(a, write) \in Nat
  <1>1. PICK left : left = memValidate(a, write)
    OBVIOUS
  <1>2. CASE left = 0
    BY <1>1, <1>2
  <1>3. CASE left = Page
    BY <1>1, <1>3, MemoryAssumption
  <1>4. ASSUME NEW r \in Region, r.base \in Nat, r.size \in Nat, r.base <= a, a < r.base + r.size,
               left = r.size - (a - r.base)
        PROVE  left \in Nat
    BY <1>4 DEF Addr
  <1> QED
    BY <1>1, <1>2, <1>3, <1>4, Left

\* All that is left is in a region.
LEMMA Inside ==
  ASSUME NEW a \in Addr, NEW write, NEW n \in Int, n <= memValidate(a, write)
  PROVE  Span(a, n) \in SUBSET Reach
  <1>1. Span(a, n) \subseteq Addr
    <2> SUFFICES ASSUME NEW i \in 0..(n - 1) PROVE (a + i) % Limit \in Addr
      BY DEF Span
    <2>1. a + i \in Int
      BY DEF Addr
    <2> QED
      BY <2>1, ModuloRange, MemoryAssumption DEF Addr
  <1>2. ASSUME ~protoff, NEW i \in 0..(n - 1) PROVE (a + i) % Limit \in Mapped
    <2>1. PICK left : left = memValidate(a, write)
      OBVIOUS
    <2>2. n <= left /\ i < n /\ i \in Nat /\ left \in Nat
      BY <2>1, LeftTyped
    <2>2a. left # 0
      BY <2>2
    <2>3. PICK r \in Region : /\ r.base \in Nat /\ r.size \in Nat /\ r.base + r.size < Limit /\ (r.v1only => V1)
                              /\ r.base <= a /\ a < r.base + r.size
                              /\ left = r.size - (a - r.base)
      BY <1>2, <2>1, <2>2a, Left
    <2>4. PICK x : x = a + i
      OBVIOUS
    <2>5. PICK b, z, l \in Nat : b = r.base /\ z = r.size /\ l = Limit
      BY <2>3, MemoryAssumption
    <2>5a. a \in Nat /\ b <= a /\ i < left /\ left = z - (a - b) /\ b + z < l
      BY <2>2, <2>3, <2>5, MemoryAssumption DEF Addr
    <2>5b. x \in 0..(l - 1) /\ x >= b /\ x < b + z /\ l \in Nat \ {0}
      BY <2>2, <2>4, <2>5, <2>5a
    <2>6. x % Limit = x
      BY <2>5, <2>5b, SmallModulo
    <2>7. x \in Mapped
      BY <2>3, <2>5, <2>5b DEF Mapped, Addr
    <2> QED
      BY <2>4, <2>6, <2>7
  <1>3. ~protoff => Span(a, n) \subseteq Mapped
    BY <1>2 DEF Span
  <1> QED
    BY <1>1, <1>3 DEF Reach

\* A whole number of words is left at the address of one.
LEMMA WholeLeft ==
  ASSUME ~protoff, NEW a \in Addr, NEW write, NEW width \in {1, 2, 4}, a % width = 0
  PROVE  memValidate(a, write) % width = 0
  <1>1. PICK left : left = memValidate(a, write)
    OBVIOUS
  <1>2. CASE left = 0
    <2>1. 0 % 1 = 0 /\ 0 % 2 = 0 /\ 0 % 4 = 0
      OBVIOUS
    <2> QED
      BY <1>1, <1>2, <2>1
  <1>3. ASSUME NEW r \in Region, r.base \in Nat, r.size \in Nat, r.base % 4 = 0, r.size % 4 = 0,
               r.base <= a, a < r.base + r.size, left = r.size - (a - r.base)
        PROVE  left % width = 0
    <2>1. PICK b, z \in Nat : b = r.base /\ z = r.size
      BY <1>3
    <2>2. a \in Nat /\ b % 4 = 0 /\ z % 4 = 0 /\ left = z - (a - b) /\ b <= a /\ a < b + z
      BY <1>3, <2>1, MemoryAssumption DEF Addr
    <2> QED
      BY <2>2
  <1> QED
    BY <1>1, <1>2, <1>3, Left

LEMMA AlignedIs ==
  ASSUME NEW n \in Nat, NEW width \in {1, 2, 4}
  PROVE  /\ Aligned(n, width) \in Nat /\ Aligned(n, width) <= n /\ Aligned(n, width) % width = 0
  <1>1. CASE width = 1
    BY <1>1 DEF Aligned
  <1>2. CASE width = 2
    BY <1>2 DEF Aligned
  <1>3. CASE width = 4
    BY <1>3 DEF Aligned
  <1> QED
    BY <1>1, <1>2, <1>3

LEMMA AlignedAddr ==
  ASSUME NEW a \in Addr, NEW width \in {1, 2, 4}
  PROVE  Aligned(a, width) \in Addr /\ Aligned(a, width) % width = 0
  <1>1. PICK l \in Nat : l = Limit
    BY MemoryAssumption
  <1>2. a \in Nat /\ a < l
    BY <1>1 DEF Addr
  <1>3. PICK x : x = Aligned(a, width)
    OBVIOUS
  <1>4. x \in Nat /\ x <= a /\ x % width = 0
    BY <1>2, <1>3, AlignedIs
  <1> QED
    BY <1>1, <1>2, <1>3, <1>4 DEF Addr

-----------------------------------------------------------------------------
(* Expressions.                                                             *)

Derefs == [ok : BOOLEAN, val : Addr, read : SUBSET Reach]

LEMMA DerefTyped ==
  ASSUME MemTyped, NEW v \in Addr
  PROVE  Deref(v) \in Derefs
  <1>1. 0 \in Addr /\ v \in Int
    BY MemoryAssumption DEF Addr
  <1>2. CASE v % 4 # 0 \/ memValidate(v, FALSE) < 4
    BY <1>1, <1>2, ReachIs DEF Deref, Derefs
  <1>3. CASE ~(v % 4 # 0 \/ memValidate(v, FALSE) < 4)
    <2>1. PICK w, left : w = FALSE /\ left = memValidate(v, w)
      BY Zenon
    <2>1a. left = memValidate(v, FALSE)
      BY <2>1, Zenon
    <2>1b. left \in Nat
      BY <2>1, LeftTyped
    <2>1c. ~(left < 4)
      BY <1>3, <2>1a, Zenon
    <2>1d. 4 <= left
      BY <2>1b, <2>1c
    <2>2. Span(v, 4) \in SUBSET Reach
      BY <2>1, <2>1d, Inside
    <2>3. WordAt(v) \in Addr
      BY <1>1, WordTyped
    <2> QED
      BY <1>3, <2>2, <2>3 DEF Deref, Derefs
  <1> QED
    BY <1>2, <1>3

LEMMA DerefNextTyped ==
  ASSUME MemTyped, NEW acc \in Derefs
  PROVE  DerefNext(acc) \in Derefs
  <1>1. PICK d : d = Deref(acc.val)
    OBVIOUS
  <1>2. acc.val \in Addr /\ acc.read \in SUBSET Reach
    BY DEF Derefs
  <1>3. d \in Derefs
    BY <1>1, <1>2, DerefTyped
  <1>4. d.read \cup acc.read \in SUBSET Reach
    BY <1>2, <1>3 DEF Derefs
  <1>5. [d EXCEPT !.read = d.read \cup acc.read] \in Derefs
    BY <1>3, <1>4 DEF Derefs
  <1> QED
    BY <1>1, <1>5 DEF DerefNext

LEMMA DerefAllTyped ==
  ASSUME MemTyped, NEW v \in Addr, NEW n \in Nat
  PROVE  DerefAll(v, n) \in Derefs
  <1> DEFINE first == [ok |-> TRUE, val |-> v, read |-> {}]
             Body(g) == [k \in 0..n |-> IF k = 0 THEN first ELSE DerefNext(g[k - 1])]
             next == [k \in 1..n |-> [s \in Derefs |-> DerefNext(s)]]
             acc == CHOOSE g : g = Body(g)
  <1>1. first \in Derefs
    BY ReachIs DEF Derefs
  <1>2. next \in [1..n -> [Derefs -> Derefs]]
    BY DerefNextTyped
  <1>3. ASSUME NEW k \in 1..n, NEW s \in Derefs PROVE next[k][s] = DerefNext(s)
    BY <1>3
  <1> HIDE DEF first, next
  <1>4. PICK h \in [0..n -> Derefs] : h[0] = first /\ \A k \in 1..n : h[k] = next[k][h[k - 1]]
    <2>1. PICK S, f, t : S = Derefs /\ f = first /\ t = next
      OBVIOUS
    <2>2. f \in S /\ t \in [1..n -> [S -> S]]
      BY <1>1, <1>2, <2>1
    <2>3. \E h \in [0..n -> S] : h[0] = f /\ \A k \in 1..n : h[k] = t[k][h[k - 1]]
      BY <2>2, Stepped
    <2> QED
      BY <2>1, <2>3
  <1>5. ASSUME NEW k \in 1..n PROVE h[k] = DerefNext(h[k - 1])
    <2>1. h[k - 1] \in Derefs
      BY <1>4
    <2> QED
      BY <1>3, <1>4, <2>1
  <1>6. h = Body(h)
    <2>1. ASSUME NEW k \in 0..n PROVE h[k] = IF k = 0 THEN first ELSE DerefNext(h[k - 1])
      BY <1>4, <1>5
    <2> QED
      BY <1>4, <2>1
  <1>7. acc = Body(acc)
    <2> DEFINE Is(g) == g = Body(g)
    <2>1. Is(h)
      BY <1>6
    <2> HIDE DEF Is
    <2>2. Is(CHOOSE g : Is(g))
      BY <2>1
    <2> QED
      BY <2>2 DEF Is
  <1> HIDE DEF acc
  <1>8. acc[0] = first /\ \A k \in 1..n : acc[k] = DerefNext(acc[k - 1])
    BY <1>7
  <1> DEFINE T == {k \in Nat : k <= n => acc[k] \in Derefs}
  <1>9. 0 \in T
    BY <1>1, <1>8
  <1>10. ASSUME NEW k \in Nat, k \in T PROVE k + 1 \in T
    <2> SUFFICES ASSUME k + 1 <= n PROVE acc[k + 1] \in Derefs
      OBVIOUS
    <2>1. k + 1 \in 1..n /\ (k + 1) - 1 = k /\ acc[k] \in Derefs
      BY <1>10
    <2>2. DerefNext(acc[k]) \in Derefs
      BY <2>1, DerefNextTyped
    <2> QED
      BY <1>8, <2>1, <2>2
  <1> HIDE DEF T
  <1>11. n \in T
    BY <1>9, <1>10, AllNumbers
  <1>12. acc[n] \in Derefs
    BY <1>11 DEF T
  <1> QED
    BY <1>12 DEF acc, first, DerefAll

Operators == {"+", "-", "*", "/", "==", "<", "~"}
States == [ok : BOOLEAN, val : Addr, op : Operators \cup {"none", "start"}, deref : Nat, not : Nat, read : SUBSET Reach]

LEMMA OpTyped ==
  ASSUME NEW op, NEW l \in Addr, NEW r \in Addr
  PROVE  do_op(op, l, r) \in Addr
  <1>1. PICK m \in Nat \ {0} : m = Limit
    BY MemoryAssumption
  <1>2. Addr = 0..(m - 1)
    BY <1>1 DEF Addr
  <1>3. l \in Nat /\ r \in Nat /\ l < m /\ r < m
    BY <1>2
  <1>4. PICK x, y, z \in Int : x = l + r /\ y = l - r /\ z = l * r
    <2>1. l + r \in Int /\ l - r \in Int /\ l * r \in Int
      BY <1>3
    <2> QED
      BY <2>1
  <1>5. x % m \in Addr /\ y % m \in Addr /\ z % m \in Addr
    BY <1>2, <1>4, ModuloRange
  <1>6. r # 0 => l \div r \in Addr
    <2> SUFFICES ASSUME r # 0 PROVE l \div r \in Addr
      OBVIOUS
    <2>1. PICK q : q = l \div r
      OBVIOUS
    <2>2. q \in 0..l
      BY <1>3, <2>1, Quotient
    <2> QED
      BY <1>2, <1>3, <2>1, <2>2
  <1>7. 0 \in Addr /\ 1 \in Addr
    BY <1>1, <1>2, MemoryAssumption
  <1>8. PICK p, q, u, v : /\ p = (l + r) % Limit /\ q = (l - r) % Limit
                          /\ u = (l * r) % Limit /\ v = l \div r
    OBVIOUS
  <1>9. p \in Addr /\ q \in Addr /\ u \in Addr /\ (r # 0 => v \in Addr)
    BY <1>1, <1>4, <1>5, <1>6, <1>8
  <1>10. PICK b, c, e : b = (IF r = 0 THEN 1 ELSE v) /\ c = (IF l = r THEN 1 ELSE 0) /\ e = (IF l < r THEN 1 ELSE 0)
    OBVIOUS
  <1>11. b \in Addr /\ c \in Addr /\ e \in Addr
    BY <1>7, <1>9, <1>10
  <1>12. do_op(op, l, r) = CASE op = "+" -> p [] op = "-" -> q [] op = "*" -> u [] op = "/" -> b
                             [] op = "==" -> c [] op = "<" -> e [] OTHER -> r
    BY <1>8, <1>10 DEF do_op
  <1> QED
    BY <1>9, <1>11, <1>12

LEMMA OperandTyped ==
  ASSUME MemTyped, NEW acc \in States, NEW t \in Addr
  PROVE  Operand(acc, t) \in States
  <1>1. PICK d : d = DerefAll(t, acc.deref)
    OBVIOUS
  <1>2. d \in Derefs
    BY <1>1, DerefAllTyped DEF States
  <1>3. d.val \in Addr /\ d.read \in SUBSET Reach /\ d.ok \in BOOLEAN
    BY <1>2 DEF Derefs
  <1>4. PICK r : r = IF acc.not % 2 = 1 THEN Limit - 1 - d.val ELSE d.val
    OBVIOUS
  <1>5. r \in Addr
    <2>1. PICK m \in Nat \ {0} : m = Limit
      BY MemoryAssumption
    <2>2. d.val \in 0..(m - 1)
      BY <1>3, <2>1 DEF Addr
    <2>3. m - 1 - d.val \in 0..(m - 1)
      BY <2>2
    <2> QED
      BY <1>3, <1>4, <2>1, <2>3 DEF Addr
  <1>6. PICK v \in Addr : v = do_op(acc.op, acc.val, r)
    BY <1>5, OpTyped DEF States
  <1>7. PICK w \in SUBSET Reach : w = acc.read \cup d.read
    BY <1>3 DEF States
  <1>8. [acc EXCEPT !.ok = FALSE, !.read = w] \in States
    BY <1>7 DEF States
  <1>9. [ok |-> TRUE, val |-> v, op |-> "none", deref |-> 0, not |-> 0, read |-> w] \in States
    BY <1>6, <1>7 DEF States
  <1> HIDE DEF States
  <1> QED
    BY <1>1, <1>4, <1>6, <1>7, <1>8, <1>9 DEF Operand

LEMMA TokenTyped ==
  ASSUME MemTyped, NEW acc \in States, NEW t \in Tokens
  PROVE  Token(acc, t) \in States
  <1>1. t.kind = "num" => t.n \in Addr
    BY DEF Tokens
  <1>2. t.kind # "num" => t.kind \in Operators
    BY DEF Tokens, Operators
  <1>3. acc.deref \in Nat /\ acc.not \in Nat
    BY DEF States
  <1>4. PICK x, y \in Nat : x = acc.deref + 1 /\ y = acc.not + 1
    BY <1>3
  <1>5. /\ [acc EXCEPT !.deref = x] \in States /\ [acc EXCEPT !.not = y] \in States
        /\ [acc EXCEPT !.ok = FALSE] \in States
    BY <1>4 DEF States
  <1>6. t.kind # "num" => [acc EXCEPT !.op = t.kind] \in States
    BY <1>2 DEF States
  <1>7. t.kind = "num" => Operand(acc, t.n) \in States
    BY <1>1, OperandTyped
  <1> QED
    BY <1>4, <1>5, <1>6, <1>7 DEF Token

LEMMA DecodeTyped ==
  ASSUME MemTyped, NEW x \in Exprs
  PROVE  memDecode(x) \in States
  <1> DEFINE first == [ok |-> TRUE, val |-> 0, op |-> "start", deref |-> 0, not |-> 0, read |-> {}]
             Body(g) == [k \in 0..Len(x) |-> IF k = 0 THEN first ELSE Token(g[k - 1], x[k])]
             next == [k \in 1..Len(x) |-> [s \in States |-> Token(s, x[k])]]
             acc == CHOOSE g : g = Body(g)
  <1>1. x \in Seq(Tokens) /\ Len(x) \in Nat /\ \A k \in 1..Len(x) : x[k] \in Tokens
    BY MemoryAssumption, ElementOfSeq
  <1>2. PICK n \in Nat : n = Len(x)
    BY <1>1
  <1>3. first \in States
    <2>1. 0 \in Addr
      BY MemoryAssumption DEF Addr
    <2> QED
      BY <2>1, ReachIs DEF States
  <1>4. next \in [1..n -> [States -> States]]
    <2>1. ASSUME NEW k \in 1..n, NEW s \in States PROVE Token(s, x[k]) \in States
      BY <1>1, <1>2, TokenTyped
    <2> HIDE DEF States
    <2> QED
      BY <1>2, <2>1
  <1>5. ASSUME NEW k \in 1..n, NEW s \in States PROVE next[k][s] = Token(s, x[k])
    BY <1>2, <1>5
  <1> HIDE DEF first, next, States
  <1>6. PICK h \in [0..n -> States] : h[0] = first /\ \A k \in 1..n : h[k] = next[k][h[k - 1]]
    <2>1. PICK S, f, t : S = States /\ f = first /\ t = next
      OBVIOUS
    <2>2. f \in S /\ t \in [1..n -> [S -> S]]
      BY <1>3, <1>4, <2>1
    <2>3. \E h \in [0..n -> S] : h[0] = f /\ \A k \in 1..n : h[k] = t[k][h[k - 1]]
      BY <2>2, Stepped
    <2> QED
      BY <2>1, <2>3
  <1>7. ASSUME NEW k \in 1..n PROVE h[k] = Token(h[k - 1], x[k])
    <2>1. h[k - 1] \in States
      BY <1>6
    <2> QED
      BY <1>5, <1>6, <2>1
  <1>8. h = Body(h)
    <2>1. ASSUME NEW k \in 0..n PROVE h[k] = IF k = 0 THEN first ELSE Token(h[k - 1], x[k])
      BY <1>6, <1>7
    <2> QED
      BY <1>2, <1>6, <2>1
  <1>9. acc = Body(acc)
    <2> DEFINE Is(g) == g = Body(g)
    <2>1. Is(h)
      BY <1>8
    <2> HIDE DEF Is
    <2>2. Is(CHOOSE g : Is(g))
      BY <2>1
    <2> QED
      BY <2>2 DEF Is
  <1> HIDE DEF acc
  <1>10. acc[0] = first /\ \A k \in 1..n : acc[k] = Token(acc[k - 1], x[k])
    BY <1>2, <1>9
  <1> DEFINE T == {k \in Nat : k <= n => acc[k] \in States}
  <1>11. 0 \in T
    BY <1>3, <1>10
  <1>12. ASSUME NEW k \in Nat, k \in T PROVE k + 1 \in T
    <2> SUFFICES ASSUME k + 1 <= n PROVE acc[k + 1] \in States
      OBVIOUS
    <2>1. k + 1 \in 1..n /\ (k + 1) - 1 = k /\ acc[k] \in States
      BY <1>12
    <2>2. Token(acc[k], x[k + 1]) \in States
      BY <1>1, <1>2, <2>1, TokenTyped
    <2> QED
      BY <1>10, <2>1, <2>2
  <1> HIDE DEF T
  <1>13. n \in T
    BY <1>11, <1>12, AllNumbers
  <1>14. acc[n] \in States
    BY <1>13 DEF T
  <1> QED
    BY <1>2, <1>14 DEF acc, first, memDecode

\* What a command gets of an expression.
LEMMA Decoding ==
  ASSUME MemTyped, NEW x \in Exprs, NEW d, d = memDecode(x)
  PROVE  d.val \in Addr /\ d.read \in SUBSET Reach
  BY DecodeTyped DEF States

LEMMA DecodedIs ==
  ASSUME MemTyped, NEW d \in Decoded
  PROVE  d.val \in Addr /\ d.read \in SUBSET Reach
  BY Decoding DEF Decoded

-----------------------------------------------------------------------------
(* The commands.                                                            *)

MemInv == MemTyped /\ NoStray

\* What memValidate says to a command that reads, and to one that writes.
RoomLeft(a, left) == left \in Nat /\ \A n \in Int : n <= left => Span(a, n) \in SUBSET Reach

LEMMA RoomOf ==
  ASSUME NEW a \in Addr
  PROVE  RoomLeft(a, memValidate(a, FALSE)) /\ RoomLeft(a, memValidate(a, TRUE))
  <1>1. \A w : RoomLeft(a, memValidate(a, w))
    BY LeftTyped, Inside DEF RoomLeft
  <1> QED
    BY <1>1, Zenon

LEMMA WholeRoom ==
  ASSUME ~protoff, NEW a \in Addr, NEW width \in {1, 2, 4}, a % width = 0
  PROVE  memValidate(a, FALSE) % width = 0 /\ memValidate(a, TRUE) % width = 0
  <1>1. \A w : memValidate(a, w) % width = 0
    BY WholeLeft
  <1> QED
    BY <1>1, Zenon

LEMMA SpanTyped == ASSUME NEW a \in Addr, NEW n \in Int PROVE Span(a, n) \in SUBSET Addr
  <1> SUFFICES ASSUME NEW i \in 0..(n - 1) PROVE (a + i) % Limit \in Addr
    BY DEF Span
  <1>1. a + i \in Int
    BY DEF Addr
  <1> QED
    BY <1>1, ModuloRange, MemoryAssumption DEF Addr

LEMMA CommandKeeps ==
  ASSUME MemTyped, NEW read \in SUBSET Reach, NEW write \in SUBSET Reach, NEW v \in Byte,
         Command(read, write, v), protoff' = protoff, dump' \in Addr
  PROVE  MemInv'
  <1>1. touched' = read \cup write /\ mem' = [a \in Addr |-> IF a \in write THEN v ELSE mem[a]]
    BY DEF Command
  <1>2. mem' \in [Addr -> Byte]
    BY <1>1 DEF MemTyped
  <1>3. ~protoff => touched' \subseteq Mapped
    BY <1>1 DEF Reach
  <1> QED
    BY <1>2, <1>3 DEF MemInv, MemTyped, NoStray, Mapped

LEMMA NothingWritten == 0 \in Byte /\ {} \in SUBSET Reach
  BY MemoryAssumption DEF Byte

LEMMA LesserIs ==
  ASSUME NEW a \in Int, NEW b \in Int
  PROVE  Lesser(a, b) \in Int /\ Lesser(a, b) <= a /\ Lesser(a, b) <= b /\ (Lesser(a, b) = a \/ Lesser(a, b) = b)
  BY DEF Lesser

\* A poke stays within what is left, which is a whole number of values.
LEMMA PokeFits ==
  ASSUME NEW left \in Nat, NEW n \in Nat, NEW width \in {1, 2, 4}
  PROVE  /\ width * PokeRoom(left, n, width) \in Int
         /\ left % width = 0 => width * PokeRoom(left, n, width) <= left
  <1>1. CASE width = 1
    BY <1>1 DEF PokeRoom, Lesser
  <1>2. CASE width = 2
    BY <1>2 DEF PokeRoom, Lesser
  <1>3. CASE width = 4
    BY <1>3 DEF PokeRoom, Lesser
  <1> QED
    BY <1>1, <1>2, <1>3

LEMMA pokeKeeps == ASSUME MemInv, NEW width \in {1, 2, 4}, poke_cmd(width) PROVE MemInv'
  <1>1. PICK d \in Decoded, n \in 1..3, v \in Bytes :
          LET a == Aligned(d.val, width)
          IN  Command(d.read, Span(a, width * PokeRoom(memValidate(a, TRUE), n, width)), v) /\ UNCHANGED <<protoff, dump, found>>
    BY DEF poke_cmd
  <1>2. MemTyped /\ d.val \in Addr /\ d.read \in SUBSET Reach /\ v \in Byte
    BY DecodedIs, MemoryAssumption DEF MemInv
  <1>3. PICK a, left, k : a = Aligned(d.val, width) /\ left = memValidate(a, TRUE) /\ k = width * PokeRoom(left, n, width)
    OBVIOUS
  <1>4. a \in Addr /\ a % width = 0
    BY <1>2, <1>3, AlignedAddr
  <1>5. RoomLeft(a, left) /\ left \in Nat
    BY <1>3, <1>4, RoomOf DEF RoomLeft
  <1>6. k \in Int /\ (left % width = 0 => k <= left)
    <2>0. k = width * PokeRoom(left, n, width)
      BY <1>3, Zenon
    <2>1. n \in Nat /\ left \in Nat
      BY <1>5
    <2>2. PICK x : x = width * PokeRoom(left, n, width)
      OBVIOUS
    <2>3. x \in Int /\ (left % width = 0 => x <= left)
      BY <2>1, <2>2, PokeFits
    <2> QED
      BY <2>0, <2>2, <2>3
  <1>7. Span(a, k) \in SUBSET Reach
    <2>1. CASE protoff
      BY <1>4, <1>6, <2>1, SpanTyped DEF Reach
    <2>2. CASE ~protoff
      <3>1. left % width = 0
        BY <1>3, <1>4, <2>2, WholeRoom
      <3> QED
        BY <1>5, <1>6, <3>1 DEF RoomLeft
    <2> QED
      BY <2>1, <2>2
  <1>8. Command(d.read, Span(a, k), v) /\ protoff' = protoff /\ dump' = dump
    BY <1>1, <1>3
  <1>9. dump' \in Addr
    BY <1>2, <1>8 DEF MemTyped
  <1> QED
    BY <1>2, <1>7, <1>8, <1>9, CommandKeeps

LEMMA pokesKeeps == ASSUME MemInv, pokes_cmd PROVE MemInv'
  <1>1. PICK d \in Decoded, n \in Sizes, v \in Bytes :
          memValidate(d.val, TRUE) >= n + 1 /\ Command(d.read, Span(d.val, n + 1), v) /\ UNCHANGED <<protoff, dump, found>>
    BY DEF pokes_cmd
  <1>2. MemTyped /\ d.val \in Addr /\ d.read \in SUBSET Reach /\ v \in Byte /\ n \in Nat /\ dump \in Addr
    BY DecodedIs, MemoryAssumption DEF MemInv, MemTyped
  <1>3. PICK a, left, k : a = d.val /\ left = memValidate(a, TRUE) /\ k = n + 1
    OBVIOUS
  <1>4. RoomLeft(a, left) /\ left \in Nat
    BY <1>2, <1>3, RoomOf DEF RoomLeft
  <1>5. k \in Int /\ k <= left
    <2>1. left >= n + 1
      BY <1>1, <1>3, Zenon
    <2>2. k = n + 1
      BY <1>3
    <2> QED
      BY <1>2, <1>4, <2>1, <2>2
  <1>6. Span(a, k) \in SUBSET Reach
    BY <1>4, <1>5 DEF RoomLeft
  <1>7. Command(d.read, Span(a, k), v) /\ protoff' = protoff /\ dump' \in Addr
    BY <1>1, <1>2, <1>3
  <1> QED
    BY <1>2, <1>6, <1>7, CommandKeeps

LEMMA peekKeeps == ASSUME MemInv, NEW width \in {1, 2, 4}, peek_cmd(width) PROVE MemInv'
  <1>1. PICK d \in Decoded :
          LET a == Aligned(d.val, width)
          IN  memValidate(a, FALSE) >= width /\ Command(d.read \cup Span(a, width), {}, 0) /\ UNCHANGED <<protoff, dump, found>>
    BY DEF peek_cmd
  <1>2. MemTyped /\ d.val \in Addr /\ d.read \in SUBSET Reach /\ dump \in Addr
    BY DecodedIs DEF MemInv, MemTyped
  <1>3. PICK a, left : a = Aligned(d.val, width) /\ left = memValidate(a, FALSE)
    OBVIOUS
  <1>4. a \in Addr
    BY <1>2, <1>3, AlignedAddr
  <1>5. RoomLeft(a, left) /\ left \in Nat
    BY <1>3, <1>4, RoomOf DEF RoomLeft
  <1>6. width \in Int /\ width <= left
    <2>1. left >= width
      BY <1>1, <1>3, Zenon
    <2> QED
      BY <1>5, <2>1
  <1>7. d.read \cup Span(a, width) \in SUBSET Reach
    BY <1>2, <1>5, <1>6 DEF RoomLeft
  <1>8. Command(d.read \cup Span(a, width), {}, 0) /\ protoff' = protoff /\ dump' \in Addr
    BY <1>1, <1>2, <1>3
  <1> QED
    BY <1>2, <1>7, <1>8, CommandKeeps, NothingWritten

LEMMA fillKeeps == ASSUME MemInv, NEW width \in {1, 2, 4}, fill_cmd(width) PROVE MemInv'
  <1>1. PICK d \in Decoded, n \in Sizes, v \in Bytes :
          LET a == Aligned(d.val, width)
          IN  Command(d.read, Span(a, Aligned(Lesser(n, memValidate(a, TRUE)), width)), v) /\ UNCHANGED <<protoff, dump, found>>
    BY DEF fill_cmd
  <1>2. MemTyped /\ d.val \in Addr /\ d.read \in SUBSET Reach /\ v \in Byte /\ n \in Nat /\ dump \in Addr
    BY DecodedIs, MemoryAssumption DEF MemInv, MemTyped
  <1>3. PICK a, left, m, k : a = Aligned(d.val, width) /\ left = memValidate(a, TRUE) /\ m = Lesser(n, left) /\ k = Aligned(m, width)
    OBVIOUS
  <1>4. a \in Addr
    BY <1>2, <1>3, AlignedAddr
  <1>5. RoomLeft(a, left) /\ left \in Nat
    BY <1>3, <1>4, RoomOf DEF RoomLeft
  <1>6. m \in Nat /\ m <= left
    <2>1. m = Lesser(n, left) /\ n \in Nat /\ left \in Nat
      BY <1>2, <1>3, <1>5
    <2> QED
      BY <2>1 DEF Lesser
  <1>7. k \in Nat /\ k <= m
    BY <1>3, <1>6, AlignedIs
  <1>8. Span(a, k) \in SUBSET Reach
    BY <1>5, <1>6, <1>7 DEF RoomLeft
  <1>9. Command(d.read, Span(a, k), v) /\ protoff' = protoff /\ dump' \in Addr
    BY <1>1, <1>2, <1>3
  <1> QED
    BY <1>2, <1>8, <1>9, CommandKeeps

LEMMA copymemKeeps == ASSUME MemInv, copymem_cmd PROVE MemInv'
  <1>1. PICK src \in Decoded, dst \in Decoded, n \in Sizes :
          \E size \in {Lesser(n, Lesser(memValidate(src.val, TRUE), memValidate(dst.val, TRUE)))} :
            /\ touched' = src.read \cup dst.read \cup Span(src.val, size) \cup Span(dst.val, size)
            /\ mem' = [a \in Addr |-> IF a \in Span(dst.val, size) THEN ByteAt(src.val + a - dst.val) ELSE mem[a]]
            /\ UNCHANGED <<protoff, dump, found>>
    BY DEF copymem_cmd
  <1>2. /\ MemTyped /\ n \in Nat /\ dump \in Addr
        /\ src.val \in Addr /\ src.read \in SUBSET Reach /\ dst.val \in Addr /\ dst.read \in SUBSET Reach
    BY DecodedIs, MemoryAssumption DEF MemInv, MemTyped
  <1>3. PICK s, t, left, room, size :
          /\ s = src.val /\ t = dst.val /\ left = memValidate(s, TRUE) /\ room = memValidate(t, TRUE)
          /\ size = Lesser(n, Lesser(left, room))
    OBVIOUS
  <1>4. RoomLeft(s, left) /\ RoomLeft(t, room) /\ left \in Nat /\ room \in Nat
    BY <1>2, <1>3, RoomOf DEF RoomLeft
  <1>5. size \in Int /\ size <= left /\ size <= room
    <2>1. PICK m : m = Lesser(left, room)
      OBVIOUS
    <2>2. m \in Nat /\ m <= left /\ m <= room
      BY <1>4, <2>1 DEF Lesser
    <2>3. size = Lesser(n, m)
      BY <1>3, <2>1
    <2> QED
      BY <1>2, <1>4, <2>2, <2>3 DEF Lesser
  <1>6. Span(s, size) \in SUBSET Reach /\ Span(t, size) \in SUBSET Reach
    BY <1>4, <1>5 DEF RoomLeft
  <1>7. /\ touched' = src.read \cup dst.read \cup Span(s, size) \cup Span(t, size)
        /\ mem' = [a \in Addr |-> IF a \in Span(t, size) THEN ByteAt(s + a - t) ELSE mem[a]]
        /\ protoff' = protoff /\ dump' \in Addr
    BY <1>1, <1>2, <1>3
  <1>8. mem' \in [Addr -> Byte]
    <2>1. ASSUME NEW a \in Addr PROVE ByteAt(s + a - t) \in Byte /\ mem[a] \in Byte
      <3>1. s \in Int /\ a \in Int /\ t \in Int
        BY <1>2, <1>3, MemoryAssumption DEF Addr
      <3>2. PICK x \in Int : x = s + a - t
        BY <3>1
      <3> QED
        BY <1>2, <3>2, ByteTyped DEF MemTyped
    <2> QED
      BY <1>7, <2>1
  <1>9. ~protoff => touched' \subseteq Mapped
    BY <1>2, <1>6, <1>7 DEF Reach
  <1> QED
    BY <1>2, <1>7, <1>8, <1>9 DEF MemInv, MemTyped, NoStray, Mapped

\* A piece of what is left.
LEMMA PieceInside ==
  ASSUME MemTyped, NEW a \in Addr, NEW n \in Nat, NEW k \in 0..Lesser(n, memValidate(a, FALSE))
  PROVE  Span(a, k) \in SUBSET Reach
  <1>1. PICK left, m : left = memValidate(a, FALSE) /\ m = Lesser(n, left)
    OBVIOUS
  <1>2. RoomLeft(a, left) /\ left \in Nat
    BY <1>1, RoomOf DEF RoomLeft
  <1>3. m = Lesser(n, left) /\ k \in 0..m
    BY <1>1
  <1>4. m \in Nat /\ m <= left
    BY <1>2, <1>3 DEF Lesser
  <1>5. k \in Int /\ k <= left
    BY <1>2, <1>3, <1>4
  <1> QED
    BY <1>2, <1>5 DEF RoomLeft

LEMMA WholePiece ==
  ASSUME MemTyped, NEW a \in Addr, NEW n \in Nat
  PROVE  Span(a, Lesser(n, memValidate(a, FALSE))) \in SUBSET Reach
  <1>1. PICK left, m : left = memValidate(a, FALSE) /\ m = Lesser(n, left)
    OBVIOUS
  <1>2. left \in Nat
    BY <1>1, RoomOf DEF RoomLeft
  <1>3. m = Lesser(n, left)
    BY <1>1
  <1>4. m \in Nat
    BY <1>2, <1>3 DEF Lesser
  <1>5. m \in 0..m
    BY <1>4
  <1> QED
    BY <1>1, <1>5, PieceInside

LEMMA savememKeeps == ASSUME MemInv, savemem_cmd PROVE MemInv'
  <1>1. PICK d \in Decoded, n \in Sizes :
          /\ \E k \in 0..Lesser(n, memValidate(d.val, FALSE)) : Command(d.read \cup Span(d.val, k), {}, 0)
          /\ UNCHANGED <<protoff, dump, found>>
    BY DEF savemem_cmd
  <1>2. PICK k \in 0..Lesser(n, memValidate(d.val, FALSE)) : Command(d.read \cup Span(d.val, k), {}, 0)
    BY <1>1
  <1>3. MemTyped /\ d.val \in Addr /\ d.read \in SUBSET Reach /\ n \in Nat /\ dump \in Addr
    BY DecodedIs, MemoryAssumption DEF MemInv, MemTyped
  <1>4. d.read \cup Span(d.val, k) \in SUBSET Reach
    BY <1>3, PieceInside
  <1> QED
    BY <1>1, <1>2, <1>3, <1>4, CommandKeeps, NothingWritten

LEMMA loadmemKeeps == ASSUME MemInv, loadmem_cmd PROVE MemInv'
  <1>1. PICK d \in Decoded, n \in Sizes, v \in Bytes :
          /\ \E k \in 0..Lesser(n, memValidate(d.val, FALSE)) : Command(d.read, Span(d.val, k), v)
          /\ UNCHANGED <<protoff, dump, found>>
    BY DEF loadmem_cmd
  <1>2. PICK k \in 0..Lesser(n, memValidate(d.val, FALSE)) : Command(d.read, Span(d.val, k), v)
    BY <1>1
  <1>3. MemTyped /\ d.val \in Addr /\ d.read \in SUBSET Reach /\ n \in Nat /\ dump \in Addr /\ v \in Byte
    BY DecodedIs, MemoryAssumption DEF MemInv, MemTyped
  <1>4. Span(d.val, k) \in SUBSET Reach
    BY <1>3, PieceInside
  <1> QED
    BY <1>1, <1>2, <1>3, <1>4, CommandKeeps

LEMMA disasmKeeps == ASSUME MemInv, disasm_cmd PROVE MemInv'
  <1>1. PICK d \in Decoded, n \in Sizes \ {0} :
          LET a == Aligned(d.val, 4)
          IN  /\ Command(d.read \cup Span(a, 4 * Lesser(n, memValidate(a, FALSE) \div 4)), {}, 0)
              /\ UNCHANGED <<protoff, dump, found>>
    BY DEF disasm_cmd
  <1>2. MemTyped /\ d.val \in Addr /\ d.read \in SUBSET Reach /\ n \in Nat /\ dump \in Addr
    BY DecodedIs, MemoryAssumption DEF MemInv, MemTyped
  <1>3. PICK a, left, words, m : /\ a = Aligned(d.val, 4) /\ left = memValidate(a, FALSE)
                                 /\ words = left \div 4 /\ m = Lesser(n, words)
    OBVIOUS
  <1>4. a \in Addr
    BY <1>2, <1>3, AlignedAddr
  <1>5. RoomLeft(a, left) /\ left \in Nat
    BY <1>3, <1>4, RoomOf DEF RoomLeft
  <1>6. words = left \div 4 /\ m = Lesser(n, words)
    BY <1>3
  <1>7. words \in Nat /\ 4 * words <= left
    BY <1>5, <1>6
  <1>8. m \in Nat /\ m <= words
    BY <1>2, <1>6, <1>7 DEF Lesser
  <1>9. PICK k : k = 4 * m
    OBVIOUS
  <1>10. k \in Int /\ k <= left
    BY <1>5, <1>7, <1>8, <1>9
  <1>11. d.read \cup Span(a, k) \in SUBSET Reach
    BY <1>2, <1>5, <1>10 DEF RoomLeft
  <1>12. Command(d.read \cup Span(a, k), {}, 0) /\ protoff' = protoff /\ dump' \in Addr
    BY <1>1, <1>2, <1>3, <1>9
  <1> QED
    BY <1>2, <1>11, <1>12, CommandKeeps, NothingWritten

LEMMA memdumpKeeps == ASSUME MemInv, memdump_cmd PROVE MemInv'
  <1> DEFINE Pages == {[val |-> (dump + i) % Limit, read |-> {}] : i \in {-Page} \cup (IF dump = 0 THEN {} ELSE {Page})}
  <1>1. PICK d \in Decoded \cup Pages :
          /\ dump' = d.val
          /\ Command(d.read \cup Span(d.val, Lesser(Page, memValidate(d.val, FALSE))), {}, 0)
          /\ UNCHANGED <<protoff, found>>
    BY DEF memdump_cmd
  <1>2. MemTyped /\ dump \in Addr /\ dump \in Int /\ Page \in Nat
    BY MemoryAssumption DEF MemInv, MemTyped, Addr
  <1>3. ASSUME NEW i \in {-Page} \cup (IF dump = 0 THEN {} ELSE {Page}) PROVE (dump + i) % Limit \in Addr
    <2>1. dump + i \in Int
      BY <1>2
    <2> QED
      BY <2>1, ModuloRange, MemoryAssumption DEF Addr
  <1>4. d.val \in Addr /\ d.read \in SUBSET Reach
    <2>1. CASE d \in Decoded
      BY <1>2, <2>1, DecodedIs
    <2>2. CASE d \in Pages
      BY <1>3, <2>2
    <2> QED
      BY <1>1, <2>1, <2>2
  <1>5. d.read \cup Span(d.val, Lesser(Page, memValidate(d.val, FALSE))) \in SUBSET Reach
    BY <1>2, <1>4, WholePiece
  <1> QED
    BY <1>1, <1>2, <1>4, <1>5, CommandKeeps, NothingWritten

LEMMA memprotKeeps == ASSUME MemInv, memprot_cmd PROVE MemInv'
  <1>1. /\ touched' = {} /\ mem' = [a \in Addr |-> mem[a]]
        /\ protoff' = ~protoff /\ dump' = dump
    BY DEF memprot_cmd, Command
  <1>2. mem' \in [Addr -> Byte] /\ protoff' \in BOOLEAN
    BY <1>1 DEF MemInv, MemTyped
  <1> QED
    BY <1>1, <1>2 DEF MemInv, MemTyped, NoStray, Mapped

LEMMA findKeeps == ASSUME MemInv, find_cmd PROVE MemInv'
  <1>1. PICK d \in Decoded, n \in Sizes :
          /\ Command(d.read \cup Span(d.val, Lesser(n, memValidate(d.val, FALSE))), {}, 0)
          /\ UNCHANGED <<protoff, dump>>
    BY DEF find_cmd
  <1>2. MemTyped /\ d.val \in Addr /\ d.read \in SUBSET Reach /\ n \in Nat /\ dump \in Addr
    BY DecodedIs, MemoryAssumption DEF MemInv, MemTyped
  <1>3. d.read \cup Span(d.val, Lesser(n, memValidate(d.val, FALSE))) \in SUBSET Reach
    BY <1>2, WholePiece
  <1> QED
    BY <1>1, <1>2, <1>3, CommandKeeps, NothingWritten

LEMMA errorKeeps == ASSUME MemInv, decode_error PROVE MemInv'
  <1>1. PICK x \in Exprs : Command(memDecode(x).read, {}, 0) /\ UNCHANGED <<protoff, dump, found>>
    BY DEF decode_error
  <1>2. MemTyped /\ memDecode(x).read \in SUBSET Reach /\ dump \in Addr
    BY Decoding DEF MemInv, MemTyped
  <1> QED
    BY <1>1, <1>2, CommandKeeps, NothingWritten

LEMMA MemInvInit == MemInit => MemInv
  <1> SUFFICES ASSUME MemInit PROVE MemInv
    OBVIOUS
  <1>1. 0 \in Addr
    BY MemoryAssumption DEF Addr
  <1>2. MemTyped
    BY <1>1, MemoryAssumption DEF MemInit, MemTyped
  <1> QED
    BY <1>2 DEF MemInit, MemInv, NoStray

LEMMA MemInvNext == MemInv /\ [MemNext]_memvars => MemInv'
  <1> SUFFICES ASSUME MemInv, [MemNext]_memvars PROVE MemInv'
    OBVIOUS
  <1>1. CASE \E width \in {1, 2, 4} : poke_cmd(width) \/ peek_cmd(width) \/ fill_cmd(width)
    BY <1>1, pokeKeeps, peekKeeps, fillKeeps
  <1>2. CASE UNCHANGED memvars
    BY <1>2 DEF memvars, MemInv, MemTyped, NoStray, Mapped
  <1> QED
    BY <1>1, <1>2, pokesKeeps, copymemKeeps, savememKeeps, loadmemKeeps, disasmKeeps, memdumpKeeps,
       memprotKeeps, findKeeps, errorKeeps DEF MemNext

\* With the protection on, no command reads or writes outside of the regions, for any
\* table, memory, expressions and sizes (memValidate, memDecode).
THEOREM NoneStrays == MemSpec => []NoStray
  <1>1. MemInit => MemInv
    BY MemInvInit
  <1>2. MemInv /\ [MemNext]_memvars => MemInv'
    BY MemInvNext
  <1>3. MemInv => NoStray
    BY DEF MemInv
  <1> QED
    BY <1>1, <1>2, <1>3, PTL DEF MemSpec

-----------------------------------------------------------------------------
(* Searches.                                                                *)

\* The places from k on, the first of them, and what a search adds to the rest.
From(M, k) == {m \in M : m >= k}
First(M, k) == {i \in Nat : k + i \in M /\ \A m \in M : m >= k => k + i <= m}
Adds(g, M, k, size) == UNION {{k + i} \cup (IF k + i + 1 < size THEN g[k + i + 1] ELSE {}) : i \in First(M, k)}

LEMMA AddsFrom ==
  ASSUME NEW size \in Nat, NEW M \in SUBSET Nat, \A m \in M : m < size, NEW k \in 0..size, NEW g,
         \A n \in 0..size : n > k => g[n] = From(M, n)
  PROVE  Adds(g, M, k, size) = From(M, k)
  <1>1. CASE From(M, k) = {}
    <2>1. First(M, k) = {}
      BY <1>1 DEF First, From
    <2> QED
      BY <1>1, <2>1 DEF Adds
  <1>2. CASE From(M, k) # {}
    <2>1. PICK U \in SUBSET Nat : U = From(M, k)
      BY DEF From
    <2>2. PICK m0 \in U : \A m \in U : m0 <= m
      BY <1>2, <2>1, Least
    <2>3. m0 \in M /\ m0 \in Nat /\ m0 >= k /\ m0 < size
      BY <2>1, <2>2 DEF From
    <2>4. PICK i0 \in Nat : i0 = m0 - k
      BY <2>3
    <2>5. k + i0 = m0
      BY <2>3, <2>4
    <2>6. First(M, k) = {i0}
      <3>1. i0 \in First(M, k)
        BY <2>1, <2>2, <2>3, <2>5 DEF First, From
      <3>2. ASSUME NEW i \in First(M, k) PROVE i = i0
        <4>1. i \in Nat /\ k + i \in M /\ k + i <= m0
          BY <2>3 DEF First
        <4>2. k + i \in U
          BY <2>1, <4>1 DEF From
        <4>3. m0 <= k + i
          BY <2>2, <4>2
        <4> QED
          BY <2>3, <2>5, <4>1, <4>3
      <3> QED
        BY <3>1, <3>2
    <2>7. Adds(g, M, k, size) = {m0} \cup (IF m0 + 1 < size THEN g[m0 + 1] ELSE {})
      BY <2>5, <2>6 DEF Adds
    <2>8. From(M, k) = {m0} \cup From(M, m0 + 1)
      <3>1. ASSUME NEW m \in M PROVE m >= k <=> m = m0 \/ m >= m0 + 1
        <4>1. m \in Nat /\ (m >= k => m0 <= m)
          BY <2>1, <2>2 DEF From
        <4> QED
          BY <2>3, <4>1
      <3> QED
        BY <2>3, <3>1 DEF From
    <2>9. CASE m0 + 1 < size
      <3>1. m0 + 1 \in 0..size /\ m0 + 1 > k
        BY <2>3, <2>9
      <3> QED
        BY <2>7, <2>8, <2>9, <3>1
    <2>10. CASE ~(m0 + 1 < size)
      <3>1. From(M, m0 + 1) = {}
        <4> SUFFICES ASSUME NEW m \in M, m >= m0 + 1 PROVE FALSE
          BY DEF From
        <4>1. m \in Nat /\ m < size
          OBVIOUS
        <4> QED
          BY <2>3, <2>10, <4>1
      <3> QED
        BY <2>7, <2>8, <2>10, <3>1
    <2> QED
      BY <2>9, <2>10
  <1> QED
    BY <1>1, <1>2

LEMMA FindAllIs ==
  ASSUME NEW addr \in Int, NEW size \in Nat, NEW pat \in Seq(Byte), pat # <<>>
  PROVE  FindAll(addr, size, pat) = {i \in 0..(size - Len(pat)) : Matches(addr + i, pat)}
  <1> DEFINE Body(g) == [k \in 0..size |->
               UNION {{k + i} \cup (IF k + i + Next1(pat) < size THEN g[k + i + Next1(pat)] ELSE {}) :
                        i \in memmem_mask(addr + k, size - k, pat)}]
             f == CHOOSE g : g = Body(g)
  <1>1. PICK M : M = {i \in 0..(size - Len(pat)) : Matches(addr + i, pat)}
    OBVIOUS
  <1>2. PICK len \in Nat \ {0} : len = Len(pat)
    <2>1. Len(pat) \in Nat /\ Len(pat) # 0
      BY EmptySeq, LenProperties
    <2> QED
      BY <2>1
  <1>3. M \in SUBSET Nat /\ \A m \in M : m < size /\ m <= size - len
    BY <1>1, <1>2
  <1>4. ASSUME NEW k \in 0..size PROVE memmem_mask(addr + k, size - k, pat) = First(M, k)
    <2> DEFINE at == {i \in 0..((size - k) - Len(pat)) : Matches((addr + k) + i, pat)}
    <2>1. ASSUME NEW i PROVE i \in at <=> i \in Nat /\ k + i \in M
      <3>1. CASE i \in Nat
        <4>1. (addr + k) + i = addr + (k + i)
          BY <3>1
        <4>2. PICK x, y : x = (addr + k) + i /\ y = addr + (k + i)
          OBVIOUS
        <4>3. Matches(x, pat) <=> Matches(y, pat)
          BY <4>1, <4>2
        <4>4. i \in 0..((size - k) - len) <=> k + i \in 0..(size - len)
          BY <3>1
        <4> QED
          BY <1>1, <1>2, <3>1, <4>2, <4>3, <4>4
      <3>2. CASE i \notin Nat
        BY <3>2
      <3> QED
        BY <3>1, <3>2
    <2>2. memmem_mask(addr + k, size - k, pat) = {i \in at : \A j \in at : i <= j}
      BY DEF memmem_mask
    <2> HIDE DEF at
    <2>3. ASSUME NEW i \in at PROVE (\A j \in at : i <= j) <=> (\A m \in M : m >= k => k + i <= m)
      <3>1. i \in Nat
        BY <2>1
      <3>2. ASSUME \A j \in at : i <= j, NEW m \in M, m >= k PROVE k + i <= m
        <4>1. PICK j \in Nat : j = m - k /\ k + j = m
          BY <1>3, <3>2
        <4>2. j \in at
          BY <2>1, <4>1
        <4> QED
          BY <3>1, <3>2, <4>1, <4>2
      <3>3. ASSUME \A m \in M : m >= k => k + i <= m, NEW j \in at PROVE i <= j
        <4>1. j \in Nat /\ k + j \in M
          BY <2>1
        <4> QED
          BY <3>1, <3>3, <4>1
      <3> QED
        BY <3>2, <3>3
    <2> QED
      BY <2>1, <2>2, <2>3 DEF First
  <1> HIDE DEF First
  <1>5. ASSUME NEW g PROVE Body(g) = [k \in 0..size |-> Adds(g, M, k, size)]
    BY <1>4 DEF Adds, Next1
  <1> HIDE DEF Body
  <1> DEFINE h == [k \in 0..size |-> From(M, k)]
  <1>6. h = Body(h)
    <2>1. ASSUME NEW k \in 0..size PROVE Adds(h, M, k, size) = From(M, k)
      BY <1>3, AddsFrom
    <2> QED
      BY <1>5, <2>1
  <1>7. f = Body(f)
    BY <1>6
  <1> HIDE DEF f, h
  <1>8. \A k \in 0..size : f[k] = Adds(f, M, k, size)
    BY <1>5, <1>7
  <1> DEFINE T == {j \in Nat : \A k \in 0..size : k >= size - j => f[k] = From(M, k)}
  <1>9. 0 \in T
    <2> SUFFICES ASSUME NEW k \in 0..size, k >= size PROVE f[k] = From(M, k)
      OBVIOUS
    <2>1. \A n \in 0..size : ~(n > k)
      OBVIOUS
    <2> QED
      BY <1>3, <1>8, <2>1, AddsFrom
  <1>10. ASSUME NEW j \in Nat, j \in T PROVE j + 1 \in T
    <2> SUFFICES ASSUME NEW k \in 0..size, k >= size - (j + 1) PROVE f[k] = From(M, k)
      OBVIOUS
    <2>1. ASSUME NEW n \in 0..size, n > k PROVE f[n] = From(M, n)
      <3>1. n >= size - j
        BY <2>1
      <3> QED
        BY <1>10, <3>1
    <2> QED
      BY <1>3, <1>8, <2>1, AddsFrom
  <1> HIDE DEF T
  <1>11. size \in T
    BY <1>9, <1>10, AllNumbers
  <1>12. f[0] = From(M, 0)
    BY <1>11 DEF T
  <1>13. From(M, 0) = M
    <2>1. ASSUME NEW m \in M PROVE m >= 0
      BY <1>3
    <2> QED
      BY <2>1 DEF From
  <1> QED
    BY <1>1, <1>12, <1>13 DEF f, Body, FindAll

LEMMA SearchFinds ==
  ASSUME MemInv, find_cmd
  PROVE  found'.at = {i \in 0..(found'.size - Len(found'.pat)) : Matches(found'.addr + i, found'.pat)}
  <1>1. PICK d \in Decoded, n \in Sizes, pat \in Patterns :
          LET size == Lesser(n, memValidate(d.val, FALSE))
          IN  found' = [addr |-> d.val, size |-> size, pat |-> pat, at |-> FindAll(d.val, size, pat)]
    BY DEF find_cmd
  <1>2. PICK left, size : left = memValidate(d.val, FALSE) /\ size = Lesser(n, left)
    OBVIOUS
  <1>3. d.val \in Addr /\ n \in Nat /\ pat \in Seq(Byte) /\ pat # <<>>
    BY DecodedIs, MemoryAssumption DEF MemInv
  <1>4. left \in Nat /\ size = Lesser(n, left)
    BY <1>2, <1>3, RoomOf DEF RoomLeft
  <1>5. size \in Nat
    BY <1>3, <1>4 DEF Lesser
  <1>6. d.val \in Int
    BY <1>3 DEF Addr
  <1>7. FindAll(d.val, size, pat) = {i \in 0..(size - Len(pat)) : Matches(d.val + i, pat)}
    BY <1>3, <1>5, <1>6, FindAllIs
  <1>8. found' = [addr |-> d.val, size |-> size, pat |-> pat, at |-> FindAll(d.val, size, pat)]
    BY <1>1, <1>2
  <1> QED
    BY <1>7, <1>8

\* A search finds every place, for any memory, pattern, address and size (findstr_cmd,
\* findhex_cmd, memmem_mask).
THEOREM SearchIsComplete == MemSpec => FindsEvery
  <1>1. MemInit => MemInv
    BY MemInvInit
  <1>2. MemInv /\ [MemNext]_memvars => MemInv'
    BY MemInvNext
  <1>3. MemInv /\ [MemNext]_memvars
        => [found' # found =>
              found'.at = {i \in 0..(found'.size - Len(found'.pat)) : Matches(found'.addr + i, found'.pat)}]_memvars
    <2> SUFFICES ASSUME MemInv, MemNext, found' # found PROVE find_cmd
      BY SearchFinds
    <2> QED
      BY DEF MemNext, poke_cmd, peek_cmd, fill_cmd, pokes_cmd, copymem_cmd, savemem_cmd, loadmem_cmd,
             disasm_cmd, memdump_cmd, memprot_cmd, decode_error
  <1> QED
    BY <1>1, <1>2, <1>3, PTL DEF MemSpec, FindsEvery
=============================================================================

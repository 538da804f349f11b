-------------------------- MODULE PcProgramsProof --------------------------
(* Proofs about the two programs of the PC: pspsh against the shell of psplink, for
   any lines, scripts and commands; and the sockets of usbhostfs_pc, for any number
   of channels, clients and descriptors.                                       *)
EXTENDS PcShell, PcSockets, FiniteSetTheorems, SequenceTheorems, WellFoundedInduction, TLAPS

(* pspsh.                                                                   *)

\* Lines of asm are sent without an end of execute_script_line.
AsmLines == {"asm", "asm1"}
ScriptText == Seq(Line \ AsmLines)

Context ==
  [batch : BOOLEAN, exec : Line \cup {Nil}, fscript : BOOLEAN, script : ScriptText,
   tty : BOOLEAN, asm : BOOLEAN, exit : BOOLEAN, lasterr : BOOLEAN,
   currcmd : Nat, fredir : Nat, n : Nat]

Typed ==
  /\ pc \in Context
  /\ where \in {"shell", "tab", "script", "answer"}
  /\ linebuf \in Packet \cup {Nil}
  /\ toPsp \in Seq(Command) /\ toPc \in Seq(Packet)
  /\ up \in {"on", "boot", "off"}
  /\ sh \in [cmd : Command, said : {"nothing", "half", "all"}] \cup {Nil}
  /\ noise \in [left : Nat, half : BOOLEAN]
  /\ misfiled \in BOOLEAN /\ failed \in BOOLEAN

\* Scripts that do not use the assembler; and the user waits for the prompt, and
\* psplink never needs the 2 s of a completion.
NoAsm == \A s \in Scripts : s \in ScriptText
Patient == ~TypeAhead /\ ~TabLate

-----------------------------------------------------------------------------
(* What is on its way from the PSP.                                        *)

IsText(p) == p.k = "out" /\ p.cmd # Nil

NoAnswer(q) == \A i \in DOMAIN q : q[i].k \notin Answer
OneAnswer(q) ==
  \A i, j \in DOMAIN q : q[i].k \in Answer /\ q[j].k \in Answer => i = j
Whole(q) == \A i \in DOMAIN q : q[i].k \in Answer => q[i].part = "whole"

\* Text of a command is for the file f, and comes before the answer.
NoText(q) == \A i \in DOMAIN q : ~IsText(q[i])
TextFor(q, f) == \A i \in DOMAIN q : IsText(q[i]) => FileOf(q[i].cmd) = f
TextFirst(q) ==
  \A i, j \in DOMAIN q : IsText(q[i]) /\ q[j].k \in Answer => i < j

\* r is q without the first k, and there was an answer among them.
IsRest(r, q, k) == k \in 1..Len(q) /\ r = SubSeq(q, k + 1, Len(q))
AnswerIn(q, k) == \E i \in 1..k : q[i].k \in Answer

-----------------------------------------------------------------------------
(* The inductive invariant.                                                *)

Going == toPsp # <<>>
Doing == sh # Nil \/ up = "boot"
UnderWay == Going \/ Doing \/ ~NoAnswer(toPc)

\* A command is on its way, or being executed, or answered.
OnePlace ==
  /\ Len(toPsp) <= 1
  /\ Going => ~Doing /\ NoAnswer(toPc)
  /\ Doing => NoAnswer(toPc)
  /\ OneAnswer(toPc)

\* pspsh knows that it is.
Waited == UnderWay => where = "tab" \/ (where = "shell" /\ pc.currcmd # 0)

\* A completion is no command that leads to a restart.
TabOnly ==
  where = "tab" =>
    /\ up = "on"
    /\ sh # Nil => sh.cmd.line = "tab"
    /\ Going => toPsp[1].line = "tab"

\* The redirection is that of the command under way.
Filed ==
  /\ Going => FileOf(toPsp[1]) = pc.fredir
  /\ sh # Nil => FileOf(sh.cmd) = pc.fredir

Places ==
  /\ where \in {"script", "answer", "tab"} => pc.currcmd = 0
  /\ pc.currcmd = 0 => pc.fredir = 0
  /\ sh # Nil => up = "on"

\* So is that of the text that has not been read.
Texts ==
  /\ TextFor(toPc, pc.fredir) /\ TextFirst(toPc) /\ Whole(toPc)
  /\ pc.currcmd = 0 /\ where # "tab" => NoText(toPc)
  /\ linebuf # Nil =>
       /\ linebuf.k \notin Answer
       /\ IsText(linebuf) => FileOf(linebuf.cmd) = pc.fredir /\ pc.currcmd # 0

\* A batch run ends with its first error.
Batch ==
  pc.batch =>
    /\ pc.lasterr <=> failed
    /\ failed => pc.exit
    /\ ~pc.exit => InScript(pc)

\* What holds while psplink is there.
WhileUp == up # "off" => OnePlace /\ Waited /\ TabOnly /\ Filed

ShellInv == Places /\ Texts /\ OutputFiled /\ Batch /\ WhileUp

-----------------------------------------------------------------------------
(* Lemmas on queues of packets.                                            *)

LEMMA AppendOther ==
  ASSUME NEW q \in Seq(Packet), NEW p \in Packet, p.k \notin Answer, NEW f
  PROVE  /\ NoAnswer(q) => NoAnswer(Append(q, p))
         /\ OneAnswer(q) => OneAnswer(Append(q, p))
         /\ Whole(q) => Whole(Append(q, p))
         /\ NoText(q) /\ ~IsText(p) => NoText(Append(q, p))
         /\ TextFor(q, f) /\ (IsText(p) => FileOf(p.cmd) = f) => TextFor(Append(q, p), f)
         /\ TextFirst(q) /\ (IsText(p) => NoAnswer(q)) => TextFirst(Append(q, p))
  <1> DEFINE r == Append(q, p)
  <1>1. /\ DOMAIN r = 1..(Len(q) + 1) /\ DOMAIN q = 1..Len(q) /\ Len(q) \in Nat
        /\ \A i \in 1..Len(q) : r[i] = q[i]
        /\ r[Len(q) + 1] = p
    OBVIOUS
  <1> HIDE DEF r
  <1>2. NoAnswer(q) => NoAnswer(r)
    BY <1>1 DEF NoAnswer
  <1>3. OneAnswer(q) => OneAnswer(r)
    BY <1>1 DEF OneAnswer
  <1>4. Whole(q) => Whole(r)
    BY <1>1 DEF Whole
  <1>5. NoText(q) /\ ~IsText(p) => NoText(r)
    BY <1>1 DEF NoText
  <1>6. TextFor(q, f) /\ (IsText(p) => FileOf(p.cmd) = f) => TextFor(r, f)
    BY <1>1 DEF TextFor
  <1>7. TextFirst(q) /\ (IsText(p) => NoAnswer(q)) => TextFirst(r)
    BY <1>1 DEF TextFirst, NoAnswer
  <1> QED
    BY <1>2, <1>3, <1>4, <1>5, <1>6, <1>7 DEF r

LEMMA AppendAnswer ==
  ASSUME NEW q \in Seq(Packet), NEW p \in Packet, p.k \in Answer, p.part = "whole",
         NoAnswer(q), NEW f
  PROVE  /\ OneAnswer(Append(q, p))
         /\ Whole(Append(q, p))
         /\ NoText(q) => NoText(Append(q, p))
         /\ TextFor(q, f) => TextFor(Append(q, p), f)
         /\ TextFirst(Append(q, p))
  <1> DEFINE r == Append(q, p)
  <1>1. /\ DOMAIN r = 1..(Len(q) + 1) /\ DOMAIN q = 1..Len(q) /\ Len(q) \in Nat
        /\ \A i \in 1..Len(q) : r[i] = q[i]
        /\ r[Len(q) + 1] = p
    OBVIOUS
  <1>2. ~IsText(p)
    BY DEF IsText, Answer
  <1> HIDE DEF r
  <1>3. OneAnswer(r) /\ Whole(r) /\ TextFirst(r)
    BY <1>1, <1>2 DEF NoAnswer, OneAnswer, Whole, TextFirst
  <1>4. (NoText(q) => NoText(r)) /\ (TextFor(q, f) => TextFor(r, f))
    BY <1>1, <1>2 DEF NoText, TextFor
  <1> QED
    BY <1>3, <1>4 DEF r

\* The first k packets have been read.
LEMMA Drop ==
  ASSUME NEW q \in Seq(Packet), NEW k, NEW r \in Seq(Packet), IsRest(r, q, k), NEW f
  PROVE  /\ NoAnswer(q) => NoAnswer(r)
         /\ OneAnswer(q) => OneAnswer(r)
         /\ Whole(q) => Whole(r)
         /\ NoText(q) => NoText(r)
         /\ TextFor(q, f) => TextFor(r, f)
         /\ TextFirst(q) => TextFirst(r)
         /\ AnswerIn(q, k) =>
              (OneAnswer(q) => NoAnswer(r)) /\ (TextFirst(q) => NoText(r))
  <1>1. /\ DOMAIN q = 1..Len(q) /\ Len(q) \in Nat /\ k \in Nat /\ k <= Len(q)
        /\ DOMAIN r = 1..(Len(q) - k)
        /\ \A i \in DOMAIN r : r[i] = q[i + k] /\ i + k \in DOMAIN q
    BY DEF IsRest
  <1>2. NoAnswer(q) => NoAnswer(r)
    BY <1>1 DEF NoAnswer
  <1>3. OneAnswer(q) => OneAnswer(r)
    BY <1>1 DEF OneAnswer
  <1>4. Whole(q) => Whole(r)
    BY <1>1 DEF Whole
  <1>5. NoText(q) => NoText(r)
    BY <1>1 DEF NoText
  <1>6. TextFor(q, f) => TextFor(r, f)
    BY <1>1 DEF TextFor
  <1>7. TextFirst(q) => TextFirst(r)
    BY <1>1 DEF TextFirst
  <1>8. ASSUME NEW i \in 1..k, q[i].k \in Answer
        PROVE  (OneAnswer(q) => NoAnswer(r)) /\ (TextFirst(q) => NoText(r))
    <2>1. i \in DOMAIN q /\ \A j \in DOMAIN r : j + k # i /\ ~(j + k < i)
      BY <1>1
    <2>2. OneAnswer(q) => NoAnswer(r)
      BY <1>1, <1>8, <2>1 DEF OneAnswer, NoAnswer
    <2>3. TextFirst(q) => NoText(r)
      BY <1>1, <1>8, <2>1 DEF TextFirst, NoText
    <2> QED
      BY <2>2, <2>3
  <1> QED
    BY <1>2, <1>3, <1>4, <1>5, <1>6, <1>7, <1>8 DEF AnswerIn

-----------------------------------------------------------------------------
(* Lemmas on what pspsh does with a line.                                  *)

LEMMA OwnLines ==
  /\ "cd" \in Line /\ "tab" \in Line /\ "calc" \in Line /\ "pokew" \in Line
  /\ "blank" \in Line
  <1>1. OwnLine \subseteq Line
    BY DEF Line
  <1> QED
    BY <1>1 DEF OwnLine

\* The fields of g_context that have to do with commands under way stay.
Idle(p, q) ==
  /\ q \in Context
  /\ q.batch = p.batch /\ q.lasterr = p.lasterr
  /\ q.exec = p.exec /\ q.fscript = p.fscript /\ q.script = p.script
  /\ p.exit => q.exit
  /\ q.currcmd = p.currcmd /\ q.fredir = p.fredir

\* A command c went out.
SentOne(p, q, c) ==
  /\ q \in Context
  /\ q.batch = p.batch /\ q.lasterr = p.lasterr
  /\ q.exec = p.exec /\ q.fscript = p.fscript /\ q.script = p.script
  /\ p.exit => q.exit
  /\ c \in Command /\ q.currcmd # 0
  /\ p.fredir = 0 => q.fredir = FileOf(c)

LEMMA WriteLineSends ==
  ASSUME NEW p \in Context, NEW l \in Line
  PROVE  LET r == WriteLine(p, l)
         IN  /\ \E c : r.out = <<c>> /\ SentOne(p, r.pc, c)
             /\ r.ret = 1
  <1> DEFINE c == [id |-> p.n + 1, line |-> l]
             f == IF l = "file" THEN p.n + 1 ELSE p.fredir
             q == [p EXCEPT !.n = p.n + 1, !.currcmd = p.n + 1, !.fredir = f]
  <1>1. /\ p.n \in Nat /\ p.fredir \in Nat /\ p.n + 1 \in Nat /\ p.n + 1 # 0
    BY DEF Context
  <1>2. c \in Command /\ f \in Nat
    BY <1>1 DEF Command
  <1>3. p.fredir = 0 => f = FileOf(c)
    BY DEF FileOf
  <1> HIDE DEF f, c
  <1>4. /\ q \in Context /\ q.currcmd = p.n + 1 /\ q.fredir = f
        /\ q.batch = p.batch /\ q.lasterr = p.lasterr /\ q.exit = p.exit
        /\ q.exec = p.exec /\ q.fscript = p.fscript /\ q.script = p.script
    BY <1>1, <1>2 DEF Context
  <1>5. /\ WriteLine(p, l).pc = q /\ WriteLine(p, l).out = <<c>>
        /\ WriteLine(p, l).ret = 1
    BY DEF WriteLine, Result, Cmd, c, f
  <1> HIDE DEF q
  <1> QED
    BY <1>1, <1>2, <1>3, <1>4, <1>5 DEF SentOne

\* A line is sent or not, and only asm says that it was not when it was.
LEMMA LineSends ==
  ASSUME NEW p \in Context, NEW l \in Line
  PROVE  LET r == ExecuteLine(p, l)
         IN  \/ r.out = <<>> /\ Idle(p, r.pc) /\ r.ret = 0
             \/ /\ \E c : r.out = <<c>> /\ SentOne(p, r.pc, c)
                /\ r.ret = 1 \/ (r.ret = 0 /\ l \in AsmLines)
  <1>1. CASE l \in Local \cup {"blank"}
    <2>1. ExecuteLine(p, l) = Result(p, <<>>, 0)
      BY <1>1 DEF ExecuteLine, Local
    <2> QED
      BY <2>1 DEF Result, Idle
  <1>2. CASE l = "close"
    <2> DEFINE q == [p EXCEPT !.exit = TRUE]
    <2>1. Idle(p, q)
      BY DEF Context, Idle
    <2> HIDE DEF q
    <2>2. ExecuteLine(p, l) = Result(q, <<>>, 0)
      BY <1>2 DEF ExecuteLine, Local, q
    <2> QED
      BY <2>1, <2>2 DEF Result
  <1>3. CASE l = "tty"
    <2> DEFINE q == [p EXCEPT !.tty = TRUE]
    <2>1. Idle(p, q)
      BY DEF Context, Idle
    <2> HIDE DEF q
    <2>2. ExecuteLine(p, l) = Result(q, <<>>, 0)
      BY <1>3 DEF ExecuteLine, Local, q
    <2> QED
      BY <2>1, <2>2 DEF Result
  <1>4. CASE l \in AsmLines
    <2> DEFINE m == IF l = "asm1" THEN "pokew" ELSE "calc"
               w == WriteLine(p, m)
               q == [w.pc EXCEPT !.asm = w.pc.asm \/ l = "asm"]
    <2>1. m \in Line
      BY OwnLines DEF m
    <2> HIDE DEF m
    <2>2. PICK c : w.out = <<c>> /\ SentOne(p, w.pc, c)
      BY <2>1, WriteLineSends
    <2>3. ExecuteLine(p, l) = Result(q, w.out, 0)
      BY <1>4 DEF ExecuteLine, Local, AsmLines, AsmCmd, m
    <2> HIDE DEF w
    <2>4. SentOne(p, q, c)
      BY <2>2 DEF SentOne, Context
    <2> HIDE DEF q
    <2> QED
      BY <1>4, <2>2, <2>3, <2>4 DEF Result
  <1>5. CASE l = "exit"
    <2> DEFINE q == [p EXCEPT !.exit = TRUE]
    <2>1. q \in Context /\ Idle(p, q) /\ q.exit
      BY DEF Context, Idle
    <2>2. ExecuteLine(p, l) = WriteLine(q, l)
      BY <1>5 DEF ExecuteLine, Local
    <2> HIDE DEF q
    <2>3. PICK c : WriteLine(q, l).out = <<c>> /\ SentOne(q, WriteLine(q, l).pc, c)
      BY <2>1, WriteLineSends
    <2>4. SentOne(p, WriteLine(q, l).pc, c) /\ WriteLine(q, l).ret = 1
      BY <2>1, <2>3, WriteLineSends DEF SentOne, Idle
    <2> QED
      BY <2>2, <2>3, <2>4
  <1>6. CASE l \notin Local \cup {"blank", "close", "tty", "exit"} \cup AsmLines
    <2>1. ExecuteLine(p, l) = WriteLine(p, l)
      BY <1>6 DEF ExecuteLine, AsmLines
    <2> QED
      BY <2>1, WriteLineSends
  <1> QED
    BY <1>1, <1>2, <1>3, <1>4, <1>5, <1>6

\* A closed script ends a batch run, and leaves the command under way alone.
LEMMA Closed ==
  ASSUME NEW p \in Context
  PROVE  /\ CloseScript(p) \in Context
         /\ CloseScript(p).batch = p.batch /\ CloseScript(p).lasterr = p.lasterr
         /\ CloseScript(p).currcmd = p.currcmd /\ CloseScript(p).fredir = p.fredir
         /\ p.exit \/ p.batch => CloseScript(p).exit
  <1> DEFINE x == p.exit \/ p.batch
             q == [p EXCEPT !.fscript = FALSE, !.script = <<>>, !.exit = x]
  <1>1. x \in BOOLEAN /\ <<>> \in ScriptText
    BY DEF Context, ScriptText
  <1>2. CloseScript(p) = q
    BY DEF CloseScript
  <1> HIDE DEF x
  <1>3. /\ q \in Context /\ q.batch = p.batch /\ q.lasterr = p.lasterr
        /\ q.currcmd = p.currcmd /\ q.fredir = p.fredir /\ q.exit = x
    BY <1>1 DEF Context
  <1> HIDE DEF q
  <1> QED
    BY <1>2, <1>3 DEF x

-----------------------------------------------------------------------------
(* Steps of pspsh that send nothing, and those that send a command.        *)

LEMMA Stays ==
  ASSUME Typed, ShellInv, Batch',
         pc'.currcmd = pc.currcmd, pc'.fredir = pc.fredir,
         UNCHANGED <<linebuf, toPsp, toPc, psp, misfiled>>,
         where' = "tab" <=> where = "tab",
         where = "shell" /\ pc.currcmd # 0 => where' = "shell",
         where' \in {"script", "answer"} => pc.currcmd = 0
  PROVE  ShellInv'
  <1>1. UNCHANGED <<linebuf, toPsp, toPc, up, sh, noise, misfiled>>
    BY DEF psp
  <1>2. Places'
    BY <1>1 DEF ShellInv, Places
  <1>3. Texts'
    BY <1>1 DEF ShellInv, Texts
  <1>4. OutputFiled'
    BY <1>1 DEF ShellInv, OutputFiled
  <1>5. WhileUp'
    <2>1. SUFFICES ASSUME up # "off" PROVE (OnePlace /\ Waited /\ TabOnly /\ Filed)'
      BY <1>1 DEF WhileUp
    <2>2. OnePlace /\ Waited /\ TabOnly /\ Filed
      BY <2>1 DEF ShellInv, WhileUp
    <2>3. UnderWay' = UnderWay /\ Going' = Going /\ Doing' = Doing
      BY <1>1 DEF UnderWay, Going, Doing
    <2>4. OnePlace'
      BY <1>1, <2>2, <2>3 DEF OnePlace
    <2>5. Waited'
      BY <2>2, <2>3 DEF Waited
    <2>6. TabOnly' /\ Filed'
      BY <1>1, <2>2, <2>3 DEF TabOnly, Filed
    <2> QED
      BY <2>4, <2>5, <2>6
  <1> QED
    BY <1>2, <1>3, <1>4, <1>5 DEF ShellInv

LEMMA Sends ==
  ASSUME Typed, ShellInv, Batch',
         NEW c \in Command, toPsp' = toPsp \o <<c>>,
         where # "tab", pc.currcmd = 0,
         pc'.fredir = FileOf(c),
         \/ where' = "shell" /\ pc'.currcmd # 0
         \/ where = "shell" /\ where' = "tab" /\ c.line = "tab" /\ pc'.currcmd = 0,
         UNCHANGED <<linebuf, toPc, psp, misfiled>>
  PROVE  ShellInv'
  <1>1. UNCHANGED <<linebuf, toPc, up, sh, noise, misfiled>>
    BY DEF psp
  <1>2. Places'
    <2>1. c.line = "tab" => FileOf(c) = 0
      BY DEF FileOf
    <2> QED
      BY <1>1, <2>1 DEF ShellInv, Places
  <1>3. Texts'
    <2>1. NoText(toPc) /\ (linebuf # Nil => ~IsText(linebuf))
      BY DEF ShellInv, Texts
    <2>2. TextFor(toPc, pc'.fredir)
      BY <2>1 DEF NoText, TextFor
    <2> QED
      BY <1>1, <2>1, <2>2 DEF ShellInv, Texts
  <1>4. OutputFiled'
    BY <1>1 DEF ShellInv, OutputFiled
  <1>5. WhileUp'
    <2>1. SUFFICES ASSUME up # "off" PROVE (OnePlace /\ Waited /\ TabOnly /\ Filed)'
      BY <1>1 DEF WhileUp
    <2>2. OnePlace /\ Waited
      BY <2>1 DEF ShellInv, WhileUp
    <2>3. ~Going /\ ~Doing /\ NoAnswer(toPc)
      BY <2>2 DEF Waited, UnderWay
    <2>4. toPsp' = <<c>> /\ Len(toPsp') = 1 /\ toPsp'[1] = c
      <3>1. toPsp = <<>>
        BY <2>3 DEF Going
      <3>2. <<>> \o <<c>> = <<c>>
        OBVIOUS
      <3> QED
        BY <3>1, <3>2
    <2>5. ~Doing' /\ sh = Nil /\ up = "on"
      BY <1>1, <2>1, <2>3 DEF Doing, Typed
    <2>6. OnePlace'
      BY <1>1, <2>2, <2>3, <2>4, <2>5 DEF OnePlace
    <2>7. Waited' /\ TabOnly' /\ Filed'
      BY <1>1, <2>4, <2>5 DEF Waited, TabOnly, Filed
    <2> QED
      BY <2>6, <2>7
  <1> QED
    BY <1>2, <1>3, <1>4, <1>5 DEF ShellInv

\* execute_script_line returns, with a command sent or none.
LEMMA Returned ==
  ASSUME Typed, ShellInv, where \in {"script", "answer"}, NEW r, Return(r),
         r.pc \in Context,
         r.pc.batch = pc.batch, r.pc.lasterr = pc.lasterr, pc.exit => r.pc.exit,
         pc.batch /\ ~r.pc.exit => InScript(r.pc),
         \/ /\ r.out = <<>>
            /\ r.pc.currcmd = pc.currcmd /\ r.pc.fredir = pc.fredir
         \/ \E c \in Command : /\ r.out = <<c>>
                               /\ r.pc.currcmd # 0 /\ r.pc.fredir = FileOf(c),
         UNCHANGED <<linebuf, toPc, psp, history>>
  PROVE  Typed' /\ ShellInv'
  <1>1. /\ pc' \in Context /\ pc'.batch = r.pc.batch /\ pc'.lasterr = r.pc.lasterr
        /\ pc'.exit = r.pc.exit /\ pc'.exec = r.pc.exec /\ pc'.fscript = r.pc.fscript
        /\ pc'.currcmd = r.pc.currcmd /\ pc'.fredir = r.pc.fredir
    <2> DEFINE q == [r.pc EXCEPT !.tty = FALSE]
    <2>1. /\ q \in Context /\ q.batch = r.pc.batch /\ q.lasterr = r.pc.lasterr
          /\ q.exit = r.pc.exit /\ q.exec = r.pc.exec /\ q.fscript = r.pc.fscript
          /\ q.currcmd = r.pc.currcmd /\ q.fredir = r.pc.fredir
      BY DEF Context
    <2>2. pc' = q \/ pc' = r.pc
      BY DEF Return
    <2> HIDE DEF q
    <2> QED
      BY <2>1, <2>2
  <1>2. /\ where' = "shell" /\ toPsp' = toPsp \o r.out
        /\ UNCHANGED <<linebuf, toPc, up, sh, noise, misfiled, failed, psp>>
    BY DEF Return, psp, history
  <1>3. Batch'
    BY <1>1, <1>2 DEF ShellInv, Batch, InScript
  <1>4. CASE r.out = <<>> /\ r.pc.currcmd = pc.currcmd /\ r.pc.fredir = pc.fredir
    <2>1. toPsp' = toPsp
      BY <1>2, <1>4 DEF Typed
    <2>2. Typed'
      BY <1>1, <1>2, <2>1 DEF Typed
    <2>3. ShellInv'
      BY <1>1, <1>2, <1>3, <1>4, <2>1, Stays
    <2> QED
      BY <2>2, <2>3
  <1>5. ASSUME NEW c \in Command, r.out = <<c>>,
               r.pc.currcmd # 0, r.pc.fredir = FileOf(c)
        PROVE  Typed' /\ ShellInv'
    <2>1. toPsp' \in Seq(Command) /\ toPsp' = toPsp \o <<c>>
      BY <1>2, <1>5 DEF Typed
    <2>2. Typed'
      BY <1>1, <1>2, <2>1 DEF Typed
    <2>3. pc.currcmd = 0
      BY DEF ShellInv, Places
    <2>4. ShellInv'
      BY <1>1, <1>2, <1>3, <1>5, <2>1, <2>3, Sends
    <2> QED
      BY <2>2, <2>4
  <1> QED
    BY <1>4, <1>5

LEMMA ExecLineSafe ==
  ASSUME Typed, ShellInv, where \in {"script", "answer"}, ExecLine,
         UNCHANGED <<linebuf, toPc, psp, history>>
  PROVE  Typed' /\ ShellInv'
  <1> DEFINE p == [pc EXCEPT !.exec = "blank"]
             r == ExecuteLine(p, pc.exec)
             e == IF WasSent(r) THEN r ELSE Result(CloseScript(r.pc), r.out, r.ret)
  <1>1. pc.exec \in Line /\ pc.currcmd = 0 /\ pc.fredir = 0
    BY DEF ExecLine, Typed, Context, ShellInv, Places
  <1>2. /\ p \in Context /\ p.batch = pc.batch /\ p.lasterr = pc.lasterr
        /\ p.exit = pc.exit /\ p.exec = "blank"
        /\ p.currcmd = pc.currcmd /\ p.fredir = pc.fredir
    BY OwnLines DEF Typed, Context
  <1>3. Return(e)
    BY DEF ExecLine
  <1> HIDE DEF p
  <1>4. \/ r.out = <<>> /\ Idle(p, r.pc) /\ r.ret = 0
        \/ /\ \E c : r.out = <<c>> /\ SentOne(p, r.pc, c)
           /\ r.ret = 1 \/ (r.ret = 0 /\ pc.exec \in AsmLines)
    BY <1>1, <1>2, LineSends
  <1> HIDE DEF r
  <1>5. /\ r.pc \in Context /\ r.pc.batch = pc.batch /\ r.pc.lasterr = pc.lasterr
        /\ pc.exit => r.pc.exit
        /\ r.pc.exec # Nil
        /\ \/ r.out = <<>> /\ r.pc.currcmd = pc.currcmd /\ r.pc.fredir = pc.fredir
           \/ \E c \in Command : /\ r.out = <<c>>
                                 /\ r.pc.currcmd # 0 /\ r.pc.fredir = FileOf(c)
    BY <1>1, <1>2, <1>4, OwnLines, PcShellAssumption DEF Idle, SentOne
  <1>6. CASE WasSent(r)
    <2>1. Return(r) /\ InScript(r.pc)
      BY <1>3, <1>5, <1>6 DEF InScript
    <2> QED
      BY <1>5, <2>1, Returned
  <1>7. CASE ~WasSent(r)
    <2> DEFINE d == Result(CloseScript(r.pc), r.out, r.ret)
    <2>1. Return(d)
      BY <1>3, <1>7
    <2>2. d.pc = CloseScript(r.pc) /\ d.out = r.out
      BY DEF Result
    <2> HIDE DEF d
    <2>3. /\ d.pc \in Context /\ d.pc.batch = pc.batch /\ d.pc.lasterr = pc.lasterr
          /\ pc.exit => d.pc.exit
          /\ pc.batch => d.pc.exit
          /\ d.pc.currcmd = r.pc.currcmd /\ d.pc.fredir = r.pc.fredir
      BY <1>5, <2>2, Closed
    <2> QED
      BY <1>5, <2>1, <2>2, <2>3, Returned
  <1> QED
    BY <1>6, <1>7

LEMMA ScriptLineSafe ==
  ASSUME Typed, ShellInv, where \in {"script", "answer"}, ScriptLine,
         UNCHANGED <<linebuf, toPc, psp, history>>
  PROVE  Typed' /\ ShellInv'
  <1> DEFINE l == Head(pc.script)
             p == [pc EXCEPT !.script = Tail(pc.script)]
             r == ExecuteLine(p, l)
  <1>1. /\ l \in Line \ AsmLines /\ Tail(pc.script) \in ScriptText
        /\ pc.currcmd = 0 /\ pc.fredir = 0
    <2>1. pc.script \in Seq(Line \ AsmLines) /\ pc.script # <<>>
      BY DEF ScriptLine, Typed, Context, ScriptText
    <2> QED
      BY <2>1 DEF ShellInv, Places, ScriptText
  <1>2. /\ p \in Context /\ p.batch = pc.batch /\ p.lasterr = pc.lasterr
        /\ p.exit = pc.exit /\ p.fscript
        /\ p.currcmd = pc.currcmd /\ p.fredir = pc.fredir
    BY <1>1 DEF Typed, Context, ScriptLine
  <1>3. \/ WasSent(r) /\ Return(r)
        \/ ~WasSent(r) /\ pc' = r.pc /\ toPsp' = toPsp \o r.out /\ where' = where
    BY DEF ScriptLine
  <1> HIDE DEF p, l
  <1>4. \/ r.out = <<>> /\ Idle(p, r.pc) /\ r.ret = 0
        \/ (\E c : r.out = <<c>> /\ SentOne(p, r.pc, c)) /\ r.ret = 1
    BY <1>1, <1>2, LineSends
  <1> HIDE DEF r
  <1>5. /\ r.pc \in Context /\ r.pc.batch = pc.batch /\ r.pc.lasterr = pc.lasterr
        /\ pc.exit => r.pc.exit
        /\ r.pc.fscript
    BY <1>2, <1>4 DEF Idle, SentOne
  <1>6a. (r.ret = 0 => ~WasSent(r)) /\ (r.ret = 1 => WasSent(r))
    BY DEF WasSent
  <1>6. CASE WasSent(r)
    <2>1. \E c \in Command : /\ r.out = <<c>>
                             /\ r.pc.currcmd # 0 /\ r.pc.fredir = FileOf(c)
      BY <1>1, <1>2, <1>4, <1>6a, <1>6 DEF SentOne
    <2>2. Return(r) /\ InScript(r.pc)
      BY <1>3, <1>5, <1>6 DEF InScript
    <2> QED
      BY <1>5, <2>1, <2>2, Returned
  <1>7. CASE ~WasSent(r)
    <2>1. r.out = <<>> /\ r.pc.currcmd = pc.currcmd /\ r.pc.fredir = pc.fredir
      BY <1>2, <1>4, <1>6a, <1>7 DEF Idle
    <2>2. /\ pc' = r.pc /\ toPsp' = toPsp /\ where' = where
          /\ UNCHANGED <<linebuf, toPc, up, sh, noise, misfiled, failed, psp>>
      BY <1>3, <1>7, <2>1 DEF Typed, psp, history
    <2>3. Batch'
      BY <1>5, <2>2 DEF ShellInv, Batch, InScript
    <2>4. Typed'
      BY <1>5, <2>2 DEF Typed
    <2>5. ShellInv'
      BY <1>1, <2>1, <2>2, <2>3, Stays
    <2> QED
      BY <2>4, <2>5
  <1> QED
    BY <1>6, <1>7

LEMMA NoLineSafe ==
  ASSUME Typed, ShellInv, where \in {"script", "answer"}, NoLine,
         UNCHANGED <<linebuf, toPc, psp, history>>
  PROVE  Typed' /\ ShellInv'
  <1> DEFINE p == IF pc.fscript THEN CloseScript(pc) ELSE pc
             r == Result(p, <<>>, 0)
  <1>1. /\ p \in Context /\ p.batch = pc.batch /\ p.lasterr = pc.lasterr
        /\ pc.exit => p.exit
        /\ p.currcmd = pc.currcmd /\ p.fredir = pc.fredir
        /\ pc.batch => p.exit
    <2>1. CASE pc.fscript
      BY <2>1, Closed DEF Typed
    <2>2. CASE ~pc.fscript
      <3>1. pc.batch => pc.exit
        BY <2>2 DEF NoLine, ShellInv, Batch, InScript
      <3> QED
        BY <2>2, <3>1 DEF Typed
    <2> QED
      BY <2>1, <2>2
  <1>2. Return(r)
    BY DEF NoLine
  <1> HIDE DEF p
  <1>3. r.pc = p /\ r.out = <<>>
    BY DEF Result
  <1> HIDE DEF r
  <1> QED
    BY <1>1, <1>2, <1>3, Returned

LEMMA ExecuteScriptLineSafe ==
  ASSUME Typed, ShellInv, ExecuteScriptLine
  PROVE  Typed' /\ ShellInv'
  BY ExecLineSafe, ScriptLineSafe, NoLineSafe DEF ExecuteScriptLine

-----------------------------------------------------------------------------
(* Steps of pspsh that read.                                               *)

\* What the parser makes of the first packet.
LEMMA Parsed ==
  ASSUME Typed, ShellInv, toPc # <<>>
  PROVE  LET x == Parse(linebuf, toPc[1])
         IN  /\ x.buf \in Packet \cup {Nil} /\ x.frame \in Packet \cup {Nil}
             /\ x.buf # Nil => x.buf = toPc[1] /\ toPc[1].k \notin Answer
             /\ x.frame # Nil /\ x.frame.k \in Answer =>
                  toPc[1].k \in Answer /\ x.buf = Nil
             /\ toPc[1].k \in Answer => x.frame = toPc[1]
             /\ x.frame # Nil => x.frame = toPc[1] \/ x.frame = linebuf
  <1> DEFINE p == toPc[1]
             x == Parse(linebuf, p)
  <1>1. p \in Packet /\ linebuf \in Packet \cup {Nil} /\ 1 \in DOMAIN toPc
    BY DEF Typed
  <1>2. p.part \in {"whole", "head", "tail"} /\ p # Nil
    BY <1>1, PcShellAssumption DEF Packet
  <1>3. /\ p.k \in Answer => p.part = "whole"
        /\ linebuf # Nil => linebuf.k \notin Answer
    BY <1>1 DEF ShellInv, Texts, Whole
  <1> HIDE DEF p
  <1>4. CASE p.part = "whole"
    <2>1. x.buf = Nil /\ x.frame = p
      BY <1>4 DEF Parse
    <2> HIDE DEF x
    <2> QED
      BY <1>1, <1>2, <2>1 DEF p, x
  <1>5. CASE p.part = "head"
    <2>1. x.buf = p /\ x.frame = Nil
      BY <1>5 DEF Parse
    <2> HIDE DEF x
    <2> QED
      BY <1>1, <1>2, <1>3, <1>5, <2>1 DEF p, x
  <1>6. CASE p.part = "tail"
    <2>1. x.buf = Nil /\ x.frame = linebuf
      BY <1>6 DEF Parse
    <2> HIDE DEF x
    <2> QED
      BY <1>1, <1>2, <1>3, <1>6, <2>1 DEF p, x
  <1> QED
    BY <1>2, <1>4, <1>5, <1>6

LEMMA Answered ==
  ASSUME Typed, NEW k \in Answer
  PROVE  LET q == AnswerFrame(pc, k)
         IN  /\ q \in Context /\ q.batch = pc.batch
             /\ q.lasterr <=> k = "err"
             /\ q.currcmd = 0 /\ q.fredir = 0
             /\ pc.exit => q.exit
             /\ k = "err" /\ InScript(pc) /\ pc.batch => q.exit
             /\ k # "err" => q.exec = pc.exec /\ q.fscript = pc.fscript
  <1> DEFINE p == IF k = "err" /\ InScript(pc) THEN CloseScript(pc) ELSE pc
             b == k = "err"
             q == [p EXCEPT !.lasterr = b, !.currcmd = 0, !.fredir = 0]
  <1>1. /\ p \in Context /\ p.batch = pc.batch
        /\ pc.exit => p.exit
        /\ k = "err" /\ InScript(pc) /\ pc.batch => p.exit
        /\ k # "err" => p.exec = pc.exec /\ p.fscript = pc.fscript
    BY Closed DEF Typed
  <1>2. AnswerFrame(pc, k) = q
    BY DEF AnswerFrame, SetAnswer
  <1>3. b \in BOOLEAN /\ (b <=> k = "err")
    OBVIOUS
  <1> HIDE DEF p, b
  <1>4. /\ q \in Context /\ q.batch = p.batch /\ q.lasterr = b
        /\ q.currcmd = 0 /\ q.fredir = 0 /\ q.exit = p.exit
        /\ q.exec = p.exec /\ q.fscript = p.fscript
    BY <1>1, <1>3 DEF Context
  <1> HIDE DEF q
  <1> QED
    BY <1>1, <1>2, <1>3, <1>4

\* Reading takes packets from the front, and what follows from that alone.
LEMMA Taken ==
  ASSUME Typed, ShellInv, NEW k, IsRest(toPc', toPc, k)
  PROVE  /\ toPc' \in Seq(Packet)
         /\ TextFor(toPc', pc.fredir) /\ TextFirst(toPc') /\ Whole(toPc')
         /\ NoText(toPc) => NoText(toPc')
         /\ NoAnswer(toPc) => NoAnswer(toPc')
         /\ OneAnswer(toPc) => OneAnswer(toPc')
         /\ AnswerIn(toPc, k) =>
              NoText(toPc') /\ (OneAnswer(toPc) => NoAnswer(toPc'))
  <1>1. toPc \in Seq(Packet)
    BY DEF Typed
  <1>2. toPc' \in Seq(Packet)
    BY <1>1 DEF IsRest
  <1>3. TextFor(toPc, pc.fredir) /\ TextFirst(toPc) /\ Whole(toPc)
    BY DEF ShellInv, Texts
  <1> QED
    BY <1>1, <1>2, <1>3, Drop


LEMMA PcReadSafe ==
  ASSUME Typed, ShellInv, PcRead
  PROVE  Typed' /\ ShellInv'
  <1> DEFINE p == toPc[1]
             x == Parse(linebuf, p)
             f == x.frame
             answered == f # Nil /\ f.k \in Answer
  <1>1. /\ ~pc.exit /\ where = "shell" /\ toPc # <<>>
        /\ toPc' = SubSeq(toPc, 2, Len(toPc)) /\ Head(toPc) = p
        /\ 1 \in DOMAIN toPc /\ Len(toPc) \in Nat /\ 1 <= Len(toPc)
    BY TailIsSubSeq DEF PcRead, Typed
  <1>2. /\ linebuf' = x.buf
        /\ IF answered THEN pc' = AnswerFrame(pc, f.k) /\ where' = "answer"
                       ELSE UNCHANGED <<pc, where>>
        /\ misfiled' = (misfiled \/ (f # Nil /\ f.k = "out" /\ f.cmd # Nil
                                       /\ pc.fredir # FileOf(f.cmd)))
        /\ failed' = (failed \/ (f # Nil /\ f.k = "err"))
        /\ UNCHANGED <<toPsp, up, sh, noise>>
    BY <1>1 DEF PcRead, psp
  <1>3. /\ x.buf \in Packet \cup {Nil} /\ f \in Packet \cup {Nil}
        /\ x.buf # Nil => x.buf = p /\ p.k \notin Answer
        /\ f # Nil /\ f.k \in Answer => p.k \in Answer /\ x.buf = Nil
        /\ p.k \in Answer => f = p
        /\ f # Nil => f = p \/ f = linebuf
    BY <1>1, Parsed
  <1>4. IsRest(toPc', toPc, 1)
    BY <1>1 DEF IsRest
  <1>5. /\ toPc' \in Seq(Packet)
        /\ TextFor(toPc', pc.fredir) /\ TextFirst(toPc') /\ Whole(toPc')
        /\ NoText(toPc) => NoText(toPc')
        /\ NoAnswer(toPc) => NoAnswer(toPc')
        /\ OneAnswer(toPc) => OneAnswer(toPc')
        /\ AnswerIn(toPc, 1) => NoText(toPc') /\ (OneAnswer(toPc) => NoAnswer(toPc'))
    BY <1>4, Taken
  <1>6. p \in Packet /\ p # Nil
    BY <1>1, PcShellAssumption DEF Typed
  <1>7. /\ IsText(p) => FileOf(p.cmd) = pc.fredir /\ pc.currcmd # 0
        /\ linebuf # Nil /\ IsText(linebuf) => FileOf(linebuf.cmd) = pc.fredir
    BY <1>1 DEF ShellInv, Texts, TextFor, NoText
  <1> HIDE DEF x, p
  <1>8. OutputFiled'
    <2>1. f # Nil /\ IsText(f) => FileOf(f.cmd) = pc.fredir
      BY <1>3, <1>7
    <2> QED
      BY <1>2, <2>1 DEF IsText, ShellInv, OutputFiled
  <1>9. misfiled' \in BOOLEAN /\ failed' \in BOOLEAN /\ linebuf' \in Packet \cup {Nil}
    BY <1>2, <1>3 DEF Typed
  <1>10. CASE ~answered
    <2>1. UNCHANGED <<pc, where>>
      BY <1>2, <1>10
    <2>2. failed' = failed
      BY <1>2, <1>10 DEF Answer, Typed
    <2>3. p.k \notin Answer
      BY <1>3, <1>6, <1>10
    <2>4. Typed'
      BY <1>2, <1>5, <1>9, <2>1 DEF Typed
    <2>5. Batch' /\ Places'
      BY <1>2, <2>1, <2>2 DEF ShellInv, Batch, Places
    <2>6. Texts'
      <3>1. linebuf' # Nil =>
              /\ linebuf'.k \notin Answer
              /\ IsText(linebuf') => FileOf(linebuf'.cmd) = pc.fredir /\ pc.currcmd # 0
        BY <1>2, <1>3, <1>7
      <3>2. pc.currcmd = 0 /\ where # "tab" => NoText(toPc')
        BY <1>5 DEF ShellInv, Texts
      <3> QED
        BY <1>5, <2>1, <3>1, <3>2 DEF Texts
    <2>7. WhileUp'
      <3>1. SUFFICES ASSUME up # "off" PROVE (OnePlace /\ Waited /\ TabOnly /\ Filed)'
        BY <1>2 DEF WhileUp
      <3>2. OnePlace /\ Waited /\ TabOnly /\ Filed
        BY <3>1 DEF ShellInv, WhileUp
      <3>3. OnePlace' /\ Waited'
        BY <1>2, <1>5, <2>1, <3>2 DEF OnePlace, Waited, UnderWay, Going, Doing
      <3>4. TabOnly' /\ Filed'
        BY <1>1, <1>2, <2>1, <3>2 DEF TabOnly, Filed, Going
      <3> QED
        BY <3>3, <3>4
    <2> QED
      BY <1>8, <2>4, <2>5, <2>6, <2>7 DEF ShellInv
  <1>11. CASE answered
    <2> DEFINE q == AnswerFrame(pc, f.k)
    <2>1. pc' = q /\ where' = "answer" /\ linebuf' = Nil /\ p.k \in Answer /\ f = p
      BY <1>2, <1>3, <1>11
    <2>2. /\ q \in Context /\ q.batch = pc.batch
          /\ q.lasterr <=> f.k = "err"
          /\ q.currcmd = 0 /\ q.fredir = 0
          /\ pc.exit => q.exit
          /\ f.k = "err" /\ InScript(pc) /\ pc.batch => q.exit
          /\ f.k # "err" => q.exec = pc.exec /\ q.fscript = pc.fscript
      BY <1>11, Answered
    <2> HIDE DEF q
    <2>3. AnswerIn(toPc, 1)
      BY <2>1 DEF AnswerIn, p
    <2>4. NoText(toPc') /\ (OneAnswer(toPc) => NoAnswer(toPc'))
      BY <1>5, <2>3
    <2>5. failed' = (failed \/ f.k = "err")
      BY <1>2, <1>11
    <2>6. Typed'
      BY <1>2, <1>5, <1>9, <2>1, <2>2 DEF Typed
    <2>7. Places'
      BY <1>2, <2>1, <2>2 DEF Places, ShellInv
    <2>8. Texts'
      <3>1. TextFor(toPc', 0)
        BY <2>4 DEF NoText, TextFor
      <3> QED
        BY <1>5, <2>1, <2>2, <2>4, <3>1 DEF Texts
    <2>9. Batch'
      <3>1. pc.batch => InScript(pc) /\ ~failed
        BY <1>1 DEF ShellInv, Batch
      <3> QED
        BY <2>1, <2>2, <2>5, <3>1 DEF Batch, InScript
    <2>10. WhileUp'
      <3>1. SUFFICES ASSUME up # "off" PROVE (OnePlace /\ Waited /\ TabOnly /\ Filed)'
        BY <1>2 DEF WhileUp
      <3>2. OnePlace
        BY <3>1 DEF ShellInv, WhileUp
      <3>3. ~NoAnswer(toPc) /\ NoAnswer(toPc')
        BY <1>1, <2>1, <2>4, <3>2 DEF OnePlace, NoAnswer, p
      <3>4. ~Going /\ ~Doing
        BY <3>2, <3>3 DEF OnePlace
      <3>5. OnePlace' /\ Waited'
        BY <1>2, <1>5, <3>2, <3>3, <3>4 DEF OnePlace, Waited, UnderWay, Going, Doing
      <3>6. TabOnly' /\ Filed'
        BY <1>2, <2>1, <3>4 DEF TabOnly, Filed, Going, Doing
      <3> QED
        BY <3>5, <3>6
    <2> QED
      BY <1>8, <2>6, <2>7, <2>8, <2>9, <2>10 DEF ShellInv
  <1> QED
    BY <1>10, <1>11

LEMMA ServerGoneSafe ==
  ASSUME Typed, ShellInv, ServerGone
  PROVE  Typed' /\ ShellInv'
  <1>1. /\ pc' \in Context /\ pc'.batch = pc.batch /\ pc'.lasterr = pc.lasterr /\ pc'.exit
        /\ pc'.currcmd = pc.currcmd /\ pc'.fredir = pc.fredir
    BY DEF ServerGone, Typed, Context
  <1>2. UNCHANGED <<where, linebuf, toPsp, toPc, up, sh, noise, misfiled, failed, psp>>
    BY DEF ServerGone, psp, history
  <1>3. Batch'
    BY <1>1, <1>2 DEF Batch, ShellInv
  <1>4. Typed'
    BY <1>1, <1>2 DEF Typed
  <1>5. where' \in {"script", "answer"} => pc.currcmd = 0
    BY <1>2 DEF ShellInv, Places
  <1>6. ShellInv'
    BY <1>1, <1>2, <1>3, <1>5, Stays
  <1> QED
    BY <1>4, <1>6

LEMMA TabReadSafe ==
  ASSUME Typed, ShellInv, TabRead
  PROVE  Typed' /\ ShellInv'
  <1>1. PICK k : /\ IsRest(toPc', toPc, k)
                 /\ where' = IF AnswerIn(toPc, k) THEN "shell" ELSE "tab"
    BY DEF TabRead, IsRest, AnswerIn
  <1>2. /\ where = "tab"
        /\ UNCHANGED <<pc, linebuf, toPsp, up, sh, noise, misfiled, failed>>
    BY DEF TabRead, psp, history
  <1>3. /\ toPc' \in Seq(Packet)
        /\ TextFor(toPc', pc.fredir) /\ TextFirst(toPc') /\ Whole(toPc')
        /\ NoText(toPc) => NoText(toPc')
        /\ NoAnswer(toPc) => NoAnswer(toPc')
        /\ OneAnswer(toPc) => OneAnswer(toPc')
        /\ AnswerIn(toPc, k) => NoText(toPc') /\ (OneAnswer(toPc) => NoAnswer(toPc'))
    BY <1>1, Taken
  <1>4. Typed'
    BY <1>1, <1>2, <1>3 DEF Typed
  <1>5. Places' /\ Batch' /\ OutputFiled'
    BY <1>1, <1>2 DEF ShellInv, Places, Batch, OutputFiled
  <1>6. Texts'
    <2>1. where' # "tab" => NoText(toPc')
      BY <1>1, <1>3
    <2> QED
      BY <1>2, <1>3, <2>1 DEF ShellInv, Texts
  <1>7. WhileUp'
    <2>1. SUFFICES ASSUME up # "off" PROVE (OnePlace /\ Waited /\ TabOnly /\ Filed)'
      BY <1>2 DEF WhileUp
    <2>2. OnePlace /\ Waited /\ TabOnly /\ Filed
      BY <2>1 DEF ShellInv, WhileUp
    <2>3. OnePlace'
      BY <1>2, <1>3, <2>2 DEF OnePlace, Going, Doing
    <2>4. Filed'
      BY <1>2, <2>2 DEF Filed, Going
    <2>5. CASE AnswerIn(toPc, k)
      <3>1. ~NoAnswer(toPc)
        BY <1>1, <2>5 DEF AnswerIn, NoAnswer, IsRest, Typed
      <3>2. ~Going /\ ~Doing /\ NoAnswer(toPc') /\ where' = "shell"
        BY <1>1, <1>3, <2>2, <2>5, <3>1 DEF OnePlace
      <3>3. ~UnderWay'
        BY <1>2, <3>2 DEF UnderWay, Going, Doing
      <3> QED
        BY <2>3, <2>4, <3>2, <3>3 DEF Waited, TabOnly
    <2>6. CASE ~AnswerIn(toPc, k)
      <3>1. where' = "tab"
        BY <1>1, <2>6
      <3> QED
        BY <1>2, <2>2, <2>3, <2>4, <3>1 DEF Waited, TabOnly, Going
    <2> QED
      BY <2>5, <2>6
  <1> QED
    BY <1>4, <1>5, <1>6, <1>7 DEF ShellInv

\* With a psplink that answers in time only one that is gone does not answer.
LEMMA TabTimeoutSafe ==
  ASSUME Patient, Typed, ShellInv, TabTimeout
  PROVE  Typed' /\ ShellInv'
  <1>1. /\ where = "tab" /\ where' = "shell" /\ toPc = <<>> /\ up # "on"
        /\ UNCHANGED <<pc, linebuf, toPsp, toPc, up, sh, noise, misfiled, failed>>
    BY DEF TabTimeout, Patient, psp, history
  <1>2. up = "off"
    BY <1>1 DEF ShellInv, WhileUp, TabOnly
  <1>3. Typed'
    BY <1>1 DEF Typed
  <1>4. Places' /\ Batch' /\ OutputFiled' /\ WhileUp'
    BY <1>1, <1>2 DEF ShellInv, Places, Batch, OutputFiled, WhileUp
  <1>5. Texts'
    <2>1. NoText(toPc)
      BY <1>1 DEF NoText
    <2> QED
      BY <1>1, <2>1 DEF ShellInv, Texts
  <1> QED
    BY <1>3, <1>4, <1>5 DEF ShellInv

-----------------------------------------------------------------------------
(* Steps of the user.                                                      *)

\* What a user types, with the prompt or while a script runs.
LEMMA UserWritesSafe ==
  ASSUME Typed, ShellInv, where = "shell", ~pc.batch, NEW r, UserWrites(r),
         \/ r.out = <<>> /\ r.pc \in Context /\ r.pc.batch = pc.batch
              /\ r.pc.currcmd = pc.currcmd /\ r.pc.fredir = pc.fredir
         \/ pc.currcmd = 0 /\ \E c : r.out = <<c>> /\ SentOne(pc, r.pc, c)
  PROVE  Typed' /\ ShellInv'
  <1>1. /\ pc' = r.pc /\ toPsp' = toPsp \o r.out
        /\ UNCHANGED <<where, linebuf, toPc, up, sh, noise, misfiled, failed, psp>>
    BY DEF UserWrites, psp, history
  <1>2. CASE r.out = <<>> /\ r.pc \in Context /\ r.pc.batch = pc.batch
              /\ r.pc.currcmd = pc.currcmd /\ r.pc.fredir = pc.fredir
    <2>1. toPsp' = toPsp
      BY <1>1, <1>2 DEF Typed
    <2>2. Typed' /\ Batch'
      BY <1>1, <1>2, <2>1 DEF Typed, Batch
    <2>3. ShellInv'
      BY <1>1, <1>2, <2>1, <2>2, Stays
    <2> QED
      BY <2>2, <2>3
  <1>3. ASSUME pc.currcmd = 0, NEW c, r.out = <<c>>, SentOne(pc, r.pc, c)
        PROVE  Typed' /\ ShellInv'
    <2>1. /\ r.pc \in Context /\ r.pc.batch = pc.batch /\ c \in Command
          /\ r.pc.currcmd # 0 /\ r.pc.fredir = FileOf(c)
      BY <1>3 DEF SentOne, ShellInv, Places
    <2>2. toPsp' = toPsp \o <<c>> /\ toPsp' \in Seq(Command)
      BY <1>1, <1>3, <2>1 DEF Typed
    <2>3. Typed' /\ Batch'
      BY <1>1, <2>1, <2>2 DEF Typed, Batch
    <2>4. ShellInv'
      BY <1>1, <1>3, <2>1, <2>2, <2>3, Sends
    <2> QED
      BY <2>3, <2>4
  <1> QED
    BY <1>2, <1>3

LEMMA UserLineSafe ==
  ASSUME Patient, Typed, ShellInv, UserLine
  PROVE  Typed' /\ ShellInv'
  <1>1. /\ where = "shell" /\ ~pc.batch
        /\ (pc.currcmd = 0 /\ ~InScript(pc)) \/ InScript(pc)
    BY DEF UserLine, UserTurn, Quiet, Patient
  <1>2. PICK l \in Lines : UserWrites(CliHandler(pc, l))
    BY DEF UserLine
  <1> DEFINE r == CliHandler(pc, l)
  <1>3. pc \in Context
    BY DEF Typed
  <1>4. CASE pc.tty /\ l = "~."
    <2> DEFINE q == [pc EXCEPT !.tty = FALSE]
    <2>1. /\ q \in Context /\ q.batch = pc.batch
          /\ q.currcmd = pc.currcmd /\ q.fredir = pc.fredir
      BY <1>3 DEF Context
    <2> HIDE DEF q
    <2>2. r = Result(q, <<>>, 0)
      BY <1>4 DEF CliHandler, q
    <2>3. r.pc = q /\ r.out = <<>>
      BY <2>2 DEF Result
    <2> HIDE DEF r
    <2> QED
      BY <1>1, <1>2, <2>1, <2>3, UserWritesSafe DEF r
  <1>5. CASE pc.tty /\ l # "~."
    <2>1. r = Result(pc, <<>>, 0)
      BY <1>5 DEF CliHandler
    <2>2. r.pc = pc /\ r.out = <<>>
      BY <2>1 DEF Result
    <2> HIDE DEF r
    <2> QED
      BY <1>1, <1>2, <1>3, <2>2, UserWritesSafe DEF r
  <1>6. CASE ~pc.tty /\ l = "blank"
    <2> DEFINE q == [pc EXCEPT !.asm = FALSE]
    <2>1. /\ q \in Context /\ q.batch = pc.batch
          /\ q.currcmd = pc.currcmd /\ q.fredir = pc.fredir
      BY <1>3 DEF Context
    <2> HIDE DEF q
    <2>2. r = Result(q, <<>>, 0)
      BY <1>6 DEF CliHandler, q
    <2>3. r.pc = q /\ r.out = <<>>
      BY <2>2 DEF Result
    <2> HIDE DEF r
    <2> QED
      BY <1>1, <1>2, <2>1, <2>3, UserWritesSafe DEF r
  <1>7. CASE ~pc.tty /\ l # "blank" /\ InScript(pc)
    <2> DEFINE q == IF l = "stop" THEN CloseScript(pc) ELSE pc
    <2>1. /\ q \in Context /\ q.batch = pc.batch
          /\ q.currcmd = pc.currcmd /\ q.fredir = pc.fredir
      BY <1>3, Closed
    <2> HIDE DEF q
    <2>2. r = Result(q, <<>>, 0)
      BY <1>7 DEF CliHandler, q
    <2>3. r.pc = q /\ r.out = <<>>
      BY <2>2 DEF Result
    <2> HIDE DEF r
    <2> QED
      BY <1>1, <1>2, <2>1, <2>3, UserWritesSafe DEF r
  <1>8. CASE ~pc.tty /\ l # "blank" /\ ~InScript(pc)
    <2>1. pc.currcmd = 0 /\ l \in Line
      BY <1>1, <1>8 DEF Line
    <2>2. r = IF pc.asm THEN WriteLine(pc, "pokew") ELSE ExecuteLine(pc, l)
      BY <1>8 DEF CliHandler
    <2>3. \/ r.out = <<>> /\ Idle(pc, r.pc)
          \/ \E c : r.out = <<c>> /\ SentOne(pc, r.pc, c)
      <3>1. CASE pc.asm
        BY <1>3, <2>2, <3>1, OwnLines, WriteLineSends
      <3>2. CASE ~pc.asm
        BY <1>3, <2>1, <2>2, <3>2, LineSends
      <3> QED
        BY <3>1, <3>2
    <2> HIDE DEF r
    <2>4. \/ r.out = <<>> /\ r.pc \in Context /\ r.pc.batch = pc.batch
               /\ r.pc.currcmd = pc.currcmd /\ r.pc.fredir = pc.fredir
          \/ pc.currcmd = 0 /\ \E c : r.out = <<c>> /\ SentOne(pc, r.pc, c)
      BY <2>1, <2>3 DEF Idle
    <2> QED
      BY <1>1, <1>2, <2>4, UserWritesSafe DEF r
  <1> QED
    BY <1>4, <1>5, <1>6, <1>7, <1>8

LEMMA UserKeySafe ==
  ASSUME Patient, Typed, ShellInv, UserKey
  PROVE  Typed' /\ ShellInv'
  <1>1. where = "shell" /\ ~pc.batch /\ pc.currcmd = 0
    BY DEF UserKey, UserTurn, Quiet, Patient
  <1>2. PICK l \in Keys : UserWrites(ExecuteLine(pc, l))
    BY DEF UserKey
  <1> DEFINE r == ExecuteLine(pc, l)
  <1>3. pc \in Context /\ l \in Line
    BY DEF Typed, Line
  <1>4. \/ r.out = <<>> /\ Idle(pc, r.pc)
        \/ \E c : r.out = <<c>> /\ SentOne(pc, r.pc, c)
    BY <1>3, LineSends
  <1> HIDE DEF r
  <1>5. \/ r.out = <<>> /\ r.pc \in Context /\ r.pc.batch = pc.batch
             /\ r.pc.currcmd = pc.currcmd /\ r.pc.fredir = pc.fredir
        \/ pc.currcmd = 0 /\ \E c : r.out = <<c>> /\ SentOne(pc, r.pc, c)
    BY <1>1, <1>4 DEF Idle
  <1> QED
    BY <1>1, <1>2, <1>5, UserWritesSafe DEF r

LEMMA UserScriptSafe ==
  ASSUME Patient, NoAsm, Typed, ShellInv, UserScript
  PROVE  Typed' /\ ShellInv'
  <1>1. where = "shell" /\ ~pc.batch /\ pc.currcmd = 0
    BY DEF UserScript, UserTurn, Quiet, Patient
  <1>2. PICK s \in Scripts : pc' = OpenScript(pc, s)
    BY DEF UserScript
  <1>3. /\ where' = "script"
        /\ UNCHANGED <<linebuf, toPsp, toPc, up, sh, noise, misfiled, failed, psp>>
    BY DEF UserScript, psp, history
  <1>4. /\ pc' \in Context /\ pc'.batch = pc.batch
        /\ pc'.currcmd = pc.currcmd /\ pc'.fredir = pc.fredir
    <2> DEFINE p == CloseScript(pc)
               q == [p EXCEPT !.fscript = TRUE, !.script = s]
    <2>1. /\ p \in Context /\ p.batch = pc.batch
          /\ p.currcmd = pc.currcmd /\ p.fredir = pc.fredir
      BY Closed DEF Typed
    <2>2. pc' = q /\ s \in ScriptText
      BY <1>2 DEF OpenScript, NoAsm
    <2> HIDE DEF p
    <2>3. /\ q \in Context /\ q.batch = p.batch
          /\ q.currcmd = p.currcmd /\ q.fredir = p.fredir
      BY <2>1, <2>2 DEF Context
    <2> HIDE DEF q
    <2> QED
      BY <2>1, <2>2, <2>3
  <1>5. Typed' /\ Batch'
    BY <1>1, <1>3, <1>4 DEF Typed, Batch
  <1>6. ShellInv'
    BY <1>1, <1>3, <1>4, <1>5, Stays
  <1> QED
    BY <1>5, <1>6

LEMMA UserTabSafe ==
  ASSUME Patient, Typed, ShellInv, UserTab
  PROVE  Typed' /\ ShellInv'
  <1>1. where = "shell" /\ ~pc.batch /\ pc.currcmd = 0 /\ pc.fredir = 0
    BY DEF UserTab, UserTurn, Quiet, Patient, ShellInv, Places
  <1> DEFINE c == TabCommand(pc)
  <1>2. c \in Command /\ c.line = "tab" /\ FileOf(c) = 0
    BY OwnLines DEF TabCommand, Cmd, Command, FileOf, Typed, Context
  <1>3. /\ pc' \in Context /\ pc'.batch = pc.batch
        /\ pc'.currcmd = 0 /\ pc'.fredir = 0
    <2> DEFINE m == pc.n + 1
               q == [pc EXCEPT !.n = m]
    <2>1. pc \in Context /\ m \in Nat /\ pc' = q
      BY DEF UserTab, Typed, Context
    <2> HIDE DEF m
    <2>2. /\ q \in Context /\ q.batch = pc.batch
          /\ q.currcmd = pc.currcmd /\ q.fredir = pc.fredir
      BY <2>1 DEF Context
    <2> HIDE DEF q
    <2> QED
      BY <1>1, <2>1, <2>2
  <1> HIDE DEF c
  <1>4. /\ where' = "tab" /\ toPsp' = Append(toPsp, c)
        /\ UNCHANGED <<linebuf, toPc, up, sh, noise, misfiled, failed, psp>>
    BY DEF UserTab, psp, history, c
  <1>5. toPsp' = toPsp \o <<c>> /\ toPsp' \in Seq(Command)
    <2>1. toPsp \in Seq(Command)
      BY DEF Typed
    <2>2. Append(toPsp, c) = toPsp \o <<c>> /\ Append(toPsp, c) \in Seq(Command)
      BY <1>2, <2>1, AppendIsConcat
    <2> QED
      BY <1>4, <2>2
  <1>6. Typed' /\ Batch'
    BY <1>1, <1>3, <1>4, <1>5 DEF Typed, Batch
  <1>7. ShellInv'
    BY <1>1, <1>2, <1>3, <1>4, <1>5, <1>6, Sends
  <1> QED
    BY <1>6, <1>7

-----------------------------------------------------------------------------
(* Steps of psplink, and of what ends it.  pspsh and history stay.         *)

\* The packets that psplink sends.
LEMMA Packets ==
  ASSUME NEW k \in {"out", "ok", "err", "cwd", "tab"}, NEW cmd \in Command \cup {Nil},
         NEW part \in {"whole", "head", "tail"}
  PROVE  LET p == Pkt(k, cmd, part)
         IN  p \in Packet /\ p.k = k /\ p.cmd = cmd /\ p.part = part
  BY DEF Pkt, Packet

\* Text is added to what is on its way.
LEMMA PrintSafe ==
  ASSUME Typed, ShellInv, up = "on", NEW p \in Packet, p.k = "out",
         toPc' = Append(toPc, p),
         p.cmd # Nil => sh # Nil /\ p.cmd = sh.cmd,
         sh' # Nil => sh # Nil /\ sh'.cmd = sh.cmd,
         sh' \in [cmd : Command, said : {"nothing", "half", "all"}] \cup {Nil},
         noise' \in [left : Nat, half : BOOLEAN],
         UNCHANGED <<pc, where, linebuf, toPsp, up, history>>
  PROVE  Typed' /\ ShellInv'
  <1>1. UNCHANGED <<pc, where, linebuf, toPsp, up, misfiled, failed>>
    BY DEF history
  <1>2. OnePlace /\ Waited /\ TabOnly /\ Filed
    BY DEF ShellInv, WhileUp
  <1>3. p.k \notin Answer /\ toPc \in Seq(Packet) /\ toPc' \in Seq(Packet)
    BY DEF Answer, Typed
  <1>4. IsText(p) => /\ Doing /\ NoAnswer(toPc)
                     /\ FileOf(p.cmd) = pc.fredir
                     /\ pc.currcmd # 0 \/ where = "tab"
    BY <1>2 DEF IsText, Doing, OnePlace, Filed, Waited, UnderWay
  <1>5. /\ NoAnswer(toPc) => NoAnswer(toPc')
        /\ OneAnswer(toPc) => OneAnswer(toPc')
        /\ Whole(toPc) => Whole(toPc')
        /\ NoText(toPc) /\ ~IsText(p) => NoText(toPc')
        /\ TextFor(toPc, pc.fredir) /\ (IsText(p) => FileOf(p.cmd) = pc.fredir) =>
             TextFor(toPc', pc.fredir)
        /\ TextFirst(toPc) /\ (IsText(p) => NoAnswer(toPc)) => TextFirst(toPc')
    BY <1>3, AppendOther
  <1>6. Typed'
    BY <1>1, <1>3 DEF Typed
  <1>7. Places' /\ Batch' /\ OutputFiled'
    BY <1>1 DEF ShellInv, Places, Batch, OutputFiled
  <1>8. Texts'
    BY <1>1, <1>4, <1>5 DEF ShellInv, Texts
  <1>9. ~NoAnswer(toPc') => ~NoAnswer(toPc)
    BY <1>5
  <1>10. OnePlace' /\ Waited'
    BY <1>1, <1>2, <1>5, <1>9 DEF OnePlace, Waited, UnderWay, Going, Doing
  <1>11. TabOnly' /\ Filed'
    BY <1>1, <1>2 DEF TabOnly, Filed, Going
  <1> QED
    BY <1>6, <1>7, <1>8, <1>10, <1>11 DEF ShellInv, WhileUp

LEMMA ShPrintSafe ==
  ASSUME Typed, ShellInv, ShPrint
  PROVE  Typed' /\ ShellInv'
  <1>1. /\ sh # Nil /\ sh \in [cmd : Command, said : {"nothing", "half", "all"}]
        /\ up = "on"
    BY DEF ShPrint, Typed, ShellInv, Places
  <1>2. PICK t \in {"half", "all"}, h \in {"head", "tail"} :
          sh' = [sh EXCEPT !.said = t] /\ toPc' = Append(toPc, Pkt("out", sh.cmd, h))
    BY DEF ShPrint
  <1> DEFINE p == Pkt("out", sh.cmd, h)
             s == [sh EXCEPT !.said = t]
  <1>3. /\ s \in [cmd : Command, said : {"nothing", "half", "all"}]
        /\ s.cmd = sh.cmd /\ sh.cmd \in Command
    BY <1>1
  <1>4. p \in Packet /\ p.k = "out" /\ p.cmd = sh.cmd
    BY <1>3, Packets
  <1> HIDE DEF p, s
  <1>6. sh' = s /\ toPc' = Append(toPc, p)
    BY <1>2 DEF p, s
  <1>7. UNCHANGED <<pc, where, linebuf, toPsp, up, noise, history>>
    BY DEF ShPrint
  <1>8. noise' \in [left : Nat, half : BOOLEAN]
    BY <1>7 DEF Typed
  <1> QED
    BY <1>1, <1>3, <1>4, <1>6, <1>7, <1>8, PrintSafe

LEMMA NoiseSafe ==
  ASSUME Typed, ShellInv, Noise
  PROVE  Typed' /\ ShellInv'
  <1>1. PICK h \in {"whole", "head", "tail"} : toPc' = Append(toPc, Pkt("out", Nil, h))
    BY DEF Noise
  <1> DEFINE p == Pkt("out", Nil, h)
  <1>2. p \in Packet /\ p.k = "out" /\ p.cmd = Nil
    BY Packets
  <1> HIDE DEF p
  <1>3. up = "on" /\ toPc' = Append(toPc, p)
    BY <1>1 DEF Noise, p
  <1>4. UNCHANGED <<pc, where, linebuf, toPsp, up, sh, history>>
    BY DEF Noise
  <1>5. noise' \in [left : Nat, half : BOOLEAN]
    <2>1. noise \in [left : Nat, half : BOOLEAN]
      BY DEF Typed
    <2>2. CASE noise' = [noise EXCEPT !.half = FALSE]
      BY <2>1, <2>2
    <2>3. ASSUME NEW b \in BOOLEAN, noise.left > 0,
                 noise' = [left |-> noise.left - 1, half |-> b]
          PROVE  noise' \in [left : Nat, half : BOOLEAN]
      <3>1. noise.left \in Nat /\ noise.left - 1 \in Nat
        BY <2>1, <2>3
      <3> QED
        BY <2>3, <3>1
    <2> QED
      BY <2>2, <2>3 DEF Noise
  <1>6. sh' = sh /\ sh' \in [cmd : Command, said : {"nothing", "half", "all"}] \cup {Nil}
    BY <1>4 DEF Typed
  <1> QED
    BY <1>2, <1>3, <1>4, <1>5, <1>6, PrintSafe

LEMMA ShTakeSafe ==
  ASSUME Typed, ShellInv, ShTake
  PROVE  Typed' /\ ShellInv'
  <1> DEFINE c == toPsp[1]
             s == [cmd |-> c, said |-> "nothing"]
  <1>1. UNCHANGED <<pc, where, linebuf, toPc, up, noise, misfiled, failed>>
    BY DEF ShTake, history
  <1>2. /\ up = "on" /\ Going /\ toPsp \in Seq(Command)
        /\ sh' = s /\ toPsp' = Tail(toPsp)
    BY DEF ShTake, Typed, Going
  <1>3. OnePlace /\ Waited /\ TabOnly /\ Filed
    BY <1>2 DEF ShellInv, WhileUp
  <1>4. c \in Command /\ toPsp' = <<>>
    BY <1>2, <1>3 DEF OnePlace, Going
  <1>5. s \in [cmd : Command, said : {"nothing", "half", "all"}] /\ s.cmd = c
    BY <1>4
  <1>6. NoAnswer(toPc) /\ (where = "tab" => c.line = "tab") /\ FileOf(c) = pc.fredir
    BY <1>2, <1>3 DEF OnePlace, TabOnly, Filed
  <1>7. where = "tab" \/ (where = "shell" /\ pc.currcmd # 0)
    BY <1>2, <1>3 DEF Waited, UnderWay
  <1> HIDE DEF c, s
  <1>8. Typed'
    <2>1. toPsp' \in Seq(Command)
      BY <1>4
    <2> QED
      BY <1>1, <1>2, <1>5, <2>1 DEF Typed
  <1>9. Places' /\ Batch' /\ OutputFiled' /\ Texts'
    BY <1>1, <1>2 DEF ShellInv, Places, Batch, OutputFiled, Texts
  <1>10. OnePlace' /\ Waited'
    BY <1>1, <1>3, <1>4, <1>6, <1>7 DEF OnePlace, Waited, Going, Doing
  <1>11. TabOnly' /\ Filed'
    BY <1>1, <1>2, <1>3, <1>4, <1>5, <1>6 DEF TabOnly, Filed, Going
  <1> QED
    BY <1>8, <1>9, <1>10, <1>11 DEF ShellInv, WhileUp

\* An answer is added, when nothing else is under way any more.
LEMMA AnswerSafe ==
  ASSUME Typed, ShellInv, Doing, up # "off", NEW q \in Seq(Packet), NEW p \in Packet,
         p.k \in Answer, p.part = "whole",
         NoAnswer(q), Whole(q), TextFirst(q), TextFor(q, pc.fredir),
         NoText(toPc) => NoText(q),
         toPc' = Append(q, p), sh' = Nil, toPsp' = <<>>, up' = "on",
         UNCHANGED <<pc, where, linebuf, noise, history>>
  PROVE  Typed' /\ ShellInv'
  <1>1. UNCHANGED <<pc, where, linebuf, noise, misfiled, failed>>
    BY DEF history
  <1>2. toPc' \in Seq(Packet)
    OBVIOUS
  <1>3. Waited /\ TabOnly
    BY DEF ShellInv, WhileUp
  <1>4. /\ OneAnswer(toPc') /\ Whole(toPc') /\ TextFirst(toPc')
        /\ NoText(q) => NoText(toPc')
        /\ TextFor(q, pc.fredir) => TextFor(toPc', pc.fredir)
    BY AppendAnswer
  <1>5. Typed'
    <2>1. <<>> \in Seq(Command)
      OBVIOUS
    <2> QED
      BY <1>1, <1>2, <2>1 DEF Typed
  <1>6. Places' /\ Batch' /\ OutputFiled'
    BY <1>1 DEF ShellInv, Places, Batch, OutputFiled
  <1>7. Texts'
    BY <1>1, <1>4 DEF ShellInv, Texts
  <1>8. where = "tab" \/ (where = "shell" /\ pc.currcmd # 0)
    BY <1>3 DEF Waited, UnderWay
  <1>9. Len(toPsp') = 0 /\ ~Going' /\ ~Doing'
    BY DEF Going, Doing
  <1>10. OnePlace' /\ Waited'
    BY <1>1, <1>4, <1>8, <1>9 DEF OnePlace, Waited
  <1>11. TabOnly' /\ Filed'
    BY <1>1, <1>3, <1>9 DEF TabOnly, Filed
  <1> QED
    BY <1>5, <1>6, <1>7, <1>10, <1>11 DEF ShellInv, WhileUp

LEMMA ShDoneSafe ==
  ASSUME Typed, ShellInv, ShDone
  PROVE  Typed' /\ ShellInv'
  <1> DEFINE c == sh.cmd
  <1>1. PICK k \in Answer : toPc' = toPc \o Completed(k, c)
    BY DEF ShDone
  <1>2. /\ sh # Nil /\ up = "on" /\ sh' = Nil /\ c \in Command
        /\ UNCHANGED <<pc, where, linebuf, toPsp, up, noise, history>>
    BY DEF ShDone, Typed, ShellInv, Places
  <1>3. OnePlace
    BY <1>2 DEF ShellInv, WhileUp
  <1>4. Doing /\ toPsp' = <<>> /\ NoAnswer(toPc) /\ toPc \in Seq(Packet)
    BY <1>2, <1>3 DEF OnePlace, Doing, Going, Typed
  <1>5. Whole(toPc) /\ TextFirst(toPc) /\ TextFor(toPc, pc.fredir)
    BY DEF ShellInv, Texts
  <1> DEFINE p == Pkt(k, c, "whole")
  <1>6. p \in Packet /\ p.k \in Answer /\ p.part = "whole"
    BY <1>2, Packets DEF Answer
  <1> HIDE DEF c
  <1>7. \/ Completed(k, c) = <<>> \o <<p>>
        \/ \E t \in {"cwd", "tab"} : Completed(k, c) = <<Pkt(t, c, "whole")>> \o <<p>>
    BY DEF Completed, Reply
  <1> HIDE DEF p
  <1>8. CASE Completed(k, c) = <<>> \o <<p>>
    <2>1. toPc' = Append(toPc, p)
      BY <1>1, <1>4, <1>6, <1>8
    <2> QED
      BY <1>2, <1>4, <1>5, <1>6, <2>1, AnswerSafe
  <1>9. ASSUME NEW t \in {"cwd", "tab"},
               Completed(k, c) = <<Pkt(t, c, "whole")>> \o <<p>>
        PROVE  Typed' /\ ShellInv'
    <2> DEFINE o == Pkt(t, c, "whole")
               q == Append(toPc, o)
    <2>1. o \in Packet /\ o.k \notin Answer /\ ~IsText(o)
      BY <1>2, Packets DEF Answer, IsText, c
    <2> HIDE DEF o
    <2>2. q \in Seq(Packet) /\ toPc' = Append(q, p)
      BY <1>1, <1>4, <1>6, <1>9, <2>1 DEF o
    <2>3. /\ NoAnswer(q) /\ Whole(q) /\ TextFirst(q) /\ TextFor(q, pc.fredir)
          /\ NoText(toPc) => NoText(q)
      BY <1>4, <1>5, <2>1, AppendOther
    <2> HIDE DEF q
    <2> QED
      BY <1>2, <1>4, <1>6, <2>2, <2>3, AnswerSafe
  <1> QED
    BY <1>7, <1>8, <1>9

LEMMA ShBootSafe ==
  ASSUME Typed, ShellInv, ShBoot
  PROVE  Typed' /\ ShellInv'
  <1> DEFINE o == Pkt("cwd", Nil, "whole")
             p == Pkt("ok", Nil, "whole")
             q == Append(toPc, o)
  <1>1. o \in Packet /\ o.k \notin Answer /\ ~IsText(o)
    BY Packets DEF Answer, IsText
  <1>2. p \in Packet /\ p.k \in Answer /\ p.part = "whole"
    BY Packets DEF Answer
  <1>3. toPc' = toPc \o (<<o>> \o <<p>>)
    BY DEF ShBoot, Prompt, Reply
  <1> HIDE DEF o, p
  <1>4. /\ up = "boot" /\ up' = "on" /\ toPsp' = <<>> /\ sh = Nil /\ sh' = Nil
        /\ UNCHANGED <<pc, where, linebuf, noise, history>>
    BY DEF ShBoot, ShellInv, Places
  <1>5. OnePlace
    BY <1>4 DEF ShellInv, WhileUp
  <1>6. Doing /\ NoAnswer(toPc) /\ toPc \in Seq(Packet)
    BY <1>4, <1>5 DEF OnePlace, Doing, Typed
  <1>7. q \in Seq(Packet) /\ toPc' = Append(q, p)
    BY <1>1, <1>2, <1>3, <1>6
  <1>8. Whole(toPc) /\ TextFirst(toPc) /\ TextFor(toPc, pc.fredir)
    BY DEF ShellInv, Texts
  <1>9. /\ NoAnswer(q) /\ Whole(q) /\ TextFirst(q) /\ TextFor(q, pc.fredir)
        /\ NoText(toPc) => NoText(q)
    BY <1>1, <1>6, <1>8, AppendOther
  <1> HIDE DEF q
  <1> QED
    BY <1>2, <1>4, <1>6, <1>7, <1>9, AnswerSafe

\* A command that leads to a restart is still under way; else psplink is gone.
LEMMA ShLeaveSafe ==
  ASSUME Typed, ShellInv, ShLeave
  PROVE  Typed' /\ ShellInv'
  <1>1. /\ sh # Nil /\ up = "on" /\ sh' = Nil /\ toPsp' = <<>>
        /\ up' \in {"boot", "off"} /\ sh.cmd.line \in {"reset", "exit"}
        /\ UNCHANGED <<pc, where, linebuf, toPc, misfiled, failed>>
    BY DEF ShLeave, history, ShellInv, Places
  <1>2. OnePlace /\ Waited /\ TabOnly
    BY <1>1 DEF ShellInv, WhileUp
  <1>3. noise' \in [left : Nat, half : BOOLEAN]
    BY DEF ShLeave, Typed
  <1>4. toPsp' \in Seq(Command)
    BY <1>1
  <1>5. Typed'
    BY <1>1, <1>3, <1>4 DEF Typed
  <1>6. Places' /\ Batch' /\ OutputFiled' /\ Texts'
    BY <1>1 DEF ShellInv, Places, Batch, OutputFiled, Texts
  <1>7. NoAnswer(toPc) /\ where = "shell" /\ pc.currcmd # 0
    BY <1>1, <1>2 DEF OnePlace, Waited, TabOnly, UnderWay, Doing
  <1>8. (OnePlace /\ Waited /\ TabOnly /\ Filed)'
    BY <1>1, <1>2, <1>7 DEF OnePlace, Waited, TabOnly, Filed, Going, Doing
  <1> QED
    BY <1>5, <1>6, <1>8 DEF ShellInv, WhileUp

LEMMA PspOffSafe ==
  ASSUME Typed, ShellInv, PspOff
  PROVE  Typed' /\ ShellInv'
  <1>1. /\ up' = "off" /\ sh' = Nil
        /\ UNCHANGED <<pc, where, linebuf, toPsp, toPc, misfiled, failed>>
    BY DEF PspOff, history
  <1>2. noise' \in [left : Nat, half : BOOLEAN]
    BY DEF PspOff, Typed
  <1>3. Typed'
    BY <1>1, <1>2 DEF Typed
  <1>4. Places' /\ Batch' /\ OutputFiled' /\ Texts' /\ WhileUp'
    BY <1>1 DEF ShellInv, Places, Batch, OutputFiled, Texts, WhileUp
  <1> QED
    BY <1>3, <1>4 DEF ShellInv

-----------------------------------------------------------------------------
(* The invariant.                                                          *)

LEMMA ShellInvInit ==
  ASSUME NoAsm, PsInit
  PROVE  Typed /\ ShellInv
  <1>1. PICK m \in Modes, l \in Lines, s \in Scripts :
          LET r == ExecuteLine(Start(m, l, s), "cd") IN pc = r.pc /\ toPsp = r.out
    BY DEF PsInit
  <1> DEFINE p == Start(m, l, s)
  <1>2. m \in {"exec", "script", "user"} /\ l \in Line /\ s \in ScriptText
    BY PcShellAssumption DEF Line, NoAsm
  <1>3. p \in Context
    <2>1. <<>> \in ScriptText
      BY DEF ScriptText
    <2> QED
      BY <1>2, <2>1 DEF Start, Context
  <1>4. /\ p.currcmd = 0 /\ p.fredir = 0 /\ ~p.lasterr
        /\ p.batch => p.exec # Nil \/ p.fscript
    BY <1>2, PcShellAssumption DEF Start
  <1> HIDE DEF p
  <1> DEFINE r == ExecuteLine(p, "cd")
  <1>5. PICK c : r.out = <<c>> /\ SentOne(p, r.pc, c)
    <2>1. r = WriteLine(p, "cd")
      BY DEF ExecuteLine, Local
    <2> QED
      BY <1>3, <2>1, OwnLines, WriteLineSends
  <1>6. pc = r.pc /\ toPsp = r.out
    BY <1>1 DEF p
  <1> HIDE DEF r
  <1>7. /\ pc \in Context /\ c \in Command /\ pc.currcmd # 0 /\ pc.fredir = FileOf(c)
        /\ ~pc.lasterr /\ (pc.batch => InScript(pc))
        /\ toPsp = <<c>>
    BY <1>4, <1>5, <1>6 DEF SentOne, InScript
  <1>8. /\ where = "shell" /\ linebuf = Nil /\ toPc = <<>> /\ up = "on" /\ sh = Nil
        /\ noise = [left |-> MaxNoise, half |-> FALSE]
        /\ misfiled = FALSE /\ failed = FALSE
    BY DEF PsInit
  <1>9. Typed
    <2>1. toPsp \in Seq(Command) /\ toPc \in Seq(Packet)
      BY <1>7, <1>8
    <2>2. noise \in [left : Nat, half : BOOLEAN]
      BY <1>8, PcShellAssumption
    <2> QED
      BY <1>7, <1>8, <2>1, <2>2 DEF Typed
  <1>10. /\ NoAnswer(toPc) /\ OneAnswer(toPc) /\ Whole(toPc)
         /\ NoText(toPc) /\ TextFor(toPc, pc.fredir) /\ TextFirst(toPc)
    BY <1>8 DEF NoAnswer, OneAnswer, Whole, NoText, TextFor, TextFirst
  <1>11. Places /\ Texts /\ OutputFiled /\ Batch
    BY <1>7, <1>8, <1>10 DEF Places, Texts, OutputFiled, Batch
  <1>12. Len(toPsp) = 1 /\ toPsp[1] = c /\ ~Doing
    BY <1>7, <1>8 DEF Doing
  <1>13. OnePlace /\ Waited /\ TabOnly /\ Filed
    BY <1>7, <1>8, <1>10, <1>12 DEF OnePlace, Waited, TabOnly, Filed
  <1> QED
    BY <1>9, <1>11, <1>13 DEF ShellInv, WhileUp

LEMMA ShellInvNext ==
  ASSUME NoAsm, Patient, Typed, ShellInv, [PsNext]_psvars
  PROVE  Typed' /\ ShellInv'
  <1>1. CASE PcStep
    BY <1>1, PcReadSafe, ExecuteScriptLineSafe, TabReadSafe, TabTimeoutSafe DEF PcStep
  <1>2. CASE ShStep
    BY <1>2, ShTakeSafe, ShPrintSafe, ShDoneSafe, ShLeaveSafe, ShBootSafe DEF ShStep
  <1>3. CASE UserLine \/ UserKey \/ UserScript \/ UserTab
    BY <1>3, UserLineSafe, UserKeySafe, UserScriptSafe, UserTabSafe
  <1>4. CASE Noise \/ PspOff \/ ServerGone
    BY <1>4, NoiseSafe, PspOffSafe, ServerGoneSafe
  <1>5. CASE UNCHANGED psvars
    <2>1. UNCHANGED <<pc, where, linebuf, toPsp, toPc, up, sh, noise, misfiled, failed>>
      BY <1>5 DEF psvars
    <2>2. Typed' /\ Places' /\ Batch' /\ OutputFiled' /\ Texts'
      BY <2>1 DEF Typed, ShellInv, Places, Batch, OutputFiled, Texts
    <2>3. WhileUp'
      BY <2>1 DEF ShellInv, WhileUp, OnePlace, Waited, TabOnly, Filed, UnderWay,
                  Going, Doing
    <2> QED
      BY <2>2, <2>3 DEF ShellInv
  <1> QED
    BY <1>1, <1>2, <1>3, <1>4, <1>5 DEF PsNext

LEMMA ShellInvAlways ==
  ASSUME NoAsm, Patient
  PROVE  PsSpec => [](Typed /\ ShellInv)
  <1>1. PsInit => Typed /\ ShellInv
    BY ShellInvInit
  <1>2. Typed /\ ShellInv /\ [PsNext]_psvars => Typed' /\ ShellInv'
    BY ShellInvNext
  <1> QED BY <1>1, <1>2, PTL DEF PsSpec

LEMMA CountOne ==
  ASSUME Typed, ShellInv
  PROVE  OneUnderWay
  <1>1. SUFFICES ASSUME up # "off" PROVE OneUnderWay
    BY DEF OneUnderWay
  <1>2. OnePlace
    BY <1>1 DEF ShellInv, WhileUp
  <1> DEFINE A == {i \in DOMAIN toPc : toPc[i].k \in Answer}
             d == IF sh # Nil \/ up = "boot" THEN 1 ELSE 0
  <1>3. Len(toPsp) \in Nat /\ (Len(toPsp) = 0 <=> toPsp = <<>>)
    BY DEF Typed
  <1>4. NoAnswer(toPc) => A = {}
    BY DEF NoAnswer
  <1>5. d \in {0, 1} /\ (d = 1 <=> Doing)
    BY DEF Doing
  <1>6. CASE A = {}
    <2>1. Cardinality(A) = 0
      BY <1>6, FS_EmptySet
    <2>2. Len(toPsp) = 0 \/ d = 0
      BY <1>2, <1>3, <1>5 DEF OnePlace, Going
    <2>3. Len(toPsp) + d + Cardinality(A) <= 1
      BY <1>2, <1>3, <1>5, <2>1, <2>2 DEF OnePlace
    <2> QED
      BY <2>3 DEF OneUnderWay
  <1>7. CASE A # {}
    <2>1. PICK i \in A : TRUE
      BY <1>7
    <2>2. A = {i}
      BY <1>2, <2>1 DEF OnePlace, OneAnswer
    <2>3. Cardinality(A) = 1
      BY <2>2, FS_Singleton
    <2>4. Len(toPsp) = 0 /\ d = 0
      BY <1>2, <1>3, <1>4, <1>5, <1>7 DEF OnePlace, Going
    <2>5. Len(toPsp) + d + Cardinality(A) <= 1
      BY <2>3, <2>4
    <2> QED
      BY <2>5 DEF OneUnderWay
  <1> QED
    BY <1>6, <1>7

\* A command is sent when the one before it is answered, so that an answer needs
\* no name (process_cmd): for every set of scripts without asm and every user who
\* waits for the prompt, with completions, keys, resets and power cuts.
THEOREM OneCommand ==
  ASSUME NoAsm, Patient
  PROVE  PsSpec => []OneUnderWay
  <1>1. PsSpec => [](Typed /\ ShellInv)
    BY ShellInvAlways
  <1>2. Typed /\ ShellInv => OneUnderWay
    BY CountOne
  <1> QED BY <1>1, <1>2, PTL

\* What a command prints goes to the file of its redirection, if it has one, and
\* to no other command's (process_cmd), on the same terms.
THEOREM TextIsFiled ==
  ASSUME NoAsm, Patient
  PROVE  PsSpec => []OutputFiled
  <1>1. PsSpec => [](Typed /\ ShellInv)
    BY ShellInvAlways
  <1>2. Typed /\ ShellInv => OutputFiled
    BY DEF ShellInv
  <1> QED BY <1>1, <1>2, PTL

\* The exit status of a batch run says if a command was answered with an error
\* (main), however the run ends.
THEOREM StatusTrue ==
  ASSUME NoAsm, Patient
  PROVE  PsSpec => []ExitStatus
  <1>1. PsSpec => [](Typed /\ ShellInv)
    BY ShellInvAlways
  <1>2. Typed /\ ShellInv => ExitStatus
    BY DEF ShellInv, Batch, ExitStatus
  <1> QED BY <1>1, <1>2, PTL

-----------------------------------------------------------------------------
(* The sockets.                                                             *)

\* Channels and descriptors are numbers, and what a descriptor can stand for is
\* told apart.
SocketAssumption ==
  /\ Chan \subseteq Nat /\ SHELL \in Chan
  /\ Fd \subseteq Nat
  /\ NULL \notin Client /\ FileName \notin Client

States == {"new", "waiting", "open", "left", "gone"}
Steps  == {"select", "accept", "accepting", "read", "send"}

SocketsTyped ==
  /\ os \in [Fd -> Client \cup {FileName, NULL}]
  /\ cl \in [Client -> [st : States, chan : Chan \cup {0}, out : Int]]
  /\ g_clientsocks \in [Chan -> Fd \cup {None}]
  /\ read_save \subseteq Fd /\ read_set \subseteq Fd
  /\ at \in [step : Steps, todo : SUBSET Chan, data : Client \cup {NULL}]
  /\ at.step # "select" => at.todo # {}

\* The channel whose old client is closed, and whose new one is not yet there.
Vacant(i) == at.step = "accepting" /\ I = i

\* A client has one descriptor, and it has been accepted.
Has(c) == cl[c].st \in {"open", "left"}
OneFd    == \A f, g \in Fd : os[f] \in Client /\ os[f] = os[g] => f = g
Accepted == \A f \in Fd : os[f] \in Client => Has(os[f])

Owns(i, f) == os[f] \in Client /\ cl[os[f]].chan = i
Owned == \A i \in Chan :
  g_clientsocks[i] # None /\ ~Vacant(i) => Owns(i, g_clientsocks[i])

Watched == \A f \in Fd :
  f \in read_save <=> \E i \in Chan : ~Vacant(i) /\ g_clientsocks[i] = f

\* The channels that are still to be read have a client.
Sockets == at.step \in {"read", "send"} => \A i \in at.todo : g_clientsocks[i] # None

Console == Daemon /\ ~Vacant(SHELL) =>
  stdout = IF g_clientsocks[SHELL] = None THEN NULL ELSE os[g_clientsocks[SHELL]]

Sender == at.step = "send" => at.data \in Client /\ Has(at.data) /\ cl[at.data].chan = I

SockInv == SocketsTyped /\ OneFd /\ Accepted /\ Owned /\ Watched /\ Sockets /\ Console /\ Sender
           /\ FromOwnChannel

-----------------------------------------------------------------------------
\* The lowest free descriptor is a free one.  (accept)
LEMMA MinIsLowest ==
  ASSUME NEW S \in SUBSET Nat, S # {}
  PROVE  Min(S) \in S
  <1>1. PICK x \in S : \A y \in S : ~(<<y, x>> \in OpToRel(<, Nat))
    BY NatLessThanWellFounded, WFMin
  <1>2. \A y \in S : x =< y
    <2>1. SUFFICES ASSUME NEW y \in S PROVE x =< y
      OBVIOUS
    <2>2. ~(y < x)
      BY <1>1 DEF OpToRel
    <2> QED
      BY <2>2
  <1> QED
    BY <1>2 DEF Min

LEMMA InvInit ==
  ASSUME SocketAssumption, Init
  PROVE  SockInv
  <1> USE DEF Init, SocketAssumption, At, None
  <1>1. SocketsTyped
    BY DEF SocketsTyped, States, Steps
  <1>2. OneFd /\ Accepted
    BY DEF OneFd, Accepted
  <1>3. Owned /\ Watched /\ Console /\ Sockets /\ Sender
    BY DEF Owned, Watched, Console, Sockets, Sender
  <1> QED
    BY <1>1, <1>2, <1>3 DEF SockInv, FromOwnChannel

\* Any step that leaves the sockets of the clients alone, whatever it does to other
\* descriptors and to what the clients have sent.
LEMMA ClientsAlone ==
  ASSUME SocketAssumption, SockInv,
         UNCHANGED <<async, mixed>>,
         os' \in [Fd -> Client \cup {FileName, NULL}],
         cl' \in [Client -> [st : States, chan : Chan \cup {0}, out : Int]],
         \A f \in Fd : os[f] \in Client \/ os'[f] \in Client => os'[f] = os[f],
         \A c \in Client : Has(c) => Has(c)' /\ cl'[c].chan = cl[c].chan
  PROVE  SockInv'
  <1> USE DEF SockInv
  <1>1. UNCHANGED <<g_clientsocks, read_save, read_set, at, stdout, mixed>>
    BY DEF async
  <1>2. \A i : Vacant(i)' = Vacant(i)
    BY <1>1 DEF Vacant, I
  <1>3. SocketsTyped'
    BY <1>1 DEF SocketsTyped
  <1>4. OneFd' /\ Accepted'
    BY DEF OneFd, Accepted
  <1>5. \A i \in Chan : g_clientsocks[i] # None /\ ~Vacant(i) =>
          Owns(i, g_clientsocks[i])' /\ os'[g_clientsocks[i]] = os[g_clientsocks[i]]
    <2>1. SUFFICES ASSUME NEW i \in Chan, g_clientsocks[i] # None, ~Vacant(i)
                   PROVE  Owns(i, g_clientsocks[i])' /\ os'[g_clientsocks[i]] = os[g_clientsocks[i]]
      OBVIOUS
    <2>2. g_clientsocks[i] \in Fd /\ Owns(i, g_clientsocks[i])
      BY <2>1 DEF SocketsTyped, Owned
    <2>3. os'[g_clientsocks[i]] = os[g_clientsocks[i]] /\ os[g_clientsocks[i]] \in Client
      BY <2>2 DEF Owns
    <2>4. cl'[os[g_clientsocks[i]]].chan = cl[os[g_clientsocks[i]]].chan
      BY <2>2, <2>3 DEF Accepted
    <2> QED
      BY <1>1, <2>2, <2>3, <2>4 DEF Owns
  <1>6. Owned' /\ Watched' /\ Sockets'
    BY <1>1, <1>2, <1>5 DEF Owned, Watched, Sockets
  <1>7. Console'
    BY <1>1, <1>2, <1>5 DEF Console, SocketAssumption
  <1>8. Sender'
    BY <1>1 DEF Sender, I
  <1> QED
    BY <1>1, <1>3, <1>4, <1>6, <1>7, <1>8 DEF FromOwnChannel

LEMMA InvClientStep ==
  ASSUME SocketAssumption, SockInv, NEW c \in Client, Connect(c) \/ Send(c) \/ Leave(c)
  PROVE  SockInv'
  <1> USE DEF SockInv, States, Has
  <1>1. UNCHANGED <<os, async, mixed>>
    BY DEF Connect, Send, Leave, async, usb
  <1>2. cl' \in [Client -> [st : States, chan : Chan \cup {0}, out : Int]]
    <2>1. CASE Connect(c)
      <3> DEFINE n == IF Talks THEN 1 ELSE 0
      <3>0. n \in Int
        OBVIOUS
      <3>1. PICK i \in Chan :
              cl' = [cl EXCEPT ![c].st = "waiting", ![c].chan = i, ![c].out = n]
        BY <2>1 DEF Connect
      <3> HIDE DEF n
      <3>2. [cl[c] EXCEPT !.st = "waiting", !.chan = i, !.out = n]
              \in [st : States, chan : Chan \cup {0}, out : Int]
        BY <3>0 DEF SocketsTyped
      <3>3. cl' = [cl EXCEPT ![c] = [cl[c] EXCEPT !.st = "waiting", !.chan = i, !.out = n]]
        BY <3>1 DEF SocketsTyped
      <3> QED
        BY <3>2, <3>3 DEF SocketsTyped
    <2>2. CASE Send(c)
      BY <2>2 DEF Send, SocketsTyped
    <2>3. CASE Leave(c)
      BY <2>3 DEF Leave, SocketsTyped
    <2> QED
      BY <2>1, <2>2, <2>3
  <1>3. \A b \in Client : Has(b) => Has(b)' /\ cl'[b].chan = cl[b].chan
    <2>1. CASE Connect(c)
      BY <2>1 DEF Connect, SocketsTyped
    <2>2. CASE Send(c)
      BY <2>2 DEF Send, SocketsTyped
    <2>3. CASE Leave(c)
      BY <2>3 DEF Leave, SocketsTyped
    <2> QED
      BY <2>1, <2>2, <2>3
  <1>4. os' \in [Fd -> Client \cup {FileName, NULL}]
    BY <1>1 DEF SocketsTyped
  <1> HIDE DEF SockInv, States, Has
  <1> QED
    BY <1>1, <1>2, <1>3, <1>4, ClientsAlone

LEMMA FreeIsFree ==
  ASSUME SocketAssumption, Free # {}
  PROVE  Min(Free) \in Fd /\ os[Min(Free)] = NULL
  <1>1. Free \in SUBSET Nat
    BY DEF SocketAssumption, Free
  <1> QED
    BY <1>1, MinIsLowest DEF Free

LEMMA InvMainStep ==
  ASSUME SocketAssumption, SockInv, MainStep
  PROVE  SockInv'
  <1>1. SocketsTyped
    BY DEF SockInv
  <1>2. UNCHANGED <<cl, async, mixed>>
    BY DEF MainStep, OpenDevice, CloseDevice, UseFile, PspSends, WriteClient, Die, kernel, usb
  <1>3. /\ os' \in [Fd -> Client \cup {FileName, NULL}]
        /\ \A f \in Fd : os[f] \in Client \/ os'[f] \in Client => os'[f] = os[f]
    <2>1. CASE UNCHANGED os
      BY <2>1, <1>1 DEF SocketsTyped
    <2>2. CASE CloseDevice
      BY <2>2, <1>1 DEF CloseDevice, SocketsTyped, SocketAssumption
    <2>3. CASE UseFile
      <3>1. CASE \E f \in Fd : os[f] = FileName /\ os' = [os EXCEPT ![f] = NULL]
        BY <3>1, <1>1 DEF SocketsTyped, SocketAssumption
      <3>2. CASE Free # {} /\ os' = [os EXCEPT ![Min(Free)] = FileName]
        BY <3>2, <1>1, FreeIsFree DEF SocketsTyped, SocketAssumption
      <3> QED
        BY <2>3, <3>1, <3>2 DEF UseFile
    <2> QED
      BY <2>1, <2>2, <2>3
         DEF MainStep, OpenDevice, PspSends, WriteClient, Die, kernel
  <1>4. cl' \in [Client -> [st : States, chan : Chan \cup {0}, out : Int]]
    BY <1>1, <1>2 DEF SocketsTyped
  <1>5. \A c \in Client : Has(c) => Has(c)' /\ cl'[c].chan = cl[c].chan
    BY <1>2 DEF Has
  <1> QED
    BY <1>2, <1>3, <1>4, <1>5, ClientsAlone

-----------------------------------------------------------------------------
(* async_thread.                                                           *)

\* The next channel of a loop is one that is left in it.
LEMMA NextChannel ==
  ASSUME SocketAssumption, SocketsTyped, at.step # "select"
  PROVE  I \in at.todo /\ I \in Chan
  <1>1. at.todo \in SUBSET Nat /\ at.todo # {} /\ at.todo \subseteq Chan
    BY DEF SocketsTyped, SocketAssumption
  <1> QED
    BY <1>1, MinIsLowest DEF I

\* Where a loop goes: on with what is left, or back to select.
LEMMA LoopGoesOn ==
  ASSUME NEW step \in Steps, NEW todo \in SUBSET Chan
  PROVE  /\ At(step, todo) \in [step : Steps, todo : SUBSET Chan, data : Client \cup {NULL}]
         /\ At(step, todo).step # "select" => todo # {} /\ At(step, todo).step = step
         /\ At(step, todo).todo = todo
  BY DEF At, Steps

\* The steps of the loop over the clients: a channel whose socket was reported has one.
LEMMA ReadsClients ==
  ASSUME NEW set \in SUBSET Fd, NEW socks, SocketAssumption
  PROVE  LET next == ToRead(set, socks)
         IN  /\ next \in [step : Steps, todo : SUBSET Chan, data : Client \cup {NULL}]
             /\ next.step # "select" => next.todo # {}
             /\ next.step \in {"select", "read"}
             /\ \A i \in next.todo : socks[i] # None
  <1> DEFINE todo == {i \in Chan : socks[i] \in set}
  <1>1. todo \in SUBSET Chan /\ \A i \in todo : socks[i] # None
    BY DEF SocketAssumption, None
  <1>2. "read" \in Steps /\ ToRead(set, socks) = At("read", todo)
    BY DEF ToRead, Steps
  <1> HIDE DEF todo
  <1> QED
    BY <1>1, <1>2, LoopGoesOn

LEMMA AcceptsOrReads ==
  ASSUME NEW set \in SUBSET Fd, NEW socks, NEW todo \in SUBSET Chan, SocketAssumption
  PROVE  LET next == ToAccept(todo, set, socks)
         IN  /\ next \in [step : Steps, todo : SUBSET Chan, data : Client \cup {NULL}]
             /\ next.step # "select" => next.todo # {}
             /\ next.step \in {"select", "accept", "read"}
             /\ next.step = "read" => \A i \in next.todo : socks[i] # None
  <1>1. CASE todo = {}
    BY <1>1, ReadsClients DEF ToAccept
  <1>2. CASE todo # {}
    <2>1. "accept" \in Steps /\ ToAccept(todo, set, socks) = At("accept", todo)
      BY <1>2 DEF ToAccept, Steps
    <2>2. At("accept", todo).step = "accept"
      BY <1>2 DEF At
    <2> QED
      BY <2>1, <2>2, LoopGoesOn
  <1> QED
    BY <1>1, <1>2

LEMMA InvSelect ==
  ASSUME SocketAssumption, SockInv, Select
  PROVE  SockInv'
  <1> USE DEF SockInv, Select
  <1>1. read_set' \in SUBSET Fd /\ Pending \in SUBSET Chan
    BY DEF SocketsTyped, Pending
  <1>2. /\ at' \in [step : Steps, todo : SUBSET Chan, data : Client \cup {NULL}]
        /\ at'.step # "select" => at'.todo # {}
        /\ at'.step \in {"select", "accept", "read"}
        /\ at'.step = "read" => \A i \in at'.todo : g_clientsocks[i] # None
    BY <1>1, AcceptsOrReads
  <1>3. UNCHANGED <<os, cl, g_clientsocks, read_save, stdout, mixed>>
    BY DEF kernel, usb
  <1>4. \A i : ~Vacant(i) /\ ~Vacant(i)'
    BY <1>2 DEF Vacant
  <1>5. SocketsTyped' /\ OneFd' /\ Accepted'
    BY <1>1, <1>2, <1>3 DEF SocketsTyped, OneFd, Accepted, Has
  <1>6. Owned' /\ Watched' /\ Console'
    BY <1>3, <1>4 DEF Owned, Owns, Watched, Console
  <1>7. Sockets' /\ Sender'
    BY <1>2, <1>3 DEF Sockets, Sender
  <1> QED
    BY <1>3, <1>5, <1>6, <1>7 DEF FromOwnChannel

\* Two channels have two sockets.
LEMMA OwnSocket ==
  ASSUME SockInv, NEW i \in Chan, NEW j \in Chan, i # j,
         ~Vacant(i), ~Vacant(j), g_clientsocks[i] # None
  PROVE  g_clientsocks[i] # g_clientsocks[j]
  BY DEF SockInv, Owned, Owns

\* What is closed is the client's only descriptor; the others keep theirs.
LEMMA CloseKeepsOthers ==
  ASSUME SocketAssumption, SockInv, NEW f \in Fd, os[f] \in Client, Close(f)
  PROVE  /\ os' \in [Fd -> Client \cup {FileName, NULL}]
         /\ cl' \in [Client -> [st : States, chan : Chan \cup {0}, out : Int]]
         /\ OneFd' /\ Accepted'
         /\ \A g \in Fd : g # f => os'[g] = os[g]
         /\ \A i \in Chan, g \in Fd : g # f /\ Owns(i, g) => Owns(i, g)'
  <1> USE DEF SockInv, Close
  <1>1. Gone \in [st : States, chan : Chan \cup {0}, out : Int]
    BY DEF Gone, States
  <1>2. /\ os' \in [Fd -> Client \cup {FileName, NULL}]
        /\ cl' \in [Client -> [st : States, chan : Chan \cup {0}, out : Int]]
    BY <1>1 DEF SocketsTyped
  <1>3. \A g \in Fd : os'[g] = IF g = f THEN NULL ELSE os[g]
    BY DEF SocketsTyped
  <1>4. \A c \in Client : c # os[f] => cl'[c] = cl[c]
    BY DEF SocketsTyped
  <1>5. \A g \in Fd : g # f /\ os[g] \in Client => os'[g] = os[g] /\ cl'[os[g]] = cl[os[g]]
    BY <1>3, <1>4 DEF OneFd
  <1>6. OneFd' /\ Accepted'
    BY <1>3, <1>5 DEF OneFd, Accepted, Has, SocketAssumption
  <1>7. \A i \in Chan, g \in Fd : g # f /\ Owns(i, g) => Owns(i, g)'
    BY <1>5 DEF Owns
  <1> QED
    BY <1>2, <1>3, <1>6, <1>7

LEMMA InvReplace ==
  ASSUME SocketAssumption, SockInv, Replace
  PROVE  SockInv'
  <1> DEFINE old == g_clientsocks[I]
  <1> USE DEF SockInv
  <1>1. I \in Chan /\ at.step = "accept" /\ at' = [at EXCEPT !.step = "accepting"]
    BY NextChannel DEF Replace
  <1>2. UNCHANGED <<g_clientsocks, read_set, stdout, mixed>>
    BY DEF Replace, usb
  <1>3. \A i : ~Vacant(i) /\ (Vacant(i)' <=> i = I)
    BY <1>1 DEF Vacant, I, SocketsTyped
  <1>4. at' \in [step : Steps, todo : SUBSET Chan, data : Client \cup {NULL}] /\ at'.todo # {}
    BY <1>1 DEF SocketsTyped, Steps
  <1>5. at'.step = "accepting"
    BY <1>1 DEF SocketsTyped
  <1>6. \A i \in Chan : i # I /\ g_clientsocks[i] # None => g_clientsocks[i] # old
    BY <1>1, <1>3, OwnSocket
  <1>7. /\ os' \in [Fd -> Client \cup {FileName, NULL}]
        /\ cl' \in [Client -> [st : States, chan : Chan \cup {0}, out : Int]]
        /\ OneFd' /\ Accepted'
        /\ read_save' = read_save \ {old}
        /\ \A g \in Fd : g # old => os'[g] = os[g]
        /\ \A i \in Chan, g \in Fd : g # old /\ Owns(i, g) => Owns(i, g)'
    <2>1. CASE old = None
      <3>1. UNCHANGED <<os, cl, read_save>>
        BY <2>1 DEF Replace, kernel
      <3>2. old \notin read_save
        BY <2>1 DEF SocketsTyped, None, SocketAssumption
      <3> QED
        BY <3>1, <3>2 DEF SocketsTyped, OneFd, Accepted, Has, Owns
    <2>2. CASE old # None
      <3>1. Close(old) /\ read_save' = read_save \ {old}
        BY <2>2 DEF Replace
      <3>2. old \in Fd /\ os[old] \in Client
        BY <2>2, <1>1, <1>3 DEF SocketsTyped, Owned, Owns
      <3> HIDE DEF old, SockInv
      <3> QED
        BY <3>1, <3>2, CloseKeepsOthers
    <2> QED
      BY <2>1, <2>2
  <1>8. \A i \in Chan : g_clientsocks[i] # None /\ i # I =>
          Owns(i, g_clientsocks[i])' /\ os'[g_clientsocks[i]] = os[g_clientsocks[i]]
    <2>1. SUFFICES ASSUME NEW i \in Chan, g_clientsocks[i] # None, i # I
                   PROVE  Owns(i, g_clientsocks[i])'
                          /\ os'[g_clientsocks[i]] = os[g_clientsocks[i]]
      OBVIOUS
    <2>2. g_clientsocks[i] \in Fd /\ g_clientsocks[i] # old /\ Owns(i, g_clientsocks[i])
      BY <2>1, <1>3, <1>6 DEF SocketsTyped, Owned
    <2> HIDE DEF old
    <2> QED
      BY <2>2, <1>2, <1>7 DEF Owns
  <1>9. SocketsTyped'
    BY <1>2, <1>4, <1>7 DEF SocketsTyped
  <1>10. Owned'
    BY <1>2, <1>3, <1>8 DEF Owned
  <1>11. Console'
    BY <1>2, <1>3, <1>8 DEF Console, SocketAssumption
  <1>12. Watched'
    <2>1. \A f \in Fd : f # None
      BY DEF SocketAssumption, None
    <2>2. \A f \in Fd : f \in read_save \ {old}
                        <=> \E i \in Chan : i # I /\ g_clientsocks[i] = f
      <3>1. \A f \in Fd : f \in read_save <=> \E i \in Chan : g_clientsocks[i] = f
        BY <1>3 DEF Watched
      <3> QED
        BY <3>1, <2>1, <1>1, <1>6
    <2> QED
      BY <2>2, <1>2, <1>3, <1>7 DEF Watched
  <1>13. Sockets' /\ Sender'
    BY <1>5 DEF Sockets, Sender
  <1> QED
    BY <1>2, <1>7, <1>9, <1>10, <1>11, <1>12, <1>13 DEF FromOwnChannel

LEMMA InvAccept ==
  ASSUME SocketAssumption, SockInv, Accept
  PROVE  SockInv'
  <1> DEFINE f == Min(Free)
  <1> USE DEF SockInv
  <1>1. I \in Chan /\ at.step = "accepting"
    BY NextChannel DEF Accept
  <1>2. PICK c \in Client :
          /\ cl[c].st = "waiting" /\ cl[c].chan = I
          /\ os' = [os EXCEPT ![f] = c]
          /\ g_clientsocks' = [g_clientsocks EXCEPT ![I] = f]
          /\ read_save' = read_save \cup {f}
          /\ cl' = [cl EXCEPT ![c].st = "open"]
          /\ stdout' = IF Daemon /\ I = SHELL THEN c ELSE stdout
    BY DEF Accept, Waiting, Watch
  <1>3. f \in Fd /\ os[f] = NULL /\ os[f] \notin Client
    BY FreeIsFree DEF Accept, SocketAssumption
  <1>4. /\ at' \in [step : Steps, todo : SUBSET Chan, data : Client \cup {NULL}]
        /\ at'.step # "select" => at'.todo # {}
        /\ at'.step \in {"select", "accept", "read"}
        /\ at'.step = "read" => \A i \in at'.todo : g_clientsocks'[i] # None
    <2>1. at' = ToAccept(at.todo \ {I}, read_set, g_clientsocks')
      BY DEF Accept
    <2>2. read_set \in SUBSET Fd /\ at.todo \ {I} \in SUBSET Chan
      BY DEF SocketsTyped
    <2> QED
      BY <2>1, <2>2, AcceptsOrReads
  <1>5. read_set' \subseteq Fd /\ mixed' = mixed
    BY DEF SocketsTyped, Accept, usb
  <1> HIDE DEF f
  <1>6. \A i : (Vacant(i) <=> i = I) /\ ~Vacant(i)'
    BY <1>1, <1>4 DEF Vacant
  <1>7. \A g \in Fd : os[g] # c
    BY <1>2 DEF Accepted, Has
  <1>8. SocketsTyped'
    <2>1. cl' \in [Client -> [st : States, chan : Chan \cup {0}, out : Int]]
      BY <1>2 DEF SocketsTyped, States
    <2> QED
      BY <2>1, <1>2, <1>3, <1>4, <1>5 DEF SocketsTyped
  <1>9. cl'[c].st = "open" /\ cl'[c].chan = I /\ \A b \in Client : b # c => cl'[b] = cl[b]
    BY <1>2 DEF SocketsTyped
  <1>10. os'[f] = c /\ \A g \in Fd : g # f => os'[g] = os[g]
    BY <1>2, <1>3 DEF SocketsTyped
  <1>11. OneFd' /\ Accepted'
    BY <1>7, <1>9, <1>10 DEF OneFd, Accepted, Has
  <1>12. g_clientsocks'[I] = f /\ \A i \in Chan : i # I => g_clientsocks'[i] = g_clientsocks[i]
    BY <1>1, <1>2 DEF SocketsTyped
  <1>13. \A i \in Chan : i # I /\ g_clientsocks[i] # None =>
           /\ os'[g_clientsocks[i]] = os[g_clientsocks[i]]
           /\ os'[g_clientsocks[i]] \in Client
           /\ cl'[os'[g_clientsocks[i]]].chan = i
    <2>1. SUFFICES ASSUME NEW i \in Chan, i # I, g_clientsocks[i] # None
                   PROVE  /\ os'[g_clientsocks[i]] = os[g_clientsocks[i]]
                          /\ os'[g_clientsocks[i]] \in Client
                          /\ cl'[os'[g_clientsocks[i]]].chan = i
      OBVIOUS
    <2>2. g_clientsocks[i] \in Fd /\ Owns(i, g_clientsocks[i])
      BY <2>1, <1>6 DEF SocketsTyped, Owned
    <2>3. g_clientsocks[i] # f /\ os[g_clientsocks[i]] # c
      BY <2>2, <1>3, <1>7 DEF Owns
    <2> QED
      BY <2>2, <2>3, <1>9, <1>10 DEF Owns
  <1>14. Owned'
    <2>1. SUFFICES ASSUME NEW i \in Chan, g_clientsocks'[i] # None
                   PROVE  os'[g_clientsocks'[i]] \in Client /\ cl'[os'[g_clientsocks'[i]]].chan = i
      BY DEF Owned, Owns
    <2>2. CASE i = I
      BY <2>2, <1>9, <1>10, <1>12
    <2>3. CASE i # I
      BY <2>1, <2>3, <1>12, <1>13
    <2> QED
      BY <2>2, <2>3
  <1>15. Watched'
    <2>1. \A g \in Fd : g \in read_save <=> \E i \in Chan : i # I /\ g_clientsocks[i] = g
      BY <1>6 DEF Watched
    <2>2. \A g \in Fd : g \in read_save' <=> \E i \in Chan : g_clientsocks'[i] = g
      BY <2>1, <1>1, <1>2, <1>12
    <2> QED
      BY <2>2, <1>6 DEF Watched
  <1>16. Console'
    <2>1. CASE I = SHELL
      BY <2>1, <1>2, <1>3, <1>10, <1>12 DEF Console, None, SocketAssumption
    <2>2. CASE I # SHELL
      BY <2>2, <1>2, <1>6, <1>12, <1>13 DEF Console, SocketAssumption
    <2> QED
      BY <2>1, <2>2
  <1>17. Sockets' /\ Sender'
    BY <1>4 DEF Sockets, Sender
  <1> QED
    BY <1>5, <1>8, <1>11, <1>14, <1>15, <1>16, <1>17 DEF FromOwnChannel

\* A step of the loop over the clients that moves no socket.
LEMMA SocketsAlone ==
  ASSUME SocketAssumption, SockInv, at.step \in {"read", "send"},
         UNCHANGED <<os, g_clientsocks, read_save, stdout>>,
         cl' \in [Client -> [st : States, chan : Chan \cup {0}, out : Int]],
         \A c \in Client : cl'[c].st = cl[c].st /\ cl'[c].chan = cl[c].chan,
         read_set' \subseteq Fd,
         at' \in [step : Steps, todo : SUBSET Chan, data : Client \cup {NULL}],
         at'.step # "select" => at'.todo # {},
         at'.step \in {"select", "read", "send"}, at'.todo \subseteq at.todo
  PROVE  SocketsTyped' /\ OneFd' /\ Accepted' /\ Owned' /\ Watched' /\ Sockets' /\ Console'
  <1> USE DEF SockInv
  <1>1. \A i : ~Vacant(i) /\ ~Vacant(i)'
    BY DEF Vacant
  <1>2. SocketsTyped'
    BY DEF SocketsTyped
  <1>3. OneFd' /\ Accepted'
    BY DEF OneFd, Accepted, Has
  <1>4. Owned'
    BY <1>1 DEF Owned, Owns, SocketsTyped
  <1>5. Watched' /\ Sockets' /\ Console'
    BY <1>1 DEF Watched, Sockets, Console
  <1> QED
    BY <1>2, <1>3, <1>4, <1>5

\* The loop over the clients goes on.
LEMMA GoesOnReading ==
  ASSUME SocketAssumption, SockInv, at.step \in {"read", "send"}, NextRead
  PROVE  /\ read_set' \subseteq Fd
         /\ at' \in [step : Steps, todo : SUBSET Chan, data : Client \cup {NULL}]
         /\ at'.step # "select" => at'.todo # {}
         /\ at'.step \in {"select", "read"} /\ at'.todo \subseteq at.todo \ {I}
  <1>1. "read" \in Steps /\ at.todo \ {I} \in SUBSET Chan
    BY DEF SockInv, SocketsTyped, Steps
  <1>2. at' = At("read", at.todo \ {I})
    BY DEF NextRead
  <1>3. read_set' \subseteq Fd
    BY DEF SockInv, SocketsTyped, NextRead
  <1> QED
    BY <1>1, <1>2, <1>3, LoopGoesOn DEF At

\* In that loop the channel has a socket, which is its client's.
LEMMA ReadsOwnClient ==
  ASSUME SocketAssumption, SockInv, at.step = "read"
  PROVE  I \in Chan /\ I \in at.todo /\ Sock \in Fd /\ Owns(I, Sock) /\ Has(os[Sock])
  <1> USE DEF SockInv
  <1>1. I \in Chan /\ I \in at.todo
    BY NextChannel
  <1>2. Sock # None
    BY <1>1 DEF Sockets, Sock
  <1>3. Sock \in Fd /\ Owns(I, Sock)
    BY <1>1, <1>2 DEF SocketsTyped, Sock, Owned, Vacant
  <1> QED
    BY <1>1, <1>3 DEF Owns, Accepted

LEMMA InvReadData ==
  ASSUME SocketAssumption, SockInv, ReadData
  PROVE  SockInv'
  <1> DEFINE c == os[Sock]
  <1> USE DEF SockInv
  <1>1. at.step = "read"
    BY DEF ReadData
  <1>2. I \in Chan /\ c \in Client /\ cl[c].chan = I /\ Has(c)
    BY <1>1, ReadsOwnClient DEF Owns
  <1>3. /\ UNCHANGED <<os, g_clientsocks, read_save, stdout, mixed>>
        /\ cl' = [cl EXCEPT ![c].out = @ - 1]
    BY DEF ReadData, usb
  <1>4. \/ at' = [at EXCEPT !.step = "send", !.data = c] /\ UNCHANGED read_set
        \/ NextRead
    BY DEF ReadData
  <1> HIDE DEF c
  <1>5. /\ cl' \in [Client -> [st : States, chan : Chan \cup {0}, out : Int]]
        /\ \A b \in Client : cl'[b].st = cl[b].st /\ cl'[b].chan = cl[b].chan
    BY <1>2, <1>3 DEF SocketsTyped
  <1>6. CASE at' = [at EXCEPT !.step = "send", !.data = c] /\ UNCHANGED read_set
    <2>1. /\ at' \in [step : Steps, todo : SUBSET Chan, data : Client \cup {NULL}]
          /\ at'.step = "send" /\ at'.todo = at.todo /\ at'.data = c
      BY <1>2, <1>6 DEF SocketsTyped, Steps
    <2>2. read_set' \subseteq Fd /\ at'.todo # {} /\ I' = I
      BY <1>1, <1>6, <2>1 DEF SocketsTyped, I
    <2>3. SocketsTyped' /\ OneFd' /\ Accepted' /\ Owned' /\ Watched' /\ Sockets' /\ Console'
      BY <1>1, <1>3, <1>5, <2>1, <2>2, SocketsAlone
    <2>4. Sender'
      BY <1>2, <1>5, <2>1, <2>2 DEF Sender, Has
    <2> QED
      BY <1>3, <2>3, <2>4 DEF FromOwnChannel
  <1>7. CASE NextRead
    <2>1. /\ read_set' \subseteq Fd
          /\ at' \in [step : Steps, todo : SUBSET Chan, data : Client \cup {NULL}]
          /\ at'.step # "select" => at'.todo # {}
          /\ at'.step \in {"select", "read"} /\ at'.todo \subseteq at.todo
      BY <1>1, <1>7, GoesOnReading
    <2>2. SocketsTyped' /\ OneFd' /\ Accepted' /\ Owned' /\ Watched' /\ Sockets' /\ Console'
      BY <1>1, <1>3, <1>5, <2>1, SocketsAlone
    <2> QED
      BY <1>3, <2>1, <2>2 DEF FromOwnChannel, Sender
  <1> QED
    BY <1>4, <1>6, <1>7

LEMMA InvPassOn ==
  ASSUME SocketAssumption, SockInv, PassOn
  PROVE  SockInv'
  <1> USE DEF SockInv
  <1>1. at.step = "send" /\ UNCHANGED <<os, cl, g_clientsocks, read_save, stdout>>
    BY DEF PassOn, kernel
  <1>2. /\ read_set' \subseteq Fd
        /\ at' \in [step : Steps, todo : SUBSET Chan, data : Client \cup {NULL}]
        /\ at'.step # "select" => at'.todo # {}
        /\ at'.step \in {"select", "read"} /\ at'.todo \subseteq at.todo
    BY <1>1, GoesOnReading DEF PassOn
  <1>3. cl' \in [Client -> [st : States, chan : Chan \cup {0}, out : Int]]
    BY <1>1 DEF SocketsTyped
  <1>4. SocketsTyped' /\ OneFd' /\ Accepted' /\ Owned' /\ Watched' /\ Sockets' /\ Console'
    BY <1>1, <1>2, <1>3, SocketsAlone
  <1>5. FromOwnChannel'
    BY <1>1 DEF PassOn, Sender, FromOwnChannel
  <1> QED
    BY <1>2, <1>4, <1>5 DEF Sender

LEMMA InvReadEof ==
  ASSUME SocketAssumption, SockInv, ReadEof
  PROVE  SockInv'
  <1> DEFINE f == Sock
  <1> USE DEF SockInv
  <1>1. at.step = "read"
    BY DEF ReadEof
  <1>2. I \in Chan /\ f \in Fd /\ os[f] \in Client /\ g_clientsocks[I] = f
    BY <1>1, ReadsOwnClient DEF Owns, Sock
  <1>3. /\ read_save' = read_save \ {f}
        /\ g_clientsocks' = [g_clientsocks EXCEPT ![I] = None]
        /\ stdout' = IF Daemon /\ I = SHELL THEN NULL ELSE stdout
        /\ Close(f) /\ mixed' = mixed
    BY DEF ReadEof, Forgotten, Eof, usb
  <1>4. /\ read_set' \subseteq Fd
        /\ at' \in [step : Steps, todo : SUBSET Chan, data : Client \cup {NULL}]
        /\ at'.step # "select" => at'.todo # {}
        /\ at'.step \in {"select", "read"} /\ at'.todo \subseteq at.todo \ {I}
    BY <1>1, GoesOnReading DEF ReadEof
  <1> HIDE DEF f, SockInv
  <1>5. /\ os' \in [Fd -> Client \cup {FileName, NULL}]
        /\ cl' \in [Client -> [st : States, chan : Chan \cup {0}, out : Int]]
        /\ OneFd' /\ Accepted'
        /\ \A g \in Fd : g # f => os'[g] = os[g]
        /\ \A i \in Chan, g \in Fd : g # f /\ Owns(i, g) => Owns(i, g)'
    BY <1>2, <1>3, CloseKeepsOthers
  <1>6. \A i : ~Vacant(i) /\ ~Vacant(i)'
    BY <1>1, <1>4 DEF Vacant
  <1> USE DEF SockInv
  <1>7. SocketsTyped'
    BY <1>2, <1>3, <1>4, <1>5 DEF SocketsTyped
  <1>8. /\ g_clientsocks'[I] = None
        /\ \A i \in Chan : i # I => g_clientsocks'[i] = g_clientsocks[i]
    BY <1>2, <1>3 DEF SocketsTyped
  <1>9. \A i \in Chan : i # I /\ g_clientsocks[i] # None => g_clientsocks[i] # f
    BY <1>2, <1>6, OwnSocket
  <1>10. \A i \in Chan : i # I /\ g_clientsocks[i] # None =>
           /\ os'[g_clientsocks[i]] = os[g_clientsocks[i]]
           /\ os'[g_clientsocks[i]] \in Client
           /\ cl'[os'[g_clientsocks[i]]].chan = i
    <2>1. SUFFICES ASSUME NEW i \in Chan, i # I, g_clientsocks[i] # None
                   PROVE  /\ os'[g_clientsocks[i]] = os[g_clientsocks[i]]
                          /\ os'[g_clientsocks[i]] \in Client
                          /\ cl'[os'[g_clientsocks[i]]].chan = i
      OBVIOUS
    <2>2. g_clientsocks[i] \in Fd /\ g_clientsocks[i] # f /\ Owns(i, g_clientsocks[i])
      BY <2>1, <1>6, <1>9 DEF SocketsTyped, Owned
    <2> QED
      BY <2>2, <1>5 DEF Owns
  <1>11. Owned'
    BY <1>8, <1>10 DEF Owned, Owns
  <1>12. Watched'
    <2>1. \A g \in Fd : g # None
      BY DEF SocketAssumption, None
    <2>2. \A g \in Fd : g \in read_save <=> \E i \in Chan : g_clientsocks[i] = g
      BY <1>6 DEF Watched
    <2>3. \A g \in Fd : g \in read_save' <=> \E i \in Chan : g_clientsocks'[i] = g
      BY <2>1, <2>2, <1>2, <1>3, <1>8, <1>9
    <2> QED
      BY <2>3, <1>6 DEF Watched
  <1>13. Console'
    <2>1. CASE I = SHELL
      BY <2>1, <1>3, <1>8 DEF Console
    <2>2. CASE I # SHELL
      BY <2>2, <1>3, <1>6, <1>8, <1>10 DEF Console, SocketAssumption
    <2> QED
      BY <2>1, <2>2
  <1>14. Sockets'
    <2>1. \A i \in at.todo \ {I} : g_clientsocks'[i] # None
      BY <1>1, <1>8 DEF Sockets, SocketsTyped
    <2> QED
      BY <2>1, <1>4 DEF Sockets
  <1> QED
    BY <1>3, <1>4, <1>5, <1>7, <1>11, <1>12, <1>13, <1>14 DEF Sender, FromOwnChannel

-----------------------------------------------------------------------------
LEMMA InvStep ==
  ASSUME SocketAssumption, SockInv, [Next]_vars
  PROVE  SockInv'
  <1>1. CASE AsyncStep
    BY <1>1, InvSelect, InvReplace, InvAccept, InvReadData, InvReadEof, InvPassOn DEF AsyncStep
  <1>2. CASE MainStep
    BY <1>2, InvMainStep
  <1>3. CASE ClientStep
    BY <1>3, InvClientStep DEF ClientStep
  <1>4. CASE UNCHANGED vars
    <2>1. UNCHANGED <<os, cl, async, mixed>>
      BY <1>4 DEF vars, async
    <2>2. /\ os' \in [Fd -> Client \cup {FileName, NULL}]
          /\ cl' \in [Client -> [st : States, chan : Chan \cup {0}, out : Int]]
          /\ \A c \in Client : Has(c) => Has(c)' /\ cl'[c].chan = cl[c].chan
      BY <2>1 DEF SockInv, SocketsTyped, Has
    <2> QED
      BY <2>1, <2>2, ClientsAlone
  <1> QED
    BY <1>1, <1>2, <1>3, <1>4 DEF Next

\* Whenever async_thread waits it watches exactly the open sockets of its clients,
\* each on its own channel, and the daemon's output has the shell's client, though
\* descriptors are used again for other clients and for files at any point.
\* (async_thread, lines 3010, 3036 and 3095)
THEOREM ClientsWatched ==
  ASSUME SocketAssumption
  PROVE  FairSpec => []WatchesClients
  <1>1. Init => SockInv
    BY InvInit
  <1>2. SockInv /\ [Next]_vars => SockInv'
    BY InvStep
  <1>3. SockInv => WatchesClients
    <2>1. SUFFICES ASSUME SockInv PROVE WatchesClients
      OBVIOUS
    <2> USE <2>1 DEF SockInv
    <2>2. at.step = "select" => read_save = {g_clientsocks[i] : i \in Chan} \ {None}
      <3>1. \A f \in Fd : f # None
        BY DEF SocketAssumption, None
      <3> QED
        BY <3>1 DEF SocketsTyped, Watched, Vacant
    <2> QED
      BY <2>2 DEF WatchesClients, Owned, Owns, Console, Vacant
  <1> QED
    BY <1>1, <1>2, <1>3, PTL DEF FairSpec

\* What goes to the PSP with the number of a channel is from a client of that
\* channel.  (async_thread, line 3088)
THEOREM ChannelsApart ==
  ASSUME SocketAssumption
  PROVE  FairSpec => []FromOwnChannel
  <1>1. Init => SockInv
    BY InvInit
  <1>2. SockInv /\ [Next]_vars => SockInv'
    BY InvStep
  <1>3. SockInv => FromOwnChannel
    BY DEF SockInv
  <1> QED
    BY <1>1, <1>2, <1>3, PTL DEF FairSpec
=============================================================================

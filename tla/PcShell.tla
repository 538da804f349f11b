------------------------------ MODULE PcShell ------------------------------
(* The shell: pspsh on the PC, the shell thread of psplink on the PSP, and
   the channel between them.  pspsh runs a command line (-e), a script file or
   a user.  A command goes out as one write; what comes back are frames
   (0xFF ... 0xFE): text, completions, the directory, and one success or error
   frame per command.  Nothing in an answer says which command it answers.
   Any thread of the PSP may print into the channel, and a print of more than
   CTX_BUF_SIZE bytes is several writes that other prints may get between.
   The channel is a FIFO, which is what AsyncStream and TCP promise.          *)
EXTENDS Naturals, Sequences, FiniteSets, Functions

CONSTANTS
  Scripts,    \* the scripts there are, sequences of lines
  Lines,      \* what a user types, and what -e may be given
  Keys,       \* what keys are bound to: reset, kill, step
  Modes,      \* "exec" (-e), "script" (script file), "user"
  MaxCmd,     \* bound on the commands of a session
  MaxNoise,   \* bound on the prints of other threads
  TypeAhead,  \* may the user type before the last answer has come
  TabLate,    \* may the PSP take more than 2 s to answer a completion
  Nil

\* Lines, with those that pspsh makes itself.
OwnLine == {"cd", "tab", "calc", "pokew", "blank"}
Line == Lines \cup Keys \cup OwnLine \cup UNION {Range(s) : s \in Scripts}
\* A command on its way to the PSP, and what the PSP sends: a frame, or the start
\* or the end of one, with the command that it belongs to.
Command == [id : Nat, line : Line]
Packet ==
  [k : {"out", "ok", "err", "cwd", "tab"}, cmd : Command \cup {Nil},
   part : {"whole", "head", "tail"}]

ASSUME PcShellAssumption ==
  /\ Scripts \subseteq Seq(Line)
  /\ Modes \subseteq {"exec", "script", "user"}
  /\ MaxCmd \in Nat /\ MaxNoise \in Nat
  /\ TypeAhead \in BOOLEAN /\ TabLate \in BOOLEAN
  /\ Nil \notin Line /\ Nil \notin Packet

VARIABLES
  pc,      \* g_context of pspsh
  where,   \* where pspsh is: "shell" (its select loop), "tab"
           \* (read_tab_completion), or in execute_script_line, called for the
           \* user ("script") or for an answer ("answer")
  linebuf, \* the unfinished frame of read_socket
  toPsp,   \* commands on their way
  toPc,    \* packets on their way
  up,      \* psplink: "on", "boot" (resetting), "off"
  sh,      \* the command the shell thread executes, with what it printed
  noise,   \* the other printing thread: prints left, an unfinished one
  misfiled,\* history: text of a command went to another file than its own
  failed   \* history: an answer was an error

psvars == <<pc, where, linebuf, toPsp, toPc, up, sh, noise, misfiled, failed>>
psp == <<up, sh, noise>>
history == <<misfiled, failed>>

-----------------------------------------------------------------------------
(* pspsh: executing lines.  Operators take g_context and return it with the
   commands they write and the value the function returns.                   *)

Result(p, out, ret) == [pc |-> p, out |-> out, ret |-> ret]

Cmd(p, l) == [id |-> p.n + 1, line |-> l]

\* The rest of execute_line for a line that goes to the PSP; "file" is a command
\* with a redirection, which opens its file at once.
WriteLine(p, l) ==
  Result([p EXCEPT !.n = @ + 1, !.currcmd = p.n + 1,
                   !.fredir = IF l = "file" THEN p.n + 1 ELSE @], <<Cmd(p, l)>>, 1)

\* asm: either a pokew of the words given or, without any, calc and asm mode.
\* Both send a line, and both return 0.
AsmCmd(p, l) ==
  LET r == WriteLine(p, IF l = "asm1" THEN "pokew" ELSE "calc")
  IN  Result([r.pc EXCEPT !.asm = @ \/ l = "asm"], r.out, 0)

\* Commands of pspsh that only print or set variables of its own.
Local == {"local"}

\* execute_line: commands of pspsh itself return 0 and send nothing, but exit
\* goes to the PSP too.
ExecuteLine(p, l) ==
  CASE l \in Local \cup {"blank"}  -> Result(p, <<>>, 0)
    [] l = "close"               -> Result([p EXCEPT !.exit = TRUE], <<>>, 0)
    [] l = "tty"                 -> Result([p EXCEPT !.tty = TRUE], <<>>, 0)
    [] l \in {"asm", "asm1"}     -> AsmCmd(p, l)
    [] l = "exit"                -> WriteLine([p EXCEPT !.exit = TRUE], l)
    [] OTHER                     -> WriteLine(p, l)

\* Mutant of InScript: the line of -e is no script.
InScriptFile(p) == p.fscript

InScript(p) == p.exec # Nil \/ p.fscript

\* close_script leaves exec as it is.
CloseScript(p) ==
  [p EXCEPT !.fscript = FALSE, !.script = <<>>, !.exit = @ \/ p.batch]

OpenScript(p, s) == [CloseScript(p) EXCEPT !.fscript = TRUE, !.script = s]

\* Mutant of WasSent: the lines are sent without waiting for answers.
WasSentNever(r) == FALSE

\* Only a line that was sent ends execute_script_line.
WasSent(r) == r.ret > 0

\* execute_script_line returns.  For an answer the prompt comes back unless a
\* line went out, and tty mode ends.
Return(r) ==
  /\ where' = "shell"
  /\ toPsp' = toPsp \o r.out
  /\ pc' = IF where = "answer" /\ ~WasSent(r) /\ ~r.pc.batch /\ ~r.pc.asm
           THEN [r.pc EXCEPT !.tty = FALSE] ELSE r.pc

\* The line of -e once, and then a blank.
ExecLine ==
  /\ pc.exec # Nil
  /\ LET r == ExecuteLine([pc EXCEPT !.exec = "blank"], pc.exec)
     IN  Return(IF WasSent(r) THEN r ELSE Result(CloseScript(r.pc), r.out, r.ret))

\* The next line of the script, while the PSP goes on with what was sent.
ScriptLine ==
  /\ pc.exec = Nil /\ pc.fscript /\ pc.script # <<>>
  /\ LET r == ExecuteLine([pc EXCEPT !.script = Tail(pc.script)], Head(pc.script))
     IN  \/ WasSent(r) /\ Return(r)
         \/ ~WasSent(r) /\ pc' = r.pc /\ toPsp' = toPsp \o r.out /\ where' = where

\* There are no more lines, or there never was a script.
NoLine ==
  /\ pc.exec = Nil /\ pc.script = <<>>
  /\ Return(Result(IF pc.fscript THEN CloseScript(pc) ELSE pc, <<>>, 0))

ExecuteScriptLine ==
  /\ where \in {"script", "answer"}
  /\ ExecLine \/ ScriptLine \/ NoLine
  /\ UNCHANGED <<linebuf, toPc, psp, history>>

-----------------------------------------------------------------------------
(* pspsh: frames.                                                          *)

Answer == {"ok", "err"}

\* Mutant of SetAnswer: the redirection is closed by the next command's.
SetAnswerOpen(p, k) == [p EXCEPT !.lasterr = k = "err", !.currcmd = 0]

\* What both answers do to the state of the command.
SetAnswer(p, k) == [p EXCEPT !.lasterr = k = "err", !.currcmd = 0, !.fredir = 0]

\* process_cmd for SHELL_CMD_SUCCESS and SHELL_CMD_ERROR: an error ends the
\* script; then comes the next line of a script.
AnswerFrame(p, k) ==
  SetAnswer(IF k = "err" /\ InScript(p) THEN CloseScript(p) ELSE p, k)

\* The file a command's text is to go to, 0 for none.
FileOf(cmd) == IF cmd.line = "file" THEN cmd.id ELSE 0

\* The parser of read_socket, and of read_tab: the start of a frame discards what
\* was there, text without a start is skipped.
Parse(old, pkt) ==
  CASE pkt.part = "whole" -> [buf |-> Nil, frame |-> pkt]
    [] pkt.part = "head"  -> [buf |-> pkt, frame |-> Nil]
    [] pkt.part = "tail"  -> [buf |-> Nil, frame |-> old]

\* One packet in read_socket.
PcRead ==
  /\ ~pc.exit /\ where = "shell"
  /\ toPc # <<>>
  /\ toPc' = Tail(toPc)
  /\ LET x == Parse(linebuf, Head(toPc))
         f == x.frame
     IN  /\ linebuf' = x.buf
         /\ IF f # Nil /\ f.k \in Answer
              THEN pc' = AnswerFrame(pc, f.k) /\ where' = "answer"
              ELSE UNCHANGED <<pc, where>>
         /\ misfiled' = (misfiled \/ (/\ f # Nil /\ f.k = "out" /\ f.cmd # Nil
                                     /\ pc.fredir # FileOf(f.cmd)))
         /\ failed' = (failed \/ (f # Nil /\ f.k = "err"))
  /\ UNCHANGED <<toPsp, psp>>

\* shell() leaves its loop when the connection ends.
ServerGone ==
  /\ ~pc.exit /\ where = "shell"
  /\ pc' = [pc EXCEPT !.exit = TRUE]
  /\ UNCHANGED <<where, linebuf, toPsp, toPc, psp, history>>

-----------------------------------------------------------------------------
(* pspsh: the user.                                                        *)

\* The user has the prompt.
Quiet == pc.currcmd = 0 /\ ~InScript(pc) /\ where = "shell"
UserTurn == ~pc.batch /\ ~pc.exit /\ where = "shell" /\ (TypeAhead \/ Quiet)

\* cli_handler.  In tty mode lines go to the stdout channel, in a script only
\* "stop" is heard, in asm mode a line is an instruction.
CliHandler(p, l) ==
  CASE p.tty /\ l = "~."              -> Result([p EXCEPT !.tty = FALSE], <<>>, 0)
    [] p.tty /\ l # "~."              -> Result(p, <<>>, 0)
    [] ~p.tty /\ l = "blank"          -> Result([p EXCEPT !.asm = FALSE], <<>>, 0)
    [] ~p.tty /\ l # "blank" /\ InScript(p) ->
         Result(IF l = "stop" THEN CloseScript(p) ELSE p, <<>>, 0)
    [] ~p.tty /\ l # "blank" /\ ~InScript(p) ->
         IF p.asm THEN WriteLine(p, "pokew") ELSE ExecuteLine(p, l)

UserWrites(r) ==
  /\ pc' = r.pc
  /\ toPsp' = toPsp \o r.out
  /\ UNCHANGED <<where, linebuf, toPc, psp, history>>

\* A line typed while a script runs is heard too.
UserLine ==
  /\ pc.n < MaxCmd
  /\ UserTurn \/ (~pc.batch /\ ~pc.exit /\ where = "shell" /\ InScript(pc) /\ ~pc.tty)
  /\ \E l \in Lines : UserWrites(CliHandler(pc, l))

\* M-r, M-s and M-k call execute_line whatever the mode.
UserKey ==
  /\ UserTurn /\ pc.n < MaxCmd
  /\ \E l \in Keys : UserWrites(ExecuteLine(pc, l))

\* "%script" at the prompt: execute_script
UserScript ==
  /\ UserTurn /\ pc.n < MaxCmd
  /\ ~pc.tty /\ ~pc.asm /\ ~InScript(pc)
  /\ \E s \in Scripts : pc' = OpenScript(pc, s)
  /\ where' = "script"
  /\ UNCHANGED <<linebuf, toPsp, toPc, psp, history>>

\* filename_gen and uid_gen ask the PSP; command_gen, the third, does not.
TabCommand(p) == Cmd(p, "tab")

\* Completion of a file or module name: a tab command, then pspsh is in
\* read_tab_completion and reads nothing else.
UserTab ==
  /\ UserTurn /\ pc.n < MaxCmd
  /\ where' = "tab"
  /\ pc' = [pc EXCEPT !.n = @ + 1]
  /\ toPsp' = Append(toPsp, TabCommand(pc))
  /\ UNCHANGED <<linebuf, toPc, psp, history>>

\* One read of read_tab, of one packet or more.  An answer ends the wait, after
\* everything that was read has been used up.  Answers are frames of one packet,
\* so what read_tab keeps of an unfinished frame makes no difference.
TabRead ==
  /\ where = "tab"
  /\ \E k \in 1..Len(toPc) :
       /\ toPc' = SubSeq(toPc, k + 1, Len(toPc))
       /\ where' = IF \E i \in 1..k : toPc[i].k \in Answer THEN "shell" ELSE "tab"
  /\ UNCHANGED <<pc, linebuf, toPsp, psp, history>>

\* Nothing for 2 s.
TabTimeout ==
  /\ where = "tab"
  /\ toPc = <<>>
  /\ TabLate \/ up # "on"
  /\ where' = "shell"
  /\ UNCHANGED <<pc, linebuf, toPsp, toPc, psp, history>>

-----------------------------------------------------------------------------
(* psplink: shellParseThread.                                              *)

Pkt(k, cmd, part) == [k |-> k, cmd |-> cmd, part |-> part]

\* usbShellReadInput: bytes up to the 1 that ends a command.
ShTake ==
  /\ up = "on" /\ sh = Nil
  /\ toPsp # <<>>
  /\ sh' = [cmd |-> Head(toPsp), said |-> "nothing"]
  /\ toPsp' = Tail(toPsp)
  /\ UNCHANGED <<pc, where, linebuf, toPc, up, noise, history>>

\* shprintf: the start and the end of a text that needs two packets; one that
\* needs one packet is the same with nothing in between.
ShPrint ==
  /\ sh # Nil
  /\ \/ sh.said = "nothing" /\ toPc' = Append(toPc, Pkt("out", sh.cmd, "head"))
                            /\ sh' = [sh EXCEPT !.said = "half"]
     \/ sh.said = "half"    /\ toPc' = Append(toPc, Pkt("out", sh.cmd, "tail"))
                            /\ sh' = [sh EXCEPT !.said = "all"]
  /\ UNCHANGED <<pc, where, linebuf, toPsp, up, noise, history>>

\* SHELL_PRINT_CMD(SHELL_CMD_SUCCESS or SHELL_CMD_ERROR): one packet.
Reply(k, cmd) == <<Pkt(k, cmd, "whole")>>

\* What a command sends last: cd tells the directory, tab its matches, and an
\* error, an unknown command or a fault in the command is an error.
Completed(k, cmd) ==
  (CASE k = "ok" /\ cmd.line = "cd"  -> <<Pkt("cwd", cmd, "whole")>>
     [] k = "ok" /\ cmd.line = "tab" -> <<Pkt("tab", cmd, "whole")>>
     [] OTHER                        -> <<>>) \o Reply(k, cmd)

ShDone ==
  /\ sh # Nil /\ sh.said # "half"
  /\ sh.cmd.line \notin {"reset", "exit"}
  /\ \E k \in Answer : toPc' = toPc \o Completed(k, sh.cmd)
  /\ sh' = Nil
  /\ UNCHANGED <<pc, where, linebuf, toPsp, up, noise, history>>

\* reset_cmd and exit do not answer; what was typed behind them is gone.
ShLeave ==
  /\ sh # Nil /\ sh.said # "half"
  /\ sh.cmd.line \in {"reset", "exit"}
  /\ up' = IF sh.cmd.line = "reset" THEN "boot" ELSE "off"
  /\ sh' = Nil
  /\ toPsp' = <<>>
  /\ noise' = [noise EXCEPT !.half = FALSE]
  /\ UNCHANGED <<pc, where, linebuf, toPc, history>>

\* Mutant of Prompt: the directory only.
PromptCwd == <<Pkt("cwd", Nil, "whole")>>

\* psplinkPrintPrompt
Prompt == <<Pkt("cwd", Nil, "whole")>> \o Reply("ok", Nil)

\* psplink is back: usbShellInit flushes the channel and sends the prompt.
ShBoot ==
  /\ up = "boot"
  /\ up' = "on"
  /\ toPsp' = <<>>
  /\ toPc' = toPc \o Prompt
  /\ UNCHANGED <<pc, where, linebuf, sh, noise, history>>

\* The PSP is switched off.
PspOff ==
  /\ up = "on"
  /\ up' = "off"
  /\ sh' = Nil
  /\ noise' = [noise EXCEPT !.half = FALSE]
  /\ UNCHANGED <<pc, where, linebuf, toPsp, toPc, history>>

\* Another thread prints: a thread event, an exception, an exit that was caught.
Noise ==
  /\ up = "on"
  /\ \/ /\ ~noise.half /\ noise.left > 0
        /\ \E p \in {"whole", "head"} :
             /\ toPc' = Append(toPc, Pkt("out", Nil, p))
             /\ noise' = [left |-> noise.left - 1, half |-> p = "head"]
     \/ /\ noise.half
        /\ toPc' = Append(toPc, Pkt("out", Nil, "tail"))
        /\ noise' = [noise EXCEPT !.half = FALSE]
  /\ UNCHANGED <<pc, where, linebuf, toPsp, up, sh, history>>

-----------------------------------------------------------------------------
\* main() and the start of shell(): the options, the connection, and "cd ." to
\* learn the directory.
Start(m, l, s) ==
  [batch |-> m # "user", exec |-> IF m = "exec" THEN l ELSE Nil,
   fscript |-> m = "script", script |-> IF m = "script" THEN s ELSE <<>>,
   tty |-> FALSE, asm |-> FALSE, exit |-> FALSE, lasterr |-> FALSE,
   currcmd |-> 0, fredir |-> 0, n |-> 0]

PsInit ==
  /\ \E m \in Modes, l \in Lines, s \in Scripts :
       LET r == ExecuteLine(Start(m, l, s), "cd")
       IN  pc = r.pc /\ toPsp = r.out
  /\ where = "shell"
  /\ linebuf = Nil
  /\ toPc = <<>>
  /\ up = "on"
  /\ sh = Nil
  /\ noise = [left |-> MaxNoise, half |-> FALSE]
  /\ misfiled = FALSE
  /\ failed = FALSE

PcStep == PcRead \/ ExecuteScriptLine \/ TabRead \/ TabTimeout
\* psplink is followed as long as there is a pspsh to see it.
ShStep == ~pc.exit /\ (ShTake \/ ShPrint \/ ShDone \/ ShLeave \/ ShBoot)
PsNext ==
  \/ PcStep \/ ShStep
  \/ UserLine \/ UserKey \/ UserScript \/ UserTab
  \/ ~pc.exit /\ (Noise \/ PspOff \/ ServerGone)

\* Both programs go on while they have something to do.
PsSpec == PsInit /\ [][PsNext]_psvars
PsFairSpec == PsSpec /\ WF_psvars(PcStep) /\ WF_psvars(ShStep)

-----------------------------------------------------------------------------
\* An answer does not say whose it is (process_cmd, line 1371), so a script
\* needs that only one command is ever under way, the restart that a reset
\* command leads to included.
OneUnderWay ==
  up # "off" =>
  Len(toPsp) + (IF sh # Nil \/ up = "boot" THEN 1 ELSE 0)
             + Cardinality({i \in DOMAIN toPc : toPc[i].k \in Answer}) <= 1

\* The exit status of a batch run (main, line 2031) is 1 if and only if one of
\* its commands was answered with an error.
ExitStatus ==
  pc.batch /\ pc.exit => (pc.lasterr <=> failed)

\* Text of a command goes to the file of its redirection (process_cmd, line 1354),
\* and text of a command without one to no file.
OutputFiled == ~misfiled

\* Every command is answered or followed by a prompt, so that a script goes on
\* and the user is at the prompt again, whatever other threads print; a batch run
\* ends (process_cmd, line 1371).
SessionMoves == []<>((Quiet /\ ~pc.batch) \/ pc.exit \/ up = "off")
=============================================================================

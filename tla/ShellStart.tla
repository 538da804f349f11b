----------------------------- MODULE ShellStart -----------------------------
(* How psplink starts, changes its configuration, and is reset.

   The bootstrap loads psplink.prx with its own arguments.  The main thread reads
   psplink.ini, starts the USB driver and the shell, and loads the modules of
   modload.ini.  confset and confdel copy psplink.ini to psplink.ini.tmp, remove
   the first and rename the second.  Power may fail, and the program that runs may
   exit and so reset the PSP, between any two operations on configs.            *)
EXTENDS Naturals, Sequences, FiniteSets

CONSTANTS
  Name, Val,  \* settings and what they may be
  Dir, Root,    \* current directories; "host0:/"
  Room,         \* lines that the buffer of MAX_BUFFER bytes holds
  Inis,         \* bound: the first psplink.ini
  MaxStartOps,  \* bound: commands
  Nil

\* What is started again after a reset.
Key == {"none", "game", "vsh", "updater"}

\* A line of psplink.ini, and configChange under way.
Setting == [name : Name, val : Val]
Job == [at : {"tmp", "ini", "copy", "add", "remove", "rename"},
        name : Name, val : Val, add : BOOLEAN, rest : Seq(Setting), found : BOOLEAN]

ASSUME StartAssumption ==
  /\ Inis \subseteq Seq(Setting)
  /\ Root \in Dir /\ Room \in Nat
  /\ Nil \notin Seq(Setting) \cup Job \cup Dir \cup [dir : Dir, key : Key]

VARIABLES
  fw200,        \* firmware from 2.00: the directory goes with the arguments
  pc,           \* where the main thread is, or "menu", "off"
  arg,          \* argv[1] of psplink, or Nil
  saved,        \* SAVED_ADDR: a directory and its magic, or Nil
  ini, tmp,     \* psplink.ini, psplink.ini.tmp: sequence of lines, or Nil
  conf,         \* the settings that this start found
  ctx,          \* [dir, key, hook, exits, usb]: g_context and the like
  job,          \* configChange under way: [at, name, val, add, rest, found], or Nil
  resetter,     \* a thread PspLinkReset is there
  old, want,    \* history: the settings before and after the change under way
  due,          \* history: directories the next shell may start in
  excused,      \* history: a read or write failed, or there was no psplink.ini
  commands

stvars == <<fw200, pc, arg, saved, ini, tmp, conf, ctx, job, resetter, old, want, due, excused, commands>>
configs == <<ini, tmp, job, old, want, excused>>
session == <<conf, ctx, resetter>>

Count == commands < MaxStartOps /\ commands' = commands + 1
NoContext == [dir |-> Nil, key |-> "none", hook |-> FALSE, exits |-> FALSE,
              usb |-> FALSE]

-----------------------------------------------------------------------------
(* Reading a file of settings.                                              *)

\* openfile and fdgetc: the buffer is filled once.
Lines(file) == IF file = Nil THEN <<>> ELSE SubSeq(file, 1, IF Len(file) < Room THEN Len(file) ELSE Room)

\* configLoad: the last line of a name counts.
Mentions(s, n) == {i \in DOMAIN s : s[i].name = n}
Values(s) ==
  [n \in Name |->
     IF Mentions(s, n) = {} THEN Nil
     ELSE s[CHOOSE i \in Mentions(s, n) : \A j \in Mentions(s, n) : j <= i].val]

Settings(file) == Values(Lines(file))

NewSession == conf' = Settings(Nil) /\ ctx' = NoContext /\ resetter' = FALSE

-----------------------------------------------------------------------------
(* The start.                                                               *)

\* The bootstrap runs from the menu, or again after a reset, with its arguments.
Boot(to, dir) == pc' = to /\ arg' = dir

Bootstrap ==
  /\ pc = "menu"
  /\ Boot("config", Nil)
  /\ UNCHANGED <<fw200, saved, due, commands>> /\ UNCHANGED session /\ UNCHANGED configs

LoadConfig ==
  /\ pc = "config" /\ pc' = "usb"
  /\ conf' = Settings(ini)
  /\ UNCHANGED <<fw200, arg, saved, ctx, resetter, due, commands>> /\ UNCHANGED configs

\* init_usbhost: the result is not looked at.
InitUsb ==
  /\ pc = "usb" /\ pc' = "dir"
  /\ \E ok \in BOOLEAN : ctx' = [ctx EXCEPT !.usb = ok]
  /\ UNCHANGED <<fw200, arg, saved, conf, resetter, due, commands>> /\ UNCHANGED configs

\* Mutant of SavedAfter: the magic stays.
SavedStays == saved

\* The saved context is used once.
SavedAfter == IF fw200 THEN saved ELSE Nil

ShellInit ==
  /\ pc = "dir" /\ pc' = "hook"
  /\ ctx' = [ctx EXCEPT !.dir = CASE fw200 /\ arg # Nil -> arg
                                  [] ~fw200 /\ saved # Nil -> saved.dir
                                  [] OTHER -> Root,
                        !.key = IF ~fw200 /\ saved # Nil THEN saved.key ELSE @]
  /\ saved' = SavedAfter
  /\ due' = {Root}
  /\ UNCHANGED <<fw200, arg, conf, resetter, commands>> /\ UNCHANGED configs

\* sceKernelExitGame is hooked before it is known what it shall do; then modLoad.
HookExit ==
  /\ pc = "hook" /\ pc' = "mods"
  /\ ctx' = [ctx EXCEPT !.hook = TRUE]
  /\ UNCHANGED <<fw200, arg, saved, conf, resetter, due, commands>> /\ UNCHANGED configs

LoadModules ==
  /\ pc = "mods" /\ pc' = "shell"
  /\ ctx' = [ctx EXCEPT !.exits = conf["resetonexit"] \notin {Nil, "0"}]
  /\ UNCHANGED <<fw200, arg, saved, conf, resetter, due, commands>> /\ UNCHANGED configs

-----------------------------------------------------------------------------
(* The end.  A change of the configuration under way stops where it is.      *)

Up == pc \in {"hook", "mods", "shell"}

PowerOff ==
  /\ pc # "off" /\ pc' = "off"
  /\ saved' = Nil /\ due' = {Root}
  /\ job' = Nil /\ arg' = Nil /\ NewSession
  /\ UNCHANGED <<fw200, ini, tmp, old, want, excused, commands>>

PowerOn ==
  /\ pc = "off" /\ pc' = "menu"
  /\ UNCHANGED <<fw200, arg, saved, due, commands>> /\ UNCHANGED configs /\ UNCHANGED session

\* psplinkReset: sceKernelLoadExec starts the bootstrap again with the directory,
\* in its arguments or in memory; it may fail, and then the shell goes on.
Reset(key) ==
  /\ saved' = IF fw200 THEN saved ELSE [dir |-> ctx.dir, key |-> key]
  /\ \/ /\ Boot("config", IF fw200 THEN ctx.dir ELSE Nil)
        /\ job' = Nil /\ due' = {ctx.dir}
        /\ NewSession
     \/ /\ ctx' = [ctx EXCEPT !.key = key]
        /\ due' = due \cup IF fw200 THEN {} ELSE {ctx.dir}
        /\ resetter' = FALSE
        /\ UNCHANGED <<pc, arg, job, conf>>
  /\ UNCHANGED <<fw200, ini, tmp, old, want, excused>>

\* The program that runs calls sceKernelExitGame.
ExitReset ==
  /\ Up /\ ctx.hook /\ Count
  /\ resetter' = (resetter \/ ctx.exits)
  /\ UNCHANGED <<fw200, pc, arg, saved, due, conf, ctx>> /\ UNCHANGED configs

ResetThread == resetter /\ Up /\ Reset(ctx.key) /\ UNCHANGED commands

\* The shell thread is at work only when no file operation of it is under way.
Prompt == pc = "shell" /\ job = Nil /\ Count

reset_cmd == Prompt /\ \E key \in {ctx.key, "game", "vsh", "updater"} : Reset(key)

\* modexec starts another program in place of all; exit goes back to the menu.
Leave ==
  /\ Prompt /\ Boot("menu", Nil) /\ NewSession
  /\ \/ UNCHANGED saved
     \/ saved' = Nil           \* the memory may have been used
  /\ UNCHANGED <<fw200, due>> /\ UNCHANGED configs

chdir_cmd ==
  /\ Prompt
  /\ \E d \in Dir : ctx' = [ctx EXCEPT !.dir = d]
  /\ UNCHANGED <<fw200, pc, arg, saved, conf, resetter, due>> /\ UNCHANGED configs

-----------------------------------------------------------------------------
(* configChange, one operation on a file after the other.                   *)

\* Mutant of Follows: the old file goes before the new one is written.
FollowsRemove == [tmp |-> "ini", ini |-> "remove", remove |-> "copy", copy |-> "add", add |-> "rename"]

Follows == [tmp |-> "ini", ini |-> "copy", copy |-> "add", add |-> "remove", remove |-> "rename"]

Changed(s, name, val, add) == [s EXCEPT ![name] = IF add THEN val ELSE Nil]

confset_cmd ==
  /\ Prompt
  /\ \E name \in Name, val \in Val, add \in BOOLEAN :
       /\ job' = [at |-> "tmp", name |-> name, val |-> val, add |-> add, rest |-> <<>>, found |-> FALSE]
       /\ old' = Settings(ini)
       /\ want' = Changed(Settings(ini), name, val, add)
  /\ excused' = (excused \/ ini = Nil)
  /\ UNCHANGED <<fw200, pc, arg, saved, ini, tmp, due>> /\ UNCHANGED session

At(at) == pc = "shell" /\ job # Nil /\ job.at = at
Go == job' = [job EXCEPT !.at = Follows[@]]
JobFrame == UNCHANGED <<fw200, pc, arg, saved, due, commands>> /\ UNCHANGED session

OpenTmp ==
  /\ At("tmp")
  /\ \/ tmp' = <<>> /\ Go /\ UNCHANGED want
     \/ job' = Nil /\ want' = old /\ UNCHANGED tmp
  /\ UNCHANGED <<ini, old, excused>> /\ JobFrame

\* The temporary file goes again when psplink.ini cannot be opened.
OpenIni ==
  /\ At("ini")
  /\ \/ /\ ini # Nil
        /\ \/ job' = [job EXCEPT !.at = Follows[@], !.rest = Lines(ini)] /\ UNCHANGED excused
           \/ job' = [job EXCEPT !.at = Follows[@]] /\ excused' = TRUE       \* the read fails
        /\ UNCHANGED <<tmp, want>>
     \/ job' = Nil /\ tmp' = Nil /\ want' = old /\ UNCHANGED excused
  /\ UNCHANGED <<ini, old>> /\ JobFrame

\* fdprintf: a write that fails is not noticed.
Write(l) ==
  \/ tmp' = Append(tmp, l) /\ UNCHANGED excused
  \/ UNCHANGED tmp /\ excused' = TRUE

CopyLine ==
  /\ At("copy") /\ job.rest # <<>>
  /\ LET l == Head(job.rest)
     IN  IF l.name # job.name
         THEN Write(l) /\ job' = [job EXCEPT !.rest = Tail(@)]
         ELSE IF job.add
         THEN Write([l EXCEPT !.val = job.val]) /\ job' = [job EXCEPT !.rest = Tail(@), !.found = TRUE]
         ELSE job' = [job EXCEPT !.rest = Tail(@)] /\ UNCHANGED <<tmp, excused>>
  /\ UNCHANGED <<ini, old, want>> /\ JobFrame

CopyEnd == At("copy") /\ job.rest = <<>> /\ Go /\ UNCHANGED <<ini, tmp, old, want, excused>> /\ JobFrame

AddLine ==
  /\ At("add") /\ Go
  /\ IF job.add /\ ~job.found THEN Write([name |-> job.name, val |-> job.val]) ELSE UNCHANGED <<tmp, excused>>
  /\ UNCHANGED <<ini, old, want>> /\ JobFrame

RemoveIni ==
  /\ At("remove")
  /\ \/ ini' = Nil /\ Go /\ UNCHANGED want
     \/ job' = Nil /\ want' = old /\ UNCHANGED ini
  /\ UNCHANGED <<tmp, old, excused>> /\ JobFrame

RenameTmp ==
  /\ At("rename") /\ job' = Nil
  /\ \/ ini' = tmp /\ tmp' = Nil /\ old' = want
     \/ UNCHANGED <<ini, tmp, old>>
  /\ UNCHANGED <<want, excused>> /\ JobFrame

-----------------------------------------------------------------------------
StartInit ==
  /\ fw200 \in BOOLEAN
  /\ pc = "menu" /\ arg = Nil /\ saved = Nil
  /\ ini \in Inis /\ tmp = Nil
  /\ conf = Settings(Nil) /\ ctx = NoContext
  /\ job = Nil /\ resetter = FALSE
  /\ old = Settings(ini) /\ want = old
  /\ due = {Root} /\ excused = FALSE /\ commands = 0

StartNext ==
  \/ Bootstrap \/ LoadConfig \/ InitUsb \/ ShellInit \/ HookExit \/ LoadModules
  \/ PowerOff \/ PowerOn \/ ExitReset \/ ResetThread
  \/ reset_cmd \/ Leave \/ chdir_cmd
  \/ confset_cmd \/ OpenTmp \/ OpenIni \/ CopyLine \/ CopyEnd \/ AddLine \/ RemoveIni \/ RenameTmp

StartSpec == StartInit /\ [][StartNext]_stvars

-----------------------------------------------------------------------------
Fits(file) == file = Nil \/ Len(file) <= Room

\* While reads and writes succeed and the configs fit into the buffer, no change of
\* a setting that is cut off at any point loses the others: psplink.ini has the
\* settings from before or after the change, or psplink.ini.tmp has all of them
\* until the next change.  Opening, removing and renaming may fail (configChange,
\* line 132).
ConfigSafe ==
  ~excused /\ Fits(ini) /\ Fits(tmp) =>
    \/ ini # Nil /\ Settings(ini) \in {old, want}
    \/ ini = Nil /\ tmp # Nil /\ Settings(tmp) = want

\* A shell starts in the directory that the one before was in when it was reset,
\* in host0:/ after anything else (initialise, line 316).
DirectoryKept == [][pc = "dir" /\ pc' = "hook" => ctx'.dir \in due]_stvars
=============================================================================

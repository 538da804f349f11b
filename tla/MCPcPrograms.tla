---------------------------- MODULE MCPcPrograms ----------------------------
(* The two programs of the PC for TLC, one in each behaviour: the sockets of
   usbhostfs_pc, and pspsh with the shell of psplink.                        *)
EXTENDS PcSockets, PcShell

\* Scripts, and a user's lines, with every kind of line.
MCScripts == {<<"file", "local", "reset", "run">>, <<"run", "close", "run">>}
MCLines == {"file", "blank", "tty", "~.", "stop", "asm", "exit"}
MCKeys == {"reset"}
MCModes == {"exec", "script", "user"}

VARIABLE part

allvars == <<part, psvars, vars>>

-----------------------------------------------------------------------------
AllInit ==
  /\ part \in {"shell", "sockets"}
  /\ PsInit /\ Init
  /\ part = "shell" \/ pc = ExecuteLine(Start("user", "blank", <<"run">>), "cd").pc

Shell(A) == part = "shell" /\ A /\ UNCHANGED <<part, vars>>
Sockets(A) == part = "sockets" /\ A /\ UNCHANGED <<part, psvars>>

AllNext == Shell(PsNext) \/ Sockets(Next)

AllSpec ==
  /\ AllInit /\ [][AllNext]_allvars
  /\ WF_allvars(Shell(PcStep)) /\ WF_allvars(Shell(ShStep))
  /\ WF_allvars(Sockets(AsyncStep))

-----------------------------------------------------------------------------
\* Every command of pspsh is answered, and a batch run ends (process_cmd).
ShellMoves == part = "shell" => SessionMoves
============================================================================

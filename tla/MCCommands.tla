----------------------------- MODULE MCCommands -----------------------------
(* Components that share no state, for TLC, one in each behaviour: the drives and
   the open files of usbhostfs_pc; the files, memory, hooks, configuration and
   threads of psplink; the packets of usbgdb; and single strings for the
   functions that resolve paths.  HostFs is an instance, the others are extended. *)
EXTENDS ApiHooks, ShellStart, ShellObjects, ShellMemory, GdbPacket, Paths

CONSTANT MaxWord                    \* bound: elements of a name that is resolved

VARIABLES
  part,
  t_disk, t_os, t_off, t_opened, t_open_dirs, t_up, t_session, t_handle, t_dhandle, t_call

tables == <<t_disk, t_os, t_off, t_opened, t_open_dirs, t_up, t_session, t_handle, t_dhandle, t_call>>
allvars == <<part, name, namevars, filevars, memvars, vars, stvars, tables, obvars, pktvars>>

-----------------------------------------------------------------------------
Chars == {"a", "A", "b", "r", "q", ".", "/", "\\"}
MCLower == [x \in Chars |-> IF x = "A" THEN "a" ELSE x]
MCStrings == {<<>>, <<"a">>, <<"/", "a", "/", "b">>, <<".", ".", "/", "A">>,
              <<"/", "a", "\\", ".", ".", "/", ".", ".", "/", ".", ".", "/", "q">>}
MCMounts == {<<"/", "q">>, <<"a">>}
MCCwd == << <<"r">> >>
MCPcDirs == {<<>>, << <<"r">> >>, << <<"r">>, <<"a">> >>, << <<"r">>, <<"A">> >>, << <<"q">> >>}
MCPcFiles == {<< <<"r">>, <<"a">>, <<"b">> >>, << <<"q">>, <<"b">> >>}

MCSpelling == [e \in Element |->
  CASE e = "" -> <<>> [] e = "." -> <<".">> [] e = ".." -> <<".", ".">>
    [] e \in {"a", "b"} -> <<e>> [] OTHER -> <<"q">>]

FileContent(f) ==
  CASE f = <<"ms0:", "a", "c">> -> "v1" [] f = <<"ms0:", "a", "b", "c">> -> "v2" [] OTHER -> "v3"

MCArgs == {<<"a">>, <<"..", "c">>, <<"", "c">>, <<"ms0:">>, <<"ms0:", "a">>, <<"ms0:", "">>,
           <<"ms0:", "a", "b">>, <<"ms0:", "a", "c">>, <<"host0:", "a", ".", "..", "c">>}
MCDirs == {<<"ms0:">>, <<"host0:">>, <<"ms0:", "a">>, <<"ms0:", "a", "b">>, <<"host0:", "a">>}
MCFiles == [f \in {<<"ms0:", "a", "c">>, <<"ms0:", "a", "b", "c">>, <<"host0:", "c">>} |-> FileContent(f)]

Num(n) == [kind |-> "num", n |-> n]
Tok(k) == [kind |-> k]
Area(base, size, v1only) == [base |-> base, size |-> size, write |-> TRUE, v1only |-> v1only]

MCRegions == {Area(4, 8, FALSE), Area(16, 4, TRUE), Area(20, 8, FALSE)}
MCMem == [a \in 0..31 |-> IF a \in {3, 4, 5, 7, 26, 27, 28, 30} THEN 1 ELSE 0]
MCExprs == {<<Num(3)>>, <<Num(10)>>, <<Num(18)>>, <<Num(0), Tok("-"), Num(5)>>,
            <<Num(20), Tok("+"), Tok("*"), Tok("*"), Num(24)>>,
            <<Tok("~"), Num(3), Tok("/"), Num(0)>>}
MCPatterns == {<<1, 1>>, <<1, 0, 1>>}

Line(n, v) == [name |-> n, val |-> v]
MCInis == {<<Line("pid", "0")>>, <<Line("resetonexit", "1"), Line("pid", "0")>>}

T == INSTANCE HostFs WITH
  disk <- t_disk, os <- t_os, off <- t_off, opened <- t_opened, open_dirs <- t_open_dirs,
  up <- t_up, session <- t_session, handle <- t_handle, dhandle <- t_dhandle, call <- t_call,
  MaxFiles <- 6, MaxDirs <- 2, Fd <- 0..6, Own <- {0, 1, 2, 4}, File <- {"f1", "f2", "f3"},
  FileSize <- 0, MaxSize <- 0, NumEntries <- 2, MaxBlock <- 2, MaxLen <- 1, Thread <- {},
  Handle <- {"h1", "h2", "h3"}, DirHandle <- {"d1", "d2"}, MaxSession <- 3, Fresh <- TRUE

-----------------------------------------------------------------------------
AllInit ==
  /\ part \in {"names", "files", "memory", "hooks", "start", "tables", "objects", "packets", "string"}
  /\ name \in UNION {[1..n -> {"", "a", "b", ".", ".."}] : n \in 0..MaxWord}
  /\ part = "string" \/ name = <<>>
  /\ NamesInit /\ FilesInit /\ MemInit /\ Init /\ StartInit /\ T!Init /\ ObjectsInit /\ PacketsInit
  /\ part = "start" \/ (fw200 /\ Len(ini) = 1)

Names == part = "names" /\ NamesNext
         /\ UNCHANGED <<part, name, filevars, memvars, vars, stvars, tables, obvars, pktvars>>
Files == part = "files" /\ FilesNext
         /\ UNCHANGED <<part, name, namevars, memvars, vars, stvars, tables, obvars, pktvars>>
Memory == part = "memory" /\ MemNext
          /\ UNCHANGED <<part, name, namevars, filevars, vars, stvars, tables, obvars, pktvars>>
Hooks == part = "hooks" /\ Next
         /\ UNCHANGED <<part, name, namevars, filevars, memvars, stvars, tables, obvars, pktvars>>
Start == part = "start" /\ StartNext
         /\ UNCHANGED <<part, name, namevars, filevars, memvars, vars, tables, obvars, pktvars>>
Tables == part = "tables" /\ T!Next
          /\ UNCHANGED <<part, name, namevars, filevars, memvars, vars, stvars, obvars, pktvars>>
Objects == part = "objects" /\ ObjectsNext
           /\ UNCHANGED <<part, name, namevars, filevars, memvars, vars, stvars, tables, pktvars>>
Packets == part = "packets" /\ PacketsNext
           /\ UNCHANGED <<part, name, namevars, filevars, memvars, vars, stvars, tables, obvars>>

AllNext == Names \/ Files \/ Memory \/ Hooks \/ Start \/ Tables \/ Objects \/ Packets

AllSpec == AllInit /\ [][AllNext]_allvars

-----------------------------------------------------------------------------
\* open_files is what the PC has open, a directory gives each entry once.
TablesAgree == T!TablesAgree
============================================================================

----------------------------- MODULE HostNames -----------------------------
(* Names on the host drives.  The PSP sends names with its commands, the main
   thread of usbhostfs_pc makes paths of the PC of them and works on those;
   the console thread mounts other directories meanwhile.  A drive has a root
   directory and a current directory, guarded by g_drivemtx except where
   handle_chdir and init_hostfs write the latter.

   A string is a sequence of characters; what stands between two slashes is
   one token.  A path of the PC is the sequence of its tokens.               *)
EXTENDS Naturals, Sequences, FiniteSets, SequencesExt

CONSTANTS
  Drive,      \* 0..MAX_HOSTDRIVES-1
  BadDrive,   \* a drive number that is too large
  MaxTokens,  \* MAX_TOKENS
  Lower,      \* character -> the character in lower case
  Strings,    \* bound: names the PSP sends
  Mounts,     \* bound: directories the console user mounts
  PcDirs0, PcFiles0, \* directories and files of the PC at first
  Cwd0,       \* the directory the program is started in
  MaxNameOps, \* bound: commands of the PSP and of the console
  Missing

VARIABLES
  rootdir,    \* drive -> g_drives[].rootdir
  currdirs,   \* drive -> g_drives[].currdir, a string
  cwd,        \* g_rootdir, the directory of the program
  opt,        \* [nocase, msslash]
  mapfile,    \* a saved map of drives, or Missing
  pcdirs, pcfiles,\* what there is on the PC
  request,    \* what the main thread is doing
  did,        \* history: the operation just done, its paths and the roots it used
  nameops     \* how many there were

namevars == <<rootdir, currdirs, cwd, opt, mapfile, pcdirs, pcfiles, request, did, nameops>>
drives == <<rootdir, currdirs>>
tree == <<pcdirs, pcfiles>>

Atom == DOMAIN Lower
Text == Seq(Atom) \ {<<>>}
FileName == Text \ {<<".">>, <<".", ".">>}
PcPath == Seq(FileName)

\* The directory of the program is one (getcwd) whose tokens gen_path does not cut.
ASSUME NamesAssumption ==
  /\ {".", "/", "\\"} \subseteq Atom
  /\ BadDrive \notin Drive /\ MaxTokens \in Nat
  /\ Strings \subseteq Seq(Atom) /\ Mounts \subseteq Text
  /\ PcDirs0 \cup PcFiles0 \subseteq PcPath
  /\ Cwd0 \in PcPath /\ Len(Cwd0) < MaxTokens
  /\ Missing \notin PcPath \cup FileName \cup [Drive -> PcPath]

-----------------------------------------------------------------------------
(* Paths. *)

\* strtok(.., "/"): the runs between slashes, the empty ones left out.
EndToken(acc) ==
  [done |-> IF acc.run = <<>> THEN acc.done ELSE Append(acc.done, acc.run), run |-> <<>>]
TokenStep(acc, x) ==
  IF x = "/" THEN EndToken(acc) ELSE [done |-> acc.done, run |-> Append(acc.run, x)]
TokensOf(s) ==
  LET acc[k \in 0..Len(s)] ==
        IF k = 0 THEN [done |-> <<>>, run |-> <<>>] ELSE TokenStep(acc[k - 1], s[k])
  IN  EndToken(acc[Len(s)]).done

FirstTokens(toks) ==
  SubSeq(toks, 1, IF Len(toks) < MaxTokens - 1 THEN Len(toks) ELSE MaxTokens - 1)

\* Mutant of NormalStep: ".." takes the last token without asking for one.
NormalStepDown(out, t) ==
  CASE t = <<".">>      -> out
    [] t = <<".", ".">> -> IF out = <<>> THEN <<t>> ELSE Front(out)
    [] OTHER            -> Append(out, t)

\* The loop over the tokens in gen_path.
NormalStep(out, t) ==
  CASE t = <<".">>      -> out
    [] t = <<".", ".">> -> IF out = <<>> THEN out ELSE Front(out)
    [] OTHER            -> Append(out, t)

\* gen_path, without the slash it puts behind a directory.
gen_path(toks) ==
  LET used == FirstTokens(toks)
      out[k \in 0..Len(used)] == IF k = 0 THEN <<>> ELSE NormalStep(out[k - 1], used[k])
  IN  out[Len(used)]

LowerTok(t) == [i \in DOMAIN t |-> Lower[t[i]]]

\* calc_rating
Rating(a, b) ==
  Cardinality({i \in DOMAIN a \cap DOMAIN b : a[i] = b[i]})

\* find_nocase: the name with the best rating, of several the first that readdir
\* gives, where the paths that there are are given.
find_nocase(there, dir, t) ==
  LET match == {Last(p) : p \in {p \in there :
                  p # <<>> /\ Front(p) = dir /\ LowerTok(Last(p)) = LowerTok(t)}}
      best  == {n \in match : \A o \in match : Rating(t, n) >= Rating(t, o)}
  IN  IF best = {} THEN Missing ELSE CHOOSE n \in best : TRUE

\* The token k of a path, after those that gave p: one that is not found ends the
\* search, except the last.
NocaseStep(there, root, path, p, k) ==
  LET found == find_nocase(there, root \o p, path[k])
  IN  CASE p = Missing                    -> Missing
        [] p # Missing /\ found # Missing -> Append(p, found)
        [] OTHER -> IF k = Len(path) THEN Append(p, path[k]) ELSE Missing

make_nocase(there, root, path) ==
  LET p[k \in 0..Len(path)] == IF k = 0 THEN <<>> ELSE NocaseStep(there, root, path, p[k - 1], k)
  IN  IF p[Len(path)] = Missing THEN path ELSE p[Len(path)]

WithSlashes(o, s) == [i \in DOMAIN s |-> IF o.msslash /\ s[i] = "\\" THEN "/" ELSE s[i]]

\* make_path, for the root and the current directory of a drive.
HostPath(there, o, root, curr, s) ==
  LET rel == gen_path(TokensOf(WithSlashes(o, curr \o s)))
  IN  gen_path(root \o (IF o.nocase THEN make_nocase(there, root, rel) ELSE rel))

Present == pcdirs \cup pcfiles

make_path(d, s) ==
  IF d \in Drive THEN HostPath(Present, opt, rootdir[d], currdirs[d], s) ELSE Missing

-----------------------------------------------------------------------------
NoRequest == [op |-> "idle"]
MayServe == request = NoRequest /\ nameops < MaxNameOps

Noted(op, d, s, path) ==
  [op |-> op, d |-> d, s |-> s, path |-> path, other |-> path, clean |-> TRUE,
   roots |-> IF d \in Drive THEN {rootdir[d]} ELSE {}]

\* History: nothing was done in this step.
Nothing == Noted("none", BadDrive, <<"/">>, <<>>)

There(p) == p \in Present
Inside(p) == {q \in Present : IsStrictPrefix(p, q)}
Parent(p) == IF p = <<>> THEN p ELSE Front(p)

\* What the system calls make of the tree; one that fails leaves it alone.
Effect(op, p) ==
  CASE op = "mkdir" /\ ~There(p) /\ Parent(p) \in pcdirs -> [d |-> pcdirs \cup {p}, f |-> pcfiles]
    [] op = "rmdir" /\ p \in pcdirs /\ Inside(p) = {}     -> [d |-> pcdirs \ {p}, f |-> pcfiles]
    [] op = "remove" /\ p \in pcfiles                     -> [d |-> pcdirs, f |-> pcfiles \ {p}]
    [] op = "open" /\ ~There(p) /\ Parent(p) \in pcdirs   -> [d |-> pcdirs, f |-> pcfiles \cup {p}]
    [] OTHER                                              -> [d |-> pcdirs, f |-> pcfiles]

\* The commands with one name: the path is made under the mutex, then used.
OneName(op) ==
  /\ MayServe
  /\ \E d \in Drive \cup {BadDrive}, s \in Strings :
       LET p == make_path(d, s)
       IN  IF p = Missing THEN did' = Nothing /\ UNCHANGED tree
           ELSE /\ pcdirs' = Effect(op, p).d
                /\ pcfiles' = Effect(op, p).f
                /\ did' = Noted(op, d, s, p)
  /\ nameops' = nameops + 1
  /\ UNCHANGED <<drives, cwd, opt, mapfile, request>>

handle_open   == OneName("open")
handle_remove == OneName("remove")
handle_rmdir  == OneName("rmdir")
handle_mkdir  == OneName("mkdir")
handle_getstat == OneName("getstat")
handle_chstat == OneName("chstat")

Absolute(s) == s # <<>> /\ s[1] = "/"

\* What stands behind the last slash of an absolute name, and what before.
Cuts(s) == {i \in DOMAIN s : s[i] = "/" /\ \A j \in (i + 1)..Len(s) : s[j] # "/"}
Before(s) == SubSeq(s, 1, CHOOSE i \in Cuts(s) : TRUE)
Behind(s) == SubSeq(s, (CHOOSE i \in Cuts(s) : TRUE) + 1, Len(s))

\* A string that names one thing in a directory.
Plain(s) == s \in FileName /\ \A i \in DOMAIN s : s[i] # "/" /\ (opt.msslash => s[i] # "\\")

\* handle_rename: a relative new name is put behind the last slash of an
\* absolute old one; then two paths are made, each under the mutex.
Rebase(old, new) == IF Absolute(old) /\ ~Absolute(new) THEN Before(old) \o new ELSE new

RenameOld ==
  /\ MayServe
  /\ \E d \in Drive, old, new \in Strings :
       request' = [op |-> "rename", d |-> d, s |-> old, path |-> make_path(d, old), new |-> new,
                   dest |-> Rebase(old, new), clean |-> TRUE, root |-> rootdir[d]]
  /\ did' = Nothing
  /\ UNCHANGED <<drives, cwd, opt, mapfile, tree, nameops>>

\* Moves a file or a directory with all below it.
AllMoved(set, p, q) == {IF IsPrefix(p, x) THEN q \o SubSeq(x, Len(p) + 1, Len(x)) ELSE x : x \in set}

RenameNew ==
  /\ request.op = "rename"
  /\ LET p == request.path
         q == make_path(request.d, request.dest)
         ok == There(p) /\ p # <<>> /\ ~There(q) /\ Parent(q) \in pcdirs /\ ~IsPrefix(p, q)
     IN  /\ pcdirs' = IF ok THEN AllMoved(pcdirs, p, q) ELSE pcdirs
         /\ pcfiles' = IF ok THEN AllMoved(pcfiles, p, q) ELSE pcfiles
         /\ did' = [Noted("rename", request.d, request.s, p) EXCEPT !.other = q,
                      !.roots = @ \cup {request.root},
                      !.clean = /\ request.clean /\ Absolute(request.s)
                                /\ Plain(Behind(request.s)) /\ Plain(request.new)]
  /\ request' = NoRequest
  /\ nameops' = nameops + 1
  /\ UNCHANGED <<drives, cwd, opt, mapfile>>

\* handle_chdir copies the name into currdir without the mutex, and without
\* looking whether there is such a directory.
ChdirStart ==
  /\ MayServe
  /\ \E d \in Drive, s \in Strings :
       request' = [op |-> "chdir", d |-> d, s |-> s, clean |-> TRUE]
  /\ did' = Nothing
  /\ UNCHANGED <<drives, cwd, opt, mapfile, tree, nameops>>

\* The bytes of two copies at the same time: the first and the rest may come
\* from either.
Torn(s) ==
  {s, <<"/">>} \cup IF s = <<>> THEN {} ELSE {<<"/">> \o Tail(s), <<Head(s)>>}

ChdirEnd ==
  /\ request.op = "chdir"
  /\ \E s \in IF request.clean THEN {request.s} ELSE Torn(request.s) :
       currdirs' = [currdirs EXCEPT ![request.d] = s]
  /\ request' = NoRequest
  /\ nameops' = nameops + 1
  /\ did' = Nothing
  /\ UNCHANGED <<rootdir, cwd, opt, mapfile, tree>>

\* get_drive_info asks about the root; ioctl and other devctls do nothing.
handle_devctl ==
  /\ MayServe
  /\ \E d \in Drive : did' = Noted("devctl", d, <<"/">>, rootdir[d])
  /\ nameops' = nameops + 1
  /\ UNCHANGED <<drives, cwd, opt, mapfile, tree, request>>

\* A new session: init_hostfs.
init_hostfs ==
  /\ request = NoRequest
  /\ currdirs' = [d \in Drive |-> <<"/">>]
  /\ did' = Nothing
  /\ UNCHANGED <<rootdir, cwd, opt, mapfile, tree, request, nameops>>

-----------------------------------------------------------------------------
(* The console.  Its commands run between the steps of the main thread.    *)

AtConsole == nameops < MaxNameOps /\ nameops' = nameops + 1 /\ did' = Nothing

\* add_drive for the drives and directories of some lines: a directory must
\* exist; then its drive starts there.  A command of the main thread that has a
\* path already, or is copying one, goes on with it.
AddDrives(lines) ==
  LET good == {x \in lines : gen_path(x.dir) \in pcdirs}
      New(d) == \E x \in good : x.d = d
  IN  /\ AtConsole
      /\ rootdir' = [d \in Drive |-> IF New(d) THEN gen_path((CHOOSE x \in good : x.d = d).dir)
                                    ELSE rootdir[d]]
      /\ currdirs' = [d \in Drive |-> IF New(d) THEN <<"/">> ELSE currdirs[d]]
      /\ request' = IF request # NoRequest /\ New(request.d) THEN [request EXCEPT !.clean = FALSE]
                    ELSE request
      /\ UNCHANGED <<cwd, opt, mapfile, tree>>

\* A path without a slash in front is taken from the program's directory.
FromCwd(m) == IF Absolute(m) THEN TokensOf(m) ELSE cwd \o TokensOf(m)

mount_drive == \E d \in Drive, m \in Mounts : AddDrives({[d |-> d, dir |-> FromCwd(m)]})

save_drives ==
  /\ AtConsole
  /\ mapfile' = rootdir
  /\ UNCHANGED <<drives, cwd, opt, tree, request>>

\* A line "num=path" of the file.
MapLine(d) == [d |-> d, dir |-> mapfile[d]]

\* load_mapfile in one step; line by line it is a sequence of mounts.
load_drives ==
  /\ mapfile # Missing
  /\ AddDrives({MapLine(d) : d \in Drive})

ch_dir ==
  /\ AtConsole
  /\ \E m \in Mounts :
       cwd' = LET p == gen_path(FromCwd(m))
              IN  IF p \in pcdirs THEN p ELSE cwd
  /\ UNCHANGED <<drives, opt, mapfile, tree, request>>

\* Options are read without the mutex, once for each path.
SetOption(new) ==
  /\ AtConsole
  /\ opt' = new
  /\ request' = IF request = NoRequest THEN request ELSE [request EXCEPT !.clean = FALSE]
  /\ UNCHANGED <<drives, cwd, mapfile, tree>>

nocase_set  == SetOption([opt EXCEPT !.nocase = ~@])
msslash_set == SetOption([opt EXCEPT !.msslash = ~@])

-----------------------------------------------------------------------------
\* parse_args: every drive starts at the directory of the program.
NamesInit ==
  /\ cwd = Cwd0
  /\ rootdir = [d \in Drive |-> cwd]
  /\ currdirs = [d \in Drive |-> <<"/">>]
  /\ opt = [nocase |-> FALSE, msslash |-> FALSE]
  /\ mapfile = Missing
  /\ pcdirs = PcDirs0 /\ pcfiles = PcFiles0
  /\ request = NoRequest
  /\ did = Nothing
  /\ nameops = 0

NamesNext ==
  \/ handle_open \/ handle_remove \/ handle_rmdir \/ handle_mkdir \/ handle_getstat \/ handle_chstat
  \/ RenameOld \/ RenameNew \/ ChdirStart \/ ChdirEnd \/ handle_devctl \/ init_hostfs
  \/ mount_drive \/ save_drives \/ load_drives \/ ch_dir \/ nocase_set \/ msslash_set

NamesSpec == NamesInit /\ [][NamesNext]_namevars

-----------------------------------------------------------------------------
\* Whatever names the PSP sends, whatever its current directory has become and
\* whatever is mounted meanwhile, a command works below a root that its drive has
\* had since the command began (make_path, line 501).  A rename from an absolute
\* name to a plain one stays in the directory, in other case or not, unless the drive
\* is mounted anew or an option set between the two paths (handle_rename, line 1751).
Confined ==
  /\ did.op # "none" =>
       \A p \in {did.path, did.other} : \E r \in did.roots : IsPrefix(r, p)
  /\ did.op = "rename" /\ did.clean => Parent(did.other) = Parent(did.path)

============================================================================

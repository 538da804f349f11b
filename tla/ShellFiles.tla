----------------------------- MODULE ShellFiles -----------------------------
(* Files and directories on the PSP, as the shell of psplink works on them:
   handlepath makes a path of the current directory and a name, cp and mv copy
   a file or a whole directory, block after block and entry after entry, with
   every result of the input and output ignored.

   A path is the sequence of what stands between its slashes: first the device,
   a last element "" for a path that ends with a slash.                      *)
EXTENDS Naturals, Sequences, FiniteSets, SequencesExt, Functions

CONSTANTS
  Element,      \* what stands between slashes
  Device,       \* devices, such as "ms0:"
  OpensDir,     \* devices that open a directory as they do a file
  Args,         \* bound: names given to commands
  Dirs0,        \* directories at first
  Files0,       \* file -> its content, at first
  Partial,      \* what a copy that failed leaves
  MaxDepth,     \* bound: directories a copy has open
  MaxFileOps    \* bound: commands that change something

VARIABLES
  dirs,         \* directories
  files,        \* file -> content
  currdir,      \* g_context.currdir
  copying,      \* the cp or mv under way
  given_up,     \* history: contents removed, not moved whole or, from a bare device name, written over
  fileops

filevars == <<dirs, files, currdir, copying, given_up, fileops>>
fs == <<dirs, files>>

Path == Seq(Element) \ {<<>>}
NoPath == <<>>

\* Every directory on the way to a directory or file is there.
Rooted(ds, fl) == \A p \in ds \cup fl : \A n \in 1..(Len(p) - 1) : SubSeq(p, 1, n) \in ds

ASSUME FilesAssumption ==
  /\ {"host0:", "", ".", ".."} \subseteq Element
  /\ Args \subseteq Path
  /\ Dirs0 \subseteq Path
  /\ DOMAIN Files0 \subseteq Path \ Dirs0
  /\ Files0 = [f \in DOMAIN Files0 |-> Files0[f]]
  /\ Rooted(Dirs0, DOMAIN Files0)

-----------------------------------------------------------------------------
(* handlepath. *)

\* strcat(currentdir, relative), from the device only for a name with a slash
\* in front; currentdir ends with a slash.
Joined(rel) ==
  IF rel[1] \in Device THEN rel
  ELSE IF rel[1] = "" THEN <<currdir[1]>> \o Tail(rel)
  ELSE Front(currdir) \o rel

\* The first loop: it takes ".." with the element before it, and gives up
\* where there is none; it ends at the first ".".
DotStep(acc, e) ==
  IF acc.mode # "go" THEN [acc EXCEPT !.kept = Append(@, e)]
  ELSE IF e = "." THEN [acc EXCEPT !.mode = "done"]
  ELSE IF e # ".." THEN [acc EXCEPT !.kept = Append(@, e)]
  ELSE IF Len(acc.kept) = 1 THEN [acc EXCEPT !.mode = "bad"]
  ELSE [acc EXCEPT !.kept = Front(@)]
Dots(path) ==
  LET acc[n \in 1..Len(path)] ==
        IF n = 1 THEN [kept |-> <<path[1]>>, mode |-> "go"] ELSE DotStep(acc[n - 1], path[n])
  IN  acc[Len(path)]

\* A directory's path ends with a slash, a file's without.
Typed(path, type) ==
  CASE type = "dir" /\ Last(path) # "" -> Append(path, "")
    [] type = "file" /\ Last(path) = "" /\ Len(path) > 1 -> Front(path)
    [] OTHER -> path

\* Mutant of NameStep: it forgets that ".." takes a directory away.
NameStepKeeps(kept, e) == IF e \in {"", ".", ".."} THEN kept ELSE Append(kept, e)

\* normalize_path: every element but the last, which no slash ends.
NameStep(kept, e) ==
  IF e \in {"", "."} THEN kept
  ELSE IF e # ".." THEN Append(kept, e)
  ELSE IF Len(kept) > 1 THEN Front(kept) ELSE kept
normalize_path(path) ==
  LET kept[n \in 1..Len(path)] ==
        IF n = 1 THEN <<path[1]>>
        ELSE IF n = Len(path) THEN Append(kept[n - 1], path[n])
        ELSE NameStep(kept[n - 1], path[n])
  IN  kept[Len(path)]

\* What a device makes of a last element that is no name.
Bare(path) ==
  IF Len(path) > 1 /\ Last(path) \in {"", "."} THEN Front(path)
  ELSE IF Len(path) > 1 /\ Last(path) = ".." THEN SubSeq(path, 1, IF Len(path) = 2 THEN 1 ELSE Len(path) - 2)
  ELSE path
OpensRead(path) ==
  Bare(path) \in DOMAIN files \/ (Bare(path) \in dirs /\ path[1] \in OpensDir)

\* isdir: the root of a device is one only with its slash, or where the device says so.
isdir(path) ==
  \/ Len(path) = 2 /\ path[2] = ""
  \/ (Len(path) > 1 \/ path[1] \in OpensDir) /\ Bare(path) \in dirs

\* handlepath: the path, or NoPath.
handlepath(rel, type, valid) ==
  LET d == Dots(Joined(rel))
      p == normalize_path(Typed(d.kept, type))
      found == IF type = "dir" THEN isdir(p) ELSE OpensRead(p)
  IN  IF d.mode = "bad" \/ (valid /\ ~found) THEN NoPath ELSE p

-----------------------------------------------------------------------------
(* Commands of one step. *)

NoCopy == [stack |-> <<>>]
Ready == copying = NoCopy /\ fileops < MaxFileOps

chdir ==
  /\ Ready
  /\ \E a \in Args : LET p == handlepath(a, "dir", TRUE)
                     IN  p # NoPath /\ currdir' = p
  /\ fileops' = fileops + 1
  /\ UNCHANGED <<fs, copying, given_up>>

\* A path can be made: its directory is there and nothing of its name.
Free(p) == p \notin dirs \cup DOMAIN files /\ Front(p) \in dirs

mkdir_cmd ==
  /\ Ready
  /\ \E a \in Args : LET p == handlepath(a, "file", FALSE)
                     IN  /\ p # NoPath /\ Free(Bare(p))
                         /\ dirs' = dirs \cup {Bare(p)}
  /\ fileops' = fileops + 1
  /\ UNCHANGED <<files, currdir, copying, given_up>>

Below(p) == {q \in dirs \cup DOMAIN files : IsStrictPrefix(p, q)}

rmdir_cmd ==
  /\ Ready
  /\ \E a \in Args : LET p == handlepath(a, "file", FALSE)
                     IN  /\ p # NoPath /\ Len(Bare(p)) > 1
                         /\ Bare(p) \in dirs /\ Below(Bare(p)) = {}
                         /\ dirs' = dirs \ {Bare(p)}
  /\ fileops' = fileops + 1
  /\ UNCHANGED <<files, currdir, copying, given_up>>

\* Its loop looks at argv[0] however many names there are.
rm_cmd ==
  /\ Ready
  /\ \E a \in Args : LET p == handlepath(a, "file", TRUE)
                     IN  /\ p # NoPath /\ Bare(p) \in DOMAIN files
                         /\ files' = Restrict(files, DOMAIN files \ {Bare(p)})
                         /\ given_up' = given_up \cup {files[Bare(p)]}
  /\ fileops' = fileops + 1
  /\ UNCHANGED <<dirs, currdir, copying>>

\* What stands at p or below it stands at q or below it then.
MovedPath(x, p, q) == q \o SubSeq(x, Len(p) + 1, Len(x))
MoveDirs(p, q) == {IF IsPrefix(p, x) THEN MovedPath(x, p, q) ELSE x : x \in dirs}
MoveFiles(p, q) ==
  LET stay == {x \in DOMAIN files : ~IsPrefix(p, x) /\ x # q}
      move == {x \in DOMAIN files : IsPrefix(p, x)}
  IN  [y \in stay \cup {MovedPath(x, p, q) : x \in move} |->
         IF y \in stay THEN files[y]
         ELSE files[CHOOSE x \in move : MovedPath(x, p, q) = y]]

\* A device may put the new name in place of another file.
CanMove(p, q) ==
  /\ p \in dirs \cup DOMAIN files /\ Len(p) > 1 /\ p[1] = q[1]
  /\ q \notin dirs /\ Front(q) \in dirs /\ ~IsPrefix(p, q)
  /\ q \notin DOMAIN files \/ (q[1] \in OpensDir /\ p \in DOMAIN files)
Move(p, q) == dirs' = MoveDirs(p, q) /\ files' = MoveFiles(p, q)

rename_cmd ==
  /\ Ready
  /\ \E a, b \in Args :
       LET p == handlepath(a, "file", TRUE)
           q == handlepath(b, "file", FALSE)
       IN  /\ p # NoPath /\ q # NoPath /\ CanMove(Bare(p), Bare(q))
           /\ Move(Bare(p), Bare(q))
           /\ given_up' = given_up \cup (IF Bare(q) \in DOMAIN files THEN {files[Bare(q)]} ELSE {})
  /\ fileops' = fileops + 1
  /\ UNCHANGED <<currdir, copying>>

-----------------------------------------------------------------------------
(* cp and mv. *)

\* strrchr finds a slash in each name strcmp gets.
Slashes(fsrc, fdst, move) ==
  isdir(fsrc) /\ (isdir(fdst) \/ move) => Len(fdst) > 1

\* Where the copy goes: into a directory unless that has the name of the
\* directory to copy.
Target(fsrc, fdst, move) ==
  IF /\ isdir(fdst) \/ (move /\ Len(fdst) = 1)
     /\ ~isdir(fsrc) \/ Last(fsrc) # Last(fdst)
  THEN Append(Bare(fdst), Last(fsrc)) ELSE fdst

\* Mutant of Taken: an existing file is no obstacle.
TakenDirs(fsrc, to) == isdir(fsrc) /\ isdir(to)

\* The destination is there already.
Taken(fsrc, to) == IF isdir(fsrc) THEN isdir(to) ELSE OpensRead(to)

\* What sceIoMkdir and sceIoOpen for writing do.
MkDir(dst) == IF Free(dst) THEN dirs \cup {dst} ELSE dirs
CanWrite(dst) == dst \notin dirs /\ Front(dst) \in dirs
Written(dst, v) == [x \in DOMAIN files \cup {dst} |-> IF x = dst THEN v ELSE files[x]]

\* A directory is copied to the bare name of a device.
ToRoot == copying # NoCopy /\ Len(copying.stack[1].dst) = 1

\* CopyFile, with calls that may fail; its result is thrown away.  A file that
\* cannot be read or written leaves a part of it or nothing.
CopyFile(src, dst, move) ==
  \E whole \in BOOLEAN :
    LET v == files[src]
        new == IF ~CanWrite(dst) THEN files ELSE Written(dst, IF whole THEN v ELSE Partial)
        failed == ~whole \/ ~CanWrite(dst)
    IN  /\ files' = IF move THEN Restrict(new, DOMAIN new \ {src}) ELSE new
        /\ given_up' = given_up \cup (IF failed /\ move THEN {v} ELSE {})
                              \cup (IF ToRoot /\ dst \in DOMAIN files THEN {files[dst]} ELSE {})

Frame(src, dst) == [src |-> src, dst |-> dst, seen |-> {}]

\* The command up to the first block or entry.  mv on one device asks the
\* device first, which may refuse.
CopyCmd(move) ==
  /\ Ready
  /\ \E a, b \in Args :
       LET fsrc == handlepath(a, "ether", FALSE)
           fdst == handlepath(b, "ether", FALSE)
           to   == Target(fsrc, fdst, move)
       IN  /\ fsrc # NoPath /\ fdst # NoPath /\ Len(fsrc) > 1
           /\ isdir(fsrc) \/ OpensRead(fsrc)
           /\ Slashes(fsrc, fdst, move) /\ ~Taken(fsrc, to)
           /\ \/ /\ move /\ CanMove(Bare(fsrc), Bare(to)) /\ Bare(to) \notin DOMAIN files
                 /\ Move(Bare(fsrc), Bare(to))
                 /\ UNCHANGED <<copying, given_up>>
              \/ /\ isdir(fsrc)
                 /\ copying' = [stack |-> <<Frame(Bare(fsrc), Bare(to))>>, move |-> move]
                 /\ dirs' = MkDir(Bare(to))
                 /\ UNCHANGED <<files, given_up>>
              \/ /\ ~isdir(fsrc)
                 /\ CopyFile(Bare(fsrc), Bare(to), move)
                 /\ UNCHANGED <<dirs, copying>>
  /\ fileops' = fileops + 1
  /\ UNCHANGED currdir

cp_cmd == CopyCmd(FALSE)
mv_cmd == CopyCmd(TRUE)

\* CopyDirectory reads the next entry.  A directory that is copied into itself
\* finds its copy there and goes on for ever, here to MaxDepth.
Top == copying.stack[Len(copying.stack)]
Seen(n) == [copying EXCEPT !.stack[Len(copying.stack)].seen = @ \cup {n}]

CopyEntry ==
  /\ copying # NoCopy
  /\ \E q \in Below(Top.src) :
       LET n == Last(q)
           dst == Append(Top.dst, n)
       IN  /\ Front(q) = Top.src /\ n \notin Top.seen
           /\ IF q \in dirs
              THEN /\ Len(copying.stack) < MaxDepth
                   /\ copying' = [Seen(n) EXCEPT !.stack = Append(@, Frame(q, dst))]
                   /\ dirs' = MkDir(dst)
                   /\ UNCHANGED <<files, given_up>>
              ELSE /\ copying' = Seen(n)
                   /\ CopyFile(q, dst, copying.move)
                   /\ UNCHANGED dirs
  /\ UNCHANGED <<currdir, fileops>>

\* sceIoRmdir(src), which a directory that is not empty refuses.
RemoveSource(p) ==
  /\ dirs' = IF Below(p) = {} THEN dirs \ {p} ELSE dirs
  /\ UNCHANGED files

\* The end of a directory: every entry was read, or a failing sceIoDread ends
\* it before.
CopyDone ==
  /\ copying # NoCopy
  /\ IF copying.move THEN RemoveSource(Top.src) ELSE UNCHANGED fs
  /\ copying' = IF Len(copying.stack) = 1 THEN NoCopy ELSE [copying EXCEPT !.stack = Front(@)]
  /\ UNCHANGED <<currdir, given_up, fileops>>

-----------------------------------------------------------------------------
FilesInit ==
  /\ dirs = Dirs0 /\ files = Files0
  /\ currdir = <<"host0:", "">>
  /\ copying = NoCopy
  /\ given_up = {} /\ fileops = 0

FilesNext ==
  \/ chdir \/ mkdir_cmd \/ rmdir_cmd \/ rm_cmd \/ rename_cmd
  \/ cp_cmd \/ mv_cmd \/ CopyEntry \/ CopyDone

FilesSpec == FilesInit /\ [][FilesNext]_filevars

-----------------------------------------------------------------------------
\* The content of a file disappears only by rm, by a rename over it, by a mv that
\* could not read or write all of it, or by a copy of a directory to the bare name
\* of a device, which no test for the destination sees (isdir("ms0:") is 0).
\* Otherwise neither cp nor mv writes over a file that was there, and a mv whose
\* directory could not be read to its end keeps what it has not copied
\* (mv_cmd, CopyDirectory).
NothingLost ==
  \A f \in DOMAIN Files0 : Files0[f] \in Range(files) \cup given_up
============================================================================

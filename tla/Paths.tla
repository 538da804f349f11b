------------------------------- MODULE Paths -------------------------------
(* What "." and ".." in a name mean, for the two programs that resolve them:
   gen_path of usbhostfs_pc works on the characters of a name, handlepath of
   psplink with two loops on what stands between its slashes.               *)
EXTENDS HostNames, ShellFiles

CONSTANT Spelling   \* element -> its characters
VARIABLE name       \* a name, by its elements

ASSUME PathsAssumption == Spelling \in [Element -> Seq(Atom)] /\ "" \notin Device

\* How many of a set are from i to j.
CountIn(set, i, j) == Cardinality({k \in i..j : k \in set})

\* A token stays if it is a name and no ".." behind it takes it away, that is if in
\* every stretch of the n tokens that starts with it there are more names than "..".
Staying(names, ups, n) ==
  {i \in 1..n : \A j \in i..n : CountIn(names, i, j) > CountIn(ups, i, j)}

\* The tokens at some places, in their order.
Nth(set, n) == CHOOSE i \in set : Cardinality({k \in set : k <= i}) = n
InOrder(toks, set) == [n \in 1..Cardinality(set) |-> toks[Nth(set, n)]]

\* For a string with fewer tokens than MaxTokens gen_path gives the tokens that
\* remain after every ".." has taken the name before it, however they are nested
\* and however many ".." there are too many (gen_path, line 330).
GenPathResolves(s) ==
  LET toks  == TokensOf(s)
      names == {i \in DOMAIN toks : toks[i] \in FileName}
      ups   == {i \in DOMAIN toks : toks[i] = <<".", ".">>}
  IN  Len(toks) < MaxTokens => gen_path(toks) = InOrder(toks, Staying(names, ups, Len(toks)))

IsName(e) == e \notin {"", ".", ".."}
NamesIn(path) == {i \in 2..Len(path) : IsName(path[i])}
UpsIn(path)   == {i \in 2..Len(path) : path[i] = ".."}

Resolved(path) ==
  <<path[1]>> \o InOrder(path, Staying(NamesIn(path), UpsIn(path), Len(path)))

\* Somewhere there are more ".." than names before.
Climbs(path) ==
  \E n \in 1..Len(path) : CountIn(UpsIn(path), 1, n) > CountIn(NamesIn(path), 1, n)

\* handlepath makes of the name of a directory, without two slashes in a row,
\* the path it stands for, however "." and ".." are mixed, though two loops
\* work on them in turn; it refuses only names that climb over the root
\* (handlepath, util.c:189).
PathResolves(rel) ==
  LET full == Joined(rel)
      d == Dots(full)
      p == normalize_path(Typed(d.kept, "dir"))
  IN  IF d.mode = "bad" THEN Climbs(full) ELSE p = Append(Resolved(full), "")

Single(rel) == \A i \in 2..(Len(rel) - 1) : rel[i] # ""

\* The characters of a name, a slash before each element.
Spelled(rel) ==
  LET s[n \in 0..Len(rel)] == IF n = 0 THEN <<>> ELSE s[n - 1] \o <<"/">> \o Spelling[rel[n]]
  IN  s[Len(rel)]

\* gen_path of the PC and the two loops of psplink's handlepath resolve "." and ".."
\* as they should, for every name (gen_path, handlepath).
PathsResolve ==
  /\ GenPathResolves(Spelled(name))
  /\ name # <<>> /\ Single(name) => PathResolves(name)
============================================================================

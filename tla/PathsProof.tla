---------------------------- MODULE PathsProof ------------------------------
(* Proofs about the files of psplink's shell, for any names, directories and
   number of commands; about the names and drives of usbhostfs_pc, for any
   drives, names and directories; and about what both programs make of "." and
   ".." in a name, however long it is.                                        *)
EXTENDS Paths, SequenceTheorems, FiniteSetTheorems, WellFoundedInduction, TLAPS

-----------------------------------------------------------------------------
(* Steps that are counted.                                                  *)

LEMMA AllNumbers ==
  ASSUME NEW T, 0 \in T, \A k \in Nat : k \in T => k + 1 \in T
  PROVE  Nat \subseteq T
  <1> SUFFICES ASSUME Nat \ T # {} PROVE FALSE
    OBVIOUS
  <1>1. PICK U \in SUBSET Nat : U = Nat \ T
    OBVIOUS
  <1>2. PICK m \in U : \A k \in U : ~(<<k, m>> \in OpToRel(<, Nat))
    BY <1>1, NatLessThanWellFounded, WFMin
  <1>3. m \in Nat /\ m \notin T /\ m # 0
    BY <1>1, <1>2
  <1>4. m - 1 \in Nat /\ m - 1 < m /\ (m - 1) + 1 = m
    BY <1>3
  <1>5. m - 1 \in T
    BY <1>1, <1>2, <1>4 DEF OpToRel
  <1> QED
    BY <1>3, <1>4, <1>5

\* What holds at first and after each of n steps holds after all of them.
LEMMA EachStep ==
  ASSUME NEW n \in Nat, NEW T, 0 \in T, \A k \in 0..(n - 1) : k \in T => k + 1 \in T
  PROVE  0..n \subseteq T
  <1> DEFINE U == {k \in Nat : k <= n => k \in T}
  <1>1. 0 \in U
    OBVIOUS
  <1>2. ASSUME NEW k \in Nat, k \in U PROVE k + 1 \in U
    <2>1. k + 1 <= n => k \in 0..(n - 1) /\ k \in T
      BY <1>2
    <2> QED
      BY <2>1
  <1> HIDE DEF U
  <1>3. Nat \subseteq U
    BY <1>1, <1>2, AllNumbers
  <1> QED
    BY <1>3 DEF U

\* A function that is stepped n times.
LEMMA Stepped ==
  ASSUME NEW S, NEW first \in S, NEW n \in Nat, NEW next \in [1..n -> [S -> S]]
  PROVE  \E g \in [0..n -> S] : g[0] = first /\ \A k \in 1..n : g[k] = next[k][g[k - 1]]
  <1> DEFINE Good(g, m) == g \in [0..m -> S] /\ g[0] = first /\ \A k \in 1..m : g[k] = next[k][g[k - 1]]
             T == {m \in Nat : m <= n => \E g : Good(g, m)}
  <1>1. 0 \in T
    <2> DEFINE h == [k \in 0..0 |-> first]
    <2>1. Good(h, 0)
      OBVIOUS
    <2> QED
      BY <2>1
  <1>2. ASSUME NEW m \in Nat, m \in T PROVE m + 1 \in T
    <2> SUFFICES ASSUME m + 1 <= n PROVE \E g : Good(g, m + 1)
      OBVIOUS
    <2>1. PICK g : Good(g, m)
      BY <1>2
    <2>2. m + 1 \in 1..n /\ m \in 0..m /\ g[m] \in S
      BY <2>1
    <2>3. PICK v : v = next[m + 1][g[m]] /\ v \in S
      BY <2>2
    <2> DEFINE h == [k \in 0..(m + 1) |-> IF k = m + 1 THEN v ELSE g[k]]
    <2>4. h \in [0..(m + 1) -> S]
      BY <2>1, <2>3
    <2>5. ASSUME NEW k \in 1..(m + 1) PROVE h[k] = next[k][h[k - 1]]
      <3>1. k - 1 \in 0..m /\ h[k - 1] = g[k - 1]
        OBVIOUS
      <3>2. CASE k = m + 1
        BY <2>3, <3>1, <3>2
      <3>3. CASE k # m + 1
        BY <2>1, <3>1, <3>3
      <3> QED
        BY <3>2, <3>3
    <2>6. h[0] = first
      BY <2>1
    <2>7. Good(h, m + 1)
      BY <2>4, <2>5, <2>6
    <2> QED
      BY <2>7
  <1> HIDE DEF T
  <1>3. n \in T
    BY <1>1, <1>2, AllNumbers
  <1> QED
    BY <1>3 DEF T

-----------------------------------------------------------------------------
\* One item behind.
Longer(s, x) == Append(s, x)

LEMMA OneBehind ==
  ASSUME NEW S, NEW s \in Seq(S), NEW x \in S
  PROVE  LET t == Longer(s, x)
         IN  /\ t \in Seq(S) /\ Len(t) = Len(s) + 1 /\ t # <<>>
             /\ \A i \in 1..Len(s) : i \in 1..Len(t) /\ t[i] = s[i]
             /\ \A i \in 1..Len(t) : (i \in 1..Len(s) /\ t[i] = s[i]) \/ (i = Len(s) + 1 /\ t[i] = x)
             /\ Len(s) + 1 \in 1..Len(t) /\ t[Len(s) + 1] = x
  <1> DEFINE t == Longer(s, x)
  <1>1. t \in Seq(S) /\ Len(t) = Len(s) + 1 /\ Len(s) \in Nat /\ t # <<>>
        /\ (\A i \in 1..Len(s) : t[i] = s[i]) /\ t[Len(s) + 1] = x
    BY AppendProperties, LenProperties DEF Longer
  <1> HIDE DEF t
  <1>2. /\ \A i \in 1..Len(s) : i \in 1..Len(t)
        /\ \A i \in 1..Len(t) : i \in 1..Len(s) \/ i = Len(s) + 1
        /\ Len(s) + 1 \in 1..Len(t)
    BY <1>1
  <1>3. /\ t \in Seq(S) /\ Len(t) = Len(s) + 1 /\ t # <<>>
        /\ \A i \in 1..Len(s) : i \in 1..Len(t) /\ t[i] = s[i]
        /\ \A i \in 1..Len(t) : (i \in 1..Len(s) /\ t[i] = s[i]) \/ (i = Len(s) + 1 /\ t[i] = x)
        /\ Len(s) + 1 \in 1..Len(t) /\ t[Len(s) + 1] = x
    BY <1>1, <1>2
  <1> QED
    BY <1>3 DEF t

-----------------------------------------------------------------------------
(* The files.  Paths.                                                       *)

LEMMA PathIs ==
  ASSUME NEW p \in Path
  PROVE  /\ p \in Seq(Element) /\ Len(p) \in Nat \ {0} /\ p # NoPath
         /\ \A i \in 1..Len(p) : p[i] \in Element
         /\ Last(p) \in Element
  <1>1. p \in Seq(Element) /\ p # <<>>
    BY DEF Path
  <1>2. Len(p) \in Nat /\ Len(p) # 0
    BY <1>1
  <1>3. \A i \in 1..Len(p) : p[i] \in Element
    BY <1>1, ElementOfSeq
  <1> QED
    BY <1>1, <1>2, <1>3 DEF Last, NoPath

LEMMA PathLength ==
  ASSUME NEW p \in Path
  PROVE  Len(p) \in Nat /\ Len(p) >= 1 /\ (Len(p) # 1 => Len(p) > 1)
  <1>1. Len(p) \in Nat \ {0}
    BY PathIs
  <1>2. PICK n : n = Len(p)
    OBVIOUS
  <1>3. n \in Nat \ {0}
    BY <1>1, <1>2
  <1>4. n >= 1 /\ (n # 1 => n > 1)
    BY <1>3
  <1> QED
    BY <1>1, <1>2, <1>4

LEMMA Start ==
  ASSUME NEW p \in Path, NEW n \in 1..Len(p)
  PROVE  /\ SubSeq(p, 1, n) \in Path
         /\ Len(SubSeq(p, 1, n)) = n
         /\ \A i \in 1..n : SubSeq(p, 1, n)[i] = p[i]
         /\ \A i \in 1..n : SubSeq(SubSeq(p, 1, n), 1, i) = SubSeq(p, 1, i)
  <1>1. p \in Seq(Element) /\ Len(p) \in Nat \ {0} /\ n \in Int /\ 1 <= n /\ n <= Len(p)
    BY PathIs
  <1>2. \A i \in 1..n : p[i] \in Element
    BY <1>1, ElementOfSeq
  <1>3. /\ SubSeq(p, 1, n) \in Seq(Element) /\ Len(SubSeq(p, 1, n)) = n
        /\ \A i \in 1..n : SubSeq(p, 1, n)[i] = p[i]
    <2>1. /\ SubSeq(p, 1, n) \in Seq(Element)
          /\ Len(SubSeq(p, 1, n)) = IF 1 <= n THEN n - 1 + 1 ELSE 0
          /\ \A i \in 1..(n - 1 + 1) : SubSeq(p, 1, n)[i] = p[1 + i - 1]
      BY <1>1, <1>2, SubSeqProperties
    <2> HIDE DEF Path
    <2>2. \A i \in 1..n : SubSeq(p, 1, n)[i] = p[i]
      <3> SUFFICES ASSUME NEW i \in 1..n PROVE SubSeq(p, 1, n)[i] = p[i]
        OBVIOUS
      <3>1. i \in 1..(n - 1 + 1) /\ 1 + i - 1 = i
        BY <1>1
      <3> QED
        BY <2>1, <3>1
    <2> QED
      BY <1>1, <2>1, <2>2
  <1>4. SubSeq(p, 1, n) # <<>>
    BY <1>1, <1>3
  <1>5. ASSUME NEW i \in 1..n PROVE SubSeq(SubSeq(p, 1, n), 1, i) = SubSeq(p, 1, i)
    <2>1. SubSeq(SubSeq(p, 1, n), 1, i) = SubSeq(p, 1 + 1 - 1, 1 + i - 1)
      <3>1. 1 \in 1..Len(p) /\ n \in 1..Len(p) /\ 1 \in 1..(n - 1 + 1) /\ i \in 1..(n - 1 + 1)
        BY <1>1
      <3> QED
        BY <1>1, <3>1, SubSeqOfSubSeq
    <2>2. 1 + 1 - 1 = 1 /\ 1 + i - 1 = i
      OBVIOUS
    <2> QED
      BY <2>1, <2>2
  <1> QED
    BY <1>3, <1>4, <1>5 DEF Path

LEMMA FrontOf ==
  ASSUME NEW p \in Path, Len(p) > 1
  PROVE  /\ Front(p) \in Path /\ Len(Front(p)) = Len(p) - 1
         /\ Front(p) = SubSeq(p, 1, Len(p) - 1)
         /\ \A i \in 1..(Len(p) - 1) : Front(p)[i] = p[i] /\ SubSeq(Front(p), 1, i) = SubSeq(p, 1, i)
  <1>1. Len(p) - 1 \in 1..Len(p)
    BY PathIs
  <1> QED
    BY <1>1, Start DEF Front

LEMMA NoFront == ASSUME NEW p \in Path, Len(p) = 1 PROVE Front(p) = NoPath
  BY SubSeqEmpty DEF Front, NoPath

LEMMA OneDeeper ==
  ASSUME NEW p \in Path, NEW e \in Element
  PROVE  /\ Append(p, e) \in Path /\ Len(Append(p, e)) = Len(p) + 1
         /\ Front(Append(p, e)) = p /\ Last(Append(p, e)) = e
         /\ \A i \in 1..Len(p) : Append(p, e)[i] = p[i] /\ SubSeq(Append(p, e), 1, i) = SubSeq(p, 1, i)
  <1> DEFINE a == Append(p, e)
  <1>1. p \in Seq(Element) /\ Len(p) \in Nat \ {0}
    BY PathIs
  <1>2. /\ a \in Seq(Element) /\ a # <<>> /\ Len(a) = Len(p) + 1
        /\ \A i \in 1..Len(p) : a[i] = p[i]
        /\ a[Len(p) + 1] = e
    <2>1. PICK S : S = Element
      OBVIOUS
    <2>2. p \in Seq(S) /\ e \in S
      BY <1>1, <2>1
    <2> QED
      BY <2>1, <2>2, OneBehind DEF Longer
  <1>3. a \in Path
    BY <1>2 DEF Path
  <1> HIDE DEF a
  <1>4. ASSUME NEW i \in 1..Len(p) PROVE SubSeq(a, 1, i) = SubSeq(p, 1, i)
    <2>1. i \in 1..Len(a)
      BY <1>1, <1>2
    <2>2. /\ SubSeq(a, 1, i) \in Seq(Element) /\ Len(SubSeq(a, 1, i)) = i
          /\ \A j \in 1..i : SubSeq(a, 1, i)[j] = a[j]
      BY <1>3, <2>1, Start, PathIs
    <2>3. /\ SubSeq(p, 1, i) \in Seq(Element) /\ Len(SubSeq(p, 1, i)) = i
          /\ \A j \in 1..i : SubSeq(p, 1, i)[j] = p[j]
      BY Start, PathIs
    <2>4. \A j \in 1..i : a[j] = p[j]
      BY <1>1, <1>2
    <2> HIDE DEF Path
    <2>5. PICK s : s = SubSeq(a, 1, i)
      OBVIOUS
    <2>6. PICK t : t = SubSeq(p, 1, i)
      OBVIOUS
    <2>7. s = t
      BY <2>2, <2>3, <2>4, <2>5, <2>6, SeqEqual
    <2> QED
      BY <2>5, <2>6, <2>7
  <1>5. Front(a) = SubSeq(a, 1, Len(p)) /\ Last(a) = e
    <2>1. Len(a) - 1 = Len(p)
      BY <1>1, <1>2
    <2> QED
      BY <1>2, <2>1 DEF Front, Last
  <1>6. SubSeq(p, 1, Len(p)) = p /\ Len(p) \in 1..Len(p)
    BY <1>1, SubSeqFull
  <1> QED
    BY <1>2, <1>3, <1>4, <1>5, <1>6 DEF a
LEMMA Least ==
  ASSUME NEW T \in SUBSET Nat, T # {}
  PROVE  \E m \in T : \A k \in T : m <= k
  <1>1. PICK x \in T : \A y \in T : ~(<<y, x>> \in OpToRel(<, Nat))
    BY NatLessThanWellFounded, WFMin
  <1>2. \A y \in T : ~(y < x)
    BY <1>1 DEF OpToRel
  <1> QED
    BY <1>2

LEMMA OneElement == ASSUME NEW e \in Element PROVE <<e>> \in Path /\ Len(<<e>>) = 1
  <1>1. PICK S : S = Element
    OBVIOUS
  <1>2. e \in S
    BY <1>1
  <1>3. <<e>> \in Seq(S) /\ Len(<<e>>) = 1 /\ <<e>> # <<>>
    <2>1. Append(<<>>, e) = <<e>>
      OBVIOUS
    <2>2. <<>> \in Seq(S) /\ Len(<<>>) = 0
      BY EmptySeq
    <2>3. PICK s : s = <<>>
      OBVIOUS
    <2>4. Append(s, e) \in Seq(S) /\ Append(s, e) # <<>> /\ Len(Append(s, e)) = 0 + 1
      BY <1>2, <2>2, <2>3, AppendProperties
    <2> QED
      BY <2>1, <2>3, <2>4
  <1> QED
    BY <1>1, <1>3 DEF Path

DotState == [kept : Path, mode : {"go", "done", "bad"}]

LEMMA DotStepTyped ==
  ASSUME NEW acc \in DotState, NEW e \in Element
  PROVE  DotStep(acc, e) \in DotState
  <1>1. acc.kept \in Path /\ acc.mode \in {"go", "done", "bad"}
    BY DEF DotState
  <1>2. Append(acc.kept, e) \in Path
    BY <1>1, OneDeeper
  <1>3. Len(acc.kept) # 1 => Front(acc.kept) \in Path
    <2>1. PICK p : p = acc.kept
      OBVIOUS
    <2>2. p \in Path
      BY <1>1, <2>1
    <2>2a. Len(p) # 1 => Len(p) > 1
      BY <2>2, PathLength
    <2>3. Len(p) # 1 => Front(p) \in Path
      BY <2>2, <2>2a, FrontOf
    <2> QED
      BY <2>1, <2>3
  <1>4. PICK a, f : a = Append(acc.kept, e) /\ f = Front(acc.kept)
    OBVIOUS
  <1>5. /\ [acc EXCEPT !.kept = a] \in DotState
        /\ [acc EXCEPT !.mode = "done"] \in DotState
        /\ [acc EXCEPT !.mode = "bad"] \in DotState
        /\ Len(acc.kept) # 1 => [acc EXCEPT !.kept = f] \in DotState
    <2> HIDE DEF Path
    <2> QED
      BY <1>1, <1>2, <1>3, <1>4 DEF DotState
  <1> HIDE DEF DotState
  <1> QED
    BY <1>4, <1>5 DEF DotStep

LEMMA DotsAre ==
  ASSUME NEW path \in Path
  PROVE  \E acc \in [1..Len(path) -> DotState] :
           /\ acc[1] = [kept |-> <<path[1]>>, mode |-> "go"]
           /\ \A n \in 2..Len(path) : acc[n] = DotStep(acc[n - 1], path[n])
           /\ Dots(path) = acc[Len(path)]
  <1> DEFINE first == [kept |-> <<path[1]>>, mode |-> "go"]
             Body(g, n) == IF n = 1 THEN first ELSE DotStep(g[n - 1], path[n])
             Good(g, m) == g \in [1..m -> DotState] /\ \A n \in 1..m : g[n] = Body(g, n)
             acc == CHOOSE g : g = [n \in 1..Len(path) |-> Body(g, n)]
  <1>1. /\ Len(path) \in Nat \ {0}
        /\ \A i \in 1..Len(path) : path[i] \in Element
    BY PathIs
  <1>2. first \in DotState
    <2>1. 1 \in 1..Len(path)
      BY <1>1
    <2>2. <<path[1]>> \in Path
      BY <1>1, <2>1, OneElement
    <2> HIDE DEF Path
    <2> QED
      BY <2>2 DEF DotState
  <1> HIDE DEF first, DotState, Path
  <1>3. \A m \in 1..Len(path) : \E g : Good(g, m)
    <2> DEFINE T == {m \in 1..Len(path) : ~\E g : Good(g, m)}
    <2> SUFFICES ASSUME T # {} PROVE FALSE
      OBVIOUS
    <2>1. T \in SUBSET Nat
      OBVIOUS
    <2> HIDE DEF T
    <2>2. PICK m \in T : \A k \in T : m <= k
      BY <2>1, Least
    <2>3. m \in 1..Len(path) /\ ~\E g : Good(g, m)
      BY <2>2 DEF T
    <2>4. CASE m = 1
      <3> DEFINE h == [n \in 1..1 |-> first]
      <3>1. Good(h, 1)
        BY <1>2
      <3> QED
        BY <2>3, <2>4, <3>1
    <2>5. CASE m # 1
      <3>1. m - 1 \in 1..Len(path) /\ m - 1 \notin T
        BY <1>1, <2>2, <2>3, <2>5
      <3>2. PICK g : Good(g, m - 1)
        BY <3>1 DEF T
      <3> DEFINE h == [n \in 1..m |-> IF n = m THEN DotStep(g[m - 1], path[m]) ELSE g[n]]
      <3>3. g[m - 1] \in DotState /\ path[m] \in Element
        BY <1>1, <2>3, <2>5, <3>2
      <3>4. DotStep(g[m - 1], path[m]) \in DotState
        BY <3>3, DotStepTyped
      <3>5. h \in [1..m -> DotState]
        BY <2>3, <2>5, <3>2, <3>4
      <3>6. ASSUME NEW n \in 1..m PROVE h[n] = Body(h, n)
        <4>1. CASE n = m
          BY <2>3, <2>5, <4>1
        <4>2. CASE n # m
          <5>1. n \in 1..(m - 1) /\ h[n] = g[n] /\ g[n] = Body(g, n)
            BY <2>3, <2>5, <3>2, <4>2
          <5>2. n # 1 => h[n - 1] = g[n - 1]
            BY <2>3, <5>1
          <5> QED
            BY <5>1, <5>2
        <4> QED
          BY <4>1, <4>2
      <3>7. Good(h, m)
        BY <3>5, <3>6
      <3> QED
        BY <2>3, <3>7
    <2> QED
      BY <2>4, <2>5
  <1>4. PICK g : Good(g, Len(path))
    BY <1>1, <1>3
  <1>5. g = [n \in 1..Len(path) |-> Body(g, n)]
    BY <1>4
  <1>6. acc = [n \in 1..Len(path) |-> Body(acc, n)]
    <2> DEFINE Is(f) == f = [n \in 1..Len(path) |-> Body(f, n)]
    <2>1. Is(g)
      BY <1>5
    <2>2. acc = CHOOSE f : Is(f)
      OBVIOUS
    <2> HIDE DEF Is
    <2>3. Is(CHOOSE f : Is(f))
      BY <2>1
    <2> HIDE DEF acc
    <2>4. Is(acc)
      BY <2>2, <2>3
    <2> QED
      BY <2>4 DEF Is
  <1>7. Dots(path) = acc[Len(path)]
    BY DEF Dots, first
  <1> HIDE DEF acc
  <1>8. \A n \in 1..Len(path) : acc[n] \in DotState
    <2> DEFINE T == {n \in 1..Len(path) : acc[n] \notin DotState}
    <2> SUFFICES ASSUME T # {} PROVE FALSE
      OBVIOUS
    <2>1. T \in SUBSET Nat
      OBVIOUS
    <2> HIDE DEF T
    <2>2. PICK m \in T : \A k \in T : m <= k
      BY <2>1, Least
    <2>3. m \in 1..Len(path) /\ acc[m] \notin DotState
      BY <2>2 DEF T
    <2>4. acc[m] = Body(acc, m)
      BY <1>6, <2>3
    <2>5. m # 1
      BY <1>2, <2>3, <2>4
    <2>6. m - 1 \in 1..Len(path) /\ m - 1 \notin T
      BY <1>1, <2>2, <2>3, <2>5
    <2>7. acc[m - 1] \in DotState
      BY <2>6 DEF T
    <2> QED
      BY <1>1, <2>3, <2>4, <2>5, <2>7, DotStepTyped
  <1>9. acc \in [1..Len(path) -> DotState]
    BY <1>6, <1>8
  <1>10. acc[1] = [kept |-> <<path[1]>>, mode |-> "go"]
    BY <1>1, <1>6 DEF first
  <1>11. \A n \in 2..Len(path) : acc[n] = DotStep(acc[n - 1], path[n])
    BY <1>1, <1>6
  <1> QED
    BY <1>7, <1>9, <1>10, <1>11

LEMMA DotsTyped == ASSUME NEW path \in Path PROVE Dots(path) \in DotState
  <1>1. Len(path) \in 1..Len(path)
    BY PathIs
  <1> QED
    BY <1>1, DotsAre

LEMMA NameStepTyped ==
  ASSUME NEW kept \in Path, NEW e \in Element
  PROVE  NameStep(kept, e) \in Path
  <1>1. Append(kept, e) \in Path
    BY OneDeeper
  <1>2. Len(kept) > 1 => Front(kept) \in Path
    BY FrontOf
  <1> HIDE DEF Path
  <1> QED
    BY <1>1, <1>2 DEF NameStep

LEMMA NormalAre ==
  ASSUME NEW path \in Path
  PROVE  \E acc \in [1..Len(path) -> Path] :
           /\ acc[1] = <<path[1]>>
           /\ \A n \in 2..Len(path) :
                acc[n] = IF n = Len(path) THEN Append(acc[n - 1], path[n]) ELSE NameStep(acc[n - 1], path[n])
           /\ normalize_path(path) = acc[Len(path)]
  <1> DEFINE first == <<path[1]>>
             Step(n, kept) == IF n = Len(path) THEN Append(kept, path[n]) ELSE NameStep(kept, path[n])
             Body(g, n) == IF n = 1 THEN first ELSE Step(n, g[n - 1])
             Good(g, m) == g \in [1..m -> Path] /\ \A n \in 1..m : g[n] = Body(g, n)
             acc == CHOOSE g : g = [n \in 1..Len(path) |-> Body(g, n)]
  <1>1. /\ Len(path) \in Nat \ {0}
        /\ \A i \in 1..Len(path) : path[i] \in Element
    BY PathIs
  <1>2. first \in Path
    <2>1. 1 \in 1..Len(path)
      BY <1>1
    <2> QED
      BY <1>1, <2>1, OneElement
  <1>2a. ASSUME NEW m \in 1..Len(path), NEW kept \in Path PROVE Step(m, kept) \in Path
    BY <1>1, NameStepTyped, OneDeeper
  <1> HIDE DEF first, Step, Path
  <1>3. \A m \in 1..Len(path) : \E g : Good(g, m)
    <2> DEFINE T == {m \in 1..Len(path) : ~\E g : Good(g, m)}
    <2> SUFFICES ASSUME T # {} PROVE FALSE
      OBVIOUS
    <2>1. T \in SUBSET Nat
      OBVIOUS
    <2> HIDE DEF T
    <2>2. PICK m \in T : \A k \in T : m <= k
      BY <2>1, Least
    <2>3. m \in 1..Len(path) /\ ~\E g : Good(g, m)
      BY <2>2 DEF T
    <2>4. CASE m = 1
      <3> DEFINE h == [n \in 1..1 |-> first]
      <3>1. Good(h, 1)
        BY <1>2
      <3> QED
        BY <2>3, <2>4, <3>1
    <2>5. CASE m # 1
      <3>1. m - 1 \in 1..Len(path) /\ m - 1 \notin T
        BY <1>1, <2>2, <2>3, <2>5
      <3>2. PICK g : Good(g, m - 1)
        BY <3>1 DEF T
      <3> DEFINE h == [n \in 1..m |-> IF n = m THEN Step(m, g[m - 1]) ELSE g[n]]
      <3>3. g[m - 1] \in Path /\ path[m] \in Element
        BY <1>1, <2>3, <2>5, <3>2
      <3>4. Step(m, g[m - 1]) \in Path
        BY <1>2a, <2>3, <3>3
      <3>5. h \in [1..m -> Path]
        BY <2>3, <2>5, <3>2, <3>4
      <3>6. ASSUME NEW n \in 1..m PROVE h[n] = Body(h, n)
        <4>1. CASE n = m
          BY <2>3, <2>5, <4>1
        <4>2. CASE n # m
          <5>1. n \in 1..(m - 1) /\ h[n] = g[n] /\ g[n] = Body(g, n)
            BY <2>3, <2>5, <3>2, <4>2
          <5>2. n # 1 => h[n - 1] = g[n - 1]
            BY <2>3, <5>1
          <5> QED
            BY <5>1, <5>2
        <4> QED
          BY <4>1, <4>2
      <3>7. Good(h, m)
        BY <3>5, <3>6
      <3> QED
        BY <2>3, <3>7
    <2> QED
      BY <2>4, <2>5
  <1>4. PICK g : Good(g, Len(path))
    BY <1>1, <1>3
  <1>5. g = [n \in 1..Len(path) |-> Body(g, n)]
    BY <1>4
  <1>6. acc = [n \in 1..Len(path) |-> Body(acc, n)]
    <2> DEFINE Is(f) == f = [n \in 1..Len(path) |-> Body(f, n)]
    <2>1. Is(g)
      BY <1>5
    <2>2. acc = CHOOSE f : Is(f)
      OBVIOUS
    <2> HIDE DEF Is
    <2>3. Is(CHOOSE f : Is(f))
      BY <2>1
    <2> HIDE DEF acc
    <2>4. Is(acc)
      BY <2>2, <2>3
    <2> QED
      BY <2>4 DEF Is
  <1>7. normalize_path(path) = acc[Len(path)]
    BY DEF normalize_path, first, Step
  <1> HIDE DEF acc
  <1>8. \A n \in 1..Len(path) : acc[n] \in Path
    <2> DEFINE T == {n \in 1..Len(path) : acc[n] \notin Path}
    <2> SUFFICES ASSUME T # {} PROVE FALSE
      OBVIOUS
    <2>1. T \in SUBSET Nat
      OBVIOUS
    <2> HIDE DEF T
    <2>2. PICK m \in T : \A k \in T : m <= k
      BY <2>1, Least
    <2>3. m \in 1..Len(path) /\ acc[m] \notin Path
      BY <2>2 DEF T
    <2>4. acc[m] = Body(acc, m)
      BY <1>6, <2>3
    <2>5. m # 1
      BY <1>2, <2>3, <2>4
    <2>6. m - 1 \in 1..Len(path) /\ m - 1 \notin T
      BY <1>1, <2>2, <2>3, <2>5
    <2>7. acc[m - 1] \in Path
      BY <2>6 DEF T
    <2> QED
      BY <1>1, <2>3, <2>4, <2>5, <2>7, <1>2a
  <1>9. acc \in [1..Len(path) -> Path]
    BY <1>6, <1>8
  <1>10. acc[1] = <<path[1]>>
    BY <1>1, <1>6 DEF first
  <1>11. \A n \in 2..Len(path) : acc[n] = Step(n, acc[n - 1])
    BY <1>1, <1>6
  <1> QED
    BY <1>7, <1>9, <1>10, <1>11 DEF Step

LEMMA NormalTyped == ASSUME NEW path \in Path PROVE normalize_path(path) \in Path
  <1>1. Len(path) \in 1..Len(path)
    BY PathIs
  <1> QED
    BY <1>1, NormalAre

LEMMA TypedPath ==
  ASSUME NEW p \in Path, NEW type PROVE Typed(p, type) \in Path
  <1>1. Append(p, "") \in Path
    <2>1. "" \in Element
      BY FilesAssumption
    <2>2. PICK e : e = ""
      OBVIOUS
    <2> QED
      BY <2>1, <2>2, OneDeeper
  <1>2. Len(p) > 1 => Front(p) \in Path
    BY FrontOf
  <1> HIDE DEF Path
  <1> QED
    BY <1>1, <1>2 DEF Typed

LEMMA BarePath ==
  ASSUME NEW p \in Path PROVE Bare(p) \in Path
  <1>1. Len(p) > 1 => Front(p) \in Path
    BY FrontOf
  <1>2. ASSUME Len(p) > 1 PROVE SubSeq(p, 1, IF Len(p) = 2 THEN 1 ELSE Len(p) - 2) \in Path
    <2>1. PICK n : n = IF Len(p) = 2 THEN 1 ELSE Len(p) - 2
      OBVIOUS
    <2>2. n \in 1..Len(p)
      <3>1. PICK k : k = Len(p)
        OBVIOUS
      <3>2. k \in Nat /\ k > 1
        BY <1>2, <3>1, PathLength
      <3>3. n \in 1..k
        BY <2>1, <3>1, <3>2
      <3> QED
        BY <3>1, <3>3
    <2>3. SubSeq(p, 1, n) \in Path
      BY <2>2, Start
    <2> QED
      BY <2>1, <2>3
  <1> HIDE DEF Path
  <1> QED
    BY <1>1, <1>2 DEF Bare

\* Longer a path stands any sequence.
LEMMA JoinedPath ==
  ASSUME NEW p \in Seq(Element), NEW q \in Seq(Element), p # <<>> \/ q # <<>>
  PROVE  p \o q \in Path
  <1>1. PICK S : S = Element
    OBVIOUS
  <1>2. p \in Seq(S) /\ q \in Seq(S)
    BY <1>1
  <1>3. p \o q \in Seq(S)
    BY <1>2, ConcatProperties
  <1>4. p \o q # <<>>
    BY <1>2, ConcatEqualIffEmpty
  <1> QED
    BY <1>1, <1>3, <1>4 DEF Path

LEMMA JoinedTyped ==
  ASSUME currdir \in Path, NEW rel \in Path PROVE Joined(rel) \in Path
  <1>1. currdir[1] \in Element /\ rel \in Seq(Element) /\ rel # <<>> /\ currdir \in Seq(Element)
    <2>1. 1 \in 1..Len(currdir)
      BY PathLength
    <2> QED
      BY <2>1, PathIs DEF NoPath
  <1>2. <<currdir[1]>> \o Tail(rel) \in Path
    <2>1. <<currdir[1]>> \in Seq(Element) /\ <<currdir[1]>> # <<>>
      BY <1>1, OneElement, PathIs DEF NoPath
    <2>2. Tail(rel) \in Seq(Element)
      BY <1>1, HeadTailProperties
    <2>3. PICK p, q : p = <<currdir[1]>> /\ q = Tail(rel)
      OBVIOUS
    <2> QED
      BY <2>1, <2>2, <2>3, JoinedPath
  <1>3. Front(currdir) \o rel \in Path
    <2>1. Front(currdir) \in Seq(Element)
      <3>1. CASE Len(currdir) > 1
        BY <3>1, FrontOf, PathIs
      <3>2. CASE Len(currdir) = 1
        BY <3>2, NoFront, EmptySeq DEF NoPath
      <3> QED
        BY <3>1, <3>2, PathLength
    <2>2. PICK p : p = Front(currdir)
      OBVIOUS
    <2> QED
      BY <1>1, <2>1, <2>2, JoinedPath
  <1> HIDE DEF Path
  <1> QED
    BY <1>2, <1>3 DEF Joined

LEMMA handlepathTyped ==
  ASSUME currdir \in Path, NEW rel \in Args, NEW type, NEW valid \in BOOLEAN,
         handlepath(rel, type, valid) # NoPath
  PROVE  handlepath(rel, type, valid) \in Path
  <1> DEFINE j == Joined(rel)
             d == Dots(j)
             t == Typed(d.kept, type)
             p == normalize_path(t)
  <1>1. rel \in Path
    BY FilesAssumption
  <1>2. j \in Path
    BY <1>1, JoinedTyped
  <1> HIDE DEF j
  <1>3. d.kept \in Path
    BY <1>2, DotsTyped DEF DotState
  <1> HIDE DEF d
  <1>4. t \in Path
    BY <1>3, TypedPath
  <1> HIDE DEF t
  <1>5. p \in Path
    BY <1>4, NormalTyped
  <1>6. handlepath(rel, type, valid) \in {NoPath, p}
    BY DEF handlepath, p, t, d, j
  <1> QED
    BY <1>5, <1>6
-----------------------------------------------------------------------------
(* The tree of directories.                                                 *)

LEMMA SamePath ==
  ASSUME NEW p \in Path, NEW q \in Path, Len(p) = Len(q), \A i \in 1..Len(p) : p[i] = q[i]
  PROVE  p = q
  BY SeqEqual, PathIs

LEMMA PrefixIs ==
  ASSUME NEW p \in Path, NEW q \in Path
  PROVE  /\ IsPrefix(p, q) <=> Len(p) <= Len(q) /\ p = SubSeq(q, 1, Len(p))
         /\ IsPrefix(p, q) <=> Len(p) <= Len(q) /\ \A i \in 1..Len(p) : p[i] = q[i]
         /\ IsStrictPrefix(p, q) <=> Len(p) < Len(q) /\ p = SubSeq(q, 1, Len(p))
  <1>1. SubSeq(p, 1, Len(p)) = p /\ SubSeq(q, 1, Len(q)) = q
    BY PathIs, SubSeqFull
  <1>2. IsPrefix(p, q) <=> Len(p) <= Len(q) /\ p = SubSeq(q, 1, Len(p))
    <2> HIDE DEF Path
    <2> QED
      BY <1>1 DEF IsPrefix
  <1>3. ASSUME Len(p) <= Len(q)
        PROVE  p = SubSeq(q, 1, Len(p)) <=> \A i \in 1..Len(p) : p[i] = q[i]
    <2>1. Len(p) \in 1..Len(q)
      BY <1>3, PathLength
    <2>2. PICK s : s = SubSeq(q, 1, Len(p))
      OBVIOUS
    <2>3. s \in Path /\ Len(s) = Len(p) /\ \A i \in 1..Len(p) : s[i] = q[i]
      BY <2>1, <2>2, Start
    <2> HIDE DEF Path
    <2> QED
      BY <2>2, <2>3, SamePath
  <1>4. Len(p) \in Nat /\ Len(q) \in Nat
    BY PathLength
  <1>5. Len(p) = Len(q) /\ p = SubSeq(q, 1, Len(p)) => p = q
    BY <1>1
  <1> HIDE DEF Path
  <1>6. PICK s : s = SubSeq(q, 1, Len(p))
    OBVIOUS
  <1>7. IsStrictPrefix(p, q) <=> IsPrefix(p, q) /\ p # q
    BY DEF IsStrictPrefix
  <1>8. IsStrictPrefix(p, q) <=> Len(p) < Len(q) /\ p = s
    BY <1>2, <1>4, <1>5, <1>6, <1>7
  <1> QED
    BY <1>2, <1>3, <1>6, <1>8

Tree(ds, fl) == ds \subseteq Path /\ fl \subseteq Path \ ds /\ Rooted(ds, fl)

LEMMA UnderOf ==
  ASSUME NEW ds, NEW fl, Tree(ds, fl), NEW p \in Path, Front(p) \in ds, NEW n \in 1..(Len(p) - 1)
  PROVE  SubSeq(p, 1, n) \in ds
  <1>1. Len(p) > 1 /\ Len(p) \in Nat
    BY PathLength
  <1>2. PICK f : f = Front(p)
    OBVIOUS
  <1>3. /\ f \in ds /\ f \in Path /\ Len(f) = Len(p) - 1 /\ f = SubSeq(p, 1, Len(p) - 1)
        /\ SubSeq(f, 1, n) = SubSeq(p, 1, n)
    BY <1>1, <1>2, FrontOf
  <1>4. n = Len(p) - 1 \/ n \in 1..(Len(f) - 1)
    BY <1>1, <1>3
  <1>5. ASSUME n \in 1..(Len(f) - 1) PROVE SubSeq(f, 1, n) \in ds
    BY <1>3, <1>5 DEF Tree, Rooted
  <1> QED
    BY <1>3, <1>4, <1>5

LEMMA OneNew ==
  ASSUME NEW ds, NEW fl, Tree(ds, fl), NEW p \in Path, p \notin ds \cup fl, Front(p) \in ds
  PROVE  Tree(ds \cup {p}, fl) /\ Tree(ds, fl \cup {p})
  <1>1. \A n \in 1..(Len(p) - 1) : SubSeq(p, 1, n) \in ds
    BY UnderOf
  <1>2. Rooted(ds \cup {p}, fl) /\ Rooted(ds, fl \cup {p})
    BY <1>1 DEF Tree, Rooted
  <1> QED
    BY <1>2 DEF Tree

LEMMA FewerFiles ==
  ASSUME NEW ds, NEW fl, Tree(ds, fl), NEW less \in SUBSET fl
  PROVE  Tree(ds, less)
  BY DEF Tree, Rooted

LEMMA OneGone ==
  ASSUME NEW ds, NEW fl, Tree(ds, fl), NEW p \in Path, \A q \in ds \cup fl : ~IsStrictPrefix(p, q)
  PROVE  Tree(ds \ {p}, fl)
  <1> SUFFICES ASSUME NEW q \in (ds \ {p}) \cup fl, NEW n \in 1..(Len(q) - 1)
               PROVE  SubSeq(q, 1, n) \in ds \ {p}
    BY DEF Tree, Rooted
  <1>1. q \in Path /\ q \in ds \cup fl
    BY DEF Tree
  <1>2. SubSeq(q, 1, n) \in ds
    BY <1>1 DEF Tree, Rooted
  <1>3. ASSUME p = SubSeq(q, 1, n) PROVE FALSE
    <2>1. n \in 1..Len(q) /\ n < Len(q)
      BY <1>1, PathLength
    <2>2. Len(p) = n
      BY <1>1, <1>3, <2>1, Start
    <2>3. IsStrictPrefix(p, q)
      BY <1>1, <1>3, <2>1, <2>2, PrefixIs
    <2> QED
      BY <1>1, <2>3
  <1> QED
    BY <1>2, <1>3
-----------------------------------------------------------------------------
(* A move.                                                                  *)

\* y is q and what is behind p in x.
Moved(x, y, p, q) ==
  /\ y \in Path /\ Len(y) = Len(q) + Len(x) - Len(p)
  /\ \A i \in 1..Len(q) : y[i] = q[i]
  /\ \A i \in (Len(q) + 1)..Len(y) : y[i] = x[i - Len(q) + Len(p)]

LEMMA MovedIs ==
  ASSUME NEW p \in Path, NEW q \in Path, NEW x \in Path, IsPrefix(p, x)
  PROVE  Moved(x, MovedPath(x, p, q), p, q)
  <1> DEFINE y == MovedPath(x, p, q)
  <1>1. PICK k, m, n : k = Len(p) /\ m = Len(q) /\ n = Len(x)
    OBVIOUS
  <1>2. k \in Nat /\ m \in Nat /\ n \in Nat /\ k >= 1 /\ m >= 1 /\ k <= n
    BY <1>1, PathLength, PrefixIs
  <1>3. /\ q \in Seq(Element) /\ \A i \in (k + 1)..n : x[i] \in Element
    BY <1>1, <1>2, PathIs
  <1> HIDE DEF Path
  <1>4. PICK s : s = SubSeq(x, k + 1, n)
    OBVIOUS
  <1>5. /\ s \in Seq(Element)
        /\ Len(s) = IF k + 1 <= n THEN n - (k + 1) + 1 ELSE 0
        /\ \A i \in 1..(n - (k + 1) + 1) : s[i] = x[k + 1 + i - 1]
    BY <1>2, <1>3, <1>4, SubSeqProperties
  <1>6. Len(s) = n - k /\ \A i \in 1..(n - k) : s[i] = x[k + i]
    <2>1. \A i \in 1..(n - k) : i \in 1..(n - (k + 1) + 1) /\ k + 1 + i - 1 = k + i
      BY <1>2
    <2> QED
      BY <1>2, <1>5, <2>1
  <1>7. /\ q \o s \in Seq(Element)
        /\ Len(q \o s) = Len(q) + Len(s)
        /\ \A i \in 1..(Len(q) + Len(s)) : (q \o s)[i] = IF i <= Len(q) THEN q[i] ELSE s[i - Len(q)]
    BY <1>3, <1>5, ConcatProperties
  <1>8. y = q \o s
    BY <1>1, <1>4 DEF MovedPath
  <1>9. PICK z : z = q \o s
    OBVIOUS
  <1>10. /\ z \in Seq(Element) /\ Len(z) = m + n - k /\ z # <<>>
         /\ \A i \in 1..(m + n - k) : z[i] = IF i <= m THEN q[i] ELSE s[i - m]
    <2>1. z \in Seq(Element) /\ Len(z) = m + (n - k)
          /\ \A i \in 1..(m + (n - k)) : z[i] = IF i <= m THEN q[i] ELSE s[i - m]
      BY <1>1, <1>6, <1>7, <1>9
    <2>2. m + (n - k) = m + n - k /\ m + n - k >= 1
      BY <1>2
    <2> QED
      BY <2>1, <2>2
  <1>11. \A i \in 1..m : z[i] = q[i]
    BY <1>2, <1>10
  <1>12. ASSUME NEW i \in (m + 1)..(m + n - k) PROVE z[i] = x[i - m + k]
    <2>1. i \in 1..(m + n - k) /\ ~(i <= m) /\ i - m \in 1..(n - k) /\ k + (i - m) = i - m + k
      BY <1>2
    <2>2. z[i] = s[i - m] /\ s[i - m] = x[k + (i - m)]
      BY <1>6, <1>10, <2>1
    <2> QED
      BY <2>1, <2>2
  <1>13. z \in Path
    BY <1>10 DEF Path
  <1>14. y = z
    BY <1>8, <1>9 DEF y
  <1> HIDE DEF y
  <1>15. Moved(x, y, p, q)
    BY <1>1, <1>10, <1>11, <1>12, <1>13, <1>14 DEF Moved
  <1> QED
    BY <1>15 DEF y

LEMMA MovedApart ==
  ASSUME NEW p \in Path, NEW q \in Path, NEW x \in Path, NEW z \in Path,
         IsPrefix(p, x), IsPrefix(p, z), MovedPath(x, p, q) = MovedPath(z, p, q)
  PROVE  x = z
  <1>1. PICK y : y = MovedPath(x, p, q)
    OBVIOUS
  <1>2. /\ Len(y) = Len(q) + Len(x) - Len(p) /\ Len(y) = Len(q) + Len(z) - Len(p)
        /\ \A i \in (Len(q) + 1)..Len(y) : y[i] = x[i - Len(q) + Len(p)]
        /\ \A i \in (Len(q) + 1)..Len(y) : y[i] = z[i - Len(q) + Len(p)]
    <2>1. y = MovedPath(z, p, q)
      BY <1>1
    <2> QED
      <3>1. Moved(x, MovedPath(x, p, q), p, q)
        BY MovedIs
      <3>2. Moved(z, MovedPath(z, p, q), p, q)
        BY MovedIs
      <3>3. Moved(x, y, p, q)
        BY <1>1, <3>1
      <3>4. Moved(z, y, p, q)
        BY <2>1, <3>2
      <3> QED
        BY <3>3, <3>4 DEF Moved
  <1>3. PICK k, m, n : k = Len(p) /\ m = Len(q) /\ n = Len(x)
    OBVIOUS
  <1>4. k \in Nat /\ m \in Nat /\ n \in Nat /\ Len(z) \in Nat
    BY <1>3, PathLength
  <1>5. \A i \in 1..k : x[i] = p[i] /\ z[i] = p[i]
    BY <1>3, PrefixIs
  <1> HIDE DEF Path
  <1>6. Len(z) = n /\ Len(y) = m + n - k
    BY <1>2, <1>3, <1>4
  <1>7. ASSUME NEW i \in 1..n PROVE x[i] = z[i]
    <2>1. CASE i <= k
      BY <1>4, <1>5, <2>1
    <2>2. CASE i > k
      <3>1. i - k + m \in (m + 1)..(m + n - k) /\ (i - k + m) - m + k = i
        BY <1>4, <2>2
      <3> QED
        BY <1>2, <1>3, <1>6, <3>1
    <2> QED
      BY <1>4, <2>1, <2>2
  <1> QED
    BY <1>3, <1>6, <1>7, SamePath

\* The start of a moved path is the start of its new place or a moved one.
LEMMA MovedStart ==
  ASSUME NEW p \in Path, NEW q \in Path, NEW x \in Path, IsPrefix(p, x),
         NEW n \in 1..(Len(MovedPath(x, p, q)) - 1)
  PROVE  \/ n < Len(q) /\ SubSeq(MovedPath(x, p, q), 1, n) = SubSeq(q, 1, n)
         \/ \E m \in 1..(Len(x) - 1) :
              /\ IsPrefix(p, SubSeq(x, 1, m))
              /\ SubSeq(MovedPath(x, p, q), 1, n) = MovedPath(SubSeq(x, 1, m), p, q)
  <1>1. PICK y : y = MovedPath(x, p, q)
    OBVIOUS
  <1>2. PICK a, b, c : a = Len(p) /\ b = Len(q) /\ c = Len(x)
    OBVIOUS
  <1>3. /\ a \in Nat /\ b \in Nat /\ c \in Nat /\ a <= c /\ a >= 1 /\ b >= 1
    BY <1>2, PathLength, PrefixIs
  <1>4. /\ y \in Path /\ Len(y) = b + c - a /\ n \in 1..(b + c - a - 1) /\ n \in 1..Len(y)
        /\ \A i \in 1..b : y[i] = q[i]
        /\ \A i \in (b + 1)..(b + c - a) : y[i] = x[i - b + a]
    <2>1. /\ y \in Path /\ Len(y) = b + c - a /\ n \in 1..(Len(y) - 1)
          /\ \A i \in 1..b : y[i] = q[i]
          /\ \A i \in (b + 1)..Len(y) : y[i] = x[i - b + a]
      <3>1. /\ y \in Path /\ Len(y) = Len(q) + Len(x) - Len(p)
            /\ \A i \in 1..Len(q) : y[i] = q[i]
            /\ \A i \in (Len(q) + 1)..Len(y) : y[i] = x[i - Len(q) + Len(p)]
        <4>1. Moved(x, MovedPath(x, p, q), p, q)
          BY MovedIs
        <4>2. Moved(x, y, p, q)
          BY <1>1, <4>1
        <4> QED
          BY <4>2 DEF Moved
      <3>2. n \in 1..(Len(y) - 1)
        BY <1>1
      <3> QED
        BY <1>2, <3>1, <3>2, Zenon
    <2> HIDE DEF Path
    <2> QED
      BY <1>3, <2>1
  <1>5. PICK s : s = SubSeq(y, 1, n)
    OBVIOUS
  <1>6. s \in Path /\ Len(s) = n /\ \A i \in 1..n : s[i] = y[i]
    BY <1>4, <1>5, Start
  <1> HIDE DEF Path
  <1>7. CASE n < b
    <2>1. n \in 1..Len(q)
      BY <1>2, <1>3, <1>7
    <2>2. PICK t : t = SubSeq(q, 1, n)
      OBVIOUS
    <2>3. t \in Path /\ Len(t) = n /\ \A i \in 1..n : t[i] = q[i]
      BY <2>1, <2>2, Start
    <2>4. \A i \in 1..n : s[i] = t[i]
      BY <1>3, <1>4, <1>6, <1>7, <2>3
    <2>5. s = t
      BY <1>6, <2>3, <2>4, SamePath
    <2> QED
      BY <1>1, <1>2, <1>5, <1>7, <2>2, <2>5
  <1>8. CASE n >= b
    <2> DEFINE m == n - b + a
    <2>1. m \in 1..(c - 1) /\ m \in 1..Len(x) /\ a <= m /\ m \in Nat
      BY <1>2, <1>3, <1>4, <1>8
    <2>2. PICK t : t = SubSeq(x, 1, m)
      OBVIOUS
    <2>3. t \in Path /\ Len(t) = m /\ \A i \in 1..m : t[i] = x[i]
      BY <2>1, <2>2, Start
    <2>4. IsPrefix(p, t)
      <3>1. \A i \in 1..a : p[i] = x[i]
        BY <1>2, PrefixIs
      <3>2. \A i \in 1..a : p[i] = t[i]
        BY <1>3, <2>1, <2>3, <3>1
      <3> QED
        BY <1>2, <2>1, <2>3, <3>2, PrefixIs
    <2>5. PICK z : z = MovedPath(t, p, q)
      OBVIOUS
    <2>6. /\ z \in Path /\ Len(z) = b + m - a
          /\ \A i \in 1..b : z[i] = q[i]
          /\ \A i \in (b + 1)..Len(z) : z[i] = t[i - b + a]
      <3>1. /\ z \in Path /\ Len(z) = Len(q) + Len(t) - Len(p)
            /\ \A i \in 1..Len(q) : z[i] = q[i]
            /\ \A i \in (Len(q) + 1)..Len(z) : z[i] = t[i - Len(q) + Len(p)]
        <4>1. Moved(t, MovedPath(t, p, q), p, q)
          BY <2>3, <2>4, MovedIs
        <4>2. Moved(t, z, p, q)
          BY <2>5, <4>1
        <4> QED
          BY <4>2 DEF Moved
      <3> QED
        BY <1>2, <2>3, <3>1, Zenon
    <2>7. b + m - a = n
      BY <1>3, <1>4
    <2>8. ASSUME NEW i \in 1..n PROVE s[i] = z[i]
      <3>1. CASE i <= b
        <4>1. i \in 1..b
          BY <1>3, <3>1
        <4>2. s[i] = q[i]
          BY <1>4, <1>6, <4>1
        <4> QED
          BY <2>6, <4>1, <4>2
      <3>2. CASE i > b
        <4>1. i \in (b + 1)..n /\ i \in (b + 1)..(b + c - a) /\ i - b + a \in 1..m
          BY <1>3, <1>4, <3>2
        <4> QED
          BY <1>4, <1>6, <2>3, <2>6, <2>7, <4>1
      <3> QED
        BY <1>3, <3>1, <3>2
    <2>9. s = z
      BY <1>6, <2>6, <2>7, <2>8, SamePath
    <2> QED
      BY <1>1, <1>2, <1>5, <2>1, <2>2, <2>4, <2>5, <2>9
  <1> QED
    BY <1>3, <1>4, <1>7, <1>8
\* Nothing stands below a path that is no directory.
LEMMA NothingBelow ==
  ASSUME NEW ds, NEW fl, Tree(ds, fl), NEW q \in Path, q \notin ds, NEW x \in ds \cup fl, IsPrefix(q, x)
  PROVE  x = q
  <1>1. x \in Path
    BY DEF Tree
  <1>2. Len(q) <= Len(x) /\ q = SubSeq(x, 1, Len(q)) /\ Len(x) \in Nat /\ Len(q) \in Nat /\ Len(q) >= 1
    BY <1>1, PrefixIs, PathLength
  <1>3. CASE Len(q) = Len(x)
    BY <1>1, <1>2, <1>3, PathIs, SubSeqFull
  <1>4. CASE Len(q) < Len(x)
    <2>1. PICK n : n = Len(q)
      OBVIOUS
    <2>2. n \in 1..(Len(x) - 1)
      BY <1>2, <1>4, <2>1
    <2>3. SubSeq(x, 1, n) \in ds
      BY <2>2 DEF Tree, Rooted
    <2> QED
      BY <1>2, <2>1, <2>3
  <1> QED
    BY <1>2, <1>3, <1>4

\* A move of p to q.
Moves(p, q) ==
  /\ p \in Path /\ q \in Path /\ q \notin dirs /\ Front(q) \in dirs /\ ~IsPrefix(p, q)
  /\ Tree(dirs, DOMAIN files)

\* The files' names after it.
Names(p, q) ==
  {x \in DOMAIN files : ~IsPrefix(p, x) /\ x # q}
    \cup {MovedPath(x, p, q) : x \in {x \in DOMAIN files : IsPrefix(p, x)}}

LEMMA MovedBehind ==
  ASSUME NEW p \in Path, NEW q \in Path, NEW x \in Path, IsPrefix(p, x)
  PROVE  MovedPath(x, p, q) \in Path /\ IsPrefix(q, MovedPath(x, p, q))
  <1>1. PICK y : y = MovedPath(x, p, q)
    OBVIOUS
  <1>2. Moved(x, MovedPath(x, p, q), p, q)
    BY MovedIs
  <1>3. Moved(x, y, p, q)
    BY <1>1, <1>2
  <1>4. y \in Path /\ Len(y) = Len(q) + Len(x) - Len(p) /\ \A i \in 1..Len(q) : y[i] = q[i]
    BY <1>3 DEF Moved
  <1>5. Len(q) <= Len(y)
    <2>1. Len(p) <= Len(x) /\ Len(p) \in Nat /\ Len(q) \in Nat /\ Len(x) \in Nat
      BY PrefixIs, PathLength
    <2> QED
      BY <1>4, <2>1
  <1>6. IsPrefix(q, y)
    BY <1>4, <1>5, PrefixIs
  <1> QED
    BY <1>1, <1>4, <1>6

LEMMA MovedTree ==
  ASSUME NEW p, NEW q, Moves(p, q)
  PROVE  Tree(MoveDirs(p, q), Names(p, q))
  <1> DEFINE ds == MoveDirs(p, q)
             fl == Names(p, q)
             at(x) == IF IsPrefix(p, x) THEN MovedPath(x, p, q) ELSE x
  <1>1. /\ p \in Path /\ q \in Path /\ q \notin dirs /\ Front(q) \in dirs /\ ~IsPrefix(p, q)
        /\ Tree(dirs, DOMAIN files)
    BY DEF Moves
  <1>2. dirs \subseteq Path /\ DOMAIN files \subseteq Path /\ dirs \cap DOMAIN files = {}
    BY <1>1 DEF Tree
  <1>3. \A d \in dirs : at(d) \in ds
    BY DEF MoveDirs
  <1>4. \A y \in ds : \E x \in dirs : y = at(x)
    BY DEF MoveDirs
  <1>5. \A y \in fl : \E x \in DOMAIN files : y = at(x) /\ (x = q => IsPrefix(p, x))
    BY DEF Names
  <1>6. \A x \in dirs \cup DOMAIN files : at(x) \in Path /\ (IsPrefix(p, x) => IsPrefix(q, at(x)))
    BY <1>1, <1>2, MovedBehind
  <1> HIDE DEF ds, fl
  <1>7. ds \subseteq Path /\ fl \subseteq Path
    BY <1>4, <1>5, <1>6
  <1>8. ds \cap fl = {}
    <2> SUFFICES ASSUME NEW y \in ds, y \in fl PROVE FALSE
      OBVIOUS
    <2>1. PICK d \in dirs : y = at(d)
      BY <1>4
    <2>2. PICK f \in DOMAIN files : y = at(f) /\ (f = q => IsPrefix(p, f))
      BY <1>5
    <2>3. CASE IsPrefix(p, d) /\ IsPrefix(p, f)
      BY <1>1, <1>2, <2>1, <2>2, <2>3, MovedApart
    <2>4. CASE ~IsPrefix(p, d) /\ ~IsPrefix(p, f)
      BY <1>2, <2>1, <2>2, <2>4
    <2>5. CASE IsPrefix(p, d) /\ ~IsPrefix(p, f)
      <3>1. IsPrefix(q, f)
        BY <1>6, <2>1, <2>2, <2>5
      <3>2. f = q
        BY <1>1, <3>1, NothingBelow
      <3> QED
        BY <2>2, <2>5, <3>2
    <2>6. CASE ~IsPrefix(p, d) /\ IsPrefix(p, f)
      <3>1. IsPrefix(q, d)
        BY <1>6, <2>1, <2>2, <2>6
      <3>2. d = q
        BY <1>1, <3>1, NothingBelow
      <3> QED
        BY <1>1, <3>2
    <2> QED
      BY <2>3, <2>4, <2>5, <2>6
  <1>9. ASSUME NEW y \in ds \cup fl, NEW n \in 1..(Len(y) - 1) PROVE SubSeq(y, 1, n) \in ds
    <2>1. PICK x \in dirs \cup DOMAIN files : y = at(x)
      BY <1>4, <1>5
    <2>2. x \in Path
      BY <1>2
    <2>3. \A m \in 1..(Len(x) - 1) : SubSeq(x, 1, m) \in dirs
      BY <1>1 DEF Tree, Rooted
    <2>4. CASE ~IsPrefix(p, x)
      <3>1. y = x
        BY <2>1, <2>4
      <3>2. SubSeq(x, 1, n) \in dirs
        BY <2>3, <3>1
      <3>3. PICK s : s = SubSeq(x, 1, n)
        OBVIOUS
      <3>4. n \in 1..Len(x) /\ n <= Len(x)
        BY <2>2, <3>1, PathLength
      <3>5. s \in Path /\ Len(s) = n /\ \A i \in 1..n : s[i] = x[i]
        BY <2>2, <3>3, <3>4, Start
      <3>6. ~IsPrefix(p, s)
        <4>1. SUFFICES ASSUME IsPrefix(p, s) PROVE IsPrefix(p, x)
          BY <2>4
        <4>2. Len(p) <= n /\ \A i \in 1..Len(p) : p[i] = s[i]
          BY <1>1, <3>5, <4>1, PrefixIs
        <4>3. Len(p) \in Nat /\ Len(x) \in Nat
          BY <1>1, <2>2, PathLength
        <4>4. Len(p) <= Len(x) /\ \A i \in 1..Len(p) : p[i] = x[i]
          BY <3>4, <3>5, <4>2, <4>3
        <4> QED
          BY <1>1, <2>2, <4>4, PrefixIs
      <3> QED
        BY <1>3, <3>1, <3>2, <3>3, <3>6
    <2>5. CASE IsPrefix(p, x)
      <3>1. y = MovedPath(x, p, q)
        BY <2>1, <2>5
      <3>2. n \in 1..(Len(MovedPath(x, p, q)) - 1)
        BY <3>1
      <3>3. CASE n < Len(q) /\ SubSeq(y, 1, n) = SubSeq(q, 1, n)
        <4>1. n \in 1..(Len(q) - 1) /\ n \in 1..Len(q)
          BY <1>1, <3>3, PathLength
        <4>2. SubSeq(q, 1, n) \in dirs
          BY <1>1, <4>1, UnderOf
        <4>3. PICK s : s = SubSeq(q, 1, n)
          OBVIOUS
        <4>4. s \in Path /\ Len(s) = n /\ \A i \in 1..n : s[i] = q[i]
          BY <1>1, <4>1, <4>3, Start
        <4>5. ~IsPrefix(p, s)
          <5>1. SUFFICES ASSUME IsPrefix(p, s) PROVE IsPrefix(p, q)
            BY <1>1
          <5>2. Len(p) <= n /\ \A i \in 1..Len(p) : p[i] = s[i]
            BY <1>1, <4>4, <5>1, PrefixIs
          <5>3. Len(p) \in Nat /\ Len(q) \in Nat
            BY <1>1, PathLength
          <5>4. Len(p) <= Len(q) /\ \A i \in 1..Len(p) : p[i] = q[i]
            BY <3>3, <4>4, <5>2, <5>3
          <5> QED
            BY <1>1, <5>4, PrefixIs
        <4> QED
          BY <1>3, <3>3, <4>2, <4>3, <4>5
      <3>4. CASE \E m \in 1..(Len(x) - 1) :
                   /\ IsPrefix(p, SubSeq(x, 1, m))
                   /\ SubSeq(y, 1, n) = MovedPath(SubSeq(x, 1, m), p, q)
        <4>1. PICK m \in 1..(Len(x) - 1) :
                   /\ IsPrefix(p, SubSeq(x, 1, m))
                   /\ SubSeq(y, 1, n) = MovedPath(SubSeq(x, 1, m), p, q)
          BY <3>4
        <4>2. PICK s : s = SubSeq(x, 1, m)
          OBVIOUS
        <4>3. s \in dirs
          BY <2>3, <4>2
        <4>4. IsPrefix(p, s) /\ SubSeq(y, 1, n) = MovedPath(s, p, q)
          BY <4>1, <4>2
        <4> QED
          BY <1>3, <4>3, <4>4
      <3>5. \/ n < Len(q) /\ SubSeq(MovedPath(x, p, q), 1, n) = SubSeq(q, 1, n)
            \/ \E m \in 1..(Len(x) - 1) :
                   /\ IsPrefix(p, SubSeq(x, 1, m))
                   /\ SubSeq(MovedPath(x, p, q), 1, n) = MovedPath(SubSeq(x, 1, m), p, q)
        BY <1>1, <2>2, <2>5, <3>2, MovedStart
      <3> QED
        BY <3>1, <3>3, <3>4, <3>5
    <2> QED
      BY <2>4, <2>5
  <1> QED
    BY <1>7, <1>8, <1>9 DEF Tree, Rooted, ds, fl

LEMMA MovedValues ==
  ASSUME NEW p, NEW q, Moves(p, q)
  PROVE  /\ DOMAIN MoveFiles(p, q) = Names(p, q)
         /\ \A f \in DOMAIN files : f = q \/ files[f] \in Range(MoveFiles(p, q))
  <1> DEFINE stay == {x \in DOMAIN files : ~IsPrefix(p, x) /\ x # q}
             move == {x \in DOMAIN files : IsPrefix(p, x)}
             of(y) == CHOOSE x \in move : MovedPath(x, p, q) = y
             new == MoveFiles(p, q)
  <1>1. new = [y \in Names(p, q) |-> IF y \in stay THEN files[y] ELSE files[of(y)]]
    BY DEF MoveFiles, Names
  <1>2. /\ p \in Path /\ q \in Path /\ q \notin dirs /\ Tree(dirs, DOMAIN files)
        /\ DOMAIN files \subseteq Path
    BY DEF Moves, Tree
  <1>3. ASSUME NEW f \in DOMAIN files, f # q PROVE \E y \in Names(p, q) : new[y] = files[f]
    <2>1. CASE ~IsPrefix(p, f)
      <3>1. f \in stay /\ f \in Names(p, q)
        BY <1>3, <2>1 DEF Names
      <3> HIDE DEF stay, of, new
      <3>2. new[f] = files[f]
        BY <1>1, <3>1
      <3> QED
        BY <3>1, <3>2
    <2>2. CASE IsPrefix(p, f)
      <3>1. PICK y : y = MovedPath(f, p, q)
        OBVIOUS
      <3>2. y \in Names(p, q) /\ f \in move
        BY <2>2, <3>1 DEF Names
      <3>3. y \in Path /\ IsPrefix(q, y)
        BY <1>2, <2>2, <3>1, MovedBehind
      <3>4. y \notin stay
        BY <1>2, <3>3, NothingBelow
      <3>5. \A x \in move : MovedPath(x, p, q) = y <=> x = f
        BY <1>2, <2>2, <3>1, MovedApart
      <3>6. of(y) = f
        BY <3>2, <3>5
      <3> HIDE DEF stay, move, of, new
      <3> QED
        BY <1>1, <3>2, <3>4, <3>6
    <2> QED
      BY <2>1, <2>2
  <1>4. DOMAIN new = Names(p, q)
    BY <1>1
  <1> HIDE DEF new
  <1>5. ASSUME NEW f \in DOMAIN files, f # q PROVE files[f] \in Range(new)
    BY <1>3, <1>4, <1>5 DEF Range
  <1> QED
    BY <1>4, <1>5 DEF new
-----------------------------------------------------------------------------
(* The copies under way.                                                    *)

Frames == [src : Path, dst : Path, seen : SUBSET Element]

\* What stands in the directory that a copy makes was copied before.
Entered(f, ds, fl) ==
  \A x \in ds \cup fl : Len(x) > 1 /\ Front(x) = f.dst => Last(x) \in f.seen

Stacked(s, ds, fl) ==
  /\ s \in Seq(Frames) /\ Len(s) >= 1
  /\ \A k \in 1..Len(s) : Len(s[k].dst) = Len(s[1].dst) + k - 1
  /\ Len(s[1].dst) # 1 => \A k \in 1..Len(s) : Entered(s[k], ds, fl)

FilesTyped == Tree(dirs, DOMAIN files) /\ currdir \in Path

Copying ==
  copying # NoCopy =>
    /\ copying \in [stack : Seq(Frames), move : BOOLEAN]
    /\ Stacked(copying.stack, dirs, DOMAIN files)

FilesInv == FilesTyped /\ Copying /\ NothingLost

LEMMA FrameIs ==
  ASSUME NEW f \in Frames
  PROVE  f.src \in Path /\ f.dst \in Path /\ f.seen \in SUBSET Element
  BY DEF Frames

LEMMA StackIs ==
  ASSUME NEW s, NEW ds, NEW fl, Stacked(s, ds, fl)
  PROVE  /\ Len(s) \in Nat /\ Len(s) >= 1 /\ Len(s) \in 1..Len(s) /\ 1 \in 1..Len(s)
         /\ \A k \in 1..Len(s) : /\ s[k] \in Frames
                                 /\ s[k].src \in Path /\ s[k].dst \in Path /\ s[k].seen \in SUBSET Element
                                 /\ Len(s[k].dst) = Len(s[1].dst) + k - 1
  <1>1. s \in Seq(Frames) /\ Len(s) >= 1 /\ Len(s) \in Nat
    BY DEF Stacked
  <1>2. \A k \in 1..Len(s) : s[k] \in Frames
    BY <1>1, ElementOfSeq
  <1>3. Len(s) \in 1..Len(s) /\ 1 \in 1..Len(s)
    BY <1>1
  <1> QED
    BY <1>1, <1>2, <1>3, FrameIs DEF Stacked

\* The destination of the next entry is new unless the copy is to a root.
LEMMA EntryIsNew ==
  ASSUME NEW s, NEW ds, NEW fl, Stacked(s, ds, fl), Len(s[1].dst) # 1,
         NEW n \in Element, n \notin s[Len(s)].seen
  PROVE  Append(s[Len(s)].dst, n) \notin ds \cup fl
  <1>1. Entered(s[Len(s)], ds, fl) /\ s[Len(s)].dst \in Path
    BY StackIs DEF Stacked
  <1>2. PICK p : p = s[Len(s)].dst
    OBVIOUS
  <1>3. PICK x : x = Append(p, n)
    OBVIOUS
  <1>4. Len(x) > 1 /\ Front(x) = p /\ Last(x) = n
    <2>1. Len(x) = Len(p) + 1 /\ Front(x) = p /\ Last(x) = n
      BY <1>1, <1>2, <1>3, OneDeeper
    <2>2. Len(p) \in Nat /\ Len(p) >= 1
      BY <1>1, <1>2, PathLength
    <2> QED
      BY <2>1, <2>2
  <1>5. x \notin ds \cup fl
    BY <1>1, <1>2, <1>4 DEF Entered
  <1> QED
    BY <1>2, <1>3, <1>5

\* Fewer files and directories.
LEMMA StackedLess ==
  ASSUME NEW s, NEW ds, NEW fl, Stacked(s, ds, fl), NEW d, NEW f, d \cup f \subseteq ds \cup fl
  PROVE  Stacked(s, d, f)
  BY DEF Stacked, Entered

\* An entry is seen and its copy is there.
SeenTop(s, n) == [s EXCEPT ![Len(s)].seen = @ \cup {n}]

LEMMA SeenTopIs ==
  ASSUME NEW s \in Seq(Frames), Len(s) >= 1, NEW n \in Element
  PROVE  /\ SeenTop(s, n) \in Seq(Frames) /\ Len(SeenTop(s, n)) = Len(s)
         /\ \A k \in 1..Len(s) :
              /\ SeenTop(s, n)[k].dst = s[k].dst
              /\ SeenTop(s, n)[k].seen = IF k = Len(s) THEN s[k].seen \cup {n} ELSE s[k].seen
  <1> DEFINE top == [s[Len(s)] EXCEPT !.seen = @ \cup {n}]
  <1>1. Len(s) \in Nat /\ Len(s) \in 1..Len(s)
    OBVIOUS
  <1>2. \A k \in 1..Len(s) : s[k] \in Frames
    BY ElementOfSeq
  <1>3. top \in Frames /\ top.dst = s[Len(s)].dst /\ top.seen = s[Len(s)].seen \cup {n}
    <2>1. s[Len(s)] \in Frames
      BY <1>1, <1>2
    <2>2. PICK f : f = s[Len(s)]
      OBVIOUS
    <2>3. [f EXCEPT !.seen = @ \cup {n}] \in Frames
      BY <2>1, <2>2 DEF Frames
    <2>4. [f EXCEPT !.seen = @ \cup {n}].dst = f.dst /\ [f EXCEPT !.seen = @ \cup {n}].seen = f.seen \cup {n}
      BY <2>1, <2>2 DEF Frames
    <2> QED
      BY <2>2, <2>3, <2>4
  <1>4. SeenTop(s, n) = [s EXCEPT ![Len(s)] = top]
    BY DEF SeenTop
  <1> HIDE DEF top
  <1>5. /\ [s EXCEPT ![Len(s)] = top] \in Seq(Frames)
        /\ Len([s EXCEPT ![Len(s)] = top]) = Len(s)
        /\ \A j \in 1..Len(s) : [s EXCEPT ![Len(s)] = top][j] = IF j = Len(s) THEN top ELSE s[j]
    BY <1>1, <1>3, ExceptSeq
  <1>6. PICK t : t = SeenTop(s, n)
    OBVIOUS
  <1>7. t \in Seq(Frames) /\ Len(t) = Len(s) /\ \A j \in 1..Len(s) : t[j] = IF j = Len(s) THEN top ELSE s[j]
    BY <1>4, <1>5, <1>6
  <1>8. \A k \in 1..Len(s) : /\ t[k].dst = s[k].dst
                             /\ t[k].seen = IF k = Len(s) THEN s[k].seen \cup {n} ELSE s[k].seen
    BY <1>3, <1>7
  <1> QED
    BY <1>6, <1>7, <1>8

LEMMA SeenStacked ==
  ASSUME NEW s, NEW ds, NEW fl, Stacked(s, ds, fl), NEW n \in Element,
         NEW d, NEW f, d \cup f \subseteq ds \cup fl \cup {Append(s[Len(s)].dst, n)}
  PROVE  Stacked(SeenTop(s, n), d, f)
  <1>1. s \in Seq(Frames) /\ Len(s) >= 1 /\ Len(s) \in Nat
    BY StackIs DEF Stacked
  <1>2. PICK t : t = SeenTop(s, n)
    OBVIOUS
  <1>3. /\ t \in Seq(Frames) /\ Len(t) = Len(s)
        /\ \A k \in 1..Len(s) : /\ t[k].dst = s[k].dst
                                /\ t[k].seen = IF k = Len(s) THEN s[k].seen \cup {n} ELSE s[k].seen
    BY <1>1, <1>2, SeenTopIs
  <1>3a. t[1].dst = s[1].dst
    BY <1>3, StackIs
  <1>4. \A k \in 1..Len(t) : Len(t[k].dst) = Len(t[1].dst) + k - 1
    <2>1. \A k \in 1..Len(s) : Len(s[k].dst) = Len(s[1].dst) + k - 1
      BY StackIs
    <2> QED
      BY <1>3, <1>3a, <2>1
  <1>5. PICK p : p = s[Len(s)].dst
    OBVIOUS
  <1>6. PICK x : x = Append(p, n)
    OBVIOUS
  <1>7. Front(x) = p /\ Last(x) = n
    <2>1. p \in Path
      BY <1>5, StackIs
    <2> QED
      BY <1>6, <2>1, OneDeeper
  <1>8. ASSUME Len(t[1].dst) # 1, NEW k \in 1..Len(t) PROVE Entered(t[k], d, f)
    <2>1. Len(s[1].dst) # 1 /\ k \in 1..Len(s)
      BY <1>3, <1>3a, <1>8
    <2>2. Entered(s[k], ds, fl)
      BY <2>1 DEF Stacked
    <2>3. ASSUME NEW y \in d \cup f, Len(y) > 1, Front(y) = t[k].dst PROVE Last(y) \in t[k].seen
      <3>1. Front(y) = s[k].dst /\ s[k].seen \subseteq t[k].seen
        BY <1>3, <2>1, <2>3
      <3>2. CASE y \in ds \cup fl
        BY <2>2, <2>3, <3>1, <3>2 DEF Entered
      <3>3. CASE y = x
        <4>1. s[k].dst = p
          BY <1>7, <3>1, <3>3
        <4>2. Len(s[1].dst) + k - 1 = Len(s[1].dst) + Len(s) - 1
          <5>1. Len(s[k].dst) = Len(s[1].dst) + k - 1
            BY <2>1, StackIs
          <5>2. Len(s[Len(s)].dst) = Len(s[1].dst) + Len(s) - 1
            BY StackIs
          <5> QED
            BY <1>5, <4>1, <5>1, <5>2
        <4>3. Len(s[1].dst) \in Nat
          BY StackIs, PathLength
        <4>4. k = Len(s)
          BY <1>1, <2>1, <4>2, <4>3
        <4> QED
          BY <1>3, <1>7, <2>1, <3>3, <4>4
      <3> QED
        BY <1>5, <1>6, <2>3, <3>2, <3>3
    <2> QED
      BY <2>3 DEF Entered
  <1>9. Stacked(t, d, f)
    BY <1>1, <1>3, <1>4, <1>8 DEF Stacked
  <1> QED
    BY <1>2, <1>9

\* Nothing is in a directory that is not there.
LEMMA NothingIn ==
  ASSUME NEW ds, NEW fl, Tree(ds, fl), NEW p \in Path, p \notin ds, NEW f \in Frames, f.dst = p
  PROVE  Entered(f, ds \cup {p}, fl)
  <1> SUFFICES ASSUME NEW x \in ds \cup {p} \cup fl, Len(x) > 1, Front(x) = p PROVE FALSE
    BY DEF Entered
  <1>1. x \in Path
    BY DEF Tree
  <1>2. Len(x) \in Nat /\ Len(p) = Len(x) - 1 /\ p = SubSeq(x, 1, Len(x) - 1)
    BY <1>1, FrontOf, PathLength
  <1>3. x # p
    BY <1>2
  <1>4. Len(x) - 1 \in 1..(Len(x) - 1)
    BY <1>2
  <1>5. SubSeq(x, 1, Len(x) - 1) \in ds
    BY <1>3, <1>4 DEF Tree, Rooted
  <1> QED
    BY <1>2, <1>5

LEMMA OneStacked ==
  ASSUME NEW f \in Frames, NEW ds, NEW fl, Len(f.dst) # 1 => Entered(f, ds, fl)
  PROVE  Stacked(<<f>>, ds, fl)
  <1>1. PICK s : s = <<f>>
    OBVIOUS
  <1>2. s \in Seq(Frames) /\ Len(s) = 1 /\ s[1] = f
    BY <1>1
  <1>3. Len(f.dst) \in Nat
    BY FrameIs, PathLength
  <1>4. Stacked(s, ds, fl)
    BY <1>2, <1>3 DEF Stacked
  <1> QED
    BY <1>1, <1>4

LEMMA PushStacked ==
  ASSUME NEW s, NEW ds, NEW fl, Stacked(s, ds, fl), NEW f \in Frames,
         Len(f.dst) = Len(s[Len(s)].dst) + 1,
         Len(s[1].dst) # 1 => Entered(f, ds, fl)
  PROVE  Stacked(Append(s, f), ds, fl)
  <1>1. PICK t : t = Longer(s, f)
    OBVIOUS
  <1>2. s \in Seq(Frames) /\ Len(s) \in Nat /\ Len(s) >= 1
    BY StackIs DEF Stacked
  <1>3. /\ t \in Seq(Frames) /\ Len(t) = Len(s) + 1
        /\ \A i \in 1..Len(s) : i \in 1..Len(t) /\ t[i] = s[i]
        /\ \A i \in 1..Len(t) : (i \in 1..Len(s) /\ t[i] = s[i]) \/ (i = Len(s) + 1 /\ t[i] = f)
    <2>1. LET u == Longer(s, f)
          IN  /\ u \in Seq(Frames) /\ Len(u) = Len(s) + 1
              /\ \A i \in 1..Len(s) : i \in 1..Len(u) /\ u[i] = s[i]
              /\ \A i \in 1..Len(u) : (i \in 1..Len(s) /\ u[i] = s[i]) \/ (i = Len(s) + 1 /\ u[i] = f)
      BY <1>2, OneBehind
    <2> QED
      BY <1>1, <2>1
  <1>4. t[1] = s[1]
    BY <1>2, <1>3
  <1>5. \A k \in 1..Len(t) : Len(t[k].dst) = Len(t[1].dst) + k - 1
    <2> SUFFICES ASSUME NEW k \in 1..Len(t) PROVE Len(t[k].dst) = Len(t[1].dst) + k - 1
      OBVIOUS
    <2>1. CASE k \in 1..Len(s) /\ t[k] = s[k]
      BY <1>4, <2>1, StackIs
    <2>2. CASE k = Len(s) + 1 /\ t[k] = f
      <3>1. Len(s[Len(s)].dst) = Len(s[1].dst) + Len(s) - 1 /\ Len(s[1].dst) \in Nat
        BY StackIs, PathLength
      <3>2. PICK a : a = Len(s[1].dst)
        OBVIOUS
      <3>3. Len(f.dst) = a + Len(s) - 1 + 1 /\ a \in Nat
        BY <3>1, <3>2
      <3>4. Len(f.dst) = a + k - 1
        BY <1>2, <2>2, <3>3
      <3> QED
        BY <1>4, <2>2, <3>2, <3>4
    <2> QED
      BY <1>3, <2>1, <2>2
  <1>6. ASSUME Len(t[1].dst) # 1, NEW k \in 1..Len(t) PROVE Entered(t[k], ds, fl)
    <2>1. Len(s[1].dst) # 1
      BY <1>4, <1>6
    <2>2. \A i \in 1..Len(s) : Entered(s[i], ds, fl)
      BY <2>1 DEF Stacked
    <2> QED
      BY <1>3, <2>1, <2>2
  <1>7. Stacked(t, ds, fl)
    BY <1>2, <1>3, <1>5, <1>6 DEF Stacked
  <1> QED
    BY <1>1, <1>7 DEF Longer

LEMMA PopStacked ==
  ASSUME NEW s, NEW ds, NEW fl, Stacked(s, ds, fl), Len(s) # 1
  PROVE  Front(s) \in Seq(Frames) /\ Stacked(Front(s), ds, fl)
  <1>1. s \in Seq(Frames) /\ Len(s) \in Nat /\ Len(s) >= 1
    BY StackIs DEF Stacked
  <1>2. PICK n : n = Len(s) - 1
    OBVIOUS
  <1>3. n \in Int /\ n >= 1 /\ \A i \in 1..n : i \in 1..Len(s)
    BY <1>1, <1>2
  <1>4. \A i \in 1..n : s[i] \in Frames
    BY <1>1, <1>3, ElementOfSeq
  <1>5. PICK t : t = SubSeq(s, 1, n)
    OBVIOUS
  <1>6. /\ t \in Seq(Frames)
        /\ Len(t) = IF 1 <= n THEN n - 1 + 1 ELSE 0
        /\ \A i \in 1..(n - 1 + 1) : t[i] = s[1 + i - 1]
    BY <1>3, <1>4, <1>5, SubSeqProperties
  <1>7. Len(t) = n /\ \A i \in 1..n : t[i] = s[i]
    <2>1. \A i \in 1..n : i \in 1..(n - 1 + 1) /\ 1 + i - 1 = i
      BY <1>3
    <2> QED
      BY <1>3, <1>6, <2>1
  <1>8. t[1] = s[1]
    BY <1>3, <1>7
  <1>9. \A k \in 1..n : Len(t[k].dst) = Len(t[1].dst) + k - 1
    BY <1>3, <1>7, <1>8, StackIs
  <1>10. Len(t[1].dst) # 1 => \A k \in 1..n : Entered(t[k], ds, fl)
    BY <1>3, <1>7, <1>8 DEF Stacked
  <1>11. Stacked(t, ds, fl)
    BY <1>3, <1>6, <1>7, <1>9, <1>10 DEF Stacked
  <1> QED
    BY <1>2, <1>5, <1>6, <1>11 DEF Front
-----------------------------------------------------------------------------
(* The commands.                                                            *)

ContentKept ==
  /\ given_up \subseteq given_up'
  /\ \A f \in DOMAIN files : files[f] \in Range(files') \cup given_up'

LEMMA KeptIsThere == NothingLost /\ ContentKept => NothingLost'
  <1> SUFFICES ASSUME NothingLost, ContentKept, NEW f \in DOMAIN Files0
               PROVE  Files0[f] \in Range(files') \cup given_up'
    BY DEF NothingLost
  <1>1. CASE Files0[f] \in given_up
    BY <1>1 DEF ContentKept
  <1>2. CASE Files0[f] \in Range(files)
    <2>1. PICK g \in DOMAIN files : Files0[f] = files[g]
      BY <1>2 DEF Range
    <2> QED
      BY <2>1 DEF ContentKept
  <1> QED
    BY <1>1, <1>2 DEF NothingLost

LEMMA SameFiles ==
  ASSUME UNCHANGED <<files, given_up>> PROVE ContentKept
  BY DEF ContentKept, Range

LEMMA FilesInvInit == FilesInit => FilesInv
  <1> SUFFICES ASSUME FilesInit PROVE FilesInv
    OBVIOUS
  <1>1. Tree(dirs, DOMAIN files)
    BY FilesAssumption DEF FilesInit, Tree
  <1>2. currdir \in Path
    <2>1. PICK S, a, b : S = Element /\ a = "host0:" /\ b = ""
      OBVIOUS
    <2>2. a \in S /\ b \in S
      BY <2>1, FilesAssumption
    <2>3. <<a, b>> \in Seq(S) /\ <<a, b>> # <<>>
      BY <2>2
    <2> QED
      BY <2>1, <2>3 DEF FilesInit, Path
  <1>3. Copying
    BY DEF FilesInit, Copying
  <1>4. NothingLost
    BY DEF FilesInit, NothingLost, Range
  <1> QED
    BY <1>1, <1>2, <1>3, <1>4 DEF FilesInv, FilesTyped

\* At the prompt no copy is under way.
LEMMA NoCopyRuns ==
  ASSUME FilesInv, copying = NoCopy, copying' = copying, currdir' \in Path, ContentKept, Tree(dirs', DOMAIN files')
  PROVE  FilesInv'
  BY KeptIsThere DEF FilesInv, FilesTyped, Copying, NoCopy

LEMMA chdirKeeps == FilesInv /\ chdir => FilesInv'
  <1> SUFFICES ASSUME FilesInv, chdir PROVE FilesInv'
    OBVIOUS
  <1>1. currdir \in Path /\ Tree(dirs, DOMAIN files)
    BY DEF FilesInv, FilesTyped
  <1>2. PICK a \in Args : handlepath(a, "dir", TRUE) # NoPath /\ currdir' = handlepath(a, "dir", TRUE)
    BY DEF chdir
  <1>3. currdir' \in Path
    BY <1>1, <1>2, handlepathTyped
  <1>4. copying = NoCopy /\ UNCHANGED <<dirs, files, copying, given_up>>
    BY DEF chdir, Ready, fs
  <1> QED
    BY <1>1, <1>3, <1>4, SameFiles, NoCopyRuns

LEMMA mkdirKeeps == FilesInv /\ mkdir_cmd => FilesInv'
  <1> SUFFICES ASSUME FilesInv, mkdir_cmd PROVE FilesInv'
    OBVIOUS
  <1>1. currdir \in Path /\ Tree(dirs, DOMAIN files)
    BY DEF FilesInv, FilesTyped
  <1>2. copying = NoCopy /\ UNCHANGED <<files, currdir, copying, given_up>>
    BY DEF mkdir_cmd, Ready
  <1>3. PICK a \in Args : LET p == handlepath(a, "file", FALSE)
                          IN  p # NoPath /\ Free(Bare(p)) /\ dirs' = dirs \cup {Bare(p)}
    BY DEF mkdir_cmd
  <1>4. Bare(handlepath(a, "file", FALSE)) \in Path
    BY <1>1, <1>3, handlepathTyped, BarePath
  <1>5. Tree(dirs', DOMAIN files)
    BY <1>1, <1>3, <1>4, OneNew DEF Free
  <1> QED
    BY <1>1, <1>2, <1>5, SameFiles, NoCopyRuns

LEMMA rmdirKeeps == FilesInv /\ rmdir_cmd => FilesInv'
  <1> SUFFICES ASSUME FilesInv, rmdir_cmd PROVE FilesInv'
    OBVIOUS
  <1>1. currdir \in Path /\ Tree(dirs, DOMAIN files)
    BY DEF FilesInv, FilesTyped
  <1>2. copying = NoCopy /\ UNCHANGED <<files, currdir, copying, given_up>>
    BY DEF rmdir_cmd, Ready
  <1>3. PICK a \in Args : LET p == handlepath(a, "file", FALSE)
                          IN  p # NoPath /\ Below(Bare(p)) = {} /\ dirs' = dirs \ {Bare(p)}
    BY DEF rmdir_cmd
  <1>4. Bare(handlepath(a, "file", FALSE)) \in Path
    BY <1>1, <1>3, handlepathTyped, BarePath
  <1>5. Tree(dirs', DOMAIN files)
    BY <1>1, <1>3, <1>4, OneGone DEF Below
  <1> QED
    BY <1>1, <1>2, <1>5, SameFiles, NoCopyRuns

LEMMA rmKeeps == FilesInv /\ rm_cmd => FilesInv'
  <1> SUFFICES ASSUME FilesInv, rm_cmd PROVE FilesInv'
    OBVIOUS
  <1>1. currdir \in Path /\ Tree(dirs, DOMAIN files)
    BY DEF FilesInv, FilesTyped
  <1>2. copying = NoCopy /\ UNCHANGED <<dirs, currdir, copying>>
    BY DEF rm_cmd, Ready
  <1>3. PICK a \in Args : LET p == handlepath(a, "file", TRUE)
                          IN  /\ files' = Restrict(files, DOMAIN files \ {Bare(p)})
                              /\ given_up' = given_up \cup {files[Bare(p)]}
    BY DEF rm_cmd
  <1>4. PICK q : q = Bare(handlepath(a, "file", TRUE))
    OBVIOUS
  <1>5. files' = [f \in DOMAIN files \ {q} |-> files[f]] /\ given_up' = given_up \cup {files[q]}
    BY <1>3, <1>4 DEF Restrict
  <1>6. Tree(dirs', DOMAIN files')
    BY <1>1, <1>2, <1>5, FewerFiles
  <1>7. \A f \in DOMAIN files : f = q \/ (f \in DOMAIN files' /\ files'[f] = files[f])
    BY <1>5
  <1>8. ContentKept
    BY <1>5, <1>7 DEF ContentKept, Range
  <1> QED
    BY <1>1, <1>2, <1>6, <1>8, NoCopyRuns

LEMMA MoveKeeps ==
  ASSUME NEW p, NEW q, Moves(p, q), Move(p, q), given_up \subseteq given_up',
         q \in DOMAIN files => files[q] \in given_up'
  PROVE  Tree(dirs', DOMAIN files') /\ ContentKept
  <1>1. dirs' = MoveDirs(p, q) /\ files' = MoveFiles(p, q)
    BY DEF Move
  <1>2. DOMAIN files' = Names(p, q) /\ \A f \in DOMAIN files : f = q \/ files[f] \in Range(files')
    BY <1>1, MovedValues
  <1>3. ContentKept
    BY <1>2 DEF ContentKept
  <1> QED
    BY <1>1, <1>2, <1>3, MovedTree

LEMMA renameKeeps == FilesInv /\ rename_cmd => FilesInv'
  <1> SUFFICES ASSUME FilesInv, rename_cmd PROVE FilesInv'
    OBVIOUS
  <1>1. currdir \in Path /\ Tree(dirs, DOMAIN files)
    BY DEF FilesInv, FilesTyped
  <1>2. copying = NoCopy /\ UNCHANGED <<currdir, copying>>
    BY DEF rename_cmd, Ready
  <1>3. PICK a \in Args, b \in Args :
          LET p == handlepath(a, "file", TRUE)
              q == handlepath(b, "file", FALSE)
          IN  /\ p # NoPath /\ q # NoPath /\ CanMove(Bare(p), Bare(q))
              /\ Move(Bare(p), Bare(q))
              /\ given_up' = given_up \cup (IF Bare(q) \in DOMAIN files THEN {files[Bare(q)]} ELSE {})
    BY DEF rename_cmd
  <1>4. PICK p, q : p = Bare(handlepath(a, "file", TRUE)) /\ q = Bare(handlepath(b, "file", FALSE))
    OBVIOUS
  <1>5. p \in Path /\ q \in Path
    BY <1>1, <1>3, <1>4, handlepathTyped, BarePath
  <1>6. /\ CanMove(p, q) /\ Move(p, q)
        /\ given_up' = given_up \cup (IF q \in DOMAIN files THEN {files[q]} ELSE {})
    BY <1>3, <1>4
  <1>7. Moves(p, q)
    BY <1>1, <1>5, <1>6 DEF Moves, CanMove
  <1>8. Tree(dirs', DOMAIN files') /\ ContentKept
    BY <1>6, <1>7, MoveKeeps
  <1> QED
    BY <1>1, <1>2, <1>8, NoCopyRuns

\* CopyFile writes over nothing but what is given up, and a source it removes is
\* whole at its destination or given up.
LEMMA CopyFileKeeps ==
  ASSUME Tree(dirs, DOMAIN files), NEW src \in DOMAIN files, NEW dst \in Path, NEW move \in BOOLEAN,
         ToRoot \/ dst \notin DOMAIN files, CopyFile(src, dst, move), dirs' = dirs
  PROVE  /\ Tree(dirs', DOMAIN files') /\ ContentKept
         /\ DOMAIN files' \subseteq DOMAIN files \cup {dst}
  <1> DEFINE New(whole) == IF ~CanWrite(dst) THEN files ELSE Written(dst, IF whole THEN files[src] ELSE Partial)
  <1>1. PICK whole \in BOOLEAN :
          /\ files' = IF move THEN Restrict(New(whole), DOMAIN New(whole) \ {src}) ELSE New(whole)
          /\ given_up' = given_up \cup (IF (~whole \/ ~CanWrite(dst)) /\ move THEN {files[src]} ELSE {})
                                  \cup (IF ToRoot /\ dst \in DOMAIN files THEN {files[dst]} ELSE {})
    BY DEF CopyFile
  <1>2. PICK new : new = New(whole)
    OBVIOUS
  <1>3. IF CanWrite(dst)
        THEN /\ DOMAIN new = DOMAIN files \cup {dst}
             /\ new[dst] = IF whole THEN files[src] ELSE Partial
             /\ \A f \in DOMAIN files : f # dst => new[f] = files[f]
        ELSE new = files
    BY <1>2 DEF Written
  <1>4. /\ move => DOMAIN files' = DOMAIN new \ {src} /\ \A f \in DOMAIN new : f # src => files'[f] = new[f]
        /\ ~move => files' = new
    BY <1>1, <1>2 DEF Restrict
  <1>5. DOMAIN new \subseteq DOMAIN files \cup {dst} /\ DOMAIN files' \subseteq DOMAIN new
    BY <1>3, <1>4
  <1>6. Tree(dirs, DOMAIN new)
    <2>1. CASE CanWrite(dst) /\ dst \notin DOMAIN files
      <3>1. dst \notin dirs \cup DOMAIN files /\ Front(dst) \in dirs
        BY <2>1 DEF CanWrite
      <3>2. Tree(dirs, DOMAIN files \cup {dst})
        BY <3>1, OneNew
      <3>3. DOMAIN new = DOMAIN files \cup {dst}
        BY <1>3, <2>1
      <3> QED
        BY <3>2, <3>3
    <2>2. CASE CanWrite(dst) /\ dst \in DOMAIN files
      <3>1. DOMAIN new = DOMAIN files
        BY <1>3, <2>2
      <3> QED
        BY <3>1
    <2>3. CASE ~CanWrite(dst)
      BY <1>3, <2>3
    <2> QED
      BY <2>1, <2>2, <2>3
  <1>7. Tree(dirs', DOMAIN files')
    BY <1>5, <1>6, FewerFiles
  <1>8. ASSUME NEW f \in DOMAIN files PROVE files[f] \in Range(files') \cup given_up'
    <2>1. CASE f = dst
      BY <1>1, <2>1
    <2>2. CASE f # dst /\ (f # src \/ ~move)
      <3>1. f \in DOMAIN new /\ new[f] = files[f]
        BY <1>3, <2>2
      <3>2. f \in DOMAIN files' /\ files'[f] = files[f]
        BY <1>4, <2>2, <3>1
      <3> QED
        BY <3>2 DEF Range
    <2>3. CASE f # dst /\ f = src /\ move
      <3>1. CASE ~whole \/ ~CanWrite(dst)
        BY <1>1, <2>3, <3>1
      <3>2. CASE whole /\ CanWrite(dst)
        <4>1. dst \in DOMAIN files' /\ files'[dst] = files[src]
          BY <1>3, <1>4, <2>3, <3>2
        <4> QED
          BY <2>3, <4>1 DEF Range
      <3> QED
        BY <3>1, <3>2
    <2> QED
      BY <2>1, <2>2, <2>3
  <1>9. ContentKept
    BY <1>1, <1>8 DEF ContentKept
  <1> QED
    BY <1>5, <1>7, <1>9

LEMMA MkDirKeeps ==
  ASSUME Tree(dirs, DOMAIN files), NEW p \in Path
  PROVE  Tree(MkDir(p), DOMAIN files) /\ MkDir(p) \subseteq dirs \cup {p}
  BY OneNew DEF MkDir, Free

\* cp and mv: no copy goes to what is there, except a directory's to a root.
LEMMA CopyCmdKeeps ==
  ASSUME FilesInv, NEW move \in BOOLEAN, CopyCmd(move) PROVE FilesInv'
  <1>1. currdir \in Path /\ Tree(dirs, DOMAIN files) /\ NothingLost
    BY DEF FilesInv, FilesTyped
  <1>2. copying = NoCopy /\ currdir' = currdir
    BY DEF CopyCmd, Ready
  <1>3. PICK a \in Args, b \in Args :
       LET fsrc == handlepath(a, "ether", FALSE)
           fdst == handlepath(b, "ether", FALSE)
           to   == Target(fsrc, fdst, move)
       IN  /\ fsrc # NoPath /\ fdst # NoPath
           /\ isdir(fsrc) \/ OpensRead(fsrc)
           /\ ~Taken(fsrc, to)
           /\ \/ /\ CanMove(Bare(fsrc), Bare(to)) /\ Bare(to) \notin DOMAIN files
                 /\ Move(Bare(fsrc), Bare(to))
                 /\ UNCHANGED <<copying, given_up>>
              \/ /\ isdir(fsrc)
                 /\ copying' = [stack |-> <<Frame(Bare(fsrc), Bare(to))>>, move |-> move]
                 /\ dirs' = MkDir(Bare(to))
                 /\ UNCHANGED <<files, given_up>>
              \/ /\ ~isdir(fsrc)
                 /\ CopyFile(Bare(fsrc), Bare(to), move)
                 /\ UNCHANGED <<dirs, copying>>
    BY DEF CopyCmd
  <1>4. PICK fsrc, fdst : fsrc = handlepath(a, "ether", FALSE) /\ fdst = handlepath(b, "ether", FALSE)
    OBVIOUS
  <1>5. PICK to : to = Target(fsrc, fdst, move)
    OBVIOUS
  <1>6. PICK p, q : p = Bare(fsrc) /\ q = Bare(to)
    OBVIOUS
  <1>7. /\ fsrc # NoPath /\ fdst # NoPath
        /\ isdir(fsrc) \/ OpensRead(fsrc)
        /\ ~Taken(fsrc, to)
        /\ \/ CanMove(p, q) /\ q \notin DOMAIN files /\ Move(p, q) /\ UNCHANGED <<copying, given_up>>
           \/ /\ isdir(fsrc)
              /\ copying' = [stack |-> <<Frame(p, q)>>, move |-> move]
              /\ dirs' = MkDir(q)
              /\ UNCHANGED <<files, given_up>>
           \/ ~isdir(fsrc) /\ CopyFile(p, q, move) /\ UNCHANGED <<dirs, copying>>
    BY <1>3, <1>4, <1>5, <1>6
  <1>8. fsrc \in Path /\ fdst \in Path
    BY <1>1, <1>4, <1>7, handlepathTyped
  <1>9. to \in Path
    <2>1. Bare(fdst) \in Path /\ Last(fsrc) \in Element
      BY <1>8, BarePath, PathIs
    <2>2. Append(Bare(fdst), Last(fsrc)) \in Path
      BY <2>1, OneDeeper
    <2> QED
      BY <1>5, <1>8, <2>2 DEF Target
  <1>10. p \in Path /\ q \in Path
    BY <1>6, <1>8, <1>9, BarePath
  <1>11. CASE CanMove(p, q) /\ q \notin DOMAIN files /\ Move(p, q) /\ UNCHANGED <<copying, given_up>>
    <2>1. Moves(p, q)
      BY <1>1, <1>10, <1>11 DEF Moves, CanMove
    <2>2. Tree(dirs', DOMAIN files') /\ ContentKept
      BY <1>11, <2>1, MoveKeeps
    <2> QED
      BY <1>1, <1>2, <1>11, <2>2, NoCopyRuns
  <1>12. CASE /\ isdir(fsrc)
              /\ copying' = [stack |-> <<Frame(p, q)>>, move |-> move]
              /\ dirs' = MkDir(q)
              /\ UNCHANGED <<files, given_up>>
    <2>1. Len(q) # 1 => q \notin dirs
      <3>1. ~isdir(to)
        BY <1>7, <1>12 DEF Taken
      <3>2. Len(to) = 1 => q = to
        <4>1. PICK k : k = Len(to)
          OBVIOUS
        <4>2. k = 1 => ~(k > 1)
          OBVIOUS
        <4>3. Len(to) = 1 => ~(Len(to) > 1)
          BY <4>1, <4>2
        <4> QED
          BY <1>6, <4>3, Zenon DEF Bare
      <3>3. Len(to) # 1 => Len(to) > 1
        BY <1>9, PathLength
      <3> QED
        BY <1>6, <3>1, <3>2, <3>3 DEF isdir
    <2>2. PICK f : f = Frame(p, q)
      OBVIOUS
    <2>3. f \in Frames /\ f.dst = q
      BY <1>10, <2>2 DEF Frame, Frames
    <2>4. Tree(dirs', DOMAIN files') /\ dirs' \subseteq dirs \cup {q}
      BY <1>1, <1>10, <1>12, MkDirKeeps
    <2>5. Len(f.dst) # 1 => Entered(f, dirs', DOMAIN files')
      <3>1. SUFFICES ASSUME Len(f.dst) # 1 PROVE Entered(f, dirs', DOMAIN files')
        OBVIOUS
      <3>2. q \notin dirs
        BY <2>1, <2>3, <3>1
      <3>3. Entered(f, dirs \cup {q}, DOMAIN files)
        BY <1>1, <1>10, <2>3, <3>2, NothingIn
      <3> QED
        BY <1>12, <2>4, <3>3 DEF Entered
    <2>6. Stacked(<<f>>, dirs', DOMAIN files')
      BY <2>3, <2>5, OneStacked
    <2>7. PICK s : s = <<f>>
      OBVIOUS
    <2>8. s \in Seq(Frames) /\ copying' = [stack |-> s, move |-> move]
      BY <1>12, <2>2, <2>3, <2>7
    <2>9. copying' \in [stack : Seq(Frames), move : BOOLEAN] /\ copying'.stack = s
      BY <2>8
    <2>10. Copying'
      BY <2>6, <2>7, <2>9 DEF Copying
    <2>11. ContentKept
      BY <1>12, SameFiles
    <2> QED
      BY <1>1, <1>2, <2>4, <2>10, <2>11, KeptIsThere DEF FilesInv, FilesTyped
  <1>13. CASE ~isdir(fsrc) /\ CopyFile(p, q, move) /\ UNCHANGED <<dirs, copying>>
    <2>1. p \in DOMAIN files
      <3>1. OpensRead(fsrc)
        BY <1>7, <1>13
      <3>2. ~(fsrc[1] \in OpensDir /\ p \in dirs)
        BY <1>6, <1>13 DEF isdir
      <3> QED
        BY <1>6, <3>1, <3>2 DEF OpensRead
    <2>2. q \notin DOMAIN files
      BY <1>6, <1>7, <1>13 DEF Taken, OpensRead
    <2>3. Tree(dirs', DOMAIN files') /\ ContentKept
      BY <1>1, <1>10, <1>13, <2>1, <2>2, CopyFileKeeps
    <2> QED
      BY <1>1, <1>2, <1>13, <2>3, NoCopyRuns
  <1> QED
    BY <1>7, <1>11, <1>12, <1>13

\* The next entry of the innermost directory.
LEMMA CopyEntryKeeps == FilesInv /\ CopyEntry => FilesInv'
  <1> SUFFICES ASSUME FilesInv, CopyEntry PROVE FilesInv'
    OBVIOUS
  <1> DEFINE s == copying.stack
  <1>1. currdir \in Path /\ Tree(dirs, DOMAIN files) /\ NothingLost
    BY DEF FilesInv, FilesTyped
  <1>2. copying # NoCopy /\ currdir' = currdir
    BY DEF CopyEntry
  <1>3. copying \in [stack : Seq(Frames), move : BOOLEAN] /\ Stacked(s, dirs, DOMAIN files)
    BY <1>2 DEF FilesInv, Copying
  <1>4. PICK q \in Below(Top.src) :
         /\ Front(q) = Top.src /\ Last(q) \notin Top.seen
         /\ IF q \in dirs
            THEN /\ copying' = [Seen(Last(q)) EXCEPT !.stack = Append(@, Frame(q, Append(Top.dst, Last(q))))]
                 /\ dirs' = MkDir(Append(Top.dst, Last(q)))
                 /\ UNCHANGED <<files, given_up>>
            ELSE /\ copying' = Seen(Last(q))
                 /\ CopyFile(q, Append(Top.dst, Last(q)), copying.move)
                 /\ UNCHANGED dirs
    BY DEF CopyEntry
  <1>5. PICK n, top, dst : n = Last(q) /\ top = s[Len(s)] /\ dst = Append(top.dst, n)
    OBVIOUS
  <1>6. /\ n \notin top.seen
        /\ IF q \in dirs
           THEN /\ copying' = [Seen(n) EXCEPT !.stack = Append(@, Frame(q, dst))]
                /\ dirs' = MkDir(dst)
                /\ UNCHANGED <<files, given_up>>
           ELSE /\ copying' = Seen(n)
                /\ CopyFile(q, dst, copying.move)
                /\ UNCHANGED dirs
    BY <1>4, <1>5 DEF Top
  <1>7. q \in dirs \cup DOMAIN files /\ q \in Path /\ n \in Element
    <2>1. q \in dirs \cup DOMAIN files
      BY <1>4 DEF Below
    <2>2. q \in Path
      BY <1>1, <2>1 DEF Tree
    <2> QED
      BY <1>5, <2>1, <2>2, PathIs
  <1>8. top.dst \in Path
    BY <1>3, <1>5, StackIs
  <1>9. dst \in Path /\ Len(dst) = Len(top.dst) + 1
    BY <1>5, <1>7, <1>8, OneDeeper
  <1>10. Len(s[1].dst) # 1 => dst \notin dirs \cup DOMAIN files
    BY <1>3, <1>5, <1>6, <1>7, EntryIsNew
  <1>11. PICK t : t = SeenTop(s, n)
    OBVIOUS
  <1>12. /\ t \in Seq(Frames) /\ Len(t) = Len(s)
         /\ t[Len(t)].dst = top.dst /\ t[1].dst = s[1].dst
    <2>1. s \in Seq(Frames) /\ Len(s) >= 1 /\ Len(s) \in 1..Len(s) /\ 1 \in 1..Len(s)
      BY <1>3, StackIs DEF Stacked
    <2>2. t \in Seq(Frames) /\ Len(t) = Len(s) /\ \A k \in 1..Len(s) : t[k].dst = s[k].dst
      BY <1>7, <1>11, <2>1, SeenTopIs
    <2> QED
      BY <1>5, <2>1, <2>2
  <1>13. Seen(n) = [copying EXCEPT !.stack = t] /\ Seen(n).stack = t
    BY <1>3, <1>11 DEF Seen, SeenTop
  <1>14. Seen(n) \in [stack : Seq(Frames), move : BOOLEAN]
    BY <1>3, <1>12, <1>13
  <1>15. CASE q \in dirs
    <2>1. copying' = [Seen(n) EXCEPT !.stack = Append(@, Frame(q, dst))] /\ dirs' = MkDir(dst)
          /\ UNCHANGED <<files, given_up>>
      BY <1>6, <1>15
    <2>2. PICK f : f = Frame(q, dst)
      OBVIOUS
    <2>3. f \in Frames /\ f.dst = dst
      BY <1>7, <1>9, <2>2 DEF Frame, Frames
    <2>4. Tree(dirs', DOMAIN files') /\ dirs' \subseteq dirs \cup {dst}
      BY <1>1, <1>9, <2>1, MkDirKeeps
    <2>5. Stacked(t, dirs', DOMAIN files')
      <3>1. dirs' \cup DOMAIN files' \subseteq dirs \cup DOMAIN files \cup {Append(s[Len(s)].dst, n)}
        BY <1>5, <2>1, <2>4
      <3> QED
        BY <1>3, <1>7, <1>11, <3>1, SeenStacked
    <2>6. Len(t[1].dst) # 1 => Entered(f, dirs', DOMAIN files')
      <3>1. SUFFICES ASSUME Len(t[1].dst) # 1 PROVE Entered(f, dirs', DOMAIN files')
        OBVIOUS
      <3>2. dst \notin dirs
        BY <1>10, <1>12, <3>1
      <3>3. Entered(f, dirs \cup {dst}, DOMAIN files)
        BY <1>1, <1>9, <2>3, <3>2, NothingIn
      <3> QED
        BY <2>1, <2>4, <3>3 DEF Entered
    <2>7. PICK u : u = Append(t, f)
      OBVIOUS
    <2>8. Stacked(u, dirs', DOMAIN files')
      <3>1. Len(f.dst) = Len(t[Len(t)].dst) + 1
        BY <1>9, <1>12, <2>3
      <3> QED
        BY <2>3, <2>5, <2>6, <2>7, <3>1, PushStacked
    <2>9. u \in Seq(Frames)
      BY <2>8 DEF Stacked
    <2>10. copying' = [Seen(n) EXCEPT !.stack = u]
      BY <1>13, <2>1, <2>2, <2>7
    <2>11. copying' \in [stack : Seq(Frames), move : BOOLEAN] /\ copying'.stack = u
      BY <1>14, <2>9, <2>10
    <2>12. Copying'
      BY <2>8, <2>11 DEF Copying
    <2>13. ContentKept
      BY <2>1, SameFiles
    <2> QED
      BY <1>1, <1>2, <2>4, <2>12, <2>13, KeptIsThere DEF FilesInv, FilesTyped
  <1>16. CASE q \notin dirs
    <2>1. copying' = Seen(n) /\ CopyFile(q, dst, copying.move) /\ dirs' = dirs
      BY <1>6, <1>16
    <2>2. q \in DOMAIN files /\ copying.move \in BOOLEAN
      BY <1>3, <1>7, <1>16
    <2>3. ToRoot \/ dst \notin DOMAIN files
      BY <1>2, <1>10 DEF ToRoot
    <2>4. Tree(dirs', DOMAIN files') /\ ContentKept /\ DOMAIN files' \subseteq DOMAIN files \cup {dst}
      BY <1>1, <1>9, <2>1, <2>2, <2>3, CopyFileKeeps
    <2>5. Stacked(t, dirs', DOMAIN files')
      <3>1. dirs' \cup DOMAIN files' \subseteq dirs \cup DOMAIN files \cup {Append(s[Len(s)].dst, n)}
        BY <1>5, <2>1, <2>4
      <3> QED
        BY <1>3, <1>7, <1>11, <3>1, SeenStacked
    <2>6. Copying'
      BY <1>13, <1>14, <2>1, <2>5 DEF Copying
    <2> QED
      BY <1>1, <1>2, <2>4, <2>6, KeptIsThere DEF FilesInv, FilesTyped
  <1> QED
    BY <1>15, <1>16

LEMMA CopyDoneKeeps == FilesInv /\ CopyDone => FilesInv'
  <1> SUFFICES ASSUME FilesInv, CopyDone PROVE FilesInv'
    OBVIOUS
  <1> DEFINE s == copying.stack
  <1>1. currdir \in Path /\ Tree(dirs, DOMAIN files) /\ NothingLost
    BY DEF FilesInv, FilesTyped
  <1>2. copying # NoCopy /\ currdir' = currdir /\ given_up' = given_up
    BY DEF CopyDone
  <1>3. copying \in [stack : Seq(Frames), move : BOOLEAN] /\ Stacked(s, dirs, DOMAIN files)
    BY <1>2 DEF FilesInv, Copying
  <1>4. PICK p : p = Top.src
    OBVIOUS
  <1>5. p \in Path
    BY <1>3, <1>4, StackIs DEF Top
  <1>6. files' = files /\ (dirs' = dirs \/ (Below(p) = {} /\ dirs' = dirs \ {p}))
    BY <1>4 DEF CopyDone, RemoveSource, fs
  <1>7. Tree(dirs', DOMAIN files')
    BY <1>1, <1>5, <1>6, OneGone DEF Below
  <1>8. ContentKept
    BY <1>2, <1>6, SameFiles
  <1>9. Copying'
    <2>1. CASE Len(s) = 1
      BY <2>1 DEF CopyDone, Copying
    <2>2. CASE Len(s) # 1
      <3>1. PICK t : t = Front(s)
        OBVIOUS
      <3>2. copying' = [copying EXCEPT !.stack = t]
        BY <2>2, <3>1 DEF CopyDone
      <3>3. t \in Seq(Frames) /\ Stacked(t, dirs, DOMAIN files)
        BY <1>3, <2>2, <3>1, PopStacked
      <3>4. dirs' \cup DOMAIN files' \subseteq dirs \cup DOMAIN files
        BY <1>6
      <3>5. Stacked(t, dirs', DOMAIN files')
        BY <3>3, <3>4, StackedLess
      <3>6. copying' \in [stack : Seq(Frames), move : BOOLEAN] /\ copying'.stack = t
        BY <1>3, <3>2, <3>3
      <3> QED
        BY <3>5, <3>6 DEF Copying
    <2> QED
      BY <2>1, <2>2
  <1> QED
    BY <1>1, <1>2, <1>7, <1>8, <1>9, KeptIsThere DEF FilesInv, FilesTyped

LEMMA FilesInvNext == FilesInv /\ [FilesNext]_filevars => FilesInv'
  <1> SUFFICES ASSUME FilesInv, [FilesNext]_filevars PROVE FilesInv'
    OBVIOUS
  <1>1. CASE cp_cmd
    BY <1>1, CopyCmdKeeps DEF cp_cmd
  <1>2. CASE mv_cmd
    BY <1>2, CopyCmdKeeps DEF mv_cmd
  <1>3. CASE UNCHANGED filevars
    BY <1>3 DEF filevars, FilesInv, FilesTyped, Copying, NothingLost
  <1> QED
    BY <1>1, <1>2, <1>3, chdirKeeps, mkdirKeeps, rmdirKeeps, rmKeeps, renameKeeps, CopyEntryKeeps,
       CopyDoneKeeps DEF FilesNext

\* No content of a file disappears without being given up, however many files,
\* directories and commands there are and whatever copies fail (mv_cmd,
\* CopyDirectory, CopyFile).
THEOREM ContentStays == FilesSpec => []NothingLost
  <1>1. FilesInit => FilesInv
    BY FilesInvInit
  <1>2. FilesInv /\ [FilesNext]_filevars => FilesInv'
    BY FilesInvNext
  <1>3. FilesInv => NothingLost
    BY DEF FilesInv
  <1> QED
    BY <1>1, <1>2, <1>3, PTL DEF FilesSpec

-----------------------------------------------------------------------------
(* The names of the PC.                                                     *)

\* Sequences that agree up to a place.
LEMMA StartOf ==
  ASSUME NEW S, NEW s \in Seq(S), NEW n \in 0..Len(s)
  PROVE  /\ SubSeq(s, 1, n) \in Seq(S) /\ Len(SubSeq(s, 1, n)) = n
         /\ \A i \in 1..n : SubSeq(s, 1, n)[i] = s[i]
  <1>1. \A i \in 1..n : s[i] \in S
    BY ElementOfSeq, LenProperties
  <1>2. Len(s) \in Nat
    BY LenProperties
  <1>3. /\ SubSeq(s, 1, n) \in Seq(S) /\ Len(SubSeq(s, 1, n)) = IF 1 <= n THEN n - 1 + 1 ELSE 0
        /\ \A i \in 1..(n - 1 + 1) : SubSeq(s, 1, n)[i] = s[1 + i - 1]
    BY <1>1, <1>2, SubSeqProperties
  <1>4. \A i \in 1..n : i \in 1..(n - 1 + 1) /\ 1 + i - 1 = i
    BY <1>2
  <1>5. n \in Nat
    BY <1>2
  <1>6. (IF 1 <= n THEN n - 1 + 1 ELSE 0) = n
    BY <1>5
  <1> QED
    BY <1>3, <1>4, <1>6

LEMMA StartGrows ==
  ASSUME NEW S, NEW s \in Seq(S), NEW n \in 0..(Len(s) - 1)
  PROVE  Append(SubSeq(s, 1, n), s[n + 1]) = SubSeq(s, 1, n + 1)
  <1>1. Len(s) \in Nat /\ n \in 0..Len(s) /\ n + 1 \in 0..Len(s) /\ n + 1 \in 1..Len(s)
    BY LenProperties
  <1>2. PICK a : a = SubSeq(s, 1, n)
    OBVIOUS
  <1>3. PICK b : b = SubSeq(s, 1, n + 1)
    OBVIOUS
  <1>4. a \in Seq(S) /\ Len(a) = n /\ \A i \in 1..n : a[i] = s[i]
    BY <1>1, <1>2, StartOf
  <1>5. b \in Seq(S) /\ Len(b) = n + 1 /\ \A i \in 1..(n + 1) : b[i] = s[i]
    BY <1>1, <1>3, StartOf
  <1>6. PICK e \in S : e = s[n + 1]
    BY <1>1, ElementOfSeq
  <1>7. PICK c : c = Append(a, e)
    OBVIOUS
  <1>8. c \in Seq(S) /\ Len(c) = n + 1 /\ (\A i \in 1..n : c[i] = a[i]) /\ c[n + 1] = e
    BY <1>4, <1>6, <1>7, AppendProperties
  <1>9. \A i \in 1..(n + 1) : c[i] = b[i]
    <2>1. SUFFICES ASSUME NEW i \in 1..(n + 1) PROVE c[i] = b[i]
      OBVIOUS
    <2>2. b[i] = s[i]
      BY <1>5
    <2>3. CASE i = n + 1
      BY <1>6, <1>8, <2>2, <2>3
    <2>4. CASE i # n + 1
      <3>1. i \in 1..n
        BY <1>1, <2>4
      <3> QED
        BY <1>4, <1>8, <2>2, <3>1
    <2> QED
      BY <2>3, <2>4
  <1>10. c = b
    BY <1>5, <1>8, <1>9, SeqEqual
  <1> QED
    BY <1>2, <1>3, <1>6, <1>7, <1>10

LEMMA FrontIs ==
  ASSUME NEW S, NEW s \in Seq(S), NEW e \in S
  PROVE  Append(s, e) # <<>> /\ Front(Append(s, e)) = s
  <1>1. PICK a : a = Append(s, e)
    OBVIOUS
  <1>2. a \in Seq(S) /\ a # <<>> /\ Len(a) = Len(s) + 1 /\ (\A i \in 1..Len(s) : a[i] = s[i])
    BY <1>1, AppendProperties
  <1>3. Len(s) \in Nat /\ Len(a) - 1 = Len(s) /\ Len(s) \in 0..Len(a)
    BY <1>2, LenProperties
  <1>4. PICK b : b = SubSeq(a, 1, Len(s))
    OBVIOUS
  <1>5. b \in Seq(S) /\ Len(b) = Len(s) /\ \A i \in 1..Len(s) : b[i] = a[i]
    BY <1>2, <1>3, <1>4, StartOf
  <1>6. b = s
    BY <1>2, <1>5, SeqEqual
  <1> QED
    BY <1>1, <1>2, <1>3, <1>4, <1>6 DEF Front

LEMMA FrontTyped ==
  ASSUME NEW S, NEW s \in Seq(S), s # <<>>
  PROVE  /\ Front(s) \in Seq(S) /\ Len(Front(s)) = Len(s) - 1 /\ Len(s) \in Nat \ {0}
         /\ Last(s) \in S
  <1>1. Len(s) \in Nat \ {0} /\ Len(s) - 1 \in 0..Len(s) /\ Len(s) \in 1..Len(s)
    BY EmptySeq
  <1> QED
    BY <1>1, StartOf, ElementOfSeq DEF Front, Last

LEMMA AppendBehind ==
  ASSUME NEW S, NEW r \in Seq(S), NEW s \in Seq(S), NEW e \in S
  PROVE  r \o Append(s, e) = Append(r \o s, e)
  <1>1. PICK a, b, c, d : a = Append(s, e) /\ b = r \o a /\ c = r \o s /\ d = Append(c, e)
    OBVIOUS
  <1>2. Len(r) \in Nat /\ Len(s) \in Nat
    BY LenProperties
  <1>3. a \in Seq(S) /\ Len(a) = Len(s) + 1 /\ (\A i \in 1..Len(s) : a[i] = s[i]) /\ a[Len(s) + 1] = e
    BY <1>1, AppendProperties
  <1>4. c \in Seq(S) /\ Len(c) = Len(r) + Len(s)
        /\ \A i \in 1..(Len(r) + Len(s)) : c[i] = IF i <= Len(r) THEN r[i] ELSE s[i - Len(r)]
    BY <1>1, ConcatProperties
  <1>5. b \in Seq(S) /\ Len(b) = Len(r) + Len(a)
        /\ \A i \in 1..(Len(r) + Len(a)) : b[i] = IF i <= Len(r) THEN r[i] ELSE a[i - Len(r)]
    BY <1>1, <1>3, ConcatProperties
  <1>6. d \in Seq(S) /\ Len(d) = Len(c) + 1 /\ (\A i \in 1..Len(c) : d[i] = c[i]) /\ d[Len(c) + 1] = e
    BY <1>1, <1>4, AppendProperties
  <1>7. ASSUME NEW i \in 1..Len(b) PROVE b[i] = d[i]
    <2>1. CASE i <= Len(r)
      <3>1. i \in 1..Len(c) /\ i \in 1..(Len(r) + Len(s)) /\ i \in 1..(Len(r) + Len(a))
        BY <1>2, <1>3, <1>4, <1>5, <2>1
      <3>2. d[i] = c[i] /\ c[i] = r[i]
        BY <1>4, <1>6, <2>1, <3>1
      <3>3. b[i] = r[i]
        BY <1>5, <2>1, <3>1
      <3> QED
        BY <3>2, <3>3
    <2>2. CASE i > Len(r) /\ i <= Len(r) + Len(s)
      <3>1. i - Len(r) \in 1..Len(s) /\ i \in 1..Len(c) /\ ~(i <= Len(r))
        BY <1>2, <1>4, <2>2
      <3>2. b[i] = a[i - Len(r)] /\ a[i - Len(r)] = s[i - Len(r)]
        BY <1>3, <1>5, <3>1
      <3>3. d[i] = c[i] /\ c[i] = s[i - Len(r)]
        BY <1>4, <1>6, <3>1
      <3> QED
        BY <3>2, <3>3
    <2>3. CASE i > Len(r) + Len(s)
      <3>1. i = Len(r) + Len(s) + 1 /\ i - Len(r) = Len(s) + 1 /\ ~(i <= Len(r)) /\ i = Len(c) + 1
        BY <1>2, <1>3, <1>4, <1>5, <2>3
      <3>2. b[i] = a[i - Len(r)]
        BY <1>5, <3>1
      <3> QED
        BY <1>3, <1>6, <3>1, <3>2
    <2> QED
      BY <1>2, <1>3, <1>5, <2>1, <2>2, <2>3
  <1>8. Len(b) = Len(d)
    BY <1>2, <1>3, <1>4, <1>5, <1>6
  <1>9. b = d
    BY <1>5, <1>6, <1>7, <1>8, SeqEqual
  <1> QED
    BY <1>1, <1>9
-----------------------------------------------------------------------------
(* The tokens of a string.                                                   *)

Scan == [done : Seq(Text), run : Seq(Atom)]

LEMMA EndTokenTyped ==
  ASSUME NEW a \in Scan
  PROVE  EndToken(a) \in Scan
  <1>1. a.done \in Seq(Text) /\ a.run \in Seq(Atom)
    BY DEF Scan
  <1>2. a.run # <<>> => a.run \in Text
    BY <1>1 DEF Text
  <1> HIDE DEF Text
  <1>3. a.run # <<>> => Append(a.done, a.run) \in Seq(Text)
    BY <1>1, <1>2, AppendProperties
  <1>4. <<>> \in Seq(Atom)
    BY EmptySeq
  <1> QED
    BY <1>1, <1>3, <1>4 DEF EndToken, Scan

LEMMA TokenStepTyped ==
  ASSUME NEW a \in Scan, NEW x \in Atom
  PROVE  TokenStep(a, x) \in Scan
  <1>1. a.done \in Seq(Text) /\ a.run \in Seq(Atom)
    BY DEF Scan
  <1>2. Append(a.run, x) \in Seq(Atom)
    BY <1>1, AppendProperties
  <1>3. x # "/" => TokenStep(a, x) \in Scan
    BY <1>1, <1>2 DEF TokenStep, Scan
  <1> QED
    BY <1>3, EndTokenTyped DEF TokenStep

\* TokensOf, step by step.
LEMMA TokensAre ==
  ASSUME NEW s \in Seq(Atom)
  PROVE  \E acc \in [0..Len(s) -> Scan] :
           /\ acc[0] = [done |-> <<>>, run |-> <<>>]
           /\ \A k \in 1..Len(s) : acc[k] = TokenStep(acc[k - 1], s[k])
           /\ TokensOf(s) = EndToken(acc[Len(s)]).done
  <1> DEFINE first == [done |-> <<>>, run |-> <<>>]
             Body(g) == [k \in 0..Len(s) |-> IF k = 0 THEN first ELSE TokenStep(g[k - 1], s[k])]
             next == [k \in 1..Len(s) |-> [a \in Scan |-> TokenStep(a, s[k])]]
             acc == CHOOSE g : g = Body(g)
  <1>1. first \in Scan
    BY EmptySeq DEF Scan
  <1>2. Len(s) \in Nat /\ \A k \in 1..Len(s) : s[k] \in Atom
    BY LenProperties, ElementOfSeq
  <1>3. next \in [1..Len(s) -> [Scan -> Scan]]
    BY <1>2, TokenStepTyped
  <1>4. ASSUME NEW k \in 1..Len(s), NEW a \in Scan PROVE next[k][a] = TokenStep(a, s[k])
    OBVIOUS
  <1> HIDE DEF first, next
  <1>5. PICK h \in [0..Len(s) -> Scan] : h[0] = first /\ \A k \in 1..Len(s) : h[k] = next[k][h[k - 1]]
    <2>1. PICK S, f, t, n : S = Scan /\ f = first /\ t = next /\ n = Len(s)
      OBVIOUS
    <2>2. f \in S /\ n \in Nat /\ t \in [1..n -> [S -> S]]
      BY <1>1, <1>2, <1>3, <2>1
    <2>3. \E h \in [0..n -> S] : h[0] = f /\ \A k \in 1..n : h[k] = t[k][h[k - 1]]
      BY <2>2, Stepped
    <2> QED
      BY <2>1, <2>3
  <1>6. ASSUME NEW k \in 1..Len(s) PROVE h[k - 1] \in Scan /\ h[k] = TokenStep(h[k - 1], s[k])
    <2>1. h[k - 1] \in Scan
      BY <1>2, <1>5
    <2> QED
      BY <1>4, <1>5, <2>1
  <1>7. h = Body(h)
    <2>1. ASSUME NEW k \in 0..Len(s) PROVE h[k] = IF k = 0 THEN first ELSE TokenStep(h[k - 1], s[k])
      BY <1>2, <1>5, <1>6
    <2> QED
      BY <1>5, <2>1
  <1>8. acc = Body(acc)
    <2> DEFINE Is(g) == g = Body(g)
    <2>1. Is(h)
      BY <1>7
    <2> HIDE DEF Is
    <2>2. Is(CHOOSE g : Is(g))
      BY <2>1
    <2> QED
      BY <2>2 DEF Is
  <1>9. TokensOf(s) = EndToken(acc[Len(s)]).done
    BY DEF TokensOf, first
  <1> HIDE DEF acc
  <1>10. acc \in [0..Len(s) -> Scan]
    <2> DEFINE T == {k \in 0..Len(s) : acc[k] \in Scan}
    <2>1. 0 \in T
      BY <1>1, <1>2, <1>8
    <2>2. ASSUME NEW k \in 0..(Len(s) - 1), k \in T PROVE k + 1 \in T
      <3>1. k + 1 \in 0..Len(s) /\ k + 1 \in 1..Len(s) /\ (k + 1) - 1 = k /\ k + 1 # 0
        BY <1>2
      <3>2. acc[k + 1] = TokenStep(acc[k], s[k + 1])
        BY <1>8, <3>1
      <3> QED
        BY <1>2, <2>2, <3>1, <3>2, TokenStepTyped
    <2> HIDE DEF T
    <2>3. 0..Len(s) \subseteq T
      BY <1>2, <2>1, <2>2, EachStep
    <2> QED
      BY <1>8, <2>3 DEF T
  <1>11. acc[0] = first /\ \A k \in 1..Len(s) : acc[k] = TokenStep(acc[k - 1], s[k])
    BY <1>2, <1>8
  <1> QED
    BY <1>9, <1>10, <1>11 DEF first

LEMMA TokensTyped ==
  ASSUME NEW s \in Seq(Atom)
  PROVE  TokensOf(s) \in Seq(Text)
  <1>1. PICK acc \in [0..Len(s) -> Scan] : TokensOf(s) = EndToken(acc[Len(s)]).done
    BY TokensAre
  <1>2. Len(s) \in 0..Len(s)
    BY LenProperties
  <1> QED
    BY <1>1, <1>2, EndTokenTyped DEF Scan

\* A run without slashes behind a slash is one more token.
LEMMA OneMoreToken ==
  ASSUME NEW c \in Seq(Atom), NEW t \in Text, Len(c) > 0, c[Len(c)] = "/",
         \A i \in 1..Len(t) : t[i] # "/"
  PROVE  TokensOf(c \o t) = Append(TokensOf(c), t)
  <1>1. PICK s : s = c \o t
    OBVIOUS
  <1>2. t \in Seq(Atom) /\ t # <<>>
    BY DEF Text
  <1>3. Len(c) \in Nat \ {0} /\ Len(t) \in Nat /\ Len(c) \in 1..Len(c)
    BY <1>2, LenProperties
  <1>4. s \in Seq(Atom) /\ Len(s) = Len(c) + Len(t)
        /\ \A i \in 1..(Len(c) + Len(t)) : s[i] = IF i <= Len(c) THEN c[i] ELSE t[i - Len(c)]
    BY <1>1, <1>2, ConcatProperties
  <1>5. PICK A \in [0..Len(c) -> Scan] :
           /\ A[0] = [done |-> <<>>, run |-> <<>>]
           /\ \A k \in 1..Len(c) : A[k] = TokenStep(A[k - 1], c[k])
           /\ TokensOf(c) = EndToken(A[Len(c)]).done
    BY TokensAre
  <1>6. PICK B \in [0..Len(s) -> Scan] :
           /\ B[0] = [done |-> <<>>, run |-> <<>>]
           /\ \A k \in 1..Len(s) : B[k] = TokenStep(B[k - 1], s[k])
           /\ TokensOf(s) = EndToken(B[Len(s)]).done
    BY <1>4, TokensAre
  <1>7. A[Len(c)] = B[Len(c)]
    <2> DEFINE T == {k \in 0..Len(c) : A[k] = B[k]}
    <2>1. 0 \in T
      BY <1>3, <1>5, <1>6
    <2>2. ASSUME NEW k \in 0..(Len(c) - 1), k \in T PROVE k + 1 \in T
      <3>1. /\ k + 1 \in 0..Len(c) /\ k + 1 \in 1..Len(c) /\ (k + 1) - 1 = k
            /\ k + 1 \in 1..Len(s) /\ k + 1 \in 1..(Len(c) + Len(t)) /\ k + 1 <= Len(c)
        BY <1>3, <1>4
      <3>2. A[k + 1] = TokenStep(A[k], c[k + 1]) /\ B[k + 1] = TokenStep(B[k], s[k + 1])
        BY <1>5, <1>6, <3>1
      <3>3. s[k + 1] = c[k + 1] /\ A[k] = B[k]
        BY <1>4, <2>2, <3>1
      <3> QED
        BY <3>1, <3>2, <3>3
    <2> HIDE DEF T
    <2>3. 0..Len(c) \subseteq T
      BY <1>3, <2>1, <2>2, EachStep
    <2>4. Len(c) \in T
      BY <1>3, <2>3
    <2> QED
      BY <2>4 DEF T
  <1>8. PICK D \in Seq(Text) : A[Len(c)] = [done |-> D, run |-> <<>>]
    <2>1. A[Len(c) - 1] \in Scan /\ A[Len(c)] = TokenStep(A[Len(c) - 1], "/")
      <3>1. Len(c) - 1 \in 0..Len(c)
        BY <1>3
      <3>2. A[Len(c) - 1] \in Scan
        BY <1>5, <3>1
      <3>3. A[Len(c)] = TokenStep(A[Len(c) - 1], c[Len(c)])
        BY <1>3, <1>5
      <3> QED
        BY <3>2, <3>3
    <2>2. A[Len(c)] = EndToken(A[Len(c) - 1]) /\ EndToken(A[Len(c) - 1]) \in Scan
      BY <2>1, EndTokenTyped DEF TokenStep
    <2> QED
      BY <2>2 DEF EndToken, Scan
  <1>9. TokensOf(c) = D
    BY <1>5, <1>8 DEF EndToken
  <1>10. ASSUME NEW j \in 0..Len(t)
         PROVE  B[Len(c) + j] = [done |-> D, run |-> SubSeq(t, 1, j)]
    <2> DEFINE T == {k \in 0..Len(t) : B[Len(c) + k] = [done |-> D, run |-> SubSeq(t, 1, k)]}
    <2>1. 0 \in T
      <3>1. SubSeq(t, 1, 0) = <<>>
        BY SubSeqEmpty
      <3>2. Len(c) + 0 = Len(c) /\ 0 \in 0..Len(t)
        BY <1>3
      <3> QED
        BY <1>7, <1>8, <3>1, <3>2
    <2>2. ASSUME NEW k \in 0..(Len(t) - 1), k \in T PROVE k + 1 \in T
      <3>1. /\ k + 1 \in 0..Len(t) /\ k + 1 \in 1..Len(t) /\ (Len(c) + (k + 1)) - 1 = Len(c) + k
            /\ Len(c) + (k + 1) \in 1..Len(s) /\ Len(c) + (k + 1) \in 1..(Len(c) + Len(t))
            /\ ~(Len(c) + (k + 1) <= Len(c)) /\ (Len(c) + (k + 1)) - Len(c) = k + 1
        BY <1>3, <1>4
      <3>2. s[Len(c) + (k + 1)] = t[k + 1]
        BY <1>4, <3>1
      <3>3. B[Len(c) + (k + 1)] = TokenStep(B[Len(c) + k], t[k + 1])
        BY <1>6, <3>1, <3>2
      <3>4. B[Len(c) + k] = [done |-> D, run |-> SubSeq(t, 1, k)]
        BY <2>2
      <3>5. Append(SubSeq(t, 1, k), t[k + 1]) = SubSeq(t, 1, k + 1)
        BY <1>2, StartGrows
      <3>6. t[k + 1] # "/"
        BY <3>1
      <3>7. B[Len(c) + (k + 1)] = [done |-> D, run |-> SubSeq(t, 1, k + 1)]
        <4>1. PICK b, r, x, r2 : /\ b = B[Len(c) + k] /\ r = SubSeq(t, 1, k) /\ x = t[k + 1]
                                /\ r2 = SubSeq(t, 1, k + 1)
          OBVIOUS
        <4>2. b.done = D /\ b.run = r
          BY <3>4, <4>1
        <4>3. TokenStep(b, x) = [done |-> D, run |-> Append(r, x)]
          BY <3>6, <4>1, <4>2 DEF TokenStep
        <4> QED
          BY <3>3, <3>5, <4>1, <4>3
      <3> QED
        BY <3>1, <3>7
    <2> HIDE DEF T
    <2>3. 0..Len(t) \subseteq T
      BY <1>3, <2>1, <2>2, EachStep
    <2> QED
      BY <2>3 DEF T
  <1>11. Len(t) \in 0..Len(t) /\ SubSeq(t, 1, Len(t)) = t
    BY <1>2, <1>3, SubSeqFull
  <1>12. B[Len(s)] = [done |-> D, run |-> t]
    BY <1>4, <1>10, <1>11
  <1>13. TokensOf(s) = Append(D, t)
    BY <1>2, <1>6, <1>12 DEF EndToken
  <1> QED
    BY <1>1, <1>9, <1>13
-----------------------------------------------------------------------------
(* gen_path.                                                                 *)

Most == MaxTokens - 1
Root == {p \in PcPath : Len(p) <= Most}

LEMMA MostIs == Most \in Nat
  <1>1. Len(Cwd0) \in Nat /\ Len(Cwd0) < MaxTokens /\ MaxTokens \in Nat
    BY NamesAssumption, LenProperties DEF PcPath
  <1> QED
    BY <1>1 DEF Most

LEMMA NameIs == FileName \subseteq Text
  BY DEF FileName

LEMMA FirstAre ==
  ASSUME NEW S, NEW s \in Seq(S)
  PROVE  /\ FirstTokens(s) \in Seq(S)
         /\ Len(FirstTokens(s)) = IF Len(s) < Most THEN Len(s) ELSE Most
         /\ \A i \in 1..Len(FirstTokens(s)) : FirstTokens(s)[i] = s[i]
         /\ Len(s) <= Most => FirstTokens(s) = s
         /\ FirstTokens(s) = SubSeq(s, 1, IF Len(s) < Most THEN Len(s) ELSE Most)
  <1>1. PICK n : n = IF Len(s) < Most THEN Len(s) ELSE Most
    OBVIOUS
  <1>2. Len(s) \in Nat /\ n \in 0..Len(s)
    BY <1>1, LenProperties, MostIs
  <1>3. PICK f : f = SubSeq(s, 1, n)
    OBVIOUS
  <1>4. f = FirstTokens(s)
    BY <1>1, <1>3 DEF FirstTokens, Most
  <1>5. f \in Seq(S) /\ Len(f) = n /\ \A i \in 1..n : f[i] = s[i]
    BY <1>2, <1>3, StartOf
  <1>6. Len(s) <= Most => n = Len(s)
    BY <1>1, <1>2, MostIs
  <1>7. Len(s) <= Most => f = s
    BY <1>3, <1>6, SubSeqFull
  <1> QED
    BY <1>1, <1>3, <1>4, <1>5, <1>7

LEMMA NormalStepTyped ==
  ASSUME NEW out \in PcPath, NEW t \in Text
  PROVE  /\ NormalStep(out, t) \in PcPath
         /\ Len(out) \in Nat /\ Len(NormalStep(out, t)) \in 0..(Len(out) + 1)
         /\ t \in FileName => NormalStep(out, t) = Append(out, t)
  <1>1. PICK P : P = FileName
    OBVIOUS
  <1>2. out \in Seq(P) /\ Len(out) \in Nat
    BY <1>1, LenProperties DEF PcPath
  <1>3. PICK a : a = Append(out, t)
    OBVIOUS
  <1>4. t \in FileName => a \in Seq(P) /\ Len(a) = Len(out) + 1
    BY <1>1, <1>2, <1>3, AppendProperties
  <1>5. PICK f : f = Front(out)
    OBVIOUS
  <1>6. out # <<>> => f \in Seq(P) /\ Len(f) = Len(out) - 1 /\ Len(out) \in Nat \ {0}
    BY <1>2, <1>5, FrontTyped
  <1>7. t \notin FileName => t = <<".">> \/ t = <<".", ".">>
    BY DEF FileName
  <1>8. <<".">> # <<".", ".">>
    OBVIOUS
  <1>9. t \in FileName => t # <<".">> /\ t # <<".", ".">>
    BY DEF FileName
  <1>10. t \in FileName => NormalStep(out, t) = a
    BY <1>3, <1>9 DEF NormalStep
  <1>11. t \notin FileName => NormalStep(out, t) = out \/ (out # <<>> /\ NormalStep(out, t) = f)
    BY <1>5, <1>7, <1>8 DEF NormalStep
  <1>12. PICK r : r = NormalStep(out, t)
    OBVIOUS
  <1>13. r \in Seq(P) /\ Len(r) \in 0..(Len(out) + 1)
    <2>1. CASE t \in FileName
      BY <1>2, <1>4, <1>10, <1>12, <2>1
    <2>2. CASE t \notin FileName
      BY <1>2, <1>6, <1>11, <1>12, <2>2
    <2> QED
      BY <2>1, <2>2
  <1> QED
    BY <1>1, <1>2, <1>3, <1>10, <1>12, <1>13 DEF PcPath

\* gen_path, token by token.
LEMMA PathsAre ==
  ASSUME NEW toks \in Seq(Text)
  PROVE  \E out \in [0..Len(FirstTokens(toks)) -> PcPath] :
           /\ out[0] = <<>>
           /\ \A k \in 1..Len(FirstTokens(toks)) : out[k] = NormalStep(out[k - 1], FirstTokens(toks)[k])
           /\ gen_path(toks) = out[Len(FirstTokens(toks))]
  <1>1. PICK s : s = FirstTokens(toks)
    OBVIOUS
  <1>2. s \in Seq(Text)
    BY <1>1, FirstAre
  <1> DEFINE Body(g) == [k \in 0..Len(s) |-> IF k = 0 THEN <<>> ELSE NormalStep(g[k - 1], s[k])]
             next == [k \in 1..Len(s) |-> [a \in PcPath |-> NormalStep(a, s[k])]]
             out == CHOOSE g : g = Body(g)
  <1>3. <<>> \in PcPath
    BY EmptySeq DEF PcPath
  <1>4. Len(s) \in Nat /\ \A k \in 1..Len(s) : s[k] \in Text
    BY <1>2, LenProperties, ElementOfSeq
  <1>5. next \in [1..Len(s) -> [PcPath -> PcPath]]
    BY <1>4, NormalStepTyped
  <1>6. ASSUME NEW k \in 1..Len(s), NEW a \in PcPath PROVE next[k][a] = NormalStep(a, s[k])
    OBVIOUS
  <1> HIDE DEF next
  <1>7. PICK h \in [0..Len(s) -> PcPath] : h[0] = <<>> /\ \A k \in 1..Len(s) : h[k] = next[k][h[k - 1]]
    <2>1. PICK S, f, t, n : S = PcPath /\ f = <<>> /\ t = next /\ n = Len(s)
      OBVIOUS
    <2>2. f \in S /\ n \in Nat /\ t \in [1..n -> [S -> S]]
      BY <1>3, <1>4, <1>5, <2>1
    <2>3. \E h \in [0..n -> S] : h[0] = f /\ \A k \in 1..n : h[k] = t[k][h[k - 1]]
      BY <2>2, Stepped
    <2> QED
      BY <2>1, <2>3
  <1>8. ASSUME NEW k \in 1..Len(s) PROVE h[k - 1] \in PcPath /\ h[k] = NormalStep(h[k - 1], s[k])
    <2>1. h[k - 1] \in PcPath
      BY <1>4, <1>7
    <2> QED
      BY <1>6, <1>7, <2>1
  <1>9. h = Body(h)
    <2>1. ASSUME NEW k \in 0..Len(s) PROVE h[k] = IF k = 0 THEN <<>> ELSE NormalStep(h[k - 1], s[k])
      BY <1>4, <1>7, <1>8
    <2> QED
      BY <1>7, <2>1
  <1>10. out = Body(out)
    <2> DEFINE Is(g) == g = Body(g)
    <2>1. Is(h)
      BY <1>9
    <2> HIDE DEF Is
    <2>2. Is(CHOOSE g : Is(g))
      BY <2>1
    <2> QED
      BY <2>2 DEF Is
  <1>11. gen_path(toks) = out[Len(s)]
    BY <1>1 DEF gen_path
  <1> HIDE DEF out
  <1>12. out \in [0..Len(s) -> PcPath]
    <2> DEFINE T == {k \in 0..Len(s) : out[k] \in PcPath}
    <2>1. 0 \in T
      BY <1>3, <1>4, <1>10
    <2>2. ASSUME NEW k \in 0..(Len(s) - 1), k \in T PROVE k + 1 \in T
      <3>1. k + 1 \in 0..Len(s) /\ k + 1 \in 1..Len(s) /\ (k + 1) - 1 = k /\ k + 1 # 0
        BY <1>4
      <3>2. out[k + 1] = NormalStep(out[k], s[k + 1])
        BY <1>10, <3>1
      <3> QED
        BY <1>4, <2>2, <3>1, <3>2, NormalStepTyped
    <2> HIDE DEF T
    <2>3. 0..Len(s) \subseteq T
      BY <1>4, <2>1, <2>2, EachStep
    <2> QED
      BY <1>10, <2>3 DEF T
  <1>13. out[0] = <<>> /\ \A k \in 1..Len(s) : out[k] = NormalStep(out[k - 1], s[k])
    BY <1>4, <1>10
  <1> QED
    BY <1>1, <1>11, <1>12, <1>13

LEMMA PathTyped ==
  ASSUME NEW toks \in Seq(Text)
  PROVE  gen_path(toks) \in Root
  <1>1. PICK s : s = FirstTokens(toks)
    OBVIOUS
  <1>2. s \in Seq(Text) /\ Len(s) \in Nat /\ Len(s) <= Most
    <2>1. s \in Seq(Text) /\ Len(s) = IF Len(toks) < Most THEN Len(toks) ELSE Most
      BY <1>1, FirstAre
    <2>2. Len(toks) \in Nat /\ Len(s) \in Nat
      BY <2>1, LenProperties
    <2> QED
      BY <2>1, <2>2, MostIs
  <1>3. PICK out \in [0..Len(s) -> PcPath] :
           /\ out[0] = <<>>
           /\ \A k \in 1..Len(s) : out[k] = NormalStep(out[k - 1], s[k])
           /\ gen_path(toks) = out[Len(s)]
    BY <1>1, PathsAre
  <1> DEFINE T == {k \in 0..Len(s) : Len(out[k]) \in 0..k}
  <1>4. 0 \in T
    BY <1>2, <1>3, EmptySeq
  <1>5. ASSUME NEW k \in 0..(Len(s) - 1), k \in T PROVE k + 1 \in T
    <2>1. k + 1 \in 0..Len(s) /\ k + 1 \in 1..Len(s) /\ (k + 1) - 1 = k /\ k \in 0..Len(s)
      BY <1>2
    <2>2. out[k + 1] = NormalStep(out[k], s[k + 1]) /\ out[k] \in PcPath
      BY <1>3, <2>1
    <2>3. s[k + 1] \in Text
      BY <1>2, <2>1, ElementOfSeq
    <2>4. Len(out[k + 1]) \in 0..(Len(out[k]) + 1) /\ Len(out[k]) \in 0..k
      BY <1>5, <2>2, <2>3, NormalStepTyped
    <2>5. Len(out[k + 1]) \in 0..(k + 1)
      BY <2>1, <2>4
    <2> QED
      BY <2>1, <2>5
  <1> HIDE DEF T
  <1>6. 0..Len(s) \subseteq T
    BY <1>2, <1>4, <1>5, EachStep
  <1>7. Len(s) \in T
    BY <1>2, <1>6
  <1>8. Len(out[Len(s)]) \in 0..Len(s) /\ out[Len(s)] \in PcPath
    BY <1>2, <1>3, <1>7 DEF T
  <1>9. Len(out[Len(s)]) <= Most
    BY <1>2, <1>8, MostIs
  <1> QED
    BY <1>3, <1>8, <1>9 DEF Root

\* Of names only gen_path leaves out what is too many.
LEMMA PathOfNames ==
  ASSUME NEW toks \in PcPath
  PROVE  gen_path(toks) = FirstTokens(toks)
  <1>1. PICK s : s = FirstTokens(toks)
    OBVIOUS
  <1>2. s \in Seq(FileName) /\ Len(s) \in Nat
    BY <1>1, FirstAre, LenProperties DEF PcPath
  <1>3. toks \in Seq(Text)
    <2>1. PICK A, B : A = FileName /\ B = Text
      OBVIOUS
    <2>2. toks \in Seq(A) /\ A \subseteq B
      BY <2>1, NameIs DEF PcPath
    <2>3. toks \in Seq(B)
      BY <2>2, SeqMonotonic
    <2> QED
      BY <2>1, <2>3
  <1>4. PICK out \in [0..Len(s) -> PcPath] :
           /\ out[0] = <<>>
           /\ \A k \in 1..Len(s) : out[k] = NormalStep(out[k - 1], s[k])
           /\ gen_path(toks) = out[Len(s)]
    BY <1>1, <1>3, PathsAre
  <1> DEFINE T == {k \in 0..Len(s) : out[k] = SubSeq(s, 1, k)}
  <1>5. 0 \in T
    <2>1. SubSeq(s, 1, 0) = <<>>
      BY SubSeqEmpty
    <2> QED
      BY <1>2, <1>4, <2>1
  <1>6. ASSUME NEW k \in 0..(Len(s) - 1), k \in T PROVE k + 1 \in T
    <2>1. k + 1 \in 0..Len(s) /\ k + 1 \in 1..Len(s) /\ (k + 1) - 1 = k /\ k \in 0..Len(s)
      BY <1>2
    <2>2. out[k + 1] = NormalStep(out[k], s[k + 1]) /\ out[k] \in PcPath
      BY <1>4, <2>1
    <2>3. s[k + 1] \in FileName
      BY <1>2, <2>1, ElementOfSeq
    <2>4. NormalStep(out[k], s[k + 1]) = Append(out[k], s[k + 1])
      BY <2>2, <2>3, NameIs, NormalStepTyped
    <2>5. Append(SubSeq(s, 1, k), s[k + 1]) = SubSeq(s, 1, k + 1)
      BY <1>2, StartGrows
    <2> QED
      BY <1>6, <2>1, <2>2, <2>4, <2>5
  <1> HIDE DEF T
  <1>7. 0..Len(s) \subseteq T
    BY <1>2, <1>5, <1>6, EachStep
  <1>8. Len(s) \in T
    BY <1>2, <1>7
  <1>9. out[Len(s)] = s
    BY <1>2, <1>8, SubSeqFull DEF T
  <1> QED
    BY <1>1, <1>4, <1>9
\* One more name is one more in the path, or is left out.
LEMMA OneMoreName ==
  ASSUME NEW D \in Seq(Text), NEW t \in FileName
  PROVE  gen_path(Append(D, t)) = IF Len(D) < Most THEN Append(gen_path(D), t) ELSE gen_path(D)
  <1>1. PICK E : E = Append(D, t)
    OBVIOUS
  <1>2. t \in Text
    BY NameIs
  <1>3. E \in Seq(Text) /\ Len(E) = Len(D) + 1 /\ (\A i \in 1..Len(D) : E[i] = D[i]) /\ E[Len(D) + 1] = t
    BY <1>1, <1>2, AppendProperties
  <1>4. PICK r, s : r = FirstTokens(D) /\ s = FirstTokens(E)
    OBVIOUS
  <1>5. /\ r \in Seq(Text) /\ Len(r) = IF Len(D) < Most THEN Len(D) ELSE Most
        /\ \A i \in 1..Len(r) : r[i] = D[i]
    BY <1>4, FirstAre
  <1>6. /\ s \in Seq(Text) /\ Len(s) = IF Len(E) < Most THEN Len(E) ELSE Most
        /\ \A i \in 1..Len(s) : s[i] = E[i]
    BY <1>3, <1>4, FirstAre
  <1>7. Len(D) \in Nat /\ Len(r) \in Nat /\ Len(s) \in Nat /\ Len(r) <= Len(D) /\ Len(r) <= Len(s)
    <2>1. Len(D) \in Nat /\ Len(r) \in Nat /\ Len(s) \in Nat
      BY <1>5, <1>6, LenProperties
    <2> QED
      BY <1>3, <1>5, <1>6, <2>1, MostIs
  <1>8. \A i \in 1..Len(r) : r[i] = s[i] /\ r[i] \in Text
    BY <1>3, <1>5, <1>6, <1>7, ElementOfSeq
  <1>9. PICK A \in [0..Len(r) -> PcPath] :
           /\ A[0] = <<>>
           /\ \A k \in 1..Len(r) : A[k] = NormalStep(A[k - 1], r[k])
           /\ gen_path(D) = A[Len(r)]
    BY <1>4, PathsAre
  <1>10. PICK B \in [0..Len(s) -> PcPath] :
           /\ B[0] = <<>>
           /\ \A k \in 1..Len(s) : B[k] = NormalStep(B[k - 1], s[k])
           /\ gen_path(E) = B[Len(s)]
    BY <1>3, <1>4, PathsAre
  <1> DEFINE T == {k \in 0..Len(r) : A[k] = B[k]}
  <1>11. 0 \in T
    BY <1>7, <1>9, <1>10
  <1>12. ASSUME NEW k \in 0..(Len(r) - 1), k \in T PROVE k + 1 \in T
    <2>1. k + 1 \in 0..Len(r) /\ k + 1 \in 1..Len(r) /\ k + 1 \in 1..Len(s) /\ (k + 1) - 1 = k
      BY <1>7
    <2>2. A[k + 1] = NormalStep(A[k], r[k + 1]) /\ B[k + 1] = NormalStep(B[k], s[k + 1])
      BY <1>9, <1>10, <2>1
    <2> QED
      BY <1>8, <1>12, <2>1, <2>2
  <1> HIDE DEF T
  <1>13. 0..Len(r) \subseteq T
    BY <1>7, <1>11, <1>12, EachStep
  <1>14. Len(r) \in 0..Len(r) /\ Len(r) \in T
    BY <1>7, <1>13
  <1>15. A[Len(r)] = B[Len(r)] /\ A[Len(r)] \in PcPath
    BY <1>9, <1>14 DEF T
  <1>16. CASE Len(D) < Most
    <2>1. Len(s) = Len(r) + 1 /\ Len(r) = Len(D) /\ Len(s) \in 1..Len(s) /\ Len(s) - 1 = Len(r)
      BY <1>3, <1>5, <1>6, <1>7, <1>16, MostIs
    <2>2. s[Len(s)] = t
      BY <1>3, <1>6, <2>1
    <2>3. B[Len(s)] = NormalStep(B[Len(r)], t)
      BY <1>10, <2>1, <2>2
    <2>4. NormalStep(A[Len(r)], t) = Append(A[Len(r)], t)
      BY <1>2, <1>15, NormalStepTyped
    <2> QED
      BY <1>1, <1>9, <1>10, <1>15, <1>16, <2>3, <2>4
  <1>17. CASE ~(Len(D) < Most)
    <2>1. Len(s) = Len(r)
      BY <1>3, <1>5, <1>6, <1>7, <1>17, MostIs
    <2> QED
      BY <1>1, <1>9, <1>10, <1>15, <1>17, <2>1
  <1> QED
    BY <1>16, <1>17

-----------------------------------------------------------------------------
(* make_nocase.                                                              *)

TreeTyped == Present \subseteq PcPath
Search == PcPath \cup {Missing}

LEMMA FoundTyped ==
  ASSUME TreeTyped, NEW dir, NEW t
  PROVE  find_nocase(Present, dir, t) \in FileName \cup {Missing}
  <1> DEFINE match == {Last(p) : p \in {p \in Present :
                         p # <<>> /\ Front(p) = dir /\ LowerTok(Last(p)) = LowerTok(t)}}
             best  == {n \in match : \A o \in match : Rating(t, n) >= Rating(t, o)}
  <1>1. \A p \in Present : p # <<>> => Last(p) \in FileName
    <2> SUFFICES ASSUME NEW p \in Present, p # <<>> PROVE Last(p) \in FileName
      OBVIOUS
    <2>1. PICK S : S = FileName
      OBVIOUS
    <2>2. p \in Seq(S)
      BY <2>1 DEF TreeTyped, PcPath
    <2>3. Last(p) \in S
      BY <2>2, FrontTyped
    <2> QED
      BY <2>1, <2>3
  <1>2. match \subseteq FileName
    BY <1>1
  <1> HIDE DEF match
  <1>3. best \subseteq FileName
    BY <1>2
  <1>4. find_nocase(Present, dir, t) = IF best = {} THEN Missing ELSE CHOOSE n \in best : TRUE
    BY DEF find_nocase, match
  <1> HIDE DEF best
  <1> QED
    BY <1>3, <1>4

LEMMA NocaseStepTyped ==
  ASSUME TreeTyped, NEW root \in PcPath, NEW path \in PcPath, NEW k \in 1..Len(path), NEW p \in Search
  PROVE  /\ NocaseStep(Present, root, path, p, k) \in Search
         /\ p = Missing => NocaseStep(Present, root, path, p, k) = Missing
         /\ p # Missing /\ k = Len(path) =>
              \E n \in FileName : NocaseStep(Present, root, path, p, k) = Append(p, n)
  <1>1. PICK P : P = FileName
    OBVIOUS
  <1>2. path[k] \in P
    BY <1>1, ElementOfSeq DEF PcPath
  <1>3. p # Missing => p \in Seq(P)
    BY <1>1 DEF Search, PcPath
  <1>4. PICK f : f = find_nocase(Present, root \o p, path[k])
    OBVIOUS
  <1>5. f \in P \/ f = Missing
    BY <1>1, <1>4, FoundTyped
  <1>6. \A n \in P : p # Missing => Append(p, n) \in Seq(P)
    BY <1>3, AppendProperties
  <1>7. p = Missing => NocaseStep(Present, root, path, p, k) = Missing
    BY DEF NocaseStep
  <1>8. p # Missing /\ f # Missing => NocaseStep(Present, root, path, p, k) = Append(p, f)
    BY <1>4 DEF NocaseStep
  <1>9. p # Missing /\ f = Missing =>
          NocaseStep(Present, root, path, p, k) = IF k = Len(path) THEN Append(p, path[k]) ELSE Missing
    BY <1>4 DEF NocaseStep
  <1>10. p # Missing => NocaseStep(Present, root, path, p, k) \in Seq(P) \cup {Missing}
    BY <1>2, <1>5, <1>6, <1>8, <1>9
  <1>11. p # Missing /\ k = Len(path) => \E n \in P : NocaseStep(Present, root, path, p, k) = Append(p, n)
    BY <1>2, <1>5, <1>8, <1>9
  <1> QED
    BY <1>1, <1>7, <1>10, <1>11 DEF Search, PcPath

\* make_nocase, token by token.
LEMMA SearchIs ==
  ASSUME TreeTyped, NEW root \in PcPath, NEW path \in PcPath
  PROVE  \E acc \in [0..Len(path) -> Search] :
           /\ acc[0] = <<>>
           /\ \A k \in 1..Len(path) : acc[k] = NocaseStep(Present, root, path, acc[k - 1], k)
           /\ make_nocase(Present, root, path) = IF acc[Len(path)] = Missing THEN path ELSE acc[Len(path)]
  <1> DEFINE Body(g) == [k \in 0..Len(path) |-> IF k = 0 THEN <<>> ELSE NocaseStep(Present, root, path, g[k - 1], k)]
             next == [k \in 1..Len(path) |-> [p \in Search |-> NocaseStep(Present, root, path, p, k)]]
             acc == CHOOSE g : g = Body(g)
  <1>1. <<>> \in Search
    BY EmptySeq DEF Search, PcPath
  <1>2. Len(path) \in Nat
    BY LenProperties DEF PcPath
  <1>3. next \in [1..Len(path) -> [Search -> Search]]
    BY NocaseStepTyped
  <1>4. ASSUME NEW k \in 1..Len(path), NEW p \in Search PROVE next[k][p] = NocaseStep(Present, root, path, p, k)
    OBVIOUS
  <1> HIDE DEF next
  <1>5. PICK h \in [0..Len(path) -> Search] : h[0] = <<>> /\ \A k \in 1..Len(path) : h[k] = next[k][h[k - 1]]
    <2>1. PICK S, f, t, n : S = Search /\ f = <<>> /\ t = next /\ n = Len(path)
      OBVIOUS
    <2>2. f \in S /\ n \in Nat /\ t \in [1..n -> [S -> S]]
      BY <1>1, <1>2, <1>3, <2>1
    <2>3. \E h \in [0..n -> S] : h[0] = f /\ \A k \in 1..n : h[k] = t[k][h[k - 1]]
      BY <2>2, Stepped
    <2> QED
      BY <2>1, <2>3
  <1>6. ASSUME NEW k \in 1..Len(path) PROVE h[k] = NocaseStep(Present, root, path, h[k - 1], k)
    <2>1. h[k - 1] \in Search
      BY <1>2, <1>5
    <2> QED
      BY <1>4, <1>5, <2>1
  <1>7. h = Body(h)
    <2>1. ASSUME NEW k \in 0..Len(path)
          PROVE  h[k] = IF k = 0 THEN <<>> ELSE NocaseStep(Present, root, path, h[k - 1], k)
      BY <1>2, <1>5, <1>6
    <2> QED
      BY <1>5, <2>1
  <1>8. acc = Body(acc)
    <2> DEFINE Is(g) == g = Body(g)
    <2>1. Is(h)
      BY <1>7
    <2> HIDE DEF Is
    <2>2. Is(CHOOSE g : Is(g))
      BY <2>1
    <2> QED
      BY <2>2 DEF Is
  <1>9. make_nocase(Present, root, path) = IF acc[Len(path)] = Missing THEN path ELSE acc[Len(path)]
    BY DEF make_nocase
  <1> HIDE DEF acc
  <1>10. acc \in [0..Len(path) -> Search]
    <2> DEFINE T == {k \in 0..Len(path) : acc[k] \in Search}
    <2>1. 0 \in T
      BY <1>1, <1>2, <1>8
    <2>2. ASSUME NEW k \in 0..(Len(path) - 1), k \in T PROVE k + 1 \in T
      <3>1. k + 1 \in 0..Len(path) /\ k + 1 \in 1..Len(path) /\ (k + 1) - 1 = k /\ k + 1 # 0
        BY <1>2
      <3>2. acc[k + 1] = NocaseStep(Present, root, path, acc[k], k + 1)
        BY <1>8, <3>1
      <3> QED
        BY <2>2, <3>1, <3>2, NocaseStepTyped
    <2> HIDE DEF T
    <2>3. 0..Len(path) \subseteq T
      BY <1>2, <2>1, <2>2, EachStep
    <2> QED
      BY <1>8, <2>3 DEF T
  <1>11. acc[0] = <<>> /\ \A k \in 1..Len(path) : acc[k] = NocaseStep(Present, root, path, acc[k - 1], k)
    BY <1>2, <1>8
  <1> QED
    BY <1>9, <1>10, <1>11

LEMMA NocaseTyped ==
  ASSUME TreeTyped, NEW root \in PcPath, NEW path \in PcPath
  PROVE  make_nocase(Present, root, path) \in PcPath
  <1>1. PICK acc \in [0..Len(path) -> Search] :
           make_nocase(Present, root, path) = IF acc[Len(path)] = Missing THEN path ELSE acc[Len(path)]
    BY SearchIs
  <1>2. Len(path) \in 0..Len(path)
    BY LenProperties DEF PcPath
  <1> QED
    BY <1>1, <1>2 DEF Search

\* Paths of names in one directory.
Siblings(x, y) == \E Y \in PcPath, m, n \in FileName : x = Append(Y, m) /\ y = Append(Y, n)

\* Two names in one directory are looked for in one directory.
LEMMA NocaseBeside ==
  ASSUME TreeTyped, NEW root \in PcPath, NEW X \in PcPath, NEW t \in FileName, NEW u \in FileName
  PROVE  Siblings(make_nocase(Present, root, Append(X, t)), make_nocase(Present, root, Append(X, u)))
  <1>1. PICK a, b : a = Append(X, t) /\ b = Append(X, u)
    OBVIOUS
  <1>2. Len(X) \in Nat
    BY LenProperties DEF PcPath
  <1>3. /\ a \in PcPath /\ Len(a) = Len(X) + 1 /\ \A i \in 1..Len(X) : a[i] = X[i]
        /\ b \in PcPath /\ Len(b) = Len(X) + 1 /\ \A i \in 1..Len(X) : b[i] = X[i]
    <2>1. PICK P : P = FileName
      OBVIOUS
    <2>2. X \in Seq(P) /\ t \in P /\ u \in P
      BY <2>1 DEF PcPath
    <2>3. a \in Seq(P) /\ Len(a) = Len(X) + 1 /\ \A i \in 1..Len(X) : a[i] = X[i]
      BY <1>1, <2>2, AppendProperties
    <2>4. b \in Seq(P) /\ Len(b) = Len(X) + 1 /\ \A i \in 1..Len(X) : b[i] = X[i]
      BY <1>1, <2>2, AppendProperties
    <2> QED
      BY <2>1, <2>3, <2>4 DEF PcPath
  <1>4. PICK A \in [0..Len(a) -> Search] :
           /\ A[0] = <<>>
           /\ \A k \in 1..Len(a) : A[k] = NocaseStep(Present, root, a, A[k - 1], k)
           /\ make_nocase(Present, root, a) = IF A[Len(a)] = Missing THEN a ELSE A[Len(a)]
    BY <1>3, SearchIs
  <1>5. PICK B \in [0..Len(b) -> Search] :
           /\ B[0] = <<>>
           /\ \A k \in 1..Len(b) : B[k] = NocaseStep(Present, root, b, B[k - 1], k)
           /\ make_nocase(Present, root, b) = IF B[Len(b)] = Missing THEN b ELSE B[Len(b)]
    BY <1>3, SearchIs
  <1> DEFINE T == {k \in 0..Len(X) : A[k] = B[k]}
  <1>6. 0 \in T
    BY <1>2, <1>4, <1>5
  <1>7. ASSUME NEW k \in 0..(Len(X) - 1), k \in T PROVE k + 1 \in T
    <2>1. /\ k + 1 \in 0..Len(X) /\ k + 1 \in 1..Len(X) /\ (k + 1) - 1 = k
          /\ k + 1 \in 1..Len(a) /\ k + 1 \in 1..Len(b) /\ k + 1 # Len(a) /\ k + 1 # Len(b)
      BY <1>2, <1>3
    <2>2. /\ A[k + 1] = NocaseStep(Present, root, a, A[k], k + 1)
          /\ B[k + 1] = NocaseStep(Present, root, b, A[k], k + 1)
      BY <1>4, <1>5, <1>7, <2>1
    <2>3. a[k + 1] = b[k + 1]
      BY <1>3, <2>1
    <2>4. NocaseStep(Present, root, a, A[k], k + 1) = NocaseStep(Present, root, b, A[k], k + 1)
      BY <2>1, <2>3 DEF NocaseStep
    <2> QED
      BY <2>1, <2>2, <2>4
  <1> HIDE DEF T
  <1>8. 0..Len(X) \subseteq T
    BY <1>2, <1>6, <1>7, EachStep
  <1>9. PICK Y : Y = A[Len(X)]
    OBVIOUS
  <1>10. B[Len(X)] = Y /\ Y \in Search
    <2>1. Len(X) \in T /\ Len(X) \in 0..Len(a)
      BY <1>2, <1>3, <1>8
    <2> QED
      BY <1>4, <1>9, <2>1 DEF T
  <1>11. /\ Len(X) + 1 \in 1..Len(a) /\ Len(X) + 1 \in 1..Len(b) /\ (Len(X) + 1) - 1 = Len(X)
    BY <1>2, <1>3
  <1>12. A[Len(a)] = NocaseStep(Present, root, a, Y, Len(a)) /\ B[Len(b)] = NocaseStep(Present, root, b, Y, Len(b))
    BY <1>3, <1>4, <1>5, <1>9, <1>10, <1>11
  <1>13. Len(a) \in 1..Len(a) /\ Len(b) \in 1..Len(b)
    BY <1>3, <1>11
  <1>14. CASE Y = Missing
    <2>1. A[Len(a)] = Missing /\ B[Len(b)] = Missing
      BY <1>3, <1>10, <1>12, <1>13, <1>14, NocaseStepTyped
    <2>2. make_nocase(Present, root, a) = Append(X, t) /\ make_nocase(Present, root, b) = Append(X, u)
      BY <1>1, <1>4, <1>5, <2>1
    <2> QED
      BY <1>1, <2>2 DEF Siblings
  <1>15. CASE Y # Missing
    <2>1. PICK m \in FileName : A[Len(a)] = Append(Y, m)
      BY <1>3, <1>10, <1>12, <1>13, <1>15, NocaseStepTyped
    <2>2. PICK n \in FileName : B[Len(b)] = Append(Y, n)
      BY <1>3, <1>10, <1>12, <1>13, <1>15, NocaseStepTyped
    <2>3. Y \in PcPath
      BY <1>10, <1>15 DEF Search
    <2>4. Append(Y, m) \in PcPath /\ Append(Y, n) \in PcPath
      BY <2>3, AppendProperties DEF PcPath
    <2>5. Append(Y, m) # Missing /\ Append(Y, n) # Missing
      BY <2>4, NamesAssumption
    <2>6. make_nocase(Present, root, a) = Append(Y, m) /\ make_nocase(Present, root, b) = Append(Y, n)
      BY <1>4, <1>5, <2>1, <2>2, <2>5
    <2> QED
      BY <1>1, <2>3, <2>6 DEF Siblings
  <1> QED
    BY <1>14, <1>15
-----------------------------------------------------------------------------
(* make_path.                                                                *)

\* What is put behind a root stays behind it.
LEMMA BehindRoot ==
  ASSUME NEW root \in Root, NEW x \in PcPath
  PROVE  gen_path(root \o x) \in Root /\ IsPrefix(root, gen_path(root \o x))
  <1>1. PICK P : P = FileName
    OBVIOUS
  <1>2. PICK a : a = root \o x
    OBVIOUS
  <1>3. root \in Seq(P) /\ x \in Seq(P) /\ Len(root) <= Most
    BY <1>1 DEF Root, PcPath
  <1>4. a \in Seq(P) /\ Len(a) = Len(root) + Len(x)
        /\ \A i \in 1..(Len(root) + Len(x)) : a[i] = IF i <= Len(root) THEN root[i] ELSE x[i - Len(root)]
    BY <1>2, <1>3, ConcatProperties
  <1>5. PICK f : f = FirstTokens(a)
    OBVIOUS
  <1>6. f = gen_path(a) /\ f \in Root
    <2>1. a \in PcPath
      BY <1>1, <1>4 DEF PcPath
    <2>2. PICK S : S = Text
      OBVIOUS
    <2>3. P \subseteq S
      BY <1>1, <2>2, NameIs
    <2>4. a \in Seq(S)
      BY <1>4, <2>3, SeqMonotonic
    <2> QED
      BY <1>5, <2>1, <2>2, <2>4, PathOfNames, PathTyped
  <1>7. /\ f \in Seq(P) /\ Len(f) = IF Len(a) < Most THEN Len(a) ELSE Most
        /\ \A i \in 1..Len(f) : f[i] = a[i]
    BY <1>4, <1>5, FirstAre
  <1>8. Len(root) \in Nat /\ Len(x) \in Nat
    BY <1>3, LenProperties
  <1>9. Len(root) <= Len(f) /\ Len(root) \in 0..Len(f) /\ Len(f) \in Nat
    BY <1>3, <1>4, <1>7, <1>8, MostIs
  <1>10. PICK b : b = SubSeq(f, 1, Len(root))
    OBVIOUS
  <1>11. b \in Seq(P) /\ Len(b) = Len(root) /\ \A i \in 1..Len(root) : b[i] = f[i]
    BY <1>7, <1>9, <1>10, StartOf
  <1>12. ASSUME NEW i \in 1..Len(root) PROVE b[i] = root[i]
    <2>1. i \in 1..Len(f) /\ i \in 1..(Len(root) + Len(x)) /\ i <= Len(root)
      BY <1>8, <1>9
    <2> QED
      BY <1>4, <1>7, <1>11, <2>1
  <1>13. b = root
    BY <1>3, <1>11, <1>12, SeqEqual
  <1>14. SubSeq(root, 1, Len(root)) = root
    BY <1>3, SubSeqFull
  <1>15. IsPrefix(root, f)
    BY <1>9, <1>10, <1>13, <1>14 DEF IsPrefix
  <1> QED
    BY <1>2, <1>6, <1>15

\* Paths of two names in one directory.
LEMMA OneParent ==
  ASSUME NEW Z \in PcPath, NEW m \in FileName, NEW n \in FileName
  PROVE  Parent(gen_path(Append(Z, m))) = Parent(gen_path(Append(Z, n)))
  <1>1. PICK P : P = FileName
    OBVIOUS
  <1>2. PICK a, b : a = Append(Z, m) /\ b = Append(Z, n)
    OBVIOUS
  <1>3. Z \in Seq(P) /\ m \in P /\ n \in P /\ Len(Z) \in Nat
    BY <1>1, LenProperties DEF PcPath
  <1>4. a \in Seq(P) /\ Len(a) = Len(Z) + 1 /\ \A i \in 1..Len(Z) : a[i] = Z[i]
    BY <1>2, <1>3, AppendProperties
  <1>5. b \in Seq(P) /\ Len(b) = Len(Z) + 1 /\ \A i \in 1..Len(Z) : b[i] = Z[i]
    BY <1>2, <1>3, AppendProperties
  <1>6. gen_path(a) = FirstTokens(a) /\ gen_path(b) = FirstTokens(b)
    BY <1>1, <1>4, <1>5, PathOfNames DEF PcPath
  <1>7. CASE Len(Z) < Most
    <2>1. FirstTokens(a) = a /\ FirstTokens(b) = b
      BY <1>3, <1>4, <1>5, <1>7, FirstAre, MostIs
    <2>2. a # <<>> /\ Front(a) = Z /\ b # <<>> /\ Front(b) = Z
      BY <1>2, <1>3, FrontIs
    <2> QED
      BY <1>2, <1>6, <2>1, <2>2 DEF Parent
  <1>8. CASE ~(Len(Z) < Most)
    <2>1. PICK f, g : f = FirstTokens(a) /\ g = FirstTokens(b)
      OBVIOUS
    <2>2. /\ f \in Seq(P) /\ Len(f) = IF Len(a) < Most THEN Len(a) ELSE Most
          /\ \A i \in 1..Len(f) : f[i] = a[i]
      BY <1>4, <2>1, FirstAre
    <2>3. /\ g \in Seq(P) /\ Len(g) = IF Len(b) < Most THEN Len(b) ELSE Most
          /\ \A i \in 1..Len(g) : g[i] = b[i]
      BY <1>5, <2>1, FirstAre
    <2>4. Len(f) = Most /\ Len(g) = Most /\ Most <= Len(Z)
      BY <1>3, <1>4, <1>5, <1>8, <2>2, <2>3, MostIs
    <2>5. ASSUME NEW i \in 1..Len(f) PROVE f[i] = g[i]
      <3>1. i \in 1..Len(g) /\ i \in 1..Len(Z)
        BY <1>3, <2>4, MostIs
      <3> QED
        BY <1>4, <1>5, <2>2, <2>3, <3>1
    <2>6. f = g
      BY <2>2, <2>3, <2>4, <2>5, SeqEqual
    <2> QED
      BY <1>2, <1>6, <2>1, <2>6
  <1> QED
    BY <1>7, <1>8

\* The console's options and the drives.
DrivesTyped ==
  /\ rootdir \in [Drive -> Root]
  /\ currdirs \in [Drive -> Seq(Atom)]
  /\ opt \in [nocase : BOOLEAN, msslash : BOOLEAN]

LEMMA SlashesTyped ==
  ASSUME DrivesTyped, NEW s \in Seq(Atom)
  PROVE  /\ WithSlashes(opt, s) \in Seq(Atom) /\ Len(WithSlashes(opt, s)) = Len(s)
         /\ \A i \in 1..Len(s) : WithSlashes(opt, s)[i] = IF opt.msslash /\ s[i] = "\\" THEN "/" ELSE s[i]
  <1>1. PICK w, n : w = WithSlashes(opt, s) /\ n = Len(s)
    OBVIOUS
  <1>2. n \in Nat /\ DOMAIN s = 1..n /\ \A i \in 1..n : s[i] \in Atom
    BY <1>1, LenProperties, ElementOfSeq
  <1>3. w = [i \in 1..n |-> IF opt.msslash /\ s[i] = "\\" THEN "/" ELSE s[i]]
    BY <1>1, <1>2 DEF WithSlashes
  <1>4. "/" \in Atom
    BY NamesAssumption
  <1>5. w \in [1..n -> Atom]
    BY <1>2, <1>3, <1>4
  <1>6. w \in Seq(Atom) /\ Len(w) = n
    BY <1>2, <1>5
  <1> QED
    BY <1>1, <1>3, <1>6

Rel(d, s) == gen_path(TokensOf(WithSlashes(opt, currdirs[d] \o s)))

LEMMA RelTyped ==
  ASSUME DrivesTyped, NEW d \in Drive, NEW s \in Seq(Atom)
  PROVE  Rel(d, s) \in PcPath
  <1>1. currdirs[d] \in Seq(Atom)
    BY DEF DrivesTyped
  <1>2. currdirs[d] \o s \in Seq(Atom)
    BY <1>1, ConcatProperties
  <1>3. TokensOf(WithSlashes(opt, currdirs[d] \o s)) \in Seq(Text)
    BY <1>2, SlashesTyped, TokensTyped
  <1> QED
    BY <1>3, PathTyped DEF Rel, Root

LEMMA MakePathIs ==
  ASSUME NEW d \in Drive, NEW s
  PROVE  make_path(d, s) =
           gen_path(rootdir[d] \o (IF opt.nocase THEN make_nocase(Present, rootdir[d], Rel(d, s)) ELSE Rel(d, s)))
  BY DEF make_path, HostPath, Rel

\* A path is one below the root of its drive.
LEMMA BelowRoot ==
  ASSUME DrivesTyped, TreeTyped, NEW d \in Drive, NEW s \in Seq(Atom)
  PROVE  make_path(d, s) \in Root /\ IsPrefix(rootdir[d], make_path(d, s))
  <1>1. rootdir[d] \in Root /\ rootdir[d] \in PcPath /\ opt.nocase \in BOOLEAN
    BY DEF DrivesTyped, Root
  <1>2. Rel(d, s) \in PcPath
    BY RelTyped
  <1>3. make_nocase(Present, rootdir[d], Rel(d, s)) \in PcPath
    BY <1>1, <1>2, NocaseTyped
  <1>4. PICK x : x = IF opt.nocase THEN make_nocase(Present, rootdir[d], Rel(d, s)) ELSE Rel(d, s)
    OBVIOUS
  <1>5. x \in PcPath /\ make_path(d, s) = gen_path(rootdir[d] \o x)
    BY <1>1, <1>2, <1>3, <1>4, MakePathIs
  <1> QED
    BY <1>1, <1>5, BehindRoot

LEMMA PlainIs ==
  ASSUME NEW t, Plain(t)
  PROVE  /\ t \in FileName /\ t \in Text /\ t \in Seq(Atom) /\ Len(t) \in Nat
         /\ \A i \in 1..Len(t) : t[i] # "/" /\ (opt.msslash => t[i] # "\\")
  <1>1. t \in FileName /\ \A i \in DOMAIN t : t[i] # "/" /\ (opt.msslash => t[i] # "\\")
    BY DEF Plain
  <1>2. t \in Text
    BY <1>1, NameIs
  <1>3. t \in Seq(Atom)
    BY <1>2 DEF Text
  <1>4. Len(t) \in Nat /\ DOMAIN t = 1..Len(t)
    BY <1>3, LenProperties
  <1> QED
    BY <1>1, <1>2, <1>3, <1>4

\* The slashes of a plain name stay as they are.
LEMMA PlainStays ==
  ASSUME DrivesTyped, NEW e \in Seq(Atom), NEW t \in Seq(Atom), Plain(t)
  PROVE  WithSlashes(opt, e \o t) = WithSlashes(opt, e) \o t
  <1>1. PICK f, C, g, w : f = e \o t /\ C = WithSlashes(opt, e) /\ g = C \o t /\ w = WithSlashes(opt, f)
    OBVIOUS
  <1>2. Len(e) \in Nat /\ Len(t) \in Nat
    BY LenProperties
  <1>3. C \in Seq(Atom) /\ Len(C) = Len(e)
        /\ \A i \in 1..Len(e) : C[i] = IF opt.msslash /\ e[i] = "\\" THEN "/" ELSE e[i]
    BY <1>1, SlashesTyped
  <1>4. f \in Seq(Atom) /\ Len(f) = Len(e) + Len(t)
        /\ \A i \in 1..(Len(e) + Len(t)) : f[i] = IF i <= Len(e) THEN e[i] ELSE t[i - Len(e)]
    BY <1>1, ConcatProperties
  <1>5. g \in Seq(Atom) /\ Len(g) = Len(C) + Len(t)
        /\ \A i \in 1..(Len(C) + Len(t)) : g[i] = IF i <= Len(C) THEN C[i] ELSE t[i - Len(C)]
    <2>1. C \in Seq(Atom) /\ g = C \o t
      BY <1>1, <1>3
    <2> QED
      BY <2>1, ConcatProperties
  <1>6. w \in Seq(Atom) /\ Len(w) = Len(f)
        /\ \A i \in 1..Len(f) : w[i] = IF opt.msslash /\ f[i] = "\\" THEN "/" ELSE f[i]
    BY <1>1, <1>4, SlashesTyped
  <1>7. ASSUME NEW i \in 1..Len(w) PROVE w[i] = g[i]
    <2>1. i \in 1..Len(f) /\ i \in 1..(Len(e) + Len(t)) /\ i \in 1..(Len(C) + Len(t)) /\ i \in Nat
      BY <1>2, <1>3, <1>4, <1>6
    <2>2. CASE i <= Len(e)
      <3>1. i \in 1..Len(e) /\ f[i] = e[i] /\ g[i] = C[i]
        BY <1>2, <1>3, <1>4, <1>5, <2>1, <2>2
      <3> QED
        BY <1>3, <1>6, <2>1, <3>1
    <2>3. CASE ~(i <= Len(e))
      <3>1. f[i] = t[i - Len(e)] /\ g[i] = t[i - Len(e)]
        BY <1>3, <1>4, <1>5, <2>1, <2>3
      <3>2. i - Len(e) \in 1..Len(t)
        BY <1>2, <2>1, <2>3
      <3>3. ~(opt.msslash /\ f[i] = "\\")
        BY <3>1, <3>2, PlainIs
      <3> QED
        BY <1>6, <2>1, <3>1, <3>3
    <2> QED
      BY <2>2, <2>3
  <1>8. w = g
    BY <1>3, <1>4, <1>5, <1>6, <1>7, SeqEqual
  <1> QED
    BY <1>1, <1>8

\* The name at the end of a string is the last of its path.
LEMMA RelEnds ==
  ASSUME DrivesTyped, NEW d \in Drive, NEW b \in Seq(Atom), Len(b) > 0, b[Len(b)] = "/"
  PROVE  \E D \in Seq(Text) : \A t : Plain(t) =>
           /\ t \in FileName
           /\ Rel(d, b \o t) = IF Len(D) < Most THEN Append(gen_path(D), t) ELSE gen_path(D)
  <1>1. PICK c, e : c = currdirs[d] /\ e = c \o b
    OBVIOUS
  <1>2. c \in Seq(Atom) /\ Len(b) \in Nat \ {0}
    BY <1>1, LenProperties DEF DrivesTyped
  <1>3. e \in Seq(Atom) /\ Len(e) = Len(c) + Len(b) /\ Len(c) \in Nat
        /\ \A i \in 1..(Len(c) + Len(b)) : e[i] = IF i <= Len(c) THEN c[i] ELSE b[i - Len(c)]
    BY <1>1, <1>2, ConcatProperties, LenProperties
  <1>4. Len(e) \in 1..Len(e) /\ Len(e) > 0 /\ e[Len(e)] = "/"
    <2>1. Len(e) \in 1..(Len(c) + Len(b)) /\ ~(Len(e) <= Len(c)) /\ Len(e) - Len(c) = Len(b)
      BY <1>2, <1>3
    <2> QED
      BY <1>2, <1>3, <2>1
  <1>5. PICK C : C = WithSlashes(opt, e)
    OBVIOUS
  <1>6. C \in Seq(Atom) /\ Len(C) = Len(e) /\ C[Len(C)] = "/"
    BY <1>3, <1>4, <1>5, SlashesTyped
  <1>7. PICK D : D = TokensOf(C)
    OBVIOUS
  <1>8. D \in Seq(Text)
    BY <1>6, <1>7, TokensTyped
  <1>9. ASSUME NEW t \in Seq(Atom), Plain(t)
        PROVE  /\ t \in FileName
               /\ Rel(d, b \o t) = IF Len(D) < Most THEN Append(gen_path(D), t) ELSE gen_path(D)
    <2>1. t \in FileName /\ t \in Text /\ \A i \in 1..Len(t) : t[i] # "/"
      BY <1>9, PlainIs
    <2>2. c \o (b \o t) = e \o t
      <3>1. c \o (b \o t) = (c \o b) \o t
        BY <1>2, ConcatAssociative
      <3> QED
        BY <1>1, <3>1
    <2>3. WithSlashes(opt, e \o t) = C \o t
      BY <1>3, <1>5, <1>9, PlainStays
    <2>4. TokensOf(C \o t) = Append(D, t)
      BY <1>4, <1>6, <1>7, <2>1, OneMoreToken
    <2>5. Rel(d, b \o t) = gen_path(Append(D, t))
      BY <1>1, <2>2, <2>3, <2>4 DEF Rel
    <2> QED
      BY <1>8, <2>1, <2>5, OneMoreName
  <1>10. \A t : Plain(t) => t \in Seq(Atom)
    BY PlainIs
  <1> QED
    BY <1>8, <1>9, <1>10

\* Two plain names behind one slash are in one directory.
LEMMA Beside ==
  ASSUME DrivesTyped, TreeTyped, NEW d \in Drive, NEW b \in Seq(Atom), Len(b) > 0, b[Len(b)] = "/",
         NEW t, NEW u, Plain(t), Plain(u)
  PROVE  Parent(make_path(d, b \o t)) = Parent(make_path(d, b \o u))
  <1>1. PICK D \in Seq(Text) : \A x : Plain(x) =>
           /\ x \in FileName
           /\ Rel(d, b \o x) = IF Len(D) < Most THEN Append(gen_path(D), x) ELSE gen_path(D)
    BY RelEnds
  <1>2. PICK X : X = gen_path(D)
    OBVIOUS
  <1>3. X \in PcPath /\ t \in FileName /\ u \in FileName
    BY <1>1, <1>2, PathTyped DEF Root
  <1>4. CASE ~(Len(D) < Most)
    <2>1. Rel(d, b \o t) = Rel(d, b \o u)
      BY <1>1, <1>4
    <2> QED
      BY <2>1, MakePathIs
  <1>5. CASE Len(D) < Most
    <2>1. Rel(d, b \o t) = Append(X, t) /\ Rel(d, b \o u) = Append(X, u)
      BY <1>1, <1>2, <1>5
    <2>2. PICK r : r = rootdir[d]
      OBVIOUS
    <2>3. r \in PcPath /\ opt.nocase \in BOOLEAN
      BY <2>2 DEF DrivesTyped, Root
    <2>4. PICK x, y : /\ Siblings(x, y)
                      /\ make_path(d, b \o t) = gen_path(r \o x) /\ make_path(d, b \o u) = gen_path(r \o y)
      <3>1. CASE opt.nocase
        <4>1. PICK x, y : x = make_nocase(Present, r, Append(X, t)) /\ y = make_nocase(Present, r, Append(X, u))
          OBVIOUS
        <4>2. Siblings(x, y)
          BY <1>3, <2>3, <4>1, NocaseBeside
        <4>3. make_path(d, b \o t) = gen_path(r \o x) /\ make_path(d, b \o u) = gen_path(r \o y)
          BY <2>1, <2>2, <3>1, <4>1, MakePathIs
        <4> QED
          BY <4>2, <4>3
      <3>2. CASE ~opt.nocase
        <4>1. PICK x, y : x = Append(X, t) /\ y = Append(X, u)
          OBVIOUS
        <4>2. Siblings(x, y)
          BY <1>3, <4>1 DEF Siblings
        <4>3. make_path(d, b \o t) = gen_path(r \o x) /\ make_path(d, b \o u) = gen_path(r \o y)
          BY <2>1, <2>2, <3>2, <4>1, MakePathIs
        <4> QED
          BY <4>2, <4>3
      <3> QED
        BY <2>3, <3>1, <3>2
    <2>4a. PICK Y \in PcPath, m \in FileName, n \in FileName : x = Append(Y, m) /\ y = Append(Y, n)
      BY <2>4 DEF Siblings
    <2>5. /\ r \o Append(Y, m) = Append(r \o Y, m) /\ r \o Append(Y, n) = Append(r \o Y, n)
          /\ r \o Y \in PcPath
      <3>1. PICK P : P = FileName
        OBVIOUS
      <3>2. r \in Seq(P) /\ Y \in Seq(P) /\ m \in P /\ n \in P
        BY <2>3, <3>1 DEF PcPath
      <3>3. r \o Y \in Seq(P)
        BY <3>2, ConcatProperties
      <3> QED
        BY <3>1, <3>2, <3>3, AppendBehind DEF PcPath
    <2> QED
      BY <2>4, <2>4a, <2>5, OneParent
  <1> QED
    BY <1>4, <1>5

RenameRequest ==
  [op : {"rename"}, d : Drive, s : Seq(Atom), path : PcPath, new : Seq(Atom), dest : Seq(Atom),
   clean : BOOLEAN, root : Root]
ChdirRequest == [op : {"chdir"}, d : Drive, s : Seq(Atom), clean : BOOLEAN]

NamesTyped ==
  /\ DrivesTyped /\ TreeTyped
  /\ cwd \in Root
  /\ mapfile \in [Drive -> Root] \cup {Missing}
  /\ request \in {NoRequest} \cup RenameRequest \cup ChdirRequest

\* A rename between its two paths: the first is below the root that is noted, and
\* while it is clean still the path of the old name.
RenameUnderWay ==
  request.op = "rename" =>
    /\ IsPrefix(request.root, request.path)
    /\ request.dest = Rebase(request.s, request.new)
    /\ request.clean => /\ request.path = make_path(request.d, request.s)
                        /\ request.root = rootdir[request.d]

NamesInv == NamesTyped /\ RenameUnderWay /\ Confined

-----------------------------------------------------------------------------
LEMMA TextIs ==
  ASSUME NEW s \in Text
  PROVE  s \in Seq(Atom) /\ Len(s) \in Nat \ {0} /\ s[1] \in Atom
  <1>1. s \in Seq(Atom) /\ s # <<>>
    BY DEF Text
  <1>2. Len(s) \in Nat \ {0}
    BY <1>1, EmptySeq, LenProperties
  <1> QED
    BY <1>1, <1>2, ElementOfSeq

LEMMA LastSlash ==
  ASSUME NEW s \in Seq(Atom), Absolute(s)
  PROVE  /\ Before(s) \in Seq(Atom) /\ Behind(s) \in Seq(Atom) /\ s = Before(s) \o Behind(s)
         /\ Len(Before(s)) > 0 /\ Before(s)[Len(Before(s))] = "/"
  <1>0. s \in Text /\ s[1] = "/"
    BY DEF Absolute, Text
  <1>1. s \in Seq(Atom) /\ Len(s) \in Nat \ {0} /\ DOMAIN s = 1..Len(s)
    BY <1>0, TextIs, LenProperties
  <1>2. PICK L \in Nat \ {0} : L = Len(s)
    BY <1>1
  <1>3. PICK T : T = {k \in 0..(L - 1) : s[L - k] = "/"}
    OBVIOUS
  <1>3a. T \subseteq Nat
    BY <1>3
  <1>4. L - 1 \in T
    <2>1. L - 1 \in 0..(L - 1) /\ L - (L - 1) = 1
      OBVIOUS
    <2> QED
      BY <1>0, <1>3, <2>1
  <1>5. PICK k \in T : \A j \in T : ~(<<j, k>> \in OpToRel(<, Nat))
    BY <1>3a, <1>4, NatLessThanWellFounded, WFMin
  <1>5a. k \in 0..(L - 1) /\ s[L - k] = "/"
    BY <1>3
  <1>5b. \A j \in T : ~(j < k)
    BY <1>3a, <1>5 DEF OpToRel
  <1>6. k \in 0..(L - 1) /\ s[L - k] = "/" /\ \A j \in T : ~(j < k)
    BY <1>5a, <1>5b
  <1>7. PICK i \in 1..L : i = L - k
    BY <1>6
  <1>8. \A j \in (i + 1)..L : s[j] # "/"
    <2>1. SUFFICES ASSUME NEW j \in (i + 1)..L, s[j] = "/" PROVE FALSE
      OBVIOUS
    <2>2. L - j \in 0..(L - 1) /\ L - (L - j) = j /\ L - j < k
      BY <1>6, <1>7
    <2>3. L - j \in T
      BY <1>3, <2>1, <2>2
    <2> QED
      BY <1>6, <2>2, <2>3
  <1>9. i \in Cuts(s)
    BY <1>1, <1>2, <1>6, <1>7, <1>8 DEF Cuts
  <1>10. PICK c : c = CHOOSE x \in Cuts(s) : TRUE
    OBVIOUS
  <1>11. c \in 1..L /\ s[c] = "/"
    BY <1>1, <1>2, <1>9, <1>10 DEF Cuts
  <1>12. PICK b, e : b = SubSeq(s, 1, c) /\ e = SubSeq(s, c + 1, L)
    OBVIOUS
  <1>13. Before(s) = b /\ Behind(s) = e
    BY <1>2, <1>10, <1>12 DEF Before, Behind
  <1>14. b \in Seq(Atom) /\ Len(b) = c /\ \A n \in 1..c : b[n] = s[n]
    <2>1. c \in 0..Len(s)
      BY <1>2, <1>11
    <2> QED
      BY <1>1, <1>12, <2>1, StartOf
  <1>15. e \in Seq(Atom) /\ Len(e) = L - c /\ \A n \in 1..(L - c) : e[n] = s[c + n]
    <2>1. \A n \in (c + 1)..L : s[n] \in Atom
      <3>1. SUFFICES ASSUME NEW n \in (c + 1)..L PROVE s[n] \in Atom
        OBVIOUS
      <3>2. n \in 1..Len(s)
        BY <1>2, <1>11
      <3> QED
        BY <1>1, <3>2, ElementOfSeq
    <2>2. e = [n \in 1..(L - c) |-> s[c + n]]
      BY <1>1, <1>2, <1>11, <1>12
    <2>3. L - c \in Nat
      BY <1>11
    <2>4. \A n \in 1..(L - c) : s[c + n] \in Atom
      <3>1. SUFFICES ASSUME NEW n \in 1..(L - c) PROVE s[c + n] \in Atom
        OBVIOUS
      <3>2. c + n \in (c + 1)..L
        BY <1>11
      <3> QED
        BY <2>1, <3>2
    <2> QED
      BY <2>2, <2>3, <2>4
  <1>16. s = b \o e
    <2>a. b \in Seq(Atom) /\ Len(b) = c /\ e \in Seq(Atom) /\ Len(e) = L - c
      BY <1>14, <1>15
    <2>b. b \o e \in Seq(Atom) /\ Len(b \o e) = Len(b) + Len(e)
      BY <2>a, ConcatProperties
    <2>1. b \o e \in Seq(Atom) /\ Len(b \o e) = L
      BY <1>11, <2>a, <2>b
    <2>c. \A n \in 1..(Len(b) + Len(e)) : (b \o e)[n] = IF n <= Len(b) THEN b[n] ELSE e[n - Len(b)]
      BY <2>a, ConcatProperties
    <2>d. \A n \in 1..L : (b \o e)[n] = IF n <= c THEN b[n] ELSE e[n - c]
      BY <1>11, <2>a, <2>c
    <2>2. ASSUME NEW n \in 1..L PROVE s[n] = (b \o e)[n]
      <3>1. CASE n <= c
        <4>1. (b \o e)[n] = b[n]
          BY <2>d, <3>1
        <4> QED
          BY <1>11, <1>14, <3>1, <4>1
      <3>2. CASE c < n
        <4>1. (b \o e)[n] = e[n - c]
          <5>1. ~(n <= c)
            BY <1>11, <3>2
          <5> QED
            BY <2>d, <5>1
        <4>2. n - c \in 1..(L - c) /\ c + (n - c) = n
          BY <1>11, <3>2
        <4>3. e[n - c] = s[c + (n - c)]
          BY <1>15, <4>2
        <4> QED
          BY <4>1, <4>2, <4>3
      <3>3. n <= c \/ c < n
        BY <1>11
      <3> QED
        BY <3>1, <3>2, <3>3
    <2> QED
      BY <1>1, <1>2, <2>1, <2>2, SeqEqual
  <1>17. b[c] = "/" /\ c > 0
    BY <1>11, <1>14
  <1> QED
    BY <1>13, <1>14, <1>15, <1>16, <1>17

LEMMA RebaseTyped ==
  ASSUME NEW old \in Seq(Atom), NEW new \in Seq(Atom)
  PROVE  Rebase(old, new) \in Seq(Atom)
  <1>1. CASE Absolute(old) /\ ~Absolute(new)
    <2>1. Before(old) \in Seq(Atom)
      BY <1>1, LastSlash
    <2> QED
      BY <1>1, <2>1, ConcatProperties DEF Rebase
  <1>2. CASE ~(Absolute(old) /\ ~Absolute(new))
    BY <1>2 DEF Rebase
  <1> QED
    BY <1>1, <1>2

LEMMA MakePathStays ==
  ASSUME NEW d, NEW s, rootdir'[d] = rootdir[d], currdirs'[d] = currdirs[d], opt' = opt, tree' = tree
  PROVE  make_path(d, s)' = make_path(d, s)
  <1>1. Present' = Present
    BY DEF tree, Present
  <1> QED
    BY <1>1 DEF make_path

LEMMA EffectTyped ==
  ASSUME TreeTyped, NEW op, NEW p \in PcPath
  PROVE  Effect(op, p).d \cup Effect(op, p).f \subseteq PcPath
  BY DEF Effect, TreeTyped, Present

LEMMA MovedTyped ==
  ASSUME NEW set \in SUBSET PcPath, NEW p \in PcPath, NEW q \in PcPath
  PROVE  AllMoved(set, p, q) \subseteq PcPath
  <1>1. SUFFICES ASSUME NEW x \in set, IsPrefix(p, x)
                 PROVE  q \o SubSeq(x, Len(p) + 1, Len(x)) \in PcPath
    BY DEF AllMoved
  <1>2. PICK P : P = FileName
    OBVIOUS
  <1>3. x \in Seq(P) /\ q \in Seq(P) /\ p \in Seq(P)
    BY <1>2 DEF PcPath
  <1>4. Len(p) \in Nat /\ Len(x) \in Nat
    BY <1>3, LenProperties
  <1>5. SubSeq(x, Len(p) + 1, Len(x)) \in Seq(P)
    BY <1>3, <1>4, SubSeqProperties
  <1>6. q \o SubSeq(x, Len(p) + 1, Len(x)) \in Seq(P)
    BY <1>3, <1>5, ConcatProperties
  <1> QED
    BY <1>2, <1>6 DEF PcPath

LEMMA FromCwdTyped ==
  ASSUME cwd \in Root, NEW m \in Mounts
  PROVE  FromCwd(m) \in Seq(Text)
  <1>1. m \in Seq(Atom)
    BY NamesAssumption, TextIs
  <1>2. TokensOf(m) \in Seq(Text)
    BY <1>1, TokensTyped
  <1>3. cwd \in Seq(Text)
    BY NameIs DEF Root, PcPath
  <1>4. cwd \o TokensOf(m) \in Seq(Text)
    BY <1>2, <1>3, ConcatProperties
  <1> QED
    BY <1>2, <1>4 DEF FromCwd

LEMMA TornTyped ==
  ASSUME NEW s \in Seq(Atom)
  PROVE  Torn(s) \subseteq Seq(Atom)
  <1>1. "/" \in Atom /\ <<"/">> \in Seq(Atom)
    BY NamesAssumption
  <1>2. CASE s = <<>>
    BY <1>1, <1>2 DEF Torn
  <1>3. CASE s # <<>>
    <2>1. Head(s) \in Atom /\ Tail(s) \in Seq(Atom)
      BY <1>3, HeadTailProperties
    <2>2. <<Head(s)>> \in Seq(Atom)
      BY <2>1
    <2>3. <<"/">> \o Tail(s) \in Seq(Atom)
      BY <1>1, <2>1, ConcatProperties
    <2> QED
      BY <1>1, <1>3, <2>2, <2>3 DEF Torn
  <1> QED
    BY <1>2, <1>3

-----------------------------------------------------------------------------
\* What a command notes is confined when its path is below the root of its drive.
LEMMA NotedConfined ==
  ASSUME NEW op, NEW d \in Drive, NEW s, NEW p, IsPrefix(rootdir[d], p), did' = Noted(op, d, s, p)
  PROVE  Confined'
  <1>1. /\ did'.path = p /\ did'.other = p /\ did'.roots = {rootdir[d]}
    BY DEF Noted
  <1> QED
    BY <1>1 DEF Confined

LEMMA NothingConfined ==
  ASSUME did' = Nothing
  PROVE  Confined'
  <1>1. did'.op = "none"
    BY DEF Nothing, Noted
  <1> QED
    BY <1>1 DEF Confined

LEMMA IdleStep ==
  ASSUME request' = NoRequest
  PROVE  RenameUnderWay'
  BY DEF RenameUnderWay, NoRequest

LEMMA OneNameStep ==
  ASSUME NEW op, NamesInv, OneName(op)
  PROVE  NamesInv'
  <1>1. request = NoRequest /\ request' = NoRequest /\ NamesTyped
    BY DEF OneName, MayServe, NamesInv
  <1>2. UNCHANGED <<rootdir, currdirs, cwd, opt, mapfile>>
    BY DEF OneName, drives
  <1>3. PICK d \in Drive \cup {BadDrive}, s \in Strings :
          LET p == make_path(d, s)
          IN  IF p = Missing THEN did' = Nothing /\ UNCHANGED tree
              ELSE /\ pcdirs' = Effect(op, p).d
                   /\ pcfiles' = Effect(op, p).f
                   /\ did' = Noted(op, d, s, p)
    BY DEF OneName
  <1>4. PICK p : p = make_path(d, s)
    OBVIOUS
  <1>5. TreeTyped' /\ Confined'
    <2>1. CASE p = Missing
      <3>1. did' = Nothing /\ UNCHANGED tree
        BY <1>3, <1>4, <2>1
      <3>2. Present' = Present
        BY <3>1 DEF tree, Present
      <3> QED
        BY <1>1, <3>1, <3>2, NothingConfined DEF TreeTyped, NamesTyped
    <2>2. CASE p # Missing
      <3>1. d \in Drive
        BY <1>4, <2>2 DEF make_path
      <3>2. s \in Seq(Atom)
        BY NamesAssumption
      <3>3. p \in PcPath /\ IsPrefix(rootdir[d], p)
        BY <1>1, <1>4, <3>1, <3>2, BelowRoot DEF Root, NamesTyped
      <3>4. /\ pcdirs' = Effect(op, p).d
            /\ pcfiles' = Effect(op, p).f
            /\ did' = Noted(op, d, s, p)
        BY <1>3, <1>4, <2>2
      <3>5. Effect(op, p).d \cup Effect(op, p).f \subseteq PcPath
        BY <1>1, <3>3, EffectTyped DEF NamesTyped
      <3>6. TreeTyped'
        BY <3>4, <3>5 DEF TreeTyped, Present
      <3> QED
        BY <3>1, <3>3, <3>4, <3>6, NotedConfined
    <2> QED
      BY <2>1, <2>2
  <1>6. NamesTyped'
    BY <1>1, <1>2, <1>5 DEF NamesTyped, DrivesTyped
  <1> QED
    BY <1>1, <1>5, <1>6, IdleStep DEF NamesInv

LEMMA RenameOldStep ==
  ASSUME NamesInv, RenameOld
  PROVE  NamesInv'
  <1>1. /\ UNCHANGED <<rootdir, currdirs, cwd, opt, mapfile>> /\ UNCHANGED tree /\ did' = Nothing
        /\ NamesTyped
    BY DEF RenameOld, drives, NamesInv
  <1>2. PICK d \in Drive, old \in Strings, new \in Strings :
          request' = [op |-> "rename", d |-> d, s |-> old, path |-> make_path(d, old), new |-> new,
                      dest |-> Rebase(old, new), clean |-> TRUE, root |-> rootdir[d]]
    BY DEF RenameOld
  <1>3. old \in Seq(Atom) /\ new \in Seq(Atom)
    BY NamesAssumption
  <1>4. make_path(d, old) \in PcPath /\ IsPrefix(rootdir[d], make_path(d, old)) /\ rootdir[d] \in Root
    <2>1. make_path(d, old) \in Root /\ IsPrefix(rootdir[d], make_path(d, old))
      BY <1>1, <1>3, BelowRoot DEF NamesTyped
    <2> QED
      BY <1>1, <2>1 DEF Root, NamesTyped, DrivesTyped
  <1>5. Rebase(old, new) \in Seq(Atom)
    BY <1>3, RebaseTyped
  <1>6. make_path(d, old)' = make_path(d, old)
    BY <1>1, MakePathStays
  <1>7. RenameUnderWay'
    <2>1. /\ request'.path = make_path(d, old) /\ request'.root = rootdir[d] /\ request'.d = d
          /\ request'.s = old /\ request'.new = new /\ request'.dest = Rebase(old, new)
      BY <1>2
    <2>2. make_path(request.d, request.s)' = make_path(d, old)' /\ rootdir'[d] = rootdir[d]
      BY <1>1, <2>1
    <2>3. Rebase(request.s, request.new)' = Rebase(old, new)
      BY <2>1
    <2> QED
      BY <1>4, <1>6, <2>1, <2>2, <2>3 DEF RenameUnderWay
  <1>8. request' \in RenameRequest
    BY <1>2, <1>3, <1>4, <1>5 DEF RenameRequest
  <1>9. TreeTyped'
    BY <1>1 DEF tree, TreeTyped, Present, NamesTyped
  <1>10. NamesTyped'
    BY <1>1, <1>8, <1>9 DEF NamesTyped, DrivesTyped
  <1> QED
    BY <1>1, <1>7, <1>10, NothingConfined DEF NamesInv

LEMMA RenameIs ==
  ASSUME NamesInv, request.op = "rename"
  PROVE  /\ request \in RenameRequest
         /\ IsPrefix(request.root, request.path) /\ request.dest = Rebase(request.s, request.new)
         /\ request.clean => /\ request.path = make_path(request.d, request.s)
                             /\ request.root = rootdir[request.d]
  <1>1. request \in {NoRequest} \cup RenameRequest \cup ChdirRequest
    BY DEF NamesInv, NamesTyped
  <1>2. request \in RenameRequest
    BY <1>1 DEF NoRequest, ChdirRequest
  <1> QED
    BY <1>2 DEF NamesInv, RenameUnderWay

\* The two paths of a clean rename are made of the same beginning and plain ends.
LEMMA CleanStays ==
  ASSUME NamesInv, request.op = "rename", request.clean, Absolute(request.s),
         Plain(Behind(request.s)), Plain(request.new)
  PROVE  Parent(make_path(request.d, request.dest)) = Parent(request.path)
  <1>1. request \in RenameRequest /\ request.dest = Rebase(request.s, request.new)
        /\ request.path = make_path(request.d, request.s)
    BY RenameIs
  <1>2. PICK s, n, d : s = request.s /\ n = request.new /\ d = request.d
    OBVIOUS
  <1>3. s \in Seq(Atom) /\ n \in Seq(Atom) /\ d \in Drive
    BY <1>1, <1>2 DEF RenameRequest
  <1>4. Absolute(s) /\ Plain(Behind(s)) /\ Plain(n)
    BY <1>2
  <1>5. PICK b, e : b = Before(s) /\ e = Behind(s)
    OBVIOUS
  <1>6. b \in Seq(Atom) /\ s = b \o e /\ Len(b) > 0 /\ b[Len(b)] = "/"
    BY <1>3, <1>4, <1>5, LastSlash
  <1>7. ~Absolute(n)
    <2>1. n \in Text /\ \A i \in 1..Len(n) : n[i] # "/"
      BY <1>4, PlainIs
    <2>2. Len(n) \in Nat \ {0}
      BY <2>1, TextIs
    <2> QED
      BY <2>1, <2>2 DEF Absolute
  <1>8. request.dest = b \o n
    BY <1>1, <1>2, <1>4, <1>5, <1>7 DEF Rebase
  <1>9. Parent(make_path(d, b \o n)) = Parent(make_path(d, b \o e))
    BY <1>3, <1>4, <1>5, <1>6, Beside DEF NamesInv, NamesTyped
  <1> QED
    BY <1>1, <1>2, <1>6, <1>8, <1>9

LEMMA RenameNewStep ==
  ASSUME NamesInv, RenameNew
  PROVE  NamesInv'
  <1>1. /\ UNCHANGED <<rootdir, currdirs, cwd, opt, mapfile>> /\ request' = NoRequest
        /\ request.op = "rename" /\ NamesTyped
    BY DEF RenameNew, drives, NamesInv
  <1>2. PICK p, q, d : p = request.path /\ d = request.d /\ q = make_path(request.d, request.dest)
    OBVIOUS
  <1>3. request \in RenameRequest /\ IsPrefix(request.root, request.path)
    BY <1>1, RenameIs
  <1>4. p \in PcPath /\ d \in Drive /\ request.dest \in Seq(Atom)
    BY <1>2, <1>3 DEF RenameRequest
  <1>5. q \in PcPath /\ IsPrefix(rootdir[d], q)
    BY <1>1, <1>2, <1>4, BelowRoot DEF Root, NamesTyped
  <1>6. TreeTyped'
    <2>1. /\ pcdirs' \in {pcdirs, AllMoved(pcdirs, p, q)}
          /\ pcfiles' \in {pcfiles, AllMoved(pcfiles, p, q)}
      BY <1>2 DEF RenameNew
    <2>2. pcdirs \subseteq PcPath /\ pcfiles \subseteq PcPath
      BY <1>1 DEF NamesTyped, TreeTyped, Present
    <2>3. AllMoved(pcdirs, p, q) \subseteq PcPath /\ AllMoved(pcfiles, p, q) \subseteq PcPath
      BY <1>4, <1>5, <2>2, MovedTyped
    <2> QED
      BY <2>1, <2>2, <2>3 DEF TreeTyped, Present
  <1>7. NamesTyped'
    BY <1>1, <1>6 DEF NamesTyped, DrivesTyped
  <1>8. Confined'
    <2>1. did' = [Noted("rename", request.d, request.s, p) EXCEPT !.other = q,
                    !.roots = @ \cup {request.root},
                    !.clean = /\ request.clean /\ Absolute(request.s)
                              /\ Plain(Behind(request.s)) /\ Plain(request.new)]
      BY <1>2 DEF RenameNew
    <2>2. did'.path = p /\ did'.other = q /\ did'.roots = {rootdir[d], request.root}
      BY <1>2, <1>4, <2>1 DEF Noted
    <2>3. did'.clean => /\ request.clean /\ Absolute(request.s)
                        /\ Plain(Behind(request.s)) /\ Plain(request.new)
      BY <2>1 DEF Noted
    <2>4. did'.clean => Parent(q) = Parent(p)
      BY <1>1, <1>2, <2>3, CleanStays
    <2>5. Parent(did.other)' = Parent(q) /\ Parent(did.path)' = Parent(p)
      BY <2>2 DEF Parent
    <2> QED
      BY <1>2, <1>3, <1>5, <2>2, <2>4, <2>5 DEF Confined
  <1> QED
    BY <1>1, <1>7, <1>8, IdleStep DEF NamesInv

LEMMA ChdirStartStep ==
  ASSUME NamesInv, ChdirStart
  PROVE  NamesInv'
  <1>1. /\ UNCHANGED <<rootdir, currdirs, cwd, opt, mapfile, pcdirs, pcfiles>> /\ did' = Nothing
        /\ NamesTyped
    BY DEF ChdirStart, drives, tree, NamesInv
  <1>2. request' \in ChdirRequest
    BY NamesAssumption DEF ChdirStart, ChdirRequest
  <1>3. RenameUnderWay'
    BY <1>2 DEF RenameUnderWay, ChdirRequest
  <1>4. NamesTyped'
    BY <1>1, <1>2 DEF NamesTyped, DrivesTyped, TreeTyped, Present
  <1> QED
    BY <1>1, <1>3, <1>4, NothingConfined DEF NamesInv

LEMMA ChdirEndStep ==
  ASSUME NamesInv, ChdirEnd
  PROVE  NamesInv'
  <1>1. /\ UNCHANGED <<rootdir, cwd, opt, mapfile, pcdirs, pcfiles>> /\ did' = Nothing
        /\ request' = NoRequest /\ request.op = "chdir" /\ NamesTyped
    BY DEF ChdirEnd, drives, tree, NamesInv
  <1>2. request \in ChdirRequest
    BY <1>1 DEF NamesTyped, NoRequest, RenameRequest
  <1>3. request.s \in Seq(Atom)
    BY <1>2 DEF ChdirRequest
  <1>4. currdirs' \in [Drive -> Seq(Atom)]
    <2>1. PICK s \in IF request.clean THEN {request.s} ELSE Torn(request.s) :
            currdirs' = [currdirs EXCEPT ![request.d] = s]
      BY DEF ChdirEnd
    <2>2. s \in Seq(Atom)
      BY <1>3, <2>1, TornTyped
    <2> QED
      BY <1>1, <2>1, <2>2 DEF NamesTyped, DrivesTyped
  <1>5. NamesTyped'
    BY <1>1, <1>4 DEF NamesTyped, DrivesTyped, TreeTyped, Present
  <1> QED
    BY <1>1, <1>5, IdleStep, NothingConfined DEF NamesInv

LEMMA DevctlStep ==
  ASSUME NamesInv, handle_devctl
  PROVE  NamesInv'
  <1>1. /\ UNCHANGED <<rootdir, currdirs, cwd, opt, mapfile, pcdirs, pcfiles>>
        /\ request' = NoRequest /\ NamesTyped
    BY DEF handle_devctl, MayServe, drives, tree, NamesInv
  <1>2. PICK d \in Drive : did' = Noted("devctl", d, <<"/">>, rootdir[d])
    BY DEF handle_devctl
  <1>3. IsPrefix(rootdir[d], rootdir[d])
    <2>1. rootdir[d] \in Seq(FileName)
      BY <1>1 DEF NamesTyped, DrivesTyped, Root, PcPath
    <2> QED
      BY <2>1, LenProperties DEF IsPrefix
  <1>4. NamesTyped'
    BY <1>1 DEF NamesTyped, DrivesTyped, TreeTyped, Present
  <1> QED
    BY <1>1, <1>2, <1>3, <1>4, IdleStep, NotedConfined DEF NamesInv

LEMMA HostStep ==
  ASSUME NamesInv, init_hostfs
  PROVE  NamesInv'
  <1>1. /\ UNCHANGED <<rootdir, cwd, opt, mapfile, pcdirs, pcfiles>> /\ did' = Nothing
        /\ request' = NoRequest /\ NamesTyped /\ currdirs' = [d \in Drive |-> <<"/">>]
    BY DEF init_hostfs, drives, tree, NamesInv
  <1>2. <<"/">> \in Seq(Atom)
    BY NamesAssumption
  <1>3. NamesTyped'
    BY <1>1, <1>2 DEF NamesTyped, DrivesTyped, TreeTyped, Present
  <1> QED
    BY <1>1, <1>3, IdleStep, NothingConfined DEF NamesInv

-----------------------------------------------------------------------------
\* A step of the console that leaves the drive of a rename alone, or takes its
\* being clean, leaves what is said of it.
LEMMA UnderWayStays ==
  ASSUME NamesInv, UNCHANGED tree,
         \/ request' = request /\ UNCHANGED opt /\ rootdir'[request.d] = rootdir[request.d]
                               /\ currdirs'[request.d] = currdirs[request.d]
         \/ request # NoRequest /\ request' = [request EXCEPT !.clean = FALSE]
         \/ request = NoRequest /\ request' = NoRequest
  PROVE  RenameUnderWay' /\ request' \in {NoRequest} \cup RenameRequest \cup ChdirRequest
  <1>1. request \in {NoRequest} \cup RenameRequest \cup ChdirRequest
    BY DEF NamesInv, NamesTyped
  <1>2. CASE request = NoRequest /\ request' = NoRequest
    BY <1>2, IdleStep
  <1>3. CASE request # NoRequest /\ request' = [request EXCEPT !.clean = FALSE]
    <2>1. CASE request \in ChdirRequest
      <3>1. request' \in ChdirRequest
        BY <1>3, <2>1 DEF ChdirRequest
      <3>2. request'.op # "rename"
        BY <3>1 DEF ChdirRequest
      <3> QED
        BY <3>1, <3>2 DEF RenameUnderWay
    <2>2. CASE request \in RenameRequest
      <3>1. request' \in RenameRequest
        BY <1>3, <2>2 DEF RenameRequest
      <3>2. /\ request'.root = request.root /\ request'.path = request.path /\ request'.s = request.s
            /\ request'.new = request.new /\ request'.dest = request.dest /\ ~request'.clean
        BY <1>3, <2>2 DEF RenameRequest
      <3>3. request.op = "rename"
        BY <2>2 DEF RenameRequest
      <3>4. IsPrefix(request.root, request.path) /\ request.dest = Rebase(request.s, request.new)
        BY <3>3, RenameIs
      <3>5. Rebase(request.s, request.new)' = Rebase(request.s, request.new)
        BY <3>2
      <3>6. IsPrefix(request.root, request.path)' = IsPrefix(request.root, request.path)
        BY <3>2
      <3> QED
        BY <3>1, <3>2, <3>4, <3>5, <3>6 DEF RenameUnderWay
    <2> QED
      BY <1>1, <1>3, <2>1, <2>2
  <1>4. CASE request' = request /\ UNCHANGED opt /\ rootdir'[request.d] = rootdir[request.d]
                                /\ currdirs'[request.d] = currdirs[request.d]
    <2>1. PICK d, s : d = request.d /\ s = request.s
      OBVIOUS
    <2>2. make_path(d, s)' = make_path(d, s)
      BY <1>4, <2>1, MakePathStays
    <2>3. /\ make_path(request.d, request.s)' = make_path(request.d, request.s)
          /\ rootdir'[request'.d] = rootdir[request.d]
          /\ Rebase(request.s, request.new)' = Rebase(request.s, request.new)
          /\ IsPrefix(request.root, request.path)' = IsPrefix(request.root, request.path)
      BY <1>4, <2>1, <2>2
    <2>4. ASSUME request'.op = "rename" PROVE RenameUnderWay'
      <3>1. request.op = "rename"
        BY <1>4, <2>4
      <3>2. /\ IsPrefix(request.root, request.path) /\ request.dest = Rebase(request.s, request.new)
            /\ request.clean => /\ request.path = make_path(request.d, request.s)
                                /\ request.root = rootdir[request.d]
        BY <3>1, RenameIs
      <3> QED
        BY <1>4, <2>3, <3>2 DEF RenameUnderWay
    <2>5. RenameUnderWay'
      BY <2>4 DEF RenameUnderWay
    <2> QED
      BY <1>1, <1>4, <2>5
  <1> QED
    BY <1>2, <1>3, <1>4

\* The directories of the lines are tokens, so that a drive starts below Most of them.
LEMMA AddDrivesStep ==
  ASSUME NamesInv, NEW lines, \A x \in lines : x.dir \in Seq(Text), AddDrives(lines)
  PROVE  NamesInv'
  <1> DEFINE good == {x \in lines : gen_path(x.dir) \in pcdirs}
             New(d) == \E x \in good : x.d = d
             Chosen(d) == CHOOSE x \in good : x.d = d
  <1>1. /\ UNCHANGED <<cwd, opt, mapfile>> /\ UNCHANGED tree /\ did' = Nothing /\ NamesTyped
    BY DEF AddDrives, AtConsole, NamesInv
  <1>2. /\ rootdir' = [d \in Drive |-> IF New(d) THEN gen_path(Chosen(d).dir) ELSE rootdir[d]]
        /\ currdirs' = [d \in Drive |-> IF New(d) THEN <<"/">> ELSE currdirs[d]]
        /\ request' = IF request # NoRequest /\ New(request.d) THEN [request EXCEPT !.clean = FALSE]
                      ELSE request
    BY DEF AddDrives
  <1>3. \A d \in Drive : New(d) => gen_path(Chosen(d).dir) \in Root
    <2>1. SUFFICES ASSUME NEW d \in Drive, New(d) PROVE gen_path(Chosen(d).dir) \in Root
      OBVIOUS
    <2>2. Chosen(d) \in good
      BY <2>1
    <2>3. Chosen(d).dir \in Seq(Text)
      BY <2>2
    <2> QED
      BY <2>3, PathTyped
  <1>4. <<"/">> \in Seq(Atom)
    BY NamesAssumption
  <1>5. DrivesTyped'
    <2> HIDE DEF New, Chosen
    <2>1. rootdir \in [Drive -> Root] /\ currdirs \in [Drive -> Seq(Atom)]
      BY <1>1 DEF NamesTyped, DrivesTyped
    <2>2. rootdir' \in [Drive -> Root]
      BY <1>2, <1>3, <2>1
    <2>3. currdirs' \in [Drive -> Seq(Atom)]
      BY <1>2, <1>4, <2>1
    <2> QED
      BY <1>1, <2>2, <2>3 DEF NamesTyped, DrivesTyped
  <1>6. RenameUnderWay' /\ request' \in {NoRequest} \cup RenameRequest \cup ChdirRequest
    <2> HIDE DEF New, Chosen
    <2>1. CASE request = NoRequest
      <3>1. request' = NoRequest
        BY <1>2, <2>1
      <3> QED
        BY <1>1, <2>1, <3>1, UnderWayStays
    <2>2. CASE request # NoRequest /\ New(request.d)
      <3>1. request' = [request EXCEPT !.clean = FALSE]
        BY <1>2, <2>2
      <3> QED
        BY <1>1, <2>2, <3>1, UnderWayStays
    <2>3. CASE request # NoRequest /\ ~New(request.d)
      <3>1. request.d \in Drive
        BY <1>1, <2>3 DEF NamesTyped, RenameRequest, ChdirRequest
      <3>2. /\ request' = request /\ rootdir'[request.d] = rootdir[request.d]
            /\ currdirs'[request.d] = currdirs[request.d]
        BY <1>2, <2>3, <3>1
      <3> QED
        BY <1>1, <3>2, UnderWayStays
    <2> QED
      BY <2>1, <2>2, <2>3
  <1>7. TreeTyped'
    BY <1>1 DEF tree, TreeTyped, Present, NamesTyped
  <1>8. NamesTyped'
    BY <1>1, <1>5, <1>6, <1>7 DEF NamesTyped
  <1> QED
    BY <1>1, <1>6, <1>8, NothingConfined DEF NamesInv

LEMMA MountStep ==
  ASSUME NamesInv, mount_drive
  PROVE  NamesInv'
  <1>1. PICK d \in Drive, m \in Mounts : AddDrives({[d |-> d, dir |-> FromCwd(m)]})
    BY DEF mount_drive
  <1>2. FromCwd(m) \in Seq(Text)
    BY FromCwdTyped DEF NamesInv, NamesTyped
  <1>3. \A x \in {[d |-> d, dir |-> FromCwd(m)]} : x.dir \in Seq(Text)
    BY <1>2
  <1> QED
    BY <1>1, <1>3, AddDrivesStep

LEMMA LoadStep ==
  ASSUME NamesInv, load_drives
  PROVE  NamesInv'
  <1>1. mapfile # Missing /\ AddDrives({MapLine(d) : d \in Drive})
    BY DEF load_drives
  <1>2. mapfile \in [Drive -> Root]
    BY <1>1 DEF NamesInv, NamesTyped
  <1>3. Root \subseteq Seq(Text)
    BY NameIs DEF Root, PcPath
  <1>4. \A x \in {MapLine(d) : d \in Drive} : x.dir \in Seq(Text)
    BY <1>2, <1>3 DEF MapLine
  <1> QED
    BY <1>1, <1>4, AddDrivesStep

LEMMA SaveStep ==
  ASSUME NamesInv, save_drives
  PROVE  NamesInv'
  <1>1. /\ UNCHANGED <<rootdir, currdirs, cwd, opt, pcdirs, pcfiles, request>> /\ did' = Nothing
        /\ NamesTyped /\ mapfile' = rootdir /\ UNCHANGED tree
    BY DEF save_drives, AtConsole, drives, tree, NamesInv
  <1>2. NamesTyped'
    BY <1>1 DEF NamesTyped, DrivesTyped, TreeTyped, Present
  <1>3. RenameUnderWay'
    BY <1>1, UnderWayStays
  <1> QED
    BY <1>1, <1>2, <1>3, NothingConfined DEF NamesInv

LEMMA ChDirStep ==
  ASSUME NamesInv, ch_dir
  PROVE  NamesInv'
  <1>1. /\ UNCHANGED <<rootdir, currdirs, mapfile, opt, pcdirs, pcfiles, request>> /\ did' = Nothing
        /\ NamesTyped /\ UNCHANGED tree
    BY DEF ch_dir, AtConsole, drives, tree, NamesInv
  <1>2. PICK m \in Mounts : cwd' = LET p == gen_path(FromCwd(m))
                                   IN  IF p \in pcdirs THEN p ELSE cwd
    BY DEF ch_dir
  <1>3. gen_path(FromCwd(m)) \in Root
    BY <1>1, FromCwdTyped, PathTyped DEF NamesTyped
  <1>4. cwd' \in Root
    BY <1>1, <1>2, <1>3 DEF NamesTyped
  <1>5. NamesTyped'
    BY <1>1, <1>4 DEF NamesTyped, DrivesTyped, TreeTyped, Present
  <1>6. RenameUnderWay'
    BY <1>1, UnderWayStays
  <1> QED
    BY <1>1, <1>5, <1>6, NothingConfined DEF NamesInv

LEMMA SetOptionStep ==
  ASSUME NamesInv, NEW new \in [nocase : BOOLEAN, msslash : BOOLEAN], SetOption(new)
  PROVE  NamesInv'
  <1>1. /\ UNCHANGED <<rootdir, currdirs, mapfile, cwd, pcdirs, pcfiles>> /\ did' = Nothing
        /\ NamesTyped /\ UNCHANGED tree /\ opt' = new
        /\ request' = IF request = NoRequest THEN request ELSE [request EXCEPT !.clean = FALSE]
    BY DEF SetOption, AtConsole, drives, tree, NamesInv
  <1>2. RenameUnderWay' /\ request' \in {NoRequest} \cup RenameRequest \cup ChdirRequest
    <2>1. CASE request = NoRequest
      <3>1. request' = NoRequest
        BY <1>1, <2>1
      <3> QED
        BY <1>1, <2>1, <3>1, UnderWayStays
    <2>2. CASE request # NoRequest
      <3>1. request' = [request EXCEPT !.clean = FALSE]
        BY <1>1, <2>2
      <3> QED
        BY <1>1, <2>2, <3>1, UnderWayStays
    <2> QED
      BY <2>1, <2>2
  <1>3. NamesTyped'
    BY <1>1, <1>2 DEF NamesTyped, DrivesTyped, TreeTyped, Present
  <1> QED
    BY <1>1, <1>2, <1>3, NothingConfined DEF NamesInv

-----------------------------------------------------------------------------
\* At first nothing was done and every drive is at the directory of the program.
\* (parse_args)
LEMMA NamesInvInit ==
  ASSUME NamesInit
  PROVE  NamesInv
  <1>1. Cwd0 \in Root
    <2>1. Cwd0 \in PcPath /\ Len(Cwd0) \in Nat /\ MaxTokens \in Nat /\ Len(Cwd0) < MaxTokens
      BY NamesAssumption, LenProperties DEF PcPath
    <2> QED
      BY <2>1 DEF Root, Most
  <1>2. <<"/">> \in Seq(Atom)
    BY NamesAssumption
  <1>3. DrivesTyped
    BY <1>1, <1>2 DEF NamesInit, DrivesTyped
  <1>4. TreeTyped
    BY NamesAssumption DEF NamesInit, TreeTyped, Present
  <1>5. NamesTyped
    BY <1>1, <1>3, <1>4 DEF NamesInit, NamesTyped
  <1>6. RenameUnderWay
    BY DEF NamesInit, RenameUnderWay, NoRequest
  <1>7. Confined
    BY DEF NamesInit, Confined, Nothing, Noted
  <1> QED
    BY <1>5, <1>6, <1>7 DEF NamesInv

LEMMA NamesInvStep ==
  ASSUME NamesInv, [NamesNext]_namevars
  PROVE  NamesInv'
  <1>1. CASE UNCHANGED namevars
    <2>1. UNCHANGED <<rootdir, currdirs, cwd, opt, mapfile, pcdirs, pcfiles, request, did>>
      BY <1>1 DEF namevars
    <2>2. NamesTyped' /\ UNCHANGED tree
      BY <2>1 DEF NamesInv, NamesTyped, DrivesTyped, TreeTyped, Present, tree
    <2>3. RenameUnderWay'
      BY <2>1, <2>2, UnderWayStays
    <2>4. Confined'
      BY <2>1 DEF NamesInv, Confined
    <2> QED
      BY <2>2, <2>3, <2>4 DEF NamesInv
  <1>2. CASE \/ handle_open \/ handle_remove \/ handle_rmdir \/ handle_mkdir
             \/ handle_getstat \/ handle_chstat
    BY <1>2, OneNameStep
       DEF handle_open, handle_remove, handle_rmdir, handle_mkdir, handle_getstat, handle_chstat
  <1>3. CASE RenameOld \/ RenameNew \/ ChdirStart \/ ChdirEnd \/ handle_devctl \/ init_hostfs
    BY <1>3, RenameOldStep, RenameNewStep, ChdirStartStep, ChdirEndStep, DevctlStep, HostStep
  <1>4. CASE mount_drive \/ save_drives \/ load_drives \/ ch_dir
    BY <1>4, MountStep, SaveStep, LoadStep, ChDirStep
  <1>5. CASE nocase_set \/ msslash_set
    <2>1. opt \in [nocase : BOOLEAN, msslash : BOOLEAN]
      BY DEF NamesInv, NamesTyped, DrivesTyped
    <2>2. /\ [opt EXCEPT !.nocase = ~@] \in [nocase : BOOLEAN, msslash : BOOLEAN]
          /\ [opt EXCEPT !.msslash = ~@] \in [nocase : BOOLEAN, msslash : BOOLEAN]
      BY <2>1
    <2> QED
      BY <1>5, <2>2, SetOptionStep DEF nocase_set, msslash_set
  <1> QED
    BY <1>1, <1>2, <1>3, <1>4, <1>5 DEF NamesNext

\* However many drives there are, whatever names the PSP sends, whatever the console
\* mounts, saves, loads and sets meanwhile and whatever becomes of a current directory
\* that two threads write, a command works below a root that its drive has had since
\* it began, and a rename to a plain name stays in its directory.
\* (make_path, handle_rename, handle_chdir, add_drive)
THEOREM StaysInside == NamesSpec => []Confined
  <1>1. NamesInit => NamesInv
    BY NamesInvInit
  <1>2. NamesInv /\ [NamesNext]_namevars => NamesInv'
    BY NamesInvStep
  <1>3. NamesInv => Confined
    BY DEF NamesInv
  <1> QED
    BY <1>1, <1>2, <1>3, PTL DEF NamesSpec

-----------------------------------------------------------------------------
(* What remains of a name: the places of the names that stay, in their order.*)

LEMMA CountMore ==
  ASSUME NEW S, NEW i \in Nat, NEW j \in Nat, i <= j + 1
  PROVE  /\ CountIn(S, i, j) \in Nat /\ CountIn(S, i, j + 1) \in Nat
         /\ j + 1 \in S => CountIn(S, i, j + 1) = CountIn(S, i, j) + 1
         /\ j + 1 \notin S => CountIn(S, i, j + 1) = CountIn(S, i, j)
         /\ i = j + 1 => CountIn(S, i, j) = 0
  <1>1. PICK A, B : A = {k \in i..j : k \in S} /\ B = {k \in i..(j + 1) : k \in S}
    OBVIOUS
  <1>2. IsFiniteSet(A)
    <2>1. IsFiniteSet(i..j)
      BY FS_Interval
    <2>2. A \subseteq i..j
      BY <1>1
    <2> QED
      BY <2>1, <2>2, FS_Subset
  <1>3. Cardinality(A) \in Nat
    BY <1>2, FS_CardinalityType
  <1>4. CountIn(S, i, j) = Cardinality(A) /\ CountIn(S, i, j + 1) = Cardinality(B)
    BY <1>1 DEF CountIn
  <1>6. i = j + 1 => CountIn(S, i, j) = 0
    <2>1. SUFFICES ASSUME i = j + 1 PROVE A = {}
      BY <1>4, FS_EmptySet
    <2> QED
      BY <1>1, <2>1
  <1>5. CASE j + 1 \in S
    <2>1. B = A \cup {j + 1} /\ j + 1 \notin A
      BY <1>1, <1>5
    <2>2. Cardinality(B) = Cardinality(A) + 1
      BY <1>2, <2>1, FS_AddElement
    <2> QED
      BY <1>3, <1>4, <1>5, <2>2, <1>6
  <1>7. CASE j + 1 \notin S
    <2>1. A = B
      BY <1>1, <1>7
    <2> QED
      BY <1>3, <1>4, <1>7, <2>1, <1>6
  <1> QED
    BY <1>5, <1>7

\* What stays after one more token.
LEMMA StayMore ==
  ASSUME NEW D, NEW E, NEW k \in Nat, NEW i \in 1..k
  PROVE  i \in Staying(D, E, k + 1) <=> i \in Staying(D, E, k) /\ CountIn(D, i, k + 1) > CountIn(E, i, k + 1)
  <1>1. \A j : j \in i..(k + 1) <=> j \in i..k \/ j = k + 1
    OBVIOUS
  <1>2. i \in 1..(k + 1)
    OBVIOUS
  <1> QED
    BY <1>1, <1>2 DEF Staying

LEMMA StayNew ==
  ASSUME NEW D, NEW E, NEW k \in Nat
  PROVE  k + 1 \in Staying(D, E, k + 1) <=> CountIn(D, k + 1, k + 1) > CountIn(E, k + 1, k + 1)
  <1>1. (k + 1)..(k + 1) = {k + 1} /\ k + 1 \in 1..(k + 1)
    OBVIOUS
  <1> QED
    BY <1>1 DEF Staying

\* The numbers of names and of ".." from each token on.
LEMMA StayEnd ==
  ASSUME NEW D, NEW E, NEW k \in Nat, NEW i \in Staying(D, E, k)
  PROVE  /\ i \in 1..k /\ CountIn(D, i, k) \in Nat /\ CountIn(E, i, k) \in Nat
         /\ CountIn(D, i, k) > CountIn(E, i, k)
  <1>1. i \in 1..k /\ k \in i..k /\ i \in Nat /\ i <= k + 1
    BY DEF Staying
  <1>2. CountIn(D, i, k) \in Nat /\ CountIn(E, i, k) \in Nat
    BY <1>1, CountMore
  <1> QED
    BY <1>1, <1>2 DEF Staying

LEMMA StaySkip ==
  ASSUME NEW D, NEW E, NEW k \in Nat, k + 1 \notin D, k + 1 \notin E
  PROVE  Staying(D, E, k + 1) = Staying(D, E, k)
  <1>1. k + 1 \notin Staying(D, E, k + 1)
    <2>1. /\ CountIn(D, k + 1, k + 1) = CountIn(D, k + 1, k) /\ CountIn(E, k + 1, k + 1) = CountIn(E, k + 1, k)
          /\ CountIn(D, k + 1, k) = 0 /\ CountIn(E, k + 1, k) = 0
      BY CountMore
    <2> QED
      BY <2>1, StayNew
  <1>2. ASSUME NEW i \in 1..k PROVE i \in Staying(D, E, k + 1) <=> i \in Staying(D, E, k)
    <2>1. CountIn(D, i, k + 1) = CountIn(D, i, k) /\ CountIn(E, i, k + 1) = CountIn(E, i, k)
      BY CountMore
    <2> QED
      BY <2>1, StayMore, StayEnd
  <1>3. Staying(D, E, k + 1) \subseteq 1..(k + 1) /\ Staying(D, E, k) \subseteq 1..k
    BY DEF Staying
  <1> QED
    BY <1>1, <1>2, <1>3

LEMMA StayName ==
  ASSUME NEW D, NEW E, NEW k \in Nat, k + 1 \in D, k + 1 \notin E
  PROVE  Staying(D, E, k + 1) = Staying(D, E, k) \cup {k + 1}
  <1>1. k + 1 \in Staying(D, E, k + 1)
    <2>1. /\ CountIn(D, k + 1, k + 1) = CountIn(D, k + 1, k) + 1 /\ CountIn(E, k + 1, k + 1) = CountIn(E, k + 1, k)
          /\ CountIn(D, k + 1, k) = 0 /\ CountIn(E, k + 1, k) = 0
      BY CountMore
    <2> QED
      BY <2>1, StayNew
  <1>2. ASSUME NEW i \in 1..k PROVE i \in Staying(D, E, k + 1) <=> i \in Staying(D, E, k)
    <2>1. CountIn(D, i, k + 1) = CountIn(D, i, k) + 1 /\ CountIn(E, i, k + 1) = CountIn(E, i, k)
      BY CountMore
    <2>2. i \in Staying(D, E, k) => CountIn(D, i, k + 1) > CountIn(E, i, k + 1)
      BY <2>1, StayEnd
    <2> QED
      BY <2>2, StayMore
  <1>3. Staying(D, E, k + 1) \subseteq 1..(k + 1) /\ Staying(D, E, k) \subseteq 1..k
    BY DEF Staying
  <1> QED
    BY <1>1, <1>2, <1>3

LEMMA StayUp ==
  ASSUME NEW D, NEW E, NEW k \in Nat, k + 1 \notin D, k + 1 \in E
  PROVE  Staying(D, E, k + 1) = {i \in Staying(D, E, k) : CountIn(D, i, k) > CountIn(E, i, k) + 1}
  <1>1. k + 1 \notin Staying(D, E, k + 1)
    <2>1. /\ CountIn(D, k + 1, k + 1) = CountIn(D, k + 1, k) /\ CountIn(E, k + 1, k + 1) = CountIn(E, k + 1, k) + 1
          /\ CountIn(D, k + 1, k) = 0 /\ CountIn(E, k + 1, k) = 0
      BY CountMore
    <2> QED
      BY <2>1, StayNew
  <1>2. ASSUME NEW i \in 1..k
        PROVE  i \in Staying(D, E, k + 1) <=> i \in Staying(D, E, k) /\ CountIn(D, i, k) > CountIn(E, i, k) + 1
    <2>1. CountIn(D, i, k + 1) = CountIn(D, i, k) /\ CountIn(E, i, k + 1) = CountIn(E, i, k) + 1
      BY CountMore
    <2> QED
      BY <2>1, StayMore
  <1>3. Staying(D, E, k + 1) \subseteq 1..(k + 1) /\ Staying(D, E, k) \subseteq 1..k
    BY DEF Staying
  <1> QED
    BY <1>1, <1>2, <1>3

-----------------------------------------------------------------------------
\* Places in rising order.
Places(n) == {p \in Seq(1..n) : \A x, y \in 1..Len(p) : x < y => p[x] < p[y]}
At(p) == {p[x] : x \in 1..Len(p)}

\* The places of the tokens that stay after k of them, and how many more names than
\* ".." there are from each on.
Kept(D, E, k, p) ==
  /\ p \in Places(k)
  /\ Staying(D, E, k) = At(p)
  /\ \A x \in 1..Len(p) : CountIn(D, p[x], k) = CountIn(E, p[x], k) + (Len(p) - x + 1)

\* A name is put behind them, ".." takes the last.
PlaceStep(D, E, k, p) ==
  IF k \in D THEN Append(p, k)
  ELSE IF k \in E THEN IF p = <<>> THEN p ELSE Front(p)
  ELSE p

LEMMA PlacesGrow ==
  ASSUME NEW k \in Nat, NEW p \in Places(k)
  PROVE  p \in Places(k + 1) /\ p \in Seq(1..k) /\ Len(p) \in Nat /\ \A x \in 1..Len(p) : p[x] \in 1..k
  <1>1. p \in Seq(1..k) /\ Len(p) \in Nat
    BY LenProperties DEF Places
  <1>2. \A x \in 1..Len(p) : p[x] \in 1..k
    BY <1>1, ElementOfSeq
  <1>3. p \in Seq(1..(k + 1))
    <2>1. 1..k \subseteq 1..(k + 1)
      OBVIOUS
    <2> QED
      BY <1>1, <2>1
  <1> QED
    BY <1>1, <1>2, <1>3 DEF Places

LEMMA KeptSkip ==
  ASSUME NEW D, NEW E, NEW k \in Nat, NEW p, Kept(D, E, k, p), k + 1 \notin D, k + 1 \notin E
  PROVE  Kept(D, E, k + 1, p)
  <1>1. p \in Places(k + 1) /\ \A x \in 1..Len(p) : p[x] \in 1..k
    BY PlacesGrow DEF Kept
  <1>2. Staying(D, E, k + 1) = At(p)
    BY StaySkip DEF Kept
  <1>3. ASSUME NEW x \in 1..Len(p)
        PROVE  CountIn(D, p[x], k + 1) = CountIn(E, p[x], k + 1) + (Len(p) - x + 1)
    <2>1. PICK i \in 1..k : i = p[x]
      BY <1>1
    <2>2. CountIn(D, i, k + 1) = CountIn(D, i, k) /\ CountIn(E, i, k + 1) = CountIn(E, i, k)
      BY CountMore
    <2> QED
      BY <2>1, <2>2 DEF Kept
  <1> QED
    BY <1>1, <1>2, <1>3 DEF Kept

LEMMA NameBehind ==
  ASSUME NEW k \in Nat, NEW p \in Places(k)
  PROVE  Append(p, k + 1) \in Places(k + 1)
  <1>1. p \in Seq(1..(k + 1)) /\ Len(p) \in Nat /\ \A x \in 1..Len(p) : p[x] \in 1..k
    BY PlacesGrow DEF Places
  <1>2. PICK q, m : q = Append(p, k + 1) /\ m = Len(p)
    OBVIOUS
  <1>3. /\ q \in Seq(1..(k + 1)) /\ Len(q) = m + 1 /\ m \in Nat
        /\ q[m + 1] = k + 1 /\ \A x \in 1..m : q[x] = p[x]
    <2>1. k + 1 \in 1..(k + 1)
      OBVIOUS
    <2> QED
      BY <1>1, <1>2, <2>1, AppendProperties
  <1>4. \A x \in 1..(m + 1) : x \in 1..m \/ x = m + 1
    BY <1>3
  <1>5. q \in Places(k + 1)
    <2>1. SUFFICES ASSUME NEW x \in 1..(m + 1), NEW y \in 1..(m + 1), x < y PROVE q[x] < q[y]
      BY <1>3 DEF Places
    <2>2. x \in 1..m
      BY <1>3, <2>1
    <2>3. CASE y \in 1..m
      <3>1. p[x] < p[y]
        BY <1>1, <1>2, <2>1, <2>2, <2>3 DEF Places
      <3> QED
        BY <1>3, <2>2, <2>3, <3>1
    <2>4. CASE y = m + 1
      <3>1. q[x] \in 1..k /\ q[y] = k + 1
        BY <1>1, <1>2, <1>3, <2>2, <2>4
      <3> QED
        BY <3>1
    <2> QED
      BY <1>4, <2>3, <2>4
  <1> QED
    BY <1>2, <1>5

LEMMA KeptName ==
  ASSUME NEW D, NEW E, NEW k \in Nat, NEW p, Kept(D, E, k, p), k + 1 \in D, k + 1 \notin E
  PROVE  Kept(D, E, k + 1, Append(p, k + 1))
  <1>1. p \in Seq(1..(k + 1)) /\ p \in Places(k) /\ Len(p) \in Nat /\ \A x \in 1..Len(p) : p[x] \in 1..k
    BY PlacesGrow DEF Kept, Places
  <1>2. PICK q, m : q = Append(p, k + 1) /\ m = Len(p)
    OBVIOUS
  <1>3. /\ q \in Seq(1..(k + 1)) /\ Len(q) = m + 1 /\ m \in Nat
        /\ q[m + 1] = k + 1 /\ \A x \in 1..m : q[x] = p[x]
    <2>1. k + 1 \in 1..(k + 1)
      OBVIOUS
    <2> QED
      BY <1>1, <1>2, <2>1, AppendProperties
  <1>4. \A x \in 1..(m + 1) : x \in 1..m \/ x = m + 1
    BY <1>3
  <1>5. q \in Places(k + 1)
    BY <1>1, <1>2, NameBehind
  <1>6. At(q) = At(p) \cup {k + 1}
    <2>1. At(q) = {q[x] : x \in 1..(m + 1)} /\ At(p) = {p[x] : x \in 1..m}
      BY <1>2, <1>3 DEF At
    <2>2. 1..m \subseteq 1..(m + 1) /\ m + 1 \in 1..(m + 1)
      BY <1>3
    <2> QED
      BY <1>3, <1>4, <2>1, <2>2
  <1>7. Staying(D, E, k + 1) = At(q)
    BY <1>6, StayName DEF Kept
  <1>8. ASSUME NEW x \in 1..(m + 1)
        PROVE  CountIn(D, q[x], k + 1) = CountIn(E, q[x], k + 1) + ((m + 1) - x + 1)
    <2>1. CASE x \in 1..m
      <3>1. PICK i \in 1..k : i = p[x]
        BY <1>1, <1>2, <2>1
      <3>2. /\ CountIn(D, i, k + 1) = CountIn(D, i, k) + 1 /\ CountIn(E, i, k + 1) = CountIn(E, i, k)
            /\ CountIn(E, i, k) \in Nat
        BY CountMore
      <3>3. CountIn(D, i, k) = CountIn(E, i, k) + (m - x + 1)
        BY <1>2, <2>1, <3>1 DEF Kept
      <3> QED
        BY <1>3, <2>1, <3>1, <3>2, <3>3
    <2>2. CASE x = m + 1
      <3>1. /\ CountIn(D, k + 1, k + 1) = CountIn(D, k + 1, k) + 1 /\ CountIn(E, k + 1, k + 1) = CountIn(E, k + 1, k)
            /\ CountIn(D, k + 1, k) = 0 /\ CountIn(E, k + 1, k) = 0
        BY CountMore
      <3> QED
        BY <1>3, <2>2, <3>1
    <2> QED
      BY <1>4, <2>1, <2>2
  <1> QED
    BY <1>2, <1>3, <1>5, <1>7, <1>8 DEF Kept

LEMMA FrontOfPlaces ==
  ASSUME NEW k \in Nat, NEW p \in Places(k), p # <<>>
  PROVE  /\ Front(p) \in Places(k) /\ Len(Front(p)) = Len(p) - 1 /\ Len(p) \in Nat /\ Len(p) > 0
         /\ \A x \in 1..(Len(p) - 1) : Front(p)[x] = p[x]
  <1>1. p \in Seq(1..k) /\ Len(p) \in Nat
    BY PlacesGrow
  <1>2. PICK m \in Nat : m = Len(p)
    BY <1>1
  <1>3. PICK q : q = Front(p)
    OBVIOUS
  <1>4. q = SubSeq(p, 1, m - 1) /\ m > 0
    BY <1>1, <1>2, <1>3, EmptySeq DEF Front
  <1>5. q \in Seq(1..k) /\ Len(q) = m - 1 /\ \A x \in 1..(m - 1) : q[x] = p[x]
    <2>1. m - 1 \in 0..Len(p)
      BY <1>2, <1>4
    <2> QED
      BY <1>1, <1>4, <2>1, StartOf
  <1>6. \A x : x \in 1..(m - 1) <=> x \in 1..m /\ x < m
    BY <1>4
  <1>7. q \in Places(k)
    <2>1. SUFFICES ASSUME NEW x \in 1..(m - 1), NEW y \in 1..(m - 1), x < y PROVE q[x] < q[y]
      BY <1>5 DEF Places
    <2>2. p[x] < p[y]
      BY <1>1, <1>2, <1>6, <2>1 DEF Places
    <2> QED
      BY <1>5, <2>2
  <1> QED
    BY <1>2, <1>3, <1>4, <1>5, <1>7

LEMMA KeptUp ==
  ASSUME NEW D, NEW E, NEW k \in Nat, NEW p, Kept(D, E, k, p), k + 1 \notin D, k + 1 \in E
  PROVE  Kept(D, E, k + 1, IF p = <<>> THEN p ELSE Front(p))
  <1>1. p \in Seq(1..k) /\ p \in Places(k) /\ Len(p) \in Nat /\ (\A x \in 1..Len(p) : p[x] \in 1..k)
        /\ p \in Places(k + 1)
    BY PlacesGrow DEF Kept
  <1>2. PICK m \in Nat : m = Len(p)
    BY <1>1
  <1>3. \A x \in 1..m : CountIn(D, p[x], k) = CountIn(E, p[x], k) + (m - x + 1) /\ CountIn(E, p[x], k) \in Nat
    <2>1. SUFFICES ASSUME NEW x \in 1..m PROVE CountIn(E, p[x], k) \in Nat
      BY <1>2 DEF Kept
    <2>2. PICK i \in 1..k : i = p[x]
      BY <1>1, <1>2
    <2> QED
      BY <2>2, CountMore
  <1>4. Staying(D, E, k + 1) = {i \in At(p) : CountIn(D, i, k) > CountIn(E, i, k) + 1}
    BY StayUp DEF Kept
  <1>5. CASE p = <<>>
    <2>1. m = 0 /\ At(p) = {}
      BY <1>2, <1>5 DEF At
    <2>2. Staying(D, E, k + 1) = At(p)
      BY <1>4, <2>1
    <2> QED
      BY <1>1, <1>2, <1>5, <2>1, <2>2 DEF Kept
  <1>6. CASE p # <<>>
    <2>1. PICK q : q = Front(p)
      OBVIOUS
    <2>2. m > 0 /\ q \in Places(k)
      BY <1>1, <1>2, <1>6, <2>1, FrontOfPlaces
    <2>3. q \in Seq(1..k) /\ Len(q) = m - 1 /\ \A x \in 1..(m - 1) : q[x] = p[x]
      BY <1>1, <1>2, <1>6, <2>1, <2>2, FrontOfPlaces, PlacesGrow
    <2>4. \A x : x \in 1..(m - 1) <=> x \in 1..m /\ x < m
      BY <2>2
    <2>6. q \in Places(k + 1)
      BY <2>2, PlacesGrow
    <2>7. Staying(D, E, k + 1) = At(q)
      <3>1. At(q) = {p[x] : x \in 1..(m - 1)}
        BY <2>3 DEF At
      <3>2. ASSUME NEW x \in 1..m PROVE CountIn(D, p[x], k) > CountIn(E, p[x], k) + 1 <=> x < m
        BY <1>3, <3>2
      <3>3. At(p) = {p[x] : x \in 1..m}
        BY <1>2 DEF At
      <3> QED
        BY <1>4, <2>4, <3>1, <3>2, <3>3
    <2>8. ASSUME NEW x \in 1..(m - 1)
          PROVE  CountIn(D, q[x], k + 1) = CountIn(E, q[x], k + 1) + ((m - 1) - x + 1)
      <3>1. PICK i \in 1..k : i = p[x]
        BY <1>1, <1>2, <2>4
      <3>2. CountIn(D, i, k + 1) = CountIn(D, i, k) /\ CountIn(E, i, k + 1) = CountIn(E, i, k) + 1
        BY CountMore
      <3>3. CountIn(D, i, k) = CountIn(E, i, k) + (m - x + 1) /\ CountIn(E, i, k) \in Nat
        BY <1>3, <2>4, <3>1
      <3>4. q[x] = i
        BY <2>3, <3>1
      <3> QED
        BY <3>2, <3>3, <3>4
    <2> QED
      BY <1>6, <2>1, <2>3, <2>6, <2>7, <2>8 DEF Kept
  <1> QED
    BY <1>5, <1>6

LEMMA KeptStep ==
  ASSUME NEW D, NEW E, NEW k \in Nat, NEW p, Kept(D, E, k, p), k + 1 \notin D \cap E
  PROVE  Kept(D, E, k + 1, PlaceStep(D, E, k + 1, p))
  BY KeptSkip, KeptName, KeptUp DEF PlaceStep

LEMMA KeptFirst ==
  ASSUME NEW D, NEW E
  PROVE  Kept(D, E, 0, <<>>)
  <1>1. <<>> \in Places(0) /\ At(<<>>) = {} /\ Staying(D, E, 0) = {}
    BY DEF Places, At, Staying
  <1>2. PICK p : p = <<>>
    OBVIOUS
  <1>3. \A x \in 1..Len(p) : FALSE
    <2>1. Len(p) = 0
      BY <1>2, EmptySeq
    <2> QED
      BY <2>1
  <1>4. Kept(D, E, 0, p)
    BY <1>1, <1>2, <1>3 DEF Kept
  <1> QED
    BY <1>2, <1>4

\* The n-th of the places is the one with n up to it.
LEMMA PlacesCounted ==
  ASSUME NEW n \in Nat, NEW p \in Places(n)
  PROVE  /\ Cardinality(At(p)) = Len(p)
         /\ \A x \in 1..Len(p) : p[x] \in At(p) /\ Cardinality({i \in At(p) : i <= p[x]}) = x
  <1>1. p \in Seq(1..n) /\ Len(p) \in Nat /\ \A x \in 1..Len(p) : p[x] \in 1..n
    BY PlacesGrow
  <1>2. PICK m \in Nat : m = Len(p)
    BY <1>1
  <1>3. \A x, y \in 1..m : x < y => p[x] < p[y]
    BY <1>2 DEF Places
  <1> DEFINE Lead(x) == {p[y] : y \in 1..x}
             T == {x \in 0..m : IsFiniteSet(Lead(x)) /\ Cardinality(Lead(x)) = x}
  <1>4. 0 \in T
    <2>1. Lead(0) = {}
      OBVIOUS
    <2> QED
      BY <2>1, FS_EmptySet
  <1>5. ASSUME NEW x \in 0..(m - 1), x \in T PROVE x + 1 \in T
    <2>1. x + 1 \in 1..m /\ x + 1 \in 0..m /\ \A y \in 1..x : y \in 1..m /\ y < x + 1
      OBVIOUS
    <2>2. \A y : y \in 1..(x + 1) <=> y \in 1..x \/ y = x + 1
      OBVIOUS
    <2>3. Lead(x + 1) = Lead(x) \cup {p[x + 1]}
      BY <2>2
    <2>4. p[x + 1] \notin Lead(x)
      <3>1. SUFFICES ASSUME NEW y \in 1..x, p[y] = p[x + 1] PROVE FALSE
        OBVIOUS
      <3>2. p[y] < p[x + 1] /\ p[x + 1] \in 1..n
        BY <1>1, <1>2, <1>3, <2>1
      <3> QED
        BY <3>1, <3>2
    <2>5. IsFiniteSet(Lead(x)) /\ Cardinality(Lead(x)) = x
      BY <1>5
    <2> HIDE DEF Lead
    <2>6. IsFiniteSet(Lead(x + 1)) /\ Cardinality(Lead(x + 1)) = x + 1
      BY <2>3, <2>4, <2>5, FS_AddElement
    <2> QED
      BY <2>1, <2>6
  <1>6. 0..m \subseteq T
    <2> HIDE DEF T
    <2> QED
      BY <1>4, <1>5, EachStep
  <1>7. Cardinality(At(p)) = m
    <2>1. At(p) = Lead(m) /\ m \in 0..m
      BY <1>2 DEF At
    <2> QED
      BY <1>6, <2>1
  <1>8. ASSUME NEW x \in 1..m PROVE p[x] \in At(p) /\ Cardinality({i \in At(p) : i <= p[x]}) = x
    <2>1. \A y \in 1..m : p[y] <= p[x] <=> y \in 1..x
      <3>1. SUFFICES ASSUME NEW y \in 1..m PROVE p[y] <= p[x] <=> y <= x
        OBVIOUS
      <3>2. p[x] \in 1..n /\ p[y] \in 1..n
        BY <1>1, <1>2
      <3>3. (x < y => p[x] < p[y]) /\ (y < x => p[y] < p[x])
        BY <1>3
      <3> QED
        BY <3>2, <3>3
    <2>2. \A y \in 1..x : y \in 1..m
      OBVIOUS
    <2>3. {i \in At(p) : i <= p[x]} = Lead(x)
      BY <1>2, <2>1, <2>2 DEF At
    <2>4. x \in 0..m
      OBVIOUS
    <2>5. p[x] \in At(p)
      BY <1>2 DEF At
    <2> QED
      BY <1>6, <2>3, <2>4, <2>5
  <1> QED
    BY <1>2, <1>7, <1>8

LEMMA NthIs ==
  ASSUME NEW n \in Nat, NEW p \in Places(n), NEW x \in 1..Len(p)
  PROVE  Nth(At(p), x) = p[x]
  <1>1. p[x] \in At(p) /\ Cardinality({i \in At(p) : i <= p[x]}) = x
    BY PlacesCounted
  <1>2. PICK i : i = Nth(At(p), x)
    OBVIOUS
  <1>3. i \in At(p) /\ Cardinality({k \in At(p) : k <= i}) = x
    BY <1>1, <1>2 DEF Nth
  <1>4. PICK y \in 1..Len(p) : i = p[y]
    BY <1>3 DEF At
  <1>5. Cardinality({k \in At(p) : k <= p[y]}) = y
    BY PlacesCounted
  <1> QED
    BY <1>2, <1>3, <1>4, <1>5

-----------------------------------------------------------------------------
\* The tokens at some places.
Picked(toks, p) == [x \in 1..Len(p) |-> toks[p[x]]]

LEMMA PickedStep ==
  ASSUME NEW toks \in Seq(Text), NEW D, NEW E, NEW k \in 0..(Len(toks) - 1),
         NEW p \in Places(k),
         D = {i \in 1..Len(toks) : toks[i] \in FileName},
         E = {i \in 1..Len(toks) : toks[i] = <<".", ".">>}
  PROVE  Picked(toks, PlaceStep(D, E, k + 1, p)) = NormalStep(Picked(toks, p), toks[k + 1])
  <1>1. Len(toks) \in Nat /\ k \in Nat /\ k + 1 \in 1..Len(toks)
    BY LenProperties
  <1>2. PICK t : t = toks[k + 1]
    OBVIOUS
  <1>3. t \in Text /\ (k + 1 \in D <=> t \in FileName) /\ (k + 1 \in E <=> t = <<".", ".">>)
    BY <1>1, <1>2, ElementOfSeq
  <1>4. p \in Seq(1..k) /\ Len(p) \in Nat /\ \A x \in 1..Len(p) : p[x] \in 1..k
    BY <1>1, PlacesGrow
  <1>5. PICK o : o = Picked(toks, p)
    OBVIOUS
  <1>6. o \in Seq(Text) /\ Len(o) = Len(p) /\ \A x \in 1..Len(p) : o[x] = toks[p[x]]
    <2>1. \A x \in 1..Len(p) : toks[p[x]] \in Text
      <3>1. SUFFICES ASSUME NEW x \in 1..Len(p) PROVE toks[p[x]] \in Text
        OBVIOUS
      <3>2. p[x] \in 1..Len(toks)
        BY <1>1, <1>4
      <3> QED
        BY <3>2, ElementOfSeq
    <2> QED
      BY <1>4, <1>5, <2>1 DEF Picked
  <1>7. CASE t \in FileName
    <2>1. NormalStep(o, t) = Append(o, t)
      BY <1>7 DEF NormalStep, FileName
    <2>2. PICK q : q = PlaceStep(D, E, k + 1, p)
      OBVIOUS
    <2>3. q = Append(p, k + 1)
      BY <1>3, <1>7, <2>2 DEF PlaceStep
    <2>4. Len(q) = Len(p) + 1 /\ q[Len(p) + 1] = k + 1 /\ \A x \in 1..Len(p) : q[x] = p[x]
      <3>1. p \in Seq(Nat) /\ k + 1 \in Nat
        BY <1>1, <1>4
      <3> QED
        BY <2>3, <3>1, AppendProperties
    <2>5. PICK a : a = Append(o, t)
      OBVIOUS
    <2>6. a \in Seq(Text) /\ Len(a) = Len(p) + 1 /\ a[Len(p) + 1] = t /\ \A x \in 1..Len(p) : a[x] = o[x]
      BY <1>3, <1>6, <2>5, AppendProperties
    <2>7. a = [x \in 1..(Len(p) + 1) |-> a[x]]
      BY <2>6
    <2>8. \A x \in 1..(Len(p) + 1) : a[x] = toks[q[x]]
      <3>1. SUFFICES ASSUME NEW x \in 1..(Len(p) + 1) PROVE a[x] = toks[q[x]]
        OBVIOUS
      <3>2. CASE x \in 1..Len(p)
        BY <1>6, <2>4, <2>6, <3>2
      <3>3. CASE x = Len(p) + 1
        BY <1>2, <2>4, <2>6, <3>3
      <3> QED
        BY <1>4, <3>2, <3>3
    <2>9. Picked(toks, q) = a
      BY <2>4, <2>7, <2>8 DEF Picked
    <2> QED
      BY <1>2, <1>5, <2>1, <2>2, <2>5, <2>9
  <1>8. CASE t = <<".", ".">>
    <2>1. t \notin FileName /\ t # <<".">>
      BY <1>8 DEF FileName
    <2>2. NormalStep(o, t) = IF o = <<>> THEN o ELSE Front(o)
      BY <1>8, <2>1 DEF NormalStep
    <2>3. PlaceStep(D, E, k + 1, p) = IF p = <<>> THEN p ELSE Front(p)
      BY <1>3, <1>8, <2>1 DEF PlaceStep
    <2>4. p = <<>> <=> o = <<>>
      BY <1>4, <1>6, EmptySeq
    <2>5. CASE p = <<>>
      BY <1>2, <1>5, <2>2, <2>3, <2>4, <2>5
    <2>6. CASE p # <<>>
      <3>0. Len(p) # 0
        BY <1>4, <2>6, EmptySeq
      <3>1. PICK m \in Nat : m = Len(p) - 1
        BY <1>4, <3>0
      <3>2. Front(p) = SubSeq(p, 1, m) /\ Front(o) = SubSeq(o, 1, m) /\ m \in 0..Len(p)
        BY <1>4, <1>6, <3>1 DEF Front
      <3>3. Len(SubSeq(p, 1, m)) = m /\ \A x \in 1..m : SubSeq(p, 1, m)[x] = p[x]
        BY <1>4, <3>2, StartOf
      <3>4. /\ SubSeq(o, 1, m) \in Seq(Text) /\ Len(SubSeq(o, 1, m)) = m
            /\ \A x \in 1..m : SubSeq(o, 1, m)[x] = o[x]
        BY <1>6, <3>2, StartOf
      <3>5. SubSeq(o, 1, m) = [x \in 1..m |-> SubSeq(o, 1, m)[x]]
        BY <3>4
      <3>6. \A x \in 1..m : x \in 1..Len(p)
        BY <3>1
      <3>7. \A x \in 1..m : SubSeq(o, 1, m)[x] = toks[SubSeq(p, 1, m)[x]]
        BY <1>6, <3>3, <3>4, <3>6
      <3>8. Picked(toks, Front(p)) = Front(o)
        BY <3>2, <3>3, <3>5, <3>7 DEF Picked
      <3> QED
        BY <1>2, <1>5, <2>2, <2>3, <2>4, <2>6, <3>8
    <2> QED
      BY <2>5, <2>6
  <1>9. CASE t = <<".">>
    <2>1. t \notin FileName /\ t # <<".", ".">>
      BY <1>9 DEF FileName
    <2> QED
      BY <1>2, <1>3, <1>5, <1>9, <2>1 DEF NormalStep, PlaceStep
  <1> QED
    BY <1>3, <1>7, <1>8, <1>9 DEF FileName

\* gen_path gives what ResolvedTokens says it has to, for every string that has fewer
\* tokens than MaxTokens.  (gen_path)

-----------------------------------------------------------------------------
(* What the loops of psplink make of a name.                                *)

\* The other elements.
IsBlank(e) == e = ""
IsDot(e) == e = "."
IsUp(e) == e = ".."

\* r is what the elements of p make, one after the other, of its first.
Folds(p, r) ==
  \E f \in [1..Len(p) -> Path] :
    /\ f[1] = <<p[1]>>
    /\ \A n \in 2..Len(p) : f[n] = NameStep(f[n - 1], p[n])
    /\ r = f[Len(p)]

LEMMA FoldsOne == ASSUME NEW e \in Element PROVE Folds(<<e>>, <<e>>)
  <1>1. PICK p : p = <<e>>
    OBVIOUS
  <1>2. p \in Path /\ Len(p) = 1 /\ p[1] = e
    BY <1>1, OneElement
  <1> DEFINE f == [n \in 1..1 |-> p]
  <1>3. f \in [1..Len(p) -> Path] /\ f[1] = <<p[1]>> /\ p = f[Len(p)]
    BY <1>1, <1>2
  <1>4. \A n \in 2..Len(p) : FALSE
    BY <1>2
  <1> HIDE DEF f
  <1> QED
    BY <1>1, <1>3, <1>4 DEF Folds

LEMMA FoldsTyped == ASSUME NEW p \in Path, NEW r, Folds(p, r) PROVE r \in Path
  <1>1. Len(p) \in 1..Len(p)
    BY PathIs
  <1> QED
    BY <1>1 DEF Folds

LEMMA FoldsMore ==
  ASSUME NEW p \in Path, NEW e \in Element, NEW r, Folds(p, r)
  PROVE  Folds(Append(p, e), NameStep(r, e))
  <1>1. PICK n \in Nat \ {0} : n = Len(p)
    BY PathIs
  <1>2. PICK f \in [1..n -> Path] : /\ f[1] = <<p[1]>>
                                    /\ \A i \in 2..n : f[i] = NameStep(f[i - 1], p[i])
                                    /\ r = f[n]
    BY <1>1 DEF Folds
  <1>3. PICK a : a = Append(p, e)
    OBVIOUS
  <1>4. a \in Path /\ Len(a) = n + 1 /\ a[n + 1] = e /\ \A i \in 1..n : a[i] = p[i]
    <2>1. a \in Path /\ Len(a) = n + 1 /\ Last(a) = e /\ \A i \in 1..n : a[i] = p[i]
      BY <1>1, <1>3, OneDeeper
    <2> QED
      BY <2>1 DEF Last
  <1>5. PICK v : v = NameStep(r, e)
    OBVIOUS
  <1>6. v \in Path
    BY <1>1, <1>2, <1>5, NameStepTyped
  <1> DEFINE g == [i \in 1..(n + 1) |-> IF i = n + 1 THEN v ELSE f[i]]
  <1>7. g \in [1..(n + 1) -> Path]
    BY <1>2, <1>6
  <1>8. g[1] = <<a[1]>> /\ g[n + 1] = v
    BY <1>1, <1>2, <1>4
  <1>9. ASSUME NEW i \in 2..(n + 1) PROVE g[i] = NameStep(g[i - 1], a[i])
    <2>1. CASE i = n + 1
      <3>1. g[i] = v /\ g[i - 1] = r /\ a[i] = e
        BY <1>1, <1>2, <1>4, <2>1
      <3> HIDE DEF g
      <3> QED
        BY <1>5, <3>1
    <2>2. CASE i # n + 1
      <3>1. i \in 2..n /\ g[i] = f[i] /\ g[i - 1] = f[i - 1] /\ a[i] = p[i]
        BY <1>1, <1>4, <2>2
      <3> HIDE DEF g
      <3> QED
        BY <1>2, <3>1
    <2> QED
      BY <2>1, <2>2
  <1> HIDE DEF g
  <1>10. Folds(a, v)
    BY <1>4, <1>7, <1>8, <1>9 DEF Folds
  <1> QED
    BY <1>3, <1>5, <1>10

LEMMA FoldsFront ==
  ASSUME NEW p \in Path, Len(p) > 1, NEW r, Folds(p, r)
  PROVE  \E s \in Path : Folds(Front(p), s) /\ r = NameStep(s, Last(p))
  <1>1. PICK n \in Nat \ {0} : n + 1 = Len(p)
    <2>1. Len(p) \in Nat /\ Len(p) - 1 \in Nat \ {0} /\ (Len(p) - 1) + 1 = Len(p)
      BY PathIs
    <2> QED
      BY <2>1
  <1>2. PICK f \in [1..(n + 1) -> Path] :
          /\ f[1] = <<p[1]>>
          /\ \A i \in 2..(n + 1) : f[i] = NameStep(f[i - 1], p[i])
          /\ r = f[n + 1]
    BY <1>1 DEF Folds
  <1>3. PICK q : q = Front(p)
    OBVIOUS
  <1>4. q \in Path /\ Len(q) = n /\ \A i \in 1..n : q[i] = p[i]
    BY <1>1, <1>3, FrontOf
  <1> DEFINE g == [i \in 1..n |-> f[i]]
  <1>5. g \in [1..n -> Path] /\ g[1] = <<q[1]>> /\ g[n] = f[n] /\ f[n] \in Path
    BY <1>2, <1>4
  <1>6. ASSUME NEW i \in 2..n PROVE g[i] = NameStep(g[i - 1], q[i])
    <2>1. g[i] = f[i] /\ g[i - 1] = f[i - 1] /\ q[i] = p[i] /\ i \in 2..(n + 1)
      BY <1>4
    <2> HIDE DEF g
    <2> QED
      BY <1>2, <2>1
  <1> HIDE DEF g
  <1>7. Folds(q, f[n])
    BY <1>4, <1>5, <1>6 DEF Folds
  <1>8. n + 1 \in 2..(n + 1) /\ (n + 1) - 1 = n
    OBVIOUS
  <1>9. r = NameStep(f[n], Last(p))
    BY <1>1, <1>2, <1>8 DEF Last
  <1> QED
    BY <1>3, <1>5, <1>7, <1>9

LEMMA FoldsSame ==
  ASSUME NEW p \in Path, NEW r \in Path, NEW s \in Path, Folds(p, r), Folds(p, s)
  PROVE  r = s
  <1>1. PICK n \in Nat : n + 1 = Len(p)
    <2>1. Len(p) \in Nat /\ Len(p) - 1 \in Nat /\ (Len(p) - 1) + 1 = Len(p)
      BY PathIs
    <2> QED
      BY <2>1
  <1>2. PICK f \in [1..(n + 1) -> Path] :
          /\ f[1] = <<p[1]>>
          /\ \A i \in 2..(n + 1) : f[i] = NameStep(f[i - 1], p[i])
          /\ r = f[n + 1]
    BY <1>1 DEF Folds
  <1>3. PICK g \in [1..(n + 1) -> Path] :
          /\ g[1] = <<p[1]>>
          /\ \A i \in 2..(n + 1) : g[i] = NameStep(g[i - 1], p[i])
          /\ s = g[n + 1]
    BY <1>1 DEF Folds
  <1> DEFINE T == {k \in 0..n : f[k + 1] = g[k + 1]}
  <1>4. 0 \in T
    BY <1>2, <1>3
  <1>5. ASSUME NEW k \in 0..(n - 1), k \in T PROVE k + 1 \in T
    <2>1. (k + 1) + 1 \in 2..(n + 1) /\ ((k + 1) + 1) - 1 = k + 1 /\ k + 1 \in 0..n
      BY <1>1
    <2>2. f[k + 1] = g[k + 1]
      BY <1>5
    <2>3. /\ f[(k + 1) + 1] = NameStep(f[k + 1], p[(k + 1) + 1])
          /\ g[(k + 1) + 1] = NameStep(g[k + 1], p[(k + 1) + 1])
      BY <1>2, <1>3, <2>1
    <2> QED
      BY <2>1, <2>2, <2>3
  <1> HIDE DEF T
  <1>6. 0..n \subseteq T /\ n \in 0..n
    BY <1>4, <1>5, EachStep
  <1>7. f[n + 1] = g[n + 1]
    BY <1>6 DEF T
  <1>8. r = f[n + 1]
    BY <1>2
  <1>9. s = g[n + 1]
    BY <1>3
  <1> QED
    BY <1>7, <1>8, <1>9

\* Behind the first element there are only names.
OfNames(p) == \A i \in 2..Len(p) : IsName(p[i])

LEMMA FoldsNames == ASSUME NEW p \in Path, OfNames(p) PROVE Folds(p, p)
  <1>1. PICK n \in Nat \ {0} : n = Len(p)
    BY PathIs
  <1>2. p \in Seq(Element) /\ \A i \in 1..n : p[i] \in Element
    BY <1>1, PathIs
  <1> DEFINE f == [i \in 1..n |-> SubSeq(p, 1, i)]
  <1>3. f \in [1..n -> Path]
    BY <1>1, Start
  <1>4. f[n] = p /\ n \in 1..n
    BY <1>1, <1>2, SubSeqFull
  <1>5. f[1] = <<p[1]>>
    <2>1. SubSeq(p, 1, 1) \in Path /\ Len(SubSeq(p, 1, 1)) = 1 /\ SubSeq(p, 1, 1)[1] = p[1]
      <3>1. 1 \in 1..Len(p) /\ 1 \in 1..1
        BY <1>1
      <3> QED
        BY <3>1, Start
    <2>2. <<p[1]>> \in Path /\ Len(<<p[1]>>) = 1 /\ <<p[1]>>[1] = p[1]
      BY <1>1, <1>2, OneElement
    <2>3. SubSeq(p, 1, 1) = <<p[1]>>
      <3>1. PICK a, b : a = SubSeq(p, 1, 1) /\ b = <<p[1]>>
        OBVIOUS
      <3>2. a \in Path /\ b \in Path /\ Len(a) = 1 /\ Len(b) = 1 /\ a[1] = b[1]
        BY <2>1, <2>2, <3>1
      <3>3. \A i \in 1..Len(a) : a[i] = b[i]
        BY <3>2
      <3> QED
        BY <3>1, <3>2, <3>3, SamePath
    <2> QED
      BY <2>3
  <1>6. ASSUME NEW i \in 2..n PROVE f[i] = NameStep(f[i - 1], p[i])
    <2>1. IsName(p[i])
      BY <1>1 DEF OfNames
    <2>2. NameStep(f[i - 1], p[i]) = Append(f[i - 1], p[i])
      BY <2>1 DEF NameStep, IsName
    <2>3. i - 1 \in 0..(n - 1) /\ (i - 1) + 1 = i
      OBVIOUS
    <2>4. Append(SubSeq(p, 1, i - 1), p[i]) = SubSeq(p, 1, i)
      BY <1>1, <1>2, <2>3, StartGrows
    <2>5. f[i] = SubSeq(p, 1, i) /\ f[i - 1] = SubSeq(p, 1, i - 1)
      OBVIOUS
    <2> HIDE DEF f
    <2> QED
      BY <2>2, <2>4, <2>5
  <1> HIDE DEF f
  <1> QED
    BY <1>1, <1>3, <1>4, <1>5, <1>6 DEF Folds

\* normalize_path folds all but the last element.
LEMMA NormalFolds ==
  ASSUME NEW q \in Path, Len(q) > 1
  PROVE  \E r \in Path : Folds(Front(q), r) /\ normalize_path(q) = Append(r, Last(q))
  <1>1. PICK n \in Nat \ {0} : n + 1 = Len(q)
    <2>1. Len(q) \in Nat /\ Len(q) - 1 \in Nat \ {0} /\ (Len(q) - 1) + 1 = Len(q)
      BY PathIs
    <2> QED
      BY <2>1
  <1>2. PICK acc \in [1..(n + 1) -> Path] :
          /\ acc[1] = <<q[1]>>
          /\ \A i \in 2..(n + 1) :
               acc[i] = IF i = n + 1 THEN Append(acc[i - 1], q[i]) ELSE NameStep(acc[i - 1], q[i])
          /\ normalize_path(q) = acc[n + 1]
    BY <1>1, NormalAre
  <1>3. PICK p : p = Front(q)
    OBVIOUS
  <1>4. p \in Path /\ Len(p) = n /\ \A i \in 1..n : p[i] = q[i]
    BY <1>1, <1>3, FrontOf
  <1> DEFINE g == [i \in 1..n |-> acc[i]]
  <1>5. g \in [1..n -> Path] /\ g[1] = <<p[1]>> /\ g[n] = acc[n]
    BY <1>2, <1>4
  <1>6. ASSUME NEW i \in 2..n PROVE g[i] = NameStep(g[i - 1], p[i])
    <2>1. g[i] = acc[i] /\ g[i - 1] = acc[i - 1] /\ p[i] = q[i] /\ i \in 2..(n + 1) /\ i # n + 1
      BY <1>4
    <2> HIDE DEF g
    <2> QED
      BY <1>2, <2>1
  <1> HIDE DEF g
  <1>7a. acc[n] \in Path
    OBVIOUS
  <1>7. Folds(p, acc[n])
    BY <1>4, <1>5, <1>6 DEF Folds
  <1>8. n + 1 \in 2..(n + 1) /\ (n + 1) - 1 = n
    OBVIOUS
  <1>9. acc[n + 1] = Append(acc[n], q[n + 1])
    BY <1>2, <1>8
  <1>10. normalize_path(q) = Append(acc[n], Last(q))
    BY <1>1, <1>2, <1>9 DEF Last
  <1> QED
    BY <1>3, <1>7, <1>7a, <1>10

LEMMA NormalIs ==
  ASSUME NEW q \in Path, Len(q) > 1, NEW r \in Path, Folds(Front(q), r)
  PROVE  normalize_path(q) = Append(r, Last(q))
  BY NormalFolds, FoldsSame, FrontOf

LEMMA InOrderIs ==
  ASSUME NEW toks, NEW D, NEW E, NEW n \in Nat, NEW p, Kept(D, E, n, p)
  PROVE  InOrder(toks, Staying(D, E, n)) = Picked(toks, p)
  <1>1. Staying(D, E, n) = At(p) /\ p \in Places(n)
    BY DEF Kept
  <1>2. Cardinality(At(p)) = Len(p) /\ \A x \in 1..Len(p) : Nth(At(p), x) = p[x]
    BY <1>1, PlacesCounted, NthIs
  <1> QED
    BY <1>1, <1>2 DEF InOrder, Picked

\* The first element of a path, and those at some places.
Shape(path, p) == <<path[1]>> \o Picked(path, p)

LEMMA ShapeIs ==
  ASSUME NEW path \in Path, NEW k \in 1..Len(path), NEW p \in Places(k)
  PROVE  /\ Shape(path, p) \in Path /\ Len(Shape(path, p)) = Len(p) + 1
         /\ Shape(path, p)[1] = path[1]
         /\ \A x \in 1..Len(p) : Shape(path, p)[x + 1] = path[p[x]]
  <1>1. /\ p \in Seq(1..k) /\ Len(p) \in Nat /\ (\A x \in 1..Len(p) : p[x] \in 1..k) /\ k \in Nat
        /\ Len(path) \in Nat
    BY PlacesGrow, PathIs
  <1>2. \A i \in 1..Len(path) : path[i] \in Element
    BY PathIs
  <1>3. \A x \in 1..Len(p) : path[p[x]] \in Element
    <2>1. SUFFICES ASSUME NEW x \in 1..Len(p) PROVE path[p[x]] \in Element
      OBVIOUS
    <2>2. p[x] \in 1..Len(path)
      BY <1>1
    <2> QED
      BY <1>2, <2>2
  <1>4. PICK S, o, f : S = Element /\ o = Picked(path, p) /\ f = <<path[1]>>
    OBVIOUS
  <1>5. o \in Seq(S) /\ Len(o) = Len(p) /\ \A x \in 1..Len(p) : o[x] = path[p[x]]
    BY <1>1, <1>3, <1>4 DEF Picked
  <1>6. f \in Seq(S) /\ Len(f) = 1 /\ f[1] = path[1]
    <2>1. path[1] \in Element
      BY <1>1, <1>2
    <2> QED
      BY <1>4, <2>1, OneElement DEF Path
  <1>7. PICK t : t = f \o o
    OBVIOUS
  <1>8. /\ t \in Seq(S) /\ Len(t) = 1 + Len(o)
        /\ \A i \in 1..(1 + Len(o)) : t[i] = IF i <= 1 THEN f[i] ELSE o[i - 1]
    <2>1. /\ t \in Seq(S) /\ Len(t) = Len(f) + Len(o)
          /\ \A i \in 1..(Len(f) + Len(o)) : t[i] = IF i <= Len(f) THEN f[i] ELSE o[i - Len(f)]
      <3>1. /\ f \o o \in Seq(S) /\ Len(f \o o) = Len(f) + Len(o)
            /\ \A i \in 1..(Len(f) + Len(o)) : (f \o o)[i] = IF i <= Len(f) THEN f[i] ELSE o[i - Len(f)]
        BY <1>5, <1>6, ConcatProperties
      <3> QED
        BY <1>7, <3>1
    <2> QED
      BY <1>6, <2>1
  <1>9. t # <<>> /\ Len(t) = Len(p) + 1
    BY <1>1, <1>5, <1>8
  <1>10. t[1] = path[1]
    BY <1>1, <1>5, <1>6, <1>8
  <1>11. ASSUME NEW x \in 1..Len(p) PROVE t[x + 1] = path[p[x]]
    <2>1. x + 1 \in 1..(1 + Len(o)) /\ ~(x + 1 <= 1) /\ (x + 1) - 1 = x
      BY <1>1, <1>5
    <2>2. t[x + 1] = o[x]
      BY <1>8, <2>1
    <2> QED
      BY <1>5, <2>2
  <1> QED
    BY <1>4, <1>7, <1>8, <1>9, <1>10, <1>11 DEF Shape, Path

\* One more element does to them what NameStep does.
LEMMA ShapeStep ==
  ASSUME NEW path \in Path, NEW k \in 1..(Len(path) - 1), NEW p \in Places(k)
  PROVE  Shape(path, PlaceStep(NamesIn(path), UpsIn(path), k + 1, p)) = NameStep(Shape(path, p), path[k + 1])
  <1>1. /\ Len(path) \in Nat /\ k \in 1..Len(path) /\ k + 1 \in 2..Len(path) /\ k + 1 \in 1..Len(path)
        /\ k \in Nat /\ k + 1 \in Nat
    BY PathIs
  <1>2. PICK e : e = path[k + 1]
    OBVIOUS
  <1>3. e \in Element /\ (k + 1 \in NamesIn(path) <=> IsName(e)) /\ (k + 1 \in UpsIn(path) <=> IsUp(e))
    BY <1>1, <1>2, PathIs DEF NamesIn, UpsIn, IsUp
  <1>4. p \in Seq(1..k) /\ Len(p) \in Nat /\ \A x \in 1..Len(p) : p[x] \in 1..k
    BY <1>1, PlacesGrow
  <1>5. PICK o : o = Shape(path, p)
    OBVIOUS
  <1>6. o \in Path /\ Len(o) = Len(p) + 1 /\ o[1] = path[1] /\ \A x \in 1..Len(p) : o[x + 1] = path[p[x]]
    BY <1>1, <1>5, ShapeIs
  <1>7. CASE IsName(e)
    <2>1. NameStep(o, e) = Append(o, e)
      BY <1>7 DEF NameStep, IsName, IsUp, IsBlank, IsDot
    <2>2. PICK q : q = Append(p, k + 1)
      OBVIOUS
    <2>3. PlaceStep(NamesIn(path), UpsIn(path), k + 1, p) = q
      BY <1>3, <1>7, <2>2 DEF PlaceStep, IsName, IsUp, IsBlank, IsDot
    <2>4. Len(q) = Len(p) + 1 /\ q[Len(p) + 1] = k + 1 /\ \A x \in 1..Len(p) : q[x] = p[x]
      <3>1. p \in Seq(Nat) /\ k + 1 \in Nat
        BY <1>1, <1>4
      <3> QED
        BY <2>2, <3>1, AppendProperties
    <2>5. q \in Places(k + 1)
      BY <1>1, <2>2, NameBehind
    <2>6. PICK s : s = Shape(path, q)
      OBVIOUS
    <2>7. s \in Path /\ Len(s) = Len(q) + 1 /\ s[1] = path[1] /\ \A x \in 1..Len(q) : s[x + 1] = path[q[x]]
      BY <1>1, <2>5, <2>6, ShapeIs
    <2>8. PICK a : a = Append(o, e)
      OBVIOUS
    <2>9. a \in Path /\ Len(a) = Len(o) + 1 /\ a[Len(o) + 1] = e /\ \A i \in 1..Len(o) : a[i] = o[i]
      <3>1. a \in Path /\ Len(a) = Len(o) + 1 /\ Last(a) = e /\ \A i \in 1..Len(o) : a[i] = o[i]
        BY <1>3, <1>6, <2>8, OneDeeper
      <3> QED
        BY <3>1 DEF Last
    <2>10. ASSUME NEW i \in 1..Len(s) PROVE s[i] = a[i]
      <3>1. CASE i = 1
        <4>1. 1 \in 1..Len(o)
          BY <1>4, <1>6
        <4> QED
          BY <1>6, <2>7, <2>9, <3>1, <4>1
      <3>2. CASE i = Len(p) + 2
        <4>1. PICK x : x = Len(p) + 1
          OBVIOUS
        <4>2. x \in 1..Len(q) /\ i = x + 1 /\ q[x] = k + 1 /\ x = Len(o)
          BY <1>4, <1>6, <2>4, <3>2, <4>1
        <4>3. s[i] = path[k + 1]
          BY <2>7, <4>2
        <4> QED
          BY <1>2, <2>9, <4>2, <4>3
      <3>3. CASE i # 1 /\ i # Len(p) + 2
        <4>1. PICK x \in 1..Len(p) : i = x + 1
          <5>1. i - 1 \in 1..Len(p) /\ i = (i - 1) + 1
            BY <1>4, <2>4, <2>7, <3>3
          <5> QED
            BY <5>1
        <4>2. x \in 1..Len(q) /\ i \in 1..Len(o)
          BY <1>4, <1>6, <2>4, <4>1
        <4>3. s[i] = path[q[x]]
          BY <2>7, <4>1, <4>2
        <4>4. a[i] = o[i]
          BY <2>9, <4>2
        <4>5. o[i] = path[p[x]]
          BY <1>6, <4>1
        <4>6. q[x] = p[x]
          BY <2>4
        <4> QED
          BY <4>3, <4>4, <4>5, <4>6
      <3> QED
        BY <3>1, <3>2, <3>3
    <2>11. Len(s) = Len(a)
      BY <1>4, <1>6, <2>4, <2>7, <2>9
    <2>12. s = a
      BY <2>7, <2>9, <2>10, <2>11, SamePath
    <2> QED
      BY <1>2, <1>5, <2>1, <2>3, <2>6, <2>8, <2>12
  <1>8. CASE IsUp(e)
    <2>1. PlaceStep(NamesIn(path), UpsIn(path), k + 1, p) = IF p = <<>> THEN p ELSE Front(p)
      BY <1>3, <1>8 DEF PlaceStep, IsName, IsUp, IsBlank, IsDot
    <2>2. NameStep(o, e) = IF Len(o) > 1 THEN Front(o) ELSE o
      BY <1>8 DEF NameStep, IsName, IsUp, IsBlank, IsDot
    <2>3. CASE p = <<>>
      <3>1. ~(Len(o) > 1)
        BY <1>6, <2>3, EmptySeq
      <3> QED
        BY <1>2, <1>5, <2>1, <2>2, <2>3, <3>1
    <2>4. CASE p # <<>>
      <3>1. Len(p) > 0
        BY <1>4, <2>4, EmptySeq
      <3>2. PICK q : q = Front(p)
        OBVIOUS
      <3>2a. Len(q) = Len(p) - 1 /\ q \in Places(k) /\ \A x \in 1..(Len(p) - 1) : q[x] = p[x]
        BY <1>1, <2>4, <3>2, FrontOfPlaces
      <3>3. /\ Len(q) = Len(p) - 1 /\ q \in Places(k)
            /\ \A x \in 1..Len(q) : q[x] = p[x] /\ x \in 1..Len(p)
        BY <1>4, <3>2a
      <3>4. PICK s : s = Shape(path, q)
        OBVIOUS
      <3>5. s \in Path /\ Len(s) = Len(q) + 1 /\ s[1] = path[1] /\ \A x \in 1..Len(q) : s[x + 1] = path[q[x]]
        BY <1>1, <3>3, <3>4, ShapeIs
      <3>6. PICK f : f = Front(o)
        OBVIOUS
      <3>7. Len(o) > 1
        BY <1>4, <1>6, <3>1
      <3>8. f \in Path /\ Len(f) = Len(o) - 1 /\ \A i \in 1..(Len(o) - 1) : f[i] = o[i]
        BY <1>6, <3>6, <3>7, FrontOf
      <3>9. Len(s) = Len(f)
        BY <1>4, <1>6, <3>3, <3>5, <3>8
      <3>10. ASSUME NEW i \in 1..Len(s) PROVE s[i] = f[i]
        <4>1. i \in 1..(Len(o) - 1)
          BY <1>4, <1>6, <3>3, <3>5
        <4>2. f[i] = o[i]
          BY <3>8, <4>1
        <4>3. CASE i = 1
          BY <1>6, <3>5, <4>2, <4>3
        <4>4. CASE i # 1
          <5>1. PICK x \in 1..Len(q) : i = x + 1
            <6>1. i - 1 \in 1..Len(q) /\ i = (i - 1) + 1
              BY <1>4, <3>3, <3>5, <4>4
            <6> QED
              BY <6>1
          <5>2. s[i] = path[q[x]]
            BY <3>5, <5>1
          <5>3. o[i] = path[p[x]] /\ q[x] = p[x]
            BY <1>6, <3>3, <5>1
          <5> QED
            BY <4>2, <5>2, <5>3
        <4> QED
          BY <4>3, <4>4
      <3>11. s = f
        BY <3>5, <3>8, <3>9, <3>10, SamePath
      <3> QED
        BY <1>2, <1>5, <2>1, <2>2, <2>4, <3>2, <3>4, <3>6, <3>7, <3>11
    <2> QED
      BY <2>3, <2>4
  <1>9. CASE IsBlank(e) \/ IsDot(e)
    <2>1. PlaceStep(NamesIn(path), UpsIn(path), k + 1, p) = p
      BY <1>3, <1>9 DEF PlaceStep, IsName, IsUp, IsBlank, IsDot
    <2>2. NameStep(o, e) = o
      BY <1>9 DEF NameStep, IsName, IsUp, IsBlank, IsDot
    <2> QED
      BY <1>2, <1>5, <2>1, <2>2
  <1> QED
    BY <1>7, <1>8, <1>9 DEF IsName, IsUp, IsBlank, IsDot

\* The modes of the first loop.
Going(a) == a.mode = "go"
Bad(a) == a.mode = "bad"

LEMMA DotStepIs ==
  ASSUME NEW a \in DotState, NEW e \in Element, NEW b, b = DotStep(a, e)
  PROVE  /\ ~(Going(a) /\ Bad(a))
         /\ ~Going(a) => ~Going(b) /\ (Bad(b) <=> Bad(a)) /\ b.kept = Append(a.kept, e)
         /\ Going(a) /\ IsDot(e) => ~Going(b) /\ ~Bad(b) /\ b.kept = a.kept
         /\ Going(a) /\ ~IsDot(e) /\ ~IsUp(e) => Going(b) /\ ~Bad(b) /\ b.kept = Append(a.kept, e)
         /\ Going(a) /\ IsUp(e) /\ Len(a.kept) = 1 => Bad(b) /\ ~Going(b)
         /\ Going(a) /\ IsUp(e) /\ Len(a.kept) # 1 => Going(b) /\ ~Bad(b) /\ b.kept = Front(a.kept)
  BY DEF DotStep, DotState, Going, Bad, IsDot, IsUp

LEMMA NamesAdded ==
  ASSUME NEW p \in Path, OfNames(p), NEW e \in Element, IsName(e)
  PROVE  OfNames(Append(p, e))
  <1>1. PICK a, n : a = Append(p, e) /\ n = Len(p)
    OBVIOUS
  <1>2. Len(a) = n + 1 /\ n \in Nat /\ a[n + 1] = e /\ \A i \in 1..n : a[i] = p[i]
    <2>1. Len(a) = n + 1 /\ Last(a) = e /\ \A i \in 1..n : a[i] = p[i]
      BY <1>1, OneDeeper
    <2> QED
      BY <1>1, <2>1, PathIs DEF Last
  <1>3. ASSUME NEW i \in 2..(n + 1) PROVE IsName(a[i])
    <2>1. CASE i = n + 1
      BY <1>2, <2>1
    <2>2. CASE i # n + 1
      <3>1. i \in 2..n /\ i \in 1..n
        BY <1>2, <2>2
      <3>2. IsName(p[i])
        BY <1>1, <3>1 DEF OfNames
      <3> QED
        BY <1>2, <3>1, <3>2
    <2> QED
      BY <2>1, <2>2
  <1> QED
    BY <1>1, <1>2, <1>3 DEF OfNames

LEMMA NamesTaken ==
  ASSUME NEW p \in Path, OfNames(p), Len(p) > 1
  PROVE  OfNames(Front(p))
  <1>1. PICK a, n : a = Front(p) /\ n = Len(p)
    OBVIOUS
  <1>2. Len(a) = n - 1 /\ n \in Nat /\ \A i \in 1..(n - 1) : a[i] = p[i]
    BY <1>1, FrontOf, PathIs
  <1>3. ASSUME NEW i \in 2..(n - 1) PROVE IsName(a[i])
    <2>1. i \in 2..n /\ i \in 1..(n - 1)
      BY <1>2
    <2>2. IsName(p[i])
      BY <1>1, <2>1 DEF OfNames
    <2> QED
      BY <1>2, <2>1, <2>2
  <1> QED
    BY <1>1, <1>2, <1>3 DEF OfNames

\* What the first loop has made of n elements: the rest of the work on what it keeps
\* gives what the n elements stand for.
Resolving(path, n, a) ==
  \E p :
    /\ Kept(NamesIn(path), UpsIn(path), n, p)
    /\ Bad(a) => Climbs(path)
    /\ ~Bad(a) => Folds(a.kept, Shape(path, p))
    /\ Going(a) /\ n < Len(path) =>
         /\ a.kept = Shape(path, p) /\ OfNames(a.kept)
         /\ Len(p) + CountIn(UpsIn(path), 1, n) = CountIn(NamesIn(path), 1, n)

LEMMA ResolvingFirst ==
  ASSUME NEW path \in Path, NEW a \in DotState, a.kept = <<path[1]>>, Going(a)
  PROVE  Resolving(path, 1, a)
  <1>1. PICK N, U : N = NamesIn(path) /\ U = UpsIn(path)
    OBVIOUS
  <1>2. 1 \notin N /\ 1 \notin U
    BY <1>1 DEF NamesIn, UpsIn, IsUp
  <1>3. Kept(N, U, 1, <<>>)
    <2>1. Kept(N, U, 0, <<>>) /\ 0 \in Nat /\ 0 + 1 = 1
      BY KeptFirst
    <2>2. PICK p, k : p = <<>> /\ k = 0
      OBVIOUS
    <2>3. Kept(N, U, k, p) /\ k \in Nat /\ k + 1 = 1 /\ k + 1 \notin N \cap U
      BY <1>2, <2>1, <2>2
    <2>4. Kept(N, U, k + 1, PlaceStep(N, U, k + 1, p))
      BY <2>3, KeptStep
    <2>5. PlaceStep(N, U, k + 1, p) = p
      BY <1>2, <2>3 DEF PlaceStep
    <2> QED
      BY <2>2, <2>3, <2>4, <2>5
  <1>4. path[1] \in Element /\ Len(path) \in Nat /\ 1 \in 1..Len(path)
    <2>1. 1 \in 1..Len(path)
      BY PathIs
    <2> QED
      BY <2>1, PathIs
  <1>5. PICK f : f = <<path[1]>>
    OBVIOUS
  <1>6. f \in Path /\ Len(f) = 1 /\ f[1] = path[1] /\ Folds(f, f)
    BY <1>4, <1>5, OneElement, FoldsOne
  <1>7. Shape(path, <<>>) = f
    <2>1. PICK s, p, k : s = Shape(path, <<>>) /\ p = <<>> /\ k = 1
      OBVIOUS
    <2>2. p \in Places(k) /\ Len(p) = 0
      BY <1>3, <2>1, EmptySeq DEF Kept
    <2>2a. k \in 1..Len(path)
      BY <1>4, <2>1
    <2>2b. s = Shape(path, p)
      BY <2>1
    <2>2c. s \in Path /\ Len(s) = Len(p) + 1 /\ s[1] = path[1]
      BY <2>2, <2>2a, <2>2b, ShapeIs
    <2>3. s \in Path /\ Len(s) = 1 /\ s[1] = path[1]
      BY <2>2, <2>2c
    <2>4. \A i \in 1..Len(s) : s[i] = f[i]
      BY <1>6, <2>3
    <2> QED
      BY <1>6, <2>1, <2>3, <2>4, SamePath
  <1>8. OfNames(f)
    BY <1>6 DEF OfNames
  <1>9. CountIn(U, 1, 1) = 0 /\ CountIn(N, 1, 1) = 0
    <2>1. ASSUME NEW S, 1 \notin S PROVE CountIn(S, 1, 1) = 0
      <3>1. {k \in 1..1 : k \in S} = {}
        BY <2>1
      <3> QED
        BY <3>1, FS_EmptySet DEF CountIn
    <2> QED
      BY <1>2, <2>1
  <1>10. ~Bad(a) /\ a.kept = f
    BY <1>5 DEF Going, Bad
  <1>11. Len(<<>>) + 0 = 0
    BY EmptySeq
  <1> QED
    BY <1>1, <1>3, <1>6, <1>7, <1>8, <1>9, <1>10, <1>11 DEF Resolving

LEMMA ResolvingStep ==
  ASSUME NEW path \in Path, NEW n \in 1..(Len(path) - 1), NEW a \in DotState, Resolving(path, n, a),
         n + 1 < Len(path) => ~IsBlank(path[n + 1])
  PROVE  Resolving(path, n + 1, DotStep(a, path[n + 1]))
  <1>1. /\ Len(path) \in Nat /\ n \in Nat /\ n \in 1..Len(path) /\ n + 1 \in 2..Len(path)
        /\ n + 1 \in 1..Len(path) /\ n < Len(path)
    BY PathIs
  <1>2. PICK e, N, U : e = path[n + 1] /\ N = NamesIn(path) /\ U = UpsIn(path)
    OBVIOUS
  <1>3. e \in Element /\ (n + 1 \in N <=> IsName(e)) /\ (n + 1 \in U <=> IsUp(e))
    BY <1>1, <1>2, PathIs DEF NamesIn, UpsIn, IsUp
  <1>3a. /\ IsName(e) <=> ~IsBlank(e) /\ ~IsDot(e) /\ ~IsUp(e)
         /\ ~(IsBlank(e) /\ IsDot(e)) /\ ~(IsBlank(e) /\ IsUp(e)) /\ ~(IsDot(e) /\ IsUp(e))
    BY DEF IsName, IsBlank, IsDot, IsUp
  <1>4. n + 1 < Len(path) => ~IsBlank(e)
    BY <1>2
  <1>5. PICK p :
          /\ Kept(N, U, n, p)
          /\ Bad(a) => Climbs(path)
          /\ ~Bad(a) => Folds(a.kept, Shape(path, p))
          /\ Going(a) => /\ a.kept = Shape(path, p) /\ OfNames(a.kept)
                              /\ Len(p) + CountIn(U, 1, n) = CountIn(N, 1, n)
    BY <1>1, <1>2 DEF Resolving
  <1>6. PICK q : q = PlaceStep(N, U, n + 1, p)
    OBVIOUS
  <1>7. Kept(N, U, n + 1, q)
    <2>1. n + 1 \notin N \cap U
      BY <1>3, <1>3a
    <2> QED
      BY <1>1, <1>5, <1>6, <2>1, KeptStep
  <1>8. p \in Places(n) /\ Len(p) \in Nat /\ p \in Seq(1..n)
    BY <1>1, <1>5, PlacesGrow DEF Kept
  <1>9. PICK r, s : r = Shape(path, p) /\ s = Shape(path, q)
    OBVIOUS
  <1>10. r \in Path /\ Len(r) = Len(p) + 1 /\ s = NameStep(r, e)
    BY <1>1, <1>2, <1>6, <1>8, <1>9, ShapeIs, ShapeStep
  <1>11. s \in Path
    BY <1>3, <1>10, NameStepTyped
  <1>12. a.kept \in Path
    BY DEF DotState
  <1>13. PICK b : b = DotStep(a, e)
    OBVIOUS
  <1>14. PICK x : x = a.kept
    OBVIOUS
  <1>15. /\ CountIn(U, 1, n) \in Nat /\ CountIn(N, 1, n) \in Nat
         /\ CountIn(U, 1, n + 1) = IF IsUp(e) THEN CountIn(U, 1, n) + 1 ELSE CountIn(U, 1, n)
         /\ CountIn(N, 1, n + 1) = IF IsName(e) THEN CountIn(N, 1, n) + 1 ELSE CountIn(N, 1, n)
    <2>1. ASSUME NEW S
          PROVE  /\ CountIn(S, 1, n) \in Nat
                 /\ n + 1 \in S => CountIn(S, 1, n + 1) = CountIn(S, 1, n) + 1
                 /\ n + 1 \notin S => CountIn(S, 1, n + 1) = CountIn(S, 1, n)
      <3>1. 1 \in Nat /\ n \in Nat /\ 1 <= n + 1
        BY <1>1
      <3> QED
        BY <3>1, CountMore
    <2> QED
      BY <1>3, <1>3a, <2>1
  <1>16. SUFFICES /\ Bad(b) => Climbs(path)
                  /\ ~Bad(b) => Folds(b.kept, s)
                  /\ Going(b) /\ n + 1 < Len(path) =>
                       /\ b.kept = s /\ OfNames(b.kept)
                       /\ Len(q) + CountIn(U, 1, n + 1) = CountIn(N, 1, n + 1)
    BY <1>2, <1>7, <1>9, <1>13 DEF Resolving
  <1>17. CASE Bad(a)
    <2>1. Bad(b) /\ ~Going(b) /\ Climbs(path)
      BY <1>3, <1>5, <1>13, <1>17, DotStepIs
    <2> QED
      BY <2>1
  <1>18. CASE ~Going(a) /\ ~Bad(a)
    <2>1. ~Going(b) /\ ~Bad(b) /\ b.kept = Append(x, e)
      BY <1>3, <1>13, <1>14, <1>18, DotStepIs
    <2>2. Folds(x, r) /\ x \in Path
      BY <1>5, <1>9, <1>12, <1>14, <1>18
    <2>3. Folds(Append(x, e), s)
      BY <1>3, <1>10, <2>2, FoldsMore
    <2> QED
      BY <2>1, <2>3
  <1>19. CASE Going(a)
    <2>0. ~Bad(a)
      BY <1>19 DEF Going, Bad
    <2>1. /\ x = r /\ x \in Path /\ OfNames(x) /\ Folds(x, r)
          /\ Len(p) + CountIn(U, 1, n) = CountIn(N, 1, n)
      BY <1>5, <1>9, <1>12, <1>14, <1>19, <2>0
    <2>2. CASE IsDot(e)
      <3>1. ~Going(b) /\ ~Bad(b) /\ b.kept = x
        BY <1>3, <1>13, <1>14, <1>19, <2>2, DotStepIs
      <3>2. s = r
        BY <1>10, <2>2 DEF NameStep, IsName, IsUp, IsDot, IsBlank
      <3> QED
        BY <2>1, <3>1, <3>2
    <2>3. CASE IsUp(e) /\ Len(x) = 1
      <3>1. Bad(b) /\ ~Going(b)
        BY <1>3, <1>13, <1>14, <1>19, <2>3, DotStepIs
      <3>2. Len(p) = 0
        <4>1. Len(r) = 1
          BY <2>1, <2>3
        <4>2. PICK m : m = Len(p)
          OBVIOUS
        <4>3. m \in Nat /\ m + 1 = 1
          BY <1>8, <1>10, <4>1, <4>2
        <4>4. m = 0
          BY <4>3
        <4> QED
          BY <4>2, <4>4
      <3>3. CountIn(U, 1, n + 1) = CountIn(N, 1, n) + 1 /\ CountIn(N, 1, n + 1) = CountIn(N, 1, n)
        BY <1>3a, <1>15, <2>1, <2>3, <3>2
      <3>4. CountIn(U, 1, n + 1) > CountIn(N, 1, n + 1)
        BY <1>15, <3>3
      <3>5. Climbs(path)
        BY <1>1, <1>2, <3>4 DEF Climbs
      <3> QED
        BY <3>1, <3>5
    <2>4. CASE IsUp(e) /\ Len(x) # 1
      <3>1. Going(b) /\ ~Bad(b) /\ b.kept = Front(x)
        BY <1>3, <1>13, <1>14, <1>19, <2>4, DotStepIs
      <3>2. Len(x) > 1 /\ Len(p) > 0
        BY <1>8, <1>10, <2>1, <2>4
      <3>3. s = Front(x)
        BY <1>10, <2>1, <2>4, <3>2 DEF NameStep, IsName, IsUp, IsDot, IsBlank
      <3>4. OfNames(s) /\ Folds(s, s)
        BY <1>11, <2>1, <3>2, <3>3, NamesTaken, FoldsNames
      <3>5. q = Front(p)
        <4>1. n + 1 \notin N /\ n + 1 \in U /\ p # <<>>
          BY <1>3, <1>3a, <2>4, <3>2, EmptySeq
        <4> QED
          BY <1>6, <4>1 DEF PlaceStep
      <3>6. Len(q) = Len(p) - 1
        <4>1. p # <<>>
          BY <3>2, EmptySeq
        <4> QED
          BY <1>1, <1>8, <3>5, <4>1, FrontOfPlaces
      <3>7. CountIn(U, 1, n + 1) = CountIn(U, 1, n) + 1 /\ CountIn(N, 1, n + 1) = CountIn(N, 1, n)
        BY <1>3a, <1>15, <2>4
      <3>8. Len(q) + CountIn(U, 1, n + 1) = CountIn(N, 1, n + 1)
        BY <1>8, <1>15, <2>1, <3>6, <3>7
      <3> QED
        BY <3>1, <3>3, <3>4, <3>8
    <2>5. CASE ~IsDot(e) /\ ~IsUp(e)
      <3>1. Going(b) /\ ~Bad(b) /\ b.kept = Append(x, e)
        BY <1>3, <1>13, <1>14, <1>19, <2>5, DotStepIs
      <3>2. Folds(Append(x, e), s)
        BY <1>3, <1>10, <2>1, FoldsMore
      <3>3. ASSUME n + 1 < Len(path)
            PROVE  /\ b.kept = s /\ OfNames(b.kept)
                   /\ Len(q) + CountIn(U, 1, n + 1) = CountIn(N, 1, n + 1)
        <4>1. IsName(e)
          BY <1>3a, <1>4, <2>5, <3>3
        <4>2. s = Append(x, e)
          BY <1>10, <2>1, <4>1 DEF NameStep, IsName, IsUp, IsDot, IsBlank
        <4>3. OfNames(s)
          BY <1>3, <2>1, <4>1, <4>2, NamesAdded
        <4>4. q = Append(p, n + 1)
          BY <1>3, <1>6, <4>1 DEF PlaceStep
        <4>5. Len(q) = Len(p) + 1
          <5>1. p \in Seq(Nat) /\ n + 1 \in Nat
            BY <1>1, <1>8
          <5> QED
            BY <4>4, <5>1, AppendProperties
        <4>6. CountIn(U, 1, n + 1) = CountIn(U, 1, n) /\ CountIn(N, 1, n + 1) = CountIn(N, 1, n) + 1
          BY <1>3a, <1>15, <4>1
        <4>7. Len(q) + CountIn(U, 1, n + 1) = CountIn(N, 1, n + 1)
          BY <1>8, <1>15, <2>1, <4>5, <4>6
        <4> QED
          BY <3>1, <4>2, <4>3, <4>7
      <3> QED
        BY <3>1, <3>2, <3>3
    <2> QED
      BY <2>2, <2>3, <2>4, <2>5
  <1> QED
    BY <1>17, <1>18, <1>19

LEMMA DotsResolve ==
  ASSUME NEW path \in Path, Single(path)
  PROVE  IF Bad(Dots(path)) THEN Climbs(path) ELSE Folds(Dots(path).kept, Resolved(path))
  <1>1. PICK m \in Nat : m + 1 = Len(path)
    <2>1. Len(path) \in Nat /\ Len(path) - 1 \in Nat /\ (Len(path) - 1) + 1 = Len(path)
      BY PathIs
    <2> QED
      BY <2>1
  <1>2. PICK acc \in [1..(m + 1) -> DotState] :
          /\ acc[1] = [kept |-> <<path[1]>>, mode |-> "go"]
          /\ \A n \in 2..(m + 1) : acc[n] = DotStep(acc[n - 1], path[n])
          /\ Dots(path) = acc[m + 1]
    BY <1>1, DotsAre
  <1>3. acc[1] \in DotState /\ acc[1].kept = <<path[1]>> /\ Going(acc[1])
    <2>1. acc[1] \in DotState
      BY <1>1, <1>2
    <2> QED
      BY <1>2, <2>1 DEF Going
  <1>4. \A k \in 1..m : acc[k] \in DotState /\ acc[k + 1] = DotStep(acc[k], path[k + 1])
    <2>1. SUFFICES ASSUME NEW k \in 1..m PROVE acc[k] \in DotState /\ acc[k + 1] = DotStep(acc[k], path[k + 1])
      OBVIOUS
    <2>2. k + 1 \in 2..(m + 1) /\ (k + 1) - 1 = k /\ k \in 1..(m + 1)
      BY <1>1
    <2> QED
      BY <1>2, <2>2
  <1>5. Dots(path) = acc[m + 1]
    BY <1>2
  <1> DEFINE T == {k \in 0..m : Resolving(path, k + 1, acc[k + 1])}
  <1>6. 0 \in T
    <2>1. Resolving(path, 1, acc[1])
      BY <1>3, ResolvingFirst
    <2> QED
      BY <1>1, <2>1
  <1>7. ASSUME NEW k \in 0..(m - 1), k \in T PROVE k + 1 \in T
    <2>1. PICK n : n = k + 1
      OBVIOUS
    <2>2. n \in 1..m /\ n \in 1..(Len(path) - 1) /\ n \in 0..m /\ (n + 1 < Len(path) => n + 1 \in 2..(Len(path) - 1))
      BY <1>1, <2>1
    <2>3. Resolving(path, n, acc[n])
      BY <1>7, <2>1
    <2>4. n + 1 < Len(path) => ~IsBlank(path[n + 1])
      BY <2>2 DEF Single, IsBlank
    <2>5. acc[n] \in DotState /\ acc[n + 1] = DotStep(acc[n], path[n + 1])
      BY <1>4, <2>2
    <2>6. Resolving(path, n + 1, acc[n + 1])
      BY <2>2, <2>3, <2>4, <2>5, ResolvingStep
    <2> QED
      BY <2>1, <2>2, <2>6
  <1> HIDE DEF T
  <1>8. 0..m \subseteq T /\ m \in 0..m
    BY <1>6, <1>7, EachStep
  <1>9. Resolving(path, m + 1, Dots(path))
    BY <1>5, <1>8 DEF T
  <1>10. PICK p : /\ Kept(NamesIn(path), UpsIn(path), m + 1, p)
                  /\ Bad(Dots(path)) => Climbs(path)
                  /\ ~Bad(Dots(path)) => Folds(Dots(path).kept, Shape(path, p))
    BY <1>9 DEF Resolving
  <1>11. Resolved(path) = Shape(path, p)
    <2>1. InOrder(path, Staying(NamesIn(path), UpsIn(path), m + 1)) = Picked(path, p)
      <3>1. m + 1 \in Nat
        OBVIOUS
      <3> QED
        BY <1>10, <3>1, InOrderIs
    <2> QED
      BY <1>1, <2>1 DEF Resolved, Shape
  <1> QED
    BY <1>10, <1>11

LEMMA KeptIs ==
  ASSUME NEW a \in DotState, NEW e \in Element, NEW b, b = DotStep(a, e)
  PROVE  \/ b.kept = a.kept
         \/ b.kept = Append(a.kept, e)
         \/ b.kept = Front(a.kept) /\ Len(a.kept) # 1
  BY DEF DotStep, DotState

\* The first loop keeps the first element.
LEMMA DotsFirst ==
  ASSUME NEW path \in Path
  PROVE  Dots(path).kept \in Path /\ Dots(path).kept[1] = path[1]
  <1>1. PICK m \in Nat : m + 1 = Len(path)
    <2>1. Len(path) \in Nat /\ Len(path) - 1 \in Nat /\ (Len(path) - 1) + 1 = Len(path)
      BY PathIs
    <2> QED
      BY <2>1
  <1>2. PICK acc \in [1..(m + 1) -> DotState] :
          /\ acc[1] = [kept |-> <<path[1]>>, mode |-> "go"]
          /\ \A n \in 2..(m + 1) : acc[n] = DotStep(acc[n - 1], path[n])
          /\ Dots(path) = acc[m + 1]
    BY <1>1, DotsAre
  <1>2a. \A k \in 1..(m + 1) : acc[k] \in DotState
    BY <1>2
  <1>3. acc[1].kept[1] = path[1]
    BY <1>2
  <1>4. \A k \in 1..m : acc[k + 1] = DotStep(acc[k], path[k + 1]) /\ path[k + 1] \in Element
    <2>1. SUFFICES ASSUME NEW k \in 1..m
                   PROVE  acc[k + 1] = DotStep(acc[k], path[k + 1]) /\ path[k + 1] \in Element
      OBVIOUS
    <2>2. k + 1 \in 2..(m + 1) /\ (k + 1) - 1 = k /\ k + 1 \in 1..Len(path)
      BY <1>1
    <2> QED
      BY <1>2, <2>2, PathIs
  <1>5. Dots(path) = acc[m + 1]
    BY <1>2
  <1> DEFINE T == {k \in 0..m : acc[k + 1].kept[1] = path[1]}
  <1>6. 0 \in T
    BY <1>1, <1>3
  <1>7. ASSUME NEW k \in 0..(m - 1), k \in T PROVE k + 1 \in T
    <2>1. PICK n : n = k + 1
      OBVIOUS
    <2>2. n \in 1..m /\ n \in 0..m /\ n \in 1..(m + 1)
      BY <1>1, <2>1
    <2>3. PICK a, b, e : a = acc[n] /\ b = acc[n + 1] /\ e = path[n + 1]
      OBVIOUS
    <2>4. a \in DotState /\ b = DotStep(a, e) /\ e \in Element /\ a.kept[1] = path[1]
      BY <1>2a, <1>4, <1>7, <2>1, <2>2, <2>3
    <2>5. PICK x : x = a.kept
      OBVIOUS
    <2>6. x \in Path /\ x[1] = path[1]
      BY <2>4, <2>5 DEF DotState
    <2>7. Append(x, e)[1] = x[1]
      <3>1. 1 \in 1..Len(x)
        BY <2>6, PathLength
      <3> QED
        BY <2>4, <2>6, <3>1, OneDeeper
    <2>8. Len(x) # 1 => Front(x)[1] = x[1]
      <3>1. ASSUME Len(x) # 1 PROVE Len(x) > 1 /\ 1 \in 1..(Len(x) - 1)
        BY <2>6, <3>1, PathLength
      <3> QED
        BY <2>6, <3>1, FrontOf
    <2>9. b.kept = x \/ b.kept = Append(x, e) \/ (b.kept = Front(x) /\ Len(x) # 1)
      BY <2>4, <2>5, KeptIs
    <2>10. b.kept[1] = path[1]
      BY <2>6, <2>7, <2>8, <2>9
    <2> QED
      BY <2>1, <2>2, <2>3, <2>10
  <1> HIDE DEF T
  <1>8. 0..m \subseteq T /\ m \in 0..m
    BY <1>6, <1>7, EachStep
  <1>9. acc[m + 1].kept[1] = path[1]
    BY <1>8 DEF T
  <1>10. acc[m + 1] \in DotState
    BY <1>1, <1>2a
  <1> QED
    BY <1>5, <1>9, <1>10 DEF DotState

-----------------------------------------------------------------------------
(* The current directory and both programs.                                 *)

\* The path of a directory, as the current directory is one.
DirShaped(p) ==
  /\ p \in Path /\ Len(p) > 1 /\ IsBlank(Last(p))
  /\ ~IsBlank(p[1]) /\ Single(p)

LEMMA SingleIs ==
  ASSUME NEW p, NEW i \in 2..(Len(p) - 1), Single(p)
  PROVE  ~IsBlank(p[i])
  BY DEF Single, IsBlank

LEMMA IsSingle ==
  ASSUME NEW p, \A i \in 2..(Len(p) - 1) : ~IsBlank(p[i])
  PROVE  Single(p)
  BY DEF Single, IsBlank

\* Behind the first element of what is folded there is no blank.
LEMMA FoldsFull ==
  ASSUME NEW p \in Path, NEW r \in Path, Folds(p, r)
  PROVE  r[1] = p[1] /\ \A i \in 2..Len(r) : ~IsBlank(r[i])
  <1>1. PICK n \in Nat : n + 1 = Len(p)
    <2>1. Len(p) \in Nat /\ Len(p) - 1 \in Nat /\ (Len(p) - 1) + 1 = Len(p)
      BY PathIs
    <2> QED
      BY <2>1
  <1>2. PICK f \in [1..(n + 1) -> Path] :
          /\ f[1] = <<p[1]>>
          /\ \A i \in 2..(n + 1) : f[i] = NameStep(f[i - 1], p[i])
          /\ r = f[n + 1]
    BY <1>1 DEF Folds
  <1>2a. r = f[n + 1] /\ \A i \in 1..(n + 1) : f[i] \in Path
    BY <1>2
  <1>3. \A k \in 1..n : f[k + 1] = NameStep(f[k], p[k + 1]) /\ p[k + 1] \in Element
    <2>1. SUFFICES ASSUME NEW k \in 1..n PROVE f[k + 1] = NameStep(f[k], p[k + 1]) /\ p[k + 1] \in Element
      OBVIOUS
    <2>2. k + 1 \in 2..(n + 1) /\ (k + 1) - 1 = k /\ k + 1 \in 1..Len(p)
      BY <1>1
    <2> QED
      BY <1>2, <2>2, PathIs
  <1> DEFINE Full(x) == x[1] = p[1] /\ \A i \in 2..Len(x) : ~IsBlank(x[i])
             T == {k \in 0..n : Full(f[k + 1])}
  <1>4. Full(f[1])
    <2>1. PICK x : x = f[1]
      OBVIOUS
    <2>2. p[1] \in Element
      <3>1. 1 \in 1..Len(p)
        BY <1>1
      <3> QED
        BY <3>1, PathIs
    <2>3. Len(x) = 1 /\ x[1] = p[1]
      BY <1>2, <2>1, <2>2, OneElement
    <2>4. \A i \in 2..Len(x) : FALSE
      BY <2>3
    <2> QED
      BY <2>1, <2>3, <2>4
  <1>5. ASSUME NEW x \in Path, NEW e \in Element, Full(x) PROVE Full(NameStep(x, e))
    <2>1. CASE IsName(e)
      <3>1. PICK a, m : a = Append(x, e) /\ m = Len(x)
        OBVIOUS
      <3>2. m \in Nat \ {0} /\ Len(a) = m + 1 /\ a[m + 1] = e /\ \A i \in 1..m : a[i] = x[i]
        <4>1. Len(a) = m + 1 /\ Last(a) = e /\ \A i \in 1..m : a[i] = x[i]
          BY <3>1, OneDeeper
        <4> QED
          BY <3>1, <4>1, PathIs DEF Last
      <3>3. NameStep(x, e) = a
        BY <2>1, <3>1 DEF NameStep, IsName
      <3>4. a[1] = p[1]
        BY <1>5, <3>2
      <3>5. ASSUME NEW i \in 2..(m + 1) PROVE ~IsBlank(a[i])
        <4>1. CASE i = m + 1
          BY <2>1, <3>2, <4>1 DEF IsName, IsBlank
        <4>2. CASE i # m + 1
          <5>1. i \in 2..m /\ i \in 1..m
            BY <3>2, <4>2
          <5> QED
            BY <1>5, <3>1, <3>2, <5>1
        <4> QED
          BY <4>1, <4>2
      <3> QED
        BY <3>2, <3>3, <3>4, <3>5
    <2>2. CASE IsUp(e) /\ Len(x) > 1
      <3>1. PICK a, m : a = Front(x) /\ m = Len(x)
        OBVIOUS
      <3>2. m \in Nat /\ m > 1 /\ Len(a) = m - 1 /\ \A i \in 1..(m - 1) : a[i] = x[i]
        BY <2>2, <3>1, FrontOf, PathIs
      <3>3. NameStep(x, e) = a
        BY <2>2, <3>1 DEF NameStep, IsUp
      <3>4. a[1] = p[1]
        BY <1>5, <3>2
      <3>5. ASSUME NEW i \in 2..(m - 1) PROVE ~IsBlank(a[i])
        <4>1. i \in 2..m /\ i \in 1..(m - 1)
          BY <3>2
        <4> QED
          BY <1>5, <3>1, <3>2, <4>1
      <3> QED
        BY <3>2, <3>3, <3>4, <3>5
    <2>3. CASE ~IsName(e) /\ ~(IsUp(e) /\ Len(x) > 1)
      <3>1. NameStep(x, e) = x
        BY <2>3 DEF NameStep, IsUp, IsName
      <3> QED
        BY <1>5, <3>1
    <2> QED
      BY <2>1, <2>2, <2>3
  <1> HIDE DEF Full
  <1>6. 0 \in T
    BY <1>1, <1>4
  <1>7. ASSUME NEW k \in 0..(n - 1), k \in T PROVE k + 1 \in T
    <2>1. PICK j : j = k + 1
      OBVIOUS
    <2>2. j \in 1..n /\ j \in 0..n /\ j \in 1..(n + 1)
      BY <1>1, <2>1
    <2>3. Full(f[j])
      BY <1>7, <2>1
    <2>4. Full(f[j + 1])
      BY <1>2a, <1>3, <1>5, <2>2, <2>3
    <2> QED
      BY <2>1, <2>2, <2>4
  <1> HIDE DEF T
  <1>8. 0..n \subseteq T /\ n \in 0..n
    BY <1>6, <1>7, EachStep
  <1>9. Full(r)
    BY <1>2a, <1>8 DEF T
  <1> QED
    BY <1>9 DEF Full

LEMMA FirstStays ==
  ASSUME NEW p \in Path, NEW e \in Element
  PROVE  Append(p, e)[1] = p[1]
  <1>1. 1 \in 1..Len(p)
    BY PathLength
  <1> QED
    BY <1>1, OneDeeper

\* A directory's path has a slash behind, which is nothing to fold.
LEMMA TypedDir ==
  ASSUME NEW k \in Path, ~IsBlank(k[1]), NEW q, q = Typed(k, "dir")
  PROVE  /\ q \in Path /\ Len(q) > 1 /\ IsBlank(Last(q)) /\ q[1] = k[1] /\ Last(q) = ""
         /\ \A r \in Path : Folds(k, r) => Folds(Front(q), r)
  <1>1. CASE ~IsBlank(Last(k))
    <2>1. PICK e : e = ""
      OBVIOUS
    <2>2. q = Append(k, e)
      BY <1>1, <2>1 DEF Typed, IsBlank
    <2>3. e \in Element /\ IsBlank(e)
      BY <2>1, FilesAssumption DEF IsBlank
    <2>4. q \in Path /\ Len(q) = Len(k) + 1 /\ Front(q) = k /\ Last(q) = e
      BY <2>2, <2>3, OneDeeper
    <2>5. Len(q) > 1 /\ 1 \in 1..Len(k)
      <3>1. PICK n : n = Len(k)
        OBVIOUS
      <3>2. n \in Nat /\ n >= 1 /\ Len(q) = n + 1
        BY <2>4, <3>1, PathLength
      <3>3. n + 1 > 1 /\ 1 \in 1..n
        BY <3>2
      <3> QED
        BY <3>1, <3>2, <3>3
    <2>6. q[1] = k[1]
      BY <2>2, <2>3, FirstStays
    <2> QED
      BY <2>1, <2>3, <2>4, <2>5, <2>6
  <1>2. CASE IsBlank(Last(k))
    <2>1. q = k /\ Last(k) = ""
      BY <1>2 DEF Typed, IsBlank
    <2>2. Len(k) # 1
      <3>1. SUFFICES ASSUME Len(k) = 1 PROVE FALSE
        OBVIOUS
      <3>2. Last(k) = k[1]
        BY <3>1 DEF Last
      <3> QED
        BY <1>2, <3>2
    <2>3. Len(k) > 1
      BY <2>2, PathLength
    <2>4. ASSUME NEW r \in Path, Folds(k, r) PROVE Folds(Front(k), r)
      <3>1. PICK s \in Path : Folds(Front(k), s) /\ r = NameStep(s, Last(k))
        BY <2>3, <2>4, FoldsFront
      <3>2. r = s
        BY <1>2, <3>1 DEF NameStep, IsBlank
      <3> QED
        BY <3>1, <3>2
    <2> QED
      BY <1>2, <2>1, <2>3, <2>4
  <1> QED
    BY <1>1, <1>2

\* What t is, as p with q behind it.
IsJoined(t, p, q, n, m) ==
  /\ t \in Path /\ Len(t) = n + m
  /\ \A i \in 1..n : t[i] = p[i]
  /\ \A i \in 1..m : t[n + i] = q[i]

LEMMA JoinedElements ==
  ASSUME NEW p \in Path, NEW q \in Seq(Element)
  PROVE  IsJoined(p \o q, p, q, Len(p), Len(q))
  <1> DEFINE t == p \o q
  <1>0. PICK n, m : n = Len(p) /\ m = Len(q)
    OBVIOUS
  <1>1. PICK S : S = Element
    OBVIOUS
  <1>2. p \in Seq(S) /\ q \in Seq(S) /\ n \in Nat /\ m \in Nat
    BY <1>0, <1>1, PathIs, LenProperties
  <1>3. /\ Len(p \o q) = n + m
        /\ \A i \in 1..(n + m) : (p \o q)[i] = IF i <= n THEN p[i] ELSE q[i - n]
    <2>1. /\ Len(p \o q) = Len(p) + Len(q)
          /\ \A i \in 1..(Len(p) + Len(q)) : (p \o q)[i] = IF i <= Len(p) THEN p[i] ELSE q[i - Len(p)]
      BY <1>2, ConcatProperties
    <2> QED
      BY <1>0, <1>1, <2>1
  <1> HIDE DEF t
  <1>4. Len(t) = n + m /\ \A i \in 1..(n + m) : t[i] = IF i <= n THEN p[i] ELSE q[i - n]
    BY <1>3 DEF t
  <1>5. ASSUME NEW i \in 1..n PROVE t[i] = p[i]
    <2>1. i \in 1..(n + m) /\ i <= n
      BY <1>2
    <2> QED
      BY <1>4, <2>1
  <1>6. ASSUME NEW i \in 1..m PROVE t[n + i] = q[i]
    <2>1. n + i \in 1..(n + m) /\ ~(n + i <= n) /\ (n + i) - n = i
      BY <1>2
    <2> QED
      BY <1>4, <2>1
  <1>7. t \in Path
    <2>1. p # <<>> /\ p \in Seq(Element)
      BY PathIs DEF NoPath
    <2> QED
      BY <2>1, JoinedPath DEF t
  <1>8. IsJoined(t, p, q, n, m)
    BY <1>4, <1>5, <1>6, <1>7 DEF IsJoined
  <1> QED
    BY <1>0, <1>8 DEF t

\* A name is put behind the current directory or the device.
LEMMA JoinedShape ==
  ASSUME DirShaped(currdir), NEW rel \in Path, NEW j, j = Joined(rel)
  PROVE  /\ j \in Path /\ ~IsBlank(j[1])
         /\ Single(rel) => Single(j)
  <1>1. PICK c : c = currdir
    OBVIOUS
  <1>2. c \in Path /\ Len(c) > 1 /\ ~IsBlank(c[1]) /\ Single(c)
    BY <1>1 DEF DirShaped
  <1>3. PICK n, m : n = Len(c) /\ m = Len(rel)
    OBVIOUS
  <1>4. n \in Nat /\ n > 1 /\ m \in Nat \ {0} /\ rel \in Seq(Element) /\ rel # <<>>
    BY <1>2, <1>3, PathIs DEF NoPath
  <1>5. CASE rel[1] \in Device
    <2>1. j = rel
      BY <1>5 DEF Joined
    <2>2. ~IsBlank(rel[1])
      BY <1>5, PathsAssumption DEF IsBlank
    <2> QED
      BY <2>1, <2>2
  <1>6. CASE rel[1] \notin Device /\ IsBlank(rel[1])
    <2>1. PICK p, q : p = <<c[1]>> /\ q = Tail(rel)
      OBVIOUS
    <2>2. j = p \o q
      BY <1>1, <1>6, <2>1 DEF Joined, IsBlank
    <2>3. p \in Path /\ Len(p) = 1 /\ p[1] = c[1]
      <3>1. c[1] \in Element
        <4>1. 1 \in 1..Len(c)
          BY <1>3, <1>4
        <4> QED
          BY <1>2, <4>1, PathIs
      <3> QED
        BY <2>1, <3>1, OneElement
    <2>4. q \in Seq(Element) /\ Len(q) = m - 1 /\ \A i \in 1..(m - 1) : q[i] = rel[i + 1]
      <3>1. /\ q \in Seq(Element) /\ Len(q) = Len(rel) - 1
            /\ \A i \in 1..Len(q) : q[i] = rel[i + 1]
        BY <1>4, <2>1, HeadTailProperties
      <3> QED
        BY <1>3, <3>1
    <2>5. /\ j \in Path /\ Len(j) = 1 + (m - 1) /\ j[1] = p[1]
          /\ \A i \in 1..(m - 1) : j[1 + i] = q[i]
      <3>1. PICK x, y : x = Len(p) /\ y = Len(q)
        OBVIOUS
      <3>2. /\ j \in Path /\ Len(j) = x + y /\ (\A i \in 1..x : j[i] = p[i])
            /\ \A i \in 1..y : j[x + i] = q[i]
        <4>1. p \in Path /\ q \in Seq(Element) /\ j = p \o q
          BY <2>2, <2>3, <2>4
        <4>2. IsJoined(j, p, q, x, y)
          BY <3>1, <4>1, JoinedElements
        <4> QED
          BY <4>2 DEF IsJoined
      <3>3. x = 1 /\ y = m - 1
        BY <2>3, <2>4, <3>1
      <3>4. 1 \in 1..x
        BY <3>3
      <3> QED
        BY <3>2, <3>3, <3>4
    <2>6. ASSUME Single(rel), NEW i \in 2..(Len(j) - 1) PROVE ~IsBlank(j[i])
      <3>1. PICK x : x = i - 1
        OBVIOUS
      <3>2. x \in 1..(m - 1) /\ i = 1 + x /\ i = x + 1 /\ i \in 2..(Len(rel) - 1)
        BY <1>3, <1>4, <2>5, <3>1
      <3>3. j[i] = rel[i]
        BY <2>4, <2>5, <3>2
      <3>4. ~IsBlank(rel[i])
        BY <2>6, <3>2, SingleIs
      <3> QED
        BY <3>3, <3>4
    <2>7. Single(rel) => Single(j)
      BY <2>6, IsSingle
    <2> QED
      BY <1>2, <2>3, <2>5, <2>7
  <1>7. CASE rel[1] \notin Device /\ ~IsBlank(rel[1])
    <2>1. PICK p : p = Front(c)
      OBVIOUS
    <2>2. j = p \o rel
      BY <1>1, <1>7, <2>1 DEF Joined, IsBlank
    <2>3. p \in Path /\ Len(p) = n - 1 /\ \A i \in 1..(n - 1) : p[i] = c[i]
      BY <1>2, <1>3, <2>1, FrontOf
    <2>4. /\ j \in Path /\ Len(j) = (n - 1) + m
          /\ \A i \in 1..(n - 1) : j[i] = p[i]
          /\ \A i \in 1..m : j[(n - 1) + i] = rel[i]
      <3>1. PICK x, y : x = Len(p) /\ y = Len(rel)
        OBVIOUS
      <3>2. /\ j \in Path /\ Len(j) = x + y /\ (\A i \in 1..x : j[i] = p[i])
            /\ \A i \in 1..y : j[x + i] = rel[i]
        <4>1. p \in Path /\ rel \in Seq(Element) /\ j = p \o rel
          BY <1>4, <2>2, <2>3
        <4>2. IsJoined(j, p, rel, x, y)
          BY <3>1, <4>1, JoinedElements
        <4> QED
          BY <4>2 DEF IsJoined
      <3>3. x = n - 1 /\ y = m
        BY <1>3, <2>3, <3>1
      <3> QED
        BY <3>2, <3>3
    <2>5. ~IsBlank(j[1])
      <3>1. 1 \in 1..(n - 1)
        BY <1>4
      <3> QED
        BY <1>2, <2>3, <2>4, <3>1
    <2>6. ASSUME Single(rel), NEW i \in 2..(Len(j) - 1) PROVE ~IsBlank(j[i])
      <3>1. CASE i \in 1..(n - 1)
        <4>1. j[i] = c[i] /\ i \in 2..(Len(c) - 1)
          BY <1>3, <2>3, <2>4, <3>1
        <4> QED
          BY <1>2, <4>1, SingleIs
      <3>2. CASE i \notin 1..(n - 1)
        <4>1. PICK x : x = i - (n - 1)
          OBVIOUS
        <4>2. x \in 1..m /\ i = (n - 1) + x /\ (x # 1 => x \in 2..(m - 1))
          BY <1>4, <2>4, <3>2, <4>1
        <4>3. j[i] = rel[x]
          BY <2>4, <4>2
        <4>4. CASE x = 1
          BY <1>7, <4>3, <4>4
        <4>5. CASE x # 1
          <5>1. x \in 2..(Len(rel) - 1)
            BY <1>3, <4>2, <4>5
          <5> QED
            BY <2>6, <4>3, <5>1, SingleIs
        <4> QED
          BY <4>4, <4>5
      <3> QED
        BY <3>1, <3>2
    <2>7. Single(rel) => Single(j)
      BY <2>6, IsSingle
    <2> QED
      BY <2>4, <2>5, <2>7
  <1> QED
    BY <1>5, <1>6, <1>7

\* The shell's half (handlepath).
LEMMA ShellResolves ==
  ASSUME DirShaped(currdir), NEW rel \in Path, Single(rel)
  PROVE  PathResolves(rel)
  <1>1. PICK j : j = Joined(rel)
    OBVIOUS
  <1>2. j \in Path /\ ~IsBlank(j[1]) /\ Single(j)
    BY <1>1, JoinedShape
  <1>3. PICK d : d = Dots(j)
    OBVIOUS
  <1>4. IF Bad(d) THEN Climbs(j) ELSE Folds(d.kept, Resolved(j))
    BY <1>2, <1>3, DotsResolve
  <1>5. d.kept \in Path /\ d.kept[1] = j[1]
    BY <1>2, <1>3, DotsFirst
  <1>6. PICK q : q = Typed(d.kept, "dir")
    OBVIOUS
  <1>7. /\ q \in Path /\ Len(q) > 1 /\ Last(q) = ""
        /\ \A r \in Path : Folds(d.kept, r) => Folds(Front(q), r)
    <2>1. ~IsBlank(d.kept[1])
      BY <1>2, <1>5
    <2> QED
      BY <1>5, <1>6, <2>1, TypedDir
  <1>8. ASSUME ~Bad(d) PROVE normalize_path(q) = Append(Resolved(j), "")
    <2>1. Folds(d.kept, Resolved(j))
      BY <1>4, <1>8
    <2>2. Resolved(j) \in Path
      BY <1>5, <2>1, FoldsTyped
    <2>3. Folds(Front(q), Resolved(j))
      BY <1>7, <2>1, <2>2
    <2>4. normalize_path(q) = Append(Resolved(j), Last(q))
      BY <1>7, <2>2, <2>3, NormalIs
    <2> QED
      BY <1>7, <2>4
  <1>9. d.mode = "bad" <=> Bad(d)
    BY DEF Bad
  <1> QED
    BY <1>1, <1>3, <1>4, <1>6, <1>8, <1>9 DEF PathResolves

-----------------------------------------------------------------------------
\* handlepath gives the path of a directory for one.
LEMMA DirectoryShape ==
  ASSUME DirShaped(currdir), NEW rel \in Path, NEW valid, handlepath(rel, "dir", valid) # NoPath
  PROVE  DirShaped(handlepath(rel, "dir", valid))
  <1>1. PICK j : j = Joined(rel)
    OBVIOUS
  <1>2. j \in Path /\ ~IsBlank(j[1])
    BY <1>1, JoinedShape
  <1>3. PICK d : d = Dots(j)
    OBVIOUS
  <1>4. d.kept \in Path /\ d.kept[1] = j[1]
    BY <1>2, <1>3, DotsFirst
  <1>5. PICK q : q = Typed(d.kept, "dir")
    OBVIOUS
  <1>6. q \in Path /\ Len(q) > 1 /\ IsBlank(Last(q)) /\ ~IsBlank(q[1])
    <2>1. ~IsBlank(d.kept[1])
      BY <1>2, <1>4
    <2> QED
      BY <1>4, <1>5, <2>1, TypedDir
  <1>7. PICK r \in Path : Folds(Front(q), r) /\ normalize_path(q) = Append(r, Last(q))
    BY <1>6, NormalFolds
  <1>8. r[1] = q[1] /\ \A i \in 2..Len(r) : ~IsBlank(r[i])
    <2>1. Front(q) \in Path /\ Front(q)[1] = q[1]
      <3>1. 1 \in 1..(Len(q) - 1)
        BY <1>6, PathLength
      <3> QED
        BY <1>6, <3>1, FrontOf
    <2> QED
      BY <1>7, <2>1, FoldsFull
  <1>9. PICK a, n, e : a = Append(r, e) /\ n = Len(r) /\ e = Last(q)
    OBVIOUS
  <1>10. e \in Element
    BY <1>6, <1>9, PathIs
  <1>11. a \in Path /\ Len(a) = n + 1 /\ Last(a) = e /\ \A i \in 1..n : a[i] = r[i]
    BY <1>9, <1>10, OneDeeper
  <1>12. n \in Nat \ {0}
    BY <1>9, PathIs
  <1>13. Len(a) > 1 /\ ~IsBlank(a[1])
    BY <1>6, <1>8, <1>11, <1>12
  <1>14. ASSUME NEW i \in 2..(Len(a) - 1) PROVE ~IsBlank(a[i])
    <2>1. i \in 2..n /\ i \in 1..n
      BY <1>11, <1>12
    <2> QED
      BY <1>8, <1>9, <1>11, <2>1
  <1>15. DirShaped(a)
    BY <1>6, <1>9, <1>11, <1>13, <1>14, IsSingle DEF DirShaped
  <1>16. handlepath(rel, "dir", valid) = a
    BY <1>1, <1>3, <1>5, <1>7, <1>9 DEF handlepath
  <1> QED
    BY <1>15, <1>16

-----------------------------------------------------------------------------
\* The PC's half (gen_path).
LEMMA PathResolved ==
  ASSUME NEW s \in Seq(Atom)
  PROVE  GenPathResolves(s)
  <1>1. PICK toks : toks = TokensOf(s)
    OBVIOUS
  <1>2. toks \in Seq(Text) /\ Len(toks) \in Nat /\ DOMAIN toks = 1..Len(toks)
    BY <1>1, TokensTyped, LenProperties
  <1>7. PICK D, E : /\ D = {i \in 1..Len(toks) : toks[i] \in FileName}
                    /\ E = {i \in 1..Len(toks) : toks[i] = <<".", ".">>}
    OBVIOUS
  <1>3. SUFFICES ASSUME Len(toks) < MaxTokens
                 PROVE  gen_path(toks) = InOrder(toks, Staying(D, E, Len(toks)))
    BY <1>1, <1>2, <1>7 DEF GenPathResolves
  <1>4. PICK n \in Nat : n = Len(toks)
    BY <1>2
  <1>5. FirstTokens(toks) = toks
    <2>1. Len(toks) <= Most
      BY <1>2, <1>3, MostIs, NamesAssumption DEF Most
    <2> QED
      BY <1>2, <2>1, FirstAre
  <1>6. PICK out \in [0..n -> PcPath] :
          /\ out[0] = <<>>
          /\ \A k \in 1..n : out[k] = NormalStep(out[k - 1], toks[k])
          /\ gen_path(toks) = out[n]
    BY <1>2, <1>4, <1>5, PathsAre
  <1> DEFINE T == {k \in 0..n : \E p : Kept(D, E, k, p) /\ out[k] = Picked(toks, p)}
  <1>8. 0 \in T
    <2>1. Picked(toks, <<>>) = <<>>
      BY DEF Picked
    <2>2. Kept(D, E, 0, <<>>) /\ out[0] = Picked(toks, <<>>)
      BY <1>6, <2>1, KeptFirst
    <2> QED
      BY <1>4, <2>2
  <1>9. ASSUME NEW k \in 0..(n - 1), k \in T PROVE k + 1 \in T
    <2>1. PICK p : Kept(D, E, k, p) /\ out[k] = Picked(toks, p)
      BY <1>9
    <2>2. PICK q : q = PlaceStep(D, E, k + 1, p)
      OBVIOUS
    <2>3. k \in Nat /\ k + 1 \in 1..n /\ k + 1 \in 0..n /\ (k + 1) - 1 = k
      BY <1>4
    <2>4. k + 1 \notin D \cap E
      BY <1>7 DEF FileName
    <2>5. Kept(D, E, k + 1, q)
      BY <2>1, <2>2, <2>3, <2>4, KeptStep
    <2>6. p \in Places(k)
      BY <2>1 DEF Kept
    <2>7. Picked(toks, q) = NormalStep(Picked(toks, p), toks[k + 1])
      BY <1>2, <1>4, <1>7, <2>2, <2>6, PickedStep
    <2>8. out[k + 1] = NormalStep(out[k], toks[k + 1])
      BY <1>6, <2>3
    <2>9. out[k + 1] = Picked(toks, q)
      BY <2>1, <2>7, <2>8
    <2> QED
      BY <2>3, <2>5, <2>9
  <1>10. n \in T
    <2> HIDE DEF T
    <2>1. 0..n \subseteq T
      BY <1>4, <1>8, <1>9, EachStep
    <2>2. n \in 0..n
      BY <1>4
    <2> QED
      BY <2>1, <2>2
  <1>11. PICK p : Kept(D, E, n, p) /\ out[n] = Picked(toks, p)
    BY <1>10
  <1>12. InOrder(toks, Staying(D, E, n)) = Picked(toks, p)
    BY <1>11, InOrderIs
  <1> QED
    BY <1>4, <1>6, <1>7, <1>11, <1>12

-----------------------------------------------------------------------------
LEMMA NewDirectory ==
  ASSUME DirShaped(currdir), chdir
  PROVE  DirShaped(currdir')
  <1>1. PICK a \in Args : /\ handlepath(a, "dir", TRUE) # NoPath
                          /\ currdir' = handlepath(a, "dir", TRUE)
    BY DEF chdir
  <1>2. PICK v : v = TRUE
    OBVIOUS
  <1>3. a \in Path
    BY FilesAssumption
  <1>4. DirShaped(handlepath(a, "dir", v))
    BY <1>1, <1>2, <1>3, DirectoryShape
  <1> QED
    BY <1>1, <1>2, <1>4

LEMMA FirstDirectory == FilesInit => DirShaped(currdir)
  <1> SUFFICES ASSUME FilesInit PROVE DirShaped(currdir)
    OBVIOUS
  <1>1. PICK S, a, b, c : S = Element /\ a = "host0:" /\ b = "" /\ c = <<a, b>>
    OBVIOUS
  <1>2. a \in S /\ b \in S /\ ~IsBlank(a) /\ IsBlank(b)
    BY <1>1, FilesAssumption DEF IsBlank
  <1>3. c \in Seq(S) /\ c # <<>> /\ Len(c) = 2 /\ c[1] = a /\ c[2] = b
    <2>1. a \in S /\ b \in S /\ c = <<a, b>>
      BY <1>1, <1>2
    <2> QED
      BY <2>1
  <1>4. Last(c) = b
    BY <1>3 DEF Last
  <1>5. c \in Path
    BY <1>1, <1>3 DEF Path
  <1>6. \A i \in 2..(Len(c) - 1) : FALSE
    BY <1>3
  <1>7. Single(c)
    BY <1>6, IsSingle
  <1>8. Len(c) > 1
    BY <1>3
  <1>9. DirShaped(c)
    BY <1>2, <1>3, <1>4, <1>5, <1>7, <1>8 DEF DirShaped
  <1> QED
    BY <1>1, <1>9 DEF FilesInit

\* The current directory is that of host0: or one handlepath gave (chdir).
LEMMA DirectoryStays == FilesSpec => []DirShaped(currdir)
  <1>1. FilesInit => DirShaped(currdir)
    BY FirstDirectory
  <1>2. DirShaped(currdir) /\ [FilesNext]_filevars => DirShaped(currdir)'
    <2> SUFFICES ASSUME DirShaped(currdir), [FilesNext]_filevars PROVE DirShaped(currdir')
      BY DEF DirShaped
    <2>1. chdir \/ currdir' = currdir
      BY DEF FilesNext, mkdir_cmd, rmdir_cmd, rm_cmd, rename_cmd, cp_cmd, mv_cmd, CopyCmd,
             CopyEntry, CopyDone, filevars
    <2>2. CASE currdir' = currdir
      BY <2>2
    <2> QED
      BY <2>1, <2>2, NewDirectory
  <1> QED
    BY <1>1, <1>2, PTL DEF FilesSpec

-----------------------------------------------------------------------------
LEMMA SpelledTyped ==
  ASSUME NEW rel \in Seq(Element)
  PROVE  Spelled(rel) \in Seq(Atom)
  <1>1. PICK S, n, slash : S = Seq(Atom) /\ n = Len(rel) /\ slash = <<"/">>
    OBVIOUS
  <1>2. n \in Nat /\ <<>> \in S /\ \A k \in 1..n : rel[k] \in Element
    BY <1>1, LenProperties, ElementOfSeq
  <1>3. slash \in S
    <2>1. PICK c : c = "/"
      OBVIOUS
    <2>2. c \in Atom
      BY <2>1, NamesAssumption
    <2> QED
      BY <1>1, <2>1, <2>2
  <1> DEFINE Then(a, e) == a \o slash \o Spelling[e]
             Body(g) == [k \in 0..n |-> IF k = 0 THEN <<>> ELSE Then(g[k - 1], rel[k])]
             next == [k \in 1..n |-> [a \in S |-> Then(a, rel[k])]]
             out == CHOOSE g : g = Body(g)
  <1>4. ASSUME NEW a \in S, NEW e \in Element PROVE Then(a, e) \in S
    <2>1. PICK b : b = Spelling[e]
      OBVIOUS
    <2>2. b \in Seq(Atom) /\ a \in Seq(Atom) /\ slash \in Seq(Atom)
      BY <1>1, <1>3, <2>1, PathsAssumption
    <2>3. (a \o slash) \o b \in Seq(Atom)
      BY <2>2, ConcatProperties
    <2> QED
      BY <1>1, <2>1, <2>3
  <1>5. Spelled(rel) = out[n]
    BY <1>1 DEF Spelled
  <1> HIDE DEF Then
  <1>6. next \in [1..n -> [S -> S]]
    BY <1>2, <1>4
  <1>7. ASSUME NEW k \in 1..n, NEW a \in S PROVE next[k][a] = Then(a, rel[k])
    OBVIOUS
  <1> HIDE DEF next
  <1>8. PICK h \in [0..n -> S] : h[0] = <<>> /\ \A k \in 1..n : h[k] = next[k][h[k - 1]]
    <2>1. PICK f : f = <<>>
      OBVIOUS
    <2>2. f \in S /\ n \in Nat
      BY <1>2, <2>1
    <2>3. \E h \in [0..n -> S] : h[0] = f /\ \A k \in 1..n : h[k] = next[k][h[k - 1]]
      BY <1>6, <2>2, Stepped
    <2> QED
      BY <2>1, <2>3
  <1>9. ASSUME NEW k \in 1..n PROVE h[k] = Then(h[k - 1], rel[k])
    <2>1. h[k - 1] \in S
      BY <1>2, <1>8
    <2> QED
      BY <1>7, <1>8, <2>1
  <1>10. h = Body(h)
    <2>1. ASSUME NEW k \in 0..n PROVE h[k] = IF k = 0 THEN <<>> ELSE Then(h[k - 1], rel[k])
      BY <1>2, <1>8, <1>9
    <2> QED
      BY <1>8, <2>1
  <1>11. out = Body(out)
    <2> DEFINE Is(g) == g = Body(g)
    <2>1. Is(h)
      BY <1>10
    <2> HIDE DEF Is
    <2>2. Is(CHOOSE g : Is(g))
      BY <2>1
    <2> QED
      BY <2>2 DEF Is
  <1> HIDE DEF out
  <1> DEFINE T == {k \in 0..n : out[k] \in S}
  <1>12. 0 \in T
    <2>1. 0 \in 0..n
      BY <1>2
    <2>2. out[0] = <<>>
      BY <1>11, <2>1
    <2> QED
      BY <1>2, <2>1, <2>2
  <1>13. ASSUME NEW k \in 0..(n - 1), k \in T PROVE k + 1 \in T
    <2>1. k + 1 \in 0..n /\ k + 1 \in 1..n /\ k + 1 # 0 /\ (k + 1) - 1 = k
      BY <1>2
    <2>2. out[k + 1] = Then(out[k], rel[k + 1])
      BY <1>11, <2>1
    <2>3. out[k] \in S
      BY <1>13
    <2>4. out[k + 1] \in S
      BY <1>2, <1>4, <2>1, <2>2, <2>3
    <2> QED
      BY <2>1, <2>4
  <1> HIDE DEF T
  <1>14. 0..n \subseteq T /\ n \in 0..n
    <2>1. n \in Nat
      BY <1>2
    <2>2. 0..n \subseteq T
      BY <1>12, <1>13, <2>1, EachStep
    <2> QED
      BY <2>1, <2>2
  <1>15. out[n] \in S
    BY <1>14 DEF T
  <1> QED
    BY <1>1, <1>5, <1>15

-----------------------------------------------------------------------------
\* Whatever name and whatever current directory a command has, and however many
\* "." and ".." are in it, both programs make of it the path it stands for
\* (gen_path, handlepath).
THEOREM NamesAreResolved == FilesSpec /\ [](name \in Seq(Element)) => []PathsResolve
  <1>1. DirShaped(currdir) /\ name \in Seq(Element) => PathsResolve
    <2> SUFFICES ASSUME DirShaped(currdir), name \in Seq(Element) PROVE PathsResolve
      OBVIOUS
    <2>1. PICK rel : rel = name
      OBVIOUS
    <2>2. rel \in Seq(Element)
      BY <2>1
    <2>3. GenPathResolves(Spelled(rel))
      BY <2>2, SpelledTyped, PathResolved
    <2>4. ASSUME rel # <<>>, Single(rel) PROVE PathResolves(rel)
      <3>1. rel \in Path
        BY <2>2, <2>4 DEF Path
      <3> QED
        BY <2>4, <3>1, ShellResolves
    <2> QED
      BY <2>1, <2>3, <2>4 DEF PathsResolve
  <1> QED
    BY <1>1, DirectoryStays, PTL
=============================================================================

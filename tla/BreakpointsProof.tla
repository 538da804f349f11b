------------------------- MODULE BreakpointsProof -------------------------
(* Proofs about Breakpoints for any size of the table, any program, any     *)
(* number of threads and any breakpoints the debuggers ask for.             *)
EXTENDS Breakpoints, FiniteSetsExt, WellFoundedInduction, TLAPS

\* The parts of TableMatches, and of SavedInst, as predicates of a value of dbg,
\* which the operations of debug.c map to each other.
DbgType == [bps : [Slot -> Breakpoint], mem : [Loc -> Word], iba : Loc \cup {NULL}]

SoftAt(d, i, a) == Enabled(d, i) /\ ~IsHw(d, i) /\ d.bps[i].addr = a
HardAt(d, i, a) == Enabled(d, i) /\ IsHw(d, i) /\ d.bps[i].addr = a

TextOf(d)  == \A a \in Loc : d.mem[a] = "BREAK" <=> \E i \in Slot : SoftAt(d, i, a)
IbaOf(d)   == \A a \in Loc : d.iba = a <=> \E i \in Slot : HardAt(d, i, a)
OneHw(d)   == \A i, j \in Slot :
                Active(d, i) /\ IsHw(d, i) /\ Active(d, j) /\ IsHw(d, j) => i = j
OneBp(d)   == \A i, j \in Slot :
                Active(d, i) /\ Active(d, j) /\ d.bps[i].addr = d.bps[j].addr => i = j
InstOf(d)  == \A i \in Slot : Active(d, i) => d.bps[i].inst = "inst"

Good(d) == d \in DbgType /\ TextOf(d) /\ IbaOf(d) /\ OneHw(d) /\ OneBp(d) /\ InstOf(d)

\* The flags a debugger asks for.
Asked == SUBSET {"ONESHOT", "HARDWARE", "STEP"}

\* What GdbPublish makes of a table.
Published(d) ==
  [d EXCEPT !.bps[gdb.slot].addr = gdb.addr,
            !.bps[gdb.slot].flags = {"ACTIVE"} \cup gdb.flags,
            !.bps[gdb.slot].thid = NULL]

GdbType == [pc : {"idle", "save", "patch", "publish"}, addr : Loc, flags : Asked, slot : Slot]

\* The call of the GDB server ends in the table that debugSetBP in one step gives.
InCall ==
  /\ gdb.pc \in {"idle", "save"} => Good(dbg)
  /\ gdb.pc = "save" => gdb.slot = SetSlot(dbg, gdb.addr, gdb.flags)
  /\ gdb.pc = "patch" => Good(Published(Patch(dbg, gdb.addr, "HARDWARE" \in gdb.flags)))
  /\ gdb.pc = "publish" => Good(Published(dbg))

BpInv ==
  /\ dbg \in DbgType
  /\ epc \in [Thread -> Loc \ {MaxLoc}]
  /\ gdb \in GdbType
  /\ OneBp(dbg) /\ InstOf(dbg)
  /\ InCall

-----------------------------------------------------------------------------
(* The searches.                                                           *)

\* The lowest number of a set of numbers is one of them.
LEMMA MinIsLowest ==
  ASSUME NEW S \in SUBSET Nat, S # {}
  PROVE  Min(S) \in S
  <1>1. PICK x \in S : \A y \in S : ~(<<y, x>> \in OpToRel(<, Nat))
    BY NatLessThanWellFounded, WFMin
  <1>2. \A y \in S : x =< y
    <2>1. SUFFICES ASSUME NEW y \in S PROVE x =< y
      OBVIOUS
    <2>2. ~(y < x)
      BY <1>1 DEF OpToRel
    <2> QED
      BY <2>2
  <1> QED
    BY <1>2 DEF Min

\* A search finds a slot of its set, or NULL if there is none.
LEMMA FirstFinds ==
  ASSUME NEW S \in SUBSET Slot
  PROVE  First(S) \in S \cup {NULL} /\ (First(S) = NULL <=> S = {})
  <1>1. CASE S = {}
    BY <1>1 DEF First
  <1>2. CASE S # {}
    <2>1. S \in SUBSET Nat /\ NULL \notin S
      <3>1. MaxBps \in Nat /\ NULL \notin Slot
        BY ProgramAssumption
      <3>2. Slot \subseteq Nat
        BY <3>1 DEF Slot
      <3> QED
        BY <3>1, <3>2
    <2>2. First(S) = Min(S)
      BY <1>2 DEF First, Min
    <2> QED
      BY <1>2, <2>1, <2>2, MinIsLowest
  <1> QED
    BY <1>1, <1>2

LEMMA FindBp ==
  ASSUME NEW d, NEW a
  PROVE  \/ /\ find_bp(d, a) \in Slot /\ Active(d, find_bp(d, a))
            /\ d.bps[find_bp(d, a)].addr = a
         \/ /\ find_bp(d, a) = NULL
            /\ \A i \in Slot : Active(d, i) => d.bps[i].addr # a
  BY FirstFinds DEF find_bp

\* debugSetBP fills a slot that is free, for a word and a register that are.
LEMMA SetSlotFree ==
  ASSUME NEW d, NEW a, NEW fl, SetSlot(d, a, fl) # NULL
  PROVE  /\ SetSlot(d, a, fl) \in Slot /\ ~Active(d, SetSlot(d, a, fl))
         /\ \A i \in Slot : Active(d, i) => d.bps[i].addr # a
         /\ "HARDWARE" \in fl => \A i \in Slot : ~(Active(d, i) /\ IsHw(d, i))
  <1>1. find_bp(d, a) = NULL /\ SetSlot(d, a, fl) = find_freebp(d)
    BY DEF SetSlot
  <1>2. \A i \in Slot : Active(d, i) => d.bps[i].addr # a
    BY <1>1, FirstFinds DEF find_bp
  <1>3. "HARDWARE" \in fl => \A i \in Slot : ~(Active(d, i) /\ IsHw(d, i))
    BY FirstFinds DEF SetSlot, find_hwbp
  <1>4. find_freebp(d) \in Slot /\ ~Active(d, find_freebp(d))
    BY <1>1, FirstFinds DEF find_freebp
  <1> QED
    BY <1>1, <1>2, <1>3, <1>4

-----------------------------------------------------------------------------
(* The operations.                                                         *)

LEMMA SetKeeps ==
  ASSUME NEW d, Good(d), NEW a \in Loc, NEW fl \in Asked, NEW t \in Thread \cup {NULL}
  PROVE  Good(debugSetBP(d, a, fl, t))
  <1> DEFINE i == SetSlot(d, a, fl)
             e == debugSetBP(d, a, fl, t)
  <1>1. CASE i = NULL
    BY <1>1 DEF debugSetBP
  <1>2. CASE i # NULL
    <2>1. /\ i \in Slot /\ ~Active(d, i)
          /\ \A j \in Slot : Active(d, j) => d.bps[j].addr # a
          /\ "HARDWARE" \in fl => \A j \in Slot : ~(Active(d, j) /\ IsHw(d, j))
      BY <1>2, SetSlotFree
    <2>2. e = Patch([d EXCEPT !.bps[i] = Filled(d, a, fl, t)], a, "HARDWARE" \in fl)
      BY <1>2 DEF debugSetBP
    <2> HIDE DEF i, e
    <2>3. d.mem[a] = "inst"
      <3>1. d.mem[a] \in Word /\ d.mem[a] # "BREAK"
        BY <2>1 DEF Good, DbgType, TextOf, SoftAt, Enabled
      <3> QED
        BY <3>1 DEF Word
    <2>4. Filled(d, a, fl, t) \in Breakpoint
      BY <2>3 DEF Filled, Breakpoint, Word, Flag, Asked
    <2>5. /\ e.bps = [d.bps EXCEPT ![i] = Filled(d, a, fl, t)]
          /\ e.mem = IF "HARDWARE" \in fl THEN d.mem ELSE [d.mem EXCEPT ![a] = "BREAK"]
          /\ e.iba = IF "HARDWARE" \in fl THEN a ELSE d.iba
          /\ e \in [bps : {e.bps}, mem : {e.mem}, iba : {e.iba}]
      BY <2>2 DEF Patch, Good, DbgType
    <2>6. e \in DbgType
      BY <2>4, <2>5 DEF Good, DbgType, Word
    <2>7. /\ e.bps[i] = Filled(d, a, fl, t)
          /\ \A j \in Slot : j # i => e.bps[j] = d.bps[j]
      BY <2>1, <2>5 DEF Good, DbgType
    <2>8. /\ Active(e, i) /\ Enabled(e, i) /\ (IsHw(e, i) <=> "HARDWARE" \in fl)
          /\ e.bps[i].addr = a /\ e.bps[i].inst = "inst"
      BY <2>3, <2>7 DEF Filled, Active, Enabled, IsHw, Asked
    <2>9. \A j \in Slot : j # i => /\ Active(e, j) <=> Active(d, j)
                                   /\ Enabled(e, j) <=> Enabled(d, j)
                                   /\ IsHw(e, j) <=> IsHw(d, j)
      BY <2>7 DEF Active, Enabled, IsHw
    <2>10. OneBp(e) /\ InstOf(e)
      BY <2>1, <2>7, <2>8, <2>9 DEF Good, OneBp, InstOf
    <2>11. OneHw(e)
      BY <2>1, <2>8, <2>9 DEF Good, OneHw
    <2>12. TextOf(e)
      BY <2>1, <2>5, <2>7, <2>8, <2>9 DEF Good, DbgType, TextOf, SoftAt, Enabled
    <2>13. IbaOf(e)
      BY <2>1, <2>5, <2>7, <2>8, <2>9 DEF Good, DbgType, IbaOf, HardAt, Enabled
    <2> QED
      BY <2>6, <2>10, <2>11, <2>12, <2>13 DEF Good, e
  <1> QED
    BY <1>1, <1>2

\* Deleting, disabling and enabling: what one slot, its word and the register
\* become.
LEMMA ChangeKeeps ==
  ASSUME NEW d, Good(d), NEW i \in Slot, Active(d, i), NEW fl \in {{}, d.bps[i].flags \cup {"DISABLED"},
                                                                d.bps[i].flags \ {"DISABLED"}},
         NEW e \in DbgType,
         e.bps = [d.bps EXCEPT ![i].flags = fl],
         NEW w, NEW r,
         e.mem = IF IsHw(d, i) THEN d.mem ELSE [d.mem EXCEPT ![d.bps[i].addr] = w],
         e.iba = IF IsHw(d, i) THEN r ELSE d.iba,
         IF "ACTIVE" \in fl /\ "DISABLED" \notin fl THEN w = "BREAK" /\ r = d.bps[i].addr
                                                  ELSE w = "inst" /\ r = NULL
  PROVE  Good(e)
  <1> DEFINE a == d.bps[i].addr
             on == "ACTIVE" \in fl /\ "DISABLED" \notin fl
  <1>1. a \in Loc
    BY DEF Good, DbgType, Breakpoint
  <1>2. /\ e.bps[i].flags = fl /\ e.bps[i].addr = a /\ e.bps[i].inst = d.bps[i].inst
        /\ \A j \in Slot : j # i => e.bps[j] = d.bps[j]
    BY DEF Good, DbgType, Breakpoint
  <1>3. \A j \in Slot : j # i => /\ Active(e, j) <=> Active(d, j)
                                 /\ Enabled(e, j) <=> Enabled(d, j)
                                 /\ IsHw(e, j) <=> IsHw(d, j)
                                 /\ e.bps[j].addr = d.bps[j].addr
                                 /\ e.bps[j].inst = d.bps[j].inst
    BY <1>2 DEF Active, Enabled, IsHw
  <1>4. /\ Active(e, i) => (IsHw(e, i) <=> IsHw(d, i))
        /\ Enabled(e, i) <=> on
    BY <1>2 DEF Active, Enabled, IsHw
  <1>5. \A j \in Slot : j # i /\ Active(d, j) => d.bps[j].addr # a
    BY DEF Good, OneBp
  <1>6. IsHw(d, i) => \A j \in Slot : j # i => ~(Active(d, j) /\ IsHw(d, j))
    BY DEF Good, OneHw
  <1> HIDE DEF a, on
  <1>7. OneBp(e) /\ InstOf(e) /\ OneHw(e)
    BY <1>2, <1>3, <1>4 DEF Good, OneBp, InstOf, OneHw
  <1>8. TextOf(e)
    <2>1. SUFFICES ASSUME NEW b \in Loc
                   PROVE  e.mem[b] = "BREAK" <=> \E j \in Slot : SoftAt(e, j, b)
      BY DEF TextOf
    <2>2. d.mem[b] = "BREAK" <=> \E j \in Slot : SoftAt(d, j, b)
      BY DEF Good, TextOf
    <2>3. \A j \in Slot : j # i => (SoftAt(e, j, b) <=> SoftAt(d, j, b))
      BY <1>3 DEF SoftAt
    <2>4. IsHw(d, i) => ~SoftAt(e, i, b) /\ ~SoftAt(d, i, b) /\ e.mem = d.mem
      BY <1>4 DEF SoftAt, Enabled
    <2>5. ~IsHw(d, i) => /\ SoftAt(e, i, b) <=> on /\ b = a
                         /\ SoftAt(d, i, b) => b = a
                         /\ e.mem[b] = IF b = a THEN IF on THEN "BREAK" ELSE "inst" ELSE d.mem[b]
      BY <1>1, <1>2, <1>4 DEF SoftAt, Enabled, a, on, Good, DbgType
    <2>6. b = a => \A j \in Slot : j # i => ~SoftAt(d, j, b)
      BY <1>5 DEF SoftAt, Enabled
    <2> QED
      BY <2>2, <2>3, <2>4, <2>5, <2>6
  <1>9. IbaOf(e)
    <2>1. SUFFICES ASSUME NEW b \in Loc
                   PROVE  e.iba = b <=> \E j \in Slot : HardAt(e, j, b)
      BY DEF IbaOf
    <2>2. d.iba = b <=> \E j \in Slot : HardAt(d, j, b)
      BY DEF Good, IbaOf
    <2>3. \A j \in Slot : j # i => (HardAt(e, j, b) <=> HardAt(d, j, b))
      BY <1>3 DEF HardAt
    <2>4. ~IsHw(d, i) => ~HardAt(e, i, b) /\ ~HardAt(d, i, b) /\ e.iba = d.iba
      BY <1>4 DEF HardAt, Enabled
    <2>5. IsHw(d, i) => /\ HardAt(e, i, b) <=> on /\ b = a
                        /\ e.iba = IF on THEN a ELSE NULL
      BY <1>1, <1>2, <1>4 DEF HardAt, Enabled, a, on
    <2>6. IsHw(d, i) => \A j \in Slot : j # i => ~HardAt(d, j, b)
      BY <1>6 DEF HardAt, Enabled
    <2>7. b # NULL
      BY ProgramAssumption
    <2> QED
      BY <2>2, <2>3, <2>4, <2>5, <2>6, <2>7
  <1> QED
    BY <1>7, <1>8, <1>9 DEF Good

\* Unpatch with the flags of the slot changed.
LEMMA UnpatchKeeps ==
  ASSUME NEW d, Good(d), NEW i \in Slot, Active(d, i),
         NEW fl \in {{}, d.bps[i].flags \cup {"DISABLED"}}
  PROVE  Good([Unpatch(d, i) EXCEPT !.bps[i].flags = fl])
  <1> DEFINE e == [Unpatch(d, i) EXCEPT !.bps[i].flags = fl]
  <1>1. d.bps[i].inst = "inst" /\ d.bps[i].addr \in Loc /\ d.bps[i].flags \in SUBSET Flag
    BY DEF Good, InstOf, DbgType, Breakpoint
  <1>2. /\ e.bps = [d.bps EXCEPT ![i].flags = fl]
        /\ e.mem = IF IsHw(d, i) THEN d.mem ELSE [d.mem EXCEPT ![d.bps[i].addr] = "inst"]
        /\ e.iba = IF IsHw(d, i) THEN NULL ELSE d.iba
        /\ e \in [bps : {e.bps}, mem : {e.mem}, iba : {e.iba}]
    BY <1>1 DEF Unpatch, Good, DbgType
  <1>3. fl \in SUBSET Flag /\ ~("ACTIVE" \in fl /\ "DISABLED" \notin fl)
    BY <1>1 DEF Flag
  <1> HIDE DEF e
  <1>4. e.bps \in [Slot -> Breakpoint]
    BY <1>2, <1>3 DEF Good, DbgType, Breakpoint
  <1>5. e \in DbgType
    BY <1>2, <1>4 DEF Good, DbgType, Word
  <1>6. fl \in {{}, d.bps[i].flags \cup {"DISABLED"}, d.bps[i].flags \ {"DISABLED"}}
    OBVIOUS
  <1>7. Good(e)
    BY <1>2, <1>3, <1>5, <1>6, ChangeKeeps
  <1> QED
    BY <1>7 DEF e

LEMMA DeleteKeeps ==
  ASSUME NEW d, Good(d), NEW a
  PROVE  Good(debugDeleteBP(d, a))
  BY FindBp, UnpatchKeeps, ProgramAssumption DEF debugDeleteBP

LEMMA DisableKeeps ==
  ASSUME NEW d, Good(d), NEW a
  PROVE  Good(debugDisableBP(d, a))
  <1> DEFINE i == find_bp(d, a)
  <1>1. CASE i = NULL
    BY <1>1 DEF debugDisableBP
  <1>2. CASE i # NULL
    <2>1. i \in Slot /\ Active(d, i)
      BY <1>2, FindBp
    <2>2. [Unpatch(d, i) EXCEPT !.bps[i].flags = @ \cup {"DISABLED"}]
            = [Unpatch(d, i) EXCEPT !.bps[i].flags = d.bps[i].flags \cup {"DISABLED"}]
      BY <2>1 DEF Unpatch, Good, DbgType
    <2> QED
      BY <1>2, <2>1, <2>2, UnpatchKeeps DEF debugDisableBP
  <1> QED
    BY <1>1, <1>2

LEMMA EnableKeeps ==
  ASSUME NEW d, Good(d), NEW a \in Loc
  PROVE  Good(debugEnableBP(d, a))
  <1> DEFINE i == find_bp(d, a)
             e == debugEnableBP(d, a)
  <1>1. CASE i = NULL
    BY <1>1 DEF debugEnableBP
  <1>2. CASE i # NULL
    <2>1. i \in Slot /\ Active(d, i) /\ d.bps[i].addr = a
      BY <1>2, FindBp
    <2>2. e = [Patch(d, a, IsHw(d, i)) EXCEPT !.bps[i].flags = @ \ {"DISABLED"}]
      BY <1>2 DEF debugEnableBP
    <2> HIDE DEF i, e
    <2> DEFINE fl == d.bps[i].flags \ {"DISABLED"}
    <2>3. /\ e.bps = [d.bps EXCEPT ![i].flags = fl]
          /\ e.mem = IF IsHw(d, i) THEN d.mem ELSE [d.mem EXCEPT ![a] = "BREAK"]
          /\ e.iba = IF IsHw(d, i) THEN a ELSE d.iba
          /\ e \in [bps : {e.bps}, mem : {e.mem}, iba : {e.iba}]
      BY <2>1, <2>2 DEF Patch, Good, DbgType
    <2>4. fl \in {{}, d.bps[i].flags \cup {"DISABLED"}, d.bps[i].flags \ {"DISABLED"}}
      OBVIOUS
    <2>5. fl \in SUBSET Flag /\ "ACTIVE" \in fl /\ "DISABLED" \notin fl
      BY <2>1 DEF Active, Good, DbgType, Breakpoint
    <2> HIDE DEF fl
    <2>6. e.bps \in [Slot -> Breakpoint]
      BY <2>1, <2>3, <2>5 DEF Good, DbgType, Breakpoint
    <2>7. e \in DbgType
      BY <2>3, <2>6 DEF Good, DbgType, Word
    <2>8. Good(e)
      BY <2>1, <2>3, <2>4, <2>5, <2>7, ChangeKeeps
    <2> QED
      BY <2>8 DEF e
  <1> QED
    BY <1>1, <1>2

\* The step link of a slot plays no part in the table.
LEMMA LinkKeeps ==
  ASSUME NEW d, Good(d), NEW i \in Slot, NEW j \in Slot \cup {NULL}
  PROVE  Good([d EXCEPT !.bps[i].step = j])
  <1> DEFINE e == [d EXCEPT !.bps[i].step = j]
  <1>1. /\ e.bps = [d.bps EXCEPT ![i].step = j] /\ e.mem = d.mem /\ e.iba = d.iba
        /\ e \in [bps : {e.bps}, mem : {e.mem}, iba : {e.iba}]
    BY DEF Good, DbgType
  <1> HIDE DEF e
  <1>2. e.bps \in [Slot -> Breakpoint]
    BY <1>1 DEF Good, DbgType, Breakpoint
  <1>3. e \in DbgType
    BY <1>1, <1>2 DEF Good, DbgType
  <1>4. \A k \in Slot : /\ e.bps[k].flags = d.bps[k].flags
                        /\ e.bps[k].addr = d.bps[k].addr
                        /\ e.bps[k].inst = d.bps[k].inst
    BY <1>1 DEF Good, DbgType, Breakpoint
  <1>5. \A k \in Slot : /\ Active(e, k) <=> Active(d, k)
                        /\ Enabled(e, k) <=> Enabled(d, k)
                        /\ IsHw(e, k) <=> IsHw(d, k)
    BY <1>4 DEF Active, Enabled, IsHw
  <1>6. OneBp(e) /\ InstOf(e) /\ OneHw(e)
    BY <1>4, <1>5 DEF Good, OneBp, InstOf, OneHw
  <1>7. TextOf(e) /\ IbaOf(e)
    BY <1>1, <1>4, <1>5 DEF Good, TextOf, IbaOf, SoftAt, HardAt
  <1>8. Good(e)
    BY <1>3, <1>6, <1>7 DEF Good
  <1> QED
    BY <1>8 DEF e

LEMMA ClearKeeps ==
  ASSUME NEW d, Good(d), NEW a
  PROVE  Good(debugClearException(d, a))
  <1>1. Good(debugDeleteBP(d, a))
    BY DeleteKeeps
  <1>2. \A b : Good(debugDeleteBP(debugDeleteBP(d, a), b))
    BY <1>1, DeleteKeeps
  <1> QED
    BY <1>1, <1>2 DEF debugClearException

\* The words step_generic puts a breakpoint on are in the text.
LEMMA StepTargets ==
  ASSUME NEW d, NEW a \in Loc \ {MaxLoc}
  PROVE  /\ a + 1 \in Loc /\ To[a] \in Loc
         /\ Decoded(d, a) \in {"link", "cond"} => a + 2 \in Loc
  <1>1. To[a] \in Loc /\ Op[a] \in Kind
    BY ProgramAssumption
  <1>2. a + 1 \in Loc
    <2>1. MaxLoc \in Nat
      BY ProgramAssumption
    <2> QED
      BY <2>1 DEF Loc
  <1>3. Op[a] = "link" => a + 2 \in Loc
    BY ProgramAssumption
  <1>4. Op[a] = "cond" => a + 2 \in Loc
    <2>1. Succ(a) \subseteq Loc
      BY ProgramAssumption
    <2> QED
      BY <2>1 DEF Succ
  <1> QED
    BY <1>1, <1>2, <1>3, <1>4 DEF Decoded

LEMMA PairKeeps ==
  ASSUME NEW d, Good(d), NEW t \in Thread, NEW a \in Loc, NEW b \in Loc
  PROVE  Good(StepPair(d, t, a, b))
  <1> DEFINE i == SetSlot(d, a, StepFlags)
             e == debugSetBP(d, a, StepFlags, t)
             j == SetSlot(e, b, StepFlags)
             f == debugSetBP(e, b, StepFlags, t)
             g == IF i # NULL THEN [f EXCEPT !.bps[i].step = j] ELSE f
  <1>1. StepFlags \in Asked
    BY DEF StepFlags, Asked
  <1>2. Good(e)
    BY <1>1, SetKeeps
  <1> HIDE DEF e
  <1>3. Good(f)
    BY <1>1, <1>2, SetKeeps
  <1>4. i \in Slot \cup {NULL} /\ j \in Slot \cup {NULL}
    BY SetSlotFree
  <1> HIDE DEF i, j, f
  <1>5. Good(g)
    BY <1>3, <1>4, LinkKeeps
  <1> HIDE DEF g
  <1>6. Good(IF j # NULL THEN [g EXCEPT !.bps[j].step = i] ELSE g)
    BY <1>4, <1>5, LinkKeeps
  <1> QED
    BY <1>6 DEF StepPair, i, j, e, f, g

LEMMA StepKeeps ==
  ASSUME NEW d, Good(d), NEW t \in Thread, epc[t] \in Loc \ {MaxLoc}, NEW skip
  PROVE  Good(step_generic(d, t, skip))
  <1> DEFINE a == epc[t]
             k == Decoded(d, a)
  <1>1. /\ a + 1 \in Loc /\ To[a] \in Loc
        /\ k \in {"link", "cond"} => a + 2 \in Loc
    BY StepTargets
  <1>2. StepFlags \in Asked
    BY DEF StepFlags, Asked
  <1>3. \A b \in Loc : Good(debugSetBP(d, b, StepFlags, t))
    BY <1>2, SetKeeps
  <1>4. CASE k = "link" /\ skip
    BY <1>1, <1>3, <1>4 DEF step_generic
  <1>5. CASE k = "cond" /\ To[a] # a + 2
    BY <1>1, <1>5, PairKeeps DEF step_generic
  <1>6. CASE k = "plain"
    BY <1>1, <1>3, <1>6 DEF step_generic
  <1>7. CASE ~(k = "link" /\ skip) /\ ~(k = "cond" /\ To[a] # a + 2) /\ k # "plain"
    BY <1>1, <1>3, <1>7 DEF step_generic
  <1> QED
    BY <1>4, <1>5, <1>6, <1>7

-----------------------------------------------------------------------------
LEMMA InvInit ==
  ASSUME Init
  PROVE  BpInv
  <1> USE DEF Init, NoBp, Idle
  <1>1. MaxBps \in Nat \ {0} /\ MaxLoc \in Nat \ {0} /\ NULL \notin Loc
    BY ProgramAssumption
  <1>2. 0 \in Loc \ {MaxLoc} /\ 0 \in Slot
    BY <1>1 DEF Loc, Slot
  <1>3. dbg \in DbgType
    BY <1>2 DEF DbgType, Breakpoint, Word
  <1>4. \A i \in Slot : ~Active(dbg, i) /\ ~Enabled(dbg, i)
    BY DEF Active, Enabled
  <1>5. OneBp(dbg) /\ OneHw(dbg) /\ InstOf(dbg)
    BY <1>4 DEF OneBp, OneHw, InstOf
  <1>6. TextOf(dbg) /\ IbaOf(dbg)
    BY <1>1, <1>4 DEF TextOf, IbaOf, SoftAt, HardAt
  <1>7. gdb \in GdbType /\ InCall
    BY <1>2, <1>3, <1>5, <1>6 DEF GdbType, Asked, InCall, Good
  <1> QED
    BY <1>2, <1>3, <1>5, <1>7 DEF BpInv

\* Outside of the GDB server's call a step may put any good table in place.
LEMMA GoodStep ==
  ASSUME BpInv, Good(dbg'), gdb.pc = "idle", gdb' = gdb, epc' \in [Thread -> Loc \ {MaxLoc}]
  PROVE  BpInv'
  BY DEF BpInv, InCall, Good

LEMMA InvChoose ==
  ASSUME BpInv, NEW a \in Loc, NEW fl \in Asked, GdbChoose(a, fl)
  PROVE  BpInv'
  <1>1. gdb.pc = "idle" /\ UNCHANGED <<dbg, epc>> /\ SetSlot(dbg, a, fl) \in Slot
    BY SetSlotFree DEF GdbChoose
  <1>2. gdb' = [pc |-> "save", addr |-> a, flags |-> fl, slot |-> SetSlot(dbg, a, fl)]
    BY DEF GdbChoose
  <1>3. gdb' \in GdbType
    BY <1>1, <1>2 DEF GdbType
  <1> QED
    BY <1>1, <1>2, <1>3 DEF BpInv, InCall

\* The slot that is saved, patched and published later is the one debugSetBP
\* fills at once.
LEMMA InvSave ==
  ASSUME BpInv, GdbSave
  PROVE  BpInv'
  <1> DEFINE i == gdb.slot
             a == gdb.addr
             hw == "HARDWARE" \in gdb.flags
  <1>1. /\ gdb.pc = "save" /\ i \in Slot /\ a \in Loc /\ gdb.flags \in Asked
        /\ Good(dbg) /\ i = SetSlot(dbg, a, gdb.flags) /\ i # NULL
    BY ProgramAssumption DEF GdbSave, BpInv, InCall, GdbType
  <1>2. /\ dbg' = [dbg EXCEPT !.bps[i] = [NoBp EXCEPT !.inst = dbg.mem[a]]]
        /\ gdb' = [gdb EXCEPT !.pc = "patch"] /\ epc' = epc
    BY DEF GdbSave
  <1>3. gdb' \in GdbType /\ gdb'.pc = "patch" /\ gdb'.addr = a
        /\ gdb'.flags = gdb.flags /\ gdb'.slot = i
    BY <1>2 DEF BpInv, GdbType
  <1>4. [NoBp EXCEPT !.inst = dbg.mem[a]] \in Breakpoint
    <2>1. 0 \in Loc /\ dbg.mem[a] \in Word
      BY <1>1, ProgramAssumption DEF Loc, BpInv, DbgType
    <2> QED
      BY <2>1 DEF NoBp, Breakpoint
  <1>5. dbg' \in DbgType
    BY <1>1, <1>2, <1>4 DEF BpInv, DbgType
  <1>6. dbg'.bps[i].flags = {} /\ \A j \in Slot : j # i => dbg'.bps[j] = dbg.bps[j]
    BY <1>1, <1>2 DEF NoBp, BpInv, DbgType
  <1>7. OneBp(dbg)' /\ InstOf(dbg)'
    BY <1>6 DEF BpInv, OneBp, InstOf, Active
  <1>8. Good(debugSetBP(dbg, a, gdb.flags, NULL))
    BY <1>1, SetKeeps
  <1>9. Published(Patch(dbg, gdb.addr, "HARDWARE" \in gdb.flags))'
          = debugSetBP(dbg, a, gdb.flags, NULL)
    <2>1. Published(Patch(dbg, gdb.addr, "HARDWARE" \in gdb.flags))'
            = [Patch(dbg', a, hw) EXCEPT !.bps[i].addr = a,
                                         !.bps[i].flags = {"ACTIVE"} \cup gdb.flags,
                                         !.bps[i].thid = NULL]
      BY <1>3 DEF Published, Patch
    <2>2. debugSetBP(dbg, a, gdb.flags, NULL)
            = Patch([dbg EXCEPT !.bps[i] = Filled(dbg, a, gdb.flags, NULL)], a, hw)
      BY <1>1 DEF debugSetBP
    <2> DEFINE n == [NoBp EXCEPT !.inst = dbg.mem[a]]
               full == Filled(dbg, a, gdb.flags, NULL)
               fl == {"ACTIVE"} \cup gdb.flags
               Record(x, y) == [addr |-> x, inst |-> dbg.mem[a], flags |-> y,
                                thid |-> NULL, step |-> NULL]
    <2>3. [n EXCEPT !.addr = a, !.flags = fl, !.thid = NULL] = full
      <3>1. n = Record(0, {}) /\ full = Record(a, fl)
        BY DEF NoBp, Filled
      <3> HIDE DEF n, full, fl
      <3>2. [n EXCEPT !.addr = a] = Record(a, {})
        BY <3>1
      <3>3. [Record(a, {}) EXCEPT !.flags = fl] = Record(a, fl)
        OBVIOUS
      <3>4. [Record(a, fl) EXCEPT !.thid = NULL] = Record(a, fl)
        OBVIOUS
      <3>5. [n EXCEPT !.addr = a, !.flags = fl, !.thid = NULL]
              = [[[n EXCEPT !.addr = a] EXCEPT !.flags = fl] EXCEPT !.thid = NULL]
        OBVIOUS
      <3> HIDE DEF Record
      <3> QED
        BY <3>1, <3>2, <3>3, <3>4, <3>5
    <2> HIDE DEF i, a, hw, n, full, fl
    <2>4. dbg'.bps = [dbg.bps EXCEPT ![i] = n] /\ dbg'.mem = dbg.mem /\ dbg'.iba = dbg.iba
          /\ dbg' \in [bps : {dbg'.bps}, mem : {dbg.mem}, iba : {dbg.iba}]
      BY <1>1, <1>2 DEF BpInv, DbgType, n
    <2>5. [dbg'.bps EXCEPT ![i].addr = a, ![i].flags = fl, ![i].thid = NULL]
            = [dbg.bps EXCEPT ![i] = full]
      BY <1>1, <2>3, <2>4 DEF BpInv, DbgType
    <2>6. Published(Patch(dbg, gdb.addr, "HARDWARE" \in gdb.flags))'
            = [Patch(dbg', a, hw) EXCEPT !.bps = [dbg.bps EXCEPT ![i] = full]]
      <3> DEFINE p == Patch(dbg', a, hw)
      <3>1. p.bps = dbg'.bps /\ p \in [bps : {p.bps}, mem : {p.mem}, iba : {p.iba}]
        BY <2>4 DEF Patch
      <3>2. Published(Patch(dbg, gdb.addr, "HARDWARE" \in gdb.flags))'
              = [p EXCEPT !.bps[i].addr = a, !.bps[i].flags = fl, !.bps[i].thid = NULL]
        BY <2>1 DEF fl
      <3> HIDE DEF p
      <3>3. [p EXCEPT !.bps[i].addr = a, !.bps[i].flags = fl, !.bps[i].thid = NULL]
              = [p EXCEPT !.bps = [dbg'.bps EXCEPT ![i].addr = a, ![i].flags = fl,
                                                   ![i].thid = NULL]]
        BY <3>1
      <3> QED
        BY <2>5, <3>2, <3>3 DEF p
    <2>7. debugSetBP(dbg, a, gdb.flags, NULL)
            = [Patch(dbg', a, hw) EXCEPT !.bps = [dbg.bps EXCEPT ![i] = full]]
      BY <2>2, <2>4 DEF Patch, BpInv, DbgType, full
    <2> QED
      BY <2>6, <2>7
  <1> QED
    BY <1>2, <1>3, <1>5, <1>7, <1>8, <1>9 DEF BpInv, InCall

LEMMA InvPatch ==
  ASSUME BpInv, GdbPatch
  PROVE  BpInv'
  <1> DEFINE hw == "HARDWARE" \in gdb.flags
  <1>1. /\ gdb.pc = "patch" /\ gdb.addr \in Loc /\ epc' = epc
        /\ dbg' = Patch(dbg, gdb.addr, hw) /\ gdb' = [gdb EXCEPT !.pc = "publish"]
    BY DEF GdbPatch, BpInv, GdbType
  <1>2. gdb' \in GdbType /\ gdb'.pc = "publish" /\ gdb'.addr = gdb.addr
        /\ gdb'.flags = gdb.flags /\ gdb'.slot = gdb.slot
    BY <1>1 DEF BpInv, GdbType
  <1> HIDE DEF hw
  <1>3. dbg' \in DbgType /\ dbg'.bps = dbg.bps
    BY <1>1 DEF BpInv, DbgType, Patch, Word
  <1>4. OneBp(dbg)' /\ InstOf(dbg)'
    BY <1>3 DEF BpInv, OneBp, InstOf, Active
  <1>5. Published(dbg)' = Published(Patch(dbg, gdb.addr, hw))
    BY <1>1, <1>2 DEF Published
  <1> QED
    BY <1>1, <1>2, <1>3, <1>4, <1>5 DEF BpInv, InCall, hw

LEMMA InvPublish ==
  ASSUME BpInv, GdbPublish
  PROVE  BpInv'
  <1>1. gdb.pc = "publish" /\ epc' = epc /\ gdb' = Idle /\ dbg' = Published(dbg)
    BY DEF GdbPublish, Published
  <1>2. Good(dbg')
    BY <1>1 DEF BpInv, InCall
  <1>3. 0 \in Loc /\ 0 \in Slot
    BY ProgramAssumption DEF Loc, Slot
  <1>4. gdb' \in GdbType /\ gdb'.pc = "idle"
    BY <1>1, <1>3 DEF GdbType, Idle, Asked
  <1> QED
    BY <1>1, <1>2, <1>4 DEF BpInv, InCall, Good

-----------------------------------------------------------------------------
\* The commands of the shell, which find no call of the GDB server under way.
LEMMA InvCommand ==
  ASSUME BpInv, ~Preempt, NEW a \in Loc, NEW fl \in Asked,
         bpset(a, fl) \/ bpdel(a) \/ bpdis(a) \/ bpena(a)
  PROVE  BpInv'
  <1>1. gdb.pc = "idle" /\ UNCHANGED <<epc, gdb>>
    BY DEF bpset, bpdel, bpdis, bpena, Quiet
  <1>2. Good(dbg) /\ NULL \in Thread \cup {NULL}
    BY <1>1 DEF BpInv, InCall
  <1>3. Good(dbg')
    BY <1>2, SetKeeps, DeleteKeeps, DisableKeeps, EnableKeeps DEF bpset, bpdel, bpdis, bpena
  <1>4. epc' \in [Thread -> Loc \ {MaxLoc}]
    BY <1>1 DEF BpInv
  <1> QED
    BY <1>1, <1>3, <1>4, GoodStep

\* A thread that runs, traps, is resumed and steps.
LEMMA InvThread ==
  ASSUME BpInv, ~Preempt, NEW t \in Thread,
         \/ debugBreakThread(t) \/ Execute(t) \/ Trap(t) \/ TrapReturn(t)
         \/ \E c \in Cont : exceptionResume(t, c)
  PROVE  BpInv'
  <1>1. gdb.pc = "idle" /\ gdb' = gdb
    BY DEF debugBreakThread, Execute, Trap, TrapReturn, exceptionResume, Quiet
  <1>2. Good(dbg)
    BY <1>1 DEF BpInv, InCall
  <1>3. epc[t] \in Loc \ {MaxLoc}
    BY DEF BpInv
  <1>4. Good(dbg') /\ epc' \in [Thread -> Loc \ {MaxLoc}]
    <2>1. CASE debugBreakThread(t)
      <3>1. {"ONESHOT"} \in Asked
        BY DEF Asked
      <3> QED
        BY <2>1, <3>1, <1>2, <1>3, SetKeeps DEF debugBreakThread, BpInv
    <2>2. CASE Execute(t)
      <3>1. Succ(epc[t]) \subseteq Loc \ {MaxLoc}
        BY <1>3, ProgramAssumption
      <3> QED
        BY <2>2, <3>1, <1>2 DEF Execute, BpInv
    <2>3. CASE Trap(t)
      BY <2>3, <1>2, ClearKeeps DEF Trap, BpInv
    <2>4. CASE TrapReturn(t)
      BY <2>4, <1>2, <1>3, StepKeeps DEF TrapReturn, BpInv
    <2>5. CASE \E c \in Cont : exceptionResume(t, c)
      BY <2>5, <1>2 DEF exceptionResume, BpInv
    <2> QED
      BY <2>1, <2>2, <2>3, <2>4, <2>5
  <1> QED
    BY <1>1, <1>4, GoodStep

LEMMA InvStep ==
  ASSUME BpInv, ~Preempt, [Next]_vars
  PROVE  BpInv'
  <1>1. BpLoc \subseteq Loc
    BY ProgramAssumption
  <1>2. BpFlags \subseteq Asked
    BY DEF BpFlags, Asked
  <1>3. ASSUME NEW a \in BpLoc, NEW fl \in BpFlags, bpset(a, fl)
        PROVE  BpInv'
    BY <1>1, <1>2, <1>3, InvCommand
  <1>4. ASSUME NEW a \in BpLoc, bpdel(a) \/ bpdis(a) \/ bpena(a)
        PROVE  BpInv'
    <2>1. {} \in Asked
      BY DEF Asked
    <2> QED
      BY <2>1, <1>1, <1>4, InvCommand
  <1>5. ASSUME NEW a \in BpLoc, NEW fl \in BpFlags, GdbChoose(a, fl)
        PROVE  BpInv'
    BY <1>1, <1>2, <1>5, InvChoose
  <1>6. CASE GdbSave \/ GdbPatch \/ GdbPublish
    BY <1>6, InvSave, InvPatch, InvPublish
  <1>7. ASSUME NEW t \in Thread,
               \/ debugBreakThread(t) \/ Execute(t) \/ Trap(t) \/ TrapReturn(t)
               \/ \E c \in Cont : exceptionResume(t, c)
        PROVE  BpInv'
    BY <1>7, InvThread
  <1>8. CASE UNCHANGED vars
    <2>1. UNCHANGED <<dbg, epc, gdb>>
      BY <1>8 DEF vars
    <2> QED
      BY <2>1 DEF BpInv, InCall, GdbType, Published
  <1> QED
    BY <1>3, <1>4, <1>5, <1>6, <1>7, <1>8 DEF Next

\* What the properties say of dbg is what Good says.
LEMMA GoodMatches ==
  ASSUME BpInv
  PROVE  TableMatches
  <1>1. gdb.pc = "idle" => Good(dbg)
    BY DEF BpInv, InCall
  <1>2. TextMatches
    BY <1>1 DEF TextMatches, Good, TextOf, SoftAt
  <1>3. HardwareMatches
    BY <1>1 DEF HardwareMatches, Good, IbaOf, OneHw, HardAt
  <1>4. OneBpPerWord
    BY DEF BpInv, OneBpPerWord, OneBp
  <1> QED
    BY <1>2, <1>3, <1>4 DEF TableMatches

\* If nothing runs inside of the GDB server's debugSetBP, the text holds BREAK just
\* where the table has an enabled breakpoint, the IBA register is that of the one
\* hardware breakpoint, and no word has two, whatever the debuggers and threads do.
\* (debugSetBP, debugDeleteBP, debugDisableBP, debugEnableBP, step_generic)
THEOREM TableKept ==
  ASSUME ~Preempt
  PROVE  Spec => []TableMatches
  <1>1. Init => BpInv
    BY InvInit
  <1>2. BpInv /\ [Next]_vars => BpInv'
    BY InvStep
  <1>3. BpInv => TableMatches
    BY GoodMatches
  <1> QED
    BY <1>1, <1>2, <1>3, PTL DEF Spec

\* On the same condition a breakpoint always holds the program's own word, so that
\* taking it out restores the program: what fails when another thread sets one
\* between the search and the write.  (debugSetBP)
THEOREM InstSaved ==
  ASSUME ~Preempt
  PROVE  Spec => []SavedInst
  <1>1. Init => BpInv
    BY InvInit
  <1>2. BpInv /\ [Next]_vars => BpInv'
    BY InvStep
  <1>3. BpInv => SavedInst
    BY DEF BpInv, SavedInst, InstOf
  <1> QED
    BY <1>1, <1>2, <1>3, PTL DEF Spec

-----------------------------------------------------------------------------
(* Where a good table stops a thread.                                      *)

LEMMA NothingStops ==
  ASSUME NEW d, Good(d), NEW a \in Loc, \A i \in Slot : Active(d, i) => d.bps[i].addr # a
  PROVE  ~Stops(d, a)
  BY DEF Good, TextOf, IbaOf, SoftAt, HardAt, Enabled, Stops

LEMMA NoFreeSlot ==
  ASSUME NEW d
  PROVE  find_freebp(d) = NULL <=> \A i \in Slot : Active(d, i)
  <1> DEFINE S == {i \in Slot : ~Active(d, i)}
  <1>1. S \in SUBSET Slot /\ find_freebp(d) = First(S)
    BY DEF find_freebp
  <1>2. S = {} <=> \A i \in Slot : Active(d, i)
    OBVIOUS
  <1> HIDE DEF S
  <1> QED
    BY <1>1, <1>2, FirstFinds

\* Deleting a breakpoint leaves none at its address, and adds none.
LEMMA DeleteGone ==
  ASSUME NEW d, Good(d), NEW a, NEW j \in Slot, Active(debugDeleteBP(d, a), j)
  PROVE  /\ Active(d, j) /\ debugDeleteBP(d, a).bps[j].addr = d.bps[j].addr
         /\ d.bps[j].addr # a
  <1> DEFINE i == find_bp(d, a)
             e == debugDeleteBP(d, a)
  <1>1. CASE i = NULL
    <2>1. e = d
      BY <1>1 DEF debugDeleteBP
    <2>2. \A k \in Slot : Active(d, k) => d.bps[k].addr # a
      BY <1>1, FirstFinds DEF find_bp
    <2> QED
      BY <2>1, <2>2
  <1>2. CASE i # NULL
    <2>1. i \in Slot /\ Active(d, i) /\ d.bps[i].addr = a
      BY <1>2, FindBp
    <2>2. e = [Unpatch(d, i) EXCEPT !.bps[i].flags = {}]
      BY <1>2 DEF debugDeleteBP
    <2> HIDE DEF i, e
    <2>3. e.bps = [d.bps EXCEPT ![i].flags = {}]
      BY <2>1, <2>2 DEF Unpatch, Good, DbgType
    <2>4. e.bps[i].flags = {} /\ \A k \in Slot : k # i => e.bps[k] = d.bps[k]
      BY <2>1, <2>3 DEF Good, DbgType, Breakpoint
    <2>5. Active(e, j)
      BY DEF e
    <2>6. j # i /\ e.bps[j] = d.bps[j]
      BY <2>4, <2>5 DEF Active
    <2>7. Active(d, j) /\ e.bps[j].addr = d.bps[j].addr
      BY <2>5, <2>6 DEF Active
    <2>8. d.bps[j].addr # a
      BY <2>1, <2>6, <2>7 DEF Good, OneBp
    <2> QED
      BY <2>7, <2>8 DEF e
  <1> QED
    BY <1>1, <1>2

\* A trap at an enabled one-shot breakpoint takes it out.
LEMMA ClearStops ==
  ASSUME NEW d, Good(d), NEW a \in Loc, Stops(d, a),
         find_bp(d, a) # NULL, "ONESHOT" \in d.bps[find_bp(d, a)].flags
  PROVE  ~Stops(debugClearException(d, a), a)
  <1> DEFINE i == find_bp(d, a)
             e == debugDeleteBP(d, a)
             c == debugClearException(d, a)
  <1>1. i \in Slot /\ Active(d, i) /\ d.bps[i].addr = a
    BY FindBp
  <1>2. Enabled(d, i)
    <2>1. PICK k \in Slot : Enabled(d, k) /\ d.bps[k].addr = a
      BY DEF Stops, Good, TextOf, IbaOf, SoftAt, HardAt
    <2>2. k = i
      BY <2>1, <1>1 DEF Good, OneBp, Enabled
    <2> QED
      BY <2>1, <2>2
  <1>3. Good(e) /\ Good(c)
    BY DeleteKeeps, ClearKeeps
  <1>4. c = e \/ \E b : c = debugDeleteBP(e, b)
    BY <1>2 DEF debugClearException
  <1>5. \A k \in Slot : Active(e, k) => e.bps[k].addr # a
    BY DeleteGone
  <1> HIDE DEF e
  <1>6. \A k \in Slot : Active(c, k) => c.bps[k].addr # a
    <2>1. CASE c = e
      BY <2>1, <1>5
    <2>2. ASSUME NEW b, c = debugDeleteBP(e, b)
          PROVE  \A k \in Slot : Active(c, k) => c.bps[k].addr # a
      BY <2>2, <1>3, <1>5, DeleteGone
    <2> QED
      BY <2>1, <2>2, <1>4
  <1> QED
    BY <1>3, <1>6, NothingStops

-----------------------------------------------------------------------------
(* Where step_generic stops a thread.                                      *)

\* A software breakpoint that debugSetBP is asked for is there afterwards, unless
\* the address has one or the table is full.
LEMMA SetStops ==
  ASSUME NEW d, Good(d), NEW a \in Loc, NEW t \in Thread \cup {NULL}
  PROVE  LET e == debugSetBP(d, a, StepFlags, t) IN
         \/ e = d /\ (find_bp(d, a) # NULL \/ find_freebp(d) = NULL)
         \/ /\ e.mem = [d.mem EXCEPT ![a] = "BREAK"] /\ e.iba = d.iba
            /\ \A b : b # a /\ find_bp(e, b) # NULL => find_bp(d, b) # NULL
  <1> DEFINE i == SetSlot(d, a, StepFlags)
             e == debugSetBP(d, a, StepFlags, t)
  <1>1. CASE i = NULL
    <2>1. e = d
      BY <1>1 DEF debugSetBP
    <2>2. find_bp(d, a) # NULL \/ find_freebp(d) = NULL
      BY <1>1 DEF SetSlot, StepFlags
    <2> QED
      BY <2>1, <2>2
  <1>2. CASE i # NULL
    <2>1. i \in Slot /\ "HARDWARE" \notin StepFlags
      BY <1>2, SetSlotFree DEF StepFlags
    <2>2. e = Patch([d EXCEPT !.bps[i] = Filled(d, a, StepFlags, t)], a,
                    "HARDWARE" \in StepFlags)
      BY <1>2 DEF debugSetBP
    <2> HIDE DEF i, e
    <2>3. /\ e.bps = [d.bps EXCEPT ![i] = Filled(d, a, StepFlags, t)]
          /\ e.mem = [d.mem EXCEPT ![a] = "BREAK"] /\ e.iba = d.iba
      BY <2>1, <2>2 DEF Patch, Good, DbgType
    <2>4. e.bps[i].addr = a /\ \A j \in Slot : j # i => e.bps[j] = d.bps[j]
      BY <2>1, <2>3 DEF Good, DbgType, Filled
    <2>5. ASSUME NEW b, b # a, find_bp(e, b) # NULL
          PROVE  find_bp(d, b) # NULL
      <3>1. PICK j \in Slot : Active(e, j) /\ e.bps[j].addr = b
        BY <2>5, FindBp
      <3>2. Active(d, j) /\ d.bps[j].addr = b
        BY <3>1, <2>4, <2>5 DEF Active
      <3> QED
        BY <3>2, FindBp, ProgramAssumption
    <2> QED
      BY <2>3, <2>5 DEF e
  <1> QED
    BY <1>1, <1>2

\* Linking two slots changes neither where the table stops a thread nor which
\* slots are free.
LEMMA LinkStops ==
  ASSUME NEW d, Good(d), NEW i \in Slot, NEW j \in Slot \cup {NULL}
  PROVE  LET e == [d EXCEPT !.bps[i].step = j] IN
         /\ e.mem = d.mem /\ e.iba = d.iba
         /\ \A k \in Slot : Active(e, k) <=> Active(d, k)
  <1> DEFINE e == [d EXCEPT !.bps[i].step = j]
  <1>1. e.bps = [d.bps EXCEPT ![i].step = j] /\ e.mem = d.mem /\ e.iba = d.iba
    BY DEF Good, DbgType
  <1> HIDE DEF e
  <1>2. \A k \in Slot : e.bps[k].flags = d.bps[k].flags
    BY <1>1 DEF Good, DbgType, Breakpoint
  <1> QED
    BY <1>1, <1>2 DEF e, Active

\* Both ways of a conditional branch.
LEMMA PairStops ==
  ASSUME NEW d, Good(d), NEW t \in Thread, NEW a \in Loc, NEW b \in Loc, a # b
  PROVE  LET e == StepPair(d, t, a, b) IN
         \/ find_freebp(e) = NULL
         \/ /\ Stops(e, a) \/ find_bp(d, a) # NULL
            /\ Stops(e, b) \/ find_bp(d, b) # NULL
  <1> DEFINE i == SetSlot(d, a, StepFlags)
             e == debugSetBP(d, a, StepFlags, t)
             j == SetSlot(e, b, StepFlags)
             f == debugSetBP(e, b, StepFlags, t)
             g == IF i # NULL THEN [f EXCEPT !.bps[i].step = j] ELSE f
             h == IF j # NULL THEN [g EXCEPT !.bps[j].step = i] ELSE g
  <1>1. StepFlags \in Asked
    BY DEF StepFlags, Asked
  <1>2. Good(e)
    BY <1>1, SetKeeps
  <1>3. \/ e = d /\ (find_bp(d, a) # NULL \/ find_freebp(d) = NULL)
        \/ /\ e.mem = [d.mem EXCEPT ![a] = "BREAK"] /\ e.iba = d.iba
           /\ find_bp(e, b) # NULL => find_bp(d, b) # NULL
    BY SetStops
  <1> HIDE DEF e
  <1>4. Good(f)
    BY <1>1, <1>2, SetKeeps
  <1>5. \/ f = e /\ (find_bp(e, b) # NULL \/ find_freebp(e) = NULL)
        \/ f.mem = [e.mem EXCEPT ![b] = "BREAK"] /\ f.iba = e.iba
    BY <1>2, SetStops
  <1>6. i \in Slot \cup {NULL} /\ j \in Slot \cup {NULL}
    BY SetSlotFree
  <1>7. find_freebp(e) = NULL => f = e
    <2>1. find_freebp(e) = NULL => j = NULL
      BY DEF SetSlot
    <2> QED
      BY <2>1 DEF debugSetBP
  <1> HIDE DEF i, j, f
  <1>8. Good(g) /\ g.mem = f.mem /\ g.iba = f.iba /\ \A k \in Slot : Active(g, k) <=> Active(f, k)
    BY <1>4, <1>6, LinkKeeps, LinkStops
  <1> HIDE DEF g
  <1>9. h.mem = g.mem /\ h.iba = g.iba /\ \A k \in Slot : Active(h, k) <=> Active(g, k)
    BY <1>6, <1>8, LinkStops
  <1>10. StepPair(d, t, a, b) = h
    BY DEF StepPair, i, j, e, f, g
  <1> HIDE DEF h
  <1>11. find_freebp(f) = NULL => find_freebp(h) = NULL
    BY <1>8, <1>9, NoFreeSlot
  <1>12. \A x \in Loc : Stops(f, x) => Stops(h, x)
    BY <1>8, <1>9 DEF Stops
  <1>13. Stops(e, a) => Stops(f, a)
    BY <1>2, <1>5 DEF Stops, Good, DbgType
  <1>14. Stops(e, a) \/ find_bp(d, a) # NULL \/ find_freebp(f) = NULL
    BY <1>3, <1>7 DEF Stops, Good, DbgType
  <1>15. Stops(f, b) \/ find_bp(d, b) # NULL \/ find_freebp(f) = NULL
    BY <1>2, <1>3, <1>5, <1>7 DEF Stops, Good, DbgType
  <1> QED
    BY <1>10, <1>11, <1>12, <1>13, <1>14, <1>15

LEMMA StepGenericStops ==
  ASSUME NEW d, Good(d), NEW t \in Thread, epc[t] \in Loc \ {MaxLoc}
  PROVE  LET e == step_generic(d, t, FALSE) IN
         \/ TrapAt(e, epc[t]) # NULL
         \/ find_freebp(e) = NULL
         \/ \A a \in Succ(epc[t]) : Stops(e, a) \/ find_bp(d, a) # NULL
  <1> DEFINE a == epc[t]
             k == Decoded(d, a)
             e == step_generic(d, t, FALSE)
  <1>1. /\ a + 1 \in Loc /\ To[a] \in Loc /\ Op[a] \in Kind /\ a \in Loc
        /\ k \in {"link", "cond"} => a + 2 \in Loc
    BY StepTargets, ProgramAssumption
  <1>2. ASSUME NEW b \in Loc
        PROVE  LET f == debugSetBP(d, b, StepFlags, t) IN
               /\ Stops(f, b) \/ find_bp(d, b) # NULL \/ find_freebp(f) = NULL
               /\ Stops(d, a) => Stops(f, a)
    <2> DEFINE f == debugSetBP(d, b, StepFlags, t)
    <2>1. \/ f = d /\ (find_bp(d, b) # NULL \/ find_freebp(d) = NULL)
          \/ f.mem = [d.mem EXCEPT ![b] = "BREAK"] /\ f.iba = d.iba
      BY SetStops
    <2> HIDE DEF f
    <2>2. (Stops(f, b) \/ find_bp(d, b) # NULL \/ find_freebp(f) = NULL)
      BY <2>1 DEF Stops, Good, DbgType
    <2>3. Stops(d, a) => Stops(f, a)
      BY <1>1, <2>1 DEF Stops, Good, DbgType
    <2> QED
      BY <2>2, <2>3 DEF f
  <1>3. CASE d.mem[a] = "BREAK"
    <2>1. k = "plain" /\ Stops(d, a)
      BY <1>3 DEF Decoded, Stops
    <2>2. e = debugSetBP(d, a + 1, StepFlags, t)
      BY <2>1 DEF step_generic
    <2>3. Stops(e, a)
      BY <1>1, <1>2, <2>1, <2>2
    <2>4. TrapAt(e, a) = a /\ a # NULL
      BY <1>1, <2>3, ProgramAssumption DEF TrapAt
    <2> QED
      BY <2>4
  <1>4. CASE d.mem[a] # "BREAK"
    <2>1. k = Op[a]
      BY <1>4 DEF Decoded
    <2>2. CASE k = "plain"
      <3>1. e = debugSetBP(d, a + 1, StepFlags, t) /\ Succ(a) = {a + 1}
        BY <2>1, <2>2 DEF step_generic, Succ
      <3> QED
        BY <1>1, <1>2, <3>1
    <2>3. CASE k = "cond" /\ To[a] # a + 2
      <3>1. e = StepPair(d, t, To[a], a + 2) /\ Succ(a) = {To[a], a + 2}
        BY <2>1, <2>3 DEF step_generic, Succ
      <3>2. a + 2 \in Loc
        BY <1>1, <2>3
      <3> QED
        BY <1>1, <2>3, <3>1, <3>2, PairStops
    <2>4. CASE k # "plain" /\ ~(k = "cond" /\ To[a] # a + 2)
      <3>1. e = debugSetBP(d, To[a], StepFlags, t)
        BY <2>4 DEF step_generic
      <3>2. Succ(a) = {To[a]}
        BY <1>1, <2>1, <2>4 DEF Succ, Kind
      <3> QED
        BY <1>1, <1>2, <3>1, <3>2
    <2> QED
      BY <2>2, <2>3, <2>4
  <1> QED
    BY <1>3, <1>4

-----------------------------------------------------------------------------
\* On the same condition a thread that is resumed to step cannot run off: it has a
\* breakpoint at, or at every instruction after, the one it stands at, unless the
\* table is full or a breakpoint there was disabled, whatever the program is and
\* whatever else is set.  (step_generic, psplinkTrap)
THEOREM StepsStop ==
  ASSUME ~Preempt
  PROVE  Spec => StepStops
  <1> DEFINE A == \A t \in Thread :
                    TrapReturn(t) /\ run[t] = "STEP" =>
                      \/ TrapAt(dbg', epc[t]) # NULL
                      \/ find_freebp(dbg') = NULL
                      \/ \A a \in Succ(epc[t]) : \/ Stops(dbg', a)
                                                 \/ find_bp(dbg, a) # NULL
  <1>1. Init => BpInv
    BY InvInit
  <1>2. BpInv /\ [Next]_vars => BpInv'
    BY InvStep
  <1>3. BpInv => A
    <2>1. SUFFICES ASSUME BpInv, NEW t \in Thread, TrapReturn(t), run[t] = "STEP"
                   PROVE  \/ TrapAt(dbg', epc[t]) # NULL
                          \/ find_freebp(dbg') = NULL
                          \/ \A a \in Succ(epc[t]) : \/ Stops(dbg', a)
                                                     \/ find_bp(dbg, a) # NULL
      OBVIOUS
    <2>2. Good(dbg) /\ epc[t] \in Loc \ {MaxLoc}
      BY <2>1 DEF TrapReturn, Quiet, BpInv, InCall
    <2>3. dbg' = step_generic(dbg, t, FALSE)
      BY <2>1 DEF TrapReturn
    <2> QED
      BY <2>2, <2>3, StepGenericStops
  <1> HIDE DEF A
  <1>4. Spec => [][A]_vars
    BY <1>1, <1>2, <1>3, PTL DEF Spec
  <1> QED
    BY <1>4 DEF A, StepStops

\* On the same condition a one-shot breakpoint stops a thread once: the trap takes
\* it out of the text or the register, with whatever its step link leads to.
\* (debugClearException, debugDeleteBP)
THEOREM OneshotsGone ==
  ASSUME ~Preempt
  PROVE  Spec => OneshotGone
  <1> DEFINE A == \A t \in Thread :
                    LET a == TrapAt(dbg, epc[t])
                        i == find_bp(dbg, a)
                    IN  Trap(t) /\ i # NULL /\ "ONESHOT" \in dbg.bps[i].flags
                          => ~Stops(dbg', a)
  <1>1. Init => BpInv
    BY InvInit
  <1>2. BpInv /\ [Next]_vars => BpInv'
    BY InvStep
  <1>3. BpInv => A
    <2> SUFFICES ASSUME BpInv, NEW t \in Thread, Trap(t),
                        find_bp(dbg, TrapAt(dbg, epc[t])) # NULL,
                        "ONESHOT" \in dbg.bps[find_bp(dbg, TrapAt(dbg, epc[t]))].flags
                 PROVE  ~Stops(dbg', TrapAt(dbg, epc[t]))
      OBVIOUS
    <2> DEFINE a == TrapAt(dbg, epc[t])
    <2>1. Good(dbg) /\ epc[t] \in Loc \ {MaxLoc}
      BY DEF Trap, Quiet, BpInv, InCall
    <2>2. a # NULL /\ dbg' = debugClearException(dbg, a)
      BY DEF Trap
    <2>3. a \in Loc /\ Stops(dbg, a)
      BY <2>1, <2>2, StepTargets DEF TrapAt
    <2> QED
      BY <2>1, <2>2, <2>3, ClearStops
  <1> HIDE DEF A
  <1>4. Spec => [][A]_vars
    BY <1>1, <1>2, <1>3, PTL DEF Spec
  <1> QED
    BY <1>4 DEF A, OneshotGone
=============================================================================

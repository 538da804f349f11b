---------------------------- MODULE Breakpoints ----------------------------
(***************************************************************************)
(* The breakpoint table of psplink/debug.c and the threads it stops.       *)
(*                                                                         *)
(* A software breakpoint overwrites a word of the program with BREAK and   *)
(* keeps the word in its slot of g_bps; the single hardware breakpoint     *)
(* loads the IBA register.  The shell (bpset, bpdel, bpdis, bpena, bpth,   *)
(* exresume, step, skip) and the GDB server (Z0, Z1, z0, z1, c, s) change  *)
(* the table, and so does a program thread that hits a breakpoint or is    *)
(* stepped.                                                                *)
(*                                                                         *)
(* debugDeleteBP, debugDisableBP, debugEnableBP and debugBreakThread       *)
(* disable interrupts, a trapping thread runs with interrupts off, and the *)
(* shell (priority 8) outranks the GDB server (priority 15): each is one   *)
(* step.  debugSetBP itself disables nothing, so a call of the GDB server  *)
(* is four steps.                                                          *)
(*                                                                         *)
(* An address is a word index; addresses that differ in their top nibble   *)
(* name the same word (find_bp masks it off) and are not told apart.       *)
(***************************************************************************)
EXTENDS Integers, FiniteSets

CONSTANTS MaxBps,   \* DEBUG_MAX_BPS
          MaxLoc,   \* bound: last word of the program text
          Op, To,   \* the program: kind of each instruction and branch target
          BpLoc,    \* bound: the addresses the debuggers ask for
          Thread,   \* threads of the debugged program
          Hardware, \* TRUE: the debuggers may ask for the hardware breakpoint
          Preempt,  \* TRUE: another thread may run while the GDB server is
                    \* inside of debugSetBP
          NULL

Loc  == 0..MaxLoc
Slot == 0..(MaxBps - 1)

\* "plain" falls through; the others have a delay slot: "cond" a conditional
\* branch, "jump" J and JR, "link" JAL and JALR.
Kind == {"plain", "cond", "jump", "link"}
Succ(a) == CASE Op[a] = "plain" -> {a + 1}
             [] Op[a] = "cond"  -> {To[a], a + 2}
             [] OTHER           -> {To[a]}

\* The text is closed, and its last word is a delay slot.
ASSUME ProgramAssumption ==
  /\ MaxBps \in Nat \ {0}
  /\ MaxLoc \in Nat \ {0}
  /\ Op \in [Loc -> Kind]
  /\ To \in [Loc -> Loc]
  /\ \A a \in Loc \ {MaxLoc} :
       /\ Succ(a) \subseteq Loc \ {MaxLoc}
       /\ Op[a] = "link" => a + 2 \in Loc
  /\ BpLoc \subseteq Loc
  /\ Hardware \in BOOLEAN
  /\ Preempt \in BOOLEAN
  /\ NULL \notin Slot \cup Loc \cup Thread

Flag == {"ACTIVE", "ONESHOT", "HARDWARE", "DISABLED", "STEP"}
Word == {"inst", "BREAK"}     \* the program's own word, or SW_BREAK_INST
Cont == {"CONTINUE", "STEP", "SKIP"}

\* struct Breakpoint; the slot after memset(pBp, 0, ...).
Breakpoint == [addr : Loc, inst : Word, flags : SUBSET Flag,
               thid : Thread \cup {NULL}, step : Slot \cup {NULL}]
NoBp == [addr |-> 0, inst |-> "inst", flags |-> {}, thid |-> NULL, step |-> NULL]

VARIABLES
  dbg,   \* [bps : g_bps, mem : the program text, iba : the IBA register]
  epc,   \* thread -> address of its next instruction
  run,   \* thread -> "run", "halt" (asleep in debugHandleException), or how
         \* it was resumed, between the wake-up and the end of psplinkTrap
  gdb    \* the call of debugSetBP the GDB server is in: its next step and locals

vars == <<dbg, epc, run, gdb>>

Idle == [pc |-> "idle", addr |-> 0, flags |-> {}, slot |-> 0]

Init ==
  /\ dbg = [bps |-> [i \in Slot |-> NoBp], mem |-> [a \in Loc |-> "inst"],
            iba |-> NULL]
  /\ epc = [t \in Thread |-> 0]
  /\ run = [t \in Thread |-> "run"]
  /\ gdb = Idle

Quiet == Preempt \/ gdb.pc = "idle"

-----------------------------------------------------------------------------
Active(d, i)   == "ACTIVE" \in d.bps[i].flags
IsHw(d, i)     == "HARDWARE" \in d.bps[i].flags
Enabled(d, i)  == Active(d, i) /\ "DISABLED" \notin d.bps[i].flags

\* The first slot of a set: the three searches run through g_bps upwards.
First(S) == IF S = {} THEN NULL ELSE CHOOSE i \in S : \A j \in S : i <= j

find_bp(d, a)  == First({i \in Slot : Active(d, i) /\ d.bps[i].addr = a})
find_hwbp(d)   == First({i \in Slot : Active(d, i) /\ IsHw(d, i)})

find_freebp(d) == First({i \in Slot : ~Active(d, i)})

\* Writing BREAK, or loading the hardware register, for a breakpoint at a.
Patch(d, a, hw) ==
  IF hw THEN [d EXCEPT !.iba = a] ELSE [d EXCEPT !.mem[a] = "BREAK"]

\* Undoing it: the saved word goes back, or the register is cleared.
Unpatch(d, i) ==
  IF IsHw(d, i) THEN [d EXCEPT !.iba = NULL]
                ELSE [d EXCEPT !.mem[d.bps[i].addr] = d.bps[i].inst]

SetSlotAnyHw(d, a, fl) ==                            \* mutant of SetSlot
  IF find_bp(d, a) # NULL THEN NULL ELSE find_freebp(d)

\* The slot debugSetBP would fill, NULL when it refuses.
SetSlot(d, a, fl) ==
  IF find_bp(d, a) # NULL \/ ("HARDWARE" \in fl /\ find_hwbp(d) # NULL)
    THEN NULL ELSE find_freebp(d)

Filled(d, a, fl, t) ==
  [addr |-> a, inst |-> d.mem[a], flags |-> {"ACTIVE"} \cup fl, thid |-> t,
   step |-> NULL]

\* debugSetBP run without interruption.
debugSetBP(d, a, fl, t) ==
  LET i == SetSlot(d, a, fl)
  IN  IF i = NULL THEN d
      ELSE Patch([d EXCEPT !.bps[i] = Filled(d, a, fl, t)], a, "HARDWARE" \in fl)

\* The slot keeps its fields, the step link included.
debugDeleteBP(d, a) ==
  LET i == find_bp(d, a)
  IN  IF i = NULL THEN d ELSE [Unpatch(d, i) EXCEPT !.bps[i].flags = {}]

debugDisableBP(d, a) ==
  LET i == find_bp(d, a)
  IN  IF i = NULL THEN d
      ELSE [Unpatch(d, i) EXCEPT !.bps[i].flags = @ \cup {"DISABLED"}]

EnableFlagOnly(d, a) ==                              \* mutant of debugEnableBP
  LET i == find_bp(d, a)
  IN  IF i = NULL THEN d
      ELSE [d EXCEPT !.bps[i].flags = @ \ {"DISABLED"}]

debugEnableBP(d, a) ==
  LET i == find_bp(d, a)
  IN  IF i = NULL THEN d
      ELSE [Patch(d, a, IsHw(d, i)) EXCEPT !.bps[i].flags = @ \ {"DISABLED"}]

-----------------------------------------------------------------------------
(* The commands of the shell and the packets of the GDB server that are    *)
(* one step.  bpset takes the flags '1' and 'h'; Z0 and Z1 take no '1'.    *)

BpFlags == {fl \in SUBSET {"ONESHOT", "HARDWARE"} : "HARDWARE" \in fl => Hardware}

bpset(a, fl) ==
  /\ Quiet
  /\ dbg' = debugSetBP(dbg, a, fl, NULL)
  /\ UNCHANGED <<epc, run, gdb>>

bpdel(a) ==
  /\ Quiet
  /\ dbg' = debugDeleteBP(dbg, a)
  /\ UNCHANGED <<epc, run, gdb>>

bpdis(a) ==
  /\ Quiet
  /\ dbg' = debugDisableBP(dbg, a)
  /\ UNCHANGED <<epc, run, gdb>>

bpena(a) ==
  /\ Quiet
  /\ dbg' = debugEnableBP(dbg, a)
  /\ UNCHANGED <<epc, run, gdb>>

\* bpth, and usbgdb's break request: a one-shot breakpoint where the thread
\* stands.
debugBreakThread(t) ==
  /\ Quiet
  /\ run[t] = "run"
  /\ dbg' = debugSetBP(dbg, epc[t], {"ONESHOT"}, t)
  /\ UNCHANGED <<epc, run, gdb>>

\* exresume, step, skip; c and s of the GDB server.
exceptionResume(t, c) ==
  /\ Quiet
  /\ run[t] = "halt"
  /\ run' = [run EXCEPT ![t] = c]
  /\ UNCHANGED <<dbg, epc, gdb>>

-----------------------------------------------------------------------------
(* debugSetBP of the GDB server.                                           *)

\* The searches: nothing is written yet.
GdbChoose(a, fl) ==
  LET i == SetSlot(dbg, a, fl)
  IN  /\ gdb.pc = "idle"
      /\ i # NULL
      /\ gdb' = [pc |-> "save", addr |-> a, flags |-> fl, slot |-> i]
      /\ UNCHANGED <<dbg, epc, run>>

\* memset of the slot, inst = _lw(address).
GdbSave ==
  /\ gdb.pc = "save"
  /\ dbg' = [dbg EXCEPT !.bps[gdb.slot] = [NoBp EXCEPT !.inst = dbg.mem[gdb.addr]]]
  /\ gdb' = [gdb EXCEPT !.pc = "patch"]
  /\ UNCHANGED <<epc, run>>

GdbPatch ==
  /\ gdb.pc = "patch"
  /\ dbg' = Patch(dbg, gdb.addr, "HARDWARE" \in gdb.flags)
  /\ gdb' = [gdb EXCEPT !.pc = "publish"]
  /\ UNCHANGED <<epc, run>>

\* addr, flags and thid are filled in: the slot is in use from here on.
GdbPublish ==
  /\ gdb.pc = "publish"
  /\ dbg' = [dbg EXCEPT !.bps[gdb.slot].addr = gdb.addr,
                        !.bps[gdb.slot].flags = {"ACTIVE"} \cup gdb.flags,
                        !.bps[gdb.slot].thid = NULL]
  /\ gdb' = Idle
  /\ UNCHANGED <<epc, run>>

-----------------------------------------------------------------------------
(* A thread of the program.                                                *)

Stops(d, a) == d.mem[a] = "BREAK" \/ d.iba = a

\* Where executing the instruction at a stops: a itself, else its delay slot.
TrapAt(d, a) == IF Stops(d, a) THEN a
                ELSE IF Op[a] # "plain" /\ Stops(d, a + 1) THEN a + 1
                ELSE NULL

Execute(t) ==
  /\ Quiet
  /\ run[t] = "run"
  /\ TrapAt(dbg, epc[t]) = NULL
  /\ \E a \in Succ(epc[t]) : epc' = [epc EXCEPT ![t] = a]
  /\ UNCHANGED <<dbg, run, gdb>>

ClearNothing(d, a) == d                         \* mutant of debugClearException

\* debugClearException for a trap at address a: a one-shot breakpoint that was
\* hit is deleted, and with it whatever is at the address its step link holds.
debugClearException(d, a) ==
  LET i == find_bp(d, a)
      j == d.bps[i].step
      e == debugDeleteBP(d, a)
  IN  IF i = NULL \/ ~Enabled(d, i) \/ "ONESHOT" \notin d.bps[i].flags THEN d
      ELSE IF j = NULL THEN e
      ELSE debugDeleteBP(e, e.bps[j].addr)

\* psplinkTrap up to the sleep in debugHandleException.
Trap(t) ==
  LET a == TrapAt(dbg, epc[t])
  IN  /\ Quiet
      /\ run[t] = "run"
      /\ a # NULL
      /\ dbg' = debugClearException(dbg, a)
      /\ run' = [run EXCEPT ![t] = "halt"]
      /\ UNCHANGED <<epc, gdb>>

\* The word step_generic decodes is the one in memory: BREAK, where a
\* breakpoint is still set, decodes as an instruction that falls through.
Decoded(d, a) == IF d.mem[a] = "BREAK" THEN "plain" ELSE Op[a]

StepFlags == {"ONESHOT", "STEP"}

\* Both ways of a conditional branch, the two breakpoints linked to each other.
StepPair(d, t, a, b) ==
  LET i == SetSlot(d, a, StepFlags)
      e == debugSetBP(d, a, StepFlags, t)
      j == SetSlot(e, b, StepFlags)
      f == debugSetBP(e, b, StepFlags, t)
      g == IF i # NULL THEN [f EXCEPT !.bps[i].step = j] ELSE f
  IN  IF j # NULL THEN [g EXCEPT !.bps[j].step = i] ELSE g

StepTaken(d, t, skip) ==                            \* mutant of step_generic
  debugSetBP(d, IF Decoded(d, epc[t]) = "plain" THEN epc[t] + 1 ELSE To[epc[t]],
             StepFlags, t)

step_generic(d, t, skip) ==
  LET a == epc[t]
      k == Decoded(d, a)
  IN  CASE k = "link" /\ skip -> debugSetBP(d, a + 2, StepFlags, t)
        [] k = "cond" /\ To[a] # a + 2 -> StepPair(d, t, To[a], a + 2)
        [] k = "plain" -> debugSetBP(d, a + 1, StepFlags, t)
        [] OTHER -> debugSetBP(d, To[a], StepFlags, t)

\* The end of psplinkTrap, after the thread was resumed.
TrapReturn(t) ==
  /\ Quiet
  /\ run[t] \in Cont
  /\ dbg' = IF run[t] = "CONTINUE" THEN dbg
            ELSE step_generic(dbg, t, run[t] = "SKIP")
  /\ run' = [run EXCEPT ![t] = "run"]
  /\ UNCHANGED <<epc, gdb>>

-----------------------------------------------------------------------------
Next ==
  \/ \E a \in BpLoc :
       \/ \E fl \in BpFlags : bpset(a, fl)
       \/ \E fl \in BpFlags \ {{"ONESHOT"}, {"ONESHOT", "HARDWARE"}} : GdbChoose(a, fl)
       \/ bpdel(a) \/ bpdis(a) \/ bpena(a)
  \/ GdbSave \/ GdbPatch \/ GdbPublish
  \/ \E t \in Thread :
       \/ debugBreakThread(t) \/ Execute(t) \/ Trap(t) \/ TrapReturn(t)
       \/ \E c \in Cont : exceptionResume(t, c)

Spec == Init /\ [][Next]_vars

-----------------------------------------------------------------------------
\* Outside of debugSetBP, the text holds BREAK exactly at the enabled software
\* breakpoints: deleting or disabling one gives the program its word back, and
\* none is lost.  (debugSetBP, debugDeleteBP, debugDisableBP, debugEnableBP)
TextMatches ==
  gdb.pc = "idle" =>
    \A a \in Loc : dbg.mem[a] = "BREAK" <=>
      \E i \in Slot : Enabled(dbg, i) /\ ~IsHw(dbg, i) /\ dbg.bps[i].addr = a

\* The IBA register holds the address of the enabled hardware breakpoint, and
\* there is at most one hardware breakpoint.  (find_hwbp, debug_set_hwbreak)
HardwareMatches ==
  gdb.pc = "idle" =>
    /\ \A a \in Loc : dbg.iba = a <=>
         \E i \in Slot : Enabled(dbg, i) /\ IsHw(dbg, i) /\ dbg.bps[i].addr = a
    /\ \A i, j \in Slot : Active(dbg, i) /\ IsHw(dbg, i) /\ Active(dbg, j)
                            /\ IsHw(dbg, j) => i = j

\* No word has two breakpoints: find_bp always finds the one there is.
\* (debugSetBP's first test)
OneBpPerWord ==
  \A i, j \in Slot : Active(dbg, i) /\ Active(dbg, j)
                       /\ dbg.bps[i].addr = dbg.bps[j].addr => i = j

\* Text, IBA register and table stay in step.
TableMatches == TextMatches /\ HardwareMatches /\ OneBpPerWord

\* A thread resumed to step cannot run off: when it leaves psplinkTrap, the
\* instruction it is at, or every instruction it can be at after that one, has
\* a breakpoint, unless the table is full or the user disabled the breakpoint
\* that is there.  (step_generic)
StepStops ==
  [][\A t \in Thread :
       TrapReturn(t) /\ run[t] = "STEP" =>
         \/ TrapAt(dbg', epc[t]) # NULL
         \/ find_freebp(dbg') = NULL
         \/ \A a \in Succ(epc[t]) : \/ Stops(dbg', a)
                                    \/ find_bp(dbg, a) # NULL]_vars

\* A one-shot breakpoint does not stop a thread twice: after the trap nothing
\* stops the thread at that address again.  (debugClearException)
OneshotGone ==
  [][\A t \in Thread :
       LET a == TrapAt(dbg, epc[t])
           i == find_bp(dbg, a)
       IN  Trap(t) /\ i # NULL /\ "ONESHOT" \in dbg.bps[i].flags
             => ~Stops(dbg', a)]_vars

\* debug.h:41 calls inst the "Original instruction at addr": a breakpoint that
\* is in use never holds the BREAK of another one.  (debugSetBP)
SavedInst ==
  \A i \in Slot : Active(dbg, i) => dbg.bps[i].inst = "inst"
=============================================================================

--------------------------- MODULE MCBreakpoints ---------------------------
EXTENDS Breakpoints

\* 0: branch to 4; 2: call of 0; 4: jump to 0; 1, 3 and 5 are the delay slots.
MCOp == [a \in Loc |-> CASE a = 0 -> "cond" [] a = 2 -> "link"
                         [] a = 4 -> "jump" [] OTHER -> "plain"]
MCTo == [a \in Loc |-> IF a = 0 THEN 4 ELSE 0]
=============================================================================

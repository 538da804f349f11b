--------------------------- MODULE MCExceptions ---------------------------
EXTENDS Exceptions

CONSTANTS sh, t1, t2, h1, h2

\* Both debuggers look at t1, the second one at t2 as well.
MCMine == [h \in Handler |-> IF h = h1 THEN {t1} ELSE {t1, t2}]
\* One debugger looks at both threads.
MCMineOne == [h \in Handler |-> {t1, t2}]
=============================================================================

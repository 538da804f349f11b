---------------------------- MODULE MCAsyncChan ----------------------------
(* AsyncChan for TLC: threads, endpoints and byte values are interchangeable. *)
EXTENDS AsyncChan, TLC

Symmetry == Permutations(Thread) \cup Permutations(Endp) \cup Permutations(Byte)
=============================================================================

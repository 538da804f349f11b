------------------------------ MODULE MCHostFs ------------------------------
EXTENDS HostFs, TLC

\* Descriptors 0 to 2 are the PC program's own; the last one does not fit into
\* open_files.
MCFd == 0..6

Symmetry == Permutations(Thread) \cup Permutations(Handle) \cup Permutations(File)
=============================================================================

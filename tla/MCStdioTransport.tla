-------------------------- MODULE MCStdioTransport ---------------------------
EXTENDS StdioTransport, TLC

Symmetry ==
  Permutations(Procs) \cup Permutations(Reads) \cup Permutations(Writes)
=============================================================================

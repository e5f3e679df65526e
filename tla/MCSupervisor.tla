---------------------------- MODULE MCSupervisor ----------------------------
EXTENDS Tenure, TLC
Symmetry == Permutations(Senders) \cup Permutations(Streams)
=============================================================================

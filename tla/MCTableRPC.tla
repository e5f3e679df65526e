----------------------------- MODULE MCTableRPC -----------------------------
EXTENDS TableRPC, TLC
KeySymmetry == Permutations(Keys)
=============================================================================

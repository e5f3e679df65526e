----------------------------- MODULE MCDispatch -----------------------------
EXTENDS DigestService, TLC
CONSTANTS n0, n1
\* One digest without an ID.
MCDigestID == (n0 :> 0) @@ (n1 :> 1)
Symmetry == Permutations(Receivers) \cup Permutations(DigestSubs)
=============================================================================

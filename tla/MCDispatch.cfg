CONSTANTS
  StreamSubs = {m1}
  PacketSubs = {}
  DigestSubs = {d1, d2}
  Receivers = {r1, r2}
  None = None
  n0 = n0
  n1 = n1
  DigestNames = {n0, n1}
  DigestID <- MCDigestID
  AnyDigest = any
  ListIDs = {0, 1}
SPECIFICATION DigestSpec
INVARIANTS DispatchedOnceToAll DigestsServed
SYMMETRY Symmetry

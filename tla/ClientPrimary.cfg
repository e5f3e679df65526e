CONSTANTS
  Senders = {}
  Closers = {c1}
  Deadlines = {}
  Streams = {s1}
  QueueCap = 1
  None = None
  Waiters = {w1, w2}
  Users = {}
  Dialing = Dialing
SPECIFICATION ClientFairSpec
INVARIANTS NoMissedPrimary
PROPERTIES WaitersReturn

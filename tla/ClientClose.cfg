CONSTANTS
  Senders = {p1}
  Closers = {c1}
  Deadlines = {c1}
  Streams = {s1}
  QueueCap = 1
  None = None
  Waiters = {}
  Users = {u1}
  Dialing = Dialing
SPECIFICATION ClientFairSpec
INVARIANTS Released
PROPERTIES CloseReturns CallsReturn GraceEndsBackoff

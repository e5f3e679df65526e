CONSTANTS
  Senders = {p1, p2}
  Closers = {}
  Deadlines = {p1, p2}
  Streams = {s1, s2}
  QueueCap = 1
  None = None
SPECIFICATION TenureSpec
SYMMETRY Symmetry
INVARIANTS MastershipBacked
PROPERTIES SentInItsTenure

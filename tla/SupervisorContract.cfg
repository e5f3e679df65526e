CONSTANTS
  Senders = {p1}
  Closers = {c1, c2}
  Deadlines = {p1, c1}
  Streams = {s1}
  QueueCap = 1
  None = None
SPECIFICATION Spec
INVARIANTS IInv DrainedAtHalfClose
PROPERTIES Implements StoppedIsFinal

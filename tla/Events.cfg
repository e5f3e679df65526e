CONSTANTS
  Senders = {p1}
  Closers = {}
  Streams = {s1}
  QueueCap = 1
  Deadlines = {}
  None = None
  EventCap = 1
SPECIFICATION EventsFairSpec
INVARIANTS EventsTrackState
PROPERTIES EventsClose

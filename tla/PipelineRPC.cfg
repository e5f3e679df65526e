SPECIFICATION PipelineSpec
CONSTANTS
  SetCalls = {s1}
  GetCalls = {g1}
  Configs = {p1, p2}
  None = none
INVARIANTS FallbackJustified SetOutcomeTrue NotSetTrue
PROPERTY ForwardingKept

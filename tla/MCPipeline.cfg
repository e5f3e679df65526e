CONSTANTS
  Callers = {c1, c2}
  Pipe = Pipe
  Infos <- MCInfos
  Names = {"n1", "n2"}
  IDs = {1, 2}
  NoAlias = ""
  Edited = Edited
  Messages = {m1, m2, m3}
  Root = m1
  NilMessage = nil
SPECIFICATION PipelineSpec
INVARIANTS IndexFaithful GraphExact
PROPERTIES ValueSemantics
SYMMETRY Symmetry
CHECK_DEADLOCK FALSE

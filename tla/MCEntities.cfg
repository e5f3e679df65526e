SPECIFICATION EntitiesSpec
CONSTANTS
  f1 = f1
  f2 = f2
  p1 = p1
  Fields = {f1, f2}
  FieldID <- MCFieldID
  Params <- MCParams
  Unknown = unknown
  IDs = {0, 1, 2}
  Ports = {port1}
  MaxEgress = 1
  MaxReplicas = 1
  MaxBackups = 1
  MaxSize = 2
  MaxRate = 1
  NoIndex = NoIndex
  Default = Default
  Other = Other
  Absent = Absent
INVARIANTS BuiltWellFormed KeyOfBuilt ReplicasRoundTrip ResourcesExact

CONSTANTS
  Half = 3
  MaxInt = 31
  DefaultInitial = 2
  DefaultMax = 20
  MaxFails = 7
  ByteBits = 2
  MaxBytes = 3
  MaxWidth = 6
  Specs <- MCSpecs
  Structs <- MCStructs
  NewTypes <- MCNewTypes
  Headers <- MCHeaders
  Unions <- MCUnions
  Enums <- MCEnums
  Errors = {"m"}
  SerEnums <- MCSerEnums
  Values <- MCRegisterValues
  MaxDepth = 2
  PacketHeaders <- MCPacketHeaders
  NoHeader = NoHeader
  MetadataNames = {"n1", "n2", "n3"}
  MetadataBytes <- MCMetadataBytes
SPECIFICATION ValuesSpec
INVARIANTS OrderExact DelaySane GrowsToMax EncodingExact PrefixExact FieldExact SignedExact NormalizeExact PacketExact
PROPERTIES NeverWraps
CHECK_DEADLOCK FALSE

SPECIFICATION Spec
CONSTANTS
  NoType = NoType
  Null = Null
  PtrSize = 4
  Value = {"1", "2", "5"}
  Types <- MCTypes
  MaxCalls = 5
  Data <- MCData
  Programs <- MCPrograms
INVARIANTS
  TypeOK
  CachesExact
  AccessRight
  RoundTrip
  CleanIsImage
  FlagsKept
  OperandsKeepMeaning

SPECIFICATION FairSpec
CONSTANTS
  Object = {o1, o2, o3}
  Fields <- MCNext
  Offset <- MCOffset
  Address = {2, 4, 6, 8}
  Val = {1}
  Misfit = 9
  GlobalAddr = 2
  NoObject = NoObject
  MaxOps = 5
INVARIANTS
  TypeOK
  MapsAgree
  NothingHalfPut
PROPERTIES
  LinksAsMeant
  PutEnds

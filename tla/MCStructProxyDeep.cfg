SPECIFICATION Spec
CONSTANTS
  Object = {o1, o2, o3}
  Fields <- MCNext
  Offset = {0}
  Address = {2, 4, 6, 8}
  Val = {1, 3}
  Misfit = 9
  GlobalAddr = 2
  NoObject = NoObject
  MaxOps = 5
PROPERTY
  DeepUploads

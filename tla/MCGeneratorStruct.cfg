SPECIFICATION Spec
CONSTANTS
  NoType = NoType
  PtrSize = 4
  Types <- MCTypes
  Inputs <- MCInputs
  Blocked = {"log_msg"}
INVARIANTS
  TypeOK
  NotReentered
  PrintedOnce
  NeedsDefinedEarlier
  MentionsDefined
  EveryStructHasClass
  FieldsFound

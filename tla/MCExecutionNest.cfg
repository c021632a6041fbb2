SPECIFICATION Spec
CONSTANTS
  main = main
  f = f
  g = g
  ext = ext
  p = p
  NoFunction = NoFunction
  Function <- MCFunction
  Defined <- MCDefined
  Cell <- MCCell
  Register <- MCRegister
  Program <- MCProgram
  FlowList <- MCFlowList
  Written <- MCWritten
  Wide = FALSE
  MayNest = TRUE
  MaxDepth = 3
PROPERTY
  DebuggerInvokedFn
CHECK_DEADLOCK FALSE

SPECIFICATION FairSpec
CONSTANTS
  main = main
  f = f
  g = g
  ext = ext
  p = p
  NoFunction = NoFunction
  Function <- MCFunction
  Defined <- MCDefined
  Cell <- MCCell
  Register <- MCRegister
  Program <- MCProgram
  FlowList <- MCFlowList
  Written <- MCWritten
  Wide = FALSE
  MayNest = FALSE
  MaxDepth = 3
INVARIANTS
  TypeOK
  ResultsFromCallee
  StoppedAtCall
  MemoryHoldsAddresses
PROPERTIES
  CallsReachTarget
  ImplementsCallStack
  RunReturns

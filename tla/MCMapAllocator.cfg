SPECIFICATION FairSpec
CONSTANTS
  Host = {h1, h2, h3, h4}
  Node = {n1, n2, n3}
  Size <- MCSize
  StartAddr = 8
  VVSize = 16
INVARIANTS
  TypeOK
  TranslationExact
  BaseRoundTrip
  NoAbort
  BlocksAccounted
  FreshAfterReset
PROPERTIES
  ImplementsAddressSpace
  GlobalsStay
  LoopsEnd

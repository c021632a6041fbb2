SPECIFICATION Spec
CONSTANTS
  Name <- MCName
  Static <- MCStatic
  Mandatory <- MCMandatory
  StartsWith <- MCStartsWith
  Native <- MCNative
  Type <- MCType
  Referred <- MCReferred
  MaxGlobals = 3
INVARIANT
  EndBehindLast

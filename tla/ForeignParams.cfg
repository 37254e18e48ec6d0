SPECIFICATION Spec
CONSTANTS
  AsciiLower <- MCLower
  AsciiUpper <- MCUpper
  UnknownDerivedNames <- MCUnknownDerived
  UnparsableStrings <- MCUnparsable
  RereadStrings = {}
  OpaqueStrings <- MCOpaque
  NonKeyNames <- MCNonKey
  MaxSfvInteger = 9
  Keys <- MCKeys
  KeyAlg <- MCKeyAlg
  ForeignLength = 64
  InitialMessages <- ForeignParamsMessages
  Contents <- MCContents
  Requests <- MCNoRequests
  SignRequests <- MCSignRequests
  VerifyRequests <- MCVerifyRequests
  MaxTime = 1
  MaxSigned = 2
INVARIANTS
  VerifyReturns

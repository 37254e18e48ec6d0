SPECIFICATION Spec
CONSTANTS
  AsciiLower <- MCLower
  AsciiUpper <- MCUpper
  UnknownDerivedNames <- MCUnknownDerived
  UnparsableStrings <- MCUnparsable
  RereadStrings = {}
  OpaqueStrings <- MCOpaque
  NonKeyNames <- MCNonKey
  MaxSfvInteger = 9
  Keys <- LenKeys
  KeyAlg <- LenKeyAlg
  ForeignLength = 64
  InitialMessages <- LenInitialMessages
  Contents <- MCContents
  Requests <- MCNoRequests
  SignRequests <- LenSignRequests
  VerifyRequests <- LenVerifyRequests
  MaxTime = 1
  MaxSigned = 2
INVARIANTS
  VerifyReturns

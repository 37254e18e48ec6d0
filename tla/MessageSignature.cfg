SPECIFICATION Spec
CONSTANTS
  AsciiLower <- MCLower
  AsciiUpper <- MCUpper
  UnknownDerivedNames <- MCUnknownDerived
  UnparsableStrings <- MCUnparsable
  RereadStrings = {}
  OpaqueStrings <- MCOpaque
  NonKeyNames <- MCNonKey
  MaxSfvInteger = 9
  Keys <- AllKeys
  KeyAlg <- AllKeyAlg
  ForeignLength = 64
  InitialMessages <- AllInitialMessages
  Contents <- AllContents
  Requests <- ResRequests
  SignRequests <- AllSignRequests
  VerifyRequests <- AllVerifyRequests
  MaxTime = 1
  MaxSigned = 2
INVARIANTS
  TypeOK
  HeadersPaired
  AcceptedWasSigned
  AcceptedWasFresh
  IntactIsAccepted
PROPERTIES
  KeepsPromise
  SigningKeepsVerifiable

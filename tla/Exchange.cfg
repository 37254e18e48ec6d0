SPECIFICATION ExchangeSpec
\* Parties that have nothing more to send or to take stop.
CHECK_DEADLOCK FALSE
CONSTANTS
  AsciiLower <- MCNames
  AsciiUpper <- MCNames
  UnknownDerivedNames <- MCEmpty
  UnparsableStrings <- MCEmpty
  RereadStrings <- MCEmpty
  OpaqueStrings <- MCEmpty
  NonKeyNames <- MCEmpty
  MaxSfvInteger = 9
  Keys <- MCKeys
  KeyAlg <- MCKeyAlg
  ForeignLength = 64
  InitialMessages <- MCEmpty
  Contents <- MCEmpty
  Requests <- MCRequests
  SignRequests <- MCEmpty
  VerifyRequests <- MCEmpty
  MaxTime = 0
  MaxSigned = 3
  MaxTaken = 1
  NameOf <- MCNameOf
  KeyIdOf <- MCKeyIdOf
  WithNonce <- MCWithNonce
  Nonces <- MCNonces
  ClientKeys <- MCClientKeys
  ServerKeys <- MCServerKeys
  RequestContents <- MCRequestContents
  ResponseContents <- MCResponseContents
  Bodies <- MCBodies
INVARIANTS
  IntactPasses
PROPERTIES
  ExchangeIsAuthentic

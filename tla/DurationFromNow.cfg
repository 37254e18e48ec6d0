SPECIFICATION BuilderSpec
CONSTANTS
  AsciiLower <- NoMapping
  AsciiUpper <- NoMapping
  UnknownDerivedNames <- MCUnknownDerived
  UnparsableStrings <- MCUnparsable
  RereadStrings <- MCReread
  OpaqueStrings <- MCOpaque
  MaxSfvInteger = 900
  Coverings <- MCCoverings
  Strings <- MCStrings
  Algorithms = {"hmac-sha256"}
  KeyInfos <- MCKeyInfos
  RandomNonces <- MCRandomNonces
  Times <- MCTimes
  Durations <- MCDurations
  ForeignTexts <- MCForeignTexts
  MaxU64 = 1000
  Start = 100
  Pauses <- MCPauses
  MaxTime = 401
  MaxCalls = 3
\* A program that has made its calls stops.
CHECK_DEADLOCK FALSE
INVARIANTS DurationCountsFromNow

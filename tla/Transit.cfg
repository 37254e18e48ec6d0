SPECIFICATION TransitSpec
CONSTANTS
  AsciiLower <- MCLower
  AsciiUpper = {}
  UnknownDerivedNames = {}
  Requests <- MCRequests
  Ids <- MCIds
  Members <- MCMembers
  QueryEntries <- MCQueryEntries
  MaxHops = 3
INVARIANTS
  EqualLinesEqualMeaning
  EqualMeaningEqualLines

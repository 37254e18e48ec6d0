SPECIFICATION FairDigestSpec
CONSTANTS
  DigestFields <- MCDigestFields
  Frames <- MCFrames
  MaxBytes = 3
INVARIANTS
  DigestTypeOK
  VerifiedMatches
  VouchedVerifiesAgain
PROPERTIES
  PassedWhole
  DigestCallEnds

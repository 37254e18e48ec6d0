SPECIFICATION KeysSpec
CONSTANTS
  SecretSources <- MCSecretSources
  PublicSources <- MCPublicSources
  SharedSources <- MCSharedSources
  ForeignLetters <- MCForeignLetters
  MaxRing = 2
INVARIANTS
  NamedKeyFits
  

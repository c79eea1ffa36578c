SPECIFICATION FairSpec
CONSTANTS
  DefaultSteps = 4
  MaxFaults = 2
  Versions = {1, 2, 3, 4, 5}
  NextOp <- MCNextOp
INVARIANTS
  TypeOK
  FiredSuffices
  OneMinimal
  MinimizeReproduces
  NoSilentDrift
PROPERTY
  Terminates

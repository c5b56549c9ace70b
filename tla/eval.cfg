SPECIFICATION FairSpec
CONSTANTS
  f1 = f1
  f2 = f2
  real = real
  NoFake = NoFake
  Size = 2
  Fakes = {f1, f2}
  Missed <- MCMissed
  Attempts = 2
  MaxLate = 2
  MaxTroubled = 2
INVARIANTS
  RestoresWhatItSent
  VerdictSound
  NoSilentGap
  CleanedUp
PROPERTIES
  EndsClean

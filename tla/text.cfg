\* Any of the candidates at once; addresses below their threshold.
CONSTANTS
  LOCATION = 1
  PERSON = 2
  POLISH_ADDRESS = 3
  Candidates <- Spans
  Threshold <- Thresholds
  Text <- Letter
  FakesOf <- Fakes
  NameTypes = {1, 2}
  Length <- FakeLength
  Inflected <- Cases
  Distance <- Edits
  NoFake = NoFake
SPECIFICATION Spec
INVARIANT KeepsUnbeaten
INVARIANT NothingDropped
INVARIANT SentAsIntended
INVARIANT NoOriginalSent
INVARIANT RestoresExactly
INVARIANT RestoresInflected

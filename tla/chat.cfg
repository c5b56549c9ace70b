\* Two overlapping turns with a common name; everything may fail.
CONSTANTS
  Requests = {"r1", "r2"}
  Originals = {"jan", "ewa"}
  Fakes = {"f1", "f2", "f3"}
  Pii <- TwoTurns
  Prefixes = {"gpt-", "claude-", "ollama/", "o1-"}
  Keys = {"gpt-"}
  Faults = {"redis", "provider", "forget"}
  NoFake = NoFake
  NotSent = NotSent
SPECIFICATION FairSpec
INVARIANT TypeOK
INVARIANT FailClosed
INVARIANT PayloadsAgree
INVARIANT RestoresOwn
PROPERTY RequestsAnswered

\* Three overlapping calls and a message count, Redis errors and a restart.
CONSTANTS
  Tokens <- WordsOf
  Calls = {"c1", "c2", "c3"}
  Bumps = {"b1"}
  Readers = {}
  Summaries = {}
  Deletes = {}
  EntityOf <- TwoPeople
  NameTypes = {"PERSON"}
  Cases = {"nom", "gen"}
  Pool <- PoolOf
  Forced <- ForcedOf
  Faults = {"redis", "restart"}
  NoCall = NoCall
SPECIFICATION FairSpec
INVARIANT TypeOK
INVARIANT SerialPerSession
INVARIANT DistinctFakes
INVARIANT RestoresSameOriginal
PROPERTY Linearizable
PROPERTY CallsEnd

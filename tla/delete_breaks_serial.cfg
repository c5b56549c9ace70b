\* A delete discards the lock a call holds.
CONSTANTS
  Tokens <- WordsOf
  Calls = {"c1", "c2"}
  Bumps = {}
  Readers = {}
  Summaries = {}
  Deletes = {"d1"}
  EntityOf <- TwoPeople
  NameTypes = {"PERSON"}
  Cases = {"nom", "gen"}
  Pool <- PoolOf
  Forced <- ForcedOf
  Faults = {}
  NoCall = NoCall
SPECIFICATION Spec
INVARIANT SerialPerSession

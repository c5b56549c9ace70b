\* Three mentions: a full name, its surname, another full name.
CONSTANTS
  Tokens <- WordsOf
  Calls = {"c1", "c2", "c3"}
  Bumps = {}
  Readers = {}
  Summaries = {}
  Deletes = {}
  EntityOf <- ThreeMentions
  NameTypes = {"PERSON"}
  Cases = {"nom", "gen"}
  Pool <- PoolOf
  Forced <- ForcedOf
  Faults = {}
  NoCall = NoCall
SPECIFICATION Spec
INVARIANT DistinctFakes

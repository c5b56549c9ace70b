\* Every kind of request but DELETE and the message count, nothing fails.
CONSTANTS
  Tokens <- WordsOf
  Calls = {"c1", "c2", "c3"}
  Bumps = {}
  Readers = {"r1"}
  Summaries = {"s1"}
  Deletes = {}
  EntityOf <- PersonAndPesel
  NameTypes = {"PERSON"}
  Cases = {"nom", "gen"}
  Pool <- PoolOf
  Forced <- ForcedOf
  Faults = {}
  NoCall = NoCall
SPECIFICATION Spec
INVARIANT NoLostUpdate
INVARIANT SummaryCountsMappings
INVARIANT ManageableIfStored


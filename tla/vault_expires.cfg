\* Calls and a delete; the session expires once served.
CONSTANTS
  Tokens <- WordsOf
  Calls = {"c1", "c2"}
  Bumps = {}
  Readers = {"r1"}
  Summaries = {}
  Deletes = {"d1"}
  EntityOf <- PersonAndPesel
  NameTypes = {"PERSON"}
  Cases = {"nom", "gen"}
  Pool <- PoolOf
  Forced <- ForcedOf
  Faults = {"expiry"}
  NoCall = NoCall
SPECIFICATION FairSpec
INVARIANT LockExclusive
INVARIANT Reversible
INVARIANT AlwaysExpiring
PROPERTY SessionExpires

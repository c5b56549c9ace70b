SPECIFICATION Spec
CONSTANTS
  Documents <- Docs
  Entities <- AllEntities
  Spans <- AllSpans
  Types = {"PERSON", "LOCATION", "NIP"}
  Unmapped = "none"
  CanonicalOf <- Canonical
  NumericIds = {"NIP"}
  ExactTypes = {}
  Structured = {"NIP"}
  Width <- Widths
  LowerCase <- Lower
  Undiacritic <- Plain
  Endings = {"a", "i", "ego", "u"}
  Digits = {"123", "456", "789"}
  Separators = {" ", "-", "0"}
  Mask = "0"
  Likeness <- Alike
CHECK_DEADLOCK FALSE
INVARIANTS
  TypeOK
  Stable
  ExactWithinOverlap
  SumsAgree
  MissedIsLeaked

SPECIFICATION Spec
CONSTANTS
  Contents <- Written
  Scalar = Scalar
  Garbled = Garbled
  Missing = Missing
  Absent = Absent
  Types = {"NIP"}
  MaxTick = 3
  None = None
  NotReady = NotReady
  Failed = Failed
INVARIANTS
  TypeOK
  AnswerFresh
  AdmittedFindsModel

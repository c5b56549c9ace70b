------------------------- MODULE MCDetectionService -------------------------
(* The contents a threshold file may have for TLC, with one entity type: a  *)
(* document without a default, one with a default, values out of range and  *)
(* a value that is no number, a document that is no mapping, and garbage.   *)
EXTENDS DetectionService

File(default, score) == [default |-> default, thresholds |-> [type \in Types |-> score]]

Written ==
  {File(Absent, 40), File(50, Absent), File(50, 150), File(150, Garbled), Scalar, Garbled}

=============================================================================

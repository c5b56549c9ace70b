---------------------------- MODULE MCEvaluationRun ----------------------------
(* Two documents.  The gateway misses a value of each; it may draw the one *)
(* missed in the first as a fake, the other is no fake of its.             *)
EXTENDS EvaluationRun

CONSTANTS f1, f2, real

MCMissed == <<f1, real>>

=============================================================================

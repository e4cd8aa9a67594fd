-------------------------- MODULE MCEvaluationRuns --------------------------
(* TLC instances of the evaluation runs. *)
EXTENDS EvaluationRuns

CONSTANTS r1, q1, q2
=============================================================================

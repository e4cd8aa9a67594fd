-------------------------- MODULE MCConnectorRuns --------------------------
(* TLC instances of the connector runs. *)
EXTENDS ConnectorRuns, TLC

Symmetry == Permutations(Runs) \cup Permutations(Jobs)
=============================================================================

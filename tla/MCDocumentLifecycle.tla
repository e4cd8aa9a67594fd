------------------------ MODULE MCDocumentLifecycle ------------------------
(* TLC instances of the document lifecycle. *)
EXTENDS DocumentLifecycle, TLC

Symmetry == Permutations(Requests)
=============================================================================

-------------------------- MODULE MCConnectorItems --------------------------
(* TLC instances of the items of a connection. *)
EXTENDS ConnectorItems, TLC

CONSTANTS i1, i2, text, virus, secret

\* Both items start with the same content; the first changes to content that the
\* malware scan rejects, the second to content that the DLP scan rejects.
TwoItems == [i \in {i1, i2} |-> <<text, IF i = i1 THEN virus ELSE secret>>]

\* Documents are told apart by nothing but their identity.
Symmetry == Permutations(Docs)
=============================================================================

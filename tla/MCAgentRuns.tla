----------------------------- MODULE MCAgentRuns -----------------------------
(* TLC instances of the agent runs. *)
EXTENDS AgentRuns

CONSTANTS c1, c2
=============================================================================

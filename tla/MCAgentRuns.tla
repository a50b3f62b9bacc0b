---------------------------- MODULE MCAgentRuns ----------------------------
(* Model values for checking AgentRuns. *)
EXTENDS AgentRunsRefinement

CONSTANT Resetting    \* the overrides that carry a count, of zero

MCCounters == [o \in Resetting |-> 0]
=============================================================================

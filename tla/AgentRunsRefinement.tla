------------------------ MODULE AgentRunsRefinement ------------------------
(***************************************************************************)
(* AgentRuns implements RunRows: the tasks, the checkpoints and the        *)
(* closing writes add nothing a client could see in a row beyond what      *)
(* RunRows allows.                                                         *)
(***************************************************************************)
EXTENDS AgentRuns, FiniteSets

Rows == INSTANCE RunRows
    WITH MaxDrivers <- Cardinality(Tasks),
         drivers <- [r \in Runs |-> Cardinality(Active(r))]

(***************************************************************************)
(* A row changes only when a request turns it to "running", or when one of *)
(* the run's tasks ends, which every task does once: however many tasks    *)
(* drive a run, and whatever fails, each closes the row at most once.      *)
(***************************************************************************)
ImplementsRows == Rows!RowsSpec
=============================================================================

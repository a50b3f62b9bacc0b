--------------------------- MODULE MCCarefulRuns ---------------------------
(* Model values and symmetry for checking CarefulRuns. *)
EXTENDS CarefulRuns, TLC

\* Every override carries a count, of zero.
MCCounters == [o \in Overrides |-> 0]

Symmetry == Permutations(Runs) \cup Permutations(Tasks) \cup Permutations(Overrides)
=============================================================================

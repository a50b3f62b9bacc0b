------------------------------ MODULE MCVoting ------------------------------
(* Model values and symmetry for checking Voting. *)
EXTENDS Voting, TLC

\* Members and request slots are interchangeable; places are numbers.
Symmetry == Permutations(Users) \cup Permutations(Puts) \cup Permutations(Finals)
=============================================================================

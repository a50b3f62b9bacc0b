-------------------------- MODULE MCMissionScreens --------------------------
(* Sessions with two decisions on one run, with requests about one run that *)
(* are lost, with two runs, and with two votes.                             *)
EXTENDS MissionScreens

Session(screens, recommend, decide, vote, pull, fault) ==
    [screens |-> screens, recommend |-> recommend, decide |-> decide, vote |-> vote,
     pull |-> pull, fault |-> fault]

MCSessions ==
    {Session({"overview", "runs"}, 1, 2, 0, 0, 0),
     Session({"overview", "runs"}, 1, 1, 0, 1, 1),
     Session({"overview", "runs"}, 2, 0, 0, 0, 0),
     Session({"overview", "vote"}, 0, 0, 2, 1, 1)}
=============================================================================

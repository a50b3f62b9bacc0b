------------------------------ MODULE RunRows ------------------------------
(***************************************************************************)
(* The agent_runs rows as any client may see them, whatever the clients    *)
(* do: what AgentRuns amounts to when checkpoints, nodes and rankings are  *)
(* left out.  Kicking or resuming a run turns its row to "running" and     *)
(* adds a driver; each driver turns the row to one of the outcomes, or is  *)
(* lost, once.                                                             *)
(***************************************************************************)
EXTENDS Naturals

CONSTANTS
    Runs,
    MaxDrivers     \* bound on the drivers at work at one time

VARIABLES
    status,        \* run -> status of its row
    drivers        \* run -> background tasks at work on it

rows == <<status, drivers>>

Closed == {"interrupted", "succeeded", "failed"}

RowsInit ==
    /\ status = [r \in Runs |-> "absent"]
    /\ drivers = [r \in Runs |-> 0]

Drive(r) ==
    /\ drivers[r] < MaxDrivers
    /\ status' = [status EXCEPT ![r] = "running"]
    /\ drivers' = [drivers EXCEPT ![r] = @ + 1]

KickRun(r) == status[r] = "absent" /\ Drive(r)

ResumeRun(r) == status[r] # "absent" /\ Drive(r)

\* A driver closes its phase of the run.
CloseRun(r) ==
    /\ drivers[r] > 0
    /\ \E outcome \in Closed : status' = [status EXCEPT ![r] = outcome]
    /\ drivers' = [drivers EXCEPT ![r] = @ - 1]

\* Some drivers of some runs end without a trace: a crash, a failed write.
LoseDrivers ==
    /\ UNCHANGED status
    /\ drivers' \in [Runs -> 0..MaxDrivers]
    /\ \A r \in Runs : drivers'[r] <= drivers[r]

RowsNext ==
    \/ \E r \in Runs : KickRun(r) \/ ResumeRun(r) \/ CloseRun(r)
    \/ LoseDrivers

RowsSpec == RowsInit /\ [][RowsNext]_rows
=============================================================================

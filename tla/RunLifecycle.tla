---------------------------- MODULE RunLifecycle ----------------------------
(***************************************************************************)
(* What an agent run promises the members who watch it, abstracted from    *)
(* tasks, checkpoints and nodes: the life of its agent_runs row and of the *)
(* ranking batch it publishes.  A run waits for its owner any number of    *)
(* times, publishes at most one batch, and once it has succeeded or failed *)
(* it never changes again.                                                 *)
(***************************************************************************)
EXTENDS Naturals

CONSTANT Runs

VARIABLES
    status,      \* run -> status of its row
    batches      \* run -> number of ranking batches published for it

Init ==
    /\ status = [r \in Runs |-> "absent"]
    /\ batches = [r \in Runs |-> 0]

\* The only way a status changes.
Turn(r, from, to) ==
    /\ status[r] = from
    /\ status' = [status EXCEPT ![r] = to]
    /\ UNCHANGED batches

Start(r) == Turn(r, "absent", "running")
AskOwner(r) == Turn(r, "running", "interrupted")
OwnerDecides(r) == Turn(r, "interrupted", "running")
Succeed(r) == Turn(r, "running", "succeeded")

\* A run that fails has published nothing.
Fail(r) == batches[r] = 0 /\ Turn(r, "running", "failed")

Publish(r) ==
    /\ status[r] = "running"
    /\ batches[r] = 0
    /\ batches' = [batches EXCEPT ![r] = 1]
    /\ UNCHANGED status

Next == \E r \in Runs :
    \/ Start(r) \/ AskOwner(r) \/ OwnerDecides(r)
    \/ Succeed(r) \/ Fail(r) \/ Publish(r)

Spec == Init /\ [][Next]_<<status, batches>>
=============================================================================

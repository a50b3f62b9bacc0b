---------------------------- MODULE CarefulRuns ----------------------------
(***************************************************************************)
(* AgentRuns under the discipline the runs screen aims at: Approve and     *)
(* Reject are offered only for a run whose status is "interrupted"         *)
(* (runs.tsx:145), here with the status the server holds, not a cached     *)
(* one.  The routes do not enforce it; this module shows what every run    *)
(* promises to the clients that keep to it, crashes and failed writes      *)
(* included.                                                               *)
(***************************************************************************)
EXTENDS AgentRuns, FiniteSets

\* Mutant of ResumeAtGate: offered for every run that is not closed.
ResumeWhileOpen(r, say, t) ==
    status[r] \in {"running", "interrupted"} /\ Resume(r, say, t)

\* Approve / Reject on an interrupted run.
ResumeAtGate(r, say, t) == status[r] = "interrupted" /\ Resume(r, say, t)

CarefulNext ==
    \/ \E t \in Tasks : TaskStep(t) \/ TaskFault(t)
    \/ \E r \in Runs, t \in Tasks, o \in Asks : Kick(r, o, t)
    \/ \E r \in Runs, t \in Tasks, say \in Payloads : ResumeAtGate(r, say, t)
    \/ Crash

CarefulSpec == Init /\ [][CarefulNext]_vars

----------------------------------------------------------------------------
BatchesOf(r) == {i \in DOMAIN rankings : rankings[i].run = r}

(***************************************************************************)
(* Every run implements the abstract life cycle: its row follows the       *)
(* promised turns, terminal statuses are final, and at most one batch of   *)
(* rankings is published, so that rankings/latest is the view of one gate. *)
(***************************************************************************)
Lifecycle == INSTANCE RunLifecycle
    WITH batches <- [r \in Runs |-> Cardinality(BatchesOf(r))]

ImplementsLifecycle == Lifecycle!Spec

(***************************************************************************)
(* No two background tasks drive one run: the two halves of a run, before  *)
(* and after an owner's decision, never overlap, so neither checkpoints    *)
(* nor rows of one run are written by two tasks.                           *)
(***************************************************************************)
OneDriverPerRun == \A r \in Runs : Cardinality(Active(r)) <= 1

(***************************************************************************)
(* A decision taken on an interrupted run finds the thread waiting at the  *)
(* gate that asked for it, with the replan cap not reached: it is neither  *)
(* dropped by a thread that has moved on nor spent on another gate.        *)
(***************************************************************************)
DecisionFindsGate ==
    \A t \in Tasks : task[t].pc = "resuming" =>
        /\ thread[task[t].run] # NoThread
        /\ thread[task[t].run].next = "await_approval"
        /\ ~GateIsForced(thread[task[t].run])
=============================================================================

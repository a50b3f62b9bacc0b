----------------------------- MODULE DemoDriver -----------------------------
(***************************************************************************)
(* The command line demo (services/agents/vibebite_agents/run_demo.py):    *)
(* one process that opens an agent_runs row, drives the recommend graph    *)
(* from gate to gate with simulated decisions, writes a batch of rankings  *)
(* for every proposal and one for the result, and closes the row; with the *)
(* step rows the graph's wrapper records on the way (graph.py, _wrap).     *)
(*                                                                         *)
(* Every audit write may fail and is then swallowed; an exception of a     *)
(* node or of the checkpointer leaves the graph and the program.           *)
(***************************************************************************)
EXTENDS RecommendGraph, SequencesExt, FiniteSets

CONSTANTS
    First, Second,     \* the budgets of 1500 and 1000 cents it submits
    MaxFaults          \* a bound on the failures

ASSUME BudgetAssumption ==
    {First, Second} \subseteq Overrides \ DOMAIN Counters
ASSUME FaultsAssumption == MaxFaults \in Nat

VARIABLES
    mode,      \* the flags: none, --reject or --reject-twice
    db,        \* FALSE under --no-db
    pc,
    g,         \* the graph state, as last checkpointed
    run,       \* status of the agent_runs row, "none" without one
    steps,     \* the agent_run_steps rows, oldest first
    batches,   \* the batches of rankings rows, oldest first
    log,       \* iteration_log
    faults     \* how much of MaxFaults is used

vars == <<mode, db, pc, g, run, steps, batches, log, faults>>

Modes == {"auto", "reject", "reject_twice"}
Ended == {"done", "raised"}
Pcs == {"start", "driving", "asked", "resuming",
        "publishing", "closing", "failing"} \cup Ended
Step == [node : Nodes, status : {"succeeded", "failed"}]
Lists == Bars \cup {Empty, Unscored}
Entry == [iteration : Nat, proposed : Lists, decision : Decisions,
          overrides : Asks]

TypeOK ==
    /\ mode \in Modes /\ db \in BOOLEAN
    /\ pc \in Pcs
    /\ g \in GraphState
    /\ run \in {"none", "running", "succeeded", "failed"}
    /\ steps \in Seq(Step)
    /\ batches \in Seq(Lists \ {Empty})
    /\ log \in Seq(Entry)
    /\ faults \in 0..MaxFaults

Init ==
    /\ mode \in Modes /\ db \in BOOLEAN
    /\ pc = "start"
    /\ g = InitialGraph(NoOverride)
    /\ run = "none"
    /\ steps = << >> /\ batches = << >> /\ log = << >>
    /\ faults = 0

Fault == faults < MaxFaults /\ faults' = faults + 1

\* begin_run; without a row the demo goes on and records nothing.
Begin ==
    /\ pc = "start"
    /\ pc' = "driving"
    /\ \/ run' = (IF db THEN "running" ELSE "none") /\ UNCHANGED faults
       \/ db /\ Fault /\ UNCHANGED run
    /\ UNCHANGED <<mode, db, g, steps, batches, log>>

----------------------------------------------------------------------------
(* The graph. *)

\* _wrap records a row for the run, if there is one.
Record(node, status) ==
    \/ /\ steps' = IF run = "none" THEN steps
                   ELSE Append(steps, [node |-> node, status |-> status])
       /\ UNCHANGED faults
    \/ run # "none" /\ Fault /\ UNCHANGED steps

\* What the node that is due can return.
Outcomes ==
    CASE g.next = "parse_preferences" -> {ParsePreferences(g)}
      [] g.next = "search_places" -> {SearchPlaces(g, b) : b \in BOOLEAN}
      [] g.next = "normalize_places" -> {NormalizePlaces(g, b) : b \in BOOLEAN}
      [] g.next = "score_candidates" -> {ScoreCandidates(g)}
      [] g.next = "explain_candidates" -> {ExplainCandidates(g)}
      [] g.next = "select_winner" -> {SelectWinner(g)}
      [] g.next = "replan" -> {Replan(g)}
      [] g.next = "await_approval" /\ GateIsForced(g) -> {ForceApprove(g)}
      [] OTHER -> {}

RunNode ==
    /\ pc = "driving"
    /\ g' \in Outcomes
    /\ Record(g.next, "succeeded")
    /\ UNCHANGED <<mode, db, pc, run, batches, log>>

\* The node raises, or the checkpointer after it, in the first ainvoke or in a
\* resumed one.
RunNodeRaises ==
    /\ pc \in {"driving", "resuming"}
    /\ g.next # "END"
    /\ Fault
    /\ pc' = "failing"
    /\ \/ UNCHANGED steps
       \/ \E status \in {"succeeded", "failed"} :
            run # "none" /\ steps' = Append(steps, [node |-> g.next,
                                                    status |-> status])
    /\ UNCHANGED <<mode, db, g, run, batches, log>>

GateIsDue == pc = "driving" /\ g.next = "await_approval" /\ ~GateIsForced(g)

\* Mutant of Interrupt: the interrupt is recorded like a step that fails.
InterruptRecorded ==
    /\ GateIsDue
    /\ pc' = "asked"
    /\ Record(g.next, "failed")
    /\ UNCHANGED <<mode, db, g, run, batches, log>>

\* interrupt() leaves the node by an exception that is no failure.
Interrupt ==
    /\ GateIsDue
    /\ pc' = "asked"
    /\ UNCHANGED <<mode, db, g, run, steps, batches, log, faults>>

----------------------------------------------------------------------------
(* The loop around it. *)

Reject(o) == [decision |-> "reject", overrides |-> o]
Approve == [decision |-> "approve", overrides |-> NoOverride]

\* _decision_for_iteration, and the cap in front of it.
DecisionFor(iteration) ==
    IF iteration >= MAX_REPLAN_ITERATIONS THEN Approve
    ELSE IF mode = "reject_twice" /\ iteration < 2
         THEN Reject(IF iteration = 0 THEN First ELSE Second)
    ELSE IF mode = "reject" /\ iteration = 0 THEN Reject(Second)
    ELSE Approve

\* Mutant of Write: a run that has rankings gets no more.
WriteOnce(list) ==
    /\ batches' = IF run = "none" \/ list = Empty \/ batches # << >> THEN batches
                  ELSE Append(batches, list)
    /\ UNCHANGED faults

\* write_rankings of one list; an empty one adds no rows.
Write(list) ==
    \/ /\ batches' = IF run = "none" \/ list = Empty THEN batches
                     ELSE Append(batches, list)
       /\ UNCHANGED faults
    \/ run # "none" /\ list # Empty /\ Fault /\ UNCHANGED batches

\* The interrupt's payload is the proposal and its iteration; the batch is
\* the shortlist checkpointed with it.
Ask ==
    LET say == DecisionFor(g.iter) IN
    /\ pc = "asked"
    /\ log' = Append(log, [iteration |-> g.iter + 1, proposed |-> g.winner,
                           decision |-> say.decision, overrides |-> say.overrides])
    /\ Write(g.shortlist)
    /\ pc' = "resuming"
    /\ UNCHANGED <<mode, db, g, run, steps>>

\* The gate runs again, with the decision, and only now is its step
\* recorded.
Resume ==
    LET say == Last(log) IN
    /\ pc = "resuming"
    /\ g' = IF say.decision = "approve" THEN GateApprove(g)
            ELSE GateReject(g, say.overrides)
    /\ Record("await_approval", "succeeded")
    /\ pc' = "driving"
    /\ UNCHANGED <<mode, db, run, batches, log>>

\* Mutant of Return: only a proposal is taken for an end.
ReturnWithWinner ==
    /\ pc = "driving" /\ g.next = "END"
    /\ g.winner # Empty
    /\ pc' = IF run = "none" THEN "done" ELSE "publishing"
    /\ UNCHANGED <<mode, db, g, run, steps, batches, log, faults>>

\* No interrupt in the result: the graph has ended.
Return ==
    /\ pc = "driving" /\ g.next = "END"
    /\ pc' = IF run = "none" THEN "done" ELSE "publishing"
    /\ UNCHANGED <<mode, db, g, run, steps, batches, log, faults>>

----------------------------------------------------------------------------
(* Closing the run. *)

\* Mutant of Publish: the last proposal's batch is taken for the result's.
PublishUnlessLogged ==
    /\ pc = "publishing"
    /\ IF log = << >> THEN Write(FinalList(g)) ELSE UNCHANGED <<batches, faults>>
    /\ pc' = "closing"
    /\ UNCHANGED <<mode, db, g, run, steps, log>>

Publish ==
    /\ pc = "publishing"
    /\ Write(FinalList(g))
    /\ pc' = "closing"
    /\ UNCHANGED <<mode, db, g, run, steps, log>>

EndRun(status) ==
    \/ run' = status /\ UNCHANGED faults
    \/ Fault /\ UNCHANGED run

Close ==
    /\ pc = "closing"
    /\ EndRun("succeeded")
    /\ pc' = "done"
    /\ UNCHANGED <<mode, db, g, steps, batches, log>>

\* The exception goes on to the caller when the row is closed.
Fail ==
    /\ pc = "failing"
    /\ IF run = "none" THEN UNCHANGED <<run, faults>> ELSE EndRun("failed")
    /\ pc' = "raised"
    /\ UNCHANGED <<mode, db, g, steps, batches, log>>

Next ==
    \/ Begin \/ RunNode \/ RunNodeRaises \/ Interrupt \/ Ask \/ Resume
    \/ Return \/ Publish \/ Close \/ Fail

\* One process, that runs as long as it can.
Spec == Init /\ [][Next]_vars /\ WF_vars(Next)

----------------------------------------------------------------------------
(* Properties. *)

(***************************************************************************)
(* The proposals answer the decisions: the gate shows iteration n + 1      *)
(* after the n-th rejection, and a proposal scored with the budget that    *)
(* rejection asked for, or none.                                           *)
(***************************************************************************)
ProposalsFollowDecisions ==
    \A i \in DOMAIN log :
        /\ log[i].iteration = i
        /\ i > 1 => /\ log[i - 1].decision = "reject"
                    /\ log[i].proposed \in {log[i - 1].overrides, Empty}

(***************************************************************************)
(* run_demo.py:311: the audit trail records every iteration's top five.    *)
(* When no write fails, the run's batches are the proposals in the order   *)
(* they were asked about, and the result's after them.                     *)
(***************************************************************************)
Proposed == {i \in DOMAIN log : log[i].proposed # Empty}
Rank(i, S) == Cardinality({j \in S : j <= i})
HasResult == pc \in {"closing", "done"} /\ FinalList(g) # Empty

EveryProposalKept ==
    run # "none" /\ faults = 0 =>
        /\ Len(batches) = Cardinality(Proposed) + (IF HasResult THEN 1 ELSE 0)
        /\ \A i \in Proposed : batches[Rank(i, Proposed)] = log[i].proposed
        /\ HasResult => Last(batches) = FinalList(g)

(***************************************************************************)
(* What a run that succeeded shows last is what was approved, even when    *)
(* one write of the demo fails: the batch of the last proposal stands in   *)
(* for the result's.  A result the cap approved has no such batch, and     *)
(* without its own the run would show a proposal that was rejected.        *)
(***************************************************************************)
SucceededShowsApproved ==
    /\ run = "succeeded" /\ g.winner # Empty
    /\ \/ faults = 0
       \/ faults = 1 /\ log # << >> /\ Last(log).decision = "approve"
    => batches # << >> /\ Last(batches) = g.winner

(***************************************************************************)
(* The step rows trace a path of the graph: a pause adds no row, and the   *)
(* gate has one row for each decision it got, after which the run goes on  *)
(* to a replan or to nothing.  Recording failures leave gaps.              *)
(***************************************************************************)
Follows ==
    [parse_preferences |-> {"search_places"},
     search_places |-> {"normalize_places"},
     normalize_places |-> {"score_candidates"},
     score_candidates |-> {"explain_candidates"},
     explain_candidates |-> {"select_winner"},
     select_winner |-> {"await_approval"},
     await_approval |-> {"replan"},
     replan |-> {"score_candidates"}]

StepsTracePath ==
    faults = 0 => \A i \in 1..(Len(steps) - 1) :
        /\ steps[i + 1].node \in Follows[steps[i].node]
        /\ steps[i].status = "succeeded"

(***************************************************************************)
(* The demo ends, by itself or with an exception, and its row is closed    *)
(* unless the write that closes it failed.                                 *)
(***************************************************************************)
DemoEnds == <>(pc \in Ended /\ (run # "running" \/ faults > 0))
=============================================================================

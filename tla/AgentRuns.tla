------------------------------ MODULE AgentRuns ------------------------------
(***************************************************************************)
(* Agent runs as the API drives them (services/api/app/services/           *)
(* graph_service.py, api/v1/agents.py, vibebite_agents/audit.py).          *)
(*                                                                         *)
(* Three stores are written independently, each in a session of its own:   *)
(*   status    of the agent_runs row the clients read,                     *)
(*   thread    the LangGraph checkpoint of the run (thread_id = run id),   *)
(*   rankings  the ranking rows, one entry per batch, oldest first.        *)
(* A run is driven by background asyncio tasks: one spawned when it is     *)
(* kicked and one more for every approve/reject call.  Nothing excludes    *)
(* two tasks from driving the same run: the approve and reject routes      *)
(* check only that the run exists, so any owner call at any time is a      *)
(* step of this module.                                                    *)
(***************************************************************************)
EXTENDS RecommendGraph, Sequences

CONSTANTS
    Runs,          \* run ids
    Tasks,         \* background task slots: a bound on concurrent tasks
    NoRun, NoThread,
    MaxResumes,    \* bound on accepted approve/reject calls
    MaxCrashes,    \* bound on API process crashes
    MaxFaults      \* bound on failed writes of rankings and closing rows

ASSUME RunsAssumption == NoRun \notin Runs
ASSUME ThreadAssumption == NoThread \notin GraphState
ASSUME BoundsAssumption ==
    MaxResumes \in Nat /\ MaxCrashes \in Nat /\ MaxFaults \in Nat

VARIABLES
    status,     \* run -> status of its agent_runs row
    thread,     \* run -> last checkpoint saved for it
    task,       \* slot -> the background task in it
    rankings,   \* the ranking batches, in created_at order
    approved,   \* history: <<run, list>> pairs approved at a gate
    lost,       \* history: runs whose task ended without closing the row
    resumes, crashes, faults    \* how much of each bound is used

vars == <<status, thread, task, rankings, approved, lost,
          resumes, crashes, faults>>

Statuses == {"absent", "running", "interrupted", "succeeded", "failed"}

Says == [decision : Decisions, overrides : Asks]
           \cup [decision : {"none"}, overrides : {NoOverride}]
NoSay == [decision |-> "none", overrides |-> NoOverride]

(***************************************************************************)
(* starting / resuming: create_task has run, ainvoke has not yet           *)
(* driving:             inside ainvoke, about to run the node g.next       *)
(* pausing:             ainvoke returned at an interrupt                   *)
(* publishing, closing: ainvoke returned at END, _finalize_succeeded_run   *)
(* failing:             the except branch                                  *)
(***************************************************************************)
Pcs == {"starting", "resuming", "driving", "pausing",
        "publishing", "closing", "failing"}

LiveTask == [pc : Pcs, run : Runs, g : GraphState, say : Says]

\* A slot without a task.
Idle == [pc |-> "idle", run |-> NoRun, g |-> InitialGraph(NoOverride),
         say |-> NoSay]

Batch == [run : Runs, list : Bars \cup {Unscored}]

TypeOK ==
    /\ status \in [Runs -> Statuses]
    /\ thread \in [Runs -> GraphState \cup {NoThread}]
    /\ task \in [Tasks -> LiveTask \cup {Idle}]
    /\ rankings \in Seq(Batch)
    /\ approved \subseteq Runs \X (Bars \cup {Empty, Unscored})
    /\ lost \subseteq Runs
    /\ resumes \in 0..MaxResumes
    /\ crashes \in 0..MaxCrashes
    /\ faults \in 0..MaxFaults

Init ==
    /\ status = [r \in Runs |-> "absent"]
    /\ thread = [r \in Runs |-> NoThread]
    /\ task = [t \in Tasks |-> Idle]
    /\ rankings = << >>
    /\ approved = {}
    /\ lost = {}
    /\ resumes = 0 /\ crashes = 0 /\ faults = 0

----------------------------------------------------------------------------
(* The requests. *)

\* kick_recommend: begin_run commits the row, then the task is created.
Kick(r, o, t) ==
    /\ status[r] = "absent"
    /\ task[t].pc = "idle"
    /\ status' = [status EXCEPT ![r] = "running"]
    /\ task' = [task EXCEPT ![t] = [pc |-> "starting", run |-> r,
                                    g |-> InitialGraph(o), say |-> NoSay]]
    /\ UNCHANGED <<thread, rankings, approved, lost, resumes, crashes, faults>>

\* resume_with_decision behind approve_agent_run and reject_agent_run: the
\* row must exist, whatever its status.
Resume(r, say, t) ==
    /\ status[r] # "absent"
    /\ resumes < MaxResumes
    /\ task[t].pc = "idle"
    /\ status' = [status EXCEPT ![r] = "running"]
    /\ task' = [task EXCEPT ![t] = [pc |-> "resuming", run |-> r,
                                    g |-> InitialGraph(NoOverride),
                                    say |-> say]]
    /\ resumes' = resumes + 1
    /\ UNCHANGED <<thread, rankings, approved, lost, crashes, faults>>

\* What the two routes pass on: approve carries nothing, reject overrides.
Payloads == {[decision |-> "approve", overrides |-> NoOverride]}
              \cup [decision : {"reject"}, overrides : Asks]

----------------------------------------------------------------------------
(* A task inside ainvoke.  The checkpointer is LangGraph's: one checkpoint
   per superstep, the latest one saved is the one a resume loads. *)

\* The input is checkpointed before the first node runs.
StartGraph(t) ==
    /\ task[t].pc = "starting"
    /\ thread' = [thread EXCEPT ![task[t].run] = task[t].g]
    /\ task' = [task EXCEPT ![t].pc = "driving"]
    /\ UNCHANGED <<status, rankings, approved, lost, resumes, crashes, faults>>

\* Mutant of LoadThread: returns early when the run has no checkpoint.
LoadThreadGivesUp(t) ==
    LET saved == thread[task[t].run] IN
    /\ task[t].pc = "resuming"
    /\ task' = IF saved = NoThread THEN [task EXCEPT ![t] = Idle]
               ELSE [task EXCEPT ![t].g = saved,
                                 ![t].pc = IF saved.next = "END"
                                           THEN "publishing" ELSE "driving"]
    /\ UNCHANGED <<status, thread, rankings, approved, lost,
                   resumes, crashes, faults>>

\* Mutant of LoadThread: the task marks its row "running" itself.
LoadThreadFlipsRow(t) ==
    LET saved == thread[task[t].run] IN
    /\ task[t].pc = "resuming"
    /\ status' = [status EXCEPT ![task[t].run] = "running"]
    /\ task' = [task EXCEPT
         ![t].pc = IF saved = NoThread THEN "failing"
                   ELSE IF saved.next = "END" THEN "publishing" ELSE "driving",
         ![t].g = IF saved = NoThread THEN @ ELSE saved]
    /\ UNCHANGED <<thread, rankings, approved, lost,
                   resumes, crashes, faults>>

\* A resume continues from the latest checkpoint.  A finished thread has
\* nothing to run and returns its final state; a missing one raises.
LoadThread(t) ==
    LET saved == thread[task[t].run] IN
    /\ task[t].pc = "resuming"
    /\ task' = [task EXCEPT
         ![t].pc = IF saved = NoThread THEN "failing"
                   ELSE IF saved.next = "END" THEN "publishing" ELSE "driving",
         ![t].g = IF saved = NoThread THEN @ ELSE saved]
    /\ UNCHANGED <<status, thread, rankings, approved, lost,
                   resumes, crashes, faults>>

\* A superstep commits: the new state is checkpointed, the decision the
\* task was resumed with was visible to this superstep only.
Superstep(t, node, g2) ==
    /\ task[t].pc = "driving"
    /\ task[t].g.next = node
    /\ thread' = [thread EXCEPT ![task[t].run] = g2]
    /\ task' = [task EXCEPT ![t].g = g2,
                            ![t].say = NoSay,
                            ![t].pc = IF g2.next = "END" THEN "publishing"
                                      ELSE "driving"]
    /\ UNCHANGED <<status, rankings, lost, resumes, crashes, faults>>

RunParse(t) ==
    /\ Superstep(t, "parse_preferences", ParsePreferences(task[t].g))
    /\ UNCHANGED approved

RunSearch(t) ==
    /\ \E found \in BOOLEAN :
          Superstep(t, "search_places", SearchPlaces(task[t].g, found))
    /\ UNCHANGED approved

RunNormalize(t) ==
    /\ \E kept \in BOOLEAN :
          Superstep(t, "normalize_places", NormalizePlaces(task[t].g, kept))
    /\ UNCHANGED approved

RunScore(t) ==
    /\ Superstep(t, "score_candidates", ScoreCandidates(task[t].g))
    /\ UNCHANGED approved

RunExplain(t) ==
    /\ Superstep(t, "explain_candidates", ExplainCandidates(task[t].g))
    /\ UNCHANGED approved

RunSelect(t) ==
    /\ Superstep(t, "select_winner", SelectWinner(task[t].g))
    /\ UNCHANGED approved

RunReplan(t) ==
    /\ Superstep(t, "replan", Replan(task[t].g))
    /\ UNCHANGED approved

\* The gate at the cap approves without asking anyone.
GateForce(t) ==
    /\ GateIsForced(task[t].g)
    /\ Superstep(t, "await_approval", ForceApprove(task[t].g))
    /\ approved' = approved \cup {<<task[t].run, FinalList(task[t].g)>>}

\* The gate finds the decision the task was resumed with.
GateDecide(t) ==
    LET g == task[t].g  say == task[t].say IN
    /\ ~GateIsForced(g)
    /\ \/ /\ say.decision = "approve"
          /\ Superstep(t, "await_approval", GateApprove(g))
          /\ approved' = approved \cup {<<task[t].run, FinalList(g)>>}
       \/ /\ say.decision = "reject"
          /\ Superstep(t, "await_approval", GateReject(g, say.overrides))
          /\ UNCHANGED approved

\* Mutant of GateInterrupt: the interrupt is not noticed in what ainvoke
\* returns.
GateInterruptUnseen(t) ==
    /\ task[t].pc = "driving"
    /\ task[t].g.next = "await_approval"
    /\ ~GateIsForced(task[t].g)
    /\ task[t].say = NoSay
    /\ task' = [task EXCEPT ![t].pc = "publishing"]
    /\ UNCHANGED <<status, thread, rankings, approved, lost,
                   resumes, crashes, faults>>

\* Without a decision the gate interrupts and ainvoke returns; the thread
\* stays where it is.
GateInterrupt(t) ==
    /\ task[t].pc = "driving"
    /\ task[t].g.next = "await_approval"
    /\ ~GateIsForced(task[t].g)
    /\ task[t].say = NoSay
    /\ task' = [task EXCEPT ![t].pc = "pausing"]
    /\ UNCHANGED <<status, thread, rankings, approved, lost,
                   resumes, crashes, faults>>

\* Mutant of GraphRaises: the exception is logged and the run finalised.
GraphRaisesSwallowed(t) ==
    /\ task[t].pc \in {"starting", "resuming", "driving"}
    /\ task' = [task EXCEPT ![t].pc = "publishing"]
    /\ UNCHANGED <<status, thread, rankings, approved, lost,
                   resumes, crashes, faults>>

\* A node, the checkpointer or the database raises: the superstep is not
\* committed and the exception leaves ainvoke.
GraphRaises(t) ==
    /\ task[t].pc \in {"starting", "resuming", "driving"}
    /\ task' = [task EXCEPT ![t].pc = "failing"]
    /\ UNCHANGED <<status, thread, rankings, approved, lost,
                   resumes, crashes, faults>>

----------------------------------------------------------------------------
(* A task after ainvoke. *)

\* end_run overwrites the status, whoever wrote it last, and the task ends.
\* (It loads the row first and leaves a status that is already the one it
\* sets alone, which amounts to having written it when it loaded.)
EndRun(t, closed) ==
    /\ status' = [status EXCEPT ![task[t].run] = closed]
    /\ task' = [task EXCEPT ![t] = Idle]
    /\ UNCHANGED <<thread, rankings, approved, lost, resumes, crashes, faults>>

\* Mutant of EndInterrupted: an interrupted run is closed as finished.
EndInterruptedAsFinal(t) ==
    task[t].pc = "pausing" /\ EndRun(t, "succeeded")

EndInterrupted(t) ==
    task[t].pc = "pausing" /\ EndRun(t, "interrupted")

EndSucceeded(t) ==
    task[t].pc = "closing" /\ EndRun(t, "succeeded")

\* Mutant of EndFailed: the except branch logs and leaves the row alone.
EndFailedUnrecorded(t) ==
    /\ task[t].pc = "failing"
    /\ task' = [task EXCEPT ![t] = Idle]
    /\ UNCHANGED <<status, thread, rankings, approved, lost,
                   resumes, crashes, faults>>

\* Mutant of EndFailed: a failed run is handed back to the owner.
EndFailedAsInterrupted(t) ==
    task[t].pc = "failing" /\ EndRun(t, "interrupted")

EndFailed(t) ==
    task[t].pc = "failing" /\ EndRun(t, "failed")

\* Mutant of EndRunFails: _finalize_succeeded_run is started over.
EndRunFailsStartsOver(t) ==
    /\ faults < MaxFaults
    /\ faults' = faults + 1
    /\ task[t].pc = "closing"
    /\ task' = [task EXCEPT ![t].pc = "publishing"]
    /\ UNCHANGED <<status, thread, rankings, approved, lost, resumes, crashes>>

\* end_run itself fails.  When pausing, the except branch tries once more;
\* elsewhere the failure is swallowed and the row stays as it was.
EndRunFails(t) ==
    /\ faults < MaxFaults
    /\ faults' = faults + 1
    /\ \/ /\ task[t].pc = "pausing"
          /\ task' = [task EXCEPT ![t].pc = "failing"]
          /\ UNCHANGED lost
       \/ /\ task[t].pc \in {"closing", "failing"}
          /\ task' = [task EXCEPT ![t] = Idle]
          /\ lost' = lost \cup {task[t].run}
    /\ UNCHANGED <<status, thread, rankings, approved, resumes, crashes>>

\* One batch of ranking rows, committed together; nothing is replaced.
WriteRankings(t) ==
    LET list == FinalList(task[t].g) IN
    /\ task[t].pc = "publishing"
    /\ rankings' = IF list = Empty THEN rankings
                   ELSE Append(rankings, [run |-> task[t].run, list |-> list])
    /\ task' = [task EXCEPT ![t].pc = "closing"]
    /\ UNCHANGED <<status, thread, approved, lost, resumes, crashes, faults>>

\* A failed ranking write is swallowed: the run still ends as succeeded.
WriteRankingsFails(t) ==
    /\ task[t].pc = "publishing"
    /\ FinalList(task[t].g) # Empty
    /\ faults < MaxFaults
    /\ faults' = faults + 1
    /\ task' = [task EXCEPT ![t].pc = "closing"]
    /\ UNCHANGED <<status, thread, rankings, approved, lost, resumes, crashes>>

\* The API process dies with its tasks; nothing restarts them.
Crash ==
    /\ crashes < MaxCrashes
    /\ crashes' = crashes + 1
    /\ task' = [t \in Tasks |-> Idle]
    /\ lost' = lost \cup {task[t].run : t \in {u \in Tasks : task[u].pc # "idle"}}
    /\ UNCHANGED <<status, thread, rankings, approved, resumes, faults>>

----------------------------------------------------------------------------
GraphStep(t) ==
    \/ RunParse(t) \/ RunSearch(t) \/ RunNormalize(t) \/ RunScore(t)
    \/ RunExplain(t) \/ RunSelect(t) \/ RunReplan(t)
    \/ GateForce(t) \/ GateDecide(t) \/ GateInterrupt(t)

TaskStep(t) ==
    \/ StartGraph(t) \/ LoadThread(t) \/ GraphStep(t)
    \/ EndInterrupted(t) \/ EndSucceeded(t) \/ EndFailed(t)
    \/ WriteRankings(t)

TaskFault(t) == GraphRaises(t) \/ EndRunFails(t) \/ WriteRankingsFails(t)

Next ==
    \/ \E t \in Tasks : TaskStep(t) \/ TaskFault(t)
    \/ \E r \in Runs, t \in Tasks, o \in Asks : Kick(r, o, t)
    \/ \E r \in Runs, t \in Tasks, say \in Payloads : Resume(r, say, t)
    \/ Crash

Spec == Init /\ [][Next]_vars

\* The event loop keeps scheduling every live task; owners and faults owe
\* nothing.
FairSpec == Spec /\ \A t \in Tasks : WF_vars(TaskStep(t))

----------------------------------------------------------------------------
(* Properties. *)

Active(r) == {t \in Tasks : task[t].run = r}

(***************************************************************************)
(* A row shows "running" only while some task still drives the run, unless *)
(* a task of it was lost to a crash or to a failed closing write: the row  *)
(* flip of resume_with_decision, the tasks it spawns and the rows they     *)
(* close never leave a run that nobody will close.                         *)
(***************************************************************************)
RunningIsDriven ==
    \A r \in Runs : status[r] = "running" => Active(r) # {} \/ r \in lost

(***************************************************************************)
(* Whatever the rankings hold for a run was the proposal of a gate that    *)
(* approved it, by the owner's decision or at the cap: _finalize runs on   *)
(* the state the gate left, however many tasks drive the run.              *)
(***************************************************************************)
PublishedWasApproved ==
    \A i \in DOMAIN rankings : <<rankings[i].run, rankings[i].list>> \in approved

(***************************************************************************)
(* After a rejection with overrides, the proposal waiting at the gate was  *)
(* scored with those overrides (await_approval, replan and the edge from   *)
(* replan back to score_candidates together), in every task's copy of the  *)
(* state and in the checkpoint a later resume continues from.              *)
(***************************************************************************)
HonoursRejection(g) ==
    g.next \in {"await_approval", "END"} /\ g.asked # NoOverride
        => g.shortlist \in {g.asked, Empty}

RejectionsHonoured ==
    /\ \A t \in Tasks : HonoursRejection(task[t].g)
    /\ \A r \in Runs : thread[r] # NoThread => HonoursRejection(thread[r])

(***************************************************************************)
(* graph.py:274: the cap keeps the replan cycle from going on forever.  It *)
(* does as long as no override touches the count: a state that went        *)
(* through more rejections than the cap went through one that carried      *)
(* _replan_iteration, however many tasks resume the run from which         *)
(* checkpoints.                                                            *)
(***************************************************************************)
Capped(g) == g.loops > MAX_REPLAN_ITERATIONS => g.recounted

ReplanBounded ==
    /\ \A t \in Tasks : Capped(task[t].g)
    /\ \A r \in Runs : thread[r] # NoThread => Capped(thread[r])

(***************************************************************************)
(* A finished run that says "succeeded" went through an approving gate: no *)
(* crash, failure or concurrent resume closes an unapproved run as a       *)
(* success.                                                                *)
(***************************************************************************)
SucceededWasApproved ==
    \A r \in Runs : status[r] = "succeeded" =>
        \E pair \in approved : pair[1] = r

(***************************************************************************)
(* Nobody but the owner or the cap decides: a closing row is only written  *)
(* by a task whose state has left the gate through its approving edge.     *)
(***************************************************************************)
ClosesOnlyAtEnd ==
    [][\A r \in Runs :
         status'[r] = "succeeded" /\ status[r] # "succeeded"
            => \E t \in Active(r) : task[t].g.next = "END"]_vars

(***************************************************************************)
(* Every run shown as running is decided: it comes back to the owner,      *)
(* succeeds or fails, unless a task of it was lost to a crash or to a      *)
(* failed closing write.                                                   *)
(***************************************************************************)
RunsSettle ==
    \A r \in Runs : status[r] = "running" ~> status[r] # "running" \/ r \in lost

(***************************************************************************)
(* graph_service.py:135 and the docstring of replan_mission: the very      *)
(* first scoring pass already honours the overrides the run was kicked     *)
(* with.                                                                   *)
(***************************************************************************)
KickedWith(r, o) ==
    \E t \in Tasks : /\ task[t].run = r /\ task[t].pc = "starting"
                     /\ task[t].g.ask = o

FirstProposalsUse(r, o) ==
    \A t \in Tasks : LET g == task[t].g IN
        task[t].run = r /\ g.next = "await_approval" /\ g.loops = 0
            => g.shortlist \in {o, Empty}

FirstPassHonoursOverrides ==
    \A r \in Runs, o \in Overrides :
        [](KickedWith(r, o) => []FirstProposalsUse(r, o))
=============================================================================

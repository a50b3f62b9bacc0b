--------------------------- MODULE AgentRuns_proofs ---------------------------
(***************************************************************************)
(* Proofs about AgentRuns, for any number of runs, task slots, overrides,  *)
(* resumes, crashes and faults and any replan cap: its invariants, that it *)
(* implements RunRows (AgentRunsRefinement), and what it promises clients  *)
(* that decide only on interrupted runs (CarefulRuns).                     *)
(*                                                                         *)
(* The invariants are proved in layers, each using the ones before it:     *)
(*   TypeOK       the type invariant;                                      *)
(*   StateInv     every value of GraphState in a task or a checkpoint is   *)
(*                one a pass through the graph produces (GraphInv);        *)
(*   ApprovalInv  what a task past END is about to publish was approved;   *)
(*   DrivenInv    a running row has a task.                                *)
(***************************************************************************)
EXTENDS AgentRunsRefinement, CarefulRuns, FiniteSetTheorems, TLAPS

----------------------------------------------------------------------------
(* Types *)

\* The contents a list of candidates can have.
Lists == Bars \cup {Empty, Unscored}

\* The state a run starts from.
LEMMA InitialType ==
    ASSUME NEW o \in Asks
    PROVE  InitialGraph(o) \in GraphState
BY DEF InitialGraph, GraphState, Nodes, Bars, Asks

\* Every node, and the gate, returns a GraphState.
LEMMA NodeTypes ==
    ASSUME NEW g \in GraphState, NEW b \in BOOLEAN, NEW o \in Asks
    PROVE  /\ ParsePreferences(g) \in GraphState
           /\ SearchPlaces(g, b) \in GraphState
           /\ NormalizePlaces(g, b) \in GraphState
           /\ ScoreCandidates(g) \in GraphState
           /\ ExplainCandidates(g) \in GraphState
           /\ SelectWinner(g) \in GraphState
           /\ Replan(g) \in GraphState
           /\ ForceApprove(g) \in GraphState
           /\ GateApprove(g) \in GraphState
           /\ GateReject(g, o) \in GraphState
<1> DEFINE Nexts == Nodes \cup {"END"}
<1>nodes. /\ Nodes \subseteq Nexts /\ "END" \in Nexts
          /\ {"parse_preferences", "search_places", "normalize_places",
              "score_candidates", "explain_candidates", "select_winner",
              "await_approval", "replan"} = Nodes
  BY DEF Nodes
<1>data. /\ GroupBar \in Bars /\ NoOverride \in Asks
         /\ Bars \subseteq Lists /\ Empty \in Lists /\ Unscored \in Lists
         /\ \A a \in Asks : a # NoOverride => a \in Bars
         /\ "none" \in Decisions \cup {"none"}
         /\ {"approve", "reject"} = Decisions
  BY DEF Bars, Asks, Lists, Decisions
<1>g. GraphState =
        [next : Nexts, iter : Int, bar : Bars, ask : Asks, cands : Lists,
         shortlist : Lists, winner : Lists, needs : BOOLEAN,
         decision : Decisions \cup {"none"}, asked : Asks, loops : Nat,
         recounted : BOOLEAN]
  BY DEF GraphState, Lists
<1> HIDE DEF Nexts
<1> USE <1>nodes, <1>data, <1>g
<1>2. ParsePreferences(g) \in GraphState
  <2>1. 0 \in Int OBVIOUS
  <2> QED BY <2>1 DEF ParsePreferences
<1>3. SearchPlaces(g, b) \in GraphState
  <2>1. (IF b THEN Unscored ELSE Empty) \in Lists OBVIOUS
  <2>2. QED BY <2>1 DEF SearchPlaces
<1>4. NormalizePlaces(g, b) \in GraphState
  <2>1. (IF b THEN g.cands ELSE Empty) \in Lists OBVIOUS
  <2>2. QED BY <2>1 DEF NormalizePlaces
<1>5. ScoreCandidates(g) \in GraphState
  <2>1. (IF g.cands = Empty THEN Empty ELSE g.bar) \in Lists OBVIOUS
  <2>2. QED BY <2>1 DEF ScoreCandidates
<1>6. ExplainCandidates(g) \in GraphState BY DEF ExplainCandidates
<1>7. SelectWinner(g) \in GraphState
  <2>1. /\ (g.shortlist # Empty) \in BOOLEAN
        /\ (IF g.shortlist = Empty THEN g.decision ELSE "none")
              \in Decisions \cup {"none"}
    OBVIOUS
  <2>2. QED BY <2>1 DEF SelectWinner
<1>8. Replan(g) \in GraphState
  <2>1. (IF g.ask = NoOverride THEN g.bar ELSE g.ask) \in Bars OBVIOUS
  <2>2. (IF g.ask \in DOMAIN Counters THEN Counters[g.ask] ELSE g.iter) \in Int
    BY CountersAssumption
  <2>3. QED BY <2>1, <2>2 DEF Replan
<1>9. /\ RouteAfterApproval("approve") = "END"
      /\ RouteAfterApproval("reject") = "replan"
  BY DEF RouteAfterApproval
<1>10. ForceApprove(g) \in GraphState BY <1>9 DEF ForceApprove
<1>11. GateApprove(g) \in GraphState BY <1>9 DEF GateApprove
<1>12. GateReject(g, o) \in GraphState
  <2>1. /\ (IF o = NoOverride THEN g.asked ELSE o) \in Asks
        /\ g.iter + 1 \in Int /\ g.loops + 1 \in Nat
        /\ (g.recounted \/ o \in DOMAIN Counters) \in BOOLEAN
    OBVIOUS
  <2>2. QED BY <2>1, <1>9 DEF GateReject
<1>13. QED
  BY ONLY <1>2, <1>3, <1>4, <1>5, <1>6, <1>7, <1>8, <1>10, <1>11, <1>12

\* The task in a slot that is not idle.
LEMMA LiveTasks ==
    ASSUME TypeOK, NEW t \in Tasks, task[t].pc # "idle"
    PROVE  /\ task[t] \in LiveTask
           /\ task[t].run \in Runs
           /\ task[t].g \in GraphState
           /\ task[t].say \in Says
BY DEF TypeOK, Idle, LiveTask

\* Storing a live task in a slot keeps the slots well typed.
LEMMA SlotType ==
    ASSUME TypeOK, NEW t \in Tasks, NEW new \in LiveTask \cup {Idle},
           task' = [task EXCEPT ![t] = new]
    PROVE  task' \in [Tasks -> LiveTask \cup {Idle}]
BY DEF TypeOK

\* What a committed superstep does to the types.
LEMMA SuperstepTypes ==
    ASSUME TypeOK, NEW t \in Tasks, NEW node, NEW g2 \in GraphState,
           Superstep(t, node, g2),
           approved' \subseteq Runs \X (Bars \cup {Empty, Unscored})
    PROVE  TypeOK'
<1> USE DEF Superstep
<1>1. task[t] \in LiveTask /\ task[t].run \in Runs BY LiveTasks
<1>2. thread' \in [Runs -> GraphState \cup {NoThread}] BY <1>1 DEF TypeOK
<1>3. task' \in [Tasks -> LiveTask \cup {Idle}]
  <2> DEFINE pc == IF g2.next = "END" THEN "publishing" ELSE "driving"
             new == [task[t] EXCEPT !.g = g2, !.say = NoSay, !.pc = pc]
  <2>1. pc \in Pcs BY DEF Pcs
  <2>2. NoSay \in Says BY DEF NoSay, Says
  <2>3. new \in LiveTask BY <1>1, <2>1, <2>2 DEF LiveTask
  <2>4. task' = [task EXCEPT ![t] = new] BY DEF TypeOK
  <2>5. QED BY <2>3, <2>4, SlotType
<1>4. QED BY <1>2, <1>3 DEF TypeOK

\* The list a final state publishes is typed.
LEMMA FinalListType ==
    ASSUME NEW g \in GraphState
    PROVE  FinalList(g) \in Bars \cup {Empty, Unscored}
BY DEF FinalList, GraphState

LEMMA InitType == Init => TypeOK
<1> SUFFICES ASSUME Init PROVE TypeOK OBVIOUS
<1>1. status \in [Runs -> Statuses] BY DEF Init, Statuses
<1>2. QED
  BY <1>1, BoundsAssumption DEF Init, TypeOK, Batch

\* A kick or an accepted decision.
LEMMA RequestTypes ==
    ASSUME TypeOK, NEW r \in Runs, NEW t \in Tasks
    PROVE  /\ \A o \in Asks : Kick(r, o, t) => TypeOK'
           /\ \A say \in Payloads : Resume(r, say, t) => TypeOK'
<1>1. status' = [status EXCEPT ![r] = "running"] => status' \in [Runs -> Statuses]
  BY DEF TypeOK, Statuses
<1>2. NoOverride \in Asks /\ NoSay \in Says BY DEF Asks, NoSay, Says
<1>3. ASSUME NEW o \in Asks, Kick(r, o, t) PROVE TypeOK'
  <2> DEFINE new == [pc |-> "starting", run |-> r, g |-> InitialGraph(o),
                     say |-> NoSay]
  <2>1. InitialGraph(o) \in GraphState BY InitialType
  <2>2. new \in LiveTask BY <2>1, <1>2 DEF LiveTask, Pcs
  <2>3. task' \in [Tasks -> LiveTask \cup {Idle}]
    BY <1>3, <2>2, SlotType DEF Kick
  <2>4. QED BY <1>1, <1>3, <2>3 DEF Kick, TypeOK
<1>4. ASSUME NEW say \in Payloads, Resume(r, say, t) PROVE TypeOK'
  <2> DEFINE new == [pc |-> "resuming", run |-> r,
                     g |-> InitialGraph(NoOverride), say |-> say]
  <2>1. say \in Says BY DEF Payloads, Says, Decisions, Asks
  <2>2. InitialGraph(NoOverride) \in GraphState BY <1>2, InitialType
  <2>3. new \in LiveTask BY <2>1, <2>2 DEF LiveTask, Pcs
  <2>4. task' \in [Tasks -> LiveTask \cup {Idle}]
    BY <1>4, <2>3, SlotType DEF Resume
  <2>5. resumes' \in 0..MaxResumes BY <1>4, BoundsAssumption DEF Resume, TypeOK
  <2>6. QED BY <1>1, <1>4, <2>4, <2>5 DEF Resume, TypeOK
<1>5. QED BY <1>3, <1>4

\* A step of a task outside the graph: the input checkpoint, the load of a
\* checkpoint, the interrupt, the closing rows and every failure.
LEMMA TaskTypes ==
    ASSUME TypeOK, NEW t \in Tasks,
           \/ StartGraph(t) \/ LoadThread(t) \/ GateInterrupt(t)
           \/ GraphRaises(t) \/ WriteRankings(t) \/ WriteRankingsFails(t)
           \/ EndInterrupted(t) \/ EndSucceeded(t) \/ EndFailed(t)
           \/ EndRunFails(t)
    PROVE  TypeOK'
<1>pcs. \A pc \in Pcs : task[t].pc # "idle" =>
          [task[t] EXCEPT !.pc = pc] \in LiveTask
  BY LiveTasks DEF LiveTask
<1>move. ASSUME NEW pc \in Pcs, task[t].pc # "idle",
                task' = [task EXCEPT ![t].pc = pc]
         PROVE  task' \in [Tasks -> LiveTask \cup {Idle}]
  <2> DEFINE new == [task[t] EXCEPT !.pc = pc]
  <2>1. new \in LiveTask BY <1>pcs, <1>move
  <2>2. task' = [task EXCEPT ![t] = new] BY <1>move DEF TypeOK
  <2>3. QED BY <2>1, <2>2, SlotType
<1>idle. task' = [task EXCEPT ![t] = Idle]
           => task' \in [Tasks -> LiveTask \cup {Idle}]
  BY SlotType
<1>names. {"starting", "resuming", "driving", "pausing",
           "publishing", "closing", "failing"} = Pcs
  BY DEF Pcs
<1>1. CASE StartGraph(t)
  <2>1. task' \in [Tasks -> LiveTask \cup {Idle}]
    BY <1>1, <1>move, <1>names DEF StartGraph
  <2>2. task[t].run \in Runs /\ task[t].g \in GraphState
    BY <1>1, LiveTasks DEF StartGraph
  <2>3. thread' \in [Runs -> GraphState \cup {NoThread}]
    BY <1>1, <2>2 DEF StartGraph, TypeOK
  <2>4. QED BY <1>1, <2>1, <2>3 DEF StartGraph, TypeOK
<1>2. CASE LoadThread(t)
  <2> DEFINE saved == thread[task[t].run]
             pc == IF saved = NoThread THEN "failing"
                   ELSE IF saved.next = "END" THEN "publishing" ELSE "driving"
             g2 == IF saved = NoThread THEN task[t].g ELSE saved
             new == [task[t] EXCEPT !.pc = pc, !.g = g2]
  <2>1. task[t] \in LiveTask /\ task[t].run \in Runs /\ task[t].g \in GraphState
    BY <1>2, LiveTasks DEF LoadThread
  <2>2. pc \in Pcs BY <1>names
  <2>3. g2 \in GraphState BY <2>1 DEF TypeOK
  <2>4. task' = [task EXCEPT ![t] = new] BY <1>2 DEF LoadThread, TypeOK
  <2> HIDE DEF pc, g2
  <2>5. new \in LiveTask BY <2>1, <2>2, <2>3 DEF LiveTask
  <2>6. task' \in [Tasks -> LiveTask \cup {Idle}] BY <2>4, <2>5, SlotType
  <2>7. QED BY <1>2, <2>6 DEF LoadThread, TypeOK
<1>3. CASE GateInterrupt(t)
  <2>1. task' \in [Tasks -> LiveTask \cup {Idle}]
    BY <1>3, <1>move, <1>names DEF GateInterrupt
  <2>2. QED BY <1>3, <2>1 DEF GateInterrupt, TypeOK
<1>4. CASE GraphRaises(t)
  <2>1. task' \in [Tasks -> LiveTask \cup {Idle}]
    BY <1>4, <1>move, <1>names DEF GraphRaises
  <2>2. QED BY <1>4, <2>1 DEF GraphRaises, TypeOK
<1>5. CASE WriteRankings(t)
  <2> DEFINE list == FinalList(task[t].g)
  <2>1. task' \in [Tasks -> LiveTask \cup {Idle}]
    BY <1>5, <1>move, <1>names DEF WriteRankings
  <2>2. task[t].run \in Runs /\ list \in Bars \cup {Empty, Unscored}
    BY <1>5, LiveTasks, FinalListType DEF WriteRankings
  <2>3. rankings' \in Seq(Batch)
    <3>1. CASE list = Empty BY <1>5, <3>1 DEF WriteRankings, TypeOK
    <3>2. CASE list # Empty
      <4>1. [run |-> task[t].run, list |-> list] \in Batch
        BY <2>2, <3>2 DEF Batch
      <4>2. rankings' = Append(rankings, [run |-> task[t].run, list |-> list])
        BY <1>5, <3>2 DEF WriteRankings
      <4>3. QED BY <4>1, <4>2 DEF TypeOK
    <3>3. QED BY <3>1, <3>2
  <2>4. QED BY <1>5, <2>1, <2>3 DEF WriteRankings, TypeOK
<1>6. CASE WriteRankingsFails(t)
  <2>1. task' \in [Tasks -> LiveTask \cup {Idle}]
    BY <1>6, <1>move, <1>names DEF WriteRankingsFails
  <2>2. faults' \in 0..MaxFaults
    BY <1>6, BoundsAssumption DEF WriteRankingsFails, TypeOK
  <2>3. QED BY <1>6, <2>1, <2>2 DEF WriteRankingsFails, TypeOK
<1>end. ASSUME NEW closed \in Statuses, EndRun(t, closed)
        PROVE  TypeOK'
  <2>1. status' \in [Runs -> Statuses] BY <1>end DEF EndRun, TypeOK
  <2>2. QED BY <1>end, <2>1, <1>idle DEF EndRun, TypeOK
<1>7. CASE EndInterrupted(t)
  BY <1>7, <1>end DEF EndInterrupted, Statuses
<1>8. CASE EndSucceeded(t)
  BY <1>8, <1>end DEF EndSucceeded, Statuses
<1>9. CASE EndFailed(t)
  BY <1>9, <1>end DEF EndFailed, Statuses
<1>10. CASE EndRunFails(t)
  <2>1. faults' \in 0..MaxFaults
    BY <1>10, BoundsAssumption DEF EndRunFails, TypeOK
  <2>2. CASE task[t].pc = "pausing" /\ task' = [task EXCEPT ![t].pc = "failing"]
              /\ UNCHANGED lost
    <3>1. task' \in [Tasks -> LiveTask \cup {Idle}] BY <2>2, <1>move, <1>names
    <3>2. QED BY <1>10, <2>1, <2>2, <3>1 DEF EndRunFails, TypeOK
  <2>3. CASE /\ task[t].pc \in {"closing", "failing"}
             /\ task' = [task EXCEPT ![t] = Idle]
             /\ lost' = lost \cup {task[t].run}
    <3>1. task[t].run \in Runs BY <2>3, LiveTasks
    <3>2. QED BY <1>10, <1>idle, <2>1, <2>3, <3>1 DEF EndRunFails, TypeOK
  <2>4. QED BY <1>10, <2>2, <2>3 DEF EndRunFails
<1>11. QED BY <1>1, <1>2, <1>3, <1>4, <1>5, <1>6, <1>7, <1>8, <1>9, <1>10

\* A superstep of the graph, or the interrupt at its gate.
LEMMA GraphStepTypes ==
    ASSUME TypeOK, NEW t \in Tasks, GraphStep(t)
    PROVE  TypeOK'
<1> DEFINE g == task[t].g
<1>0. /\ approved \subseteq Runs \X (Bars \cup {Empty, Unscored})
      /\ FALSE \in BOOLEAN /\ NoOverride \in Asks
  BY DEF TypeOK, Asks
<1>1. CASE GateInterrupt(t) BY <1>1, TaskTypes
<1>2. CASE ~GateInterrupt(t)
  <2>0. task[t].pc # "idle" BY <1>2 DEF GraphStep, Superstep, RunParse,
          RunSearch, RunNormalize, RunScore, RunExplain, RunSelect, RunReplan,
          GateForce, GateDecide
  <2> g \in GraphState /\ task[t].run \in Runs /\ task[t].say \in Says
    BY <2>0, LiveTasks
  <2>a. <<task[t].run, FinalList(g)>> \in Runs \X (Bars \cup {Empty, Unscored})
    BY FinalListType
  <2>1. CASE RunParse(t)
    BY <2>1, <1>0, NodeTypes, SuperstepTypes DEF RunParse
  <2>2. CASE RunSearch(t)
    BY <2>2, <1>0, NodeTypes, SuperstepTypes DEF RunSearch
  <2>3. CASE RunNormalize(t)
    BY <2>3, <1>0, NodeTypes, SuperstepTypes DEF RunNormalize
  <2>4. CASE RunScore(t)
    BY <2>4, <1>0, NodeTypes, SuperstepTypes DEF RunScore
  <2>5. CASE RunExplain(t)
    BY <2>5, <1>0, NodeTypes, SuperstepTypes DEF RunExplain
  <2>6. CASE RunSelect(t)
    BY <2>6, <1>0, NodeTypes, SuperstepTypes DEF RunSelect
  <2>7. CASE RunReplan(t)
    BY <2>7, <1>0, NodeTypes, SuperstepTypes DEF RunReplan
  <2>8. CASE GateForce(t)
    BY <2>8, <1>0, <2>a, NodeTypes, SuperstepTypes DEF GateForce
  <2>9. CASE GateDecide(t)
    <3>1. CASE /\ Superstep(t, "await_approval", GateApprove(g))
               /\ approved' = approved \cup {<<task[t].run, FinalList(g)>>}
      BY <3>1, <1>0, <2>a, NodeTypes, SuperstepTypes
    <3>2. CASE /\ Superstep(t, "await_approval",
                            GateReject(g, task[t].say.overrides))
               /\ UNCHANGED approved
      <4>1. task[t].say.overrides \in Asks BY <1>0 DEF Says
      <4>2. QED BY <3>2, <4>1, <1>0, NodeTypes, SuperstepTypes
    <3>3. QED BY <2>9, <3>1, <3>2 DEF GateDecide
  <2>10. QED
    BY <1>2, <2>1, <2>2, <2>3, <2>4, <2>5, <2>6, <2>7, <2>8, <2>9
    DEF GraphStep
<1>3. QED BY <1>1, <1>2

\* The process dies.
LEMMA CrashTypes == TypeOK /\ Crash => TypeOK'
<1> SUFFICES ASSUME TypeOK, Crash PROVE TypeOK' OBVIOUS
<1>1. task' \in [Tasks -> LiveTask \cup {Idle}] BY DEF Crash
<1>2. \A t \in Tasks : task[t].pc # "idle" => task[t].run \in Runs BY LiveTasks
<1>3. lost' \subseteq Runs BY <1>2 DEF Crash, TypeOK
<1>4. crashes' \in 0..MaxCrashes BY BoundsAssumption DEF Crash, TypeOK
<1>5. QED BY <1>1, <1>3, <1>4 DEF Crash, TypeOK

\* Every reachable state is well typed, for any bounds (the whole module).
THEOREM TypeCorrect == Spec => []TypeOK
<1>1. Init => TypeOK BY InitType
<1>2. TypeOK /\ [Next]_vars => TypeOK'
  <2> SUFFICES ASSUME TypeOK, [Next]_vars PROVE TypeOK' OBVIOUS
  <2>1. ASSUME NEW t \in Tasks, TaskStep(t) PROVE TypeOK'
    BY <2>1, TaskTypes, GraphStepTypes DEF TaskStep
  <2>2. ASSUME NEW t \in Tasks, TaskFault(t) PROVE TypeOK'
    BY <2>2, TaskTypes DEF TaskFault
  <2>3. CASE \E r \in Runs, t \in Tasks, o \in Asks : Kick(r, o, t)
    BY <2>3, RequestTypes
  <2>4. CASE \E r \in Runs, t \in Tasks, say \in Payloads : Resume(r, say, t)
    BY <2>4, RequestTypes
  <2>5. CASE Crash BY <2>5, CrashTypes
  <2>6. CASE UNCHANGED vars BY <2>6 DEF vars, TypeOK
  <2>7. QED BY <2>1, <2>2, <2>3, <2>4, <2>5, <2>6 DEF Next
<1>3. QED BY <1>1, <1>2, PTL DEF Spec

----------------------------------------------------------------------------
(* The states a pass through the graph produces *)

\* The bar the last rejection asked for, or the members' own.
Wanted(g) == IF g.asked = NoOverride THEN GroupBar ELSE g.asked

(***************************************************************************)
(* RejectionsHonoured speaks of the gate only; it is inductive once it     *)
(* says what holds at every node before it: past parse_preferences the bar *)
(* in force is the wanted one and no override is pending, except between   *)
(* the gate and replan, where the pending override is the wanted one.      *)
(* ReplanBounded is inductive once it says that the count is the number of *)
(* rejections until an override that carries a count is submitted.         *)
(***************************************************************************)
GraphInv(g) ==
    /\ ~g.recounted => g.loops = g.iter /\ g.loops <= MAX_REPLAN_ITERATIONS
    /\ g.next = "parse_preferences" =>
          g.asked = NoOverride /\ g.loops = 0 /\ ~g.recounted
    /\ g.next = "replan" /\ ~g.recounted => g.ask \notin DOMAIN Counters
    /\ g.next \notin {"parse_preferences", "replan"} =>
          g.bar = Wanted(g) /\ g.ask = NoOverride
    /\ g.next = "replan" =>
          (IF g.ask = NoOverride THEN g.bar ELSE g.ask) = Wanted(g)
    /\ g.next = "explain_candidates" => g.cands \in {Wanted(g), Empty}
    /\ g.next \in {"select_winner", "await_approval", "END"} =>
          g.shortlist \in {Wanted(g), Empty}

StateInv ==
    /\ \A t \in Tasks : GraphInv(task[t].g)
    /\ \A r \in Runs : thread[r] # NoThread => GraphInv(thread[r])

LEMMA InitialInv ==
    ASSUME NEW o \in Asks
    PROVE  GraphInv(InitialGraph(o))
BY MaxReplanAssumption DEF GraphInv, InitialGraph, Wanted

\* Each node, run where the graph runs it, produces such a state.
LEMMA NodeInv ==
    ASSUME NEW g \in GraphState, GraphInv(g), NEW b \in BOOLEAN
    PROVE  /\ g.next = "parse_preferences" => GraphInv(ParsePreferences(g))
           /\ g.next = "search_places" => GraphInv(SearchPlaces(g, b))
           /\ g.next = "normalize_places" => GraphInv(NormalizePlaces(g, b))
           /\ g.next = "score_candidates" => GraphInv(ScoreCandidates(g))
           /\ g.next = "explain_candidates" => GraphInv(ExplainCandidates(g))
           /\ g.next = "select_winner" => GraphInv(SelectWinner(g))
           /\ g.next = "replan" => GraphInv(Replan(g))
<1> USE DEF GraphState, GraphInv, Wanted
<1>1. g.next = "parse_preferences" => GraphInv(ParsePreferences(g))
  BY MaxReplanAssumption DEF ParsePreferences
<1>2. g.next = "search_places" => GraphInv(SearchPlaces(g, b))
  BY DEF SearchPlaces
<1>3. g.next = "normalize_places" => GraphInv(NormalizePlaces(g, b))
  BY DEF NormalizePlaces
<1>4. g.next = "score_candidates" => GraphInv(ScoreCandidates(g))
  BY DEF ScoreCandidates
<1>5. g.next = "explain_candidates" => GraphInv(ExplainCandidates(g))
  BY DEF ExplainCandidates
<1>6. g.next = "select_winner" => GraphInv(SelectWinner(g))
  BY DEF SelectWinner
<1>7. g.next = "replan" => GraphInv(Replan(g))
  BY DEF Replan
<1>8. QED BY ONLY <1>1, <1>2, <1>3, <1>4, <1>5, <1>6, <1>7

\* So does the gate, whatever is decided there; a rejection below the cap
\* leaves the number of rejections at most at the cap.
LEMMA GateInv ==
    ASSUME NEW g \in GraphState, GraphInv(g), g.next = "await_approval",
           NEW o \in Asks
    PROVE  /\ GraphInv(ForceApprove(g))
           /\ GraphInv(GateApprove(g))
           /\ ~GateIsForced(g) => GraphInv(GateReject(g, o))
<1> USE DEF GraphState, GraphInv, Wanted, RouteAfterApproval
<1>1. GraphInv(ForceApprove(g)) BY DEF ForceApprove
<1>2. GraphInv(GateApprove(g)) BY DEF GateApprove
<1>3. ~GateIsForced(g) => GraphInv(GateReject(g, o))
  <2> SUFFICES ASSUME g.iter < MAX_REPLAN_ITERATIONS PROVE GraphInv(GateReject(g, o))
    BY MaxReplanAssumption DEF GateIsForced
  <2> DEFINE h == GateReject(g, o)
  <2>1. /\ h.next = "replan" /\ h.ask = o /\ h.bar = g.bar /\ h.iter = g.iter + 1
        /\ h.asked = (IF o = NoOverride THEN g.asked ELSE o)
        /\ h.loops = g.loops + 1
        /\ h.recounted = (g.recounted \/ o \in DOMAIN Counters)
    BY DEF GateReject
  <2>2. ASSUME ~h.recounted
        PROVE  /\ h.loops = h.iter /\ h.loops <= MAX_REPLAN_ITERATIONS
               /\ h.ask \notin DOMAIN Counters
    <3>1. ~g.recounted /\ o \notin DOMAIN Counters BY ONLY <2>1, <2>2
    <3>2. g.loops = g.iter /\ g.loops \in Nat BY <3>1
    <3> HIDE DEF h
    <3> QED BY <2>1, <3>1, <3>2, MaxReplanAssumption
  <2> HIDE DEF h
  <2> QED BY <2>1, <2>2 DEF h
<1>4. QED BY ONLY <1>1, <1>2, <1>3

\* A task and, if it commits, its thread move to such a state together.
LEMMA StateMove ==
    ASSUME TypeOK, StateInv, NEW t \in Tasks, NEW new, GraphInv(new.g),
           task' = [task EXCEPT ![t] = new],
           \/ UNCHANGED thread
           \/ \E r \in Runs : thread' = [thread EXCEPT ![r] = new.g]
    PROVE  StateInv'
BY DEF TypeOK, StateInv, GraphInv, Wanted

\* A committed superstep moves both.
LEMMA SuperstepInv ==
    ASSUME TypeOK, StateInv, NEW t \in Tasks, NEW node, NEW g2,
           Superstep(t, node, g2), GraphInv(g2)
    PROVE  StateInv'
<1> DEFINE pc == IF g2.next = "END" THEN "publishing" ELSE "driving"
           new == [task[t] EXCEPT !.g = g2, !.say = NoSay, !.pc = pc]
<1>1. task[t] \in LiveTask /\ task[t].run \in Runs BY LiveTasks DEF Superstep
<1>2. task' = [task EXCEPT ![t] = new] BY DEF Superstep, TypeOK
<1>3. new.g = g2 BY <1>1 DEF LiveTask
<1>4. thread' = [thread EXCEPT ![task[t].run] = new.g] BY <1>3 DEF Superstep
<1>5. GraphInv(new.g) BY <1>3
<1> HIDE DEF new
<1>6. QED BY <1>1, <1>2, <1>4, <1>5, StateMove

LEMMA GraphStepInv ==
    ASSUME TypeOK, StateInv, NEW t \in Tasks, GraphStep(t), ~GateInterrupt(t)
    PROVE  StateInv'
<1> DEFINE g == task[t].g
<1>0. /\ task[t].pc # "idle"
      /\ NoOverride \in Asks /\ FALSE \in BOOLEAN
  BY DEF Asks, GraphStep, Superstep, RunParse, RunSearch, RunNormalize,
         RunScore, RunExplain, RunSelect, RunReplan, GateForce, GateDecide
<1>g. g \in GraphState /\ GraphInv(g) /\ task[t].say \in Says
  BY <1>0, LiveTasks DEF StateInv
<1>1. CASE RunParse(t)
  BY <1>0, <1>1, <1>g, NodeInv, SuperstepInv DEF RunParse, Superstep
<1>2. CASE RunSearch(t)
  <2>1. PICK b \in BOOLEAN : Superstep(t, "search_places", SearchPlaces(g, b))
    BY <1>2 DEF RunSearch
  <2>2. GraphInv(SearchPlaces(g, b)) BY <1>g, <2>1, NodeInv DEF Superstep
  <2>3. QED BY <2>1, <2>2, SuperstepInv
<1>3. CASE RunNormalize(t)
  <2>1. PICK b \in BOOLEAN :
          Superstep(t, "normalize_places", NormalizePlaces(g, b))
    BY <1>3 DEF RunNormalize
  <2>2. GraphInv(NormalizePlaces(g, b)) BY <1>g, <2>1, NodeInv DEF Superstep
  <2>3. QED BY <2>1, <2>2, SuperstepInv
<1>4. CASE RunScore(t)
  BY <1>0, <1>4, <1>g, NodeInv, SuperstepInv DEF RunScore, Superstep
<1>5. CASE RunExplain(t)
  BY <1>0, <1>5, <1>g, NodeInv, SuperstepInv DEF RunExplain, Superstep
<1>6. CASE RunSelect(t)
  BY <1>0, <1>6, <1>g, NodeInv, SuperstepInv DEF RunSelect, Superstep
<1>7. CASE RunReplan(t)
  BY <1>0, <1>7, <1>g, NodeInv, SuperstepInv DEF RunReplan, Superstep
<1>8. CASE GateForce(t)
  BY <1>0, <1>8, <1>g, GateInv, SuperstepInv DEF GateForce, Superstep
<1>9. CASE GateDecide(t)
  <2>1. ~GateIsForced(g) BY <1>9 DEF GateDecide
  <2>2. CASE Superstep(t, "await_approval", GateApprove(g))
    BY <2>2, <1>0, <1>g, GateInv, SuperstepInv DEF Superstep
  <2>3. CASE Superstep(t, "await_approval", GateReject(g, task[t].say.overrides))
    <3>1. task[t].say.overrides \in Asks BY <1>0, <1>g DEF Says
    <3>2. GraphInv(GateReject(g, task[t].say.overrides))
      BY <2>1, <2>3, <3>1, <1>g, GateInv DEF Superstep
    <3>3. QED BY <2>3, <3>2, SuperstepInv
  <2>4. QED BY <1>9, <2>2, <2>3 DEF GateDecide
<1>10. QED
  BY <1>1, <1>2, <1>3, <1>4, <1>5, <1>6, <1>7, <1>8, <1>9 DEF GraphStep

\* A step that writes no graph state, except that a task may be dropped or
\* adopt its thread's.
LEMMA TaskInv ==
    ASSUME TypeOK, StateInv, NEW t \in Tasks,
           \/ StartGraph(t) \/ LoadThread(t) \/ GateInterrupt(t)
           \/ GraphRaises(t) \/ WriteRankings(t) \/ WriteRankingsFails(t)
           \/ EndInterrupted(t) \/ EndSucceeded(t) \/ EndFailed(t)
           \/ EndRunFails(t)
    PROVE  StateInv'
<1>live. ASSUME NEW pc, task[t].pc # "idle", task' = [task EXCEPT ![t].pc = pc],
                \/ UNCHANGED thread
                \/ \E r \in Runs : thread' = [thread EXCEPT ![r] = task[t].g]
         PROVE  StateInv'
  <2> DEFINE new == [task[t] EXCEPT !.pc = pc]
  <2>1. task[t] \in LiveTask BY <1>live, LiveTasks
  <2>2. task' = [task EXCEPT ![t] = new] BY <1>live DEF TypeOK
  <2>3. new.g = task[t].g BY <2>1 DEF LiveTask
  <2>4. GraphInv(new.g) BY <2>3 DEF StateInv
  <2> HIDE DEF new
  <2>5. QED BY <1>live, <2>2, <2>3, <2>4, StateMove
<1>idle. ASSUME task' = [task EXCEPT ![t] = Idle], UNCHANGED thread
         PROVE  StateInv'
  <2>1. NoOverride \in Asks BY DEF Asks
  <2>2. Idle.g = InitialGraph(NoOverride) BY DEF Idle
  <2>3. GraphInv(Idle.g) BY <2>1, <2>2, InitialInv
  <2>4. QED BY <1>idle, <2>3, StateMove
<1>1. CASE StartGraph(t)
  <2>1. task[t].run \in Runs BY <1>1, LiveTasks DEF StartGraph
  <2>2. QED BY <1>1, <1>live, <2>1 DEF StartGraph
<1>2. CASE LoadThread(t)
  <2> DEFINE saved == thread[task[t].run]
             pc == IF saved = NoThread THEN "failing"
                   ELSE IF saved.next = "END" THEN "publishing" ELSE "driving"
             g2 == IF saved = NoThread THEN task[t].g ELSE saved
             new == [task[t] EXCEPT !.pc = pc, !.g = g2]
  <2>1. task[t] \in LiveTask /\ task[t].run \in Runs
    BY <1>2, LiveTasks DEF LoadThread
  <2>2. GraphInv(g2) BY <2>1 DEF StateInv
  <2>3. task' = [task EXCEPT ![t] = new] BY <1>2 DEF LoadThread, TypeOK
  <2> HIDE DEF pc, g2
  <2>4. new.g = g2 BY <2>1 DEF LiveTask
  <2>5. GraphInv(new.g) BY <2>2, <2>4
  <2> HIDE DEF new
  <2>6. QED BY <1>2, <2>3, <2>5, StateMove DEF LoadThread
<1>3. CASE GateInterrupt(t) BY <1>3, <1>live DEF GateInterrupt
<1>4. CASE GraphRaises(t) BY <1>4, <1>live DEF GraphRaises
<1>5. CASE WriteRankings(t) BY <1>5, <1>live DEF WriteRankings
<1>6. CASE WriteRankingsFails(t) BY <1>6, <1>live DEF WriteRankingsFails
<1>7. CASE EndInterrupted(t) BY <1>7, <1>idle DEF EndInterrupted, EndRun
<1>8. CASE EndSucceeded(t) BY <1>8, <1>idle DEF EndSucceeded, EndRun
<1>9. CASE EndFailed(t) BY <1>9, <1>idle DEF EndFailed, EndRun
<1>10. CASE EndRunFails(t) BY <1>10, <1>idle, <1>live DEF EndRunFails
<1>11. QED BY <1>1, <1>2, <1>3, <1>4, <1>5, <1>6, <1>7, <1>8, <1>9, <1>10

LEMMA RequestInv ==
    ASSUME TypeOK, StateInv, NEW r \in Runs, NEW t \in Tasks
    PROVE  /\ \A o \in Asks : Kick(r, o, t) => StateInv'
           /\ \A say \in Payloads : Resume(r, say, t) => StateInv'
<1>1. ASSUME NEW o \in Asks, Kick(r, o, t) PROVE StateInv'
  <2> DEFINE new == [pc |-> "starting", run |-> r, g |-> InitialGraph(o),
                     say |-> NoSay]
  <2>1. GraphInv(new.g) BY InitialInv
  <2>2. QED BY <1>1, <2>1, StateMove DEF Kick
<1>2. ASSUME NEW say \in Payloads, Resume(r, say, t) PROVE StateInv'
  <2> DEFINE new == [pc |-> "resuming", run |-> r,
                     g |-> InitialGraph(NoOverride), say |-> say]
  <2>1. NoOverride \in Asks BY DEF Asks
  <2>2. GraphInv(new.g) BY <2>1, InitialInv
  <2>3. QED BY <1>2, <2>2, StateMove DEF Resume
<1>3. QED BY <1>1, <1>2

\* Every state of the graph any task holds or any checkpoint stores is one
\* a pass through the nodes produces, concurrent drivers included.
THEOREM StatesWellFormed == Spec => []StateInv
<1>1. Init => StateInv
  <2>1. NoOverride \in Asks BY DEF Asks
  <2>2. GraphInv(Idle.g) BY <2>1, InitialInv DEF Idle
  <2>3. QED BY <2>2 DEF Init, StateInv
<1>2. TypeOK /\ StateInv /\ [Next]_vars => StateInv'
  <2> SUFFICES ASSUME TypeOK, StateInv, [Next]_vars PROVE StateInv' OBVIOUS
  <2>1. ASSUME NEW t \in Tasks, TaskStep(t) PROVE StateInv'
    BY <2>1, TaskInv, GraphStepInv DEF TaskStep
  <2>2. ASSUME NEW t \in Tasks, TaskFault(t) PROVE StateInv'
    BY <2>2, TaskInv DEF TaskFault
  <2>3. CASE \E r \in Runs, t \in Tasks, o \in Asks : Kick(r, o, t)
    BY <2>3, RequestInv
  <2>4. CASE \E r \in Runs, t \in Tasks, say \in Payloads : Resume(r, say, t)
    BY <2>4, RequestInv
  <2>5. CASE Crash
    <3>1. NoOverride \in Asks BY DEF Asks
    <3>2. GraphInv(Idle.g) BY <3>1, InitialInv DEF Idle
    <3>3. \A t \in Tasks : task'[t] = Idle BY <2>5 DEF Crash
    <3>4. UNCHANGED thread BY <2>5 DEF Crash
    <3>5. QED BY <3>2, <3>3, <3>4 DEF StateInv, GraphInv, Wanted
  <2>6. CASE UNCHANGED vars BY <2>6 DEF vars, StateInv, GraphInv, Wanted
  <2>7. QED BY <2>1, <2>2, <2>3, <2>4, <2>5, <2>6 DEF Next
<1>3. QED BY <1>1, <1>2, TypeCorrect, PTL DEF Spec

\* The proposal at the gate after a rejection was scored with what the
\* owner asked for.
THEOREM RejectionsAreHonoured == Spec => []RejectionsHonoured
<1>1. TypeOK /\ StateInv => RejectionsHonoured
  BY DEF StateInv, GraphInv, Wanted, RejectionsHonoured, HonoursRejection
<1>2. QED BY <1>1, TypeCorrect, StatesWellFormed, PTL

\* await_approval and replan: no state goes through more rejections than the
\* cap unless one of them carried _replan_iteration among its overrides.
THEOREM ReplanIsBounded == Spec => []ReplanBounded
<1>1. TypeOK /\ StateInv => ReplanBounded
  <2> SUFFICES ASSUME TypeOK, StateInv PROVE ReplanBounded OBVIOUS
  <2>1. ASSUME NEW g \in GraphState, GraphInv(g) PROVE Capped(g)
    BY <2>1, MaxReplanAssumption DEF GraphState, GraphInv, Capped
  <2>2. \A t \in Tasks : task[t].g \in GraphState
    BY LiveTasks, InitialType DEF TypeOK, LiveTask, Idle, Asks
  <2> QED BY <2>1, <2>2 DEF StateInv, TypeOK, ReplanBounded
<1>2. QED BY <1>1, TypeCorrect, StatesWellFormed, PTL

----------------------------------------------------------------------------
(* What is published and what is closed was approved *)

\* A state at END carries a list that a gate approved for its run.
EndApproved(r, g) == g.next = "END" => <<r, FinalList(g)>> \in approved

ApprovalInv ==
    /\ \A t \in Tasks : task[t].pc \in {"publishing", "closing"} =>
          task[t].g.next = "END" /\ EndApproved(task[t].run, task[t].g)
    /\ \A t \in Tasks : task[t].pc = "starting" => task[t].g.next # "END"
    /\ \A r \in Runs : thread[r] # NoThread => EndApproved(r, thread[r])
    /\ PublishedWasApproved
    /\ SucceededWasApproved

\* A slot changes, the checkpoint of one run may change with it, no run
\* becomes a success and nothing is published.
LEMMA ApprovalMove ==
    ASSUME TypeOK, ApprovalInv, NEW t \in Tasks, NEW new,
           task' = [task EXCEPT ![t] = new],
           new.pc \in {"publishing", "closing"} =>
               new.g.next = "END" /\ <<new.run, FinalList(new.g)>> \in approved',
           new.pc = "starting" => new.g.next # "END",
           \/ UNCHANGED thread
           \/ \E r \in Runs : \E g2 :
                 /\ thread' = [thread EXCEPT ![r] = g2]
                 /\ g2.next = "END" => <<r, FinalList(g2)>> \in approved',
           approved \subseteq approved',
           \A r \in Runs :
               status'[r] = "succeeded" => status[r] = "succeeded",
           UNCHANGED rankings
    PROVE  ApprovalInv'
<1>1. ASSUME NEW u \in Tasks, task'[u].pc \in {"publishing", "closing"}
      PROVE  /\ task'[u].g.next = "END"
             /\ <<task'[u].run, FinalList(task'[u].g)>> \in approved'
  BY <1>1 DEF ApprovalInv, EndApproved, TypeOK
<1>2. ASSUME NEW r \in Runs, thread'[r] # NoThread, thread'[r].next = "END"
      PROVE  <<r, FinalList(thread'[r])>> \in approved'
  BY <1>2 DEF ApprovalInv, EndApproved, TypeOK
<1>3. PublishedWasApproved' BY DEF ApprovalInv, PublishedWasApproved
<1>4. SucceededWasApproved' BY DEF ApprovalInv, SucceededWasApproved
<1>5. \A u \in Tasks : task'[u].pc = "starting" => task'[u].g.next # "END"
  BY DEF ApprovalInv, TypeOK
<1>6. QED
  BY <1>1, <1>2, <1>3, <1>4, <1>5 DEF ApprovalInv, EndApproved, FinalList

\* A superstep reaches END only with an approved list.
LEMMA SuperstepApproval ==
    ASSUME TypeOK, ApprovalInv, NEW t \in Tasks, NEW node, NEW g2,
           Superstep(t, node, g2), approved \subseteq approved',
           g2.next = "END" => <<task[t].run, FinalList(g2)>> \in approved'
    PROVE  ApprovalInv'
<1> DEFINE pc == IF g2.next = "END" THEN "publishing" ELSE "driving"
           new == [task[t] EXCEPT !.g = g2, !.say = NoSay, !.pc = pc]
<1>1. task[t] \in LiveTask /\ task[t].run \in Runs BY LiveTasks DEF Superstep
<1>2. task' = [task EXCEPT ![t] = new] BY DEF Superstep, TypeOK
<1>3. new.g = g2 /\ new.pc = pc /\ new.run = task[t].run BY <1>1 DEF LiveTask
<1>4. \E r \in Runs : \E h :
        /\ thread' = [thread EXCEPT ![r] = h]
        /\ h.next = "END" => <<r, FinalList(h)>> \in approved'
  BY <1>1 DEF Superstep
<1>5. new.pc \in {"publishing", "closing"} =>
        new.g.next = "END" /\ <<new.run, FinalList(new.g)>> \in approved'
  BY <1>3
<1>a. new.pc # "starting" BY <1>3
<1>6. UNCHANGED <<status, rankings>> BY DEF Superstep
<1> HIDE DEF new
<1>7. QED BY <1>2, <1>4, <1>5, <1>a, <1>6, ApprovalMove

\* Which nodes leave the graph: only the gate, and it keeps the lists.
LEMMA Exits ==
    ASSUME NEW g \in GraphState, NEW b \in BOOLEAN, NEW o \in Asks
    PROVE  /\ ParsePreferences(g).next # "END"
           /\ SearchPlaces(g, b).next # "END"
           /\ NormalizePlaces(g, b).next # "END"
           /\ ScoreCandidates(g).next # "END"
           /\ ExplainCandidates(g).next # "END"
           /\ SelectWinner(g).next # "END"
           /\ Replan(g).next # "END"
           /\ GateReject(g, o).next # "END"
           /\ FinalList(ForceApprove(g)) = FinalList(g)
           /\ FinalList(GateApprove(g)) = FinalList(g)
BY DEF GraphState, ParsePreferences, SearchPlaces, NormalizePlaces,
       ScoreCandidates, ExplainCandidates, SelectWinner, Replan, GateReject,
       RouteAfterApproval, FinalList, ForceApprove, GateApprove

LEMMA GraphStepApproval ==
    ASSUME TypeOK, ApprovalInv, NEW t \in Tasks, GraphStep(t), ~GateInterrupt(t)
    PROVE  ApprovalInv'
<1> DEFINE g == task[t].g
<1>0. /\ task[t].pc # "idle"
      /\ NoOverride \in Asks /\ FALSE \in BOOLEAN
  BY DEF Asks, GraphStep, Superstep, RunParse, RunSearch, RunNormalize,
         RunScore, RunExplain, RunSelect, RunReplan, GateForce, GateDecide
<1>g. g \in GraphState /\ task[t].say \in Says BY <1>0, LiveTasks
<1>1. CASE RunParse(t)
  BY <1>0, <1>1, <1>g, Exits, SuperstepApproval DEF RunParse
<1>2. CASE RunSearch(t)
  <2>1. PICK b \in BOOLEAN : Superstep(t, "search_places", SearchPlaces(g, b))
    BY <1>2 DEF RunSearch
  <2>2. SearchPlaces(g, b).next # "END" BY <1>0, <1>g, Exits
  <2>3. QED BY <1>2, <2>1, <2>2, SuperstepApproval DEF RunSearch
<1>3. CASE RunNormalize(t)
  <2>1. PICK b \in BOOLEAN :
          Superstep(t, "normalize_places", NormalizePlaces(g, b))
    BY <1>3 DEF RunNormalize
  <2>2. NormalizePlaces(g, b).next # "END" BY <1>0, <1>g, Exits
  <2>3. QED BY <1>3, <2>1, <2>2, SuperstepApproval DEF RunNormalize
<1>4. CASE RunScore(t)
  BY <1>0, <1>4, <1>g, Exits, SuperstepApproval DEF RunScore
<1>5. CASE RunExplain(t)
  BY <1>0, <1>5, <1>g, Exits, SuperstepApproval DEF RunExplain
<1>6. CASE RunSelect(t)
  BY <1>0, <1>6, <1>g, Exits, SuperstepApproval DEF RunSelect
<1>7. CASE RunReplan(t)
  BY <1>0, <1>7, <1>g, Exits, SuperstepApproval DEF RunReplan
<1>8. CASE GateForce(t)
  BY <1>0, <1>8, <1>g, Exits, SuperstepApproval DEF GateForce
<1>9. CASE GateDecide(t)
  <2>1. CASE /\ Superstep(t, "await_approval", GateApprove(g))
             /\ approved' = approved \cup {<<task[t].run, FinalList(g)>>}
    BY <2>1, <1>0, <1>g, Exits, SuperstepApproval
  <2>2. CASE /\ Superstep(t, "await_approval",
                          GateReject(g, task[t].say.overrides))
             /\ UNCHANGED approved
    <3>1. task[t].say.overrides \in Asks BY <1>0, <1>g DEF Says
    <3>2. GateReject(g, task[t].say.overrides).next # "END"
      BY <3>1, <1>0, <1>g, Exits
    <3>3. QED BY <2>2, <3>2, SuperstepApproval
  <2>3. QED BY <1>9, <2>1, <2>2 DEF GateDecide
<1>10. QED
  BY <1>1, <1>2, <1>3, <1>4, <1>5, <1>6, <1>7, <1>8, <1>9 DEF GraphStep

\* The steps of a task around the graph.
LEMMA TaskApproval ==
    ASSUME TypeOK, ApprovalInv, NEW t \in Tasks,
           \/ StartGraph(t) \/ LoadThread(t) \/ GateInterrupt(t)
           \/ GraphRaises(t) \/ WriteRankings(t) \/ WriteRankingsFails(t)
           \/ EndInterrupted(t) \/ EndSucceeded(t) \/ EndFailed(t)
           \/ EndRunFails(t)
    PROVE  ApprovalInv'
<1> DEFINE Quiet == /\ approved \subseteq approved'
                    /\ \A r \in Runs : status'[r] = "succeeded"
                                          => status[r] = "succeeded"
                    /\ UNCHANGED rankings
<1>live. ASSUME NEW pc, task[t].pc # "idle", task' = [task EXCEPT ![t].pc = pc],
                pc # "starting",
                pc \in {"publishing", "closing"}
                    => task[t].pc \in {"publishing", "closing"},
                \/ UNCHANGED thread
                \/ /\ task[t].pc = "starting"
                   /\ thread' = [thread EXCEPT ![task[t].run] = task[t].g],
                Quiet
         PROVE  ApprovalInv'
  <2> DEFINE new == [task[t] EXCEPT !.pc = pc]
  <2>1. task[t] \in LiveTask /\ task[t].run \in Runs BY <1>live, LiveTasks
  <2>2. task' = [task EXCEPT ![t] = new] BY <1>live DEF TypeOK
  <2>3. new.g = task[t].g /\ new.pc = pc /\ new.run = task[t].run
    BY <2>1 DEF LiveTask
  <2>4. new.pc \in {"publishing", "closing"} =>
          new.g.next = "END" /\ <<new.run, FinalList(new.g)>> \in approved'
    BY <1>live, <2>3 DEF ApprovalInv, EndApproved
  <2>5. \/ UNCHANGED thread
        \/ \E r \in Runs : \E g2 :
              /\ thread' = [thread EXCEPT ![r] = g2]
              /\ g2.next = "END" => <<r, FinalList(g2)>> \in approved'
    BY <1>live, <2>1 DEF ApprovalInv
  <2>6. new.pc # "starting" BY <1>live, <2>3
  <2> HIDE DEF new
  <2>7. QED BY <1>live, <2>2, <2>4, <2>5, <2>6, ApprovalMove
<1>idle. ASSUME task' = [task EXCEPT ![t] = Idle], UNCHANGED thread, Quiet
         PROVE  ApprovalInv'
  <2>1. Idle.pc = "idle" BY DEF Idle
  <2>2. QED BY <1>idle, <2>1, ApprovalMove
<1>end. ASSUME NEW closed, EndRun(t, closed),
               closed # "succeeded", task[t].pc # "idle"
        PROVE  ApprovalInv'
  <2>1. \A r \in Runs : status'[r] = "succeeded" => status[r] = "succeeded"
    BY <1>end DEF EndRun, TypeOK
  <2>2. QED BY <1>end, <1>idle, <2>1 DEF EndRun
<1>1. CASE StartGraph(t) BY <1>1, <1>live DEF StartGraph
<1>2. CASE LoadThread(t)
  <2> DEFINE saved == thread[task[t].run]
             pc == IF saved = NoThread THEN "failing"
                   ELSE IF saved.next = "END" THEN "publishing" ELSE "driving"
             g2 == IF saved = NoThread THEN task[t].g ELSE saved
             new == [task[t] EXCEPT !.pc = pc, !.g = g2]
  <2>1. task[t] \in LiveTask /\ task[t].run \in Runs
    BY <1>2, LiveTasks DEF LoadThread
  <2>2. task' = [task EXCEPT ![t] = new] BY <1>2 DEF LoadThread, TypeOK
  <2>3. /\ pc \in {"publishing", "closing"} =>
             g2.next = "END" /\ <<task[t].run, FinalList(g2)>> \in approved
        /\ pc # "starting"
    BY <2>1 DEF ApprovalInv, EndApproved
  <2> HIDE DEF pc, g2
  <2>4. new.g = g2 /\ new.pc = pc /\ new.run = task[t].run BY <2>1 DEF LiveTask
  <2>5. /\ new.pc \in {"publishing", "closing"} =>
             new.g.next = "END" /\ <<new.run, FinalList(new.g)>> \in approved'
        /\ new.pc # "starting"
    BY <1>2, <2>3, <2>4 DEF LoadThread
  <2> HIDE DEF new
  <2>6. QED BY <1>2, <2>2, <2>5, ApprovalMove DEF LoadThread
<1>3. CASE GateInterrupt(t) BY <1>3, <1>live DEF GateInterrupt
<1>4. CASE GraphRaises(t) BY <1>4, <1>live DEF GraphRaises
<1>5. CASE WriteRankings(t)
  <2> DEFINE list == FinalList(task[t].g)
             new == [task[t] EXCEPT !.pc = "closing"]
             batch == [run |-> task[t].run, list |-> list]
  <2>1. task[t] \in LiveTask BY <1>5, LiveTasks DEF WriteRankings
  <2>2. <<task[t].run, list>> \in approved /\ task[t].g.next = "END"
    BY <1>5 DEF WriteRankings, ApprovalInv, EndApproved
  <2>3. rankings' = rankings \/ rankings' = Append(rankings, batch)
    BY <1>5 DEF WriteRankings
  <2>4. PublishedWasApproved'
    <3>1. UNCHANGED approved BY <1>5 DEF WriteRankings
    <3>2. CASE rankings' = rankings
      BY <3>1, <3>2 DEF ApprovalInv, PublishedWasApproved
    <3>3. CASE rankings' = Append(rankings, batch)
      <4>1. ASSUME NEW i \in DOMAIN rankings'
            PROVE  <<rankings'[i].run, rankings'[i].list>> \in approved
        <5>1. CASE i \in DOMAIN rankings
          BY <3>3, <5>1 DEF ApprovalInv, PublishedWasApproved, TypeOK
        <5>2. CASE i \notin DOMAIN rankings
          <6>1. rankings'[i] = batch BY <3>3, <5>2 DEF TypeOK
          <6>2. QED BY <2>2, <6>1
        <5>3. QED BY <5>1, <5>2
      <4>2. QED BY <3>1, <4>1 DEF PublishedWasApproved
    <3>4. QED BY <2>3, <3>2, <3>3
  <2>5. task' = [task EXCEPT ![t] = new] BY <1>5 DEF WriteRankings, TypeOK
  <2>6. new.g = task[t].g /\ new.run = task[t].run /\ new.pc = "closing"
    BY <2>1 DEF LiveTask
  <2> HIDE DEF new
  <2>7. \A u \in Tasks : task'[u].pc \in {"publishing", "closing"} =>
          task'[u].g.next = "END" /\ <<task'[u].run, FinalList(task'[u].g)>> \in approved
    BY <2>2, <2>5, <2>6 DEF ApprovalInv, EndApproved, TypeOK
  <2>8. \A u \in Tasks : task'[u].pc = "starting" => task'[u].g.next # "END"
    BY <2>5, <2>6 DEF ApprovalInv, TypeOK
  <2>9. UNCHANGED <<status, thread, approved>> BY <1>5 DEF WriteRankings
  <2>10. QED
    BY <2>4, <2>7, <2>8, <2>9
    DEF ApprovalInv, EndApproved, SucceededWasApproved, FinalList
<1>6. CASE WriteRankingsFails(t) BY <1>6, <1>live DEF WriteRankingsFails
<1>7. CASE EndInterrupted(t) BY <1>7, <1>end DEF EndInterrupted
<1>8. CASE EndSucceeded(t)
  <2>1. <<task[t].run, FinalList(task[t].g)>> \in approved
    BY <1>8 DEF EndSucceeded, ApprovalInv, EndApproved
  <2>2. \A u \in Tasks : task'[u] = IF u = t THEN Idle ELSE task[u]
    BY <1>8 DEF EndSucceeded, EndRun, TypeOK
  <2>3. Idle.pc = "idle" BY DEF Idle
  <2>4. UNCHANGED <<thread, rankings, approved>>
    BY <1>8 DEF EndSucceeded, EndRun
  <2>5. SucceededWasApproved'
    <3>1. SUFFICES ASSUME NEW r \in Runs, status'[r] = "succeeded"
                   PROVE  \E pair \in approved : pair[1] = r
      BY <2>4 DEF SucceededWasApproved
    <3>2. CASE r = task[t].run BY <2>1, <3>2
    <3>3. CASE r # task[t].run
      <4>1. status'[r] = status[r] BY <1>8, <3>3 DEF EndSucceeded, EndRun, TypeOK
      <4>2. QED BY <3>1, <4>1 DEF ApprovalInv, SucceededWasApproved
    <3>4. QED BY <3>2, <3>3
  <2>6. QED
    BY <2>2, <2>3, <2>4, <2>5
    DEF ApprovalInv, EndApproved, PublishedWasApproved, FinalList
<1>9. CASE EndFailed(t) BY <1>9, <1>end DEF EndFailed
<1>10. CASE EndRunFails(t) BY <1>10, <1>idle, <1>live DEF EndRunFails
<1>11. QED BY <1>1, <1>2, <1>3, <1>4, <1>5, <1>6, <1>7, <1>8, <1>9, <1>10

LEMMA RequestApproval ==
    ASSUME TypeOK, ApprovalInv, NEW r \in Runs, NEW t \in Tasks
    PROVE  /\ \A o \in Asks : Kick(r, o, t) => ApprovalInv'
           /\ \A say \in Payloads : Resume(r, say, t) => ApprovalInv'
<1>row. status' = [status EXCEPT ![r] = "running"] =>
          \A q \in Runs : status'[q] = "succeeded"
                           => status[q] = "succeeded"
  BY DEF TypeOK, Statuses
<1>1. ASSUME NEW o \in Asks, Kick(r, o, t) PROVE ApprovalInv'
  <2> DEFINE new == [pc |-> "starting", run |-> r, g |-> InitialGraph(o),
                     say |-> NoSay]
  <2>1. new.g.next # "END" BY DEF InitialGraph
  <2>2. QED BY <1>1, <1>row, <2>1, ApprovalMove DEF Kick
<1>2. ASSUME NEW say \in Payloads, Resume(r, say, t) PROVE ApprovalInv'
  BY <1>2, <1>row, ApprovalMove DEF Resume
<1>3. QED BY <1>1, <1>2

\* Over all behaviours, a task that is about to publish or to close a run as
\* a success carries a list a gate approved.
THEOREM ApprovalInvariant == Spec => []ApprovalInv
<1>1. Init => ApprovalInv
  BY DEF Init, Idle, ApprovalInv, PublishedWasApproved, SucceededWasApproved
<1>2. TypeOK /\ ApprovalInv /\ [Next]_vars => ApprovalInv'
  <2> SUFFICES ASSUME TypeOK, ApprovalInv, [Next]_vars PROVE ApprovalInv' OBVIOUS
  <2>1. ASSUME NEW t \in Tasks, TaskStep(t) PROVE ApprovalInv'
    BY <2>1, TaskApproval, GraphStepApproval DEF TaskStep
  <2>2. ASSUME NEW t \in Tasks, TaskFault(t) PROVE ApprovalInv'
    BY <2>2, TaskApproval DEF TaskFault
  <2>3. CASE \E r \in Runs, t \in Tasks, o \in Asks : Kick(r, o, t)
    BY <2>3, RequestApproval
  <2>4. CASE \E r \in Runs, t \in Tasks, say \in Payloads : Resume(r, say, t)
    BY <2>4, RequestApproval
  <2>5. CASE Crash
    BY <2>5 DEF Crash, Idle, ApprovalInv, EndApproved, FinalList,
                PublishedWasApproved, SucceededWasApproved
  <2>6. CASE UNCHANGED vars
    BY <2>6 DEF vars, ApprovalInv, EndApproved, FinalList,
                PublishedWasApproved, SucceededWasApproved
  <2>7. QED BY <2>1, <2>2, <2>3, <2>4, <2>5, <2>6 DEF Next
<1>3. QED BY <1>1, <1>2, TypeCorrect, PTL DEF Spec

\* Every published batch was approved at a gate of its run.
THEOREM PublishedIsApproved == Spec => []PublishedWasApproved
<1>1. ApprovalInv => PublishedWasApproved BY DEF ApprovalInv
<1>2. QED BY <1>1, ApprovalInvariant, PTL

\* Every run shown as succeeded was approved.
THEOREM SucceededIsApproved == Spec => []SucceededWasApproved
<1>1. ApprovalInv => SucceededWasApproved BY DEF ApprovalInv
<1>2. QED BY <1>1, ApprovalInvariant, PTL

----------------------------------------------------------------------------
(* A run shown as running has a task *)

\* A slot is taken by a run exactly while a task is in it.
LEMMA SlotRun ==
    ASSUME TypeOK, NEW t \in Tasks, NEW r \in Runs, task[t].run = r
    PROVE  task[t].pc # "idle"
BY RunsAssumption DEF TypeOK, LiveTask, Pcs, Idle

\* Slots keep their runs and rows only lose the status "running".
LEMMA DrivenKept ==
    ASSUME TypeOK, RunningIsDriven,
           \A t \in Tasks : task'[t].run = task[t].run,
           \A r \in Runs : status'[r] = "running" => status[r] = "running",
           lost \subseteq lost'
    PROVE  RunningIsDriven'
BY DEF RunningIsDriven, Active

\* A task leaves its slot having closed its row or lost its run.
LEMMA DrivenClosed ==
    ASSUME TypeOK, RunningIsDriven, NEW t \in Tasks,
           task' = [task EXCEPT ![t] = Idle],
           \A r \in Runs :
               IF r = task[t].run THEN status'[r] # "running" \/ r \in lost'
                                  ELSE status'[r] = status[r],
           lost \subseteq lost'
    PROVE  RunningIsDriven'
<1> SUFFICES ASSUME NEW r \in Runs, status'[r] = "running", r \notin lost'
             PROVE  \E u \in Tasks : task'[u].run = r
  BY DEF RunningIsDriven, Active
<1>1. r # task[t].run OBVIOUS
<1>2. status[r] = "running" /\ r \notin lost BY <1>1
<1>3. PICK u \in Tasks : task[u].run = r
  BY <1>2 DEF RunningIsDriven, Active
<1>4. u # t BY <1>1, <1>3
<1>5. task'[u] = task[u] BY <1>4 DEF TypeOK
<1>6. QED BY <1>3, <1>5

\* A task of the run enters a free slot.
LEMMA DrivenRequested ==
    ASSUME TypeOK, RunningIsDriven, NEW t \in Tasks, NEW r \in Runs, NEW new,
           task[t].pc = "idle", new.run = r,
           task' = [task EXCEPT ![t] = new],
           status' = [status EXCEPT ![r] = "running"],
           UNCHANGED lost
    PROVE  RunningIsDriven'
<1> SUFFICES ASSUME NEW q \in Runs, status'[q] = "running", q \notin lost'
             PROVE  \E u \in Tasks : task'[u].run = q
  BY DEF RunningIsDriven, Active
<1>1. CASE q = r
  <2>1. task'[t].run = q BY <1>1 DEF TypeOK
  <2>2. QED BY <2>1
<1>2. CASE q # r
  <2>1. status[q] = "running" /\ q \notin lost BY <1>2 DEF TypeOK
  <2>2. PICK u \in Tasks : task[u].run = q
    BY <2>1 DEF RunningIsDriven, Active
  <2>3. u # t BY <2>2, SlotRun
  <2>4. task'[u] = task[u] BY <2>3 DEF TypeOK
  <2>5. QED BY <2>2, <2>4
<1>3. QED BY <1>1, <1>2

\* A superstep or another move inside a task.
LEMMA StepDriven ==
    ASSUME TypeOK, RunningIsDriven, NEW t \in Tasks,
           \/ GraphStep(t) \/ StartGraph(t) \/ LoadThread(t)
           \/ GraphRaises(t) \/ WriteRankings(t) \/ WriteRankingsFails(t)
    PROVE  RunningIsDriven'
<1>1. UNCHANGED <<status, lost>>
  BY DEF GraphStep, Superstep, RunParse, RunSearch, RunNormalize, RunScore,
         RunExplain, RunSelect, RunReplan, GateForce, GateDecide,
         GateInterrupt, StartGraph, LoadThread, GraphRaises, WriteRankings,
         WriteRankingsFails
<1>2. \A u \in Tasks : task'[u].run = task[u].run
  <2>1. task[t].pc # "idle"
    BY DEF GraphStep, Superstep, RunParse, RunSearch, RunNormalize, RunScore,
           RunExplain, RunSelect, RunReplan, GateForce, GateDecide,
           GateInterrupt, StartGraph, LoadThread, GraphRaises, WriteRankings,
           WriteRankingsFails
  <2>2. task[t] \in LiveTask BY <2>1, LiveTasks
  <2>3. ASSUME NEW pc, task' = [task EXCEPT ![t].pc = pc]
        PROVE  \A u \in Tasks : task'[u].run = task[u].run
    BY <2>2, <2>3 DEF TypeOK, LiveTask
  <2>4. ASSUME NEW pc, NEW g2, NEW say,
               task' = [task EXCEPT ![t].g = g2, ![t].say = say, ![t].pc = pc]
        PROVE  \A u \in Tasks : task'[u].run = task[u].run
    BY <2>2, <2>4 DEF TypeOK, LiveTask
  <2>5. ASSUME NEW pc, NEW g2, task' = [task EXCEPT ![t].pc = pc, ![t].g = g2]
        PROVE  \A u \in Tasks : task'[u].run = task[u].run
    BY <2>2, <2>5 DEF TypeOK, LiveTask
  <2>6. ASSUME NEW node, NEW g2, Superstep(t, node, g2)
        PROVE  \A u \in Tasks : task'[u].run = task[u].run
    BY <2>4, <2>6 DEF Superstep
  <2>7. CASE GraphStep(t)
    BY <2>3, <2>6, <2>7
    DEF GraphStep, RunParse, RunSearch, RunNormalize, RunScore,
        RunExplain, RunSelect, RunReplan, GateForce, GateDecide, GateInterrupt
  <2>8. CASE LoadThread(t) BY <2>5, <2>8 DEF LoadThread
  <2>9. QED
    BY <2>3, <2>7, <2>8
    DEF StartGraph, GraphRaises, WriteRankings, WriteRankingsFails
<1>3. QED BY <1>1, <1>2, DrivenKept

\* A closing write, or its failure.
LEMMA EndDriven ==
    ASSUME TypeOK, RunningIsDriven, NEW t \in Tasks,
           \/ EndInterrupted(t) \/ EndSucceeded(t) \/ EndFailed(t)
           \/ EndRunFails(t)
    PROVE  RunningIsDriven'
<1>end. ASSUME NEW closed \in {"interrupted", "succeeded", "failed"},
               EndRun(t, closed), task[t].pc # "idle"
        PROVE  RunningIsDriven'
  <2>1. task[t].run \in Runs BY <1>end, LiveTasks
  <2>2. \A r \in Runs :
          IF r = task[t].run THEN status'[r] # "running"
                             ELSE status'[r] = status[r]
    BY <1>end, <2>1 DEF EndRun, TypeOK
  <2>3. QED BY <1>end, <2>2, DrivenClosed DEF EndRun
<1>1. CASE EndInterrupted(t) BY <1>1, <1>end DEF EndInterrupted
<1>2. CASE EndSucceeded(t) BY <1>2, <1>end DEF EndSucceeded
<1>3. CASE EndFailed(t) BY <1>3, <1>end DEF EndFailed
<1>4. CASE EndRunFails(t)
  <2>1. CASE /\ task[t].pc = "pausing"
             /\ task' = [task EXCEPT ![t].pc = "failing"]
             /\ UNCHANGED lost
    <3>1. task[t] \in LiveTask BY <2>1, LiveTasks
    <3>2. \A u \in Tasks : task'[u].run = task[u].run
      BY <2>1, <3>1 DEF TypeOK, LiveTask
    <3>3. QED BY <1>4, <2>1, <3>2, DrivenKept DEF EndRunFails
  <2>2. CASE /\ task' = [task EXCEPT ![t] = Idle]
             /\ lost' = lost \cup {task[t].run}
    BY <1>4, <2>2, DrivenClosed DEF EndRunFails
  <2>3. QED BY <1>4, <2>1, <2>2 DEF EndRunFails
<1>5. QED BY <1>1, <1>2, <1>3, <1>4

\* A run shown as running has a task driving it, unless one was lost.
THEOREM RunningHasTask == Spec => []RunningIsDriven
<1>1. Init => RunningIsDriven BY DEF Init, RunningIsDriven
<1>2. TypeOK /\ RunningIsDriven /\ [Next]_vars => RunningIsDriven'
  <2> SUFFICES ASSUME TypeOK, RunningIsDriven, [Next]_vars
               PROVE  RunningIsDriven'
    OBVIOUS
  <2>1. ASSUME NEW t \in Tasks, TaskStep(t) PROVE RunningIsDriven'
    BY <2>1, StepDriven, EndDriven DEF TaskStep
  <2>2. ASSUME NEW t \in Tasks, TaskFault(t) PROVE RunningIsDriven'
    BY <2>2, StepDriven, EndDriven DEF TaskFault
  <2>3. ASSUME NEW r \in Runs, NEW t \in Tasks, NEW o \in Asks, Kick(r, o, t)
        PROVE  RunningIsDriven'
    BY <2>3, DrivenRequested DEF Kick
  <2>4. ASSUME NEW r \in Runs, NEW t \in Tasks, NEW say \in Payloads,
               Resume(r, say, t)
        PROVE  RunningIsDriven'
    BY <2>4, DrivenRequested DEF Resume
  <2>5. CASE Crash
    <3> SUFFICES ASSUME NEW r \in Runs, status[r] = "running"
                 PROVE  r \in lost'
      BY <2>5 DEF Crash, RunningIsDriven
    <3>1. CASE r \in lost BY <2>5, <3>1 DEF Crash
    <3>2. CASE \E t \in Tasks : task[t].run = r
      BY <2>5, <3>2, SlotRun DEF Crash
    <3>3. QED BY <3>1, <3>2 DEF RunningIsDriven, Active
  <2>6. CASE UNCHANGED vars BY <2>6 DEF vars, RunningIsDriven, Active
  <2>7. QED BY <2>1, <2>2, <2>3, <2>4, <2>5, <2>6 DEF Next
<1>3. QED BY <1>1, <1>2, TypeCorrect, PTL DEF Spec

\* Only a task whose state left the gate at END closes a run as a success.
THEOREM ClosesAtEnd == Spec => ClosesOnlyAtEnd
<1> DEFINE Closes == \A r \in Runs :
             status'[r] = "succeeded" /\ status[r] # "succeeded"
               => \E t \in Active(r) : task[t].g.next = "END"
<1>1. TypeOK /\ ApprovalInv /\ [Next]_vars => [Closes]_vars
  <2> SUFFICES ASSUME TypeOK, ApprovalInv, Next PROVE Closes OBVIOUS
  <2> SUFFICES ASSUME NEW r \in Runs, status'[r] = "succeeded",
                      status[r] # "succeeded"
               PROVE  \E t \in Tasks : task[t].run = r /\ task[t].g.next = "END"
    BY DEF Active
  <2>end. ASSUME NEW t \in Tasks, NEW closed, EndRun(t, closed)
          PROVE  r = task[t].run /\ closed = "succeeded"
    BY <2>end DEF EndRun, TypeOK
  <2>1. ASSUME NEW t \in Tasks, EndSucceeded(t)
        PROVE  task[t].run = r /\ task[t].g.next = "END"
    BY <2>1, <2>end DEF EndSucceeded, ApprovalInv
  <2>2. ASSUME NEW t \in Tasks, TaskStep(t), ~EndSucceeded(t) PROVE FALSE
    <3>1. ~EndInterrupted(t) BY <2>end DEF EndInterrupted
    <3>2. ~EndFailed(t) BY <2>end DEF EndFailed
    <3>3. UNCHANGED status
      BY <2>2, <3>1, <3>2
      DEF TaskStep, GraphStep, Superstep, RunParse, RunSearch, RunNormalize,
          RunScore, RunExplain, RunSelect, RunReplan, GateForce, GateDecide,
          GateInterrupt, StartGraph, LoadThread, WriteRankings
    <3>4. QED BY <3>3
  <2>3. ASSUME NEW t \in Tasks, TaskFault(t) PROVE FALSE
    BY <2>3 DEF TaskFault, GraphRaises, EndRunFails, WriteRankingsFails
  <2>4. ASSUME NEW q \in Runs, status' = [status EXCEPT ![q] = "running"]
        PROVE  FALSE
    BY <2>4 DEF TypeOK, Statuses
  <2>5. QED BY <2>1, <2>2, <2>3, <2>4 DEF Next, Kick, Resume, Crash
<1>2. QED BY <1>1, TypeCorrect, ApprovalInvariant, PTL DEF Spec, ClosesOnlyAtEnd

----------------------------------------------------------------------------
(***************************************************************************)
(* AgentRuns implements RunRows, for any finite set of task slots.  The    *)
(* only fact needed of the states is their type: a task enters one slot,   *)
(* and leaves it once.                                                     *)
(***************************************************************************)

Drivers == [r \in Runs |-> Cardinality(Active(r))]

\* Tasks of a run are counted, and not all slots are its when one is free.
LEMMA ActiveCount ==
    ASSUME IsFiniteSet(Tasks), NEW r \in Runs
    PROVE  /\ IsFiniteSet(Active(r))
           /\ Cardinality(Active(r)) \in 0..Cardinality(Tasks)
           /\ \A t \in Tasks : t \notin Active(r)
                 => Cardinality(Active(r)) < Cardinality(Tasks)
<1>1. Active(r) \subseteq Tasks BY DEF Active
<1>2. IsFiniteSet(Active(r)) /\ Cardinality(Active(r)) <= Cardinality(Tasks)
  BY <1>1, FS_Subset
<1>3. Cardinality(Active(r)) \in Nat /\ Cardinality(Tasks) \in Nat
  BY <1>2, FS_CardinalityType
<1>4. ASSUME NEW t \in Tasks, t \notin Active(r)
      PROVE  Cardinality(Active(r)) < Cardinality(Tasks)
  <2>1. Cardinality(Active(r)) # Cardinality(Tasks) BY <1>1, <1>4, FS_Subset
  <2> QED BY <1>2, <1>3, <2>1
<1> QED BY <1>2, <1>3, <1>4

\* A task enters a free slot.
LEMMA DriverEnters ==
    ASSUME TypeOK, IsFiniteSet(Tasks), NEW r \in Runs, NEW t \in Tasks, NEW new,
           task[t].pc = "idle", new.run = r, task' = [task EXCEPT ![t] = new]
    PROVE  /\ Drivers[r] < Cardinality(Tasks)
           /\ Drivers' = [Drivers EXCEPT ![r] = @ + 1]
<1>1. task'[t] = new /\ \A u \in Tasks \ {t} : task'[u] = task[u] BY DEF TypeOK
<1>2. \A q \in Runs : t \notin Active(q) BY SlotRun DEF Active
<1>3. Active(r)' = Active(r) \cup {t} BY <1>1 DEF Active
<1>4. \A q \in Runs \ {r} : Active(q)' = Active(q) BY <1>1, <1>2 DEF Active
<1>5. Cardinality(Active(r) \cup {t}) = Cardinality(Active(r)) + 1
  BY <1>2, ActiveCount, FS_AddElement
<1>6. Drivers[r] < Cardinality(Tasks) BY <1>2, ActiveCount DEF Drivers
<1> QED BY <1>3, <1>4, <1>5, <1>6 DEF Drivers

\* A task leaves its slot.
LEMMA DriverLeaves ==
    ASSUME TypeOK, IsFiniteSet(Tasks), NEW r \in Runs, NEW t \in Tasks,
           task[t].run = r, task' = [task EXCEPT ![t] = Idle]
    PROVE  /\ Drivers[r] > 0
           /\ Drivers' = [Drivers EXCEPT ![r] = @ - 1]
<1>1. task'[t].run \notin Runs /\ \A u \in Tasks \ {t} : task'[u] = task[u]
  BY RunsAssumption DEF TypeOK, Idle
<1>2. t \in Active(r) BY DEF Active
<1>3. Active(r)' = Active(r) \ {t} BY <1>1 DEF Active
<1>4. \A q \in Runs \ {r} : Active(q)' = Active(q) BY <1>1 DEF Active
<1>5. Cardinality(Active(r) \ {t}) = Cardinality(Active(r)) - 1
  BY <1>2, ActiveCount, FS_RemoveElement
<1>6. Cardinality(Active(r)) > 0
  BY <1>2, ActiveCount, FS_EmptySet
<1> QED BY <1>3, <1>4, <1>5, <1>6 DEF Drivers

\* The tasks of a run are all still there, or some of them.
LEMMA DriversLost ==
    ASSUME IsFiniteSet(Tasks), \A t \in Tasks : task'[t].run \in {task[t].run, NoRun}
    PROVE  /\ Drivers' \in [Runs -> 0..Cardinality(Tasks)]
           /\ \A r \in Runs : Drivers'[r] <= Drivers[r]
<1> SUFFICES ASSUME NEW r \in Runs
             PROVE  /\ Cardinality(Active(r)') \in 0..Cardinality(Tasks)
                    /\ Cardinality(Active(r)') <= Cardinality(Active(r))
  BY DEF Drivers
<1>1. Active(r)' \subseteq Active(r) BY RunsAssumption DEF Active
<1>2. IsFiniteSet(Active(r)) /\ Cardinality(Active(r)) \in 0..Cardinality(Tasks)
  BY ActiveCount
<1>3. Cardinality(Active(r)') \in Nat /\ Cardinality(Active(r)') <= Cardinality(Active(r))
  BY <1>1, <1>2, FS_Subset, FS_CardinalityType
<1>4. Cardinality(Tasks) \in Nat BY FS_CardinalityType
<1> QED BY <1>2, <1>3, <1>4

LEMMA RowsUnchanged ==
    ASSUME UNCHANGED status, \A t \in Tasks : task'[t].run = task[t].run
    PROVE  UNCHANGED <<status, Drivers>>
BY DEF Drivers, Active

----------------------------------------------------------------------------
(* The steps. *)

\* A move inside a task is not seen in the rows.
LEMMA StepRows ==
    ASSUME TypeOK, NEW t \in Tasks,
           \/ GraphStep(t) \/ StartGraph(t) \/ LoadThread(t)
           \/ GraphRaises(t) \/ WriteRankings(t) \/ WriteRankingsFails(t)
    PROVE  UNCHANGED <<status, Drivers>>
<1>1. UNCHANGED status
  BY DEF GraphStep, Superstep, RunParse, RunSearch, RunNormalize, RunScore,
         RunExplain, RunSelect, RunReplan, GateForce, GateDecide,
         GateInterrupt, StartGraph, LoadThread, GraphRaises, WriteRankings,
         WriteRankingsFails
<1>2. task[t].pc # "idle"
  BY DEF GraphStep, Superstep, RunParse, RunSearch, RunNormalize, RunScore,
         RunExplain, RunSelect, RunReplan, GateForce, GateDecide,
         GateInterrupt, StartGraph, LoadThread, GraphRaises, WriteRankings,
         WriteRankingsFails
<1>3. task[t] \in LiveTask BY <1>2, LiveTasks
<1>4. ASSUME NEW pc, task' = [task EXCEPT ![t].pc = pc]
      PROVE  \A u \in Tasks : task'[u].run = task[u].run
  BY <1>3, <1>4 DEF TypeOK, LiveTask
<1>5. ASSUME NEW node, NEW g2, Superstep(t, node, g2)
      PROVE  \A u \in Tasks : task'[u].run = task[u].run
  BY <1>3, <1>5 DEF Superstep, TypeOK, LiveTask
<1>6. CASE LoadThread(t)
  BY <1>1, <1>3, <1>6, RowsUnchanged DEF LoadThread, TypeOK, LiveTask
<1>7. CASE GraphStep(t)
  BY <1>1, <1>4, <1>5, <1>7, RowsUnchanged
  DEF GraphStep, RunParse, RunSearch, RunNormalize, RunScore, RunExplain,
      RunSelect, RunReplan, GateForce, GateDecide, GateInterrupt
<1> QED
  BY <1>1, <1>4, <1>6, <1>7, RowsUnchanged
  DEF StartGraph, GraphRaises, WriteRankings, WriteRankingsFails

LEMMA EndRows ==
    ASSUME TypeOK, IsFiniteSet(Tasks), NEW t \in Tasks,
           EndInterrupted(t) \/ EndSucceeded(t) \/ EndFailed(t)
    PROVE  \E r \in Runs : Rows!CloseRun(r)
<1>1. task[t].pc # "idle" BY DEF EndInterrupted, EndSucceeded, EndFailed
<1>2. PICK r \in Runs : task[t].run = r BY <1>1, LiveTasks
<1>3. /\ \E closed \in {"interrupted", "succeeded", "failed"} :
            status' = [status EXCEPT ![r] = closed]
      /\ task' = [task EXCEPT ![t] = Idle]
  BY <1>2 DEF EndInterrupted, EndSucceeded, EndFailed, EndRun
<1>4. Drivers[r] > 0 /\ Drivers' = [Drivers EXCEPT ![r] = @ - 1]
  BY <1>2, <1>3, DriverLeaves
<1>5. Rows!CloseRun(r)
  BY <1>3, <1>4 DEF Rows!CloseRun, Rows!Closed, Drivers
<1> QED BY <1>5

\* Tasks that end without closing their rows.
LEMMA LostRows ==
    ASSUME TypeOK, IsFiniteSet(Tasks), Crash \/ \E t \in Tasks : EndRunFails(t)
    PROVE  Rows!LoseDrivers
<1>1. UNCHANGED status BY DEF Crash, EndRunFails
<1>2. CASE Crash
  <2>1. \A t \in Tasks : task'[t].run = NoRun BY <1>2 DEF Crash, Idle
  <2> QED BY <1>1, <2>1, DriversLost DEF Rows!LoseDrivers, Drivers
<1>3. ASSUME NEW t \in Tasks, EndRunFails(t) PROVE Rows!LoseDrivers
  <2>1. CASE task[t].pc = "pausing" /\ task' = [task EXCEPT ![t].pc = "failing"]
    <3>1. task[t] \in LiveTask BY <2>1, LiveTasks
    <3>2. \A u \in Tasks : task'[u].run = task[u].run
      BY <2>1, <3>1 DEF TypeOK, LiveTask
    <3> QED BY <1>1, <3>2, DriversLost DEF Rows!LoseDrivers, Drivers
  <2>2. CASE task' = [task EXCEPT ![t] = Idle]
    <3>1. \A u \in Tasks : task'[u].run \in {task[u].run, NoRun}
      BY <2>2 DEF TypeOK, Idle
    <3> QED BY <1>1, <3>1, DriversLost DEF Rows!LoseDrivers, Drivers
  <2> QED BY <1>3, <2>1, <2>2 DEF EndRunFails
<1> QED BY <1>2, <1>3

\* A request turns the row to running and adds a driver.
LEMMA RequestRows ==
    ASSUME TypeOK, IsFiniteSet(Tasks), NEW r \in Runs, NEW t \in Tasks
    PROVE  /\ \A o \in Asks : Kick(r, o, t) => Rows!KickRun(r)
           /\ \A say \in Payloads : Resume(r, say, t) => Rows!ResumeRun(r)
<1>1. ASSUME NEW new, new.run = r, task[t].pc = "idle",
             task' = [task EXCEPT ![t] = new],
             status' = [status EXCEPT ![r] = "running"]
      PROVE  Rows!Drive(r)
  BY <1>1, DriverEnters DEF Rows!Drive, Drivers
<1>2. ASSUME NEW o \in Asks, Kick(r, o, t) PROVE Rows!KickRun(r)
  BY <1>1, <1>2 DEF Kick, Rows!KickRun
<1>3. ASSUME NEW say \in Payloads, Resume(r, say, t) PROVE Rows!ResumeRun(r)
  BY <1>1, <1>3 DEF Resume, Rows!ResumeRun
<1> QED BY <1>2, <1>3

\* agent_runs under any clients, crashes and failed writes: a row changes
\* only when a request turns it to running or when a task of the run ends.
THEOREM RowsAreImplemented == IsFiniteSet(Tasks) => (Spec => ImplementsRows)
<1> SUFFICES ASSUME IsFiniteSet(Tasks) PROVE Spec => ImplementsRows
  OBVIOUS
<1>1. Init => Rows!RowsInit
  <2> SUFFICES ASSUME Init PROVE Rows!RowsInit OBVIOUS
  <2>1. \A r \in Runs : Active(r) = {}
    BY RunsAssumption DEF Init, Idle, Active
  <2>2. Cardinality({}) = 0 BY FS_EmptySet
  <2> QED BY <2>1, <2>2 DEF Init, Rows!RowsInit
<1>2. TypeOK /\ [Next]_vars => [Rows!RowsNext]_(Rows!rows)
  <2> SUFFICES ASSUME TypeOK, [Next]_vars
               PROVE  Rows!RowsNext \/ UNCHANGED <<status, Drivers>>
    BY DEF Rows!rows, Drivers
  <2>1. ASSUME NEW t \in Tasks, TaskStep(t) \/ TaskFault(t)
        PROVE  Rows!RowsNext \/ UNCHANGED <<status, Drivers>>
    BY <2>1, StepRows, EndRows, LostRows DEF TaskStep, TaskFault, Rows!RowsNext
  <2>2. CASE UNCHANGED vars
    BY <2>2, RowsUnchanged DEF vars
  <2> QED
    BY <2>1, <2>2, RequestRows, LostRows DEF Next, Rows!RowsNext
<1> QED BY <1>1, <1>2, TypeCorrect, PTL DEF Spec, ImplementsRows, Rows!RowsSpec

----------------------------------------------------------------------------
(***************************************************************************)
(* Clients that decide only on interrupted runs.  The inductive invariant, *)
(* CarefulInv, ties the three stores together:                             *)
(*   Sole      a run has at most one task, and then its row says running;  *)
(*   InSync    the state a task holds in the graph is the checkpointed one;*)
(*   AtGate    a run that is interrupted, or about to be, or has just been *)
(*             decided on, has its thread waiting at the gate;             *)
(*   Batches   a run has one batch of rankings at most, and then a task    *)
(*             that has nothing left to do but to close it as a success.   *)
(***************************************************************************)

Busy(t) == task[t].pc # "idle"

Gate(g) == g # NoThread /\ g.next = "await_approval" /\ ~GateIsForced(g)

Sole ==
    /\ \A t, u \in Tasks : Busy(t) /\ Busy(u) /\ task[t].run = task[u].run => t = u
    /\ \A t \in Tasks : Busy(t) => status[task[t].run] = "running"

InSync == \A t \in Tasks : task[t].pc = "driving" => thread[task[t].run] = task[t].g

AtGate ==
    /\ \A t \in Tasks : task[t].pc \in {"pausing", "resuming"} => Gate(thread[task[t].run])
    /\ \A r \in Runs : status[r] = "interrupted" => Gate(thread[r])

Batches ==
    \A i \in DOMAIN rankings :
        /\ status[rankings[i].run] \in {"running", "succeeded"}
        /\ \A t \in Tasks : Busy(t) /\ task[t].run = rankings[i].run => task[t].pc = "closing"
        /\ \A j \in DOMAIN rankings : rankings[j].run = rankings[i].run => j = i

CarefulInv == Sole /\ InSync /\ AtGate /\ Batches

----------------------------------------------------------------------------
(* Careful clients are clients. *)

LEMMA CarefulIsNext == [CarefulNext]_vars => [Next]_vars
BY DEF CarefulNext, Next, ResumeAtGate

LEMMA CarefulTypes == CarefulSpec => []TypeOK
<1>1. CarefulSpec => Spec BY CarefulIsNext, PTL DEF CarefulSpec, Spec
<1> QED BY <1>1, TypeCorrect, PTL

\* The run and the state of a slot that is taken.
LEMMA BusyTask ==
    ASSUME TypeOK, NEW t \in Tasks, Busy(t)
    PROVE  task[t] \in LiveTask /\ task[t].run \in Runs /\ task[t].g \in GraphState
BY LiveTasks DEF Busy

LEMMA BatchRun ==
    ASSUME TypeOK, NEW i \in DOMAIN rankings
    PROVE  rankings[i].run \in Runs
<1>1. rankings[i] \in Batch BY DEF TypeOK
<1> QED BY <1>1 DEF Batch

----------------------------------------------------------------------------
(* The three things that happen to a slot. *)

\* A task of a run nobody drives enters a free slot.
LEMMA Enters ==
    ASSUME TypeOK, CarefulInv, NEW t \in Tasks, NEW r \in Runs, NEW new,
           ~Busy(t), status[r] \in {"absent", "interrupted"},
           new.run = r, new.pc \in {"starting", "resuming"},
           new.pc = "resuming" => status[r] = "interrupted",
           task' = [task EXCEPT ![t] = new],
           status' = [status EXCEPT ![r] = "running"],
           UNCHANGED <<thread, rankings>>
    PROVE  CarefulInv'
<1>1. task'[t] = new /\ \A u \in Tasks \ {t} : task'[u] = task[u]
  BY DEF TypeOK
<1>2. status'[r] = "running" /\ \A q \in Runs \ {r} : status'[q] = status[q]
  BY DEF TypeOK
<1>3. \A u \in Tasks : Busy(u) => task[u].run \in Runs /\ task[u].run # r
  BY BusyTask DEF CarefulInv, Sole
<1>4. Sole' BY <1>1, <1>2, <1>3 DEF CarefulInv, Sole, Busy
<1>5. InSync' BY <1>1 DEF CarefulInv, InSync
<1>6. AtGate' BY <1>1, <1>2 DEF CarefulInv, AtGate
<1>7. \A i \in DOMAIN rankings : rankings[i].run \in Runs /\ rankings[i].run # r
  BY BatchRun DEF CarefulInv, Batches
<1>8. Batches'
  BY <1>1, <1>2, <1>7 DEF CarefulInv, Batches, Busy
<1> QED BY <1>4, <1>5, <1>6, <1>8 DEF CarefulInv

\* A task goes on with its run.
LEMMA GoesOn ==
    ASSUME TypeOK, CarefulInv, NEW t \in Tasks, Busy(t),
           task[t].pc # "closing",
           \A u \in Tasks \ {t} : task'[u] = task[u],
           task'[t].run = task[t].run, Busy(t)',
           \A r \in Runs \ {task[t].run} : thread'[r] = thread[r],
           task'[t].pc = "driving" => thread'[task[t].run] = task'[t].g,
           task'[t].pc \in {"pausing", "resuming"} => Gate(thread'[task[t].run]),
           UNCHANGED status,
           \/ UNCHANGED rankings
           \/ /\ task'[t].pc = "closing"
              /\ \E list : rankings' = Append(rankings, [run |-> task[t].run, list |-> list])
    PROVE  CarefulInv'
<1> DEFINE r == task[t].run
<1>1. r \in Runs /\ status[r] = "running"
  BY BusyTask DEF CarefulInv, Sole
<1>2. \A u \in Tasks \ {t} : Busy(u) => task[u].run # r /\ task[u].run \in Runs
  BY BusyTask DEF CarefulInv, Sole
<1>3. Sole' BY DEF CarefulInv, Sole, Busy
<1>4. InSync' BY <1>2 DEF CarefulInv, InSync, Busy
<1>5. AtGate'
  <2>1. \A q \in Runs : status[q] = "interrupted" => q # r BY <1>1
  <2>2. \A u \in Tasks : task'[u].pc \in {"pausing", "resuming"} => Gate(thread'[task'[u].run])
    BY <1>2 DEF CarefulInv, AtGate, Busy
  <2> QED BY <2>1, <2>2 DEF CarefulInv, AtGate
<1>6. \A i \in DOMAIN rankings : rankings[i].run # r
  BY DEF CarefulInv, Batches
<1>7. Batches'
  <2>1. CASE UNCHANGED rankings
    BY <1>6, <2>1 DEF CarefulInv, Batches, Busy
  <2>2. ASSUME NEW list, task'[t].pc = "closing",
               rankings' = Append(rankings, [run |-> r, list |-> list])
        PROVE  Batches'
    <3> DEFINE n == Len(rankings) + 1
    <3>1. /\ DOMAIN rankings' = DOMAIN rankings \cup {n} /\ n \notin DOMAIN rankings
          /\ rankings'[n].run = r
          /\ \A i \in DOMAIN rankings : rankings'[i] = rankings[i]
      BY <2>2 DEF TypeOK
    <3> HIDE DEF n
    <3>2. \A u \in Tasks : Busy(u)' /\ task'[u].run = r => task'[u].pc = "closing"
      BY <1>2, <2>2 DEF Busy
    <3>3. ASSUME NEW i \in DOMAIN rankings, NEW u \in Tasks, Busy(u)',
                 task'[u].run = rankings[i].run
          PROVE  task'[u].pc = "closing"
      <4>1. u # t BY <1>6, <3>3
      <4> QED BY <3>3, <4>1 DEF CarefulInv, Batches, Busy
    <3>4. \A i, j \in DOMAIN rankings' : rankings'[j].run = rankings'[i].run => j = i
      BY <1>6, <3>1 DEF CarefulInv, Batches
    <3>5. \A i \in DOMAIN rankings' : status'[rankings'[i].run] \in {"running", "succeeded"}
      BY <1>1, <3>1 DEF CarefulInv, Batches
    <3> QED BY <3>1, <3>2, <3>3, <3>4, <3>5 DEF Batches
  <2> QED BY <2>1, <2>2
<1> QED BY <1>3, <1>4, <1>5, <1>7 DEF CarefulInv

\* A task leaves its slot, with or without closing its row.
LEMMA Leaves ==
    ASSUME TypeOK, CarefulInv, NEW t \in Tasks, Busy(t),
           task' = [task EXCEPT ![t] = Idle],
           \/ UNCHANGED status
           \/ /\ task[t].pc = "pausing"
              /\ status' = [status EXCEPT ![task[t].run] = "interrupted"]
           \/ /\ task[t].pc = "closing"
              /\ status' = [status EXCEPT ![task[t].run] = "succeeded"]
           \/ /\ task[t].pc = "failing"
              /\ status' = [status EXCEPT ![task[t].run] = "failed"],
           UNCHANGED <<thread, rankings>>
    PROVE  CarefulInv'
<1> DEFINE r == task[t].run
<1>1. r \in Runs BY BusyTask
<1>2. task'[t].pc = "idle" /\ \A u \in Tasks \ {t} : task'[u] = task[u]
  BY DEF TypeOK, Idle
<1>3. \A u \in Tasks \ {t} : Busy(u) => task[u].run # r /\ task[u].run \in Runs
  BY BusyTask DEF CarefulInv, Sole
<1>4. /\ \A q \in Runs \ {r} : status'[q] = status[q]
      /\ status'[r] = "interrupted" => status[r] = "interrupted" \/ task[t].pc = "pausing"
      /\ status'[r] \in {status[r], "succeeded"} \/ task[t].pc # "closing"
  BY <1>1 DEF TypeOK
<1>5. Sole' BY <1>2, <1>3, <1>4 DEF CarefulInv, Sole, Busy
<1>6. InSync' BY <1>2 DEF CarefulInv, InSync
<1>7. AtGate' BY <1>1, <1>2, <1>4 DEF CarefulInv, AtGate
<1>8. \A i \in DOMAIN rankings :
         /\ rankings[i].run \in Runs
         /\ rankings[i].run = r => task[t].pc = "closing"
  BY BatchRun DEF CarefulInv, Batches
<1>9. Batches' BY <1>2, <1>4, <1>8 DEF CarefulInv, Batches, Busy
<1> QED BY <1>5, <1>6, <1>7, <1>9 DEF CarefulInv

----------------------------------------------------------------------------
(* The steps. *)

\* A move of a task to another pc alone.
LEMMA PcMove ==
    ASSUME TypeOK, NEW t \in Tasks, Busy(t), NEW pc \in Pcs,
           task' = [task EXCEPT ![t].pc = pc]
    PROVE  /\ \A u \in Tasks \ {t} : task'[u] = task[u]
           /\ task'[t].run = task[t].run /\ task'[t].g = task[t].g
           /\ task'[t].pc = pc /\ Busy(t)'
<1>1. task[t] \in LiveTask BY BusyTask
<1> QED BY <1>1 DEF TypeOK, LiveTask, Pcs, Busy

LEMMA SuperstepCareful ==
    ASSUME TypeOK, CarefulInv, NEW t \in Tasks, NEW node, NEW g2, Superstep(t, node, g2)
    PROVE  CarefulInv'
<1> DEFINE pc == IF g2.next = "END" THEN "publishing" ELSE "driving"
<1>1. task[t].pc = "driving" /\ Busy(t) BY DEF Superstep, Busy
<1>2. task[t] \in LiveTask /\ task[t].run \in Runs BY <1>1, BusyTask
<1>3. /\ \A u \in Tasks \ {t} : task'[u] = task[u]
      /\ task'[t].run = task[t].run /\ task'[t].g = g2 /\ task'[t].pc = pc
  BY <1>2 DEF Superstep, TypeOK, LiveTask
<1>4. /\ thread'[task[t].run] = g2
      /\ \A r \in Runs \ {task[t].run} : thread'[r] = thread[r]
      /\ UNCHANGED <<status, rankings>>
  BY <1>2 DEF Superstep, TypeOK
<1>5. pc \in {"publishing", "driving"} OBVIOUS
<1> HIDE DEF pc
<1> QED BY <1>1, <1>3, <1>4, <1>5, GoesOn DEF Busy

LEMMA GraphStepCareful ==
    ASSUME TypeOK, CarefulInv, NEW t \in Tasks, GraphStep(t)
    PROVE  CarefulInv'
<1>1. CASE GateInterrupt(t)
  <2>1. task[t].pc = "driving" /\ Busy(t) /\ "pausing" \in Pcs
    BY <1>1 DEF GateInterrupt, Busy, Pcs
  <2>2. task[t].run \in Runs /\ task[t].g \in GraphState BY <2>1, BusyTask
  <2>3. /\ task' = [task EXCEPT ![t].pc = "pausing"]
        /\ UNCHANGED <<status, thread, rankings>>
    BY <1>1 DEF GateInterrupt
  <2>4. thread[task[t].run] = task[t].g BY <2>1 DEF CarefulInv, InSync
  <2>5. Gate(thread[task[t].run])
    BY <1>1, <2>2, <2>4, ThreadAssumption DEF Gate, GateInterrupt
  <2>6. /\ \A u \in Tasks \ {t} : task'[u] = task[u]
        /\ task'[t].run = task[t].run /\ task'[t].pc = "pausing" /\ Busy(t)'
    BY <2>1, <2>3, PcMove
  <2> QED BY <2>1, <2>3, <2>5, <2>6, GoesOn
<1>2. CASE ~GateInterrupt(t)
  <2>1. \E node, g2 : Superstep(t, node, g2)
    BY <1>2 DEF GraphStep, RunParse, RunSearch, RunNormalize, RunScore,
       RunExplain, RunSelect, RunReplan, GateForce, GateDecide
  <2> QED BY <2>1, SuperstepCareful
<1> QED BY <1>1, <1>2

\* A step of a task around the graph that does not end it.
LEMMA AroundCareful ==
    ASSUME TypeOK, CarefulInv, NEW t \in Tasks,
           \/ StartGraph(t) \/ LoadThread(t) \/ GraphRaises(t)
           \/ WriteRankings(t) \/ WriteRankingsFails(t)
    PROVE  CarefulInv'
<1>pcs. /\ {"driving", "failing", "closing"} \subseteq Pcs BY DEF Pcs
<1>1. CASE StartGraph(t)
  <2>1. task[t].pc = "starting" /\ Busy(t) BY <1>1 DEF StartGraph, Busy
  <2>2. task[t].run \in Runs BY <2>1, BusyTask
  <2>3. task' = [task EXCEPT ![t].pc = "driving"] BY <1>1 DEF StartGraph
  <2>4. /\ thread'[task[t].run] = task[t].g
        /\ \A r \in Runs \ {task[t].run} : thread'[r] = thread[r]
        /\ UNCHANGED <<status, rankings>>
    BY <1>1, <2>2 DEF StartGraph, TypeOK
  <2>5. /\ \A u \in Tasks \ {t} : task'[u] = task[u]
        /\ task'[t].run = task[t].run /\ task'[t].g = task[t].g
        /\ task'[t].pc = "driving" /\ Busy(t)'
    BY <1>pcs, <2>1, <2>3, PcMove
  <2> QED BY <2>1, <2>4, <2>5, GoesOn
<1>2. CASE LoadThread(t)
  <2> DEFINE saved == thread[task[t].run]
  <2>1. task[t].pc = "resuming" /\ Busy(t) BY <1>2 DEF LoadThread, Busy
  <2>2. task[t] \in LiveTask /\ task[t].run \in Runs BY <2>1, BusyTask
  <2>3. Gate(saved) BY <2>1 DEF CarefulInv, AtGate
  <2>4. task' = [task EXCEPT ![t].pc = "driving", ![t].g = saved]
    BY <1>2, <2>3 DEF LoadThread, Gate
  <2>5. /\ \A u \in Tasks \ {t} : task'[u] = task[u]
        /\ task'[t].run = task[t].run /\ task'[t].g = saved /\ task'[t].pc = "driving"
    BY <2>2, <2>4 DEF TypeOK, LiveTask
  <2>6. UNCHANGED <<status, thread, rankings>> BY <1>2 DEF LoadThread
  <2> QED BY <2>1, <2>5, <2>6, GoesOn DEF Busy
<1>3. CASE GraphRaises(t)
  <2>1. task[t].pc \in {"starting", "resuming", "driving"} /\ Busy(t)
    BY <1>3 DEF GraphRaises, Busy
  <2>2. /\ task' = [task EXCEPT ![t].pc = "failing"]
        /\ UNCHANGED <<status, thread, rankings>>
    BY <1>3 DEF GraphRaises
  <2>3. /\ \A u \in Tasks \ {t} : task'[u] = task[u]
        /\ task'[t].run = task[t].run /\ task'[t].pc = "failing" /\ Busy(t)'
    BY <1>pcs, <2>1, <2>2, PcMove
  <2> QED BY <2>1, <2>2, <2>3, GoesOn
<1>4. CASE WriteRankings(t) \/ WriteRankingsFails(t)
  <2>1. task[t].pc = "publishing" /\ Busy(t)
    BY <1>4 DEF WriteRankings, WriteRankingsFails, Busy
  <2>2. /\ task' = [task EXCEPT ![t].pc = "closing"]
        /\ UNCHANGED <<status, thread>>
        /\ \/ UNCHANGED rankings
           \/ \E list : rankings' = Append(rankings, [run |-> task[t].run, list |-> list])
    BY <1>4 DEF WriteRankings, WriteRankingsFails
  <2>3. /\ \A u \in Tasks \ {t} : task'[u] = task[u]
        /\ task'[t].run = task[t].run /\ task'[t].pc = "closing" /\ Busy(t)'
    BY <1>pcs, <2>1, <2>2, PcMove
  <2> QED BY <2>1, <2>2, <2>3, GoesOn
<1> QED BY <1>1, <1>2, <1>3, <1>4

\* A closing write, or its failure.
LEMMA EndCareful ==
    ASSUME TypeOK, CarefulInv, NEW t \in Tasks,
           \/ EndInterrupted(t) \/ EndSucceeded(t) \/ EndFailed(t) \/ EndRunFails(t)
    PROVE  CarefulInv'
<1>1. Busy(t) BY DEF EndInterrupted, EndSucceeded, EndFailed, EndRunFails, Busy
<1>2. CASE EndInterrupted(t) \/ EndSucceeded(t) \/ EndFailed(t)
  BY <1>1, <1>2, Leaves DEF EndInterrupted, EndSucceeded, EndFailed, EndRun
<1>3. CASE EndRunFails(t)
  <2>1. UNCHANGED <<status, thread, rankings>> BY <1>3 DEF EndRunFails
  <2>2. CASE task' = [task EXCEPT ![t] = Idle] BY <1>1, <2>1, <2>2, Leaves
  <2>3. CASE task[t].pc = "pausing" /\ task' = [task EXCEPT ![t].pc = "failing"]
    <3>1. /\ \A u \in Tasks \ {t} : task'[u] = task[u]
          /\ task'[t].run = task[t].run /\ task'[t].pc = "failing" /\ Busy(t)'
      BY <1>1, <2>3, PcMove DEF Pcs
    <3> QED BY <1>1, <2>1, <2>3, <3>1, GoesOn
  <2> QED BY <1>3, <2>2, <2>3 DEF EndRunFails
<1> QED BY <1>2, <1>3

LEMMA RequestCareful ==
    ASSUME TypeOK, CarefulInv, NEW r \in Runs, NEW t \in Tasks
    PROVE  /\ \A o \in Asks : Kick(r, o, t) => CarefulInv'
           /\ \A say \in Payloads : ResumeAtGate(r, say, t) => CarefulInv'
<1>1. ASSUME NEW o \in Asks, Kick(r, o, t) PROVE CarefulInv'
  BY <1>1, Enters DEF Kick, Busy
<1>2. ASSUME NEW say \in Payloads, ResumeAtGate(r, say, t) PROVE CarefulInv'
  BY <1>2, Enters DEF ResumeAtGate, Resume, Busy
<1> QED BY <1>1, <1>2

LEMMA CrashCareful ==
    ASSUME TypeOK, CarefulInv, Crash
    PROVE  CarefulInv'
<1>1. /\ \A t \in Tasks : task'[t].pc = "idle"
      /\ UNCHANGED <<status, thread, rankings>>
  BY DEF Crash, Idle
<1> QED BY <1>1 DEF CarefulInv, Sole, InSync, AtGate, Batches, Busy

LEMMA CarefulHolds == CarefulSpec => []CarefulInv
<1>1. Init => CarefulInv
  BY DEF Init, Idle, CarefulInv, Sole, InSync, AtGate, Batches, Busy
<1>2. TypeOK /\ CarefulInv /\ [CarefulNext]_vars => CarefulInv'
  <2> SUFFICES ASSUME TypeOK, CarefulInv, [CarefulNext]_vars PROVE CarefulInv'
    OBVIOUS
  <2>1. ASSUME NEW t \in Tasks, TaskStep(t) \/ TaskFault(t) PROVE CarefulInv'
    BY <2>1, GraphStepCareful, AroundCareful, EndCareful DEF TaskStep, TaskFault
  <2>2. CASE UNCHANGED vars
    BY <2>2 DEF vars, CarefulInv, Sole, InSync, AtGate, Batches, Busy
  <2> QED BY <2>1, <2>2, RequestCareful, CrashCareful DEF CarefulNext
<1> QED BY <1>1, <1>2, CarefulTypes, PTL DEF CarefulSpec

----------------------------------------------------------------------------
(* What follows. *)

\* _spawn behind kick_recommend and resume_with_decision: no two background
\* tasks ever drive one run, when decisions are taken on interrupted runs.
THEOREM OneDriver == CarefulSpec => []OneDriverPerRun
<1>1. TypeOK /\ CarefulInv => OneDriverPerRun
  <2> SUFFICES ASSUME TypeOK, CarefulInv, NEW r \in Runs
               PROVE  Cardinality(Active(r)) <= 1
    BY DEF OneDriverPerRun
  <2>1. \A t, u \in Active(r) : t = u
    BY SlotRun DEF CarefulInv, Sole, Active, Busy
  <2>2. CASE Active(r) = {}
    BY <2>2, FS_EmptySet
  <2>3. CASE Active(r) # {}
    <3>1. PICK t \in Active(r) : TRUE BY <2>3
    <3>2. Active(r) = {t} BY <2>1, <3>1
    <3>3. Cardinality({t}) = 1 BY FS_Singleton
    <3> QED BY <3>2, <3>3
  <2> QED BY <2>2, <2>3
<1> QED BY <1>1, CarefulHolds, CarefulTypes, PTL

\* resume_with_decision: a decision on an interrupted run finds the thread
\* waiting at the gate that asked for it, with the replan cap not reached.
THEOREM DecisionsFindTheirGate == CarefulSpec => []DecisionFindsGate
<1>1. CarefulInv => DecisionFindsGate
  BY DEF CarefulInv, AtGate, Gate, DecisionFindsGate
<1> QED BY <1>1, CarefulHolds, PTL

----------------------------------------------------------------------------
(* The life cycle of a run. *)

Batched == [r \in Runs |-> Cardinality(BatchesOf(r))]

\* No batch or one, and none unless a task is about to close the run.
LEMMA BatchCount ==
    ASSUME TypeOK, CarefulInv, NEW r \in Runs
    PROVE  /\ Cardinality(BatchesOf(r)) = 0 <=> BatchesOf(r) = {}
           /\ \A t \in Tasks : Busy(t) /\ task[t].run = r /\ task[t].pc # "closing"
                 => BatchesOf(r) = {}
<1>1. \A i, j \in BatchesOf(r) : i = j
  BY DEF CarefulInv, Batches, BatchesOf
<1>2. BatchesOf(r) # {} => Cardinality(BatchesOf(r)) = 1
  <2> SUFFICES ASSUME BatchesOf(r) # {} PROVE Cardinality(BatchesOf(r)) = 1
    OBVIOUS
  <2>1. PICK i \in BatchesOf(r) : TRUE OBVIOUS
  <2>2. BatchesOf(r) = {i} BY <1>1, <2>1
  <2>3. Cardinality({i}) = 1 BY FS_Singleton
  <2> QED BY <2>2, <2>3
<1>3. BatchesOf(r) = {} => Cardinality(BatchesOf(r)) = 0 BY FS_EmptySet
<1>4. ASSUME NEW t \in Tasks, Busy(t), task[t].run = r, task[t].pc # "closing"
      PROVE  BatchesOf(r) = {}
  BY <1>4 DEF CarefulInv, Batches, BatchesOf
<1> QED BY <1>2, <1>3, <1>4

\* A step that writes no rankings counts no batch.
LEMMA SameBatches == UNCHANGED rankings => UNCHANGED Batched
BY DEF Batched, BatchesOf

LEMMA PublishCounts ==
    ASSUME TypeOK, CarefulInv, NEW t \in Tasks, WriteRankings(t),
           NEW r \in Runs, task[t].run = r
    PROVE  \/ UNCHANGED Batched
           \/ /\ Batched[r] = 0
              /\ Batched' = [Batched EXCEPT ![r] = 1]
<1>1. Busy(t) /\ task[t].pc # "closing" BY DEF WriteRankings, Busy
<1>2. CASE UNCHANGED rankings BY <1>2, SameBatches
<1>3. ASSUME NEW list, rankings' = Append(rankings, [run |-> r, list |-> list])
      PROVE  Batched[r] = 0 /\ Batched' = [Batched EXCEPT ![r] = 1]
  <2> DEFINE n == Len(rankings) + 1
  <2>1. /\ DOMAIN rankings' = DOMAIN rankings \cup {n} /\ n \notin DOMAIN rankings
        /\ rankings'[n].run = r
        /\ \A i \in DOMAIN rankings : rankings'[i] = rankings[i]
    BY <1>3 DEF TypeOK
  <2> HIDE DEF n
  <2>2. BatchesOf(r) = {} BY <1>1, BatchCount
  <2>3. BatchesOf(r)' = {n} BY <2>1, <2>2 DEF BatchesOf
  <2>4. \A q \in Runs \ {r} : BatchesOf(q)' = BatchesOf(q)
    BY <2>1 DEF BatchesOf
  <2>5. Cardinality(BatchesOf(r)) = 0 BY <2>2, FS_EmptySet
  <2>6. Cardinality({n}) = 1 BY FS_Singleton
  <2> QED BY <2>3, <2>4, <2>5, <2>6 DEF Batched
<1> QED BY <1>2, <1>3 DEF WriteRankings

\* What is left for a run's row to do when one of its tasks ends.
LEMMA EndTurns ==
    ASSUME TypeOK, CarefulInv, NEW t \in Tasks,
           EndInterrupted(t) \/ EndSucceeded(t) \/ EndFailed(t)
    PROVE  \E r \in Runs : \/ Lifecycle!AskOwner(r) \/ Lifecycle!Succeed(r)
                           \/ Lifecycle!Fail(r)
<1>1. Busy(t) BY DEF EndInterrupted, EndSucceeded, EndFailed, Busy
<1>2. PICK r \in Runs : task[t].run = r BY <1>1, BusyTask
<1>3. status[r] = "running" BY <1>1, <1>2 DEF CarefulInv, Sole
<1>4. UNCHANGED Batched
  BY SameBatches DEF EndInterrupted, EndSucceeded, EndFailed, EndRun
<1>5. CASE EndInterrupted(t)
  BY <1>2, <1>3, <1>4, <1>5
  DEF EndInterrupted, EndRun, Batched, Lifecycle!AskOwner, Lifecycle!Turn
<1>6. CASE EndSucceeded(t)
  BY <1>2, <1>3, <1>4, <1>6
  DEF EndSucceeded, EndRun, Batched, Lifecycle!Succeed, Lifecycle!Turn
<1>7. CASE EndFailed(t)
  <2>1. Cardinality(BatchesOf(r)) = 0
    BY <1>1, <1>2, <1>7, BatchCount DEF EndFailed
  <2> QED
    BY <1>2, <1>3, <1>4, <1>7, <2>1
    DEF EndFailed, EndRun, Batched, Lifecycle!Fail, Lifecycle!Turn
<1> QED BY <1>5, <1>6, <1>7

\* A task that moves on changes at most the batch of its run.
LEMMA TaskTurns ==
    ASSUME TypeOK, CarefulInv, NEW t \in Tasks, TaskStep(t) \/ TaskFault(t)
    PROVE  [Lifecycle!Next]_<<status, Batched>>
<1>1. CASE EndInterrupted(t) \/ EndSucceeded(t) \/ EndFailed(t)
  BY <1>1, EndTurns DEF Lifecycle!Next
<1>2. CASE WriteRankings(t)
  <2>1. Busy(t) /\ UNCHANGED status BY <1>2 DEF WriteRankings, Busy
  <2>2. PICK r \in Runs : task[t].run = r BY <2>1, BusyTask
  <2>3. status[r] = "running" BY <2>1, <2>2 DEF CarefulInv, Sole
  <2>4. CASE UNCHANGED Batched BY <2>1, <2>4
  <2>5. CASE Batched[r] = 0 /\ Batched' = [Batched EXCEPT ![r] = 1]
    <3>1. Lifecycle!Publish(r)
      BY <2>1, <2>3, <2>5 DEF Lifecycle!Publish, Batched
    <3> QED BY <3>1 DEF Lifecycle!Next
  <2> QED BY <1>2, <2>2, <2>4, <2>5, PublishCounts
<1>3. CASE /\ ~(EndInterrupted(t) \/ EndSucceeded(t) \/ EndFailed(t))
           /\ ~WriteRankings(t)
  <2>1. UNCHANGED <<status, rankings>>
    BY <1>3 DEF TaskStep, TaskFault, GraphStep, Superstep, RunParse, RunSearch,
       RunNormalize, RunScore, RunExplain, RunSelect, RunReplan, GateForce,
       GateDecide, GateInterrupt, StartGraph, LoadThread, GraphRaises,
       EndRunFails, WriteRankingsFails
  <2> QED BY <2>1, SameBatches
<1> QED BY <1>1, <1>2, <1>3

\* agent_runs and rankings of a run, whatever its tasks, crashes and failed
\* writes: every run implements the abstract life cycle of its row.
THEOREM RunsImplementLifecycle == CarefulSpec => ImplementsLifecycle
<1>1. Init => Lifecycle!Init
  <2> SUFFICES ASSUME Init PROVE Lifecycle!Init OBVIOUS
  <2>1. \A r \in Runs : BatchesOf(r) = {} BY DEF Init, BatchesOf
  <2>2. Cardinality({}) = 0 BY FS_EmptySet
  <2> QED BY <2>1, <2>2 DEF Init, Lifecycle!Init
<1>2. TypeOK /\ CarefulInv /\ [CarefulNext]_vars
        => [Lifecycle!Next]_<<status, [r \in Runs |-> Cardinality(BatchesOf(r))]>>
  <2> SUFFICES ASSUME TypeOK, CarefulInv, [CarefulNext]_vars
               PROVE  [Lifecycle!Next]_<<status, Batched>>
    BY DEF Batched
  <2>1. ASSUME NEW t \in Tasks, TaskStep(t) \/ TaskFault(t)
        PROVE  [Lifecycle!Next]_<<status, Batched>>
    BY <2>1, TaskTurns
  <2>2. ASSUME NEW r \in Runs, NEW t \in Tasks, NEW o \in Asks, Kick(r, o, t)
        PROVE  Lifecycle!Start(r)
    BY <2>2, SameBatches DEF Kick, Batched, Lifecycle!Start, Lifecycle!Turn
  <2>3. ASSUME NEW r \in Runs, NEW t \in Tasks, NEW say \in Payloads,
               ResumeAtGate(r, say, t)
        PROVE  Lifecycle!OwnerDecides(r)
    BY <2>3, SameBatches
    DEF ResumeAtGate, Resume, Batched, Lifecycle!OwnerDecides, Lifecycle!Turn
  <2>4. CASE Crash \/ UNCHANGED vars
    <3>1. UNCHANGED <<status, rankings>> BY <2>4 DEF Crash, vars
    <3> QED BY <3>1, SameBatches
  <2> QED BY <2>1, <2>2, <2>3, <2>4 DEF CarefulNext, Lifecycle!Next
<1> QED
  BY <1>1, <1>2, CarefulTypes, CarefulHolds, PTL
  DEF CarefulSpec, ImplementsLifecycle, Lifecycle!Spec
=============================================================================

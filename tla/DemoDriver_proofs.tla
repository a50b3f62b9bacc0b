-------------------------- MODULE DemoDriver_proofs --------------------------
(***************************************************************************)
(* What the demo records, for any replan cap, budgets and number of        *)
(* failures.  The decisions in the log, the graph state and the rows are   *)
(* written by different steps; DemoInv says how they agree in between:     *)
(*   GraphInv   the proposal is scored with the bar in force;              *)
(*   LogInv     the log is one entry ahead of the graph while it resumes,  *)
(*              and otherwise its last rejection is what is in force;      *)
(*   BatchInv   which batch stands for the proposal, as long as the writes *)
(*              went well;                                                 *)
(*   StepInv    the node that is due follows the one recorded last.        *)
(***************************************************************************)
EXTENDS DemoDriver, FiniteSetTheorems, TLAPS

----------------------------------------------------------------------------
(* The invariant. *)

Early == {"parse_preferences", "search_places", "normalize_places"}
Rescored == {"score_candidates", "explain_candidates", "select_winner", "await_approval"}

\* Overrides that leave the count of rejections alone.
Plain == Overrides \ DOMAIN Counters

Fields == {"next", "iter", "bar", "ask", "cands", "shortlist", "winner"}

Proposal(h) ==
    /\ Fields \subseteq DOMAIN h
    /\ h.next \in Nodes \cup {"END"} /\ h.iter \in Nat
    /\ h.bar \in Bars /\ h.ask \in Asks
    /\ h.cands \in Lists /\ h.shortlist \in Lists /\ h.winner \in Lists
    /\ h.next \in Early => h.iter = 0
    /\ h.next = "explain_candidates" => h.cands \in {h.bar, Empty}
    /\ h.next = "select_winner" => h.shortlist \in {h.bar, Empty}
    /\ h.next = "await_approval" => h.winner \in {h.bar, Empty}
    /\ h.next \in {"await_approval", "END"} => h.shortlist = h.winner
    /\ h.next = "replan" => h.ask \notin DOMAIN Counters

GraphInv ==
    /\ Proposal(g)
    /\ pc = "start" => g.next = "parse_preferences"
    /\ pc \in {"asked", "resuming"} => g.next = "await_approval"
    /\ pc \in {"publishing", "closing", "done"} => g.next = "END"

RunInv ==
    /\ pc \in Pcs /\ faults \in Nat
    /\ pc = "start" => run = "none"
    /\ run = "succeeded" => pc = "done"
    /\ pc \in {"publishing", "closing"} => run # "none"

Approved == log # << >> /\ log[Len(log)].decision = "approve"

LogInv ==
    /\ log \in Seq(Entry)
    /\ \A i \in 1..Len(log) : log[i].decision = "reject" => log[i].overrides \in Plain
    /\ pc = "resuming" => Len(log) = g.iter + 1
    /\ pc \notin {"resuming", "failing", "raised"} /\ g.next # "END" =>
          /\ Len(log) = g.iter
          /\ Len(log) > 0 =>
                /\ log[Len(log)].decision = "reject"
                /\ g.next = "replan" => g.ask = log[Len(log)].overrides
                /\ g.next \in Rescored => g.bar = log[Len(log)].overrides

\* The last batch is the proposal's.
Shown == batches # << >> /\ batches[Len(batches)] = g.winner

BatchInv ==
    /\ batches \in Seq(Lists)
    /\ run # "none" /\ g.winner # Empty =>
          /\ pc = "resuming" /\ faults = 0 => Shown
          /\ (pc = "driving" /\ g.next = "END") \/ pc = "publishing" =>
                (faults = 0 /\ Approved => Shown)
          /\ pc \in {"closing", "done"} =>
                (faults = 0 \/ (faults = 1 /\ Approved) => Shown)

StepInv ==
    /\ steps \in Seq(Step)
    /\ run = "none" => steps = << >>
    /\ faults = 0 =>
          /\ \A i \in 1..Len(steps) : steps[i].status = "succeeded"
          /\ \A i \in 1..(Len(steps) - 1) : steps[i + 1].node \in Follows[steps[i].node]
          /\ Len(steps) > 0 /\ g.next # "END" =>
                g.next \in Follows[steps[Len(steps)].node]

DemoInv == GraphInv /\ RunInv /\ LogInv /\ ProposalsFollowDecisions /\ BatchInv /\ StepInv

----------------------------------------------------------------------------
(* The nodes. *)

LEMMA NodeOutcomes ==
    ASSUME Proposal(g), NEW h \in Outcomes
    PROVE  /\ Proposal(h) /\ h.iter = g.iter /\ g.next \in Nodes
           /\ h.next = "END" \/ h.next \in Follows[g.next]
           /\ h.next # "replan" /\ h.next # "parse_preferences"
           /\ h.next = "END" => g.next = "await_approval"
           /\ g.next = "replan" /\ g.ask # NoOverride => h.bar = g.ask
           /\ g.next \in Rescored => h.bar = g.bar
           /\ h.next \in Rescored => g.next \in Rescored \cup {"replan", "normalize_places"}
<1> USE DEF Proposal, Fields, Early, Rescored, Lists, Bars, Asks, Nodes, Follows
<1>1. CASE g.next = "parse_preferences"
  <2>1. h = ParsePreferences(g) BY <1>1 DEF Outcomes
  <2> QED BY <1>1, <2>1 DEF ParsePreferences
<1>2. CASE g.next = "search_places"
  <2>1. PICK b \in BOOLEAN : h = SearchPlaces(g, b) BY <1>2 DEF Outcomes
  <2> QED BY <1>2, <2>1 DEF SearchPlaces
<1>3. CASE g.next = "normalize_places"
  <2>1. PICK b \in BOOLEAN : h = NormalizePlaces(g, b) BY <1>3 DEF Outcomes
  <2> QED BY <1>3, <2>1 DEF NormalizePlaces
<1>4. CASE g.next = "score_candidates"
  <2>1. h = ScoreCandidates(g) BY <1>4 DEF Outcomes
  <2> QED BY <1>4, <2>1 DEF ScoreCandidates
<1>5. CASE g.next = "explain_candidates"
  <2>1. h = ExplainCandidates(g) BY <1>5 DEF Outcomes
  <2> QED BY <1>5, <2>1 DEF ExplainCandidates
<1>6. CASE g.next = "select_winner"
  <2>1. h = SelectWinner(g) BY <1>6 DEF Outcomes
  <2> QED BY <1>6, <2>1 DEF SelectWinner
<1>7. CASE g.next = "replan"
  <2>1. h = Replan(g) BY <1>7 DEF Outcomes
  <2> QED BY <1>7, <2>1 DEF Replan
<1>8. CASE g.next = "await_approval"
  <2>1. h = ForceApprove(g) BY <1>8 DEF Outcomes
  <2> QED BY <1>8, <2>1 DEF ForceApprove, RouteAfterApproval
<1>9. CASE g.next = "END" BY <1>9 DEF Outcomes
<1> QED BY <1>1, <1>2, <1>3, <1>4, <1>5, <1>6, <1>7, <1>8, <1>9

\* What a decision at the gate leaves.
LEMMA GateOutcomes ==
    ASSUME Proposal(g), g.next = "await_approval", NEW o \in Asks \ DOMAIN Counters
    PROVE  /\ Proposal(GateApprove(g)) /\ GateApprove(g).next = "END"
           /\ GateApprove(g).winner = g.winner
           /\ Proposal(GateReject(g, o)) /\ GateReject(g, o).next = "replan"
           /\ GateReject(g, o).iter = g.iter + 1 /\ GateReject(g, o).ask = o
<1> USE DEF Proposal, Fields, Early, Lists, Bars, Asks, Nodes
<1>1. /\ Proposal(GateApprove(g)) /\ GateApprove(g).next = "END"
      /\ GateApprove(g).winner = g.winner
  BY DEF GateApprove, RouteAfterApproval
<1>2. /\ Fields \subseteq DOMAIN GateReject(g, o) /\ GateReject(g, o).next = "replan"
      /\ GateReject(g, o).ask = o /\ GateReject(g, o).bar = g.bar
      /\ GateReject(g, o).cands = g.cands /\ GateReject(g, o).winner = g.winner
      /\ GateReject(g, o).shortlist = g.shortlist
  BY DEF GateReject, RouteAfterApproval
<1>3. GateReject(g, o).iter = g.iter + 1 BY DEF GateReject
<1>4. Proposal(GateReject(g, o)) BY <1>2, <1>3
<1> QED BY <1>1, <1>2, <1>3, <1>4

LEMMA Appended ==
    ASSUME NEW S, NEW s \in Seq(S), NEW e \in S
    PROVE  /\ Append(s, e) \in Seq(S) /\ Append(s, e) # << >>
           /\ Len(s) \in Nat /\ Len(Append(s, e)) = Len(s) + 1
           /\ Append(s, e)[Len(s) + 1] = e
           /\ \A i \in 1..Len(s) : Append(s, e)[i] = s[i]
OBVIOUS

----------------------------------------------------------------------------
(* One lemma per action. *)

LEMMA DemoInit == Init => DemoInv
<1> SUFFICES ASSUME Init PROVE DemoInv OBVIOUS
<1> USE DEF Init
<1>1. GraphInv
  BY DEF GraphInv, Proposal, Fields, InitialGraph, Nodes, Bars, Asks, Lists, Early
<1>2. RunInv BY DEF RunInv, Pcs, Ended
<1>3. LogInv BY DEF LogInv, InitialGraph
<1>4. ProposalsFollowDecisions BY DEF ProposalsFollowDecisions
<1>5. BatchInv BY DEF BatchInv
<1>6. StepInv BY DEF StepInv
<1> QED BY <1>1, <1>2, <1>3, <1>4, <1>5, <1>6 DEF DemoInv

LEMMA BeginKeeps == DemoInv /\ Begin => DemoInv'
<1> SUFFICES ASSUME DemoInv, Begin PROVE DemoInv' OBVIOUS
<1> USE DEF DemoInv
<1>1. /\ pc = "start" /\ pc' = "driving" /\ g' = g /\ log' = log
      /\ batches' = batches /\ steps' = steps
      /\ run' \in {"none", "running"} /\ run = "none"
      /\ faults' \in Nat /\ (faults' = 0 => faults = 0)
  BY DEF Begin, Fault, RunInv
<1>2. GraphInv' BY <1>1 DEF GraphInv, Proposal
<1>3. RunInv' BY <1>1 DEF RunInv, Pcs
<1>4. LogInv' BY <1>1 DEF LogInv
<1>5. ProposalsFollowDecisions' BY <1>1 DEF ProposalsFollowDecisions
<1>6. BatchInv' BY <1>1 DEF BatchInv, GraphInv
<1>7. StepInv' BY <1>1 DEF StepInv
<1> QED BY <1>2, <1>3, <1>4, <1>5, <1>6, <1>7

\* A row recorded for the node that was due.
LEMMA RecordKeeps ==
    ASSUME StepInv, faults \in Nat, g.next \in Nodes, Record(g.next, "succeeded"),
           run' = run, g'.next = "END" \/ g'.next \in Follows[g.next]
    PROVE  StepInv' /\ faults' \in Nat /\ (faults' = 0 => faults = 0)
<1>1. CASE UNCHANGED steps /\ run = "none" /\ UNCHANGED faults
  BY <1>1 DEF StepInv
<1>2. CASE run # "none" /\ Fault /\ UNCHANGED steps
  BY <1>2 DEF StepInv, Fault
<1>3. CASE /\ run # "none" /\ UNCHANGED faults
           /\ steps' = Append(steps, [node |-> g.next, status |-> "succeeded"])
  <2> DEFINE e == [node |-> g.next, status |-> "succeeded"]
  <2>1. e \in Step /\ e.node = g.next /\ e.status = "succeeded" BY DEF Step
  <2>2. steps \in Seq(Step) BY DEF StepInv
  <2> HIDE DEF e
  <2>3. /\ steps' \in Seq(Step) /\ Len(steps) \in Nat /\ Len(steps') = Len(steps) + 1
        /\ steps'[Len(steps) + 1] = e
        /\ \A i \in 1..Len(steps) : steps'[i] = steps[i]
    BY <1>3, <2>1, <2>2, Appended DEF e
  <2>4. ASSUME faults = 0
        PROVE  /\ \A i \in 1..Len(steps') : steps'[i].status = "succeeded"
               /\ \A i \in 1..(Len(steps') - 1) :
                     steps'[i + 1].node \in Follows[steps'[i].node]
    <3>1. ASSUME NEW i \in 1..Len(steps') PROVE steps'[i].status = "succeeded"
      <4>1. CASE i = Len(steps) + 1 BY <2>1, <2>3, <4>1
      <4>2. CASE i \in 1..Len(steps) BY <2>3, <2>4, <4>2 DEF StepInv
      <4> QED BY <2>3, <4>1, <4>2
    <3>2. ASSUME NEW i \in 1..(Len(steps') - 1)
          PROVE  steps'[i + 1].node \in Follows[steps'[i].node]
      <4>1. CASE i = Len(steps)
        <5>1. Len(steps) > 0 /\ g.next \in Follows[steps[Len(steps)].node]
          BY <2>3, <2>4, <4>1 DEF StepInv, Nodes
        <5> QED BY <2>1, <2>3, <4>1, <5>1
      <4>2. CASE i \in 1..(Len(steps) - 1)
        <5>1. i \in 1..Len(steps) /\ i + 1 \in 1..Len(steps) BY <2>3, <4>2
        <5> QED BY <2>3, <2>4, <4>2, <5>1 DEF StepInv
      <4> QED BY <2>3, <4>1, <4>2
    <3> QED BY <3>1, <3>2
  <2>5. steps'[Len(steps')].node = g.next BY <2>1, <2>3
  <2> QED BY <1>3, <2>3, <2>4, <2>5 DEF StepInv
<1> QED BY <1>1, <1>2, <1>3 DEF Record

LEMMA RunNodeKeeps == DemoInv /\ RunNode => DemoInv'
<1> SUFFICES ASSUME DemoInv, RunNode PROVE DemoInv' OBVIOUS
<1> USE DEF DemoInv
<1>1. /\ pc = "driving" /\ pc' = pc /\ run' = run /\ batches' = batches
      /\ log' = log /\ g' \in Outcomes /\ Record(g.next, "succeeded")
  BY DEF RunNode
<1>2. /\ Proposal(g') /\ g'.iter = g.iter /\ g.next \in Nodes
      /\ g'.next = "END" \/ g'.next \in Follows[g.next]
      /\ g'.next # "replan" /\ g'.next # "parse_preferences"
      /\ g'.next = "END" => g.next = "await_approval"
      /\ g.next = "replan" /\ g.ask # NoOverride => g'.bar = g.ask
      /\ g.next \in Rescored => g'.bar = g.bar
      /\ g'.next \in Rescored => g.next \in Rescored \cup {"replan", "normalize_places"}
  BY <1>1, NodeOutcomes DEF GraphInv
<1>3. StepInv' /\ faults' \in Nat /\ (faults' = 0 => faults = 0)
  BY <1>1, <1>2, RecordKeeps DEF RunInv
<1>4. g.next # "END" BY <1>2 DEF Nodes
<1>5. GraphInv' BY <1>1, <1>2 DEF GraphInv, Proposal
<1>6. RunInv' BY <1>1, <1>3 DEF RunInv
<1>7. LogInv'
  <2>1. /\ log \in Seq(Entry) /\ Len(log) = g.iter /\ Len(log) \in Nat
        /\ Len(log) > 0 =>
              /\ log[Len(log)].decision = "reject"
              /\ log[Len(log)].overrides \in Plain
              /\ g.next = "replan" => g.ask = log[Len(log)].overrides
              /\ g.next \in Rescored => g.bar = log[Len(log)].overrides
    BY <1>1, <1>4 DEF LogInv
  <2>2. ASSUME Len(log) > 0, g'.next \in Rescored
        PROVE  g'.bar = log[Len(log)].overrides
    <3>1. g.next # "normalize_places"
      BY <1>2, <2>1, <2>2 DEF GraphInv, Proposal, Early
    <3>2. CASE g.next = "replan" BY <1>2, <2>1, <2>2, <3>2, OverridesAssumption DEF Plain
    <3>3. CASE g.next \in Rescored BY <1>2, <2>1, <2>2, <3>3
    <3> QED BY <1>2, <2>2, <3>1, <3>2, <3>3
  <2> QED BY <1>1, <1>2, <2>1, <2>2 DEF LogInv
<1>8. ProposalsFollowDecisions' BY <1>1 DEF ProposalsFollowDecisions
<1>9. BatchInv'
  <2>1. ASSUME g'.next = "END" PROVE ~Approved
    BY <1>1, <1>4 DEF LogInv, Approved
  <2> QED BY <1>1, <2>1 DEF BatchInv, Approved
<1> QED BY <1>3, <1>5, <1>6, <1>7, <1>8, <1>9

LEMMA RaiseKeeps == DemoInv /\ RunNodeRaises => DemoInv'
<1> SUFFICES ASSUME DemoInv, RunNodeRaises PROVE DemoInv' OBVIOUS
<1> USE DEF DemoInv
<1>1. /\ pc \in {"driving", "resuming"} /\ pc' = "failing" /\ g' = g /\ run' = run
      /\ batches' = batches /\ log' = log /\ g.next # "END"
      /\ faults' \in Nat /\ faults' # 0
  BY DEF RunNodeRaises, Fault, RunInv
<1>2. GraphInv' BY <1>1 DEF GraphInv, Proposal
<1>3. RunInv' BY <1>1 DEF RunInv, Pcs
<1>4. LogInv' BY <1>1 DEF LogInv
<1>5. ProposalsFollowDecisions' BY <1>1 DEF ProposalsFollowDecisions
<1>6. BatchInv' BY <1>1 DEF BatchInv
<1>7. StepInv'
  <2>1. CASE UNCHANGED steps BY <1>1, <2>1 DEF StepInv
  <2>2. ASSUME NEW status \in {"succeeded", "failed"}, run # "none",
               steps' = Append(steps, [node |-> g.next, status |-> status])
        PROVE  StepInv'
    <3>1. [node |-> g.next, status |-> status] \in Step
      BY <1>1 DEF Step, GraphInv, Proposal
    <3>2. steps' \in Seq(Step) BY <2>2, <3>1, Appended DEF StepInv
    <3> QED BY <1>1, <2>2, <3>2 DEF StepInv
  <2> QED BY <2>1, <2>2 DEF RunNodeRaises
<1> QED BY <1>2, <1>3, <1>4, <1>5, <1>6, <1>7

LEMMA InterruptKeeps == DemoInv /\ Interrupt => DemoInv'
<1> SUFFICES ASSUME DemoInv, Interrupt PROVE DemoInv' OBVIOUS
<1> USE DEF DemoInv, Interrupt, GateIsDue
<1>1. GraphInv' BY DEF GraphInv, Proposal
<1>2. RunInv' BY DEF RunInv, Pcs
<1>3. LogInv' BY DEF LogInv
<1>4. ProposalsFollowDecisions' BY DEF ProposalsFollowDecisions
<1>5. BatchInv' BY DEF BatchInv
<1>6. StepInv' BY DEF StepInv
<1> QED BY <1>1, <1>2, <1>3, <1>4, <1>5, <1>6

\* A batch that is written is the last one.
LEMMA WriteLists ==
    ASSUME batches \in Seq(Lists), faults \in Nat, NEW list \in Lists, Write(list)
    PROVE  /\ batches' \in Seq(Lists)
           /\ faults' = faults \/ (faults' = faults + 1 /\ batches' = batches)
           /\ run # "none" /\ list # Empty /\ faults' = faults =>
                 batches' # << >> /\ batches'[Len(batches')] = list
<1>1. CASE batches' = batches /\ (run = "none" \/ list = Empty) /\ UNCHANGED faults
  BY <1>1
<1>2. CASE run # "none" /\ list # Empty /\ UNCHANGED faults /\ batches' = Append(batches, list)
  BY <1>2, Appended
<1>3. CASE run # "none" /\ list # Empty /\ Fault /\ UNCHANGED batches
  BY <1>3 DEF Fault
<1> QED BY <1>1, <1>2, <1>3 DEF Write

LEMMA AskKeeps == DemoInv /\ Ask => DemoInv'
<1> SUFFICES ASSUME DemoInv, Ask PROVE DemoInv' OBVIOUS
<1> USE DEF DemoInv
<1> DEFINE say == DecisionFor(g.iter)
           e == [iteration |-> g.iter + 1, proposed |-> g.winner,
                 decision |-> say.decision, overrides |-> say.overrides]
<1>1. /\ pc = "asked" /\ pc' = "resuming" /\ g' = g /\ run' = run /\ steps' = steps
      /\ log' = Append(log, e) /\ Write(g.shortlist)
  BY DEF Ask
<1>2. /\ say.decision \in Decisions /\ say.overrides \in Asks
      /\ say.decision = "reject" => say.overrides \in Plain
  BY BudgetAssumption DEF DecisionFor, Reject, Approve, Decisions, Asks, Plain
<1>3. /\ g.next = "await_approval" /\ g.iter \in Nat /\ g.winner \in Lists
      /\ g.winner \in {g.bar, Empty} /\ g.shortlist = g.winner
  BY <1>1 DEF GraphInv, Proposal
<1>4. /\ e \in Entry /\ e.iteration = g.iter + 1 /\ e.proposed = g.winner
      /\ e.decision = "reject" => e.overrides \in Plain
  BY <1>2, <1>3 DEF Entry
<1>5. /\ log \in Seq(Entry) /\ Len(log) = g.iter /\ Len(log) \in Nat
      /\ Len(log) > 0 => /\ log[Len(log)].decision = "reject"
                         /\ g.bar = log[Len(log)].overrides
  BY <1>1, <1>3 DEF LogInv, Rescored
<1> HIDE DEF e, say
<1>6. /\ log' \in Seq(Entry) /\ Len(log') = Len(log) + 1 /\ log'[Len(log) + 1] = e
      /\ \A i \in 1..Len(log) : log'[i] = log[i]
  BY <1>1, <1>4, <1>5, Appended
<1>7. /\ batches' \in Seq(Lists)
      /\ faults' = faults \/ (faults' = faults + 1 /\ batches' = batches)
      /\ run # "none" /\ g.winner # Empty /\ faults' = faults =>
            batches' # << >> /\ batches'[Len(batches')] = g.winner
  BY <1>1, <1>3, WriteLists DEF BatchInv, RunInv
<1>8. faults \in Nat /\ faults' \in Nat /\ (faults' = 0 => faults' = faults)
  BY <1>7 DEF RunInv
<1>9. GraphInv' BY <1>1, <1>3 DEF GraphInv, Proposal
<1>10. RunInv' BY <1>1, <1>8 DEF RunInv, Pcs
<1>11. LogInv'
  <2>1. ASSUME NEW i \in 1..Len(log'), log'[i].decision = "reject"
        PROVE  log'[i].overrides \in Plain
    <3>1. CASE i = Len(log) + 1 BY <1>4, <1>6, <2>1, <3>1
    <3>2. CASE i \in 1..Len(log) BY <1>6, <2>1, <3>2 DEF LogInv
    <3> QED BY <1>5, <1>6, <3>1, <3>2
  <2> QED BY <1>1, <1>5, <1>6, <2>1 DEF LogInv
<1>12. ProposalsFollowDecisions'
  <2>1. ASSUME NEW i \in 1..Len(log')
        PROVE  /\ log'[i].iteration = i
               /\ i > 1 => /\ log'[i - 1].decision = "reject"
                           /\ log'[i].proposed \in {log'[i - 1].overrides, Empty}
    <3>1. CASE i = Len(log) + 1
      <4>1. log'[i] = e BY <1>6, <3>1
      <4>2. ASSUME i > 1
            PROVE  log'[i - 1] = log[Len(log)] /\ Len(log) > 0
        <5>1. i - 1 = Len(log) /\ Len(log) \in 1..Len(log) BY <1>5, <3>1, <4>2
        <5> QED BY <1>5, <1>6, <5>1
      <4> QED BY <1>3, <1>4, <1>5, <3>1, <4>1, <4>2
    <3>2. CASE i \in 1..Len(log)
      <4>1. log'[i] = log[i] /\ (i > 1 => log'[i - 1] = log[i - 1])
        BY <1>5, <1>6, <3>2
      <4>2. i \in DOMAIN log BY <1>5, <3>2
      <4> QED BY <4>1, <4>2 DEF ProposalsFollowDecisions
    <3> QED BY <1>5, <1>6, <3>1, <3>2
  <2>2. DOMAIN log' = 1..Len(log') BY <1>6
  <2> QED BY <2>1, <2>2 DEF ProposalsFollowDecisions
<1>13. BatchInv' BY <1>1, <1>7, <1>8 DEF BatchInv, Shown
<1>14. StepInv' BY <1>1, <1>8 DEF StepInv
<1> QED BY <1>9, <1>10, <1>11, <1>12, <1>13, <1>14

LEMMA ResumeKeeps == DemoInv /\ Resume => DemoInv'
<1> SUFFICES ASSUME DemoInv, Resume PROVE DemoInv' OBVIOUS
<1> USE DEF DemoInv
<1> DEFINE say == log[Len(log)]
<1>1. /\ pc = "resuming" /\ pc' = "driving" /\ run' = run /\ batches' = batches
      /\ log' = log /\ Record(g.next, "succeeded") /\ g.next = "await_approval"
      /\ g' = IF say.decision = "approve" THEN GateApprove(g)
              ELSE GateReject(g, say.overrides)
  BY DEF Resume, Last, GraphInv
<1>2. /\ log \in Seq(Entry) /\ Len(log) = g.iter + 1 /\ g.iter \in Nat
  BY <1>1 DEF LogInv, GraphInv, Proposal
<1>3. /\ Len(log) \in 1..Len(log) /\ say \in Entry BY <1>2
<1>4. /\ say.decision \in {"approve", "reject"} /\ say.overrides \in Asks
      /\ say.decision = "reject" => say.overrides \in Plain
  BY <1>3 DEF Entry, Decisions, LogInv
<1> HIDE DEF say
<1>5. CASE say.decision = "approve"
  <2>1. Proposal(g') /\ g'.next = "END" /\ g'.winner = g.winner
    <3>1. NoOverride \in Asks \ DOMAIN Counters
      BY OverridesAssumption, CountersAssumption DEF Asks
    <3> QED BY <1>1, <1>5, <3>1, GateOutcomes DEF GraphInv
  <2>2. StepInv' /\ faults' \in Nat /\ (faults' = 0 => faults = 0)
    BY <1>1, <2>1, RecordKeeps DEF RunInv, Nodes
  <2>3. GraphInv' BY <1>1, <2>1 DEF GraphInv, Proposal
  <2>4. RunInv' BY <1>1, <2>2 DEF RunInv, Pcs
  <2>5. LogInv' BY <1>1, <2>1 DEF LogInv
  <2>6. ProposalsFollowDecisions' BY <1>1 DEF ProposalsFollowDecisions
  <2>7. BatchInv' BY <1>1, <2>1, <2>2 DEF BatchInv, Shown
  <2> QED BY <2>2, <2>3, <2>4, <2>5, <2>6, <2>7
<1>6. CASE say.decision = "reject"
  <2>1. /\ Proposal(g') /\ g'.next = "replan" /\ g'.iter = g.iter + 1
        /\ g'.ask = say.overrides
    BY <1>1, <1>4, <1>6, GateOutcomes DEF GraphInv, Plain
  <2>2. StepInv' /\ faults' \in Nat /\ (faults' = 0 => faults = 0)
    BY <1>1, <2>1, RecordKeeps DEF RunInv, Nodes, Follows
  <2>3. GraphInv' BY <1>1, <2>1 DEF GraphInv, Proposal
  <2>4. RunInv' BY <1>1, <2>2 DEF RunInv, Pcs
  <2>5. LogInv' BY <1>1, <1>2, <1>6, <2>1 DEF LogInv, say, Rescored
  <2>6. ProposalsFollowDecisions' BY <1>1 DEF ProposalsFollowDecisions
  <2>7. BatchInv' BY <1>1, <2>1 DEF BatchInv
  <2> QED BY <2>2, <2>3, <2>4, <2>5, <2>6, <2>7
<1> QED BY <1>4, <1>5, <1>6

LEMMA ReturnKeeps == DemoInv /\ Return => DemoInv'
<1> SUFFICES ASSUME DemoInv, Return PROVE DemoInv' OBVIOUS
<1> USE DEF DemoInv, Return
<1>1. GraphInv' BY DEF GraphInv, Proposal
<1>2. RunInv' BY DEF RunInv, Pcs, Ended
<1>3. LogInv' BY DEF LogInv
<1>4. ProposalsFollowDecisions' BY DEF ProposalsFollowDecisions
<1>5. BatchInv' BY DEF BatchInv, Shown, Approved
<1>6. StepInv' BY DEF StepInv
<1> QED BY <1>1, <1>2, <1>3, <1>4, <1>5, <1>6

LEMMA PublishKeeps == DemoInv /\ Publish => DemoInv'
<1> SUFFICES ASSUME DemoInv, Publish PROVE DemoInv' OBVIOUS
<1> USE DEF DemoInv
<1>1. /\ pc = "publishing" /\ pc' = "closing" /\ g' = g /\ run' = run
      /\ steps' = steps /\ log' = log /\ Write(FinalList(g)) /\ g.next = "END"
  BY DEF Publish, GraphInv
<1>2. FinalList(g) \in Lists /\ (g.winner # Empty => FinalList(g) = g.winner)
  BY <1>1 DEF GraphInv, Proposal, FinalList
<1>3. /\ batches' \in Seq(Lists)
      /\ faults' = faults \/ (faults' = faults + 1 /\ batches' = batches)
      /\ run # "none" /\ g.winner # Empty /\ faults' = faults =>
            batches' # << >> /\ batches'[Len(batches')] = g.winner
  BY <1>1, <1>2, WriteLists DEF BatchInv, RunInv
<1>4. faults \in Nat /\ faults' \in Nat /\ (faults' = 0 => faults' = faults)
  BY <1>3 DEF RunInv
<1>5. GraphInv' BY <1>1 DEF GraphInv, Proposal
<1>6. RunInv' BY <1>1, <1>4 DEF RunInv, Pcs
<1>7. LogInv' BY <1>1 DEF LogInv
<1>8. ProposalsFollowDecisions' BY <1>1 DEF ProposalsFollowDecisions
<1>9. BatchInv'
  <2>1. CASE faults' = faults BY <1>1, <1>3, <2>1 DEF BatchInv, Shown
  <2>2. CASE faults' = faults + 1 /\ batches' = batches
    <3>1. ~(faults' = 0) /\ (faults' = 1 => faults = 0) BY <1>4, <2>2
    <3> QED BY <1>1, <1>3, <2>2, <3>1 DEF BatchInv, Shown, Approved
  <2> QED BY <1>3, <2>1, <2>2
<1>10. StepInv' BY <1>1, <1>4 DEF StepInv
<1> QED BY <1>5, <1>6, <1>7, <1>8, <1>9, <1>10

LEMMA CloseKeeps == DemoInv /\ Close => DemoInv'
<1> SUFFICES ASSUME DemoInv, Close PROVE DemoInv' OBVIOUS
<1> USE DEF DemoInv
<1>1. /\ pc = "closing" /\ pc' = "done" /\ g' = g /\ log' = log
      /\ batches' = batches /\ steps' = steps
      /\ \/ run' = "succeeded" /\ faults' = faults
         \/ run' = run /\ faults' = faults + 1
  BY DEF Close, EndRun, Fault
<1>2. faults \in Nat /\ faults' \in Nat /\ (faults' = faults + 1 => faults' # 0)
  BY <1>1 DEF RunInv
<1>3. GraphInv' BY <1>1 DEF GraphInv, Proposal
<1>4. RunInv' BY <1>1, <1>2 DEF RunInv, Pcs, Ended
<1>5. LogInv' BY <1>1 DEF LogInv
<1>6. ProposalsFollowDecisions' BY <1>1 DEF ProposalsFollowDecisions
<1>7. BatchInv'
  <2>1. run # "none" BY <1>1 DEF RunInv
  <2>2. (faults' = 0 \/ faults' = 1 => faults = faults' \/ faults = 0) BY <1>1, <1>2
  <2> QED BY <1>1, <1>2, <2>1, <2>2 DEF BatchInv, Shown, Approved
<1>8. StepInv' BY <1>1, <1>2 DEF StepInv
<1> QED BY <1>3, <1>4, <1>5, <1>6, <1>7, <1>8

LEMMA FailKeeps == DemoInv /\ Fail => DemoInv'
<1> SUFFICES ASSUME DemoInv, Fail PROVE DemoInv' OBVIOUS
<1> USE DEF DemoInv
<1>1. /\ pc = "failing" /\ pc' = "raised" /\ g' = g /\ log' = log
      /\ batches' = batches /\ steps' = steps
      /\ run' \in {run, "failed"} /\ (run = "none" <=> run' = "none")
      /\ faults' \in {faults, faults + 1}
  BY DEF Fail, EndRun, Fault
<1>2. faults \in Nat /\ faults' \in Nat /\ (faults' = 0 => faults = 0)
  BY <1>1 DEF RunInv
<1>3. GraphInv' BY <1>1 DEF GraphInv, Proposal
<1>4. RunInv' BY <1>1, <1>2 DEF RunInv, Pcs, Ended
<1>5. LogInv' BY <1>1 DEF LogInv
<1>6. ProposalsFollowDecisions' BY <1>1 DEF ProposalsFollowDecisions
<1>7. BatchInv' BY <1>1 DEF BatchInv
<1>8. StepInv' BY <1>1, <1>2 DEF StepInv
<1> QED BY <1>3, <1>4, <1>5, <1>6, <1>7, <1>8

LEMMA DemoStep == DemoInv /\ [Next]_vars => DemoInv'
<1> SUFFICES ASSUME DemoInv, [Next]_vars PROVE DemoInv' OBVIOUS
<1>1. CASE UNCHANGED vars
  BY <1>1 DEF vars, DemoInv, GraphInv, Proposal, RunInv, LogInv,
              ProposalsFollowDecisions, BatchInv, Shown, Approved, StepInv
<1>2. CASE Next
  BY <1>2, BeginKeeps, RunNodeKeeps, RaiseKeeps, InterruptKeeps, AskKeeps, ResumeKeeps,
     ReturnKeeps, PublishKeeps, CloseKeeps, FailKeeps DEF Next
<1> QED BY <1>1, <1>2

LEMMA DemoInvariant == Spec => []DemoInv
BY DemoInit, DemoStep, PTL DEF Spec

----------------------------------------------------------------------------
(* The properties. *)

\* Each proposal of the demo answers the rejection before it: it is scored with
\* the budget that was asked for.
THEOREM ProposalsAnswer == Spec => []ProposalsFollowDecisions
<1>1. DemoInv => ProposalsFollowDecisions BY DEF DemoInv
<1> QED BY <1>1, DemoInvariant, PTL

\* A demo that closed its row as a success shows what was approved last, even
\* when one of its writes failed.
THEOREM SuccessShowsApproved == Spec => []SucceededShowsApproved
<1>1. DemoInv => SucceededShowsApproved
  BY DEF DemoInv, RunInv, BatchInv, SucceededShowsApproved, Shown, Approved, Last
<1> QED BY <1>1, DemoInvariant, PTL

\* The step rows trace a path of the graph, as long as they are recorded.
THEOREM RowsTraceThePath == Spec => []StepsTracePath
<1>1. DemoInv => StepsTracePath
  <2> SUFFICES ASSUME DemoInv, faults = 0, NEW i \in 1..(Len(steps) - 1)
               PROVE  /\ steps[i + 1].node \in Follows[steps[i].node]
                      /\ steps[i].status = "succeeded"
    BY DEF StepsTracePath
  <2>1. i \in 1..Len(steps) BY DEF DemoInv, StepInv
  <2> QED BY <2>1 DEF DemoInv, StepInv
<1> QED BY <1>1, DemoInvariant, PTL

----------------------------------------------------------------------------
(* The batches are the proposals, in their order. *)

KeptInv ==
    /\ pc = "start" => log = << >> /\ batches = << >>
    /\ EveryProposalKept

LEMMA BatchesAreNumbered ==
    ASSUME log \in Seq(Entry)
    PROVE  /\ IsFiniteSet(Proposed) /\ Cardinality(Proposed) \in Nat
           /\ \A i \in Proposed : Rank(i, Proposed) \in 1..Cardinality(Proposed)
<1>1. Len(log) \in Nat /\ Proposed \subseteq 1..Len(log) BY DEF Proposed
<1>2. IsFiniteSet(Proposed)
  <2>1. 1 \in Int /\ Len(log) \in Int BY <1>1
  <2>2. IsFiniteSet(1..Len(log)) BY <2>1, FS_Interval
  <2> QED BY <1>1, <2>2, FS_Subset
<1>3. Cardinality(Proposed) \in Nat BY <1>2, FS_CardinalityType
<1>4. ASSUME NEW i \in Proposed PROVE Rank(i, Proposed) \in 1..Cardinality(Proposed)
  <2> DEFINE T == {j \in Proposed : j <= i}
  <2>1. T \subseteq Proposed /\ i \in T BY <1>1
  <2>2. IsFiniteSet(T) /\ Cardinality(T) <= Cardinality(Proposed)
    BY <1>2, <2>1, FS_Subset
  <2>3. Cardinality(T) \in Nat /\ Cardinality(T) # 0
    BY <2>1, <2>2, FS_CardinalityType, FS_EmptySet
  <2> QED BY <1>3, <2>2, <2>3 DEF Rank
<1> QED BY <1>2, <1>3, <1>4

\* A log that grows: the earlier proposals keep their batches, and the new one
\* gets the next if there is something to rank.
LEMMA LogGrows ==
    ASSUME log \in Seq(Entry), NEW e \in Entry, log' = Append(log, e),
           NEW i \in Proposed'
    PROVE  \/ /\ i \in Proposed /\ log'[i] = log[i]
              /\ Rank(i, Proposed') = Rank(i, Proposed)
           \/ /\ e.proposed # Empty /\ log'[i] = e
              /\ Rank(i, Proposed') = Cardinality(Proposed) + 1
<1> DEFINE n == Len(log)
<1>1. /\ n \in Nat /\ DOMAIN log = 1..n /\ DOMAIN log' = 1..(n + 1)
      /\ log'[n + 1] = e /\ \A j \in 1..n : log'[j] = log[j]
  BY Appended
<1> HIDE DEF n
<1>2. Proposed \subseteq 1..n /\ n + 1 \notin Proposed BY <1>1 DEF Proposed
<1>3. IsFiniteSet(Proposed) BY BatchesAreNumbered
<1>4. Proposed' = IF e.proposed = Empty THEN Proposed ELSE Proposed \cup {n + 1}
  BY <1>1 DEF Proposed
<1>5. CASE i \in Proposed
  <2>1. i \in 1..n BY <1>2, <1>5
  <2>2. {j \in Proposed' : j <= i} = {j \in Proposed : j <= i}
    BY <1>1, <1>4, <2>1
  <2> QED BY <1>1, <1>5, <2>1, <2>2 DEF Rank
<1>6. CASE i = n + 1 /\ e.proposed # Empty
  <2>1. {j \in Proposed' : j <= i} = Proposed \cup {i}
    <3>1. Proposed' = Proposed \cup {i} BY <1>4, <1>6
    <3>2. \A j \in Proposed \cup {i} : j <= i BY <1>1, <1>2, <1>6
    <3> QED BY <3>1, <3>2
  <2>2. Cardinality(Proposed \cup {i}) = Cardinality(Proposed) + 1
    BY <1>2, <1>3, <1>6, FS_AddElement
  <2> QED BY <1>1, <1>6, <2>1, <2>2 DEF Rank
<1> QED BY <1>4, <1>5, <1>6

LEMMA LogCounts ==
    ASSUME log \in Seq(Entry), NEW e \in Entry, log' = Append(log, e)
    PROVE  Cardinality(Proposed') =
             Cardinality(Proposed) + (IF e.proposed = Empty THEN 0 ELSE 1)
<1> DEFINE n == Len(log)
<1>1. /\ n \in Nat /\ DOMAIN log = 1..n /\ DOMAIN log' = 1..(n + 1)
      /\ log'[n + 1] = e /\ \A j \in 1..n : log'[j] = log[j]
  BY Appended
<1> HIDE DEF n
<1>2. n + 1 \notin Proposed BY <1>1 DEF Proposed
<1>3. IsFiniteSet(Proposed) /\ Cardinality(Proposed) \in Nat BY BatchesAreNumbered
<1>4. CASE e.proposed = Empty
  <2>1. Proposed' = Proposed BY <1>1, <1>4 DEF Proposed
  <2> QED BY <1>3, <1>4, <2>1
<1>5. CASE e.proposed # Empty
  <2>1. Proposed' = Proposed \cup {n + 1} BY <1>1, <1>5 DEF Proposed
  <2> QED BY <1>2, <1>3, <1>5, <2>1, FS_AddElement
<1> QED BY <1>4, <1>5

LEMMA KeptInit == Init => KeptInv
<1> SUFFICES ASSUME Init PROVE KeptInv OBVIOUS
<1> QED BY DEF Init, KeptInv, EveryProposalKept

LEMMA KeptStays ==
    ASSUME KeptInv, UNCHANGED <<log, batches>>, run' # "none" => run # "none",
           faults' = 0 => faults = 0, pc' # "start", (HasResult' <=> HasResult),
           HasResult => FinalList(g)' = FinalList(g)
    PROVE  KeptInv'
<1>1. Proposed' = Proposed BY DEF Proposed
<1>2. EveryProposalKept' BY <1>1 DEF KeptInv, EveryProposalKept, Last
<1> QED BY <1>2 DEF KeptInv

LEMMA AskBatches == DemoInv /\ KeptInv /\ Ask => KeptInv'
<1> SUFFICES ASSUME DemoInv, KeptInv, Ask PROVE KeptInv' OBVIOUS
<1>0. ~HasResult' /\ pc' = "resuming" /\ run' = run BY DEF Ask, HasResult
<1> SUFFICES ASSUME run # "none", faults' = 0
             PROVE  /\ Len(batches') = Cardinality(Proposed') + 0
                    /\ \A i \in Proposed' : batches'[Rank(i, Proposed')] = log'[i].proposed
  BY <1>0 DEF KeptInv, EveryProposalKept
<1> DEFINE say == DecisionFor(g.iter)
           e == [iteration |-> g.iter + 1, proposed |-> g.winner,
                 decision |-> say.decision, overrides |-> say.overrides]
<1>1. log' = Append(log, e) /\ Write(g.shortlist) /\ pc = "asked" BY DEF Ask
<1>2. g.shortlist = g.winner /\ g.winner \in Lists /\ g.iter \in Nat
  BY <1>1 DEF DemoInv, GraphInv, Proposal
<1>3. say.decision \in Decisions /\ say.overrides \in Asks
  BY BudgetAssumption DEF DecisionFor, Reject, Approve, Decisions, Asks
<1>4. e \in Entry /\ e.proposed = g.winner BY <1>2, <1>3 DEF Entry
<1> HIDE DEF e, say
<1>5. log \in Seq(Entry) /\ batches \in Seq(Lists) /\ faults \in Nat
  BY DEF DemoInv, LogInv, BatchInv, RunInv
<1>6. faults = 0 /\ batches' = IF g.winner = Empty THEN batches
                              ELSE Append(batches, g.winner)
  BY <1>1, <1>2, <1>5 DEF Write, Fault
<1>7. /\ Len(batches) = Cardinality(Proposed)
      /\ \A i \in Proposed : batches[Rank(i, Proposed)] = log[i].proposed
  <2>1. ~HasResult BY <1>1 DEF HasResult
  <2>2. Cardinality(Proposed) \in Nat BY <1>5, BatchesAreNumbered
  <2> QED BY <1>6, <2>1, <2>2 DEF KeptInv, EveryProposalKept
<1> DEFINE c == Cardinality(Proposed)
<1>8. /\ c \in Nat /\ Cardinality(Proposed') = c + (IF g.winner = Empty THEN 0 ELSE 1)
      /\ \A i \in Proposed : Rank(i, Proposed) \in 1..c
  BY <1>1, <1>4, <1>5, LogCounts, BatchesAreNumbered
<1>9. Len(batches') = Cardinality(Proposed') + 0 BY <1>2, <1>5, <1>6, <1>7, <1>8
<1>10. ASSUME NEW i \in Proposed'
       PROVE  batches'[Rank(i, Proposed')] = log'[i].proposed
  <2>1. CASE /\ i \in Proposed /\ log'[i] = log[i]
             /\ Rank(i, Proposed') = Rank(i, Proposed)
    <3>1. Rank(i, Proposed) \in 1..Len(batches) BY <1>7, <1>8, <2>1
    <3>2. batches'[Rank(i, Proposed)] = batches[Rank(i, Proposed)]
      BY <1>2, <1>5, <1>6, <3>1, Appended
    <3> QED BY <1>7, <2>1, <3>2
  <2>2. CASE /\ e.proposed # Empty /\ log'[i] = e
             /\ Rank(i, Proposed') = c + 1
    BY <1>2, <1>4, <1>5, <1>6, <1>7, <2>2, Appended
  <2> QED BY <1>1, <1>4, <1>5, <2>1, <2>2, LogGrows
<1> QED BY <1>9, <1>10

LEMMA PublishBatches == DemoInv /\ KeptInv /\ Publish => KeptInv'
<1> SUFFICES ASSUME DemoInv, KeptInv, Publish PROVE KeptInv' OBVIOUS
<1>1. /\ pc = "publishing" /\ pc' = "closing" /\ g' = g /\ log' = log /\ run' = run
      /\ Write(FinalList(g))
  BY DEF Publish
<1>2. FinalList(g) \in Lists BY DEF DemoInv, GraphInv, Proposal, FinalList
<1>3. batches \in Seq(Lists) /\ faults \in Nat BY DEF DemoInv, BatchInv, RunInv
<1>4. Proposed' = Proposed BY <1>1 DEF Proposed
<1>5. FinalList(g)' = FinalList(g) /\ ~HasResult /\ (HasResult' <=> FinalList(g) # Empty)
  BY <1>1 DEF HasResult, FinalList
<1>6. ASSUME run # "none", faults' = 0
      PROVE  /\ Len(batches') = Cardinality(Proposed) + (IF HasResult' THEN 1 ELSE 0)
             /\ \A i \in Proposed : batches'[Rank(i, Proposed)] = log[i].proposed
             /\ HasResult' => batches'[Len(batches')] = FinalList(g)
  <2>1. faults = 0 /\ batches' = IF FinalList(g) = Empty THEN batches
                                ELSE Append(batches, FinalList(g))
    BY <1>1, <1>3, <1>6 DEF Write, Fault
  <2>2. /\ Len(batches) = Cardinality(Proposed) + 0
        /\ \A i \in Proposed : batches[Rank(i, Proposed)] = log[i].proposed
    BY <1>5, <1>6, <2>1 DEF KeptInv, EveryProposalKept
  <2>3. /\ Cardinality(Proposed) \in Nat
        /\ \A i \in Proposed : Rank(i, Proposed) \in 1..Cardinality(Proposed)
    <3>1. log \in Seq(Entry) BY DEF DemoInv, LogInv
    <3> QED BY <3>1, BatchesAreNumbered
  <2>4. CASE FinalList(g) = Empty BY <1>5, <2>1, <2>2, <2>4
  <2>5. CASE FinalList(g) # Empty
    <3>1. /\ Len(batches') = Len(batches) + 1 /\ Len(batches) \in Nat
          /\ batches'[Len(batches) + 1] = FinalList(g)
          /\ \A i \in 1..Len(batches) : batches'[i] = batches[i]
      BY <1>2, <1>3, <2>1, <2>5, Appended
    <3> QED BY <1>5, <2>2, <2>3, <2>5, <3>1
  <2> QED BY <2>4, <2>5
<1>7. EveryProposalKept' BY <1>1, <1>4, <1>5, <1>6 DEF EveryProposalKept, Last
<1> QED BY <1>1, <1>7 DEF KeptInv

LEMMA KeptStep == DemoInv /\ KeptInv /\ [Next]_vars => KeptInv'
<1> SUFFICES ASSUME DemoInv, KeptInv, [Next]_vars PROVE KeptInv' OBVIOUS
<1>1. CASE UNCHANGED vars
  <2>1. (HasResult' <=> HasResult) /\ FinalList(g)' = FinalList(g)
    BY <1>1 DEF vars, HasResult, FinalList
  <2>2. Proposed' = Proposed BY <1>1 DEF vars, Proposed
  <2> QED BY <1>1, <2>1, <2>2 DEF vars, KeptInv, EveryProposalKept, Last
<1>2. CASE Begin
  <2>1. log = << >> /\ batches = << >> /\ log' = log /\ batches' = batches /\ pc' = "driving"
    BY <1>2 DEF Begin, KeptInv
  <2>2. Proposed' = {} /\ ~HasResult' BY <2>1 DEF Proposed, HasResult
  <2> QED BY <2>1, <2>2, FS_EmptySet DEF KeptInv, EveryProposalKept
<1>3. CASE RunNode \/ RunNodeRaises \/ Interrupt \/ Resume
  <2>1. /\ pc \in {"driving", "resuming"} /\ pc' \in {"driving", "failing", "asked"}
        /\ UNCHANGED <<log, batches, run>>
    BY <1>3 DEF RunNode, RunNodeRaises, Interrupt, GateIsDue, Resume
  <2>2. faults' = 0 => faults = 0
    BY <1>3 DEF RunNode, RunNodeRaises, Interrupt, Resume, Record, Fault, DemoInv, RunInv
  <2>3. ~HasResult /\ ~HasResult' BY <2>1 DEF HasResult
  <2> QED BY <2>1, <2>2, <2>3, KeptStays
<1>4. CASE Return
  <2>1. /\ pc = "driving" /\ pc' \in {"publishing", "done"} /\ (pc' = "done" => run = "none")
        /\ UNCHANGED <<log, batches, run, faults>>
    BY <1>4 DEF Return
  <2>2. CASE run = "none" BY <2>1, <2>2 DEF KeptInv, EveryProposalKept
  <2>3. CASE run # "none"
    <3>1. ~HasResult /\ ~HasResult' BY <2>1, <2>3 DEF HasResult
    <3> QED BY <2>1, <3>1, KeptStays
  <2> QED BY <2>2, <2>3
<1>5. CASE Close
  <2>1. /\ pc = "closing" /\ pc' = "done" /\ g' = g /\ UNCHANGED <<log, batches>>
        /\ run # "none" /\ (faults' = 0 => faults = 0)
    BY <1>5 DEF Close, EndRun, Fault, DemoInv, RunInv
  <2>2. (HasResult' <=> HasResult) /\ FinalList(g)' = FinalList(g)
    BY <2>1 DEF HasResult, FinalList
  <2> QED BY <2>1, <2>2, KeptStays
<1>6. CASE Fail
  <2>1. /\ pc = "failing" /\ pc' = "raised" /\ UNCHANGED <<log, batches>>
        /\ (run' # "none" => run # "none") /\ (faults' = 0 => faults = 0)
    BY <1>6 DEF Fail, EndRun, Fault, DemoInv, RunInv
  <2>2. ~HasResult /\ ~HasResult' BY <2>1 DEF HasResult
  <2> QED BY <2>1, <2>2, KeptStays
<1> QED BY <1>1, <1>2, <1>3, <1>4, <1>5, <1>6, AskBatches, PublishBatches DEF Next

\* While no write fails, the batches of a run are the proposals in the order
\* they were asked about, and the result's after them.
THEOREM ProposalsAreKept == Spec => []EveryProposalKept
<1>1. DemoInv /\ KeptInv /\ [Next]_vars => KeptInv' BY KeptStep
<1>2. KeptInv => EveryProposalKept BY DEF KeptInv
<1> QED BY <1>1, <1>2, KeptInit, DemoInvariant, PTL DEF Spec

----------------------------------------------------------------------------
(* The types. *)

LEMMA NodeTypes ==
    ASSUME g \in GraphState, NEW b \in BOOLEAN, NEW o \in Asks
    PROVE  /\ ParsePreferences(g) \in GraphState
           /\ SearchPlaces(g, b) \in GraphState
           /\ NormalizePlaces(g, b) \in GraphState
           /\ ScoreCandidates(g) \in GraphState
           /\ ExplainCandidates(g) \in GraphState
           /\ SelectWinner(g) \in GraphState
           /\ Replan(g) \in GraphState
           /\ ForceApprove(g) \in GraphState
           /\ GateApprove(g) \in GraphState
           /\ GateReject(g, o) \in GraphState
<1> DEFINE Nexts == Nodes \cup {"END"}
<1>nodes. /\ Nodes \subseteq Nexts /\ "END" \in Nexts
          /\ {"parse_preferences", "search_places", "normalize_places",
              "score_candidates", "explain_candidates", "select_winner",
              "await_approval", "replan"} = Nodes
  BY DEF Nodes
<1>data. /\ GroupBar \in Bars /\ NoOverride \in Asks
         /\ Bars \subseteq Lists /\ Empty \in Lists /\ Unscored \in Lists
         /\ \A a \in Asks : a # NoOverride => a \in Bars
         /\ "none" \in Decisions \cup {"none"}
         /\ {"approve", "reject"} = Decisions
  BY DEF Bars, Asks, Lists, Decisions
<1>g. GraphState =
        [next : Nexts, iter : Int, bar : Bars, ask : Asks, cands : Lists,
         shortlist : Lists, winner : Lists, needs : BOOLEAN,
         decision : Decisions \cup {"none"}, asked : Asks, loops : Nat,
         recounted : BOOLEAN]
  BY DEF GraphState, Lists
<1> HIDE DEF Nexts
<1> USE <1>nodes, <1>data, <1>g
<1>2. ParsePreferences(g) \in GraphState
  <2>1. 0 \in Int OBVIOUS
  <2> QED BY <2>1 DEF ParsePreferences
<1>3. SearchPlaces(g, b) \in GraphState
  <2>1. (IF b THEN Unscored ELSE Empty) \in Lists OBVIOUS
  <2> QED BY <2>1 DEF SearchPlaces
<1>4. NormalizePlaces(g, b) \in GraphState
  <2>1. (IF b THEN g.cands ELSE Empty) \in Lists OBVIOUS
  <2> QED BY <2>1 DEF NormalizePlaces
<1>5. ScoreCandidates(g) \in GraphState
  <2>1. (IF g.cands = Empty THEN Empty ELSE g.bar) \in Lists OBVIOUS
  <2> QED BY <2>1 DEF ScoreCandidates
<1>6. ExplainCandidates(g) \in GraphState BY DEF ExplainCandidates
<1>7. SelectWinner(g) \in GraphState
  <2>1. /\ (g.shortlist # Empty) \in BOOLEAN
        /\ (IF g.shortlist = Empty THEN g.decision ELSE "none")
              \in Decisions \cup {"none"}
    OBVIOUS
  <2> QED BY <2>1 DEF SelectWinner
<1>8. Replan(g) \in GraphState
  <2>1. (IF g.ask = NoOverride THEN g.bar ELSE g.ask) \in Bars OBVIOUS
  <2>2. (IF g.ask \in DOMAIN Counters THEN Counters[g.ask] ELSE g.iter) \in Int
    BY CountersAssumption
  <2> QED BY <2>1, <2>2 DEF Replan
<1>9. /\ RouteAfterApproval("approve") = "END"
      /\ RouteAfterApproval("reject") = "replan"
  BY DEF RouteAfterApproval
<1>10. ForceApprove(g) \in GraphState BY <1>9 DEF ForceApprove
<1>11. GateApprove(g) \in GraphState BY <1>9 DEF GateApprove
<1>12. GateReject(g, o) \in GraphState
  <2>1. /\ (IF o = NoOverride THEN g.asked ELSE o) \in Asks
        /\ g.iter + 1 \in Int /\ g.loops + 1 \in Nat
        /\ (g.recounted \/ o \in DOMAIN Counters) \in BOOLEAN
    OBVIOUS
  <2> QED BY <2>1, <1>9 DEF GateReject
<1> QED
  BY ONLY <1>2, <1>3, <1>4, <1>5, <1>6, <1>7, <1>8, <1>10, <1>11, <1>12

LEMMA OutcomeTypes ==
    ASSUME g \in GraphState, NEW h \in Outcomes
    PROVE  h \in GraphState
<1>1. NoOverride \in Asks BY DEF Asks
<1>2. /\ {ParsePreferences(g), ScoreCandidates(g), ExplainCandidates(g), SelectWinner(g),
          Replan(g), ForceApprove(g)} \subseteq GraphState
      /\ \A b \in BOOLEAN : {SearchPlaces(g, b), NormalizePlaces(g, b)} \subseteq GraphState
  BY <1>1, NodeTypes
<1>3. g.next \in Nodes \cup {"END"} BY DEF GraphState
<1>4. CASE g.next = "parse_preferences" BY <1>2, <1>4 DEF Outcomes
<1>5. CASE g.next = "search_places" BY <1>2, <1>5 DEF Outcomes
<1>6. CASE g.next = "normalize_places" BY <1>2, <1>6 DEF Outcomes
<1>7. CASE g.next = "score_candidates" BY <1>2, <1>7 DEF Outcomes
<1>8. CASE g.next = "explain_candidates" BY <1>2, <1>8 DEF Outcomes
<1>9. CASE g.next = "select_winner" BY <1>2, <1>9 DEF Outcomes
<1>10. CASE g.next = "replan" BY <1>2, <1>10 DEF Outcomes
<1>11. CASE g.next = "await_approval" BY <1>2, <1>11 DEF Outcomes
<1>12. CASE g.next = "END" BY <1>12 DEF Outcomes
<1> QED
  BY <1>3, <1>4, <1>5, <1>6, <1>7, <1>8, <1>9, <1>10, <1>11, <1>12 DEF Nodes

\* An empty list adds no batch.
LEMMA BatchesTyped ==
    ASSUME batches \in Seq(Lists \ {Empty}), NEW list \in Lists, Write(list)
    PROVE  batches' \in Seq(Lists \ {Empty})
<1>1. CASE batches' = batches BY <1>1
<1>2. CASE list # Empty /\ batches' = Append(batches, list) BY <1>2
<1> QED BY <1>1, <1>2 DEF Write

LEMMA TypesInit == Init => TypeOK
<1> SUFFICES ASSUME Init PROVE TypeOK OBVIOUS
<1>1. InitialGraph(NoOverride) \in GraphState
  BY DEF InitialGraph, GraphState, Nodes, Bars, Asks, Decisions
<1> QED BY <1>1, FaultsAssumption DEF Init, TypeOK, Pcs

\* DemoInv has the types of the log, the steps and the position.
LEMMA TypesStep == TypeOK /\ DemoInv /\ DemoInv' /\ [Next]_vars => TypeOK'
<1> SUFFICES ASSUME TypeOK, DemoInv, DemoInv', [Next]_vars PROVE TypeOK' OBVIOUS
<1>1. pc' \in Pcs /\ log' \in Seq(Entry) /\ steps' \in Seq(Step)
  BY DEF DemoInv, RunInv, LogInv, StepInv
<1>2. faults \in 0..MaxFaults /\ MaxFaults \in Nat BY FaultsAssumption DEF TypeOK
<1>3. ASSUME Fault PROVE faults' \in 0..MaxFaults BY <1>2, <1>3 DEF Fault
<1>4. /\ mode' \in Modes /\ db' \in BOOLEAN /\ faults' \in 0..MaxFaults
      /\ run' \in {"none", "running", "succeeded", "failed"}
  BY <1>2, <1>3 DEF TypeOK, Next, vars, Begin, RunNode, Record, RunNodeRaises, Interrupt,
     Ask, Write, Resume, Return, Publish, Close, Fail, EndRun
<1>5. g' \in GraphState
  <2>1. CASE RunNode BY <2>1, OutcomeTypes DEF RunNode, TypeOK
  <2>2. CASE Resume
    <3> DEFINE say == log[Len(log)]
    <3>1. /\ g' = IF say.decision = "approve" THEN GateApprove(g)
                  ELSE GateReject(g, say.overrides)
          /\ log \in Seq(Entry) /\ Len(log) \in 1..Len(log)
      BY <2>2 DEF Resume, Last, DemoInv, LogInv, GraphInv, Proposal
    <3>2. say \in Entry BY <3>1
    <3>3. say.overrides \in Asks BY <3>2 DEF Entry
    <3> HIDE DEF say
    <3> QED BY <3>1, <3>3, NodeTypes DEF TypeOK
  <2>3. CASE UNCHANGED g BY <2>3 DEF TypeOK
  <2> QED BY <2>1, <2>2, <2>3
       DEF Next, vars, Begin, RunNodeRaises, Interrupt, Ask, Return, Publish, Close, Fail
<1>6. batches' \in Seq(Lists \ {Empty})
  <2>1. batches \in Seq(Lists \ {Empty}) BY DEF TypeOK
  <2>2. g.shortlist \in Lists /\ FinalList(g) \in Lists
    BY DEF DemoInv, GraphInv, Proposal, FinalList
  <2>3. CASE Ask BY <2>1, <2>2, <2>3, BatchesTyped DEF Ask
  <2>4. CASE Publish BY <2>1, <2>2, <2>4, BatchesTyped DEF Publish
  <2>5. CASE UNCHANGED batches BY <2>1, <2>5
  <2> QED BY <2>3, <2>4, <2>5
       DEF Next, vars, Begin, RunNode, RunNodeRaises, Interrupt, Resume, Return, Close, Fail
<1> QED BY <1>1, <1>4, <1>5, <1>6 DEF TypeOK

\* Every variable keeps its type, for any budgets and number of failures.
THEOREM TypeCorrect == Spec => []TypeOK
BY TypesInit, TypesStep, DemoInvariant, PTL DEF Spec
=============================================================================

--------------------------- MODULE RecommendGraph ---------------------------
(***************************************************************************)
(* The recommend_v1 graph of services/agents/vibebite_agents: what each    *)
(* node returns and the edge taken after it, as operators on one value of  *)
(* GraphState.  A node's returned keys overwrite the state (GraphStateDict *)
(* declares no reducers); the edge out of the node is the `next` field.    *)
(*                                                                         *)
(* Data is abstracted to what the properties tell apart.  The only value   *)
(* of group_constraints a replan changes is the one the overrides name, so *)
(* it is a single "bar": GroupBar is the bar parse_preferences merged from *)
(* the members, any other value is one an owner submitted as an override.  *)
(* A non-empty list of candidates is named by the bar it was scored with.  *)
(*                                                                         *)
(* The overrides are any JSON object, and replan merges every key of it    *)
(* into group_constraints, where the gate keeps _replan_iteration as well: *)
(* Counters gives the count that an override carries next to its bar.      *)
(* (Its other _replan_ keys are dropped or overwritten before anyone reads *)
(* them, and a count that is no integer makes the gate raise.)             *)
(***************************************************************************)
EXTENDS Integers

CONSTANTS
    Overrides,             \* the bars an owner can submit as overrides
    Counters,              \* override -> the _replan_iteration it carries
    GroupBar,              \* the bar merged from the members' preferences
    NoOverride,            \* no overrides were submitted (None or {})
    Empty,                 \* an empty list of candidates
    Unscored,              \* candidates that have no score yet
    MAX_REPLAN_ITERATIONS  \* cap on rejection cycles, 3 in graph.py

ASSUME OverridesAssumption ==
    /\ GroupBar \notin Overrides
    /\ NoOverride \notin Overrides
    /\ Empty \notin Overrides \cup {GroupBar, Unscored}
    /\ Unscored \notin Overrides \cup {GroupBar}

ASSUME CountersAssumption ==
    /\ DOMAIN Counters \subseteq Overrides
    /\ \A o \in DOMAIN Counters : Counters[o] \in Int

\* Overrides that leave the count alone.
NoCounters == [o \in {} |-> 0]

ASSUME MaxReplanAssumption == MAX_REPLAN_ITERATIONS \in Nat

Bars == Overrides \cup {GroupBar}
Asks == Overrides \cup {NoOverride}

Nodes == {"parse_preferences", "search_places", "normalize_places",
          "score_candidates", "explain_candidates", "select_winner",
          "await_approval", "replan"}

Decisions == {"approve", "reject"}

(***************************************************************************)
(* GraphState.  The last three fields are history: the overrides of the    *)
(* last rejection this state went through that carried any, the rejections *)
(* it went through, and whether one of them carried a count.               *)
(***************************************************************************)
GraphState ==
    [next      : Nodes \cup {"END"},
     iter      : Int,                               \* _replan_iteration
     bar       : Bars,                              \* the constraint in force
     ask       : Asks,                              \* _replan_overrides
     cands     : Bars \cup {Empty, Unscored},       \* candidates
     shortlist : Bars \cup {Empty, Unscored},
     winner    : Bars \cup {Empty, Unscored},
     needs     : BOOLEAN,                           \* needs_human_approval
     decision  : Decisions \cup {"none"},           \* approval_decision
     asked     : Asks,
     loops     : Nat,
     recounted : BOOLEAN]

\* The state a run starts from: nothing derived yet, and the submitted
\* overrides stashed under the replan sentinel.
InitialGraph(o) ==
    [next |-> "parse_preferences", iter |-> 0, bar |-> GroupBar, ask |-> o,
     cands |-> Empty, shortlist |-> Empty, winner |-> Empty,
     needs |-> FALSE, decision |-> "none", asked |-> NoOverride, loops |-> 0, recounted |-> FALSE]

----------------------------------------------------------------------------
(* The nodes. *)

\* The merged profile replaces group_constraints whole: whatever was there,
\* the sentinels and the iteration count included, is gone.
ParsePreferences(g) ==
    [g EXCEPT !.next = "search_places",
              !.bar = GroupBar, !.ask = NoOverride, !.iter = 0]

\* The search may find nothing.
SearchPlaces(g, found) ==
    [g EXCEPT !.next = "normalize_places",
              !.cands = IF found THEN Unscored ELSE Empty]

\* The hard rejections may leave nothing, and find nothing in an empty list.
NormalizePlaces(g, kept) ==
    [g EXCEPT !.next = "score_candidates",
              !.cands = IF kept THEN @ ELSE Empty]

\* Mutant of ScoreCandidates: reads the submitted overrides, not the merged
\* constraints.
ScoreWithSentinel(g) ==
    [g EXCEPT !.next = "explain_candidates",
              !.cands = IF @ = Empty THEN Empty ELSE g.ask]

ScoreCandidates(g) ==
    [g EXCEPT !.next = "explain_candidates",
              !.cands = IF @ = Empty THEN Empty ELSE g.bar]

\* The explained top five become the shortlist; their scores are unchanged.
ExplainCandidates(g) ==
    [g EXCEPT !.next = "select_winner", !.shortlist = g.cands]

\* A previous decision is reset only when there is something to propose.
SelectWinner(g) ==
    [g EXCEPT !.next = "await_approval",
              !.winner = g.shortlist,
              !.needs = g.shortlist # Empty,
              !.decision = IF g.shortlist = Empty THEN @ ELSE "none"]

\* Mutant of Replan: clears the overrides before they are merged.
ReplanDropsOverrides(g) ==
    [g EXCEPT !.next = "score_candidates", !.ask = NoOverride]

\* Overrides clobber the constraints, the count included where they carry one;
\* the sentinels go.
Replan(g) ==
    [g EXCEPT !.next = "score_candidates",
              !.bar = IF g.ask = NoOverride THEN @ ELSE g.ask,
              !.iter = IF g.ask \in DOMAIN Counters THEN Counters[g.ask] ELSE @,
              !.ask = NoOverride]

----------------------------------------------------------------------------
(* The approval gate and the conditional edge out of it. *)

\* Mutant of GateIsForced: off by one at the cap.
GateIsForcedLate(g) == g.iter > MAX_REPLAN_ITERATIONS

\* The gate approves by itself once the replan cap is reached.
GateIsForced(g) == g.iter >= MAX_REPLAN_ITERATIONS

RouteAfterApproval(decision) == IF decision = "reject" THEN "replan" ELSE "END"

ForceApprove(g) ==
    [g EXCEPT !.next = RouteAfterApproval("approve"),
              !.decision = "approve", !.needs = FALSE]

GateApprove(g) ==
    [g EXCEPT !.next = RouteAfterApproval("approve"),
              !.decision = "approve", !.needs = FALSE, !.ask = NoOverride]

GateReject(g, o) ==
    [g EXCEPT !.next = RouteAfterApproval("reject"),
              !.decision = "reject", !.needs = TRUE,
              !.ask = o, !.iter = @ + 1,
              !.asked = IF o = NoOverride THEN @ ELSE o,
              !.loops = @ + 1,
              !.recounted = @ \/ o \in DOMAIN Counters]

\* What reaches the rankings: the shortlist, or the candidates without one.
FinalList(g) == IF g.shortlist # Empty THEN g.shortlist ELSE g.cands
=============================================================================

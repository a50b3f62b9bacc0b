--------------------------- MODULE Recommendation ---------------------------
(***************************************************************************)
(* One recommendation run on the data it works with: the members'          *)
(* preferences, the merged profile, the places found, their scores, the    *)
(* explained shortlist and the proposal.  The control is RecommendGraph's  *)
(* (g); Scoring and GroupProfile say what its nodes compute.  A run that   *)
(* failed or ended may be kicked again, and other runs search meanwhile.   *)
(*                                                                         *)
(* A node reads everything it needs before it returns one update, except   *)
(* parse_preferences (one language-model call per comment, any of which    *)
(* can fail the run) and search_places (it looks a place up before it      *)
(* writes it).  The first write of a search takes the lock other searches  *)
(* write under, and all searches write the same places in the same order,  *)
(* so only the look before that first write can be out of date.            *)
(***************************************************************************)
EXTENDS RecommendGraph, Scoring

CONSTANTS
    N,             \* the number of members, who are 1..N
    Tastes,        \* what a member's row can hold: [stated, comment]
    Replies,       \* the profiles a language model can read in a comment
    Catalog,       \* the places the places client returns
    TopN,          \* length of the shortlist, 5 in explain_candidates
    MaxKicks       \* bound on the runs kicked

ASSUME SizesAssumption == N \in Nat \ {0} /\ TopN \in Nat \ {0, 1} /\ MaxKicks \in Nat

NumberKeys == {"budget_max_cents", "noise_tolerance"}

\* Budgets and noise levels are integers wherever they come from.
ASSUME NumbersAssumption ==
    \A k \in NumberKeys :
        /\ \A t \in Tastes : t.stated[k] \in Int \cup {None}
        /\ \A reply \in Replies : reply[k] \in Int \cup {None}
        /\ \A o \in Overrides : k \in DOMAIN o => o[k] \in Int \cup {None}

\* The client returns finitely many places.  No two have the same rank (name):
\* the sort is stable, so places of one name keep the order they were found in.
ASSUME CatalogAssumption ==
    /\ IsFiniteSet(Catalog) /\ None \notin Catalog
    /\ \A p \in Catalog :
          /\ p.veg \in BOOLEAN \cup {None} /\ p.vegan \in BOOLEAN
          /\ p.rating \in Int \cup {None} /\ p.name \in Int
          /\ \A q \in Catalog : p.name = q.name => p = q

VARIABLES
    env,        \* [llm, places]: the configured providers
    run,        \* "off", "busy", "done" or "failed"
    g,          \* control: a GraphState
    prefs,      \* the members' rows when the run was kicked
    views,      \* the views of the members parsed so far
    profile,    \* group_constraints
    rows,       \* the places with a row in the table
    seen,       \* the rows the lookup of this search has seen
    cands,      \* candidates
    scored,     \* the profile they were scored with, None before
    shortlist, winner, backup,
    told,       \* the shortlisted places whose cons a model replaced
    kicks, clashes  \* runs kicked; searches lost to the unique key

vars == <<env, run, g, prefs, views, profile, rows, seen, cands, scored,
          shortlist, winner, backup, told, kicks, clashes>>

Members == 1..N

Init ==
    /\ env \in [llm : {"stub", "gemini"}, places : {"stub", "google"}]
    /\ run = "off"
    /\ g = InitialGraph(NoOverride)
    /\ prefs = << >> /\ views = << >>
    /\ profile = NoView
    /\ rows = {} /\ seen = {} /\ cands = {}
    /\ scored = None /\ shortlist = {} /\ winner = None /\ backup = None
    /\ told = {}
    /\ kicks = 0 /\ clashes = 0

At(node) == run = "busy" /\ g.next = node

\* A run starts from the members' rows as they are, with nothing derived.
Kick ==
    /\ run # "busy" /\ kicks < MaxKicks
    /\ run' = "busy"
    /\ g' = InitialGraph(NoOverride)
    /\ prefs' \in [Members -> Tastes]
    /\ views' = << >> /\ profile' = NoView
    /\ seen' = {} /\ cands' = {} /\ scored' = None
    /\ shortlist' = {} /\ winner' = None /\ backup' = None /\ told' = {}
    /\ kicks' = kicks + 1
    /\ UNCHANGED <<env, rows, clashes>>

Fail == run' = "failed"

----------------------------------------------------------------------------
(* parse_preferences: the members in their order. *)

Unparsed == Len(views) + 1

ParsedAs(parsed) ==
    views' = Append(views, MemberView(prefs[Unparsed].stated, parsed))

\* A comment costs one call.  A transient failure is answered by the stub,
\* any other one ends the run.
ParseMember ==
    /\ At("parse_preferences") /\ Unparsed \in Members
    /\ LET comment == prefs[Unparsed].comment IN
       \/ comment = {} /\ ParsedAs(NoView) /\ UNCHANGED run
       \/ comment # {} /\ ParsedAs(Spotted(Rendered(comment))) /\ UNCHANGED run
       \/ /\ comment # {} /\ env.llm = "gemini"
          /\ \E reply \in Replies : ParsedAs(reply)
          /\ UNCHANGED run
       \/ comment # {} /\ env.llm = "gemini" /\ Fail /\ UNCHANGED views
    /\ UNCHANGED <<env, g, prefs, profile, rows, seen, cands, scored,
                   shortlist, winner, backup, told, kicks, clashes>>

\* The members' views become the group profile.
Parsed ==
    /\ At("parse_preferences") /\ Unparsed \notin Members
    /\ profile' = Merge(views)
    /\ g' = ParsePreferences(g)
    /\ UNCHANGED <<env, run, prefs, views, rows, seen, cands, scored,
                   shortlist, winner, backup, told, kicks, clashes>>

----------------------------------------------------------------------------
(* search_places *)

\* The real client is not written yet and raises; otherwise the places are
\* found and the first one is looked up.
SearchLook ==
    /\ At("search_places") /\ seen = {}
    /\ IF env.places = "google" THEN Fail /\ UNCHANGED seen
       ELSE seen' = rows \cup {None} /\ UNCHANGED run
    /\ UNCHANGED <<env, g, prefs, views, profile, rows, cands, scored,
                   shortlist, winner, backup, told, kicks, clashes>>

\* Mutant of Clashes: a place with a row is inserted again.
ClashesOnUpdate(p) == p \in rows

\* Inserted in the belief that it has no row, which by now it has.
Clashes(p) == p \notin seen /\ p \in rows

\* All places are written and committed, or the unique key refuses one and
\* the transaction is rolled back.
SearchWrite ==
    /\ At("search_places") /\ seen # {}
    /\ IF \E p \in Catalog : Clashes(p)
       THEN Fail /\ clashes' = clashes + 1 /\ UNCHANGED <<g, rows, cands>>
       ELSE /\ rows' = rows \cup Catalog /\ cands' = Catalog
            /\ g' = SearchPlaces(g, Catalog # {})
            /\ UNCHANGED <<run, clashes>>
    /\ UNCHANGED <<env, prefs, views, profile, seen, scored,
                   shortlist, winner, backup, told, kicks>>

\* The search of another run commits.
OtherSearch ==
    /\ rows # Catalog /\ rows' = Catalog
    /\ UNCHANGED <<env, run, g, prefs, views, profile, seen, cands, scored,
                   shortlist, winner, backup, told, kicks, clashes>>

----------------------------------------------------------------------------
(* The nodes that call nobody but the database. *)

Normalize ==
    /\ At("normalize_places")
    /\ cands' = {p \in cands : Kept(p, profile)}
    /\ g' = NormalizePlaces(g, cands' # {})
    /\ UNCHANGED <<env, run, prefs, views, profile, rows, seen, scored,
                   shortlist, winner, backup, told, kicks, clashes>>

\* Scores, pros and cons are computed afresh.
Score ==
    /\ At("score_candidates")
    /\ scored' = IF cands = {} THEN scored ELSE profile
    /\ told' = {}
    /\ g' = ScoreCandidates(g)
    /\ UNCHANGED <<env, run, prefs, views, profile, rows, seen, cands,
                   shortlist, winner, backup, kicks, clashes>>

\* One call for each place of the shortlist; a failed one, or an empty list in
\* the answer, leaves what score_candidates wrote.  The stub always answers.
Explain ==
    /\ At("explain_candidates")
    /\ shortlist' = IF cands = {} THEN {} ELSE TopOf(TopN, cands, scored)
    /\ told' \in IF env.llm = "stub" THEN {shortlist'} ELSE SUBSET shortlist'
    /\ g' = ExplainCandidates(g)
    /\ UNCHANGED <<env, run, prefs, views, profile, rows, seen, cands, scored,
                   winner, backup, kicks, clashes>>

\* The place in position i of a sorted list, None past its end.
Nth(i, S) ==
    IF i > Cardinality(S) THEN None
    ELSE CHOOSE p \in S : Position(p, S, scored) = i

Select ==
    /\ At("select_winner")
    /\ winner' = Nth(1, shortlist) /\ backup' = Nth(2, shortlist)
    /\ g' = SelectWinner(g)
    /\ UNCHANGED <<env, run, prefs, views, profile, rows, seen, cands, scored,
                   shortlist, told, kicks, clashes>>

----------------------------------------------------------------------------
(* await_approval and replan *)

Ended == run' = IF g'.next = "END" THEN "done" ELSE run

Decide ==
    /\ At("await_approval")
    /\ IF GateIsForced(g) THEN g' = ForceApprove(g)
       ELSE g' \in {GateApprove(g)} \cup {GateReject(g, o) : o \in Asks}
    /\ Ended
    /\ UNCHANGED <<env, prefs, views, profile, rows, seen, cands, scored,
                   shortlist, winner, backup, told, kicks, clashes>>

\* The profile once the overrides of a rejection are on top of it.
Rebar(p, ask) == IF ask = NoOverride THEN p ELSE Override(p, ask)

\* Back to scoring with the same candidates.
ReplanRun ==
    /\ At("replan")
    /\ profile' = Rebar(profile, g.ask)
    /\ g' = Replan(g)
    /\ UNCHANGED <<env, run, prefs, views, rows, seen, cands, scored,
                   shortlist, winner, backup, told, kicks, clashes>>

Next ==
    \/ Kick \/ ParseMember \/ Parsed \/ SearchLook \/ SearchWrite \/ OtherSearch
    \/ Normalize \/ Score \/ Explain \/ Select \/ Decide \/ ReplanRun

Spec == Init /\ [][Next]_vars

----------------------------------------------------------------------------
(* Properties *)

\* Whatever an owner overrides and whatever a model makes of the comments, no
\* place on the shortlist breaks what a member stated: a disliked cuisine, or
\* a diet it says it does not cater for (parse, normalize and replan together).
NoMemberVetoProposed ==
    \A p \in shortlist, m \in Members :
        LET stated == prefs[m].stated IN
        /\ p.cuisines \cap stated.cuisines_dislike = {}
        /\ "vegetarian" \in stated.dietary_restrictions => p.veg # FALSE
        /\ "vegan" \in stated.dietary_restrictions =>
              p.vegan \/ p.veg = TRUE \/ p.cuisines \cap VeganFriendly # {}

\* The two copies of the dietary rules agree: a place normalize_places would
\* reject for a diet gets no dietary points from score_candidates, so a diet
\* added at the gate counts although nothing is searched or filtered again.
DietaryRulesAgree ==
    At("explain_candidates") =>
        \A p \in cands : DietRejected(p, scored) => ScoreDietary(p, scored) = 0

\* What is proposed at the gate has the highest score under the constraints
\* in force there, ties going to the better rating, and the backup is next.
ProposalIsBest ==
    At("await_approval") /\ winner # None =>
        /\ scored = profile
        /\ \A p \in cands :
              /\ Total(winner, profile) >= Total(p, profile)
              /\ Total(winner, profile) = Total(p, profile) => winner.rating >= p.rating
              /\ p # winner => backup # None /\ Total(backup, profile) >= Total(p, profile)

\* A place that hits a cuisine disliked by now (a rejection added it after the
\* filter ran) carries that among the cons score_candidates writes for it, and
\* is proposed with it unless a model has replaced those cons.
WarnsOfVeto ==
    LET Warned(p) == p.cuisines \cap scored.cuisines_dislike # {}
                        => "cuisine" \in Cons(p, scored)
    IN /\ At("explain_candidates") => \A p \in cands : Warned(p)
       /\ At("await_approval") /\ winner # None /\ winner \notin told => Warned(winner)

\* The profile the places are first scored with never asks less than a member
\* stated: its budget and its noise are at most what each of them gave, and it
\* has everybody's dislikes and diets, even when a model reads something else
\* in a comment.
StatedPrevails ==
    At("score_candidates") /\ g.loops = 0 =>
        \A m \in Members :
            LET stated == prefs[m].stated IN
            /\ \A k \in NumberKeys :
                  stated[k] # None => profile[k] <= stated[k]
            /\ \A k \in {"cuisines_dislike", "dietary_restrictions"} :
                  stated[k] \subseteq profile[k]

\* Two runs that find the same new places clash at most once: the run that
\* lost can be kicked again and its search only updates rows.
LosesRaceOnce == clashes <= 1

\* Lowering only the budget never raises a score, down to a budget of nothing.
TighterBudgetNeverHelps ==
    [][ At("score_candidates") /\ scored # None /\ scored' # scored
          /\ (\A k \in Keys \ {"budget_max_cents"} : scored'[k] = scored[k])
          /\ scored'.budget_max_cents # None
          /\ (scored.budget_max_cents # None =>
                 scored'.budget_max_cents <= scored.budget_max_cents)
        => \A p \in cands : Total(p, scored') <= Total(p, scored) ]_vars
=============================================================================

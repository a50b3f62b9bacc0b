---------------------------- MODULE GroupProfile ----------------------------
(***************************************************************************)
(* How the members' preferences become one group profile:                  *)
(* nodes/parse_preferences.py, the keyword spotter of clients/llm_stub.py  *)
(* that stands in for the language model, and the overrides that           *)
(* nodes/replan.py puts on top.  Operators without state.                  *)
(*                                                                         *)
(* A view is what is known of one member: the scalar keys may be None, the *)
(* list keys are sets (their order reaches only the search query).         *)
(* distance_tolerance_m and seating_preference are merged like             *)
(* noise_tolerance and vibe and read by nobody, so they are left out.      *)
(***************************************************************************)
EXTENDS Integers, FiniteSets, Sequences

CONSTANTS
    None,    \* an absent value
    Vibes    \* the vibes, a sequence in alphabetical order

ScalarKeys == {"budget_max_cents", "vibe", "noise_tolerance"}
ListKeys == {"cuisines_like", "cuisines_dislike", "dietary_restrictions"}
Keys == ScalarKeys \cup ListKeys

\* A member without a preferences row, or a comment that says nothing.
NoView == [k \in Keys |-> IF k \in ScalarKeys THEN None ELSE {}]

----------------------------------------------------------------------------
(* One member. *)

\* The prompt the comment is rendered into: of the words the stub spots,
\* the template itself says one.
TemplateWords == {"budget"}

Rendered(comment) == comment \cup TemplateWords

\* What the stub finds in the words of a text.
Spotted(text) ==
    [budget_max_cents |-> IF text \cap {"cheap", "budget"} # {} THEN 1500
                          ELSE IF "fancy" \in text THEN 8000 ELSE None,
     vibe |-> IF "loud" \in text THEN "lively"
              ELSE IF "quiet" \in text THEN "quiet"
              ELSE IF "casual" \in text THEN "casual" ELSE None,
     noise_tolerance |-> IF "loud" \in text THEN 5
                         ELSE IF "quiet" \in text THEN 1 ELSE None,
     cuisines_like |-> {},
     cuisines_dislike |-> text \cap {"sushi"},
     dietary_restrictions |-> text \cap {"vegetarian", "vegan"}]

\* Mutant of MemberView: what the model inferred wins.
MemberViewInferredFirst(structured, parsed) ==
    [k \in Keys |-> IF k \in ListKeys THEN structured[k] \cup parsed[k]
                    ELSE IF parsed[k] # None THEN parsed[k] ELSE structured[k]]

\* What the member stated wins over what was inferred; lists add up.
MemberView(structured, parsed) ==
    [k \in Keys |-> IF k \in ListKeys THEN structured[k] \cup parsed[k]
                    ELSE IF structured[k] # None THEN structured[k] ELSE parsed[k]]

----------------------------------------------------------------------------
(* The group. *)

MinNonNull(S) ==
    IF S \ {None} = {} THEN None
    ELSE CHOOSE n \in S \ {None} : \A k \in S \ {None} : n <= k

\* The most common vibe, the first in alphabetical order among equals.
Mode(vote) ==
    LET Count(i) == Cardinality({m \in DOMAIN vote : vote[m] = Vibes[i]})
        common == {i \in DOMAIN Vibes : \A j \in DOMAIN Vibes : Count(i) >= Count(j)}
    IN IF \A m \in DOMAIN vote : vote[m] = None THEN None
       ELSE Vibes[CHOOSE i \in common : \A j \in common : i <= j]

\* The tightest budget and noise, everybody's lists, the most common vibe.
Merge(views) ==
    LET Of(k) == {views[m][k] : m \in DOMAIN views} IN
    [budget_max_cents |-> MinNonNull(Of("budget_max_cents")),
     noise_tolerance |-> MinNonNull(Of("noise_tolerance")),
     vibe |-> Mode([m \in DOMAIN views |-> views[m].vibe]),
     cuisines_like |-> UNION Of("cuisines_like"),
     cuisines_dislike |-> UNION Of("cuisines_dislike"),
     dietary_restrictions |-> UNION Of("dietary_restrictions")]

\* Overrides clobber whatever they name.
Override(profile, overrides) ==
    [k \in Keys |-> IF k \in DOMAIN overrides THEN overrides[k] ELSE profile[k]]
=============================================================================

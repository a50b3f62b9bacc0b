------------------------------ MODULE Scoring ------------------------------
(***************************************************************************)
(* How one place fares under one group profile: the hard rejections of     *)
(* nodes/normalize_places.py and the points, the order and the pros and    *)
(* cons of nodes/score_candidates.py, as operators without state.          *)
(*                                                                         *)
(* A place is a row of the places table, its raw_blob reduced to the keys  *)
(* that are read:                                                          *)
(*   name     its rank by name; places of one name, in the order found     *)
(*   price    price_level, 0..4                                            *)
(*   rating   in tenths                                                    *)
(*   cuisines, vibe   sets of lower-case words                             *)
(*   veg      vegetarian_options: TRUE, FALSE or None                      *)
(*   vegan    vegan_options is true                                        *)
(*   noise    a word or None                                               *)
(* A profile has the keys of group_constraints that are read here.  Points *)
(* are counted in 18ths, which makes the division by 1.8 exact.            *)
(***************************************************************************)
EXTENDS GroupProfile

Components == <<"budget", "cuisine", "dietary", "noise", "rating", "vibe">>

Part == 18

Weight == [budget |-> 25 * Part, cuisine |-> 20 * Part, dietary |-> 20 * Part,
           noise |-> 15 * Part, rating |-> 10 * Part, vibe |-> 10 * Part]

VeganFriendly == {"vegan", "thai", "ethiopian", "indian"}

----------------------------------------------------------------------------
(* normalize_places: a place is kept or dropped. *)

\* Mutant of VeganRejected: only an explicit flag counts.
VeganRejectedUnlessFlagged(p) == ~p.vegan

\* A vegan-friendly cuisine, or either flag, is signal enough.
VeganRejected(p) ==
    p.cuisines \cap VeganFriendly = {} /\ ~p.vegan /\ p.veg # TRUE

VegetarianRejected(p) ==
    p.veg = FALSE \/ ("bbq" \in p.cuisines /\ p.veg # TRUE)

DietRejected(p, c) ==
    \/ "vegan" \in c.dietary_restrictions /\ VeganRejected(p)
    \/ "vegetarian" \in c.dietary_restrictions /\ VegetarianRejected(p)

\* Mutant of HardRejected: a place with something else to eat passes.
HardRejectedWhole(p, c) ==
    p.cuisines \subseteq c.cuisines_dislike \/ DietRejected(p, c)

HardRejected(p, c) ==
    p.cuisines \cap c.cuisines_dislike # {} \/ DietRejected(p, c)

Scoreable(p) == p.rating # None /\ p.price # None /\ p.rating >= 30

Kept(p, c) == Scoreable(p) /\ ~HardRejected(p, c)

----------------------------------------------------------------------------
(* score_candidates: the points of each component. *)

Cents(p) == CASE p.price = 1 -> 1500 [] p.price = 2 -> 3000
              [] p.price = 3 -> 6000 [] OTHER -> 10000

\* Mutant of ScoreBudget: `if not budget` for `if budget is None`.
ScoreBudgetFalsy(p, c) ==
    IF c.budget_max_cents \in {None, 0} \/ Cents(p) <= c.budget_max_cents
    THEN Weight.budget ELSE 0

ScoreBudget(p, c) ==
    IF c.budget_max_cents = None \/ Cents(p) <= c.budget_max_cents
    THEN Weight.budget ELSE 0

\* Mutant of ScoreCuisine: a liked cuisine pardons a disliked one.
ScoreCuisineLenient(p, c) ==
    IF p.cuisines \cap c.cuisines_like # {} THEN 10 * Part
    ELSE IF p.cuisines \cap c.cuisines_dislike # {} THEN -25 * Part ELSE 0

\* A match with a like and one with a dislike both count.
ScoreCuisine(p, c) ==
    (IF p.cuisines \cap c.cuisines_like # {} THEN 10 * Part ELSE 0)
      - (IF p.cuisines \cap c.cuisines_dislike # {} THEN 25 * Part ELSE 0)

ScoreDietary(p, c) ==
    LET vegetarianFails ==
          \/ p.veg = FALSE
          \/ p.veg = None /\ ("bbq" \in p.cuisines \/ p.cuisines = {"sushi"})
        veganFails == ~p.vegan /\ p.cuisines \cap VeganFriendly = {}
    IN IF \/ "vegetarian" \in c.dietary_restrictions /\ vegetarianFails
          \/ "vegan" \in c.dietary_restrictions /\ veganFails
       THEN 0 ELSE Weight.dietary

NoiseBucket(n) == IF n <= 2 THEN "quiet" ELSE IF n = 3 THEN "moderate" ELSE "loud"

ScoreNoise(p, c) ==
    IF c.noise_tolerance = None \/ p.noise = None THEN Weight.noise
    ELSE IF p.noise = NoiseBucket(c.noise_tolerance) THEN Weight.noise
    ELSE 7 * Part

ScoreVibe(p, c) ==
    IF c.vibe = None \/ c.vibe \in p.vibe THEN Weight.vibe ELSE 0

Clamp(n, top) == IF n < 0 THEN 0 ELSE IF n > top THEN top ELSE n

\* (rating - 3.0) / 1.8 * 10, no rating counting as 0.
ScoreRating(p) ==
    Clamp(((IF p.rating = None THEN 0 ELSE p.rating) - 30) * 10, Weight.rating)

Total(p, c) ==
    Clamp(ScoreBudget(p, c) + ScoreCuisine(p, c) + ScoreDietary(p, c)
            + ScoreNoise(p, c) + ScoreVibe(p, c) + ScoreRating(p), 100 * Part)

----------------------------------------------------------------------------
(* The order of the candidates; names are distinct. *)

\* Mutant of Before: ratings decide first.
BeforeByRating(p, q, c) ==
    \/ p.rating > q.rating
    \/ p.rating = q.rating /\ Total(p, c) > Total(q, c)
    \/ p.rating = q.rating /\ Total(p, c) = Total(q, c) /\ p.name < q.name

Before(p, q, c) ==
    \/ Total(p, c) > Total(q, c)
    \/ Total(p, c) = Total(q, c) /\ p.rating > q.rating
    \/ Total(p, c) = Total(q, c) /\ p.rating = q.rating /\ p.name < q.name

\* The position of p in the sorted list, from 1.
Position(p, S, c) == 1 + Cardinality({q \in S : Before(q, p, c)})

\* The first n of the sorted list S.
TopOf(n, S, c) == {p \in S : Position(p, S, c) <= n}

----------------------------------------------------------------------------
(* Pros and cons, as the components they are about. *)

Raw(p, c) ==
    [budget |-> ScoreBudget(p, c), cuisine |-> Clamp(ScoreCuisine(p, c), Weight.cuisine),
     dietary |-> ScoreDietary(p, c), noise |-> ScoreNoise(p, c),
     rating |-> ScoreRating(p), vibe |-> ScoreVibe(p, c)]

\* Component i has a smaller share of its weight than component j.
Lower(raw, i, j) ==
    raw[Components[i]] * Weight[Components[j]] < raw[Components[j]] * Weight[Components[i]]

\* Ties in share are broken by the component's name.
WeakerThan(raw, j, i) == Lower(raw, j, i) \/ (~Lower(raw, i, j) /\ j < i)
StrongerThan(raw, j, i) == Lower(raw, i, j) \/ (~Lower(raw, j, i) /\ j < i)

Indices == DOMAIN Components

\* At most three components with at least 80 percent of their weight.
Pros(p, c) ==
    LET raw == Raw(p, c) IN
    {Components[i] : i \in
        {k \in Indices : /\ 10 * raw[Components[k]] >= 8 * Weight[Components[k]]
                         /\ Cardinality({j \in Indices : StrongerThan(raw, j, k)}) < 3}}

\* At most two components with at most 25 percent.
WeakSpots(p, c) ==
    LET raw == Raw(p, c) IN
    {Components[i] : i \in
        {k \in Indices : /\ 4 * raw[Components[k]] <= Weight[Components[k]]
                         /\ Cardinality({j \in Indices : WeakerThan(raw, j, k)}) < 2}}

\* A disliked cuisine is always among the cons, in place of the last one
\* when there are two already.
Cons(p, c) ==
    LET weak == WeakSpots(p, c)
        raw == Raw(p, c)
        last == CHOOSE i \in Indices :
                   /\ Components[i] \in weak
                   /\ \A j \in Indices :
                        Components[j] \in weak /\ j # i => WeakerThan(raw, j, i)
    IN IF ScoreCuisine(p, c) >= 0 \/ "cuisine" \in weak THEN weak
       ELSE (IF Cardinality(weak) < 2 THEN weak ELSE weak \ {Components[last]})
              \cup {"cuisine"}
=============================================================================

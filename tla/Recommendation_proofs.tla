----------------------- MODULE Recommendation_proofs -----------------------
(***************************************************************************)
(* What a recommendation run proposes, for any members, tastes, replies of *)
(* a language model, places and overrides.                                 *)
(***************************************************************************)
EXTENDS Recommendation, FiniteSetTheorems, TLAPS

----------------------------------------------------------------------------
(* Finite strict total orders, as sets of pairs. *)

StrictOrder(R, S) ==
    /\ \A p \in S : <<p, p>> \notin R
    /\ \A p, q, r \in S : <<p, q>> \in R /\ <<q, r>> \in R => <<p, r>> \in R
    /\ \A p, q \in S : p = q \/ <<p, q>> \in R \/ <<q, p>> \in R

Below(p, S, R) == {q \in S : <<q, p>> \in R}

LEMMA BelowGrows ==
    ASSUME NEW S, IsFiniteSet(S), NEW R, StrictOrder(R, S),
           NEW p \in S, NEW q \in S, <<p, q>> \in R
    PROVE  /\ Cardinality(Below(p, S, R)) \in Nat
           /\ Cardinality(Below(q, S, R)) \in Nat
           /\ Cardinality(Below(p, S, R)) < Cardinality(Below(q, S, R))
<1>1. Below(p, S, R) \subseteq Below(q, S, R) BY DEF StrictOrder, Below
<1>2. p \in Below(q, S, R) \ Below(p, S, R) BY DEF StrictOrder, Below
<1>3. IsFiniteSet(Below(q, S, R)) BY FS_Subset DEF Below
<1>4. IsFiniteSet(Below(p, S, R)) BY FS_Subset DEF Below
<1>5. /\ Cardinality(Below(p, S, R)) <= Cardinality(Below(q, S, R))
      /\ Cardinality(Below(p, S, R)) # Cardinality(Below(q, S, R))
  BY <1>1, <1>2, <1>3, FS_Subset
<1>6. Cardinality(Below(p, S, R)) \in Nat /\ Cardinality(Below(q, S, R)) \in Nat
  BY <1>3, <1>4, FS_CardinalityType
<1> QED BY <1>5, <1>6

\* The numbers of elements below are 0, 1, ..., up to the last.
LEMMA RanksAreOnto ==
    ASSUME NEW S, IsFiniteSet(S), NEW R, StrictOrder(R, S),
           NEW n \in Nat, n < Cardinality(S)
    PROVE  \E p \in S : Cardinality(Below(p, S, R)) = n
<1> DEFINE c == Cardinality(S)
           T == 0..(c - 1)
           f == [p \in S |-> Cardinality(Below(p, S, R))]
<1>1. c \in Nat BY FS_CardinalityType
<1>2. ASSUME NEW p \in S PROVE f[p] \in T
  <2>1. Below(p, S, R) \in SUBSET (S \ {p}) BY DEF Below, StrictOrder
  <2>2. IsFiniteSet(S \ {p}) /\ Cardinality(S \ {p}) = c - 1
    BY FS_RemoveElement
  <2>3. /\ IsFiniteSet(Below(p, S, R))
        /\ Cardinality(Below(p, S, R)) <= c - 1
    BY <2>1, <2>2, FS_Subset
  <2>4. Cardinality(Below(p, S, R)) \in Nat BY <2>3, FS_CardinalityType
  <2> QED BY <1>1, <2>3, <2>4
<1>3. ASSUME NEW p \in S, NEW q \in S, f[p] = f[q] PROVE p = q
  <2>1. <<p, q>> \notin R BY <1>3, BelowGrows
  <2>2. <<q, p>> \notin R BY <1>3, BelowGrows
  <2> QED BY <2>1, <2>2 DEF StrictOrder
<1>4. f \in Injection(S, T) BY <1>2, <1>3 DEF Injection, IsInjective
<1>5. IsFiniteSet(T) /\ Cardinality(T) = c
  <2>1. 0 \in Int /\ c - 1 \in Int /\ (0 > c - 1 => c = 0) BY <1>1
  <2>2. IsFiniteSet(T) BY <2>1, FS_Interval
  <2>3. Cardinality(T) = IF 0 > c - 1 THEN 0 ELSE (c - 1) - 0 + 1
    BY <2>1, FS_Interval
  <2> QED BY <1>1, <2>1, <2>2, <2>3
<1>6. f \in Surjection(S, T) BY <1>4, <1>5, FS_Injection
<1>7. n \in T BY <1>1
<1> QED BY <1>6, <1>7 DEF Surjection

LEMMA LeastExists ==
    ASSUME NEW S, IsFiniteSet(S), S # {}, NEW R, StrictOrder(R, S)
    PROVE  \E p \in S : \A q \in S \ {p} : <<p, q>> \in R
<1>1. Cardinality(S) \in Nat /\ Cardinality(S) # 0
  BY FS_CardinalityType, FS_EmptySet
<1>2. PICK p \in S : Cardinality(Below(p, S, R)) = 0 BY <1>1, RanksAreOnto
<1>3. IsFiniteSet(Below(p, S, R)) BY FS_Subset DEF Below
<1>4. Below(p, S, R) = {} BY <1>2, <1>3, FS_EmptySet
<1> QED BY <1>4 DEF Below, StrictOrder

LEMMA MinimumExists ==
    ASSUME NEW S \in SUBSET Int, IsFiniteSet(S), S # {}
    PROVE  \E n \in S : \A k \in S : n <= k
<1> DEFINE R == {pair \in S \X S : pair[1] < pair[2]}
<1>1. \A p, q \in S : <<p, q>> \in R <=> p < q OBVIOUS
<1> HIDE DEF R
<1>2. StrictOrder(R, S) BY <1>1 DEF StrictOrder
<1>3. PICK n \in S : \A k \in S \ {n} : <<n, k>> \in R BY <1>2, LeastExists
<1>4. ASSUME NEW k \in S PROVE n <= k
  <2>1. n \in Int /\ k \in Int OBVIOUS
  <2>2. k = n \/ n < k BY <1>1, <1>3
  <2> QED BY <2>1, <2>2
<1> QED BY <1>4

----------------------------------------------------------------------------
(* Points, and the order of places. *)

Rated(S) == \A p \in S : p.rating \in Int

LEMMA PointsAreIntegers ==
    ASSUME NEW p, NEW c, p.rating \in Int \cup {None}
    PROVE  /\ ScoreBudget(p, c) \in Int /\ ScoreCuisine(p, c) \in Int
           /\ ScoreDietary(p, c) \in Int /\ ScoreNoise(p, c) \in Int
           /\ ScoreVibe(p, c) \in Int /\ ScoreRating(p) \in Int
           /\ Total(p, c) \in Int
<1>1. /\ ScoreBudget(p, c) \in Int /\ ScoreCuisine(p, c) \in Int
      /\ ScoreDietary(p, c) \in Int /\ ScoreNoise(p, c) \in Int
      /\ ScoreVibe(p, c) \in Int
  BY DEF ScoreBudget, ScoreCuisine, ScoreDietary, ScoreNoise, ScoreVibe, Weight, Part
<1>2. ScoreRating(p) \in Int BY DEF ScoreRating, Clamp, Weight, Part
<1> QED BY <1>1, <1>2 DEF Total, Clamp, Part

\* The order of the candidates, as a set of pairs.
Order(S, c) == {pq \in S \X S : Before(pq[1], pq[2], c)}

LEMMA OrderIsStrict ==
    ASSUME NEW S \in SUBSET Catalog, Rated(S), NEW c
    PROVE  /\ IsFiniteSet(S)
           /\ \A p, q \in S : <<p, q>> \in Order(S, c) <=> Before(p, q, c)
           /\ StrictOrder(Order(S, c), S)
<1>1. IsFiniteSet(S) BY CatalogAssumption, FS_Subset
<1>2. \A p, q \in S : <<p, q>> \in Order(S, c) <=> Before(p, q, c)
  BY DEF Order
<1>3. \A p \in S : Total(p, c) \in Int /\ p.rating \in Int /\ p.name \in Int
  BY PointsAreIntegers, CatalogAssumption DEF Rated
<1>4. \A p, q \in S : p.name = q.name => p = q
  BY CatalogAssumption
<1>5. \A p \in S : ~Before(p, p, c) BY <1>3 DEF Before
<1>6. \A p, q, r \in S : Before(p, q, c) /\ Before(q, r, c) => Before(p, r, c)
  BY <1>3 DEF Before
<1>7. \A p, q \in S : p = q \/ Before(p, q, c) \/ Before(q, p, c)
  BY <1>3, <1>4 DEF Before
<1> QED BY <1>1, <1>2, <1>5, <1>6, <1>7 DEF StrictOrder

LEMMA PositionIsRank ==
    ASSUME NEW S \in SUBSET Catalog, Rated(S), NEW c, NEW p \in S
    PROVE  /\ Below(p, S, Order(S, c)) = {q \in S : Before(q, p, c)}
           /\ Position(p, S, c) = 1 + Cardinality(Below(p, S, Order(S, c)))
           /\ Cardinality(Below(p, S, Order(S, c))) \in Nat
<1>1. Below(p, S, Order(S, c)) = {q \in S : Before(q, p, c)}
  BY OrderIsStrict DEF Below
<1>2. IsFiniteSet(Below(p, S, Order(S, c)))
  BY OrderIsStrict, FS_Subset DEF Below
<1> QED BY <1>1, <1>2, FS_CardinalityType DEF Position

\* Every position is somebody's.
LEMMA NthIsThere ==
    ASSUME NEW S \in SUBSET Catalog, Rated(S),
           NEW i \in Nat \ {0}, i <= Cardinality(S)
    PROVE  Nth(i, S) \in S /\ Position(Nth(i, S), S, scored) = i
<1>1. IsFiniteSet(S) /\ StrictOrder(Order(S, scored), S) BY OrderIsStrict
<1>2. Cardinality(S) \in Nat BY <1>1, FS_CardinalityType
<1>3. PICK p \in S : Cardinality(Below(p, S, Order(S, scored))) = i - 1
  <2>1. i - 1 \in Nat /\ i - 1 < Cardinality(S) BY <1>2
  <2> QED BY <1>1, <2>1, RanksAreOnto
<1>4. Position(p, S, scored) = i BY <1>3, PositionIsRank
<1>5. ~(i > Cardinality(S)) BY <1>2
<1> QED BY <1>4, <1>5 DEF Nth

\* The first ones of a list are in the positions they had in it.
LEMMA TopKeepsPositions ==
    ASSUME NEW S \in SUBSET Catalog, Rated(S), NEW c, NEW n \in Nat,
           NEW p \in TopOf(n, S, c)
    PROVE  Position(p, TopOf(n, S, c), c) = Position(p, S, c)
<1> DEFINE T == TopOf(n, S, c)
<1>1. p \in S /\ Position(p, S, c) <= n /\ T \subseteq S BY DEF TopOf
<1>2. ASSUME NEW q \in S, Before(q, p, c) PROVE q \in T
  <2>1. <<q, p>> \in Order(S, c) BY <1>1, <1>2, OrderIsStrict
  <2>2. Cardinality(Below(q, S, Order(S, c))) < Cardinality(Below(p, S, Order(S, c)))
    BY <1>1, <2>1, OrderIsStrict, BelowGrows
  <2>3. Position(q, S, c) <= n BY <1>1, <2>2, PositionIsRank
  <2> QED BY <2>3 DEF TopOf
<1>3. {q \in T : Before(q, p, c)} = {q \in S : Before(q, p, c)}
  BY <1>1, <1>2
<1> QED BY <1>3 DEF Position

(***************************************************************************)
(* The winner and the backup taken from the first n candidates are the     *)
(* first and the second of all candidates.                                 *)
(***************************************************************************)
LEMMA FirstTwoAreBest ==
    ASSUME NEW S \in SUBSET Catalog, Rated(S), NEW n \in Nat \ {0, 1},
           NEW w, w = Nth(1, TopOf(n, S, scored)), w # None,
           NEW b, b = Nth(2, TopOf(n, S, scored)),
           NEW p \in S
    PROVE  /\ w \in S
           /\ Total(w, scored) >= Total(p, scored)
           /\ Total(w, scored) = Total(p, scored) => w.rating >= p.rating
           /\ p # w => b # None /\ Total(b, scored) >= Total(p, scored)
<1> DEFINE T == TopOf(n, S, scored)
           R == Order(S, scored)
<1>1. T \in SUBSET Catalog /\ Rated(T) /\ T \subseteq S BY DEF TopOf, Rated
<1>2. IsFiniteSet(S) /\ StrictOrder(R, S) /\ IsFiniteSet(T)
  BY <1>1, OrderIsStrict
<1>3. Cardinality(S) \in Nat /\ Cardinality(T) \in Nat
  BY <1>2, FS_CardinalityType
<1>4. \A q \in S : /\ Total(q, scored) \in Int /\ q.rating \in Int
                   /\ Cardinality(Below(q, S, R)) \in Nat
                   /\ Position(q, S, scored) = 1 + Cardinality(Below(q, S, R))
  BY PointsAreIntegers, PositionIsRank DEF Rated
<1> HIDE DEF T, R
<1>5. w \in T /\ Position(w, T, scored) = 1
  <2>1. ~(1 > Cardinality(T)) BY DEF Nth, T
  <2>2. 1 \in Nat \ {0} /\ 1 <= Cardinality(T) BY <1>3, <2>1
  <2> QED BY <1>1, <2>2, NthIsThere DEF T
<1>6. w \in S /\ Cardinality(Below(w, S, R)) = 0
  <2>1. w \in S /\ Position(w, S, scored) = 1
    BY <1>1, <1>5, TopKeepsPositions DEF T
  <2> QED BY <1>4, <2>1
<1>7. Below(w, S, R) = {}
  <2>1. IsFiniteSet(Below(w, S, R)) BY <1>2, FS_Subset DEF Below
  <2> QED BY <1>6, <2>1, FS_EmptySet
<1>8. \A q \in S : q = w \/ <<w, q>> \in R
  BY <1>2, <1>6, <1>7 DEF StrictOrder, Below
<1>9. \A q, r \in S : <<q, r>> \in R <=> Before(q, r, scored)
  BY OrderIsStrict DEF R
<1>10. /\ Total(w, scored) >= Total(p, scored)
       /\ Total(w, scored) = Total(p, scored) => w.rating >= p.rating
  <2>1. CASE p = w BY <1>4, <1>6, <2>1
  <2>2. CASE p # w
    <3>1. Before(w, p, scored) BY <1>6, <1>8, <1>9, <2>2
    <3> QED BY <1>4, <1>6, <3>1 DEF Before
  <2> QED BY <2>1, <2>2
<1>11. ASSUME p # w
       PROVE  b # None /\ Total(b, scored) >= Total(p, scored)
  <2>1. 1 < Cardinality(S)
    <3>1. /\ IsFiniteSet(S \ {w}) /\ Cardinality(S \ {w}) = Cardinality(S) - 1
      BY <1>2, <1>6, FS_RemoveElement
    <3>2. Cardinality(S \ {w}) # 0 /\ Cardinality(S \ {w}) \in Nat
      BY <1>11, <3>1, FS_EmptySet, FS_CardinalityType
    <3> QED BY <1>3, <3>1, <3>2
  <2>2. PICK x \in S : Cardinality(Below(x, S, R)) = 1
    BY <1>2, <2>1, RanksAreOnto
  <2>3. x \in T /\ x # w
    <3>1. Position(x, S, scored) = 2 BY <1>4, <2>2
    <3> QED BY <1>6, <2>2, <3>1 DEF T, TopOf
  <2>4. 2 <= Cardinality(T)
    <3>1. /\ IsFiniteSet(T \ {w}) /\ Cardinality(T \ {w}) = Cardinality(T) - 1
      BY <1>2, <1>5, FS_RemoveElement
    <3>2. Cardinality(T \ {w}) # 0 /\ Cardinality(T \ {w}) \in Nat
      BY <2>3, <3>1, FS_EmptySet, FS_CardinalityType
    <3> QED BY <1>3, <3>1, <3>2
  <2>5. b \in T /\ Position(b, T, scored) = 2
    <3>1. 2 \in Nat \ {0} OBVIOUS
    <3> QED BY <1>1, <2>4, <3>1, NthIsThere DEF T
  <2>6. b \in S /\ Cardinality(Below(b, S, R)) = 1
    <3>1. b \in S /\ Position(b, S, scored) = 2
      BY <1>1, <2>5, TopKeepsPositions DEF T
    <3> QED BY <1>4, <3>1
  <2>7. Below(b, S, R) = {w}
    <3>1. b # w BY <1>6, <2>6
    <3>2. w \in Below(b, S, R) BY <1>6, <1>8, <2>6, <3>1 DEF Below
    <3>3. IsFiniteSet(Below(b, S, R)) BY <1>2, FS_Subset DEF Below
    <3>4. PICK y : Below(b, S, R) = {y} BY <2>6, <3>3, FS_Singleton
    <3> QED BY <3>2, <3>4
  <2>8. p = b \/ <<b, p>> \in R
    BY <1>2, <1>11, <2>6, <2>7 DEF StrictOrder, Below
  <2>9. b # None BY <2>6, CatalogAssumption
  <2>10. Total(b, scored) >= Total(p, scored)
    <3>1. CASE p = b BY <1>4, <2>6, <3>1
    <3>2. CASE p # b
      <4>1. Before(b, p, scored) BY <1>9, <2>6, <2>8, <3>2
      <4> QED BY <1>4, <2>6, <4>1 DEF Before
    <3> QED BY <3>1, <3>2
  <2> QED BY <2>9, <2>10
<1> QED BY <1>6, <1>10, <1>11

----------------------------------------------------------------------------
(* The invariant. *)

Numbers(v) == \A k \in NumberKeys : v[k] \in Int \cup {None}
Vetoes == {"cuisines_dislike", "dietary_restrictions"}

\* What is read in a comment, and what the members' views can be.
Parses == Replies \cup {NoView} \cup {Spotted(Rendered(t.comment)) : t \in Tastes}
Views == {MemberView(t.stated, parsed) : t \in Tastes, parsed \in Parses}

\* A view of a member keeps what the member stated.
Heeds(view, stated) ==
    /\ \A k \in NumberKeys : stated[k] # None => view[k] = stated[k]
    /\ \A k \in Vetoes : stated[k] \subseteq view[k]

Early == {"parse_preferences", "search_places", "normalize_places"}
Late == {"score_candidates", "explain_candidates", "select_winner",
         "await_approval", "replan", "END"}

\* The fields of the control that the data follows.
Control(h) ==
    /\ {"next", "loops", "ask"} \subseteq DOMAIN h
    /\ h.loops \in Nat /\ h.ask \in Asks

ControlInv ==
    /\ Control(g)
    /\ run \in {"off", "busy", "done", "failed"}
    /\ run = "off" => g.next = "parse_preferences"
    /\ g.next \in Early => g.loops = 0
    /\ g.next = "replan" => g.loops > 0

\* The members parsed so far; all of them once the profile is merged.
ViewsInv ==
    /\ run # "off" => prefs \in [Members -> Tastes]
    /\ views \in Seq(Views) /\ Len(views) <= N
    /\ run # "off" => \A m \in 1..Len(views) : Heeds(views[m], prefs[m].stated)
    /\ g.next # "parse_preferences" => Len(views) = N

\* Until the first replan the profile is what the members' views merge to.
ProfileInv ==
    g.next # "parse_preferences" =>
        /\ Numbers(profile)
        /\ g.loops = 0 => profile = Merge(views)

\* The filter ran on the members' own profile, and nothing is added later.
CandsInv ==
    /\ cands \subseteq Catalog
    /\ g.next \in Late => \A p \in cands : Kept(p, Merge(views))

ListInv ==
    /\ shortlist \subseteq cands
    /\ shortlist # {} => g.next \in Late
    /\ g.next \in {"select_winner", "await_approval"} =>
          shortlist = TopOf(TopN, cands, scored)
    /\ g.next = "await_approval" => winner = Nth(1, shortlist) /\ backup = Nth(2, shortlist)

ScoredInv ==
    /\ scored # None => Numbers(scored)
    /\ g.next \in {"explain_candidates", "select_winner", "await_approval"} /\ cands # {}
          => scored = profile

\* Once a search has lost the race every place has a row, and every later
\* search sees them.
RaceInv ==
    /\ rows \in {{}, Catalog} /\ clashes \in {0, 1}
    /\ clashes = 1 => rows = Catalog
    /\ clashes = 1 /\ run = "busy" /\ seen # {} => Catalog \subseteq seen

RecInv ==
    /\ ControlInv /\ ViewsInv /\ ProfileInv /\ CandsInv /\ ListInv
    /\ ScoredInv /\ RaceInv

----------------------------------------------------------------------------
(* Merging the members' views. *)

LEMMA TightestIsLeast ==
    ASSUME NEW S \in SUBSET (Int \cup {None}), IsFiniteSet(S)
    PROVE  /\ MinNonNull(S) \in Int \cup {None}
           /\ \A n \in S : n # None => MinNonNull(S) <= n
<1>1. CASE S \ {None} = {} BY <1>1 DEF MinNonNull
<1>2. CASE S \ {None} # {}
  <2>1. S \ {None} \in SUBSET Int OBVIOUS
  <2>2. IsFiniteSet(S \ {None}) BY FS_Difference
  <2>3. \E n \in S \ {None} : \A k \in S \ {None} : n <= k
    BY <1>2, <2>1, <2>2, MinimumExists
  <2>4. /\ MinNonNull(S) \in S \ {None}
        /\ \A k \in S \ {None} : MinNonNull(S) <= k
    BY <1>2, <2>3 DEF MinNonNull
  <2> QED BY <2>1, <2>4
<1> QED BY <1>1, <1>2

\* What the members gave for one key is a finite set.
LEMMA GivenIsFinite ==
    ASSUME NEW v, NEW n \in Nat, DOMAIN v = 1..n, NEW k
    PROVE  IsFiniteSet({v[m][k] : m \in DOMAIN v})
<1> DEFINE T == {v[m][k] : m \in DOMAIN v}
           f == [m \in 1..n |-> v[m][k]]
<1>1. f \in Surjection(1..n, T) BY DEF Surjection
<1>2. IsFiniteSet(1..n) BY FS_Interval
<1> QED BY <1>1, <1>2, FS_Surjection

LEMMA MergeIsTightest ==
    ASSUME NEW v, NEW n \in Nat, DOMAIN v = 1..n,
           \A m \in 1..n : Numbers(v[m])
    PROVE  /\ Numbers(Merge(v))
           /\ \A m \in 1..n, k \in NumberKeys :
                 v[m][k] # None => Merge(v)[k] <= v[m][k]
           /\ \A m \in 1..n, k \in Vetoes : v[m][k] \subseteq Merge(v)[k]
<1> DEFINE Of(k) == {v[m][k] : m \in DOMAIN v}
<1>1. ASSUME NEW k \in NumberKeys PROVE Merge(v)[k] = MinNonNull(Of(k))
  <2>1. CASE k = "budget_max_cents" BY <2>1 DEF Merge
  <2>2. CASE k = "noise_tolerance" BY <2>2 DEF Merge
  <2> QED BY <2>1, <2>2 DEF NumberKeys
<1>2. \A k \in Vetoes : Merge(v)[k] = UNION Of(k) BY DEF Vetoes, Merge
<1>3. ASSUME NEW k \in NumberKeys
      PROVE  /\ MinNonNull(Of(k)) \in Int \cup {None}
             /\ \A x \in Of(k) : x # None => MinNonNull(Of(k)) <= x
  <2>1. Of(k) \in SUBSET (Int \cup {None}) BY DEF Numbers
  <2>2. IsFiniteSet(Of(k)) BY GivenIsFinite
  <2> QED BY <2>1, <2>2, TightestIsLeast
<1>4. ASSUME NEW m \in 1..n, NEW k \in NumberKeys \cup Vetoes
      PROVE  v[m][k] \in Of(k)
  <2>1. m \in DOMAIN v OBVIOUS
  <2>2. \E j \in DOMAIN v : v[m][k] = v[j][k] BY <2>1
  <2> QED BY <2>2
<1> HIDE DEF Of
<1>5. Numbers(Merge(v)) BY <1>1, <1>3 DEF Numbers
<1>6. \A m \in 1..n, k \in NumberKeys : v[m][k] # None => Merge(v)[k] <= v[m][k]
  BY <1>1, <1>3, <1>4
<1>7. \A m \in 1..n, k \in Vetoes : v[m][k] \subseteq Merge(v)[k]
  BY <1>2, <1>4
<1> QED BY <1>5, <1>6, <1>7

LEMMA ViewHeeds ==
    ASSUME NEW t \in Tastes, NEW parsed \in Parses
    PROVE  /\ Numbers(MemberView(t.stated, parsed))
           /\ Heeds(MemberView(t.stated, parsed), t.stated)
           /\ MemberView(t.stated, parsed) \in Views
<1>1. NumberKeys \subseteq Keys \ ListKeys /\ Vetoes \subseteq ListKeys /\ ListKeys \subseteq Keys
  BY DEF NumberKeys, Vetoes, Keys, ScalarKeys, ListKeys
<1>2. ASSUME NEW k \in NumberKeys PROVE parsed[k] \in Int \cup {None}
  <2>1. CASE parsed \in Replies BY <1>2, <2>1, NumbersAssumption
  <2>2. CASE parsed = NoView
    BY <1>2, <2>2 DEF NoView, NumberKeys, Keys, ScalarKeys, ListKeys
  <2>3. ASSUME NEW text, parsed = Spotted(text) PROVE parsed[k] \in Int \cup {None}
    BY <1>2, <2>3 DEF Spotted, NumberKeys
  <2> QED BY <2>1, <2>2, <2>3 DEF Parses
<1>3. \A k \in NumberKeys : MemberView(t.stated, parsed)[k] =
        IF t.stated[k] # None THEN t.stated[k] ELSE parsed[k]
  BY <1>1 DEF MemberView
<1>4. \A k \in Vetoes : MemberView(t.stated, parsed)[k] = t.stated[k] \cup parsed[k]
  BY <1>1 DEF MemberView
<1>5. Numbers(MemberView(t.stated, parsed))
  BY <1>2, <1>3, NumbersAssumption DEF Numbers
<1>6. Heeds(MemberView(t.stated, parsed), t.stated) BY <1>3, <1>4 DEF Heeds
<1> QED BY <1>5, <1>6 DEF Views

LEMMA ViewsAreNumbers == \A view \in Views : Numbers(view)
BY ViewHeeds DEF Views

LEMMA OverrideKeepsNumbers ==
    ASSUME NEW p, Numbers(p), NEW o \in Overrides
    PROVE  Numbers(Override(p, o))
<1>1. NumberKeys \subseteq Keys BY DEF NumberKeys, Keys, ScalarKeys
<1> QED BY <1>1, NumbersAssumption DEF Override, Numbers

----------------------------------------------------------------------------
(* What the nodes do to the control. *)

LEMMA NodeSteps ==
    ASSUME Control(g), NEW b \in BOOLEAN
    PROVE  /\ Control(ParsePreferences(g))
           /\ ParsePreferences(g).next = "search_places" /\ ParsePreferences(g).loops = g.loops
           /\ Control(SearchPlaces(g, b))
           /\ SearchPlaces(g, b).next = "normalize_places"
           /\ SearchPlaces(g, b).loops = g.loops
           /\ Control(NormalizePlaces(g, b))
           /\ NormalizePlaces(g, b).next = "score_candidates"
           /\ NormalizePlaces(g, b).loops = g.loops
           /\ Control(ScoreCandidates(g))
           /\ ScoreCandidates(g).next = "explain_candidates"
           /\ ScoreCandidates(g).loops = g.loops
           /\ Control(ExplainCandidates(g))
           /\ ExplainCandidates(g).next = "select_winner"
           /\ ExplainCandidates(g).loops = g.loops
           /\ Control(SelectWinner(g))
           /\ SelectWinner(g).next = "await_approval"
           /\ SelectWinner(g).loops = g.loops
           /\ Control(Replan(g))
           /\ Replan(g).next = "score_candidates" /\ Replan(g).loops = g.loops
<1> USE DEF Control
<1>1. NoOverride \in Asks BY DEF Asks
<1>2. /\ Control(ParsePreferences(g))
      /\ ParsePreferences(g).next = "search_places" /\ ParsePreferences(g).loops = g.loops
  BY <1>1 DEF ParsePreferences
<1>3. /\ Control(SearchPlaces(g, b))
      /\ SearchPlaces(g, b).next = "normalize_places"
      /\ SearchPlaces(g, b).loops = g.loops
  BY DEF SearchPlaces
<1>4. /\ Control(NormalizePlaces(g, b))
      /\ NormalizePlaces(g, b).next = "score_candidates"
      /\ NormalizePlaces(g, b).loops = g.loops
  BY DEF NormalizePlaces
<1>5. /\ Control(ScoreCandidates(g))
      /\ ScoreCandidates(g).next = "explain_candidates"
      /\ ScoreCandidates(g).loops = g.loops
  BY DEF ScoreCandidates
<1>6. /\ Control(ExplainCandidates(g))
      /\ ExplainCandidates(g).next = "select_winner"
      /\ ExplainCandidates(g).loops = g.loops
  BY DEF ExplainCandidates
<1>7. /\ Control(SelectWinner(g))
      /\ SelectWinner(g).next = "await_approval"
      /\ SelectWinner(g).loops = g.loops
  BY DEF SelectWinner
<1>8. /\ Control(Replan(g))
      /\ Replan(g).next = "score_candidates" /\ Replan(g).loops = g.loops
  BY <1>1 DEF Replan
<1> HIDE DEF Control
<1> QED BY <1>2, <1>3, <1>4, <1>5, <1>6, <1>7, <1>8

LEMMA GateSteps ==
    ASSUME Control(g),
           NEW h \in {ForceApprove(g), GateApprove(g)} \cup {GateReject(g, o) : o \in Asks}
    PROVE  /\ Control(h)
           /\ h.next \in {"replan", "END"}
           /\ h.next = "END" => h.loops = g.loops
           /\ h.next = "replan" => h.loops > 0
<1> USE DEF Control
<1>1. CASE h = ForceApprove(g) BY <1>1 DEF ForceApprove, RouteAfterApproval
<1>2. CASE h = GateApprove(g) BY <1>2 DEF GateApprove, RouteAfterApproval, Asks
<1>3. ASSUME NEW o \in Asks, h = GateReject(g, o)
      PROVE  Control(h) /\ h.next = "replan" /\ h.loops > 0
  <2>1. DOMAIN h = DOMAIN g /\ h.next = "replan" /\ h.ask = o
    BY <1>3 DEF GateReject, RouteAfterApproval
  <2>2. h.loops = g.loops + 1 BY <1>3 DEF GateReject
  <2> QED BY <2>1, <2>2
<1> QED BY <1>1, <1>2, <1>3

LEMMA FreshControl ==
    /\ Control(InitialGraph(NoOverride))
    /\ InitialGraph(NoOverride).next = "parse_preferences"
    /\ InitialGraph(NoOverride).loops = 0
BY DEF Control, InitialGraph, Asks

----------------------------------------------------------------------------
(* One lemma per action: it keeps the invariant. *)

LEMMA RecInit == Init => RecInv
<1> SUFFICES ASSUME Init PROVE RecInv OBVIOUS
<1> USE DEF Init
<1>1. ControlInv BY FreshControl DEF ControlInv, Early
<1>2. ViewsInv BY SizesAssumption, FreshControl DEF ViewsInv
<1>3. ProfileInv BY FreshControl DEF ProfileInv
<1>4. CandsInv BY DEF CandsInv
<1>5. ListInv BY FreshControl DEF ListInv
<1>6. ScoredInv BY FreshControl DEF ScoredInv
<1>7. RaceInv BY DEF RaceInv
<1> QED BY <1>1, <1>2, <1>3, <1>4, <1>5, <1>6, <1>7 DEF RecInv

LEMMA KickKeeps == RecInv /\ Kick => RecInv'
<1> SUFFICES ASSUME RecInv, Kick PROVE RecInv' OBVIOUS
<1> USE DEF Kick
<1>1. ControlInv' BY FreshControl DEF ControlInv, Early
<1>2. ViewsInv' BY SizesAssumption, FreshControl DEF ViewsInv, Members
<1>3. ProfileInv' BY FreshControl DEF ProfileInv
<1>4. CandsInv' BY DEF CandsInv
<1>5. ListInv' BY FreshControl DEF ListInv
<1>6. ScoredInv' BY FreshControl DEF ScoredInv
<1>7. RaceInv' BY DEF RecInv, RaceInv
<1> QED BY <1>1, <1>2, <1>3, <1>4, <1>5, <1>6, <1>7 DEF RecInv

LEMMA ParseMemberKeeps == RecInv /\ ParseMember => RecInv'
<1> SUFFICES ASSUME RecInv, ParseMember PROVE RecInv' OBVIOUS
<1> USE DEF RecInv
<1>1. /\ g.next = "parse_preferences" /\ g' = g /\ run = "busy" /\ run' \in {"busy", "failed"}
      /\ profile' = profile /\ prefs' = prefs /\ rows' = rows /\ seen' = seen
      /\ cands' = cands /\ scored' = scored /\ shortlist' = shortlist
      /\ winner' = winner /\ backup' = backup /\ clashes' = clashes
  BY DEF ParseMember, At, ParsedAs, Fail
<1>2. ControlInv' BY <1>1 DEF ControlInv
<1>3. ViewsInv'
  <2>1. CASE views' = views BY <1>1, <2>1 DEF ViewsInv
  <2>2. ASSUME NEW parsed \in Parses, ParsedAs(parsed) PROVE ViewsInv'
    <3> DEFINE t == prefs[Unparsed]
               view == MemberView(t.stated, parsed)
    <3>1. /\ views \in Seq(Views) /\ Len(views) \in Nat
          /\ Len(views) + 1 <= N /\ t \in Tastes
      BY <1>1, SizesAssumption DEF ParseMember, Unparsed, Members, ViewsInv
    <3>2. view \in Views /\ Heeds(view, t.stated) BY <3>1, ViewHeeds
    <3>3. views' = Append(views, view) BY <2>2 DEF ParsedAs
    <3> HIDE DEF view
    <3>4. /\ views' \in Seq(Views) /\ Len(views') = Len(views) + 1
          /\ views'[Len(views) + 1] = view
          /\ \A m \in 1..Len(views) : views'[m] = views[m]
      BY <3>1, <3>2, <3>3
    <3>5. ASSUME NEW m \in 1..Len(views') PROVE Heeds(views'[m], prefs[m].stated)
      <4>1. CASE m = Len(views) + 1 BY <3>2, <3>4, <4>1 DEF Unparsed
      <4>2. CASE m \in 1..Len(views) BY <1>1, <3>4, <4>2 DEF ViewsInv
      <4> QED BY <3>1, <3>4, <4>1, <4>2
    <3> QED BY <1>1, <3>1, <3>4, <3>5 DEF ViewsInv
  <2>3. ASSUME NEW parsed, ParsedAs(parsed), parsed = NoView
        PROVE  ViewsInv'
    BY <2>2, <2>3 DEF Parses
  <2>4. ASSUME ParsedAs(Spotted(Rendered(prefs[Unparsed].comment)))
        PROVE  ViewsInv'
    <3>1. prefs[Unparsed] \in Tastes BY <1>1 DEF ParseMember, ViewsInv
    <3> QED BY <2>2, <2>4, <3>1 DEF Parses
  <2>5. ASSUME NEW reply \in Replies, ParsedAs(reply) PROVE ViewsInv'
    BY <2>2, <2>5 DEF Parses
  <2> QED BY <2>1, <2>3, <2>4, <2>5 DEF ParseMember
<1>4. ProfileInv' BY <1>1 DEF ProfileInv
<1>5. CandsInv' BY <1>1 DEF CandsInv, Late
<1>6. ListInv' BY <1>1 DEF ListInv
<1>7. ScoredInv' BY <1>1 DEF ScoredInv
<1>8. RaceInv' BY <1>1 DEF RaceInv
<1> QED BY <1>2, <1>3, <1>4, <1>5, <1>6, <1>7, <1>8

LEMMA ParsedKeeps == RecInv /\ Parsed => RecInv'
<1> SUFFICES ASSUME RecInv, Parsed PROVE RecInv' OBVIOUS
<1> USE DEF RecInv
<1>1. g.next = "parse_preferences" /\ run = "busy" BY DEF Parsed, At
<1>2. Control(g') /\ g'.next = "search_places" /\ g'.loops = 0
  BY <1>1, NodeSteps DEF ControlInv, Parsed, Early
<1>3. /\ run' = run /\ profile' = Merge(views) /\ prefs' = prefs /\ views' = views
      /\ rows' = rows /\ seen' = seen /\ cands' = cands /\ scored' = scored
      /\ shortlist' = shortlist /\ winner' = winner /\ backup' = backup
      /\ clashes' = clashes
  BY DEF Parsed
<1>4. views \in Seq(Views) /\ Len(views) = N /\ Len(views) \in Nat
  BY SizesAssumption DEF Parsed, Unparsed, Members, ViewsInv
<1>5. Numbers(Merge(views))
  <2>1. DOMAIN views = 1..N /\ \A m \in 1..N : views[m] \in Views BY <1>4
  <2> QED BY <2>1, SizesAssumption, ViewsAreNumbers, MergeIsTightest
<1>6. ControlInv' BY <1>1, <1>2, <1>3 DEF ControlInv, Control
<1>7. ViewsInv' BY <1>2, <1>3, <1>4 DEF ViewsInv
<1>8. ProfileInv' BY <1>3, <1>5 DEF ProfileInv
<1>9. CandsInv' BY <1>2, <1>3 DEF CandsInv, Late
<1>10. ListInv' BY <1>1, <1>2, <1>3 DEF ListInv, Late
<1>11. ScoredInv' BY <1>2, <1>3 DEF ScoredInv
<1>12. RaceInv' BY <1>3 DEF RaceInv
<1> QED BY <1>6, <1>7, <1>8, <1>9, <1>10, <1>11, <1>12

LEMMA SearchLookKeeps == RecInv /\ SearchLook => RecInv'
<1> SUFFICES ASSUME RecInv, SearchLook PROVE RecInv' OBVIOUS
<1> USE DEF RecInv
<1>1. /\ g' = g /\ run = "busy" /\ run' \in {"busy", "failed"}
      /\ profile' = profile /\ prefs' = prefs /\ views' = views /\ rows' = rows
      /\ cands' = cands /\ scored' = scored /\ shortlist' = shortlist
      /\ winner' = winner /\ backup' = backup /\ clashes' = clashes
      /\ seen' = seen \/ seen' = rows \cup {None}
  BY DEF SearchLook, At, Fail
<1>2. ControlInv' BY <1>1 DEF ControlInv
<1>3. ViewsInv' BY <1>1 DEF ViewsInv
<1>4. ProfileInv' BY <1>1 DEF ProfileInv
<1>5. CandsInv' BY <1>1 DEF CandsInv
<1>6. ListInv' BY <1>1 DEF ListInv, Nth
<1>7. ScoredInv' BY <1>1 DEF ScoredInv
<1>8. RaceInv' BY <1>1 DEF RaceInv
<1> QED BY <1>2, <1>3, <1>4, <1>5, <1>6, <1>7, <1>8

LEMMA SearchWriteKeeps == RecInv /\ SearchWrite => RecInv'
<1> SUFFICES ASSUME RecInv, SearchWrite PROVE RecInv' OBVIOUS
<1> USE DEF RecInv
<1>1. /\ g.next = "search_places" /\ run = "busy" /\ seen # {}
      /\ profile' = profile /\ prefs' = prefs /\ views' = views /\ seen' = seen
      /\ scored' = scored /\ shortlist' = shortlist
      /\ winner' = winner /\ backup' = backup
  BY DEF SearchWrite, At
<1>2. /\ g.loops = 0 /\ shortlist = {}
  BY <1>1 DEF ControlInv, ListInv, Early, Late
<1>3. CASE \E p \in Catalog : Clashes(p)
  <2>1. g' = g /\ run' = "failed" /\ rows' = rows /\ cands' = cands /\ clashes' = clashes + 1
    BY <1>3 DEF SearchWrite, Fail
  <2>2. PICK p \in Catalog : p \notin seen /\ p \in rows BY <1>3 DEF Clashes
  <2>3. rows = Catalog BY <2>2 DEF RaceInv
  <2>4. clashes = 0 BY <1>1, <2>2 DEF RaceInv
  <2>5. ControlInv' BY <1>1, <2>1 DEF ControlInv
  <2>6. ViewsInv' BY <1>1, <2>1 DEF ViewsInv
  <2>7. ProfileInv' BY <1>1, <2>1 DEF ProfileInv
  <2>8. CandsInv' BY <1>1, <2>1 DEF CandsInv
  <2>9. ListInv' BY <1>1, <2>1 DEF ListInv
  <2>10. ScoredInv' BY <1>1, <2>1 DEF ScoredInv
  <2>11. RaceInv' BY <2>1, <2>3, <2>4 DEF RaceInv
  <2> QED BY <2>5, <2>6, <2>7, <2>8, <2>9, <2>10, <2>11
<1>4. CASE ~\E p \in Catalog : Clashes(p)
  <2>1. /\ rows' = rows \cup Catalog /\ cands' = Catalog /\ run' = run
        /\ clashes' = clashes /\ g' = SearchPlaces(g, Catalog # {})
    BY <1>4 DEF SearchWrite
  <2>2. /\ Control(g') /\ g'.next = "normalize_places" /\ g'.loops = 0
    BY <1>2, <2>1, NodeSteps DEF ControlInv
  <2>3. rows' = Catalog BY <2>1 DEF RaceInv
  <2>4. ControlInv' BY <1>1, <2>1, <2>2 DEF ControlInv, Control
  <2>5. ViewsInv' BY <1>1, <2>1, <2>2 DEF ViewsInv
  <2>6. ProfileInv' BY <1>1, <1>2, <2>1, <2>2 DEF ProfileInv
  <2>7. CandsInv' BY <2>1, <2>2 DEF CandsInv, Late
  <2>8. ListInv' BY <1>1, <1>2, <2>2 DEF ListInv
  <2>9. ScoredInv' BY <1>1, <2>2 DEF ScoredInv
  <2>10. RaceInv' BY <1>1, <2>1, <2>3 DEF RaceInv
  <2> QED BY <2>4, <2>5, <2>6, <2>7, <2>8, <2>9, <2>10
<1> QED BY <1>3, <1>4

LEMMA OtherSearchKeeps == RecInv /\ OtherSearch => RecInv'
<1> SUFFICES ASSUME RecInv, OtherSearch PROVE RecInv' OBVIOUS
<1> USE DEF RecInv, OtherSearch
<1>1. ControlInv' BY DEF ControlInv
<1>2. ViewsInv' BY DEF ViewsInv
<1>3. ProfileInv' BY DEF ProfileInv
<1>4. CandsInv' BY DEF CandsInv
<1>5. ListInv' BY DEF ListInv, Nth
<1>6. ScoredInv' BY DEF ScoredInv
<1>7. RaceInv' BY DEF RaceInv
<1> QED BY <1>1, <1>2, <1>3, <1>4, <1>5, <1>6, <1>7

LEMMA NormalizeKeeps == RecInv /\ Normalize => RecInv'
<1> SUFFICES ASSUME RecInv, Normalize PROVE RecInv' OBVIOUS
<1> USE DEF RecInv
<1>1. /\ g.next = "normalize_places" /\ run = "busy"
      /\ run' = run /\ profile' = profile /\ prefs' = prefs /\ views' = views
      /\ rows' = rows /\ seen' = seen /\ scored' = scored /\ clashes' = clashes
      /\ shortlist' = shortlist /\ winner' = winner /\ backup' = backup
      /\ cands' = {p \in cands : Kept(p, profile)}
  BY DEF Normalize, At
<1>2. /\ g.loops = 0 /\ shortlist = {} /\ profile = Merge(views)
  BY <1>1 DEF ControlInv, ListInv, ProfileInv, Early, Late
<1>3. /\ Control(g') /\ g'.next = "score_candidates" /\ g'.loops = 0
  BY <1>2, NodeSteps DEF ControlInv, Normalize
<1>4. ControlInv' BY <1>1, <1>3 DEF ControlInv, Control
<1>5. ViewsInv' BY <1>1, <1>3 DEF ViewsInv
<1>6. ProfileInv' BY <1>1, <1>2, <1>3 DEF ProfileInv
<1>7. CandsInv' BY <1>1, <1>2 DEF CandsInv
<1>8. ListInv' BY <1>1, <1>2, <1>3 DEF ListInv
<1>9. ScoredInv' BY <1>1, <1>3 DEF ScoredInv
<1>10. RaceInv' BY <1>1 DEF RaceInv
<1> QED BY <1>4, <1>5, <1>6, <1>7, <1>8, <1>9, <1>10

LEMMA ScoreKeeps == RecInv /\ Score => RecInv'
<1> SUFFICES ASSUME RecInv, Score PROVE RecInv' OBVIOUS
<1> USE DEF RecInv
<1>1. /\ g.next = "score_candidates" /\ run = "busy"
      /\ run' = run /\ profile' = profile /\ prefs' = prefs /\ views' = views
      /\ rows' = rows /\ seen' = seen /\ cands' = cands /\ clashes' = clashes
      /\ shortlist' = shortlist /\ winner' = winner /\ backup' = backup
      /\ scored' = IF cands = {} THEN scored ELSE profile
  BY DEF Score, At
<1>2. /\ Control(g') /\ g'.next = "explain_candidates" /\ g'.loops = g.loops
  BY NodeSteps DEF ControlInv, Score
<1>3. ControlInv' BY <1>1, <1>2 DEF ControlInv, Control, Early
<1>4. ViewsInv' BY <1>1, <1>2 DEF ViewsInv
<1>5. ProfileInv' BY <1>1, <1>2 DEF ProfileInv
<1>6. CandsInv' BY <1>1 DEF CandsInv, Late
<1>7. ListInv' BY <1>1, <1>2 DEF ListInv, Late
<1>8. ScoredInv' BY <1>1 DEF ScoredInv, ProfileInv
<1>9. RaceInv' BY <1>1 DEF RaceInv
<1> QED BY <1>3, <1>4, <1>5, <1>6, <1>7, <1>8, <1>9

LEMMA ExplainKeeps == RecInv /\ Explain => RecInv'
<1> SUFFICES ASSUME RecInv, Explain PROVE RecInv' OBVIOUS
<1> USE DEF RecInv
<1>1. /\ g.next = "explain_candidates" /\ run = "busy"
      /\ run' = run /\ profile' = profile /\ prefs' = prefs /\ views' = views
      /\ rows' = rows /\ seen' = seen /\ cands' = cands /\ scored' = scored
      /\ winner' = winner /\ backup' = backup /\ clashes' = clashes
      /\ shortlist' = IF cands = {} THEN {} ELSE TopOf(TopN, cands, scored)
  BY DEF Explain, At
<1>2. /\ Control(g') /\ g'.next = "select_winner" /\ g'.loops = g.loops
  BY NodeSteps DEF ControlInv, Explain
<1>3. shortlist' = TopOf(TopN, cands, scored) BY <1>1 DEF TopOf
<1>4. ControlInv' BY <1>1, <1>2 DEF ControlInv, Control, Early
<1>5. ViewsInv' BY <1>1, <1>2 DEF ViewsInv
<1>6. ProfileInv' BY <1>1, <1>2 DEF ProfileInv
<1>7. CandsInv' BY <1>1 DEF CandsInv, Late
<1>8. ListInv' BY <1>1, <1>2, <1>3 DEF ListInv, Late, TopOf
<1>9. ScoredInv' BY <1>1 DEF ScoredInv
<1>10. RaceInv' BY <1>1 DEF RaceInv
<1> QED BY <1>4, <1>5, <1>6, <1>7, <1>8, <1>9, <1>10

LEMMA SelectKeeps == RecInv /\ Select => RecInv'
<1> SUFFICES ASSUME RecInv, Select PROVE RecInv' OBVIOUS
<1> USE DEF RecInv
<1>1. /\ g.next = "select_winner" /\ run = "busy"
      /\ run' = run /\ profile' = profile /\ prefs' = prefs /\ views' = views
      /\ rows' = rows /\ seen' = seen /\ cands' = cands /\ scored' = scored
      /\ shortlist' = shortlist /\ clashes' = clashes
  BY DEF Select, At
<1>2. /\ Control(g') /\ g'.next = "await_approval" /\ g'.loops = g.loops
  BY NodeSteps DEF ControlInv, Select
<1>3. winner' = Nth(1, shortlist)' /\ backup' = Nth(2, shortlist)'
  BY <1>1 DEF Select, Nth
<1>4. ControlInv' BY <1>1, <1>2 DEF ControlInv, Control, Early
<1>5. ViewsInv' BY <1>1, <1>2 DEF ViewsInv
<1>6. ProfileInv' BY <1>1, <1>2 DEF ProfileInv
<1>7. CandsInv' BY <1>1 DEF CandsInv, Late
<1>8. ListInv' BY <1>1, <1>2, <1>3 DEF ListInv, Late
<1>9. ScoredInv' BY <1>1 DEF ScoredInv
<1>10. RaceInv' BY <1>1 DEF RaceInv
<1> QED BY <1>4, <1>5, <1>6, <1>7, <1>8, <1>9, <1>10

LEMMA DecideKeeps == RecInv /\ Decide => RecInv'
<1> SUFFICES ASSUME RecInv, Decide PROVE RecInv' OBVIOUS
<1> USE DEF RecInv
<1>1. /\ g.next = "await_approval" /\ run = "busy" /\ run' \in {"busy", "done"}
      /\ profile' = profile /\ prefs' = prefs /\ views' = views
      /\ rows' = rows /\ seen' = seen /\ cands' = cands /\ scored' = scored
      /\ shortlist' = shortlist /\ clashes' = clashes
  BY DEF Decide, At, Ended
<1>2. g' \in {ForceApprove(g), GateApprove(g)} \cup {GateReject(g, o) : o \in Asks}
  BY DEF Decide
<1>3. /\ Control(g') /\ g'.next \in {"replan", "END"}
      /\ g'.next = "END" => g'.loops = g.loops
      /\ g'.next = "replan" => g'.loops > 0
  BY <1>2, GateSteps DEF ControlInv
<1>4. ControlInv' BY <1>1, <1>3 DEF ControlInv, Control, Early
<1>5. ViewsInv' BY <1>1, <1>3 DEF ViewsInv
<1>6. ProfileInv'
  <2>1. g'.loops = 0 => g.loops = 0 BY <1>3
  <2> QED BY <1>1, <2>1 DEF ProfileInv
<1>7. CandsInv' BY <1>1 DEF CandsInv, Late
<1>8. ListInv' BY <1>1, <1>3 DEF ListInv, Late
<1>9. ScoredInv' BY <1>1, <1>3 DEF ScoredInv
<1>10. RaceInv' BY <1>1 DEF RaceInv
<1> QED BY <1>4, <1>5, <1>6, <1>7, <1>8, <1>9, <1>10

LEMMA ReplanKeeps == RecInv /\ ReplanRun => RecInv'
<1> SUFFICES ASSUME RecInv, ReplanRun PROVE RecInv' OBVIOUS
<1> USE DEF RecInv
<1>1. /\ g.next = "replan" /\ run = "busy"
      /\ run' = run /\ profile' = Rebar(profile, g.ask) /\ prefs' = prefs
      /\ views' = views /\ rows' = rows /\ seen' = seen /\ cands' = cands
      /\ scored' = scored /\ shortlist' = shortlist /\ clashes' = clashes
  BY DEF ReplanRun, At
<1>2. /\ Control(g') /\ g'.next = "score_candidates" /\ g'.loops = g.loops
  BY NodeSteps DEF ControlInv, ReplanRun
<1>3. Numbers(profile')
  <2>1. Numbers(profile) BY <1>1 DEF ProfileInv
  <2>2. g.ask = NoOverride \/ g.ask \in Overrides BY DEF ControlInv, Control, Asks
  <2> QED BY <1>1, <2>1, <2>2, OverrideKeepsNumbers DEF Rebar
<1>4. ControlInv' BY <1>1, <1>2 DEF ControlInv, Control, Early
<1>5. ViewsInv' BY <1>1, <1>2 DEF ViewsInv
<1>6. ProfileInv'
  <2>1. g'.loops # 0 BY <1>1, <1>2 DEF ControlInv
  <2> QED BY <1>3, <2>1 DEF ProfileInv, Numbers
<1>7. CandsInv' BY <1>1 DEF CandsInv, Late
<1>8. ListInv' BY <1>1, <1>2 DEF ListInv, Late
<1>9. ScoredInv' BY <1>1, <1>2 DEF ScoredInv
<1>10. RaceInv' BY <1>1 DEF RaceInv
<1> QED BY <1>4, <1>5, <1>6, <1>7, <1>8, <1>9, <1>10

LEMMA RecStep == RecInv /\ [Next]_vars => RecInv'
<1> SUFFICES ASSUME RecInv, [Next]_vars PROVE RecInv' OBVIOUS
<1>1. CASE UNCHANGED vars
  BY <1>1 DEF vars, RecInv, ControlInv, ViewsInv, ProfileInv, CandsInv, ListInv,
              ScoredInv, RaceInv, Nth
<1>2. CASE Next
  BY <1>2, KickKeeps, ParseMemberKeeps, ParsedKeeps, SearchLookKeeps,
     SearchWriteKeeps, OtherSearchKeeps, NormalizeKeeps, ScoreKeeps,
     ExplainKeeps, SelectKeeps, DecideKeeps, ReplanKeeps DEF Next
<1> QED BY <1>1, <1>2

\* What holds of every recommendation run between two steps.
THEOREM RunInvariant == Spec => []RecInv
BY RecInit, RecStep, PTL DEF Spec

----------------------------------------------------------------------------
(* The properties. *)

\* The place is acceptable to a group that has at least what the member stated.
LEMMA KeptForAll ==
    ASSUME NEW p, NEW c, Kept(p, c), NEW stated,
           \A k \in Vetoes : stated[k] \subseteq c[k]
    PROVE  /\ p.cuisines \cap stated.cuisines_dislike = {}
           /\ "vegetarian" \in stated.dietary_restrictions => p.veg # FALSE
           /\ "vegan" \in stated.dietary_restrictions =>
                 p.vegan \/ p.veg = TRUE \/ p.cuisines \cap VeganFriendly # {}
<1>1. /\ stated.cuisines_dislike \subseteq c.cuisines_dislike
      /\ stated.dietary_restrictions \subseteq c.dietary_restrictions
  BY DEF Vetoes
<1>2. p.cuisines \cap c.cuisines_dislike = {} BY DEF Kept, HardRejected
<1>3. ~DietRejected(p, c) BY DEF Kept, HardRejected
<1> QED BY <1>1, <1>2, <1>3 DEF DietRejected, VegetarianRejected, VeganRejected

\* What the members' views merge to has everything every member stated.
LEMMA MergeHeedsAll ==
    ASSUME RecInv, run # "off", Len(views) = N, NEW m \in Members
    PROVE  /\ \A k \in NumberKeys : prefs[m].stated[k] # None =>
                  Merge(views)[k] <= prefs[m].stated[k]
           /\ \A k \in Vetoes : prefs[m].stated[k] \subseteq Merge(views)[k]
<1>1. DOMAIN views = 1..N /\ \A i \in 1..N : views[i] \in Views
  BY DEF RecInv, ViewsInv
<1>2. m \in 1..N /\ Heeds(views[m], prefs[m].stated)
  BY DEF RecInv, ViewsInv, Members
<1>3. /\ \A k \in NumberKeys : views[m][k] # None => Merge(views)[k] <= views[m][k]
      /\ \A k \in Vetoes : views[m][k] \subseteq Merge(views)[k]
  BY <1>1, <1>2, SizesAssumption, ViewsAreNumbers, MergeIsTightest
<1> QED BY <1>2, <1>3 DEF Heeds

\* Whatever an owner overrides and a model reads, nothing on the shortlist
\* breaks a dislike or a diet that a member stated.
THEOREM NoVeto == Spec => []NoMemberVetoProposed
<1>1. RecInv => NoMemberVetoProposed
  <2> SUFFICES ASSUME RecInv, NEW p \in shortlist, NEW m \in Members
               PROVE  /\ p.cuisines \cap prefs[m].stated.cuisines_dislike = {}
                      /\ "vegetarian" \in prefs[m].stated.dietary_restrictions =>
                            p.veg # FALSE
                      /\ "vegan" \in prefs[m].stated.dietary_restrictions =>
                            \/ p.vegan \/ p.veg = TRUE
                            \/ p.cuisines \cap VeganFriendly # {}
    BY DEF NoMemberVetoProposed
  <2>1. g.next \in Late /\ p \in cands BY DEF RecInv, ListInv
  <2>2. run # "off" /\ Len(views) = N
    BY <2>1 DEF RecInv, ControlInv, ViewsInv, Late
  <2>3. Kept(p, Merge(views)) BY <2>1 DEF RecInv, CandsInv
  <2> QED BY <2>2, <2>3, MergeHeedsAll, KeptForAll
<1> QED BY <1>1, RunInvariant, PTL

\* A place normalize_places would reject for a diet gets no dietary points.
THEOREM DietCopiesAgree == Spec => []DietaryRulesAgree
<1>1. RecInv => DietaryRulesAgree
  <2> SUFFICES ASSUME RecInv, NEW p \in cands, DietRejected(p, scored)
               PROVE  ScoreDietary(p, scored) = 0
    BY DEF DietaryRulesAgree
  <2>1. p.veg \in {TRUE, FALSE, None} /\ p.vegan \in BOOLEAN
    BY CatalogAssumption DEF RecInv, CandsInv
  <2>2. CASE "vegan" \in scored.dietary_restrictions /\ VeganRejected(p)
    BY <2>2 DEF VeganRejected, ScoreDietary
  <2>3. CASE "vegetarian" \in scored.dietary_restrictions /\ VegetarianRejected(p)
    BY <2>1, <2>3 DEF VegetarianRejected, ScoreDietary
  <2> QED BY <2>2, <2>3 DEF DietRejected
<1> QED BY <1>1, RunInvariant, PTL

\* The proposal has the highest score under the constraints in force, ties
\* going to the better rating, and the backup is the best of the rest.
THEOREM BestIsProposed == Spec => []ProposalIsBest
<1>1. RecInv => ProposalIsBest
  <2> SUFFICES ASSUME RecInv, g.next = "await_approval", winner # None
               PROVE  /\ scored = profile
                      /\ \A p \in cands :
                           /\ Total(winner, profile) >= Total(p, profile)
                           /\ Total(winner, profile) = Total(p, profile) =>
                                 winner.rating >= p.rating
                           /\ p # winner => /\ backup # None
                                            /\ Total(backup, profile) >= Total(p, profile)
    BY DEF ProposalIsBest, At
  <2>1. cands \in SUBSET Catalog /\ Rated(cands)
    <3>1. \A p \in cands : Scoreable(p)
      BY DEF RecInv, CandsInv, Late, Kept
    <3> QED BY <3>1, CatalogAssumption DEF RecInv, CandsInv, Scoreable, Rated
  <2>2. /\ winner = Nth(1, TopOf(TopN, cands, scored))
        /\ backup = Nth(2, TopOf(TopN, cands, scored))
    BY DEF RecInv, ListInv
  <2>3. ASSUME NEW p \in cands
        PROVE  /\ winner \in cands
               /\ Total(winner, scored) >= Total(p, scored)
               /\ Total(winner, scored) = Total(p, scored) => winner.rating >= p.rating
               /\ p # winner => backup # None /\ Total(backup, scored) >= Total(p, scored)
    BY <2>1, <2>2, SizesAssumption, FirstTwoAreBest
  <2>4. cands # {}
    <3>1. TopOf(TopN, {}, scored) = {} BY DEF TopOf
    <3>2. Nth(1, {}) = None BY FS_EmptySet DEF Nth
    <3> QED BY <2>2, <3>1, <3>2
  <2>5. scored = profile BY <2>4 DEF RecInv, ScoredInv
  <2> QED BY <2>3, <2>5
<1> QED BY <1>1, RunInvariant, PTL

\* A place that hits a disliked cuisine carries that among its cons.
THEOREM VetoIsWarnedOf == Spec => []WarnsOfVeto
<1>1. ASSUME NEW p, p.cuisines \cap scored.cuisines_dislike # {}
      PROVE  "cuisine" \in Cons(p, scored)
  <2>1. ~(ScoreCuisine(p, scored) >= 0) BY <1>1 DEF ScoreCuisine, Part
  <2> QED BY <2>1 DEF Cons
<1>2. WarnsOfVeto BY <1>1 DEF WarnsOfVeto
<1> QED BY <1>2, PTL

\* The profile the places are first scored with asks no less than any member.
THEOREM MembersPrevail == Spec => []StatedPrevails
<1>1. RecInv => StatedPrevails
  <2> SUFFICES ASSUME RecInv, At("score_candidates"), g.loops = 0, NEW m \in Members
               PROVE  /\ \A k \in NumberKeys :
                            prefs[m].stated[k] # None => profile[k] <= prefs[m].stated[k]
                      /\ \A k \in Vetoes : prefs[m].stated[k] \subseteq profile[k]
    BY DEF StatedPrevails, NumberKeys, Vetoes
  <2>1. run # "off" /\ Len(views) = N /\ profile = Merge(views)
    BY DEF At, RecInv, ControlInv, ViewsInv, ProfileInv
  <2> QED BY <2>1, MergeHeedsAll
<1> QED BY <1>1, RunInvariant, PTL

\* Two searches that find the same new places clash at most once.
THEOREM RaceIsLostOnce == Spec => []LosesRaceOnce
<1>1. RecInv => LosesRaceOnce BY DEF RecInv, RaceInv, LosesRaceOnce
<1> QED BY <1>1, RunInvariant, PTL

\* A smaller budget alone gives no place more points.
LEMMA BudgetIsMonotone ==
    ASSUME NEW p, p.rating \in Int \cup {None}, NEW c, NEW d,
           \A k \in Keys \ {"budget_max_cents"} : d[k] = c[k],
           d.budget_max_cents \in Int, c.budget_max_cents \in Int \cup {None},
           c.budget_max_cents # None => d.budget_max_cents <= c.budget_max_cents,
           d.budget_max_cents # None
    PROVE  Total(p, d) <= Total(p, c)
<1>1. /\ d.cuisines_like = c.cuisines_like /\ d.cuisines_dislike = c.cuisines_dislike
      /\ d.dietary_restrictions = c.dietary_restrictions
      /\ d.noise_tolerance = c.noise_tolerance /\ d.vibe = c.vibe
  BY DEF Keys, ScalarKeys, ListKeys
<1>2. /\ ScoreCuisine(p, d) = ScoreCuisine(p, c) /\ ScoreDietary(p, d) = ScoreDietary(p, c)
      /\ ScoreNoise(p, d) = ScoreNoise(p, c) /\ ScoreVibe(p, d) = ScoreVibe(p, c)
  BY <1>1 DEF ScoreCuisine, ScoreDietary, ScoreNoise, ScoreVibe
<1>3. ScoreBudget(p, d) <= ScoreBudget(p, c)
  <2>1. Cents(p) \in Int BY DEF Cents
  <2>2. Cents(p) <= d.budget_max_cents =>
           c.budget_max_cents = None \/ Cents(p) <= c.budget_max_cents
    BY <2>1
  <2> QED BY <2>2 DEF ScoreBudget, Weight, Part
<1>4. \A e \in {c, d} :
        /\ ScoreBudget(p, e) \in Int /\ ScoreCuisine(p, e) \in Int
        /\ ScoreDietary(p, e) \in Int /\ ScoreNoise(p, e) \in Int
        /\ ScoreVibe(p, e) \in Int /\ ScoreRating(p) \in Int
  BY PointsAreIntegers
<1> QED BY <1>2, <1>3, <1>4 DEF Total, Clamp, Part

\* Lowering only the budget raises no score.
THEOREM LowerBudget == Spec => TighterBudgetNeverHelps
<1> DEFINE A == At("score_candidates") /\ scored # None /\ scored' # scored
                /\ (\A k \in Keys \ {"budget_max_cents"} : scored'[k] = scored[k])
                /\ scored'.budget_max_cents # None
                /\ (scored.budget_max_cents # None =>
                        scored'.budget_max_cents <= scored.budget_max_cents)
              => \A p \in cands : Total(p, scored') <= Total(p, scored)
<1>1. RecInv /\ RecInv' /\ [Next]_vars => [A]_vars
  <2> SUFFICES ASSUME RecInv, RecInv', [Next]_vars, At("score_candidates"),
                      scored # None, scored' # scored,
                      \A k \in Keys \ {"budget_max_cents"} : scored'[k] = scored[k],
                      scored'.budget_max_cents # None,
                      scored.budget_max_cents # None =>
                        scored'.budget_max_cents <= scored.budget_max_cents,
                      NEW p \in cands
               PROVE  Total(p, scored') <= Total(p, scored)
    OBVIOUS
  <2>1. p.rating \in Int \cup {None}
    BY CatalogAssumption DEF RecInv, CandsInv
  <2>2. scored' = profile /\ Numbers(profile)
    <3>1. CASE UNCHANGED vars BY <3>1 DEF vars
    <3>2. CASE Score BY <3>2 DEF Score, At, RecInv, ProfileInv
    <3>3. CASE Kick BY <3>3 DEF Kick, At
    <3>4. CASE Next /\ ~Score /\ ~Kick
      BY <3>4 DEF Next, At, ParseMember, Parsed, SearchLook, SearchWrite, OtherSearch,
                  Normalize, Explain, Select, Decide, ReplanRun
    <3> QED BY <3>1, <3>2, <3>3, <3>4
  <2>3. Numbers(scored) BY DEF RecInv, ScoredInv
  <2>4. /\ scored.budget_max_cents \in Int \cup {None}
        /\ scored'.budget_max_cents \in Int
    BY <2>2, <2>3 DEF Numbers, NumberKeys
  <2>5. \A d : d = scored' => Total(p, d) <= Total(p, scored)
    BY <2>1, <2>4, BudgetIsMonotone
  <2> QED BY <2>5
<1>2. TighterBudgetNeverHelps <=> [][A]_vars BY DEF TighterBudgetNeverHelps
<1> QED BY <1>1, <1>2, RunInvariant, PTL DEF Spec
=============================================================================

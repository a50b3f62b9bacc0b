----------------------------- MODULE PlacesStub -----------------------------
(***************************************************************************)
(* The places clients/places_stub.py serves, in the form Scoring reads     *)
(* them: of the free-form vibe text, the words some group can ask for.     *)
(***************************************************************************)
EXTENDS Sequences, Integers

CONSTANT None

Place(name, price, rating, cuisines, veg, noise, vibe) ==
    [name |-> name, price |-> price, rating |-> rating, cuisines |-> cuisines,
     veg |-> veg, vegan |-> "vegan" \in cuisines, noise |-> noise, vibe |-> vibe]

\* `name` is the rank in alphabetical order; only Plant Haus is marked vegan.
_FIXTURES ==
    << Place(11, 3, 45, {"italian"}, TRUE, "quiet", {}),
       Place(3, 2, 42, {"mexican"}, TRUE, "loud", {"lively"}),
       Place(12, 4, 47, {"japanese", "sushi"}, TRUE, "quiet", {}),
       Place(2, 2, 43, {"thai"}, TRUE, "moderate", {"casual"}),
       Place(6, 2, 46, {"vegan", "american"}, TRUE, "moderate", {"casual"}),
       Place(10, 3, 44, {"american", "bbq"}, FALSE, "loud", {}),
       Place(8, 2, 44, {"indian"}, TRUE, "quiet", {}),
       Place(9, 3, 45, {"korean", "bbq"}, FALSE, "loud", {}),
       Place(7, 1, 46, {"ethiopian"}, TRUE, "quiet", {}),
       Place(1, 2, 45, {"pizza", "italian"}, TRUE, "loud", {"lively"}),
       Place(4, 1, 35, {"burgers", "american"}, TRUE, "moderate", {"casual"}),
       Place(5, 2, 43, {"ramen", "japanese"}, TRUE, "quiet", {"quiet"}) >>

\* The first of the fixtures, whatever the query and the location.
stub_text_search(max_results) ==
    {_FIXTURES[i] : i \in {k \in DOMAIN _FIXTURES : k <= max_results}}
=============================================================================

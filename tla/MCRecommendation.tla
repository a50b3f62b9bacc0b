-------------------------- MODULE MCRecommendation --------------------------
(* Two members and the first six places the stub client serves. *)
EXTENDS Recommendation

MCVibes == <<"casual", "lively", "quiet">>

Stub == INSTANCE PlacesStub

MCCatalog == Stub!stub_text_search(6)

MCTastes ==
    {[stated |-> [NoView EXCEPT !.budget_max_cents = 3000, !.cuisines_like = {"thai"}],
      comment |-> {"casual"}],
     [stated |-> [NoView EXCEPT !.cuisines_dislike = {"american"}, !.noise_tolerance = 3],
      comment |-> {"quiet", "sushi"}],
     [stated |-> [NoView EXCEPT !.dietary_restrictions = {"vegan"}], comment |-> {"fancy"}],
     [stated |-> [NoView EXCEPT !.dietary_restrictions = {"vegetarian"}, !.vibe = "lively"],
      comment |-> {}]}

MCReplies ==
    {[NoView EXCEPT !.budget_max_cents = 8000, !.noise_tolerance = 5],
     [NoView EXCEPT !.cuisines_like = {"sushi"}, !.dietary_restrictions = {"vegan"}]}

Only(k, v) == [x \in {k} |-> v]

MCOverrides ==
    {Only("budget_max_cents", 0), Only("budget_max_cents", 2000),
     Only("dietary_restrictions", {"vegan"}), Only("cuisines_dislike", {"thai"})}

\* One of them carries the cap: the next gate approves by itself.
MCCounters == Only(Only("budget_max_cents", 2000), MAX_REPLAN_ITERATIONS)
=============================================================================

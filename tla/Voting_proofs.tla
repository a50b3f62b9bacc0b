--------------------------- MODULE Voting_proofs ---------------------------
(***************************************************************************)
(* For any members, places and concurrent requests: the upsert of PUT      *)
(* /votes/me linearises, and the pick of the tally is the best there is.   *)
(*                                                                         *)
(* AckedVoteStands is not inductive: nothing in it says what a request     *)
(* that found a row may rely on.  VoteInv adds FoundOrSince: the weight is *)
(* still the one the request loaded, or one acknowledged since.            *)
(***************************************************************************)
EXTENDS Voting, FiniteSetTheorems, TLAPS

VoteTypes ==
    /\ vote \in [Keys -> Weights \cup {NoRow}]
    /\ put \in [Puts -> PutLoaded \cup {PutIdle}]
    /\ stand \in [Keys -> SUBSET Weights]

FoundOrSince ==
    \A s \in Puts : put[s].pc = "loaded" /\ put[s].found # NoRow =>
        vote[put[s].key] \in {put[s].found} \cup put[s].since

VoteInv == VoteTypes /\ AckedVoteStands /\ FoundOrSince

\* What a loaded request carries.
LEMMA LoadedType ==
    ASSUME VoteTypes, NEW s \in Puts, put[s].pc = "loaded"
    PROVE  /\ put[s] \in PutLoaded
           /\ put[s].key \in Keys /\ put[s].weight \in Weights
           /\ put[s].found \in Weights \cup {NoRow}
           /\ put[s].since \in SUBSET Weights
<1>1. put[s] \in PutLoaded BY DEF VoteTypes, PutIdle
<1> QED BY <1>1 DEF PutLoaded

\* Any acknowledged write: the row of the key becomes the weight asked for or
\* stays what it is, and is what the request may leave.
LEMMA AcknowledgeStep ==
    ASSUME VoteInv, NEW s \in Puts, put[s].pc = "loaded", Acknowledge(s),
           vote' \in [Keys -> Weights \cup {NoRow}],
           vote'[put[s].key] \in {put[s].weight, vote[put[s].key]},
           vote'[put[s].key] \in {put[s].weight} \cup put[s].since,
           \A k \in Keys \ {put[s].key} : vote'[k] = vote[k]
    PROVE  VoteInv'
<1> DEFINE key == put[s].key
           w == put[s].weight
           more(t) == [put[t] EXCEPT !.since = @ \cup {w}]
<1>1. key \in Keys /\ w \in Weights /\ put[s].since \in SUBSET Weights
  BY LoadedType DEF VoteInv
<1>2. /\ stand' \in [Keys -> SUBSET Weights]
      /\ vote'[key] \in stand'[key]
      /\ \A k \in Keys \ {key} : stand'[k] = stand[k]
  BY <1>1 DEF Acknowledge, VoteInv, VoteTypes
<1>3. ASSUME NEW t \in Puts, put[t].pc = "loaded"
      PROVE  /\ more(t) \in PutLoaded
             /\ more(t).pc = "loaded" /\ more(t).key = put[t].key
             /\ more(t).found = put[t].found /\ more(t).since = put[t].since \cup {w}
  <2>1. put[t] \in PutLoaded /\ put[t].since \in SUBSET Weights
    BY <1>3, LoadedType DEF VoteInv
  <2> QED BY <1>1, <2>1 DEF PutLoaded
<1> HIDE DEF key, w
<1>4. /\ put'[s] = PutIdle
      /\ \A t \in Puts \ {s} :
           put'[t] = IF put[t].pc = "loaded" /\ put[t].key = key
                     THEN more(t) ELSE put[t]
      /\ put' = [t \in Puts |-> put'[t]]
  BY DEF Acknowledge, key, w
<1> HIDE DEF more
<1>5. VoteTypes'
  <2>1. \A t \in Puts : put'[t] \in PutLoaded \cup {PutIdle}
    BY <1>3, <1>4 DEF VoteInv, VoteTypes
  <2> QED BY <1>2, <1>4, <2>1 DEF VoteTypes
<1>6. AckedVoteStands'
  <2>1. ASSUME NEW k \in Keys
        PROVE  IF stand'[k] = {} THEN vote'[k] = NoRow ELSE vote'[k] \in stand'[k]
    <3>1. CASE k = key BY <1>2, <3>1 DEF key, w
    <3>2. CASE k # key BY <1>2, <3>2 DEF key, VoteInv, AckedVoteStands
    <3> QED BY <3>1, <3>2
  <2> QED BY <2>1 DEF AckedVoteStands
<1>7. ASSUME NEW t \in Puts, put'[t].pc = "loaded", put'[t].found # NoRow
      PROVE  vote'[put'[t].key] \in {put'[t].found} \cup put'[t].since
  <2>1. t # s BY <1>4, <1>7 DEF PutIdle
  <2>2. put[t].pc = "loaded" BY <1>3, <1>4, <1>7, <2>1
  <2>3. put[t].key \in Keys BY <2>2, LoadedType DEF VoteInv
  <2>4. CASE put[t].key = key
    <3>1. /\ put'[t].key = key /\ put'[t].found = put[t].found
          /\ put'[t].since = put[t].since \cup {w}
      BY <1>3, <1>4, <2>1, <2>2, <2>4
    <3>2. vote[key] \in {put[t].found} \cup put[t].since
      BY <1>7, <2>2, <2>4, <3>1 DEF VoteInv, FoundOrSince
    <3> QED BY <3>1, <3>2 DEF key, w
  <2>5. CASE put[t].key # key
    <3>1. put'[t] = put[t] BY <1>4, <2>1, <2>5
    <3>2. vote[put[t].key] \in {put[t].found} \cup put[t].since
      BY <1>7, <2>2, <3>1 DEF VoteInv, FoundOrSince
    <3> QED BY <2>3, <2>5, <3>1, <3>2 DEF key
  <2> QED BY <2>4, <2>5
<1> QED BY <1>5, <1>6, <1>7 DEF VoteInv, FoundOrSince

LEMMA LoadStep ==
    ASSUME VoteInv, NEW s \in Puts, NEW u \in Users, NEW p \in Places,
           NEW w \in Weights, PutLoad(s, u, p, w)
    PROVE  VoteInv'
<1> DEFINE r == [pc |-> "loaded", key |-> <<u, p>>, weight |-> w,
                 found |-> vote[<<u, p>>], since |-> {}]
<1>1. <<u, p>> \in Keys BY DEF Keys
<1>2. r \in PutLoaded BY <1>1 DEF PutLoaded, VoteInv, VoteTypes
<1>3. r.key = <<u, p>> /\ r.found = vote[<<u, p>>] OBVIOUS
<1>4. put' = [put EXCEPT ![s] = r] /\ UNCHANGED <<vote, stand>> BY DEF PutLoad
<1> HIDE DEF r
<1>5. VoteTypes' BY <1>2, <1>4 DEF VoteInv, VoteTypes
<1>6. AckedVoteStands' BY <1>4 DEF VoteInv, AckedVoteStands
<1>7. put'[s] = r /\ \A t \in Puts \ {s} : put'[t] = put[t]
  BY <1>4 DEF VoteInv, VoteTypes
<1>8. FoundOrSince' BY <1>3, <1>4, <1>7 DEF VoteInv, FoundOrSince
<1> QED BY <1>5, <1>6, <1>8 DEF VoteInv

LEMMA InsertStep ==
    ASSUME VoteInv, NEW s \in Puts, PutInsert(s)
    PROVE  VoteInv'
<1>1. put[s].key \in Keys /\ put[s].weight \in Weights /\ put[s].pc = "loaded"
  BY LoadedType DEF PutInsert, VoteInv
<1>2. CASE /\ vote' = [vote EXCEPT ![put[s].key] = put[s].weight]
           /\ Acknowledge(s)
  BY <1>1, <1>2, AcknowledgeStep DEF VoteInv, VoteTypes
<1>3. CASE put' = [put EXCEPT ![s] = PutIdle] /\ UNCHANGED <<vote, stand>>
  <2>1. put'[s].pc = "idle" /\ \A t \in Puts \ {s} : put'[t] = put[t]
    BY <1>3 DEF VoteInv, VoteTypes, PutIdle
  <2>2. VoteTypes' BY <1>3 DEF VoteInv, VoteTypes
  <2>3. AckedVoteStands' BY <1>3 DEF VoteInv, AckedVoteStands
  <2>4. FoundOrSince' BY <1>3, <2>1 DEF VoteInv, FoundOrSince
  <2> QED BY <2>2, <2>3, <2>4 DEF VoteInv
<1> QED BY <1>2, <1>3 DEF PutInsert

\* A weight equal to the one loaded is not written; by FoundOrSince the row
\* still holds it or what was acknowledged since.
LEMMA UpdateStep ==
    ASSUME VoteInv, NEW s \in Puts, PutUpdate(s)
    PROVE  VoteInv'
<1>1. /\ put[s].key \in Keys /\ put[s].weight \in Weights /\ put[s].pc = "loaded"
      /\ vote[put[s].key] \in {put[s].found} \cup put[s].since
  BY LoadedType DEF PutUpdate, VoteInv, FoundOrSince
<1>2. Acknowledge(s) BY DEF PutUpdate
<1>3. CASE put[s].weight = put[s].found
  <2>1. vote' = vote BY <1>3 DEF PutUpdate
  <2> QED BY <1>1, <1>2, <1>3, <2>1, AcknowledgeStep DEF VoteInv, VoteTypes
<1>4. CASE put[s].weight # put[s].found
  <2>1. vote' = [vote EXCEPT ![put[s].key] = put[s].weight]
    BY <1>4 DEF PutUpdate
  <2> QED BY <1>1, <1>2, <2>1, AcknowledgeStep DEF VoteInv, VoteTypes
<1> QED BY <1>3, <1>4

LEMMA VoteInit == Init => VoteInv
BY DEF Init, VoteInv, VoteTypes, AckedVoteStands, FoundOrSince, PutIdle

LEMMA VoteStep == VoteInv /\ [Next]_vars => VoteInv'
<1> SUFFICES ASSUME VoteInv, [Next]_vars PROVE VoteInv'
  OBVIOUS
<1>1. ASSUME UNCHANGED <<vote, put, stand>> PROVE VoteInv'
  BY <1>1 DEF VoteInv, VoteTypes, AckedVoteStands, FoundOrSince
<1>2. ASSUME NEW f \in Finals, FinalCount(f) \/ FinalLoad(f) \/ FinalWrite(f)
      PROVE  VoteInv'
  BY <1>1, <1>2 DEF FinalCount, FinalLoad, FinalWrite
<1>3. CASE UNCHANGED vars
  BY <1>1, <1>3 DEF vars
<1> QED BY <1>2, <1>3, LoadStep, InsertStep, UpdateStep DEF Next

\* upsert_my_vote: a member's vote on a place is always the weight of an
\* acknowledged request that no later one supersedes.
THEOREM VotesAreTheAcknowledged == Spec => []AckedVoteStands
<1>1. VoteInv => AckedVoteStands BY DEF VoteInv
<1> QED BY <1>1, VoteInit, VoteStep, PTL DEF Spec

----------------------------------------------------------------------------
(* The pick. *)

LEMMA TallyCounts ==
    ASSUME NEW v, NEW p
    PROVE  Up(v, p) \in Nat /\ Net(v, p) \in Int
<1>1. /\ IsFiniteSet({u \in Users : v[<<u, p>>] = 1})
      /\ IsFiniteSet({u \in Users : v[<<u, p>>] = -1})
  BY UsersAssumption, FS_Subset
<1>2. /\ Cardinality({u \in Users : v[<<u, p>>] = 1}) \in Nat
      /\ Cardinality({u \in Users : v[<<u, p>>] = -1}) \in Nat
  BY <1>1, FS_CardinalityType
<1> QED BY <1>2 DEF Up, Veto, Net

\* The sort key is a strict total order of the places.
LEMMA RankingIsStrict ==
    ASSUME NEW v
    PROVE  /\ \A p \in Places : ~RanksBefore(v, p, p)
           /\ \A p, q, r \in Places :
                 RanksBefore(v, p, q) /\ RanksBefore(v, q, r) => RanksBefore(v, p, r)
           /\ \A p, q \in Places :
                 p = q \/ RanksBefore(v, p, q) \/ RanksBefore(v, q, p)
<1>1. \A p \in Places : p \in Int /\ Up(v, p) \in Int /\ Net(v, p) \in Int
  BY TallyCounts, PlaceCountAssumption DEF Places
<1> QED BY <1>1 DEF RanksBefore

(***************************************************************************)
(* The places that rank before p, ordered by strict inclusion, have a      *)
(* least set: it is empty, and p is first.                                 *)
(***************************************************************************)
LEMMA FirstIsFirst ==
    ASSUME NEW v, NEW S \in SUBSET Places, S # {}
    PROVE  /\ FirstOf(v, S) \in S
           /\ \A q \in S \ {FirstOf(v, S)} : RanksBefore(v, FirstOf(v, S), q)
<1> DEFINE Ahead(p) == {q \in S : RanksBefore(v, q, p)}
           T == {Ahead(p) : p \in S}
<1>1. IsFiniteSet(S)
  <2>1. 1 \in Int /\ PlaceCount \in Int BY PlaceCountAssumption
  <2> QED BY <2>1, FS_Interval, FS_Subset DEF Places
<1>2. T \subseteq FiniteSubsetsOf(S) /\ T # {}
  <2>1. ASSUME NEW A \in T PROVE A \in FiniteSubsetsOf(S)
    <3>1. A \in SUBSET S OBVIOUS
    <3>2. IsFiniteSet(A) BY <1>1, <3>1, FS_Subset
    <3> QED BY <3>1, <3>2 DEF FiniteSubsetsOf
  <2> QED BY <2>1
<1>3. PICK A \in T : \A B \in T : <<B, A>> \notin StrictSubsetOrdering(S)
  <2>1. IsWellFoundedOn(StrictSubsetOrdering(S), FiniteSubsetsOf(S))
    BY FS_StrictSubsetOrderingWellFounded
  <2> HIDE DEF T
  <2> QED BY <1>2, <2>1, WFMin
<1>4. PICK p \in S : A = Ahead(p) OBVIOUS
<1>5. ASSUME NEW q \in S, q # p PROVE RanksBefore(v, p, q)
  <2> SUFFICES ASSUME RanksBefore(v, q, p) PROVE FALSE
    BY <1>5, RankingIsStrict
  <2>1. Ahead(q) \subseteq Ahead(p) BY RankingIsStrict
  <2>2. q \in Ahead(p) \ Ahead(q) BY RankingIsStrict
  <2>3. <<Ahead(q), Ahead(p)>> \in StrictSubsetOrdering(S)
    BY <2>1, <2>2 DEF StrictSubsetOrdering
  <2> QED BY <1>3, <1>4, <2>3
<1> QED BY <1>5 DEF FirstOf

LEMMA FirstIsNotBeaten ==
    ASSUME NEW S \in SUBSET Places, S # {}
    PROVE  FirstOf(vote, S) \in S /\ NotBeaten(FirstOf(vote, S), S)
<1> DEFINE p == FirstOf(vote, S)
<1>1. p \in S /\ \A q \in S \ {p} : RanksBefore(vote, p, q) BY FirstIsFirst
<1> HIDE DEF p
<1>2. \A q \in S : Up(vote, q) \in Int /\ Net(vote, q) \in Int BY TallyCounts
<1>3. NotBeaten(p, S) BY <1>1, <1>2 DEF NotBeaten, RanksBefore
<1> QED BY <1>1, <1>3 DEF p

\* _pick_winner_and_backup: no place with a vote beats the winner, and none of
\* the others the backup; both are there when they can be.
THEOREM BestIsPicked == Spec => []PickIsBest
<1> DEFINE S == Voted(vote)
           winner == FirstOf(vote, S)
           backup == FirstOf(vote, S \ {winner})
<1>1. S \in SUBSET Places /\ S \ {winner} \in SUBSET Places BY DEF Voted
<1>2. S = {} => winner = NoPlace BY DEF FirstOf
<1>3. S \ {winner} = {} => backup = NoPlace BY DEF FirstOf
<1>4. S # {} => winner \in S /\ NotBeaten(winner, S) BY <1>1, FirstIsNotBeaten
<1>5. S \ {winner} # {} =>
         backup \in S \ {winner} /\ NotBeaten(backup, S \ {winner})
  BY <1>1, FirstIsNotBeaten
<1>6. Cardinality(S) > 1 => S \ {winner} # {}
  <2>1. SUFFICES ASSUME S \ {winner} = {}, Cardinality(S) > 1 PROVE FALSE OBVIOUS
  <2>2. CASE S = {} BY <2>1, <2>2, FS_EmptySet
  <2>3. CASE S = {winner} BY <2>1, <2>3, FS_Singleton
  <2> QED BY <2>1, <2>2, <2>3
<1>7. /\ PickWinnerAndBackup(vote).winner = winner
      /\ PickWinnerAndBackup(vote).backup = backup
  BY DEF PickWinnerAndBackup
<1> HIDE DEF S, winner, backup
<1>8. PickIsBest BY <1>2, <1>3, <1>4, <1>5, <1>6, <1>7 DEF PickIsBest, S
<1> QED BY <1>8, PTL

----------------------------------------------------------------------------
(* The types. *)

LEMMA PickIsAPair == \A v : PickWinnerAndBackup(v) \in Pairs
<1> TAKE v
<1>1. ASSUME NEW S \in SUBSET Places PROVE FirstOf(v, S) \in Places \cup {NoPlace}
  BY FirstIsFirst DEF FirstOf
<1> QED BY <1>1 DEF PickWinnerAndBackup, Pairs, Voted

LEMMA FinalsTyped ==
    ASSUME TypeOK, [Next]_vars
    PROVE  /\ mission' \in Pairs /\ picked' \subseteq Pairs
           /\ final' \in [Finals -> FinalLoaded \cup FinalCounted \cup {FinalIdle}]
<1> DEFINE Kept == UNCHANGED <<mission, final, picked>>
           Requests == FinalLoaded \cup FinalCounted \cup {FinalIdle}
<1>1. CASE Kept BY <1>1 DEF TypeOK
<1>2. ASSUME NEW f \in Finals, FinalCount(f) PROVE final'[f] \in Requests
  BY <1>2, PickIsAPair DEF FinalCount, FinalCounted, TypeOK
<1>3. ASSUME NEW f \in Finals, FinalLoad(f) PROVE final'[f] \in Requests
  <2>1. final[f] \in FinalCounted BY <1>3 DEF FinalLoad, TypeOK, FinalLoaded, FinalIdle
  <2> QED BY <1>3, <2>1 DEF FinalLoad, FinalCounted, FinalLoaded, TypeOK
<1>4. ASSUME NEW f \in Finals, FinalWrite(f)
      PROVE  mission' \in Pairs /\ picked' \subseteq Pairs
  <2>1. final[f] \in FinalLoaded BY <1>4 DEF FinalWrite, TypeOK, FinalCounted, FinalIdle
  <2>2. mission \in Pairs /\ final[f].pick \in Pairs BY <2>1 DEF FinalLoaded, TypeOK
  <2> HIDE DEF Requests
  <2>3. mission' \in Pairs BY <1>4, <2>2 DEF FinalWrite, Pairs
  <2> QED BY <1>4, <2>2, <2>3 DEF FinalWrite, Returned, TypeOK
<1>5. ASSUME NEW f \in Finals, FinalCount(f) \/ FinalLoad(f) \/ FinalWrite(f)
      PROVE  final' \in [Finals -> Requests]
  <2>1. final \in [Finals -> Requests] BY DEF TypeOK
  <2> HIDE DEF Requests
  <2>2. CASE FinalCount(f) BY <1>2, <2>1, <2>2 DEF FinalCount
  <2>3. CASE FinalLoad(f) BY <1>3, <2>1, <2>3 DEF FinalLoad
  <2>4. CASE FinalWrite(f)
    <3>1. FinalIdle \in Requests BY DEF Requests
    <3> QED BY <2>1, <2>4, <3>1 DEF FinalWrite, Returned
  <2> QED BY <1>5, <2>2, <2>3, <2>4
<1>6. ASSUME NEW f \in Finals, FinalCount(f) \/ FinalLoad(f)
      PROVE  mission' \in Pairs /\ picked' \subseteq Pairs
  BY <1>6 DEF FinalCount, FinalLoad, TypeOK
<1>7. \/ Kept \/ \E f \in Finals : FinalCount(f) \/ FinalLoad(f) \/ FinalWrite(f)
  BY DEF Next, vars, PutLoad, PutInsert, PutUpdate
<1> QED BY <1>1, <1>4, <1>5, <1>6, <1>7

\* Every variable keeps its type, for any members, places and requests.
THEOREM TypeCorrect == Spec => []TypeOK
<1>1. Init => TypeOK
  BY DEF Init, TypeOK, Pairs, NoPair, PutIdle, FinalIdle
<1>2. TypeOK /\ VoteInv' /\ [Next]_vars => TypeOK'
  BY FinalsTyped DEF TypeOK, VoteInv, VoteTypes
<1> QED BY <1>1, <1>2, VoteInit, VoteStep, PTL DEF Spec

=============================================================================

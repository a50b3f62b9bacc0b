------------------------------- MODULE Voting -------------------------------
(***************************************************************************)
(* Votes and their finalisation (services/api/app/api/v1/votes.py).        *)
(*                                                                         *)
(* Every request has a database session of its own: a SELECT sees what is  *)
(* committed when it runs and takes no lock, and the session writes at its *)
(* end, only the columns whose value differs from the one it loaded (the   *)
(* unit of work of SQLAlchemy).  A request is therefore a sequence of      *)
(* steps, other requests run between any two of them, and a member may     *)
(* have several in flight: the vote buttons are never disabled and two     *)
(* devices may share an account.                                           *)
(*                                                                         *)
(* Places are numbered in the order of their ids, which breaks ties.       *)
(***************************************************************************)
EXTENDS Integers, FiniteSets

CONSTANTS
    Users,         \* members of the mission
    PlaceCount,    \* places to vote on
    Puts,          \* slots: a bound on concurrent PUT /votes/me
    Finals         \* slots: a bound on concurrent POST /votes/finalize

ASSUME PlaceCountAssumption == PlaceCount \in Nat

ASSUME UsersAssumption == IsFiniteSet(Users)

Places == 1..PlaceCount
NoPlace == 0
Weights == {-1, 1}
NoRow == 0

Keys == Users \X Places
Pairs == [winner : Places \cup {NoPlace}, backup : Places \cup {NoPlace}]
NoPair == [winner |-> NoPlace, backup |-> NoPlace]

VARIABLES
    vote,       \* (user, place) -> weight of the row, NoRow without one
    mission,    \* the pair stored on the missions row
    put,        \* slot -> the vote request in it
    final,      \* slot -> the finalize request in it
    stand,      \* history: (user, place) -> weights that may stand
    picked      \* history: pairs that finalize requests returned

vars == <<vote, mission, put, final, stand, picked>>

PutIdle == [pc |-> "idle"]
PutLoaded == [pc : {"loaded"}, key : Keys, weight : Weights,
              found : Weights \cup {NoRow},
              since : SUBSET Weights]    \* history: acknowledged since the load

FinalIdle == [pc |-> "idle"]
FinalCounted == [pc : {"counted"}, pick : Pairs]
FinalLoaded == [pc : {"loaded"}, pick : Pairs, old : Pairs]

TypeOK ==
    /\ vote \in [Keys -> Weights \cup {NoRow}]
    /\ mission \in Pairs
    /\ put \in [Puts -> PutLoaded \cup {PutIdle}]
    /\ final \in [Finals -> FinalLoaded \cup FinalCounted \cup {FinalIdle}]
    /\ stand \in [Keys -> SUBSET Weights]
    /\ picked \subseteq Pairs

Init ==
    /\ vote = [k \in Keys |-> NoRow]
    /\ mission = NoPair
    /\ put = [s \in Puts |-> PutIdle]
    /\ final = [f \in Finals |-> FinalIdle]
    /\ stand = [k \in Keys |-> {}]
    /\ picked = {NoPair}

----------------------------------------------------------------------------
(* PUT /votes/me: look for the row, then insert or update it. *)

PutLoad(s, u, p, w) ==
    /\ put[s] = PutIdle
    /\ put' = [put EXCEPT ![s] = [pc |-> "loaded", key |-> <<u, p>>,
                                  weight |-> w, found |-> vote[<<u, p>>],
                                  since |-> {}]]
    /\ UNCHANGED <<vote, mission, final, stand, picked>>

\* The row a request acknowledges: what it wrote stands, unless a request
\* acknowledged while it ran is ordered after it.  Once no other request on the
\* row is in flight, only the stored weight matters.
Acknowledge(s) ==
    LET key == put[s].key  w == put[s].weight
        may == {w} \cup put[s].since
        alone == \A t \in Puts \ {s} : put[t].pc = "loaded" => put[t].key # key
    IN
    /\ stand' = [stand EXCEPT ![key] =
                   IF alone THEN may \cap {vote'[key]} ELSE may]
    /\ put' = [t \in Puts |->
                 IF t = s THEN PutIdle
                 ELSE IF put[t].pc = "loaded" /\ put[t].key = key
                      THEN [put[t] EXCEPT !.since = @ \cup {w}] ELSE put[t]]

\* Two first votes of one member on one place: the primary key refuses the
\* second INSERT, which ends in an error.
PutInsert(s) ==
    /\ put[s].pc = "loaded"
    /\ put[s].found = NoRow
    /\ LET key == put[s].key IN
         IF vote[key] = NoRow
         THEN vote' = [vote EXCEPT ![key] = put[s].weight] /\ Acknowledge(s)
         ELSE put' = [put EXCEPT ![s] = PutIdle] /\ UNCHANGED <<vote, stand>>
    /\ UNCHANGED <<mission, final, picked>>

\* Mutant of PutUpdate: an existing vote is only touched.
PutTouch(s) ==
    /\ put[s].pc = "loaded"
    /\ put[s].found # NoRow
    /\ UNCHANGED <<vote, mission, final, picked>>
    /\ Acknowledge(s)

\* The weight is written only when it differs from the one loaded.
PutUpdate(s) ==
    /\ put[s].pc = "loaded"
    /\ put[s].found # NoRow
    /\ vote' = IF put[s].weight = put[s].found THEN vote
               ELSE [vote EXCEPT ![put[s].key] = put[s].weight]
    /\ Acknowledge(s)
    /\ UNCHANGED <<mission, final, picked>>

----------------------------------------------------------------------------
(* The tally and the pick. *)

Voted(v) == {p \in Places : \E u \in Users : v[<<u, p>>] # NoRow}
Up(v, p) == Cardinality({u \in Users : v[<<u, p>>] = 1})
Veto(v, p) == Cardinality({u \in Users : v[<<u, p>>] = -1})
Net(v, p) == Up(v, p) - Veto(v, p)

\* Mutant of RanksBefore: ranks by upvotes alone.
RanksByUpvotes(v, p, q) ==
    \/ Up(v, p) > Up(v, q)
    \/ Up(v, p) = Up(v, q) /\ p < q

\* The sort key of _pick_winner_and_backup.
RanksBefore(v, p, q) ==
    \/ Net(v, p) > Net(v, q)
    \/ Net(v, p) = Net(v, q) /\ Up(v, p) > Up(v, q)
    \/ Net(v, p) = Net(v, q) /\ Up(v, p) = Up(v, q) /\ p < q

FirstOf(v, S) ==
    IF S = {} THEN NoPlace
    ELSE CHOOSE p \in S : \A q \in S \ {p} : RanksBefore(v, p, q)

PickWinnerAndBackup(v) ==
    LET winner == FirstOf(v, Voted(v)) IN
    [winner |-> winner, backup |-> FirstOf(v, Voted(v) \ {winner})]

----------------------------------------------------------------------------
(* POST /votes/finalize: count, load the mission, write the pair. *)

FinalCount(f) ==
    /\ final[f] = FinalIdle
    /\ final' = [final EXCEPT ![f] = [pc |-> "counted",
                                      pick |-> PickWinnerAndBackup(vote)]]
    /\ UNCHANGED <<vote, mission, put, stand, picked>>

\* The mission is loaded (the one get_mission_owner had loaded is no longer
\* referenced) and assigned to; the places are looked up before the flush.
FinalLoad(f) ==
    /\ final[f].pc = "counted"
    /\ final' = [final EXCEPT ![f] = [pc |-> "loaded", pick |-> final[f].pick,
                                      old |-> mission]]
    /\ UNCHANGED <<vote, mission, put, stand, picked>>

\* Request f returns its pair.  Once no other finalize request is in flight,
\* only the stored pair matters.
Returned(f, pair, stored) ==
    /\ picked' = IF \A g \in Finals \ {f} : final[g] = FinalIdle
                 THEN (picked \cup {pair}) \cap {stored} ELSE picked \cup {pair}
    /\ final' = [final EXCEPT ![f] = FinalIdle]

\* Each column is written only when it differs from the one loaded.
FinalWrite(f) ==
    LET pick == final[f].pick  old == final[f].old IN
    /\ final[f].pc = "loaded"
    /\ mission' =
         [winner |-> IF pick.winner = old.winner THEN mission.winner
                     ELSE pick.winner,
          backup |-> IF pick.backup = old.backup THEN mission.backup
                     ELSE pick.backup]
    /\ Returned(f, pick, mission')
    /\ UNCHANGED <<vote, put, stand>>

Next ==
    \/ \E s \in Puts :
         \/ \E u \in Users, p \in Places, w \in Weights : PutLoad(s, u, p, w)
         \/ PutInsert(s) \/ PutUpdate(s)
    \/ \E f \in Finals : FinalCount(f) \/ FinalLoad(f) \/ FinalWrite(f)

Spec == Init /\ [][Next]_vars

----------------------------------------------------------------------------
(* Properties. *)

(***************************************************************************)
(* The upsert linearises: whatever a member's vote on a place is, it is    *)
(* the weight of an acknowledged request that no later one supersedes, and *)
(* once a vote was acknowledged there is one, however requests overlap.    *)
(***************************************************************************)
AckedVoteStands ==
    \A k \in Keys : IF stand[k] = {} THEN vote[k] = NoRow ELSE vote[k] \in stand[k]

(***************************************************************************)
(* The pick against what its docstring says: no place with votes has a     *)
(* higher net score than the winner, none of the others has a higher one   *)
(* than the backup, ties have no more upvotes, and there is a winner       *)
(* (backup) as soon as one place (two places) got a vote.                  *)
(***************************************************************************)
NotBeaten(p, S) ==
    \A q \in S : /\ Net(vote, q) <= Net(vote, p)
                 /\ Net(vote, q) = Net(vote, p) => Up(vote, q) <= Up(vote, p)

PickIsBest ==
    LET pair == PickWinnerAndBackup(vote) IN
    /\ pair.winner # NoPlace => NotBeaten(pair.winner, Voted(vote))
    /\ pair.backup # NoPlace => NotBeaten(pair.backup, Voted(vote) \ {pair.winner})
    /\ Voted(vote) # {} => pair.winner \in Voted(vote)
    /\ Cardinality(Voted(vote)) > 1 => pair.backup \in Voted(vote) \ {pair.winner}

(***************************************************************************)
(* votes.py:10: finalize writes the winner and the backup it picked and    *)
(* returns the pair, so what is stored is a pair some call returned.  Two  *)
(* calls at once break it: each writes only the columns in which its pair  *)
(* differs from the one it loaded, and the columns of both may mix.        *)
(***************************************************************************)
StoredPairWasPicked == mission \in picked
=============================================================================

---------------------------- MODULE Preferences ----------------------------
(***************************************************************************)
(* One member's preferences row in one mission                             *)
(* (services/api/app/api/v1/preferences.py): saving it with PUT /me and    *)
(* filling it from a free-text comment with POST /me/parse, which waits    *)
(* for a language model between loading the row and writing it.            *)
(*                                                                         *)
(* One scalar column, the budget, and one list column, the liked cuisines, *)
(* stand for the others of their kind, which are treated alike.  The order *)
(* of a list is left out.  A flush writes the columns whose value differs  *)
(* from the one loaded, whatever the row holds by then.                    *)
(***************************************************************************)
EXTENDS FiniteSets

CONSTANTS
    Budgets,     \* budgets a member can state or a comment can imply
    Cuisines,    \* cuisines likewise
    Null,        \* no budget
    Absent,      \* a field the payload does not carry
    NoRow,       \* the member has saved nothing yet
    Slots        \* a bound on concurrent requests

ASSUME NullAssumption == Null \notin Budgets
ASSUME AbsentAssumption ==
    /\ Absent \notin Budgets \cup {Null}
    /\ \A likes \in SUBSET Cuisines : likes # Absent
    /\ NoRow \notin [budget : Budgets \cup {Null}, likes : SUBSET Cuisines]

Scalars == Budgets \cup {Null}
Lists == SUBSET Cuisines
Row == [budget : Scalars, likes : Lists]
EmptyRow == [budget |-> Null, likes |-> {}]
Payload == [budget : {Absent} \cup Scalars, likes : {Absent} \cup Lists]

VARIABLES
    pref,      \* the row
    req,       \* slot -> the request in it
    stand      \* history: column -> values an acknowledged write may leave

vars == <<pref, req, stand>>

Columns == [budget : SUBSET Scalars, likes : SUBSET Lists]
Nothing == [budget |-> {}, likes |-> {}]

\* found: the row as loaded; since: written by others from then on (history).
ReqIdle == [pc |-> "idle"]
Saving == [pc : {"saving"}, found : Row \cup {NoRow}, payload : Payload,
           since : Columns]
Parsing == [pc : {"parsing"}, found : Row \cup {NoRow}, since : Columns]

TypeOK ==
    /\ pref \in Row \cup {NoRow}
    /\ req \in [Slots -> Saving \cup Parsing \cup {ReqIdle}]
    /\ stand \in Columns

Init ==
    /\ pref = NoRow
    /\ req = [s \in Slots |-> ReqIdle]
    /\ stand = Nothing

----------------------------------------------------------------------------
SaveLoad(s, payload) ==
    /\ req[s] = ReqIdle
    /\ req' = [req EXCEPT ![s] = [pc |-> "saving", found |-> pref,
                                  payload |-> payload, since |-> Nothing]]
    /\ UNCHANGED <<pref, stand>>

ParseLoad(s) ==
    /\ req[s] = ReqIdle
    /\ req' = [req EXCEPT ![s] = [pc |-> "parsing", found |-> pref,
                                  since |-> Nothing]]
    /\ UNCHANGED <<pref, stand>>

\* The request ends without a trace: the model fails, or a row inserted in
\* the meantime makes its own INSERT violate the primary key.
Abandon(s) ==
    /\ req' = [req EXCEPT ![s] = ReqIdle]
    /\ UNCHANGED <<pref, stand>>

\* What a column may hold once s has written w to it; Absent writes nothing.
Stands(old, since, w) == IF w = Absent THEN old ELSE {w} \cup since
AlsoSince(since, w) == IF w = Absent THEN since ELSE since \cup {w}

\* Request s is acknowledged as having asked for these two values.
Acknowledge(s, budget, likes) ==
    /\ stand' = [budget |-> Stands(stand.budget, req[s].since.budget, budget),
                 likes |-> Stands(stand.likes, req[s].since.likes, likes)]
    /\ req' = [t \in Slots |->
         IF t = s THEN ReqIdle
         ELSE IF req[t] = ReqIdle THEN ReqIdle
         ELSE [req[t] EXCEPT !.since =
                 [budget |-> AlsoSince(@.budget, budget),
                  likes |-> AlsoSince(@.likes, likes)]]]

\* Mutant of Flushed: every column of the loaded row is written.
FlushedWhole(row, found, budget, likes) ==
    [budget |-> IF budget = Absent THEN found.budget ELSE budget,
     likes |-> IF likes = Absent THEN found.likes ELSE likes]

\* The row once the changes to the loaded one have been flushed.
Flushed(row, found, budget, likes) ==
    [budget |-> IF budget = Absent \/ budget = found.budget THEN row.budget ELSE budget,
     likes |-> IF likes = Absent \/ likes = found.likes THEN row.likes ELSE likes]

\* put_my_preferences: absent fields of a new row default to None and [].
SaveInsert(s) ==
    /\ req[s].pc = "saving"
    /\ req[s].found = NoRow
    /\ IF pref # NoRow THEN Abandon(s)
       ELSE LET p == req[s].payload
                row == [budget |-> IF p.budget = Absent THEN Null ELSE p.budget,
                        likes |-> IF p.likes = Absent THEN {} ELSE p.likes]
            IN pref' = row /\ Acknowledge(s, row.budget, row.likes)

SaveUpdate(s) ==
    LET p == req[s].payload IN
    /\ req[s].pc = "saving"
    /\ req[s].found # NoRow
    /\ pref' = Flushed(pref, req[s].found, p.budget, p.likes)
    /\ Acknowledge(s, p.budget, p.likes)

\* parse_my_preferences on the loaded row: an explicit scalar wins over the
\* inferred one, lists are merged.
Inferred(found, budget, likes) ==
    [budget |-> IF found.budget # Null \/ budget = Null THEN Absent ELSE budget,
     likes |-> found.likes \cup likes]

\* The model has answered; merging and flushing follow without a wait.
ParseFinish(s, budget, likes) ==
    LET found == IF req[s].found = NoRow THEN EmptyRow ELSE req[s].found
        new == Inferred(found, budget, likes)
    IN
    /\ req[s].pc = "parsing"
    /\ IF req[s].found = NoRow
       THEN IF pref # NoRow THEN Abandon(s)
            ELSE /\ pref' = [budget |-> budget, likes |-> new.likes]
                 /\ Acknowledge(s, budget, new.likes)
       ELSE /\ pref' = Flushed(pref, found, new.budget, new.likes)
            /\ Acknowledge(s, new.budget, new.likes)

ParseFails(s) == req[s].pc = "parsing" /\ Abandon(s)

Next == \E s \in Slots :
    \/ \E payload \in Payload : SaveLoad(s, payload)
    \/ SaveInsert(s) \/ SaveUpdate(s)
    \/ ParseLoad(s) \/ ParseFails(s)
    \/ \E budget \in Scalars, likes \in Lists : ParseFinish(s, budget, likes)

Spec == Init /\ [][Next]_vars

----------------------------------------------------------------------------
(* Properties. *)

(***************************************************************************)
(* Requests that overlap merge column by column: whatever a column holds   *)
(* was asked for by an acknowledged request that no later one supersedes.  *)
(* A save of one field never brings back an old value of another.          *)
(***************************************************************************)
AckedColumnsStand ==
    IF pref = NoRow THEN stand = Nothing
    ELSE pref.budget \in stand.budget /\ pref.likes \in stand.likes
=============================================================================

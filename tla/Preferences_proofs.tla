------------------------- MODULE Preferences_proofs -------------------------
(***************************************************************************)
(* Overlapping requests on one member's preferences merge column by        *)
(* column, for any values and any number of concurrent requests.           *)
(*                                                                         *)
(* PrefInv is the type invariant, the property itself and FoundOrSince: a  *)
(* request that found a row may rely on its columns, but for what was      *)
(* acknowledged since.                                                     *)
(***************************************************************************)
EXTENDS Preferences, TLAPS

Busy == {"saving", "parsing"}

FoundOrSince ==
    \A s \in Slots : req[s].pc \in Busy /\ req[s].found # NoRow =>
        /\ pref # NoRow
        /\ pref.budget \in {req[s].found.budget} \cup req[s].since.budget
        /\ pref.likes \in {req[s].found.likes} \cup req[s].since.likes

PrefInv == TypeOK /\ AckedColumnsStand /\ FoundOrSince

LEMMA NoRowIsNoRow == NoRow \notin Row
BY AbsentAssumption DEF Row, Scalars, Lists

LEMMA AbsentIsNoValue == Absent \notin Scalars /\ Absent \notin Lists
BY AbsentAssumption DEF Scalars, Lists

LEMMA RequestKinds ==
    ASSUME NEW r \in Saving \cup Parsing \cup {ReqIdle}
    PROVE  /\ r.pc \in Busy \cup {"idle"}
           /\ r.pc \in Busy => r \in Saving \cup Parsing
           /\ r.pc = "idle" <=> r = ReqIdle
           /\ r.pc = "saving" <=> r \in Saving
BY DEF Saving, Parsing, ReqIdle, Busy

\* What a request in flight carries.
LEMMA BusyType ==
    ASSUME TypeOK, NEW s \in Slots, req[s].pc \in Busy
    PROVE  /\ req[s].found \in Row \cup {NoRow}
           /\ req[s].since \in Columns
           /\ req[s].since.budget \in SUBSET Scalars
           /\ req[s].since.likes \in SUBSET Lists
           /\ req[s] # ReqIdle
<1>1. req[s] \in Saving \cup Parsing BY RequestKinds DEF TypeOK
<1>2. req[s].found \in Row \cup {NoRow} /\ req[s].since \in Columns
  BY <1>1 DEF Saving, Parsing
<1>3. req[s] # ReqIdle BY DEF ReqIdle, Busy
<1> QED BY <1>2, <1>3 DEF Columns

\* One column of one request: what it may leave behind, written or not.
LEMMA ColumnStands ==
    ASSUME NEW old, NEW since, NEW current \in old, NEW found, NEW w,
           current \in {found} \cup since
    PROVE  (IF w = Absent \/ w = found THEN current ELSE w) \in Stands(old, since, w)
BY DEF Stands

\* Any acknowledged write of a whole row or of some of its columns.
LEMMA AcknowledgeStep ==
    ASSUME PrefInv, NEW s \in Slots, req[s].pc \in Busy,
           NEW b \in {Absent} \cup Scalars, NEW l \in {Absent} \cup Lists,
           Acknowledge(s, b, l), pref' \in Row,
           pref'.budget \in Stands(stand.budget, req[s].since.budget, b),
           pref'.likes \in Stands(stand.likes, req[s].since.likes, l),
           pref # NoRow => /\ pref'.budget = pref.budget \/ (b # Absent /\ pref'.budget = b)
                           /\ pref'.likes = pref.likes \/ (l # Absent /\ pref'.likes = l)
    PROVE  PrefInv'
<1> DEFINE since(t) == [budget |-> AlsoSince(req[t].since.budget, b),
                        likes |-> AlsoSince(req[t].since.likes, l)]
           more(t) == [req[t] EXCEPT !.since = since(t)]
<1>1. /\ req[s].since.budget \in SUBSET Scalars /\ req[s].since.likes \in SUBSET Lists
      /\ stand.budget \in SUBSET Scalars /\ stand.likes \in SUBSET Lists
  BY BusyType DEF PrefInv, TypeOK, Columns
<1>2. /\ stand' \in Columns
      /\ stand'.budget = Stands(stand.budget, req[s].since.budget, b)
      /\ stand'.likes = Stands(stand.likes, req[s].since.likes, l)
  BY <1>1 DEF Acknowledge, Stands, Columns
<1>3. ASSUME NEW t \in Slots, req[t].pc \in Busy
      PROVE  /\ more(t) \in Saving \cup Parsing
             /\ more(t).pc = req[t].pc /\ more(t).found = req[t].found
             /\ more(t).since.budget = AlsoSince(req[t].since.budget, b)
             /\ more(t).since.likes = AlsoSince(req[t].since.likes, l)
  <2>1. req[t] \in Saving \cup Parsing BY <1>3, RequestKinds DEF PrefInv, TypeOK
  <2>2. since(t) \in Columns
    <3>1. req[t].since.budget \in SUBSET Scalars /\ req[t].since.likes \in SUBSET Lists
      BY <1>3, BusyType DEF PrefInv
    <3> QED BY <3>1 DEF AlsoSince, Columns
  <2>3. /\ since(t).budget = AlsoSince(req[t].since.budget, b)
        /\ since(t).likes = AlsoSince(req[t].since.likes, l)
    OBVIOUS
  <2> HIDE DEF since
  <2> QED BY <2>1, <2>2, <2>3 DEF Saving, Parsing
<1> HIDE DEF more
<1>4. /\ req' = [t \in Slots |-> req'[t]]
      /\ req'[s] = ReqIdle
      /\ \A t \in Slots \ {s} : req[t] = ReqIdle => req'[t] = ReqIdle
      /\ \A t \in Slots \ {s} : req[t] # ReqIdle => req'[t] = more(t)
  BY DEF Acknowledge, more
<1>5. TypeOK'
  <2>1. ASSUME NEW t \in Slots PROVE req'[t] \in Saving \cup Parsing \cup {ReqIdle}
    <3>1. CASE t = s \/ req[t] = ReqIdle BY <1>4, <3>1
    <3>2. CASE t # s /\ req[t] # ReqIdle
      <4>1. req[t].pc \in Busy BY <3>2, RequestKinds DEF PrefInv, TypeOK
      <4> QED BY <1>3, <1>4, <3>2, <4>1
    <3> QED BY <3>1, <3>2
  <2> QED BY <1>2, <1>4, <2>1 DEF TypeOK
<1>6. pref' # NoRow BY NoRowIsNoRow
<1>7. AckedColumnsStand' BY <1>2, <1>6 DEF AckedColumnsStand
<1>8. ASSUME NEW t \in Slots, req'[t].pc \in Busy, req'[t].found # NoRow
      PROVE  /\ pref'.budget \in {req'[t].found.budget} \cup req'[t].since.budget
             /\ pref'.likes \in {req'[t].found.likes} \cup req'[t].since.likes
  <2>1. t # s /\ req[t] # ReqIdle BY <1>4, <1>8 DEF ReqIdle, Busy
  <2>2. req[t].pc \in Busy BY <2>1, RequestKinds DEF PrefInv, TypeOK
  <2>3. /\ req'[t].found = req[t].found
        /\ req'[t].since.budget = AlsoSince(req[t].since.budget, b)
        /\ req'[t].since.likes = AlsoSince(req[t].since.likes, l)
    BY <1>3, <1>4, <2>1, <2>2
  <2>4. /\ pref # NoRow
        /\ pref.budget \in {req[t].found.budget} \cup req[t].since.budget
        /\ pref.likes \in {req[t].found.likes} \cup req[t].since.likes
    BY <1>8, <2>2, <2>3 DEF PrefInv, FoundOrSince
  <2> QED BY <2>3, <2>4 DEF AlsoSince
<1> QED BY <1>5, <1>6, <1>7, <1>8 DEF PrefInv, FoundOrSince

\* A write of some columns of the row loaded, by the unit of work.
LEMMA FlushStep ==
    ASSUME PrefInv, NEW s \in Slots, req[s].pc \in Busy, req[s].found # NoRow,
           NEW b \in {Absent} \cup Scalars, NEW l \in {Absent} \cup Lists,
           pref' = Flushed(pref, req[s].found, b, l), Acknowledge(s, b, l)
    PROVE  PrefInv'
<1>1. /\ pref \in Row /\ req[s].found \in Row
      /\ pref.budget \in Scalars /\ pref.likes \in Lists
      /\ pref.budget \in {req[s].found.budget} \cup req[s].since.budget
      /\ pref.likes \in {req[s].found.likes} \cup req[s].since.likes
  <2>1. pref \in Row /\ req[s].found \in Row
    BY BusyType DEF PrefInv, FoundOrSince, TypeOK
  <2> QED BY <2>1 DEF PrefInv, FoundOrSince, Row
<1>2. pref.budget \in stand.budget /\ pref.likes \in stand.likes
  BY <1>1, NoRowIsNoRow DEF PrefInv, AckedColumnsStand
<1>3. /\ pref'.budget = IF b = Absent \/ b = req[s].found.budget THEN pref.budget ELSE b
      /\ pref'.likes = IF l = Absent \/ l = req[s].found.likes THEN pref.likes ELSE l
  BY DEF Flushed
<1>4. pref' \in Row BY <1>1 DEF Flushed, Row
<1>5. pref'.budget \in Stands(stand.budget, req[s].since.budget, b)
  BY <1>1, <1>2, <1>3, ColumnStands
<1>6. pref'.likes \in Stands(stand.likes, req[s].since.likes, l)
  BY <1>1, <1>2, <1>3, ColumnStands
<1>7. /\ pref'.budget = pref.budget \/ (b # Absent /\ pref'.budget = b)
      /\ pref'.likes = pref.likes \/ (l # Absent /\ pref'.likes = l)
  BY <1>3
<1> QED BY <1>4, <1>5, <1>6, <1>7, AcknowledgeStep

\* The first row of a member, all of whose columns are written.
LEMMA InsertStep ==
    ASSUME PrefInv, NEW s \in Slots, req[s].pc \in Busy, pref = NoRow,
           NEW b \in Scalars, NEW l \in Lists,
           pref' = [budget |-> b, likes |-> l], Acknowledge(s, b, l)
    PROVE  PrefInv'
<1>1. pref' \in Row /\ pref'.budget = b /\ pref'.likes = l BY DEF Row
<1>2. /\ b \in Stands(stand.budget, req[s].since.budget, b)
      /\ l \in Stands(stand.likes, req[s].since.likes, l)
  BY AbsentIsNoValue DEF Stands
<1> QED BY <1>1, <1>2, AcknowledgeStep

LEMMA AbandonStep ==
    ASSUME PrefInv, NEW s \in Slots, Abandon(s)
    PROVE  PrefInv'
<1>1. /\ req'[s] = ReqIdle /\ \A t \in Slots \ {s} : req'[t] = req[t]
      /\ UNCHANGED <<pref, stand>>
  BY DEF Abandon, PrefInv, TypeOK
<1>2. TypeOK' BY DEF Abandon, PrefInv, TypeOK
<1>3. AckedColumnsStand' BY <1>1 DEF PrefInv, AckedColumnsStand
<1>4. FoundOrSince' BY <1>1 DEF PrefInv, FoundOrSince, ReqIdle, Busy
<1> QED BY <1>2, <1>3, <1>4 DEF PrefInv

\* A request that has just loaded the row.
LEMMA LoadStep ==
    ASSUME PrefInv, NEW s \in Slots, NEW r \in Saving \cup Parsing,
           r.found = pref, req' = [req EXCEPT ![s] = r], UNCHANGED <<pref, stand>>
    PROVE  PrefInv'
<1>1. req'[s] = r /\ \A t \in Slots \ {s} : req'[t] = req[t]
  BY DEF PrefInv, TypeOK
<1>2. TypeOK' BY DEF PrefInv, TypeOK
<1>3. AckedColumnsStand' BY DEF PrefInv, AckedColumnsStand
<1>4. FoundOrSince' BY <1>1 DEF PrefInv, FoundOrSince
<1> QED BY <1>2, <1>3, <1>4 DEF PrefInv

LEMMA PayloadType ==
    ASSUME TypeOK, NEW s \in Slots, req[s].pc = "saving"
    PROVE  /\ req[s].payload.budget \in {Absent} \cup Scalars
           /\ req[s].payload.likes \in {Absent} \cup Lists
<1>1. req[s] \in Saving BY RequestKinds DEF TypeOK
<1> QED BY <1>1 DEF Saving, Payload

LEMMA PrefInit == Init => PrefInv
BY DEF Init, PrefInv, TypeOK, AckedColumnsStand, FoundOrSince, ReqIdle, Busy,
       Nothing, Columns

LEMMA PrefStep == PrefInv /\ [Next]_vars => PrefInv'
<1> SUFFICES ASSUME PrefInv, [Next]_vars PROVE PrefInv'
  OBVIOUS
<1>1. ASSUME NEW s \in Slots, NEW payload \in Payload, SaveLoad(s, payload)
      PROVE  PrefInv'
  <2> DEFINE r == [pc |-> "saving", found |-> pref, payload |-> payload,
                   since |-> Nothing]
  <2>1. r \in Saving /\ r.found = pref
    BY DEF Saving, Nothing, Columns, PrefInv, TypeOK
  <2>2. req' = [req EXCEPT ![s] = r] /\ UNCHANGED <<pref, stand>>
    BY <1>1 DEF SaveLoad
  <2> HIDE DEF r
  <2> QED BY <2>1, <2>2, LoadStep
<1>2. ASSUME NEW s \in Slots, ParseLoad(s) PROVE PrefInv'
  <2> DEFINE r == [pc |-> "parsing", found |-> pref, since |-> Nothing]
  <2>1. r \in Parsing /\ r.found = pref
    BY DEF Parsing, Nothing, Columns, PrefInv, TypeOK
  <2>2. req' = [req EXCEPT ![s] = r] /\ UNCHANGED <<pref, stand>>
    BY <1>2 DEF ParseLoad
  <2> HIDE DEF r
  <2> QED BY <2>1, <2>2, LoadStep
<1>3. ASSUME NEW s \in Slots, SaveInsert(s) PROVE PrefInv'
  <2> DEFINE p == req[s].payload
             b == IF p.budget = Absent THEN Null ELSE p.budget
             l == IF p.likes = Absent THEN {} ELSE p.likes
  <2>1. b \in Scalars /\ l \in Lists
    BY <1>3, PayloadType DEF SaveInsert, PrefInv, Scalars, Lists
  <2>2. req[s].pc \in Busy BY <1>3 DEF SaveInsert, Busy
  <2>3. CASE pref # NoRow BY <1>3, <2>3, AbandonStep DEF SaveInsert
  <2>4. CASE pref = NoRow
    <3>1. pref' = [budget |-> b, likes |-> l] /\ Acknowledge(s, b, l)
      BY <1>3, <2>4 DEF SaveInsert
    <3> HIDE DEF b, l
    <3> QED BY <2>1, <2>2, <2>4, <3>1, InsertStep
  <2> QED BY <2>3, <2>4
<1>4. ASSUME NEW s \in Slots, SaveUpdate(s) PROVE PrefInv'
  BY <1>4, PayloadType, FlushStep DEF SaveUpdate, Busy, PrefInv
<1>5. ASSUME NEW s \in Slots, ParseFails(s) PROVE PrefInv'
  BY <1>5, AbandonStep DEF ParseFails
<1>6. ASSUME NEW s \in Slots, NEW budget \in Scalars, NEW likes \in Lists,
             ParseFinish(s, budget, likes)
      PROVE  PrefInv'
  <2> DEFINE found == IF req[s].found = NoRow THEN EmptyRow ELSE req[s].found
             new == Inferred(found, budget, likes)
  <2>1. req[s].pc \in Busy BY <1>6 DEF ParseFinish, Busy
  <2>2. found \in Row
    BY <2>1, BusyType DEF PrefInv, EmptyRow, Row, Scalars, Lists
  <2>3. new.budget \in {Absent} \cup Scalars /\ new.likes \in Lists
    BY <2>2 DEF Inferred, Row, Lists
  <2>4. CASE req[s].found = NoRow /\ pref # NoRow
    BY <1>6, <2>4, AbandonStep DEF ParseFinish
  <2>5. CASE req[s].found = NoRow /\ pref = NoRow
    <3>1. /\ pref' = [budget |-> budget, likes |-> new.likes]
          /\ Acknowledge(s, budget, new.likes)
      BY <1>6, <2>5 DEF ParseFinish
    <3> HIDE DEF new
    <3> QED BY <2>1, <2>3, <2>5, <3>1, InsertStep
  <2>6. CASE req[s].found # NoRow
    <3>1. /\ pref' = Flushed(pref, req[s].found, new.budget, new.likes)
          /\ Acknowledge(s, new.budget, new.likes)
      BY <1>6, <2>6 DEF ParseFinish
    <3> HIDE DEF new
    <3> QED BY <2>1, <2>3, <2>6, <3>1, FlushStep
  <2> QED BY <2>4, <2>5, <2>6
<1>7. CASE UNCHANGED vars
  BY <1>7 DEF vars, PrefInv, TypeOK, AckedColumnsStand, FoundOrSince
<1> QED BY <1>1, <1>2, <1>3, <1>4, <1>5, <1>6, <1>7 DEF Next

LEMMA PrefHold == Spec => []PrefInv
BY PrefInit, PrefStep, PTL DEF Spec

\* Every variable keeps its type; in particular a flush never leaves a row
\* with a column that no request can state.
THEOREM TypeCorrect == Spec => []TypeOK
<1>1. PrefInv => TypeOK BY DEF PrefInv
<1> QED BY <1>1, PrefHold, PTL

\* put_my_preferences and parse_my_preferences: what a column holds was asked
\* for by an acknowledged request that no later one supersedes.
THEOREM ColumnsAreTheAcknowledged == Spec => []AckedColumnsStand
<1>1. PrefInv => AckedColumnsStand BY DEF PrefInv
<1> QED BY <1>1, PrefHold, PTL
=============================================================================

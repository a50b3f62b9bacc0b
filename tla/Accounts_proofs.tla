--------------------------- MODULE Accounts_proofs ---------------------------
(***************************************************************************)
(* Proofs about Accounts, for any emails, persons, names, ids and slots.   *)
(*                                                                         *)
(*   TypeOK     the type invariant;                                        *)
(*   KeysInv    rows, inserts and the requests that loaded a row agree on  *)
(*              what exists, so that an insert in flight owns its key;     *)
(*   TokenInv   a token's account exists and has its holder's password;    *)
(*   ScrubInv   what a deletion has cleared nobody is about to write.      *)
(***************************************************************************)
EXTENDS Accounts, FiniteSetTheorems, TLAPS

Request == {Idle} \cup Registering \cup Inserted \cup Loaded

LEMMA RowIsRow ==
    ASSUME NEW r \in Row
    PROVE  r # NoRow
BY DEF Row, NoRow

\* What Flushed makes of a row, column by column.
LEMMA FlushedRow ==
    ASSUME NEW row \in Row, NEW seen \in Row, NEW new \in Row
    PROVE  /\ Flushed(row, seen, new) \in Row
           /\ \A c \in {"email", "password", "name", "avatar", "deleted"} :
                 Flushed(row, seen, new)[c] =
                    IF new[c] = seen[c] THEN row[c] ELSE new[c]
<1> DEFINE F == Flushed(row, seen, new)
<1>1. DOMAIN row = {"email", "password", "name", "avatar", "deleted"}
  BY DEF Row
<1>2. F = [c \in {"email", "password", "name", "avatar", "deleted"} |->
             IF new[c] = seen[c] THEN row[c] ELSE new[c]]
  BY <1>1 DEF Flushed
<1>3. F = [email |-> F.email, password |-> F.password, name |-> F.name,
           avatar |-> F.avatar, deleted |-> F.deleted]
  BY <1>2
<1>4. /\ F.email \in Emails \cup {None} /\ F.password \in Persons
      /\ F.name \in Names \cup {None} /\ F.avatar \in BOOLEAN
      /\ F.deleted \in BOOLEAN
  BY <1>2 DEF Row
<1>5. F \in Row
  BY <1>3, <1>4 DEF Row
<1> QED BY <1>2, <1>5

\* Which record a request in the slot is.
LEMMA RequestKinds ==
    ASSUME NEW r \in Request
    PROVE  /\ r.pc \in {"idle", "asked", "free", "flushed", "patch", "delete"}
           /\ r.pc = "idle" => r = Idle
           /\ r.pc \in {"asked", "free"} => r \in Registering
           /\ r.pc = "flushed" => r \in Inserted
           /\ r.pc \in {"patch", "delete"} => r \in Loaded
BY DEF Request, Idle, Registering, Inserted, Loaded

LEMMA IdleRequest == Idle \in Request
BY DEF Request

\* The two writers of a profile: what they make of a row, given what they
\* had loaded of it.
LEMMA PatchedRow ==
    ASSUME NEW row \in Row, NEW seen \in Row, seen.email # None, ~seen.deleted,
           NEW name \in Names \cup {seen.name}, NEW avatar \in BOOLEAN
    PROVE  LET new == [seen EXCEPT !.name = name, !.avatar = avatar]
               r == Flushed(row, seen, new)
           IN  /\ r \in Row
               /\ r.email = row.email /\ r.deleted = row.deleted
               /\ r.password = row.password
<1> DEFINE new == [seen EXCEPT !.name = name, !.avatar = avatar]
<1>1. /\ new \in Row /\ new.email = seen.email /\ new.password = seen.password
      /\ new.deleted = seen.deleted
  BY DEF Row
<1> HIDE DEF new
<1>2. Flushed(row, seen, new) \in Row
  BY <1>1, FlushedRow
<1>3. \A c \in {"email", "password", "name", "avatar", "deleted"} :
         Flushed(row, seen, new)[c] = IF new[c] = seen[c] THEN row[c] ELSE new[c]
  BY <1>1, FlushedRow
<1>4. /\ Flushed(row, seen, new).email = row.email
      /\ Flushed(row, seen, new).deleted = row.deleted
      /\ Flushed(row, seen, new).password = row.password
  BY <1>1, <1>3
<1> QED BY <1>2, <1>4 DEF new

LEMMA DeletedRow ==
    ASSUME NEW row \in Row, NEW seen \in Row, seen.email # None, ~seen.deleted
    PROVE  LET r == Flushed(row, seen, Scrubbed(seen))
           IN  /\ r \in Row
               /\ r.email = None /\ r.deleted
               /\ r.password = row.password
               /\ r.name = IF seen.name = None THEN row.name ELSE None
               /\ r.avatar = IF seen.avatar THEN FALSE ELSE row.avatar
<1> DEFINE new == Scrubbed(seen)
<1>1. /\ new \in Row /\ new.email = None /\ new.password = seen.password
      /\ new.deleted = TRUE /\ new.name = None /\ new.avatar = FALSE
      /\ seen.avatar \in BOOLEAN /\ row.avatar \in BOOLEAN
      /\ seen.deleted \in BOOLEAN
  BY DEF Row, Scrubbed
<1> HIDE DEF new
<1>2. Flushed(row, seen, new) \in Row
  BY <1>1, FlushedRow
<1>3. \A c \in {"email", "password", "name", "avatar", "deleted"} :
         Flushed(row, seen, new)[c] = IF new[c] = seen[c] THEN row[c] ELSE new[c]
  BY <1>1, FlushedRow
<1>4. /\ Flushed(row, seen, new).email = None
      /\ Flushed(row, seen, new).deleted
      /\ Flushed(row, seen, new).password = row.password
      /\ Flushed(row, seen, new).name = IF seen.name = None THEN row.name ELSE None
      /\ Flushed(row, seen, new).avatar = IF seen.avatar THEN FALSE ELSE row.avatar
  BY <1>1, <1>3
<1> QED BY <1>2, <1>4 DEF new

----------------------------------------------------------------------------
(* The type invariant, with the invariant on keys it needs: a profile      *)
(* request has loaded a row that exists, and an insert in flight is the    *)
(* only one of its id and of its email, which no row has.                  *)

LoadInv ==
    \A s \in Slots : req[s].pc \in {"patch", "delete"} =>
        /\ users[req[s].id] # NoRow
        /\ req[s].seen.email # None /\ ~req[s].seen.deleted

RowInv ==
    \A u \in Ids : users[u].deleted <=> users[u].email = None

FlushInv ==
    \A s \in Slots : req[s].pc = "flushed" =>
        /\ users[req[s].id] = NoRow
        /\ req[s].row.email \in Emails /\ ~req[s].row.deleted
        /\ \A u \in Ids : users[u].email # req[s].row.email
        /\ \A t \in Slots : t # s /\ req[t].pc = "flushed" =>
              req[t].id # req[s].id /\ req[t].row.email # req[s].row.email

UniqueInv ==
    \A u, v \in Ids : users[u].email = users[v].email /\ users[u].email \in Emails
                        => u = v

KeysInv == TypeOK /\ LoadInv /\ RowInv /\ FlushInv /\ UniqueInv

\* A request that leaves the users table alone.
LEMMA FreeStep ==
    ASSUME KeysInv, NEW s \in Slots, NEW r \in Request, r.pc \in {"idle", "asked", "free"},
           req' = [req EXCEPT ![s] = r], users' = users, overlapped' = overlapped,
           access' \subseteq Persons \X Ids, refresh' \subseteq Persons \X Ids
    PROVE  KeysInv'
<1>1. TypeOK'
  BY DEF KeysInv, TypeOK, Request
<1>2. /\ \A t \in Slots : t # s => req'[t] = req[t]
      /\ req'[s].pc \in {"idle", "asked", "free"}
  BY DEF KeysInv, TypeOK
<1>3. LoadInv' BY <1>2 DEF KeysInv, LoadInv
<1>4. FlushInv' BY <1>2 DEF KeysInv, FlushInv
<1>5. RowInv' /\ UniqueInv' BY DEF KeysInv, RowInv, UniqueInv
<1> QED BY <1>1, <1>3, <1>4, <1>5 DEF KeysInv

\* A request that writes row r over row u of the users table and ends.
LEMMA WriteStep ==
    ASSUME KeysInv, NEW s \in Slots, NEW u \in Ids, NEW r \in Row,
           users[u] # NoRow,
           r.deleted <=> r.email = None,
           r.email \in {users[u].email, None},
           req' = [req EXCEPT ![s] = Idle], users' = [users EXCEPT ![u] = r],
           overlapped' \subseteq Ids, access' = access, refresh' = refresh
    PROVE  KeysInv'
<1>1. TypeOK'
  BY DEF KeysInv, TypeOK
<1>2. /\ \A t \in Slots : t # s => req'[t] = req[t]
      /\ req'[s].pc = "idle"
      /\ \A v \in Ids : v # u => users'[v] = users[v]
      /\ users'[u] = r /\ r # NoRow
  BY RowIsRow DEF KeysInv, TypeOK, Idle
<1>3. LoadInv'
  <2> SUFFICES ASSUME NEW t \in Slots, req'[t].pc \in {"patch", "delete"}
               PROVE  /\ users'[req'[t].id] # NoRow
                      /\ req'[t].seen.email # None /\ ~req'[t].seen.deleted
    BY DEF LoadInv
  <2>1. t # s /\ req'[t] = req[t] BY <1>2
  <2>2. req[t].id \in Ids
    BY <2>1, RequestKinds DEF KeysInv, TypeOK, Loaded, Request
  <2> QED BY <1>2, <2>1, <2>2 DEF KeysInv, LoadInv
<1>4. FlushInv'
  <2> SUFFICES ASSUME NEW t \in Slots, req'[t].pc = "flushed"
               PROVE  /\ users'[req'[t].id] = NoRow
                      /\ req'[t].row.email \in Emails /\ ~req'[t].row.deleted
                      /\ \A v \in Ids : users'[v].email # req'[t].row.email
                      /\ \A w \in Slots : w # t /\ req'[w].pc = "flushed" =>
                            req'[w].id # req'[t].id /\ req'[w].row.email # req'[t].row.email
    BY DEF FlushInv
  <2>1. t # s /\ req'[t] = req[t] BY <1>2
  <2>2. req[t].id \in Ids
    BY <2>1, RequestKinds DEF KeysInv, TypeOK, Inserted, Request
  <2>3. users[req[t].id] = NoRow /\ req[t].row.email \in Emails /\ ~req[t].row.deleted
    BY <2>1 DEF KeysInv, FlushInv
  <2>4. req[t].id # u BY <2>3
  <2>5. \A v \in Ids : users'[v].email # req'[t].row.email
    BY <1>2, <2>1, <2>3, NoneAssumption DEF KeysInv, FlushInv
  <2>6. \A w \in Slots : w # t /\ req'[w].pc = "flushed" =>
            req'[w].id # req'[t].id /\ req'[w].row.email # req'[t].row.email
    BY <1>2, <2>1 DEF KeysInv, FlushInv
  <2> QED BY <1>2, <2>1, <2>2, <2>3, <2>4, <2>5, <2>6
<1>5. RowInv'
  BY <1>2 DEF KeysInv, RowInv
<1>6. UniqueInv'
  BY <1>2, NoneAssumption DEF KeysInv, UniqueInv
<1> QED BY <1>1, <1>3, <1>4, <1>5, <1>6 DEF KeysInv

LEMMA RegisterStep ==
    ASSUME KeysInv, NEW s \in Slots, NEW e \in Emails, NEW p \in Persons,
           Register(s, e, p)
    PROVE  KeysInv'
<1> DEFINE r == [pc |-> "asked", email |-> e, who |-> p]
<1>1. r \in Request /\ r.pc = "asked" BY DEF Request, Registering
<1>2. req' = [req EXCEPT ![s] = r] BY DEF Register
<1>3. UNCHANGED <<users, access, refresh, overlapped>> BY DEF Register
<1> HIDE DEF r
<1> QED BY <1>1, <1>2, <1>3, FreeStep DEF KeysInv, TypeOK

LEMMA EndStep ==
    ASSUME KeysInv, NEW s \in Slots, End(s),
           UNCHANGED <<users, access, refresh, overlapped>>
    PROVE  KeysInv'
<1>1. Idle \in Request /\ Idle.pc = "idle" BY DEF Request, Idle
<1> QED BY <1>1, FreeStep DEF End, KeysInv, TypeOK

LEMMA EmailExistsStep ==
    ASSUME KeysInv, NEW s \in Slots, EmailExists(s)
    PROVE  KeysInv'
<1>1. CASE Having(req[s].email) # {}
  BY <1>1, EndStep DEF EmailExists, Refuse
<1>2. CASE Having(req[s].email) = {}
  <2> DEFINE r == [req[s] EXCEPT !.pc = "free"]
  <2>1. req[s] \in Registering
    BY RequestKinds DEF EmailExists, KeysInv, TypeOK, Request
  <2>2. r \in Request /\ r.pc = "free" BY <2>1 DEF Request, Registering
  <2>3. req' = [req EXCEPT ![s] = r] /\ UNCHANGED <<users, access, refresh, overlapped>>
    BY <1>2 DEF EmailExists
  <2> HIDE DEF r
  <2> QED BY <2>2, <2>3, FreeStep DEF KeysInv, TypeOK
<1> QED BY <1>1, <1>2

LEMMA InsertStep ==
    ASSUME KeysInv, NEW s \in Slots, req[s].pc = "free",
           ~Inserting(req[s].email), Having(req[s].email) = {},
           NEW u \in Ids, NEW name \in Names, NEW avatar \in BOOLEAN,
           Insert(s, u, name, avatar)
    PROVE  KeysInv'
<1> DEFINE e == req[s].email
           row == [email |-> e, password |-> req[s].who, name |-> name,
                   avatar |-> avatar, deleted |-> FALSE]
           r == [pc |-> "flushed", id |-> u, row |-> row]
<1>1. req[s] \in Registering
  BY RequestKinds DEF KeysInv, TypeOK, Request
<1>2. e \in Emails /\ req[s].who \in Persons
  BY <1>1 DEF Registering
<1>3. row \in Row /\ row.email = e /\ ~row.deleted
  BY <1>2 DEF Row
<1>4. req' = [req EXCEPT ![s] = r] /\ UNCHANGED <<users, access, refresh, overlapped>>
  BY DEF Insert
<1>5. /\ users[u] = NoRow
      /\ \A t \in Slots : req[t].pc = "flushed" => req[t].id # u
  BY DEF Insert, Fresh
<1>6. \A v \in Ids : users[v].email # e
  BY DEF Having
<1>7. \A t \in Slots : req[t].pc = "flushed" => req[t].row.email # e
  BY DEF Inserting
<1> HIDE DEF e, row
<1>8. r \in Request /\ r.pc = "flushed" /\ r.id = u /\ r.row = row
  BY <1>3 DEF Request, Inserted
<1> HIDE DEF r
<1>9. TypeOK'
  BY <1>4, <1>8 DEF KeysInv, TypeOK, Request
<1>10. /\ \A t \in Slots : t # s => req'[t] = req[t]
       /\ req'[s] = r
  BY <1>4 DEF KeysInv, TypeOK
<1>11. LoadInv' BY <1>4, <1>8, <1>10 DEF KeysInv, LoadInv
<1>12. FlushInv'
  BY <1>2, <1>3, <1>4, <1>5, <1>6, <1>7, <1>8, <1>10 DEF KeysInv, FlushInv
<1>13. RowInv' /\ UniqueInv' BY <1>4 DEF KeysInv, RowInv, UniqueInv
<1> QED BY <1>9, <1>11, <1>12, <1>13 DEF KeysInv

LEMMA CreateUserStep ==
    ASSUME KeysInv, NEW s \in Slots, CreateUser(s)
    PROVE  KeysInv'
<1>1. CASE Having(req[s].email) # {}
  BY <1>1, EndStep DEF CreateUser, Refuse
<1>2. CASE Having(req[s].email) = {}
  <2>1. PICK u \in Ids, name \in Names, avatar \in BOOLEAN : Insert(s, u, name, avatar)
    BY <1>2 DEF CreateUser
  <2> QED BY <1>2, <2>1, InsertStep DEF CreateUser
<1> QED BY <1>1, <1>2

LEMMA RegisteredStep ==
    ASSUME KeysInv, NEW s \in Slots, Registered(s)
    PROVE  KeysInv'
<1> DEFINE u == req[s].id
           r == req[s].row
<1>1. u \in Ids /\ r \in Row
  BY RequestKinds DEF Registered, KeysInv, TypeOK, Request, Inserted
<1>2. /\ users[u] = NoRow /\ r.email \in Emails /\ ~r.deleted
      /\ \A v \in Ids : users[v].email # r.email
      /\ \A t \in Slots : t # s /\ req[t].pc = "flushed" =>
            req[t].id # u /\ req[t].row.email # r.email
  BY DEF Registered, KeysInv, FlushInv
<1>3. r.password \in Persons BY <1>1 DEF Row
<1>4. /\ users' = [users EXCEPT ![u] = r]
      /\ access' = access \cup {<<r.password, u>>}
      /\ refresh' = refresh \cup {<<r.password, u>>}
      /\ req' = [req EXCEPT ![s] = Idle]
      /\ UNCHANGED overlapped
  BY DEF Registered, Issue, End
<1> HIDE DEF u, r
<1>5. TypeOK'
  BY <1>1, <1>3, <1>4 DEF KeysInv, TypeOK
<1>6. /\ \A t \in Slots : t # s => req'[t] = req[t]
      /\ req'[s].pc = "idle"
      /\ \A v \in Ids : v # u => users'[v] = users[v]
      /\ users'[u] = r /\ r # NoRow
  BY <1>1, <1>4, RowIsRow DEF KeysInv, TypeOK, Idle
<1>7. LoadInv'
  <2> SUFFICES ASSUME NEW t \in Slots, req'[t].pc \in {"patch", "delete"}
               PROVE  /\ users'[req'[t].id] # NoRow
                      /\ req'[t].seen.email # None /\ ~req'[t].seen.deleted
    BY DEF LoadInv
  <2>1. t # s /\ req'[t] = req[t] BY <1>6
  <2>2. req[t].id \in Ids
    BY <2>1, RequestKinds DEF KeysInv, TypeOK, Loaded, Request
  <2> QED BY <1>6, <2>1, <2>2 DEF KeysInv, LoadInv
<1>8. FlushInv'
  <2> SUFFICES ASSUME NEW t \in Slots, req'[t].pc = "flushed"
               PROVE  /\ users'[req'[t].id] = NoRow
                      /\ req'[t].row.email \in Emails /\ ~req'[t].row.deleted
                      /\ \A v \in Ids : users'[v].email # req'[t].row.email
                      /\ \A w \in Slots : w # t /\ req'[w].pc = "flushed" =>
                            req'[w].id # req'[t].id /\ req'[w].row.email # req'[t].row.email
    BY DEF FlushInv
  <2>1. t # s /\ req'[t] = req[t] BY <1>6
  <2>2. req[t].id \in Ids
    BY <2>1, RequestKinds DEF KeysInv, TypeOK, Inserted, Request
  <2>3. users[req[t].id] = NoRow /\ req[t].row.email \in Emails /\ ~req[t].row.deleted
    BY <2>1 DEF KeysInv, FlushInv
  <2>4. req[t].id # u /\ req[t].row.email # r.email BY <1>2, <2>1
  <2>5. \A v \in Ids : users'[v].email # req'[t].row.email
    BY <1>6, <2>1, <2>4 DEF KeysInv, FlushInv
  <2>6. \A w \in Slots : w # t /\ req'[w].pc = "flushed" =>
            req'[w].id # req'[t].id /\ req'[w].row.email # req'[t].row.email
    BY <1>6, <2>1 DEF KeysInv, FlushInv
  <2> QED BY <1>6, <2>1, <2>2, <2>3, <2>4, <2>5, <2>6
<1>9. RowInv'
  BY <1>2, <1>6, NoneAssumption DEF KeysInv, RowInv
<1>10. UniqueInv'
  BY <1>2, <1>6 DEF KeysInv, UniqueInv
<1> QED BY <1>5, <1>7, <1>8, <1>9, <1>10 DEF KeysInv

LEMMA LoadStep ==
    ASSUME KeysInv, NEW s \in Slots, NEW t \in access, NEW op \in {"patch", "delete"},
           Load(s, t, op)
    PROVE  KeysInv'
<1> DEFINE u == t[2]
           r == [pc |-> op, id |-> u, seen |-> users[u]]
<1>1. u \in Ids BY DEF KeysInv, TypeOK
<1>2. ~users[u].deleted BY DEF Load, Authorized
<1>3. users[u] # NoRow BY <1>2 DEF NoRow
<1>4. users[u] \in Row /\ users[u].email # None
  BY <1>1, <1>2, <1>3 DEF KeysInv, TypeOK, RowInv
<1>5. req' = [req EXCEPT ![s] = r] /\ UNCHANGED <<users, access, refresh, overlapped>>
  BY DEF Load
<1> HIDE DEF u
<1>6. r \in Request /\ r.pc = op /\ r.id = u /\ r.seen = users[u]
  BY <1>1, <1>4 DEF Request, Loaded
<1> HIDE DEF r
<1>7. TypeOK' BY <1>5, <1>6 DEF KeysInv, TypeOK, Request
<1>8. /\ \A w \in Slots : w # s => req'[w] = req[w]
      /\ req'[s] = r
  BY <1>5 DEF KeysInv, TypeOK
<1>9. LoadInv' BY <1>2, <1>3, <1>4, <1>5, <1>6, <1>8 DEF KeysInv, LoadInv
<1>10. FlushInv' BY <1>5, <1>6, <1>8 DEF KeysInv, FlushInv
<1>11. RowInv' /\ UniqueInv' BY <1>5 DEF KeysInv, RowInv, UniqueInv
<1> QED BY <1>7, <1>9, <1>10, <1>11 DEF KeysInv

\* What a profile request has loaded and what it finds when it writes.
LEMMA LoadedTypes ==
    ASSUME KeysInv, NEW s \in Slots, req[s].pc \in {"patch", "delete"}
    PROVE  /\ req[s].id \in Ids /\ users[req[s].id] \in Row /\ req[s].seen \in Row
           /\ users[req[s].id] # NoRow
           /\ req[s].seen.email # None /\ ~req[s].seen.deleted
<1>1. req[s] \in Loaded
  BY RequestKinds DEF KeysInv, TypeOK, Request
<1>2. req[s].id \in Ids /\ req[s].seen \in Row BY <1>1 DEF Loaded
<1> QED BY <1>2 DEF KeysInv, TypeOK, LoadInv

\* A profile request writes one row, whose password stays.
LEMMA ProfileWrite ==
    ASSUME KeysInv, NEW s \in Slots, PatchMe(s) \/ DeleteMe(s)
    PROVE  LET u == req[s].id IN
           \E r \in Row :
              /\ users' = [users EXCEPT ![u] = r]
              /\ r.password = users[u].password
              /\ r.deleted <=> r.email = None
              /\ r.email \in {users[u].email, None}
              /\ req' = [req EXCEPT ![s] = Idle]
              /\ access' = access /\ refresh' = refresh /\ overlapped' \subseteq Ids
<1> DEFINE u == req[s].id
           seen == req[s].seen
<1>1. req[s].pc \in {"patch", "delete"} BY DEF PatchMe, DeleteMe
<1>2. /\ u \in Ids /\ users[u] \in Row /\ seen \in Row
      /\ seen.email # None /\ ~seen.deleted
  BY <1>1, LoadedTypes
<1>3. overlapped \cup {req[t].id : t \in {t \in Slots : /\ req[t].pc \in {"patch", "delete"}
                                                       /\ req[t].pc # req[s].pc
                                                       /\ req[t].id = u}} \subseteq Ids
  BY <1>2 DEF KeysInv, TypeOK
<1>4. users[u].deleted <=> users[u].email = None
  BY <1>2 DEF KeysInv, RowInv
<1>5. CASE PatchMe(s)
  <2>1. PICK name \in Names \cup {seen.name}, avatar \in BOOLEAN :
           Write(s, [seen EXCEPT !.name = name, !.avatar = avatar])
    BY <1>5 DEF PatchMe
  <2> DEFINE r == Flushed(users[u], seen, [seen EXCEPT !.name = name, !.avatar = avatar])
  <2>2. /\ r \in Row /\ r.email = users[u].email /\ r.deleted = users[u].deleted
        /\ r.password = users[u].password
    BY <1>2, PatchedRow
  <2>3. users' = [users EXCEPT ![u] = r]
    BY <1>2, <2>1 DEF Write, KeysInv, TypeOK
  <2>4. /\ req' = [req EXCEPT ![s] = Idle]
        /\ access' = access /\ refresh' = refresh /\ overlapped' \subseteq Ids
    BY <1>3, <2>1 DEF Write, End
  <2> HIDE DEF r
  <2> QED BY <1>4, <2>2, <2>3, <2>4
<1>6. CASE DeleteMe(s)
  <2> DEFINE r == Flushed(users[u], seen, Scrubbed(seen))
  <2>1. r \in Row /\ r.email = None /\ r.deleted /\ r.password = users[u].password
    BY <1>2, DeletedRow
  <2>2. users' = [users EXCEPT ![u] = r]
    BY <1>2, <1>6 DEF DeleteMe, Write, KeysInv, TypeOK
  <2>3. /\ req' = [req EXCEPT ![s] = Idle]
        /\ access' = access /\ refresh' = refresh /\ overlapped' \subseteq Ids
    BY <1>3, <1>6 DEF DeleteMe, Write, End
  <2> HIDE DEF r
  <2> QED BY <2>1, <2>2, <2>3
<1> QED BY <1>5, <1>6

LEMMA ProfileStep ==
    ASSUME KeysInv, NEW s \in Slots, PatchMe(s) \/ DeleteMe(s)
    PROVE  KeysInv'
<1>1. req[s].pc \in {"patch", "delete"} BY DEF PatchMe, DeleteMe
<1>2. req[s].id \in Ids /\ users[req[s].id] # NoRow BY <1>1, LoadedTypes
<1>3. PICK r \in Row :
         /\ users' = [users EXCEPT ![req[s].id] = r]
         /\ r.deleted <=> r.email = None
         /\ r.email \in {users[req[s].id].email, None}
         /\ req' = [req EXCEPT ![s] = Idle]
         /\ access' = access /\ refresh' = refresh /\ overlapped' \subseteq Ids
  BY ProfileWrite
<1> QED BY <1>2, <1>3, WriteStep

\* The requests for tokens.
LEMMA TokenStep ==
    ASSUME KeysInv, UNCHANGED <<users, req, overlapped>>,
           access' \subseteq Persons \X Ids, refresh' \subseteq Persons \X Ids
    PROVE  KeysInv'
BY DEF KeysInv, TypeOK, LoadInv, RowInv, FlushInv, UniqueInv

LEMMA KeysInit == Init => KeysInv
<1> SUFFICES ASSUME Init PROVE KeysInv
  OBVIOUS
<1>1. TypeOK BY DEF Init, TypeOK
<1>2. \A s \in Slots : req[s].pc = "idle" BY DEF Init, Idle
<1>3. \A u \in Ids : users[u] = NoRow /\ users[u].email = None /\ users[u].deleted
  BY DEF Init, NoRow
<1>4. LoadInv /\ FlushInv BY <1>2 DEF LoadInv, FlushInv
<1>5. RowInv /\ UniqueInv BY <1>3, NoneAssumption DEF RowInv, UniqueInv
<1> QED BY <1>1, <1>4, <1>5 DEF KeysInv

LEMMA KeysStep == KeysInv /\ [Next]_vars => KeysInv'
<1> SUFFICES ASSUME KeysInv, [Next]_vars PROVE KeysInv'
  OBVIOUS
<1>1. ASSUME NEW s \in Slots, NEW e \in Emails, NEW p \in Persons, Register(s, e, p)
      PROVE  KeysInv'
  BY <1>1, RegisterStep
<1>2. ASSUME NEW s \in Slots, EmailExists(s) PROVE KeysInv'
  BY <1>2, EmailExistsStep
<1>3. ASSUME NEW s \in Slots, CreateUser(s) PROVE KeysInv'
  BY <1>3, CreateUserStep
<1>4. ASSUME NEW s \in Slots, Registered(s) PROVE KeysInv'
  BY <1>4, RegisteredStep
<1>5. ASSUME NEW s \in Slots, Lost(s) PROVE KeysInv'
  BY <1>5, EndStep DEF Lost
<1>6. ASSUME NEW s \in Slots, NEW t \in access, NEW op \in {"patch", "delete"},
             Load(s, t, op)
      PROVE  KeysInv'
  BY <1>6, LoadStep
<1>7. ASSUME NEW s \in Slots, PatchMe(s) \/ DeleteMe(s) PROVE KeysInv'
  BY <1>7, ProfileStep
<1>8. ASSUME NEW p \in Persons, NEW e \in Emails, Login(p, e) PROVE KeysInv'
  BY <1>8, TokenStep DEF Login, Issue, Having, KeysInv, TypeOK
<1>9. ASSUME NEW t \in refresh, RefreshToken(t) PROVE KeysInv'
  BY <1>9, TokenStep DEF RefreshToken, KeysInv, TypeOK
<1>10. ASSUME NEW t \in access \cup refresh, Expire(t) PROVE KeysInv'
  BY <1>10, TokenStep DEF Expire, KeysInv, TypeOK
<1>11. CASE UNCHANGED vars
  BY <1>11, TokenStep DEF vars, KeysInv, TypeOK
<1> QED
  BY <1>1, <1>2, <1>3, <1>4, <1>5, <1>6, <1>7, <1>8, <1>9, <1>10, <1>11 DEF Next

LEMMA KeysHold == Spec => []KeysInv
BY KeysInit, KeysStep, PTL DEF Spec

\* Every variable keeps its type, in particular a profile request writes a
\* whole row of the users table.
THEOREM TypeCorrect == Spec => []TypeOK
<1>1. KeysInv => TypeOK BY DEF KeysInv
<1> QED BY <1>1, KeysHold, PTL

\* However registrations, deletions and registrations again overlap, an
\* email is one account's at a time (create_user under the unique index).
THEOREM EmailsAreUnique == Spec => []OneAccountPerEmail
<1>1. KeysInv => OneAccountPerEmail
  <2> SUFFICES ASSUME KeysInv, NEW e \in Emails PROVE Cardinality(Having(e)) <= 1
    BY DEF OneAccountPerEmail
  <2>1. CASE Having(e) = {}
    BY <2>1, FS_EmptySet
  <2>2. CASE Having(e) # {}
    <3>1. PICK u \in Having(e) : TRUE BY <2>2
    <3>2. Having(e) = {u} BY <3>1 DEF Having, KeysInv, UniqueInv
    <3>3. Cardinality({u}) = 1 BY FS_Singleton
    <3> QED BY <3>2, <3>3
  <2> QED BY <2>1, <2>2
<1> QED BY <1>1, KeysHold, PTL

----------------------------------------------------------------------------
(* Tokens. *)

TokenInv ==
    \A t \in access \cup refresh : users[t[2]] # NoRow /\ users[t[2]].password = t[1]

\* Tokens issued to a person for an account of theirs, all others kept.
LEMMA IssueStep ==
    ASSUME KeysInv, TokenInv, UNCHANGED users,
           \A t \in (access' \cup refresh') \ (access \cup refresh) :
              users[t[2]] # NoRow /\ users[t[2]].password = t[1]
    PROVE  TokenInv'
BY DEF TokenInv

LEMMA TokenInvStep == KeysInv /\ TokenInv /\ [Next]_vars => TokenInv'
<1> SUFFICES ASSUME KeysInv, TokenInv, [Next]_vars PROVE TokenInv'
  OBVIOUS
<1>1. ASSUME UNCHANGED <<users, access, refresh>> PROVE TokenInv'
  BY <1>1 DEF TokenInv
<1>2. ASSUME NEW s \in Slots, Registered(s) PROVE TokenInv'
  <2> DEFINE u == req[s].id
             r == req[s].row
  <2>1. u \in Ids /\ r \in Row
    BY <1>2, RequestKinds DEF Registered, KeysInv, TypeOK, Request, Inserted
  <2>2. users[u] = NoRow BY <1>2 DEF Registered, KeysInv, FlushInv
  <2>3. users' = [users EXCEPT ![u] = r]
    BY <1>2 DEF Registered
  <2>4. access' \cup refresh' = access \cup refresh \cup {<<r.password, u>>}
    BY <1>2 DEF Registered, Issue
  <2> HIDE DEF u, r
  <2>5. users'[u] = r /\ \A v \in Ids : v # u => users'[v] = users[v]
    BY <2>1, <2>3 DEF KeysInv, TypeOK
  <2>6. r # NoRow BY <2>1, RowIsRow
  <2>7. \A t \in access \cup refresh : t[2] \in Ids /\ t[2] # u
    BY <2>2 DEF KeysInv, TypeOK, TokenInv
  <2> QED BY <2>4, <2>5, <2>6, <2>7 DEF TokenInv
<1>3. ASSUME NEW s \in Slots, PatchMe(s) \/ DeleteMe(s) PROVE TokenInv'
  <2> DEFINE u == req[s].id
  <2>1. u \in Ids
    BY <1>3, LoadedTypes DEF PatchMe, DeleteMe
  <2>2. PICK r \in Row :
           /\ users' = [users EXCEPT ![u] = r]
           /\ r.password = users[u].password
           /\ access' = access /\ refresh' = refresh
    BY <1>3, ProfileWrite
  <2> HIDE DEF u
  <2>3. users'[u] = r /\ \A v \in Ids : v # u => users'[v] = users[v]
    BY <2>1, <2>2 DEF KeysInv, TypeOK
  <2>4. r # NoRow BY RowIsRow
  <2>5. \A t \in access \cup refresh : t[2] \in Ids
    BY DEF KeysInv, TypeOK
  <2> QED BY <2>2, <2>3, <2>4, <2>5 DEF TokenInv
<1>4. ASSUME NEW p \in Persons, NEW e \in Emails, Login(p, e) PROVE TokenInv'
  <2>1. PICK u \in Ids : /\ ~users[u].deleted /\ users[u].password = p
                         /\ access' = access \cup {<<p, u>>}
                         /\ refresh' = refresh \cup {<<p, u>>}
                         /\ users' = users
    BY <1>4 DEF Login, Issue, Having
  <2>2. users[u] # NoRow BY <2>1 DEF NoRow
  <2> QED BY <2>1, <2>2, IssueStep
<1>5. ASSUME NEW t \in refresh, RefreshToken(t) PROVE TokenInv'
  BY <1>5, IssueStep DEF RefreshToken
<1>6. ASSUME NEW t \in access \cup refresh, Expire(t) PROVE TokenInv'
  BY <1>6, IssueStep DEF Expire
<1>7. ASSUME NEW s \in Slots, NEW e \in Emails, NEW p \in Persons, Register(s, e, p)
      PROVE TokenInv'
  BY <1>1, <1>7 DEF Register
<1>8. ASSUME NEW s \in Slots, EmailExists(s) \/ CreateUser(s) \/ Lost(s)
      PROVE TokenInv'
  BY <1>1, <1>8 DEF EmailExists, CreateUser, Lost, Refuse, Insert
<1>9. ASSUME NEW s \in Slots, NEW t \in access, NEW op \in {"patch", "delete"},
             Load(s, t, op)
      PROVE TokenInv'
  BY <1>1, <1>9 DEF Load
<1>10. CASE UNCHANGED vars
  BY <1>1, <1>10 DEF vars
<1> QED
  BY <1>2, <1>3, <1>4, <1>5, <1>6, <1>7, <1>8, <1>9, <1>10 DEF Next

\* A token only ever speaks for an account whose password its holder knows,
\* whatever became of the email meanwhile (issue_token_pair, decode_token).
THEOREM TokensAreTheirHolders == Spec => []TokensMatchPasswords
<1>1. Init => TokenInv BY DEF Init, TokenInv
<1>2. TokenInv => TokensMatchPasswords BY DEF TokenInv, TokensMatchPasswords
<1> QED BY <1>1, <1>2, TokenInvStep, KeysHold, PTL DEF Spec

----------------------------------------------------------------------------
(* Deletion. *)

ScrubInv ==
    /\ \A u \in Ids \ overlapped : users[u] # NoRow /\ users[u].deleted =>
          /\ users[u].name = None /\ users[u].avatar = FALSE
          /\ \A s \in Slots : ~(req[s].pc = "patch" /\ req[s].id = u)
    /\ \A s \in Slots : /\ req[s].pc = "delete"
                        /\ req[s].id \notin overlapped
                        /\ ~users[req[s].id].deleted
                        => req[s].seen = users[req[s].id]

\* A step that neither writes a row nor loads one.
LEMMA ScrubFreeStep ==
    ASSUME ScrubInv, UNCHANGED <<users, overlapped>>,
           \A s \in Slots : req'[s].pc \in {"patch", "delete"} => req'[s] = req[s]
    PROVE  ScrubInv'
BY DEF ScrubInv

LEMMA ScrubRegistered ==
    ASSUME KeysInv, ScrubInv, NEW s \in Slots, Registered(s)
    PROVE  ScrubInv'
<1> DEFINE u == req[s].id
           r == req[s].row
<1>1. u \in Ids /\ r \in Row
  BY RequestKinds DEF Registered, KeysInv, TypeOK, Request, Inserted
<1>2. users[u] = NoRow /\ ~r.deleted BY DEF Registered, KeysInv, FlushInv
<1>3. users' = [users EXCEPT ![u] = r] /\ req' = [req EXCEPT ![s] = Idle]
      /\ overlapped' = overlapped
  BY DEF Registered, End
<1> HIDE DEF u, r
<1>4. /\ users'[u] = r /\ \A v \in Ids : v # u => users'[v] = users[v]
      /\ req'[s].pc = "idle" /\ \A t \in Slots : t # s => req'[t] = req[t]
  BY <1>1, <1>3 DEF KeysInv, TypeOK, Idle
<1>5. \A t \in Slots : req[t].pc \in {"patch", "delete"} =>
         req[t].id \in Ids /\ req[t].id # u
  BY <1>2, LoadedTypes
<1> QED BY <1>2, <1>3, <1>4, <1>5 DEF ScrubInv

LEMMA ScrubLoad ==
    ASSUME KeysInv, ScrubInv, NEW s \in Slots, NEW t \in access,
           NEW op \in {"patch", "delete"}, Load(s, t, op)
    PROVE  ScrubInv'
<1> DEFINE u == t[2]
           r == [pc |-> op, id |-> u, seen |-> users[u]]
<1>1. u \in Ids /\ ~users[u].deleted BY DEF KeysInv, TypeOK, Load, Authorized
<1>2. req' = [req EXCEPT ![s] = r] /\ UNCHANGED <<users, overlapped>> BY DEF Load
<1>3. r.id = u /\ r.seen = users[u] OBVIOUS
<1> HIDE DEF u, r
<1>4. req'[s] = r /\ \A w \in Slots : w # s => req'[w] = req[w]
  BY <1>2 DEF KeysInv, TypeOK
<1> QED BY <1>1, <1>2, <1>3, <1>4 DEF ScrubInv

LEMMA ScrubPatch ==
    ASSUME KeysInv, ScrubInv, NEW s \in Slots, PatchMe(s)
    PROVE  ScrubInv'
<1> DEFINE u == req[s].id
           seen == req[s].seen
<1>1. /\ u \in Ids /\ users[u] \in Row /\ seen \in Row /\ users[u] # NoRow
      /\ seen.email # None /\ ~seen.deleted
  BY LoadedTypes DEF PatchMe
<1>2. PICK name \in Names \cup {seen.name}, avatar \in BOOLEAN :
         Write(s, [seen EXCEPT !.name = name, !.avatar = avatar])
  BY DEF PatchMe
<1> DEFINE r == Flushed(users[u], seen, [seen EXCEPT !.name = name, !.avatar = avatar])
<1>3. r.deleted = users[u].deleted
  BY <1>1, PatchedRow
<1>4. users' = [users EXCEPT ![u] = r] /\ req' = [req EXCEPT ![s] = Idle]
  BY <1>1, <1>2 DEF Write, End, KeysInv, TypeOK
<1>5. /\ overlapped \subseteq overlapped'
      /\ \A t \in Slots : req[t].pc = "delete" /\ req[t].id = u => u \in overlapped'
      /\ \A v \in overlapped' : v # u => v \in overlapped
  BY <1>2 DEF Write, PatchMe
<1>6. req[s].pc = "patch" BY DEF PatchMe
<1>7. u \notin overlapped => ~users[u].deleted
  BY <1>1, <1>6 DEF ScrubInv
<1> HIDE DEF r
<1>8. /\ users'[u] = r /\ \A v \in Ids : v # u => users'[v] = users[v]
      /\ req'[s].pc = "idle" /\ \A t \in Slots : t # s => req'[t] = req[t]
  BY <1>1, <1>4 DEF KeysInv, TypeOK, Idle
<1>9. \A t \in Slots : req[t].pc = "delete" => req[t].id \in Ids
  BY LoadedTypes
<1>10. \A v \in Ids \ overlapped' : users'[v] # NoRow /\ users'[v].deleted =>
          /\ users'[v].name = None /\ users'[v].avatar = FALSE
          /\ \A t \in Slots : ~(req'[t].pc = "patch" /\ req'[t].id = v)
  <2> SUFFICES ASSUME NEW v \in Ids \ overlapped', users'[v] # NoRow, users'[v].deleted
               PROVE  /\ users'[v].name = None /\ users'[v].avatar = FALSE
                      /\ \A t \in Slots : ~(req'[t].pc = "patch" /\ req'[t].id = v)
    OBVIOUS
  <2>1. v # u BY <1>3, <1>5, <1>7, <1>8
  <2>2. users'[v] = users[v] /\ v \notin overlapped BY <1>5, <1>8, <2>1
  <2> QED BY <1>8, <2>2 DEF ScrubInv
<1>11. \A t \in Slots : /\ req'[t].pc = "delete"
                        /\ req'[t].id \notin overlapped'
                        /\ ~users'[req'[t].id].deleted
                        => req'[t].seen = users'[req'[t].id]
  <2> SUFFICES ASSUME NEW t \in Slots, req'[t].pc = "delete",
                      req'[t].id \notin overlapped', ~users'[req'[t].id].deleted
               PROVE  req'[t].seen = users'[req'[t].id]
    OBVIOUS
  <2>1. req'[t] = req[t] BY <1>8
  <2>2. req[t].id # u /\ req[t].id \in Ids /\ req[t].id \notin overlapped
    BY <1>5, <1>9, <2>1
  <2> QED BY <1>8, <2>1, <2>2 DEF ScrubInv
<1> QED BY <1>10, <1>11 DEF ScrubInv

LEMMA ScrubDelete ==
    ASSUME KeysInv, ScrubInv, NEW s \in Slots, DeleteMe(s)
    PROVE  ScrubInv'
<1> DEFINE u == req[s].id
           seen == req[s].seen
           r == Flushed(users[u], seen, Scrubbed(seen))
<1>1. /\ u \in Ids /\ users[u] \in Row /\ seen \in Row /\ users[u] # NoRow
      /\ seen.email # None /\ ~seen.deleted
  BY LoadedTypes DEF DeleteMe
<1>2. /\ r \in Row /\ r.deleted
      /\ r.name = IF seen.name = None THEN users[u].name ELSE None
      /\ r.avatar = IF seen.avatar THEN FALSE ELSE users[u].avatar
  BY <1>1, DeletedRow
<1>3. users' = [users EXCEPT ![u] = r] /\ req' = [req EXCEPT ![s] = Idle]
  BY <1>1 DEF DeleteMe, Write, End, KeysInv, TypeOK
<1>4. /\ overlapped \subseteq overlapped'
      /\ \A t \in Slots : req[t].pc = "patch" /\ req[t].id = u => u \in overlapped'
      /\ \A v \in overlapped' : v # u => v \in overlapped
  BY DEF DeleteMe, Write
<1>5. req[s].pc = "delete" BY DEF DeleteMe
<1>6. seen.avatar \in BOOLEAN /\ users[u].avatar \in BOOLEAN BY <1>1 DEF Row
<1>7. u \notin overlapped => r.name = None /\ r.avatar = FALSE
  <2>1. CASE users[u].deleted
    BY <1>1, <1>2, <1>6, <2>1 DEF ScrubInv
  <2>2. CASE ~users[u].deleted
    <3>1. u \notin overlapped => seen = users[u] BY <1>5, <2>2 DEF ScrubInv
    <3> QED BY <1>2, <1>6, <3>1
  <2> QED BY <2>1, <2>2
<1> HIDE DEF r
<1>8. /\ users'[u] = r /\ \A v \in Ids : v # u => users'[v] = users[v]
      /\ req'[s].pc = "idle" /\ \A t \in Slots : t # s => req'[t] = req[t]
  BY <1>1, <1>3 DEF KeysInv, TypeOK, Idle
<1>9. \A t \in Slots : req[t].pc \in {"patch", "delete"} => req[t].id \in Ids
  BY LoadedTypes
<1>10. \A v \in Ids \ overlapped' : users'[v] # NoRow /\ users'[v].deleted =>
          /\ users'[v].name = None /\ users'[v].avatar = FALSE
          /\ \A t \in Slots : ~(req'[t].pc = "patch" /\ req'[t].id = v)
  <2> SUFFICES ASSUME NEW v \in Ids \ overlapped', users'[v] # NoRow, users'[v].deleted
               PROVE  /\ users'[v].name = None /\ users'[v].avatar = FALSE
                      /\ \A t \in Slots : ~(req'[t].pc = "patch" /\ req'[t].id = v)
    OBVIOUS
  <2>1. CASE v = u
    BY <1>4, <1>7, <1>8, <2>1
  <2>2. CASE v # u
    BY <1>4, <1>8, <2>2 DEF ScrubInv
  <2> QED BY <2>1, <2>2
<1>11. \A t \in Slots : /\ req'[t].pc = "delete"
                        /\ req'[t].id \notin overlapped'
                        /\ ~users'[req'[t].id].deleted
                        => req'[t].seen = users'[req'[t].id]
  <2> SUFFICES ASSUME NEW t \in Slots, req'[t].pc = "delete",
                      req'[t].id \notin overlapped', ~users'[req'[t].id].deleted
               PROVE  req'[t].seen = users'[req'[t].id]
    OBVIOUS
  <2>1. req'[t] = req[t] BY <1>8
  <2>2. req[t].id # u /\ req[t].id \in Ids /\ req[t].id \notin overlapped
    BY <1>2, <1>4, <1>8, <1>9, <2>1
  <2> QED BY <1>8, <2>1, <2>2 DEF ScrubInv
<1> QED BY <1>10, <1>11 DEF ScrubInv

LEMMA ScrubStep == KeysInv /\ ScrubInv /\ [Next]_vars => ScrubInv'
<1> SUFFICES ASSUME KeysInv, ScrubInv, [Next]_vars PROVE ScrubInv'
  OBVIOUS
<1>1. ASSUME NEW s \in Slots, NEW r, r.pc \notin {"patch", "delete"},
             req' = [req EXCEPT ![s] = r], UNCHANGED <<users, overlapped>>
      PROVE  ScrubInv'
  <2>1. \A t \in Slots : req'[t].pc \in {"patch", "delete"} => req'[t] = req[t]
    BY <1>1 DEF KeysInv, TypeOK
  <2> QED BY <1>1, <2>1, ScrubFreeStep
<1>2. ASSUME UNCHANGED <<users, req, overlapped>> PROVE ScrubInv'
  BY <1>2, ScrubFreeStep
<1>3. ASSUME NEW s \in Slots, NEW e \in Emails, NEW p \in Persons, Register(s, e, p)
      PROVE  ScrubInv'
  BY <1>1, <1>3 DEF Register
<1>4. ASSUME NEW s \in Slots, EmailExists(s) PROVE ScrubInv'
  <2>1. req[s] \in Registering
    BY <1>4, RequestKinds DEF EmailExists, KeysInv, TypeOK, Request
  <2>2. [req[s] EXCEPT !.pc = "free"].pc = "free" /\ Idle.pc = "idle"
    BY <2>1 DEF Registering, Idle
  <2> QED BY <1>1, <1>4, <2>2 DEF EmailExists, Refuse, End
<1>5. ASSUME NEW s \in Slots, CreateUser(s) PROVE ScrubInv'
  BY <1>1, <1>5 DEF CreateUser, Refuse, Insert, End, Idle
<1>6. ASSUME NEW s \in Slots, Lost(s) PROVE ScrubInv'
  BY <1>1, <1>6 DEF Lost, End, Idle
<1>7. ASSUME NEW p \in Persons, NEW e \in Emails, Login(p, e) PROVE ScrubInv'
  BY <1>2, <1>7 DEF Login
<1>8. ASSUME NEW t \in access \cup refresh, RefreshToken(t) \/ Expire(t)
      PROVE  ScrubInv'
  BY <1>2, <1>8 DEF RefreshToken, Expire
<1>9. CASE UNCHANGED vars
  BY <1>2, <1>9 DEF vars
<1> QED
  BY <1>3, <1>4, <1>5, <1>6, <1>7, <1>8, <1>9,
     ScrubRegistered, ScrubLoad, ScrubPatch, ScrubDelete DEF Next

\* No request undeletes a row.
LEMMA StaysDeleted ==
    ASSUME KeysInv, [Next]_vars, NEW u \in Ids, users[u] # NoRow, users[u].deleted
    PROVE  users'[u] # NoRow /\ users'[u].deleted /\ users'[u].email = None
<1>1. users[u].email = None BY DEF KeysInv, RowInv
<1>2. CASE UNCHANGED users
  BY <1>1, <1>2
<1>3. ASSUME NEW s \in Slots, Registered(s)
      PROVE  users'[u] # NoRow /\ users'[u].deleted /\ users'[u].email = None
  <2>1. users[req[s].id] = NoRow BY <1>3 DEF Registered, KeysInv, FlushInv
  <2>2. users'[u] = users[u] BY <1>3, <2>1 DEF Registered, KeysInv, TypeOK
  <2> QED BY <1>1, <2>2
<1>4. ASSUME NEW s \in Slots, PatchMe(s) \/ DeleteMe(s)
      PROVE  users'[u] # NoRow /\ users'[u].deleted /\ users'[u].email = None
  <2>1. PICK r \in Row : /\ users' = [users EXCEPT ![req[s].id] = r]
                         /\ r.deleted <=> r.email = None
                         /\ r.email \in {users[req[s].id].email, None}
    BY <1>4, ProfileWrite
  <2>2. users'[u] = IF u = req[s].id THEN r ELSE users[u]
    BY <2>1 DEF KeysInv, TypeOK
  <2>3. r # NoRow BY RowIsRow
  <2> QED BY <1>1, <2>1, <2>2, <2>3
<1>5. UNCHANGED users \/ \E s \in Slots : Registered(s) \/ PatchMe(s) \/ DeleteMe(s)
  BY DEF Next, vars, Register, EmailExists, CreateUser, Refuse, Insert, Lost, Load,
         Login, RefreshToken, Expire
<1> QED BY <1>2, <1>3, <1>4, <1>5

\* delete_me: nobody gives a deleted account back, nor its email, and unless
\* a PATCH overlapped the DELETE nothing personal is left in its row.
THEOREM DeletedForGood == Spec => DeletionIsFinal
<1>1. Init => ScrubInv
  <2> SUFFICES ASSUME Init PROVE ScrubInv
    OBVIOUS
  <2>1. /\ \A u \in Ids : users[u] = NoRow
        /\ \A s \in Slots : req[s].pc = "idle"
    BY DEF Init, Idle
  <2> QED BY <2>1 DEF ScrubInv
<1>2. KeysInv /\ KeysInv' /\ ScrubInv' /\ [Next]_vars =>
        [\A u \in Ids : users[u] # NoRow /\ users[u].deleted =>
            /\ users'[u].deleted /\ users'[u].email = None
            /\ u \notin overlapped' => users'[u] = Scrubbed(users'[u])]_vars
  <2> SUFFICES ASSUME KeysInv, KeysInv', ScrubInv', [Next]_vars,
                      NEW u \in Ids, users[u] # NoRow, users[u].deleted
               PROVE  /\ users'[u].deleted /\ users'[u].email = None
                      /\ u \notin overlapped' => users'[u] = Scrubbed(users'[u])
    OBVIOUS
  <2>1. users'[u] # NoRow /\ users'[u].deleted /\ users'[u].email = None
    BY StaysDeleted
  <2>2. users'[u] \in Row BY <2>1 DEF KeysInv, TypeOK
  <2>3. ASSUME u \notin overlapped' PROVE users'[u] = Scrubbed(users'[u])
    <3> DEFINE r == users'[u]
    <3>1. r.name = None /\ r.avatar = FALSE BY <2>1, <2>3 DEF ScrubInv
    <3>2. r.deleted = TRUE BY <2>1, <2>2 DEF Row
    <3>3. r.email = None /\ r \in Row BY <2>1, <2>2
    <3> HIDE DEF r
    <3>4. r = Scrubbed(r) BY <3>1, <3>2, <3>3 DEF Scrubbed, Row
    <3> QED BY <3>4 DEF r
  <2> QED BY <2>1, <2>3
<1> QED BY <1>1, <1>2, ScrubStep, KeysHold, PTL DEF Spec, DeletionIsFinal
=============================================================================

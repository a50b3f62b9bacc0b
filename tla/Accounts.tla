------------------------------ MODULE Accounts ------------------------------
(***************************************************************************)
(* Accounts: registration, login, tokens, the profile and its deletion     *)
(* (services/api/app/api/v1/auth.py, users.py, services/auth_service.py,   *)
(* security/deps.py, security/jwt.py).                                     *)
(*                                                                         *)
(* Requests interleave between any two of their database calls.  The one   *)
(* flush of a request writes the columns it changed of the row it had      *)
(* loaded; a flushed insert holds its key of the unique index until the    *)
(* request commits or is rolled back.  An email stands for its stripped    *)
(* lower case, a password for the person that knows it.                    *)
(***************************************************************************)
EXTENDS Naturals, FiniteSets

CONSTANTS
    Emails, Persons, Names,
    Ids,               \* a bound on the accounts created
    Slots,             \* a bound on concurrent requests
    None               \* no email: a tombstone, which no address equals

ASSUME NoneAssumption == None \notin Emails \cup Names \cup Ids

VARIABLES
    users,       \* id -> committed users row
    access,      \* <<person, id>>: an access token held, within its time
    refresh,     \* the same for refresh tokens
    req,         \* slot -> the request in it
    overlapped   \* history: ids a PATCH and a DELETE of which overlapped

vars == <<users, access, refresh, req, overlapped>>

\* name None stands for "[deleted]".
Row == [email : Emails \cup {None}, password : Persons,
        name : Names \cup {None}, avatar : BOOLEAN, deleted : BOOLEAN]
NoRow == [email |-> None, deleted |-> TRUE]

Idle == [pc |-> "idle"]
Registering == [pc : {"asked", "free"}, email : Emails, who : Persons]
Inserted == [pc : {"flushed"}, id : Ids, row : Row]
Loaded == [pc : {"patch", "delete"}, id : Ids, seen : Row]

TypeOK ==
    /\ users \in [Ids -> Row \cup {NoRow}]
    /\ access \subseteq Persons \X Ids
    /\ refresh \subseteq Persons \X Ids
    /\ req \in [Slots -> {Idle} \cup Registering \cup Inserted \cup Loaded]
    /\ overlapped \subseteq Ids

Init ==
    /\ users = [u \in Ids |-> NoRow]
    /\ access = {}
    /\ refresh = {}
    /\ req = [s \in Slots |-> Idle]
    /\ overlapped = {}

\* get_user_by_email: the rows found under e.
Having(e) == {u \in Ids : users[u].email = e}

\* issue_token_pair.
Issue(p, u) ==
    /\ access' = access \cup {<<p, u>>}
    /\ refresh' = refresh \cup {<<p, u>>}

End(s) == req' = [req EXCEPT ![s] = Idle]

----------------------------------------------------------------------------
(* register. *)

Register(s, e, p) ==
    /\ req[s] = Idle
    /\ req' = [req EXCEPT ![s] = [pc |-> "asked", email |-> e, who |-> p]]
    /\ UNCHANGED <<users, access, refresh, overlapped>>

\* Mutant of Refuse: a taken email signs its account in.
RefuseSigningIn(s) ==
    /\ access' = access \cup {<<req[s].who, u>> : u \in Having(req[s].email)}
    /\ End(s)
    /\ UNCHANGED <<users, refresh, overlapped>>

\* 409, email already registered.
Refuse(s) ==
    /\ End(s)
    /\ UNCHANGED <<users, access, refresh, overlapped>>

\* email_exists.
EmailExists(s) ==
    /\ req[s].pc = "asked"
    /\ IF Having(req[s].email) # {} THEN Refuse(s)
       ELSE /\ req' = [req EXCEPT ![s].pc = "free"]
            /\ UNCHANGED <<users, access, refresh, overlapped>>

\* Another request has inserted e and has yet to commit.
Inserting(e) == \E t \in Slots : req[t].pc = "flushed" /\ req[t].row.email = e

\* A new uuid.
Fresh(u) ==
    LET used == {v \in Ids : users[v] # NoRow}
                \cup {req[t].id : t \in {t \in Slots : req[t].pc = "flushed"}}
    IN  u \in Ids \ used

Insert(s, u, name, avatar) ==
    /\ Fresh(u)
    /\ req' = [req EXCEPT ![s] =
         [pc |-> "flushed", id |-> u,
          row |-> [email |-> req[s].email, password |-> req[s].who,
                   name |-> name, avatar |-> avatar, deleted |-> FALSE]]]
    /\ UNCHANGED <<users, access, refresh, overlapped>>

\* Mutant of CreateUser: no unique key.
CreateUserNoKey(s) ==
    /\ req[s].pc = "free"
    /\ \E u \in Ids, name \in Names, avatar \in BOOLEAN : Insert(s, u, name, avatar)

\* create_user: the flush waits for the insert of the same key and is
\* refused if that one has committed.
CreateUser(s) ==
    /\ req[s].pc = "free"
    /\ ~Inserting(req[s].email)
    /\ IF Having(req[s].email) # {} THEN Refuse(s)
       ELSE \E u \in Ids, name \in Names, avatar \in BOOLEAN :
              Insert(s, u, name, avatar)

\* The commit, and the 201 with its token pair.
Registered(s) ==
    /\ req[s].pc = "flushed"
    /\ users' = [users EXCEPT ![req[s].id] = req[s].row]
    /\ Issue(req[s].row.password, req[s].id)
    /\ End(s)
    /\ UNCHANGED overlapped

\* The connection or the process is lost before the commit.
Lost(s) ==
    /\ req[s].pc # "idle"
    /\ End(s)
    /\ UNCHANGED <<users, access, refresh, overlapped>>

----------------------------------------------------------------------------
(* Tokens. *)

\* authenticate: the password is checked against the row of the email.
Login(p, e) ==
    \E u \in Having(e) :
        /\ ~users[u].deleted
        /\ users[u].password = p
        /\ Issue(p, u)
        /\ UNCHANGED <<users, req, overlapped>>

\* refresh_token looks at the token alone.
RefreshToken(t) ==
    /\ t \in refresh
    /\ access' = access \cup {t}
    /\ UNCHANGED <<users, refresh, req, overlapped>>

Expire(t) ==
    /\ \/ access' = access \ {t} /\ UNCHANGED refresh
       \/ refresh' = refresh \ {t} /\ UNCHANGED access
    /\ UNCHANGED <<users, req, overlapped>>

\* get_current_user.
Authorized(t) == t \in access /\ ~users[t[2]].deleted

----------------------------------------------------------------------------
(* The profile.  logout and me authorize and change nothing. *)

Load(s, t, op) ==
    /\ req[s] = Idle
    /\ Authorized(t)
    /\ req' = [req EXCEPT ![s] = [pc |-> op, id |-> t[2], seen |-> users[t[2]]]]
    /\ UNCHANGED <<users, access, refresh, overlapped>>

\* Mutant of Flushed: the loaded row is written as a whole.
FlushedWhole(row, seen, new) == new

\* The columns that differ from what was loaded are written.
Flushed(row, seen, new) ==
    [c \in DOMAIN row |-> IF new[c] = seen[c] THEN row[c] ELSE new[c]]

Write(s, new) ==
    LET u == req[s].id IN
    /\ users' = [users EXCEPT ![u] = Flushed(@, req[s].seen, new)]
    /\ overlapped' = overlapped \cup
         {req[t].id : t \in {t \in Slots : /\ req[t].pc \in {"patch", "delete"}
                                           /\ req[t].pc # req[s].pc
                                           /\ req[t].id = u}}
    /\ End(s)
    /\ UNCHANGED <<access, refresh>>

\* patch_me: a name (a null one is ignored), an avatar or its removal, or
\* both.
PatchMe(s) ==
    /\ req[s].pc = "patch"
    /\ \E name \in Names \cup {req[s].seen.name}, avatar \in BOOLEAN :
         Write(s, [req[s].seen EXCEPT !.name = name, !.avatar = avatar])

\* scrub_user: the tombstone holds the id, so that it is nobody else's.
Scrubbed(row) == [row EXCEPT !.email = None, !.name = None,
                             !.avatar = FALSE, !.deleted = TRUE]

DeleteMe(s) ==
    /\ req[s].pc = "delete"
    /\ Write(s, Scrubbed(req[s].seen))

----------------------------------------------------------------------------
Next ==
    \/ \E s \in Slots :
         \/ \E e \in Emails, p \in Persons : Register(s, e, p)
         \/ EmailExists(s) \/ CreateUser(s) \/ Registered(s) \/ Lost(s)
         \/ \E t \in access, op \in {"patch", "delete"} : Load(s, t, op)
         \/ PatchMe(s) \/ DeleteMe(s)
    \/ \E p \in Persons, e \in Emails : Login(p, e)
    \/ \E t \in refresh : RefreshToken(t)
    \/ \E t \in access \cup refresh : Expire(t)

Spec == Init /\ [][Next]_vars

----------------------------------------------------------------------------
(* Properties. *)

(***************************************************************************)
(* No two accounts share an email, however registrations of it, deletions  *)
(* of its account and registrations after those overlap.                   *)
(***************************************************************************)
OneAccountPerEmail == \A e \in Emails : Cardinality(Having(e)) <= 1

(***************************************************************************)
(* A token only ever speaks for an account whose password its holder       *)
(* knows: not for the next account of the email of a deleted one, and not  *)
(* for the one that won a race for it.                                     *)
(***************************************************************************)
TokensMatchPasswords ==
    \A t \in access \cup refresh : users[t[2]].password = t[1]

(***************************************************************************)
(* A deletion is final: no request that loaded the row before it gives the *)
(* account back, nor its email, which may be another account's by then;    *)
(* and it leaves nothing personal (users.py:42, "scrubs PII").  Excepted   *)
(* from the last is a PATCH under way together with the DELETE: it writes  *)
(* a name or an avatar to the tombstone, or sets an avatar the DELETE had  *)
(* read as unset and so does not clear.                                    *)
(***************************************************************************)
DeletionIsFinal ==
    [][\A u \in Ids : users[u] # NoRow /\ users[u].deleted =>
           /\ users'[u].deleted /\ users'[u].email = None
           /\ u \notin overlapped' => users'[u] = Scrubbed(users'[u])]_vars
=============================================================================

--------------------------- MODULE MobileApp_proofs ---------------------------
(***************************************************************************)
(* Proofs about the two modules of the mobile app, which share no state:   *)
(* ClientSession (client.ts, authStore.ts), for any number of accounts,    *)
(* requests, tokens, sign-outs and restarts, and MissionScreens, for any   *)
(* finite set of sessions.                                                 *)
(*                                                                         *)
(* Of a session, SessionInv says in every state what the device holds:     *)
(*   BasicInv  which work can be under way in which state of the store;    *)
(*   SyncInv   unless a race was lost, the device has the session of the   *)
(*             store, or the one a login is about to enter, or is cleared  *)
(*             ahead of a store that somebody is about to empty.           *)
(* Of the screens, RunsInv and TallyInv follow a query's entry from the    *)
(* read of the server to the reply: an answer that matters drops the fetch *)
(* that may have read too early, or marks the entry when no screen shows   *)
(* it.                                                                     *)
(***************************************************************************)
EXTENDS ClientSession, MissionScreens, FiniteSetTheorems, TLAPS

----------------------------------------------------------------------------
(* ClientSession: the types. *)

\* None is no token and nobody.
LEMMA NoneApart ==
    /\ None \notin Accounts /\ None \notin Tokens /\ None \notin Nat
    /\ Tokens \subseteq Nat
<1>1. None \notin Accounts /\ None \notin Nat BY NoneAssumption, Zenon
<1>2. Tokens \subseteq Nat BY BoundAssumption DEF Tokens
<1> QED BY <1>1, <1>2, Zenon

LEMMA InitTyped == Init => TypeOK
<1> SUFFICES ASSUME Init PROVE TypeOK
  OBVIOUS
<1>1. storage \in Storage /\ store \in Store
  BY DEF Init, Storage, NoTokens, Store, SignedOut
<1>2. req \in [Slots -> Request] BY DEF Init, Request, NoRequest, ReqPcs
<1>3. refresh \in Refresh BY DEF Init, Refresh, NoRefresh, RefreshPcs
<1>4. auth \in Auth BY DEF Init, Auth, NoAuth, AuthPcs
<1>5. signOuts \in 0..MaxSignOuts /\ restarts \in 0..MaxRestarts
  BY BoundAssumption DEF Init
<1> QED BY <1>1, <1>2, <1>3, <1>4, <1>5 DEF Init, TypeOK

\* Time and the server.
LEMMA ServerTyped ==
    ASSUME TypeOK
    PROVE  /\ \A n \in Tokens : AccessExpires(n) => TypeOK'
           /\ \A a \in Accounts : RefreshTokenExpires(a) => TypeOK'
BY DEF TypeOK, AccessExpires, RefreshTokenExpires

\* A request and the interceptors.
LEMMA RequestTyped ==
    ASSUME TypeOK, NEW s \in Slots
    PROVE  /\ Start(s) => TypeOK'
           /\ Attach(s) => TypeOK'
           /\ Answered(s) => TypeOK'
           /\ Unauthorized(s) => TypeOK'
           /\ ClearTokens(s) => TypeOK'
           /\ AuthFailure(s) => TypeOK'
<1> USE DEF TypeOK, Request, ReqPcs, NoRequest, server
<1>1. Start(s) => TypeOK' BY DEF Start
<1>2. Attach(s) => TypeOK'
  <2> SUFFICES ASSUME Attach(s) PROVE TypeOK'
    OBVIOUS
  <2> DEFINE t == IF storage.access = None THEN req[s].token ELSE storage.access
  <2>1. t \in Tokens \cup {None} BY DEF Storage
  <2>2. req' = [req EXCEPT ![s] = [req[s] EXCEPT !.pc = "sent", !.token = t]]
    BY DEF Attach
  <2> HIDE DEF t
  <2>3. [req[s] EXCEPT !.pc = "sent", !.token = t] \in Request BY <2>1
  <2> QED BY <2>2, <2>3 DEF Attach
<1>3. Answered(s) => TypeOK' BY DEF Answered
<1>4. Unauthorized(s) => TypeOK'
  <2> SUFFICES ASSUME Unauthorized(s) PROVE TypeOK'
    OBVIOUS
  <2>1. req' \in [Slots -> Request]
    <3> DEFINE r == [req[s] EXCEPT !.pc = "waiting", !.retry = TRUE]
    <3>1. r \in Request /\ NoRequest \in Request OBVIOUS
    <3>2. req' = [req EXCEPT ![s] = NoRequest] \/ req' = [req EXCEPT ![s] = r]
      BY DEF Unauthorized
    <3> HIDE DEF r, NoRequest, Request
    <3> QED BY <3>1, <3>2
  <2>2. refresh' \in Refresh
    BY DEF Unauthorized, Refresh, RefreshPcs, NoRefresh
  <2> QED BY <2>1, <2>2 DEF Unauthorized
<1>5. ClearTokens(s) => TypeOK'
  BY DEF ClearTokens, Clear, Cleared, Storage, NoTokens
<1>6. AuthFailure(s) => TypeOK'
  BY DEF AuthFailure, Leave, SignedOut, Store
<1> QED BY <1>1, <1>2, <1>3, <1>4, <1>5, <1>6

\* runRefresh.
LEMMA RefreshTyped ==
    ASSUME TypeOK
    PROVE  /\ RefreshRead => TypeOK'
           /\ \A n \in Tokens : RefreshGranted(n) => TypeOK'
           /\ RefreshRefused => TypeOK'
           /\ RefreshStore => TypeOK'
<1> USE DEF TypeOK, Request, ReqPcs, Refresh, RefreshPcs, NoRefresh, Resolve, Storage,
   server
<1>1. RefreshRead => TypeOK'
  <2> SUFFICES ASSUME RefreshRead PROVE TypeOK'
    OBVIOUS
  <2>1. CASE storage.refresh = None
    <3>1. req' = [t \in Slots |->
             IF req[t].pc # "waiting" THEN req[t]
             ELSE [pc |-> IF None = None THEN "clearing" ELSE "attaching",
                   token |-> None, retry |-> TRUE]]
      BY <2>1 DEF RefreshRead
    <3>2. req' \in [Slots -> Request] BY <3>1
    <3> QED BY <2>1, <3>2 DEF RefreshRead
  <2>2. CASE storage.refresh # None BY <2>2 DEF RefreshRead
  <2> QED BY <2>1, <2>2
<1>2. ASSUME NEW n \in Tokens, RefreshGranted(n) PROVE TypeOK'
  BY <1>2 DEF RefreshGranted, Mint
<1>3. RefreshRefused => TypeOK' BY DEF RefreshRefused
<1>4. RefreshStore => TypeOK' BY DEF RefreshStore
<1> QED BY <1>1, <1>2, <1>3, <1>4

\* The auth store, and a restart.
LEMMA AuthTyped ==
    ASSUME TypeOK
    PROVE  /\ \A a \in Accounts, n \in Tokens : Login(a, n) => TypeOK'
           /\ LoginStore => TypeOK'
           /\ LoginName => TypeOK'
           /\ LoginEnter => TypeOK'
           /\ \A s \in Slots : Logout(s) => TypeOK'
           /\ LogoutClear => TypeOK'
           /\ LogoutLeave => TypeOK'
           /\ Restart => TypeOK'
           /\ Hydrate => TypeOK'
<1> USE BoundAssumption
   DEF TypeOK, Auth, AuthPcs, NoAuth, Storage, Store, SignedOut, server
<1>1. ASSUME NEW a \in Accounts, NEW n \in Tokens, Login(a, n) PROVE TypeOK'
  BY <1>1 DEF Login, Mint
<1>2. LoginStore => TypeOK' BY DEF LoginStore
<1>3. LoginName => TypeOK' BY DEF LoginName
<1>4. LoginEnter => TypeOK' BY DEF LoginEnter
<1>5. ASSUME NEW s \in Slots, Logout(s) PROVE TypeOK'
  <2>1. req' \in [Slots -> Request] BY <1>5 DEF Logout, Request, ReqPcs, NoRequest
  <2>2. auth' \in Auth BY <1>5 DEF Logout
  <2>3. signOuts' \in 0..MaxSignOuts BY <1>5 DEF Logout
  <2> QED BY <1>5, <2>1, <2>2, <2>3 DEF Logout
<1>6. LogoutClear => TypeOK'
  <2> SUFFICES ASSUME LogoutClear PROVE TypeOK'
    OBVIOUS
  <2>1. storage' \in Storage BY DEF LogoutClear, Clear, Cleared, NoTokens
  <2>2. auth' \in Auth BY DEF LogoutClear
  <2>3. crossed' \in BOOLEAN BY DEF LogoutClear, Clear
  <2> QED BY <2>1, <2>2, <2>3 DEF LogoutClear
<1>7. LogoutLeave => TypeOK' BY DEF LogoutLeave, Leave
<1>8. Restart => TypeOK'
  <2> SUFFICES ASSUME Restart PROVE TypeOK'
    OBVIOUS
  <2>1. req' \in [Slots -> Request] BY DEF Restart, Request, ReqPcs, NoRequest
  <2>2. refresh' \in Refresh BY DEF Restart, Refresh, RefreshPcs, NoRefresh
  <2>3. restarts' \in 0..MaxRestarts BY DEF Restart
  <2>4. store' \in Store BY DEF Restart
  <2> QED BY <2>1, <2>2, <2>3, <2>4 DEF Restart
<1>9. Hydrate => TypeOK'
  <2> SUFFICES ASSUME Hydrate PROVE TypeOK'
    OBVIOUS
  <2>1. store' \in Store BY DEF Hydrate, Restored
  <2> QED BY <2>1 DEF Hydrate
<1> QED BY <1>1, <1>2, <1>3, <1>4, <1>5, <1>6, <1>7, <1>8, <1>9

LEMMA StepTyped == TypeOK /\ [Next]_vars => TypeOK'
<1> SUFFICES ASSUME TypeOK, [Next]_vars PROVE TypeOK'
  OBVIOUS
<1>1. CASE UNCHANGED vars BY <1>1 DEF vars, TypeOK
<1>2. CASE Next
  <2>2. CASE Progress BY <2>2, RequestTyped, RefreshTyped, AuthTyped DEF Progress
  <2>3. CASE Restart BY <2>3, AuthTyped
  <2>4. CASE \E s \in Slots : Start(s) \/ Logout(s) BY <2>4, RequestTyped, AuthTyped
  <2>5. CASE \E a \in Accounts, n \in Tokens : Login(a, n) BY <2>5, AuthTyped
  <2>6. CASE \E n \in Tokens : AccessExpires(n) BY <2>6, ServerTyped
  <2>7. CASE \E a \in Accounts : RefreshTokenExpires(a) BY <2>7, ServerTyped
  <2> QED BY <1>2, <2>2, <2>3, <2>4, <2>5, <2>6, <2>7 DEF Next
<1> QED BY <1>1, <1>2

(***************************************************************************)
(* The types, for any number of accounts, tokens, requests and restarts    *)
(* (client.ts, authStore.ts).                                              *)
(***************************************************************************)
THEOREM TypeCorrect == Spec => []TypeOK
<1> QED BY InitTyped, StepTyped, PTL DEF Spec

----------------------------------------------------------------------------
(* ClientSession: the session on the device is the session of the store. *)

Quiet == auth = NoAuth /\ refresh = NoRefresh /\ \A s \in Slots : req[s] = NoRequest

\* A login has stored its tokens and has yet to enter.
Entering == auth.pc \in {"naming", "entering"}

\* Somebody has cleared the tokens and is about to empty the store.
Emptying == auth.pc = "leaving" \/ \E s \in Slots : req[s].pc \in {"hooking", "leaving"}

BasicInv ==
    /\ ~store.hydrated => Quiet /\ ~store.access
    /\ auth.pc = "storing" => auth.token # None
    /\ auth.pc = "storing" \/ Entering => store = SignedOut
    /\ storage.refresh # None => storage.access # None
    /\ refresh.pc = "storing" => refresh.token # None
    /\ \A s \in Slots : req[s].pc \in {"clearing", "hooking", "leaving"} => refused

\* As long as no race was lost, the device has the session of the store,
\* or that of the login under way, or is cleared ahead of the store.
SyncInv ==
    store.hydrated /\ ~crossed =>
        /\ refresh.pc \in {"sent", "storing"} \/ Entering => storage.access # None
        /\ auth.pc = "entering" => storage.user = auth.who
        /\ ~Entering => store = Restored(storage) \/ (storage = NoTokens /\ Emptying)
        /\ storage.access = None /\ storage.user # None => Quiet /\ ~store.access

SessionInv == TypeOK /\ BasicInv /\ SyncInv

LEMMA SessionInit == Init => SessionInv
<1> SUFFICES ASSUME Init PROVE BasicInv /\ SyncInv
  BY InitTyped DEF SessionInv
<1>1. Quiet BY DEF Init, Quiet
<1> QED BY <1>1 DEF Init, BasicInv, SyncInv, Entering, NoAuth, NoRefresh,
           NoTokens, SignedOut, NoRequest

\* A request keeps the invariant: who clears or empties over work under way
\* crosses it.
LEMMA RequestKeeps ==
    ASSUME SessionInv, NEW s \in Slots
    PROVE  /\ Start(s) => BasicInv' /\ SyncInv'
           /\ Attach(s) => BasicInv' /\ SyncInv'
           /\ Answered(s) => BasicInv' /\ SyncInv'
           /\ Unauthorized(s) => BasicInv' /\ SyncInv'
           /\ ClearTokens(s) => BasicInv' /\ SyncInv'
           /\ AuthFailure(s) => BasicInv' /\ SyncInv'
<1> USE DEF SessionInv, BasicInv, SyncInv, Quiet, Entering, Emptying, Restored, server
<1>1. Start(s) => BasicInv' /\ SyncInv'
  BY DEF Start, TypeOK, Request, SignedIn, NoRequest
<1>2. Attach(s) => BasicInv' /\ SyncInv' BY DEF Attach, TypeOK, Request, NoRequest
<1>3. Answered(s) => BasicInv' /\ SyncInv' BY DEF Answered, TypeOK, Request, NoRequest
<1>4. Unauthorized(s) => BasicInv' /\ SyncInv'
  BY DEF Unauthorized, TypeOK, Request, NoRequest, NoRefresh
<1>5. ClearTokens(s) => BasicInv' /\ SyncInv'
  BY DEF ClearTokens, Clear, Cleared, NoTokens, TypeOK, Request, NoRequest
<1>6. AuthFailure(s) => BasicInv' /\ SyncInv'
  <2> SUFFICES ASSUME AuthFailure(s) PROVE BasicInv' /\ SyncInv'
    OBVIOUS
  <2>1. store.hydrated /\ ~Quiet BY DEF AuthFailure, NoRequest
  <2>2. ~crossed' => store' = Restored(storage)'
    BY <2>1 DEF AuthFailure, Leave, SignedOut
  <2>3. BasicInv' BY DEF AuthFailure, Leave, SignedOut, TypeOK, Request, NoRequest
  <2>4. SyncInv' BY <2>1, <2>2 DEF AuthFailure, Leave, SignedOut
  <2> QED BY <2>3, <2>4
<1> QED BY <1>1, <1>2, <1>3, <1>4, <1>5, <1>6

\* A refresh stores only over tokens that are still there.
LEMMA RefreshKeeps ==
    ASSUME SessionInv
    PROVE  /\ RefreshRead => BasicInv' /\ SyncInv'
           /\ \A n \in Tokens : RefreshGranted(n) => BasicInv' /\ SyncInv'
           /\ RefreshRefused => BasicInv' /\ SyncInv'
           /\ RefreshStore => BasicInv' /\ SyncInv'
<1> USE NoneApart DEF SessionInv, BasicInv, SyncInv, Quiet, Entering, Emptying,
   Restored, server, Resolve
<1>1. RefreshRead => BasicInv' /\ SyncInv'
  <2> SUFFICES ASSUME RefreshRead PROVE BasicInv' /\ SyncInv'
    OBVIOUS
  <2>1. ~Quiet /\ store.hydrated BY DEF RefreshRead, NoRefresh
  <2>2. CASE storage.refresh = None
    <3>1. /\ refresh' = NoRefresh /\ refused'
          /\ \A s \in Slots : IF req[s].pc = "waiting" THEN req'[s].pc = "clearing"
                              ELSE req'[s] = req[s]
      BY <2>2 DEF RefreshRead
    <3>2. BasicInv'
      BY <2>1, <3>1 DEF RefreshRead, NoRefresh
    <3>3. Emptying => Emptying' BY <3>1 DEF RefreshRead
    <3>4. SyncInv'
      BY <2>1, <3>1, <3>3 DEF RefreshRead, NoRefresh
    <3> QED BY <3>2, <3>4
  <2>3. CASE storage.refresh # None BY <2>1, <2>3 DEF RefreshRead, TypeOK, Refresh
  <2> QED BY <2>2, <2>3
<1>2. \A n \in Tokens : RefreshGranted(n) => BasicInv' /\ SyncInv'
  BY DEF RefreshGranted, TypeOK, Refresh, NoRefresh
<1>3. RefreshRefused => BasicInv' /\ SyncInv'
  BY DEF RefreshRefused, TypeOK, Request, NoRequest, NoRefresh
<1>4. RefreshStore => BasicInv' /\ SyncInv'
  <2> SUFFICES ASSUME RefreshStore PROVE BasicInv' /\ SyncInv'
    OBVIOUS
  <2>1. ~Quiet /\ store.hydrated BY DEF RefreshStore, NoRefresh
  <2>2. /\ refresh' = NoRefresh
        /\ \A s \in Slots : req[s].pc # "waiting" => req'[s] = req[s]
        /\ \A s \in Slots : req[s].pc = "waiting" => req'[s].pc = "attaching"
    BY DEF RefreshStore
  <2>3. /\ storage'.access # None /\ storage'.user = storage.user
        /\ storage'.refresh = storage.refresh
    BY DEF RefreshStore, TypeOK, Storage
  <2>4. BasicInv'
    BY <2>1, <2>2, <2>3 DEF RefreshStore, NoRefresh
  <2>5. ~crossed => storage # NoTokens BY <2>1 DEF RefreshStore, NoTokens
  <2>6. SyncInv'
    BY <2>1, <2>2, <2>3, <2>5 DEF RefreshStore, NoRefresh
  <2> QED BY <2>4, <2>6
<1> QED BY <1>1, <1>2, <1>3, <1>4

\* A login enters what it stored; a start reads it back with nothing under way.
LEMMA AuthKeeps ==
    ASSUME SessionInv
    PROVE  /\ \A a \in Accounts, n \in Tokens : Login(a, n) => BasicInv' /\ SyncInv'
           /\ LoginStore => BasicInv' /\ SyncInv'
           /\ LoginName => BasicInv' /\ SyncInv'
           /\ LoginEnter => BasicInv' /\ SyncInv'
           /\ \A s \in Slots : Logout(s) => BasicInv' /\ SyncInv'
           /\ LogoutClear => BasicInv' /\ SyncInv'
           /\ LogoutLeave => BasicInv' /\ SyncInv'
           /\ Restart => BasicInv' /\ SyncInv'
           /\ Hydrate => BasicInv' /\ SyncInv'
<1> USE NoneApart DEF SessionInv, BasicInv, SyncInv, Quiet, Entering, Emptying,
   Restored, server
<1>1. \A a \in Accounts, n \in Tokens : Login(a, n) => BasicInv' /\ SyncInv'
  <2> SUFFICES ASSUME NEW a \in Accounts, NEW n \in Tokens, Login(a, n)
               PROVE  BasicInv' /\ SyncInv'
    OBVIOUS
  <2>1. auth.pc = "idle" /\ auth'.pc = "storing" /\ auth'.token # None
    BY DEF Login, NoAuth
  <2>2. BasicInv' BY <2>1 DEF Login, SignedOut
  <2>3. store.hydrated /\ ~store.access /\ store.user = None BY DEF Login, SignedOut
  <2>4. ~crossed => storage.access # None \/ storage.user = None
    <3> SUFFICES ASSUME ~crossed PROVE storage.access # None \/ storage.user = None
      OBVIOUS
    <3>1. store = Restored(storage) \/ storage = NoTokens BY <2>1, <2>3
    <3>2. CASE storage = NoTokens BY <3>2 DEF NoTokens
    <3>3. CASE store = Restored(storage)
      <4>1. store.user = storage.user BY <3>3
      <4> QED BY <4>1, <2>3
    <3> QED BY <3>1, <3>2, <3>3
  <2>5. ~Entering /\ ~Entering' BY <2>1
  <2>6. Emptying => Emptying' BY <2>1 DEF Login
  <2>7. SyncInv' BY <2>1, <2>3, <2>4, <2>5, <2>6 DEF Login
  <2> QED BY <2>2, <2>7
<1>2. LoginStore => BasicInv' /\ SyncInv'
  BY DEF LoginStore, TypeOK, Auth, NoAuth, Storage, SignedOut
<1>3. LoginName => BasicInv' /\ SyncInv'
  BY DEF LoginName, TypeOK, Auth, NoAuth, Storage, SignedOut
<1>4. LoginEnter => BasicInv' /\ SyncInv'
  <2> SUFFICES ASSUME LoginEnter PROVE BasicInv' /\ SyncInv'
    OBVIOUS
  <2>1. ~crossed => storage.access # None /\ store' = Restored(storage)
    <3> SUFFICES ASSUME ~crossed
                 PROVE storage.access # None /\ store' = Restored(storage)
      OBVIOUS
    <3>1. storage.access # None /\ storage.user = auth.who BY DEF LoginEnter, SignedOut
    <3>2. (storage.access # None) = TRUE BY <3>1
    <3> QED BY <3>1, <3>2 DEF LoginEnter
  <2>2. auth'.pc = "idle" BY DEF LoginEnter, NoAuth
  <2>3. BasicInv' BY <2>2 DEF LoginEnter
  <2>4. SyncInv' BY <2>1, <2>2 DEF LoginEnter
  <2> QED BY <2>3, <2>4
<1>5. \A s \in Slots : Logout(s) => BasicInv' /\ SyncInv'
  BY DEF Logout, SignedIn, NoAuth, TypeOK, Request, NoRequest
<1>6. LogoutClear => BasicInv' /\ SyncInv'
  <2> SUFFICES ASSUME LogoutClear PROVE BasicInv' /\ SyncInv'
    OBVIOUS
  <2>1. auth.pc = "calling" /\ auth'.pc = "leaving"
    BY DEF LogoutClear, TypeOK, Auth
  <2>2. store.hydrated BY <2>1 DEF NoAuth
  <2>3. BasicInv' BY <2>1, <2>2 DEF LogoutClear, Clear, Cleared, NoTokens
  <2>4. SyncInv' BY <2>1, <2>2 DEF LogoutClear, Clear, Cleared, NoTokens
  <2> QED BY <2>3, <2>4
<1>7. LogoutLeave => BasicInv' /\ SyncInv'
  <2> SUFFICES ASSUME LogoutLeave PROVE BasicInv' /\ SyncInv'
    OBVIOUS
  <2>1. auth.pc = "leaving" /\ auth'.pc = "idle" BY DEF LogoutLeave, NoAuth
  <2>2. store.hydrated /\ ~Quiet BY <2>1 DEF NoAuth
  <2>3. ~crossed' => store' = Restored(storage)'
    BY <2>2 DEF LogoutLeave, Leave, SignedOut
  <2>4. BasicInv' BY <2>1, <2>2 DEF LogoutLeave, Leave, SignedOut
  <2>5. SyncInv' BY <2>1, <2>2, <2>3 DEF LogoutLeave, Leave, SignedOut
  <2> QED BY <2>4, <2>5
<1>8. Restart => BasicInv' /\ SyncInv'
  <2> SUFFICES ASSUME Restart PROVE BasicInv' /\ SyncInv'
    OBVIOUS
  <2>1. Quiet' BY DEF Restart
  <2>2. ~store'.hydrated /\ ~store'.access BY DEF Restart, SignedOut
  <2>3. auth'.pc = "idle" /\ refresh'.pc = "idle" /\ \A s \in Slots : req'[s].pc = "idle"
    BY DEF Restart, NoAuth, NoRefresh, NoRequest
  <2>4. BasicInv' BY <2>1, <2>2, <2>3 DEF Restart
  <2> QED BY <2>2, <2>4
<1>9. Hydrate => BasicInv' /\ SyncInv'
  <2> SUFFICES ASSUME Hydrate PROVE BasicInv' /\ SyncInv'
    OBVIOUS
  <2>1. Quiet /\ Quiet' BY DEF Hydrate
  <2>2. auth'.pc = "idle" /\ refresh'.pc = "idle" /\ \A s \in Slots : req'[s].pc = "idle"
    BY <2>1 DEF NoAuth, NoRefresh, NoRequest
  <2>3. store'.hydrated /\ store' = Restored(storage)' BY DEF Hydrate
  <2>4. BasicInv' BY <2>2, <2>3 DEF Hydrate
  <2>5. storage'.access = None => ~store'.access
    <3>1. store'.access = (storage'.access # None) BY DEF Hydrate
    <3> QED BY <3>1
  <2>6. SyncInv' BY <2>1, <2>2, <2>3, <2>5 DEF Hydrate
  <2> QED BY <2>4, <2>6
<1> QED BY <1>1, <1>2, <1>3, <1>4, <1>5, <1>6, <1>7, <1>8, <1>9

LEMMA SessionStep == SessionInv /\ [Next]_vars => SessionInv'
<1> SUFFICES ASSUME SessionInv, [Next]_vars PROVE BasicInv' /\ SyncInv'
  BY StepTyped DEF SessionInv
<1>1. CASE UNCHANGED vars
  BY <1>1 DEF vars, SessionInv, BasicInv, SyncInv, Quiet, Entering, Emptying, Restored
<1>2. CASE Next
  <2>1. CASE Progress BY <2>1, RequestKeeps, RefreshKeeps, AuthKeeps DEF Progress
  <2>2. CASE Restart BY <2>2, AuthKeeps
  <2>3. CASE \E s \in Slots : Start(s) \/ Logout(s) BY <2>3, RequestKeeps, AuthKeeps
  <2>4. CASE \E a \in Accounts, n \in Tokens : Login(a, n) BY <2>4, AuthKeeps
  <2>5. CASE (\E n \in Tokens : AccessExpires(n))
             \/ \E a \in Accounts : RefreshTokenExpires(a)
    BY <2>5 DEF AccessExpires, RefreshTokenExpires, SessionInv, BasicInv, SyncInv,
       Quiet, Entering, Emptying, Restored
  <2> QED BY <1>2, <2>1, <2>2, <2>3, <2>4, <2>5 DEF Next
<1> QED BY <1>1, <1>2

LEMMA SessionHolds == Spec => []SessionInv
<1> QED BY SessionInit, SessionStep, PTL DEF Spec

(***************************************************************************)
(* With nothing under way and no race lost, what hydrate would read from   *)
(* the device is the session the auth store has (authStore.ts hydrate).    *)
(***************************************************************************)
THEOREM SessionIsKept == Spec => []SessionSurvives
<1>1. SessionInv => SessionSurvives
  BY DEF SessionInv, SyncInv, SessionSurvives, Entering, Emptying, NoAuth, NoRequest
<1> QED BY <1>1, SessionHolds, PTL

(***************************************************************************)
(* A step signs the user out only after a refresh failed, or in a logout,  *)
(* or by a restart: expiry alone never does (client.ts runRefresh and the  *)
(* response interceptor).                                                  *)
(***************************************************************************)
THEOREM ExpiryStaysInvisible == Spec => ExpiryIsInvisible
<1> DEFINE A == SignedIn /\ ~SignedIn' =>
                  refused \/ auth.pc = "leaving" \/ restarts' # restarts
<1>1. SessionInv /\ [Next]_vars => A
  <2> SUFFICES ASSUME SessionInv, [Next]_vars, SignedIn, ~SignedIn'
               PROVE refused \/ auth.pc = "leaving" \/ restarts' # restarts
    OBVIOUS
  <2> USE DEF SignedIn, server
  <2>1. CASE \E s \in Slots : AuthFailure(s)
    BY <2>1 DEF AuthFailure, SessionInv, BasicInv
  <2>2. CASE LogoutLeave BY <2>2 DEF LogoutLeave
  <2>3. CASE Restart
    BY <2>3, BoundAssumption DEF Restart, SessionInv, TypeOK
  <2>4. CASE Hydrate BY <2>4 DEF Hydrate, SessionInv, BasicInv
  <2>5. CASE LoginEnter BY <2>5 DEF LoginEnter
  <2>6. CASE UNCHANGED store BY <2>6
  <2>7. \/ \E s \in Slots : AuthFailure(s)
        \/ LogoutLeave \/ Restart \/ Hydrate \/ LoginEnter \/ UNCHANGED store
    BY DEF Next, Progress, vars, Start, Attach, Answered, Unauthorized, ClearTokens,
       RefreshRead, RefreshStore, RefreshRefused, RefreshGranted, LoginStore, LoginName,
       LogoutClear, Logout, Login, AccessExpires, RefreshTokenExpires
  <2> QED BY <2>1, <2>2, <2>3, <2>4, <2>5, <2>6, <2>7
<1> QED BY <1>1, SessionHolds, PTL DEF Spec, ExpiryIsInvisible

----------------------------------------------------------------------------
(* MissionScreens: the runs screen. *)

IsEntry(q) ==
    /\ {"loaded", "data", "stale", "at", "read", "blind"} \subseteq DOMAIN q
    /\ q.at \in {"idle", "sent", "read"}

ServerRun == [status : {"running", "interrupted", "ended"}, turn : Nat]

\* A list that shows every answered decision.
UpToDate(list) ==
    \A r \in DOMAIN answered :
        answered[r] > 0 => r \in DOMAIN list /\ list[r].turn >= answered[r]

RunsInv ==
    /\ srv \in Seq(ServerRun) /\ answered \in Seq(Nat) /\ Len(answered) = Len(srv)
    /\ \A r \in DOMAIN answered : answered[r] <= srv[r].turn
    /\ IsEntry(runsQ)
    /\ runsQ.at = "read" => UpToDate(runsQ.read)
    /\ runsQ.at = "idle" /\ ~runsQ.blind => UpToDate(runsQ.data)

\* What the handlers make of the entry.
LEMMA EntryOutcomes ==
    ASSUME NEW q, IsEntry(q), NEW p,
           \/ p \in OnMount(q) \/ p = Fetch(q) \/ p = FetchFails(q) \/ p = Refetch(q)
           \/ \E active \in BOOLEAN : p = Invalidate(q, active)
    PROVE  /\ IsEntry(p) /\ p.data = q.data /\ p.loaded = q.loaded
           /\ \/ p.at = "sent" \/ (p.at = "idle" /\ p.blind)
              \/ p.at = q.at /\ p.read = q.read /\ (p.blind \/ p = q)
<1> DEFINE marked == [q EXCEPT !.stale = TRUE]
<1> USE DEF IsEntry
<1>1. ASSUME NEW m, IsEntry(m)
      PROVE  /\ IsEntry(Fetch(m)) /\ Fetch(m).at = "sent"
             /\ Fetch(m).data = m.data /\ Fetch(m).loaded = m.loaded
  BY <1>1 DEF Fetch
<1>2. /\ IsEntry(FetchFails(q)) /\ FetchFails(q).data = q.data
      /\ FetchFails(q).loaded = q.loaded
      /\ FetchFails(q).at = "idle" /\ FetchFails(q).blind
  BY DEF FetchFails
<1>3. /\ IsEntry(marked) /\ marked.data = q.data /\ marked.loaded = q.loaded
      /\ marked.at = q.at /\ marked.read = q.read
  OBVIOUS
<1> HIDE DEF marked
<1>4. ASSUME p = [marked EXCEPT !.blind = TRUE]
      PROVE  /\ IsEntry(p) /\ p.blind /\ p.data = q.data /\ p.loaded = q.loaded
             /\ p.at = q.at /\ p.read = q.read
  BY <1>3, <1>4
<1>5. p \in OnMount(q) \/ p = Refetch(q) => p = q \/ p = Fetch(q)
  BY DEF OnMount, Refetch
<1>6. (\E active \in BOOLEAN : p = Invalidate(q, active))
         => \/ p = Fetch(marked) \/ p = [marked EXCEPT !.blind = TRUE]
            \/ p = marked /\ q.at = "sent"
  BY <1>3 DEF Invalidate, Misses, Joins, Refetch, marked
<1>7. CASE p = q BY <1>7
<1>8. CASE p = Fetch(q) BY <1>1, <1>8
<1>9. CASE p = Fetch(marked) BY <1>1, <1>3, <1>9
<1>10. CASE p = FetchFails(q) BY <1>2, <1>10
<1>11. CASE p = [marked EXCEPT !.blind = TRUE] BY <1>4, <1>11
<1>12. CASE p = marked /\ q.at = "sent" BY <1>3, <1>12
<1> QED BY <1>5, <1>6, <1>7, <1>8, <1>9, <1>10, <1>11, <1>12

\* What the types say of a run.
LEMMA ServerRuns ==
    ASSUME RunsInv
    PROVE  /\ DOMAIN srv = 1..Len(srv) /\ Len(srv) \in Nat
           /\ DOMAIN answered = DOMAIN srv
           /\ \A r \in DOMAIN srv : /\ srv[r] \in ServerRun /\ srv[r].turn \in Nat
                                   /\ answered[r] \in Nat
<1>1. /\ DOMAIN srv = 1..Len(srv) /\ DOMAIN answered = 1..Len(answered)
      /\ Len(srv) \in Nat
  BY DEF RunsInv
<1>2. ASSUME NEW r \in DOMAIN srv PROVE srv[r] \in ServerRun /\ answered[r] \in Nat
  BY <1>2 DEF RunsInv
<1>3. ASSUME NEW r \in DOMAIN srv PROVE srv[r].turn \in Nat BY <1>2, <1>3 DEF ServerRun
<1> QED BY <1>1, <1>2, <1>3 DEF RunsInv

(***************************************************************************)
(* Whatever the user decides on was on the list: no decision is answered   *)
(* while the first fetch of the list is under way, so the invalidation     *)
(* replaces the fetch and never joins it.                                  *)
(***************************************************************************)
LoadedInv ==
    /\ IsEntry(runsQ)
    /\ runsQ.data # << >> => runsQ.loaded
    /\ decisions # {} \/ modals # {} => runsQ.loaded

LEMMA LoadedStep == LoadedInv /\ [ScreensNext]_screenVars => LoadedInv'
<1> SUFFICES ASSUME LoadedInv, [ScreensNext]_screenVars PROVE LoadedInv'
  OBVIOUS
<1> USE DEF runVars, navVars
<1> DEFINE Asked == decisions # {} \/ modals # {}
<1>same. ASSUME runsQ' = runsQ, Asked' => Asked PROVE LoadedInv'
  BY <1>same DEF LoadedInv
<1>entry. ASSUME IsEntry(runsQ'), runsQ'.data = runsQ.data, runsQ'.loaded = runsQ.loaded,
                 Asked' => Asked
          PROVE  LoadedInv'
  BY <1>entry DEF LoadedInv
<1>1. ASSUME Unmount PROVE Asked' => Asked BY <1>1 DEF Unmount
<1>2. ASSUME NEW s, MountEntries(s), Asked' => Asked PROVE LoadedInv'
  <2>1. runsQ' \in OnMount(runsQ) \/ runsQ' = runsQ BY <1>2 DEF MountEntries
  <2> QED BY <2>1, <1>2, <1>entry, <1>same, EntryOutcomes DEF LoadedInv
<1>3. ASSUME runsQ' = Invalidate(runsQ, Mounted("runs")), Asked' => Asked PROVE LoadedInv'
  <2>1. Mounted("runs") \in BOOLEAN BY DEF Mounted
  <2> QED BY <2>1, <1>3, <1>entry, EntryOutcomes DEF LoadedInv
<1>4. ASSUME RunsInterval \/ RunsPulled \/ RunsFail PROVE LoadedInv'
  <2>1. /\ runsQ' = Fetch(runsQ) \/ runsQ' = FetchFails(runsQ) \/ runsQ' = Refetch(runsQ)
        /\ UNCHANGED <<decisions, modals>>
    BY <1>4 DEF RunsInterval, RunsPulled, RunsFail, RunsEntry
  <2> QED BY <2>1, <1>entry, EntryOutcomes DEF LoadedInv
<1>5. ASSUME RunsRead \/ RunsReply PROVE LoadedInv'
  <2>1. UNCHANGED <<decisions, modals>> BY <1>5 DEF RunsRead, RunsReply, RunsEntry
  <2>2. CASE RunsRead
    <3>1. runsQ' = Reads(runsQ, srv) BY <2>2 DEF RunsRead, RunsEntry
    <3> QED BY <2>1, <3>1, <1>entry DEF Reads, LoadedInv, IsEntry
  <2>3. CASE RunsReply
    <3>1. runsQ' = Replies(runsQ, runsQ.read) BY <2>3 DEF RunsReply, RunsEntry
    <3>2. IsEntry(runsQ') /\ runsQ'.loaded BY <3>1 DEF Replies, LoadedInv, IsEntry
    <3> QED BY <3>2 DEF LoadedInv
  <2> QED BY <1>5, <2>2, <2>3
<1>6. ASSUME NEW r \in DOMAIN srv, Approve(r) \/ OpenReject(r) PROVE LoadedInv'
  <2>1. runsQ' = runsQ /\ r \in DOMAIN runsQ.data BY <1>6 DEF Approve, OpenReject, Shows
  <2>2. runsQ.data # << >> BY <2>1
  <2> QED BY <2>1, <2>2 DEF LoadedInv
<1>7. CASE SubmitReject
  <2>1. runsQ' = runsQ /\ modals # {} BY <1>7 DEF SubmitReject
  <2> QED BY <2>1 DEF LoadedInv
<1>8. CASE User
  <2>1. CASE \E s \in Screens : Tab(s) BY <2>1, <1>1, <1>2 DEF Tab
  <2>2. CASE Back BY <2>2, <1>1, <1>same DEF Back
  <2>3. CASE Recommend \/ CloseReject \/ TallyPulled \/ \E w \in {"up", "veto"} : VotePressed(w)
    BY <2>3, <1>same DEF Recommend, CloseReject, TallyPulled, TallyEntry, VotePressed
  <2> QED BY <1>4, <1>6, <1>7, <1>8, <2>1, <2>2, <2>3 DEF User
<1>9. CASE Polling
  <2>1. ASSUME NEW p \in pollers, TickFires(p) \/ TickFails(p) \/ TickAnswered(p) PROVE LoadedInv'
    BY <2>1, <1>3, <1>same DEF TickFires, TickFails, TickAnswered
  <2>2. ASSUME NEW p \in pollers, LeaveForRuns(p) PROVE LoadedInv'
    BY <2>2, <1>2 DEF LeaveForRuns
  <2> QED BY <1>9, <2>1, <2>2 DEF Polling
<1>10. CASE Network
  <2>1. ASSUME NEW d \in decisions, DecisionAnswered(d) PROVE LoadedInv'
    BY <2>1, <1>3 DEF DecisionAnswered, Turns
  <2>2. ASSUME NEW d \in decisions, DecisionServed(d) \/ DecisionSettled(d) \/ DecisionFails(d)
        PROVE  LoadedInv'
    BY <2>2, <1>same DEF DecisionServed, DecisionSettled, DecisionFails, Turns
  <2>3. ASSUME NEW v \in votes, \/ VoteShown(v) \/ VoteServed(v)
                                \/ VoteAnswered(v) \/ VoteFails(v)
        PROVE  LoadedInv'
    BY <2>3, <1>same DEF VoteShown, VoteServed, VoteAnswered, VoteFails
  <2>4. CASE TallyRead \/ TallyReply \/ TallyFail
    BY <2>4, <1>same DEF TallyRead, TallyReply, TallyFail, TallyEntry
  <2>5. ASSUME NEW k \in kicks, Recommended(k) PROVE LoadedInv'
    BY <2>5, <1>same DEF Recommended
  <2> QED BY <1>4, <1>5, <1>10, <2>1, <2>2, <2>3, <2>4, <2>5 DEF Network
<1>11. CASE \E r \in DOMAIN srv : RunMoves(r) BY <1>11, <1>same DEF RunMoves
<1>12. CASE UNCHANGED screenVars BY <1>12, <1>same DEF screenVars
<1> QED BY <1>8, <1>9, <1>10, <1>11, <1>12 DEF ScreensNext

\* The runs keep their places.
LEMMA RunChanges ==
    ASSUME RunsInv, NEW r \in DOMAIN srv,
           NEW run \in ServerRun, run.turn >= srv[r].turn, srv' = [srv EXCEPT ![r] = run],
           UNCHANGED <<answered, runsQ>>
    PROVE  RunsInv'
<1>1. srv' \in Seq(ServerRun) /\ Len(srv') = Len(srv) BY DEF RunsInv
<1>2. \A q \in DOMAIN srv : srv'[q] = IF q = r THEN run ELSE srv[q] BY DEF RunsInv
<1>3. run.turn \in Nat BY DEF ServerRun
<1>4. \A q \in DOMAIN answered : answered[q] <= srv'[q].turn
  BY <1>2, <1>3, ServerRuns DEF RunsInv
<1> QED BY <1>1, <1>4 DEF RunsInv, UpToDate

LEMMA RunsStep == LoadedInv /\ RunsInv /\ [ScreensNext]_screenVars => RunsInv'
<1> SUFFICES ASSUME LoadedInv, RunsInv, [ScreensNext]_screenVars PROVE RunsInv'
  OBVIOUS
<1> USE DEF runVars, navVars
<1>entry. ASSUME UNCHANGED <<srv, answered>>, IsEntry(runsQ'),
                 runsQ'.data = runsQ.data,
                 \/ runsQ'.at = "sent" \/ (runsQ'.at = "idle" /\ runsQ'.blind)
                 \/ runsQ'.at = runsQ.at /\ runsQ'.read = runsQ.read
                      /\ (runsQ'.blind \/ runsQ' = runsQ)
          PROVE  RunsInv'
  BY <1>entry DEF RunsInv, UpToDate
<1>same. ASSUME UNCHANGED <<srv, answered, runsQ>> PROVE RunsInv'
  BY <1>same DEF RunsInv, UpToDate
<1>1. ASSUME NEW k \in kicks, Recommended(k) PROVE RunsInv'
  <2> DEFINE new == [status |-> "running", turn |-> 0]
  <2>1. /\ srv' = Append(srv, new) /\ answered' = Append(answered, 0)
        /\ runsQ' = runsQ
    BY <1>1 DEF Recommended
  <2>2. srv' \in Seq(ServerRun) /\ answered' \in Seq(Nat) /\ Len(answered') = Len(srv')
    BY <2>1 DEF RunsInv, ServerRun
  <2>3. \A r \in DOMAIN answered' :
           \/ r \in DOMAIN answered /\ answered'[r] = answered[r] /\ srv'[r] = srv[r]
           \/ answered'[r] = 0 /\ srv'[r] = new
    BY <2>1 DEF RunsInv, ServerRun
  <2>4. \A r \in DOMAIN answered' : answered'[r] <= srv'[r].turn BY <2>3 DEF RunsInv
  <2>5. ASSUME NEW list, UpToDate(list)
        PROVE  \A r \in DOMAIN answered' :
                  answered'[r] > 0 => r \in DOMAIN list /\ list[r].turn >= answered'[r]
    BY <2>3, <2>5 DEF UpToDate
  <2> QED BY <2>1, <2>2, <2>4, <2>5 DEF RunsInv, UpToDate
<1>2. ASSUME NEW r \in DOMAIN srv, RunMoves(r) PROVE RunsInv'
  <2>1. PICK s \in {"interrupted", "ended"} : srv' = [srv EXCEPT ![r].status = s]
    BY <1>2 DEF RunMoves
  <2>2. srv' = [srv EXCEPT ![r] = [srv[r] EXCEPT !.status = s]] BY <2>1
  <2>3. /\ [srv[r] EXCEPT !.status = s] \in ServerRun
        /\ [srv[r] EXCEPT !.status = s].turn = srv[r].turn
    BY ServerRuns DEF ServerRun
  <2>4. UNCHANGED <<answered, runsQ>> BY <1>2 DEF RunMoves
  <2>5. srv[r].turn >= srv[r].turn BY ServerRuns
  <2> QED BY <2>2, <2>3, <2>4, <2>5, RunChanges
<1>3. ASSUME NEW d \in decisions, DecisionServed(d) PROVE RunsInv'
  <2>1. srv' = [srv EXCEPT ![d.run] = [status |-> "running", turn |-> @.turn + 1]]
        /\ UNCHANGED <<answered, runsQ>>
    BY <1>3 DEF DecisionServed
  <2>2. CASE d.run \in DOMAIN srv
    <3> DEFINE run == [status |-> "running", turn |-> srv[d.run].turn + 1]
    <3>1. srv[d.run].turn \in Nat BY <2>2, ServerRuns
    <3>2. run \in ServerRun /\ run.turn >= srv[d.run].turn BY <3>1 DEF ServerRun
    <3>3. srv' = [srv EXCEPT ![d.run] = run] BY <2>1
    <3> HIDE DEF run
    <3> QED BY <2>1, <2>2, <3>2, <3>3, RunChanges
  <2>3. CASE d.run \notin DOMAIN srv
    <3>1. srv' = srv BY <2>1, <2>3 DEF RunsInv
    <3> QED BY <2>1, <3>1 DEF RunsInv, UpToDate
  <2> QED BY <2>2, <2>3
<1>4. ASSUME NEW d \in decisions, DecisionAnswered(d) PROVE RunsInv'
  <2>1. runsQ' = Invalidate(runsQ, Mounted("runs")) /\ UNCHANGED srv
    BY <1>4 DEF DecisionAnswered
  <2>2. IsEntry(runsQ') BY <2>1, EntryOutcomes DEF RunsInv, Mounted
  <2>3. CASE Mounted("runs")
    <3> DEFINE marked == [runsQ EXCEPT !.stale = TRUE]
    <3>a. runsQ.loaded BY <1>4 DEF LoadedInv
    <3>b. IsEntry(marked) /\ marked.loaded BY <3>a DEF RunsInv, IsEntry
    <3> HIDE DEF marked
    <3>c. ~Misses(runsQ, Mounted("runs")) /\ ~Joins(marked)
      BY <2>3, <3>a, <3>b DEF Misses, Joins
    <3>d. runsQ' = Fetch(marked) BY <2>1, <3>c DEF Invalidate, Refetch, marked
    <3>1. runsQ'.at = "sent" BY <3>b, <3>d DEF Fetch, IsEntry
    <3>2. answered' = [answered EXCEPT ![d.run] = srv[d.run].turn]
      BY <1>4, <2>3 DEF DecisionAnswered
    <3>3. CASE d.run \notin DOMAIN srv
      <4>1. answered' = answered BY <3>2, <3>3, ServerRuns DEF RunsInv
      <4> QED BY <2>1, <2>2, <3>1, <4>1 DEF RunsInv
    <3>4. CASE d.run \in DOMAIN srv
      <4> DEFINE turn == srv[d.run].turn
      <4>1. turn \in Nat /\ turn <= turn BY <3>4, ServerRuns
      <4> HIDE DEF turn
      <4>2. /\ answered' \in Seq(Nat) /\ Len(answered') = Len(answered)
            /\ DOMAIN answered' = DOMAIN answered
            /\ \A q \in DOMAIN answered :
                  answered'[q] = IF q = d.run THEN turn ELSE answered[q]
        BY <3>2, <3>4, <4>1, ServerRuns DEF RunsInv, turn
      <4>3. \A q \in DOMAIN answered' : answered'[q] <= srv[q].turn
        BY <4>1, <4>2 DEF RunsInv, turn
      <4> QED BY <2>1, <2>2, <3>1, <4>2, <4>3 DEF RunsInv
    <3> QED BY <3>3, <3>4
  <2>4. CASE ~Mounted("runs")
    <3>1. answered' = answered BY <1>4, <2>4 DEF DecisionAnswered
    <3>2. Mounted("runs") \in BOOLEAN BY DEF Mounted
    <3> QED BY <2>1, <3>1, <3>2, <1>entry, EntryOutcomes DEF RunsInv
  <2> QED BY <2>3, <2>4
<1>5. ASSUME RunsRead PROVE RunsInv'
  <2>1. runsQ' = Reads(runsQ, srv) /\ UNCHANGED <<srv, answered>>
    BY <1>5 DEF RunsRead, RunsEntry
  <2>2. runsQ'.at = "read" /\ runsQ'.read = srv /\ IsEntry(runsQ')
    BY <2>1 DEF Reads, RunsInv, IsEntry
  <2>3. \A r \in DOMAIN answered :
           r \in DOMAIN srv /\ srv[r].turn \in Nat /\ answered[r] \in Nat
    BY ServerRuns
  <2>4. UpToDate(srv) BY <2>3 DEF UpToDate, RunsInv
  <2> QED BY <2>1, <2>2, <2>4 DEF RunsInv, UpToDate
<1>6. ASSUME RunsReply PROVE RunsInv'
  <2>1. /\ runsQ.at = "read" /\ runsQ' = Replies(runsQ, runsQ.read)
        /\ UNCHANGED <<srv, answered>>
    BY <1>6 DEF RunsReply, RunsEntry
  <2>2. /\ runsQ'.at = "idle" /\ runsQ'.data = runsQ.read
        /\ IsEntry(runsQ')
    BY <2>1 DEF Replies, RunsInv, IsEntry
  <2> QED BY <2>1, <2>2 DEF RunsInv, UpToDate
<1>7. ASSUME RunsInterval \/ RunsPulled \/ RunsFail PROVE RunsInv'
  <2>1. /\ runsQ' = Fetch(runsQ) \/ runsQ' = FetchFails(runsQ) \/ runsQ' = Refetch(runsQ)
        /\ UNCHANGED <<srv, answered>>
    BY <1>7 DEF RunsInterval, RunsPulled, RunsFail, RunsEntry
  <2> QED BY <2>1, <1>entry, EntryOutcomes DEF RunsInv
<1>8. ASSUME NEW s, MountEntries(s), UNCHANGED <<srv, answered>> PROVE RunsInv'
  <2>1. runsQ' \in OnMount(runsQ) \/ runsQ' = runsQ BY <1>8 DEF MountEntries
  <2> QED BY <2>1, <1>8, <1>entry, <1>same, EntryOutcomes DEF RunsInv
<1>9. ASSUME NEW p \in pollers, TickAnswered(p) PROVE RunsInv'
  <2>1. /\ (runsQ' = runsQ \/ runsQ' = Invalidate(runsQ, Mounted("runs")))
        /\ UNCHANGED <<srv, answered>>
    BY <1>9 DEF TickAnswered
  <2>2. Mounted("runs") \in BOOLEAN BY DEF Mounted
  <2> QED BY <2>1, <2>2, <1>entry, <1>same, EntryOutcomes DEF RunsInv
<1>10. CASE User
  <2>1. CASE \E s \in Screens : Tab(s) BY <2>1, <1>8 DEF Tab
  <2>2. CASE RunsPulled BY <2>2, <1>7
  <2>3. CASE Back \/ Recommend \/ CloseReject \/ SubmitReject \/ TallyPulled
    BY <2>3, <1>same DEF Back, Recommend, CloseReject, SubmitReject, TallyPulled,
       TallyEntry
  <2>4. CASE \/ \E r \in DOMAIN srv : Approve(r) \/ OpenReject(r)
             \/ \E w \in {"up", "veto"} : VotePressed(w)
    BY <2>4, <1>same DEF Approve, OpenReject, VotePressed
  <2> QED BY <1>10, <2>1, <2>2, <2>3, <2>4 DEF User
<1>11. CASE Polling
  BY <1>11, <1>8, <1>9, <1>same DEF Polling, TickFires, TickFails, LeaveForRuns
<1>12. CASE Network
  <2>1. CASE \E d \in decisions : DecisionSettled(d) \/ DecisionFails(d)
    BY <2>1, <1>same DEF DecisionSettled, DecisionFails
  <2>2. CASE \E v \in votes : \/ VoteShown(v) \/ VoteServed(v)
                            \/ VoteAnswered(v) \/ VoteFails(v)
    BY <2>2, <1>same DEF VoteShown, VoteServed, VoteAnswered, VoteFails
  <2>3. CASE TallyRead \/ TallyReply \/ TallyFail
    BY <2>3, <1>same DEF TallyRead, TallyReply, TallyFail, TallyEntry
  <2> QED BY <1>12, <2>1, <2>2, <2>3, <1>1, <1>3, <1>4, <1>5, <1>6, <1>7 DEF Network
<1>13. CASE UNCHANGED screenVars BY <1>13, <1>same DEF screenVars
<1> QED BY <1>2, <1>10, <1>11, <1>12, <1>13 DEF ScreensNext

(***************************************************************************)
(* Once a decision has been answered on a mounted runs screen, the list at *)
(* rest never shows the run as it stood before (runs.tsx, the invalidation *)
(* in onSuccess).                                                          *)
(***************************************************************************)
THEOREM DecisionIsShown == ScreensSpec => []DecisionShows
<1>1. ScreensInit => LoadedInv /\ RunsInv
  BY DEF ScreensInit, LoadedInv, RunsInv, UpToDate, Entry, IsEntry
<1>2. RunsInv => DecisionShows BY DEF RunsInv, DecisionShows, UpToDate
<1> QED BY <1>1, <1>2, LoadedStep, RunsStep, PTL DEF ScreensSpec

----------------------------------------------------------------------------
(* MissionScreens: the vote screen. *)

\* Some session votes most; it ranks before no other.
LEMMA BoundIsNatural ==
    ASSUME Sessions # {}
    PROVE  Bound("vote") \in Nat
<1> DEFINE Ahead(p) == {q \in Sessions : q["vote"] > p["vote"]}
           T == {Ahead(p) : p \in Sessions}
           S == {session["vote"] : session \in Sessions}
<1>1. \A s \in Sessions : s["vote"] \in Nat BY SessionsAssumption DEF Kinds
<1>2. T \subseteq FiniteSubsetsOf(Sessions) /\ T # {}
  <2>1. ASSUME NEW A \in T PROVE A \in FiniteSubsetsOf(Sessions)
    <3>1. A \in SUBSET Sessions OBVIOUS
    <3>2. IsFiniteSet(A) BY <3>1, FS_Subset, SessionsAssumption
    <3> QED BY <3>1, <3>2 DEF FiniteSubsetsOf
  <2> QED BY <2>1
<1>3. PICK A \in T : \A B \in T : <<B, A>> \notin StrictSubsetOrdering(Sessions)
  <2>1. IsWellFoundedOn(StrictSubsetOrdering(Sessions), FiniteSubsetsOf(Sessions))
    BY FS_StrictSubsetOrderingWellFounded, SessionsAssumption
  <2> HIDE DEF T
  <2> QED BY <1>2, <2>1, WFMin
<1>4. PICK p \in Sessions : A = Ahead(p) OBVIOUS
<1>5. \A q \in Sessions : p["vote"] >= q["vote"]
  <2> SUFFICES ASSUME NEW q \in Sessions, q["vote"] > p["vote"] PROVE FALSE
    BY <1>1
  <2>1. Ahead(q) \subseteq Ahead(p) BY <1>1
  <2>2. q \in Ahead(p) \ Ahead(q) BY <1>1
  <2>3. <<Ahead(q), Ahead(p)>> \in StrictSubsetOrdering(Sessions)
    BY <2>1, <2>2 DEF StrictSubsetOrdering
  <2> QED BY <1>3, <1>4, <2>3
<1>6. \E x \in S : \A y \in S : x >= y BY <1>5
<1>7. Max(S) \in S BY <1>6 DEF Max
<1> QED BY <1>1, <1>7 DEF Bound

\* With no vote under way only the entry refers to an object.
LEMMA NewObjectIsThere ==
    ASSUME Sessions # {}, votes = {},
           \/ tallyQ.data = << >> \/ \E o : tallyQ.data = <<o>>
    PROVE  NewObject \in Objects
<1>1. \A o, n \in Referred : o = n
  BY DEF Referred, Elements
<1>2. {1, 2} \subseteq Objects /\ Objects \subseteq Nat \ {0}
  BY BoundIsNatural DEF Objects
<1>3. \E o \in Objects \ Referred : \A n \in Objects \ Referred : o <= n
  <2>1. CASE 1 \notin Referred BY <1>2, <2>1
  <2>2. CASE 1 \in Referred
    <3>1. 2 \notin Referred BY <1>1, <2>2
    <3> QED BY <1>2, <2>2, <3>1
  <2> QED BY <2>1, <2>2
<1> QED BY <1>3 DEF NewObject

\* The entry holds the server's vote.
Current ==
    IF mine = NoVote THEN tallyQ.data = <<0>>
    ELSE \E o \in Objects : tallyQ.data = <<o>> /\ heap[o] = Counts(mine)

TallyData(data) == data = << >> \/ \E o : data = <<o>>

TallyInv ==
    /\ Sessions # {}
    /\ IsEntry(tallyQ)
    /\ heap = [o \in DOMAIN heap |-> heap[o]] /\ Objects \subseteq DOMAIN heap
    /\ TallyData(tallyQ.data)
    /\ \A v \in votes : {"at", "prev"} \subseteq DOMAIN v /\ TallyData(v.prev)
    /\ votes = {} /\ ~tallyQ.blind =>
          /\ tallyQ.at = "read" => tallyQ.read = <<mine>>
          /\ tallyQ.at = "idle" => Current

LEMMA TallyStep == TallyInv /\ [ScreensNext]_screenVars => TallyInv'
<1> SUFFICES ASSUME TallyInv, [ScreensNext]_screenVars PROVE TallyInv'
  OBVIOUS
<1> USE DEF voteVars, navVars
<1>same. ASSUME UNCHANGED voteVars PROVE TallyInv'
  BY <1>same DEF TallyInv, Current
<1>entry. ASSUME UNCHANGED <<mine, heap, votes>>, IsEntry(tallyQ'),
                 \/ tallyQ'.at = "sent" \/ (tallyQ'.at = "idle" /\ tallyQ'.blind)
                 \/ tallyQ'.at = tallyQ.at /\ tallyQ'.read = tallyQ.read
                      /\ (tallyQ'.blind \/ tallyQ' = tallyQ),
                 tallyQ'.data = tallyQ.data
          PROVE  TallyInv'
  BY <1>entry DEF TallyInv, Current
\* While a vote is under way the counts may be anything.
<1>voting. ASSUME votes' # {}, IsEntry(tallyQ'), TallyData(tallyQ'.data),
                  heap' = [o \in DOMAIN heap |-> heap'[o]],
                  \A v \in votes' : {"at", "prev"} \subseteq DOMAIN v /\ TallyData(v.prev)
           PROVE  TallyInv'
  BY <1>voting DEF TallyInv, TallyData
<1>mount. Mounted("vote") \in BOOLEAN BY DEF Mounted
<1>1. ASSUME NEW s, MountEntries(s), UNCHANGED <<mine, heap, votes>> PROVE TallyInv'
  <2>1. tallyQ' \in OnMount(tallyQ) \/ tallyQ' = tallyQ BY <1>1 DEF MountEntries
  <2> QED BY <2>1, <1>1, <1>entry, <1>same, EntryOutcomes DEF TallyInv
<1>2. ASSUME TallyPulled \/ TallyFail PROVE TallyInv'
  <2>1. /\ tallyQ' = Refetch(tallyQ) \/ tallyQ' = FetchFails(tallyQ)
        /\ UNCHANGED <<mine, heap, votes>>
    BY <1>2 DEF TallyPulled, TallyFail, TallyEntry
  <2> QED BY <2>1, <1>entry, EntryOutcomes DEF TallyInv
<1>3. ASSUME TallyRead PROVE TallyInv'
  <2>1. tallyQ' = Reads(tallyQ, <<mine>>) /\ UNCHANGED <<mine, heap, votes>>
    BY <1>3 DEF TallyRead, TallyEntry
  <2>2. /\ tallyQ'.at = "read" /\ tallyQ'.read = <<mine>> /\ tallyQ'.data = tallyQ.data
        /\ IsEntry(tallyQ')
    BY <2>1 DEF Reads, TallyInv, IsEntry
  <2> QED BY <2>1, <2>2 DEF TallyInv
<1>4. ASSUME TallyReply PROVE TallyInv'
  <2>1. tallyQ.at = "read" /\ UNCHANGED <<mine, votes>>
    BY <1>4 DEF TallyReply, TallyEntry
  <2>2. ASSUME NEW data, tallyQ' = Replies(tallyQ, data)
        PROVE  /\ IsEntry(tallyQ') /\ tallyQ'.at = "idle"
               /\ tallyQ'.data = data /\ tallyQ'.blind = tallyQ.blind
    BY <2>2 DEF Replies, TallyInv, IsEntry
  <2>3. CASE tallyQ.read = <<NoVote>>
    <3>1. tallyQ' = Replies(tallyQ, <<0>>) /\ UNCHANGED heap
      BY <1>4, <2>3 DEF TallyReply, TallyEntry
    <3> QED BY <2>1, <2>2, <2>3, <3>1 DEF TallyInv, TallyData, Current
  <2>4. CASE tallyQ.read # <<NoVote>>
    <3>1. /\ tallyQ' = Replies(tallyQ, <<NewObject>>)
          /\ heap' = [heap EXCEPT ![NewObject] = Counts(tallyQ.read[1])]
      BY <1>4, <2>4 DEF TallyReply, TallyEntry
    <3>2. ASSUME votes = {}, ~tallyQ.blind PROVE Current'
      <4>1. tallyQ.read = <<mine>> /\ mine # NoVote BY <2>1, <2>4, <3>2 DEF TallyInv
      <4>2. NewObject \in Objects BY <3>2, NewObjectIsThere DEF TallyInv, TallyData
      <4>3. heap'[NewObject] = Counts(mine) BY <3>1, <4>1, <4>2 DEF TallyInv
      <4>4. tallyQ'.data = <<NewObject>> BY <3>1, <2>2
      <4> QED BY <2>1, <4>1, <4>2, <4>3, <4>4 DEF Current
    <3>3. heap' = [o \in DOMAIN heap' |-> heap'[o]] /\ Objects \subseteq DOMAIN heap'
      BY <3>1 DEF TallyInv
    <3> QED BY <2>1, <2>2, <3>1, <3>2, <3>3 DEF TallyInv, TallyData
  <2> QED BY <2>3, <2>4
<1>5. ASSUME NEW w \in {"up", "veto"}, VotePressed(w) PROVE TallyInv'
  <2> DEFINE new == [id |-> left.vote, weight |-> w, at |-> "cancelling", prev |-> << >>]
  <2>1. /\ votes' = votes \cup {new} /\ UNCHANGED <<mine, heap>>
        /\ tallyQ' = [tallyQ EXCEPT !.at = "idle"]
    BY <1>5 DEF VotePressed
  <2>2. votes' # {} /\ \A u \in votes' : {"at", "prev"} \subseteq DOMAIN u /\ TallyData(u.prev)
    <3>1. {"at", "prev"} \subseteq DOMAIN new /\ TallyData(new.prev) BY DEF TallyData
    <3> HIDE DEF new
    <3> QED BY <2>1, <3>1 DEF TallyInv
  <2>3. IsEntry(tallyQ') /\ tallyQ'.data = tallyQ.data
    BY <2>1 DEF TallyInv, IsEntry
  <2> QED BY <2>1, <2>2, <2>3, <1>voting DEF TallyInv
<1>6. ASSUME NEW v \in votes, VoteShown(v) PROVE TallyInv'
  <2>1. votes' = (votes \ {v}) \cup {[v EXCEPT !.at = "sent", !.prev = tallyQ.data]}
    BY <1>6 DEF VoteShown, VoteTurns
  <2>2. \A u \in votes' : {"at", "prev"} \subseteq DOMAIN u /\ TallyData(u.prev)
    BY <2>1 DEF TallyInv
  <2>3. /\ IsEntry(tallyQ') /\ TallyData(tallyQ'.data)
        /\ heap' = [o \in DOMAIN heap' |-> heap'[o]] /\ Objects \subseteq DOMAIN heap'
    BY <1>6 DEF VoteShown, SetData, TallyInv, TallyData, IsEntry
  <2> QED BY <2>1, <2>2, <2>3, <1>voting DEF TallyInv
<1>7. ASSUME NEW v \in votes, VoteServed(v) PROVE TallyInv'
  <2>1. votes' = (votes \ {v}) \cup {[v EXCEPT !.at = "served"]} /\ UNCHANGED <<tallyQ, heap>>
    BY <1>7 DEF VoteServed, VoteTurns
  <2>2. \A u \in votes' : {"at", "prev"} \subseteq DOMAIN u /\ TallyData(u.prev)
    BY <2>1 DEF TallyInv
  <2> QED BY <2>1, <2>2, <1>voting DEF TallyInv
<1>8. ASSUME NEW v \in votes, NEW q, IsEntry(q), TallyData(q.data),
             votes' = votes \ {v}, tallyQ' = Invalidate(q, Mounted("vote")),
             UNCHANGED heap
      PROVE  TallyInv'
  <2>1. IsEntry(tallyQ') /\ tallyQ'.data = q.data
    BY <1>8, <1>mount, EntryOutcomes
  <2>2. tallyQ'.at = "sent" \/ tallyQ'.blind
    <3> DEFINE marked == [q EXCEPT !.stale = TRUE]
    <3>1. IsEntry(marked) /\ marked.at = q.at /\ marked.loaded = q.loaded
      BY <1>8 DEF IsEntry
    <3>2. marked.at \in {"idle", "sent", "read"} BY <3>1 DEF IsEntry
    <3>3. tallyQ' = IF Misses(q, Mounted("vote")) THEN [marked EXCEPT !.blind = TRUE]
                    ELSE Refetch(marked)
      BY <1>8 DEF Invalidate
    <3> HIDE DEF marked
    <3>4. CASE Misses(q, Mounted("vote")) BY <3>1, <3>3, <3>4 DEF IsEntry
    <3>5. CASE ~Misses(q, Mounted("vote")) /\ Joins(marked)
      BY <3>1, <3>2, <3>3, <3>5 DEF Misses, Joins, Refetch
    <3>6. CASE ~Misses(q, Mounted("vote")) /\ ~Joins(marked)
      BY <3>1, <3>3, <3>6 DEF Refetch, Fetch, IsEntry
    <3> QED BY <3>4, <3>5, <3>6
  <2> QED BY <1>8, <2>1, <2>2 DEF TallyInv
<1>9. ASSUME NEW v \in votes, VoteAnswered(v) PROVE TallyInv'
  BY <1>9, <1>8 DEF VoteAnswered, Settled, TallyInv
<1>10. ASSUME NEW v \in votes, VoteFails(v) PROVE TallyInv'
  <2> DEFINE q == IF v.prev = << >> THEN tallyQ ELSE SetData(tallyQ, v.prev)
  <2>1. IsEntry(q) /\ TallyData(q.data)
    BY DEF TallyInv, IsEntry, SetData
  <2>2. votes' = votes \ {v} /\ tallyQ' = Invalidate(q, Mounted("vote")) /\ UNCHANGED heap
    BY <1>10 DEF VoteFails, Settled
  <2> HIDE DEF q
  <2> QED BY <2>1, <2>2, <1>8
<1>11. CASE User
  <2>1. CASE \E s \in Screens : Tab(s) BY <2>1, <1>1 DEF Tab
  <2>2. CASE Back \/ Recommend \/ RunsPulled \/ CloseReject \/ SubmitReject
    BY <2>2, <1>same DEF Back, Recommend, RunsPulled, RunsEntry, CloseReject,
       SubmitReject
  <2>3. CASE \E r \in DOMAIN srv : Approve(r) \/ OpenReject(r)
    BY <2>3, <1>same DEF Approve, OpenReject
  <2> QED BY <1>11, <1>2, <1>5, <2>1, <2>2, <2>3 DEF User
<1>12. CASE Polling
  BY <1>12, <1>1, <1>same DEF Polling, TickFires, TickFails, TickAnswered, LeaveForRuns
<1>13. CASE Network
  <2>1. CASE \E k \in kicks : Recommended(k) BY <2>1, <1>same DEF Recommended
  <2>2. CASE \E d \in decisions : \/ DecisionServed(d) \/ DecisionAnswered(d)
                                \/ DecisionSettled(d) \/ DecisionFails(d)
    BY <2>2, <1>same DEF DecisionServed, DecisionAnswered, DecisionSettled,
       DecisionFails
  <2>3. CASE RunsInterval \/ RunsRead \/ RunsReply \/ RunsFail
    BY <2>3, <1>same DEF RunsInterval, RunsRead, RunsReply, RunsFail, RunsEntry
  <2> QED BY <1>13, <2>1, <2>2, <2>3, <1>2, <1>3, <1>4, <1>6, <1>7, <1>9, <1>10
     DEF Network
<1>14. CASE \E r \in DOMAIN srv : RunMoves(r) BY <1>14, <1>same DEF RunMoves
<1>15. CASE UNCHANGED screenVars BY <1>15, <1>same DEF screenVars
<1> QED BY <1>11, <1>12, <1>13, <1>14, <1>15 DEF ScreensNext

(***************************************************************************)
(* Whatever the optimistic counts, the rollbacks and the cancelled fetches *)
(* did meanwhile, the tally at rest is the server's (vote.tsx), but for    *)
(* the first fetch that was joined after it had read the server, which     *)
(* TallySettles excepts.                                                   *)
(***************************************************************************)
THEOREM TallyIsTheServers == ScreensSpec => []TallySettles
<1>1. ScreensInit => TallyInv
  BY DEF ScreensInit, TallyInv, TallyData, Entry, IsEntry
<1>2. TallyInv => TallySettles BY DEF TallyInv, TallySettles, Current
<1> QED BY <1>1, <1>2, TallyStep, PTL DEF ScreensSpec
=============================================================================

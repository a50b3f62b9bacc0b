--------------------------- MODULE ClientSession ---------------------------
(***************************************************************************)
(* The session of the mobile client: the token store on the device, the    *)
(* axios interceptors that attach tokens and refresh them after a 401      *)
(* (apps/mobile/src/api/client.ts) and the auth store                      *)
(* (apps/mobile/src/state/authStore.ts), against the API's token checks.   *)
(* The app may be killed at any time and read its state back from the      *)
(* device.                                                                 *)
(*                                                                         *)
(* JavaScript runs one callback at a time; every await (storage, network)  *)
(* is a point where the others run, so each stretch between two awaits is  *)
(* one action.  Sign-in is modelled where it succeeds.                     *)
(***************************************************************************)
EXTENDS Naturals, FiniteSets

CONSTANTS
    Accounts,
    None,          \* no token, nobody
    Slots,         \* a bound on concurrent API requests
    MaxTokens,     \* a bound on the access tokens minted
    MaxSignOuts,   \* a bound on the sign-outs
    MaxRestarts    \* a bound on the restarts of the app

ASSUME NoneAssumption == None \notin Accounts \cup Nat
ASSUME BoundAssumption ==
    MaxTokens \in Nat /\ MaxSignOuts \in Nat /\ MaxRestarts \in Nat

Tokens == 1..MaxTokens

VARIABLES
    minted,      \* server: access token -> account it was issued for
    expired,     \* server: access tokens past their lifetime
    dead,        \* server: accounts whose refresh token is past its lifetime
    storage,     \* device: the stored tokens and user
    store,       \* auth store: hydrated, whether it has a token, the user
    req,         \* slot -> the API request in it
    refresh,     \* the refresh in flight (refreshInFlight)
    auth,        \* the login or logout call in progress
    signOuts,    \* how much of MaxSignOuts is used
    restarts,    \* how much of MaxRestarts is used
    refused,     \* history: a refresh has failed
    crossed      \* history: since the last start, the tokens were cleared
                 \* under a refresh or a login that had yet to end, or the
                 \* store was emptied over a session stored meanwhile

server == <<minted, expired, dead>>
vars == <<minted, expired, dead, storage, store, req, refresh, auth,
          signOuts, restarts, refused, crossed>>

Storage == [access : Tokens \cup {None}, refresh : Accounts \cup {None},
            user : Accounts \cup {None}]
NoTokens == [access |-> None, refresh |-> None, user |-> None]

Store == [hydrated : BOOLEAN, access : BOOLEAN, user : Accounts \cup {None}]
SignedOut == [hydrated |-> TRUE, access |-> FALSE, user |-> None]
SignedIn == store.access

(***************************************************************************)
(* attaching: the request interceptor is reading the stored access token   *)
(* sent:      on the network                                               *)
(* waiting:   got a 401 and awaits runRefresh                              *)
(* clearing, hooking, leaving: the refresh failed; clearTokens, the hook's *)
(*            clearTokens, then the store is emptied                       *)
(***************************************************************************)
ReqPcs == {"idle", "attaching", "sent", "waiting",
           "clearing", "hooking", "leaving"}
Request == [pc : ReqPcs, token : Tokens \cup {None}, retry : BOOLEAN]
NoRequest == [pc |-> "idle", token |-> None, retry |-> FALSE]

RefreshPcs == {"idle", "reading", "sent", "storing"}
Refresh == [pc : RefreshPcs, of : Accounts \cup {None}, token : Tokens \cup {None}]
NoRefresh == [pc |-> "idle", of |-> None, token |-> None]

AuthPcs == {"idle", "storing", "naming", "entering", "calling", "clearing", "leaving"}
Auth == [pc : AuthPcs, who : Accounts \cup {None},
         token : Tokens \cup {None}, slot : Slots \cup {None}]
NoAuth == [pc |-> "idle", who |-> None, token |-> None, slot |-> None]

TypeOK ==
    /\ minted \in [Tokens -> Accounts \cup {None}]
    /\ expired \subseteq Tokens
    /\ dead \subseteq Accounts
    /\ storage \in Storage
    /\ store \in Store
    /\ req \in [Slots -> Request]
    /\ refresh \in Refresh
    /\ auth \in Auth
    /\ signOuts \in 0..MaxSignOuts
    /\ restarts \in 0..MaxRestarts
    /\ refused \in BOOLEAN /\ crossed \in BOOLEAN

Init ==
    /\ minted = [n \in Tokens |-> None]
    /\ expired = {}
    /\ dead = {}
    /\ storage = NoTokens
    /\ store = [SignedOut EXCEPT !.hydrated = FALSE]
    /\ req = [s \in Slots |-> NoRequest]
    /\ refresh = NoRefresh
    /\ auth = NoAuth
    /\ signOuts = 0
    /\ restarts = 0
    /\ refused = FALSE
    /\ crossed = FALSE

----------------------------------------------------------------------------
(* The API's side: tokens are stateless, only time ends them; the refresh
   tokens of an account are given one lifetime. *)

\* A new access token for account a, as create_access_token issues it;
\* tokens are numbered as they are minted.
Mint(a, n) ==
    /\ minted[n] = None
    /\ \A m \in 1..(n - 1) : minted[m] # None
    /\ minted' = [minted EXCEPT ![n] = a]

Accepted(n) == n # None /\ n \notin expired

AccessExpires(n) ==
    /\ minted[n] # None
    /\ n \notin expired
    /\ expired' = expired \cup {n}
    /\ UNCHANGED <<minted, dead, storage, store, req, refresh, auth,
                   signOuts, refused, restarts, crossed>>

RefreshTokenExpires(a) ==
    /\ a \notin dead
    /\ dead' = dead \cup {a}
    /\ UNCHANGED <<minted, expired, storage, store, req, refresh, auth,
                   signOuts, refused, restarts, crossed>>

----------------------------------------------------------------------------
(* An API request. *)

Start(s) ==
    /\ SignedIn
    /\ req[s] = NoRequest
    /\ auth.slot # s
    /\ req' = [req EXCEPT ![s].pc = "attaching"]
    /\ UNCHANGED <<server, storage, store, refresh, auth, signOuts, refused,
                   restarts, crossed>>

\* The stored token replaces whatever the request carried; without one a
\* retried request keeps the token the refresh returned.
Attach(s) ==
    /\ req[s].pc = "attaching"
    /\ req' = [req EXCEPT ![s].pc = "sent",
                          ![s].token = IF storage.access = None THEN @
                                       ELSE storage.access]
    /\ UNCHANGED <<server, storage, store, refresh, auth, signOuts, refused,
                   restarts, crossed>>

\* The request was accepted, or ended in an error that is not a 401.
Answered(s) ==
    /\ req[s].pc = "sent"
    /\ req' = [req EXCEPT ![s] = NoRequest]
    /\ UNCHANGED <<server, storage, store, refresh, auth, signOuts, refused,
                   restarts, crossed>>

\* A 401: a retried request gives up, any other joins the refresh in
\* flight or starts one.
Unauthorized(s) ==
    /\ req[s].pc = "sent"
    /\ ~Accepted(req[s].token)
    /\ IF req[s].retry
       THEN /\ req' = [req EXCEPT ![s] = NoRequest]
            /\ UNCHANGED refresh
       ELSE /\ req' = [req EXCEPT ![s].pc = "waiting", ![s].retry = TRUE]
            /\ refresh' = IF refresh.pc = "idle"
                          THEN [NoRefresh EXCEPT !.pc = "reading"] ELSE refresh
    /\ UNCHANGED <<server, storage, store, auth, signOuts, refused, restarts,
                   crossed>>

\* Mutant of Cleared: the user stays on the device.
ClearedTokensOnly(stored) == [stored EXCEPT !.access = None, !.refresh = None]

Cleared(stored) == NoTokens

\* storage.clearTokens, whoever is about to store something.
Clear ==
    /\ storage' = Cleared(storage)
    /\ crossed' = (crossed \/ refresh.pc \in {"sent", "storing"}
                           \/ auth.pc \in {"naming", "entering"})

\* The store is emptied, whatever has been stored since the tokens were
\* cleared.
Leave ==
    /\ store' = SignedOut
    /\ crossed' = (crossed \/ storage.access # None)

\* clearTokens; the hook clears them again and then empties the store.
ClearTokens(s) ==
    /\ req[s].pc \in {"clearing", "hooking"}
    /\ Clear
    /\ req' = [req EXCEPT ![s].pc = IF @ = "clearing" THEN "hooking"
                                    ELSE "leaving"]
    /\ UNCHANGED <<server, store, refresh, auth, signOuts, refused, restarts>>

AuthFailure(s) ==
    /\ req[s].pc = "leaving"
    /\ Leave
    /\ req' = [req EXCEPT ![s] = NoRequest]
    /\ UNCHANGED <<server, storage, refresh, auth, signOuts, refused,
                   restarts>>

----------------------------------------------------------------------------
(* runRefresh. *)

\* Mutant of Resolve: only one of the queued requests is woken.
ResolveOne(token) ==
    /\ refresh' = NoRefresh
    /\ LET s == CHOOSE t \in Slots : req[t].pc = "waiting" IN
       req' = [req EXCEPT ![s] =
                 [pc |-> IF token = None THEN "clearing" ELSE "attaching",
                  token |-> token, retry |-> TRUE]]

\* Mutant of Resolve: a request still queued when the token is there is
\* signed out like those of a failed refresh.
ResolveFirstOnly(token) ==
    /\ refresh' = NoRefresh
    /\ LET s == CHOOSE t \in Slots : req[t].pc = "waiting" IN
       req' = [t \in Slots |->
         IF req[t].pc # "waiting" THEN req[t]
         ELSE [pc |-> IF token = None \/ t # s THEN "clearing" ELSE "attaching",
               token |-> token, retry |-> TRUE]]

\* The shared promise resolves: every request queued on it goes on, with
\* the new token or to clear the session.
Resolve(token) ==
    /\ refresh' = NoRefresh
    /\ req' = [t \in Slots |->
         IF req[t].pc # "waiting" THEN req[t]
         ELSE [pc |-> IF token = None THEN "clearing" ELSE "attaching",
               token |-> token, retry |-> TRUE]]

RefreshRead ==
    /\ refresh.pc = "reading"
    /\ IF storage.refresh = None
       THEN Resolve(None) /\ refused' = TRUE
       ELSE /\ refresh' = [refresh EXCEPT !.pc = "sent", !.of = storage.refresh]
            /\ UNCHANGED <<req, refused>>
    /\ UNCHANGED <<server, storage, store, auth, signOuts, restarts, crossed>>

RefreshGranted(n) ==
    /\ refresh.pc = "sent"
    /\ refresh.of \notin dead
    /\ Mint(refresh.of, n)
    /\ refresh' = [refresh EXCEPT !.pc = "storing", !.token = n]
    /\ UNCHANGED <<expired, dead, storage, store, req, auth, signOuts,
                   refused, restarts, crossed>>

\* The refresh token is refused, or the network fails: any error is null.
RefreshRefused ==
    /\ refresh.pc = "sent"
    /\ Resolve(None)
    /\ refused' = TRUE
    /\ UNCHANGED <<server, storage, store, auth, signOuts, restarts, crossed>>

RefreshStore ==
    /\ refresh.pc = "storing"
    /\ storage' = [storage EXCEPT !.access = refresh.token]
    /\ Resolve(refresh.token)
    /\ UNCHANGED <<server, store, auth, signOuts, refused, restarts, crossed>>

----------------------------------------------------------------------------
(* The auth store. *)

\* login or register answers with a pair, stored before the store changes.
Login(a, n) ==
    /\ store = SignedOut
    /\ auth = NoAuth
    /\ a \notin dead
    /\ Mint(a, n)
    /\ auth' = [NoAuth EXCEPT !.pc = "storing", !.who = a, !.token = n]
    /\ UNCHANGED <<expired, dead, storage, store, req, refresh, signOuts,
                   refused, restarts, crossed>>

LoginStore ==
    /\ auth.pc = "storing"
    /\ storage' = [storage EXCEPT !.access = auth.token, !.refresh = auth.who]
    /\ auth' = [auth EXCEPT !.pc = "naming"]
    /\ UNCHANGED <<server, store, req, refresh, signOuts, restarts, refused,
                   crossed>>

LoginName ==
    /\ auth.pc = "naming"
    /\ storage' = [storage EXCEPT !.user = auth.who]
    /\ auth' = [auth EXCEPT !.pc = "entering"]
    /\ UNCHANGED <<server, store, req, refresh, signOuts, refused, restarts,
                   crossed>>

LoginEnter ==
    /\ auth.pc = "entering"
    /\ store' = [hydrated |-> TRUE, access |-> TRUE, user |-> auth.who]
    /\ auth' = NoAuth
    /\ UNCHANGED <<server, storage, req, refresh, signOuts, refused,
                   restarts, crossed>>

\* logout calls the API first, through the interceptors like any request.
Logout(s) ==
    /\ SignedIn
    /\ auth = NoAuth
    /\ req[s] = NoRequest
    /\ signOuts < MaxSignOuts
    /\ signOuts' = signOuts + 1
    /\ req' = [req EXCEPT ![s].pc = "attaching"]
    /\ auth' = [NoAuth EXCEPT !.pc = "calling", !.slot = s]
    /\ UNCHANGED <<server, storage, store, refresh, refused, restarts, crossed>>

\* Whatever became of the call, the tokens are cleared, then the store.
LogoutClear ==
    /\ auth.pc = "calling"
    /\ req[auth.slot] = NoRequest
    /\ Clear
    /\ auth' = [auth EXCEPT !.pc = "leaving", !.slot = None]
    /\ UNCHANGED <<server, store, req, refresh, signOuts, refused, restarts>>

LogoutLeave ==
    /\ auth.pc = "leaving"
    /\ Leave
    /\ auth' = NoAuth
    /\ UNCHANGED <<server, storage, req, refresh, signOuts, refused,
                   restarts>>

----------------------------------------------------------------------------
(* The app is killed and started again. *)

Restart ==
    /\ restarts < MaxRestarts
    /\ restarts' = restarts + 1
    /\ store' = [SignedOut EXCEPT !.hydrated = FALSE]
    /\ req' = [s \in Slots |-> NoRequest]
    /\ refresh' = NoRefresh
    /\ auth' = NoAuth
    /\ UNCHANGED <<server, storage, signOuts, refused, crossed>>

\* A stored access token is enough to be signed in.
Restored(stored) ==
    [hydrated |-> TRUE, access |-> stored.access # None, user |-> stored.user]

\* hydrate; until then no screen is shown.
Hydrate ==
    /\ ~store.hydrated
    /\ store' = Restored(storage)
    /\ crossed' = FALSE
    /\ UNCHANGED <<server, storage, req, refresh, auth, signOuts, restarts, refused>>

----------------------------------------------------------------------------
(* What the device or the network eventually does; people and clocks owe
   nothing. *)
Progress ==
    \/ \E s \in Slots : \/ Attach(s) \/ Answered(s) \/ Unauthorized(s)
                        \/ ClearTokens(s) \/ AuthFailure(s)
    \/ RefreshRead \/ RefreshStore \/ RefreshRefused
    \/ \E n \in Tokens : RefreshGranted(n)
    \/ LoginStore \/ LoginName \/ LoginEnter \/ LogoutClear \/ LogoutLeave
    \/ Hydrate

Next ==
    \/ Progress \/ Restart
    \/ \E s \in Slots : Start(s) \/ Logout(s)
    \/ \E a \in Accounts, n \in Tokens : Login(a, n)
    \/ \E n \in Tokens : AccessExpires(n)
    \/ \E a \in Accounts : RefreshTokenExpires(a)

Spec == Init /\ [][Next]_vars

FairSpec == Spec /\ \A s \in Slots :
    /\ WF_vars(Attach(s)) /\ WF_vars(Answered(s) \/ Unauthorized(s))
    /\ WF_vars(ClearTokens(s)) /\ WF_vars(AuthFailure(s))
    /\ WF_vars(RefreshRead) /\ WF_vars(RefreshStore)
    /\ WF_vars(RefreshRefused \/ \E n \in Tokens : RefreshGranted(n))

----------------------------------------------------------------------------
(* Properties. *)

(***************************************************************************)
(* Expiring access tokens are invisible: while nobody signs out and no     *)
(* refresh fails, the user stays signed in, whichever requests get a 401   *)
(* in whatever order around the one refresh they share.                    *)
(***************************************************************************)
ExpiryIsInvisible ==
    [][SignedIn /\ ~SignedIn' =>
         refused \/ auth.pc = "leaving" \/ restarts' # restarts]_vars

(***************************************************************************)
(* A session survives the app: with nothing under way, what hydrate would  *)
(* read is the session the user has, signed in or out and as whom.  A      *)
(* login cut short counts as signed in without a user.  Three races are    *)
(* excepted (crossed): a refresh, or a login, that stores or enters after  *)
(* the tokens were cleared under it, and a failed request of an old        *)
(* session that empties the store of the one stored since.                 *)
(***************************************************************************)
SessionSurvives ==
    /\ store.hydrated /\ ~crossed /\ auth = NoAuth /\ refresh = NoRefresh
    /\ \A s \in Slots : req[s] = NoRequest
    => store = Restored(storage)

(***************************************************************************)
(* Every request queued on a refresh is woken by it: no caller waits for   *)
(* an answer forever.                                                      *)
(***************************************************************************)
RequestsSettle == \A s \in Slots : req[s].pc # "idle" ~> req[s].pc = "idle"
=============================================================================

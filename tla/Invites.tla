------------------------------ MODULE Invites ------------------------------
(***************************************************************************)
(* A mission, its members and its invite links                             *)
(* (services/api/app/services/mission_service.py, api/v1/missions.py).     *)
(*                                                                         *)
(* Requests interleave between any two of their database calls; a session  *)
(* writes at its flush, atomically, and a failed write rolls all of it     *)
(* back.  Foreign keys act only where the database enforces them: always   *)
(* on Postgres, never on SQLite, the default, whose connections leave the  *)
(* check off.                                                              *)
(***************************************************************************)
EXTENDS Naturals, FiniteSets

CONSTANTS
    Users, Owner,      \* accounts, and the one that created the mission
    InviteIds,         \* a bound on the invites created
    MaxUses,           \* the values of max_uses an owner asks for
    Slots,             \* a bound on concurrent redeem requests
    ForeignKeys        \* whether the database enforces foreign keys

ASSUME OwnerAssumption == Owner \in Users
ASSUME MaxUsesAssumption == MaxUses \subseteq Nat \ {0}
ASSUME ForeignKeysAssumption == ForeignKeys \in BOOLEAN

VARIABLES
    mission,     \* the missions row exists
    role,        \* user -> role of the mission_members row
    invite,      \* id -> mission_invites row
    creating,    \* invites whose create request is past its checks
    req,         \* slot -> the redeem request in it, or the last reply
    admitted     \* history: <<user, invite>> of the successful redeems

vars == <<mission, role, invite, creating, req, admitted>>

Roles == {"none", "owner", "member"}
Codes == {0, 200, 404, 409, 410, 500}

\* The count itself never passes max_uses, even when the admissions do.
Invite == {i \in [row : BOOLEAN, max : MaxUses \cup {0}, uses : Nat,
                  expired : BOOLEAN] : i.uses <= i.max}
NoInvite == [row |-> FALSE, max |-> 0, uses |-> 0, expired |-> FALSE]

Done == [pc : {"done"}, code : Codes]

\* already: the user was a member when the request looked.
Request == [pc : {"asked", "loaded", "looked", "checked"}, user : Users,
            id : InviteIds, uses : Nat, already : BOOLEAN,
            late : BOOLEAN]    \* history: sent after the mission was deleted

TypeOK ==
    /\ mission \in BOOLEAN
    /\ role \in [Users -> Roles]
    /\ invite \in [InviteIds -> Invite]
    /\ creating \subseteq InviteIds
    /\ req \in [Slots -> Done \cup Request]
    /\ admitted \subseteq Users \X InviteIds

\* create_mission has inserted the mission and its owner in one flush.
Init ==
    /\ mission = TRUE
    /\ role = [u \in Users |-> IF u = Owner THEN "owner" ELSE "none"]
    /\ invite = [i \in InviteIds |-> NoInvite]
    /\ creating = {}
    /\ req = [s \in Slots |-> [pc |-> "done", code |-> 0]]
    /\ admitted = {}

----------------------------------------------------------------------------
(* create_invite and delete_mission, of the owner. *)

CreateInviteChecks(i) ==
    /\ mission
    /\ role[Owner] = "owner"
    /\ invite[i] = NoInvite
    /\ creating' = creating \cup {i}
    /\ UNCHANGED <<mission, role, invite, req, admitted>>

CreateInvite(i, max) ==
    /\ i \in creating
    /\ invite' = IF mission \/ ~ForeignKeys
                 THEN [invite EXCEPT ![i] = [row |-> TRUE, max |-> max,
                                             uses |-> 0, expired |-> FALSE]]
                 ELSE invite
    /\ creating' = creating \ {i}
    /\ UNCHANGED <<mission, role, req, admitted>>

\* The ORM deletes the mission alone; its rows go with it by ON DELETE
\* CASCADE or not at all.
DeleteMission ==
    /\ mission
    /\ role[Owner] = "owner"
    /\ mission' = FALSE
    /\ IF ForeignKeys
       THEN /\ role' = [u \in Users |-> "none"]
            /\ invite' = [i \in InviteIds |-> [invite[i] EXCEPT !.row = FALSE]]
       ELSE UNCHANGED <<role, invite>>
    /\ UNCHANGED <<creating, req, admitted>>

\* expires_at passes.
Expire(i) ==
    /\ invite[i].row
    /\ ~invite[i].expired
    /\ invite' = [invite EXCEPT ![i].expired = TRUE]
    /\ UNCHANGED <<mission, role, creating, req, admitted>>

----------------------------------------------------------------------------
(* redeem_invite. *)

Reply(s, code) ==
    req' = [req EXCEPT ![s] = [pc |-> "done", code |-> code]]

Redeem(s, u, i) ==
    /\ req[s].pc = "done"
    /\ req' = [req EXCEPT ![s] = [pc |-> "asked", user |-> u, id |-> i,
                                  uses |-> 0, already |-> FALSE, late |-> ~mission]]
    /\ UNCHANGED <<mission, role, invite, creating, admitted>>

\* The invite is loaded and checked.
RedeemLoad(s) ==
    LET i == invite[req[s].id] IN
    /\ req[s].pc = "asked"
    /\ IF ~i.row THEN Reply(s, 404)
       ELSE IF i.expired THEN Reply(s, 410)
       ELSE IF i.uses >= i.max THEN Reply(s, 409)
       ELSE req' = [req EXCEPT ![s].pc = "loaded", ![s].uses = i.uses]
    /\ UNCHANGED <<mission, role, invite, creating, admitted>>

\* The membership is looked up, then the mission; only then is an existing
\* membership an error.
RedeemLook(s) ==
    /\ req[s].pc = "loaded"
    /\ req' = [req EXCEPT ![s].pc = "looked",
                          ![s].already = role[req[s].user] # "none"]
    /\ UNCHANGED <<mission, role, invite, creating, admitted>>

\* Mutant of RedeemCheck: an invite that is there vouches for its mission.
RedeemCheckTrustsInvite(s) ==
    /\ req[s].pc = "looked"
    /\ IF req[s].already THEN Reply(s, 409)
       ELSE req' = [req EXCEPT ![s].pc = "checked"]
    /\ UNCHANGED <<mission, role, invite, creating, admitted>>

RedeemCheck(s) ==
    /\ req[s].pc = "looked"
    /\ IF ~mission THEN Reply(s, 404)
       ELSE IF req[s].already THEN Reply(s, 409)
       ELSE req' = [req EXCEPT ![s].pc = "checked"]
    /\ UNCHANGED <<mission, role, invite, creating, admitted>>

\* The flush refuses an invite row that is gone, a second membership row,
\* and a membership of no mission where foreign keys are enforced.
Refused(s) ==
    \/ ~invite[req[s].id].row
    \/ role[req[s].user] # "none"
    \/ ForeignKeys /\ ~mission

\* Mutant of RedeemWrite: the use is counted in a transaction of its own.
RedeemWriteCountsFirst(s) ==
    LET u == req[s].user  i == req[s].id IN
    /\ req[s].pc = "checked"
    /\ invite' = [invite EXCEPT ![i].uses = IF @ < invite[i].max THEN @ + 1 ELSE @]
    /\ IF Refused(s) THEN Reply(s, 500) /\ UNCHANGED <<role, admitted>>
       ELSE /\ role' = [role EXCEPT ![u] = "member"]
            /\ admitted' = admitted \cup {<<u, i>>}
            /\ Reply(s, 200)
    /\ UNCHANGED <<mission, creating>>

\* uses + 1 is computed from the row loaded at the beginning.
RedeemWrite(s) ==
    LET u == req[s].user  i == req[s].id IN
    /\ req[s].pc = "checked"
    /\ IF Refused(s)
       THEN Reply(s, 500) /\ UNCHANGED <<role, invite, admitted>>
       ELSE /\ invite' = [invite EXCEPT ![i].uses = req[s].uses + 1]
            /\ role' = [role EXCEPT ![u] = "member"]
            /\ admitted' = admitted \cup {<<u, i>>}
            /\ Reply(s, 200)
    /\ UNCHANGED <<mission, creating>>

Next ==
    \/ \E i \in InviteIds :
         \/ CreateInviteChecks(i) \/ Expire(i)
         \/ \E max \in MaxUses : CreateInvite(i, max)
    \/ DeleteMission
    \/ \E s \in Slots :
         \/ \E u \in Users, i \in InviteIds : Redeem(s, u, i)
         \/ RedeemLoad(s) \/ RedeemLook(s) \/ RedeemCheck(s) \/ RedeemWrite(s)

Spec == Init /\ [][Next]_vars

----------------------------------------------------------------------------
(* Properties. *)

AdmittedBy(i) == {u \in Users : <<u, i>> \in admitted}

(***************************************************************************)
(* However redeem requests overlap, and whichever of them fail, a use is   *)
(* only spent on a user it admitted: a request that loses the race for a   *)
(* membership row costs the invite nothing.                                *)
(***************************************************************************)
UsesAreAdmissions ==
    \A i \in InviteIds : invite[i].uses <= Cardinality(AdmittedBy(i))

(***************************************************************************)
(* What is left of a deleted mission lets nobody in: without foreign keys  *)
(* its invites stand and still pass their own checks, and a request that   *)
(* had seen the mission before is admitted after all; but no redeem sent   *)
(* after the deletion is, and with foreign keys none that writes after it. *)
(***************************************************************************)
Admits(s) == req[s].pc = "checked" /\ req'[s] = [pc |-> "done", code |-> 200]

NobodyJoinsAfterDeletion ==
    [][\A s \in Slots : Admits(s) => mission \/ ~(ForeignKeys \/ req[s].late)]_vars
=============================================================================

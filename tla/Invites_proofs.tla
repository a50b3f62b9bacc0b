--------------------------- MODULE Invites_proofs ---------------------------
(***************************************************************************)
(* Proofs about Invites, for any users, invites, bounds on their uses and  *)
(* concurrent requests, with and without foreign keys.                     *)
(*                                                                         *)
(*   TypeOK    the type invariant, with LimitInv: a request past the check *)
(*             of an invite was below its limit, which never changes;      *)
(*   UsesInv   what a request has read of the count is no more than the    *)
(*             admissions so far, and an admitted user is a member while   *)
(*             there is a mission to be a member of;                       *)
(*   LateInv   a request sent after the deletion never passes the check of *)
(*             the mission, which does not come back.                      *)
(***************************************************************************)
EXTENDS Invites, FiniteSetTheorems, TLAPS

Redeeming == {"loaded", "looked", "checked"}

LimitInv ==
    /\ \A i \in creating : invite[i] = NoInvite
    /\ \A s \in Slots : req[s].pc \in Redeeming =>
          req[s].uses < invite[req[s].id].max

InvitesInv == TypeOK /\ LimitInv

LEMMA RequestKinds ==
    ASSUME NEW r \in Done \cup Request
    PROVE  /\ r.pc \in {"done", "asked"} \cup Redeeming
           /\ r.pc # "done" => r \in Request
BY DEF Done, Request, Redeeming

\* What a request is about.
LEMMA RequestTypes ==
    ASSUME TypeOK, NEW s \in Slots, req[s].pc \in {"asked"} \cup Redeeming
    PROVE  /\ req[s] \in Request
           /\ req[s].id \in InviteIds /\ req[s].user \in Users /\ req[s].uses \in Nat
           /\ invite[req[s].id] \in Invite
<1>1. req[s] \in Request
  BY RequestKinds DEF TypeOK, Redeeming
<1> QED BY <1>1 DEF Request, TypeOK

LEMMA InviteFields ==
    ASSUME NEW i \in Invite
    PROVE  i.row \in BOOLEAN /\ i.max \in Nat /\ i.uses \in Nat /\ i.uses <= i.max
<1>1. i \in [row : BOOLEAN, max : MaxUses \cup {0}, uses : Nat, expired : BOOLEAN]
      /\ i.uses <= i.max
  BY DEF Invite
<1>2. i.row \in BOOLEAN BY <1>1
<1>3. i.max \in MaxUses \cup {0} /\ i.uses \in Nat BY <1>1
<1>4. MaxUses \cup {0} \subseteq Nat BY MaxUsesAssumption
<1>5. i.max \in Nat BY <1>3, <1>4
<1>6. i.uses <= i.max BY <1>1
<1> QED BY <1>2, <1>3, <1>5, <1>6

LEMMA NewInvite ==
    ASSUME NEW max \in MaxUses
    PROVE  [row |-> TRUE, max |-> max, uses |-> 0, expired |-> FALSE] \in Invite
BY MaxUsesAssumption DEF Invite

LEMMA NoInviteType == NoInvite \in Invite
BY DEF NoInvite, Invite

LEMMA ClearingNoInvite == [NoInvite EXCEPT !.row = FALSE] = NoInvite
<1>1. ASSUME NEW r \in [row : BOOLEAN, max : {0}, uses : {0}, expired : BOOLEAN], r.row = FALSE
      PROVE  [r EXCEPT !.row = FALSE] = r
  BY <1>1
<1>2. NoInvite \in [row : BOOLEAN, max : {0}, uses : {0}, expired : BOOLEAN] /\ NoInvite.row = FALSE
  BY DEF NoInvite
<1> QED BY <1>1, <1>2

\* A step of one request that changes nothing but the request.
LEMMA RequestStep ==
    ASSUME InvitesInv, NEW s \in Slots, NEW r \in Done \cup Request,
           r.pc \in Redeeming => r.uses < invite[r.id].max,
           req' = [req EXCEPT ![s] = r],
           UNCHANGED <<mission, role, invite, creating, admitted>>
    PROVE  InvitesInv'
<1>1. TypeOK' BY DEF InvitesInv, TypeOK
<1>2. req'[s] = r /\ \A t \in Slots : t # s => req'[t] = req[t]
  BY DEF InvitesInv, TypeOK
<1>3. LimitInv' BY <1>2 DEF InvitesInv, LimitInv
<1> QED BY <1>1, <1>3 DEF InvitesInv

\* A step that changes the invites but no limit of an existing one.
LEMMA InviteStep ==
    ASSUME InvitesInv, mission' \in BOOLEAN, role' \in [Users -> Roles],
           invite' \in [InviteIds -> Invite], creating' \subseteq InviteIds,
           \A i \in creating' : invite'[i] = NoInvite,
           \A i \in InviteIds : invite[i] # NoInvite => invite'[i].max = invite[i].max,
           UNCHANGED <<req, admitted>>
    PROVE  InvitesInv'
<1>1. TypeOK' BY DEF InvitesInv, TypeOK
<1>2. ASSUME NEW s \in Slots, req'[s].pc \in Redeeming
      PROVE  req'[s].uses < invite'[req'[s].id].max
  <2>1. req[s].uses \in Nat /\ req[s].id \in InviteIds
    BY <1>2, RequestTypes DEF InvitesInv
  <2>2. req[s].uses < invite[req[s].id].max BY <1>2 DEF InvitesInv, LimitInv
  <2>3. invite[req[s].id] # NoInvite BY <2>1, <2>2 DEF NoInvite
  <2> QED BY <2>1, <2>2, <2>3
<1> QED BY <1>1, <1>2 DEF InvitesInv, LimitInv

LEMMA ReplyStep ==
    ASSUME InvitesInv, NEW s \in Slots, NEW code \in Codes, Reply(s, code),
           UNCHANGED <<mission, role, invite, creating, admitted>>
    PROVE  InvitesInv'
<1> DEFINE r == [pc |-> "done", code |-> code]
<1>1. r \in Done \cup Request /\ r.pc \notin Redeeming BY DEF Done, Redeeming
<1>2. req' = [req EXCEPT ![s] = r] BY DEF Reply
<1> HIDE DEF r
<1> QED BY <1>1, <1>2, RequestStep

LEMMA RedeemLoadStep ==
    ASSUME InvitesInv, NEW s \in Slots, RedeemLoad(s)
    PROVE  InvitesInv'
<1> DEFINE i == invite[req[s].id]
           r == [req[s] EXCEPT !.pc = "loaded", !.uses = i.uses]
<1>1. UNCHANGED <<mission, role, invite, creating, admitted>>
  BY DEF RedeemLoad
<1>2. CASE \E code \in {404, 410, 409} : Reply(s, code)
  BY <1>1, <1>2, ReplyStep DEF Codes
<1>3. CASE ~(i.uses >= i.max) /\ req' = [req EXCEPT ![s] = r]
  <2>1. req[s] \in Request /\ i \in Invite
    BY RequestTypes DEF RedeemLoad, InvitesInv
  <2>2. i.uses \in Nat /\ i.max \in Nat BY <2>1, InviteFields
  <2>3. r \in Request /\ r.uses = i.uses /\ r.id = req[s].id
    BY <2>1, <2>2 DEF Request
  <2>4. r.uses < invite[r.id].max BY <1>3, <2>2, <2>3
  <2> HIDE DEF r
  <2> QED BY <1>1, <1>3, <2>3, <2>4, RequestStep
<1>4. \/ \E code \in {404, 410, 409} : Reply(s, code)
      \/ ~(i.uses >= i.max) /\ req' = [req EXCEPT ![s] = r]
  <2>1. req' = [req EXCEPT ![s].pc = "loaded", ![s].uses = i.uses]
          => req' = [req EXCEPT ![s] = r]
    BY DEF InvitesInv, TypeOK
  <2> QED BY <2>1 DEF RedeemLoad
<1> QED BY <1>2, <1>3, <1>4

LEMMA RedeemLookStep ==
    ASSUME InvitesInv, NEW s \in Slots, RedeemLook(s)
    PROVE  InvitesInv'
<1> DEFINE b == role[req[s].user] # "none"
           r == [req[s] EXCEPT !.pc = "looked", !.already = b]
<1>1. req[s] \in Request /\ req[s].uses < invite[req[s].id].max
  BY RequestTypes DEF RedeemLook, InvitesInv, LimitInv, Redeeming
<1>2. r \in Request /\ r.uses = req[s].uses /\ r.id = req[s].id
  BY <1>1 DEF Request
<1>3. req' = [req EXCEPT ![s] = r] /\ UNCHANGED <<mission, role, invite, creating, admitted>>
  BY DEF RedeemLook, InvitesInv, TypeOK
<1> HIDE DEF r
<1> QED BY <1>1, <1>2, <1>3, RequestStep

LEMMA RedeemCheckStep ==
    ASSUME InvitesInv, NEW s \in Slots, RedeemCheck(s)
    PROVE  InvitesInv'
<1> DEFINE r == [req[s] EXCEPT !.pc = "checked"]
<1>1. UNCHANGED <<mission, role, invite, creating, admitted>>
  BY DEF RedeemCheck
<1>2. CASE \E code \in {404, 409} : Reply(s, code)
  BY <1>1, <1>2, ReplyStep DEF Codes
<1>3. CASE req' = [req EXCEPT ![s].pc = "checked"]
  <2>1. req[s] \in Request /\ req[s].uses < invite[req[s].id].max
    BY RequestTypes DEF RedeemCheck, InvitesInv, LimitInv, Redeeming
  <2>2. r \in Request /\ r.uses = req[s].uses /\ r.id = req[s].id
    BY <2>1 DEF Request
  <2>3. req' = [req EXCEPT ![s] = r] BY <1>3 DEF InvitesInv, TypeOK
  <2> HIDE DEF r
  <2> QED BY <1>1, <2>1, <2>2, <2>3, RequestStep
<1> QED BY <1>2, <1>3 DEF RedeemCheck

\* The write of an admission: membership, count and reply at once.
LEMMA AdmitStep ==
    ASSUME InvitesInv, NEW s \in Slots, RedeemWrite(s), ~Refused(s)
    PROVE  InvitesInv'
<1> DEFINE u == req[s].user
           i == req[s].id
           n == [invite[i] EXCEPT !.uses = req[s].uses + 1]
           r == [pc |-> "done", code |-> 200]
<1>1. /\ req[s] \in Request /\ i \in InviteIds /\ u \in Users /\ req[s].uses \in Nat
      /\ invite[i] \in Invite /\ req[s].uses < invite[i].max
  BY RequestTypes DEF RedeemWrite, InvitesInv, LimitInv, Redeeming
<1>2. invite[i].max \in Nat BY <1>1, InviteFields
<1>3. n \in Invite /\ n.max = invite[i].max
  BY <1>1, <1>2 DEF Invite
<1>4. /\ invite' = [invite EXCEPT ![i] = n]
      /\ role' = [role EXCEPT ![u] = "member"]
      /\ admitted' = admitted \cup {<<u, i>>}
      /\ req' = [req EXCEPT ![s] = r]
      /\ UNCHANGED <<mission, creating>>
  BY DEF RedeemWrite, Reply, InvitesInv, TypeOK
<1>5. r \in Done \cup Request /\ r.pc = "done" BY DEF Done, Codes
<1> HIDE DEF r, n
<1>6. TypeOK'
  BY <1>1, <1>3, <1>4, <1>5 DEF InvitesInv, TypeOK, Roles
<1>7. /\ req'[s].pc = "done" /\ \A t \in Slots : t # s => req'[t] = req[t]
      /\ \A j \in InviteIds : invite'[j].max = invite[j].max
      /\ \A j \in InviteIds : j # i => invite'[j] = invite[j]
  BY <1>1, <1>3, <1>4, <1>5 DEF InvitesInv, TypeOK
<1>8. i \notin creating
  BY <1>1, <1>2 DEF InvitesInv, LimitInv, NoInvite
<1>9. \A j \in creating' : invite'[j] = NoInvite
  BY <1>4, <1>7, <1>8 DEF InvitesInv, LimitInv, TypeOK
<1>10. ASSUME NEW t \in Slots, req'[t].pc \in Redeeming
       PROVE  req'[t].uses < invite'[req'[t].id].max
  <2>1. req'[t] = req[t] BY <1>7, <1>10 DEF Redeeming
  <2>2. req[t].id \in InviteIds BY <1>10, <2>1, RequestTypes DEF InvitesInv
  <2> QED BY <1>7, <1>10, <2>1, <2>2 DEF InvitesInv, LimitInv
<1> QED BY <1>6, <1>9, <1>10 DEF InvitesInv, LimitInv

LEMMA InvitesInit == Init => InvitesInv
<1> SUFFICES ASSUME Init PROVE InvitesInv
  OBVIOUS
<1>1. TypeOK
  BY NoInviteType DEF Init, TypeOK, Roles, Done, Codes
<1>2. LimitInv BY DEF Init, LimitInv, Redeeming
<1> QED BY <1>1, <1>2 DEF InvitesInv

LEMMA InvitesStep == InvitesInv /\ [Next]_vars => InvitesInv'
<1> SUFFICES ASSUME InvitesInv, [Next]_vars PROVE InvitesInv'
  OBVIOUS
<1> USE DEF InvitesInv
<1>1. ASSUME NEW i \in InviteIds, CreateInviteChecks(i) PROVE InvitesInv'
  BY <1>1, InviteStep DEF CreateInviteChecks, TypeOK, LimitInv
<1>2. ASSUME NEW i \in InviteIds, Expire(i) PROVE InvitesInv'
  <2> DEFINE n == [invite[i] EXCEPT !.expired = TRUE]
  <2>1. invite[i] \in Invite BY DEF TypeOK
  <2>2. n \in Invite /\ n.max = invite[i].max BY <2>1 DEF Invite
  <2>3. invite' = [invite EXCEPT ![i] = n] /\ UNCHANGED <<mission, role, creating, req, admitted>>
    BY <1>2 DEF Expire, TypeOK
  <2>4. i \notin creating BY <1>2 DEF Expire, LimitInv, NoInvite
  <2> HIDE DEF n
  <2>5. /\ invite' \in [InviteIds -> Invite]
        /\ \A j \in InviteIds : invite'[j].max = invite[j].max
        /\ \A j \in creating' : invite'[j] = NoInvite
    BY <2>2, <2>3, <2>4 DEF TypeOK, LimitInv
  <2> QED BY <2>3, <2>5, InviteStep DEF TypeOK
<1>3. ASSUME NEW i \in InviteIds, NEW max \in MaxUses, CreateInvite(i, max)
      PROVE  InvitesInv'
  <2> DEFINE n == [row |-> TRUE, max |-> max, uses |-> 0, expired |-> FALSE]
  <2>1. n \in Invite BY NewInvite
  <2>2. /\ invite' \in {invite, [invite EXCEPT ![i] = n]}
        /\ creating' = creating \ {i}
        /\ UNCHANGED <<mission, role, req, admitted>>
    BY <1>3 DEF CreateInvite
  <2>3. invite[i] = NoInvite BY <1>3 DEF CreateInvite, LimitInv
  <2> HIDE DEF n
  <2>4. /\ invite' \in [InviteIds -> Invite]
        /\ \A j \in InviteIds : j # i => invite'[j] = invite[j]
    BY <2>1, <2>2 DEF TypeOK
  <2>5. \A j \in creating' : invite'[j] = NoInvite
    BY <2>2, <2>4 DEF TypeOK, LimitInv
  <2> QED BY <2>2, <2>3, <2>4, <2>5, InviteStep DEF TypeOK
<1>4. CASE DeleteMission
  <2>1. \A i \in InviteIds :
           LET n == [invite[i] EXCEPT !.row = FALSE] IN
           /\ n \in Invite /\ n.max = invite[i].max
           /\ invite[i] = NoInvite => n = NoInvite
    <3> SUFFICES ASSUME NEW i \in InviteIds
                 PROVE  LET n == [invite[i] EXCEPT !.row = FALSE] IN
                        /\ n \in Invite /\ n.max = invite[i].max
                        /\ invite[i] = NoInvite => n = NoInvite
      OBVIOUS
    <3> DEFINE n == [invite[i] EXCEPT !.row = FALSE]
    <3>1. invite[i] \in Invite BY DEF TypeOK
    <3>2. n \in Invite BY <3>1 DEF Invite
    <3>3. n.max = invite[i].max BY <3>1 DEF Invite
    <3>4. [NoInvite EXCEPT !.row = FALSE] = NoInvite BY ClearingNoInvite
    <3> QED BY <3>2, <3>3, <3>4
  <2>2. CASE ForeignKeys
    <3>1. /\ invite' = [i \in InviteIds |-> [invite[i] EXCEPT !.row = FALSE]]
          /\ role' = [u \in Users |-> "none"] /\ mission' = FALSE
          /\ UNCHANGED <<creating, req, admitted>>
      BY <1>4, <2>2 DEF DeleteMission
    <3>2. /\ invite' \in [InviteIds -> Invite] /\ role' \in [Users -> Roles]
          /\ \A i \in InviteIds : invite'[i].max = invite[i].max
          /\ \A i \in creating' : invite'[i] = NoInvite
      BY <2>1, <3>1 DEF TypeOK, LimitInv, Roles
    <3> QED BY <3>1, <3>2, InviteStep DEF TypeOK
  <2>3. CASE ~ForeignKeys
    BY <1>4, <2>3, InviteStep DEF DeleteMission, TypeOK, LimitInv
  <2> QED BY <2>2, <2>3
<1>5. ASSUME NEW s \in Slots, NEW u \in Users, NEW i \in InviteIds, Redeem(s, u, i)
      PROVE  InvitesInv'
  <2> DEFINE r == [pc |-> "asked", user |-> u, id |-> i, uses |-> 0, already |-> FALSE,
                  late |-> ~mission]
  <2>0. (~mission) \in BOOLEAN BY DEF TypeOK
  <2>1. r \in Request /\ r.pc \notin Redeeming BY <2>0 DEF Request, Redeeming
  <2>2. req' = [req EXCEPT ![s] = r] BY <1>5 DEF Redeem
  <2> HIDE DEF r
  <2> QED BY <1>5, <2>1, <2>2, RequestStep DEF Redeem
<1>6. ASSUME NEW s \in Slots, RedeemWrite(s) PROVE InvitesInv'
  <2>1. CASE Refused(s)
    BY <1>6, <2>1, ReplyStep DEF RedeemWrite, Codes
  <2>2. CASE ~Refused(s)
    BY <1>6, <2>2, AdmitStep
  <2> QED BY <2>1, <2>2
<1>7. CASE UNCHANGED vars
  BY <1>7 DEF vars, TypeOK, LimitInv
<1> QED
  BY <1>1, <1>2, <1>3, <1>4, <1>5, <1>6, <1>7,
     RedeemLoadStep, RedeemLookStep, RedeemCheckStep DEF Next

LEMMA InvitesHold == Spec => []InvitesInv
BY InvitesInit, InvitesStep, PTL DEF Spec

\* Every variable keeps its type; in particular the count of an invite never
\* passes its limit, even when its admissions do.
THEOREM TypeCorrect == Spec => []TypeOK
<1>1. InvitesInv => TypeOK BY DEF InvitesInv
<1> QED BY <1>1, InvitesHold, PTL

----------------------------------------------------------------------------
(* Uses and admissions. *)

\* The users an invite admitted, of a set of admissions.
Adm(adm, i) == {u \in Users : <<u, i>> \in adm}

UsesInv ==
    /\ \A i \in InviteIds : IsFiniteSet(Adm(admitted, i))
    /\ \A i \in InviteIds : invite[i].uses <= Cardinality(Adm(admitted, i))
    /\ \A s \in Slots : req[s].pc \in Redeeming =>
          req[s].uses <= Cardinality(Adm(admitted, req[s].id))
    /\ mission \/ ~ForeignKeys => \A a \in admitted : role[a[1]] # "none"

\* A step without an admission that reads no new count and clears no role,
\* unless the mission goes with it.
LEMMA NoAdmission ==
    ASSUME InvitesInv, UsesInv, UNCHANGED admitted,
           \A i \in InviteIds : invite'[i].uses \in {invite[i].uses, 0},
           \A s \in Slots : req'[s].pc \in Redeeming =>
              /\ req[s].pc \in Redeeming /\ req'[s].id = req[s].id
              /\ req'[s].uses = req[s].uses,
           mission' \/ ~ForeignKeys => UNCHANGED role /\ (mission \/ ~ForeignKeys)
    PROVE  UsesInv'
<1>1. \A i \in InviteIds : Adm(admitted', i) = Adm(admitted, i) OBVIOUS
<1>2. \A i \in InviteIds : Cardinality(Adm(admitted, i)) \in Nat
  BY FS_CardinalityType DEF UsesInv
<1>3. \A i \in InviteIds : invite'[i].uses <= Cardinality(Adm(admitted, i))
  BY <1>2 DEF UsesInv
<1>4. \A s \in Slots : req[s].pc \in Redeeming => req[s].id \in InviteIds
  BY RequestTypes DEF InvitesInv
<1>5. \A s \in Slots : req'[s].pc \in Redeeming =>
         req'[s].uses <= Cardinality(Adm(admitted', req'[s].id))
  BY <1>1, <1>4 DEF UsesInv
<1>6. \A i \in InviteIds : invite'[i].uses <= Cardinality(Adm(admitted', i))
  BY <1>1, <1>3
<1>7. \A i \in InviteIds : IsFiniteSet(Adm(admitted', i)) BY <1>1 DEF UsesInv
<1>8. mission' \/ ~ForeignKeys => \A a \in admitted' : role'[a[1]] # "none"
  BY DEF UsesInv
<1> QED BY <1>5, <1>6, <1>7, <1>8 DEF UsesInv

LEMMA UsesReply ==
    ASSUME InvitesInv, UsesInv, NEW s \in Slots, NEW code \in Codes, Reply(s, code),
           UNCHANGED <<mission, role, invite, creating, admitted>>
    PROVE  UsesInv'
<1>1. req'[s].pc = "done" /\ \A t \in Slots : t # s => req'[t] = req[t]
  BY DEF Reply, InvitesInv, TypeOK
<1> QED BY <1>1, NoAdmission DEF Redeeming, UsesInv

LEMMA UsesLoad ==
    ASSUME InvitesInv, UsesInv, NEW s \in Slots, RedeemLoad(s)
    PROVE  UsesInv'
<1>1. UNCHANGED <<mission, role, invite, creating, admitted>> BY DEF RedeemLoad
<1>2. CASE \E code \in {404, 410, 409} : Reply(s, code)
  BY <1>1, <1>2, UsesReply DEF Codes
<1>3. CASE req' = [req EXCEPT ![s].pc = "loaded", ![s].uses = invite[req[s].id].uses]
  <2>1. req[s] \in Request /\ req[s].id \in InviteIds
    BY RequestTypes DEF RedeemLoad, InvitesInv
  <2> DEFINE r == [req[s] EXCEPT !.pc = "loaded", !.uses = invite[req[s].id].uses]
  <2>2. r.id = req[s].id /\ r.uses = invite[req[s].id].uses BY <2>1 DEF Request
  <2>3. req' = [req EXCEPT ![s] = r] BY <1>3 DEF InvitesInv, TypeOK
  <2> HIDE DEF r
  <2>4. req'[s] = r /\ \A t \in Slots : t # s => req'[t] = req[t]
    BY <2>3 DEF InvitesInv, TypeOK
  <2>5. \A i \in InviteIds : Adm(admitted', i) = Adm(admitted, i) BY <1>1 DEF Adm
  <2>6. \A t \in Slots : req[t].pc \in Redeeming => req[t].id \in InviteIds
    BY RequestTypes DEF InvitesInv
  <2> QED BY <1>1, <2>1, <2>2, <2>4, <2>5, <2>6 DEF UsesInv
<1> QED BY <1>2, <1>3 DEF RedeemLoad

LEMMA UsesLookCheck ==
    ASSUME InvitesInv, UsesInv, NEW s \in Slots, RedeemLook(s) \/ RedeemCheck(s)
    PROVE  UsesInv'
<1>1. UNCHANGED <<mission, role, invite, creating, admitted>>
  BY DEF RedeemLook, RedeemCheck
<1>2. req[s].pc \in Redeeming BY DEF RedeemLook, RedeemCheck, Redeeming
<1>3. req[s] \in Request BY <1>2, RequestTypes DEF InvitesInv
<1>4. CASE \E code \in {404, 409} : Reply(s, code)
  BY <1>1, <1>4, UsesReply DEF Codes
<1>5. ASSUME NEW r, r.id = req[s].id, r.uses = req[s].uses, req' = [req EXCEPT ![s] = r]
      PROVE  UsesInv'
  <2>1. req'[s] = r /\ \A t \in Slots : t # s => req'[t] = req[t]
    BY <1>5 DEF InvitesInv, TypeOK
  <2> QED BY <1>1, <1>2, <1>5, <2>1, NoAdmission DEF UsesInv
<1>6. CASE RedeemLook(s)
  <2> DEFINE b == role[req[s].user] # "none"
             r == [req[s] EXCEPT !.pc = "looked", !.already = b]
  <2>1. r.id = req[s].id /\ r.uses = req[s].uses BY <1>3 DEF Request
  <2>2. req' = [req EXCEPT ![s] = r] BY <1>6 DEF RedeemLook, InvitesInv, TypeOK
  <2> HIDE DEF r
  <2> QED BY <1>5, <2>1, <2>2
<1>7. CASE RedeemCheck(s) /\ req' = [req EXCEPT ![s].pc = "checked"]
  <2> DEFINE r == [req[s] EXCEPT !.pc = "checked"]
  <2>1. r.id = req[s].id /\ r.uses = req[s].uses BY <1>3 DEF Request
  <2>2. req' = [req EXCEPT ![s] = r] BY <1>7 DEF InvitesInv, TypeOK
  <2> HIDE DEF r
  <2> QED BY <1>5, <2>1, <2>2
<1> QED BY <1>4, <1>6, <1>7 DEF RedeemCheck

\* An admission: the user was nobody's yet, so there is one admission more.
LEMMA UsesAdmit ==
    ASSUME InvitesInv, UsesInv, NEW s \in Slots, RedeemWrite(s), ~Refused(s)
    PROVE  UsesInv'
<1> DEFINE u == req[s].user
           i == req[s].id
<1>1. /\ i \in InviteIds /\ u \in Users /\ req[s].uses \in Nat
      /\ req[s].pc \in Redeeming /\ invite[i] \in Invite
  BY RequestTypes DEF RedeemWrite, InvitesInv, Redeeming
<1>2. /\ invite' = [invite EXCEPT ![i].uses = req[s].uses + 1]
      /\ role' = [role EXCEPT ![u] = "member"]
      /\ admitted' = admitted \cup {<<u, i>>}
      /\ req' = [req EXCEPT ![s] = [pc |-> "done", code |-> 200]]
      /\ UNCHANGED <<mission, creating>>
  BY DEF RedeemWrite, Reply
<1>3. role[u] = "none" /\ (mission \/ ~ForeignKeys)
  BY ForeignKeysAssumption DEF Refused
<1>4. req[s].uses <= Cardinality(Adm(admitted, i)) BY <1>1 DEF UsesInv
<1> HIDE DEF u, i
<1>5. u \notin Adm(admitted, i)
  BY <1>3 DEF UsesInv, Adm
<1>6. Adm(admitted', i) = Adm(admitted, i) \cup {u}
  BY <1>1, <1>2 DEF Adm
<1>7. \A j \in InviteIds : j # i => Adm(admitted', j) = Adm(admitted, j)
  BY <1>2 DEF Adm
<1>8. IsFiniteSet(Adm(admitted, i)) /\ Cardinality(Adm(admitted, i)) \in Nat
  BY <1>1, FS_CardinalityType DEF UsesInv
<1>9. IsFiniteSet(Adm(admitted', i)) /\ Cardinality(Adm(admitted', i)) = Cardinality(Adm(admitted, i)) + 1
  BY <1>5, <1>6, <1>8, FS_AddElement
<1>10. /\ \A j \in InviteIds : j # i => invite'[j] = invite[j]
       /\ invite'[i].uses = req[s].uses + 1
  BY <1>1, <1>2 DEF InvitesInv, TypeOK, Invite
<1>11. /\ req'[s].pc = "done" /\ \A t \in Slots : t # s => req'[t] = req[t]
  BY <1>2 DEF InvitesInv, TypeOK
<1>12. \A j \in InviteIds : IsFiniteSet(Adm(admitted', j))
  BY <1>7, <1>9 DEF UsesInv
<1>13. \A j \in InviteIds : invite'[j].uses <= Cardinality(Adm(admitted', j))
  <2>1. invite'[i].uses <= Cardinality(Adm(admitted', i))
    BY <1>1, <1>4, <1>8, <1>9, <1>10
  <2> QED BY <1>7, <1>10, <2>1 DEF UsesInv
<1>14. ASSUME NEW t \in Slots, req'[t].pc \in Redeeming
       PROVE  req'[t].uses <= Cardinality(Adm(admitted', req'[t].id))
  <2>1. req'[t] = req[t] BY <1>11, <1>14 DEF Redeeming
  <2>2. req[t].id \in InviteIds /\ req[t].uses \in Nat
    BY <1>14, <2>1, RequestTypes DEF InvitesInv
  <2>3. req[t].uses <= Cardinality(Adm(admitted, req[t].id)) BY <1>14, <2>1 DEF UsesInv
  <2>4. CASE req[t].id = i
    BY <1>8, <1>9, <2>1, <2>2, <2>3, <2>4
  <2>5. CASE req[t].id # i
    BY <1>7, <2>1, <2>2, <2>3, <2>5
  <2> QED BY <2>4, <2>5
<1>15. \A a \in admitted' : role'[a[1]] # "none"
  <2>1. \A a \in admitted : a[1] \in Users /\ role[a[1]] # "none"
    BY <1>3 DEF UsesInv, InvitesInv, TypeOK
  <2> QED BY <1>1, <1>2, <2>1 DEF InvitesInv, TypeOK
<1> QED BY <1>12, <1>13, <1>14, <1>15 DEF UsesInv

LEMMA UsesInit == Init => UsesInv
<1> SUFFICES ASSUME Init PROVE UsesInv
  OBVIOUS
<1>1. \A i \in InviteIds : Adm(admitted, i) = {} BY DEF Init, Adm
<1>2. IsFiniteSet({}) /\ Cardinality({}) = 0 BY FS_EmptySet
<1>3. \A i \in InviteIds : IsFiniteSet(Adm(admitted, i)) /\ Cardinality(Adm(admitted, i)) = 0
  BY <1>1, <1>2
<1>4. \A i \in InviteIds : invite[i].uses = 0 BY DEF Init, NoInvite
<1>5. \A s \in Slots : req[s].pc = "done" BY DEF Init
<1>6. admitted = {} BY DEF Init
<1> QED BY <1>3, <1>4, <1>5, <1>6 DEF UsesInv, Redeeming

LEMMA UsesStep == InvitesInv /\ UsesInv /\ [Next]_vars => UsesInv'
<1> SUFFICES ASSUME InvitesInv, UsesInv, [Next]_vars PROVE UsesInv'
  OBVIOUS
<1>1. ASSUME UNCHANGED <<mission, role, req, admitted>>,
             \A i \in InviteIds : invite'[i].uses \in {invite[i].uses, 0}
      PROVE  UsesInv'
  BY <1>1, NoAdmission
<1>2. ASSUME NEW i \in InviteIds, CreateInviteChecks(i) PROVE UsesInv'
  BY <1>1, <1>2 DEF CreateInviteChecks
<1>3. ASSUME NEW i \in InviteIds, Expire(i) PROVE UsesInv'
  <2>1. \A j \in InviteIds : invite'[j].uses = invite[j].uses
    BY <1>3 DEF Expire, InvitesInv, TypeOK, Invite
  <2> QED BY <1>1, <1>3, <2>1 DEF Expire
<1>4. ASSUME NEW i \in InviteIds, NEW max \in MaxUses, CreateInvite(i, max)
      PROVE  UsesInv'
  <2> DEFINE n == [row |-> TRUE, max |-> max, uses |-> 0, expired |-> FALSE]
  <2>1. n.uses = 0 OBVIOUS
  <2>2. invite' \in {invite, [invite EXCEPT ![i] = n]} BY <1>4 DEF CreateInvite
  <2> HIDE DEF n
  <2>3. \A j \in InviteIds : invite'[j].uses \in {invite[j].uses, 0}
    BY <2>1, <2>2 DEF InvitesInv, TypeOK
  <2> QED BY <1>1, <1>4, <2>3 DEF CreateInvite
<1>5. CASE DeleteMission
  <2>1. \A i \in InviteIds : invite'[i].uses = invite[i].uses
    <3>1. CASE ForeignKeys
      <4>1. \A i \in InviteIds : invite'[i] = [invite[i] EXCEPT !.row = FALSE]
        BY <1>5, <3>1 DEF DeleteMission
      <4> QED BY <4>1 DEF InvitesInv, TypeOK, Invite
    <3>2. CASE ~ForeignKeys
      BY <1>5, <3>2 DEF DeleteMission
    <3> QED BY <3>1, <3>2
  <2>2. mission' = FALSE /\ (~ForeignKeys => UNCHANGED role) /\ UNCHANGED <<req, admitted>>
    BY <1>5 DEF DeleteMission
  <2> QED BY <2>1, <2>2, NoAdmission
<1>6. ASSUME NEW s \in Slots, NEW u \in Users, NEW i \in InviteIds, Redeem(s, u, i)
      PROVE  UsesInv'
  <2>1. req'[s].pc = "asked" /\ \A t \in Slots : t # s => req'[t] = req[t]
    BY <1>6 DEF Redeem, InvitesInv, TypeOK
  <2>2. UNCHANGED <<mission, role, invite, creating, admitted>> BY <1>6 DEF Redeem
  <2> QED BY <2>1, <2>2, NoAdmission DEF Redeeming, UsesInv
<1>7. ASSUME NEW s \in Slots, RedeemWrite(s) PROVE UsesInv'
  <2>1. CASE Refused(s)
    BY <1>7, <2>1, UsesReply DEF RedeemWrite, Codes
  <2>2. CASE ~Refused(s)
    BY <1>7, <2>2, UsesAdmit
  <2> QED BY <2>1, <2>2
<1>8. CASE UNCHANGED vars
  BY <1>1, <1>8 DEF vars
<1> QED
  BY <1>2, <1>3, <1>4, <1>5, <1>6, <1>7, <1>8, UsesLoad, UsesLookCheck DEF Next

\* redeem_invite: a use is spent only on a user the invite admitted, however
\* requests overlap and whichever of them fail.
THEOREM UsesAreSpentOnAdmissions == Spec => []UsesAreAdmissions
<1>1. UsesInv => UsesAreAdmissions BY DEF UsesInv, UsesAreAdmissions, Adm, AdmittedBy
<1> QED BY <1>1, UsesInit, UsesStep, InvitesHold, PTL DEF Spec

----------------------------------------------------------------------------
(* Deletion. *)

LateInv ==
    \A s \in Slots :
        /\ req[s].pc \in {"asked"} \cup Redeeming /\ req[s].late => ~mission
        /\ req[s].pc = "checked" => ~req[s].late

\* A request ends, or keeps what it knows of the deletion.
LEMMA LateKept ==
    ASSUME InvitesInv, LateInv, NEW s \in Slots, NEW r, UNCHANGED mission,
           \/ r.pc = "done"
           \/ /\ r.pc \in {"loaded", "looked"} \/ (r.pc = "checked" /\ mission)
              /\ req[s].pc \in {"asked"} \cup Redeeming /\ r.late = req[s].late,
           req' = [req EXCEPT ![s] = r]
    PROVE  LateInv'
<1>1. req'[s] = r /\ \A t \in Slots : t # s => req'[t] = req[t]
  BY DEF InvitesInv, TypeOK
<1> QED BY <1>1 DEF LateInv, Redeeming

LEMMA LateStep == InvitesInv /\ LateInv /\ [Next]_vars => LateInv'
<1> SUFFICES ASSUME InvitesInv, LateInv, [Next]_vars PROVE LateInv'
  OBVIOUS
<1>1. ASSUME UNCHANGED req, mission' => mission PROVE LateInv'
  BY <1>1 DEF LateInv
<1>2. ASSUME NEW s \in Slots, NEW code \in Codes, Reply(s, code), UNCHANGED mission
      PROVE  LateInv'
  BY <1>2, LateKept DEF Reply
<1>3. ASSUME NEW s \in Slots, NEW u \in Users, NEW i \in InviteIds, Redeem(s, u, i)
      PROVE  LateInv'
  <2> DEFINE r == [pc |-> "asked", user |-> u, id |-> i, uses |-> 0, already |-> FALSE,
                  late |-> ~mission]
  <2>1. r.pc = "asked" /\ r.late = ~mission OBVIOUS
  <2>2. req' = [req EXCEPT ![s] = r] /\ UNCHANGED mission BY <1>3 DEF Redeem
  <2> HIDE DEF r
  <2>3. req'[s] = r /\ \A t \in Slots : t # s => req'[t] = req[t]
    BY <2>2 DEF InvitesInv, TypeOK
  <2> QED BY <2>1, <2>2, <2>3 DEF LateInv
<1>4. ASSUME NEW s \in Slots, RedeemLoad(s) PROVE LateInv'
  <2> DEFINE r == [req[s] EXCEPT !.pc = "loaded", !.uses = invite[req[s].id].uses]
  <2>1. req[s] \in Request BY <1>4, RequestTypes DEF RedeemLoad, InvitesInv
  <2>2. r.pc = "loaded" /\ r.late = req[s].late BY <2>1 DEF Request
  <2>3. \/ \E code \in Codes : Reply(s, code)
        \/ req' = [req EXCEPT ![s] = r]
    <3>1. [req EXCEPT ![s].pc = "loaded", ![s].uses = invite[req[s].id].uses]
             = [req EXCEPT ![s] = r]
      BY DEF InvitesInv, TypeOK
    <3>2. \/ \E code \in {404, 410, 409} : Reply(s, code)
          \/ req' = [req EXCEPT ![s].pc = "loaded", ![s].uses = invite[req[s].id].uses]
      BY <1>4 DEF RedeemLoad
    <3> HIDE DEF r
    <3> QED BY <3>1, <3>2 DEF Codes
  <2> HIDE DEF r
  <2> QED BY <1>4, <1>2, <2>2, <2>3, LateKept DEF RedeemLoad
<1>5. ASSUME NEW s \in Slots, RedeemLook(s) PROVE LateInv'
  <2> DEFINE r == [req[s] EXCEPT !.pc = "looked", !.already = role[req[s].user] # "none"]
  <2>1. req[s] \in Request BY <1>5, RequestTypes DEF RedeemLook, InvitesInv, Redeeming
  <2>2. r.pc = "looked" /\ r.late = req[s].late BY <2>1 DEF Request
  <2>3. req' = [req EXCEPT ![s] = r] BY <1>5 DEF RedeemLook, InvitesInv, TypeOK
  <2> HIDE DEF r
  <2> QED BY <1>5, <2>2, <2>3, LateKept DEF RedeemLook, Redeeming
<1>6. ASSUME NEW s \in Slots, RedeemCheck(s) PROVE LateInv'
  <2> DEFINE r == [req[s] EXCEPT !.pc = "checked"]
  <2>1. req[s] \in Request BY <1>6, RequestTypes DEF RedeemCheck, InvitesInv, Redeeming
  <2>2. r.pc = "checked" /\ r.late = req[s].late BY <2>1 DEF Request
  <2>3. \/ \E code \in Codes : Reply(s, code)
        \/ mission /\ req' = [req EXCEPT ![s] = r]
    BY <1>6 DEF RedeemCheck, Codes, InvitesInv, TypeOK
  <2> HIDE DEF r
  <2> QED BY <1>6, <1>2, <2>2, <2>3, LateKept DEF RedeemCheck, Redeeming
<1>7. ASSUME NEW s \in Slots, RedeemWrite(s) PROVE LateInv'
  BY <1>7, <1>2 DEF RedeemWrite, Codes
<1>8. ASSUME NEW i \in InviteIds, \/ CreateInviteChecks(i) \/ Expire(i)
                                 \/ \E max \in MaxUses : CreateInvite(i, max)
      PROVE  LateInv'
  BY <1>8, <1>1 DEF CreateInviteChecks, Expire, CreateInvite
<1>9. CASE DeleteMission BY <1>9, <1>1 DEF DeleteMission
<1>10. CASE UNCHANGED vars BY <1>10, <1>1 DEF vars
<1> QED BY <1>3, <1>4, <1>5, <1>6, <1>7, <1>8, <1>9, <1>10 DEF Next

(***************************************************************************)
(* redeem_invite after delete_mission: whatever the deletion leaves of the *)
(* rows, with foreign keys nobody is admitted to a mission that is gone,   *)
(* and without them nobody who asks after it.                              *)
(***************************************************************************)
THEOREM DeletedMissionsAdmitNobody == Spec => NobodyJoinsAfterDeletion
<1> DEFINE A == \A s \in Slots : Admits(s) => mission \/ ~(ForeignKeys \/ req[s].late)
<1>1. Init => LateInv BY DEF Init, LateInv, Redeeming
<1>2. InvitesInv /\ LateInv /\ [Next]_vars => [A]_vars
  <2> SUFFICES ASSUME InvitesInv, LateInv, Next, NEW s \in Slots, Admits(s)
               PROVE  mission \/ ~(ForeignKeys \/ req[s].late)
    OBVIOUS
  <2>1. ~req[s].late BY DEF LateInv, Admits
  <2>2. req'[s].pc = "done" /\ req'[s].code = 200 /\ req[s].pc = "checked"
    BY DEF Admits
  <2>3. ASSUME NEW t \in Slots, t # s, \A v \in Slots : v # t => req'[v] = req[v]
        PROVE  FALSE
    BY <2>2, <2>3
  <2>4. PICK t \in Slots : \/ \E u \in Users, i \in InviteIds : Redeem(t, u, i)
                          \/ RedeemLoad(t) \/ RedeemLook(t) \/ RedeemCheck(t)
                          \/ RedeemWrite(t)
    BY <2>2 DEF Next, CreateInviteChecks, Expire, CreateInvite, DeleteMission
  <2>5. \A v \in Slots : v # t => req'[v] = req[v]
    BY <2>4 DEF Redeem, RedeemLoad, RedeemLook, RedeemCheck, RedeemWrite, Reply,
       InvitesInv, TypeOK
  <2>6. t = s BY <2>3, <2>5
  <2>7. RedeemWrite(s)
    BY <2>2, <2>4, <2>6 DEF Redeem, RedeemLoad, RedeemLook, RedeemCheck
  <2>8. ~Refused(s)
    <3>1. Refused(s) => req'[s].code = 500
      BY <2>7 DEF RedeemWrite, Reply, InvitesInv, TypeOK
    <3> QED BY <2>2, <3>1
  <2> QED BY <2>1, <2>8 DEF Refused
<1> QED BY <1>1, <1>2, LateStep, InvitesHold, PTL DEF Spec, NobodyJoinsAfterDeletion
=============================================================================

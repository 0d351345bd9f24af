--------------------------- MODULE Realms_proofs -----------------------------
(***************************************************************************)
(* Realms, for any number of identities, operators, servers, collections,  *)
(* owners and accounts: the workspace and its identities, the ceilings the *)
(* owners of the CMS set for a content realm, and the delegations by which *)
(* a realm manages accounts of others; how somebody becomes a member; and  *)
(* what upgrades make of the realms of any database.                       *)
(***************************************************************************)
EXTENDS RealmIdentities, CollectionCeilings, RealmDelegations, RealmProvisioning, CoreMigrations,
        FiniteSetTheorems, TLAPS

USE CeilingsAssumption

-----------------------------------------------------------------------------
(* The workspace has one owner who never owns the realm, no session and no *)
(* token outlives what allowed it, and the owner of an active realm stays  *)
(* fit.                                                                    *)
(*                                                                         *)
(* The invariant is RealmIsWhole strengthened by what holds of a request   *)
(* under way: it names an identity, a cleanup names the owner before, and  *)
(* whoever's password is out of date has out of date credentials too.  The *)
(* last is why the comparison of credential versions, which says nothing   *)
(* of passwords, keeps sessions opened with an old password out.           *)

IsSound(r) ==
    /\ r.kind # "idle" => r.who \in Identities
    /\ r.cleanup # "keep" => r.previous \in Identities
    /\ "password" \in r.stale => "credentials" \in r.stale \/ r.kind = "admin-login"

RequestsAreSound == \A s \in Servers : IsSound(request[s])

IInv == TypeOK /\ WorkspaceHasOneOwner /\ SessionsAreInForce /\ RequestsAreSound

-----------------------------------------------------------------------------
(* Requests *)

LEMMA IdleIsSound == Idle \in Requests /\ IsSound(Idle)
  BY DEF Idle, Request, Requests, Kinds, IsSound

\* A request that starts has read nothing that is out of date.
LEMMA RequestIsSound ==
  ASSUME NEW kind \in Kinds, NEW i \in Identities
  PROVE  Request(kind, i) \in Requests /\ IsSound(Request(kind, i))
  BY DEF Request, Requests, IsSound

\* Outdated only adds to the stale facts of the requests concerned.
LEMMA OutdatedIsSound ==
  ASSUME request \in [Servers -> Requests], RequestsAreSound,
         NEW facts \in SUBSET Facts, NEW ids,
         "password" \in facts => "credentials" \in facts
  PROVE  /\ Outdated(facts, ids) \in [Servers -> Requests]
         /\ \A s \in Servers : IsSound(Outdated(facts, ids)[s])
<1> DEFINE more(s) == {f \in facts : \E i \in ids : Concerns(request[s], f, i)}
<1>1. ASSUME NEW s \in Servers
      PROVE  /\ request[s] \in Requests
             /\ Outdated(facts, ids)[s] = [request[s] EXCEPT !.stale = @ \cup more(s)]
  BY <1>1 DEF Outdated
<1>2. ASSUME NEW s \in Servers  PROVE  more(s) \in SUBSET Facts
  OBVIOUS
<1>3. ASSUME NEW s \in Servers
      PROVE  Outdated(facts, ids)[s] \in Requests
  <2>1. [request[s] EXCEPT !.stale = @ \cup more(s)] \in Requests
    <3> HIDE DEF more
    <3> QED  BY <1>1, <1>2 DEF Requests
  <2> QED  BY <2>1, <1>1
<1>4. ASSUME NEW s \in Servers  PROVE  IsSound(Outdated(facts, ids)[s])
  <2>1. IsSound(request[s])  BY DEF RequestsAreSound
  <2>2. "password" \in more(s) => "credentials" \in more(s) \/ request[s].kind = "admin-login"
    BY DEF Concerns, Logins
  <2> HIDE DEF more
  <2> DEFINE r == [request[s] EXCEPT !.stale = @ \cup more(s)]
  <2>3. /\ r.kind = request[s].kind /\ r.who = request[s].who
        /\ r.previous = request[s].previous /\ r.cleanup = request[s].cleanup
        /\ r.stale = request[s].stale \cup more(s)
    BY <1>1 DEF Requests
  <2>4. IsSound(r)
    <3> HIDE DEF r
    <3> QED  BY <2>1, <2>2, <2>3 DEF IsSound
  <2> QED  BY <1>1, <2>4
<1>5. Outdated(facts, ids) = [s \in Servers |-> Outdated(facts, ids)[s]]
  BY DEF Outdated
<1> QED  BY <1>3, <1>4, <1>5

-----------------------------------------------------------------------------
LEMMA InitIInv == Init => IInv
<1> SUFFICES ASSUME Init PROVE IInv  OBVIOUS
<1> USE RealmAssumption DEF Init
<1>1. TypeOK  BY IdleIsSound DEF TypeOK
<1>2. WorkspaceHasOneOwner  BY <1>1 DEF WorkspaceHasOneOwner
<1>3. SessionsAreInForce  BY DEF SessionsAreInForce
<1>4. RequestsAreSound  BY IdleIsSound DEF RequestsAreSound
<1> QED  BY <1>1, <1>2, <1>3, <1>4 DEF IInv

-----------------------------------------------------------------------------
(* Requests that start, go on or end *)

\* The request of one server changes to a sound one, the others stay.
LEMMA SetRequestIsSound ==
  ASSUME request \in [Servers -> Requests], RequestsAreSound,
         NEW s \in Servers, NEW r \in Requests, IsSound(r),
         request' = [request EXCEPT ![s] = r]
  PROVE  request' \in [Servers -> Requests] /\ RequestsAreSound'
  BY DEF RequestsAreSound

\* A change of the identities ids puts facts out of date everywhere.
LEMMA OutdatedKeepsSound ==
  ASSUME request \in [Servers -> Requests], RequestsAreSound,
         NEW facts \in SUBSET Facts, NEW ids,
         "password" \in facts => "credentials" \in facts,
         request' = Outdated(facts, ids)
  PROVE  request' \in [Servers -> Requests] /\ RequestsAreSound'
  BY OutdatedIsSound DEF RequestsAreSound

\* The same, and the request of one server ends or goes on with its cleanup.
LEMMA OutdatedAndSet ==
  ASSUME request \in [Servers -> Requests], RequestsAreSound,
         NEW facts \in SUBSET Facts, NEW ids,
         "password" \in facts => "credentials" \in facts,
         NEW s \in Servers, NEW r \in Requests, IsSound(r),
         request' = [Outdated(facts, ids) EXCEPT ![s] = r]
  PROVE  request' \in [Servers -> Requests] /\ RequestsAreSound'
<1> DEFINE o == Outdated(facts, ids)
<1>1. o \in [Servers -> Requests] /\ \A t \in Servers : IsSound(o[t])
  BY OutdatedIsSound
<1> HIDE DEF o
<1>2. request' = [o EXCEPT ![s] = r]  BY DEF o
<1> QED  BY <1>1, <1>2 DEF RequestsAreSound

-----------------------------------------------------------------------------
(* Sessions and logins *)

LEMMA LoginStarts ==
  ASSUME IInv, NEW s \in Servers, NEW i \in Identities,
         VerifyAdminLogin(s, i) \/ VerifyContentLogin(s, i)
  PROVE  IInv'
<1>1. PICK kind \in Logins : /\ request' = [request EXCEPT ![s] = Request(kind, i)]
                             /\ UNCHANGED <<enabled, workspaceOwners, realm, sessions, tokens>>
  BY DEF VerifyAdminLogin, VerifyContentLogin, Starts, Logins
<1>2. request' \in [Servers -> Requests] /\ RequestsAreSound'
  BY <1>1, SetRequestIsSound, RequestIsSound DEF IInv, TypeOK, Kinds
<1>3. TypeOK' /\ WorkspaceHasOneOwner' /\ SessionsAreInForce'
  BY <1>1, <1>2 DEF IInv, TypeOK, WorkspaceHasOneOwner, SessionsAreInForce, realm
<1> QED  BY <1>2, <1>3 DEF IInv

(* The credentials a content session is issued for have not moved on, so   *)
(* neither has the password that was proved.                               *)
LEMMA SessionIsIssued ==
  ASSUME IInv, NEW s \in Servers, IssueAdminSession(s) \/ IssueContentSession(s)
  PROVE  IInv'
<1> DEFINE r == request[s]
           x == [who |-> r.who, content |-> r.kind = "content-login",
                 password |-> IF "password" \in r.stale THEN "replaced" ELSE "current"]
<1>1. r \in Requests /\ IsSound(r)
  BY DEF IInv, TypeOK, RequestsAreSound
<1>2. OpenSession(s) /\ r.who \in enabled
  BY DEF IssueAdminSession, IssueContentSession
<1>3. x.content => /\ member[r.who] = "active" /\ "credentials" \notin r.stale
                   /\ r.kind = "content-login"
  BY DEF IssueAdminSession, IssueContentSession, CredentialIsVerified
<1>4. x.content => "password" \notin r.stale
  BY <1>1, <1>3 DEF IsSound
<1>5. /\ sessions' = sessions \cup {x} /\ request' = [request EXCEPT ![s] = Idle]
      /\ UNCHANGED <<enabled, workspaceOwners, realm, tokens>>
  BY <1>2 DEF OpenSession
<1>6. x \in Sessions /\ x.who = r.who /\ (x.content => x.password = "current")
  BY <1>1, <1>2, <1>4 DEF Sessions, IInv, TypeOK
<1> HIDE DEF x
<1>7. request' \in [Servers -> Requests] /\ RequestsAreSound'
  BY <1>5, SetRequestIsSound, IdleIsSound DEF IInv, TypeOK
<1>8. TypeOK'  BY <1>5, <1>6, <1>7 DEF IInv, TypeOK, realm
<1>9. WorkspaceHasOneOwner'  BY <1>5, <1>8 DEF IInv, WorkspaceHasOneOwner, realm
<1>10. SessionsAreInForce'
  BY <1>2, <1>3, <1>5, <1>6 DEF IInv, SessionsAreInForce, realm
<1> QED  BY <1>7, <1>8, <1>9, <1>10 DEF IInv

\* Ending sessions breaks nothing.
LEMMA SessionEnds ==
  ASSUME IInv, NEW x \in sessions, EndSession(x)
  PROVE  IInv'
  BY DEF EndSession, IInv, TypeOK, WorkspaceHasOneOwner, SessionsAreInForce,
         RequestsAreSound, IsSound, realm

-----------------------------------------------------------------------------
(* Credentials *)

LEMMA CredentialsMoveOn ==
  ASSUME IInv, NEW i \in Identities, NewPassword(i)
  PROVE  IInv'
<1> USE DEF IInv, NewPassword, SessionsOf, realm
<1>1. request' \in [Servers -> Requests] /\ RequestsAreSound'
  BY OutdatedKeepsSound DEF TypeOK, Facts
<1>2. TypeOK' /\ WorkspaceHasOneOwner'  BY <1>1 DEF TypeOK, WorkspaceHasOneOwner
<1>3. SessionsAreInForce'  BY DEF SessionsAreInForce
<1> QED  BY <1>1, <1>2, <1>3

LEMMA TokenIsCreated ==
  ASSUME IInv, NEW i \in Identities, NEW purpose, CreateCredentialToken(i, purpose)
  PROVE  IInv'
<1> USE DEF IInv, CreateCredentialToken, SessionsOf, realm
<1>1. request' \in [Servers -> Requests] /\ RequestsAreSound'
  <2>1. CASE purpose = "password-reset"
    BY <2>1, OutdatedKeepsSound DEF TypeOK, Facts
  <2>2. CASE purpose # "password-reset"
    BY <2>2 DEF TypeOK, RequestsAreSound, IsSound
  <2> QED  BY <2>1, <2>2
<1>2. TypeOK' /\ WorkspaceHasOneOwner'  BY <1>1 DEF TypeOK, WorkspaceHasOneOwner
<1>3. SessionsAreInForce'  BY DEF SessionsAreInForce
<1> QED  BY <1>1, <1>2, <1>3

LEMMA IdentityIsDisabled ==
  ASSUME IInv, NEW i \in Identities, Disable(i)
  PROVE  IInv'
<1> USE DEF IInv, Disable, SessionsOf
<1>1. request' \in [Servers -> Requests] /\ RequestsAreSound'
  <2> DEFINE facts == {"credentials"} \cup (IF member[i] = "none" THEN {} ELSE {"policy"})
  <2>1. facts \in SUBSET Facts /\ "password" \notin facts  BY DEF Facts
  <2>2. request' = Outdated(facts, {i})  OBVIOUS
  <2> HIDE DEF facts
  <2> QED  BY <2>1, <2>2, OutdatedKeepsSound DEF TypeOK
<1>2. TypeOK' /\ WorkspaceHasOneOwner'  BY <1>1 DEF TypeOK, WorkspaceHasOneOwner
<1>3. SessionsAreInForce'  BY DEF SessionsAreInForce
<1> QED  BY <1>1, <1>2, <1>3

LEMMA IdentityIsReactivated ==
  ASSUME IInv, NEW i \in Identities, Reactivate(i)
  PROVE  IInv'
<1> USE DEF IInv, Reactivate
<1>1. request' \in [Servers -> Requests] /\ RequestsAreSound'
  <2> DEFINE facts == IF member[i] = "active" THEN {"policy"} ELSE {}
  <2>1. facts \in SUBSET Facts /\ "password" \notin facts  BY DEF Facts
  <2>2. request' = Outdated(facts, {i})  OBVIOUS
  <2> HIDE DEF facts
  <2> QED  BY <2>1, <2>2, OutdatedKeepsSound DEF TypeOK
<1>2. TypeOK' /\ WorkspaceHasOneOwner'  BY <1>1 DEF TypeOK, WorkspaceHasOneOwner
<1>3. SessionsAreInForce'  BY DEF SessionsAreInForce
<1> QED  BY <1>1, <1>2, <1>3

-----------------------------------------------------------------------------
(* Owners and memberships *)

LEMMA WorkspaceIsTransferred ==
  ASSUME IInv, NEW i \in Identities, TransferWorkspaceOwner(i)
  PROVE  IInv'
<1> USE DEF IInv, TransferWorkspaceOwner, realm
<1>1. request' \in [Servers -> Requests] /\ RequestsAreSound'
  BY OutdatedKeepsSound DEF TypeOK, Facts
<1>2. TypeOK'  BY <1>1 DEF TypeOK
<1>3. WorkspaceHasOneOwner'  BY <1>2 DEF WorkspaceHasOneOwner, OwnsNoRealm
<1>4. SessionsAreInForce'  BY DEF SessionsAreInForce
<1> QED  BY <1>1, <1>2, <1>3, <1>4

\* Whose membership ends loses the sessions that rest on it.
LEMMA MemberIsSuspended ==
  ASSUME IInv, NEW i \in Identities, Suspended(i),
         request' \in [Servers -> Requests], RequestsAreSound'
  PROVE  IInv'
<1> USE DEF IInv, Suspended
<1>1. TypeOK' /\ WorkspaceHasOneOwner'  BY DEF TypeOK, WorkspaceHasOneOwner
<1>2. SessionsAreInForce'
  BY DEF TypeOK, SessionsAreInForce, ContentSessionsOf, SessionsOf
<1> QED  BY <1>1, <1>2

LEMMA SuspensionStarts ==
  ASSUME IInv, NEW s \in Servers, NEW i \in Identities, CheckSuspension(s, i)
  PROVE  IInv'
<1> USE DEF IInv, CheckSuspension, Starts
<1>1. request' \in [Servers -> Requests] /\ RequestsAreSound'
  BY SetRequestIsSound, RequestIsSound DEF TypeOK, Kinds
<1>2. TypeOK' /\ WorkspaceHasOneOwner' /\ SessionsAreInForce'
  BY <1>1 DEF TypeOK, WorkspaceHasOneOwner, SessionsAreInForce, realm
<1> QED  BY <1>1, <1>2

LEMMA SuspensionEnds ==
  ASSUME IInv, NEW s \in Servers, SuspendMembership(s)
  PROVE  IInv'
<1>1. request[s] \in Requests /\ request[s].who \in Identities
  BY DEF IInv, TypeOK, RequestsAreSound, IsSound, SuspendMembership
<1>2. request' \in [Servers -> Requests] /\ RequestsAreSound'
  BY IdleIsSound, OutdatedAndSet DEF IInv, TypeOK, SuspendMembership, Facts
<1> QED  BY <1>1, <1>2, MemberIsSuspended DEF SuspendMembership

LEMMA MemberIsReactivated ==
  ASSUME IInv, NEW i \in Identities, ReactivateMembership(i) \/ UpdateSubject(i)
  PROVE  IInv'
<1> USE DEF IInv, ReactivateMembership, UpdateSubject
<1>1. request' \in [Servers -> Requests] /\ RequestsAreSound'
  BY OutdatedKeepsSound DEF TypeOK, Facts
<1>2. TypeOK' /\ WorkspaceHasOneOwner'  BY <1>1 DEF TypeOK, WorkspaceHasOneOwner
<1>3. SessionsAreInForce'  BY DEF TypeOK, SessionsAreInForce
<1> QED  BY <1>1, <1>2, <1>3

LEMMA RealmIsUpdated ==
  ASSUME IInv, UpdateRealm
  PROVE  IInv'
  BY DEF IInv, UpdateRealm, TypeOK, WorkspaceHasOneOwner, SessionsAreInForce,
         RequestsAreSound, IsSound

LEMMA OwnerIsChecked ==
  ASSUME IInv, NEW s \in Servers, NEW i \in Identities,
         NEW cleanup \in {"keep", "revoke", "suspend"}, CheckOwner(s, i, cleanup)
  PROVE  IInv'
<1> USE DEF IInv, CheckOwner, Starts
<1> DEFINE r == [Request("owner", i) EXCEPT !.previous = owner, !.cleanup = cleanup]
<1>1. r \in Requests /\ IsSound(r)
  BY DEF Request, Requests, IsSound, Kinds, TypeOK
<1>2. request' = [request EXCEPT ![s] = r]  OBVIOUS
<1> HIDE DEF r
<1>3. request' \in [Servers -> Requests] /\ RequestsAreSound'
  BY <1>1, <1>2, SetRequestIsSound DEF TypeOK
<1>4. TypeOK' /\ WorkspaceHasOneOwner' /\ SessionsAreInForce'
  BY <1>3 DEF TypeOK, WorkspaceHasOneOwner, SessionsAreInForce, realm
<1> QED  BY <1>3, <1>4

\* Whoever gets the realm is not the owner of the workspace.
LEMMA OwnerIsCommitted ==
  ASSUME IInv, NEW s \in Servers, CommitOwner(s)
  PROVE  IInv'
<1> DEFINE r == request[s]
           next == IF r.cleanup = "keep" THEN Idle ELSE [r EXCEPT !.kind = "cleanup"]
<1>1. r \in Requests /\ IsSound(r) /\ r.who \in Identities
  BY DEF IInv, TypeOK, RequestsAreSound, IsSound, CommitOwner
<1>2. next \in Requests /\ IsSound(next)
  <2>1. [r EXCEPT !.kind = "cleanup"] \in Requests
    BY <1>1 DEF Requests, Kinds
  <2>2. "password" \in r.stale => "credentials" \in r.stale
    BY <1>1 DEF IsSound, CommitOwner
  <2>3. IsSound([r EXCEPT !.kind = "cleanup"])
    BY <1>1, <2>2 DEF Requests, IsSound
  <2> QED  BY <2>1, <2>3, IdleIsSound
<1>3. request' = [Outdated({"policy"}, {r.who}) EXCEPT ![s] = next]
  BY DEF CommitOwner
<1> HIDE DEF next
<1>4. request' \in [Servers -> Requests] /\ RequestsAreSound'
  BY <1>2, <1>3, OutdatedAndSet DEF IInv, TypeOK, Facts
<1>5. /\ owner' = r.who /\ r.who \notin workspaceOwners
      /\ UNCHANGED <<enabled, workspaceOwners, member, subjects, active, sessions, tokens>>
  BY DEF CommitOwner, StillEligible, Eligible
<1>6. TypeOK'  BY <1>1, <1>4, <1>5 DEF IInv, TypeOK
<1>7. WorkspaceHasOneOwner'  BY <1>5, <1>6 DEF IInv, WorkspaceHasOneOwner
<1>8. SessionsAreInForce'  BY <1>5 DEF IInv, SessionsAreInForce
<1> QED  BY <1>4, <1>6, <1>7, <1>8 DEF IInv

LEMMA OwnerIsCleanedUp ==
  ASSUME IInv, NEW s \in Servers, CleanUp(s)
  PROVE  IInv'
<1>1. request[s] \in Requests /\ IsSound(request[s])
  BY DEF IInv, TypeOK, RequestsAreSound
<1>2. CASE request[s].cleanup = "suspend"
  <2>1. /\ request[s].previous \in Identities
        /\ Suspended(request[s].previous)
        /\ request' = [Outdated({"membership"}, {request[s].previous}) EXCEPT ![s] = Idle]
    BY <1>1, <1>2 DEF IsSound, CleanUp
  <2>2. request' \in [Servers -> Requests] /\ RequestsAreSound'
    BY <2>1, IdleIsSound, OutdatedAndSet DEF IInv, TypeOK, Facts
  <2> QED  BY <2>1, <2>2, MemberIsSuspended
<1>3. CASE request[s].cleanup # "suspend"
  <2>1. /\ sessions' \subseteq sessions /\ request' = [request EXCEPT ![s] = Idle]
        /\ UNCHANGED <<enabled, workspaceOwners, realm, tokens>>
    BY <1>3 DEF CleanUp
  <2>2. request' \in [Servers -> Requests] /\ RequestsAreSound'
    BY <2>1, IdleIsSound, SetRequestIsSound DEF IInv, TypeOK
  <2> QED  BY <2>1, <2>2
           DEF IInv, TypeOK, WorkspaceHasOneOwner, SessionsAreInForce, realm
<1> QED  BY <1>2, <1>3

LEMMA RequestFails ==
  ASSUME IInv, NEW s \in Servers, Fail(s)
  PROVE  IInv'
<1>1. request' \in [Servers -> Requests] /\ RequestsAreSound'
  BY IdleIsSound, SetRequestIsSound DEF IInv, TypeOK, Fail
<1> QED  BY <1>1 DEF Fail, IInv, TypeOK, WorkspaceHasOneOwner, SessionsAreInForce, realm

-----------------------------------------------------------------------------
LEMMA NextIInv == IInv /\ [Next]_vars => IInv'
<1> SUFFICES ASSUME IInv, [Next]_vars PROVE IInv'  OBVIOUS
<1>1. ASSUME NEW s \in Servers, ServerStep(s)  PROVE IInv'
  <2>1. ASSUME NEW i \in Identities, VerifyAdminLogin(s, i) \/ VerifyContentLogin(s, i)
        PROVE  IInv'
    BY <2>1, LoginStarts
  <2>2. ASSUME NEW i \in Identities, CheckSuspension(s, i)  PROVE IInv'
    BY <2>2, SuspensionStarts
  <2>3. ASSUME NEW i \in Identities, NEW cleanup \in {"keep", "revoke", "suspend"},
               CheckOwner(s, i, cleanup)
        PROVE  IInv'
    BY <2>3, OwnerIsChecked
  <2>4. CASE IssueAdminSession(s) \/ IssueContentSession(s)  BY <2>4, SessionIsIssued
  <2>5. CASE SuspendMembership(s)  BY <2>5, SuspensionEnds
  <2>6. CASE CommitOwner(s)  BY <2>6, OwnerIsCommitted
  <2>7. CASE CleanUp(s)  BY <2>7, OwnerIsCleanedUp
  <2>8. CASE Fail(s)  BY <2>8, RequestFails
  <2> QED  BY <1>1, <2>1, <2>2, <2>3, <2>4, <2>5, <2>6, <2>7, <2>8 DEF ServerStep
<1>2. ASSUME NEW i \in Identities, IdentityStep(i)  PROVE IInv'
  <2>1. CASE ResetPassword(i) \/ ConsumeCredentialToken(i) \/ ChangePassword(i)
    BY <2>1, CredentialsMoveOn DEF ResetPassword, ConsumeCredentialToken, ChangePassword
  <2>2. ASSUME NEW purpose, CreateCredentialToken(i, purpose)  PROVE IInv'
    BY <2>2, TokenIsCreated
  <2>3. CASE Disable(i)  BY <2>3, IdentityIsDisabled
  <2>4. CASE Reactivate(i)  BY <2>4, IdentityIsReactivated
  <2>5. CASE TransferWorkspaceOwner(i)  BY <2>5, WorkspaceIsTransferred
  <2>6. CASE ReactivateMembership(i) \/ UpdateSubject(i)  BY <2>6, MemberIsReactivated
  <2> QED  BY <1>2, <2>1, <2>2, <2>3, <2>4, <2>5, <2>6 DEF IdentityStep
<1>3. ASSUME NEW x \in sessions, EndSession(x)  PROVE IInv'
  BY <1>3, SessionEnds
<1>4. CASE UpdateRealm  BY <1>4, RealmIsUpdated
<1>5. CASE UNCHANGED vars
  BY <1>5 DEF vars, IInv, TypeOK, WorkspaceHasOneOwner, SessionsAreInForce,
              RequestsAreSound, IsSound
<1> QED  BY <1>1, <1>2, <1>3, <1>4, <1>5 DEF Next

(* What requests rest on is never overtaken without their knowing.         *)
THEOREM Invariance == Spec => []IInv
  BY InitIInv, NextIInv, PTL DEF Spec

(* The workspace keeps one owner, an enabled operator who never owns the   *)
(* realm, and live sessions and tokens belong to whom they should          *)
(* (transferOwner, createContentSession, setDisabled).                     *)
THEOREM RealmStaysWhole == Spec => []RealmIsWhole
<1>1. IInv => RealmIsWhole  BY DEF IInv, RealmIsWhole
<1> QED  BY <1>1, Invariance, PTL

-----------------------------------------------------------------------------
(* The owner of the realm *)

FitOwner == /\ owner' # owner => active /\ OwnerIsFit'
            /\ active /\ OwnerIsFit => OwnerIsFit'

LEMMA MembershipEndsElsewhere ==
  ASSUME NEW i, Suspended(i), TypeOK
  PROVE  FitOwner
  BY DEF Suspended, FitOwner, OwnerIsFit, TypeOK

\* A request that touches neither the realm nor accounts leaves the owner fit.
LEMMA OwnerIsLeftAlone ==
  ASSUME UNCHANGED <<enabled, workspaceOwners, realm>>
  PROVE  FitOwner
  BY DEF realm, FitOwner, OwnerIsFit

LEMMA NextFitOwner == IInv /\ [Next]_vars => FitOwner
<1> SUFFICES ASSUME IInv, [Next]_vars PROVE FitOwner  OBVIOUS
<1>1. ASSUME NEW s \in Servers, ServerStep(s)  PROVE FitOwner
  <2>1. ASSUME NEW i \in Identities,
               \/ VerifyAdminLogin(s, i) \/ VerifyContentLogin(s, i) \/ CheckSuspension(s, i)
               \/ \E cleanup \in {"keep", "revoke", "suspend"} : CheckOwner(s, i, cleanup)
        PROVE  FitOwner
    BY <2>1, OwnerIsLeftAlone
       DEF VerifyAdminLogin, VerifyContentLogin, CheckSuspension, CheckOwner
  <2>2. CASE IssueAdminSession(s) \/ IssueContentSession(s)
    BY <2>2, OwnerIsLeftAlone DEF IssueAdminSession, IssueContentSession, OpenSession
  <2>3. CASE SuspendMembership(s)
    BY <2>3, MembershipEndsElsewhere DEF SuspendMembership, IInv
  <2>4. CASE CommitOwner(s)
    BY <2>4 DEF CommitOwner, StillEligible, Eligible, FitOwner, OwnerIsFit
  <2>5. CASE CleanUp(s)
    BY <2>5, MembershipEndsElsewhere, OwnerIsLeftAlone DEF CleanUp, IInv
  <2>6. CASE Fail(s)  BY <2>6, OwnerIsLeftAlone DEF Fail
  <2> QED  BY <1>1, <2>1, <2>2, <2>3, <2>4, <2>5, <2>6 DEF ServerStep
<1>2. ASSUME NEW i \in Identities, IdentityStep(i)  PROVE FitOwner
  <2>1. CASE \/ ResetPassword(i) \/ ConsumeCredentialToken(i) \/ ChangePassword(i)
             \/ \E purpose \in {"invitation", "password-reset"} :
                  CreateCredentialToken(i, purpose)
    BY <2>1, OwnerIsLeftAlone
       DEF ResetPassword, ConsumeCredentialToken, ChangePassword, NewPassword,
           CreateCredentialToken
  <2>2. CASE Disable(i)  BY <2>2 DEF Disable, FitOwner, OwnerIsFit
  <2>3. CASE Reactivate(i)  BY <2>3 DEF Reactivate, FitOwner, OwnerIsFit
  <2>4. CASE TransferWorkspaceOwner(i)
    BY <2>4 DEF TransferWorkspaceOwner, OwnsNoRealm, realm, FitOwner, OwnerIsFit
  <2>5. CASE ReactivateMembership(i)
    BY <2>5 DEF ReactivateMembership, FitOwner, OwnerIsFit, IInv, TypeOK
  <2>6. CASE UpdateSubject(i)  BY <2>6 DEF UpdateSubject, FitOwner, OwnerIsFit
  <2> QED  BY <1>2, <2>1, <2>2, <2>3, <2>4, <2>5, <2>6 DEF IdentityStep
<1>3. ASSUME NEW x \in sessions, EndSession(x)  PROVE FitOwner
  BY <1>3, OwnerIsLeftAlone DEF EndSession
<1>4. CASE UpdateRealm  BY <1>4 DEF UpdateRealm, FitOwner, OwnerIsFit
<1>5. CASE UNCHANGED vars  BY <1>5 DEF vars, FitOwner, OwnerIsFit
<1> QED  BY <1>1, <1>2, <1>3, <1>4, <1>5 DEF Next

(* Only who is fit becomes the owner, and nothing done while the realm is  *)
(* active makes its owner unfit (lockEligiblePrimaryOwner, setDisabled,    *)
(* transitionMembership).                                                  *)
THEOREM OwnerStaysFit == Spec => OwnerStands
<1>1. IInv /\ [Next]_vars => [FitOwner]_vars  BY NextFitOwner
<1> QED  BY <1>1, Invariance, PTL DEF Spec, OwnerStands, FitOwner

-----------------------------------------------------------------------------
(* Ceilings.  The version of the realm grows with every ceiling that       *)
(* changes or goes; so rows cached under the current version are as they   *)
(* are stored, and rows read for an older version are never used again.    *)
VersionOK ==
  /\ enforcement \in Nat \cup {NoRow}
  /\ enforcement = NoRow => DOMAIN ceiling = {} /\ denied = {}

ChecksOK ==
  /\ DOMAIN check = Checks
  /\ \A k \in Checks : check[k] # NoRow =>
       enforcement # NoRow /\ check[k] \in Nat /\ check[k] <= enforcement

CacheOK ==
  ceilings # NoRow =>
    /\ enforcement # NoRow /\ ceilings.version \in Nat /\ ceilings.version <= enforcement
    /\ ceilings.version = enforcement =>
         \A c \in DOMAIN ceilings.rows :
           c \in DOMAIN ceiling /\ ceiling[c].terms = ceilings.rows[c]

\* A pass seeds only collections whose ceiling nobody has removed.
PassOK ==
  \/ projection.step = "none"
  \/ /\ projection = [step |-> projection.step, next |-> projection.next,
                      added |-> projection.added, applies |-> projection.applies]
     /\ denied \cap projection.added = {}

CeilingsIInv ==
  /\ VersionOK /\ ChecksOK /\ CacheOK /\ PassOK
  /\ denied \subseteq schema.collections
  /\ DenialsSurvive

\* A stored ceiling that changes or goes takes the version with it.
Bumps ==
  /\ enforcement' \in Nat
  /\ enforcement # NoRow => enforcement <= enforcement'
  /\ enforcement' = enforcement => \A c \in DOMAIN ceiling :
       c \in DOMAIN ceiling' /\ ceiling'[c].terms = ceiling[c].terms

LEMMA CacheStays ==
  ASSUME CeilingsIInv, Bumps, UNCHANGED <<check, ceilings>>
  PROVE  ChecksOK' /\ CacheOK'
<1>1. ChecksOK'  BY DEF CeilingsIInv, VersionOK, ChecksOK, Bumps
<1>2. CacheOK'
  <2> SUFFICES ASSUME ceilings # NoRow
               PROVE  /\ enforcement' # NoRow /\ ceilings.version \in Nat
                      /\ ceilings.version <= enforcement'
                      /\ ceilings.version = enforcement' =>
                           \A c \in DOMAIN ceilings.rows :
                             c \in DOMAIN ceiling' /\ ceiling'[c].terms = ceilings.rows[c]
    BY DEF CacheOK
  <2>1. /\ enforcement \in Nat /\ ceilings.version \in Nat /\ ceilings.version <= enforcement
        /\ enforcement' \in Nat /\ enforcement <= enforcement'
    BY DEF CeilingsIInv, VersionOK, CacheOK, Bumps
  <2> QED  BY <2>1 DEF CeilingsIInv, CacheOK, Bumps
<1> QED  BY <1>1, <1>2

\* A step that writes no ceiling and denies nothing new.
LEMMA QuietStep ==
  ASSUME CeilingsIInv, UNCHANGED <<enforcement, ceiling>>, denied' \subseteq denied,
         denied' \subseteq schema'.collections, ChecksOK', CacheOK', PassOK'
  PROVE  CeilingsIInv'
  BY DEF CeilingsIInv, VersionOK, DenialsSurvive

LEMMA SameCache ==
  ASSUME CeilingsIInv, UNCHANGED <<enforcement, ceiling, check, ceilings>>
  PROVE  ChecksOK' /\ CacheOK'
  BY DEF CeilingsIInv, ChecksOK, CacheOK

LEMMA StepKeepsForm ==
  ASSUME PassOK, projection.step # "none", NEW s, Step(s)
  PROVE  /\ projection' = [step |-> s, next |-> projection.next, added |-> projection.added,
                           applies |-> projection.applies]
         /\ projection'.added = projection.added
<1>1. ASSUME NEW p, NEW v,
             p = [step |-> p.step, next |-> p.next, added |-> p.added, applies |-> p.applies],
             NEW w, w = [p EXCEPT !.step = v]
      PROVE  w = [step |-> v, next |-> p.next, added |-> p.added, applies |-> p.applies]
  BY ONLY <1>1
<1>2. projection' = [step |-> s, next |-> projection.next, added |-> projection.added,
                     applies |-> projection.applies]
  BY <1>1 DEF PassOK, Step
<1> QED  BY <1>2

LEMMA PassGoesOn ==
  ASSUME PassOK, projection.step # "none", NEW s, Step(s), denied' \subseteq denied
  PROVE  PassOK'
<1>1. /\ projection' = [step |-> s, next |-> projection.next, added |-> projection.added,
                        applies |-> projection.applies]
      /\ projection'.added = projection.added
  BY StepKeepsForm
<1>2. /\ projection'.step = s /\ projection'.next = projection.next
      /\ projection'.applies = projection.applies
  BY <1>1
<1> QED  BY <1>1, <1>2 DEF PassOK

\* What reconcileRealmFromPolicy does to versions and denials.
LEMMA ReconcileIsOK ==
  ASSUME CeilingsIInv, NEW added, denied \cap added = {}, Reconcile(added)
  PROVE  /\ Bumps /\ VersionOK' /\ DenialsSurvive'
         /\ denied' = denied /\ schema' = schema /\ projected' = projected
<1> DEFINE auth == schema.auth \cup (schema.collections \cap {ProfileCollection})
           kept == Kept(ceiling, DOMAIN ceiling \ auth)
           seed == {c \in SeedOf(added) \ auth : Granted[c].actions # {}} \ DOMAIN kept
<1>1. /\ ceiling' = [c \in DOMAIN kept \cup seed |->
                       IF c \in seed THEN [terms |-> Granted[c], revision |-> 1] ELSE kept[c]]
      /\ enforcement' = IF enforcement = NoRow THEN 1
                        ELSE IF DOMAIN kept # DOMAIN ceiling THEN enforcement + 1
                        ELSE enforcement
      /\ UNCHANGED <<schema, projected, denied>>
  BY DEF Reconcile
<1>2. /\ DOMAIN kept = DOMAIN ceiling \ auth
      /\ \A c \in DOMAIN kept : kept[c] = ceiling[c]
      /\ seed \cap DOMAIN kept = {}
  BY DEF Kept
<1>3. enforcement # NoRow => denied \cap seed = {}  BY DEF SeedOf
<1>4. enforcement = NoRow => denied = {}  BY DEF CeilingsIInv, VersionOK
<1> HIDE DEF kept, seed
<1>5. enforcement' \in Nat /\ (enforcement # NoRow => enforcement <= enforcement')
  BY <1>1 DEF CeilingsIInv, VersionOK
<1>6. Bumps
  <2> SUFFICES ASSUME enforcement' = enforcement, NEW c \in DOMAIN ceiling
               PROVE  c \in DOMAIN ceiling' /\ ceiling'[c].terms = ceiling[c].terms
    BY <1>5 DEF Bumps
  <2>1. DOMAIN kept = DOMAIN ceiling  BY <1>1, <1>5 DEF CeilingsIInv, VersionOK
  <2> QED  BY <1>1, <1>2, <2>1
<1>7. VersionOK'  BY <1>5 DEF VersionOK
<1>8. DenialsSurvive'
  BY <1>1, <1>2, <1>3, <1>4 DEF CeilingsIInv, DenialsSurvive
<1> QED  BY <1>1, <1>6, <1>7, <1>8

LEMMA InitCeilingsIInv == CeilingsInit => CeilingsIInv
<1> SUFFICES ASSUME CeilingsInit  PROVE CeilingsIInv
  OBVIOUS
<1>1. DOMAIN ceiling = {}  BY DEF CeilingsInit
<1>2. VersionOK /\ ChecksOK /\ CacheOK
  BY <1>1 DEF CeilingsInit, VersionOK, ChecksOK, CacheOK
<1>3. PassOK  BY DEF CeilingsInit, PassOK, Startup
<1> QED  BY <1>1, <1>2, <1>3 DEF CeilingsInit, CeilingsIInv, DenialsSurvive

\* Requests of owners: those that write bump the version.
LEMMA OwnerRequestIsOK ==
  ASSUME CeilingsIInv, NEW t \in Owners, OwnerRequest(t)  PROVE CeilingsIInv'
<1>0. UNCHANGED <<projection, check, ceilings>>
  BY DEF OwnerRequest, AskGrant, AskRemoval, ReadCeiling, PutCeiling, RemoveCeiling, AbortGrant
<1>1. CASE UNCHANGED stored
  <2>1. ChecksOK' /\ CacheOK' /\ PassOK'
    BY <1>0, <1>1, SameCache DEF stored, PassOK, CeilingsIInv
  <2> QED  BY <1>1, <2>1, QuietStep DEF stored, CeilingsIInv
<1>2. CASE PutCeiling(t) /\ enforcement # NoRow
  <2>1. /\ \E v : ceiling' = Set(ceiling, grant[t].collection, v)
        /\ enforcement' = enforcement + 1 /\ denied' = denied \ {grant[t].collection}
        /\ schema' = schema
    BY <1>2 DEF PutCeiling
  <2>2. Bumps /\ VersionOK'  BY <2>1, <1>2 DEF CeilingsIInv, VersionOK, Bumps
  <2>3. DenialsSurvive'  BY <2>1 DEF CeilingsIInv, DenialsSurvive, Set
  <2>4. PassOK'  BY <1>0, <2>1 DEF CeilingsIInv, PassOK
  <2> QED  BY <1>0, <2>1, <2>2, <2>3, <2>4, CacheStays DEF CeilingsIInv
<1>3. CASE RemoveCeiling(t) /\ grant[t].collection \in DOMAIN ceiling
           /\ grant[t].expected = RevisionOf(grant[t].collection)
  <2> DEFINE c == grant[t].collection
             settled == c \in schema.collections
                        /\ ~(projection.step # "none" /\ c \in projection.added)
  <2>1. /\ ceiling' = Kept(ceiling, DOMAIN ceiling \ {c})
        /\ enforcement' = enforcement + 1
        /\ denied' = IF settled THEN denied \cup {c} ELSE denied
        /\ schema' = schema
    BY <1>3 DEF RemoveCeiling, AfterRemoval
  <2>2. Bumps /\ VersionOK'  BY <1>3, <2>1 DEF CeilingsIInv, VersionOK, Bumps
  <2>3. DenialsSurvive'  BY <2>1 DEF CeilingsIInv, DenialsSurvive, Kept
  <2>4. PassOK'  BY <1>0, <2>1 DEF CeilingsIInv, PassOK
  <2>5. denied' \subseteq schema'.collections  BY <2>1 DEF CeilingsIInv
  <2> QED  BY <1>0, <2>2, <2>3, <2>4, <2>5, CacheStays DEF CeilingsIInv
<1> QED  BY <1>1, <1>2, <1>3 DEF OwnerRequest, AskGrant, AskRemoval, ReadCeiling, PutCeiling,
                                 RemoveCeiling, AbortGrant

LEMMA PassIsOK ==
  ASSUME CeilingsIInv, Pass  PROVE CeilingsIInv'
<1>1. CASE StartServer
  <2>1. /\ projection' = Startup /\ UNCHANGED stored
        /\ \/ ceilings' = NoRow /\ check' = [k \in Checks |-> NoRow]
           \/ UNCHANGED <<check, ceilings>>
    BY <1>1 DEF StartServer
  <2>2. ChecksOK' /\ CacheOK'
    BY <2>1, SameCache DEF stored, ChecksOK, CacheOK
  <2>3. PassOK'  BY <2>1 DEF PassOK, Startup
  <2> QED  BY <2>1, <2>2, <2>3, QuietStep DEF stored, CeilingsIInv
<1>2. CASE \E s \in Schemas : BeginApply(s)
  <2>1. PICK s \in Schemas : BeginApply(s)  BY <1>2
  <2>2. /\ \E step : projection' = [step |-> step, next |-> s,
                        added |-> s.collections \ schema.collections, applies |-> TRUE]
        /\ UNCHANGED <<stored, check, ceilings>>
    BY <2>1 DEF BeginApply
  <2>3. PassOK'  BY <2>2 DEF PassOK, CeilingsIInv, stored
  <2> QED  BY <2>2, <2>3, SameCache, QuietStep DEF stored, CeilingsIInv
<1>3. CASE PrepareRealm \/ SyncResources
  <2>1. /\ projection.step # "none" /\ \E s : Step(s)
        /\ UNCHANGED <<schema, enforcement, ceiling, denied, check, ceilings>>
    BY <1>3 DEF PrepareRealm, SyncResources
  <2>2. PassOK'  BY <2>1, PassGoesOn DEF CeilingsIInv
  <2> QED  BY <2>1, <2>2, SameCache, QuietStep DEF CeilingsIInv
<1>4. CASE SeedRealm
  <2>1. /\ projection.step # "none" /\ Step("apply") /\ Reconcile({})
        /\ UNCHANGED <<check, ceilings>>
    BY <1>4 DEF SeedRealm
  <2>2. Bumps /\ VersionOK' /\ DenialsSurvive' /\ denied' = denied /\ schema' = schema
    BY <2>1, ReconcileIsOK
  <2>3. PassOK'  BY <2>1, <2>2, PassGoesOn DEF CeilingsIInv
  <2> QED  BY <2>1, <2>2, <2>3, CacheStays DEF CeilingsIInv
<1>5. CASE ApplySchema
  <2>1. /\ projection.step # "none" /\ \E s : Step(s)
        /\ denied' = denied \cap projection.next.collections /\ schema' = projection.next
        /\ UNCHANGED <<enforcement, ceiling, check, ceilings>>
    BY <1>5 DEF ApplySchema
  <2>2. PassOK'  BY <2>1, PassGoesOn DEF CeilingsIInv
  <2> QED  BY <2>1, <2>2, SameCache, QuietStep
<1>6. CASE ReconcileCeilings
  <2>1. /\ projection.step # "none" /\ Reconcile(projection.added)
        /\ Step("prune") \/ projection' = [step |-> "none"]
        /\ UNCHANGED <<check, ceilings>>
    BY <1>6 DEF ReconcileCeilings
  <2>2. denied \cap projection.added = {}  BY <2>1 DEF CeilingsIInv, PassOK
  <2>3. Bumps /\ VersionOK' /\ DenialsSurvive' /\ denied' = denied /\ schema' = schema
    BY <2>1, <2>2, ReconcileIsOK
  <2>4. PassOK'
    <3>1. CASE Step("prune")  BY <2>1, <2>3, <3>1, PassGoesOn DEF CeilingsIInv
    <3>2. CASE projection' = [step |-> "none"]  BY <3>2 DEF PassOK
    <3> QED  BY <2>1, <3>1, <3>2
  <2> QED  BY <2>1, <2>3, <2>4, CacheStays DEF CeilingsIInv
<1>7. CASE Prune
  <2> DEFINE retired == DOMAIN ceiling \ schema.collections
  <2>1. /\ ceiling' = Kept(ceiling, schema.collections)
        /\ enforcement' = IF retired = {} THEN enforcement ELSE enforcement + 1
        /\ projection' = [step |-> "none"]
        /\ UNCHANGED <<schema, denied, check, ceilings>>
    BY <1>7 DEF Prune
  <2>2. DOMAIN ceiling' = DOMAIN ceiling \ retired /\ DOMAIN ceiling' \subseteq DOMAIN ceiling
        /\ \A c \in DOMAIN ceiling' : ceiling'[c] = ceiling[c]
    BY <2>1 DEF Kept
  <2>3. DenialsSurvive' /\ PassOK'
    BY <2>1, <2>2 DEF CeilingsIInv, DenialsSurvive, PassOK
  <2>4. CASE enforcement = NoRow
    <3>1. retired = {}  BY <2>4 DEF CeilingsIInv, VersionOK
    <3>2. UNCHANGED <<enforcement, check, ceilings>> /\ DOMAIN ceiling' = DOMAIN ceiling
      BY <2>1, <2>2, <3>1
    <3>3. ChecksOK' /\ CacheOK' /\ VersionOK'
      BY <2>1, <2>4, <3>2 DEF CeilingsIInv, ChecksOK, CacheOK, VersionOK
    <3> QED  BY <2>1, <2>3, <3>3 DEF CeilingsIInv
  <2>5. CASE enforcement # NoRow
    <3>1. enforcement' \in Nat /\ enforcement <= enforcement'
          /\ (enforcement' = enforcement => retired = {})
      BY <2>1, <2>5 DEF CeilingsIInv, VersionOK
    <3>2. Bumps  BY <2>2, <3>1 DEF Bumps
    <3>3. VersionOK'  BY <3>1 DEF VersionOK
    <3> QED  BY <2>1, <2>3, <3>2, <3>3, CacheStays DEF CeilingsIInv
  <2> QED  BY <2>4, <2>5
<1>8. CASE FailPass
  <2>1. projection' = [step |-> "none"] /\ UNCHANGED <<stored, check, ceilings>>
    BY <1>8 DEF FailPass
  <2>2. PassOK'  BY <2>1 DEF PassOK
  <2> QED  BY <2>1, <2>2, SameCache, QuietStep DEF stored, CeilingsIInv
<1> QED  BY <1>1, <1>2, <1>3, <1>4, <1>5, <1>6, <1>7, <1>8 DEF Pass

LEMMA CheckIsOK ==
  ASSUME CeilingsIInv, NEW k \in Checks, ReadVersion(k) \/ ReadCeilings(k)
  PROVE  CeilingsIInv'
<1>0. UNCHANGED <<stored, projection>>  BY DEF ReadVersion, ReadCeilings
<1>1. PassOK'  BY <1>0 DEF PassOK, stored, CeilingsIInv
<1>2. CASE ReadVersion(k)
  <2>1. check' = [check EXCEPT ![k] = enforcement] /\ ceilings' = ceilings /\ enforcement # NoRow
    BY <1>2 DEF ReadVersion
  <2>2. ChecksOK'  BY <1>0, <2>1 DEF CeilingsIInv, VersionOK, ChecksOK, stored
  <2>3. CacheOK'  BY <1>0, <2>1 DEF CeilingsIInv, CacheOK, stored
  <2> QED  BY <1>0, <1>1, <2>2, <2>3, QuietStep DEF stored, CeilingsIInv
<1>3. CASE ReadCeilings(k)
  <2>1. /\ check[k] # NoRow /\ check' = [check EXCEPT ![k] = NoRow]
        /\ ceilings' = [version |-> check[k], rows |-> [c \in DOMAIN ceiling |-> ceiling[c].terms]]
    BY <1>3 DEF ReadCeilings
  <2>2. ChecksOK'  BY <1>0, <2>1 DEF CeilingsIInv, ChecksOK, stored
  <2>3. CacheOK'
    BY <1>0, <2>1 DEF CeilingsIInv, ChecksOK, CacheOK, stored
  <2> QED  BY <1>0, <1>1, <2>2, <2>3, QuietStep DEF stored, CeilingsIInv
<1> QED  BY <1>2, <1>3

LEMMA NextCeilingsIInv == CeilingsIInv /\ [CeilingsNext]_cvars => CeilingsIInv'
<1> SUFFICES ASSUME CeilingsIInv, [CeilingsNext]_cvars  PROVE CeilingsIInv'
  OBVIOUS
<1>1. CASE UNCHANGED cvars
  <2>1. PassOK'  BY <1>1 DEF cvars, PassOK, CeilingsIInv
  <2> QED  BY <1>1, <2>1, SameCache, QuietStep DEF cvars, CeilingsIInv
<1> QED  BY <1>1, OwnerRequestIsOK, PassIsOK, CheckIsOK DEF CeilingsNext

THEOREM CeilingsInvariance == CeilingsSpec => []CeilingsIInv
  BY InitCeilingsIInv, NextCeilingsIInv, PTL DEF CeilingsSpec

\* Nothing goes on being allowed after it was withdrawn: rows cached under the
\* current version allow no more than the stored ones, in whatever order they
\* were read (loadEntitlements, gateDecision), and a ceiling that an owner has
\* removed does not come back with a restart or an apply
\* (reconcileRealmFromPolicy).
THEOREM CeilingsStand == CeilingsSpec => []CeilingsHold
<1>1. CeilingsIInv => CacheNeverWidens
  BY DEF CeilingsIInv, CacheOK, CacheNeverWidens
<1>2. CeilingsIInv => CeilingsHold
  BY <1>1 DEF CeilingsIInv, CeilingsHold
<1> QED  BY <1>2, CeilingsInvariance, PTL

-----------------------------------------------------------------------------
(* Delegations.  An account whose revision has not changed since a manager *)
(* read it is as enabled, and as much an account of the CMS, as it was.    *)
Form(q) ==
  q = [step |-> q.step, on |-> q.on, action |-> q.action, enable |-> q.enable,
       target |-> q.target]

ActOK(q) ==
  \/ q = NoAct
  \/ /\ Form(q) /\ q.step \in {"target", "authorized"} /\ q.on \in Accounts
     /\ q.enable \in BOOLEAN
     /\ q.target.revision \in Nat /\ q.target.revision <= account[q.on].revision
     /\ q.target.revision = account[q.on].revision =>
          /\ q.target.system = account[q.on].system
          /\ q.target.enabled = account[q.on].enabled
     /\ q.step = "authorized" => ~q.target.system

AccountRows == [enabled : BOOLEAN, system : BOOLEAN, realms : SUBSET ContentRealms,
                revision : Nat]
AccountsOK == account \in [Accounts -> AccountRows]

DelegationsIInv ==
  /\ AccountsOK
  /\ DOMAIN act = Managers
  /\ \A m \in Managers : ActOK(act[m])

\* A change of an account that revises it whenever it matters to a manager.
LEMMA AccountChanges ==
  ASSUME AccountsOK, AccountsOK', NEW q, ActOK(q),
         \A i \in Accounts :
           \/ account'[i].revision = account[i].revision + 1
           \/ /\ account'[i].revision = account[i].revision
              /\ account'[i].system = account[i].system
              /\ account'[i].enabled = account[i].enabled
  PROVE  ActOK(q)'
<1>1. CASE q = NoAct  BY <1>1 DEF ActOK
<1>2. CASE q # NoAct
  <2>1. /\ q.on \in Accounts /\ account[q.on].revision \in Nat /\ account'[q.on].revision \in Nat
        /\ q.target.revision \in Nat /\ q.target.revision <= account[q.on].revision
    BY <1>2 DEF ActOK, AccountsOK, AccountRows
  <2>2. q.target.revision <= account'[q.on].revision  BY <2>1
  <2>3. q.target.revision = account'[q.on].revision =>
          /\ account'[q.on].revision = account[q.on].revision
          /\ account'[q.on].system = account[q.on].system
          /\ account'[q.on].enabled = account[q.on].enabled
    BY <2>1
  <2> QED  BY <1>2, <2>1, <2>2, <2>3 DEF ActOK
<1> QED  BY <1>1, <1>2

\* A row whose revision grows, whoever writes it.
LEMMA RowIsRevised ==
  ASSUME NEW a \in AccountRows, NEW e \in BOOLEAN, NEW w,
         \/ w = [a EXCEPT !.enabled = e, !.revision = @ + 1]
         \/ w = [a EXCEPT !.revision = @ + 1, !.enabled = e]
         \/ w = [a EXCEPT !.system = e, !.revision = @ + 1]
  PROVE  w \in AccountRows /\ w.revision = a.revision + 1
<1>1. /\ a = [enabled |-> a.enabled, system |-> a.system, realms |-> a.realms,
              revision |-> a.revision]
      /\ a.enabled \in BOOLEAN /\ a.system \in BOOLEAN /\ a.realms \in SUBSET ContentRealms
      /\ a.revision \in Nat
  BY DEF AccountRows
<1>2. \/ w = [enabled |-> e, system |-> a.system, realms |-> a.realms,
              revision |-> a.revision + 1]
      \/ w = [enabled |-> a.enabled, system |-> e, realms |-> a.realms,
              revision |-> a.revision + 1]
  BY <1>1
<1> QED  BY <1>1, <1>2 DEF AccountRows

LEMMA ActChanges ==
  ASSUME DelegationsIInv, AccountsOK', NEW m \in Managers, NEW q,
         act' = [act EXCEPT ![m] = q], ActOK(q)', \A x : ActOK(x) => ActOK(x)'
  PROVE  DelegationsIInv'
<1>1. act'[m] = q /\ \A p \in Managers \ {m} : act'[p] = act[p]  BY DEF DelegationsIInv
<1>2. ASSUME NEW p \in Managers  PROVE ActOK(act[p])'
  <2>1. CASE p = m  BY <1>1, <2>1 DEF ActOK
  <2>2. CASE p # m
    <3>1. PICK x : x = act[p]  OBVIOUS
    <3>2. ActOK(x)'  BY <3>1 DEF DelegationsIInv
    <3> QED  BY <1>1, <2>2, <3>1, <3>2 DEF ActOK
  <2> QED  BY <2>1, <2>2
<1> QED  BY <1>2 DEF DelegationsIInv

LEMMA InitDelegationsIInv == DelegationsInit => DelegationsIInv
<1> SUFFICES ASSUME DelegationsInit  PROVE DelegationsIInv
  OBVIOUS
<1>1. ASSUME NEW i \in Accounts  PROVE account[i] \in AccountRows
  <2>1. PICK s \in BOOLEAN, r \in SUBSET ContentRealms :
          account[i] = [enabled |-> TRUE, system |-> s, realms |-> r, revision |-> 1]
    BY DEF DelegationsInit
  <2> QED  BY <2>1 DEF AccountRows
<1>2. AccountsOK  BY <1>1 DEF DelegationsInit, AccountsOK
<1> QED  BY <1>2 DEF DelegationsInit, DelegationsIInv, ActOK

\* Whoever administers accounts revises them, or touches memberships only.
LEMMA AccountStepIsOK ==
  ASSUME DelegationsIInv, NEW i \in Accounts,
         \/ \E r \in ContentRealms : SetMembership(i, r)
         \/ \E on \in BOOLEAN : AdministerIdentity(i, on)
         \/ CreateSystemMembership(i)
  PROVE  DelegationsIInv'
<1>1. PICK a : a = account[i]  OBVIOUS
<1>2. a \in AccountRows  BY <1>1 DEF DelegationsIInv, AccountsOK, AccountRows
<1>3. /\ UNCHANGED act
      /\ \/ \E r \in ContentRealms : account' = [account EXCEPT ![i].realms =
                                        IF r \in @ THEN @ \ {r} ELSE @ \cup {r}]
         \/ \E e \in BOOLEAN : account' = [account EXCEPT ![i].enabled = e, ![i].revision = @ + 1]
         \/ account' = [account EXCEPT ![i].system = TRUE, ![i].revision = @ + 1]
  BY DEF SetMembership, AdministerIdentity, CreateSystemMembership
<1>4. \E w \in AccountRows :
        /\ account' = [account EXCEPT ![i] = w]
        /\ \/ w.revision = a.revision + 1
           \/ w.revision = a.revision /\ w.system = a.system /\ w.enabled = a.enabled
  <2>1. ASSUME NEW r \in ContentRealms,
               account' = [account EXCEPT ![i].realms = IF r \in @ THEN @ \ {r} ELSE @ \cup {r}]
        PROVE  <1>4!:
    <3> DEFINE w == [a EXCEPT !.realms = IF r \in @ THEN @ \ {r} ELSE @ \cup {r}]
    <3>1. /\ w \in AccountRows /\ w.revision = a.revision /\ w.system = a.system
          /\ w.enabled = a.enabled
      BY <1>2 DEF AccountRows
    <3>2. account' = [account EXCEPT ![i] = w]  BY <1>1, <2>1
    <3> QED  BY <3>1, <3>2
  <2>2. ASSUME NEW e \in BOOLEAN,
               account' = [account EXCEPT ![i].enabled = e, ![i].revision = @ + 1]
        PROVE  <1>4!:
    <3> DEFINE w == [a EXCEPT !.enabled = e, !.revision = @ + 1]
    <3>1. w \in AccountRows /\ w.revision = a.revision + 1  BY <1>2, RowIsRevised
    <3>2. account' = [account EXCEPT ![i] = w]  BY <1>1, <2>2 DEF DelegationsIInv, AccountsOK, AccountRows
    <3> QED  BY <3>1, <3>2
  <2>3. ASSUME account' = [account EXCEPT ![i].system = TRUE, ![i].revision = @ + 1]
        PROVE  <1>4!:
    <3> DEFINE w == [a EXCEPT !.system = TRUE, !.revision = @ + 1]
    <3>1. w \in AccountRows /\ w.revision = a.revision + 1  BY <1>2, RowIsRevised
    <3>2. account' = [account EXCEPT ![i] = w]  BY <1>1, <2>3 DEF DelegationsIInv, AccountsOK, AccountRows
    <3> QED  BY <3>1, <3>2
  <2> QED  BY <1>3, <2>1, <2>2, <2>3
<1>5. AccountsOK'  BY <1>4 DEF DelegationsIInv, AccountsOK, AccountRows
<1>6. \A j \in Accounts :
        \/ account'[j].revision = account[j].revision + 1
        \/ /\ account'[j].revision = account[j].revision
           /\ account'[j].system = account[j].system
           /\ account'[j].enabled = account[j].enabled
  BY <1>1, <1>4 DEF DelegationsIInv, AccountsOK, AccountRows
<1>7. \A x : ActOK(x) => ActOK(x)'
  BY <1>5, <1>6, AccountChanges DEF DelegationsIInv
<1>8. ASSUME NEW p \in Managers  PROVE ActOK(act[p])'
  <2>1. PICK x : x = act[p]  OBVIOUS
  <2>2. ActOK(x)'  BY <1>7, <2>1 DEF DelegationsIInv
  <2> QED  BY <1>3, <2>1, <2>2 DEF ActOK
<1> QED  BY <1>3, <1>5, <1>8 DEF DelegationsIInv

LEMMA DecideIsOK ==
  ASSUME DelegationsIInv, NEW m \in Managers,
         \/ \E i \in Accounts, action \in DelegableActions, enable \in BOOLEAN :
              GetTarget(m, i, action, enable)
         \/ Authorize(m) \/ RevokeSessions(m)
  PROVE  DelegationsIInv'
<1>0. account' = account  BY DEF GetTarget, Authorize, RevokeSessions
<1>1. AccountsOK' /\ \A x : ActOK(x) => ActOK(x)'
  BY <1>0 DEF DelegationsIInv, AccountsOK, ActOK
<1>2. ASSUME NEW i \in Accounts, NEW action, NEW enable \in BOOLEAN,
             GetTarget(m, i, action, enable)
      PROVE  DelegationsIInv'
  <2> DEFINE q == [step |-> "target", on |-> i, action |-> action, enable |-> enable,
                   target |-> account[i]]
  <2>1. act' = [act EXCEPT ![m] = q]  BY <1>2 DEF GetTarget
  <2>2. account[i].revision \in Nat  BY DEF DelegationsIInv, AccountsOK, AccountRows
  <2>3. PICK w : w = q  OBVIOUS
  <2>4. ActOK(w)'
    BY <1>0, <2>2, <2>3 DEF ActOK, Form
  <2> QED  BY <1>1, <2>1, <2>3, <2>4, ActChanges
<1>3. ASSUME Authorize(m)  PROVE DelegationsIInv'
  <2>1. PICK q : q = act[m]  OBVIOUS
  <2>2. ActOK(q) /\ q.step = "target" /\ q # NoAct /\ DOMAIN act = Managers
    BY <1>3, <2>1 DEF Authorize, DelegationsIInv, NoAct
  <2>3. CASE act' = [act EXCEPT ![m] = NoAct]
    BY <1>1, <2>3, ActChanges DEF ActOK
  <2>4. CASE act' = [act EXCEPT ![m] = [@ EXCEPT !.step = "authorized"]] /\ ~q.target.system
    <3>1. PICK w : w = [q EXCEPT !.step = "authorized"]  OBVIOUS
    <3>2. w = [step |-> "authorized", on |-> q.on, action |-> q.action, enable |-> q.enable,
               target |-> q.target]
      <4>1. ASSUME NEW p,
                   p = [step |-> p.step, on |-> p.on, action |-> p.action,
                        enable |-> p.enable, target |-> p.target],
                   NEW v, v = [p EXCEPT !.step = "authorized"]
            PROVE  v = [step |-> "authorized", on |-> p.on, action |-> p.action,
                        enable |-> p.enable, target |-> p.target]
        BY ONLY <4>1
      <4> QED  BY <2>2, <3>1, <4>1 DEF ActOK, Form
    <3>3. /\ w.step = "authorized" /\ w.on = q.on /\ w.action = q.action
          /\ w.enable = q.enable /\ w.target = q.target
      BY <3>2
    <3>4. ActOK(w)'  BY <1>0, <2>2, <2>4, <3>2, <3>3 DEF ActOK, Form
    <3>5. act' = [act EXCEPT ![m] = w]  BY <2>1, <2>4, <3>1
    <3> QED  BY <1>1, <3>4, <3>5, ActChanges
  <2> QED  BY <1>3, <2>1, <2>2, <2>3, <2>4 DEF Authorize, Permitted
<1>4. ASSUME RevokeSessions(m)  PROVE DelegationsIInv'
  BY <1>1, <1>4, ActChanges DEF RevokeSessions, ActOK
<1> QED  BY <1>2, <1>3, <1>4

LEMMA ActOnIdentityIsOK ==
  ASSUME DelegationsIInv, NEW m \in Managers, ActOnIdentity(m)
  PROVE  /\ DelegationsIInv'
         /\ account' # account =>
              /\ ~account[act[m].on].system
              /\ account[act[m].on].enabled = act[m].target.enabled
<1>1. PICK q : q = act[m]  OBVIOUS
<1>2. /\ ActOK(q) /\ q.step = "authorized" /\ q # NoAct /\ q.on \in Accounts
      /\ act' = [act EXCEPT ![m] = NoAct]
  BY <1>1 DEF ActOnIdentity, DelegationsIInv, NoAct, ActOK
<1>3. CASE account' = account
  <2>1. AccountsOK' /\ \A x : ActOK(x) => ActOK(x)'
    BY <1>3 DEF DelegationsIInv, AccountsOK, ActOK
  <2> QED  BY <1>2, <1>3, <2>1, ActChanges DEF ActOK
<1>4. CASE /\ account[q.on].revision = q.target.revision
           /\ \E e \in BOOLEAN :
                account' = [account EXCEPT ![q.on].revision = @ + 1, ![q.on].enabled = e]
  <2>1. PICK e \in BOOLEAN :
          account' = [account EXCEPT ![q.on].revision = @ + 1, ![q.on].enabled = e]
    BY <1>4
  <2>2. PICK a : a = account[q.on]  OBVIOUS
  <2>3. a \in AccountRows
    BY <1>2, <2>2 DEF DelegationsIInv, AccountsOK, AccountRows
  <2>4. PICK w : w = [a EXCEPT !.revision = @ + 1, !.enabled = e]  OBVIOUS
  <2>5. w \in AccountRows /\ w.revision = a.revision + 1
    BY <2>3, <2>4, RowIsRevised
  <2>6. account' = [account EXCEPT ![q.on] = w]
    BY <1>2, <2>1, <2>2, <2>4 DEF DelegationsIInv, AccountsOK, AccountRows
  <2>7. AccountsOK'  BY <2>5, <2>6 DEF DelegationsIInv, AccountsOK, AccountRows
  <2>8. \A j \in Accounts :
          \/ account'[j].revision = account[j].revision + 1
          \/ /\ account'[j].revision = account[j].revision
             /\ account'[j].system = account[j].system
             /\ account'[j].enabled = account[j].enabled
    BY <2>2, <2>5, <2>6 DEF DelegationsIInv, AccountsOK, AccountRows
  <2>9. \A x : ActOK(x) => ActOK(x)'
    BY <2>7, <2>8, AccountChanges DEF DelegationsIInv
  <2>10. ~account[q.on].system /\ account[q.on].enabled = q.target.enabled
    BY <1>2, <1>4 DEF ActOK
  <2> QED  BY <1>1, <1>2, <2>7, <2>9, <2>10, ActChanges DEF ActOK
<1>5. account[q.on].enabled \in BOOLEAN
  BY <1>2 DEF DelegationsIInv, AccountsOK, AccountRows
<1> QED  BY <1>1, <1>3, <1>4, <1>5 DEF ActOnIdentity

LEMMA NextDelegationsIInv == DelegationsIInv /\ [DelegationsNext]_dvars => DelegationsIInv'
<1> SUFFICES ASSUME DelegationsIInv, [DelegationsNext]_dvars  PROVE DelegationsIInv'
  OBVIOUS
<1>1. CASE UNCHANGED <<account, act>>
  BY <1>1 DEF DelegationsIInv, AccountsOK, ActOK
<1>2. ASSUME NEW o \in Delegators,
             \/ \E d \in RealmPairs : ReadDelegation(o, d)
             \/ \E scope \in Scopes : PutDelegation(o, scope) \/ InsertDelegation(o, scope)
             \/ FindNoDelegation(o) \/ RemoveDelegation(o) \/ RefuseChange(o)
      PROVE  UNCHANGED <<account, act>>
  BY <1>2 DEF ReadDelegation, PutDelegation, InsertDelegation, FindNoDelegation,
              RemoveDelegation, RefuseChange
<1>3. ASSUME NEW i \in Accounts,
             \/ \E r \in ContentRealms : SetMembership(i, r)
             \/ \E on \in BOOLEAN : AdministerIdentity(i, on)
             \/ CreateSystemMembership(i)
      PROVE  DelegationsIInv'
  BY <1>3, AccountStepIsOK
<1>4. ASSUME NEW m \in Managers,
             \/ \E i \in Accounts, action \in DelegableActions, enable \in BOOLEAN :
                  GetTarget(m, i, action, enable)
             \/ Authorize(m) \/ RevokeSessions(m)
      PROVE  DelegationsIInv'
  BY <1>4, DecideIsOK
<1>5. ASSUME NEW m \in Managers, ActOnIdentity(m)  PROVE DelegationsIInv'
  BY <1>5, ActOnIdentityIsOK
<1>6. CASE UNCHANGED dvars  BY <1>1, <1>6 DEF dvars
<1> QED  BY <1>1, <1>2, <1>3, <1>4, <1>5, <1>6 DEF DelegationsNext

THEOREM DelegationsInvariance == DelegationsSpec => []DelegationsIInv
  BY InitDelegationsIInv, NextDelegationsIInv, PTL DEF DelegationsSpec

\* A manager never disables, reactivates or resets an account of the CMS, nor
\* one that another request changed since it was read, although the account is
\* read, the delegations are weighed and the act is done in three steps
\* (setDisabled, resetPassword, evaluateCrossRealmManagement).
THEOREM CmsAccountsStayOutOfReach == DelegationsSpec => CmsAccountsAreOutOfReach
<1>1. ASSUME DelegationsIInv, [DelegationsNext]_dvars, NEW m \in Managers,
             act[m] # NoAct, act'[m] = NoAct, account' # account
      PROVE  /\ ~account[act[m].on].system
             /\ account[act[m].on].enabled = act[m].target.enabled
  <2>1. ASSUME NEW n \in Managers, n # m, \E q : act' = [act EXCEPT ![n] = q]
        PROVE  FALSE
    BY <1>1, <2>1 DEF DelegationsIInv
  <2>2. PICK n \in Managers : ActOnIdentity(n)
    BY <1>1 DEF DelegationsNext, dvars, ReadDelegation, PutDelegation, InsertDelegation,
                FindNoDelegation, RemoveDelegation, RefuseChange, SetMembership,
                AdministerIdentity, CreateSystemMembership, GetTarget, Authorize,
                RevokeSessions
  <2>3. n = m  BY <2>1, <2>2 DEF ActOnIdentity
  <2> QED  BY <1>1, <2>2, <2>3, ActOnIdentityIsOK
<1>2. DelegationsIInv /\ [DelegationsNext]_dvars =>
        [\A m \in Managers :
           LET i == act[m].on
           IN act[m] # NoAct /\ act'[m] = NoAct /\ account' # account =>
                /\ ~account[i].system
                /\ account[i].enabled = act[m].target.enabled]_dvars
  BY <1>1
<1> QED  BY <1>2, DelegationsInvariance, PTL DEF DelegationsSpec, CmsAccountsAreOutOfReach

-----------------------------------------------------------------------------
(* Nobody becomes a member by another's password, one profile is made, the *)
(* roles are given and what administrators did stands, however sagas stop, *)
(* resume and run beside each other.                                       *)
(*                                                                         *)
(* What holds of the state is carried by what holds of every saga: its     *)
(* stamp is the version of the password it was asked with unless it made   *)
(* the identity; from the subject on the identity is none of another       *)
(* realm; a policy it has read is the current one if the revision is; the  *)
(* roles it has dealt with are bound.  Sagas that make a profile beside    *)
(* each other have overlapped: the one that comes alone finds none.        *)

SagaSteps == {"create", "resume", "subject", "subject-read", "membership", "profile", "document",
              "activate", "roles", "roles-read", "session", "insert"}
RoleSteps == {"roles", "roles-read", "session", "insert"}
IdentityRows == [origin : {"realm", "system", "elsewhere"}, enabled : BOOLEAN, password : Passwords]
MembershipRows == [status : {"none", "pending", "active", "suspended"}, revision : Nat, profile : Nat]
RoleSets == SUBSET (DefaultRoles \cup {Administrator})
ReadPolicies == [at : Nat, subject : {"absent", "enabled", "disabled"}, roles : RoleSets]
SagaRecords == [step : SagaSteps, kind : SagaKinds, password : Passwords \cup {"none"},
                creator : BOOLEAN, stamp : Passwords \cup {"none"}, defaults : SUBSET DefaultRoles,
                membership : MembershipRows, document : Nat, policy : ReadPolicies,
                left : SUBSET DefaultRoles]

RowsOK ==
  /\ identity \in IdentityRows \cup {NoIdentity}
  /\ subject \in {"absent", "enabled", "disabled"} /\ roles \in RoleSets
  /\ policyAt \in Nat \ {0}
  /\ membership \in MembershipRows /\ membership.profile \in profile \cup {0}
  /\ membership # NoMembership => identity # NoIdentity /\ identity.origin # "elsewhere"
  /\ profile \subseteq Nat /\ IsFiniteSet(profile)
  /\ admission \in Realms

SessionOK(o, passwords) ==
  /\ o.creator => o.password \in passwords
  /\ ~o.creator => o.stamp \in {"none", o.password}

SessionsOK ==
  \A o \in opened : identity # NoIdentity /\ SessionOK(o, owned)

(* What holds of a saga g, given the rows.                                 *)
Fits(g, who, passwords, theSubject, bound, revision, documents) ==
  g # NoSaga =>
    /\ g.step = "create" => g.password \in Passwords
    /\ SessionOK(g, passwords)
    /\ g.step # "create" => who # NoIdentity
    /\ g.step \notin {"create", "resume"} => who.origin # "elsewhere"
    /\ g.policy.at <= revision
    /\ g.policy.at = revision => g.policy.subject = theSubject /\ g.policy.roles = bound
    /\ g.policy.roles \ {Administrator} \subseteq bound
    /\ g.left \subseteq g.defaults /\ (g.step \notin RoleSteps => g.left = g.defaults)
    /\ g.document \in documents \cup {0}
    /\ g.step \in {"create", "resume", "subject", "subject-read", "membership", "profile", "document"} =>
         g.document = 0
    /\ g.step \in {"roles", "roles-read"} => (g.defaults \ g.left) \ {Administrator} \subseteq bound
    /\ g.step \in {"session", "insert"} /\ g.document # 0 => g.defaults \ {Administrator} \subseteq bound

SagasOK ==
  /\ saga \in [Joiners -> SagaRecords \cup {NoSaga}]
  /\ \A r \in Joiners : Fits(saga[r], identity, owned, subject, roles, policyAt, profile)

OverlapsShow ==
  /\ Cardinality(Midway(saga)) > 1 => overlapped
  /\ ~overlapped => /\ Cardinality(profile) <= 1
                    /\ \A r \in Joiners : At(r, "document") => profile = {}

ProvisioningInv == RowsOK /\ SessionsOK /\ SagasOK /\ OverlapsShow

USE ProvisioningAssumption DEF RoleSteps

LEMMA NoSagaIsNone == ASSUME NEW g \in SagaRecords PROVE g # NoSaga /\ g.step # "none"
  BY DEF SagaRecords, SagaSteps, NoSaga

LEMMA ProvisioningInitOK == ASSUME ProvisioningInit PROVE ProvisioningInv
<1>1. RowsOK
  BY FS_EmptySet DEF ProvisioningInit, RowsOK, NoMembership, MembershipRows, RoleSets
<1>2. SessionsOK /\ SagasOK
  BY DEF ProvisioningInit, SessionsOK, SagasOK, Fits
<1>3. OverlapsShow
  <2>1. Midway(saga) = {}
    BY DEF ProvisioningInit, Midway, NoSaga
  <2>2. Cardinality(Midway(saga)) = 0 /\ Cardinality(profile) = 0 /\ profile = {}
    BY <2>1, FS_EmptySet DEF ProvisioningInit
  <2> QED  BY <2>2 DEF OverlapsShow
<1> QED  BY <1>1, <1>2, <1>3 DEF ProvisioningInv

-----------------------------------------------------------------------------
(* The rows only ever move on.                                             *)
Grows ==
  /\ identity # NoIdentity => identity' # NoIdentity /\ identity'.origin = identity.origin
  /\ owned \subseteq owned' /\ profile \subseteq profile'
  /\ policyAt <= policyAt'
  /\ policyAt' = policyAt => subject' = subject /\ roles' = roles
  /\ roles \ {Administrator} \subseteq roles'

LEMMA FitsStays ==
  ASSUME NEW g \in SagaRecords \cup {NoSaga}, NEW who, NEW who1, NEW own, NEW own1, NEW subj, NEW subj1,
         NEW bound, NEW bound1, NEW rev \in Nat, NEW rev1 \in Nat, NEW docs, NEW docs1,
         who # NoIdentity => who1 # NoIdentity /\ who1.origin = who.origin,
         own \subseteq own1, docs \subseteq docs1, rev <= rev1,
         rev1 = rev => subj1 = subj /\ bound1 = bound,
         bound \ {Administrator} \subseteq bound1,
         Fits(g, who, own, subj, bound, rev, docs)
  PROVE  Fits(g, who1, own1, subj1, bound1, rev1, docs1)
<1> SUFFICES ASSUME g # NoSaga PROVE Fits(g, who1, own1, subj1, bound1, rev1, docs1)
  BY DEF Fits
<1>1. g.policy.at \in Nat
  BY DEF SagaRecords, ReadPolicies
<1>2. /\ g.policy.at <= rev1
      /\ g.policy.at = rev1 => g.policy.subject = subj1 /\ g.policy.roles = bound1
  <2>1. g.policy.at <= rev /\ (g.policy.at = rev => g.policy.subject = subj /\ g.policy.roles = bound)
    BY DEF Fits
  <2> QED  BY <1>1, <2>1
<1>3. /\ g.policy.roles \ {Administrator} \subseteq bound1
      /\ g.document \in docs1 \cup {0}
      /\ g.step \in {"roles", "roles-read"} => (g.defaults \ g.left) \ {Administrator} \subseteq bound1
      /\ g.step \in {"session", "insert"} /\ g.document # 0 => g.defaults \ {Administrator} \subseteq bound1
  BY DEF Fits
<1>4. SessionOK(g, own1)
  BY DEF Fits, SessionOK
<1>5. /\ g.step # "create" => who1 # NoIdentity
      /\ g.step \notin {"create", "resume"} => who1.origin # "elsewhere"
  BY DEF Fits
<1> QED  BY <1>2, <1>3, <1>4, <1>5 DEF Fits

(* A saga that ends or moves on.                                           *)
Moves(r, g) ==
  /\ saga' = [saga EXCEPT ![r] = g]
  /\ g \in SagaRecords \cup {NoSaga}
  /\ Fits(g, identity', owned', subject', roles', policyAt', profile')

LEMMA SagasMove ==
  ASSUME ProvisioningInv, NEW r \in Joiners, NEW g, Moves(r, g), RowsOK', Grows
  PROVE  SagasOK'
<1>1. saga' \in [Joiners -> SagaRecords \cup {NoSaga}]
  BY DEF ProvisioningInv, SagasOK, Moves
<1>2. ASSUME NEW q \in Joiners
      PROVE  Fits(saga'[q], identity', owned', subject', roles', policyAt', profile')
  <2>1. CASE q = r  BY <2>1 DEF ProvisioningInv, SagasOK, Moves
  <2>2. CASE q # r
    <3>1. saga'[q] = saga[q] /\ saga[q] \in SagaRecords \cup {NoSaga}
      BY <2>2 DEF ProvisioningInv, SagasOK, Moves
    <3>2. policyAt \in Nat /\ policyAt' \in Nat
      BY DEF ProvisioningInv, RowsOK
    <3>3. Fits(saga[q], identity', owned', subject', roles', policyAt', profile')
      BY <3>1, <3>2, FitsStays DEF Grows, ProvisioningInv, SagasOK
    <3> QED  BY <3>1, <3>3
  <2> QED  BY <2>1, <2>2
<1> QED  BY <1>1, <1>2 DEF SagasOK

LEMMA SagasRest ==
  ASSUME ProvisioningInv, UNCHANGED saga, RowsOK', Grows
  PROVE  SagasOK'
<1> SUFFICES ASSUME NEW q \in Joiners
             PROVE  Fits(saga[q], identity', owned', subject', roles', policyAt', profile')
  BY DEF ProvisioningInv, SagasOK
<1>1. saga[q] \in SagaRecords \cup {NoSaga} /\ policyAt \in Nat /\ policyAt' \in Nat
  BY DEF ProvisioningInv, RowsOK, SagasOK
<1> QED  BY <1>1, FitsStays DEF Grows, ProvisioningInv, SagasOK

LEMMA SessionsRest ==
  ASSUME ProvisioningInv, Grows, opened' \subseteq opened
  PROVE  SessionsOK'
  BY DEF ProvisioningInv, Grows, SessionsOK, SessionOK

-----------------------------------------------------------------------------
(* What a step of the saga r keeps.                                        *)
Keeps(r) == /\ RowsOK' /\ Grows /\ SessionsOK'
            /\ \E g : Moves(r, g) /\ (g.step = "document" /\ saga[r].step # "document" => profile = {})

\* What a saga has at hand, other than its step and the policy it has read.
SameTask(g, h) ==
  /\ g.kind = h.kind /\ g.password = h.password /\ g.creator = h.creator /\ g.stamp = h.stamp
  /\ g.defaults = h.defaults /\ g.membership = h.membership

LEMMA GoesIsAStep ==
  ASSUME SagasOK, NEW r \in Joiners, saga[r] # NoSaga, NEW step \in SagaSteps, Goes(r, step)
  PROVE  \E g \in SagaRecords : /\ saga' = [saga EXCEPT ![r] = g] /\ SameTask(g, saga[r])
                                 /\ g.document = saga[r].document /\ g.left = saga[r].left
                                 /\ g.step = step /\ g.policy = NoPolicy
<1> DEFINE g == [saga[r] EXCEPT !.step = step, !.policy = NoPolicy]
<1>1. saga[r] \in SagaRecords /\ saga \in [Joiners -> SagaRecords \cup {NoSaga}]
  BY DEF SagasOK
<1>2. saga' = [saga EXCEPT ![r] = g]
  BY <1>1 DEF Goes
<1>3. NoPolicy \in ReadPolicies
  BY DEF NoPolicy, ReadPolicies, RoleSets
<1>4. g \in SagaRecords
  BY <1>1, <1>3 DEF SagaRecords
<1>5. SameTask(g, saga[r])
  BY <1>1 DEF SagaRecords, SameTask
<1>6. /\ g.document = saga[r].document /\ g.left = saga[r].left
      /\ g.step = step /\ g.policy = NoPolicy
  BY <1>1 DEF SagaRecords
<1> HIDE DEF g
<1> QED  BY <1>2, <1>4, <1>5, <1>6

\* What a step has to show of a saga that has forgotten the policy.
LEMMA ForgetsAndFits ==
  ASSUME NEW g \in SagaRecords, g.policy = NoPolicy, policyAt' \in Nat \ {0},
         g.step # "create", SessionOK(g, owned'), identity' # NoIdentity,
         g.step # "resume" => identity'.origin # "elsewhere",
         g.left \subseteq g.defaults, g.step \notin RoleSteps => g.left = g.defaults,
         g.document \in profile' \cup {0},
         g.step \in {"resume", "subject", "subject-read", "membership", "profile", "document"} =>
           g.document = 0,
         g.step \in {"roles", "roles-read"} => (g.defaults \ g.left) \ {Administrator} \subseteq roles',
         g.step \in {"session", "insert"} /\ g.document # 0 =>
           g.defaults \ {Administrator} \subseteq roles'
  PROVE  Fits(g, identity', owned', subject', roles', policyAt', profile')
  BY DEF Fits, NoPolicy

LEMMA NothingFits ==
  ASSUME NEW who, NEW own, NEW subj, NEW bound, NEW rev, NEW docs
  PROVE  Fits(NoSaga, who, own, subj, bound, rev, docs)
  BY DEF Fits

LEMMA FailsMoves ==
  ASSUME SagasOK, NEW r \in Joiners, Fails(r)
  PROVE  Moves(r, NoSaga) /\ NoSaga.step # "document"
  BY NothingFits DEF Fails, Moves, NoSaga

LEMMA RowsRest ==
  ASSUME ProvisioningInv, UNCHANGED <<directory, grantedRoles, memberRows, admission>>
  PROVE  RowsOK' /\ Grows /\ SessionsOK'
<1>1. RowsOK'
  BY DEF ProvisioningInv, RowsOK, directory, grantedRoles, memberRows
<1>2. Grows
  BY DEF ProvisioningInv, RowsOK, Grows, directory, grantedRoles, memberRows
<1> QED  BY <1>1, <1>2, SessionsRest DEF directory

LEMMA CrashKeeps == ASSUME ProvisioningInv, NEW r \in Joiners, Crash(r) PROVE Keeps(r)
  BY RowsRest, FailsMoves DEF Crash, Keeps, ProvisioningInv

-----------------------------------------------------------------------------
(* How a saga starts.                                                      *)
LEMMA AskingFits ==
  ASSUME ProvisioningInv, NEW r \in Joiners, NEW kind \in SagaKinds,
         NEW password \in Passwords \cup {"none"}, NEW stamp \in {"none", password},
         NEW step \in {"create", "resume", "subject", "session"},
         Asking(r, kind, password, stamp, step),
         UNCHANGED <<directory, grantedRoles, memberRows, admission>>,
         step = "create" => password \in Passwords,
         step # "create" => identity # NoIdentity,
         step \notin {"create", "resume"} => identity.origin # "elsewhere"
  PROVE  Keeps(r)
<1> DEFINE g == [step |-> step, kind |-> kind, password |-> password, creator |-> FALSE, stamp |-> stamp,
                 defaults |-> admission.defaults, membership |-> NoMembership, document |-> 0,
                 policy |-> NoPolicy, left |-> admission.defaults]
<1>1. admission.defaults \subseteq DefaultRoles
  BY DEF ProvisioningInv, RowsOK, Realms
<1>2. g \in SagaRecords
  BY <1>1 DEF SagaRecords, SagaSteps, MembershipRows, NoMembership, ReadPolicies, NoPolicy, RoleSets
<1>3. saga' = [saga EXCEPT ![r] = g]
  BY DEF Asking
<1>4. RowsOK' /\ Grows /\ SessionsOK'
  BY RowsRest
<1>5. policyAt' \in Nat \ {0} /\ identity' = identity
  BY <1>4 DEF RowsOK, directory
<1>6. Fits(g, identity', owned', subject', roles', policyAt', profile')
  BY <1>5 DEF Fits, SessionOK, NoPolicy
<1>7. g.step # "document"
  OBVIOUS
<1> HIDE DEF g
<1> QED  BY <1>2, <1>3, <1>4, <1>6, <1>7 DEF Keeps, Moves

LEMMA ArriveKeeps == ASSUME ProvisioningInv, NEW r \in Joiners, Arrive(r) PROVE Keeps(r)
<1>1. UNCHANGED <<directory, grantedRoles, memberRows, admission>>
  BY DEF Arrive
<1>2. /\ membership # NoMembership => identity # NoIdentity /\ identity.origin # "elsewhere"
      /\ NoIdentity.origin = "nobody"
  BY DEF ProvisioningInv, RowsOK, NoIdentity
<1>3. {"signup", "jit", "explicit", "register"} = SagaKinds
  BY DEF SagaKinds
<1>4. CASE AskExplicit(r)
  BY <1>1, <1>2, <1>3, <1>4, AskingFits DEF AskExplicit
<1>5. ASSUME NEW password \in Passwords, AskSignup(r, password) PROVE Keeps(r)
  <2>1. CASE identity = NoIdentity
    BY <1>1, <1>3, <1>5, <2>1, AskingFits DEF AskSignup
  <2>2. CASE identity # NoIdentity
    BY <1>1, <1>3, <1>5, <2>2, AskingFits DEF AskSignup
  <2> QED  BY <2>1, <2>2
<1>6. ASSUME NEW password \in Passwords, AskRegister(r, password) PROVE Keeps(r)
  BY <1>1, <1>3, <1>6, AskingFits DEF AskRegister
<1>7. ASSUME NEW password \in Passwords, Login(r, password) PROVE Keeps(r)
  <2>1. identity # NoIdentity /\ identity.password = password
    BY <1>7 DEF Login
  <2>2. CASE membership.status = "active" /\ Asking(r, "jit", password, identity.password, "session")
    <3>1. membership # NoMembership
      BY <2>2 DEF NoMembership
    <3> QED  BY <1>1, <1>2, <1>3, <2>1, <2>2, <3>1, AskingFits
  <2>3. CASE identity.origin = "system" /\ Asking(r, "jit", password, identity.password, "subject")
    BY <1>1, <1>3, <2>1, <2>3, AskingFits
  <2> QED  BY <1>7, <2>2, <2>3 DEF Login
<1> QED  BY <1>4, <1>5, <1>6, <1>7 DEF Arrive

-----------------------------------------------------------------------------
(* The identity and its subject.                                           *)

\* A saga that is not over, with what is known of it.
LEMMA UnderWay ==
  ASSUME ProvisioningInv, NEW r \in Joiners, NEW step \in SagaSteps, At(r, step)
  PROVE  /\ saga[r] \in SagaRecords /\ saga[r] # NoSaga /\ saga[r].step = step
         /\ saga \in [Joiners -> SagaRecords \cup {NoSaga}]
         /\ SessionOK(saga[r], owned) /\ saga[r].left \subseteq saga[r].defaults
         /\ step \notin RoleSteps => saga[r].left = saga[r].defaults
         /\ saga[r].document \in profile \cup {0}
         /\ step # "create" => identity # NoIdentity
         /\ step \notin {"create", "resume"} => identity.origin # "elsewhere"
<1>1. saga[r].step = step /\ step # "none"
  BY DEF At, SagaSteps
<1>2. saga[r] # NoSaga /\ saga[r] \in SagaRecords
  BY <1>1 DEF ProvisioningInv, SagasOK, NoSaga
<1> QED  BY <1>1, <1>2 DEF ProvisioningInv, SagasOK, Fits

LEMMA CreateIdentityKeeps ==
  ASSUME ProvisioningInv, NEW r \in Joiners, CreateIdentity(r) PROVE Keeps(r)
<1>1. At(r, "create") /\ "create" \in SagaSteps
  BY DEF CreateIdentity, SagaSteps
<1>2. /\ saga[r] \in SagaRecords /\ saga[r] # NoSaga /\ saga[r].step = "create"
      /\ saga \in [Joiners -> SagaRecords \cup {NoSaga}]
      /\ SessionOK(saga[r], owned) /\ saga[r].left = saga[r].defaults
      /\ saga[r].password \in Passwords /\ saga[r].document = 0
  BY <1>1, UnderWay DEF ProvisioningInv, SagasOK, Fits
<1>3. CASE /\ identity = NoIdentity
           /\ identity' = [origin |-> "realm", enabled |-> TRUE, password |-> saga[r].password]
           /\ owned' = owned \cup {saga[r].password}
           /\ saga' = [saga EXCEPT ![r].step = "subject", ![r].creator = TRUE]
  <2>1. UNCHANGED <<grantedRoles, memberRows, admission, opened>>
    BY DEF CreateIdentity
  <2>2. identity' \in IdentityRows /\ identity'.origin = "realm" /\ identity' # NoIdentity
    BY <1>2, <1>3 DEF IdentityRows, NoIdentity
  <2>3. RowsOK'
    BY <1>3, <2>1, <2>2 DEF ProvisioningInv, RowsOK, grantedRoles, memberRows
  <2>4. Grows
    BY <1>3, <2>1, <2>2 DEF ProvisioningInv, RowsOK, Grows, grantedRoles, memberRows
  <2>5. SessionsOK'
    BY <2>1, <2>4, SessionsRest
  <2> DEFINE g == [saga[r] EXCEPT !.step = "subject", !.creator = TRUE]
  <2>6. g \in SagaRecords /\ saga' = [saga EXCEPT ![r] = g]
    BY <1>2, <1>3 DEF SagaRecords, SagaSteps
  <2>7. /\ g.step = "subject" /\ g.creator = TRUE /\ g.password = saga[r].password
        /\ g.policy = saga[r].policy /\ g.left = saga[r].left /\ g.defaults = saga[r].defaults
        /\ g.document = 0
    BY <1>2 DEF SagaRecords
  <2> HIDE DEF g
  <2>8. SessionOK(g, owned')
    BY <1>3, <2>7 DEF SessionOK
  <2>9. Fits(g, identity', owned', subject', roles', policyAt', profile')
    <3>1. Fits(saga[r], identity, owned, subject, roles, policyAt, profile)
      BY <1>2 DEF ProvisioningInv, SagasOK
    <3>2. /\ g.policy.at <= policyAt
          /\ g.policy.at = policyAt => g.policy.subject = subject /\ g.policy.roles = roles
          /\ g.policy.roles \ {Administrator} \subseteq roles
          /\ subject' = subject /\ roles' = roles /\ policyAt' = policyAt
      BY <1>2, <2>1, <2>7, <3>1 DEF Fits, grantedRoles
    <3> QED  BY <1>2, <2>2, <2>7, <2>8, <3>2 DEF Fits
  <2> QED  BY <2>3, <2>4, <2>5, <2>6, <2>7, <2>9 DEF Keeps, Moves
<1>4. CASE /\ identity # NoIdentity /\ UNCHANGED <<identity, owned>>
           /\ IF saga[r].kind = "signup" THEN Goes(r, "resume") ELSE Fails(r)
  <2>1. RowsOK' /\ Grows /\ SessionsOK'
    BY <1>4, RowsRest DEF CreateIdentity, directory
  <2>2. CASE Fails(r)
    BY <2>1, <2>2, FailsMoves DEF Keeps, ProvisioningInv
  <2>3. CASE Goes(r, "resume")
    <3>1. PICK g \in SagaRecords : /\ saga' = [saga EXCEPT ![r] = g] /\ SameTask(g, saga[r])
                                   /\ g.document = saga[r].document /\ g.left = saga[r].left
                                   /\ g.step = "resume" /\ g.policy = NoPolicy
      BY <1>2, <2>3, GoesIsAStep DEF ProvisioningInv, SagaSteps
    <3>2. SessionOK(g, owned')
      BY <1>2, <1>4, <3>1 DEF SessionOK, SameTask
    <3>3. Fits(g, identity', owned', subject', roles', policyAt', profile')
      BY <1>2, <1>4, <2>1, <3>1, <3>2, ForgetsAndFits DEF SameTask, RowsOK
    <3> QED  BY <2>1, <3>1, <3>3 DEF Keeps, Moves
  <2> QED  BY <1>4, <2>2, <2>3
<1> QED  BY <1>3, <1>4 DEF CreateIdentity

\* A saga that is stamped with the version of the credential it has proved.
LEMMA ResumeSignupKeeps ==
  ASSUME ProvisioningInv, NEW r \in Joiners, ResumeSignup(r) PROVE Keeps(r)
<1>1. At(r, "resume") /\ "resume" \in SagaSteps
  BY DEF ResumeSignup, SagaSteps
<1>2. /\ saga[r] \in SagaRecords /\ saga[r] # NoSaga /\ saga[r].step = "resume"
      /\ saga \in [Joiners -> SagaRecords \cup {NoSaga}] /\ identity # NoIdentity
      /\ SessionOK(saga[r], owned) /\ saga[r].left = saga[r].defaults
      /\ saga[r].document = 0
  BY <1>1, UnderWay DEF ProvisioningInv, SagasOK, Fits
<1>3. RowsOK' /\ Grows /\ SessionsOK' /\ UNCHANGED <<directory, grantedRoles, memberRows, admission>>
  BY RowsRest DEF ResumeSignup
<1>4. CASE Fails(r)
  BY <1>3, <1>4, FailsMoves DEF Keeps, ProvisioningInv
<1>5. CASE /\ MayResume(r)
           /\ saga' = [saga EXCEPT ![r].stamp = identity.password,
                 ![r].step = IF membership.status = "active" THEN "session" ELSE "subject"]
  <2>1. PICK next \in {"session", "subject"} :
          next = IF membership.status = "active" THEN "session" ELSE "subject"
    OBVIOUS
  <2>2. PICK stamp \in Passwords : stamp = identity.password
    BY <1>2 DEF ProvisioningInv, RowsOK, IdentityRows
  <2> DEFINE g == [saga[r] EXCEPT !.stamp = stamp, !.step = next]
  <2>3. saga' = [saga EXCEPT ![r] = g]
    BY <1>2, <1>5, <2>1, <2>2
  <2>4. g \in SagaRecords
    BY <1>2 DEF SagaRecords, SagaSteps
  <2>5. /\ g.step = next /\ g.stamp = stamp /\ g.creator = saga[r].creator
        /\ g.password = saga[r].password /\ g.document = 0
        /\ g.policy = saga[r].policy /\ g.left = saga[r].left /\ g.defaults = saga[r].defaults
    BY <1>2 DEF SagaRecords
  <2> HIDE DEF g
  <2>6. SessionOK(g, owned') /\ identity'.origin = "realm" /\ identity' # NoIdentity
    BY <1>2, <1>3, <1>5, <2>2, <2>5 DEF SessionOK, MayResume, Knows, directory
  <2>7. Fits(g, identity', owned', subject', roles', policyAt', profile')
    <3>1. Fits(saga[r], identity, owned, subject, roles, policyAt, profile)
      BY <1>2 DEF ProvisioningInv, SagasOK
    <3>2. /\ g.policy.at <= policyAt
          /\ g.policy.at = policyAt => g.policy.subject = subject /\ g.policy.roles = roles
          /\ g.policy.roles \ {Administrator} \subseteq roles
          /\ subject' = subject /\ roles' = roles /\ policyAt' = policyAt
      BY <1>2, <1>3, <2>5, <3>1 DEF Fits, grantedRoles
    <3> QED  BY <1>2, <2>5, <2>6, <3>2 DEF Fits
  <2> QED  BY <1>3, <2>3, <2>4, <2>5, <2>7 DEF Keeps, Moves
<1> QED  BY <1>4, <1>5 DEF ResumeSignup

LEMMA ReadPolicyKeeps ==
  ASSUME ProvisioningInv, NEW r \in Joiners,
         NEW step \in {"subject", "roles"}, NEW next \in {"subject-read", "roles-read"},
         step = "subject" <=> next = "subject-read", ReadPolicy(r, step, next)
  PROVE  Keeps(r)
<1>1. At(r, step) /\ step \in SagaSteps /\ next \in SagaSteps
  BY DEF ReadPolicy, SagaSteps
<1>2. /\ saga[r] \in SagaRecords /\ saga[r] # NoSaga /\ saga[r].step = step
      /\ saga \in [Joiners -> SagaRecords \cup {NoSaga}]
      /\ Fits(saga[r], identity, owned, subject, roles, policyAt, profile)
  BY <1>1, UnderWay DEF ProvisioningInv, SagasOK
<1>3. RowsOK' /\ Grows /\ SessionsOK' /\ UNCHANGED <<directory, grantedRoles, memberRows, admission>>
  BY RowsRest DEF ReadPolicy
<1>4. PICK read \in ReadPolicies : read = [at |-> policyAt, subject |-> subject, roles |-> roles]
  BY DEF ProvisioningInv, RowsOK, ReadPolicies
<1> DEFINE g == [saga[r] EXCEPT !.step = next, !.policy = read]
<1>5. saga' = [saga EXCEPT ![r] = g]
  BY <1>2, <1>4 DEF ReadPolicy
<1>6. g \in SagaRecords
  BY <1>1, <1>2 DEF SagaRecords
<1>7. /\ g.step = next /\ g.policy = read /\ g.stamp = saga[r].stamp /\ g.creator = saga[r].creator
      /\ g.password = saga[r].password /\ g.document = saga[r].document
      /\ g.left = saga[r].left /\ g.defaults = saga[r].defaults
  BY <1>2 DEF SagaRecords
<1> HIDE DEF g
<1>8. /\ subject' = subject /\ roles' = roles /\ policyAt' = policyAt /\ policyAt \in Nat
      /\ identity' = identity /\ owned' = owned /\ profile' = profile
      /\ read.at = policyAt /\ read.subject = subject /\ read.roles = roles
  BY <1>3, <1>4 DEF directory, grantedRoles, memberRows, ProvisioningInv, RowsOK
<1>9. Fits(g, identity, owned, subject, roles, policyAt, profile)
  <2>1. SessionOK(g, owned)
    BY <1>2, <1>7 DEF Fits, SessionOK
  <2> QED  BY <1>2, <1>7, <1>8, <2>1 DEF Fits
<1> QED  BY <1>3, <1>5, <1>6, <1>7, <1>8, <1>9 DEF Keeps, Moves

\* A saga goes on to a step that asks nothing more of it than the last.
LEMMA GoesOn ==
  ASSUME ProvisioningInv, NEW r \in Joiners, NEW step \in SagaSteps, At(r, step),
         step \notin {"create", "resume"}, RowsOK', Grows, SessionsOK',
         NEW next \in SagaSteps \ {"create", "resume", "document"}, Goes(r, next),
         next \in {"subject", "subject-read", "membership", "profile"} => saga[r].document = 0,
         next \notin RoleSteps => step \notin RoleSteps,
         next \in {"roles", "roles-read"} =>
           (saga[r].defaults \ saga[r].left) \ {Administrator} \subseteq roles',
         next \in {"session", "insert"} /\ saga[r].document # 0 =>
           saga[r].defaults \ {Administrator} \subseteq roles'
  PROVE  Keeps(r)
<1>1. /\ saga[r] \in SagaRecords /\ saga[r] # NoSaga
      /\ SessionOK(saga[r], owned) /\ saga[r].left \subseteq saga[r].defaults
      /\ next \notin RoleSteps => saga[r].left = saga[r].defaults
      /\ saga[r].document \in profile \cup {0}
      /\ identity # NoIdentity /\ identity.origin # "elsewhere"
  BY UnderWay
<1>2. PICK g \in SagaRecords : /\ saga' = [saga EXCEPT ![r] = g] /\ SameTask(g, saga[r])
                               /\ g.document = saga[r].document /\ g.left = saga[r].left
                               /\ g.step = next /\ g.policy = NoPolicy
  BY <1>1, GoesIsAStep DEF ProvisioningInv
<1>3. SessionOK(g, owned')
  BY <1>1, <1>2 DEF SessionOK, SameTask, Grows
<1>4. g.defaults = saga[r].defaults
  BY <1>2 DEF SameTask
<1>5. g.document \in profile' \cup {0} /\ identity' # NoIdentity /\ identity'.origin # "elsewhere"
  BY <1>1, <1>2 DEF Grows
<1>6. Fits(g, identity', owned', subject', roles', policyAt', profile')
  BY <1>1, <1>2, <1>3, <1>4, <1>5, ForgetsAndFits DEF RowsOK
<1> QED  BY <1>2, <1>6 DEF Keeps, Moves

\* What was read of a policy whose revision is still the current one is so.
LEMMA CurrentIsRead ==
  ASSUME ProvisioningInv, NEW r \in Joiners, saga[r] # NoSaga, IsCurrent(r)
  PROVE  saga[r].policy.subject = subject /\ saga[r].policy.roles = roles
  BY DEF ProvisioningInv, SagasOK, Fits, IsCurrent

LEMMA RetryKeeps ==
  ASSUME ProvisioningInv, NEW r \in Joiners, NEW step \in {"subject", "roles"},
         NEW at \in {"subject-read", "roles-read"}, At(r, at),
         step = "subject" <=> at = "subject-read",
         Retry(r, step), UNCHANGED <<directory, memberRows, admission>>
  PROVE  Keeps(r)
<1>1. RowsOK' /\ Grows /\ SessionsOK' /\ UNCHANGED grantedRoles
  BY RowsRest DEF Retry
<1>2. at \in SagaSteps /\ step \in SagaSteps
  BY DEF SagaSteps
<1>3. CASE Fails(r)
  BY <1>1, <1>3, FailsMoves DEF Keeps, ProvisioningInv
<1>4. CASE Goes(r, step)
  <2>1. /\ at = "subject-read" => saga[r].document = 0
        /\ at = "roles-read" => (saga[r].defaults \ saga[r].left) \ {Administrator} \subseteq roles'
    BY <1>1, <1>2, UnderWay DEF ProvisioningInv, SagasOK, Fits, grantedRoles
  <2> QED  BY <1>1, <1>2, <1>4, <2>1, GoesOn
<1> QED  BY <1>3, <1>4 DEF Retry

LEMMA WriteSubjectKeeps ==
  ASSUME ProvisioningInv, NEW r \in Joiners, WriteSubject(r) PROVE Keeps(r)
<1> DEFINE read == saga[r].policy
<1>1. At(r, "subject-read") /\ "subject-read" \in SagaSteps /\ "membership" \in SagaSteps
      /\ UNCHANGED <<directory, memberRows, admission>>
  BY DEF WriteSubject, SagaSteps
<1>2. saga[r] \in SagaRecords /\ saga[r] # NoSaga /\ saga[r].document = 0
  BY <1>1, UnderWay DEF ProvisioningInv, SagasOK, Fits
<1>3. CASE read.subject = "enabled" /\ Goes(r, "membership") /\ UNCHANGED grantedRoles
  BY <1>1, <1>2, <1>3, RowsRest, GoesOn
<1>4. CASE Fails(r) /\ UNCHANGED grantedRoles
  BY <1>1, <1>4, RowsRest, FailsMoves DEF Keeps, ProvisioningInv
<1>5. CASE Retry(r, "subject")
  BY <1>1, <1>5, RetryKeeps
<1>6. CASE /\ read.subject = "absent" /\ IsCurrent(r)
           /\ subject' = "enabled" /\ roles' = read.roles /\ policyAt' = policyAt + 1
           /\ Goes(r, "membership")
  <2>1. roles' = roles /\ policyAt \in Nat
    BY <1>2, <1>6, CurrentIsRead DEF ProvisioningInv, RowsOK
  <2>2. RowsOK'
    BY <1>1, <1>6, <2>1 DEF ProvisioningInv, RowsOK, directory, memberRows
  <2>3. Grows
    BY <1>1, <1>6, <2>1 DEF Grows, directory, memberRows
  <2>4. SessionsOK'
    BY <1>1, <2>3, SessionsRest DEF directory
  <2> QED  BY <1>1, <1>2, <1>6, <2>2, <2>3, <2>4, GoesOn
<1> QED  BY <1>3, <1>4, <1>5, <1>6 DEF WriteSubject

-----------------------------------------------------------------------------
(* The membership and its profile.                                         *)
LEMMA CreatePendingKeeps ==
  ASSUME ProvisioningInv, NEW r \in Joiners, CreatePendingMembership(r) PROVE Keeps(r)
<1>1. At(r, "membership") /\ "membership" \in SagaSteps
      /\ UNCHANGED <<directory, grantedRoles, profile, admission>>
  BY DEF CreatePendingMembership, SagaSteps
<1>2. /\ saga[r] \in SagaRecords /\ saga[r] # NoSaga /\ saga[r].document = 0
      /\ saga \in [Joiners -> SagaRecords \cup {NoSaga}]
      /\ Fits(saga[r], identity, owned, subject, roles, policyAt, profile)
      /\ identity # NoIdentity /\ identity.origin # "elsewhere" /\ saga[r].step = "membership"
  BY <1>1, UnderWay DEF ProvisioningInv, SagasOK, Fits
<1>3. CASE Fails(r) /\ UNCHANGED membership
  BY <1>1, <1>3, RowsRest, FailsMoves DEF Keeps, ProvisioningInv, memberRows
<1>4. ASSUME NEW next \in {"session", "profile"}, NEW m \in MembershipRows,
             saga' = [saga EXCEPT ![r].membership = m, ![r].step = next],
             RowsOK', Grows, SessionsOK'
      PROVE  Keeps(r)
  <2> DEFINE g == [saga[r] EXCEPT !.membership = m, !.step = next]
  <2>1. saga' = [saga EXCEPT ![r] = g]
    BY <1>2, <1>4
  <2>2. g \in SagaRecords
    BY <1>2 DEF SagaRecords, SagaSteps
  <2>3. /\ g.step = next /\ g.stamp = saga[r].stamp /\ g.creator = saga[r].creator
        /\ g.password = saga[r].password /\ g.document = 0 /\ g.policy = saga[r].policy
        /\ g.left = saga[r].left /\ g.defaults = saga[r].defaults
    BY <1>2 DEF SagaRecords
  <2> HIDE DEF g
  <2>4. /\ identity' = identity /\ owned' = owned /\ subject' = subject /\ roles' = roles
        /\ policyAt' = policyAt /\ profile' = profile
    BY <1>1 DEF directory, grantedRoles
  <2>5. Fits(g, identity, owned, subject, roles, policyAt, profile)
    BY <1>2, <2>3 DEF Fits, SessionOK
  <2> QED  BY <1>4, <2>1, <2>2, <2>3, <2>4, <2>5 DEF Keeps, Moves
<1>5. CASE /\ membership.status \in {"pending", "active"} /\ UNCHANGED membership
           /\ saga' = [saga EXCEPT ![r].membership = membership,
                 ![r].step = IF membership.status = "active" THEN "session" ELSE "profile"]
  <2>1. RowsOK' /\ Grows /\ SessionsOK'
    BY <1>1, <1>5, RowsRest DEF memberRows
  <2>2. membership \in MembershipRows
    BY DEF ProvisioningInv, RowsOK
  <2>3. CASE membership.status = "active"
    BY <1>4, <1>5, <2>1, <2>2, <2>3
  <2>4. CASE membership.status # "active"
    BY <1>4, <1>5, <2>1, <2>2, <2>4
  <2> QED  BY <2>3, <2>4
<1>6. CASE /\ membership = NoMembership
           /\ membership' = [status |-> "pending", revision |-> 1, profile |-> 0]
           /\ saga' = [saga EXCEPT ![r].membership = membership', ![r].step = "profile"]
  <2>1. PICK m \in MembershipRows : m = [status |-> "pending", revision |-> 1, profile |-> 0]
    BY DEF MembershipRows
  <2>2. m.profile = 0
    BY <2>1
  <2>3. RowsOK'
    BY <1>1, <1>2, <1>6, <2>1, <2>2 DEF ProvisioningInv, RowsOK, directory, grantedRoles
  <2>4. Grows
    BY <1>1 DEF ProvisioningInv, RowsOK, Grows, directory, grantedRoles
  <2>5. SessionsOK'
    BY <1>1, <2>4, SessionsRest DEF directory
  <2> QED  BY <1>4, <1>6, <2>1, <2>3, <2>4, <2>5
<1> QED  BY <1>3, <1>5, <1>6 DEF CreatePendingMembership

\* A saga takes up a profile, one that is there or the one it makes.
LEMMA TakesUp ==
  ASSUME ProvisioningInv, NEW r \in Joiners, NEW step \in {"profile", "document"}, At(r, step),
         NEW d \in Nat, d \in profile', RowsOK', Grows, SessionsOK',
         UNCHANGED <<directory, grantedRoles>>,
         saga' = [saga EXCEPT ![r].step = "activate", ![r].document = d]
  PROVE  Keeps(r)
<1>1. /\ saga[r] \in SagaRecords
      /\ saga \in [Joiners -> SagaRecords \cup {NoSaga}]
      /\ Fits(saga[r], identity, owned, subject, roles, policyAt, profile) /\ saga[r] # NoSaga
      /\ identity # NoIdentity /\ identity.origin # "elsewhere" /\ saga[r].step = step
  BY UnderWay DEF ProvisioningInv, SagasOK, SagaSteps
<1> DEFINE g == [saga[r] EXCEPT !.step = "activate", !.document = d]
<1>2. saga' = [saga EXCEPT ![r] = g]
  BY <1>1
<1>3. g \in SagaRecords
  BY <1>1 DEF SagaRecords, SagaSteps
<1>4. /\ g.step = "activate" /\ g.stamp = saga[r].stamp /\ g.creator = saga[r].creator
      /\ g.password = saga[r].password /\ g.document = d /\ g.policy = saga[r].policy
      /\ g.left = saga[r].left /\ g.defaults = saga[r].defaults
  BY <1>1 DEF SagaRecords
<1> HIDE DEF g
<1>5. /\ identity' = identity /\ owned' = owned /\ subject' = subject /\ roles' = roles
      /\ policyAt' = policyAt
  BY DEF directory, grantedRoles
<1>6. Fits(g, identity, owned, subject, roles, policyAt, profile')
  BY <1>1, <1>4 DEF Fits, SessionOK
<1> QED  BY <1>2, <1>3, <1>4, <1>5, <1>6 DEF Keeps, Moves

LEMMA FindProfileKeeps ==
  ASSUME ProvisioningInv, NEW r \in Joiners, FindProfile(r) PROVE Keeps(r)
<1>1. At(r, "profile") /\ {"profile", "document"} \subseteq SagaSteps /\ Recovered = profile
      /\ UNCHANGED <<directory, grantedRoles, memberRows, admission>>
  BY DEF FindProfile, Recovered, SagaSteps
<1>2. RowsOK' /\ Grows /\ SessionsOK'
  BY <1>1, RowsRest
<1>3. /\ saga[r] \in SagaRecords /\ saga[r] # NoSaga /\ saga[r].document = 0
      /\ SessionOK(saga[r], owned) /\ saga[r].left = saga[r].defaults
      /\ identity # NoIdentity /\ identity.origin # "elsewhere" /\ saga[r].step = "profile"
  BY <1>1, UnderWay DEF ProvisioningInv, SagasOK, Fits
<1>4. CASE profile = {} /\ Goes(r, "document")
  <2>1. PICK g \in SagaRecords : /\ saga' = [saga EXCEPT ![r] = g] /\ SameTask(g, saga[r])
                                 /\ g.document = saga[r].document /\ g.left = saga[r].left
                                 /\ g.step = "document" /\ g.policy = NoPolicy
    BY <1>1, <1>3, <1>4, GoesIsAStep DEF ProvisioningInv
  <2>2. SessionOK(g, owned') /\ g.defaults = saga[r].defaults /\ identity' = identity
    BY <1>1, <1>3, <2>1 DEF SessionOK, SameTask, directory
  <2>3. Fits(g, identity', owned', subject', roles', policyAt', profile')
    BY <1>2, <1>3, <2>1, <2>2, ForgetsAndFits DEF RowsOK
  <2> QED  BY <1>2, <1>4, <2>1, <2>3 DEF Keeps, Moves
<1>5. CASE /\ Cardinality(profile) = 1
           /\ saga' = [saga EXCEPT ![r].step = "activate", ![r].document = CHOOSE d \in profile : TRUE]
  <2>1. PICK d : d = CHOOSE e \in profile : TRUE
    OBVIOUS
  <2>2. d \in profile /\ d \in Nat /\ profile' = profile
    <3>1. profile # {} /\ profile \subseteq Nat
      BY <1>5, FS_EmptySet DEF ProvisioningInv, RowsOK
    <3> QED  BY <1>1, <2>1, <3>1 DEF memberRows
  <2> QED  BY <1>1, <1>2, <1>5, <2>1, <2>2, TakesUp
<1>6. CASE Fails(r)
  BY <1>2, <1>6, FailsMoves DEF Keeps, ProvisioningInv
<1> QED  BY <1>1, <1>4, <1>5, <1>6 DEF FindProfile

LEMMA CreateDocumentKeeps ==
  ASSUME ProvisioningInv, NEW r \in Joiners, CreateDocument(r) PROVE Keeps(r)
<1>1. At(r, "document") /\ UNCHANGED <<directory, grantedRoles, membership, admission>>
  BY DEF CreateDocument
<1>2. PICK d \in Nat : d = Cardinality(profile) + 1
  BY FS_CardinalityType DEF ProvisioningInv, RowsOK
<1>3. profile' = profile \cup {d} /\ saga' = [saga EXCEPT ![r].step = "activate", ![r].document = d]
  BY <1>2 DEF CreateDocument
<1>4. IsFiniteSet(profile')
  BY <1>3, FS_AddElement DEF ProvisioningInv, RowsOK
<1>5. RowsOK'
  BY <1>1, <1>2, <1>3, <1>4 DEF ProvisioningInv, RowsOK, directory, grantedRoles
<1>6. Grows
  BY <1>1, <1>3 DEF ProvisioningInv, RowsOK, Grows, directory, grantedRoles
<1>7. SessionsOK'
  BY <1>1, <1>6, SessionsRest DEF directory
<1> QED  BY <1>1, <1>2, <1>3, <1>5, <1>6, <1>7, TakesUp

LEMMA ActivateKeeps ==
  ASSUME ProvisioningInv, NEW r \in Joiners, ActivateMembership(r)
  PROVE  Keeps(r) /\ (membership' # membership => membership.status = "pending")
<1>1. At(r, "activate") /\ {"activate", "roles"} \subseteq SagaSteps
      /\ UNCHANGED <<directory, grantedRoles, profile, admission>>
  BY DEF ActivateMembership, SagaSteps
<1>2. CASE Fails(r) /\ UNCHANGED membership
  BY <1>1, <1>2, RowsRest, FailsMoves DEF Keeps, ProvisioningInv, memberRows
<1>3. CASE /\ MayActivate(r) /\ Goes(r, "roles")
           /\ membership' = [status |-> "active", revision |-> membership.revision + 1,
                             profile |-> saga[r].document]
  <2>1. /\ saga[r] \in SagaRecords /\ saga[r].document \in profile \cup {0}
        /\ identity # NoIdentity /\ identity.origin # "elsewhere"
    BY <1>1, UnderWay
  <2>2. PICK d \in Nat, n \in Nat : d = saga[r].document /\ n = membership.revision + 1
    BY <2>1 DEF SagaRecords, ProvisioningInv, RowsOK, MembershipRows
  <2>3. membership' \in MembershipRows /\ membership'.profile = d
    BY <1>3, <2>2 DEF MembershipRows
  <2>4. RowsOK'
    BY <1>1, <2>1, <2>2, <2>3 DEF ProvisioningInv, RowsOK, directory, grantedRoles
  <2>5. Grows
    BY <1>1 DEF ProvisioningInv, RowsOK, Grows, directory, grantedRoles
  <2>6. SessionsOK'
    BY <1>1, <2>5, SessionsRest DEF directory
  <2>7. (saga[r].defaults \ saga[r].left) \ {Administrator} \subseteq roles'
    <3>1. saga[r].defaults = saga[r].left
      BY <1>1, UnderWay DEF RoleSteps
    <3> QED  BY <3>1
  <2>8. Keeps(r)
    BY <1>1, <1>3, <2>4, <2>5, <2>6, <2>7, GoesOn DEF RoleSteps
  <2> QED  BY <1>3, <2>8 DEF MayActivate
<1> QED  BY <1>2, <1>3 DEF ActivateMembership

-----------------------------------------------------------------------------
(* The roles, one by one, and the session.                                 *)
LEMMA WriteRoleKeeps ==
  ASSUME ProvisioningInv, NEW r \in Joiners, WriteRole(r)
  PROVE  /\ Keeps(r) /\ subject' = subject /\ roles \subseteq roles'
         /\ roles' # roles => /\ subject = "enabled" /\ saga[r] # NoSaga
                              /\ roles' \ roles \subseteq saga[r].defaults
<1> DEFINE read == saga[r].policy
<1>1. At(r, "roles-read") /\ {"roles-read", "roles", "session"} \subseteq SagaSteps
      /\ UNCHANGED <<directory, memberRows, admission>>
  BY DEF WriteRole, SagaSteps
<1>2. /\ saga[r] \in SagaRecords /\ saga[r] # NoSaga /\ saga[r].step = "roles-read"
      /\ saga \in [Joiners -> SagaRecords \cup {NoSaga}]
      /\ Fits(saga[r], identity, owned, subject, roles, policyAt, profile)
      /\ identity # NoIdentity /\ identity.origin # "elsewhere"
  BY <1>1, UnderWay DEF ProvisioningInv, SagasOK
<1>3. CASE saga[r].left = {} /\ Goes(r, "session") /\ UNCHANGED grantedRoles
  <2>1. RowsOK' /\ Grows /\ SessionsOK'
    BY <1>1, <1>3, RowsRest
  <2>2. saga[r].defaults \ {Administrator} \subseteq roles'
    BY <1>2, <1>3 DEF Fits, grantedRoles
  <2>3. Keeps(r)
    BY <1>1, <1>3, <2>1, <2>2, GoesOn DEF RoleSteps
  <2> QED  BY <1>3, <2>3 DEF grantedRoles
<1>4. PICK role : role = CHOOSE x \in saga[r].left : TRUE
  OBVIOUS
<1>5. CASE Fails(r) /\ UNCHANGED grantedRoles
  <2>1. Keeps(r)
    BY <1>1, <1>5, RowsRest, FailsMoves DEF Keeps, ProvisioningInv
  <2> QED  BY <1>5, <2>1 DEF grantedRoles
<1>6. CASE Retry(r, "roles")
  <2>1. Keeps(r)
    BY <1>1, <1>6, RetryKeeps
  <2> QED  BY <1>6, <2>1 DEF Retry, grantedRoles
\* One role is bound, now or by the policy that was read.
<1>7. ASSUME saga[r].left # {}, RowsOK', Grows, SessionsOK', role \in roles' \cup {Administrator},
             saga' = [saga EXCEPT ![r].step = "roles", ![r].policy = NoPolicy, ![r].left = @ \ {role}]
      PROVE  Keeps(r)
  <2> DEFINE g == [saga[r] EXCEPT !.step = "roles", !.policy = NoPolicy, !.left = @ \ {role}]
  <2>1. saga' = [saga EXCEPT ![r] = g]
    BY <1>2, <1>7
  <2>2. NoPolicy \in ReadPolicies
    BY DEF NoPolicy, ReadPolicies, RoleSets
  <2>3. g \in SagaRecords
    BY <1>1, <1>2, <2>2 DEF SagaRecords
  <2>4. /\ g.step = "roles" /\ g.stamp = saga[r].stamp /\ g.creator = saga[r].creator
        /\ g.password = saga[r].password /\ g.document = saga[r].document /\ g.policy = NoPolicy
        /\ g.left = saga[r].left \ {role} /\ g.defaults = saga[r].defaults
    BY <1>2 DEF SagaRecords
  <2> HIDE DEF g
  <2>5. SessionOK(g, owned') /\ g.document \in profile' \cup {0}
    BY <1>2, <1>7, <2>4 DEF SessionOK, Fits, Grows
  <2>6. identity' # NoIdentity /\ identity'.origin # "elsewhere"
    BY <1>2, <1>7 DEF Grows
  <2>7. /\ g.left \subseteq g.defaults
        /\ (g.defaults \ g.left) \ {Administrator} \subseteq roles'
    <3>1. /\ saga[r].left \subseteq saga[r].defaults
          /\ (saga[r].defaults \ saga[r].left) \ {Administrator} \subseteq roles
      BY <1>2 DEF Fits
    <3> QED  BY <1>7, <2>4, <3>1 DEF Grows
  <2>8. Fits(g, identity', owned', subject', roles', policyAt', profile')
    BY <1>7, <2>3, <2>4, <2>5, <2>6, <2>7, ForgetsAndFits DEF RowsOK, RoleSteps
  <2> QED  BY <1>7, <2>1, <2>3, <2>4, <2>8 DEF Keeps, Moves
<1>8. CASE /\ saga[r].left # {} /\ read.subject = "enabled" /\ role \in read.roles
           /\ UNCHANGED grantedRoles
           /\ saga' = [saga EXCEPT ![r].step = "roles", ![r].policy = NoPolicy, ![r].left = @ \ {role}]
  <2>1. RowsOK' /\ Grows /\ SessionsOK'
    BY <1>1, <1>8, RowsRest
  <2>2. role \in roles' \cup {Administrator}
    BY <1>2, <1>8 DEF Fits, grantedRoles
  <2>3. Keeps(r)
    BY <1>7, <1>8, <2>1, <2>2
  <2> QED  BY <1>8, <2>3 DEF grantedRoles
<1>9. CASE /\ saga[r].left # {} /\ read.subject = "enabled" /\ IsCurrent(r)
           /\ subject' = read.subject /\ roles' = read.roles \cup {role} /\ policyAt' = policyAt + 1
           /\ saga' = [saga EXCEPT ![r].step = "roles", ![r].policy = NoPolicy, ![r].left = @ \ {role}]
  <2>1. subject' = subject /\ subject = "enabled" /\ roles' = roles \cup {role}
    BY <1>2, <1>9, CurrentIsRead
  <2>2. role \in saga[r].defaults /\ role \in DefaultRoles
    BY <1>2, <1>4, <1>9 DEF Fits, SagaRecords
  <2>3. RowsOK'
    BY <1>1, <1>9, <2>1, <2>2 DEF ProvisioningInv, RowsOK, RoleSets, directory, memberRows
  <2>4. Grows
    BY <1>1, <1>9, <2>1 DEF ProvisioningInv, RowsOK, Grows, directory, memberRows
  <2>5. SessionsOK'
    BY <1>1, <2>4, SessionsRest DEF directory
  <2>6. Keeps(r)
    BY <1>7, <1>9, <2>1, <2>3, <2>4, <2>5
  <2> QED  BY <1>2, <2>1, <2>2, <2>6
<1> QED  BY <1>3, <1>4, <1>5, <1>6, <1>8, <1>9 DEF WriteRole

LEMMA IssueKeeps == ASSUME ProvisioningInv, NEW r \in Joiners, IssueSession(r) PROVE Keeps(r)
<1>1. At(r, "session") /\ {"session", "insert"} \subseteq SagaSteps
      /\ UNCHANGED <<directory, grantedRoles, memberRows, admission>>
  BY DEF IssueSession, SagaSteps
<1>2. RowsOK' /\ Grows /\ SessionsOK'
  BY <1>1, RowsRest
<1>3. CASE Fails(r)
  BY <1>2, <1>3, FailsMoves DEF Keeps, ProvisioningInv
<1>4. CASE /\ MayOpen(r)
           /\ saga' = [saga EXCEPT ![r].step = "insert", ![r].stamp = identity.password]
  <2>1. /\ saga[r] \in SagaRecords /\ saga[r] # NoSaga /\ saga[r].step = "session"
        /\ saga \in [Joiners -> SagaRecords \cup {NoSaga}]
        /\ Fits(saga[r], identity, owned, subject, roles, policyAt, profile)
        /\ identity # NoIdentity
    BY <1>1, UnderWay DEF ProvisioningInv, SagasOK
  <2>2. PICK stamp \in Passwords : stamp = identity.password
    BY <2>1 DEF ProvisioningInv, RowsOK, IdentityRows
  <2> DEFINE g == [saga[r] EXCEPT !.step = "insert", !.stamp = stamp]
  <2>3. saga' = [saga EXCEPT ![r] = g]
    BY <1>4, <2>1, <2>2
  <2>4. g \in SagaRecords
    BY <1>1, <2>1 DEF SagaRecords
  <2>5. /\ g.step = "insert" /\ g.stamp = stamp /\ g.creator = saga[r].creator
        /\ g.password = saga[r].password /\ g.document = saga[r].document
        /\ g.policy = saga[r].policy /\ g.left = saga[r].left /\ g.defaults = saga[r].defaults
    BY <2>1 DEF SagaRecords
  <2> HIDE DEF g
  <2>6. /\ identity' = identity /\ owned' = owned /\ subject' = subject /\ roles' = roles
        /\ policyAt' = policyAt /\ profile' = profile
    BY <1>1 DEF directory, grantedRoles, memberRows
  <2>7. SessionOK(g, owned)
    BY <1>4, <2>1, <2>2, <2>5 DEF SessionOK, Fits, MayOpen
  <2>8. Fits(g, identity, owned, subject, roles, policyAt, profile)
    BY <2>1, <2>5, <2>7 DEF Fits, RoleSteps
  <2> QED  BY <1>2, <2>3, <2>4, <2>5, <2>6, <2>8 DEF Keeps, Moves
<1> QED  BY <1>3, <1>4 DEF IssueSession

LEMMA InsertKeeps == ASSUME ProvisioningInv, NEW r \in Joiners, InsertSession(r) PROVE Keeps(r)
<1>1. At(r, "insert") /\ "insert" \in SagaSteps /\ Fails(r)
      /\ UNCHANGED <<identity, owned, grantedRoles, memberRows, admission>>
  BY DEF InsertSession, SagaSteps
<1>2. RowsOK'
  BY <1>1 DEF ProvisioningInv, RowsOK, grantedRoles, memberRows
<1>3. Grows
  BY <1>1 DEF ProvisioningInv, RowsOK, Grows, grantedRoles, memberRows
<1>4. PICK o : /\ o = [password |-> saga[r].password, creator |-> saga[r].creator,
                       stamp |-> saga[r].stamp]
               /\ opened' = opened \cup {o}
  BY DEF InsertSession
<1>5. SessionOK(o, owned) /\ identity # NoIdentity
  BY <1>1, <1>4, UnderWay DEF SessionOK
<1>6. SessionsOK'
  BY <1>1, <1>4, <1>5 DEF ProvisioningInv, SessionsOK
<1> QED  BY <1>1, <1>2, <1>3, <1>6, FailsMoves DEF Keeps, ProvisioningInv

-----------------------------------------------------------------------------
(* What administrators and holders of sessions do meanwhile.               *)
KeepsBeside == RowsOK' /\ Grows /\ SessionsOK' /\ UNCHANGED <<saga, profile>>

LEMMA AdministratorsKeep == ASSUME ProvisioningInv, AdministratorStep PROVE KeepsBeside
<1> USE DEF grantedRoles, memberRows, directory
<1>1. ASSUME NEW password \in Passwords, NEW origin \in {"system", "elsewhere"},
             CreateElsewhere(origin, password)
      PROVE  KeepsBeside
  <2>1. identity' \in IdentityRows /\ identity' # NoIdentity /\ identity = NoIdentity
        /\ owned' = owned \cup {password}
        /\ UNCHANGED <<grantedRoles, memberRows, admission, saga, opened>>
    BY <1>1 DEF CreateElsewhere, IdentityRows, NoIdentity
  <2>2. membership = NoMembership
    BY <2>1 DEF ProvisioningInv, RowsOK
  <2>3. RowsOK'
    BY <2>1, <2>2 DEF ProvisioningInv, RowsOK
  <2>4. Grows
    BY <2>1 DEF ProvisioningInv, RowsOK, Grows
  <2> QED  BY <2>1, <2>3, <2>4, SessionsRest DEF KeepsBeside
<1>2. ASSUME NEW password \in Passwords, SetPassword(password) PROVE KeepsBeside
  <2>1. identity # NoIdentity /\ identity' = [identity EXCEPT !.password = password]
        /\ owned' = owned \cup {password} /\ opened' = {}
        /\ UNCHANGED <<grantedRoles, memberRows, admission, saga>>
    BY <1>2 DEF SetPassword
  <2>2. identity' \in IdentityRows /\ identity'.origin = identity.origin /\ identity' # NoIdentity
    BY <2>1 DEF ProvisioningInv, RowsOK, IdentityRows, NoIdentity
  <2>3. RowsOK'
    BY <2>1, <2>2 DEF ProvisioningInv, RowsOK
  <2>4. Grows
    BY <2>1, <2>2 DEF ProvisioningInv, RowsOK, Grows
  <2> QED  BY <2>1, <2>3, <2>4, SessionsRest DEF KeepsBeside
<1>3. ASSUME DisableIdentity PROVE KeepsBeside
  <2>1. identity # NoIdentity /\ identity' = [identity EXCEPT !.enabled = FALSE] /\ opened' = {}
        /\ UNCHANGED <<owned, roles, memberRows, admission, saga>>
    BY <1>3 DEF DisableIdentity
  <2>2. identity' \in IdentityRows /\ identity'.origin = identity.origin /\ identity' # NoIdentity
    BY <2>1 DEF ProvisioningInv, RowsOK, IdentityRows, NoIdentity
  <2>3. \/ UNCHANGED <<subject, policyAt>>
        \/ subject' = "disabled" /\ policyAt' = policyAt + 1
    BY <1>3 DEF DisableIdentity
  <2>4. RowsOK'
    BY <2>1, <2>2, <2>3 DEF ProvisioningInv, RowsOK
  <2>5. Grows
    BY <2>1, <2>2, <2>3 DEF ProvisioningInv, RowsOK, Grows
  <2> QED  BY <2>1, <2>4, <2>5, SessionsRest DEF KeepsBeside
<1>4. ASSUME NEW state \in {"enabled", "disabled"}, SetSubject(state) PROVE KeepsBeside
  <2>1. RowsOK'
    BY <1>4 DEF ProvisioningInv, RowsOK, SetSubject
  <2>2. Grows
    BY <1>4 DEF ProvisioningInv, RowsOK, Grows, SetSubject
  <2> QED  BY <1>4, <2>1, <2>2, SessionsRest DEF KeepsBeside, SetSubject
<1>5. ASSUME NEW to \in {"suspended", "active"},
             membership.status \in {"pending", "active", "suspended"},
             membership' = [membership EXCEPT !.status = to, !.revision = @ + 1],
             opened' \subseteq opened, UNCHANGED <<identity, owned, grantedRoles, profile, admission, saga>>
      PROVE  KeepsBeside
  <2>1. membership \in MembershipRows /\ membership # NoMembership
    BY <1>5 DEF ProvisioningInv, RowsOK, NoMembership
  <2>2. membership' \in MembershipRows /\ membership'.profile = membership.profile
    <3>1. PICK m \in MembershipRows : m = membership
      BY <2>1
    <3>2. PICK n \in Nat : n = m.revision + 1
      BY DEF MembershipRows
    <3>3. membership' = [m EXCEPT !.status = to, !.revision = n]
      BY <1>5, <3>1, <3>2
    <3> QED  BY <3>1, <3>3 DEF MembershipRows
  <2>3. RowsOK'
    BY <1>5, <2>1, <2>2 DEF ProvisioningInv, RowsOK
  <2>4. Grows
    BY <1>5 DEF ProvisioningInv, RowsOK, Grows
  <2> QED  BY <1>5, <2>3, <2>4, SessionsRest DEF KeepsBeside
<1>6. CASE SuspendMember
  BY <1>5, <1>6 DEF SuspendMember
<1>7. CASE ReactivateMember
  BY <1>5, <1>7 DEF ReactivateMember
<1>8. ASSUME NEW to \in Realms, UpdateAdmission(to) PROVE KeepsBeside
  <2>1. RowsOK'
    BY <1>8 DEF ProvisioningInv, RowsOK, UpdateAdmission
  <2>2. Grows
    BY <1>8 DEF ProvisioningInv, RowsOK, Grows, UpdateAdmission
  <2> QED  BY <1>8, <2>1, <2>2, SessionsRest DEF KeepsBeside, UpdateAdmission
<1>9. CASE GrantRealmAdministrator \/ RevokeRealmAdministrator
  <2>1. /\ roles' \in {roles \cup {Administrator}, roles \ {Administrator}} /\ policyAt' = policyAt + 1
        /\ UNCHANGED <<subject, directory, memberRows, admission, saga>>
    BY <1>9 DEF GrantRealmAdministrator, RevokeRealmAdministrator
  <2>2. RowsOK'
    BY <2>1 DEF ProvisioningInv, RowsOK, RoleSets
  <2>3. Grows
    BY <2>1 DEF ProvisioningInv, RowsOK, Grows
  <2> QED  BY <2>1, <2>2, <2>3, SessionsRest DEF KeepsBeside
<1> QED  BY <1>1, <1>2, <1>3, <1>4, <1>6, <1>7, <1>8, <1>9 DEF AdministratorStep

LEMMA LogoutKeeps == ASSUME ProvisioningInv, NEW o \in opened, Logout(o) PROVE KeepsBeside
<1>1. RowsOK'
  BY DEF ProvisioningInv, RowsOK, Logout, grantedRoles, memberRows
<1>2. Grows
  BY DEF ProvisioningInv, RowsOK, Grows, Logout, grantedRoles, memberRows
<1> QED  BY <1>1, <1>2, SessionsRest DEF KeepsBeside, Logout, memberRows

\* Of the sagas only one that found no profile makes one.
LEMMA SagaStepKeeps ==
  ASSUME ProvisioningInv, NEW r \in Joiners, SagaStep(r)
  PROVE  Keeps(r) /\ (profile' = profile \/ CreateDocument(r))
<1> USE DEF memberRows
<1>1. CASE Arrive(r)  BY <1>1, ArriveKeeps DEF Arrive
<1>2. CASE CreateIdentity(r)  BY <1>2, CreateIdentityKeeps DEF CreateIdentity
<1>3. CASE ResumeSignup(r)  BY <1>3, ResumeSignupKeeps DEF ResumeSignup
<1>4. CASE ReadPolicy(r, "subject", "subject-read")  BY <1>4, ReadPolicyKeeps DEF ReadPolicy
<1>5. CASE WriteSubject(r)  BY <1>5, WriteSubjectKeeps DEF WriteSubject
<1>6. CASE CreatePendingMembership(r)  BY <1>6, CreatePendingKeeps DEF CreatePendingMembership
<1>7. CASE FindProfile(r)  BY <1>7, FindProfileKeeps DEF FindProfile
<1>8. CASE CreateDocument(r)  BY <1>8, CreateDocumentKeeps
<1>9. CASE ActivateMembership(r)  BY <1>9, ActivateKeeps DEF ActivateMembership
<1>10. CASE ReadPolicy(r, "roles", "roles-read")  BY <1>10, ReadPolicyKeeps DEF ReadPolicy
<1>11. CASE WriteRole(r)  BY <1>11, WriteRoleKeeps DEF WriteRole
<1>12. CASE IssueSession(r)  BY <1>12, IssueKeeps DEF IssueSession
<1>13. CASE InsertSession(r)  BY <1>13, InsertKeeps DEF InsertSession
<1>14. CASE Crash(r)  BY <1>14, CrashKeeps DEF Crash
<1> QED  BY <1>1, <1>2, <1>3, <1>4, <1>5, <1>6, <1>7, <1>8, <1>9, <1>10, <1>11, <1>12, <1>13, <1>14
         DEF SagaStep

-----------------------------------------------------------------------------
(* Two sagas past the membership at once have overlapped.                  *)
LEMMA OnlyOneMidway ==
  ASSUME NEW s, Cardinality(Midway(s)) <= 1, NEW q \in Midway(s), NEW r \in Midway(s)
  PROVE  q = r
<1> SUFFICES ASSUME q # r PROVE FALSE
  OBVIOUS
<1>1. IsFiniteSet(Midway(s))
  BY FS_Subset DEF Midway
<1>2. {q} \cup {r} \in SUBSET Midway(s)
  OBVIOUS
<1>3. IsFiniteSet({q}) /\ Cardinality({q}) = 1
  BY FS_Singleton
<1>4. Cardinality({q} \cup {r}) = 2
  <2>1. r \notin {q}
    OBVIOUS
  <2>2. Cardinality({q} \cup {r}) = Cardinality({q}) + 1
    BY <1>3, <2>1, FS_AddElement
  <2> QED  BY <1>3, <2>2
<1>5. Cardinality({q} \cup {r}) <= Cardinality(Midway(s)) /\ Cardinality(Midway(s)) \in Nat
  BY <1>1, <1>2, FS_Subset, FS_CardinalityType
<1> QED  BY <1>4, <1>5

LEMMA OverlapsRest ==
  ASSUME ProvisioningInv, UNCHANGED <<saga, profile>>,
         overlapped' = (overlapped \/ Cardinality(Midway(saga')) > 1)
  PROVE  OverlapsShow'
  BY DEF ProvisioningInv, OverlapsShow, At

LEMMA SagaOverlaps ==
  ASSUME ProvisioningInv, NEW r \in Joiners, Keeps(r), profile' = profile \/ CreateDocument(r),
         overlapped' = (overlapped \/ Cardinality(Midway(saga')) > 1)
  PROVE  OverlapsShow'
<1> SUFFICES ASSUME ~overlapped'
             PROVE  /\ Cardinality(profile') <= 1
                    /\ \A q \in Joiners : saga'[q].step = "document" => profile' = {}
  BY DEF OverlapsShow, At
<1>1. PICK g : /\ saga' = [saga EXCEPT ![r] = g]
               /\ g.step = "document" /\ saga[r].step # "document" => profile = {}
  BY DEF Keeps, Moves
<1>2. /\ Cardinality(profile) <= 1
      /\ \A q \in Joiners : saga[q].step = "document" => profile = {}
      /\ saga \in [Joiners -> SagaRecords \cup {NoSaga}]
  BY DEF ProvisioningInv, OverlapsShow, At, SagasOK
<1>3. CASE profile' = profile
  <2>1. ASSUME NEW q \in Joiners, saga'[q].step = "document" PROVE profile = {}
    <3>1. CASE q = r  BY <1>1, <1>2, <2>1, <3>1
    <3>2. CASE q # r  BY <1>1, <1>2, <2>1, <3>2
    <3> QED  BY <3>1, <3>2
  <2> QED  BY <1>2, <1>3, <2>1
<1>4. CASE CreateDocument(r)
  <2>1. PICK d : /\ d = Cardinality(profile) + 1 /\ profile' = profile \cup {d}
                 /\ saga' = [saga EXCEPT ![r].step = "activate", ![r].document = d]
    BY <1>4 DEF CreateDocument
  <2>2. saga[r].step = "document" /\ saga[r] \in SagaRecords
    BY <1>2, <1>4 DEF CreateDocument, At, NoSaga
  <2>3. profile' = {d}
    BY <1>2, <2>1, <2>2
  <2>4. Cardinality(profile') = 1
    BY <2>3, FS_Singleton
  <2>5. saga'[r].step = "activate"
    BY <1>2, <2>1, <2>2 DEF SagaRecords
  <2>6. ASSUME NEW q \in Joiners, saga'[q].step = "document" PROVE FALSE
    <3>1. q # r
      BY <2>5, <2>6
    <3>2. saga[q].step = "document"
      BY <1>1, <1>2, <2>6, <3>1
    <3>3. q \in Midway(saga) /\ r \in Midway(saga)
      BY <2>2, <3>2 DEF Midway
    <3>4. IsFiniteSet(Midway(saga))
      BY FS_Subset DEF Midway
    <3>5. Cardinality(Midway(saga)) \in Nat
      BY <3>4, FS_CardinalityType
    <3>6. ~overlapped
      OBVIOUS
    <3>7. ~(Cardinality(Midway(saga)) > 1)
      BY <3>6 DEF ProvisioningInv, OverlapsShow
    <3> QED  BY <3>1, <3>3, <3>5, <3>7, OnlyOneMidway
  <2> QED  BY <2>4, <2>6
<1> QED  BY <1>3, <1>4

-----------------------------------------------------------------------------
LEMMA ProvisioningStepOK ==
  ASSUME ProvisioningInv, ProvisioningNext PROVE ProvisioningInv'
<1>1. ASSUME KeepsBeside, overlapped' = (overlapped \/ Cardinality(Midway(saga')) > 1)
      PROVE  ProvisioningInv'
  <2>1. OverlapsShow'
    BY <1>1, OverlapsRest DEF KeepsBeside
  <2>2. SagasOK'
    BY <1>1, SagasRest DEF KeepsBeside
  <2> QED  BY <1>1, <2>1, <2>2 DEF KeepsBeside, ProvisioningInv
<1>2. ASSUME NEW r \in Joiners, SagaStep(r), overlapped' = (overlapped \/ Cardinality(Midway(saga')) > 1)
      PROVE  ProvisioningInv'
  <2>1. Keeps(r) /\ (profile' = profile \/ CreateDocument(r))
    BY <1>2, SagaStepKeeps
  <2>2. OverlapsShow'
    BY <1>2, <2>1, SagaOverlaps
  <2>3. SagasOK'
    BY <2>1, SagasMove DEF Keeps
  <2> QED  BY <2>1, <2>2, <2>3 DEF Keeps, ProvisioningInv
<1> QED  BY <1>1, <1>2, AdministratorsKeep, LogoutKeeps DEF ProvisioningNext

LEMMA ProvisioningRests ==
  ASSUME ProvisioningInv, UNCHANGED pvars PROVE ProvisioningInv'
<1>1. RowsOK' /\ SessionsOK'
  BY DEF ProvisioningInv, RowsOK, SessionsOK, SessionOK, pvars
<1>2. SagasOK' /\ OverlapsShow'
  BY DEF ProvisioningInv, SagasOK, OverlapsShow, At, pvars
<1> QED  BY <1>1, <1>2 DEF ProvisioningInv

\* The inductive invariant of the sagas.
THEOREM ProvisioningInvariance == ProvisioningSpec => []ProvisioningInv
<1>1. ProvisioningInit => ProvisioningInv
  BY ProvisioningInitOK
<1>2. ProvisioningInv /\ [ProvisioningNext]_pvars => ProvisioningInv'
  BY ProvisioningStepOK, ProvisioningRests
<1> QED  BY <1>1, <1>2, PTL DEF ProvisioningSpec

LEMMA AccountsStay == ASSUME ProvisioningInv PROVE AccountsAreKept /\ OneProfile /\ RolesAreGiven
<1>1. ASSUME NEW o \in opened, InForce(o)
      PROVE  o.password = identity.password \/ (o.creator /\ o.password \in owned)
  <2>1. identity # NoIdentity /\ SessionOK(o, owned)
    BY DEF ProvisioningInv, SessionsOK
  <2>2. identity.password \in Passwords /\ o.stamp = identity.password
    BY <1>1, <2>1 DEF ProvisioningInv, RowsOK, IdentityRows, InForce
  <2>3. CASE o.creator
    BY <2>1, <2>3 DEF SessionOK
  <2>4. CASE ~o.creator
    BY <2>1, <2>2, <2>4 DEF SessionOK
  <2> QED  BY <2>3, <2>4
<1>2. AccountsAreKept
  BY <1>1 DEF AccountsAreKept, ProvisioningInv, RowsOK
<1>3. OneProfile
  BY DEF OneProfile, ProvisioningInv, RowsOK, OverlapsShow
<1>4. RolesAreGiven
  BY DEF RolesAreGiven, ProvisioningInv, SagasOK, Fits, At, NoSaga
<1> QED  BY <1>2, <1>3, <1>4

\* What administrators did stands: a saga takes a step that changes rows only
\* from what it has read of them, if that is still so.
LEMMA SagasDoRespect ==
  ASSUME ProvisioningInv, ProvisioningNext PROVE SagasRespect
<1> USE DEF grantedRoles, memberRows
<1> SUFFICES ASSUME saga' # saga PROVE SagasRespect
  BY DEF SagasRespect
<1>1. PICK r \in Joiners : SagaStep(r)
  <2>1. ~AdministratorStep
    BY AdministratorsKeep DEF KeepsBeside
  <2>2. ~ \E o \in opened : Logout(o)
    BY DEF Logout
  <2> QED  BY <2>1, <2>2 DEF ProvisioningNext
<1>2. ASSUME UNCHANGED <<membership, subject, roles>> PROVE SagasRespect
  BY <1>2 DEF SagasRespect
<1>3. CASE WriteSubject(r)
  <2>1. UNCHANGED membership
    BY <1>3 DEF WriteSubject
  <2>2. CASE UNCHANGED grantedRoles
    BY <1>2, <2>1, <2>2
  <2>3. CASE saga[r].policy.subject = "absent" /\ IsCurrent(r) /\ roles' = saga[r].policy.roles
    <3>1. saga[r] # NoSaga
      BY <1>3, UnderWay DEF WriteSubject, SagaSteps
    <3>2. subject = "absent" /\ roles' = roles
      BY <2>3, <3>1, CurrentIsRead
    <3> QED  BY <2>1, <3>2 DEF SagasRespect
  <2> QED  BY <1>3, <2>2, <2>3 DEF WriteSubject, Retry
<1>4. CASE CreatePendingMembership(r)
  BY <1>4 DEF CreatePendingMembership, SagasRespect, NoMembership
<1>5. CASE ActivateMembership(r)
  BY <1>5, ActivateKeeps DEF ActivateMembership, SagasRespect
<1>6. CASE WriteRole(r)
  <2>1. UNCHANGED membership
    BY <1>6 DEF WriteRole
  <2> QED  BY <1>6, <2>1, WriteRoleKeeps DEF SagasRespect
<1> QED  BY <1>1, <1>2, <1>3, <1>4, <1>5, <1>6
         DEF SagaStep, Arrive, CreateIdentity, ResumeSignup, ReadPolicy, FindProfile, CreateDocument,
             IssueSession, InsertSession, Crash

\* Whoever is a member became one by the account's own password or an
\* administrator, with one profile and the realm's roles, and what administrators
\* did was never undone, for any number of requests, passwords and roles.
THEOREM MembersAreMadeSafely == ProvisioningSpec => ProvisioningIsSafe
<1>1. ProvisioningInv => AccountsAreKept /\ OneProfile /\ RolesAreGiven
  BY AccountsStay
<1>2. ProvisioningInv /\ [ProvisioningNext]_pvars => [SagasRespect]_pvars
  BY SagasDoRespect
<1> QED  BY <1>1, <1>2, ProvisioningInvariance, PTL DEF ProvisioningSpec, ProvisioningIsSafe

-----------------------------------------------------------------------------
(* Upgrades of databases of any content that an earlier release may have   *)
(* left.  The invariant relates what a transaction has made so far to the  *)
(* database it began with: which roles and bindings stay, what only 0022   *)
(* takes away, and what 0025 and 0029 have established for those who hold  *)
(* something.                                                              *)

HIDE CeilingsAssumption DEF RoleSteps

\* 0022 has given the root role to the provisioner and settled the owner.
Settled(d, e) == d.kind = "content" /\ d.revision > 0 /\ 22 \in e.applied /\ 22 \notin d.applied

RolesGrow(d, e) ==
    /\ DOMAIN d.role \subseteq DOMAIN e.role
    /\ \A r \in DOMAIN d.role : ~(r = "root" /\ Settled(d, e)) =>
         /\ d.role[r].permissions \subseteq e.role[r].permissions
         /\ \A p \in e.role[r].permissions \cap d.catalog :
              p \in d.role[r].permissions \/ (p = "access" /\ r \in {"owner", "content"})

BindingsStay(d, e) ==
    IF Settled(d, e)
    THEN /\ \A b \in e.bindings :
              (b \in d.bindings /\ b.role # "root") \/ b.who = Provisioner \/ ChosenOwner(d, b.who)
         /\ \A b \in d.bindings : ~Takes(d, b) => b \in e.bindings
    ELSE e.bindings = d.bindings

CeilingsCover(e) ==
    \A b \in e.bindings, c \in Collections \ e.auth :
        Covers(b, c) /\ "content" \in e.role[b.role].permissions
        => c \in DOMAIN e.ceiling /\ "content" \in e.ceiling[c]

PagesFollow(e) ==
    \A r \in DOMAIN e.role : "access" \in e.role[r].permissions => "page" \in e.role[r].permissions

UpTo(e, n) == n \in 0..30 /\ e.applied = 1..n

MadeOf(d, e) ==
    /\ IsDatabase(e) /\ IsKept(e) /\ \E n \in 0..30 : UpTo(e, n)
    /\ d.applied \subseteq e.applied
    /\ e.kind = d.kind /\ e.subjects = d.subjects /\ e.auth = d.auth
    /\ (e.revision > 0) <=> (d.revision > 0)
    /\ d.kind = "content" => e.person = d.person
    /\ RolesGrow(d, e) /\ BindingsStay(d, e)
    /\ d.kind = "content" /\ 25 \in e.applied /\ 25 \notin d.applied => CeilingsCover(e)
    /\ 29 \in e.applied /\ 29 \notin d.applied => PagesFollow(e)

MigrationsSpec == MigrationsInit /\ [][MigrationsNext]_mvars

UpgradesInv ==
    /\ LeftByARelease(database)
    /\ ready # {} => database.applied = Ids
    /\ upgrade # NoUpgrade =>
         /\ upgrade = [by |-> upgrade.by, database |-> upgrade.database]
         /\ MadeOf(database, upgrade.database)

(* Roles *)

\* Roles gain permissions of P and lose none; catalog, tables and delegations
\* are whatever they are.
Regrants(e, f, P) ==
    /\ f = [e EXCEPT !.tables = f.tables, !.catalog = f.catalog, !.role = f.role]
    /\ f.role = [r \in DOMAIN e.role |->
         [permissions |-> f.role[r].permissions, delegates |-> f.role[r].delegates]]
    /\ \A r \in DOMAIN e.role :
         /\ e.role[r].permissions \subseteq f.role[r].permissions
         /\ f.role[r].permissions \subseteq e.role[r].permissions \cup P

\* A database has its columns, whatever is written to three of them.
LEMMA RegrantedIsDatabase ==
  ASSUME NEW e, NEW f, NEW P, IsDatabase(e), Regrants(e, f, P)
  PROVE  /\ IsDatabase(f)
         /\ f.applied = e.applied /\ f.kind = e.kind /\ f.revision = e.revision
         /\ f.provisioner = e.provisioner /\ f.subjects = e.subjects /\ f.bindings = e.bindings
         /\ f.sessions = e.sessions /\ f.person = e.person /\ f.auth = e.auth
         /\ f.ceiling = e.ceiling /\ f.fullAccess = e.fullAccess
         /\ DOMAIN f.role = DOMAIN e.role
<1>1. /\ f.applied = e.applied /\ f.kind = e.kind /\ f.revision = e.revision
      /\ f.provisioner = e.provisioner /\ f.subjects = e.subjects /\ f.bindings = e.bindings
      /\ f.sessions = e.sessions /\ f.person = e.person /\ f.auth = e.auth
      /\ f.ceiling = e.ceiling /\ f.fullAccess = e.fullAccess
      /\ f = [tables |-> f.tables, applied |-> f.applied, kind |-> f.kind, revision |-> f.revision,
            catalog |-> f.catalog, role |-> f.role, provisioner |-> f.provisioner,
            subjects |-> f.subjects, bindings |-> f.bindings, sessions |-> f.sessions,
            person |-> f.person, auth |-> f.auth, ceiling |-> f.ceiling,
            enforced |-> f.enforced, fullAccess |-> f.fullAccess]
  BY DEF Regrants, IsDatabase
<1>2. DOMAIN f.role = DOMAIN e.role
  BY DEF Regrants
<1>3. f.role = [r \in DOMAIN f.role |->
         [permissions |-> f.role[r].permissions, delegates |-> f.role[r].delegates]]
  BY <1>2, Zenon DEF Regrants
<1> QED BY <1>1, <1>2, <1>3 DEF IsDatabase

LEMMA RegrantsCompose ==
  ASSUME NEW e, NEW f, NEW g, NEW P, IsDatabase(e), Regrants(e, f, P), Regrants(f, g, P)
  PROVE  Regrants(e, g, P)
<1>1. g = [e EXCEPT !.tables = g.tables, !.catalog = g.catalog, !.role = g.role]
  BY DEF Regrants, IsDatabase
<1>2. DOMAIN f.role = DOMAIN e.role
  BY DEF Regrants
<1> QED BY <1>1, <1>2 DEF Regrants

LEMMA CreatingRegrants ==
  ASSUME NEW e, NEW T, NEW P, IsDatabase(e)
  PROVE  Regrants(e, Creating(e, T), P)
  BY DEF Regrants, IsDatabase, Creating

LEMMA CatalogedRegrants ==
  ASSUME NEW e, NEW Q, NEW P, IsDatabase(e)
  PROVE  Regrants(e, Cataloged(e, Q), P)
  BY DEF Regrants, IsDatabase, Cataloged

\* What the three kinds of grants write, role by role.
LEMMA GrantingRegrants ==
  ASSUME NEW e, NEW R, NEW P, NEW Q, IsDatabase(e), P \subseteq Q
  PROVE  Regrants(e, Granting(e, R, P), Q)
<1> DEFINE new == [r \in DOMAIN e.role |->
        [permissions |-> e.role[r].permissions \cup (IF r \in R THEN P ELSE {}),
         delegates |-> e.role[r].delegates]]
<1>1. Granting(e, R, P) = [e EXCEPT !.role = new]
  BY Zenon DEF Granting
<1>2. Granting(e, R, P).role = new /\ DOMAIN new = DOMAIN e.role
  BY <1>1 DEF IsDatabase
<1>3. ASSUME NEW r \in DOMAIN e.role
      PROVE  /\ new[r] = [permissions |-> new[r].permissions, delegates |-> new[r].delegates]
             /\ new[r].permissions = e.role[r].permissions \cup (IF r \in R THEN P ELSE {})
  OBVIOUS
<1>4. new = [r \in DOMAIN e.role |-> [permissions |-> new[r].permissions, delegates |-> new[r].delegates]]
  BY <1>3
<1> HIDE DEF new
<1>5. Granting(e, R, P) = [e EXCEPT !.tables = Granting(e, R, P).tables,
                             !.catalog = Granting(e, R, P).catalog, !.role = Granting(e, R, P).role]
  BY <1>1 DEF IsDatabase
<1> QED BY <1>2, <1>3, <1>4, <1>5 DEF Regrants

LEMMA GrantingGives ==
  ASSUME NEW e, NEW R, NEW P, NEW r \in DOMAIN e.role, IsDatabase(e)
  PROVE  Granting(e, R, P).role[r].permissions =
           e.role[r].permissions \cup (IF r \in R THEN P ELSE {})
<1> DEFINE new == [x \in DOMAIN e.role |->
        [permissions |-> e.role[x].permissions \cup (IF x \in R THEN P ELSE {}),
         delegates |-> e.role[x].delegates]]
<1>1. Granting(e, R, P) = [e EXCEPT !.role = new]
  BY Zenon DEF Granting
<1>2. Granting(e, R, P).role = new
  BY <1>1 DEF IsDatabase
<1>3. new[r].permissions = e.role[r].permissions \cup (IF r \in R THEN P ELSE {})
  OBVIOUS
<1> QED BY <1>2, <1>3, Zenon

LEMMA EntrustingRegrants ==
  ASSUME NEW e, NEW R, NEW P, NEW Q, IsDatabase(e)
  PROVE  /\ Regrants(e, Entrusting(e, R, P), Q)
         /\ \A r \in DOMAIN e.role : Entrusting(e, R, P).role[r].permissions = e.role[r].permissions
<1> DEFINE new == [r \in DOMAIN e.role |->
        [permissions |-> e.role[r].permissions,
         delegates |-> e.role[r].delegates
                       \cup (IF r \in R THEN P \cap e.role[r].permissions ELSE {})]]
<1>1. Entrusting(e, R, P) = [e EXCEPT !.role = new]
  BY Zenon DEF Entrusting
<1>2. Entrusting(e, R, P).role = new /\ DOMAIN new = DOMAIN e.role
  BY <1>1 DEF IsDatabase
<1>3. ASSUME NEW r \in DOMAIN e.role
      PROVE  /\ new[r] = [permissions |-> new[r].permissions, delegates |-> new[r].delegates]
             /\ new[r].permissions = e.role[r].permissions
  OBVIOUS
<1>4. new = [r \in DOMAIN e.role |-> [permissions |-> new[r].permissions, delegates |-> new[r].delegates]]
  BY <1>3
<1> HIDE DEF new
<1>5. Entrusting(e, R, P) = [e EXCEPT !.tables = Entrusting(e, R, P).tables,
                             !.catalog = Entrusting(e, R, P).catalog, !.role = Entrusting(e, R, P).role]
  BY <1>1 DEF IsDatabase
<1> QED BY <1>2, <1>3, <1>4, <1>5 DEF Regrants

LEMMA OwnerDelegationsRegrants ==
  ASSUME NEW e, IsDatabase(e)
  PROVE  Regrants(e, OwnerDelegations(e), {})
<1> DEFINE those == e.role["owner"].permissions \cap e.catalog \cap Delegatable
           new == [e.role EXCEPT !["owner"].delegates = those]
<1>1. OwnerDelegations(e) = [e EXCEPT !.role = new]
  BY Zenon DEF OwnerDelegations
<1>2. OwnerDelegations(e).role = new /\ DOMAIN new = DOMAIN e.role
  BY <1>1 DEF IsDatabase
<1>3. ASSUME NEW r \in DOMAIN e.role
      PROVE  /\ new[r] = [permissions |-> new[r].permissions, delegates |-> new[r].delegates]
             /\ new[r].permissions = e.role[r].permissions
  <2>1. e.role[r] = [permissions |-> e.role[r].permissions, delegates |-> e.role[r].delegates]
    BY Zenon DEF IsDatabase
  <2>2. new[r] = IF r = "owner" THEN [e.role[r] EXCEPT !.delegates = those] ELSE e.role[r]
    OBVIOUS
  <2> QED BY <2>1, <2>2
<1>4. new = [r \in DOMAIN e.role |-> [permissions |-> new[r].permissions, delegates |-> new[r].delegates]]
  BY <1>3
<1> HIDE DEF new
<1>5. OwnerDelegations(e) = [e EXCEPT !.tables = OwnerDelegations(e).tables,
                             !.catalog = OwnerDelegations(e).catalog, !.role = OwnerDelegations(e).role]
  BY <1>1 DEF IsDatabase
<1> QED BY <1>2, <1>3, <1>4, <1>5 DEF Regrants

LEMMA RegrantsNothing ==
  ASSUME NEW e, NEW P, IsDatabase(e)
  PROVE  Regrants(e, e, P)
<1>1. \A r \in DOMAIN e.role :
        e.role[r] = [permissions |-> e.role[r].permissions, delegates |-> e.role[r].delegates]
  BY DEF IsDatabase
<1>2. e = [e EXCEPT !.tables = e.tables, !.catalog = e.catalog, !.role = e.role]
  BY DEF IsDatabase
<1>3. e.role = [r \in DOMAIN e.role |->
         [permissions |-> e.role[r].permissions, delegates |-> e.role[r].delegates]]
  BY Zenon DEF IsDatabase
<1> QED BY <1>2, <1>3 DEF Regrants

LEMMA MigrationsAre ==
  ASSUME NEW e
  PROVE  /\ Apply(1, e) = Core(e)
         /\ Apply(2, e) = DraftVersions(e)
         /\ Apply(3, e) = DocumentEvents(e)
         /\ Apply(4, e) = Authorization(e)
         /\ Apply(5, e) = AuthorizationContract(e)
         /\ Apply(6, e) = StorageFinalization(e)
         /\ Apply(7, e) = AuditRetained(e)
         /\ Apply(8, e) = SchemaObjects(e)
         /\ Apply(9, e) = Relations(e)
         /\ Apply(10, e) = Media(e)
         /\ Apply(11, e) = Hierarchies(e)
         /\ Apply(12, e) = Quarantine(e)
         /\ Apply(13, e) = IdentityRealms(e)
         /\ Apply(14, e) = EventWorkers(e)
         /\ Apply(15, e) = UserIdentities(e)
         /\ Apply(16, e) = SiteSettings(e)
         /\ Apply(17, e) = AuditRetention(e)
         /\ Apply(18, e) = Plugins(e)
         /\ Apply(19, e) = OwnerDelegations(e)
         /\ Apply(20, e) = AdminAppStore(e)
         /\ Apply(21, e) = ControlPlaneAccess(e)
         /\ Apply(22, e) = RealmOwners(e)
         /\ Apply(23, e) = ControlPlaneAudit(e)
         /\ Apply(24, e) = FullAccessLifecycle(e)
         /\ Apply(25, e) = CollectionEntitlements(e)
         /\ Apply(26, e) = ManagementDelegations(e)
         /\ Apply(27, e) = AdminAppAccess(e)
         /\ Apply(28, e) = EntitlementCleanup(e)
         /\ Apply(29, e) = AdminAppPages(e)
         /\ Apply(30, e) = MaskPolicies(e)
  BY DEF Apply

LEMMA IntroducedAre ==
  /\ Introduces(15) = {"service", "transfer"} /\ Introduces(16) = {"site"}
  /\ Introduces(17) = {"retention"} /\ Introduces(18) = {"plugin"}
  /\ Introduces(20) = {"appAdmin", "access"} /\ Introduces(29) = {"page"}
  /\ \A i \in Ids \ {15, 16, 17, 18, 20, 29} : Introduces(i) = {}
  BY DEF Introduces, Ids

Plain == Ids \ {13, 21, 22, 24, 25, 27, 28, 29}

\* Most migrations create tables or give seeded roles what they introduce.
LEMMA PlainRegrants ==
  ASSUME NEW e, NEW i \in Plain, IsDatabase(e), Apply(i, e) # Refused
  PROVE  Regrants(e, Apply(i, e), Introduces(i))
<1> DEFINE P == Introduces(i)
           f == Apply(i, e)
<1>1. Regrants(e, e, P)
  BY RegrantsNothing
<1>2. \A T : Regrants(e, Creating(e, T), P)
  BY CreatingRegrants
<1>3. \A T : Creating(e, T) # Refused
  BY DEF Creating, Refused, IsDatabase
<1>4. CASE i \in {2, 5, 6, 7, 8, 23, 30}
  <2>1. /\ DraftVersions(e) \in {e, Refused} /\ AuthorizationContract(e) \in {e, Refused}
        /\ StorageFinalization(e) \in {e, Refused} /\ AuditRetained(e) \in {e, Refused}
        /\ SchemaObjects(e) \in {e, Refused} /\ ControlPlaneAudit(e) \in {e, Refused}
        /\ MaskPolicies(e) \in {e, Refused}
    BY Zenon DEF DraftVersions, AuthorizationContract, StorageFinalization, AuditRetained,
       SchemaObjects, ControlPlaneAudit, MaskPolicies
  <2>2. f \in {e, Refused}
    BY <1>4, <2>1, MigrationsAre
  <2> QED BY <2>2, <1>1
<1>5. CASE i \in {1, 3, 4, 9, 10, 11, 12, 14, 26}
  <2> DEFINE Creates(x) == x = Refused \/ \E T : x = Creating(e, T)
  <2>1. /\ Creates(Core(e)) /\ Creates(DocumentEvents(e)) /\ Creates(Authorization(e))
        /\ Creates(Relations(e)) /\ Creates(Media(e)) /\ Creates(Hierarchies(e))
        /\ Creates(Quarantine(e)) /\ Creates(EventWorkers(e)) /\ Creates(ManagementDelegations(e))
    BY Zenon DEF Core, DocumentEvents, Authorization, Relations, Media, Hierarchies,
       Quarantine, EventWorkers, ManagementDelegations
  <2> HIDE DEF Creates
  <2>2. Creates(f)
    BY <1>5, <2>1, MigrationsAre
  <2> QED BY <2>2, <1>2 DEF Creates
<1>6. CASE i = 15
  <2> DEFINE known == Cataloged(e, {"service", "transfer"})
             g1 == Granting(known, {"owner", "security"}, {"service"})
             g2 == Granting(g1, {"owner"}, {"transfer"})
             g3 == Entrusting(g2, {"owner", "security"}, {"service"})
  <2>1. f = Creating(g3, {"tokens", "api_keys"})
    <3>1. f = UserIdentities(e)
      BY <1>6, MigrationsAre
    <3> QED BY <3>1, Zenon DEF UserIdentities
  <2>2. P = {"service", "transfer"}
    BY <1>6, IntroducedAre DEF Ids
  <2>3. Regrants(e, known, P)
    BY CatalogedRegrants
  <2>4. IsDatabase(known)
    BY <2>3, RegrantedIsDatabase
  <2> HIDE DEF known
  <2>5. Regrants(known, g1, P)
    BY <2>2, <2>4, GrantingRegrants
  <2>6. IsDatabase(g1)
    BY <2>4, <2>5, RegrantedIsDatabase
  <2> HIDE DEF g1
  <2>7. Regrants(g1, g2, P)
    BY <2>2, <2>6, GrantingRegrants
  <2>8. IsDatabase(g2)
    BY <2>6, <2>7, RegrantedIsDatabase
  <2> HIDE DEF g2
  <2>9. Regrants(g2, g3, P)
    BY <2>8, EntrustingRegrants
  <2>10. IsDatabase(g3)
    BY <2>8, <2>9, RegrantedIsDatabase
  <2> HIDE DEF g3
  <2>11. Regrants(g3, f, P)
    BY <2>1, <2>10, CreatingRegrants
  <2>12. Regrants(e, g1, P)
    BY <2>3, <2>5, RegrantsCompose
  <2>13. Regrants(e, g2, P)
    BY <2>12, <2>7, RegrantsCompose
  <2>14. Regrants(e, g3, P)
    BY <2>13, <2>9, RegrantsCompose
  <2> QED BY <2>14, <2>11, RegrantsCompose
<1>7. ASSUME NEW R, NEW Q, NEW T, P = Q,
             f = Creating(Granting(Cataloged(e, Q), R, Q), T)
      PROVE  Regrants(e, f, P)
  <2> DEFINE known == Cataloged(e, Q)
             g1 == Granting(known, R, Q)
  <2>1. f = Creating(g1, T)
    BY <1>7
  <2>2. Regrants(e, known, P)
    BY CatalogedRegrants
  <2>3. IsDatabase(known)
    BY <2>2, RegrantedIsDatabase
  <2> HIDE DEF known
  <2>4. Regrants(known, g1, P)
    BY <1>7, <2>3, GrantingRegrants
  <2>5. IsDatabase(g1)
    BY <2>3, <2>4, RegrantedIsDatabase
  <2> HIDE DEF g1
  <2>6. Regrants(g1, f, P)
    BY <2>1, <2>5, CreatingRegrants
  <2>7. Regrants(e, g1, P)
    BY <2>2, <2>4, RegrantsCompose
  <2> QED BY <2>6, <2>7, RegrantsCompose
<1>8. CASE i = 16
  <2>1. f = Creating(Granting(Cataloged(e, {"site"}), {"owner", "administrator"}, {"site"}), {"sites"})
    <3>1. f = SiteSettings(e)
      BY <1>8, MigrationsAre
    <3> QED BY <3>1, Zenon DEF SiteSettings
  <2>2. P = {"site"}
    BY <1>8, IntroducedAre DEF Ids
  <2> QED BY <1>7, <2>1, <2>2
<1>9. CASE i = 17
  <2>1. f = Creating(Granting(Cataloged(e, {"retention"}), {"owner", "administrator"}, {"retention"}),
                     {"retention"})
    <3>1. f = AuditRetention(e)
      BY <1>9, MigrationsAre
    <3> QED BY <3>1, Zenon DEF AuditRetention
  <2>2. P = {"retention"}
    BY <1>9, IntroducedAre DEF Ids
  <2> QED BY <1>7, <2>1, <2>2
<1>10. CASE i = 18
  <2>1. f = Creating(Granting(Cataloged(e, {"plugin"}), {"owner", "administrator"}, {"plugin"}), {"plugins"})
    <3>1. f = Plugins(e)
      BY <1>10, MigrationsAre
    <3> QED BY <3>1, Zenon DEF Plugins
  <2>2. P = {"plugin"}
    BY <1>10, IntroducedAre DEF Ids
  <2> QED BY <1>7, <2>1, <2>2
<1>11. CASE i = 19
  <2>1. f = OwnerDelegations(e)
    BY <1>11, MigrationsAre
  <2>2. P = {}
    BY <1>11, IntroducedAre DEF Ids
  <2> QED BY <2>1, <2>2, OwnerDelegationsRegrants
<1>12. CASE i = 20
  <2> DEFINE g0 == Cataloged(e, {"appAdmin", "access"})
             known == Creating(g0, {"apps"})
             g1 == Granting(known, {"owner", "content"}, {"appAdmin", "access"})
             g2 == Entrusting(g1, {"owner"}, Delegatable)
  <2>1. f \in {known, g2}
    <3>1. f = AdminAppStore(e)
      BY <1>12, MigrationsAre
    <3> QED BY <3>1, Zenon DEF AdminAppStore
  <2>2. P = {"appAdmin", "access"}
    BY <1>12, IntroducedAre DEF Ids
  <2>3. Regrants(e, g0, P)
    BY CatalogedRegrants
  <2>4. IsDatabase(g0)
    BY <2>3, RegrantedIsDatabase
  <2> HIDE DEF g0
  <2>5. Regrants(g0, known, P)
    BY <2>4, CreatingRegrants
  <2>6. IsDatabase(known)
    BY <2>4, <2>5, RegrantedIsDatabase
  <2>7. Regrants(e, known, P)
    BY <2>3, <2>5, RegrantsCompose
  <2> HIDE DEF known
  <2>8. Regrants(known, g1, P)
    BY <2>2, <2>6, GrantingRegrants
  <2>9. IsDatabase(g1)
    BY <2>6, <2>8, RegrantedIsDatabase
  <2>10. Regrants(e, g1, P)
    BY <2>7, <2>8, RegrantsCompose
  <2> HIDE DEF g1
  <2>11. Regrants(g1, g2, P)
    BY <2>9, EntrustingRegrants
  <2>12. Regrants(e, g2, P)
    BY <2>10, <2>11, RegrantsCompose
  <2> QED BY <2>1, <2>7, <2>12
<1>13. i \in {2, 5, 6, 7, 8, 23, 30} \/ i \in {1, 3, 4, 9, 10, 11, 12, 14, 26} \/ i \in {15, 16, 17, 18, 19, 20}
  BY DEF Plain, Ids
<1> QED BY <1>4, <1>5, <1>6, <1>8, <1>9, <1>10, <1>11, <1>12, <1>13

LEMMA MarkedIs ==
  ASSUME NEW e, NEW i, IsDatabase(e)
  PROVE  /\ IsDatabase(Marked(i, e)) /\ Marked(i, e).applied = e.applied \cup {i}
         /\ Marked(i, e).kind = e.kind /\ Marked(i, e).revision = e.revision
         /\ Marked(i, e).provisioner = e.provisioner /\ Marked(i, e).subjects = e.subjects
         /\ Marked(i, e).bindings = e.bindings /\ Marked(i, e).sessions = e.sessions
         /\ Marked(i, e).person = e.person /\ Marked(i, e).auth = e.auth
         /\ Marked(i, e).ceiling = e.ceiling /\ Marked(i, e).fullAccess = e.fullAccess
         /\ Marked(i, e).role = e.role
<1> DEFINE m == Marked(i, e)
<1>0. e = [tables |-> e.tables, applied |-> e.applied, kind |-> e.kind, revision |-> e.revision,
            catalog |-> e.catalog, role |-> e.role, provisioner |-> e.provisioner,
            subjects |-> e.subjects, bindings |-> e.bindings, sessions |-> e.sessions,
            person |-> e.person, auth |-> e.auth, ceiling |-> e.ceiling,
            enforced |-> e.enforced, fullAccess |-> e.fullAccess]
  BY DEF IsDatabase
<1>1. /\ m.applied = e.applied \cup {i} /\ m.kind = e.kind /\ m.revision = e.revision
      /\ m.provisioner = e.provisioner /\ m.subjects = e.subjects /\ m.bindings = e.bindings
      /\ m.sessions = e.sessions /\ m.person = e.person /\ m.auth = e.auth
      /\ m.ceiling = e.ceiling /\ m.fullAccess = e.fullAccess /\ m.role = e.role
      /\ m = [tables |-> m.tables, applied |-> m.applied, kind |-> m.kind, revision |-> m.revision,
            catalog |-> m.catalog, role |-> m.role, provisioner |-> m.provisioner,
            subjects |-> m.subjects, bindings |-> m.bindings, sessions |-> m.sessions,
            person |-> m.person, auth |-> m.auth, ceiling |-> m.ceiling,
            enforced |-> m.enforced, fullAccess |-> m.fullAccess]
  BY <1>0 DEF Marked
<1> HIDE DEF m
<1>2. IsDatabase(m)
  BY <1>1 DEF IsDatabase
<1> QED BY <1>1, <1>2 DEF m

\* An owner who is settled stays so with the roles and bindings there are.
LEMMA StaySettled ==
  ASSUME NEW e, NEW f,
         OwnersAreSettled(e), f.provisioner = e.provisioner, f.bindings = e.bindings,
         f.person = e.person, "owner" \in DOMAIN e.role, DOMAIN e.role \subseteq DOMAIN f.role,
         \A r \in DOMAIN e.role : e.role[r].permissions \subseteq f.role[r].permissions
  PROVE  OwnersAreSettled(f)
<1>1. {"manage", "apply", "assign"} \subseteq f.role["owner"].permissions
  BY DEF OwnersAreSettled
<1>2. "root" \in DOMAIN f.role /\ "manage" \in f.role["root"].permissions
  BY DEF OwnersAreSettled
<1> QED BY <1>1, <1>2, Zenon DEF OwnersAreSettled

LEMMA RegrantedIsKept ==
  ASSUME NEW e, NEW f, NEW P, NEW i, IsDatabase(e), IsKept(e), Regrants(e, f, P),
         i \notin {13, 21, 22, 24}, i = 27 => "access" \in f.role["owner"].permissions
  PROVE  IsKept(Marked(i, f))
<1> DEFINE m == Marked(i, f)
<1>1. /\ IsDatabase(f)
      /\ f.applied = e.applied /\ f.kind = e.kind /\ f.revision = e.revision
      /\ f.provisioner = e.provisioner /\ f.bindings = e.bindings
      /\ f.sessions = e.sessions /\ f.person = e.person
      /\ f.fullAccess = e.fullAccess /\ DOMAIN f.role = DOMAIN e.role
  BY RegrantedIsDatabase
<1>2. /\ m.applied = e.applied \cup {i} /\ m.kind = e.kind /\ m.revision = e.revision
      /\ m.provisioner = e.provisioner /\ m.bindings = e.bindings
      /\ m.sessions = e.sessions /\ m.person = e.person
      /\ m.fullAccess = e.fullAccess /\ m.role = f.role
  BY <1>1, MarkedIs
<1> HIDE DEF m
<1>3. \A r \in DOMAIN e.role : e.role[r].permissions \subseteq m.role[r].permissions
  BY <1>2 DEF Regrants
<1>4. "owner" \in DOMAIN e.role
  BY DEF IsDatabase
<1>5. 13 \in m.applied /\ m.kind = "system" => \A h \in m.sessions : m.person[h].system = "active"
  BY <1>2 DEF IsKept
<1>6. /\ 21 \in m.applied => \A g \in m.fullAccess : g.to = "identity"
      /\ \A g \in m.fullAccess : IF 24 \in m.applied THEN g.ended <=> g.why # "none" ELSE g.why = "none"
  <2>1. (24 \in m.applied <=> 24 \in e.applied) /\ (21 \in m.applied <=> 21 \in e.applied)
    BY <1>2
  <2> QED BY <1>2, <2>1 DEF IsKept
<1>7. ASSUME m.kind = "content", m.revision > 0
      PROVE  /\ 22 \in m.applied => OwnersAreSettled(m)
             /\ 27 \in m.applied => "access" \in m.role["owner"].permissions
  <2>1. ASSUME 22 \in m.applied PROVE OwnersAreSettled(m)
    <3>1. OwnersAreSettled(e)
      BY <1>2, <1>7, <2>1 DEF IsKept
    <3>2. DOMAIN e.role \subseteq DOMAIN m.role
      BY <1>1, <1>2
    <3> QED BY <1>2, <1>3, <1>4, <3>1, <3>2, StaySettled
  <2>2. ASSUME 27 \in m.applied PROVE "access" \in m.role["owner"].permissions
    <3>1. CASE i = 27
      BY <3>1, <1>2
    <3>2. CASE 27 \in e.applied
      BY <3>2, <1>2, <1>3, <1>4, <1>7 DEF IsKept
    <3> QED BY <2>2, <3>1, <3>2, <1>2
  <2> QED BY <2>1, <2>2
<1>8. IsKept(m)
  BY <1>5, <1>6, <1>7 DEF IsKept
<1> QED BY <1>8 DEF m

LEMMA RegrantedIsMade ==
  ASSUME NEW d, NEW e, NEW f, NEW n, NEW P,
         MadeOf(d, e), UpTo(e, n), n < 30, n + 1 \notin {13, 21, 22, 24, 25}, Regrants(e, f, P),
         "content" \notin P, n + 1 = 30 => P = {},
         \A r \in DOMAIN e.role : \A p \in f.role[r].permissions \cap d.catalog :
             p \in e.role[r].permissions \/ (p = "access" /\ r \in {"owner", "content"}),
         n + 1 = 27 => "access" \in f.role["owner"].permissions,
         n + 1 = 29 => PagesFollow(f)
  PROVE  MadeOf(d, Marked(n + 1, f))
<1> DEFINE i == n + 1
           m == Marked(i, f)
<1>0. IsDatabase(e) /\ IsKept(e)
  BY DEF MadeOf
<1>1. /\ IsDatabase(f)
      /\ f.applied = e.applied /\ f.kind = e.kind /\ f.revision = e.revision
      /\ f.provisioner = e.provisioner /\ f.subjects = e.subjects /\ f.bindings = e.bindings
      /\ f.sessions = e.sessions /\ f.person = e.person /\ f.auth = e.auth
      /\ f.ceiling = e.ceiling /\ f.fullAccess = e.fullAccess /\ DOMAIN f.role = DOMAIN e.role
  BY <1>0, RegrantedIsDatabase
<1>2. /\ IsDatabase(m)
      /\ m.applied = e.applied \cup {i} /\ m.kind = e.kind /\ m.revision = e.revision
      /\ m.subjects = e.subjects /\ m.bindings = e.bindings /\ m.person = e.person
      /\ m.auth = e.auth /\ m.ceiling = e.ceiling /\ m.role = f.role
  BY <1>1, MarkedIs
<1>3. IsKept(m)
  BY <1>0, RegrantedIsKept
<1> HIDE DEF m
<1>4. n \in 0..29 /\ e.applied = 1..n
  BY DEF UpTo
<1>5. UpTo(m, n + 1) /\ n + 1 \in 0..30
  BY <1>2, <1>4 DEF UpTo
<1>6. d.applied \subseteq e.applied /\ (Settled(d, m) <=> Settled(d, e))
  BY <1>2, <1>4 DEF MadeOf, Settled
<1>7. \A r \in DOMAIN e.role : /\ e.role[r].permissions \subseteq m.role[r].permissions
                               /\ m.role[r].permissions \subseteq e.role[r].permissions \cup P
  BY <1>2 DEF Regrants
<1>8. RolesGrow(d, m)
  <2>1. RolesGrow(d, e)
    BY DEF MadeOf
  <2>2. DOMAIN d.role \subseteq DOMAIN m.role
    BY <1>1, <1>2, <2>1 DEF RolesGrow
  <2>3. ASSUME NEW r \in DOMAIN d.role, ~(r = "root" /\ Settled(d, m))
        PROVE  /\ d.role[r].permissions \subseteq m.role[r].permissions
               /\ \A p \in m.role[r].permissions \cap d.catalog :
                    p \in d.role[r].permissions \/ (p = "access" /\ r \in {"owner", "content"})
    <3>1. /\ r \in DOMAIN e.role
          /\ d.role[r].permissions \subseteq e.role[r].permissions
          /\ \A p \in e.role[r].permissions \cap d.catalog :
               p \in d.role[r].permissions \/ (p = "access" /\ r \in {"owner", "content"})
      BY <2>1, <2>3, <1>6 DEF RolesGrow
    <3> QED BY <3>1, <1>2, <1>7
  <2> QED BY <2>2, <2>3 DEF RolesGrow
<1>9. BindingsStay(d, m)
  BY <1>2, <1>6 DEF MadeOf, BindingsStay
<1>10. ASSUME d.kind = "content", 25 \in m.applied, 25 \notin d.applied
       PROVE  CeilingsCover(m)
  <2>1. CeilingsCover(e)
    BY <1>2, <1>4, <1>10 DEF MadeOf
  <2>2. ASSUME NEW b \in m.bindings, "content" \in m.role[b.role].permissions
        PROVE  "content" \in e.role[b.role].permissions
    <3>1. b.role \in DOMAIN e.role
      BY <1>0, <1>2, <2>2 DEF IsDatabase
    <3> QED BY <1>7, <2>2, <3>1
  <2> QED BY <1>2, <2>1, <2>2 DEF CeilingsCover
<1>11. ASSUME 29 \in m.applied, 29 \notin d.applied
       PROVE  PagesFollow(m)
  <2>1. CASE i = 29
    BY <1>2, <2>1 DEF PagesFollow
  <2>2. CASE i # 29
    <3>1. 29 \in e.applied
      BY <1>2, <1>11, <2>2
    <3>2. i = 30 /\ PagesFollow(e)
      BY <1>4, <1>11, <2>2, <3>1 DEF MadeOf
    <3>3. \A r \in DOMAIN e.role : m.role[r].permissions = e.role[r].permissions
      BY <1>7, <3>2
    <3> QED BY <1>1, <1>2, <3>2, <3>3 DEF PagesFollow
  <2> QED BY <2>1, <2>2
<1>12. MadeOf(d, m)
  BY <1>2, <1>3, <1>5, <1>6, <1>8, <1>9, <1>10, <1>11 DEF MadeOf
<1> QED BY <1>12 DEF m

\* A migration of other tables leaves roles, bindings and who is whom.
LEMMA RewrittenIsMade ==
  ASSUME NEW d, NEW e, NEW f, NEW n,
         MadeOf(d, e), UpTo(e, n), n < 30, n + 1 # 29,
         n + 1 = 22 => ~(d.kind = "content" /\ d.revision > 0),
         IsDatabase(f), IsKept(Marked(n + 1, f)),
         f.applied = e.applied, f.kind = e.kind, f.revision = e.revision, f.subjects = e.subjects,
         f.auth = e.auth, f.role = e.role, f.bindings = e.bindings,
         d.kind = "content" => f.person = e.person,
         d.kind = "content" /\ 25 \in e.applied \cup {n + 1} /\ 25 \notin d.applied => CeilingsCover(f)
  PROVE  MadeOf(d, Marked(n + 1, f))
<1> DEFINE i == n + 1
           m == Marked(i, f)
<1>1. /\ IsDatabase(m)
      /\ m.applied = e.applied \cup {i} /\ m.kind = e.kind /\ m.revision = e.revision
      /\ m.subjects = e.subjects /\ m.bindings = e.bindings /\ m.person = f.person
      /\ m.auth = e.auth /\ m.ceiling = f.ceiling /\ m.role = e.role /\ IsKept(m)
  BY MarkedIs
<1> HIDE DEF m
<1>2. n \in 0..29 /\ e.applied = 1..n
  BY DEF UpTo
<1>3. UpTo(m, n + 1) /\ n + 1 \in 0..30
  <2>1. 1..(n + 1) = (1..n) \cup {n + 1} /\ n + 1 \in 0..30
    BY <1>2
  <2> QED BY <1>1, <1>2, <2>1, Zenon DEF UpTo
<1>4. d.applied \subseteq e.applied /\ (Settled(d, m) <=> Settled(d, e))
  BY <1>1, <1>2 DEF MadeOf, Settled
<1>5. RolesGrow(d, m)
  BY <1>1, <1>4 DEF MadeOf, RolesGrow
<1>6. BindingsStay(d, m)
  BY <1>1, <1>4 DEF MadeOf, BindingsStay
<1>7. ASSUME d.kind = "content", 25 \in m.applied, 25 \notin d.applied
      PROVE  CeilingsCover(m)
  <2>1. CeilingsCover(f)
    BY <1>1, <1>7
  <2> QED BY <1>1, <2>1 DEF CeilingsCover
<1>8. ASSUME 29 \in m.applied, 29 \notin d.applied
      PROVE  PagesFollow(m)
  <2>1. PagesFollow(e)
    BY <1>1, <1>8 DEF MadeOf
  <2> QED BY <1>1, <2>1 DEF PagesFollow
<1>9. MadeOf(d, m)
  BY <1>1, <1>3, <1>4, <1>5, <1>6, <1>7, <1>8 DEF MadeOf
<1> QED BY <1>9 DEF m

-----------------------------------------------------------------------------
\* 0013: members of the system realm are its subjects, sessions are theirs.
LEMMA IdentityRealmsIsMade ==
  ASSUME NEW d, NEW e, MadeOf(d, e), UpTo(e, 12), IdentityRealms(e) # Refused
  PROVE  MadeOf(d, Marked(13, IdentityRealms(e)))
<1> DEFINE joining(h) == e.kind = "system" /\ h \in e.subjects /\ e.person[h].system = "none"
           joined(h) == [e.person[h] EXCEPT !.system = IF e.person[h].subject THEN "active" ELSE "suspended"]
           people == [h \in People |-> IF joining(h) THEN joined(h) ELSE e.person[h]]
           f1 == MembersJoined(e)
           f2 == SessionsBound(f1)
           f == IdentityRealms(e)
<1>0. IsDatabase(e) /\ IsKept(e) /\ e.kind = d.kind
  BY DEF MadeOf
<1>1. f1 = [e EXCEPT !.person = people]
  BY Zenon DEF MembersJoined
<1>2. e.person = [h \in People |->
         [subject |-> e.person[h].subject, content |-> e.person[h].content,
          human |-> e.person[h].human, cmsOwner |-> e.person[h].cmsOwner,
          enabled |-> e.person[h].enabled, system |-> e.person[h].system]]
  BY <1>0, Zenon DEF IsDatabase
<1>3. ASSUME NEW h \in People
      PROVE  people[h] = [subject |-> people[h].subject, content |-> people[h].content,
          human |-> people[h].human, cmsOwner |-> people[h].cmsOwner,
          enabled |-> people[h].enabled, system |-> people[h].system]
  <2>1. e.person[h] = [subject |-> e.person[h].subject, content |-> e.person[h].content,
          human |-> e.person[h].human, cmsOwner |-> e.person[h].cmsOwner,
          enabled |-> e.person[h].enabled, system |-> e.person[h].system]
    BY <1>2, Zenon
  <2>2. CASE joining(h)
    <3>1. people[h] = joined(h)
      BY <2>2, Zenon
    <3> QED BY <2>1, <3>1
  <2>3. CASE ~joining(h)
    BY <2>1, <2>3, Zenon
  <2> QED BY <2>2, <2>3
<1>4. people = [h \in People |->
         [subject |-> people[h].subject, content |-> people[h].content,
          human |-> people[h].human, cmsOwner |-> people[h].cmsOwner,
          enabled |-> people[h].enabled, system |-> people[h].system]]
  <2>1. people = [h \in People |-> people[h]]
    OBVIOUS
  <2> HIDE DEF people
  <2> QED BY <1>3, <2>1
<1>5. d.kind = "content" => people = e.person
  <2>1. e.person = [h \in People |-> e.person[h]]
    BY <1>2
  <2> QED BY <1>0, <2>1
<1> HIDE DEF people
<1>6. /\ IsDatabase(f1) /\ f1.person = people
      /\ f1.applied = e.applied /\ f1.kind = e.kind /\ f1.revision = e.revision
      /\ f1.subjects = e.subjects /\ f1.auth = e.auth /\ f1.role = e.role /\ f1.bindings = e.bindings
      /\ f1.fullAccess = e.fullAccess /\ f1.provisioner = e.provisioner
  <2>1. e = [tables |-> e.tables, applied |-> e.applied, kind |-> e.kind, revision |-> e.revision,
            catalog |-> e.catalog, role |-> e.role, provisioner |-> e.provisioner,
            subjects |-> e.subjects, bindings |-> e.bindings, sessions |-> e.sessions,
            person |-> e.person, auth |-> e.auth, ceiling |-> e.ceiling,
            enforced |-> e.enforced, fullAccess |-> e.fullAccess]
    BY <1>0 DEF IsDatabase
  <2>2. f1 = [tables |-> e.tables, applied |-> e.applied, kind |-> e.kind, revision |-> e.revision,
            catalog |-> e.catalog, role |-> e.role, provisioner |-> e.provisioner,
            subjects |-> e.subjects, bindings |-> e.bindings, sessions |-> e.sessions,
            person |-> people, auth |-> e.auth, ceiling |-> e.ceiling,
            enforced |-> e.enforced, fullAccess |-> e.fullAccess]
    BY <1>1, <2>1
  <2> QED BY <1>0, <1>4, <2>2 DEF IsDatabase
<1> HIDE DEF f1
<1>7. /\ IsDatabase(f2) /\ f2.person = people
      /\ f2.applied = e.applied /\ f2.kind = e.kind /\ f2.revision = e.revision
      /\ f2.subjects = e.subjects /\ f2.auth = e.auth /\ f2.role = e.role /\ f2.bindings = e.bindings
      /\ f2.fullAccess = e.fullAccess
      /\ \A h \in f2.sessions : f2.person[h].system = "active"
  <2> DEFINE bound == {h \in f1.sessions : f1.person[h].enabled /\ f1.person[h].system = "active"}
  <2>1. f2 = [f1 EXCEPT !.sessions = bound]
    BY Zenon DEF SessionsBound
  <2>2. \A h \in bound : f1.person[h].system = "active"
    OBVIOUS
  <2> HIDE DEF bound
  <2>3. f1 = [tables |-> f1.tables, applied |-> f1.applied, kind |-> f1.kind, revision |-> f1.revision,
            catalog |-> f1.catalog, role |-> f1.role, provisioner |-> f1.provisioner,
            subjects |-> f1.subjects, bindings |-> f1.bindings, sessions |-> f1.sessions,
            person |-> f1.person, auth |-> f1.auth, ceiling |-> f1.ceiling,
            enforced |-> f1.enforced, fullAccess |-> f1.fullAccess]
    BY <1>6 DEF IsDatabase
  <2>4. f2 = [tables |-> f1.tables, applied |-> f1.applied, kind |-> f1.kind, revision |-> f1.revision,
            catalog |-> f1.catalog, role |-> f1.role, provisioner |-> f1.provisioner,
            subjects |-> f1.subjects, bindings |-> f1.bindings, sessions |-> bound,
            person |-> f1.person, auth |-> f1.auth, ceiling |-> f1.ceiling,
            enforced |-> f1.enforced, fullAccess |-> f1.fullAccess]
    BY <2>1, <2>3
  <2> QED BY <1>6, <2>2, <2>4 DEF IsDatabase
<1> HIDE DEF f2
<1>8. \E T : f = Creating(f2, T)
  BY Zenon DEF IdentityRealms, f2, f1
<1> HIDE DEF f
<1>9. Regrants(f2, f, {})
  BY <1>7, <1>8, CreatingRegrants
<1>10. /\ IsDatabase(f) /\ f.person = people
       /\ f.applied = e.applied /\ f.kind = e.kind /\ f.revision = e.revision
       /\ f.subjects = e.subjects /\ f.auth = e.auth /\ f.bindings = e.bindings
       /\ f.fullAccess = e.fullAccess /\ f.sessions = f2.sessions /\ f.role = e.role
  <2>1. f.role = e.role
    BY <1>7, <1>8 DEF Creating, IsDatabase
  <2> QED BY <1>7, <1>9, <2>1, RegrantedIsDatabase
<1>11. e.applied = 1..12
  BY DEF UpTo
<1>12. IsKept(Marked(13, f))
  <2> DEFINE m == Marked(13, f)
  <2>1. m.applied = 1..13 /\ m.kind = e.kind /\ m.sessions = f2.sessions /\ m.person = people
        /\ m.fullAccess = e.fullAccess
    BY <1>10, <1>11, MarkedIs
  <2> HIDE DEF m
  <2>2. \A h \in m.sessions : m.person[h].system = "active"
    BY <1>7, <2>1
  <2>3. 21 \notin m.applied /\ 22 \notin m.applied /\ 24 \notin m.applied /\ 27 \notin m.applied
        /\ 24 \notin e.applied
    BY <2>1, <1>11
  <2>4. \A g \in m.fullAccess : g.why = "none"
    BY <1>0, <2>1, <2>3 DEF IsKept
  <2>5. IsKept(m)
    BY <2>2, <2>3, <2>4 DEF IsKept
  <2> QED BY <2>5 DEF m
<1>13. 25 \notin e.applied \cup {12 + 1}
  BY <1>11
<1>14. MadeOf(d, Marked(12 + 1, f))
  BY <1>5, <1>10, <1>12, <1>13, RewrittenIsMade
<1> QED BY <1>14 DEF f

\* Grants of full access and ceilings are rows of their own.
ElseAs(e, f) ==
    f = [tables |-> f.tables, applied |-> e.applied, kind |-> e.kind, revision |-> e.revision,
         catalog |-> e.catalog, role |-> e.role, provisioner |-> e.provisioner,
         subjects |-> e.subjects, bindings |-> e.bindings, sessions |-> e.sessions,
         person |-> e.person, auth |-> e.auth, ceiling |-> f.ceiling,
         enforced |-> f.enforced, fullAccess |-> f.fullAccess]

LEMMA OtherRows ==
  ASSUME NEW e, NEW f, IsDatabase(e), ElseAs(e, f),
         \A g \in f.fullAccess : g = [to |-> g.to, ended |-> g.ended, why |-> g.why]
  PROVE  /\ IsDatabase(f)
         /\ f.applied = e.applied /\ f.kind = e.kind /\ f.revision = e.revision
         /\ f.provisioner = e.provisioner /\ f.subjects = e.subjects /\ f.bindings = e.bindings
         /\ f.sessions = e.sessions /\ f.person = e.person /\ f.auth = e.auth /\ f.role = e.role
<1>1. /\ f.applied = e.applied /\ f.kind = e.kind /\ f.revision = e.revision
      /\ f.catalog = e.catalog
      /\ f.provisioner = e.provisioner /\ f.subjects = e.subjects /\ f.bindings = e.bindings
      /\ f.sessions = e.sessions /\ f.person = e.person /\ f.auth = e.auth /\ f.role = e.role
  BY DEF ElseAs
<1>2. IsDatabase(f)
  BY <1>1 DEF IsDatabase, ElseAs
<1> QED BY <1>1, <1>2

\* The grants of full access as the migrations applied leave them.
EndingsFit(G, applied) ==
    /\ 21 \in applied => \A g \in G : g.to = "identity"
    /\ \A g \in G : IF 24 \in applied THEN g.ended <=> g.why # "none" ELSE g.why = "none"

\* What is kept does not depend on ceilings.
LEMMA OtherRowsAreKept ==
  ASSUME NEW e, NEW f, NEW i, IsDatabase(f), IsKept(e),
         f.applied = e.applied, f.kind = e.kind, f.revision = e.revision,
         f.provisioner = e.provisioner, f.bindings = e.bindings,
         f.sessions = e.sessions, f.person = e.person, f.role = e.role,
         EndingsFit(f.fullAccess, e.applied \cup {i}), i \notin {13, 22, 27}
  PROVE  IsKept(Marked(i, f))
<1> DEFINE m == Marked(i, f)
<1>1. /\ m.applied = e.applied \cup {i} /\ m.kind = e.kind /\ m.revision = e.revision
      /\ m.provisioner = e.provisioner /\ m.bindings = e.bindings
      /\ m.sessions = e.sessions /\ m.person = e.person
      /\ m.fullAccess = f.fullAccess /\ m.role = e.role
  BY MarkedIs
<1> HIDE DEF m
<1>2. OwnersAreSettled(m) <=> OwnersAreSettled(e)
  BY <1>1, Zenon DEF OwnersAreSettled
<1>3. IsKept(m)
  BY <1>1, <1>2 DEF IsKept, EndingsFit
<1> QED BY <1>3 DEF m

\* 0021: only grants to identities stay.
LEMMA ControlPlaneAccessIsMade ==
  ASSUME NEW d, NEW e, MadeOf(d, e), UpTo(e, 20)
  PROVE  MadeOf(d, Marked(21, ControlPlaneAccess(e)))
<1> DEFINE left == {g \in e.fullAccess : g.to = "identity"}
           f == ControlPlaneAccess(e)
<1>0. IsDatabase(e) /\ IsKept(e) /\ e.applied = 1..20
  BY DEF MadeOf, UpTo
<1>1. f = [e EXCEPT !.fullAccess = left, !.tables = e.tables \cup {"full_access"}]
  BY DEF ControlPlaneAccess
<1>2. f.fullAccess = left /\ ElseAs(e, f)
  BY <1>0, <1>1 DEF IsDatabase, ElseAs
<1>3. \A g \in left : g = [to |-> g.to, ended |-> g.ended, why |-> g.why] /\ g.to = "identity"
                      /\ g.why = "none"
  BY <1>0 DEF IsDatabase, IsKept
<1> HIDE DEF f, left
<1>4. /\ IsDatabase(f)
      /\ f.applied = e.applied /\ f.kind = e.kind /\ f.revision = e.revision
      /\ f.provisioner = e.provisioner /\ f.subjects = e.subjects /\ f.bindings = e.bindings
      /\ f.sessions = e.sessions /\ f.person = e.person /\ f.auth = e.auth /\ f.role = e.role
  <2>1. \A g \in f.fullAccess : g = [to |-> g.to, ended |-> g.ended, why |-> g.why]
    BY <1>2, <1>3
  <2> QED BY <1>0, <1>2, <2>1, OtherRows
<1>5. IsKept(Marked(21, f))
  <2>1. 24 \notin e.applied \cup {21}
    BY <1>0
  <2>2. EndingsFit(f.fullAccess, e.applied \cup {21})
    BY <1>2, <1>3, <2>1 DEF EndingsFit
  <2>3. 21 \notin {13, 22, 27}
    OBVIOUS
  <2> QED BY <1>0, <1>4, <2>2, <2>3, OtherRowsAreKept, Zenon
<1>6. 25 \notin e.applied \cup {20 + 1}
  BY <1>0
<1>7. MadeOf(d, Marked(20 + 1, f))
  BY <1>4, <1>5, <1>6, RewrittenIsMade
<1> QED BY <1>7 DEF f

\* 0024: a grant has ended if and only if there is a reason.
LEMMA FullAccessLifecycleIsMade ==
  ASSUME NEW d, NEW e, MadeOf(d, e), UpTo(e, 23)
  PROVE  MadeOf(d, Marked(24, FullAccessLifecycle(e)))
<1> DEFINE new(g) == IF g.ended /\ g.why = "none" THEN [g EXCEPT !.why = "revoked"] ELSE g
           all == {new(g) : g \in e.fullAccess}
           f == FullAccessLifecycle(e)
<1>0. IsDatabase(e) /\ IsKept(e) /\ e.applied = 1..23
  BY DEF MadeOf, UpTo
<1>1. f = [e EXCEPT !.fullAccess = all]
  BY Zenon DEF FullAccessLifecycle
<1>2. ASSUME NEW g \in e.fullAccess
      PROVE  /\ new(g) = [to |-> new(g).to, ended |-> new(g).ended, why |-> new(g).why]
             /\ new(g).to = "identity" /\ (new(g).ended <=> new(g).why # "none")
  <2>1. g = [to |-> g.to, ended |-> g.ended, why |-> g.why] /\ g.to = "identity" /\ g.why = "none"
    BY <1>0 DEF IsDatabase, IsKept
  <2>2. CASE g.ended
    <3>1. new(g) = [g EXCEPT !.why = "revoked"]
      BY <2>1, <2>2
    <3> QED BY <2>1, <2>2, <3>1
  <2>3. CASE ~g.ended
    <3>1. new(g) = g
      BY <2>3
    <3> HIDE DEF new
    <3> QED BY <2>1, <2>3, <3>1
  <2> QED BY <2>2, <2>3
<1> HIDE DEF new
<1>3. \A g \in all : /\ g = [to |-> g.to, ended |-> g.ended, why |-> g.why] /\ g.to = "identity"
                     /\ g.ended <=> g.why # "none"
  BY <1>2
<1> HIDE DEF all
<1>4. f.fullAccess = all /\ ElseAs(e, f)
  BY <1>0, <1>1 DEF IsDatabase, ElseAs
<1> HIDE DEF f
<1>5. /\ IsDatabase(f)
      /\ f.applied = e.applied /\ f.kind = e.kind /\ f.revision = e.revision
      /\ f.provisioner = e.provisioner /\ f.subjects = e.subjects /\ f.bindings = e.bindings
      /\ f.sessions = e.sessions /\ f.person = e.person /\ f.auth = e.auth /\ f.role = e.role
  <2>1. \A g \in f.fullAccess : g = [to |-> g.to, ended |-> g.ended, why |-> g.why]
    BY <1>3, <1>4
  <2> QED BY <1>0, <1>4, <2>1, OtherRows
<1>6. IsKept(Marked(24, f))
  <2>1. EndingsFit(f.fullAccess, e.applied \cup {24})
    BY <1>3, <1>4 DEF EndingsFit
  <2>2. 24 \notin {13, 22, 27}
    OBVIOUS
  <2> QED BY <1>0, <1>5, <2>1, <2>2, OtherRowsAreKept, Zenon
<1>7. 25 \notin e.applied \cup {23 + 1}
  BY <1>0
<1>8. MadeOf(d, Marked(23 + 1, f))
  BY <1>5, <1>6, <1>7, RewrittenIsMade
<1> QED BY <1>8 DEF f

WithCeilings(e, T, rows, count) ==
    [[[e EXCEPT !.tables = T] EXCEPT !.ceiling = rows] EXCEPT !.enforced = count]

LEMMA CeilingsAreOtherRows ==
  ASSUME NEW e, NEW f, NEW T, NEW rows, NEW count, IsDatabase(e),
         f = WithCeilings(e, T, rows, count)
  PROVE  ElseAs(e, f) /\ f.ceiling = rows /\ f.fullAccess = e.fullAccess
<1>1. e = [tables |-> e.tables, applied |-> e.applied, kind |-> e.kind, revision |-> e.revision,
            catalog |-> e.catalog, role |-> e.role, provisioner |-> e.provisioner,
            subjects |-> e.subjects, bindings |-> e.bindings, sessions |-> e.sessions,
            person |-> e.person, auth |-> e.auth, ceiling |-> e.ceiling,
            enforced |-> e.enforced, fullAccess |-> e.fullAccess]
  BY DEF IsDatabase
<1> DEFINE f1 == [e EXCEPT !.tables = T]
           f2 == [f1 EXCEPT !.ceiling = rows]
<1>2. f1 = [tables |-> T, applied |-> e.applied, kind |-> e.kind, revision |-> e.revision,
            catalog |-> e.catalog, role |-> e.role, provisioner |-> e.provisioner,
            subjects |-> e.subjects, bindings |-> e.bindings, sessions |-> e.sessions,
            person |-> e.person, auth |-> e.auth, ceiling |-> e.ceiling,
            enforced |-> e.enforced, fullAccess |-> e.fullAccess]
  BY <1>1
<1> HIDE DEF f1
<1>3. f2 = [tables |-> T, applied |-> e.applied, kind |-> e.kind, revision |-> e.revision,
            catalog |-> e.catalog, role |-> e.role, provisioner |-> e.provisioner,
            subjects |-> e.subjects, bindings |-> e.bindings, sessions |-> e.sessions,
            person |-> e.person, auth |-> e.auth, ceiling |-> rows,
            enforced |-> e.enforced, fullAccess |-> e.fullAccess]
  BY <1>2
<1>4. f = [f2 EXCEPT !.enforced = count]
  BY Zenon DEF f1, WithCeilings
<1> HIDE DEF f2
<1>5. f = [tables |-> T, applied |-> e.applied, kind |-> e.kind, revision |-> e.revision,
            catalog |-> e.catalog, role |-> e.role, provisioner |-> e.provisioner,
            subjects |-> e.subjects, bindings |-> e.bindings, sessions |-> e.sessions,
            person |-> e.person, auth |-> e.auth, ceiling |-> rows,
            enforced |-> count, fullAccess |-> e.fullAccess]
  BY <1>3, <1>4
<1>6. f.tables = T /\ f.ceiling = rows /\ f.enforced = count /\ f.fullAccess = e.fullAccess
  BY <1>5
<1> QED BY <1>5, <1>6 DEF ElseAs

\* 0025: who holds content on a collection finds it in the ceiling.
LEMMA CollectionEntitlementsIsMade ==
  ASSUME NEW d, NEW e, MadeOf(d, e), UpTo(e, 24), CollectionEntitlements(e) # Refused
  PROVE  MadeOf(d, Marked(25, CollectionEntitlements(e)))
<1> DEFINE grantedOn(c) == UNION {e.role[b.role].permissions \cap {"content"} :
                                    b \in {b \in e.bindings : Reaches(b, c)}}
           made == {c \in Collections \ e.auth : grantedOn(c) # {}}
           g == Creating(e, {"entitlements"})
           rows == [c \in made |-> grantedOn(c)]
<1>0. IsDatabase(e) /\ IsKept(e) /\ e.applied = 1..24 /\ d.kind = e.kind
  BY DEF MadeOf, UpTo
<1>1. PICK f : f = CollectionEntitlements(e)
  OBVIOUS
<1>2. f = IF e.kind = "system" THEN g ELSE [g EXCEPT !.ceiling = rows, !.enforced = g.enforced + 1]
  BY <1>1, Zenon DEF CollectionEntitlements
<1>3. ASSUME e.kind = "content", NEW b \in e.bindings, NEW c \in Collections \ e.auth, Covers(b, c),
             "content" \in e.role[b.role].permissions
      PROVE  c \in made /\ "content" \in rows[c]
  <2>1. b.propagation \in {"self", "children", "self-and-children"}
    BY <1>0 DEF IsDatabase
  <2>2. c # "root"
    BY DEF Collections
  <2>3. Reaches(b, c)
    BY <1>3, <2>1, <2>2 DEF Covers, Reaches
  <2>4. "content" \in grantedOn(c)
    BY <1>3, <2>3
  <2> HIDE DEF grantedOn
  <2> QED BY <2>4
<1> HIDE DEF made, rows
<1>4. /\ f.fullAccess = e.fullAccess
      /\ ElseAs(e, f)
      /\ e.kind = "content" => f.ceiling = rows
  <2>1. CASE e.kind = "system"
    BY <1>0, <1>2, <2>1 DEF Creating, IsDatabase, ElseAs
  <2>2. CASE e.kind # "system"
    <3>1. f = [g EXCEPT !.ceiling = rows, !.enforced = g.enforced + 1]
      BY <1>2, <2>2
    <3>2. f = WithCeilings(e, e.tables \cup {"entitlements"}, rows, g.enforced + 1)
      BY <3>1 DEF Creating, WithCeilings
    <3> HIDE DEF g, grantedOn
    <3>3. ElseAs(e, f) /\ f.ceiling = rows /\ f.fullAccess = e.fullAccess
      BY <1>0, <3>2, CeilingsAreOtherRows
    <3> QED BY <3>3
  <2> QED BY <2>1, <2>2
<1> HIDE DEF grantedOn
<1>5. /\ IsDatabase(f)
      /\ f.applied = e.applied /\ f.kind = e.kind /\ f.revision = e.revision
      /\ f.provisioner = e.provisioner /\ f.subjects = e.subjects /\ f.bindings = e.bindings
      /\ f.sessions = e.sessions /\ f.person = e.person /\ f.auth = e.auth /\ f.role = e.role
  <2>1. \A x \in f.fullAccess : x = [to |-> x.to, ended |-> x.ended, why |-> x.why]
    BY <1>0, <1>4 DEF IsDatabase
  <2> QED BY <1>0, <1>4, <2>1, OtherRows
<1>6. IsKept(Marked(25, f))
  <2>1. 21 \in e.applied /\ 24 \in e.applied
    BY <1>0
  <2>2. EndingsFit(f.fullAccess, e.applied \cup {25})
    BY <1>0, <1>4, <2>1 DEF IsKept, EndingsFit
  <2>3. 25 \notin {13, 22, 27}
    OBVIOUS
  <2> QED BY <1>0, <1>5, <2>2, <2>3, OtherRowsAreKept, Zenon
<1>7. e.kind = "content" => CeilingsCover(f)
  <2>1. DOMAIN rows = made
    BY DEF rows
  <2> QED BY <1>3, <1>4, <1>5, <2>1 DEF CeilingsCover
<1>8. MadeOf(d, Marked(24 + 1, f))
  BY <1>0, <1>5, <1>6, <1>7, RewrittenIsMade
<1> QED BY <1>1, <1>8

\* 0028: ceilings of profiles go; they are not what the ceilings must cover.
LEMMA EntitlementCleanupIsMade ==
  ASSUME NEW d, NEW e, MadeOf(d, e), UpTo(e, 27)
  PROVE  MadeOf(d, Marked(28, EntitlementCleanup(e)))
<1> DEFINE stale == DOMAIN e.ceiling \cap e.auth
           rows == [c \in DOMAIN e.ceiling \ stale |-> e.ceiling[c]]
           f == EntitlementCleanup(e)
<1>0. IsDatabase(e) /\ IsKept(e) /\ e.applied = 1..27 /\ d.kind = e.kind
  BY DEF MadeOf, UpTo
<1>1. f = IF stale = {} THEN e ELSE [e EXCEPT !.ceiling = rows, !.enforced = e.enforced + 1]
  BY Zenon DEF EntitlementCleanup
<1>2. \A c \in DOMAIN e.ceiling \ e.auth : c \in DOMAIN rows /\ rows[c] = e.ceiling[c]
  OBVIOUS
<1> HIDE DEF stale, rows
<1>3. /\ f.fullAccess = e.fullAccess
      /\ ElseAs(e, f)
      /\ f.ceiling \in {e.ceiling, rows}
  <2>1. CASE f = e
    BY <1>0, <2>1 DEF ElseAs, IsDatabase
  <2>2. CASE f = [e EXCEPT !.ceiling = rows, !.enforced = e.enforced + 1]
    <3>1. f = WithCeilings(e, e.tables, rows, e.enforced + 1)
      <4>1. [e EXCEPT !.tables = e.tables] = e
        BY <1>0 DEF IsDatabase
      <4>2. f = [[e EXCEPT !.ceiling = rows] EXCEPT !.enforced = e.enforced + 1]
        BY <2>2
      <4> QED BY <4>1, <4>2, Zenon DEF WithCeilings
    <3> QED BY <1>0, <3>1, CeilingsAreOtherRows
  <2> QED BY <1>1, <2>1, <2>2
<1> HIDE DEF f
<1>4. \A x \in f.fullAccess : x = [to |-> x.to, ended |-> x.ended, why |-> x.why]
  BY <1>0, <1>3 DEF IsDatabase
<1>5. /\ IsDatabase(f)
      /\ f.applied = e.applied /\ f.kind = e.kind /\ f.revision = e.revision
      /\ f.provisioner = e.provisioner /\ f.subjects = e.subjects /\ f.bindings = e.bindings
      /\ f.sessions = e.sessions /\ f.person = e.person /\ f.auth = e.auth /\ f.role = e.role
  BY <1>0, <1>3, <1>4, OtherRows
<1>6. IsKept(Marked(28, f))
  <2>1. 21 \in e.applied /\ 24 \in e.applied
    BY <1>0
  <2>2. EndingsFit(f.fullAccess, e.applied \cup {28})
    BY <1>0, <1>3, <2>1 DEF IsKept, EndingsFit
  <2>3. 28 \notin {13, 22, 27}
    OBVIOUS
  <2> QED BY <1>0, <1>5, <2>2, <2>3, OtherRowsAreKept, Zenon
<1>7. d.kind = "content" /\ 25 \in e.applied \cup {28} /\ 25 \notin d.applied => CeilingsCover(f)
  <2>1. ASSUME CeilingsCover(e) PROVE CeilingsCover(f)
    BY <1>2, <1>3, <1>5, <2>1 DEF CeilingsCover
  <2> QED BY <2>1 DEF MadeOf
<1>8. MadeOf(d, Marked(27 + 1, f))
  BY <1>0, <1>5, <1>6, <1>7, RewrittenIsMade
<1> QED BY <1>8 DEF f

-----------------------------------------------------------------------------
\* What a migration introduces nobody had before.
LEMMA PlainIsMade ==
  ASSUME NEW d, NEW e, NEW n, LeftByARelease(d), MadeOf(d, e), UpTo(e, n), n < 30,
         n + 1 \in Plain, Apply(n + 1, e) # Refused
  PROVE  MadeOf(d, Marked(n + 1, Apply(n + 1, e)))
<1> DEFINE i == n + 1
           f == Apply(i, e)
           P == Introduces(i)
<1>0. IsDatabase(e) /\ e.applied = 1..n /\ n \in 0..29
  BY DEF MadeOf, UpTo
<1>1. Regrants(e, f, P)
  BY <1>0, PlainRegrants
<1>2. i \in Ids /\ i \notin d.applied
  <2>1. d.applied \subseteq 1..n
    BY <1>0 DEF MadeOf
  <2> QED BY <1>0, <2>1 DEF Ids
<1>3. P \cap d.catalog = {}
  BY <1>2 DEF LeftByARelease
<1>4. "content" \notin P /\ (i = 30 => P = {})
  BY <1>2, IntroducedAre DEF Ids
<1>5. i \notin {13, 21, 22, 24, 25, 27, 29}
  BY DEF Plain
<1> HIDE DEF f, P
<1>6. \A r \in DOMAIN e.role : \A p \in f.role[r].permissions \cap d.catalog :
        p \in e.role[r].permissions \/ (p = "access" /\ r \in {"owner", "content"})
  BY <1>1, <1>3 DEF Regrants
<1>7. MadeOf(d, Marked(n + 1, f))
  BY <1>0, <1>1, <1>4, <1>5, <1>6, RegrantedIsMade
<1> QED BY <1>7 DEF f

\* 0027: the owner and Content Administrators get back the access to apps.
LEMMA AdminAppAccessIsMade ==
  ASSUME NEW d, NEW e, MadeOf(d, e), UpTo(e, 26)
  PROVE  MadeOf(d, Marked(27, AdminAppAccess(e)))
<1> DEFINE P == {"access"}
           g == Granting(e, {"owner", "content"}, P)
           f == AdminAppAccess(e)
<1>0. IsDatabase(e)
  BY DEF MadeOf
<1> HIDE DEF P
<1>1. /\ Regrants(e, g, P)
      /\ \A r \in DOMAIN e.role : g.role[r].permissions =
           e.role[r].permissions \cup (IF r \in {"owner", "content"} THEN P ELSE {})
  <2>1. ASSUME NEW r \in DOMAIN e.role
        PROVE  g.role[r].permissions =
                 e.role[r].permissions \cup (IF r \in {"owner", "content"} THEN P ELSE {})
    BY <1>0, GrantingGives
  <2>2. Regrants(e, g, P)
    BY <1>0, GrantingRegrants
  <2> HIDE DEF g
  <2> QED BY <2>1, <2>2
<1>2. IsDatabase(g) /\ DOMAIN g.role = DOMAIN e.role
  BY <1>0, <1>1, RegrantedIsDatabase
<1>3. f = Entrusting(g, {"owner", "content"}, P)
  BY Zenon DEF AdminAppAccess, P
<1> HIDE DEF g, f
<1>4. Regrants(g, f, P) /\ \A r \in DOMAIN g.role : f.role[r].permissions = g.role[r].permissions
  BY <1>2, <1>3, EntrustingRegrants
<1>5. Regrants(e, f, P)
  BY <1>0, <1>1, <1>4, RegrantsCompose
<1>6. \A r \in DOMAIN e.role : \A p \in f.role[r].permissions \cap d.catalog :
        p \in e.role[r].permissions \/ (p = "access" /\ r \in {"owner", "content"})
  BY <1>1, <1>2, <1>4 DEF P
<1>7. "access" \in f.role["owner"].permissions
  <2>1. "owner" \in DOMAIN e.role
    BY <1>0 DEF IsDatabase
  <2> QED BY <1>1, <1>2, <1>4, <2>1 DEF P
<1>8. MadeOf(d, Marked(26 + 1, f))
  <2>1. "content" \notin P /\ 26 < 30 /\ 26 + 1 \notin {13, 21, 22, 24, 25} /\ 26 + 1 # 30 /\ 26 + 1 # 29
    BY DEF P
  <2> QED BY <1>5, <1>6, <1>7, <2>1, RegrantedIsMade
<1> QED BY <1>8 DEF f

\* 0029: who can open apps can read their pages.
LEMMA AdminAppPagesIsMade ==
  ASSUME NEW d, NEW e, LeftByARelease(d), MadeOf(d, e), UpTo(e, 28)
  PROVE  MadeOf(d, Marked(29, AdminAppPages(e)))
<1> DEFINE P == {"page"}
           having == {"owner", "content"} \cup {r \in DOMAIN e.role : "access" \in e.role[r].permissions}
           delegating == {"owner", "content"} \cup {r \in DOMAIN e.role : "access" \in e.role[r].delegates}
           known == Cataloged(e, P)
           g == Granting(known, having, P)
           f == AdminAppPages(e)
<1>0. IsDatabase(e) /\ e.applied = 1..28
  BY DEF MadeOf, UpTo
<1> HIDE DEF P, having
<1>1. Regrants(e, known, P)
  BY <1>0, CatalogedRegrants
<1>2. IsDatabase(known) /\ known.role = e.role
  <2>1. known.role = e.role
    BY <1>0 DEF Cataloged, IsDatabase
  <2> QED BY <1>0, <1>1, <2>1, RegrantedIsDatabase
<1>3. f = Entrusting(g, delegating, P)
  BY Zenon DEF AdminAppPages, P, having
<1> HIDE DEF known, f, delegating
<1>4. /\ Regrants(known, g, P)
      /\ \A r \in DOMAIN e.role : g.role[r].permissions =
           e.role[r].permissions \cup (IF r \in having THEN P ELSE {})
  <2>1. ASSUME NEW r \in DOMAIN known.role
        PROVE  g.role[r].permissions =
                 known.role[r].permissions \cup (IF r \in having THEN P ELSE {})
    BY <1>2, GrantingGives
  <2>2. Regrants(known, g, P)
    BY <1>2, GrantingRegrants
  <2> HIDE DEF g
  <2> QED BY <1>2, <2>1, <2>2
<1>5. IsDatabase(g) /\ DOMAIN g.role = DOMAIN e.role
  BY <1>2, <1>4, RegrantedIsDatabase
<1> HIDE DEF g
<1>6. Regrants(g, f, P) /\ \A r \in DOMAIN g.role : f.role[r].permissions = g.role[r].permissions
  BY <1>3, <1>5, EntrustingRegrants
<1>7. Regrants(e, f, P)
  <2>1. Regrants(e, g, P)
    BY <1>0, <1>1, <1>4, RegrantsCompose
  <2> QED BY <1>0, <1>6, <2>1, RegrantsCompose
<1>8. "page" \notin d.catalog
  <2>1. 29 \in Ids \ d.applied
    BY <1>0 DEF MadeOf, Ids
  <2> QED BY <2>1, IntroducedAre DEF LeftByARelease
<1>9. \A r \in DOMAIN e.role : \A p \in f.role[r].permissions \cap d.catalog :
        p \in e.role[r].permissions \/ (p = "access" /\ r \in {"owner", "content"})
  BY <1>4, <1>5, <1>6, <1>8 DEF P
<1>10. PagesFollow(f)
  <2>1. DOMAIN f.role = DOMAIN e.role
    BY <1>5, <1>6 DEF Regrants
  <2>2. ASSUME NEW r \in DOMAIN e.role, "access" \in f.role[r].permissions
        PROVE  "page" \in f.role[r].permissions
    <3>1. f.role[r].permissions = e.role[r].permissions \cup (IF r \in having THEN P ELSE {})
      BY <1>4, <1>5, <1>6
    <3>2. CASE r \in having
      BY <3>1, <3>2 DEF P
    <3>3. CASE r \notin having
      BY <2>2, <3>1, <3>3 DEF having
    <3> QED BY <3>2, <3>3
  <2> QED BY <2>1, <2>2 DEF PagesFollow
<1>11. MadeOf(d, Marked(28 + 1, f))
  <2>1. "content" \notin P /\ 28 < 30 /\ 28 + 1 \notin {13, 21, 22, 24, 25} /\ 28 + 1 # 30 /\ 28 + 1 # 27
    BY DEF P
  <2> QED BY <1>7, <1>9, <1>10, <2>1, RegrantedIsMade
<1> QED BY <1>11 DEF f

\* 0022 leaves the system realm, and a policy nobody has seeded, alone.
LEMMA NoRealmOwnersIsMade ==
  ASSUME NEW d, NEW e, LeftByARelease(d), MadeOf(d, e), UpTo(e, 21), e.kind = "system" \/ e.revision = 0
  PROVE  MadeOf(d, Marked(22, e))
<1> DEFINE m == Marked(22, e)
<1>0. /\ IsDatabase(e) /\ IsKept(e) /\ e.applied = 1..21 /\ e.kind = d.kind
      /\ (e.revision > 0) <=> (d.revision > 0)
  BY DEF MadeOf, UpTo
<1>1. /\ m.applied = 1..22 /\ m.kind = e.kind /\ m.revision = e.revision
      /\ m.sessions = e.sessions /\ m.person = e.person /\ m.fullAccess = e.fullAccess
  BY <1>0, MarkedIs
<1> HIDE DEF m
<1>2. IsKept(m)
  <2>1. 13 \in e.applied /\ 21 \in e.applied /\ 24 \notin m.applied /\ 24 \notin e.applied
    BY <1>0, <1>1
  <2>2. ~(m.kind = "content" /\ m.revision > 0)
    BY <1>1
  <2> QED BY <1>0, <1>1, <2>1, <2>2 DEF IsKept
<1>3. ~(d.kind = "content" /\ d.revision > 0)
  BY <1>0
<1>4. 25 \notin e.applied \cup {21 + 1}
  BY <1>0
<1>5. MadeOf(d, Marked(21 + 1, e))
  BY <1>0, <1>2, <1>3, <1>4, RewrittenIsMade DEF m
<1> QED BY <1>5

\* 0022 otherwise: what it makes of the roles and the bindings.
RootedRoles(e) ==
    [r \in DOMAIN e.role \cup {"root"} |-> IF r = "root" THEN e.role["owner"] ELSE e.role[r]]
RootedBindings(e) ==
    {b \in e.bindings : b.role # "root" /\ b.id # "system-policy-root"}
    \cup {OnRoot("system-policy-root", Provisioner, "root")}
OwnersKept(e) ==
    LET of(id) == {b \in RootedBindings(e) : b.id = id /\ b.who \in EligibleOwners(e)}
    IN IF of("primary-owner") # {} THEN of("primary-owner") ELSE of("owner")
SettledBindings(e) ==
    {b \in RootedBindings(e) : b.role # "owner" /\ b.id # "primary-owner" /\ b \notin OwnersKept(e)}
    \cup {OnRoot("primary-owner", b.who, "owner") : b \in OwnersKept(e)}

LEMMA RealmOwnersAre ==
  ASSUME NEW e, IsDatabase(e), ~(e.kind = "system" \/ e.revision = 0), RealmOwners(e) # Refused
  PROVE  /\ FoundationIsSound(e)
         /\ RealmOwners(e) =
              [tables |-> e.tables, applied |-> e.applied, kind |-> e.kind, revision |-> e.revision + 1,
               catalog |-> e.catalog, role |-> RootedRoles(e), provisioner |-> e.provisioner,
               subjects |-> e.subjects, bindings |-> SettledBindings(e), sessions |-> e.sessions,
               person |-> e.person, auth |-> e.auth, ceiling |-> e.ceiling,
               enforced |-> e.enforced, fullAccess |-> e.fullAccess]
<1> DEFINE f1 == RootGranted(e)
           f2 == OwnersSettled(f1)
           f == RealmOwners(e)
<1>1. FoundationIsSound(e) /\ f = [f2 EXCEPT !.revision = f2.revision + 1]
  BY Zenon DEF RealmOwners
<1>2. f1 = [e EXCEPT !.role = RootedRoles(e), !.bindings = RootedBindings(e)]
  BY Zenon DEF RootGranted, RootedRoles, RootedBindings
<1>3. f1 =   [tables |-> e.tables, applied |-> e.applied, kind |-> e.kind, revision |-> e.revision,
               catalog |-> e.catalog, role |-> RootedRoles(e), provisioner |-> e.provisioner,
               subjects |-> e.subjects, bindings |-> RootedBindings(e), sessions |-> e.sessions,
               person |-> e.person, auth |-> e.auth, ceiling |-> e.ceiling,
               enforced |-> e.enforced, fullAccess |-> e.fullAccess]
  BY <1>2 DEF IsDatabase
<1>4. EligibleOwners(f1) = EligibleOwners(e)
  BY <1>3 DEF EligibleOwners
<1>5. f1.bindings = RootedBindings(e)
  BY <1>3
<1>6. f2 = [f1 EXCEPT !.bindings = SettledBindings(e)]
  BY <1>4, <1>5, Zenon DEF OwnersSettled, SettledBindings, OwnersKept
<1> HIDE DEF f1
<1>7. f2 =   [tables |-> e.tables, applied |-> e.applied, kind |-> e.kind, revision |-> e.revision,
               catalog |-> e.catalog, role |-> RootedRoles(e), provisioner |-> e.provisioner,
               subjects |-> e.subjects, bindings |-> SettledBindings(e), sessions |-> e.sessions,
               person |-> e.person, auth |-> e.auth, ceiling |-> e.ceiling,
               enforced |-> e.enforced, fullAccess |-> e.fullAccess]
  BY <1>3, <1>6
<1> HIDE DEF f2
<1>8. f =    [tables |-> e.tables, applied |-> e.applied, kind |-> e.kind, revision |-> e.revision + 1,
               catalog |-> e.catalog, role |-> RootedRoles(e), provisioner |-> e.provisioner,
               subjects |-> e.subjects, bindings |-> SettledBindings(e), sessions |-> e.sessions,
               person |-> e.person, auth |-> e.auth, ceiling |-> e.ceiling,
               enforced |-> e.enforced, fullAccess |-> e.fullAccess]
  BY <1>1, <1>7
<1> QED BY <1>1, <1>8 DEF f

\* Ids being keys, at most one binding is kept, of someone chosen who is fit.
LEMMA OneIsKept ==
  ASSUME NEW e, IdsAreKeys(e)
  PROVE  /\ \A b \in OwnersKept(e) :
              /\ b \in e.bindings /\ b.id \in {"owner", "primary-owner"} /\ Takes(e, b)
              /\ b.who \in EligibleOwners(e) /\ ChosenOwner(e, b.who)
         /\ \A b1, b2 \in OwnersKept(e) : b1 = b2
<1> DEFINE of(id) == {b \in RootedBindings(e) : b.id = id /\ b.who \in EligibleOwners(e)}
<1>1. ASSUME NEW id \in {"owner", "primary-owner"}, NEW b \in of(id)
      PROVE  b \in e.bindings /\ b.id = id /\ b.who \in EligibleOwners(e)
  BY <1>1 DEF RootedBindings, OnRoot
<1> HIDE DEF of
<1>2. OwnersKept(e) \in {of("owner"), of("primary-owner")}
  BY Zenon DEF OwnersKept, of
<1>3. PICK id \in {"owner", "primary-owner"} : OwnersKept(e) = of(id)
  BY <1>2, Zenon
<1>4. ASSUME NEW b \in OwnersKept(e)
      PROVE  /\ b \in e.bindings /\ b.id = id /\ Takes(e, b)
             /\ b.who \in EligibleOwners(e) /\ ChosenOwner(e, b.who)
  <2>1. b \in e.bindings /\ b.id = id /\ b.who \in EligibleOwners(e)
    BY <1>1, <1>3
  <2>2. Fit(e, b.who)
    BY <2>1, Zenon DEF EligibleOwners, Fit
  <2>3. Takes(e, b)
    BY <1>3, <2>1, <2>2 DEF Takes
  <2>4. ChosenOwner(e, b.who)
    BY <1>3, <2>1, <2>2, Zenon DEF ChosenOwner
  <2> QED BY <2>1, <2>3, <2>4
<1> QED BY <1>3, <1>4 DEF IdsAreKeys

\* The bindings after 0022.
LEMMA SettledBindingsAre ==
  ASSUME NEW e, IdsAreKeys(e)
  PROVE  /\ OnRoot("system-policy-root", Provisioner, "root") \in SettledBindings(e)
         /\ \A b \in SettledBindings(e) :
              \/ b \in e.bindings /\ b.role \notin {"owner", "root"}
              \/ b = OnRoot("system-policy-root", Provisioner, "root")
              \/ b = OnRoot("primary-owner", b.who, "owner") /\ \E k \in OwnersKept(e) : k.who = b.who
         /\ \A b \in e.bindings : ~Takes(e, b) => b \in SettledBindings(e)
         /\ Cardinality({b \in SettledBindings(e) : b.role = "owner"}) <= 1
<1> DEFINE root == OnRoot("system-policy-root", Provisioner, "root")
           B == SettledBindings(e)
           owners == {b \in B : b.role = "owner"}
<1>1. /\ root.role = "root" /\ root.id = "system-policy-root" /\ root.who = Provisioner
      /\ \A w : LET o == OnRoot("primary-owner", w, "owner") IN o.role = "owner" /\ o.who = w
  BY DEF OnRoot
<1> HIDE DEF root
<1>2. root \in B
  <2>1. root \notin OwnersKept(e)
    BY <1>1, OneIsKept
  <2>2. root \in RootedBindings(e)
    BY DEF RootedBindings, root
  <2> QED BY <1>1, <2>1, <2>2 DEF SettledBindings
<1>3. ASSUME NEW b \in B
      PROVE  \/ b \in e.bindings /\ b.role \notin {"owner", "root"}
             \/ b = root
             \/ b = OnRoot("primary-owner", b.who, "owner") /\ \E k \in OwnersKept(e) : k.who = b.who
  <2>1. CASE b \in RootedBindings(e) /\ b.role # "owner"
    BY <2>1 DEF RootedBindings, root
  <2>2. CASE \E k \in OwnersKept(e) : b = OnRoot("primary-owner", k.who, "owner")
    BY <2>2, <1>1
  <2> QED BY <2>1, <2>2 DEF SettledBindings
<1>4. ASSUME NEW b \in e.bindings, ~Takes(e, b)
      PROVE  b \in B
  <2>1. /\ b.id \notin {"primary-owner", "system-policy-root"} /\ b \notin OwnersKept(e)
        /\ b.role \notin {"owner", "root"}
    BY <1>4, OneIsKept DEF Takes
  <2> QED BY <1>4, <2>1 DEF SettledBindings, RootedBindings
<1>5. Cardinality(owners) <= 1
  <2>1. \A b1, b2 \in owners : b1 = b2
    <3>1. ASSUME NEW b \in owners
          PROVE  b = OnRoot("primary-owner", b.who, "owner") /\ \E k \in OwnersKept(e) : k.who = b.who
      BY <1>1, <1>3
    <3> QED BY <3>1, OneIsKept
  <2> HIDE DEF owners
  <2>2. CASE owners = {}
    <3>1. Cardinality(owners) = 0
      BY <2>2, FS_EmptySet
    <3> QED BY <3>1
  <2>3. CASE owners # {}
    <3>1. PICK b : b \in owners
      BY <2>3
    <3>2. owners = {b}
      BY <2>1, <3>1
    <3>3. Cardinality({b}) = 1
      BY FS_Singleton
    <3> QED BY <3>2, <3>3
  <2> QED BY <2>2, <2>3
<1> QED BY <1>2, <1>3, <1>4, <1>5 DEF root

\* 0022: the root role is given to the provisioner, the owner is settled.
LEMMA RealmOwnersIsMade ==
  ASSUME NEW d, NEW e, LeftByARelease(d), MadeOf(d, e), UpTo(e, 21), RealmOwners(e) # Refused
  PROVE  MadeOf(d, Marked(22, RealmOwners(e)))
<1> DEFINE f == RealmOwners(e)
           m == Marked(22, f)
<1>0. /\ IsDatabase(e) /\ IsKept(e) /\ e.applied = 1..21 /\ e.kind = d.kind
      /\ e.subjects = d.subjects /\ e.auth = d.auth
      /\ (e.revision > 0) <=> (d.revision > 0)
      /\ d.applied \subseteq 1..21
  BY DEF MadeOf, UpTo
<1>1. CASE e.kind = "system" \/ e.revision = 0
  <2>1. f = e
    BY <1>1, Zenon DEF RealmOwners
  <2> QED BY <1>1, <2>1, NoRealmOwnersIsMade
<1>2. CASE ~(e.kind = "system" \/ e.revision = 0)
  <2>1. e.kind = "content" /\ e.revision \in Nat /\ e.revision > 0 /\ e.revision + 1 > 0
        /\ "owner" \in DOMAIN e.role
    BY <1>0, <1>2 DEF IsDatabase
  <2>2. 22 \notin d.applied /\ e.person = d.person /\ e.bindings = d.bindings /\ IdsAreKeys(d)
    <3>0. 22 \notin 1..21
      OBVIOUS
    <3>1. 22 \notin e.applied /\ 22 \notin d.applied
      BY <1>0, <3>0, Zenon
    <3> QED BY <1>0, <2>1, <3>1 DEF MadeOf, BindingsStay, Settled, LeftByARelease
  <2>3. IdsAreKeys(e)
    BY <2>2, Zenon DEF IdsAreKeys
  <2>4. /\ FoundationIsSound(e)
        /\ f = [tables |-> e.tables, applied |-> e.applied, kind |-> e.kind, revision |-> e.revision + 1,
               catalog |-> e.catalog, role |-> RootedRoles(e), provisioner |-> e.provisioner,
               subjects |-> e.subjects, bindings |-> SettledBindings(e), sessions |-> e.sessions,
               person |-> e.person, auth |-> e.auth, ceiling |-> e.ceiling,
               enforced |-> e.enforced, fullAccess |-> e.fullAccess]
    BY <1>0, <1>2, RealmOwnersAre
  <2> HIDE DEF f
  <2>5. /\ f.applied = e.applied /\ f.kind = e.kind /\ f.revision = e.revision + 1
        /\ f.role = RootedRoles(e) /\ f.provisioner = e.provisioner /\ f.subjects = e.subjects
        /\ f.bindings = SettledBindings(e) /\ f.sessions = e.sessions /\ f.person = e.person
        /\ f.auth = e.auth /\ f.ceiling = e.ceiling /\ f.fullAccess = e.fullAccess
    BY <2>4
  <2>6. /\ DOMAIN RootedRoles(e) = DOMAIN e.role \cup {"root"}
        /\ RootedRoles(e)["root"] = e.role["owner"]
        /\ \A r \in DOMAIN e.role : r # "root" => RootedRoles(e)[r] = e.role[r]
    BY DEF RootedRoles
  <2>7. IsDatabase(f)
    <3>1. RootedRoles(e) = [r \in DOMAIN RootedRoles(e) |->
             [permissions |-> RootedRoles(e)[r].permissions, delegates |-> RootedRoles(e)[r].delegates]]
      <4>1. \A r \in DOMAIN e.role :
              e.role[r] = [permissions |-> e.role[r].permissions, delegates |-> e.role[r].delegates]
        BY <1>0, Zenon DEF IsDatabase
      <4>2. \A r \in DOMAIN RootedRoles(e) : RootedRoles(e)[r] =
             [permissions |-> RootedRoles(e)[r].permissions, delegates |-> RootedRoles(e)[r].delegates]
        BY <2>1, <2>6, <4>1
      <4>3. RootedRoles(e) = [r \in DOMAIN RootedRoles(e) |-> RootedRoles(e)[r]]
        BY DEF RootedRoles
      <4> QED BY <4>2, <4>3
    <3>2. ASSUME NEW b \in SettledBindings(e)
          PROVE  b.role \in DOMAIN RootedRoles(e) /\ b.propagation \in {"self", "children", "self-and-children"}
      <4>1. CASE b \in e.bindings
        BY <1>0, <2>6, <4>1 DEF IsDatabase
      <4>2. CASE b = OnRoot("system-policy-root", Provisioner, "root") \/ b = OnRoot("primary-owner", b.who, "owner")
        BY <2>1, <2>6, <4>2 DEF OnRoot
      <4> QED BY <4>1, <4>2, <2>3, SettledBindingsAre
    <3>3. "owner" \in DOMAIN RootedRoles(e)
      BY <2>1, <2>6
    <3> QED BY <1>0, <2>1, <2>4, <2>5, <3>1, <3>2, <3>3 DEF IsDatabase
  <2>8. /\ IsDatabase(m) /\ m.applied = 1..22 /\ m.kind = "content" /\ m.revision > 0
        /\ m.role = RootedRoles(e) /\ m.provisioner = e.provisioner /\ m.subjects = d.subjects
        /\ m.bindings = SettledBindings(e) /\ m.sessions = e.sessions /\ m.person = e.person
        /\ m.auth = d.auth /\ m.fullAccess = e.fullAccess
    <3>1. e.applied \cup {22} = 1..22
      BY <1>0
    <3> QED BY <1>0, <2>1, <2>5, <2>7, <3>1, MarkedIs
  <2> HIDE DEF m
  <2>9. OwnersAreSettled(m)
    <3> DEFINE owners == {b \in m.bindings : b.role = "owner"}
    <3>1. /\ m.provisioner = "service-account"
          /\ {"manage", "apply", "assign"} \subseteq m.role["owner"].permissions
          /\ "root" \in DOMAIN m.role /\ "manage" \in m.role["root"].permissions
      BY <2>1, <2>4, <2>6, <2>8 DEF FoundationIsSound
    <3>2. OnRoot("system-policy-root", Provisioner, "root") \in m.bindings /\ Cardinality(owners) <= 1
      BY <2>3, <2>8, SettledBindingsAre
    <3>3. ASSUME NEW b \in owners
          PROVE  b = OnRoot("primary-owner", b.who, "owner") /\ m.person[b.who].subject
      <4>1. OnRoot("system-policy-root", Provisioner, "root").role = "root"
        BY DEF OnRoot
      <4>2. b = OnRoot("primary-owner", b.who, "owner") /\ \E k \in OwnersKept(e) : k.who = b.who
        BY <2>3, <2>8, <4>1, SettledBindingsAre
      <4>3. b.who \in EligibleOwners(e)
        BY <2>3, <4>2, OneIsKept
      <4> QED BY <2>8, <4>2, <4>3 DEF EligibleOwners
    <3> QED BY <3>1, <3>2, <3>3 DEF OwnersAreSettled
  <2>10. IsKept(m)
    <3>1. 21 \in e.applied /\ 24 \notin m.applied /\ 24 \notin e.applied /\ 27 \notin m.applied
      BY <1>0, <2>8
    <3>2. \A g \in m.fullAccess : g.to = "identity" /\ g.why = "none"
      BY <1>0, <2>8, <3>1 DEF IsKept
    <3>3. m.kind # "system"
      BY <2>8
    <3> QED BY <2>9, <3>1, <3>2, <3>3, Zenon DEF IsKept
  <2>11. Settled(d, m)
    BY <1>0, <2>1, <2>2, <2>8 DEF Settled
  <2>12. RolesGrow(d, m)
    <3>1. RolesGrow(d, e)
      BY DEF MadeOf
    <3>2. DOMAIN d.role \subseteq DOMAIN m.role
      BY <2>6, <2>8, <3>1 DEF RolesGrow
    <3>3. \A r \in DOMAIN d.role : r # "root" => m.role[r] = e.role[r]
      BY <2>6, <2>8, <3>1 DEF RolesGrow
    <3> QED BY <2>11, <3>1, <3>2, <3>3 DEF RolesGrow
  <2>13. BindingsStay(d, m)
    <3>1. ASSUME NEW b \in m.bindings
          PROVE  (b \in d.bindings /\ b.role # "root") \/ b.who = Provisioner \/ ChosenOwner(d, b.who)
      <4>1. CASE b \in e.bindings /\ b.role \notin {"owner", "root"}
        BY <2>2, <4>1
      <4>2. CASE b = OnRoot("system-policy-root", Provisioner, "root")
        BY <4>2 DEF OnRoot
      <4>3. CASE \E k \in OwnersKept(e) : k.who = b.who
        <5>1. ChosenOwner(e, b.who)
          BY <2>3, <4>3, OneIsKept
        <5>2. ChosenOwner(d, b.who)
          BY <1>0, <2>2, <5>1, Zenon DEF ChosenOwner, Fit
        <5> QED BY <5>2
      <4> QED BY <4>1, <4>2, <4>3, <2>3, <2>8, SettledBindingsAre
    <3>2. ASSUME NEW b \in d.bindings, ~Takes(d, b)
          PROVE  b \in m.bindings
      <4>1. ~Takes(e, b)
        BY <1>0, <2>2, <3>2, Zenon DEF Takes, Fit
      <4> QED BY <2>2, <2>3, <2>8, <4>1, SettledBindingsAre
    <3> QED BY <2>11, <3>1, <3>2, Zenon DEF BindingsStay
  <2>14. UpTo(m, 22) /\ 22 \in 0..30 /\ 25 \notin m.applied /\ 29 \notin m.applied /\ d.applied \subseteq m.applied
    BY <1>0, <2>8 DEF UpTo
  <2>15. MadeOf(d, m)
    BY <1>0, <2>1, <2>2, <2>8, <2>10, <2>12, <2>13, <2>14 DEF MadeOf
  <2> QED BY <2>15 DEF m, f
<1> QED BY <1>1, <1>2

-----------------------------------------------------------------------------
\* The next migration, whichever it is.
LEMMA NextIsMade ==
  ASSUME NEW d, NEW e, LeftByARelease(d), MadeOf(d, e), Pending(e) # {},
         Apply(Earliest(Pending(e)), e) # Refused
  PROVE  MadeOf(d, Marked(Earliest(Pending(e)), Apply(Earliest(Pending(e)), e)))
<1>1. PICK n \in 0..30 : UpTo(e, n)
  BY DEF MadeOf
<1>2. e.applied = 1..n
  BY <1>1 DEF UpTo
<1>3. n < 30 /\ Earliest(Pending(e)) = n + 1
  <2>1. Pending(e) = (n + 1)..30
    <3>1. \A x : x \in Pending(e) <=> x \in Ids /\ x \notin e.applied
      BY DEF Pending
    <3>2. \A x : x \in Ids /\ x \notin 1..n <=> x \in (n + 1)..30
      BY <1>1 DEF Ids
    <3> QED BY <1>2, <3>1, <3>2
  <2>2. n < 30
    BY <2>1
  <2>3. n + 1 \in Pending(e) /\ \A j \in Pending(e) : n + 1 <= j
    BY <2>1, <2>2
  <2>4. ASSUME NEW i \in Pending(e), \A j \in Pending(e) : i <= j
        PROVE  i = n + 1
    <3>1. i <= n + 1 /\ n + 1 <= i
      BY <2>3, <2>4
    <3>2. i \in Int /\ n + 1 \in Int
      BY <1>1, <2>1
    <3> QED BY <3>1, <3>2
  <2>5. Earliest(Pending(e)) = n + 1
    BY <2>3, <2>4 DEF Earliest
  <2> QED BY <2>2, <2>5
<1>4. Apply(n + 1, e) # Refused
  BY <1>3
<1>5. n + 1 \in Plain \/ n \in {12, 20, 21, 23, 24, 26, 27, 28}
  BY <1>3 DEF Plain, Ids
<1>6. CASE n + 1 \in Plain
  <2>1. MadeOf(d, Marked(n + 1, Apply(n + 1, e)))
    BY <1>1, <1>3, <1>4, <1>6, PlainIsMade
  <2> QED BY <1>3, <2>1
<1>7. CASE n = 12
  <2>1. Apply(13, e) = IdentityRealms(e) /\ Earliest(Pending(e)) = 13 /\ UpTo(e, 12)
    BY <1>1, <1>3, <1>7, MigrationsAre
  <2>2. MadeOf(d, Marked(13, IdentityRealms(e)))
    BY <2>1, IdentityRealmsIsMade
  <2> QED BY <2>1, <2>2
<1>8. CASE n = 20
  <2>1. Apply(21, e) = ControlPlaneAccess(e) /\ Earliest(Pending(e)) = 21 /\ UpTo(e, 20)
    BY <1>1, <1>3, <1>8, MigrationsAre
  <2>2. MadeOf(d, Marked(21, ControlPlaneAccess(e)))
    BY <2>1, ControlPlaneAccessIsMade
  <2> QED BY <2>1, <2>2
<1>9. CASE n = 21
  <2>1. Apply(22, e) = RealmOwners(e) /\ Earliest(Pending(e)) = 22 /\ UpTo(e, 21)
    BY <1>1, <1>3, <1>9, MigrationsAre
  <2>2. MadeOf(d, Marked(22, RealmOwners(e)))
    BY <2>1, RealmOwnersIsMade
  <2> QED BY <2>1, <2>2
<1>10. CASE n = 23
  <2>1. Apply(24, e) = FullAccessLifecycle(e) /\ Earliest(Pending(e)) = 24 /\ UpTo(e, 23)
    BY <1>1, <1>3, <1>10, MigrationsAre
  <2>2. MadeOf(d, Marked(24, FullAccessLifecycle(e)))
    BY <2>1, FullAccessLifecycleIsMade
  <2> QED BY <2>1, <2>2
<1>11. CASE n = 24
  <2>1. Apply(25, e) = CollectionEntitlements(e) /\ Earliest(Pending(e)) = 25 /\ UpTo(e, 24)
    BY <1>1, <1>3, <1>11, MigrationsAre
  <2>2. MadeOf(d, Marked(25, CollectionEntitlements(e)))
    BY <2>1, CollectionEntitlementsIsMade
  <2> QED BY <2>1, <2>2
<1>12. CASE n = 26
  <2>1. Apply(27, e) = AdminAppAccess(e) /\ Earliest(Pending(e)) = 27 /\ UpTo(e, 26)
    BY <1>1, <1>3, <1>12, MigrationsAre
  <2>2. MadeOf(d, Marked(27, AdminAppAccess(e)))
    BY <2>1, AdminAppAccessIsMade
  <2> QED BY <2>1, <2>2
<1>13. CASE n = 27
  <2>1. Apply(28, e) = EntitlementCleanup(e) /\ Earliest(Pending(e)) = 28 /\ UpTo(e, 27)
    BY <1>1, <1>3, <1>13, MigrationsAre
  <2>2. MadeOf(d, Marked(28, EntitlementCleanup(e)))
    BY <2>1, EntitlementCleanupIsMade
  <2> QED BY <2>1, <2>2
<1>14. CASE n = 28
  <2>1. Apply(29, e) = AdminAppPages(e) /\ Earliest(Pending(e)) = 29 /\ UpTo(e, 28)
    BY <1>1, <1>3, <1>14, MigrationsAre
  <2>2. MadeOf(d, Marked(29, AdminAppPages(e)))
    BY <2>1, AdminAppPagesIsMade
  <2> QED BY <2>1, <2>2
<1> QED BY <1>5, <1>6, <1>7, <1>8, <1>9, <1>10, <1>11, <1>12, <1>13, <1>14

\* A transaction begins with the database as it is.
LEMMA NothingIsMade ==
  ASSUME NEW d, LeftByARelease(d)
  PROVE  MadeOf(d, d)
<1>1. ~Settled(d, d)
  BY DEF Settled
<1>2. RolesGrow(d, d) /\ BindingsStay(d, d)
  BY <1>1 DEF RolesGrow, BindingsStay
<1>3. IsDatabase(d) /\ IsKept(d) /\ \E n \in 0..30 : UpTo(d, n)
  BY DEF LeftByARelease, UpTo
<1> QED BY <1>2, <1>3, Zenon DEF MadeOf

\* What is made of a database with every migration is one a release may leave.
LEMMA AllIsMade ==
  ASSUME NEW d, NEW e, LeftByARelease(d), MadeOf(d, e), Pending(e) = {}
  PROVE  e.applied = Ids /\ LeftByARelease(e)
<1>1. PICK n \in 0..30 : UpTo(e, n)
  BY DEF MadeOf
<1>2. e.applied = 1..n
  BY <1>1 DEF UpTo
<1>3. e.applied = Ids
  <2>1. 30 \in Ids /\ Ids \subseteq e.applied
    BY DEF Pending, Ids
  <2>2. n = 30
    BY <1>1, <1>2, <2>1
  <2> QED BY <1>2, <2>2 DEF Ids
<1>4. 22 \in e.applied /\ Ids \ e.applied = {}
  BY <1>3 DEF Ids
<1>5. \E k \in 0..30 : e.applied = 1..k
  BY <1>2
<1> QED BY <1>3, <1>4, <1>5 DEF MadeOf, LeftByARelease

LEMMA MadeGainsNothing ==
  ASSUME NEW d, NEW e, LeftByARelease(d), MadeOf(d, e)
  PROVE  NobodyGains(d, e)
<1> SUFFICES ASSUME NEW h \in People, NEW c \in Collections \cup {"root"}, NEW p \in d.catalog,
                    Holds(e, h, p, c), ~ChosenOwner(d, h)
             PROVE  \/ Holds(d, h, p, c)
                    \/ p = "access" /\ \E x \in d.bindings :
                          x.who = h /\ x.role \in {"owner", "content"} /\ Covers(x, c)
  BY Zenon DEF NobodyGains
<1>0. PICK b \in e.bindings : b.who = h /\ Covers(b, c) /\ p \in e.role[b.role].permissions
  BY Zenon DEF Holds, HoldsBy
<1>1. b \in d.bindings /\ ~(b.role = "root" /\ Settled(d, e))
  <2>1. b.who # Provisioner
    BY <1>0, DatabasesAssumption
  <2>2. BindingsStay(d, e)
    BY DEF MadeOf
  <2> QED BY <1>0, <2>1, <2>2 DEF BindingsStay
<1>2. b.role \in DOMAIN d.role
  BY <1>1 DEF LeftByARelease, IsDatabase
<1>3. p \in d.role[b.role].permissions \/ (p = "access" /\ b.role \in {"owner", "content"})
  <2>1. RolesGrow(d, e)
    BY DEF MadeOf
  <2> QED BY <1>0, <1>1, <1>2, <2>1 DEF RolesGrow
<1> QED BY <1>0, <1>1, <1>3, Zenon DEF Holds, HoldsBy

LEMMA MadeLosesNothing ==
  ASSUME NEW d, NEW e, LeftByARelease(d), MadeOf(d, e), e.applied = Ids
  PROVE  NobodyLoses(d, e)
<1>0. IsDatabase(d) /\ IsDatabase(e) /\ RolesGrow(d, e) /\ BindingsStay(d, e) /\ e.kind = d.kind
  BY DEF MadeOf, LeftByARelease
<1>1. ASSUME NEW h \in People, NEW c \in Collections \cup {"root"},
             NEW b \in d.bindings, NEW p \in d.catalog, HoldsBy(d, b, h, p, c), ~Takes(d, b)
      PROVE  Holds(e, h, p, c)
  <2>1. b \in e.bindings
    BY <1>0, <1>1 DEF BindingsStay
  <2>2. b.role \in DOMAIN d.role
    BY <1>0 DEF IsDatabase
  <2>3. d.role[b.role].permissions \subseteq e.role[b.role].permissions
    BY <1>0, <1>1, <2>2 DEF RolesGrow, Takes
  <2> QED BY <1>1, <2>1, <2>3 DEF Holds, HoldsBy
<1>2. ASSUME NEW h \in People, NEW c \in Collections \cup {"root"},
             Holds(e, h, "content", c), c \in Collections \ e.auth, e.kind = "content", 25 \notin d.applied
      PROVE  c \in DOMAIN e.ceiling /\ "content" \in e.ceiling[c]
  <2>1. CeilingsCover(e)
    BY <1>0, <1>2 DEF MadeOf, Ids
  <2> QED BY <1>2, <2>1 DEF CeilingsCover, Holds, HoldsBy
<1>3. ASSUME NEW h \in People, NEW c \in Collections \cup {"root"},
             Holds(e, h, "access", c), 29 \notin d.applied
      PROVE  Holds(e, h, "page", c)
  <2>1. PagesFollow(e)
    BY <1>3 DEF MadeOf, Ids
  <2>2. PICK b \in e.bindings : b.who = h /\ Covers(b, c) /\ "access" \in e.role[b.role].permissions
    BY <1>3, Zenon DEF Holds, HoldsBy
  <2>3. b.role \in DOMAIN e.role
    BY <1>0 DEF IsDatabase
  <2> QED BY <2>1, <2>2, <2>3 DEF PagesFollow, Holds, HoldsBy
<1> QED BY <1>1, <1>2, <1>3, Zenon DEF NobodyLoses

\* With every migration applied, what is kept is what a ready server finds.
LEMMA KeptIsUpgraded ==
  ASSUME UpgradesInv
  PROVE  ReadyIsUpgraded
<1> SUFFICES ASSUME ready # {}
             PROVE  /\ database.applied = Ids
                    /\ database.kind = "content" /\ database.revision > 0 => PolicyIsAccepted(database)
                    /\ database.kind = "system" =>
                         \A h \in database.sessions : database.person[h].system = "active"
                    /\ \A g \in database.fullAccess : g.to = "identity" /\ (g.ended <=> g.why # "none")
  BY DEF ReadyIsUpgraded
<1>1. database.applied = Ids /\ IsKept(database)
  BY DEF UpgradesInv, LeftByARelease
<1>2. {13, 21, 22, 24, 27} \subseteq database.applied
  BY <1>1 DEF Ids
<1> QED BY <1>1, <1>2 DEF IsKept, PolicyIsAccepted

\* What a transaction makes of the database is MadeOf it, whichever server
\* holds the lock and whoever rolled back before.
THEOREM MigrationsInvariance == MigrationsSpec => []UpgradesInv
<1>1. MigrationsInit => UpgradesInv
  BY DatabasesAssumption DEF MigrationsInit, UpgradesInv
<1>2. UpgradesInv /\ [MigrationsNext]_mvars => UpgradesInv'
  <2> SUFFICES ASSUME UpgradesInv, [MigrationsNext]_mvars
               PROVE  UpgradesInv'
    OBVIOUS
  <2>1. ASSUME NEW s \in Migrators, Begin(s)
        PROVE  UpgradesInv'
    <3>1. upgrade'.database = database /\ upgrade' = [by |-> upgrade'.by, database |-> upgrade'.database]
      BY <2>1 DEF Begin
    <3>2. MadeOf(database, database)
      BY NothingIsMade DEF UpgradesInv
    <3> QED BY <2>1, <3>1, <3>2 DEF Begin, UpgradesInv
  <2>2. ASSUME NEW s \in Migrators, ApplyMigration(s)
        PROVE  UpgradesInv'
    <3> DEFINE e == upgrade.database
               i == Earliest(Pending(e))
               after == Apply(i, e)
    <3>1. MadeOf(database, e) /\ Pending(e) # {} /\ LeftByARelease(database)
          /\ upgrade = [by |-> upgrade.by, database |-> e]
      BY <2>2 DEF ApplyMigration, UpgradesInv
    <3>2. /\ upgrade' = IF after = Refused THEN NoUpgrade ELSE [upgrade EXCEPT !.database = Marked(i, after)]
          /\ UNCHANGED <<database, ready>>
      BY <2>2, Zenon DEF ApplyMigration
    <3>3. CASE after = Refused
      BY <3>2, <3>3 DEF UpgradesInv
    <3>4. CASE after # Refused
      <4>1. MadeOf(database, Marked(i, after))
        BY <3>1, <3>4, NextIsMade
      <4> HIDE DEF i, after, e
      <4>2. upgrade'.database = Marked(i, after) /\ upgrade' = [by |-> upgrade'.by, database |-> upgrade'.database]
        BY <3>1, <3>2, <3>4
      <4> QED BY <3>2, <4>1, <4>2 DEF UpgradesInv
    <3> QED BY <3>3, <3>4
  <2>3. ASSUME NEW s \in Migrators, Commit(s)
        PROVE  UpgradesInv'
    <3>1. LeftByARelease(upgrade.database) /\ upgrade.database.applied = Ids
      BY <2>3, AllIsMade DEF Commit, UpgradesInv
    <3> QED BY <2>3, <3>1 DEF Commit, UpgradesInv
  <2>4. ASSUME NEW s \in Migrators, Rollback(s)
        PROVE  UpgradesInv'
    BY <2>4 DEF Rollback, UpgradesInv
  <2>5. CASE UNCHANGED mvars
    BY <2>5 DEF mvars, UpgradesInv
  <2> QED BY <2>1, <2>2, <2>3, <2>4, <2>5 DEF MigrationsNext
<1> QED BY <1>1, <1>2, PTL DEF MigrationsSpec

\* migrateCore (packages/database/src/migrate.ts), for every database an earlier release
\* may have left, servers and accounts: a server that starts finds a policy it
\* accepts and sessions of members only, and the upgrade gives nobody, and
\* takes from nobody, what 0022, 0025, 0027 and 0029 do not mean to.
THEOREM EveryUpgradeIsSound == MigrationsSpec => UpgradesAreSound
<1>1. UpgradesInv => ReadyIsUpgraded
  BY KeptIsUpgraded
<1>2. UpgradesInv /\ [MigrationsNext]_mvars =>
        [database' # database => NobodyGains(database, database') /\ NobodyLoses(database, database')]_mvars
  <2> SUFFICES ASSUME UpgradesInv, MigrationsNext, database' # database
               PROVE  NobodyGains(database, database') /\ NobodyLoses(database, database')
    BY DEF mvars
  <2>1. PICK s \in Migrators : Commit(s)
    BY DEF MigrationsNext, Begin, ApplyMigration, Rollback
  <2>2. /\ LeftByARelease(database) /\ MadeOf(database, upgrade.database)
        /\ Pending(upgrade.database) = {} /\ database' = upgrade.database
    BY <2>1 DEF Commit, UpgradesInv
  <2>3. upgrade.database.applied = Ids
    BY <2>2, AllIsMade
  <2> QED BY <2>2, <2>3, MadeGainsNothing, MadeLosesNothing
<1> QED BY <1>1, <1>2, MigrationsInvariance, PTL DEF MigrationsSpec, UpgradesAreSound
=============================================================================

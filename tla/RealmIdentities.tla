-------------------------- MODULE RealmIdentities --------------------------
(***************************************************************************)
(* Identities, their credentials and sessions, their memberships in one    *)
(* content realm, the owner of that realm and the owner of the workspace.  *)
(*                                                                         *)
(* Every transaction locks the identity or the membership it changes and   *)
(* is one step.  A login, a suspension and a change of the realm's owner   *)
(* take several: what they read may be out of date when they write.        *)
(*                                                                         *)
(* A row that states a revision or a credential version is compared by     *)
(* equality only, so a request keeps the set "stale" of what has changed   *)
(* since it read it.  A session is dropped when it is revoked or when its  *)
(* credential version is not the identity's any more: no lookup finds it.  *)
(* Left out: services and their keys, expiry, provisioning, system         *)
(* subjects disabled on their own, and who may ask (see PolicyAuthority).  *)
(***************************************************************************)
EXTENDS Naturals, FiniteSets

CONSTANTS Identities,   \* human identities of the workspace
          Operators,    \* those with a membership of the system realm
          FirstOwner,   \* the operator that bootstrap made owner
          Servers, None,
          MaxSessions   \* bound: live sessions

ASSUME RealmAssumption ==
    /\ FirstOwner \in Operators /\ Operators \subseteq Identities
    /\ None \notin Identities /\ MaxSessions \in Nat

VARIABLES
    enabled,          \* identities whose disabled_at is null
    workspaceOwners,  \* identities with is_owner
    member,           \* status of the membership of the content realm
    subjects,         \* identities whose subject of that realm is enabled
    active,           \* whether the status of the content realm is active
    owner,            \* the identity the primary owner binding leads to
    sessions,         \* the sessions a lookup may still find
    tokens,           \* identities with a live credential token
    request           \* what each server is busy with

vars == <<enabled, workspaceOwners, member, subjects, active, owner, sessions, tokens, request>>
realm == <<member, subjects, active, owner>>

Logins == {"admin-login", "content-login"}
Kinds == Logins \cup {"idle", "owner", "cleanup", "suspension"}
Facts == {"credentials", "password", "policy", "membership"}

Requests == [kind: Kinds, who: Identities \cup {None}, previous: Identities \cup {None},
             cleanup: {"keep", "revoke", "suspend"}, stale: SUBSET Facts]
Sessions == [who: Identities, content: BOOLEAN, password: {"current", "replaced"}]

Request(kind, i) ==
    [kind |-> kind, who |-> i, previous |-> None, cleanup |-> "keep", stale |-> {}]
Idle == Request("idle", None)

Starts(s, r) == request[s] = Idle /\ request' = [request EXCEPT ![s] = r]

(* What of a request goes stale when fact f of identity i changes.         *)
Concerns(r, f, i) ==
    \/ f = "password" /\ r.kind \in Logins /\ r.who = i
    \/ f = "credentials" /\ r.kind = "content-login" /\ r.who = i
    \/ f = "policy" /\ r.kind = "owner"
    \/ f = "membership" /\ \/ r.kind = "suspension" /\ r.who = i
                           \/ r.cleanup = "suspend" /\ r.previous = i

Outdated(facts, ids) ==
    [s \in Servers |-> [request[s] EXCEPT !.stale =
        @ \cup {f \in facts : \E i \in ids : Concerns(request[s], f, i)}]]

SessionsOf(i) == {x \in sessions : x.who = i}
ContentSessionsOf(i) == {x \in SessionsOf(i) : x.content}

-----------------------------------------------------------------------------
Init ==
    /\ enabled = Identities /\ workspaceOwners = {FirstOwner}
    /\ member = [i \in Identities |-> IF i = FirstOwner THEN "none" ELSE "active"]
    /\ subjects = Identities \ {FirstOwner}
    /\ active = TRUE /\ owner = None
    /\ sessions = {} /\ tokens = {}
    /\ request = [s \in Servers |-> Idle]

-----------------------------------------------------------------------------
(* Sessions *)

VerifyAdminLogin(s, i) ==
    /\ i \in enabled
    /\ Starts(s, Request("admin-login", i))
    /\ UNCHANGED <<enabled, workspaceOwners, realm, sessions, tokens>>

VerifyContentLogin(s, i) ==
    /\ active /\ i \in enabled /\ member[i] = "active"
    /\ Starts(s, Request("content-login", i))
    /\ UNCHANGED <<enabled, workspaceOwners, realm, sessions, tokens>>

OpenSession(s) ==
    /\ Cardinality(sessions) < MaxSessions
    /\ sessions' = sessions \cup
         {[who |-> request[s].who, content |-> request[s].kind = "content-login",
           password |-> IF "password" \in request[s].stale THEN "replaced" ELSE "current"]}
    /\ request' = [request EXCEPT ![s] = Idle]
    /\ UNCHANGED <<enabled, workspaceOwners, realm, tokens>>

(* createSession: the credential version is the one of this moment.        *)
IssueAdminSession(s) ==
    /\ request[s].kind = "admin-login"
    /\ request[s].who \in enabled \cap Operators
    /\ OpenSession(s)

\* Mutant of CredentialIsVerified: the version is that of the insertion.
CredentialIsAny(r) == TRUE

CredentialIsVerified(r) == "credentials" \notin r.stale

(* createContentSession *)
IssueContentSession(s) ==
    LET i == request[s].who
    IN /\ request[s].kind = "content-login"
       /\ active /\ i \in enabled \cap subjects /\ member[i] = "active"
       /\ CredentialIsVerified(request[s])
       /\ OpenSession(s)

(* Logout, and the revocation of one session by an administrator.          *)
EndSession(x) ==
    /\ sessions' = sessions \ {x}
    /\ UNCHANGED <<enabled, workspaceOwners, realm, tokens, request>>

-----------------------------------------------------------------------------
(* Credentials *)

(* The version moves on: what was opened or verified before is void.       *)
NewPassword(i) ==
    /\ sessions' = sessions \ SessionsOf(i)
    /\ tokens' = tokens \ {i}
    /\ request' = Outdated({"credentials", "password"}, {i})
    /\ UNCHANGED <<enabled, workspaceOwners, realm>>

ResetPassword(i) == NewPassword(i)

(* Whoever holds the token, or has proved a password some time ago.        *)
ConsumeCredentialToken(i) == i \in tokens \cap enabled /\ NewPassword(i)
ChangePassword(i) == i \in enabled /\ NewPassword(i)

CreateCredentialToken(i, purpose) ==
    /\ i \in enabled
    /\ tokens' = tokens \cup {i}
    /\ IF purpose = "password-reset"
       THEN /\ sessions' = sessions \ SessionsOf(i)
            /\ request' = Outdated({"credentials"}, {i})
       ELSE UNCHANGED <<sessions, request>>
    /\ UNCHANGED <<enabled, workspaceOwners, realm>>

Disable(i) ==
    /\ i \in enabled \ workspaceOwners
    /\ ~(active /\ owner = i)
    /\ enabled' = enabled \ {i}
    /\ subjects' = subjects \ {i}
    /\ sessions' = sessions \ SessionsOf(i)
    /\ tokens' = tokens \ {i}
    /\ request' = Outdated({"credentials"} \cup (IF member[i] = "none" THEN {} ELSE {"policy"}), {i})
    /\ UNCHANGED <<workspaceOwners, member, active, owner>>

Reactivate(i) ==
    /\ i \in Identities \ enabled
    /\ enabled' = enabled \cup {i}
    /\ subjects' = subjects \cup (IF member[i] = "active" THEN {i} ELSE {})
    /\ request' = Outdated(IF member[i] = "active" THEN {"policy"} ELSE {}, {i})
    /\ UNCHANGED <<workspaceOwners, member, active, owner, sessions, tokens>>

-----------------------------------------------------------------------------
(* The owner of the workspace *)

\* Mutant of OwnsNoRealm: the primary owner of the realm qualifies.
OwnsWhatever(i) == TRUE

OwnsNoRealm(i) == owner # i

(* Every admin session of the workspace ends, and every other session of   *)
(* the two owners with their credential versions.                          *)
TransferWorkspaceOwner(i) ==
    LET both == workspaceOwners \cup {i}
    IN /\ i \in (enabled \cap Operators) \ workspaceOwners
       /\ OwnsNoRealm(i)
       /\ workspaceOwners' = {i}
       /\ sessions' = {x \in sessions : x.content /\ x.who \notin both}
       /\ tokens' = tokens \ both
       /\ request' = Outdated({"credentials"}, both)
       /\ UNCHANGED <<enabled, realm>>

-----------------------------------------------------------------------------
(* Memberships *)

Suspended(i) ==
    /\ member[i] = "active" /\ owner # i
    /\ member' = [member EXCEPT ![i] = "suspended"]
    /\ sessions' = sessions \ ContentSessionsOf(i)
    /\ UNCHANGED <<enabled, workspaceOwners, subjects, active, owner, tokens>>

(* The service reads the membership and the owner; the store looks again.  *)
CheckSuspension(s, i) ==
    /\ member[i] = "active" /\ owner # i
    /\ Starts(s, Request("suspension", i))
    /\ UNCHANGED <<enabled, workspaceOwners, realm, sessions, tokens>>

SuspendMembership(s) ==
    LET i == request[s].who
    IN /\ request[s].kind = "suspension" /\ "membership" \notin request[s].stale
       /\ Suspended(i)
       /\ request' = [Outdated({"membership"}, {i}) EXCEPT ![s] = Idle]

ReactivateMembership(i) ==
    /\ member[i] = "suspended"
    /\ member' = [member EXCEPT ![i] = "active"]
    /\ request' = Outdated({"membership"}, {i})
    /\ UNCHANGED <<enabled, workspaceOwners, subjects, active, owner, sessions, tokens>>

(* subject.update: the owner's subject is protected by its binding.        *)
UpdateSubject(i) ==
    /\ member[i] # "none" /\ owner # i
    /\ subjects' = IF i \in subjects THEN subjects \ {i} ELSE subjects \cup {i}
    /\ request' = Outdated({"policy"}, {i})
    /\ UNCHANGED <<enabled, workspaceOwners, member, active, owner, sessions, tokens>>

UpdateRealm ==
    /\ active' = ~active
    /\ UNCHANGED <<enabled, workspaceOwners, member, subjects, owner, sessions, tokens, request>>

-----------------------------------------------------------------------------
(* The owner of the realm *)

Eligible(i) ==
    /\ active /\ member[i] = "active"
    /\ i \in (enabled \cap subjects) \ workspaceOwners

(* changeOwner: only a transfer may ask for a cleanup of the owner before. *)
CheckOwner(s, i, cleanup) ==
    /\ Eligible(i) /\ owner # i
    /\ cleanup # "keep" => owner # None
    /\ Starts(s, [Request("owner", i) EXCEPT !.previous = owner, !.cleanup = cleanup])
    /\ UNCHANGED <<enabled, workspaceOwners, realm, sessions, tokens>>

\* Mutant of StillEligible: the store trusts the check of the service.
WasEligible(i) == TRUE

StillEligible(i) == Eligible(i)

(* The policy revision is the one the client stated; the rows eligibility  *)
(* rests on are locked and read again; a transfer wants a sound owner.     *)
CommitOwner(s) ==
    LET r == request[s]
        others == Outdated({"policy"}, {r.who})
    IN /\ r.kind = "owner" /\ "policy" \notin r.stale
       /\ StillEligible(r.who)
       /\ r.cleanup # "keep" => owner \in subjects
       /\ owner' = r.who
       /\ request' = [others EXCEPT ![s] =
                        IF r.cleanup = "keep" THEN Idle ELSE [r EXCEPT !.kind = "cleanup"]]
       /\ UNCHANGED <<enabled, workspaceOwners, member, subjects, active, sessions, tokens>>

(* cleanupTransferredOwner: a transaction of its own, after the commit.    *)
CleanUp(s) ==
    LET r == request[s]
    IN /\ r.kind = "cleanup"
       /\ \/ /\ r.cleanup = "suspend" /\ "membership" \notin r.stale
             /\ Suspended(r.previous)
             /\ request' = [Outdated({"membership"}, {r.previous}) EXCEPT ![s] = Idle]
          \/ /\ r.cleanup = "revoke"
             /\ sessions' = sessions \ ContentSessionsOf(r.previous)
             /\ request' = [request EXCEPT ![s] = Idle]
             /\ UNCHANGED <<enabled, workspaceOwners, realm, tokens>>

(* A refusal, an error or a crash: the request ends, what it did stays.    *)
Fail(s) ==
    /\ request[s] # Idle
    /\ request' = [request EXCEPT ![s] = Idle]
    /\ UNCHANGED <<enabled, workspaceOwners, realm, sessions, tokens>>

-----------------------------------------------------------------------------
ServerStep(s) ==
    \/ \E i \in Identities :
         \/ VerifyAdminLogin(s, i) \/ VerifyContentLogin(s, i) \/ CheckSuspension(s, i)
         \/ \E cleanup \in {"keep", "revoke", "suspend"} : CheckOwner(s, i, cleanup)
    \/ IssueAdminSession(s) \/ IssueContentSession(s)
    \/ SuspendMembership(s) \/ CommitOwner(s) \/ CleanUp(s) \/ Fail(s)

IdentityStep(i) ==
    \/ ResetPassword(i) \/ ConsumeCredentialToken(i) \/ ChangePassword(i)
    \/ \E purpose \in {"invitation", "password-reset"} : CreateCredentialToken(i, purpose)
    \/ Disable(i) \/ Reactivate(i) \/ TransferWorkspaceOwner(i)
    \/ ReactivateMembership(i) \/ UpdateSubject(i)

Next ==
    \/ \E s \in Servers : ServerStep(s)
    \/ \E i \in Identities : IdentityStep(i)
    \/ \E x \in sessions : EndSession(x)
    \/ UpdateRealm

Spec == Init /\ [][Next]_vars

-----------------------------------------------------------------------------
\* The shape of accounts, memberships, sessions and requests.
TypeOK ==
    /\ enabled \subseteq Identities /\ workspaceOwners \subseteq Identities
    /\ member \in [Identities -> {"none", "active", "suspended"}]
    /\ subjects \subseteq Identities
    /\ active \in BOOLEAN /\ owner \in Identities \cup {None}
    /\ sessions \subseteq Sessions /\ tokens \subseteq Identities
    /\ request \in [Servers -> Requests]

(* The workspace has exactly one owner, an enabled operator, who never     *)
(* owns the content realm too, however the two transfers interleave        *)
(* (transferOwner and lockEligiblePrimaryOwner).                           *)
WorkspaceHasOneOwner ==
    /\ TypeOK
    /\ \E i \in enabled \cap Operators : workspaceOwners = {i} /\ owner # i

OwnerIsFit ==
    owner \in Identities => /\ owner \in (enabled \cap subjects) \ workspaceOwners
                            /\ member[owner] = "active"

(* Whoever becomes owner of the realm is fit to be it at that moment, and  *)
(* nothing done while the realm is active takes that from them: no         *)
(* disabling, suspension or late cleanup hits the owner of the day         *)
(* (transitionMembership, setDisabled, lockEligiblePrimaryOwner).          *)
OwnerStands ==
    [][/\ owner' # owner => active /\ OwnerIsFit'
       /\ active /\ OwnerIsFit => OwnerIsFit']_vars

(* A live session belongs to an enabled identity; one of the content realm *)
(* was opened with the password of today by an active member; and no       *)
(* disabled identity has a token left (createContentSession, setDisabled,  *)
(* transitionMembership).                                                  *)
SessionsAreInForce ==
    /\ \A x \in sessions :
         /\ x.who \in enabled
         /\ x.content => x.password = "current" /\ member[x.who] = "active"
    /\ tokens \subseteq enabled

(* Owners and sessions are what the rows of their identities allow.        *)
RealmIsWhole == WorkspaceHasOneOwner /\ SessionsAreInForce

(* Does not hold: createSession stamps an admin session with the version   *)
(* of its insertion, so a reset between the proof of the password and the  *)
(* insertion leaves a live session opened with the password before.        *)
AdminSessionsAreInForce == \A x \in sessions : x.password = "current"

(* Does not hold: setDisabled spares owners of active realms only, and     *)
(* updateRealm activates a realm whatever its owner has become.            *)
ActiveRealmHasFitOwner == active => OwnerIsFit
=============================================================================

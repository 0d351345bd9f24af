------------------------- MODULE RealmProvisioning -------------------------
(***************************************************************************)
(* How somebody becomes a member of a content realm.  A signup, a first    *)
(* login of a system identity, or an administrator starts a saga of        *)
(* commits: the identity, its subject in the realm's policy, a pending     *)
(* membership, a profile document, the activation, the default roles.  A   *)
(* saga may stop between any two; a later request resumes it from what it  *)
(* finds.  Modelled is one identifier and whoever asks for it.  A realm    *)
(* has its policy already; its profile collection stays.                   *)
(***************************************************************************)
EXTENDS Naturals, FiniteSets

CONSTANTS Joiners,       \* concurrent requests
          Passwords,      \* what those who ask may know
          DefaultRoles,   \* roles realms may give to new members
          MaxProfiles,    \* bound: profile documents
          MaxPolicyRevision, MaxMemberRevision   \* bounds

ASSUME ProvisioningAssumption == IsFiniteSet(Joiners) /\ "none" \notin Passwords

VARIABLES identity,     \* the identity of the identifier, or NoIdentity
          subject,      \* its subject in the realm: absent, enabled, disabled
          roles,        \* roles bound to the subject at the root
          policyAt,     \* revision of the realm's policy
          membership,   \* its membership, or NoMembership
          profile,      \* live profile documents the subject created
          admission,        \* what the realm admits
          saga,         \* what each request does
          opened,       \* live sessions: with which password, by its creator
          owned,        \* passwords the identity has had
          overlapped    \* whether two sagas were past the membership at once

pvars == <<identity, subject, roles, policyAt, membership, profile, admission, saga, opened, owned, overlapped>>
directory == <<identity, opened, owned>>
memberRows == <<membership, profile>>
grantedRoles == <<subject, roles, policyAt>>

NoIdentity == [origin |-> "nobody"]
NoMembership == [status |-> "none", revision |-> 0, profile |-> 0]
NoSaga == [step |-> "none"]
SagaKinds == {"signup", "jit", "explicit", "register"}
Administrator == "administrator"
Realms == [active : BOOLEAN, open : BOOLEAN, accepts : {"none", "explicit", "jit"}, defaults : SUBSET DefaultRoles]

At(r, step) == saga[r].step = step
NoPolicy == [at |-> 0, subject |-> "absent", roles |-> {}]
\* What was read of the policy is forgotten with the step that used it.
Goes(r, step) == saga' = [saga EXCEPT ![r].step = step, ![r].policy = NoPolicy]
Fails(r) == saga' = [saga EXCEPT ![r] = NoSaga]
Knows(r) == identity # NoIdentity /\ saga[r].password = identity.password

\* Sagas between the pending membership and its activation.
Midway(s) == {r \in Joiners : s[r].step \in {"profile", "document", "activate"}}

-----------------------------------------------------------------------------
(* How a saga starts.  The realm is read once, at the start. *)

Asking(r, kind, password, stamp, step) ==
    /\ saga[r] = NoSaga /\ admission.active
    /\ saga' = [saga EXCEPT ![r] =
         [step |-> step, kind |-> kind, password |-> password, creator |-> FALSE, stamp |-> stamp, defaults |-> admission.defaults,
          membership |-> NoMembership, document |-> 0, policy |-> NoPolicy,
          left |-> admission.defaults]]

\* signup and registerMembership: an identifier that is known is not created.
AskSignup(r, password) ==
    /\ admission.open
    /\ Asking(r, "signup", password, "none", IF identity = NoIdentity THEN "create" ELSE "resume")
AskRegister(r, password) == Asking(r, "register", password, "none", "create")

CreateIdentity(r) ==
    /\ At(r, "create")
    /\ \/ /\ identity = NoIdentity
          /\ identity' = [origin |-> "realm", enabled |-> TRUE, password |-> saga[r].password]
          /\ owned' = owned \cup {saga[r].password}
          /\ saga' = [saga EXCEPT ![r].step = "subject", ![r].creator = TRUE]
       \/ /\ identity # NoIdentity /\ UNCHANGED <<identity, owned>>
          /\ IF saga[r].kind = "signup" THEN Goes(r, "resume") ELSE Fails(r)
    /\ UNCHANGED <<grantedRoles, memberRows, admission, opened>>

\* Mutant of MayResume: whoever asks for the identifier.
MayAlways(r) == identity.origin = "realm" /\ identity.enabled

\* Mutant of MayResume: an identity of another realm is linked.
MayLink(r) == Knows(r) /\ identity.enabled

MayResume(r) == Knows(r) /\ identity.origin = "realm" /\ identity.enabled

\* resumeSignup: the same credential is proved, then what is missing is made.
ResumeSignup(r) ==
    /\ At(r, "resume")
    /\ IF ~MayResume(r) \/ membership.status = "suspended" THEN Fails(r)
       ELSE saga' = [saga EXCEPT ![r].stamp = identity.password,
              ![r].step = IF membership.status = "active" THEN "session" ELSE "subject"]
    /\ UNCHANGED <<directory, grantedRoles, memberRows, admission>>

\* login: a system identity is provisioned when it comes for the first time.
Login(r, password) ==
    /\ identity # NoIdentity /\ password = identity.password
    /\ \/ membership.status = "active" /\ Asking(r, "jit", password, identity.password, "session")
       \/ /\ membership = NoMembership /\ admission.accepts = "jit" /\ identity.origin = "system"
          /\ Asking(r, "jit", password, identity.password, "subject")

\* provisionMembership by an administrator, who knows no password.
AskExplicit(r) ==
    /\ admission.accepts # "none" /\ identity # NoIdentity
    /\ identity.enabled /\ identity.origin = "system"
    /\ membership.status \in {"none", "pending"}
    /\ Asking(r, "explicit", "none", "none", "subject")

Arrive(r) ==
    /\ \/ AskExplicit(r)
       \/ \E password \in Passwords :
            AskSignup(r, password) \/ AskRegister(r, password) \/ Login(r, password)
    /\ UNCHANGED <<directory, grantedRoles, memberRows, admission>>

-----------------------------------------------------------------------------
(* withPolicyRetry: the policy is read, then written by compare-and-swap;  *)
(* a conflict reads it again, some times.                                  *)

ReadPolicy(r, step, next) ==
    /\ At(r, step)
    /\ saga' = [saga EXCEPT ![r].step = next,
                            ![r].policy = [at |-> policyAt, subject |-> subject, roles |-> roles]]
    /\ UNCHANGED <<directory, grantedRoles, memberRows, admission>>

\* Mutant of IsCurrent: the last writer wins.
IsAnyPolicy(r) == TRUE

IsCurrent(r) == saga[r].policy.at = policyAt

Retry(r, step) ==
    /\ ~IsCurrent(r)
    /\ Goes(r, step) \/ Fails(r)
    /\ UNCHANGED grantedRoles

\* ensureIdentitySubject
WriteSubject(r) ==
    LET read == saga[r].policy IN
    /\ At(r, "subject-read")
    /\ \/ read.subject = "enabled" /\ Goes(r, "membership") /\ UNCHANGED grantedRoles
       \/ read.subject = "disabled" /\ Fails(r) /\ UNCHANGED grantedRoles
       \/ read.subject = "absent" /\ Retry(r, "subject")
       \/ /\ read.subject = "absent" /\ IsCurrent(r) /\ policyAt < MaxPolicyRevision
          /\ subject' = "enabled" /\ roles' = read.roles /\ policyAt' = policyAt + 1
          /\ Goes(r, "membership")
    /\ UNCHANGED <<directory, memberRows, admission>>

\* createPendingMembership, under a lock of realm and identity.
CreatePendingMembership(r) ==
    /\ At(r, "membership")
    /\ \/ membership.status = "suspended" /\ Fails(r) /\ UNCHANGED membership
       \/ /\ membership.status \in {"pending", "active"} /\ UNCHANGED membership
          /\ saga' = [saga EXCEPT ![r].membership = membership,
                ![r].step = IF membership.status = "active" THEN "session" ELSE "profile"]
       \/ /\ membership = NoMembership /\ identity.enabled /\ admission.active
          /\ membership' = [status |-> "pending", revision |-> 1, profile |-> 0]
          /\ saga' = [saga EXCEPT ![r].membership = membership', ![r].step = "profile"]
       \/ membership = NoMembership /\ ~(identity.enabled /\ admission.active) /\ Fails(r) /\ UNCHANGED membership
    /\ UNCHANGED <<directory, grantedRoles, profile, admission>>

\* Mutant of Recovered: every attempt makes a profile of its own.
RecoveredNone == {}

Recovered == profile

\* createProfile of the server: what an earlier attempt left is taken up.
FindProfile(r) ==
    /\ At(r, "profile")
    /\ CASE Recovered = {} -> Goes(r, "document")
         [] Cardinality(Recovered) = 1 ->
              saga' = [saga EXCEPT ![r].step = "activate", ![r].document = CHOOSE d \in Recovered : TRUE]
         [] OTHER -> Fails(r)
    /\ UNCHANGED <<directory, grantedRoles, memberRows, admission>>

CreateDocument(r) ==
    /\ At(r, "document") /\ Cardinality(profile) < MaxProfiles
    /\ LET d == Cardinality(profile) + 1 IN
       /\ profile' = profile \cup {d}
       /\ saga' = [saga EXCEPT ![r].step = "activate", ![r].document = d]
    /\ UNCHANGED <<directory, grantedRoles, membership, admission>>

\* Mutant of MayActivate: the revision read is not compared.
MayActivateAny(r) == admission.active /\ identity.enabled /\ subject = "enabled"

MayActivate(r) ==
    /\ membership.revision = saga[r].membership.revision
    /\ membership.status = "pending"
    /\ admission.active /\ identity.enabled /\ subject = "enabled"

ActivateMembership(r) ==
    /\ At(r, "activate")
    /\ IF MayActivate(r)
       THEN /\ membership' = [status |-> "active", revision |-> membership.revision + 1, profile |-> saga[r].document]
            /\ Goes(r, "roles")
       ELSE Fails(r) /\ UNCHANGED membership
    /\ UNCHANGED <<directory, grantedRoles, profile, admission>>

\* ensureDefaultRoles: one commit for every role, or none if it is bound.
WriteRole(r) ==
    LET read == saga[r].policy
        role == CHOOSE x \in saga[r].left : TRUE
    IN /\ At(r, "roles-read")
       /\ IF saga[r].left = {} THEN Goes(r, "session") /\ UNCHANGED grantedRoles
          ELSE \/ read.subject # "enabled" /\ Fails(r) /\ UNCHANGED grantedRoles
               \/ /\ read.subject = "enabled" /\ role \in read.roles /\ UNCHANGED grantedRoles
                  /\ saga' = [saga EXCEPT ![r].step = "roles", ![r].policy = NoPolicy, ![r].left = @ \ {role}]
               \/ read.subject = "enabled" /\ role \notin read.roles /\ Retry(r, "roles")
               \/ /\ read.subject = "enabled" /\ role \notin read.roles
                  /\ IsCurrent(r) /\ policyAt < MaxPolicyRevision
                  /\ subject' = read.subject /\ roles' = read.roles \cup {role}
                  /\ policyAt' = policyAt + 1
                  /\ saga' = [saga EXCEPT ![r].step = "roles", ![r].policy = NoPolicy, ![r].left = @ \ {role}]
       /\ UNCHANGED <<directory, memberRows, admission>>

\* Mutant of MayOpen: the version of the credential is not compared.
MayOpenAny(r) == membership.status = "active" /\ admission.active /\ identity.enabled /\ subject = "enabled"

\* createContentSession: the credential that was read is still the one.
\* Who made the identity has it read again, and its version with it.
MayOpen(r) ==
    /\ membership.status = "active" /\ admission.active /\ identity.enabled /\ subject = "enabled"
    /\ saga[r].creator \/ saga[r].stamp = identity.password

\* issueSession of a signup or a login; an administrator gets the membership.
\* One statement reads what it admits, and inserts the session later.
IssueSession(r) ==
    /\ At(r, "session")
    /\ IF saga[r].kind \in {"signup", "jit"} /\ MayOpen(r)
       THEN saga' = [saga EXCEPT ![r].step = "insert", ![r].stamp = identity.password]
       ELSE Fails(r)
    /\ UNCHANGED <<directory, grantedRoles, memberRows, admission>>
InsertSession(r) ==
    /\ At(r, "insert")
    /\ opened' = opened \cup
         {[password |-> saga[r].password, creator |-> saga[r].creator, stamp |-> saga[r].stamp]}
    /\ Fails(r)
    /\ UNCHANGED <<identity, owned, grantedRoles, memberRows, admission>>

\* findContentSession
InForce(o) ==
    /\ o.stamp = identity.password
    /\ membership.status = "active" /\ admission.active /\ identity.enabled /\ subject = "enabled"

Logout(o) ==
    /\ InForce(o) /\ opened' = opened \ {o}
    /\ UNCHANGED <<identity, owned, grantedRoles, memberRows, admission, saga>>

\* The client, the server or the database is gone.
Crash(r) ==
    /\ saga[r] # NoSaga /\ Fails(r)
    /\ UNCHANGED <<directory, grantedRoles, memberRows, admission>>

SagaStep(r) ==
    \/ Arrive(r) \/ CreateIdentity(r) \/ ResumeSignup(r)
    \/ ReadPolicy(r, "subject", "subject-read") \/ WriteSubject(r)
    \/ CreatePendingMembership(r) \/ FindProfile(r) \/ CreateDocument(r) \/ ActivateMembership(r)
    \/ ReadPolicy(r, "roles", "roles-read") \/ WriteRole(r)
    \/ IssueSession(r) \/ InsertSession(r) \/ Crash(r)

-----------------------------------------------------------------------------
(* What administrators do meanwhile. *)

\* An account of the system or of another realm has the identifier.
CreateElsewhere(origin, password) ==
    /\ identity = NoIdentity
    /\ identity' = [origin |-> origin, enabled |-> TRUE, password |-> password]
    /\ owned' = owned \cup {password}
    /\ UNCHANGED <<grantedRoles, memberRows, admission, saga, opened>>

\* A password that is set again counts as a new one, as its version is.
SetPassword(password) ==
    /\ identity # NoIdentity /\ password \notin owned
    /\ identity' = [identity EXCEPT !.password = password]
    /\ owned' = owned \cup {password} /\ opened' = {}
    /\ UNCHANGED <<grantedRoles, memberRows, admission, saga>>

DisableIdentity ==
    /\ identity # NoIdentity /\ identity.enabled
    /\ identity' = [identity EXCEPT !.enabled = FALSE] /\ opened' = {}
    /\ IF membership = NoMembership THEN UNCHANGED <<subject, policyAt>>
       ELSE /\ policyAt < MaxPolicyRevision
            /\ subject' = "disabled" /\ policyAt' = policyAt + 1
    /\ UNCHANGED <<owned, roles, memberRows, admission, saga>>

\* updateSubject by the owner of the realm.
SetSubject(state) ==
    /\ subject \notin {"absent", state} /\ policyAt < MaxPolicyRevision
    /\ subject' = state /\ policyAt' = policyAt + 1
    /\ UNCHANGED <<roles, directory, memberRows, admission, saga>>

\* transitionMembership: a pending one can be reactivated too, without profile.
SuspendMember ==
    /\ membership.status \in {"pending", "active"} /\ membership.revision < MaxMemberRevision
    /\ membership' = [membership EXCEPT !.status = "suspended", !.revision = @ + 1]
    /\ opened' = {}
    /\ UNCHANGED <<identity, owned, grantedRoles, profile, admission, saga>>

ReactivateMember ==
    /\ membership.status \in {"pending", "suspended"} /\ membership.revision < MaxMemberRevision
    /\ membership' = [membership EXCEPT !.status = "active", !.revision = @ + 1]
    /\ UNCHANGED <<directory, grantedRoles, profile, admission, saga>>

UpdateAdmission(to) ==
    /\ admission' = to /\ admission # to
    /\ UNCHANGED <<directory, grantedRoles, memberRows, saga>>

\* The member was active when he was asked for, and may be suspended by now.
WasMember == membership.status \in {"active", "suspended"}

\* grantRealmAdministrator of a member who was active when it was looked up:
\* one retried commit, so one step.
GrantRealmAdministrator ==
    /\ subject = "enabled" /\ Administrator \notin roles /\ policyAt < MaxPolicyRevision
    /\ WasMember
    /\ roles' = roles \cup {Administrator} /\ policyAt' = policyAt + 1
    /\ UNCHANGED <<subject, directory, memberRows, admission, saga>>

\* revokeRealmAdministrator removes only the canonical binding.
RevokeRealmAdministrator ==
    /\ Administrator \in roles /\ WasMember /\ policyAt < MaxPolicyRevision
    /\ roles' = roles \ {Administrator} /\ policyAt' = policyAt + 1
    /\ UNCHANGED <<subject, directory, memberRows, admission, saga>>

AdministratorStep ==
    \/ \E password \in Passwords, origin \in {"system", "elsewhere"} : CreateElsewhere(origin, password)
    \/ \E password \in Passwords : SetPassword(password)
    \/ DisableIdentity \/ \E state \in {"enabled", "disabled"} : SetSubject(state)
    \/ SuspendMember \/ ReactivateMember
    \/ \E to \in Realms : UpdateAdmission(to)
    \/ GrantRealmAdministrator \/ RevokeRealmAdministrator

ProvisioningInit ==
    /\ identity = NoIdentity /\ subject = "absent" /\ roles = {} /\ policyAt = 1
    /\ membership = NoMembership /\ profile = {} /\ admission \in Realms
    /\ saga = [r \in Joiners |-> NoSaga]
    /\ opened = {} /\ owned = {} /\ overlapped = FALSE

ProvisioningNext ==
    /\ AdministratorStep \/ (\E o \in opened : Logout(o)) \/ \E r \in Joiners : SagaStep(r)
    /\ overlapped' = (overlapped \/ Cardinality(Midway(saga')) > 1)

-----------------------------------------------------------------------------
(* Properties *)

\* Nobody is let in by a password that is not the account's, or was not when he
\* made it himself; and no account of another realm becomes a member.
AccountsAreKept ==
    /\ \A o \in opened : InForce(o) => o.password = identity.password \/ (o.creator /\ o.password \in owned)
    /\ identity # NoIdentity /\ identity.origin = "elsewhere" => membership = NoMembership

\* However often a saga stops and is tried again, there is one profile, unless
\* two requests made it at once; and the membership shows one that was made.
OneProfile ==
    /\ ~overlapped => Cardinality(profile) <= 1
    /\ membership.profile \in profile \cup {0}

\* A request that has come to the end gave the roles of the realm it had read;
\* of those only the administrator's can have been revoked by then.
RolesAreGiven ==
    \A r \in Joiners : At(r, "session") /\ saga[r].document # 0 =>
        saga[r].defaults \ {Administrator} \subseteq roles

\* A saga never undoes what administrators did: a suspension, a disabled
\* subject, a role given or taken by them.  It adds one of the roles that its
\* realm gives, to a subject that is enabled.
SagasRespect ==
    saga' # saga =>
        /\ membership.status \in {"active", "suspended"} => membership' = membership
        /\ subject # "absent" => subject' = subject
        /\ roles \subseteq roles'
        /\ roles' # roles => /\ subject = "enabled"
                             /\ \E r \in Joiners : /\ saga[r] # NoSaga
                                                   /\ roles' \ roles \subseteq saga[r].defaults

ProvisioningSpec == ProvisioningInit /\ [][ProvisioningNext]_pvars

\* Accounts, profiles and roles, and what administrators have done, are kept.
ProvisioningIsSafe ==
    [](AccountsAreKept /\ OneProfile /\ RolesAreGiven) /\ [][SagasRespect]_pvars
=============================================================================

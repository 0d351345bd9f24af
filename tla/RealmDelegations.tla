-------------------------- MODULE RealmDelegations --------------------------
(***************************************************************************)
(* Managers of one content realm reset, disable and sign out accounts of   *)
(* other realms, as far as the owners of the CMS have delegated it to      *)
(* their realm.  Accounts of the CMS itself are out of their reach.        *)
(*                                                                         *)
(* A managing request reads the account, then the delegations of its       *)
(* realm, decides, and acts: three queries without a lock, and others      *)
(* change delegations, memberships and identities in between.  The act     *)
(* compares the revision of the identity.  Left out: the permission of the *)
(* manager in the own realm (PolicyAuthority), and what RealmIdentities    *)
(* tells of owners, passwords and sessions.                                *)
(***************************************************************************)
EXTENDS Naturals

CONSTANTS Accounts, ContentRealms,
          HomeOf,       \* the realm that each manager acts from
          Delegators,   \* owners of the CMS who write delegations
          Scopes,       \* what a delegation may say: [action -> "any", "all" or "none"]
          MaxAccountRevision, MaxDelegationRevision   \* bounds

VARIABLES account,     \* identities with their active memberships
          delegation,  \* _xecms_realm_management_delegations: [managing, managed] -> row
          change,      \* the request of each delegator
          act          \* the request of each manager

dvars == <<account, delegation, change, act>>

Managers == DOMAIN HomeOf
\* What managers have routes for.  identity.update may be delegated as well, but
\* no route asks for it.
DelegableActions == {"identity.credentials.reset", "identity.disable", "identity.session.revoke"}
RealmPairs == {d \in [managing: ContentRealms, managed: ContentRealms] : d.managing # d.managed}

ASSUME DelegationsAssumption ==
    /\ \A m \in Managers : HomeOf[m] \in ContentRealms
    /\ Scopes \subseteq [DelegableActions -> {"any", "all", "none"}]
    /\ MaxAccountRevision \in Nat /\ MaxDelegationRevision \in Nat

NoAct == [step |-> "none"]

DelegationsInit ==
    /\ account \in [Accounts -> {[enabled |-> TRUE, system |-> s, realms |-> r, revision |-> 1] :
                                   s \in BOOLEAN, r \in SUBSET ContentRealms}]
    /\ delegation = <<>>
    /\ change = [o \in Delegators |-> NoAct]
    /\ act = [m \in Managers |-> NoAct]

-----------------------------------------------------------------------------
(* Delegations: put compares the revision under the lock of the row, if    *)
(* there is one; with none there is nothing to lock, and of two requests   *)
(* that create it the later overwrites the earlier.                        *)
ReadDelegation(o, d) ==
    /\ change[o] = NoAct
    /\ change' = [change EXCEPT ![o] = [step |-> "read", of |-> d,
          expected |-> IF d \in DOMAIN delegation THEN delegation[d].revision ELSE 0]]
    /\ UNCHANGED <<account, delegation, act>>

IsExpected(o) ==
    /\ change[o].step = "read"
    /\ change[o].expected = IF change[o].of \in DOMAIN delegation
                            THEN delegation[change[o].of].revision ELSE 0

WriteDelegation(d, scope, revision) ==
    delegation' = [e \in DOMAIN delegation \cup {d} |->
                     IF e = d THEN [scope |-> scope, revision |-> revision] ELSE delegation[e]]

PutDelegation(o, scope) ==
    /\ IsExpected(o) /\ change[o].expected \in 1..(MaxDelegationRevision - 1)
    /\ WriteDelegation(change[o].of, scope, change[o].expected + 1)
    /\ change' = [change EXCEPT ![o] = NoAct]
    /\ UNCHANGED <<account, act>>
FindNoDelegation(o) ==
    /\ IsExpected(o) /\ change[o].expected = 0
    /\ change' = [change EXCEPT ![o].step = "insert"]
    /\ UNCHANGED <<account, delegation, act>>
InsertDelegation(o, scope) ==
    /\ change[o].step = "insert"
    /\ WriteDelegation(change[o].of, scope, 1)
    /\ change' = [change EXCEPT ![o] = NoAct]
    /\ UNCHANGED <<account, act>>
RemoveDelegation(o) ==
    /\ IsExpected(o) /\ change[o].expected # 0
    /\ delegation' = [d \in DOMAIN delegation \ {change[o].of} |-> delegation[d]]
    /\ change' = [change EXCEPT ![o] = NoAct]
    /\ UNCHANGED <<account, act>>
RefuseChange(o) ==
    /\ change[o].step = "read" /\ ~IsExpected(o)
    /\ change' = [change EXCEPT ![o] = NoAct]
    /\ UNCHANGED <<account, delegation, act>>

-----------------------------------------------------------------------------
(* Accounts.  A membership of a content realm has a revision of its own.   *)
SetMembership(i, r) ==
    /\ account' = [account EXCEPT ![i].realms = IF r \in @ THEN @ \ {r} ELSE @ \cup {r}]
    /\ UNCHANGED <<delegation, change, act>>

Revised(i) == account[i].revision < MaxAccountRevision

\* Mutant of CreateSystemMembership: the identity keeps its revision.
CreateSystemMembershipAlone(i) ==
    /\ account[i].enabled /\ ~account[i].system
    /\ account' = [account EXCEPT ![i].system = TRUE]
    /\ UNCHANGED <<delegation, change, act>>

CreateSystemMembership(i) ==
    /\ account[i].enabled /\ ~account[i].system /\ Revised(i)
    /\ account' = [account EXCEPT ![i].system = TRUE, ![i].revision = @ + 1]
    /\ UNCHANGED <<delegation, change, act>>

(* setDisabled by an operator of the CMS, and any other change.            *)
AdministerIdentity(i, enabled) ==
    /\ Revised(i)
    /\ account' = [account EXCEPT ![i].enabled = enabled, ![i].revision = @ + 1]
    /\ UNCHANGED <<delegation, change, act>>

-----------------------------------------------------------------------------
(* evaluateCrossRealmManagement: every realm of the account has to be      *)
(* covered, or one if any delegation to the realm says "any".              *)
Delegating(home, action) ==
    {d \in DOMAIN delegation : d.managing = home /\ delegation[d].scope[action] # "none"}
Covered(home, action) == {home} \cup {d.managed : d \in Delegating(home, action)}

Permitted(home, action, target) ==
    /\ ~target.system
    /\ target.realms # {}
    /\ target.realms # {home} => Delegating(home, action) # {}
    /\ IF \E d \in Delegating(home, action) : delegation[d].scope[action] = "any"
       THEN target.realms \cap Covered(home, action) # {}
       ELSE target.realms \subseteq Covered(home, action)

GetTarget(m, i, action, enable) ==
    /\ act[m] = NoAct /\ (enable => action = "identity.disable")
    /\ act' = [act EXCEPT ![m] = [step |-> "target", on |-> i, action |-> action,
                                  enable |-> enable, target |-> account[i]]]
    /\ UNCHANGED <<account, delegation, change>>

Authorize(m) ==
    /\ act[m].step = "target"
    /\ act' = [act EXCEPT ![m] = IF Permitted(HomeOf[m], @.action, @.target)
                                 THEN [@ EXCEPT !.step = "authorized"] ELSE NoAct]
    /\ UNCHANGED <<account, delegation, change>>

(* setDisabled, reactivation too, and resetPassword.                       *)
ActOnIdentity(m) ==
    LET i == act[m].on
        disables == act[m].action = "identity.disable"
    IN /\ act[m].step = "authorized" /\ act[m].action # "identity.session.revoke"
       /\ act' = [act EXCEPT ![m] = NoAct]
       /\ IF /\ account[i].revision = act[m].target.revision /\ Revised(i)
             /\ disables => account[i].enabled # act[m].enable
          THEN account' = [account EXCEPT ![i].revision = @ + 1,
                                          ![i].enabled = IF disables THEN act[m].enable ELSE @]
          ELSE UNCHANGED account
       /\ UNCHANGED <<delegation, change>>

(* revokeAllSessions, which has no revision to compare.                    *)
RevokeSessions(m) ==
    /\ act[m].step = "authorized" /\ act[m].action = "identity.session.revoke"
    /\ act' = [act EXCEPT ![m] = NoAct]
    /\ UNCHANGED <<account, delegation, change>>

-----------------------------------------------------------------------------
DelegationsNext ==
    \/ \E o \in Delegators :
         \/ \E d \in RealmPairs : ReadDelegation(o, d)
         \/ \E scope \in Scopes : PutDelegation(o, scope) \/ InsertDelegation(o, scope)
         \/ FindNoDelegation(o) \/ RemoveDelegation(o) \/ RefuseChange(o)
    \/ \E i \in Accounts :
         \/ \E r \in ContentRealms : SetMembership(i, r)
         \/ \E enabled \in BOOLEAN : AdministerIdentity(i, enabled)
         \/ CreateSystemMembership(i)
    \/ \E m \in Managers :
         \/ \E i \in Accounts, action \in DelegableActions, enable \in BOOLEAN :
              GetTarget(m, i, action, enable)
         \/ Authorize(m) \/ ActOnIdentity(m) \/ RevokeSessions(m)

DelegationsSpec == DelegationsInit /\ [][DelegationsNext]_dvars

-----------------------------------------------------------------------------
(* A manager never disables, reactivates or resets an account of the CMS,  *)
(* even if it became one after the request was allowed, and never acts on  *)
(* an identity that another request changed meanwhile.  Sessions may be    *)
(* revoked all the same, and an account that has joined another realm      *)
(* meanwhile is within reach (authorize, setDisabled, resetPassword,       *)
(* createSystemMembership).                                                *)
CmsAccountsAreOutOfReach ==
    [][\A m \in Managers :
         LET i == act[m].on
         IN act[m] # NoAct /\ act'[m] = NoAct /\ account' # account =>
              /\ ~account[i].system
              /\ account[i].enabled = act[m].target.enabled]_dvars
=============================================================================

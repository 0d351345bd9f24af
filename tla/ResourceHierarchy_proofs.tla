---------------------- MODULE ResourceHierarchy_proofs -----------------------
(***************************************************************************)
(* The resources of the authorization graph hang where sites and the       *)
(* content tree have them, for any sites, collections, documents, servers  *)
(* and administrators; and the database is what the active revision of the *)
(* schema says, for any collections, fields, realms, proposals and editors.*)
(***************************************************************************)
EXTENDS Sites, HierarchyProjection, SchemaRegistry, NaturalRecursion, FiniteSetTheorems

-----------------------------------------------------------------------------
(* Sites.  One active site is the default, whatever transactions move it,  *)
(* and a pass that has ended left every collection below the site it is    *)
(* bound to.                                                               *)
(*                                                                         *)
(* The invariant adds that no row is locked twice, so that what a          *)
(* transaction decided on its locked row still holds when it writes, and   *)
(* that a pass whose policy revision is current has seen all there is:     *)
(* a collection that was bound since then hangs where it is bound.         *)

Hangs(c) ==
  c \in DOMAIN resource /\ resource[c] = [type |-> "collection", parent |-> ParentOf(binding, c)]

RowsOK ==
  /\ \A s \in DOMAIN site : site[s] \in [active : BOOLEAN, default : BOOLEAN, revision : Nat]
  /\ \A c \in DOMAIN binding : binding[c] \in DOMAIN site
  /\ \A c \in DOMAIN resource :
       resource[c] = [type |-> resource[c].type, parent |-> resource[c].parent]
  /\ sitePolicy \in Nat

Steps == {"asked", "locked", "clearing", "cleared"}
NeedActive == {"setDefault", "bind", "unbind"}

RequestOK(q) ==
  \/ q = NoRequest
  \/ /\ q = [step |-> q.step, op |-> q.op, site |-> q.site, other |-> q.other,
             revision |-> q.revision, policy |-> q.policy, seen |-> q.seen]
     /\ q.step \in Steps
     /\ q.site \in DOMAIN site
     /\ q.op = "archive" => q.other \in DOMAIN site
     /\ q.step \in {"clearing", "cleared"} => q.op = "setDefault"
     /\ q.step # "asked" /\ q.op \in NeedActive => site[q.site].active
     /\ q.step \in {"clearing", "cleared"} => q.seen \subseteq DOMAIN site

RequestsOK ==
  /\ DOMAIN request = Admins
  /\ \A t \in Admins : RequestOK(request[t])

LocksOK == \A t, u \in Admins : t # u => LockedBy(t) \cap LockedBy(u) = {}

\* What a pass under way has seen, is the case or was replaced by a binding.
PassOK ==
  pass.step = "sync" =>
    /\ pass = [step |-> "sync", listed |-> pass.listed, seen |-> pass.seen,
               revision |-> pass.revision, resources |-> pass.resources]
    /\ pass.revision \in Nat /\ pass.revision <= sitePolicy
    /\ sitePolicy = pass.revision => binding = pass.seen /\ resource = pass.resources
    /\ \A c : \/ Hangs(c)
              \/ /\ ParentOf(binding, c) = ParentOf(pass.seen, c)
                 /\ c \in DOMAIN resource <=> c \in DOMAIN pass.resources
                 /\ c \in DOMAIN resource => resource[c] = pass.resources[c]

DoneOK ==
  pass.step = "done" =>
    \A c \in configured : ParentOf(pass.listed, c) = ParentOf(pass.seen, c) => Hangs(c)

SitesIInv == RowsOK /\ RequestsOK /\ LocksOK /\ DefaultStands /\ PassOK /\ DoneOK

USE SitesAssumption

-----------------------------------------------------------------------------
(* Rows and locks *)

\* A request that ends holds nothing, the others hold what they held.
LEMMA FinishReleases ==
  ASSUME RequestsOK, LocksOK, NEW t \in Admins, Finish(t)
  PROVE  LocksOK' /\ DOMAIN request' = Admins /\ request'[t] = NoRequest
         /\ \A u \in Admins : u # t => request'[u] = request[u]
<1>1. /\ DOMAIN request' = Admins /\ request'[t] = NoRequest
      /\ \A u \in Admins : u # t => request'[u] = request[u]
  BY DEF Finish, RequestsOK
<1>2. LockedBy(t)' = {}  BY <1>1 DEF LockedBy, NoRequest
<1>3. \A u \in Admins : u # t => LockedBy(u)' = LockedBy(u)  BY <1>1 DEF LockedBy
<1> QED  BY <1>1, <1>2, <1>3 DEF LocksOK

\* Sites that stay as they are or are only revised keep what requests rely on.
LEMMA RequestStays ==
  ASSUME NEW q, RequestOK(q), DOMAIN site \subseteq DOMAIN site',
         q # NoRequest /\ q.step # "asked" /\ q.op \in NeedActive =>
           (site'[q.site].active <=> site[q.site].active)
  PROVE  RequestOK(q)'
  BY DEF RequestOK

\* What a write leaves of the row of a site.
LEMMA RowIsWritten ==
  ASSUME NEW r \in [active : BOOLEAN, default : BOOLEAN, revision : Nat],
         NEW a \in BOOLEAN, NEW d \in BOOLEAN,
         NEW w, \/ w = [r EXCEPT !.active = a, !.default = d, !.revision = @ + 1]
                \/ w = [r EXCEPT !.default = d, !.revision = @ + 1] /\ (a <=> r.active)
                \/ w = r /\ (a <=> r.active) /\ (d <=> r.default)
  PROVE  /\ w \in [active : BOOLEAN, default : BOOLEAN, revision : Nat]
         /\ (w.active <=> a) /\ (w.default <=> d)
<1>1. CASE w = [r EXCEPT !.active = a, !.default = d, !.revision = @ + 1]
  <2>1. w = [active |-> a, default |-> d, revision |-> r.revision + 1]  BY <1>1
  <2> QED  BY <2>1
<1>2. CASE w = [r EXCEPT !.default = d, !.revision = @ + 1] /\ (a <=> r.active)
  <2>1. w = [active |-> r.active, default |-> d, revision |-> r.revision + 1]  BY <1>2
  <2> QED  BY <1>2, <2>1
<1>3. CASE w = r /\ (a <=> r.active) /\ (d <=> r.default)  BY <1>3
<1> QED  BY <1>1, <1>2, <1>3

LEMMA BumpIsOK ==
  ASSUME RowsOK, NEW S \in SUBSET DOMAIN site, site' = Override(site, Bumped(S))
  PROVE  /\ DOMAIN site' = DOMAIN site
         /\ \A s \in DOMAIN site :
              /\ site'[s] \in [active : BOOLEAN, default : BOOLEAN, revision : Nat]
              /\ (site'[s].active <=> site[s].active) /\ (site'[s].default <=> site[s].default)
<1>1. site' = [x \in DOMAIN site |-> IF x \in S THEN [site[x] EXCEPT !.revision = @ + 1] ELSE site[x]]
  BY DEF Override, Bumped
<1>2. ASSUME NEW s \in DOMAIN site
      PROVE  /\ site'[s] \in [active : BOOLEAN, default : BOOLEAN, revision : Nat]
             /\ (site'[s].active <=> site[s].active) /\ (site'[s].default <=> site[s].default)
  <2>1. site[s] \in [active : BOOLEAN, default : BOOLEAN, revision : Nat]  BY DEF RowsOK
  <2>2. CASE s \in S
    <3>1. site'[s] = [site[s] EXCEPT !.revision = @ + 1]  BY <1>1, <2>2
    <3> QED  BY <2>1, <3>1
  <2>3. CASE s \notin S
    BY <1>1, <2>1, <2>3
  <2> QED  BY <2>2, <2>3
<1> QED  BY <1>1, <1>2

\* As long as nobody's default or activity changes the default stands.
LEMMA DefaultStays ==
  ASSUME DefaultStands, DOMAIN site' = DOMAIN site,
         \A s \in DOMAIN site :
            (site'[s].active <=> site[s].active) /\ (site'[s].default <=> site[s].default)
  PROVE  DefaultStands'
  BY DEF DefaultStands

-----------------------------------------------------------------------------
(* The steps of a request *)

Bindings == <<binding, resource, sitePolicy>>

\* A pass is not disturbed by a step that leaves the bindings alone.
LEMMA PassStays ==
  ASSUME RowsOK, PassOK, DoneOK, UNCHANGED <<binding, resource, configured, pass>>,
         sitePolicy' = sitePolicy \/ sitePolicy' = sitePolicy + 1
  PROVE  PassOK' /\ DoneOK'
  BY DEF RowsOK, PassOK, DoneOK, Hangs, ParentOf

\* A request goes on, or ends, and no row changes.
LEMMA MoveIsOK ==
  ASSUME SitesIInv, NEW t \in Admins, UNCHANGED <<site, Bindings, configured, pass>>,
         NEW q, request' = [request EXCEPT ![t] = q], RequestOK(q), LocksOK'
  PROVE  SitesIInv'
<1>1. RowsOK' /\ DefaultStands'  BY DEF SitesIInv, RowsOK, DefaultStands, Bindings
<1>2. PassOK' /\ DoneOK'  BY PassStays DEF SitesIInv, Bindings
<1>3. RequestsOK'
  <2>1. ASSUME NEW u \in Admins  PROVE RequestOK(request'[u])
    BY DEF SitesIInv, RequestsOK
  <2> QED  BY <2>1 DEF SitesIInv, RequestsOK, RequestOK
<1> QED  BY <1>1, <1>2, <1>3 DEF SitesIInv

LEMMA RefuseIsOK ==
  ASSUME SitesIInv, NEW t \in Admins, Refuse(t), UNCHANGED <<configured, pass>>
  PROVE  SitesIInv'
  BY MoveIsOK, FinishReleases DEF SitesIInv, Refuse, Finish, RequestOK, Bindings

\* A request that ends after it changed sites.
LEMMA WriteIsOK ==
  ASSUME SitesIInv, NEW t \in Admins, Finish(t), DOMAIN site' = DOMAIN site,
         \A s \in DOMAIN site :
            site'[s] \in [active : BOOLEAN, default : BOOLEAN, revision : Nat],
         \A s \in DOMAIN site :
            \/ s \in LockedBy(t)
            \/ (site'[s].active <=> site[s].active)
  PROVE  RequestsOK' /\ LocksOK'
<1>1. /\ LocksOK' /\ DOMAIN request' = Admins /\ request'[t] = NoRequest
      /\ \A u \in Admins : u # t => request'[u] = request[u]
  BY FinishReleases DEF SitesIInv
<1>2. ASSUME NEW u \in Admins, u # t  PROVE RequestOK(request[u])'
  <2>1. RequestOK(request[u])  BY DEF SitesIInv, RequestsOK
  <2>2. CASE request[u] = NoRequest  BY <1>1, <1>2, <2>2 DEF RequestOK
  <2>3. CASE request[u] # NoRequest /\ request[u].step # "asked"
    <3>1. request[u].site \in LockedBy(u)
      BY <2>1, <2>3 DEF RequestOK, LockedBy, Steps
    <3>2. request[u].site \notin LockedBy(t)  BY <1>2, <3>1 DEF SitesIInv, LocksOK
    <3> QED  BY <1>1, <1>2, <2>1, <2>3, <3>2 DEF RequestOK
  <2>4. CASE request[u] # NoRequest /\ request[u].step = "asked"
    BY <1>1, <1>2, <2>1, <2>4 DEF RequestOK
  <2> QED  BY <2>2, <2>3, <2>4
<1> QED  BY <1>1, <1>2 DEF RequestsOK, RequestOK

\* ... and who a request is about may be read off its record.
LEMMA RequestForm ==
  ASSUME SitesIInv, NEW t \in Admins, request[t].step \in Steps
  PROVE  LET q == request[t] IN
         /\ q = [step |-> q.step, op |-> q.op, site |-> q.site, other |-> q.other,
                 revision |-> q.revision, policy |-> q.policy, seen |-> q.seen]
         /\ q.site \in DOMAIN site
         /\ q.step \in {"locked", "clearing", "cleared"} => q.site \in LockedBy(t)
         /\ q.op = "archive" => q.other \in DOMAIN site
         /\ q.step # "asked" /\ q.op \in NeedActive => site[q.site].active
         /\ q.step \in {"clearing", "cleared"} => q.seen \subseteq DOMAIN site
<1>1. request[t] # NoRequest  BY DEF Steps, NoRequest
<1> QED  BY <1>1 DEF SitesIInv, RequestsOK, RequestOK, LockedBy, Steps

LEMMA AskIsOK ==
  ASSUME SitesIInv, NEW t \in Admins, NEW s \in DOMAIN site, Ask(t, s),
         UNCHANGED <<configured, pass>>
  PROVE  SitesIInv'
<1>1. PICK o \in Operations(s) :
        request' = [request EXCEPT ![t] =
          [step |-> "asked", op |-> o.op, site |-> s, other |-> o.other,
           revision |-> site[s].revision, policy |-> sitePolicy, seen |-> {}]]
  BY DEF Ask
<1> DEFINE q == [step |-> "asked", op |-> o.op, site |-> s, other |-> o.other,
                 revision |-> site[s].revision, policy |-> sitePolicy, seen |-> {}]
<1>2. o.op = "archive" => o.other \in DOMAIN site  BY DEF Operations
<1>3. RequestOK(q)  BY <1>2 DEF RequestOK, Steps
<1>4. LocksOK'
  <2>1. LockedBy(t)' = {}  BY <1>1 DEF SitesIInv, RequestsOK, LockedBy
  <2>2. \A u \in Admins : u # t => LockedBy(u)' = LockedBy(u)
    BY <1>1 DEF SitesIInv, RequestsOK, LockedBy
  <2> QED  BY <2>1, <2>2 DEF SitesIInv, LocksOK
<1> HIDE DEF q
<1> QED  BY <1>1, <1>3, <1>4, MoveIsOK DEF Ask, Bindings, q

\* A request that goes on has locked what was free.
LEMMA GotoIsOK ==
  ASSUME SitesIInv, NEW t \in Admins, request[t].step \in Steps,
         NEW step \in {"locked", "clearing", "cleared"}, NEW seen,
         Goto(t, step, seen), UNCHANGED <<configured, pass>>,
         step \in {"clearing", "cleared"} =>
           seen \subseteq DOMAIN site /\ request[t].op = "setDefault",
         request[t].op \in NeedActive => site[request[t].site].active,
         \A s \in {request[t].site} \cup (IF step = "cleared" THEN seen ELSE {}) :
            Free(s, t)
  PROVE  SitesIInv'
<1> DEFINE q == [request[t] EXCEPT !.step = step, !.seen = seen]
<1>1. request' = [request EXCEPT ![t] = q]
  BY DEF Goto, SitesIInv, RequestsOK
<1>2. q = [step |-> step, op |-> request[t].op, site |-> request[t].site,
           other |-> request[t].other, revision |-> request[t].revision,
           policy |-> request[t].policy, seen |-> seen]
  <2>1. request[t] = [step |-> request[t].step, op |-> request[t].op, site |-> request[t].site,
                      other |-> request[t].other, revision |-> request[t].revision,
                      policy |-> request[t].policy, seen |-> request[t].seen]
    BY RequestForm
  <2>2. ASSUME NEW r,
               r = [step |-> r.step, op |-> r.op, site |-> r.site, other |-> r.other,
                    revision |-> r.revision, policy |-> r.policy, seen |-> r.seen],
               NEW w, w = [r EXCEPT !.step = step, !.seen = seen]
        PROVE  w = [step |-> step, op |-> r.op, site |-> r.site, other |-> r.other,
                    revision |-> r.revision, policy |-> r.policy, seen |-> seen]
    BY ONLY <2>2
  <2> QED  BY <2>1, <2>2
<1>3. RequestOK(q)
  <2>1. /\ request[t].site \in DOMAIN site
        /\ request[t].op = "archive" => request[t].other \in DOMAIN site
    BY RequestForm
  <2> HIDE DEF q
  <2>2. /\ q.step = step /\ q.op = request[t].op /\ q.site = request[t].site
        /\ q.other = request[t].other /\ q.seen = seen
    BY <1>2
  <2>3. q = [step |-> q.step, op |-> q.op, site |-> q.site, other |-> q.other,
             revision |-> q.revision, policy |-> q.policy, seen |-> q.seen]
    BY <1>2
  <2> QED  BY <2>1, <2>2, <2>3 DEF RequestOK, Steps
<1>4. LocksOK'
  <2>1. LockedBy(t)' = {request[t].site} \cup (IF step = "cleared" THEN seen ELSE {})
    <3> HIDE DEF q
    <3>1. request'[t] = q  BY <1>1 DEF SitesIInv, RequestsOK
    <3>2. q.step = step /\ q.site = request[t].site /\ q.seen = seen  BY <1>2
    <3> QED  BY <3>1, <3>2 DEF LockedBy
  <2>2. \A u \in Admins : u # t => LockedBy(u)' = LockedBy(u)
    BY <1>1 DEF SitesIInv, RequestsOK, LockedBy
  <2> QED  BY <2>1, <2>2 DEF SitesIInv, LocksOK, Free
<1> HIDE DEF q
<1> QED  BY <1>1, <1>3, <1>4, MoveIsOK DEF Goto, Bindings

LEMMA LockSiteIsOK ==
  ASSUME SitesIInv, NEW t \in Admins, LockSite(t), UNCHANGED <<configured, pass>>
  PROVE  SitesIInv'
<1>1. CASE Refuse(t)  BY <1>1, RefuseIsOK
<1>2. CASE Goto(t, "locked", {}) /\ Acceptable(request[t]) /\ Free(request[t].site, t)
  <2>1. request[t].step = "asked"  BY DEF LockSite
  <2>2. request[t].op \in NeedActive => site[request[t].site].active
    BY <1>2 DEF Acceptable, NeedActive
  <2> QED  BY <1>2, <2>1, <2>2, GotoIsOK DEF Steps
<1> QED  BY <1>1, <1>2 DEF LockSite

LEMMA FindDefaultIsOK ==
  ASSUME SitesIInv, NEW t \in Admins, FindDefault(t) \/ ClearDefault(t),
         UNCHANGED <<configured, pass>>
  PROVE  SitesIInv'
<1>1. request[t].step \in {"locked", "clearing"}
  BY DEF FindDefault, ClearDefault
<1>2. request[t].op = "setDefault" /\ site[request[t].site].active
  <2>1. RequestOK(request[t]) /\ request[t] # NoRequest
    BY <1>1 DEF SitesIInv, RequestsOK, NoRequest
  <2>2. request[t].op = "setDefault"
    BY <2>1 DEF FindDefault, ClearDefault, RequestOK
  <2>3. request[t].step # "asked"  BY <1>1
  <2> QED  BY <2>1, <2>2, <2>3 DEF RequestOK, NeedActive
<1>3. Free(request[t].site, t)
  BY <1>1, RequestForm DEF SitesIInv, LocksOK, Free, Steps
<1>4. CASE FindDefault(t)
  BY <1>1, <1>2, <1>3, <1>4, GotoIsOK DEF FindDefault, Steps
<1>5. CASE ClearDefault(t)
  <2>1. request[t].seen \subseteq DOMAIN site
    BY <1>1, <1>5, RequestForm DEF ClearDefault, Steps
  <2> QED  BY <1>1, <1>2, <1>3, <1>5, <2>1, GotoIsOK DEF ClearDefault, Steps
<1> QED  BY <1>4, <1>5

-----------------------------------------------------------------------------
(* The writes of a request *)

LEMMA UpdateIsOK ==
  ASSUME SitesIInv, NEW t \in Admins, UpdateSite(t), UNCHANGED <<configured, pass>>
  PROVE  SitesIInv'
<1>1. {request[t].site} \in SUBSET DOMAIN site
  BY RequestForm DEF UpdateSite, Steps
<1>2. /\ DOMAIN site' = DOMAIN site
      /\ \A s \in DOMAIN site :
           /\ site'[s] \in [active : BOOLEAN, default : BOOLEAN, revision : Nat]
           /\ (site'[s].active <=> site[s].active) /\ (site'[s].default <=> site[s].default)
  BY <1>1, BumpIsOK DEF UpdateSite, SitesIInv
<1>3. sitePolicy' = sitePolicy \/ sitePolicy' = sitePolicy + 1  BY DEF UpdateSite
<1>4. RowsOK'
  <2>1. binding' = binding /\ resource' = resource /\ sitePolicy' \in Nat
    BY <1>3 DEF UpdateSite, SitesIInv, RowsOK
  <2> QED  BY <1>2, <2>1 DEF SitesIInv, RowsOK
<1>5. RequestsOK' /\ LocksOK'  BY <1>2, WriteIsOK DEF UpdateSite
<1>6. DefaultStands'  BY <1>2, DefaultStays DEF SitesIInv
<1>7. PassOK' /\ DoneOK'  BY <1>3, PassStays DEF UpdateSite, SitesIInv
<1> QED  BY <1>4, <1>5, <1>6, <1>7 DEF SitesIInv

\* A write that moves or keeps the default and leaves the bindings alone.
LEMMA SitesWriteIsOK ==
  ASSUME SitesIInv, NEW t \in Admins, Finish(t), DOMAIN site' = DOMAIN site,
         \A s \in DOMAIN site :
            site'[s] \in [active : BOOLEAN, default : BOOLEAN, revision : Nat],
         \A s \in DOMAIN site : s \in LockedBy(t) \/ (site'[s].active <=> site[s].active),
         DefaultStands', UNCHANGED <<Bindings, configured, pass>>
  PROVE  SitesIInv'
<1>1. RowsOK'  BY DEF SitesIInv, RowsOK, Bindings
<1>2. RequestsOK' /\ LocksOK'  BY WriteIsOK
<1>3. PassOK' /\ DoneOK'  BY PassStays DEF SitesIInv, Bindings
<1> QED  BY <1>1, <1>2, <1>3 DEF SitesIInv

LEMMA SetArchivedIsOK ==
  ASSUME SitesIInv, NEW t \in Admins, SetArchived(t), UNCHANGED <<configured, pass>>
  PROVE  SitesIInv'
<1> DEFINE a == request[t].site
           b == request[t].other
           archive == request[t].op = "archive"
           replaced == IF archive /\ site[a].default THEN {b} ELSE {}
<1>1. /\ a \in DOMAIN site /\ a \in LockedBy(t)
      /\ archive => b \in DOMAIN site
  BY RequestForm DEF SetArchived, Steps
<1>2. CASE Refuse(t)  BY <1>2, RefuseIsOK
<1>3. CASE /\ \A r \in replaced : r # a /\ site[r].active /\ DefaultIsFree(r, {a})
           /\ site' = [s \in DOMAIN site |->
                IF s = a
                THEN [site[s] EXCEPT !.active = ~archive, !.default = @ /\ ~archive,
                                     !.revision = @ + 1]
                ELSE IF s \in replaced
                THEN [site[s] EXCEPT !.default = TRUE, !.revision = @ + 1]
                ELSE site[s]]
           /\ Finish(t) /\ UNCHANGED <<binding, resource, sitePolicy>>
  <2>1. \A s \in DOMAIN site :
          site[s] \in [active : BOOLEAN, default : BOOLEAN, revision : Nat]
    BY DEF SitesIInv, RowsOK
  <2>2. archive \in BOOLEAN /\ a \notin replaced  BY <1>3
  <2> HIDE DEF archive, replaced
  <2>3. ASSUME NEW s \in DOMAIN site
        PROVE  /\ site'[s] \in [active : BOOLEAN, default : BOOLEAN, revision : Nat]
               /\ s = a => (site'[s].active <=> ~archive)
                           /\ (site'[s].default <=> site[s].default /\ ~archive)
               /\ s # a => (site'[s].active <=> site[s].active)
                           /\ (site'[s].default <=> site[s].default \/ s \in replaced)
    <3>1. PICK r : r = site[s]  OBVIOUS
    <3>2. r \in [active : BOOLEAN, default : BOOLEAN, revision : Nat]  BY <2>1, <3>1
    <3>3. CASE s = a
      <4>1. PICK dd \in BOOLEAN : dd <=> (r.default /\ ~archive)  OBVIOUS
      <4>2. (r.default /\ ~archive) = dd  BY <3>2, <4>1
      <4>3. site'[s] = [r EXCEPT !.active = ~archive, !.default = dd, !.revision = @ + 1]
        BY <1>3, <3>1, <3>3, <4>2
      <4>4. (~archive) \in BOOLEAN  OBVIOUS
      <4>5. /\ site'[s] \in [active : BOOLEAN, default : BOOLEAN, revision : Nat]
            /\ (site'[s].active <=> ~archive) /\ (site'[s].default <=> dd)
        BY <3>2, <4>3, <4>4, RowIsWritten
      <4> QED  BY <3>1, <3>3, <4>1, <4>5
    <3>4. CASE s # a /\ s \in replaced
      <4>1. site'[s] = [r EXCEPT !.default = TRUE, !.revision = @ + 1]
        BY <1>3, <3>1, <3>4
      <4>2. r.active \in BOOLEAN  BY <3>2
      <4>3. /\ site'[s] \in [active : BOOLEAN, default : BOOLEAN, revision : Nat]
            /\ (site'[s].active <=> r.active) /\ site'[s].default
        BY <3>2, <4>1, <4>2, RowIsWritten
      <4> QED  BY <3>1, <3>4, <4>3
    <3>5. CASE s # a /\ s \notin replaced
      <4>1. site'[s] = r  BY <1>3, <3>1, <3>5
      <4> QED  BY <3>1, <3>2, <3>5, <4>1
    <3> QED  BY <3>3, <3>4, <3>5
  <2>4. DOMAIN site' = DOMAIN site  BY <1>3
  <2>5. DefaultStands'
    <3>0. DOMAIN site # {}  BY <1>1
    <3>1. PICK d \in DOMAIN site : /\ site[d].default /\ site[d].active
                                   /\ \A x \in DOMAIN site : site[x].default => x = d
      BY <3>0 DEF SitesIInv, DefaultStands
    <3>2. CASE archive /\ d = a
      <4>1. replaced = {b}  BY <3>1, <3>2 DEF replaced
      <4>2. /\ b \in DOMAIN site /\ b # a /\ site[b].active
            /\ \A x \in DOMAIN site \ {a, b} : ~site[x].default
        BY <1>1, <1>3, <3>2, <4>1 DEF DefaultIsFree
      <4> QED  BY <2>3, <2>4, <3>2, <4>1, <4>2 DEF DefaultStands
    <3>3. CASE ~archive \/ d # a
      <4>1. replaced = {}  BY <1>1, <3>1, <3>3 DEF replaced
      <4>2. d = a => ~archive  BY <3>3
      <4> QED  BY <2>3, <2>4, <3>1, <4>1, <4>2 DEF DefaultStands
    <3> QED  BY <3>2, <3>3
  <2>6. \A s \in DOMAIN site : s \in LockedBy(t) \/ (site'[s].active <=> site[s].active)
    BY <1>1, <2>3
  <2> QED  BY <1>3, <2>3, <2>4, <2>5, <2>6, SitesWriteIsOK DEF Bindings
<1> QED  BY <1>2, <1>3 DEF SetArchived

LEMMA SetDefaultIsOK ==
  ASSUME SitesIInv, NEW t \in Admins, SetDefault(t), UNCHANGED <<configured, pass>>
  PROVE  SitesIInv'
<1> DEFINE a == request[t].site
           seen == request[t].seen
<1>1. a \in DOMAIN site /\ site[a].active /\ seen \subseteq DOMAIN site
  <2>1. request[t].step = "cleared"  BY DEF SetDefault
  <2>2. request[t] # NoRequest  BY <2>1 DEF NoRequest
  <2> QED  BY <2>1, <2>2, RequestForm DEF SitesIInv, RequestsOK, RequestOK, Steps, NeedActive
<1>2. CASE Refuse(t)  BY <1>2, RefuseIsOK
<1>3. CASE /\ DefaultIsFree(a, seen)
           /\ site' = [s \in DOMAIN site |->
                IF s \in seen \cup {a}
                THEN [site[s] EXCEPT !.default = (s = a), !.revision = @ + 1] ELSE site[s]]
           /\ Finish(t) /\ UNCHANGED <<binding, resource, sitePolicy>>
  <2>1. \A s \in DOMAIN site :
          site[s] \in [active : BOOLEAN, default : BOOLEAN, revision : Nat]
    BY DEF SitesIInv, RowsOK
  <2> HIDE DEF a, seen
  <2>2. ASSUME NEW s \in DOMAIN site
        PROVE  /\ site'[s] \in [active : BOOLEAN, default : BOOLEAN, revision : Nat]
               /\ (site'[s].active <=> site[s].active)
               /\ s \in seen \cup {a} => (site'[s].default <=> s = a)
               /\ s \notin seen \cup {a} => (site'[s].default <=> site[s].default)
    <3>1. PICK r : r = site[s]  OBVIOUS
    <3>2. r \in [active : BOOLEAN, default : BOOLEAN, revision : Nat]  BY <2>1, <3>1
    <3>3. CASE s \in seen \cup {a}
      <4>1. PICK dd \in BOOLEAN : dd = (s = a)  OBVIOUS
      <4>2. site'[s] = [r EXCEPT !.default = dd, !.revision = @ + 1]
        BY <1>3, <3>1, <3>3, <4>1
      <4>3. r.active \in BOOLEAN  BY <3>2
      <4>4. /\ site'[s] \in [active : BOOLEAN, default : BOOLEAN, revision : Nat]
            /\ (site'[s].active <=> r.active) /\ (site'[s].default <=> dd)
        BY <3>2, <4>2, <4>3, RowIsWritten
      <4> QED  BY <3>1, <3>3, <4>1, <4>4
    <3>4. CASE s \notin seen \cup {a}
      <4>1. site'[s] = r  BY <1>3, <3>1, <3>4
      <4> QED  BY <3>1, <3>2, <3>4, <4>1
    <3> QED  BY <3>3, <3>4
  <2>3. DOMAIN site' = DOMAIN site  BY <1>3
  <2>4. \A x \in DOMAIN site : site'[x].default <=> x = a
    BY <1>1, <1>3, <2>2 DEF DefaultIsFree
  <2>5. DefaultStands'  BY <1>1, <2>2, <2>3, <2>4 DEF DefaultStands
  <2> QED  BY <1>3, <2>2, <2>3, <2>5, SitesWriteIsOK DEF Bindings
<1> QED  BY <1>2, <1>3 DEF SetDefault

\* A collection that is bound elsewhere hangs there at once, the others stay.
LEMMA BindingMoves ==
  ASSUME RowsOK, PassOK, DoneOK, UNCHANGED <<configured, pass>>,
         sitePolicy' = sitePolicy + 1, NEW c, Hangs(c)',
         \A d : d # c => /\ ParentOf(binding', d) = ParentOf(binding, d)
                         /\ d \in DOMAIN resource' <=> d \in DOMAIN resource
                         /\ resource'[d] = resource[d]
  PROVE  PassOK' /\ DoneOK'
<1>1. ASSUME NEW d, Hangs(d)  PROVE Hangs(d)'
  BY <1>1 DEF Hangs
<1>2. DoneOK'  BY <1>1 DEF DoneOK
<1>3. PassOK'
  <2> SUFFICES ASSUME pass.step = "sync"  PROVE PassOK'
    BY DEF PassOK
  <2>1. /\ pass = [step |-> "sync", listed |-> pass.listed, seen |-> pass.seen,
                   revision |-> pass.revision, resources |-> pass.resources]
        /\ pass.revision \in Nat /\ pass.revision <= sitePolicy' /\ sitePolicy' # pass.revision
    BY DEF PassOK, RowsOK
  <2>2. ASSUME NEW d
        PROVE \/ Hangs(d)'
              \/ /\ ParentOf(binding', d) = ParentOf(pass.seen, d)
                 /\ d \in DOMAIN resource' <=> d \in DOMAIN pass.resources
                 /\ d \in DOMAIN resource' => resource'[d] = pass.resources[d]
    BY <1>1 DEF PassOK
  <2> QED  BY <2>1, <2>2 DEF PassOK
<1> QED  BY <1>2, <1>3

LEMMA SetCollectionBindingIsOK ==
  ASSUME SitesIInv, NEW t \in Admins, SetCollectionBinding(t), UNCHANGED <<configured, pass>>
  PROVE  SitesIInv'
<1>0. PICK c : c = request[t].other  OBVIOUS
<1> DEFINE a == request[t].site
           bind == request[t].op = "bind"
           previous == IF bind /\ c \in DOMAIN binding THEN {binding[c]} ELSE {}
           parent == IF bind THEN a ELSE Content
<1>1. a \in DOMAIN site  BY RequestForm DEF SetCollectionBinding, Steps
<1>2. CASE Refuse(t)  BY <1>2, RefuseIsOK
<1>3. CASE /\ c \in DOMAIN resource /\ resource[c].type = "collection"
           /\ binding' = IF bind THEN Override(binding, [x \in {c} |-> a])
                         ELSE Without(binding, {c})
           /\ resource' = [resource EXCEPT ![c].parent = parent]
           /\ site' = Override(site, Bumped(previous \cup {a}))
           /\ sitePolicy' = sitePolicy + 1
           /\ Finish(t)
  <2>1. previous \cup {a} \in SUBSET DOMAIN site
    BY <1>1 DEF SitesIInv, RowsOK
  <2> HIDE DEF a, previous, parent
  <2>2. /\ DOMAIN site' = DOMAIN site
        /\ \A s \in DOMAIN site :
             /\ site'[s] \in [active : BOOLEAN, default : BOOLEAN, revision : Nat]
             /\ (site'[s].active <=> site[s].active) /\ (site'[s].default <=> site[s].default)
    BY <1>3, <2>1, BumpIsOK DEF SitesIInv
  <2>3. resource'[c] = [type |-> "collection", parent |-> parent]
    <3>1. PICK r : r = resource[c]  OBVIOUS
    <3>2. r = [type |-> "collection", parent |-> r.parent]
      BY <1>3, <3>1 DEF SitesIInv, RowsOK
    <3>3. resource'[c] = [r EXCEPT !.parent = parent]  BY <1>3, <3>1
    <3> QED  BY <3>2, <3>3
  <2>4. ParentOf(binding', c) = parent
    BY <1>3 DEF ParentOf, Override, Without, parent
  <2>5. DOMAIN resource' = DOMAIN resource  BY <1>3
  <2>6. \A d : d # c => /\ ParentOf(binding', d) = ParentOf(binding, d)
                        /\ d \in DOMAIN resource' <=> d \in DOMAIN resource
                        /\ resource'[d] = resource[d]
    <3>1. ASSUME NEW d, d # c
          PROVE ParentOf(binding', d) = ParentOf(binding, d)
      BY <1>3, <3>1 DEF ParentOf, Override, Without
    <3>2. ASSUME NEW d, d # c  PROVE resource'[d] = resource[d]
      BY <1>3, <3>2
    <3> QED  BY <2>5, <3>1, <3>2
  <2>7. Hangs(c)'  BY <1>3, <2>3, <2>4, <2>5 DEF Hangs
  <2>8. PassOK' /\ DoneOK'
    BY <1>3, <2>6, <2>7, BindingMoves DEF SitesIInv
  <2>9. RowsOK'
    <3>1. \A d \in DOMAIN resource' :
            resource'[d] = [type |-> resource'[d].type, parent |-> resource'[d].parent]
      BY <2>3, <2>5, <2>6 DEF SitesIInv, RowsOK
    <3>2. \A d \in DOMAIN binding' : binding'[d] \in DOMAIN site'
      BY <1>1, <1>3, <2>2 DEF SitesIInv, RowsOK, Override, Without, a
    <3>3. sitePolicy' \in Nat  BY <1>3 DEF SitesIInv, RowsOK
    <3> QED  BY <2>2, <3>1, <3>2, <3>3 DEF RowsOK
  <2>10. RequestsOK' /\ LocksOK'  BY <1>3, <2>2, WriteIsOK
  <2>11. DefaultStands'  BY <2>2, DefaultStays DEF SitesIInv
  <2> QED  BY <2>8, <2>9, <2>10, <2>11 DEF SitesIInv
<1> QED  BY <1>0, <1>2, <1>3 DEF SetCollectionBinding

-----------------------------------------------------------------------------
(* New sites *)

LEMMA CreateSiteIsOK ==
  ASSUME SitesIInv, NEW s, CreateSite(s)  PROVE SitesIInv'
<1> DEFINE row == [active |-> TRUE, default |-> DOMAIN site = {}, revision |-> 1]
<1>1. /\ s \notin DOMAIN site /\ DOMAIN site' = DOMAIN site \cup {s}
      /\ \A x \in DOMAIN site : site'[x] = site[x]
      /\ site'[s] = row
  BY DEF CreateSite, Override
<1>2. /\ row \in [active : BOOLEAN, default : BOOLEAN, revision : Nat]
      /\ row.active /\ (row.default <=> DOMAIN site = {})
  OBVIOUS
<1> HIDE DEF row
<1>3. RowsOK'
  <2>1. \A x \in DOMAIN site' :
          site'[x] \in [active : BOOLEAN, default : BOOLEAN, revision : Nat]
    BY <1>1, <1>2 DEF SitesIInv, RowsOK
  <2>2. \A c \in DOMAIN binding' : binding'[c] \in DOMAIN site'
    BY <1>1 DEF CreateSite, SitesIInv, RowsOK
  <2>3. resource' = resource /\ sitePolicy' \in Nat
    BY DEF CreateSite, SitesIInv, RowsOK
  <2> QED  BY <2>1, <2>2, <2>3 DEF SitesIInv, RowsOK
<1>4. RequestsOK'
  <2>1. ASSUME NEW t \in Admins  PROVE RequestOK(request[t])'
    BY <1>1, RequestStays DEF CreateSite, SitesIInv, RequestsOK, RequestOK
  <2> QED  BY <2>1 DEF CreateSite, SitesIInv, RequestsOK, RequestOK
<1>5. LocksOK'  BY DEF CreateSite, SitesIInv, LocksOK, LockedBy
<1>6. DefaultStands'
  <2>1. CASE DOMAIN site = {}  BY <1>1, <1>2, <2>1 DEF DefaultStands
  <2>2. CASE DOMAIN site # {}
    <3>1. PICK d \in DOMAIN site : /\ site[d].default /\ site[d].active
                                   /\ \A x \in DOMAIN site : site[x].default => x = d
      BY <2>2 DEF SitesIInv, DefaultStands
    <3> QED  BY <1>1, <1>2, <2>2, <3>1 DEF DefaultStands
  <2> QED  BY <2>1, <2>2
<1>7. PassOK' /\ DoneOK'  BY PassStays DEF CreateSite, SitesIInv
<1> QED  BY <1>3, <1>4, <1>5, <1>6, <1>7 DEF SitesIInv

-----------------------------------------------------------------------------
(* The steps of a pass *)

\* A step of a pass that writes no site and no binding.
LEMMA PassMoves ==
  ASSUME SitesIInv, UNCHANGED <<site, binding, request>>, sitePolicy' \in Nat,
         \A c \in DOMAIN resource' :
           resource'[c] = [type |-> resource'[c].type, parent |-> resource'[c].parent],
         PassOK', DoneOK'
  PROVE  SitesIInv'
  BY DEF SitesIInv, RowsOK, RequestsOK, RequestOK, LocksOK, LockedBy, DefaultStands

LEMMA ReconcileIsOK ==
  ASSUME SitesIInv, ReconcileCollections  PROVE SitesIInv'
<1> DEFINE stale == DOMAIN binding \ configured
           sites == {binding[c] : c \in stale}
<1>1. sites \in SUBSET DOMAIN site  BY DEF SitesIInv, RowsOK
<1>2. /\ binding' = Without(binding, stale)
      /\ site' = Override(site, Bumped(sites))
      /\ UNCHANGED <<resource, sitePolicy, request>>
  BY DEF ReconcileCollections
<1> HIDE DEF sites
<1>3. /\ DOMAIN site' = DOMAIN site
      /\ \A s \in DOMAIN site :
           /\ site'[s] \in [active : BOOLEAN, default : BOOLEAN, revision : Nat]
           /\ (site'[s].active <=> site[s].active) /\ (site'[s].default <=> site[s].default)
  BY <1>1, <1>2, BumpIsOK DEF SitesIInv
<1>4. RowsOK'
  <2>1. \A d \in DOMAIN binding' : binding'[d] \in DOMAIN site'
    BY <1>2, <1>3 DEF SitesIInv, RowsOK, Without
  <2> QED  BY <1>2, <1>3, <2>1 DEF SitesIInv, RowsOK
<1>5. RequestsOK'
  <2>1. ASSUME NEW t \in Admins  PROVE RequestOK(request[t])'
    <3>1. RequestOK(request[t])  BY DEF SitesIInv, RequestsOK
    <3>2. request[t] # NoRequest => request[t].site \in DOMAIN site
      BY <3>1 DEF RequestOK
    <3> QED  BY <1>2, <1>3, <3>1, <3>2 DEF RequestOK
  <2> QED  BY <1>2, <2>1 DEF SitesIInv, RequestsOK, RequestOK
<1>6. LocksOK'  BY <1>2 DEF SitesIInv, LocksOK, LockedBy
<1>7. DefaultStands'  BY <1>3, DefaultStays DEF SitesIInv
<1>8. PassOK' /\ DoneOK'  BY DEF ReconcileCollections, PassOK, DoneOK
<1> QED  BY <1>4, <1>5, <1>6, <1>7, <1>8 DEF SitesIInv

LEMMA GetPolicyIsOK ==
  ASSUME SitesIInv, GetPolicy  PROVE SitesIInv'
<1>1. /\ pass' = [step |-> "sync", listed |-> pass.listed, seen |-> binding,
                  revision |-> sitePolicy, resources |-> resource]
      /\ UNCHANGED <<site, binding, resource, sitePolicy, configured, request>>
  BY DEF GetPolicy
<1>2. /\ pass'.step = "sync" /\ pass'.listed = pass.listed /\ pass'.seen = binding
      /\ pass'.revision = sitePolicy /\ pass'.resources = resource
  BY <1>1
<1>3. PassOK'
  BY <1>1, <1>2 DEF PassOK, SitesIInv, RowsOK, ParentOf
<1>4. DoneOK'  BY <1>2 DEF DoneOK
<1> QED  BY <1>1, <1>3, <1>4, PassMoves DEF SitesIInv, RowsOK

\* A resource is written while nothing was bound since the policy was read.
LEMMA SyncIsOK ==
  ASSUME SitesIInv, NEW c, SyncResource(c)  PROVE SitesIInv'
<1>1. CASE pass' = [step |-> "idle"] /\ UNCHANGED <<resource, sitePolicy>>
  <2>1. pass'.step = "idle"  BY <1>1
  <2>2. PassOK' /\ DoneOK'  BY <2>1 DEF PassOK, DoneOK
  <2> QED  BY <1>1, <2>2, PassMoves DEF SyncResource, SitesIInv, RowsOK
<1>2. CASE /\ PolicyIsAsRead
           /\ resource' = Override(resource, [x \in {c} |-> Desired(c)])
           /\ sitePolicy' = sitePolicy + 1
           /\ pass' = [pass EXCEPT !.revision = sitePolicy', !.resources = resource']
  <2>1. /\ pass = [step |-> "sync", listed |-> pass.listed, seen |-> pass.seen,
                   revision |-> pass.revision, resources |-> pass.resources]
        /\ pass.seen = binding
    BY <1>2 DEF SyncResource, SitesIInv, PassOK, PolicyIsAsRead
  <2>2. /\ pass'.step = "sync" /\ pass'.listed = pass.listed /\ pass'.seen = binding
        /\ pass'.revision = sitePolicy' /\ pass'.resources = resource'
        /\ pass' = [step |-> "sync", listed |-> pass.listed, seen |-> binding,
                    revision |-> sitePolicy', resources |-> resource']
    <3>1. ASSUME NEW p, NEW v, NEW e,
                 p = [step |-> p.step, listed |-> p.listed, seen |-> p.seen,
                      revision |-> p.revision, resources |-> p.resources],
                 NEW w, w = [p EXCEPT !.revision = v, !.resources = e]
          PROVE  w = [step |-> p.step, listed |-> p.listed, seen |-> p.seen,
                      revision |-> v, resources |-> e]
      BY ONLY <3>1
    <3>2. pass = [step |-> pass.step, listed |-> pass.listed, seen |-> pass.seen,
                  revision |-> pass.revision, resources |-> pass.resources]
      BY <2>1
    <3>3. pass' = [step |-> pass.step, listed |-> pass.listed, seen |-> pass.seen,
                   revision |-> sitePolicy', resources |-> resource']
      BY <1>2, <3>1, <3>2
    <3>4. pass.step = "sync"  BY DEF SyncResource
    <3> QED  BY <2>1, <3>3, <3>4
  <2>3. sitePolicy' \in Nat  BY <1>2 DEF SitesIInv, RowsOK
  <2>4. \A d \in DOMAIN resource' :
          resource'[d] = [type |-> resource'[d].type, parent |-> resource'[d].parent]
    <3>1. Desired(c) = [type |-> Desired(c).type, parent |-> Desired(c).parent]
      BY DEF Desired
    <3> QED  BY <1>2, <3>1 DEF Override, SitesIInv, RowsOK
  <2>5. binding' = binding  BY DEF SyncResource
  <2>6. PassOK'  BY <2>2, <2>3, <2>5 DEF PassOK, ParentOf
  <2>7. DoneOK'  BY <2>2 DEF DoneOK
  <2> QED  BY <2>3, <2>4, <2>6, <2>7, PassMoves DEF SyncResource
<1> QED  BY <1>1, <1>2 DEF SyncResource

LEMMA EndPassIsOK ==
  ASSUME SitesIInv, EndPass  PROVE SitesIInv'
<1>1. /\ pass' = [step |-> "done", listed |-> pass.listed, seen |-> pass.seen]
      /\ UNCHANGED <<site, binding, resource, sitePolicy, configured, request>>
  BY DEF EndPass
<1>2. pass'.step = "done" /\ pass'.listed = pass.listed /\ pass'.seen = pass.seen
  BY <1>1
<1>3. ASSUME NEW c \in configured, ParentOf(pass.listed, c) = ParentOf(pass.seen, c)
      PROVE  Hangs(c)
  <2>1. /\ c \in DOMAIN pass.resources
        /\ pass.resources[c] = [type |-> "collection", parent |-> ParentOf(pass.seen, c)]
    BY <1>3 DEF EndPass, Outdated, Desired
  <2>2. \/ Hangs(c)
        \/ /\ ParentOf(binding, c) = ParentOf(pass.seen, c)
           /\ c \in DOMAIN resource /\ resource[c] = pass.resources[c]
    BY <2>1 DEF EndPass, SitesIInv, PassOK
  <2> QED  BY <2>1, <2>2 DEF Hangs
<1>4. DoneOK'  BY <1>1, <1>2, <1>3 DEF DoneOK, Hangs
<1>5. PassOK'  BY <1>2 DEF PassOK
<1> QED  BY <1>1, <1>4, <1>5, PassMoves DEF SitesIInv, RowsOK

\* The steps that only say where the pass is.
LEMMA PassStepIsOK ==
  ASSUME SitesIInv,
         \/ \E S \in SUBSET SiteCollections : BeginPass(S)
         \/ ListSites \/ AbandonPass
  PROVE  SitesIInv'
<1>1. /\ pass'.step \in {"reconcile", "policy", "idle"}
      /\ UNCHANGED <<site, binding, resource, sitePolicy, request>>
  BY DEF BeginPass, ListSites, AbandonPass
<1>2. PassOK' /\ DoneOK'  BY <1>1 DEF PassOK, DoneOK
<1> QED  BY <1>1, <1>2, PassMoves DEF SitesIInv, RowsOK

-----------------------------------------------------------------------------
(* The theorems *)

LEMMA InitSitesIInv == SitesInit => SitesIInv
<1> SUFFICES ASSUME SitesInit  PROVE SitesIInv
  OBVIOUS
<1>1. DOMAIN site = {} /\ DOMAIN binding = {}  BY DEF SitesInit
<1>2. RowsOK /\ DefaultStands  BY <1>1 DEF SitesInit, RowsOK, DefaultStands
<1>3. RequestsOK  BY DEF SitesInit, RequestsOK, RequestOK
<1>4. LocksOK  BY DEF SitesInit, LocksOK, LockedBy, NoRequest
<1>5. PassOK /\ DoneOK  BY DEF SitesInit, PassOK, DoneOK
<1> QED  BY <1>2, <1>3, <1>4, <1>5 DEF SitesIInv

LEMMA NextSitesIInv == SitesIInv /\ [SitesNext]_svars => SitesIInv'
<1> SUFFICES ASSUME SitesIInv, [SitesNext]_svars  PROVE SitesIInv'
  OBVIOUS
<1>1. CASE \E s \in SiteIds : CreateSite(s)  BY <1>1, CreateSiteIsOK
<1>2. CASE \E t \in Admins : SiteRequest(t)
  <2>1. PICK t \in Admins : SiteRequest(t)  BY <1>2
  <2>2. UNCHANGED <<configured, pass>>  BY <2>1 DEF SiteRequest
  <2>3. CASE \E s \in DOMAIN site : Ask(t, s)  BY <2>2, <2>3, AskIsOK
  <2>4. CASE LockSite(t)  BY <2>2, <2>4, LockSiteIsOK
  <2>5. CASE UpdateSite(t)  BY <2>2, <2>5, UpdateIsOK
  <2>6. CASE SetArchived(t)  BY <2>2, <2>6, SetArchivedIsOK
  <2>7. CASE FindDefault(t) \/ ClearDefault(t)  BY <2>2, <2>7, FindDefaultIsOK
  <2>8. CASE SetDefault(t)  BY <2>2, <2>8, SetDefaultIsOK
  <2>9. CASE SetCollectionBinding(t)  BY <2>2, <2>9, SetCollectionBindingIsOK
  <2>10. CASE Abort(t)  BY <2>2, <2>10, RefuseIsOK DEF Abort
  <2> QED  BY <2>1, <2>3, <2>4, <2>5, <2>6, <2>7, <2>8, <2>9, <2>10 DEF SiteRequest
<1>3. CASE \E S \in SUBSET SiteCollections : BeginPass(S)  BY <1>3, PassStepIsOK
<1>4. CASE \E c \in SiteCollections : SyncResource(c)  BY <1>4, SyncIsOK
<1>5. CASE ReconcileCollections  BY <1>5, ReconcileIsOK
<1>6. CASE ListSites \/ AbandonPass  BY <1>6, PassStepIsOK
<1>7. CASE GetPolicy  BY <1>7, GetPolicyIsOK
<1>8. CASE EndPass  BY <1>8, EndPassIsOK
<1>9. CASE UNCHANGED svars
  BY <1>9 DEF svars, SitesIInv, RowsOK, RequestsOK, RequestOK, LocksOK, LockedBy,
              DefaultStands, PassOK, DoneOK, Hangs, ParentOf
<1> QED  BY <1>1, <1>2, <1>3, <1>4, <1>5, <1>6, <1>7, <1>8, <1>9 DEF SitesNext

\* What the sites, their requests and the pass are, at every step.
THEOREM SitesInvariance == SitesSpec => []SitesIInv
  BY InitSitesIInv, NextSitesIInv, PTL DEF SitesSpec

\* From the moment there is a site exactly one of them is the default, an
\* active one, whatever transactions move it (setDefault, setArchived); and
\* when a projection pass has ended, every collection hangs below the site it
\* is bound to, however bindings interleave with the pass.
THEOREM SitesStayWhole == SitesSpec => []SitesAreWhole
<1>1. SitesIInv => SitesAreWhole
  BY DEF SitesIInv, SitesAreWhole, ParentsFollowBindings, DoneOK, Hangs
<1> QED  BY <1>1, SitesInvariance, PTL

\* What a step may do to the binding of c.
GainsActive(c) ==
  \/ c \in DOMAIN binding /\ binding[c] = binding'[c]
  \/ site[binding'[c]].active /\ site'[binding'[c]].active

\* Only setCollectionBinding gives a collection to a site, which its lock has
\* kept active since LockSite looked at it.
LEMMA BindingIsGainedActive ==
  ASSUME SitesIInv, NEW t \in Admins, SetCollectionBinding(t)
  PROVE  \A c \in DOMAIN binding' : GainsActive(c)
<1> DEFINE q == request[t]
           a == q.site
           previous == IF q.op = "bind" /\ q.other \in DOMAIN binding THEN {binding[q.other]} ELSE {}
<1>1. CASE binding' = binding  BY <1>1 DEF GainsActive
<1>2. CASE q.op = "unbind" /\ binding' = Without(binding, {q.other})
  BY <1>2 DEF GainsActive, Without
<1>3. CASE /\ q.op = "bind" /\ binding' = Override(binding, [x \in {q.other} |-> a])
           /\ site' = Override(site, Bumped(previous \cup {a}))
  <2>1. q.step = "locked" /\ q # NoRequest  BY DEF SetCollectionBinding, NoRequest
  <2>2. a \in DOMAIN site /\ site[a].active
    BY <1>3, <2>1 DEF SitesIInv, RequestsOK, RequestOK, NeedActive
  <2>3. previous \cup {a} \in SUBSET DOMAIN site  BY <2>2 DEF SitesIInv, RowsOK
  <2> HIDE DEF a, previous
  <2>4. site'[a].active  BY <1>3, <2>2, <2>3, BumpIsOK DEF SitesIInv
  <2> QED  BY <1>3, <2>2, <2>4 DEF GainsActive, Override
<1> QED  BY <1>1, <1>2, <1>3 DEF SetCollectionBinding, Refuse

\* A collection is only ever bound to a site that is active, whatever requests
\* archive sites between the look at the site and the binding.
THEOREM ArchivedSitesAreLeftAlone == SitesSpec => ArchivedSitesGainNothing
<1>1. SitesIInv /\ [SitesNext]_svars => [\A c \in DOMAIN binding' : GainsActive(c)]_svars
  <2> SUFFICES ASSUME SitesIInv, [SitesNext]_svars  PROVE \A c \in DOMAIN binding' : GainsActive(c)
    OBVIOUS
  <2>1. CASE binding' = binding  BY <2>1 DEF GainsActive
  <2>2. CASE ReconcileCollections
    BY <2>2 DEF ReconcileCollections, Without, GainsActive
  <2>3. CASE \E t \in Admins : SetCollectionBinding(t)
    BY <2>3, BindingIsGainedActive
  <2> QED
    BY <2>1, <2>2, <2>3
       DEF SitesNext, svars, CreateSite, SiteRequest, Ask, LockSite, UpdateSite, SetArchived,
           FindDefault, ClearDefault, SetDefault, Abort, Refuse, Goto, BeginPass, SyncResource,
           ListSites, GetPolicy, EndPass, AbandonPass
<1> QED  BY <1>1, SitesInvariance, PTL DEF SitesSpec, ArchivedSitesGainNothing, GainsActive

-----------------------------------------------------------------------------
(* The content tree.  A check is never answered by ancestors a document no *)
(* longer has.                                                             *)
(*                                                                         *)
(* The ancestors of a document are the least set that has its parent and   *)
(* the parents of all in it: a document whose way up does not lead through *)
(* the one that is moved keeps them, which is why the subtree is all that  *)
(* a move has to fence.                                                    *)

(* C has what is above d, and what is above everything in C.               *)
Above(P, d, C) == \A e \in (C \cup {d}) \cap DOMAIN P : P[e] \in C

(* The documents that one more step up starts from, and where it leads.    *)
From(P, d, up) == (up \cup {d}) \cap DOMAIN P
Up(P, d, up) == {P[e] : e \in From(P, d, up)}

Rises(up, P, d, N) ==
    /\ up[0] = {}
    /\ \A n \in 0 .. N : n < N => n + 1 \in 0 .. N /\ up[n + 1] = Up(P, d, up[n])

\* Ancestors rises as many steps as there are documents.
LEMMA AncestorsRise ==
    ASSUME NEW P, NEW d, Cardinality(Docs) \in Nat
    PROVE  \E up : /\ Rises(up, P, d, Cardinality(Docs))
                   /\ Ancestors(P, d) = up[Cardinality(Docs)]
<1> DEFINE N == Cardinality(Docs)
           S == SUBSET {P[e] : e \in DOMAIN P}
           F == [u \in S |-> Up(P, d, u)]
           up == CHOOSE f : f = [n \in 0 .. N |->
                    IF n = 0 THEN {}
                    ELSE {P[e] : e \in (f[n - 1] \cup {d}) \cap DOMAIN P}]
<1>1. Ancestors(P, d) = up[N]
    BY DEF Ancestors
<1>2. {} \in S /\ F \in [S -> S] /\ N \in Nat
    BY DEF Up, From
<1>3. PICK h \in [0 .. N -> S] : Solves(h, {}, F, N)
    <2> HIDE DEF S, F, N
    <2> QED BY <1>2, Recursion
<1>4. \A n \in 0 .. N : n # 0 => n - 1 \in 0 .. N /\ h[n - 1] \in S
    BY <1>2, <1>3
<1>5. \A n \in 0 .. N : h[n] = IF n = 0 THEN {} ELSE Up(P, d, h[n - 1])
    BY <1>3, <1>4 DEF Solves
<1>6. h = [n \in 0 .. N |->
             IF n = 0 THEN {} ELSE {P[e] : e \in (h[n - 1] \cup {d}) \cap DOMAIN P}]
    <2> HIDE DEF N, S
    <2> QED BY <1>3, <1>5 DEF Up, From
<1>7. up = [n \in 0 .. N |->
             IF n = 0 THEN {} ELSE {P[e] : e \in (up[n - 1] \cup {d}) \cap DOMAIN P}]
    <2> HIDE DEF N, S
    <2> QED BY <1>6, Zenon
<1>8. \A n \in 0 .. N : up[n] = IF n = 0 THEN {} ELSE Up(P, d, up[n - 1])
    <2> HIDE DEF up, N, S
    <2> QED BY <1>7 DEF Up, From
<1>9. Rises(up, P, d, N)
    <2> HIDE DEF up, N, S, F
    <2> QED BY <1>2, <1>8 DEF Rises
<1> HIDE DEF up
<1> QED BY <1>1, <1>9

\* After as many steps as there are documents nothing is above any more: a step
\* that finds something has one document more to start from.
LEMMA RiseEnds ==
    ASSUME NEW P, DOMAIN P \subseteq Docs, NEW d,
           NEW up, Rises(up, P, d, Cardinality(Docs))
    PROVE  Above(P, d, up[Cardinality(Docs)])
<1> DEFINE N == Cardinality(Docs)
           V(n) == From(P, d, up[n])
           M == {n \in Nat : n + 1 <= N => up[n] \subseteq up[n + 1]}
           T == {n \in Nat : n <= N => \/ Above(P, d, up[n])
                                      \/ Cardinality(V(n)) >= n + 1}
<1>1. N \in Nat /\ IsFiniteSet(Docs)
    BY ConstantsAssumption, FS_CardinalityType
<1>2. \A n \in Nat : V(n) \subseteq Docs /\ IsFiniteSet(V(n)) /\ Cardinality(V(n)) \in Nat
                     /\ Cardinality(V(n)) <= N
    <2> SUFFICES ASSUME NEW n \in Nat
                 PROVE  V(n) \subseteq Docs /\ IsFiniteSet(V(n)) /\ Cardinality(V(n)) \in Nat
                        /\ Cardinality(V(n)) <= N
        OBVIOUS
    <2>1. V(n) \subseteq Docs
        BY DEF From
    <2> HIDE DEF V
    <2> QED BY <1>1, <2>1, FS_Subset, FS_CardinalityType
<1>3. M = Nat
    <2>1. 0 \in M
        BY DEF Rises
    <2>2. ASSUME NEW n \in Nat, n \in M PROVE n + 1 \in M
        <3> SUFFICES ASSUME n + 2 <= N PROVE up[n + 1] \subseteq up[n + 2]
            OBVIOUS
        <3>1. up[n + 1] = Up(P, d, up[n]) /\ up[n + 2] = Up(P, d, up[n + 1])
            <4>1. n \in 0 .. N /\ n < N /\ n + 1 \in 0 .. N /\ n + 1 < N
                BY <1>1
            <4>2. up[n + 1 + 1] = Up(P, d, up[n + 1])
                BY <4>1 DEF Rises
            <4>3. n + 1 + 1 = n + 2
                OBVIOUS
            <4> QED BY <4>1, <4>2, <4>3 DEF Rises
        <3>2. up[n] \subseteq up[n + 1]
            BY <1>1, <2>2
        <3> QED BY <3>1, <3>2 DEF Up, From
    <2> HIDE DEF M
    <2>3. Nat \subseteq M
        BY <2>1, <2>2, SetInduction
    <2> QED BY <2>3 DEF M
<1>4. 0 \in T
    <2>1. CASE d \in DOMAIN P
        <3>1. V(0) = {d}
            BY <2>1 DEF Rises, From
        <3> HIDE DEF V
        <3>2. Cardinality(V(0)) = 1
            BY <3>1, FS_Singleton
        <3> QED BY <3>2
    <2>2. CASE d \notin DOMAIN P
        <3>1. Above(P, d, up[0])
            BY <2>2 DEF Rises, Above
        <3> QED BY <3>1
    <2> QED BY <2>1, <2>2
<1>5. ASSUME NEW n \in Nat, n \in T PROVE n + 1 \in T
    <2> SUFFICES ASSUME n + 1 <= N
                 PROVE  Above(P, d, up[n + 1]) \/ Cardinality(V(n + 1)) >= n + 2
        OBVIOUS
    <2>1. n \in 0 .. N /\ n < N
        BY <1>1
    <2>2. up[n + 1] = Up(P, d, up[n]) /\ up[n] \subseteq up[n + 1]
        BY <1>3, <2>1 DEF Rises
    <2>3. CASE V(n + 1) = V(n)
        BY <2>2, <2>3 DEF Above, Up, From
    <2>4. CASE Above(P, d, up[n])
        <3>1. up[n + 1] \subseteq up[n]
            BY <2>2, <2>4 DEF Above, Up, From
        <3> QED BY <2>2, <2>4, <3>1
    <2>5. CASE V(n + 1) # V(n) /\ ~Above(P, d, up[n])
        <3>1. Cardinality(V(n)) >= n + 1
            BY <1>1, <1>5, <2>1, <2>5
        <3>2. V(n) \subseteq V(n + 1)
            BY <2>2 DEF From
        <3>3. PICK x \in V(n + 1) : x \notin V(n)
            BY <2>5, <3>2
        <3> HIDE DEF V, T, N
        <3>4. Cardinality(V(n) \cup {x}) = Cardinality(V(n)) + 1
            BY <1>2, <3>3, FS_AddElement
        <3>5. Cardinality(V(n) \cup {x}) <= Cardinality(V(n + 1))
            <4>1. V(n) \cup {x} \subseteq V(n + 1) /\ IsFiniteSet(V(n + 1))
                BY <1>2, <3>2, <3>3
            <4> QED BY <4>1, FS_Subset
        <3>6. Cardinality(V(n)) \in Nat /\ Cardinality(V(n + 1)) \in Nat
            BY <1>2
        <3>7. Cardinality(V(n + 1)) >= n + 2
            BY ONLY n \in Nat, <3>1, <3>4, <3>5, <3>6
        <3> QED BY <3>7
    <2> QED BY <2>3, <2>4, <2>5
<1>6. N \in T
    <2> HIDE DEF T, N
    <2> QED BY <1>1, <1>4, <1>5, SetInduction
<1>7. Cardinality(V(N)) \in Nat /\ Cardinality(V(N)) <= N
    BY <1>1, <1>2
<1> HIDE DEF V, N
<1>8. ~(Cardinality(V(N)) >= N + 1)
    BY <1>1, <1>7
<1> QED BY <1>1, <1>6, <1>8 DEF N

\* The ancestors of d are the least set above it.
LEMMA AncestorsAreLeast ==
    ASSUME NEW P, DOMAIN P \subseteq Docs, NEW d
    PROVE  /\ Above(P, d, Ancestors(P, d))
           /\ \A C : Above(P, d, C) => Ancestors(P, d) \subseteq C
<1> DEFINE N == Cardinality(Docs)
<1>1. N \in Nat
    BY ConstantsAssumption, FS_CardinalityType
<1>2. PICK up : Rises(up, P, d, N) /\ Ancestors(P, d) = up[N]
    BY <1>1, AncestorsRise
<1>3. Above(P, d, Ancestors(P, d))
    BY <1>2, RiseEnds
<1>4. ASSUME NEW C, Above(P, d, C) PROVE Ancestors(P, d) \subseteq C
    <2> DEFINE T == {n \in Nat : n <= N => up[n] \subseteq C}
    <2>1. 0 \in T
        BY <1>2 DEF Rises
    <2>2. ASSUME NEW n \in Nat, n \in T PROVE n + 1 \in T
        <3> SUFFICES ASSUME n + 1 <= N PROVE up[n + 1] \subseteq C
            OBVIOUS
        <3>1. up[n + 1] = Up(P, d, up[n]) /\ up[n] \subseteq C
            BY <1>1, <1>2, <2>2 DEF Rises
        <3> QED BY <1>4, <3>1 DEF Up, From, Above
    <2> HIDE DEF T
    <2>3. Nat \subseteq T
        BY <2>1, <2>2, SetInduction
    <2>4. up[N] \subseteq C
        BY <1>1, <2>3 DEF T
    <2> QED BY <1>2, <2>4
<1> QED BY <1>3, <1>4

-----------------------------------------------------------------------------
(* Forests. *)

\* Parents of documents, from which every way up leads to the collection.
IsParents(P) ==
    /\ DOMAIN P \subseteq Docs /\ P \in [DOMAIN P -> DOMAIN P \cup {Collection}]
    /\ Forest(P)

\* Nothing but the parent of d differs.
DiffersAt(d, P, Q) ==
    /\ DOMAIN P \subseteq Docs /\ DOMAIN Q \subseteq Docs /\ DOMAIN Q \ {d} = DOMAIN P \ {d}
    /\ \A x \in DOMAIN P \ {d} : Q[x] = P[x]

\* Who is above stays so when another parent is given to a document that is not
\* on the way.
LEMMA AncestorsElsewhere ==
    ASSUME NEW P, NEW Q, NEW d, DiffersAt(d, P, Q), NEW e, e # d, d \notin Ancestors(P, e)
    PROVE  Ancestors(Q, e) = Ancestors(P, e)
<1> DEFINE A == Ancestors(P, e)
           B == Ancestors(Q, e)
<1>1. Above(P, e, A) /\ \A C : Above(P, e, C) => A \subseteq C
    BY AncestorsAreLeast DEF DiffersAt
<1>2. Above(Q, e, B) /\ \A C : Above(Q, e, C) => B \subseteq C
    BY AncestorsAreLeast DEF DiffersAt
<1> HIDE DEF A, B
<1>3. d \notin A
    BY DEF A
<1>4. Above(Q, e, A)
    BY <1>1, <1>3 DEF Above, DiffersAt
<1>5. B \subseteq A
    BY <1>2, <1>4
<1>6. Above(P, e, B)
    BY <1>2, <1>3, <1>5 DEF Above, DiffersAt
<1>7. A \subseteq B
    BY <1>1, <1>6
<1> QED BY <1>5, <1>7 DEF A, B

\* The ancestors of an ancestor.
LEMMA AncestorsOfAncestors ==
    ASSUME NEW P, DOMAIN P \subseteq Docs, NEW d, NEW e \in Ancestors(P, d)
    PROVE  Ancestors(P, e) \subseteq Ancestors(P, d)
<1> DEFINE A == Ancestors(P, d)
<1>1. Above(P, d, A) /\ e \in A
    BY AncestorsAreLeast
<1>2. \A C : Above(P, e, C) => Ancestors(P, e) \subseteq C
    BY AncestorsAreLeast
<1> HIDE DEF A
<1>3. Above(P, e, A)
    BY <1>1 DEF Above
<1> QED BY <1>2, <1>3 DEF A

LEMMA AncestorsInside ==
    ASSUME NEW P, IsParents(P), NEW d
    PROVE  Ancestors(P, d) \subseteq DOMAIN P \cup {Collection}
<1>1. \A C : Above(P, d, C) => Ancestors(P, d) \subseteq C
    BY AncestorsAreLeast DEF IsParents
<1>2. Above(P, d, DOMAIN P \cup {Collection})
    BY DEF Above, IsParents
<1> QED BY <1>1, <1>2

\* Nothing is above the collection.
LEMMA CollectionIsTop ==
    ASSUME NEW P, DOMAIN P \subseteq Docs
    PROVE  Ancestors(P, Collection) = {}
<1>1. \A C : Above(P, Collection, C) => Ancestors(P, Collection) \subseteq C
    BY AncestorsAreLeast
<1>2. Above(P, Collection, {})
    BY ConstantsAssumption DEF Above
<1> QED BY <1>1, <1>2

\* A document may be put below one that is not below it.
LEMMA MoveKeepsForest ==
    ASSUME NEW P, IsParents(P), NEW d \in DOMAIN P, NEW p \in DOMAIN P \cup {Collection},
           p # d, d \notin Ancestors(P, p), NEW Q, Q = [P EXCEPT ![d] = p]
    PROVE  IsParents(Q)
<1>1. DOMAIN P \subseteq Docs /\ P \in [DOMAIN P -> DOMAIN P \cup {Collection}]
      /\ \A e \in DOMAIN P : Collection \in Ancestors(P, e)
    BY DEF IsParents, Forest
<1>2. /\ DOMAIN Q = DOMAIN P /\ Q[d] = p /\ \A x \in DOMAIN P \ {d} : Q[x] = P[x]
      /\ Q \in [DOMAIN Q -> DOMAIN Q \cup {Collection}]
    BY <1>1
<1>d. DiffersAt(d, P, Q)
    BY <1>1, <1>2 DEF DiffersAt
<1>3. ASSUME NEW e \in DOMAIN P PROVE Collection \in Ancestors(Q, e)
    <2>1. CASE e # d /\ d \notin Ancestors(P, e)
        <3>1. Ancestors(Q, e) = Ancestors(P, e)
            BY <1>d, <2>1, AncestorsElsewhere
        <3> QED BY <1>1, <3>1
    <2>2. CASE ~(e # d /\ d \notin Ancestors(P, e))
        <3> DEFINE B == Ancestors(Q, e)
        <3>1. Above(Q, e, B)
            BY <1>1, <1>2, AncestorsAreLeast
        <3>2. \A C : Above(P, e, C) => Ancestors(P, e) \subseteq C
            BY <1>1, AncestorsAreLeast
        <3> HIDE DEF B
        <3>3. d \in B \cup {e}
            <4> SUFFICES ASSUME d \notin B \cup {e} PROVE FALSE
                OBVIOUS
            <4>1. Above(P, e, B)
                BY <1>2, <3>1 DEF Above
            <4> QED BY <2>2, <3>2, <4>1
        <3>4. p \in B
            BY <1>2, <3>1, <3>3 DEF Above
        <3>5. CASE p = Collection
            BY <3>4, <3>5 DEF B
        <3>6. CASE p \in DOMAIN P
            <4>1. Ancestors(Q, p) = Ancestors(P, p)
                BY <1>d, AncestorsElsewhere
            <4>2. Ancestors(Q, p) \subseteq B
                BY <1>1, <1>2, <3>4, AncestorsOfAncestors DEF B
            <4> QED BY <1>1, <3>6, <4>1, <4>2 DEF B
        <3> QED BY <3>5, <3>6
    <2> QED BY <2>1, <2>2
<1> QED BY <1>1, <1>2, <1>3 DEF IsParents, Forest

\* A new document is put below one that is there, or at the top.
LEMMA CreateKeepsForest ==
    ASSUME NEW P, IsParents(P), NEW d \in Docs, d \notin DOMAIN P,
           NEW p \in DOMAIN P \cup {Collection},
           NEW Q, Q = [e \in DOMAIN P \cup {d} |-> IF e = d THEN p ELSE P[e]]
    PROVE  IsParents(Q) /\ \A e \in DOMAIN P : Ancestors(Q, e) = Ancestors(P, e)
<1>1. DOMAIN P \subseteq Docs /\ P \in [DOMAIN P -> DOMAIN P \cup {Collection}]
      /\ \A e \in DOMAIN P : Collection \in Ancestors(P, e)
    BY DEF IsParents, Forest
<1>2. /\ DOMAIN Q = DOMAIN P \cup {d} /\ Q[d] = p /\ \A x \in DOMAIN P : Q[x] = P[x]
      /\ Q \in [DOMAIN Q -> DOMAIN Q \cup {Collection}] /\ DOMAIN Q \subseteq Docs
    BY <1>1
<1>d. DiffersAt(d, P, Q)
    BY <1>1, <1>2 DEF DiffersAt
<1>3. ASSUME NEW e \in DOMAIN P PROVE Ancestors(Q, e) = Ancestors(P, e)
    <2>1. d \notin Ancestors(P, e)
        BY ConstantsAssumption, AncestorsInside
    <2> QED BY <1>d, <2>1, AncestorsElsewhere
<1>4. Collection \in Ancestors(Q, d)
    <2>1. p \in Ancestors(Q, d)
        <3>1. Above(Q, d, Ancestors(Q, d))
            BY <1>2, AncestorsAreLeast
        <3> QED BY <1>2, <3>1 DEF Above
    <2>2. CASE p = Collection
        BY <2>1, <2>2
    <2>3. CASE p \in DOMAIN P
        BY <1>1, <1>2, <1>3, <2>1, <2>3, AncestorsOfAncestors
    <2> QED BY <2>2, <2>3
<1>5. Forest(Q)
    BY <1>1, <1>2, <1>3, <1>4 DEF Forest
<1> QED BY <1>2, <1>3, <1>5 DEF IsParents

\* What was below a purged document comes below its parent.
LEMMA PurgeKeepsForest ==
    ASSUME NEW P, IsParents(P), NEW d \in DOMAIN P,
           NEW Q, Q = [e \in DOMAIN P \ {d} |-> IF P[e] = d THEN P[d] ELSE P[e]]
    PROVE  IsParents(Q)
<1>1. DOMAIN P \subseteq Docs /\ P \in [DOMAIN P -> DOMAIN P \cup {Collection}]
      /\ \A e \in DOMAIN P : Collection \in Ancestors(P, e)
    BY DEF IsParents, Forest
<1>2. P[d] # d
    <2> SUFFICES ASSUME P[d] = d PROVE FALSE
        OBVIOUS
    <2>1. Above(P, d, {d})
        BY DEF Above
    <2>2. Ancestors(P, d) \subseteq {d}
        BY <1>1, <2>1, AncestorsAreLeast
    <2> QED BY <1>1, <2>2, ConstantsAssumption
<1>3. /\ DOMAIN Q = DOMAIN P \ {d} /\ Q \in [DOMAIN Q -> DOMAIN Q \cup {Collection}]
      /\ \A x \in DOMAIN Q : Q[x] = IF P[x] = d THEN P[d] ELSE P[x]
    BY <1>1, <1>2
<1>4. ASSUME NEW e \in DOMAIN Q PROVE Collection \in Ancestors(Q, e)
    <2> DEFINE B == Ancestors(Q, e)
               S == (B \ {d}) \cup {x \in {d} : P[d] \in B}
    <2>1. Above(Q, e, B)
        BY <1>1, <1>3, AncestorsAreLeast
    <2>2. \A C : Above(P, e, C) => Ancestors(P, e) \subseteq C
        BY <1>1, AncestorsAreLeast
    <2> HIDE DEF B
    <2>3. Above(P, e, S)
        BY <1>2, <1>3, <2>1 DEF Above
    <2>4. Collection \in S
        BY <1>1, <1>3, <2>2, <2>3
    <2> QED BY <1>1, <2>4, ConstantsAssumption DEF B
<1> QED BY <1>1, <1>3, <1>4 DEF IsParents, Forest

-----------------------------------------------------------------------------
(* The invariant of the projection. *)

Resting(o) == o = Idle \/ o = Down
CommitSteps == {"fence", "commit", "unfence"}
OpType == [step : CommitSteps, kind : {"move", "purge", "apply"}, doc : Parents,
           parent : Parents, fenced : SUBSET Docs]

\* What a reconcile has read is the tree as it is.
OpOK(o) ==
    \/ Resting(o) \/ o \in OpType
    \/ o \in [step : {"read"}, starting : BOOLEAN]
    \/ o \in [step : {"project", "release"}, starting : BOOLEAN, desired : {tree}]

Same(d) == Ancestors(graph, d) = Ancestors(tree, d)

\* What is fenced is in the graph, and in quarantine when the commit comes; it is
\* all that will have other ancestors.  Where the fence may be lifted without a
\* reconcile, its documents still have the ancestors they are checked by.
AtWork(o) ==
    /\ o.step \in CommitSteps =>
         /\ o.fenced \subseteq Projected
         /\ scenario.faults = {} /\ o.kind = "move" =>
              o.fenced \subseteq InTree /\ \A d \in o.fenced : Same(d)
    /\ o.step \in {"fence", "commit"} =>
         /\ o.kind = "move" => /\ o.doc \in InTree /\ o.fenced = Subtree(o.doc)
                               /\ o.parent \in (InTree \cup {Collection}) \ Subtree(o.doc)
         /\ o.kind = "purge" => o.doc \in InTree
         /\ o.kind \in {"purge", "apply"} => o.fenced = Projected
    /\ o.step = "commit" => o.fenced \subseteq quarantine
    /\ o.step = "unfence" /\ scenario.faults = {} => o.kind = "move"
    /\ o.step = "release" => graph = tree

\* Outside the quarantine the graph has no document the tree has not, and none
\* with other ancestors.
QuarantineOK ==
    scenario.faults = {} =>
        /\ Projected \ InTree \subseteq quarantine
        /\ \A d \in (InTree \cap Projected) \ quarantine : Same(d)

ProjectionInv ==
    /\ scenario \in Scenarios
    /\ IsParents(tree) /\ IsParents(graph)
    /\ quarantine \subseteq Projected /\ memory \in [Servers -> SUBSET Docs]
    /\ op = [s \in Servers |-> op[s]]
    /\ \A s \in Servers : /\ OpOK(op[s]) /\ AtWork(op[s])
                          /\ lock = s <=> op[s].step \notin {"idle", "down"}
    /\ lock \in Servers \cup {Nobody}
    /\ QuarantineOK

LEMMA RestIsOK ==
    ASSUME NEW o, Resting(o)
    PROVE  OpOK(o) /\ AtWork(o) /\ o.step \in {"idle", "down"}
BY DEF Resting, OpOK, AtWork, CommitSteps, Idle, Down

LEMMA OthersRest ==
    ASSUME ProjectionInv, NEW s \in Servers, lock = s \/ lock = Nobody, NEW t \in Servers, t # s
    PROVE  Resting(op[t])
<1>1. lock # t
    BY ConstantsAssumption
<1>2. op[t].step \in {"idle", "down"} /\ OpOK(op[t])
    BY <1>1 DEF ProjectionInv
<1> QED BY <1>2 DEF OpOK, OpType, CommitSteps

\* A step of the one server in an operation.
LEMMA OneStep ==
    ASSUME ProjectionInv, NEW s \in Servers, lock = s \/ lock = Nobody,
           NEW z, op' = [op EXCEPT ![s] = z], OpOK(z)', AtWork(z)',
           \/ lock' = s /\ z.step \notin {"idle", "down"}
           \/ lock' = Nobody /\ Resting(z),
           IsParents(tree)', IsParents(graph)', (quarantine \subseteq Projected)',
           memory' \in [Servers -> SUBSET Docs], QuarantineOK', scenario' = scenario
    PROVE  ProjectionInv'
<1>1. DOMAIN op = Servers
    BY DEF ProjectionInv
<1>2. op' = [t \in Servers |-> op'[t]] /\ op'[s] = z
    BY <1>1
<1>3. ASSUME NEW t \in Servers
      PROVE  OpOK(op[t])' /\ AtWork(op[t])' /\ (lock' = t <=> op'[t].step \notin {"idle", "down"})
    <2>1. CASE t = s
        <3>1. Resting(z) => z.step \in {"idle", "down"}
            BY DEF Resting, Idle, Down
        <3> QED BY <1>2, <2>1, <3>1, ConstantsAssumption
    <2>2. CASE t # s
        <3>1. Resting(op[t]) /\ op'[t] = op[t]
            BY <1>1, <2>2, OthersRest
        <3>2. Resting(op'[t])
            BY <3>1
        <3>3. op'[t].step \in {"idle", "down"}
            BY <3>2 DEF Resting, Idle, Down
        <3>4. OpOK(op[t])' /\ AtWork(op[t])'
            BY <3>2, <3>3 DEF OpOK, AtWork, CommitSteps
        <3> QED BY <2>2, <3>3, <3>4, ConstantsAssumption
    <2> QED BY <2>1, <2>2
<1>4. scenario' \in Scenarios /\ lock' \in Servers \cup {Nobody}
    BY DEF ProjectionInv
<1> QED BY <1>2, <1>3, <1>4 DEF ProjectionInv

LEMMA ProjectionInit == Init => ProjectionInv
<1> SUFFICES ASSUME Init PROVE ProjectionInv
    OBVIOUS
<1>1. IsParents(tree) /\ IsParents(graph)
    BY DEF Init, IsParents, Forest
<1>2. QuarantineOK
    BY DEF Init, QuarantineOK, InTree, Projected
<1>3. \A s \in Servers : Resting(op[s]) /\ op[s].step = "idle"
    BY DEF Init, Resting, Idle
<1>4. \A s \in Servers : OpOK(op[s]) /\ AtWork(op[s])
    BY <1>3, RestIsOK
<1> QED BY <1>1, <1>2, <1>3, <1>4, ConstantsAssumption DEF Init, ProjectionInv, Projected

LEMMA NobodyWorks ==
    ASSUME ProjectionInv, lock = Nobody, NEW s \in Servers
    PROVE  Resting(op[s])
<1>1. op[s].step \in {"idle", "down"} /\ OpOK(op[s])
    BY ConstantsAssumption DEF ProjectionInv
<1> QED BY <1>1 DEF OpOK, OpType, CommitSteps

\* A new document has no resource that anybody could go by.
LEMMA CreateInv ==
    ASSUME ProjectionInv, scenario' = scenario, NEW s \in Servers,
           NEW d \in Docs, NEW p \in Parents, Create(s, d, p)
    PROVE  ProjectionInv'
<1> DEFINE z == Reconcile(FALSE)
<1>1. /\ lock = Nobody /\ lock' = s /\ op' = [op EXCEPT ![s] = z]
      /\ d \notin DOMAIN tree /\ p \in DOMAIN tree \cup {Collection}
      /\ tree' = [e \in DOMAIN tree \cup {d} |-> IF e = d THEN p ELSE tree[e]]
      /\ UNCHANGED <<graph, quarantine, memory>>
    BY DEF Create, Acquire, InTree
<1>2. IsParents(tree') /\ \A e \in DOMAIN tree : Ancestors(tree', e) = Ancestors(tree, e)
    <2>1. IsParents(tree)
        BY DEF ProjectionInv
    <2>2. PICK Q : Q = tree'
        OBVIOUS
    <2>3. IsParents(Q)
        BY <1>1, <2>1, <2>2, CreateKeepsForest
    <2>4. \A e \in DOMAIN tree : Ancestors(Q, e) = Ancestors(tree, e)
        BY <1>1, <2>1, <2>2, CreateKeepsForest
    <2> QED BY <2>2, <2>3, <2>4
<1>3. DOMAIN tree' = DOMAIN tree \cup {d}
    BY <1>1
<1>4. QuarantineOK'
    <2> SUFFICES ASSUME scenario.faults = {}
                 PROVE  /\ DOMAIN graph \ DOMAIN tree' \subseteq quarantine
                        /\ \A e \in (DOMAIN tree' \cap DOMAIN graph) \ quarantine :
                               Ancestors(graph, e) = Ancestors(tree', e)
        BY <1>1 DEF QuarantineOK, InTree, Projected, Same
    <2>1. /\ DOMAIN graph \ DOMAIN tree \subseteq quarantine
          /\ \A e \in (DOMAIN tree \cap DOMAIN graph) \ quarantine :
                Ancestors(graph, e) = Ancestors(tree, e)
        BY DEF ProjectionInv, QuarantineOK, InTree, Projected, Same
    <2> QED BY <1>1, <1>2, <1>3, <2>1
<1>5. z.step = "read" /\ OpOK(z)' /\ AtWork(z)'
    BY DEF Reconcile, OpOK, AtWork, CommitSteps
<1> HIDE DEF z
<1>6. IsParents(graph') /\ quarantine' \subseteq DOMAIN graph' /\ memory' \in [Servers -> SUBSET Docs]
    BY <1>1 DEF ProjectionInv, Projected
<1> QED BY <1>1, <1>2, <1>4, <1>5, <1>6, OneStep DEF Projected

\* Nothing is changed where an operation begins or ends early.
LEMMA NothingChanged ==
    ASSUME ProjectionInv, NEW s \in Servers, lock = s \/ lock = Nobody,
           NEW z, op' = [op EXCEPT ![s] = z], OpOK(z), AtWork(z),
           \/ lock' = s /\ z.step \notin {"idle", "down"}
           \/ lock' = Nobody /\ Resting(z),
           memory' \in [Servers -> SUBSET Docs], UNCHANGED <<scenario, tree, graph, quarantine>>
    PROVE  ProjectionInv'
<1>1. IsParents(tree') /\ IsParents(graph') /\ quarantine' \subseteq DOMAIN graph'
    BY DEF ProjectionInv, Projected
<1>2. QuarantineOK'
    BY DEF ProjectionInv, QuarantineOK, InTree, Projected, Same
<1>3. OpOK(z)'
    BY DEF OpOK
<1>4. AtWork(z)'
    BY DEF AtWork, Projected, InTree, Same, Subtree
<1> QED BY <1>1, <1>2, <1>3, <1>4, OneStep DEF Projected

LEMMA StartMoveInv ==
    ASSUME ProjectionInv, scenario' = scenario, NEW s \in Servers,
           NEW d \in Docs, NEW p \in Parents, StartMove(s, d, p)
    PROVE  ProjectionInv'
<1>z. PICK z : z = [step |-> "fence", kind |-> "move", doc |-> d, parent |-> p,
                    fenced |-> Subtree(d)]
    OBVIOUS
<1>1. /\ lock = Nobody /\ lock' = s /\ op' = [op EXCEPT ![s] = z]
      /\ d \in InTree /\ p \in (InTree \cup {Collection}) \ Subtree(d)
      /\ \A e \in Subtree(d) : Available(s, e)
      /\ UNCHANGED <<tree, graph, quarantine, memory>>
    BY <1>z DEF StartMove, Acquire
<1>2. Subtree(d) \subseteq InTree /\ InTree \subseteq Docs /\ Subtree(d) \subseteq Projected \ quarantine
    BY <1>1 DEF Subtree, InTree, Available, ProjectionInv, IsParents
<1>3. z \in OpType
    BY <1>z, <1>2 DEF OpType, CommitSteps, Parents
<1>4. scenario.faults = {} => \A e \in Subtree(d) : Same(e)
    BY <1>2 DEF ProjectionInv, QuarantineOK
<1>5. z.step = "fence" /\ z.kind = "move" /\ z.doc = d /\ z.parent = p /\ z.fenced = Subtree(d)
    BY <1>z
<1>6. AtWork(z)
    BY <1>1, <1>2, <1>4, <1>5 DEF AtWork, CommitSteps
<1>7. OpOK(z)
    BY <1>3 DEF OpOK
<1>8. memory' \in [Servers -> SUBSET Docs]
    BY <1>1 DEF ProjectionInv
<1> QED BY <1>1, <1>5, <1>6, <1>7, <1>8, NothingChanged

LEMMA StartPurgeInv ==
    ASSUME ProjectionInv, scenario' = scenario, NEW s \in Servers, NEW d \in Docs, StartPurge(s, d)
    PROVE  ProjectionInv'
<1>z. PICK z : z = [step |-> "fence", kind |-> "purge", doc |-> d, parent |-> Collection,
                    fenced |-> Projected]
    OBVIOUS
<1>1. /\ lock = Nobody /\ lock' = s /\ op' = [op EXCEPT ![s] = z] /\ d \in InTree
      /\ UNCHANGED <<tree, graph, quarantine, memory>>
    BY <1>z DEF StartPurge, Acquire
<1>2. z \in OpType
    BY <1>z DEF OpType, CommitSteps, Parents, Projected, ProjectionInv, IsParents
<1>3. z.step = "fence" /\ z.kind = "purge" /\ z.doc = d /\ z.fenced = Projected
    BY <1>z
<1>4. AtWork(z)
    BY <1>1, <1>3 DEF AtWork, CommitSteps
<1>5. OpOK(z)
    BY <1>2 DEF OpOK
<1>6. memory' \in [Servers -> SUBSET Docs]
    BY <1>1 DEF ProjectionInv
<1> QED BY <1>1, <1>3, <1>4, <1>5, <1>6, NothingChanged

LEMMA StartApplyInv ==
    ASSUME ProjectionInv, scenario' = scenario, NEW s \in Servers, StartApply(s)
    PROVE  ProjectionInv'
<1>z. PICK z : z = [step |-> "fence", kind |-> "apply", doc |-> Collection,
                    parent |-> Collection, fenced |-> Projected]
    OBVIOUS
<1>1. /\ lock = Nobody /\ lock' = s /\ op' = [op EXCEPT ![s] = z]
      /\ UNCHANGED <<tree, graph, quarantine, memory>>
    BY <1>z DEF StartApply, Acquire
<1>2. z \in OpType
    BY <1>z DEF OpType, CommitSteps, Parents, Projected, ProjectionInv, IsParents
<1>3. z.step = "fence" /\ z.kind = "apply" /\ z.fenced = Projected
    BY <1>z
<1>4. AtWork(z)
    BY <1>1, <1>3 DEF AtWork, CommitSteps
<1>5. OpOK(z)
    BY <1>2 DEF OpOK
<1>6. memory' \in [Servers -> SUBSET Docs]
    BY <1>1 DEF ProjectionInv
<1> QED BY <1>1, <1>3, <1>4, <1>5, <1>6, NothingChanged

\* The one that works holds the lock.
LEMMA HoldsLock ==
    ASSUME ProjectionInv, NEW s \in Servers, op[s].step \notin {"idle", "down"}
    PROVE  lock = s
BY DEF ProjectionInv

LEMMA FenceInv ==
    ASSUME ProjectionInv, scenario' = scenario, NEW s \in Servers, Fence(s)
    PROVE  ProjectionInv'
<1>w. PICK w : w = op[s]
    OBVIOUS
<1>1. /\ w \in OpType /\ w.step = "fence" /\ AtWork(w) /\ lock = s
    BY <1>w, HoldsLock DEF Fence, ProjectionInv, OpOK, Resting, Idle, Down, OpType
<1>z. PICK z : z = [w EXCEPT !.step = "commit"]
    OBVIOUS
<1>2. /\ z \in OpType /\ z.step = "commit" /\ z.kind = w.kind /\ z.doc = w.doc
      /\ z.parent = w.parent /\ z.fenced = w.fenced
    BY <1>1, <1>z DEF OpType, CommitSteps
<1>3. /\ op' = [op EXCEPT ![s] = z] /\ quarantine' = quarantine \cup w.fenced
      /\ memory' = [memory EXCEPT ![s] = @ \cup w.fenced] /\ UNCHANGED <<tree, graph, lock>>
    BY <1>w, <1>z DEF Fence
<1>4. w.fenced \subseteq Projected /\ w.fenced \subseteq Docs
    BY <1>1 DEF AtWork, CommitSteps, OpType
<1>5. AtWork(z)'
    BY <1>1, <1>2, <1>3 DEF AtWork, Projected, InTree, Same, Subtree, CommitSteps
<1>6. OpOK(z)'
    BY <1>2 DEF OpOK
<1>7. memory' \in [Servers -> SUBSET Docs] /\ quarantine' \subseteq DOMAIN graph'
      /\ IsParents(tree') /\ IsParents(graph')
    BY <1>3, <1>4 DEF ProjectionInv, Projected
<1>8. QuarantineOK'
    BY <1>3 DEF ProjectionInv, QuarantineOK, InTree, Projected, Same
<1> QED BY <1>1, <1>2, <1>3, <1>5, <1>6, <1>7, <1>8, OneStep DEF Projected

\* What is committed leaves a tree, and nobody outside the fence with others above it.
LEMMA ChangedIsFenced ==
    ASSUME ProjectionInv, NEW o, o \in OpType, o.step = "commit", AtWork(o), NEW Q, Q = Changed(o)
    PROVE  /\ IsParents(Q)
           /\ scenario.faults = {} =>
                /\ DOMAIN graph \ DOMAIN Q \subseteq quarantine
                /\ \A d \in (DOMAIN Q \cap DOMAIN graph) \ quarantine :
                       Ancestors(graph, d) = Ancestors(Q, d)
<1>1. IsParents(tree) /\ o.fenced \subseteq quarantine
    BY DEF ProjectionInv, AtWork
<1>i. /\ scenario.faults = {} =>
            /\ DOMAIN graph \ DOMAIN tree \subseteq quarantine
            /\ \A d \in (DOMAIN tree \cap DOMAIN graph) \ quarantine :
                   Ancestors(graph, d) = Ancestors(tree, d)
      /\ DOMAIN tree \subseteq Docs
    BY DEF ProjectionInv, QuarantineOK, InTree, Projected, Same, IsParents
<1>2. CASE o.kind = "move"
    <2>1. /\ o.doc \in DOMAIN tree /\ o.fenced = Subtree(o.doc)
          /\ o.parent \in (DOMAIN tree \cup {Collection}) \ Subtree(o.doc)
        BY <1>2 DEF AtWork, InTree
    <2>2. Q = [tree EXCEPT ![o.doc] = o.parent]
        BY <1>2 DEF Changed
    <2>3. o.doc \in Subtree(o.doc) /\ o.parent # o.doc
        BY <2>1 DEF Subtree, InTree
    <2>4. o.doc \notin Ancestors(tree, o.parent)
        <3>1. CASE o.parent \in DOMAIN tree
            BY <2>1, <3>1 DEF Subtree, InTree
        <3>2. CASE o.parent = Collection
            BY <1>1, <3>2, CollectionIsTop DEF IsParents
        <3> QED BY <2>1, <3>1, <3>2
    <2>5. IsParents(Q)
        BY <1>1, <2>1, <2>2, <2>3, <2>4, MoveKeepsForest
    <2>6. DiffersAt(o.doc, tree, Q)
        BY <1>1, <2>1, <2>2 DEF DiffersAt, IsParents
    <2>7. ASSUME NEW d \in DOMAIN tree, d \notin quarantine
          PROVE  Ancestors(Q, d) = Ancestors(tree, d)
        <3>1. d # o.doc /\ o.doc \notin Ancestors(tree, d)
            BY <1>1, <2>1, <2>7 DEF Subtree, InTree
        <3> QED BY <1>1, <2>6, <3>1, AncestorsElsewhere
    <2>8. DOMAIN Q = DOMAIN tree
        BY <2>2
    <2> QED BY <1>i, <2>5, <2>7, <2>8
<1>3. CASE o.kind = "purge"
    <2>1. /\ o.doc \in DOMAIN tree /\ DOMAIN graph \subseteq quarantine
          /\ Q = [e \in DOMAIN tree \ {o.doc} |->
                    IF tree[e] = o.doc THEN tree[o.doc] ELSE tree[e]]
        BY <1>1, <1>3 DEF AtWork, InTree, Projected, Changed
    <2> QED BY <1>1, <2>1, PurgeKeepsForest
<1>4. CASE o.kind = "apply"
    <2>1. Q = tree
        BY <1>4 DEF Changed
    <2> QED BY <1>1, <1>i, <2>1
<1> QED BY <1>2, <1>3, <1>4 DEF OpType

\* A committed change: another parent, a document less, or none.
LEMMA ChangedInv ==
    ASSUME ProjectionInv, scenario' = scenario, NEW s \in Servers, op[s].step = "commit",
           tree' = Changed(op[s]), UNCHANGED <<graph, quarantine, memory, lock>>
    PROVE  /\ op[s] \in OpType /\ AtWork(op[s]) /\ lock = s
           /\ IsParents(tree)' /\ IsParents(graph)' /\ (quarantine \subseteq Projected)'
           /\ memory' \in [Servers -> SUBSET Docs] /\ QuarantineOK'
<1>w. PICK w : w = op[s]
    OBVIOUS
<1>1. w \in OpType /\ w.step = "commit" /\ AtWork(w) /\ lock = s
    BY <1>w, HoldsLock DEF ProjectionInv, OpOK, Resting, Idle, Down
<1>q. PICK Q : Q = Changed(w)
    OBVIOUS
<1>2. IsParents(Q)
    BY <1>1, <1>q, ChangedIsFenced
<1>3. scenario.faults = {} =>
        /\ DOMAIN graph \ DOMAIN Q \subseteq quarantine
        /\ \A d \in (DOMAIN Q \cap DOMAIN graph) \ quarantine : Ancestors(graph, d) = Ancestors(Q, d)
    BY <1>1, <1>q, ChangedIsFenced
<1>4. tree' = Q
    BY <1>w, <1>q
<1>5. QuarantineOK'
    BY <1>3, <1>4 DEF QuarantineOK, InTree, Projected, Same
<1>6. IsParents(tree') /\ IsParents(graph') /\ quarantine' \subseteq DOMAIN graph'
      /\ memory' \in [Servers -> SUBSET Docs]
    BY <1>2, <1>4 DEF ProjectionInv, Projected
<1> QED BY <1>1, <1>5, <1>6, <1>w DEF Projected

LEMMA CommitInv ==
    ASSUME ProjectionInv, scenario' = scenario, NEW s \in Servers, Commit(s)
    PROVE  ProjectionInv'
<1>z. PICK z : z = Reconcile(FALSE)
    OBVIOUS
<1>1. /\ op[s].step = "commit" /\ tree' = Changed(op[s]) /\ op' = [op EXCEPT ![s] = z]
      /\ UNCHANGED <<graph, quarantine, memory, lock>>
    BY <1>z DEF Commit
<1>2. /\ lock = s /\ IsParents(tree)' /\ IsParents(graph)' /\ (quarantine \subseteq Projected)'
      /\ memory' \in [Servers -> SUBSET Docs] /\ QuarantineOK'
    BY <1>1, ChangedInv
<1>3. z.step = "read" /\ OpOK(z)' /\ AtWork(z)'
    BY <1>z DEF Reconcile, OpOK, AtWork, CommitSteps
<1> QED BY <1>1, <1>2, <1>3, OneStep

\* A lost reply is among the faults: no fence is relied on any more.
LEMMA CommitReplyLostInv ==
    ASSUME ProjectionInv, scenario' = scenario, NEW s \in Servers, CommitReplyLost(s)
    PROVE  ProjectionInv'
<1>w. PICK w : w = op[s]
    OBVIOUS
<1>1. /\ w.step = "commit" /\ tree' = Changed(op[s])
      /\ UNCHANGED <<graph, quarantine, memory, lock>> /\ scenario'.faults # {}
    BY <1>w DEF CommitReplyLost
<1>2. /\ lock = s /\ IsParents(tree)' /\ IsParents(graph)' /\ (quarantine \subseteq Projected)'
      /\ memory' \in [Servers -> SUBSET Docs] /\ QuarantineOK'
    BY <1>1, <1>w, ChangedInv
<1>3. w \in OpType /\ AtWork(w)
    BY <1>1, <1>w, ChangedInv
<1>z. PICK z : z = [w EXCEPT !.step = "unfence"]
    OBVIOUS
<1>4. z \in OpType /\ z.step = "unfence" /\ z.fenced = w.fenced
    BY <1>3, <1>z DEF OpType, CommitSteps
<1>5. op' = [op EXCEPT ![s] = z]
    BY <1>w, <1>z DEF CommitReplyLost
<1>6. AtWork(z)'
    BY <1>1, <1>3, <1>4 DEF AtWork, Projected, CommitSteps
<1>7. OpOK(z)'
    BY <1>4 DEF OpOK
<1> QED BY <1>1, <1>2, <1>4, <1>5, <1>6, <1>7, OneStep

LEMMA CommitRefusedInv ==
    ASSUME ProjectionInv, scenario' = scenario, NEW s \in Servers, CommitRefused(s)
    PROVE  ProjectionInv'
<1>w. PICK w : w = op[s]
    OBVIOUS
<1>1. /\ w \in OpType /\ w.step = "commit" /\ AtWork(w) /\ lock = s
      /\ w.kind = "move" \/ scenario.faults # {}
      /\ UNCHANGED <<tree, graph, quarantine, memory, lock>>
    BY <1>w, HoldsLock DEF CommitRefused, ProjectionInv, OpOK, Resting, Idle, Down
<1>z. PICK z : z = [w EXCEPT !.step = "unfence"]
    OBVIOUS
<1>2. z \in OpType /\ z.step = "unfence" /\ z.fenced = w.fenced /\ z.kind = w.kind
    BY <1>1, <1>z DEF OpType, CommitSteps
<1>3. op' = [op EXCEPT ![s] = z]
    BY <1>w, <1>z DEF CommitRefused
<1>4. AtWork(z)
    BY <1>1, <1>2 DEF AtWork, CommitSteps
<1>5. OpOK(z)
    BY <1>2 DEF OpOK
<1>6. memory' \in [Servers -> SUBSET Docs]
    BY <1>1 DEF ProjectionInv
<1> QED BY <1>1, <1>2, <1>3, <1>4, <1>5, <1>6, NothingChanged

\* Without faults a fence is only lifted by a move that did not take place.
LEMMA UnfenceInv ==
    ASSUME ProjectionInv, scenario' = scenario, NEW s \in Servers, Unfence(s)
    PROVE  ProjectionInv'
<1>w. PICK w : w = op[s]
    OBVIOUS
<1>1. w \in OpType /\ w.step = "unfence" /\ AtWork(w) /\ lock = s
    BY <1>w, HoldsLock DEF Unfence, ProjectionInv, OpOK, Resting, Idle, Down, OpType
<1>2. /\ quarantine' = quarantine \ w.fenced
      /\ memory' = [memory EXCEPT ![s] = @ \ w.fenced]
      /\ lock' = Nobody /\ op' = [op EXCEPT ![s] = Idle] /\ UNCHANGED <<tree, graph>>
    BY <1>w DEF Unfence, EndOperation
<1>3. scenario.faults = {} => w.fenced \subseteq InTree /\ \A d \in w.fenced : Same(d)
    BY <1>1 DEF AtWork, CommitSteps
<1>4. QuarantineOK'
    BY <1>2, <1>3 DEF ProjectionInv, QuarantineOK, InTree, Projected, Same
<1>5. Resting(Idle) /\ OpOK(Idle)' /\ AtWork(Idle)'
    BY DEF Resting, OpOK, AtWork, CommitSteps, Idle
<1>6. IsParents(tree') /\ IsParents(graph') /\ quarantine' \subseteq DOMAIN graph'
      /\ memory' \in [Servers -> SUBSET Docs]
    BY <1>2 DEF ProjectionInv, Projected
<1>z. PICK z : z = Idle
    OBVIOUS
<1> QED BY <1>1, <1>2, <1>4, <1>5, <1>6, <1>z, OneStep DEF Projected

LEMMA ReadTreeInv ==
    ASSUME ProjectionInv, scenario' = scenario, NEW s \in Servers, ReadTree(s)
    PROVE  ProjectionInv'
<1>w. PICK w : w = op[s]
    OBVIOUS
<1>1. w.step = "read" /\ w.starting \in BOOLEAN /\ lock = s
    BY <1>w, HoldsLock DEF ReadTree, ProjectionInv, OpOK, Resting, Idle, Down, OpType, CommitSteps
<1>z. PICK z : z = [step |-> "project", starting |-> w.starting, desired |-> tree]
    OBVIOUS
<1>2. op' = [op EXCEPT ![s] = z] /\ UNCHANGED <<tree, graph, quarantine, memory, lock>>
    BY <1>w, <1>z DEF ReadTree
<1>3. z.step = "project" /\ OpOK(z)
    BY <1>1, <1>z DEF OpOK
<1>4. AtWork(z)
    BY <1>3 DEF AtWork, CommitSteps
<1>5. memory' \in [Servers -> SUBSET Docs]
    BY <1>2 DEF ProjectionInv
<1> QED BY <1>1, <1>2, <1>3, <1>4, <1>5, NothingChanged

\* The tree that was read is the tree as it is.
LEMMA HasReadTheTree ==
    ASSUME ProjectionInv, NEW s \in Servers, op[s].step \in {"project", "release"}
    PROVE  /\ op[s] \in [step : {"project", "release"}, starting : BOOLEAN, desired : {tree}]
           /\ lock = s
           /\ op[s].step = "release" => graph = tree
BY HoldsLock DEF ProjectionInv, OpOK, AtWork, Resting, Idle, Down, OpType, CommitSteps

LEMMA ProjectInv ==
    ASSUME ProjectionInv, scenario' = scenario, NEW s \in Servers, Project(s)
    PROVE  ProjectionInv'
<1>w. PICK w : w = op[s]
    OBVIOUS
<1>1. /\ w \in [step : {"project", "release"}, starting : BOOLEAN, desired : {tree}]
      /\ lock = s
    BY <1>w, HasReadTheTree DEF Project
<1>z. PICK z : z = [w EXCEPT !.step = "release"]
    OBVIOUS
<1>2. /\ graph' = tree /\ quarantine' = quarantine \cap DOMAIN tree
      /\ op' = [op EXCEPT ![s] = z] /\ UNCHANGED <<tree, memory, lock>>
    BY <1>w, <1>z, <1>1 DEF Project
<1>3. z \in [step : {"project", "release"}, starting : BOOLEAN, desired : {tree}]
      /\ z.step = "release"
    BY <1>1, <1>z
<1>4. OpOK(z)'
    BY <1>2, <1>3 DEF OpOK
<1>5. AtWork(z)'
    BY <1>2, <1>3 DEF AtWork, CommitSteps
<1>6. IsParents(tree') /\ IsParents(graph') /\ quarantine' \subseteq DOMAIN graph'
      /\ memory' \in [Servers -> SUBSET Docs]
    BY <1>2 DEF ProjectionInv, Projected
<1>7. QuarantineOK'
    BY <1>2 DEF QuarantineOK, InTree, Projected, Same
<1> QED BY <1>1, <1>2, <1>3, <1>4, <1>5, <1>6, <1>7, OneStep DEF Projected

LEMMA ReleaseInv ==
    ASSUME ProjectionInv, scenario' = scenario, NEW s \in Servers, ReleaseQuarantine(s)
    PROVE  ProjectionInv'
<1>1. op[s].desired = tree /\ graph = tree /\ lock = s
    BY HasReadTheTree DEF ReleaseQuarantine
<1>2. /\ quarantine' = quarantine \ DOMAIN tree
      /\ memory' = [memory EXCEPT ![s] = @ \ DOMAIN tree]
      /\ lock' = Nobody /\ op' = [op EXCEPT ![s] = Idle] /\ UNCHANGED <<tree, graph>>
    BY <1>1 DEF ReleaseQuarantine, EndOperation
<1>3. QuarantineOK'
    BY <1>1, <1>2 DEF QuarantineOK, InTree, Projected, Same
<1>4. Resting(Idle) /\ OpOK(Idle)' /\ AtWork(Idle)'
    BY DEF Resting, OpOK, AtWork, CommitSteps, Idle
<1>5. IsParents(tree') /\ IsParents(graph') /\ quarantine' \subseteq DOMAIN graph'
      /\ memory' \in [Servers -> SUBSET Docs]
    BY <1>2 DEF ProjectionInv, Projected
<1>z. PICK z : z = Idle
    OBVIOUS
<1> QED BY <1>1, <1>2, <1>3, <1>4, <1>5, <1>z, OneStep DEF Projected

LEMMA FailsInv ==
    ASSUME ProjectionInv, scenario' = scenario, NEW s \in Servers, Fails(s)
    PROVE  ProjectionInv'
<1>1. lock = s
    BY HoldsLock DEF Fails, Reconciling
<1>z. PICK z : z = IF Starting(s) THEN Down ELSE Idle
    OBVIOUS
<1>2. op' = [op EXCEPT ![s] = z] /\ lock' = Nobody /\ UNCHANGED <<tree, graph, quarantine, memory>>
    BY <1>z DEF Fails
<1>3. Resting(z)
    BY <1>z DEF Resting
<1>4. OpOK(z) /\ AtWork(z)
    BY <1>3, RestIsOK
<1>5. memory' \in [Servers -> SUBSET Docs]
    BY <1>2 DEF ProjectionInv
<1> QED BY <1>1, <1>2, <1>3, <1>4, <1>5, NothingChanged

\* A server that is in no operation leaves the one that is to itself.
LEMMA StopInv ==
    ASSUME ProjectionInv, scenario' = scenario, NEW s \in Servers, Stop(s)
    PROVE  ProjectionInv'
<1>z. PICK z : z = Down
    OBVIOUS
<1>1. /\ op' = [op EXCEPT ![s] = z] /\ memory' = [memory EXCEPT ![s] = {}]
      /\ lock' = (IF lock = s THEN Nobody ELSE lock) /\ UNCHANGED <<tree, graph, quarantine>>
    BY <1>z DEF Stop
<1>2. Resting(z) /\ OpOK(z) /\ AtWork(z) /\ z.step \in {"idle", "down"}
    BY <1>z, RestIsOK DEF Resting
<1>3. memory' \in [Servers -> SUBSET Docs]
    BY <1>1 DEF ProjectionInv
<1>4. CASE lock = s \/ lock = Nobody
    <2>1. lock' = Nobody
        BY <1>1, <1>4
    <2> QED BY <1>1, <1>2, <1>3, <1>4, <2>1, NothingChanged
<1>5. CASE ~(lock = s \/ lock = Nobody)
    <2>1. DOMAIN op = Servers /\ lock' = lock
        BY <1>1, <1>5 DEF ProjectionInv
    <2>2. op' = [t \in Servers |-> op'[t]] /\ op'[s] = z
        BY <1>1, <2>1
    <2>3. ASSUME NEW t \in Servers
          PROVE  OpOK(op'[t]) /\ AtWork(op'[t]) /\ (lock = t <=> op'[t].step \notin {"idle", "down"})
        <3>1. CASE t = s
            BY <1>2, <1>5, <2>2, <3>1
        <3>2. CASE t # s
            <4>1. op'[t] = op[t]
                BY <1>1, <2>1, <3>2
            <4>2. OpOK(op[t]) /\ AtWork(op[t]) /\ (lock = t <=> op[t].step \notin {"idle", "down"})
                BY DEF ProjectionInv
            <4> QED BY <4>1, <4>2
        <3> QED BY <3>1, <3>2
    <2>4. ASSUME NEW t \in Servers PROVE OpOK(op[t])' /\ AtWork(op[t])'
        <3>1. PICK o : o = op'[t]
            OBVIOUS
        <3>2. OpOK(o) /\ AtWork(o)
            BY <2>3, <3>1
        <3>3. OpOK(o)'
            BY <1>1, <3>2 DEF OpOK
        <3>4. AtWork(o)'
            BY <1>1, <3>2 DEF AtWork, Projected, InTree, Same, Subtree
        <3> QED BY <3>1, <3>3, <3>4
    <2>5. IsParents(tree') /\ IsParents(graph') /\ quarantine' \subseteq DOMAIN graph'
          /\ scenario' \in Scenarios /\ lock' \in Servers \cup {Nobody}
        BY <1>1, <2>1 DEF ProjectionInv, Projected
    <2>6. QuarantineOK'
        BY <1>1 DEF ProjectionInv, QuarantineOK, InTree, Projected, Same
    <2> QED BY <1>3, <2>1, <2>2, <2>3, <2>4, <2>5, <2>6 DEF ProjectionInv, Projected
<1> QED BY <1>4, <1>5

LEMMA StartServerInv ==
    ASSUME ProjectionInv, scenario' = scenario, NEW s \in Servers, StartServer(s)
    PROVE  ProjectionInv'
<1>z. PICK z : z = Reconcile(TRUE)
    OBVIOUS
<1>1. /\ lock = Nobody /\ lock' = s /\ op' = [op EXCEPT ![s] = z]
      /\ UNCHANGED <<tree, graph, quarantine, memory>>
    BY <1>z DEF StartServer, Acquire
<1>2. z.step = "read" /\ OpOK(z) /\ AtWork(z)
    BY <1>z DEF Reconcile, OpOK, AtWork, CommitSteps
<1>3. memory' \in [Servers -> SUBSET Docs]
    BY <1>1 DEF ProjectionInv
<1> QED BY <1>1, <1>2, <1>3, NothingChanged

LEMMA ProjectionStep == ProjectionInv /\ [Next]_vars => ProjectionInv'
<1> SUFFICES ASSUME ProjectionInv, [Next]_vars PROVE ProjectionInv'
    OBVIOUS
<1>1. ASSUME NEW s \in Servers, scenario' = scenario, Request(s) PROVE ProjectionInv'
    BY <1>1, CreateInv, StartMoveInv, StartPurgeInv, StartApplyInv DEF Request
<1>2. ASSUME NEW s \in Servers, scenario' = scenario, Step(s) PROVE ProjectionInv'
    BY <1>2, FenceInv, CommitInv, CommitRefusedInv, CommitReplyLostInv, UnfenceInv,
       ReadTreeInv, ProjectInv, ReleaseInv DEF Step
<1>3. ASSUME NEW s \in Servers, scenario' = scenario, Fault(s) PROVE ProjectionInv'
    BY <1>3, FailsInv, StopInv DEF Fault
<1>4. ASSUME UNCHANGED vars PROVE ProjectionInv'
    <2>1. UNCHANGED <<scenario, tree, graph, quarantine, memory, lock, op>>
        BY <1>4 DEF vars
    <2>2. ASSUME NEW s \in Servers PROVE OpOK(op[s])' /\ AtWork(op[s])'
        BY <2>1 DEF ProjectionInv, OpOK, AtWork, Projected, InTree, Same, Subtree
    <2>3. QuarantineOK'
        BY <2>1 DEF ProjectionInv, QuarantineOK, InTree, Projected, Same
    <2> QED BY <2>1, <2>2, <2>3 DEF ProjectionInv, Projected
<1> QED BY <1>1, <1>2, <1>3, <1>4, StartServerInv DEF Next

\* The invariant of the projection: what is not in quarantine is projected as it
\* is in the tree, what is about to change is fenced before it changes, and the
\* tree a reconcile has read is the tree as it is, for the one that holds the lock.
THEOREM ProjectionIsSound == Spec => []ProjectionInv
<1> QED BY ProjectionInit, ProjectionStep, PTL DEF Spec

\* A check is never answered by ancestors the document no longer has, whatever
\* servers stop and whatever calls fail in between: it is refused until a
\* reconcile has gone through.
THEOREM StaleChecksFailClosed == Spec => []StaleFailsClosed
<1>1. ProjectionInv => TypeOK
    <2> SUFFICES ASSUME ProjectionInv PROVE TypeOK
        OBVIOUS
    <2>1. \A s \in Servers : (lock = s) = (op[s].step \notin {"idle", "down"})
        BY DEF ProjectionInv
    <2> QED BY <2>1 DEF ProjectionInv, IsParents, TypeOK, InTree, Projected
<1>2. ProjectionInv => StaleFailsClosed
    BY <1>1 DEF StaleFailsClosed, ProjectionInv, QuarantineOK, Available, Same
<1> QED BY <1>2, ProjectionIsSound, PTL

\* The graph is set to the tree as it is, never to one that was read before
\* another operation changed it.
THEOREM TheTreeIsProjected == Spec => ProjectsTheTree
<1>1. ProjectionInv /\ [Next]_vars => [graph' # graph => graph' = tree]_vars
    <2> SUFFICES ASSUME ProjectionInv, Next, graph' # graph PROVE graph' = tree
        BY DEF vars
    <2>1. PICK s \in Servers : Project(s)
        BY DEF Next, Request, Step, Fault, Create, StartMove, StartPurge, StartApply, Fence, Commit,
           CommitRefused, CommitReplyLost, Unfence, ReadTree, ReleaseQuarantine, Fails, Stop,
           StartServer
    <2> QED BY <2>1, HasReadTheTree DEF Project
<1> QED BY <1>1, ProjectionIsSound, PTL DEF Spec, ProjectsTheTree

-----------------------------------------------------------------------------
(* The schema registry.                                                    *)

LEMMA PartialFunctionIs ==
  ASSUME NEW S, NEW T, NEW f \in PartialFunctions(S, T)
  PROVE  /\ DOMAIN f \subseteq S
         /\ f = [x \in DOMAIN f |-> f[x]]
         /\ \A x \in DOMAIN f : f[x] \in T
  BY DEF PartialFunctions

LEMMA PartialFunctionOf ==
  ASSUME NEW S, NEW T, NEW f, f = [x \in DOMAIN f |-> f[x]],
         DOMAIN f \subseteq S, \A x \in DOMAIN f : f[x] \in T
  PROVE  f \in PartialFunctions(S, T)
  BY DEF PartialFunctions

LEMMA ASchemaIs ==
  ASSUME NEW s \in Schemas
  PROVE  /\ DOMAIN s \subseteq Collections
         /\ \A c \in DOMAIN s :
              /\ s[c] = [fields |-> s[c].fields, hierarchy |-> s[c].hierarchy, auth |-> s[c].auth]
              /\ s[c].fields \in PartialFunctions(Fields, FieldDefs)
              /\ DOMAIN s[c].fields \subseteq Fields
              /\ s[c].hierarchy \in BOOLEAN
              /\ s[c].auth \in Realms \cup {None}
<1>1. DOMAIN s \subseteq Collections /\ \A c \in DOMAIN s : s[c] \in CollectionDefs
  BY PartialFunctionIs DEF Schemas
<1>2. ASSUME NEW c \in DOMAIN s
      PROVE  /\ s[c] = [fields |-> s[c].fields, hierarchy |-> s[c].hierarchy, auth |-> s[c].auth]
             /\ s[c].fields \in PartialFunctions(Fields, FieldDefs)
             /\ s[c].hierarchy \in BOOLEAN
             /\ s[c].auth \in Realms \cup {None}
  BY <1>1 DEF CollectionDefs
<1> QED  BY <1>1, <1>2, PartialFunctionIs

LEMMA ProposalsAreSchemas ==
  \A s \in Proposals : s \in Schemas /\ WellFormed(s)
  BY SchemaAssumption DEF Schemas

LEMMA TheEmptySchema == EmptySchema \in Schemas /\ WellFormed(EmptySchema) /\ Objects(EmptySchema) = {}
<1>1. DOMAIN EmptySchema = {} BY DEF EmptySchema
<1>2. EmptySchema = [x \in DOMAIN EmptySchema |-> EmptySchema[x]]  BY DEF EmptySchema
<1> QED  BY <1>1, <1>2, PartialFunctionOf DEF Schemas, WellFormed, Objects

LEMMA ObjectsAreIds ==
  ASSUME NEW s \in Schemas PROVE Objects(s) \subseteq Ids
  BY ASchemaIs DEF Objects, Ids

-----------------------------------------------------------------------------
(* What planning two schemas shows.                                        *)

LEMMA WhatIsPlanned ==
  ASSUME NEW p, NEW n, NEW o
  PROVE  o \in PlannedOperations(p, n) <=>
           \/ \E c \in DOMAIN p \ DOMAIN n : o = Op("drop-table", c, None)
           \/ \E c \in DOMAIN n \ DOMAIN p : o = Op("create-table", c, None)
           \/ \E c \in Both(p, n) :
                \/ p[c].hierarchy /\ ~n[c].hierarchy /\ o = Op("drop-hierarchy", c, None)
                \/ \E f \in DroppedColumns(p, n, c) : o = Op("drop-column", c, f)
                \/ \E f \in DroppedColumns(n, p, c) : o = Op("add-column", c, f)
                \/ \E f \in AlteredColumns(p, n, c) : o = Op("alter-column", c, f)
<1>1. o \in UNION {{Op("drop-column", c, f) : f \in DroppedColumns(p, n, c)} : c \in Both(p, n)} <=>
        \E c \in Both(p, n) : \E f \in DroppedColumns(p, n, c) : o = Op("drop-column", c, f)
  <2> DEFINE Under(c) == {Op("drop-column", c, f) : f \in DroppedColumns(p, n, c)}
  <2>1. \A c : o \in Under(c) <=> \E f \in DroppedColumns(p, n, c) : o = Op("drop-column", c, f)
    OBVIOUS
  <2> HIDE DEF Under
  <2>2. o \in UNION {Under(c) : c \in Both(p, n)} <=> \E c \in Both(p, n) : o \in Under(c)
    OBVIOUS
  <2> QED  BY <2>1, <2>2, Zenon DEF Under
<1>2. o \in UNION {{Op("add-column", c, f) : f \in DroppedColumns(n, p, c)} : c \in Both(p, n)} <=>
        \E c \in Both(p, n) : \E f \in DroppedColumns(n, p, c) : o = Op("add-column", c, f)
  <2> DEFINE Under(c) == {Op("add-column", c, f) : f \in DroppedColumns(n, p, c)}
  <2>1. \A c : o \in Under(c) <=> \E f \in DroppedColumns(n, p, c) : o = Op("add-column", c, f)
    OBVIOUS
  <2> HIDE DEF Under
  <2>2. o \in UNION {Under(c) : c \in Both(p, n)} <=> \E c \in Both(p, n) : o \in Under(c)
    OBVIOUS
  <2> QED  BY <2>1, <2>2, Zenon DEF Under
<1>3. o \in UNION {{Op("alter-column", c, f) : f \in AlteredColumns(p, n, c)} : c \in Both(p, n)} <=>
        \E c \in Both(p, n) : \E f \in AlteredColumns(p, n, c) : o = Op("alter-column", c, f)
  <2> DEFINE Under(c) == {Op("alter-column", c, f) : f \in AlteredColumns(p, n, c)}
  <2>1. \A c : o \in Under(c) <=> \E f \in AlteredColumns(p, n, c) : o = Op("alter-column", c, f)
    OBVIOUS
  <2> HIDE DEF Under
  <2>2. o \in UNION {Under(c) : c \in Both(p, n)} <=> \E c \in Both(p, n) : o \in Under(c)
    OBVIOUS
  <2> QED  BY <2>1, <2>2, Zenon DEF Under
<1>4. /\ o \in {Op("drop-table", c, None) : c \in DOMAIN p \ DOMAIN n} <=>
           \E c \in DOMAIN p \ DOMAIN n : o = Op("drop-table", c, None)
      /\ o \in {Op("create-table", c, None) : c \in DOMAIN n \ DOMAIN p} <=>
           \E c \in DOMAIN n \ DOMAIN p : o = Op("create-table", c, None)
      /\ o \in {Op("drop-hierarchy", c, None) : c \in {d \in Both(p, n) : p[d].hierarchy /\ ~n[d].hierarchy}} <=>
           \E c \in Both(p, n) : p[c].hierarchy /\ ~n[c].hierarchy /\ o = Op("drop-hierarchy", c, None)
  OBVIOUS
<1>5. o \in PlannedOperations(p, n) <=>
        \/ o \in {Op("drop-table", c, None) : c \in DOMAIN p \ DOMAIN n}
        \/ o \in {Op("create-table", c, None) : c \in DOMAIN n \ DOMAIN p}
        \/ o \in {Op("drop-hierarchy", c, None) : c \in {d \in Both(p, n) : p[d].hierarchy /\ ~n[d].hierarchy}}
        \/ o \in UNION {{Op("drop-column", c, f) : f \in DroppedColumns(p, n, c)} : c \in Both(p, n)}
        \/ o \in UNION {{Op("add-column", c, f) : f \in DroppedColumns(n, p, c)} : c \in Both(p, n)}
        \/ o \in UNION {{Op("alter-column", c, f) : f \in AlteredColumns(p, n, c)} : c \in Both(p, n)}
  <2> DEFINE A == {Op("drop-table", c, None) : c \in DOMAIN p \ DOMAIN n}
             B == {Op("create-table", c, None) : c \in DOMAIN n \ DOMAIN p}
             C == {Op("drop-hierarchy", c, None) : c \in {d \in Both(p, n) : p[d].hierarchy /\ ~n[d].hierarchy}}
             D == UNION {{Op("drop-column", c, f) : f \in DroppedColumns(p, n, c)} : c \in Both(p, n)}
             E == UNION {{Op("add-column", c, f) : f \in DroppedColumns(n, p, c)} : c \in Both(p, n)}
             F == UNION {{Op("alter-column", c, f) : f \in AlteredColumns(p, n, c)} : c \in Both(p, n)}
  <2>1. PlannedOperations(p, n) = A \cup B \cup C \cup D \cup E \cup F
    BY Zenon DEF PlannedOperations
  <2> HIDE DEF A, B, C, D, E, F
  <2>2. o \in PlannedOperations(p, n) <=>
          o \in A \/ o \in B \/ o \in C \/ o \in D \/ o \in E \/ o \in F
    BY <2>1
  <2> QED  BY <2>2, Zenon DEF A, B, C, D, E, F
<1> DEFINE Hierarchies == \E c \in Both(p, n) : p[c].hierarchy /\ ~n[c].hierarchy
                                               /\ o = Op("drop-hierarchy", c, None)
           Drops == \E c \in Both(p, n) : \E f \in DroppedColumns(p, n, c) : o = Op("drop-column", c, f)
           Adds == \E c \in Both(p, n) : \E f \in DroppedColumns(n, p, c) : o = Op("add-column", c, f)
           Alters == \E c \in Both(p, n) : \E f \in AlteredColumns(p, n, c) : o = Op("alter-column", c, f)
<1> HIDE DEF Hierarchies, Drops, Adds, Alters
<1>6. (\E c \in Both(p, n) :
         \/ p[c].hierarchy /\ ~n[c].hierarchy /\ o = Op("drop-hierarchy", c, None)
         \/ \E f \in DroppedColumns(p, n, c) : o = Op("drop-column", c, f)
         \/ \E f \in DroppedColumns(n, p, c) : o = Op("add-column", c, f)
         \/ \E f \in AlteredColumns(p, n, c) : o = Op("alter-column", c, f))
      <=> Hierarchies \/ Drops \/ Adds \/ Alters
  BY Zenon DEF Hierarchies, Drops, Adds, Alters
<1>7. o \in PlannedOperations(p, n) <=>
        \/ \E c \in DOMAIN p \ DOMAIN n : o = Op("drop-table", c, None)
        \/ \E c \in DOMAIN n \ DOMAIN p : o = Op("create-table", c, None)
        \/ Hierarchies \/ Drops \/ Adds \/ Alters
  BY <1>1, <1>2, <1>3, <1>4, <1>5 DEF Hierarchies, Drops, Adds, Alters
<1> QED  BY <1>6, <1>7

LEMMA AnOperation ==
  ASSUME NEW kind, NEW c, NEW f
  PROVE  Op(kind, c, f).kind = kind /\ Op(kind, c, f).collection = c /\ Op(kind, c, f).field = f
  BY DEF Op

LEMMA ATableIsDropped ==
  ASSUME NEW p, NEW n, NEW c
  PROVE  Has(PlannedOperations(p, n), "drop-table", c) <=> c \in DOMAIN p \ DOMAIN n
  BY WhatIsPlanned, AnOperation DEF Has, Both

LEMMA ATableIsMade ==
  ASSUME NEW p, NEW n, NEW c
  PROVE  Has(PlannedOperations(p, n), "create-table", c) <=> c \in DOMAIN n \ DOMAIN p
  BY WhatIsPlanned, AnOperation DEF Has, Both

LEMMA AHierarchyIsDropped ==
  ASSUME NEW p, NEW n, NEW c
  PROVE  Has(PlannedOperations(p, n), "drop-hierarchy", c)
           <=> c \in Both(p, n) /\ p[c].hierarchy /\ ~n[c].hierarchy
  BY WhatIsPlanned, AnOperation DEF Has, Both

LEMMA ColumnsAreDropped ==
  ASSUME NEW p, NEW n, NEW c \in Both(p, n)
  PROVE  Touched(PlannedOperations(p, n), c, {"drop-column"}) = DOMAIN p[c].fields \ DOMAIN n[c].fields
  BY WhatIsPlanned, AnOperation DEF Touched, Both, DroppedColumns, AlteredColumns

LEMMA ColumnsAreWritten ==
  ASSUME NEW p, NEW n, NEW c \in Both(p, n)
  PROVE  Touched(PlannedOperations(p, n), c, {"add-column", "alter-column"}) =
           {f \in DOMAIN n[c].fields :
              f \in DOMAIN p[c].fields => Altered(p[c].fields[f], n[c].fields[f])}
  BY WhatIsPlanned, AnOperation DEF Touched, Both, DroppedColumns, AlteredColumns

-----------------------------------------------------------------------------
(* A migration makes of tables that are those of one schema those of the   *)
(* next.                                                                   *)

RowOf(row, def) ==
  /\ row \in Rows /\ DOMAIN row.values = DOMAIN def.fields
  /\ \A f \in DOMAIN def.fields : def.fields[f].required => row.values[f]

TablesMatch(t, s) ==
  /\ t = [c \in DOMAIN s |-> [columns |-> Columns(s[c]), row |-> t[c].row]]
  /\ \A c \in DOMAIN s : t[c].row = None \/ RowOf(t[c].row, s[c])

LEMMA ColumnsOfASchema ==
  ASSUME NEW s \in Schemas, NEW c \in DOMAIN s
  PROVE  /\ Columns(s[c]) = [f \in DOMAIN s[c].fields |-> Columns(s[c])[f]]
         /\ \A f \in DOMAIN s[c].fields :
              /\ s[c].fields[f].required \in BOOLEAN
              /\ Columns(s[c])[f] = [type |-> s[c].fields[f].type, notNull |-> s[c].fields[f].required]
<1>1. \A f \in DOMAIN s[c].fields : s[c].fields[f] \in FieldDefs
  BY ASchemaIs, PartialFunctionIs
<1> QED  BY <1>1 DEF Columns, FieldDefs

LEMMA MigratedTableIs ==
  ASSUME NEW p \in Schemas, NEW n \in Schemas, TablesMatch(tables, p), NEW c \in Both(p, n)
  PROVE  MigratedTable(PlannedOperations(p, n), c, n[c]) =
           [columns |-> Columns(n[c]),
            row |-> MigratedRow(tables[c].row, DOMAIN n[c].fields, PlannedOperations(p, n), c, n[c])]
<1> DEFINE ops == PlannedOperations(p, n)
           new == Touched(ops, c, {"add-column", "alter-column"})
           cols == (DOMAIN tables[c].columns \ Touched(ops, c, {"drop-column"})) \cup new
<1>0. c \in DOMAIN p /\ c \in DOMAIN n
  BY DEF Both
<1>1. tables[c].columns = Columns(p[c])
  BY <1>0 DEF TablesMatch
<1>2. DOMAIN Columns(p[c]) = DOMAIN p[c].fields
  BY <1>0, ColumnsOfASchema
<1>3. new = {f \in DOMAIN n[c].fields :
               f \in DOMAIN p[c].fields => Altered(p[c].fields[f], n[c].fields[f])}
  BY ColumnsAreWritten
<1>4. Touched(ops, c, {"drop-column"}) = DOMAIN p[c].fields \ DOMAIN n[c].fields
  BY ColumnsAreDropped
<1>5. cols = DOMAIN n[c].fields
  BY <1>1, <1>2, <1>3, <1>4
<1>6. ASSUME NEW f \in DOMAIN n[c].fields, f \notin new
      PROVE  tables[c].columns[f] = Columns(n[c])[f]
  <2>1. f \in DOMAIN p[c].fields /\ ~Altered(p[c].fields[f], n[c].fields[f])
    BY <1>3, <1>6
  <2>2. Columns(p[c])[f] = [type |-> p[c].fields[f].type, notNull |-> p[c].fields[f].required]
    BY <1>0, <2>1, ColumnsOfASchema
  <2>3. Columns(n[c])[f] = [type |-> n[c].fields[f].type, notNull |-> n[c].fields[f].required]
    BY <1>0, ColumnsOfASchema
  <2> QED  BY <1>1, <2>1, <2>2, <2>3 DEF Altered
<1>7. [f \in cols |-> IF f \in new THEN Columns(n[c])[f] ELSE tables[c].columns[f]] = Columns(n[c])
  <2>1. Columns(n[c]) = [f \in DOMAIN n[c].fields |-> Columns(n[c])[f]]
    BY <1>0, ColumnsOfASchema
  <2> HIDE DEF new
  <2>2. [f \in DOMAIN n[c].fields |-> IF f \in new THEN Columns(n[c])[f] ELSE tables[c].columns[f]]
          = [f \in DOMAIN n[c].fields |-> Columns(n[c])[f]]
    BY <1>6
  <2> HIDE DEF cols
  <2> QED  BY <1>5, <2>1, <2>2
<1>8. MigratedTable(ops, c, n[c]) =
        [columns |-> [f \in cols |-> IF f \in new THEN Columns(n[c])[f] ELSE tables[c].columns[f]],
         row |-> MigratedRow(tables[c].row, cols, ops, c, n[c])]
  BY DEF MigratedTable
<1> HIDE DEF ops, new, cols
<1> QED  BY <1>5, <1>7, <1>8 DEF ops

LEMMA MigratedIs ==
  ASSUME NEW p \in Schemas, NEW n \in Schemas, TablesMatch(tables, p)
  PROVE  Migrated(PlannedOperations(p, n), n) =
           [c \in DOMAIN n |->
              [columns |-> Columns(n[c]),
               row |-> IF c \in DOMAIN p
                       THEN MigratedRow(tables[c].row, DOMAIN n[c].fields, PlannedOperations(p, n), c, n[c])
                       ELSE None]]
<1> DEFINE ops == PlannedOperations(p, n)
           D == {c \in DOMAIN tables : ~Has(ops, "drop-table", c)}
                  \cup {c \in DOMAIN n : Has(ops, "create-table", c)}
<1>1. DOMAIN tables = DOMAIN p
  BY DEF TablesMatch
<1>2. D = DOMAIN n
  BY <1>1, ATableIsDropped, ATableIsMade
<1>3. ASSUME NEW c \in DOMAIN n
      PROVE  (IF Has(ops, "create-table", c) THEN [columns |-> Columns(n[c]), row |-> None]
              ELSE MigratedTable(ops, c, n[c])) =
                [columns |-> Columns(n[c]),
                 row |-> IF c \in DOMAIN p
                         THEN MigratedRow(tables[c].row, DOMAIN n[c].fields, ops, c, n[c]) ELSE None]
  <2>1. Has(ops, "create-table", c) <=> c \notin DOMAIN p
    BY ATableIsMade
  <2>2. CASE c \in DOMAIN p
    <3>1. c \in Both(p, n)  BY <2>2 DEF Both
    <3> QED  BY <2>1, <2>2, <3>1, MigratedTableIs
  <2>3. CASE c \notin DOMAIN p  BY <2>1, <2>3
  <2> QED  BY <2>2, <2>3
<1>4. Migrated(ops, n) = [c \in D |-> IF Has(ops, "create-table", c)
                                      THEN [columns |-> Columns(n[c]), row |-> None]
                                      ELSE MigratedTable(ops, c, n[c])]
  BY DEF Migrated
<1> HIDE DEF ops, D
<1> QED  BY <1>2, <1>3, <1>4 DEF ops

LEMMA AMigratedRow ==
  ASSUME NEW p \in Schemas, NEW n \in Schemas, NEW c \in Both(p, n), NEW row, NEW ops,
         row # None, RowOf(row, p[c]),
         NEW migrated, migrated = MigratedRow(row, DOMAIN n[c].fields, ops, c, n[c])
  PROVE  /\ migrated \in Rows
         /\ DOMAIN migrated.values = DOMAIN n[c].fields
<1> DEFINE cols == DOMAIN n[c].fields
           values == [f \in cols |-> IF f \in DOMAIN row.values THEN row.values[f]
                                     ELSE n[c].fields[f].required /\ n[c].fields[f].default]
<1>1. c \in DOMAIN n /\ c \in DOMAIN p
  BY DEF Both
<1>2. MigratedRow(row, cols, ops, c, n[c]) =
        [values |-> values, placed |-> row.placed /\ ~Has(ops, "drop-hierarchy", c)]
  BY DEF MigratedRow
<1>3. /\ DOMAIN row.values = DOMAIN p[c].fields
      /\ row.values \in PartialFunctions(Fields, BOOLEAN)
      /\ \A f \in DOMAIN row.values : row.values[f] \in BOOLEAN
  BY PartialFunctionIs DEF RowOf, Rows
<1>4. cols \subseteq Fields
  BY <1>1, ASchemaIs
<1>5. \A f \in cols : values[f] \in BOOLEAN
  BY <1>3
<1>6. values \in PartialFunctions(Fields, BOOLEAN)
  <2>1. DOMAIN values = cols /\ values = [f \in DOMAIN values |-> values[f]]
    OBVIOUS
  <2> HIDE DEF values, cols
  <2> QED  BY <1>4, <1>5, <2>1, PartialFunctionOf
<1>7. DOMAIN values = cols /\ \A f \in cols \cap DOMAIN p[c].fields : values[f] = row.values[f]
  BY <1>3
<1>8. PICK b \in BOOLEAN : b = (row.placed /\ ~Has(ops, "drop-hierarchy", c))
  OBVIOUS
<1> HIDE DEF values
<1>9. migrated = [values |-> values, placed |-> b]
  BY <1>2, <1>8
<1>10. migrated \in Rows
  <2> HIDE DEF cols
  <2> QED  BY <1>6, <1>9 DEF Rows
<1> QED  BY <1>7, <1>9, <1>10

LEMMA MigratedTablesMatch ==
  ASSUME NEW p \in Schemas, NEW n \in Schemas, TablesMatch(tables, p),
         ConstraintsHold(Migrated(PlannedOperations(p, n), n))
  PROVE  TablesMatch(Migrated(PlannedOperations(p, n), n), n)
<1> DEFINE ops == PlannedOperations(p, n)
           t == Migrated(ops, n)
<1>1. /\ DOMAIN t = DOMAIN n
      /\ \A c \in DOMAIN n :
           t[c] = [columns |-> Columns(n[c]),
                   row |-> IF c \in DOMAIN p
                           THEN MigratedRow(tables[c].row, DOMAIN n[c].fields, ops, c, n[c])
                           ELSE None]
      /\ t = [c \in DOMAIN n |-> t[c]]
  <2>1. t = [c \in DOMAIN n |->
               [columns |-> Columns(n[c]),
                row |-> IF c \in DOMAIN p
                        THEN MigratedRow(tables[c].row, DOMAIN n[c].fields, ops, c, n[c])
                        ELSE None]]
    BY MigratedIs
  <2> HIDE DEF ops, t
  <2> QED  BY <2>1
<1>2. ConstraintsHold(t)
  OBVIOUS
<1> HIDE DEF t
<1>3. ASSUME NEW c \in DOMAIN n, t[c].row # None
      PROVE  RowOf(t[c].row, n[c])
  <2>1. c \in DOMAIN p /\ t[c].row = MigratedRow(tables[c].row, DOMAIN n[c].fields, ops, c, n[c])
    BY <1>1, <1>3
  <2>2. tables[c].row # None /\ RowOf(tables[c].row, p[c])
    BY <1>3, <2>1 DEF TablesMatch, MigratedRow
  <2>3. t[c].row \in Rows /\ DOMAIN t[c].row.values = DOMAIN n[c].fields
    <3>1. c \in Both(p, n)  BY <2>1 DEF Both
    <3> HIDE DEF ops
    <3>2. PICK row : row = tables[c].row  OBVIOUS
    <3>3. row # None /\ RowOf(row, p[c])
      BY <2>2, <3>2
    <3>4. PICK m : m = t[c].row  OBVIOUS
    <3>5. m = MigratedRow(row, DOMAIN n[c].fields, ops, c, n[c])
      BY <2>1, <3>2, <3>4
    <3>6. m \in Rows /\ DOMAIN m.values = DOMAIN n[c].fields
      BY <3>1, <3>3, <3>5, AMigratedRow
    <3> QED  BY <3>4, <3>6
  <2>4. ASSUME NEW f \in DOMAIN n[c].fields, n[c].fields[f].required
        PROVE  t[c].row.values[f]
    <3>1. f \in DOMAIN t[c].columns /\ t[c].columns[f].notNull
      <4>1. t[c].columns = Columns(n[c])  BY <1>1
      <4>2. /\ DOMAIN Columns(n[c]) = DOMAIN n[c].fields
            /\ Columns(n[c])[f] = [type |-> n[c].fields[f].type, notNull |-> n[c].fields[f].required]
        BY ColumnsOfASchema
      <4> QED  BY <2>4, <4>1, <4>2
    <3> QED  BY <1>1, <1>2, <1>3, <3>1 DEF ConstraintsHold
  <2> QED  BY <2>3, <2>4 DEF RowOf
<1>4. t = [c \in DOMAIN n |-> [columns |-> Columns(n[c]), row |-> t[c].row]]
  BY <1>1
<1> QED  BY <1>3, <1>4 DEF TablesMatch, t

\* A plan the planner does not call destructive keeps every table with its
\* columns and positions.
LEMMA NothingIsDropped ==
  ASSUME NEW p \in Schemas, NEW n \in Schemas, ~DestructiveOperation(p, n)
  PROVE  /\ DOMAIN p \subseteq DOMAIN n
         /\ \A c \in DOMAIN p : /\ DOMAIN p[c].fields \subseteq DOMAIN n[c].fields
                               /\ ~Has(PlannedOperations(p, n), "drop-hierarchy", c)
<1>1. \A o \in PlannedOperations(p, n) : o.kind \notin {"drop-table", "drop-column", "drop-hierarchy"}
  BY DEF DestructiveOperation
<1>2. DOMAIN p \subseteq DOMAIN n
  <2>1. ASSUME NEW c \in DOMAIN p \ DOMAIN n PROVE FALSE
    BY <1>1, ATableIsDropped DEF Has
  <2> QED  BY <2>1
<1>3. ASSUME NEW c \in DOMAIN p PROVE DOMAIN p[c].fields \subseteq DOMAIN n[c].fields
  <2>1. Touched(PlannedOperations(p, n), c, {"drop-column"}) = {}
    BY <1>1 DEF Touched
  <2> QED  BY <1>2, <2>1, ColumnsAreDropped DEF Both
<1> QED  BY <1>1, <1>2, <1>3 DEF Has

LEMMA NothingIsLost ==
  ASSUME NEW p \in Schemas, NEW n \in Schemas, TablesMatch(tables, p), ~DestructiveOperation(p, n),
         NEW t, t = Migrated(PlannedOperations(p, n), n)
  PROVE  Stored(tables) \subseteq Stored(t) /\ Placed(tables) \subseteq Placed(t)
<1>1. /\ DOMAIN tables = DOMAIN p /\ DOMAIN t = DOMAIN n
      /\ DOMAIN p \subseteq DOMAIN n
  BY MigratedIs, NothingIsDropped DEF TablesMatch
<1>2. ASSUME NEW c \in DOMAIN tables, tables[c].row # None
      PROVE  /\ c \in DOMAIN t /\ t[c].row # None
             /\ t[c].row.placed = tables[c].row.placed
             /\ DOMAIN tables[c].columns \subseteq DOMAIN t[c].columns
             /\ \A f \in DOMAIN tables[c].columns : t[c].row.values[f] = tables[c].row.values[f]
  <2>1. c \in DOMAIN p /\ c \in DOMAIN n /\ c \in Both(p, n)
    BY <1>1 DEF Both
  <2>2. PICK row : row = tables[c].row  OBVIOUS
  <2>3. row # None /\ RowOf(row, p[c]) /\ tables[c].columns = Columns(p[c])
    BY <1>2, <2>1, <2>2 DEF TablesMatch
  <2>4. PICK ops : ops = PlannedOperations(p, n)  OBVIOUS
  <2>5. PICK m : m = MigratedRow(row, DOMAIN n[c].fields, ops, c, n[c])
    OBVIOUS
  <2>6. t[c] = [columns |-> Columns(n[c]), row |-> m]
    BY <2>1, <2>2, <2>4, <2>5, MigratedIs
  <2>7. m \in Rows
    BY <2>1, <2>3, <2>5, AMigratedRow
  <2>8. /\ m.placed = (row.placed /\ ~Has(ops, "drop-hierarchy", c))
        /\ \A f \in DOMAIN n[c].fields :
             f \in DOMAIN p[c].fields => m.values[f] = row.values[f]
    BY <2>3, <2>5 DEF MigratedRow, RowOf
  <2>9. DOMAIN p[c].fields \subseteq DOMAIN n[c].fields /\ ~Has(ops, "drop-hierarchy", c)
    BY <2>1, <2>4, NothingIsDropped
  <2>10. DOMAIN tables[c].columns = DOMAIN p[c].fields /\ DOMAIN t[c].columns = DOMAIN n[c].fields
    BY <2>1, <2>3, <2>6, ColumnsOfASchema
  <2>11. m # None
    BY <2>7, SchemaAssumption
  <2>12. row.placed \in BOOLEAN
    BY <2>3 DEF RowOf, Rows
  <2> QED  BY <1>1, <2>1, <2>2, <2>6, <2>8, <2>9, <2>10, <2>11, <2>12
<1>3. Placed(tables) \subseteq Placed(t)
  BY <1>2 DEF Placed
<1>4. ASSUME NEW at \in Stored(tables) PROVE at \in Stored(t)
  <2>1. PICK c \in DOMAIN tables :
          tables[c].row # None /\ at \in {c} \X {f \in DOMAIN tables[c].columns : tables[c].row.values[f]}
    BY <1>4 DEF Stored
  <2>2. PICK f \in DOMAIN tables[c].columns : at = <<c, f>> /\ tables[c].row.values[f]
    BY <2>1
  <2>3. /\ c \in DOMAIN t /\ t[c].row # None
        /\ f \in DOMAIN t[c].columns /\ t[c].row.values[f]
    BY <1>2, <2>1, <2>2
  <2>4. at \in {c} \X {g \in DOMAIN t[c].columns : t[c].row.values[g]}
    BY <2>2, <2>3
  <2> QED  BY <2>3, <2>4 DEF Stored
<1> QED  BY <1>3, <1>4

-----------------------------------------------------------------------------
(* Profile collections.                                                    *)

RealmRows == [status: {"provisioning", "active", "disabled"},
              profile: Collections \cup {None}, policy: BOOLEAN]

ProfilesAgree(s, cfgs, rlms) ==
  /\ cfgs \in PartialFunctions(Collections, Realms)
  /\ rlms \in [Realms -> RealmRows]
  /\ \A c \in Collections, r \in Realms : AuthOf(s, c) = r <=> c \in DOMAIN cfgs /\ cfgs[c] = r
  /\ \A c \in Collections, r \in Realms : AuthOf(s, c) = r <=> rlms[r].profile = c
  /\ \A r \in Realms : rlms[r].status = "active" => rlms[r].profile # None /\ rlms[r].policy

LEMMA OneProfile ==
  ASSUME NEW s \in Schemas, WellFormed(s), NEW r \in Realms, NEW c \in DOMAIN s, s[c].auth = r
  PROVE  (CHOOSE d \in DOMAIN s : s[d].auth = r) = c
<1>1. r # None
  BY SchemaAssumption
<1>2. \A d \in DOMAIN s : s[d].auth = r => d = c
  BY <1>1 DEF WellFormed
<1> QED  BY <1>2

LEMMA ConfigsAgree ==
  ASSUME NEW p \in Schemas, NEW n \in Schemas, ProfilesAgree(p, configs, realms)
  PROVE  /\ MaterializedConfigs(p, n) \in PartialFunctions(Collections, Realms)
         /\ \A c \in Collections, r \in Realms :
              AuthOf(n, c) = r <=> c \in DOMAIN MaterializedConfigs(p, n) /\ MaterializedConfigs(p, n)[c] = r
<1> DEFINE kept == {c \in DOMAIN configs : ~(AuthOf(p, c) = configs[c] /\ AuthTaken(p, n, c))}
           set == {c \in DOMAIN n : n[c].auth # None}
<1>1. None \notin Realms
  BY SchemaAssumption
<1>2. DOMAIN configs \subseteq Collections /\ \A c \in DOMAIN configs : configs[c] \in Realms
  BY PartialFunctionIs DEF ProfilesAgree
<1>3. kept \subseteq set
  <2>1. ASSUME NEW c \in kept PROVE c \in set
    <3>1. AuthOf(p, c) = configs[c] /\ configs[c] # None
      BY <1>1, <1>2 DEF ProfilesAgree
    <3>2. AuthOf(n, c) = configs[c]
      BY <3>1 DEF AuthTaken
    <3> QED  BY <3>1, <3>2 DEF AuthOf
  <2> QED  BY <2>1
<1>4. MaterializedConfigs(p, n) = [c \in kept \cup set |-> IF c \in set THEN n[c].auth ELSE configs[c]]
  BY DEF MaterializedConfigs
<1>5. MaterializedConfigs(p, n) = [c \in set |-> n[c].auth]
  <2> HIDE DEF kept, set
  <2> QED  BY <1>3, <1>4
<1>6. \A c \in set : n[c].auth \in Realms /\ c \in Collections
  BY ASchemaIs
<1>7. PICK g : g = MaterializedConfigs(p, n)  OBVIOUS
<1>8. DOMAIN g = set /\ g = [c \in DOMAIN g |-> g[c]] /\ \A c \in set : g[c] = n[c].auth
  BY <1>5, <1>7
<1>9. g \in PartialFunctions(Collections, Realms)
  BY <1>6, <1>8, PartialFunctionOf
<1>10. ASSUME NEW c \in Collections, NEW r \in Realms
       PROVE  AuthOf(n, c) = r <=> c \in DOMAIN g /\ g[c] = r
  BY <1>1, <1>8 DEF AuthOf
<1> QED  BY <1>7, <1>9, <1>10

LEMMA RealmsAgree ==
  ASSUME NEW p \in Schemas, NEW n \in Schemas, WellFormed(n), ProfilesAgree(p, configs, realms),
         PreflightAccepts(p, n)
  PROVE  /\ MaterializedRealms(p, n) \in [Realms -> RealmRows]
         /\ \A c \in Collections, r \in Realms :
              AuthOf(n, c) = r <=> MaterializedRealms(p, n)[r].profile = c
         /\ \A r \in Realms : MaterializedRealms(p, n)[r].status = "active" =>
              MaterializedRealms(p, n)[r].profile # None /\ MaterializedRealms(p, n)[r].policy
<1> DEFINE left == {r \in Realms : \E c \in DOMAIN p : AuthOf(p, c) = r /\ AuthOf(n, c) # r}
           released == [r \in Realms |-> IF r \in left
                          THEN [realms[r] EXCEPT !.profile = None, !.status = "disabled"]
                          ELSE realms[r]]
           Linked1(r) == [released[r] EXCEPT !.profile = CHOOSE c \in DOMAIN n : n[c].auth = r,
                                             !.status = IF @ = "provisioning" THEN "active" ELSE @]
<1>1. MaterializedRealms(p, n) =
        [r \in Realms |-> IF \E c \in DOMAIN n : n[c].auth = r THEN Linked1(r) ELSE released[r]]
  BY DEF MaterializedRealms
<1>2. None \notin Realms /\ None \notin Collections
  BY SchemaAssumption
<1>3. ASSUME NEW r \in Realms
      PROVE  /\ MaterializedRealms(p, n)[r] \in RealmRows
             /\ \A c \in Collections : AuthOf(n, c) = r <=> MaterializedRealms(p, n)[r].profile = c
             /\ MaterializedRealms(p, n)[r].status = "active" =>
                  MaterializedRealms(p, n)[r].profile # None /\ MaterializedRealms(p, n)[r].policy
  <2>1. PICK a \in {"provisioning", "active", "disabled"}, k \in Collections \cup {None}, b \in BOOLEAN :
          realms[r] = [status |-> a, profile |-> k, policy |-> b]
    BY DEF ProfilesAgree, RealmRows
  <2>2. released[r] = IF r \in left THEN [status |-> "disabled", profile |-> None, policy |-> b]
                      ELSE [status |-> a, profile |-> k, policy |-> b]
    <3> HIDE DEF left
    <3>1. PICK old : old = realms[r]  OBVIOUS
    <3>2. released[r] = IF r \in left THEN [old EXCEPT !.profile = None, !.status = "disabled"] ELSE old
      BY <3>1
    <3>3. old = [status |-> a, profile |-> k, policy |-> b]
      BY <2>1, <3>1
    <3> HIDE DEF released
    <3> QED  BY <3>2, <3>3
  <2>3. PICK x \in {"provisioning", "active", "disabled"}, y \in Collections \cup {None} :
          released[r] = [status |-> x, profile |-> y, policy |-> b]
    BY <2>2
  <2>4. CASE \E c \in DOMAIN n : n[c].auth = r
    <3>1. PICK c \in DOMAIN n : n[c].auth = r
      BY <2>4
    <3>2. MaterializedRealms(p, n)[r] =
            [status |-> IF x = "provisioning" THEN "active" ELSE x, profile |-> c, policy |-> b]
      <4>1. (CHOOSE d \in DOMAIN n : n[d].auth = r) = c
        BY <3>1, OneProfile
      <4>2. MaterializedRealms(p, n)[r] = Linked1(r)
        BY <1>1, <2>4
      <4> HIDE DEF released
      <4>3. PICK old : old = released[r]  OBVIOUS
      <4>4. MaterializedRealms(p, n)[r] =
              [old EXCEPT !.profile = c, !.status = IF @ = "provisioning" THEN "active" ELSE @]
        BY <4>1, <4>2, <4>3
      <4>5. old = [status |-> x, profile |-> y, policy |-> b]
        BY <2>3, <4>3
      <4> QED  BY <4>4, <4>5
    <3>3. c \in Collections /\ AuthOf(n, c) = r
      BY <3>1, ASchemaIs DEF AuthOf
    <3>4. \A d \in Collections : AuthOf(n, d) = r => d = c
      BY <1>2, <3>1 DEF AuthOf, WellFormed
    <3>5. realms[r].policy
      BY <1>2, <3>1, <3>3 DEF PreflightAccepts
    <3>6. b = TRUE
      BY <2>1, <3>5
    <3> QED  BY <1>2, <3>2, <3>3, <3>4, <3>6 DEF RealmRows
  <2>5. CASE ~\E c \in DOMAIN n : n[c].auth = r
    <3>1. MaterializedRealms(p, n)[r] = released[r]
      BY <1>1, <2>5
    <3>2. \A c \in Collections : AuthOf(n, c) # r
      BY <1>2, <2>5 DEF AuthOf
    <3>3. CASE r \in left
      BY <1>2, <2>2, <3>1, <3>2, <3>3 DEF RealmRows
    <3>4. CASE r \notin left
      <4>1. \A c \in Collections : AuthOf(p, c) # r
        BY <1>2, <3>2, <3>4 DEF AuthOf
      <4>2. k \notin Collections
        BY <2>1, <4>1 DEF ProfilesAgree
      <4>3. MaterializedRealms(p, n)[r] = realms[r]
        BY <3>1, <3>4
      <4> QED  BY <2>1, <3>2, <4>2, <4>3 DEF ProfilesAgree, RealmRows
    <3> QED  BY <3>3, <3>4
  <2> QED  BY <2>4, <2>5
<1>4. MaterializedRealms(p, n) = [r \in Realms |-> MaterializedRealms(p, n)[r]]
  BY <1>1
<1> QED  BY <1>3, <1>4

LEMMA ProfilesStayAgreed ==
  ASSUME NEW p \in Schemas, NEW n \in Schemas, WellFormed(n), ProfilesAgree(p, configs, realms),
         PreflightAccepts(p, n)
  PROVE  ProfilesAgree(n, MaterializedConfigs(p, n), MaterializedRealms(p, n))
  BY ConfigsAgree, RealmsAgree DEF ProfilesAgree

\* A realm keeps its profiles where none are taken.
LEMMA ProfilesAreKept ==
  ASSUME NEW p \in Schemas, NEW n \in Schemas, WellFormed(n), ProfilesAgree(p, configs, realms),
         PreflightAccepts(p, n), ~DestructiveChange(p, n), NEW r \in Realms, realms[r].profile # None
  PROVE  MaterializedRealms(p, n)[r].profile = realms[r].profile
<1>1. realms[r].profile \in Collections
  BY DEF ProfilesAgree, RealmRows
<1>2. AuthOf(p, realms[r].profile) = r
  BY <1>1 DEF ProfilesAgree
<1>3. r # None
  BY SchemaAssumption
<1>4. AuthOf(n, realms[r].profile) = r
  BY <1>2, <1>3 DEF DestructiveChange, AuthTaken, AuthOf
<1> QED  BY <1>1, <1>4, RealmsAgree

-----------------------------------------------------------------------------
(* Revisions, and the ids of what is in them.                              *)

SchemaIn(rs, r) ==
  IF r = 0 THEN EmptySchema ELSE rs[CHOOSE k \in DOMAIN rs : rs[k].id = r].schema

RevisionRows == [id: 1..MaxRuns, parent: 0..MaxRuns, schema: Proposals]

LineOK(act, rs, rn) ==
  /\ rs \in Seq(RevisionRows)
  /\ rn \in Seq({"pending", "applied", "failed"}) /\ Len(rn) <= MaxRuns
  /\ \A j, k \in DOMAIN rs : rs[j].id = rs[k].id => j = k
  /\ \A k \in DOMAIN rs : rs[k].parent = IF k = 1 THEN 0 ELSE rs[k - 1].id
  /\ act = IF rs = <<>> THEN 0 ELSE rs[Len(rs)].id
  /\ \A r : r \in DOMAIN rn /\ rn[r] = "applied" <=> \E k \in DOMAIN rs : rs[k].id = r

IdsFollow(s, rs, state) ==
  /\ state \in [Ids -> {"none", "issued", "active", "retired"}]
  /\ \A i \in Ids : state[i] = "active" <=> i \in Objects(s)
  /\ \A k \in DOMAIN rs : \A i \in Objects(rs[k].schema) : state[i] \in {"active", "retired"}
  /\ \A j, k \in DOMAIN rs : j < k =>
        \A i \in Objects(rs[j].schema) \ Objects(rs[k].schema) : state[i] = "retired"
  /\ \A j, k, l \in DOMAIN rs : j < k /\ k < l =>
        (Objects(rs[j].schema) \ Objects(rs[k].schema)) \cap Objects(rs[l].schema) = {}

LEMMA ARevision ==
  ASSUME NEW rs \in Seq(RevisionRows), NEW k \in DOMAIN rs
  PROVE  /\ rs[k] \in RevisionRows /\ k \in 1..Len(rs)
         /\ rs[k].id \in 1..MaxRuns /\ rs[k].id # 0 /\ rs[k].schema \in Proposals
<1>1. rs[k] \in RevisionRows /\ k \in 1..Len(rs)
  OBVIOUS
<1>2. PICK row : row = rs[k]  OBVIOUS
<1>3. row.id \in 1..MaxRuns /\ row.schema \in Proposals
  BY <1>1, <1>2 DEF RevisionRows
<1>4. row.id # 0
  BY <1>3, SchemaAssumption
<1> QED  BY <1>1, <1>2, <1>3, <1>4

LEMMA ARevisionIsNamed ==
  ASSUME NEW act, NEW rs, NEW rn, LineOK(act, rs, rn), NEW k \in DOMAIN rs
  PROVE  SchemaIn(rs, rs[k].id) = rs[k].schema
<1>1. rs[k].id # 0
  BY ARevision DEF LineOK
<1>2. (CHOOSE j \in DOMAIN rs : rs[j].id = rs[k].id) = k
  BY DEF LineOK
<1> QED  BY <1>1, <1>2 DEF SchemaIn

LEMMA TheActiveSchema ==
  ASSUME NEW act, NEW rs, NEW rn, LineOK(act, rs, rn)
  PROVE  /\ act \in 0..MaxRuns
         /\ SchemaIn(rs, act) \in Schemas /\ WellFormed(SchemaIn(rs, act))
         /\ rs = <<>> => act = 0
         /\ rs # <<>> => /\ Len(rs) \in DOMAIN rs /\ act = rs[Len(rs)].id
                        /\ SchemaIn(rs, act) = rs[Len(rs)].schema
         /\ act = 0 \/ \E k \in DOMAIN rs : rs[k].id = act
<1>0. MaxRuns \in Nat
  BY SchemaAssumption
<1>1. CASE rs = <<>>
  <2>1. act = 0  BY <1>1 DEF LineOK
  <2>2. SchemaIn(rs, act) = EmptySchema  BY <2>1 DEF SchemaIn
  <2> QED  BY <1>0, <1>1, <2>1, <2>2, TheEmptySchema
<1>2. CASE rs # <<>>
  <2>1. rs \in Seq(RevisionRows) /\ act = rs[Len(rs)].id
    BY <1>2 DEF LineOK
  <2>2. Len(rs) \in DOMAIN rs
    BY <1>2, <2>1
  <2>3. act \in 1..MaxRuns /\ rs[Len(rs)].schema \in Proposals
    BY <2>1, <2>2, ARevision
  <2>4. SchemaIn(rs, act) = rs[Len(rs)].schema
    BY <2>1, <2>2, ARevisionIsNamed
  <2> QED  BY <1>2, <2>1, <2>2, <2>3, <2>4, ProposalsAreSchemas
<1> QED  BY <1>1, <1>2

\* The line with one more revision, which its pending run names.
LEMMA ALineGrows ==
  ASSUME NEW act, NEW rs, NEW rn, LineOK(act, rs, rn), NEW run \in DOMAIN rn, rn[run] = "pending",
         NEW s \in Proposals,
         NEW x, x = [id |-> run, parent |-> act, schema |-> s],
         NEW rs1, rs1 = Append(rs, x)
  PROVE  /\ LineOK(run, rs1, [rn EXCEPT ![run] = "applied"])
         /\ DOMAIN rs1 = DOMAIN rs \cup {Len(rs) + 1} /\ Len(rs) + 1 \notin DOMAIN rs
         /\ rs1[Len(rs) + 1] = x /\ \A k \in DOMAIN rs : rs1[k] = rs[k]
         /\ SchemaIn(rs1, run) = s
<1> DEFINE n == Len(rs) + 1
           rn1 == [rn EXCEPT ![run] = "applied"]
<1>1. /\ rs \in Seq(RevisionRows) /\ DOMAIN rs = 1..Len(rs) /\ Len(rs) \in Nat
      /\ rn \in Seq({"pending", "applied", "failed"}) /\ Len(rn) \in Nat /\ DOMAIN rn = 1..Len(rn)
      /\ Len(rn) <= MaxRuns /\ MaxRuns \in Nat
  BY SchemaAssumption DEF LineOK
<1>2. run \in 1..MaxRuns
  BY <1>1
<1>3. act \in 0..MaxRuns
  BY TheActiveSchema
<1>4. x \in RevisionRows
  BY <1>2, <1>3 DEF RevisionRows
<1>5. /\ rs1 \in Seq(RevisionRows) /\ Len(rs1) = n
      /\ DOMAIN rs1 = DOMAIN rs \cup {n} /\ n \notin DOMAIN rs
      /\ rs1[n] = x /\ \A k \in DOMAIN rs : rs1[k] = rs[k]
  BY <1>1, <1>4
<1>6. /\ rn1 \in Seq({"pending", "applied", "failed"}) /\ Len(rn1) = Len(rn) /\ DOMAIN rn1 = DOMAIN rn
      /\ \A r \in DOMAIN rn : rn1[r] = IF r = run THEN "applied" ELSE rn[r]
  BY <1>1
<1>7. \A k \in DOMAIN rs : rs[k].id # run
  BY DEF LineOK
<1>8. \A j, k \in DOMAIN rs1 : rs1[j].id = rs1[k].id => j = k
  BY <1>5, <1>7 DEF LineOK
<1>9. ASSUME NEW k \in DOMAIN rs1
      PROVE  rs1[k].parent = IF k = 1 THEN 0 ELSE rs1[k - 1].id
  <2>1. CASE k \in DOMAIN rs
    <3>1. k # 1 => k - 1 \in DOMAIN rs
      BY <1>1, <2>1
    <3> QED  BY <1>5, <2>1, <3>1 DEF LineOK
  <2>2. CASE k = n
    <3>1. CASE rs = <<>>
      <4>1. n = 1 /\ act = 0  BY <3>1, TheActiveSchema
      <4> QED  BY <1>5, <2>2, <4>1
    <3>2. CASE rs # <<>>
      <4>1. Len(rs) \in DOMAIN rs /\ act = rs[Len(rs)].id
        BY <3>2, TheActiveSchema
      <4>2. n # 1 /\ n - 1 = Len(rs)
        BY <1>1, <4>1
      <4> QED  BY <1>5, <2>2, <4>1, <4>2
    <3> QED  BY <3>1, <3>2
  <2> QED  BY <1>5, <2>1, <2>2
<1>10. rs1 # <<>> /\ run = rs1[Len(rs1)].id
  BY <1>5
<1>11. ASSUME NEW r
       PROVE  r \in DOMAIN rn1 /\ rn1[r] = "applied" <=> \E k \in DOMAIN rs1 : rs1[k].id = r
  <2>1. CASE r = run  BY <1>5, <1>6, <2>1
  <2>2. CASE r # run
    <3>1. (\E k \in DOMAIN rs1 : rs1[k].id = r) <=> \E k \in DOMAIN rs : rs[k].id = r
      BY <1>5, <2>2
    <3> QED  BY <1>6, <2>2, <3>1 DEF LineOK
  <2> QED  BY <2>1, <2>2
<1>12. LineOK(run, rs1, rn1)
  <2> HIDE DEF rn1
  <2> QED  BY <1>1, <1>5, <1>6, <1>8, <1>9, <1>10, <1>11 DEF LineOK
<1>13. SchemaIn(rs1, run) = s
  <2>1. n \in DOMAIN rs1 /\ rs1[n].id = run /\ rs1[n].schema = s
    BY <1>5
  <2> HIDE DEF rn1, n
  <2> QED  BY <1>12, <2>1, ARevisionIsNamed
<1> QED  BY <1>5, <1>12, <1>13

LEMMA IdsStayBehind ==
  ASSUME NEW act, NEW rn, LineOK(act, revisions, rn),
         NEW a \in Schemas, IdsFollow(a, revisions, ids),
         NEW s \in Proposals, Usable(ids, s), NEW rs1,
         DOMAIN rs1 = DOMAIN revisions \cup {Len(revisions) + 1},
         Len(revisions) + 1 \notin DOMAIN revisions,
         rs1[Len(revisions) + 1].schema = s, \A k \in DOMAIN revisions : rs1[k] = revisions[k]
  PROVE  IdsFollow(s, rs1, Activated(s))
<1> DEFINE n == Len(revisions) + 1
           st == Activated(s)
<1>1. s \in Schemas /\ Objects(s) \subseteq Ids
  BY ProposalsAreSchemas, ObjectsAreIds
<1>2. /\ revisions \in Seq(RevisionRows) /\ Len(revisions) \in Nat
      /\ DOMAIN revisions = 1..Len(revisions)
  BY DEF LineOK
<1>3. \A k \in DOMAIN revisions : Objects(revisions[k].schema) \subseteq Ids
  BY <1>2, ARevision, ProposalsAreSchemas, ObjectsAreIds
<1>4. \A k \in DOMAIN revisions : k < n
  BY <1>2
<1>5. \A k \in DOMAIN rs1 : ~(n < k)
  BY <1>2
<1>6. ids \in [Ids -> {"none", "issued", "active", "retired"}]
  BY DEF IdsFollow
<1>7. \A i \in Ids :
        /\ i \in Objects(s) => st[i] = "active" /\ ids[i] # "retired"
        /\ i \notin Objects(s) /\ ids[i] \in {"active", "retired"} => st[i] = "retired"
        /\ i \notin Objects(s) => st[i] # "active"
  BY <1>6 DEF Activated, Usable
<1>8. st \in [Ids -> {"none", "issued", "active", "retired"}]
  BY <1>6 DEF Activated
<1> HIDE DEF st, n
<1>9. \A i \in Ids : st[i] = "active" <=> i \in Objects(s)
  BY <1>7
<1>10. ASSUME NEW k \in DOMAIN rs1, NEW i \in Objects(rs1[k].schema)
       PROVE  st[i] \in {"active", "retired"}
  <2>1. CASE k \in DOMAIN revisions
    BY <1>3, <1>7, <1>10, <2>1 DEF IdsFollow
  <2>2. CASE k = n  BY <1>1, <1>7, <1>10, <2>2 DEF n
  <2> QED  BY <2>1, <2>2 DEF n
<1>11. ASSUME NEW j \in DOMAIN rs1, NEW k \in DOMAIN rs1, j < k,
              NEW i \in Objects(rs1[j].schema) \ Objects(rs1[k].schema)
       PROVE  st[i] = "retired"
  <2>1. j \in DOMAIN revisions
    BY <1>5, <1>11 DEF n
  <2>2. i \in Ids /\ i \in Objects(revisions[j].schema) /\ ids[i] \in {"active", "retired"}
    BY <1>3, <1>11, <2>1 DEF IdsFollow
  <2>3. CASE k \in DOMAIN revisions
    <3>1. ids[i] = "retired"
      BY <1>11, <2>1, <2>3 DEF IdsFollow
    <3> QED  BY <1>7, <2>2, <3>1
  <2>4. CASE k = n  BY <1>7, <1>11, <2>2, <2>4 DEF n
  <2> QED  BY <2>3, <2>4 DEF n
<1>12. ASSUME NEW j \in DOMAIN rs1, NEW k \in DOMAIN rs1, NEW l \in DOMAIN rs1, j < k, k < l
       PROVE  (Objects(rs1[j].schema) \ Objects(rs1[k].schema)) \cap Objects(rs1[l].schema) = {}
  <2>1. j \in DOMAIN revisions /\ k \in DOMAIN revisions
    BY <1>5, <1>12 DEF n
  <2>2. CASE l \in DOMAIN revisions
    BY <1>12, <2>1, <2>2 DEF IdsFollow
  <2>3. CASE l = n
    <3>1. \A i \in Objects(revisions[j].schema) \ Objects(revisions[k].schema) : ids[i] = "retired"
      BY <1>12, <2>1 DEF IdsFollow
    <3> QED  BY <1>1, <1>7, <2>1, <2>3, <3>1 DEF n
  <2> QED  BY <2>2, <2>3 DEF n
<1> QED  BY <1>8, <1>9, <1>10, <1>11, <1>12 DEF IdsFollow, st

-----------------------------------------------------------------------------
(* The inductive invariant: beside what RegistryIsSound says, what an      *)
(* editor holds was planned for the revision it names, a pending request   *)
(* has its own pending run and an approval where one is required, ids of   *)
(* objects that went are retired, and rows have their columns.             *)

PlannedOn(p, rs) ==
  /\ p.schema \in Proposals
  /\ p.base = 0 \/ \E k \in DOMAIN rs : rs[k].id = p.base
  /\ p.operations = PlannedOperations(SchemaIn(rs, p.base), p.schema)
  /\ p.destructive = RequiresApproval(SchemaIn(rs, p.base), p.schema)

PendingOn(q, p, rn) ==
  /\ p.destructive => q.approved
  /\ q.run \in DOMAIN rn /\ rn[q.run] = "pending"

EditorsOK(ed, rs, rn) ==
  /\ ed = [e \in Editors |-> [request |-> ed[e].request, held |-> ed[e].held]]
  /\ \A e \in Editors :
       /\ ed[e].held # None => PlannedOn(ed[e].held, rs)
       /\ ed[e].request.step = "idle" \/ ed[e].held # None
       /\ ed[e].request.step = "pending" => PendingOn(ed[e].request, ed[e].held, rn)
  /\ \A e, f \in Editors :
       /\ ed[e].request.step = "pending" /\ ed[f].request.step = "pending"
       /\ ed[e].request.run = ed[f].request.run
       => e = f

DraftOK(d, n, act, state) ==
  /\ n \in Nat
  /\ d # None => /\ d.schema \in Proposals /\ d.version \in 1..n
                /\ d.base = act /\ Usable(state, d.schema)

RegistryInv ==
  /\ LineOK(active, revisions, runs)
  /\ IdsFollow(SchemaIn(revisions, active), revisions, ids)
  /\ DraftOK(draft, saves, active, ids)
  /\ TablesMatch(tables, SchemaIn(revisions, active))
  /\ ProfilesAgree(SchemaIn(revisions, active), configs, realms)
  /\ EditorsOK(editor, revisions, runs)
  /\ writer # None => writer.def \in CollectionDefs
  /\ members \subseteq Realms /\ joining \subseteq Realms

LEMMA SchemaAtIs == \A r : SchemaAt(r) = SchemaIn(revisions, r)
  BY DEF SchemaAt, SchemaIn

\* An editor's request ends, or it holds another preview.
LEMMA AnEditorMoves ==
  ASSUME NEW ed, NEW rs, NEW rn, EditorsOK(ed, rs, rn), NEW e \in Editors,
         NEW q, NEW p, NEW ed1,
         ed1 = [ed EXCEPT ![e] = [request |-> q, held |-> p]],
         q.step # "pending", q.step = "idle" \/ p # None, p # None => PlannedOn(p, rs)
  PROVE  EditorsOK(ed1, rs, rn)
<1>1. \A f \in Editors : ed1[f] = IF f = e THEN [request |-> q, held |-> p] ELSE ed[f]
  BY DEF EditorsOK
<1>2. ed1 = [f \in Editors |-> [request |-> ed1[f].request, held |-> ed1[f].held]]
  BY <1>1 DEF EditorsOK
<1>3. ASSUME NEW f \in Editors
      PROVE  /\ ed1[f].held # None => PlannedOn(ed1[f].held, rs)
             /\ ed1[f].request.step = "idle" \/ ed1[f].held # None
             /\ ed1[f].request.step = "pending" =>
                  ed1[f] = ed[f] /\ PendingOn(ed1[f].request, ed1[f].held, rn)
  <2>1. CASE f = e  BY <1>1, <2>1
  <2>2. CASE f # e  BY <1>1, <2>2 DEF EditorsOK
  <2> QED  BY <2>1, <2>2
<1> QED  BY <1>2, <1>3 DEF EditorsOK

\* A run becomes something else that no request waits for any more.
LEMMA ARunEnds ==
  ASSUME NEW ed, NEW rs, NEW rn, EditorsOK(ed, rs, rn), NEW run, NEW status,
         \A f \in Editors : ed[f].request.step = "pending" => ed[f].request.run # run
  PROVE  EditorsOK(ed, rs, [rn EXCEPT ![run] = status])
<1>1. ASSUME NEW f \in Editors, ed[f].request.step = "pending"
      PROVE  PendingOn(ed[f].request, ed[f].held, [rn EXCEPT ![run] = status])
  <2>1. PendingOn(ed[f].request, ed[f].held, rn) /\ ed[f].request.run # run
    BY <1>1 DEF EditorsOK
  <2> QED  BY <2>1 DEF PendingOn
<1> QED  BY <1>1 DEF EditorsOK

\* Another revision leaves the plans for those before it.
LEMMA PlansStand ==
  ASSUME NEW act, NEW rs, NEW rn, LineOK(act, rs, rn), NEW act1, NEW rs1, NEW rn1, LineOK(act1, rs1, rn1),
         DOMAIN rs \subseteq DOMAIN rs1, \A k \in DOMAIN rs : rs1[k] = rs[k],
         NEW ed, NEW n, EditorsOK(ed, rs, n)
  PROVE  EditorsOK(ed, rs1, n)
<1>1. ASSUME NEW p, PlannedOn(p, rs) PROVE PlannedOn(p, rs1)
  <2>1. CASE p.base = 0
    <3>1. SchemaIn(rs, p.base) = EmptySchema /\ SchemaIn(rs1, p.base) = EmptySchema
      BY <2>1 DEF SchemaIn
    <3> QED  BY <1>1, <2>1, <3>1 DEF PlannedOn
  <2>2. CASE p.base # 0
    <3>1. PICK k \in DOMAIN rs : rs[k].id = p.base
      BY <1>1, <2>2 DEF PlannedOn
    <3>2. k \in DOMAIN rs1 /\ rs1[k] = rs[k]
      BY <3>1
    <3>3. SchemaIn(rs, rs[k].id) = rs[k].schema /\ SchemaIn(rs1, rs1[k].id) = rs1[k].schema
      BY <3>2, ARevisionIsNamed
    <3>4. SchemaIn(rs1, p.base) = SchemaIn(rs, p.base)
      BY <3>1, <3>2, <3>3
    <3> QED  BY <1>1, <3>1, <3>2, <3>4 DEF PlannedOn
  <2> QED  BY <2>1, <2>2
<1> QED  BY <1>1 DEF EditorsOK

LEMMA AnEditorIs ==
  ASSUME NEW ed, NEW rs, NEW rn, EditorsOK(ed, rs, rn), NEW e \in Editors
  PROVE  /\ ed[e] = [request |-> ed[e].request, held |-> ed[e].held]
         /\ ed[e].held # None => PlannedOn(ed[e].held, rs)
         /\ ed[e].request.step = "idle" \/ ed[e].held # None
         /\ ed[e].request.step = "pending" => PendingOn(ed[e].request, ed[e].held, rn)
  BY DEF EditorsOK

LEMMA AtRestIsNotPending == AtRest.step = "idle" /\ AtRest.step # "pending"
  BY DEF AtRest

LEMMA ARequestEnds ==
  ASSUME RegistryInv, NEW e \in Editors, NEW q, q.step # "pending",
         q.step = "idle" \/ editor[e].held # None
  PROVE  EditorsOK([editor EXCEPT ![e].request = q], revisions, runs)
<1>1. PICK ed : ed = editor  OBVIOUS
<1>2. PICK rs, rn : rs = revisions /\ rn = runs  OBVIOUS
<1>3. EditorsOK(ed, rs, rn)
  BY <1>1, <1>2 DEF RegistryInv
<1>4. PICK p : p = ed[e].held  OBVIOUS
<1>5. p # None => PlannedOn(p, rs)
  BY <1>3, <1>4 DEF EditorsOK
<1>6. EditorsOK([ed EXCEPT ![e] = [request |-> q, held |-> p]], rs, rn)
  BY <1>1, <1>3, <1>4, <1>5, AnEditorMoves
<1>7. [ed EXCEPT ![e].request = q] = [ed EXCEPT ![e] = [request |-> q, held |-> p]]
  <2>1. PICK q0 : ed[e] = [request |-> q0, held |-> p]
    BY <1>3, <1>4, AnEditorIs
  <2>2. [ed[e] EXCEPT !.request = q] = [request |-> q, held |-> p]
    BY <2>1
  <2>3. [ed EXCEPT ![e].request = q] = [ed EXCEPT ![e] = [ed[e] EXCEPT !.request = q]]
    OBVIOUS
  <2> QED  BY <2>2, <2>3
<1> QED  BY <1>1, <1>2, <1>6, <1>7

LEMMA IdsAreIssued ==
  ASSUME RegistryInv, NEW B \in Batches, IssueIds(B) PROVE RegistryInv'
<1>1. PICK st : st = ids  OBVIOUS
<1>2. PICK st1 : st1 = [i \in Ids |-> IF i \in B THEN "issued" ELSE st[i]]
  OBVIOUS
<1>3. \A i \in B : st[i] = "none"
  BY <1>1 DEF IssueIds
<1>4. B \subseteq Ids
  BY SchemaAssumption
<1>5. PICK s, rs : s = SchemaIn(revisions, active) /\ rs = revisions
  OBVIOUS
<1>6. IdsFollow(s, rs, st)
  BY <1>1, <1>5 DEF RegistryInv
<1>7. s \in Schemas /\ \A k \in DOMAIN rs : Objects(rs[k].schema) \subseteq Ids
  <2>1. LineOK(active, revisions, runs)  BY DEF RegistryInv
  <2>2. s \in Schemas  BY <1>5, <2>1, TheActiveSchema
  <2>3. rs \in Seq(RevisionRows)  BY <1>5, <2>1 DEF LineOK
  <2> QED  BY <2>2, <2>3, ARevision, ProposalsAreSchemas, ObjectsAreIds
<1>8. /\ st1 \in [Ids -> {"none", "issued", "active", "retired"}]
      /\ \A i \in Ids : st1[i] = st[i] \/ (st[i] = "none" /\ st1[i] = "issued")
  BY <1>2, <1>3, <1>4, <1>6 DEF IdsFollow
<1>9. IdsFollow(s, rs, st1)
  <2>1. \A i \in Ids : st1[i] = "active" <=> i \in Objects(s)
    BY <1>6, <1>8 DEF IdsFollow
  <2>2. \A k \in DOMAIN rs : \A i \in Objects(rs[k].schema) : st1[i] \in {"active", "retired"}
    BY <1>6, <1>7, <1>8 DEF IdsFollow
  <2>3. \A j, k \in DOMAIN rs : j < k =>
          \A i \in Objects(rs[j].schema) \ Objects(rs[k].schema) : st1[i] = "retired"
    BY <1>6, <1>7, <1>8 DEF IdsFollow
  <2> QED  BY <1>6, <1>8, <2>1, <2>2, <2>3 DEF IdsFollow
<1>10. DraftOK(draft, saves, active, st1)
  <2>1. DraftOK(draft, saves, active, st)  BY <1>1 DEF RegistryInv
  <2>2. ASSUME NEW x \in Proposals, Usable(st, x) PROVE Usable(st1, x)
    <3>1. Objects(x) \subseteq Ids  BY ProposalsAreSchemas, ObjectsAreIds
    <3> QED  BY <1>8, <2>2, <3>1 DEF Usable
  <2> QED  BY <2>1, <2>2 DEF DraftOK
<1>11. ids' = st1
  BY <1>1, <1>2 DEF IssueIds
<1>12. UNCHANGED <<active, revisions, draft, saves, runs, tables, identity, writer, editor>>
  BY DEF IssueIds
<1> QED  BY <1>5, <1>9, <1>10, <1>11, <1>12 DEF RegistryInv, identity

LEMMA ADraftIsSaved ==
  ASSUME RegistryInv, NEW s \in Proposals, NEW import \in BOOLEAN, SaveDraft(s, import)
  PROVE  RegistryInv'
<1>1. PICK st : st = ids  OBVIOUS
<1>2. PICK st1 : st1 = IF import THEN Claimed(s) ELSE st
  OBVIOUS
<1>3. /\ Usable(st1, s) /\ ids' = st1
      /\ saves' = saves + 1
      /\ draft' = [base |-> active, version |-> saves + 1, schema |-> s]
      /\ UNCHANGED <<active, revisions, runs, tables, identity, writer, editor>>
  BY <1>1, <1>2 DEF SaveDraft
<1>4. PICK a, rs : a = SchemaIn(revisions, active) /\ rs = revisions
  OBVIOUS
<1>5. IdsFollow(a, rs, st)
  BY <1>1, <1>4 DEF RegistryInv
<1>6. a \in Schemas /\ \A k \in DOMAIN rs : Objects(rs[k].schema) \subseteq Ids
  <2>1. LineOK(active, revisions, runs)  BY DEF RegistryInv
  <2>2. a \in Schemas  BY <1>4, <2>1, TheActiveSchema
  <2>3. rs \in Seq(RevisionRows)  BY <1>4, <2>1 DEF LineOK
  <2> QED  BY <2>2, <2>3, ARevision, ProposalsAreSchemas, ObjectsAreIds
<1>7. /\ st1 \in [Ids -> {"none", "issued", "active", "retired"}]
      /\ \A i \in Ids : st1[i] = st[i] \/ (st[i] = "none" /\ st1[i] = "issued")
  <2>1. CASE import
    BY <1>1, <1>2, <1>5, <2>1 DEF IdsFollow, Claimed
  <2>2. CASE ~import
    BY <1>2, <1>5, <2>2 DEF IdsFollow
  <2> QED  BY <2>1, <2>2
<1>8. IdsFollow(a, rs, st1)
  <2>1. \A i \in Ids : st1[i] = "active" <=> i \in Objects(a)
    BY <1>5, <1>7 DEF IdsFollow
  <2>2. \A k \in DOMAIN rs : \A i \in Objects(rs[k].schema) : st1[i] \in {"active", "retired"}
    BY <1>5, <1>6, <1>7 DEF IdsFollow
  <2>3. \A j, k \in DOMAIN rs : j < k =>
          \A i \in Objects(rs[j].schema) \ Objects(rs[k].schema) : st1[i] = "retired"
    BY <1>5, <1>6, <1>7 DEF IdsFollow
  <2> QED  BY <1>5, <1>7, <2>1, <2>2, <2>3 DEF IdsFollow
<1>9. DraftOK(draft', saves', active, st1)
  <2>1. PICK m \in Nat : m = saves  BY DEF RegistryInv, DraftOK
  <2>2. PICK act : act = active  OBVIOUS
  <2>3. draft' = [base |-> act, version |-> m + 1, schema |-> s] /\ saves' = m + 1
    BY <1>3, <2>1, <2>2
  <2>4. m + 1 \in Nat /\ m + 1 \in 1..(m + 1)
    OBVIOUS
  <2> QED  BY <1>3, <2>2, <2>3, <2>4 DEF DraftOK
<1> QED  BY <1>3, <1>4, <1>8, <1>9 DEF RegistryInv, identity

LEMMA APreviewIsHeld ==
  ASSUME RegistryInv, NEW e \in Editors, Preview(e) PROVE RegistryInv'
<1>1. PICK ed, rs, rn : ed = editor /\ rs = revisions /\ rn = runs  OBVIOUS
<1>2. PICK p : p = PreviewOf(draft)  OBVIOUS
<1>3. PlannedOn(p, rs)
  <2>1. /\ draft.schema \in Proposals
        /\ draft.base = 0 \/ \E k \in DOMAIN revisions : revisions[k].id = draft.base
    <3>1. draft # None /\ draft.base = active /\ DraftOK(draft, saves, active, ids)
          /\ LineOK(active, revisions, runs)
      BY DEF RegistryInv, Preview
    <3> QED  BY <3>1, TheActiveSchema DEF DraftOK
  <2>2. PICK b, s : b = draft.base /\ s = draft.schema  OBVIOUS
  <2>3. PICK a : a = SchemaIn(rs, b)  OBVIOUS
  <2>4. PICK ops, des : ops = PlannedOperations(a, s) /\ des = RequiresApproval(a, s)
    OBVIOUS
  <2>5. p.schema = s /\ p.base = b /\ p.operations = ops /\ p.destructive = des
    BY <1>1, <1>2, <2>2, <2>3, <2>4, SchemaAtIs DEF PreviewOf
  <2> QED  BY <1>1, <2>1, <2>2, <2>3, <2>4, <2>5 DEF PlannedOn
<1>4. EditorsOK(ed, rs, rn) /\ ed[e].request = AtRest
  BY <1>1 DEF RegistryInv, Preview
<1>5. EditorsOK([ed EXCEPT ![e] = [request |-> AtRest, held |-> p]], rs, rn)
  BY <1>3, <1>4, AnEditorMoves, AtRestIsNotPending
<1>6. [ed EXCEPT ![e].held = p] = [ed EXCEPT ![e] = [request |-> AtRest, held |-> p]]
  <2>1. PICK p0 : ed[e] = [request |-> AtRest, held |-> p0]
    BY <1>4, AnEditorIs
  <2>2. [ed[e] EXCEPT !.held = p] = [request |-> AtRest, held |-> p]
    BY <2>1
  <2>3. [ed EXCEPT ![e].held = p] = [ed EXCEPT ![e] = [ed[e] EXCEPT !.held = p]]
    OBVIOUS
  <2> QED  BY <2>2, <2>3
<1>7. editor' = [ed EXCEPT ![e].held = p] /\ UNCHANGED <<registry, tables, identity, writer>>
  BY <1>1, <1>2 DEF Preview
<1> QED  BY <1>1, <1>5, <1>6, <1>7 DEF RegistryInv, registry, identity

LEMMA OnlyRequests ==
  ASSUME RegistryInv, EditorsOK(editor', revisions, runs),
         UNCHANGED <<registry, tables, identity, writer>>
  PROVE  RegistryInv'
  BY DEF RegistryInv, registry, identity

LEMMA ADraftIsRead ==
  ASSUME RegistryInv, NEW e \in Editors, ReadDraft(e) PROVE RegistryInv'
<1>1. PICK q : q = [step |-> "apply", draft |-> draft]  OBVIOUS
<1>2. q.step # "pending" /\ editor[e].held # None  BY <1>1 DEF ReadDraft
<1>3. editor' = [editor EXCEPT ![e].request = q] /\ UNCHANGED <<registry, tables, identity, writer>>
  BY <1>1 DEF ReadDraft
<1> QED  BY <1>2, <1>3, ARequestEnds, OnlyRequests

LEMMA ARequestIsAbandoned ==
  ASSUME RegistryInv, NEW e \in Editors, Abandon(e) PROVE RegistryInv'
<1>1. editor' = [editor EXCEPT ![e].request = AtRest] /\ UNCHANGED <<registry, tables, identity, writer>>
  BY DEF Abandon
<1> QED  BY <1>1, AtRestIsNotPending, ARequestEnds, OnlyRequests

\* A new run is pending for the one request that has recorded it.
LEMMA ARunIsRecorded ==
  ASSUME RegistryInv, NEW e \in Editors, NEW approve \in BOOLEAN, RecordRun(e, approve)
  PROVE  RegistryInv'
<1>1. PICK ed, rs, rn, act : ed = editor /\ rs = revisions /\ rn = runs /\ act = active
  OBVIOUS
<1>2. PICK rn1 : rn1 = Append(rn, "pending")  OBVIOUS
<1>3. PICK q, p : ed[e] = [request |-> q, held |-> p]
  <2>1. EditorsOK(ed, rs, rn)
    BY <1>1 DEF RegistryInv
  <2>2. ed[e] = [request |-> ed[e].request, held |-> ed[e].held]
    BY <2>1, AnEditorIs
  <2> QED  BY <2>2
<1>4. PICK n : n = Len(rn) + 1  OBVIOUS
<1>5. PICK q1 : q1 = [step |-> "pending", run |-> n, approved |-> approve]  OBVIOUS
<1>6. PICK ed1 : ed1 = [ed EXCEPT ![e] = [request |-> q1, held |-> p]]  OBVIOUS
<1>7. /\ q.step = "apply" /\ (p.destructive => approve) /\ Len(rn) < MaxRuns
      /\ runs' = rn1 /\ editor' = [ed EXCEPT ![e].request = q1]
      /\ UNCHANGED <<active, revisions, draft, saves, ids, tables, identity, writer>>
  BY <1>1, <1>2, <1>3, <1>4, <1>5 DEF RecordRun
<1>8. editor' = ed1
  <2>1. [ed[e] EXCEPT !.request = q1] = [request |-> q1, held |-> p]
    BY <1>3
  <2>2. [ed EXCEPT ![e].request = q1] = [ed EXCEPT ![e] = [ed[e] EXCEPT !.request = q1]]
    OBVIOUS
  <2> QED  BY <1>6, <1>7, <2>1, <2>2
<1>9. LineOK(act, rs, rn) /\ EditorsOK(ed, rs, rn)
  BY <1>1 DEF RegistryInv
<1>10. /\ rn1 \in Seq({"pending", "applied", "failed"}) /\ Len(rn1) <= MaxRuns
       /\ DOMAIN rn1 = DOMAIN rn \cup {n} /\ n \notin DOMAIN rn
       /\ rn1[n] = "pending" /\ \A r \in DOMAIN rn : rn1[r] = rn[r]
  BY <1>2, <1>4, <1>7, <1>9, SchemaAssumption DEF LineOK
<1>11. LineOK(act, rs, rn1)
  <2>1. \A r : r \in DOMAIN rn1 /\ rn1[r] = "applied" <=> r \in DOMAIN rn /\ rn[r] = "applied"
    BY <1>10
  <2> QED  BY <1>9, <1>10, <2>1 DEF LineOK
<1>12. p # None
  BY <1>3, <1>7, <1>9, AnEditorIs
<1>13. \A f \in Editors : ed1[f] = IF f = e THEN [request |-> q1, held |-> p] ELSE ed[f]
  BY <1>6, <1>9 DEF EditorsOK
<1>14. ed1 = [f \in Editors |-> [request |-> ed1[f].request, held |-> ed1[f].held]]
  BY <1>6, <1>9, <1>13 DEF EditorsOK
<1>15. ASSUME NEW f \in Editors
       PROVE  /\ ed1[f].held # None => PlannedOn(ed1[f].held, rs)
              /\ ed1[f].request.step = "idle" \/ ed1[f].held # None
              /\ ed1[f].request.step = "pending" => PendingOn(ed1[f].request, ed1[f].held, rn1)
              /\ ed1[f].request.step = "pending" /\ f # e =>
                   ed1[f] = ed[f] /\ ed1[f].request.run \in DOMAIN rn
  <2>1. CASE f = e
    <3>1. ed1[f].held = p /\ ed1[f].request = q1
      BY <1>13, <2>1
    <3>2. PlannedOn(p, rs)
      BY <1>3, <1>9, <1>12, AnEditorIs
    <3>3. PendingOn(q1, p, rn1)
      BY <1>5, <1>7, <1>10 DEF PendingOn
    <3> QED  BY <1>12, <2>1, <3>1, <3>2, <3>3
  <2>2. CASE f # e
    <3>1. ed1[f] = ed[f]
      BY <1>13, <2>2
    <3>2. ed[f].request.step = "pending" => PendingOn(ed[f].request, ed[f].held, rn)
      BY <1>9, AnEditorIs
    <3>3. PendingOn(ed[f].request, ed[f].held, rn) => PendingOn(ed[f].request, ed[f].held, rn1)
      BY <1>10 DEF PendingOn
    <3>4. PendingOn(ed[f].request, ed[f].held, rn) => ed[f].request.run \in DOMAIN rn
      BY DEF PendingOn
    <3>5. /\ ed[f].held # None => PlannedOn(ed[f].held, rs)
          /\ ed[f].request.step = "idle" \/ ed[f].held # None
      BY <1>9, AnEditorIs
    <3> QED  BY <3>1, <3>2, <3>3, <3>4, <3>5
  <2> QED  BY <2>1, <2>2
<1>16. ed1[e].request.run = n
  BY <1>5, <1>13
<1>17. EditorsOK(ed1, rs, rn1)
  <2>1. ASSUME NEW f \in Editors, NEW g \in Editors,
               ed1[f].request.step = "pending", ed1[g].request.step = "pending",
               ed1[f].request.run = ed1[g].request.run
        PROVE  f = g
    <3>1. CASE f = e  BY <1>10, <1>15, <1>16, <2>1, <3>1
    <3>2. CASE g = e  BY <1>10, <1>15, <1>16, <2>1, <3>2
    <3>3. CASE f # e /\ g # e
      BY <1>9, <1>15, <2>1, <3>3 DEF EditorsOK
    <3> QED  BY <3>1, <3>2, <3>3
  <2> QED  BY <1>14, <1>15, <2>1 DEF EditorsOK
<1> QED  BY <1>1, <1>7, <1>8, <1>11, <1>17 DEF RegistryInv, identity

\* Who waits for another run is not disturbed when this one ends.
LEMMA RunsAreApart ==
  ASSUME NEW ed, NEW rs, NEW rn, EditorsOK(ed, rs, rn), NEW e \in Editors, ed[e].request.step = "pending",
         NEW run, run = ed[e].request.run, NEW status
  PROVE  EditorsOK([ed EXCEPT ![e].request = AtRest], rs, [rn EXCEPT ![run] = status])
<1>1. PICK q, p : ed[e] = [request |-> q, held |-> p]
  <2>1. ed[e] = [request |-> ed[e].request, held |-> ed[e].held]
    BY AnEditorIs
  <2> QED  BY <2>1
<1>2. PICK ed1 : ed1 = [ed EXCEPT ![e] = [request |-> AtRest, held |-> p]]
  OBVIOUS
<1>3. [ed EXCEPT ![e].request = AtRest] = ed1
  <2>1. [ed[e] EXCEPT !.request = AtRest] = [request |-> AtRest, held |-> p]
    BY <1>1
  <2>2. [ed EXCEPT ![e].request = AtRest] = [ed EXCEPT ![e] = [ed[e] EXCEPT !.request = AtRest]]
    OBVIOUS
  <2> QED  BY <1>2, <2>1, <2>2
<1>4. p # None => PlannedOn(p, rs)
  BY <1>1, AnEditorIs
<1>5. EditorsOK(ed1, rs, rn)
  BY <1>2, <1>4, AnEditorMoves, AtRestIsNotPending
<1>6. ASSUME NEW f \in Editors, ed1[f].request.step = "pending"
      PROVE  ed1[f].request.run # run
  <2>1. ed1[f] = IF f = e THEN [request |-> AtRest, held |-> p] ELSE ed[f]
    BY <1>2 DEF EditorsOK
  <2>2. f # e
    BY <1>6, <2>1, AtRestIsNotPending
  <2>3. ed1[f] = ed[f]
    BY <2>1, <2>2
  <2> QED  BY <1>6, <2>2, <2>3 DEF EditorsOK
<1> QED  BY <1>3, <1>5, <1>6, ARunEnds

LEMMA AnApplyFails ==
  ASSUME RegistryInv, NEW e \in Editors, FailApply(e) PROVE RegistryInv'
<1>1. PICK ed, rs, rn, act : ed = editor /\ rs = revisions /\ rn = runs /\ act = active
  OBVIOUS
<1>2. PICK run : run = ed[e].request.run  OBVIOUS
<1>3. /\ ed[e].request.step = "pending"
      /\ runs' = [rn EXCEPT ![run] = "failed"]
      /\ editor' = [ed EXCEPT ![e].request = AtRest]
      /\ UNCHANGED <<active, revisions, draft, saves, ids, tables, identity, writer>>
  BY <1>1, <1>2 DEF FailApply
<1>4. LineOK(act, rs, rn) /\ EditorsOK(ed, rs, rn)
  BY <1>1 DEF RegistryInv
<1>5. EditorsOK(editor', rs, runs')
  BY <1>2, <1>3, <1>4, RunsAreApart
<1>6. run \in DOMAIN rn /\ rn[run] = "pending"
  <2>1. PendingOn(ed[e].request, ed[e].held, rn)
    BY <1>3, <1>4, AnEditorIs
  <2> QED  BY <1>2, <2>1 DEF PendingOn
<1>7. LineOK(act, rs, [rn EXCEPT ![run] = "failed"])
  <2>1. PICK rn1 : rn1 = [rn EXCEPT ![run] = "failed"]  OBVIOUS
  <2>2. /\ rn1 \in Seq({"pending", "applied", "failed"}) /\ Len(rn1) = Len(rn) /\ DOMAIN rn1 = DOMAIN rn
        /\ \A r \in DOMAIN rn : rn1[r] = IF r = run THEN "failed" ELSE rn[r]
    <3>1. rn \in Seq({"pending", "applied", "failed"}) /\ DOMAIN rn = 1..Len(rn) /\ Len(rn) \in Nat
      BY <1>4 DEF LineOK
    <3> QED  BY <1>6, <2>1, <3>1
  <2>3. \A r : r \in DOMAIN rn1 /\ rn1[r] = "applied" <=> r \in DOMAIN rn /\ rn[r] = "applied"
    BY <1>6, <2>2
  <2> QED  BY <1>4, <2>1, <2>2, <2>3 DEF LineOK
<1> QED  BY <1>1, <1>3, <1>5, <1>7 DEF RegistryInv, identity

\* What a commit applies is what its editor holds, planned for the schema
\* that is active.
LEMMA WhatIsApplied ==
  ASSUME RegistryInv, NEW e \in Editors, CommitApply(e)
  PROVE  /\ editor[e].held # None /\ editor[e].held.base = active
         /\ editor[e].held.schema \in Proposals /\ editor[e].held.schema \in Schemas
         /\ WellFormed(editor[e].held.schema)
         /\ editor[e].held.operations = PlannedOperations(ActiveSchema, editor[e].held.schema)
         /\ editor[e].held.destructive = RequiresApproval(ActiveSchema, editor[e].held.schema)
         /\ ActiveSchema \in Schemas /\ ActiveSchema = SchemaIn(revisions, active)
         /\ editor[e].request.run \in DOMAIN runs /\ runs[editor[e].request.run] = "pending"
         /\ editor[e].held.destructive => editor[e].request.approved
<1>1. /\ editor[e].request.step = "pending"
      /\ active = editor[e].held.base
  BY DEF CommitApply, Applies, ApplyIsCurrent
<1>2. EditorsOK(editor, revisions, runs) /\ LineOK(active, revisions, runs)
  BY DEF RegistryInv
<1>3. editor[e].held # None
  BY <1>1, <1>2, AnEditorIs
<1>4. PlannedOn(editor[e].held, revisions)
  BY <1>2, <1>3, AnEditorIs
<1>5. PendingOn(editor[e].request, editor[e].held, runs)
  BY <1>1, <1>2, AnEditorIs
<1>6. ActiveSchema = SchemaIn(revisions, active)
  BY SchemaAtIs DEF ActiveSchema
<1>7. ActiveSchema \in Schemas
  BY <1>2, <1>6, TheActiveSchema
<1>8. editor[e].held.schema \in Proposals
  BY <1>4 DEF PlannedOn
<1>9. editor[e].held.schema \in Schemas /\ WellFormed(editor[e].held.schema)
  BY <1>8, ProposalsAreSchemas
<1>10. /\ editor[e].held.operations = PlannedOperations(ActiveSchema, editor[e].held.schema)
       /\ editor[e].held.destructive = RequiresApproval(ActiveSchema, editor[e].held.schema)
  BY <1>1, <1>4, <1>6 DEF PlannedOn
<1> QED  BY <1>1, <1>3, <1>5, <1>6, <1>7, <1>8, <1>9, <1>10 DEF PendingOn

LEMMA ASchemaIsApplied ==
  ASSUME RegistryInv, NEW e \in Editors, CommitApply(e)
  PROVE  /\ RegistryInv'
         /\ SchemaIn(revisions', active') = editor[e].held.schema
<1>1. PICK ed, rs, rn, act : ed = editor /\ rs = revisions /\ rn = runs /\ act = active
  OBVIOUS
<1>2. PICK run, s, a : run = ed[e].request.run /\ s = ed[e].held.schema /\ a = ActiveSchema
  OBVIOUS
<1>3. PICK ops : ops = PlannedOperations(a, s)  OBVIOUS
<1>4. /\ s \in Proposals /\ s \in Schemas /\ WellFormed(s) /\ a \in Schemas
      /\ a = SchemaIn(rs, act) /\ run \in DOMAIN rn /\ rn[run] = "pending"
      /\ ed[e].held.operations = ops /\ ed[e].held.base = act
  BY <1>1, <1>2, <1>3, WhatIsApplied
<1>5. PICK x : x = [id |-> run, parent |-> act, schema |-> s]  OBVIOUS
<1>6. PICK rs1 : rs1 = Append(rs, x)  OBVIOUS
<1>7. /\ ed[e].request.step = "pending"
      /\ Usable(ids, s) /\ PreflightAccepts(a, s) /\ ConstraintsHold(Migrated(ops, s))
  BY <1>1, <1>2, <1>4 DEF CommitApply, Applies
<1>8. /\ tables' = Migrated(ops, s)
      /\ revisions' = rs1
      /\ realms' = MaterializedRealms(a, s)
      /\ configs' = MaterializedConfigs(a, s)
      /\ ids' = Activated(s)
      /\ active' = run
      /\ draft' = None
      /\ runs' = [rn EXCEPT ![run] = "applied"]
      /\ editor' = [ed EXCEPT ![e].request = AtRest]
      /\ UNCHANGED <<saves, members, joining, writer>>
  BY <1>1, <1>2, <1>4, <1>5, <1>6 DEF CommitApply
<1>9. /\ LineOK(act, rs, rn) /\ IdsFollow(a, rs, ids) /\ TablesMatch(tables, a)
      /\ ProfilesAgree(a, configs, realms) /\ EditorsOK(ed, rs, rn) /\ saves \in Nat
      /\ (writer # None => writer.def \in CollectionDefs)
      /\ members \subseteq Realms /\ joining \subseteq Realms
  BY <1>1, <1>4 DEF RegistryInv, DraftOK
<1>10. /\ LineOK(run, rs1, [rn EXCEPT ![run] = "applied"])
       /\ DOMAIN rs1 = DOMAIN rs \cup {Len(rs) + 1} /\ Len(rs) + 1 \notin DOMAIN rs
       /\ rs1[Len(rs) + 1] = x /\ \A k \in DOMAIN rs : rs1[k] = rs[k]
       /\ SchemaIn(rs1, run) = s
  <2>1. LineOK(act, rs, rn) /\ run \in DOMAIN rn /\ rn[run] = "pending" /\ s \in Proposals
    BY <1>4, <1>9
  <2>2. LineOK(run, rs1, [rn EXCEPT ![run] = "applied"])
    BY <1>5, <1>6, <2>1, ALineGrows
  <2>3. DOMAIN rs1 = DOMAIN rs \cup {Len(rs) + 1} /\ Len(rs) + 1 \notin DOMAIN rs
    BY <1>5, <1>6, <2>1, ALineGrows
  <2>4. rs1[Len(rs) + 1] = x /\ \A k \in DOMAIN rs : rs1[k] = rs[k]
    BY <1>5, <1>6, <2>1, ALineGrows
  <2>5. SchemaIn(rs1, run) = s
    <3>1. PICK k : k = Len(rs) + 1  OBVIOUS
    <3>2. k \in DOMAIN rs1 /\ rs1[k].id = run /\ rs1[k].schema = s
      BY <1>5, <2>3, <2>4, <3>1
    <3>3. SchemaIn(rs1, rs1[k].id) = rs1[k].schema
      BY <2>2, <3>2, ARevisionIsNamed
    <3> QED  BY <3>2, <3>3
  <2> QED  BY <2>2, <2>3, <2>4, <2>5
<1>11. IdsFollow(s, rs1, Activated(s))
  <2>1. rs1[Len(rs) + 1].schema = s
    BY <1>5, <1>10
  <2>2. LineOK(act, revisions, rn) /\ IdsFollow(a, revisions, ids)
    BY <1>1, <1>9
  <2>3. /\ DOMAIN rs1 = DOMAIN revisions \cup {Len(revisions) + 1} /\ Len(revisions) + 1 \notin DOMAIN revisions
        /\ rs1[Len(revisions) + 1].schema = s /\ \A k \in DOMAIN revisions : rs1[k] = revisions[k]
    BY <1>1, <1>10, <2>1
  <2> QED  BY <1>4, <1>7, <2>2, <2>3, IdsStayBehind
<1>12. TablesMatch(tables', s)
  BY <1>3, <1>4, <1>7, <1>8, <1>9, MigratedTablesMatch
<1>13. ProfilesAgree(s, configs', realms')
  BY <1>4, <1>7, <1>8, <1>9, ProfilesStayAgreed
<1>14. EditorsOK(editor', rs1, runs')
  <2>1. PICK rn1, ed1 : rn1 = [rn EXCEPT ![run] = "applied"] /\ ed1 = [ed EXCEPT ![e].request = AtRest]
    OBVIOUS
  <2>2. EditorsOK(ed1, rs, rn1)
    BY <1>2, <1>7, <1>9, <2>1, RunsAreApart
  <2>3. DOMAIN rs \subseteq DOMAIN rs1 /\ LineOK(run, rs1, rn1)
    BY <1>10, <2>1
  <2>4. EditorsOK(ed1, rs1, rn1)
    BY <1>9, <1>10, <2>2, <2>3, PlansStand
  <2> QED  BY <1>8, <2>1, <2>4
<1>15. DraftOK(draft', saves', active', ids')
  BY <1>8, <1>9 DEF DraftOK
<1>16. SchemaIn(revisions', active') = s
  BY <1>8, <1>10
<1> QED  BY <1>1, <1>2, <1>8, <1>9, <1>10, <1>11, <1>12, <1>13, <1>14, <1>15, <1>16 DEF RegistryInv

\* What a document write has read is a collection of a schema.
LEMMA ACollectionIsRead ==
  ASSUME RegistryInv, NEW c \in Collections, ReadCollection(c) PROVE RegistryInv'
<1>1. ActiveSchema = SchemaIn(revisions, active)
  BY SchemaAtIs DEF ActiveSchema
<1>2. ActiveSchema \in Schemas
  BY <1>1, TheActiveSchema DEF RegistryInv
<1>3. c \in DOMAIN ActiveSchema
  BY DEF ReadCollection
<1>4. ActiveSchema[c] \in CollectionDefs
  BY <1>2, <1>3, PartialFunctionIs DEF Schemas
<1>5. writer'.def \in CollectionDefs
  BY <1>4 DEF ReadCollection
<1>6. UNCHANGED <<registry, tables, identity, editor>>
  BY DEF ReadCollection
<1> QED  BY <1>5, <1>6 DEF RegistryInv, registry, identity

LEMMA SomeColumnsAreGiven ==
  ASSUME NEW D, D \subseteq Fields, NEW given
  PROVE  [f \in D |-> f \in given] \in PartialFunctions(Fields, BOOLEAN)
<1>1. \A f \in D : (f \in given) \in BOOLEAN
  BY SMT
<1>2. [f \in D |-> f \in given] \in [D -> BOOLEAN]
  BY <1>1, Zenon
<1>3. PICK m \in [D -> BOOLEAN] : m = [f \in D |-> f \in given]
  BY <1>2, Zenon
<1>4. m \in PartialFunctions(Fields, BOOLEAN)
  <2>1. m = [x \in DOMAIN m |-> m[x]] /\ DOMAIN m \subseteq Fields
    OBVIOUS
  <2>2. \A x \in DOMAIN m : m[x] \in BOOLEAN
    OBVIOUS
  <2> QED  BY <2>1, <2>2, PartialFunctionOf
<1> QED  BY <1>3, <1>4, Zenon

\* A row has the columns of its table, and a value where one is required.
LEMMA ARowIsWritten ==
  ASSUME RegistryInv, NEW full \in BOOLEAN, WriteRow(full) PROVE RegistryInv'
<1>1. PICK c, t, s : c = writer.collection /\ t = tables /\ s = SchemaIn(revisions, active)
  OBVIOUS
<1>2. PICK given : given = {f \in DOMAIN writer.def.fields : full \/ writer.def.fields[f].required}
  OBVIOUS
<1>3. PICK row : row = [values |-> [f \in DOMAIN t[c].columns |-> f \in given],
                        placed |-> writer.def.hierarchy]
  OBVIOUS
<1>4. TablesMatch(t, s) /\ s \in Schemas
  BY <1>1, TheActiveSchema DEF RegistryInv
<1>5. writer.def.hierarchy \in BOOLEAN
  BY DEF RegistryInv, WriteRow, CollectionDefs
<1>6. \/ tables' = t
      \/ /\ c \in DOMAIN t
         /\ \A f \in DOMAIN t[c].columns : t[c].columns[f].notNull => f \in given
         /\ tables' = [t EXCEPT ![c].row = row]
  BY <1>1, <1>2, <1>3 DEF WriteRow
<1>7. ASSUME c \in DOMAIN t, \A f \in DOMAIN t[c].columns : t[c].columns[f].notNull => f \in given,
             NEW t1, t1 = [t EXCEPT ![c].row = row]
      PROVE  TablesMatch(t1, s)
  <2>1. c \in DOMAIN s /\ t[c] = [columns |-> Columns(s[c]), row |-> t[c].row]
    BY <1>4, <1>7 DEF TablesMatch
  <2>2. /\ t[c].columns = Columns(s[c]) /\ DOMAIN Columns(s[c]) = DOMAIN s[c].fields
        /\ \A f \in DOMAIN s[c].fields : Columns(s[c])[f].notNull = s[c].fields[f].required
    <3>1. t[c].columns = Columns(s[c])
      BY <2>1
    <3>2. Columns(s[c]) = [f \in DOMAIN s[c].fields |->
                             [type |-> s[c].fields[f].type, notNull |-> s[c].fields[f].required]]
      BY DEF Columns
    <3> QED  BY <3>1, <3>2
  <2>3. DOMAIN s[c].fields \subseteq Fields
    BY <1>4, <2>1, ASchemaIs
  <2>4. row.values = [f \in DOMAIN s[c].fields |-> f \in given] /\ row.placed \in BOOLEAN
        /\ row = [values |-> row.values, placed |-> row.placed]
    BY <1>3, <1>5, <2>2
  <2>5. row.values \in PartialFunctions(Fields, BOOLEAN)
    BY <2>3, <2>4, SomeColumnsAreGiven
  <2>6. RowOf(row, s[c])
    BY <1>7, <2>2, <2>4, <2>5 DEF RowOf, Rows
  <2>7. t1 = [d \in DOMAIN t |-> IF d = c THEN [columns |-> Columns(s[c]), row |-> row] ELSE t[d]]
    <3>1. [t[c] EXCEPT !.row = row] = [columns |-> Columns(s[c]), row |-> row]
      BY <2>1
    <3>2. t = [d \in DOMAIN t |-> t[d]]
      BY <1>4 DEF TablesMatch
    <3>3. t1 = [t EXCEPT ![c] = [t[c] EXCEPT !.row = row]]
      BY <1>7
    <3> QED  BY <3>1, <3>2, <3>3
  <2> QED  BY <1>4, <2>1, <2>6, <2>7 DEF TablesMatch
<1>8. TablesMatch(tables', s)
  BY <1>4, <1>6, <1>7
<1>9. writer' = None /\ UNCHANGED <<registry, identity, editor>>
  BY DEF WriteRow
<1> QED  BY <1>1, <1>8, <1>9 DEF RegistryInv, registry, identity

LEMMA ARealmIsJoined ==
  ASSUME RegistryInv, NEW r \in Realms, CheckRealm(r) \/ InsertMembership(r) PROVE RegistryInv'
<1>1. UNCHANGED <<registry, tables, realms, configs, writer, editor>>
  BY DEF CheckRealm, InsertMembership
<1>2. members' \subseteq Realms /\ joining' \subseteq Realms
  BY DEF RegistryInv, CheckRealm, InsertMembership
<1> QED  BY <1>1, <1>2 DEF RegistryInv, registry

LEMMA AStepKeepsTheRegistry ==
  ASSUME RegistryInv, [RegistryNext]_registryVars PROVE RegistryInv'
<1>1. ASSUME NEW B \in Batches, IssueIds(B) PROVE RegistryInv'
  BY <1>1, IdsAreIssued
<1>2. ASSUME NEW s \in Proposals, NEW import \in BOOLEAN, SaveDraft(s, import) PROVE RegistryInv'
  BY <1>2, ADraftIsSaved
<1>3. ASSUME NEW e \in Editors, Preview(e) PROVE RegistryInv'
  BY <1>3, APreviewIsHeld
<1>4. ASSUME NEW e \in Editors, ReadDraft(e) PROVE RegistryInv'
  BY <1>4, ADraftIsRead
<1>5. ASSUME NEW e \in Editors, NEW approve \in BOOLEAN, RecordRun(e, approve) PROVE RegistryInv'
  BY <1>5, ARunIsRecorded
<1>6. ASSUME NEW e \in Editors, CommitApply(e) PROVE RegistryInv'
  BY <1>6, ASchemaIsApplied
<1>7. ASSUME NEW e \in Editors, FailApply(e) PROVE RegistryInv'
  BY <1>7, AnApplyFails
<1>8. ASSUME NEW e \in Editors, Abandon(e) PROVE RegistryInv'
  BY <1>8, ARequestIsAbandoned
<1>9. ASSUME NEW c \in Collections, ReadCollection(c) PROVE RegistryInv'
  BY <1>9, ACollectionIsRead
<1>10. ASSUME NEW full \in BOOLEAN, WriteRow(full) PROVE RegistryInv'
  BY <1>10, ARowIsWritten
<1>11. ASSUME NEW r \in Realms, CheckRealm(r) \/ InsertMembership(r) PROVE RegistryInv'
  BY <1>11, ARealmIsJoined
<1>12. CASE UNCHANGED registryVars
  BY <1>12 DEF RegistryInv, registryVars
<1> QED  BY <1>1, <1>2, <1>3, <1>4, <1>5, <1>6, <1>7, <1>8, <1>9, <1>10, <1>11, <1>12 DEF RegistryNext

LEMMA TheRegistryStarts == RegistryInit => RegistryInv
<1> SUFFICES ASSUME RegistryInit PROVE RegistryInv
  OBVIOUS
<1>1. /\ active = 0 /\ revisions = <<>> /\ runs = <<>> /\ draft = None /\ saves = 0
      /\ ids = [i \in Ids |-> "none"] /\ tables = EmptySchema /\ configs = EmptySchema
      /\ writer = None /\ members = {} /\ joining = {}
      /\ editor = [e \in Editors |-> [request |-> AtRest, held |-> None]]
  BY DEF RegistryInit
<1>2. SchemaIn(revisions, active) = EmptySchema /\ DOMAIN EmptySchema = {} /\ Objects(EmptySchema) = {}
  BY <1>1, TheEmptySchema DEF SchemaIn, EmptySchema
<1>3. LineOK(active, revisions, runs)
  BY <1>1, SchemaAssumption DEF LineOK
<1>4. IdsFollow(SchemaIn(revisions, active), revisions, ids)
  BY <1>1, <1>2 DEF IdsFollow
<1>5. TablesMatch(tables, SchemaIn(revisions, active))
  BY <1>1, <1>2 DEF TablesMatch, EmptySchema
<1>6. EmptySchema \in PartialFunctions(Collections, Realms)
  BY <1>2, PartialFunctionOf DEF EmptySchema
<1>7. realms \in [Realms -> [status: {"provisioning"}, profile: {None}, policy: BOOLEAN]]
  BY DEF RegistryInit
<1>8. ASSUME NEW r \in Realms
      PROVE  realms[r] \in RealmRows /\ realms[r].profile = None /\ realms[r].status # "active"
  <2>1. PICK row : row = realms[r]  OBVIOUS
  <2>2. row \in [status: {"provisioning"}, profile: {None}, policy: BOOLEAN]
    BY <1>7, <2>1
  <2> QED  BY <2>1, <2>2 DEF RealmRows
<1>9. ProfilesAgree(SchemaIn(revisions, active), configs, realms)
  <2>1. realms \in [Realms -> RealmRows]
    BY <1>7, <1>8
  <2>2. None \notin Realms /\ None \notin Collections
    BY SchemaAssumption
  <2>3. \A c : AuthOf(EmptySchema, c) = None
    BY <1>2 DEF AuthOf
  <2> QED  BY <1>1, <1>2, <1>6, <1>8, <2>1, <2>2, <2>3 DEF ProfilesAgree
<1>10. EditorsOK(editor, revisions, runs)
  BY <1>1, AtRestIsNotPending DEF EditorsOK
<1> QED  BY <1>1, <1>3, <1>4, <1>5, <1>9, <1>10 DEF RegistryInv, DraftOK

\* The registry is as RegistryInv says after every step of it.
THEOREM RegistryInvariance == RegistrySpec => []RegistryInv
<1>1. RegistryInit => RegistryInv
  BY TheRegistryStarts
<1>2. RegistryInv /\ [RegistryNext]_registryVars => RegistryInv'
  BY AStepKeepsTheRegistry
<1> QED  BY <1>1, <1>2, PTL DEF RegistrySpec

\* What RegistryInv says of the lines and profiles is what the registry's
\* properties ask.
LEMMA TheRegistryIsSound == RegistryInv => RegistryIsSound
<1> SUFFICES ASSUME RegistryInv PROVE RegistryIsSound
  OBVIOUS
<1>1. PICK s, rs, rn, act : s = SchemaIn(revisions, active) /\ rs = revisions /\ rn = runs /\ act = active
  OBVIOUS
<1>2. ActiveSchema = s
  BY <1>1, SchemaAtIs DEF ActiveSchema
<1>3. LineOK(act, rs, rn) /\ IdsFollow(s, rs, ids) /\ TablesMatch(tables, s) /\ ProfilesAgree(s, configs, realms)
  BY <1>1 DEF RegistryInv
<1>4. s \in Schemas /\ act \in 0..MaxRuns
  BY <1>1, <1>3, TheActiveSchema
<1>5. DOMAIN s \subseteq Collections /\ Objects(s) \subseteq Ids
  BY <1>4, ASchemaIs, ObjectsAreIds
<1>6. RegistryTypeOK
  <2>1. ASSUME NEW k \in DOMAIN rs PROVE rs[k].id \in 1..MaxRuns /\ rs[k].schema \in Proposals
    BY <1>3, ARevision DEF LineOK
  <2>2. draft = None \/ (draft.schema \in Proposals /\ draft.version \in 1..saves)
    BY DEF RegistryInv, DraftOK
  <2>3. ids \in [Ids -> {"none", "issued", "active", "retired"}] /\ runs \in Seq({"pending", "applied", "failed"})
    BY <1>1, <1>3 DEF IdsFollow, LineOK
  <2>4. DOMAIN tables \subseteq Collections
    BY <1>3, <1>5 DEF TablesMatch
  <2>5. realms \in [Realms -> RealmRows] /\ configs \in PartialFunctions(Collections, Realms)
    BY <1>3 DEF ProfilesAgree
  <2>6. members \subseteq Realms /\ joining \subseteq Realms
    BY DEF RegistryInv
  <2> QED  BY <1>1, <1>4, <2>1, <2>2, <2>3, <2>4, <2>5, <2>6 DEF RegistryTypeOK, RealmRows
<1>7. RevisionsAreOneLine
  <2>1. {r \in DOMAIN rn : rn[r] = "applied"} = {rs[k].id : k \in DOMAIN rs}
    BY <1>3 DEF LineOK
  <2>2. {i \in Ids : ids[i] = "active"} = Objects(s)
    BY <1>3, <1>5 DEF IdsFollow
  <2>3. draft # None => draft.base = active /\ Usable(ids, draft.schema)
    BY DEF RegistryInv, DraftOK
  <2>4. /\ \A k \in DOMAIN rs : rs[k].parent = IF k = 1 THEN 0 ELSE rs[k - 1].id
        /\ act = IF rs = <<>> THEN 0 ELSE rs[Len(rs)].id
    BY <1>3 DEF LineOK
  <2> QED  BY <1>1, <1>2, <2>1, <2>2, <2>3, <2>4 DEF RevisionsAreOneLine
<1>8. ObjectsNeverReturn
  BY <1>1, <1>3 DEF IdsFollow, ObjectsNeverReturn
<1>9. TablesAreTheSchema
  <2>1. DOMAIN tables = DOMAIN s /\ \A c \in DOMAIN s : tables[c].columns = Columns(s[c])
    BY <1>3 DEF TablesMatch
  <2>2. ASSUME NEW c \in DOMAIN s, tables[c].row # None,
               NEW f \in DOMAIN s[c].fields, s[c].fields[f].required
        PROVE  tables[c].row.values[f]
    BY <1>3, <2>2 DEF TablesMatch, RowOf
  <2> QED  BY <1>2, <2>1, <2>2 DEF TablesAreTheSchema
<1>10. ProfilesMatch
  BY <1>2, <1>3 DEF ProfilesAgree, ProfilesMatch
<1> QED  BY <1>6, <1>7, <1>8, <1>9, <1>10 DEF RegistryIsSound, RegistryOK, DatabaseFollowsSchema

\* However applies, registrations, crashes and retries fall together, the
\* revisions are one line of applied runs, the ids of dropped objects never
\* return, the tables and their rows are those of the active schema, and the
\* realms' profile collections are those it names.
THEOREM RegistryStaysSound == RegistrySpec => []RegistryIsSound
  BY RegistryInvariance, TheRegistryIsSound, PTL

\* A commit activates what its editor was shown, and loses only what it was
\* asked to.
LEMMA ACommitIsApproved ==
  ASSUME RegistryInv, NEW e \in Editors, CommitApply(e)
  PROVE  /\ \E f \in Editors :
              /\ editor[f].held # None
              /\ editor[f].held.base = active
              /\ SchemaAt(active)' = editor[f].held.schema
              /\ draft # None /\ draft.version = editor[f].held.version
              /\ editor[f].held.operations = PlannedOperations(ActiveSchema, editor[f].held.schema)
         /\ \/ \E f \in Editors : editor[f].request.step = "pending" /\ editor[f].request.approved
                                    /\ runs'[editor[f].request.run] = "applied"
            \/ /\ Stored(tables) \subseteq Stored(tables')
               /\ Placed(tables) \subseteq Placed(tables')
               /\ \A r \in Realms : realms[r].profile # None => realms'[r].profile = realms[r].profile
<1>1. PICK a, s, q : a = ActiveSchema /\ s = editor[e].held.schema /\ q = editor[e].request
  OBVIOUS
<1>2. /\ editor[e].held # None /\ editor[e].held.base = active
      /\ editor[e].held.operations = PlannedOperations(a, s)
      /\ editor[e].held.destructive = RequiresApproval(a, s)
      /\ s \in Schemas /\ WellFormed(s) /\ a \in Schemas /\ a = SchemaIn(revisions, active)
      /\ q.run \in DOMAIN runs /\ (editor[e].held.destructive => q.approved)
  BY <1>1, WhatIsApplied
<1>3. SchemaAt(active)' = s
  <2>1. SchemaIn(revisions', active') = s
    BY <1>1, ASchemaIsApplied
  <2> QED  BY <2>1 DEF SchemaAt, SchemaIn
<1>4. draft # None /\ draft.version = editor[e].held.version
  BY DEF CommitApply, Applies, ApplyIsCurrent
<1>5. CASE RequiresApproval(a, s)
  <2>1. q.approved
    BY <1>2, <1>5
  <2>2. runs'[q.run] = "applied" /\ q.step = "pending"
    <3>1. runs' = [runs EXCEPT ![q.run] = "applied"] /\ q.step = "pending"
      BY <1>1 DEF CommitApply
    <3> QED  BY <1>2, <3>1
  <2> QED  BY <1>1, <1>2, <1>3, <1>4, <2>1, <2>2
<1>6. CASE ~RequiresApproval(a, s)
  <2>1. ~DestructiveChange(a, s) /\ ~DestructiveOperation(a, s)
    BY <1>6 DEF RequiresApproval
  <2>2. TablesMatch(tables, a) /\ ProfilesAgree(a, configs, realms)
    BY <1>2 DEF RegistryInv
  <2>3. tables' = Migrated(PlannedOperations(a, s), s) /\ realms' = MaterializedRealms(a, s)
    BY <1>1, <1>2 DEF CommitApply
  <2>4. PreflightAccepts(a, s)
    BY <1>1 DEF CommitApply, Applies
  <2>5. PICK t : t = Migrated(PlannedOperations(a, s), s)  OBVIOUS
  <2>6. Stored(tables) \subseteq Stored(t) /\ Placed(tables) \subseteq Placed(t)
    BY <1>2, <2>1, <2>2, <2>5, NothingIsLost
  <2>7. Stored(tables') = Stored(t) /\ Placed(tables') = Placed(t)
    BY <2>3, <2>5 DEF Stored, Placed
  <2>8. \A r \in Realms : realms[r].profile # None => realms'[r].profile = realms[r].profile
    BY <1>2, <2>1, <2>2, <2>3, <2>4, ProfilesAreKept
  <2> QED  BY <1>1, <1>2, <1>3, <1>4, <2>6, <2>7, <2>8
<1> QED  BY <1>5, <1>6

\* Only a commit replaces the active revision.
LEMMA OnlyACommitActivates ==
  ASSUME [RegistryNext]_registryVars, active' # active
  PROVE  \E e \in Editors : CommitApply(e)
  BY DEF RegistryNext, registryVars, registry, IssueIds, SaveDraft, Preview, ReadDraft, RecordRun,
         FailApply, Abandon, ReadCollection, WriteRow, CheckRealm, InsertMembership

\* What becomes active is what an editor saw in a preview for the revision it
\* replaces, and values, positions and profiles are lost only with an approval.
THEOREM AppliesAreApproved == RegistrySpec => AppliesWhatWasApproved
<1>1. RegistryInv /\ [RegistryNext]_registryVars =>
        (active' # active =>
           \E e \in Editors :
             /\ editor[e].held # None
             /\ editor[e].held.base = active
             /\ SchemaAt(active)' = editor[e].held.schema
             /\ draft # None /\ draft.version = editor[e].held.version
             /\ editor[e].held.operations = PlannedOperations(ActiveSchema, editor[e].held.schema))
  BY OnlyACommitActivates, ACommitIsApproved
<1>2. RegistryInv /\ [RegistryNext]_registryVars =>
        (active' # active =>
           \/ \E e \in Editors : editor[e].request.step = "pending" /\ editor[e].request.approved
                                 /\ runs'[editor[e].request.run] = "applied"
           \/ /\ Stored(tables) \subseteq Stored(tables')
              /\ Placed(tables) \subseteq Placed(tables')
              /\ \A r \in Realms : realms[r].profile # None =>
                     realms'[r].profile = realms[r].profile)
  BY OnlyACommitActivates, ACommitIsApproved
<1> QED  BY RegistryInvariance, <1>1, <1>2, PTL
         DEF RegistrySpec, AppliesWhatWasApproved, AppliesWhatWasPreviewed, NothingLostUnapproved
=============================================================================

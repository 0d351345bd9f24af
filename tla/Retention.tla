------------------------------ MODULE Retention ------------------------------
(***************************************************************************)
(* Data retention over the outbox: packages/application/src/retention.ts    *)
(* and packages/database/src/postgres-retention.ts, running beside the      *)
(* workers of EventWorker.                                                  *)
(*                                                                          *)
(* An operator previews a plan, which measures what the policy's cutoffs    *)
(* select and keeps a digest of it, and applies it later; applying measures *)
(* again and refuses a plan whose candidates changed.  A digest is the      *)
(* candidate set it is taken of.  The audit tables and the sessions, which  *)
(* retention also prunes and no worker reads, are left out, and with them   *)
(* their cutoffs.  Cutoffs of days are small numbers of clock units here.   *)
(***************************************************************************)
EXTENDS EventWorker

CONSTANTS
  PlanIds,
  Policies,    \* the policies an operator can set
  PlanTtl,     \* how long a preview can be applied
  MaxClock,    \* bound of the clock
  MaxRevision, \* bound: revisions of the policy
  NoPlan

Categories == {"dispatchedOutbox", "succeededDeliveries", "deadDeliveries",
               "softDeletedDocuments"}

\* Days per category; NoTime is null, which keeps the category.
ASSUME PoliciesAssumption == Policies \subseteq [Categories -> Nat \cup {NoTime}]
ASSUME PlanAssumption == PlanTtl \in Nat

VARIABLES
  occurred,   \* occurred_at of every event of the outbox
  deletedAt,  \* deletion->>'deletedAt' of the soft-deleted documents
  policy,     \* _xecms_retention_policies: [revision, days]
  preview,    \* the policy an operator's preview has read, and when
  plan        \* _xecms_retention_plans

retentionVars == <<policy, preview, plan>>
times == <<occurred, deletedAt>>
rvars == <<vars, times, retentionVars>>

RInit ==
  /\ Init
  /\ occurred = NoRows
  /\ deletedAt = [d \in Documents |-> NoTime]
  /\ policy \in [revision : {1}, days : Policies]
  /\ preview = NoPlan
  /\ plan = [i \in PlanIds |-> NoPlan]

-----------------------------------------------------------------------------
(* What a plan selects.                                                     *)

\* The cutoff of a category: null keeps everything.
Cutoff(now, days) == IF days = NoTime THEN NoTime ELSE now - days

Before(time, cutoff) == time # NoTime /\ cutoff # NoTime /\ time < cutoff

\* Mutant of Orphans: the stamp alone decides.
OrphansByStamp == dispatched

\* dispatched_at is set and no delivery refers to the event any more.
Orphans ==
  {e \in dispatched : \A h \in Handlers : <<e, h>> \notin DOMAIN delivery}

\* completed_at is compared: a delivery that died with its lease has none.
Completed(status, cutoff) ==
  {p \in DOMAIN delivery : /\ delivery[p].status = status
                           /\ Before(delivery[p].completedAt, cutoff)}

SoftDeleted(cutoff) ==
  {d \in Documents : /\ document[d].state = "deleted"
                     /\ Before(deletedAt[d], cutoff)}

\* measure: the candidates of every category, all in one snapshot.
Candidates(cutoffs) ==
  [dispatchedOutbox |->
     {e \in Orphans : Before(occurred[e], cutoffs["dispatchedOutbox"])},
   succeededDeliveries |-> Completed("succeeded", cutoffs["succeededDeliveries"]),
   deadDeliveries |-> Completed("dead", cutoffs["deadDeliveries"]),
   softDeletedDocuments |-> SoftDeleted(cutoffs["softDeletedDocuments"])]

-----------------------------------------------------------------------------
(* The operations of the service.                                           *)

\* Compare-and-set on the revision the operator has seen.
UpdatePolicy ==
  /\ policy.revision < MaxRevision
  /\ \E days \in Policies : policy' = [revision |-> policy.revision + 1, days |-> days]
  /\ UNCHANGED <<vars, times, preview, plan>>

\* preview reads the policy and the clock before the transaction begins ...
BeginPreview ==
  /\ preview = NoPlan
  /\ preview' = [revision |-> policy.revision, at |-> clock,
                 cutoffs |-> [c \in Categories |-> Cutoff(clock, policy.days[c])]]
  /\ UNCHANGED <<vars, times, policy, plan>>

\* ... which locks the policy and refuses a revision that is no longer current.
CreatePlan(i) ==
  /\ preview # NoPlan
  /\ plan[i] = NoPlan
  /\ IF preview.revision = policy.revision
     THEN plan' = [plan EXCEPT ![i] =
            [status |-> "previewed", revision |-> preview.revision,
             cutoffs |-> preview.cutoffs, expiresAt |-> preview.at + PlanTtl,
             candidates |-> Candidates(preview.cutoffs)]]
     ELSE UNCHANGED plan
  /\ preview' = NoPlan
  /\ UNCHANGED <<vars, times, policy>>

\* Mutant of Applicable: a stale plan.
ApplicableStale(i) ==
  /\ plan[i] # NoPlan
  /\ plan[i].status = "previewed"
  /\ clock < plan[i].expiresAt
  /\ plan[i].revision = policy.revision

\* RETENTION_PLAN_EXPIRED, _POLICY_CHANGED and _STALE refuse the application.
Applicable(i) ==
  /\ plan[i] # NoPlan
  /\ plan[i].status = "previewed"
  /\ clock < plan[i].expiresAt
  /\ plan[i].revision = policy.revision
  /\ Candidates(plan[i].cutoffs) = plan[i].candidates

\* deleteCandidates: the orphans first, then the deliveries with their receipts;
\* the soft-deleted documents are counted and kept.  A receipt names its delivery
\* row; it is taken to name the row there is now, though a handler which reports
\* after its row went leaves one that names no row.
ApplyPlan(i) ==
  /\ Applicable(i)
  /\ LET gone == Candidates(plan[i].cutoffs)
         deliveries == gone.succeededDeliveries \cup gone.deadDeliveries
     IN  /\ outbox' = outbox \ gone.dispatchedOutbox
         /\ dispatched' = dispatched \ gone.dispatchedOutbox
         /\ occurred' = [e \in DOMAIN occurred \ gone.dispatchedOutbox |-> occurred[e]]
         /\ delivery' = [p \in DOMAIN delivery \ deliveries |-> delivery[p]]
         /\ receipts' = receipts \ deliveries
  /\ plan' = [plan EXCEPT ![i].status = "applied"]
  /\ UNCHANGED <<clock, document, index, worker, effects, faults, retries,
                 deletedAt, policy, preview>>

-----------------------------------------------------------------------------

\* The steps of EventWorker.  Bound: the clock stops at MaxClock.
Advance == clock < MaxClock /\ clock' = clock + 1 /\ UNCHANGED <<tables, worker, faults, retries>>

WorkersNext ==
  /\ \/ \E w \in Workers : WorkerStep(w) \/ Crash(w)
     \/ \E p \in DOMAIN delivery : OperatorRetry(p)
     \/ Advance
  /\ UNCHANGED <<times, retentionVars>>

Command ==
  /\ \E d \in Documents : Emit(d)
  /\ occurred' = [e \in outbox' |-> IF e \in outbox THEN occurred[e] ELSE clock]
  /\ deletedAt' = [d \in Documents |->
       IF document'[d].state # "deleted" THEN NoTime
       ELSE IF document[d].state = "deleted" THEN deletedAt[d] ELSE clock]
  /\ UNCHANGED retentionVars

RNext ==
  \/ WorkersNext
  \/ Command
  \/ UpdatePolicy
  \/ BeginPreview
  \/ \E i \in PlanIds : CreatePlan(i) \/ ApplyPlan(i)

RSpec == RInit /\ [][RNext]_rvars

-----------------------------------------------------------------------------
(* Properties.                                                              *)

\* A plan that is applied removes exactly what its preview selected, however
\* workers, operators and other plans changed the tables in between; and it is
\* applied only under the policy it was measured with.
AppliesAsPreviewed ==
  [][\A i \in PlanIds :
       plan[i] # NoPlan /\ plan'[i] # plan[i] =>
         LET selected == plan[i].candidates
         IN  /\ outbox \ outbox' = selected.dispatchedOutbox
             /\ DOMAIN delivery \ DOMAIN delivery' =
                  selected.succeededDeliveries \cup selected.deadDeliveries
             /\ \A c \in Categories : plan[i].cutoffs[c] = NoTime <=> policy.days[c] = NoTime
             /\ \A e \in outbox \ outbox' :
                  clock - occurred[e] > policy.days["dispatchedOutbox"]]_rvars

Cutoffs == [Categories -> Int \cup {NoTime}]
Plans == [status : {"previewed", "applied"}, revision : Nat, cutoffs : Cutoffs, expiresAt : Nat,
          candidates : [dispatchedOutbox : SUBSET Events, succeededDeliveries : SUBSET Deliveries,
                        deadDeliveries : SUBSET Deliveries, softDeletedDocuments : SUBSET Documents]]

\* The tables of retention, and of the outbox that the rows refer to what is
\* there.  (That receipts do, too, holds only while one worker runs.)
RTypeOK ==
  /\ clock \in Nat
  /\ outbox \subseteq Events
  /\ dispatched \subseteq outbox
  /\ DOMAIN delivery \subseteq outbox \X Handlers
  /\ occurred \in [outbox -> Nat]
  /\ deletedAt \in [Documents -> Nat \cup {NoTime}]
  /\ policy \in [revision : Nat, days : Policies]
  /\ preview = NoPlan \/ preview \in [revision : Nat, at : Nat, cutoffs : Cutoffs]
  /\ plan \in [PlanIds -> Plans \cup {NoPlan}]

\* What is still needed survives: open deliveries with their events, events
\* that were never offered, and the receipts of the deliveries that remain; and
\* the rows that are left keep what they refer to.
KeepsWhatIsOpen ==
  /\ []RTypeOK
  /\ [][/\ \A p \in DOMAIN delivery : delivery[p].status \in {"pending", "processing"} =>
             p \in DOMAIN delivery' /\ p[1] \in outbox'
        /\ outbox \ dispatched \subseteq outbox'
        /\ \A p \in receipts : p \in DOMAIN delivery' => p \in receipts']_rvars

\* A plan takes all that it showed, and nothing that is still needed.
RemovesAsPreviewed == AppliesAsPreviewed /\ KeepsWhatIsOpen

\* postgres-retention.ts:238: an event orphaned by the cleanup of its
\* deliveries waits for the next plan.  The next cycle of a worker offers it
\* again instead.
OrphansWait ==
  [][\A e \in Orphans \cap outbox' : \A h \in Handlers :
       <<e, h>> \notin DOMAIN delivery']_rvars
=============================================================================

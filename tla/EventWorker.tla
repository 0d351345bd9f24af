----------------------------- MODULE EventWorker -----------------------------
(***************************************************************************)
(* The transactional outbox and its lease-based workers.                    *)
(*                                                                          *)
(* packages/application/src/event-worker.ts is the cycle a server process   *)
(* runs every poll interval: fan the outbox out into deliveries, claim a    *)
(* batch under a lease, handle its deliveries one after the other, record   *)
(* each success or failure.  packages/database/src/postgres-event-worker.ts *)
(* is the store: every step below that touches a shared table is one of its *)
(* transactions.  Two server processes, or one that crashed and came back,  *)
(* share nothing but these tables.                                          *)
(*                                                                          *)
(* An event is the outbox envelope insertDocumentEvents writes in the       *)
(* transaction of a document command (module Documents): document, version  *)
(* and topic.  The payload's revision is abstracted to the version, which   *)
(* names it.  Time is the wall clock, in units of a second.  A restarted    *)
(* process has a new worker id; it may reuse the name here because a        *)
(* process only completes deliveries of its own batch.                      *)
(***************************************************************************)
EXTENDS Integers, FiniteSets

CONSTANTS
  Workers,        \* server processes, each running one EventWorkerService
  Handlers,       \* handler ids that are or were registered
  SearchHandler,  \* core.search-projection; the others come from plugins
  HandlerTopics,  \* the topics each handler subscribes to
  Registered,     \* the handlers each process has loaded
  AttemptLimit,   \* XECMS_WORKER_MAX_ATTEMPTS of each process
  Lease,          \* XECMS_WORKER_LEASE_MS
  BatchSize,      \* XECMS_WORKER_BATCH_SIZE
  Documents,
  EmittedTopics,  \* the topics the instance exercises
  NoRow,          \* no row in the example search index
  NoTime,         \* SQL NULL of a timestamp
  MaxVersion,     \* bound: versions of one document
  MaxFaults,      \* bound: crashes, shutdowns and database errors, together
  MaxRetries      \* bound: operator retries

Topics == {"document.created", "document.draft-created", "document.revision-restored",
           "document.published", "document.deleted", "document.restored", "document.purged"}

Removals == {"document.deleted", "document.purged"}

Events == [document : Documents, version : 1..MaxVersion, topic : Topics]

Deliveries == Events \X Handlers

ASSUME SearchHandlerAssumption == SearchHandler \in Handlers
ASSUME HandlerTopicsAssumption == HandlerTopics \in [Handlers -> SUBSET Topics]
ASSUME RegisteredAssumption == Registered \in [Workers -> SUBSET Handlers]
ASSUME AttemptLimitAssumption == AttemptLimit \in [Workers -> Nat \ {0}]
ASSUME LeaseAssumption == Lease \in Nat \ {0}
ASSUME BatchSizeAssumption == BatchSize \in Nat \ {0}
ASSUME NoTimeAssumption == NoTime \notin Int
ASSUME NoRowAssumption == NoRow \notin Workers \cup Deliveries \cup 1..MaxVersion
ASSUME BoundsAssumption == MaxVersion \in Nat /\ MaxFaults \in Nat /\ MaxRetries \in Nat

VARIABLES
  clock,       \* the wall clock
  document,    \* version and state of every document (module Documents)
  outbox,      \* the events in _xecms_outbox_events
  dispatched,  \* those with a dispatched_at
  delivery,    \* _xecms_event_deliveries, a function of (event, handler)
  receipts,    \* _xecms_event_handler_receipts, by idempotency key
  index,       \* _xecms_example_search_index, the row of each document
  worker,      \* the local state of each process
  effects,     \* how often each handler's effect took place (capped at 2)
  faults,      \* faults so far
  retries      \* operator retries so far

tables == <<document, outbox, dispatched, delivery, receipts, index, effects>>
vars == <<clock, document, outbox, dispatched, delivery, receipts, index, worker,
          effects, faults, retries>>

NoRows == [p \in {} |-> 0]

Phases == {"off", "idle", "fanning", "claiming", "looping", "handling",
           "acking", "failing"}

Idle == [phase |-> "idle", now |-> 0, batch |-> NoRows, current |-> NoRow,
         stopped |-> FALSE, abandoned |-> FALSE]

Off == [Idle EXCEPT !.phase = "off"]

Init ==
  /\ clock = 0
  /\ document = [d \in Documents |-> [version |-> 0, state |-> "none"]]
  /\ outbox = {}
  /\ dispatched = {}
  /\ delivery = NoRows
  /\ receipts = {}
  /\ index = [d \in Documents |-> NoRow]
  /\ worker = [w \in Workers |-> Off]
  /\ effects = NoRows
  /\ faults = 0
  /\ retries = 0

-----------------------------------------------------------------------------
(* The document store writes an event in the transaction of a command.      *)

\* The topics a command can append to the history of d, with their version.
\* A hard purge records document.purged at the version of the deleted document.
NextEvents(d) ==
  LET row == document[d]
      at(version, topics) == [document : {d}, version : {version}, topic : topics]
  IN  CASE row.state = "none" -> at(1, {"document.created"})
        [] row.state = "live" -> at(row.version + 1, Topics \
             {"document.created", "document.restored", "document.purged"})
        [] row.state = "deleted" -> at(row.version + 1, {"document.restored"})
                                      \cup at(row.version, {"document.purged"})
        [] row.state = "purged" -> {}

Emit(d) ==
  \E e \in NextEvents(d) :
    /\ e \in Events
    /\ e.topic \in EmittedTopics
    /\ outbox' = outbox \cup {e}
    /\ document' = [document EXCEPT ![d] =
         [version |-> e.version,
          state |-> CASE e.topic = "document.deleted" -> "deleted"
                      [] e.topic = "document.purged" -> "purged"
                      [] OTHER -> "live"]]
    /\ UNCHANGED <<clock, dispatched, delivery, receipts, index, worker,
                   effects, faults, retries>>

-----------------------------------------------------------------------------
(* The cycle of a worker.                                                   *)

\* retryDelayMs, in seconds.
RetryDelay(attempt) ==
  LET doublings == IF attempt - 1 < 18 THEN attempt - 1 ELSE 18
  IN  IF 2 ^ doublings < 300 THEN 2 ^ doublings ELSE 300

Goto(w, phase) == worker' = [worker EXCEPT ![w].phase = phase]

\* The cycle settles: running becomes undefined and the batch is forgotten.
EndCycle(w) ==
  worker' = [worker EXCEPT ![w] =
    [Idle EXCEPT !.stopped = worker[w].stopped, !.abandoned = worker[w].abandoned]]

\* Timestamps of a cycle are taken from the clock when the cycle begins.
BeginCycle(w) ==
  /\ worker[w].phase = "idle"
  /\ ~worker[w].stopped
  /\ worker' = [worker EXCEPT ![w].phase = "fanning", ![w].now = clock]
  /\ UNCHANGED <<clock, document, outbox, dispatched, delivery, receipts, index,
                 effects, faults, retries>>

Offered(w) ==
  {p \in outbox \X Registered[w] : p[1].topic \in HandlerTopics[p[2]]}

NewDelivery(now) ==
  [status |-> "pending", attempts |-> 0, maxAttempts |-> 8, availableAt |-> now,
   lockedBy |-> NoRow, lockedUntil |-> NoTime, completedAt |-> NoTime]

\* One transaction: insert what is missing, stamp every event that has some
\* delivery.  A worker stopped meanwhile does not go on to claim.
FanOut(w) ==
  /\ worker[w].phase = "fanning"
  /\ delivery' = [p \in DOMAIN delivery \cup Offered(w) |->
                    IF p \in DOMAIN delivery THEN delivery[p]
                    ELSE NewDelivery(worker[w].now)]
  /\ dispatched' = dispatched \cup {e \in outbox : \E h \in Handlers :
                                       <<e, h>> \in DOMAIN delivery'}
  /\ IF worker[w].stopped THEN EndCycle(w) ELSE Goto(w, "claiming")
  /\ UNCHANGED <<clock, document, outbox, receipts, index, effects, faults, retries>>

\* Mutants of Recovered: one attempt early, a live lease taken, no recovery.
RecoveredDead(row, now) ==
  IF row.status = "processing" /\ row.lockedUntil <= now
  THEN [row EXCEPT !.status = "dead", !.lockedBy = NoRow, !.lockedUntil = NoTime]
  ELSE row

RecoveredEarly(row, now) ==
  IF row.status = "processing" /\ row.lockedUntil <= now + 1
  THEN [row EXCEPT !.status = IF row.attempts >= row.maxAttempts THEN "dead" ELSE "pending",
                   !.lockedBy = NoRow, !.lockedUntil = NoTime]
  ELSE row

NotRecovered(row, now) == row

\* An expired lease makes the delivery pending again, or dead when its
\* attempts are used up; completed_at and the dead row's available_at stay.
Recovered(row, now) ==
  IF row.status = "processing" /\ row.lockedUntil <= now
  THEN LET dead == row.attempts >= row.maxAttempts
       IN  [row EXCEPT !.status = IF dead THEN "dead" ELSE "pending",
                       !.availableAt = IF dead THEN @ ELSE now,
                       !.lockedBy = NoRow, !.lockedUntil = NoTime]
  ELSE row

\* Mutant of Leased: the attempt is not counted.
LeasedUncounted(row, w) ==
  [row EXCEPT !.status = "processing", !.maxAttempts = AttemptLimit[w],
              !.lockedBy = w, !.lockedUntil = worker[w].now + Lease]

Leased(row, w) ==
  [row EXCEPT !.status = "processing", !.attempts = @ + 1,
              !.maxAttempts = AttemptLimit[w], !.lockedBy = w,
              !.lockedUntil = worker[w].now + Lease]

\* ORDER BY available_at LIMIT: no chosen row is later than a row left behind.
\* The order among rows that became available together is left open.
Batches(rows, candidates) ==
  {chosen \in SUBSET candidates :
     /\ Cardinality(chosen) =
          (IF Cardinality(candidates) < BatchSize THEN Cardinality(candidates)
           ELSE BatchSize)
     /\ \A p \in chosen, q \in candidates \ chosen :
          rows[p].availableAt <= rows[q].availableAt}

\* FOR UPDATE SKIP LOCKED: two claims never choose the same delivery.
Claim(w) ==
  /\ worker[w].phase = "claiming"
  /\ LET now == worker[w].now
         rows == [p \in DOMAIN delivery |-> Recovered(delivery[p], now)]
         candidates == {p \in DOMAIN rows : /\ rows[p].status = "pending"
                                            /\ rows[p].availableAt <= now
                                            /\ rows[p].attempts < AttemptLimit[w]}
     IN  \E chosen \in Batches(rows, candidates) :
           /\ delivery' = [p \in DOMAIN rows |->
                IF p \in chosen THEN Leased(rows[p], w) ELSE rows[p]]
           /\ worker' = [worker EXCEPT ![w].phase = "looping", ![w].batch =
                [p \in chosen |-> rows[p].attempts + 1]]
  /\ UNCHANGED <<clock, document, outbox, dispatched, receipts, index, effects, faults, retries>>

\* The head of the loop over the claimed deliveries.  A delivery whose handler
\* this process has not loaded is recorded as failed without being handled.
NextDelivery(w) ==
  /\ worker[w].phase = "looping"
  /\ ~worker[w].stopped
  /\ \E p \in DOMAIN worker[w].batch :
       worker' = [worker EXCEPT ![w].current = p,
         ![w].phase = IF p[2] \in Registered[w] THEN "handling" ELSE "failing"]
  /\ UNCHANGED <<clock, document, outbox, dispatched, delivery, receipts, index,
                 effects, faults, retries>>

LeaveLoop(w) ==
  /\ worker[w].phase = "looping"
  /\ worker[w].stopped \/ DOMAIN worker[w].batch = {}
  /\ EndCycle(w)
  /\ UNCHANGED <<clock, document, outbox, dispatched, delivery, receipts, index,
                 effects, faults, retries>>

\* Mutants of Projected: the last event wins; a removal is taken for a version.
ProjectedLast(row, e) == IF e.topic \in Removals THEN NoRow ELSE e.version

ProjectedRemoval(row, e) == IF row = NoRow \/ row <= e.version THEN e.version ELSE row

\* applySearchProjection on the index row: remove it, or write it unless the
\* row already shows a later version.
Projected(row, e) ==
  IF e.topic \in Removals THEN NoRow
  ELSE IF row = NoRow \/ row <= e.version THEN e.version
  ELSE row

\* Receipt and projection commit together, and a known key changes nothing.
Apply(p) ==
  LET duplicate == p[2] = SearchHandler /\ p \in receipts
      times == IF p \in DOMAIN effects THEN effects[p] ELSE 0
  IN  IF duplicate THEN UNCHANGED <<receipts, index, effects>>
      ELSE /\ receipts' = IF p[2] = SearchHandler THEN receipts \cup {p} ELSE receipts
           /\ index' = IF p[2] = SearchHandler
                       THEN [index EXCEPT ![p[1].document] = Projected(@, p[1])]
                       ELSE index
           /\ effects' = [q \in DOMAIN effects \cup {p} |->
                IF q # p THEN effects[q] ELSE IF times = 0 THEN 1 ELSE 2]

\* Mutant of Settle: an abandoned process goes on to report.
SettleLate(w, phase) == Goto(w, phase)

\* After the handler settles, an abandoned process writes nothing more.
Settle(w, phase) ==
  IF worker[w].abandoned THEN EndCycle(w) ELSE Goto(w, phase)

Handle(w) ==
  /\ worker[w].phase = "handling"
  /\ Apply(worker[w].current)
  /\ Settle(w, "acking")
  /\ UNCHANGED <<clock, document, outbox, dispatched, delivery, faults, retries>>

\* Mutant of HandlerFails: the error of the handler is swallowed.
HandlerFailsSilently(w) ==
  /\ worker[w].phase = "handling"
  /\ UNCHANGED <<receipts, index, effects>>
  /\ Settle(w, "acking")
  /\ UNCHANGED <<clock, document, outbox, dispatched, delivery, faults, retries>>

\* The handler rejects: before its effect, or after it when the reply to its
\* COMMIT is lost.
HandlerFails(w) ==
  /\ worker[w].phase = "handling"
  /\ \/ UNCHANGED <<receipts, index, effects>>
     \/ Apply(worker[w].current)
  /\ Settle(w, "failing")
  /\ UNCHANGED <<clock, document, outbox, dispatched, delivery, faults, retries>>

\* WHERE status = 'processing' AND locked_by = the worker.
HoldsLease(w, p) ==
  /\ p \in DOMAIN delivery
  /\ delivery[p].status = "processing"
  /\ delivery[p].lockedBy = w

\* The current delivery is done with: back to the head of the loop.
Proceed(w) ==
  worker' = [worker EXCEPT ![w].phase = "looping", ![w].current = NoRow,
    ![w].batch = [p \in DOMAIN @ \ {worker[w].current} |-> @[p]]]

Succeeded(p) ==
  delivery' = [delivery EXCEPT ![p] =
    [@ EXCEPT !.status = "succeeded", !.lockedBy = NoRow,
              !.lockedUntil = NoTime, !.completedAt = clock]]

Succeed(w) ==
  /\ worker[w].phase = "acking"
  /\ HoldsLease(w, worker[w].current)
  /\ Succeeded(worker[w].current)
  /\ Proceed(w)
  /\ UNCHANGED <<clock, document, outbox, dispatched, receipts, index, effects, faults, retries>>

\* JOB_LEASE_LOST from succeed is caught like a failure of the handler.
SucceedRefused(w) ==
  /\ worker[w].phase = "acking"
  /\ ~HoldsLease(w, worker[w].current)
  /\ Settle(w, "failing")
  /\ UNCHANGED <<clock, document, outbox, dispatched, delivery, receipts, index,
                 effects, faults, retries>>

\* recordFailure: pending again after the retry delay, or dead at the limit.
Fail(w) ==
  LET p == worker[w].current
      attempts == worker[w].batch[p]
      dead == attempts >= AttemptLimit[w]
  IN  /\ worker[w].phase = "failing"
      /\ HoldsLease(w, p)
      /\ delivery' = [delivery EXCEPT ![p] =
           [@ EXCEPT !.status = IF dead THEN "dead" ELSE "pending",
                     !.lockedBy = NoRow, !.lockedUntil = NoTime,
                     !.availableAt = clock + RetryDelay(attempts),
                     !.completedAt = IF dead THEN clock ELSE NoTime]]
      /\ Proceed(w)
      /\ UNCHANGED <<clock, document, outbox, dispatched, receipts, index, effects, faults, retries>>

\* JOB_LEASE_LOST from fail rejects the cycle: the rest of the batch stays leased.
FailRefused(w) ==
  /\ worker[w].phase = "failing"
  /\ ~HoldsLease(w, worker[w].current)
  /\ EndCycle(w)
  /\ UNCHANGED <<clock, document, outbox, dispatched, delivery, receipts, index,
                 effects, faults, retries>>

-----------------------------------------------------------------------------
(* Faults, shutdown, the operator and time.                                 *)

Fault == faults < MaxFaults /\ faults' = faults + 1

Start(w) ==
  /\ worker[w].phase = "off"
  /\ worker' = [worker EXCEPT ![w] = Idle]
  /\ UNCHANGED <<clock, tables, faults, retries>>

\* The process dies between two of its transactions, or exits after a stop.
Crash(w) ==
  /\ worker[w].phase # "off"
  /\ Fault
  /\ worker' = [worker EXCEPT ![w] = Off]
  /\ UNCHANGED <<clock, tables, retries>>

Exit(w) ==
  /\ worker[w].phase = "idle"
  /\ worker[w].stopped
  /\ worker' = [worker EXCEPT ![w] = Off]
  /\ UNCHANGED <<clock, tables, faults, retries>>

\* A call of the store rejects and rolls back.  While a success is being
\* recorded the failure is recorded instead; anywhere else the cycle rejects.
DatabaseError(w) ==
  /\ worker[w].phase \in {"fanning", "claiming", "acking", "failing"}
  /\ Fault
  /\ IF worker[w].phase = "acking" THEN Settle(w, "failing") ELSE EndCycle(w)
  /\ UNCHANGED <<clock, tables, retries>>

\* The success commits and its reply is lost: the failure finds no lease.
ReplyLost(w) ==
  /\ worker[w].phase = "acking"
  /\ HoldsLease(w, worker[w].current)
  /\ Fault
  /\ Succeeded(worker[w].current)
  /\ Settle(w, "failing")
  /\ UNCHANGED <<clock, document, outbox, dispatched, receipts, index, effects, retries>>

Stop(w) ==
  /\ worker[w].phase # "off"
  /\ ~worker[w].stopped
  /\ Fault
  /\ worker' = [worker EXCEPT ![w].stopped = TRUE]
  /\ UNCHANGED <<clock, tables, retries>>

\* The drain deadline passes while a cycle is running.
DrainTimeout(w) ==
  /\ worker[w].stopped
  /\ ~worker[w].abandoned
  /\ worker[w].phase \notin {"off", "idle"}
  /\ worker' = [worker EXCEPT ![w].abandoned = TRUE]
  /\ UNCHANGED <<clock, tables, faults, retries>>

\* PostgresEventWorkerStore.retry; its audit row is left out.
OperatorRetry(p) ==
  /\ retries < MaxRetries
  /\ retries' = retries + 1
  /\ delivery[p].status \in {"dead", "pending"}
  /\ delivery' = [delivery EXCEPT ![p] =
       [@ EXCEPT !.status = "pending", !.attempts = 0, !.availableAt = clock,
                 !.lockedBy = NoRow, !.lockedUntil = NoTime, !.completedAt = NoTime]]
  /\ UNCHANGED <<clock, document, outbox, dispatched, receipts, index, worker, effects, faults>>

\* Bound: time passes only while a lease or a retry delay is running, since
\* nothing else compares with the clock.
Tick ==
  /\ \E p \in DOMAIN delivery :
       \/ delivery[p].status = "processing" /\ delivery[p].lockedUntil > clock
       \/ delivery[p].status = "pending" /\ delivery[p].availableAt > clock
  /\ clock' = clock + 1
  /\ UNCHANGED <<tables, worker, faults, retries>>

WorkerStep(w) ==
  \/ BeginCycle(w) \/ FanOut(w) \/ Claim(w) \/ NextDelivery(w) \/ LeaveLoop(w)
  \/ Handle(w) \/ HandlerFails(w) \/ Succeed(w) \/ SucceedRefused(w)
  \/ Fail(w) \/ FailRefused(w) \/ Start(w) \/ Exit(w)

Next ==
  \/ \E d \in Documents : Emit(d)
  \/ \E w \in Workers :
       \/ WorkerStep(w) \/ Crash(w) \/ DatabaseError(w) \/ ReplyLost(w)
       \/ Stop(w) \/ DrainTimeout(w)
  \/ \E p \in DOMAIN delivery : OperatorRetry(p)
  \/ Tick

Spec == Init /\ [][Next]_vars

(* A process that runs keeps running: polling, its handlers and its database *)
(* calls return, a process that is gone is started again, and time passes.   *)
Fairness ==
  /\ \A w \in Workers : WF_vars(WorkerStep(w))
  /\ WF_vars(Tick)

FairSpec == Spec /\ Fairness

-----------------------------------------------------------------------------
(* Properties.                                                              *)

Statuses == {"pending", "processing", "succeeded", "dead"}

Rows == [status : Statuses, attempts : Nat, maxAttempts : Nat \ {0},
         availableAt : Nat, lockedBy : Workers \cup {NoRow},
         lockedUntil : Nat \cup {NoTime}, completedAt : Nat \cup {NoTime}]

Process(p) ==
  /\ p = [phase |-> p.phase, now |-> p.now, batch |-> p.batch, current |-> p.current,
          stopped |-> p.stopped, abandoned |-> p.abandoned]
  /\ p.phase \in Phases
  /\ p.now \in Nat
  /\ DOMAIN p.batch \subseteq DOMAIN delivery
  /\ \A d \in DOMAIN p.batch : p.batch[d] \in Nat
  /\ p.current \in DOMAIN p.batch \cup {NoRow}
  /\ p.current = NoRow <=> p.phase \notin {"handling", "acking", "failing"}
  /\ p.stopped \in BOOLEAN
  /\ p.abandoned \in BOOLEAN

\* The tables and the state of every process keep their types, and a delivery
\* or a receipt exists only for an event of the outbox.
TypeOK ==
  /\ clock \in Nat
  /\ document \in [Documents -> [version : 0..MaxVersion,
                               state : {"none", "live", "deleted", "purged"}]]
  /\ outbox \subseteq Events
  /\ dispatched \subseteq outbox
  /\ DOMAIN delivery \subseteq outbox \X Handlers
  /\ \A p \in DOMAIN delivery : delivery[p] \in Rows
  /\ receipts \subseteq DOMAIN delivery
  /\ index \in [Documents -> 1..MaxVersion \cup {NoRow}]
  /\ DOMAIN effects \subseteq Deliveries
  /\ \A p \in DOMAIN effects : effects[p] \in {1, 2}
  /\ faults \in 0..MaxFaults
  /\ retries \in 0..MaxRetries
  /\ \A w \in Workers : Process(worker[w])

\* The CHECK constraint of _xecms_event_deliveries holds (a lease if and only
\* if processing), claims never exceed the attempt limit they were made under,
\* and a delivery dies only when its attempts are used up, however it dies:
\* by a recorded failure or by a lease that expired.
AttemptsAccounted ==
  \A p \in DOMAIN delivery : LET row == delivery[p] IN
    /\ (row.status = "processing") <=> (row.lockedBy # NoRow)
    /\ (row.status = "processing") <=> (row.lockedUntil # NoTime)
    /\ row.status = "processing" => row.attempts \in 1..row.maxAttempts
    /\ row.status = "dead" => row.attempts >= row.maxAttempts
    /\ row.status = "succeeded" => row.completedAt # NoTime

\* A process that may still complete a delivery of its batch holds the lease
\* of its own claim, not of a later one: the attempt count it read is current.
LeaseIsOwnClaim ==
  \A w \in Workers : \A p \in DOMAIN worker[w].batch :
    HoldsLease(w, p) => worker[w].batch[p] = delivery[p].attempts

\* The delivery table and what the processes remember of it agree: leases and
\* attempts add up, whoever crashed, lost a reply or came back late.
LeasesAreAccounted == TypeOK /\ AttemptsAccounted /\ LeaseIsOwnClaim

\* The receipt makes the projection take place once per event, whatever
\* expired leases, crashes, lost replies and operator retries repeat.
ProjectedOnce ==
  \A p \in DOMAIN effects : p[2] = SearchHandler => effects[p] = 1

\* Events handled out of order leave the row of the latest version handled,
\* as long as no removal of the document has been handled.
IndexShowsLatest ==
  \A d \in Documents :
    LET handled == {p[1] : p \in {q \in receipts : q[1].document = d}}
    IN  (\A e \in handled : e.topic \notin Removals) =>
          \/ handled = {} /\ index[d] = NoRow
          \/ /\ \E e \in handled : e.version = index[d]
             /\ \A e \in handled : e.version <= index[d]

\* A row of the index shows a version whose event was handled, and a document
\* with handled versions is without a row only if a removal was handled.
IndexAccounted ==
  \A d \in Documents :
    LET handled == {p[1] : p \in {q \in receipts : q[1].document = d}}
        removals == {e \in handled : e.topic \in Removals}
    IN  IF index[d] = NoRow THEN handled # {} => removals # {}
        ELSE \E e \in handled \ removals : e.version = index[d]

\* The index is what the handled events make it, in whatever order they came,
\* and each of them had its effect once.
IndexFollowsEvents == ProjectedOnce /\ IndexShowsLatest /\ IndexAccounted

\* Before its lease expires a delivery leaves its holder only by the holder's
\* own report: no other worker and no operator takes it.
LiveLeaseIsKept ==
  [][\A p \in DOMAIN delivery :
       LET row == delivery[p] IN
       row.status = "processing" /\ row.lockedUntil > clock =>
         \/ delivery'[p] = row
         \/ /\ worker[row.lockedBy].phase \in {"acking", "failing"}
            /\ worker[row.lockedBy].current = p]_vars

\* A stopped process begins no further delivery, and once its drain deadline
\* has passed a late settlement of its handler reports nothing to the store.
ShutdownIsQuiet ==
  [][\A w \in Workers : worker[w].stopped =>
       /\ worker[w].phase # "handling" => worker'[w].phase # "handling"
       /\ worker[w].abandoned /\ worker[w].phase = "handling" =>
            worker'[w].phase \notin {"acking", "failing"}]_vars

\* A process leaves alone what another one holds, and what is not its to do any
\* more.
WorkersYield == LiveLeaseIsKept /\ ShutdownIsQuiet

\* Every delivery does what the outbox promises (module Delivery).
Outcome(p) ==
  IF p \notin DOMAIN delivery THEN "none"
  ELSE IF delivery[p].status \in {"pending", "processing"} THEN "open"
  ELSE delivery[p].status

Promise == INSTANCE Delivery WITH
  outcome <- [p \in Deliveries |-> Outcome(p)],
  handled <- DOMAIN effects

DeliversAsPromised == Promise!Spec

\* Once commands, faults and operators leave the outbox alone, every event of
\* a subscribed topic has its deliveries, each succeeded or dead: none is
\* left pending, or leased to a process that is gone.
Settled ==
  \A e \in outbox, h \in UNION {Registered[w] : w \in Workers} :
    e.topic \in HandlerTopics[h] => Outcome(<<e, h>>) \in {"succeeded", "dead"}

EventuallySettled == []<>Settled
=============================================================================

------------------------- MODULE EventWorker_proofs -------------------------
(***************************************************************************)
(* For any number of workers, handlers, documents and versions, and any    *)
(* number of crashes, lost replies and operator retries: leases and        *)
(* attempts add up, the search index is what the handled events make it,   *)
(* a live lease is left alone, and every step is one the outbox promises.  *)
(*                                                                         *)
(* The invariant adds to those properties that a lease carries the limit   *)
(* of its holder, that no process is ahead of the clock (else a claim      *)
(* could take a lease that is still live), that a process about to report  *)
(* a success has had the effect, and that the receipts are the effects of  *)
(* the search projection.                                                  *)
(*                                                                         *)
(* Retention (module Retention) beside them is proved with an invariant of *)
(* its own, RInv: no revision names two policies, so that the cutoffs of a *)
(* plan of the current revision are the policy's as of its preview; and a  *)
(* delivery keeps its event.  It needs nothing of what the workers hold.   *)
(***************************************************************************)
EXTENDS Retention, TLAPS

RowOK(row) ==
  /\ row \in Rows
  /\ (row.status = "processing") <=> (row.lockedBy # NoRow)
  /\ (row.status = "processing") <=> (row.lockedUntil # NoTime)
  /\ row.status = "processing" =>
       /\ row.attempts \in 1..row.maxAttempts
       /\ row.maxAttempts = AttemptLimit[row.lockedBy]
  /\ row.status = "dead" => row.attempts >= row.maxAttempts
  /\ row.status = "succeeded" => row.completedAt # NoTime

\* What holds of process p when there are those deliveries and effects.
ProcessOK(p, deliveries, done, time) ==
  /\ p = [phase |-> p.phase, now |-> p.now, batch |-> p.batch, current |-> p.current,
          stopped |-> p.stopped, abandoned |-> p.abandoned]
  /\ p.phase \in Phases
  /\ p.now \in Nat /\ p.now <= time
  /\ DOMAIN p.batch \subseteq deliveries
  /\ \A d \in DOMAIN p.batch : p.batch[d] \in Nat
  /\ p.current \in DOMAIN p.batch \cup {NoRow}
  /\ p.current = NoRow <=> p.phase \notin {"handling", "acking", "failing"}
  /\ p.phase = "acking" => p.current \in done
  /\ p.stopped \in BOOLEAN
  /\ p.abandoned \in BOOLEAN

TablesOK ==
  /\ clock \in Nat
  /\ document \in [Documents -> [version : 0..MaxVersion,
                                 state : {"none", "live", "deleted", "purged"}]]
  /\ outbox \subseteq Events
  /\ dispatched \subseteq outbox
  /\ faults \in 0..MaxFaults
  /\ retries \in 0..MaxRetries

DeliveriesOK ==
  /\ DOMAIN delivery \subseteq outbox \X Handlers
  /\ \A p \in DOMAIN delivery : RowOK(delivery[p])

ProcessesOK ==
  /\ DOMAIN worker = Workers
  /\ \A w \in Workers : ProcessOK(worker[w], DOMAIN delivery, DOMAIN effects, clock)

EffectsOK ==
  /\ receipts \subseteq DOMAIN delivery
  /\ receipts = {p \in DOMAIN effects : p[2] = SearchHandler}
  /\ index \in [Documents -> 1..MaxVersion \cup {NoRow}]
  /\ DOMAIN effects \subseteq Deliveries
  /\ \A p \in DOMAIN effects : effects[p] \in {1, 2}
  /\ IndexFollowsEvents

IInv == TablesOK /\ DeliveriesOK /\ ProcessesOK /\ LeaseIsOwnClaim /\ EffectsOK

USE SearchHandlerAssumption, RegisteredAssumption, AttemptLimitAssumption,
    LeaseAssumption, NoTimeAssumption, NoRowAssumption, BoundsAssumption

-----------------------------------------------------------------------------
(* Rows of the delivery table *)

\* The delay before the next attempt is a number of seconds.
LEMMA RetryDelayType == ASSUME NEW n \in Nat \ {0} PROVE RetryDelay(n) \in Nat
<1> DEFINE k == IF n - 1 < 18 THEN n - 1 ELSE 18
<1>0. k \in Int /\ k >= 0 /\ k <= 18  OBVIOUS
<1>1. \/ k = 0 \/ k = 1 \/ k = 2 \/ k = 3 \/ k = 4 \/ k = 5 \/ k = 6 \/ k = 7
      \/ k = 8 \/ k = 9 \/ k = 10 \/ k = 11 \/ k = 12 \/ k = 13 \/ k = 14
      \/ k = 15 \/ k = 16 \/ k = 17 \/ k = 18
  <2> HIDE DEF k
  <2> QED  BY <1>0
<1>2. /\ 2^0 > 0 /\ 2^1 > 0 /\ 2^2 > 0 /\ 2^3 > 0 /\ 2^4 > 0 /\ 2^5 > 0 /\ 2^6 > 0
      /\ 2^7 > 0 /\ 2^8 > 0 /\ 2^9 > 0 /\ 2^10 > 0 /\ 2^11 > 0 /\ 2^12 > 0
      /\ 2^13 > 0 /\ 2^14 > 0 /\ 2^15 > 0 /\ 2^16 > 0 /\ 2^17 > 0 /\ 2^18 > 0
  OBVIOUS
<1>3. k \in Nat  OBVIOUS
<1>4. 2^k \in Int  BY <1>3
<1>5. 2^k > 0  BY <1>1, <1>2
<1> QED  BY <1>4, <1>5 DEF RetryDelay

\* A recovered row is sound, and a row without an expired lease is unchanged.
LEMMA RecoveredIsOK ==
  ASSUME NEW row, RowOK(row), NEW now \in Nat
  PROVE  /\ RowOK(Recovered(row, now))
         /\ \/ Recovered(row, now) = row
            \/ /\ row.status = "processing" /\ row.lockedUntil <= now
               /\ Recovered(row, now).status \in {"pending", "dead"}
               /\ Recovered(row, now).attempts = row.attempts
  BY DEF RowOK, Recovered, Rows, Statuses

LEMMA LeasedIsOK ==
  ASSUME NEW row, RowOK(row), NEW w \in Workers, worker[w].now \in Nat,
         row.attempts < AttemptLimit[w]
  PROVE  /\ RowOK(Leased(row, w))
         /\ Leased(row, w).attempts = row.attempts + 1
         /\ Leased(row, w).status = "processing" /\ Leased(row, w).lockedBy = w
<1>1. PICK limit \in Nat \ {0}, until \in Nat :
        limit = AttemptLimit[w] /\ until = worker[w].now + Lease
  OBVIOUS
<1> DEFINE r == [row EXCEPT !.status = "processing", !.attempts = @ + 1,
                            !.maxAttempts = limit, !.lockedBy = w, !.lockedUntil = until]
<1>2. row \in Rows /\ row.attempts + 1 \in 1..limit
  BY <1>1 DEF RowOK, Rows
<1>3. /\ r.status = "processing" /\ r.attempts = row.attempts + 1
      /\ r.maxAttempts = limit /\ r.lockedBy = w /\ r.lockedUntil = until
  BY <1>2 DEF Rows
<1>4. r \in Rows
  <2>1. /\ row.attempts + 1 \in Nat /\ w \in Workers \cup {NoRow}
        /\ until \in Nat \cup {NoTime} /\ "processing" \in Statuses
    BY <1>2 DEF Rows, Statuses
  <2> QED  BY <1>2, <2>1 DEF Rows
<1>5. Leased(row, w) = r  BY <1>1 DEF Leased
<1> HIDE DEF r
<1>6. RowOK(r)  BY <1>1, <1>2, <1>3, <1>4 DEF RowOK
<1> QED  BY <1>3, <1>5, <1>6

LEMMA NewDeliveryIsOK ==
  ASSUME NEW now \in Nat
  PROVE  RowOK(NewDelivery(now)) /\ NewDelivery(now).status = "pending"
  BY DEF RowOK, NewDelivery, Rows, Statuses

LEMMA SucceededIsOK ==
  ASSUME NEW row, RowOK(row), NEW time \in Nat
  PROVE  RowOK([row EXCEPT !.status = "succeeded", !.lockedBy = NoRow,
                           !.lockedUntil = NoTime, !.completedAt = time])
<1> DEFINE r == [row EXCEPT !.status = "succeeded", !.lockedBy = NoRow,
                            !.lockedUntil = NoTime, !.completedAt = time]
<1>1. row \in Rows /\ time # NoTime  BY DEF RowOK
<1>2. /\ r.status = "succeeded" /\ r.lockedBy = NoRow
      /\ r.lockedUntil = NoTime /\ r.completedAt = time
  BY <1>1 DEF Rows
<1>3. r \in Rows
  <2>1. /\ NoRow \in Workers \cup {NoRow} /\ NoTime \in Nat \cup {NoTime}
        /\ time \in Nat \cup {NoTime} /\ "succeeded" \in Statuses
    BY DEF Statuses
  <2> QED  BY <1>1, <2>1 DEF Rows
<1> HIDE DEF r
<1>4. RowOK(r)  BY <1>1, <1>2, <1>3 DEF RowOK
<1> QED  BY <1>4 DEF r

\* Of a row that is leased the attempt and its limit are those of the holder.
LEMMA FailedIsOK ==
  ASSUME NEW row, RowOK(row), row.status = "processing", NEW dead \in BOOLEAN,
         dead = (row.attempts >= row.maxAttempts), NEW time \in Nat, NEW later \in Nat
  PROVE  RowOK([row EXCEPT !.status = IF dead THEN "dead" ELSE "pending",
                           !.lockedBy = NoRow, !.lockedUntil = NoTime,
                           !.availableAt = later,
                           !.completedAt = IF dead THEN time ELSE NoTime])
  BY DEF RowOK, Rows, Statuses

LEMMA RetriedIsOK ==
  ASSUME NEW row, RowOK(row), NEW time \in Nat
  PROVE  RowOK([row EXCEPT !.status = "pending", !.attempts = 0, !.availableAt = time,
                           !.lockedBy = NoRow, !.lockedUntil = NoTime,
                           !.completedAt = NoTime])
  BY DEF RowOK, Rows, Statuses

-----------------------------------------------------------------------------
(* What a claim does: it recovers every row, and leases the chosen ones.   *)
ClaimChooses(w, chosen) ==
  LET row(p) == Recovered(delivery[p], worker[w].now)
  IN  /\ chosen \subseteq DOMAIN delivery
      /\ DOMAIN delivery' = DOMAIN delivery
      /\ \A p \in chosen : /\ row(p).status = "pending"
                           /\ row(p).attempts < AttemptLimit[w]
                           /\ delivery'[p] = Leased(row(p), w)
      /\ \A p \in DOMAIN delivery \ chosen : delivery'[p] = row(p)
      /\ worker' = [worker EXCEPT ![w].phase = "looping",
                                 ![w].batch = [p \in chosen |-> row(p).attempts + 1]]

LEMMA ClaimChoosesRows ==
  ASSUME NEW w \in Workers, Claim(w)
  PROVE  \E chosen : ClaimChooses(w, chosen)
<1> DEFINE rows == [p \in DOMAIN delivery |-> Recovered(delivery[p], worker[w].now)]
           candidates == {p \in DOMAIN rows : /\ rows[p].status = "pending"
                                              /\ rows[p].availableAt <= worker[w].now
                                              /\ rows[p].attempts < AttemptLimit[w]}
<1>1. PICK chosen \in Batches(rows, candidates) :
        /\ delivery' = [p \in DOMAIN rows |->
             IF p \in chosen THEN Leased(rows[p], w) ELSE rows[p]]
        /\ worker' = [worker EXCEPT ![w].phase = "looping",
                                   ![w].batch = [p \in chosen |-> rows[p].attempts + 1]]
  BY DEF Claim
<1>2. chosen \subseteq candidates  BY DEF Batches
<1>3. [p \in chosen |-> rows[p].attempts + 1] =
        [p \in chosen |-> Recovered(delivery[p], worker[w].now).attempts + 1]
  BY <1>2
<1> QED  BY <1>1, <1>2, <1>3 DEF ClaimChooses

\* The claimed rows and the recovered ones are sound, and a row that is left
\* alone keeps its lease.
LEMMA ClaimIsOK ==
  ASSUME IInv, NEW w \in Workers, NEW chosen, ClaimChooses(w, chosen),
         NEW p \in DOMAIN delivery
  PROVE  LET row == Recovered(delivery[p], worker[w].now)
         IN  /\ RowOK(delivery'[p])
             /\ p \in chosen => /\ row.status = "pending"
                                /\ delivery'[p].status = "processing"
                                /\ delivery'[p].lockedBy = w
                                /\ delivery'[p].attempts = row.attempts + 1
                                /\ row.attempts \in Nat
             /\ p \notin chosen => delivery'[p] = row
             /\ row = delivery[p] \/ /\ delivery[p].status = "processing"
                                     /\ delivery[p].lockedUntil <= worker[w].now
                                     /\ row.status \in {"pending", "dead"}
<1> DEFINE row == Recovered(delivery[p], worker[w].now)
<1>1. RowOK(delivery[p]) /\ worker[w].now \in Nat
  BY DEF IInv, DeliveriesOK, ProcessesOK, ProcessOK
<1>2. /\ RowOK(row)
      /\ row = delivery[p] \/ /\ delivery[p].status = "processing"
                              /\ delivery[p].lockedUntil <= worker[w].now
                              /\ row.status \in {"pending", "dead"}
  BY <1>1, RecoveredIsOK
<1>3. /\ p \in chosen => /\ row.status = "pending" /\ row.attempts < AttemptLimit[w]
                         /\ delivery'[p] = Leased(row, w)
      /\ p \notin chosen => delivery'[p] = row
  BY DEF ClaimChooses
<1>4. row.attempts \in Nat  BY <1>2 DEF RowOK, Rows
<1> HIDE DEF row
<1>5. p \in chosen => /\ RowOK(delivery'[p])
                      /\ delivery'[p].attempts = row.attempts + 1
                      /\ delivery'[p].status = "processing" /\ delivery'[p].lockedBy = w
  BY <1>1, <1>2, <1>3, LeasedIsOK
<1> QED  BY <1>2, <1>3, <1>4, <1>5 DEF row

-----------------------------------------------------------------------------
(* The rows stay sound *)

\* Who may still report on a delivery reports on its own claim.
LEMMA ReporterHoldsClaim ==
  ASSUME IInv, NEW w \in Workers, worker[w].phase \in {"acking", "failing"},
         HoldsLease(w, worker[w].current)
  PROVE  LET p == worker[w].current
         IN  /\ p \in DOMAIN delivery /\ RowOK(delivery[p])
             /\ delivery[p].status = "processing" /\ delivery[p].lockedBy = w
             /\ p \in DOMAIN worker[w].batch
             /\ worker[w].batch[p] = delivery[p].attempts
             /\ delivery[p].maxAttempts = AttemptLimit[w]
             /\ delivery[p].attempts \in Nat \ {0}
<1>1. worker[w].current \in DOMAIN worker[w].batch
  BY DEF IInv, ProcessesOK, ProcessOK
<1>2. /\ worker[w].current \in DOMAIN delivery /\ RowOK(delivery[worker[w].current])
      /\ delivery[worker[w].current].status = "processing"
      /\ delivery[worker[w].current].lockedBy = w
  BY DEF IInv, DeliveriesOK, HoldsLease
<1>3. worker[w].batch[worker[w].current] = delivery[worker[w].current].attempts
  BY <1>1 DEF IInv, LeaseIsOwnClaim
<1>4. /\ delivery[worker[w].current].maxAttempts = AttemptLimit[w]
      /\ delivery[worker[w].current].attempts \in Nat \ {0}
  BY <1>2 DEF RowOK, Rows
<1> QED  BY <1>1, <1>2, <1>3, <1>4

\* One row changes to a sound one.
LEMMA RowIsSet ==
  ASSUME DeliveriesOK, NEW p \in DOMAIN delivery, NEW r, RowOK(r),
         delivery' = [delivery EXCEPT ![p] = r], outbox' = outbox
  PROVE  DeliveriesOK' /\ DOMAIN delivery' = DOMAIN delivery
  BY DEF DeliveriesOK

LEMMA SuccessIsOK ==
  ASSUME IInv, NEW w \in Workers, worker[w].phase = "acking",
         HoldsLease(w, worker[w].current), Succeeded(worker[w].current), outbox' = outbox
  PROVE  DeliveriesOK' /\ DOMAIN delivery' = DOMAIN delivery
<1> DEFINE p == worker[w].current
           r == [delivery[p] EXCEPT !.status = "succeeded", !.lockedBy = NoRow,
                                    !.lockedUntil = NoTime, !.completedAt = clock]
<1>1. p \in DOMAIN delivery /\ RowOK(delivery[p]) /\ clock \in Nat
  BY ReporterHoldsClaim DEF IInv, TablesOK
<1>2. delivery' = [delivery EXCEPT ![p] = r]  BY <1>1 DEF Succeeded
<1>3. RowOK(r)  BY <1>1, SucceededIsOK
<1> HIDE DEF r, p
<1> QED  BY <1>1, <1>2, <1>3, RowIsSet DEF IInv

LEMMA FailureIsOK ==
  ASSUME IInv, NEW w \in Workers, Fail(w)
  PROVE  DeliveriesOK' /\ DOMAIN delivery' = DOMAIN delivery
<1> DEFINE p == worker[w].current
           dead == worker[w].batch[p] >= AttemptLimit[w]
           later == clock + RetryDelay(worker[w].batch[p])
           r == [delivery[p] EXCEPT !.status = IF dead THEN "dead" ELSE "pending",
                                    !.lockedBy = NoRow, !.lockedUntil = NoTime,
                                    !.availableAt = later,
                                    !.completedAt = IF dead THEN clock ELSE NoTime]
<1>1. /\ p \in DOMAIN delivery /\ RowOK(delivery[p]) /\ clock \in Nat
      /\ delivery[p].status = "processing"
      /\ dead = (delivery[p].attempts >= delivery[p].maxAttempts)
      /\ worker[w].batch[p] \in Nat \ {0}
  BY ReporterHoldsClaim DEF Fail, IInv, TablesOK
<1>2. delivery' = [delivery EXCEPT ![p] = r] /\ outbox' = outbox
  BY <1>1 DEF Fail
<1>3. later \in Nat /\ dead \in BOOLEAN  BY <1>1, RetryDelayType
<1> HIDE DEF later, dead
<1>4. RowOK(r)  BY <1>1, <1>3, FailedIsOK
<1> HIDE DEF r, p
<1> QED  BY <1>1, <1>2, <1>4, RowIsSet DEF IInv

LEMMA FanOutIsOK ==
  ASSUME IInv, NEW w \in Workers, FanOut(w)
  PROVE  DeliveriesOK' /\ DOMAIN delivery \subseteq DOMAIN delivery'
<1>1. worker[w].now \in Nat  BY DEF IInv, ProcessesOK, ProcessOK
<1>2. Offered(w) \subseteq outbox \X Handlers  BY DEF Offered
<1>3. /\ DOMAIN delivery' = DOMAIN delivery \cup Offered(w)
      /\ outbox' = outbox
      /\ \A p \in DOMAIN delivery' : delivery'[p] =
           IF p \in DOMAIN delivery THEN delivery[p] ELSE NewDelivery(worker[w].now)
  BY DEF FanOut
<1> QED  BY <1>1, <1>2, <1>3, NewDeliveryIsOK DEF IInv, DeliveriesOK

LEMMA RetryIsOK ==
  ASSUME IInv, NEW p \in DOMAIN delivery, OperatorRetry(p)
  PROVE  DeliveriesOK' /\ DOMAIN delivery' = DOMAIN delivery
<1> DEFINE r == [delivery[p] EXCEPT !.status = "pending", !.attempts = 0,
                                    !.availableAt = clock, !.lockedBy = NoRow,
                                    !.lockedUntil = NoTime, !.completedAt = NoTime]
<1>1. RowOK(delivery[p]) /\ clock \in Nat  BY DEF IInv, DeliveriesOK, TablesOK
<1>2. delivery' = [delivery EXCEPT ![p] = r] /\ outbox' = outbox  BY DEF OperatorRetry
<1>3. RowOK(r)  BY <1>1, RetriedIsOK
<1> HIDE DEF r
<1> QED  BY <1>2, <1>3, RowIsSet DEF IInv

\* A step that leaves the deliveries alone, but may add to the outbox.
LEMMA RowsAreLeftAlone ==
  ASSUME DeliveriesOK, delivery' = delivery, outbox \subseteq outbox'
  PROVE  DeliveriesOK' /\ DOMAIN delivery' = DOMAIN delivery
  BY DEF DeliveriesOK

LEMMA NextDeliveriesOK ==
  ASSUME IInv, [Next]_vars
  PROVE  DeliveriesOK' /\ DOMAIN delivery \subseteq DOMAIN delivery'
<1> USE DEF IInv
<1>1. ASSUME NEW d \in Documents, Emit(d)
      PROVE  DeliveriesOK' /\ DOMAIN delivery \subseteq DOMAIN delivery'
  BY <1>1, RowsAreLeftAlone DEF Emit
<1>2. ASSUME NEW w \in Workers, WorkerStep(w)
      PROVE  DeliveriesOK' /\ DOMAIN delivery \subseteq DOMAIN delivery'
  <2>1. CASE FanOut(w)  BY <2>1, FanOutIsOK
  <2>2. CASE Claim(w)
    <3>1. PICK chosen : ClaimChooses(w, chosen)  BY <2>2, ClaimChoosesRows
    <3>2. DOMAIN delivery' = DOMAIN delivery /\ outbox' = outbox
      BY <2>2, <3>1 DEF ClaimChooses, Claim
    <3>3. \A p \in DOMAIN delivery : RowOK(delivery'[p])  BY <3>1, ClaimIsOK
    <3> QED  BY <3>2, <3>3 DEF DeliveriesOK
  <2>3. CASE Succeed(w)  BY <2>3, SuccessIsOK DEF Succeed
  <2>4. CASE Fail(w)  BY <2>4, FailureIsOK
  <2>5. CASE \/ BeginCycle(w) \/ NextDelivery(w) \/ LeaveLoop(w) \/ Handle(w)
             \/ HandlerFails(w) \/ SucceedRefused(w) \/ FailRefused(w)
             \/ Start(w) \/ Exit(w)
    BY <2>5, RowsAreLeftAlone
       DEF BeginCycle, NextDelivery, LeaveLoop, Handle, HandlerFails, SucceedRefused,
           FailRefused, Start, Exit, tables
  <2> QED  BY <1>2, <2>1, <2>2, <2>3, <2>4, <2>5 DEF WorkerStep
<1>3. ASSUME NEW w \in Workers, ReplyLost(w)
      PROVE  DeliveriesOK' /\ DOMAIN delivery \subseteq DOMAIN delivery'
  BY <1>3, SuccessIsOK DEF ReplyLost
<1>4. ASSUME NEW w \in Workers, Crash(w) \/ DatabaseError(w) \/ Stop(w) \/ DrainTimeout(w)
      PROVE  DeliveriesOK' /\ DOMAIN delivery \subseteq DOMAIN delivery'
  BY <1>4, RowsAreLeftAlone DEF Crash, DatabaseError, Stop, DrainTimeout, tables
<1>5. ASSUME NEW p \in DOMAIN delivery, OperatorRetry(p)
      PROVE  DeliveriesOK' /\ DOMAIN delivery \subseteq DOMAIN delivery'
  BY <1>5, RetryIsOK
<1>6. CASE Tick \/ UNCHANGED vars
  BY <1>6, RowsAreLeftAlone DEF Tick, tables, vars
<1> QED  BY <1>1, <1>2, <1>3, <1>4, <1>5, <1>6 DEF Next

-----------------------------------------------------------------------------
(* Processes *)

Busy == {"handling", "acking", "failing"}

\* What has been delivered and done stays, and the clock does not run back.
LEMMA ProcessStaysOK ==
  ASSUME NEW p, NEW deliveries, NEW done, NEW time \in Nat,
         ProcessOK(p, deliveries, done, time),
         NEW deliveries2, deliveries \subseteq deliveries2,
         NEW done2, done \subseteq done2, NEW time2 \in Nat, time <= time2
  PROVE  ProcessOK(p, deliveries2, done2, time2)
  BY DEF ProcessOK

LEMMA FreshIsOK ==
  ASSUME NEW deliveries, NEW done, NEW time \in Nat,
         NEW stopped \in BOOLEAN, NEW abandoned \in BOOLEAN
  PROVE  /\ ProcessOK([Idle EXCEPT !.stopped = stopped, !.abandoned = abandoned],
                      deliveries, done, time)
         /\ ProcessOK(Idle, deliveries, done, time)
         /\ ProcessOK(Off, deliveries, done, time)
<1>1. Idle = [phase |-> "idle", now |-> 0, batch |-> NoRows, current |-> NoRow,
              stopped |-> FALSE, abandoned |-> FALSE]
  BY DEF Idle
<1>2. ASSUME NEW q, q = Off
      PROVE  q = [phase |-> "off", now |-> 0, batch |-> NoRows, current |-> NoRow,
                  stopped |-> FALSE, abandoned |-> FALSE]
  BY <1>1, <1>2 DEF Off
<1>3. ASSUME NEW q, q = [Idle EXCEPT !.stopped = stopped, !.abandoned = abandoned]
      PROVE  q = [phase |-> "idle", now |-> 0, batch |-> NoRows, current |-> NoRow,
                  stopped |-> stopped, abandoned |-> abandoned]
  BY <1>1, <1>3
<1>4. ASSUME NEW q, NEW phase \in {"idle", "off"}, NEW s \in BOOLEAN, NEW a \in BOOLEAN,
             q = [phase |-> phase, now |-> 0, batch |-> NoRows, current |-> NoRow,
                  stopped |-> s, abandoned |-> a]
      PROVE  ProcessOK(q, deliveries, done, time)
  BY <1>4 DEF ProcessOK, Phases, NoRows
<1> QED  BY <1>1, <1>2, <1>3, <1>4

LEMMA MoveIsOK ==
  ASSUME NEW p, NEW deliveries, NEW done, NEW time \in Nat,
         ProcessOK(p, deliveries, done, time),
         NEW phase \in Phases, phase \in Busy <=> p.phase \in Busy,
         phase = "acking" => p.current \in done,
         NEW q, q = [p EXCEPT !.phase = phase]
  PROVE  ProcessOK(q, deliveries, done, time)
<1>1. p = [phase |-> p.phase, now |-> p.now, batch |-> p.batch, current |-> p.current,
           stopped |-> p.stopped, abandoned |-> p.abandoned]
  BY DEF ProcessOK
<1>2. q = [phase |-> phase, now |-> p.now, batch |-> p.batch, current |-> p.current,
           stopped |-> p.stopped, abandoned |-> p.abandoned]
  BY <1>1
<1> QED  BY <1>2 DEF ProcessOK, Busy

LEMMA BeginIsOK ==
  ASSUME NEW p, NEW deliveries, NEW done, NEW time \in Nat,
         ProcessOK(p, deliveries, done, time),
         p.phase \notin Busy,
         NEW q, q = [p EXCEPT !.phase = "fanning", !.now = time]
  PROVE  ProcessOK(q, deliveries, done, time)
<1>1. p = [phase |-> p.phase, now |-> p.now, batch |-> p.batch, current |-> p.current,
           stopped |-> p.stopped, abandoned |-> p.abandoned]
  BY DEF ProcessOK
<1>2. q = [phase |-> "fanning", now |-> time, batch |-> p.batch, current |-> p.current,
           stopped |-> p.stopped, abandoned |-> p.abandoned]
  BY <1>1
<1>3. /\ q.phase = "fanning" /\ q.now = time /\ q.batch = p.batch /\ q.current = p.current
      /\ q.stopped = p.stopped /\ q.abandoned = p.abandoned
  BY <1>2
<1>4. q = [phase |-> q.phase, now |-> q.now, batch |-> q.batch, current |-> q.current,
           stopped |-> q.stopped, abandoned |-> q.abandoned]
  BY <1>2
<1>5. /\ p.current = NoRow /\ p.stopped \in BOOLEAN /\ p.abandoned \in BOOLEAN
      /\ DOMAIN p.batch \subseteq deliveries /\ \A d \in DOMAIN p.batch : p.batch[d] \in Nat
  BY DEF ProcessOK, Busy
<1> QED  BY <1>3, <1>4, <1>5 DEF ProcessOK, Phases

LEMMA BatchIsOK ==
  ASSUME NEW p, NEW deliveries, NEW done, NEW time \in Nat,
         ProcessOK(p, deliveries, done, time),
         p.phase \notin Busy, NEW batch, DOMAIN batch \subseteq deliveries,
         \A d \in DOMAIN batch : batch[d] \in Nat,
         NEW q, q = [p EXCEPT !.phase = "looping", !.batch = batch]
  PROVE  ProcessOK(q, deliveries, done, time)
<1>1. p = [phase |-> p.phase, now |-> p.now, batch |-> p.batch, current |-> p.current,
           stopped |-> p.stopped, abandoned |-> p.abandoned]
  BY DEF ProcessOK
<1>2. q = [phase |-> "looping", now |-> p.now, batch |-> batch, current |-> p.current,
           stopped |-> p.stopped, abandoned |-> p.abandoned]
  BY <1>1
<1> QED  BY <1>2 DEF ProcessOK, Phases, Busy

LEMMA NextIsOK ==
  ASSUME NEW p, NEW deliveries, NEW done, NEW time \in Nat,
         ProcessOK(p, deliveries, done, time),
         NoRow \notin deliveries, NEW d \in DOMAIN p.batch,
         NEW phase \in {"handling", "failing"},
         NEW q, q = [p EXCEPT !.current = d, !.phase = phase]
  PROVE  ProcessOK(q, deliveries, done, time)
<1>1. p = [phase |-> p.phase, now |-> p.now, batch |-> p.batch, current |-> p.current,
           stopped |-> p.stopped, abandoned |-> p.abandoned]
  BY DEF ProcessOK
<1>2. q = [phase |-> phase, now |-> p.now, batch |-> p.batch, current |-> d,
           stopped |-> p.stopped, abandoned |-> p.abandoned]
  BY <1>1
<1> QED  BY <1>2 DEF ProcessOK, Phases

LEMMA ProceedIsOK ==
  ASSUME NEW p, NEW deliveries, NEW done, NEW time \in Nat,
         ProcessOK(p, deliveries, done, time),
         NEW batch, batch = [d \in DOMAIN p.batch \ {p.current} |-> p.batch[d]],
         NEW q, q = [p EXCEPT !.phase = "looping", !.current = NoRow, !.batch = batch]
  PROVE  ProcessOK(q, deliveries, done, time)
<1>1. p = [phase |-> p.phase, now |-> p.now, batch |-> p.batch, current |-> p.current,
           stopped |-> p.stopped, abandoned |-> p.abandoned]
  BY DEF ProcessOK
<1>2. q = [phase |-> "looping", now |-> p.now, batch |-> batch, current |-> NoRow,
           stopped |-> p.stopped, abandoned |-> p.abandoned]
  BY <1>1
<1>3. DOMAIN batch \subseteq deliveries /\ \A d \in DOMAIN batch : batch[d] \in Nat
  BY DEF ProcessOK
<1> QED  BY <1>2, <1>3 DEF ProcessOK, Phases

LEMMA StopIsOK ==
  ASSUME NEW p, NEW deliveries, NEW done, NEW time \in Nat,
         ProcessOK(p, deliveries, done, time),
         NEW q, q = [p EXCEPT !.stopped = TRUE]
  PROVE  ProcessOK(q, deliveries, done, time)
<1>1. p = [phase |-> p.phase, now |-> p.now, batch |-> p.batch, current |-> p.current,
           stopped |-> p.stopped, abandoned |-> p.abandoned]
  BY DEF ProcessOK
<1>2. q = [phase |-> p.phase, now |-> p.now, batch |-> p.batch, current |-> p.current,
           stopped |-> TRUE, abandoned |-> p.abandoned]
  BY <1>1
<1> QED  BY <1>2 DEF ProcessOK, Phases

LEMMA AbandonIsOK ==
  ASSUME NEW p, NEW deliveries, NEW done, NEW time \in Nat,
         ProcessOK(p, deliveries, done, time),
         NEW q, q = [p EXCEPT !.abandoned = TRUE]
  PROVE  ProcessOK(q, deliveries, done, time)
<1>1. p = [phase |-> p.phase, now |-> p.now, batch |-> p.batch, current |-> p.current,
           stopped |-> p.stopped, abandoned |-> p.abandoned]
  BY DEF ProcessOK
<1>2. q = [phase |-> p.phase, now |-> p.now, batch |-> p.batch, current |-> p.current,
           stopped |-> p.stopped, abandoned |-> TRUE]
  BY <1>1
<1> QED  BY <1>2 DEF ProcessOK, Phases

\* One process changes, the others see tables that have only grown.
LEMMA ProcessIsSet ==
  ASSUME ProcessesOK, NEW w \in Workers, NEW q, worker' = [worker EXCEPT ![w] = q],
         clock \in Nat, clock' \in Nat, clock <= clock',
         DOMAIN delivery \subseteq DOMAIN delivery',
         DOMAIN effects \subseteq DOMAIN effects',
         ProcessOK(q, DOMAIN delivery', DOMAIN effects', clock')
  PROVE  ProcessesOK'
  BY ProcessStaysOK DEF ProcessesOK

LEMMA ProcessesStayOK ==
  ASSUME ProcessesOK, worker' = worker, clock \in Nat, clock' \in Nat, clock <= clock',
         DOMAIN delivery \subseteq DOMAIN delivery',
         DOMAIN effects \subseteq DOMAIN effects'
  PROVE  ProcessesOK'
  BY ProcessStaysOK DEF ProcessesOK

\* Effects are recorded for good, and handling a delivery records its effect.
LEMMA EffectsGrow ==
  ASSUME IInv, [Next]_vars
  PROVE  DOMAIN effects \subseteq DOMAIN effects'
<1>1. ASSUME NEW p, Apply(p) \/ UNCHANGED <<receipts, index, effects>>
      PROVE  DOMAIN effects \subseteq DOMAIN effects'
  BY <1>1 DEF Apply
<1>2. ASSUME NEW w \in Workers, Handle(w) \/ HandlerFails(w)
      PROVE  DOMAIN effects \subseteq DOMAIN effects'
  BY <1>1, <1>2 DEF Handle, HandlerFails
<1>3. (\E w \in Workers : Handle(w) \/ HandlerFails(w)) \/ effects' = effects
  BY DEF Next, WorkerStep, Emit, BeginCycle, FanOut, Claim, NextDelivery, LeaveLoop, Succeed,
         SucceedRefused, Fail, FailRefused, Start, Exit, Crash, DatabaseError, ReplyLost,
         Stop, DrainTimeout, OperatorRetry, Tick, tables, vars
<1> QED  BY <1>2, <1>3

LEMMA ClockRuns ==
  ASSUME IInv, [Next]_vars
  PROVE  clock \in Nat /\ clock' \in Nat /\ clock <= clock'
<1>1. clock' = clock \/ clock' = clock + 1
  BY DEF Next, WorkerStep, Emit, BeginCycle, FanOut, Claim, NextDelivery, LeaveLoop, Handle,
         HandlerFails, Succeed, SucceedRefused, Fail, FailRefused, Start, Exit, Crash,
         DatabaseError, ReplyLost, Stop, DrainTimeout, OperatorRetry, Tick, vars
<1> QED  BY <1>1 DEF IInv, TablesOK

LEMMA NextProcessesOK ==
  ASSUME IInv, [Next]_vars
  PROVE  ProcessesOK'
<1> DEFINE OK(q) == ProcessOK(q, DOMAIN delivery', DOMAIN effects', clock')
<1>1. /\ clock \in Nat /\ clock' \in Nat /\ clock <= clock' /\ ProcessesOK
      /\ DOMAIN delivery \subseteq DOMAIN delivery' /\ DOMAIN effects \subseteq DOMAIN effects'
  BY ClockRuns, EffectsGrow, NextDeliveriesOK DEF IInv
<1>2. ASSUME NEW w \in Workers  PROVE  OK(worker[w])
  BY <1>1, ProcessStaysOK DEF ProcessesOK
<1>3. ASSUME NEW w \in Workers, NEW q, worker' = [worker EXCEPT ![w] = q], OK(q)
      PROVE  ProcessesOK'
  BY <1>1, <1>3, ProcessIsSet
<1> HIDE DEF OK
<1>4. ASSUME NEW w \in Workers, EndCycle(w)  PROVE ProcessesOK'
  <2>1. worker[w].stopped \in BOOLEAN /\ worker[w].abandoned \in BOOLEAN
    BY <1>1 DEF ProcessesOK, ProcessOK
  <2>2. OK([Idle EXCEPT !.stopped = worker[w].stopped, !.abandoned = worker[w].abandoned])
    BY <1>1, <2>1, FreshIsOK DEF OK
  <2> QED  BY <1>3, <1>4, <2>2 DEF EndCycle
<1>5. ASSUME NEW w \in Workers, NEW phase \in Phases, Goto(w, phase),
             phase \in Busy <=> worker[w].phase \in Busy,
             phase = "acking" => worker[w].current \in DOMAIN effects'
      PROVE  ProcessesOK'
  <2>1. OK([worker[w] EXCEPT !.phase = phase])
    BY <1>1, <1>2, <1>5, MoveIsOK DEF OK
  <2> QED  BY <1>3, <1>5, <2>1 DEF Goto
<1>6. ASSUME worker' = worker  PROVE ProcessesOK'
  BY <1>1, <1>6, ProcessesStayOK
<1>7. ASSUME NEW w \in Workers, WorkerStep(w)  PROVE ProcessesOK'
  <2>1. CASE BeginCycle(w)
    <3>1. clock' = clock /\ worker[w].phase \notin Busy  BY <2>1 DEF BeginCycle, Busy
    <3>2. OK([worker[w] EXCEPT !.phase = "fanning", !.now = clock'])
      BY <1>1, <1>2, <3>1, BeginIsOK DEF OK
    <3> QED  BY <1>3, <2>1, <3>1, <3>2 DEF BeginCycle
  <2>2. CASE FanOut(w)
    BY <1>4, <1>5, <2>2 DEF FanOut, Phases, Busy
  <2>3. CASE Claim(w)
    <3>1. PICK chosen : ClaimChooses(w, chosen)  BY <2>3, ClaimChoosesRows
    <3> DEFINE batch == [p \in chosen |-> Recovered(delivery[p], worker[w].now).attempts + 1]
    <3>2. \A p \in chosen : Recovered(delivery[p], worker[w].now).attempts \in Nat
      BY <3>1, ClaimIsOK DEF ClaimChooses
    <3>3. /\ DOMAIN batch \subseteq DOMAIN delivery'
          /\ \A d \in DOMAIN batch : batch[d] \in Nat
          /\ worker' = [worker EXCEPT ![w].phase = "looping", ![w].batch = batch]
      BY <3>1, <3>2 DEF ClaimChooses
    <3>4. worker[w].phase \notin Busy  BY <2>3 DEF Claim, Busy
    <3> HIDE DEF batch
    <3>5. OK([worker[w] EXCEPT !.phase = "looping", !.batch = batch])
      BY <1>1, <1>2, <3>3, <3>4, BatchIsOK DEF OK
    <3> QED  BY <1>3, <3>3, <3>5
  <2>4. CASE NextDelivery(w)
    <3>1. PICK p \in DOMAIN worker[w].batch, phase \in {"handling", "failing"} :
            worker' = [worker EXCEPT ![w].current = p, ![w].phase = phase]
      BY <2>4 DEF NextDelivery
    <3>2. NoRow \notin DOMAIN delivery'
      BY NextDeliveriesOK, <2>4 DEF NextDelivery, IInv, TablesOK, DeliveriesOK, Deliveries
    <3>3. OK([worker[w] EXCEPT !.current = p, !.phase = phase])
      BY <1>1, <1>2, <3>2, NextIsOK DEF OK
    <3> QED  BY <1>3, <3>1, <3>3
  <2>5. CASE LeaveLoop(w)  BY <1>4, <2>5 DEF LeaveLoop
  <2>6. CASE Handle(w) \/ HandlerFails(w)
    <3>1. worker[w].phase = "handling"  BY <2>6 DEF Handle, HandlerFails
    <3>2. Handle(w) => worker[w].current \in DOMAIN effects'
      BY DEF Handle, Apply, IInv, EffectsOK
    <3> QED  BY <1>4, <1>5, <2>6, <3>1, <3>2 DEF Handle, HandlerFails, Settle, Phases, Busy
  <2>7. CASE Succeed(w) \/ Fail(w)
    <3> DEFINE batch == [d \in DOMAIN worker[w].batch \ {worker[w].current} |->
                           worker[w].batch[d]]
    <3>1. worker' = [worker EXCEPT ![w].phase = "looping", ![w].current = NoRow,
                                   ![w].batch = batch]
      BY <2>7 DEF Succeed, Fail, Proceed
    <3>2. OK([worker[w] EXCEPT !.phase = "looping", !.current = NoRow, !.batch = batch])
      BY <1>1, <1>2, ProceedIsOK DEF OK
    <3> HIDE DEF batch
    <3> QED  BY <1>3, <3>1, <3>2
  <2>8. CASE SucceedRefused(w)
    BY <1>4, <1>5, <2>8 DEF SucceedRefused, Settle, Phases, Busy
  <2>9. CASE FailRefused(w)  BY <1>4, <2>9 DEF FailRefused
  <2>10. CASE Start(w) \/ Exit(w)
    <3>1. OK(Idle) /\ OK(Off)  BY <1>1, FreshIsOK DEF OK
    <3> QED  BY <1>3, <2>10, <3>1 DEF Start, Exit
  <2> QED  BY <1>7, <2>1, <2>2, <2>3, <2>4, <2>5, <2>6, <2>7, <2>8, <2>9, <2>10
           DEF WorkerStep
<1>8. ASSUME NEW w \in Workers, Crash(w)  PROVE ProcessesOK'
  <2>1. OK(Off)  BY <1>1, FreshIsOK DEF OK
  <2> QED  BY <1>3, <1>8, <2>1 DEF Crash
<1>9. ASSUME NEW w \in Workers, DatabaseError(w) \/ ReplyLost(w)  PROVE ProcessesOK'
  BY <1>4, <1>5, <1>9 DEF DatabaseError, ReplyLost, Settle, Phases, Busy
<1>10. ASSUME NEW w \in Workers, Stop(w) \/ DrainTimeout(w)  PROVE ProcessesOK'
  <2>1. /\ OK([worker[w] EXCEPT !.stopped = TRUE])
        /\ OK([worker[w] EXCEPT !.abandoned = TRUE])
    BY <1>1, <1>2, StopIsOK, AbandonIsOK DEF OK
  <2> QED  BY <1>3, <1>10, <2>1 DEF Stop, DrainTimeout
<1>11. (\E w \in Workers : \/ WorkerStep(w) \/ Crash(w) \/ DatabaseError(w) \/ ReplyLost(w)
                           \/ Stop(w) \/ DrainTimeout(w))
       \/ worker' = worker
  BY DEF Next, Emit, OperatorRetry, Tick, vars
<1> QED  BY <1>6, <1>7, <1>8, <1>9, <1>10, <1>11

-----------------------------------------------------------------------------
(* Claims *)

OwnClaim(w) ==
  \A p \in DOMAIN worker[w].batch :
    HoldsLease(w, p) => worker[w].batch[p] = delivery[p].attempts

\* Of what a process has claimed nothing is claimed anew, and of what changes
\* it loses the lease.
LEMMA ClaimIsKept ==
  ASSUME IInv, NEW w \in Workers, DOMAIN worker'[w].batch \subseteq DOMAIN worker[w].batch,
         \A p \in DOMAIN worker'[w].batch : worker'[w].batch[p] = worker[w].batch[p],
         DOMAIN delivery \subseteq DOMAIN delivery',
         \A p \in DOMAIN delivery :
            \/ delivery'[p] = delivery[p]
            \/ delivery'[p].status # "processing"
            \/ delivery'[p].lockedBy # w
  PROVE  OwnClaim(w)'
<1>1. DOMAIN worker[w].batch \subseteq DOMAIN delivery
  BY DEF IInv, ProcessesOK, ProcessOK
<1> QED  BY <1>1 DEF IInv, LeaseIsOwnClaim, OwnClaim, HoldsLease

LEMMA BatchShrinks ==
  ASSUME IInv, [Next]_vars, NEW w \in Workers, ~Claim(w)
  PROVE  /\ DOMAIN worker'[w].batch \subseteq DOMAIN worker[w].batch
         /\ \A p \in DOMAIN worker'[w].batch : worker'[w].batch[p] = worker[w].batch[p]
<1> DEFINE Step(v) == \/ WorkerStep(v) \/ Crash(v) \/ DatabaseError(v) \/ ReplyLost(v)
                      \/ Stop(v) \/ DrainTimeout(v)
           Smaller(q) == /\ DOMAIN q.batch \subseteq DOMAIN worker[w].batch
                         /\ \A p \in DOMAIN q.batch : q.batch[p] = worker[w].batch[p]
<1>1. DOMAIN worker = Workers  BY DEF IInv, ProcessesOK
<1>2. worker[w] = [phase |-> worker[w].phase, now |-> worker[w].now, batch |-> worker[w].batch,
                   current |-> worker[w].current, stopped |-> worker[w].stopped,
                   abandoned |-> worker[w].abandoned]
  BY DEF IInv, ProcessesOK, ProcessOK
<1>3. ASSUME NEW v \in Workers, v # w, Step(v)  PROVE worker'[w] = worker[w]
  BY <1>1, <1>3
     DEF WorkerStep, BeginCycle, FanOut, Claim, NextDelivery, LeaveLoop, Handle, HandlerFails,
         Settle, Goto, EndCycle, Proceed, Succeed, SucceedRefused, Fail, FailRefused, Start,
         Exit, Crash, DatabaseError, ReplyLost, Stop, DrainTimeout
<1>4. ASSUME NEW q, q.batch = worker[w].batch \/ q.batch = NoRows  PROVE Smaller(q)
  BY <1>4 DEF NoRows
<1> HIDE DEF Smaller
<1>5. CASE EndCycle(w) \/ Start(w) \/ Exit(w) \/ Crash(w)
  <2>1. \E stopped, abandoned :
          worker'[w] \in {[Idle EXCEPT !.stopped = stopped, !.abandoned = abandoned], Idle, Off}
    BY <1>1, <1>5 DEF EndCycle, Start, Exit, Crash
  <2>2. ASSUME NEW q, NEW stopped, NEW abandoned,
               \/ q = [Idle EXCEPT !.stopped = stopped, !.abandoned = abandoned]
               \/ q = Idle
               \/ q = Off
        PROVE  q.batch = NoRows
    <3>1. Idle = [phase |-> "idle", now |-> 0, batch |-> NoRows, current |-> NoRow,
                  stopped |-> FALSE, abandoned |-> FALSE]
      BY DEF Idle
    <3>2. q = [Idle EXCEPT !.stopped = stopped, !.abandoned = abandoned] => q.batch = NoRows
      BY <3>1
    <3>3. q = Off => q.batch = NoRows  BY <3>1 DEF Off
    <3> QED  BY <2>2, <3>1, <3>2, <3>3
  <2>3. worker'[w].batch = NoRows  BY <2>1, <2>2
  <2> QED  BY <1>4, <2>3 DEF Smaller
<1>6. ASSUME NEW phase, Goto(w, phase)  PROVE Smaller(worker'[w])
  <2>1. worker'[w] = [worker[w] EXCEPT !.phase = phase]  BY <1>1, <1>6 DEF Goto
  <2> QED  BY <1>2, <1>4, <2>1
<1>7. CASE BeginCycle(w) \/ NextDelivery(w) \/ Stop(w) \/ DrainTimeout(w)
  <2>1. CASE BeginCycle(w)
    <3>1. worker'[w] = [worker[w] EXCEPT !.phase = "fanning", !.now = clock]
      BY <1>1, <2>1 DEF BeginCycle
    <3> QED  BY <1>2, <1>4, <3>1 DEF Smaller
  <2>2. CASE NextDelivery(w)
    <3>1. PICK p \in DOMAIN worker[w].batch :
            worker' = [worker EXCEPT ![w].current = p,
              ![w].phase = IF p[2] \in Registered[w] THEN "handling" ELSE "failing"]
      BY <2>2 DEF NextDelivery
    <3>2. worker'[w].batch = worker[w].batch  BY <1>1, <1>2, <3>1
    <3> QED  BY <1>4, <3>2 DEF Smaller
  <2>3. CASE Stop(w)
    <3>1. worker'[w] = [worker[w] EXCEPT !.stopped = TRUE]  BY <1>1, <2>3 DEF Stop
    <3> QED  BY <1>2, <1>4, <3>1 DEF Smaller
  <2>4. CASE DrainTimeout(w)
    <3>1. worker'[w] = [worker[w] EXCEPT !.abandoned = TRUE]  BY <1>1, <2>4 DEF DrainTimeout
    <3> QED  BY <1>2, <1>4, <3>1 DEF Smaller
  <2> QED  BY <1>7, <2>1, <2>2, <2>3, <2>4
<1>8. CASE Proceed(w)
  <2>1. worker'[w].batch = [p \in DOMAIN worker[w].batch \ {worker[w].current} |->
                              worker[w].batch[p]]
    BY <1>1, <1>2, <1>8 DEF Proceed
  <2> QED  BY <2>1 DEF Smaller
<1>9. CASE Step(w)
  BY <1>5, <1>6, <1>7, <1>8, <1>9
     DEF WorkerStep, FanOut, LeaveLoop, Handle, HandlerFails, Settle, Succeed, SucceedRefused,
         Fail, FailRefused, DatabaseError, ReplyLost, Smaller
<1>10. (\E v \in Workers : Step(v)) \/ worker' = worker
  BY DEF Next, Emit, OperatorRetry, Tick, vars
<1> HIDE DEF Step
<1> QED  BY <1>3, <1>4, <1>9, <1>10 DEF Smaller

(* What becomes of a row in one step: its holder reports on it, an operator *)
(* retries it, or a claim recovers it, leases it, or both.                  *)
ReportedBy(w, p) ==
  /\ worker[w].phase \in {"acking", "failing"} /\ worker[w].current = p
  /\ HoldsLease(w, p)
  /\ delivery'[p].status \in {"succeeded", "dead", "pending"}

Retried(p) ==
  /\ delivery[p].status \in {"dead", "pending"} /\ delivery'[p].status = "pending"

ClaimedBy(w, p) ==
  /\ Claim(w)
  /\ \/ delivery[p].status = "pending"
     \/ delivery[p].status = "processing" /\ delivery[p].lockedUntil <= worker[w].now
  /\ \/ delivery'[p].status = "processing" /\ delivery'[p].lockedBy = w
     \/ delivery[p].status = "processing" /\ delivery'[p].status \in {"pending", "dead"}

LEMMA RowChanges ==
  ASSUME IInv, [Next]_vars, NEW p \in DOMAIN delivery
  PROVE  \/ delivery'[p] = delivery[p]
         \/ Retried(p)
         \/ \E w \in Workers : ReportedBy(w, p) \/ ClaimedBy(w, p)
<1> DEFINE Changes == \/ delivery'[p] = delivery[p]
                      \/ Retried(p)
                      \/ \E w \in Workers : ReportedBy(w, p) \/ ClaimedBy(w, p)
<1>1. RowOK(delivery[p])  BY DEF IInv, DeliveriesOK
<1>2. ASSUME NEW w \in Workers, Claim(w)  PROVE Changes
  <2>1. PICK chosen : ClaimChooses(w, chosen)  BY <1>2, ClaimChoosesRows
  <2> DEFINE row == Recovered(delivery[p], worker[w].now)
  <2>2. /\ p \in chosen => /\ row.status = "pending"
                           /\ delivery'[p].status = "processing"
                           /\ delivery'[p].lockedBy = w
        /\ p \notin chosen => delivery'[p] = row
        /\ row = delivery[p] \/ /\ delivery[p].status = "processing"
                                /\ delivery[p].lockedUntil <= worker[w].now
                                /\ row.status \in {"pending", "dead"}
    BY <2>1, ClaimIsOK
  <2> HIDE DEF row
  <2> QED  BY <1>2, <2>2 DEF ClaimedBy
<1>3. ASSUME NEW w \in Workers, NEW q \in DOMAIN delivery, worker[w].current = q,
             worker[w].phase \in {"acking", "failing"}, HoldsLease(w, q),
             NEW r, delivery' = [delivery EXCEPT ![q] = r],
             r.status \in {"succeeded", "dead", "pending"}
      PROVE  Changes
  BY <1>3 DEF ReportedBy
<1>4. ASSUME NEW w \in Workers, Succeed(w) \/ ReplyLost(w)  PROVE Changes
  <2> DEFINE q == worker[w].current
             r == [delivery[q] EXCEPT !.status = "succeeded", !.lockedBy = NoRow,
                                      !.lockedUntil = NoTime, !.completedAt = clock]
  <2>1. q \in DOMAIN delivery /\ delivery[q] \in Rows
    BY <1>4 DEF Succeed, ReplyLost, HoldsLease, IInv, DeliveriesOK, RowOK
  <2>2. r.status = "succeeded"  BY <2>1 DEF Rows
  <2>3. delivery' = [delivery EXCEPT ![q] = r]
    BY <1>4, <2>1 DEF Succeed, ReplyLost, Succeeded
  <2> HIDE DEF r
  <2> QED  BY <1>3, <1>4, <2>1, <2>2, <2>3 DEF Succeed, ReplyLost
<1>5. ASSUME NEW w \in Workers, Fail(w)  PROVE Changes
  <2> DEFINE q == worker[w].current
             dead == worker[w].batch[q] >= AttemptLimit[w]
             r == [delivery[q] EXCEPT !.status = IF dead THEN "dead" ELSE "pending",
                     !.lockedBy = NoRow, !.lockedUntil = NoTime,
                     !.availableAt = clock + RetryDelay(worker[w].batch[q]),
                     !.completedAt = IF dead THEN clock ELSE NoTime]
  <2>1. q \in DOMAIN delivery /\ delivery[q] \in Rows
    BY <1>5 DEF Fail, HoldsLease, IInv, DeliveriesOK, RowOK
  <2>2. r.status \in {"dead", "pending"}  BY <2>1 DEF Rows
  <2>3. delivery' = [delivery EXCEPT ![q] = r]  BY <1>5, <2>1 DEF Fail
  <2>4. worker[w].phase \in {"acking", "failing"} /\ HoldsLease(w, q)  BY <1>5 DEF Fail
  <2> HIDE DEF r, q, Changes
  <2> QED  BY <1>3, <2>1, <2>2, <2>3, <2>4 DEF q
<1>6. ASSUME NEW q \in DOMAIN delivery, OperatorRetry(q)  PROVE Changes
  <2> DEFINE r == [delivery[q] EXCEPT !.status = "pending", !.attempts = 0,
                     !.availableAt = clock, !.lockedBy = NoRow, !.lockedUntil = NoTime,
                     !.completedAt = NoTime]
  <2>1. delivery[q] \in Rows  BY DEF IInv, DeliveriesOK, RowOK
  <2>2. r.status = "pending"  BY <2>1 DEF Rows
  <2>3. delivery' = [delivery EXCEPT ![q] = r] /\ delivery[q].status \in {"dead", "pending"}
    BY <1>6 DEF OperatorRetry
  <2> HIDE DEF r
  <2> QED  BY <2>2, <2>3 DEF Retried
<1>7. ASSUME NEW w \in Workers, FanOut(w)  PROVE Changes
  BY <1>7 DEF FanOut
<1>8. \/ delivery' = delivery
      \/ \E w \in Workers : \/ Claim(w) \/ Succeed(w) \/ ReplyLost(w) \/ Fail(w) \/ FanOut(w)
      \/ \E q \in DOMAIN delivery : OperatorRetry(q)
  BY DEF Next, WorkerStep, Emit, BeginCycle, NextDelivery, LeaveLoop, Handle, HandlerFails,
         SucceedRefused, FailRefused, Start, Exit, Crash, DatabaseError, Stop, DrainTimeout,
         Tick, tables, vars
<1> QED  BY <1>2, <1>4, <1>5, <1>6, <1>7, <1>8

LEMMA NextLeaseIsOwnClaim ==
  ASSUME IInv, [Next]_vars
  PROVE  LeaseIsOwnClaim'
<1>1. ASSUME NEW w \in Workers, Claim(w)  PROVE OwnClaim(w)'
  <2>1. PICK chosen : ClaimChooses(w, chosen)  BY <1>1, ClaimChoosesRows
  <2> DEFINE batch == [p \in chosen |-> Recovered(delivery[p], worker[w].now).attempts + 1]
  <2>2. worker'[w].batch = batch
    <3> HIDE DEF batch
    <3>1. worker' = [worker EXCEPT ![w].phase = "looping", ![w].batch = batch]
      BY <2>1 DEF ClaimChooses, batch
    <3>2. DOMAIN worker = Workers
          /\ worker[w] = [phase |-> worker[w].phase, now |-> worker[w].now,
               batch |-> worker[w].batch, current |-> worker[w].current,
               stopped |-> worker[w].stopped, abandoned |-> worker[w].abandoned]
      BY DEF IInv, ProcessesOK, ProcessOK
    <3> QED  BY <3>1, <3>2
  <2>3. ASSUME NEW p \in chosen  PROVE delivery'[p].attempts = batch[p]
    <3>1. p \in DOMAIN delivery  BY <2>1 DEF ClaimChooses
    <3> QED  BY <2>1, <3>1, ClaimIsOK
  <2>4. DOMAIN batch = chosen  OBVIOUS
  <2> HIDE DEF batch
  <2>5. \A p \in DOMAIN worker'[w].batch : worker'[w].batch[p] = delivery'[p].attempts
    BY <2>2, <2>3, <2>4
  <2> QED  BY <2>5 DEF OwnClaim
<1>2. ASSUME NEW w \in Workers, ~Claim(w)  PROVE OwnClaim(w)'
  <2>1. ASSUME NEW p \in DOMAIN delivery
        PROVE  \/ delivery'[p] = delivery[p]
               \/ delivery'[p].status # "processing"
               \/ delivery'[p].lockedBy # w
    BY <1>2, RowChanges DEF Retried, ReportedBy, ClaimedBy
  <2> QED  BY <1>2, <2>1, BatchShrinks, NextDeliveriesOK, ClaimIsKept
<1> QED  BY <1>1, <1>2 DEF LeaseIsOwnClaim, OwnClaim

-----------------------------------------------------------------------------
(* The search index *)

HandledOf(d) == {p[1] : p \in {q \in receipts : q[1].document = d}}

\* Row v is what the events of h leave of a document, in whatever order.
ShowsLatest(h, v) ==
  (\A e \in h : e.topic \notin Removals) =>
    \/ h = {} /\ v = NoRow
    \/ (\E e \in h : e.version = v) /\ (\A e \in h : e.version <= v)

Accounted(h, v) ==
  LET removals == {e \in h : e.topic \in Removals}
  IN  IF v = NoRow THEN h # {} => removals # {}
      ELSE \E e \in h \ removals : e.version = v

LEMMA IndexByDocument ==
  IndexShowsLatest /\ IndexAccounted <=>
    \A d \in Documents : ShowsLatest(HandledOf(d), index[d]) /\ Accounted(HandledOf(d), index[d])
  BY DEF IndexShowsLatest, IndexAccounted, ShowsLatest, Accounted, HandledOf

\* Projecting one more event, early or late, keeps the row what the events
\* handled make it.
LEMMA ProjectedIsRight ==
  ASSUME NEW h \in SUBSET Events, NEW v \in 1..MaxVersion \cup {NoRow}, NEW e \in Events,
         ShowsLatest(h, v), Accounted(h, v)
  PROVE  /\ Projected(v, e) \in 1..MaxVersion \cup {NoRow}
         /\ ShowsLatest(h \cup {e}, Projected(v, e))
         /\ Accounted(h \cup {e}, Projected(v, e))
<1>1. /\ e.version \in 1..MaxVersion /\ \A f \in h : f.version \in 1..MaxVersion
      /\ NoRow \notin 1..MaxVersion
  BY DEF Events
<1>2. CASE e.topic \in Removals
  BY <1>2 DEF Projected, ShowsLatest, Accounted
<1>3. CASE e.topic \notin Removals /\ (v = NoRow \/ v <= e.version)
  <2>1. Projected(v, e) = e.version  BY <1>3 DEF Projected
  <2>2. Accounted(h \cup {e}, e.version)  BY <1>1, <1>3 DEF Accounted
  <2>3. ShowsLatest(h \cup {e}, e.version)
    <3>1. SUFFICES ASSUME \A f \in h : f.topic \notin Removals
                   PROVE  \A f \in h : f.version <= e.version
      BY <1>1 DEF ShowsLatest
    <3>2. CASE v = NoRow  BY <1>1, <3>1, <3>2 DEF ShowsLatest
    <3>3. CASE v # NoRow  BY <1>1, <1>3, <3>1, <3>3 DEF ShowsLatest
    <3> QED  BY <3>2, <3>3
  <2> QED  BY <1>1, <2>1, <2>2, <2>3
<1>4. CASE e.topic \notin Removals /\ v # NoRow /\ ~(v <= e.version)
  <2>1. Projected(v, e) = v  BY <1>4 DEF Projected
  <2>2. Accounted(h \cup {e}, v)  BY <1>4 DEF Accounted
  <2>3. ShowsLatest(h \cup {e}, v)  BY <1>1, <1>4 DEF ShowsLatest
  <2> QED  BY <2>1, <2>2, <2>3
<1> QED  BY <1>2, <1>3, <1>4

LEMMA ApplyIsOK ==
  ASSUME IInv, NEW p \in DOMAIN delivery, Apply(p), DOMAIN delivery \subseteq DOMAIN delivery'
  PROVE  EffectsOK'
<1>1. p \in Deliveries /\ p[1] \in Events /\ p = <<p[1], p[2]>>
  BY DEF IInv, DeliveriesOK, TablesOK, Deliveries
<1>2. CASE p[2] = SearchHandler /\ p \in receipts
  BY <1>2 DEF Apply, IInv, EffectsOK, IndexFollowsEvents, ProjectedOnce, IndexShowsLatest,
              IndexAccounted
<1>3. CASE p[2] # SearchHandler
  <2>1. /\ receipts' = receipts /\ index' = index
        /\ DOMAIN effects' = DOMAIN effects \cup {p}
        /\ \A q \in DOMAIN effects : q # p => effects'[q] = effects[q]
        /\ effects'[p] \in {1, 2}
    BY <1>3 DEF Apply
  <2> QED  BY <1>1, <1>3, <2>1 DEF IInv, EffectsOK, IndexFollowsEvents, ProjectedOnce,
                                   IndexShowsLatest, IndexAccounted
<1>4. CASE p[2] = SearchHandler /\ p \notin receipts
  <2>1. p \notin DOMAIN effects  BY <1>4 DEF IInv, EffectsOK
  <2>2. /\ receipts' = receipts \cup {p}
        /\ index' = [index EXCEPT ![p[1].document] = Projected(@, p[1])]
        /\ DOMAIN effects' = DOMAIN effects \cup {p}
        /\ \A q \in DOMAIN effects : effects'[q] = effects[q]
        /\ effects'[p] = 1
    BY <1>4, <2>1 DEF Apply
  <2>3. ASSUME NEW d \in Documents
        PROVE  /\ index'[d] \in 1..MaxVersion \cup {NoRow}
               /\ ShowsLatest(HandledOf(d)', index'[d]) /\ Accounted(HandledOf(d)', index'[d])
    <3>1. /\ ShowsLatest(HandledOf(d), index[d]) /\ Accounted(HandledOf(d), index[d])
          /\ index[d] \in 1..MaxVersion \cup {NoRow} /\ HandledOf(d) \in SUBSET Events
      <4>1. receipts \subseteq Deliveries
        BY DEF IInv, EffectsOK, DeliveriesOK, TablesOK, Deliveries
      <4> QED  BY <4>1, IndexByDocument DEF IInv, EffectsOK, IndexFollowsEvents, HandledOf,
                                            Deliveries
    <3>2. CASE d = p[1].document
      <4>1. HandledOf(d)' = HandledOf(d) \cup {p[1]}  BY <2>2, <3>2 DEF HandledOf
      <4>2. index'[d] = Projected(index[d], p[1])
        BY <2>2, <3>2 DEF IInv, EffectsOK
      <4>3. ASSUME NEW h, h = HandledOf(d), NEW v, v = index[d], NEW e, e = p[1]
            PROVE  /\ Projected(v, e) \in 1..MaxVersion \cup {NoRow}
                   /\ ShowsLatest(h \cup {e}, Projected(v, e))
                   /\ Accounted(h \cup {e}, Projected(v, e))
        <5>1. /\ h \in SUBSET Events /\ v \in 1..MaxVersion \cup {NoRow} /\ e \in Events
              /\ ShowsLatest(h, v) /\ Accounted(h, v)
          BY <1>1, <3>1, <4>3
        <5> QED  BY <5>1, ProjectedIsRight
      <4> QED  BY <4>1, <4>2, <4>3
    <3>3. CASE d # p[1].document
      <4>1. HandledOf(d)' = HandledOf(d)  BY <2>2, <3>3 DEF HandledOf
      <4>2. index'[d] = index[d]  BY <2>2, <3>3 DEF IInv, EffectsOK
      <4> QED  BY <3>1, <4>1, <4>2
    <3> QED  BY <3>2, <3>3
  <2>4. IndexShowsLatest' /\ IndexAccounted'
    BY <2>3, IndexByDocument DEF IndexShowsLatest, IndexAccounted, ShowsLatest, Accounted,
                                 HandledOf
  <2>5. index' \in [Documents -> 1..MaxVersion \cup {NoRow}]
    BY <2>2, <2>3 DEF IInv, EffectsOK
  <2>6. ProjectedOnce'
    BY <2>2 DEF ProjectedOnce, IInv, EffectsOK, IndexFollowsEvents
  <2>7. /\ receipts' \subseteq DOMAIN delivery' /\ DOMAIN effects' \subseteq Deliveries
        /\ receipts' = {q \in DOMAIN effects' : q[2] = SearchHandler}
        /\ \A q \in DOMAIN effects' : effects'[q] \in {1, 2}
    BY <1>1, <1>4, <2>2 DEF IInv, EffectsOK
  <2> QED  BY <2>4, <2>5, <2>6, <2>7 DEF EffectsOK, IndexFollowsEvents
<1> QED  BY <1>2, <1>3, <1>4

LEMMA NextEffectsOK ==
  ASSUME IInv, [Next]_vars
  PROVE  EffectsOK'
<1>1. DOMAIN delivery \subseteq DOMAIN delivery'  BY NextDeliveriesOK
<1>2. ASSUME UNCHANGED <<receipts, index, effects>>  PROVE EffectsOK'
  BY <1>1, <1>2 DEF IInv, EffectsOK, IndexFollowsEvents, ProjectedOnce, IndexShowsLatest,
                    IndexAccounted
<1>3. ASSUME NEW w \in Workers, Handle(w) \/ HandlerFails(w)  PROVE EffectsOK'
  <2>1. worker[w].current \in DOMAIN delivery
    BY <1>3 DEF Handle, HandlerFails, IInv, ProcessesOK, ProcessOK
  <2> QED  BY <1>1, <1>2, <1>3, <2>1, ApplyIsOK DEF Handle, HandlerFails
<1>4. \/ \E w \in Workers : Handle(w) \/ HandlerFails(w)
      \/ UNCHANGED <<receipts, index, effects>>
  BY DEF Next, WorkerStep, Emit, BeginCycle, FanOut, Claim, NextDelivery, LeaveLoop, Succeed,
         SucceedRefused, Fail, FailRefused, Start, Exit, Crash, DatabaseError, ReplyLost,
         Stop, DrainTimeout, OperatorRetry, Tick, tables, vars
<1> QED  BY <1>2, <1>3, <1>4

-----------------------------------------------------------------------------
(* The tables of events, and the invariant *)

LEMMA NextTablesOK ==
  ASSUME IInv, [Next]_vars
  PROVE  TablesOK'
<1>1. clock' \in Nat  BY ClockRuns
<1>2. ASSUME NEW d \in Documents, Emit(d)  PROVE TablesOK'
  <2>1. PICK e \in Events :
          /\ outbox' = outbox \cup {e}
          /\ document' = [document EXCEPT ![d] =
               [version |-> e.version,
                state |-> CASE e.topic = "document.deleted" -> "deleted"
                            [] e.topic = "document.purged" -> "purged"
                            [] OTHER -> "live"]]
          /\ dispatched' = dispatched /\ faults' = faults /\ retries' = retries
    BY <1>2 DEF Emit
  <2>2. e.version \in 0..MaxVersion  BY DEF Events
  <2> DEFINE state == CASE e.topic = "document.deleted" -> "deleted"
                        [] e.topic = "document.purged" -> "purged"
                        [] OTHER -> "live"
  <2>3. state \in {"none", "live", "deleted", "purged"}
    BY DEF Events
  <2> HIDE DEF state
  <2>4. document' \in [Documents -> [version : 0..MaxVersion,
                                     state : {"none", "live", "deleted", "purged"}]]
    BY <2>1, <2>2, <2>3 DEF IInv, TablesOK, state
  <2> QED  BY <1>1, <2>1, <2>4 DEF IInv, TablesOK
<1>3. ASSUME ~ \E d \in Documents : Emit(d)
      PROVE  outbox' = outbox /\ document' = document
  BY <1>3 DEF Next, WorkerStep, BeginCycle, FanOut, Claim, NextDelivery, LeaveLoop, Handle,
         HandlerFails, Succeed, SucceedRefused, Fail, FailRefused, Start, Exit, Crash,
         DatabaseError, ReplyLost, Stop, DrainTimeout, OperatorRetry, Tick, tables, vars
<1>4. dispatched' = dispatched \/ \E w \in Workers : FanOut(w)
  BY DEF Next, WorkerStep, Emit, BeginCycle, Claim, NextDelivery, LeaveLoop, Handle,
         HandlerFails, Succeed, SucceedRefused, Fail, FailRefused, Start, Exit, Crash,
         DatabaseError, ReplyLost, Stop, DrainTimeout, OperatorRetry, Tick, tables, vars
<1>5. faults' = faults \/ Fault
  BY DEF Next, WorkerStep, Emit, BeginCycle, FanOut, Claim, NextDelivery, LeaveLoop, Handle,
         HandlerFails, Succeed, SucceedRefused, Fail, FailRefused, Start, Exit, Crash,
         DatabaseError, ReplyLost, Stop, DrainTimeout, OperatorRetry, Tick, vars
<1>6. retries' = retries \/ (retries < MaxRetries /\ retries' = retries + 1)
  <2>1. (\E p \in DOMAIN delivery : OperatorRetry(p)) \/ retries' = retries
    BY DEF Next, WorkerStep, Emit, BeginCycle, FanOut, Claim, NextDelivery, LeaveLoop, Handle,
           HandlerFails, Succeed, SucceedRefused, Fail, FailRefused, Start, Exit, Crash,
           DatabaseError, ReplyLost, Stop, DrainTimeout, Tick, vars
  <2>2. ASSUME NEW p, OperatorRetry(p)  PROVE retries < MaxRetries /\ retries' = retries + 1
    BY <2>2 DEF OperatorRetry
  <2> QED  BY <2>1, <2>2
<1>7. (\E w \in Workers : FanOut(w)) => dispatched' \subseteq outbox
  BY DEF FanOut, IInv, TablesOK
<1>8. Fault => faults' \in 0..MaxFaults
  BY DEF Fault, IInv, TablesOK
<1>9. retries < MaxRetries /\ retries' = retries + 1 => retries' \in 0..MaxRetries
  BY DEF IInv, TablesOK
<1> QED  BY <1>1, <1>2, <1>3, <1>4, <1>5, <1>6, <1>7, <1>8, <1>9 DEF IInv, TablesOK

LEMMA InitIInv == Init => IInv
<1> SUFFICES ASSUME Init PROVE IInv
  OBVIOUS
<1>1. TablesOK
  <2>1. [version |-> 0, state |-> "none"] \in
          [version : 0..MaxVersion, state : {"none", "live", "deleted", "purged"}]
    OBVIOUS
  <2> QED  BY <2>1 DEF Init, TablesOK
<1>2. DeliveriesOK  BY DEF Init, DeliveriesOK, NoRows
<1>3. ProcessesOK
  <2>1. /\ DOMAIN worker = Workers /\ \A w \in Workers : worker[w] = Off
        /\ clock \in Nat
    BY DEF Init
  <2>2. ProcessOK(Off, DOMAIN delivery, DOMAIN effects, clock)
    <3>1. TRUE \in BOOLEAN  OBVIOUS
    <3> QED  BY <2>1, <3>1, FreshIsOK
  <2> QED  BY <2>1, <2>2 DEF ProcessesOK
<1>4. LeaseIsOwnClaim
  BY DEF Init, LeaseIsOwnClaim, HoldsLease, NoRows
<1>5. EffectsOK
  BY DEF Init, EffectsOK, NoRows, IndexFollowsEvents, ProjectedOnce, IndexShowsLatest,
         IndexAccounted
<1> QED  BY <1>1, <1>2, <1>3, <1>4, <1>5 DEF IInv

LEMMA NextIInv == IInv /\ [Next]_vars => IInv'
  BY NextTablesOK, NextDeliveriesOK, NextProcessesOK, NextLeaseIsOwnClaim, NextEffectsOK
     DEF IInv

\* The inductive invariant holds of every reachable state.
THEOREM Invariance == Spec => []IInv
  BY InitIInv, NextIInv, PTL DEF Spec

\* Leases and attempts add up: postgres-event-worker.ts claims, succeeds, fails
\* and recovers rows, in whatever order processes crash and come back.
THEOREM LeasesStayAccounted == Spec => []LeasesAreAccounted
<1>1. IInv => LeasesAreAccounted
  <2> SUFFICES ASSUME IInv PROVE LeasesAreAccounted
    OBVIOUS
  <2>1. TypeOK
    <3>1. \A w \in Workers : Process(worker[w])
      BY DEF IInv, ProcessesOK, ProcessOK, Process
    <3> QED  BY <3>1 DEF IInv, TablesOK, DeliveriesOK, EffectsOK, RowOK, TypeOK
  <2>2. AttemptsAccounted  BY DEF IInv, DeliveriesOK, RowOK, AttemptsAccounted
  <2> QED  BY <2>1, <2>2 DEF IInv, LeasesAreAccounted
<1> QED  BY <1>1, Invariance, PTL

\* The search index is what the handled events make it, each of them once.
THEOREM IndexStaysRight == Spec => []IndexFollowsEvents
<1>1. IInv => IndexFollowsEvents  BY DEF IInv, EffectsOK
<1> QED  BY <1>1, Invariance, PTL

-----------------------------------------------------------------------------
(* Processes yield *)

LEMMA LeaseIsKept ==
  ASSUME IInv, [Next]_vars, NEW p \in DOMAIN delivery, delivery[p].status = "processing",
         delivery[p].lockedUntil > clock
  PROVE  \/ delivery'[p] = delivery[p]
         \/ /\ worker[delivery[p].lockedBy].phase \in {"acking", "failing"}
            /\ worker[delivery[p].lockedBy].current = p
<1>1. ~Retried(p)  BY DEF Retried
<1>2. ASSUME NEW w \in Workers  PROVE ~ClaimedBy(w, p)
  <2>1. worker[w].now <= clock /\ worker[w].now \in Nat /\ clock \in Nat
    BY DEF IInv, TablesOK, ProcessesOK, ProcessOK
  <2>2. delivery[p].lockedUntil \in Nat
    BY DEF IInv, DeliveriesOK, RowOK, Rows
  <2> QED  BY <2>1, <2>2 DEF ClaimedBy
<1>3. ASSUME NEW w \in Workers, ReportedBy(w, p)
      PROVE  /\ worker[delivery[p].lockedBy].phase \in {"acking", "failing"}
             /\ worker[delivery[p].lockedBy].current = p
  BY <1>3 DEF ReportedBy, HoldsLease
<1> QED  BY <1>1, <1>2, <1>3, RowChanges

LEMMA StoppedIsQuiet ==
  ASSUME IInv, [Next]_vars, NEW w \in Workers, worker[w].stopped
  PROVE  /\ worker[w].phase # "handling" => worker'[w].phase # "handling"
         /\ worker[w].abandoned /\ worker[w].phase = "handling" =>
              worker'[w].phase \notin {"acking", "failing"}
<1> DEFINE Own == \/ WorkerStep(w) \/ Crash(w) \/ DatabaseError(w) \/ ReplyLost(w)
                  \/ Stop(w) \/ DrainTimeout(w)
           Quiet(phase) ==
             /\ worker[w].phase # "handling" => phase # "handling"
             /\ worker[w].abandoned /\ worker[w].phase = "handling" =>
                  phase \notin {"acking", "failing"}
<1>1. DOMAIN worker = Workers  BY DEF IInv, ProcessesOK
<1>2. worker[w] = [phase |-> worker[w].phase, now |-> worker[w].now, batch |-> worker[w].batch,
                   current |-> worker[w].current, stopped |-> worker[w].stopped,
                   abandoned |-> worker[w].abandoned]
  BY DEF IInv, ProcessesOK, ProcessOK
<1>3. Quiet("idle") /\ Quiet("off") /\ Quiet("looping") /\ Quiet("claiming")
      /\ Quiet("fanning") /\ Quiet(worker[w].phase)
  OBVIOUS
<1>4. Idle.phase = "idle" /\ Off.phase = "off"
  BY DEF Idle, Off
<1>5. ASSUME EndCycle(w)  PROVE worker'[w].phase = "idle"
  <2>1. worker'[w] = [Idle EXCEPT !.stopped = worker[w].stopped,
                                  !.abandoned = worker[w].abandoned]
    BY <1>1, <1>5 DEF EndCycle
  <2> QED  BY <2>1 DEF Idle
<1>6. ASSUME NEW phase, Goto(w, phase)  PROVE worker'[w].phase = phase
  <2>1. worker'[w] = [worker[w] EXCEPT !.phase = phase]  BY <1>1, <1>6 DEF Goto
  <2> QED  BY <1>2, <2>1
<1>7. CASE BeginCycle(w) \/ NextDelivery(w) \/ Start(w) \/ Exit(w) \/ Crash(w)
  <2>1. CASE BeginCycle(w)  BY <2>1 DEF BeginCycle
  <2>2. CASE NextDelivery(w)  BY <2>2 DEF NextDelivery
  <2>3. CASE Start(w) \/ Exit(w) \/ Crash(w)
    <3>1. worker'[w] = Idle \/ worker'[w] = Off
      BY <1>1, <2>3 DEF Start, Exit, Crash
    <3> QED  BY <1>3, <1>4, <3>1
  <2> QED  BY <1>7, <2>1, <2>2, <2>3
<1>8. CASE Stop(w) \/ DrainTimeout(w)
  <2>1. worker'[w] = [worker[w] EXCEPT !.stopped = TRUE]
        \/ worker'[w] = [worker[w] EXCEPT !.abandoned = TRUE]
    BY <1>1, <1>8 DEF Stop, DrainTimeout
  <2>2. worker'[w].phase = worker[w].phase  BY <1>2, <2>1
  <2> QED  BY <1>3, <2>2
<1>9. CASE Proceed(w)
  <2>1. worker'[w] = [worker[w] EXCEPT !.phase = "looping", !.current = NoRow,
                        !.batch = [p \in DOMAIN @ \ {worker[w].current} |-> @[p]]]
    BY <1>1, <1>9 DEF Proceed
  <2>2. worker'[w].phase = "looping"  BY <1>2, <2>1
  <2> QED  BY <1>3, <2>2
<1>10. CASE Claim(w)
  <2>1. PICK chosen : ClaimChooses(w, chosen)  BY <1>10, ClaimChoosesRows
  <2>2. worker'[w] = [worker[w] EXCEPT !.phase = "looping",
          !.batch = [p \in chosen |-> Recovered(delivery[p], worker[w].now).attempts + 1]]
    BY <1>1, <2>1 DEF ClaimChooses
  <2>3. worker'[w].phase = "looping"  BY <1>2, <2>2
  <2> QED  BY <1>3, <2>3
<1>11. CASE Handle(w) \/ HandlerFails(w)
  BY <1>3, <1>5, <1>6, <1>11 DEF Handle, HandlerFails, Settle
<1>12. CASE SucceedRefused(w) \/ FailRefused(w) \/ DatabaseError(w) \/ ReplyLost(w)
            \/ FanOut(w) \/ LeaveLoop(w)
  BY <1>3, <1>5, <1>6, <1>12
     DEF SucceedRefused, FailRefused, DatabaseError, ReplyLost, FanOut, LeaveLoop, Settle
<1>13. CASE Own
  BY <1>7, <1>8, <1>9, <1>10, <1>11, <1>12, <1>13 DEF WorkerStep, Succeed, Fail
<1>14. Own \/ worker'[w] = worker[w]
  <2>1. ASSUME NEW v \in Workers, v # w,
               \/ WorkerStep(v) \/ Crash(v) \/ DatabaseError(v) \/ ReplyLost(v)
               \/ Stop(v) \/ DrainTimeout(v)
        PROVE  worker'[w] = worker[w]
    BY <1>1, <2>1
       DEF WorkerStep, BeginCycle, FanOut, Claim, NextDelivery, LeaveLoop, Handle, HandlerFails,
           Settle, Goto, EndCycle, Proceed, Succeed, SucceedRefused, Fail, FailRefused, Start,
           Exit, Crash, DatabaseError, ReplyLost, Stop, DrainTimeout
  <2>2. \/ \E v \in Workers : \/ WorkerStep(v) \/ Crash(v) \/ DatabaseError(v) \/ ReplyLost(v)
                              \/ Stop(v) \/ DrainTimeout(v)
        \/ worker' = worker
    BY DEF Next, Emit, OperatorRetry, Tick, vars
  <2> QED  BY <2>1, <2>2
<1> HIDE DEF Own
<1> QED  BY <1>3, <1>13, <1>14

\* A live lease is left alone by everybody but its holder, and a stopped process
\* begins nothing and, once abandoned, reports nothing.
THEOREM ProcessesYield == Spec => WorkersYield
<1>1. IInv /\ [Next]_vars =>
        [\A p \in DOMAIN delivery :
           LET row == delivery[p] IN
           row.status = "processing" /\ row.lockedUntil > clock =>
             \/ delivery'[p] = row
             \/ /\ worker[row.lockedBy].phase \in {"acking", "failing"}
                /\ worker[row.lockedBy].current = p]_vars
  BY LeaseIsKept
<1>2. IInv /\ [Next]_vars =>
        [\A w \in Workers : worker[w].stopped =>
           /\ worker[w].phase # "handling" => worker'[w].phase # "handling"
           /\ worker[w].abandoned /\ worker[w].phase = "handling" =>
                worker'[w].phase \notin {"acking", "failing"}]_vars
  BY StoppedIsQuiet
<1> QED  BY <1>1, <1>2, Invariance, PTL DEF Spec, WorkersYield, LiveLeaseIsKept, ShutdownIsQuiet

-----------------------------------------------------------------------------
(* Every step is one of the outbox's promise (module Delivery) *)

LEMMA OffersAreDeliveries == IInv => DOMAIN delivery \subseteq Deliveries
  BY DEF IInv, TablesOK, DeliveriesOK, Deliveries

\* A step in which every outcome stays or goes from one to the other.
LEMMA OutcomesMove ==
  ASSUME IInv, IInv', NEW from, NEW to, effects' = effects,
         \A p \in Deliveries :
            \/ Outcome(p)' = Outcome(p)
            \/ Outcome(p) = from /\ Outcome(p)' = to
  PROVE  Promise!Move(from, to)
<1>1. \A p \in DOMAIN delivery' : delivery'[p].status \in Statuses
  BY DEF IInv, DeliveriesOK, RowOK, Rows
<1>2. \A p : Outcome(p)' \in Promise!Outcomes
  BY <1>1 DEF Outcome, Statuses, Promise!Outcomes
<1> QED  BY <1>2 DEF Promise!Move

\* The outcome of one delivery in terms of its row.
LEMMA OutcomeOfRow ==
  ASSUME NEW p
  PROVE  /\ p \notin DOMAIN delivery => Outcome(p) = "none"
         /\ p \in DOMAIN delivery => Outcome(p) =
              IF delivery[p].status \in {"pending", "processing"} THEN "open"
              ELSE delivery[p].status
         /\ p \notin DOMAIN delivery' => Outcome(p)' = "none"
         /\ p \in DOMAIN delivery' => Outcome(p)' =
              IF delivery'[p].status \in {"pending", "processing"} THEN "open"
              ELSE delivery'[p].status
  BY DEF Outcome

LEMMA OffersAsPromised ==
  ASSUME IInv, IInv', NEW w \in Workers, FanOut(w)
  PROVE  Promise!Offer
<1>1. /\ effects' = effects
      /\ DOMAIN delivery' = DOMAIN delivery \cup Offered(w)
      /\ \A p \in DOMAIN delivery' : delivery'[p] =
           IF p \in DOMAIN delivery THEN delivery[p] ELSE NewDelivery(worker[w].now)
  BY DEF FanOut
<1>2. NewDelivery(worker[w].now).status = "pending"  BY DEF NewDelivery
<1>3. ASSUME NEW p \in Deliveries
      PROVE  \/ Outcome(p)' = Outcome(p)
             \/ Outcome(p) = "none" /\ Outcome(p)' = "open"
  BY <1>1, <1>2, OutcomeOfRow
<1> QED  BY <1>1, <1>3, OutcomesMove DEF Promise!Offer

LEMMA ClaimBuriesAsPromised ==
  ASSUME IInv, IInv', NEW w \in Workers, Claim(w)
  PROVE  Promise!Bury
<1>1. PICK chosen : ClaimChooses(w, chosen)  BY ClaimChoosesRows
<1>2. effects' = effects /\ DOMAIN delivery' = DOMAIN delivery
  BY <1>1 DEF Claim, ClaimChooses
<1>3. ASSUME NEW p \in Deliveries
      PROVE  \/ Outcome(p)' = Outcome(p)
             \/ Outcome(p) = "open" /\ Outcome(p)' = "dead"
  <2>1. CASE p \notin DOMAIN delivery  BY <1>2, <2>1, OutcomeOfRow
  <2>2. CASE p \in DOMAIN delivery
    <3> DEFINE row == Recovered(delivery[p], worker[w].now)
    <3>1. /\ p \in chosen => row.status = "pending" /\ delivery'[p].status = "processing"
          /\ p \notin chosen => delivery'[p] = row
          /\ row = delivery[p] \/ /\ delivery[p].status = "processing"
                                  /\ row.status \in {"pending", "dead"}
      BY <1>1, <2>2, ClaimIsOK
    <3> HIDE DEF row
    <3> QED  BY <1>2, <2>2, <3>1, OutcomeOfRow
  <2> QED  BY <2>1, <2>2
<1> QED  BY <1>2, <1>3, OutcomesMove DEF Promise!Bury

LEMMA SucceedsAsPromised ==
  ASSUME IInv, NEW w \in Workers, Succeed(w) \/ ReplyLost(w)
  PROVE  Promise!Succeed(worker[w].current)
<1>1. /\ worker[w].phase = "acking" /\ HoldsLease(w, worker[w].current)
      /\ Succeeded(worker[w].current) /\ effects' = effects
  BY DEF Succeed, ReplyLost
<1>2. PICK p \in Deliveries : p = worker[w].current /\ p \in DOMAIN effects
  BY <1>1 DEF IInv, ProcessesOK, ProcessOK, EffectsOK
<1>3. p \in DOMAIN delivery /\ delivery[p].status = "processing" /\ delivery[p] \in Rows
  BY <1>1, <1>2 DEF HoldsLease, IInv, DeliveriesOK, RowOK
<1>4. PICK r : delivery' = [delivery EXCEPT ![p] = r] /\ r.status = "succeeded"
  <2> DEFINE q == [delivery[p] EXCEPT !.status = "succeeded", !.lockedBy = NoRow,
                                      !.lockedUntil = NoTime, !.completedAt = clock]
  <2>1. q.status = "succeeded"  BY <1>3 DEF Rows
  <2>2. delivery' = [delivery EXCEPT ![p] = q]  BY <1>1, <1>2, <1>3 DEF Succeeded
  <2> QED  BY <2>1, <2>2
<1>5. Outcome(p) = "open" /\ Outcome(p)' = "succeeded"
  BY <1>3, <1>4 DEF Outcome
<1>6. ASSUME NEW q \in Deliveries, q # p  PROVE Outcome(q)' = Outcome(q)
  BY <1>3, <1>4, <1>6 DEF Outcome
<1>7. [q \in Deliveries |-> Outcome(q)]' =
        [[q \in Deliveries |-> Outcome(q)] EXCEPT ![p] = "succeeded"]
  BY <1>5, <1>6
<1> QED  BY <1>1, <1>2, <1>5, <1>7 DEF Promise!Succeed

LEMMA FailBuriesAsPromised ==
  ASSUME IInv, IInv', NEW w \in Workers, Fail(w)
  PROVE  Promise!Bury
<1>1. HoldsLease(w, worker[w].current) /\ effects' = effects  BY DEF Fail
<1>2. DOMAIN delivery' = DOMAIN delivery /\ worker[w].current \in DOMAIN delivery
  BY <1>1, FailureIsOK DEF HoldsLease
<1>3. ASSUME NEW q \in DOMAIN delivery, q # worker[w].current
      PROVE  delivery'[q] = delivery[q]
  BY <1>3 DEF Fail
<1>4. delivery'[worker[w].current].status \in {"pending", "dead"}
  <2>1. delivery[worker[w].current] \in Rows
    BY <1>2 DEF IInv, DeliveriesOK, RowOK
  <2> QED  BY <1>2, <2>1 DEF Fail, Rows
<1>5. delivery[worker[w].current].status = "processing"
  BY <1>1 DEF HoldsLease
<1>6. ASSUME NEW p \in Deliveries
      PROVE  \/ Outcome(p)' = Outcome(p)
             \/ Outcome(p) = "open" /\ Outcome(p)' = "dead"
  BY <1>2, <1>3, <1>4, <1>5, OutcomeOfRow
<1> QED  BY <1>1, <1>6, OutcomesMove DEF Promise!Bury

LEMMA ReopensAsPromised ==
  ASSUME IInv, NEW p \in DOMAIN delivery, OperatorRetry(p)
  PROVE  Promise!Reopen(p) \/ UNCHANGED Promise!vars
<1>1. /\ delivery[p] \in Rows /\ p \in Deliveries /\ effects' = effects
      /\ delivery[p].status \in {"dead", "pending"}
  BY OffersAreDeliveries DEF OperatorRetry, IInv, DeliveriesOK, RowOK
<1>2. PICK r : delivery' = [delivery EXCEPT ![p] = r] /\ r.status = "pending"
  <2> DEFINE q == [delivery[p] EXCEPT !.status = "pending", !.attempts = 0,
                                      !.availableAt = clock, !.lockedBy = NoRow,
                                      !.lockedUntil = NoTime, !.completedAt = NoTime]
  <2>1. q.status = "pending"  BY <1>1 DEF Rows
  <2>2. delivery' = [delivery EXCEPT ![p] = q]  BY DEF OperatorRetry
  <2> QED  BY <2>1, <2>2
<1>3. /\ Outcome(p) = IF delivery[p].status = "dead" THEN "dead" ELSE "open"
      /\ Outcome(p)' = "open"
  BY <1>1, <1>2 DEF Outcome
<1>4. ASSUME NEW q \in Deliveries, q # p  PROVE Outcome(q)' = Outcome(q)
  BY <1>2, <1>4 DEF Outcome
<1>5. CASE delivery[p].status = "dead"
  <2>1. [q \in Deliveries |-> Outcome(q)]' =
          [[q \in Deliveries |-> Outcome(q)] EXCEPT ![p] = "open"]
    BY <1>1, <1>3, <1>4
  <2> QED  BY <1>1, <1>3, <1>5, <2>1 DEF Promise!Reopen
<1>6. CASE delivery[p].status = "pending"
  <2>1. [q \in Deliveries |-> Outcome(q)]' = [q \in Deliveries |-> Outcome(q)]
    BY <1>3, <1>4, <1>6
  <2> QED  BY <1>1, <2>1 DEF Promise!vars
<1> QED  BY <1>1, <1>5, <1>6

LEMMA HandlesAsPromised ==
  ASSUME IInv, NEW w \in Workers, Handle(w) \/ HandlerFails(w)
  PROVE  Promise!Handle(worker[w].current) \/ UNCHANGED Promise!vars
<1>1. delivery' = delivery  BY DEF Handle, HandlerFails
<1>2. [q \in Deliveries |-> Outcome(q)]' = [q \in Deliveries |-> Outcome(q)]
  BY <1>1 DEF Outcome
<1>3. worker[w].current \in DOMAIN delivery
  BY DEF Handle, HandlerFails, IInv, ProcessesOK, ProcessOK
<1>4. Outcome(worker[w].current) # "none" /\ worker[w].current \in Deliveries
  <2>1. delivery[worker[w].current].status \in Statuses
    BY <1>3 DEF IInv, DeliveriesOK, RowOK, Rows
  <2> QED  BY <1>3, <2>1, OffersAreDeliveries DEF Outcome, Statuses
<1>5. DOMAIN effects' = DOMAIN effects \/ DOMAIN effects' = DOMAIN effects \cup {worker[w].current}
  BY DEF Handle, HandlerFails, Apply
<1> QED  BY <1>2, <1>4, <1>5 DEF Promise!Handle, Promise!vars

\* Whatever processes crash or stall and whatever an operator retries, each
\* step of the store is a step of the promise or leaves the outcomes alone.
THEOREM DeliveriesKeepThePromise == Spec => DeliversAsPromised
<1>1. Init => Promise!Init
  <2> SUFFICES ASSUME Init PROVE Promise!Init
    OBVIOUS
  <2>1. DOMAIN delivery = {} /\ DOMAIN effects = {}  BY DEF Init, NoRows
  <2> QED  BY <2>1 DEF Promise!Init, Outcome
<1>2. IInv /\ IInv' /\ [Next]_vars => [Promise!Next]_Promise!vars
  <2> SUFFICES ASSUME IInv, IInv', [Next]_vars
               PROVE  Promise!Next \/ UNCHANGED Promise!vars
    OBVIOUS
  <2>1. ASSUME delivery' = delivery, effects' = effects
        PROVE  UNCHANGED Promise!vars
    BY <2>1 DEF Promise!vars, Outcome
  <2>2. ASSUME NEW w \in Workers, FanOut(w)  PROVE Promise!Next
    BY <2>2, OffersAsPromised DEF Promise!Next
  <2>3. ASSUME NEW w \in Workers, Claim(w) \/ Fail(w)  PROVE Promise!Next
    BY <2>3, ClaimBuriesAsPromised, FailBuriesAsPromised DEF Promise!Next
  <2>4. ASSUME NEW w \in Workers, Succeed(w) \/ ReplyLost(w)  PROVE Promise!Next
    <3>1. worker[w].current \in Deliveries
      BY <2>4 DEF Succeed, ReplyLost, IInv, ProcessesOK, ProcessOK, EffectsOK
    <3> QED  BY <2>4, <3>1, SucceedsAsPromised DEF Promise!Next
  <2>5. ASSUME NEW w \in Workers, Handle(w) \/ HandlerFails(w)
        PROVE  Promise!Next \/ UNCHANGED Promise!vars
    <3>1. worker[w].current \in Deliveries
      BY <2>5, OffersAreDeliveries DEF Handle, HandlerFails, IInv, ProcessesOK, ProcessOK
    <3> QED  BY <2>5, <3>1, HandlesAsPromised DEF Promise!Next
  <2>6. ASSUME NEW p \in DOMAIN delivery, OperatorRetry(p)
        PROVE  Promise!Next \/ UNCHANGED Promise!vars
    BY <2>6, OffersAreDeliveries, ReopensAsPromised DEF Promise!Next
  <2>7. \/ \E w \in Workers : \/ FanOut(w) \/ Claim(w) \/ Fail(w) \/ Succeed(w) \/ ReplyLost(w)
                              \/ Handle(w) \/ HandlerFails(w)
        \/ \E p \in DOMAIN delivery : OperatorRetry(p)
        \/ delivery' = delivery /\ effects' = effects
    BY DEF Next, WorkerStep, Emit, BeginCycle, NextDelivery, LeaveLoop, SucceedRefused,
           FailRefused, Start, Exit, Crash, DatabaseError, Stop, DrainTimeout, Tick, tables,
           vars
  <2> QED  BY <2>1, <2>2, <2>3, <2>4, <2>5, <2>6, <2>7
<1> QED  BY <1>1, <1>2, Invariance, PTL DEF Spec, DeliversAsPromised, Promise!Spec
-----------------------------------------------------------------------------
(* Retention: what a plan shows is what it takes *)

\* The cutoffs were taken of the policy of that revision, at that time: while
\* the revision is current they are the policy's.
FromPolicy(current, now, revision, at, cutoffs) ==
  /\ at \in Nat /\ at <= now /\ revision <= current.revision
  /\ revision = current.revision => \A c \in Categories : cutoffs[c] = Cutoff(at, current.days[c])

RInv ==
  /\ RTypeOK
  /\ preview # NoPlan => FromPolicy(policy, clock, preview.revision, preview.at, preview.cutoffs)
  /\ \A i \in PlanIds : plan[i] # NoPlan =>
       \E at \in 0..clock : FromPolicy(policy, clock, plan[i].revision, at, plan[i].cutoffs)

LEMMA CutoffIsATime ==
  ASSUME NEW now \in Nat, NEW days \in Nat \cup {NoTime}
  PROVE  /\ Cutoff(now, days) \in Int \cup {NoTime}
         /\ Cutoff(now, days) = NoTime <=> days = NoTime
  BY DEF Cutoff

\* Workers add rows and never take one away.
LEMMA WorkersKeepRows ==
  ASSUME RTypeOK, WorkersNext
  PROVE  /\ outbox' = outbox /\ UNCHANGED <<times, retentionVars>>
         /\ clock' \in Nat /\ clock <= clock'
         /\ dispatched \subseteq dispatched' /\ dispatched' \subseteq outbox
         /\ DOMAIN delivery \subseteq DOMAIN delivery'
         /\ DOMAIN delivery' \subseteq outbox \X Handlers
         /\ receipts \subseteq receipts'
<1> USE DEF RTypeOK
<1>1. ASSUME NEW w \in Workers, FanOut(w)
      PROVE  /\ UNCHANGED <<outbox, clock, receipts>>
             /\ dispatched \subseteq dispatched' /\ dispatched' \subseteq outbox
             /\ DOMAIN delivery' = DOMAIN delivery \cup Offered(w)
             /\ Offered(w) \subseteq outbox \X Handlers
  BY <1>1 DEF FanOut, Offered
<1>2. ASSUME NEW w \in Workers, Claim(w)
      PROVE  UNCHANGED <<outbox, clock, receipts, dispatched>> /\ DOMAIN delivery' = DOMAIN delivery
  BY <1>2, ClaimChoosesRows DEF Claim, ClaimChooses
<1>3. ASSUME NEW w \in Workers, Handle(w) \/ HandlerFails(w)
      PROVE  UNCHANGED <<outbox, clock, dispatched, delivery>> /\ receipts \subseteq receipts'
  BY <1>3 DEF Handle, HandlerFails, Apply
<1>4. ASSUME NEW w \in Workers, Succeed(w) \/ Fail(w)
      PROVE  UNCHANGED <<outbox, clock, receipts, dispatched>> /\ DOMAIN delivery' = DOMAIN delivery
  BY <1>4 DEF Succeed, Succeeded, Fail
<1>5. ASSUME NEW w \in Workers,
             \/ BeginCycle(w) \/ NextDelivery(w) \/ LeaveLoop(w) \/ SucceedRefused(w)
             \/ FailRefused(w) \/ Start(w) \/ Exit(w) \/ Crash(w)
      PROVE  UNCHANGED <<outbox, clock, receipts, dispatched, delivery>>
  BY <1>5 DEF BeginCycle, NextDelivery, LeaveLoop, SucceedRefused, FailRefused, Start, Exit,
              Crash, tables
<1>6. ASSUME NEW p \in DOMAIN delivery, OperatorRetry(p)
      PROVE  UNCHANGED <<outbox, clock, receipts, dispatched>> /\ DOMAIN delivery' = DOMAIN delivery
  BY <1>6 DEF OperatorRetry
<1>7. ASSUME Advance
      PROVE  UNCHANGED <<outbox, receipts, dispatched, delivery>> /\ clock' = clock + 1
  BY <1>7 DEF Advance, tables
<1>8. \/ \E w \in Workers : WorkerStep(w) \/ Crash(w)
      \/ \E p \in DOMAIN delivery : OperatorRetry(p)
      \/ Advance
  BY DEF WorkersNext
<1>9. UNCHANGED <<times, retentionVars>>
  BY DEF WorkersNext
<1>10. ASSUME NEW w \in Workers, WorkerStep(w) \/ Crash(w)
       PROVE  /\ UNCHANGED <<outbox, clock>> /\ receipts \subseteq receipts'
              /\ dispatched \subseteq dispatched' /\ dispatched' \subseteq outbox
              /\ DOMAIN delivery \subseteq DOMAIN delivery'
              /\ DOMAIN delivery' \subseteq outbox \X Handlers
  <2>1. CASE FanOut(w)  BY <1>1, <2>1
  <2>2. CASE Claim(w)  BY <1>2, <2>2
  <2>3. CASE Handle(w) \/ HandlerFails(w)  BY <1>3, <2>3
  <2>4. CASE Succeed(w) \/ Fail(w)  BY <1>4, <2>4
  <2>5. CASE \/ BeginCycle(w) \/ NextDelivery(w) \/ LeaveLoop(w) \/ SucceedRefused(w)
             \/ FailRefused(w) \/ Start(w) \/ Exit(w) \/ Crash(w)
    BY <1>5, <2>5
  <2> QED  BY <1>10, <2>1, <2>2, <2>3, <2>4, <2>5 DEF WorkerStep
<1> QED  BY <1>6, <1>7, <1>8, <1>9, <1>10

LEMMA CandidatesAreRows ==
  ASSUME RTypeOK, NEW cutoffs
  PROVE  /\ Candidates(cutoffs) \in
              [dispatchedOutbox : SUBSET Events, succeededDeliveries : SUBSET Deliveries,
               deadDeliveries : SUBSET Deliveries, softDeletedDocuments : SUBSET Documents]
         /\ Candidates(cutoffs).dispatchedOutbox \subseteq Orphans /\ Orphans \subseteq outbox
<1>1. Orphans \subseteq outbox /\ outbox \subseteq Events
  BY DEF RTypeOK, Orphans
<1>2. \A s, c : Completed(s, c) \subseteq Deliveries
  BY DEF RTypeOK, Completed, Deliveries
<1>3. \A c : SoftDeleted(c) \subseteq Documents
  BY DEF SoftDeleted
<1> QED  BY <1>1, <1>2, <1>3 DEF Candidates

\* What was of the policy stays so: no revision is used for two policies.
LEMMA PolicyIsRemembered ==
  ASSUME RTypeOK, clock' \in Nat, clock <= clock',
         policy' = policy \/ (policy'.revision = policy.revision + 1),
         NEW revision \in Nat, NEW at, NEW cutoffs,
         FromPolicy(policy, clock, revision, at, cutoffs)
  PROVE  FromPolicy(policy', clock', revision, at, cutoffs)
  BY DEF RTypeOK, FromPolicy

LEMMA PlansStay ==
  ASSUME RInv, clock' \in Nat, clock <= clock',
         policy' = policy \/ (policy'.revision = policy.revision + 1),
         NEW i \in PlanIds, plan[i] # NoPlan, NEW q,
         q.revision = plan[i].revision, q.cutoffs = plan[i].cutoffs
  PROVE  \E at \in 0..clock' : FromPolicy(policy', clock', q.revision, at, q.cutoffs)
<1>1. PICK at \in 0..clock : FromPolicy(policy, clock, plan[i].revision, at, plan[i].cutoffs)
  BY DEF RInv
<1>2. plan[i].revision \in Nat /\ RTypeOK
  BY DEF RInv, RTypeOK, Plans
<1>3. FromPolicy(policy', clock', plan[i].revision, at, plan[i].cutoffs)
  BY <1>1, <1>2, PolicyIsRemembered
<1>4. at \in 0..clock'
  BY <1>2 DEF RTypeOK
<1>5. FromPolicy(policy', clock', q.revision, at, q.cutoffs)
  BY <1>3 DEF FromPolicy
<1> QED  BY <1>4, <1>5

\* A step that leaves the plans and the preview alone.
LEMMA PlansAreLeftAlone ==
  ASSUME RInv, RTypeOK', UNCHANGED <<preview, plan>>, clock' \in Nat, clock <= clock',
         policy' = policy \/ (policy'.revision = policy.revision + 1)
  PROVE  RInv'
<1>1. ASSUME preview # NoPlan
      PROVE  FromPolicy(policy', clock', preview'.revision, preview'.at, preview'.cutoffs)
  <2>1. /\ preview.revision \in Nat
        /\ FromPolicy(policy, clock, preview.revision, preview.at, preview.cutoffs)
    BY <1>1 DEF RInv, RTypeOK
  <2>2. PICK r, a, c : r = preview.revision /\ a = preview.at /\ c = preview.cutoffs
    OBVIOUS
  <2>3. FromPolicy(policy', clock', r, a, c)
    BY <2>1, <2>2, PolicyIsRemembered DEF RInv
  <2> QED  BY <2>2, <2>3 DEF FromPolicy
<1>2. ASSUME NEW i \in PlanIds, plan[i] # NoPlan
      PROVE  \E at \in 0..clock' : FromPolicy(policy', clock', plan'[i].revision, at, plan'[i].cutoffs)
  BY <1>2, PlansStay
<1> QED  BY <1>1, <1>2 DEF RInv

LEMMA RetentionInit == RInit => RInv
  BY DEF RInit, Init, RInv, RTypeOK, NoRows

LEMMA RetentionWorkers ==
  ASSUME RInv, WorkersNext
  PROVE  RInv'
<1>1. /\ outbox' = outbox /\ UNCHANGED <<times, retentionVars>>
      /\ clock' \in Nat /\ clock <= clock'
      /\ dispatched' \subseteq outbox /\ DOMAIN delivery' \subseteq outbox \X Handlers
  BY WorkersKeepRows DEF RInv
<1>2. UNCHANGED <<occurred, deletedAt, policy, preview, plan>>
  BY <1>1 DEF times, retentionVars
<1>3. RTypeOK'
  BY <1>1, <1>2 DEF RInv, RTypeOK
<1> QED  BY <1>1, <1>2, <1>3, PlansAreLeftAlone

LEMMA RetentionCommand ==
  ASSUME RInv, Command
  PROVE  RInv'
<1>1. PICK e \in Events :
        outbox' = outbox \cup {e} /\ UNCHANGED <<clock, dispatched, delivery, receipts>>
  BY DEF Command, Emit
<1>2. UNCHANGED <<policy, preview, plan>>
  BY DEF Command, retentionVars
<1>3. RTypeOK'
  <2>1. occurred' \in [outbox' -> Nat]
    BY <1>1 DEF Command, RInv, RTypeOK
  <2>2. deletedAt' \in [Documents -> Nat \cup {NoTime}]
    BY DEF Command, RInv, RTypeOK
  <2> QED  BY <1>1, <1>2, <2>1, <2>2 DEF RInv, RTypeOK
<1>4. clock' \in Nat /\ clock <= clock'
  BY <1>1 DEF RInv, RTypeOK
<1> QED  BY <1>2, <1>3, <1>4, PlansAreLeftAlone

LEMMA RetentionPolicy ==
  ASSUME RInv, UpdatePolicy
  PROVE  RInv'
<1>1. /\ UNCHANGED <<clock, outbox, dispatched, delivery, occurred, deletedAt, preview, plan>>
      /\ \E days \in Policies : policy' = [revision |-> policy.revision + 1, days |-> days]
  BY DEF UpdatePolicy, vars, times
<1>2. policy.revision \in Nat
  BY DEF RInv, RTypeOK
<1>3. policy' \in [revision : Nat, days : Policies] /\ policy'.revision = policy.revision + 1
  BY <1>1, <1>2
<1>4. RTypeOK' /\ clock' \in Nat /\ clock <= clock'
  BY <1>1, <1>3 DEF RInv, RTypeOK
<1> QED  BY <1>1, <1>3, <1>4, PlansAreLeftAlone

LEMMA RetentionPreview ==
  ASSUME RInv, BeginPreview
  PROVE  RInv'
<1>1. /\ UNCHANGED <<clock, outbox, dispatched, delivery, occurred, deletedAt, policy, plan>>
      /\ preview' = [revision |-> policy.revision, at |-> clock,
                     cutoffs |-> [c \in Categories |-> Cutoff(clock, policy.days[c])]]
  BY DEF BeginPreview, vars, times
<1>2. clock \in Nat /\ policy.revision \in Nat
      /\ \A c \in Categories : policy.days[c] \in Nat \cup {NoTime}
  BY PoliciesAssumption DEF RInv, RTypeOK
<1>3. [c \in Categories |-> Cutoff(clock, policy.days[c])] \in Cutoffs
  BY <1>2, CutoffIsATime DEF Cutoffs
<1>4. preview' \in [revision : Nat, at : Nat, cutoffs : Cutoffs]
  BY <1>1, <1>2, <1>3
<1>5. RTypeOK'
  BY <1>1, <1>4 DEF RInv, RTypeOK
<1>6. FromPolicy(policy', clock', preview'.revision, preview'.at, preview'.cutoffs)
  BY <1>1, <1>2 DEF FromPolicy
<1>7. ASSUME NEW i \in PlanIds, plan[i] # NoPlan
      PROVE  \E at \in 0..clock' : FromPolicy(policy', clock', plan'[i].revision, at, plan'[i].cutoffs)
  BY <1>1, <1>2, <1>7, PlansStay
<1> QED  BY <1>1, <1>5, <1>6, <1>7 DEF RInv

LEMMA RetentionCreate ==
  ASSUME RInv, NEW i \in PlanIds, CreatePlan(i)
  PROVE  RInv'
<1>1. /\ UNCHANGED <<clock, outbox, dispatched, delivery, occurred, deletedAt, policy>>
      /\ preview' = NoPlan /\ preview # NoPlan
  BY DEF CreatePlan, vars, times
<1>2. CASE plan' = plan
  <2>1. RTypeOK'
    BY <1>1, <1>2 DEF RInv, RTypeOK
  <2>2. clock' \in Nat /\ clock <= clock'
    BY <1>1 DEF RInv, RTypeOK
  <2>3. ASSUME NEW j \in PlanIds, plan[j] # NoPlan
        PROVE  \E at \in 0..clock' : FromPolicy(policy', clock', plan'[j].revision, at, plan'[j].cutoffs)
    BY <1>1, <1>2, <2>2, <2>3, PlansStay
  <2> QED  BY <1>1, <1>2, <2>1, <2>3 DEF RInv
<1>3. CASE plan' # plan
  <2>1. PICK r, a, c, m : r = preview.revision /\ a = preview.at /\ c = preview.cutoffs
                          /\ m = Candidates(preview.cutoffs)
    OBVIOUS
  <2>2. r \in Nat /\ a \in Nat /\ c \in Cutoffs /\ FromPolicy(policy, clock, r, a, c)
    BY <1>1, <2>1 DEF RInv, RTypeOK
  <2>3. PICK t \in Nat : t = a + PlanTtl
    BY <2>2, PlanAssumption
  <2>4. PICK q : q = [status |-> "previewed", revision |-> r, cutoffs |-> c, expiresAt |-> t,
                      candidates |-> m]
    OBVIOUS
  <2>5. plan' = [plan EXCEPT ![i] = q]
    BY <1>3, <2>1, <2>3, <2>4 DEF CreatePlan
  <2>6. m \in [dispatchedOutbox : SUBSET Events, succeededDeliveries : SUBSET Deliveries,
               deadDeliveries : SUBSET Deliveries, softDeletedDocuments : SUBSET Documents]
    BY <2>1, CandidatesAreRows DEF RInv
  <2>7. q \in Plans
    BY <2>2, <2>4, <2>6 DEF Plans
  <2>8. plan \in [PlanIds -> Plans \cup {NoPlan}] /\ clock \in Nat
    BY DEF RInv, RTypeOK
  <2>9. RTypeOK'
    <3>1. plan' \in [PlanIds -> Plans \cup {NoPlan}]
      BY <2>5, <2>7, <2>8
    <3> QED  BY <1>1, <3>1 DEF RInv, RTypeOK
  <2>10. \E at \in 0..clock' : FromPolicy(policy', clock', q.revision, at, q.cutoffs)
    <3>1. a \in 0..clock'
      BY <1>1, <2>2, <2>8 DEF FromPolicy
    <3>2. FromPolicy(policy', clock', q.revision, a, q.cutoffs)
      BY <1>1, <2>2, <2>4 DEF FromPolicy
    <3> QED  BY <3>1, <3>2
  <2>11. ASSUME NEW j \in PlanIds, plan'[j] # NoPlan
         PROVE  \E at \in 0..clock' :
                  FromPolicy(policy', clock', plan'[j].revision, at, plan'[j].cutoffs)
    <3>1. CASE j = i
      <4>1. plan'[j] = q
        BY <2>5, <2>8, <3>1
      <4> QED  BY <2>10, <4>1
    <3>2. CASE j # i
      <4>1. plan'[j] = plan[j]
        BY <2>5, <2>8, <3>2
      <4>2. clock' \in Nat /\ clock <= clock'
        BY <1>1, <2>8
      <4> QED  BY <1>1, <2>11, <4>1, <4>2, PlansStay
    <3> QED  BY <3>1, <3>2
  <2> QED  BY <1>1, <2>9, <2>11 DEF RInv
<1> QED  BY <1>2, <1>3

\* What is applied is what the tables still select.
LEMMA ApplyForm ==
  ASSUME RInv, NEW i \in PlanIds, ApplyPlan(i), NEW gone, gone = Candidates(plan[i].cutoffs)
  PROVE  /\ gone = plan[i].candidates /\ plan[i] # NoPlan /\ plan[i].revision = policy.revision
         /\ gone.dispatchedOutbox \subseteq outbox
         /\ outbox' = outbox \ gone.dispatchedOutbox
         /\ dispatched' = dispatched \ gone.dispatchedOutbox
         /\ DOMAIN delivery' = DOMAIN delivery \ (gone.succeededDeliveries \cup gone.deadDeliveries)
         /\ gone.succeededDeliveries \cup gone.deadDeliveries \subseteq DOMAIN delivery
         /\ occurred' = [e \in DOMAIN occurred \ gone.dispatchedOutbox |-> occurred[e]]
         /\ receipts' = receipts \ (gone.succeededDeliveries \cup gone.deadDeliveries)
         /\ plan' = [plan EXCEPT ![i].status = "applied"]
         /\ UNCHANGED <<clock, deletedAt, policy, preview>>
         /\ \A e \in gone.dispatchedOutbox : \A h \in Handlers : <<e, h>> \notin DOMAIN delivery
<1>1. gone.dispatchedOutbox \subseteq Orphans /\ Orphans \subseteq outbox
  BY CandidatesAreRows DEF RInv
<1>2. gone.succeededDeliveries \cup gone.deadDeliveries \subseteq DOMAIN delivery
  BY DEF Candidates, Completed
<1> QED  BY <1>1, <1>2 DEF ApplyPlan, Applicable, Orphans

LEMMA RetentionApply ==
  ASSUME RInv, NEW i \in PlanIds, ApplyPlan(i)
  PROVE  RInv'
<1>1. PICK gone : gone = Candidates(plan[i].cutoffs)
  OBVIOUS
<1>2. /\ plan[i] # NoPlan
      /\ outbox' = outbox \ gone.dispatchedOutbox
      /\ dispatched' = dispatched \ gone.dispatchedOutbox
      /\ DOMAIN delivery' \subseteq DOMAIN delivery
      /\ occurred' = [e \in DOMAIN occurred \ gone.dispatchedOutbox |-> occurred[e]]
      /\ plan' = [plan EXCEPT ![i].status = "applied"]
      /\ UNCHANGED <<clock, deletedAt, policy, preview>>
      /\ \A e \in gone.dispatchedOutbox : \A h \in Handlers : <<e, h>> \notin DOMAIN delivery
  BY <1>1, ApplyForm
<1>3. plan \in [PlanIds -> Plans \cup {NoPlan}] /\ clock \in Nat
  BY DEF RInv, RTypeOK
<1>4. PICK q : q = [plan[i] EXCEPT !.status = "applied"]
  OBVIOUS
<1>5. /\ q \in Plans /\ q.revision = plan[i].revision /\ q.cutoffs = plan[i].cutoffs
  <2>1. plan[i] \in Plans
    BY <1>2, <1>3
  <2> QED  BY <1>4, <2>1 DEF Plans
<1>6. plan' = [plan EXCEPT ![i] = q]
  BY <1>2, <1>4
<1>7. RTypeOK'
  <2>1. plan' \in [PlanIds -> Plans \cup {NoPlan}]
    BY <1>3, <1>5, <1>6
  <2>2. occurred' \in [outbox' -> Nat]
    BY <1>2 DEF RInv, RTypeOK
  <2>3. DOMAIN delivery' \subseteq outbox' \X Handlers
    BY <1>2 DEF RInv, RTypeOK
  <2>4. dispatched' \subseteq outbox' /\ outbox' \subseteq Events
    BY <1>2 DEF RInv, RTypeOK
  <2> QED  BY <1>2, <2>1, <2>2, <2>3, <2>4 DEF RInv, RTypeOK
<1>8. clock' \in Nat /\ clock <= clock'
  BY <1>2, <1>3
<1>9. ASSUME NEW j \in PlanIds, plan'[j] # NoPlan
      PROVE  \E at \in 0..clock' : FromPolicy(policy', clock', plan'[j].revision, at, plan'[j].cutoffs)
  <2>1. PICK z : z = plan'[j]
    OBVIOUS
  <2>2. plan[j] # NoPlan /\ z.revision = plan[j].revision /\ z.cutoffs = plan[j].cutoffs
    BY <1>2, <1>3, <1>5, <1>6, <1>9, <2>1
  <2>3. \E at \in 0..clock' : FromPolicy(policy', clock', z.revision, at, z.cutoffs)
    BY <1>2, <1>8, <2>2, PlansStay
  <2> QED  BY <2>1, <2>3
<1>10. preview' # NoPlan => FromPolicy(policy', clock', preview'.revision, preview'.at, preview'.cutoffs)
  BY <1>2 DEF RInv, FromPolicy
<1> QED  BY <1>7, <1>9, <1>10 DEF RInv

LEMMA RetentionNext == RInv /\ [RNext]_rvars => RInv'
<1> SUFFICES ASSUME RInv, [RNext]_rvars PROVE RInv'
  OBVIOUS
<1>1. ASSUME UNCHANGED rvars  PROVE RInv'
  <2>1. UNCHANGED <<clock, outbox, dispatched, delivery, occurred, deletedAt, policy, preview, plan>>
    BY <1>1 DEF rvars, vars, times, retentionVars
  <2>2. RTypeOK' /\ clock' \in Nat /\ clock <= clock'
    BY <2>1 DEF RInv, RTypeOK
  <2> QED  BY <2>1, <2>2, PlansAreLeftAlone
<1> QED  BY <1>1, RetentionWorkers, RetentionCommand, RetentionPolicy, RetentionPreview,
            RetentionCreate, RetentionApply DEF RNext

\* The inductive invariant of retention beside any number of workers.
THEOREM RetentionInvariance == RSpec => []RInv
<1> QED  BY RetentionInit, RetentionNext, PTL DEF RSpec

\* Only the application of a plan changes one, or takes a row away.
LEMMA OnlyPlansTake ==
  ASSUME RInv, [RNext]_rvars, ~\E i \in PlanIds : ApplyPlan(i)
  PROVE  /\ \A i \in PlanIds : plan[i] # NoPlan => plan'[i] = plan[i]
         /\ outbox \subseteq outbox' /\ DOMAIN delivery \subseteq DOMAIN delivery'
         /\ receipts \subseteq receipts'
<1>1. CASE WorkersNext
  <2>1. plan' = plan /\ outbox' = outbox
    BY <1>1, WorkersKeepRows DEF RInv, retentionVars
  <2> QED  BY <1>1, <2>1, WorkersKeepRows DEF RInv
<1>2. CASE Command
  BY <1>2 DEF Command, Emit, retentionVars
<1>3. CASE UpdatePolicy \/ BeginPreview
  BY <1>3 DEF UpdatePolicy, BeginPreview, vars
<1>4. ASSUME NEW i \in PlanIds, CreatePlan(i)
      PROVE  /\ \A j \in PlanIds : plan[j] # NoPlan => plan'[j] = plan[j]
             /\ UNCHANGED <<outbox, delivery, receipts>>
  <2>1. UNCHANGED <<outbox, delivery, receipts>> /\ plan[i] = NoPlan
    BY <1>4 DEF CreatePlan, vars
  <2>2. plan' = plan \/ \E q : plan' = [plan EXCEPT ![i] = q]
    BY <1>4 DEF CreatePlan
  <2>3. \A j \in PlanIds : j # i => plan'[j] = plan[j]
    BY <2>2 DEF RInv, RTypeOK
  <2> QED  BY <2>1, <2>3
<1>5. CASE UNCHANGED rvars
  BY <1>5 DEF rvars, vars, retentionVars
<1> QED  BY <1>1, <1>2, <1>3, <1>4, <1>5 DEF RNext

LEMMA PlanTakesWhatItShows ==
  ASSUME RInv, NEW i \in PlanIds, ApplyPlan(i)
  PROVE  /\ outbox \ outbox' = plan[i].candidates.dispatchedOutbox
         /\ DOMAIN delivery \ DOMAIN delivery' =
              plan[i].candidates.succeededDeliveries \cup plan[i].candidates.deadDeliveries
         /\ \A c \in Categories : plan[i].cutoffs[c] = NoTime <=> policy.days[c] = NoTime
         /\ \A e \in outbox \ outbox' : clock - occurred[e] > policy.days["dispatchedOutbox"]
<1>1. PICK gone : gone = Candidates(plan[i].cutoffs)
  OBVIOUS
<1>2. /\ gone = plan[i].candidates /\ plan[i] # NoPlan /\ plan[i].revision = policy.revision
      /\ gone.dispatchedOutbox \subseteq outbox
      /\ outbox' = outbox \ gone.dispatchedOutbox
      /\ DOMAIN delivery' = DOMAIN delivery \ (gone.succeededDeliveries \cup gone.deadDeliveries)
      /\ gone.succeededDeliveries \cup gone.deadDeliveries \subseteq DOMAIN delivery
  BY <1>1, ApplyForm
<1>3. PICK at \in 0..clock : FromPolicy(policy, clock, plan[i].revision, at, plan[i].cutoffs)
  BY <1>2 DEF RInv
<1>4. /\ at \in Nat /\ at <= clock /\ clock \in Nat
      /\ \A c \in Categories : plan[i].cutoffs[c] = Cutoff(at, policy.days[c])
                               /\ policy.days[c] \in Nat \cup {NoTime}
  <2>1. clock \in Nat /\ at \in Nat /\ at <= clock
    BY <1>3 DEF RInv, RTypeOK
  <2>2. \A c \in Categories : plan[i].cutoffs[c] = Cutoff(at, policy.days[c])
    BY <1>2, <1>3 DEF FromPolicy
  <2>3. \A c \in Categories : policy.days[c] \in Nat \cup {NoTime}
    BY PoliciesAssumption DEF RInv, RTypeOK
  <2> QED  BY <2>1, <2>2, <2>3
<1>5. \A c \in Categories : plan[i].cutoffs[c] = NoTime <=> policy.days[c] = NoTime
  <2> SUFFICES ASSUME NEW c \in Categories
               PROVE  plan[i].cutoffs[c] = NoTime <=> policy.days[c] = NoTime
    OBVIOUS
  <2>1. PICK days \in Nat \cup {NoTime} : days = policy.days[c]
    BY <1>4
  <2>2. plan[i].cutoffs[c] = Cutoff(at, days)
    BY <1>4, <2>1
  <2>3. Cutoff(at, days) = NoTime <=> days = NoTime
    BY <1>4, CutoffIsATime
  <2> QED  BY <2>1, <2>2, <2>3
<1>6. ASSUME NEW e \in gone.dispatchedOutbox
      PROVE  clock - occurred[e] > policy.days["dispatchedOutbox"]
  <2>1. "dispatchedOutbox" \in Categories
    BY DEF Categories
  <2>2. PICK days, cutoff : days = policy.days["dispatchedOutbox"] /\ cutoff = Cutoff(at, days)
    OBVIOUS
  <2>3. days \in Nat \cup {NoTime} /\ plan[i].cutoffs["dispatchedOutbox"] = cutoff
    BY <1>4, <2>1, <2>2
  <2>4. Before(occurred[e], cutoff)
    BY <1>1, <2>3 DEF Candidates
  <2>5. occurred[e] \in Nat
    BY <1>2 DEF RInv, RTypeOK
  <2>6. days \in Nat /\ cutoff = at - days /\ occurred[e] < cutoff
    BY <2>2, <2>3, <2>4 DEF Before, Cutoff
  <2> QED  BY <1>4, <2>2, <2>5, <2>6
<1> QED  BY <1>2, <1>5, <1>6

LEMMA PlanLeavesWhatIsOpen ==
  ASSUME RInv, NEW i \in PlanIds, ApplyPlan(i)
  PROVE  /\ \A p \in DOMAIN delivery : delivery[p].status \in {"pending", "processing"} =>
              p \in DOMAIN delivery' /\ p[1] \in outbox'
         /\ outbox \ dispatched \subseteq outbox'
         /\ \A p \in receipts : p \in DOMAIN delivery' => p \in receipts'
<1>1. PICK gone : gone = Candidates(plan[i].cutoffs)
  OBVIOUS
<1>2. /\ outbox' = outbox \ gone.dispatchedOutbox
      /\ DOMAIN delivery' = DOMAIN delivery \ (gone.succeededDeliveries \cup gone.deadDeliveries)
      /\ receipts' = receipts \ (gone.succeededDeliveries \cup gone.deadDeliveries)
      /\ \A e \in gone.dispatchedOutbox : \A h \in Handlers : <<e, h>> \notin DOMAIN delivery
  BY <1>1, ApplyForm
<1>3. gone.dispatchedOutbox \subseteq dispatched
  BY <1>1 DEF Candidates, Orphans
<1>4. ASSUME NEW p \in DOMAIN delivery, delivery[p].status \in {"pending", "processing"}
      PROVE  p \in DOMAIN delivery' /\ p[1] \in outbox'
  <2>1. delivery[p].status \in {"pending", "processing"}
    BY <1>4
  <2>2. p \notin gone.succeededDeliveries \cup gone.deadDeliveries
    <3>1. \A s, c : \A q \in Completed(s, c) : delivery[q].status = s
      BY DEF Completed
    <3>2. /\ \A q \in gone.succeededDeliveries : delivery[q].status = "succeeded"
          /\ \A q \in gone.deadDeliveries : delivery[q].status = "dead"
      BY <1>1, <3>1 DEF Candidates
    <3> QED  BY <2>1, <3>2
  <2>3. PICK e \in outbox, h \in Handlers : p = <<e, h>>
    BY DEF RInv, RTypeOK
  <2>4. e \notin gone.dispatchedOutbox
    BY <1>2, <2>3
  <2> QED  BY <1>2, <2>2, <2>3, <2>4
<1> QED  BY <1>2, <1>3, <1>4

\* A plan takes exactly what its preview showed, under the policy it was made
\* with, and nothing that is still needed, however many workers run beside it.
THEOREM PlansTakeWhatTheyShow == RSpec => RemovesAsPreviewed
<1>1. ASSUME RInv, [RNext]_rvars, NEW i \in PlanIds, plan[i] # NoPlan, plan'[i] # plan[i]
      PROVE  ApplyPlan(i)
  <2>1. PICK j \in PlanIds : ApplyPlan(j)
    BY <1>1, OnlyPlansTake
  <2>2. plan' = [plan EXCEPT ![j].status = "applied"]
    BY <2>1 DEF ApplyPlan
  <2>3. i = j
    BY <1>1, <2>2 DEF RInv, RTypeOK
  <2> QED  BY <2>1, <2>3
<1>2. RInv /\ [RNext]_rvars =>
        [\A i \in PlanIds :
           plan[i] # NoPlan /\ plan'[i] # plan[i] =>
             LET selected == plan[i].candidates
             IN  /\ outbox \ outbox' = selected.dispatchedOutbox
                 /\ DOMAIN delivery \ DOMAIN delivery' =
                      selected.succeededDeliveries \cup selected.deadDeliveries
                 /\ \A c \in Categories : plan[i].cutoffs[c] = NoTime <=> policy.days[c] = NoTime
                 /\ \A e \in outbox \ outbox' :
                      clock - occurred[e] > policy.days["dispatchedOutbox"]]_rvars
  BY <1>1, PlanTakesWhatItShows
<1>3. ASSUME RInv, [RNext]_rvars
      PROVE  /\ \A p \in DOMAIN delivery : delivery[p].status \in {"pending", "processing"} =>
                   p \in DOMAIN delivery' /\ p[1] \in outbox'
             /\ outbox \ dispatched \subseteq outbox'
             /\ \A p \in receipts : p \in DOMAIN delivery' => p \in receipts'
  <2>1. CASE \E i \in PlanIds : ApplyPlan(i)
    BY <1>3, <2>1, PlanLeavesWhatIsOpen
  <2>2. CASE ~\E i \in PlanIds : ApplyPlan(i)
    <3>1. /\ outbox \subseteq outbox' /\ DOMAIN delivery \subseteq DOMAIN delivery'
          /\ receipts \subseteq receipts'
      BY <1>3, <2>2, OnlyPlansTake
    <3>2. \A p \in DOMAIN delivery : p[1] \in outbox
      BY <1>3 DEF RInv, RTypeOK
    <3> QED  BY <3>1, <3>2
  <2> QED  BY <2>1, <2>2
<1>4. RInv /\ [RNext]_rvars =>
        [/\ \A p \in DOMAIN delivery : delivery[p].status \in {"pending", "processing"} =>
              p \in DOMAIN delivery' /\ p[1] \in outbox'
         /\ outbox \ dispatched \subseteq outbox'
         /\ \A p \in receipts : p \in DOMAIN delivery' => p \in receipts']_rvars
  BY <1>3
<1>5. RInv => RTypeOK
  BY DEF RInv
<1> QED  BY <1>2, <1>4, <1>5, RetentionInvariance, PTL
         DEF RSpec, RemovesAsPreviewed, AppliesAsPreviewed, KeepsWhatIsOpen
=============================================================================

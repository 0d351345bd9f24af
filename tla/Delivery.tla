------------------------------ MODULE Delivery ------------------------------
(***************************************************************************)
(* What the outbox promises for one event and one handler, without workers, *)
(* leases, clocks or attempts (event-worker.ts, EventDeliveryStatus): an    *)
(* offered delivery is open until it is closed, it is closed as succeeded   *)
(* only after its handler has run to completion, and success is final; a    *)
(* delivery closed as dead can be reopened by an operator.                  *)
(***************************************************************************)
CONSTANT Deliveries

VARIABLES
  outcome,    \* the outcome of every delivery: "none" until it is offered
  handled     \* the deliveries whose handler has completed at least once

vars == <<outcome, handled>>

Outcomes == {"none", "open", "succeeded", "dead"}

Init ==
  /\ outcome = [d \in Deliveries |-> "none"]
  /\ handled = {}

\* One transaction moves any number of deliveries from one outcome to another.
Move(from, to) ==
  /\ outcome' \in [Deliveries -> Outcomes]
  /\ \A d \in Deliveries :
       outcome'[d] # outcome[d] => outcome[d] = from /\ outcome'[d] = to
  /\ UNCHANGED handled

\* Fan-out offers what is missing.
Offer == Move("none", "open")

\* A claim buries what was lost with its last lease, a failure what it reports.
Bury == Move("open", "dead")

\* The handler completes; a late or repeated completion changes nothing more.
Handle(d) ==
  /\ outcome[d] # "none"
  /\ handled' = handled \cup {d}
  /\ UNCHANGED outcome

Succeed(d) ==
  /\ outcome[d] = "open"
  /\ d \in handled
  /\ outcome' = [outcome EXCEPT ![d] = "succeeded"]
  /\ UNCHANGED handled

Reopen(d) ==
  /\ outcome[d] = "dead"
  /\ outcome' = [outcome EXCEPT ![d] = "open"]
  /\ UNCHANGED handled

Next ==
  \/ Offer
  \/ Bury
  \/ \E d \in Deliveries : Handle(d) \/ Succeed(d) \/ Reopen(d)

Spec == Init /\ [][Next]_vars
=============================================================================

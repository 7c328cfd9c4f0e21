------------------------------ MODULE CostGuard ------------------------------
(***************************************************************************)
(* kani-cost-guard.  Cloud Billing publishes budget notifications, Pub/Sub *)
(* pushes each to the service until it is answered with success, and the   *)
(* service pauses the Scheduler job that starts the validators once actual *)
(* spending reaches the brake threshold.  The service keeps no state: what *)
(* it knows of a notification is the request it is answering.              *)
(*                                                                         *)
(* Pub/Sub, Cloud Billing, the metadata server, the Scheduler and the      *)
(* operator are external.  Deliveries are repeated, overtake each other    *)
(* and lose their answers; calls fail, or take effect after their caller   *)
(* gave up.  Thresholds are percentages; ratios are exact, not f64.        *)
(***************************************************************************)
EXTENDS Naturals

CONSTANTS
  Messages,       \* Pub/Sub message ids
  Requests,       \* deliveries the service may have in hand at once
  Budgets, BudgetId,        \* budgets of the billing account, and the one configured
  BrakeThreshold, DryRun,
  Rules,          \* alert thresholds of the budgets
  Figures,        \* of each budget: what may have been spent, and the budget set
  MaxFaults,      \* lost answers, failed calls and redeliveries in a behaviour
  None, Malformed

ASSUME ConfigAssumption ==
  BrakeThreshold \in Nat \ {0} /\ DryRun \in BOOLEAN /\ BudgetId \in Budgets \cup {None}
ASSUME BillingAssumption ==
  /\ Rules \subseteq Nat
  /\ Figures \in [Budgets -> SUBSET [cost : Nat, amount : Nat]]
ASSUME NoneAssumption == None \notin Messages /\ None \notin Nat
ASSUME FaultsAssumption == MaxFaults \in Nat

VARIABLES
  spend,      \* the figures of each budget this month
  topic,      \* notification of a message, None before it is published
  billed,     \* the figures of its budget when a message was published
  acked,      \* messages Pub/Sub has an answer for
  carries,    \* the message a request delivers
  at,         \* where the handler of a request is
  late,       \* messages whose pause call outlived its caller
  scheduler,  \* state of the validators' Scheduler job
  braked,     \* messages the Scheduler was paused for
  faults

vars == <<spend, topic, billed, acked, carries, at, late, scheduler, braked, faults>>
billing == <<spend, topic, billed>>

Optional == Nat \cup {None}

\* BudgetNotification with the budgetId attribute of its message.
Notification ==
  [budgetId : Budgets, alert : Optional, forecast : Optional,
   cost : Optional, amount : Optional]

\* Spending has reached t percent of a budget.  Of no budget there is no share.
HasReached(f, t) == f.amount > 0 /\ 100 * f.cost >= t * f.amount

\* The highest alert threshold that spending exceeds.
IsAlert(p, f) ==
  LET exceeded == {q \in Rules : HasReached(f, q)}
  IN  IF exceeded = {} THEN p = None
                       ELSE p \in exceeded /\ \A q \in exceeded : q <= p

\* What Cloud Billing may send of a budget: its forecast is always beyond the
\* threshold, and a notification may lack the alert or the cost.
NotificationsOf(b, f) ==
  {n \in [budgetId : {b}, alert : Rules \cup {None}, forecast : {BrakeThreshold},
          cost : {f.cost, None}, amount : {f.amount}] :
     n.alert = None \/ IsAlert(n.alert, f)}

BudgetIdMatches(n) == BudgetId = None \/ n.budgetId = BudgetId

\* Faulty variant: the cost is divided by a budget of zero.
PauseOnAnyCost(n) ==
  \/ n.alert # None /\ n.alert >= BrakeThreshold
  \/ n.cost # None /\ n.amount # None /\ 100 * n.cost >= BrakeThreshold * n.amount

\* Faulty variant: spending must exceed the threshold.
PauseBeyond(n) ==
  \/ n.alert # None /\ n.alert > BrakeThreshold
  \/ /\ n.cost # None /\ n.amount # None
     /\ n.amount > 0 /\ 100 * n.cost > BrakeThreshold * n.amount

\* should_pause_scheduler: either figure is enough, and a forecast is not.
ShouldPause(n) ==
  \/ n.alert # None /\ n.alert >= BrakeThreshold
  \/ /\ n.cost # None /\ n.amount # None
     /\ n.amount > 0 /\ 100 * n.cost >= BrakeThreshold * n.amount

\* handle_budget_event comes to its call of the Scheduler: the payload decodes, it
\* is about the configured budget, the brake applies and this is no dry run.
Brakes(n) == n # Malformed /\ BudgetIdMatches(n) /\ ShouldPause(n) /\ ~DryRun

Goto(r, place) == at' = [at EXCEPT ![r] = place]
Fault == faults < MaxFaults /\ faults' = faults + 1

Init ==
  /\ spend \in {f \in [Budgets -> UNION {Figures[b] : b \in Budgets}] :
                 \A b \in Budgets : f[b] \in Figures[b]}
  /\ topic = [m \in Messages |-> None]
  /\ billed = [m \in Messages |-> None]
  /\ acked = {} /\ late = {} /\ braked = {}
  /\ carries = [r \in Requests |-> None]
  /\ at = [r \in Requests |-> "free"]
  /\ scheduler = "ENABLED"
  /\ faults = 0

\* Spending grows, and starts again with the month; the owner changes a budget.
Spend(b, f) ==
  /\ f # spend[b]
  /\ spend' = [spend EXCEPT ![b] = f]
  /\ UNCHANGED <<topic, billed, acked, carries, at, late, scheduler, braked, faults>>

Publish(m) ==
  /\ topic[m] = None
  /\ \/ /\ topic' = [topic EXCEPT ![m] = Malformed]
        /\ UNCHANGED billed
     \/ \E b \in Budgets : \E n \in NotificationsOf(b, spend[b]) :
          /\ topic' = [topic EXCEPT ![m] = n]
          /\ billed' = [billed EXCEPT ![m] = spend[b]]
  /\ UNCHANGED <<spend, acked, carries, at, late, scheduler, braked, faults>>

\* A message is pushed until it is acknowledged, also while an earlier push of it
\* is not answered yet; now and then once more after that.
Deliver(m, r) ==
  /\ topic[m] # None /\ at[r] = "free"
  /\ IF m \in acked THEN Fault ELSE UNCHANGED faults
  /\ carries' = [carries EXCEPT ![r] = m]
  /\ Goto(r, "received")
  /\ UNCHANGED <<billing, acked, late, scheduler, braked>>

\* Faulty variant: a payload that does not decode is an error.
FailOnMalformed(r) ==
  /\ at[r] = "received"
  /\ ~Brakes(topic[carries[r]])
  /\ Goto(r, IF topic[carries[r]] = Malformed THEN "error" ELSE "ok")
  /\ UNCHANGED <<billing, acked, carries, late, scheduler, braked, faults>>

\* The early returns of handle_budget_event: all of them answer with success.
Ignore(r) ==
  /\ at[r] = "received"
  /\ ~Brakes(topic[carries[r]])
  /\ Goto(r, "ok")
  /\ UNCHANGED <<billing, acked, carries, late, scheduler, braked, faults>>

\* metadata_access_token is asked for a token ...
AskToken(r) ==
  /\ at[r] = "received"
  /\ Brakes(topic[carries[r]])
  /\ Goto(r, "token")
  /\ UNCHANGED <<billing, acked, carries, late, scheduler, braked, faults>>

\* ... and with it pause_scheduler_job calls the Scheduler.
CallPause(r) ==
  /\ at[r] = "token"
  /\ Goto(r, "pause")
  /\ UNCHANGED <<billing, acked, carries, late, scheduler, braked, faults>>

\* The Scheduler pauses the job for message m.  A paused job may be paused.
Pauses(m) == scheduler' = "PAUSED" /\ braked' = braked \cup {m}

PauseJob(r) ==
  /\ at[r] = "pause"
  /\ Pauses(carries[r])
  /\ Goto(r, "paused")
  /\ UNCHANGED <<billing, acked, carries, late, faults>>

\* A pause call that is given up may still arrive.
GiveUp(r) == late' = IF at[r] = "pause" THEN late \cup {carries[r]} ELSE late

\* Faulty variant: an error of the Scheduler is logged, and answered with success.
SwallowError(r) ==
  /\ at[r] \in {"token", "pause", "paused"}
  /\ Fault /\ GiveUp(r)
  /\ Goto(r, "ok")
  /\ UNCHANGED <<billing, acked, carries, scheduler, braked>>

\* The token or the pause is refused, or the answer to either is lost.
CallFails(r) ==
  /\ at[r] \in {"token", "pause", "paused"}
  /\ Fault /\ GiveUp(r)
  /\ Goto(r, "error")
  /\ UNCHANGED <<billing, acked, carries, scheduler, braked>>

CallSucceeds(r) ==
  /\ at[r] = "paused"
  /\ Goto(r, "ok")
  /\ UNCHANGED <<billing, acked, carries, late, scheduler, braked, faults>>

\* Faulty variant: errors are answered with 200.
AcknowledgeAlways(r) ==
  /\ at[r] \in {"ok", "error"}
  /\ acked' = acked \cup {carries[r]}
  /\ carries' = [carries EXCEPT ![r] = None]
  /\ Goto(r, "free")
  /\ UNCHANGED <<billing, late, scheduler, braked, faults>>

\* Faulty variant: a request that was answered is answered again.
AnswerTwice(r) ==
  /\ at[r] \in {"ok", "error"}
  /\ acked' = acked \cup {m \in {carries[r]} : at[r] = "ok"}
  /\ carries' = [carries EXCEPT ![r] = None]
  /\ UNCHANGED <<billing, at, late, scheduler, braked, faults>>

\* budget_events answers 200, 202 or 500; Pub/Sub takes a 2xx for an acknowledgement.
Answer(r) ==
  /\ at[r] \in {"ok", "error"}
  /\ acked' = acked \cup {m \in {carries[r]} : at[r] = "ok"}
  /\ carries' = [carries EXCEPT ![r] = None]
  /\ Goto(r, "free")
  /\ UNCHANGED <<billing, late, scheduler, braked, faults>>

\* The instance stops, the connection breaks, or the answer comes too late.
Drop(r) ==
  /\ at[r] # "free"
  /\ Fault /\ GiveUp(r)
  /\ carries' = [carries EXCEPT ![r] = None]
  /\ Goto(r, "free")
  /\ UNCHANGED <<billing, acked, scheduler, braked>>

\* A pause call whose caller is gone takes effect, or never does.
LatePause(m) ==
  /\ m \in late
  /\ late' = late \ {m}
  /\ Pauses(m)
  /\ UNCHANGED <<billing, acked, carries, at, faults>>

LatePauseIsLost(m) ==
  /\ m \in late
  /\ late' = late \ {m}
  /\ UNCHANGED <<billing, acked, carries, at, scheduler, braked, faults>>

\* The operator resumes the job.
Resume ==
  /\ scheduler = "PAUSED"
  /\ scheduler' = "ENABLED"
  /\ UNCHANGED <<billing, acked, carries, at, late, braked, faults>>

\* The steps of the handler and of the services it waits for.
Handle(r) ==
  Ignore(r) \/ AskToken(r) \/ CallPause(r) \/ PauseJob(r) \/ CallSucceeds(r) \/ Answer(r)

Next ==
  \/ \E b \in Budgets : \E f \in Figures[b] : Spend(b, f)
  \/ \E m \in Messages : Publish(m) \/ LatePause(m) \/ LatePauseIsLost(m)
  \/ \E m \in Messages, r \in Requests : Deliver(m, r)
  \/ \E r \in Requests : Handle(r) \/ CallFails(r) \/ Drop(r)
  \/ Resume

Spec == Init /\ [][Next]_vars

\* Pub/Sub pushes what is not acknowledged again and again, and after finitely many
\* faults a request runs to its answer.
Fairness ==
  /\ \A m \in Messages : WF_vars(\E r \in Requests : m \notin acked /\ Deliver(m, r))
  /\ \A r \in Requests : WF_vars(Handle(r))

FairSpec == Spec /\ Fairness
-----------------------------------------------------------------------------
\* Type invariant of the service and of its surroundings.
TypeOK ==
  /\ spend \in [Budgets -> [cost : Nat, amount : Nat]]
  /\ topic \in [Messages -> Notification \cup {Malformed, None}]
  /\ billed \in [Messages -> [cost : Nat, amount : Nat] \cup {None}]
  /\ acked \subseteq Messages /\ late \subseteq Messages /\ braked \subseteq Messages
  /\ carries \in [Requests -> Messages \cup {None}]
  /\ at \in [Requests -> {"free", "received", "token", "pause", "paused", "ok", "error"}]
  /\ \A r \in Requests : at[r] # "free" => carries[r] \in Messages
  /\ scheduler \in {"ENABLED", "PAUSED"}
  /\ faults \in 0..MaxFaults

\* Message m is about the configured budget, and that budget had been spent up to the
\* threshold when Cloud Billing sent it.
Overspent(m) ==
  /\ topic[m] \notin {None, Malformed}
  /\ BudgetId \in {topic[m].budgetId, None}
  /\ HasReached(billed[m], BrakeThreshold)

\* ... and the message says so, by the figures or by the alert of a rule.
Reported(m) ==
  /\ Overspent(m)
  /\ \/ topic[m].cost # None /\ topic[m].amount # None
     \/ topic[m].alert # None /\ BrakeThreshold \in Rules

\* Pub/Sub forgets a notification of a budget spent up to the threshold, exactly to it
\* included, only after the Scheduler was paused for it: no failure between the check
\* and the answer to the pause call, and no redelivery, turns into an acknowledgement.
NoBrakeIsLost == \A m \in acked : Reported(m) /\ ~DryRun => m \in braked

\* The job is paused only for a notification of the configured budget that was sent
\* when actual spending had reached the threshold: not for a forecast, not for another
\* budget on the topic, not for a budget of zero, and never in a dry run.
BrakesOnSpending == \A m \in braked : Overspent(m) /\ ~DryRun

\* PHASE2_CLOUD_MVP.md "pauses the validator Scheduler job when actual spend crosses
\* 80%": a notification that says so leads to a pause, however often its delivery
\* fails on the way.
BrakeEngages == \A m \in Messages : Reported(m) /\ ~DryRun ~> m \in braked

\* Every notification is acknowledged in the end, the malformed ones too: none is
\* pushed for ever.
QueueDrains == \A m \in Messages : topic[m] # None ~> m \in acked
=============================================================================

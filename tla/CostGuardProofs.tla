--------------------------- MODULE CostGuardProofs ---------------------------
(***************************************************************************)
(* The cost guard loses no brake and brakes only on spending, for any      *)
(* number of messages, requests in hand, budgets and faults.               *)
(***************************************************************************)
EXTENDS CostGuard, TLAPS

\* The requests in hand that have passed the checks of handle_budget_event.
Calling == {"token", "pause", "paused"}

\* What is in flight is published, so its notification no longer changes.
Published ==
  /\ \A m \in acked \cup late \cup braked : topic[m] # None
  /\ \A r \in Requests : at[r] # "free" => topic[carries[r]] # None

\* A request that will be answered with success has seen the Scheduler paused.
Paused ==
  /\ \A r \in Requests : at[r] = "paused" => carries[r] \in braked
  /\ \A r \in Requests :
       at[r] = "ok" /\ Brakes(topic[carries[r]]) => carries[r] \in braked

\* Only notifications that call for the brake get as far as the Scheduler.
Checked ==
  /\ \A m \in late \cup braked : Brakes(topic[m])
  /\ \A r \in Requests : at[r] \in Calling => Brakes(topic[carries[r]])

BudgetFigures == [cost : Nat, amount : Nat]

\* What a notification says was so when it was sent.
Billed ==
  \A m \in Messages :
    topic[m] \notin {None, Malformed} =>
      /\ billed[m] \in BudgetFigures
      /\ \E b \in Budgets : topic[m] \in NotificationsOf(b, billed[m])

\* What is acknowledged was braked for, if it calls for the brake.
Answered == \A m \in acked : Brakes(topic[m]) => m \in braked

IInv == TypeOK /\ Published /\ Paused /\ Checked /\ Billed /\ Answered

\* Spending that reaches a threshold reaches every lower one.
LEMMA ReachesLower ==
  ASSUME NEW f \in BudgetFigures, NEW q \in Nat, NEW t \in Nat, t <= q, HasReached(f, q)
  PROVE  HasReached(f, t)
<1> DEFINE amount == f.amount
<1>1. amount \in Nat /\ f.cost \in Nat
  BY DEF BudgetFigures
<1> HIDE DEF amount
<1>2. t * amount <= q * amount
  <2>1. q - t \in Nat /\ q = t + (q - t)
    OBVIOUS
  <2>2. q * amount = t * amount + (q - t) * amount
    BY <1>1, <2>1, SMT
  <2>3. (q - t) * amount \in Nat /\ t * amount \in Nat
    BY <1>1, <2>1, SMT
  <2> QED BY <2>2, <2>3
<1>3. t * amount \in Nat /\ q * amount \in Nat
  BY <1>1
<1> QED BY <1>1, <1>2, <1>3 DEF HasReached, amount

\* A notification of a budget spent up to the threshold calls for the brake, if it
\* says so, and no other does.
LEMMA SentWhenReached ==
  ASSUME NEW f \in BudgetFigures, NEW b \in Budgets, NEW n \in NotificationsOf(b, f)
  PROVE  /\ n \in Notification /\ n.budgetId = b
         /\ ShouldPause(n) => HasReached(f, BrakeThreshold)
         /\ /\ HasReached(f, BrakeThreshold)
            /\ \/ n.cost # None /\ n.amount # None
               \/ n.alert # None /\ BrakeThreshold \in Rules
            => ShouldPause(n)
<1>1. f.cost \in Nat /\ f.amount \in Nat /\ BrakeThreshold \in Nat
  BY ConfigAssumption DEF BudgetFigures
<1>2. n \in [budgetId : {b}, alert : Rules \cup {None}, forecast : {BrakeThreshold},
             cost : {f.cost, None}, amount : {f.amount}]
  BY DEF NotificationsOf
<1>3. n \in Notification /\ n.budgetId = b
  BY <1>1, <1>2, BillingAssumption DEF Notification, Optional
<1>4. ASSUME n.alert # None
      PROVE  /\ n.alert \in Rules /\ HasReached(f, n.alert)
             /\ \A q \in Rules : HasReached(f, q) => q <= n.alert
  BY <1>2, <1>4 DEF NotificationsOf, IsAlert
<1>5. n.amount = f.amount /\ (n.cost # None => n.cost = f.cost) /\ Rules \subseteq Nat
  BY <1>2, BillingAssumption
<1>6. ASSUME ShouldPause(n) PROVE HasReached(f, BrakeThreshold)
  <2>1. CASE n.alert # None /\ n.alert >= BrakeThreshold
    BY <1>1, <1>4, <1>5, <2>1, ReachesLower
  <2>2. CASE ~(n.alert # None /\ n.alert >= BrakeThreshold)
    BY <1>5, <1>6, <2>2 DEF ShouldPause, HasReached
  <2> QED BY <2>1, <2>2
<1>7. ASSUME HasReached(f, BrakeThreshold), n.cost # None, n.amount # None
      PROVE  ShouldPause(n)
  BY <1>5, <1>7 DEF ShouldPause, HasReached
<1>8. ASSUME HasReached(f, BrakeThreshold), n.alert # None, BrakeThreshold \in Rules
      PROVE  ShouldPause(n)
  BY <1>1, <1>4, <1>5, <1>8 DEF ShouldPause
<1> QED BY <1>3, <1>6, <1>7, <1>8

\* So the service brakes for what was overspent when it was sent, and only for that.
LEMMA BrakesWhenOverspent ==
  ASSUME TypeOK, Billed, NEW m \in Messages
  PROVE  /\ topic[m] # None /\ Brakes(topic[m]) => Overspent(m) /\ ~DryRun
         /\ Reported(m) /\ ~DryRun => Brakes(topic[m])
<1>1. CASE topic[m] \in {None, Malformed}
  BY <1>1 DEF Brakes, Reported, Overspent
<1>2. CASE topic[m] \notin {None, Malformed}
  <2>1. billed[m] \in BudgetFigures
    BY <1>2 DEF TypeOK, Billed, BudgetFigures
  <2>2. PICK b \in Budgets : topic[m] \in NotificationsOf(b, billed[m])
    BY <1>2 DEF Billed
  <2> QED
    BY <1>2, <2>1, <2>2, SentWhenReached DEF Brakes, BudgetIdMatches, Overspent, Reported
<1> QED BY <1>1, <1>2

\* The type invariant and the strengthening hold at the start.
LEMMA InitInv == Init => IInv
<1> SUFFICES ASSUME Init PROVE IInv
  OBVIOUS
<1>1. spend \in [Budgets -> [cost : Nat, amount : Nat]]
  BY BillingAssumption DEF Init
<1>2. TypeOK
  BY <1>1, FaultsAssumption DEF Init, TypeOK
<1>3. Published /\ Paused /\ Checked /\ Billed /\ Answered
  BY DEF Init, Published, Paused, Checked, Billed, Answered, Calling
<1> QED BY <1>2, <1>3 DEF IInv

\* Billing: spending changes, and a notification is published.
LEMMA BillingStep ==
  ASSUME IInv,
         \/ \E b \in Budgets : \E f \in Figures[b] : Spend(b, f)
         \/ \E m \in Messages : Publish(m)
  PROVE  IInv'
<1>1. CASE \E b \in Budgets : \E f \in Figures[b] : Spend(b, f)
  <2> PICK b \in Budgets : \E f \in Figures[b] : Spend(b, f)
    BY <1>1
  <2> PICK f \in Figures[b] : Spend(b, f)
    OBVIOUS
  <2>1. f \in BudgetFigures
    BY BillingAssumption DEF BudgetFigures
  <2>2. TypeOK'
    BY <2>1 DEF IInv, TypeOK, Spend, BudgetFigures
  <2>3. UNCHANGED <<topic, billed, acked, carries, at, late, braked>>
    BY DEF Spend
  <2>4. Billed'
    BY <2>3 DEF IInv, Billed, NotificationsOf, IsAlert, HasReached
  <2>5. (Published /\ Paused /\ Checked /\ Answered)'
    BY <2>3 DEF IInv, Published, Paused, Checked, Answered, Calling, Brakes,
                BudgetIdMatches, ShouldPause
  <2> QED BY <2>2, <2>4, <2>5 DEF IInv
<1>2. CASE \E m \in Messages : Publish(m)
  <2> PICK m \in Messages : Publish(m)
    BY <1>2
  <2>1. PICK n, f :
          /\ topic' = [topic EXCEPT ![m] = n]
          /\ billed' = [billed EXCEPT ![m] = f]
          /\ \/ n = Malformed /\ f = billed[m]
             \/ \E b \in Budgets : n \in NotificationsOf(b, f) /\ f = spend[b]
    <3>1. CASE topic' = [topic EXCEPT ![m] = Malformed] /\ UNCHANGED billed
      <4>1. billed' = [billed EXCEPT ![m] = billed[m]]
        BY <3>1 DEF IInv, TypeOK
      <4> QED BY <3>1, <4>1
    <3>2. CASE \E b \in Budgets : \E n \in NotificationsOf(b, spend[b]) :
                 /\ topic' = [topic EXCEPT ![m] = n]
                 /\ billed' = [billed EXCEPT ![m] = spend[b]]
      BY <3>2
    <3> QED BY <3>1, <3>2 DEF Publish
  <2>2. /\ n \in Notification \cup {Malformed}
        /\ f \in BudgetFigures \cup {None}
        /\ n \notin {None, Malformed} =>
             f \in BudgetFigures /\ \E b \in Budgets : n \in NotificationsOf(b, f)
    <3>1. CASE n = Malformed
      BY <2>1, <3>1 DEF IInv, TypeOK, BudgetFigures, NotificationsOf
    <3>2. CASE n # Malformed
      <4> PICK b \in Budgets : n \in NotificationsOf(b, f) /\ f = spend[b]
        BY <2>1, <3>2
      <4>1. f \in BudgetFigures
        BY DEF IInv, TypeOK, BudgetFigures
      <4> QED BY <4>1, SentWhenReached
    <3> QED BY <3>1, <3>2
  <2>3. UNCHANGED <<spend, acked, carries, at, late, scheduler, braked, faults>>
    BY DEF Publish
  <2>4. TypeOK'
    BY <2>1, <2>2, <2>3 DEF IInv, TypeOK, BudgetFigures
  <2>5. topic[m] = None /\ \A k \in Messages : topic[k] # None => topic'[k] = topic[k]
    BY <2>1 DEF IInv, TypeOK, Publish
  <2>6. /\ topic'[m] = n /\ billed'[m] = f
        /\ \A k \in Messages \ {m} : topic'[k] = topic[k] /\ billed'[k] = billed[k]
    BY <2>1 DEF IInv, TypeOK
  <2>7. Billed'
    BY <2>2, <2>6 DEF IInv, Billed, NotificationsOf, IsAlert, HasReached
  <2>8. Published' /\ Answered'
    BY <2>3, <2>5 DEF IInv, TypeOK, Published, Answered, Brakes, BudgetIdMatches, ShouldPause
  <2>9. Paused' /\ Checked'
    BY <2>3, <2>5 DEF IInv, TypeOK, Published, Paused, Checked, Calling, Brakes,
                      BudgetIdMatches, ShouldPause
  <2> QED BY <2>4, <2>7, <2>8, <2>9 DEF IInv
<1> QED BY <1>1, <1>2

\* A step that leaves billing alone keeps what is known of it.
LEMMA BilledStays == ASSUME IInv, UNCHANGED billing PROVE Billed'
  BY DEF IInv, Billed, billing, NotificationsOf, IsAlert, HasReached

\* Every step of a request keeps the type invariant.
LEMMA RequestType ==
  ASSUME IInv, NEW r \in Requests,
         (\E m \in Messages : Deliver(m, r)) \/ Handle(r) \/ CallFails(r) \/ Drop(r)
  PROVE  TypeOK' /\ UNCHANGED billing
<1> USE DEF IInv, TypeOK, billing, Goto
<1>1. CASE \E m \in Messages : Deliver(m, r)
  BY <1>1, FaultsAssumption DEF Deliver, Fault
<1>2. CASE Ignore(r) \/ AskToken(r) \/ CallPause(r) \/ CallSucceeds(r)
  BY <1>2 DEF Ignore, AskToken, CallPause, CallSucceeds
<1>3. CASE PauseJob(r)
  BY <1>3 DEF PauseJob, Pauses
<1>4. CASE Answer(r)
  BY <1>4 DEF Answer
<1>5. CASE CallFails(r)
  BY <1>5, FaultsAssumption DEF CallFails, Fault, GiveUp
<1>6. CASE Drop(r)
  BY <1>6, FaultsAssumption DEF Drop, Fault, GiveUp
<1> QED BY <1>1, <1>2, <1>3, <1>4, <1>5, <1>6 DEF Handle

\* Every step of a request keeps the rest of the invariant.
LEMMA RequestStep ==
  ASSUME IInv, NEW r \in Requests,
         (\E m \in Messages : Deliver(m, r)) \/ Handle(r) \/ CallFails(r) \/ Drop(r)
  PROVE  IInv'
<1>1. TypeOK' /\ Billed' /\ UNCHANGED topic
  BY RequestType, BilledStays DEF billing
<1>2. \A m : Brakes(topic'[m]) <=> Brakes(topic[m])
  BY <1>1
<1> SUFFICES (Published /\ Paused /\ Checked /\ Answered)'
  BY <1>1 DEF IInv
<1> USE <1>1 DEF IInv, TypeOK, Published, Paused, Checked, Answered, Calling, Goto
<1>3. CASE \E m \in Messages : Deliver(m, r)
  BY <1>3 DEF Deliver
<1>4. CASE Ignore(r) \/ AskToken(r)
  BY <1>4 DEF Ignore, AskToken
<1>5. CASE CallPause(r) \/ CallSucceeds(r)
  BY <1>5 DEF CallPause, CallSucceeds
<1>6. CASE PauseJob(r)
  BY <1>6 DEF PauseJob, Pauses
<1>7. CASE Answer(r)
  BY <1>7 DEF Answer
<1>8. CASE CallFails(r)
  BY <1>8 DEF CallFails, GiveUp
<1>9. CASE Drop(r)
  BY <1>9 DEF Drop, GiveUp
<1> QED BY <1>3, <1>4, <1>5, <1>6, <1>7, <1>8, <1>9 DEF Handle

\* So do calls that outlived their caller, and the operator.
LEMMA OutsideStep ==
  ASSUME IInv, Resume \/ \E m \in Messages : LatePause(m) \/ LatePauseIsLost(m)
  PROVE  IInv'
<1>1. UNCHANGED billing
  BY DEF Resume, LatePause, LatePauseIsLost
<1>2. TypeOK' /\ Billed'
  BY <1>1, BilledStays DEF IInv, TypeOK, billing, Resume, LatePause, LatePauseIsLost, Pauses
<1>3. (Published /\ Paused /\ Checked /\ Answered)'
  BY <1>1 DEF IInv, Published, Paused, Checked, Answered, Calling, billing,
              Resume, LatePause, LatePauseIsLost, Pauses
<1> QED BY <1>2, <1>3 DEF IInv

\* The strengthening is inductive.
LEMMA InvStep == IInv /\ [Next]_vars => IInv'
<1> SUFFICES ASSUME IInv, [Next]_vars PROVE IInv'
  OBVIOUS
<1>1. CASE UNCHANGED vars
  <2>1. UNCHANGED billing
    BY <1>1 DEF vars, billing
  <2> QED BY <1>1, <2>1, BilledStays
           DEF vars, IInv, TypeOK, Published, Paused, Checked, Answered
<1>2. CASE Next
  BY <1>2, BillingStep, RequestStep, OutsideStep DEF Next
<1> QED BY <1>1, <1>2

\* The invariant holds of every state of the service and its surroundings.
THEOREM Invariant == Spec => []IInv
  BY InitInv, InvStep, PTL DEF Spec

\* Types: a request in hand carries a message.
THEOREM TypeCorrect == Spec => []TypeOK
<1>1. IInv => TypeOK
  BY DEF IInv
<1> QED BY Invariant, <1>1, PTL

\* A notification of a budget spent up to the threshold is acknowledged only after the
\* Scheduler was paused for it, for any number of deliveries and faults.
THEOREM BrakeKept == Spec => []NoBrakeIsLost
<1>1. IInv => NoBrakeIsLost
  BY BrakesWhenOverspent DEF IInv, TypeOK, Answered, NoBrakeIsLost
<1> QED BY Invariant, <1>1, PTL

\* The Scheduler is paused only for notifications sent when spending of the configured
\* budget had reached the threshold, for any thresholds, budgets and figures.
THEOREM SpendingOnly == Spec => []BrakesOnSpending
<1>1. IInv => BrakesOnSpending
  BY BrakesWhenOverspent DEF IInv, TypeOK, Published, Checked, BrakesOnSpending
<1> QED BY Invariant, <1>1, PTL
=============================================================================

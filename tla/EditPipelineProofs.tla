------------------------- MODULE EditPipelineProofs -------------------------
(***************************************************************************)
(* What EditPipeline guarantees for every number of requests, every limit  *)
(* and every number of weeks.                                              *)
(***************************************************************************)
EXTENDS EditPipeline, FiniteSetTheorems, TLAPS

USE RequestsAssumption, LimitAssumption, LastWeekAssumption, ModeAssumption

-----------------------------------------------------------------------------
\* The states and steps stay within their types: edits_used never goes below
\* zero (the check constraint on users) and the window is always a real week.
THEOREM TypeCorrect == Spec => []TypeOK
<1>1. Init => TypeOK
  BY DEF Init, TypeOK, Weeks, NoRow, LogRow
<1>2. TypeOK /\ [Next]_vars => TypeOK'
  <2> SUFFICES ASSUME TypeOK, [Next]_vars PROVE TypeOK'
    OBVIOUS
  <2> USE DEF TypeOK, Weeks, Running, Ended
  <2>1. ASSUME NEW r \in Requests, Begin(r) PROVE TypeOK'
    BY <2>1 DEF Begin, account
  <2>2. ASSUME NEW r \in Requests, Charge(r) PROVE TypeOK'
    BY <2>2 DEF Charge, Consume
  <2>3. ASSUME NEW r \in Requests, Reject(r) PROVE TypeOK'
    BY <2>3 DEF Reject, LogRow, account
  <2>4. ASSUME NEW r \in Requests, Produce(r) PROVE TypeOK'
    BY <2>4 DEF Produce, account
  <2>5. ASSUME NEW r \in Requests, Fail(r) PROVE TypeOK'
    BY <2>5 DEF Fail, Refund, LogRow, account
  <2>6. ASSUME NEW r \in Requests, Finish(r) PROVE TypeOK'
    BY <2>6 DEF Finish, LogRow, account
  <2>7. ASSUME NEW r \in Requests, Sent(r) PROVE TypeOK'
    BY <2>7 DEF Sent, account
  <2>8. ASSUME NEW r \in Requests, SettleFails(r) PROVE TypeOK'
    BY <2>8 DEF SettleFails, account
  <2>9. CASE Crash
    BY <2>9 DEF Crash, account
  <2>10. CASE Restart
    BY <2>10 DEF Restart, account, locals
  <2>11. CASE TurnWeek
    BY <2>11 DEF TurnWeek, account, locals
  <2>12. CASE ChangePlan
    BY <2>12 DEF ChangePlan, locals
  <2>13. CASE UNCHANGED vars
    BY <2>13 DEF vars, account, locals
  <2> QED
    BY <2>1, <2>2, <2>3, <2>4, <2>5, <2>6, <2>7, <2>8, <2>9, <2>10, <2>11,
       <2>12, <2>13 DEF Next, Step
<1> QED
  BY <1>1, <1>2, PTL DEF Spec

\* The guarantee of the conditional UPDATE: however requests interleave and
\* whenever they read the clock, edits_used never exceeds the limit.
THEOREM CounterBounded == Spec => []CounterWithinLimit
<1>1. Init => CounterWithinLimit
  BY DEF Init, CounterWithinLimit, Cap
<1>2. TypeOK /\ CounterWithinLimit /\ [Next]_vars => CounterWithinLimit'
  <2> SUFFICES ASSUME TypeOK, CounterWithinLimit, [Next]_vars
               PROVE  CounterWithinLimit'
    OBVIOUS
  <2> USE DEF TypeOK, CounterWithinLimit, Cap
  <2>1. ASSUME NEW r \in Requests, Charge(r) PROVE CounterWithinLimit'
    BY <2>1 DEF Charge, CanConsume, Consume, IsNewPeriod
  <2>2. ASSUME NEW r \in Requests, Fail(r) PROVE CounterWithinLimit'
    BY <2>2 DEF Fail, Refund, account
  <2>3. CASE ChangePlan
    BY <2>3 DEF ChangePlan
  <2>4. CASE UNCHANGED account
    BY <2>4 DEF account
  <2>5. \/ \E r \in Requests : Charge(r) \/ Fail(r)
        \/ ChangePlan
        \/ UNCHANGED account
    BY DEF Next, Step, vars, Begin, Reject, Produce, Finish, Sent, SettleFails,
           Crash, Restart, TurnWeek
  <2> QED
    BY <2>1, <2>2, <2>3, <2>4, <2>5
<1> QED
  BY <1>1, <1>2, TypeCorrect, PTL DEF Spec

-----------------------------------------------------------------------------
\* The inductive invariant behind the accounting.  It says when a request may
\* be charged at all, that no charge lies beyond the stored window, that a
\* request waiting for its charge read the current week, and that the counter
\* and the limit agree with the edits billed.
Uncharged == \A r \in Requests :
                pc[r] \in {"idle", "begun", "rejected"} => ~ charged[r]
ChargesBehindWindow == \A r \in Requests :
                          charged[r] => now[r] <= quota_period_start
WindowBehindClock == quota_period_start <= week
ClockReadingsFresh == \A r \in Requests :
                         pc[r] = "begun" => now[r] = week

Accounting ==
    /\ TypeOK
    /\ Uncharged
    /\ ChargesBehindWindow
    /\ WindowBehindClock
    /\ ClockReadingsFresh
    /\ CounterMatchesBills
    /\ WeeklyLimit

\* The billed edits of a week are finitely many.
LEMMA BilledFinite ==
    ASSUME NEW w PROVE IsFiniteSet(BilledIn(w)) /\ Cardinality(BilledIn(w)) \in Nat
  BY FS_Subset, FS_CardinalityType DEF BilledIn

\* A charge bills the request to the week of its clock reading, and only there.
LEMMA ChargeBills ==
    ASSUME TypeOK, Uncharged, NEW r \in Requests, Charge(r), NEW w \in Weeks
    PROVE  /\ r \notin BilledIn(w)
           /\ BilledIn(w)' = IF w = now[r] THEN BilledIn(w) \cup {r}
                                               ELSE BilledIn(w)
<1>1. r \notin BilledIn(w)
  BY DEF BilledIn, Billed, Charge, Uncharged
<1>2. \A q \in Requests : Billed(q)' <=> (q = r \/ Billed(q))
  BY DEF Charge, Billed, TypeOK
<1>3. \A q \in Requests : now'[q] = now[q]
  BY DEF Charge, TypeOK
<1> QED
  BY <1>1, <1>2, <1>3 DEF BilledIn

\* The failure branch takes the request off whichever week it was billed to.
LEMMA FailUnbills ==
    ASSUME TypeOK, NEW r \in Requests, Fail(r), NEW w \in Weeks
    PROVE  BilledIn(w)' = BilledIn(w) \ {r}
<1>1. \A q \in Requests : Billed(q)' <=> (q # r /\ Billed(q))
  BY DEF Fail, Billed, TypeOK
<1>2. \A q \in Requests : now'[q] = now[q]
  BY DEF Fail, TypeOK
<1> QED
  BY <1>1, <1>2 DEF BilledIn

\* Steps that neither charge nor refund leave every week's bill alone.
Bystander ==
    \/ \E r \in Requests : \/ Begin(r) \/ Reject(r) \/ Produce(r) \/ Finish(r)
                           \/ Sent(r) \/ SettleFails(r)
    \/ Crash \/ Restart \/ TurnWeek \/ ChangePlan \/ UNCHANGED vars

LEMMA BystandersKeepBills ==
    ASSUME TypeOK, Uncharged, Bystander, NEW w \in Weeks
    PROVE  /\ BilledIn(w)' = BilledIn(w)
           /\ edits_used' = edits_used
           /\ quota_period_start' = quota_period_start
           /\ \A r \in Requests : charged'[r] = charged[r]
           /\ \A r \in Requests : charged[r] => now'[r] = now[r]
<1> USE DEF TypeOK
<1>1. edits_used' = edits_used /\ quota_period_start' = quota_period_start
  BY DEF Bystander, Begin, Reject, Produce, Finish, Sent, SettleFails, Crash,
         Restart, TurnWeek, ChangePlan, vars, account, locals
<1>2. \A r \in Requests : /\ charged'[r] = charged[r]
                          /\ charged[r] => now'[r] = now[r]
                          /\ charged[r] => (pc'[r] = "failed" <=> pc[r] = "failed")
  <2>1. ASSUME NEW q \in Requests, Begin(q) PROVE <1>2
    BY <2>1 DEF Begin, Uncharged
  <2>2. ASSUME NEW q \in Requests,
               Reject(q) \/ Produce(q) \/ Finish(q) \/ Sent(q) \/ SettleFails(q)
        PROVE  <1>2
    BY <2>2 DEF Reject, Produce, Finish, Sent, SettleFails, locals
  <2>3. CASE Crash
    BY <2>3 DEF Crash, Running
  <2>4. CASE Restart \/ TurnWeek \/ ChangePlan \/ UNCHANGED vars
    BY <2>4 DEF Restart, TurnWeek, ChangePlan, vars, account, locals
  <2> QED
    BY <2>1, <2>2, <2>3, <2>4 DEF Bystander
<1> QED
  BY <1>1, <1>2 DEF BilledIn, Billed

-----------------------------------------------------------------------------
\* One lemma per kind of step: each preserves the accounting.

\* When the UPDATE finds a row to charge, the request's week has room for one
\* more edit, and the counter says how many it already holds.
LEMMA ChargeHasRoom ==
    ASSUME Accounting, NEW r \in Requests, Charge(r)
    PROVE  /\ Cardinality(BilledIn(now[r])) =
                 IF IsNewPeriod(now[r]) THEN 0 ELSE edits_used
           /\ Cardinality(BilledIn(now[r])) + 1 <= Cap
<1> USE DEF Accounting
<1>1. now[r] = week
  BY DEF Charge, ClockReadingsFresh
<1>2. CASE IsNewPeriod(now[r])
  <2>1. BilledIn(now[r]) = {}
    BY <1>1, <1>2 DEF IsNewPeriod, BilledIn, Billed, ChargesBehindWindow, TypeOK, Weeks
  <2> QED
    BY <1>2, <2>1, FS_EmptySet DEF Cap
<1>3. CASE ~ IsNewPeriod(now[r])
  <2>1. quota_period_start = now[r]
    BY <1>1, <1>3 DEF IsNewPeriod, WindowBehindClock, TypeOK, Weeks
  <2>2. edits_used < Limit
    BY <1>3 DEF Charge, CanConsume
  <2> QED
    BY <1>3, <2>1, <2>2 DEF CounterMatchesBills, Cap, TypeOK
<1> QED
  BY <1>2, <1>3

\* Charging: either the window is fresh, and nothing was billed to the week
\* before, or the window is the request's own week and has room.
LEMMA ChargeKeepsAccounting ==
    ASSUME Accounting, TypeOK', NEW r \in Requests, Charge(r)
    PROVE  Accounting'
<1> USE DEF Accounting
<1>0. PICK w0 \in Weeks : w0 = now[r]
  BY DEF TypeOK
<1> USE <1>0
<1>1. w0 = week /\ w0 \in Weeks /\ week' = week /\ quota_period_start' = w0
  BY DEF Charge, Consume, ClockReadingsFresh, TypeOK
<1>2. Uncharged'
  BY DEF Charge, Uncharged, TypeOK
<1>3. ChargesBehindWindow'
  <2>1. quota_period_start <= w0
    BY <1>1 DEF WindowBehindClock
  <2>2. now' = now /\ charged' = [charged EXCEPT ![r] = TRUE]
    BY DEF Charge
  <2>3. \A q \in Requests : charged[q] => now[q] <= w0
    BY <2>1, <1>1 DEF ChargesBehindWindow, TypeOK, Weeks
  <2> SUFFICES ASSUME NEW q \in Requests, charged'[q]
               PROVE  now'[q] <= quota_period_start'
    BY DEF ChargesBehindWindow
  <2>4. CASE q = r
    <3>1. now'[q] = w0 /\ quota_period_start' = w0
      BY <1>0, <1>1, <2>2, <2>4
    <3> QED
      BY <3>1, <1>1 DEF Weeks
  <2>5. CASE q # r
    BY <1>1, <2>2, <2>3, <2>5 DEF TypeOK
  <2> QED
    BY <2>4, <2>5
<1>4. WindowBehindClock'
  BY <1>1 DEF WindowBehindClock, Weeks, TypeOK
<1>5. ClockReadingsFresh'
  BY DEF Charge, ClockReadingsFresh, TypeOK
<1>6. BilledIn(w0)' = BilledIn(w0) \cup {r} /\ r \notin BilledIn(w0)
  BY ChargeBills, <1>1
<1>7. Cardinality(BilledIn(w0))' = Cardinality(BilledIn(w0)) + 1
  BY <1>6, BilledFinite, FS_AddElement
<1>8. /\ Cardinality(BilledIn(w0)) = IF IsNewPeriod(w0) THEN 0 ELSE edits_used
      /\ Cardinality(BilledIn(w0)) + 1 <= Cap
  BY <1>0, ChargeHasRoom
<1>9. CounterMatchesBills'
  <2>1. edits_used' = Cardinality(BilledIn(w0)) + 1
    BY <1>8 DEF Charge, Consume
  <2>2. BilledIn(quota_period_start)' = BilledIn(w0)'
    BY <1>1 DEF BilledIn, Charge
  <2> QED
    BY <2>1, <2>2, <1>7 DEF CounterMatchesBills
<1>10. WeeklyLimit'
  <2> SUFFICES ASSUME NEW w \in Weeks PROVE Cardinality(BilledIn(w))' <= Cap
    BY DEF WeeklyLimit, Cap
  <2>1. CASE w = w0
    BY <2>1, <1>7, <1>8
  <2>2. CASE w # w0
    BY <2>2, ChargeBills DEF WeeklyLimit
  <2> QED
    BY <2>1, <2>2
<1> QED
  BY <1>2, <1>3, <1>4, <1>5, <1>9, <1>10

\* Failing: the refund lowers the counter exactly when the request was billed
\* to the stored week; in any other week the counter is about other edits.
LEMMA FailKeepsAccounting ==
    ASSUME Accounting, TypeOK', NEW r \in Requests, Fail(r)
    PROVE  Accounting'
<1> USE DEF Accounting
<1>1. /\ week' = week /\ quota_period_start' = quota_period_start
      /\ now' = now /\ charged' = charged
  BY DEF Fail, Refund, account
<1>2. Uncharged'
  BY <1>1 DEF Fail, Uncharged, TypeOK
<1>3. ChargesBehindWindow'
  BY <1>1 DEF ChargesBehindWindow
<1>4. WindowBehindClock'
  BY <1>1 DEF WindowBehindClock
<1>5. ClockReadingsFresh'
  BY <1>1 DEF Fail, ClockReadingsFresh, TypeOK
<1>6. \A w \in Weeks : /\ BilledIn(w)' = BilledIn(w) \ {r}
                       /\ Cardinality(BilledIn(w))' = IF r \in BilledIn(w)
                                                      THEN Cardinality(BilledIn(w)) - 1
                                                      ELSE Cardinality(BilledIn(w))
  <2> TAKE w \in Weeks
  <2>1. BilledIn(w)' = BilledIn(w) \ {r}
    BY FailUnbills
  <2> QED
    BY <2>1, BilledFinite, FS_RemoveElement
<1>7. CounterMatchesBills'
  <2> DEFINE W == quota_period_start
  <2>1. W \in Weeks
    BY DEF TypeOK
  <2>2. r \in BilledIn(W) <=> charged[r] /\ now[r] = W
    BY DEF BilledIn, Billed, Fail
  <2>3. Cardinality(BilledIn(quota_period_start))' =
          IF r \in BilledIn(W) THEN Cardinality(BilledIn(W)) - 1
                               ELSE Cardinality(BilledIn(W))
    <3>1. BilledIn(quota_period_start)' = BilledIn(W) \ {r}
      BY <1>1, <1>6, <2>1 DEF BilledIn
    <3> QED
      BY <3>1, BilledFinite, FS_RemoveElement
  <2>4. edits_used' = IF r \in BilledIn(W) THEN edits_used - 1 ELSE edits_used
    <3>1. CASE r \in BilledIn(W)
      <4>1. edits_used > 0
        BY <3>1, BilledFinite, FS_EmptySet DEF CounterMatchesBills, TypeOK
      <4> QED
        BY <3>1, <2>2, <4>1 DEF Fail, Refund
    <3>2. CASE r \notin BilledIn(W)
      BY <3>2, <2>2 DEF Fail, Refund, account
    <3> QED
      BY <3>1, <3>2
  <2> QED
    BY <2>3, <2>4 DEF CounterMatchesBills
<1>8. WeeklyLimit'
  <2> SUFFICES ASSUME NEW w \in Weeks PROVE Cardinality(BilledIn(w))' <= Cap
    BY DEF WeeklyLimit, Cap
  <2> QED
    BY <1>6, BilledFinite DEF WeeklyLimit, Cap
<1> QED
  BY <1>2, <1>3, <1>4, <1>5, <1>7, <1>8

\* Every other step moves no money; only the clock and the requests' own
\* positions have to be followed.
LEMMA BystanderKeepsAccounting ==
    ASSUME PromptCharges, Accounting, TypeOK', Bystander
    PROVE  Accounting'
<1> USE DEF Accounting
<1>1. \A w \in Weeks : BilledIn(w)' = BilledIn(w)
  BY BystandersKeepBills
<1>2. /\ edits_used' = edits_used
      /\ quota_period_start' = quota_period_start
      /\ \A q \in Requests : charged'[q] = charged[q]
      /\ \A q \in Requests : charged[q] => now'[q] = now[q]
  <2>1. 0 \in Weeks
    BY DEF Weeks
  <2> QED
    BY <2>1, BystandersKeepBills
<1>3. CounterMatchesBills'
  <2>1. quota_period_start \in Weeks
    BY DEF TypeOK
  <2>2. BilledIn(quota_period_start)' = BilledIn(quota_period_start)
    BY <1>1, <1>2, <2>1 DEF BilledIn
  <2> QED
    BY <1>2, <2>2 DEF CounterMatchesBills
<1>4. WeeklyLimit'
  BY <1>1 DEF WeeklyLimit, Cap
<1>5. ChargesBehindWindow'
  BY <1>2 DEF ChargesBehindWindow
<1>6. week <= week' /\ (week' # week => \A q \in Requests : pc[q] # "begun")
  BY DEF Bystander, Begin, Reject, Produce, Finish, Sent, SettleFails, Crash,
         Restart, TurnWeek, ChangePlan, vars, TypeOK, Weeks
<1>7. WindowBehindClock'
  BY <1>2, <1>6 DEF WindowBehindClock, TypeOK, Weeks
<1>8. Uncharged' /\ ClockReadingsFresh'
  <2> USE DEF TypeOK, Uncharged, ClockReadingsFresh
  <2>1. ASSUME NEW r \in Requests, Begin(r) PROVE <1>8
    BY <2>1 DEF Begin
  <2>2. ASSUME NEW r \in Requests,
               Reject(r) \/ Produce(r) \/ Finish(r) \/ Sent(r) \/ SettleFails(r)
        PROVE  <1>8
    BY <2>2 DEF Reject, Produce, Finish, Sent, SettleFails
  <2>3. CASE Crash
    BY <2>3 DEF Crash, Running
  <2>4. CASE Restart \/ ChangePlan \/ UNCHANGED vars
    BY <2>4 DEF Restart, ChangePlan, vars, locals
  <2>5. CASE TurnWeek
    BY <2>5 DEF TurnWeek, locals
  <2> QED
    BY <2>1, <2>2, <2>3, <2>4, <2>5 DEF Bystander
<1> QED
  BY <1>3, <1>4, <1>5, <1>7, <1>8

\* Every step is a charge, a failure or a bystander.
LEMMA StepKinds ==
    ASSUME [Next]_vars
    PROVE  (\E r \in Requests : Charge(r) \/ Fail(r)) \/ Bystander
  BY DEF Next, Step, Bystander

\* When no request straddles the end of a week, the accounting invariant holds
\* in every reachable state, crashes and lost requests included.
THEOREM AccountingHolds ==
    ASSUME PromptCharges PROVE Spec => []Accounting
<1>1. Init => Accounting
  <2> SUFFICES ASSUME Init PROVE Accounting
    OBVIOUS
  <2>1. TypeOK
    BY DEF Init, TypeOK, Weeks, NoRow, LogRow
  <2>2. \A w \in Weeks : BilledIn(w) = {}
    BY DEF Init, BilledIn, Billed
  <2>3. quota_period_start \in Weeks
    BY DEF Init, Weeks
  <2> QED
    BY <2>1, <2>2, <2>3, FS_EmptySet
    DEF Init, Accounting, Uncharged, ChargesBehindWindow, WindowBehindClock,
        ClockReadingsFresh, CounterMatchesBills, WeeklyLimit, Cap
<1>2. Accounting /\ TypeOK' /\ [Next]_vars => Accounting'
  BY StepKinds, ChargeKeepsAccounting, FailKeepsAccounting, BystanderKeepsAccounting
<1> QED
  BY <1>1, <1>2, TypeCorrect, PTL DEF Spec

\* "Free users get FREE_WEEKLY_EDIT_QUOTA edits per week", for every limit and
\* any number of concurrent requests, provided none straddles the week's end.
THEOREM WeeklyLimitHolds ==
    ASSUME PromptCharges PROVE Spec => []WeeklyLimit
  BY AccountingHolds, PTL DEF Accounting

\* The stored counter is always exactly the edits billed to its week.
THEOREM CounterExact ==
    ASSUME PromptCharges PROVE Spec => []CounterMatchesBills
  BY AccountingHolds, PTL DEF Accounting

\* The status endpoint reports exactly the edits billed to the current week,
\* although it never writes the row it reads.
THEOREM StatusExact ==
    ASSUME PromptCharges PROVE Spec => []StatusIsExact
<1>1. Accounting => StatusIsExact
  <2> SUFFICES ASSUME Accounting PROVE StatusIsExact
    OBVIOUS
  <2> USE DEF Accounting
  <2>1. CASE quota_period_start = week
    BY <2>1 DEF StatusIsExact, StatusUsed, CounterMatchesBills, TypeOK, Weeks
  <2>2. CASE quota_period_start < week
    <3>1. BilledIn(week) = {}
      BY <2>2 DEF BilledIn, Billed, ChargesBehindWindow, TypeOK, Weeks
    <3> QED
      BY <2>2, <3>1, FS_EmptySet DEF StatusIsExact, StatusUsed, TypeOK, Weeks
  <2> QED
    BY <2>1, <2>2 DEF WindowBehindClock, TypeOK, Weeks
<1> QED
  BY <1>1, AccountingHolds, PTL

\* The status and the charging UPDATE agree on admission, in every state and
\* with no assumption on when requests read the clock.
THEOREM StatusAgreesWithCharge == Spec => []StatusPredictsAdmission
<1>1. TypeOK => StatusPredictsAdmission
  BY DEF TypeOK, Weeks, StatusPredictsAdmission, StatusRemaining, StatusUsed,
         CanConsume, IsNewPeriod
<1> QED
  BY <1>1, TypeCorrect, PTL

\* An edit is only refused when the limit is really spent on edits still billed.
THEOREM RejectionsAreHonest ==
    ASSUME PromptCharges PROVE Spec => RejectedOnlyWhenSpent
<1> DEFINE A == \A r \in Requests :
                  pc[r] = "begun" /\ pc'[r] = "rejected"
                    => Cardinality(BilledIn(now[r])) >= Limit
<1>1. Accounting /\ [Next]_vars => A \/ UNCHANGED vars
  <2> SUFFICES ASSUME Accounting, [Next]_vars, ~ UNCHANGED vars,
                      NEW r \in Requests, pc[r] = "begun", pc'[r] = "rejected"
               PROVE  Cardinality(BilledIn(now[r])) >= Limit
    OBVIOUS
  <2> USE DEF Accounting
  <2>1. Reject(r)
    BY DEF Next, Step, Begin, Charge, Reject, Produce, Fail, Finish, Sent,
           SettleFails, Crash, Restart, TurnWeek, ChangePlan, vars, locals, TypeOK
  <2>2. quota_period_start = now[r]
    BY <2>1 DEF Reject, CanConsume, IsNewPeriod, ClockReadingsFresh,
                WindowBehindClock, TypeOK, Weeks
  <2>3. edits_used >= Limit
    BY <2>1 DEF Reject, CanConsume, TypeOK
  <2> QED
    BY <2>2, <2>3 DEF CounterMatchesBills
<1> QED
  BY <1>1, AccountingHolds, PTL DEF Spec, RejectedOnlyWhenSpent

-----------------------------------------------------------------------------
\* Which requests have a charged row in usage_logs: exactly the ones that got
\* past Finish, of those that were charged.
RowsFollowCharges ==
    \A r \in Requests :
       /\ usage[r].charged => charged[r] /\ pc[r] \in {"streaming", "done", "lost"}
       /\ charged[r] /\ pc[r] \in {"streaming", "done"} => usage[r].charged

\* The rows follow the charges in every behaviour, crashes included.
LEMMA RowsFollow == Spec => []RowsFollowCharges
<1>1. Init => RowsFollowCharges
  BY DEF Init, RowsFollowCharges, NoRow
<1>2. TypeOK /\ RowsFollowCharges /\ [Next]_vars => RowsFollowCharges'
  <2> SUFFICES ASSUME TypeOK, RowsFollowCharges, [Next]_vars
               PROVE  RowsFollowCharges'
    OBVIOUS
  <2> USE DEF RowsFollowCharges, TypeOK
  <2>1. ASSUME NEW r \in Requests, Begin(r) \/ Charge(r) PROVE RowsFollowCharges'
    BY <2>1 DEF Begin, Charge
  <2>2. ASSUME NEW r \in Requests, Reject(r) \/ Fail(r) PROVE RowsFollowCharges'
    BY <2>2 DEF Reject, Fail
  <2>3. ASSUME NEW r \in Requests, Produce(r) \/ Sent(r) PROVE RowsFollowCharges'
    BY <2>3 DEF Produce, Sent
  <2>4. ASSUME NEW r \in Requests, Finish(r) PROVE RowsFollowCharges'
    BY <2>4 DEF Finish
  <2>5. ASSUME NEW r \in Requests, SettleFails(r) PROVE RowsFollowCharges'
    BY <2>5 DEF SettleFails
  <2>6. CASE Crash
    BY <2>6 DEF Crash, Running
  <2>7. CASE Restart \/ TurnWeek \/ ChangePlan \/ UNCHANGED vars
    BY <2>7 DEF Restart, TurnWeek, ChangePlan, vars, locals
  <2> QED
    BY <2>1, <2>2, <2>3, <2>4, <2>5, <2>6, <2>7 DEF Next, Step
<1> QED
  BY <1>1, <1>2, TypeCorrect, PTL DEF Spec

\* With nothing in flight and nothing lost, usage_logs alone accounts for the
\* stored counter.
THEOREM AuditHolds ==
    ASSUME PromptCharges PROVE Spec => []AuditMatchesCounter
<1>1. Accounting /\ RowsFollowCharges => AuditMatchesCounter
  <2> SUFFICES ASSUME Accounting, RowsFollowCharges, Quiet,
                      \A r \in Requests : pc[r] # "lost"
               PROVE  edits_used = Cardinality(LoggedIn(quota_period_start))
    BY DEF AuditMatchesCounter
  <2> USE DEF Accounting
  <2>1. \A r \in Requests : usage[r].charged <=> Billed(r)
    BY DEF Billed, RowsFollowCharges, Uncharged, Quiet, Running, Ended, TypeOK
  <2> QED
    BY <2>1 DEF LoggedIn, BilledIn, CounterMatchesBills
<1> QED
  BY <1>1, AccountingHolds, RowsFollow, PTL

\* A charge comes before the work, and the success row before the end.
SuccessOnRecord ==
    \A r \in Requests :
       /\ charged[r] => pc[r] \notin {"idle", "begun", "rejected"}
       /\ pc[r] \in {"streaming", "done"} => usage[r].status = "succeeded"

\* A user is billed only for a request whose file was produced and recorded, in
\* every behaviour, crashes and lost settlements included.
THEOREM OnlyFilesAreBilled == Spec => []BilledOnlyForFiles
<1>1. Init => SuccessOnRecord
  BY DEF Init, SuccessOnRecord
<1>2. TypeOK /\ SuccessOnRecord /\ [Next]_vars => SuccessOnRecord'
  <2> SUFFICES ASSUME TypeOK, SuccessOnRecord, [Next]_vars
               PROVE  SuccessOnRecord'
    OBVIOUS
  <2> USE DEF SuccessOnRecord, TypeOK
  <2>1. ASSUME NEW r \in Requests, Begin(r) \/ Charge(r) PROVE SuccessOnRecord'
    BY <2>1 DEF Begin, Charge
  <2>2. ASSUME NEW r \in Requests, Reject(r) \/ Fail(r) PROVE SuccessOnRecord'
    BY <2>2 DEF Reject, Fail
  <2>3. ASSUME NEW r \in Requests, Produce(r) \/ Sent(r) PROVE SuccessOnRecord'
    BY <2>3 DEF Produce, Sent
  <2>4. ASSUME NEW r \in Requests, Finish(r) PROVE SuccessOnRecord'
    BY <2>4 DEF Finish
  <2>5. ASSUME NEW r \in Requests, SettleFails(r) PROVE SuccessOnRecord'
    BY <2>5 DEF SettleFails
  <2>6. CASE Crash
    BY <2>6 DEF Crash, Running
  <2>7. CASE Restart \/ TurnWeek \/ ChangePlan \/ UNCHANGED vars
    BY <2>7 DEF Restart, TurnWeek, ChangePlan, vars, locals
  <2> QED
    BY <2>1, <2>2, <2>3, <2>4, <2>5, <2>6, <2>7 DEF Next, Step
<1>3. TypeOK /\ SuccessOnRecord => BilledOnlyForFiles
  BY DEF TypeOK, SuccessOnRecord, BilledOnlyForFiles, Billed, Ended
<1> QED
  BY <1>1, <1>2, <1>3, TypeCorrect, PTL DEF Spec

-----------------------------------------------------------------------------
\* The refinement, one lemma per kind of step.

\* The ledger's own FiniteSets counts as the pipeline's does.
LEMMA SameCardinality == ASSUME NEW S PROVE Ledger!Cardinality(S) = Cardinality(S)
  BY DEF Ledger!Cardinality, Cardinality

\* A charge enters the request on the page of the current week, which has room.
LEMMA ChargeEnters ==
    ASSUME Accounting, NEW r \in Requests, Charge(r) PROVE Ledger!Enter(r)
<1> USE DEF Accounting
<1> DEFINE spent == [w \in Weeks |-> BilledIn(w)]
<1>1. now[r] = week /\ week \in Weeks /\ week' = week
  BY DEF Charge, ClockReadingsFresh, TypeOK
<1>2. \A w \in Weeks : r \notin spent[w]
  BY ChargeBills
<1>3. Cardinality(spent[week]) < Cap
  <2>1. Cardinality(BilledIn(week)) + 1 <= Cap
    BY <1>1, ChargeHasRoom
  <2> QED
    BY <1>1, <2>1, BilledFinite DEF Cap
<1>4. spent' = [spent EXCEPT ![week] = @ \cup {r}]
  BY <1>1, ChargeBills
<1> QED
  BY <1>1, <1>2, <1>3, <1>4, SameCardinality DEF Ledger!Enter

\* A failure strikes the request off the page it was charged to, if it was.
LEMMA FailStrikesOut ==
    ASSUME Accounting, NEW r \in Requests, Fail(r)
    PROVE  [Ledger!Next]_(Ledger!ledgerVars)
<1> USE DEF Accounting
<1> DEFINE spent == [w \in Weeks |-> BilledIn(w)]
<1>1. week' = week
  BY DEF Fail
<1>2. \A w \in Weeks : BilledIn(w)' = BilledIn(w) \ {r}
  BY FailUnbills
<1>3. CASE charged[r]
  <2>1. PICK w0 \in Weeks : w0 = now[r]
    BY DEF TypeOK
  <2>2. \A w \in Weeks : r \in BilledIn(w) <=> w = w0
    BY <1>3, <2>1 DEF BilledIn, Billed, Fail
  <2>3. spent' = [spent EXCEPT ![w0] = @ \ {r}]
    BY <1>2, <2>2
  <2>4. Ledger!StrikeOut(r, w0)
    BY <1>1, <2>2, <2>3 DEF Ledger!StrikeOut
  <2> QED
    BY <2>4 DEF Ledger!Next
<1>4. CASE ~ charged[r]
  <2>1. \A w \in Weeks : BilledIn(w)' = BilledIn(w)
    BY <1>2, <1>4 DEF BilledIn, Billed
  <2>2. spent' = spent
    BY <2>1
  <2> QED
    BY <1>1, <2>2 DEF Ledger!ledgerVars
<1> QED
  BY <1>3, <1>4

\* No other step changes a page; a turn of the week is the ledger's own.
LEMMA BystanderStutters ==
    ASSUME Accounting, Bystander PROVE [Ledger!Next]_(Ledger!ledgerVars)
<1> USE DEF Accounting
<1> DEFINE spent == [w \in Weeks |-> BilledIn(w)]
<1>1. spent' = spent
  BY BystandersKeepBills
<1>2. week' = week \/ (TurnWeek /\ week' = week + 1 /\ week + 1 \in Weeks)
  BY DEF Bystander, Begin, Reject, Produce, Finish, Sent, SettleFails, Crash,
         Restart, TurnWeek, ChangePlan, vars, TypeOK, Weeks
<1>3. CASE week' = week
  BY <1>1, <1>3 DEF Ledger!ledgerVars
<1>4. CASE week' = week + 1 /\ week + 1 \in Weeks
  BY <1>1, <1>4 DEF Ledger!Next, Ledger!NextWeek
<1> QED
  BY <1>2, <1>3, <1>4

\* The pipeline, with its counter, its lazy reset, its refunds and its crashes,
\* implements the ledger of weekly pages.
THEOREM PipelineImplementsLedger ==
    ASSUME PromptCharges PROVE Spec => ImplementsLedger
<1>1. Init => Ledger!Init
  BY DEF Init, Ledger!Init, BilledIn, Billed
<1>2. Accounting /\ [Next]_vars => [Ledger!Next]_(Ledger!ledgerVars)
  <2> SUFFICES ASSUME Accounting, [Next]_vars
               PROVE  [Ledger!Next]_(Ledger!ledgerVars)
    OBVIOUS
  <2>1. ASSUME NEW r \in Requests, Charge(r) PROVE Ledger!Next
    BY <2>1, ChargeEnters DEF Ledger!Next
  <2> QED
    BY <2>1, StepKinds, FailStrikesOut, BystanderStutters
<1> QED
  BY <1>1, <1>2, AccountingHolds, PTL DEF Spec, ImplementsLedger, Ledger!Spec
=============================================================================

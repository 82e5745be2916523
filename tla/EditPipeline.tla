---------------------------- MODULE EditPipeline ----------------------------
(***************************************************************************)
(* The weekly quota of one account and the pipeline every PDF-producing    *)
(* endpoint runs through: backend/app/services/quota.py (the conditional   *)
(* UPDATE that charges, the guarded refund, the read-only status) and      *)
(* backend/app/services/edit_pipeline.py (charge, commit, produce, then    *)
(* log and stream, or refund and log).                                     *)
(*                                                                         *)
(* Any number of requests of the account are in flight at once.  A request *)
(* reads the clock once, and everything it does to the quota afterwards    *)
(* uses that reading, however late it is by then.  Each database           *)
(* transaction is one action: the row lock the UPDATE takes is held until  *)
(* the commit, so two charges never interleave inside one another.         *)
(***************************************************************************)
EXTENDS Naturals, FiniteSets

CONSTANTS
    Requests,       \* the edit requests of the account; each is made once
    Limit,          \* settings.free_weekly_edit_quota
    LastWeek,       \* bound: the last week the clock reaches
    PromptCharges,  \* TRUE: no request is between its clock reading and its
                    \* charge when a week ends (nobody straddles Monday 00:00)
    MayCrash        \* TRUE: the process, or its database, may fail at any point

ASSUME RequestsAssumption == IsFiniteSet(Requests)
ASSUME LimitAssumption == Limit \in Nat
ASSUME LastWeekAssumption == LastWeek \in Nat
ASSUME ModeAssumption == PromptCharges \in BOOLEAN /\ MayCrash \in BOOLEAN

VARIABLES
    week,     \* the week the wall clock is in: current_period_start(utcnow())
    premium,             \* users.is_premium_at(now)
    edits_used,          \* users.edits_used
    quota_period_start,  \* users.quota_period_start, as a week
    pc,       \* per request, where run_edit stands
    now,      \* per request, the week of its one clock reading
    charged,  \* per request, run_edit's local flag
    usage,    \* per request, its row in usage_logs
    temp,     \* requests with files left in settings.temp_path
    up        \* whether the server process runs

account == <<premium, edits_used, quota_period_start>>
locals == <<pc, now, charged>>
vars == <<week, account, locals, usage, temp, up>>

Weeks == 0..LastWeek

\* Where a request stands.  "begun": clock read, not yet charged; "producing":
\* inside produce(workspace); "produced": the file exists; "streaming": logged,
\* FileResponse on the wire.  The last four are ends; "lost" is a request that
\* ended without either of run_edit's own endings.
Running == {"begun", "producing", "produced", "streaming"}
Ended == {"done", "failed", "rejected", "lost"}

\* The row a request leaves in usage_logs; "none" is no row.
LogRow == [status : {"none", "succeeded", "failed", "rejected"},
           charged : BOOLEAN]
NoRow == [status |-> "none", charged |-> FALSE]

TypeOK ==
    /\ week \in Weeks
    /\ premium \in BOOLEAN
    /\ edits_used \in Nat
    /\ quota_period_start \in Weeks
    /\ pc \in [Requests -> {"idle"} \cup Running \cup Ended]
    /\ now \in [Requests -> Weeks]
    /\ charged \in [Requests -> BOOLEAN]
    /\ usage \in [Requests -> LogRow]
    /\ temp \in SUBSET Requests
    /\ up \in BOOLEAN

Init ==
    /\ week = 0
    /\ premium \in BOOLEAN
    /\ edits_used = 0
    /\ quota_period_start = 0
    /\ pc = [r \in Requests |-> "idle"]
    /\ now = [r \in Requests |-> 0]
    /\ charged = [r \in Requests |-> FALSE]
    /\ usage = [r \in Requests |-> NoRow]
    /\ temp = {}
    /\ up = TRUE

-----------------------------------------------------------------------------
\* quota.py.  `w` is current_period_start(now) for the caller's own `now`.

\* The stored window is older than the caller's.
IsNewPeriod(w) == quota_period_start < w

\* Variant: the limit itself still has room.
CanConsumeAtLimit(w) == IsNewPeriod(w) \/ edits_used <= Limit

\* The WHERE clause of try_consume: a new window always has room.  Its third
\* conjunct, User.is_active, is left out: no code makes an account inactive.
CanConsume(w) == IsNewPeriod(w) \/ edits_used < Limit

\* Variants: the counter is never reset; the window is never advanced.
ConsumeWithoutReset(w) ==
    /\ edits_used' = edits_used + 1
    /\ quota_period_start' = w
    /\ UNCHANGED premium
ConsumeInOldWindow(w) ==
    /\ edits_used' = IF IsNewPeriod(w) THEN 1 ELSE edits_used + 1
    /\ UNCHANGED <<premium, quota_period_start>>

\* The SET clause of try_consume.
Consume(w) ==
    /\ edits_used' = IF IsNewPeriod(w) THEN 1 ELSE edits_used + 1
    /\ quota_period_start' = w
    /\ UNCHANGED premium

\* Variants: a refund of any week's charge; one that may go below zero too.
RefundAnyWeek(w) ==
    /\ edits_used' = IF edits_used > 0 THEN edits_used - 1 ELSE edits_used
    /\ UNCHANGED <<premium, quota_period_start>>

\* refund: only inside the window of the charge, never below zero.
Refund(w) ==
    /\ edits_used' = IF quota_period_start = w /\ edits_used > 0
                     THEN edits_used - 1 ELSE edits_used
    /\ UNCHANGED <<premium, quota_period_start>>

\* Variant: the stale window is not folded away.
StatusUsedUnfolded(w) == edits_used

\* get_status for a free account: a counter left from an earlier week reads 0.
StatusUsed(w) == IF quota_period_start >= w THEN edits_used ELSE 0
StatusRemaining(w) ==
    IF StatusUsed(w) < Limit THEN Limit - StatusUsed(w) ELSE 0

-----------------------------------------------------------------------------
\* edit_pipeline.py, one action per step of run_edit.

\* The request arrives: run_edit reads the clock and decides whether the user
\* is premium.  A premium request goes straight to producing, uncharged.
Begin(r) ==
    /\ up
    /\ pc[r] = "idle"
    /\ pc' = [pc EXCEPT ![r] = IF premium THEN "producing" ELSE "begun"]
    /\ now' = [now EXCEPT ![r] = week]
    /\ UNCHANGED <<week, account, charged, usage, temp, up>>

\* try_consume finds room: charge and commit.
Charge(r) ==
    /\ up
    /\ pc[r] = "begun"
    /\ CanConsume(now[r])
    /\ Consume(now[r])
    /\ pc' = [pc EXCEPT ![r] = "producing"]
    /\ charged' = [charged EXCEPT ![r] = TRUE]
    /\ UNCHANGED <<week, now, usage, temp, up>>

\* try_consume finds none: log the attempt and answer quota_exceeded.
Reject(r) ==
    /\ up
    /\ pc[r] = "begun"
    /\ ~ CanConsume(now[r])
    /\ pc' = [pc EXCEPT ![r] = "rejected"]
    /\ usage' = [usage EXCEPT ![r] = [status |-> "rejected", charged |-> FALSE]]
    /\ UNCHANGED <<week, account, now, charged, temp, up>>

\* produce(workspace) returns: upload and result are in the temp directory.
Produce(r) ==
    /\ up
    /\ pc[r] = "producing"
    /\ pc' = [pc EXCEPT ![r] = "produced"]
    /\ temp' = temp \cup {r}
    /\ UNCHANGED <<week, account, now, charged, usage, up>>

\* Variant: the failure is logged and the charge kept.
FailWithoutRefund(r) ==
    /\ up
    /\ pc[r] = "producing"
    /\ pc' = [pc EXCEPT ![r] = "failed"]
    /\ usage' = [usage EXCEPT ![r] = [status |-> "failed", charged |-> FALSE]]
    /\ temp' = temp \ {r}
    /\ UNCHANGED <<week, account, now, charged, up>>

\* produce(workspace) raises: clean up, refund with the charge's own clock
\* reading, log the failure, commit, re-raise.
Fail(r) ==
    /\ up
    /\ pc[r] = "producing"
    /\ IF charged[r] THEN Refund(now[r]) ELSE UNCHANGED account
    /\ pc' = [pc EXCEPT ![r] = "failed"]
    /\ usage' = [usage EXCEPT ![r] = [status |-> "failed", charged |-> FALSE]]
    /\ temp' = temp \ {r}
    /\ UNCHANGED <<week, now, charged, up>>

\* Variant: the response is returned without a row in usage_logs.
FinishUnlogged(r) ==
    /\ up
    /\ pc[r] = "produced"
    /\ pc' = [pc EXCEPT ![r] = "streaming"]
    /\ UNCHANGED <<week, account, now, charged, usage, temp, up>>

\* The success is logged and committed; the response starts streaming.
Finish(r) ==
    /\ up
    /\ pc[r] = "produced"
    /\ pc' = [pc EXCEPT ![r] = "streaming"]
    /\ usage' = [usage EXCEPT ![r] = [status |-> "succeeded",
                                      charged |-> charged[r]]]
    /\ UNCHANGED <<week, account, now, charged, temp, up>>

\* Variant: no background task deletes the files.
SentWithoutCleanup(r) ==
    /\ up
    /\ pc[r] = "streaming"
    /\ pc' = [pc EXCEPT ![r] = "done"]
    /\ UNCHANGED <<week, account, now, charged, usage, temp, up>>

\* The body is on the wire: the background task deletes the temp files.
Sent(r) ==
    /\ up
    /\ pc[r] = "streaming"
    /\ pc' = [pc EXCEPT ![r] = "done"]
    /\ temp' = temp \ {r}
    /\ UNCHANGED <<week, account, now, charged, usage, up>>

\* A transaction of the request fails, or the request is cancelled while it
\* waits for one.  Before the charge nothing was written.  After it, the charge
\* was committed long ago and nothing refunds it; in the failure branch the
\* files are already deleted, on the success path nothing deletes them.  A save
\* of the editor still closes the session and commits when its success is already
\* on record: if that fails the response, and its background task, are never run.
SettleFails(r) ==
    /\ MayCrash
    /\ up
    /\ pc[r] \in {"begun", "producing", "produced", "streaming"}
    /\ pc' = [pc EXCEPT ![r] = "lost"]
    /\ UNCHANGED <<week, account, now, charged, usage, temp, up>>

\* The process dies with everything it had in flight.  A request that was
\* producing may have left files behind.
Crash ==
    /\ MayCrash
    /\ up
    /\ up' = FALSE
    /\ pc' = [r \in Requests |-> IF pc[r] \in Running THEN "lost" ELSE pc[r]]
    /\ \E left \in SUBSET {r \in Requests : pc[r] = "producing"} :
          temp' = temp \cup left
    /\ UNCHANGED <<week, account, now, charged, usage>>

\* Variant: the temp directory is not swept.
RestartUnswept ==
    /\ ~ up
    /\ up' = TRUE
    /\ UNCHANGED <<week, account, locals, usage, temp>>

\* Startup sweeps whatever is in the temp directory.
Restart ==
    /\ ~ up
    /\ up' = TRUE
    /\ temp' = {}
    /\ UNCHANGED <<week, account, locals, usage>>

-----------------------------------------------------------------------------
\* What happens around the pipeline.

\* Monday 00:00 UTC.
TurnWeek ==
    /\ week < LastWeek
    /\ PromptCharges => \A r \in Requests : pc[r] # "begun"
    /\ week' = week + 1
    /\ UNCHANGED <<account, locals, usage, temp, up>>

\* The plan changes, or premium_until passes: is_premium_at gives the other
\* answer from now on.
ChangePlan ==
    /\ premium' = ~ premium
    /\ UNCHANGED <<week, edits_used, quota_period_start, locals, usage, temp, up>>

Step(r) ==
    \/ Begin(r)
    \/ Charge(r)
    \/ Reject(r)
    \/ Produce(r)
    \/ Fail(r)
    \/ Finish(r)
    \/ Sent(r)

Next ==
    \/ \E r \in Requests : Step(r) \/ SettleFails(r)
    \/ Crash
    \/ Restart
    \/ TurnWeek
    \/ ChangePlan

Spec == Init /\ [][Next]_vars

\* The event loop keeps running every request it has accepted, the worker
\* threads finish, and an operator restarts a dead server.  Nothing obliges a
\* request to be made, the process to fail or the plan to change.
Fairness ==
    /\ \A r \in Requests :
          WF_vars(Charge(r) \/ Reject(r) \/ Produce(r) \/ Fail(r) \/ Finish(r) \/ Sent(r))
    /\ WF_vars(Restart)

FairSpec == Spec /\ Fairness

-----------------------------------------------------------------------------
\* What the counter means.

\* The edits billed to week w: charged with that week's clock and not refunded
\* by the failure branch of run_edit.
Billed(r) == charged[r] /\ pc[r] # "failed"
BilledIn(w) == {r \in Requests : Billed(r) /\ now[r] = w}

\* "A new window always has room", so a limit of 0 still admits one edit.
Cap == IF Limit = 0 THEN 1 ELSE Limit

\* The same, as usage_logs tells it.
LoggedIn(w) == {r \in Requests : usage[r].charged /\ now[r] = w}

Quiet == \A r \in Requests : pc[r] \notin Running

\* However charges, refunds and week ends interleave, edits_used never exceeds
\* the limit (one edit, when the limit is 0): the UPDATE's own guarantee, which
\* needs no assumption on when requests read the clock.
CounterWithinLimit == edits_used <= Cap

\* The counter is exact: edits_used is the number of edits billed to the week
\* in quota_period_start.  A refund of another week's charge, a second refund,
\* or a reset that forgets an edit of the current week would break it.
CounterMatchesBills == edits_used = Cardinality(BilledIn(quota_period_start))

\* "Free users get FREE_WEEKLY_EDIT_QUOTA edits per week": no week is ever
\* billed for more, whatever the counter says.
WeeklyLimit == \A w \in Weeks : Cardinality(BilledIn(w)) <= Cap

\* The read-only status, which folds a stale window away without writing,
\* reports the edits billed to the current week.
StatusIsExact == StatusUsed(week) = Cardinality(BilledIn(week))

\* The status the client shows and the UPDATE that charges agree on whether
\* the next edit will be admitted, in any state of the row.
StatusPredictsAdmission ==
    Limit > 0 => (StatusRemaining(week) > 0 <=> CanConsume(week))

\* When nothing is in flight and nothing was lost, the counter can be recomputed
\* from usage_logs: every billed edit of the stored week has a row that says so.
AuditMatchesCounter ==
    Quiet /\ (\A r \in Requests : pc[r] # "lost")
      => edits_used = Cardinality(LoggedIn(quota_period_start))

\* quota_exceeded is only ever answered when the edits billed to the request's
\* week really fill the limit: no failed edit keeps eating the quota.
RejectedOnlyWhenSpent ==
    [][\A r \in Requests :
         pc[r] = "begun" /\ pc'[r] = "rejected"
           => Cardinality(BilledIn(now[r])) >= Limit]_vars

\* "A user is never billed an edit for a file the server could not produce":
\* a request that came to an end of run_edit's own and was billed has its success
\* on record, whatever crashed around it.
BilledOnlyForFiles ==
    \A r \in Requests :
       pc[r] \in Ended \ {"lost"} /\ Billed(r) => usage[r].status = "succeeded"

\* Every charge is settled, refunded or recorded as a success, unless the process
\* or a transaction fails between the charge and its settlement.
EveryChargeSettles ==
    \A r \in Requests : charged[r] ~> usage[r].status # "none" \/ pc[r] = "lost"

\* The upload and the result of a request are deleted when it ends, unless it is
\* lost to a failure; and once the server has stopped, whatever it left in the temp
\* directory is deleted in the end.
TempFilesReleased ==
    \A r \in Requests :
       /\ r \in temp ~> (r \notin temp \/ pc[r] = "lost")
       /\ (r \in temp /\ ~ up) ~> r \notin temp

-----------------------------------------------------------------------------
\* The pipeline implements the ledger: a charge is an entry, a refund strikes
\* it out, and every other step leaves the pages alone.
Ledger == INSTANCE QuotaLedger WITH
            Edits <- Requests,
            spent <- [w \in Weeks |-> BilledIn(w)]

\* Every behaviour of the pipeline is a behaviour of QuotaLedger.
ImplementsLedger == Ledger!Spec
=============================================================================

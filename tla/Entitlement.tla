---------------------------- MODULE Entitlement ----------------------------
(***************************************************************************)
(* Who is premium: the subscription rows of one account and the copy of    *)
(* what they grant that is kept on its users row (services/subscription.py,*)
(* scripts/grant_premium.py, GET /users/me/status).                        *)
(*                                                                         *)
(* A job is one database transaction: a status poll, a grant or a revoke   *)
(* from the support tool, or the housekeeping that expires lapsed rows.    *)
(* Each SELECT sees what is committed at that moment, and the session      *)
(* keeps the first copy of a row it has loaded: a later SELECT adds the    *)
(* rows it had not seen and refreshes none.  Flushing and committing are   *)
(* one step here, because no other transaction sees what lies between and  *)
(* the writes do not depend on what they overwrite; a job writes only the  *)
(* columns and rows it changed.                                            *)
(***************************************************************************)
EXTENDS Integers

CONSTANTS
    Jobs,     \* the transactions; the row a grant adds is known by its job
    LastTime  \* where the clock stops

ASSUME LastTimeAssumption == LastTime \in Nat

VARIABLES
    clock,   \* utcnow()
    user,    \* the account's users row: plan and premium_until
    row,     \* per grant: its subscriptions row
    job,     \* per job: its session's copies and how far it is
    settled  \* history: no commit came between the last committed job's first read and its commit

vars == <<clock, user, row, job, settled>>

Times == 0..LastTime
Null == -1
Ends == Times \cup {Null}
Plans == {"free", "premium"}
Kinds == {"poll", "grant", "revoke", "expire"}

Users == [plan : Plans, until : Ends]
NoRow == [status |-> "none", end |-> Null]
RowStates == [status : {"none", "active", "canceled", "expired"}, end : Ends]

Free == [plan |-> "free", until |-> Null]

Unknown == [r \in Jobs |-> NoRow]

\* A transaction that has loaded nothing.
Blank(kind, at) ==
    [kind |-> kind, at |-> at, copy |-> Free, seen |-> Unknown, touched |-> {},
     now |-> 0, due |-> Free, overtaken |-> FALSE]

JobStates ==
    [kind : Kinds, at : {"idle", "stale", "user", "rows", "marked", "synced", "ended"},
     copy : Users, seen : [Jobs -> RowStates], touched : SUBSET Jobs,
     now : Times, due : Users, overtaken : BOOLEAN]

TypeOK ==
    /\ clock \in Times
    /\ user \in Users
    /\ row \in [Jobs -> RowStates]
    /\ job \in [Jobs -> JobStates]
    /\ settled \in BOOLEAN

Init ==
    /\ clock = 0
    /\ user = Free
    /\ row = Unknown
    /\ job = [j \in Jobs |-> Blank("poll", "idle")]
    /\ settled = TRUE

\* A period that has not ended; NULL never ends.
Covers(end, now) == end = Null \/ end > now

Grants(sub, now) == sub.status = "active" /\ Covers(sub.end, now)

\* Mutant: the end of any granting row instead of the latest one.
EntitlesAny(due, subs, now) ==
    LET granting == {r \in Jobs : Grants(subs[r], now)}
    IN  IF granting = {} THEN due = Free
        ELSE due.plan = "premium" /\ \E r \in granting : due.until = subs[r].end

\* sync_entitlement: premium as long as the longest of the granting rows.
Entitles(due, subs, now) ==
    LET granting == {r \in Jobs : Grants(subs[r], now)}
    IN  \/ /\ granting = {}
           /\ due = Free
        \/ /\ due.plan = "premium"
           /\ \E r \in granting : due.until = subs[r].end
           /\ \/ due.until = Null
              \/ \A r \in granting : subs[r].end # Null /\ subs[r].end <= due.until

IsPremiumAt(now) == user.plan = "premium" /\ Covers(user.until, now)

\* What a session knows after a SELECT of the account's rows.
Known(j) == [r \in Jobs |-> IF job[j].seen[r] = NoRow THEN row[r] ELSE job[j].seen[r]]

Step(j, to) == job' = [job EXCEPT ![j] = to]

-----------------------------------------------------------------------------
\* get_current_user and _find: the users row is read first.
Begin(j, kind) ==
    /\ job[j].at = "idle"
    /\ kind \in {"poll", "grant", "revoke"}
    /\ Step(j, [Blank(kind, "user") EXCEPT !.copy = user])
    /\ UNCHANGED <<clock, user, row, settled>>

\* The first half of expire_stale_subscriptions: the lapsed rows are marked in
\* memory; without one there is nothing to do.
BeginExpiry(j) ==
    LET stale == {r \in Jobs : row[r].status = "active" /\ ~Covers(row[r].end, clock)}
    IN  /\ job[j].at = "idle"
        /\ stale # {}
        /\ Step(j, [Blank("expire", "stale") EXCEPT
                        !.now = clock, !.touched = stale,
                        !.seen = [r \in Jobs |-> IF r \in stale THEN [row[r] EXCEPT !.status = "expired"]
                                                 ELSE NoRow]])
        /\ UNCHANGED <<clock, user, row, settled>>

\* Its db.get(User).
LoadUser(j) ==
    /\ job[j].at = "stale"
    /\ Step(j, [job[j] EXCEPT !.at = "user", !.copy = user])
    /\ UNCHANGED <<clock, user, row, settled>>

\* The users row brings its subscriptions along (lazy="selectin") with a SELECT
\* of their own.
LoadRows(j) ==
    /\ job[j].at = "user"
    /\ Step(j, [job[j] EXCEPT !.at = "rows", !.seen = Known(j),
                              !.now = IF job[j].kind = "expire" THEN @ ELSE clock])
    /\ UNCHANGED <<clock, user, row, settled>>

\* revoke cancels every active row it finds; now is read before it looks.
MarkCanceled(j, now) ==
    LET active == {r \in Jobs : Known(j)[r].status = "active"}
    IN  /\ job[j].kind = "revoke" /\ job[j].at = "rows"
        /\ now \in job[j].now..clock
        /\ Step(j, [job[j] EXCEPT
                        !.at = "marked", !.now = now, !.touched = active,
                        !.seen = [r \in Jobs |-> IF r \in active THEN [Known(j)[r] EXCEPT !.status = "canceled"]
                                                 ELSE Known(j)[r]]])
        /\ UNCHANGED <<clock, user, row, settled>>

\* sync_entitlement up to its flush, from what the session then knows.
Sync(j, due) ==
    /\ job[j].kind \in {"revoke", "expire"}
    /\ job[j].at = IF job[j].kind = "revoke" THEN "marked" ELSE "rows"
    /\ Entitles(due, Known(j), job[j].now)
    /\ Step(j, [job[j] EXCEPT !.at = "synced", !.seen = Known(j), !.due = due])
    /\ UNCHANGED <<clock, user, row, settled>>

\* The same for a status poll, whose clock is read after the account is loaded.
SyncPoll(j, now, due) ==
    /\ job[j].kind = "poll" /\ job[j].at = "rows"
    /\ now \in job[j].now..clock
    /\ Entitles(due, Known(j), now)
    /\ Step(j, [job[j] EXCEPT !.at = "synced", !.now = now, !.seen = Known(j), !.due = due])
    /\ UNCHANGED <<clock, user, row, settled>>

\* Mutant: the account is synced with a row that was never added to the session.
GrantUnsaved(j, now, end, due) ==
    LET granted == [Known(j) EXCEPT ![j] = [status |-> "active", end |-> end]]
    IN  /\ job[j].kind = "grant" /\ job[j].at = "rows"
        /\ now \in job[j].now..clock
        /\ Covers(end, now)
        /\ Entitles(due, granted, now)
        /\ Step(j, [job[j] EXCEPT !.at = "synced", !.due = due])
        /\ UNCHANGED <<clock, user, row, settled>>

\* grant_manual_premium: the new row is inserted, then the account is synced.
GrantManualPremium(j, now, end, due) ==
    LET granted == [Known(j) EXCEPT ![j] = [status |-> "active", end |-> end]]
    IN  /\ job[j].kind = "grant" /\ job[j].at = "rows"
        /\ now \in job[j].now..clock
        /\ Covers(end, now)
        /\ Entitles(due, granted, now)
        /\ Step(j, [job[j] EXCEPT !.at = "synced", !.now = now, !.touched = {j},
                                  !.seen = granted, !.due = due])
        /\ UNCHANGED <<clock, user, row, settled>>

\* The columns whose value differs from the one that was loaded.
Written(j) ==
    [plan |-> IF job[j].due.plan # job[j].copy.plan THEN job[j].due.plan ELSE user.plan,
     until |-> IF job[j].due.until # job[j].copy.until THEN job[j].due.until ELSE user.until]

\* Mutant: the session writes back every row it holds.
CommitEverything(j) ==
    /\ job[j].at = "synced"
    /\ user' = Written(j)
    /\ row' = job[j].seen
    /\ settled' = ~job[j].overtaken
    /\ job' = [i \in Jobs |-> IF i = j THEN Blank("poll", "ended")
                              ELSE IF job[i].at \in {"idle", "ended"} THEN job[i]
                              ELSE [job[i] EXCEPT !.overtaken = TRUE]]
    /\ UNCHANGED clock

Commit(j) ==
    /\ job[j].at = "synced"
    /\ user' = Written(j)
    /\ row' = [r \in Jobs |-> IF r \in job[j].touched THEN job[j].seen[r] ELSE row[r]]
    /\ settled' = ~job[j].overtaken
    /\ job' = [i \in Jobs |-> IF i = j THEN Blank("poll", "ended")
                              ELSE IF job[i].at \in {"idle", "ended"} THEN job[i]
                              ELSE [job[i] EXCEPT !.overtaken = TRUE]]
    /\ UNCHANGED clock

\* An error or a lost connection: the session rolls back.
RollBack(j) ==
    /\ job[j].at \notin {"idle", "ended"}
    /\ Step(j, Blank("poll", "ended"))
    /\ UNCHANGED <<clock, user, row, settled>>

Tick ==
    /\ clock < LastTime
    /\ clock' = clock + 1
    /\ UNCHANGED <<user, row, job, settled>>

Next ==
    \/ Tick
    \/ \E j \in Jobs :
        \/ \E kind \in Kinds : Begin(j, kind)
        \/ BeginExpiry(j) \/ LoadUser(j) \/ LoadRows(j)
        \/ \E now \in Times : MarkCanceled(j, now)
        \/ \E due \in Users : Sync(j, due)
        \/ \E now \in Times, due \in Users : SyncPoll(j, now, due)
        \/ \E now \in Times, end \in Ends, due \in Users : GrantManualPremium(j, now, end, due)
        \/ Commit(j) \/ RollBack(j)

Spec == Init /\ [][Next]_vars

-----------------------------------------------------------------------------
(* When the last transaction to commit was overtaken by none, the account  *)
(* is premium exactly as long as one of its rows grants it: whatever a race *)
(* left in the copy, the next undisturbed status poll repairs.              *)
SettledCopyIsRight ==
    settled => (IsPremiumAt(clock) <=> \E r \in Jobs : Grants(row[r], clock))

(* However the transactions overlap, the end kept on the users row is one   *)
(* that was granted: premium with an end outlasts no grant.  (A premium     *)
(* without an end can come from two overlapping polls: see the README.)     *)
PremiumEndWasGranted ==
    user.until # Null => \E r \in Jobs : row[r].status # "none" /\ row[r].end = user.until

(* A canceled or expired row never grants again and no row changes its      *)
(* period or disappears, whatever stale copies the sessions hold: the       *)
(* history support works from stays true.                                   *)
RowsOnlyEnd ==
    [][\A r \in Jobs : row[r].status # "none" =>
          /\ row'[r].end = row[r].end
          /\ row'[r].status # "none"
          /\ row[r].status # "active" => row'[r].status # "active"]_vars
=============================================================================

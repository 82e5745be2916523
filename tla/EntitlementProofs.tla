------------------------- MODULE EntitlementProofs -------------------------
(***************************************************************************)
(* What Entitlement guarantees for any number of transactions and however  *)
(* long the clock runs.                                                    *)
(***************************************************************************)
EXTENDS Entitlement, TLAPS

USE LastTimeAssumption

Live(w) == w.at \notin {"idle", "ended"}

\* Row r is in the table, with the period the session's copy of it has.
InTable(r, sub) == row[r].status # "none" /\ row[r].end = sub.end

\* What a session may hold, job j's being w.
Copies(j, w) ==
    /\ w.now <= clock
    /\ \A r \in Jobs : w.seen[r].status = "none" => w.seen[r] = NoRow
    /\ w.kind = "grant" => row[j] = NoRow /\ w.touched \subseteq {j}
    /\ \A r \in w.touched : w.seen[r].status # "none"
    /\ w.kind # "grant" =>
         \A r \in w.touched : w.seen[r].status \in {"canceled", "expired"} /\ InTable(r, w.seen[r])
    /\ \A r \in Jobs \ w.touched : w.seen[r].status # "none" => InTable(r, w.seen[r])
    /\ w.at = "stale" => w.kind = "expire"
    /\ w.kind # "expire" /\ w.at \in {"user", "rows"} => w.touched = {}
    /\ w.at \in {"stale", "user"} => \A r \in Jobs \ w.touched : w.seen[r] = NoRow
    /\ w.at = "synced" => Entitles(w.due, w.seen, w.now)

\* Nothing was committed since the session's first read: its copies are exact.
Exact(w) ==
    /\ w.at # "stale" => w.copy = user
    /\ w.at \in {"rows", "marked", "synced"} =>
         \A r \in Jobs \ w.touched : w.seen[r] = row[r]

JobInv(j, w) ==
    /\ w \in JobStates
    /\ w.at = "idle" => row[j] = NoRow
    /\ Live(w) => Copies(j, w) /\ (~w.overtaken => Exact(w))

IInv ==
    /\ TypeOK
    /\ \A r \in Jobs : row[r].status = "none" => row[r] = NoRow
    /\ \A j \in Jobs : JobInv(j, job[j])
    /\ settled => \E n \in 0..clock : Entitles(user, row, n)
    /\ PremiumEndWasGranted

LEMMA BlankTypes ==
    ASSUME NEW kind \in Kinds, NEW at \in {"idle", "user", "stale", "ended"}
    PROVE  Blank(kind, at) \in JobStates
<1>1. Free \in Users /\ Unknown \in [Jobs -> RowStates] /\ 0 \in Times
  BY DEF Free, Users, Plans, Ends, Unknown, NoRow, RowStates, Times
<1> QED
  BY <1>1 DEF Blank, JobStates

\* What a session knows after a SELECT: what it held, and the table's rows for
\* the others.
LEMMA KnownRows ==
    ASSUME IInv, NEW j \in Jobs, Live(job[j])
    PROVE  /\ Known(j) \in [Jobs -> RowStates]
           /\ \A r \in Jobs : Known(j)[r].status = "none" => Known(j)[r] = NoRow
           /\ \A r \in job[j].touched : Known(j)[r] = job[j].seen[r]
           /\ \A r \in Jobs \ job[j].touched : Known(j)[r].status # "none" => InTable(r, Known(j)[r])
           /\ ~job[j].overtaken => \A r \in Jobs \ job[j].touched : Known(j)[r] = row[r]
<1> USE DEF IInv, JobInv, Copies, InTable, Exact
<1>1. /\ job[j].seen \in [Jobs -> RowStates]
      /\ job[j].touched \subseteq Jobs
      /\ row \in [Jobs -> RowStates]
      /\ job[j].at \in {"stale", "user", "rows", "marked", "synced"}
  BY DEF TypeOK, JobStates, Live
<1>2. \A r \in Jobs : Known(j)[r] = IF job[j].seen[r] = NoRow THEN row[r] ELSE job[j].seen[r]
  BY DEF Known
<1>3. Known(j) \in [Jobs -> RowStates]
  BY <1>1 DEF Known
<1>4. \A r \in Jobs : Known(j)[r].status = "none" => Known(j)[r] = NoRow
  BY <1>2
<1>5. \A r \in job[j].touched : Known(j)[r] = job[j].seen[r]
  <2> SUFFICES ASSUME NEW r \in job[j].touched PROVE Known(j)[r] = job[j].seen[r]
    OBVIOUS
  <2>1. job[j].seen[r].status # "none"
    BY <1>1
  <2>2. NoRow.status = "none"
    BY DEF NoRow
  <2> QED
    BY <1>1, <1>2, <2>1, <2>2
<1>6. ASSUME NEW r \in Jobs \ job[j].touched, Known(j)[r].status # "none"
      PROVE  InTable(r, Known(j)[r])
  <2>1. CASE job[j].seen[r] = NoRow
    BY <1>2, <1>6, <2>1
  <2>2. CASE job[j].seen[r] # NoRow
    <3>1. job[j].seen[r].status # "none"
      BY <2>2
    <3> QED
      BY <1>2, <1>6, <2>2, <3>1
  <2> QED
    BY <2>1, <2>2
<1>7. ASSUME ~job[j].overtaken, NEW r \in Jobs \ job[j].touched
      PROVE  Known(j)[r] = row[r]
  <2>1. CASE job[j].at \in {"stale", "user"}
    BY <1>2, <2>1
  <2>2. CASE job[j].at \notin {"stale", "user"}
    BY <1>1, <1>2, <1>7, <2>2
  <2> QED
    BY <2>1, <2>2
<1> QED
  BY <1>3, <1>4, <1>5, <1>6, <1>7

\* A step that changes one job's session only keeps the invariant when what the
\* session then holds is in order.
LEMMA OwnStep ==
    ASSUME IInv, NEW j \in Jobs, NEW w, JobInv(j, w), Step(j, w),
           UNCHANGED <<clock, user, row, settled>>
    PROVE  IInv'
<1>1. job' = [job EXCEPT ![j] = w] /\ w \in JobStates
  BY DEF Step, JobInv
<1>2. TypeOK'
  BY <1>1 DEF IInv, TypeOK
<1>3. ASSUME NEW i \in Jobs PROVE JobInv(i, job[i])'
  <2>1. job'[i] = IF i = j THEN w ELSE job[i]
    BY <1>1 DEF IInv, TypeOK
  <2>2. JobInv(i, job'[i])
    BY <2>1 DEF IInv
  <2> QED
    BY <2>2 DEF JobInv, Copies, Exact, InTable
<1>4. (\A r \in Jobs : row[r].status = "none" => row[r] = NoRow)'
  BY DEF IInv
<1>5. (settled => \E n \in 0..clock : Entitles(user, row, n))'
  BY DEF IInv, Entitles
<1>6. PremiumEndWasGranted'
  BY DEF IInv, PremiumEndWasGranted
<1> QED
  BY <1>2, <1>3, <1>4, <1>5, <1>6 DEF IInv

LEMMA BeginKeeps ==
    ASSUME IInv, NEW j \in Jobs, NEW kind \in Kinds, Begin(j, kind)
    PROVE  IInv'
<1> DEFINE w == [Blank(kind, "user") EXCEPT !.copy = user]
<1>1. w \in JobStates
  <2>1. Blank(kind, "user") \in JobStates /\ user \in Users
    BY BlankTypes DEF IInv, TypeOK
  <2> QED
    BY <2>1 DEF JobStates
<1>2. /\ w.at = "user" /\ w.kind = kind /\ w.touched = {} /\ w.seen = Unknown
      /\ w.now = 0 /\ w.copy = user
  BY DEF Blank
<1>3. row[j] = NoRow
  BY DEF Begin, IInv, JobInv
<1>4. 0 <= clock
  BY DEF IInv, TypeOK, Times
<1>5. \A r \in Jobs : w.seen[r] = NoRow /\ w.seen[r].status = "none"
  <2>1. \A r \in Jobs : Unknown[r] = NoRow
    BY DEF Unknown
  <2>2. NoRow.status = "none"
    BY DEF NoRow
  <2> HIDE DEF w
  <2> QED
    BY <1>2, <2>1, <2>2
<1>6. JobInv(j, w)
  BY <1>1, <1>2, <1>3, <1>4, <1>5 DEF JobInv, Copies, Exact
<1> QED
  BY <1>6, OwnStep DEF Begin

LEMMA BeginExpiryKeeps ==
    ASSUME IInv, NEW j \in Jobs, BeginExpiry(j)
    PROVE  IInv'
<1> DEFINE stale == {r \in Jobs : row[r].status = "active" /\ ~Covers(row[r].end, clock)}
           marked == [r \in Jobs |-> IF r \in stale THEN [row[r] EXCEPT !.status = "expired"] ELSE NoRow]
           w == [Blank("expire", "stale") EXCEPT !.now = clock, !.touched = stale, !.seen = marked]
<1>1. row \in [Jobs -> RowStates] /\ clock \in Times
  BY DEF IInv, TypeOK
<1>2. marked \in [Jobs -> RowStates]
  <2>1. NoRow \in RowStates
    BY DEF NoRow, RowStates, Ends
  <2>2. \A r \in Jobs : [row[r] EXCEPT !.status = "expired"] \in RowStates
    BY <1>1 DEF RowStates
  <2> QED
    BY <2>1, <2>2
<1>3. w \in JobStates
  BY <1>1, <1>2, BlankTypes DEF JobStates, Kinds
<1>4. /\ w.at = "stale" /\ w.kind = "expire" /\ w.touched = stale /\ w.seen = marked
      /\ w.now = clock
  BY DEF Blank
<1>5. \A r \in stale : marked[r].status = "expired" /\ marked[r].end = row[r].end
  BY <1>1 DEF RowStates
<1>6. \A r \in Jobs \ stale : marked[r] = NoRow /\ marked[r].status = "none"
  BY DEF NoRow
<1>7. Copies(j, w)
  <2>1. \A r \in Jobs : marked[r].status = "none" => marked[r] = NoRow
    BY <1>5, <1>6
  <2>2. \A r \in stale : InTable(r, marked[r])
    BY <1>5 DEF InTable
  <2>3. w.now <= clock
    BY <1>1, <1>4 DEF Times
  <2> QED
    BY <1>4, <1>5, <1>6, <2>1, <2>2, <2>3 DEF Copies
<1>8. JobInv(j, w)
  BY <1>3, <1>4, <1>7 DEF JobInv, Exact
<1> QED
  BY <1>8, OwnStep DEF BeginExpiry

LEMMA LoadUserKeeps ==
    ASSUME IInv, NEW j \in Jobs, LoadUser(j)
    PROVE  IInv'
<1> DEFINE w == [job[j] EXCEPT !.at = "user", !.copy = user]
<1>1. job[j] \in JobStates /\ JobInv(j, job[j]) /\ job[j].at = "stale" /\ user \in Users
  BY DEF IInv, TypeOK, LoadUser
<1>2. w \in JobStates
  BY <1>1 DEF JobStates
<1>3. /\ w.at = "user" /\ w.copy = user /\ w.kind = job[j].kind /\ w.seen = job[j].seen
      /\ w.touched = job[j].touched /\ w.now = job[j].now /\ w.overtaken = job[j].overtaken
  BY <1>1 DEF JobStates
<1>4. JobInv(j, w)
  BY <1>1, <1>2, <1>3 DEF JobInv, Copies, Exact, Live
<1> QED
  BY <1>4, OwnStep DEF LoadUser

LEMMA LoadRowsKeeps ==
    ASSUME IInv, NEW j \in Jobs, LoadRows(j)
    PROVE  IInv'
<1> DEFINE w == [job[j] EXCEPT !.at = "rows", !.seen = Known(j),
                               !.now = IF job[j].kind = "expire" THEN @ ELSE clock]
<1>1. job[j] \in JobStates /\ JobInv(j, job[j]) /\ job[j].at = "user" /\ clock \in Times
  BY DEF IInv, TypeOK, LoadRows
<1>2. Live(job[j]) /\ Copies(j, job[j]) /\ (~job[j].overtaken => job[j].copy = user)
  BY <1>1 DEF JobInv, Live, Exact
<1>3. w \in JobStates
  BY <1>1, <1>2, KnownRows DEF JobStates
<1>4. /\ w.at = "rows" /\ w.copy = job[j].copy /\ w.kind = job[j].kind /\ w.seen = Known(j)
      /\ w.touched = job[j].touched /\ w.now \in {job[j].now, clock} /\ w.overtaken = job[j].overtaken
  BY <1>1 DEF JobStates
<1>5. w.now <= clock
  BY <1>1, <1>2, <1>4 DEF Copies, Times
<1>6. Copies(j, w)
  <2> HIDE DEF w
  <2>1. \A r \in w.touched : w.seen[r] = job[j].seen[r]
    BY <1>2, <1>4, KnownRows
  <2> QED
    BY <1>1, <1>2, <1>4, <1>5, <2>1, KnownRows DEF Copies
<1>7. JobInv(j, w)
  BY <1>2, <1>3, <1>4, <1>6, KnownRows DEF JobInv, Exact
<1> QED
  BY <1>7, OwnStep DEF LoadRows

LEMMA MarkCanceledKeeps ==
    ASSUME IInv, NEW j \in Jobs, NEW now \in Times, MarkCanceled(j, now)
    PROVE  IInv'
<1> DEFINE active == {r \in Jobs : Known(j)[r].status = "active"}
           marked == [r \in Jobs |-> IF r \in active THEN [Known(j)[r] EXCEPT !.status = "canceled"]
                                     ELSE Known(j)[r]]
           w == [job[j] EXCEPT !.at = "marked", !.now = now, !.touched = active, !.seen = marked]
<1>1. /\ job[j] \in JobStates /\ JobInv(j, job[j]) /\ job[j].at = "rows" /\ clock \in Times
      /\ job[j].kind = "revoke"
  BY DEF IInv, TypeOK, MarkCanceled
<1>2. Live(job[j]) /\ Copies(j, job[j]) /\ (~job[j].overtaken => Exact(job[j]))
  BY <1>1 DEF JobInv, Live
<1>3. Known(j) \in [Jobs -> RowStates] /\ Null \in Ends
  BY <1>2, KnownRows DEF Ends
<1>4. /\ \A r \in active : marked[r] = [Known(j)[r] EXCEPT !.status = "canceled"]
      /\ \A r \in Jobs \ active : marked[r] = Known(j)[r]
  OBVIOUS
<1>5. \A r \in active : /\ marked[r] \in RowStates
                        /\ marked[r].status = "canceled" /\ marked[r].end = Known(j)[r].end
  BY <1>3, <1>4 DEF RowStates
<1>6. marked \in [Jobs -> RowStates]
  BY <1>3, <1>4, <1>5
<1>7. /\ w.at = "marked" /\ w.copy = job[j].copy /\ w.kind = "revoke" /\ w.seen = marked
      /\ w.touched = active /\ w.now = now /\ w.overtaken = job[j].overtaken
  BY <1>1 DEF JobStates
<1>8. w \in JobStates
  BY <1>1, <1>6 DEF JobStates
<1>9. now <= clock
  BY <1>1 DEF MarkCanceled, Times, JobStates
<1>10. \A r \in Jobs : Known(j)[r].status # "none" => InTable(r, Known(j)[r])
  <2> SUFFICES ASSUME NEW r \in Jobs, Known(j)[r].status # "none"
               PROVE  InTable(r, Known(j)[r])
    OBVIOUS
  <2>1. CASE r \in job[j].touched
    BY <1>1, <1>2, <2>1, KnownRows DEF Copies
  <2>2. CASE r \notin job[j].touched
    BY <1>2, <2>2, KnownRows
  <2> QED
    BY <2>1, <2>2
<1>11. Copies(j, w)
  <2>1. \A r \in active : InTable(r, marked[r])
    BY <1>5, <1>10 DEF InTable
  <2>2. \A r \in Jobs \ active : marked[r].status # "none" => InTable(r, marked[r])
    BY <1>4, <1>10
  <2>3. \A r \in Jobs : marked[r].status = "none" => marked[r] = NoRow
    BY <1>2, <1>4, <1>5, KnownRows
  <2> HIDE DEF w, active, marked
  <2> QED
    BY <1>5, <1>7, <1>9, <2>1, <2>2, <2>3 DEF Copies
<1>12. ASSUME ~job[j].overtaken, NEW r \in Jobs \ active
       PROVE  marked[r] = row[r]
  <2>1. CASE r \in job[j].touched
    BY <1>1, <1>2, <2>1 DEF Copies
  <2>2. CASE r \notin job[j].touched
    BY <1>2, <1>4, <1>12, <2>2, KnownRows
  <2> QED
    BY <2>1, <2>2
<1>13. JobInv(j, w)
  <2> HIDE DEF w, active, marked
  <2> QED
    BY <1>1, <1>2, <1>7, <1>8, <1>11, <1>12 DEF JobInv, Exact
<1> QED
  BY <1>13, OwnStep DEF MarkCanceled

LEMMA SyncKeeps ==
    ASSUME IInv, NEW j \in Jobs, NEW due \in Users, Sync(j, due)
    PROVE  IInv'
<1> DEFINE w == [job[j] EXCEPT !.at = "synced", !.seen = Known(j), !.due = due]
<1>1. job[j] \in JobStates /\ JobInv(j, job[j]) /\ job[j].at \in {"rows", "marked"}
  BY DEF IInv, TypeOK, Sync
<1>2. Live(job[j]) /\ Copies(j, job[j]) /\ (~job[j].overtaken => Exact(job[j]))
  BY <1>1 DEF JobInv, Live
<1>3. w \in JobStates
  BY <1>1, <1>2, KnownRows DEF JobStates
<1>4. /\ w.at = "synced" /\ w.copy = job[j].copy /\ w.kind = job[j].kind /\ w.seen = Known(j)
      /\ w.touched = job[j].touched /\ w.now = job[j].now /\ w.overtaken = job[j].overtaken
      /\ w.due = due
  BY <1>1 DEF JobStates
<1>5. Copies(j, w)
  BY <1>2, <1>4, KnownRows DEF Copies, Sync
<1>6. JobInv(j, w)
  BY <1>1, <1>2, <1>3, <1>4, <1>5, KnownRows DEF JobInv, Exact
<1> QED
  BY <1>6, OwnStep DEF Sync

LEMMA SyncPollKeeps ==
    ASSUME IInv, NEW j \in Jobs, NEW now \in Times, NEW due \in Users, SyncPoll(j, now, due)
    PROVE  IInv'
<1> DEFINE w == [job[j] EXCEPT !.at = "synced", !.now = now, !.seen = Known(j), !.due = due]
<1>1. job[j] \in JobStates /\ JobInv(j, job[j]) /\ job[j].at = "rows" /\ clock \in Times
  BY DEF IInv, TypeOK, SyncPoll
<1>2. Live(job[j]) /\ Copies(j, job[j]) /\ (~job[j].overtaken => Exact(job[j]))
  BY <1>1 DEF JobInv, Live
<1>3. w \in JobStates
  BY <1>1, <1>2, KnownRows DEF JobStates
<1>4. /\ w.at = "synced" /\ w.copy = job[j].copy /\ w.kind = job[j].kind /\ w.seen = Known(j)
      /\ w.touched = job[j].touched /\ w.now = now /\ w.overtaken = job[j].overtaken
      /\ w.due = due
  BY <1>1 DEF JobStates
<1>5. now <= clock
  BY <1>1 DEF SyncPoll, Times, JobStates
<1>6. Copies(j, w)
  BY <1>2, <1>4, <1>5, KnownRows DEF Copies, SyncPoll
<1>7. JobInv(j, w)
  BY <1>1, <1>2, <1>3, <1>4, <1>6, KnownRows DEF JobInv, Exact
<1> QED
  BY <1>7, OwnStep DEF SyncPoll

LEMMA GrantKeeps ==
    ASSUME IInv, NEW j \in Jobs, NEW now \in Times, NEW end \in Ends, NEW due \in Users,
           GrantManualPremium(j, now, end, due)
    PROVE  IInv'
<1> DEFINE granted == [Known(j) EXCEPT ![j] = [status |-> "active", end |-> end]]
           w == [job[j] EXCEPT !.at = "synced", !.now = now, !.touched = {j},
                               !.seen = granted, !.due = due]
<1>1. /\ job[j] \in JobStates /\ JobInv(j, job[j]) /\ job[j].at = "rows" /\ clock \in Times
      /\ job[j].kind = "grant"
  BY DEF IInv, TypeOK, GrantManualPremium
<1>2. Live(job[j]) /\ Copies(j, job[j]) /\ (~job[j].overtaken => Exact(job[j]))
  BY <1>1 DEF JobInv, Live
<1>3. Known(j) \in [Jobs -> RowStates] /\ [status |-> "active", end |-> end] \in RowStates
  BY <1>2, KnownRows DEF RowStates
<1>4. /\ granted \in [Jobs -> RowStates]
      /\ granted[j].status = "active" /\ granted[j].end = end
      /\ \A r \in Jobs \ {j} : granted[r] = Known(j)[r]
  BY <1>3
<1>5. w \in JobStates
  BY <1>1, <1>4 DEF JobStates
<1>6. /\ w.at = "synced" /\ w.copy = job[j].copy /\ w.kind = "grant" /\ w.seen = granted
      /\ w.touched = {j} /\ w.now = now /\ w.overtaken = job[j].overtaken
      /\ w.due = due
  BY <1>1 DEF JobStates
<1>7. now <= clock /\ Entitles(due, granted, now)
  BY <1>1 DEF GrantManualPremium, Times, JobStates
<1>8. row[j] = NoRow /\ job[j].touched \subseteq {j}
  BY <1>1, <1>2 DEF Copies
<1>9. Copies(j, w)
  <2>1. \A r \in Jobs : granted[r].status = "none" => granted[r] = NoRow
    BY <1>2, <1>4, KnownRows
  <2>2. \A r \in Jobs \ {j} : granted[r].status # "none" => InTable(r, granted[r])
    BY <1>2, <1>4, <1>8, KnownRows
  <2> HIDE DEF w, granted
  <2> QED
    BY <1>4, <1>6, <1>7, <1>8, <2>1, <2>2 DEF Copies
<1>10. ~job[j].overtaken => \A r \in Jobs \ {j} : granted[r] = row[r]
  BY <1>2, <1>4, <1>8, KnownRows
<1>11. JobInv(j, w)
  <2> HIDE DEF w, granted
  <2> QED
    BY <1>1, <1>2, <1>5, <1>6, <1>9, <1>10 DEF JobInv, Exact
<1> QED
  BY <1>11, OwnStep DEF GrantManualPremium

LEMMA RollBackKeeps ==
    ASSUME IInv, NEW j \in Jobs, RollBack(j)
    PROVE  IInv'
<1>1. Blank("poll", "ended") \in JobStates /\ Blank("poll", "ended").at = "ended"
  BY BlankTypes DEF Blank, Kinds
<1>2. JobInv(j, Blank("poll", "ended"))
  BY <1>1 DEF JobInv, Live
<1> QED
  BY <1>2, OwnStep DEF RollBack

LEMMA TickKeeps ==
    ASSUME IInv, Tick
    PROVE  IInv'
<1>1. clock' \in Times /\ clock \in Times /\ clock <= clock'
  BY DEF IInv, TypeOK, Tick, Times
<1>2. TypeOK'
  BY <1>1 DEF IInv, TypeOK, Tick
<1>3. ASSUME NEW i \in Jobs PROVE JobInv(i, job[i])'
  <2>1. JobInv(i, job[i]) /\ job[i] \in JobStates
    BY DEF IInv, TypeOK
  <2>2. Live(job[i]) => job[i].now <= clock'
    BY <1>1, <2>1 DEF JobInv, Copies, JobStates, Times
  <2> QED
    BY <2>1, <2>2 DEF JobInv, Copies, Exact, InTable, Tick
<1>4. (\A r \in Jobs : row[r].status = "none" => row[r] = NoRow)'
  BY DEF IInv, Tick
<1>5. (settled => \E n \in 0..clock : Entitles(user, row, n))'
  <2>1. 0..clock \subseteq 0..clock'
    BY <1>1 DEF Times
  <2> QED
    BY <2>1 DEF IInv, Entitles, Tick
<1>6. PremiumEndWasGranted'
  BY DEF IInv, PremiumEndWasGranted, Tick
<1> QED
  BY <1>2, <1>3, <1>4, <1>5, <1>6 DEF IInv

\* A commit takes no row away and changes no period, and revives no row.
LEMMA CommitRows ==
    ASSUME IInv, NEW j \in Jobs, Commit(j)
    PROVE  /\ row' \in [Jobs -> RowStates]
           /\ \A r \in Jobs : row[r].status # "none" =>
                 /\ row'[r].status # "none" /\ row'[r].end = row[r].end
                 /\ row[r].status # "active" => row'[r].status # "active"
           /\ \A r \in Jobs : row'[r] = IF r \in job[j].touched THEN job[j].seen[r] ELSE row[r]
<1>1. job[j] \in JobStates /\ row \in [Jobs -> RowStates] /\ Copies(j, job[j])
  BY DEF IInv, TypeOK, JobInv, Live, Commit
<1>2. row' = [r \in Jobs |-> IF r \in job[j].touched THEN job[j].seen[r] ELSE row[r]]
  BY DEF Commit
<1>3. row' \in [Jobs -> RowStates]
  BY <1>1, <1>2 DEF JobStates
<1>4. ASSUME NEW r \in Jobs, row[r].status # "none"
      PROVE  /\ row'[r].status # "none" /\ row'[r].end = row[r].end
             /\ row[r].status # "active" => row'[r].status # "active"
  <2>1. CASE r \notin job[j].touched
    BY <1>2, <1>4, <2>1
  <2>2. CASE r \in job[j].touched /\ job[j].kind = "grant"
    <3>1. row[r] = NoRow
      BY <1>1, <2>2 DEF Copies
    <3> QED
      BY <1>4, <3>1 DEF NoRow
  <2>3. CASE r \in job[j].touched /\ job[j].kind # "grant"
    BY <1>1, <1>2, <2>3 DEF Copies, InTable
  <2> QED
    BY <2>1, <2>2, <2>3
<1> QED
  BY <1>2, <1>3, <1>4

\* The other sessions keep their copies; from now on they are overtaken.
LEMMA CommitKeepsJobs ==
    ASSUME IInv, NEW j \in Jobs, Commit(j), NEW i \in Jobs
    PROVE  JobInv(i, job[i])'
<1>1. /\ job[i] \in JobStates /\ JobInv(i, job[i]) /\ job[j] \in JobStates
      /\ Copies(j, job[j]) /\ clock' = clock
  BY DEF IInv, TypeOK, JobInv, Live, Commit
<1>2. ASSUME i # j, row[i] = NoRow PROVE row'[i] = NoRow
  <2>1. i \notin job[j].touched
    <3>1. row[i].status = "none"
      BY <1>2 DEF NoRow
    <3>2. CASE job[j].kind = "grant"
      BY <1>1, <1>2, <3>2 DEF Copies
    <3>3. CASE job[j].kind # "grant"
      BY <1>1, <3>1, <3>3 DEF Copies, InTable
    <3> QED
      BY <3>2, <3>3
  <2> QED
    BY <1>2, <2>1, CommitRows
<1>3. CASE i = j
  <2>1. job'[i] = Blank("poll", "ended")
    BY <1>3 DEF Commit
  <2> QED
    BY <2>1, BlankTypes DEF JobInv, Live, Blank, Kinds
<1>4. CASE i # j /\ job[i].at \in {"idle", "ended"}
  <2>1. job'[i] = job[i]
    BY <1>4 DEF Commit
  <2> QED
    BY <1>1, <1>2, <1>4, <2>1 DEF JobInv, Live
<1>5. CASE i # j /\ job[i].at \notin {"idle", "ended"}
  <2> DEFINE w == [job[i] EXCEPT !.overtaken = TRUE]
  <2>1. job'[i] = w
    BY <1>5 DEF Commit
  <2>2. /\ w \in JobStates /\ w.overtaken /\ w.at = job[i].at /\ w.kind = job[i].kind
        /\ w.now = job[i].now /\ w.seen = job[i].seen /\ w.touched = job[i].touched
        /\ w.due = job[i].due
    BY <1>1 DEF JobStates
  <2>3. Copies(i, job[i])
    BY <1>1, <1>5 DEF JobInv, Live
  <2>4. ASSUME NEW r \in Jobs, InTable(r, w.seen[r])
        PROVE  row'[r].status # "none" /\ row'[r].end = w.seen[r].end
    BY <2>4, CommitRows DEF InTable
  <2>5. /\ w.now <= clock'
        /\ \A r \in Jobs : w.seen[r].status = "none" => w.seen[r] = NoRow
        /\ w.kind = "grant" => row'[i] = NoRow /\ w.touched \subseteq {i}
        /\ \A r \in w.touched : w.seen[r].status # "none"
        /\ w.at = "stale" => w.kind = "expire"
        /\ w.kind # "expire" /\ w.at \in {"user", "rows"} => w.touched = {}
        /\ w.at \in {"stale", "user"} => \A r \in Jobs \ w.touched : w.seen[r] = NoRow
        /\ w.at = "synced" => Entitles(w.due, w.seen, w.now)
    BY <1>1, <1>2, <1>5, <2>2, <2>3 DEF Copies
  <2>6. /\ w.kind # "grant" =>
             \A r \in w.touched :
                /\ w.seen[r].status \in {"canceled", "expired"}
                /\ row'[r].status # "none" /\ row'[r].end = w.seen[r].end
        /\ \A r \in Jobs \ w.touched :
             w.seen[r].status # "none" => row'[r].status # "none" /\ row'[r].end = w.seen[r].end
    <3>1. w.touched \subseteq Jobs
      BY <2>2 DEF JobStates
    <3> HIDE DEF w
    <3> QED
      BY <2>2, <2>3, <2>4, <3>1 DEF Copies
  <2> HIDE DEF w
  <2> QED
    BY <1>5, <2>1, <2>2, <2>5, <2>6 DEF JobInv, Copies, InTable, Entitles, Grants, Live
<1> QED
  BY <1>3, <1>4, <1>5

\* What an undisturbed transaction leaves on the users row follows from the rows.
LEMMA CommitSettles ==
    ASSUME IInv, NEW j \in Jobs, Commit(j), ~job[j].overtaken
    PROVE  Entitles(user', row', job[j].now) /\ job[j].now \in 0..clock
<1>1. /\ job[j] \in JobStates /\ Copies(j, job[j]) /\ Exact(job[j]) /\ job[j].at = "synced"
      /\ user \in Users
  BY DEF IInv, TypeOK, JobInv, Live, Commit
<1>2. \A r \in Jobs : row'[r] = job[j].seen[r]
  BY <1>1, CommitRows DEF Exact
<1>3. user' = job[j].due
  <2>1. job[j].copy = user /\ job[j].due \in Users
    BY <1>1 DEF Exact, JobStates
  <2>2. user' = [plan |-> job[j].due.plan, until |-> job[j].due.until]
    BY <2>1 DEF Commit, Written
  <2> QED
    BY <2>1, <2>2 DEF Users
<1>4. job[j].now \in 0..clock
  BY <1>1 DEF Copies, JobStates, Times, IInv, TypeOK
<1> QED
  BY <1>1, <1>2, <1>3, <1>4 DEF Copies, Entitles, Grants

LEMMA CommitKeepsEnd ==
    ASSUME IInv, NEW j \in Jobs, Commit(j)
    PROVE  PremiumEndWasGranted'
<1>1. /\ job[j] \in JobStates /\ Copies(j, job[j]) /\ job[j].at = "synced" /\ user \in Users
  BY DEF IInv, TypeOK, JobInv, Live, Commit
<1>2. user'.until \in {user.until, job[j].due.until}
  BY DEF Commit, Written
<1>3. ASSUME user'.until = user.until, user'.until # Null
      PROVE  \E r \in Jobs : row'[r].status # "none" /\ row'[r].end = user'.until
  BY <1>3, CommitRows DEF IInv, PremiumEndWasGranted
<1>4. ASSUME user'.until = job[j].due.until, user'.until # Null
      PROVE  \E r \in Jobs : row'[r].status # "none" /\ row'[r].end = user'.until
  <2>1. PICK r \in Jobs : Grants(job[j].seen[r], job[j].now) /\ job[j].seen[r].end = user'.until
    BY <1>1, <1>4 DEF Copies, Entitles, Free
  <2>2. job[j].seen[r].status # "none"
    BY <2>1 DEF Grants
  <2>3. CASE r \in job[j].touched
    BY <2>1, <2>2, <2>3, CommitRows
  <2>4. CASE r \notin job[j].touched
    BY <1>1, <2>1, <2>2, <2>4, CommitRows DEF Copies, InTable
  <2> QED
    BY <2>3, <2>4
<1> QED
  BY <1>2, <1>3, <1>4 DEF PremiumEndWasGranted

LEMMA CommitKeeps ==
    ASSUME IInv, NEW j \in Jobs, Commit(j)
    PROVE  IInv'
<1>1. /\ job[j] \in JobStates /\ user \in Users /\ clock' = clock
      /\ job \in [Jobs -> JobStates]
  BY DEF IInv, TypeOK, Commit
<1>2. TypeOK'
  <2>1. user' \in Users
    BY <1>1 DEF Commit, Written, Users, JobStates
  <2>2. job' \in [Jobs -> JobStates]
    <3>1. Blank("poll", "ended") \in JobStates
      BY BlankTypes DEF Kinds
    <3>2. \A i \in Jobs : [job[i] EXCEPT !.overtaken = TRUE] \in JobStates
      BY <1>1 DEF JobStates
    <3> QED
      BY <1>1, <3>1, <3>2 DEF Commit
  <2>3. settled' \in BOOLEAN
    BY <1>1 DEF Commit, JobStates
  <2> QED
    BY <1>1, <2>1, <2>2, <2>3, CommitRows DEF IInv, TypeOK
<1>3. (\A r \in Jobs : row[r].status = "none" => row[r] = NoRow)'
  <2> SUFFICES ASSUME NEW r \in Jobs, row'[r].status = "none" PROVE row'[r] = NoRow
    BY DEF NoRow
  <2>1. r \notin job[j].touched
    BY CommitRows DEF IInv, JobInv, Copies, Live, Commit
  <2> QED
    BY <2>1, CommitRows DEF IInv
<1>4. (settled => \E n \in 0..clock : Entitles(user, row, n))'
  <2>1. settled' = ~job[j].overtaken
    BY DEF Commit
  <2> SUFFICES ASSUME settled' PROVE \E n \in 0..clock' : Entitles(user', row', n)
    BY DEF Entitles, Grants, Free
  <2> QED
    BY <1>1, <2>1, CommitSettles
<1> QED
  BY <1>2, <1>3, <1>4, CommitKeepsJobs, CommitKeepsEnd DEF IInv

LEMMA InitIInv == Init => IInv
<1> SUFFICES ASSUME Init PROVE IInv
  OBVIOUS
<1>1. /\ \A r \in Jobs : row[r] = NoRow
      /\ Unknown \in [Jobs -> RowStates]
      /\ Free \in Users /\ Free.until = Null
  BY DEF Init, Unknown, NoRow, RowStates, Ends, Free, Users, Plans
<1>2. \A j \in Jobs : job[j] \in JobStates /\ job[j].at = "idle"
  <2>1. Blank("poll", "idle") \in JobStates /\ Blank("poll", "idle").at = "idle"
    BY BlankTypes DEF Blank, Kinds
  <2> QED
    BY <2>1 DEF Init
<1>3. TypeOK
  <2>1. job \in [Jobs -> JobStates]
    BY <1>2 DEF Init
  <2> QED
    BY <1>1, <2>1 DEF Init, TypeOK, Times
<1>4. Entitles(user, row, 0) /\ 0 \in 0..clock
  <2>1. NoRow.status = "none"
    BY DEF NoRow
  <2>2. \A r \in Jobs : ~Grants(row[r], 0)
    BY <1>1, <2>1 DEF Grants
  <2> QED
    BY <2>2 DEF Init, Entitles
<1>5. PremiumEndWasGranted
  BY <1>1 DEF Init, PremiumEndWasGranted
<1> QED
  BY <1>1, <1>2, <1>3, <1>4, <1>5 DEF IInv, JobInv, Live

LEMMA StepIInv == IInv /\ [Next]_vars => IInv'
<1> SUFFICES ASSUME IInv, [Next]_vars PROVE IInv'
  OBVIOUS
<1>1. CASE Tick
  BY <1>1, TickKeeps
<1>2. ASSUME NEW j \in Jobs, NEW kind \in Kinds, Begin(j, kind) PROVE IInv'
  BY <1>2, BeginKeeps
<1>3. ASSUME NEW j \in Jobs, BeginExpiry(j) PROVE IInv'
  BY <1>3, BeginExpiryKeeps
<1>4. ASSUME NEW j \in Jobs, LoadUser(j) PROVE IInv'
  BY <1>4, LoadUserKeeps
<1>5. ASSUME NEW j \in Jobs, LoadRows(j) PROVE IInv'
  BY <1>5, LoadRowsKeeps
<1>6. ASSUME NEW j \in Jobs, NEW now \in Times, MarkCanceled(j, now) PROVE IInv'
  BY <1>6, MarkCanceledKeeps
<1>7. ASSUME NEW j \in Jobs, NEW due \in Users, Sync(j, due) PROVE IInv'
  BY <1>7, SyncKeeps
<1>8. ASSUME NEW j \in Jobs, NEW now \in Times, NEW due \in Users, SyncPoll(j, now, due)
      PROVE  IInv'
  BY <1>8, SyncPollKeeps
<1>9. ASSUME NEW j \in Jobs, NEW now \in Times, NEW end \in Ends, NEW due \in Users,
             GrantManualPremium(j, now, end, due)
      PROVE  IInv'
  BY <1>9, GrantKeeps
<1>10. ASSUME NEW j \in Jobs, Commit(j) PROVE IInv'
  BY <1>10, CommitKeeps
<1>11. ASSUME NEW j \in Jobs, RollBack(j) PROVE IInv'
  BY <1>11, RollBackKeeps
<1>12. CASE UNCHANGED vars
  <2>1. ASSUME NEW i \in Jobs PROVE JobInv(i, job[i])'
    BY <1>12 DEF IInv, JobInv, Copies, Exact, InTable, vars
  <2> QED
    BY <1>12, <2>1 DEF IInv, TypeOK, PremiumEndWasGranted, Entitles, vars
<1> QED
  BY <1>1, <1>2, <1>3, <1>4, <1>5, <1>6, <1>7, <1>8, <1>9, <1>10, <1>11, <1>12 DEF Next

LEMMA CopyFollowsRows == IInv => SettledCopyIsRight
<1> SUFFICES ASSUME IInv, settled
             PROVE  IsPremiumAt(clock) <=> \E r \in Jobs : Grants(row[r], clock)
  BY DEF SettledCopyIsRight
<1>1. /\ clock \in Times /\ user \in Users /\ row \in [Jobs -> RowStates]
  BY DEF IInv, TypeOK
<1>2. PICK n \in 0..clock : Entitles(user, row, n)
  BY DEF IInv
<1>3. \A r \in Jobs : row[r].end \in Ends
  BY <1>1 DEF RowStates
<1>4. n \in Int /\ clock \in Int /\ n <= clock /\ \A e \in Ends : e \in Int
  BY <1>1 DEF Times, Ends, Null
<1>5. \A r \in Jobs : Grants(row[r], clock) => Grants(row[r], n)
  BY <1>3, <1>4 DEF Grants, Covers
<1>6. CASE {r \in Jobs : Grants(row[r], n)} = {}
  <2>1. user = Free
    BY <1>2, <1>6 DEF Entitles
  <2>2. ~IsPremiumAt(clock)
    BY <2>1 DEF IsPremiumAt, Free
  <2> QED
    BY <1>5, <1>6, <2>2
<1>7. CASE {r \in Jobs : Grants(row[r], n)} # {}
  <2>1. /\ user.plan = "premium"
        /\ \E r \in Jobs : Grants(row[r], n) /\ user.until = row[r].end
        /\ \/ user.until = Null
           \/ \A r \in Jobs : Grants(row[r], n) => row[r].end # Null /\ row[r].end <= user.until
    BY <1>2, <1>7 DEF Entitles
  <2>2. ASSUME IsPremiumAt(clock) PROVE \E r \in Jobs : Grants(row[r], clock)
    BY <2>1, <2>2 DEF IsPremiumAt, Grants
  <2>3. ASSUME NEW r \in Jobs, Grants(row[r], clock) PROVE IsPremiumAt(clock)
    <3>1. Grants(row[r], n) /\ Covers(row[r].end, clock)
      BY <1>5, <2>3 DEF Grants
    <3>2. user.until \in Ends /\ row[r].end \in Ends
      BY <1>1, <1>3 DEF Users
    <3> QED
      BY <1>4, <2>1, <3>1, <3>2 DEF IsPremiumAt, Covers
  <2> QED
    BY <2>2, <2>3
<1> QED
  BY <1>6, <1>7

THEOREM Inductive == Spec => []IInv
  BY InitIInv, StepIInv, PTL DEF Spec

(* The state keeps its types. *)
THEOREM TypeCorrect == Spec => []TypeOK
<1>1. IInv => TypeOK
  BY DEF IInv
<1> QED
  BY <1>1, Inductive, PTL

(* After a transaction nobody overtook the account is premium exactly as    *)
(* long as one of its subscription rows grants it (sync_entitlement).       *)
THEOREM SettledCopy == Spec => []SettledCopyIsRight
  BY Inductive, CopyFollowsRows, PTL

(* The end of premium on the users row was granted, whatever overlapped     *)
(* (sync_entitlement, grant_manual_premium).                                *)
THEOREM PremiumEnd == Spec => []PremiumEndWasGranted
<1>1. IInv => PremiumEndWasGranted
  BY DEF IInv
<1> QED
  BY <1>1, Inductive, PTL

(* Rows only end: no stale session revives one or changes its period        *)
(* (revoke, expire_stale_subscriptions).                                    *)
THEOREM RowsEnd == Spec => RowsOnlyEnd
<1> DEFINE OnlyEnd == \A r \in Jobs : row[r].status # "none" =>
                        /\ row'[r].end = row[r].end
                        /\ row'[r].status # "none"
                        /\ row[r].status # "active" => row'[r].status # "active"
<1>1. ASSUME IInv, [Next]_vars PROVE [OnlyEnd]_vars
  <2>1. CASE \E j \in Jobs : Commit(j)
    BY <1>1, <2>1, CommitRows
  <2>2. CASE UNCHANGED row
    BY <2>2
  <2> QED
    BY ZenonT(40), <1>1, <2>1, <2>2
       DEF Next, vars, Tick, Begin, BeginExpiry, LoadUser, LoadRows, MarkCanceled, Sync, SyncPoll,
           GrantManualPremium, RollBack
<1> QED
  BY <1>1, Inductive, PTL DEF Spec, RowsOnlyEnd
=============================================================================

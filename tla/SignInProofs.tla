---------------------------- MODULE SignInProofs ----------------------------
(***************************************************************************)
(* What SignIn guarantees for any number of calls and of token pairs.      *)
(***************************************************************************)
EXTENDS SignIn, SequenceTheorems, TLAPS

USE MaxRequestsAssumption, MaxPairsAssumption, FailuresAssumption

\* A request renews the pair; it holds a pair that was issued to it and that the
\* app has not saved yet.
Renews(q) ==
    \/ q.at \in {"refreshing", "checked", "refreshed"}
    \/ q.at = "storing" /\ q.kind # "login"
Holds(q) == q.got = "ok" /\ (q.at = "refreshed" \/ (q.at = "answered" /\ q.kind = "login"))

Shape(q) ==
    /\ q.kind = "login" => q.at \in {"sent", "answered", "storing", "raised"}
    /\ q.at \in {"refreshing", "checked"} => q.pair # 0
    /\ Holds(q) => q.pair # 0

Single ==
    \A r \in Requests :
        /\ Renews(req[r]) => inFlight = r
        /\ inFlight = r => Renews(req[r]) \/ req[r].at = "clearing"

\* Who waits for the keystore has one wish there, and only they do.
Queued ==
    /\ \A i \in 1..Len(keystore) : req[keystore[i].by].at \in {"storing", "clearing"}
    /\ \A i, j \in 1..Len(keystore) : keystore[i].by = keystore[j].by => i = j

\* Only pairs that were issued are about.
Bounded ==
    /\ live \subseteq 1..issued /\ orphans \subseteq 1..issued
    /\ tokens.refresh \in 0..issued /\ disk.refresh \in 0..issued
    /\ \A i \in 1..Len(keystore) : keystore[i].key < 3 => keystore[i].value \in 0..issued
    /\ \A r \in Requests : req[r].pair \in 0..issued

Base ==
    /\ TypeOK
    /\ \A r \in Requests : Shape(req[r])
    /\ Single /\ Queued /\ Bounded

-----------------------------------------------------------------------------
LEMMA InitBase == Init => Base
<1> SUFFICES ASSUME Init PROVE Base
  OBVIOUS
<1>1. PICK n \in {0, 1} :
        /\ issued = n /\ live = {p \in Pairs : p <= n}
        /\ tokens = Pair(0) /\ disk = Pair(n)
  BY DEF Init
<1>2. /\ signIn = [p \in Pairs |-> 0]
      /\ ending = 0 /\ over = 0 /\ orphans = {} /\ stray = FALSE
      /\ keystore = <<>> /\ inFlight = 0 /\ phase = "starting" /\ notice = FALSE
      /\ req = [r \in Requests |-> Unused] /\ excused = FALSE
  BY DEF Init
<1>3. /\ Unused \in RequestStates /\ Unused.at = "unused" /\ Unused.kind = "call"
      /\ Unused.pair = 0 /\ Unused.got = "none"
  BY DEF Unused, Blank, RequestStates, Kinds, StatusKinds, Places
<1>4. Pair(0) \in Tokens /\ Pair(n) \in Tokens /\ Pair(0).refresh = 0 /\ Pair(n).refresh = n
  BY <1>1 DEF Pair, Tokens
<1>5. keystore \in Seq(Wishes) /\ Len(keystore) = 0
  BY <1>2
<1> HIDE DEF Unused, Pair
<1>6. TypeOK
  <2>1. issued \in 0..MaxPairs /\ live \in SUBSET Pairs /\ orphans \in SUBSET Pairs
    BY <1>1, <1>2 DEF Pairs
  <2>2. signIn \in [Pairs -> 0..MaxRequests] /\ req \in [Requests -> RequestStates]
    BY <1>2, <1>3
  <2>3. ending \in 0..issued /\ over \in 0..ending /\ inFlight \in 0..MaxRequests
    BY <1>2, <2>1
  <2> QED
    BY <1>1, <1>2, <1>4, <1>5, <2>1, <2>2, <2>3 DEF TypeOK
<1>7. ~Renews(Unused) /\ Shape(Unused)
  BY <1>3 DEF Renews, Shape, Holds
<1>8. Single /\ Queued
  BY <1>2, <1>3, <1>5, <1>7 DEF Single, Queued, Requests
<1>9. Bounded
  BY <1>1, <1>2, <1>3, <1>4, <1>5 DEF Bounded, Pairs
<1> QED
  BY <1>2, <1>6, <1>7, <1>8, <1>9 DEF Base

\* What the keystore is asked to do, as one request changes.
Asked(q, r) ==
    \/ keystore' = keystore
    \/ /\ q.at \in {"storing", "clearing"}
       /\ \E v \in 0..issued : keystore' = Append(keystore, [key |-> 1, value |-> v, by |-> r])

\* One request that has no wish changes.
LEMMA RequestChanges ==
    ASSUME Base, NEW r \in Requests, NEW q \in RequestStates, req' = [req EXCEPT ![r] = q],
           req[r].at \notin {"storing", "clearing"}, Shape(q),
           issued' \in {issued, issued + 1}, issued' \in 0..MaxPairs, q.pair \in 0..issued',
           Asked(q, r),
           tokens' \in Tokens, tokens'.refresh \in 0..issued', disk' = disk,
           live' \subseteq 1..issued', orphans' \subseteq 1..issued',
           Renews(q) => inFlight' = r,
           inFlight' = r => Renews(q) \/ q.at = "clearing",
           inFlight' # inFlight => inFlight \in {0, r} /\ inFlight' \in {0, r},
           signIn' \in [Pairs -> 0..MaxRequests], ending' \in 0..issued', over' \in 0..ending',
           stray' \in BOOLEAN, phase' \in {"starting", "signedOut", "signedIn"},
           notice' \in BOOLEAN, excused' \in BOOLEAN
    PROVE  /\ Base'
           /\ \A b \in Requests : req'[b] = IF b = r THEN q ELSE req[b]
<1>1. /\ req \in [Requests -> RequestStates] /\ keystore \in Seq(Wishes) /\ issued \in 0..MaxPairs
      /\ inFlight \in 0..MaxRequests /\ disk \in Tokens /\ r \in 1..MaxRequests /\ 0 # r
  BY DEF Base, TypeOK, Requests
<1>2. /\ req' \in [Requests -> RequestStates]
      /\ \A b \in Requests : req'[b] = IF b = r THEN q ELSE req[b]
  BY <1>1
<1>3. \A b \in Requests : Shape(req'[b])
  BY <1>2 DEF Base
<1>4. Single'
  BY <1>1, <1>2 DEF Base, Single, Requests
<1>5. /\ keystore' \in Seq(Wishes)
      /\ \A i \in 1..Len(keystore) : keystore'[i] = keystore[i] /\ keystore[i].by \in Requests
      /\ \/ Len(keystore') = Len(keystore)
         \/ /\ Len(keystore') = Len(keystore) + 1
            /\ q.at \in {"storing", "clearing"}
            /\ keystore'[Len(keystore')].by = r /\ keystore'[Len(keystore')].value \in 0..issued
  <2>1. \A i \in 1..Len(keystore) : keystore[i] \in Wishes
    BY <1>1
  <2>2. CASE keystore' = keystore
    BY <1>1, <2>1, <2>2 DEF Wishes
  <2>3. ASSUME NEW v \in 0..issued, q.at \in {"storing", "clearing"},
               keystore' = Append(keystore, [key |-> 1, value |-> v, by |-> r])
        PROVE  /\ keystore' \in Seq(Wishes)
               /\ \A i \in 1..Len(keystore) : keystore'[i] = keystore[i] /\ keystore[i].by \in Requests
               /\ Len(keystore') = Len(keystore) + 1
               /\ keystore'[Len(keystore')].by = r /\ keystore'[Len(keystore')].value \in 0..issued
    <3> DEFINE w == [key |-> 1, value |-> v, by |-> r]
    <3>1. w \in Wishes /\ w.by = r /\ w.value = v
      BY <1>1, <2>3 DEF Wishes
    <3> HIDE DEF w
    <3>2. /\ keystore' \in Seq(Wishes) /\ Len(keystore') = Len(keystore) + 1
          /\ \A i \in 1..Len(keystore) : keystore'[i] = keystore[i]
          /\ keystore'[Len(keystore')] = w
      BY <1>1, <2>3, <3>1 DEF w
    <3> QED
      BY <2>1, <2>3, <3>1, <3>2 DEF Wishes
  <2> QED
    BY <2>2, <2>3 DEF Asked
<1>6. Len(keystore) \in Nat /\ Len(keystore') \in Nat
  BY <1>1, <1>5
<1>7. \A i \in 1..Len(keystore) : keystore[i].by # r
  BY <1>5 DEF Base, Queued
<1>8. Queued'
  <2>1. ASSUME NEW i \in 1..Len(keystore') PROVE req'[keystore'[i].by].at \in {"storing", "clearing"}
    <3>1. CASE i \in 1..Len(keystore)
      BY <1>2, <1>5, <1>7, <3>1 DEF Base, Queued
    <3>2. CASE i \notin 1..Len(keystore)
      BY <1>2, <1>5, <1>6, <3>2
    <3> QED
      BY <3>1, <3>2
  <2>2. ASSUME NEW i \in 1..Len(keystore'), NEW j \in 1..Len(keystore'), keystore'[i].by = keystore'[j].by
        PROVE  i = j
    <3>1. CASE i \in 1..Len(keystore) /\ j \in 1..Len(keystore)
      BY <1>5, <2>2, <3>1 DEF Base, Queued
    <3>2. CASE ~(i \in 1..Len(keystore) /\ j \in 1..Len(keystore))
      BY SMTT(30), <1>5, <1>6, <1>7, <2>2, <3>2
    <3> QED
      BY <3>1, <3>2
  <2> QED
    BY <2>1, <2>2 DEF Queued
<1>9. Bounded'
  <2>1. ASSUME NEW b \in Requests PROVE req'[b].pair \in 0..issued'
    BY <1>1, <1>2 DEF Base, Bounded
  <2>2. ASSUME NEW i \in 1..Len(keystore'), keystore'[i].key < 3 PROVE keystore'[i].value \in 0..issued'
    <3>1. CASE i \in 1..Len(keystore)
      BY <1>1, <1>5, <2>2, <3>1 DEF Base, Bounded
    <3>2. CASE i \notin 1..Len(keystore)
      BY SMTT(30), <1>1, <1>5, <1>6, <3>2
    <3> QED
      BY <3>1, <3>2
  <2>3. disk'.refresh \in 0..issued'
    BY <1>1 DEF Base, Bounded
  <2> QED
    BY <2>1, <2>2, <2>3 DEF Bounded
<1>10. TypeOK'
  <2>1. live' \subseteq Pairs /\ orphans' \subseteq Pairs
    BY DEF Pairs
  <2>2. inFlight' \in 0..MaxRequests
    BY <1>1
  <2> QED
    BY <1>1, <1>2, <1>5, <2>1, <2>2 DEF TypeOK
<1> QED
  BY <1>2, <1>3, <1>4, <1>8, <1>9, <1>10 DEF Base

-----------------------------------------------------------------------------
\* What a request can go through: each of the actions that change one request is
\* one of these moves, in which the request becomes q.
Starts(r, q) ==
    /\ req[r].at = "unused" /\ q.at \in {"start", "sent"} /\ q.pair = 0 /\ q.got = "none"
    /\ (q.kind = "login") <=> (q.at = "sent")
    /\ \/ tokens' = tokens /\ phase # "starting"
       \/ phase = "starting" /\ Quiet /\ tokens' = disk
    /\ phase' = phase /\ notice' \in {notice, FALSE}
    /\ UNCHANGED <<server, disk, keystore, inFlight, excused>>

Clears(r, q) ==
    /\ q.at = "clearing" /\ tokens' = Pair(0) /\ Ask(r, 1, 0)
    /\ \/ req[r].at = "unused" /\ q.kind = "logout" /\ q.pair = 0
       \/ /\ req[r].at = "answered" \/ (req[r].at = "refreshed" /\ req[r].got = "401")
          /\ q.kind = req[r].kind /\ q.kind # "login" /\ q.pair = req[r].pair
    /\ UNCHANGED <<server, disk, inFlight, session, excused>>

Saves(r, q) ==
    /\ Holds(req[r]) /\ q.at = "storing" /\ q.kind = req[r].kind /\ q.pair = req[r].pair
    /\ tokens' = Pair(q.pair) /\ Ask(r, 1, q.pair)
    /\ UNCHANGED <<server, disk, inFlight, session, excused>>

AsksToRenew(r, q) ==
    /\ req[r].at \in {"start", "answered"} /\ q.kind = req[r].kind /\ q.kind # "login"
    /\ q.got = req[r].got
    /\ \/ /\ inFlight = 0 /\ inFlight' = r
          /\ q.at = "refreshing" /\ q.pair = tokens.refresh /\ tokens.refresh # 0
       \/ /\ inFlight # 0 /\ inFlight' = inFlight
          /\ q.at = "waiting" /\ q.pair = req[r].pair
    /\ UNCHANGED <<server, store, session, excused>>

GoesOn(r, q) ==
    /\ \/ req[r].at = "start" /\ q.at = "sent" /\ q.kind = req[r].kind
       \/ req[r].at = "sent" /\ q.at = "answered" /\ q.kind = req[r].kind
       \/ req[r].at = "answered" /\ q.at = "ended" /\ q.kind = "call"
    /\ ~Holds(q) /\ q.pair \in {0, req[r].pair}
    /\ \/ UNCHANGED <<live, excused>>
       \/ live' \subseteq live /\ excused' = TRUE
    /\ phase' \in {phase, "signedIn", "signedOut"}
    /\ UNCHANGED <<issued, signIn, ending, over, orphans, stray, store, inFlight, notice>>

LogsIn(r, q) ==
    /\ req[r].at = "sent" /\ req[r].kind = "login"
    /\ q.at = "answered" /\ q.kind = "login" /\ q.got = "ok" /\ q.pair = issued + 1
    /\ IssueTokens(r) /\ live' = live \cup {issued + 1}
    /\ UNCHANGED <<ending, over, orphans, stray, store, inFlight, session, excused>>

IsRead(r, q) ==
    /\ req[r].at = "refreshing" /\ req[r].pair \in live
    /\ q.at = "checked" /\ q.kind = req[r].kind /\ q.pair = req[r].pair
    /\ UNCHANGED <<server, store, inFlight, session, excused>>

IsRefused(r, q) ==
    /\ req[r].at = "refreshing" /\ req[r].pair \notin live
    /\ q.at = "refreshed" /\ q.kind = req[r].kind /\ q.got = "401" /\ q.pair = 0
    /\ UNCHANGED <<server, store, inFlight, session, excused>>

IsRenewed(r, q) ==
    /\ req[r].at = "checked"
    /\ q.at = "refreshed" /\ q.kind = req[r].kind /\ q.got = "ok" /\ q.pair = issued + 1
    /\ IssueTokens(signIn[req[r].pair])
    /\ live' = (live \ {req[r].pair}) \cup {issued + 1}
    /\ UNCHANGED <<ending, over, orphans, stray, store, inFlight, session, excused>>

IsLost(r, q) ==
    /\ \/ req[r].at \in {"refreshing", "checked", "refreshed"} /\ q.at = "refreshed"
       \/ req[r].at = "answered" /\ q.at = "answered"
    /\ q.kind = req[r].kind /\ q.got = "lost" /\ q.pair = 0
    /\ excused' \in BOOLEAN /\ (excused => excused') /\ (req[r].at = "refreshed" => excused')
    /\ \/ UNCHANGED orphans
       \/ req[r].at = "checked" /\ excused' /\ orphans' = orphans \cup {req[r].pair}
    /\ UNCHANGED <<issued, live, signIn, ending, over, stray, store, inFlight, session>>

Moves(r, q) ==
    \/ Starts(r, q) \/ Clears(r, q) \/ Saves(r, q) \/ AsksToRenew(r, q) \/ GoesOn(r, q)
    \/ LogsIn(r, q) \/ IsRead(r, q) \/ IsRefused(r, q) \/ IsRenewed(r, q) \/ IsLost(r, q)

\* There is no earlier session.
NothingStored ==
    /\ phase = "starting" /\ Quiet /\ tokens' = disk /\ phase' \in {phase, "signedOut"}
    /\ UNCHANGED <<server, disk, keystore, inFlight, notice, req, excused>>

\* A renewal failed, for those who wait too.
RenewalLost(r) ==
    /\ req[r].at = "refreshed" /\ req[r].got = "lost" /\ Complete(r, FALSE)
    /\ UNCHANGED <<server, store, session, excused>>

LEMMA ActMoves ==
    ASSUME Base, NEW r \in Requests, Act(r)
    PROVE  \/ \E q \in RequestStates : req' = [req EXCEPT ![r] = q] /\ Moves(r, q)
           \/ NothingStored
<1>1. /\ req \in [Requests -> RequestStates] /\ tokens.refresh \in 0..MaxPairs
      /\ r \in 1..MaxRequests
  BY DEF Base, TypeOK, Tokens, Requests
<1> DEFINE b(place, kind) == [Blank(place) EXCEPT !.kind = kind]
           o(n) == [Blank("start") EXCEPT !.kind = "logout", !.refresh = n]
<1>2. ASSUME NEW place \in Places, NEW kind \in Kinds
      PROVE  /\ b(place, kind) \in RequestStates
             /\ b(place, kind).at = place /\ b(place, kind).kind = kind
             /\ b(place, kind).pair = 0 /\ b(place, kind).got = "none"
  <2>1. 0 \in 0..MaxPairs
    OBVIOUS
  <2> QED
    BY <2>1 DEF Blank, RequestStates
<1>3. /\ {"start", "sent", "clearing"} \subseteq Places
      /\ {"boot", "login", "call", "upload", "status", "logout"} \subseteq Kinds
  BY DEF Places, Kinds, StatusKinds
<1>4. ASSUME NEW n \in 0..MaxPairs
      PROVE  /\ o(n) \in RequestStates /\ o(n).at = "start" /\ o(n).kind = "logout"
             /\ o(n).pair = 0 /\ o(n).got = "none"
  <2>1. 0 \in 0..MaxPairs /\ "start" \in Places /\ "logout" \in Kinds
    BY <1>3
  <2> QED
    BY <2>1 DEF Blank, RequestStates
<1>5. CASE Bootstrap(r)
  <2>1. CASE disk.refresh = 0
    BY <1>5, <2>1 DEF Bootstrap, NothingStored
  <2>2. CASE disk.refresh # 0
    <3> DEFINE q == b("start", "boot")
    <3>1. req' = [req EXCEPT ![r] = q] /\ req[r].at = "unused"
      BY <1>5, <2>2 DEF Bootstrap, Set, IsNext
    <3>2. q \in RequestStates /\ q.at = "start" /\ q.kind = "boot" /\ q.pair = 0 /\ q.got = "none"
      BY <1>2, <1>3
    <3> HIDE DEF q
    <3>3. Starts(r, q)
      BY <1>5, <2>2, <3>1, <3>2 DEF Bootstrap, Starts
    <3> QED
      BY <3>1, <3>2, <3>3 DEF Moves
  <2> QED
    BY <2>1, <2>2
<1>6. CASE Login(r)
  <2> DEFINE q == b("sent", "login")
  <2>1. req' = [req EXCEPT ![r] = q] /\ req[r].at = "unused"
    BY <1>6 DEF Login, Begin, Set, IsNext
  <2>2. q \in RequestStates /\ q.at = "sent" /\ q.kind = "login" /\ q.pair = 0 /\ q.got = "none"
    BY <1>2, <1>3
  <2> HIDE DEF q
  <2>3. Starts(r, q)
    BY <1>6, <2>1, <2>2 DEF Login, Begin, Starts, store
  <2> QED
    BY <2>1, <2>2, <2>3 DEF Moves
<1>7. CASE Call(r)
  <2>1. PICK kind \in {"call", "upload", "status"} :
            Begin(r, [Blank("start") EXCEPT !.kind = kind])
    BY <1>7 DEF Call
  <2> DEFINE q == b("start", kind)
  <2>2. req' = [req EXCEPT ![r] = q] /\ req[r].at = "unused"
    BY <2>1 DEF Begin, Set, IsNext
  <2>3. q \in RequestStates /\ q.at = "start" /\ q.kind = kind /\ q.pair = 0 /\ q.got = "none"
    BY <1>2, <1>3
  <2> HIDE DEF q
  <2>4. Starts(r, q)
    BY <1>7, <2>1, <2>2, <2>3 DEF Call, Begin, Starts, store, session
  <2> QED
    BY <2>2, <2>3, <2>4 DEF Moves
<1>8. CASE Logout(r)
  <2>1. CASE HasSession
    <3>0. PICK n \in 0..MaxPairs : n = tokens.refresh
      BY <1>1
    <3> DEFINE q == o(n)
    <3>1. req' = [req EXCEPT ![r] = q] /\ req[r].at = "unused"
      BY <1>8, <2>1, <3>0 DEF Logout, Set, IsNext
    <3>2. q \in RequestStates /\ q.at = "start" /\ q.kind = "logout" /\ q.pair = 0 /\ q.got = "none"
      BY <1>4
    <3> HIDE DEF q
    <3>3. Starts(r, q)
      BY <1>8, <2>1, <3>1, <3>2 DEF Logout, Starts, store, session
    <3> QED
      BY <3>1, <3>2, <3>3 DEF Moves
  <2>2. CASE ~HasSession
    <3> DEFINE q == b("clearing", "logout")
    <3>1. req' = [req EXCEPT ![r] = q] /\ req[r].at = "unused"
      BY <1>8, <2>2 DEF Logout, Set, IsNext
    <3>2. q \in RequestStates /\ q.at = "clearing" /\ q.kind = "logout" /\ q.pair = 0
      BY <1>2, <1>3
    <3> HIDE DEF q
    <3>3. Clears(r, q)
      BY <1>8, <2>2, <3>1, <3>2 DEF Logout, Clears, Clear
    <3> QED
      BY <3>1, <3>2, <3>3 DEF Moves
  <2> QED
    BY <2>1, <2>2
<1> QED
  BY <1>5, <1>6, <1>7, <1>8 DEF Act

LEMMA ProgressMoves ==
    ASSUME Base, NEW r \in Requests, Progress(r) \/ Abandon(r) \/ Lose(r)
    PROVE  \/ \E q \in RequestStates : req' = [req EXCEPT ![r] = q] /\ Moves(r, q)
           \/ RenewalLost(r)
<1>1. /\ req \in [Requests -> RequestStates] /\ tokens \in Tokens /\ tokens.refresh \in 0..MaxPairs
      /\ tokens.access \in 0..MaxPairs
      /\ req[r] \in RequestStates /\ r \in 1..MaxRequests /\ issued \in 0..MaxPairs
      /\ Shape(req[r]) /\ excused \in BOOLEAN
  BY DEF Base, TypeOK, Tokens, Requests
<1> DEFINE goes(place, access) == [req[r] EXCEPT !.at = place, !.access = access]
           asks(place, why) == [req[r] EXCEPT !.at = place, !.why = why]
           renews(why, pair) == [req[r] EXCEPT !.at = "refreshing", !.why = why, !.pair = pair]
           gets(got, pair) == [req[r] EXCEPT !.at = "refreshed", !.got = got, !.pair = pair]
           is(got, pair) == [req[r] EXCEPT !.at = "answered", !.access = 0, !.got = got, !.pair = pair]
           at(place) == [req[r] EXCEPT !.at = place]
           loses == [req[r] EXCEPT !.got = "lost", !.pair = 0]
<1>2. 0 \in 0..MaxPairs
  OBVIOUS
<1>3. {"sent", "waiting", "refreshing", "refreshed", "answered", "storing", "clearing", "checked"} \subseteq Places
  BY DEF Places
<1>4. ASSUME NEW place \in Places, NEW access \in 0..MaxPairs
      PROVE  /\ goes(place, access) \in RequestStates /\ goes(place, access).at = place
             /\ goes(place, access).kind = req[r].kind /\ goes(place, access).pair = req[r].pair
             /\ goes(place, access).got = req[r].got
  BY <1>1 DEF RequestStates
<1>5. ASSUME NEW place \in Places
      PROVE  /\ at(place) \in RequestStates /\ at(place).at = place
             /\ at(place).kind = req[r].kind /\ at(place).pair = req[r].pair
             /\ at(place).got = req[r].got
  BY <1>1 DEF RequestStates
<1>6. ASSUME NEW place \in Places, NEW why \in {"before", "after"}
      PROVE  /\ asks(place, why) \in RequestStates /\ asks(place, why).at = place
             /\ asks(place, why).kind = req[r].kind /\ asks(place, why).pair = req[r].pair
             /\ asks(place, why).got = req[r].got
  BY <1>1 DEF RequestStates
<1>7. ASSUME NEW why \in {"before", "after"}, NEW pair \in 0..MaxPairs
      PROVE  /\ renews(why, pair) \in RequestStates /\ renews(why, pair).at = "refreshing"
             /\ renews(why, pair).kind = req[r].kind /\ renews(why, pair).pair = pair
             /\ renews(why, pair).got = req[r].got
  BY <1>1, <1>3 DEF RequestStates
<1>8. ASSUME NEW got \in {"ok", "401", "lost"}, NEW pair \in 0..MaxPairs
      PROVE  /\ gets(got, pair) \in RequestStates /\ gets(got, pair).at = "refreshed"
             /\ gets(got, pair).kind = req[r].kind /\ gets(got, pair).pair = pair
             /\ gets(got, pair).got = got
  BY <1>1, <1>3 DEF RequestStates
<1>9. ASSUME NEW got \in {"ok", "401", "lost"}, NEW pair \in 0..MaxPairs
      PROVE  /\ is(got, pair) \in RequestStates /\ is(got, pair).at = "answered"
             /\ is(got, pair).kind = req[r].kind /\ is(got, pair).pair = pair
             /\ is(got, pair).got = got
  BY <1>1, <1>2, <1>3 DEF RequestStates
<1>10. /\ loses \in RequestStates /\ loses.at = req[r].at /\ loses.kind = req[r].kind
       /\ loses.pair = 0 /\ loses.got = "lost"
  BY <1>1, <1>2 DEF RequestStates
<1>11. /\ Ended \in RequestStates /\ Ended.at = "ended" /\ Ended.kind = "call" /\ Ended.pair = 0
  BY <1>2 DEF Ended, Blank, RequestStates, Places, Kinds
<1> HIDE DEF goes, asks, renews, gets, is, at, loses, Ended
<1> SUFFICES ASSUME ~RenewalLost(r)
             PROVE  \E q \in RequestStates : req' = [req EXCEPT ![r] = q] /\ Moves(r, q)
  OBVIOUS
<1>12. ASSUME NEW why \in {"before", "after"}, RefreshTokens(r, why), HasSession,
              req[r].at \in {"start", "answered"}, req[r].kind # "login",
              UNCHANGED <<server, store, session, excused>>
       PROVE  \E q \in RequestStates : req' = [req EXCEPT ![r] = q] /\ Moves(r, q)
  <2>1. CASE inFlight = 0
    <3>1. PICK n \in 0..MaxPairs : n = tokens.refresh
      BY <1>1
    <3>2. req' = [req EXCEPT ![r] = renews(why, n)]
      BY <1>1, <1>12, <2>1, <3>1 DEF RefreshTokens, renews
    <3>3. AsksToRenew(r, renews(why, n))
      BY <1>7, <1>12, <2>1, <3>1 DEF AsksToRenew, RefreshTokens, HasSession
    <3> QED
      BY <1>7, <3>2, <3>3 DEF Moves
  <2>2. CASE inFlight # 0
    <3>1. req' = [req EXCEPT ![r] = asks("waiting", why)]
      BY <1>1, <1>12, <2>2 DEF RefreshTokens, asks
    <3>2. /\ asks("waiting", why) \in RequestStates /\ asks("waiting", why).at = "waiting"
          /\ asks("waiting", why).kind = req[r].kind /\ asks("waiting", why).pair = req[r].pair
          /\ asks("waiting", why).got = req[r].got
      BY <1>3, <1>6
    <3>3. AsksToRenew(r, asks("waiting", why))
      BY <1>12, <2>2, <3>2 DEF AsksToRenew, RefreshTokens
    <3> QED
      BY <3>1, <3>2, <3>3 DEF Moves
  <2> QED
    BY <2>1, <2>2
<1>13. CASE OnRequest(r)
  <2>1. CASE NeedsRefresh /\ HasSession
    BY <1>1, <1>12, <1>13, <2>1 DEF OnRequest, Shape
  <2>2. CASE ~(NeedsRefresh /\ HasSession)
    <3>1. PICK n \in 0..MaxPairs : n = tokens.access
      BY <1>1
    <3> DEFINE q == goes("sent", n)
    <3>2. req' = [req EXCEPT ![r] = q] /\ req[r].at = "start"
      BY <1>13, <2>2, <3>1 DEF OnRequest, Set, goes
    <3>3. /\ q \in RequestStates /\ q.at = "sent" /\ q.kind = req[r].kind /\ q.pair = req[r].pair
      BY <1>3, <1>4
    <3> HIDE DEF q
    <3>4. GoesOn(r, q)
      BY <1>13, <2>2, <3>2, <3>3 DEF OnRequest, GoesOn, Holds, server, session
    <3> QED
      BY <3>2, <3>3, <3>4 DEF Moves
  <2> QED
    BY <2>1, <2>2
<1>14. CASE OnError(r)
  BY <1>12, <1>14 DEF OnError, Retriable
<1>15. CASE RefreshLands(r)
  <2>1. req[r].at = "refreshed" /\ UNCHANGED <<server, disk, session, excused>> /\ req[r].kind # "login"
    BY <1>1, <1>15 DEF RefreshLands, Shape
  <2>2. CASE req[r].got = "ok" /\ Save(r, req[r].pair) /\ At(r, "storing") /\ UNCHANGED inFlight
    <3> DEFINE q == at("storing")
    <3>1. req' = [req EXCEPT ![r] = q]
      BY <1>1, <2>2 DEF At, at
    <3>2. q \in RequestStates /\ q.at = "storing" /\ q.kind = req[r].kind /\ q.pair = req[r].pair
      BY <1>3, <1>5
    <3> HIDE DEF q
    <3>3. Saves(r, q)
      BY <2>1, <2>2, <3>2 DEF Saves, Save, Holds
    <3> QED
      BY <3>1, <3>2, <3>3 DEF Moves
  <2>3. CASE req[r].got = "401" /\ Clear(r) /\ At(r, "clearing") /\ UNCHANGED inFlight
    <3> DEFINE q == at("clearing")
    <3>1. req' = [req EXCEPT ![r] = q]
      BY <1>1, <2>3 DEF At, at
    <3>2. q \in RequestStates /\ q.at = "clearing" /\ q.kind = req[r].kind /\ q.pair = req[r].pair
      BY <1>3, <1>5
    <3> HIDE DEF q
    <3>3. Clears(r, q)
      BY <2>1, <2>3, <3>2 DEF Clears, Clear
    <3> QED
      BY <3>1, <3>2, <3>3 DEF Moves
  <2>4. CASE req[r].got = "lost" /\ Complete(r, FALSE) /\ UNCHANGED <<tokens, keystore>>
    BY <2>1, <2>4 DEF RenewalLost, store
  <2> QED
    BY <1>15, <2>2, <2>3, <2>4 DEF RefreshLands
<1>16. CASE Lands(r)
  <2>1. /\ req[r].at = "answered" /\ UNCHANGED <<server, disk, inFlight, notice, excused>>
    BY <1>16 DEF Lands
  <2>2. CASE req[r].kind = "login" /\ req[r].got = "ok" /\ Save(r, req[r].pair) /\ At(r, "storing")
             /\ UNCHANGED phase
    <3> DEFINE q == at("storing")
    <3>1. req' = [req EXCEPT ![r] = q]
      BY <1>1, <2>2 DEF At, at
    <3>2. q \in RequestStates /\ q.at = "storing" /\ q.kind = req[r].kind /\ q.pair = req[r].pair
      BY <1>3, <1>5
    <3> HIDE DEF q
    <3>3. Saves(r, q)
      BY <2>1, <2>2, <3>2 DEF Saves, Save, Holds, session
    <3> QED
      BY <3>1, <3>2, <3>3 DEF Moves
  <2>3. CASE /\ req[r].kind = "logout" \/ (req[r].kind \in StatusKinds /\ req[r].got = "401")
             /\ Clear(r) /\ At(r, "clearing") /\ UNCHANGED phase
    <3> DEFINE q == at("clearing")
    <3>1. req' = [req EXCEPT ![r] = q]
      BY <1>1, <2>3 DEF At, at
    <3>2. q \in RequestStates /\ q.at = "clearing" /\ q.kind = req[r].kind /\ q.pair = req[r].pair
      BY <1>3, <1>5
    <3> HIDE DEF q
    <3>3. req[r].kind # "login"
      BY <2>3 DEF StatusKinds
    <3>4. Clears(r, q)
      BY <2>1, <2>3, <3>2, <3>3 DEF Clears, Clear, session
    <3> QED
      BY <3>1, <3>2, <3>4 DEF Moves
  <2>4. CASE /\ phase' \in {phase, "signedIn", "signedOut"}
             /\ Set(r, Ended) /\ UNCHANGED <<tokens, keystore>>
    <3>1. GoesOn(r, Ended)
      BY <1>11, <2>1, <2>4 DEF GoesOn, Holds, server, store
    <3> QED
      BY <1>11, <2>4, <3>1 DEF Moves, Set
  <2> QED
    BY <1>16, <2>2, <2>3, <2>4 DEF Lands
<1>17. CASE LoginServed(r)
  <2>1. PICK n \in 0..MaxPairs : n = issued + 1
    BY <1>1, <1>17 DEF LoginServed, IssueTokens
  <2> DEFINE q == is("ok", n)
  <2>2. req' = [req EXCEPT ![r] = q]
    BY <1>17, <2>1 DEF LoginServed, Answer, Set, is
  <2>3. q \in RequestStates /\ q.at = "answered" /\ q.kind = req[r].kind /\ q.pair = n /\ q.got = "ok"
    BY <1>9
  <2> HIDE DEF q
  <2>4. LogsIn(r, q)
    BY <1>17, <2>1, <2>3 DEF LoginServed, LogsIn
  <2> QED
    BY <2>2, <2>3, <2>4 DEF Moves
<1>18. CASE LogoutServed(r) \/ Served(r) \/ (ServerFails(r) /\ req[r].at = "sent")
  <2>1. PICK got \in {"ok", "401", "lost"} :
            Answer(r, got, 0) /\ (req[r].kind = "login" => got # "ok")
    BY <1>18 DEF LogoutServed, Served, ServerFails
  <2> DEFINE q == is(got, 0)
  <2>2. req' = [req EXCEPT ![r] = q]
    BY <2>1 DEF Answer, Set, is
  <2>3. q \in RequestStates /\ q.at = "answered" /\ q.kind = req[r].kind /\ q.pair = 0 /\ q.got = got
    BY <1>2, <1>9
  <2> HIDE DEF q
  <2>4. GoesOn(r, q)
    BY <1>18, <2>1, <2>3 DEF LogoutServed, Served, ServerFails, GoesOn, Holds, server, session
  <2> QED
    BY <2>2, <2>3, <2>4 DEF Moves
<1>19. CASE RotateReads(r)
  <2>1. CASE req[r].pair \in live
    <3> DEFINE q == at("checked")
    <3>1. req' = [req EXCEPT ![r] = q]
      BY <1>1, <1>19, <2>1 DEF RotateReads, At, at
    <3>2. q \in RequestStates /\ q.at = "checked" /\ q.kind = req[r].kind /\ q.pair = req[r].pair
      BY <1>3, <1>5
    <3> HIDE DEF q
    <3>3. IsRead(r, q)
      BY <1>19, <2>1, <3>2 DEF RotateReads, IsRead
    <3> QED
      BY <3>1, <3>2, <3>3 DEF Moves
  <2>2. CASE req[r].pair \notin live
    <3> DEFINE q == gets("401", 0)
    <3>1. req' = [req EXCEPT ![r] = q]
      BY <1>19, <2>2 DEF RotateReads, Set, gets
    <3>2. /\ q \in RequestStates /\ q.at = "refreshed" /\ q.kind = req[r].kind /\ q.pair = 0
          /\ q.got = "401"
      BY <1>2, <1>8
    <3> HIDE DEF q
    <3>3. IsRefused(r, q)
      BY <1>19, <2>2, <3>2 DEF RotateReads, IsRefused
    <3> QED
      BY <3>1, <3>2, <3>3 DEF Moves
  <2> QED
    BY <2>1, <2>2
<1>20. CASE RotateCommits(r)
  <2>1. PICK n \in 0..MaxPairs : n = issued + 1
    BY <1>1, <1>20 DEF RotateCommits, IssueTokens
  <2> DEFINE q == gets("ok", n)
  <2>2. req' = [req EXCEPT ![r] = q]
    BY <1>20, <2>1 DEF RotateCommits, Set, gets
  <2>3. q \in RequestStates /\ q.at = "refreshed" /\ q.kind = req[r].kind /\ q.pair = n /\ q.got = "ok"
    BY <1>8
  <2> HIDE DEF q
  <2>4. IsRenewed(r, q)
    BY <1>20, <2>1, <2>3 DEF RotateCommits, IsRenewed
  <2> QED
    BY <2>2, <2>3, <2>4 DEF Moves
<1>21. CASE Abandon(r) \/ (ServerFails(r) /\ req[r].at # "sent")
  <2> DEFINE q == gets("lost", 0)
  <2>1. req' = [req EXCEPT ![r] = q]
    BY <1>21 DEF Abandon, ServerFails, Set, gets
  <2>2. q \in RequestStates /\ q.at = "refreshed" /\ q.kind = req[r].kind /\ q.pair = 0 /\ q.got = "lost"
    BY <1>2, <1>8
  <2> HIDE DEF q
  <2>3. IsLost(r, q)
    BY <1>1, <1>21, <2>2 DEF Abandon, ServerFails, IsLost, server
  <2> QED
    BY <2>1, <2>2, <2>3 DEF Moves
<1>22. CASE Lose(r)
  <2>1. req' = [req EXCEPT ![r] = loses]
    BY <1>1, <1>22 DEF Lose, loses
  <2>2. IsLost(r, loses)
    BY <1>1, <1>10, <1>22 DEF Lose, IsLost, server
  <2> QED
    BY <1>10, <2>1, <2>2 DEF Moves
<1> QED
  BY <1>13, <1>14, <1>15, <1>16, <1>17, <1>18, <1>19, <1>20, <1>21, <1>22 DEF Progress

\* The store a session of tokens is kept in, when a pair is saved or cleared.
LEMMA PairTypes ==
    ASSUME NEW n \in 0..MaxPairs
    PROVE  Pair(n) \in Tokens /\ Pair(n).access = n /\ Pair(n).refresh = n /\ Pair(n).expires = n
  BY DEF Pair, Tokens

LEMMA MovesKeepBase ==
    ASSUME Base, NEW r \in Requests, NEW q \in RequestStates, req' = [req EXCEPT ![r] = q], Moves(r, q)
    PROVE  /\ Base'
           /\ \A b \in Requests : req'[b] = IF b = r THEN q ELSE req[b]
<1>1. /\ req \in [Requests -> RequestStates] /\ tokens \in Tokens /\ disk \in Tokens
      /\ issued \in 0..MaxPairs /\ r \in 1..MaxRequests /\ inFlight \in 0..MaxRequests
      /\ live \subseteq 1..issued /\ orphans \subseteq 1..issued
      /\ tokens.refresh \in 0..issued /\ disk.refresh \in 0..issued
      /\ signIn \in [Pairs -> 0..MaxRequests] /\ ending \in 0..issued /\ over \in 0..ending
      /\ stray \in BOOLEAN /\ excused \in BOOLEAN /\ notice \in BOOLEAN
      /\ phase \in {"starting", "signedOut", "signedIn"}
      /\ req[r] \in RequestStates /\ req[r].pair \in 0..issued /\ Shape(req[r])
  BY DEF Base, TypeOK, Bounded, Requests
<1>2. (Renews(req[r]) => inFlight = r) /\ (inFlight = r => Renews(req[r]) \/ req[r].at = "clearing")
  BY DEF Base, Single
<1>3. Pair(0) \in Tokens /\ Pair(0).refresh = 0 /\ 0 \in 0..issued
  BY <1>1, PairTypes
<1>4. Pair(req[r].pair) \in Tokens /\ Pair(req[r].pair).refresh = req[r].pair
  BY <1>1, PairTypes
<1> USE DEF server, store, session
<1>5. CASE Starts(r, q)
  <2>1. Shape(q) /\ ~Renews(q) /\ inFlight # r
    BY <1>2, <1>5 DEF Starts, Shape, Holds, Renews
  <2>2. /\ issued' = issued /\ live' = live /\ orphans' = orphans /\ signIn' = signIn
        /\ ending' = ending /\ over' = over /\ stray' = stray
        /\ disk' = disk /\ keystore' = keystore /\ inFlight' = inFlight /\ excused' = excused
        /\ req[r].at = "unused" /\ q.pair = 0
    BY <1>5 DEF Starts
  <2>3. tokens' \in Tokens /\ tokens'.refresh \in 0..issued /\ phase' = phase /\ notice' \in BOOLEAN
    BY <1>1, <1>5 DEF Starts
  <2> QED
    <3>1. Asked(q, r) /\ q.pair \in 0..issued' /\ req[r].at \notin {"storing", "clearing"}
      BY <1>3, <2>2 DEF Asked
    <3>2. inFlight' # r /\ issued' \in {issued, issued + 1}
      BY <2>1, <2>2
    <3> QED
      BY <1>1, <2>1, <2>2, <2>3, <3>1, <3>2, RequestChanges
<1>6. CASE Clears(r, q)
  <2>1. Shape(q) /\ ~Renews(q)
    BY <1>6 DEF Clears, Shape, Holds, Renews
  <2>2. Asked(q, r)
    BY <1>3, <1>6 DEF Clears, Asked, Ask
  <2> QED
    BY <1>1, <1>2, <1>3, <1>6, <2>1, <2>2, RequestChanges DEF Clears, Renews
<1>7. CASE Saves(r, q)
  <2>1. Shape(q) /\ q.pair \in 0..issued
    BY <1>1, <1>7 DEF Saves, Shape, Holds
  <2>2. Asked(q, r)
    BY <1>7, <2>1 DEF Saves, Asked, Ask
  <2>3. /\ Renews(q) => inFlight' = r
        /\ inFlight' = r => Renews(q)
        /\ req[r].at \notin {"storing", "clearing"}
    BY <1>1, <1>2, <1>7 DEF Saves, Renews, Holds, Shape
  <2> QED
    BY <1>1, <1>4, <1>7, <2>1, <2>2, <2>3, RequestChanges DEF Saves
<1>8. CASE AsksToRenew(r, q)
  <2>1. Shape(q) /\ (Renews(q) <=> q.at = "refreshing")
    BY <1>8 DEF AsksToRenew, Shape, Holds, Renews
  <2>2. inFlight # r /\ q.pair \in 0..issued
    BY <1>1, <1>2, <1>8 DEF AsksToRenew, Renews
  <2>3. /\ issued' = issued /\ live' = live /\ orphans' = orphans /\ signIn' = signIn
        /\ ending' = ending /\ over' = over /\ stray' = stray
        /\ disk' = disk /\ keystore' = keystore /\ tokens' = tokens /\ excused' = excused
        /\ phase' = phase /\ notice' = notice /\ req[r].at \notin {"storing", "clearing"}
    BY <1>8 DEF AsksToRenew
  <2>4. \/ inFlight = 0 /\ inFlight' = r /\ q.at = "refreshing"
        \/ inFlight' = inFlight /\ q.at = "waiting"
    BY <1>8 DEF AsksToRenew
  <2> QED
    <3>1. Asked(q, r) /\ q.pair \in 0..issued' /\ issued' \in {issued, issued + 1}
      BY <2>2, <2>3 DEF Asked
    <3>2. /\ Renews(q) => inFlight' = r
          /\ inFlight' = r => Renews(q)
          /\ inFlight' # inFlight => inFlight \in {0, r} /\ inFlight' \in {0, r}
      BY <2>1, <2>2, <2>4
    <3> QED
      BY <1>1, <2>1, <2>3, <3>1, <3>2, RequestChanges
<1>9. CASE GoesOn(r, q)
  <2>1. Shape(q) /\ ~Renews(q)
    BY <1>1, <1>9 DEF GoesOn, Shape, Renews
  <2>2. inFlight # r
    BY <1>2, <1>9 DEF GoesOn, Renews
  <2>3. q.pair \in 0..issued /\ live' \subseteq 1..issued
    BY <1>1, <1>3, <1>9 DEF GoesOn
  <2> QED
    BY <1>1, <1>9, <2>1, <2>2, <2>3, RequestChanges DEF GoesOn, Asked
<1>10. CASE LogsIn(r, q)
  <2>1. issued' = issued + 1 /\ issued' \in 0..MaxPairs /\ live' \subseteq 1..issued' /\ q.pair \in 0..issued'
    BY <1>1, <1>10 DEF LogsIn, IssueTokens
  <2>2. Shape(q) /\ ~Renews(q) /\ inFlight # r
    BY <1>1, <1>2, <1>10 DEF LogsIn, Shape, Renews
  <2>3. signIn' \in [Pairs -> 0..MaxRequests]
    <3>1. signIn' = [signIn EXCEPT ![issued + 1] = r] /\ r \in 0..MaxRequests
      BY <1>1, <1>10 DEF LogsIn, IssueTokens
    <3> QED
      BY <1>1, <3>1
  <2>4. /\ orphans' = orphans /\ ending' = ending /\ over' = over /\ stray' = stray
        /\ disk' = disk /\ keystore' = keystore /\ tokens' = tokens /\ excused' = excused
        /\ inFlight' = inFlight /\ phase' = phase /\ notice' = notice /\ req[r].at = "sent"
    BY <1>10 DEF LogsIn
  <2>5. /\ orphans' \subseteq 1..issued' /\ ending' \in 0..issued' /\ over' \in 0..ending'
        /\ tokens'.refresh \in 0..issued'
    BY <1>1, <2>1, <2>4
  <2> QED
    BY <1>1, <2>1, <2>2, <2>3, <2>4, <2>5, RequestChanges DEF Asked
<1>11. CASE IsRead(r, q) \/ IsRefused(r, q)
  <2>1. Shape(q) /\ Renews(q) /\ inFlight = r
    BY <1>1, <1>2, <1>11 DEF IsRead, IsRefused, Shape, Holds, Renews
  <2>2. /\ issued' = issued /\ live' = live /\ orphans' = orphans /\ signIn' = signIn
        /\ ending' = ending /\ over' = over /\ stray' = stray
        /\ disk' = disk /\ keystore' = keystore /\ tokens' = tokens /\ excused' = excused
        /\ inFlight' = inFlight /\ phase' = phase /\ notice' = notice
        /\ req[r].at = "refreshing" /\ q.pair \in 0..issued
    BY <1>1, <1>3, <1>11 DEF IsRead, IsRefused
  <2> QED
    BY <1>1, <2>1, <2>2, RequestChanges DEF Asked
<1>12. CASE IsRenewed(r, q)
  <2>0. /\ orphans' = orphans /\ ending' = ending /\ over' = over /\ stray' = stray
        /\ disk' = disk /\ keystore' = keystore /\ tokens' = tokens /\ excused' = excused
        /\ inFlight' = inFlight /\ phase' = phase /\ notice' = notice /\ req[r].at = "checked"
        /\ live' = (live \ {req[r].pair}) \cup {issued + 1} /\ q.pair = issued + 1
        /\ issued < MaxPairs /\ issued' = issued + 1
        /\ signIn' = [signIn EXCEPT ![issued + 1] = signIn[req[r].pair]]
    BY <1>12 DEF IsRenewed, IssueTokens
  <2>1. issued' = issued + 1 /\ issued' \in 0..MaxPairs /\ live' \subseteq 1..issued' /\ q.pair \in 0..issued'
    <3>1. issued' = issued + 1 /\ issued' \in 0..MaxPairs /\ q.pair \in 0..issued'
      BY <1>1, <2>0
    <3>2. live \subseteq 1..(issued + 1) /\ issued + 1 \in 1..(issued + 1)
      BY <1>1
    <3> QED
      BY <2>0, <3>1, <3>2
  <2>2. Shape(q) /\ Renews(q) /\ inFlight = r
    BY <1>1, <1>2, <1>12 DEF IsRenewed, Shape, Renews
  <2>3. signIn' \in [Pairs -> 0..MaxRequests]
    <3>1. req[r].pair \in Pairs
      BY <1>1, <1>12 DEF IsRenewed, Shape, Pairs
    <3> QED
      BY <1>1, <2>0, <3>1
  <2>4. /\ orphans' \subseteq 1..issued' /\ ending' \in 0..issued' /\ over' \in 0..ending'
        /\ tokens'.refresh \in 0..issued'
    BY <1>1, <2>0
  <2> QED
    BY <1>1, <2>0, <2>1, <2>2, <2>3, <2>4, RequestChanges DEF Asked
<1>13. CASE IsLost(r, q)
  <2>1. Shape(q) /\ (Renews(q) <=> q.at = "refreshed")
    BY <1>1, <1>13 DEF IsLost, Shape, Holds, Renews
  <2>2. inFlight = r <=> q.at = "refreshed"
    BY <1>2, <1>13 DEF IsLost, Renews
  <2>3. orphans' \subseteq 1..issued
    <3>1. req[r].at = "checked" => req[r].pair \in 1..issued
      BY <1>1 DEF Shape
    <3>2. orphans' = orphans \/ (req[r].at = "checked" /\ orphans' = orphans \cup {req[r].pair})
      BY <1>13 DEF IsLost
    <3> QED
      BY <1>1, <3>1, <3>2
  <2>4. /\ issued' = issued /\ live' = live /\ signIn' = signIn /\ ending' = ending
        /\ over' = over /\ stray' = stray
        /\ disk' = disk /\ keystore' = keystore /\ tokens' = tokens /\ excused' \in BOOLEAN
        /\ inFlight' = inFlight /\ phase' = phase /\ notice' = notice
        /\ req[r].at \notin {"storing", "clearing"} /\ q.pair = 0
    BY <1>13 DEF IsLost
  <2> QED
    BY <1>1, <1>3, <2>1, <2>2, <2>3, <2>4, RequestChanges DEF Asked
<1> QED
  BY <1>5, <1>6, <1>7, <1>8, <1>9, <1>10, <1>11, <1>12, <1>13 DEF Moves

-----------------------------------------------------------------------------
\* The renewal of r is over, for those who wait too.
LEMMA ResumedFields ==
    ASSUME Base, NEW b \in Requests, NEW renewed \in BOOLEAN, req[b].kind # "login"
    PROVE  /\ Resumed(req[b], renewed) \in RequestStates
           /\ Resumed(req[b], renewed).at \in {"sent", "start", "answered"}
           /\ Resumed(req[b], renewed).kind = req[b].kind
           /\ Resumed(req[b], renewed).pair = 0
<1>1. /\ req[b] \in RequestStates /\ tokens.access \in 0..MaxPairs /\ 0 \in 0..MaxPairs
  BY DEF Base, TypeOK, Tokens
<1>2. {"sent", "start", "answered"} \subseteq Places
  BY DEF Places
<1>3. CASE req[b].why = "before"
  BY <1>1, <1>2, <1>3 DEF Resumed, RequestStates
<1>4. CASE req[b].why # "before"
  BY <1>1, <1>2, <1>4 DEF Resumed, RequestStates
<1> QED
  BY <1>3, <1>4

LEMMA CompleteChanges ==
    ASSUME Base, NEW r \in Requests, NEW renewed \in BOOLEAN, Complete(r, renewed),
           req[r].kind # "login", inFlight = r
    PROVE  /\ inFlight' = 0
           /\ req' \in [Requests -> RequestStates]
           /\ \A b \in Requests :
                IF b = r \/ req[b].at = "waiting"
                THEN /\ req'[b].at \in {"sent", "start", "answered"}
                     /\ req'[b].kind = req[b].kind /\ req'[b].kind # "login" /\ req'[b].pair = 0
                ELSE req'[b] = req[b]
           /\ \A b \in Requests : Shape(req'[b]) /\ ~Renews(req'[b]) /\ req'[b].pair \in 0..issued
<1>1. /\ req \in [Requests -> RequestStates] /\ issued \in Nat
      /\ \A b \in Requests : Shape(req[b]) /\ req[b].pair \in 0..issued
      /\ \A b \in Requests : Renews(req[b]) => inFlight = b
  BY DEF Base, TypeOK, Bounded, Single
<1>2. /\ inFlight' = 0
      /\ req' = [b \in Requests |->
                   IF b = r \/ req[b].at = "waiting" THEN Resumed(req[b], renewed) ELSE req[b]]
  BY DEF Complete
<1>3. ASSUME NEW b \in Requests, b = r \/ req[b].at = "waiting"
      PROVE  /\ req'[b] \in RequestStates
             /\ req'[b].at \in {"sent", "start", "answered"}
             /\ req'[b].kind = req[b].kind /\ req'[b].kind # "login" /\ req'[b].pair = 0
  <2>1. req[b].kind # "login"
    BY <1>1, <1>3 DEF Shape
  <2>2. req'[b] = Resumed(req[b], renewed)
    BY <1>2, <1>3
  <2> QED
    BY <2>1, <2>2, ResumedFields
<1>4. ASSUME NEW b \in Requests, ~(b = r \/ req[b].at = "waiting")
      PROVE  req'[b] = req[b]
  BY <1>2, <1>4
<1>5. ASSUME NEW b \in Requests
      PROVE  Shape(req'[b]) /\ ~Renews(req'[b]) /\ req'[b].pair \in 0..issued
  <2>1. CASE b = r \/ req[b].at = "waiting"
    BY <1>1, <1>3, <2>1 DEF Shape, Renews, Holds
  <2>2. CASE ~(b = r \/ req[b].at = "waiting")
    BY <1>1, <1>4, <2>2
  <2> QED
    BY <2>1, <2>2
<1>6. req' \in [Requests -> RequestStates]
  <2>1. \A b \in Requests : req'[b] \in RequestStates
    BY <1>1, <1>3, <1>4
  <2> QED
    BY <1>2, <2>1
<1> QED
  BY <1>2, <1>3, <1>4, <1>5, <1>6

LEMMA RenewalLostKeepsBase == ASSUME Base, NEW r \in Requests, RenewalLost(r) PROVE Base'
<1>1. req[r].kind # "login" /\ inFlight = r /\ Complete(r, FALSE)
  BY DEF Base, Shape, Single, Renews, RenewalLost
<1>2. /\ inFlight' = 0 /\ req' \in [Requests -> RequestStates]
      /\ \A b \in Requests :
            IF b = r \/ req[b].at = "waiting"
            THEN /\ req'[b].at \in {"sent", "start", "answered"}
                 /\ req'[b].kind = req[b].kind /\ req'[b].kind # "login" /\ req'[b].pair = 0
            ELSE req'[b] = req[b]
      /\ \A b \in Requests : Shape(req'[b]) /\ ~Renews(req'[b]) /\ req'[b].pair \in 0..issued
  BY <1>1, CompleteChanges
<1>3. /\ UNCHANGED <<issued, live, signIn, ending, over, orphans, stray>>
      /\ UNCHANGED <<tokens, disk, keystore, phase, notice, excused>>
  BY DEF RenewalLost, server, store, session
<1>4. ASSUME NEW i \in 1..Len(keystore) PROVE keystore[i].by \in Requests
  <2>1. keystore[i] \in Wishes
    BY DEF Base, TypeOK
  <2> QED
    BY <2>1 DEF Wishes
<1>5. Queued'
  <2>1. ASSUME NEW i \in 1..Len(keystore) PROVE req'[keystore[i].by].at \in {"storing", "clearing"}
    <3>1. req[keystore[i].by].at \in {"storing", "clearing"} /\ req[r].at = "refreshed"
      BY DEF Base, Queued, RenewalLost
    <3> QED
      BY <1>2, <1>4, <3>1
  <2> QED
    BY <1>3, <2>1 DEF Base, Queued
<1>6. Single' /\ TypeOK'
  <2>1. \A b \in Requests : b # 0
    BY DEF Requests
  <2>2. 0 \in 0..MaxRequests
    OBVIOUS
  <2> QED
    BY <1>2, <1>3, <2>1, <2>2 DEF Single, Base, TypeOK
<1>7. Bounded'
  BY <1>2, <1>3 DEF Base, Bounded
<1> QED
  BY <1>2, <1>5, <1>6, <1>7 DEF Base

\* The keystore carries out the oldest wish: its caller goes on to the next key, ...
Onward(w) ==
    /\ w.key < 3
    /\ \E v \in 0..MaxPairs :
        /\ keystore' = Append(Tail(keystore), [w EXCEPT !.key = @ + 1, !.value = v])
        /\ \/ req[w.by].at = "clearing" /\ v = 0
           \/ req[w.by].at = "storing" /\ w.key = 1 /\ v = w.value
           \/ req[w.by].at = "storing" /\ w.key = 2 /\ v = tokens.expires /\ v # 0
    /\ UNCHANGED <<inFlight, session, req>>

\* ... is done alone, ...
Through(w, q) ==
    /\ keystore' = Tail(keystore)
    /\ w.key = 3 \/ (req[w.by].at = "storing" /\ tokens.expires = 0)
    /\ req' = [req EXCEPT ![w.by] = q]
    /\ q.pair \in {0, req[w.by].pair}
    /\ \/ /\ q.at = "raised" /\ q.kind = req[w.by].kind
          /\ inFlight' = IF inFlight = w.by THEN 0 ELSE inFlight
       \/ /\ q.at \in {"start", "ended"} /\ q.kind # "login"
          /\ inFlight' = inFlight /\ inFlight # w.by
    /\ notice' \in BOOLEAN /\ (notice' => notice)
    /\ phase' \in {"signedOut", "signedIn", phase}

\* ... or completes the renewal.
Ends(w) ==
    /\ keystore' = Tail(keystore) /\ w.key = 3
    /\ inFlight = w.by /\ req[w.by].kind # "login"
    /\ \E renewed \in BOOLEAN : Complete(w.by, renewed)
    /\ \/ UNCHANGED session
       \/ req[w.by].at = "clearing" /\ notice' = TRUE /\ phase' = "signedOut"

LEMMA KeystoreSteps ==
    ASSUME Base, Keystore
    PROVE  \E w \in Wishes :
             /\ keystore # <<>> /\ w = keystore[1] /\ Len(keystore) \in Nat \ {0}
             /\ disk' = [disk EXCEPT ![Keys[w.key]] = w.value]
             /\ UNCHANGED <<server, tokens, excused>>
             /\ Onward(w) \/ Ends(w) \/ \E q \in RequestStates : Through(w, q)
<1>1. /\ keystore \in Seq(Wishes) /\ keystore # <<>> /\ req \in [Requests -> RequestStates]
      /\ tokens \in Tokens /\ notice \in BOOLEAN
  BY DEF Base, TypeOK, Keystore
<1>2. PICK w \in Wishes : w = Head(keystore) /\ w = keystore[1]
  BY <1>1
<1>3. Len(keystore) \in Nat \ {0}
  BY <1>1
<1>4. PICK r \in Requests : r = w.by
  BY <1>2 DEF Wishes
<1>5. /\ req[r] \in RequestStates /\ w.value \in 0..MaxPairs /\ tokens.expires \in 0..MaxPairs
      /\ w.key \in 1..3 /\ Shape(req[r])
      /\ Renews(req[r]) => inFlight = r
  BY <1>1, <1>2, <1>4 DEF Wishes, Tokens, Base, Single
<1> DEFINE rest == Tail(keystore)
           onward(value) == keystore' = Append(rest, [w EXCEPT !.key = @ + 1, !.value = value])
<1>6. /\ disk' = [disk EXCEPT ![Keys[w.key]] = w.value]
      /\ \/ /\ w.key < 3 /\ req[r].at = "clearing"
            /\ onward(0)
            /\ UNCHANGED <<inFlight, session, req>>
         \/ /\ w.key < 3 /\ req[r].at = "storing"
            /\ w.key = 1 \/ tokens.expires # 0
            /\ onward(IF w.key = 1 THEN w.value ELSE tokens.expires)
            /\ UNCHANGED <<inFlight, session, req>>
         \/ /\ w.key = 2 /\ req[r].at = "storing" /\ tokens.expires = 0
            /\ keystore' = rest
            /\ inFlight' = IF inFlight = r THEN 0 ELSE inFlight
            /\ At(r, "raised")
            /\ UNCHANGED session
         \/ /\ w.key = 3
            /\ keystore' = rest
            /\ \/ req[r].at = "storing" /\ Stored(r)
               \/ req[r].at = "clearing" /\ Cleared(r)
      /\ UNCHANGED <<server, tokens, excused>>
  BY <1>2, <1>4 DEF Keystore
<1> SUFFICES Onward(w) \/ Ends(w) \/ \E q \in RequestStates : Through(w, q)
  BY <1>1, <1>2, <1>3, <1>6
<1>7. ASSUME w.key < 3 /\ req[r].at = "clearing" /\ onward(0) /\ UNCHANGED <<inFlight, session, req>>
      PROVE  Onward(w)
  <2>1. 0 \in 0..MaxPairs
    OBVIOUS
  <2> QED
    BY <1>4, <1>7, <2>1 DEF Onward
<1>8. ASSUME w.key < 3, req[r].at = "storing", w.key = 1 \/ tokens.expires # 0,
             onward(IF w.key = 1 THEN w.value ELSE tokens.expires),
             UNCHANGED <<inFlight, session, req>>
      PROVE  Onward(w)
  <2>1. CASE w.key = 1
    <3>1. onward(w.value)
      BY <1>8, <2>1
    <3> QED
      BY <1>4, <1>5, <1>8, <2>1, <3>1 DEF Onward
  <2>2. CASE w.key # 1
    <3>1. onward(tokens.expires) /\ w.key = 2
      BY <1>5, <1>8, <2>2
    <3> QED
      BY <1>4, <1>5, <1>8, <2>2, <3>1 DEF Onward
  <2> QED
    BY <2>1, <2>2
<1>9. ASSUME w.key = 2, req[r].at = "storing", tokens.expires = 0, keystore' = rest,
             inFlight' = IF inFlight = r THEN 0 ELSE inFlight, At(r, "raised"), UNCHANGED session
      PROVE  \E q \in RequestStates : Through(w, q)
  <2> DEFINE q == [req[r] EXCEPT !.at = "raised"]
  <2>1. "raised" \in Places
    BY DEF Places
  <2>2. q \in RequestStates /\ q.at = "raised" /\ q.kind = req[r].kind /\ q.pair = req[r].pair
    BY <1>5, <2>1 DEF RequestStates
  <2>3. req' = [req EXCEPT ![r] = q]
    BY <1>1, <1>9 DEF At
  <2> HIDE DEF q
  <2>4. Through(w, q)
    BY <1>1, <1>4, <1>9, <2>2, <2>3 DEF Through, session
  <2> QED
    BY <2>2, <2>4
<1>10. ASSUME w.key = 3, keystore' = rest, req[r].at = "storing", Stored(r)
       PROVE  Ends(w) \/ \E q \in RequestStates : Through(w, q)
  <2>1. CASE req[r].kind = "login"
    <3> DEFINE q == [Blank("start") EXCEPT !.kind = "entry"]
    <3>1. "start" \in Places /\ "entry" \in Kinds /\ 0 \in 0..MaxPairs
      BY DEF Places, Kinds, StatusKinds
    <3>2. q \in RequestStates /\ q.at = "start" /\ q.kind = "entry" /\ q.pair = 0
      BY <3>1 DEF Blank, RequestStates
    <3>3. req' = [req EXCEPT ![r] = q] /\ inFlight' = inFlight /\ UNCHANGED session
      BY <1>10, <2>1 DEF Stored, Set
    <3> HIDE DEF q
    <3>4. inFlight # r
      <4>1. ~Renews(req[r]) /\ req[r].at # "clearing"
        BY <1>10, <2>1 DEF Renews
      <4> QED
        BY <4>1 DEF Base, Single
    <3>5. Through(w, q)
      BY <1>1, <1>4, <1>10, <3>2, <3>3, <3>4 DEF Through, session
    <3> QED
      BY <3>2, <3>5
  <2>2. CASE req[r].kind # "login"
    <3>1. inFlight = r
      BY <1>5, <1>10, <2>2 DEF Renews
    <3> QED
      BY <1>4, <1>10, <2>2, <3>1 DEF Ends, Stored
  <2> QED
    BY <2>1, <2>2
<1>11. ASSUME w.key = 3, keystore' = rest, req[r].at = "clearing", Cleared(r)
       PROVE  Ends(w) \/ \E q \in RequestStates : Through(w, q)
  <2>1. req[r].kind # "login"
    BY <1>5, <1>11 DEF Shape
  <2>2. CASE inFlight = r
    BY <1>4, <1>11, <2>1, <2>2 DEF Ends, Cleared
  <2>3. CASE inFlight # r
    <3>1. Ended \in RequestStates /\ Ended.at = "ended" /\ Ended.kind = "call" /\ Ended.pair = 0
      <4>1. "ended" \in Places /\ "call" \in Kinds /\ 0 \in 0..MaxPairs
        BY DEF Places, Kinds, StatusKinds
      <4> QED
        BY <4>1 DEF Ended, Blank, RequestStates
    <3>2. /\ req' = [req EXCEPT ![r] = Ended] /\ inFlight' = inFlight
          /\ notice' = (notice /\ req[r].kind # "logout")
          /\ phase' \in {"signedOut", "signedIn", phase}
      BY <1>11, <2>3 DEF Cleared, Set
    <3>3. Through(w, Ended)
      BY <1>1, <1>4, <1>11, <2>3, <3>1, <3>2 DEF Through
    <3> QED
      BY <3>1, <3>3
  <2> QED
    BY <2>2, <2>3
<1> QED
  BY <1>6, <1>7, <1>8, <1>9, <1>10, <1>11

LEMMA WishTypes ==
    ASSUME Base, NEW i \in 1..Len(keystore)
    PROVE  /\ keystore[i] \in Wishes /\ keystore[i].key \in 1..3
           /\ keystore[i].value \in 0..MaxPairs /\ keystore[i].by \in Requests
<1>1. keystore[i] \in Wishes
  BY DEF Base, TypeOK
<1> QED
  BY <1>1 DEF Wishes

\* The wishes that stay are those behind the first; the one that goes on is the last.
LEMMA RestOfQueue ==
    ASSUME Base, keystore # <<>>, keystore' = Tail(keystore)
    PROVE  /\ keystore' \in Seq(Wishes) /\ Len(keystore') = Len(keystore) - 1
           /\ Len(keystore) \in Nat \ {0}
           /\ \A i \in 1..Len(keystore') : keystore'[i] = keystore[i + 1] /\ i + 1 \in 1..Len(keystore)
<1>1. keystore \in Seq(Wishes)
  BY DEF Base, TypeOK
<1> QED
  BY <1>1

LEMMA QueueGoesOn ==
    ASSUME Base, keystore # <<>>, NEW e \in Wishes, keystore' = Append(Tail(keystore), e)
    PROVE  /\ keystore' \in Seq(Wishes) /\ Len(keystore') = Len(keystore)
           /\ Len(keystore) \in Nat \ {0}
           /\ keystore'[Len(keystore)] = e
           /\ \A i \in 1..Len(keystore) :
                i # Len(keystore) => keystore'[i] = keystore[i + 1] /\ i + 1 \in 1..Len(keystore)
<1>1. keystore \in Seq(Wishes) /\ Len(keystore) \in Nat \ {0}
  BY DEF Base, TypeOK
<1>2. /\ Tail(keystore) \in Seq(Wishes) /\ Len(Tail(keystore)) = Len(keystore) - 1
      /\ \A i \in 1..Len(Tail(keystore)) : Tail(keystore)[i] = keystore[i + 1]
  BY <1>1, HeadTailProperties
<1>3. /\ keystore' \in Seq(Wishes) /\ Len(keystore') = Len(Tail(keystore)) + 1
      /\ \A i \in 1..Len(Tail(keystore)) : keystore'[i] = Tail(keystore)[i]
      /\ keystore'[Len(Tail(keystore)) + 1] = e
  BY <1>2, AppendProperties
<1>4. PICK n \in Nat : n = Len(Tail(keystore)) /\ Len(keystore) = n + 1
  <2>1. Len(Tail(keystore)) \in Nat
    BY <1>2
  <2>2. \A a, b : a \in Nat \ {0} /\ b = a - 1 => a = b + 1
    OBVIOUS
  <2>3. Len(keystore) = Len(Tail(keystore)) + 1
    BY <1>1, <1>2, <2>2
  <2> QED
    BY <2>1, <2>3
<1>5. Len(keystore') = Len(keystore) /\ keystore'[Len(keystore)] = e
  BY <1>3, <1>4
<1>6. ASSUME NEW i \in 1..Len(keystore), i # Len(keystore)
      PROVE  keystore'[i] = keystore[i + 1] /\ i + 1 \in 1..Len(keystore)
  <2>1. i \in 1..n /\ i + 1 \in 1..Len(keystore)
    BY <1>4, <1>6
  <2>2. keystore'[i] = Tail(keystore)[i] /\ Tail(keystore)[i] = keystore[i + 1]
    BY <1>2, <1>3, <1>4, <2>1
  <2> QED
    BY <2>1, <2>2
<1> QED
  BY <1>1, <1>3, <1>5, <1>6

\* The wish of one that goes on.
LEMMA OnwardWish ==
    ASSUME NEW w \in Wishes, w.key < 3, NEW v \in 0..MaxPairs
    PROVE  LET e == [w EXCEPT !.key = @ + 1, !.value = v]
           IN  e \in Wishes /\ e.key = w.key + 1 /\ e.value = v /\ e.by = w.by
<1>1. w.key \in 1..3 /\ w.key + 1 \in 1..3
  BY DEF Wishes
<1> QED
  BY <1>1 DEF Wishes

LEMMA DiskKey ==
    ASSUME disk \in Tokens, NEW w \in Wishes, disk' = [disk EXCEPT ![Keys[w.key]] = w.value]
    PROVE  /\ disk' \in Tokens
           /\ disk'.access = IF w.key = 1 THEN w.value ELSE disk.access
           /\ disk'.refresh = IF w.key = 2 THEN w.value ELSE disk.refresh
           /\ disk'.expires = IF w.key = 3 THEN w.value ELSE disk.expires
<1>1. w.key \in {1, 2, 3} /\ w.value \in 0..MaxPairs
  BY DEF Wishes
<1>2. Keys[1] = "access" /\ Keys[2] = "refresh" /\ Keys[3] = "expires"
  BY DEF Keys
<1>3. CASE w.key = 1
  BY <1>1, <1>2, <1>3 DEF Tokens
<1>4. CASE w.key = 2
  BY <1>1, <1>2, <1>4 DEF Tokens
<1>5. CASE w.key = 3
  BY <1>1, <1>2, <1>5 DEF Tokens
<1> QED
  BY <1>1, <1>3, <1>4, <1>5

LEMMA KeystoreKeepsBase == ASSUME Base, Keystore PROVE Base'
<1>1. PICK w \in Wishes :
        /\ keystore # <<>> /\ w = keystore[1] /\ Len(keystore) \in Nat \ {0}
        /\ disk' = [disk EXCEPT ![Keys[w.key]] = w.value]
        /\ UNCHANGED <<server, tokens, excused>>
        /\ Onward(w) \/ Ends(w) \/ \E q \in RequestStates : Through(w, q)
  BY KeystoreSteps
<1>2. /\ UNCHANGED <<issued, live, signIn, ending, over, orphans, stray, tokens, excused>>
      /\ 1 \in 1..Len(keystore) /\ w.by \in Requests /\ w.key \in 1..3 /\ w.value \in 0..MaxPairs
  BY <1>1 DEF server, Wishes
<1>3. /\ disk' \in Tokens /\ disk'.refresh = IF w.key = 2 THEN w.value ELSE disk.refresh
      /\ disk \in Tokens
  BY <1>1, DiskKey DEF Base, TypeOK
<1>4. disk'.refresh \in 0..issued
  BY <1>1, <1>2, <1>3 DEF Base, Bounded
<1>5. req[w.by].at \in {"storing", "clearing"}
  BY <1>1, <1>2 DEF Base, Queued
<1>6. CASE Onward(w)
  <2>1. PICK v \in 0..MaxPairs :
          /\ keystore' = Append(Tail(keystore), [w EXCEPT !.key = @ + 1, !.value = v])
          /\ \/ req[w.by].at = "clearing" /\ v = 0
             \/ req[w.by].at = "storing" /\ w.key = 1 /\ v = w.value
             \/ req[w.by].at = "storing" /\ w.key = 2 /\ v = tokens.expires /\ v # 0
    BY <1>6 DEF Onward
  <2>2. w.key < 3 /\ UNCHANGED <<inFlight, phase, notice, req>>
    BY <1>6 DEF Onward, session
  <2>3. PICK e \in Wishes : /\ e = [w EXCEPT !.key = @ + 1, !.value = v]
                            /\ e.key = w.key + 1 /\ e.value = v /\ e.by = w.by
    BY <2>2, OnwardWish
  <2>4. /\ keystore' \in Seq(Wishes) /\ Len(keystore') = Len(keystore)
        /\ keystore'[Len(keystore)] = e
        /\ \A i \in 1..Len(keystore) :
              i # Len(keystore) => keystore'[i] = keystore[i + 1] /\ i + 1 \in 1..Len(keystore)
    BY <1>1, <2>1, <2>3, QueueGoesOn
  <2>5. Queued'
    <3>1. ASSUME NEW i \in 1..Len(keystore) PROVE req[keystore'[i].by].at \in {"storing", "clearing"}
      BY <1>5, <2>3, <2>4 DEF Base, Queued
    <3>2. ASSUME NEW i \in 1..Len(keystore), NEW j \in 1..Len(keystore),
                 keystore'[i].by = keystore'[j].by
          PROVE  i = j
      <4>1. CASE i # Len(keystore) /\ j # Len(keystore)
        BY <1>1, <2>4, <3>2, <4>1 DEF Base, Queued
      <4>2. CASE i # Len(keystore) /\ j = Len(keystore)
        <5>1. keystore[i + 1].by = keystore[1].by /\ i + 1 \in 1..Len(keystore)
          BY <1>1, <2>3, <2>4, <3>2, <4>2
        <5>2. i + 1 = 1
          BY <1>2, <5>1 DEF Base, Queued
        <5> QED
          BY <5>2
      <4>3. CASE i = Len(keystore) /\ j # Len(keystore)
        <5>1. keystore[j + 1].by = keystore[1].by /\ j + 1 \in 1..Len(keystore)
          BY <1>1, <2>3, <2>4, <3>2, <4>3
        <5>2. j + 1 = 1
          BY <1>2, <5>1 DEF Base, Queued
        <5> QED
          BY <5>2
      <4> QED
        BY <4>1, <4>2, <4>3
    <3> QED
      BY <2>2, <2>4, <3>1, <3>2 DEF Queued
  <2>6. Bounded'
    <3>1. ASSUME NEW i \in 1..Len(keystore), keystore'[i].key < 3
          PROVE  keystore'[i].value \in 0..issued
      <4>1. CASE i # Len(keystore)
        BY <2>4, <3>1, <4>1 DEF Base, Bounded
      <4>2. CASE i = Len(keystore)
        <5>1. w.key = 1 /\ w.value \in 0..issued
          <6>1. w.key + 1 < 3
            BY <2>3, <2>4, <3>1, <4>2
          <6>2. w.key = 1
            BY <1>2, <6>1
          <6>3. keystore[1].key < 3
            BY <1>1, <6>2
          <6> QED
            BY <1>1, <1>2, <6>2, <6>3 DEF Base, Bounded
        <5>2. 0 \in 0..issued
          BY DEF Base, TypeOK
        <5> QED
          BY <2>1, <2>3, <2>4, <4>2, <5>1, <5>2
      <4> QED
        BY <4>1, <4>2
    <3> QED
      BY <1>2, <1>4, <2>2, <2>4, <3>1 DEF Base, Bounded
  <2> QED
    BY <1>2, <1>3, <2>2, <2>4, <2>5, <2>6 DEF Base, TypeOK, Single
<1>7. ASSUME keystore' = Tail(keystore), req' \in [Requests -> RequestStates],
             inFlight' \in 0..MaxRequests, notice' \in BOOLEAN,
             phase' \in {"starting", "signedOut", "signedIn"}, Single',
             \A b \in Requests : Shape(req'[b]) /\ req'[b].pair \in 0..issued,
             \A b \in Requests \ {w.by} : req[b].at \in {"storing", "clearing"} => req'[b] = req[b]
      PROVE  Base'
  <2>1. /\ keystore' \in Seq(Wishes) /\ Len(keystore') = Len(keystore) - 1
        /\ \A i \in 1..Len(keystore') : keystore'[i] = keystore[i + 1] /\ i + 1 \in 1..Len(keystore)
    BY <1>1, <1>7, RestOfQueue
  <2>2. ASSUME NEW i \in 1..Len(keystore')
        PROVE  req'[keystore'[i].by].at \in {"storing", "clearing"}
    <3>1. keystore[i + 1].by \in Requests /\ keystore[i + 1].by # w.by
      <4>1. i + 1 # 1 /\ i + 1 \in 1..Len(keystore)
        BY <2>1
      <4> QED
        BY <1>1, <1>2, <4>1, WishTypes DEF Base, Queued
    <3> QED
      BY <1>7, <2>1, <3>1 DEF Base, Queued
  <2>3. ASSUME NEW i \in 1..Len(keystore'), NEW j \in 1..Len(keystore'),
               keystore'[i].by = keystore'[j].by
        PROVE  i = j
    <3>1. i + 1 = j + 1
      BY SMTT(30), <2>1, <2>3 DEF Base, Queued
    <3> QED
      BY <3>1
  <2>4. Bounded'
    <3>1. \A i \in 1..Len(keystore') : keystore'[i].key < 3 => keystore'[i].value \in 0..issued
      BY <2>1 DEF Base, Bounded
    <3> QED
      BY <1>2, <1>4, <1>7, <3>1 DEF Base, Bounded
  <2>5. Queued'
    BY <2>2, <2>3 DEF Queued
  <2>6. TypeOK'
    BY <1>2, <1>3, <1>7, <2>1 DEF Base, TypeOK
  <2> QED
    BY <1>7, <2>4, <2>5, <2>6 DEF Base
<1>8. /\ req \in [Requests -> RequestStates] /\ inFlight \in 0..MaxRequests
      /\ phase \in {"starting", "signedOut", "signedIn"} /\ notice \in BOOLEAN
      /\ issued \in Nat
      /\ \A b \in Requests : Shape(req[b]) /\ req[b].pair \in 0..issued /\ b # 0
  BY DEF Base, TypeOK, Bounded, Requests
<1>9. ASSUME NEW q \in RequestStates, Through(w, q) PROVE Base'
  <2>1. /\ keystore' = Tail(keystore) /\ req' = [req EXCEPT ![w.by] = q]
        /\ q.pair \in {0, req[w.by].pair} /\ notice' \in BOOLEAN
        /\ phase' \in {"signedOut", "signedIn", phase}
        /\ \/ /\ q.at = "raised" /\ q.kind = req[w.by].kind
              /\ inFlight' = IF inFlight = w.by THEN 0 ELSE inFlight
           \/ /\ q.at \in {"start", "ended"} /\ q.kind # "login"
              /\ inFlight' = inFlight /\ inFlight # w.by
    BY <1>9 DEF Through
  <2>2. Shape(q) /\ ~Renews(q) /\ q.pair \in 0..issued
    BY <1>2, <1>8, <2>1 DEF Shape, Holds, Renews
  <2>3. req' \in [Requests -> RequestStates]
        /\ \A b \in Requests : req'[b] = IF b = w.by THEN q ELSE req[b]
    BY <1>2, <1>8, <2>1
  <2>4. inFlight' \in 0..MaxRequests /\ inFlight' # w.by
    BY <1>2, <1>8, <2>1
  <2>5. Single'
    BY <1>2, <1>8, <2>1, <2>2, <2>3, <2>4 DEF Base, Single
  <2> QED
    BY <1>7, <1>8, <2>1, <2>2, <2>3, <2>4, <2>5
<1>10. CASE Ends(w)
  <2>1. PICK renewed \in BOOLEAN : Complete(w.by, renewed)
    BY <1>10 DEF Ends
  <2>2. /\ inFlight' = 0
        /\ req' \in [Requests -> RequestStates]
        /\ \A b \in Requests :
              IF b = w.by \/ req[b].at = "waiting"
              THEN /\ req'[b].at \in {"sent", "start", "answered"}
                   /\ req'[b].kind = req[b].kind /\ req'[b].kind # "login" /\ req'[b].pair = 0
              ELSE req'[b] = req[b]
        /\ \A b \in Requests : Shape(req'[b]) /\ ~Renews(req'[b]) /\ req'[b].pair \in 0..issued
    BY <1>2, <1>10, <2>1, CompleteChanges DEF Ends
  <2>3. /\ keystore' = Tail(keystore) /\ notice' \in BOOLEAN
        /\ phase' \in {"starting", "signedOut", "signedIn"}
    BY <1>8, <1>10 DEF Ends, session
  <2>4. Single'
    BY <1>8, <2>2 DEF Single
  <2>5. 0 \in 0..MaxRequests
    OBVIOUS
  <2> QED
    BY <1>7, <2>2, <2>3, <2>4, <2>5
<1> QED
  BY <1>1, <1>6, <1>9, <1>10

\* The process is gone, and with it every request that was under way.
LEMMA KillFields ==
    ASSUME Base, Kill
    PROVE  /\ req' \in [Requests -> RequestStates]
           /\ \A r \in Requests :
                IF Pending(r) THEN req'[r] = Ended ELSE req'[r] = req[r]
           /\ Ended.at = "ended" /\ Ended.kind = "call" /\ Ended.pair = 0 /\ Ended.got = "none"
           /\ Ended \in RequestStates
<1>1. Ended \in RequestStates /\ Ended.at = "ended" /\ Ended.kind = "call" /\ Ended.pair = 0 /\ Ended.got = "none"
  <2>1. "ended" \in Places /\ "call" \in Kinds /\ 0 \in 0..MaxPairs
    BY DEF Places, Kinds, StatusKinds
  <2> QED
    BY <2>1 DEF Ended, Blank, RequestStates
<1>2. req \in [Requests -> RequestStates] /\ req' = [r \in Requests |-> IF Pending(r) THEN Ended ELSE req[r]]
  BY DEF Base, TypeOK, Kill
<1> HIDE DEF Ended
<1> QED
  BY <1>1, <1>2

LEMMA ReadingIsIssued ==
    ASSUME Base
    PROVE  /\ Reading \subseteq 1..issued
           /\ \A r \in Requests : req[r].at = "checked" => req[r].pair \in Reading
<1>1. ASSUME NEW r \in Requests, req[r].at = "checked" PROVE req[r].pair \in 1..issued
  <2>1. req[r].pair \in 0..issued /\ req[r].pair # 0 /\ issued \in Nat
    BY <1>1 DEF Base, Shape, Bounded, TypeOK
  <2> QED
    BY <2>1
<1> QED
  BY <1>1 DEF Reading

LEMMA KillKeepsBase == ASSUME Base, Kill PROVE Base'
<1>1. /\ req' \in [Requests -> RequestStates]
      /\ \A r \in Requests : IF Pending(r) THEN req'[r] = Ended ELSE req'[r] = req[r]
      /\ Ended.at = "ended" /\ Ended.kind = "call" /\ Ended.pair = 0 /\ Ended.got = "none"
  BY KillFields
<1>2. /\ UNCHANGED <<issued, live, signIn, ending, over, stray, disk>>
      /\ orphans' = orphans \cup Reading
      /\ tokens' = Pair(0) /\ keystore' = <<>> /\ inFlight' = 0 /\ phase' = "starting"
      /\ notice' = FALSE /\ excused' = (excused \/ inFlight # 0 \/ keystore # <<>>)
  BY DEF Kill
<1>3. Pair(0) \in Tokens /\ Pair(0).refresh = 0
  BY PairTypes
<1>4. issued \in 0..MaxPairs /\ orphans \subseteq 1..issued /\ orphans' \subseteq 1..issued
  BY <1>2, ReadingIsIssued DEF Base, TypeOK, Bounded
<1>5. keystore' \in Seq(Wishes) /\ Len(keystore') = 0 /\ excused' \in BOOLEAN
  BY <1>2 DEF Base, TypeOK
<1>6. TypeOK'
  <2>1. orphans' \subseteq Pairs
    BY <1>4 DEF Pairs
  <2>2. 0 \in 0..MaxRequests
    OBVIOUS
  <2> QED
    BY <1>1, <1>2, <1>3, <1>5, <2>1, <2>2 DEF Base, TypeOK
<1>7. ASSUME NEW r \in Requests
      PROVE  Shape(req'[r]) /\ ~Renews(req'[r]) /\ req'[r].pair \in 0..issued /\ 0 # r
  <2>1. 0 # r /\ 0 \in 0..issued
    BY <1>4 DEF Requests
  <2>2. CASE Pending(r)
    BY <1>1, <2>1, <2>2 DEF Shape, Holds, Renews
  <2>3. CASE ~Pending(r)
    BY <1>1, <2>1, <2>3 DEF Base, Bounded, Renews, Pending
  <2> QED
    BY <2>2, <2>3
<1>8. Single' /\ Queued'
  BY <1>2, <1>5, <1>7 DEF Single, Queued
<1>9. Bounded'
  BY <1>2, <1>3, <1>4, <1>5, <1>7 DEF Base, Bounded
<1> QED
  BY <1>6, <1>7, <1>8, <1>9 DEF Base

\* Steps that leave the requests and the keystore's queue alone.
Elsewhere ==
    \/ NothingStored \/ ResetPassword \/ Pass
    \/ (\E p \in orphans : OrphanCommits(p))
    \/ UNCHANGED vars

LEMMA ElsewhereKeepsBase == ASSUME Base, Elsewhere PROVE Base'
<1> USE DEF server, store, session, vars
<1>1. /\ UNCHANGED <<req, keystore, inFlight, disk>>
      /\ tokens' \in {tokens, disk} /\ notice' = notice /\ phase' \in {phase, "signedOut"}
      /\ excused' \in {excused, TRUE}
  BY DEF Elsewhere, NothingStored, ResetPassword, Pass, OrphanCommits
<1>2. /\ issued \in 0..MaxPairs /\ live \subseteq 1..issued /\ orphans \subseteq 1..issued
      /\ signIn \in [Pairs -> 0..MaxRequests] /\ ending \in 0..issued /\ over \in 0..ending
      /\ stray \in BOOLEAN
  BY DEF Base, TypeOK, Bounded
<1>3. /\ issued' \in {issued, issued + 1} /\ issued' \in 0..MaxPairs
      /\ live' \subseteq 1..issued' /\ orphans' \subseteq 1..issued'
      /\ signIn' \in [Pairs -> 0..MaxRequests]
      /\ ending' \in 0..issued' /\ over' \in 0..ending' /\ stray' \in BOOLEAN
  <2>1. CASE NothingStored \/ UNCHANGED vars
    BY <1>2, <2>1 DEF NothingStored
  <2>2. CASE ResetPassword \/ Pass
    <3>1. /\ issued' = issued /\ live' \subseteq live /\ orphans' = orphans
          /\ signIn' = signIn /\ stray' = stray
          /\ \/ ending' = ending /\ over' = over
             \/ ending < issued /\ ending' = ending + 1 /\ over' = over
             \/ over < ending /\ over' = over + 1 /\ ending' = ending
      BY <2>2 DEF ResetPassword, Pass
    <3>2. ending' \in 0..issued /\ over' \in 0..ending'
      BY <1>2, <3>1
    <3> QED
      BY <1>2, <3>1, <3>2
  <2>3. ASSUME NEW p \in orphans, OrphanCommits(p)
        PROVE  /\ issued' = issued + 1 /\ issued' \in 0..MaxPairs
               /\ live' \subseteq 1..issued' /\ orphans' \subseteq 1..issued'
               /\ signIn' \in [Pairs -> 0..MaxRequests]
               /\ ending' \in 0..issued' /\ over' \in 0..ending' /\ stray' \in BOOLEAN
    <3>1. /\ issued' = issued + 1 /\ issued < MaxPairs
          /\ live' = (live \ {p}) \cup {issued + 1} /\ orphans' = orphans \ {p}
          /\ signIn' = [signIn EXCEPT ![issued + 1] = signIn[p]]
          /\ ending' = ending /\ over' = over /\ stray' = TRUE
      BY <2>3 DEF OrphanCommits, IssueTokens
    <3>2. issued' \in 0..MaxPairs /\ 1..issued \subseteq 1..issued' /\ issued + 1 \in 1..issued'
      BY <1>2, <3>1
    <3>3. p \in Pairs
      BY <1>2 DEF Pairs
    <3>4. live' \subseteq 1..issued' /\ orphans' \subseteq 1..issued'
      BY <1>2, <3>1, <3>2
    <3>5. signIn' \in [Pairs -> 0..MaxRequests]
      BY <1>2, <3>1, <3>3
    <3>6. ending' \in 0..issued' /\ over' \in 0..ending' /\ stray' \in BOOLEAN
      BY <1>2, <3>1
    <3> QED
      BY <3>1, <3>2, <3>4, <3>5, <3>6
  <2> QED
    BY <2>1, <2>2, <2>3 DEF Elsewhere
<1>4. TypeOK'
  <2>1. live' \subseteq Pairs /\ orphans' \subseteq Pairs
    BY <1>3 DEF Pairs
  <2> QED
    BY <1>1, <1>3, <2>1 DEF Base, TypeOK
<1>5. Bounded'
  <2>1. 0..issued \subseteq 0..issued'
    BY <1>2, <1>3
  <2> QED
    BY <1>1, <1>3, <2>1 DEF Base, Bounded
<1> QED
  BY <1>1, <1>4, <1>5 DEF Base, Single, Queued

\* Every step is one of a request, of the keystore, a kill, or lies elsewhere.
LEMMA Steps ==
    ASSUME Base, [Next]_vars
    PROVE  \/ \E r \in Requests, q \in RequestStates : req' = [req EXCEPT ![r] = q] /\ Moves(r, q)
           \/ \E r \in Requests : RenewalLost(r)
           \/ Keystore \/ Kill \/ Elsewhere
<1>1. ASSUME NEW r \in Requests, Act(r)
      PROVE  (\E q \in RequestStates : req' = [req EXCEPT ![r] = q] /\ Moves(r, q)) \/ Elsewhere
  BY <1>1, ActMoves DEF Elsewhere
<1>2. ASSUME NEW r \in Requests, Progress(r) \/ Abandon(r) \/ Lose(r)
      PROVE  (\E q \in RequestStates : req' = [req EXCEPT ![r] = q] /\ Moves(r, q)) \/ RenewalLost(r)
  BY <1>2, ProgressMoves
<1> QED
  BY <1>1, <1>2 DEF Next, Elsewhere

(* The base holds: one renewal at a time, by the request that _refreshInFlight *)
(* names, and only pairs that were issued are about (_refreshTokens).        *)
THEOREM BaseHolds == Spec => []Base
<1>1. Base /\ [Next]_vars => Base'
  BY Steps, MovesKeepBase, RenewalLostKeepsBase, KeystoreKeepsBase, KillKeepsBase, ElsewhereKeepsBase
<1> QED
  BY <1>1, InitBase, PTL DEF Spec

(* The state has its type.                                                 *)
THEOREM TypeCorrect == Spec => []TypeOK
<1>1. Base => TypeOK
  BY DEF Base
<1> QED
  BY <1>1, BaseHolds, PTL

-----------------------------------------------------------------------------
\* Why the keystore ends up with the pair in memory.  The wishes take turns, one
\* key each, so that a save or a clear that began earlier is always ahead of one
\* that began later: the wish i of the last one is the last to reach any key.
Latest(i) ==
    /\ tokens = Pair(tokens.expires) /\ keystore[i].value = tokens.expires
    /\ req[keystore[i].by].at = "storing" <=> tokens.expires # 0
    /\ \A j \in 1..Len(keystore) :
         /\ j < i => keystore[j].key >= keystore[i].key
         /\ j > i => keystore[j].key > keystore[i].key
    /\ keystore[i].key > 1 => disk.access = tokens.access
    /\ keystore[i].key > 2 => disk.refresh = tokens.refresh

\* The app was killed, or was never started.
Asleep == phase = "starting" /\ Quiet /\ tokens = Pair(0)

Synced ==
    /\ keystore = <<>> => disk = tokens \/ Asleep
    /\ keystore # <<>> => \E i \in 1..Len(keystore) : Latest(i)

LEMMA EqualTokens ==
    ASSUME NEW s \in Tokens, NEW t \in Tokens,
           s.access = t.access, s.refresh = t.refresh, s.expires = t.expires
    PROVE  s = t
  BY DEF Tokens

\* While someone waits for the keystore the app is not quiet.
LEMMA QuietQueue == ASSUME Base, Quiet PROVE keystore = <<>>
<1> SUFFICES ASSUME keystore # <<>> PROVE FALSE
  OBVIOUS
<1>1. keystore \in Seq(Wishes) /\ 1 \in 1..Len(keystore)
  BY DEF Base, TypeOK
<1>2. keystore[1].by \in Requests /\ req[keystore[1].by].at \in {"storing", "clearing"}
  BY <1>1, WishTypes DEF Base, Queued
<1> QED
  BY <1>2 DEF Quiet, Pending

LEMMA MovesKeepSync ==
    ASSUME Base, Synced, NEW r \in Requests, NEW q \in RequestStates, req' = [req EXCEPT ![r] = q],
           Moves(r, q)
    PROVE  Synced'
<1> USE DEF server, store, session
<1>1. \A b \in Requests : req'[b] = IF b = r THEN q ELSE req[b]
  BY MovesKeepBase
<1>2. req[r].at \notin {"storing", "clearing"} /\ disk' = disk
  BY DEF Moves, Starts, Clears, Saves, AsksToRenew, GoesOn, LogsIn, IsRead, IsRefused, IsRenewed, IsLost,
     Holds
<1>3. ASSUME NEW i \in 1..Len(keystore)
      PROVE  keystore[i].by \in Requests /\ req'[keystore[i].by] = req[keystore[i].by]
  <2>1. keystore[i].by \in Requests /\ req[keystore[i].by].at \in {"storing", "clearing"}
    BY WishTypes DEF Base, Queued
  <2> QED
    BY <1>1, <1>2, <2>1
<1>4. ASSUME keystore' = keystore, tokens' = tokens, keystore # <<>> PROVE Synced'
  <2>1. PICK i \in 1..Len(keystore) : Latest(i)
    BY <1>4 DEF Synced
  <2>2. Latest(i)'
    BY <1>2, <1>3, <1>4, <2>1 DEF Latest
  <2> QED
    BY <1>4, <2>2 DEF Synced
<1>5. CASE Starts(r, q)
  <2>1. CASE tokens' = tokens /\ phase # "starting"
    <3>1. CASE keystore = <<>>
      BY <1>2, <1>5, <2>1, <3>1 DEF Starts, Synced, Asleep
    <3>2. CASE keystore # <<>>
      BY <1>4, <1>5, <2>1, <3>2 DEF Starts
    <3> QED
      BY <3>1, <3>2
  <2>2. CASE phase = "starting" /\ Quiet /\ tokens' = disk
    <3>1. keystore' = <<>> /\ disk' = tokens'
      BY <1>2, <1>5, <2>2, QuietQueue DEF Starts
    <3> QED
      BY <3>1 DEF Synced
  <2> QED
    BY <1>5, <2>1, <2>2 DEF Starts
<1>6. CASE Clears(r, q) \/ Saves(r, q)
  <2>1. PICK v \in 0..MaxPairs :
          /\ keystore' = Append(keystore, [key |-> 1, value |-> v, by |-> r])
          /\ tokens' = Pair(v) /\ (q.at = "storing" <=> v # 0)
    <3>1. 0 \in 0..MaxPairs /\ q.pair \in 0..MaxPairs
      BY DEF RequestStates
    <3>2. CASE Clears(r, q)
      BY <3>1, <3>2 DEF Clears, Ask
    <3>3. CASE Saves(r, q)
      <4>1. q.pair # 0
        BY <3>3 DEF Saves, Base, Shape
      <4> QED
        BY <3>1, <3>3, <4>1 DEF Saves, Ask
    <3> QED
      BY <1>6, <3>2, <3>3
  <2> DEFINE w == [key |-> 1, value |-> v, by |-> r]
             n == Len(keystore)
  <2>2. w \in Wishes /\ w.key = 1 /\ w.value = v /\ w.by = r
    BY DEF Wishes
  <2> HIDE DEF w
  <2>3. /\ Len(keystore') = n + 1 /\ n \in Nat
        /\ \A i \in 1..n : keystore'[i] = keystore[i]
        /\ keystore'[n + 1] = w /\ keystore' # <<>>
    BY <2>1, <2>2, AppendProperties DEF w, Base, TypeOK
  <2>4. tokens'.expires = v
    BY <2>1, PairTypes
  <2>5. ASSUME NEW j \in 1..(n + 1), j < n + 1 PROVE keystore'[j].key >= 1
    <3>1. j \in 1..n
      BY <2>3, <2>5
    <3> QED
      BY <2>3, <3>1, WishTypes
  <2>6. req'[r].at = "storing" <=> v # 0
    BY <1>1, <2>1
  <2>7. /\ tokens' = Pair(tokens'.expires) /\ keystore'[n + 1].value = tokens'.expires
        /\ keystore'[n + 1].by = r /\ keystore'[n + 1].key = 1
    BY <2>1, <2>2, <2>3, <2>4
  <2>8. \A j \in 1..(n + 1) : ~(j > n + 1)
    BY <2>3
  <2> HIDE DEF n
  <2>9. PICK k \in 1..Len(keystore') : k = n + 1
    BY <2>3
  <2>10. Latest(k)'
    BY <2>3, <2>4, <2>5, <2>6, <2>7, <2>8, <2>9 DEF Latest
  <2> QED
    BY <2>3, <2>10 DEF Synced
<1>7. CASE AsksToRenew(r, q) \/ GoesOn(r, q) \/ LogsIn(r, q) \/ IsRead(r, q) \/ IsRefused(r, q)
           \/ IsRenewed(r, q) \/ IsLost(r, q)
  <2>1. keystore' = keystore /\ tokens' = tokens /\ Pending(r)
    BY <1>7 DEF AsksToRenew, GoesOn, LogsIn, IsRead, IsRefused, IsRenewed, IsLost, Pending
  <2>2. CASE keystore = <<>>
    BY <1>2, <2>1, <2>2 DEF Synced, Asleep, Quiet
  <2>3. CASE keystore # <<>>
    BY <1>4, <2>1, <2>3
  <2> QED
    BY <2>2, <2>3
<1> QED
  BY <1>5, <1>6, <1>7 DEF Moves

LEMMA KeystoreKeepsSync ==
    ASSUME Base, Synced, Keystore
    PROVE  Synced' /\ (keystore' = <<>> => disk' = tokens')
<1>1. PICK w \in Wishes :
        /\ keystore # <<>> /\ w = keystore[1] /\ Len(keystore) \in Nat \ {0}
        /\ disk' = [disk EXCEPT ![Keys[w.key]] = w.value]
        /\ UNCHANGED <<server, tokens, excused>>
        /\ Onward(w) \/ Ends(w) \/ \E q \in RequestStates : Through(w, q)
  BY KeystoreSteps
<1>2. PICK i \in 1..Len(keystore) : Latest(i)
  BY <1>1 DEF Synced
<1>3. /\ tokens' = tokens /\ tokens \in Tokens
      /\ w.key \in 1..3 /\ w.value \in 0..MaxPairs /\ w.by \in Requests
  BY <1>1 DEF Wishes, Base, TypeOK
<1>4. /\ disk' \in Tokens
      /\ disk'.access = IF w.key = 1 THEN w.value ELSE disk.access
      /\ disk'.refresh = IF w.key = 2 THEN w.value ELSE disk.refresh
      /\ disk'.expires = IF w.key = 3 THEN w.value ELSE disk.expires
  BY <1>1, DiskKey DEF Base, TypeOK
<1>5. PICK v \in 0..MaxPairs : /\ v = tokens.expires /\ tokens = Pair(v)
                               /\ tokens.access = v /\ tokens.refresh = v
  <2>1. tokens.expires \in 0..MaxPairs
    BY <1>3 DEF Tokens
  <2> QED
    BY <1>2, <2>1, PairTypes DEF Latest
<1>6. /\ keystore[i].key \in 1..3 /\ keystore[i].by \in Requests /\ keystore[i].value = v
      /\ req[keystore[i].by].at = "storing" <=> v # 0
      /\ \A j \in 1..Len(keystore) :
            /\ keystore[j].key \in 1..3
            /\ j < i => keystore[j].key >= keystore[i].key
            /\ j > i => keystore[j].key > keystore[i].key
      /\ keystore[i].key > 1 => disk.access = v
      /\ keystore[i].key > 2 => disk.refresh = v
  BY <1>2, <1>5, WishTypes DEF Latest
<1>7. CASE Onward(w)
  <2>1. PICK u \in 0..MaxPairs :
          /\ keystore' = Append(Tail(keystore), [w EXCEPT !.key = @ + 1, !.value = u])
          /\ \/ req[w.by].at = "clearing" /\ u = 0
             \/ req[w.by].at = "storing" /\ w.key = 1 /\ u = w.value
             \/ req[w.by].at = "storing" /\ w.key = 2 /\ u = tokens.expires /\ u # 0
    BY <1>7 DEF Onward
  <2>2. w.key < 3 /\ req' = req
    BY <1>7 DEF Onward
  <2>3. PICK e \in Wishes : /\ e = [w EXCEPT !.key = @ + 1, !.value = u]
                            /\ e.key = w.key + 1 /\ e.value = u /\ e.by = w.by
    BY <2>2, OnwardWish
  <2>4. PICK n \in Nat \ {0} : n = Len(keystore)
    BY <1>1
  <2>5. /\ Len(keystore') = n /\ keystore'[n] = e /\ keystore' # <<>>
        /\ \A j \in 1..n : j # n => keystore'[j] = keystore[j + 1] /\ j + 1 \in 1..n
    <3>1. /\ keystore' \in Seq(Wishes) /\ Len(keystore') = n /\ keystore'[n] = e
          /\ \A j \in 1..n : j # n => keystore'[j] = keystore[j + 1] /\ j + 1 \in 1..n
      BY <1>1, <2>1, <2>3, <2>4, QueueGoesOn
    <3>2. keystore' # <<>>
      BY <2>4, <3>1
    <3> QED
      BY <3>1, <3>2
  <2>6. CASE i = 1
    <3>1. u = v /\ w.value = v
      BY <1>1, <1>5, <1>6, <2>1, <2>6
    <3>2. ASSUME NEW j \in 1..n, j < n PROVE keystore'[j].key >= w.key + 1
      <4>1. keystore'[j] = keystore[j + 1] /\ j + 1 \in 1..n /\ j + 1 > 1
        BY <2>4, <2>5, <3>2
      <4>2. keystore[j + 1].key > w.key /\ keystore[j + 1].key \in 1..3
        BY <1>1, <1>6, <2>4, <2>6, <4>1
      <4> QED
        BY <1>3, <4>1, <4>2
    <3>3. \A j \in 1..n : ~(j > n)
      BY <2>4
    <3>4. w.key + 1 > 1 => disk'.access = v
      BY <1>1, <1>3, <1>4, <1>6, <2>6, <3>1
    <3>5. w.key + 1 > 2 => disk'.refresh = v
      BY <1>1, <1>3, <1>4, <1>6, <2>6, <3>1
    <3>6. req'[e.by].at = "storing" <=> v # 0
      BY <1>1, <1>6, <2>2, <2>3, <2>6
    <3>7. /\ keystore'[n].key = w.key + 1 /\ keystore'[n].by = e.by
          /\ keystore'[n].value = tokens'.expires /\ tokens' = Pair(tokens'.expires)
          /\ tokens'.expires = v /\ tokens'.access = v /\ tokens'.refresh = v
          /\ Len(keystore') = n
      BY <1>3, <1>5, <2>3, <2>5, <3>1
    <3>8. n \in 1..n
      BY <2>4
    <3>9. \A j \in 1..Len(keystore') :
             /\ j < n => keystore'[j].key >= keystore'[n].key
             /\ j > n => keystore'[j].key > keystore'[n].key
      BY <3>2, <3>3, <3>7
    <3>10. /\ keystore'[n].key > 1 => disk'.access = tokens'.access
           /\ keystore'[n].key > 2 => disk'.refresh = tokens'.refresh
           /\ req'[keystore'[n].by].at = "storing" <=> tokens'.expires # 0
      BY <3>4, <3>5, <3>6, <3>7
    <3>11. Latest(n)'
      BY <3>7, <3>9, <3>10 DEF Latest
    <3> QED
      BY <2>5, <3>8, <3>11 DEF Synced
  <2>7. CASE i # 1
    <3>1. PICK k \in 1..n : k = i - 1 /\ k # n
      BY <2>4, <2>7
    <3>2. keystore'[k] = keystore[i] /\ k + 1 = i
      BY <2>4, <2>5, <3>1
    <3>3. 1 < i /\ w.key >= keystore[i].key
      BY <1>1, <1>6, <2>4, <2>7
    <3>4. ASSUME NEW j \in 1..n
          PROVE  /\ j < k => keystore'[j].key >= keystore[i].key
                 /\ j > k => keystore'[j].key > keystore[i].key
      <4>1. CASE j = n
        <5>1. keystore'[j].key = w.key + 1
          BY <2>3, <2>5, <4>1
        <5>2. ~(j < k)
          BY <2>4, <3>1, <4>1
        <5> QED
          BY <1>3, <1>6, <3>3, <5>1, <5>2
      <4>2. CASE j # n
        <5>1. keystore'[j] = keystore[j + 1] /\ j + 1 \in 1..n
          BY <2>5, <4>2
        <5>2. (j < k => j + 1 < i) /\ (j > k => j + 1 > i)
          BY <3>1, <3>2
        <5> QED
          BY <1>6, <2>4, <5>1, <5>2
      <4> QED
        BY <4>1, <4>2
    <3>5. keystore[i].key > 1 => disk'.access = v
      BY <1>3, <1>4, <1>6, <3>3
    <3>6. keystore[i].key > 2 => disk'.refresh = v
      BY <1>3, <1>4, <1>6, <3>3
    <3>7. Latest(k)'
      BY <1>3, <1>5, <1>6, <2>2, <2>5, <3>2, <3>4, <3>5, <3>6 DEF Latest
    <3> QED
      BY <2>5, <3>7 DEF Synced
  <2> QED
    BY <2>6, <2>7
<1>8. CASE ~Onward(w)
  <2>1. /\ keystore' = Tail(keystore)
        /\ w.key = 3 \/ (req[w.by].at = "storing" /\ tokens.expires = 0)
        /\ \A b \in Requests : b # w.by /\ req[b].at # "waiting" => req'[b] = req[b]
    <3>1. CASE Ends(w)
      <4>1. PICK renewed \in BOOLEAN : Complete(w.by, renewed)
        BY <3>1 DEF Ends
      <4> QED
        BY <1>3, <3>1, <4>1, CompleteChanges DEF Ends
    <3>2. ASSUME NEW q \in RequestStates, Through(w, q) PROVE <2>1
      BY <3>2 DEF Through, Base, TypeOK
    <3> QED
      BY <1>1, <1>8, <3>1, <3>2
  <2>2. PICK n \in Nat \ {0} : n = Len(keystore)
    BY <1>1
  <2>3. /\ keystore' \in Seq(Wishes) /\ Len(keystore') = n - 1
        /\ \A j \in 1..(n - 1) : keystore'[j] = keystore[j + 1] /\ j + 1 \in 1..n
    BY <1>1, <2>1, <2>2, RestOfQueue
  <2>4. CASE i = 1
    <3>1. w.key = 3 /\ w.value = v
      BY <1>1, <1>5, <1>6, <2>1, <2>4
    <3>2. \A j \in 1..n : ~(j > 1)
      BY <1>1, <1>6, <2>2, <2>4, <3>1
    <3>3. n = 1
      BY <2>2, <3>2
    <3>4. keystore' = <<>>
      BY <2>3, <3>3
    <3>5. disk' = tokens'
      <4>1. disk'.access = v /\ disk'.refresh = v /\ disk'.expires = v
        BY <1>1, <1>4, <1>6, <2>4, <3>1
      <4> QED
        BY <1>3, <1>4, <1>5, <4>1, EqualTokens
    <3> QED
      BY <3>4, <3>5 DEF Synced
  <2>5. CASE i # 1
    <3>1. PICK k \in 1..(n - 1) : k = i - 1
      BY <2>2, <2>5
    <3>2. keystore'[k] = keystore[i] /\ k + 1 = i /\ keystore' # <<>>
      BY <2>2, <2>3, <3>1
    <3>3. 1 < i /\ w.key >= keystore[i].key
      BY <1>1, <1>6, <2>2, <2>5
    <3>4. ASSUME NEW j \in 1..(n - 1)
          PROVE  /\ j < k => keystore'[j].key >= keystore[i].key
                 /\ j > k => keystore'[j].key > keystore[i].key
      <4>1. keystore'[j] = keystore[j + 1] /\ j + 1 \in 1..n
        BY <2>3
      <4>2. (j < k => j + 1 < i) /\ (j > k => j + 1 > i)
        BY <3>1, <3>2
      <4> QED
        BY <1>6, <2>2, <4>1, <4>2
    <3>5. keystore[i].key > 1 => disk'.access = v
      BY <1>3, <1>4, <1>6, <3>3
    <3>6. keystore[i].key > 2 => disk'.refresh = v
      BY <1>3, <1>4, <1>6, <3>3
    <3>7. req'[keystore[i].by] = req[keystore[i].by]
      <4>1. req[keystore[i].by].at \in {"storing", "clearing"}
        BY DEF Base, Queued
      <4>2. keystore[i].by # w.by
        BY <1>1, <2>2, <2>5 DEF Base, Queued
      <4> QED
        BY <1>6, <2>1, <4>1, <4>2
    <3>8. Latest(k)'
      BY <1>3, <1>5, <1>6, <2>3, <3>2, <3>4, <3>5, <3>6, <3>7 DEF Latest
    <3> QED
      BY <2>3, <3>2, <3>8 DEF Synced
  <2> QED
    BY <2>4, <2>5
<1> QED
  BY <1>7, <1>8

LEMMA OtherStepsKeepSync ==
    ASSUME Base, Synced, (\E r \in Requests : RenewalLost(r)) \/ Kill \/ Elsewhere
    PROVE  Synced'
<1> USE DEF server, store, session, vars
<1>1. ASSUME NEW r \in Requests, RenewalLost(r) PROVE Synced'
  <2>1. keystore' = keystore /\ tokens' = tokens /\ disk' = disk /\ Pending(r)
    BY <1>1 DEF RenewalLost, Pending
  <2>2. CASE keystore = <<>>
    BY <2>1, <2>2 DEF Synced, Asleep, Quiet
  <2>3. CASE keystore # <<>>
    <3>1. PICK i \in 1..Len(keystore) : Latest(i)
      BY <2>3 DEF Synced
    <3>2. req[r].kind # "login" /\ inFlight = r /\ Complete(r, FALSE)
      BY <1>1 DEF Base, Shape, Single, Renews, RenewalLost
    <3>3. keystore[i].by \in Requests /\ req[keystore[i].by].at \in {"storing", "clearing"}
      BY WishTypes DEF Base, Queued
    <3>4. req[r].at = "refreshed"
      BY <1>1 DEF RenewalLost
    <3>5. req'[keystore[i].by] = req[keystore[i].by]
      BY <3>2, <3>3, <3>4, CompleteChanges
    <3>6. Latest(i)'
      BY <2>1, <3>1, <3>5 DEF Latest
    <3> QED
      BY <2>1, <2>3, <3>6 DEF Synced
  <2> QED
    BY <2>2, <2>3
<1>2. CASE Kill
  <2>1. \A r \in Requests : ~Pending(r)'
    BY <1>2, KillFields DEF Pending
  <2> QED
    BY <1>2, <2>1 DEF Kill, Synced, Asleep, Quiet
<1>3. CASE NothingStored
  <2>1. keystore' = <<>> /\ disk' = tokens'
    BY <1>3, QuietQueue DEF NothingStored
  <2> QED
    BY <2>1 DEF Synced
<1>4. CASE Elsewhere /\ ~NothingStored
  <2>1. UNCHANGED <<tokens, disk, keystore, req, phase>>
    BY <1>4 DEF Elsewhere, ResetPassword, Pass, OrphanCommits
  <2> QED
    BY <2>1 DEF Synced, Latest, Asleep, Quiet, Pending
<1> QED
  BY <1>1, <1>2, <1>3, <1>4

LEMMA SyncedHolds == Spec => []Synced
<1>1. Init => Synced
  <2> SUFFICES ASSUME Init PROVE Synced
    OBVIOUS
  <2>1. Unused.at = "unused"
    BY DEF Unused, Blank
  <2>2. \A r \in Requests : ~Pending(r)
    BY <2>1 DEF Init, Pending
  <2> QED
    BY <2>2 DEF Init, Synced, Asleep, Quiet
<1>2. Base /\ Synced /\ [Next]_vars => Synced'
  BY Steps, MovesKeepSync, KeystoreKeepsSync, OtherStepsKeepSync
<1> QED
  BY <1>1, <1>2, BaseHolds, PTL DEF Spec

(* Whichever saves and clears overlapped, the keystore holds the pair in use *)
(* once it has caught up (token_store.dart save, clear, load).              *)
THEOREM KeystoreCatchesUp == Spec => []KeystoreMatchesMemory
<1>1. Synced => KeystoreMatchesMemory
  BY DEF Synced, Asleep, KeystoreMatchesMemory
<1> QED
  BY <1>1, SyncedHolds, PTL

-----------------------------------------------------------------------------
\* Why the tokens of one login follow each other.  A chain begins with a login
\* that was served; while no abandoned renewal was committed it has one live
\* token, and a renewal that has read a token is alone with it.
Entered(q) == q.at # "unused" /\ ~(q.kind = "login" /\ q.at = "sent")

Chains ==
    /\ \A n \in 1..issued : signIn[n] # 0 => Entered(req[signIn[n]])
    /\ OneLiveTokenPerSignIn
    /\ ~stray => \A r \in Requests :
          req[r].at = "checked" =>
             \A n \in live : signIn[n] = signIn[req[r].pair] => n = req[r].pair

\* A step that issues nothing and reads nothing.
Calm ==
    /\ UNCHANGED <<issued, signIn, stray>> /\ live' \subseteq live
    /\ orphans' \subseteq orphans \cup Reading
    /\ \A r \in Requests :
          /\ Entered(req[r]) => Entered(req'[r])
          /\ req'[r].at = "checked" => req[r].at = "checked" /\ req'[r].pair = req[r].pair

LEMMA MovesOfChains ==
    ASSUME Base, NEW r \in Requests, NEW q \in RequestStates, req' = [req EXCEPT ![r] = q],
           Moves(r, q)
    PROVE  LogsIn(r, q) \/ IsRead(r, q) \/ IsRenewed(r, q) \/ Calm
<1> USE DEF server, store, session
<1>1. \A b \in Requests : req'[b] = IF b = r THEN q ELSE req[b]
  BY MovesKeepBase
<1>2. req[r].at = "checked" => req[r].pair \in Reading
  BY ReadingIsIssued
<1>3. ASSUME ~LogsIn(r, q), ~IsRead(r, q), ~IsRenewed(r, q)
      PROVE  /\ UNCHANGED <<issued, signIn, stray>> /\ live' \subseteq live
             /\ orphans' \subseteq orphans \cup Reading
             /\ Entered(req[r]) => Entered(q)
             /\ q.at # "checked"
  <2>1. CASE Starts(r, q) \/ Clears(r, q) \/ Saves(r, q)
    BY <2>1 DEF Starts, Clears, Saves, Entered
  <2>2. CASE AsksToRenew(r, q) \/ GoesOn(r, q)
    BY <2>2 DEF AsksToRenew, GoesOn, Entered, Base, Shape
  <2>3. CASE IsRefused(r, q) \/ IsLost(r, q)
    BY <1>2, <2>3 DEF IsRefused, IsLost, Entered
  <2> QED
    BY <1>3, <2>1, <2>2, <2>3 DEF Moves
<1> QED
  BY <1>1, <1>3 DEF Calm

LEMMA KeystoreIsCalm == ASSUME Base, Keystore PROVE Calm
<1>1. PICK w \in Wishes :
        /\ w = keystore[1] /\ Len(keystore) \in Nat \ {0}
        /\ UNCHANGED <<server, tokens, excused>>
        /\ Onward(w) \/ Ends(w) \/ \E q \in RequestStates : Through(w, q)
  BY KeystoreSteps
<1>2. UNCHANGED <<issued, signIn, stray>> /\ live' = live /\ orphans' = orphans
  BY <1>1 DEF server
<1>3. w.by \in Requests /\ req \in [Requests -> RequestStates]
  BY DEF Wishes, Base, TypeOK
<1>4. CASE Onward(w)
  <2>1. req' = req
    BY <1>4 DEF Onward
  <2> QED
    BY <1>2, <2>1 DEF Calm
<1>5. CASE Ends(w)
  <2>1. PICK renewed \in BOOLEAN : Complete(w.by, renewed)
    BY <1>5 DEF Ends
  <2>2. ASSUME NEW b \in Requests
        PROVE  /\ Entered(req[b]) => Entered(req'[b])
               /\ req'[b].at = "checked" => req[b].at = "checked" /\ req'[b].pair = req[b].pair
    <3>1. IF b = w.by \/ req[b].at = "waiting"
          THEN /\ req'[b].at \in {"sent", "start", "answered"}
               /\ req'[b].kind = req[b].kind /\ req'[b].kind # "login" /\ req'[b].pair = 0
          ELSE req'[b] = req[b]
      BY <1>3, <1>5, <2>1, CompleteChanges DEF Ends
    <3> QED
      BY <3>1 DEF Entered
  <2> QED
    BY <1>2, <2>2 DEF Calm
<1>6. ASSUME NEW q \in RequestStates, Through(w, q) PROVE Calm
  <2>1. \A b \in Requests : req'[b] = IF b = w.by THEN q ELSE req[b]
    BY <1>3, <1>6 DEF Through
  <2>2. q.at # "checked" /\ Entered(q)
    BY <1>6 DEF Through, Entered
  <2> QED
    BY <1>2, <2>1, <2>2 DEF Calm
<1> QED
  BY <1>1, <1>4, <1>5, <1>6

LEMMA ChainSteps ==
    ASSUME Base, [Next]_vars
    PROVE  \/ \E r \in Requests, q \in RequestStates :
                /\ \A b \in Requests : req'[b] = IF b = r THEN q ELSE req[b]
                /\ LogsIn(r, q) \/ IsRead(r, q) \/ IsRenewed(r, q)
           \/ \E p \in orphans : OrphanCommits(p)
           \/ Calm
<1>1. ASSUME NEW r \in Requests, NEW q \in RequestStates, req' = [req EXCEPT ![r] = q], Moves(r, q)
      PROVE  \/ /\ \A b \in Requests : req'[b] = IF b = r THEN q ELSE req[b]
                /\ LogsIn(r, q) \/ IsRead(r, q) \/ IsRenewed(r, q)
             \/ Calm
  BY <1>1, MovesKeepBase, MovesOfChains
<1>2. ASSUME NEW r \in Requests, RenewalLost(r) PROVE Calm
  <2>1. req[r].kind # "login" /\ inFlight = r /\ Complete(r, FALSE)
    BY <1>2 DEF Base, Shape, Single, Renews, RenewalLost
  <2>2. ASSUME NEW b \in Requests
        PROVE  /\ Entered(req[b]) => Entered(req'[b])
               /\ req'[b].at = "checked" => req[b].at = "checked" /\ req'[b].pair = req[b].pair
    <3>1. IF b = r \/ req[b].at = "waiting"
          THEN /\ req'[b].at \in {"sent", "start", "answered"}
               /\ req'[b].kind = req[b].kind /\ req'[b].kind # "login" /\ req'[b].pair = 0
          ELSE req'[b] = req[b]
      BY <2>1, CompleteChanges
    <3> QED
      BY <3>1 DEF Entered
  <2>3. UNCHANGED <<issued, signIn, stray>> /\ live' = live /\ orphans' = orphans
    BY <1>2 DEF RenewalLost, server
  <2> QED
    BY <2>2, <2>3 DEF Calm
<1>3. CASE Kill
  <2>1. ASSUME NEW b \in Requests
        PROVE  /\ Entered(req[b]) => Entered(req'[b])
               /\ req'[b].at = "checked" => req[b].at = "checked" /\ req'[b].pair = req[b].pair
    <3>1. /\ IF Pending(b) THEN req'[b] = Ended ELSE req'[b] = req[b]
          /\ Ended.at = "ended" /\ Ended.kind = "call"
      BY <1>3, KillFields
    <3> QED
      BY <3>1 DEF Entered
  <2>2. UNCHANGED <<issued, signIn, stray>> /\ live' = live /\ orphans' = orphans \cup Reading
    BY <1>3 DEF Kill
  <2> QED
    BY <2>1, <2>2 DEF Calm
<1>4. CASE NothingStored \/ ResetPassword \/ Pass \/ UNCHANGED vars
  <2>1. /\ req' = req /\ UNCHANGED <<issued, signIn, stray, orphans>> /\ live' \subseteq live
    BY <1>4 DEF NothingStored, ResetPassword, Pass, vars, server
  <2> QED
    BY <2>1 DEF Calm
<1> QED
  BY <1>1, <1>2, <1>3, <1>4, Steps, KeystoreIsCalm DEF Elsewhere

\* A token more, of one chain.
LEMMA Issues ==
    ASSUME Base, NEW c \in 0..MaxRequests, IssueTokens(c)
    PROVE  /\ issued \in Nat /\ issued' = issued + 1 /\ issued + 1 \notin live
           /\ signIn'[issued + 1] = c
           /\ \A n \in 1..issued : signIn'[n] = signIn[n] /\ n # issued + 1
<1>1. /\ issued \in 0..MaxPairs /\ signIn \in [Pairs -> 0..MaxRequests] /\ live \subseteq 1..issued
      /\ issued' = issued + 1 /\ signIn' = [signIn EXCEPT ![issued + 1] = c] /\ issued < MaxPairs
  BY DEF Base, TypeOK, Bounded, IssueTokens
<1>2. issued + 1 \in Pairs /\ \A n \in 1..issued : n \in Pairs /\ n # issued + 1
  BY <1>1 DEF Pairs
<1> QED
  BY <1>1, <1>2

LEMMA ChainTypes ==
    ASSUME Base, NEW n \in 1..issued
    PROVE  signIn[n] \in 0..MaxRequests /\ (signIn[n] # 0 => signIn[n] \in Requests)
<1>1. n \in Pairs /\ signIn \in [Pairs -> 0..MaxRequests]
  BY DEF Base, TypeOK, Pairs
<1> QED
  BY <1>1 DEF Requests

LEMMA ChainsKept == ASSUME Base, Chains, [Next]_vars PROVE Chains'
<1>1. live \subseteq 1..issued /\ orphans \subseteq 1..issued
  BY DEF Base, Bounded
<1>2. \A a, b \in Requests : Renews(req[a]) /\ Renews(req[b]) => a = b
  BY DEF Base, Single
<1>3. ASSUME NEW r \in Requests, NEW q \in RequestStates,
             \A b \in Requests : req'[b] = IF b = r THEN q ELSE req[b], LogsIn(r, q)
      PROVE  Chains'
  <2>1. /\ r \in 0..MaxRequests /\ r # 0 /\ ~Entered(req[r]) /\ Entered(q) /\ q.at # "checked"
        /\ IssueTokens(r) /\ live' = live \cup {issued + 1} /\ stray' = stray
    BY <1>3 DEF LogsIn, Entered, Requests
  <2>2. /\ issued \in Nat /\ issued' = issued + 1 /\ issued + 1 \notin live
        /\ signIn'[issued + 1] = r
        /\ \A n \in 1..issued : signIn'[n] = signIn[n] /\ n # issued + 1
    BY <2>1, Issues
  <2>3. \A n \in 1..issued : signIn[n] # r
    BY <2>1 DEF Chains
  <2>4. ASSUME NEW n \in 1..issued', signIn'[n] # 0 PROVE Entered(req'[signIn'[n]])
    <3>1. CASE n = issued + 1
      BY <1>3, <2>1, <2>2, <3>1
    <3>2. CASE n \in 1..issued
      BY <1>3, <2>1, <2>2, <2>4, <3>2, ChainTypes DEF Chains
    <3> QED
      BY <2>2, <3>1, <3>2
  <2>5. ASSUME ~stray', NEW m \in live', NEW n \in live', signIn'[m] = signIn'[n] PROVE m = n
    <3>1. m \in live \cup {issued + 1} /\ n \in live \cup {issued + 1}
      BY <2>1, <2>5
    <3>2. \A k \in live : k \in 1..issued /\ signIn'[k] = signIn[k] /\ signIn'[k] # r
      BY <1>1, <2>2, <2>3
    <3>3. CASE m \in live /\ n \in live
      <4>1. ~ stray /\ signIn[m] = signIn[n]
        BY <2>1, <2>5, <3>2, <3>3
      <4> QED
        BY <3>3, <4>1 DEF Chains, OneLiveTokenPerSignIn
    <3>4. CASE m \notin live \/ n \notin live
      BY <2>2, <2>5, <3>1, <3>2, <3>4
    <3> QED
      BY <3>3, <3>4
  <2>6. ASSUME ~stray', NEW b \in Requests, req'[b].at = "checked",
               NEW n \in live', signIn'[n] = signIn'[req'[b].pair]
        PROVE  n = req'[b].pair
    <3>1. req'[b] = req[b] /\ req[b].at = "checked"
      BY <1>3, <2>1, <2>6
    <3>2. req[b].pair \in 1..issued
      BY <3>1, ReadingIsIssued
    <3> QED
      BY <1>1, <2>1, <2>2, <2>3, <2>6, <3>1, <3>2 DEF Chains
  <2> QED
    BY <2>4, <2>5, <2>6 DEF Chains, OneLiveTokenPerSignIn
<1>4. ASSUME NEW r \in Requests, NEW q \in RequestStates,
             \A b \in Requests : req'[b] = IF b = r THEN q ELSE req[b], IsRead(r, q)
      PROVE  Chains'
  <2>1. /\ UNCHANGED <<issued, live, signIn, stray>> /\ req[r].pair \in live /\ q.pair = req[r].pair
        /\ req[r].at = "refreshing" /\ q.at = "checked"
    BY <1>4 DEF IsRead, server
  <2>2. ASSUME NEW b \in Requests, req'[b].at = "checked" PROVE b = r
    <3>1. Renews(req[b]) /\ Renews(req[r])
      BY <1>4, <2>1, <2>2 DEF Renews
    <3> QED
      BY <1>2, <3>1
  <2>3. \A n \in 1..issued : signIn[n] # 0 => Entered(req'[signIn[n]])
    BY <1>4, <2>1, ChainTypes DEF Chains, Entered
  <2> QED
    BY <1>4, <2>1, <2>2, <2>3 DEF Chains, OneLiveTokenPerSignIn
<1>5. ASSUME NEW r \in Requests, NEW q \in RequestStates,
             \A b \in Requests : req'[b] = IF b = r THEN q ELSE req[b], IsRenewed(r, q)
      PROVE  Chains'
  <2>1. /\ req[r].at = "checked" /\ q.at = "refreshed"
        /\ IssueTokens(signIn[req[r].pair])
        /\ live' = (live \ {req[r].pair}) \cup {issued + 1} /\ stray' = stray
    BY <1>5 DEF IsRenewed
  <2>2. PICK p \in 1..issued : p = req[r].pair
    BY <2>1, ReadingIsIssued
  <2>3. PICK c \in 0..MaxRequests : c = signIn[p]
    BY <2>2, ChainTypes
  <2>4. /\ issued \in Nat /\ issued' = issued + 1 /\ issued + 1 \notin live
        /\ signIn'[issued + 1] = c
        /\ \A n \in 1..issued : signIn'[n] = signIn[n] /\ n # issued + 1
    BY <2>1, <2>2, <2>3, Issues
  <2>5. ASSUME NEW n \in 1..issued', signIn'[n] # 0 PROVE Entered(req'[signIn'[n]])
    <3>1. PICK m \in 1..issued : signIn'[n] = signIn[m]
      BY <2>2, <2>3, <2>4
    <3>2. Entered(req[signIn[m]]) /\ signIn[m] \in Requests
      BY <2>5, <3>1, ChainTypes DEF Chains
    <3>3. Entered(q)
      BY <2>1 DEF Entered
    <3> QED
      BY <1>5, <3>1, <3>2, <3>3
  <2>6. ASSUME ~stray, NEW n \in live, n # p PROVE signIn[n] # c
    BY <2>1, <2>2, <2>3, <2>6 DEF Chains
  <2>7. ASSUME ~stray', NEW m \in live', NEW n \in live', signIn'[m] = signIn'[n] PROVE m = n
    <3>1. ~stray /\ live' = (live \ {p}) \cup {issued + 1}
      BY <2>1, <2>2, <2>7
    <3>2. \A k \in live \ {p} : signIn'[k] = signIn[k] /\ signIn'[k] # c
      BY <1>1, <2>4, <2>6, <3>1
    <3>3. CASE m = issued + 1 \/ n = issued + 1
      BY <2>4, <2>7, <3>1, <3>2, <3>3
    <3>4. CASE m # issued + 1 /\ n # issued + 1
      BY <2>7, <3>1, <3>2, <3>4 DEF Chains, OneLiveTokenPerSignIn
    <3> QED
      BY <3>3, <3>4
  <2>8. ASSUME NEW b \in Requests, req'[b].at = "checked" PROVE FALSE
    <3>1. b # r /\ Renews(req[b]) /\ Renews(req[r])
      BY <1>5, <2>1, <2>8 DEF Renews
    <3> QED
      BY <1>2, <3>1
  <2> QED
    BY <2>5, <2>7, <2>8 DEF Chains, OneLiveTokenPerSignIn
<1>6. ASSUME NEW p \in orphans, OrphanCommits(p) PROVE Chains'
  <2>1. p \in 1..issued /\ IssueTokens(signIn[p]) /\ stray' = TRUE /\ req' = req
    BY <1>1, <1>6 DEF OrphanCommits
  <2>2. PICK c \in 0..MaxRequests : c = signIn[p]
    BY <2>1, ChainTypes
  <2>3. /\ issued \in Nat /\ issued' = issued + 1
        /\ signIn'[issued + 1] = c
        /\ \A n \in 1..issued : signIn'[n] = signIn[n] /\ n # issued + 1
    BY <2>1, <2>2, Issues
  <2>4. ASSUME NEW n \in 1..issued', signIn'[n] # 0 PROVE Entered(req'[signIn'[n]])
    <3>1. PICK m \in 1..issued : signIn'[n] = signIn[m]
      BY <2>1, <2>2, <2>3
    <3> QED
      BY <2>1, <2>4, <3>1 DEF Chains
  <2> QED
    BY <2>1, <2>4 DEF Chains, OneLiveTokenPerSignIn
<1>7. CASE Calm
  <2>1. \A n \in 1..issued : signIn[n] # 0 => signIn[n] \in Requests
    BY ChainTypes
  <2> QED
    BY <1>7, <2>1 DEF Calm, Chains, OneLiveTokenPerSignIn
<1> QED
  BY <1>3, <1>4, <1>5, <1>6, <1>7, ChainSteps

LEMMA ChainsHold == Spec => []Chains
<1>1. Init => Chains
  <2> SUFFICES ASSUME Init PROVE Chains
    OBVIOUS
  <2>1. PICK n \in {0, 1} : issued = n /\ live = {p \in Pairs : p <= n}
    BY DEF Init
  <2>2. signIn = [p \in Pairs |-> 0] /\ req = [r \in Requests |-> Unused] /\ Unused.at = "unused"
    BY DEF Init, Unused, Blank
  <2>3. live \subseteq {1} /\ 1..issued \subseteq {1} /\ 1 \in Pairs
    BY <2>1 DEF Pairs
  <2> HIDE DEF Unused
  <2>4. \A r \in Requests : req[r].at = "unused"
    BY <2>2
  <2>5. \A m \in 1..issued : signIn[m] = 0
    BY <2>2, <2>3
  <2> QED
    BY <2>3, <2>4, <2>5 DEF Chains, OneLiveTokenPerSignIn
<1>2. Base /\ Chains /\ [Next]_vars => Chains'
  BY ChainsKept
<1> QED
  BY <1>1, <1>2, BaseHolds, PTL DEF Spec

(* Of the tokens that stem from one login at most one is live, until an       *)
(* abandoned renewal is committed (services/auth.py rotate_refresh_token).  *)
THEOREM OneToken == Spec => []OneLiveTokenPerSignIn
<1>1. Chains => OneLiveTokenPerSignIn
  BY DEF Chains
<1> QED
  BY <1>1, ChainsHold, PTL

\* What becomes usable belongs to a login that still had a usable token, or to
\* one that had none before.
LEMMA NothingRevives ==
    ASSUME Base, Chains, [Next]_vars, NEW n \in Usable', n \notin Usable
    PROVE  ~HasEnded(signIn'[n])
<1>1. live \subseteq Usable /\ orphans \subseteq Usable /\ Reading \subseteq Usable
  BY DEF Usable
<1>2. ASSUME NEW m \in Usable, signIn[m] = signIn'[n] PROVE ~HasEnded(signIn'[n])
  BY <1>2 DEF HasEnded
<1>3. Usable \subseteq 1..issued
  BY ReadingIsIssued DEF Usable, Base, Bounded
<1>4. ASSUME NEW r \in Requests, NEW q \in RequestStates,
             \A b \in Requests : req'[b] = IF b = r THEN q ELSE req[b],
             q.at = "checked" => q.pair \in Usable
      PROVE  Reading' \subseteq Usable
  <2>1. ASSUME NEW b \in Requests, req'[b].at = "checked" PROVE req'[b].pair \in Usable
    <3>1. CASE b = r
      BY <1>4, <2>1, <3>1
    <3>2. CASE b # r
      <4>1. req'[b] = req[b]
        BY <1>4, <3>2
      <4> QED
        BY <1>1, <2>1, <4>1, ReadingIsIssued
    <3> QED
      BY <3>1, <3>2
  <2> QED
    BY <2>1 DEF Reading
<1>5. ASSUME NEW r \in Requests, NEW q \in RequestStates,
             \A b \in Requests : req'[b] = IF b = r THEN q ELSE req[b], LogsIn(r, q)
      PROVE  ~HasEnded(signIn'[n])
  <2>1. /\ r \in 0..MaxRequests /\ r # 0 /\ ~Entered(req[r]) /\ q.at # "checked"
        /\ IssueTokens(r) /\ live' = live \cup {issued + 1} /\ orphans' = orphans
    BY <1>5 DEF LogsIn, Entered, Requests
  <2>2. Reading' \subseteq Usable
    BY <1>4, <1>5, <2>1
  <2>3. n = issued + 1
    BY <1>1, <2>1, <2>2 DEF Usable
  <2>4. signIn'[n] = r
    BY <2>1, <2>3, Issues
  <2>5. \A m \in 1..issued : signIn[m] # r
    BY <2>1 DEF Chains
  <2> QED
    BY <2>4, <2>5 DEF HasEnded
<1>6. ASSUME NEW r \in Requests, NEW q \in RequestStates,
             \A b \in Requests : req'[b] = IF b = r THEN q ELSE req[b], IsRead(r, q)
      PROVE  FALSE
  <2>1. live' = live /\ orphans' = orphans /\ q.pair \in live
    BY <1>6 DEF IsRead, server
  <2>2. Reading' \subseteq Usable
    BY <1>1, <1>4, <1>6, <2>1
  <2> QED
    BY <1>1, <2>1, <2>2 DEF Usable
<1>7. ASSUME NEW r \in Requests, NEW q \in RequestStates,
             \A b \in Requests : req'[b] = IF b = r THEN q ELSE req[b], IsRenewed(r, q)
      PROVE  ~HasEnded(signIn'[n])
  <2>1. /\ req[r].at = "checked" /\ q.at # "checked"
        /\ IssueTokens(signIn[req[r].pair])
        /\ live' = (live \ {req[r].pair}) \cup {issued + 1} /\ orphans' = orphans
    BY <1>7 DEF IsRenewed
  <2>2. Reading' \subseteq Usable
    BY <1>4, <1>7, <2>1
  <2>3. n = issued + 1
    BY <1>1, <2>1, <2>2 DEF Usable
  <2>4. PICK p \in Usable : p = req[r].pair
    BY <1>1, <2>1, ReadingIsIssued
  <2>5. PICK c \in 0..MaxRequests : c = signIn[p]
    BY <1>3, <2>4, ChainTypes
  <2>6. signIn'[n] = c
    BY <2>1, <2>3, <2>4, <2>5, Issues
  <2> QED
    BY <1>2, <2>5, <2>6
<1>8. ASSUME NEW p \in orphans, OrphanCommits(p) PROVE ~HasEnded(signIn'[n])
  <2>1. /\ IssueTokens(signIn[p]) /\ live' = (live \ {p}) \cup {issued + 1}
        /\ orphans' \subseteq orphans /\ req' = req
    BY <1>8 DEF OrphanCommits
  <2>2. Reading' = Reading
    BY <2>1 DEF Reading
  <2>3. n = issued + 1 /\ p \in Usable
    BY <1>1, <2>1, <2>2 DEF Usable
  <2>4. PICK c \in 0..MaxRequests : c = signIn[p]
    BY <1>3, <2>3, ChainTypes
  <2>5. signIn'[n] = c
    BY <2>1, <2>3, <2>4, Issues
  <2> QED
    BY <1>2, <2>3, <2>4, <2>5
<1>9. CASE Calm
  <2>1. Reading' \subseteq Reading
    BY <1>9 DEF Calm, Reading
  <2> QED
    BY <1>9, <2>1 DEF Calm, Usable
<1> QED
  BY <1>5, <1>6, <1>7, <1>8, <1>9, ChainSteps

(* A login that a logout or a password reset has ended stays ended             *)
(* (services/auth.py reset_password, revoke_refresh_token).                 *)
THEOREM StaysEnded == Spec => EndedStaysEnded
<1>1. ASSUME Base, Chains, [Next]_vars
      PROVE  [\A n \in Usable' \ Usable : ~HasEnded(signIn'[n])]_vars
  BY <1>1, NothingRevives
<1> QED
  BY <1>1, BaseHolds, ChainsHold, PTL DEF Spec, EndedStaysEnded

-----------------------------------------------------------------------------
\* Why the session expires only for a cause.  The pair of a login on its way is
\* nobody else's, so that a renewal cannot revoke it; ...
Bearer(q) == q.kind = "login" /\ q.at = "answered" /\ q.got = "ok"

Distinct ==
    \A r \in Requests : Bearer(req[r]) =>
       /\ tokens.refresh # req[r].pair
       /\ \A b \in Requests : b # r => req[b].pair # req[r].pair

\* ... a refresh token in use is live, or its successor is on its way; ...
Granted == \E r \in Requests : req[r].at = "refreshed" /\ req[r].got = "ok"
Good(n) == n = 0 \/ n \in live \/ Granted

\* ... and a renewal asks with a live token and is not refused.
Sound(r) ==
    /\ req[r].at \in {"refreshing", "checked"} => req[r].pair \in live
    /\ Holds(req[r]) => req[r].pair \in live
    /\ req[r].at = "refreshed" => req[r].got # "401"
    /\ req[r].at = "clearing" => inFlight # r

Expected ==
    ~excused =>
       /\ orphans = {} /\ ~notice
       /\ \A r \in Requests : Sound(r)
       /\ Good(tokens.refresh)
       /\ keystore = <<>> => Good(disk.refresh)

LEMMA MovesKeepDistinct ==
    ASSUME Base, Distinct, NEW r \in Requests, NEW q \in RequestStates, req' = [req EXCEPT ![r] = q],
           Moves(r, q)
    PROVE  Distinct'
<1> USE DEF server, store, session
<1>1. \A b \in Requests : req'[b] = IF b = r THEN q ELSE req[b]
  BY MovesKeepBase
<1>2. /\ issued \in Nat /\ tokens.refresh \in 0..issued
      /\ \A b \in Requests : req[b].pair \in 0..issued
      /\ \A b \in Requests : Bearer(req[b]) => req[b].pair # 0
  BY DEF Base, TypeOK, Bounded, Shape, Holds, Bearer
<1>3. Pair(0).refresh = 0 /\ Pair(q.pair).refresh = q.pair
  <2>1. 0 \in 0..MaxPairs /\ q.pair \in 0..MaxPairs
    BY DEF RequestStates
  <2> QED
    BY <2>1, PairTypes
<1>4. /\ q.pair \in {0, req[r].pair, tokens.refresh, issued + 1}
      /\ tokens'.refresh \in {0, tokens.refresh, req[r].pair} \/ Quiet
      /\ Bearer(q) => q.pair = issued + 1 /\ tokens' = tokens
  <2>1. CASE Starts(r, q) \/ Clears(r, q) \/ Saves(r, q)
    BY <1>3, <2>1 DEF Starts, Clears, Saves, Bearer
  <2>2. CASE AsksToRenew(r, q) \/ GoesOn(r, q) \/ LogsIn(r, q)
    BY <2>2 DEF AsksToRenew, GoesOn, LogsIn, Bearer, Holds
  <2>3. CASE IsRead(r, q) \/ IsRefused(r, q) \/ IsRenewed(r, q) \/ IsLost(r, q)
    BY <2>3 DEF IsRead, IsRefused, IsRenewed, IsLost, Bearer
  <2> QED
    BY <2>1, <2>2, <2>3 DEF Moves
<1>5. \A b \in Requests : Bearer(req[b]) => ~Quiet
  BY DEF Bearer, Quiet, Pending
<1>6. ASSUME NEW b \in Requests, Bearer(req'[b])
      PROVE  /\ tokens'.refresh # req'[b].pair
             /\ \A a \in Requests : a # b => req'[a].pair # req'[b].pair
  <2>1. CASE b = r
    BY <1>1, <1>2, <1>4, <1>6, <2>1
  <2>2. CASE b # r
    <3>1. req'[b] = req[b] /\ Bearer(req[b]) /\ req[b].pair \in 1..issued
      BY <1>1, <1>2, <1>6, <2>2
    <3>2. /\ tokens.refresh # req[b].pair
          /\ \A a \in Requests : a # b => req[a].pair # req[b].pair
      BY <3>1 DEF Distinct
    <3>3. tokens'.refresh # req[b].pair /\ q.pair # req[b].pair
      BY <1>2, <1>4, <1>5, <2>2, <3>1, <3>2
    <3> QED
      BY <1>1, <3>1, <3>2, <3>3
  <2> QED
    BY <2>1, <2>2
<1> QED
  BY <1>6 DEF Distinct

LEMMA MovesKeepExpected ==
    ASSUME Base, Distinct, Expected, NEW r \in Requests, NEW q \in RequestStates,
           req' = [req EXCEPT ![r] = q], Moves(r, q)
    PROVE  Expected'
<1> USE DEF server, store, session
<1> SUFFICES ASSUME ~excused' PROVE Expected'
  BY DEF Expected
<1>1. \A b \in Requests : req'[b] = IF b = r THEN q ELSE req[b]
  BY MovesKeepBase
<1>2. /\ ~excused /\ notice' \in {notice, FALSE} /\ orphans' = orphans
      /\ inFlight' \in {inFlight, r} /\ disk' = disk
  <2>1. CASE GoesOn(r, q)
    BY <2>1 DEF GoesOn
  <2>2. CASE IsLost(r, q)
    BY <2>2 DEF IsLost
  <2>3. CASE ~GoesOn(r, q) /\ ~IsLost(r, q)
    <3>1. excused' = excused
      BY <2>3 DEF Moves, Starts, Clears, Saves, AsksToRenew, LogsIn, IsRead, IsRefused, IsRenewed
    <3>2. notice' \in {notice, FALSE}
      BY <2>3 DEF Moves, Starts, Clears, Saves, AsksToRenew, LogsIn, IsRead, IsRefused, IsRenewed
    <3>3. orphans' = orphans /\ inFlight' \in {inFlight, r} /\ disk' = disk
      BY <2>3 DEF Moves, Starts, Clears, Saves, AsksToRenew, LogsIn, IsRead, IsRefused, IsRenewed
    <3> QED
      BY <3>1, <3>2, <3>3
  <2> QED
    BY <2>1, <2>2, <2>3
<1>3. /\ orphans = {} /\ ~notice /\ \A b \in Requests : Sound(b)
      /\ Good(tokens.refresh) /\ (keystore = <<>> => Good(disk.refresh))
  BY <1>2 DEF Expected
<1>4. \A a, b \in Requests : Renews(req[a]) /\ Renews(req[b]) => a = b
  BY DEF Base, Single
<1>5. ASSUME ~IsRenewed(r, q) PROVE live \subseteq live'
  BY <1>2, <1>5
  DEF Moves, Starts, Clears, Saves, AsksToRenew, GoesOn, LogsIn, IsRead, IsRefused, IsLost
<1>6. ASSUME NEW b \in Requests, b # r PROVE Sound(b)'
  <2>1. Sound(b) /\ req'[b] = req[b]
    BY <1>1, <1>3, <1>6
  <2>2. CASE ~IsRenewed(r, q)
    BY <1>2, <1>5, <1>6, <2>1, <2>2 DEF Sound
  <2>3. CASE IsRenewed(r, q)
    <3>1. req[r].at = "checked" /\ live' = (live \ {req[r].pair}) \cup {issued + 1}
      BY <2>3 DEF IsRenewed
    <3>2. req[b].at \notin {"refreshing", "checked", "refreshed"}
      BY <1>4, <1>6, <3>1 DEF Renews
    <3>3. Holds(req[b]) => req[b].pair # req[r].pair
      BY <1>6, <3>2 DEF Holds, Bearer, Distinct
    <3> QED
      BY <1>2, <1>6, <2>1, <3>1, <3>2, <3>3 DEF Sound
  <2> QED
    BY <2>2, <2>3
<1>7. inFlight = 0 => ~Granted
  BY DEF Base, Single, Renews, Granted, Requests
<1>8. Sound(r)'
  <2>1. Sound(r) /\ req'[r] = q
    BY <1>1, <1>3
  <2>2. CASE Starts(r, q)
    BY <2>1, <2>2 DEF Starts, Sound, Holds
  <2>3. CASE Clears(r, q)
    <3>1. ~Renews(req[r]) /\ req[r].at # "clearing" /\ inFlight' = inFlight /\ q.at = "clearing"
      BY <2>1, <2>3 DEF Clears, Sound, Renews
    <3>2. inFlight # r
      BY <3>1 DEF Base, Single
    <3> QED
      BY <2>1, <3>1, <3>2 DEF Sound, Holds
  <2>4. CASE Saves(r, q)
    BY <2>1, <2>4 DEF Saves, Sound, Holds
  <2>5. CASE AsksToRenew(r, q)
    <3>1. CASE q.at = "waiting"
      BY <2>1, <3>1 DEF Sound, Holds
    <3>2. CASE q.at # "waiting"
      <4>1. /\ inFlight = 0 /\ q.at = "refreshing" /\ q.pair = tokens.refresh /\ tokens.refresh # 0
            /\ live' = live
        BY <2>5, <3>2 DEF AsksToRenew
      <4>2. tokens.refresh \in live
        BY <1>3, <1>7, <4>1 DEF Good
      <4> QED
        BY <2>1, <4>1, <4>2 DEF Sound, Holds
    <3> QED
      BY <3>1, <3>2
  <2>6. CASE GoesOn(r, q)
    BY <2>1, <2>6 DEF GoesOn, Sound
  <2>7. CASE LogsIn(r, q)
    BY <2>1, <2>7 DEF LogsIn, Sound
  <2>8. CASE IsRead(r, q)
    BY <2>1, <2>8 DEF IsRead, Sound, Holds
  <2>9. CASE IsRefused(r, q)
    BY <2>1, <2>9 DEF IsRefused, Sound
  <2>10. CASE IsRenewed(r, q)
    BY <2>1, <2>10 DEF IsRenewed, Sound
  <2>11. CASE IsLost(r, q)
    BY <2>1, <2>11 DEF IsLost, Sound, Holds
  <2> QED
    BY <2>2, <2>3, <2>4, <2>5, <2>6, <2>7, <2>8, <2>9, <2>10, <2>11 DEF Moves
<1>9. ASSUME Granted, ~Saves(r, q) PROVE Granted'
  <2>1. PICK b \in Requests : req[b].at = "refreshed" /\ req[b].got = "ok"
    BY <1>9 DEF Granted
  <2>2. b # r
    BY <1>9, <2>1 DEF Moves, Starts, Clears, Saves, AsksToRenew, GoesOn, LogsIn, IsRead, IsRefused, IsRenewed, IsLost
  <2> QED
    BY <1>1, <2>1, <2>2 DEF Granted
<1>10. IsRenewed(r, q) => Granted'
  BY <1>1 DEF IsRenewed, Granted
<1>11. ASSUME NEW n, Good(n), ~Saves(r, q) PROVE n = 0 \/ n \in live' \/ Granted'
  BY <1>5, <1>9, <1>10, <1>11 DEF Good
<1>12. Good(tokens.refresh)'
  <2>1. CASE Saves(r, q)
    <3>1. q.pair \in 0..MaxPairs /\ q.pair \in live /\ live' = live /\ tokens' = Pair(q.pair)
      BY <1>3, <2>1 DEF Saves, Sound, RequestStates
    <3> QED
      BY <3>1, PairTypes DEF Good
  <2>2. CASE Clears(r, q)
    BY <2>2, PairTypes DEF Clears, Good
  <2>3. CASE ~Saves(r, q) /\ ~Clears(r, q)
    <3>1. tokens' = tokens \/ (tokens' = disk /\ Quiet)
      BY <2>3 DEF Moves, Starts, AsksToRenew, GoesOn, LogsIn, IsRead, IsRefused, IsRenewed, IsLost
    <3>2. Good(tokens'.refresh)
      BY <1>3, <3>1, QuietQueue
    <3> QED
      BY <1>11, <2>3, <3>2 DEF Good
  <2> QED
    BY <2>1, <2>2, <2>3
<1>13. keystore' = <<>> => Good(disk.refresh)'
  <2>1. CASE Saves(r, q) \/ Clears(r, q)
    <3>1. \E w : keystore' = Append(keystore, w)
      BY <2>1 DEF Saves, Clears, Ask
    <3>2. keystore \in Seq(Wishes)
      BY DEF Base, TypeOK
    <3>3. keystore' # <<>>
      BY <3>1, <3>2
    <3> QED
      BY <3>3
  <2>2. CASE ~Saves(r, q) /\ ~Clears(r, q)
    <3>1. keystore' = keystore
      BY <2>2 DEF Moves, Starts, AsksToRenew, GoesOn, LogsIn, IsRead, IsRefused, IsRenewed, IsLost
    <3> QED
      BY <1>2, <1>3, <1>11, <2>2, <3>1 DEF Good
  <2> QED
    BY <2>1, <2>2
<1> QED
  BY <1>2, <1>3, <1>6, <1>8, <1>12, <1>13 DEF Expected

\* A renewal that is over changes only itself and those who waited.
LEMMA CompleteIsHarmless ==
    ASSUME Base, NEW r \in Requests, NEW renewed \in BOOLEAN, Complete(r, renewed),
           inFlight = r, req[r].kind # "login", live' = live
    PROVE  \A b \in Requests :
              /\ req'[b].pair \in {0, req[b].pair}
              /\ Bearer(req'[b]) => req'[b] = req[b]
              /\ Sound(b) => Sound(b)'
              /\ b # r /\ req[b].at = "refreshed" => req'[b] = req[b]
<1> TAKE b \in Requests
<1>1. /\ inFlight' = 0 /\ b # 0
      /\ IF b = r \/ req[b].at = "waiting"
         THEN /\ req'[b].at \in {"sent", "start", "answered"}
              /\ req'[b].kind # "login" /\ req'[b].pair = 0
         ELSE req'[b] = req[b]
  BY CompleteChanges DEF Requests
<1> QED
  BY <1>1 DEF Bearer, Sound, Holds

LEMMA OthersKeepDistinct ==
    ASSUME Base, Distinct, (\E r \in Requests : RenewalLost(r)) \/ Keystore \/ Kill \/ Elsewhere
    PROVE  Distinct'
<1> USE DEF server, store, session, vars
<1>1. \A b \in Requests : Bearer(req[b]) => req[b].pair # 0 /\ ~Quiet
  BY DEF Base, Shape, Holds, Bearer, Quiet, Pending
<1>2. ASSUME tokens'.refresh \in {0, tokens.refresh} \/ Quiet,
             \A b \in Requests : /\ req'[b].pair \in {0, req[b].pair}
                                 /\ Bearer(req'[b]) => req'[b] = req[b]
      PROVE  Distinct'
  BY <1>1, <1>2 DEF Distinct
<1>3. ASSUME NEW r \in Requests, RenewalLost(r) PROVE Distinct'
  <2>1. /\ req[r].kind # "login" /\ inFlight = r /\ Complete(r, FALSE)
        /\ tokens' = tokens /\ live' = live
    BY <1>3 DEF Base, Shape, Single, Renews, RenewalLost
  <2> QED
    BY <1>2, <2>1, CompleteIsHarmless
<1>4. CASE Keystore
  <2>1. PICK w \in Wishes :
          /\ tokens' = tokens /\ live' = live
          /\ Onward(w) \/ Ends(w) \/ \E q \in RequestStates : Through(w, q)
    BY <1>4, KeystoreSteps
  <2>2. w.by \in Requests /\ req \in [Requests -> RequestStates]
    BY DEF Wishes, Base, TypeOK
  <2>3. CASE Onward(w)
    <3>1. req' = req
      BY <2>3 DEF Onward
    <3> QED
      BY <1>2, <2>1, <3>1
  <2>4. CASE Ends(w)
    <3>1. PICK renewed \in BOOLEAN : Complete(w.by, renewed)
      BY <2>4 DEF Ends
    <3>2. inFlight = w.by /\ req[w.by].kind # "login"
      BY <2>4 DEF Ends
    <3> QED
      BY <1>2, <2>1, <2>2, <3>1, <3>2, CompleteIsHarmless
  <2>5. ASSUME NEW q \in RequestStates, Through(w, q) PROVE Distinct'
    <3>1. \A b \in Requests : req'[b] = IF b = w.by THEN q ELSE req[b]
      BY <2>2, <2>5 DEF Through
    <3>2. q.at # "answered" /\ q.pair \in {0, req[w.by].pair}
      BY <2>5 DEF Through
    <3>3. \A b \in Requests : /\ req'[b].pair \in {0, req[b].pair}
                              /\ Bearer(req'[b]) => req'[b] = req[b]
      BY <3>1, <3>2 DEF Bearer
    <3> QED
      BY <1>2, <2>1, <3>3
  <2> QED
    BY <2>1, <2>3, <2>4, <2>5
<1>5. CASE Kill
  <2>1. \A b \in Requests : ~Bearer(req'[b])
    BY <1>5, KillFields DEF Bearer, Pending
  <2> QED
    BY <2>1 DEF Distinct
<1>6. CASE Elsewhere
  <2>1. req' = req /\ (tokens' = tokens \/ Quiet)
    BY <1>6 DEF Elsewhere, NothingStored, ResetPassword, Pass, OrphanCommits
  <2> QED
    BY <1>2, <2>1
<1> QED
  BY <1>3, <1>4, <1>5, <1>6

LEMMA KeystoreKeepsExpected == ASSUME Base, Synced, Expected, Keystore PROVE Expected'
<1>1. PICK w \in Wishes :
        /\ keystore # <<>> /\ w = keystore[1] /\ Len(keystore) \in Nat \ {0}
        /\ UNCHANGED <<server, tokens, excused>>
        /\ Onward(w) \/ Ends(w) \/ \E q \in RequestStates : Through(w, q)
  BY KeystoreSteps
<1>2. w.by \in Requests /\ req \in [Requests -> RequestStates]
  BY DEF Wishes, Base, TypeOK
<1>3. live' = live /\ orphans' = orphans /\ tokens' = tokens /\ excused' = excused
  BY <1>1 DEF server
<1>4. req[w.by].at \in {"storing", "clearing"}
  BY <1>1 DEF Base, Queued
<1>5. keystore' = <<>> => disk' = tokens'
  BY KeystoreKeepsSync
<1> SUFFICES ASSUME ~excused' PROVE Expected'
  BY DEF Expected
<1>6. /\ orphans = {} /\ ~notice /\ \A b \in Requests : Sound(b)
      /\ Good(tokens.refresh)
  <2>1. ~excused
    BY <1>3
  <2> QED
    BY <2>1 DEF Expected
<1>7. ASSUME ~notice', \A b \in Requests : Sound(b)',
             \A b \in Requests : req[b].at = "refreshed" => req'[b] = req[b]
      PROVE  Expected'
  <2>1. Granted => Granted'
    BY <1>7 DEF Granted
  <2>2. Good(tokens.refresh)'
    BY <1>3, <1>6, <2>1 DEF Good
  <2>3. keystore' = <<>> => Good(disk.refresh)'
    BY <1>5, <2>2 DEF Good
  <2> QED
    BY <1>3, <1>6, <1>7, <2>2, <2>3 DEF Expected
<1>8. CASE Onward(w)
  <2>1. req' = req /\ notice' = notice /\ inFlight' = inFlight
    BY <1>8 DEF Onward, session
  <2>2. \A b \in Requests : Sound(b)'
    BY <1>3, <1>6, <2>1 DEF Sound
  <2> QED
    BY <1>6, <1>7, <2>1, <2>2
<1>9. CASE Ends(w)
  <2>1. PICK renewed \in BOOLEAN : Complete(w.by, renewed)
    BY <1>9 DEF Ends
  <2>2. /\ inFlight = w.by /\ req[w.by].kind # "login"
        /\ notice' = notice \/ req[w.by].at = "clearing"
    BY <1>9 DEF Ends, session
  <2>3. ~notice'
    BY <1>2, <1>6, <2>2 DEF Sound
  <2>4. /\ \A b \in Requests : Sound(b)'
        /\ \A b \in Requests : req[b].at = "refreshed" => req'[b] = req[b]
    BY <1>2, <1>3, <1>4, <1>6, <2>1, <2>2, CompleteIsHarmless
  <2> QED
    BY <1>7, <2>3, <2>4
<1>10. ASSUME NEW q \in RequestStates, Through(w, q) PROVE Expected'
  <2>1. \A b \in Requests : req'[b] = IF b = w.by THEN q ELSE req[b]
    BY <1>2, <1>10 DEF Through
  <2>2. /\ q.at \in {"raised", "start", "ended"}
        /\ inFlight' \in {0, inFlight}
    BY <1>10 DEF Through
  <2>3. ~notice'
    BY <1>6, <1>10 DEF Through
  <2>4. ASSUME NEW b \in Requests PROVE Sound(b)'
    <3>1. b # 0 /\ Sound(b)
      BY <1>6 DEF Requests
    <3>2. CASE b = w.by
      BY <2>1, <2>2, <3>2 DEF Sound, Holds
    <3>3. CASE b # w.by
      BY <1>3, <2>1, <2>2, <3>1, <3>3 DEF Sound
    <3> QED
      BY <3>2, <3>3
  <2>5. \A b \in Requests : req[b].at = "refreshed" => req'[b] = req[b]
    BY <1>4, <2>1
  <2> QED
    BY <1>7, <2>3, <2>4, <2>5
<1> QED
  BY <1>1, <1>8, <1>9, <1>10

LEMMA OthersKeepExpected ==
    ASSUME Base, Expected, (\E r \in Requests : RenewalLost(r)) \/ Kill \/ Elsewhere
    PROVE  Expected'
<1> USE DEF server, store, session, vars
<1> SUFFICES ASSUME ~excused' PROVE Expected'
  BY DEF Expected
<1>0. \A b \in Requests : b # 0
  BY DEF Requests
<1>1. ASSUME NEW r \in Requests, RenewalLost(r) PROVE Expected'
  <2>1. /\ req[r].kind # "login" /\ inFlight = r /\ Complete(r, FALSE)
        /\ req[r].at = "refreshed" /\ req[r].got = "lost"
    BY <1>1 DEF Base, Shape, Single, Renews, RenewalLost
  <2>2. /\ live' = live /\ orphans' = orphans /\ tokens' = tokens /\ disk' = disk
        /\ keystore' = keystore
    BY <1>1 DEF RenewalLost
  <2>3. notice' = notice
    BY <1>1 DEF RenewalLost
  <2>4. excused' = excused
    BY <1>1 DEF RenewalLost
  <2>5. /\ orphans = {} /\ ~notice /\ \A b \in Requests : Sound(b)
        /\ Good(tokens.refresh) /\ (keystore = <<>> => Good(disk.refresh))
    BY <2>4 DEF Expected
  <2>6. /\ \A b \in Requests : Sound(b)'
        /\ \A b \in Requests : b # r /\ req[b].at = "refreshed" => req'[b] = req[b]
    BY <2>1, <2>2, <2>5, CompleteIsHarmless
  <2>7. Granted => Granted'
    BY <2>1, <2>6 DEF Granted
  <2> QED
    BY <2>2, <2>3, <2>5, <2>6, <2>7 DEF Expected, Good
<1>2. CASE Kill
  <2>1. /\ ~excused /\ inFlight = 0 /\ keystore = <<>> /\ ~notice'
        /\ live' = live /\ disk' = disk /\ orphans' = orphans \cup Reading /\ tokens' = Pair(0)
    BY <1>2 DEF Kill
  <2>2. \A b \in Requests : ~Renews(req[b])
    BY <1>0, <2>1 DEF Base, Single
  <2>3. Reading = {} /\ ~Granted
    BY <2>2 DEF Reading, Granted, Renews
  <2>4. orphans = {} /\ Good(disk.refresh)
    BY <2>1 DEF Expected
  <2>5. ASSUME NEW b \in Requests PROVE Sound(b)'
    <3>1. req'[b].at \in {"unused", "ended"}
      BY <1>2, KillFields DEF Pending
    <3> QED
      BY <3>1 DEF Sound, Holds
  <2>6. Pair(0).refresh = 0
    BY PairTypes
  <2> QED
    BY <2>1, <2>3, <2>4, <2>5, <2>6 DEF Expected, Good
<1>3. CASE Elsewhere
  <2>1. ~ResetPassword
    BY DEF ResetPassword
  <2>2. excused' = excused
    BY <1>3, <2>1 DEF Elsewhere, NothingStored, Pass, OrphanCommits
  <2>3. /\ orphans = {} /\ ~notice /\ \A b \in Requests : Sound(b)
        /\ Good(tokens.refresh) /\ (keystore = <<>> => Good(disk.refresh))
    BY <2>2 DEF Expected
  <2>4. /\ req' = req /\ live' = live /\ orphans' = orphans /\ inFlight' = inFlight
        /\ keystore' = keystore /\ disk' = disk
        /\ tokens' = tokens \/ (tokens' = disk /\ Quiet)
    BY <1>3, <2>1, <2>3 DEF Elsewhere, NothingStored, Pass
  <2>5. notice' = notice
    BY <1>3, <2>1, <2>3 DEF Elsewhere, NothingStored, Pass
  <2>6. Good(tokens'.refresh)
    BY <2>3, <2>4, QuietQueue
  <2>7. Granted' = Granted /\ \A b \in Requests : Sound(b)'
    BY <2>3, <2>4 DEF Granted, Sound
  <2> QED
    BY <2>3, <2>4, <2>5, <2>6, <2>7 DEF Expected, Good
<1> QED
  BY <1>1, <1>2, <1>3

LEMMA ExpectedHolds == Spec => [](Distinct /\ Expected)
<1>1. Init => Distinct /\ Expected
  <2> SUFFICES ASSUME Init PROVE Distinct /\ Expected
    OBVIOUS
  <2>1. PICK n \in {0, 1} : issued = n /\ live = {p \in Pairs : p <= n} /\ disk = Pair(n)
    BY DEF Init
  <2>2. tokens = Pair(0) /\ req = [r \in Requests |-> Unused] /\ Unused.at = "unused"
    BY DEF Init, Unused, Blank
  <2>3. Pair(0).refresh = 0 /\ Pair(n).refresh = n /\ 1 \in Pairs
    BY <2>1, PairTypes DEF Pairs
  <2> HIDE DEF Unused
  <2>4. \A r \in Requests : req[r].at = "unused"
    BY <2>2
  <2>5. Distinct /\ \A r \in Requests : Sound(r)
    BY <2>4 DEF Distinct, Bearer, Sound, Holds
  <2>6. Good(tokens.refresh) /\ Good(disk.refresh)
    BY <2>1, <2>2, <2>3 DEF Good
  <2>7. orphans = {} /\ ~notice
    BY DEF Init
  <2> QED
    BY <2>5, <2>6, <2>7 DEF Expected
<1>2. Base /\ Synced /\ (Distinct /\ Expected) /\ [Next]_vars => (Distinct /\ Expected)'
  BY Steps, MovesKeepDistinct, MovesKeepExpected, OthersKeepDistinct, KeystoreKeepsExpected, OthersKeepExpected
<1> QED
  BY <1>1, <1>2, BaseHolds, SyncedHolds, PTL DEF Spec

(* The session is said to have expired only after a logout, a password reset, *)
(* a lost answer to a renewal or a kill in the middle of one               *)
(* (api_client.dart _refreshTokens).                                        *)
THEOREM OnlyForCause == Spec => []ExpiredOnlyForCause
<1>1. Expected => ExpiredOnlyForCause
  BY DEF Expected, ExpiredOnlyForCause
<1> QED
  BY <1>1, ExpectedHolds, PTL
=============================================================================

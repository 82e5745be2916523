------------------------------- MODULE SignIn -------------------------------
(***************************************************************************)
(* One device's session: the access and refresh tokens of the app and of   *)
(* the server.                                                             *)
(*                                                                         *)
(* ApiClient renews the pair before a request when the access token is     *)
(* about to lapse, or after a 401, and callers that arrive meanwhile wait  *)
(* for the same renewal; TokenStore keeps the pair in memory and writes it *)
(* to the keystore one key at a time; SessionController decides what the   *)
(* app shows.  The server replaces a refresh token by reading it, and      *)
(* later revoking it and adding its successor (services/auth.py).          *)
(*                                                                         *)
(* A pair is known by the order in which it was issued.  A step is the code*)
(* between two awaits.                                                     *)
(***************************************************************************)
EXTENDS Integers, Sequences

CONSTANTS
    MaxRequests,  \* how many calls the app makes, renewals apart
    MaxPairs,     \* how many token pairs the server issues
    MayLose,      \* TRUE: a call may fail on its way there or on its way back
    MayKill       \* TRUE: the app may be killed at any moment and started again

ASSUME MaxRequestsAssumption == MaxRequests \in Nat
ASSUME MaxPairsAssumption == MaxPairs \in Nat \ {0}
ASSUME FailuresAssumption == MayLose \in BOOLEAN /\ MayKill \in BOOLEAN

VARIABLES
    issued,    \* how many pairs the server has issued
    live,      \* refresh tokens that are not revoked
    signIn,    \* per pair: the login that its chain of renewals began with
    ending,    \* access tokens up to this one are within TokenStore._skew of expiry
    over,      \* access tokens up to this one have expired
    orphans,   \* refresh tokens read by a renewal that nobody waits for any more
    stray,     \* history: such a renewal was committed after all
    tokens,    \* TokenStore's _access, _refresh and _expiresAt
    disk,      \* the three keys of the keystore
    keystore,  \* what was asked of the keystore and not done yet
    inFlight,  \* _refreshInFlight: the request that is renewing the pair, or 0
    phase,     \* SessionController._phase
    notice,    \* _expiryNotice says that the session expired
    req,       \* per request: what it is and how far it got
    excused    \* something happened that may end a session without a logout

server == <<issued, live, signIn, ending, over, orphans, stray>>
store == <<tokens, disk, keystore>>
session == <<phase, notice>>
vars == <<server, store, inFlight, session, req, excused>>

Requests == 1..MaxRequests
Pairs == 1..MaxPairs

\* 0 stands for a token that is not there.
Keys == <<"access", "refresh", "expires">>
Tokens == [access : 0..MaxPairs, refresh : 0..MaxPairs, expires : 0..MaxPairs]
Pair(n) == [access |-> n, refresh |-> n, expires |-> n]

\* boot, entry and status all fetch the status: at startup, at the end of a
\* login, and when the person pulls to refresh.
StatusKinds == {"boot", "entry", "status"}
Kinds == StatusKinds \cup {"login", "logout", "call", "upload"}

Blank(at) ==
    [kind |-> "call", at |-> at, why |-> "before", retried |-> FALSE,
     access |-> 0, refresh |-> 0, got |-> "none", pair |-> 0]
Unused == Blank("unused")
Ended == Blank("ended")

Places == {"unused", "start", "waiting", "refreshing", "checked", "refreshed", "storing",
           "clearing", "sent", "answered", "raised", "ended"}

RequestStates ==
    [kind : Kinds, at : Places, why : {"before", "after"}, retried : BOOLEAN,
     access : 0..MaxPairs, refresh : 0..MaxPairs,
     got : {"none", "ok", "401", "lost"}, pair : 0..MaxPairs]

\* A key of the keystore is to get a value, on behalf of a request.
Wishes == [key : 1..3, value : 0..MaxPairs, by : Requests]

TypeOK ==
    /\ issued \in 0..MaxPairs
    /\ live \in SUBSET Pairs
    /\ signIn \in [Pairs -> 0..MaxRequests]
    /\ ending \in 0..issued /\ over \in 0..ending
    /\ orphans \in SUBSET Pairs /\ stray \in BOOLEAN
    /\ tokens \in Tokens /\ disk \in Tokens
    /\ keystore \in Seq(Wishes)
    /\ inFlight \in 0..MaxRequests
    /\ phase \in {"starting", "signedOut", "signedIn"}
    /\ notice \in BOOLEAN
    /\ req \in [Requests -> RequestStates]
    /\ excused \in BOOLEAN

\* The app starts, for the first time or with the pair of an earlier session.
Init ==
    \E n \in {0, 1} :
        /\ issued = n /\ live = {p \in Pairs : p <= n}
        /\ signIn = [p \in Pairs |-> 0]
        /\ ending = 0 /\ over = 0 /\ orphans = {} /\ stray = FALSE
        /\ tokens = Pair(0) /\ disk = Pair(n) /\ keystore = <<>>
        /\ inFlight = 0
        /\ phase = "starting" /\ notice = FALSE
        /\ req = [r \in Requests |-> Unused]
        /\ excused = FALSE

Pending(r) == req[r].at \notin {"unused", "ended"}
Quiet == \A r \in Requests : ~Pending(r)

NeedsRefresh ==
    \/ tokens.access = 0
    \/ tokens.expires # 0 /\ tokens.expires <= ending
HasSession == tokens.refresh # 0

Set(r, q) == req' = [req EXCEPT ![r] = q]
At(r, place) == req' = [req EXCEPT ![r].at = place]

\* The refresh tokens of the app's renewals that the server has read.
Reading == {req[r].pair : r \in {q \in Requests : req[q].at = "checked"}}

IsNext(r) == req[r].at = "unused" /\ \A q \in 1..(r - 1) : req[q].at # "unused"

-----------------------------------------------------------------------------
\* TokenStore: memory changes at once, the keystore key by key, each awaited.

Ask(r, k, value) == keystore' = Append(keystore, [key |-> k, value |-> value, by |-> r])

Save(r, n) ==
    /\ tokens' = Pair(n)
    /\ Ask(r, 1, n)

\* Mutant: only the expiry is deleted.
ClearExpiry(r) ==
    /\ tokens' = Pair(0)
    /\ Ask(r, 3, 0)

Clear(r) ==
    /\ tokens' = Pair(0)
    /\ Ask(r, 1, 0)

\* _refreshTokens completes its completer: those who waited go on, the ones that
\* were stopped by a 401 only when there is a new pair to try again with.
Resumed(q, renewed) ==
    IF q.why = "before" THEN [q EXCEPT !.at = "sent", !.access = tokens.access, !.pair = 0]
    ELSE [q EXCEPT !.at = IF renewed THEN "start" ELSE "answered",
                   !.retried = TRUE, !.why = "before", !.got = "401", !.pair = 0]

Complete(r, renewed) ==
    /\ inFlight' = 0
    /\ req' = [q \in Requests |->
                 IF q = r \/ req[q].at = "waiting" THEN Resumed(req[q], renewed) ELSE req[q]]

\* The last key of a save is written: a renewal is over, a login asks for the
\* status.
Stored(r) ==
    /\ IF req[r].kind = "login"
       THEN /\ Set(r, [Blank("start") EXCEPT !.kind = "entry"])
            /\ UNCHANGED inFlight
       ELSE Complete(r, TRUE)
    /\ UNCHANGED session

\* The last key is deleted, for a renewal that was refused, a logout, or a status
\* call that was not authenticated.
Cleared(r) ==
    \/ /\ inFlight = r
       /\ phase' = "signedOut" /\ notice' = TRUE
       /\ Complete(r, FALSE)
    \/ /\ inFlight # r
       /\ phase' = CASE req[r].kind \in {"logout", "boot"} -> "signedOut"
                     [] req[r].kind = "entry" -> "signedIn"
                     [] OTHER -> phase
       /\ notice' = (notice /\ req[r].kind # "logout")
       /\ Set(r, Ended)
       /\ UNCHANGED inFlight

\* The oldest wish is carried out and its caller goes on to its next key.  save
\* reads _expiresAt again for the last one: if it was cleared meanwhile, its !
\* raises, and no handler of _refreshTokens completes the completer.
Keystore ==
    /\ keystore # <<>>
    /\ LET wish == Head(keystore)
           r == wish.by
           rest == Tail(keystore)
           onward(value) == keystore' = Append(rest, [wish EXCEPT !.key = @ + 1, !.value = value])
       IN
       /\ disk' = [disk EXCEPT ![Keys[wish.key]] = wish.value]
       /\ \/ /\ wish.key < 3 /\ req[r].at = "clearing"
             /\ onward(0)
             /\ UNCHANGED <<inFlight, session, req>>
          \/ /\ wish.key < 3 /\ req[r].at = "storing"
             /\ wish.key = 1 \/ tokens.expires # 0
             /\ onward(IF wish.key = 1 THEN wish.value ELSE tokens.expires)
             /\ UNCHANGED <<inFlight, session, req>>
          \/ /\ wish.key = 2 /\ req[r].at = "storing" /\ tokens.expires = 0
             /\ keystore' = rest
             /\ inFlight' = IF inFlight = r THEN 0 ELSE inFlight
             /\ At(r, "raised")
             /\ UNCHANGED session
          \/ /\ wish.key = 3
             /\ keystore' = rest
             /\ \/ req[r].at = "storing" /\ Stored(r)
                \/ req[r].at = "clearing" /\ Cleared(r)
    /\ UNCHANGED <<server, tokens, excused>>

-----------------------------------------------------------------------------
\* What the person does.

Begin(r, q) ==
    /\ IsNext(r)
    /\ Set(r, q)
    /\ UNCHANGED <<server, store, inFlight, excused>>

\* bootstrap: the stored pair is read, and the status call is to prove it.
Bootstrap(r) ==
    /\ phase = "starting" /\ Quiet
    /\ tokens' = disk
    /\ \/ /\ disk.refresh = 0
          /\ phase' = "signedOut"
          /\ UNCHANGED req
       \/ /\ disk.refresh # 0
          /\ IsNext(r) /\ Set(r, [Blank("start") EXCEPT !.kind = "boot"])
          /\ UNCHANGED phase
    /\ UNCHANGED <<server, disk, keystore, inFlight, notice, excused>>

\* login and register, from a form that takes one at a time.
Login(r) ==
    /\ phase = "signedOut"
    /\ \A q \in Requests : Pending(q) => req[q].kind \notin {"login", "entry"}
    /\ Begin(r, [Blank("sent") EXCEPT !.kind = "login"])
    /\ notice' = FALSE
    /\ UNCHANGED phase

\* An edit, a JSON call or a pull to refresh.
Call(r) ==
    /\ phase = "signedIn"
    /\ \E kind \in {"call", "upload", "status"} :
          Begin(r, [Blank("start") EXCEPT !.kind = kind])
    /\ UNCHANGED session

\* logout keeps the refresh token it found, and has nothing to send without one.
Logout(r) ==
    /\ phase = "signedIn"
    /\ IsNext(r)
    /\ IF HasSession
       THEN /\ Set(r, [Blank("start") EXCEPT !.kind = "logout", !.refresh = tokens.refresh])
            /\ UNCHANGED store
       ELSE /\ Set(r, [Blank("clearing") EXCEPT !.kind = "logout"])
            /\ Clear(r)
            /\ UNCHANGED disk
    /\ UNCHANGED <<server, inFlight, session, excused>>

\* The process is gone: the keystore keeps what was written so far, and the server
\* goes on with what it has read.
Kill ==
    /\ MayKill
    /\ phase # "starting" \/ tokens # Pair(0)
    /\ tokens' = Pair(0)
    /\ keystore' = <<>>
    /\ inFlight' = 0
    /\ phase' = "starting" /\ notice' = FALSE
    /\ req' = [r \in Requests |-> IF Pending(r) THEN Ended ELSE req[r]]
    /\ excused' = (excused \/ inFlight # 0 \/ keystore # <<>>)
    /\ orphans' = orphans \cup Reading
    /\ UNCHANGED <<issued, live, signIn, ending, over, stray, disk>>

-----------------------------------------------------------------------------
\* ApiClient.

\* Mutant: every caller renews on its own.
RefreshAlone(r, why) ==
    /\ req' = [req EXCEPT ![r].at = "refreshing", ![r].why = why,
                          ![r].pair = tokens.refresh]
    /\ inFlight' = r

\* _refreshTokens: the first caller asks the server, the others wait for it.
RefreshTokens(r, why) ==
    \/ /\ inFlight = 0
       /\ req' = [req EXCEPT ![r].at = "refreshing", ![r].why = why,
                             ![r].pair = tokens.refresh]
       /\ inFlight' = r
    \/ /\ inFlight # 0
       /\ req' = [req EXCEPT ![r].at = "waiting", ![r].why = why]
       /\ UNCHANGED inFlight

\* _onRequest
OnRequest(r) ==
    /\ req[r].at = "start"
    /\ \/ /\ NeedsRefresh /\ HasSession
          /\ RefreshTokens(r, "before")
       \/ /\ ~(NeedsRefresh /\ HasSession)
          /\ Set(r, [req[r] EXCEPT !.at = "sent", !.access = tokens.access])
          /\ UNCHANGED inFlight
    /\ UNCHANGED <<server, store, session, excused>>

\* _onError, when a 401 is worth another try: not for an upload, whose file has
\* been read, nor for a call that carries no token.
Retriable(r) ==
    /\ req[r].at = "answered" /\ req[r].got = "401"
    /\ ~req[r].retried
    /\ req[r].kind \notin {"upload", "login"}
    /\ HasSession

OnError(r) ==
    /\ Retriable(r)
    /\ RefreshTokens(r, "after")
    /\ UNCHANGED <<server, store, session, excused>>

\* Mutant: a renewal that fails leaves its waiters where they are.
RefreshFailsAlone(r) ==
    /\ req[r].at = "refreshed"
    /\ \/ /\ req[r].got = "ok"
          /\ Save(r, req[r].pair) /\ At(r, "storing")
          /\ UNCHANGED inFlight
       \/ /\ req[r].got = "401"
          /\ Clear(r) /\ At(r, "clearing")
          /\ UNCHANGED inFlight
       \/ /\ req[r].got = "lost"
          /\ inFlight' = 0
          /\ Set(r, Resumed(req[r], FALSE))
          /\ UNCHANGED <<tokens, keystore>>
    /\ UNCHANGED <<server, disk, session, excused>>

\* The answer to a renewal: a new pair, a refusal that ends the session, or
\* anything else, which does not.
RefreshLands(r) ==
    /\ req[r].at = "refreshed"
    /\ \/ /\ req[r].got = "ok"
          /\ Save(r, req[r].pair) /\ At(r, "storing")
          /\ UNCHANGED inFlight
       \/ /\ req[r].got = "401"
          /\ Clear(r) /\ At(r, "clearing")
          /\ UNCHANGED inFlight
       \/ /\ req[r].got = "lost"
          /\ Complete(r, FALSE)
          /\ UNCHANGED <<tokens, keystore>>
    /\ UNCHANGED <<server, disk, session, excused>>

\* Any other answer, where its caller awaits it.
Lands(r) ==
    /\ req[r].at = "answered" /\ ~Retriable(r)
    /\ LET kind == req[r].kind
           got == req[r].got IN
       \/ /\ kind = "login" /\ got = "ok"
          /\ Save(r, req[r].pair) /\ At(r, "storing")
          /\ UNCHANGED phase
       \/ /\ kind = "logout" \/ (kind \in StatusKinds /\ got = "401")
          /\ Clear(r) /\ At(r, "clearing")
          /\ UNCHANGED phase
       \/ /\ kind \in StatusKinds /\ got # "401"
          /\ phase' = CASE kind = "entry" -> "signedIn"
                        [] kind = "boot" -> IF got = "ok" THEN "signedIn" ELSE "signedOut"
                        [] OTHER -> phase
          /\ Set(r, Ended)
          /\ UNCHANGED <<tokens, keystore>>
       \/ /\ kind \in {"call", "upload"} \/ (kind = "login" /\ got # "ok")
          /\ Set(r, Ended)
          /\ UNCHANGED <<tokens, keystore, phase>>
    /\ UNCHANGED <<server, disk, inFlight, notice, excused>>

-----------------------------------------------------------------------------
\* The server, the network and time.

Answer(r, got, n) ==
    Set(r, [req[r] EXCEPT !.at = "answered", !.access = 0, !.got = got, !.pair = n])

IssueTokens(chain) ==
    /\ issued < MaxPairs
    /\ issued' = issued + 1
    /\ signIn' = [signIn EXCEPT ![issued + 1] = chain]

\* login: a pair that begins a chain of its own.
LoginServed(r) ==
    /\ req[r].at = "sent" /\ req[r].kind = "login"
    /\ IssueTokens(r)
    /\ live' = live \cup {issued + 1}
    /\ Answer(r, "ok", issued + 1)
    /\ UNCHANGED <<ending, over, orphans, stray, store, inFlight, session, excused>>

\* logout asks for no access token; a token already revoked is no error.
LogoutServed(r) ==
    /\ req[r].at = "sent" /\ req[r].kind = "logout"
    /\ live' = live \ {req[r].refresh}
    /\ excused' = TRUE
    /\ Answer(r, "ok", 0)
    /\ UNCHANGED <<issued, signIn, ending, over, orphans, stray, store, inFlight, session>>

\* Everything else needs an access token that has not expired.
Served(r) ==
    /\ req[r].at = "sent" /\ req[r].kind \notin {"login", "logout"}
    /\ LET authentic == req[r].access > over
       IN  Answer(r, IF authentic THEN "ok" ELSE "401", 0)
    /\ UNCHANGED <<server, store, inFlight, session, excused>>

\* Mutant: a token that was revoked is as good as another.
RotateReadsAny(r) ==
    /\ req[r].at = "refreshing"
    /\ At(r, "checked")
    /\ UNCHANGED <<server, store, inFlight, session, excused>>

\* rotate_refresh_token reads the token.
RotateReads(r) ==
    /\ req[r].at = "refreshing"
    /\ IF req[r].pair \in live THEN At(r, "checked")
       ELSE Set(r, [req[r] EXCEPT !.at = "refreshed", !.got = "401", !.pair = 0])
    /\ UNCHANGED <<server, store, inFlight, session, excused>>

\* Mutant: the token that is replaced is not revoked.
RotateKeepsOld(r) ==
    /\ req[r].at = "checked"
    /\ IssueTokens(signIn[req[r].pair])
    /\ live' = live \cup {issued + 1}
    /\ Set(r, [req[r] EXCEPT !.at = "refreshed", !.got = "ok", !.pair = issued + 1])
    /\ UNCHANGED <<ending, over, orphans, stray, store, inFlight, session, excused>>

\* The token is revoked, its successor added, and the two are committed.
RotateCommits(r) ==
    /\ req[r].at = "checked"
    /\ IssueTokens(signIn[req[r].pair])
    /\ live' = (live \ {req[r].pair}) \cup {issued + 1}
    /\ Set(r, [req[r] EXCEPT !.at = "refreshed", !.got = "ok", !.pair = issued + 1])
    /\ UNCHANGED <<ending, over, orphans, stray, store, inFlight, session, excused>>

\* The same for a renewal whose caller is gone.
OrphanCommits(p) ==
    /\ p \in orphans
    /\ IssueTokens(signIn[p])
    /\ live' = (live \ {p}) \cup {issued + 1}
    /\ orphans' = orphans \ {p}
    /\ stray' = TRUE
    /\ UNCHANGED <<ending, over, store, inFlight, session, req, excused>>

\* An answer that is an error other than 401, or 401 to a wrong password.
ServerFails(r) ==
    /\ \/ /\ req[r].at \in {"refreshing", "checked"}
          /\ Set(r, [req[r] EXCEPT !.at = "refreshed", !.got = "lost", !.pair = 0])
       \/ /\ req[r].at = "sent"
          /\ Answer(r, "lost", 0)
    /\ UNCHANGED <<server, store, inFlight, session, excused>>

\* The app no longer waits for a renewal (receiveTimeout); the server goes on.
Abandon(r) ==
    /\ MayLose
    /\ req[r].at = "checked"
    /\ orphans' = orphans \cup {req[r].pair}
    /\ Set(r, [req[r] EXCEPT !.at = "refreshed", !.got = "lost", !.pair = 0])
    /\ excused' = TRUE
    /\ UNCHANGED <<issued, live, signIn, ending, over, stray, store, inFlight, session>>

\* A call that changed something on the server but whose answer never comes.
Lose(r) ==
    /\ MayLose
    /\ req[r].got = "ok"
    /\ req[r].at = "refreshed" \/ (req[r].at = "answered" /\ req[r].kind \in {"login", "logout"})
    /\ req' = [req EXCEPT ![r].got = "lost", ![r].pair = 0]
    /\ excused' = (excused \/ req[r].at = "refreshed")
    /\ UNCHANGED <<server, store, inFlight, session>>

\* reset_password from another device.
ResetPassword ==
    /\ live # {}
    /\ live' = {}
    /\ excused' = TRUE
    /\ UNCHANGED <<issued, signIn, ending, over, orphans, stray, store, inFlight, session, req>>

\* Access tokens lapse in the order they were issued.
Pass ==
    /\ \/ ending < issued /\ ending' = ending + 1 /\ UNCHANGED over
       \/ over < ending /\ over' = over + 1 /\ UNCHANGED ending
    /\ UNCHANGED <<issued, live, signIn, orphans, stray, store, inFlight, session, req, excused>>

-----------------------------------------------------------------------------
Act(r) == Bootstrap(r) \/ Login(r) \/ Call(r) \/ Logout(r)

Progress(r) ==
    \/ OnRequest(r) \/ OnError(r) \/ RefreshLands(r) \/ Lands(r)
    \/ LoginServed(r) \/ LogoutServed(r) \/ Served(r)
    \/ RotateReads(r) \/ RotateCommits(r) \/ ServerFails(r)

Next ==
    \/ \E r \in Requests : Act(r) \/ Progress(r) \/ Abandon(r) \/ Lose(r)
    \/ \E p \in orphans : OrphanCommits(p)
    \/ Keystore \/ Kill \/ ResetPassword \/ Pass

Spec == Init /\ [][Next]_vars

\* Calls are answered or time out, and the event loop and the keystore go on.
FairSpec == Spec /\ WF_vars(Keystore \/ \E r \in Requests : Progress(r))

-----------------------------------------------------------------------------
\* Properties.

\* The notice "Your session expired" tells the truth: however many calls renew the
\* pair at once, the app is not thrown out by a token it had replaced itself, only
\* after a logout, a password reset, a lost answer to a renewal or a kill in the
\* middle of one (_refreshTokens).
ExpiredOnlyForCause == notice => excused

\* "Refreshing marks the old row revoked and issues a new one": of the tokens that
\* stem from one login at most one is live, although the server reads and revokes
\* in two steps and the app may call from several places, until a renewal that the
\* app gave up on was committed behind its back (rotate_refresh_token,
\* _refreshTokens).
OneLiveTokenPerSignIn ==
    ~stray => \A m, n \in live : signIn[m] = signIn[n] => m = n

\* A login that a logout or a password reset has ended stays ended: of its tokens
\* none can be used again, unless a renewal had read one before it was revoked
\* (reset_password, revoke_refresh_token, rotate_refresh_token).
Usable == live \cup orphans \cup Reading
HasEnded(chain) ==
    /\ \E n \in 1..issued : signIn[n] = chain
    /\ \A n \in Usable : signIn[n] # chain
EndedStaysEnded == [][\A n \in Usable' \ Usable : ~HasEnded(signIn'[n])]_vars

\* Once the keystore has caught up it holds the very pair the app uses, whichever
\* saves and clears overlapped, so that a restart continues the same session
\* (TokenStore.save, clear, load).
KeystoreMatchesMemory == keystore = <<>> /\ phase # "starting" => disk = tokens

\* Every caller that waits for a renewal is let go, whether it was granted, refused
\* or lost, as long as nobody clears the tokens while save is writing them
\* (_refreshTokens' completer).
Raised == \E r \in Requests : req[r].at = "raised"
EveryRequestEnds == [](~Raised) => []<>Quiet
=============================================================================

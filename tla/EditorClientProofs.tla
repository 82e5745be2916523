------------------------ MODULE EditorClientProofs ------------------------
(***************************************************************************)
(* What EditorClient guarantees for any number of calls and pages, with    *)
(* answers that land in any order or never, and a server that goes on with *)
(* the calls the app gave up on.                                           *)
(***************************************************************************)
EXTENDS EditorClient, TLAPS

USE MaxCallsAssumption, PagesAssumption

Sessions == [Calls -> [rev : Nat, open : BOOLEAN]]

\* The app waits for it; the app or the server is not done with it.
OnItsWay(r) == r.at \in {"sent", "answered"}
Alive(r) == OnItsWay(r) \/ UnderWay(r)

\* Documents whose opening call is over for the app, that is, that can be spoken of.
Opened == {d \in Calls : call[d].at # "unused" /\ ~(OnItsWay(call[d]) /\ call[d].kind = "open")}

\* What holds of a call that is r, whatever the others are.
Names(r, c, opened) ==
    Alive(r) => r.at # "unused" /\ IF r.kind = "open" THEN r.id = c ELSE r.id \in opened
Recent(r, sessions, marked) ==
    Alive(r) /\ r.kind # "open" /\ r.id \notin marked =>
        /\ r.rev <= sessions[r.id].rev
        /\ r.got <= sessions[r.id].rev
        /\ r.ok /\ r.kind = "render" => r.rev <= r.got

CallsNamed == \A c \in Calls : Names(call[c], c, Opened)
CallsRecent == \A c \in Calls : Recent(call[c], server, crossed)
HeldNamed ==
    Held => /\ document.id \in Opened
            /\ document.id \notin crossed => document.rev <= server[document.id].rev
SpentNamed == spent \subseteq Opened
OneAwaited == \A b, c \in Writing : b = c
WritesUnspent == \A c \in Writing : call[c].id \notin spent
UnmountedIsQuiet == ~mounted => Quiet
FrameFollows ==
    mounted /\ Held /\ image # NoImage /\ ~IsStale =>
        \/ /\ image.id = document.id
           /\ document.id \notin crossed => image.rev >= document.rev
        \/ \E c \in Pending : call[c].kind = "render" /\ call[c].id = document.id

IInv ==
    /\ TypeOK
    /\ CallsNamed /\ CallsRecent /\ HeldNamed /\ SpentNamed /\ WritesUnspent
    /\ UnmountedIsQuiet
    /\ OneAwaited /\ LockedOnlyWhileWorking /\ SavedDocumentDropped
    /\ FrameFollows

-----------------------------------------------------------------------------
LEMMA InitInv == Init => IInv
<1> SUFFICES ASSUME Init PROVE IInv
  OBVIOUS
<1> USE DEF Init, None, NoImage, Behind, Unused, Blank
<1>1. TypeOK
  <2>1. 0 \in 0..MaxCalls /\ 0 \in 0..Pages /\ 1 \in 1..Pages
    OBVIOUS
  <2>2. Unused \in CallStates
    BY <2>1 DEF CallStates, Kinds
  <2>3. call \in [Calls -> CallStates] /\ server \in [Calls -> [rev : Nat, open : BOOLEAN]]
    BY <2>2
  <2> QED
    BY <2>1, <2>3 DEF TypeOK
<1>2. Pending = {} /\ ~Held
  BY DEF Pending, Held
<1>3. \A c \in Calls : ~Alive(call[c])
  BY DEF Alive, OnItsWay, UnderWay
<1>4. CallsNamed /\ CallsRecent
  BY <1>3 DEF CallsNamed, CallsRecent, Names, Recent
<1>5. Writing = {} /\ spent = {} /\ document.id \notin spent
  BY <1>2 DEF Writing
<1> QED
  BY <1>1, <1>2, <1>4, <1>5 DEF IInv, HeldNamed, SpentNamed, WritesUnspent, UnmountedIsQuiet, Quiet,
     OneAwaited, LockedOnlyWhileWorking, SavedDocumentDropped, FrameFollows

LEMMA Typed ==
    ASSUME IInv
    PROVE  /\ call \in [Calls -> CallStates] /\ server \in Sessions /\ crossed \subseteq Calls
           /\ document \in [id : 0..MaxCalls, rev : Nat] /\ page \in 1..Pages
           /\ image \in [id : 0..MaxCalls, page : 0..Pages, rev : Nat]
           /\ rendered \in Nat \cup {Behind} /\ spent \subseteq Calls /\ late \subseteq Calls
           /\ busy \in BOOLEAN /\ saving \in BOOLEAN /\ mounted \in BOOLEAN /\ broken \in BOOLEAN
           /\ view \in {"idle", "loading", "success", "failed"}
BY DEF IInv, TypeOK, Sessions

LEMMA EndedIs == Ended \in CallStates /\ Ended.at = "ended" /\ ~Alive(Ended)
BY DEF Ended, Blank, CallStates, Kinds, Alive, OnItsWay, UnderWay

\* What the app leaves behind is over for it, and asks what it asked.
LEMMA LeftBehindIs ==
    ASSUME NEW r \in CallStates
    PROVE  /\ LeftBehind(r) \in CallStates
           /\ LeftBehind(r).at = "ended"
           /\ ~OnItsWay(LeftBehind(r))
           /\ Alive(LeftBehind(r)) =>
                /\ UnderWay(r)
                /\ LeftBehind(r).kind = r.kind /\ LeftBehind(r).kind # "render"
                /\ LeftBehind(r).srv = r.srv /\ LeftBehind(r).id = r.id
                /\ LeftBehind(r).rev = r.rev /\ LeftBehind(r).got = r.got
<1>1. CASE UnderWay(r) /\ r.kind # "render"
  <2> DEFINE q == [r EXCEPT !.at = "ended"]
  <2>1. /\ q \in CallStates /\ q.at = "ended" /\ q.kind = r.kind /\ q.srv = r.srv
        /\ q.id = r.id /\ q.rev = r.rev /\ q.got = r.got
    BY DEF CallStates
  <2>2. LeftBehind(r) = q
    BY <1>1 DEF LeftBehind
  <2> HIDE DEF q
  <2> QED
    BY <1>1, <2>1, <2>2 DEF OnItsWay
<1>2. CASE ~(UnderWay(r) /\ r.kind # "render")
  <2>1. LeftBehind(r) = Ended
    BY <1>2 DEF LeftBehind
  <2> QED
    BY <2>1, EndedIs DEF Alive
<1> QED
  BY <1>1, <1>2

\* Call c becomes r and no other changes.
Becomes(c, r) ==
    /\ call' = [call EXCEPT ![c] = r]
    /\ r \in CallStates /\ r.at # "unused"
    /\ OnItsWay(r) /\ r.kind = "open" =>
         call[c].at = "unused" \/ (OnItsWay(call[c]) /\ call[c].kind = "open")

\* Documents stay opened, and the other calls are what they were.
LEMMA PendingStep ==
    ASSUME IInv, NEW c \in Calls, NEW r, Becomes(c, r)
    PROVE  /\ call' \in [Calls -> CallStates]
           /\ Pending' = IF OnItsWay(r) THEN Pending \cup {c} ELSE Pending \ {c}
           /\ Writing' = IF OnItsWay(r) /\ r.kind \in {"mutate", "save"}
                         THEN Writing \cup {c} ELSE Writing \ {c}
           /\ \A b \in Calls \ {c} : call'[b] = call[b]
           /\ call'[c] = r
           /\ Opened \subseteq Opened'
<1>1. \A b \in Calls : call'[b] = IF b = c THEN r ELSE call[b]
  BY Typed DEF Becomes
<1>2. call' \in [Calls -> CallStates]
  BY Typed DEF Becomes
<1>3. /\ Pending' = IF OnItsWay(r) THEN Pending \cup {c} ELSE Pending \ {c}
      /\ Writing' = IF OnItsWay(r) /\ r.kind \in {"mutate", "save"}
                    THEN Writing \cup {c} ELSE Writing \ {c}
  BY <1>1 DEF Pending, Writing, OnItsWay
<1>4. ASSUME NEW d \in Opened PROVE d \in Opened'
  <2>1. d \in Calls
    BY DEF Opened
  <2>2. CASE d = c
    BY <1>1, <2>1, <2>2 DEF Opened, Becomes
  <2>3. CASE d # c
    <3>1. call'[d] = call[d]
      BY <1>1, <2>1, <2>3
    <3> QED
      BY <2>1, <3>1 DEF Opened
  <2> QED
    BY <2>2, <2>3
<1> QED
  BY <1>1, <1>2, <1>3, <1>4

\* Revisions do not go down, but where one edit was stored over another.
Grown ==
    /\ server' \in Sessions
    /\ crossed \subseteq crossed'
    /\ \A d \in Calls : d \notin crossed' => server[d].rev <= server'[d].rev

LEMMA SameGrown == ASSUME IInv, UNCHANGED <<server, crossed>> PROVE Grown
<1>1. \A d \in Calls : server[d].rev \in Nat
  BY Typed DEF Sessions
<1> QED
  BY <1>1, Typed DEF Grown

\* A step that changes one call leaves what was known of the others.
LEMMA CallStep ==
    ASSUME IInv, NEW c \in Calls, NEW r, Becomes(c, r), Grown,
           Names(r, c, Opened'), Recent(r, server', crossed')
    PROVE  CallsNamed' /\ CallsRecent'
<1>1. /\ call' \in [Calls -> CallStates] /\ call'[c] = r /\ Opened \subseteq Opened'
      /\ \A b \in Calls \ {c} : call'[b] = call[b]
  BY PendingStep
<1>2. ASSUME NEW b \in Calls
      PROVE Names(call'[b], b, Opened') /\ Recent(call'[b], server', crossed')
  <2>1. CASE b = c
    BY <1>1, <2>1
  <2>2. CASE b # c
    <3>1. call'[b] = call[b] /\ call[b] \in CallStates
      BY <1>1, <2>2, Typed
    <3>2. Names(call[b], b, Opened) /\ Recent(call[b], server, crossed)
      BY DEF IInv, CallsNamed, CallsRecent
    <3>3. Names(call'[b], b, Opened')
      BY <1>1, <3>1, <3>2 DEF Names
    <3>4. CASE Alive(call[b]) /\ call[b].kind # "open" /\ call[b].id \notin crossed'
      <4>1. call[b].id \in Calls /\ call[b].id \notin crossed
        BY <3>2, <3>4 DEF Names, Opened, Grown
      <4>2. /\ server[call[b].id].rev \in Nat /\ server'[call[b].id].rev \in Nat
            /\ call[b].rev \in Nat /\ call[b].got \in Nat
            /\ server[call[b].id].rev <= server'[call[b].id].rev
        BY <3>1, <3>4, <4>1, Typed DEF CallStates, Sessions, Grown
      <4> QED
        BY <3>1, <3>2, <3>3, <3>4, <4>1, <4>2 DEF Recent
    <3> QED
      BY <3>1, <3>3, <3>4 DEF Recent
  <2> QED
    BY <2>1, <2>2
<1> QED
  BY <1>2 DEF CallsNamed, CallsRecent

\* The server, the network: what a call asks stays, so does whether the app waits
\* for it, and the screen has not moved.
LEMMA AnswerStep ==
    ASSUME IInv, NEW c \in Calls, NEW r, Becomes(c, r), Alive(call[c]),
           OnItsWay(r) <=> OnItsWay(call[c]),
           Alive(r) => r.kind = call[c].kind /\ r.id = call[c].id,
           Grown, crossed' \subseteq Calls, late' \subseteq Calls,
           Recent(r, server', crossed'),
           UNCHANGED <<shown, flags, mounted, spent, broken>>
    PROVE  IInv'
<1> USE DEF shown, flags
<1>1. /\ call' \in [Calls -> CallStates] /\ Opened \subseteq Opened'
      /\ call'[c] = r /\ \A b \in Calls \ {c} : call'[b] = call[b]
  BY PendingStep
<1>2. Names(call[c], c, Opened)
  BY DEF IInv, CallsNamed
<1>3. Names(r, c, Opened')
  BY <1>1, <1>2 DEF Names, Becomes
<1>4. CallsNamed' /\ CallsRecent'
  BY <1>3, CallStep
<1>5. TypeOK'
  BY <1>1, Typed DEF TypeOK, Grown, Sessions
<1>6. Pending' = Pending /\ Writing' = Writing
  BY PendingStep DEF Pending, Writing, OnItsWay, Alive
<1>7. \A b \in Pending : call'[b].kind = call[b].kind /\ call'[b].id = call[b].id
  BY <1>1 DEF Pending, Alive, OnItsWay
<1>8. HeldNamed'
  <2> SUFFICES ASSUME Held
      PROVE /\ document.id \in Opened'
            /\ document.id \notin crossed' => document.rev <= server'[document.id].rev
    BY DEF HeldNamed, Held
  <2>1. /\ document.id \in Opened /\ document.id \in Calls
        /\ document.id \notin crossed => document.rev <= server[document.id].rev
    BY DEF IInv, HeldNamed, Opened
  <2>2. /\ document.rev \in Nat /\ server[document.id].rev \in Nat
        /\ server'[document.id].rev \in Nat
        /\ document.id \notin crossed' => server[document.id].rev <= server'[document.id].rev
    BY <2>1, Typed DEF Grown, Sessions
  <2> QED
    BY <1>1, <2>1, <2>2 DEF Grown
<1>9. SpentNamed' /\ SavedDocumentDropped'
  BY <1>1 DEF IInv, SpentNamed, SavedDocumentDropped
<1>10. WritesUnspent' /\ OneAwaited'
  BY <1>6, <1>7 DEF IInv, WritesUnspent, OneAwaited, Writing
<1>11. UnmountedIsQuiet'
  BY <1>6 DEF IInv, UnmountedIsQuiet, Quiet
<1>12. LockedOnlyWhileWorking'
  BY <1>6, <1>7 DEF IInv, LockedOnlyWhileWorking, Awaited
<1>13. FrameFollows'
  BY <1>6, <1>7 DEF IInv, FrameFollows, Held, IsStale, Grown
<1> QED
  BY <1>4, <1>5, <1>8, <1>9, <1>10, <1>11, <1>12, <1>13 DEF IInv

\* A call the server is done with: the app has its answer, or is no longer there.
LEMMA SettleStep ==
    ASSUME IInv, NEW c \in Calls, UnderWay(call[c]), NEW ok \in BOOLEAN, NEW n \in Nat,
           Settle(c, ok, n)
    PROVE  \E r :
             /\ Becomes(c, r)
             /\ ~UnderWay(r)
             /\ OnItsWay(r) <=> OnItsWay(call[c])
             /\ Alive(r) =>
                  /\ r.kind = call[c].kind /\ r.id = call[c].id /\ r.rev = call[c].rev
                  /\ \/ r.got = n /\ r.ok = ok
                     \/ r.got = call[c].got /\ r.ok = call[c].ok
<1>1. call[c] \in CallStates /\ call[c].at # "unused"
  BY Typed DEF IInv, CallsNamed, Names, Alive
<1>2. CASE call[c].at = "sent"
  <2> DEFINE r == [call[c] EXCEPT !.at = "answered", !.srv = "done", !.ok = ok, !.got = n]
  <2>1. /\ r \in CallStates /\ r.at = "answered" /\ r.srv = "done" /\ r.kind = call[c].kind
        /\ r.id = call[c].id /\ r.rev = call[c].rev /\ r.got = n /\ r.ok = ok
    BY <1>1 DEF CallStates
  <2>2. call' = [call EXCEPT ![c] = r]
    BY <1>2, Typed DEF Settle, Told
  <2> HIDE DEF r
  <2>3. Becomes(c, r)
    BY <1>2, <2>1, <2>2 DEF Becomes, OnItsWay
  <2> QED
    BY <1>2, <2>1, <2>3 DEF OnItsWay, UnderWay
<1>3. CASE call[c].at = "answered"
  <2> DEFINE r == [call[c] EXCEPT !.srv = "done"]
  <2>1. /\ r \in CallStates /\ r.at = "answered" /\ r.srv = "done" /\ r.kind = call[c].kind
        /\ r.id = call[c].id /\ r.rev = call[c].rev /\ r.got = call[c].got /\ r.ok = call[c].ok
    BY <1>1, <1>3 DEF CallStates
  <2>2. call' = [call EXCEPT ![c] = r]
    BY <1>3, Typed DEF Settle, Told
  <2> HIDE DEF r
  <2>3. Becomes(c, r)
    BY <1>3, <2>1, <2>2 DEF Becomes, OnItsWay
  <2> QED
    BY <1>3, <2>1, <2>3 DEF OnItsWay, UnderWay
<1>4. CASE call[c].at = "ended"
  <2>1. call' = [call EXCEPT ![c] = Ended]
    BY <1>4, Typed DEF Settle, Told
  <2>2. Becomes(c, Ended) /\ ~UnderWay(Ended) /\ ~OnItsWay(Ended) /\ ~Alive(Ended)
    BY <2>1, EndedIs DEF Becomes, Alive
  <2>3. ~OnItsWay(call[c])
    BY <1>4 DEF OnItsWay
  <2> QED
    BY <2>2, <2>3
<1> QED
  BY <1>1, <1>2, <1>3, <1>4 DEF CallStates

\* Whatever the server answers: the session of an edit has the revision it answers,
\* a render shows at least what was asked for.
LEMMA SettleKeeps ==
    ASSUME IInv, NEW c \in Calls, UnderWay(call[c]), NEW ok \in BOOLEAN, NEW n \in Nat,
           Settle(c, ok, n),
           Grown, crossed' \subseteq Calls, late' \subseteq Calls,
           call[c].kind # "open" /\ call[c].id \notin crossed' => n <= server'[call[c].id].rev,
           ok /\ call[c].kind = "render" /\ call[c].id \notin crossed' => call[c].rev <= n,
           UNCHANGED <<shown, flags, mounted, spent, broken>>
    PROVE  IInv'
<1>1. PICK r :
        /\ Becomes(c, r)
        /\ ~UnderWay(r)
        /\ OnItsWay(r) <=> OnItsWay(call[c])
        /\ Alive(r) =>
             /\ r.kind = call[c].kind /\ r.id = call[c].id /\ r.rev = call[c].rev
             /\ \/ r.got = n /\ r.ok = ok
                \/ r.got = call[c].got /\ r.ok = call[c].ok
  BY SettleStep
<1>2. Alive(call[c]) /\ Names(call[c], c, Opened) /\ Recent(call[c], server, crossed)
  BY DEF Alive, IInv, CallsNamed, CallsRecent
<1>3. Recent(r, server', crossed')
  <2> SUFFICES ASSUME Alive(r), r.kind # "open", r.id \notin crossed'
               PROVE  /\ r.rev <= server'[r.id].rev /\ r.got <= server'[r.id].rev
                      /\ r.ok /\ r.kind = "render" => r.rev <= r.got
    BY DEF Recent
  <2>1. r.id = call[c].id /\ call[c].id \in Calls /\ r.kind = call[c].kind /\ r.rev = call[c].rev
    BY <1>1, <1>2 DEF Names, Opened
  <2>2. /\ call[c].rev <= server[r.id].rev /\ call[c].got <= server[r.id].rev
        /\ call[c].ok /\ call[c].kind = "render" => call[c].rev <= call[c].got
    BY <1>2, <2>1 DEF Recent, Grown
  <2>3. /\ server[r.id].rev \in Nat /\ server'[r.id].rev \in Nat /\ call[c] \in CallStates
        /\ server[r.id].rev <= server'[r.id].rev
    BY <2>1, Typed DEF Sessions, Grown
  <2>4. call[c].rev \in Nat /\ call[c].got \in Nat
    BY <2>3 DEF CallStates
  <2> QED
    BY <1>1, <2>1, <2>2, <2>3, <2>4
<1> QED
  BY <1>1, <1>2, <1>3, AnswerStep

LEMMA RefuseKeeps == ASSUME IInv, NEW c \in Calls, Refuse(c) PROVE IInv'
<1>1. UnderWay(call[c]) /\ Settle(c, FALSE, 0)
  BY DEF Refuse
<1>2. UNCHANGED <<shown, flags, mounted, server, spent, crossed, late, broken>>
  BY DEF Refuse, history
<1>3. Grown /\ crossed' \subseteq Calls /\ late' \subseteq Calls
  BY <1>2, SameGrown, Typed
<1>4. call[c].kind # "open" => 0 <= server'[call[c].id].rev
  <2>1. Names(call[c], c, Opened)
    BY DEF IInv, CallsNamed
  <2>2. call[c].kind # "open" => call[c].id \in Calls
    BY <1>1, <2>1 DEF Names, Alive, Opened
  <2> QED
    BY <1>3, <2>2 DEF Grown, Sessions
<1> QED
  BY <1>1, <1>2, <1>3, <1>4, SettleKeeps

LEMMA ServeKeeps == ASSUME IInv, NEW c \in Calls, Serve(c) PROVE IInv'
<1> DEFINE d == call[c].id
<1>1. call[c] \in CallStates /\ server \in Sessions /\ crossed \subseteq Calls /\ late \subseteq Calls
  BY Typed
<1>2. call[c].srv \in {"coming", "loaded"} /\ UnderWay(call[c])
  BY DEF Serve, UnderWay
<1>3. d \in Calls
  <2>1. Names(call[c], c, Opened)
    BY DEF IInv, CallsNamed
  <2> QED
    BY <1>2, <2>1 DEF Names, Opened, Alive
<1>4. /\ server[d].rev \in Nat /\ server[d].open \in BOOLEAN
      /\ server[d] = [rev |-> server[d].rev, open |-> server[d].open]
      /\ call[c].got \in Nat /\ call[c].rev \in Nat
  BY <1>1, <1>3 DEF Sessions, CallStates
<1>5. UNCHANGED <<shown, flags, mounted, spent, late, broken>>
  BY DEF Serve
<1>6. ASSUME NEW s \in [rev : Nat, open : BOOLEAN],
             server' = [server EXCEPT ![d] = s],
             crossed \subseteq crossed', crossed' \subseteq Calls,
             d \notin crossed' => server[d].rev <= s.rev
      PROVE  Grown /\ server'[d] = s
  <2>1. server' \in Sessions /\ server'[d] = s
    BY <1>1, <1>3, <1>6 DEF Sessions
  <2>2. ASSUME NEW b \in Calls, b \notin crossed' PROVE server[b].rev <= server'[b].rev
    <3>1. server[b].rev \in Nat
      BY <1>1 DEF Sessions
    <3>2. CASE b = d
      BY <1>6, <2>1, <2>2, <3>2
    <3>3. CASE b # d
      BY <1>1, <1>6, <3>1, <3>3 DEF Sessions
    <3> QED
      BY <3>2, <3>3
  <2> QED
    BY <1>6, <2>1, <2>2 DEF Grown
<1>7. ASSUME NEW s \in [rev : Nat, open : BOOLEAN], NEW m \in Nat,
             Settle(c, TRUE, m),
             server' = [server EXCEPT ![d] = s],
             crossed \subseteq crossed', crossed' \subseteq Calls,
             d \notin crossed' => server[d].rev <= s.rev,
             call[c].kind # "open" => m = s.rev,
             call[c].kind = "render" => s.rev = server[d].rev
      PROVE  IInv'
  <2>1. Grown /\ server'[d] = s
    BY <1>6, <1>7
  <2>2. call[c].kind = "render" /\ d \notin crossed' => call[c].rev <= m
    <3>1. Recent(call[c], server, crossed)
      BY DEF IInv, CallsRecent
    <3> QED
      BY <1>2, <1>7, <3>1 DEF Recent, Alive
  <2>3. s.rev <= s.rev
    OBVIOUS
  <2> QED
    BY <1>1, <1>2, <1>5, <1>7, <2>1, <2>2, <2>3, SettleKeeps
<1> DEFINE begun == [server[d] EXCEPT !.open = TRUE]
           ended == [server[d] EXCEPT !.open = FALSE]
           grown == [server[d] EXCEPT !.rev = call[c].got + 1]
<1>8. /\ server[d] \in [rev : Nat, open : BOOLEAN] /\ server[d].rev <= server[d].rev
      /\ begun \in [rev : Nat, open : BOOLEAN] /\ begun.rev = server[d].rev
      /\ ended \in [rev : Nat, open : BOOLEAN] /\ ended.rev = server[d].rev
      /\ grown \in [rev : Nat, open : BOOLEAN] /\ grown.rev = call[c].got + 1
  <2>1. server[d] \in [rev : Nat, open : BOOLEAN] /\ server[d].rev <= server[d].rev
    BY <1>1, <1>3, <1>4 DEF Sessions
  <2>2. begun \in [rev : Nat, open : BOOLEAN] /\ begun.rev = server[d].rev
    BY <2>1
  <2>3. ended \in [rev : Nat, open : BOOLEAN] /\ ended.rev = server[d].rev
    BY <2>1
  <2>4. grown \in [rev : Nat, open : BOOLEAN] /\ grown.rev = call[c].got + 1
    BY <1>4, <2>1
  <2> QED
    BY <2>1, <2>2, <2>3, <2>4
<1> HIDE DEF begun, ended, grown
<1>9. CASE call[c].kind = "open"
  <2>1. server' = [server EXCEPT ![d] = begun] /\ Settle(c, TRUE, 0) /\ crossed' = crossed
    BY <1>1, <1>3, <1>9 DEF Serve, Sessions, begun
  <2> QED
    BY <1>1, <1>7, <1>8, <1>9, <2>1
<1>10. CASE call[c].kind = "mutate"
  <2>1. /\ server' = [server EXCEPT ![d] = grown] /\ Settle(c, TRUE, call[c].got + 1)
        /\ crossed' = IF server[d].rev = call[c].got THEN crossed ELSE crossed \cup {d}
    BY <1>1, <1>3, <1>10 DEF Serve, Sessions, grown
  <2>2. d \notin crossed' => server[d].rev <= grown.rev
    BY <1>4, <1>8, <2>1
  <2>3. crossed \subseteq crossed' /\ crossed' \subseteq Calls
    BY <1>1, <1>3, <2>1
  <2>4. call[c].got + 1 \in Nat
    BY <1>4
  <2> QED
    BY <1>7, <1>8, <1>10, <2>1, <2>2, <2>3, <2>4
<1>11. CASE call[c].kind = "render"
  <2>1. server' = server /\ Settle(c, TRUE, server[d].rev) /\ crossed' = crossed
    BY <1>11 DEF Serve
  <2>2. server' = [server EXCEPT ![d] = server[d]]
    BY <1>1, <1>3, <2>1 DEF Sessions
  <2> QED
    BY <1>1, <1>4, <1>7, <1>8, <1>11, <2>1, <2>2
<1>12. CASE call[c].kind \in {"save", "discard"}
  <2>1. /\ server' = [server EXCEPT ![d] = ended] /\ Settle(c, TRUE, server[d].rev)
        /\ crossed' = crossed
    BY <1>1, <1>3, <1>12 DEF Serve, Sessions, ended
  <2> QED
    BY <1>1, <1>4, <1>7, <1>8, <1>12, <2>1
<1> QED
  BY <1>1, <1>9, <1>10, <1>11, <1>12 DEF CallStates, Kinds

LEMMA LoadKeeps == ASSUME IInv, NEW c \in Calls, Load(c) PROVE IInv'
<1> DEFINE d == call[c].id
           r == [call[c] EXCEPT !.srv = "loaded", !.got = server[d].rev]
<1>1. /\ call[c] \in CallStates /\ call \in [Calls -> CallStates] /\ server \in Sessions
      /\ crossed \subseteq Calls /\ late \subseteq Calls
  BY Typed
<1>2. /\ call[c].srv = "coming" /\ call[c].kind \in {"mutate", "save"} /\ Alive(call[c])
      /\ UNCHANGED <<shown, flags, mounted, server, spent, crossed, late, broken>>
  BY DEF Load, history, Alive, UnderWay
<1>3. call[c].at # "unused" /\ d \in Calls
  <2>1. Names(call[c], c, Opened)
    BY DEF IInv, CallsNamed
  <2> QED
    BY <1>2, <2>1 DEF Names, Opened
<1>4. server[d].rev \in Nat
  BY <1>1, <1>3 DEF Sessions
<1>5. /\ r \in CallStates /\ r.at = call[c].at /\ r.kind = call[c].kind /\ r.id = d
      /\ r.rev = call[c].rev /\ r.got = server[d].rev
  BY <1>1, <1>4 DEF CallStates
<1>6. call' = [call EXCEPT ![c] = r]
  BY <1>1 DEF Load
<1> HIDE DEF r
<1>7. Becomes(c, r)
  BY <1>2, <1>3, <1>5, <1>6 DEF Becomes
<1>8. Recent(r, server', crossed')
  <2>1. Recent(call[c], server, crossed) /\ server[d].rev <= server[d].rev
    BY <1>4 DEF IInv, CallsRecent
  <2> QED
    BY <1>2, <1>5, <2>1 DEF Recent
<1>9. Grown
  BY <1>2, SameGrown
<1> QED
  BY <1>1, <1>2, <1>5, <1>7, <1>8, <1>9, AnswerStep DEF OnItsWay

LEMMA LoseKeeps == ASSUME IInv, NEW c \in Calls, Lose(c) PROVE IInv'
<1> DEFINE r == [call[c] EXCEPT !.at = "answered", !.ok = FALSE]
<1>1. /\ call[c] \in CallStates /\ call \in [Calls -> CallStates] /\ server \in Sessions
      /\ crossed \subseteq Calls /\ late \subseteq Calls
  BY Typed
<1>2. /\ c \in Pending /\ OnItsWay(call[c]) /\ Alive(call[c])
      /\ UNCHANGED <<shown, flags, mounted, server, spent, crossed, broken>>
  BY DEF Lose, Pending, OnItsWay, Alive
<1>3. /\ r \in CallStates /\ r.at = "answered" /\ r.kind = call[c].kind /\ r.id = call[c].id
      /\ r.rev = call[c].rev /\ r.got = call[c].got /\ r.ok = FALSE
  BY <1>1 DEF CallStates
<1>4. call' = [call EXCEPT ![c] = r]
  BY <1>1 DEF Lose
<1> HIDE DEF r
<1>5. Becomes(c, r) /\ OnItsWay(r)
  BY <1>2, <1>3, <1>4 DEF Becomes, OnItsWay
<1>6. Names(call[c], c, Opened) /\ Recent(call[c], server, crossed)
  BY DEF IInv, CallsNamed, CallsRecent
<1>7. Recent(r, server', crossed')
  BY <1>2, <1>3, <1>6 DEF Recent
<1>8. late' \subseteq Calls
  <2>1. call[c].kind \in {"mutate", "save"} => call[c].id \in Calls
    BY <1>2, <1>6 DEF Names, Opened
  <2> QED
    BY <1>1, <2>1 DEF Lose
<1>9. Grown
  BY <1>2, SameGrown
<1> QED
  BY <1>1, <1>2, <1>3, <1>5, <1>7, <1>8, <1>9, AnswerStep

\* The picture on the screen and what it is compared with stay, and the call that
\* changes was not a render on its way.
LEMMA FrameKept ==
    ASSUME IInv, NEW c \in Calls, NEW r, Becomes(c, r),
           c \in Pending => call[c].kind # "render",
           UNCHANGED <<document, image, rendered, mounted, crossed>>
    PROVE  FrameFollows'
<1>1. \A b \in Pending : call[b].kind = "render" => b \in Pending' /\ call'[b] = call[b]
  BY PendingStep DEF Pending
<1> QED
  BY <1>1 DEF IInv, FrameFollows, Held, IsStale

\* A call about the document held leaves.
LEMMA SendStep ==
    ASSUME IInv, NEW c \in Calls, NEW number \in 1..Pages,
           NEW kind \in {"mutate", "save", "discard", "render"},
           IsNextCall(c), Held,
           call' = [call EXCEPT ![c] = [Sent(kind, document) EXCEPT !.page = number]],
           UNCHANGED <<server, crossed>>
    PROVE  /\ call' \in [Calls -> CallStates] /\ CallsNamed' /\ CallsRecent'
           /\ Opened \subseteq Opened'
           /\ Pending' = Pending \cup {c}
           /\ Writing' = IF kind \in {"mutate", "save"} THEN Writing \cup {c} ELSE Writing
           /\ \A b \in Calls \ {c} : call'[b] = call[b]
           /\ call'[c].id = document.id /\ call'[c].kind = kind /\ c \notin Pending
           /\ \E r : Becomes(c, r)
<1> DEFINE r == [Sent(kind, document) EXCEPT !.page = number]
<1>1. /\ document \in [id : 0..MaxCalls, rev : Nat] /\ server \in Sessions
  BY Typed
<1>2. /\ r \in CallStates
      /\ r.kind = kind /\ r.at = "sent" /\ r.id = document.id /\ r.rev = document.rev
      /\ r.got = 0 /\ r.ok = FALSE
  <2>1. number \in 0..Pages
    OBVIOUS
  <2> QED
    BY <1>1, <2>1 DEF Sent, CallStates, Kinds
<1>3. call' = [call EXCEPT ![c] = r]
  OBVIOUS
<1> HIDE DEF r
<1>4. call[c].at = "unused" /\ c \notin Pending /\ c \notin Writing
  BY DEF IsNextCall, Pending, Writing
<1>5. Becomes(c, r) /\ OnItsWay(r) /\ kind # "open"
  BY <1>2, <1>3 DEF Becomes, OnItsWay
<1>6. /\ Pending' = Pending \cup {c}
      /\ Writing' = IF kind \in {"mutate", "save"} THEN Writing \cup {c} ELSE Writing
      /\ \A b \in Calls \ {c} : call'[b] = call[b]
      /\ call'[c] = r
      /\ call' \in [Calls -> CallStates] /\ Opened \subseteq Opened'
  BY SMTT(30), <1>2, <1>4, <1>5, PendingStep
<1>7. /\ document.id \in Opened /\ document.id \in Calls
      /\ document.id \notin crossed => document.rev <= server[document.id].rev
  BY DEF IInv, HeldNamed, Opened
<1>8. Names(r, c, Opened') /\ Recent(r, server', crossed')
  <2>1. server[document.id].rev \in Nat
    BY <1>1, <1>7 DEF Sessions
  <2> QED
    BY <1>2, <1>5, <1>6, <1>7, <2>1 DEF Names, Recent
<1>9. Grown
  BY SameGrown
<1>10. CallsNamed' /\ CallsRecent'
  BY <1>5, <1>8, <1>9, CallStep
<1> QED
  BY <1>2, <1>4, <1>5, <1>6, <1>10
\* Mutate, Save, Discard and GoToPage.
LEMMA SendKeeps ==
    ASSUME IInv, NEW c \in Calls,
           \/ Mutate(c) \/ Save(c) \/ Discard(c)
           \/ \E number \in 1..Pages : GoToPage(c, number)
    PROVE  IInv'
<1>1. PICK number \in 1..Pages, kind \in {"mutate", "save", "discard", "render"} :
        /\ IsNextCall(c) /\ Held
        /\ call' = [call EXCEPT ![c] = [Sent(kind, document) EXCEPT !.page = number]]
        /\ UNCHANGED <<server, spent, mounted, rendered, crossed, late, broken>> /\ mounted
        /\ page' \in 1..Pages
        /\ \/ kind \in {"mutate", "save"} /\ ~busy /\ busy' = TRUE /\ UNCHANGED <<document, image, view>>
           \/ kind = "discard" /\ busy' = busy /\ document' = None /\ image' = NoImage /\ view' = "idle"
           \/ kind = "render" /\ busy' = busy /\ UNCHANGED <<document, image, view>>
        /\ saving' \in BOOLEAN /\ (saving' => saving \/ kind = "save")
  <2>1. ASSUME NEW k \in {"mutate", "save", "discard"}
        PROVE  Sent(k, document) = [Sent(k, document) EXCEPT !.page = page]
    <3>1. Sent(k, document).page = page
      BY DEF Sent
    <3> QED
      BY <3>1 DEF Sent
  <2>2. page \in 1..Pages /\ saving \in BOOLEAN
    BY DEF IInv, TypeOK
  <2>3. CASE Mutate(c)
    BY <2>1, <2>2, <2>3 DEF Mutate, Send, shown, history
  <2>4. CASE Save(c)
    BY <2>1, <2>2, <2>4 DEF Save, Send, shown, history
  <2>5. CASE Discard(c)
    BY <2>1, <2>2, <2>5 DEF Discard, Send, history
  <2>6. ASSUME NEW number \in 1..Pages, GoToPage(c, number)
        PROVE  /\ IsNextCall(c) /\ Held
               /\ call' = [call EXCEPT ![c] = [Sent("render", document) EXCEPT !.page = number]]
               /\ UNCHANGED <<server, spent, mounted, rendered, crossed, late, broken>>
               /\ mounted
               /\ page' \in 1..Pages
               /\ busy' = busy /\ UNCHANGED <<document, image, view>>
               /\ saving' \in BOOLEAN /\ saving' = saving
    BY <2>2, <2>6 DEF GoToPage, RefreshRender, flags, history
  <2> QED
    BY <2>3, <2>4, <2>5, <2>6
<1>2. /\ call' \in [Calls -> CallStates] /\ CallsNamed' /\ CallsRecent'
      /\ Opened \subseteq Opened'
      /\ Pending' = Pending \cup {c}
      /\ Writing' = IF kind \in {"mutate", "save"} THEN Writing \cup {c} ELSE Writing
      /\ \A b \in Calls \ {c} : call'[b] = call[b]
      /\ call'[c].id = document.id /\ call'[c].kind = kind /\ c \notin Pending
      /\ \E r : Becomes(c, r)
  BY <1>1, SendStep
<1>3. TypeOK'
  <2>1. /\ document' \in [id : 0..MaxCalls, rev : Nat]
        /\ image' \in [id : 0..MaxCalls, page : 0..Pages, rev : Nat]
        /\ busy' \in BOOLEAN /\ view' \in {"idle", "loading", "success", "failed"}
    <3>1. /\ document \in [id : 0..MaxCalls, rev : Nat]
          /\ image \in [id : 0..MaxCalls, page : 0..Pages, rev : Nat]
          /\ busy \in BOOLEAN /\ view \in {"idle", "loading", "success", "failed"}
      BY DEF IInv, TypeOK
    <3>2. None \in [id : 0..MaxCalls, rev : Nat]
      BY DEF None
    <3>3. NoImage \in [id : 0..MaxCalls, page : 0..Pages, rev : Nat]
      BY DEF NoImage
    <3>4. busy' \in BOOLEAN /\ view' \in {"idle", "loading", "success", "failed"}
      BY <1>1, <3>1
    <3> QED
      BY <1>1, <3>1, <3>2, <3>3, <3>4
  <2> QED
    BY <1>1, <1>2, <2>1 DEF IInv, TypeOK
<1>4. HeldNamed'
  BY <1>1, <1>2 DEF IInv, HeldNamed, Held
<1>5. SpentNamed' /\ UnmountedIsQuiet'
  BY <1>1, <1>2 DEF IInv, SpentNamed, UnmountedIsQuiet
<1>6. SavedDocumentDropped'
  <2>1. 0 \notin spent
    BY DEF IInv, TypeOK, Calls
  <2> QED
    BY <1>1, <2>1 DEF IInv, SavedDocumentDropped, None
<1>7. WritesUnspent' /\ OneAwaited' /\ (busy <=> Writing # {})'
  <2>1. Writing \subseteq Calls /\ c \notin Writing
    BY <1>2 DEF Writing, Pending
  <2>2. CASE kind \in {"mutate", "save"}
    <3>1. Writing' = {c}
      BY <1>1, <1>2, <2>2 DEF IInv, LockedOnlyWhileWorking
    <3> QED
      BY <1>1, <1>2, <2>2, <3>1 DEF IInv, WritesUnspent, OneAwaited, SavedDocumentDropped
  <2>3. CASE kind \notin {"mutate", "save"}
    BY <1>1, <1>2, <2>1, <2>3 DEF IInv, WritesUnspent, OneAwaited, LockedOnlyWhileWorking
  <2> QED
    BY <2>2, <2>3
<1>8. LockedOnlyWhileWorking'
  <2>1. \A b \in Pending : b \in Pending' /\ call'[b] = call[b]
    BY <1>2 DEF Pending
  <2>2. c \in Pending' /\ call'[c].kind = kind
    BY <1>2
  <2>3. (Awaited("open") => Awaited("open")') /\ (Awaited("save") => Awaited("save")')
    BY <2>1 DEF Awaited
  <2>4. view' = "loading" => view = "loading"
    BY <1>1
  <2>5. kind = "save" => Awaited("save")'
    BY <2>2 DEF Awaited
  <2> QED
    BY <1>1, <1>7, <2>3, <2>4, <2>5 DEF IInv, LockedOnlyWhileWorking
<1>9. FrameFollows'
  <2>1. CASE kind = "discard"
    BY <1>1, <2>1 DEF FrameFollows, Held
  <2>2. CASE kind # "discard"
    BY <1>1, <1>2, <2>2, FrameKept
  <2> QED
    BY <2>1, <2>2
<1> QED
  BY <1>2, <1>3, <1>4, <1>5, <1>6, <1>7, <1>8, <1>9 DEF IInv

LEMMA OpenDocumentKeeps == ASSUME IInv, NEW c \in Calls, OpenDocument(c) PROVE IInv'
<1> DEFINE r == Sent("open", [id |-> c, rev |-> 0])
<1>1. page \in 1..Pages /\ server \in Sessions /\ call \in [Calls -> CallStates]
  BY Typed
<1>2. r \in CallStates /\ r.kind = "open" /\ r.at = "sent" /\ r.id = c
  BY <1>1 DEF Sent, CallStates, Kinds, Calls
<1>3. call' = [call EXCEPT ![c] = r] /\ call[c].at = "unused"
  BY DEF OpenDocument, Send, IsNextCall
<1> HIDE DEF r
<1>4. Becomes(c, r) /\ OnItsWay(r) /\ c \notin Pending
  <2>1. Becomes(c, r)
    BY <1>2, <1>3 DEF Becomes
  <2>2. OnItsWay(r) /\ c \notin Pending
    BY <1>2, <1>3 DEF OnItsWay, Pending
  <2> QED
    BY <2>1, <2>2
<1>5. Names(r, c, Opened') /\ Recent(r, server', crossed')
  BY <1>2 DEF Names, Recent
<1>6. UNCHANGED <<document, page, image, rendered, busy, mounted, server, spent, crossed, late, broken>>
  BY DEF OpenDocument, shown, history
<1>7. Grown
  BY <1>6, SameGrown
<1>8. /\ call' \in [Calls -> CallStates] /\ CallsNamed' /\ CallsRecent'
      /\ Opened \subseteq Opened'
  BY <1>4, <1>5, <1>7, CallStep, PendingStep
<1>9. Pending' = Pending \cup {c} /\ Writing' = Writing
      /\ (\A b \in Calls \ {c} : call'[b] = call[b]) /\ call'[c] = r
  <2>1. c \notin Writing
    BY <1>4 DEF Writing
  <2> QED
    BY <1>2, <1>4, <2>1, PendingStep
<1>10. TypeOK'
  BY <1>6, <1>8 DEF IInv, TypeOK, OpenDocument
<1>11. HeldNamed' /\ SpentNamed' /\ SavedDocumentDropped'
  BY <1>6, <1>8 DEF IInv, HeldNamed, Held, SpentNamed, SavedDocumentDropped
<1>12. \A b \in Writing : b \in Calls /\ b # c
  BY <1>4 DEF Writing, Pending
<1>13. WritesUnspent' /\ OneAwaited' /\ UnmountedIsQuiet'
  BY <1>6, <1>9, <1>12 DEF IInv, WritesUnspent, OneAwaited, UnmountedIsQuiet, OpenDocument
<1>14. LockedOnlyWhileWorking'
  <2>1. Awaited("open")'
    BY <1>2, <1>9 DEF Awaited
  <2>2. saving' = FALSE
    BY DEF OpenDocument
  <2> QED
    BY <1>6, <1>9, <2>1, <2>2 DEF IInv, LockedOnlyWhileWorking
<1>15. FrameFollows'
  BY <1>4, <1>6, FrameKept
<1> QED
  BY <1>8, <1>10, <1>11, <1>13, <1>14, <1>15 DEF IInv

\* A call is over for the app: it landed, or its file could not be read.
Ends(c, r) ==
    /\ call' = [call EXCEPT ![c] = r]
    /\ r = Ended \/ r = LeftBehind(call[c])

LEMMA EndStep ==
    ASSUME IInv, NEW c \in Pending, NEW r, Ends(c, r), UNCHANGED <<server, crossed>>
    PROVE  /\ Becomes(c, r)
           /\ call' \in [Calls -> CallStates] /\ CallsNamed' /\ CallsRecent'
           /\ Opened \subseteq Opened'
           /\ Pending' = Pending \ {c} /\ Writing' = Writing \ {c}
           /\ \A b \in Calls \ {c} : call'[b] = call[b]
<1>1. c \in Calls /\ call[c] \in CallStates
  BY Typed DEF Pending
<1>2. /\ r \in CallStates /\ r.at = "ended" /\ ~OnItsWay(r)
      /\ Alive(r) => /\ r = LeftBehind(call[c]) /\ UnderWay(call[c])
                     /\ r.kind = call[c].kind /\ r.kind # "render" /\ r.id = call[c].id
                     /\ r.rev = call[c].rev /\ r.got = call[c].got
  <2>1. CASE r = Ended
    BY <2>1, EndedIs DEF Alive
  <2>2. CASE r = LeftBehind(call[c])
    BY <1>1, <2>2, LeftBehindIs
  <2> QED
    BY <2>1, <2>2 DEF Ends
<1>3. Becomes(c, r)
  BY <1>2 DEF Ends, Becomes
<1>4. /\ call' \in [Calls -> CallStates] /\ Opened \subseteq Opened'
      /\ Pending' = Pending \ {c} /\ Writing' = Writing \ {c}
      /\ \A b \in Calls \ {c} : call'[b] = call[b]
  BY <1>1, <1>2, <1>3, PendingStep
<1>5. Names(call[c], c, Opened) /\ Recent(call[c], server, crossed)
  BY <1>1 DEF IInv, CallsNamed, CallsRecent
<1>6. Names(r, c, Opened') /\ Recent(r, server', crossed')
  BY <1>2, <1>4, <1>5 DEF Names, Recent, Alive
<1>7. CallsNamed' /\ CallsRecent'
  BY <1>1, <1>3, <1>6, CallStep, SameGrown
<1> QED
  BY <1>3, <1>4, <1>7

\* A call ends and the document held stays what it was.
LEMMA EndKeeps ==
    ASSUME IInv, NEW c \in Pending, NEW r, Ends(c, r),
           UNCHANGED <<document, page, mounted, server, spent, crossed, late>>,
           \/ /\ UNCHANGED <<image, rendered>>
              /\ call[c].kind # "render"
           \/ FrameFollows' /\ TypeOK',
           busy' \in BOOLEAN, saving' \in BOOLEAN, broken' \in BOOLEAN,
           view' \in {"idle", "loading", "success", "failed"},
           IF c \in Writing THEN busy' = FALSE ELSE busy' = busy,
           broken => broken',
           view' = "loading" => broken' \/ (view = "loading" /\ call[c].kind # "open"),
           saving' => broken' \/ (saving /\ call[c].kind # "save")
    PROVE  IInv'
<1>1. /\ Becomes(c, r)
      /\ call' \in [Calls -> CallStates] /\ CallsNamed' /\ CallsRecent'
      /\ Opened \subseteq Opened'
      /\ Pending' = Pending \ {c} /\ Writing' = Writing \ {c}
      /\ \A b \in Calls \ {c} : call'[b] = call[b]
  BY EndStep
<1>2. c \in Calls /\ \A b \in Pending : b \in Calls
  BY DEF Pending
<1>3. TypeOK'
  BY <1>1 DEF IInv, TypeOK
<1>4. HeldNamed' /\ SpentNamed' /\ SavedDocumentDropped'
  BY <1>1 DEF IInv, HeldNamed, Held, SpentNamed, SavedDocumentDropped
<1>5. WritesUnspent' /\ OneAwaited'
  BY <1>1, <1>2 DEF IInv, WritesUnspent, OneAwaited, Writing
<1>6. UnmountedIsQuiet'
  BY <1>1 DEF IInv, UnmountedIsQuiet, Quiet
<1>7. (mounted => (busy <=> Writing # {}))'
  BY <1>1 DEF IInv, LockedOnlyWhileWorking, OneAwaited
<1>8. LockedOnlyWhileWorking'
  <2>1. ASSUME NEW k, Awaited(k), call[c].kind # k PROVE Awaited(k)'
    <3>1. PICK b \in Pending : call[b].kind = k
      BY <2>1 DEF Awaited
    <3>2. b \in Pending' /\ call'[b] = call[b]
      BY <1>1, <1>2, <2>1, <3>1
    <3> QED
      BY <3>1, <3>2 DEF Awaited
  <2>2. mounted' /\ ~broken' => mounted /\ ~broken
    OBVIOUS
  <2>3. mounted' /\ ~broken' /\ view' = "loading" => Awaited("open")'
    BY <2>1, <2>2 DEF IInv, LockedOnlyWhileWorking
  <2>4. mounted' /\ ~broken' /\ saving' => Awaited("save")'
    BY <2>1, <2>2 DEF IInv, LockedOnlyWhileWorking
  <2> QED
    BY <1>7, <2>3, <2>4 DEF LockedOnlyWhileWorking
<1>9. FrameFollows'
  BY <1>1, <1>2, FrameKept
<1> QED
  BY <1>1, <1>3, <1>4, <1>5, <1>6, <1>8, <1>9 DEF IInv

\* Save failed, its file was not written, an upload could not be read, an open or
\* an edit was refused.
LEMMA FailureKeeps ==
    ASSUME IInv, NEW c \in Calls,
           \/ SaveFails(c) \/ FileNotWritten(c) \/ UploadUnreadable(c)
           \/ ~call[c].ok /\ (OpenLands(c) \/ MutateLands(c))
    PROVE  IInv'
<1>1. PICK r :
        /\ c \in Pending /\ Ends(c, r) /\ call[c].kind \in {"open", "mutate", "save"}
        /\ UNCHANGED <<document, page, mounted, server, spent, image, rendered, crossed, late>>
        /\ IF call[c].kind \in {"mutate", "save"} THEN busy' = FALSE ELSE busy' = busy
        /\ broken' \in {broken, TRUE} /\ saving' \in {saving, FALSE} /\ view' \in {view, "failed"}
        /\ view' = "loading" => broken' \/ call[c].kind # "open"
        /\ saving' => broken' \/ call[c].kind # "save"
  <2> DEFINE q == LeftBehind(call[c])
  <2>1. Finish(c) => Ends(c, q)
    BY Typed DEF Finish, Ends
  <2> HIDE DEF q
  <2>2. CASE SaveFails(c)
    BY <2>1, <2>2 DEF SaveFails, Answered, Pending, shown, history
  <2>3. CASE FileNotWritten(c)
    BY <2>1, <2>3 DEF FileNotWritten, Answered, Pending, shown
  <2>4. CASE UploadUnreadable(c)
    <3>1. Ends(c, Ended)
      BY <2>4 DEF UploadUnreadable, Ends
    <3> QED
      BY <2>4, <3>1 DEF UploadUnreadable, Pending, shown
  <2>5. CASE ~call[c].ok /\ OpenLands(c)
    BY <2>1, <2>5 DEF OpenLands, Answered, Pending, history
  <2>6. CASE ~call[c].ok /\ MutateLands(c)
    BY <2>1, <2>6 DEF MutateLands, Answered, Pending, history
  <2> QED
    BY <2>2, <2>3, <2>4, <2>5, <2>6
<1>2. /\ busy \in BOOLEAN /\ saving \in BOOLEAN /\ broken \in BOOLEAN
      /\ view \in {"idle", "loading", "success", "failed"}
  BY Typed
<1>3. IF c \in Writing THEN busy' = FALSE ELSE busy' = busy
  BY <1>1 DEF Writing
<1>4. busy' \in BOOLEAN /\ saving' \in BOOLEAN /\ broken' \in BOOLEAN /\ (broken => broken')
  BY <1>1, <1>2
<1>5. view' \in {"idle", "loading", "success", "failed"}
  BY <1>1, <1>2
<1>6. view' = "loading" => broken' \/ (view = "loading" /\ call[c].kind # "open")
  BY <1>1, <1>2
<1>7. saving' => broken' \/ (saving /\ call[c].kind # "save")
  BY <1>1, <1>2
<1>8. /\ UNCHANGED <<image, rendered>> /\ call[c].kind # "render"
      /\ UNCHANGED <<document, page, mounted, server, spent, crossed, late>>
  BY <1>1
<1> QED
  BY <1>1, <1>3, <1>4, <1>5, <1>6, <1>7, <1>8, EndKeeps

LEMMA RenderKeeps ==
    ASSUME IInv, NEW c \in Calls, RenderLands(c) \/ RenderFails(c)
    PROVE  IInv'
<1> DEFINE r == LeftBehind(call[c])
<1>1. c \in Pending /\ c \notin Writing /\ Ends(c, r) /\ call[c].kind = "render"
  BY Typed DEF RenderLands, RenderFails, Answered, Pending, Writing, Finish, Ends
<1> HIDE DEF r
<1>2. UNCHANGED <<document, page, busy, view, saving, mounted, server, spent, crossed, late, broken>>
  BY DEF RenderLands, RenderFails, flags, history
<1>3. call \in [Calls -> CallStates] /\ call[c] \in CallStates /\ document.rev \in Nat
  BY DEF IInv, TypeOK
<1>4. image' \in [id : 0..MaxCalls, page : 0..Pages, rev : Nat] /\ rendered' \in Nat \cup {Behind}
  <2>1. image \in [id : 0..MaxCalls, page : 0..Pages, rev : Nat] /\ rendered \in Nat \cup {Behind}
    BY DEF IInv, TypeOK
  <2>2. /\ call[c].id \in 0..MaxCalls /\ call[c].page \in 0..Pages
        /\ call[c].rev \in Nat /\ call[c].got \in Nat
    BY <1>3 DEF CallStates
  <2> QED
    BY <2>1, <2>2 DEF RenderLands, RenderFails
<1>5. /\ call' \in [Calls -> CallStates]
      /\ Pending' = Pending \ {c}
      /\ \A b \in Calls \ {c} : call'[b] = call[b]
  BY <1>1, <1>2, EndStep
<1>6. TypeOK'
  BY <1>2, <1>4, <1>5 DEF IInv, TypeOK
<1>7. FrameFollows'
  <2> SUFFICES ASSUME mounted, Held, image' # NoImage, rendered' = document.rev
               PROVE  \/ /\ image'.id = document.id
                         /\ document.id \notin crossed => image'.rev >= document.rev
                      \/ \E b \in Pending' : call'[b].kind = "render" /\ call'[b].id = document.id
    BY <1>2 DEF FrameFollows, Held, IsStale
  <2>1. RenderLands(c)
    <3>1. Behind \notin Nat
      BY DEF Behind
    <3> QED
      BY <1>3, <3>1 DEF RenderFails
  <2>2. CASE document.id = call[c].id
    <3>1. /\ image' = [id |-> call[c].id, page |-> call[c].page, rev |-> call[c].got]
          /\ rendered' = call[c].rev /\ call[c].ok
      BY <2>1, <2>2 DEF RenderLands
    <3>2. call[c].id \notin crossed => call[c].rev <= call[c].got
      BY <1>1, <3>1 DEF IInv, CallsRecent, Recent, Alive, OnItsWay, Pending
    <3>3. call[c].got \in Nat
      BY <1>3 DEF CallStates
    <3> QED
      BY <1>3, <2>2, <3>1, <3>2, <3>3
  <2>3. CASE document.id # call[c].id
    <3>1. UNCHANGED <<image, rendered>>
      BY <2>1, <2>3 DEF RenderLands
    <3>2. \/ /\ image.id = document.id
             /\ document.id \notin crossed => image.rev >= document.rev
          \/ \E b \in Pending : call[b].kind = "render" /\ call[b].id = document.id
      BY <3>1 DEF IInv, FrameFollows, IsStale
    <3> QED
      BY <1>5, <2>3, <3>1, <3>2 DEF Pending
  <2> QED
    BY <2>2, <2>3
<1>8. /\ busy \in BOOLEAN /\ saving \in BOOLEAN /\ broken \in BOOLEAN
      /\ view \in {"idle", "loading", "success", "failed"}
  BY DEF IInv, TypeOK
<1> QED
  BY <1>1, <1>2, <1>6, <1>7, <1>8, EndKeeps

\* An open or an edit that succeeded: its document is the one held from now on, and
\* the call goes on as the render of it.
LEMMA AdoptKeeps ==
    ASSUME IInv, NEW c \in Calls, call[c].ok, OpenLands(c) \/ MutateLands(c)
    PROVE  IInv'
<1> DEFINE r == [Sent("render", document') EXCEPT !.page = page']
           d == call[c].id
<1>1. /\ call \in [Calls -> CallStates] /\ call[c] \in CallStates
      /\ server \in Sessions /\ page \in 1..Pages /\ spent \subseteq Calls
  BY Typed
<1>2. c \in Pending /\ OnItsWay(call[c]) /\ Alive(call[c]) /\ call[c].kind \in {"open", "mutate"}
  BY DEF OpenLands, MutateLands, Answered, Pending, OnItsWay, Alive
<1>3. d \in Calls /\ (call[c].kind = "open" => d = c) /\ (call[c].kind = "mutate" => d \in Opened)
  <2>1. Names(call[c], c, Opened)
    BY DEF IInv, CallsNamed
  <2> QED
    BY <1>2, <2>1 DEF Names, Opened
<1>4. /\ call' = [call EXCEPT ![c] = r]
      /\ page' \in 1..Pages /\ view' = "success"
      /\ document'.id = d
      /\ document' \in [id : 0..MaxCalls, rev : Nat]
      /\ UNCHANGED <<image, rendered, saving, mounted, server, spent, crossed, late, broken>>
      /\ IF call[c].kind = "mutate" THEN busy' = FALSE ELSE busy' = busy
      /\ call[c].kind = "open" => document'.rev = 0
      /\ call[c].kind = "mutate" => document'.rev = call[c].got
  <2>1. d \in 0..MaxCalls /\ call[c].got \in Nat /\ 1 \in 1..Pages
    BY <1>1 DEF CallStates
  <2>2. CASE OpenLands(c)
    <3>1. /\ document' = [id |-> d, rev |-> 0] /\ page' = 1 /\ view' = "success"
          /\ RefreshRender(c, document', 1) /\ call[c].kind = "open"
          /\ UNCHANGED <<image, rendered, busy, saving, mounted, server, spent, crossed, late, broken>>
      BY <2>2 DEF OpenLands, Answered, history
    <3>2. call' = [call EXCEPT ![c] = r]
      BY <3>1 DEF RefreshRender, Sent
    <3> HIDE DEF r
    <3> QED
      BY <2>1, <3>1, <3>2
  <2>3. CASE MutateLands(c)
    <3>1. /\ document' = [id |-> d, rev |-> call[c].got] /\ page' = page /\ view' = "success"
          /\ RefreshRender(c, document', page) /\ call[c].kind = "mutate" /\ busy' = FALSE
          /\ UNCHANGED <<image, rendered, saving, mounted, server, spent, crossed, late, broken>>
      BY <2>3 DEF MutateLands, Answered, history
    <3>2. call' = [call EXCEPT ![c] = r]
      BY <3>1 DEF RefreshRender, Sent
    <3> HIDE DEF r
    <3> QED
      BY <1>1, <2>1, <3>1, <3>2
  <2> QED
    BY <2>2, <2>3
<1>5. /\ r \in CallStates /\ r.kind = "render" /\ r.at = "sent"
      /\ r.id = d /\ r.rev = document'.rev /\ r.got = 0 /\ r.ok = FALSE
  <2>1. page' \in 0..Pages /\ page \in 0..Pages
    BY <1>1, <1>4
  <2> QED
    BY <1>4, <2>1 DEF Sent, CallStates, Kinds
<1> HIDE DEF r
<1>6. Becomes(c, r) /\ OnItsWay(r)
  BY <1>4, <1>5 DEF Becomes, OnItsWay
<1>7. /\ Pending' = Pending \cup {c} /\ Writing' = Writing \ {c}
      /\ (\A b \in Calls \ {c} : call'[b] = call[b]) /\ call'[c] = r
  BY <1>5, <1>6, PendingStep
<1>8. d \notin crossed => document'.rev <= server[d].rev
  <2>1. CASE call[c].kind = "open"
    BY <1>1, <1>3, <1>4, <2>1 DEF Sessions
  <2>2. CASE call[c].kind = "mutate"
    BY <1>2, <1>4, <2>2 DEF IInv, CallsRecent, Recent
  <2> QED
    BY <1>2, <2>1, <2>2
<1>9. d \in Opened'
  <2>1. CASE d = c
    BY <1>5, <1>7, <2>1 DEF Opened
  <2>2. CASE d # c
    BY <1>2, <1>3, <1>7, <2>2 DEF Opened
  <2> QED
    BY <2>1, <2>2
<1>10. Names(r, c, Opened') /\ Recent(r, server', crossed')
  <2>1. server[d].rev \in Nat
    BY <1>1, <1>3 DEF Sessions
  <2> QED
    BY <1>4, <1>5, <1>8, <1>9, <2>1 DEF Names, Recent
<1>11. Grown
  BY <1>4, SameGrown
<1>12. /\ call' \in [Calls -> CallStates] /\ CallsNamed' /\ CallsRecent'
       /\ Opened \subseteq Opened'
  BY <1>6, <1>10, <1>11, CallStep, PendingStep
<1>13. TypeOK'
  BY <1>4, <1>12 DEF IInv, TypeOK
<1>14. HeldNamed' /\ SpentNamed'
  BY <1>4, <1>8, <1>9, <1>12 DEF IInv, HeldNamed, SpentNamed
<1>15. SavedDocumentDropped'
  <2>1. CASE call[c].kind = "open"
    <3>1. c \notin Opened
      BY <1>2, <2>1 DEF Opened
    <3> QED
      BY <1>3, <1>4, <2>1, <3>1 DEF IInv, SpentNamed, SavedDocumentDropped
  <2>2. CASE call[c].kind = "mutate"
    BY <1>2, <1>4, <2>2 DEF IInv, WritesUnspent, SavedDocumentDropped, Writing
  <2> QED
    BY <1>2, <2>1, <2>2
<1>16. \A b \in Writing' : b \in Writing /\ b # c /\ call'[b] = call[b]
  BY <1>7 DEF Writing, Pending
<1>17. WritesUnspent' /\ OneAwaited'
  BY <1>4, <1>16 DEF IInv, WritesUnspent, OneAwaited
<1>18. UnmountedIsQuiet'
  BY <1>2, <1>4 DEF IInv, UnmountedIsQuiet, Quiet
<1>19. LockedOnlyWhileWorking'
  <2>1. c \in Writing <=> call[c].kind = "mutate"
    BY <1>2 DEF Writing
  <2>2. (mounted => (busy <=> Writing # {}))'
    <3>1. CASE call[c].kind = "mutate"
      BY <1>4, <1>7, <2>1, <3>1 DEF IInv, LockedOnlyWhileWorking, OneAwaited
    <3>2. CASE call[c].kind = "open"
      BY <1>4, <1>7, <2>1, <3>2 DEF IInv, LockedOnlyWhileWorking
    <3> QED
      BY <1>2, <3>1, <3>2
  <2>3. Awaited("save") => Awaited("save")'
    BY <1>2, <1>7 DEF Awaited, Pending
  <2>4. view' # "loading"
    BY <1>4
  <2> QED
    BY <1>4, <2>2, <2>3, <2>4 DEF IInv, LockedOnlyWhileWorking
<1>20. FrameFollows'
  BY <1>4, <1>5, <1>7 DEF FrameFollows
<1> QED
  BY <1>12, <1>13, <1>14, <1>15, <1>17, <1>18, <1>19, <1>20 DEF IInv

LEMMA SaveLandsKeeps == ASSUME IInv, NEW c \in Calls, SaveLands(c) PROVE IInv'
<1> DEFINE r == LeftBehind(call[c])
<1>1. /\ c \in Pending /\ c \in Writing /\ Ends(c, r) /\ call[c].kind = "save"
      /\ Alive(call[c])
  BY Typed DEF SaveLands, Answered, Pending, Writing, OnItsWay, Alive, Finish, Ends
<1> HIDE DEF r
<1>2. /\ UNCHANGED <<page, rendered, mounted, server, crossed, late, broken>>
      /\ busy' = FALSE /\ saving' = FALSE /\ view' = "idle"
      /\ document' = None /\ image' = NoImage
      /\ spent' = spent \cup {call[c].id}
  BY DEF SaveLands, history
<1>3. /\ call' \in [Calls -> CallStates] /\ CallsNamed' /\ CallsRecent'
      /\ Opened \subseteq Opened'
      /\ Pending' = Pending \ {c} /\ Writing' = Writing \ {c}
  BY <1>1, <1>2, EndStep
<1>4. Writing' = {}
  BY <1>1, <1>3 DEF IInv, OneAwaited
<1>5. call[c].id \in Opened
  BY <1>1 DEF IInv, CallsNamed, Names
<1>6. Opened \subseteq Calls /\ 0 \notin Calls
  BY DEF Opened, Calls
<1>7. TypeOK'
  <2>1. None \in [id : 0..MaxCalls, rev : Nat]
    BY DEF None
  <2>2. NoImage \in [id : 0..MaxCalls, page : 0..Pages, rev : Nat]
    BY DEF NoImage
  <2>3. spent' \in SUBSET Calls
    BY <1>2, <1>5, <1>6 DEF IInv, TypeOK
  <2> QED
    BY <1>2, <1>3, <2>1, <2>2, <2>3 DEF IInv, TypeOK
<1>8. HeldNamed' /\ FrameFollows'
  BY <1>2 DEF HeldNamed, FrameFollows, Held
<1>9. SpentNamed'
  BY <1>2, <1>3, <1>5 DEF IInv, SpentNamed
<1>10. SavedDocumentDropped'
  BY <1>2, <1>5, <1>6, <1>7 DEF TypeOK, SavedDocumentDropped, None
<1>11. WritesUnspent' /\ OneAwaited' /\ LockedOnlyWhileWorking'
  BY <1>2, <1>4 DEF WritesUnspent, OneAwaited, LockedOnlyWhileWorking
<1>12. UnmountedIsQuiet'
  BY <1>2, <1>3 DEF IInv, UnmountedIsQuiet, Quiet
<1> QED
  BY <1>3, <1>7, <1>8, <1>9, <1>10, <1>11, <1>12 DEF IInv

LEMMA UnmountKeeps ==
    ASSUME IInv, Unmount, UNCHANGED <<shown, flags, server, spent, history>>
    PROVE  IInv'
<1>1. ASSUME NEW c \in Calls
      PROVE  /\ call'[c] \in CallStates /\ call'[c].at = "ended" /\ ~OnItsWay(call'[c])
             /\ Alive(call'[c]) =>
                  /\ Alive(call[c]) /\ call'[c].kind = call[c].kind /\ call'[c].kind # "render"
                  /\ call'[c].id = call[c].id
                  /\ call'[c].rev = call[c].rev /\ call'[c].got = call[c].got
  <2>1. call[c] \in CallStates /\ call'[c] = LeftBehind(call[c])
    BY Typed DEF Unmount
  <2> QED
    BY <2>1, LeftBehindIs DEF Alive
<1>2. call' \in [Calls -> CallStates]
  BY <1>1 DEF Unmount
<1>3. Pending' = {} /\ Writing' = {} /\ Opened' = Calls
  BY <1>1 DEF Pending, Writing, Opened, OnItsWay
<1>4. UNCHANGED <<server, crossed>>
  BY DEF history
<1>5. ASSUME NEW c \in Calls
      PROVE Names(call'[c], c, Opened') /\ Recent(call'[c], server', crossed')
  <2>1. Names(call[c], c, Opened) /\ Recent(call[c], server, crossed) /\ Opened \subseteq Opened'
    BY <1>3 DEF IInv, CallsNamed, CallsRecent, Opened
  <2> QED
    BY <1>1, <1>4, <2>1 DEF Names, Recent
<1>6. CallsNamed' /\ CallsRecent'
  BY <1>5 DEF CallsNamed, CallsRecent
<1>7. TypeOK'
  BY <1>2 DEF IInv, TypeOK, Unmount, shown, flags, history
<1>8. Opened \subseteq Opened'
  BY <1>3 DEF Opened
<1> QED
  BY <1>3, <1>6, <1>7, <1>8 DEF IInv, HeldNamed, Held, SpentNamed, WritesUnspent, UnmountedIsQuiet, Quiet,
     OneAwaited, LockedOnlyWhileWorking, SavedDocumentDropped, FrameFollows, Unmount, shown, flags, history

LEMMA StutterKeeps == ASSUME IInv, UNCHANGED vars PROVE IInv'
BY DEF vars, shown, flags, history, IInv, TypeOK, CallsNamed, CallsRecent, Opened, HeldNamed, Held,
   SpentNamed, WritesUnspent, Writing, Pending, UnmountedIsQuiet, Quiet, OneAwaited,
   LockedOnlyWhileWorking, Awaited, SavedDocumentDropped, FrameFollows, IsStale

\* The invariant is inductive: each call that is made, carried out, given up on or
\* lands keeps it, and so does leaving the screen.
THEOREM Inductive == Spec => []IInv
<1>1. IInv /\ [Next]_vars => IInv'
  <2> SUFFICES ASSUME IInv, [Next]_vars PROVE IInv'
    OBVIOUS
  <2>1. ASSUME NEW c \in Calls, Act(c) PROVE IInv'
    BY <2>1, OpenDocumentKeeps, SendKeeps DEF Act
  <2>2. ASSUME NEW c \in Calls, Load(c) \/ Serve(c) \/ Refuse(c) \/ Lose(c) PROVE IInv'
    BY <2>2, LoadKeeps, ServeKeeps, RefuseKeeps, LoseKeeps
  <2>3. ASSUME NEW c \in Calls, Land(c) PROVE IInv'
    <3>1. CASE OpenLands(c) \/ MutateLands(c)
      BY <3>1, AdoptKeeps, FailureKeeps
    <3>2. CASE SaveFails(c) \/ FileNotWritten(c) \/ UploadUnreadable(c)
      BY <3>2, FailureKeeps
    <3>3. CASE SaveLands(c)
      BY <3>3, SaveLandsKeeps
    <3>4. CASE DiscardLands(c)
      BY <3>4, UnmountKeeps DEF DiscardLands
    <3>5. CASE RenderLands(c) \/ RenderFails(c)
      BY <3>5, RenderKeeps
    <3> QED
      BY <2>3, <3>1, <3>2, <3>3, <3>4, <3>5 DEF Land
  <2>4. CASE Leave
    BY <2>4, UnmountKeeps DEF Leave
  <2>5. CASE UNCHANGED vars
    BY <2>5, StutterKeeps
  <2> QED
    BY <2>1, <2>2, <2>3, <2>4, <2>5 DEF Next
<1> QED
  BY InitInv, <1>1, PTL DEF Spec

-----------------------------------------------------------------------------
\* Edits and saves at the server.  Unless the app gave up on one of a document, it
\* waits for each that is under way, so there is one, and what it read is current.
Write(r) == UnderWay(r) /\ r.kind \in {"mutate", "save"}
Edits(r) == Write(r) /\ r.kind = "mutate" /\ r.srv = "loaded"

WritesAwaited ==
    mounted => \A c \in Calls : Write(call[c]) /\ call[c].id \notin late => call[c].at = "sent"
WritesApart ==
    \A b, c \in Calls :
        b # c /\ Write(call[b]) /\ Write(call[c]) /\ call[b].id = call[c].id => call[c].id \in late
ReadsCurrent ==
    \A c \in Calls :
        Edits(call[c]) /\ call[c].id \notin late => call[c].got = server[call[c].id].rev

LInv == WritesAwaited /\ WritesApart /\ ReadsCurrent /\ crossed \subseteq late

\* An edit or a save under way is about a document.
LEMMA WriteNamed == ASSUME IInv, NEW c \in Calls, Write(call[c]) PROVE call[c].id \in Calls
<1>1. Names(call[c], c, Opened)
  BY DEF IInv, CallsNamed
<1> QED
  BY <1>1 DEF Names, Write, Alive, Opened

\* Nothing is stored, and what is under way was so before.
LEMMA NoWriteStep ==
    ASSUME IInv, LInv, late \subseteq late', crossed' = crossed, mounted' => mounted,
           \A d \in Calls : server'[d].rev = server[d].rev,
           \A c \in Calls : Write(call'[c]) =>
               /\ Write(call[c]) /\ call'[c].kind = call[c].kind /\ call'[c].id = call[c].id
               /\ mounted' /\ call'[c].id \notin late' => call'[c].at = call[c].at
               /\ call'[c].srv = "loaded" =>
                    \/ call[c].srv = "loaded" /\ call'[c].got = call[c].got
                    \/ call'[c].got = server[call[c].id].rev
    PROVE  LInv'
<1>1. WritesAwaited'
  BY DEF LInv, WritesAwaited
<1>2. WritesApart'
  BY DEF LInv, WritesApart
<1>3. ReadsCurrent'
  <2> SUFFICES ASSUME NEW c \in Calls, Edits(call'[c]), call'[c].id \notin late'
               PROVE  call'[c].got = server'[call'[c].id].rev
    BY DEF ReadsCurrent
  <2>1. Write(call[c]) /\ call'[c].id = call[c].id /\ call[c].id \notin late
    BY DEF Edits
  <2>2. server'[call[c].id].rev = server[call[c].id].rev
    BY <2>1, WriteNamed
  <2> QED
    BY <2>1, <2>2 DEF LInv, ReadsCurrent, Edits
<1> QED
  BY <1>1, <1>2, <1>3 DEF LInv

\* A call that changes into one that is no write under way, or a render, an opening
\* or a discard that leaves.
LEMMA NoWriteAfter ==
    ASSUME IInv, LInv, NEW c \in Calls, NEW r, call' = [call EXCEPT ![c] = r], ~Write(r),
           late \subseteq late', crossed' = crossed, mounted' => mounted,
           \A d \in Calls : server'[d].rev = server[d].rev
    PROVE  LInv'
<1>1. \A b \in Calls : call'[b] = IF b = c THEN r ELSE call[b]
  BY Typed
<1>2. \A b \in Calls : Write(call'[b]) => call'[b] = call[b]
  BY <1>1
<1> QED
  BY <1>2, NoWriteStep

LEMMA MutateSaveApart == ASSUME IInv, LInv, NEW c \in Calls, Mutate(c) \/ Save(c) PROVE LInv'
<1>1. PICK kind \in {"mutate", "save"} :
        /\ mounted /\ ~busy /\ call[c].at = "unused"
        /\ call' = [call EXCEPT ![c] = Sent(kind, document)]
        /\ UNCHANGED <<mounted, server, crossed, late>>
  BY DEF Mutate, Save, Send, IsNextCall, history
<1>2. /\ Sent(kind, document).srv = "coming" /\ Sent(kind, document).at = "sent"
      /\ Sent(kind, document).id = document.id
  BY DEF Sent
<1>3. /\ call'[c] = Sent(kind, document)
      /\ \A b \in Calls \ {c} : call'[b] = call[b]
  BY <1>1, Typed
<1>4. ASSUME NEW b \in Calls, Write(call[b]) PROVE call[b].id \in late
  <2>1. ASSUME call[b].id \notin late PROVE FALSE
    <3>1. call[b].at = "sent"
      BY <1>1, <1>4, <2>1 DEF LInv, WritesAwaited
    <3>2. b \in Writing
      BY <1>4, <3>1 DEF Write, Writing, Pending
    <3> QED
      BY <1>1, <3>2 DEF IInv, LockedOnlyWhileWorking
  <2> QED
    BY <2>1
<1>5. WritesAwaited'
  BY <1>1, <1>2, <1>3, <1>4 DEF WritesAwaited
<1>6. WritesApart'
  <2> SUFFICES ASSUME NEW a \in Calls, NEW b \in Calls, a # b, Write(call'[a]), Write(call'[b]),
                      call'[a].id = call'[b].id
               PROVE  call'[b].id \in late
    BY <1>1 DEF WritesApart
  <2>1. a # c \/ b # c
    OBVIOUS
  <2> QED
    BY <1>3, <1>4, <2>1
<1>7. ReadsCurrent'
  BY <1>1, <1>2, <1>3 DEF LInv, ReadsCurrent, Edits
<1> QED
  BY <1>1, <1>5, <1>6, <1>7 DEF LInv

LEMMA OtherSendApart ==
    ASSUME IInv, LInv, NEW c \in Calls,
           OpenDocument(c) \/ Discard(c) \/ \E number \in 1..Pages : GoToPage(c, number)
    PROVE  LInv'
<1>1. PICK r : call' = [call EXCEPT ![c] = r] /\ r.kind \notin {"mutate", "save"}
  <2>1. CASE OpenDocument(c)
    <3> DEFINE q == Sent("open", [id |-> c, rev |-> 0])
    <3>1. call' = [call EXCEPT ![c] = q] /\ q.kind = "open"
      BY <2>1 DEF OpenDocument, Send, Sent
    <3> HIDE DEF q
    <3> QED
      BY <3>1
  <2>2. CASE Discard(c)
    <3> DEFINE q == Sent("discard", document)
    <3>1. call' = [call EXCEPT ![c] = q] /\ q.kind = "discard"
      BY <2>2 DEF Discard, Send, Sent
    <3> HIDE DEF q
    <3> QED
      BY <3>1
  <2>3. ASSUME NEW number \in 1..Pages, GoToPage(c, number)
        PROVE  \E r : call' = [call EXCEPT ![c] = r] /\ r.kind \notin {"mutate", "save"}
    <3> DEFINE r == [Sent("render", document) EXCEPT !.page = number]
    <3>1. call' = [call EXCEPT ![c] = r] /\ r.kind = "render"
      BY <2>3 DEF GoToPage, RefreshRender, Sent
    <3> HIDE DEF r
    <3> QED
      BY <3>1
  <2> QED
    BY <2>1, <2>2, <2>3
<1>2. UNCHANGED <<mounted, server, crossed, late>>
  BY DEF OpenDocument, Discard, GoToPage, history
<1> QED
  BY <1>1, <1>2, NoWriteAfter DEF Write

LEMMA LoadApart == ASSUME IInv, LInv, NEW c \in Calls, Load(c) PROVE LInv'
<1> DEFINE r == [call[c] EXCEPT !.srv = "loaded", !.got = server[call[c].id].rev]
<1>1. call[c] \in CallStates /\ call[c].srv = "coming"
  BY Typed DEF Load
<1>2. /\ r.srv = "loaded" /\ r.at = call[c].at /\ r.kind = call[c].kind /\ r.id = call[c].id
      /\ r.got = server[call[c].id].rev
  BY <1>1 DEF CallStates
<1>3. call' = [call EXCEPT ![c] = r] /\ UNCHANGED <<mounted, server, crossed, late>>
  BY Typed DEF Load, history
<1> HIDE DEF r
<1>4. \A b \in Calls : call'[b] = IF b = c THEN r ELSE call[b]
  BY <1>3, Typed
<1>5. Write(r) => Write(call[c])
  BY <1>1, <1>2 DEF Write, UnderWay
<1> QED
  BY <1>2, <1>3, <1>4, <1>5, NoWriteStep

LEMMA LoseApart == ASSUME IInv, LInv, NEW c \in Calls, Lose(c) PROVE LInv'
<1> DEFINE r == [call[c] EXCEPT !.at = "answered", !.ok = FALSE]
<1>1. call[c] \in CallStates
  BY Typed
<1>2. r.srv = call[c].srv /\ r.kind = call[c].kind /\ r.id = call[c].id /\ r.got = call[c].got
  BY <1>1 DEF CallStates
<1>3. call' = [call EXCEPT ![c] = r] /\ UNCHANGED <<mounted, server, crossed>>
  BY Typed DEF Lose
<1> HIDE DEF r
<1>4. \A b \in Calls : call'[b] = IF b = c THEN r ELSE call[b]
  BY <1>3, Typed
<1>5. late \subseteq late' /\ (Write(call[c]) => call[c].id \in late')
  BY DEF Lose, Write
<1>6. Write(r) => Write(call[c])
  BY <1>2 DEF Write, UnderWay
<1> QED
  BY <1>2, <1>3, <1>4, <1>5, <1>6, NoWriteStep

LEMMA RefuseApart == ASSUME IInv, LInv, NEW c \in Calls, Refuse(c) PROVE LInv'
<1>1. PICK r : Becomes(c, r) /\ ~UnderWay(r)
  BY SettleStep DEF Refuse
<1>2. UNCHANGED <<mounted, server, crossed, late>>
  BY DEF Refuse, history
<1> QED
  BY <1>1, <1>2, NoWriteAfter DEF Becomes, Write

LEMMA ServeApart == ASSUME IInv, LInv, NEW c \in Calls, Serve(c) PROVE LInv'
<1> DEFINE d == call[c].id
<1>1. call[c] \in CallStates /\ server \in Sessions /\ UnderWay(call[c])
  BY Typed DEF Serve, UnderWay
<1>2. d \in Calls
  <2>1. Names(call[c], c, Opened)
    BY DEF IInv, CallsNamed
  <2> QED
    BY <1>1, <2>1 DEF Names, Alive, Opened
<1>3. server[d].rev \in Nat /\ call[c].got \in Nat /\ server[d] \in [rev : Nat, open : BOOLEAN]
  BY <1>1, <1>2 DEF Sessions, CallStates
<1>4. UNCHANGED <<mounted, late>>
  BY DEF Serve
<1>5. PICK r : Becomes(c, r) /\ ~UnderWay(r)
  <2>1. \E n \in Nat : Settle(c, TRUE, n)
    <3>1. 0 \in Nat /\ call[c].got + 1 \in Nat
      BY <1>3
    <3> QED
      BY <1>3, <3>1, Zenon DEF Serve
  <2> QED
    BY <1>1, <2>1, SettleStep
<1>6. \A b \in Calls : call'[b] = IF b = c THEN r ELSE call[b]
  BY <1>5, Typed DEF Becomes
<1>7. CASE call[c].kind # "mutate"
  <2>1. crossed' = crossed
    BY <1>7 DEF Serve
  <2>2. PICK s \in [rev : Nat, open : BOOLEAN] :
          server' = [server EXCEPT ![d] = s] /\ s.rev = server[d].rev
    <3> DEFINE begun == [server[d] EXCEPT !.open = TRUE]
               ended == [server[d] EXCEPT !.open = FALSE]
    <3>1. begun \in [rev : Nat, open : BOOLEAN] /\ begun.rev = server[d].rev
      BY <1>3
    <3>2. ended \in [rev : Nat, open : BOOLEAN] /\ ended.rev = server[d].rev
      BY <1>3
    <3>3. \/ server' = [server EXCEPT ![d] = begun]
          \/ server' = [server EXCEPT ![d] = ended]
          \/ server' = server
      BY <1>1, <1>2, <1>7 DEF Serve, Sessions
    <3> HIDE DEF begun, ended
    <3>4. server = [server EXCEPT ![d] = server[d]]
      BY <1>1, <1>2 DEF Sessions
    <3> QED
      BY <1>3, <3>1, <3>2, <3>3, <3>4
  <2>3. \A b \in Calls : server'[b].rev = server[b].rev
    BY <1>1, <1>2, <2>2 DEF Sessions
  <2> QED
    BY <1>4, <1>5, <2>1, <2>3, NoWriteAfter DEF Becomes, Write
<1>8. CASE call[c].kind = "mutate"
  <2>1. /\ Write(call[c]) /\ Edits(call[c])
        /\ crossed' = IF server[d].rev = call[c].got THEN crossed ELSE crossed \cup {d}
    BY <1>8 DEF Serve, Write, Edits, UnderWay
  <2>2. \A b \in Calls \ {d} : server'[b] = server[b]
    BY <1>1, <1>8 DEF Serve, Sessions
  <2>3. crossed' \subseteq late'
    BY <1>4, <2>1 DEF LInv, ReadsCurrent
  <2>4. ~Write(r)
    BY <1>5 DEF Write
  <2>5. WritesAwaited' /\ WritesApart'
    BY <1>4, <1>6, <2>4 DEF LInv, WritesAwaited, WritesApart
  <2>6. ReadsCurrent'
    <3> SUFFICES ASSUME NEW b \in Calls, Edits(call'[b]), call'[b].id \notin late
                 PROVE  call'[b].got = server'[call'[b].id].rev
      BY <1>4 DEF ReadsCurrent
    <3>1. b # c /\ call'[b] = call[b] /\ Write(call[b])
      BY <1>6, <2>4 DEF Edits
    <3>2. call[b].id # d /\ call[b].id \in Calls
      BY <2>1, <3>1, WriteNamed DEF LInv, WritesApart
    <3> QED
      BY <2>2, <3>1, <3>2 DEF LInv, ReadsCurrent
  <2> QED
    BY <2>3, <2>5, <2>6 DEF LInv
<1> QED
  BY <1>7, <1>8

\* What the app leaves to the server it had given up on.
LEMMA EndApart ==
    ASSUME IInv, LInv, NEW c \in Calls, NEW r, Ends(c, r), r = Ended \/ call[c].at = "answered",
           UNCHANGED <<mounted, server, crossed, late>>
    PROVE  LInv'
<1>1. call[c] \in CallStates
  BY Typed
<1>2. CASE r = Ended
  BY <1>2, EndedIs, NoWriteAfter DEF Ends, Write, Alive
<1>3. CASE r = LeftBehind(call[c]) /\ call[c].at = "answered"
  <2>1. Write(r) => /\ Write(call[c]) /\ r.kind = call[c].kind /\ r.id = call[c].id
                    /\ r.srv = call[c].srv /\ r.got = call[c].got
    BY <1>1, <1>3, LeftBehindIs DEF Write, Alive, UnderWay
  <2>2. mounted /\ Write(call[c]) => call[c].id \in late
    BY <1>3 DEF LInv, WritesAwaited
  <2>3. \A b \in Calls : call'[b] = IF b = c THEN r ELSE call[b]
    BY Typed DEF Ends
  <2> QED
    BY <2>1, <2>2, <2>3, NoWriteStep
<1> QED
  BY <1>2, <1>3 DEF Ends

LEMMA UnmountApart ==
    ASSUME IInv, LInv, Unmount, UNCHANGED <<server, crossed, late>>
    PROVE  LInv'
<1>1. ASSUME NEW c \in Calls
      PROVE Write(call'[c]) =>
              /\ Write(call[c]) /\ call'[c].kind = call[c].kind /\ call'[c].id = call[c].id
              /\ call'[c].srv = call[c].srv /\ call'[c].got = call[c].got
  <2>1. call[c] \in CallStates /\ call'[c] = LeftBehind(call[c])
    BY Typed DEF Unmount
  <2> QED
    BY <2>1, LeftBehindIs DEF Write, Alive, UnderWay
<1>2. ~mounted'
  BY DEF Unmount
<1> QED
  BY <1>1, <1>2, NoWriteStep

LEMMA LandApart == ASSUME IInv, LInv, NEW c \in Calls, Land(c) PROVE LInv'
<1>1. Finish(c) => Ends(c, LeftBehind(call[c]))
  BY Typed DEF Finish, Ends
<1>2. CASE SaveLands(c) \/ SaveFails(c) \/ FileNotWritten(c) \/ RenderLands(c) \/ RenderFails(c)
  <2>1. Finish(c) /\ call[c].at = "answered" /\ UNCHANGED <<mounted, server, crossed, late>>
    BY <1>2 DEF SaveLands, SaveFails, FileNotWritten, RenderLands, RenderFails, Answered, history
  <2> QED
    BY <1>1, <2>1, EndApart
<1>3. CASE UploadUnreadable(c)
  <2>1. Ends(c, Ended) /\ UNCHANGED <<mounted, server, crossed, late>>
    BY <1>3 DEF UploadUnreadable, Ends
  <2> QED
    BY <2>1, EndApart
<1>4. CASE DiscardLands(c)
  BY <1>4, UnmountApart DEF DiscardLands, history
<1>5. CASE (OpenLands(c) \/ MutateLands(c)) /\ ~call[c].ok
  <2>1. Finish(c) /\ call[c].at = "answered" /\ UNCHANGED <<mounted, server, crossed, late>>
    BY <1>5 DEF OpenLands, MutateLands, Answered, history
  <2> QED
    BY <1>1, <2>1, EndApart
<1>6. CASE (OpenLands(c) \/ MutateLands(c)) /\ call[c].ok
  <2>1. UNCHANGED <<mounted, server, crossed, late>>
    BY <1>6 DEF OpenLands, MutateLands, history
  <2>2. ASSUME NEW number, RefreshRender(c, document', number) PROVE LInv'
    <3> DEFINE r == [Sent("render", document') EXCEPT !.page = number]
    <3>1. r.kind = "render"
      BY DEF Sent
    <3>2. call' = [call EXCEPT ![c] = r]
      BY <2>2 DEF RefreshRender
    <3> HIDE DEF r
    <3> QED
      BY <2>1, <3>1, <3>2, NoWriteAfter DEF Write
  <2>3. RefreshRender(c, document', 1) \/ RefreshRender(c, document', page)
    BY <1>6 DEF OpenLands, MutateLands
  <2> QED
    BY <2>2, <2>3
<1> QED
  BY <1>2, <1>3, <1>4, <1>5, <1>6 DEF Land

\* Whatever the app gives up on, what it did not give up on stays apart.
THEOREM ApartInductive == Spec => []LInv
<1>1. Init => LInv
  <2> SUFFICES ASSUME Init PROVE LInv
    OBVIOUS
  <2>1. \A c \in Calls : ~Write(call[c])
    BY DEF Init, Unused, Blank, Write, UnderWay
  <2> QED
    BY <2>1 DEF Init, LInv, WritesAwaited, WritesApart, ReadsCurrent, Edits
<1>2. IInv /\ LInv /\ [Next]_vars => LInv'
  <2> SUFFICES ASSUME IInv, LInv, [Next]_vars PROVE LInv'
    OBVIOUS
  <2>1. ASSUME NEW c \in Calls, Act(c) PROVE LInv'
    BY <2>1, MutateSaveApart, OtherSendApart DEF Act
  <2>2. ASSUME NEW c \in Calls, Load(c) \/ Serve(c) \/ Refuse(c) \/ Lose(c) PROVE LInv'
    BY <2>2, LoadApart, ServeApart, RefuseApart, LoseApart
  <2>3. ASSUME NEW c \in Calls, Land(c) PROVE LInv'
    BY <2>3, LandApart
  <2>4. CASE Leave
    BY <2>4, UnmountApart DEF Leave, history
  <2>5. CASE UNCHANGED vars
    BY <2>5 DEF vars, history, LInv, WritesAwaited, WritesApart, ReadsCurrent
  <2> QED
    BY <2>1, <2>2, <2>3, <2>4, <2>5 DEF Next
<1> QED
  BY <1>1, <1>2, Inductive, PTL DEF Spec

-----------------------------------------------------------------------------
\* The screen's state and its calls keep to their types (EditorController's fields).
THEOREM TypeCorrect == Spec => []TypeOK
<1>1. IInv => TypeOK
  BY DEF IInv
<1> QED
  BY <1>1, Inductive, PTL

\* The server works on two edits or saves of one document at once, or stores one edit
\* over another, only when the app gave up on one that went on: the busy flag does the
\* rest, whatever is opened, discarded or refused meanwhile (_mutate, save).
THEOREM OverlapNeedsGivingUp == Spec => []WritesOverlapOnlyWhenLate
<1>1. LInv => WritesOverlapOnlyWhenLate
  BY DEF LInv, WritesApart, WritesOverlapOnlyWhenLate, AtWork, Write, UnderWay
<1> QED
  BY <1>1, ApartInductive, PTL

\* The flag is up exactly while a write is awaited; and unless a file could not be
\* read or written, the spinners turn only while a document is being opened or saved
\* (openDocument, the finally blocks of _mutate and save).
THEOREM NeverStuckLocked == Spec => []LockedOnlyWhileWorking
<1>1. IInv => LockedOnlyWhileWorking
  BY DEF IInv
<1> QED
  BY <1>1, Inductive, PTL

\* A document whose save was written does not come back to the screen (save).
THEOREM SavedStaysAway == Spec => []SavedDocumentDropped
<1>1. IInv => SavedDocumentDropped
  BY DEF IInv
<1> QED
  BY <1>1, Inductive, PTL

\* When nothing is under way, a picture that is not marked stale is the picture of
\* the document held and, unless an edit of it was stored over another, has every
\* edit in its model (_refreshRender, isStale).
THEOREM FrameIsCurrent == Spec => []SettledFrameIsCurrent
<1>1. IInv => SettledFrameIsCurrent
  BY DEF IInv, FrameFollows, SettledFrameIsCurrent, Quiet
<1> QED
  BY <1>1, Inductive, PTL
=============================================================================

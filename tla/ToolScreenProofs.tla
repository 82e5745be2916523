------------------------- MODULE ToolScreenProofs -------------------------
(***************************************************************************)
(* What ToolScreen guarantees for any number of calls and any limit.       *)
(***************************************************************************)
EXTENDS ToolScreen, FiniteSetTheorems, TLAPS

USE MaxCallsAssumption, LimitAssumption

\* A call's record r is that of a request under way; of a run that was charged
\* and whose outcome has not reached the badge.
UnderWay(r) == r.kind # "pick" /\ (r.app = "waiting" \/ r.server # "none")
IsCharged(r) ==
    /\ r.kind = "run"
    /\ r.server = "working" \/ (r.server = "none" /\ r.app = "waiting" /\ r.answer = "ok")
\* The remaining edits that will land are those of the moment of the answer.
IsDated(r) ==
    \/ IsCharged(r) /\ r.app = "waiting"
    \/ r.kind = "status" /\ r.app = "waiting" /\ r.answer = "ok"

Charged == {c \in Calls : IsCharged(call[c])}

Record(r) ==
    /\ r.server # "none" => r.kind # "pick" /\ r.app # "unused" /\ r.answer = "none"
    /\ r.server = "working" => r.kind = "run"
    /\ r.app = "unused" => ~r.own
    /\ r.kind = "status" => ~r.own

LoadingIfRunning == \A c \in Runs : shown /\ (interfered \/ view = "loading")
AloneIsAlone ==
    \A c \in Calls : UnderWay(call[c]) /\ call[c].alone =>
        \A b \in Calls : UnderWay(call[b]) => b = c
AloneIsExact ==
    \A c \in Calls : IsDated(call[c]) /\ call[c].alone => call[c].remaining = Limit - used
ChargesCounted == Cardinality(Charged) <= used
BadgeBehindCharges == certain => badge = Limit - used + Cardinality(Charged)

IsGivenUp(r) == r.kind = "run" /\ r.server # "none" /\ r.app # "waiting"
GivenUpIsUncertain == certain => \A c \in Calls : ~IsGivenUp(call[c])

IInv ==
    /\ TypeOK
    /\ \A c \in Calls : Record(call[c])
    /\ OneRunAtATime /\ LoadingIfRunning
    /\ AloneIsAlone /\ AloneIsExact /\ ChargesCounted
    /\ BadgeBehindCharges /\ GivenUpIsUncertain

-----------------------------------------------------------------------------
LEMMA ChargedIsFinite == IsFiniteSet(Charged) /\ Cardinality(Charged) \in Nat
<1>1. IsFiniteSet(Calls)
  BY FS_Interval DEF Calls
<1>2. Charged \subseteq Calls
  BY DEF Charged
<1> QED
  BY <1>1, <1>2, FS_Subset, FS_CardinalityType

LEMMA InitInv == Init => IInv
<1> SUFFICES ASSUME Init PROVE IInv
  OBVIOUS
<1>1. Unused \in CallStates /\ Limit \in 0..Limit /\ 0 \in 0..Limit
  BY DEF Unused, CallStates
<1>2. TypeOK
  BY <1>1 DEF Init, TypeOK
<1>3. \A c \in Calls : call[c] = Unused
  BY DEF Init
<1>4. /\ ~UnderWay(Unused) /\ ~IsCharged(Unused) /\ ~IsDated(Unused) /\ Record(Unused)
      /\ ~Unused.own /\ ~IsGivenUp(Unused)
  BY DEF Unused, UnderWay, IsCharged, IsDated, Record, IsGivenUp
<1>5. Charged = {} /\ Runs = {}
  BY <1>3, <1>4 DEF Charged, Runs, Waiting
<1>6. Cardinality(Charged) = 0
  BY <1>5, FS_EmptySet
<1> HIDE DEF Unused
<1>7. ChargesCounted /\ BadgeBehindCharges /\ GivenUpIsUncertain
  BY <1>3, <1>4, <1>5, <1>6 DEF Init, ChargesCounted, BadgeBehindCharges, GivenUpIsUncertain
<1>8. AloneIsAlone /\ AloneIsExact /\ \A c \in Calls : Record(call[c])
  BY <1>3, <1>4 DEF AloneIsAlone, AloneIsExact
<1> QED
  BY <1>2, <1>5, <1>7, <1>8 DEF IInv, OneRunAtATime, LoadingIfRunning

\* One call changes: what that does to the sets of calls.
LEMMA CallChanges ==
    ASSUME IInv, NEW c \in Calls, NEW r \in CallStates, call' = [call EXCEPT ![c] = r]
    PROVE  /\ call' \in [Calls -> CallStates]
           /\ \A b \in Calls : call'[b] = IF b = c THEN r ELSE call[b]
           /\ Charged' = IF IsCharged(r) THEN Charged \cup {c} ELSE Charged \ {c}
           /\ Cardinality(Charged') =
                IF IsCharged(r)
                THEN IF IsCharged(call[c]) THEN Cardinality(Charged) ELSE Cardinality(Charged) + 1
                ELSE IF IsCharged(call[c]) THEN Cardinality(Charged) - 1 ELSE Cardinality(Charged)
<1>1. /\ call' \in [Calls -> CallStates]
      /\ \A b \in Calls : call'[b] = IF b = c THEN r ELSE call[b]
  BY DEF IInv, TypeOK
<1>2. Charged' = IF IsCharged(r) THEN Charged \cup {c} ELSE Charged \ {c}
  BY <1>1 DEF Charged
<1>3. c \in Charged <=> IsCharged(call[c])
  BY DEF Charged
<1>4. Cardinality(Charged \cup {c}) = IF c \in Charged THEN Cardinality(Charged) ELSE Cardinality(Charged) + 1
  BY ChargedIsFinite, FS_AddElement
<1>5. Cardinality(Charged \ {c}) = IF c \in Charged THEN Cardinality(Charged) - 1 ELSE Cardinality(Charged)
  BY ChargedIsFinite, FS_RemoveElement
<1> QED
  BY <1>1, <1>2, <1>3, <1>4, <1>5

\* A call that was made goes on or ends, in the app or on the server.
LEMMA CallGoesOn ==
    ASSUME IInv, NEW c \in Calls, NEW r \in CallStates, call' = [call EXCEPT ![c] = r],
           Record(r),
           r.kind = call[c].kind /\ r.own = call[c].own /\ r.alone = call[c].alone,
           r.app = call[c].app \/ r.app = "ended",
           UnderWay(r) => UnderWay(call[c]),
           used' = used \/ UnderWay(call[c]),
           IsDated(r) /\ r.alone => r.remaining = Limit - used',
           interfered => interfered'
    PROVE  /\ (\A b \in Calls : Record(call[b]))'
           /\ Runs' \subseteq Runs
           /\ r.app = "ended" => c \notin Runs'
           /\ OneRunAtATime' /\ AloneIsAlone' /\ AloneIsExact'
<1>1. \A b \in Calls : call'[b] = IF b = c THEN r ELSE call[b]
  BY CallChanges
<1>2. (\A b \in Calls : Record(call[b]))'
  BY <1>1 DEF IInv
<1>3. Runs' \subseteq Runs /\ (r.app = "ended" => c \notin Runs')
  BY <1>1 DEF Runs, Waiting
<1>4. OneRunAtATime'
  BY <1>3 DEF IInv, OneRunAtATime
<1>5. AloneIsAlone'
  BY <1>1 DEF IInv, AloneIsAlone
<1>6. ASSUME NEW b \in Calls, IsDated(call'[b]), call'[b].alone
      PROVE  call'[b].remaining = Limit - used'
  <2>1. CASE b = c
    BY <1>1, <1>6, <2>1
  <2>2. CASE b # c
    <3>1. call'[b] = call[b]
      BY <1>1, <2>2
    <3>2. UnderWay(call[b])
      BY <1>6, <3>1 DEF IsDated, IsCharged, UnderWay
    <3>3. ~UnderWay(call[c])
      BY <1>6, <2>2, <3>1, <3>2 DEF IInv, AloneIsAlone
    <3> QED
      BY <1>6, <3>1, <3>3 DEF IInv, AloneIsExact
  <2> QED
    BY <2>1, <2>2
<1> QED
  BY <1>2, <1>3, <1>4, <1>5, <1>6 DEF AloneIsExact

\* A run or a status read leaves.
LEMMA SendKeeps ==
    ASSUME IInv, NEW c \in Calls, NEW kind \in {"run", "status"}, IsNextCall(c), Send(c, kind),
           UNCHANGED <<shown, badge, used, history>>, kind = "status" => ~shown
    PROVE  /\ call' \in [Calls -> CallStates]
           /\ (\A b \in Calls : Record(call[b]))'
           /\ Runs' = IF shown THEN Runs \cup {c} ELSE Runs
           /\ AloneIsAlone' /\ AloneIsExact' /\ ChargesCounted'
           /\ BadgeBehindCharges' /\ GivenUpIsUncertain'
<1>1. call \in [Calls -> CallStates] /\ shown \in BOOLEAN
  BY DEF IInv, TypeOK
<1>0. PICK quiet \in BOOLEAN : quiet = Quiet
  BY DEF Quiet
<1> DEFINE r == [Unused EXCEPT !.kind = kind, !.app = "waiting", !.own = shown,
                               !.server = "asked", !.alone = quiet]
           o(b) == [call[b] EXCEPT !.alone = FALSE]
<1>2. /\ r \in CallStates /\ r.kind = kind /\ r.app = "waiting" /\ r.own = shown
      /\ r.server = "asked" /\ r.alone = quiet /\ r.answer = "none"
  <2>1. Unused \in CallStates
    BY DEF Unused, CallStates
  <2>2. /\ r.kind = kind /\ r.app = "waiting" /\ r.own = shown
        /\ r.server = "asked" /\ r.alone = quiet /\ r.answer = "none"
    BY DEF Unused
  <2>3. r \in CallStates
    BY <1>0, <1>1, <2>1 DEF CallStates
  <2> QED
    BY <2>2, <2>3
<1>3. ASSUME NEW b \in Calls
      PROVE  /\ o(b) \in CallStates /\ o(b).alone = FALSE /\ o(b).kind = call[b].kind
             /\ o(b).app = call[b].app /\ o(b).own = call[b].own /\ o(b).server = call[b].server
             /\ o(b).answer = call[b].answer /\ o(b).remaining = call[b].remaining
  BY <1>1 DEF CallStates
<1>4. call' = [b \in Calls |-> IF b = c THEN r ELSE o(b)]
  BY <1>0 DEF Send
<1> HIDE DEF r, o
<1>5. call' \in [Calls -> CallStates] /\ \A b \in Calls : call'[b] = IF b = c THEN r ELSE o(b)
  BY <1>2, <1>3, <1>4
<1>6. call[c].app = "unused" /\ call[c].server = "none"
  BY <1>1 DEF IsNextCall, IInv, Record, CallStates
<1>7. ASSUME NEW b \in Calls PROVE Record(call'[b])
  <2>1. CASE b = c
    BY <1>1, <1>2, <1>5, <2>1 DEF Record
  <2>2. CASE b # c
    <3>1. call'[b] = o(b) /\ Record(call[b])
      BY <1>5, <2>2 DEF IInv
    <3> QED
      BY <1>3, <3>1 DEF Record
  <2> QED
    BY <2>1, <2>2
<1>8. Runs' = IF shown THEN Runs \cup {c} ELSE Runs
  <2>1. c \notin Runs
    BY <1>6 DEF Runs, Waiting
  <2>2. c \in Runs' <=> shown
    <3>1. kind = "status" => ~shown
      OBVIOUS
    <3> QED
      BY <1>2, <1>5, <3>1 DEF Runs, Waiting
  <2>3. ASSUME NEW b \in Calls \ {c} PROVE b \in Runs' <=> b \in Runs
    <3>1. call'[b] = o(b)
      BY <1>5
    <3>2. call'[b].kind = call[b].kind /\ call'[b].app = call[b].app /\ call'[b].own = call[b].own
      BY <1>3, <3>1
    <3> QED
      BY <3>2 DEF Runs, Waiting
  <2>4. Runs \subseteq Calls /\ Runs' \subseteq Calls
    BY DEF Runs, Waiting
  <2> QED
    BY <2>1, <2>2, <2>3, <2>4
<1>9. Charged' = Charged
  <2>1. ASSUME NEW b \in Calls PROVE IsCharged(call'[b]) <=> IsCharged(call[b])
    <3>1. CASE b = c
      BY <1>2, <1>5, <1>6, <3>1 DEF IsCharged
    <3>2. CASE b # c
      BY <1>3, <1>5, <3>2 DEF IsCharged
    <3> QED
      BY <3>1, <3>2
  <2> QED
    BY <2>1 DEF Charged
<1>10. ASSUME NEW b \in Calls, UnderWay(call'[b]), call'[b].alone
       PROVE  b = c /\ \A a \in Calls : UnderWay(call'[a]) => a = c
  <2>1. b = c
    BY <1>3, <1>5, <1>10
  <2>2. Quiet
    BY <1>0, <1>2, <1>5, <1>10, <2>1
  <2>3. \A a \in Calls : ~UnderWay(call[a])
    BY <2>2 DEF Quiet, Requests, Busy, UnderWay
  <2>4. ASSUME NEW a \in Calls, UnderWay(call'[a]), a # c PROVE FALSE
    <3>1. call'[a] = o(a)
      BY <1>5, <2>4
    <3> QED
      BY <1>3, <2>3, <2>4, <3>1 DEF UnderWay
  <2> QED
    BY <2>1, <2>4
<1>11. AloneIsAlone'
  BY <1>10 DEF AloneIsAlone
<1>12. AloneIsExact'
  <2>1. ~IsDated(r)
    BY <1>2 DEF IsDated, IsCharged
  <2> QED
    BY <1>3, <1>5, <2>1 DEF AloneIsExact
<1>13. ChargesCounted' /\ BadgeBehindCharges'
  BY <1>9 DEF IInv, ChargesCounted, BadgeBehindCharges, history
<1>14. GivenUpIsUncertain'
  <2>1. ASSUME NEW b \in Calls, IsGivenUp(call'[b]) PROVE IsGivenUp(call[b])
    <3>1. CASE b = c
      BY <1>2, <1>5, <2>1, <3>1 DEF IsGivenUp
    <3>2. CASE b # c
      <4>1. call'[b] = o(b)
        BY <1>5, <3>2
      <4> QED
        BY <1>3, <2>1, <4>1 DEF IsGivenUp
    <3> QED
      BY <3>1, <3>2
  <2> QED
    BY <2>1 DEF IInv, GivenUpIsUncertain, history
<1> QED
  BY <1>5, <1>7, <1>8, <1>11, <1>12, <1>13, <1>14

LEMMA RunKeeps == ASSUME IInv, NEW c \in Calls, Run(c) PROVE IInv'
<1>1. /\ IsNextCall(c) /\ Send(c, "run") /\ shown /\ view # "loading" /\ view' = "loading"
      /\ UNCHANGED <<shown, chosen, badge, used, history>>
  BY DEF Run
<1>2. /\ call' \in [Calls -> CallStates]
      /\ (\A b \in Calls : Record(call[b]))'
      /\ Runs' = Runs \cup {c}
      /\ AloneIsAlone' /\ AloneIsExact' /\ ChargesCounted'
      /\ BadgeBehindCharges' /\ GivenUpIsUncertain'
  BY <1>1, SendKeeps
<1>3. \A b \in Runs : interfered
  BY <1>1 DEF IInv, LoadingIfRunning
<1>4. OneRunAtATime' /\ LoadingIfRunning'
  BY <1>1, <1>2, <1>3 DEF OneRunAtATime, LoadingIfRunning, history
<1>5. TypeOK'
  BY <1>1, <1>2 DEF IInv, TypeOK, history
<1> QED
  BY <1>2, <1>4, <1>5 DEF IInv

LEMMA RefreshKeeps == ASSUME IInv, NEW c \in Calls, RefreshStatus(c) PROVE IInv'
<1>1. /\ IsNextCall(c) /\ Send(c, "status") /\ ~shown
      /\ UNCHANGED <<shown, view, chosen, badge, used, history>>
  BY DEF RefreshStatus, screen
<1>2. /\ call' \in [Calls -> CallStates]
      /\ (\A b \in Calls : Record(call[b]))'
      /\ Runs' = Runs
      /\ AloneIsAlone' /\ AloneIsExact' /\ ChargesCounted'
      /\ BadgeBehindCharges' /\ GivenUpIsUncertain'
  BY <1>1, SendKeeps
<1>3. OneRunAtATime' /\ LoadingIfRunning' /\ TypeOK'
  BY <1>1, <1>2 DEF IInv, OneRunAtATime, LoadingIfRunning, TypeOK, history
<1> QED
  BY <1>2, <1>3 DEF IInv

\* Opening and leaving the screen, choosing other files.
LEMMA ScreenKeeps ==
    ASSUME IInv, OpenScreen \/ LeaveScreen \/ Reset \/ RemoveFile
    PROVE  IInv'
<1> USE DEF history
<1>1. CASE LeaveScreen
  <2> DEFINE o(b) == [call[b] EXCEPT !.own = FALSE]
  <2>1. call \in [Calls -> CallStates]
    BY DEF IInv, TypeOK
  <2>2. ASSUME NEW b \in Calls
        PROVE  /\ o(b) \in CallStates /\ o(b).own = FALSE /\ o(b).kind = call[b].kind
               /\ o(b).app = call[b].app /\ o(b).alone = call[b].alone /\ o(b).server = call[b].server
               /\ o(b).answer = call[b].answer /\ o(b).remaining = call[b].remaining
    BY <2>1 DEF CallStates
  <2>3. call' = [b \in Calls |-> o(b)]
    BY <1>1 DEF LeaveScreen
  <2> HIDE DEF o
  <2>4. call' \in [Calls -> CallStates] /\ \A b \in Calls : call'[b] = o(b)
    BY <2>2, <2>3
  <2>5. ASSUME NEW b \in Calls
        PROVE  /\ Record(call'[b])
               /\ UnderWay(call'[b]) <=> UnderWay(call[b])
               /\ IsCharged(call'[b]) <=> IsCharged(call[b])
               /\ IsDated(call'[b]) <=> IsDated(call[b])
               /\ call'[b].alone = call[b].alone /\ call'[b].remaining = call[b].remaining
               /\ IsGivenUp(call'[b]) <=> IsGivenUp(call[b])
               /\ call'[b].own = FALSE
    <3>1. Record(call[b])
      BY DEF IInv
    <3>2. call'[b] = o(b)
      BY <2>4
    <3>3. Record(call'[b])
      BY <2>2, <3>1, <3>2 DEF Record
    <3>4. /\ UnderWay(call'[b]) <=> UnderWay(call[b])
          /\ IsCharged(call'[b]) <=> IsCharged(call[b])
          /\ IsGivenUp(call'[b]) <=> IsGivenUp(call[b])
      BY <2>2, <3>2 DEF UnderWay, IsCharged, IsGivenUp
    <3>5. IsDated(call'[b]) <=> IsDated(call[b])
      BY <2>2, <3>2, <3>4 DEF IsDated
    <3> QED
      BY <2>2, <3>2, <3>3, <3>4, <3>5
  <2>6. Charged' = Charged /\ \A b \in Charged : b \in Calls
    BY <2>5 DEF Charged
  <2>7. Runs' = {}
    BY <2>5 DEF Runs, Waiting
  <2>8. UNCHANGED <<view, chosen, badge, used, interfered, broken, certain>> /\ shown' = FALSE
    BY <1>1 DEF LeaveScreen
  <2>9. TypeOK'
    BY <2>4, <2>8 DEF IInv, TypeOK
  <2>10. AloneIsAlone' /\ AloneIsExact'
    BY <2>5, <2>8 DEF IInv, AloneIsAlone, AloneIsExact
  <2>11. ChargesCounted' /\ BadgeBehindCharges' /\ GivenUpIsUncertain'
    BY <2>5, <2>6, <2>8 DEF IInv, ChargesCounted, BadgeBehindCharges, GivenUpIsUncertain
  <2> QED
    BY <2>5, <2>7, <2>9, <2>10, <2>11 DEF IInv, OneRunAtATime, LoadingIfRunning
<1>2. CASE OpenScreen \/ Reset \/ RemoveFile
  <2>1. /\ UNCHANGED <<badge, call, used, certain>>
        /\ shown' = TRUE /\ view' \in {view, "idle"} /\ chosen' \in BOOLEAN
        /\ broken' \in BOOLEAN /\ interfered' \in BOOLEAN
        /\ \A c \in Runs : interfered /\ interfered'
    BY <1>2 DEF OpenScreen, Reset, RemoveFile, IInv, TypeOK, LoadingIfRunning
  <2>2. Runs' = Runs /\ Charged' = Charged
    BY <2>1 DEF Runs, Waiting, Charged
  <2>3. OneRunAtATime' /\ LoadingIfRunning' /\ TypeOK'
    BY <2>1, <2>2 DEF IInv, OneRunAtATime, LoadingIfRunning, TypeOK
  <2> QED
    BY <2>1, <2>2, <2>3 DEF IInv, AloneIsAlone, AloneIsExact, ChargesCounted, BadgeBehindCharges,
       GivenUpIsUncertain
<1> QED
  BY <1>1, <1>2

\* Only the calls and the counter change, and the app does not end the call: steps
\* of the server, and a run that ends without saying anything to the badge.
LEMMA ServeKeeps == ASSUME IInv, NEW c \in Calls, Serve(c) PROVE IInv'
<1>1. /\ call \in [Calls -> CallStates] /\ call[c] \in CallStates
      /\ used \in 0..Limit /\ badge \in 0..Limit /\ Record(call[c])
  BY DEF IInv, TypeOK
<1>2. call[c].server # "none" /\ call[c].kind # "pick" /\ UnderWay(call[c]) /\ call[c].answer = "none"
  BY <1>1 DEF Serve, Charge, Reject, Produce, Refund, ReadStatus, NotServed, Record, UnderWay
<1>3. UNCHANGED <<shown, view, chosen, badge, interfered, broken, certain>>
  BY DEF Serve, Charge, Reject, Produce, Refund, ReadStatus, NotServed, screen, history
<1>4. IsCharged(call[c]) => call[c].server = "working"
  BY <1>2 DEF IsCharged
<1>5. PICK r \in CallStates :
        /\ call' = [call EXCEPT ![c] = r]
        /\ r.kind = call[c].kind /\ r.own = call[c].own /\ r.alone = call[c].alone
        /\ r.app = call[c].app
        /\ \/ /\ r.server = "working" /\ r.answer = "none" /\ r.kind = "run" /\ call[c].server = "asked"
              /\ used' = used + 1 /\ used < Limit /\ r.remaining = Limit - used'
           \/ /\ r.server = "none" /\ call[c].server = "working" /\ r.answer = "ok"
              /\ used' = used /\ r.remaining = call[c].remaining
           \/ /\ r.server = "none" /\ call[c].server = "working" /\ r.answer = "error"
              /\ used' = used - 1
           \/ /\ r.server = "none" /\ call[c].server = "asked" /\ r.answer = "ok" /\ r.kind = "status"
              /\ used' = used /\ r.remaining = Limit - used
           \/ /\ r.server = "none" /\ call[c].server = "asked" /\ r.answer \in {"error", "quota"}
              /\ used' = used
  <2>1. CASE Charge(c)
    <3> DEFINE r == [call[c] EXCEPT !.server = "working", !.remaining = Limit - used - 1]
    <3>1. used < Limit /\ Limit - used - 1 \in 0..Limit
      BY <1>1, <2>1 DEF Charge
    <3>2. r \in CallStates
      BY <1>1, <3>1 DEF CallStates
    <3>3. /\ call' = [call EXCEPT ![c] = r]
          /\ r.kind = call[c].kind /\ r.own = call[c].own /\ r.alone = call[c].alone
          /\ r.app = call[c].app /\ r.server = "working" /\ r.answer = "none" /\ r.kind = "run"
          /\ call[c].server = "asked" /\ used' = used + 1 /\ used < Limit
          /\ r.remaining = Limit - used - 1
      BY <1>1, <1>2, <2>1 DEF Charge, CallStates
    <3>4. Limit - used - 1 = Limit - used'
      BY <1>1, <3>3
    <3> HIDE DEF r
    <3> QED
      BY <3>2, <3>3, <3>4
  <2>2. CASE ~Charge(c)
    <3> DEFINE r(answer, n) == [call[c] EXCEPT !.server = "none", !.answer = answer, !.remaining = n]
    <3>1. ASSUME NEW answer \in {"ok", "quota", "error"}, NEW n \in 0..Limit
          PROVE  /\ r(answer, n) \in CallStates
                 /\ r(answer, n).kind = call[c].kind /\ r(answer, n).own = call[c].own
                 /\ r(answer, n).alone = call[c].alone /\ r(answer, n).app = call[c].app
                 /\ r(answer, n).server = "none" /\ r(answer, n).answer = answer
                 /\ r(answer, n).remaining = n
      BY <1>1 DEF CallStates
    <3>2. call[c].remaining \in 0..Limit /\ Limit - used \in 0..Limit /\ 0 \in 0..Limit
      BY <1>1 DEF CallStates
    <3>3. \/ /\ call' = [call EXCEPT ![c] = r("ok", call[c].remaining)]
             /\ used' = used /\ call[c].server = "working"
          \/ /\ call' = [call EXCEPT ![c] = r("error", 0)]
             /\ used' = used - 1 /\ call[c].server = "working"
          \/ /\ call' = [call EXCEPT ![c] = r("ok", Limit - used)]
             /\ used' = used /\ call[c].server = "asked" /\ call[c].kind = "status"
          \/ /\ call' = [call EXCEPT ![c] = r("error", 0)] \/ call' = [call EXCEPT ![c] = r("quota", 0)]
             /\ used' = used /\ call[c].server = "asked"
      BY <2>2 DEF Serve, Reject, Produce, Refund, ReadStatus, NotServed, Answer
    <3> HIDE DEF r
    <3> QED
      BY <3>1, <3>2, <3>3
  <2> QED
    BY <2>1, <2>2
<1>6. Record(r)
  BY <1>1, <1>5 DEF Record
<1>7. UnderWay(r) => UnderWay(call[c])
  BY <1>2
<1>8. IsDated(r) /\ r.alone => r.remaining = Limit - used'
  <2> SUFFICES ASSUME IsDated(r), r.alone PROVE r.remaining = Limit - used'
    OBVIOUS
  <2>1. CASE call[c].server = "working" /\ r.answer = "ok"
    <3>1. IsDated(call[c]) /\ call[c].alone
      BY <1>1, <1>5, <2>1 DEF IsDated, IsCharged, Record
    <3> QED
      BY <1>5, <2>1, <3>1 DEF IInv, AloneIsExact
  <2>2. CASE ~(call[c].server = "working" /\ r.answer = "ok")
    BY <1>5, <2>2 DEF IsDated, IsCharged
  <2> QED
    BY <2>1, <2>2
<1>9. /\ (\A b \in Calls : Record(call[b]))'
      /\ Runs' \subseteq Runs /\ OneRunAtATime' /\ AloneIsAlone' /\ AloneIsExact'
  BY <1>2, <1>3, <1>5, <1>6, <1>7, <1>8, CallGoesOn
<1>10. LoadingIfRunning'
  BY <1>3, <1>9 DEF IInv, LoadingIfRunning
<1>11. /\ call' \in [Calls -> CallStates]
       /\ \A b \in Calls : call'[b] = IF b = c THEN r ELSE call[b]
       /\ Charged' = IF IsCharged(r) THEN Charged \cup {c} ELSE Charged \ {c}
       /\ Cardinality(Charged') =
            IF IsCharged(r)
            THEN IF IsCharged(call[c]) THEN Cardinality(Charged) ELSE Cardinality(Charged) + 1
            ELSE IF IsCharged(call[c]) THEN Cardinality(Charged) - 1 ELSE Cardinality(Charged)
  BY <1>5, CallChanges
<1>12. GivenUpIsUncertain'
  <2>1. IsGivenUp(r) => IsGivenUp(call[c])
    BY <1>2, <1>5 DEF IsGivenUp
  <2> QED
    BY <1>3, <1>11, <2>1 DEF IInv, GivenUpIsUncertain
<1>13. ChargesCounted' /\ BadgeBehindCharges' /\ used' \in 0..Limit
  <2> DEFINE n == Cardinality(Charged)
             m == Cardinality(Charged')
  <2>1. n \in Nat /\ n <= used /\ (certain => badge = Limit - used + n)
    BY ChargedIsFinite DEF IInv, ChargesCounted, BadgeBehindCharges
  <2>2. certain => call[c].app = "waiting" \/ call[c].kind # "run"
    BY <1>2 DEF IInv, GivenUpIsUncertain, IsGivenUp
  <2>3. call[c].server = "working" => IsCharged(call[c]) /\ n >= 1
    <3>1. ASSUME call[c].server = "working" PROVE IsCharged(call[c]) /\ c \in Charged
      BY <1>1, <3>1 DEF IsCharged, Record, Charged
    <3>2. Charged # {} => n # 0
      BY ChargedIsFinite, FS_EmptySet
    <3> QED
      BY <2>1, <3>1, <3>2
  <2>4. CASE r.server = "working"
    <3>1. m = n + 1 /\ used' = used + 1 /\ used < Limit
      BY <1>4, <1>5, <1>11, <2>4 DEF IsCharged
    <3> QED
      BY <1>1, <1>3, <2>1, <3>1 DEF ChargesCounted, BadgeBehindCharges
  <2>5. CASE r.server # "working" /\ call[c].server = "working" /\ r.answer = "ok"
    <3>1. used' = used /\ (m = n \/ m = n - 1) /\ (certain => m = n)
      BY <1>1, <1>5, <1>11, <2>2, <2>3, <2>5 DEF IsCharged, Record
    <3> QED
      BY <1>1, <1>3, <2>1, <3>1 DEF ChargesCounted, BadgeBehindCharges
  <2>6. CASE r.server # "working" /\ call[c].server = "working" /\ r.answer # "ok"
    <3>1. used' = used - 1 /\ m = n - 1
      BY <1>5, <1>11, <2>3, <2>6 DEF IsCharged
    <3> QED
      BY <1>1, <1>3, <2>1, <2>3, <2>6, <3>1 DEF ChargesCounted, BadgeBehindCharges
  <2>7. CASE call[c].server = "asked" /\ r.server = "none"
    <3>1. used' = used /\ m = n
      BY <1>4, <1>5, <1>11, <2>7 DEF IsCharged
    <3> QED
      BY <1>1, <1>3, <2>1, <3>1 DEF ChargesCounted, BadgeBehindCharges
  <2> QED
    BY <1>5, <2>4, <2>5, <2>6, <2>7
<1>14. TypeOK'
  BY <1>3, <1>11, <1>13 DEF IInv, TypeOK
<1> QED
  BY <1>9, <1>10, <1>12, <1>13, <1>14 DEF IInv

\* Files begin to be read: nothing but the record of the pick changes.
LEMMA PickKeeps == ASSUME IInv, NEW c \in Calls, Pick(c) PROVE IInv'
<1> DEFINE r == [Unused EXCEPT !.kind = "pick", !.app = "waiting", !.own = TRUE]
<1>1. /\ r \in CallStates /\ r.kind = "pick" /\ r.server = "none" /\ r.app = "waiting"
  <2>1. Unused \in CallStates
    BY DEF Unused, CallStates
  <2>2. r.kind = "pick" /\ r.server = "none" /\ r.app = "waiting"
    BY DEF Unused
  <2> QED
    BY <2>1, <2>2 DEF CallStates
<1>2. /\ call' = [call EXCEPT ![c] = r] /\ call[c].app = "unused"
      /\ UNCHANGED <<shown, view, chosen, badge, used, interfered, broken, certain>>
  BY DEF Pick, IsNextCall, screen, history
<1> HIDE DEF r
<1>3. ~UnderWay(r) /\ ~IsCharged(r) /\ ~IsDated(r) /\ ~IsGivenUp(r) /\ Record(r)
  BY <1>1 DEF UnderWay, IsCharged, IsDated, IsGivenUp, Record
<1>4. ~IsCharged(call[c])
  BY <1>2 DEF IInv, Record, IsCharged
<1>5. /\ call' \in [Calls -> CallStates]
      /\ \A b \in Calls : call'[b] = IF b = c THEN r ELSE call[b]
      /\ Charged' = Charged \ {c}
      /\ Cardinality(Charged') = Cardinality(Charged)
  BY <1>1, <1>2, <1>3, <1>4, CallChanges
<1>6. Runs' = Runs
  BY <1>1, <1>2, <1>5 DEF Runs, Waiting
<1>7. TypeOK' /\ OneRunAtATime' /\ LoadingIfRunning'
  BY <1>2, <1>5, <1>6 DEF IInv, TypeOK, OneRunAtATime, LoadingIfRunning
<1>8. (\A b \in Calls : Record(call[b]))' /\ AloneIsAlone' /\ AloneIsExact'
  BY <1>2, <1>3, <1>5 DEF IInv, AloneIsAlone, AloneIsExact
<1>9. ChargesCounted' /\ BadgeBehindCharges' /\ GivenUpIsUncertain'
  BY <1>2, <1>3, <1>5 DEF IInv, ChargesCounted, BadgeBehindCharges, GivenUpIsUncertain
<1> QED
  BY <1>7, <1>8, <1>9 DEF IInv

\* The app is done with a call: with its answer, or without.
LEMMA LandKeeps == ASSUME IInv, NEW c \in Calls, Land(c) PROVE IInv'
<1>1. /\ call \in [Calls -> CallStates] /\ call[c] \in CallStates
      /\ used \in 0..Limit /\ badge \in 0..Limit /\ Record(call[c])
  BY DEF IInv, TypeOK
<1>2. call[c].app = "waiting"
  BY DEF Land, RunSucceeds, RunFails, GiveUp, FileUnreadable, ResultNotWritten, StatusLands,
     StatusFails, PickLands, PickFails, Lands, Waiting
<1>3. PICK r \in CallStates :
        /\ call' = [call EXCEPT ![c] = r]
        /\ r.kind = call[c].kind /\ r.own = call[c].own /\ r.alone = call[c].alone
        /\ r.app = "ended" /\ r.answer = call[c].answer
        /\ r.server = call[c].server \/ (r.server = "none" /\ call[c].server = "asked")
        /\ FileUnreadable(c) => r.server = "none"
  <2>1. CASE FileUnreadable(c)
    <3> DEFINE r == [call[c] EXCEPT !.app = "ended", !.server = "none"]
    <3>1. /\ r \in CallStates /\ r.kind = call[c].kind /\ r.own = call[c].own
          /\ r.alone = call[c].alone /\ r.app = "ended" /\ r.answer = call[c].answer
          /\ r.server = "none"
      BY <1>1 DEF CallStates
    <3>2. call' = [call EXCEPT ![c] = r] /\ call[c].server = "asked"
      BY <2>1 DEF FileUnreadable
    <3> HIDE DEF r
    <3> QED
      BY <3>1, <3>2
  <2>2. CASE ~FileUnreadable(c)
    <3> DEFINE r == [call[c] EXCEPT !.app = "ended"]
    <3>1. /\ r \in CallStates /\ r.kind = call[c].kind /\ r.own = call[c].own
          /\ r.alone = call[c].alone /\ r.app = "ended" /\ r.answer = call[c].answer
          /\ r.server = call[c].server
      BY <1>1 DEF CallStates
    <3>2. call' = [call EXCEPT ![c] = r]
      BY <2>2 DEF Land, RunSucceeds, RunFails, GiveUp, ResultNotWritten, StatusLands,
         StatusFails, PickLands, PickFails, Lands
    <3> HIDE DEF r
    <3> QED
      BY <2>2, <3>1, <3>2
  <2> QED
    BY <2>1, <2>2
<1>4. /\ UNCHANGED <<shown, used>>
      /\ interfered => interfered'
      /\ view' \in {"idle", "loading", "success", "failed", "quota"} /\ chosen' \in BOOLEAN
      /\ interfered' \in BOOLEAN /\ broken' \in BOOLEAN /\ certain' \in BOOLEAN
      /\ \/ view' = view
         \/ call[c].kind = "run" /\ call[c].own
         \/ interfered' \/ Runs = {}
  <2>1. call[c].alone \in BOOLEAN /\ call[c].own \in BOOLEAN
    BY <1>1 DEF CallStates
  <2>2. CASE RunSucceeds(c) \/ RunFails(c) \/ GiveUp(c) \/ ResultNotWritten(c)
    BY <2>1, <2>2 DEF RunSucceeds, RunFails, GiveUp, ResultNotWritten, Show, Lands, IInv, TypeOK,
       screen, history, Waiting
  <2>3. CASE FileUnreadable(c) \/ StatusLands(c) \/ StatusFails(c) \/ PickFails(c)
    BY <2>1, <2>3 DEF FileUnreadable, StatusLands, StatusFails, PickFails, IInv, TypeOK, screen, history
  <2>4. CASE PickLands(c)
    BY <2>1, <2>4 DEF PickLands, IInv, TypeOK
  <2> QED
    BY <2>2, <2>3, <2>4 DEF Land
<1>5. \/ /\ badge' = call[c].remaining /\ certain' = call[c].alone
         /\ IsDated(call[c]) /\ call[c].server = "none"
      \/ /\ badge' = badge /\ certain' = (certain /\ call[c].kind = "status")
         /\ ~certain' \/ ~IsCharged(call[c])
      \/ /\ badge' = badge /\ certain' = FALSE
      \/ /\ badge' = badge /\ certain' = certain /\ ~IsCharged(call[c])
         /\ r.kind = "run" => r.server = "none"
  <2>1. CASE RunSucceeds(c) \/ StatusLands(c)
    BY <2>1 DEF RunSucceeds, StatusLands, Lands, IsDated, IsCharged
  <2>2. CASE GiveUp(c)
    BY <2>2 DEF GiveUp, IsCharged
  <2>3. CASE ResultNotWritten(c)
    BY <2>3 DEF ResultNotWritten
  <2>4. CASE RunFails(c) \/ StatusFails(c) \/ PickLands(c) \/ PickFails(c) \/ FileUnreadable(c)
    BY <1>3, <2>4 DEF RunFails, StatusFails, PickLands, PickFails, FileUnreadable, Lands, Waiting,
       IsCharged, history
  <2> QED
    BY <2>1, <2>2, <2>3, <2>4 DEF Land
<1>6. Record(r) /\ ~IsDated(r) /\ (IsCharged(r) => IsCharged(call[c]) \/ call[c].server = "working")
  BY <1>1, <1>2, <1>3 DEF Record, IsDated, IsCharged
<1>7. UnderWay(r) => UnderWay(call[c])
  BY <1>2, <1>3 DEF UnderWay
<1>8. /\ (\A b \in Calls : Record(call[b]))'
      /\ Runs' \subseteq Runs /\ c \notin Runs'
      /\ OneRunAtATime' /\ AloneIsAlone' /\ AloneIsExact'
  BY <1>2, <1>3, <1>4, <1>6, <1>7, CallGoesOn
<1>9. LoadingIfRunning'
  <2> SUFFICES ASSUME NEW b \in Runs' PROVE (shown /\ (interfered \/ view = "loading"))'
    BY DEF LoadingIfRunning
  <2>1. b \in Runs /\ b # c /\ shown /\ (interfered \/ view = "loading")
    BY <1>8 DEF IInv, LoadingIfRunning
  <2>2. CASE call[c].kind = "run" /\ call[c].own
    <3>1. c \in Runs
      BY <1>2, <2>2 DEF Runs, Waiting
    <3>2. interfered
      BY <2>1, <3>1 DEF IInv, OneRunAtATime
    <3> QED
      BY <1>4, <2>1, <3>2
  <2>3. CASE ~(call[c].kind = "run" /\ call[c].own)
    BY <1>4, <2>1, <2>3
  <2> QED
    BY <2>2, <2>3
<1>10. /\ call' \in [Calls -> CallStates]
       /\ \A b \in Calls : call'[b] = IF b = c THEN r ELSE call[b]
       /\ Charged' = IF IsCharged(r) THEN Charged \cup {c} ELSE Charged \ {c}
       /\ Cardinality(Charged') =
            IF IsCharged(r)
            THEN IF IsCharged(call[c]) THEN Cardinality(Charged) ELSE Cardinality(Charged) + 1
            ELSE IF IsCharged(call[c]) THEN Cardinality(Charged) - 1 ELSE Cardinality(Charged)
  BY <1>3, CallChanges
<1>11. IsCharged(r) => IsCharged(call[c])
  BY <1>1, <1>6 DEF IsCharged, Record
<1>12. /\ Cardinality(Charged) \in Nat /\ Cardinality(Charged) <= used
       /\ Cardinality(Charged') \in {Cardinality(Charged), Cardinality(Charged) - 1}
       /\ ~IsCharged(call[c]) => Cardinality(Charged') = Cardinality(Charged)
  BY <1>10, <1>11, ChargedIsFinite DEF IInv, ChargesCounted
<1>13. ChargesCounted'
  BY <1>1, <1>4, <1>12 DEF ChargesCounted
<1>14. CASE /\ badge' = call[c].remaining /\ certain' = call[c].alone
            /\ IsDated(call[c]) /\ call[c].server = "none"
  <2>1. ASSUME call[c].alone PROVE BadgeBehindCharges' /\ GivenUpIsUncertain'
    <3>1. UnderWay(call[c])
      BY <1>14 DEF IsDated, IsCharged, UnderWay
    <3>2. \A b \in Calls : UnderWay(call[b]) => b = c
      BY <2>1, <3>1 DEF IInv, AloneIsAlone
    <3>3. ASSUME NEW b \in Calls, b # c PROVE ~IsCharged(call[b]) /\ ~IsGivenUp(call[b])
      BY <3>2, <3>3 DEF UnderWay, IsCharged, IsGivenUp
    <3>4. ~IsCharged(r) /\ ~IsGivenUp(r)
      BY <1>3, <1>14 DEF IsCharged, IsGivenUp
    <3>5. ASSUME NEW b \in Calls PROVE ~IsCharged(call'[b]) /\ ~IsGivenUp(call'[b])
      BY <1>10, <3>3, <3>4
    <3>6. Charged' = {}
      BY <3>5 DEF Charged
    <3>7. Cardinality(Charged') = 0
      BY <3>6, FS_EmptySet
    <3>8. badge' = Limit - used'
      BY <1>4, <1>14, <2>1 DEF IInv, AloneIsExact
    <3>9. BadgeBehindCharges' /\ GivenUpIsUncertain'
      <4>1. Limit - used' = Limit - used' + 0
        BY <1>1, <1>4
      <4> QED
        BY <3>5, <3>7, <3>8, <4>1 DEF BadgeBehindCharges, GivenUpIsUncertain
    <3> QED
      BY <3>9
  <2>2. ASSUME ~call[c].alone PROVE BadgeBehindCharges' /\ GivenUpIsUncertain'
    BY <1>14, <2>2 DEF BadgeBehindCharges, GivenUpIsUncertain
  <2>3. badge' \in 0..Limit
    BY <1>1, <1>14 DEF CallStates
  <2>4. TypeOK'
    BY <1>1, <1>4, <1>10, <2>3 DEF IInv, TypeOK
  <2> QED
    BY <1>8, <1>9, <1>13, <2>1, <2>2, <2>4 DEF IInv
<1>15. CASE /\ badge' = badge
            /\ ~certain' \/ (/\ certain /\ ~IsCharged(call[c])
                             /\ r.kind = "run" => r.server = "none")
  <2>1. BadgeBehindCharges'
    BY <1>1, <1>4, <1>12, <1>15 DEF IInv, BadgeBehindCharges
  <2>2. GivenUpIsUncertain'
    <3>1. certain' => certain /\ ~IsGivenUp(r)
      BY <1>15 DEF IsGivenUp
    <3> QED
      BY <1>10, <3>1 DEF IInv, GivenUpIsUncertain
  <2>3. TypeOK'
    BY <1>1, <1>4, <1>10, <1>15 DEF IInv, TypeOK
  <2> QED
    BY <1>8, <1>9, <1>13, <2>1, <2>2, <2>3 DEF IInv
<1>16. \/ /\ badge' = call[c].remaining /\ certain' = call[c].alone
          /\ IsDated(call[c]) /\ call[c].server = "none"
       \/ /\ badge' = badge
          /\ ~certain' \/ (/\ certain /\ ~IsCharged(call[c])
                           /\ r.kind = "run" => r.server = "none")
  <2>1. CASE badge' = badge /\ certain' /\ certain' = (certain /\ call[c].kind = "status")
    <3>1. certain /\ r.kind # "run"
      BY <1>3, <2>1
    <3> QED
      BY <1>3, <2>1, <3>1 DEF IsCharged
  <2>2. CASE ~(badge' = badge /\ certain' /\ certain' = (certain /\ call[c].kind = "status"))
    BY <1>5, <2>2
  <2> QED
    BY <2>1, <2>2
<1> QED
  BY <1>14, <1>15, <1>16

-----------------------------------------------------------------------------
(* What a screen's run, the picker and the quota reads keep between them is   *)
(* inductive (edit_controller.dart, session_controller.dart).               *)
THEOREM Inductive == Spec => []IInv
<1>1. Init => IInv
  BY InitInv
<1>2. IInv /\ [Next]_vars => IInv'
  <2> SUFFICES ASSUME IInv, [Next]_vars PROVE IInv'
    OBVIOUS
  <2>1. CASE UNCHANGED vars
    <3>1. UNCHANGED <<shown, view, chosen, badge, call, used, interfered, broken, certain>>
      BY <2>1 DEF vars, screen, history
    <3>2. Runs' = Runs /\ Charged' = Charged
      BY <3>1 DEF Runs, Waiting, Charged
    <3> QED
      BY <3>1, <3>2 DEF IInv, TypeOK, OneRunAtATime, LoadingIfRunning, AloneIsAlone, AloneIsExact,
         ChargesCounted, BadgeBehindCharges, GivenUpIsUncertain
  <2>2. CASE OpenScreen \/ LeaveScreen \/ Reset \/ RemoveFile
    BY <2>2, ScreenKeeps
  <2>3. ASSUME NEW c \in Calls, Pick(c) \/ Run(c) \/ RefreshStatus(c) \/ Serve(c) \/ Land(c)
        PROVE  IInv'
    BY <2>3, PickKeeps, RunKeeps, RefreshKeeps, ServeKeeps, LandKeeps
  <2> QED
    BY <2>1, <2>2, <2>3 DEF Next
<1> QED
  BY <1>1, <1>2, PTL DEF Spec

(* The state has its type.                                                 *)
THEOREM TypeCorrect == Spec => []TypeOK
<1>1. IInv => TypeOK
  BY DEF IInv
<1> QED
  BY <1>1, Inductive, PTL

(* One press is one charge: a screen has one run under way at a time        *)
(* (edit_controller.dart run, canRun), unless a pick landed on top of it.   *)
THEOREM OneRun == Spec => []OneRunAtATime
<1>1. IInv => OneRunAtATime
  BY DEF IInv
<1> QED
  BY <1>1, Inductive, PTL

(* The badge shows what is left once nothing is under way, when the call    *)
(* that set it was alone (session_controller.dart applyQuotaAfterEdit,      *)
(* refreshStatus).                                                         *)
THEOREM BadgeExact == Spec => []BadgeIsExact
<1>1. IInv => BadgeIsExact
  <2> SUFFICES ASSUME IInv, Quiet, certain PROVE badge = Limit - used
    BY DEF BadgeIsExact
  <2>1. \A c \in Calls : ~IsCharged(call[c])
    BY DEF Quiet, Requests, Busy, IsCharged
  <2>2. Charged = {}
    BY <2>1 DEF Charged
  <2>3. Cardinality(Charged) = 0
    BY <2>2, FS_EmptySet
  <2>4. badge = Limit - used + 0 /\ used \in 0..Limit
    BY <2>3 DEF IInv, BadgeBehindCharges, TypeOK
  <2> QED
    BY <2>4
<1> QED
  BY <1>1, Inductive, PTL
=============================================================================

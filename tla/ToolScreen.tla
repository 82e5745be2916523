---------------------------- MODULE ToolScreen ----------------------------
(***************************************************************************)
(* A tool screen of the app and the quota badge behind it: EditController, *)
(* made anew each time the screen is opened, and SessionController, whose  *)
(* remaining edits are set by the answer of a run and by a status read     *)
(* (lib/features/pdf/edit_controller.dart, pdf_repository.dart,            *)
(* tool_page.dart, lib/features/auth/session_controller.dart).             *)
(*                                                                         *)
(* Dart runs one callback at a time, so a step is the code between two     *)
(* awaits.  The server is the weekly counter of a free account, within one *)
(* week: EditPipeline is the rest.                                         *)
(***************************************************************************)
EXTENDS Integers

CONSTANTS
    MaxCalls,  \* how many runs, picks and status reads there are
    Limit      \* settings.free_weekly_edit_quota

ASSUME MaxCallsAssumption == MaxCalls \in Nat
ASSUME LimitAssumption == Limit \in Nat

VARIABLES
    shown,      \* the tool screen is open, the home screen otherwise
    view,       \* _state
    chosen,     \* _files has as many files as the tool needs
    badge,      \* _status.quota.remaining
    call,       \* per call: what it is, what the app and the server know of it
    used,       \* server: edits_used
    interfered, \* history: a pick landed on this screen while a run was under way
    broken,     \* history: a file could not be read or written on this screen
    certain     \* history: the badge was last set by a call that nothing overlapped

screen == <<shown, view, chosen>>
history == <<interfered, broken, certain>>
vars == <<screen, badge, call, used, history>>

Calls == 1..MaxCalls

Unused ==
    [kind |-> "run", app |-> "unused", own |-> FALSE, server |-> "none",
     answer |-> "none", remaining |-> 0, alone |-> TRUE]

CallStates ==
    [kind : {"run", "pick", "status"}, app : {"unused", "waiting", "ended"}, own : BOOLEAN,
     server : {"none", "asked", "working"}, answer : {"none", "ok", "quota", "error"},
     remaining : 0..Limit, alone : BOOLEAN]

TypeOK ==
    /\ shown \in BOOLEAN /\ chosen \in BOOLEAN
    /\ view \in {"idle", "loading", "success", "failed", "quota"}
    /\ badge \in 0..Limit /\ used \in 0..Limit
    /\ call \in [Calls -> CallStates]
    /\ interfered \in BOOLEAN /\ broken \in BOOLEAN /\ certain \in BOOLEAN

Init ==
    /\ shown = FALSE /\ view = "idle" /\ chosen = FALSE
    /\ badge = Limit /\ used = 0
    /\ call = [c \in Calls |-> Unused]
    /\ interfered = FALSE /\ broken = FALSE /\ certain = TRUE

Waiting(kind) == {c \in Calls : call[c].kind = kind /\ call[c].app = "waiting"}
Runs == {c \in Waiting("run") : call[c].own}
Requests == {c \in Calls : call[c].kind # "pick"}

\* A run or a status read is under way, in the app or on the server.
Busy(c) == call[c].app = "waiting" \/ call[c].server # "none"
Quiet == \A c \in Requests : ~Busy(c)

IsNextCall(c) == call[c].app = "unused" /\ \A b \in 1..(c - 1) : call[b].app # "unused"

\* A request leaves for the server; what was under way is no longer alone.
Send(c, kind) ==
    call' = [b \in Calls |->
               IF b = c THEN [Unused EXCEPT !.kind = kind, !.app = "waiting", !.own = shown,
                                            !.server = "asked", !.alone = Quiet]
               ELSE [call[b] EXCEPT !.alone = FALSE]]

-----------------------------------------------------------------------------
\* What the person does.  AbsorbPointer holds back every gesture on the screen
\* while the state is loading, except the way back.

\* A new ToolPage with its own controller.
OpenScreen ==
    /\ ~shown
    /\ shown' = TRUE /\ view' = "idle" /\ chosen' = FALSE
    /\ interfered' = FALSE /\ broken' = FALSE
    /\ UNCHANGED <<badge, call, used, certain>>

\* The route is popped: what is under way goes on without its controller.
LeaveScreen ==
    /\ shown
    /\ shown' = FALSE
    /\ call' = [c \in Calls |-> [call[c] EXCEPT !.own = FALSE]]
    /\ UNCHANGED <<view, chosen, badge, used, history>>

\* pickFiles after the picker closed: the chosen files are read one by one.
Pick(c) ==
    /\ shown /\ view # "loading"
    /\ IsNextCall(c)
    /\ call' = [call EXCEPT ![c] = [Unused EXCEPT !.kind = "pick", !.app = "waiting", !.own = TRUE]]
    /\ UNCHANGED <<screen, badge, used, history>>

\* reset; removeFile as far as it leaves too few files.
Reset ==
    /\ shown /\ view # "loading"
    /\ chosen' = FALSE
    /\ view' = "idle"
    /\ UNCHANGED <<shown, badge, call, used, history>>
RemoveFile ==
    /\ shown /\ view # "loading" /\ chosen
    /\ chosen' = FALSE
    /\ UNCHANGED <<shown, view, badge, call, used, history>>

\* Mutant: canRun without its look at the state.
RunWhileLoading(c) ==
    /\ shown /\ chosen
    /\ IsNextCall(c)
    /\ Send(c, "run")
    /\ view' = "loading"
    /\ UNCHANGED <<shown, chosen, badge, used, history>>

\* run, up to its first await; canRun is its guard.
Run(c) ==
    /\ shown /\ chosen /\ view # "loading"
    /\ IsNextCall(c)
    /\ Send(c, "run")
    /\ view' = "loading"
    /\ UNCHANGED <<shown, chosen, badge, used, history>>

\* refreshStatus, by pulling down the home screen.
RefreshStatus(c) ==
    /\ ~shown
    /\ IsNextCall(c)
    /\ Send(c, "status")
    /\ UNCHANGED <<screen, badge, used, history>>

-----------------------------------------------------------------------------
\* The server, whether or not the app still waits.

Answer(c, result, remaining) ==
    call' = [call EXCEPT ![c].server = "none", ![c].answer = result, ![c].remaining = remaining]

\* try_consume, committed before the file is produced; the remaining edits of
\* the answer are those of this moment.
Charge(c) ==
    /\ call[c].kind = "run" /\ call[c].server = "asked"
    /\ used < Limit
    /\ used' = used + 1
    /\ call' = [call EXCEPT ![c].server = "working", ![c].remaining = Limit - used - 1]
    /\ UNCHANGED <<screen, badge, history>>

Reject(c) ==
    /\ call[c].kind = "run" /\ call[c].server = "asked"
    /\ used = Limit
    /\ Answer(c, "quota", 0)
    /\ UNCHANGED <<screen, badge, used, history>>

Produce(c) ==
    /\ call[c].server = "working"
    /\ Answer(c, "ok", call[c].remaining)
    /\ UNCHANGED <<screen, badge, used, history>>

\* produce raises: the charge is refunded.
Refund(c) ==
    /\ call[c].server = "working"
    /\ used' = used - 1
    /\ Answer(c, "error", 0)
    /\ UNCHANGED <<screen, badge, history>>

\* read_status.
ReadStatus(c) ==
    /\ call[c].kind = "status" /\ call[c].server = "asked"
    /\ Answer(c, "ok", Limit - used)
    /\ UNCHANGED <<screen, badge, used, history>>

\* It never arrives, or is turned away before anything is charged.
NotServed(c) ==
    /\ call[c].server = "asked"
    /\ Answer(c, "error", 0)
    /\ UNCHANGED <<screen, badge, used, history>>

-----------------------------------------------------------------------------
\* Where the answers land.

Lands(c, kind, answers) ==
    /\ call[c].kind = kind /\ call[c].app = "waiting"
    /\ call[c].server = "none" /\ call[c].answer \in answers
    /\ call' = [call EXCEPT ![c].app = "ended"]

Show(c, to) == view' = IF call[c].own THEN to ELSE view

\* Mutant: the badge counts down by one.
RunCountsDown(c) ==
    /\ Lands(c, "run", {"ok"})
    /\ badge' = IF badge > 0 THEN badge - 1 ELSE 0
    /\ certain' = call[c].alone
    /\ Show(c, "success")
    /\ UNCHANGED <<shown, chosen, used, interfered, broken>>

\* applyQuotaAfterEdit, then the result; a disposed controller shows nothing.
RunSucceeds(c) ==
    /\ Lands(c, "run", {"ok"})
    /\ badge' = call[c].remaining
    /\ certain' = call[c].alone
    /\ Show(c, "success")
    /\ UNCHANGED <<shown, chosen, used, interfered, broken>>

\* Mutant: only a success and a quota failure leave the loading state.
RunFailsSilently(c) ==
    /\ Lands(c, "run", {"error"})
    /\ UNCHANGED <<screen, badge, used, history>>

RunFails(c) ==
    /\ Lands(c, "run", {"quota", "error"})
    /\ Show(c, IF call[c].answer = "quota" THEN "quota" ELSE "failed")
    /\ UNCHANGED <<shown, chosen, badge, used, history>>

\* The app gives up while the server goes on (a timeout, a lost answer).
GiveUp(c) ==
    /\ c \in Waiting("run") \cup Waiting("status")
    /\ call' = [call EXCEPT ![c].app = "ended"]
    /\ certain' = (certain /\ call[c].kind = "status")
    /\ IF call[c].kind = "run" THEN Show(c, "failed") ELSE UNCHANGED view
    /\ UNCHANGED <<shown, chosen, badge, used, interfered, broken>>

\* The rest of what can go wrong is no ApiException: run ends without a new
\* state.  A chosen file cannot be read, before the request leaves ...
FileUnreadable(c) ==
    /\ c \in Waiting("run") /\ call[c].server = "asked"
    /\ call' = [call EXCEPT ![c].app = "ended", ![c].server = "none"]
    /\ broken' = (broken \/ call[c].own)
    /\ UNCHANGED <<screen, badge, used, interfered, certain>>

\* ... or the result cannot be written, after it was charged.
ResultNotWritten(c) ==
    /\ Lands(c, "run", {"ok"})
    /\ broken' = (broken \/ call[c].own)
    /\ certain' = FALSE
    /\ UNCHANGED <<screen, badge, used, interfered>>

StatusLands(c) ==
    /\ Lands(c, "status", {"ok"})
    /\ badge' = call[c].remaining
    /\ certain' = call[c].alone
    /\ UNCHANGED <<screen, used, interfered, broken>>

StatusFails(c) ==
    /\ Lands(c, "status", {"error"})
    /\ UNCHANGED <<screen, badge, used, history>>

\* The files are read; the state is idle again, also when a run is under way.
PickLands(c) ==
    /\ c \in Waiting("pick")
    /\ call' = [call EXCEPT ![c].app = "ended"]
    /\ IF call[c].own
       THEN /\ chosen' = TRUE
            /\ view' = "idle"
            /\ interfered' = (interfered \/ Runs # {})
       ELSE UNCHANGED <<chosen, view, interfered>>
    /\ UNCHANGED <<shown, badge, used, broken, certain>>

PickFails(c) ==
    /\ c \in Waiting("pick")
    /\ call' = [call EXCEPT ![c].app = "ended"]
    /\ UNCHANGED <<screen, badge, used, history>>

-----------------------------------------------------------------------------
Serve(c) ==
    Charge(c) \/ Reject(c) \/ Produce(c) \/ Refund(c) \/ ReadStatus(c) \/ NotServed(c)

Land(c) ==
    \/ RunSucceeds(c) \/ RunFails(c) \/ GiveUp(c)
    \/ FileUnreadable(c) \/ ResultNotWritten(c)
    \/ StatusLands(c) \/ StatusFails(c)
    \/ PickLands(c) \/ PickFails(c)

Next ==
    \/ OpenScreen \/ LeaveScreen \/ Reset \/ RemoveFile
    \/ \E c \in Calls : Pick(c) \/ Run(c) \/ RefreshStatus(c) \/ Serve(c) \/ Land(c)

Spec == Init /\ [][Next]_vars

\* Every call is answered or given up on within its timeouts, and the event loop
\* runs the callback of every answer.
FairSpec == Spec /\ \A c \in Calls : WF_vars(Serve(c)) /\ WF_vars(Land(c))

-----------------------------------------------------------------------------
(* A screen has one run under way at a time, so that one press is one       *)
(* charge, unless files that were still being read when it was started     *)
(* landed during it (run, canRun, pickFiles).                               *)
OneRunAtATime == \A b, c \in Runs : b = c \/ interfered

(* With nothing under way the badge shows what the server will still allow, *)
(* provided the call that set it last was alone: pulling down the home     *)
(* screen with nothing else going on repairs whatever answers crossed      *)
(* (applyQuotaAfterEdit, refreshStatus).                                    *)
BadgeIsExact == Quiet /\ certain => badge = Limit - used

(* The screen is never left loading, its gestures held back, except by an   *)
(* error of the file system (run catches ApiException alone).               *)
LoadingEnds ==
    (shown /\ view = "loading") ~> (~shown \/ view # "loading" \/ broken)
=============================================================================

---------------------------- MODULE EditorClient ----------------------------
(***************************************************************************)
(* The editor screen of the app: EditorController, which holds one document*)
(* model, one page number and one page image, and starts calls whose       *)
(* answers land whenever the network delivers them                         *)
(* (lib/features/editor/editor_controller.dart, editor_repository.dart and *)
(* the buttons of editor_page.dart).                                       *)
(*                                                                         *)
(* Dart runs one callback at a time, so a step is the code between two     *)
(* awaits.  A call is known by its number; a document by the number of the *)
(* call that opened it.  A call has two sides: the app waits for it, and   *)
(* the server carries it out; when the app gives up waiting the server     *)
(* does not know and goes on.  Of the server the model keeps a session's   *)
(* revision and whether it is open: EditorSession is the rest.             *)
(***************************************************************************)
EXTENDS Integers

CONSTANTS
    MaxCalls,  \* how many calls the screen may make, renders after an edit apart
    Pages,     \* document.pageCount
    MayLose    \* TRUE: the app may give up on a call, or its answer be lost

ASSUME MaxCallsAssumption == MaxCalls \in Nat
ASSUME PagesAssumption == Pages \in Nat \ {0}
ASSUME MayLoseAssumption == MayLose \in BOOLEAN

VARIABLES
    document,  \* _document: which one and at which revision
    page,      \* _pageNumber
    image,     \* _pageImage: the document, page and revision it shows
    rendered,  \* _renderedRevision
    busy,      \* _busy
    view,      \* _state
    saving,    \* _saveState is Loading
    mounted,   \* the screen is on the navigator's stack
    call,      \* per call: what it asks, for what, and how far it is
    server,    \* per document: its session's revision and whether it is open
    spent,     \* documents whose saved file was written
    crossed,   \* history: documents of which one edit was stored over another
    late,      \* history: documents on whose edit or save the app gave up
    broken     \* history: a file could not be read or written on the device

shown == <<document, page, image, rendered>>
flags == <<busy, view, saving>>
history == <<crossed, late, broken>>
vars == <<shown, flags, mounted, call, server, spent, history>>

Calls == 1..MaxCalls

None == [id |-> 0, rev |-> 0]
NoImage == [id |-> 0, page |-> 0, rev |-> 0]
Behind == -1  \* _renderedRevision when null or after a render failed

Kinds == {"open", "mutate", "save", "discard", "render"}
Blank(at) ==
    [kind |-> "open", at |-> at, srv |-> "done", id |-> 0, page |-> 0, rev |-> 0,
     got |-> 0, ok |-> FALSE]
Unused == Blank("unused")
Ended == Blank("ended")

CallStates ==
    [kind : Kinds,
     at : {"unused", "sent", "answered", "ended"},   \* what the app knows of it
     srv : {"coming", "loaded", "done"},             \* what the server does with it
     id : 0..MaxCalls, page : 0..Pages, rev : Nat, got : Nat, ok : BOOLEAN]

TypeOK ==
    /\ document \in [id : 0..MaxCalls, rev : Nat]
    /\ page \in 1..Pages
    /\ image \in [id : 0..MaxCalls, page : 0..Pages, rev : Nat]
    /\ rendered \in Nat \cup {Behind}
    /\ busy \in BOOLEAN
    /\ view \in {"idle", "loading", "success", "failed"}
    /\ saving \in BOOLEAN
    /\ mounted \in BOOLEAN
    /\ call \in [Calls -> CallStates]
    /\ server \in [Calls -> [rev : Nat, open : BOOLEAN]]
    /\ spent \in SUBSET Calls
    /\ crossed \in SUBSET Calls
    /\ late \in SUBSET Calls
    /\ broken \in BOOLEAN

Init ==
    /\ document = None /\ page = 1 /\ image = NoImage /\ rendered = Behind
    /\ busy = FALSE /\ view = "idle" /\ saving = FALSE
    /\ mounted = TRUE
    /\ call = [c \in Calls |-> Unused]
    /\ server = [d \in Calls |-> [rev |-> 0, open |-> FALSE]]
    /\ spent = {} /\ crossed = {} /\ late = {} /\ broken = FALSE

Held == document # None
Pending == {c \in Calls : call[c].at \in {"sent", "answered"}}
Quiet == Pending = {}

\* Calls the server has still to carry out, whether or not the app waits for them.
UnderWay(r) == r.srv \in {"coming", "loaded"}

\* A call of this kind leaves for the server on behalf of document d, at the
\* revision the screen holds; got is the revision the server loaded for it and
\* then the one its answer brings.
Sent(kind, d) ==
    [kind |-> kind, at |-> "sent", srv |-> "coming", id |-> d.id, page |-> page,
     rev |-> d.rev, got |-> 0, ok |-> FALSE]

\* _refreshRender's request, sent by the handler that got an answer or by
\* goToPage.
RefreshRender(c, d, number) ==
    call' = [call EXCEPT ![c] = [Sent("render", d) EXCEPT !.page = number]]

\* Calls are numbered in the order they are made.
IsNextCall(c) == call[c].at = "unused" /\ \A b \in 1..(c - 1) : call[b].at # "unused"

Send(c, kind, d) ==
    /\ IsNextCall(c)
    /\ call' = [call EXCEPT ![c] = Sent(kind, d)]

-----------------------------------------------------------------------------
\* What the person does.

\* openDocument, offered when there is no document and after a failure.
OpenDocument(c) ==
    /\ mounted
    /\ view = "failed" \/ (view # "loading" /\ ~Held)
    /\ Send(c, "open", [id |-> c, rev |-> 0])
    /\ view' = "loading"
    /\ saving' = FALSE
    /\ UNCHANGED <<shown, busy, mounted, server, spent, history>>

\* goToPage: not held back by _busy.
GoToPage(c, number) ==
    /\ mounted /\ Held /\ view = "success"
    /\ number \in 1..Pages
    /\ number \in {page - 1, page + 1}
    /\ page' = number
    /\ IsNextCall(c)
    /\ RefreshRender(c, document, number)
    /\ UNCHANGED <<document, image, rendered, flags, mounted, server, spent, history>>

\* Mutant: _mutate without its test of _busy.
MutateWhileBusy(c) ==
    /\ mounted /\ Held
    /\ Send(c, "mutate", document)
    /\ busy' = TRUE
    /\ UNCHANGED <<shown, view, saving, mounted, server, spent, history>>

\* _mutate: every edit, undo and revert.
Mutate(c) ==
    /\ mounted /\ Held /\ ~busy
    /\ Send(c, "mutate", document)
    /\ busy' = TRUE
    /\ UNCHANGED <<shown, view, saving, mounted, server, spent, history>>

Save(c) ==
    /\ mounted /\ Held /\ ~busy /\ ~saving
    /\ Send(c, "save", document)
    /\ busy' = TRUE
    /\ saving' = TRUE
    /\ UNCHANGED <<shown, view, mounted, server, spent, history>>

\* discard: the screen lets go at once, the server is told, the route pops after.
Discard(c) ==
    /\ mounted /\ Held
    /\ Send(c, "discard", document)
    /\ document' = None
    /\ image' = NoImage
    /\ view' = "idle"
    /\ saving' = FALSE
    /\ UNCHANGED <<page, rendered, busy, mounted, server, spent, history>>

\* The app is done with a call; the server is not if it was still to carry it
\* out.  A render changes nothing there, so the model forgets it.
LeftBehind(r) ==
    IF UnderWay(r) /\ r.kind # "render" THEN [r EXCEPT !.at = "ended"] ELSE Ended

\* The route is popped and its controller disposed: what is still under way
\* lands nowhere.
Unmount ==
    /\ mounted' = FALSE
    /\ call' = [c \in Calls |-> LeftBehind(call[c])]

\* Back, with no document held.
Leave ==
    /\ mounted /\ ~Held
    /\ Unmount
    /\ UNCHANGED <<shown, flags, server, spent, history>>

-----------------------------------------------------------------------------
\* What the server and the network do.

\* What the app makes of the answer: it takes it if it still waits for it.
Told(r, ok, revision) ==
    IF r.at = "sent"
    THEN [r EXCEPT !.at = "answered", !.srv = "done", !.ok = ok, !.got = revision]
    ELSE [r EXCEPT !.srv = "done"]

\* The server is done with call c.
Settle(c, ok, revision) ==
    call' = [call EXCEPT ![c] = IF @.at = "ended" THEN Ended ELSE Told(@, ok, revision)]

\* An edit or a save reads its session, which is open, and works on what it read.
Load(c) ==
    /\ call[c].srv = "coming" /\ call[c].kind \in {"mutate", "save"}
    /\ server[call[c].id].open
    /\ call' = [call EXCEPT ![c].srv = "loaded", ![c].got = server[call[c].id].rev]
    /\ UNCHANGED <<shown, flags, mounted, server, spent, history>>

\* The call is carried out; what it answers is fixed here, not when it lands.  An
\* edit stores the revision after the one it read; a save closes the session, and
\* does so too when it was closed since.
Serve(c) ==
    /\ LET d == call[c].id
           session == server[d]
           Ready(kind, srv) == call[c].kind = kind /\ call[c].srv = srv IN
       \/ /\ Ready("open", "coming")
          /\ server' = [server EXCEPT ![d].open = TRUE]
          /\ Settle(c, TRUE, 0)
          /\ UNCHANGED crossed
       \/ /\ Ready("mutate", "loaded") /\ session.open
          /\ server' = [server EXCEPT ![d].rev = call[c].got + 1]
          /\ Settle(c, TRUE, call[c].got + 1)
          /\ crossed' = IF session.rev = call[c].got THEN crossed ELSE crossed \cup {d}
       \/ /\ Ready("render", "coming") /\ session.open
          /\ Settle(c, TRUE, session.rev)
          /\ UNCHANGED <<server, crossed>>
       \/ /\ Ready("save", "loaded") \/ (Ready("discard", "coming") /\ session.open)
          /\ server' = [server EXCEPT ![d].open = FALSE]
          /\ Settle(c, TRUE, session.rev)
          /\ UNCHANGED crossed
    /\ UNCHANGED <<shown, flags, mounted, spent, late, broken>>

\* 409 on a session that ended, no quota left, or anything else it will not do;
\* a call that never reaches the server ends the same way.
Refuse(c) ==
    /\ UnderWay(call[c])
    /\ Settle(c, FALSE, 0)
    /\ UNCHANGED <<shown, flags, mounted, server, spent, history>>

\* connectTimeout, receiveTimeout or a broken connection: the app stops waiting.
\* The server may be about to carry the call out, or have done so.
Lose(c) ==
    /\ MayLose
    /\ c \in Pending
    /\ call' = [call EXCEPT ![c].at = "answered", ![c].ok = FALSE]
    /\ late' = IF UnderWay(call[c]) /\ call[c].kind \in {"mutate", "save"}
               THEN late \cup {call[c].id} ELSE late
    /\ UNCHANGED <<shown, flags, mounted, server, spent, crossed, broken>>

-----------------------------------------------------------------------------
\* Where the answers land.

Answered(c, kind) == call[c].at = "answered" /\ call[c].kind = kind
Finish(c) == call' = [call EXCEPT ![c] = LeftBehind(@)]

OpenLands(c) ==
    /\ Answered(c, "open")
    /\ IF call[c].ok
       THEN /\ document' = [id |-> call[c].id, rev |-> 0]
            /\ page' = 1
            /\ view' = "success"
            /\ RefreshRender(c, document', 1)
       ELSE /\ view' = "failed"
            /\ Finish(c)
            /\ UNCHANGED <<document, page>>
    /\ UNCHANGED <<image, rendered, busy, saving, mounted, server, spent, history>>

\* The end of _mutate: the returned document replaces the one held.
MutateLands(c) ==
    /\ Answered(c, "mutate")
    /\ busy' = FALSE
    /\ IF call[c].ok
       THEN /\ document' = [id |-> call[c].id, rev |-> call[c].got]
            /\ view' = "success"
            /\ RefreshRender(c, document', page)
       ELSE /\ view' = "failed"
            /\ Finish(c)
            /\ UNCHANGED document
    /\ UNCHANGED <<page, image, rendered, saving, mounted, server, spent, history>>

\* The picked file cannot be read, so the request never leaves: a
\* FileSystemException, which no handler of ApiException sees.  openDocument leaves
\* the spinner on; of an image edit only the finally block runs.
UploadUnreadable(c) ==
    /\ call[c].at = "sent" /\ call[c].srv = "coming"
    /\ \/ call[c].kind = "open" /\ UNCHANGED busy
       \/ call[c].kind = "mutate" /\ busy' = FALSE
    /\ call' = [call EXCEPT ![c] = Ended]
    /\ broken' = TRUE
    /\ UNCHANGED <<shown, view, saving, mounted, server, spent, crossed, late>>

\* Mutant: the document is not dropped after a save.
SaveKeepsDocument(c) ==
    /\ Answered(c, "save")
    /\ call[c].ok
    /\ Finish(c)
    /\ busy' = FALSE
    /\ saving' = FALSE
    /\ image' = NoImage
    /\ UNCHANGED <<document, view, page, rendered, mounted, server, history>>
    /\ spent' = spent \cup {call[c].id}

\* The file is written and the document dropped, whichever is held by now.
SaveLands(c) ==
    /\ Answered(c, "save")
    /\ call[c].ok
    /\ Finish(c)
    /\ busy' = FALSE
    /\ saving' = FALSE
    /\ document' = None
    /\ image' = NoImage
    /\ view' = "idle"
    /\ UNCHANGED <<page, rendered, mounted, server, history>>
    /\ spent' = spent \cup {call[c].id}

\* Mutant: _busy is reset where save succeeds, not in a finally block.
SaveFailsLocked(c) ==
    /\ Answered(c, "save")
    /\ ~call[c].ok
    /\ Finish(c)
    /\ saving' = FALSE
    /\ UNCHANGED <<shown, busy, view, mounted, server, spent, history>>

SaveFails(c) ==
    /\ Answered(c, "save")
    /\ ~call[c].ok
    /\ Finish(c)
    /\ busy' = FALSE
    /\ saving' = FALSE
    /\ UNCHANGED <<shown, view, mounted, server, spent, history>>

\* Writing the file raises: not an ApiException, so only the finally block runs.
FileNotWritten(c) ==
    /\ Answered(c, "save")
    /\ call[c].ok
    /\ Finish(c)
    /\ busy' = FALSE
    /\ broken' = TRUE
    /\ UNCHANGED <<shown, view, saving, mounted, server, spent, crossed, late>>

\* _confirmLeave pops the route once discard returns, whatever became of it.
DiscardLands(c) ==
    /\ Answered(c, "discard")
    /\ Unmount
    /\ UNCHANGED <<shown, flags, server, spent, history>>

\* Mutant: no guard on the document id.
RenderLandsAnyway(c) ==
    /\ Answered(c, "render")
    /\ call[c].ok
    /\ Finish(c)
    /\ image' = [id |-> call[c].id, page |-> call[c].page, rev |-> call[c].got]
    /\ rendered' = call[c].rev
    /\ UNCHANGED <<document, page, flags, mounted, server, spent, history>>

\* The end of _refreshRender, and its guard on the document's id.  The revision
\* noted is the one the document had when the render was asked for.
RenderLands(c) ==
    /\ Answered(c, "render")
    /\ call[c].ok
    /\ Finish(c)
    /\ IF document.id = call[c].id
       THEN /\ image' = [id |-> call[c].id, page |-> call[c].page, rev |-> call[c].got]
            /\ rendered' = call[c].rev
       ELSE UNCHANGED <<image, rendered>>
    /\ UNCHANGED <<document, page, flags, mounted, server, spent, history>>

RenderFails(c) ==
    /\ Answered(c, "render")
    /\ ~call[c].ok
    /\ Finish(c)
    /\ rendered' = Behind
    /\ UNCHANGED <<document, page, image, flags, mounted, server, spent, history>>

-----------------------------------------------------------------------------
Land(c) ==
    OpenLands(c) \/ MutateLands(c) \/ SaveLands(c) \/ SaveFails(c)
    \/ UploadUnreadable(c) \/ FileNotWritten(c) \/ DiscardLands(c) \/ RenderLands(c) \/ RenderFails(c)

Act(c) ==
    \/ OpenDocument(c) \/ Mutate(c) \/ Save(c) \/ Discard(c)
    \/ \E number \in 1..Pages : GoToPage(c, number)

Next ==
    \/ \E c \in Calls :
          Act(c) \/ Load(c) \/ Serve(c) \/ Refuse(c) \/ Lose(c) \/ Land(c)
    \/ Leave

Spec == Init /\ [][Next]_vars

-----------------------------------------------------------------------------
\* Properties.

Writing == {c \in Pending : call[c].kind \in {"mutate", "save"}}
AtWork == {c \in Calls : call[c].kind \in {"mutate", "save"} /\ call[c].srv = "loaded"}
IsStale == rendered # document.rev
Awaited(kind) == \E c \in Pending : call[c].kind = kind

\* When nothing is under way, a page image that the controller does not call
\* stale belongs to the document held and, unless one edit of it was stored over
\* another, shows every edit in its model, however late and in whatever order the
\* renders and the answers landed (_refreshRender, isStale).
SettledFrameIsCurrent ==
    mounted /\ Quiet /\ Held /\ image # NoImage /\ ~IsStale =>
        /\ image.id = document.id
        /\ document.id \notin crossed => image.rev >= document.rev

\* _busy keeps the screen from waiting for two writes, not the server from working
\* on two: it does so for one document, and one edit is stored over another, only
\* when the app gave up on an edit or a save that the server went on with (_mutate,
\* save).  A discard, which does not look at _busy, is not a write here.
WritesOverlapOnlyWhenLate ==
    /\ \A b, c \in AtWork : b # c /\ call[b].id = call[c].id => call[c].id \in late
    /\ crossed \subseteq late

\* The screen is locked exactly while it waits for a write; and unless a file could
\* not be read or written, it shows the opening spinner only while it waits for a
\* document and the saving one only while it waits for a save: no answer, give-up
\* or discard leaves it waiting for good (openDocument, _mutate, save).
LockedOnlyWhileWorking ==
    mounted =>
        /\ busy <=> Writing # {}
        /\ ~broken /\ view = "loading" => Awaited("open")
        /\ ~broken /\ saving => Awaited("save")

\* A document that was saved and written is never on the screen again: the UI
\* cannot offer edits on a session that is spent.
SavedDocumentDropped == document.id \notin spent
=============================================================================

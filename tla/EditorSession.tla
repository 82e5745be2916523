---------------------------- MODULE EditorSession ----------------------------
(***************************************************************************)
(* One editing session: its edit_sessions row, its directory under         *)
(* var/sessions/<id>, and the requests that work on both                   *)
(* (backend/app/services/editor.py and the endpoints of                    *)
(* backend/app/api/v1/editor.py).                                          *)
(*                                                                         *)
(* Every request copies the row into memory, works on the copy while other *)
(* requests run, touches the directory from a worker thread, and writes    *)
(* back the columns it changed in one transaction at the end.  An edit is  *)
(* known by the request that made it, so a document is the sequence of the *)
(* edits replayed onto the original.  Requests of every kind may overlap:  *)
(* nothing on the server holds one back while another is under way.        *)
(***************************************************************************)
EXTENDS Naturals, Sequences, FiniteSets

CONSTANTS
    Requests,     \* the requests made on the session
    BadEdits,     \* the edits whose replay raises (a span that is not there)
    MaxOps,       \* settings.max_session_operations
    MaxInFlight,  \* how many requests the clients have in flight at once
    MayCrash      \* TRUE: requests, and the process with them, may die

ASSUME RequestsAssumption == IsFiniteSet(Requests)
ASSUME BadEditsAssumption == BadEdits \subseteq Requests
ASSUME MaxOpsAssumption == MaxOps \in Nat
ASSUME MaxInFlightAssumption == MaxInFlight \in Nat
ASSUME MayCrashAssumption == MayCrash \in BOOLEAN

VARIABLES
    state,         \* of the row: "none", "open" or "closed" (closed_at is set)
    ops,           \* row: the operation log
    revision,      \* row: the revision
    expired,       \* the clock has passed expires_at
    opening,       \* where the request that opens the session stands
    lock,          \* the request that holds the row lock, as a set of at most one
    root,          \* disk: the session directory exists
    original,      \* disk: original.pdf exists
    builds,        \* disk: build-<rev>.pdf, from the revision to the document in it
    half,          \* disk: the requests whose build file is there half written
    adir,          \* disk: the assets/ directory exists
    assets,        \* disk: requests whose uploaded image is in assets/
    listed,        \* the files rmtree found and has yet to unlink (0: original.pdf)
    listedAssets,  \* rmtree found assets/ and has yet to delete it
    pc,            \* per request, where its handler stands
    kind,          \* per request, the endpoint it calls
    base,          \* per request, the operations it loaded
    met,           \* history: per request, the requests in flight along with it
    lops,          \* per request, session.operations of its in-memory copy
    lrev,          \* per request, session.revision of its in-memory copy
    result,        \* per request, the document it was answered with
    billed,        \* saves whose charge stands
    up             \* the server process runs

row == <<state, ops, revision>>
disk == <<root, original, builds, half, adir, assets>>
listing == <<listed, listedAssets>>
asked == <<kind, base, met>>
copies == <<lops, lrev>>
vars == <<row, expired, opening, lock, disk, listing, pc, asked, copies, result,
          billed, up>>

Kinds == {"edit", "image", "undo", "reset", "render", "save", "discard"}

\* "loaded": holds a copy of the row; "stored", "probed": its uploaded image is in
\* assets/, and has been read back; "building": no build file was there, so the
\* log is to be replayed; "replaying": the original is open; "writing": the build
\* file is being written; "built": the build file is there as far as the request
\* knows; "copied": the save has its bytes; "closing": it has set closed_at and
\* holds the row lock; "deleting": rmtree is at work; "deleted": it is through,
\* the commit still to come.
InFlight == {"loaded", "stored", "probed", "building", "replaying", "writing", "built",
             "copied", "closing", "deleting", "deleted"}
Ended == {"done", "refused", "failed", "dead"}

Documents == Seq(Requests)
NoResult == [status |-> "none", doc |-> <<>>]
NoFiles == [v \in {} |-> <<>>]

TypeOK ==
    /\ state \in {"none", "open", "closed"}
    /\ ops \in Documents
    /\ revision \in Nat
    /\ expired \in BOOLEAN
    /\ opening \in {"no", "copied", "done", "failed"}
    /\ lock \in SUBSET Requests
    /\ root \in BOOLEAN
    /\ original \in BOOLEAN
    /\ DOMAIN builds \subseteq Nat
    /\ \A v \in DOMAIN builds : builds[v] \in Documents
    /\ half \in SUBSET Requests
    /\ adir \in BOOLEAN
    /\ assets \in SUBSET Requests
    /\ listed \in SUBSET Nat
    /\ listedAssets \in BOOLEAN
    /\ pc \in [Requests -> {"idle"} \cup InFlight \cup Ended]
    /\ kind \in [Requests -> Kinds]
    /\ base \in [Requests -> Documents]
    /\ met \in [Requests -> SUBSET Requests]
    /\ lops \in [Requests -> Documents]
    /\ lrev \in [Requests -> Nat]
    /\ result \in [Requests -> [status : {"none", "whole", "torn"}, doc : Documents]]
    /\ billed \in SUBSET Requests
    /\ up \in BOOLEAN

Init ==
    /\ state = "none" /\ ops = <<>> /\ revision = 0
    /\ expired = FALSE
    /\ opening = "no"
    /\ lock = {}
    /\ root = FALSE /\ original = FALSE
    /\ builds = NoFiles /\ half = {} /\ adir = FALSE /\ assets = {}
    /\ listed = {} /\ listedAssets = FALSE
    /\ pc = [r \in Requests |-> "idle"]
    /\ kind = [r \in Requests |-> "edit"]
    /\ base = [r \in Requests |-> <<>>]
    /\ met = [r \in Requests |-> {}]
    /\ lops = [r \in Requests |-> <<>>]
    /\ lrev = [r \in Requests |-> 0]
    /\ result = [r \in Requests |-> NoResult]
    /\ billed = {}
    /\ up = TRUE

-----------------------------------------------------------------------------
\* Opening.

\* open_session: the row is added (not yet committed) and the upload copied.
OpenCopy ==
    /\ up
    /\ opening = "no"
    /\ opening' = "copied"
    /\ root' = TRUE
    /\ original' = TRUE
    /\ UNCHANGED <<row, expired, lock, builds, half, adir, assets, listing, pc, asked,
                   copies, result, billed, up>>

\* The object model was read; the row is committed.
OpenCommit ==
    /\ up
    /\ opening = "copied"
    /\ opening' = "done"
    /\ state' = "open"
    /\ UNCHANGED <<ops, revision, expired, lock, disk, listing, pc, asked, copies,
                   result, billed, up>>

\* Reading the object model raises: the row is rolled back, the copy stays.
OpenFails ==
    /\ up
    /\ opening = "copied"
    /\ opening' = "failed"
    /\ UNCHANGED <<row, expired, lock, disk, listing, pc, asked, copies, result,
                   billed, up>>

-----------------------------------------------------------------------------
\* load_session, the first step of every request on an open session.

Active == {r \in Requests : pc[r] \in InFlight}
Quiet == Active = {}

CanLoad == state = "open" /\ ~ expired /\ original

\* rmtree is called from a coroutine and holds the event loop until it is through:
\* meanwhile only the worker threads of other requests go on.
LoopIsFree == \A r \in Requests : pc[r] # "deleting"

\* The request arrives at one of the endpoints and loads the row.
Load(r) ==
    /\ up
    /\ LoopIsFree
    /\ pc[r] = "idle"
    /\ opening = "done"
    /\ Cardinality(Active) < MaxInFlight
    /\ IF CanLoad
       THEN /\ pc' = [pc EXCEPT ![r] = "loaded"]
            /\ \E k \in Kinds : kind' = [kind EXCEPT ![r] = k]
            /\ lops' = [lops EXCEPT ![r] = ops]
            /\ base' = [base EXCEPT ![r] = ops]
            /\ lrev' = [lrev EXCEPT ![r] = revision]
            /\ met' = [q \in Requests |-> IF q = r THEN Active
                                          ELSE IF q \in Active THEN met[q] \cup {r}
                                          ELSE met[q]]
       ELSE /\ pc' = [pc EXCEPT ![r] = "refused"]
            /\ UNCHANGED <<asked, copies>>
    /\ UNCHANGED <<row, expired, opening, lock, disk, listing, result, billed, up>>

-----------------------------------------------------------------------------
\* built_path, shared by edits, renders and saves.

Replayable(doc) == \A i \in 1..Len(doc) : doc[i] \notin BadEdits

\* The uploaded images the replay of a log inserts are there.
HasImages(doc) == \A i \in 1..Len(doc) : kind[doc[i]] = "image" => doc[i] \in assets

\* Whether a file for revision v is there already; revision 0 is the original.
\* A missing one is about to be built, and asset_dir, an argument of that call,
\* makes the directories first.
LookForBuild(r, v) ==
    IF v = 0 \/ v \in DOMAIN builds
    THEN pc' = [pc EXCEPT ![r] = "built"] /\ UNCHANGED <<root, adir>>
    ELSE pc' = [pc EXCEPT ![r] = "building"] /\ root' = TRUE /\ adir' = TRUE

\* apply_operations opens the original, and from then on reads the open file.
OpenSource(r) ==
    /\ up
    /\ pc[r] = "building"
    /\ original
    /\ HasImages(lops[r])
    /\ pc' = [pc EXCEPT ![r] = "replaying"]
    /\ UNCHANGED <<row, expired, opening, lock, disk, listing, asked, copies, result,
                   billed, up>>

\* The replay got through and a new build file appears, in the place of any of the
\* same name: whoever still writes that one goes on in a file without a name.
StartWrite(r) ==
    /\ up
    /\ pc[r] = "replaying"
    /\ Replayable(lops[r])
    /\ root
    /\ pc' = [pc EXCEPT ![r] = "writing"]
    /\ builds' = [v \in DOMAIN builds \cup {lrev[r]} |->
                    IF v = lrev[r] THEN lops[r] ELSE builds[v]]
    /\ half' = {q \in half : lrev[q] # lrev[r]} \cup {r}
    /\ UNCHANGED <<row, expired, opening, lock, root, original, adir, assets, listing,
                   asked, copies, result, billed, up>>

\* The file is complete; every build of another revision is dropped.  A file
\* somebody deleted or replaced while it was being written is not brought back.
EndWrite(r) ==
    /\ up
    /\ pc[r] = "writing"
    /\ pc' = [pc EXCEPT ![r] = "built"]
    /\ builds' = [v \in DOMAIN builds \cap {lrev[r]} |-> builds[v]]
    /\ half' = {q \in half : lrev[q] = lrev[r]} \ {r}
    /\ UNCHANGED <<row, expired, opening, lock, root, original, adir, assets, listing,
                   asked, copies, result, billed, up>>

\* The original or an image is gone, the replay raises, or there is no directory
\* left to write to: the copy is thrown away with the transaction, and a save gets
\* its charge back.
BuildFails(r) ==
    /\ up
    /\ \/ pc[r] = "building" /\ (~ original \/ ~ HasImages(lops[r]))
       \/ /\ pc[r] = "replaying"
          /\ ~ Replayable(lops[r]) \/ ~ HasImages(lops[r]) \/ ~ root
    /\ pc' = [pc EXCEPT ![r] = "failed"]
    /\ billed' = billed \ {r}
    /\ UNCHANGED <<row, expired, opening, lock, disk, listing, asked, copies, result, up>>

\* What a reader of the build file (or of the original) gets.
OnDisk(v) == IF v = 0 THEN original ELSE v \in DOMAIN builds
DocumentAt(v) == IF v = 0 THEN <<>> ELSE builds[v]
IsTorn(v) == v # 0 /\ \E q \in half : lrev[q] = v

-----------------------------------------------------------------------------
\* Edits: replace_text ... add_image, undo and reset.

\* replace_image and add_image keep the upload inside the session first.
StoreAsset(r) ==
    /\ up
    /\ LoopIsFree
    /\ pc[r] = "loaded"
    /\ kind[r] = "image"
    /\ pc' = [pc EXCEPT ![r] = "stored"]
    /\ assets' = assets \cup {r}
    /\ root' = TRUE
    /\ adir' = TRUE
    /\ UNCHANGED <<row, expired, opening, lock, original, builds, half, listing, asked,
                   copies, result, billed, up>>

\* Its size is read back from the stored file, which may be gone by now.
ProbeAsset(r) ==
    /\ up
    /\ pc[r] = "stored"
    /\ pc' = [pc EXCEPT ![r] = IF r \in assets THEN "probed" ELSE "failed"]
    /\ UNCHANGED <<row, expired, opening, lock, disk, listing, asked, copies, result,
                   billed, up>>

\* Variant: the revision is not bumped.
ChangeSameRevision(r, doc) ==
    /\ lops' = [lops EXCEPT ![r] = doc]
    /\ LookForBuild(r, lrev[r])
    /\ UNCHANGED <<row, expired, opening, lock, original, builds, half, assets, listing,
                   asked, lrev, result, billed, up>>

\* add_operation, undo and reset on the copy, up to looking for the build.
Change(r, doc) ==
    /\ lops' = [lops EXCEPT ![r] = doc]
    /\ lrev' = [lrev EXCEPT ![r] = @ + 1]
    /\ LookForBuild(r, lrev[r] + 1)
    /\ UNCHANGED <<row, expired, opening, lock, original, builds, half, assets, listing,
                   asked, result, billed, up>>

\* The operation is at hand: at once, or with the image it inserts.
Prepared(r) ==
    \/ kind[r] = "edit" /\ pc[r] = "loaded"
    \/ kind[r] = "image" /\ pc[r] = "probed"

\* Variant: the operation replaces the log.
AddOperationAlone(r) ==
    /\ up
    /\ Prepared(r)
    /\ Len(lops[r]) < MaxOps
    /\ Change(r, <<r>>)

AddOperation(r) ==
    /\ up
    /\ Prepared(r)
    /\ Len(lops[r]) < MaxOps
    /\ Change(r, Append(lops[r], r))

\* Variant: the oldest edit is taken back.
UndoOldest(r) ==
    /\ up
    /\ pc[r] = "loaded"
    /\ kind[r] = "undo"
    /\ lops[r] # <<>>
    /\ Change(r, Tail(lops[r]))

Undo(r) ==
    /\ up
    /\ pc[r] = "loaded"
    /\ kind[r] = "undo"
    /\ lops[r] # <<>>
    /\ Change(r, SubSeq(lops[r], 1, Len(lops[r]) - 1))

Reset(r) ==
    /\ up
    /\ pc[r] = "loaded"
    /\ kind[r] = "reset"
    /\ Change(r, <<>>)

\* The log is full, or there is nothing to undo.
RefuseEdit(r) ==
    /\ up
    /\ \/ Prepared(r) /\ Len(lops[r]) >= MaxOps
       \/ pc[r] = "loaded" /\ kind[r] = "undo" /\ lops[r] = <<>>
    /\ pc' = [pc EXCEPT ![r] = "refused"]
    /\ UNCHANGED <<row, expired, opening, lock, disk, listing, asked, copies, result,
                   billed, up>>

\* The endpoints that change the log.
IsChange(r) == kind[r] \in {"edit", "image", "undo", "reset"}

\* Variant: the commit does not read the original again.
CommitEditBlind(r) ==
    /\ up
    /\ pc[r] = "built"
    /\ IsChange(r)
    /\ lock = {}
    /\ revision' = lrev[r]
    /\ ops' = IF lops[r] # base[r] THEN lops[r] ELSE ops
    /\ pc' = [pc EXCEPT ![r] = "done"]
    /\ UNCHANGED <<state, expired, opening, lock, disk, listing, asked, copies, result,
                   billed, up>>

\* flush waits for the row lock and keeps it to the end; the projection then reads
\* the original, and the commit writes the columns the copy changed: revision
\* always, the log when it differs from the one loaded.
CommitEdit(r) ==
    /\ up
    /\ pc[r] = "built"
    /\ IsChange(r)
    /\ lock = {}
    /\ original
    /\ revision' = lrev[r]
    /\ ops' = IF lops[r] # base[r] THEN lops[r] ELSE ops
    /\ pc' = [pc EXCEPT ![r] = "done"]
    /\ UNCHANGED <<state, expired, opening, lock, disk, listing, asked, copies, result,
                   billed, up>>

\* Without the original the projection raises, and the transaction is rolled back.
EditFails(r) ==
    /\ up
    /\ pc[r] = "built"
    /\ IsChange(r)
    /\ lock = {}
    /\ ~ original
    /\ pc' = [pc EXCEPT ![r] = "failed"]
    /\ UNCHANGED <<row, expired, opening, lock, disk, listing, asked, copies, result,
                   billed, up>>

-----------------------------------------------------------------------------
\* Renders and saves answer with what built_path leads to.

\* render_page: the copy's own revision, built again if its file was dropped.
\* A save is charged first, by run_edit; the account has an edit left.
LookUp(r) ==
    /\ up
    /\ pc[r] = "loaded"
    /\ kind[r] \in {"render", "save"}
    /\ LookForBuild(r, lrev[r])
    /\ billed' = IF kind[r] = "save" THEN billed \cup {r} ELSE billed
    /\ UNCHANGED <<row, expired, opening, lock, original, builds, half, assets, listing,
                   asked, copies, result, up>>

\* run_edit finds the account's quota exhausted: nothing is charged.
QuotaExceeded(r) ==
    /\ up
    /\ pc[r] = "loaded"
    /\ kind[r] = "save"
    /\ pc' = [pc EXCEPT ![r] = "refused"]
    /\ UNCHANGED <<row, expired, opening, lock, disk, listing, asked, copies, result,
                   billed, up>>

\* Variant: a save answers without closing the session.
AnswerOnly(r) ==
    /\ up
    /\ pc[r] = "built"
    /\ kind[r] \in {"render", "save"}
    /\ OnDisk(lrev[r])
    /\ result' = [result EXCEPT ![r] =
                    [status |-> IF IsTorn(lrev[r]) THEN "torn" ELSE "whole",
                     doc |-> DocumentAt(lrev[r])]]
    /\ pc' = [pc EXCEPT ![r] = "done"]
    /\ UNCHANGED <<row, expired, opening, lock, disk, listing, asked, copies, billed, up>>

\* The render opens the file in its thread, the save copies its bytes into the
\* workspace on the event loop: whatever file stands there is served, a half
\* written one included.
Answer(r) ==
    /\ up
    /\ pc[r] = "built"
    /\ kind[r] \in {"render", "save"}
    /\ kind[r] = "save" => LoopIsFree
    /\ OnDisk(lrev[r])
    /\ result' = [result EXCEPT ![r] =
                    [status |-> IF IsTorn(lrev[r]) THEN "torn" ELSE "whole",
                     doc |-> DocumentAt(lrev[r])]]
    /\ pc' = [pc EXCEPT ![r] = IF kind[r] = "render" THEN "done" ELSE "copied"]
    /\ UNCHANGED <<row, expired, opening, lock, disk, listing, asked, copies, billed, up>>

\* Variant: the failed save keeps its charge.
AnswerFailsBilled(r) ==
    /\ up
    /\ pc[r] = "built"
    /\ kind[r] \in {"render", "save"}
    /\ ~ OnDisk(lrev[r]) \/ (kind[r] = "render" /\ IsTorn(lrev[r]))
    /\ pc' = [pc EXCEPT ![r] = "failed"]
    /\ UNCHANGED <<row, expired, opening, lock, disk, listing, asked, copies, result,
                   billed, up>>

\* The file is gone again, or a render cannot read the half written one: an error,
\* and the refund.
AnswerFails(r) ==
    /\ up
    /\ pc[r] = "built"
    /\ kind[r] \in {"render", "save"}
    /\ ~ OnDisk(lrev[r]) \/ (kind[r] = "render" /\ IsTorn(lrev[r]))
    /\ pc' = [pc EXCEPT ![r] = "failed"]
    /\ billed' = billed \ {r}
    /\ UNCHANGED <<row, expired, opening, lock, disk, listing, asked, copies, result, up>>

-----------------------------------------------------------------------------
\* close: the end of a save, and all there is to a discard.

\* Variant: the files are deleted before anything is flushed.
CloseUnflushed(r) ==
    /\ up
    /\ \/ pc[r] = "loaded" /\ kind[r] = "discard"
       \/ pc[r] = "copied"
    /\ pc' = [pc EXCEPT ![r] = "closing"]
    /\ UNCHANGED <<row, expired, opening, lock, disk, listing, asked, copies, result,
                   billed, up>>

\* closed_at is set and flushed: the UPDATE takes the row lock.
CloseFlush(r) ==
    /\ up
    /\ \/ pc[r] = "loaded" /\ kind[r] = "discard"
       \/ pc[r] = "copied"
    /\ lock = {}
    /\ lock' = {r}
    /\ pc' = [pc EXCEPT ![r] = "closing"]
    /\ UNCHANGED <<row, expired, opening, disk, listing, asked, copies, result, billed, up>>

\* discard_files runs before the commit.  rmtree lists the directory once ...
CloseScan(r) ==
    /\ up
    /\ pc[r] = "closing"
    /\ pc' = [pc EXCEPT ![r] = "deleting"]
    /\ listed' = DOMAIN builds \cup (IF original THEN {0} ELSE {})
    /\ listedAssets' = adir
    /\ UNCHANGED <<row, expired, opening, lock, disk, asked, copies, result, billed, up>>

\* ... unlinks the files it found one at a time, gone or not ...
RemoveFile(r, v) ==
    /\ up
    /\ pc[r] = "deleting"
    /\ v \in listed
    /\ listed' = listed \ {v}
    /\ original' = (original /\ v # 0)
    /\ builds' = [w \in DOMAIN builds \ {v} |-> builds[w]]
    /\ half' = {q \in half : lrev[q] # v}
    /\ UNCHANGED <<row, expired, opening, lock, root, adir, assets, listedAssets, pc,
                   asked, copies, result, billed, up>>

\* Variant: the images stay.
RemoveNoAssets(r) ==
    /\ up
    /\ pc[r] = "deleting"
    /\ listedAssets
    /\ listedAssets' = FALSE
    /\ UNCHANGED <<row, expired, opening, lock, disk, listed, pc, asked, copies, result,
                   billed, up>>

\* ... and deletes the images with their directory.
RemoveAssets(r) ==
    /\ up
    /\ pc[r] = "deleting"
    /\ listedAssets
    /\ listedAssets' = FALSE
    /\ adir' = FALSE
    /\ assets' = {}
    /\ UNCHANGED <<row, expired, opening, lock, root, original, builds, half, listed, pc,
                   asked, copies, result, billed, up>>

\* What appeared after the listing is still there, and keeps the directory alive.
RemoveRoot(r) ==
    /\ up
    /\ pc[r] = "deleting"
    /\ listed = {} /\ ~ listedAssets
    /\ root' = (original \/ DOMAIN builds # {} \/ adir)
    /\ pc' = [pc EXCEPT ![r] = "deleted"]
    /\ UNCHANGED <<row, expired, opening, lock, original, builds, half, adir, assets,
                   listing, asked, copies, result, billed, up>>

\* Variant: the transaction is never ended.
CloseUncommitted(r) ==
    /\ up
    /\ pc[r] = "deleted"
    /\ state' = "closed"
    /\ pc' = [pc EXCEPT ![r] = "done"]
    /\ UNCHANGED <<ops, revision, expired, opening, lock, disk, listing, asked, copies,
                   result, billed, up>>

\* The commit: closed_at becomes visible and the row lock is released.
CloseCommit(r) ==
    /\ up
    /\ pc[r] = "deleted"
    /\ state' = "closed"
    /\ lock' = {}
    /\ pc' = [pc EXCEPT ![r] = "done"]
    /\ UNCHANGED <<ops, revision, expired, opening, disk, listing, asked, copies, result,
                   billed, up>>

-----------------------------------------------------------------------------
\* The server and the clock.

Expire ==
    /\ state = "open"
    /\ ~ expired
    /\ expired' = TRUE
    /\ UNCHANGED <<row, opening, lock, disk, listing, pc, asked, copies, result, billed,
                   up>>

\* The process stops: once nothing runs, or, if it may crash, at any point.  A
\* build that was being written stays half written and a deletion half done; the
\* row lock and every uncommitted change are gone with the connections.
Stop ==
    /\ up
    /\ MayCrash \/ (Quiet /\ opening # "copied")
    /\ up' = FALSE
    /\ lock' = {}
    /\ listed' = {} /\ listedAssets' = FALSE
    /\ opening' = IF opening = "copied" THEN "failed" ELSE opening
    /\ pc' = [r \in Requests |-> IF r \in Active THEN "dead" ELSE pc[r]]
    /\ UNCHANGED <<row, expired, disk, asked, copies, result, billed>>

\* sweep_expired, with nothing else running: the files go first, and stay gone when
\* the transaction that sets closed_at is lost, which the server only logs.
SweepExpired ==
    /\ root' = FALSE /\ original' = FALSE
    /\ builds' = NoFiles /\ half' = {} /\ adir' = FALSE /\ assets' = {}
    /\ state' = "closed" \/ (MayCrash /\ state' = state)

\* Startup sweeps the session if its time is up and nobody closed it.
Start ==
    /\ ~ up
    /\ up' = TRUE
    /\ IF state = "open" /\ expired
       THEN SweepExpired
       ELSE UNCHANGED <<state, disk>>
    /\ UNCHANGED <<ops, revision, expired, opening, lock, listing, pc, asked, copies,
                   result, billed>>

\* One request dies alone: its connection, its transaction or its worker fails
\* where no handler expects it.  What it wrote to disk and what run_edit had
\* committed stay.  rmtree ignores every error it meets.
Abandon(r) ==
    /\ MayCrash
    /\ up
    /\ pc[r] \in InFlight \ {"writing", "deleting"}
    /\ pc' = [pc EXCEPT ![r] = "dead"]
    /\ lock' = lock \ {r}
    /\ UNCHANGED <<row, expired, opening, disk, listing, asked, copies, result, billed,
                   up>>

Handle(r) ==
    \/ OpenSource(r) \/ StartWrite(r) \/ EndWrite(r) \/ BuildFails(r)
    \/ StoreAsset(r) \/ ProbeAsset(r)
    \/ AddOperation(r) \/ Undo(r) \/ Reset(r) \/ RefuseEdit(r)
    \/ CommitEdit(r) \/ EditFails(r)
    \/ LookUp(r) \/ QuotaExceeded(r) \/ Answer(r) \/ AnswerFails(r)
    \/ CloseFlush(r) \/ CloseScan(r) \/ (\E v \in listed : RemoveFile(r, v))
    \/ RemoveAssets(r) \/ RemoveRoot(r) \/ CloseCommit(r)

Next ==
    \/ OpenCopy \/ OpenCommit \/ OpenFails
    \/ \E r \in Requests : Load(r) \/ Handle(r) \/ Abandon(r)
    \/ Expire \/ Stop \/ Start

Spec == Init /\ [][Next]_vars

\* The server does not idle while some request can take a step (nothing says
\* which one goes first), and a stopped server is restarted.
FairSpec ==
    Spec /\ WF_vars(Start) /\ WF_vars(\E r \in Requests : Handle(r))

-----------------------------------------------------------------------------
\* What a session promises.

IsClosing(r) == kind[r] \in {"save", "discard"}

\* A change of the log never came to its end, or was in flight along with another
\* one, as when the app gives up on an edit the server is still at and sends the
\* next.
ChangesCollided ==
    \E p \in Requests :
       /\ IsChange(p)
       /\ pc[p] = "dead" \/ \E q \in met[p] : IsChange(q)

\* "Renders and the final save are built by replaying that log onto the original,
\* with the built file cached per revision": while no two changes have collided,
\* every complete file a render or a save is answered with has exactly the edits
\* of the log its request loaded, whatever builds the edit, the renders, the saves
\* and the discards in flight write, drop and replace under each other, and
\* whichever renders and closers die.  (One of a collision can be answered with
\* the build of the other: AnswersMatchLog, below.)
AnswersMatch ==
    ~ ChangesCollided =>
        \A r \in Requests : result[r].status = "whole" => result[r].doc = base[r]

\* The same without the condition, as the text has it.  The code does not keep it: a
\* build that a lost edit left behind is taken for that of the next edit.
AnswersMatchLog ==
    \A r \in Requests : result[r].status = "whole" => result[r].doc = base[r]


InLog(r) == \E i \in 1..Len(ops) : ops[i] = r
NothingTakenBack == \A q \in Requests : kind[q] \notin {"undo", "reset"}

\* An edit that was answered with success and met no other change of the log on
\* its way is in the log for good until an undo or a reset is asked for: whatever
\* other changes collide before or after it, or die, none of them drops it.
LoneEditsKept ==
    NothingTakenBack =>
        \A r \in Requests :
           /\ pc[r] = "done" /\ kind[r] \in {"edit", "image"}
           /\ \A q \in met[r] : ~ IsChange(q)
           => InLog(r)

\* "Each edit appends to the session's operation log": without the condition, which
\* the code does not keep.
AcknowledgedEditsKept ==
    NothingTakenBack =>
        \A r \in Requests :
           pc[r] = "done" /\ kind[r] \in {"edit", "image"} => InLog(r)

\* Two charges for one session, of saves that did not die on the way, were made by
\* saves in flight at the same moment: a save sent again after the first one ended
\* is refused, or finds the first one's charge given back.
RepeatedSaveNotCharged ==
    \A p, q \in billed : p # q /\ pc[p] # "dead" /\ pc[q] # "dead" => q \in met[p]

\* "Charge one edit, download the result, and end the session": when nothing is in
\* flight and nothing died, the session was billed at most once.  Not so with two
\* saves in flight.
OneChargePerSession ==
    Quiet /\ (\A r \in Requests : pc[r] # "dead") => Cardinality(billed) <= 1

\* Once a session is closed and no request is left, its directory is gone, unless
\* whoever closed it met a request that writes there (an edit, an upload, a render,
\* a save): a discard that meets only discards cleans up, and so does the sweep.
LoneCloseLeavesNothing ==
    /\ state = "closed" /\ Quiet
    /\ \A p \in Requests : pc[p] = "done" /\ IsClosing(p)
                            => \A q \in met[p] : kind[q] = "discard"
    => ~ root

\* "End a session and delete everything it was holding": without the condition, no
\* document and no image is left.  Not so with an upload beside the closer.
NothingLeftBehind ==
    state = "closed" /\ Quiet => ~ original /\ DOMAIN builds = {} /\ assets = {}

\* A closed session is final, whatever was in flight when it closed: nothing
\* reopens it, and no late edit reaches its log.  (A second save or discard that
\* was in flight writes closed_at once more.)
ClosedIsFinal == [][state = "closed" => UNCHANGED row]_vars

\* The original of a closed session is gone and never comes back.
ClosedHasNoOriginal == state = "closed" => ~ original

\* A session that may still be loaded can be worked on: its original is there
\* unless somebody is closing it at this moment, or died closing it.
OpenHasOriginal ==
    state = "open" /\ ~ expired /\ lock = {} /\ ~ original
      => \E r \in Requests : pc[r] = "dead" /\ IsClosing(r)

\* A save that came to its own end and was charged handed out a document:
\* whatever another request deleted under it, a failing save gets its charge
\* back.  (One that dies on the way keeps it: see EditPipeline.)
BilledSavesAnswered ==
    \A r \in billed : pc[r] \in Ended \ {"dead"} => result[r].status # "none"

\* Nobody waits for ever: whatever is in flight, closers and editors queueing
\* for the same row included, a moment comes when nothing is.
EveryRequestEnds == []<>Quiet

-----------------------------------------------------------------------------
\* What a session looks like from outside, whatever overlaps and whatever dies: a
\* log that requests read, and write back changed.  A save is for the log it read
\* (that the file it hands out holds that log is AnswersMatch).
Saved == {r \in Requests : kind[r] = "save" /\ pc[r] = "done"}

Outside == INSTANCE DocumentLog WITH
             Edits <- Requests,
             phase <- state,
             log <- ops,
             read <- {base[r] : r \in Active},
             handed <- {lops[r] : r \in Saved}

\* Every behaviour of the session is a behaviour of DocumentLog.
ImplementsDocumentLog == Outside!Spec
=============================================================================

# PDFree Editor in TLA+

A model of the PDFree Editor: a Flutter app that lets a person change what is on
the pages of a PDF, and the FastAPI server that does the work, keeps a weekly
quota of free edits and holds the documents being edited. The modules are checked
with TLC on small instances. Every component's safety properties are also proved
with TLAPS, for every value of the constants.

1. [The system](#the-system)
2. [The modules](#the-modules)
3. [What each run checks](#what-each-run-checks)
4. [What is proved](#what-is-proved)
5. [Where code and documentation part](#where-code-and-documentation-part)
6. [What is left out](#what-is-left-out)
7. [The plan](#the-plan)

To check it: `tlc -config X.cfg M` for a module `M` and its configurations
(`EditPipeline_*`, `EditorSession_*`, `Entitlement_*`, `PageEdits_*` and
`PageTools_*` run on the `MC...` module, the others on the module itself), and
`tlapm X.tla` for each of `EditPipelineProofs`, `EditorSessionProofs`,
`PageEditsProofs`, `PageToolsProofs`, `EntitlementProofs`, `EditorClientProofs`,
`ToolScreenProofs` and `SignInProofs`.

## The system

| component | code | state | operations | what makes it hard |
|---|---|---|---|---|
| weekly quota and edit pipeline | `services/quota.py`, `edit_pipeline.py`, `usage.py`, `pdf/storage.py` | two columns of the user row, one log row per attempt, temporary files | charge, refund, status, run an edit, sweep at start | concurrent charges, clocks read before a week ends and used after it, a crash between charge and settlement |
| editing sessions | `services/editor.py`, `api/v1/editor.py` | one row, one directory with the original, a build file per revision and uploaded images | open, edit, undo, reset, upload an image, render, save, discard, expire, sweep | every request works on its own copy of the row, nothing holds one back while another is under way, files are not transactional, a build is found by its revision |
| document replay | `services/pdf/document.py` | none between calls; the edit log is its input | read, project, render | erasing is by region, so an edit can take away what it did not name |
| editor screen | `editor_controller.dart`, `editor_repository.dart`, `editor_page.dart` | document model, page, page image, busy flag, two request states | open, edit, undo, go to page, save, discard | answers land in any order, or never, and the server goes on with what the screen gave up on |
| sign-in and renewal | `api_client.dart`, `token_store.dart`, `session_controller.dart`, `services/auth.py` | a token pair in memory, in the keystore and as rows on the server | login, boot, call, renew, retry, log out, reset | one renewal shared by many callers, a keystore written key by key, rotation in two steps |
| whole-file tools | `api/v1/pdf.py`, `pdf/operations.py`, `pdf/ranges.py` | none | compress, merge, split, add text, rotate, delete, reorder | page arithmetic at the boundaries |
| tool screen | `edit_controller.dart`, `pdf_repository.dart`, `tool_page.dart`, the badge of `session_controller.dart` | chosen files, one request state, the remaining edits shown | pick, remove, reset, run, leave, refresh the status | a picker answered during a run, answers that cross, a screen that is gone when its answer lands |
| plan and entitlement | `services/subscription.py`, `models/subscription.py`, `grant_premium.py` | subscription rows, and a copy of what they grant on the user row | grant, revoke, poll, expire | sessions that keep the first copy of a row they load, and write only the columns they changed |
| the rest | rate limit, mail, server address, file saving, screens, configuration, migrations | | | see [What is left out](#what-is-left-out) |

How they interact. Every endpoint that hands out a PDF - the tools, and the save
of a session - goes through `run_edit`, which charges the user row, commits, calls
the endpoint's `produce`, and then either logs a success or refunds and logs a
failure. A save is the only step where two components change together: `produce`
builds the document from the session's directory, and only after `run_edit` has
returned is the session closed. The screens call the server through one
`ApiClient`, which renews the token pair before or after a call; the answer to an
edit carries the remaining quota, which the controllers hand to the session
controller. The server never calls back; it keeps no memory between requests
other than the database and the two directories.

What has to be true of each part, in words: no week is billed for more edits than
the limit, and the counter, the log and the bills agree; a session's answers are
its log replayed, an edit acknowledged is not lost, a session is charged for once, a
closed session stays closed and leaves nothing behind; the rendered page is the
projection of the log and nothing else changes; the screen does not write twice at
once, is never stuck, and never shows an old page as current; a press of a tool is one
run, and the badge shows what the server still allows; the copy of the plan follows
the subscription
rows; the app is not signed out by its own doing, and a login that was ended stays
ended; the tools hand out the pages that were asked for. Not all of it is true of the
code: [below](#where-code-and-documentation-part) is where it is not, and the
properties say how much of it is.

The hazards - what can go wrong that a test would hardly reach - are listed at
their lines in `PROJECT.json`, each with the properties that would notice, or the
reason why none does.

## The modules

| module | lines it stands for | correspondence |
|---|---|---|
| `EditPipeline` | `quota.py`, `edit_pipeline.py`, the sweep in `main.py` | `edits_used`, `quota_period_start` are the columns; `pc`, `now`, `charged` are `run_edit`'s position and locals; `Charge`, `Reject` are `try_consume` and its commit; `Produce`, `Fail`, `Finish`, `Sent` the rest of `run_edit`; `SettleFails` a transaction that fails after the charge; `Crash` and `Restart` the process |
| `QuotaLedger` | the promise | a page per week, entries entered and struck out |
| `EditorSession` | `editor.py`, `api/v1/editor.py` | `state`, `ops`, `revision` are the row; `root`, `original`, `builds`, `adir`, `assets` the directory and `half` the builds still being written; `listed` what `rmtree` has yet to unlink; `lops`, `lrev`, `base` each request's copy; the actions are the code between two awaits |
| `DocumentLog` | the promise | a log that requests read and write back with one edit more, one less or none, the last writer winning; saves hand out a log that was read, and a closed log is final |
| `PageEdits` | `document.py` | `before` is what `_read_page` finds; `log`, `final` the operations and their projection; `ink` and `pics` the page being built; `stage` the five numbered passes of `_render_page_edits` |
| `EditorClient` | `editor_controller.dart`, `editor_repository.dart`, the buttons of `editor_page.dart` | the private fields under their names; a call has a side in the app (sent, answered, ended) and a side on the server (coming, loaded, done), and lands |
| `ToolScreen` | `edit_controller.dart`, `pdf_repository.dart`, `tool_page.dart`, `applyQuotaAfterEdit` and `refreshStatus` | `view` is `_state`, `chosen` whether `_files` are enough, `badge` the remaining edits shown; a call has a side in the app and a side on the server, and either may end first |
| `Entitlement` | `subscription.py`, `subscription.py` of the models, `grant_premium.py`, the status endpoint | `user` and `row` are the tables; each job is a transaction with its session's `copy` of the user row and the rows it has `seen`; `Commit` writes the rows it touched and the columns that differ from what it loaded |
| `SignIn` | `api_client.dart`, `token_store.dart`, `session_controller.dart`, `auth_repository.dart`, `auth.py` | `tokens` and `disk` are memory and keystore, `keystore` the writes still to do; `inFlight` is `_refreshInFlight`; `live` the refresh tokens that are not revoked |
| `PageTools` | `pdf.py`, `operations.py`, `ranges.py` | a request is a tool with files and fields, `Produce` what its endpoint makes of it |
| `MC...` | | the small sets and the symmetry the runs use |
| `...Proofs` | | the theorems about the module of that name |

What one step is. In `EditPipeline` a step is a database transaction or the work
between two of them: the `UPDATE` holds the row lock until its commit, so two
charges never interleave inside. In `EditorSession` it is the code between two
awaits of a handler, with the worker threads' file operations as steps of their
own: sessions are created with `expire_on_commit=False` and `autoflush=False`, so a
request works on the copy it loaded, and writes the columns it changed when it
flushes, where it also takes the row lock. In `Entitlement` it is one SELECT, one
computation or one commit. In `EditorClient`, `ToolScreen` and `SignIn` it is one
Dart callback: Dart runs them one at a time.

Abstractions worth knowing when reading. Time in `EditPipeline` is the week the
clock is in; premium may flip at any moment, which includes every way a
subscription can end. An edit in `EditorSession` is named by the request that made
it, so that a document is a sequence of edits, and its `image` is such an edit with
an upload. Requests of all kinds overlap, up to `MaxInFlight` of them: nothing on the
server holds one back, and neither does the app, whose `discard` ignores the busy flag
and whose edits and saves release it when the app gives up waiting, while the handler
goes on. A build is made in two steps, `StartWrite` and `EndWrite`, between which
whoever looks for the file finds it half written (`half`), and serves it so; an
answer notes whether its file was whole. `rmtree` lists the directory and then
unlinks what it found, one file at a time, holding the event loop while the worker
threads of other requests go on. `met` remembers which requests were in flight
together. The page
of `PageEdits` is a row of cells and a rectangle is an interval:
what the renderer does depends on which rectangles overlap, and intervals give
chains, nesting, contact and separation; a span's `look` is the position in the
log of the last edit to its words or style. `EditorClient` keeps of the server a
revision and an open flag per document. `Lose` ends the app's wait alone: the server
may have carried the call out, be about to, or have read the session and be at work,
and what it does then lands nowhere. `late` remembers the documents on whose edit or
save the app gave up, `crossed` those of which one edit was stored over another,
`broken` that a file could not be read or written on the device. `SignIn` numbers
token pairs in the order of their issue and has two clocks, `ending` for the two minutes before expiry and
`over` for expiry itself; a renewal that the app has given up on and the server has
not is an orphan, `stray` remembers that one was committed after all, and `excused`
that something has happened that may end a session without a logout.
`Entitlement` compares no version, because the code does not: two overlapping jobs
each write the columns they changed, and `settled` remembers whether the last one
was overtaken between its first read and its commit. `ToolScreen` has the weekly
counter of one account within one week, and remembers in `certain` whether the
badge was last set by a call that nothing overlapped. `PageTools` keeps of a page
where it came from, its turn and whether text was put on it.

Operators whose comment begins "Variant" or "Mutant" are the one-line mistakes the
properties are tested against: replacing the definition they vary by them must make
TLC report the property. No specification uses them.

## What each run checks

Every run takes less than four minutes with two workers.

| run | instance | states | shows |
|---|---|---|---|
| `accounting` | 3 requests, limit 2, 2 weeks, crashes | 117,228 | the quota's invariants, that it implements `QuotaLedger`, that charges are settled and files released |
| `overlaps` | 3 requests at once, one of them an edit that cannot be replayed, logs of up to 2 edits, crashes | 1,819,058 | what survives any interleaving and any death: `AnswersMatch`, `LoneEditsKept`, `RepeatedSaveNotCharged`, `LoneCloseLeavesNothing`, `OpenHasOriginal`, `BilledSavesAnswered`, `ClosedIsFinal`, and that the session implements `DocumentLog` |
| `progress` | 2 requests at once, crashes | 20,673 | everyone who is left gets through |
| `screen` | 4 calls, 2 pages, calls given up on | 665,295 | when writes overlap, the spinners, the page image, the dropped document |
| `tool_screen` | 4 calls, limit 2 | 70,351 | one run per press, an exact badge once a call was alone, no screen left loading |
| `entitlement` | 3 overlapping transactions, a clock of 3 moments | 38,145 | the copy of the plan after an undisturbed transaction, its end, the history of the rows |
| `replay` | logs of 2 edits on 9 pages of six cells | 159,978 | the rendered page is the projection of the log |
| `sign_in` | 3 calls, 2 pairs, lost answers, abandoned renewals, kills, a reset | 1,246,074 | one renewal for many callers, ended logins stay ended, keystore and memory agree |
| `renewals` | 3 calls, 3 pairs, lost answers, abandoned renewals, a reset | 6,636,942 | one live token per login, with room for a second rotation of the same token |
| `tools` | every tool, documents of up to 5 pages, fields of up to two groups | 18,550 | pages handed out, pages logged, no sound request refused |
| `torn_save`, `shared_image` | | | violations, see below |

Why the bounds are enough to be worth checking:

- Three requests and a limit of two let two charges race for the last edit while a
  third fails, and a refund land in the week after its charge. The theorems take
  every limit and every number of requests.
- Three requests at once are, among others, two edits and a save, an edit and two
  renders of either revision, an upload beside two closers, an edit whose replay fails
  under a discard, or a save sent again while the first is under way, each with a death
  or an expiry at any step. `AnswersMatch` was checked by hand with four requests, two
  at a time (1.4 million states), which adds a second edit that needs the build of the
  first, a late render, and a save after both; and `EveryRequestEnds` with three
  requests that queue for the row lock and do not die. The theorems take every number of
  requests, all in flight at once.
- Three transactions and three moments let a grant lapse while a poll that saw it is
  under way and a revoke overtakes both. Four transactions were checked by hand
  (1.25 million states) with the same result.
- Four calls of the tool screen are two runs that fill the limit of two, a pick that
  lands during one, and a status read that crosses their answers.
- Two edits on a page with three text layouts (a chain of overlaps, nesting with an
  edge that only touches, nothing) and three image layouts (apart, overlapping,
  nothing) reach a change to a run that a second change has moved away from, a
  deletion followed by an addition, and a move onto another run.
- Four calls of the screen are an open, an edit, a page change and a save, with the
  renders that follow an answer reusing its slot, so an answer may be overtaken by
  any other; or an edit that the app gives up on and a second one that the server
  works on beside it, or a save sent twice.
- Three calls of the app let two callers wait for one renewal while a third logs
  out; two pairs are one rotation, or one rotation away from a second login. A second
  rotation of a token that has been rotated needs a third pair: `renewals` has it, for
  three calls with timeouts, and for two it was checked by hand with kills as well.
  A renewal after a stray one then leaves two live tokens of one login, which is why
  `OneLiveTokenPerSignIn` ends with the first stray one.
- The numbers in page fields lie before, on and after the pages of documents of one,
  two and three pages; a limit of four pages is exceeded by one document.

`CHECK_DEADLOCK FALSE` appears where a bounded number of calls or transactions is
used up (`screen`, `tool_screen`, `sign_in`, `renewals`, `entitlement`) or where one
request is one behaviour (`tools`).

Fairness. `EditPipeline`: each accepted request goes on, since the event loop runs
every coroutine and `produce` works in threads that finish, and a stopped server is
started again; nothing obliges anybody to make a request, nor a week to end.
`EditorSession`: some request that can take a step takes one; nothing is assumed
about which, so that queueing for the row lock is not decided by fairness.
`ToolScreen` and `SignIn`: calls are served or time out, since every call has a
connect and a receive timeout, and answers land, since the event loop goes on.
`EveryRequestEnds` of `SignIn` is stated for behaviours in which no save raises:
`TokenStore.save` reads `_expiresAt!` again after two awaits, and a logout in between
makes it raise where no handler completes the shared renewal. `LoadingEnds` of
`ToolScreen` leaves out a screen on which a file could not be read or written: `run`
catches `ApiException` alone, and the state then stays at loading.

Some properties are conditional in a way a reader should notice.

- `ImagesMatchLog` leaves out pages where erasing an image meets another that should
  stay (`NoneMet`), because the redaction does take that one away.
- `TempFilesReleased` leaves out, while the server runs, a request that was lost to a
  failure of its transaction (a save whose closing fails after its success is on
  record is one: the response, whose background task deletes the result, is never
  run). Its files must still go at the next start.
- `AnswersMatch` is about files that were whole, and ends (`ChangesCollided`) when two
  changes of the log overlap or one dies.
- `LoneEditsKept` is about an edit that no other change of the log overlapped,
  `RepeatedSaveNotCharged` about saves that were not in flight together,
  `LoneCloseLeavesNothing` about sessions whose closers met no request that writes into
  the directory. [Below](#where-code-and-documentation-part) is why.
- `WritesOverlapOnlyWhenLate` does not count a discard as a write, and
  `SettledFrameIsCurrent` leaves out the revision of a document of which one edit was
  stored over another (`crossed`), which takes a call the app gave up on.
- `LockedOnlyWhileWorking` leaves out the two spinners once a file could not be read or
  written (`broken`): `open` and `save` then raise what no handler catches, and the
  spinner stays.
- `BilledOnlyForFiles` and `EveryChargeSettles` leave out requests that were lost
  with the process or with their transaction: such a charge is kept, and no code
  gives it back.
- `OneRunAtATime` leaves out a screen on which a pick landed during a run
  (`interfered`): the controller then shows idle with a run under way.
- `BadgeIsExact` asks that the call that set the badge last was alone (`certain`):
  answers that cross leave an older number until the status is next read.
- `OneLiveTokenPerSignIn` ends with the first stray renewal, and
  `ExpiredOnlyForCause` is as strong as its list of causes (`excused`).
- `SettledCopyIsRight` speaks of the state after a transaction that no other
  overtook: in between, the copy may be wrong in either direction (see
  [below](#where-code-and-documentation-part)).

## What is proved

Each proof module extends its component's module, and assumes nothing of the
constants but the named assumptions stated there (finite `Requests`, a natural
`Limit`, and so on), which TLC evaluates on every run. Every invariant and every
action property that a run is expected to pass is the property of a theorem. The
hypotheses that some of them have (`PromptCharges`, `OneResourceEach`) are named
with them below. Each inductive invariant, where it says more than that an
answer was computed, was first checked by TLC on the instance of a run.

`EditPipelineProofs`, for any finite set of requests, any limit and any last week,
with or without crashes:

- `TypeCorrect` and `CounterBounded` (`edits_used` never exceeds the limit, or one
  if the limit is zero) and `StatusAgreesWithCharge` need nothing more: they hold
  even for requests that straddle a week's end.
- `AccountingHolds` is the inductive invariant, for `PromptCharges`, that is when no
  request is between its clock reading and its charge as a week ends. The counter
  being exact is not inductive by itself: a refund must find the bill it takes away,
  and a charge that opens a new window must find no bill of that week yet. So
  `Accounting` adds that an uncharged request has no bill (`Uncharged`), that no
  bill lies after the stored window (`ChargesBehindWindow`), that the window is not
  ahead of the clock (`WindowBehindClock`) and that a request about to charge read the
  current week (`ClockReadingsFresh`). `ChargeBills`, `FailUnbills` and
  `BystandersKeepBills` say what the three kinds of steps do to the set of bills of
  a week; one lemma per kind of step keeps the invariant.
- `WeeklyLimitHolds`, `CounterExact`, `StatusExact`, `RejectionsAreHonest` follow
  from it; `AuditHolds` adds `RowsFollow`, that log rows follow charges.
- `OnlyFilesAreBilled`, with crashes and on any clock, from `SuccessOnRecord`: a
  charge comes before the work, and the success row before the end.
- `PipelineImplementsLedger`: a charge maps to `Enter`, a failure with a bill to
  `StrikeOut`, a week's end to `NextWeek`, everything else stutters.

`EditorSessionProofs`, for any number of requests in flight and with crashes:

- `TypeCorrect`.
- `ClosedLosesOriginal` and `ClosedStaysClosed`. A request in flight when the
  session closes still has its copy and means to write it. No column is
  compared and nothing looks at `closed_at` again; what stops it is that its
  transaction still has to project the original, after waiting for the row lock, and
  that the closer deleted the original before it let the lock go. The invariant
  `Finality` says that a closed session, and a request that has deleted the
  directory, leave no original, and that nothing runs before the session is open.
- `OpenKeepsOriginal`, from `Finality` and `Locking`: the lock is held exactly by
  the request that closes, there is one at most, and an original that is gone while
  the row is open has its deleter at "deleted" or dead. It speaks of sessions whose
  time is not up: the startup sweep also deletes before it commits, and a sweep
  whose transaction is lost leaves an open row without files until the next one.
  No request reaches that row, which has expired.
- `ChargedSavesAnswered`, from `Charged`: a save is charged on the way to its build,
  loses the charge with the build, and closes only with a document in hand.

- `RepeatsAreFree`, from `Acquainted`: a request that ends the session and one that had
  loaded it open, both of them not dead, have met. A save that loads after another one
  has ended is refused, because by then the row is closed.
- `TidyCloseIsEmpty`. The directory of a closed session is empty unless a closer met
  somebody who writes. `Cleaned` has to speak of the deletion while it goes on: what is
  on disk beyond what `rmtree` listed can only be there because of a request that the
  closer has met.
- `LoneEditsStay`, from `Shapes` (what a request at work will write is the log it
  loaded with its own change) and `Kept`: the log is an extension of a lone edit's, and
  so is every log that a request in flight has loaded since. A collision before it has
  left a log to build on, and one after it works on logs that already have the edit.
- `IsDocumentLog`, the refinement: a load is a `Read`, a commit of an edit an `Add`, an
  `Undo` or a `Clear` of a log that was read, the commit of a close a `Save` or a
  `Close`, a request that ends in any other way a `Forget`, the sweep of an expired
  session a `Close`, and everything else stutters. It needs neither a bound on what
  overlaps nor that nothing dies.
- `AnswersExact` is not inductive, because an answer comes from a file that is found by
  its revision alone. Until two changes have collided, `Copies` says that a copy is the
  row as it was when loaded, that the one changing request's differs from it by its own
  change, one revision ahead, and that two copies of one revision are copies of one
  log; `Files` that a file holds the log of its revision, for the revisions of the row
  and of the copies, and that a revision ahead of the row has a file only if the
  changing request put it there. It is the last clause that the death of a change
  breaks, and that a second change breaks too.

`PageEditsProofs`, for a page of any width with any number of runs and images and logs
of any length:

- `ReplayHolds` is the inductive invariant: at each stage the ink is what the erased
  rectangles leave of the original (`Clear`) with, from the fourth pass on, what was
  drawn (`Drawn`), the images are those spared and those placed, and at the end each
  shows its resource after the swaps (`AfterSwap`). It speaks of the original and the
  projection alone, so each of the five passes is one lemma.
- The projection of a log and the passes of `_overlap_closure` are recursive functions.
  Induction is used as a fact about sets of naturals (`SetInduction`, from the
  well-foundedness of `<`): there is a page after every operation (`ProjectsExists`), the
  objects of the original keep their handle, resource and origin through every log
  (`ProjectKeeps`), and the closure is closed under overlap within as many passes as
  there are runs, because a pass that adds none is the last, and contains no run that
  some closed set leaves out.
- `TextIsRendered` takes from it that no selected run overlaps one that is left, so that
  erasing takes away whole runs and drawing brings them back whole;
  `UntouchedTextIsKept` that the closure is the least one. Neither needs a hypothesis:
  runs may overlap, nest and repeat as they like.
- `EditsTouchOne`: the handle of a new object is above all there are, and appending to a
  log leaves the projection of what came before.
- `ImagesAreRendered` has the hypothesis `OneResourceEach`: no original shows one resource
  twice. Without it the property is false, which is the run `shared_image`.

`PageToolsProofs`, for documents of any length, any number of files, and fields with any
number of groups: `ResultAsAsked`, `LoggedAsHandedOut` and `SoundRequestsServed`. A request
is answered in one step, so there is no invariant to find; the work is in the loops of
`operations.py` and `ranges.py`:

- `GroupParsed` says what one group of a field is, counting up or down, and
  `PagesParsed` that a page is in the list of pages once for every group that names it.
- `Rotated`: the loop that turns one page after another turns each by its count at once.
- `Deleted`: `Left` says what a document is when the pages from some page on have been
  deleted, and is kept by each deletion because those behind it are gone already; going
  forwards (`DeleteForwards`) breaks it.
- `FlattenPlaces` says where a merge puts each page of each file, and `SameLengths` that
  the parts of a split are as long as the ranges they were cut by.
- `DeletionLeavesOne`: a deletion that names no page twice and leaves one is shorter than
  the document, which is what the code compares; it counts the list, not the set.

`EntitlementProofs`, for any number of transactions and any clock: `SettledCopy`,
`PremiumEnd` and `RowsEnd`. The invariant speaks of each session: what its copies can
be at all (`Copies`: a row it has seen has the period that is in the table, a row it
touched is one that it ends or its own), and that they are exact as long as nothing
was committed since its first read (`Exact`). An undisturbed commit therefore writes
what the rows grant at a moment not later than the clock, and premium that lapses by
time alone lapses at its end.

`EditorClientProofs`, for any number of calls, pages and documents:
`OverlapNeedsGivingUp`, `NeverStuckLocked`, `SavedStaysAway` and `FrameIsCurrent`.

- `IInv` is about what the app sees. Busy is tied to the one write it waits for
  (`OneAwaited`), and each spinner to the call that started it. A saved document stays
  away because every call is about a document that was opened (`CallsNamed`,
  `SpentNamed`), and a write that is waited for is never about one that was saved
  (`WritesUnspent`). For the picture, a call carries a revision that the server has
  reached unless edits crossed (`CallsRecent`), and a picture that is neither current
  nor marked stale has its render under way (`FrameFollows`).
- `LInv` adds what the server sees. A write it is at is waited for unless its document
  is late (`WritesAwaited`), so two of one document are not (`WritesApart`), and what a
  write has read is still current (`ReadsCurrent`), so that none is stored over another.
  This is what the app adds to the server: which overlaps of `EditorSession` it causes.

`ToolScreenProofs`, for any number of calls and any limit: `OneRun` and `BadgeExact`.
The badge is behind the counter by the charged runs whose outcome it has not heard
of (`BadgeBehindCharges`, a count over `Charged`), a call that is alone has the
number of this moment (`AloneIsExact`), and nothing that was given up on is still
charged while the badge is certain (`GivenUpIsUncertain`).

`SignInProofs`, for any number of calls and of pairs, with losses, abandoned renewals
and kills:

- `KeystoreCatchesUp`. A save and a clear write the keystore key by key, asking for the
  next key only when the last was written, and may overlap. The invariant says that
  for every key the latest wish, in the queue or still to be asked for by the request
  that changed memory last, is what memory holds.
- `OneToken`, `StaysEnded`, `OnlyForCause`. `Single` says that at most one request
  renews, `Chains` that tokens of one login are issued in order and only the newest
  can be live, read or held; the token in memory is then live unless something
  excuses it (`Expected`).

Model-checked only: the liveness properties (`EveryChargeSettles`, `TempFilesReleased`,
both `EveryRequestEnds`, `LoadingEnds`), which need fairness and `ENABLED`, beyond the
prover; and that the violated properties are violated.

## Where code and documentation part

Each of these is a run that TLC ends with a counterexample to a sentence of the
repository; `PROJECT.json` quotes the line.

- `torn_save`: with no two changes overlapping, a render of an older revision drops the
  current build, the next render starts to write it again, and the save that comes
  meanwhile takes the half-written file for the document, is charged and closes the
  session ("the document with every pending edit applied").
- `shared_image`: replacing one placement of a picture changes all of them ("swap one
  image for another").

More disagreements have no run of their own; each shows when the bound or the property
named is changed. The first four are invariants of `EditorSession` that TLC refutes on
the instance of `overlaps`. Each is the statement of the repository, and each has a
checked property beside it that says how far the statement does hold.

- `AcknowledgedEditsKept` ("Each edit appends to the session's operation log",
  `services/editor.py:6`): of two edits in flight the later commit writes its own list
  over the earlier edit, which was answered with success. `LoneEditsKept` holds.
- `OneChargePerSession` ("Charge one edit, download the result, and end the session",
  `api/v1/editor.py:345`): the session is looked at before the charge and closed after
  it, so two saves in flight are both charged. `RepeatedSaveNotCharged` holds.
- `NothingLeftBehind` ("End a session and delete everything it was holding",
  `services/editor.py:239`): an image uploaded while the session is closed brings the
  directory back, and no sweep looks at a closed session. `LoneCloseLeavesNothing` holds.
- `AnswersMatchLog` ("built by replaying that log", `services/editor.py:7`): a build file
  written before its transaction was lost is taken, by its revision, for the build of
  the next edit. `AnswersMatch` holds.
- The app can bring about the first two by giving up, after a timeout or on a broken
  connection, on a call that the server goes on with, and in no other way
  (`WritesOverlapOnlyWhenLate`); the third with a discard beside an upload, which needs
  no failure at all.
- With `PromptCharges = FALSE` in `EditPipeline_accounting.cfg`, a request that read the
  clock before Monday and charges after the first charge of the new week writes the
  old window back, and the week is billed one full limit again.
- In `EditorClient` the guard "against an out-of-order render landing after a newer
  edit" compares the document, which is the same for both: an older picture may
  replace a newer one, and is then marked stale or followed by another render
  (`SettledFrameIsCurrent` holds for that reason).
- In `Entitlement`, with three overlapping jobs a revoke can be undone on the user row
  until the next poll, and with five the columns of two commits can mix into premium
  without an end. `SettledCopyIsRight` says that the next undisturbed poll repairs
  both.

## What is left out

- Fonts, colours, sizes, glyphs and paint order; text that runs off the page; damaged
  files. `PageEdits` knows that a run is set in the document's own face or in a
  substitute, nothing more.
- What PyMuPDF, the database and the keystore are: they are modelled by what the
  code relies on (a redaction erases whatever its rectangle meets; a row lock is
  held until the commit; a keystore does one wish at a time, in order).
- On the screens: pickers, gestures, selection, placement, layout, settings,
  paywall and theme.
- In `SignIn`: a changed server address, the thirty days of a refresh token, the
  life of a reset token, and several devices.
- In `ToolScreen`: the order of the chosen files, the progress of an upload, the form
  fields, and the end of a week (`EditPipeline` has it).
- In `Entitlement`: the listing of `grant_premium.py`, which changes nothing, and the
  app stores, which the code does not call. `expire_stale_subscriptions` has no caller
  in the repository and is a job of its own here.
- Rate limiting (one deque, no await between test and append), mail, file saving,
  configuration, migrations and serving the web app: sequential or pure input and
  output.
- Ownership: every query names the user; a model with one user says nothing about it.

## The plan

The modules were written by how much of the system depends on them: the quota
(`EditPipeline`, `QuotaLedger`), the session (`EditorSession`, `DocumentLog`), the
replay (`PageEdits`), the screen (`EditorClient`), sign-in (`SignIn`), the tools
(`PageTools`), the tool screen (`ToolScreen`), the plan (`Entitlement`). What would come
next:

1. `EditorClient` and `EditorSession` as one specification, so that what the app may
   overlap is an assumption discharged inside it.
2. `AnswersMatch` beyond the first collision: `Files` then has to say which revisions a
   lost transaction may have left behind.
3. An open that fails after its directory was made, and the pictures of two
   overlapping images when one goes.
4. The thirty days of a refresh token and a second device in `SignIn`.

----------------------------- MODULE PageTools -----------------------------
(***************************************************************************)
(* The whole-file tools: what each /pdf endpoint makes of the files it is  *)
(* sent (backend/app/api/v1/pdf.py), the page selections it reads          *)
(* (services/pdf/ranges.py) and what PyMuPDF is made to do with them       *)
(* (services/pdf/operations.py).                                           *)
(*                                                                         *)
(* A document is a sequence of pages, of which the model keeps where the   *)
(* page came from, how far it is turned and whether text was stamped on it.*)
(* The charge, the refund of a refused request and the temporary files are *)
(* EditPipeline's.                                                         *)
(***************************************************************************)
EXTENDS Integers, FiniteSets, SequencesExt

CONSTANTS
    MaxPages,   \* settings.max_pdf_pages
    MaxRanges,  \* ranges.MAX_RANGES
    MaxFiles,   \* settings.max_merge_files
    Requests    \* what people ask for: a tool, the files they send, its fields

Tools == {"rotate", "delete", "reorder", "compress", "split", "merge", "text"}

\* What an uploaded file can be.
Kinds == {"pdf", "locked", "broken", "not a pdf", "empty", "too large"}
Page == [from : Nat, turn : {0, 90, 180, 270}, stamped : BOOLEAN]
Upload == [kind : Kinds, pages : Seq(Page)]

\* Only a PDF has pages, and they are numbered.  Every endpoint requires its file, and
\* a group of a field is a number or two.
ASSUME RequestsAssumption ==
    \A r \in Requests :
       /\ r.tool \in Tools /\ r.files \in Seq(Upload) \ {<<>>}
       /\ \A f \in ToSet(r.files) :
             /\ f.kind # "pdf" => f.pages = <<>>
             /\ \A p \in DOMAIN f.pages : f.pages[p].from = p
       /\ r.spec \in Seq(Seq(Int)) /\ \A group \in ToSet(r.spec) : Len(group) \in 1..2
       /\ r.order \in Seq(Int) /\ r.degrees \in Int /\ r.number \in Int
ASSUME BoundsAssumption == MaxPages \in Nat /\ MaxRanges \in Nat /\ MaxFiles \in Nat

VARIABLES
    request,  \* which tool, with which files and fields
    answer    \* what came back

vars == <<request, answer>>

\* ok: the files handed out, and the page count written to usage_logs.  early: the
\* request was refused before run_edit charged for it.
Refused == [status |-> "refused", parts |-> <<>>, logged |-> 0]
Early == [Refused EXCEPT !.status = "early"]
Waiting == [Refused EXCEPT !.status = "waiting"]
Done(parts, logged) == [status |-> "ok", parts |-> parts, logged |-> logged]

-----------------------------------------------------------------------------
\* ranges.py.  A field is a sequence of groups, the blank ones dropped; a group is
\* one number or the two ends of a range.  NotDigits is anything isdigit refuses.

NotDigits == -1

\* Mutant: the last page is out of range.
ParsePageShort(raw, count) == raw # NotDigits /\ 1 <= raw /\ raw < count

ParsePage(raw, count) == raw # NotDigits /\ 1 <= raw /\ raw <= count

\* _parse_group: a range whose ends are the wrong way round counts down.
ParseGroup(group) ==
    IF Len(group) = 1 THEN group
    ELSE LET start == group[1]  end == group[2]
             step == IF end >= start THEN 1 ELSE -1
         IN [i \in 1..((end - start) * step + 1) |-> start + (i - 1) * step]

\* parse_ranges: what it accepts, and what it returns.
AcceptsRanges(spec, count) ==
    /\ Len(spec) \in 1..MaxRanges
    /\ \A g \in DOMAIN spec : \A i \in DOMAIN spec[g] : ParsePage(spec[g][i], count)

ParseRanges(spec) == [g \in DOMAIN spec |-> ParseGroup(spec[g])]

\* _parse_pages
ParsePages(spec) == FlattenSeq(ParseRanges(spec))

-----------------------------------------------------------------------------
\* operations.py

\* How many pages some documents have together.
PagesIn(docs) ==
    LET sum[n \in 0..Len(docs)] == IF n = 0 THEN 0 ELSE sum[n - 1] + Len(docs[n])
    IN sum[Len(docs)]

\* save_upload, then inspect.
Inspect(u) == u.kind = "pdf" /\ Len(u.pages) \in 1..MaxPages

ExtractPages(doc, pages) == [i \in DOMAIN pages |-> doc[pages[i]]]

RotatePages(doc, pages, degrees) ==
    LET turned[n \in 0..Len(pages)] ==
            IF n = 0 THEN doc
            ELSE [turned[n - 1] EXCEPT ![pages[n]].turn = (@ + degrees) % 360]
    IN turned[Len(pages)]

\* Mutant: from the first page to the last.
DeleteForwards(doc, pages) ==
    LET left[page \in 0..Len(doc)] ==
            IF page = 0 THEN doc
            ELSE IF page \in ToSet(pages) \cap DOMAIN left[page - 1]
                 THEN RemoveAt(left[page - 1], page)
                 ELSE left[page - 1]
    IN left[Len(doc)]

\* From the last page to the first, so that no deletion moves a page still to go.
DeletePages(doc, pages) ==
    LET left[page \in 1..(Len(doc) + 1)] ==
            IF page > Len(doc) THEN doc
            ELSE IF page \in ToSet(pages) THEN RemoveAt(left[page + 1], page)
            ELSE left[page + 1]
    IN left[1]

\* doc.select
SelectPages(doc, order) == [i \in DOMAIN order |-> doc[order[i]]]

AddText(doc, number) == [doc EXCEPT ![number].stamped = TRUE]

-----------------------------------------------------------------------------
\* pdf.py, one operator per endpoint.  f is the upload, r the request.

Rotate(f, r) ==
    IF AcceptsRanges(r.spec, Len(f.pages)) /\ r.degrees \in {90, 180, 270}
    THEN Done(<<RotatePages(f.pages, ParsePages(r.spec), r.degrees)>>, Len(f.pages))
    ELSE Refused

\* Mutant: a page selected twice is counted twice.
TrimCountingTwice(f, r) ==
    LET pages == ParsePages(r.spec) IN
    IF AcceptsRanges(r.spec, Len(f.pages)) /\ Cardinality(ToSet(pages)) < Len(f.pages)
    THEN Done(<<DeletePages(f.pages, pages)>>, Len(f.pages) - Len(pages))
    ELSE Refused

\* delete_pages refuses by the length of the list, the endpoint counts the set.
Trim(f, r) ==
    IF AcceptsRanges(r.spec, Len(f.pages)) /\ Len(ParsePages(r.spec)) < Len(f.pages)
    THEN LET pages == ParsePages(r.spec)
         IN Done(<<DeletePages(f.pages, pages)>>, Len(f.pages) - Cardinality(ToSet(pages)))
    ELSE Refused

Reorder(f, r) ==
    IF Len(r.order) = Len(f.pages) /\ ToSet(r.order) = DOMAIN f.pages
    THEN Done(<<SelectPages(f.pages, r.order)>>, Len(f.pages))
    ELSE Refused

Compress(f, r) == Done(<<f.pages>>, Len(f.pages))

\* One range comes back as a PDF, several as a ZIP of parts.
Split(f, r) ==
    IF AcceptsRanges(r.spec, Len(f.pages))
    THEN LET groups == ParseRanges(r.spec)
             parts == [g \in DOMAIN groups |-> ExtractPages(f.pages, groups[g])]
         IN Done(parts, PagesIn(groups))
    ELSE Refused

AddTextTo(f, r) ==
    IF r.number \in DOMAIN f.pages
    THEN Done(<<AddText(f.pages, r.number)>>, Len(f.pages))
    ELSE Refused

\* merge: the number of files is checked before run_edit, the pages after.
Merge(files) ==
    LET docs == [i \in DOMAIN files |-> files[i].pages] IN
    IF Len(files) \notin 2..MaxFiles THEN Early
    ELSE IF (\A i \in DOMAIN files : Inspect(files[i])) /\ PagesIn(docs) <= MaxPages
         THEN Done(<<FlattenSeq(docs)>>, PagesIn(docs))
         ELSE Refused

\* Each tool of the app has its endpoint; merge alone sends several files.  The form
\* of add-text asks for a page number of 1 or more, before run_edit charges.
Produce(r) ==
    LET f == r.files[1] IN
    IF r.tool = "merge" THEN Merge(r.files)
    ELSE IF r.tool = "text" /\ r.number < 1 THEN Early
    ELSE IF ~Inspect(f) THEN Refused
    ELSE CASE r.tool = "rotate" -> Rotate(f, r)
           [] r.tool = "delete" -> Trim(f, r)
           [] r.tool = "reorder" -> Reorder(f, r)
           [] r.tool = "compress" -> Compress(f, r)
           [] r.tool = "split" -> Split(f, r)
           [] r.tool = "text" -> AddTextTo(f, r)

-----------------------------------------------------------------------------
Init ==
    /\ request \in Requests
    /\ answer = Waiting

Serve ==
    /\ answer = Waiting
    /\ answer' = Produce(request)
    /\ UNCHANGED request

Spec == Init /\ [][Serve]_vars

-----------------------------------------------------------------------------
\* Properties.

Ok == answer.status = "ok"
Doc == request.files[1].pages
Named == {page \in 1..Len(Doc) :
            \E g \in DOMAIN request.spec :
               LET ends == ToSet(request.spec[g])
               IN \E a, b \in ends : a <= page /\ page <= b}

\* How many groups of the field contain the page.
Mentions(page) ==
    Cardinality({g \in DOMAIN request.spec :
                   \E a, b \in ToSet(request.spec[g]) : a <= page /\ page <= b})

\* What each tool promises, said of the pages and not of how they are walked.
Turned ==
    /\ Len(answer.parts[1]) = Len(Doc)
    /\ \A p \in DOMAIN Doc :
          answer.parts[1][p] =
            [Doc[p] EXCEPT !.turn = (@ + Mentions(p) * request.degrees) % 360]

Trimmed ==
    /\ ToSet(answer.parts[1]) = {Doc[p] : p \in DOMAIN Doc \ Named}
    /\ \A i, j \in DOMAIN answer.parts[1] :
          i < j => answer.parts[1][i].from < answer.parts[1][j].from

Reordered ==
    /\ Len(answer.parts[1]) = Len(Doc)
    /\ \A p \in DOMAIN Doc : \E i \in DOMAIN request.order :
          request.order[i] = p /\ answer.parts[1][i] = Doc[p]

\* A part runs from one end of its range to the other, a page at a time.
RunsFrom(part, a, b) ==
    /\ part[1] = Doc[a] /\ part[Len(part)] = Doc[b]
    /\ \A i \in 1..(Len(part) - 1) :
          part[i + 1].from - part[i].from = IF a < b THEN 1 ELSE -1

Divided ==
    /\ Len(answer.parts) = Len(request.spec)
    /\ \A g \in DOMAIN request.spec :
          RunsFrom(answer.parts[g], request.spec[g][1], Last(request.spec[g]))

\* One file after another, in the order they were sent.
Joined ==
    LET docs == [k \in DOMAIN request.files |-> request.files[k].pages] IN
    /\ Len(answer.parts[1]) = PagesIn(docs) /\ PagesIn(docs) <= MaxPages
    /\ \A k \in DOMAIN docs : \A i \in DOMAIN docs[k] :
          answer.parts[1][PagesIn(SubSeq(docs, 1, k - 1)) + i] = docs[k][i]

Stamped ==
    \A p \in DOMAIN Doc :
       answer.parts[1][p] = [Doc[p] EXCEPT !.stamped = @ \/ p = request.number]

\* A tool hands out exactly the pages that were asked for, in the order asked for,
\* each turned as often as it was named: no index is off by one, and no page slips
\* while others are deleted (operations.py).
ResultIsWhatWasAsked ==
    Ok => CASE request.tool = "rotate" -> Turned
            [] request.tool = "delete" -> Trimmed
            [] request.tool = "reorder" -> Reordered
            [] request.tool = "split" -> Divided
            [] request.tool = "merge" -> Joined
            [] request.tool = "text" -> Stamped
            [] OTHER -> answer.parts = <<Doc>>

\* usage_logs.page_count is the number of pages the person received, and no file
\* that is handed out, or packed into the ZIP, is empty (EditResult.page_count).
LoggedPagesHandedOut ==
    Ok => /\ answer.logged = PagesIn(answer.parts)
          /\ \A i \in DOMAIN answer.parts : answer.parts[i] # <<>>

\* The fields are sound: every number is a page, the degrees are a quarter turn, an
\* order names every page, and a deletion names no page twice and leaves one.
Reasonable ==
    LET pages == DOMAIN Doc IN
    CASE request.tool \in {"rotate", "delete", "split"} ->
           /\ Len(request.spec) \in 1..MaxRanges
           /\ \A g \in DOMAIN request.spec : ToSet(request.spec[g]) \subseteq pages
           /\ request.tool = "rotate" => request.degrees \in {90, 180, 270}
           /\ request.tool = "delete" => Named # pages /\ \A p \in pages : Mentions(p) <= 1
      [] request.tool = "reorder" -> Len(request.order) = Len(Doc) /\ ToSet(request.order) = pages
      [] request.tool = "text" -> request.number \in pages
      [] request.tool = "merge" -> Len(request.files) \in 2..MaxFiles
      [] OTHER -> TRUE

\* A request that makes sense for a file within the limits is never refused, at the
\* first and the last page as anywhere else (_parse_page, inspect, delete_pages).
SoundRequestsGranted ==
    /\ \A i \in DOMAIN request.files : request.files[i].kind = "pdf"
    /\ PagesIn([i \in DOMAIN request.files |-> request.files[i].pages]) <= MaxPages
    /\ \A i \in DOMAIN request.files : request.files[i].pages # <<>>
    /\ Reasonable
    => answer.status \in {"waiting", "ok"}
=============================================================================

----------------------------- MODULE PageEdits -----------------------------
(***************************************************************************)
(* One page of a document being edited object by object: its edit log, the *)
(* projection of the log onto the objects of the original, and the replay  *)
(* of the log onto the original's content                                  *)
(* (backend/app/services/pdf/document.py).                                 *)
(*                                                                         *)
(* The page is a row of cells and a rectangle is a run of cells.  What is  *)
(* on the page is kept apart from what the log says should be: text is ink *)
(* in cells, since a redaction erases by region and not by object, and an  *)
(* image is the pixels of its resource (xref) shown in a rectangle.        *)
(***************************************************************************)
EXTENDS Integers, SequencesExt

CONSTANTS
    Width,       \* the page is the cells 1..Width
    TextLayouts, \* the sequences of rectangles an original's text may occupy
    Placements,  \* the sequences of images an original may show
    MaxOps       \* how many edits the log holds

ASSUME WidthAssumption == Width \in Nat
ASSUME MaxOpsAssumption == MaxOps \in Nat
\* A run of text is its two ends.  An image has its resource too, whose number starts
\* at 1, and is seen: get_image_rects lists what is drawn.
ASSUME TextLayoutsAssumption == \A text \in TextLayouts : text \in Seq(Int \X Int)
ASSUME PlacementsAssumption ==
    \A images \in Placements :
        /\ images \in Seq(Int \X Int \X (Nat \ {0}))
        /\ \A j \in 1..Len(images) : images[j][1] <= images[j][2]

VARIABLES
    before,  \* the spans and images _read_page finds on the original
    log,     \* the operations
    stage,   \* how far the replay of the log has come
    final,   \* the projection it works towards
    ink,     \* the pieces of text on the page being built
    pics     \* the images on it

vars == <<before, log, stage, final, ink, pics>>

\* A span: the rectangle [lo, hi], the edit that gave it its words and style (0:
\* the original), and whether the user added it.
Span == [lo : Int, hi : Int, look : Nat, added : BOOLEAN]

\* An image: its rectangle, its resource (0: none of the original's) and the edit
\* that uploaded its file (0: its pixels are the resource's own).
ImageObject == [lo : Int, hi : Int, xref : Nat, asset : Nat]

Cells(box) == box.lo..box.hi

\* pymupdf's Rect.intersects: sharing an edge is not enough.
Intersects(a, b) == Cells(a) \cap Cells(b) # {}

OperationTypes ==
    {"replace_text", "delete_text", "move_text", "style_text", "add_text",
     "delete_image", "move_image", "scale_image", "replace_image", "add_image"}

Stages == {"editing", "erase_images", "place_images", "erase_text", "draw_text",
           "swap_images", "rendered", "failed"}

Pixels(image) == IF image.asset = 0 THEN -image.xref ELSE image.asset
Shown(image) ==
    [lo |-> image.lo, hi |-> image.hi, xref |-> image.xref, pixels |-> Pixels(image)]

\* The ink of span i when it is set in this face.
Ink(i, span, face) ==
    {[span |-> i, look |-> span.look, from |-> span.lo, cell |-> c, face |-> face] : c \in Cells(span)}

OriginalInk == UNION {Ink(i, before.spans[i], "original") : i \in DOMAIN before.spans}
OriginalPics == {Shown(before.images[i]) : i \in DOMAIN before.images}

-----------------------------------------------------------------------------
\* The projection of the log.

Drop(f, i) == Restrict(f, DOMAIN f \ {i})
Put(f, i, object) == [j \in {i} \cup DOMAIN f |-> IF j = i THEN object ELSE f[j]]

\* _project_text on span op.id; n is the place of the operation in the log.  Text
\* that is replaced by blanks is gone.
ProjectText(spans, op, n) ==
    LET gone == op.type = "delete_text" \/ (op.type = "replace_text" /\ op.wide = 0)
    IN CASE gone -> Drop(spans, op.id)
         [] ~gone /\ op.type \in {"replace_text", "style_text"} ->
            [spans EXCEPT ![op.id].look = n, ![op.id].hi = spans[op.id].lo + op.wide - 1]
         [] op.type = "move_text" ->
            [spans EXCEPT ![op.id].lo = @ + op.x, ![op.id].hi = @ + op.x]

\* _project_image on image op.id.
ProjectImage(images, op, n) ==
    CASE op.type = "move_image" ->
            [images EXCEPT ![op.id].lo = @ + op.x, ![op.id].hi = @ + op.x]
      [] op.type = "scale_image" ->
            [images EXCEPT ![op.id].hi = images[op.id].lo + op.wide - 1]
      [] op.type = "replace_image" -> [images EXCEPT ![op.id].asset = n]

TextTools == {"replace_text", "delete_text", "move_text", "style_text"}
ImageTools == {"move_image", "scale_image", "replace_image"}

\* _project_one.
ProjectOne(page, op, n) ==
    CASE op.type \in TextTools ->
            [page EXCEPT !.spans = ProjectText(page.spans, op, n)]
      [] op.type = "add_text" ->
            [page EXCEPT !.spans = Put(page.spans, op.id,
                [lo |-> op.x, hi |-> op.x + op.wide - 1, look |-> n, added |-> TRUE])]
      [] op.type = "delete_image" -> [page EXCEPT !.images = Drop(page.images, op.id)]
      [] op.type \in ImageTools ->
            [page EXCEPT !.images = ProjectImage(page.images, op, n)]
      [] op.type = "add_image" ->
            [page EXCEPT !.images = Put(page.images, op.id,
                [lo |-> op.x, hi |-> op.x + op.wide - 1, xref |-> 0, asset |-> n])]

\* project: the original with the log applied.
Project(original, operations) ==
    LET page[n \in 0..Len(operations)] ==
            IF n = 0 THEN original ELSE ProjectOne(page[n - 1], operations[n], n)
    IN page[Len(operations)]

\* What the person sees as the document's objects.
Current == Project(before, log)

\* Mutant: handles counted instead of kept clear of those in use.
ObjectCount(page) == Cardinality(DOMAIN page.spans) + Cardinality(DOMAIN page.images)

\* next_object_id.
NextObjectId(page) == Max({-1} \cup DOMAIN page.spans \cup DOMAIN page.images) + 1

-----------------------------------------------------------------------------
\* Which of the original's objects the replay has to touch.

ChangedSpans ==
    {i \in DOMAIN before.spans :
        i \notin DOMAIN final.spans \/ final.spans[i] # before.spans[i]}

\* _image_geometry_changed.
GeometryChanged(i) ==
    \/ i \notin DOMAIN final.images
    \/ final.images[i].lo # before.images[i].lo
    \/ final.images[i].hi # before.images[i].hi

ChangedImages == {i \in DOMAIN before.images : GeometryChanged(i)}

TextRects == {before.spans[i] : i \in ChangedSpans}
ImageRects == {before.images[i] : i \in ChangedImages}

\* Mutant: one box around all that is erased, instead of each box by itself.
OverlapHull(spans, rects) ==
    {i \in DOMAIN spans :
        \E a, b \in rects : Intersects(spans[i], [lo |-> a.lo, hi |-> b.hi])}

\* _overlap_closure.  A pass adds what meets a selected box, until nothing is added.
OverlapClosure(spans, rects) ==
    LET meets(i, boxes) == \E b \in boxes : Intersects(spans[i], b)
        selected[pass \in 0..Cardinality(DOMAIN spans)] ==
            IF pass = 0 THEN {i \in DOMAIN spans : meets(i, rects)}
            ELSE selected[pass - 1] \cup
                 {i \in DOMAIN spans : meets(i, {spans[j] : j \in selected[pass - 1]})}
    IN selected[Cardinality(DOMAIN spans)]

Affected == OverlapClosure(before.spans, TextRects \cup ImageRects)

\* apply_redactions: text goes cell by cell, images, when removed, as a whole.
InkOutside(boxes) == {p \in ink : \A b \in boxes : p.cell \notin Cells(b)}
PicsOutside(boxes) == {p \in pics : \A b \in boxes : ~Intersects(p, b)}

-----------------------------------------------------------------------------
Init ==
    /\ \E text \in TextLayouts, images \in Placements :
        before = [spans |-> [i \in 0..(Len(text) - 1) |->
                                [lo |-> text[i + 1][1], hi |-> text[i + 1][2],
                                 look |-> 0, added |-> FALSE]],
                  images |-> [i \in 0..(Len(images) - 1) |->
                                [lo |-> images[i + 1][1], hi |-> images[i + 1][2],
                                 xref |-> images[i + 1][3], asset |-> 0]]]
    /\ log = <<>>
    /\ stage = "editing"
    /\ final = before /\ ink = {} /\ pics = {}

\* add_operation, once the endpoint has made the operation: an edit whose replay
\* would raise is refused and leaves no trace.
Record(type, id, x, wide) ==
    /\ stage = "editing"
    /\ Len(log) < MaxOps
    /\ log' = Append(log, [type |-> type, id |-> id, x |-> x, wide |-> wide])
    /\ UNCHANGED <<before, stage, final, ink, pics>>

Widths == 1..2
Shifts == {-1, 1}

\* Bound: an object stays on the page.  The code lets it leave.
OnPage(lo, hi) == 1 <= lo /\ hi <= Width
Fits(object, wide) == OnPage(object.lo, object.lo + wide - 1)
FitsShifted(object, dx) == OnPage(object.lo + dx, object.hi + dx)

\* Blank text has width 0 and is always taken.
ReplaceText(i, wide) ==
    Fits(Current.spans[i], wide) /\ Record("replace_text", i, 0, wide)
DeleteText(i) == Record("delete_text", i, 0, 0)
MoveText(i, dx) == FitsShifted(Current.spans[i], dx) /\ Record("move_text", i, dx, 0)
StyleText(i, wide) == Fits(Current.spans[i], wide) /\ Record("style_text", i, 0, wide)
AddText(x, wide) ==
    OnPage(x, x + wide - 1) /\ Record("add_text", NextObjectId(Current), x, wide)

\* Deleting an image that is not there is recorded and does nothing.
DeleteImage(i) == Record("delete_image", i, 0, 0)
MoveImage(i, dx) == FitsShifted(Current.images[i], dx) /\ Record("move_image", i, dx, 0)
ScaleImage(i, wide) == Fits(Current.images[i], wide) /\ Record("scale_image", i, 0, wide)
ReplaceImage(i) == Record("replace_image", i, 0, 0)
AddImage(x, wide) ==
    OnPage(x, x + wide - 1) /\ Record("add_image", NextObjectId(Current), x, wide)

Undo ==
    /\ stage = "editing"
    /\ log # <<>>
    /\ log' = Front(log)
    /\ UNCHANGED <<before, stage, final, ink, pics>>

Reset ==
    /\ stage = "editing"
    /\ log' = <<>>
    /\ UNCHANGED <<before, stage, final, ink, pics>>

-----------------------------------------------------------------------------
\* apply_operations on the page: _render_page_edits, numbered as its comments are.

OpenOriginal ==
    /\ stage = "editing"
    /\ stage' = "erase_images"
    /\ final' = Current
    /\ ink' = OriginalInk
    /\ pics' = OriginalPics
    /\ UNCHANGED <<before, log>>

\* 1. Images that go or move, and every text and image that meets them.
EraseImages ==
    /\ stage = "erase_images"
    /\ stage' = "place_images"
    /\ ink' = InkOutside(ImageRects)
    /\ pics' = PicsOutside(ImageRects)
    /\ UNCHANGED <<before, log, final>>

\* 2. Images at their new homes, and new ones.
PlaceImages ==
    /\ stage = "place_images"
    /\ stage' = "erase_text"
    /\ pics' = pics \cup {[Shown(final.images[i]) EXCEPT !.xref = 0] :
                            i \in DOMAIN final.images \ (DOMAIN before.images \ ChangedImages)}
    /\ UNCHANGED <<before, log, final, ink>>

\* Mutant: only the rectangles of the changed runs are erased.
EraseChangedText ==
    /\ stage = "erase_text"
    /\ stage' = "draw_text"
    /\ ink' = InkOutside(TextRects)
    /\ UNCHANGED <<before, log, final, pics>>

\* Mutant: the redaction of text takes the images it meets.
EraseTextAndImages ==
    /\ stage = "erase_text"
    /\ stage' = "draw_text"
    /\ ink' = InkOutside(TextRects \cup {before.spans[i] : i \in Affected})
    /\ pics' = PicsOutside(TextRects)
    /\ UNCHANGED <<before, log, final>>

\* 3. The changed runs and every run they touch, each by its full box.
EraseText ==
    /\ stage = "erase_text"
    /\ stage' = "draw_text"
    /\ ink' = InkOutside(TextRects \cup {before.spans[i] : i \in Affected})
    /\ UNCHANGED <<before, log, final, pics>>

\* 4. What was erased, as it is to be, and the runs that were added.
DrawText ==
    /\ stage = "draw_text"
    /\ stage' = "swap_images"
    /\ ink' = ink \cup UNION {Ink(i, final.spans[i], "substitute") :
                i \in {j \in DOMAIN final.spans :
                        final.spans[j].added \/ j \in Affected \cup ChangedSpans}}
    /\ UNCHANGED <<before, log, final, pics>>

Swapped ==
    {i \in DOMAIN final.images \cap DOMAIN before.images :
        ~GeometryChanged(i) /\ final.images[i].asset # 0}

\* 5. New pixels in an unchanged box: replace_image changes the resource, and with
\* it every image on the page that shows it.  An image the user added has none.
SwapImages ==
    /\ stage = "swap_images"
    /\ IF \E i \in Swapped : final.images[i].xref = 0
       THEN stage' = "failed" /\ UNCHANGED pics
       ELSE /\ stage' = "rendered"
            /\ pics' = {IF \E i \in Swapped : final.images[i].xref = p.xref
                        THEN [p EXCEPT !.pixels =
                                Pixels(final.images[CHOOSE i \in Swapped :
                                                        final.images[i].xref = p.xref])]
                        ELSE p : p \in pics}
    /\ UNCHANGED <<before, log, final, ink>>

\* The build has been looked at; editing goes on.
Return ==
    /\ stage \in {"rendered", "failed"}
    /\ stage' = "editing"
    /\ final' = before /\ ink' = {} /\ pics' = {}
    /\ UNCHANGED <<before, log>>

-----------------------------------------------------------------------------
EditText ==
    \/ \E i \in DOMAIN Current.spans :
        \/ \E wide \in {0} \cup Widths : ReplaceText(i, wide)
        \/ DeleteText(i)
        \/ \E dx \in Shifts : MoveText(i, dx)
        \/ \E wide \in Widths : StyleText(i, wide)
    \/ \E x \in 1..Width, wide \in Widths : AddText(x, wide)

EditImages ==
    \/ \E i \in DOMAIN Current.images :
        \/ \E dx \in Shifts : MoveImage(i, dx)
        \/ \E wide \in Widths : ScaleImage(i, wide)
        \/ ReplaceImage(i)
    \/ \E i \in DOMAIN before.images \cup DOMAIN Current.images : DeleteImage(i)
    \/ \E x \in 1..Width, wide \in Widths : AddImage(x, wide)

Replay ==
    OpenOriginal \/ EraseImages \/ PlaceImages \/ EraseText \/ DrawText
    \/ SwapImages \/ Return

Next == EditText \/ EditImages \/ Undo \/ Reset \/ Replay

Spec == Init /\ [][Next]_vars

-----------------------------------------------------------------------------
\* Properties.

IsPage(page) ==
    /\ page = [spans |-> page.spans, images |-> page.images]
    /\ page.spans \in [DOMAIN page.spans -> Span] /\ DOMAIN page.spans \subseteq Nat
    /\ page.images \in [DOMAIN page.images -> ImageObject] /\ DOMAIN page.images \subseteq Nat

Operation == [type : OperationTypes, id : Nat, x : Int, wide : Nat]
Glyphs == [span : Nat, look : Nat, from : Int, cell : Int, face : {"original", "substitute"}]
Picture == [lo : Int, hi : Int, xref : Nat, pixels : Int]

TypeOK ==
    /\ IsPage(before) /\ IsPage(final)
    /\ log \in Seq(Operation)
    /\ stage \in Stages
    /\ ink \subseteq Glyphs /\ pics \subseteq Picture

\* The replayed page shows exactly the runs the projection lists, each of them
\* whole, once and in one typeface, where and as the log last put it: no fragment
\* of a run erased by a neighbour's redaction, no ghost of one that was deleted
\* (the order erase, then draw, and the closure of what is erased).
TextMatchesLog ==
    stage = "rendered" =>
        /\ \A i \in DOMAIN final.spans :
            \E face \in {"original", "substitute"} :
                {p \in ink : p.span = i} = Ink(i, final.spans[i], face)
        /\ \A p \in ink : p.span \in DOMAIN final.spans

\* Runs that no chain of overlaps ties to an edit keep the document's own glyphs:
\* the set erased and redrawn is the least one closed under overlap, here by its
\* definition instead of the passes of _overlap_closure.
UntouchedTextKeepsFont ==
    stage = "rendered" =>
        LET closed == {S \in SUBSET DOMAIN before.spans :
                \A i \in DOMAIN before.spans :
                    (\E box \in TextRects \cup ImageRects \cup {before.spans[j] : j \in S} :
                        Cells(before.spans[i]) \cap Cells(box) # {}) => i \in S}
            tied == {i \in DOMAIN before.spans : \A S \in closed : i \in S}
        IN \A i \in DOMAIN before.spans \ tied :
            Ink(i, before.spans[i], "original") \subseteq ink

\* The redaction of an image that goes or moves removes whatever image it meets;
\* this says that no image that should stay is met.
NoneMet ==
    \A i \in ChangedImages, j \in DOMAIN before.images \ ChangedImages :
        ~Intersects(before.images[i], before.images[j])

\* The replayed page shows the images the projection lists, each with its own
\* pixels, and no other (whenever erasing one did not take another with it).
ImagesMatchLog ==
    stage = "rendered" /\ NoneMet =>
        {[lo |-> p.lo, hi |-> p.hi, pixels |-> p.pixels] : p \in pics} =
        {[lo |-> final.images[i].lo, hi |-> final.images[i].hi,
          pixels |-> Pixels(final.images[i])] : i \in DOMAIN final.images}

\* An edit changes the object it names and no other: however much was deleted or
\* added before, the handle a new object gets is not in use, and all others go on
\* naming what they named (next_object_id, project).
EditsTouchOneObject ==
    [][Len(log') = Len(log) + 1 =>
        LET op == log'[Len(log')]
            old == Project(before, log)
            new == Project(before, log')
            onText == op.type \in TextTools
            onImage == op.type \in ImageTools \cup {"delete_image"}
        IN /\ \A i \in DOMAIN old.spans :
                (onText /\ op.id = i) \/ (i \in DOMAIN new.spans /\ new.spans[i] = old.spans[i])
           /\ \A i \in DOMAIN old.images :
                (onImage /\ op.id = i) \/ (i \in DOMAIN new.images /\ new.images[i] = old.images[i])]_vars
=============================================================================

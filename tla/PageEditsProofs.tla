-------------------------- MODULE PageEditsProofs --------------------------
(***************************************************************************)
(* Proofs about PageEdits, for every page, every layout of its original    *)
(* and logs of any length: the projection and the closure of overlapping   *)
(* runs do what their recursion promises, and the replayed page is the     *)
(* projection of the log.                                                  *)
(***************************************************************************)
EXTENDS PageEdits, TLAPS, WellFoundedInduction, FiniteSetTheorems

-----------------------------------------------------------------------------
\* Induction over the naturals, as facts about sets.  The library's induction
\* theorems take an operator; that < is well founded does not.

\* A set of naturals has a least element.
LEMMA LeastNatural ==
    ASSUME NEW T \in SUBSET Nat, T # {}
    PROVE  \E m \in T : \A k \in T : m <= k
<1> DEFINE R == OpToRel(<, Nat)
<1>1. IsWellFoundedOn(R, Nat)  BY NatLessThanWellFounded
<1>2. PICK m \in T : \A k \in T : <<k, m>> \notin R
  <2> HIDE DEF R
  <2> QED  BY <1>1, WFMin
<1>3. \A k \in T : ~ (k < m)  BY <1>2 DEF OpToRel
<1> QED  BY <1>3

\* A set with 0 that contains the successor of each of its naturals contains all.
LEMMA SetInduction ==
    ASSUME NEW S, 0 \in S, \A n \in Nat : n \in S => n + 1 \in S
    PROVE  \A n \in Nat : n \in S
<1> DEFINE T == Nat \ S
<1>1. SUFFICES ASSUME T # {} PROVE FALSE  OBVIOUS
<1>2. PICK m \in T : \A k \in T : m <= k  BY <1>1, LeastNatural
<1>3. m # 0 /\ m \in Nat  OBVIOUS
<1>4. m - 1 \in Nat /\ m - 1 \notin T  BY <1>2, <1>3
<1> QED  BY <1>4

-----------------------------------------------------------------------------
\* The projection is what its recursion says.

\* f holds the pages after 0, 1, ..., last operations.
Projects(f, original, operations, last) ==
    f = [n \in 0..last |->
            IF n = 0 THEN original ELSE ProjectOne(f[n - 1], operations[n], n)]

Pages(original, operations) ==
    CHOOSE f : Projects(f, original, operations, Len(operations))

\* project returns the page after the last operation.
LEMMA ProjectIsLastPage ==
    ASSUME NEW original, NEW operations
    PROVE  Project(original, operations) = Pages(original, operations)[Len(operations)]
BY DEF Project, Pages, Projects

\* There is a page after each operation, whatever the operations are.
LEMMA ProjectsExists ==
    ASSUME NEW original, NEW operations
    PROVE  \A last \in Nat : \E f : Projects(f, original, operations, last)
<1> DEFINE S == {last \in Nat : \E f : Projects(f, original, operations, last)}
<1>1. 0 \in S
  <2>1. Projects([n \in 0..0 |-> original], original, operations, 0)
    BY DEF Projects
  <2> QED  BY <2>1
<1>2. ASSUME NEW last \in Nat, last \in S  PROVE last + 1 \in S
  <2>1. PICK f : Projects(f, original, operations, last)  BY <1>2
  <2> DEFINE g == [n \in 0..(last + 1) |->
                     IF n = last + 1 THEN ProjectOne(f[last], operations[n], n) ELSE f[n]]
  <2>2. \A n \in 0..(last + 1) :
           g[n] = IF n = 0 THEN original ELSE ProjectOne(g[n - 1], operations[n], n)
    BY <2>1 DEF Projects
  <2>3. Projects(g, original, operations, last + 1)
    <3>1. g = [n \in 0..(last + 1) |-> g[n]]  OBVIOUS
    <3> HIDE DEF g
    <3> QED  BY <2>2, <3>1 DEF Projects
  <2> QED  BY <2>3
<1> HIDE DEF S
<1>3. \A last \in Nat : last \in S  BY <1>1, <1>2, SetInduction
<1> QED  BY <1>3 DEF S

\* What the log holds after operation m does not matter to the pages up to m.
LEMMA ProjectsUnique ==
    ASSUME NEW original, NEW operations, NEW m \in Nat, NEW last \in Nat, m <= last,
           NEW f, Projects(f, original, operations, m),
           NEW g, Projects(g, original, operations, last)
    PROVE  \A n \in 0..m : f[n] = g[n]
<1> DEFINE S == {n \in Nat : n <= m => f[n] = g[n]}
<1>1. 0 \in S  BY DEF Projects
<1>2. ASSUME NEW n \in Nat, n \in S  PROVE n + 1 \in S
  <2> SUFFICES ASSUME n + 1 <= m PROVE f[n + 1] = g[n + 1]  OBVIOUS
  <2>1. f[n] = g[n]  BY <1>2
  <2>2. f[n + 1] = ProjectOne(f[n], operations[n + 1], n + 1)  BY DEF Projects
  <2>3. g[n + 1] = ProjectOne(g[n], operations[n + 1], n + 1)  BY DEF Projects
  <2> QED  BY <2>1, <2>2, <2>3
<1> HIDE DEF S
<1>3. \A n \in Nat : n \in S  BY <1>1, <1>2, SetInduction
<1> QED  BY <1>3 DEF S

\* Pages goes through the operations one by one.
LEMMA PagesProject ==
    ASSUME NEW original, NEW operations \in Seq(Operation)
    PROVE  Projects(Pages(original, operations), original, operations, Len(operations))
<1>1. Len(operations) \in Nat  OBVIOUS
<1>2. \E f : Projects(f, original, operations, Len(operations))
  BY <1>1, ProjectsExists
<1> QED  BY <1>2 DEF Pages

\* Nothing recorded: the original.
LEMMA ProjectEmpty ==
    ASSUME NEW original
    PROVE  Project(original, <<>>) = original
<1>1. <<>> \in Seq(Operation) /\ Len(<<>>) = 0  OBVIOUS
<1>2. Project(original, <<>>) = Pages(original, <<>>)[0]
  BY <1>1, ProjectIsLastPage
<1>3. Projects(Pages(original, <<>>), original, <<>>, 0)
  BY <1>1, PagesProject
<1> QED  BY <1>2, <1>3 DEF Projects

\* One more operation is one more step.
LEMMA ProjectAppend ==
    ASSUME NEW original, NEW operations \in Seq(Operation), NEW op \in Operation
    PROVE  Project(original, Append(operations, op)) =
           ProjectOne(Project(original, operations), op, Len(operations) + 1)
<1> DEFINE longer == Append(operations, op)  last == Len(operations)
           f == Pages(original, operations)  g == Pages(original, longer)
<1>1. /\ longer \in Seq(Operation) /\ Len(longer) = last + 1 /\ last \in Nat
      /\ longer[last + 1] = op
      /\ \A n \in 1..last : operations[n] = longer[n]
  OBVIOUS
<1>2. Projects(f, original, operations, last) /\ Projects(g, original, longer, last + 1)
  BY <1>1, PagesProject
<1>3. Project(original, operations) = f[last] /\ Project(original, longer) = g[last + 1]
  BY <1>1, ProjectIsLastPage
<1> HIDE DEF longer, f, g, last
<1>4. f[last] = g[last]
  <2>1. last \in Nat /\ last + 1 \in Nat /\ last <= last + 1  BY <1>1
  <2>2. Projects(f, original, longer, last)  BY <1>1, <1>2 DEF Projects
  <2>3. Projects(g, original, longer, last + 1)  BY <1>2
  <2>4. \A n \in 0..last : f[n] = g[n]
    BY <2>1, <2>2, <2>3, ProjectsUnique
  <2> QED  BY <1>1, <2>4
<1>5. g[last + 1] = ProjectOne(g[last], longer[last + 1], last + 1)
  BY <1>1, <1>2 DEF Projects
<1> QED  BY <1>1, <1>3, <1>4, <1>5 DEF longer, last

-----------------------------------------------------------------------------
\* What holds of every page a log can project.

\* Handles do not grow beyond all bounds: the next one exists.
Bounded(page) ==
    \E most \in Nat : \A i \in DOMAIN page.spans \cup DOMAIN page.images : i <= most

\* The page as it is found: nothing on it was added or replaced by an edit, and an
\* image is seen.
Pristine(page) ==
    /\ IsPage(page) /\ Bounded(page)
    /\ \A i \in DOMAIN page.spans : page.spans[i].added = FALSE
    /\ \A i \in DOMAIN page.images :
          /\ page.images[i].xref # 0 /\ page.images[i].asset = 0
          /\ page.images[i].lo <= page.images[i].hi

\* A run the original does not have was added, and an image shows the resource it had
\* on the original or a file that was uploaded.
Projected(original, page) ==
    /\ IsPage(page) /\ Bounded(page)
    /\ \A i \in DOMAIN page.spans : i \in DOMAIN original.spans \/ page.spans[i].added = TRUE
    /\ \A i \in DOMAIN page.images :
          \/ page.images[i].xref = 0 /\ page.images[i].asset # 0
          \/ i \in DOMAIN original.images /\ page.images[i].xref = original.images[i].xref

\* A page nobody edited is a projection of itself.
LEMMA PristineIsProjected ==
    ASSUME NEW page, Pristine(page)
    PROVE  Projected(page, page)
BY DEF Pristine, Projected

\* A run that is set anew or moved is a run.
LEMMA SpanChanged ==
    ASSUME NEW span \in Span, NEW look \in Nat, NEW lo \in Int, NEW hi \in Int
    PROVE  /\ [span EXCEPT !.look = look, !.hi = hi] \in Span
           /\ [span EXCEPT !.lo = lo, !.hi = hi] \in Span
           /\ span.lo \in Int /\ span.hi \in Int
BY DEF Span

\* Text operations on a run that is there.
LEMMA ProjectTextKeeps ==
    ASSUME NEW original, NEW page, Projected(original, page),
           NEW op \in Operation, op.type \in TextTools, NEW n \in Nat
    PROVE  Projected(original, ProjectOne(page, op, n))
<1> DEFINE spans == ProjectText(page.spans, op, n)
<1>1. ProjectOne(page, op, n) = [spans |-> spans, images |-> page.images]
  <2>1. page = [spans |-> page.spans, images |-> page.images]  BY DEF Projected, IsPage
  <2>2. ProjectOne(page, op, n) = [page EXCEPT !.spans = ProjectText(page.spans, op, n)]
    BY DEF ProjectOne, TextTools, ImageTools
  <2> QED  BY <2>1, <2>2
<1>2. /\ DOMAIN spans \subseteq DOMAIN page.spans
      /\ spans \in [DOMAIN spans -> Span]
      /\ \A i \in DOMAIN spans : spans[i].added = page.spans[i].added
  <2> USE DEF Projected, IsPage, Operation
  <2>1. CASE op.type = "delete_text" \/ (op.type = "replace_text" /\ op.wide = 0)
    <3>1. CASE op.type = "delete_text"
      <4>1. spans = Drop(page.spans, op.id)  BY <3>1 DEF ProjectText
      <4> QED  BY <4>1 DEF Drop, Restrict
    <3>2. CASE op.type = "replace_text" /\ op.wide = 0
      <4>1. spans = Drop(page.spans, op.id)  BY <3>2 DEF ProjectText
      <4> QED  BY <4>1 DEF Drop, Restrict
    <3> QED  BY <2>1, <3>1, <3>2
  <2>2. CASE op.type \in {"replace_text", "style_text"}
             /\ ~ (op.type = "replace_text" /\ op.wide = 0)
    <3>1. spans = [page.spans EXCEPT ![op.id].look = n,
                        ![op.id].hi = page.spans[op.id].lo + op.wide - 1]
      BY <2>2 DEF ProjectText
    <3>2. spans = [i \in DOMAIN page.spans |->
                     IF i = op.id THEN [page.spans[i] EXCEPT !.look = n,
                                             !.hi = page.spans[i].lo + op.wide - 1]
                     ELSE page.spans[i]]
      BY <3>1
    <3> HIDE DEF spans
    <3>3. \A i \in DOMAIN page.spans : spans[i].added = page.spans[i].added
      BY ZenonT(40), <3>2 DEF Span
    <3>4. ASSUME NEW i \in DOMAIN page.spans  PROVE spans[i] \in Span
      <4> DEFINE span == page.spans[i]
      <4>1. span \in Span /\ op.x \in Int /\ op.wide \in Nat  OBVIOUS
      <4>2. CASE i = op.id
        <5>1. spans[i] = [span EXCEPT !.look = n, !.hi = span.lo + op.wide - 1]  BY <3>2, <4>2
        <5>2. span.lo \in Int /\ span.hi \in Int  BY <4>1, SpanChanged
        <5>3. span.lo + op.wide - 1 \in Int  BY <4>1, <5>2
        <5> HIDE DEF span
        <5>4. [span EXCEPT !.look = n, !.hi = span.lo + op.wide - 1] \in Span
          BY <4>1, <5>3, SpanChanged, Zenon
        <5> QED  BY <5>1, <5>4
      <4>3. CASE i # op.id  BY <3>2, <4>1, <4>3
      <4> QED  BY <4>2, <4>3
    <3>5. DOMAIN spans = DOMAIN page.spans  BY <3>2
    <3> QED  BY <3>2, <3>3, <3>4, <3>5
  <2>3. CASE op.type = "move_text"
    <3>1. spans = [page.spans EXCEPT ![op.id].lo = @ + op.x, ![op.id].hi = @ + op.x]
      BY <2>3 DEF ProjectText
    <3>2. spans = [i \in DOMAIN page.spans |->
                     IF i = op.id THEN [page.spans[i] EXCEPT !.lo = @ + op.x, !.hi = @ + op.x]
                     ELSE page.spans[i]]
      BY <3>1
    <3> HIDE DEF spans
    <3>3. \A i \in DOMAIN page.spans : spans[i].added = page.spans[i].added
      BY ZenonT(40), <3>2 DEF Span
    <3>4. ASSUME NEW i \in DOMAIN page.spans  PROVE spans[i] \in Span
      <4> DEFINE span == page.spans[i]
      <4>1. span \in Span /\ op.x \in Int /\ op.wide \in Nat  OBVIOUS
      <4>2. CASE i = op.id
        <5>1. spans[i] = [span EXCEPT !.lo = @ + op.x, !.hi = @ + op.x]  BY <3>2, <4>2
        <5>2. span.lo \in Int /\ span.hi \in Int  BY <4>1, SpanChanged
        <5>3. span.lo + op.x \in Int /\ span.hi + op.x \in Int  BY <4>1, <5>2
        <5> HIDE DEF span
        <5>4. [span EXCEPT !.lo = @ + op.x, !.hi = @ + op.x] \in Span
          BY <4>1, <5>3, SpanChanged, Zenon
        <5> QED  BY <5>1, <5>4
      <4>3. CASE i # op.id  BY <3>2, <4>1, <4>3
      <4> QED  BY <4>2, <4>3
    <3>5. DOMAIN spans = DOMAIN page.spans  BY <3>2
    <3> QED  BY <3>2, <3>3, <3>4, <3>5
  <2> QED  BY <2>1, <2>2, <2>3 DEF TextTools
<1> HIDE DEF spans
<1> QED  BY <1>1, <1>2 DEF Projected, IsPage, Bounded

\* Image operations on an image that is there.
LEMMA ProjectImageKeeps ==
    ASSUME NEW original, NEW page, Projected(original, page),
           NEW op \in Operation, op.type \in ImageTools \cup {"delete_image"},
           NEW n \in Nat \ {0}
    PROVE  Projected(original, ProjectOne(page, op, n))
<1> DEFINE images == IF op.type = "delete_image" THEN Drop(page.images, op.id)
                     ELSE ProjectImage(page.images, op, n)
<1>1. ProjectOne(page, op, n) = [spans |-> page.spans, images |-> images]
  BY DEF ProjectOne, Projected, IsPage, TextTools, ImageTools
<1>2. /\ DOMAIN images \subseteq DOMAIN page.images
      /\ images \in [DOMAIN images -> ImageObject]
      /\ \A i \in DOMAIN images : /\ images[i].xref = page.images[i].xref
                                  /\ page.images[i].asset # 0 => images[i].asset # 0
  <2> USE DEF Projected, IsPage, Operation
  <2>1. CASE op.type = "delete_image"
    <3>1. images = Drop(page.images, op.id)  BY <2>1
    <3> QED  BY <3>1 DEF Drop, Restrict
  <2>2. CASE op.type = "move_image"
    <3>1. images = [page.images EXCEPT ![op.id].lo = @ + op.x, ![op.id].hi = @ + op.x]
      BY <2>2 DEF ProjectImage
    <3> QED  BY <3>1 DEF ImageObject
  <2>3. CASE op.type = "scale_image"
    <3>1. images = [page.images EXCEPT ![op.id].hi = page.images[op.id].lo + op.wide - 1]
      BY <2>3 DEF ProjectImage
    <3> QED  BY SMTT(30), <3>1 DEF ImageObject
  <2>4. CASE op.type = "replace_image"
    <3>1. images = [page.images EXCEPT ![op.id].asset = n]
      BY <2>4 DEF ProjectImage
    <3> QED  BY <3>1 DEF ImageObject
  <2> QED  BY <2>1, <2>2, <2>3, <2>4 DEF ImageTools
<1> HIDE DEF images
<1> QED  BY <1>1, <1>2 DEF Projected, IsPage, Bounded

\* New objects.
LEMMA ProjectNewKeeps ==
    ASSUME NEW original, NEW page, Projected(original, page),
           NEW op \in Operation, op.type \in {"add_text", "add_image"}, NEW n \in Nat \ {0}
    PROVE  Projected(original, ProjectOne(page, op, n))
<1> USE DEF Projected, IsPage, Operation
<1>1. CASE op.type = "add_text"
  <2> DEFINE new == [lo |-> op.x, hi |-> op.x + op.wide - 1, look |-> n, added |-> TRUE]
             spans == Put(page.spans, op.id, new)
  <2>1. ProjectOne(page, op, n) = [spans |-> spans, images |-> page.images]
    BY <1>1 DEF ProjectOne, TextTools, ImageTools
  <2>2. spans = [i \in {op.id} \cup DOMAIN page.spans |-> IF i = op.id THEN new ELSE page.spans[i]]
    BY DEF Put
  <2>3. new \in Span /\ new.added = TRUE  BY DEF Span
  <2> HIDE DEF new, spans
  <2>4. spans \in [DOMAIN spans -> Span] /\ DOMAIN spans \subseteq Nat
    BY <2>2, <2>3
  <2>5. Bounded([spans |-> spans, images |-> page.images])
    <3>1. PICK most \in Nat : \A i \in DOMAIN page.spans \cup DOMAIN page.images : i <= most
      BY DEF Bounded
    <3>2. \A i \in DOMAIN spans \cup DOMAIN page.images : i <= most + op.id
      BY <2>2, <3>1
    <3>3. most + op.id \in Nat  OBVIOUS
    <3> QED  BY <3>2, <3>3 DEF Bounded
  <2> QED  BY <2>1, <2>2, <2>3, <2>4, <2>5
<1>2. CASE op.type = "add_image"
  <2> DEFINE new == [lo |-> op.x, hi |-> op.x + op.wide - 1, xref |-> 0, asset |-> n]
             images == Put(page.images, op.id, new)
  <2>1. ProjectOne(page, op, n) = [spans |-> page.spans, images |-> images]
    BY <1>2 DEF ProjectOne, TextTools, ImageTools
  <2>2. images = [i \in {op.id} \cup DOMAIN page.images |-> IF i = op.id THEN new ELSE page.images[i]]
    BY DEF Put
  <2>3. new \in ImageObject /\ new.xref = 0 /\ new.asset # 0  BY DEF ImageObject
  <2> HIDE DEF new, images
  <2>4. images \in [DOMAIN images -> ImageObject] /\ DOMAIN images \subseteq Nat
    BY <2>2, <2>3
  <2>5. Bounded([spans |-> page.spans, images |-> images])
    <3>1. PICK most \in Nat : \A i \in DOMAIN page.spans \cup DOMAIN page.images : i <= most
      BY DEF Bounded
    <3>2. \A i \in DOMAIN page.spans \cup DOMAIN images : i <= most + op.id
      BY <2>2, <3>1
    <3>3. most + op.id \in Nat  OBVIOUS
    <3> QED  BY <3>2, <3>3 DEF Bounded
  <2> QED  BY <2>1, <2>2, <2>3, <2>4, <2>5
<1> QED  BY <1>1, <1>2

\* project, whatever the log.
LEMMA ProjectKeeps ==
    ASSUME NEW original, Pristine(original), NEW operations \in Seq(Operation)
    PROVE  Projected(original, Project(original, operations))
<1> DEFINE last == Len(operations)
           page == Pages(original, operations)
           S == {n \in Nat : n <= last => Projected(original, page[n])}
<1>1. last \in Nat  OBVIOUS
<1>2. Projects(page, original, operations, last)  BY PagesProject
<1>3. \A n \in 1..last : operations[n] \in Operation  OBVIOUS
<1>4. Project(original, operations) = page[last]  BY ProjectIsLastPage
<1> HIDE DEF page, last
<1>5. 0 \in S
  BY <1>1, <1>2, PristineIsProjected DEF Projects
<1>6. ASSUME NEW n \in Nat, n \in S  PROVE n + 1 \in S
  <2> SUFFICES ASSUME n + 1 <= last PROVE Projected(original, page[n + 1])  OBVIOUS
  <2>1. n + 1 \in 1..last /\ n + 1 \in Nat \ {0}  BY <1>1
  <2>2. page[n + 1] = ProjectOne(page[n], operations[n + 1], n + 1)
    BY <1>1, <1>2, <2>1 DEF Projects
  <2>3. Projected(original, page[n])  BY <1>1, <1>6
  <2>4. operations[n + 1] \in Operation  BY <1>3, <2>1
  <2>5. operations[n + 1].type \in TextTools \cup (ImageTools \cup {"delete_image"})
                                    \cup {"add_text", "add_image"}
    BY <2>4 DEF Operation, OperationTypes, TextTools, ImageTools
  <2> QED
    BY <2>1, <2>2, <2>3, <2>4, <2>5, ProjectTextKeeps, ProjectImageKeeps, ProjectNewKeeps
<1> HIDE DEF S
<1>7. \A n \in Nat : n \in S  BY <1>5, <1>6, SetInduction
<1> QED  BY <1>1, <1>4, <1>7 DEF S

-----------------------------------------------------------------------------
\* The closure of overlapping runs: it is closed, and the least such set.

Met(spans, boxes) == {i \in DOMAIN spans : \E b \in boxes : Intersects(spans[i], b)}
Boxes(spans, S) == {spans[j] : j \in S}
Pass(spans, S) == S \cup Met(spans, Boxes(spans, S))

\* f holds what is selected after 0, 1, ..., last passes.
Selects(f, spans, rects, last) ==
    f = [pass \in 0..last |->
            IF pass = 0 THEN Met(spans, rects)
            ELSE Pass(spans, f[pass - 1])]

Passes(spans, rects) == CHOOSE f : Selects(f, spans, rects, Cardinality(DOMAIN spans))

\* _overlap_closure returns what the last pass selected.
LEMMA ClosureIsLastPass ==
    ASSUME NEW spans, NEW rects
    PROVE  OverlapClosure(spans, rects) = Passes(spans, rects)[Cardinality(DOMAIN spans)]
BY DEF OverlapClosure, Passes, Selects, Pass, Met, Boxes

\* There is a selection after each pass, whatever the rectangles are.
LEMMA SelectsExists ==
    ASSUME NEW spans, NEW rects
    PROVE  \A last \in Nat : \E f : Selects(f, spans, rects, last)
<1> DEFINE S == {last \in Nat : \E f : Selects(f, spans, rects, last)}
<1>1. 0 \in S
  <2>1. Selects([pass \in 0..0 |-> Met(spans, rects)], spans, rects, 0)
    BY DEF Selects
  <2> QED  BY <2>1
<1>2. ASSUME NEW last \in Nat, last \in S  PROVE last + 1 \in S
  <2>1. PICK f : Selects(f, spans, rects, last)  BY <1>2
  <2> DEFINE g == [pass \in 0..(last + 1) |->
                     IF pass = last + 1 THEN Pass(spans, f[last]) ELSE f[pass]]
  <2>2. \A pass \in 0..(last + 1) :
           g[pass] = IF pass = 0 THEN Met(spans, rects) ELSE Pass(spans, g[pass - 1])
    BY <2>1 DEF Selects
  <2>3. Selects(g, spans, rects, last + 1)
    <3>1. g = [pass \in 0..(last + 1) |-> g[pass]]  OBVIOUS
    <3> HIDE DEF g
    <3> QED  BY <2>2, <3>1 DEF Selects
  <2> QED  BY <2>3
<1> HIDE DEF S
<1>3. \A last \in Nat : last \in S  BY <1>1, <1>2, SetInduction
<1> QED  BY <1>3 DEF S

\* Passes goes through the passes one by one.
LEMMA PassesSelect ==
    ASSUME NEW spans, IsFiniteSet(DOMAIN spans), NEW rects
    PROVE  Selects(Passes(spans, rects), spans, rects, Cardinality(DOMAIN spans))
<1>1. Cardinality(DOMAIN spans) \in Nat  BY FS_CardinalityType
<1>2. \E f : Selects(f, spans, rects, Cardinality(DOMAIN spans))
  BY <1>1, SelectsExists
<1> QED  BY <1>2 DEF Passes

ClosedUnderOverlap(spans, rects, S) ==
    /\ S \subseteq DOMAIN spans
    /\ Met(spans, rects) \subseteq S
    /\ Met(spans, Boxes(spans, S)) \subseteq S

\* A pass that adds nothing is the last that matters, and there are as many passes as
\* runs that could be added.
LEMMA ClosureIsClosed ==
    ASSUME NEW spans, IsFiniteSet(DOMAIN spans), NEW rects
    PROVE  ClosedUnderOverlap(spans, rects, OverlapClosure(spans, rects))
<1> DEFINE runs == DOMAIN spans  last == Cardinality(runs)
           selected == Passes(spans, rects)
           S == {n \in Nat : n <= last =>
                    /\ selected[n] \subseteq runs
                    /\ Met(spans, rects) \subseteq selected[n]
                    /\ \/ Met(spans, Boxes(spans, selected[n])) \subseteq selected[n]
                       \/ Cardinality(selected[n]) >= n}
<1>1. last \in Nat  BY FS_CardinalityType
<1>2. Selects(selected, spans, rects, last)  BY PassesSelect
<1>3. OverlapClosure(spans, rects) = selected[last]  BY ClosureIsLastPass
<1>4. \A T \in SUBSET runs : IsFiniteSet(T)
  BY FS_Subset
<1> HIDE DEF selected, last
<1>5. 0 \in S
  <2>1. selected[0] = Met(spans, rects)  BY <1>1, <1>2 DEF Selects
  <2>2. Met(spans, rects) \subseteq runs  BY DEF Met
  <2>3. Cardinality(selected[0]) >= 0
    BY <1>4, <2>1, <2>2, FS_CardinalityType
  <2> QED  BY <2>1, <2>2, <2>3
<1>6. ASSUME NEW n \in Nat, n \in S  PROVE n + 1 \in S
  <2> SUFFICES ASSUME n + 1 <= last PROVE n + 1 \in S  OBVIOUS
  <2> DEFINE now == selected[n]  after == selected[n + 1]  met == Met(spans, Boxes(spans, now))
  <2>1. after = now \cup met
    <3>1. selected[n + 1] = Pass(spans, selected[n])  BY <1>1, <1>2 DEF Selects
    <3> QED  BY <3>1 DEF Pass
  <2>2. /\ now \subseteq runs /\ Met(spans, rects) \subseteq now
        /\ met \subseteq now \/ Cardinality(now) >= n
    BY <1>1, <1>6
  <2>3. met \subseteq runs  BY DEF Met
  <2>4. CASE met \subseteq now
    <3>1. after = now  BY <2>1, <2>4
    <3> HIDE DEF now, after
    <3> QED  BY <2>2, <2>4, <3>1 DEF now, after
  <2>5. CASE Cardinality(now) >= n /\ ~ (met \subseteq now)
    <3>1. PICK x \in met : x \notin now  BY <2>5
    <3>2. IsFiniteSet(now) /\ IsFiniteSet(after)
      BY <2>1, <2>2, <2>3, FS_Subset
    <3>3. Cardinality(now \cup {x}) = Cardinality(now) + 1
      BY <3>1, <3>2, FS_AddElement
    <3>4. Cardinality(now \cup {x}) <= Cardinality(after)
      <4>1. now \cup {x} \in SUBSET after  BY <2>1, <3>1
      <4> HIDE DEF now, after, met
      <4> QED  BY <3>2, <4>1, FS_Subset
    <3>5. Cardinality(now) \in Nat /\ Cardinality(after) \in Nat
      BY <3>2, FS_CardinalityType
    <3>6. Cardinality(after) >= n + 1
      <4> HIDE DEF now, after, met
      <4> QED  BY <2>5, <3>3, <3>4, <3>5
    <3>7. after \subseteq runs /\ Met(spans, rects) \subseteq after
      BY <2>1, <2>2, <2>3
    <3> HIDE DEF now, met
    <3> QED  BY <3>6, <3>7
  <2> QED  BY <2>2, <2>4, <2>5
<1> HIDE DEF S
<1>7. \A n \in Nat : n \in S  BY <1>5, <1>6, SetInduction
<1>8. /\ selected[last] \subseteq runs /\ Met(spans, rects) \subseteq selected[last]
      /\ \/ Met(spans, Boxes(spans, selected[last])) \subseteq selected[last]
         \/ Cardinality(selected[last]) >= last
  BY <1>1, <1>7 DEF S
<1>9. CASE Cardinality(selected[last]) >= last
  <2>1. selected[last] = runs
    <3>1. selected[last] \in SUBSET runs  BY <1>8
    <3>2. IsFiniteSet(selected[last]) /\ Cardinality(selected[last]) <= last
      BY <3>1, FS_Subset DEF last
    <3>3. Cardinality(selected[last]) = last
      BY <1>1, <1>9, <3>2, FS_CardinalityType
    <3> QED  BY <3>1, <3>3, FS_Subset DEF last
  <2>2. Met(spans, Boxes(spans, selected[last])) \subseteq runs  BY DEF Met
  <2> QED  BY <1>3, <1>8, <2>1, <2>2 DEF ClosedUnderOverlap
<1> QED  BY <1>3, <1>8, <1>9 DEF ClosedUnderOverlap

\* No pass adds a run that a closed set could do without.
LEMMA ClosureIsLeast ==
    ASSUME NEW spans, IsFiniteSet(DOMAIN spans), NEW rects,
           NEW T, ClosedUnderOverlap(spans, rects, T)
    PROVE  OverlapClosure(spans, rects) \subseteq T
<1> DEFINE last == Cardinality(DOMAIN spans)
           selected == Passes(spans, rects)
           S == {n \in Nat : n <= last => selected[n] \subseteq T}
<1>1. last \in Nat  BY FS_CardinalityType
<1>2. Selects(selected, spans, rects, last)  BY PassesSelect
<1>3. OverlapClosure(spans, rects) = selected[last]  BY ClosureIsLastPass
<1> HIDE DEF selected, last
<1>4. 0 \in S
  <2>1. selected[0] = Met(spans, rects)  BY <1>1, <1>2 DEF Selects
  <2> QED  BY <2>1 DEF ClosedUnderOverlap
<1>5. ASSUME NEW n \in Nat, n \in S  PROVE n + 1 \in S
  <2> SUFFICES ASSUME n + 1 <= last PROVE selected[n + 1] \subseteq T  OBVIOUS
  <2>1. selected[n + 1] = selected[n] \cup Met(spans, Boxes(spans, selected[n]))
    <3>1. selected[n + 1] = Pass(spans, selected[n])  BY <1>1, <1>2 DEF Selects
    <3> QED  BY <3>1 DEF Pass
  <2>2. selected[n] \subseteq T  BY <1>1, <1>5
  <2>3. Met(spans, Boxes(spans, selected[n])) \subseteq Met(spans, Boxes(spans, T))
    BY <2>2 DEF Met, Boxes
  <2> QED  BY <2>1, <2>2, <2>3 DEF ClosedUnderOverlap
<1> HIDE DEF S
<1>6. \A n \in Nat : n \in S  BY <1>4, <1>5, SetInduction
<1> QED  BY <1>1, <1>3, <1>6 DEF S

-----------------------------------------------------------------------------
\* A new object's handle is in use by no other object of the page.
LEMMA NextObjectIdFresh ==
    ASSUME NEW page, IsPage(page), Bounded(page)
    PROVE  /\ NextObjectId(page) \in Nat
           /\ NextObjectId(page) \notin DOMAIN page.spans \cup DOMAIN page.images
<1> DEFINE used == {-1} \cup DOMAIN page.spans \cup DOMAIN page.images
<1>1. PICK most \in Nat : \A i \in used : i <= most /\ i \in Int /\ i >= -1
  BY DEF IsPage, Bounded
<1>2. \E i \in used : \A j \in used : i >= j
  <2> DEFINE rest == {most - i : i \in used}
  <2>1. rest \in SUBSET Nat  BY <1>1
  <2>2. rest # {}  OBVIOUS
  <2>3. PICK m \in rest : \A k \in rest : m <= k
    <3> HIDE DEF rest
    <3> QED  BY <2>1, <2>2, LeastNatural
  <2>4. PICK i \in used : m = most - i  OBVIOUS
  <2>5. ASSUME NEW j \in used  PROVE i >= j
    <3>1. most - j \in rest  OBVIOUS
    <3> HIDE DEF used, rest
    <3> QED  BY <1>1, <2>3, <2>4, <3>1
  <2> QED  BY <2>4, <2>5
<1>3. /\ Max(used) \in used
      /\ \A j \in used : Max(used) >= j
  <2> HIDE DEF used
  <2> QED  BY <1>2 DEF Max
<1>4. NextObjectId(page) = Max(used) + 1  BY DEF NextObjectId
<1> HIDE DEF used
<1>5. Max(used) \in Int /\ Max(used) >= -1  BY <1>1, <1>3
<1>6. Max(used) + 1 \notin used  BY <1>1, <1>3, <1>5
<1> QED  BY <1>4, <1>5, <1>6 DEF used

-----------------------------------------------------------------------------
\* The inductive invariant: what is on the page at each stage of the replay, in terms
\* of the original and of the projection alone.

\* The ink and the images of the original that these rectangles leave.
Clear(boxes) == {p \in OriginalInk : \A b \in boxes : p.cell \notin Cells(b)}
Spared == {p \in OriginalPics : \A b \in ImageRects : ~Intersects(p, b)}

Erased == ImageRects \cup TextRects \cup Boxes(before.spans, Affected)
Redrawn == {i \in DOMAIN final.spans :
               final.spans[i].added \/ i \in Affected \cup ChangedSpans}
Drawn == UNION {Ink(i, final.spans[i], "substitute") : i \in Redrawn}
Placed == {[Shown(final.images[i]) EXCEPT !.xref = 0] :
              i \in DOMAIN final.images \ (DOMAIN before.images \ ChangedImages)}

\* An image after the resources were replaced.
AfterSwap(p) ==
    IF \E i \in Swapped : final.images[i].xref = p.xref
    THEN [p EXCEPT !.pixels =
            Pixels(final.images[CHOOSE i \in Swapped : final.images[i].xref = p.xref])]
    ELSE p

InkByStage ==
    /\ stage = "erase_images" => ink = OriginalInk
    /\ stage \in {"place_images", "erase_text"} => ink = Clear(ImageRects)
    /\ stage = "draw_text" => ink = Clear(Erased)
    /\ stage \in {"swap_images", "rendered", "failed"} => ink = Clear(Erased) \cup Drawn

PicsByStage ==
    /\ stage = "erase_images" => pics = OriginalPics
    /\ stage = "place_images" => pics = Spared
    /\ stage \in {"erase_text", "draw_text", "swap_images", "failed"} =>
          pics = Spared \cup Placed
    /\ stage = "rendered" =>
          /\ \A i \in Swapped : final.images[i].xref # 0
          /\ pics = {AfterSwap(p) : p \in Spared \cup Placed}

IInv ==
    /\ TypeOK
    /\ Pristine(before)
    /\ Projected(before, final)
    /\ InkByStage
    /\ PicsByStage

\* The original has neither edits nor added text, and images of its own.
LEMMA InitPristine ==
    ASSUME Init
    PROVE  Pristine(before)
<1>1. PICK text \in TextLayouts, images \in Placements :
        before = [spans |-> [i \in 0..(Len(text) - 1) |->
                                [lo |-> text[i + 1][1], hi |-> text[i + 1][2],
                                 look |-> 0, added |-> FALSE]],
                  images |-> [i \in 0..(Len(images) - 1) |->
                                [lo |-> images[i + 1][1], hi |-> images[i + 1][2],
                                 xref |-> images[i + 1][3], asset |-> 0]]]
  BY DEF Init
<1>2. text \in Seq(Int \X Int)  BY TextLayoutsAssumption
<1>3. /\ images \in Seq(Int \X Int \X (Nat \ {0}))
      /\ \A j \in 1..Len(images) : images[j][1] <= images[j][2]
  BY PlacementsAssumption
<1>4. DOMAIN before.spans = 0..(Len(text) - 1) /\ DOMAIN before.images = 0..(Len(images) - 1)
  BY <1>1
<1>5. Len(text) \in Nat /\ Len(images) \in Nat  BY <1>2, <1>3
<1>6. ASSUME NEW i \in DOMAIN before.spans
      PROVE  before.spans[i] \in Span /\ before.spans[i].added = FALSE
  <2>1. i + 1 \in 1..Len(text)  BY <1>4, <1>5
  <2>2. text[i + 1] \in Int \X Int  BY <1>2, <2>1
  <2> QED  BY <1>1, <1>4, <2>2 DEF Span
<1>7. ASSUME NEW i \in DOMAIN before.images
      PROVE  /\ before.images[i] \in ImageObject /\ before.images[i].xref # 0
             /\ before.images[i].asset = 0 /\ before.images[i].lo <= before.images[i].hi
  <2>1. i + 1 \in 1..Len(images)  BY <1>4, <1>5
  <2>2. images[i + 1] \in Int \X Int \X (Nat \ {0})  BY <1>3, <2>1
  <2> QED  BY <1>1, <1>3, <1>4, <2>1, <2>2 DEF ImageObject
<1>8. /\ before = [spans |-> before.spans, images |-> before.images]
      /\ before.spans = [i \in DOMAIN before.spans |-> before.spans[i]]
      /\ before.images = [i \in DOMAIN before.images |-> before.images[i]]
  BY <1>1
<1>9. DOMAIN before.spans \subseteq Nat /\ DOMAIN before.images \subseteq Nat
  BY <1>4, <1>5
<1>10. Bounded(before)
  <2>1. \A i \in DOMAIN before.spans \cup DOMAIN before.images : i <= Len(text) + Len(images)
    BY <1>4, <1>5
  <2>2. Len(text) + Len(images) \in Nat  BY <1>5
  <2> QED  BY <2>1, <2>2 DEF Bounded
<1>11. IsPage(before)  BY <1>6, <1>7, <1>8, <1>9 DEF IsPage
<1> QED  BY <1>6, <1>7, <1>10, <1>11 DEF Pristine

\* The invariant holds of an original nobody edited.
LEMMA InitInv == Init => IInv
<1> SUFFICES ASSUME Init PROVE IInv  OBVIOUS
<1>1. Pristine(before)  BY InitPristine
<1>2. Projected(before, final)  BY <1>1, PristineIsProjected DEF Init
<1>3. IsPage(before) /\ IsPage(final)  BY <1>1, <1>2 DEF Pristine, Projected
<1> QED
  BY <1>1, <1>2, <1>3 DEF IInv, Init, TypeOK, Stages, InkByStage, PicsByStage

-----------------------------------------------------------------------------
\* Editing: an operation is appended, or the log gets shorter.

\* An edit records one operation; a new object gets the next handle.
Recorded ==
    \E op \in Operation :
        /\ stage = "editing"
        /\ log' = Append(log, op)
        /\ op.type \in {"add_text", "add_image"} => op.id = NextObjectId(Current)
        /\ UNCHANGED <<before, stage, final, ink, pics>>

\* What Record appends is an operation about one object.
LEMMA RecordIsRecorded ==
    ASSUME NEW type \in OperationTypes, NEW id \in Nat, NEW x \in Int, NEW wide \in Nat,
           type \in {"add_text", "add_image"} => id = NextObjectId(Current),
           Record(type, id, x, wide)
    PROVE  Recorded
<1> DEFINE op == [type |-> type, id |-> id, x |-> x, wide |-> wide]
<1>1. op \in Operation  BY DEF Operation
<1>2. op.type = type /\ op.id = id  OBVIOUS
<1>3. stage = "editing" /\ log' = Append(log, op) /\ UNCHANGED <<before, stage, final, ink, pics>>
  BY DEF Record
<1> HIDE DEF op
<1> QED  BY <1>1, <1>2, <1>3 DEF Recorded

\* Every edit of the editing screen is recorded.
LEMMA EditRecords ==
    ASSUME IInv, EditText \/ EditImages
    PROVE  Recorded
<1>1. log \in Seq(Operation) /\ Pristine(before)  BY DEF IInv, TypeOK
<1>2. Projected(before, Current)  BY <1>1, ProjectKeeps DEF Current
<1>3. /\ DOMAIN Current.spans \subseteq Nat /\ DOMAIN Current.images \subseteq Nat
      /\ DOMAIN before.images \subseteq Nat
  BY <1>1, <1>2 DEF Projected, Pristine, IsPage
<1>4. NextObjectId(Current) \in Nat
  BY <1>2, NextObjectIdFresh DEF Projected
<1>5. /\ OperationTypes = TextTools \cup ImageTools \cup {"add_text", "delete_image", "add_image"}
      /\ Widths \subseteq Nat /\ Shifts \subseteq Int /\ 0 \in Nat /\ 0 \in Int
  BY DEF Widths, Shifts, OperationTypes, TextTools, ImageTools
<1>6. CASE EditText
  <2>1. ASSUME NEW i \in DOMAIN Current.spans, NEW wide \in {0} \cup Widths,
               ReplaceText(i, wide)
        PROVE  Recorded
    <3>1. Record("replace_text", i, 0, wide)  BY <2>1 DEF ReplaceText
    <3>2. "replace_text" \in OperationTypes /\ i \in Nat /\ wide \in Nat
      BY <1>3, <1>5 DEF OperationTypes
    <3> QED  BY <1>5, <3>1, <3>2, RecordIsRecorded
  <2>2. ASSUME NEW i \in DOMAIN Current.spans, DeleteText(i)  PROVE Recorded
    <3>1. Record("delete_text", i, 0, 0)  BY <2>2 DEF DeleteText
    <3>2. "delete_text" \in OperationTypes /\ i \in Nat
      BY <1>3 DEF OperationTypes
    <3> QED  BY <1>5, <3>1, <3>2, RecordIsRecorded
  <2>3. ASSUME NEW i \in DOMAIN Current.spans, NEW dx \in Shifts, MoveText(i, dx)
        PROVE  Recorded
    <3>1. Record("move_text", i, dx, 0)  BY <2>3 DEF MoveText
    <3>2. "move_text" \in OperationTypes /\ i \in Nat /\ dx \in Int
      BY <1>3, <1>5 DEF OperationTypes
    <3> QED  BY <1>5, <3>1, <3>2, RecordIsRecorded
  <2>4. ASSUME NEW i \in DOMAIN Current.spans, NEW wide \in Widths, StyleText(i, wide)
        PROVE  Recorded
    <3>1. Record("style_text", i, 0, wide)  BY <2>4 DEF StyleText
    <3>2. "style_text" \in OperationTypes /\ i \in Nat /\ wide \in Nat
      BY <1>3, <1>5 DEF OperationTypes
    <3> QED  BY <1>5, <3>1, <3>2, RecordIsRecorded
  <2>5. ASSUME NEW x \in 1..Width, NEW wide \in Widths, AddText(x, wide)
        PROVE  Recorded
    <3>1. Record("add_text", NextObjectId(Current), x, wide)  BY <2>5 DEF AddText
    <3>2. "add_text" \in OperationTypes /\ x \in Int /\ wide \in Nat
      BY WidthAssumption, <1>5 DEF OperationTypes
    <3> QED  BY <1>4, <1>5, <3>1, <3>2, RecordIsRecorded
  <2> QED  BY <1>6, <2>1, <2>2, <2>3, <2>4, <2>5 DEF EditText
<1>7. CASE EditImages
  <2>1. ASSUME NEW i \in DOMAIN Current.images, NEW dx \in Shifts, MoveImage(i, dx)
        PROVE  Recorded
    <3>1. Record("move_image", i, dx, 0)  BY <2>1 DEF MoveImage
    <3>2. "move_image" \in OperationTypes /\ i \in Nat /\ dx \in Int
      BY <1>3, <1>5 DEF OperationTypes
    <3> QED  BY <1>5, <3>1, <3>2, RecordIsRecorded
  <2>2. ASSUME NEW i \in DOMAIN Current.images, NEW wide \in Widths, ScaleImage(i, wide)
        PROVE  Recorded
    <3>1. Record("scale_image", i, 0, wide)  BY <2>2 DEF ScaleImage
    <3>2. "scale_image" \in OperationTypes /\ i \in Nat /\ wide \in Nat
      BY <1>3, <1>5 DEF OperationTypes
    <3> QED  BY <1>5, <3>1, <3>2, RecordIsRecorded
  <2>3. ASSUME NEW i \in DOMAIN Current.images, ReplaceImage(i)  PROVE Recorded
    <3>1. Record("replace_image", i, 0, 0)  BY <2>3 DEF ReplaceImage
    <3>2. "replace_image" \in OperationTypes /\ i \in Nat
      BY <1>3 DEF OperationTypes
    <3> QED  BY <1>5, <3>1, <3>2, RecordIsRecorded
  <2>4. ASSUME NEW i \in DOMAIN before.images \cup DOMAIN Current.images, DeleteImage(i)
        PROVE  Recorded
    <3>1. Record("delete_image", i, 0, 0)  BY <2>4 DEF DeleteImage
    <3>2. "delete_image" \in OperationTypes /\ i \in Nat
      BY <1>3 DEF OperationTypes
    <3> QED  BY <1>5, <3>1, <3>2, RecordIsRecorded
  <2>5. ASSUME NEW x \in 1..Width, NEW wide \in Widths, AddImage(x, wide)
        PROVE  Recorded
    <3>1. Record("add_image", NextObjectId(Current), x, wide)  BY <2>5 DEF AddImage
    <3>2. "add_image" \in OperationTypes /\ x \in Int /\ wide \in Nat
      BY WidthAssumption, <1>5 DEF OperationTypes
    <3> QED  BY <1>4, <1>5, <3>1, <3>2, RecordIsRecorded
  <2> QED  BY <1>7, <2>1, <2>2, <2>3, <2>4, <2>5 DEF EditImages
<1> QED  BY <1>6, <1>7

\* An edit leaves the page being built alone.
LEMMA EditStep ==
    ASSUME IInv, EditText \/ EditImages \/ Undo \/ Reset
    PROVE  IInv'
<1>1. log \in Seq(Operation)  BY DEF IInv, TypeOK
<1>2. /\ stage = "editing" /\ log' \in Seq(Operation)
      /\ UNCHANGED <<before, stage, final, ink, pics>>
  <2>1. CASE EditText \/ EditImages  BY <1>1, <2>1, EditRecords DEF Recorded
  <2>2. CASE Undo  BY <1>1, <2>2 DEF Undo, Front
  <2>3. CASE Reset  BY <2>3 DEF Reset
  <2> QED  BY <2>1, <2>2, <2>3
<1>3. TypeOK'  BY <1>2 DEF IInv, TypeOK
<1> QED  BY <1>2, <1>3 DEF IInv, InkByStage, PicsByStage

-----------------------------------------------------------------------------
\* The replay, stage by stage.

\* The replay starts from the original and the projection of the whole log.
LEMMA OpenOriginalStep ==
    ASSUME IInv, OpenOriginal
    PROVE  IInv'
<1>1. log \in Seq(Operation) /\ Pristine(before) /\ IsPage(before)
  BY DEF IInv, TypeOK
<1>2. UNCHANGED <<before, log>> /\ stage' = "erase_images" /\ final' = Current
      /\ ink' = OriginalInk /\ pics' = OriginalPics
  BY DEF OpenOriginal
<1>3. Projected(before, final')  BY <1>1, <1>2, ProjectKeeps DEF Current
<1>4. OriginalInk \subseteq Glyphs
  <2> SUFFICES ASSUME NEW i \in DOMAIN before.spans, NEW c \in Cells(before.spans[i])
               PROVE  [span |-> i, look |-> before.spans[i].look, from |-> before.spans[i].lo,
                       cell |-> c, face |-> "original"] \in Glyphs
    BY DEF OriginalInk, Ink
  <2>1. before.spans[i] \in Span /\ i \in Nat  BY <1>1 DEF IsPage
  <2>2. c \in Int  BY <2>1 DEF Cells, Span
  <2> QED  BY <2>1, <2>2 DEF Glyphs, Span
<1>5. OriginalPics \subseteq Picture
  <2> SUFFICES ASSUME NEW i \in DOMAIN before.images PROVE Shown(before.images[i]) \in Picture
    BY DEF OriginalPics
  <2>1. before.images[i] \in ImageObject  BY <1>1 DEF IsPage
  <2> QED  BY <2>1 DEF Shown, Pixels, ImageObject, Picture
<1>6. TypeOK'
  <2>1. IsPage(before') /\ IsPage(final')  BY <1>1, <1>2, <1>3 DEF Projected
  <2> QED  BY <1>1, <1>2, <1>4, <1>5, <2>1 DEF TypeOK, Stages
<1>7. InkByStage' /\ PicsByStage'
  BY <1>2 DEF InkByStage, PicsByStage, OriginalInk, OriginalPics
<1> QED  BY <1>1, <1>2, <1>3, <1>6, <1>7 DEF IInv

\* The first pass takes away what meets a changed image.
LEMMA EraseImagesStep ==
    ASSUME IInv, EraseImages
    PROVE  IInv'
<1>1. /\ ink = OriginalInk /\ pics = OriginalPics
      /\ stage' = "place_images" /\ ink' = InkOutside(ImageRects) /\ pics' = PicsOutside(ImageRects)
      /\ UNCHANGED <<before, log, final>>
  BY DEF IInv, InkByStage, PicsByStage, EraseImages
<1>2. ink' = Clear(ImageRects) /\ pics' = Spared
  BY <1>1 DEF InkOutside, PicsOutside, Clear, Spared
<1>3. ink' \subseteq ink /\ pics' \subseteq pics  BY <1>1 DEF InkOutside, PicsOutside
<1>4. TypeOK'  BY <1>1, <1>3 DEF IInv, TypeOK, Stages
<1>5. ImageRects' = ImageRects /\ Clear(ImageRects)' = Clear(ImageRects) /\ Spared' = Spared
  BY <1>1 DEF ImageRects, ChangedImages, GeometryChanged, Clear, Spared, OriginalInk, OriginalPics
<1> QED  BY <1>1, <1>2, <1>4, <1>5 DEF IInv, InkByStage, PicsByStage

\* What is on the page at a stage depends on the original and the projection alone.
LEMMA ContentsKept ==
    ASSUME UNCHANGED <<before, final>>
    PROVE  /\ ImageRects' = ImageRects /\ TextRects' = TextRects /\ Affected' = Affected
           /\ Clear(ImageRects)' = Clear(ImageRects) /\ Clear(Erased)' = Clear(Erased)
           /\ Spared' = Spared /\ Placed' = Placed /\ Drawn' = Drawn /\ Swapped' = Swapped
           /\ {AfterSwap(p) : p \in Spared \cup Placed}' =
              {AfterSwap(p) : p \in Spared \cup Placed}
BY DEF ImageRects, TextRects, Affected, ChangedImages, ChangedSpans, GeometryChanged, Clear,
       Erased, Spared, Placed, Drawn, Redrawn, Swapped, AfterSwap, OriginalInk, OriginalPics

\* The second pass places the images that moved or are new.
LEMMA PlaceImagesStep ==
    ASSUME IInv, PlaceImages
    PROVE  IInv'
<1>1. /\ ink = Clear(ImageRects) /\ pics = Spared
      /\ stage' = "erase_text" /\ pics' = Spared \cup Placed /\ ink' = ink
      /\ UNCHANGED <<before, log, final>>
  BY DEF IInv, InkByStage, PicsByStage, PlaceImages, Placed
<1>2. Placed \subseteq Picture
  <2> SUFFICES ASSUME NEW i \in DOMAIN final.images
               PROVE  [Shown(final.images[i]) EXCEPT !.xref = 0] \in Picture
    BY DEF Placed
  <2>1. final.images[i] \in ImageObject  BY DEF IInv, TypeOK, IsPage
  <2> QED  BY <2>1 DEF Shown, Pixels, ImageObject, Picture
<1>3. TypeOK'  BY <1>1, <1>2 DEF IInv, TypeOK, Stages
<1> QED  BY <1>1, <1>3, ContentsKept DEF IInv, InkByStage, PicsByStage

\* The third pass takes away every run that meets what was selected, and no image.
LEMMA EraseTextStep ==
    ASSUME IInv, EraseText
    PROVE  IInv'
<1>1. /\ ink = Clear(ImageRects) /\ pics = Spared \cup Placed
      /\ stage' = "draw_text" /\ pics' = pics
      /\ ink' = InkOutside(TextRects \cup {before.spans[i] : i \in Affected})
      /\ UNCHANGED <<before, log, final>>
  BY DEF IInv, InkByStage, PicsByStage, EraseText
<1>2. ink' = Clear(Erased)
  BY <1>1 DEF InkOutside, Clear, Erased, Boxes
<1>3. ink' \subseteq ink  BY <1>1 DEF InkOutside
<1>4. TypeOK'  BY <1>1, <1>3 DEF IInv, TypeOK, Stages
<1> QED  BY <1>1, <1>2, <1>4, ContentsKept DEF IInv, InkByStage, PicsByStage

\* The fourth pass sets the selected runs and the new ones again.
LEMMA DrawTextStep ==
    ASSUME IInv, DrawText
    PROVE  IInv'
<1>1. /\ ink = Clear(Erased) /\ pics = Spared \cup Placed
      /\ stage' = "swap_images" /\ pics' = pics /\ ink' = ink \cup Drawn
      /\ UNCHANGED <<before, log, final>>
  BY DEF IInv, InkByStage, PicsByStage, DrawText, Drawn, Redrawn
<1>2. Drawn \subseteq Glyphs
  <2> SUFFICES ASSUME NEW i \in DOMAIN final.spans, NEW c \in Cells(final.spans[i])
               PROVE  [span |-> i, look |-> final.spans[i].look, from |-> final.spans[i].lo,
                       cell |-> c, face |-> "substitute"] \in Glyphs
    BY DEF Drawn, Redrawn, Ink
  <2>1. final.spans[i] \in Span /\ i \in Nat  BY DEF IInv, TypeOK, IsPage
  <2>2. c \in Int  BY <2>1 DEF Cells, Span
  <2> QED  BY <2>1, <2>2 DEF Glyphs, Span
<1>3. TypeOK'  BY <1>1, <1>2 DEF IInv, TypeOK, Stages
<1> QED  BY <1>1, <1>3, ContentsKept DEF IInv, InkByStage, PicsByStage

\* The fifth pass replaces resources, and shows which images share them.
LEMMA SwapImagesStep ==
    ASSUME IInv, SwapImages
    PROVE  IInv'
<1>1. /\ stage = "swap_images" /\ UNCHANGED <<before, log, final, ink>>
      /\ ink = Clear(Erased) \cup Drawn /\ pics = Spared \cup Placed
  BY DEF IInv, InkByStage, PicsByStage, SwapImages
<1>2. CASE \E i \in Swapped : final.images[i].xref = 0
  <2>1. stage' = "failed" /\ pics' = pics  BY <1>2 DEF SwapImages
  <2>2. TypeOK'  BY <1>1, <2>1 DEF IInv, TypeOK, Stages
  <2> QED  BY <1>1, <2>1, <2>2, ContentsKept DEF IInv, InkByStage, PicsByStage
<1>3. CASE ~ \E i \in Swapped : final.images[i].xref = 0
  <2>1. stage' = "rendered" /\ pics' = {AfterSwap(p) : p \in pics}
    BY <1>3 DEF SwapImages, AfterSwap
  <2>2. ASSUME NEW p \in Picture  PROVE AfterSwap(p) \in Picture
    <3>1. ASSUME NEW i \in Swapped  PROVE Pixels(final.images[i]) \in Int
      <4>1. final.images[i] \in ImageObject  BY DEF IInv, TypeOK, IsPage, Swapped
      <4> QED  BY <4>1 DEF Pixels, ImageObject
    <3> DEFINE j == CHOOSE i \in Swapped : final.images[i].xref = p.xref
    <3>2. CASE \E i \in Swapped : final.images[i].xref = p.xref
      <4>1. j \in Swapped  BY <3>2
      <4>2. AfterSwap(p) = [p EXCEPT !.pixels = Pixels(final.images[j])]
        BY <3>2 DEF AfterSwap
      <4>3. Pixels(final.images[j]) \in Int  BY <3>1, <4>1
      <4> HIDE DEF j
      <4> QED  BY <4>2, <4>3 DEF Picture
    <3>3. CASE ~ \E i \in Swapped : final.images[i].xref = p.xref
      BY <3>3 DEF AfterSwap
    <3> QED  BY <3>2, <3>3
  <2>3. pics' \subseteq Picture  BY <2>1, <2>2 DEF IInv, TypeOK
  <2>4. TypeOK'  BY <1>1, <2>1, <2>3 DEF IInv, TypeOK, Stages
  <2>5. /\ (\A i \in Swapped : final.images[i].xref # 0)'
        /\ pics' = {AfterSwap(p) : p \in Spared \cup Placed}'
    BY <1>1, <1>3, <2>1, ContentsKept
  <2>6. PicsByStage'  BY <2>1, <2>5 DEF PicsByStage
  <2>7. InkByStage'  BY <1>1, <2>1, ContentsKept DEF InkByStage
  <2> QED  BY <1>1, <2>4, <2>6, <2>7 DEF IInv
<1> QED  BY <1>2, <1>3

\* The answer starts the next request over.
LEMMA ReturnStep ==
    ASSUME IInv, Return
    PROVE  IInv'
<1>1. /\ stage' = "editing" /\ final' = before /\ ink' = {} /\ pics' = {}
      /\ UNCHANGED <<before, log>>
  BY DEF Return
<1>2. TypeOK'  BY <1>1 DEF IInv, TypeOK, Stages
<1>3. Projected(before, before)  BY PristineIsProjected DEF IInv
<1> QED  BY <1>1, <1>2, <1>3 DEF IInv, InkByStage, PicsByStage

\* Every step keeps the invariant.
LEMMA StepKeepsInv == IInv /\ [Next]_vars => IInv'
<1> SUFFICES ASSUME IInv, [Next]_vars PROVE IInv'  OBVIOUS
<1>1. CASE EditText \/ EditImages \/ Undo \/ Reset  BY <1>1, EditStep
<1>2. CASE OpenOriginal  BY <1>2, OpenOriginalStep
<1>3. CASE EraseImages  BY <1>3, EraseImagesStep
<1>4. CASE PlaceImages  BY <1>4, PlaceImagesStep
<1>5. CASE EraseText  BY <1>5, EraseTextStep
<1>6. CASE DrawText  BY <1>6, DrawTextStep
<1>7. CASE SwapImages  BY <1>7, SwapImagesStep
<1>8. CASE Return  BY <1>8, ReturnStep
<1>9. CASE UNCHANGED vars
  <2>1. UNCHANGED <<before, log, stage, final, ink, pics>>  BY <1>9 DEF vars
  <2>2. TypeOK'  BY <2>1 DEF IInv, TypeOK
  <2> QED  BY <2>1, <2>2, ContentsKept DEF IInv, InkByStage, PicsByStage, OriginalInk, OriginalPics
<1> QED
  BY <1>1, <1>2, <1>3, <1>4, <1>5, <1>6, <1>7, <1>8, <1>9 DEF Next, Replay

\* Whatever is edited and rebuilt, the page being built is at every stage what the
\* original and the projection determine (_render_page_edits).
THEOREM ReplayHolds == Spec => []IInv
BY InitInv, StepKeepsInv, PTL DEF Spec

\* The objects, the log and what is on the page are of their types.
THEOREM TypeCorrect == Spec => []TypeOK
<1>1. IInv => TypeOK  BY DEF IInv
<1> QED  BY <1>1, ReplayHolds, PTL

-----------------------------------------------------------------------------
\* The text on a built page.

\* A page has finitely many runs.
LEMMA FiniteText ==
    ASSUME NEW page, Pristine(page)
    PROVE  IsFiniteSet(DOMAIN page.spans)
<1>1. PICK most \in Nat : \A i \in DOMAIN page.spans : i <= most
  BY DEF Pristine, Bounded
<1>2. DOMAIN page.spans \in SUBSET Nat  BY DEF Pristine, IsPage
<1>3. \A i \in DOMAIN page.spans : i \in 0..most  BY <1>1, <1>2
<1>4. IsFiniteSet(0..most)  BY FS_Interval
<1> QED  BY <1>3, <1>4, FS_Subset

\* A run that meets a rectangle to be erased is among those erased and drawn again.
LEMMA AffectedClosed ==
    ASSUME Pristine(before)
    PROVE  /\ ClosedUnderOverlap(before.spans, TextRects \cup ImageRects, Affected)
           /\ \A i \in DOMAIN before.spans, b \in Erased :
                 Intersects(before.spans[i], b) => i \in Affected
<1>1. ClosedUnderOverlap(before.spans, TextRects \cup ImageRects, Affected)
  BY FiniteText, ClosureIsClosed DEF Affected
<1> QED  BY <1>1 DEF ClosedUnderOverlap, Met, Erased

\* The original's ink, and what is left of it, run by run.
LEMMA OriginalInkOf ==
    ASSUME NEW p \in OriginalInk
    PROVE  /\ p.span \in DOMAIN before.spans
           /\ p \in Ink(p.span, before.spans[p.span], "original")
           /\ p.cell \in Cells(before.spans[p.span])
BY DEF OriginalInk, Ink

\* What the erasing leaves of a run that was not selected is the whole of it.
LEMMA InkLeft ==
    ASSUME Pristine(before), NEW i \in DOMAIN before.spans, i \notin Affected
    PROVE  {p \in Clear(Erased) : p.span = i} = Ink(i, before.spans[i], "original")
<1>1. ASSUME NEW p \in Clear(Erased), p.span = i
      PROVE  p \in Ink(i, before.spans[i], "original")
  BY <1>1, OriginalInkOf DEF Clear
<1>2. ASSUME NEW p \in Ink(i, before.spans[i], "original")
      PROVE  p \in Clear(Erased) /\ p.span = i
  <2>1. p \in OriginalInk /\ p.span = i /\ p.cell \in Cells(before.spans[i])
    BY DEF OriginalInk, Ink
  <2>2. ASSUME NEW b \in Erased, p.cell \in Cells(b)  PROVE FALSE
    <3>1. Intersects(before.spans[i], b)  BY <2>1, <2>2 DEF Intersects
    <3> QED  BY <3>1, AffectedClosed
  <2> QED  BY <2>1, <2>2 DEF Clear
<1> QED  BY <1>1, <1>2

\* Nothing is left of a run that is erased.
LEMMA InkGone ==
    ASSUME NEW p \in Clear(Erased)
    PROVE  p.span \in DOMAIN before.spans \ (Affected \cup ChangedSpans)
<1>1. /\ p.span \in DOMAIN before.spans
      /\ p.cell \in Cells(before.spans[p.span])
      /\ \A b \in Erased : p.cell \notin Cells(b)
  BY OriginalInkOf DEF Clear
<1>2. \A i \in Affected \cup ChangedSpans : before.spans[i] \in Erased
  BY DEF Erased, TextRects, Boxes
<1> QED  BY <1>1, <1>2

\* What is drawn of a run.
LEMMA DrawnOf ==
    ASSUME NEW i \in DOMAIN final.spans
    PROVE  {p \in Drawn : p.span = i} =
           IF i \in Redrawn THEN Ink(i, final.spans[i], "substitute") ELSE {}
BY DEF Drawn, Ink

\* The invariant implies that the rendered text is the projected text.
LEMMA TextShown == IInv => TextMatchesLog
<1> SUFFICES ASSUME IInv, stage = "rendered"
             PROVE  /\ \A i \in DOMAIN final.spans :
                          \E face \in {"original", "substitute"} :
                             {p \in ink : p.span = i} = Ink(i, final.spans[i], face)
                    /\ \A p \in ink : p.span \in DOMAIN final.spans
  BY DEF TextMatchesLog
<1>1. ink = Clear(Erased) \cup Drawn  BY DEF IInv, InkByStage
<1>2. Pristine(before) /\ Projected(before, final)  BY DEF IInv
<1>3. ASSUME NEW i \in DOMAIN final.spans
      PROVE  \E face \in {"original", "substitute"} :
                {p \in ink : p.span = i} = Ink(i, final.spans[i], face)
  <2>1. {p \in ink : p.span = i} =
        {p \in Clear(Erased) : p.span = i} \cup {p \in Drawn : p.span = i}
    BY <1>1
  <2>2. CASE i \in Redrawn
    <3>1. i \in Affected \cup ChangedSpans \/ i \notin DOMAIN before.spans
      <4> SUFFICES ASSUME final.spans[i].added, i \in DOMAIN before.spans
                   PROVE  i \in ChangedSpans
        BY <2>2 DEF Redrawn
      <4>1. before.spans[i].added = FALSE  BY <1>2 DEF Pristine
      <4>2. final.spans[i] # before.spans[i]  BY <4>1
      <4> QED  BY <4>2 DEF ChangedSpans
    <3>2. {p \in Clear(Erased) : p.span = i} = {}  BY <3>1, InkGone
    <3>3. {p \in Drawn : p.span = i} = Ink(i, final.spans[i], "substitute")
      BY <2>2, DrawnOf
    <3> QED  BY <2>1, <3>2, <3>3
  <2>3. CASE i \notin Redrawn
    <3>1. i \notin Affected /\ i \notin ChangedSpans /\ ~ final.spans[i].added
      BY <2>3 DEF Redrawn
    <3>2. i \in DOMAIN before.spans  BY <1>2, <3>1 DEF Projected
    <3>3. final.spans[i] = before.spans[i]  BY <3>1, <3>2 DEF ChangedSpans
    <3>4. {p \in Clear(Erased) : p.span = i} = Ink(i, before.spans[i], "original")
      BY <1>2, <3>1, <3>2, InkLeft
    <3>5. {p \in Drawn : p.span = i} = {}  BY <2>3, DrawnOf
    <3> QED  BY <2>1, <3>3, <3>4, <3>5
  <2> QED  BY <2>2, <2>3
<1>4. ASSUME NEW p \in ink  PROVE p.span \in DOMAIN final.spans
  <2>1. CASE p \in Clear(Erased)
    <3>1. p.span \in DOMAIN before.spans /\ p.span \notin ChangedSpans  BY <2>1, InkGone
    <3> QED  BY <3>1 DEF ChangedSpans
  <2>2. CASE p \in Drawn
    BY <2>2 DEF Drawn, Redrawn, Ink
  <2> QED  BY <1>1, <2>1, <2>2
<1> QED  BY <1>3, <1>4

\* The replay shows every run of the projection whole, once and in one typeface, and
\* no other (_overlap_closure, _render_page_edits).
THEOREM TextIsRendered == Spec => []TextMatchesLog
BY TextShown, ReplayHolds, PTL

\* The invariant implies that text no overlap ties to an edit is left alone.
LEMMA UntouchedKept == IInv => UntouchedTextKeepsFont
<1> SUFFICES ASSUME IInv, stage = "rendered"
             PROVE  UntouchedTextKeepsFont
  BY DEF UntouchedTextKeepsFont
<1> DEFINE rects == TextRects \cup ImageRects
           closed == {S \in SUBSET DOMAIN before.spans :
                \A i \in DOMAIN before.spans :
                    (\E box \in TextRects \cup ImageRects \cup {before.spans[j] : j \in S} :
                        Cells(before.spans[i]) \cap Cells(box) # {}) => i \in S}
           tied == {i \in DOMAIN before.spans : \A S \in closed : i \in S}
<1>1. ink = Clear(Erased) \cup Drawn /\ Pristine(before)  BY DEF IInv, InkByStage
<1>2. IsFiniteSet(DOMAIN before.spans)  BY <1>1, FiniteText
<1>3. Affected \subseteq tied
  <2>1. Affected \subseteq DOMAIN before.spans
    BY <1>1, AffectedClosed DEF ClosedUnderOverlap
  <2>2. ASSUME NEW S \in closed  PROVE Affected \subseteq S
    <3>1. ClosedUnderOverlap(before.spans, rects, S)
      BY DEF ClosedUnderOverlap, Met, Boxes, Intersects
    <3> QED  BY <1>2, <3>1, ClosureIsLeast DEF Affected
  <2> QED  BY <2>1, <2>2
<1>4. \A i \in DOMAIN before.spans \ tied : Ink(i, before.spans[i], "original") \subseteq ink
  <2> SUFFICES ASSUME NEW i \in DOMAIN before.spans, i \notin Affected
               PROVE  Ink(i, before.spans[i], "original") \subseteq ink
    <3> HIDE DEF tied
    <3> QED  BY <1>3
  <2> QED  BY <1>1, InkLeft
<1> QED  BY <1>4 DEF UntouchedTextKeepsFont

\* Text that no chain of overlaps ties to an edit keeps its glyphs: _overlap_closure
\* takes no run it could leave.
THEOREM UntouchedTextIsKept == Spec => []UntouchedTextKeepsFont
BY UntouchedKept, ReplayHolds, PTL

-----------------------------------------------------------------------------
\* An edit leaves every object alone but the one it names.

\* Every object of the page but op's own is what it was.
OthersKept(page, op, new) ==
    /\ \A i \in DOMAIN page.spans :
          (op.type \in TextTools /\ op.id = i)
          \/ (i \in DOMAIN new.spans /\ new.spans[i] = page.spans[i])
    /\ \A i \in DOMAIN page.images :
          (op.type \in ImageTools \cup {"delete_image"} /\ op.id = i)
          \/ (i \in DOMAIN new.images /\ new.images[i] = page.images[i])

\* A text tool changes its run alone.
LEMMA TextToolTouchesOne ==
    ASSUME NEW page, IsPage(page), NEW op \in Operation, op.type \in TextTools, NEW n \in Nat
    PROVE  OthersKept(page, op, ProjectOne(page, op, n))
<1> DEFINE spans == ProjectText(page.spans, op, n)
<1>1. ProjectOne(page, op, n) = [spans |-> spans, images |-> page.images]
  <2>1. page = [spans |-> page.spans, images |-> page.images]  BY DEF IsPage
  <2>2. ProjectOne(page, op, n) = [page EXCEPT !.spans = ProjectText(page.spans, op, n)]
    BY DEF ProjectOne, TextTools, ImageTools
  <2> QED  BY <2>1, <2>2
<1>2. ASSUME NEW i \in DOMAIN page.spans, op.id # i
      PROVE  i \in DOMAIN spans /\ spans[i] = page.spans[i]
  <2>1. CASE op.type = "delete_text"
    BY <1>2, <2>1 DEF ProjectText, Drop, Restrict
  <2>2. CASE op.type = "replace_text" /\ op.wide = 0
    BY <1>2, <2>2 DEF ProjectText, Drop, Restrict
  <2>3. CASE op.type \in {"replace_text", "style_text"}
             /\ ~ (op.type = "replace_text" /\ op.wide = 0)
    <3>1. spans = [page.spans EXCEPT ![op.id].look = n,
                        ![op.id].hi = page.spans[op.id].lo + op.wide - 1]
      BY <2>3 DEF ProjectText
    <3> HIDE DEF spans
    <3> QED  BY <1>2, <3>1
  <2>4. CASE op.type = "move_text"
    <3>1. spans = [page.spans EXCEPT ![op.id].lo = @ + op.x, ![op.id].hi = @ + op.x]
      BY <2>4 DEF ProjectText
    <3> HIDE DEF spans
    <3> QED  BY <1>2, <3>1
  <2> QED  BY <2>1, <2>2, <2>3, <2>4 DEF TextTools
<1> HIDE DEF spans
<1> QED  BY <1>1, <1>2 DEF OthersKept

\* An image tool changes its image alone.
LEMMA ImageToolTouchesOne ==
    ASSUME NEW page, IsPage(page), NEW op \in Operation,
           op.type \in ImageTools \cup {"delete_image"}, NEW n \in Nat
    PROVE  OthersKept(page, op, ProjectOne(page, op, n))
<1> DEFINE images == IF op.type = "delete_image" THEN Drop(page.images, op.id)
                     ELSE ProjectImage(page.images, op, n)
<1>1. ProjectOne(page, op, n) = [spans |-> page.spans, images |-> images]
  BY DEF ProjectOne, IsPage, TextTools, ImageTools
<1>2. ASSUME NEW i \in DOMAIN page.images, op.id # i
      PROVE  i \in DOMAIN images /\ images[i] = page.images[i]
  <2>1. CASE op.type = "delete_image"
    BY <1>2, <2>1 DEF Drop, Restrict
  <2>2. CASE op.type \in ImageTools
    BY <1>2, <2>2 DEF ProjectImage, ImageTools
  <2> QED  BY <2>1, <2>2
<1> HIDE DEF images
<1> QED  BY <1>1, <1>2 DEF OthersKept

\* A new object changes none of those there were.
LEMMA NewTouchesNone ==
    ASSUME NEW page, IsPage(page), NEW op \in Operation,
           op.type \in {"add_text", "add_image"},
           op.id \notin DOMAIN page.spans \cup DOMAIN page.images, NEW n \in Nat
    PROVE  OthersKept(page, op, ProjectOne(page, op, n))
<1> DEFINE text == [lo |-> op.x, hi |-> op.x + op.wide - 1, look |-> n, added |-> TRUE]
           image == [lo |-> op.x, hi |-> op.x + op.wide - 1, xref |-> 0, asset |-> n]
<1>1. \A f, object : \A i \in DOMAIN f \ {op.id} :
         i \in DOMAIN Put(f, op.id, object) /\ Put(f, op.id, object)[i] = f[i]
  BY DEF Put
<1>2. CASE op.type = "add_text"
  <2>1. ProjectOne(page, op, n) =
        [spans |-> Put(page.spans, op.id, text), images |-> page.images]
    BY <1>2 DEF ProjectOne, IsPage, TextTools, ImageTools
  <2> HIDE DEF text
  <2> QED  BY <1>1, <2>1 DEF OthersKept
<1>3. CASE op.type = "add_image"
  <2>1. ProjectOne(page, op, n) =
        [spans |-> page.spans, images |-> Put(page.images, op.id, image)]
    BY <1>3 DEF ProjectOne, IsPage, TextTools, ImageTools
  <2> HIDE DEF image
  <2> QED  BY <1>1, <2>1 DEF OthersKept
<1> QED  BY <1>2, <1>3

\* Recording an operation changes the projection of its object alone.
LEMMA RecordTouchesOne ==
    ASSUME IInv, Recorded
    PROVE  OthersKept(Project(before, log), log'[Len(log')], Project(before, log'))
<1>1. log \in Seq(Operation) /\ Pristine(before)  BY DEF IInv, TypeOK
<1>2. PICK op \in Operation :
        /\ log' = Append(log, op)
        /\ op.type \in {"add_text", "add_image"} => op.id = NextObjectId(Current)
  BY DEF Recorded
<1>3. log'[Len(log')] = op /\ Len(log) + 1 \in Nat  BY <1>1, <1>2
<1> DEFINE old == Project(before, log)  new == Project(before, log')
<1>4. new = ProjectOne(old, op, Len(log) + 1)  BY <1>1, <1>2, ProjectAppend
<1>5. IsPage(old) /\ Bounded(old)  BY <1>1, ProjectKeeps DEF Projected
<1>6. old = Current  BY DEF Current
<1> HIDE DEF old, new
<1>7. op.type \in {"add_text", "add_image"} =>
        op.id \notin DOMAIN old.spans \cup DOMAIN old.images
  BY <1>2, <1>5, <1>6, NextObjectIdFresh
<1>8. op.type \in TextTools \cup (ImageTools \cup {"delete_image"}) \cup {"add_text", "add_image"}
  BY DEF Operation, OperationTypes, TextTools, ImageTools
<1>9. OthersKept(old, op, new)
  BY <1>3, <1>4, <1>5, <1>7, <1>8, TextToolTouchesOne, ImageToolTouchesOne, NewTouchesNone
<1> QED  BY <1>3, <1>9 DEF old, new

\* The log gets longer by an edit alone.
LEMMA LongerLogIsRecorded ==
    ASSUME IInv, [Next]_vars, Len(log') = Len(log) + 1
    PROVE  Recorded
<1>1. log \in Seq(Operation)  BY DEF IInv, TypeOK
<1>2. Len(log) \in Nat  BY <1>1
<1>3. CASE EditText \/ EditImages  BY <1>3, EditRecords
<1>4. CASE Undo
  <2>1. log # <<>> /\ log' = Front(log)  BY <1>4 DEF Undo
  <2>2. Len(log') = Len(log) - 1  BY <1>1, <2>1 DEF Front
  <2> QED  BY <1>2, <2>2
<1>5. CASE Reset  BY <1>2, <1>5 DEF Reset
<1>6. CASE Replay \/ UNCHANGED vars
  <2>1. log' = log
    BY <1>6 DEF Replay, OpenOriginal, EraseImages, PlaceImages, EraseText, DrawText,
                SwapImages, Return, vars
  <2> QED  BY <1>2, <2>1
<1> QED  BY <1>3, <1>4, <1>5, <1>6 DEF Next

\* An edit changes the object it names and no other, and the handle of a new object is
\* one that nothing has (project, next_object_id).
THEOREM EditsTouchOne == Spec => EditsTouchOneObject
<1>1. IInv /\ [Next]_vars =>
        [Len(log') = Len(log) + 1 =>
            LET op == log'[Len(log')]
                old == Project(before, log)
                new == Project(before, log')
                onText == op.type \in TextTools
                onImage == op.type \in ImageTools \cup {"delete_image"}
            IN /\ \A i \in DOMAIN old.spans :
                    (onText /\ op.id = i) \/ (i \in DOMAIN new.spans /\ new.spans[i] = old.spans[i])
               /\ \A i \in DOMAIN old.images :
                    (onImage /\ op.id = i) \/ (i \in DOMAIN new.images /\ new.images[i] = old.images[i])]_vars
  BY LongerLogIsRecorded, RecordTouchesOne DEF OthersKept
<1> QED  BY <1>1, ReplayHolds, PTL DEF Spec, EditsTouchOneObject

-----------------------------------------------------------------------------
\* The images on a built page, when no two images of the original share a resource.
\* Replacing a picture that is shown twice replaces both: what the run shared_image
\* shows is why the hypothesis is needed.

OneResourceEach ==
    \A images \in Placements : \A j, k \in 1..Len(images) :
        images[j][3] = images[k][3] => j = k

Unshared ==
    \A i, j \in DOMAIN before.images :
        before.images[i].xref = before.images[j].xref => i = j

\* Distinct resources in the layouts are distinct resources on the page.
LEMMA InitUnshared ==
    ASSUME OneResourceEach, Init
    PROVE  Unshared
<1>1. PICK text \in TextLayouts, images \in Placements :
        before = [spans |-> [i \in 0..(Len(text) - 1) |->
                                [lo |-> text[i + 1][1], hi |-> text[i + 1][2],
                                 look |-> 0, added |-> FALSE]],
                  images |-> [i \in 0..(Len(images) - 1) |->
                                [lo |-> images[i + 1][1], hi |-> images[i + 1][2],
                                 xref |-> images[i + 1][3], asset |-> 0]]]
  BY DEF Init
<1>2. Len(images) \in Nat  BY PlacementsAssumption
<1>3. DOMAIN before.images = 0..(Len(images) - 1)  BY <1>1
<1>4. ASSUME NEW i \in DOMAIN before.images
      PROVE  before.images[i].xref = images[i + 1][3] /\ i \in Int /\ i + 1 \in 1..Len(images)
  BY <1>1, <1>2, <1>3
<1>5. ASSUME NEW i \in DOMAIN before.images, NEW j \in DOMAIN before.images,
             before.images[i].xref = before.images[j].xref
      PROVE  i = j
  <2>1. images[i + 1][3] = images[j + 1][3]  BY <1>4, <1>5
  <2>2. i + 1 = j + 1  BY <1>4, <2>1 DEF OneResourceEach
  <2> QED  BY <1>4, <2>2
<1> QED  BY <1>5 DEF Unshared

\* An image that stays is missed by every redaction, and one that goes is not: it
\* meets its own.
LEMMA SparedOnes ==
    ASSUME IInv, NoneMet
    PROVE  Spared = {Shown(before.images[i]) : i \in DOMAIN before.images \ ChangedImages}
<1>1. ASSUME NEW i \in DOMAIN before.images
      PROVE  (\A b \in ImageRects : ~Intersects(Shown(before.images[i]), b)) <=> i \notin ChangedImages
  <2>1. Cells(Shown(before.images[i])) = Cells(before.images[i])  BY DEF Cells, Shown
  <2>2. CASE i \in ChangedImages
    <3>1. before.images[i] \in ImageObject /\ before.images[i].lo <= before.images[i].hi
      BY DEF IInv, Pristine, IsPage
    <3>2. before.images[i].lo \in Cells(before.images[i])
      BY <3>1 DEF Cells, ImageObject
    <3>3. before.images[i] \in ImageRects  BY <2>2 DEF ImageRects
    <3> QED  BY <2>1, <2>2, <3>2, <3>3 DEF Intersects
  <2>3. CASE i \notin ChangedImages
    BY <2>1, <2>3 DEF NoneMet, ImageRects, Intersects
  <2> QED  BY <2>2, <2>3
<1> QED  BY <1>1 DEF Spared, OriginalPics

\* What a viewer sees of an image.
Seen(p) == [lo |-> p.lo, hi |-> p.hi, pixels |-> p.pixels]
Wanted(i) ==
    [lo |-> final.images[i].lo, hi |-> final.images[i].hi, pixels |-> Pixels(final.images[i])]

\* An image that stays still shows its resource on the original.
LEMMA StayedResource ==
    ASSUME IInv, stage = "rendered", NEW i \in DOMAIN before.images, i \notin ChangedImages
    PROVE  /\ i \in DOMAIN final.images
           /\ final.images[i].lo = before.images[i].lo /\ final.images[i].hi = before.images[i].hi
           /\ final.images[i].xref = before.images[i].xref
           /\ i \in Swapped <=> final.images[i].asset # 0
<1>1. ~GeometryChanged(i)  BY DEF ChangedImages
<1>2. /\ i \in DOMAIN final.images
      /\ final.images[i].lo = before.images[i].lo /\ final.images[i].hi = before.images[i].hi
  BY <1>1 DEF GeometryChanged
<1>3. i \in Swapped <=> final.images[i].asset # 0  BY <1>1, <1>2 DEF Swapped
<1>4. \A j \in Swapped : final.images[j].xref # 0  BY DEF IInv, PicsByStage
<1>5. final.images[i].xref = before.images[i].xref
  BY <1>2, <1>3, <1>4 DEF IInv, Projected
<1> QED  BY <1>2, <1>3, <1>5

\* A swap reaches the image it is for and no other.
LEMMA StayedIsWanted ==
    ASSUME IInv, Unshared, stage = "rendered",
           NEW i \in DOMAIN before.images, i \notin ChangedImages
    PROVE  Seen(AfterSwap(Shown(before.images[i]))) = Wanted(i)
<1> DEFINE p == Shown(before.images[i])
<1>1. /\ i \in DOMAIN final.images
      /\ final.images[i].lo = before.images[i].lo /\ final.images[i].hi = before.images[i].hi
      /\ final.images[i].xref = before.images[i].xref
      /\ i \in Swapped <=> final.images[i].asset # 0
  BY StayedResource
<1>2. /\ p.lo = before.images[i].lo /\ p.hi = before.images[i].hi
      /\ p.xref = before.images[i].xref /\ p.pixels = -before.images[i].xref
      /\ p = [lo |-> p.lo, hi |-> p.hi, xref |-> p.xref, pixels |-> p.pixels]
  BY DEF Shown, Pixels, IInv, Pristine
<1>3. ASSUME NEW j \in Swapped, final.images[j].xref = p.xref  PROVE j = i
  <2>1. j \in DOMAIN before.images /\ j \notin ChangedImages
    BY DEF Swapped, ChangedImages
  <2>2. final.images[j].xref = before.images[j].xref  BY <2>1, StayedResource
  <2> QED  BY <1>2, <1>3, <2>1, <2>2 DEF Unshared
<1> HIDE DEF p
<1>4. CASE i \in Swapped
  <2>1. (CHOOSE j \in Swapped : final.images[j].xref = p.xref) = i
    BY <1>1, <1>2, <1>3, <1>4
  <2>2. AfterSwap(p) = [p EXCEPT !.pixels = Pixels(final.images[i])]
    BY <1>1, <1>2, <1>4, <2>1 DEF AfterSwap
  <2>3. Seen(AfterSwap(p)) = Wanted(i)  BY <1>1, <1>2, <2>2 DEF Seen, Wanted
  <2> QED  BY <2>3 DEF p
<1>5. CASE i \notin Swapped
  <2>1. AfterSwap(p) = p  BY <1>3, <1>5 DEF AfterSwap
  <2>2. Pixels(final.images[i]) = p.pixels  BY <1>1, <1>2, <1>5 DEF Pixels
  <2>3. Seen(AfterSwap(p)) = Wanted(i)  BY <1>1, <1>2, <2>1, <2>2 DEF Seen, Wanted
  <2> QED  BY <2>3 DEF p
<1> QED  BY <1>4, <1>5

\* An image that was placed anew has no resource of the original: no swap reaches it.
LEMMA PlacedIsWanted ==
    ASSUME IInv, stage = "rendered", NEW i \in DOMAIN final.images
    PROVE  Seen(AfterSwap([Shown(final.images[i]) EXCEPT !.xref = 0])) = Wanted(i)
<1>1. \A j \in Swapped : final.images[j].xref # 0  BY DEF IInv, PicsByStage
<1> DEFINE p == [Shown(final.images[i]) EXCEPT !.xref = 0]
<1>2. /\ p.xref = 0 /\ p.lo = final.images[i].lo /\ p.hi = final.images[i].hi
      /\ p.pixels = Pixels(final.images[i])
  BY DEF Shown
<1> HIDE DEF p
<1>3. AfterSwap(p) = p  BY <1>1, <1>2 DEF AfterSwap
<1>4. Seen(AfterSwap(p)) = Wanted(i)  BY <1>2, <1>3 DEF Seen, Wanted
<1> QED  BY <1>4 DEF p

\* Without shared resources the invariant implies that the images are the projected ones.
LEMMA ImagesShown == IInv /\ Unshared => ImagesMatchLog
<1> SUFFICES ASSUME IInv, Unshared, stage = "rendered", NoneMet
             PROVE  {Seen(p) : p \in pics} = {Wanted(i) : i \in DOMAIN final.images}
  BY DEF ImagesMatchLog, Seen, Wanted
<1> DEFINE stayed == DOMAIN before.images \ ChangedImages
<1>1. pics = {AfterSwap(p) : p \in Spared \cup Placed}  BY DEF IInv, PicsByStage
<1>2. Spared = {Shown(before.images[i]) : i \in stayed}  BY SparedOnes
<1>3. Placed = {[Shown(final.images[i]) EXCEPT !.xref = 0] : i \in DOMAIN final.images \ stayed}
  BY DEF Placed
<1>4. \A i \in stayed : /\ i \in DOMAIN final.images
                        /\ Seen(AfterSwap(Shown(before.images[i]))) = Wanted(i)
  BY StayedResource, StayedIsWanted
<1>5. \A i \in DOMAIN final.images :
         Seen(AfterSwap([Shown(final.images[i]) EXCEPT !.xref = 0])) = Wanted(i)
  BY PlacedIsWanted
<1> HIDE DEF stayed
<1>6. ASSUME NEW q \in pics  PROVE \E i \in DOMAIN final.images : Seen(q) = Wanted(i)
  <2>1. PICK p \in Spared \cup Placed : q = AfterSwap(p)  BY <1>1
  <2>2. CASE p \in Spared  BY <1>2, <1>4, <2>1, <2>2
  <2>3. CASE p \in Placed  BY <1>3, <1>5, <2>1, <2>3
  <2> QED  BY <2>1, <2>2, <2>3
<1>7. ASSUME NEW i \in DOMAIN final.images  PROVE \E q \in pics : Seen(q) = Wanted(i)
  <2>1. CASE i \in stayed
    <3>1. AfterSwap(Shown(before.images[i])) \in pics  BY <1>1, <1>2, <2>1
    <3> QED  BY <1>4, <2>1, <3>1
  <2>2. CASE i \notin stayed
    <3>1. AfterSwap([Shown(final.images[i]) EXCEPT !.xref = 0]) \in pics
      BY <1>1, <1>3, <2>2
    <3> QED  BY <1>5, <3>1
  <2> QED  BY <2>1, <2>2
<1> QED  BY <1>6, <1>7

\* The original is never written to.
LEMMA StepKeepsUnshared ==
    ASSUME IInv, Unshared, [Next]_vars
    PROVE  Unshared'
<1>1. before' = before
  <2>1. CASE EditText \/ EditImages  BY <2>1, EditRecords DEF Recorded
  <2>2. CASE ~(EditText \/ EditImages)
    BY <2>2 DEF Next, Undo, Reset, Replay, OpenOriginal, EraseImages, PlaceImages, EraseText,
                DrawText, SwapImages, Return, vars
  <2> QED  BY <2>1, <2>2
<1> QED  BY <1>1 DEF Unshared

\* When every image of the original has its own resource and erasing one meets no image
\* that should stay, the replay shows the images of the projection, each with its own
\* pixels, and no other (_render_page_edits, _replace_image_in_place).
THEOREM ImagesAreRendered == OneResourceEach => (Spec => []ImagesMatchLog)
<1> SUFFICES ASSUME OneResourceEach PROVE Spec => []ImagesMatchLog  OBVIOUS
<1>1. Init => Unshared  BY InitUnshared
<1>2. IInv /\ Unshared /\ [Next]_vars => Unshared'  BY StepKeepsUnshared
<1> QED  BY <1>1, <1>2, ImagesShown, ReplayHolds, PTL DEF Spec
=============================================================================

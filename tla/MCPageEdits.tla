---------------------------- MODULE MCPageEdits ----------------------------
(* PageEdits on a page of six cells.  The text of the first layout is a chain *)
(* of overlapping runs and one apart; in the second a run lies within another *)
(* and one only touches its edge; the third has no text.                      *)
EXTENDS PageEdits

MCTextLayouts ==
    {<< <<1, 2>>, <<2, 3>>, <<3, 4>>, <<6, 6>> >>, << <<1, 3>>, <<2, 2>>, <<4, 4>> >>, <<>>}

\* Images as rectangle and resource: side by side, overlapping, and none.
OwnResources == {<<>>, << <<2, 3, 1>>, <<5, 5, 2>> >>, << <<2, 3, 1>>, <<3, 4, 2>> >>}

\* One picture shown twice.
SharedResource == {<< <<1, 2, 1>>, <<4, 5, 1>> >>}
=============================================================================

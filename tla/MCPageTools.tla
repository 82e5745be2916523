---------------------------- MODULE MCPageTools ----------------------------
(* PageTools on documents of up to five pages, one of them turned already,    *)
(* with every field of one or two groups whose numbers lie on, between and    *)
(* beyond its pages.                                                          *)
EXTENDS PageTools

MCDocument(n) == [i \in 1..n |-> [from |-> i, turn |-> IF i = 2 THEN 270 ELSE 0, stamped |-> FALSE]]
MCPdf(n) == [kind |-> "pdf", pages |-> MCDocument(n)]
MCUploads ==
    {MCPdf(n) : n \in {0, 1, 2, 3, 5}} \cup {[kind |-> k, pages |-> <<>>] : k \in Kinds \ {"pdf"}}

MCNumbers == 0..4
MCGroups == {<<a>> : a \in MCNumbers} \cup {<<a, b>> : a, b \in MCNumbers}
MCSpecs ==
    {<<>>, << <<1>>, <<1>>, <<1>> >>, << <<NotDigits>> >>, << <<1, NotDigits>> >>}
    \cup {<<g>> : g \in MCGroups} \cup {<<g, h>> : g, h \in MCGroups}

MCBlank == [tool |-> "compress", files |-> <<>>, spec |-> << <<1>> >>, degrees |-> 90,
            order |-> <<1>>, number |-> 1]

MCRequests ==
    {[MCBlank EXCEPT !.files = <<MCPdf(n)>>, !.tool = t, !.spec = s] :
       n \in {1, 3}, t \in {"delete", "split"}, s \in MCSpecs}
    \cup {[MCBlank EXCEPT !.files = <<MCPdf(3)>>, !.tool = "rotate", !.spec = s, !.degrees = d] :
       s \in MCSpecs, d \in {45, 90, 270}}
    \cup {[MCBlank EXCEPT !.files = <<MCPdf(n)>>, !.tool = "reorder", !.order = o] :
       n \in {2, 3}, o \in UNION {[1..k -> MCNumbers] : k \in 0..4}}
    \cup {[MCBlank EXCEPT !.files = <<MCPdf(n)>>, !.tool = "text", !.number = k] :
       n \in 1..3, k \in MCNumbers}
    \cup {[MCBlank EXCEPT !.files = <<f>>, !.tool = t] :
       f \in MCUploads, t \in {"compress", "rotate", "delete", "split", "reorder", "text"}}
    \cup {[MCBlank EXCEPT !.files = fs, !.tool = "merge"] :
       fs \in UNION {[1..n -> MCUploads] : n \in 1..3}}
=============================================================================

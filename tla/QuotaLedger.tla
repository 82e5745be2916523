---------------------------- MODULE QuotaLedger ----------------------------
(***************************************************************************)
(* What the weekly quota promises, with no counter, no request and no      *)
(* database row: every week is a ledger page of its own that holds at most *)
(* Cap edits, an edit is entered on the page of the current week, and an   *)
(* entry may be struck out again, from whichever page it is on.            *)
(* EditPipeline is shown to implement this specification.                  *)
(***************************************************************************)
EXTENDS Naturals, FiniteSets

CONSTANTS
    Edits,  \* the edits that may ever be entered
    Cap,    \* how many entries one week holds
    Weeks   \* the weeks of the ledger, an initial segment of the naturals

VARIABLES
    week,   \* the current week
    spent   \* spent[w]: the edits entered in week w and not struck out

ledgerVars == <<week, spent>>

Init ==
    /\ week = 0
    /\ spent = [w \in Weeks |-> {}]

\* A new week starts; every page keeps its entries.
NextWeek ==
    /\ week + 1 \in Weeks
    /\ week' = week + 1
    /\ UNCHANGED spent

\* An edit that is on no page is entered on the page of the current week.
Enter(e) ==
    /\ \A w \in Weeks : e \notin spent[w]
    /\ Cardinality(spent[week]) < Cap
    /\ spent' = [spent EXCEPT ![week] = @ \cup {e}]
    /\ UNCHANGED week

\* An entry is struck out, possibly weeks after it was made.
StrikeOut(e, w) ==
    /\ e \in spent[w]
    /\ spent' = [spent EXCEPT ![w] = @ \ {e}]
    /\ UNCHANGED week

Next ==
    \/ NextWeek
    \/ \E e \in Edits : Enter(e)
    \/ \E e \in Edits, w \in Weeks : StrikeOut(e, w)

Spec == Init /\ [][Next]_ledgerVars
=============================================================================

---------------------------- MODULE DocumentLog ----------------------------
(***************************************************************************)
(* What an editing session is to the people editing: a log of edits that   *)
(* requests read, and write back with one edit more at its end, one less,  *)
(* or none, whatever the log has become meanwhile; the last one to write   *)
(* wins.  A save hands out a log that was read and ends the session, and   *)
(* nothing is written to the log after that.  No revision, no file, no     *)
(* lock.  EditorSession is shown to implement it.                          *)
(***************************************************************************)
EXTENDS Naturals, Sequences

CONSTANTS
    Edits,   \* the edits that may ever be made
    MaxOps   \* how many the log holds

VARIABLES
    phase,   \* "none", "open" or "closed"
    log,     \* the edits made so far
    read,    \* the logs that were read by somebody still at work
    handed   \* the logs handed out by a save

logVars == <<phase, log, read, handed>>

Init ==
    /\ phase = "none"
    /\ log = <<>>
    /\ read = {}
    /\ handed = {}

Open ==
    /\ phase = "none"
    /\ phase' = "open"
    /\ UNCHANGED <<log, read, handed>>

Read ==
    /\ phase = "open"
    /\ read' = read \cup {log}
    /\ UNCHANGED <<phase, log, handed>>

\* Somebody is done with what they read.
Forget ==
    /\ read' \in SUBSET read
    /\ UNCHANGED <<phase, log, handed>>

\* What was made of a log that was read takes the place of whatever the log is.
WriteBack(doc) ==
    /\ phase = "open"
    /\ log' = doc
    /\ read' \in SUBSET read
    /\ UNCHANGED <<phase, handed>>

\* A new edit joins at the end; no log has an edit twice.
Add(h, e) ==
    /\ Len(h) < MaxOps
    /\ \A i \in 1..Len(h) : h[i] # e
    /\ WriteBack(Append(h, e))

Undo(h) ==
    /\ h # <<>>
    /\ WriteBack(SubSeq(h, 1, Len(h) - 1))

\* A log that was read empty is not written back: edits made meanwhile stay.
Clear(h) ==
    /\ h # <<>>
    /\ WriteBack(<<>>)

\* Of several saves under way at once each hands out the log it read.
Save(h) ==
    /\ phase \in {"open", "closed"}
    /\ phase' = "closed"
    /\ handed' = handed \cup {h}
    /\ read' \in SUBSET read
    /\ UNCHANGED log

Close ==
    /\ phase \in {"open", "closed"}
    /\ phase' = "closed"
    /\ read' \in SUBSET read
    /\ UNCHANGED <<log, handed>>

Next ==
    \/ Open \/ Read \/ Forget \/ Close
    \/ \E h \in read : Undo(h) \/ Clear(h) \/ Save(h) \/ \E e \in Edits : Add(h, e)

Spec == Init /\ [][Next]_logVars
=============================================================================

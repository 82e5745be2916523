------------------------- MODULE EditorSessionProofs -------------------------
(***************************************************************************)
(* What EditorSession guarantees for any number of requests, all of them   *)
(* in flight at once if need be, for any limit on the log, and wherever    *)
(* requests die and the process stops.                                     *)
(***************************************************************************)
EXTENDS EditorSession, SequenceTheorems, FiniteSetTheorems, TLAPS

USE RequestsAssumption, BadEditsAssumption, MaxOpsAssumption,
    MaxInFlightAssumption, MayCrashAssumption

\* The log of an untouched session.
LEMMA EmptyDocument == <<>> \in Documents
  BY DEF Documents

\* The operations of the log that shorten it stay within the documents.
LEMMA DocumentOps ==
    ASSUME NEW doc \in Documents
    PROVE  /\ \A r \in Requests : Append(doc, r) \in Documents
           /\ doc # <<>> => SubSeq(doc, 1, Len(doc) - 1) \in Documents
           /\ <<>> \in Documents
<1>1. \A r \in Requests : Append(doc, r) \in Documents
  BY DEF Documents
<1>2. ASSUME doc # <<>> PROVE SubSeq(doc, 1, Len(doc) - 1) \in Documents
  <2>1. Len(doc) \in Nat /\ Len(doc) > 0
    BY <1>2 DEF Documents
  <2> QED
    BY <2>1, SubSeqProperties DEF Documents
<1>3. <<>> \in Documents
  BY DEF Documents
<1> QED
  BY <1>1, <1>2, <1>3

\* What StartWrite and EndWrite leave in the directory are documents again.
LEMMA BuildTypes ==
    ASSUME TypeOK, NEW b,
           \/ \E r \in Requests :
                 b = [v \in DOMAIN builds \cup {lrev[r]} |->
                        IF v = lrev[r] THEN lops[r] ELSE builds[v]]
           \/ \E D \in SUBSET DOMAIN builds : b = [v \in D |-> builds[v]]
           \/ b = NoFiles
    PROVE  /\ DOMAIN b \subseteq Nat
           /\ \A v \in DOMAIN b : b[v] \in Documents
<1> USE DEF TypeOK
<1>1. ASSUME NEW r \in Requests,
             b = [v \in DOMAIN builds \cup {lrev[r]} |->
                    IF v = lrev[r] THEN lops[r] ELSE builds[v]]
      PROVE  DOMAIN b \subseteq Nat /\ \A v \in DOMAIN b : b[v] \in Documents
  <2>1. DOMAIN b = DOMAIN builds \cup {lrev[r]}
    BY <1>1
  <2>2. \A v \in DOMAIN b : b[v] = IF v = lrev[r] THEN lops[r] ELSE builds[v]
    BY <1>1
  <2>3. lrev[r] \in Nat /\ lops[r] \in Documents
    OBVIOUS
  <2> QED
    BY <2>1, <2>2, <2>3
<1>2. ASSUME NEW D \in SUBSET DOMAIN builds, b = [v \in D |-> builds[v]]
      PROVE  DOMAIN b \subseteq Nat /\ \A v \in DOMAIN b : b[v] \in Documents
  BY <1>2
<1>3. ASSUME b = NoFiles
      PROVE  DOMAIN b \subseteq Nat /\ \A v \in DOMAIN b : b[v] \in Documents
  BY <1>3 DEF NoFiles
<1> QED
  BY <1>1, <1>2, <1>3

\* A request that finds the session open copies the row and meets whoever is in
\* flight; any other is refused and leaves no trace.
Loaded(r) ==
    /\ pc' = [pc EXCEPT ![r] = "loaded"]
    /\ \E k \in Kinds : kind' = [kind EXCEPT ![r] = k]
    /\ lops' = [lops EXCEPT ![r] = ops]
    /\ base' = [base EXCEPT ![r] = ops]
    /\ lrev' = [lrev EXCEPT ![r] = revision]
    /\ met' = [q \in Requests |-> IF q = r THEN Active
                                  ELSE IF q \in Active THEN met[q] \cup {r}
                                  ELSE met[q]]

LEMMA LoadMoves ==
    ASSUME NEW r \in Requests, Load(r)
    PROVE  /\ up /\ opening = "done" /\ pc[r] = "idle"
           /\ UNCHANGED <<state, ops, revision, expired, opening, lock, root, original,
                          builds, half, adir, assets, listed, listedAssets, result,
                          billed, up>>
           /\ \A q \in Requests : pc[q] # "deleting"
           /\ \/ CanLoad /\ Loaded(r)
              \/ /\ ~ CanLoad
                 /\ pc' = [pc EXCEPT ![r] = "refused"]
                 /\ UNCHANGED <<kind, base, met, lops, lrev>>
<1>1. CASE CanLoad
  BY <1>1 DEF Load, Loaded, LoopIsFree, row, disk, listing
<1>2. CASE ~ CanLoad
  BY <1>2 DEF Load, LoopIsFree, row, disk, listing, asked, copies
<1> QED
  BY <1>1, <1>2

\* The session, its directory and the requests keep to their types: in
\* particular no revision ever falls below zero and the log only ever holds
\* edits of real requests.
THEOREM TypeCorrect == Spec => []TypeOK
<1>1. Init => TypeOK
  <2> SUFFICES ASSUME Init PROVE TypeOK
    OBVIOUS
  <2>1. DOMAIN builds \subseteq Nat /\ \A v \in DOMAIN builds : builds[v] \in Documents
    BY DEF Init, NoFiles
  <2> QED
    BY <2>1, EmptyDocument DEF Init, TypeOK, Kinds, NoResult
<1>2. TypeOK /\ [Next]_vars => TypeOK'
  <2> SUFFICES ASSUME TypeOK, [Next]_vars PROVE TypeOK'
    OBVIOUS
  <2> USE DEF TypeOK
  <2>1. CASE OpenCopy
    BY <2>1 DEF OpenCopy, row, listing, asked, copies
  <2>2. CASE OpenCommit \/ OpenFails
    BY <2>2 DEF OpenCommit, OpenFails, row, disk, listing, asked, copies
  <2>3. ASSUME NEW r \in Requests, Load(r) PROVE TypeOK'
    <3>1. CASE CanLoad /\ Loaded(r)
      <4>1. kind' \in [Requests -> Kinds]
        BY <3>1 DEF Loaded
      <4>2. pc' \in [Requests -> {"idle"} \cup InFlight \cup Ended]
        BY <3>1 DEF Loaded, InFlight
      <4>3. lops' \in [Requests -> Documents] /\ lrev' \in [Requests -> Nat]
        BY <3>1 DEF Loaded
      <4>4. base' \in [Requests -> Documents]
        BY <3>1 DEF Loaded
      <4>5. Active \in SUBSET Requests
        BY DEF Active
      <4>6. met' \in [Requests -> SUBSET Requests]
        BY <3>1, <4>5 DEF Loaded
      <4> QED
        BY <2>3, <4>1, <4>2, <4>3, <4>4, <4>6, LoadMoves
    <3>2. CASE pc' = [pc EXCEPT ![r] = "refused"] /\ UNCHANGED <<kind, base, met, lops, lrev>>
      BY <2>3, <3>2, LoadMoves DEF Ended
    <3> QED
      BY <2>3, <3>1, <3>2, LoadMoves
  <2>4. ASSUME NEW r \in Requests, OpenSource(r) \/ BuildFails(r) PROVE TypeOK'
    <3>1. pc' \in [Requests -> {"idle"} \cup InFlight \cup Ended]
      BY <2>4 DEF OpenSource, BuildFails, InFlight, Ended
    <3> QED
      BY ZenonT(40), <2>4, <3>1 DEF OpenSource, BuildFails, row, disk, listing, asked, copies
  <2>5. ASSUME NEW r \in Requests, StartWrite(r) PROVE TypeOK'
    <3>1. /\ DOMAIN builds' \subseteq Nat
          /\ \A v \in DOMAIN builds' : builds'[v] \in Documents
      BY <2>5, BuildTypes DEF StartWrite
    <3>2. pc' \in [Requests -> {"idle"} \cup InFlight \cup Ended]
      BY <2>5 DEF StartWrite, InFlight
    <3>3. half' \in SUBSET Requests
      BY <2>5 DEF StartWrite
    <3> QED
      BY <2>5, <3>1, <3>2, <3>3 DEF StartWrite, row, listing, asked, copies
  <2>6. ASSUME NEW r \in Requests, EndWrite(r) PROVE TypeOK'
    <3>1. /\ DOMAIN builds' \subseteq Nat
          /\ \A v \in DOMAIN builds' : builds'[v] \in Documents
      BY <2>6, BuildTypes DEF EndWrite
    <3>2. pc' \in [Requests -> {"idle"} \cup InFlight \cup Ended]
      BY <2>6 DEF EndWrite, InFlight
    <3>3. half' \in SUBSET Requests
      BY <2>6 DEF EndWrite
    <3> QED
      BY <2>6, <3>1, <3>2, <3>3 DEF EndWrite, row, listing, asked, copies
  <2>7. ASSUME NEW r \in Requests, StoreAsset(r) \/ ProbeAsset(r) PROVE TypeOK'
    <3>1. pc' \in [Requests -> {"idle"} \cup InFlight \cup Ended]
      BY <2>7 DEF StoreAsset, ProbeAsset, InFlight, Ended
    <3> QED
      BY ZenonT(40), <2>7, <3>1 DEF StoreAsset, ProbeAsset, row, disk, listing, asked, copies
  <2>8. ASSUME NEW r \in Requests, NEW doc \in Documents, Change(r, doc) PROVE TypeOK'
    <3>1. /\ pc' \in [Requests -> {"idle"} \cup InFlight \cup Ended]
          /\ root' \in BOOLEAN /\ adir' \in BOOLEAN
      BY <2>8 DEF Change, LookForBuild, InFlight
    <3>2. lops' \in [Requests -> Documents] /\ lrev' \in [Requests -> Nat]
      BY <2>8 DEF Change
    <3> QED
      BY <2>8, <3>1, <3>2 DEF Change, row, listing, asked
  <2>9. ASSUME NEW r \in Requests, AddOperation(r) \/ Undo(r) \/ Reset(r)
        PROVE  TypeOK'
    BY <2>8, <2>9, DocumentOps DEF AddOperation, Undo, Reset
  <2>10. ASSUME NEW r \in Requests,
                RefuseEdit(r) \/ EditFails(r) \/ QuotaExceeded(r) \/ AnswerFails(r)
         PROVE  TypeOK'
    <3>1. CASE RefuseEdit(r)
      BY <3>1 DEF RefuseEdit, row, disk, listing, asked, copies, Ended
    <3>2. CASE EditFails(r)
      BY <3>2 DEF EditFails, row, disk, listing, asked, copies, Ended
    <3>3. CASE QuotaExceeded(r)
      BY <3>3 DEF QuotaExceeded, row, disk, listing, asked, copies, Ended
    <3>4. CASE AnswerFails(r)
      BY <3>4 DEF AnswerFails, row, disk, listing, asked, copies, Ended
    <3> QED
      BY <2>10, <3>1, <3>2, <3>3, <3>4
  <2>11. ASSUME NEW r \in Requests, CommitEdit(r) PROVE TypeOK'
    BY <2>11 DEF CommitEdit, disk, listing, asked, copies, Ended
  <2>12. ASSUME NEW r \in Requests, LookUp(r) PROVE TypeOK'
    BY ZenonT(40), <2>12 DEF LookUp, LookForBuild, row, listing, asked, copies, InFlight
  <2>13. ASSUME NEW r \in Requests, Answer(r) PROVE TypeOK'
    <3>1. DocumentAt(lrev[r]) \in Documents
      BY <2>13 DEF Answer, OnDisk, DocumentAt, Documents
    <3>2. pc' \in [Requests -> {"idle"} \cup InFlight \cup Ended]
      BY <2>13 DEF Answer, InFlight, Ended
    <3> QED
      BY <2>13, <3>1, <3>2 DEF Answer, row, disk, listing, asked, copies
  <2>14. ASSUME NEW r \in Requests, CloseFlush(r) PROVE TypeOK'
    BY <2>14 DEF CloseFlush, row, disk, listing, asked, copies, InFlight
  <2>15. ASSUME NEW r \in Requests, CloseScan(r) PROVE TypeOK'
    BY <2>15 DEF CloseScan, row, disk, asked, copies, InFlight
  <2>16. ASSUME NEW r \in Requests, NEW v \in listed, RemoveFile(r, v) PROVE TypeOK'
    <3>1. /\ DOMAIN builds' \subseteq Nat
          /\ \A w \in DOMAIN builds' : builds'[w] \in Documents
      BY <2>16, BuildTypes DEF RemoveFile
    <3>2. half' \in SUBSET Requests /\ listed' \in SUBSET Nat /\ original' \in BOOLEAN
      BY <2>16 DEF RemoveFile
    <3> QED
      BY <2>16, <3>1, <3>2 DEF RemoveFile, row, asked, copies
  <2>17. ASSUME NEW r \in Requests, RemoveAssets(r) PROVE TypeOK'
    BY <2>17 DEF RemoveAssets, row, asked, copies
  <2>18. ASSUME NEW r \in Requests, RemoveRoot(r) PROVE TypeOK'
    BY <2>18 DEF RemoveRoot, row, listing, asked, copies, InFlight
  <2>19. ASSUME NEW r \in Requests, CloseCommit(r) PROVE TypeOK'
    BY <2>19 DEF CloseCommit, disk, listing, asked, copies, Ended
  <2>20. ASSUME NEW r \in Requests, Abandon(r) PROVE TypeOK'
    BY <2>20 DEF Abandon, row, disk, listing, asked, copies, Ended
  <2>21. CASE Expire
    BY <2>21 DEF Expire, row, disk, listing, asked, copies
  <2>22. CASE Stop
    <3>1. pc' \in [Requests -> {"idle"} \cup InFlight \cup Ended]
      BY <2>22 DEF Stop, Ended
    <3>2. opening' \in {"no", "copied", "done", "failed"}
      BY <2>22 DEF Stop
    <3> QED
      BY <2>22, <3>1, <3>2 DEF Stop, row, disk, asked, copies
  <2>23. CASE Start
    <3>1. CASE state = "open" /\ expired
      <4>1. builds' = NoFiles /\ half' = {} /\ assets' = {}
        BY <2>23, <3>1 DEF Start, SweepExpired
      <4>2. /\ DOMAIN NoFiles \subseteq Nat
            /\ \A v \in DOMAIN NoFiles : NoFiles[v] \in Documents
        BY DEF NoFiles
      <4> QED
        BY <2>23, <3>1, <4>1, <4>2 DEF Start, SweepExpired, listing, asked, copies
    <3>2. CASE ~ (state = "open" /\ expired)
      BY <2>23, <3>2 DEF Start, disk, listing, asked, copies
    <3> QED
      BY <3>1, <3>2
  <2>24. CASE UNCHANGED vars
    BY <2>24 DEF vars, row, disk, listing, asked, copies
  <2> QED
    BY <2>1, <2>2, <2>3, <2>4, <2>5, <2>6, <2>7, <2>9, <2>10, <2>11, <2>12, <2>13,
       <2>14, <2>15, <2>16, <2>17, <2>18, <2>19, <2>20, <2>21, <2>22, <2>23, <2>24
    DEF Next, Handle
<1> QED
  BY <1>1, <1>2, PTL DEF Spec

-----------------------------------------------------------------------------
\* Why a late edit cannot reach a closed session: no request runs before the
\* session is open, a closer deletes the original before it commits, and the
\* original of a closed session is therefore gone when the edit projects it.
Finality ==
    /\ opening # "done" => state = "none" /\ \A r \in Requests : pc[r] = "idle"
    /\ opening = "done" => state # "none"
    /\ state = "closed" => ~ original
    /\ \A r \in Requests : pc[r] = "deleting" /\ original => 0 \in listed
    /\ \A r \in Requests : pc[r] = "deleted" => ~ original

\* The steps of the requests that neither open, close nor delete anything: those
\* that leave the row, the copies, the builds, the original and the answers alone ...
Plain(r) ==
    \/ OpenSource(r) \/ BuildFails(r) \/ StoreAsset(r) \/ ProbeAsset(r) \/ RefuseEdit(r)
    \/ EditFails(r) \/ LookUp(r) \/ QuotaExceeded(r) \/ AnswerFails(r)

\* ... and those that do not.
Ordinary(r) ==
    \/ Plain(r) \/ StartWrite(r) \/ EndWrite(r) \/ CommitEdit(r) \/ Answer(r)
    \/ \E doc \in Documents : /\ AddOperation(r) \/ Undo(r) \/ Reset(r)
                              /\ Change(r, doc)

CloserStates == {"closing", "deleting", "deleted"}

\* A plain step moves its request only.
LEMMA PlainSteps ==
    ASSUME TypeOK, NEW r \in Requests, Plain(r)
    PROVE  /\ up
           /\ UNCHANGED <<state, ops, revision, expired, opening, lock, original, builds,
                          listed, listedAssets, kind, base, met, lops, lrev, result, up>>
           /\ pc[r] \in InFlight \ CloserStates /\ pc[r] # "copied"
           /\ \E s \in {"stored", "probed", "building", "replaying", "built",
                         "refused", "failed"} : pc' = [pc EXCEPT ![r] = s]
<1>1. CASE OpenSource(r) \/ BuildFails(r)
  BY <1>1 DEF OpenSource, BuildFails, row, disk, listing, asked, copies, InFlight,
              CloserStates
<1>2. CASE StoreAsset(r) \/ ProbeAsset(r)
  BY <1>2 DEF StoreAsset, ProbeAsset, row, disk, listing, asked, copies, InFlight,
              CloserStates
<1>3. CASE RefuseEdit(r) \/ EditFails(r)
  BY <1>3 DEF RefuseEdit, EditFails, Prepared, row, disk, listing, asked, copies,
              InFlight, CloserStates
<1>4. CASE LookUp(r)
  BY <1>4 DEF LookUp, LookForBuild, row, listing, asked, copies, InFlight, CloserStates
<1>5. CASE QuotaExceeded(r) \/ AnswerFails(r)
  BY <1>5 DEF QuotaExceeded, AnswerFails, row, disk, listing, asked, copies, InFlight,
              CloserStates
<1> QED
  BY <1>1, <1>2, <1>3, <1>4, <1>5 DEF Plain

\* An ordinary step moves one request that is not deleting anything, and leaves the
\* state, the clock, the lock and the original alone.
LEMMA OrdinarySteps ==
    ASSUME TypeOK, NEW r \in Requests, Ordinary(r)
    PROVE  /\ up
           /\ UNCHANGED <<state, expired, opening, lock, original, listed, listedAssets,
                          kind, base, met, up>>
           /\ pc[r] \in InFlight \ CloserStates /\ pc[r] # "copied"
           /\ pc'[r] \in (InFlight \cup Ended) \ (CloserStates \cup {"dead"})
           /\ pc'[r] = "copied" => kind[r] = "save"
           /\ pc'[r] = "done" => ~ IsClosing(r)
           /\ \A q \in Requests : q # r => pc'[q] = pc[q]
<1> USE DEF IsClosing
<1>1. CASE Plain(r)
  BY <1>1, PlainSteps DEF TypeOK, InFlight, Ended, CloserStates
<1>2. CASE StartWrite(r) \/ EndWrite(r)
  BY <1>2 DEF StartWrite, EndWrite, TypeOK, InFlight, Ended, CloserStates, row, listing,
              asked
<1>3. CASE CommitEdit(r)
  BY <1>3 DEF CommitEdit, IsChange, TypeOK, InFlight, Ended, CloserStates, disk, listing,
              asked
<1>4. CASE Answer(r)
  BY <1>4 DEF Answer, TypeOK, InFlight, Ended, CloserStates, row, disk, listing, asked
<1>5. ASSUME NEW doc \in Documents, AddOperation(r) \/ Undo(r) \/ Reset(r), Change(r, doc)
      PROVE  /\ up
             /\ UNCHANGED <<state, expired, opening, lock, original, listed, listedAssets,
                            kind, base, met, up>>
             /\ pc[r] \in InFlight \ CloserStates /\ pc[r] # "copied"
             /\ pc'[r] \in {"building", "built"}
             /\ \A q \in Requests : q # r => pc'[q] = pc[q]
  <2>1. up /\ pc[r] \in {"loaded", "probed"}
    BY <1>5 DEF AddOperation, Undo, Reset, Prepared
  <2> QED
    BY <1>5, <2>1 DEF Change, LookForBuild, TypeOK, InFlight, CloserStates, row, listing,
                      asked
<1> QED
  BY <1>1, <1>2, <1>3, <1>4, <1>5 DEF Ordinary, InFlight, Ended, CloserStates

\* An added operation, an undo and a reset make a document.
LEMMA ChangesAreOrdinary ==
    ASSUME TypeOK, NEW r \in Requests, AddOperation(r) \/ Undo(r) \/ Reset(r)
    PROVE  Ordinary(r)
<1>1. lops[r] \in Documents
  BY DEF TypeOK
<1> QED
  BY <1>1, DocumentOps DEF AddOperation, Undo, Reset, Ordinary

\* Every step is one of these, the ordinary ones taken together.
LEMMA StepKinds ==
    ASSUME TypeOK, [Next]_vars
    PROVE  \/ OpenCopy \/ OpenCommit \/ OpenFails
           \/ \E r \in Requests :
                 \/ Load(r) \/ Ordinary(r) \/ CloseFlush(r) \/ CloseScan(r)
                 \/ (\E v \in listed : RemoveFile(r, v)) \/ RemoveAssets(r)
                 \/ RemoveRoot(r) \/ CloseCommit(r) \/ Abandon(r)
           \/ Expire \/ Stop \/ Start \/ UNCHANGED vars
<1>1. ASSUME NEW r \in Requests, Handle(r)
      PROVE  \/ Ordinary(r) \/ CloseFlush(r) \/ CloseScan(r)
             \/ (\E v \in listed : RemoveFile(r, v)) \/ RemoveAssets(r)
             \/ RemoveRoot(r) \/ CloseCommit(r)
  BY <1>1, ChangesAreOrdinary DEF Handle, Ordinary, Plain
<1> QED
  BY <1>1 DEF Next

\* Each kind of step keeps a closed session without its original.
LEMMA FinalityStep == TypeOK /\ Finality /\ [Next]_vars => Finality'
<1> SUFFICES ASSUME TypeOK, Finality, [Next]_vars PROVE Finality'
  OBVIOUS
<1>1. ASSUME NEW r \in Requests, Ordinary(r) PROVE Finality'
  <2>1. opening = "done"
    BY <1>1, OrdinarySteps DEF Finality, InFlight
  <2> QED
    BY <1>1, <2>1, OrdinarySteps DEF Finality, CloserStates
<1>2. ASSUME NEW r \in Requests, Load(r) PROVE Finality'
  <2>1. \/ pc' = [pc EXCEPT ![r] = "loaded"]
        \/ pc' = [pc EXCEPT ![r] = "refused"]
    BY <1>2, LoadMoves DEF Loaded
  <2> QED
    BY <1>2, <2>1, LoadMoves DEF Finality, TypeOK
<1> USE DEF Finality, TypeOK
<1>3. CASE OpenCopy
  BY <1>3 DEF OpenCopy, row
<1>4. CASE OpenCommit
  BY <1>4 DEF OpenCommit, disk, listing
<1>5. CASE OpenFails
  BY <1>5 DEF OpenFails, row, disk, listing
<1>6. ASSUME NEW r \in Requests, CloseFlush(r) PROVE Finality'
  BY <1>6 DEF CloseFlush, row, disk, listing
<1>7. ASSUME NEW r \in Requests, CloseScan(r) PROVE Finality'
  BY <1>7 DEF CloseScan, row, disk
<1>8. ASSUME NEW r \in Requests, NEW v \in listed, RemoveFile(r, v) PROVE Finality'
  BY <1>8 DEF RemoveFile, row
<1>9. ASSUME NEW r \in Requests, RemoveAssets(r) PROVE Finality'
  BY <1>9 DEF RemoveAssets, row
<1>10. ASSUME NEW r \in Requests, RemoveRoot(r) PROVE Finality'
  BY <1>10 DEF RemoveRoot, row, listing
<1>11. ASSUME NEW r \in Requests, CloseCommit(r) PROVE Finality'
  BY <1>11 DEF CloseCommit, disk, listing
<1>12. ASSUME NEW r \in Requests, Abandon(r) PROVE Finality'
  BY <1>12 DEF Abandon, row, disk, listing, InFlight
<1>13. CASE Expire
  BY <1>13 DEF Expire, row, disk, listing
<1>14. CASE Stop
  BY <1>14 DEF Stop, row, disk, Active, InFlight
<1>15. CASE Start
  BY <1>15 DEF Start, SweepExpired, disk, listing
<1>16. CASE UNCHANGED vars
  BY <1>16 DEF vars, row, disk, listing
<1> QED
  BY StepKinds, <1>1, <1>2, <1>3, <1>4, <1>5, <1>6, <1>7, <1>8, <1>9, <1>10, <1>11,
     <1>12, <1>13, <1>14, <1>15, <1>16

\* ... and so does every behaviour.
LEMMA FinalityHolds == Spec => []Finality
<1>1. Init => Finality
  BY DEF Init, Finality
<1> QED
  BY <1>1, FinalityStep, TypeCorrect, PTL DEF Spec

\* Once a session is closed its original is gone, and nothing brings it back:
\* not an edit in flight, not a restart, not a crash.
THEOREM ClosedLosesOriginal == Spec => []ClosedHasNoOriginal
<1>1. Finality => ClosedHasNoOriginal
  BY DEF Finality, ClosedHasNoOriginal
<1> QED
  BY <1>1, FinalityHolds, PTL

\* The steps that write the row of a session that is being edited.
LEMMA RowSteps ==
    ASSUME TypeOK, [Next]_vars
    PROVE  \/ UNCHANGED row
           \/ \E r \in Requests : CommitEdit(r) \/ CloseCommit(r)
           \/ OpenCommit
           \/ Start /\ state = "open" /\ UNCHANGED <<ops, revision>>
<1>1. ASSUME NEW r \in Requests, Ordinary(r) PROVE CommitEdit(r) \/ UNCHANGED row
  BY <1>1, PlainSteps DEF Ordinary, StartWrite, EndWrite, Answer, Change, row
<1>2. ASSUME NEW r \in Requests, Load(r) PROVE UNCHANGED row
  BY <1>2, LoadMoves DEF row
<1>3. ASSUME NEW r \in Requests, CloseFlush(r) \/ CloseScan(r) \/ RemoveAssets(r)
                                \/ RemoveRoot(r) \/ Abandon(r)
      PROVE  UNCHANGED row
  BY <1>3 DEF CloseFlush, CloseScan, RemoveAssets, RemoveRoot, Abandon
<1>4. ASSUME NEW r \in Requests, NEW v \in listed, RemoveFile(r, v) PROVE UNCHANGED row
  BY <1>4 DEF RemoveFile
<1>5. CASE OpenCopy \/ OpenFails \/ Expire \/ Stop \/ UNCHANGED vars
  BY <1>5 DEF OpenCopy, OpenFails, Expire, Stop, vars
<1>6. CASE Start
  BY <1>6 DEF Start, row
<1> QED
  BY StepKinds, <1>1, <1>2, <1>3, <1>4, <1>5, <1>6

\* A closed session is final: nothing reopens it and nothing joins its log, however
\* many edits, saves and discards were in flight when it closed, and whatever
\* crashes.
THEOREM ClosedStaysClosed == Spec => ClosedIsFinal
<1>1. TypeOK /\ Finality /\ [Next]_vars
        => (state = "closed" => UNCHANGED row) \/ UNCHANGED vars
  <2> SUFFICES ASSUME TypeOK, Finality, [Next]_vars, state = "closed"
               PROVE  UNCHANGED row
    OBVIOUS
  <2>1. opening = "done" /\ ~ original
    BY DEF Finality
  <2>2. ASSUME NEW r \in Requests, CommitEdit(r) PROVE FALSE
    BY <2>1, <2>2 DEF CommitEdit
  <2>3. ASSUME NEW r \in Requests, CloseCommit(r) PROVE UNCHANGED row
    BY <2>3 DEF CloseCommit, row
  <2>4. ~ OpenCommit
    BY <2>1 DEF OpenCommit
  <2> QED
    BY <2>2, <2>3, <2>4, RowSteps
<1> QED
  BY <1>1, FinalityHolds, TypeCorrect, PTL DEF Spec, ClosedIsFinal

-----------------------------------------------------------------------------
\* Why an open session keeps its original until it expires: whoever deletes it
\* holds the row lock from before the deletion to the commit, or died in between.
KilledCloser(r) == pc[r] = "dead" /\ IsClosing(r)

Locking ==
    /\ \A r \in Requests : r \in lock <=> pc[r] \in CloserStates
    /\ \A q \in lock, r \in lock : q = r
    /\ \A r \in Requests : pc[r] = "copied" => kind[r] = "save"
    /\ \A r \in Requests : pc[r] \in CloserStates => IsClosing(r)
    /\ opening = "copied" => original
    /\ state = "open" /\ ~ expired /\ ~ original
         => \E r \in Requests : pc[r] \in CloserStates \/ KilledCloser(r)

\* Each kind of step keeps the deletion under the row lock.
LEMMA LockingStep == TypeOK /\ Finality /\ Locking /\ [Next]_vars => Locking'
<1> SUFFICES ASSUME TypeOK, Finality, Locking, [Next]_vars
             PROVE  Locking'
  OBVIOUS
<1>1. ASSUME NEW r \in Requests, Ordinary(r) PROVE Locking'
  <2>1. /\ UNCHANGED <<state, expired, opening, lock, original, kind>>
        /\ pc[r] \notin CloserStates /\ pc[r] # "dead"
        /\ pc'[r] \notin CloserStates
        /\ pc'[r] = "copied" => kind[r] = "save"
        /\ \A q \in Requests : q # r => pc'[q] = pc[q]
    BY <1>1, OrdinarySteps DEF InFlight
  <2>2. \A q \in Requests : pc[q] \in CloserStates \/ KilledCloser(q)
                              => pc'[q] \in CloserStates \/ KilledCloser(q)'
    BY <2>1 DEF KilledCloser, IsClosing
  <2>3. state = "open" /\ ~ expired /\ ~ original
          => \E q \in Requests : pc'[q] \in CloserStates \/ KilledCloser(q)'
    BY <2>2 DEF Locking
  <2> QED
    BY <2>1, <2>3 DEF Locking, IsClosing
<1>2. ASSUME NEW r \in Requests, Load(r) PROVE Locking'
  <2>1. /\ pc[r] = "idle" /\ pc'[r] \in {"loaded", "refused"}
        /\ \A q \in Requests : q # r => pc'[q] = pc[q] /\ kind'[q] = kind[q]
        /\ UNCHANGED <<state, expired, opening, lock, original>>
    BY <1>2, LoadMoves DEF Loaded, TypeOK
  <2>2. \A q \in Requests : pc[q] \in CloserStates \/ KilledCloser(q)
                              => pc'[q] \in CloserStates \/ KilledCloser(q)'
    BY <2>1 DEF KilledCloser, IsClosing, CloserStates
  <2>3. state = "open" /\ ~ expired /\ ~ original
          => \E q \in Requests : pc'[q] \in CloserStates \/ KilledCloser(q)'
    BY <2>2 DEF Locking
  <2> QED
    BY <2>1, <2>3 DEF Locking, IsClosing, CloserStates
<1> USE DEF Locking, TypeOK, KilledCloser, IsClosing, CloserStates
<1>3. CASE OpenCopy
  BY <1>3 DEF OpenCopy, row, asked
<1>4. CASE OpenCommit
  BY <1>4 DEF OpenCommit, disk, asked
<1>5. CASE OpenFails
  BY <1>5 DEF OpenFails, row, disk, asked
<1>6. ASSUME NEW r \in Requests, CloseFlush(r) PROVE Locking'
  BY <1>6 DEF CloseFlush, row, disk, asked
<1>7. ASSUME NEW r \in Requests, CloseScan(r) PROVE Locking'
  BY <1>7 DEF CloseScan, row, disk, asked
<1>8. ASSUME NEW r \in Requests, NEW v \in listed, RemoveFile(r, v) PROVE Locking'
  BY <1>8 DEF RemoveFile, row, asked, Finality
<1>9. ASSUME NEW r \in Requests, RemoveAssets(r) PROVE Locking'
  BY <1>9 DEF RemoveAssets, row, asked
<1>10. ASSUME NEW r \in Requests, RemoveRoot(r) PROVE Locking'
  BY <1>10 DEF RemoveRoot, row, asked
<1>11. ASSUME NEW r \in Requests, CloseCommit(r) PROVE Locking'
  BY <1>11 DEF CloseCommit, disk, asked
<1>12. CASE Expire
  BY <1>12 DEF Expire, row, disk, asked
<1>13. CASE Stop
  <2>1. lock' = {} /\ \A r \in Requests : pc'[r] \notin CloserStates \cup {"copied"}
    BY <1>13 DEF Stop, Active, InFlight
  <2>2. \A r \in Requests : pc[r] \in CloserStates => KilledCloser(r)'
    BY <1>13 DEF Stop, Active, InFlight, asked
  <2>3. \A r \in Requests : KilledCloser(r) => KilledCloser(r)'
    BY <1>13 DEF Stop, Active, InFlight, asked
  <2>4. opening' # "copied" /\ UNCHANGED <<state, expired, original>>
    BY <1>13 DEF Stop, row, disk
  <2> QED
    BY <2>1, <2>2, <2>3, <2>4 DEF Locking
<1>14. CASE Start
  <2>1. UNCHANGED <<expired, opening, lock, pc, kind>>
    BY <1>14 DEF Start, asked
  <2>2. CASE state = "open" /\ expired
    <3>1. opening # "copied"
      BY <2>2 DEF Finality
    <3> QED
      BY <2>1, <2>2, <3>1
  <2>3. CASE ~ (state = "open" /\ expired)
    <3>1. UNCHANGED <<state, original>>
      BY <1>14, <2>3 DEF Start, disk
    <3> QED
      BY <2>1, <3>1
  <2> QED
    BY <2>2, <2>3
<1>15. ASSUME NEW r \in Requests, Abandon(r) PROVE Locking'
  <2>1. /\ pc' = [pc EXCEPT ![r] = "dead"] /\ lock' = lock \ {r}
        /\ UNCHANGED <<state, expired, original, opening, kind>>
    BY <1>15 DEF Abandon, row, disk, asked
  <2>2. \A q \in Requests : pc[q] \in CloserStates
                              => KilledCloser(q)' \/ pc'[q] \in CloserStates
    BY <2>1
  <2>3. \A q \in Requests : KilledCloser(q) => KilledCloser(q)'
    BY <2>1
  <2> QED
    BY <2>1, <2>2, <2>3
<1>16. CASE UNCHANGED vars
  BY <1>16 DEF vars, row, disk, asked
<1> QED
  BY StepKinds, <1>1, <1>2, <1>3, <1>4, <1>5, <1>6, <1>7, <1>8, <1>9, <1>10, <1>11,
     <1>12, <1>13, <1>14, <1>15, <1>16

\* ... and so does every behaviour.
LEMMA LockingHolds == Spec => []Locking
<1>1. Init => Locking
  BY DEF Init, Locking, CloserStates
<1> QED
  BY <1>1, LockingStep, FinalityHolds, TypeCorrect, PTL DEF Spec

\* An open session whose time is not up has its original, so every request on it
\* can load it, project it and build from it: the one exception is a session
\* whose closer died between the deletion and the commit.
THEOREM OpenKeepsOriginal == Spec => []OpenHasOriginal
<1>1. TypeOK /\ Locking => OpenHasOriginal
  BY DEF TypeOK, Locking, OpenHasOriginal, KilledCloser
<1> QED
  BY <1>1, LockingHolds, TypeCorrect, PTL

-----------------------------------------------------------------------------
\* Why a charged save that ends has handed something out: it is charged on the
\* way to its build, loses the charge with the build, and closes the session only
\* with a document in hand.
Charged ==
    /\ \A r \in billed : /\ kind[r] = "save"
                         /\ pc[r] \notin {"idle", "loaded", "refused", "failed"}
    /\ \A r \in Requests :
          pc[r] \in {"copied", "done"} \cup CloserStates /\ kind[r] = "save"
            => result[r].status # "none"
    /\ \A r \in Requests : pc[r] \in {"stored", "probed"} => kind[r] = "image"

\* Each kind of step keeps the charges of the failed saves back.
LEMMA ChargedStep == TypeOK /\ Charged /\ [Next]_vars => Charged'
<1> SUFFICES ASSUME TypeOK, Charged, [Next]_vars PROVE Charged'
  OBVIOUS
<1> USE DEF Charged, CloserStates
<1>0. billed \subseteq Requests
  BY DEF TypeOK
<1>1. ASSUME NEW r \in Requests, Load(r) PROVE Charged'
  <2>1. /\ pc[r] = "idle" /\ pc'[r] \in {"loaded", "refused"}
        /\ \A q \in Requests : q # r => pc'[q] = pc[q] /\ kind'[q] = kind[q]
        /\ UNCHANGED <<result, billed>>
    BY <1>1, LoadMoves DEF Loaded, TypeOK
  <2> QED
    BY <1>0, <2>1
\* A request that moves without an answer or a charge of its own.
<1>2. ASSUME NEW r \in Requests, UNCHANGED <<kind, result>>,
             \A q \in Requests : q # r => pc'[q] = pc[q],
             \/ billed' = billed /\ (r \in billed => pc'[r] \notin {"idle", "loaded", "refused", "failed"})
             \/ billed' = billed \ {r},
             \/ pc'[r] \notin {"copied", "done"} \cup CloserStates
             \/ pc[r] \in {"copied"} \cup CloserStates
             \/ kind[r] # "save",
             pc'[r] \in {"stored", "probed"} => kind[r] = "image"
      PROVE  Charged'
  BY <1>0, <1>2
<1>3. ASSUME NEW r \in Requests, OpenSource(r) \/ StartWrite(r) \/ EndWrite(r) \/ BuildFails(r)
      PROVE  Charged'
  BY <1>2, <1>3 DEF OpenSource, StartWrite, EndWrite, BuildFails, TypeOK, asked
<1>4. ASSUME NEW r \in Requests, StoreAsset(r) \/ ProbeAsset(r) PROVE Charged'
  <2>1. kind[r] = "image"
    BY <1>4 DEF StoreAsset, ProbeAsset
  <2> QED
    BY <1>2, <1>4, <2>1 DEF StoreAsset, ProbeAsset, TypeOK, asked
<1>5. ASSUME NEW r \in Requests, NEW doc, Change(r, doc), IsChange(r) PROVE Charged'
  BY <1>2, <1>5 DEF Change, LookForBuild, IsChange, TypeOK, asked
<1>6. ASSUME NEW r \in Requests, RefuseEdit(r) \/ EditFails(r) \/ CommitEdit(r)
      PROVE  Charged'
  <2>1. kind[r] # "save"
    BY <1>6 DEF RefuseEdit, Prepared, EditFails, CommitEdit, IsChange
  <2> QED
    BY <1>2, <1>6, <2>1 DEF RefuseEdit, EditFails, CommitEdit, TypeOK, asked
<1>7. ASSUME NEW r \in Requests, QuotaExceeded(r) PROVE Charged'
  BY <1>2, <1>7 DEF QuotaExceeded, TypeOK, asked
<1>8. ASSUME NEW r \in Requests, LookUp(r) PROVE Charged'
  <2>1. /\ UNCHANGED <<kind, result>>
        /\ \A q \in Requests : q # r => pc'[q] = pc[q]
        /\ pc'[r] \in {"building", "built"}
        /\ billed' = IF kind[r] = "save" THEN billed \cup {r} ELSE billed
    BY <1>8 DEF LookUp, LookForBuild, TypeOK, asked
  <2> QED
    BY <1>0, <2>1
<1>9. ASSUME NEW r \in Requests, Answer(r) PROVE Charged'
  <2>1. /\ UNCHANGED <<kind, billed>>
        /\ \A q \in Requests : q # r => pc'[q] = pc[q] /\ result'[q] = result[q]
        /\ pc'[r] \in {"done", "copied"}
    BY <1>9 DEF Answer, TypeOK, asked
  <2>2. PICK s \in {"whole", "torn"} :
          result' = [result EXCEPT ![r] = [status |-> s, doc |-> DocumentAt(lrev[r])]]
    BY <1>9 DEF Answer
  <2>3. result'[r].status # "none"
    BY <2>2 DEF TypeOK
  <2> QED
    BY <1>0, <2>1, <2>3
<1>10. ASSUME NEW r \in Requests, AnswerFails(r) PROVE Charged'
  BY <1>2, <1>10 DEF AnswerFails, TypeOK, asked
<1>11. ASSUME NEW r \in Requests, CloseFlush(r) \/ CloseScan(r) \/ RemoveRoot(r) \/ CloseCommit(r)
       PROVE  Charged'
  BY <1>2, <1>11 DEF CloseFlush, CloseScan, RemoveRoot, CloseCommit, TypeOK, asked
<1>12. ASSUME NEW r \in Requests,
              RemoveAssets(r) \/ \E v \in listed : RemoveFile(r, v)
       PROVE  Charged'
  BY <1>12 DEF RemoveAssets, RemoveFile, asked
<1>13. ASSUME NEW r \in Requests, Abandon(r) PROVE Charged'
  BY <1>2, <1>13 DEF Abandon, TypeOK, asked
<1>14. CASE OpenCopy \/ OpenCommit \/ OpenFails \/ Expire \/ Start \/ UNCHANGED vars
  BY <1>14 DEF OpenCopy, OpenCommit, OpenFails, Expire, Start, vars, asked
<1>15. CASE Stop
  <2>1. /\ UNCHANGED <<kind, result, billed>>
        /\ \A q \in Requests : pc'[q] = "dead" \/ pc'[q] = pc[q]
    BY <1>15 DEF Stop, TypeOK, asked
  <2> QED
    BY <1>0, <2>1
<1>16. ASSUME NEW r \in Requests, AddOperation(r) \/ Undo(r) \/ Reset(r) PROVE Charged'
  BY <1>5, <1>16 DEF AddOperation, Prepared, Undo, Reset, IsChange
<1> QED
  BY <1>1, <1>3, <1>4, <1>6, <1>7, <1>8, <1>9, <1>10, <1>11, <1>12, <1>13, <1>14, <1>15,
     <1>16
  DEF Next, Handle

\* ... and so does every behaviour.
LEMMA ChargedHolds == Spec => []Charged
<1>1. Init => Charged
  BY DEF Init, Charged, CloserStates
<1> QED
  BY <1>1, ChargedStep, TypeCorrect, PTL DEF Spec

\* A save that came to its own end and is charged for was answered with a
\* document, whoever deleted what under it and whatever else was in flight.
THEOREM ChargedSavesAnswered == Spec => []BilledSavesAnswered
<1>1. TypeOK /\ Charged => BilledSavesAnswered
  BY DEF TypeOK, Charged, BilledSavesAnswered, Ended
<1> QED
  BY <1>1, ChargedHolds, TypeCorrect, PTL

-----------------------------------------------------------------------------
\* What the history says of the requests: any two that are in flight, or closed the
\* session, were in flight together.
Enders == {r \in Requests : pc[r] \in InFlight \/ (pc[r] = "done" /\ IsClosing(r))}

Acquainted ==
    /\ \A r \in Requests : pc[r] = "idle" => kind[r] = "edit" /\ met[r] = {}
    /\ \A r \in Requests : pc[r] = "idle" => result[r].status = "none"
    /\ \A r \in Requests : \A q \in met[r] : pc[q] # "idle"
    /\ \A r \in Requests : pc[r] = "done" /\ IsClosing(r) => state = "closed"
    /\ \A p, q \in Enders : p # q => q \in met[p]
    /\ ~ up => Active = {}

\* What a step that is neither a load nor an ordinary one may do: it writes no copy
\* and no build, and ends requests or takes closers further.
Rest ==
    /\ UNCHANGED <<ops, revision, kind, base, met, lops, lrev, result>>
    /\ state = "closed" => state' = "closed"
    /\ \A v \in DOMAIN builds' : v \in DOMAIN builds /\ builds'[v] = builds[v]
    /\ original' => original \/ opening = "no"
    /\ opening = "done" => opening' = "done"
    /\ \A q \in Requests :
          \/ pc'[q] = pc[q]
          \/ pc[q] \in InFlight /\ pc'[q] = "dead"
          \/ /\ pc[q] \in InFlight /\ IsClosing(q)
             /\ pc'[q] \in CloserStates \/ (pc'[q] = "done" /\ state' = "closed")
    /\ up' \/ Active' = {} \/ UNCHANGED <<up, pc>>

LEMMA RestSteps ==
    ASSUME TypeOK, Finality, Locking, [Next]_vars,
           \A r \in Requests : ~ Load(r) /\ ~ Ordinary(r)
    PROVE  Rest
<1> USE DEF TypeOK, InFlight, CloserStates, Rest
<1>1. CASE OpenCopy \/ OpenCommit \/ OpenFails \/ Expire \/ UNCHANGED vars
  BY <1>1 DEF OpenCopy, OpenCommit, OpenFails, Expire, vars, row, disk, listing, asked,
              copies, Finality
<1>2. ASSUME NEW r \in Requests, CloseFlush(r) PROVE Rest
  BY <1>2 DEF CloseFlush, row, disk, asked, copies, Locking, IsClosing
<1>3. ASSUME NEW r \in Requests, CloseScan(r) PROVE Rest
  BY <1>3 DEF CloseScan, row, disk, asked, copies, Locking
<1>4. ASSUME NEW r \in Requests, NEW v \in listed, RemoveFile(r, v) PROVE Rest
  BY <1>4 DEF RemoveFile, row, asked, copies
<1>5. ASSUME NEW r \in Requests, RemoveAssets(r) PROVE Rest
  BY <1>5 DEF RemoveAssets, row, asked, copies
<1>6. ASSUME NEW r \in Requests, RemoveRoot(r) PROVE Rest
  BY <1>6 DEF RemoveRoot, row, asked, copies, Locking
<1>7. ASSUME NEW r \in Requests, CloseCommit(r) PROVE Rest
  BY <1>7 DEF CloseCommit, disk, asked, copies, Locking
<1>8. ASSUME NEW r \in Requests, Abandon(r) PROVE Rest
  BY <1>8 DEF Abandon, row, disk, asked, copies
<1>9. CASE Stop
  <2>1. Active' = {}
    BY <1>9 DEF Stop, Active
  <2>2. \A q \in Requests : pc'[q] = pc[q] \/ (pc[q] \in InFlight /\ pc'[q] = "dead")
    BY <1>9 DEF Stop, Active
  <2>3. opening = "done" => opening' = "done"
    BY <1>9 DEF Stop
  <2> QED
    BY <1>9, <2>1, <2>2, <2>3 DEF Stop, row, disk, asked, copies
<1>10. CASE Start
  <2>1. /\ UNCHANGED <<ops, revision, kind, base, met, lops, lrev, result, opening, pc>>
        /\ up'
    BY <1>10 DEF Start, asked, copies
  <2>2. CASE state = "open" /\ expired
    <3>1. DOMAIN builds' = {} /\ original' = FALSE
      BY <1>10, <2>2 DEF Start, SweepExpired, NoFiles
    <3> QED
      BY <2>1, <2>2, <3>1
  <2>3. CASE ~ (state = "open" /\ expired)
    BY <1>10, <2>1, <2>3 DEF Start, disk
  <2> QED
    BY <2>2, <2>3
<1> QED
  BY StepKinds, <1>1, <1>2, <1>3, <1>4, <1>5, <1>6, <1>7, <1>8, <1>9, <1>10

\* Every kind of step keeps the requests acquainted.
LEMMA AcquaintedStep == TypeOK /\ Finality /\ Locking /\ Acquainted /\ [Next]_vars => Acquainted'
<1> SUFFICES ASSUME TypeOK, Finality, Locking, Acquainted, [Next]_vars
             PROVE  Acquainted'
  OBVIOUS
<1>1. ASSUME NEW r \in Requests, Ordinary(r) PROVE Acquainted'
  <2>1. /\ up /\ up' = up /\ UNCHANGED <<state, kind, met>>
        /\ pc[r] \in InFlight
        /\ pc'[r] \in InFlight \cup Ended
        /\ pc'[r] = "done" => ~ IsClosing(r)
        /\ \A q \in Requests : q # r => pc'[q] = pc[q]
    BY <1>1, OrdinarySteps
  <2>2. Enders' \subseteq Enders
    BY <2>1 DEF Enders, IsClosing
  <2>3. pc[r] # "idle" /\ pc'[r] # "idle"
    BY <2>1 DEF InFlight, Ended
  <2>4. \A q \in Requests : pc'[q] = "idle" => result'[q] = result[q]
    <3>1. CASE Plain(r)
      BY <3>1, PlainSteps
    <3>2. CASE Answer(r)
      BY <3>2, <2>3 DEF Answer, TypeOK
    <3>3. CASE ~ Plain(r) /\ ~ Answer(r)
      BY <1>1, <3>3 DEF Ordinary, StartWrite, EndWrite, CommitEdit, Change
    <3> QED
      BY <3>1, <3>2, <3>3
  <2>5. \A q \in Requests : \A a \in met'[q] : pc'[a] # "idle"
    BY <2>1, <2>3 DEF Acquainted, TypeOK
  <2>6. \A q \in Requests : pc'[q] = "idle" => pc[q] = "idle"
    BY <2>1, <2>3
  <2>7. \A q \in Requests : pc'[q] = "done" /\ IsClosing(q) => pc[q] = "done"
    BY <2>1
  <2> QED
    BY <2>1, <2>2, <2>4, <2>5, <2>6, <2>7 DEF Acquainted, IsClosing
<1>2. ASSUME NEW r \in Requests, Load(r) PROVE Acquainted'
  <2>1. /\ up /\ up' = up /\ UNCHANGED <<state, result>> /\ pc[r] = "idle"
    BY <1>2, LoadMoves
  <2>2. CASE CanLoad /\ Loaded(r)
    <3>1. /\ pc' = [pc EXCEPT ![r] = "loaded"]
          /\ \A q \in Requests : q # r => kind'[q] = kind[q]
          /\ met'[r] = Active
          /\ \A q \in Requests : q # r => met'[q] = IF q \in Active THEN met[q] \cup {r} ELSE met[q]
      BY <2>2 DEF Loaded, TypeOK
    <3>2. Enders = Active
      BY <2>2 DEF Acquainted, CanLoad, Enders, Active
    <3>3. Enders' \subseteq Active \cup {r}
      BY <3>1, <3>2 DEF Enders, IsClosing, TypeOK
    <3>4. \A a \in Active : a \in Requests /\ pc[a] # "idle" /\ a # r
      BY <2>1 DEF Active, InFlight
    <3>5. \A a, b \in Enders' : a # b => b \in met'[a]
      <4>1. \A a \in Active : r \in met'[a] /\ met[a] \subseteq met'[a]
        BY <3>1, <3>4
      <4>2. \A a, b \in Active : a # b => b \in met[a]
        BY <3>2 DEF Acquainted
      <4> QED
        BY <3>1, <3>3, <4>1, <4>2
    <3>6. \A q \in Requests : pc'[q] = IF q = r THEN "loaded" ELSE pc[q]
      BY <3>1 DEF TypeOK
    <3>7. \A q \in Requests : \A a \in met'[q] : pc'[a] # "idle"
      <4>1. \A q \in Requests : met'[q] \subseteq met[q] \cup Active \cup {r}
        BY <3>1
      <4>2. \A q \in Requests : \A a \in met[q] : a \in Requests /\ pc[a] # "idle"
        BY DEF Acquainted, TypeOK
      <4> QED
        BY <3>4, <3>6, <4>1, <4>2
    <3>8. \A q \in Requests : pc'[q] = "idle" => q # r /\ q \notin Active
      BY <3>4, <3>6
    <3>9. \A q \in Requests :
             pc'[q] = "idle" => /\ kind'[q] = "edit" /\ met'[q] = {}
                                /\ result'[q].status = "none"
      <4>1. ASSUME NEW q \in Requests, pc'[q] = "idle"
            PROVE  q # r /\ q \notin Active /\ pc[q] = "idle"
        BY <3>6, <3>8, <4>1
      <4>2. \A q \in Requests : pc'[q] = "idle" => kind'[q] = "edit" /\ met'[q] = {}
        BY <3>1, <4>1 DEF Acquainted
      <4>3. \A q \in Requests : pc'[q] = "idle" => result'[q].status = "none"
        BY <2>1, <4>1 DEF Acquainted
      <4> QED
        BY <4>2, <4>3
    <3>10. \A q \in Requests : pc'[q] = "done" /\ IsClosing(q)' => state' = "closed"
      BY <2>1, <3>1, <3>6 DEF Acquainted, IsClosing
    <3> QED
      BY <2>1, <3>5, <3>7, <3>9, <3>10 DEF Acquainted
  <2>3. CASE pc' = [pc EXCEPT ![r] = "refused"] /\ UNCHANGED <<kind, base, met, lops, lrev>>
    <3>1. Enders' \subseteq Enders /\ Active' = Active
      BY <2>1, <2>3 DEF Enders, Active, IsClosing, TypeOK, InFlight
    <3> QED
      BY <2>1, <2>3, <3>1 DEF Acquainted, IsClosing, TypeOK
  <2> QED
    BY <1>2, <2>2, <2>3, LoadMoves
<1>3. CASE \A r \in Requests : ~ Load(r) /\ ~ Ordinary(r)
  <2>1. Rest
    BY <1>3, RestSteps
  <2>2. Enders' \subseteq Enders
    BY <2>1 DEF Rest, Enders, IsClosing, CloserStates, InFlight
  <2>3. \A q \in Requests : pc'[q] = "idle" <=> pc[q] = "idle"
    BY <2>1 DEF Rest, InFlight, CloserStates
  <2>4. \A q \in Requests : pc'[q] = "done" /\ IsClosing(q) => state' = "closed"
    BY <2>1 DEF Rest, Acquainted, CloserStates
  <2>5. ~ up' => Active' = {}
    BY <2>1 DEF Rest, Acquainted, Active
  <2> QED
    BY <2>1, <2>2, <2>3, <2>4, <2>5 DEF Rest, Acquainted, IsClosing, TypeOK
<1> QED
  BY <1>1, <1>2, <1>3

\* ... and so does every behaviour.
LEMMA AcquaintedHolds == Spec => []Acquainted
<1>1. Init => Acquainted
  BY DEF Init, Acquainted, Enders, Active, InFlight, NoResult
<1> QED
  BY <1>1, AcquaintedStep, LockingHolds, FinalityHolds, TypeCorrect, PTL DEF Spec

\* A session is charged twice only by saves that were in flight together: one that
\* is sent after the first one ended finds the session closed, or finds the first
\* one failed and its charge given back.
THEOREM RepeatsAreFree == Spec => []RepeatedSaveNotCharged
<1>1. TypeOK /\ Charged /\ Acquainted => RepeatedSaveNotCharged
  <2> SUFFICES ASSUME TypeOK, Charged, Acquainted,
                      NEW p \in billed, NEW q \in billed, p # q,
                      pc[p] # "dead", pc[q] # "dead"
               PROVE  q \in met[p]
    BY DEF RepeatedSaveNotCharged
  <2>1. \A r \in billed : pc[r] # "dead" => r \in Enders
    BY DEF Charged, Enders, IsClosing, TypeOK, Ended
  <2> QED
    BY <2>1 DEF Acquainted
<1> QED
  BY <1>1, AcquaintedHolds, ChargedHolds, TypeCorrect, PTL

-----------------------------------------------------------------------------
\* Why a close that met nobody who writes to the directory leaves nothing: what
\* rmtree listed is all there is, and nobody adds to it.
Tidy(p) == \A q \in met[p] : kind[q] = "discard"

Empty == ~ root /\ ~ original /\ DOMAIN builds = {} /\ ~ adir

Cleaned ==
    /\ \A r \in Requests :
          kind[r] = "discard" => pc[r] \in {"loaded"} \cup CloserStates \cup Ended
    /\ \A p \in Requests :
          IsClosing(p) /\ Tidy(p) =>
             /\ pc[p] = "deleting" => /\ DOMAIN builds \subseteq listed
                                      /\ original => 0 \in listed
                                      /\ adir => listedAssets
             /\ pc[p] \in {"deleted", "done"} => Empty
    /\ state = "closed" /\ (\A p \in Requests : ~ (pc[p] = "done" /\ IsClosing(p)))
          => Empty /\ Active = {}

\* Only a request that is no discard takes an ordinary step.
LEMMA NoOrdinaryDiscard ==
    ASSUME TypeOK, Cleaned, NEW r \in Requests, Ordinary(r)
    PROVE  kind[r] # "discard"
<1> SUFFICES ASSUME kind[r] = "discard" PROVE FALSE
  OBVIOUS
<1>1. pc[r] = "loaded"
  BY OrdinarySteps DEF Cleaned, InFlight, Ended, CloserStates
<1> QED
  BY <1>1
  DEF Ordinary, Plain, OpenSource, BuildFails, StoreAsset, ProbeAsset, RefuseEdit,
      Prepared, EditFails, LookUp, QuotaExceeded, AnswerFails, StartWrite, EndWrite,
      CommitEdit, Answer, AddOperation, Undo, Reset

\* The closers of a session take their turns.
LEMMA OneCloser ==
    ASSUME TypeOK, Locking, NEW p \in Requests, NEW q \in Requests,
           pc[p] \in CloserStates, pc[q] \in CloserStates
    PROVE  p = q
  BY DEF Locking, TypeOK

\* Every kind of step keeps the directory of a tidy close empty.
LEMMA CleanedStep ==
    TypeOK /\ Finality /\ Locking /\ Acquainted /\ Cleaned /\ [Next]_vars => Cleaned'
<1> SUFFICES ASSUME TypeOK, Finality, Locking, Acquainted, Cleaned, [Next]_vars
             PROVE  Cleaned'
  OBVIOUS
<1>1. ASSUME NEW r \in Requests, Ordinary(r) PROVE Cleaned'
  <2>1. /\ UNCHANGED <<state, kind, met>>
        /\ pc[r] \in InFlight \ CloserStates
        /\ pc'[r] \in (InFlight \cup Ended) \ CloserStates
        /\ pc'[r] = "done" => ~ IsClosing(r)
        /\ \A q \in Requests : q # r => pc'[q] = pc[q]
        /\ kind[r] # "discard"
    BY <1>1, OrdinarySteps, NoOrdinaryDiscard
  <2>2. ASSUME NEW p \in Requests, IsClosing(p), Tidy(p),
               pc'[p] \in {"deleting", "deleted", "done"}
        PROVE  FALSE
    <3>1. p # r /\ pc[p] \in {"deleting", "deleted", "done"}
      BY <2>1, <2>2 DEF CloserStates
    <3>2. p \in Enders /\ r \in Enders
      BY <2>1, <2>2, <3>1 DEF Enders, InFlight
    <3>3. r \in met[p]
      BY <3>1, <3>2 DEF Acquainted
    <3> QED
      BY <2>1, <2>2, <3>3 DEF Tidy
  <2>3. ~ (state' = "closed" /\ \A p \in Requests : ~ (pc'[p] = "done" /\ IsClosing(p)))
    <3>1. r \in Active
      BY <2>1 DEF Active
    <3>2. pc[r] # "done"
      BY <2>1 DEF InFlight
    <3> QED
      BY <2>1, <3>1, <3>2 DEF Cleaned
  <2> QED
    BY <2>1, <2>2, <2>3 DEF Cleaned, Tidy, IsClosing
<1>2. ASSUME NEW r \in Requests, Load(r) PROVE Cleaned'
  <2>1. /\ pc[r] = "idle" /\ opening = "done"
        /\ UNCHANGED <<state, root, original, builds, adir, listed, listedAssets>>
        /\ \A q \in Requests : pc[q] # "deleting"
    BY <1>2, LoadMoves
  <2>2. CASE CanLoad /\ Loaded(r)
    <3>1. /\ \A q \in Requests : pc'[q] = IF q = r THEN "loaded" ELSE pc[q]
          /\ \A q \in Requests : q # r => kind'[q] = kind[q]
          /\ \A q \in Requests : q # r => met[q] \subseteq met'[q]
      BY <2>2 DEF Loaded, TypeOK
    <3>2. \A q \in Requests : \A a \in met[q] : a # r /\ a \in Requests
      BY <2>1 DEF Acquainted, TypeOK
    <3>3. ASSUME NEW p \in Requests, IsClosing(p)', Tidy(p)',
                 pc'[p] \in {"deleting", "deleted", "done"}
          PROVE  pc'[p] # "deleting" /\ Empty
      <4>1. p # r /\ pc[p] = pc'[p] /\ IsClosing(p)
        BY <3>1, <3>3 DEF IsClosing
      <4>2. Tidy(p)
        BY <3>1, <3>2, <3>3, <4>1 DEF Tidy
      <4> QED
        BY <2>1, <3>3, <4>1, <4>2 DEF Cleaned
    <3>4. state' # "closed"
      BY <2>1, <2>2 DEF CanLoad
    <3>5. \A q \in Requests :
             kind'[q] = "discard" => pc'[q] \in {"loaded"} \cup CloserStates \cup Ended
      BY <3>1 DEF Cleaned
    <3> QED
      BY <2>1, <3>3, <3>4, <3>5 DEF Cleaned, Empty
  <2>3. CASE pc' = [pc EXCEPT ![r] = "refused"] /\ UNCHANGED <<kind, base, met, lops, lrev>>
    <3>1. Active' = Active
      BY <2>1, <2>3 DEF Active, TypeOK, InFlight
    <3> QED
      BY <2>1, <2>3, <3>1 DEF Cleaned, Tidy, Empty, IsClosing, TypeOK, Ended
  <2> QED
    BY <1>2, <2>2, <2>3, LoadMoves
<1> USE DEF Cleaned, Tidy, IsClosing, TypeOK
\* The steps of a closer, who is alone in being one.
<1>3. ASSUME NEW r \in Requests, CloseFlush(r) PROVE Cleaned'
  <2>1. Active' = Active
    BY <1>3 DEF CloseFlush, Active, InFlight
  <2> QED
    BY <1>3, <2>1 DEF CloseFlush, row, disk, listing, asked, Empty, CloserStates
<1>4. ASSUME NEW r \in Requests, CloseScan(r) PROVE Cleaned'
  <2>1. Active' = Active
    BY <1>4 DEF CloseScan, Active, InFlight
  <2>2. \A p \in Requests : p # r => pc[p] \notin CloserStates
    BY <1>4, OneCloser DEF CloseScan, CloserStates
  <2> QED
    BY <1>4, <2>1, <2>2 DEF CloseScan, row, disk, asked, Empty, CloserStates
<1>5. ASSUME NEW r \in Requests, NEW v \in listed, RemoveFile(r, v) PROVE Cleaned'
  <2>1. Active' = Active
    BY <1>5 DEF RemoveFile, Active
  <2>2. \A p \in Requests : p # r => pc[p] \notin CloserStates
    BY <1>5, OneCloser DEF RemoveFile, CloserStates
  <2>3. DOMAIN builds' = DOMAIN builds \ {v}
    BY <1>5 DEF RemoveFile
  <2> QED
    BY <1>5, <2>1, <2>2, <2>3 DEF RemoveFile, row, asked, Empty, CloserStates
<1>6. ASSUME NEW r \in Requests, RemoveAssets(r) PROVE Cleaned'
  <2>1. Active' = Active
    BY <1>6 DEF RemoveAssets, Active
  <2>2. \A p \in Requests : p # r => pc[p] \notin CloserStates
    BY <1>6, OneCloser DEF RemoveAssets, CloserStates
  <2> QED
    BY <1>6, <2>1, <2>2 DEF RemoveAssets, row, asked, Empty, CloserStates
<1>7. ASSUME NEW r \in Requests, RemoveRoot(r) PROVE Cleaned'
  <2>1. Active' = Active
    BY <1>7 DEF RemoveRoot, Active, InFlight
  <2>2. \A p \in Requests : p # r => pc[p] \notin CloserStates
    BY <1>7, OneCloser DEF RemoveRoot, CloserStates
  <2>3. /\ pc[r] = "deleting" /\ listed = {} /\ ~ listedAssets
        /\ pc' = [pc EXCEPT ![r] = "deleted"]
        /\ root' = (original \/ DOMAIN builds # {} \/ adir)
        /\ UNCHANGED <<state, original, builds, adir, listed, listedAssets, kind, met>>
    BY <1>7 DEF RemoveRoot, row, listing, asked
  <2>4. IsClosing(r) /\ Tidy(r) => Empty'
    BY <2>3 DEF Empty
  <2>5. Empty => Empty'
    BY <2>3 DEF Empty
  <2> QED
    BY <2>1, <2>2, <2>3, <2>4, <2>5 DEF CloserStates
<1>8. ASSUME NEW r \in Requests, CloseCommit(r) PROVE Cleaned'
  <2>1. /\ pc[r] = "deleted" /\ pc' = [pc EXCEPT ![r] = "done"]
        /\ UNCHANGED <<root, original, builds, adir, listed, listedAssets, kind, met>>
        /\ IsClosing(r)
    BY <1>8 DEF CloseCommit, disk, listing, asked, Locking, CloserStates
  <2>2. pc'[r] = "done" /\ IsClosing(r)'
    BY <2>1
  <2> QED
    BY <2>1, <2>2 DEF Empty, CloserStates, Ended
<1>9. ASSUME NEW r \in Requests, Abandon(r) PROVE Cleaned'
  <2>1. Active' \subseteq Active /\ r \in Active
    BY <1>9 DEF Abandon, Active, InFlight
  <2>2. pc[r] # "done"
    BY <2>1 DEF Active, InFlight
  <2> QED
    BY <1>9, <2>1, <2>2 DEF Abandon, row, disk, listing, asked, Empty, Ended
<1>10. CASE OpenCopy \/ OpenCommit \/ OpenFails
  <2>1. /\ state' # "closed" /\ UNCHANGED <<pc, kind>>
        /\ \A q \in Requests : pc[q] = "idle"
    BY <1>10 DEF OpenCopy, OpenCommit, OpenFails, Finality, row, asked
  <2> QED
    BY <2>1
<1>11. CASE Expire \/ UNCHANGED vars
  <2>1. Active' = Active
    BY <1>11 DEF Expire, vars, Active
  <2> QED
    BY <1>11, <2>1 DEF Expire, vars, row, disk, listing, asked, Empty
<1>12. CASE Stop
  <2>1. \A q \in Requests : pc'[q] = IF q \in Active THEN "dead" ELSE pc[q]
    BY <1>12 DEF Stop
  <2>2. Active' = {} /\ \A q \in Active : pc[q] # "done"
    BY <2>1 DEF Active, InFlight
  <2>3. \A q \in Requests : pc'[q] \in {"deleting", "deleted", "done"} => pc'[q] = pc[q]
    BY <2>1
  <2>4. UNCHANGED <<state, root, original, builds, adir, kind, met>>
    BY <1>12 DEF Stop, row, disk, asked
  <2>5. \A q \in Requests : pc'[q] # "deleting"
    BY <2>1 DEF Active, InFlight
  <2> QED
    BY <2>1, <2>2, <2>3, <2>4, <2>5 DEF Empty, Ended
<1>13. CASE Start
  <2>1. /\ UNCHANGED <<pc, kind, met, listed, listedAssets>> /\ Active = {} /\ Active' = {}
    BY <1>13 DEF Start, asked, listing, Acquainted, Active
  <2>2. \A q \in Requests : pc[q] \notin {"deleting", "deleted"}
    BY <2>1 DEF Active, InFlight
  <2>3. CASE state = "open" /\ expired
    <3>1. DOMAIN builds' = {} /\ ~ root' /\ ~ original' /\ ~ adir'
      BY <1>13, <2>3 DEF Start, SweepExpired, NoFiles
    <3> QED
      BY <2>1, <2>2, <2>3, <3>1 DEF Acquainted, Empty
  <2>4. CASE ~ (state = "open" /\ expired)
    BY <1>13, <2>1, <2>4 DEF Start, disk, Empty
  <2> QED
    BY <2>3, <2>4
<1> QED
  BY StepKinds, <1>1, <1>2, <1>3, <1>4, <1>5, <1>6, <1>7, <1>8, <1>9, <1>10, <1>11,
     <1>12, <1>13

\* A closed session that nothing works on any more has no directory, unless the
\* request that closed it overlapped one that writes there.
THEOREM TidyCloseIsEmpty == Spec => []LoneCloseLeavesNothing
<1>1. Init => Cleaned
  BY DEF Init, Cleaned
<1>2. Cleaned => LoneCloseLeavesNothing
  <2> SUFFICES ASSUME Cleaned, state = "closed", Quiet,
                      \A p \in Requests : pc[p] = "done" /\ IsClosing(p)
                                            => \A q \in met[p] : kind[q] = "discard"
               PROVE  ~ root
    BY DEF LoneCloseLeavesNothing
  <2> QED
    BY DEF Cleaned, Tidy, Empty
<1> QED
  BY <1>1, <1>2, CleanedStep, AcquaintedHolds, LockingHolds, FinalityHolds, TypeCorrect, PTL
  DEF Spec


-----------------------------------------------------------------------------
\* What a request makes of the log it loaded.
Fresh == {"loaded", "stored", "probed"}
AtWork == {"building", "replaying", "writing", "built"}

\* It is past the change of its copy.
Changed(r) == IsChange(r) /\ pc[r] \in AtWork

MadeFrom(r, h, doc) ==
    \/ kind[r] \in {"edit", "image"} /\ Len(h) < MaxOps /\ doc = Append(h, r)
    \/ kind[r] = "undo" /\ h # <<>> /\ doc = SubSeq(h, 1, Len(h) - 1)
    \/ kind[r] = "reset" /\ doc = <<>>

\* The change of its copy is the one step of a request that touches a copy.
ChangesCopy(r) ==
    /\ IsChange(r)
    /\ pc[r] \in Fresh
    /\ \E s \in {"building", "built"} :
          /\ pc' = [pc EXCEPT ![r] = s]
          /\ s = "built" => lrev[r] + 1 \in DOMAIN builds
    /\ MadeFrom(r, lops[r], lops'[r])
    /\ lops' = [lops EXCEPT ![r] = lops'[r]]
    /\ lrev' = [lrev EXCEPT ![r] = @ + 1]
    /\ UNCHANGED <<ops, revision, builds, result>>

LEMMA CopySteps ==
    ASSUME TypeOK, NEW r \in Requests, Ordinary(r)
    PROVE  \/ ChangesCopy(r)
           \/ /\ UNCHANGED <<lops, lrev>>
              /\ pc'[r] \in Fresh => pc[r] \in Fresh
              /\ IsChange(r) /\ pc'[r] \in AtWork => pc[r] \in AtWork
              /\ IsChange(r) /\ pc'[r] = "done" => CommitEdit(r)
              /\ IsChange(r) /\ pc[r] \in {"writing", "built"}
                   => pc'[r] = "built" \/ CommitEdit(r) \/ ~ original
<1> USE DEF TypeOK, Fresh, AtWork
<1>1. ASSUME NEW doc \in Documents, AddOperation(r) \/ Undo(r) \/ Reset(r), Change(r, doc)
      PROVE  ChangesCopy(r)
  <2>1. /\ lops' = [lops EXCEPT ![r] = doc]
        /\ lrev' = [lrev EXCEPT ![r] = @ + 1]
        /\ UNCHANGED <<ops, revision, builds, result, kind>>
    BY <1>1 DEF Change, row, asked
  <2>2. lops'[r] = doc
    BY <2>1
  <2>3. \E s \in {"building", "built"} :
          /\ pc' = [pc EXCEPT ![r] = s]
          /\ s = "built" => lrev[r] + 1 \in DOMAIN builds
    BY <1>1 DEF Change, LookForBuild
  <2>4. CASE AddOperation(r)
    <3>1. lops'[r] = Append(lops[r], r)
      BY <2>4 DEF AddOperation, Change
    <3> QED
      BY <2>1, <2>2, <2>3, <2>4, <3>1 DEF AddOperation, Prepared, ChangesCopy, IsChange, MadeFrom
  <2>5. CASE Undo(r)
    <3>1. lops'[r] = SubSeq(lops[r], 1, Len(lops[r]) - 1)
      BY <2>5 DEF Undo, Change
    <3> QED
      BY <2>1, <2>2, <2>3, <2>5, <3>1 DEF Undo, ChangesCopy, IsChange, MadeFrom
  <2>6. CASE Reset(r)
    <3>1. lops'[r] = <<>>
      BY <2>6 DEF Reset, Change
    <3> QED
      BY <2>1, <2>2, <2>3, <2>6, <3>1 DEF Reset, ChangesCopy, IsChange, MadeFrom
  <2> QED
    BY <1>1, <2>4, <2>5, <2>6
<1>2. CASE StartWrite(r) \/ EndWrite(r)
  BY <1>2 DEF StartWrite, EndWrite, copies
<1>3. CASE CommitEdit(r)
  BY <1>3 DEF CommitEdit, copies
<1>4. CASE Answer(r)
  BY <1>4 DEF Answer, IsChange, copies
<1>5. CASE OpenSource(r) \/ BuildFails(r)
  BY <1>5 DEF OpenSource, BuildFails, copies
<1>6. CASE StoreAsset(r) \/ ProbeAsset(r)
  BY <1>6 DEF StoreAsset, ProbeAsset, copies
<1>7. CASE RefuseEdit(r) \/ EditFails(r) \/ QuotaExceeded(r)
  BY <1>7 DEF RefuseEdit, Prepared, EditFails, QuotaExceeded, copies
<1>8. CASE LookUp(r)
  BY <1>8 DEF LookUp, LookForBuild, IsChange, copies
<1>9. CASE AnswerFails(r)
  BY <1>9 DEF AnswerFails, IsChange, copies
<1> QED
  BY <1>1, <1>2, <1>3, <1>4, <1>5, <1>6, <1>7, <1>8, <1>9 DEF Ordinary, Plain

\* Where the documents in the copies come from: each is the loaded log, or was made
\* of it; and no log knows an edit that was not asked for yet.
Known(doc) == \A i \in 1..Len(doc) : pc[doc[i]] # "idle"

Shapes ==
    /\ \A r \in Requests : ~ IsChange(r) \/ pc[r] \in Fresh => lops[r] = base[r]
    /\ \A r \in Requests : Changed(r) => MadeFrom(r, base[r], lops[r])
    /\ Known(ops)
    /\ \A r \in Requests : Known(base[r])
    /\ \A r \in Requests : \A i \in 1..Len(base[r]) : base[r][i] # r

\* What a request makes of what it loaded is known when that is.
LEMMA MadeIsKnown ==
    ASSUME NEW r \in Requests, pc[r] # "idle", NEW h \in Documents, Known(h),
           NEW doc, MadeFrom(r, h, doc)
    PROVE  Known(doc)
<1> USE DEF Documents, Known
<1>1. CASE doc = Append(h, r)
  BY <1>1
<1>2. CASE h # <<>> /\ doc = SubSeq(h, 1, Len(h) - 1)
  <2>1. Len(h) \in Nat /\ Len(h) > 0
    BY <1>2
  <2>2. PICK n \in Nat : n = Len(h) - 1
    BY <2>1
  <2>3. \A i \in 1..n : h[i] \in Requests
    BY <2>1, <2>2
  <2>4. /\ Len(SubSeq(h, 1, n)) = IF 1 <= n THEN n - 1 + 1 ELSE 0
        /\ \A i \in 1..n - 1 + 1 : SubSeq(h, 1, n)[i] = h[1 + i - 1]
    BY <2>3, SubSeqProperties
  <2>5. doc = SubSeq(h, 1, n)
    BY <1>2, <2>2
  <2>6. Len(doc) = IF 1 <= n THEN n - 1 + 1 ELSE 0
    BY <2>4, <2>5, Zenon
  <2>7. Len(doc) = n
    BY <2>6
  <2>8. \A i \in 1..n : doc[i] = h[i]
    <3>1. ASSUME NEW i \in 1..n PROVE i \in 1..n - 1 + 1 /\ 1 + i - 1 = i
      OBVIOUS
    <3>2. ASSUME NEW i \in 1..n PROVE doc[i] = h[1 + i - 1]
      BY <2>4, <2>5, <3>1, Zenon
    <3> QED
      BY <3>1, <3>2
  <2> QED
    BY <2>1, <2>2, <2>7, <2>8
<1>3. CASE doc = <<>>
  BY <1>3
<1> QED
  BY <1>1, <1>2, <1>3 DEF MadeFrom

\* A log stays known: nobody becomes idle again.
LEMMA KnownStays ==
    ASSUME NEW doc \in Documents, Known(doc),
           \A q \in Requests : pc'[q] = "idle" => pc[q] = "idle"
    PROVE  \A i \in 1..Len(doc) : pc'[doc[i]] # "idle"
  BY DEF Known, Documents

\* ... in the log as it is, ...
LEMMA LogStaysKnown ==
    ASSUME TypeOK, Shapes, UNCHANGED ops,
           \A q \in Requests : pc'[q] = "idle" => pc[q] = "idle"
    PROVE  Known(ops)'
<1>1. ops \in Documents /\ Known(ops)
  BY DEF TypeOK, Shapes
<1>2. \A i \in 1..Len(ops) : pc'[ops[i]] # "idle"
  BY <1>1, KnownStays
<1> QED
  BY <1>2 DEF Known

\* ... and in the logs that were loaded.
LEMMA LoadedStayKnown ==
    ASSUME TypeOK, Shapes, \A q \in Requests : pc'[q] = "idle" => pc[q] = "idle"
    PROVE  \A r \in Requests : base'[r] = base[r] => Known(base[r])'
<1> SUFFICES ASSUME NEW r \in Requests, base'[r] = base[r]
             PROVE  Known(base[r])'
  OBVIOUS
<1>1. base[r] \in Documents /\ Known(base[r])
  BY DEF TypeOK, Shapes
<1>2. \A i \in 1..Len(base[r]) : pc'[base[r][i]] # "idle"
  BY <1>1, KnownStays
<1> QED
  BY <1>2 DEF Known

\* Each kind of step keeps the shapes.
LEMMA ShapesStep ==
    TypeOK /\ Finality /\ Locking /\ Acquainted /\ Shapes /\ [Next]_vars => Shapes'
<1> SUFFICES ASSUME TypeOK, Finality, Locking, Acquainted, Shapes, [Next]_vars
             PROVE  Shapes'
  OBVIOUS
<1> USE DEF TypeOK
<1>1. ASSUME NEW r \in Requests, Ordinary(r) PROVE Shapes'
  <2>1. /\ UNCHANGED <<kind, base>>
        /\ pc[r] # "idle" /\ pc'[r] # "idle"
        /\ \A q \in Requests : q # r => pc'[q] = pc[q]
    BY <1>1, OrdinarySteps DEF InFlight, Ended
  <2>2. \A q \in Requests : pc'[q] = "idle" <=> pc[q] = "idle"
    BY <2>1
  <2>3. \A q \in Requests : Known(base[q])'
    BY <2>1, <2>2, LoadedStayKnown
  <2>4. CASE ChangesCopy(r)
    <3>1. /\ IsChange(r) /\ pc[r] \in Fresh /\ pc'[r] \in AtWork
          /\ MadeFrom(r, base[r], lops'[r])
          /\ \A q \in Requests : q # r => lops'[q] = lops[q]
          /\ UNCHANGED ops
      BY <2>4 DEF ChangesCopy, AtWork, Shapes
    <3>2. pc'[r] \notin Fresh
      BY <3>1 DEF Fresh, AtWork
    <3>3. Known(ops)'
      BY <2>2, <3>1, LogStaysKnown
    <3>4. \A q \in Requests : (~ IsChange(q) \/ pc[q] \in Fresh)' => lops'[q] = base'[q]
      BY <2>1, <3>1, <3>2 DEF Shapes, IsChange
    <3>5. \A q \in Requests : Changed(q)' => MadeFrom(q, base[q], lops[q])'
      BY <2>1, <3>1 DEF Shapes, IsChange, Changed, MadeFrom
    <3> QED
      BY <2>1, <2>3, <3>3, <3>4, <3>5 DEF Shapes
  <2>5. CASE UNCHANGED <<lops, lrev>> /\ ~ ChangesCopy(r)
    <3>1. /\ pc'[r] \in Fresh => pc[r] \in Fresh
          /\ IsChange(r) /\ pc'[r] \in AtWork => pc[r] \in AtWork
      BY <1>1, <2>5, CopySteps
    <3>2. \A q \in Requests : (~ IsChange(q) \/ pc[q] \in Fresh)' => lops'[q] = base'[q]
      BY <2>1, <2>5, <3>1 DEF Shapes, IsChange
    <3>3. \A q \in Requests : Changed(q)' => MadeFrom(q, base[q], lops[q])'
      BY <2>1, <2>5, <3>1 DEF Shapes, IsChange, Changed, MadeFrom
    <3>4. Known(ops)'
      <4>1. CASE CommitEdit(r) /\ lops[r] # base[r]
        <5>1. Changed(r) /\ ops' = lops[r]
          BY <4>1 DEF CommitEdit, Changed, AtWork
        <5>2. Known(lops[r])
          BY <2>1, <5>1, MadeIsKnown DEF Shapes
        <5> QED
          BY <2>2, <5>1, <5>2, KnownStays DEF Known
      <4>2. CASE ~ (CommitEdit(r) /\ lops[r] # base[r])
        <5>1. ops' = ops
          <6>1. CASE CommitEdit(r)
            BY <4>2, <6>1 DEF CommitEdit
          <6>2. CASE Plain(r)
            BY <6>2, PlainSteps
          <6>3. CASE ~ CommitEdit(r) /\ ~ Plain(r)
            BY <1>1, <6>3 DEF Ordinary, StartWrite, EndWrite, Answer, Change, row
          <6> QED
            BY <6>1, <6>2, <6>3
        <5> QED
          BY <2>2, <5>1, LogStaysKnown
      <4> QED
        BY <4>1, <4>2
    <3> QED
      BY <2>1, <2>3, <3>2, <3>3, <3>4 DEF Shapes
  <2> QED
    BY <1>1, <2>4, <2>5, CopySteps
<1>2. ASSUME NEW r \in Requests, Load(r) PROVE Shapes'
  <2>1. pc[r] = "idle" /\ UNCHANGED ops
    BY <1>2, LoadMoves
  <2>2. CASE Loaded(r)
    <3>1. /\ \A q \in Requests : pc'[q] = IF q = r THEN "loaded" ELSE pc[q]
          /\ \A q \in Requests : q # r => kind'[q] = kind[q]
          /\ \A q \in Requests : lops'[q] = IF q = r THEN ops ELSE lops[q]
          /\ \A q \in Requests : base'[q] = IF q = r THEN ops ELSE base[q]
      BY <2>2 DEF Loaded
    <3>2. \A q \in Requests : pc'[q] = "idle" => pc[q] = "idle"
      BY <3>1
    <3>3. Known(ops)'
      BY <2>1, <3>2, LogStaysKnown
    <3>4. \A q \in Requests :
             Known(base[q])' /\ \A i \in 1..Len(base'[q]) : base'[q][i] # q
      <4>1. \A i \in 1..Len(ops) : ops[i] # r
        BY <2>1 DEF Shapes, Known
      <4>2. ASSUME NEW q \in Requests, q # r
            PROVE  Known(base[q])' /\ \A i \in 1..Len(base'[q]) : base'[q][i] # q
        BY <3>1, <3>2, <4>2, LoadedStayKnown DEF Shapes
      <4> QED
        BY <2>1, <3>1, <3>3, <4>1, <4>2 DEF Known
    <3>5. ~ Changed(r)' /\ \A q \in Requests : q # r => Changed(q)' = Changed(q)
      BY <3>1 DEF Changed, AtWork, IsChange
    <3>6. \A q \in Requests : Changed(q)' => MadeFrom(q, base[q], lops[q])'
      BY ZenonT(40), <3>1, <3>5 DEF Shapes, MadeFrom
    <3>7. \A q \in Requests : (~ IsChange(q) \/ pc[q] \in Fresh)' => lops'[q] = base'[q]
      BY <3>1 DEF Shapes, IsChange
    <3> QED
      BY <3>3, <3>4, <3>6, <3>7 DEF Shapes
  <2>3. CASE pc' = [pc EXCEPT ![r] = "refused"] /\ UNCHANGED <<kind, base, met, lops, lrev>>
    <3>0. \A q \in Requests : pc'[q] = "idle" => pc[q] = "idle"
      BY <2>3
    <3>1. Known(ops)' /\ \A q \in Requests : Known(base[q])'
      <4>1. Known(ops)'
        BY <2>1, <3>0, LogStaysKnown
      <4> QED
        BY <2>3, <3>0, <4>1, LoadedStayKnown
    <3>2. \A q \in Requests : (~ IsChange(q) \/ pc[q] \in Fresh)' => lops'[q] = base'[q]
      BY <2>3 DEF Shapes, IsChange, Fresh
    <3>3. \A q \in Requests : Changed(q)' => MadeFrom(q, base[q], lops[q])'
      BY <2>3 DEF Shapes, Changed, IsChange, AtWork, MadeFrom
    <3> QED
      BY <2>3, <3>1, <3>2, <3>3 DEF Shapes
  <2> QED
    BY <1>2, <2>2, <2>3, LoadMoves
<1>3. CASE \A r \in Requests : ~ Load(r) /\ ~ Ordinary(r)
  <2>1. Rest
    BY <1>3, RestSteps
  <2>2. /\ UNCHANGED <<ops, kind, base, lops>>
        /\ \A q \in Requests : pc'[q] = "idle" <=> pc[q] = "idle"
        /\ \A q \in Requests : pc'[q] \in AtWork \cup Fresh => pc'[q] = pc[q]
    BY <2>1 DEF Rest, InFlight, CloserStates, AtWork, Fresh
  <2>3. Known(ops)' /\ \A q \in Requests : Known(base[q])'
    <3>1. Known(ops)'
      BY <2>2, LogStaysKnown
    <3> QED
      BY <2>2, <3>1, LoadedStayKnown
  <2> QED
    BY <2>2, <2>3 DEF Shapes, Changed, IsChange, MadeFrom
<1> QED
  BY <1>1, <1>2, <1>3

\* ... and so does every behaviour.
LEMMA ShapesHolds == Spec => []Shapes
<1>1. Init => Shapes
  <2> SUFFICES ASSUME Init PROVE Shapes
    OBVIOUS
  <2>1. ops = <<>> /\ \A r \in Requests : base[r] = <<>> /\ lops[r] = <<>> /\ pc[r] = "idle"
    BY DEF Init
  <2> QED
    BY <2>1 DEF Shapes, Known, Changed, AtWork
<1> QED
  BY <1>1, ShapesStep, AcquaintedHolds, LockingHolds, FinalityHolds, TypeCorrect, PTL
  DEF Spec

-----------------------------------------------------------------------------
\* Why an edit that met no other change stays: whoever changes the log later has
\* loaded it with the edit in it, and writes it back with the edit in it, however
\* many of those collide or die.
Within(p, doc) == \E i \in 1..Len(doc) : doc[i] = p

Lone(p) ==
    /\ pc[p] = "done" /\ kind[p] \in {"edit", "image"}
    /\ \A q \in met[p] : ~ IsChange(q)

Kept ==
    NothingTakenBack =>
        \A p \in Requests : Lone(p) =>
           /\ Within(p, ops)
           /\ \A q \in Active : IsChange(q) => Within(p, base[q])

\* An appended edit is the last of its log, and what was there stays there.
LEMMA AppendedIsWithin ==
    ASSUME NEW doc \in Documents, NEW r \in Requests
    PROVE  /\ Within(r, Append(doc, r))
           /\ \A p \in Requests : Within(p, doc) => Within(p, Append(doc, r))
           /\ Append(doc, r) # doc
<1>1. /\ Len(Append(doc, r)) = Len(doc) + 1 /\ Len(doc) \in Nat
      /\ Append(doc, r)[Len(doc) + 1] = r
      /\ \A i \in 1..Len(doc) : Append(doc, r)[i] = doc[i]
  BY DEF Documents
<1>2. Within(r, Append(doc, r))
  <2>1. Len(doc) + 1 \in 1..Len(Append(doc, r))
    BY <1>1
  <2> QED
    BY <1>1, <2>1 DEF Within
<1>3. \A p \in Requests : Within(p, doc) => Within(p, Append(doc, r))
  <2>1. 1..Len(doc) \subseteq 1..Len(Append(doc, r))
    BY <1>1
  <2> QED
    BY <1>1, <2>1 DEF Within
<1> QED
  BY <1>1, <1>2, <1>3

\* Each kind of step keeps the lone edits.
LEMMA KeptStep ==
    TypeOK /\ Finality /\ Locking /\ Acquainted /\ Shapes /\ Kept /\ [Next]_vars => Kept'
<1> SUFFICES ASSUME TypeOK, Finality, Locking, Acquainted, Shapes, Kept, [Next]_vars,
                    NothingTakenBack', NEW p \in Requests, Lone(p)'
             PROVE  /\ Within(p, ops)'
                    /\ \A q \in Active' : IsChange(q)' => Within(p, base[q])'
  BY DEF Kept
<1> USE DEF TypeOK
<1>1. ASSUME NEW r \in Requests, Ordinary(r)
      PROVE  /\ Within(p, ops)'
             /\ \A q \in Active' : IsChange(q)' => Within(p, base[q])'
  <2>1. /\ UNCHANGED <<kind, base, met>> /\ r \in Active
        /\ \A q \in Requests : q # r => pc'[q] = pc[q]
    BY <1>1, OrdinarySteps DEF Active
  <2>2. Active' \subseteq Active /\ NothingTakenBack
    BY <2>1 DEF Active, NothingTakenBack
  <2>3. CASE CommitEdit(r)
    <3>1. /\ Changed(r) /\ pc'[r] = "done" /\ kind[r] \in {"edit", "image"}
          /\ ops' = IF lops[r] # base[r] THEN lops[r] ELSE ops
      BY <2>2, <2>3 DEF CommitEdit, Changed, AtWork, IsChange, NothingTakenBack
    <3>2. ops' = Append(base[r], r)
      <4>1. lops[r] = Append(base[r], r)
        BY <3>1 DEF Shapes, MadeFrom
      <4> QED
        BY <3>1, <4>1, AppendedIsWithin
    <3>3. CASE p = r
      <4>1. Within(p, ops)'
        <5>1. Within(r, Append(base[r], r))
          BY AppendedIsWithin
        <5> QED
          BY <3>2, <3>3, <5>1, Zenon DEF Within
      <4>2. ASSUME NEW q \in Active', IsChange(q)' PROVE FALSE
        <5>1. q # r /\ q \in Enders /\ r \in Enders
          BY <2>1, <2>2, <3>1, <4>2 DEF Active, Enders, InFlight
        <5>2. q \in met[r]
          BY <5>1 DEF Acquainted
        <5> QED
          BY <2>1, <3>3, <4>2, <5>2 DEF Lone, IsChange
      <4> QED
        BY <4>1, <4>2
    <3>4. CASE p # r
      <4>1. Lone(p)
        BY <2>1, <3>4 DEF Lone, IsChange
      <4>2. \A q \in Active : IsChange(q) => Within(p, base[q])
        BY <2>2, <4>1 DEF Kept
      <4>3. Within(p, Append(base[r], r))
        BY <2>1, <3>1, <4>2, AppendedIsWithin DEF Changed
      <4> QED
        BY <2>1, <2>2, <3>2, <4>2, <4>3 DEF Within, IsChange
    <3> QED
      BY <3>3, <3>4
  <2>4. CASE ~ CommitEdit(r)
    <3>1. UNCHANGED ops
      BY <1>1, <2>4, PlainSteps DEF Ordinary, StartWrite, EndWrite, Answer, Change, row
    <3>2. Lone(p)
      <4>1. pc'[p] = "done" /\ IsChange(p)
        BY <2>1 DEF Lone, IsChange
      <4>2. CASE p = r
        <5>1. ~ ChangesCopy(r)
          BY <4>1, <4>2 DEF ChangesCopy
        <5> QED
          BY <1>1, <2>4, <4>1, <4>2, <5>1, CopySteps
      <4>3. CASE p # r
        BY <2>1, <4>3 DEF Lone, IsChange
      <4> QED
        BY <4>2, <4>3
    <3>3. Within(p, ops) /\ \A q \in Active : IsChange(q) => Within(p, base[q])
      BY <2>2, <3>2 DEF Kept
    <3> QED
      BY <2>1, <2>2, <3>1, <3>3 DEF Within, IsChange
  <2> QED
    BY <2>3, <2>4
<1>2. ASSUME NEW r \in Requests, Load(r)
      PROVE  /\ Within(p, ops)'
             /\ \A q \in Active' : IsChange(q)' => Within(p, base[q])'
  <2>1. pc[r] = "idle" /\ UNCHANGED ops /\ kind[r] = "edit"
    BY <1>2, LoadMoves DEF Acquainted
  <2>2. /\ p # r /\ pc[p] = "done" /\ kind'[p] = kind[p] /\ met[p] \subseteq met'[p]
        /\ \A q \in Requests : q # r => kind'[q] = kind[q] /\ base'[q] = base[q]
        /\ \A q \in Requests : q # r => pc'[q] = pc[q]
    <3>1. /\ \E s \in {"loaded", "refused"} : pc' = [pc EXCEPT ![r] = s]
          /\ \E k \in Kinds : kind' = [kind EXCEPT ![r] = k] \/ UNCHANGED kind
          /\ \A q \in Requests : q # r => kind'[q] = kind[q] /\ base'[q] = base[q]
          /\ \A q \in Requests : q # r => met[q] \subseteq met'[q]
      <4>1. CASE Loaded(r)
        BY <4>1 DEF Loaded
      <4>2. CASE pc' = [pc EXCEPT ![r] = "refused"] /\ UNCHANGED <<kind, base, met>>
        BY <4>2 DEF Kinds
      <4> QED
        BY <1>2, <4>1, <4>2, LoadMoves
    <3> QED
      BY <3>1 DEF Lone
  <2>3. NothingTakenBack
    BY <2>1, <2>2 DEF NothingTakenBack
  <2>4. Lone(p)
    <3>1. \A q \in met[p] : q \in Requests /\ q # r
      BY <2>1 DEF Acquainted
    <3> QED
      BY <2>2, <3>1 DEF Lone, IsChange
  <2>5. Within(p, ops) /\ \A q \in Active : IsChange(q) => Within(p, base[q])
    BY <2>3, <2>4 DEF Kept
  <2>6. r \in Active' => base'[r] = ops
    BY <1>2, LoadMoves DEF Loaded, Active, InFlight, Ended
  <2>7. \A q \in Active' : q # r => q \in Active /\ (IsChange(q)' => IsChange(q)) /\ base'[q] = base[q]
    BY <2>2 DEF Active, IsChange
  <2>8. \A q \in Active' : IsChange(q)' => Within(p, base'[q])
    BY <2>5, <2>6, <2>7
  <2> QED
    BY <2>1, <2>5, <2>8 DEF Within
<1>3. CASE \A r \in Requests : ~ Load(r) /\ ~ Ordinary(r)
  <2>1. Rest
    BY <1>3, RestSteps
  <2>2. Active' \subseteq Active /\ UNCHANGED <<ops, kind, base, met>> /\ NothingTakenBack
    BY <2>1 DEF Rest, Active, NothingTakenBack, InFlight
  <2>3. pc[p] = "done"
    BY <2>1, <2>2 DEF Rest, Lone, IsClosing, CloserStates
  <2>4. Within(p, ops) /\ \A q \in Active : IsChange(q) => Within(p, base[q])
    BY <2>2, <2>3 DEF Kept, Lone, IsChange
  <2> QED
    BY <2>2, <2>4 DEF Within, IsChange
<1> QED
  BY <1>1, <1>2, <1>3

\* An edit that was answered with success and met no other change on its way stays
\* in the log, whatever is in flight later, until something is taken back.
THEOREM LoneEditsStay == Spec => []LoneEditsKept
<1>1. Init => Kept
  BY DEF Init, Kept, Lone
<1>2. TypeOK /\ Kept => LoneEditsKept
  BY DEF Kept, LoneEditsKept, Lone, Within, InLog
<1> QED
  BY <1>1, <1>2, KeptStep, ShapesHolds, AcquaintedHolds, LockingHolds, FinalityHolds,
     TypeCorrect, PTL
  DEF Spec

-----------------------------------------------------------------------------
\* Why the session is a DocumentLog: the log is only ever written by the commit of
\* a change, with what was made of a log that somebody in flight has loaded.
ReadLogs == {base[r] : r \in Active}
HandedLogs == {lops[r] : r \in Saved}

\* Whoever ends forgets what they read.
LEMMA ReadersLeave ==
    ASSUME Active' \subseteq Active, UNCHANGED base
    PROVE  ReadLogs' \subseteq ReadLogs
  BY DEF ReadLogs

\* Each kind of step is one of DocumentLog, or none.
LEMMA LogStep ==
    ASSUME TypeOK, Finality, Locking, Acquainted, Shapes, [Next]_vars
    PROVE  [Outside!Next]_(Outside!logVars)
<1> USE DEF TypeOK
<1>0. ASSUME UNCHANGED <<state, ops>>, ReadLogs' \subseteq ReadLogs, UNCHANGED HandedLogs
      PROVE  [Outside!Next]_(Outside!logVars)
  BY <1>0 DEF Outside!Next, Outside!Forget, Outside!logVars, ReadLogs, HandedLogs
<1>1. ASSUME NEW r \in Requests, Ordinary(r)
      PROVE  [Outside!Next]_(Outside!logVars)
  <2>1. /\ UNCHANGED <<state, kind, base>> /\ r \in Active
        /\ pc[r] # "done" /\ (pc'[r] = "done" => ~ IsClosing(r))
        /\ \A q \in Requests : q # r => pc'[q] = pc[q]
    BY <1>1, OrdinarySteps DEF Active, InFlight
  <2>2. Active' \subseteq Active
    BY <2>1 DEF Active
  <2>3. ReadLogs' \subseteq ReadLogs
    BY <2>1, <2>2, ReadersLeave
  <2>4. \A q \in Requests : q # r => lops'[q] = lops[q]
    BY <1>1, CopySteps DEF ChangesCopy
  <2>5. Saved' = Saved /\ r \notin Saved
    BY <2>1 DEF Saved, IsClosing
  <2>6. UNCHANGED HandedLogs
    <3>1. \A q \in Saved : lops'[q] = lops[q]
      BY <2>4, <2>5 DEF Saved
    <3> QED
      BY SMTT(30), <2>5, <3>1 DEF HandedLogs
  <2>7. CASE UNCHANGED ops
    BY <1>0, <2>1, <2>3, <2>6, <2>7
  <2>8. CASE CommitEdit(r) /\ lops[r] # base[r]
    <3>1. state = "open"
      BY <2>1, <2>8 DEF CommitEdit, Finality, Active, InFlight
    <3>2. Changed(r) /\ ops' = lops[r]
      BY <2>8 DEF CommitEdit, Changed, AtWork
    <3>3. MadeFrom(r, base[r], lops[r]) /\ base[r] \in ReadLogs
      BY <2>1, <3>2 DEF Shapes, ReadLogs
    <3>4. PICK h : h = base[r]
      OBVIOUS
    <3>5. ASSUME NEW doc, ops' = doc PROVE Outside!WriteBack(doc)
      BY <2>1, <2>3, <2>6, <3>1, <3>5 DEF Outside!WriteBack, ReadLogs, HandedLogs
    <3>6. CASE Len(h) < MaxOps /\ lops[r] = Append(h, r)
      <4>1. Outside!WriteBack(Append(h, r))
        BY <3>2, <3>5, <3>6
      <4>2. Outside!Add(h, r)
        BY <3>4, <3>6, <4>1 DEF Outside!Add, Shapes
      <4> QED
        BY <3>3, <3>4, <4>2 DEF Outside!Next, ReadLogs
    <3>7. CASE h # <<>> /\ lops[r] = SubSeq(h, 1, Len(h) - 1)
      <4>1. Outside!WriteBack(SubSeq(h, 1, Len(h) - 1))
        BY <3>2, <3>5, <3>7
      <4>2. Outside!Undo(h)
        BY <3>7, <4>1 DEF Outside!Undo
      <4> QED
        BY <3>3, <3>4, <4>2 DEF Outside!Next, ReadLogs
    <3>8. CASE lops[r] = <<>>
      <4>1. Outside!WriteBack(<<>>)
        BY <3>2, <3>5, <3>8
      <4>2. Outside!Clear(h)
        BY <2>8, <3>4, <3>8, <4>1 DEF Outside!Clear
      <4> QED
        BY <3>3, <3>4, <4>2 DEF Outside!Next, ReadLogs
    <3> QED
      BY <3>3, <3>4, <3>6, <3>7, <3>8 DEF MadeFrom
  <2>9. ~ (CommitEdit(r) /\ lops[r] # base[r]) => UNCHANGED ops
    BY <1>1, PlainSteps
    DEF Ordinary, StartWrite, EndWrite, CommitEdit, Answer, Change, row
  <2> QED
    BY <2>7, <2>8, <2>9
<1>2. ASSUME NEW r \in Requests, Load(r)
      PROVE  [Outside!Next]_(Outside!logVars)
  <2>1. pc[r] = "idle" /\ UNCHANGED <<state, ops>>
    BY <1>2, LoadMoves
  <2>2. CASE CanLoad /\ Loaded(r)
    <3>1. /\ \A q \in Requests : pc'[q] = IF q = r THEN "loaded" ELSE pc[q]
          /\ \A q \in Requests : base'[q] = IF q = r THEN ops ELSE base[q]
          /\ \A q \in Requests : q # r => kind'[q] = kind[q] /\ lops'[q] = lops[q]
      BY <2>2 DEF Loaded
    <3>2. Active' = Active \cup {r} /\ r \notin Active
      BY <2>1, <3>1 DEF Active, InFlight
    <3>3. ReadLogs' = ReadLogs \cup {ops}
      <4>1. \A q \in Active : base'[q] = base[q]
        BY <3>1, <3>2 DEF Active
      <4>2. base'[r] = ops
        BY <3>1
      <4> QED
        BY <3>2, <4>1, <4>2 DEF ReadLogs
    <3>4. UNCHANGED HandedLogs
      <4>1. Saved' = Saved /\ r \notin Saved
        BY <2>1, <3>1 DEF Saved
      <4>2. \A q \in Saved : lops'[q] = lops[q]
        BY <3>1, <4>1 DEF Saved
      <4> QED
        BY SMTT(30), <4>1, <4>2 DEF HandedLogs
    <3>5. Outside!Read
      BY <2>1, <2>2, <3>3, <3>4 DEF Outside!Read, CanLoad, ReadLogs, HandedLogs
    <3> QED
      BY <3>5 DEF Outside!Next
  <2>3. CASE pc' = [pc EXCEPT ![r] = "refused"] /\ UNCHANGED <<kind, base, met, lops, lrev>>
    <3>1. Active' = Active /\ Saved' = Saved
      BY <2>1, <2>3 DEF Active, InFlight, Saved
    <3> QED
      BY <1>0, <2>1, <2>3, <3>1 DEF ReadLogs, HandedLogs
  <2> QED
    BY <1>2, <2>2, <2>3, LoadMoves
<1>3. CASE OpenCommit
  <2>1. /\ state = "none" /\ state' = "open"
        /\ UNCHANGED <<ops, pc, kind, base, lops>>
    BY <1>3 DEF OpenCommit, Finality, asked, copies
  <2>2. UNCHANGED Active /\ UNCHANGED Saved
    BY <2>1 DEF Active, Saved
  <2>3. Outside!Open
    BY <2>1, <2>2 DEF Outside!Open
  <2> QED
    BY <2>3 DEF Outside!Next
<1>4. ASSUME NEW r \in Requests, CloseCommit(r)
      PROVE  [Outside!Next]_(Outside!logVars)
  <2>1. /\ pc[r] = "deleted" /\ pc' = [pc EXCEPT ![r] = "done"]
        /\ state' = "closed" /\ UNCHANGED <<ops, kind, base, lops>>
    BY <1>4 DEF CloseCommit, asked, copies
  <2>2. state \in {"open", "closed"} /\ IsClosing(r) /\ r \in Active
    BY <2>1 DEF Finality, Locking, CloserStates, Active, InFlight
  <2>3. ReadLogs' \subseteq ReadLogs
    <3>1. Active' \subseteq Active
      BY <2>1, <2>2 DEF Active
    <3> QED
      BY <2>1, <3>1, ReadersLeave
  <2>4. CASE kind[r] = "save"
    <3>1. Saved' = Saved \cup {r}
      BY <2>1, <2>4 DEF Saved
    <3>2. HandedLogs' = HandedLogs \cup {lops[r]}
      BY <2>1, <3>1 DEF HandedLogs
    <3>3. lops[r] = base[r] /\ base[r] \in ReadLogs
      BY <2>2, <2>4 DEF Shapes, IsChange, ReadLogs
    <3>4. PICK h : h = base[r]
      OBVIOUS
    <3>5. Outside!Save(h)
      BY <2>1, <2>2, <2>3, <3>2, <3>3, <3>4 DEF Outside!Save, ReadLogs, HandedLogs
    <3> QED
      BY <3>3, <3>4, <3>5 DEF Outside!Next, ReadLogs
  <2>5. CASE kind[r] # "save"
    <3>1. Saved' = Saved
      BY <2>1, <2>5 DEF Saved
    <3>2. Outside!Close
      BY <2>1, <2>2, <2>3, <3>1 DEF Outside!Close, ReadLogs, HandedLogs
    <3> QED
      BY <3>2 DEF Outside!Next
  <2> QED
    BY <2>4, <2>5
<1>5. CASE Start
  <2>1. UNCHANGED <<ops, pc, kind, base, lops>>
    BY <1>5 DEF Start, asked, copies
  <2>2. UNCHANGED Active /\ UNCHANGED Saved
    BY <2>1 DEF Active, Saved
  <2>3. UNCHANGED state \/ (state = "open" /\ state' = "closed")
    BY <1>5 DEF Start, SweepExpired
  <2> QED
    BY <2>1, <2>2, <2>3 DEF Outside!Next, Outside!Close, Outside!logVars
\* Any other step ends requests, or nothing.
<1>6. CASE /\ UNCHANGED <<state, ops, kind, base, lops>>
           /\ \A q \in Requests :
                 \/ pc'[q] = pc[q]
                 \/ pc[q] \in InFlight /\ pc'[q] \in CloserStates \cup {"dead"}
  <2>1. Active' \subseteq Active /\ Saved' = Saved
    BY <1>6 DEF Active, Saved, InFlight, CloserStates
  <2>2. ReadLogs' \subseteq ReadLogs
    BY <1>6, <2>1, ReadersLeave
  <2>3. UNCHANGED HandedLogs
    BY <1>6, <2>1 DEF HandedLogs
  <2> QED
    BY <1>0, <1>6, <2>2, <2>3
<1>7. CASE OpenCopy \/ OpenFails \/ Expire \/ UNCHANGED vars
  BY <1>6, <1>7 DEF OpenCopy, OpenFails, Expire, vars, row, asked, copies
<1>8. CASE Stop
  BY <1>6, <1>8 DEF Stop, Active, row, asked, copies
<1>9. ASSUME NEW r \in Requests, CloseFlush(r) \/ CloseScan(r) \/ RemoveRoot(r) \/ Abandon(r)
      PROVE  [Outside!Next]_(Outside!logVars)
  BY <1>6, <1>9 DEF CloseFlush, CloseScan, RemoveRoot, Abandon, row, asked, copies,
                    InFlight, CloserStates
<1>10. ASSUME NEW r \in Requests, RemoveAssets(r) \/ \E v \in listed : RemoveFile(r, v)
       PROVE  [Outside!Next]_(Outside!logVars)
  BY <1>6, <1>10 DEF RemoveAssets, RemoveFile, row, asked, copies
<1> QED
  BY StepKinds, <1>1, <1>2, <1>3, <1>4, <1>5, <1>7, <1>8, <1>9, <1>10

\* From outside a session is a log that is read and written back whole, until a
\* save or a discard ends it: no overlap, death or stop shows anything else.
THEOREM IsDocumentLog == Spec => ImplementsDocumentLog
<1>1. Init => Outside!Init
  <2> SUFFICES ASSUME Init PROVE Outside!Init
    OBVIOUS
  <2>1. Active = {} /\ Saved = {}
    BY DEF Init, Active, Saved, InFlight
  <2> QED
    BY <2>1 DEF Init, Outside!Init
<1>2. TypeOK /\ Finality /\ Locking /\ Acquainted /\ Shapes /\ [Next]_vars
        => [Outside!Next]_(Outside!logVars)
  BY LogStep
<1> QED
  BY <1>1, <1>2, ShapesHolds, AcquaintedHolds, LockingHolds, FinalityHolds, TypeCorrect, PTL
  DEF Spec, ImplementsDocumentLog, Outside!Spec

-----------------------------------------------------------------------------
\* Why, while no two changes collide, every complete answer has the log its request
\* loaded: the one change in flight is based on the log of the row and has the
\* next revision to itself; equal revisions stand for equal logs; and a build file
\* of any other revision than that was left by a change that found the original
\* gone, after which nobody loads the session again.
InWriting(r) == IsChange(r) /\ pc[r] \in {"writing", "built"}

Copies ==
    /\ revision = 0 => ops = <<>>
    /\ \A r \in Active :
          /\ ~ Changed(r) => lrev[r] <= revision /\ (lrev[r] = revision => lops[r] = ops)
          /\ ~ Changed(r) => (lrev[r] = 0 => lops[r] = <<>>)
          /\ IsChange(r) /\ ~ Changed(r) => lrev[r] = revision
          /\ Changed(r) => lrev[r] = revision + 1
          /\ IsChange(r) => base[r] = ops
    /\ \A q, r \in Active : lrev[q] = lrev[r] => lops[q] = lops[r]

Files ==
    /\ opening # "done" => DOMAIN builds = {}
    /\ \A v \in DOMAIN builds :
          \/ v <= revision
          \/ ~ original
          \/ \E r \in Active : InWriting(r) /\ lrev[r] = v
    /\ revision \in DOMAIN builds => builds[revision] = ops
    /\ \A r \in Active :
          lrev[r] \in DOMAIN builds /\ (original \/ ~ Changed(r))
            => builds[lrev[r]] = lops[r]

Answers == \A r \in Requests : result[r].status = "whole" => result[r].doc = base[r]

Exact == ~ ChangesCollided => Copies /\ Files /\ Answers

\* Once two changes have collided they have.
LEMMA CollisionStays ==
    ASSUME TypeOK, Finality, Locking, Acquainted, [Next]_vars, ChangesCollided
    PROVE  ChangesCollided'
<1> USE DEF TypeOK
<1>1. PICK p \in Requests : IsChange(p) /\ (pc[p] = "dead" \/ \E q \in met[p] : IsChange(q))
  BY DEF ChangesCollided
<1>2. pc[p] # "idle" /\ \A q \in met[p] : q \in Requests /\ pc[q] # "idle"
  BY <1>1 DEF Acquainted
<1>3. SUFFICES /\ kind'[p] = kind[p] /\ \A q \in met[p] : kind'[q] = kind[q]
               /\ pc[p] = "dead" => pc'[p] = "dead"
               /\ met[p] \subseteq met'[p]
  BY <1>1 DEF ChangesCollided, IsChange
<1>4. ASSUME NEW r \in Requests, Ordinary(r)
      PROVE  UNCHANGED <<kind, met>> /\ (pc[p] = "dead" => pc'[p] = "dead")
  BY <1>4, OrdinarySteps DEF InFlight
<1>5. ASSUME NEW r \in Requests, Load(r)
      PROVE  /\ kind'[p] = kind[p] /\ \A q \in met[p] : kind'[q] = kind[q]
             /\ pc'[p] = pc[p] /\ met[p] \subseteq met'[p]
  <2>1. p # r /\ r \notin met[p]
    BY <1>2, <1>5, LoadMoves
  <2>2. CASE Loaded(r)
    BY <1>2, <2>1, <2>2 DEF Loaded
  <2>3. CASE pc' = [pc EXCEPT ![r] = "refused"] /\ UNCHANGED <<kind, base, met, lops, lrev>>
    BY <2>1, <2>3
  <2> QED
    BY <1>5, <2>2, <2>3, LoadMoves
<1>6. CASE \A r \in Requests : ~ Load(r) /\ ~ Ordinary(r)
  BY <1>6, RestSteps DEF Rest, InFlight
<1> QED
  BY <1>4, <1>5, <1>6

\* Until then the change in flight is the only one.
LEMMA Solo ==
    ASSUME TypeOK, Acquainted, ~ ChangesCollided,
           NEW q \in Active, NEW r \in Active, IsChange(q), IsChange(r)
    PROVE  q = r
  BY DEF Acquainted, ChangesCollided, Active, Enders

\* The change of a copy keeps the answers exact.
LEMMA ChangeKeepsExact ==
    ASSUME TypeOK, Finality, Acquainted, Shapes, ~ ChangesCollided,
           Copies, Files, Answers, NEW r \in Requests, Ordinary(r), ChangesCopy(r)
    PROVE  Copies' /\ Files' /\ Answers'
<1> USE DEF TypeOK
<1>1. /\ UNCHANGED <<opening, original, kind, base, ops, revision, builds, result>>
      /\ \A q \in Requests : q # r => pc'[q] = pc[q] /\ lops'[q] = lops[q] /\ lrev'[q] = lrev[q]
      /\ IsChange(r) /\ pc[r] \in Fresh /\ pc'[r] \in {"building", "built"}
      /\ lrev'[r] = lrev[r] + 1
      /\ pc'[r] = "built" => lrev[r] + 1 \in DOMAIN builds
      /\ r \in Active
  BY OrdinarySteps DEF ChangesCopy, Active
<1>2. ~ Changed(r) /\ Changed(r)' /\ Active' = Active
  BY <1>1 DEF Changed, Fresh, AtWork, IsChange, Active, InFlight
<1>3. lrev[r] = revision
  BY <1>1, <1>2 DEF Copies
<1>4. \A q \in Active : q # r => /\ ~ IsChange(q) /\ ~ IsChange(q)'
                                 /\ ~ Changed(q) /\ ~ Changed(q)'
                                 /\ lrev[q] <= revision /\ lrev'[q] <= revision
  <2>1. \A q \in Active : q # r => ~ IsChange(q)
    BY <1>1, Solo
  <2> QED
    BY <1>1, <2>1 DEF IsChange, Changed, Copies, Active
<1>5. revision \in Nat /\ lrev'[r] = revision + 1
  BY <1>1, <1>3
<1>6. Copies'
  <2>1. \A q, a \in Active' : lrev'[q] = lrev'[a] => lops'[q] = lops'[a]
    BY <1>1, <1>2, <1>4, <1>5 DEF Copies, Active
  <2>2. \A q \in Active' :
          /\ ~ Changed(q)' => lrev'[q] <= revision' /\ (lrev'[q] = revision' => lops'[q] = ops')
          /\ ~ Changed(q)' => (lrev'[q] = 0 => lops'[q] = <<>>)
          /\ IsChange(q)' /\ ~ Changed(q)' => lrev'[q] = revision'
          /\ Changed(q)' => lrev'[q] = revision' + 1
          /\ IsChange(q)' => base'[q] = ops'
    BY <1>1, <1>2, <1>4, <1>5 DEF Copies, Active
  <2> QED
    BY <1>1, <2>1, <2>2 DEF Copies
\* The revision it takes has no file, unless the session is being deleted.
<1>7. revision + 1 \in DOMAIN builds => ~ original
  <2>1. ASSUME NEW q \in Active, InWriting(q) PROVE FALSE
    <3>1. q = r
      BY <1>1, <2>1, Solo DEF InWriting
    <3> QED
      BY <1>1, <2>1, <3>1 DEF InWriting, Fresh
  <2> QED
    BY <1>5, <2>1 DEF Files
<1>8. Files'
  <2>1. \A v \in DOMAIN builds : v <= revision \/ ~ original
    <3>1. ASSUME NEW q \in Active, InWriting(q) PROVE FALSE
      <4>1. q = r
        BY <1>1, <3>1, Solo DEF InWriting
      <4> QED
        BY <1>1, <3>1, <4>1 DEF InWriting, Fresh
    <3> QED
      BY <3>1 DEF Files
  <2>2. \A q \in Active' :
          lrev'[q] \in DOMAIN builds' /\ (original' \/ ~ Changed(q)')
            => builds'[lrev'[q]] = lops'[q]
    BY <1>1, <1>2, <1>4, <1>5, <1>7 DEF Files, Active
  <2> QED
    BY <1>1, <2>1, <2>2 DEF Files
<1>9. Answers'
  BY <1>1 DEF Answers
<1> QED
  BY <1>6, <1>8, <1>9

\* So does every other ordinary step.
LEMMA OrdinaryKeepsExact ==
    ASSUME TypeOK, Finality, Acquainted, Shapes, ~ ChangesCollided,
           Copies, Files, Answers, NEW r \in Requests, Ordinary(r), ~ ChangesCopy(r)
    PROVE  Copies' /\ Files' /\ Answers'
<1> USE DEF TypeOK
<1>1. /\ UNCHANGED <<opening, original, kind, base, lops, lrev>>
      /\ \A q \in Requests : q # r => pc'[q] = pc[q]
      /\ r \in Active /\ pc[r] \in InFlight /\ opening = "done"
  BY OrdinarySteps, CopySteps DEF Active, Finality, InFlight
<1>2. /\ IsChange(r) /\ pc'[r] \in AtWork => pc[r] \in AtWork
      /\ pc'[r] \in Fresh => pc[r] \in Fresh
      /\ IsChange(r) /\ pc[r] \in {"writing", "built"}
           => pc'[r] = "built" \/ CommitEdit(r) \/ ~ original
  BY CopySteps
<1>3. Active' \subseteq Active
  BY <1>1 DEF Active
<1>4. \A q \in Active : q # r => /\ IsChange(q)' = IsChange(q) /\ Changed(q)' = Changed(q)
                                 /\ InWriting(q)' = InWriting(q)
  BY <1>1 DEF IsChange, Changed, InWriting, Active
<1>5. CASE CommitEdit(r)
  <2>1. /\ Changed(r) /\ InWriting(r) /\ revision' = lrev[r]
        /\ ops' = IF lops[r] # base[r] THEN lops[r] ELSE ops
        /\ UNCHANGED <<builds, result>> /\ pc'[r] = "done" /\ original
    BY <1>5 DEF CommitEdit, Changed, InWriting, AtWork, disk
  <2>2. lrev[r] = revision + 1 /\ revision \in Nat
    BY <1>1, <2>1 DEF Copies
  \* The change is based on the log of the row.
  <2>3. ops' = lops[r]
    <3>1. CASE lops[r] = base[r]
      BY <1>1, <2>1, <3>1 DEF Copies, Changed
    <3> QED
      BY <2>1, <3>1
  <2>4. \A q \in Active' : q \in Active /\ q # r /\ ~ IsChange(q)
    <3>1. r \notin Active'
      BY <2>1 DEF Active, InFlight
    <3> QED
      BY <1>1, <1>3, <2>1, <3>1, Solo DEF Changed
  <2>5. Copies'
    BY <1>1, <1>4, <2>1, <2>2, <2>3, <2>4 DEF Copies, Active, Changed, IsChange
  <2>6. Files'
    <3>1. ASSUME NEW v \in DOMAIN builds PROVE v <= revision'
      <4>1. \A q \in Active : InWriting(q) => q = r
        BY <1>1, <2>1, Solo DEF InWriting
      <4>2. v \in Nat
        OBVIOUS
      <4> QED
        BY <2>1, <2>2, <4>1, <4>2 DEF Files
    <3>2. lrev[r] \in DOMAIN builds => builds[lrev[r]] = ops'
      BY <1>1, <2>1, <2>3 DEF Files
    <3>3. \A q \in Active' : lrev'[q] \in DOMAIN builds => builds[lrev'[q]] = lops'[q]
      BY <1>1, <2>1, <2>4 DEF Files
    <3> QED
      BY <1>1, <2>1, <3>1, <3>2, <3>3 DEF Files
  <2>7. Answers'
    BY <1>1, <2>1 DEF Answers
  <2> QED
    BY <2>5, <2>6, <2>7
\* The other steps change neither the row nor a copy.
<1>6. ASSUME ~ CommitEdit(r)
      PROVE  /\ UNCHANGED <<ops, revision>>
             /\ \A q \in Active' : Changed(q)' = Changed(q) /\ IsChange(q)' = IsChange(q)
             /\ Copies'
  <2>1. UNCHANGED <<ops, revision>>
    <3>1. CASE Plain(r)
      BY <3>1, PlainSteps
    <3>2. CASE AddOperation(r) \/ Undo(r) \/ Reset(r)
      BY <3>2 DEF AddOperation, Undo, Reset, Change, row
    <3>3. CASE StartWrite(r) \/ EndWrite(r) \/ Answer(r)
      BY <3>3 DEF StartWrite, EndWrite, Answer, row
    <3> QED
      BY <1>6, <3>1, <3>2, <3>3 DEF Ordinary
  <2>2. \A q \in Active' : Changed(q)' = Changed(q) /\ IsChange(q)' = IsChange(q)
    <3>1. r \in Active' /\ IsChange(r) => pc'[r] \in Fresh \cup AtWork
      BY OrdinarySteps DEF Active, InFlight, CloserStates, Fresh, AtWork, IsChange
    <3>2. r \in Active' => Changed(r)' = Changed(r)
      BY <1>1, <1>2, <3>1 DEF Changed, IsChange, Fresh, AtWork
    <3> QED
      BY <1>1, <1>3, <1>4, <3>2 DEF IsChange
  <2>3. Copies'
    BY <1>1, <1>3, <2>1, <2>2 DEF Copies
  <2> QED
    BY <2>1, <2>2, <2>3
<1>7. CASE StartWrite(r)
  <2>1. /\ pc[r] = "replaying" /\ pc'[r] = "writing" /\ ~ CommitEdit(r)
        /\ builds' = [v \in DOMAIN builds \cup {lrev[r]} |->
                        IF v = lrev[r] THEN lops[r] ELSE builds[v]]
        /\ UNCHANGED result
    BY <1>7 DEF StartWrite, CommitEdit
  <2>2. /\ DOMAIN builds' = DOMAIN builds \cup {lrev[r]}
        /\ builds'[lrev[r]] = lops[r]
        /\ \A v \in DOMAIN builds : v # lrev[r] => builds'[v] = builds[v]
    BY <2>1
  <2>3. Active' = Active
    BY <1>1, <2>1 DEF Active, InFlight
  <2>4. ASSUME NEW v \in DOMAIN builds'
        PROVE  v <= revision \/ ~ original \/ \E q \in Active' : InWriting(q)' /\ lrev[q] = v
    <3>1. CASE v = lrev[r]
      <4>1. IsChange(r) => InWriting(r)'
        BY <1>1, <2>1 DEF InWriting, IsChange
      <4>2. ~ IsChange(r) => v <= revision
        BY <1>1, <3>1 DEF Copies, Changed
      <4> QED
        BY <1>1, <2>3, <3>1, <4>1, <4>2
    <3>2. CASE v # lrev[r]
      <4>1. ~ InWriting(r)
        BY <2>1 DEF InWriting
      <4> QED
        BY <1>4, <2>2, <2>3, <3>2, <4>1 DEF Files
    <3> QED
      BY <3>1, <3>2
  <2>5. revision \in DOMAIN builds' => builds'[revision] = ops
    BY <1>1, <2>2 DEF Copies, Files
  <2>6. ASSUME NEW q \in Active', lrev[q] \in DOMAIN builds', original \/ ~ Changed(q)'
        PROVE  builds'[lrev[q]] = lops[q]
    <3>1. CASE lrev[q] = lrev[r]
      BY <1>1, <2>2, <2>3, <3>1 DEF Copies
    <3>2. CASE lrev[q] # lrev[r]
      BY <1>6, <2>1, <2>2, <2>3, <2>6, <3>2 DEF Files
    <3> QED
      BY <3>1, <3>2
  <2> QED
    BY <1>1, <1>6, <2>1, <2>4, <2>5, <2>6 DEF Files, Answers
<1>8. CASE EndWrite(r)
  <2>1. /\ pc[r] = "writing" /\ pc'[r] = "built" /\ ~ CommitEdit(r)
        /\ builds' = [v \in DOMAIN builds \cap {lrev[r]} |-> builds[v]]
        /\ UNCHANGED result
    BY <1>8 DEF EndWrite, CommitEdit
  <2>2. DOMAIN builds' \subseteq DOMAIN builds /\ \A v \in DOMAIN builds' : builds'[v] = builds[v]
    BY <2>1
  <2>3. Active' = Active /\ \A q \in Active : InWriting(q)' = InWriting(q)
    BY <1>1, <1>4, <2>1 DEF Active, InFlight, InWriting, IsChange
  <2> QED
    BY <1>1, <1>6, <2>1, <2>2, <2>3 DEF Files, Answers
<1>9. CASE Answer(r)
  <2>1. /\ kind[r] \in {"render", "save"} /\ ~ CommitEdit(r) /\ OnDisk(lrev[r])
        /\ UNCHANGED builds /\ ~ IsChange(r)
        /\ result'[r].doc = DocumentAt(lrev[r])
        /\ \A q \in Requests : q # r => result'[q] = result[q]
    BY <1>9 DEF Answer, CommitEdit, disk, IsChange
  <2>2. lops[r] = base[r] /\ ~ Changed(r)
    BY <2>1 DEF Shapes, Changed
  <2>3. DocumentAt(lrev[r]) = base[r]
    BY <1>1, <2>1, <2>2 DEF DocumentAt, OnDisk, Copies, Files
  <2>4. Answers'
    BY <1>1, <2>1, <2>3 DEF Answers
  <2>5. ~ InWriting(r) /\ ~ InWriting(r)'
    BY <1>1, <2>1 DEF InWriting, IsChange
  <2>6. Files'
    <3>1. \A q \in Active : InWriting(q) => q \in Active' /\ InWriting(q)'
      BY <1>1, <1>4, <2>5 DEF Active
    <3> QED
      BY <1>1, <1>3, <1>6, <2>1, <3>1 DEF Files
  <2> QED
    BY <1>6, <2>1, <2>4, <2>6
<1>10. CASE Plain(r) /\ ~ CommitEdit(r)
  <2>1. UNCHANGED <<builds, result>>
    BY <1>10, PlainSteps
  <2>2. original => \A q \in Active : InWriting(q) => q \in Active' /\ InWriting(q)'
    <3>1. original /\ InWriting(r) => r \in Active' /\ InWriting(r)'
      BY <1>1, <1>2, <1>10 DEF Active, InFlight, InWriting, IsChange
    <3> QED
      BY <1>1, <1>4, <3>1 DEF Active
  <2>3. Files'
    BY <1>1, <1>3, <1>6, <1>10, <2>1, <2>2 DEF Files
  <2> QED
    BY <1>1, <1>6, <1>10, <2>1, <2>3 DEF Answers
<1>11. ~ (AddOperation(r) \/ Undo(r) \/ Reset(r))
  <2> SUFFICES ASSUME AddOperation(r) \/ Undo(r) \/ Reset(r) PROVE FALSE
    OBVIOUS
  <2>1. lrev'[r] = lrev[r] + 1
    BY DEF AddOperation, Undo, Reset, Change
  <2> QED
    BY <1>1, <2>1
<1> QED
  BY <1>5, <1>7, <1>8, <1>9, <1>10, <1>11 DEF Ordinary

\* Each kind of step keeps the answers exact.
LEMMA ExactStep ==
    TypeOK /\ Finality /\ Locking /\ Acquainted /\ Shapes /\ Exact /\ [Next]_vars => Exact'
<1> SUFFICES ASSUME TypeOK, Finality, Locking, Acquainted, Shapes, Exact, [Next]_vars,
                    ~ ChangesCollided'
             PROVE  Copies' /\ Files' /\ Answers'
  BY DEF Exact
<1> USE DEF TypeOK
<1>1. ~ ChangesCollided /\ Copies /\ Files /\ Answers
  BY CollisionStays DEF Exact
<1>2. ASSUME NEW r \in Requests, Ordinary(r) PROVE Copies' /\ Files' /\ Answers'
  BY <1>1, <1>2, ChangeKeepsExact, OrdinaryKeepsExact
<1>3. ASSUME NEW r \in Requests, Load(r) PROVE Copies' /\ Files' /\ Answers'
  <2>1. /\ pc[r] = "idle" /\ opening = "done" /\ result[r].status = "none"
        /\ UNCHANGED <<opening, original, ops, revision, builds, result>>
    BY <1>3, LoadMoves DEF Acquainted
  <2>2. CASE CanLoad /\ Loaded(r)
    <3>1. /\ \A q \in Requests : pc'[q] = IF q = r THEN "loaded" ELSE pc[q]
          /\ \A q \in Requests : lops'[q] = IF q = r THEN ops ELSE lops[q]
          /\ \A q \in Requests : base'[q] = IF q = r THEN ops ELSE base[q]
          /\ \A q \in Requests : lrev'[q] = IF q = r THEN revision ELSE lrev[q]
          /\ \A q \in Requests : q # r => kind'[q] = kind[q]
      BY <2>2 DEF Loaded
    <3>2. Active' = Active \cup {r} /\ r \notin Active /\ ~ Changed(r)' /\ ~ InWriting(r)'
      BY <2>1, <3>1 DEF Active, InFlight, Changed, AtWork, InWriting
    <3>3. \A q \in Active : /\ q # r /\ q \in Requests
                            /\ IsChange(q)' = IsChange(q) /\ Changed(q)' = Changed(q)
                            /\ InWriting(q)' = InWriting(q)
      BY <3>1, <3>2 DEF Active, IsChange, Changed, InWriting
    <3>4. Copies'
      <4>1. \A q \in Active : lrev[q] = revision => lops[q] = ops
        BY <1>1 DEF Copies
      <4> QED
        BY <1>1, <2>1, <3>1, <3>2, <3>3, <4>1 DEF Copies
    <3>5. Files'
      BY <1>1, <2>1, <3>1, <3>2, <3>3 DEF Files
    <3>6. Answers'
      BY <1>1, <2>1, <3>1 DEF Answers
    <3> QED
      BY <3>4, <3>5, <3>6
  <2>3. CASE pc' = [pc EXCEPT ![r] = "refused"] /\ UNCHANGED <<kind, base, met, lops, lrev>>
    <3>1. Active' = Active /\ r \notin Active
      BY <2>1, <2>3 DEF Active, InFlight
    <3>2. \A q \in Active : /\ IsChange(q)' = IsChange(q) /\ Changed(q)' = Changed(q)
                            /\ InWriting(q)' = InWriting(q)
      BY <2>3, <3>1 DEF Active, IsChange, Changed, InWriting
    <3> QED
      BY <1>1, <2>1, <2>3, <3>1, <3>2 DEF Copies, Files, Answers
  <2> QED
    BY <1>3, <2>2, <2>3, LoadMoves
<1>4. CASE \A r \in Requests : ~ Load(r) /\ ~ Ordinary(r)
  <2>1. Rest
    BY <1>4, RestSteps
  <2>2. UNCHANGED <<ops, revision, kind, base, lops, lrev, result>>
    BY <2>1 DEF Rest
  <2>3. Active' \subseteq Active
    BY <2>1 DEF Rest, Active
  \* No change ends here but by its death, which is a collision.
  <2>4. \A q \in Active : IsChange(q) => pc'[q] = pc[q]
    BY <1>1, <2>1, <2>2 DEF Rest, IsChange, IsClosing, ChangesCollided, Active
  <2>5. \A q \in Active : /\ IsChange(q)' = IsChange(q) /\ Changed(q)' = Changed(q)
                          /\ InWriting(q) => q \in Active' /\ InWriting(q)'
    BY <2>2, <2>4 DEF IsChange, Changed, InWriting, Active
  <2>6. Copies'
    BY <1>1, <2>2, <2>3, <2>5 DEF Copies
  <2>7. /\ \A v \in DOMAIN builds' : v \in DOMAIN builds /\ builds'[v] = builds[v]
        /\ original' => original \/ DOMAIN builds = {}
        /\ opening' # "done" => DOMAIN builds = {}
    BY <1>1, <2>1 DEF Rest, Files
  <2>8. Files'
    BY <1>1, <2>2, <2>3, <2>5, <2>7 DEF Files
  <2>9. Answers'
    BY <1>1, <2>2 DEF Answers
  <2> QED
    BY <2>6, <2>8, <2>9
<1> QED
  BY <1>2, <1>3, <1>4

\* While no two changes have collided, every complete document a render or a save
\* is answered with has exactly the edits of the log its request loaded.
THEOREM AnswersExact == Spec => []AnswersMatch
<1>1. Init => Exact
  <2> SUFFICES ASSUME Init PROVE Copies /\ Files /\ Answers
    BY DEF Exact
  <2>1. Active = {} /\ DOMAIN builds = {}
    BY DEF Init, Active, InFlight, NoFiles
  <2> QED
    BY <2>1 DEF Init, Copies, Files, Answers, NoResult
<1>2. Exact => AnswersMatch
  BY DEF Exact, Answers, AnswersMatch
<1> QED
  BY <1>1, <1>2, ExactStep, ShapesHolds, AcquaintedHolds, LockingHolds, FinalityHolds,
     TypeCorrect, PTL
  DEF Spec
=============================================================================

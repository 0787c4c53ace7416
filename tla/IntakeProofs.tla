---------------------------- MODULE IntakeProofs ----------------------------
(***************************************************************************)
(* Theorems about Intake, for any sets of keys and uploads and any number  *)
(* of faults.                                                              *)
(***************************************************************************)
EXTENDS Intake, TLAPS

\* Before its INSERT an upload has no row, and one that lost the race has none
\* at all; from the rename to its answer its blob is in place, as long as the
\* power stays on.
HandlersMatchStores ==
    \A u \in Uploads :
        /\ uploads[u].pc \in {"new", "receiving", "stored", "finalized",
                              "lost", "duplicate"}
             => rows[Key(u)] # u
        /\ uploads[u].pc \in {"inserted", "lost", "duplicate"}
             => rows[Key(u)] # NoUpload
        /\ uploads[u].pc = "created" => rows[Key(u)] = u
        /\ uploads[u].pc \in {"finalized", "inserted"} /\ powerLosses = 0
             => u \in blobs

\* LitterWasTried, and what the process that ended leaves for the next one.
FilesHaveOwners ==
    /\ \A u \in temps :
         \/ uploads[u].pc \in {"stored", "cut"}
         \/ ~running /\ uploads[u].pc = "ended"
         \/ u \in stuck
    /\ \A u \in blobs :
         \/ rows[Key(u)] = u
         \/ uploads[u].pc \in Placed \cup {"cut", "ended"}
         \/ u \in stuck

\* A handler that has not answered has tried no removal, an upload's file is in
\* one place, so that the mark of a temp file is never that of a blob, and no
\* handler outlives its process.
RemovalsComeLast ==
    /\ temps \cap blobs = {}
    /\ \A u \in Uploads :
         uploads[u].pc \in {"new"} \cup InProgress => u \notin stuck
    /\ ~running =>
         \A u \in Uploads : uploads[u].pc \notin InProgress \cup {"cut"}

IInv ==
    /\ TypeOK
    /\ HandlersMatchStores
    /\ RowsHaveAudio
    /\ FilesHaveOwners
    /\ RemovalsComeLast

LEMMA InitInv == Init => IInv
<1> SUFFICES ASSUME Init PROVE IInv
  OBVIOUS
<1>1. TypeOK
  BY IntakeAssumption DEF Init, TypeOK, Points
<1>2. HandlersMatchStores
  BY IntakeAssumption DEF Init, HandlersMatchStores, Key
<1>3. RowsHaveAudio
  BY DEF Init, RowsHaveAudio
<1>4. QED
  BY <1>1, <1>2, <1>3
     DEF Init, FilesHaveOwners, RemovalsComeLast, InProgress, IInv

LEMMA StepInv == IInv /\ [Next]_vars => IInv'
<1> SUFFICES ASSUME IInv, [Next]_vars PROVE IInv'
  OBVIOUS
<1> USE IntakeAssumption
    DEF IInv, TypeOK, Points, removals, HandlersMatchStores, RowsHaveAudio,
        FilesHaveOwners, RemovalsComeLast, InProgress, Placed, Key, At, Go,
        files, faults
<1>1. ASSUME NEW u \in Uploads, KnownDuplicate(u) PROVE IInv'
  BY <1>1 DEF KnownDuplicate
<1>2. ASSUME NEW u \in Uploads, Accept(u) PROVE IInv'
  BY <1>2 DEF Accept
<1>3. ASSUME NEW u \in Uploads, StoreBody(u) PROVE IInv'
  BY <1>3 DEF StoreBody
<1>4. ASSUME NEW u \in Uploads, Refuse(u) PROVE IInv'
  BY <1>4 DEF Refuse, Remove
<1>5. ASSUME NEW u \in Uploads, Finalize(u) PROVE IInv'
  BY <1>5 DEF Finalize
<1>6. ASSUME NEW u \in Uploads, InsertRow(u) PROVE IInv'
  BY <1>6 DEF InsertRow, Insertion
<1>7. ASSUME NEW u \in Uploads, InsertFails(u) PROVE IInv'
  BY <1>7 DEF InsertFails
<1>8. ASSUME NEW u \in Uploads, FetchCreated(u) PROVE IInv'
  BY <1>8 DEF FetchCreated, Created
<1>9. ASSUME NEW u \in Uploads, FetchDuplicate(u) PROVE IInv'
  BY <1>9 DEF FetchDuplicate, Created
<1>10. ASSUME NEW u \in Uploads, FetchFails(u) PROVE IInv'
  BY <1>10 DEF FetchFails
<1>11. ASSUME NEW u \in Uploads, RemoveOrphan(u) PROVE IInv'
  BY <1>11 DEF RemoveOrphan, Orphan, Remove
<1>12. ASSUME NEW u \in Uploads, RemoveFailed(u) PROVE IInv'
  BY <1>12 DEF RemoveFailed, Orphan, Remove
<1>13. ASSUME NEW u \in Uploads, Disconnect(u) PROVE IInv'
  BY <1>13 DEF Disconnect
<1>14. ASSUME NEW u \in Uploads, WriteBack(u) PROVE IInv'
  BY <1>14 DEF WriteBack
<1>15. CASE Crash
  <2>1. ASSUME NEW u \in Uploads
        PROVE  /\ uploads'[u].key = uploads[u].key
               /\ uploads'[u].pc = IF uploads[u].pc \in InProgress \cup {"cut"}
                                   THEN "ended" ELSE uploads[u].pc
    BY <1>15 DEF Crash, Ended
  <2>2. TypeOK'
    <3>1. uploads' \in [Uploads -> [pc: Points, key: Keys]]
      BY <1>15 DEF Crash, Ended
    <3>2. \A k \in Keys : rows'[k] # NoUpload => uploads'[rows'[k]].key = k
      BY <1>15, <2>1 DEF Crash
    <3>3. running' \in BOOLEAN
      BY <1>15 DEF Crash
    <3>4. {fetchFailures, crashes, powerLosses, removalFailures}'
            \subseteq Nat
      BY <1>15 DEF Crash
    <3>5. /\ rows' \in [Keys -> Uploads \cup {NoUpload}]
          /\ temps' \subseteq Uploads
          /\ blobs' \subseteq Uploads
          /\ durable' \subseteq Uploads
          /\ stuck' \subseteq Uploads
      BY <1>15 DEF Crash
    <3>6. QED
      BY <3>1, <3>2, <3>3, <3>4, <3>5
  <2>3. HandlersMatchStores'
    BY <1>15, <2>1 DEF Crash
  <2>4. RowsHaveAudio'
    BY <1>15, <2>1 DEF Crash
  <2>5. FilesHaveOwners'
    BY <1>15, <2>1 DEF Crash
  <2>6. RemovalsComeLast'
    BY <1>15, <2>1 DEF Crash
  <2>7. QED
    BY <2>2, <2>3, <2>4, <2>5, <2>6
<1>16. CASE PowerLoss
  <2>1. ASSUME NEW u \in Uploads
        PROVE  /\ uploads'[u].key = uploads[u].key
               /\ uploads'[u].pc = IF uploads[u].pc \in InProgress \cup {"cut"}
                                   THEN "ended" ELSE uploads[u].pc
    BY <1>16 DEF PowerLoss, Ended
  <2>2. TypeOK'
    <3>1. uploads' \in [Uploads -> [pc: Points, key: Keys]]
      BY <1>16 DEF PowerLoss, Ended
    <3>2. \A k \in Keys : rows'[k] # NoUpload => uploads'[rows'[k]].key = k
      BY <1>16, <2>1 DEF PowerLoss
    <3>3. running' \in BOOLEAN
      BY <1>16 DEF PowerLoss
    <3>4. {fetchFailures, crashes, powerLosses, removalFailures}'
            \subseteq Nat
      BY <1>16 DEF PowerLoss
    <3>5. /\ rows' \in [Keys -> Uploads \cup {NoUpload}]
          /\ temps' \subseteq Uploads
          /\ blobs' \subseteq Uploads
          /\ durable' \subseteq Uploads
          /\ stuck' \subseteq Uploads
      BY <1>16 DEF PowerLoss
    <3>6. QED
      BY <3>1, <3>2, <3>3, <3>4, <3>5
  <2>3. HandlersMatchStores'
    BY <1>16, <2>1 DEF PowerLoss
  <2>4. RowsHaveAudio'
    BY <1>16, <2>1 DEF PowerLoss
  <2>5. FilesHaveOwners'
    BY <1>16, <2>1 DEF PowerLoss
  <2>6. RemovalsComeLast'
    BY <1>16, <2>1 DEF PowerLoss
  <2>7. QED
    BY <2>2, <2>3, <2>4, <2>5, <2>6
<1>17. CASE Restart
  BY <1>17 DEF Restart, StaleTemps, Remove
<1>18. CASE UNCHANGED vars
  BY <1>18 DEF vars
<1>19. QED
  BY <1>1, <1>2, <1>3, <1>4, <1>5, <1>6, <1>7, <1>8, <1>9, <1>10, <1>11,
     <1>12, <1>13, <1>14, <1>15, <1>16, <1>17, <1>18 DEF Next, Handle

LEMMA Invariance == Spec => []IInv
BY InitInv, StepInv, PTL DEF Spec

\* The files, rows and handlers keep their types, and every row is filed under
\* the idempotency key of the upload that made it.
THEOREM TypeCorrect == Spec => []TypeOK
<1>1. IInv => TypeOK
  BY DEF IInv
<1>2. QED
  BY <1>1, Invariance, PTL

\* create_recording and the clean-up of ingest never leave a row without its
\* audio but where the handler of the row's own upload reported an error.
THEOREM AudioKept == Spec => []RowsHaveAudio
<1>1. IInv => RowsHaveAudio
  BY DEF IInv
<1>2. QED
  BY <1>1, Invariance, PTL

\* An answered request leaves neither the temp file of a refused body nor the
\* blob of a lost race or a failed INSERT, and a process that ended leaves no
\* temp file, unless the removal of that very file failed: no path forgets it.
THEOREM LitterTried == Spec => []LitterWasTried
<1>1. IInv => LitterWasTried
  BY DEF IInv, FilesHaveOwners, LitterWasTried
<1>2. QED
  BY <1>1, Invariance, PTL

\* Of any number of racing uploads with one key, exactly the one whose row was
\* inserted is answered 201; the losers are answered 200 for a row that exists.
THEOREM AnswersRight == Spec => []AnswersAgreeWithRows
<1>1. IInv => AnswersAgreeWithRows
  BY DEF IInv, HandlersMatchStores, AnswersAgreeWithRows
<1>2. QED
  BY <1>1, Invariance, PTL
=============================================================================

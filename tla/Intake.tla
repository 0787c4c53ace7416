------------------------------- MODULE Intake -------------------------------
(***************************************************************************)
(* Uploads: the request handler that turns an audio file into a stored     *)
(* blob and a recordings row, for any number of requests at once.          *)
(*                                                                         *)
(* Two stores that no transaction spans must agree: the files under the    *)
(* data directory and the recordings table.  One action is one file        *)
(* operation, one SQL statement or one read; between two of them the       *)
(* client may go away (which drops the handler where it stands), the       *)
(* process may crash, or the machine may lose power, and with it what was  *)
(* written to a file and not yet on disk.  Every removal of a file is      *)
(* best-effort: its error is dropped, and the caller goes on.              *)
(*                                                                         *)
(* An upload is named by the recording_id its handler generates, so the    *)
(* row, the temp file and the blob of one upload bear one name.            *)
(* Definitions named Seeded... are faulty forms, as in Pipeline.           *)
(***************************************************************************)
EXTENDS Naturals, FiniteSets

CONSTANTS
    Keys,             \* idempotency keys (client_id, client_recording_id)
    Uploads,          \* upload requests, by their recording_id
    NoUpload,         \* no row
    MaxFetchFailures, \* bound on failures of create_recording's SELECT
    MaxCrashes,       \* bound on process crashes
    MaxPowerLosses,   \* bound on losses of power
    MaxRemovalFailures \* bound on steps in which a removal fails

ASSUME IntakeAssumption ==
    /\ NoUpload \notin Uploads
    /\ {MaxFetchFailures, MaxCrashes, MaxPowerLosses, MaxRemovalFailures}
         \subseteq Nat

VARIABLES
    rows,          \* table recordings: the id of each key's row
    temps,         \* files tmp/upload-<id>.part
    blobs,         \* files recordings/<id>.wav
    durable,       \* the uploads whose bytes have reached the disk
    uploads,       \* the handlers: where each is, and for which key
    running,       \* the process is up
    stuck,         \* history: the uploads with a file whose removal failed
    fetchFailures, crashes, powerLosses, removalFailures

files == <<temps, blobs, durable>>
removals == <<stuck, removalFailures>>
faults == <<fetchFailures, crashes, powerLosses, removals>>
vars == <<rows, files, uploads, running, faults>>

\* "created" (201), "duplicate" (200) and "error" are what a handler has
\* answered; "cut" is one that was dropped before it could, and "ended" one
\* that did not answer in a process that has ended since.
Points == {"new", "receiving", "stored", "finalized", "inserted", "lost",
           "failing", "created", "duplicate", "error", "cut", "ended"}

TypeOK ==
    /\ rows \in [Keys -> Uploads \cup {NoUpload}]
    /\ temps \subseteq Uploads
    /\ blobs \subseteq Uploads
    /\ durable \subseteq Uploads
    /\ uploads \in [Uploads -> [pc: Points, key: Keys]]
    /\ \A k \in Keys : rows[k] # NoUpload => uploads[rows[k]].key = k
    /\ running \in BOOLEAN
    /\ stuck \subseteq Uploads
    /\ {fetchFailures, crashes, powerLosses, removalFailures} \subseteq Nat

Init ==
    /\ rows = [k \in Keys |-> NoUpload]
    /\ temps = {}
    /\ blobs = {}
    /\ durable = {}
    /\ uploads \in [Uploads -> [pc: {"new"}, key: Keys]]
    /\ running = TRUE
    /\ stuck = {}
    /\ fetchFailures = 0
    /\ crashes = 0
    /\ powerLosses = 0
    /\ removalFailures = 0

Key(u) == uploads[u].key

At(u, pc) == running /\ uploads[u].pc = pc

Go(u, pc) == uploads' = [uploads EXCEPT ![u].pc = pc]

\* remove_temp, remove_blob and the loop of clean_stale_temp: of the
\* files `before`, those of `gone` are removed, but for some whose removal
\* fails.  No caller learns of it.
Remove(before, gone, after) ==
    \E left \in SUBSET (before \cap gone) :
        /\ after = (before \ gone) \cup left
        /\ stuck' = (stuck \ gone) \cup left
        /\ \/ left = {} /\ UNCHANGED removalFailures
           \/ /\ left # {}
              /\ removalFailures < MaxRemovalFailures
              /\ removalFailures' = removalFailures + 1

-----------------------------------------------------------------------------
(* The handler: upload_recording and ingest.                               *)

\* A known key is answered before the body is read ...
KnownDuplicate(u) ==
    /\ At(u, "new")
    /\ rows[Key(u)] # NoUpload
    /\ Go(u, "duplicate")
    /\ UNCHANGED <<rows, files, running, faults>>

\* ... an unknown one starts the upload proper.
Accept(u) ==
    /\ At(u, "new")
    /\ rows[Key(u)] = NoUpload
    /\ Go(u, "receiving")
    /\ UNCHANGED <<rows, files, running, faults>>

\* stream_to_file, and the checks of the body and of its WAV header.
StoreBody(u) ==
    /\ At(u, "receiving")
    /\ temps' = temps \cup {u}
    /\ Go(u, "stored")
    /\ UNCHANGED <<rows, blobs, durable, running, faults>>

\* The body is refused, over the budget or unreadable: the temp file, as far
\* as it was written, is removed if it can be and the client is told so.
Refuse(u) ==
    /\ \/ At(u, "receiving")
       \/ At(u, "stored")
    /\ Remove(temps, {u}, temps')
    /\ Go(u, "error")
    /\ UNCHANGED <<rows, blobs, durable, running, fetchFailures, crashes,
                   powerLosses>>

\* BlobStore::finalize, a rename.
Finalize(u) ==
    /\ At(u, "stored")
    /\ temps' = temps \ {u}
    /\ blobs' = blobs \cup {u}
    /\ Go(u, "finalized")
    /\ UNCHANGED <<rows, durable, running, faults>>

\* The row is filed by a part of its key.
SeededFiling(u) ==
    [k \in Keys |-> IF rows[k] = NoUpload THEN u ELSE rows[k]]

\* INSERT ... ON CONFLICT(client_id, client_recording_id) DO NOTHING.
Insertion(u) ==
    [rows EXCEPT ![Key(u)] = IF @ = NoUpload THEN u ELSE @]

\* create_recording's first statement, committed on its own.
InsertRow(u) ==
    /\ At(u, "finalized")
    /\ rows' = Insertion(u)
    /\ Go(u, "inserted")
    /\ UNCHANGED <<files, running, faults>>

\* The statement fails and nothing is inserted.
InsertFails(u) ==
    /\ At(u, "finalized")
    /\ Go(u, "failing")
    /\ UNCHANGED <<rows, files, running, faults>>

\* A lost race is taken for a new Recording.
SeededCreated(u) == rows[Key(u)] # NoUpload

\* rows_affected() = 1: the row under the key is this upload's.
Created(u) == rows[Key(u)] = u

\* create_recording's second statement reads the row back.
FetchCreated(u) ==
    /\ At(u, "inserted")
    /\ Created(u)
    /\ Go(u, "created")
    /\ UNCHANGED <<rows, files, running, faults>>

FetchDuplicate(u) ==
    /\ At(u, "inserted")
    /\ ~Created(u)
    /\ Go(u, "lost")
    /\ UNCHANGED <<rows, files, running, faults>>

\* It fails: create_recording returns an error although its row is there.
FetchFails(u) ==
    /\ At(u, "inserted")
    /\ fetchFailures < MaxFetchFailures
    /\ fetchFailures' = fetchFailures + 1
    /\ Go(u, "failing")
    /\ UNCHANGED <<rows, files, running, crashes, powerLosses, removals>>

\* remove_blob of an upload that lost the race takes the winner's blob.
SeededOrphan(u) == {rows[Key(u)]}

\* The file the two error paths of ingest remove: relative_path(recording_id).
Orphan(u) == {u}

\* The lost race: our blob is an orphan, the answer is the winner's row.
RemoveOrphan(u) ==
    /\ At(u, "lost")
    /\ Remove(blobs, Orphan(u), blobs')
    /\ Go(u, "duplicate")
    /\ UNCHANGED <<rows, temps, durable, running, fetchFailures, crashes,
                   powerLosses>>

\* Any error of create_recording removes the blob.
RemoveFailed(u) ==
    /\ At(u, "failing")
    /\ Remove(blobs, Orphan(u), blobs')
    /\ Go(u, "error")
    /\ UNCHANGED <<rows, temps, durable, running, fetchFailures, crashes,
                   powerLosses>>

-----------------------------------------------------------------------------
(* What happens to a handler.                                              *)

InProgress == {"receiving", "stored", "finalized", "inserted", "lost",
               "failing"}

\* Where each handler is once its process has ended.
Ended ==
    [u \in Uploads |->
        IF uploads[u].pc \in InProgress \cup {"cut"}
        THEN [uploads[u] EXCEPT !.pc = "ended"]
        ELSE uploads[u]]

\* The connection closes, and the server drops the handler at its await; a
\* temp file may have been begun.
Disconnect(u) ==
    /\ running
    /\ uploads[u].pc \in InProgress
    /\ temps' \in {temps, temps \cup ({u} \cap {v \in Uploads :
                                          uploads[v].pc = "receiving"})}
    /\ Go(u, "cut")
    /\ UNCHANGED <<rows, blobs, durable, running, faults>>

\* The system writes a file back to disk, in its own time.
WriteBack(u) ==
    /\ u \in temps \cup blobs
    /\ u \notin durable
    /\ durable' = durable \cup {u}
    /\ UNCHANGED <<rows, temps, blobs, uploads, running, faults>>

\* The process ends; the files and the rows remain.
Crash ==
    /\ running
    /\ crashes < MaxCrashes
    /\ crashes' = crashes + 1
    /\ running' = FALSE
    /\ uploads' = Ended
    /\ UNCHANGED <<rows, files, fetchFailures, powerLosses, removals>>

\* The machine loses power: SQLite syncs every commit, the handler syncs no
\* file, so a file that was not written back is lost.  (The directory is taken
\* to keep the renames and removals made in it.)
PowerLoss ==
    /\ powerLosses < MaxPowerLosses
    /\ powerLosses' = powerLosses + 1
    /\ running' = FALSE
    /\ uploads' = Ended
    /\ temps' = temps \cap durable
    /\ blobs' = blobs \cap durable
    /\ UNCHANGED <<rows, durable, fetchFailures, crashes, removals>>

\* The temp directory is left as it is.
SeededStaleTemps == {}

\* The entries of tmp/ that end in .part.
StaleTemps == temps

\* Startup: BlobStore::new removes the stale temp files it can remove.
Restart ==
    /\ ~running
    /\ running' = TRUE
    /\ Remove(temps, StaleTemps, temps')
    /\ UNCHANGED <<rows, blobs, durable, uploads, fetchFailures, crashes,
                   powerLosses>>

Handle(u) ==
    \/ KnownDuplicate(u) \/ Accept(u) \/ StoreBody(u) \/ Refuse(u)
    \/ Finalize(u) \/ InsertRow(u) \/ InsertFails(u) \/ FetchCreated(u)
    \/ FetchDuplicate(u) \/ FetchFails(u) \/ RemoveOrphan(u)
    \/ RemoveFailed(u)

Next ==
    \/ \E u \in Uploads : Handle(u) \/ Disconnect(u) \/ WriteBack(u)
    \/ Crash \/ PowerLoss \/ Restart

Spec == Init /\ [][Next]_vars

-----------------------------------------------------------------------------

\* The upload whose handler is past the rename and has not yet answered.
Placed == {"finalized", "inserted", "lost", "failing"}

\* A row names an audio file that is there, unless the handler of its upload
\* ended in an error (the SELECT after the
\* INSERT failed), or the machine lost power.
RowsHaveAudio ==
    powerLosses = 0 =>
        \A k \in Keys :
            rows[k] # NoUpload =>
                \/ rows[k] \in blobs
                \/ uploads[rows[k]].pc = "error"

\* A client told "created" owns the row of its key, and one told "duplicate"
\* that there is one: whichever handler won the race, the losers point their
\* clients at the same Recording, and every retry finds it.
AnswersAgreeWithRows ==
    \A u \in Uploads :
        /\ uploads[u].pc = "created" => rows[Key(u)] = u
        /\ uploads[u].pc = "duplicate" => rows[Key(u)] \notin {u, NoUpload}

\* No file is left behind whose removal was not tried: a temp file belongs to a
\* handler of this very process that still runs or was cut off (one of an
\* earlier process would stay until the next start), a blob without a row to a
\* handler that still runs or was cut off by a disconnect, a crash or a loss of
\* power; or else the last removal of the file, by its handler or by the
\* startup, failed.
LitterWasTried ==
    running =>
        /\ \A u \in temps :
             uploads[u].pc \in {"stored", "cut"} \/ u \in stuck
        /\ \A u \in blobs :
             \/ rows[Key(u)] = u
             \/ uploads[u].pc \in Placed \cup {"cut", "ended"}
             \/ u \in stuck

\* The ordering of ingest "favors at most an orphaned final blob over a DB row
\* that points at a missing file" (src/http/api.rs).
RowsPointAtFiles ==
    \A k \in Keys : rows[k] # NoUpload => rows[k] \in blobs

\* An upload is accepted "only through durable local storage" (ADR 0002): the
\* audio of a Recording reported as created stays.
CreatedAudioStays ==
    \A u \in Uploads : uploads[u].pc = "created" => u \in blobs
=============================================================================

----------------------------- MODULE SonioxJob -----------------------------
(***************************************************************************)
(* One call of SonioxTranscriber::run (src/soniox/mod.rs) and the files    *)
(* and transcriptions it leaves at the provider.  A request is in flight   *)
(* until the provider carries it out or it is lost; the answer the job     *)
(* sees comes on its own, so that an error answer says nothing about what  *)
(* the provider did or will still do.  The future of a job is dropped with *)
(* the process (Drop), at whichever await it stands.  The worker that      *)
(* calls the job and the process around it are module Service.             *)
(***************************************************************************)
EXTENDS Integers, FiniteSets

CONSTANTS
    MaxPolls,   \* max_polls; DEFAULT_MAX_POLLS is 900
    MaxJobs     \* bound: how many jobs the provider ever sees

ASSUME JobAssumption == MaxPolls \in Nat \ {0} /\ MaxJobs \in Nat

VARIABLES
    stage,      \* the await at which the job stands
    job,        \* the number of the current job, or of the last one
    polls,      \* polls of this job whose answer was "not yet"
    verdict,    \* what run() is going to return
    calls,      \* requests that change the provider, sent and not yet settled
    held,       \* the resources that exist at the provider
    unaccounted \* resources no later step of the center knows about

jobVars == <<stage, job, polls, verdict, calls, held, unaccounted>>

Stages == {"idle", "reading", "uploading", "creating", "polling", "pausing",
           "fetching", "deleting_transcription", "deleting_file", "returned"}
Ending == {"deleting_transcription", "deleting_file", "returned"}
Verdicts == {"none", "ok", "retryable", "terminal"}
Resources == [kind : {"file", "transcription"}, job : 1..MaxJobs]
Calls == [verb : {"create", "delete"}, what : Resources]

File(j) == [kind |-> "file", job |-> j]
Transcription(j) == [kind |-> "transcription", job |-> j]
Create(r) == [verb |-> "create", what |-> r]
Delete(r) == [verb |-> "delete", what |-> r]

\* SonioxError.  A status stands for its class: 404 for the other 4xx, 500
\* for 5xx; cap says that a 429 names a persistent limit.
SonioxError ==
    [kind : {"transport", "decode"}] \cup
    [kind : {"http"}, status : {404, 409, 429, 500}, cap : BOOLEAN]

is_not_found(error) == error.kind = "http" /\ error.status = 404

is_retryable_http(error) ==
    \/ error.status = 429 /\ ~error.cap
    \/ error.status >= 500
    \/ error.status = 409

into_worker_failure(error) ==
    IF \/ error.kind = "transport"
       \/ error.kind = "http" /\ is_retryable_http(error)
    THEN "retryable"
    ELSE "terminal"

\* What the job may have created and has not yet deleted.
Open ==
    CASE stage = "uploading" -> {File(job)}
      [] stage \in {"creating", "polling", "pausing", "fetching",
                    "deleting_transcription"} ->
            {File(job), Transcription(job)}
      [] stage = "deleting_file" -> {File(job)}
      [] OTHER -> {}

JobInit ==
    /\ stage = "idle"
    /\ job = 0
    /\ polls = 0
    /\ verdict = "none"
    /\ calls = {}
    /\ held = {}
    /\ unaccounted = {}
-----------------------------------------------------------------------------
(* The provider.                                                           *)

\* It carries out a request that has reached it, however late.  It refuses
\* to transcribe a file it does not hold.
Carry(call) ==
    /\ call \in calls
    /\ call.verb = "create" /\ call.what.kind = "transcription"
       => File(call.what.job) \in held
    /\ calls' = calls \ {call}
    /\ held' = IF call.verb = "create"
               THEN held \cup {call.what}
               ELSE held \ {call.what}
    /\ UNCHANGED <<stage, job, polls, verdict, unaccounted>>

\* A request that never arrives, or is refused.
Lose(call) ==
    /\ call \in calls
    /\ calls' = calls \ {call}
    /\ UNCHANGED <<stage, job, polls, verdict, held, unaccounted>>
-----------------------------------------------------------------------------
(* The job.                                                                *)

Go(to) == stage' = to /\ UNCHANGED job

Send(call) == calls' = calls \cup {call} /\ UNCHANGED held

\* cleanup() begins with the transcription.
Cleanup(result) ==
    /\ verdict' = result
    /\ Go("deleting_transcription")
    /\ Send(Delete(Transcription(job)))
    /\ polls' = 0
    /\ UNCHANGED unaccounted

\* transcribe() is called.
BeginJob ==
    /\ stage = "idle"
    /\ job < MaxJobs
    /\ stage' = "reading"
    /\ job' = job + 1
    /\ UNCHANGED <<polls, verdict, calls, held, unaccounted>>

ReadAudio ==
    /\ stage = "reading"
    /\ Go("uploading")
    /\ Send(Create(File(job)))
    /\ UNCHANGED <<polls, verdict, unaccounted>>

AudioUnreadable ==
    /\ stage = "reading"
    /\ Go("returned")
    /\ verdict' = "terminal"
    /\ UNCHANGED <<polls, calls, held, unaccounted>>

Uploaded ==
    /\ stage = "uploading"
    /\ Create(File(job)) \notin calls
    /\ File(job) \in held
    /\ Go("creating")
    /\ Send(Create(Transcription(job)))
    /\ UNCHANGED <<polls, verdict, unaccounted>>

\* Without an answer there is no file id, so nothing to delete.
UploadFails(error) ==
    /\ stage = "uploading"
    /\ Go("returned")
    /\ verdict' = into_worker_failure(error)
    /\ unaccounted' = unaccounted \cup {File(job)}
    /\ UNCHANGED <<polls, calls, held>>

Created ==
    /\ stage = "creating"
    /\ Create(Transcription(job)) \notin calls
    /\ Transcription(job) \in held
    /\ Go("polling")
    /\ UNCHANGED <<polls, verdict, calls, held, unaccounted>>

\* Seeded bug: the orphan file is forgotten.
SeededCreateFails(error) ==
    /\ stage = "creating"
    /\ Go("returned")
    /\ verdict' = into_worker_failure(error)
    /\ unaccounted' = unaccounted \cup {Transcription(job)}
    /\ UNCHANGED <<polls, calls, held>>

\* The uploaded file is an orphan: cleanup_file().
CreateFails(error) ==
    /\ stage = "creating"
    /\ Go("deleting_file")
    /\ Send(Delete(File(job)))
    /\ verdict' = into_worker_failure(error)
    /\ unaccounted' = unaccounted \cup {Transcription(job)}
    /\ UNCHANGED polls

\* Seeded bug: a status other than queued and processing is not counted.
SeededNotYet ==
    /\ stage = "polling"
    /\ Go("pausing")
    /\ polls' \in {polls, polls + 1}
    /\ UNCHANGED <<verdict, calls, held, unaccounted>>

\* queued, processing and any unknown status.
NotYet ==
    /\ stage = "polling"
    /\ Go("pausing")
    /\ polls' = polls + 1
    /\ UNCHANGED <<verdict, calls, held, unaccounted>>

Completed ==
    /\ stage = "polling"
    /\ Go("fetching")
    /\ polls' = 0
    /\ UNCHANGED <<verdict, calls, held, unaccounted>>

\* Status error, or a document without a status.
ProviderFails == stage = "polling" /\ Cleanup("terminal")

PollFails(error) ==
    stage = "polling" /\ Cleanup(into_worker_failure(error))

\* Seeded bug: one poll beyond the budget.
SeededPause ==
    /\ stage = "pausing"
    /\ IF polls <= MaxPolls
       THEN /\ Go("polling")
            /\ UNCHANGED <<polls, verdict, calls, held, unaccounted>>
       ELSE Cleanup("retryable")

\* The sleep after the last poll of the budget ends the loop.
Pause ==
    /\ stage = "pausing"
    /\ IF polls < MaxPolls
       THEN /\ Go("polling")
            /\ UNCHANGED <<polls, verdict, calls, held, unaccounted>>
       ELSE Cleanup("retryable")

Fetched == stage = "fetching" /\ Cleanup("ok")

FetchFails(error) ==
    stage = "fetching" /\ Cleanup(into_worker_failure(error))

\* Cleanup is best effort: the answer is success, a 404 that counts as
\* success, or an error that is only logged.
Discard(r) ==
    \/ /\ Delete(r) \notin calls
       /\ r \notin held
       /\ UNCHANGED unaccounted
    \/ /\ \E error \in SonioxError : ~is_not_found(error)
       /\ unaccounted' = unaccounted \cup {r}

CleanupTranscription ==
    /\ stage = "deleting_transcription"
    /\ Discard(Transcription(job))
    /\ Go("deleting_file")
    /\ Send(Delete(File(job)))
    /\ UNCHANGED <<polls, verdict>>

\* Seeded bug: a resource that stays behind fails the job.
SeededCleanupFile ==
    /\ stage = "deleting_file"
    /\ Discard(File(job))
    /\ Go("returned")
    /\ verdict' = IF File(job) \in unaccounted' THEN "retryable" ELSE verdict
    /\ UNCHANGED <<polls, calls, held>>

CleanupFile ==
    /\ stage = "deleting_file"
    /\ Discard(File(job))
    /\ Go("returned")
    /\ UNCHANGED <<polls, verdict, calls, held>>

\* The worker takes the result.
TakeResult ==
    /\ stage = "returned"
    /\ Go("idle")
    /\ verdict' = "none"
    /\ UNCHANGED <<polls, calls, held, unaccounted>>

\* The future is dropped: nothing is cleaned up and no id survives.
Drop ==
    /\ stage' = "idle"
    /\ polls' = 0
    /\ verdict' = "none"
    /\ unaccounted' = unaccounted \cup Open
    /\ UNCHANGED <<job, calls, held>>

\* The provider's answers.
Answer ==
    \/ Uploaded \/ Created \/ NotYet \/ Completed \/ ProviderFails \/ Fetched
    \/ \E error \in SonioxError :
            \/ UploadFails(error) \/ CreateFails(error)
            \/ PollFails(error) \/ FetchFails(error)
    \/ CleanupTranscription
    \/ CleanupFile

\* What the job does by itself.
Proceed == ReadAudio \/ AudioUnreadable \/ Pause

JobStep ==
    \/ Answer
    \/ Proceed
    \/ \E call \in calls : Carry(call) \/ Lose(call)
-----------------------------------------------------------------------------
JobTypeOK ==
    /\ stage \in Stages
    /\ job \in 0..MaxJobs
    /\ stage # "idle" => job > 0
    /\ polls \in 0..MaxPolls
    /\ stage = "polling" => polls < MaxPolls
    /\ verdict \in Verdicts
    /\ stage \in Ending => verdict # "none"
    /\ verdict # "none" => stage \in Ending
    /\ polls > 0 => stage \in {"polling", "pausing"}
    /\ calls \subseteq Calls
    /\ held \subseteq Resources
    /\ unaccounted \subseteq Resources
=============================================================================

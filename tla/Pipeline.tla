------------------------------ MODULE Pipeline ------------------------------
(***************************************************************************)
(* The background processing of Recordings: the SQLite rows that outlive   *)
(* the process, the three worker loops, the Operator's recovery requests,  *)
(* the Sink they deliver to, and the crash and restart of the process.     *)
(*                                                                         *)
(* One action is one SQLite transaction, one answer of a remote service,   *)
(* or one read whose result the code carries over an await.  A transaction *)
(* that returns an error rolls back and, in a worker, ends the process     *)
(* (run_worker_loop propagates it), which is Crash at that point.          *)
(*                                                                         *)
(* The clock is the wall clock.  The model's does not step back, which no  *)
(* line of the code ensures: the order of times is claimed for clocks that *)
(* behave, and a clock set back is outside this module.                    *)
(*                                                                         *)
(* A definition named Seeded... is not the code's: it is the faulty form   *)
(* of the definition after it, with which PROJECT.json shows that the      *)
(* property named there can fail.                                          *)
(***************************************************************************)
EXTENDS Retry, FiniteSets

CONSTANTS
    Recordings,    \* identities of Recordings
    Sinks,         \* names of configured Sinks
    NoSink,        \* no Sink: RoutingDecision::Backlog, or a NULL column
    NoRecording,   \* a worker that holds nothing
    Routers,       \* Routing workers (the process starts one)
    Requests,      \* Operator requests that can be in progress at once
    AudioDuration, \* audio_duration_ms of each Recording, 0 when unknown
    MaxTime,       \* bound on the clock
    MaxArrival,    \* bound on the clock when uploads and requests arrive
    MaxUploadLag,  \* bound on the time an upload's body takes
    MaxReadLag,    \* bound on the age of a tick's clock reading at its query
    MaxCall,       \* bound on a remote call, for liveness only
    MaxCrashes,    \* bound on the number of crashes
    MaxActions     \* bound on the Operator actions that take effect, each

ASSUME PipelineAssumption ==
    /\ NoSink \notin Sinks
    /\ NoRecording \notin Recordings
    /\ AudioDuration \in [Recordings -> Int]
    /\ {MaxTime, MaxArrival, MaxUploadLag, MaxReadLag, MaxCall, MaxCrashes,
        MaxActions}
         \subseteq Nat

VARIABLES
    recordings,             \* table recordings, one row per Recording
    transcripts,            \* table transcripts: the Recordings that have one
    transcription_attempts, \* per Recording, in attempt_number order
    deliveries,             \* table deliveries, UNIQUE(recording_id)
    delivery_attempts,      \* per Recording, in attempt_number order
    audit_events,           \* per Recording, the event types in order
    accepted,               \* per Recording, the POSTs its Sink has accepted
    running,                \* the process is up and has run its recovery
    transcriber,            \* the Transcription worker
    routers,                \* the Routing workers
    deliverer,              \* the Delivery worker
    requests,               \* the Operator requests in progress
    now,                    \* the clock
    crashes                 \* crashes so far

store == <<recordings, transcripts, transcription_attempts, deliveries,
           delivery_attempts, audit_events>>
process == <<transcriber, routers, deliverer, requests>>
vars == <<store, accepted, running, process, now, crashes>>

-----------------------------------------------------------------------------
(* Rows.  NoTime stands for a NULL timestamp.                              *)

NoTime == -1
Times == Nat \cup {NoTime}

RecordingStatuses ==
    {"received", "transcribing", "routing", "backlogged", "delivering",
     "delivered", "transcription_failed", "delivery_failed"}
DeliveryStatuses == {"delivering", "delivered", "delivery_failed"}

\* The Backlog is open to a Recording whose Sink is already selected.
SeededTransitions(from, to) ==
    from = to \/ <<from, to>> \in {"routing", "delivering"} \X
                   {"backlogged", "delivering", "delivered"}
              \/ <<from, to>> \in {"received", "transcribing"} \X
                   {"transcribing", "routing", "transcription_failed"}

\* RecordingStatus::can_transition_to.
can_transition_to(from, to) ==
    <<from, to>> \in
        {<<"received", "transcribing">>,
         <<"transcribing", "routing">>,
         <<"transcribing", "transcription_failed">>,
         <<"transcription_failed", "transcribing">>,
         <<"routing", "backlogged">>,
         <<"routing", "delivering">>,
         <<"backlogged", "delivering">>,
         <<"delivering", "delivered">>,
         <<"delivering", "delivery_failed">>,
         <<"delivery_failed", "delivering">>}

RecordingRow ==
    [status: RecordingStatuses \cup {"absent"},
     received_at: Times,
     selected_sink_name: Sinks \cup {NoSink},
     latest_error: BOOLEAN,
     retry_window_started_at: Times]

DeliveryRow ==
    [status: DeliveryStatuses \cup {"absent"},
     sink_name: Sinks \cup {NoSink},
     selected_at: Times,
     completed_at: Times,
     retry_deadline_at: Times,
     latest_error: BOOLEAN,
     retry_window_started_at: Times]

AbsentRecording ==
    [status |-> "absent", received_at |-> NoTime,
     selected_sink_name |-> NoSink, latest_error |-> FALSE,
     retry_window_started_at |-> NoTime]

AbsentDelivery ==
    [status |-> "absent", sink_name |-> NoSink, selected_at |-> NoTime,
     completed_at |-> NoTime, retry_deadline_at |-> NoTime,
     latest_error |-> FALSE, retry_window_started_at |-> NoTime]

\* retryable and terminal are status 'failed' with retryable = 1 and 0.
Attempt ==
    [started_at: Nat, finished_at: Times,
     outcome: {"in_progress", "succeeded", "retryable", "terminal"}]

NewAttempt(at) ==
    [started_at |-> at, finished_at |-> NoTime, outcome |-> "in_progress"]

IsOpen(attempt) == attempt.finished_at = NoTime

InFlight(attempts) == \E i \in DOMAIN attempts : IsOpen(attempts[i])

\* UPDATE ... SET finished_at, status, retryable WHERE id = ?
finish_attempt(attempts, i, at, outcome) ==
    [attempts EXCEPT ![i].finished_at = at, ![i].outcome = outcome]

\* Recovery does not touch the attempts of the process before.
SeededKeepAbandoned(attempts, at) == attempts

\* Recovery deletes the attempts that were open instead of closing them.
SeededDropAbandoned(attempts, at) ==
    IF InFlight(attempts) THEN SubSeq(attempts, 1, Len(attempts) - 1)
    ELSE attempts

\* Recovery closes the attempts that have ended as well.
SeededCloseAll(attempts, at) ==
    [i \in DOMAIN attempts |->
        [attempts[i] EXCEPT !.finished_at = at, !.outcome = "retryable"]]

\* The recovery's UPDATE ... WHERE finished_at IS NULL.
close_abandoned(attempts, at) ==
    [i \in DOMAIN attempts |->
        IF IsOpen(attempts[i])
        THEN [attempts[i] EXCEPT !.finished_at = at, !.outcome = "retryable"]
        ELSE attempts[i]]

\* Nothing in the list is later than `at`.
Past(attempts, at) ==
    \A i \in DOMAIN attempts :
        /\ attempts[i].started_at <= at
        /\ ~IsOpen(attempts[i]) => attempts[i].finished_at <= at

-----------------------------------------------------------------------------
(* The process.  A worker's pc names the await it is at.                   *)

IdleTranscriber ==
    [pc |-> "idle", recording |-> NoRecording, started_at |-> 0,
     attempt |-> 0, first_started_at |-> 0, result |-> "none",
     finished_at |-> 0]

IdleDeliverer ==
    [pc |-> "idle", recording |-> NoRecording, started_at |-> 0,
     attempt |-> 0, retry_deadline_at |-> NoTime, result |-> "none",
     finished_at |-> 0]

IdleRouter ==
    [pc |-> "idle", recording |-> NoRecording, decision |-> NoSink, at |-> 0]

NoRequest ==
    [kind |-> "none", recording |-> NoRecording, sink |-> NoSink, at |-> 0]

Results == {"ok", "retryable", "terminal"}
OperatorActions ==
    {"manual_routing", "manual_retry_transcription", "manual_retry_delivery"}

StoreTypeOK ==
    /\ recordings \in [Recordings -> RecordingRow]
    /\ transcripts \subseteq Recordings
    /\ transcription_attempts \in [Recordings -> Seq(Attempt)]
    /\ deliveries \in [Recordings -> DeliveryRow]
    /\ delivery_attempts \in [Recordings -> Seq(Attempt)]
    /\ audit_events \in [Recordings -> Seq(OperatorActions)]
    /\ accepted \in [Recordings -> Nat]

TranscriberTypeOK ==
    /\ transcriber \in
         [pc: {"idle", "listing", "claimed", "calling", "answered"},
          recording: Recordings \cup {NoRecording}, started_at: Nat,
          attempt: Nat, first_started_at: Nat, result: Results \cup {"none"},
          finished_at: Nat]
    /\ transcriber.pc \in {"claimed", "calling", "answered"}
         => transcriber.recording \in Recordings

RoutersTypeOK ==
    /\ routers \in
         [Routers -> [pc: {"idle", "decided"},
                      recording: Recordings \cup {NoRecording},
                      decision: Sinks \cup {NoSink}, at: Nat]]
    /\ \A w \in Routers :
         routers[w].pc # "idle" => routers[w].recording \in Recordings

DelivererTypeOK ==
    /\ deliverer \in
         [pc: {"idle", "claimed", "calling", "answered"},
          recording: Recordings \cup {NoRecording}, started_at: Nat,
          attempt: Nat, retry_deadline_at: Times,
          result: Results \cup {"none"}, finished_at: Nat]
    /\ deliverer.pc # "idle" => deliverer.recording \in Recordings

RequestsTypeOK ==
    /\ requests \in
         [Requests -> [kind: OperatorActions \cup {"none"},
                       recording: Recordings \cup {NoRecording},
                       sink: Sinks \cup {NoSink}, at: Nat]]
    /\ \A q \in Requests :
         requests[q].kind # "none" =>
           /\ requests[q].recording \in Recordings
           /\ requests[q].kind = "manual_routing"
                => requests[q].sink \in Sinks

TypeOK ==
    /\ StoreTypeOK
    /\ TranscriberTypeOK
    /\ RoutersTypeOK
    /\ DelivererTypeOK
    /\ RequestsTypeOK
    /\ running \in BOOLEAN
    /\ now \in Nat
    /\ crashes \in Nat

Init ==
    /\ recordings = [r \in Recordings |-> AbsentRecording]
    /\ transcripts = {}
    /\ transcription_attempts = [r \in Recordings |-> <<>>]
    /\ deliveries = [r \in Recordings |-> AbsentDelivery]
    /\ delivery_attempts = [r \in Recordings |-> <<>>]
    /\ audit_events = [r \in Recordings |-> <<>>]
    /\ accepted = [r \in Recordings |-> 0]
    /\ running = FALSE
    /\ transcriber = IdleTranscriber
    /\ routers = [w \in Routers |-> IdleRouter]
    /\ deliverer = IdleDeliverer
    /\ requests = [q \in Requests |-> NoRequest]
    /\ now = 0
    /\ crashes = 0

WithStatus(status) ==
    {r \in Recordings : recordings[r].status = status}

\* ORDER BY received_at, created_at: a Recording's created_at is its
\* received_at, so rows received at the same instant come in either order.
OldestReceived(S) ==
    {r \in S : \A q \in S :
        recordings[r].received_at <= recordings[q].received_at}

-----------------------------------------------------------------------------
(* Uploads: the row the upload handler inserts.                            *)

\* received_at is read when the request arrives, before its body is stored.
Upload(r) ==
    /\ running
    /\ recordings[r].status = "absent"
    /\ now <= MaxArrival
    /\ \E at \in 0..now :
         /\ now - at <= MaxUploadLag
         /\ recordings' = [recordings EXCEPT
                ![r].status = "received", ![r].received_at = at]
    /\ UNCHANGED <<transcripts, transcription_attempts, deliveries,
                   delivery_attempts, audit_events, accepted, running,
                   process, now, crashes>>

-----------------------------------------------------------------------------
(* A tick reads the clock first and then awaits its query.                 *)

\* What it may have read when the query is answered.
RecentTimes == {at \in 0..now : now - at <= MaxReadLag}

\* The same for a worker that alone writes `table`: its tick began after the
\* attempts there had ended, by its own hand or by recovery.  (A reading from
\* before a restart that closed no attempt is let in, although there is none.)
Readings(table) ==
    {at \in RecentTimes : \A r \in Recordings : Past(table[r], at)}

-----------------------------------------------------------------------------
(* The Transcription worker: transcription::tick_once.                     *)

\* claim_received_for_transcription found a row.  The recording keeps the
\* status transcribing without an attempt until the next transaction.
ClaimReceived ==
    /\ running
    /\ transcriber.pc = "idle"
    /\ \E r \in OldestReceived(WithStatus("received")),
          at \in Readings(transcription_attempts) :
         /\ can_transition_to(recordings[r].status, "transcribing")
         /\ recordings' = [recordings EXCEPT ![r].status = "transcribing"]
         /\ transcriber' = [transcriber EXCEPT
                !.pc = "claimed", !.recording = r, !.started_at = at]
    /\ UNCHANGED <<transcripts, transcription_attempts, deliveries,
                   delivery_attempts, audit_events, accepted, running,
                   routers, deliverer, requests, now, crashes>>

\* It found none: the tick goes on to list retry candidates.
NothingReceived ==
    /\ running
    /\ transcriber.pc = "idle"
    /\ WithStatus("received") = {}
    /\ \E at \in Readings(transcription_attempts) :
         transcriber' = [transcriber EXCEPT
             !.pc = "listing", !.started_at = at]
    /\ UNCHANGED <<store, accepted, running, routers, deliverer, requests,
                   now, crashes>>

\* Only a retryable last attempt makes a candidate.
SeededRetryCandidates ==
    {r \in WithStatus("transcribing") :
        /\ transcription_attempts[r] # <<>>
        /\ transcription_attempts[r][Len(transcription_attempts[r])].outcome
             = "retryable"}

\* transcription_retry_candidates.
transcription_retry_candidates ==
    {r \in WithStatus("transcribing") :
        /\ transcription_attempts[r] # <<>>
        /\ ~InFlight(transcription_attempts[r])}

\* A window opened at the instant of the failure still counts as newer.
SeededTranscriptionDue(r, at) ==
    LET attempts == transcription_attempts[r]
        last == attempts[Len(attempts)]
    IN  \/ recordings[r].retry_window_started_at >= last.finished_at
        \/ at >= next_retry_at(last.finished_at, Len(attempts))

\* The loop body of pick_due_retry, for a tick that read the clock at `at`.
TranscriptionDue(r, at) ==
    LET attempts == transcription_attempts[r]
        last == attempts[Len(attempts)]
    IN  \/ recordings[r].retry_window_started_at > last.finished_at
        \/ at >= next_retry_at(last.finished_at, Len(attempts))

DueTranscriptions(at) ==
    {r \in transcription_retry_candidates : TranscriptionDue(r, at)}

PickDueRetry ==
    /\ running
    /\ transcriber.pc = "listing"
    /\ \E r \in OldestReceived(DueTranscriptions(transcriber.started_at)) :
         transcriber' = [transcriber EXCEPT !.pc = "claimed", !.recording = r]
    /\ UNCHANGED <<store, accepted, running, routers, deliverer, requests,
                   now, crashes>>

NoDueRetry ==
    /\ running
    /\ transcriber.pc = "listing"
    /\ DueTranscriptions(transcriber.started_at) = {}
    /\ transcriber' = IdleTranscriber
    /\ UNCHANGED <<store, accepted, running, routers, deliverer, requests,
                   now, crashes>>

\* The deadline always counts from the first attempt.
SeededFirstStart(r, attempts) == {attempts[1].started_at}

\* The window column is used without asking whether it is NULL.
SeededNullAnchor(r, attempts) == {recordings[r].retry_window_started_at}

\* The anchor of the deadline: the Operator's window, or the first start.
RetryAnchors(r, attempts) ==
    LET starts == {attempts[i].started_at : i \in DOMAIN attempts}
    IN  IF recordings[r].retry_window_started_at # NoTime
        THEN {recordings[r].retry_window_started_at}
        ELSE {t \in starts : \A s \in starts : t <= s}

\* start_transcription_attempt: no attempt is started beside an open one.
StartTranscriptionAttempt ==
    /\ running
    /\ transcriber.pc = "claimed"
    /\ LET r == transcriber.recording
           attempts == Append(transcription_attempts[r],
                              NewAttempt(transcriber.started_at))
       IN  IF InFlight(transcription_attempts[r])
           THEN /\ transcriber' = IdleTranscriber
                /\ UNCHANGED transcription_attempts
           ELSE /\ transcription_attempts' =
                     [transcription_attempts EXCEPT ![r] = attempts]
                /\ \E anchor \in RetryAnchors(r, attempts) :
                     transcriber' = [transcriber EXCEPT
                         !.pc = "calling", !.attempt = Len(attempts),
                         !.first_started_at = anchor]
    /\ UNCHANGED <<recordings, transcripts, deliveries, delivery_attempts,
                   audit_events, accepted, running, routers, deliverer,
                   requests, now, crashes>>

\* transcriber.transcribe returns, and the clock is read again.
TranscriberReturns ==
    /\ running
    /\ transcriber.pc = "calling"
    /\ \E result \in Results :
         transcriber' = [transcriber EXCEPT
             !.pc = "answered", !.result = result, !.finished_at = now]
    /\ UNCHANGED <<store, accepted, running, routers, deliverer, requests,
                   now, crashes>>

\* The finishing of the attempt row that each outcome begins with.
FinishTranscriptionAttempt(outcome) ==
    transcription_attempts' =
        [transcription_attempts EXCEPT ![transcriber.recording] =
            finish_attempt(@, transcriber.attempt, transcriber.finished_at,
                           outcome)]

TranscriptionExpired ==
    transcriber.finished_at >=
        transcription_deadline(transcriber.first_started_at,
                               AudioDuration[transcriber.recording])

\* succeed_transcription: the Transcript is the Recording's first (a primary
\* key) and the Recording moves to routing in the same transaction.
SucceedTranscription ==
    /\ running
    /\ transcriber.pc = "answered"
    /\ transcriber.result = "ok"
    /\ transcriber.recording \notin transcripts
    /\ can_transition_to(recordings[transcriber.recording].status, "routing")
    /\ FinishTranscriptionAttempt("succeeded")
    /\ transcripts' = transcripts \cup {transcriber.recording}
    /\ recordings' = [recordings EXCEPT
           ![transcriber.recording].status = "routing"]
    /\ transcriber' = IdleTranscriber
    /\ UNCHANGED <<deliveries, delivery_attempts, audit_events, accepted,
                   running, routers, deliverer, requests, now, crashes>>

\* retry_transcription: the Recording stays in transcribing.
RetryTranscription ==
    /\ running
    /\ transcriber.pc = "answered"
    /\ transcriber.result = "retryable"
    /\ ~TranscriptionExpired
    /\ FinishTranscriptionAttempt("retryable")
    /\ recordings' = [recordings EXCEPT
           ![transcriber.recording].latest_error = TRUE]
    /\ transcriber' = IdleTranscriber
    /\ UNCHANGED <<transcripts, deliveries, delivery_attempts, audit_events,
                   accepted, running, routers, deliverer, requests, now,
                   crashes>>

\* fail_transcription: a terminal failure, or a retryable one that is late.
FailTranscription ==
    /\ running
    /\ transcriber.pc = "answered"
    /\ \/ transcriber.result = "terminal"
       \/ transcriber.result = "retryable" /\ TranscriptionExpired
    /\ can_transition_to(recordings[transcriber.recording].status,
                         "transcription_failed")
    /\ FinishTranscriptionAttempt("terminal")
    /\ recordings' = [recordings EXCEPT
           ![transcriber.recording].status = "transcription_failed",
           ![transcriber.recording].latest_error = TRUE]
    /\ transcriber' = IdleTranscriber
    /\ UNCHANGED <<transcripts, deliveries, delivery_attempts, audit_events,
                   accepted, running, routers, deliverer, requests, now,
                   crashes>>

-----------------------------------------------------------------------------
(* The Routing workers: routing::tick_once.  The decision is the Router's; *)
(* nothing is assumed of it here, so it may differ from one process to the *)
(* next as the configured rules may.                                       *)

PickRouting(w) ==
    /\ running
    /\ routers[w].pc = "idle"
    /\ \E r \in OldestReceived(WithStatus("routing")),
          decision \in Sinks \cup {NoSink}, at \in RecentTimes :
         routers' = [routers EXCEPT ![w] =
             [pc |-> "decided", recording |-> r, decision |-> decision,
              at |-> at]]
    /\ UNCHANGED <<store, accepted, running, transcriber, deliverer,
                   requests, now, crashes>>

\* insert_delivery, where the UNIQUE recording_id allows it.
insert_delivery(r, sink, at) ==
    /\ deliveries[r] = AbsentDelivery
    /\ deliveries' = [deliveries EXCEPT ![r] =
           [AbsentDelivery EXCEPT
               !.status = "delivering", !.sink_name = sink,
               !.selected_at = at,
               !.retry_deadline_at = at + DELIVERY_WINDOW]]

\* route_to_sink: the conditional UPDATE claims the Recording, or another
\* worker has handled it and nothing changes.
RouteToSink(w) ==
    /\ running
    /\ routers[w].pc = "decided"
    /\ routers[w].decision # NoSink
    /\ LET r == routers[w].recording
           sink == routers[w].decision
       IN  IF recordings[r].status = "routing"
           THEN /\ recordings' = [recordings EXCEPT
                       ![r].status = "delivering",
                       ![r].selected_sink_name = sink]
                /\ insert_delivery(r, sink, routers[w].at)
           ELSE UNCHANGED <<recordings, deliveries>>
    /\ routers' = [routers EXCEPT ![w] = IdleRouter]
    /\ UNCHANGED <<transcripts, transcription_attempts, delivery_attempts,
                   audit_events, accepted, running, transcriber, deliverer,
                   requests, now, crashes>>

\* mark_backlogged: an InvalidTransition is tolerated by the tick.
MarkBacklogged(w) ==
    /\ running
    /\ routers[w].pc = "decided"
    /\ routers[w].decision = NoSink
    /\ LET r == routers[w].recording
       IN  IF can_transition_to(recordings[r].status, "backlogged")
           THEN recordings' = [recordings EXCEPT ![r].status = "backlogged"]
           ELSE UNCHANGED recordings
    /\ routers' = [routers EXCEPT ![w] = IdleRouter]
    /\ UNCHANGED <<transcripts, transcription_attempts, deliveries,
                   delivery_attempts, audit_events, accepted, running,
                   transcriber, deliverer, requests, now, crashes>>

-----------------------------------------------------------------------------
(* The Delivery worker: delivery::tick_once.                               *)

\* Delivered rows are candidates too.
SeededDeliveryCandidates ==
    {r \in Recordings : /\ deliveries[r].status \in {"delivering", "delivered"}
                        /\ ~InFlight(delivery_attempts[r])}

\* delivery_candidates.
delivery_candidates ==
    {r \in Recordings : /\ deliveries[r].status = "delivering"
                        /\ ~InFlight(delivery_attempts[r])}

\* The loop body of pick_due_delivery.
DeliveryDue(r, at) ==
    LET attempts == delivery_attempts[r]
        last == attempts[Len(attempts)]
    IN  IF attempts = <<>>
        THEN \/ deliveries[r].retry_window_started_at # NoTime
             \/ at >= deliveries[r].selected_at
        ELSE \/ deliveries[r].retry_window_started_at > last.finished_at
             \/ at >= next_retry_at(last.finished_at, Len(attempts))

DueDeliveries(at) == {r \in delivery_candidates : DeliveryDue(r, at)}

\* The candidates come ORDER BY selected_at, each with its Transcript, without
\* which the query fails; the tick keeps the Delivery row as it read it, retry
\* deadline included.
PickDueDelivery ==
    /\ running
    /\ deliverer.pc = "idle"
    /\ delivery_candidates \subseteq transcripts
    /\ \E at \in Readings(delivery_attempts) : \E r \in DueDeliveries(at) :
         /\ \A q \in DueDeliveries(at) :
              deliveries[r].selected_at <= deliveries[q].selected_at
         /\ deliverer' = [deliverer EXCEPT
                !.pc = "claimed", !.recording = r, !.started_at = at,
                !.retry_deadline_at = deliveries[r].retry_deadline_at]
    /\ UNCHANGED <<store, accepted, running, transcriber, routers, requests,
                   now, crashes>>

\* start_delivery_attempt.
StartDeliveryAttempt ==
    /\ running
    /\ deliverer.pc = "claimed"
    /\ LET r == deliverer.recording
           attempts == Append(delivery_attempts[r],
                              NewAttempt(deliverer.started_at))
       IN  IF InFlight(delivery_attempts[r])
           THEN /\ deliverer' = IdleDeliverer
                /\ UNCHANGED delivery_attempts
           ELSE /\ delivery_attempts' =
                     [delivery_attempts EXCEPT ![r] = attempts]
                /\ deliverer' = [deliverer EXCEPT
                       !.pc = "calling", !.attempt = Len(attempts)]
    /\ UNCHANGED <<recordings, transcripts, transcription_attempts,
                   deliveries, audit_events, accepted, running, transcriber,
                   routers, requests, now, crashes>>

\* Any answer of the Sink may count as a success.
SeededAnswers == Results \X BOOLEAN

\* What sink.deliver returns, and whether the Sink accepted the payload: a 2xx
\* is an acceptance, and one whose answer is lost comes back as a failure.
SinkAnswers ==
    {answer \in Results \X BOOLEAN : answer[1] = "ok" => answer[2]}

\* sink.deliver returns, and the clock is read again.
SinkReturns ==
    /\ running
    /\ deliverer.pc = "calling"
    /\ \E answer \in SinkAnswers :
         /\ deliverer' = [deliverer EXCEPT
                !.pc = "answered", !.result = answer[1], !.finished_at = now]
         /\ accepted' = [accepted EXCEPT
                ![deliverer.recording] = IF answer[2] THEN @ + 1 ELSE @]
    /\ UNCHANGED <<store, running, transcriber, routers, requests, now,
                   crashes>>

FinishDeliveryAttempt(outcome) ==
    delivery_attempts' =
        [delivery_attempts EXCEPT ![deliverer.recording] =
            finish_attempt(@, deliverer.attempt, deliverer.finished_at,
                           outcome)]

DeliveryExpired ==
    /\ deliverer.retry_deadline_at # NoTime
    /\ deliverer.finished_at >= deliverer.retry_deadline_at

\* succeed_delivery: latest_error stays as the last failure left it.
SucceedDelivery ==
    /\ running
    /\ deliverer.pc = "answered"
    /\ deliverer.result = "ok"
    /\ can_transition_to(recordings[deliverer.recording].status, "delivered")
    /\ FinishDeliveryAttempt("succeeded")
    /\ deliveries' = [deliveries EXCEPT
           ![deliverer.recording].status = "delivered",
           ![deliverer.recording].completed_at = deliverer.finished_at]
    /\ recordings' = [recordings EXCEPT
           ![deliverer.recording].status = "delivered"]
    /\ deliverer' = IdleDeliverer
    /\ UNCHANGED <<transcripts, transcription_attempts, audit_events,
                   accepted, running, transcriber, routers, requests, now,
                   crashes>>

\* retry_delivery.
RetryDelivery ==
    /\ running
    /\ deliverer.pc = "answered"
    /\ deliverer.result = "retryable"
    /\ ~DeliveryExpired
    /\ FinishDeliveryAttempt("retryable")
    /\ deliveries' = [deliveries EXCEPT
           ![deliverer.recording].latest_error = TRUE]
    /\ recordings' = [recordings EXCEPT
           ![deliverer.recording].latest_error = TRUE]
    /\ deliverer' = IdleDeliverer
    /\ UNCHANGED <<transcripts, transcription_attempts, audit_events,
                   accepted, running, transcriber, routers, requests, now,
                   crashes>>

\* fail_delivery.
FailDelivery ==
    /\ running
    /\ deliverer.pc = "answered"
    /\ \/ deliverer.result = "terminal"
       \/ deliverer.result = "retryable" /\ DeliveryExpired
    /\ can_transition_to(recordings[deliverer.recording].status,
                         "delivery_failed")
    /\ FinishDeliveryAttempt("terminal")
    /\ deliveries' = [deliveries EXCEPT
           ![deliverer.recording].status = "delivery_failed",
           ![deliverer.recording].completed_at = deliverer.finished_at,
           ![deliverer.recording].latest_error = TRUE]
    /\ recordings' = [recordings EXCEPT
           ![deliverer.recording].status = "delivery_failed",
           ![deliverer.recording].latest_error = TRUE]
    /\ deliverer' = IdleDeliverer
    /\ UNCHANGED <<transcripts, transcription_attempts, audit_events,
                   accepted, running, transcriber, routers, requests, now,
                   crashes>>

-----------------------------------------------------------------------------
(* The Operator.  A request names a Recording by the page it was sent      *)
(* from, which may be stale, and reads the clock before its transaction.   *)

SubmitRequest(q) ==
    /\ running
    /\ requests[q] = NoRequest
    /\ now <= MaxArrival
    /\ \E kind \in OperatorActions,
          r \in {x \in Recordings : recordings[x].status # "absent"},
          sink \in Sinks :
         /\ Len(audit_events[r]) < MaxActions
         /\ requests' = [requests EXCEPT ![q] =
                [kind |-> kind, recording |-> r, at |-> now,
                 sink |-> IF kind = "manual_routing" THEN sink ELSE NoSink]]
    /\ UNCHANGED <<store, accepted, running, transcriber, routers, deliverer,
                   now, crashes>>

\* What every accepted request does besides its own change.
Audit(q) ==
    /\ audit_events' = [audit_events EXCEPT
           ![requests[q].recording] = Append(@, requests[q].kind)]
    /\ requests' = [requests EXCEPT ![q] = NoRequest]
    /\ UNCHANGED <<transcripts, transcription_attempts, delivery_attempts,
                   accepted, running, transcriber, routers, deliverer, now,
                   crashes>>

\* manual_route: only a backlogged Recording.
ManualRoute(q) ==
    LET r == requests[q].recording IN
    /\ running
    /\ requests[q].kind = "manual_routing"
    /\ recordings[r].status = "backlogged"
    /\ insert_delivery(r, requests[q].sink, requests[q].at)
    /\ recordings' = [recordings EXCEPT
           ![r].status = "delivering",
           ![r].selected_sink_name = requests[q].sink]
    /\ Audit(q)

\* A Recording that is being transcribed may be retried as well.
SeededTranscriptionRetry(r) ==
    recordings[r].status \in {"transcription_failed", "transcribing"}

TranscriptionRetryAllowed(r) ==
    recordings[r].status = "transcription_failed"

\* manual_retry_transcription: only from transcription_failed.
ManualRetryTranscription(q) ==
    LET r == requests[q].recording IN
    /\ running
    /\ requests[q].kind = "manual_retry_transcription"
    /\ TranscriptionRetryAllowed(r)
    /\ recordings' = [recordings EXCEPT
           ![r].status = "transcribing",
           ![r].latest_error = FALSE,
           ![r].retry_window_started_at = requests[q].at]
    /\ UNCHANGED deliveries
    /\ Audit(q)

\* A Delivery that is in progress may be retried as well.
SeededDeliveryRetry(r) ==
    recordings[r].status \in {"delivery_failed", "delivering"}

DeliveryRetryAllowed(r) == recordings[r].status = "delivery_failed"

\* The retry counts as a new selection.
SeededReopened(row, at) ==
    [row EXCEPT !.status = "delivering", !.completed_at = NoTime,
                !.selected_at = at,
                !.retry_deadline_at = at + DELIVERY_WINDOW,
                !.latest_error = FALSE]

\* The Delivery row after a manual retry.
Reopened(row, at) ==
    [row EXCEPT !.status = "delivering", !.completed_at = NoTime,
                !.retry_deadline_at = at + DELIVERY_WINDOW,
                !.latest_error = FALSE, !.retry_window_started_at = at]

\* manual_retry_delivery: only from delivery_failed, to the Sink it has.
ManualRetryDelivery(q) ==
    LET r == requests[q].recording IN
    /\ running
    /\ requests[q].kind = "manual_retry_delivery"
    /\ DeliveryRetryAllowed(r)
    /\ deliveries[r] # AbsentDelivery
    /\ deliveries' = [deliveries EXCEPT ![r] = Reopened(@, requests[q].at)]
    /\ recordings' = [recordings EXCEPT
           ![r].status = "delivering",
           ![r].latest_error = FALSE]
    /\ Audit(q)

\* The request is refused (409), fails (500) or its connection goes away.
EndRequest(q) ==
    /\ running
    /\ requests[q] # NoRequest
    /\ requests' = [requests EXCEPT ![q] = NoRequest]
    /\ UNCHANGED <<store, accepted, running, transcriber, routers, deliverer,
                   now, crashes>>

-----------------------------------------------------------------------------
(* The process and the clock.                                              *)

\* Recovery leaves the status of every Recording alone.
SeededNoRevert(r) == recordings[r].status

\* A claim without an attempt goes back to received.
RecoveredStatus(r) ==
    IF /\ recordings[r].status = "transcribing"
       /\ transcription_attempts[r] = <<>>
    THEN "received"
    ELSE recordings[r].status

\* Startup: recover_abandoned_attempts in one transaction, before any worker
\* or request.  The attempts it closes count when it looks for claims that
\* have none.
Recover ==
    /\ ~running
    /\ recordings' = [r \in Recordings |->
           [recordings[r] EXCEPT
               !.status = RecoveredStatus(r),
               !.latest_error = \/ @
                                \/ InFlight(transcription_attempts[r])
                                \/ InFlight(delivery_attempts[r])]]
    /\ transcription_attempts' = [r \in Recordings |->
           close_abandoned(transcription_attempts[r], now)]
    /\ delivery_attempts' = [r \in Recordings |->
           close_abandoned(delivery_attempts[r], now)]
    /\ running' = TRUE
    /\ UNCHANGED <<transcripts, deliveries, audit_events, accepted, process,
                   now, crashes>>

\* The process ends, at any point: killed, or by an error of a worker loop,
\* or past the shutdown grace period.  What it held in memory is gone.
Crash ==
    /\ running
    /\ crashes < MaxCrashes
    /\ crashes' = crashes + 1
    /\ running' = FALSE
    /\ transcriber' = IdleTranscriber
    /\ routers' = [w \in Routers |-> IdleRouter]
    /\ deliverer' = IdleDeliverer
    /\ requests' = [q \in Requests |-> NoRequest]
    /\ UNCHANGED <<store, accepted, now>>

Tick ==
    /\ now < MaxTime
    /\ now' = now + 1
    /\ UNCHANGED <<store, accepted, running, process, crashes>>

TranscriptionStep ==
    \/ ClaimReceived \/ NothingReceived \/ PickDueRetry \/ NoDueRetry
    \/ StartTranscriptionAttempt \/ TranscriberReturns
    \/ SucceedTranscription \/ RetryTranscription \/ FailTranscription

RoutingStep(w) == PickRouting(w) \/ RouteToSink(w) \/ MarkBacklogged(w)

DeliveryStep ==
    \/ PickDueDelivery \/ StartDeliveryAttempt \/ SinkReturns
    \/ SucceedDelivery \/ RetryDelivery \/ FailDelivery

AnswerRequest(q) ==
    \/ ManualRoute(q) \/ ManualRetryTranscription(q) \/ ManualRetryDelivery(q)
    \/ EndRequest(q)

ProcessStep ==
    \/ \E r \in Recordings : Upload(r)
    \/ TranscriptionStep
    \/ \E w \in Routers : RoutingStep(w)
    \/ DeliveryStep
    \/ \E q \in Requests : SubmitRequest(q) \/ AnswerRequest(q)
    \/ Recover
    \/ Crash

Next == ProcessStep \/ Tick

Spec == Init /\ [][Next]_vars

-----------------------------------------------------------------------------
(* Safety.                                                                 *)

Transcribed == {"routing", "backlogged", "delivering", "delivered",
                "delivery_failed"}

\* The tables tell one story about each Recording although several
\* transactions of three workers and the Operator write them: it has a
\* Transcript exactly from routing on, its Delivery row has the Recording's
\* own status and Sink and exists exactly from the selection on, it is
\* completed exactly when it is over, no Recording has come past Transcription
\* without an attempt, and a failed one shows its error.
RowAgrees(r) ==
    LET status == recordings[r].status IN
    /\ r \in transcripts <=> status \in Transcribed
    /\ deliveries[r].status =
         (IF status \in DeliveryStatuses THEN status ELSE "absent")
    /\ deliveries[r].sink_name = recordings[r].selected_sink_name
    /\ status \in DeliveryStatuses <=> deliveries[r].sink_name \in Sinks
    /\ status \in {"delivered", "delivery_failed"}
         <=> deliveries[r].completed_at # NoTime
    /\ status \in {"absent", "received"}
         => transcription_attempts[r] = <<>>
    /\ transcription_attempts[r] = <<>>
         => status \in {"absent", "received", "transcribing"}
    /\ status \notin DeliveryStatuses => delivery_attempts[r] = <<>>
    /\ status \in {"transcription_failed", "delivery_failed"}
         => recordings[r].latest_error

RowsAgree == \A r \in Recordings : RowAgrees(r)

\* While the process runs, an attempt row is open only as the last of its
\* Recording and only while the live worker that opened it waits for its
\* answer: after a restart nothing is left for a worker that no longer
\* exists, which the candidate queries would skip for ever.
OpenAttemptsAreHeld ==
    running =>
        \A r \in Recordings :
            /\ \A i \in DOMAIN transcription_attempts[r] :
                 IsOpen(transcription_attempts[r][i]) <=>
                   /\ transcriber.pc \in {"calling", "answered"}
                   /\ transcriber.recording = r
                   /\ i = transcriber.attempt
            /\ \A i \in DOMAIN delivery_attempts[r] :
                 IsOpen(delivery_attempts[r][i]) <=>
                   /\ deliverer.pc \in {"calling", "answered"}
                   /\ deliverer.recording = r
                   /\ i = deliverer.attempt

\* What a worker read before an await still holds when it writes: the
\* Recording it works on is in the status its finishing transaction needs, so
\* that transaction is never refused (a refusal would end the process).
WorkersKeepTheirClaim ==
    /\ transcriber.pc \in {"claimed", "calling", "answered"} =>
         recordings[transcriber.recording].status = "transcribing"
    /\ deliverer.pc # "idle" =>
         /\ recordings[deliverer.recording].status = "delivering"
         /\ deliverer.retry_deadline_at =
              deliveries[deliverer.recording].retry_deadline_at

\* What a live worker has in hand fits the rows: its attempt is the last one of
\* its Recording, a Recording claimed without an attempt is in the hands of the
\* Transcription worker, an answer "ok" is a payload accepted, and there are
\* attempts for all payloads accepted and for the one on its way.
HandsMatchRows ==
    /\ ~running => transcriber.pc = "idle" /\ deliverer.pc = "idle"
    /\ transcriber.pc \in {"calling", "answered"} =>
         /\ transcriber.attempt > 0
         /\ transcriber.attempt =
              Len(transcription_attempts[transcriber.recording])
    /\ deliverer.pc \in {"calling", "answered"} =>
         /\ deliverer.attempt > 0
         /\ deliverer.attempt = Len(delivery_attempts[deliverer.recording])
    /\ deliverer.pc = "answered" /\ deliverer.result = "ok" =>
         accepted[deliverer.recording] > 0
    /\ \A r \in Recordings :
         /\ /\ running
            /\ recordings[r].status = "transcribing"
            /\ transcription_attempts[r] = <<>>
            => transcriber.pc = "claimed" /\ transcriber.recording = r
         /\ IF deliverer.pc = "calling" /\ deliverer.recording = r
            THEN accepted[r] < Len(delivery_attempts[r])
            ELSE accepted[r] <= Len(delivery_attempts[r])

\* No Recording is stranded in an active status: while the process runs, a
\* worker holds it or a query that a worker polls returns it.
NothingStranded ==
    running =>
        \A r \in Recordings :
            /\ recordings[r].status = "transcribing" =>
                 \/ r \in transcription_retry_candidates
                 \/ /\ transcriber.recording = r
                    /\ transcriber.pc \in {"claimed", "calling", "answered"}
            /\ recordings[r].status = "delivering" =>
                 \/ /\ r \in delivery_candidates
                    /\ delivery_candidates \subseteq transcripts
                 \/ deliverer.recording = r /\ deliverer.pc # "idle"

\* A Recording shown as delivered was accepted by its Sink, and every POST the
\* Sink accepted, before a crash or a lost answer too, is covered by an
\* attempt row written before it: at-least-once Delivery leaves a trace.
DeliveriesAreRecorded ==
    \A r \in Recordings :
        /\ recordings[r].status = "delivered" => accepted[r] > 0
        /\ accepted[r] <= Len(delivery_attempts[r])

\* A failed attempt is followed by another no sooner than its backoff allows,
\* counted from its end (the restart, for an abandoned one), unless it was the
\* one an Operator answered with a manual retry.
BackoffRespected ==
    \A r \in Recordings :
        \A attempts \in {transcription_attempts[r], delivery_attempts[r]} :
            \A i \in 1..(Len(attempts) - 1) :
                \/ attempts[i].outcome = "terminal"
                \/ attempts[i + 1].started_at >=
                     next_retry_at(attempts[i].finished_at, i)

\* Each attempt has ended, no sooner than it began, before the next began.
InOrder(attempts) ==
    \A i \in DOMAIN attempts :
        /\ ~IsOpen(attempts[i]) =>
             attempts[i].started_at <= attempts[i].finished_at
        /\ i < Len(attempts) =>
             /\ ~IsOpen(attempts[i])
             /\ attempts[i].finished_at <= attempts[i + 1].started_at

\* The attempts of a Recording stand in the order of time and never overlap,
\* over crashes and restarts, clock readings of an earlier step and manual
\* retries, so the last row is the latest attempt, as the workers and the
\* detail page take it to be.
AttemptsInOrder ==
    \A r \in Recordings :
        InOrder(transcription_attempts[r]) /\ InOrder(delivery_attempts[r])

\* Once a Sink is selected the Delivery keeps its Sink, its selection time and
\* so its identity (the X-Request-ID receivers deduplicate by), through every
\* retry, restart and Operator action.
SinkChosenOnce ==
    [][\A r \in Recordings :
          deliveries[r].status # "absent" =>
              /\ deliveries'[r].status # "absent"
              /\ deliveries'[r].sink_name = deliveries[r].sink_name
              /\ deliveries'[r].selected_at = deliveries[r].selected_at]_vars

\* A delivered Recording is done: it stays delivered and is not sent again.
DeliveredIsFinal ==
    [][\A r \in Recordings :
          recordings[r].status = "delivered" =>
              /\ recordings'[r].status = "delivered"
              /\ accepted'[r] = accepted[r]]_vars

Wakes == [backlogged |-> "manual_routing",
          transcription_failed |-> "manual_retry_transcription",
          delivery_failed |-> "manual_retry_delivery"]

\* A resting Recording is woken only by the Operator action meant for it,
\* which leaves exactly one audit event, and no audit event appears otherwise,
\* however requests, workers and restarts interleave.
WokenOnlyByOperator ==
    [][\A r \in Recordings :
          LET old == recordings[r].status IN
          IF old \in DOMAIN Wakes /\ recordings'[r].status # old
          THEN audit_events'[r] = Append(audit_events[r], Wakes[old])
          ELSE audit_events'[r] = audit_events[r]]_vars

\* A retryable failure ends the work only after the window now on the rows: the
\* Operator's fresh one after a manual retry, although the worker compares
\* with the anchor or the deadline it read when the attempt began.
NoEarlyGiveUp ==
    [][\A r \in Recordings :
          /\ /\ recordings[r].status = "transcribing"
             /\ recordings'[r].status = "transcription_failed"
             /\ transcriber.result = "retryable"
             => transcriber.finished_at >=
                  transcription_deadline(
                    IF recordings[r].retry_window_started_at # NoTime
                    THEN recordings[r].retry_window_started_at
                    ELSE transcription_attempts[r][1].started_at,
                    AudioDuration[r])
          /\ /\ recordings[r].status = "delivering"
             /\ recordings'[r].status = "delivery_failed"
             /\ deliverer.result = "retryable"
             => deliverer.finished_at >= DELIVERY_WINDOW +
                  (IF deliveries[r].retry_window_started_at # NoTime
                   THEN deliveries[r].retry_window_started_at
                   ELSE deliveries[r].selected_at)]_vars

\* The pipeline is one implementation of the lifecycle a Recording is
\* promised: attempts, clocks, crashes and queues add no step to it.
Lifecycle == INSTANCE RecordingLifecycle WITH
    status <- [r \in Recordings |-> recordings[r].status],
    transcript <- [r \in Recordings |-> r \in transcripts],
    sink <- [r \in Recordings |-> recordings[r].selected_sink_name],
    accepted <- [r \in Recordings |-> accepted[r] > 0]

ImplementsLifecycle == Lifecycle!Spec

-----------------------------------------------------------------------------
(* Liveness.  The workers poll for ever, the service manager restarts a    *)
(* process that crashed, a remote service answers within MaxCall, and time *)
(* goes on.  Time waits for a worker that could act: a tick of the model   *)
(* is the length of a backoff, far longer than a poll of the database.     *)

WorkWaits ==
    \/ ~running
    \/ transcriber.pc \in {"claimed", "answered"}
    \/ WithStatus("received") # {}
    \/ DueTranscriptions(now) # {}
    \/ \E w \in Routers : routers[w].pc = "decided"
    \/ WithStatus("routing") # {}
    \/ deliverer.pc \in {"claimed", "answered"}
    \/ DueDeliveries(now) # {}
    \/ /\ transcriber.pc = "calling"
       /\ now >= transcriber.started_at + MaxCall
    \/ /\ deliverer.pc = "calling"
       /\ now >= deliverer.started_at + MaxCall
    \/ \E q \in Requests : requests[q] # NoRequest

PromptNext == ProcessStep \/ (~WorkWaits /\ Tick)

Fairness ==
    /\ WF_vars(Recover)
    /\ WF_vars(TranscriptionStep)
    /\ \A w \in Routers : WF_vars(RoutingStep(w))
    /\ WF_vars(DeliveryStep)
    /\ \A q \in Requests : WF_vars(AnswerRequest(q))
    /\ SF_vars(~WorkWaits /\ Tick)

FairSpec == Init /\ [][PromptNext]_vars /\ Fairness

\* Every uploaded Recording comes to rest: delivered, backlogged, or failed
\* where an Operator sees it, whatever fails and whenever the process crashes.
EveryRecordingSettles ==
    \A r \in Recordings :
        recordings[r].status # "absent" ~>
            recordings[r].status \in
                {"delivered", "backlogged", "transcription_failed",
                 "delivery_failed"}
=============================================================================

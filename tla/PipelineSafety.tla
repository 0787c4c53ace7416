--------------------------- MODULE PipelineSafety ---------------------------
(***************************************************************************)
(* The safety of Pipeline.  The tables agree because each worker still     *)
(* holds what it claimed; it does because nobody else moves a claimed row; *)
(* and after a crash the rows tell what the lost workers were at.  None of *)
(* these facts is inductive without the others, so they are proved as one  *)
(* invariant.                                                              *)
(***************************************************************************)
EXTENDS PipelineProofs

\* The inductive invariant.  RowsAgree needs WorkersKeepTheirClaim (a
\* finishing worker moves the row it claimed), which needs RowsAgree (a
\* Delivery candidate is a Recording in delivering); both need HandsMatchRows
\* and OpenAttemptsAreHeld for the attempts and across a crash.
Safe ==
    /\ TypeOK
    /\ RowsAgree
    /\ WorkersKeepTheirClaim
    /\ HandsMatchRows
    /\ OpenAttemptsAreHeld

\* The empty database of a process that has not started is safe.
LEMMA InitSafe == Init => Safe
<1> SUFFICES ASSUME Init PROVE Safe
  OBVIOUS
<1>1. TypeOK
  BY InitType
<1>2. RowsAgree
  BY PipelineAssumption
     DEF Init, RowsAgree, RowAgrees, AbsentRecording, AbsentDelivery,
         Transcribed, DeliveryStatuses
<1>3. WorkersKeepTheirClaim
  BY DEF Init, WorkersKeepTheirClaim, IdleTranscriber, IdleDeliverer
<1>4. HandsMatchRows
  BY DEF Init, HandsMatchRows, IdleTranscriber, IdleDeliverer
<1>5. OpenAttemptsAreHeld
  BY DEF Init, OpenAttemptsAreHeld
<1>6. QED
  BY <1>1, <1>2, <1>3, <1>4, <1>5 DEF Safe

\* The steps that touch no table.
Quiet ==
    \/ NothingReceived \/ PickDueRetry \/ NoDueRetry \/ TranscriberReturns
    \/ \E w \in Routers : PickRouting(w)
    \/ PickDueDelivery \/ SinkReturns
    \/ \E q \in Requests : SubmitRequest(q) \/ EndRequest(q)
    \/ Crash \/ Tick \/ UNCHANGED vars

\* They leave the rows as they are.
LEMMA QuietStep == Quiet => UNCHANGED store
BY DEF Quiet, NothingReceived, PickDueRetry, NoDueRetry, TranscriberReturns,
       PickRouting, PickDueDelivery, SinkReturns, SubmitRequest, EndRequest,
       Crash, Tick, vars, store

\* The attempts a worker finishes and those recovery closes are as many as
\* before, so none appears and none is lost.
LEMMA FinishKeepsAttempts ==
    ASSUME NEW attempts \in Seq(Attempt), NEW n \in Nat, NEW at \in Nat,
           NEW outcome \in {"succeeded", "retryable", "terminal"}
    PROVE  LET finished == finish_attempt(attempts, n, at, outcome) IN
           /\ Len(finished) = Len(attempts)
           /\ finished = <<>> <=> attempts = <<>>
<1> DEFINE finished == finish_attempt(attempts, n, at, outcome)
<1>1. finished \in Seq(Attempt) /\ Len(finished) = Len(attempts)
  BY FinishAttempt
<1> HIDE DEF finished
<1>2. finished = <<>> <=> attempts = <<>>
  BY <1>1, EmptySeq
<1>3. QED
  BY <1>1, <1>2 DEF finished

\* Finishing closes the worker's own attempt and changes no other.
LEMMA TranscriptionAttemptFinished ==
    ASSUME TypeOK, transcriber.pc = "answered",
           NEW outcome \in {"succeeded", "retryable", "terminal"},
           FinishTranscriptionAttempt(outcome)
    PROVE  \A q \in Recordings :
             /\ Len(transcription_attempts'[q]) =
                  Len(transcription_attempts[q])
             /\ transcription_attempts'[q] = <<>>
                  <=> transcription_attempts[q] = <<>>
             /\ \A i \in DOMAIN transcription_attempts'[q] :
                  /\ i \in DOMAIN transcription_attempts[q]
                  /\ IF q = transcriber.recording /\ i = transcriber.attempt
                     THEN ~IsOpen(transcription_attempts'[q][i])
                     ELSE transcription_attempts'[q][i] =
                            transcription_attempts[q][i]
<1>1. /\ transcriber.recording \in Recordings
      /\ transcriber.attempt \in Nat
      /\ transcriber.finished_at \in Nat
      /\ transcription_attempts \in [Recordings -> Seq(Attempt)]
  BY DEF TypeOK, TranscriberTypeOK, StoreTypeOK
<1> DEFINE r == transcriber.recording
           finished == finish_attempt(transcription_attempts[r],
                           transcriber.attempt, transcriber.finished_at,
                           outcome)
<1>2. transcription_attempts' =
        [transcription_attempts EXCEPT ![r] = finished]
  BY DEF FinishTranscriptionAttempt
<1>3. /\ Len(finished) = Len(transcription_attempts[r])
      /\ finished = <<>> <=> transcription_attempts[r] = <<>>
      /\ DOMAIN finished = DOMAIN transcription_attempts[r]
      /\ \A i \in DOMAIN transcription_attempts[r] :
           IF i = transcriber.attempt THEN ~IsOpen(finished[i])
           ELSE finished[i] = transcription_attempts[r][i]
  BY <1>1, FinishAttempt, FinishKeepsAttempts
<1> HIDE DEF finished
<1>4. QED
  BY <1>1, <1>2, <1>3

\* The same for a Delivery attempt.
LEMMA DeliveryAttemptFinished ==
    ASSUME TypeOK, deliverer.pc = "answered",
           NEW outcome \in {"succeeded", "retryable", "terminal"},
           FinishDeliveryAttempt(outcome)
    PROVE  \A q \in Recordings :
             /\ Len(delivery_attempts'[q]) = Len(delivery_attempts[q])
             /\ delivery_attempts'[q] = <<>> <=> delivery_attempts[q] = <<>>
             /\ \A i \in DOMAIN delivery_attempts'[q] :
                  /\ i \in DOMAIN delivery_attempts[q]
                  /\ IF q = deliverer.recording /\ i = deliverer.attempt
                     THEN ~IsOpen(delivery_attempts'[q][i])
                     ELSE delivery_attempts'[q][i] = delivery_attempts[q][i]
<1>1. /\ deliverer.recording \in Recordings
      /\ deliverer.attempt \in Nat
      /\ deliverer.finished_at \in Nat
      /\ delivery_attempts \in [Recordings -> Seq(Attempt)]
  BY DEF TypeOK, DelivererTypeOK, StoreTypeOK
<1> DEFINE r == deliverer.recording
           finished == finish_attempt(delivery_attempts[r],
                           deliverer.attempt, deliverer.finished_at, outcome)
<1>2. delivery_attempts' = [delivery_attempts EXCEPT ![r] = finished]
  BY DEF FinishDeliveryAttempt
<1>3. /\ Len(finished) = Len(delivery_attempts[r])
      /\ finished = <<>> <=> delivery_attempts[r] = <<>>
      /\ DOMAIN finished = DOMAIN delivery_attempts[r]
      /\ \A i \in DOMAIN delivery_attempts[r] :
           IF i = deliverer.attempt THEN ~IsOpen(finished[i])
           ELSE finished[i] = delivery_attempts[r][i]
  BY <1>1, FinishAttempt, FinishKeepsAttempts
<1> HIDE DEF finished
<1>4. QED
  BY <1>1, <1>2, <1>3

\* A new attempt makes a sequence longer and leaves the others alone.
LEMMA TranscriptionAttemptStarted ==
    ASSUME TypeOK, StartTranscriptionAttempt
    PROVE  LET r == transcriber.recording IN
           /\ r \in Recordings
           /\ IF InFlight(transcription_attempts[r])
              THEN /\ UNCHANGED transcription_attempts
                   /\ transcriber'.pc = "idle"
              ELSE /\ Len(transcription_attempts'[r]) =
                        Len(transcription_attempts[r]) + 1
                   /\ transcription_attempts'[r] # <<>>
                   /\ DOMAIN transcription_attempts'[r] =
                        1..(Len(transcription_attempts[r]) + 1)
                   /\ \A i \in 1..Len(transcription_attempts[r]) :
                        transcription_attempts'[r][i] =
                          transcription_attempts[r][i]
                   /\ IsOpen(transcription_attempts'[r]
                               [Len(transcription_attempts[r]) + 1])
                   /\ transcriber'.pc = "calling"
                   /\ transcriber'.recording = r
                   /\ transcriber'.attempt =
                        Len(transcription_attempts[r]) + 1
           /\ \A q \in Recordings \ {r} :
                transcription_attempts'[q] = transcription_attempts[q]
<1> DEFINE r == transcriber.recording
           attempts == Append(transcription_attempts[r],
                              NewAttempt(transcriber.started_at))
<1>1. /\ r \in Recordings
      /\ transcriber.started_at \in Nat
      /\ transcription_attempts \in [Recordings -> Seq(Attempt)]
      /\ DOMAIN transcriber = {"pc", "recording", "started_at", "attempt",
                               "first_started_at", "result", "finished_at"}
  BY DEF StartTranscriptionAttempt, TypeOK, TranscriberTypeOK, StoreTypeOK
<1>2. /\ Len(attempts) = Len(transcription_attempts[r]) + 1
      /\ attempts # <<>>
      /\ DOMAIN attempts = 1..(Len(transcription_attempts[r]) + 1)
      /\ \A i \in 1..Len(transcription_attempts[r]) :
           attempts[i] = transcription_attempts[r][i]
      /\ IsOpen(attempts[Len(transcription_attempts[r]) + 1])
  BY <1>1, AppendAttempt
<1> HIDE DEF attempts
<1>3. CASE InFlight(transcription_attempts[r])
  BY <1>1, <1>3 DEF StartTranscriptionAttempt, IdleTranscriber
<1>4. CASE ~InFlight(transcription_attempts[r])
  <2>1. /\ transcription_attempts' =
             [transcription_attempts EXCEPT ![r] = attempts]
        /\ \E anchor \in RetryAnchors(r, attempts) :
               transcriber' = [transcriber EXCEPT
                   !.pc = "calling", !.attempt = Len(attempts),
                   !.first_started_at = anchor]
    BY <1>4, Zenon DEF StartTranscriptionAttempt, attempts
  <2>2. QED
    BY <1>1, <1>2, <1>4, <2>1
<1>5. QED
  BY <1>3, <1>4

\* The same for a Delivery attempt.
LEMMA DeliveryAttemptStarted ==
    ASSUME TypeOK, StartDeliveryAttempt
    PROVE  LET r == deliverer.recording IN
           /\ r \in Recordings
           /\ IF InFlight(delivery_attempts[r])
              THEN /\ UNCHANGED delivery_attempts
                   /\ deliverer'.pc = "idle"
              ELSE /\ Len(delivery_attempts'[r]) =
                        Len(delivery_attempts[r]) + 1
                   /\ delivery_attempts'[r] # <<>>
                   /\ DOMAIN delivery_attempts'[r] =
                        1..(Len(delivery_attempts[r]) + 1)
                   /\ \A i \in 1..Len(delivery_attempts[r]) :
                        delivery_attempts'[r][i] = delivery_attempts[r][i]
                   /\ IsOpen(delivery_attempts'[r]
                               [Len(delivery_attempts[r]) + 1])
                   /\ deliverer'.pc = "calling"
                   /\ deliverer'.recording = r
                   /\ deliverer'.retry_deadline_at =
                        deliverer.retry_deadline_at
                   /\ deliverer'.attempt = Len(delivery_attempts[r]) + 1
           /\ \A q \in Recordings \ {r} :
                delivery_attempts'[q] = delivery_attempts[q]
<1> DEFINE r == deliverer.recording
           attempts == Append(delivery_attempts[r],
                              NewAttempt(deliverer.started_at))
<1>1. /\ r \in Recordings
      /\ deliverer.started_at \in Nat
      /\ delivery_attempts \in [Recordings -> Seq(Attempt)]
      /\ DOMAIN deliverer = {"pc", "recording", "started_at", "attempt",
                             "retry_deadline_at", "result", "finished_at"}
  BY DEF StartDeliveryAttempt, TypeOK, DelivererTypeOK, StoreTypeOK
<1>2. /\ Len(attempts) = Len(delivery_attempts[r]) + 1
      /\ attempts # <<>>
      /\ DOMAIN attempts = 1..(Len(delivery_attempts[r]) + 1)
      /\ \A i \in 1..Len(delivery_attempts[r]) :
           attempts[i] = delivery_attempts[r][i]
      /\ IsOpen(attempts[Len(delivery_attempts[r]) + 1])
  BY <1>1, AppendAttempt
<1> HIDE DEF attempts
<1>3. CASE InFlight(delivery_attempts[r])
  BY <1>1, <1>3 DEF StartDeliveryAttempt, IdleDeliverer
<1>4. CASE ~InFlight(delivery_attempts[r])
  <2>1. /\ delivery_attempts' = [delivery_attempts EXCEPT ![r] = attempts]
        /\ deliverer' = [deliverer EXCEPT
               !.pc = "calling", !.attempt = Len(attempts)]
    BY <1>4 DEF StartDeliveryAttempt, attempts
  <2>2. QED
    BY <1>1, <1>2, <1>4, <2>1
<1>5. QED
  BY <1>3, <1>4

-----------------------------------------------------------------------------
(* The tables agree.                                                       *)

\* What a selection of a Sink does to the rows, by the rules or by an Operator.
LEMMA SelectionAgrees ==
    ASSUME Safe, NEW r \in Recordings, NEW sink \in Sinks, NEW at \in Nat,
           recordings[r].status \in {"routing", "backlogged"},
           insert_delivery(r, sink, at),
           recordings' = [recordings EXCEPT
               ![r].status = "delivering", ![r].selected_sink_name = sink],
           UNCHANGED <<transcripts, transcription_attempts,
                       delivery_attempts>>
    PROVE  RowsAgree'
<1>1. /\ recordings \in [Recordings -> RecordingRow]
      /\ deliveries \in [Recordings -> DeliveryRow]
  BY DEF Safe, TypeOK, StoreTypeOK
<1>2. \A q \in Recordings :
        /\ recordings'[q].status =
             IF q = r THEN "delivering" ELSE recordings[q].status
        /\ recordings'[q].selected_sink_name =
             IF q = r THEN sink ELSE recordings[q].selected_sink_name
        /\ recordings[q].latest_error => recordings'[q].latest_error
  BY <1>1 DEF RecordingRow
<1>3. \A q \in Recordings :
        /\ deliveries'[q].status =
             IF q = r THEN "delivering" ELSE deliveries[q].status
        /\ deliveries'[q].sink_name =
             IF q = r THEN sink ELSE deliveries[q].sink_name
        /\ deliveries'[q].completed_at =
             IF q = r THEN NoTime ELSE deliveries[q].completed_at
  BY <1>1 DEF insert_delivery, AbsentDelivery
<1>4. RowsAgree /\ UNCHANGED <<transcripts, transcription_attempts,
                               delivery_attempts>>
  BY DEF Safe
<1>5. r \in transcripts /\ transcription_attempts[r] # <<>>
  BY <1>4 DEF RowsAgree, RowAgrees, Transcribed
<1>6. ASSUME NEW q \in Recordings, q # r
      PROVE  /\ recordings'[q].status = recordings[q].status
             /\ recordings'[q].selected_sink_name =
                  recordings[q].selected_sink_name
             /\ recordings[q].latest_error => recordings'[q].latest_error
             /\ deliveries'[q].status = deliveries[q].status
             /\ deliveries'[q].sink_name = deliveries[q].sink_name
             /\ deliveries'[q].completed_at = deliveries[q].completed_at
  BY <1>2, <1>3, <1>6
<1>7. /\ recordings'[r].status = "delivering"
      /\ recordings'[r].selected_sink_name = sink
      /\ deliveries'[r].status = "delivering"
      /\ deliveries'[r].sink_name = sink
      /\ deliveries'[r].completed_at = NoTime
  BY <1>2, <1>3
<1> SUFFICES ASSUME NEW q \in Recordings PROVE RowAgrees(q)'
  BY DEF RowsAgree
<1>8. CASE q = r
  BY <1>4, <1>5, <1>7, <1>8
     DEF RowsAgree, RowAgrees, Transcribed, DeliveryStatuses
<1>9. CASE q # r
  <2>1. RowAgrees(q)
    BY <1>4 DEF RowsAgree
  <2> HIDE DEF Safe
  <2>2. QED
    BY <2>1, <1>4, <1>6, <1>9 DEF RowAgrees, Transcribed, DeliveryStatuses
<1>10. QED
  BY <1>8, <1>9

\* Every transaction leaves the tables in agreement.
LEMMA RowsAgreeStep == Safe /\ [Next]_vars => RowsAgree'
<1> SUFFICES ASSUME Safe, [Next]_vars PROVE RowsAgree'
  OBVIOUS
<1>0. /\ recordings \in [Recordings -> RecordingRow]
      /\ deliveries \in [Recordings -> DeliveryRow]
      /\ transcription_attempts \in [Recordings -> Seq(Attempt)]
      /\ delivery_attempts \in [Recordings -> Seq(Attempt)]
      /\ transcripts \subseteq Recordings
  BY DEF Safe, TypeOK, StoreTypeOK
<1> USE DEF Transcribed, DeliveryStatuses
<1>1. CASE Quiet
  BY <1>1, QuietStep DEF store, RowsAgree, RowAgrees, Safe
<1>2. ASSUME NEW r \in Recordings, Upload(r) PROVE RowsAgree'
  BY <1>0, <1>2 DEF Upload, Safe, RowsAgree, RowAgrees, RecordingRow
<1>3. CASE ClaimReceived
  <2>1. PICK r \in Recordings :
          /\ recordings[r].status = "received"
          /\ recordings' = [recordings EXCEPT ![r].status = "transcribing"]
    BY <1>3 DEF ClaimReceived, OldestReceived, WithStatus
  <2>2. UNCHANGED <<transcripts, transcription_attempts, deliveries,
                    delivery_attempts>>
    BY <1>3 DEF ClaimReceived
  <2>3. \A q \in Recordings :
          /\ recordings'[q].status =
               IF q = r THEN "transcribing" ELSE recordings[q].status
          /\ recordings'[q].selected_sink_name =
               recordings[q].selected_sink_name
          /\ recordings[q].latest_error => recordings'[q].latest_error
    BY <1>0, <2>1 DEF RecordingRow
  <2>4. QED
    BY <2>1, <2>2, <2>3 DEF Safe, RowsAgree, RowAgrees
<1>4. CASE StartTranscriptionAttempt
  <2> DEFINE r == transcriber.recording
  <2>1. r \in Recordings /\ recordings[r].status = "transcribing"
    BY <1>4, TranscriptionAttemptStarted
       DEF StartTranscriptionAttempt, Safe, WorkersKeepTheirClaim
  <2>2. \A q \in Recordings :
          q # r => transcription_attempts'[q] = transcription_attempts[q]
    BY <1>4, TranscriptionAttemptStarted DEF Safe
  <2> HIDE DEF r
  <2>3. QED
    BY <1>4, <2>1, <2>2, ZenonT(40)
       DEF StartTranscriptionAttempt, Safe, RowsAgree, RowAgrees
<1>5. CASE SucceedTranscription
  BY <1>0, <1>5, TranscriptionAttemptFinished
     DEF SucceedTranscription, Safe, RowsAgree, RowAgrees,
         WorkersKeepTheirClaim, HandsMatchRows, RecordingRow
<1>6. CASE RetryTranscription
  BY <1>0, <1>6, TranscriptionAttemptFinished
     DEF RetryTranscription, Safe, RowsAgree, RowAgrees, RecordingRow
<1>7. CASE FailTranscription
  BY <1>0, <1>7, TranscriptionAttemptFinished
     DEF FailTranscription, Safe, RowsAgree, RowAgrees, WorkersKeepTheirClaim,
         HandsMatchRows, RecordingRow
<1>8. ASSUME NEW w \in Routers, RouteToSink(w) PROVE RowsAgree'
  <2> DEFINE r == routers[w].recording
             sink == routers[w].decision
  <2>1. r \in Recordings /\ sink \in Sinks /\ routers[w].at \in Nat
    BY <1>8 DEF RouteToSink, Safe, TypeOK, RoutersTypeOK
  <2>2. UNCHANGED <<transcripts, transcription_attempts, delivery_attempts>>
    BY <1>8 DEF RouteToSink
  <2>3. CASE recordings[r].status = "routing"
    <3>1. /\ recordings' = [recordings EXCEPT
                 ![r].status = "delivering", ![r].selected_sink_name = sink]
          /\ insert_delivery(r, sink, routers[w].at)
      BY <1>8, <2>3 DEF RouteToSink
    <3> HIDE DEF r, sink
    <3>2. QED
      BY <2>1, <2>2, <2>3, <3>1, SelectionAgrees
  <2>4. CASE recordings[r].status # "routing"
    <3>1. UNCHANGED <<recordings, deliveries>>
      BY <1>8, <2>4 DEF RouteToSink
    <3>2. QED
      BY <2>2, <3>1 DEF Safe, RowsAgree, RowAgrees
  <2>5. QED
    BY <2>3, <2>4
<1>9. ASSUME NEW w \in Routers, MarkBacklogged(w) PROVE RowsAgree'
  <2> DEFINE r == routers[w].recording
  <2>1. UNCHANGED <<transcripts, transcription_attempts, deliveries,
                    delivery_attempts>>
    BY <1>9 DEF MarkBacklogged
  <2>2. CASE can_transition_to(recordings[r].status, "backlogged")
    <3>1. recordings' = [recordings EXCEPT ![r].status = "backlogged"]
      BY <1>9, <2>2 DEF MarkBacklogged
    <3>2. recordings[r].status = "routing"
      BY <2>2, Zenon DEF can_transition_to
    <3> HIDE DEF r
    <3>3. QED
      BY <1>0, <2>1, <3>1, <3>2 DEF Safe, RowsAgree, RowAgrees, RecordingRow
  <2>3. CASE ~can_transition_to(recordings[r].status, "backlogged")
    <3>1. UNCHANGED recordings
      BY <1>9, <2>3 DEF MarkBacklogged
    <3>2. QED
      BY <2>1, <3>1 DEF Safe, RowsAgree, RowAgrees
  <2>4. QED
    BY <2>2, <2>3
<1>10. CASE StartDeliveryAttempt
  BY <1>0, <1>10, DeliveryAttemptStarted
     DEF StartDeliveryAttempt, Safe, RowsAgree, RowAgrees,
         WorkersKeepTheirClaim
<1>11. CASE SucceedDelivery
  <2>1. deliverer.finished_at # NoTime
    BY DEF Safe, TypeOK, DelivererTypeOK, NoTime
  <2>2. QED
    BY <1>0, <1>11, <2>1, DeliveryAttemptFinished
       DEF SucceedDelivery, Safe, RowsAgree, RowAgrees, WorkersKeepTheirClaim,
           RecordingRow, DeliveryRow
<1>12. CASE RetryDelivery
  BY <1>0, <1>12, DeliveryAttemptFinished
     DEF RetryDelivery, Safe, RowsAgree, RowAgrees, RecordingRow, DeliveryRow
<1>13. CASE FailDelivery
  <2>1. deliverer.finished_at # NoTime
    BY DEF Safe, TypeOK, DelivererTypeOK, NoTime
  <2>2. QED
    BY <1>0, <1>13, <2>1, DeliveryAttemptFinished, SMTT(30)
       DEF FailDelivery, Safe, RowsAgree, RowAgrees, WorkersKeepTheirClaim,
           RecordingRow, DeliveryRow
<1>14. ASSUME NEW q \in Requests, ManualRoute(q) PROVE RowsAgree'
  <2> DEFINE r == requests[q].recording
             sink == requests[q].sink
  <2>1. r \in Recordings /\ sink \in Sinks /\ requests[q].at \in Nat
    BY <1>14 DEF ManualRoute, Safe, TypeOK, RequestsTypeOK
  <2>2. /\ recordings[r].status = "backlogged"
        /\ recordings' = [recordings EXCEPT
               ![r].status = "delivering", ![r].selected_sink_name = sink]
        /\ insert_delivery(r, sink, requests[q].at)
        /\ UNCHANGED <<transcripts, transcription_attempts,
                       delivery_attempts>>
    BY <1>14 DEF ManualRoute, Audit
  <2> HIDE DEF r, sink
  <2>3. QED
    BY <2>1, <2>2, SelectionAgrees, Zenon
<1>15. ASSUME NEW q \in Requests, ManualRetryTranscription(q)
       PROVE  RowsAgree'
  <2> DEFINE r == requests[q].recording
  <2>1. /\ recordings[r].status = "transcription_failed"
        /\ recordings' = [recordings EXCEPT
               ![r].status = "transcribing",
               ![r].latest_error = FALSE,
               ![r].retry_window_started_at = requests[q].at]
        /\ UNCHANGED <<deliveries, transcripts, transcription_attempts,
                       delivery_attempts>>
    BY <1>15
       DEF ManualRetryTranscription, TranscriptionRetryAllowed, Audit
  <2> HIDE DEF r
  <2> SUFFICES ASSUME NEW p \in Recordings PROVE RowAgrees(p)'
    BY DEF RowsAgree
  <2>2. RowAgrees(p)
    BY DEF Safe, RowsAgree
  <2> HIDE DEF Safe
  <2>3. CASE p = r
    <3>1. /\ recordings'[p].status = "transcribing"
          /\ recordings'[p].selected_sink_name =
               recordings[p].selected_sink_name
      BY <1>0, <2>1, <2>3 DEF RecordingRow
    <3>2. QED
      BY <2>1, <2>2, <2>3, <3>1
         DEF RowAgrees, Transcribed, DeliveryStatuses
  <2>4. CASE p # r
    <3>1. recordings'[p] = recordings[p]
      BY <1>0, <2>1, <2>4
    <3>2. QED
      BY <2>1, <2>2, <3>1 DEF RowAgrees
  <2>5. QED
    BY <2>3, <2>4
<1>16. ASSUME NEW q \in Requests, ManualRetryDelivery(q) PROVE RowsAgree'
  BY <1>0, <1>16, SMTT(30)
     DEF ManualRetryDelivery, DeliveryRetryAllowed, Reopened,
         Audit, Safe, RowsAgree, RowAgrees, RecordingRow,
         DeliveryRow
<1>17. CASE Recover
  <2>1. \A q \in Recordings :
          /\ recordings'[q].status = RecoveredStatus(q)
          /\ recordings'[q].selected_sink_name =
               recordings[q].selected_sink_name
          /\ recordings[q].latest_error => recordings'[q].latest_error
    BY <1>0, <1>17 DEF Recover, RecordingRow
  <2>2. \A q \in Recordings :
          /\ transcription_attempts'[q] = <<>>
               <=> transcription_attempts[q] = <<>>
          /\ delivery_attempts'[q] = <<>> <=> delivery_attempts[q] = <<>>
    <3>1. now \in Nat
      BY DEF Safe, TypeOK
    <3>2. QED
      BY <1>0, <1>17, <3>1, CloseAbandoned DEF Recover
  <2>3. UNCHANGED <<transcripts, deliveries>>
    BY <1>17 DEF Recover
  <2>4. QED
    BY <2>1, <2>2, <2>3 DEF RecoveredStatus, Safe, RowsAgree, RowAgrees
<1>18. QED
  BY <1>1, <1>2, <1>3, <1>4, <1>5, <1>6, <1>7, <1>8, <1>9, <1>10, <1>11,
     <1>12, <1>13, <1>14, <1>15, <1>16, <1>17
     DEF Next, ProcessStep, TranscriptionStep, RoutingStep, DeliveryStep,
         AnswerRequest, Quiet

-----------------------------------------------------------------------------
(* The workers keep their claims.                                          *)

\* No step of another worker, the Operator or recovery moves a claimed row.
LEMMA ClaimsStep == Safe /\ [Next]_vars => WorkersKeepTheirClaim'
<1> SUFFICES ASSUME Safe, [Next]_vars PROVE WorkersKeepTheirClaim'
  OBVIOUS
<1>0. /\ recordings \in [Recordings -> RecordingRow]
      /\ deliveries \in [Recordings -> DeliveryRow]
      /\ TranscriberTypeOK /\ DelivererTypeOK
      /\ RoutersTypeOK /\ RequestsTypeOK
      /\ WorkersKeepTheirClaim /\ RowsAgree
  BY DEF Safe, TypeOK, StoreTypeOK
<1> HIDE DEF Safe
<1> USE DEF WorkersKeepTheirClaim
<1>1. ASSUME NEW r \in Recordings, Upload(r) PROVE WorkersKeepTheirClaim'
  BY <1>0, <1>1
     DEF Upload, RecordingRow, process, TranscriberTypeOK, DelivererTypeOK
<1>2. CASE ClaimReceived
  BY <1>0, <1>2
     DEF ClaimReceived, OldestReceived, WithStatus, RecordingRow,
         TranscriberTypeOK, DelivererTypeOK
<1>3. CASE NothingReceived
  BY <1>0, <1>3 DEF NothingReceived, store, TranscriberTypeOK
<1>4. CASE PickDueRetry
  BY <1>0, <1>4
     DEF PickDueRetry, OldestReceived, DueTranscriptions,
         transcription_retry_candidates, WithStatus, store, TranscriberTypeOK
<1>5. CASE NoDueRetry
  BY <1>0, <1>5 DEF NoDueRetry, IdleTranscriber, store
<1>6. CASE StartTranscriptionAttempt
  BY <1>0, <1>6, TranscriptionAttemptStarted
     DEF StartTranscriptionAttempt, Safe
<1>7. CASE TranscriberReturns
  BY <1>0, <1>7 DEF TranscriberReturns, TranscriberTypeOK, store
<1>8. CASE SucceedTranscription
  BY <1>0, <1>8
     DEF SucceedTranscription, IdleTranscriber, TranscriberTypeOK,
         DelivererTypeOK, RecordingRow
<1>9. CASE RetryTranscription
  BY <1>0, <1>9
     DEF RetryTranscription, IdleTranscriber, TranscriberTypeOK,
         DelivererTypeOK, RecordingRow
<1>10. CASE FailTranscription
  BY <1>0, <1>10
     DEF FailTranscription, IdleTranscriber, TranscriberTypeOK,
         DelivererTypeOK, RecordingRow
<1>11. ASSUME NEW w \in Routers, PickRouting(w) PROVE WorkersKeepTheirClaim'
  BY <1>0, <1>11 DEF PickRouting, store
<1>12. ASSUME NEW w \in Routers, RouteToSink(w) PROVE WorkersKeepTheirClaim'
  BY <1>0, <1>12
     DEF RouteToSink, insert_delivery, RecordingRow, TranscriberTypeOK,
         DelivererTypeOK, RoutersTypeOK
<1>13. ASSUME NEW w \in Routers, MarkBacklogged(w) PROVE WorkersKeepTheirClaim'
  BY <1>0, <1>13
     DEF MarkBacklogged, can_transition_to, RecordingRow, TranscriberTypeOK,
         DelivererTypeOK, RoutersTypeOK
<1>14. CASE PickDueDelivery
  BY <1>0, <1>14
     DEF PickDueDelivery, DueDeliveries, delivery_candidates, RowsAgree,
         RowAgrees, DeliveryStatuses, store, DelivererTypeOK
<1>15. CASE StartDeliveryAttempt
  BY <1>0, <1>15, DeliveryAttemptStarted DEF StartDeliveryAttempt, Safe
<1>16. CASE SinkReturns
  BY <1>0, <1>16 DEF SinkReturns, store, DelivererTypeOK
<1>17. CASE SucceedDelivery
  BY <1>0, <1>17
     DEF SucceedDelivery, IdleDeliverer, TranscriberTypeOK, DelivererTypeOK,
         RecordingRow
<1>18. CASE RetryDelivery
  BY <1>0, <1>18
     DEF RetryDelivery, IdleDeliverer, TranscriberTypeOK, DelivererTypeOK,
         RecordingRow
<1>19. CASE FailDelivery
  BY <1>0, <1>19
     DEF FailDelivery, IdleDeliverer, TranscriberTypeOK, DelivererTypeOK,
         RecordingRow
<1>20. ASSUME NEW q \in Requests, SubmitRequest(q) \/ EndRequest(q)
       PROVE  WorkersKeepTheirClaim'
  BY <1>0, <1>20 DEF SubmitRequest, EndRequest, store
<1>21. ASSUME NEW q \in Requests, ManualRoute(q) PROVE WorkersKeepTheirClaim'
  BY <1>0, <1>21
     DEF ManualRoute, Audit, insert_delivery, TranscriberTypeOK,
         DelivererTypeOK, RecordingRow, RequestsTypeOK
<1>22. ASSUME NEW q \in Requests, ManualRetryTranscription(q)
       PROVE  WorkersKeepTheirClaim'
  BY <1>0, <1>22
     DEF ManualRetryTranscription, TranscriptionRetryAllowed, Audit,
         TranscriberTypeOK, DelivererTypeOK, RecordingRow, RequestsTypeOK
<1>23. ASSUME NEW q \in Requests, ManualRetryDelivery(q)
       PROVE  WorkersKeepTheirClaim'
  BY <1>0, <1>23
     DEF ManualRetryDelivery, DeliveryRetryAllowed, Audit, TranscriberTypeOK,
         DelivererTypeOK, RecordingRow, RequestsTypeOK
<1>24. CASE Recover
  BY <1>0, <1>24 DEF Recover, Safe, HandsMatchRows, process
<1>25. CASE Crash
  BY <1>25 DEF Crash, IdleTranscriber, IdleDeliverer
<1>26. CASE Tick \/ UNCHANGED vars
  BY <1>0, <1>26 DEF Tick, vars, store, process
<1>27. QED
  BY <1>1, <1>2, <1>3, <1>4, <1>5, <1>6, <1>7, <1>8, <1>9, <1>10, <1>11,
     <1>12, <1>13, <1>14, <1>15, <1>16, <1>17, <1>18, <1>19, <1>20, <1>21,
     <1>22, <1>23, <1>24, <1>25, <1>26
     DEF Next, ProcessStep, TranscriptionStep, RoutingStep, DeliveryStep,
         AnswerRequest

-----------------------------------------------------------------------------
(* What the workers hold matches the rows.                                 *)

\* Attempts, answers and acceptances stay in step with the workers.
LEMMA HandsStep == Safe /\ [Next]_vars => HandsMatchRows'
<1> SUFFICES ASSUME Safe, [Next]_vars PROVE HandsMatchRows'
  OBVIOUS
<1>0. /\ recordings \in [Recordings -> RecordingRow]
      /\ deliveries \in [Recordings -> DeliveryRow]
      /\ transcription_attempts \in [Recordings -> Seq(Attempt)]
      /\ delivery_attempts \in [Recordings -> Seq(Attempt)]
      /\ accepted \in [Recordings -> Nat]
      /\ TranscriberTypeOK /\ DelivererTypeOK
      /\ RoutersTypeOK /\ RequestsTypeOK
      /\ HandsMatchRows
  BY DEF Safe, TypeOK, StoreTypeOK
<1> HIDE DEF Safe
<1> USE DEF HandsMatchRows
<1>1. ASSUME NEW r \in Recordings, Upload(r) PROVE HandsMatchRows'
  BY <1>0, <1>1 DEF Upload, RecordingRow, process
<1>2. CASE ClaimReceived
  BY <1>0, <1>2
     DEF ClaimReceived, OldestReceived, WithStatus, RecordingRow,
         TranscriberTypeOK
<1>3. CASE NothingReceived
  BY <1>0, <1>3 DEF NothingReceived, store, TranscriberTypeOK
<1>4. CASE PickDueRetry
  BY <1>0, <1>4
     DEF PickDueRetry, OldestReceived, DueTranscriptions,
         transcription_retry_candidates, WithStatus, store, TranscriberTypeOK
<1>5. CASE NoDueRetry
  BY <1>0, <1>5 DEF NoDueRetry, IdleTranscriber, store
<1>6. CASE StartTranscriptionAttempt
  <2> DEFINE r == transcriber.recording
  <2>1. UNCHANGED <<recordings, delivery_attempts, accepted, running,
                    deliverer>>
        /\ running /\ transcriber.pc = "claimed"
    BY <1>6 DEF StartTranscriptionAttempt
  <2>2. /\ r \in Recordings
        /\ \A q \in Recordings \ {r} :
             transcription_attempts'[q] = transcription_attempts[q]
    BY <1>6, TranscriptionAttemptStarted DEF Safe
  <2>3. CASE InFlight(transcription_attempts[r])
    <3>1. /\ transcription_attempts' = transcription_attempts
          /\ transcriber'.pc = "idle"
      BY <1>6, <2>3, TranscriptionAttemptStarted DEF Safe
    <3>2. transcription_attempts[r] # <<>>
      BY <2>3 DEF InFlight
    <3> HIDE DEF r
    <3>3. QED
      BY <1>0, <2>1, <2>2, <3>1, <3>2 DEF r
  <2>4. CASE ~InFlight(transcription_attempts[r])
    <3>1. /\ Len(transcription_attempts'[r]) =
               Len(transcription_attempts[r]) + 1
          /\ transcription_attempts'[r] # <<>>
          /\ transcriber'.pc = "calling"
          /\ transcriber'.recording = r
          /\ transcriber'.attempt = Len(transcription_attempts[r]) + 1
      BY <1>6, <2>4, TranscriptionAttemptStarted DEF Safe
    <3>2. Len(transcription_attempts[r]) \in Nat
      BY <1>0, <2>2
    <3>3. \A q \in Recordings :
            transcription_attempts'[q] = <<>> =>
              q # r /\ transcription_attempts[q] = <<>>
      BY <2>2, <3>1
    <3> HIDE DEF r
    <3>4. transcriber'.attempt > 0
          /\ transcriber'.attempt =
               Len(transcription_attempts'[transcriber'.recording])
      BY <3>1, <3>2
    <3>5. \A q \in Recordings :
            ~(/\ running'
              /\ recordings'[q].status = "transcribing"
              /\ transcription_attempts'[q] = <<>>)
      BY <1>0, <2>1, <3>3 DEF r
    <3>6. QED
      BY <1>0, <2>1, <3>4, <3>5
  <2>5. QED
    BY <2>3, <2>4
<1>7. CASE TranscriberReturns
  BY <1>0, <1>7 DEF TranscriberReturns, TranscriberTypeOK, store
<1>8. CASE SucceedTranscription
  BY <1>0, <1>8, TranscriptionAttemptFinished
     DEF SucceedTranscription, IdleTranscriber, TranscriberTypeOK, Safe,
         RecordingRow
<1>9. CASE RetryTranscription
  BY <1>0, <1>9, TranscriptionAttemptFinished
     DEF RetryTranscription, IdleTranscriber, TranscriberTypeOK, Safe,
         RecordingRow
<1>10. CASE FailTranscription
  BY <1>0, <1>10, TranscriptionAttemptFinished
     DEF FailTranscription, IdleTranscriber, TranscriberTypeOK, Safe,
         RecordingRow
<1>11. ASSUME NEW w \in Routers, PickRouting(w) PROVE HandsMatchRows'
  BY <1>0, <1>11 DEF PickRouting, store
<1>12. ASSUME NEW w \in Routers, RouteToSink(w) PROVE HandsMatchRows'
  <2>1. UNCHANGED <<transcription_attempts, delivery_attempts, accepted,
                    running, transcriber, deliverer>>
    BY <1>12 DEF RouteToSink
  <2>2. \A q \in Recordings :
          recordings'[q].status = "transcribing"
            => recordings[q].status = "transcribing"
    <3>1. \/ UNCHANGED recordings
          \/ recordings' = [recordings EXCEPT
                 ![routers[w].recording].status = "delivering",
                 ![routers[w].recording].selected_sink_name =
                     routers[w].decision]
      BY <1>12, Zenon DEF RouteToSink
    <3>2. QED
      BY <1>0, <3>1, ZenonT(40) DEF RecordingRow
  <2>3. QED
    BY <1>0, <2>1, <2>2
<1>13. ASSUME NEW w \in Routers, MarkBacklogged(w) PROVE HandsMatchRows'
  BY <1>0, <1>13, ZenonT(40) DEF MarkBacklogged, RecordingRow, RoutersTypeOK
<1>14. CASE PickDueDelivery
  BY <1>0, <1>14 DEF PickDueDelivery, store, DelivererTypeOK
<1>15. CASE StartDeliveryAttempt
  BY <1>0, <1>15, DeliveryAttemptStarted DEF StartDeliveryAttempt, Safe
<1>16. CASE SinkReturns
  BY <1>0, <1>16 DEF SinkReturns, SinkAnswers, store, DelivererTypeOK
<1>17. CASE SucceedDelivery
  BY <1>0, <1>17, DeliveryAttemptFinished
     DEF SucceedDelivery, IdleDeliverer, Safe, RecordingRow
<1>18. CASE RetryDelivery
  BY <1>0, <1>18, DeliveryAttemptFinished
     DEF RetryDelivery, IdleDeliverer, Safe, RecordingRow
<1>19. CASE FailDelivery
  BY <1>0, <1>19, DeliveryAttemptFinished
     DEF FailDelivery, IdleDeliverer, Safe, RecordingRow
<1>20. ASSUME NEW q \in Requests, SubmitRequest(q) \/ EndRequest(q)
       PROVE  HandsMatchRows'
  BY <1>0, <1>20 DEF SubmitRequest, EndRequest, store
<1>21. ASSUME NEW q \in Requests, ManualRoute(q) PROVE HandsMatchRows'
  BY <1>0, <1>21 DEF ManualRoute, Audit, RecordingRow, RequestsTypeOK
<1>22. ASSUME NEW q \in Requests, ManualRetryTranscription(q)
       PROVE  HandsMatchRows'
  BY <1>0, <1>22
     DEF ManualRetryTranscription, TranscriptionRetryAllowed, Audit,
         RecordingRow, RequestsTypeOK, Safe, RowsAgree, RowAgrees
<1>23. ASSUME NEW q \in Requests, ManualRetryDelivery(q) PROVE HandsMatchRows'
  BY <1>0, <1>23 DEF ManualRetryDelivery, Audit, RecordingRow, RequestsTypeOK
<1>24. CASE Recover
  BY <1>0, <1>24, CloseAbandoned
     DEF Recover, RecoveredStatus, process, Safe, TypeOK, RecordingRow
<1>25. CASE Crash
  BY <1>0, <1>25 DEF Crash, IdleTranscriber, IdleDeliverer, store
<1>26. CASE Tick \/ UNCHANGED vars
  BY <1>0, <1>26 DEF Tick, vars, store, process
<1>27. QED
  BY <1>1, <1>2, <1>3, <1>4, <1>5, <1>6, <1>7, <1>8, <1>9, <1>10, <1>11,
     <1>12, <1>13, <1>14, <1>15, <1>16, <1>17, <1>18, <1>19, <1>20, <1>21,
     <1>22, <1>23, <1>24, <1>25, <1>26
     DEF Next, ProcessStep, TranscriptionStep, RoutingStep, DeliveryStep,
         AnswerRequest

-----------------------------------------------------------------------------
(* Open attempts are held.                                                 *)

\* The two halves of OpenAttemptsAreHeld.
TranscriptionsHeld ==
    running =>
        \A r \in Recordings : \A i \in DOMAIN transcription_attempts[r] :
            IsOpen(transcription_attempts[r][i]) <=>
              /\ transcriber.pc \in {"calling", "answered"}
              /\ transcriber.recording = r
              /\ i = transcriber.attempt

DeliveriesHeld ==
    running =>
        \A r \in Recordings : \A i \in DOMAIN delivery_attempts[r] :
            IsOpen(delivery_attempts[r][i]) <=>
              /\ deliverer.pc \in {"calling", "answered"}
              /\ deliverer.recording = r
              /\ i = deliverer.attempt

\* They are indeed its halves.
LEMMA HeldParts == OpenAttemptsAreHeld <=> TranscriptionsHeld /\ DeliveriesHeld
BY DEF OpenAttemptsAreHeld, TranscriptionsHeld, DeliveriesHeld

\* The steps that neither open nor close a Transcription attempt, nor change
\* who waits for its answer.
LEMMA TranscriptionsFrame ==
    ASSUME TypeOK, TranscriptionsHeld, UNCHANGED running,
           UNCHANGED transcription_attempts,
           \/ UNCHANGED transcriber
           \/ /\ transcriber.pc \in {"idle", "listing"}
              /\ transcriber'.pc \in {"idle", "listing", "claimed"}
           \/ /\ transcriber.pc = "calling"
              /\ transcriber'.pc = "answered"
              /\ transcriber'.recording = transcriber.recording
              /\ transcriber'.attempt = transcriber.attempt
    PROVE  TranscriptionsHeld'
BY DEF TranscriptionsHeld

\* The same for Delivery attempts.
LEMMA DeliveriesFrame ==
    ASSUME TypeOK, DeliveriesHeld, UNCHANGED running,
           UNCHANGED delivery_attempts,
           \/ UNCHANGED deliverer
           \/ /\ deliverer.pc = "idle"
              /\ deliverer'.pc = "claimed"
           \/ /\ deliverer.pc = "calling"
              /\ deliverer'.pc = "answered"
              /\ deliverer'.recording = deliverer.recording
              /\ deliverer'.attempt = deliverer.attempt
    PROVE  DeliveriesHeld'
BY DEF DeliveriesHeld

\* Every step keeps the Transcription half ...
LEMMA TranscriptionsHeldStep == Safe /\ [Next]_vars => TranscriptionsHeld'
<1> SUFFICES ASSUME Safe, [Next]_vars PROVE TranscriptionsHeld'
  OBVIOUS
<1>0. /\ transcription_attempts \in [Recordings -> Seq(Attempt)]
      /\ TypeOK /\ TranscriberTypeOK
      /\ TranscriptionsHeld /\ HandsMatchRows
  BY HeldParts DEF Safe, TypeOK, StoreTypeOK
<1> HIDE DEF Safe
<1>1. CASE \/ ClaimReceived \/ NothingReceived \/ PickDueRetry \/ NoDueRetry
           \/ TranscriberReturns
  <2>1. /\ UNCHANGED running
        /\ UNCHANGED transcription_attempts
    BY <1>1 DEF ClaimReceived, NothingReceived, PickDueRetry, NoDueRetry,
                TranscriberReturns, store
  <2>2. \/ /\ transcriber.pc \in {"idle", "listing"}
           /\ transcriber'.pc \in {"idle", "listing", "claimed"}
        \/ /\ transcriber.pc = "calling"
           /\ transcriber'.pc = "answered"
           /\ transcriber'.recording = transcriber.recording
           /\ transcriber'.attempt = transcriber.attempt
    <3>1. CASE ClaimReceived
      BY <1>0, <3>1 DEF ClaimReceived, TranscriberTypeOK
    <3>2. CASE NothingReceived
      BY <1>0, <3>2 DEF NothingReceived, TranscriberTypeOK
    <3>3. CASE PickDueRetry
      BY <1>0, <3>3 DEF PickDueRetry, TranscriberTypeOK
    <3>4. CASE NoDueRetry
      BY <3>4 DEF NoDueRetry, IdleTranscriber
    <3>5. CASE TranscriberReturns
      BY <1>0, <3>5 DEF TranscriberReturns, TranscriberTypeOK
    <3>6. QED
      BY <1>1, <3>1, <3>2, <3>3, <3>4, <3>5
  <2>3. QED
    BY <1>0, <2>1, <2>2, TranscriptionsFrame
<1>2. CASE StartTranscriptionAttempt
  <2> DEFINE r == transcriber.recording
             n == Len(transcription_attempts[r])
  <2>1. running /\ transcriber.pc = "claimed"
    BY <1>2 DEF StartTranscriptionAttempt
  <2>2. \A q \in Recordings : ~InFlight(transcription_attempts[q])
    BY <1>0, <2>1 DEF TranscriptionsHeld, InFlight
  <2>3. /\ r \in Recordings
        /\ \A q \in Recordings \ {r} :
             transcription_attempts'[q] = transcription_attempts[q]
        /\ DOMAIN transcription_attempts'[r] = 1..(n + 1)
        /\ \A i \in 1..n : transcription_attempts'[r][i] =
                             transcription_attempts[r][i]
        /\ IsOpen(transcription_attempts'[r][n + 1])
        /\ transcriber'.pc = "calling"
        /\ transcriber'.recording = r
        /\ transcriber'.attempt = n + 1
    BY <1>0, <1>2, <2>2, TranscriptionAttemptStarted
  <2>4. n \in Nat /\ DOMAIN transcription_attempts[r] = 1..n
    BY <1>0, <2>3
  <2> HIDE DEF r, n
  <2>5. ASSUME NEW q \in Recordings, q # r,
               NEW i \in DOMAIN transcription_attempts'[q]
        PROVE  ~IsOpen(transcription_attempts'[q][i])
    BY <2>2, <2>3, <2>5 DEF InFlight
  <2>6. ASSUME NEW i \in 1..n
        PROVE  ~IsOpen(transcription_attempts'[r][i])
    BY <2>2, <2>3, <2>4 DEF InFlight
  <2>7. QED
    BY <2>3, <2>4, <2>5, <2>6 DEF TranscriptionsHeld
<1>3. ASSUME NEW outcome \in {"succeeded", "retryable", "terminal"},
             running, transcriber.pc = "answered",
             FinishTranscriptionAttempt(outcome), transcriber'.pc = "idle"
      PROVE  TranscriptionsHeld'
  <2>1. \A q \in Recordings : \A i \in DOMAIN transcription_attempts'[q] :
          ~IsOpen(transcription_attempts'[q][i])
    BY <1>0, <1>3, TranscriptionAttemptFinished DEF TranscriptionsHeld
  <2>2. QED
    BY <1>3, <2>1 DEF TranscriptionsHeld
<1>4. CASE SucceedTranscription
  BY <1>3, <1>4 DEF SucceedTranscription, IdleTranscriber
<1>5. CASE RetryTranscription
  BY <1>3, <1>5 DEF RetryTranscription, IdleTranscriber
<1>6. CASE FailTranscription
  BY <1>3, <1>6 DEF FailTranscription, IdleTranscriber
<1>7. CASE Recover
  <2>1. /\ transcriber' = transcriber
        /\ transcriber.pc = "idle"
    BY <1>0, <1>7 DEF Recover, process, HandsMatchRows
  <2>2. \A q \in Recordings : ~InFlight(transcription_attempts'[q])
    BY <1>0, <1>7, CloseAbandoned DEF Recover, TypeOK
  <2>3. QED
    BY <2>1, <2>2 DEF TranscriptionsHeld, InFlight
<1>8. CASE Crash
  BY <1>8 DEF Crash, TranscriptionsHeld
<1>9. CASE \/ \E r \in Recordings : Upload(r)
           \/ \E w \in Routers : RoutingStep(w)
           \/ DeliveryStep
           \/ \E q \in Requests : SubmitRequest(q) \/ AnswerRequest(q)
           \/ Tick \/ UNCHANGED vars
  <2>1. UNCHANGED <<running, transcription_attempts, transcriber>>
    BY <1>9 DEF Upload, RoutingStep, PickRouting, RouteToSink,
         MarkBacklogged, DeliveryStep, PickDueDelivery, StartDeliveryAttempt,
         SinkReturns, SucceedDelivery, RetryDelivery, FailDelivery,
         SubmitRequest, AnswerRequest, ManualRoute, ManualRetryTranscription,
         ManualRetryDelivery, EndRequest, Audit, Tick, vars, store, process
  <2>2. QED
    BY <1>0, <2>1, TranscriptionsFrame
<1>10. QED
  BY <1>1, <1>2, <1>4, <1>5, <1>6, <1>7, <1>8, <1>9
     DEF Next, ProcessStep, TranscriptionStep

\* ... and the Delivery half.
LEMMA DeliveriesHeldStep == Safe /\ [Next]_vars => DeliveriesHeld'
<1> SUFFICES ASSUME Safe, [Next]_vars PROVE DeliveriesHeld'
  OBVIOUS
<1>0. /\ delivery_attempts \in [Recordings -> Seq(Attempt)]
      /\ TypeOK /\ DelivererTypeOK
      /\ DeliveriesHeld /\ HandsMatchRows
  BY HeldParts DEF Safe, TypeOK, StoreTypeOK
<1> HIDE DEF Safe
<1>1. CASE PickDueDelivery \/ SinkReturns
  <2>1. /\ UNCHANGED running
        /\ UNCHANGED delivery_attempts
    BY <1>1 DEF PickDueDelivery, SinkReturns, store
  <2>2. \/ /\ deliverer.pc = "idle"
           /\ deliverer'.pc = "claimed"
        \/ /\ deliverer.pc = "calling"
           /\ deliverer'.pc = "answered"
           /\ deliverer'.recording = deliverer.recording
           /\ deliverer'.attempt = deliverer.attempt
    BY <1>0, <1>1 DEF PickDueDelivery, SinkReturns, DelivererTypeOK
  <2>3. QED
    BY <1>0, <2>1, <2>2, DeliveriesFrame
<1>2. CASE StartDeliveryAttempt
  <2> DEFINE r == deliverer.recording
             n == Len(delivery_attempts[r])
  <2>1. running /\ deliverer.pc = "claimed"
    BY <1>2 DEF StartDeliveryAttempt
  <2>2. \A q \in Recordings : ~InFlight(delivery_attempts[q])
    BY <1>0, <2>1 DEF DeliveriesHeld, InFlight
  <2>3. /\ r \in Recordings
        /\ \A q \in Recordings \ {r} :
             delivery_attempts'[q] = delivery_attempts[q]
        /\ DOMAIN delivery_attempts'[r] = 1..(n + 1)
        /\ \A i \in 1..n : delivery_attempts'[r][i] = delivery_attempts[r][i]
        /\ IsOpen(delivery_attempts'[r][n + 1])
        /\ deliverer'.pc = "calling"
        /\ deliverer'.recording = r
        /\ deliverer'.attempt = n + 1
    BY <1>0, <1>2, <2>2, DeliveryAttemptStarted
  <2>4. n \in Nat /\ DOMAIN delivery_attempts[r] = 1..n
    BY <1>0, <2>3
  <2> HIDE DEF r, n
  <2>5. ASSUME NEW q \in Recordings, q # r,
               NEW i \in DOMAIN delivery_attempts'[q]
        PROVE  ~IsOpen(delivery_attempts'[q][i])
    BY <2>2, <2>3, <2>5 DEF InFlight
  <2>6. ASSUME NEW i \in 1..n
        PROVE  ~IsOpen(delivery_attempts'[r][i])
    BY <2>2, <2>3, <2>4 DEF InFlight
  <2>7. QED
    BY <2>3, <2>4, <2>5, <2>6 DEF DeliveriesHeld
<1>3. ASSUME NEW outcome \in {"succeeded", "retryable", "terminal"},
             running, deliverer.pc = "answered",
             FinishDeliveryAttempt(outcome), deliverer'.pc = "idle"
      PROVE  DeliveriesHeld'
  <2>1. \A q \in Recordings : \A i \in DOMAIN delivery_attempts'[q] :
          ~IsOpen(delivery_attempts'[q][i])
    BY <1>0, <1>3, DeliveryAttemptFinished DEF DeliveriesHeld
  <2>2. QED
    BY <1>3, <2>1 DEF DeliveriesHeld
<1>4. CASE SucceedDelivery
  BY <1>3, <1>4 DEF SucceedDelivery, IdleDeliverer
<1>5. CASE RetryDelivery
  BY <1>3, <1>5 DEF RetryDelivery, IdleDeliverer
<1>6. CASE FailDelivery
  BY <1>3, <1>6 DEF FailDelivery, IdleDeliverer
<1>7. CASE Recover
  <2>1. /\ deliverer' = deliverer
        /\ deliverer.pc = "idle"
    BY <1>0, <1>7 DEF Recover, process, HandsMatchRows
  <2>2. \A q \in Recordings : ~InFlight(delivery_attempts'[q])
    BY <1>0, <1>7, CloseAbandoned DEF Recover, TypeOK
  <2>3. QED
    BY <2>1, <2>2 DEF DeliveriesHeld, InFlight
<1>8. CASE Crash
  BY <1>8 DEF Crash, DeliveriesHeld
<1>9. CASE \/ \E r \in Recordings : Upload(r)
           \/ TranscriptionStep
           \/ \E w \in Routers : RoutingStep(w)
           \/ \E q \in Requests : SubmitRequest(q) \/ AnswerRequest(q)
           \/ Tick \/ UNCHANGED vars
  <2>1. UNCHANGED <<running, delivery_attempts, deliverer>>
    BY <1>9 DEF Upload, TranscriptionStep, ClaimReceived, NothingReceived,
         PickDueRetry, NoDueRetry, StartTranscriptionAttempt,
         TranscriberReturns, SucceedTranscription, RetryTranscription,
         FailTranscription, RoutingStep, PickRouting, RouteToSink,
         MarkBacklogged, SubmitRequest, AnswerRequest, ManualRoute,
         ManualRetryTranscription, ManualRetryDelivery, EndRequest, Audit,
         Tick, vars, store, process
  <2>2. QED
    BY <1>0, <2>1, DeliveriesFrame
<1>10. QED
  BY <1>1, <1>2, <1>4, <1>5, <1>6, <1>7, <1>8, <1>9
     DEF Next, ProcessStep, DeliveryStep

-----------------------------------------------------------------------------
(* The invariant and what follows from it.                                 *)

\* The rows and what the workers hold agree through every interleaving of
\* workers, requests, crashes and restarts, for any number of Recordings.
THEOREM SafeAlways == Spec => []Safe
<1>1. Init => Safe
  BY InitSafe
<1>2. Safe /\ [Next]_vars => Safe'
  <2> SUFFICES ASSUME Safe, [Next]_vars PROVE Safe'
    OBVIOUS
  <2>1. TypeOK'
    BY StepType DEF Safe
  <2>2. RowsAgree' /\ WorkersKeepTheirClaim' /\ HandsMatchRows'
    BY RowsAgreeStep, ClaimsStep, HandsStep
  <2>3. OpenAttemptsAreHeld'
    <3>1. TranscriptionsHeld' /\ DeliveriesHeld'
      BY TranscriptionsHeldStep, DeliveriesHeldStep
    <3>2. QED
      BY <3>1 DEF OpenAttemptsAreHeld, TranscriptionsHeld, DeliveriesHeld
  <2>4. QED
    BY <2>1, <2>2, <2>3 DEF Safe
<1>3. QED
  BY <1>1, <1>2, PTL DEF Spec

\* The tables agree about every Recording in every reachable state.
THEOREM TablesAgree == Spec => []RowsAgree
<1>1. Safe => RowsAgree
  BY DEF Safe
<1>2. QED
  BY <1>1, SafeAlways, PTL

\* No finishing transaction of a worker is ever refused.
THEOREM ClaimsAreKept == Spec => []WorkersKeepTheirClaim
<1>1. Safe => WorkersKeepTheirClaim
  BY DEF Safe
<1>2. QED
  BY <1>1, SafeAlways, PTL

\* What the workers hold matches the rows.
THEOREM HandsAlwaysMatch == Spec => []HandsMatchRows
<1>1. Safe => HandsMatchRows
  BY DEF Safe
<1>2. QED
  BY <1>1, SafeAlways, PTL

\* An attempt is open only while the live worker that opened it waits.
THEOREM AttemptsAreHeld == Spec => []OpenAttemptsAreHeld
<1>1. Safe => OpenAttemptsAreHeld
  BY DEF Safe
<1>2. QED
  BY <1>1, SafeAlways, PTL

\* No Recording is stranded in an active status, after any number of crashes:
\* with no open attempt of a lost worker left, the candidate queries see it.
THEOREM NothingIsStranded == Spec => []NothingStranded
<1>1. Safe => NothingStranded
  <2> SUFFICES ASSUME Safe, running, NEW r \in Recordings
               PROVE  /\ recordings[r].status = "transcribing" =>
                           \/ r \in transcription_retry_candidates
                           \/ /\ transcriber.recording = r
                              /\ transcriber.pc \in
                                   {"claimed", "calling", "answered"}
                      /\ recordings[r].status = "delivering" =>
                           \/ /\ r \in delivery_candidates
                              /\ delivery_candidates \subseteq transcripts
                           \/ deliverer.recording = r /\ deliverer.pc # "idle"
    BY DEF NothingStranded
  <2>1. ASSUME recordings[r].status = "transcribing",
               ~(/\ transcriber.recording = r
                 /\ transcriber.pc \in {"claimed", "calling", "answered"})
        PROVE  r \in transcription_retry_candidates
    <3>1. transcription_attempts[r] # <<>>
      BY <2>1 DEF Safe, HandsMatchRows
    <3>2. ~InFlight(transcription_attempts[r])
      BY <2>1 DEF Safe, OpenAttemptsAreHeld, InFlight
    <3>3. QED
      BY <2>1, <3>1, <3>2 DEF transcription_retry_candidates, WithStatus
  <2>2. ASSUME recordings[r].status = "delivering",
               ~(deliverer.recording = r /\ deliverer.pc # "idle")
        PROVE  /\ r \in delivery_candidates
               /\ delivery_candidates \subseteq transcripts
    <3>1. deliveries[r].status = "delivering"
      BY <2>2 DEF Safe, RowsAgree, RowAgrees, DeliveryStatuses
    <3>2. ~InFlight(delivery_attempts[r])
      BY <2>2 DEF Safe, OpenAttemptsAreHeld, InFlight
    <3>3. ASSUME NEW q \in delivery_candidates PROVE q \in transcripts
      BY DEF Safe, RowsAgree, RowAgrees, Transcribed, DeliveryStatuses,
             delivery_candidates
    <3>4. QED
      BY <3>1, <3>2, <3>3 DEF delivery_candidates
  <2>3. QED
    BY <2>1, <2>2
<1>2. QED
  BY <1>1, SafeAlways, PTL

-----------------------------------------------------------------------------
(* What no step may do.                                                    *)

\* insert_delivery needs an absent row and no other step touches the columns.
LEMMA SelectionIsKept ==
    Safe /\ [Next]_vars =>
        \A r \in Recordings :
          deliveries[r].status # "absent" =>
              /\ deliveries'[r].status # "absent"
              /\ deliveries'[r].sink_name = deliveries[r].sink_name
              /\ deliveries'[r].selected_at = deliveries[r].selected_at
<1> SUFFICES ASSUME Safe, [Next]_vars, NEW r \in Recordings,
                    deliveries[r].status # "absent"
             PROVE  /\ deliveries'[r].status # "absent"
                    /\ deliveries'[r].sink_name = deliveries[r].sink_name
                    /\ deliveries'[r].selected_at = deliveries[r].selected_at
  OBVIOUS
<1>0. /\ deliveries \in [Recordings -> DeliveryRow]
      /\ r \in Recordings
  BY DEF Safe, TypeOK, StoreTypeOK
<1>1. CASE UNCHANGED deliveries
  BY <1>1
<1>2. ASSUME NEW q, NEW sink, NEW at, insert_delivery(q, sink, at)
      PROVE  deliveries'[r] = deliveries[r]
  BY <1>0, <1>2 DEF insert_delivery, AbsentDelivery
<1>3. ASSUME NEW w \in Routers, RouteToSink(w)
      PROVE  deliveries'[r] = deliveries[r]
  BY <1>2, <1>3, Zenon DEF RouteToSink
<1>4. CASE SucceedDelivery
  BY <1>0, <1>4 DEF SucceedDelivery, DeliveryRow
<1>5. CASE RetryDelivery
  BY <1>0, <1>5 DEF RetryDelivery, DeliveryRow
<1>6. CASE FailDelivery
  BY <1>0, <1>6 DEF FailDelivery, DeliveryRow
<1>7. ASSUME NEW q \in Requests, ManualRoute(q)
      PROVE  deliveries'[r] = deliveries[r]
  BY <1>2, <1>7, Zenon DEF ManualRoute
<1>8. CASE \E q \in Requests : ManualRetryDelivery(q)
  BY <1>0, <1>8 DEF ManualRetryDelivery, Reopened, DeliveryRow
<1>9. CASE \/ Quiet \/ \E q \in Recordings : Upload(q)
           \/ ClaimReceived \/ StartTranscriptionAttempt
           \/ SucceedTranscription \/ RetryTranscription \/ FailTranscription
           \/ \E w \in Routers : MarkBacklogged(w)
           \/ StartDeliveryAttempt
           \/ \E q \in Requests : ManualRetryTranscription(q)
           \/ Recover
  <2>1. UNCHANGED deliveries
    BY <1>9, QuietStep DEF store, Upload, ClaimReceived,
         StartTranscriptionAttempt, SucceedTranscription, RetryTranscription,
         FailTranscription, MarkBacklogged, StartDeliveryAttempt,
         ManualRetryTranscription, Recover
  <2>2. QED
    BY <1>1, <2>1
<1>10. QED
  BY <1>3, <1>4, <1>5, <1>6, <1>7, <1>8, <1>9
     DEF Next, ProcessStep, TranscriptionStep, RoutingStep, DeliveryStep,
         AnswerRequest, Quiet

\* Once a Sink is selected it stays selected, at the same time: the identity
\* of a Delivery survives every retry, restart and Operator action.
THEOREM SelectionIsFinal == Spec => SinkChosenOnce
<1>1. Safe /\ [Next]_vars =>
        [\A r \in Recordings :
          deliveries[r].status # "absent" =>
              /\ deliveries'[r].status # "absent"
              /\ deliveries'[r].sink_name = deliveries[r].sink_name
              /\ deliveries'[r].selected_at = deliveries[r].selected_at]_vars
  BY SelectionIsKept
<1>2. QED
  BY <1>1, SafeAlways, PTL DEF Spec, SinkChosenOnce

\* Only the Delivery worker calls a Sink, and only for a claimed Recording.
LEMMA DeliveredStays ==
    Safe /\ [Next]_vars =>
        \A r \in Recordings :
          recordings[r].status = "delivered" =>
              /\ recordings'[r].status = "delivered"
              /\ accepted'[r] = accepted[r]
<1> SUFFICES ASSUME Safe, [Next]_vars, NEW r \in Recordings,
                    recordings[r].status = "delivered"
             PROVE  /\ recordings'[r].status = "delivered"
                    /\ accepted'[r] = accepted[r]
  OBVIOUS
<1>0. /\ recordings \in [Recordings -> RecordingRow]
      /\ accepted \in [Recordings -> Nat]
      /\ TranscriberTypeOK /\ DelivererTypeOK
      /\ WorkersKeepTheirClaim
  BY DEF Safe, TypeOK, StoreTypeOK
<1>1. CASE SinkReturns
  BY <1>0, <1>1 DEF SinkReturns, store, WorkersKeepTheirClaim
<1>2. ASSUME NEW q \in Recordings, Upload(q)
      PROVE  recordings'[r].status = "delivered"
  BY <1>0, <1>2 DEF Upload, RecordingRow
<1>3. CASE ClaimReceived \/ SucceedTranscription \/ RetryTranscription
             \/ FailTranscription
  <2>1. CASE ClaimReceived
    BY <1>0, <2>1 DEF ClaimReceived, OldestReceived, WithStatus, RecordingRow
  <2>2. CASE SucceedTranscription
    BY <1>0, <2>2 DEF SucceedTranscription, WorkersKeepTheirClaim,
                      RecordingRow
  <2>3. CASE RetryTranscription
    BY <1>0, <2>3 DEF RetryTranscription, RecordingRow
  <2>4. CASE FailTranscription
    BY <1>0, <2>4 DEF FailTranscription, WorkersKeepTheirClaim, RecordingRow
  <2>5. QED
    BY <1>3, <2>1, <2>2, <2>3, <2>4
<1>4. ASSUME NEW w \in Routers, RouteToSink(w)
      PROVE  recordings'[r].status = "delivered"
  <2>1. \/ UNCHANGED recordings
        \/ /\ recordings[routers[w].recording].status = "routing"
           /\ recordings' = [recordings EXCEPT
                 ![routers[w].recording].status = "delivering",
                 ![routers[w].recording].selected_sink_name =
                     routers[w].decision]
    BY <1>4, Zenon DEF RouteToSink
  <2>2. QED
    BY <1>0, <2>1 DEF RecordingRow
<1>5. ASSUME NEW w \in Routers, MarkBacklogged(w)
      PROVE  recordings'[r].status = "delivered"
  <2>1. \/ UNCHANGED recordings
        \/ /\ can_transition_to(recordings[routers[w].recording].status,
                                "backlogged")
           /\ recordings' = [recordings EXCEPT
                 ![routers[w].recording].status = "backlogged"]
    BY <1>5, Zenon DEF MarkBacklogged
  <2>2. ~can_transition_to("delivered", "backlogged")
    BY DEF can_transition_to
  <2>3. QED
    BY <1>0, <2>1, <2>2 DEF RecordingRow
<1>6. CASE SucceedDelivery \/ RetryDelivery \/ FailDelivery
  <2>1. CASE SucceedDelivery
    BY <1>0, <2>1 DEF SucceedDelivery, RecordingRow
  <2>2. CASE RetryDelivery
    BY <1>0, <2>2 DEF RetryDelivery, RecordingRow
  <2>3. CASE FailDelivery
    BY <1>0, <2>3 DEF FailDelivery, WorkersKeepTheirClaim, RecordingRow
  <2>4. QED
    BY <1>6, <2>1, <2>2, <2>3
<1>7. ASSUME NEW q \in Requests,
             ManualRoute(q) \/ ManualRetryTranscription(q)
               \/ ManualRetryDelivery(q)
      PROVE  recordings'[r].status = "delivered"
  BY <1>0, <1>7 DEF ManualRoute, ManualRetryTranscription,
       ManualRetryDelivery, TranscriptionRetryAllowed, DeliveryRetryAllowed,
       RecordingRow
<1>8. CASE Recover
  BY <1>0, <1>8 DEF Recover, RecoveredStatus, RecordingRow
<1>9. ASSUME Quiet \/ StartTranscriptionAttempt \/ StartDeliveryAttempt
      PROVE  recordings'[r].status = "delivered"
  BY <1>9, QuietStep DEF store, StartTranscriptionAttempt,
                         StartDeliveryAttempt
<1>10. SinkReturns \/ UNCHANGED accepted
  BY DEF Next, ProcessStep, Upload, TranscriptionStep, ClaimReceived,
         NothingReceived, PickDueRetry, NoDueRetry, StartTranscriptionAttempt,
         TranscriberReturns, SucceedTranscription, RetryTranscription,
         FailTranscription, RoutingStep, PickRouting, RouteToSink,
         MarkBacklogged, DeliveryStep, PickDueDelivery, StartDeliveryAttempt,
         SucceedDelivery, RetryDelivery, FailDelivery, SubmitRequest,
         AnswerRequest, ManualRoute, ManualRetryTranscription,
         ManualRetryDelivery, EndRequest, Audit, Recover, Crash, Tick, vars
<1>11. QED
  BY <1>1, <1>2, <1>3, <1>4, <1>5, <1>6, <1>7, <1>8, <1>9, <1>10
     DEF Next, ProcessStep, TranscriptionStep, RoutingStep, DeliveryStep,
         AnswerRequest, Quiet

\* A delivered Recording is not sent again, whatever comes after.
THEOREM DeliveredForGood == Spec => DeliveredIsFinal
<1>1. Safe /\ [Next]_vars =>
        [\A r \in Recordings :
          recordings[r].status = "delivered" =>
              /\ recordings'[r].status = "delivered"
              /\ accepted'[r] = accepted[r]]_vars
  BY DeliveredStays
<1>2. QED
  BY <1>1, SafeAlways, PTL DEF Spec, DeliveredIsFinal

\* What DeliveriesAreRecorded adds to the invariant.
DeliveredWasAccepted ==
    \A r \in Recordings : recordings[r].status = "delivered" => accepted[r] > 0

\* Only an answer ok ends in delivered, and only an acceptance gives one.
LEMMA AcceptedStep ==
    Safe /\ DeliveredWasAccepted /\ [Next]_vars => DeliveredWasAccepted'
<1> SUFFICES ASSUME Safe, DeliveredWasAccepted, [Next]_vars,
                    NEW r \in Recordings,
                    recordings'[r].status = "delivered"
             PROVE  accepted'[r] > 0
  BY DEF DeliveredWasAccepted
<1>0. /\ recordings \in [Recordings -> RecordingRow]
      /\ RoutersTypeOK
  BY DEF Safe, TypeOK, StoreTypeOK
<1>1. CASE recordings[r].status = "delivered"
  BY <1>1, DeliveredStays DEF DeliveredWasAccepted
<1>2. CASE recordings[r].status # "delivered"
  <2>1. SucceedDelivery /\ r = deliverer.recording
    <3>1. CASE SucceedDelivery
      BY <1>0, <1>2, <3>1 DEF SucceedDelivery, RecordingRow
    <3>2. CASE Quiet \/ StartTranscriptionAttempt \/ StartDeliveryAttempt
      BY <1>2, <3>2, QuietStep DEF store, StartTranscriptionAttempt,
                                   StartDeliveryAttempt
    <3>3. ASSUME NEW q \in Recordings, Upload(q) PROVE FALSE
      BY <1>0, <1>2, <3>3 DEF Upload, RecordingRow
    <3>4. ~ClaimReceived
      <4>1. ClaimReceived =>
              \E q \in Recordings :
                recordings' = [recordings EXCEPT ![q].status = "transcribing"]
        BY DEF ClaimReceived, OldestReceived, WithStatus
      <4>2. QED
        BY <1>0, <1>2, <4>1 DEF RecordingRow
    <3>5. ~SucceedTranscription
      BY <1>0, <1>2 DEF SucceedTranscription, RecordingRow
    <3>6. ~RetryTranscription
      BY <1>0, <1>2 DEF RetryTranscription, RecordingRow
    <3>7. ~FailTranscription
      BY <1>0, <1>2 DEF FailTranscription, RecordingRow
    <3>8. ASSUME NEW w \in Routers, RouteToSink(w) PROVE FALSE
      <4>1. \/ UNCHANGED recordings
            \/ recordings' = [recordings EXCEPT
                   ![routers[w].recording].status = "delivering",
                   ![routers[w].recording].selected_sink_name =
                       routers[w].decision]
        BY <3>8, Zenon DEF RouteToSink
      <4>2. QED
        BY <1>0, <1>2, <4>1 DEF RecordingRow
    <3>9. ASSUME NEW w \in Routers, MarkBacklogged(w) PROVE FALSE
      <4>1. \/ UNCHANGED recordings
            \/ recordings' = [recordings EXCEPT
                   ![routers[w].recording].status = "backlogged"]
        BY <3>9, Zenon DEF MarkBacklogged
      <4>2. QED
        BY <1>0, <1>2, <4>1 DEF RecordingRow
    <3>10. ~RetryDelivery /\ ~FailDelivery
      BY <1>0, <1>2 DEF RetryDelivery, FailDelivery, RecordingRow
    <3>11. ASSUME NEW q \in Requests,
                  ManualRoute(q) \/ ManualRetryTranscription(q)
                    \/ ManualRetryDelivery(q)
           PROVE  FALSE
      BY <1>0, <1>2, <3>11, SMTT(30) DEF ManualRoute, ManualRetryTranscription,
           ManualRetryDelivery, RecordingRow
    <3>12. ASSUME Recover PROVE FALSE
      <4>1. recordings'[r].status = RecoveredStatus(r)
        BY <1>0, <3>12 DEF Recover, RecordingRow
      <4>2. RecoveredStatus(r) \in {"received", recordings[r].status}
        BY DEF RecoveredStatus
      <4>3. QED
        BY <1>2, <4>1, <4>2
    <3>13. QED
      BY <3>1, <3>2, <3>3, <3>4, <3>5, <3>6, <3>7, <3>8, <3>9, <3>10, <3>11,
         <3>12
         DEF Next, ProcessStep, TranscriptionStep, RoutingStep, DeliveryStep,
             AnswerRequest, Quiet
  <2>2. QED
    BY <2>1 DEF SucceedDelivery, Safe, HandsMatchRows
<1>3. QED
  BY <1>1, <1>2

\* Delivered means accepted, and every POST a Sink accepted has its attempt.
THEOREM DeliveriesLeaveATrace == Spec => []DeliveriesAreRecorded
<1>1. Init => DeliveredWasAccepted
  BY DEF Init, AbsentRecording, DeliveredWasAccepted
<1>2. Safe /\ DeliveredWasAccepted /\ [Next]_vars => DeliveredWasAccepted'
  BY AcceptedStep
<1>3. Safe /\ DeliveredWasAccepted => DeliveriesAreRecorded
  <2> SUFFICES ASSUME Safe, DeliveredWasAccepted, NEW r \in Recordings
               PROVE  /\ recordings[r].status = "delivered" => accepted[r] > 0
                      /\ accepted[r] <= Len(delivery_attempts[r])
    BY DEF DeliveriesAreRecorded
  <2>1. accepted[r] \in Nat /\ Len(delivery_attempts[r]) \in Nat
    BY DEF Safe, TypeOK, StoreTypeOK
  <2>2. QED
    BY <2>1 DEF Safe, HandsMatchRows, DeliveredWasAccepted
<1>4. QED
  BY <1>1, <1>2, <1>3, SafeAlways, PTL DEF Spec

\* The statuses Wakes names are left by nobody but an audited request.
LEMMA WakingStep ==
    Safe /\ [Next]_vars =>
      \A r \in Recordings :
          LET old == recordings[r].status IN
          IF old \in DOMAIN Wakes /\ recordings'[r].status # old
          THEN audit_events'[r] = Append(audit_events[r], Wakes[old])
          ELSE audit_events'[r] = audit_events[r]
<1> SUFFICES ASSUME Safe, [Next]_vars, NEW r \in Recordings
             PROVE  LET old == recordings[r].status IN
                    IF old \in DOMAIN Wakes /\ recordings'[r].status # old
                    THEN audit_events'[r] =
                           Append(audit_events[r], Wakes[old])
                    ELSE audit_events'[r] = audit_events[r]
  OBVIOUS
<1>0. /\ recordings \in [Recordings -> RecordingRow]
      /\ audit_events \in [Recordings -> Seq(OperatorActions)]
      /\ TranscriberTypeOK /\ DelivererTypeOK /\ RequestsTypeOK
      /\ WorkersKeepTheirClaim
  BY DEF Safe, TypeOK, StoreTypeOK
<1>1. /\ DOMAIN Wakes = {"backlogged", "transcription_failed",
                         "delivery_failed"}
      /\ Wakes["backlogged"] = "manual_routing"
      /\ Wakes["transcription_failed"] = "manual_retry_transcription"
      /\ Wakes["delivery_failed"] = "manual_retry_delivery"
  BY DEF Wakes
<1>2. ASSUME audit_events'[r] = audit_events[r],
             \/ recordings'[r].status = recordings[r].status
             \/ recordings[r].status \notin
                  {"backlogged", "transcription_failed", "delivery_failed"}
      PROVE  LET old == recordings[r].status IN
             IF old \in DOMAIN Wakes /\ recordings'[r].status # old
             THEN audit_events'[r] = Append(audit_events[r], Wakes[old])
             ELSE audit_events'[r] = audit_events[r]
  BY <1>1, <1>2
<1>3. CASE Quiet \/ StartTranscriptionAttempt \/ StartDeliveryAttempt
  BY <1>2, <1>3, QuietStep DEF store, StartTranscriptionAttempt,
                               StartDeliveryAttempt
<1>4. ASSUME NEW q \in Recordings, Upload(q)
      PROVE  /\ audit_events'[r] = audit_events[r]
             /\ \/ recordings'[r].status = recordings[r].status
                \/ recordings[r].status = "absent"
  BY <1>0, <1>4 DEF Upload, RecordingRow
<1>5. ASSUME ClaimReceived
      PROVE  /\ audit_events'[r] = audit_events[r]
             /\ \/ recordings'[r].status = recordings[r].status
                \/ recordings[r].status = "received"
  BY <1>0, <1>5 DEF ClaimReceived, OldestReceived, WithStatus, RecordingRow
<1>6. ASSUME SucceedTranscription \/ RetryTranscription \/ FailTranscription
      PROVE  /\ audit_events'[r] = audit_events[r]
             /\ \/ recordings'[r].status = recordings[r].status
                \/ recordings[r].status = "transcribing"
  BY <1>0, <1>6 DEF SucceedTranscription, RetryTranscription,
       FailTranscription, WorkersKeepTheirClaim, RecordingRow
<1>7. ASSUME NEW w \in Routers, RouteToSink(w)
      PROVE  /\ audit_events'[r] = audit_events[r]
             /\ \/ recordings'[r].status = recordings[r].status
                \/ recordings[r].status = "routing"
  <2>1. \/ UNCHANGED recordings
        \/ /\ recordings[routers[w].recording].status = "routing"
           /\ recordings' = [recordings EXCEPT
                 ![routers[w].recording].status = "delivering",
                 ![routers[w].recording].selected_sink_name =
                     routers[w].decision]
    BY <1>7, Zenon DEF RouteToSink
  <2>2. UNCHANGED audit_events
    BY <1>7 DEF RouteToSink
  <2>3. QED
    BY <1>0, <2>1, <2>2 DEF RecordingRow
<1>8. ASSUME NEW w \in Routers, MarkBacklogged(w)
      PROVE  /\ audit_events'[r] = audit_events[r]
             /\ \/ recordings'[r].status = recordings[r].status
                \/ recordings[r].status = "routing"
  <2>1. \/ UNCHANGED recordings
        \/ /\ can_transition_to(recordings[routers[w].recording].status,
                                "backlogged")
           /\ recordings' = [recordings EXCEPT
                 ![routers[w].recording].status = "backlogged"]
    BY <1>8, Zenon DEF MarkBacklogged
  <2>2. ASSUME NEW old, can_transition_to(old, "backlogged")
        PROVE  old = "routing"
    BY <2>2, Zenon DEF can_transition_to
  <2>3. UNCHANGED audit_events
    BY <1>8 DEF MarkBacklogged
  <2>4. QED
    BY <1>0, <2>1, <2>2, <2>3 DEF RecordingRow
<1>9. ASSUME SucceedDelivery \/ RetryDelivery \/ FailDelivery
      PROVE  /\ audit_events'[r] = audit_events[r]
             /\ \/ recordings'[r].status = recordings[r].status
                \/ recordings[r].status = "delivering"
  BY <1>0, <1>9 DEF SucceedDelivery, RetryDelivery, FailDelivery,
       WorkersKeepTheirClaim, RecordingRow
<1>10. ASSUME Recover
       PROVE  /\ audit_events'[r] = audit_events[r]
              /\ \/ recordings'[r].status = recordings[r].status
                 \/ recordings[r].status = "transcribing"
  BY <1>0, <1>10 DEF Recover, RecoveredStatus, RecordingRow
<1>11. ASSUME NEW q \in Requests,
              ManualRoute(q) \/ ManualRetryTranscription(q)
                \/ ManualRetryDelivery(q)
       PROVE  IF r = requests[q].recording
              THEN /\ recordings[r].status \in DOMAIN Wakes
                   /\ recordings'[r].status # recordings[r].status
                   /\ audit_events'[r] = Append(audit_events[r],
                                                Wakes[recordings[r].status])
              ELSE /\ recordings'[r].status = recordings[r].status
                   /\ audit_events'[r] = audit_events[r]
  <2>1. CASE ManualRoute(q)
    BY <1>0, <1>1, <2>1 DEF ManualRoute, Audit, RecordingRow
  <2>2. CASE ManualRetryTranscription(q)
    BY <1>0, <1>1, <2>2 DEF ManualRetryTranscription,
         TranscriptionRetryAllowed, Audit, RecordingRow
  <2>3. CASE ManualRetryDelivery(q)
    BY <1>0, <1>1, <2>3 DEF ManualRetryDelivery, DeliveryRetryAllowed, Audit,
         RecordingRow
  <2>4. QED
    BY <1>11, <2>1, <2>2, <2>3
<1>12. QED
  BY <1>2, <1>3, <1>4, <1>5, <1>6, <1>7, <1>8, <1>9, <1>10, <1>11
     DEF Next, ProcessStep, TranscriptionStep, RoutingStep, DeliveryStep,
         AnswerRequest, Quiet

\* A resting Recording moves only with the one audit event of the Operator
\* action meant for it, and no audit event appears otherwise.
THEOREM OperatorAloneWakes == Spec => WokenOnlyByOperator
<1>1. Safe /\ [Next]_vars =>
        [\A r \in Recordings :
          LET old == recordings[r].status IN
          IF old \in DOMAIN Wakes /\ recordings'[r].status # old
          THEN audit_events'[r] = Append(audit_events[r], Wakes[old])
          ELSE audit_events'[r] = audit_events[r]]_vars
  BY WakingStep
<1>2. QED
  BY <1>1, SafeAlways, PTL DEF Spec, WokenOnlyByOperator

-----------------------------------------------------------------------------
(* Retries wait.  A claimed attempt is due because nothing that happens to *)
(* its Recording between the decision and the start can make it undue; and *)
(* a window newer than the last failure is an Operator's answer to it.     *)

\* The last attempt was the end of the work until an Operator resumed it.
FailedForGood(attempts) ==
    attempts # <<>> /\ attempts[Len(attempts)].outcome = "terminal"

\* Attempts so far waited for the backoff of the one before, and a window is
\* newer than the last failure only if that was the end of the work.
Paced(attempts, window) ==
    /\ \A i \in 1..Len(attempts) :
         IsOpen(attempts[i]) => attempts[i].outcome = "in_progress"
    /\ \A i \in 1..(Len(attempts) - 1) :
         /\ ~IsOpen(attempts[i])
         /\ \/ attempts[i].outcome = "terminal"
            \/ attempts[i + 1].started_at >=
                 next_retry_at(attempts[i].finished_at, i)
    /\ attempts # <<>> =>
         LET last == attempts[Len(attempts)]
         IN  \/ IsOpen(last)
             \/ window <= last.finished_at
             \/ last.outcome = "terminal"

\* Another attempt may start at `at`.
Ready(attempts, at) ==
    attempts # <<>> =>
        LET last == attempts[Len(attempts)]
        IN  \/ IsOpen(last)
            \/ last.outcome = "terminal"
            \/ at >= next_retry_at(last.finished_at, Len(attempts))

TranscriptionPaced ==
    /\ \A r \in Recordings :
         /\ Paced(transcription_attempts[r],
                  recordings[r].retry_window_started_at)
         /\ recordings[r].status = "transcription_failed"
              => FailedForGood(transcription_attempts[r])
    /\ transcriber.pc = "claimed" =>
         Ready(transcription_attempts[transcriber.recording],
               transcriber.started_at)
    /\ transcriber.pc = "answered" =>
         recordings[transcriber.recording].retry_window_started_at
           <= transcriber.finished_at

DeliveryPaced ==
    /\ \A r \in Recordings :
         /\ Paced(delivery_attempts[r], deliveries[r].retry_window_started_at)
         /\ deliveries[r].status = "delivery_failed"
              => FailedForGood(delivery_attempts[r])
    /\ deliverer.pc = "claimed" =>
         Ready(delivery_attempts[deliverer.recording], deliverer.started_at)
    /\ deliverer.pc = "answered" =>
         deliveries[deliverer.recording].retry_window_started_at
           <= deliverer.finished_at

\* No window lies in the future, nor does the time a request will write.
WindowsArePast ==
    /\ \A r \in Recordings :
         /\ recordings[r].retry_window_started_at <= now
         /\ deliveries[r].retry_window_started_at <= now
    /\ \A q \in Requests : requests[q].at <= now

\* What finish_attempt writes into the last row.
LEMMA FinishLast ==
    ASSUME NEW attempts \in Seq(Attempt), Len(attempts) > 0, NEW at \in Nat,
           NEW outcome \in {"succeeded", "retryable", "terminal"}
    PROVE  LET n == Len(attempts)
               finished == finish_attempt(attempts, n, at, outcome)
           IN  /\ finished \in Seq(Attempt)
               /\ Len(finished) = n
               /\ finished # <<>>
               /\ finished[n].finished_at = at
               /\ finished[n].outcome = outcome
               /\ finished[n].started_at = attempts[n].started_at
               /\ \A i \in 1..(n - 1) : finished[i] = attempts[i]
<1> DEFINE n == Len(attempts)
           row == [attempts[n] EXCEPT !.finished_at = at, !.outcome = outcome]
           finished == finish_attempt(attempts, n, at, outcome)
<1>1. n \in 1..Len(attempts) /\ attempts[n] \in Attempt
  OBVIOUS
<1>2. /\ row.finished_at = at
      /\ row.outcome = outcome
      /\ row.started_at = attempts[n].started_at
      /\ row \in Attempt
  BY <1>1, FinishedRow DEF Attempt
<1>3. finished = [attempts EXCEPT ![n] = row]
  BY <1>1 DEF finish_attempt, Attempt
<1> HIDE DEF row
<1>4. /\ [attempts EXCEPT ![n] = row] \in Seq(Attempt)
      /\ Len([attempts EXCEPT ![n] = row]) = n
      /\ \A i \in 1..n :
           [attempts EXCEPT ![n] = row][i] = IF i = n THEN row ELSE attempts[i]
  BY <1>1, <1>2, ExceptSeq
<1>5. QED
  BY <1>1, <1>2, <1>3, <1>4, EmptySeq

\* An attempt appended when it is due keeps the pace.
LEMMA AppendPaced ==
    ASSUME NEW attempts \in Seq(Attempt), NEW at \in Nat,
           NEW window \in Times, Paced(attempts, window),
           ~InFlight(attempts), Ready(attempts, at)
    PROVE  Paced(Append(attempts, NewAttempt(at)), window)
<1> DEFINE longer == Append(attempts, NewAttempt(at))
           n == Len(attempts)
<1>1. /\ n \in Nat
      /\ longer \in Seq(Attempt)
      /\ Len(longer) = n + 1
      /\ DOMAIN longer = 1..(n + 1)
      /\ \A i \in 1..n : longer[i] = attempts[i]
      /\ IsOpen(longer[n + 1])
  BY AppendAttempt
<1>2. longer[n + 1] = NewAttempt(at)
  OBVIOUS
<1>3. longer[n + 1].outcome = "in_progress" /\ longer[n + 1].started_at = at
  BY <1>2 DEF NewAttempt
<1> HIDE DEF longer
<1>4. \A i \in 1..n : ~IsOpen(attempts[i])
  BY DEF InFlight
<1>5. ASSUME NEW i \in 1..n
      PROVE  \/ longer[i].outcome = "terminal"
             \/ longer[i + 1].started_at >=
                  next_retry_at(longer[i].finished_at, i)
  <2>1. CASE i = n
    <3>1. attempts # <<>>
      BY <2>1, <1>1
    <3>2. attempts[n].outcome = "terminal"
            \/ at >= next_retry_at(attempts[n].finished_at, n)
      BY <1>4, <2>1, <3>1 DEF Ready
    <3>3. QED
      BY <1>1, <1>3, <2>1, <3>2
  <2>2. CASE i # n
    BY <1>1, <2>2 DEF Paced
  <2>3. QED
    BY <2>1, <2>2
<1>6. \A i \in 1..(n + 1) :
        IsOpen(longer[i]) => longer[i].outcome = "in_progress"
  BY <1>1, <1>3, <1>4
<1>7. QED
  BY <1>1, <1>4, <1>5, <1>6 DEF Paced, longer

\* Finishing an attempt keeps it, unless the window is newer than its end.
LEMMA FinishPaced ==
    ASSUME NEW attempts \in Seq(Attempt), Len(attempts) > 0, NEW at \in Nat,
           NEW outcome \in {"succeeded", "retryable", "terminal"},
           NEW window \in Times, Paced(attempts, window), window <= at
    PROVE  LET finished ==
                 finish_attempt(attempts, Len(attempts), at, outcome)
           IN  /\ Paced(finished, window)
               /\ outcome = "terminal" => FailedForGood(finished)
<1> DEFINE n == Len(attempts)
           finished == finish_attempt(attempts, n, at, outcome)
<1>1. /\ n \in Nat /\ n > 0
      /\ Len(finished) = n
      /\ finished # <<>>
      /\ finished[n].finished_at = at
      /\ finished[n].outcome = outcome
      /\ finished[n].started_at = attempts[n].started_at
      /\ \A i \in 1..(n - 1) : finished[i] = attempts[i]
  BY FinishLast
<1> HIDE DEF finished
<1>2. ~IsOpen(finished[n])
  BY <1>1 DEF IsOpen, NoTime
<1>3. \A i \in 1..n :
        IsOpen(finished[i]) => finished[i].outcome = "in_progress"
  BY <1>1, <1>2 DEF Paced
<1>4. \A i \in 1..(n - 1) :
        finished[i + 1].started_at = attempts[i + 1].started_at
  BY <1>1
<1>5. \A i \in 1..(n - 1) :
         /\ ~IsOpen(finished[i])
         /\ \/ finished[i].outcome = "terminal"
            \/ finished[i + 1].started_at >=
                 next_retry_at(finished[i].finished_at, i)
  BY <1>1, <1>4 DEF Paced
<1>6. Paced(finished, window)
  BY <1>1, <1>3, <1>5 DEF Paced
<1>7. QED
  BY <1>1, <1>6 DEF FailedForGood, finished

\* Recovery closes only a last attempt, and not before the window.
LEMMA ClosePaced ==
    ASSUME NEW attempts \in Seq(Attempt), NEW at \in Nat,
           NEW window \in Times, Paced(attempts, window), window <= at
    PROVE  LET closed == close_abandoned(attempts, at)
           IN  /\ Paced(closed, window)
               /\ FailedForGood(attempts) => FailedForGood(closed)
<1> DEFINE n == Len(attempts)
           closed == close_abandoned(attempts, at)
<1>1. /\ n \in Nat
      /\ Len(closed) = n
      /\ closed = <<>> <=> attempts = <<>>
      /\ \A i \in 1..n : ~IsOpen(closed[i])
  <2>1. DOMAIN closed = 1..Len(closed)
    BY CloseAbandoned
  <2>2. QED
    BY <2>1, CloseAbandoned DEF InFlight
<1>2. ASSUME NEW i \in 1..n
      PROVE  /\ closed[i].started_at = attempts[i].started_at
             /\ IF IsOpen(attempts[i])
                THEN closed[i].finished_at = at
                ELSE closed[i] = attempts[i]
  <2>1. attempts[i] \in Attempt /\ i \in DOMAIN attempts
    OBVIOUS
  <2>2. closed[i] = IF IsOpen(attempts[i])
                    THEN [attempts[i] EXCEPT !.finished_at = at,
                                             !.outcome = "retryable"]
                    ELSE attempts[i]
    BY <2>1 DEF close_abandoned
  <2> HIDE DEF closed
  <2>3. QED
    BY <2>1, <2>2 DEF Attempt
<1> HIDE DEF closed
<1>3. \A i \in 1..(n - 1) : closed[i] = attempts[i]
  BY <1>1, <1>2 DEF Paced
<1>4. \A i \in 1..(n - 1) :
        closed[i + 1].started_at = attempts[i + 1].started_at
  BY <1>1, <1>2
<1>5. \A i \in 1..(n - 1) :
         \/ closed[i].outcome = "terminal"
         \/ closed[i + 1].started_at >=
              next_retry_at(closed[i].finished_at, i)
  BY <1>3, <1>4 DEF Paced
<1>6. closed # <<>> => window <= closed[n].finished_at
                         \/ closed[n].outcome = "terminal"
  <2> SUFFICES ASSUME closed # <<>>
               PROVE  \/ window <= closed[n].finished_at
                      \/ closed[n].outcome = "terminal"
    OBVIOUS
  <2>1. attempts # <<>> /\ n \in 1..n
    BY <1>1, EmptySeq
  <2>2. CASE IsOpen(attempts[n])
    BY <1>2, <2>1, <2>2
  <2>3. CASE ~IsOpen(attempts[n])
    BY <1>2, <2>1, <2>3 DEF Paced
  <2>4. QED
    BY <2>2, <2>3
<1>7. Paced(closed, window)
  BY <1>1, <1>5, <1>6 DEF Paced
<1>8. FailedForGood(attempts) => FailedForGood(closed)
  <2> SUFFICES ASSUME FailedForGood(attempts) PROVE FailedForGood(closed)
    OBVIOUS
  <2>1. n \in 1..n /\ attempts # <<>> /\ closed # <<>>
    BY <1>1, EmptySeq DEF FailedForGood
  <2>2. ~IsOpen(attempts[n])
    BY <2>1 DEF Paced, FailedForGood
  <2>3. QED
    BY <1>1, <1>2, <2>1, <2>2 DEF FailedForGood
<1>9. QED
  BY <1>7, <1>8 DEF closed

\* An Operator may answer the end of the work with any window.
LEMMA ReopenPaced ==
    ASSUME NEW attempts, NEW old, NEW window,
           Paced(attempts, old), FailedForGood(attempts)
    PROVE  Paced(attempts, window)
BY DEF Paced, FailedForGood

\* Who moves a window or ends the work of Recording r, in one step.
WindowKept(r) ==
    /\ recordings'[r].retry_window_started_at =
         recordings[r].retry_window_started_at
    /\ deliveries'[r].retry_window_started_at =
         deliveries[r].retry_window_started_at

NotFailed(r) ==
    /\ recordings'[r].status = "transcription_failed"
         => recordings[r].status = "transcription_failed"
    /\ deliveries'[r].status = "delivery_failed"
         => deliveries[r].status = "delivery_failed"

\* A selection opens no window and ends no work.
LEMMA SelectionOpensNoWindow ==
    ASSUME Safe, NEW q, NEW sink, NEW at, insert_delivery(q, sink, at),
           NEW r \in Recordings
    PROVE  /\ deliveries'[r].retry_window_started_at =
                deliveries[r].retry_window_started_at
           /\ deliveries'[r].status = "delivery_failed"
                => deliveries[r].status = "delivery_failed"
<1>1. deliveries \in [Recordings -> DeliveryRow]
  BY DEF Safe, TypeOK, StoreTypeOK
<1>2. CASE r = q
  <2>1. deliveries'[r] = [AbsentDelivery EXCEPT
                             !.status = "delivering", !.sink_name = sink,
                             !.selected_at = at,
                             !.retry_deadline_at = at + DELIVERY_WINDOW]
    BY <1>1, <1>2 DEF insert_delivery
  <2>2. deliveries[r] = AbsentDelivery
    BY <1>2 DEF insert_delivery
  <2>3. QED
    BY <2>1, <2>2 DEF AbsentDelivery
<1>3. CASE r # q
  BY <1>1, <1>3 DEF insert_delivery
<1>4. QED
  BY <1>2, <1>3

\* Windows are moved by the two manual retries only.
LEMMA WindowMoves ==
    ASSUME Safe, [Next]_vars, NEW r \in Recordings
    PROVE  \/ WindowKept(r)
           \/ \E q \in Requests :
                /\ ManualRetryTranscription(q) \/ ManualRetryDelivery(q)
                /\ requests[q].recording = r
<1>0. /\ recordings \in [Recordings -> RecordingRow]
      /\ deliveries \in [Recordings -> DeliveryRow]
      /\ RoutersTypeOK
  BY DEF Safe, TypeOK, StoreTypeOK
<1> USE DEF WindowKept
<1>1. CASE Quiet
  BY <1>1, QuietStep DEF store
<1>2. ASSUME NEW q \in Recordings, Upload(q) PROVE WindowKept(r)
  BY <1>0, <1>2 DEF Upload, RecordingRow
<1>3. CASE ClaimReceived
  BY <1>0, <1>3 DEF ClaimReceived, OldestReceived, WithStatus, RecordingRow
<1>4. CASE StartTranscriptionAttempt \/ StartDeliveryAttempt
  BY <1>4 DEF StartTranscriptionAttempt, StartDeliveryAttempt
<1>5. CASE SucceedTranscription
  BY <1>0, <1>5 DEF SucceedTranscription, RecordingRow
<1>6. CASE RetryTranscription
  BY <1>0, <1>6 DEF RetryTranscription, RecordingRow
<1>7. CASE FailTranscription
  BY <1>0, <1>7 DEF FailTranscription, RecordingRow
<1>8. ASSUME NEW w \in Routers, RouteToSink(w) PROVE WindowKept(r)
  <2>1. \/ UNCHANGED <<recordings, deliveries>>
        \/ /\ recordings' = [recordings EXCEPT
                 ![routers[w].recording].status = "delivering",
                 ![routers[w].recording].selected_sink_name =
                     routers[w].decision]
           /\ insert_delivery(routers[w].recording, routers[w].decision,
                              routers[w].at)
    BY <1>8, Zenon DEF RouteToSink
  <2>2. QED
    BY <1>0, <2>1, SelectionOpensNoWindow DEF RecordingRow
<1>9. ASSUME NEW w \in Routers, MarkBacklogged(w) PROVE WindowKept(r)
  <2>1. \/ UNCHANGED recordings
        \/ recordings' = [recordings EXCEPT
               ![routers[w].recording].status = "backlogged"]
    BY <1>9, Zenon DEF MarkBacklogged
  <2>2. UNCHANGED deliveries
    BY <1>9 DEF MarkBacklogged
  <2>3. QED
    BY <1>0, <2>1, <2>2 DEF RecordingRow
<1>10. CASE SucceedDelivery
  BY <1>0, <1>10 DEF SucceedDelivery, RecordingRow, DeliveryRow
<1>11. CASE RetryDelivery
  BY <1>0, <1>11 DEF RetryDelivery, RecordingRow, DeliveryRow
<1>12. CASE FailDelivery
  BY <1>0, <1>12 DEF FailDelivery, RecordingRow, DeliveryRow
<1>13. ASSUME NEW q \in Requests, ManualRoute(q) PROVE WindowKept(r)
  BY <1>0, <1>13, SelectionOpensNoWindow DEF ManualRoute, RecordingRow
<1>14. ASSUME NEW q \in Requests, requests[q].recording # r,
              ManualRetryTranscription(q) \/ ManualRetryDelivery(q)
       PROVE  WindowKept(r)
  BY <1>0, <1>14 DEF ManualRetryTranscription, ManualRetryDelivery
<1>15. CASE Recover
  BY <1>0, <1>15 DEF Recover, RecordingRow
<1>16. QED
  BY <1>1, <1>2, <1>3, <1>4, <1>5, <1>6, <1>7, <1>8, <1>9, <1>10, <1>11,
     <1>12, <1>13, <1>14, <1>15
     DEF Next, ProcessStep, TranscriptionStep, RoutingStep, DeliveryStep,
         AnswerRequest, Quiet

\* The work of a Recording is ended by the worker that has it.
LEMMA FailureMoves ==
    ASSUME Safe, [Next]_vars, NEW r \in Recordings
    PROVE  \/ NotFailed(r)
           \/ FailTranscription /\ transcriber.recording = r
           \/ FailDelivery /\ deliverer.recording = r
<1>0. /\ recordings \in [Recordings -> RecordingRow]
      /\ deliveries \in [Recordings -> DeliveryRow]
      /\ RoutersTypeOK
  BY DEF Safe, TypeOK, StoreTypeOK
<1> USE DEF NotFailed
<1>1. CASE Quiet
  BY <1>1, QuietStep DEF store
<1>2. ASSUME NEW q \in Recordings, Upload(q) PROVE NotFailed(r)
  BY <1>0, <1>2 DEF Upload, RecordingRow
<1>3. CASE ClaimReceived
  BY <1>0, <1>3 DEF ClaimReceived, OldestReceived, WithStatus, RecordingRow
<1>4. CASE StartTranscriptionAttempt \/ StartDeliveryAttempt
  BY <1>4 DEF StartTranscriptionAttempt, StartDeliveryAttempt
<1>5. CASE SucceedTranscription
  BY <1>0, <1>5 DEF SucceedTranscription, RecordingRow
<1>6. CASE RetryTranscription
  BY <1>0, <1>6 DEF RetryTranscription, RecordingRow
<1>7. ASSUME FailTranscription, transcriber.recording # r
      PROVE  NotFailed(r)
  BY <1>0, <1>7 DEF FailTranscription, RecordingRow
<1>8. ASSUME NEW w \in Routers, RouteToSink(w) PROVE NotFailed(r)
  <2>1. \/ UNCHANGED <<recordings, deliveries>>
        \/ /\ recordings' = [recordings EXCEPT
                 ![routers[w].recording].status = "delivering",
                 ![routers[w].recording].selected_sink_name =
                     routers[w].decision]
           /\ insert_delivery(routers[w].recording, routers[w].decision,
                              routers[w].at)
    BY <1>8, Zenon DEF RouteToSink
  <2>2. QED
    BY <1>0, <2>1, SelectionOpensNoWindow DEF RecordingRow
<1>9. ASSUME NEW w \in Routers, MarkBacklogged(w) PROVE NotFailed(r)
  <2>1. \/ UNCHANGED recordings
        \/ recordings' = [recordings EXCEPT
               ![routers[w].recording].status = "backlogged"]
    BY <1>9, Zenon DEF MarkBacklogged
  <2>2. UNCHANGED deliveries
    BY <1>9 DEF MarkBacklogged
  <2>3. QED
    BY <1>0, <2>1, <2>2 DEF RecordingRow
<1>10. CASE SucceedDelivery
  BY <1>0, <1>10 DEF SucceedDelivery, RecordingRow, DeliveryRow
<1>11. CASE RetryDelivery
  BY <1>0, <1>11 DEF RetryDelivery, RecordingRow, DeliveryRow
<1>12. ASSUME FailDelivery, deliverer.recording # r PROVE NotFailed(r)
  BY <1>0, <1>12 DEF FailDelivery, RecordingRow, DeliveryRow
<1>13. ASSUME NEW q \in Requests, ManualRoute(q) PROVE NotFailed(r)
  BY <1>0, <1>13, SelectionOpensNoWindow DEF ManualRoute, RecordingRow
<1>14. ASSUME NEW q \in Requests, ManualRetryTranscription(q)
       PROVE  NotFailed(r)
  BY <1>0, <1>14 DEF ManualRetryTranscription, RecordingRow
<1>15. ASSUME NEW q \in Requests, ManualRetryDelivery(q)
       PROVE  NotFailed(r)
  BY <1>0, <1>15 DEF ManualRetryDelivery, Reopened, RecordingRow,
                     DeliveryRow
<1>16. CASE Recover
  BY <1>0, <1>16 DEF Recover, RecoveredStatus, RecordingRow
<1>17. QED
  BY <1>1, <1>2, <1>3, <1>4, <1>5, <1>6, <1>7, <1>8, <1>9, <1>10, <1>11,
     <1>12, <1>13, <1>14, <1>15, <1>16
     DEF Next, ProcessStep, TranscriptionStep, RoutingStep, DeliveryStep,
         AnswerRequest, Quiet

\* The clock only moves on.
LEMMA NowMoves ==
    ASSUME now \in Nat, [Next]_vars
    PROVE  now' \in Nat /\ now <= now'
<1>1. now' = now \/ now' = now + 1
  BY DEF Next, ProcessStep, Upload, TranscriptionStep, ClaimReceived,
         NothingReceived, PickDueRetry, NoDueRetry, StartTranscriptionAttempt,
         TranscriberReturns, SucceedTranscription, RetryTranscription,
         FailTranscription, RoutingStep, PickRouting, RouteToSink,
         MarkBacklogged, DeliveryStep, PickDueDelivery, StartDeliveryAttempt,
         SinkReturns, SucceedDelivery, RetryDelivery, FailDelivery,
         SubmitRequest, AnswerRequest, ManualRoute, ManualRetryTranscription,
         ManualRetryDelivery, EndRequest, Audit, Recover, Crash, Tick, vars
<1>2. QED
  BY <1>1

\* Time does not go back, and requests bear the time they were sent at.
LEMMA WindowsArePastStep ==
    Safe /\ WindowsArePast /\ [Next]_vars => WindowsArePast'
<1> SUFFICES ASSUME Safe, WindowsArePast, [Next]_vars PROVE WindowsArePast'
  OBVIOUS
<1>0. /\ recordings \in [Recordings -> RecordingRow]
      /\ deliveries \in [Recordings -> DeliveryRow]
      /\ RequestsTypeOK
      /\ now \in Nat
  BY DEF Safe, TypeOK, StoreTypeOK
<1>1. now' \in Nat /\ now <= now'
  BY <1>0, NowMoves
<1>2. \A r \in Recordings : /\ recordings[r].retry_window_started_at \in Int
                            /\ deliveries[r].retry_window_started_at \in Int
  BY <1>0 DEF RecordingRow, DeliveryRow, Times, NoTime
<1>3. \A q \in Requests : requests[q].at \in Nat
  BY <1>0 DEF RequestsTypeOK
<1>4. ASSUME NEW r \in Recordings
      PROVE  /\ recordings'[r].retry_window_started_at <= now'
             /\ deliveries'[r].retry_window_started_at <= now'
  <2>1. CASE WindowKept(r)
    BY <1>1, <1>2, <2>1, <1>0 DEF WindowKept, WindowsArePast
  <2>2. ASSUME NEW q \in Requests, ManualRetryTranscription(q),
               requests[q].recording = r
        PROVE  /\ recordings'[r].retry_window_started_at = requests[q].at
               /\ UNCHANGED <<deliveries, now>>
    BY <1>0, <2>2 DEF ManualRetryTranscription, RecordingRow, Audit
  <2>3. ASSUME NEW q \in Requests, ManualRetryDelivery(q),
               requests[q].recording = r
        PROVE  /\ deliveries'[r].retry_window_started_at = requests[q].at
               /\ recordings'[r].retry_window_started_at =
                    recordings[r].retry_window_started_at
               /\ UNCHANGED now
    BY <1>0, <2>3 DEF ManualRetryDelivery, Reopened, RecordingRow,
                      DeliveryRow, Audit
  <2>4. QED
    BY <2>1, <2>2, <2>3, WindowMoves DEF WindowsArePast
<1>5. ASSUME NEW q \in Requests PROVE requests'[q].at <= now'
  <2>1. \/ UNCHANGED requests
        \/ \E p \in Requests :
             \/ requests' = [requests EXCEPT ![p] = NoRequest]
             \/ \E new : /\ new.at = now
                         /\ requests' = [requests EXCEPT ![p] = new]
        \/ requests' = [p \in Requests |-> NoRequest]
    <3>1. ASSUME NEW p \in Requests, SubmitRequest(p)
          PROVE  \E new : /\ new.at = now
                          /\ requests' = [requests EXCEPT ![p] = new]
      BY <3>1 DEF SubmitRequest
    <3>2. QED
      BY <3>1
       DEF Next, ProcessStep, Upload, TranscriptionStep, ClaimReceived,
         NothingReceived, PickDueRetry, NoDueRetry, StartTranscriptionAttempt,
         TranscriberReturns, SucceedTranscription, RetryTranscription,
         FailTranscription, RoutingStep, PickRouting, RouteToSink,
         MarkBacklogged, DeliveryStep, PickDueDelivery, StartDeliveryAttempt,
         SinkReturns, SucceedDelivery, RetryDelivery, FailDelivery,
         AnswerRequest, ManualRoute, ManualRetryTranscription,
         ManualRetryDelivery, EndRequest, Audit, Recover, Crash, Tick, vars,
         process
  <2>2. NoRequest.at = 0
    BY DEF NoRequest
  <2>3. QED
    BY <1>0, <1>1, <1>3, <2>1, <2>2 DEF RequestsTypeOK, WindowsArePast
<1>6. QED
  BY <1>4, <1>5 DEF WindowsArePast

\* What TranscriptionPaced says of one Recording.
PacedTranscription(r) ==
    /\ Paced(transcription_attempts[r],
             recordings[r].retry_window_started_at)
    /\ recordings[r].status = "transcription_failed"
         => FailedForGood(transcription_attempts[r])

\* The steps after which no Transcription attempt has changed.
LEMMA TranscriptionQuiet ==
    ASSUME Safe, TranscriptionPaced, [Next]_vars,
           UNCHANGED transcription_attempts, NEW r \in Recordings,
           \A q \in Requests : ManualRetryTranscription(q) =>
               requests[q].recording # r,
           ~FailTranscription
    PROVE  /\ PacedTranscription(r)'
           /\ recordings'[r].retry_window_started_at =
                recordings[r].retry_window_started_at
<1>0. recordings \in [Recordings -> RecordingRow]
  BY DEF Safe, TypeOK, StoreTypeOK
<1>1. recordings'[r].retry_window_started_at =
        recordings[r].retry_window_started_at
  <2>1. ASSUME NEW q \in Requests, ManualRetryDelivery(q)
        PROVE  recordings'[r].retry_window_started_at =
                 recordings[r].retry_window_started_at
    BY <1>0, <2>1 DEF ManualRetryDelivery, RecordingRow
  <2>2. QED
    BY <2>1, WindowMoves DEF WindowKept
<1>2. recordings'[r].status = "transcription_failed"
        => recordings[r].status = "transcription_failed"
  <2>1. FailDelivery => recordings'[r].status \in
                          {recordings[r].status, "delivery_failed"}
    BY <1>0 DEF FailDelivery, RecordingRow
  <2>2. QED
    BY <2>1, FailureMoves DEF NotFailed
<1>3. QED
  BY <1>1, <1>2 DEF TranscriptionPaced, PacedTranscription

\* An attempt that ends leaves the Recording paced.
LEMMA TranscriptionFinished ==
    ASSUME Safe, TranscriptionPaced, transcriber.pc = "answered",
           NEW outcome \in {"succeeded", "retryable", "terminal"},
           FinishTranscriptionAttempt(outcome),
           \A r \in Recordings :
               recordings'[r].retry_window_started_at =
                 recordings[r].retry_window_started_at,
           \A r \in Recordings :
               recordings'[r].status = "transcription_failed" =>
                 \/ /\ recordings[r].status = "transcription_failed"
                    /\ r # transcriber.recording
                 \/ outcome = "terminal" /\ r = transcriber.recording
    PROVE  \A r \in Recordings : PacedTranscription(r)'
<1> DEFINE own == transcriber.recording
<1>1. /\ own \in Recordings
      /\ transcriber.attempt = Len(transcription_attempts[own])
      /\ Len(transcription_attempts[own]) > 0
      /\ transcriber.finished_at \in Nat
      /\ transcription_attempts \in [Recordings -> Seq(Attempt)]
      /\ recordings[own].retry_window_started_at \in Times
  BY DEF Safe, TypeOK, StoreTypeOK, TranscriberTypeOK, HandsMatchRows,
         RecordingRow
<1>2. recordings[own].retry_window_started_at <= transcriber.finished_at
  BY DEF TranscriptionPaced
<1> DEFINE finished == finish_attempt(transcription_attempts[own],
                           Len(transcription_attempts[own]),
                           transcriber.finished_at, outcome)
<1>3. transcription_attempts' =
        [transcription_attempts EXCEPT ![own] = finished]
  BY <1>1 DEF FinishTranscriptionAttempt
<1>4. /\ Paced(finished, recordings[own].retry_window_started_at)
      /\ outcome = "terminal" => FailedForGood(finished)
  BY <1>1, <1>2, FinishPaced DEF TranscriptionPaced
<1> HIDE DEF finished
<1> SUFFICES ASSUME NEW r \in Recordings PROVE PacedTranscription(r)'
  OBVIOUS
<1>5. CASE r = own
  BY <1>1, <1>3, <1>4, <1>5 DEF PacedTranscription
<1>6. CASE r # own
  BY <1>1, <1>3, <1>6 DEF PacedTranscription, TranscriptionPaced
<1>7. QED
  BY <1>5, <1>6

\* The steps that take no part in attempts and windows, but may move the
\* Transcription worker.
LEMMA TranscriberMoves ==
    ASSUME Safe, WindowsArePast, TranscriptionPaced, [Next]_vars,
           ~StartTranscriptionAttempt, ~SucceedTranscription,
           ~RetryTranscription, ~FailTranscription, ~Recover
    PROVE  /\ UNCHANGED transcription_attempts
           /\ \/ UNCHANGED transcriber
              \/ transcriber'.pc \notin {"claimed", "answered"}
              \/ /\ transcriber'.pc = "claimed"
                 /\ Ready(transcription_attempts[transcriber'.recording],
                          transcriber'.started_at)
              \/ /\ transcriber'.pc = "answered"
                 /\ transcriber'.recording \in Recordings
                 /\ transcriber'.finished_at = now
<1>0. /\ TranscriberTypeOK
      /\ transcription_attempts \in [Recordings -> Seq(Attempt)]
      /\ RowsAgree
  BY DEF Safe, TypeOK, StoreTypeOK
<1>1. UNCHANGED transcription_attempts
  BY DEF Next, ProcessStep, Upload, TranscriptionStep, ClaimReceived,
         NothingReceived, PickDueRetry, NoDueRetry, TranscriberReturns,
         RoutingStep, PickRouting, RouteToSink, MarkBacklogged, DeliveryStep,
         PickDueDelivery, StartDeliveryAttempt, SinkReturns, SucceedDelivery,
         RetryDelivery, FailDelivery, SubmitRequest, AnswerRequest,
         ManualRoute, ManualRetryTranscription, ManualRetryDelivery,
         EndRequest, Audit, Crash, Tick, vars, store
<1>2. CASE ClaimReceived
  <2>1. PICK r \in Recordings, at \in Readings(transcription_attempts) :
          /\ recordings[r].status = "received"
          /\ transcriber' = [transcriber EXCEPT
                 !.pc = "claimed", !.recording = r, !.started_at = at]
    BY <1>2 DEF ClaimReceived, OldestReceived, WithStatus
  <2>2. transcriber'.pc = "claimed" /\ transcriber'.recording = r
    BY <1>0, <2>1 DEF TranscriberTypeOK
  <2>3. transcription_attempts[r] = <<>>
    BY <1>0, <2>1 DEF RowsAgree, RowAgrees
  <2>4. QED
    BY <1>1, <2>2, <2>3 DEF Ready
<1>3. CASE PickDueRetry
  <2>1. PICK r \in Recordings :
          /\ r \in transcription_retry_candidates
          /\ TranscriptionDue(r, transcriber.started_at)
          /\ transcriber' = [transcriber EXCEPT
                 !.pc = "claimed", !.recording = r]
    BY <1>3 DEF PickDueRetry, OldestReceived, DueTranscriptions,
                transcription_retry_candidates, WithStatus
  <2>2. /\ transcriber'.pc = "claimed"
        /\ transcriber'.recording = r
        /\ transcriber'.started_at = transcriber.started_at
    BY <1>0, <2>1 DEF TranscriberTypeOK
  <2> DEFINE attempts == transcription_attempts[r]
             last == attempts[Len(attempts)]
  <2>3. /\ attempts \in Seq(Attempt)
        /\ attempts # <<>>
        /\ ~IsOpen(last)
    <3>1. attempts \in Seq(Attempt) /\ attempts # <<>> /\ ~InFlight(attempts)
      BY <1>0, <2>1 DEF transcription_retry_candidates
    <3>2. Len(attempts) \in DOMAIN attempts
      BY <3>1, EmptySeq
    <3>3. QED
      BY <3>1, <3>2 DEF InFlight
  <2>4. recordings[r].retry_window_started_at > last.finished_at
          => last.outcome = "terminal"
    <3>1. /\ last.finished_at \in Int
          /\ recordings[r].retry_window_started_at \in Int
      <4>1. last \in Attempt
        BY <2>3, EmptySeq
      <4>2. QED
        BY <4>1 DEF Safe, TypeOK, StoreTypeOK, RecordingRow, Attempt, Times,
                    NoTime
    <3>2. Paced(attempts, recordings[r].retry_window_started_at)
      BY DEF TranscriptionPaced
    <3>3. QED
      BY <2>3, <3>1, <3>2 DEF Paced
  <2>5. Ready(attempts, transcriber.started_at)
    BY <2>1, <2>3, <2>4 DEF TranscriptionDue, Ready
  <2>6. QED
    BY <1>1, <2>2, <2>5
<1>4. CASE TranscriberReturns
  BY <1>0, <1>1, <1>4 DEF TranscriberReturns, TranscriberTypeOK
<1>5. CASE NothingReceived \/ NoDueRetry \/ Crash
  <2>1. CASE NothingReceived
    BY <1>0, <1>1, <2>1 DEF NothingReceived, TranscriberTypeOK
  <2>2. CASE NoDueRetry \/ Crash
    BY <1>1, <2>2 DEF NoDueRetry, Crash, IdleTranscriber
  <2>3. QED
    BY <1>5, <2>1, <2>2
<1>6. ASSUME ~ClaimReceived, ~PickDueRetry, ~TranscriberReturns,
             ~NothingReceived, ~NoDueRetry, ~Crash
      PROVE  UNCHANGED transcriber
  BY <1>6
     DEF Next, ProcessStep, Upload, TranscriptionStep, RoutingStep,
         PickRouting, RouteToSink, MarkBacklogged, DeliveryStep,
         PickDueDelivery, StartDeliveryAttempt, SinkReturns, SucceedDelivery,
         RetryDelivery, FailDelivery, SubmitRequest, AnswerRequest,
         ManualRoute, ManualRetryTranscription, ManualRetryDelivery,
         EndRequest, Audit, Tick, vars, process
<1>7. QED
  BY <1>1, <1>2, <1>3, <1>4, <1>5, <1>6

\* A claim is for an attempt that is due, and stays so until it starts.
LEMMA TranscriptionPacedStep ==
    Safe /\ WindowsArePast /\ TranscriptionPaced /\ [Next]_vars
      => TranscriptionPaced'
<1> SUFFICES ASSUME Safe, WindowsArePast, TranscriptionPaced, [Next]_vars
             PROVE  TranscriptionPaced'
  OBVIOUS
<1>0. /\ recordings \in [Recordings -> RecordingRow]
      /\ transcription_attempts \in [Recordings -> Seq(Attempt)]
      /\ TranscriberTypeOK /\ RequestsTypeOK
      /\ RowsAgree /\ WorkersKeepTheirClaim /\ HandsMatchRows
      /\ now \in Nat
  BY DEF Safe, TypeOK, StoreTypeOK
<1> DEFINE own == transcriber.recording
<1>1. \A r \in Recordings :
        recordings[r].retry_window_started_at \in Times
  BY <1>0 DEF RecordingRow
\* The worker starts what it claimed.
<1>2. CASE StartTranscriptionAttempt
  <2>1. /\ own \in Recordings /\ UNCHANGED recordings
        /\ transcriber.started_at \in Nat
        /\ Ready(transcription_attempts[own], transcriber.started_at)
        /\ \A r \in Recordings : PacedTranscription(r)
        /\ recordings[own].status = "transcribing"
    BY <1>0, <1>2 DEF StartTranscriptionAttempt, TranscriberTypeOK,
         TranscriptionPaced, PacedTranscription, WorkersKeepTheirClaim
  <2>2. transcriber'.pc \in {"idle", "calling"}
    BY <1>2, TranscriptionAttemptStarted DEF Safe
  <2>3. CASE InFlight(transcription_attempts[own])
    <3>1. UNCHANGED transcription_attempts
      BY <1>2, <2>3 DEF StartTranscriptionAttempt
    <3>2. QED
      BY <2>1, <2>2, <3>1 DEF TranscriptionPaced, PacedTranscription
  <2>4. CASE ~InFlight(transcription_attempts[own])
    <3> DEFINE longer == Append(transcription_attempts[own],
                                NewAttempt(transcriber.started_at))
    <3>1. transcription_attempts' =
            [transcription_attempts EXCEPT ![own] = longer]
      BY <1>2, <2>4, Zenon DEF StartTranscriptionAttempt
    <3>2. Paced(longer, recordings[own].retry_window_started_at)
      BY <1>0, <1>1, <2>1, <2>4, AppendPaced DEF PacedTranscription
    <3> HIDE DEF longer
    <3>3. ASSUME NEW r \in Recordings PROVE PacedTranscription(r)'
      BY <1>0, <2>1, <3>1, <3>2 DEF PacedTranscription
    <3>4. QED
      BY <2>2, <3>3 DEF TranscriptionPaced, PacedTranscription
  <2>5. QED
    BY <2>3, <2>4
\* It ends it.
<1>3. CASE SucceedTranscription \/ RetryTranscription \/ FailTranscription
  <2>1. /\ transcriber.pc = "answered"
        /\ transcriber' = IdleTranscriber
        /\ own \in Recordings
    BY <1>0, <1>3 DEF SucceedTranscription, RetryTranscription,
         FailTranscription, TranscriberTypeOK
  <2>2. \A r \in Recordings :
          recordings'[r].retry_window_started_at =
            recordings[r].retry_window_started_at
    <3>1. CASE SucceedTranscription
      BY <1>0, <3>1 DEF SucceedTranscription, RecordingRow
    <3>2. CASE RetryTranscription
      BY <1>0, <3>2 DEF RetryTranscription, RecordingRow
    <3>3. CASE FailTranscription
      BY <1>0, <3>3 DEF FailTranscription, RecordingRow
    <3>4. QED
      BY <1>3, <3>1, <3>2, <3>3
  <2>3. recordings[own].status = "transcribing"
    BY <1>0, <2>1 DEF WorkersKeepTheirClaim
  <2>4. CASE SucceedTranscription
    <3>1. \A r \in Recordings :
            recordings'[r].status = "transcription_failed" =>
              /\ recordings[r].status = "transcription_failed"
              /\ r # own
      BY <1>0, <2>3, <2>4 DEF SucceedTranscription, RecordingRow
    <3>2. QED
      BY <2>1, <2>2, <2>4, <3>1, TranscriptionFinished
         DEF SucceedTranscription, TranscriptionPaced, PacedTranscription,
             IdleTranscriber
  <2>5. CASE RetryTranscription
    <3>1. \A r \in Recordings :
            recordings'[r].status = "transcription_failed" =>
              /\ recordings[r].status = "transcription_failed"
              /\ r # own
      BY <1>0, <2>3, <2>5 DEF RetryTranscription, RecordingRow
    <3>2. QED
      BY <2>1, <2>2, <2>5, <3>1, TranscriptionFinished
         DEF RetryTranscription, TranscriptionPaced, PacedTranscription,
             IdleTranscriber
  <2>6. CASE FailTranscription
    <3>1. \A r \in Recordings \ {own} :
            recordings'[r].status = recordings[r].status
      BY <1>0, <2>6 DEF FailTranscription, RecordingRow
    <3>2. FinishTranscriptionAttempt("terminal")
      BY <2>6 DEF FailTranscription
    <3>3. \A r \in Recordings :
            recordings'[r].status = "transcription_failed" =>
              \/ recordings[r].status = "transcription_failed" /\ r # own
              \/ "terminal" = "terminal" /\ r = own
      BY <3>1
    <3>4. \A r \in Recordings : PacedTranscription(r)'
      BY <2>1, <2>2, <3>2, <3>3, TranscriptionFinished
    <3>5. QED
      BY <2>1, <3>4 DEF TranscriptionPaced, PacedTranscription,
                        IdleTranscriber
  <2>7. QED
    BY <1>3, <2>4, <2>5, <2>6
\* An Operator answers the end of the work.
<1>4. ASSUME NEW q \in Requests, ManualRetryTranscription(q)
      PROVE  TranscriptionPaced'
  <2>1. /\ recordings[requests[q].recording].status = "transcription_failed"
        /\ UNCHANGED <<transcription_attempts, transcriber>>
        /\ \A r \in Recordings :
             IF r = requests[q].recording
             THEN recordings'[r].status = "transcribing"
             ELSE recordings'[r] = recordings[r]
    BY <1>0, <1>4 DEF ManualRetryTranscription, TranscriptionRetryAllowed,
                      Audit, RecordingRow
  <2>2. ASSUME NEW r \in Recordings PROVE PacedTranscription(r)'
    BY <2>1, ReopenPaced DEF PacedTranscription, TranscriptionPaced
  <2>3. transcriber.pc \in {"claimed", "answered"} =>
          own \in Recordings /\ own # requests[q].recording
    BY <1>0, <2>1 DEF WorkersKeepTheirClaim, TranscriberTypeOK
  <2>4. QED
    BY <2>1, <2>2, <2>3 DEF TranscriptionPaced, PacedTranscription
\* Recovery ends what a crash interrupted.
<1>5. CASE Recover
  <2>1. transcriber.pc = "idle" /\ UNCHANGED transcriber
    BY <1>0, <1>5 DEF Recover, HandsMatchRows, process
  <2>2. ASSUME NEW r \in Recordings PROVE PacedTranscription(r)'
    <3>1. /\ recordings'[r].retry_window_started_at =
               recordings[r].retry_window_started_at
          /\ recordings'[r].status = "transcription_failed"
               => recordings[r].status = "transcription_failed"
          /\ transcription_attempts'[r] =
               close_abandoned(transcription_attempts[r], now)
      BY <1>0, <1>5 DEF Recover, RecoveredStatus, RecordingRow
    <3>2. /\ Paced(transcription_attempts[r],
                   recordings[r].retry_window_started_at)
          /\ recordings[r].retry_window_started_at <= now
      BY DEF TranscriptionPaced, WindowsArePast
    <3>3. QED
      BY <1>0, <1>1, <3>1, <3>2, ClosePaced
         DEF PacedTranscription, TranscriptionPaced
  <2>3. QED
    BY <2>1, <2>2 DEF TranscriptionPaced, PacedTranscription
\* Nothing else touches its attempts or windows.
<1>6. ASSUME ~StartTranscriptionAttempt, ~SucceedTranscription,
             ~RetryTranscription, ~FailTranscription, ~Recover,
             \A q \in Requests : ~ManualRetryTranscription(q)
      PROVE  TranscriptionPaced'
  <2>1. UNCHANGED transcription_attempts
    BY <1>6, TranscriberMoves
  <2>2. \A r \in Recordings :
          /\ PacedTranscription(r)'
          /\ recordings'[r].retry_window_started_at =
               recordings[r].retry_window_started_at
    BY <1>6, <2>1, TranscriptionQuiet
  <2>3. (transcriber.pc = "claimed" =>
           Ready(transcription_attempts[transcriber.recording],
                 transcriber.started_at))'
    BY <1>6, <2>1, TranscriberMoves DEF TranscriptionPaced
  <2>4. (transcriber.pc = "answered" =>
           recordings[transcriber.recording].retry_window_started_at
             <= transcriber.finished_at)'
    BY <1>0, <1>6, <2>2, TranscriberMoves
       DEF TranscriptionPaced, WindowsArePast, TranscriberTypeOK
  <2>5. QED
    BY <2>2, <2>3, <2>4 DEF TranscriptionPaced, PacedTranscription
<1>7. QED
  BY <1>2, <1>3, <1>4, <1>5, <1>6
\* What DeliveryPaced says of one Recording.
PacedDelivery(r) ==
    /\ Paced(delivery_attempts[r], deliveries[r].retry_window_started_at)
    /\ deliveries[r].status = "delivery_failed"
         => FailedForGood(delivery_attempts[r])

\* A Delivery that a worker has in hand is in delivering.
LEMMA HeldDelivery ==
    ASSUME Safe, deliverer.pc # "idle"
    PROVE  /\ deliverer.recording \in Recordings
           /\ deliveries[deliverer.recording].status = "delivering"
<1>1. /\ deliverer.recording \in Recordings
      /\ recordings[deliverer.recording].status = "delivering"
  BY DEF Safe, TypeOK, DelivererTypeOK, WorkersKeepTheirClaim
<1>2. QED
  BY <1>1 DEF Safe, RowsAgree, RowAgrees, DeliveryStatuses

\* The steps after which no Delivery attempt has changed.
LEMMA DeliveryQuiet ==
    ASSUME Safe, DeliveryPaced, [Next]_vars,
           UNCHANGED delivery_attempts, NEW r \in Recordings,
           \A q \in Requests : ~ManualRetryDelivery(q),
           ~FailDelivery
    PROVE  /\ PacedDelivery(r)'
           /\ deliveries'[r].retry_window_started_at =
                deliveries[r].retry_window_started_at
<1>1. deliveries'[r].retry_window_started_at =
        deliveries[r].retry_window_started_at
  BY WindowMoves DEF WindowKept, ManualRetryTranscription
<1>2. deliveries'[r].status = "delivery_failed"
        => deliveries[r].status = "delivery_failed"
  BY FailureMoves DEF NotFailed, FailTranscription
<1>3. QED
  BY <1>1, <1>2 DEF DeliveryPaced, PacedDelivery

\* An attempt that ends leaves the Delivery paced.
LEMMA DeliveryFinished ==
    ASSUME Safe, DeliveryPaced, deliverer.pc = "answered",
           NEW outcome \in {"succeeded", "retryable", "terminal"},
           FinishDeliveryAttempt(outcome),
           \A r \in Recordings :
               deliveries'[r].retry_window_started_at =
                 deliveries[r].retry_window_started_at,
           \A r \in Recordings :
               deliveries'[r].status = "delivery_failed" =>
                 \/ /\ deliveries[r].status = "delivery_failed"
                    /\ r # deliverer.recording
                 \/ outcome = "terminal" /\ r = deliverer.recording
    PROVE  \A r \in Recordings : PacedDelivery(r)'
<1> DEFINE own == deliverer.recording
<1>1. /\ own \in Recordings
      /\ deliverer.attempt = Len(delivery_attempts[own])
      /\ Len(delivery_attempts[own]) > 0
      /\ deliverer.finished_at \in Nat
      /\ delivery_attempts \in [Recordings -> Seq(Attempt)]
      /\ deliveries[own].retry_window_started_at \in Times
  BY DEF Safe, TypeOK, StoreTypeOK, DelivererTypeOK, HandsMatchRows,
         DeliveryRow
<1>2. deliveries[own].retry_window_started_at <= deliverer.finished_at
  BY DEF DeliveryPaced
<1> DEFINE finished == finish_attempt(delivery_attempts[own],
                           Len(delivery_attempts[own]),
                           deliverer.finished_at, outcome)
<1>3. delivery_attempts' = [delivery_attempts EXCEPT ![own] = finished]
  BY <1>1 DEF FinishDeliveryAttempt
<1>4. /\ Paced(finished, deliveries[own].retry_window_started_at)
      /\ outcome = "terminal" => FailedForGood(finished)
  BY <1>1, <1>2, FinishPaced DEF DeliveryPaced
<1> HIDE DEF finished
<1> SUFFICES ASSUME NEW r \in Recordings PROVE PacedDelivery(r)'
  OBVIOUS
<1>5. CASE r = own
  BY <1>1, <1>3, <1>4, <1>5 DEF PacedDelivery
<1>6. CASE r # own
  BY <1>1, <1>3, <1>6 DEF PacedDelivery, DeliveryPaced
<1>7. QED
  BY <1>5, <1>6

\* The steps that take no part in attempts and windows, but may move the
\* Delivery worker.
LEMMA DelivererMoves ==
    ASSUME Safe, WindowsArePast, DeliveryPaced, [Next]_vars,
           ~StartDeliveryAttempt, ~SucceedDelivery, ~RetryDelivery,
           ~FailDelivery, ~Recover
    PROVE  /\ UNCHANGED delivery_attempts
           /\ \/ UNCHANGED deliverer
              \/ deliverer'.pc \notin {"claimed", "answered"}
              \/ /\ deliverer'.pc = "claimed"
                 /\ Ready(delivery_attempts[deliverer'.recording],
                          deliverer'.started_at)
              \/ /\ deliverer'.pc = "answered"
                 /\ deliverer'.recording \in Recordings
                 /\ deliverer'.finished_at = now
<1>0. /\ DelivererTypeOK
      /\ delivery_attempts \in [Recordings -> Seq(Attempt)]
  BY DEF Safe, TypeOK, StoreTypeOK
<1>1. UNCHANGED delivery_attempts
  BY DEF Next, ProcessStep, Upload, TranscriptionStep, ClaimReceived,
         NothingReceived, PickDueRetry, NoDueRetry, StartTranscriptionAttempt,
         TranscriberReturns, SucceedTranscription, RetryTranscription,
         FailTranscription, RoutingStep, PickRouting, RouteToSink,
         MarkBacklogged, DeliveryStep, PickDueDelivery, SinkReturns,
         SubmitRequest, AnswerRequest, ManualRoute, ManualRetryTranscription,
         ManualRetryDelivery, EndRequest, Audit, Crash, Tick, vars, store
<1>2. CASE PickDueDelivery
  <2>1. PICK at \in Readings(delivery_attempts), r \in Recordings :
          /\ r \in delivery_candidates
          /\ DeliveryDue(r, at)
          /\ deliverer' = [deliverer EXCEPT
                 !.pc = "claimed", !.recording = r, !.started_at = at,
                 !.retry_deadline_at = deliveries[r].retry_deadline_at]
    BY <1>2 DEF PickDueDelivery, DueDeliveries, delivery_candidates
  <2>2. /\ deliverer'.pc = "claimed"
        /\ deliverer'.recording = r
        /\ deliverer'.started_at = at
    BY <1>0, <2>1 DEF DelivererTypeOK
  <2> DEFINE attempts == delivery_attempts[r]
             last == attempts[Len(attempts)]
  <2>3. CASE attempts = <<>>
    BY <1>1, <2>2, <2>3 DEF Ready
  <2>4. CASE attempts # <<>>
    <3>1. attempts \in Seq(Attempt) /\ ~InFlight(attempts)
      BY <1>0, <2>1 DEF delivery_candidates
    <3>2. Len(attempts) \in DOMAIN attempts
      BY <2>4, <3>1, EmptySeq
    <3>3. ~IsOpen(last) /\ last \in Attempt
      BY <3>1, <3>2 DEF InFlight
    <3>4. /\ last.finished_at \in Int
          /\ deliveries[r].retry_window_started_at \in Int
      BY <3>3 DEF Safe, TypeOK, StoreTypeOK, DeliveryRow, Attempt, Times,
                  NoTime
    <3>5. Paced(attempts, deliveries[r].retry_window_started_at)
      BY DEF DeliveryPaced
    <3>6. deliveries[r].retry_window_started_at > last.finished_at
            => last.outcome = "terminal"
      BY <2>4, <3>3, <3>4, <3>5 DEF Paced
    <3>7. Ready(attempts, at)
      BY <2>1, <2>4, <3>3, <3>6 DEF DeliveryDue, Ready
    <3>8. QED
      BY <1>1, <2>2, <3>7
  <2>5. QED
    BY <2>3, <2>4
<1>3. CASE SinkReturns
  BY <1>0, <1>1, <1>3 DEF SinkReturns, DelivererTypeOK
<1>4. CASE Crash
  BY <1>1, <1>4 DEF Crash, IdleDeliverer
<1>5. ASSUME ~PickDueDelivery, ~SinkReturns, ~Crash
      PROVE  UNCHANGED deliverer
  BY <1>5
     DEF Next, ProcessStep, Upload, TranscriptionStep, ClaimReceived,
         NothingReceived, PickDueRetry, NoDueRetry, StartTranscriptionAttempt,
         TranscriberReturns, SucceedTranscription, RetryTranscription,
         FailTranscription, RoutingStep, PickRouting, RouteToSink,
         MarkBacklogged, DeliveryStep, SubmitRequest, AnswerRequest,
         ManualRoute, ManualRetryTranscription, ManualRetryDelivery,
         EndRequest, Audit, Tick, vars, process
<1>6. QED
  BY <1>1, <1>2, <1>3, <1>4, <1>5

\* The same for Deliveries: what is claimed is due until it starts.
LEMMA DeliveryPacedStep ==
    Safe /\ WindowsArePast /\ DeliveryPaced /\ [Next]_vars => DeliveryPaced'
<1> SUFFICES ASSUME Safe, WindowsArePast, DeliveryPaced, [Next]_vars
             PROVE  DeliveryPaced'
  OBVIOUS
<1>0. /\ deliveries \in [Recordings -> DeliveryRow]
      /\ delivery_attempts \in [Recordings -> Seq(Attempt)]
      /\ DelivererTypeOK /\ RequestsTypeOK
      /\ RowsAgree /\ HandsMatchRows
      /\ now \in Nat
  BY DEF Safe, TypeOK, StoreTypeOK
<1> DEFINE own == deliverer.recording
<1>1. \A r \in Recordings : deliveries[r].retry_window_started_at \in Times
  BY <1>0 DEF DeliveryRow
\* The worker starts what it claimed.
<1>2. CASE StartDeliveryAttempt
  <2>1. /\ own \in Recordings /\ UNCHANGED deliveries
        /\ deliverer.started_at \in Nat
        /\ Ready(delivery_attempts[own], deliverer.started_at)
        /\ \A r \in Recordings : PacedDelivery(r)
    BY <1>0, <1>2 DEF StartDeliveryAttempt, DelivererTypeOK, DeliveryPaced,
                      PacedDelivery
  <2>2. deliverer'.pc \in {"idle", "calling"}
    BY <1>2, DeliveryAttemptStarted DEF Safe
  <2>3. deliveries[own].status = "delivering"
    BY <1>2, HeldDelivery DEF StartDeliveryAttempt
  <2>4. CASE InFlight(delivery_attempts[own])
    <3>1. UNCHANGED delivery_attempts
      BY <1>2, <2>4 DEF StartDeliveryAttempt
    <3>2. QED
      BY <2>1, <2>2, <3>1 DEF DeliveryPaced, PacedDelivery
  <2>5. CASE ~InFlight(delivery_attempts[own])
    <3> DEFINE longer == Append(delivery_attempts[own],
                                NewAttempt(deliverer.started_at))
    <3>1. delivery_attempts' = [delivery_attempts EXCEPT ![own] = longer]
      BY <1>2, <2>5, Zenon DEF StartDeliveryAttempt
    <3>2. Paced(longer, deliveries[own].retry_window_started_at)
      BY <1>0, <1>1, <2>1, <2>5, AppendPaced DEF PacedDelivery
    <3> HIDE DEF longer
    <3>3. ASSUME NEW r \in Recordings PROVE PacedDelivery(r)'
      BY <1>0, <2>1, <2>3, <3>1, <3>2 DEF PacedDelivery
    <3>4. QED
      BY <2>2, <3>3 DEF DeliveryPaced, PacedDelivery
  <2>6. QED
    BY <2>4, <2>5
\* It ends it.
<1>3. CASE SucceedDelivery \/ RetryDelivery \/ FailDelivery
  <2>1. /\ deliverer.pc = "answered"
        /\ deliverer' = IdleDeliverer
    BY <1>3 DEF SucceedDelivery, RetryDelivery, FailDelivery
  <2>2. own \in Recordings /\ deliveries[own].status = "delivering"
    BY <2>1, HeldDelivery
  <2>3. \A r \in Recordings :
          deliveries'[r].retry_window_started_at =
            deliveries[r].retry_window_started_at
    <3>1. CASE SucceedDelivery
      BY <1>0, <3>1 DEF SucceedDelivery, DeliveryRow
    <3>2. CASE RetryDelivery
      BY <1>0, <3>2 DEF RetryDelivery, DeliveryRow
    <3>3. CASE FailDelivery
      BY <1>0, <3>3 DEF FailDelivery, DeliveryRow
    <3>4. QED
      BY <1>3, <3>1, <3>2, <3>3
  <2>4. \A r \in Recordings : PacedDelivery(r)'
    <3>1. CASE SucceedDelivery
      <4>1. \A r \in Recordings :
              deliveries'[r].status = "delivery_failed" =>
                deliveries[r].status = "delivery_failed" /\ r # own
        BY <1>0, <2>2, <3>1 DEF SucceedDelivery, DeliveryRow
      <4>2. QED
        BY <2>1, <2>3, <3>1, <4>1, DeliveryFinished DEF SucceedDelivery
    <3>2. CASE RetryDelivery
      <4>1. \A r \in Recordings :
              deliveries'[r].status = "delivery_failed" =>
                deliveries[r].status = "delivery_failed" /\ r # own
        BY <1>0, <2>2, <3>2 DEF RetryDelivery, DeliveryRow
      <4>2. QED
        BY <2>1, <2>3, <3>2, <4>1, DeliveryFinished DEF RetryDelivery
    <3>3. CASE FailDelivery
      <4>1. \A r \in Recordings \ {own} :
              deliveries'[r].status = deliveries[r].status
        BY <1>0, <3>3 DEF FailDelivery, DeliveryRow
      <4>2. FinishDeliveryAttempt("terminal")
        BY <3>3 DEF FailDelivery
      <4>3. \A r \in Recordings :
              deliveries'[r].status = "delivery_failed" =>
                \/ deliveries[r].status = "delivery_failed" /\ r # own
                \/ "terminal" = "terminal" /\ r = own
        BY <4>1
      <4>4. QED
        BY <2>1, <2>3, <4>2, <4>3, DeliveryFinished
    <3>4. QED
      BY <1>3, <3>1, <3>2, <3>3
  <2>5. QED
    BY <2>1, <2>4 DEF DeliveryPaced, PacedDelivery, IdleDeliverer
\* An Operator answers the end of the work.
<1>4. ASSUME NEW q \in Requests, ManualRetryDelivery(q)
      PROVE  DeliveryPaced'
  <2> DEFINE asked == requests[q].recording
  <2>1. /\ asked \in Recordings
        /\ recordings[asked].status = "delivery_failed"
        /\ UNCHANGED <<delivery_attempts, deliverer>>
        /\ deliveries' = [deliveries EXCEPT
               ![asked] = Reopened(@, requests[q].at)]
    BY <1>0, <1>4 DEF ManualRetryDelivery, DeliveryRetryAllowed, Audit,
                      RequestsTypeOK
  <2>2. deliveries[asked].status = "delivery_failed"
    BY <1>0, <2>1 DEF RowsAgree, RowAgrees, DeliveryStatuses
  <2>3. \A r \in Recordings :
          IF r = asked THEN deliveries'[r].status = "delivering"
          ELSE deliveries'[r] = deliveries[r]
    BY <1>0, <2>1 DEF Reopened, DeliveryRow
  <2>4. ASSUME NEW r \in Recordings PROVE PacedDelivery(r)'
    BY <2>1, <2>2, <2>3, ReopenPaced DEF PacedDelivery, DeliveryPaced
  <2>5. deliverer.pc # "idle" => own \in Recordings /\ own # asked
    BY <2>2, HeldDelivery
  <2>6. QED
    BY <2>1, <2>3, <2>4, <2>5 DEF DeliveryPaced, PacedDelivery
\* Recovery ends what a crash interrupted.
<1>5. CASE Recover
  <2>1. deliverer.pc = "idle" /\ UNCHANGED deliverer
    BY <1>0, <1>5 DEF Recover, HandsMatchRows, process
  <2>2. ASSUME NEW r \in Recordings PROVE PacedDelivery(r)'
    <3>1. /\ UNCHANGED deliveries
          /\ delivery_attempts'[r] =
               close_abandoned(delivery_attempts[r], now)
      BY <1>0, <1>5 DEF Recover
    <3>2. /\ Paced(delivery_attempts[r],
                   deliveries[r].retry_window_started_at)
          /\ deliveries[r].retry_window_started_at <= now
      BY DEF DeliveryPaced, WindowsArePast
    <3>3. QED
      BY <1>0, <1>1, <3>1, <3>2, ClosePaced DEF PacedDelivery, DeliveryPaced
  <2>3. QED
    BY <2>1, <2>2 DEF DeliveryPaced, PacedDelivery
\* Nothing else touches its attempts or windows.
<1>6. ASSUME ~StartDeliveryAttempt, ~SucceedDelivery, ~RetryDelivery,
             ~FailDelivery, ~Recover,
             \A q \in Requests : ~ManualRetryDelivery(q)
      PROVE  DeliveryPaced'
  <2>1. UNCHANGED delivery_attempts
    BY <1>6, DelivererMoves
  <2>2. \A r \in Recordings :
          /\ PacedDelivery(r)'
          /\ deliveries'[r].retry_window_started_at =
               deliveries[r].retry_window_started_at
    BY <1>6, <2>1, DeliveryQuiet
  <2>3. (deliverer.pc = "claimed" =>
           Ready(delivery_attempts[deliverer.recording],
                 deliverer.started_at))'
    BY <1>6, <2>1, DelivererMoves DEF DeliveryPaced
  <2>4. (deliverer.pc = "answered" =>
           deliveries[deliverer.recording].retry_window_started_at
             <= deliverer.finished_at)'
    BY <1>0, <1>6, <2>2, DelivererMoves
       DEF DeliveryPaced, WindowsArePast, DelivererTypeOK
  <2>5. QED
    BY <2>2, <2>3, <2>4 DEF DeliveryPaced, PacedDelivery
<1>7. QED
  BY <1>2, <1>3, <1>4, <1>5, <1>6

\* The invariant of the retry times.
Timed == WindowsArePast /\ TranscriptionPaced /\ DeliveryPaced

\* It holds in every reachable state.
LEMMA TimedAlways == Spec => []Timed
<1>1. Init => Timed
  <2> SUFFICES ASSUME Init PROVE Timed
    OBVIOUS
  <2>1. WindowsArePast
    BY DEF Init, WindowsArePast, AbsentRecording, AbsentDelivery, NoRequest,
           NoTime
  <2>2. Paced(<<>>, NoTime)
    BY DEF Paced
  <2>3. TranscriptionPaced
    BY <2>2 DEF Init, TranscriptionPaced, AbsentRecording, IdleTranscriber
  <2>4. DeliveryPaced
    BY <2>2 DEF Init, DeliveryPaced, AbsentDelivery, IdleDeliverer
  <2>5. QED
    BY <2>1, <2>3, <2>4 DEF Timed
<1>2. Safe /\ Timed /\ [Next]_vars => Timed'
  BY WindowsArePastStep, TranscriptionPacedStep, DeliveryPacedStep DEF Timed
<1>3. QED
  BY <1>1, <1>2, SafeAlways, PTL DEF Spec

\* No attempt, of any crash, failure or Operator, starts before the backoff
\* of the one before it is over, unless that was the end an Operator answered.
THEOREM RetriesWait == Spec => []BackoffRespected
<1>1. Timed => BackoffRespected
  BY DEF Timed, TranscriptionPaced, DeliveryPaced, Paced, BackoffRespected
<1>2. QED
  BY <1>1, TimedAlways, PTL

-----------------------------------------------------------------------------
(* Nobody gives up early: the worker holds the anchor and the deadline     *)
(* that the rows give, so an expired retry is expired by the rows.         *)

\* The deadline a Delivery row bears.
DeadlineFollowsWindow(r) ==
    deliveries[r].status # "absent" =>
        deliveries[r].retry_deadline_at = DELIVERY_WINDOW +
          (IF deliveries[r].retry_window_started_at # NoTime
           THEN deliveries[r].retry_window_started_at
           ELSE deliveries[r].selected_at)

Deadlines == \A r \in Recordings : DeadlineFollowsWindow(r)

\* It is written with the window, by a selection or a manual retry.
LEMMA DeadlinesStep == Safe /\ Deadlines /\ [Next]_vars => Deadlines'
<1> SUFFICES ASSUME Safe, Deadlines, [Next]_vars, NEW r \in Recordings
             PROVE  DeadlineFollowsWindow(r)'
  BY DEF Deadlines
<1>0. /\ deliveries \in [Recordings -> DeliveryRow]
      /\ RequestsTypeOK
      /\ RowsAgree
  BY DEF Safe, TypeOK, StoreTypeOK
<1> DEFINE Same ==
        /\ deliveries'[r].retry_window_started_at =
             deliveries[r].retry_window_started_at
        /\ deliveries'[r].selected_at = deliveries[r].selected_at
        /\ deliveries'[r].retry_deadline_at = deliveries[r].retry_deadline_at
        /\ deliveries'[r].status = "absent" <=> deliveries[r].status = "absent"
<1>1. ASSUME Same PROVE DeadlineFollowsWindow(r)'
  BY <1>1 DEF DeadlineFollowsWindow, Deadlines
<1>2. ASSUME UNCHANGED deliveries PROVE Same
  BY <1>2
<1>3. ASSUME NEW q, NEW sink, NEW at \in Nat, insert_delivery(q, sink, at)
      PROVE  DeadlineFollowsWindow(r)'
  <2>1. CASE r = q
    <3>1. deliveries'[r] = [AbsentDelivery EXCEPT
                               !.status = "delivering", !.sink_name = sink,
                               !.selected_at = at,
                               !.retry_deadline_at = at + DELIVERY_WINDOW]
      BY <1>0, <1>3, <2>1 DEF insert_delivery
    <3>2. /\ deliveries'[r].retry_window_started_at = NoTime
          /\ deliveries'[r].selected_at = at
          /\ deliveries'[r].retry_deadline_at = at + DELIVERY_WINDOW
      BY <3>1 DEF AbsentDelivery
    <3>3. QED
      BY <3>2, RetryAssumption DEF DeadlineFollowsWindow
  <2>2. CASE r # q
    <3>1. Same
      BY <1>0, <1>3, <2>2 DEF insert_delivery
    <3>2. QED
      BY <1>1, <3>1
  <2>3. QED
    BY <2>1, <2>2
<1>4. ASSUME NEW w \in Routers, RouteToSink(w)
      PROVE  DeadlineFollowsWindow(r)'
  <2>1. \/ UNCHANGED deliveries
        \/ insert_delivery(routers[w].recording, routers[w].decision,
                           routers[w].at)
    BY <1>4, Zenon DEF RouteToSink
  <2>2. routers[w].at \in Nat
    BY DEF Safe, TypeOK, RoutersTypeOK
  <2>3. QED
    BY <1>1, <1>2, <1>3, <2>1, <2>2
<1>5. ASSUME NEW q \in Requests, ManualRoute(q)
      PROVE  DeadlineFollowsWindow(r)'
  <2>1. requests[q].at \in Nat
    BY <1>0 DEF RequestsTypeOK
  <2>2. insert_delivery(requests[q].recording, requests[q].sink,
                        requests[q].at)
    BY <1>5 DEF ManualRoute
  <2>3. QED
    BY <1>3, <2>1, <2>2
<1>6. ASSUME NEW q \in Requests, ManualRetryDelivery(q)
      PROVE  DeadlineFollowsWindow(r)'
  <2> DEFINE asked == requests[q].recording
  <2>1. /\ requests[q].at \in Nat
        /\ deliveries' = [deliveries EXCEPT
               ![asked] = Reopened(@, requests[q].at)]
    BY <1>0, <1>6 DEF ManualRetryDelivery, RequestsTypeOK
  <2>2. CASE r = asked
    <3>1. deliveries'[r] = Reopened(deliveries[r], requests[q].at)
      BY <1>0, <2>1, <2>2
    <3>2. /\ deliveries'[r].retry_window_started_at = requests[q].at
          /\ deliveries'[r].retry_deadline_at =
               requests[q].at + DELIVERY_WINDOW
      BY <1>0, <3>1 DEF Reopened, DeliveryRow
    <3>3. requests[q].at # NoTime
      BY <2>1 DEF NoTime
    <3>4. QED
      BY <2>1, <3>2, <3>3, RetryAssumption DEF DeadlineFollowsWindow
  <2>3. CASE r # asked
    BY <1>0, <1>1, <2>1, <2>3
  <2>4. QED
    BY <2>2, <2>3
<1>7. CASE SucceedDelivery \/ RetryDelivery \/ FailDelivery
  <2>1. deliverer.recording \in Recordings
          /\ deliveries[deliverer.recording].status = "delivering"
    BY <1>7, HeldDelivery DEF SucceedDelivery, RetryDelivery, FailDelivery
  <2>2. CASE SucceedDelivery
    BY <1>0, <1>1, <2>1, <2>2 DEF SucceedDelivery, DeliveryRow
  <2>3. CASE RetryDelivery
    BY <1>0, <1>1, <2>1, <2>3 DEF RetryDelivery, DeliveryRow
  <2>4. CASE FailDelivery
    BY <1>0, <1>1, <2>1, <2>4 DEF FailDelivery, DeliveryRow
  <2>5. QED
    BY <1>7, <2>2, <2>3, <2>4
<1>8. \/ UNCHANGED deliveries
      \/ \E w \in Routers : RouteToSink(w)
      \/ \E q \in Requests : ManualRoute(q) \/ ManualRetryDelivery(q)
      \/ SucceedDelivery \/ RetryDelivery \/ FailDelivery
  BY DEF Next, ProcessStep, Upload, TranscriptionStep, ClaimReceived,
         NothingReceived, PickDueRetry, NoDueRetry, StartTranscriptionAttempt,
         TranscriberReturns, SucceedTranscription, RetryTranscription,
         FailTranscription, RoutingStep, PickRouting, MarkBacklogged,
         DeliveryStep, PickDueDelivery, StartDeliveryAttempt, SinkReturns,
         SubmitRequest, AnswerRequest, ManualRetryTranscription, EndRequest,
         Recover, Crash, Tick, vars, store
<1>9. QED
  BY <1>1, <1>2, <1>4, <1>5, <1>6, <1>7, <1>8

\* The first attempt started no later than `at`.
StartsBy(attempts, at) == attempts # <<>> => attempts[1].started_at <= at

\* The first attempt is the earliest.
FirstIsEarliest(attempts) ==
    \A i \in 1..Len(attempts) : StartsBy(attempts, attempts[i].started_at)

\* What the deadline of Recording r's Transcription counts from.
Anchor(r) ==
    IF recordings[r].retry_window_started_at # NoTime
    THEN recordings[r].retry_window_started_at
    ELSE transcription_attempts[r][1].started_at

\* Attempts start in the order of their rows, and the worker in a call holds
\* the anchor that the rows have.
AnchorsHold ==
    /\ \A r \in Recordings :
         /\ FirstIsEarliest(transcription_attempts[r])
         /\ StartsBy(transcription_attempts[r], now)
    /\ transcriber.pc \in {"listing", "claimed"} =>
         /\ transcriber.started_at <= now
         /\ \A r \in Recordings :
              StartsBy(transcription_attempts[r], transcriber.started_at)
    /\ transcriber.pc \in {"calling", "answered"} =>
         transcriber.first_started_at = Anchor(transcriber.recording)

\* The same attempts with the same starts.
SameStarts(new, old) ==
    /\ Len(new) = Len(old)
    /\ new = <<>> <=> old = <<>>
    /\ \A i \in 1..Len(old) : new[i].started_at = old[i].started_at

\* What depends on the starts only is kept with them.
LEMMA SameStartsKeep ==
    ASSUME NEW new \in Seq(Attempt), NEW old \in Seq(Attempt),
           SameStarts(new, old)
    PROVE  /\ FirstIsEarliest(old) => FirstIsEarliest(new)
           /\ \A at : StartsBy(old, at) => StartsBy(new, at)
           /\ old # <<>> => new[1].started_at = old[1].started_at
<1>1. old # <<>> => 1 \in 1..Len(old)
  BY EmptySeq
<1>2. QED
  BY <1>1 DEF SameStarts, FirstIsEarliest, StartsBy

\* Only the start of an attempt adds a start.
LEMMA StartsAreKept ==
    ASSUME Safe, [Next]_vars, ~StartTranscriptionAttempt, NEW r \in Recordings
    PROVE  SameStarts(transcription_attempts'[r], transcription_attempts[r])
<1>0. /\ transcription_attempts \in [Recordings -> Seq(Attempt)]
      /\ TranscriberTypeOK /\ HandsMatchRows
      /\ now \in Nat
  BY DEF Safe, TypeOK, StoreTypeOK
<1>1. CASE UNCHANGED transcription_attempts
  BY <1>1 DEF SameStarts
<1>2. ASSUME NEW outcome \in {"succeeded", "retryable", "terminal"},
             transcriber.pc = "answered",
             FinishTranscriptionAttempt(outcome)
      PROVE  SameStarts(transcription_attempts'[r], transcription_attempts[r])
  <2> DEFINE own == transcriber.recording
             old == transcription_attempts[own]
             n == Len(old)
             finished == finish_attempt(old, n, transcriber.finished_at,
                                        outcome)
  <2>1. /\ own \in Recordings
        /\ old \in Seq(Attempt)
        /\ transcriber.attempt = n
        /\ n > 0
        /\ transcriber.finished_at \in Nat
    BY <1>0, <1>2 DEF TranscriberTypeOK, HandsMatchRows
  <2>2. transcription_attempts' =
          [transcription_attempts EXCEPT ![own] = finished]
    BY <1>2, <2>1 DEF FinishTranscriptionAttempt
  <2>3. /\ Len(finished) = n
        /\ finished # <<>>
        /\ finished[n].started_at = old[n].started_at
        /\ \A i \in 1..(n - 1) : finished[i] = old[i]
    BY <1>2, <2>1, FinishLast
  <2> HIDE DEF finished
  <2>4. SameStarts(finished, old)
    BY <2>1, <2>3, EmptySeq DEF SameStarts
  <2>5. CASE r = own
    BY <1>0, <2>1, <2>2, <2>4, <2>5
  <2>6. CASE r # own
    BY <1>0, <2>2, <2>6 DEF SameStarts
  <2>7. QED
    BY <2>5, <2>6
<1>3. CASE Recover
  <2> DEFINE old == transcription_attempts[r]
             closed == close_abandoned(old, now)
  <2>1. transcription_attempts'[r] = closed
    BY <1>3 DEF Recover
  <2>2. old \in Seq(Attempt)
    BY <1>0
  <2>3. Len(closed) = Len(old) /\ (closed = <<>> <=> old = <<>>)
    BY <1>0, <2>2, CloseAbandoned
  <2>4. ASSUME NEW i \in 1..Len(old)
        PROVE  closed[i].started_at = old[i].started_at
    <3>1. old[i] \in Attempt /\ i \in DOMAIN old
      BY <2>2
    <3>2. closed[i] = IF IsOpen(old[i])
                      THEN [old[i] EXCEPT !.finished_at = now,
                                          !.outcome = "retryable"]
                      ELSE old[i]
      BY <3>1 DEF close_abandoned
    <3> HIDE DEF closed
    <3>3. QED
      BY <3>1, <3>2 DEF Attempt
  <2> HIDE DEF closed
  <2>5. QED
    BY <2>1, <2>3, <2>4 DEF SameStarts
<1>4. \/ UNCHANGED transcription_attempts
      \/ SucceedTranscription \/ RetryTranscription \/ FailTranscription
      \/ Recover
  BY DEF Next, ProcessStep, Upload, TranscriptionStep, ClaimReceived,
         NothingReceived, PickDueRetry, NoDueRetry, TranscriberReturns,
         RoutingStep, PickRouting, RouteToSink, MarkBacklogged, DeliveryStep,
         PickDueDelivery, StartDeliveryAttempt, SinkReturns, SucceedDelivery,
         RetryDelivery, FailDelivery, SubmitRequest, AnswerRequest,
         ManualRoute, ManualRetryTranscription, ManualRetryDelivery,
         EndRequest, Audit, Crash, Tick, vars, store
<1>5. CASE SucceedTranscription
  BY <1>2, <1>5 DEF SucceedTranscription
<1>6. CASE RetryTranscription
  BY <1>2, <1>6 DEF RetryTranscription
<1>7. CASE FailTranscription
  BY <1>2, <1>7 DEF FailTranscription
<1>8. QED
  BY <1>1, <1>3, <1>4, <1>5, <1>6, <1>7

\* A reading of a tick follows every start in the worker's table.
LEMMA ReadingsFollow ==
    ASSUME now \in Nat, NEW table \in [Recordings -> Seq(Attempt)],
           NEW at \in Readings(table)
    PROVE  /\ at \in Nat /\ at <= now
           /\ \A r \in Recordings : StartsBy(table[r], at)
<1>1. /\ at \in Nat /\ at <= now
      /\ \A r \in Recordings : Past(table[r], at)
  BY DEF Readings, RecentTimes
<1>2. ASSUME NEW r \in Recordings, table[r] # <<>>
      PROVE  table[r][1].started_at <= at
  <2>1. 1 \in DOMAIN table[r]
    BY <1>2, EmptySeq
  <2>2. QED
    BY <1>1, <2>1 DEF Past
<1>3. QED
  BY <1>1, <1>2 DEF StartsBy

\* How the Transcription worker moves when it does not start an attempt.
LEMMA TranscriberHolds ==
    ASSUME Safe, [Next]_vars, ~StartTranscriptionAttempt
    PROVE  \/ UNCHANGED transcriber
           \/ transcriber'.pc = "idle"
           \/ /\ transcriber'.pc \in {"claimed", "listing"}
              /\ transcriber'.started_at \in Readings(transcription_attempts)
           \/ /\ transcriber.pc = "listing"
              /\ transcriber'.pc = "claimed"
              /\ transcriber'.started_at = transcriber.started_at
           \/ /\ transcriber.pc = "calling"
              /\ transcriber'.pc = "answered"
              /\ transcriber'.recording = transcriber.recording
              /\ transcriber'.first_started_at = transcriber.first_started_at
              /\ transcriber'.finished_at = now
<1>0. TranscriberTypeOK
  BY DEF Safe, TypeOK
<1>1. CASE ClaimReceived \/ NothingReceived
  BY <1>0, <1>1 DEF ClaimReceived, NothingReceived, TranscriberTypeOK
<1>2. CASE PickDueRetry
  BY <1>0, <1>2 DEF PickDueRetry, TranscriberTypeOK
<1>3. CASE TranscriberReturns
  BY <1>0, <1>3 DEF TranscriberReturns, TranscriberTypeOK
<1>4. CASE \/ NoDueRetry \/ SucceedTranscription \/ RetryTranscription
           \/ FailTranscription \/ Crash
  BY <1>4 DEF NoDueRetry, SucceedTranscription, RetryTranscription,
              FailTranscription, Crash, IdleTranscriber
<1>5. ASSUME ~ClaimReceived, ~NothingReceived, ~PickDueRetry,
             ~TranscriberReturns, ~NoDueRetry, ~SucceedTranscription,
             ~RetryTranscription, ~FailTranscription, ~Crash
      PROVE  UNCHANGED transcriber
  BY <1>5
     DEF Next, ProcessStep, Upload, TranscriptionStep, RoutingStep,
         PickRouting, RouteToSink, MarkBacklogged, DeliveryStep,
         PickDueDelivery, StartDeliveryAttempt, SinkReturns, SucceedDelivery,
         RetryDelivery, FailDelivery, SubmitRequest, AnswerRequest,
         ManualRoute, ManualRetryTranscription, ManualRetryDelivery,
         EndRequest, Audit, Recover, Tick, vars, process
<1>6. QED
  BY <1>1, <1>2, <1>3, <1>4, <1>5

\* The start computes the anchor, and nothing moves it during the call.
LEMMA AnchorsStep == Safe /\ AnchorsHold /\ [Next]_vars => AnchorsHold'
<1> SUFFICES ASSUME Safe, AnchorsHold, [Next]_vars PROVE AnchorsHold'
  OBVIOUS
<1>0. /\ transcription_attempts \in [Recordings -> Seq(Attempt)]
      /\ recordings \in [Recordings -> RecordingRow]
      /\ TranscriberTypeOK
      /\ now \in Nat
      /\ HandsMatchRows /\ WorkersKeepTheirClaim
  BY DEF Safe, TypeOK, StoreTypeOK
<1> DEFINE own == transcriber.recording
<1>1. CASE StartTranscriptionAttempt
  <2>1. /\ own \in Recordings
        /\ transcriber.pc = "claimed"
        /\ transcriber.started_at \in Nat
        /\ transcriber.started_at <= now
        /\ StartsBy(transcription_attempts[own], transcriber.started_at)
        /\ UNCHANGED <<recordings, now>>
    BY <1>0, <1>1 DEF StartTranscriptionAttempt, TranscriberTypeOK,
                      AnchorsHold
  <2>2. CASE InFlight(transcription_attempts[own])
    BY <1>1, <2>1, <2>2 DEF StartTranscriptionAttempt, IdleTranscriber,
                            AnchorsHold
  <2>3. CASE ~InFlight(transcription_attempts[own])
    <3> DEFINE old == transcription_attempts[own]
               n == Len(old)
               longer == Append(old, NewAttempt(transcriber.started_at))
    <3>1. /\ n \in Nat
          /\ old \in Seq(Attempt)
          /\ longer \in Seq(Attempt)
          /\ Len(longer) = n + 1
          /\ \A i \in 1..n : longer[i] = old[i]
      BY <1>0, <2>1, AppendAttempt
    <3>2. longer[n + 1].started_at = transcriber.started_at
      BY <3>1 DEF NewAttempt
    <3>3. transcription_attempts' =
            [transcription_attempts EXCEPT ![own] = longer]
      BY <1>1, <2>3, Zenon DEF StartTranscriptionAttempt
    <3>4. PICK anchor \in RetryAnchors(own, longer) :
            transcriber' = [transcriber EXCEPT
                !.pc = "calling", !.attempt = Len(longer),
                !.first_started_at = anchor]
      BY <1>1, <2>3, Zenon DEF StartTranscriptionAttempt
    <3>5. /\ transcriber'.pc = "calling"
          /\ transcriber'.recording = own
          /\ transcriber'.first_started_at = anchor
      BY <1>0, <3>4 DEF TranscriberTypeOK
    <3> HIDE DEF longer
    <3>6. /\ longer # <<>>
          /\ longer[1].started_at <= transcriber.started_at
          /\ 1 \in 1..(n + 1)
          /\ \A i \in 1..(n + 1) : longer[i] \in Attempt
      BY <2>1, <3>1, <3>2, EmptySeq DEF StartsBy
    <3>7. \A i \in 1..(n + 1) :
            longer[1].started_at <= longer[i].started_at
      <4>1. SUFFICES ASSUME NEW i \in 1..(n + 1)
                     PROVE  longer[1].started_at <= longer[i].started_at
        OBVIOUS
      <4>2. CASE i = n + 1
        BY <3>2, <3>6, <4>2
      <4>3. CASE i \in 1..n
        <5>1. old # <<>> /\ longer[1] = old[1] /\ longer[i] = old[i]
          BY <3>1, <4>3, EmptySeq
        <5>2. old[1].started_at <= old[i].started_at
          BY <2>1, <4>3, <5>1 DEF AnchorsHold, FirstIsEarliest, StartsBy
        <5>3. QED
          BY <5>1, <5>2
      <4>4. QED
        BY <3>1, <4>2, <4>3
    <3>8. ASSUME NEW r \in Recordings
          PROVE  /\ FirstIsEarliest(transcription_attempts'[r])
                 /\ StartsBy(transcription_attempts'[r], now)
      <4>1. CASE r = own
        <5>1. transcription_attempts'[r] = longer
          BY <1>0, <3>3, <4>1
        <5>2. longer[1].started_at \in Nat
          BY <3>6 DEF Attempt
        <5>3. QED
          BY <1>0, <2>1, <3>1, <3>6, <3>7, <5>1, <5>2
             DEF FirstIsEarliest, StartsBy
      <4>2. CASE r # own
        BY <1>0, <3>3, <4>2 DEF AnchorsHold
      <4>3. QED
        BY <4>1, <4>2
    <3>9. anchor = Anchor(own)'
      <4>1. transcription_attempts'[own] = longer
        BY <1>0, <2>1, <3>3
      <4>2. CASE recordings[own].retry_window_started_at # NoTime
        BY <2>1, <3>5, <4>2 DEF RetryAnchors, Anchor
      <4>3. CASE recordings[own].retry_window_started_at = NoTime
        <5>1. DOMAIN longer = 1..(n + 1)
          BY <3>1
        <5>2. PICK i \in 1..(n + 1) :
                /\ anchor = longer[i].started_at
                /\ anchor <= longer[1].started_at
          BY <3>6, <4>3, <5>1 DEF RetryAnchors
        <5>3. /\ longer[1].started_at \in Nat
              /\ longer[i].started_at \in Nat
          BY <3>6 DEF Attempt
        <5>4. anchor = longer[1].started_at
          BY <3>7, <5>2, <5>3
        <5>5. QED
          BY <2>1, <3>5, <4>1, <4>3, <5>4 DEF Anchor
      <4>4. QED
        BY <4>2, <4>3
    <3>10. QED
      BY <2>1, <3>5, <3>8, <3>9 DEF AnchorsHold, Anchor
  <2>4. QED
    BY <2>2, <2>3
<1>2. CASE ~StartTranscriptionAttempt
  <2>1. /\ transcription_attempts' \in [Recordings -> Seq(Attempt)]
        /\ now' \in Nat
    BY StepType DEF Safe, TypeOK, StoreTypeOK
  <2>2. now <= now'
    BY <1>0, NowMoves
  <2>3. \A r \in Recordings :
          SameStarts(transcription_attempts'[r], transcription_attempts[r])
    BY <1>2, StartsAreKept
  <2>4. ASSUME NEW r \in Recordings, NEW at \in Nat, NEW later \in Nat,
               StartsBy(transcription_attempts[r], at), at <= later
        PROVE  StartsBy(transcription_attempts'[r], later)
    <3>1. transcription_attempts[r] # <<>> =>
            transcription_attempts[r][1].started_at \in Nat
      <4>1. transcription_attempts[r] \in Seq(Attempt)
        BY <1>0
      <4>2. transcription_attempts[r] # <<>> =>
              transcription_attempts[r][1] \in Attempt
        BY <4>1, EmptySeq
      <4>3. QED
        BY <4>2 DEF Attempt
    <3>2. StartsBy(transcription_attempts[r], later)
      BY <2>4, <3>1 DEF StartsBy
    <3>3. QED
      BY <1>0, <2>1, <2>3, <3>2, SameStartsKeep
  <2>5. ASSUME NEW r \in Recordings
        PROVE  /\ FirstIsEarliest(transcription_attempts'[r])
               /\ StartsBy(transcription_attempts'[r], now')
    <3>1. FirstIsEarliest(transcription_attempts'[r])
      BY <1>0, <2>1, <2>3, SameStartsKeep DEF AnchorsHold
    <3>2. QED
      BY <1>0, <2>1, <2>2, <2>4, <3>1 DEF AnchorsHold
  <2>6. ASSUME transcriber'.pc \in {"listing", "claimed"}
        PROVE  /\ transcriber'.started_at <= now'
               /\ \A r \in Recordings :
                    StartsBy(transcription_attempts'[r],
                             transcriber'.started_at)
    <3>1. \/ transcriber'.started_at \in Readings(transcription_attempts)
          \/ /\ transcriber.pc \in {"listing", "claimed"}
             /\ transcriber'.started_at = transcriber.started_at
      BY <1>2, <2>6, TranscriberHolds
    <3>2. transcriber.started_at \in Nat
      BY <1>0 DEF TranscriberTypeOK
    <3>3. ASSUME NEW at \in Readings(transcription_attempts)
          PROVE  /\ at \in Nat /\ at <= now
                 /\ \A r \in Recordings :
                      StartsBy(transcription_attempts[r], at)
      BY <1>0, ReadingsFollow
    <3>4. QED
      BY <1>0, <2>1, <2>2, <2>4, <3>1, <3>2, <3>3 DEF AnchorsHold
  <2>7. ASSUME transcriber'.pc \in {"calling", "answered"}
        PROVE  transcriber'.first_started_at = Anchor(transcriber.recording)'
                 /\ transcriber'.recording = transcriber.recording
    <3>1. /\ transcriber.pc \in {"calling", "answered"}
          /\ transcriber'.recording = own
          /\ transcriber'.first_started_at = transcriber.first_started_at
      BY <1>2, <2>7, TranscriberHolds
    <3>2. /\ own \in Recordings
          /\ recordings[own].status = "transcribing"
          /\ Len(transcription_attempts[own]) > 0
      BY <1>0, <3>1 DEF TranscriberTypeOK, WorkersKeepTheirClaim,
                        HandsMatchRows
    <3>3. recordings'[own].retry_window_started_at =
            recordings[own].retry_window_started_at
      <4>1. ASSUME NEW q \in Requests, ManualRetryTranscription(q)
            PROVE  requests[q].recording # own
        BY <3>2, <4>1
           DEF ManualRetryTranscription, TranscriptionRetryAllowed
      <4>2. ASSUME NEW q \in Requests, ManualRetryDelivery(q)
            PROVE  requests[q].recording # own
        BY <3>2, <4>2 DEF ManualRetryDelivery, DeliveryRetryAllowed
      <4>3. QED
        BY <3>2, <4>1, <4>2, WindowMoves DEF WindowKept
    <3>4. transcription_attempts'[own][1].started_at =
            transcription_attempts[own][1].started_at
      <4>1. transcription_attempts[own] # <<>>
        BY <1>0, <3>2, EmptySeq
      <4>2. QED
        BY <1>0, <2>1, <2>3, <3>2, <4>1, SameStartsKeep
    <3>5. transcriber.first_started_at = Anchor(own)
      BY <3>1 DEF AnchorsHold
    <3>6. QED
      BY <3>1, <3>3, <3>4, <3>5 DEF Anchor
  <2>8. QED
    BY <2>5, <2>6, <2>7 DEF AnchorsHold, Anchor
<1>3. QED
  BY <1>1, <1>2

\* What every reachable state says of anchors and deadlines.
AnchorsAndDeadlines == AnchorsHold /\ Deadlines

\* It holds in every reachable state.
LEMMA AnchorsAndDeadlinesAlways == Spec => []AnchorsAndDeadlines
<1>1. Init => AnchorsAndDeadlines
  <2> SUFFICES ASSUME Init PROVE AnchorsAndDeadlines
    OBVIOUS
  <2>1. AnchorsHold
    BY DEF Init, AnchorsHold, FirstIsEarliest, StartsBy, IdleTranscriber
  <2>2. Deadlines
    BY DEF Init, Deadlines, DeadlineFollowsWindow, AbsentDelivery
  <2>3. QED
    BY <2>1, <2>2 DEF AnchorsAndDeadlines
<1>2. Safe /\ AnchorsAndDeadlines /\ [Next]_vars => AnchorsAndDeadlines'
  BY AnchorsStep, DeadlinesStep DEF AnchorsAndDeadlines
<1>3. QED
  BY <1>1, <1>2, SafeAlways, PTL DEF Spec

\* A retryable failure is the last one only past the window the rows give.
LEMMA GivingUpStep ==
    ASSUME Safe, AnchorsAndDeadlines, [Next]_vars, NEW r \in Recordings
    PROVE  /\ /\ recordings[r].status = "transcribing"
              /\ recordings'[r].status = "transcription_failed"
              /\ transcriber.result = "retryable"
              => transcriber.finished_at >=
                   transcription_deadline(Anchor(r), AudioDuration[r])
           /\ /\ recordings[r].status = "delivering"
              /\ recordings'[r].status = "delivery_failed"
              /\ deliverer.result = "retryable"
              => deliverer.finished_at >= DELIVERY_WINDOW +
                   (IF deliveries[r].retry_window_started_at # NoTime
                    THEN deliveries[r].retry_window_started_at
                    ELSE deliveries[r].selected_at)
<1>0. /\ recordings \in [Recordings -> RecordingRow]
      /\ deliveries \in [Recordings -> DeliveryRow]
      /\ RowsAgree /\ WorkersKeepTheirClaim
      /\ DelivererTypeOK
  BY DEF Safe, TypeOK, StoreTypeOK
<1>1. ASSUME recordings[r].status = "transcribing",
             recordings'[r].status = "transcription_failed",
             transcriber.result = "retryable"
      PROVE  transcriber.finished_at >=
               transcription_deadline(Anchor(r), AudioDuration[r])
  <2>1. FailTranscription /\ transcriber.recording = r
    <3>1. FailDelivery /\ deliverer.recording = r =>
            recordings'[r].status = "delivery_failed"
      BY <1>0 DEF FailDelivery, RecordingRow
    <3>2. QED
      BY <1>1, <3>1, FailureMoves DEF NotFailed
  <2>2. TranscriptionExpired /\ transcriber.pc = "answered"
    BY <1>1, <2>1 DEF FailTranscription
  <2>3. transcriber.first_started_at = Anchor(r)
    BY <2>1, <2>2 DEF AnchorsAndDeadlines, AnchorsHold
  <2>4. QED
    BY <2>1, <2>2, <2>3 DEF TranscriptionExpired
<1>2. ASSUME recordings[r].status = "delivering",
             recordings'[r].status = "delivery_failed",
             deliverer.result = "retryable"
      PROVE  deliverer.finished_at >= DELIVERY_WINDOW +
               (IF deliveries[r].retry_window_started_at # NoTime
                THEN deliveries[r].retry_window_started_at
                ELSE deliveries[r].selected_at)
  <2>1. FailDelivery /\ deliverer.recording = r
    <3>1. recordings'[r].status # recordings[r].status
      BY <1>2
    <3>2. deliveries[r].status = "delivering"
      BY <1>0, <1>2 DEF RowsAgree, RowAgrees, DeliveryStatuses
    <3>3. deliveries'[r].status = "delivery_failed"
      BY <1>2, RowsAgreeStep DEF RowsAgree, RowAgrees, DeliveryStatuses
    <3>4. FailTranscription => UNCHANGED deliveries
      BY DEF FailTranscription
    <3>5. QED
      BY <3>2, <3>3, <3>4, FailureMoves DEF NotFailed
  <2>2. DeliveryExpired /\ deliverer.pc = "answered"
    BY <1>2, <2>1 DEF FailDelivery
  <2>3. deliverer.retry_deadline_at = deliveries[r].retry_deadline_at
    BY <1>0, <2>1, <2>2 DEF WorkersKeepTheirClaim
  <2>4. deliveries[r].status # "absent"
    BY <1>0, <1>2 DEF RowsAgree, RowAgrees, DeliveryStatuses
  <2>5. QED
    BY <2>2, <2>3, <2>4 DEF DeliveryExpired, AnchorsAndDeadlines, Deadlines,
                            DeadlineFollowsWindow
<1>3. QED
  BY <1>1, <1>2

\* No Recording is failed for a retryable error before the window that its
\* rows show, the Operator's latest included, is over.
THEOREM GivesUpOnlyLate == Spec => NoEarlyGiveUp
<1>1. Safe /\ AnchorsAndDeadlines /\ [Next]_vars =>
        [\A r \in Recordings :
          /\ /\ recordings[r].status = "transcribing"
             /\ recordings'[r].status = "transcription_failed"
             /\ transcriber.result = "retryable"
             => transcriber.finished_at >=
                  transcription_deadline(
                    IF recordings[r].retry_window_started_at # NoTime
                    THEN recordings[r].retry_window_started_at
                    ELSE transcription_attempts[r][1].started_at,
                    AudioDuration[r])
          /\ /\ recordings[r].status = "delivering"
             /\ recordings'[r].status = "delivery_failed"
             /\ deliverer.result = "retryable"
             => deliverer.finished_at >= DELIVERY_WINDOW +
                  (IF deliveries[r].retry_window_started_at # NoTime
                   THEN deliveries[r].retry_window_started_at
                   ELSE deliveries[r].selected_at)]_vars
  BY GivingUpStep DEF Anchor
<1>2. QED
  BY <1>1, SafeAlways, AnchorsAndDeadlinesAlways, PTL
     DEF Spec, NoEarlyGiveUp

-----------------------------------------------------------------------------
(* The attempts of one table stand in the order of time.  Both workers     *)
(* keep them so in the same way: `lists` are the attempts of the table and *)
(* `worker` is the one that writes them.                                   *)

\* What a worker has claimed starts after all attempts, and what it has an
\* answer for ends after its start.
Chronological(lists, worker, at) ==
    /\ \A r \in Recordings : InOrder(lists[r]) /\ Past(lists[r], at)
    /\ worker.pc \in {"listing", "claimed"} =>
         /\ worker.started_at <= at
         /\ \A r \in Recordings : Past(lists[r], worker.started_at)
    /\ worker.pc = "answered" =>
         /\ worker.finished_at <= at
         /\ LET own == lists[worker.recording]
            IN  own[Len(own)].started_at <= worker.finished_at

\* What a step may do to the list of Recording r.
ListMoves(old, new, r, worker, at) ==
    \/ new = old
    \/ /\ worker.pc = "claimed"
       /\ ~InFlight(old)
       /\ new = Append(old, NewAttempt(worker.started_at))
    \/ /\ worker.pc = "answered"
       /\ worker.recording = r
       /\ Len(old) > 0
       /\ \E outcome \in {"succeeded", "retryable", "terminal"} :
            new = finish_attempt(old, Len(old), worker.finished_at, outcome)
    \/ new = close_abandoned(old, at)

\* What it may do to the worker.
WorkerMoves(lists, changed, worker, moved, at) ==
    \/ moved.pc \in {"idle", "calling"}
    \/ /\ changed = lists
       /\ \/ moved = worker
          \/ /\ moved.pc \in {"listing", "claimed"}
             /\ moved.started_at \in 0..at
             /\ \A r \in Recordings : Past(lists[r], moved.started_at)
          \/ /\ worker.pc = "listing"
             /\ moved.pc = "claimed"
             /\ moved.started_at = worker.started_at
          \/ /\ moved.pc = "answered"
             /\ moved.finished_at = at
             /\ moved.recording \in Recordings
             /\ Len(lists[moved.recording]) > 0

\* A list that is past stays past.
LEMMA StaysPast ==
    ASSUME NEW attempts \in Seq(Attempt), NEW at \in Nat, NEW later \in Nat,
           at <= later, Past(attempts, at)
    PROVE  Past(attempts, later)
<1> SUFFICES ASSUME NEW i \in DOMAIN attempts
             PROVE  /\ attempts[i].started_at <= later
                    /\ ~IsOpen(attempts[i]) => attempts[i].finished_at <= later
  BY DEF Past
<1>1. /\ attempts[i].started_at \in Nat
      /\ ~IsOpen(attempts[i]) => attempts[i].finished_at \in Nat
  <2>1. attempts[i] \in Attempt
    OBVIOUS
  <2>2. QED
    BY <2>1 DEF Attempt, Times, IsOpen
<1>2. QED
  BY <1>1 DEF Past

\* An attempt begun after all others.
LEMMA AppendInOrder ==
    ASSUME NEW attempts \in Seq(Attempt), NEW at \in Nat,
           InOrder(attempts), Past(attempts, at), ~InFlight(attempts)
    PROVE  LET longer == Append(attempts, NewAttempt(at))
           IN  InOrder(longer) /\ Past(longer, at)
<1> DEFINE longer == Append(attempts, NewAttempt(at))
           n == Len(attempts)
<1>1. /\ n \in Nat
      /\ Len(longer) = n + 1
      /\ DOMAIN longer = 1..(n + 1)
      /\ DOMAIN attempts = 1..n
      /\ \A i \in 1..n : longer[i] = attempts[i]
      /\ IsOpen(longer[n + 1])
  BY AppendAttempt
<1>2. longer[n + 1].started_at = at
  BY <1>1 DEF NewAttempt
<1> HIDE DEF longer
<1>3. \A i \in 1..n : ~IsOpen(attempts[i]) /\ attempts[i].finished_at <= at
  BY <1>1 DEF InFlight, Past
<1>4. InOrder(longer)
  <2>1. ASSUME NEW i \in 1..(n + 1), i < n + 1
        PROVE  /\ longer[i].started_at <= longer[i].finished_at
               /\ ~IsOpen(longer[i])
               /\ longer[i].finished_at <= longer[i + 1].started_at
    <3>1. i \in 1..n /\ longer[i] = attempts[i]
      BY <1>1, <2>1
    <3>2. CASE i = n
      BY <1>1, <1>2, <1>3, <3>1, <3>2 DEF InOrder
    <3>3. CASE i # n
      <4>1. i < n /\ i + 1 \in 1..n
        <5>1. n \in Nat /\ i \in 1..n /\ i # n
          BY <1>1, <3>1, <3>3, Zenon
        <5> HIDE DEF n
        <5>2. QED
          BY <5>1
      <4>2. longer[i + 1] = attempts[i + 1]
        BY <1>1, <4>1
      <4>3. QED
        BY <1>1, <1>3, <3>1, <4>1, <4>2 DEF InOrder
    <3>4. QED
      BY <3>2, <3>3
  <2>2. ASSUME NEW i \in 1..(n + 1)
        PROVE  i < n + 1 \/ i = n + 1
    BY <1>1
  <2>3. QED
    BY <1>1, <2>1, <2>2 DEF InOrder
<1>5. Past(longer, at)
  <2>1. ASSUME NEW i \in 1..(n + 1)
        PROVE  i \in 1..n \/ i = n + 1
    BY <1>1
  <2>2. QED
    BY <1>1, <1>2, <2>1 DEF Past
<1>6. QED
  BY <1>4, <1>5 DEF longer

\* The last attempt ends after its start.
LEMMA FinishInOrder ==
    ASSUME NEW attempts \in Seq(Attempt), Len(attempts) > 0, NEW at \in Nat,
           NEW now_at \in Nat, at <= now_at,
           NEW outcome \in {"succeeded", "retryable", "terminal"},
           InOrder(attempts), Past(attempts, now_at),
           attempts[Len(attempts)].started_at <= at
    PROVE  LET finished ==
                 finish_attempt(attempts, Len(attempts), at, outcome)
           IN  InOrder(finished) /\ Past(finished, now_at)
<1> DEFINE n == Len(attempts)
           finished == finish_attempt(attempts, n, at, outcome)
<1>1. /\ n \in Nat /\ n > 0
      /\ finished \in Seq(Attempt)
      /\ Len(finished) = n
      /\ finished[n].finished_at = at
      /\ finished[n].started_at = attempts[n].started_at
      /\ \A i \in 1..(n - 1) : finished[i] = attempts[i]
  BY FinishLast
<1>2. DOMAIN finished = 1..n /\ DOMAIN attempts = 1..n
  BY <1>1
<1> HIDE DEF finished
<1>3. ASSUME NEW i \in 1..n
      PROVE  /\ finished[i].started_at = attempts[i].started_at
             /\ i = n \/ (i \in 1..(n - 1) /\ i + 1 \in 1..n)
  BY <1>1
<1>4. InOrder(finished)
  <2>1. ASSUME NEW i \in 1..n
        PROVE  /\ ~IsOpen(finished[i]) =>
                    finished[i].started_at <= finished[i].finished_at
               /\ i < n =>
                    /\ ~IsOpen(finished[i])
                    /\ finished[i].finished_at <= finished[i + 1].started_at
    <3>1. CASE i = n
      BY <1>1, <3>1
    <3>2. CASE i \in 1..(n - 1) /\ i + 1 \in 1..n
      <4>1. /\ finished[i] = attempts[i]
            /\ finished[i + 1].started_at = attempts[i + 1].started_at
        BY <1>1, <1>3, <3>2
      <4>2. QED
        BY <1>2, <3>2, <4>1 DEF InOrder
    <3>3. QED
      BY <1>3, <3>1, <3>2
  <2>2. QED
    BY <1>1, <1>2, <2>1 DEF InOrder
<1>5. Past(finished, now_at)
  BY <1>1, <1>2, <1>3 DEF Past
<1>6. QED
  BY <1>4, <1>5 DEF finished

\* Recovery closes only a last attempt, at a time that is not past.
LEMMA CloseInOrder ==
    ASSUME NEW attempts \in Seq(Attempt), NEW at \in Nat,
           InOrder(attempts), Past(attempts, at)
    PROVE  LET closed == close_abandoned(attempts, at)
           IN  InOrder(closed) /\ Past(closed, at)
<1> DEFINE n == Len(attempts)
           closed == close_abandoned(attempts, at)
<1>1. /\ n \in Nat
      /\ Len(closed) = n
      /\ DOMAIN closed = 1..n
      /\ DOMAIN attempts = 1..n
      /\ \A i \in 1..n : ~IsOpen(closed[i])
  <2>1. closed \in Seq(Attempt) /\ Len(closed) = n /\ ~InFlight(closed)
    BY CloseAbandoned
  <2> HIDE DEF closed
  <2>2. QED
    BY <2>1 DEF InFlight
<1>2. ASSUME NEW i \in 1..n
      PROVE  /\ closed[i].started_at = attempts[i].started_at
             /\ IF IsOpen(attempts[i])
                THEN closed[i].finished_at = at
                ELSE closed[i] = attempts[i]
  <2>1. attempts[i] \in Attempt /\ i \in DOMAIN attempts
    OBVIOUS
  <2>2. closed[i] = IF IsOpen(attempts[i])
                    THEN [attempts[i] EXCEPT !.finished_at = at,
                                             !.outcome = "retryable"]
                    ELSE attempts[i]
    BY <2>1 DEF close_abandoned
  <2> HIDE DEF closed
  <2>3. QED
    BY <2>1, <2>2 DEF Attempt
<1> HIDE DEF closed
<1>3. ASSUME NEW i \in 1..n
      PROVE  /\ closed[i].started_at <= closed[i].finished_at
             /\ closed[i].started_at <= at
             /\ closed[i].finished_at <= at
             /\ i < n => closed[i].finished_at <= closed[i + 1].started_at
  <2>1. /\ attempts[i].started_at <= at
        /\ ~IsOpen(attempts[i]) =>
             /\ attempts[i].started_at <= attempts[i].finished_at
             /\ attempts[i].finished_at <= at
    BY <1>1 DEF InOrder, Past
  <2>2. i < n => /\ i + 1 \in 1..n
                 /\ ~IsOpen(attempts[i])
                 /\ attempts[i].finished_at <= attempts[i + 1].started_at
    BY <1>1 DEF InOrder
  <2>3. QED
    BY <1>2, <2>1, <2>2
<1>4. QED
  BY <1>1, <1>3 DEF InOrder, Past, closed

\* Whatever the table and its worker do in a step, the order stays.
LEMMA ChronologicalStep ==
    ASSUME NEW lists \in [Recordings -> Seq(Attempt)],
           NEW changed \in [Recordings -> Seq(Attempt)],
           NEW worker, NEW moved,
           worker.started_at \in Nat, worker.finished_at \in Nat,
           NEW at \in Nat, NEW later \in Nat, at <= later,
           Chronological(lists, worker, at),
           \A r \in Recordings :
               ListMoves(lists[r], changed[r], r, worker, at),
           WorkerMoves(lists, changed, worker, moved, at)
    PROVE  Chronological(changed, moved, later)
<1>1. ASSUME NEW r \in Recordings
      PROVE  InOrder(changed[r]) /\ Past(changed[r], at)
  <2> DEFINE old == lists[r]
             new == changed[r]
  <2>0. /\ old \in Seq(Attempt)
        /\ InOrder(old) /\ Past(old, at)
        /\ ListMoves(old, new, r, worker, at)
    BY Zenon DEF Chronological
  <2>1. CASE new = old
    BY <2>0, <2>1
  <2>2. CASE /\ worker.pc = "claimed"
             /\ ~InFlight(old)
             /\ new = Append(old, NewAttempt(worker.started_at))
    <3>1. Past(old, worker.started_at) /\ worker.started_at <= at
      BY <2>2 DEF Chronological
    <3>2. InOrder(new) /\ Past(new, worker.started_at)
      BY <2>0, <2>2, <3>1, AppendInOrder
    <3>3. QED
      BY <3>1, <3>2, StaysPast
  <2>3. CASE /\ worker.pc = "answered"
             /\ worker.recording = r
             /\ Len(old) > 0
             /\ \E outcome \in {"succeeded", "retryable", "terminal"} :
                  new = finish_attempt(old, Len(old), worker.finished_at,
                                       outcome)
    <3>1. /\ worker.finished_at <= at
          /\ old[Len(old)].started_at <= worker.finished_at
      BY <2>3 DEF Chronological
    <3>2. QED
      BY <2>0, <2>3, <3>1, FinishInOrder
  <2>4. CASE new = close_abandoned(old, at)
    BY <2>0, <2>4, CloseInOrder
  <2>5. QED
    BY <2>0, <2>1, <2>2, <2>3, <2>4, Zenon DEF ListMoves
<1>2. \A r \in Recordings : Past(changed[r], later)
  BY <1>1, StaysPast
<1>3. CASE moved.pc \in {"idle", "calling"}
  BY <1>1, <1>2, <1>3 DEF Chronological
<1>4. ASSUME changed = lists, moved = worker
      PROVE  Chronological(changed, moved, later)
  BY <1>1, <1>2, <1>4, SMT DEF Chronological
<1>5. ASSUME changed = lists, moved.pc \in {"listing", "claimed"},
             moved.started_at \in 0..at,
             \A r \in Recordings : Past(lists[r], moved.started_at)
      PROVE  Chronological(changed, moved, later)
  BY <1>1, <1>2, <1>5 DEF Chronological
<1>6. ASSUME changed = lists, worker.pc = "listing", moved.pc = "claimed",
             moved.started_at = worker.started_at
      PROVE  Chronological(changed, moved, later)
  <2>1. /\ worker.started_at <= at
        /\ \A r \in Recordings : Past(lists[r], worker.started_at)
    BY <1>6 DEF Chronological
  <2>2. QED
    BY <1>1, <1>2, <1>6, <2>1 DEF Chronological
<1>7. ASSUME changed = lists, moved.pc = "answered", moved.finished_at = at,
             moved.recording \in Recordings,
             Len(lists[moved.recording]) > 0
      PROVE  Chronological(changed, moved, later)
  <2> DEFINE own == lists[moved.recording]
  <2>1. Len(own) \in DOMAIN own
    BY <1>7
  <2>2. own[Len(own)].started_at <= at
    BY <1>1, <1>7, <2>1 DEF Past
  <2>3. QED
    BY <1>1, <1>2, <1>7, <2>2 DEF Chronological
<1>8. QED
  BY <1>3, <1>4, <1>5, <1>6, <1>7 DEF WorkerMoves

\* The steps of the Transcription attempts.
LEMMA TranscriptionListsMove ==
    ASSUME Safe, [Next]_vars
    PROVE  /\ \A r \in Recordings :
                ListMoves(transcription_attempts[r],
                          transcription_attempts'[r], r, transcriber, now)
           /\ \/ UNCHANGED transcription_attempts
              \/ transcriber'.pc \in {"idle", "calling"}
<1>0. /\ transcription_attempts \in [Recordings -> Seq(Attempt)]
      /\ TranscriberTypeOK /\ HandsMatchRows
      /\ now \in Nat
  BY DEF Safe, TypeOK, StoreTypeOK
<1> DEFINE own == transcriber.recording
<1>1. CASE UNCHANGED transcription_attempts
  BY <1>1 DEF ListMoves
<1>2. CASE StartTranscriptionAttempt
  <2>1. transcriber.pc = "claimed" /\ own \in Recordings
    BY <1>0, <1>2 DEF StartTranscriptionAttempt, TranscriberTypeOK
  <2>2. CASE InFlight(transcription_attempts[own])
    BY <1>1, <1>2, <2>2 DEF StartTranscriptionAttempt
  <2>3. CASE ~InFlight(transcription_attempts[own])
    <3> DEFINE longer == Append(transcription_attempts[own],
                                NewAttempt(transcriber.started_at))
    <3>1. transcription_attempts' =
            [transcription_attempts EXCEPT ![own] = longer]
      BY <1>2, <2>3, Zenon DEF StartTranscriptionAttempt
    <3>2. transcriber'.pc = "calling"
      <4>1. \E anchor :
              transcriber' = [transcriber EXCEPT
                  !.pc = "calling", !.attempt = Len(longer),
                  !.first_started_at = anchor]
        BY <1>2, <2>3, Zenon DEF StartTranscriptionAttempt
      <4>2. QED
        BY <1>0, <4>1 DEF TranscriberTypeOK
    <3> HIDE DEF longer
    <3>3. \A r \in Recordings :
            transcription_attempts'[r] =
              IF r = own THEN longer ELSE transcription_attempts[r]
      BY <1>0, <2>1, <3>1
    <3>4. QED
      BY <2>1, <2>3, <3>2, <3>3, Zenon DEF ListMoves, longer
  <2>4. QED
    BY <2>2, <2>3
<1>3. ASSUME NEW outcome \in {"succeeded", "retryable", "terminal"},
             transcriber.pc = "answered",
             FinishTranscriptionAttempt(outcome)
      PROVE  \A r \in Recordings :
               ListMoves(transcription_attempts[r], transcription_attempts'[r],
                         r, transcriber, now)
  <2> DEFINE old == transcription_attempts[own]
             finished == finish_attempt(old, Len(old),
                                        transcriber.finished_at, outcome)
  <2>1. /\ own \in Recordings
        /\ transcriber.attempt = Len(old)
        /\ Len(old) > 0
    BY <1>0, <1>3 DEF TranscriberTypeOK, HandsMatchRows
  <2>2. transcription_attempts' =
          [transcription_attempts EXCEPT ![own] = finished]
    BY <1>3, <2>1 DEF FinishTranscriptionAttempt
  <2> HIDE DEF finished
  <2>3. \A r \in Recordings :
          transcription_attempts'[r] =
            IF r = own THEN finished ELSE transcription_attempts[r]
    BY <1>0, <2>1, <2>2
  <2>4. QED
    BY <1>3, <2>1, <2>3, Zenon DEF ListMoves, finished
<1>4. CASE SucceedTranscription \/ RetryTranscription \/ FailTranscription
  <2>1. /\ transcriber.pc = "answered"
        /\ transcriber'.pc = "idle"
        /\ \E outcome \in {"succeeded", "retryable", "terminal"} :
             FinishTranscriptionAttempt(outcome)
    BY <1>4 DEF SucceedTranscription, RetryTranscription, FailTranscription,
                IdleTranscriber
  <2>2. QED
    BY <1>3, <2>1
<1>5. CASE Recover
  <2>1. \A r \in Recordings :
          transcription_attempts'[r] =
            close_abandoned(transcription_attempts[r], now)
    BY <1>5 DEF Recover
  <2>2. transcriber'.pc = "idle"
    BY <1>0, <1>5 DEF Recover, HandsMatchRows, process
  <2>3. QED
    BY <2>1, <2>2, Zenon DEF ListMoves
<1>6. \/ UNCHANGED transcription_attempts
      \/ StartTranscriptionAttempt
      \/ SucceedTranscription \/ RetryTranscription \/ FailTranscription
      \/ Recover
  BY DEF Next, ProcessStep, Upload, TranscriptionStep, ClaimReceived,
         NothingReceived, PickDueRetry, NoDueRetry, TranscriberReturns,
         RoutingStep, PickRouting, RouteToSink, MarkBacklogged, DeliveryStep,
         PickDueDelivery, StartDeliveryAttempt, SinkReturns, SucceedDelivery,
         RetryDelivery, FailDelivery, SubmitRequest, AnswerRequest,
         ManualRoute, ManualRetryTranscription, ManualRetryDelivery,
         EndRequest, Audit, Crash, Tick, vars, store
<1>7. QED
  BY <1>1, <1>2, <1>4, <1>5, <1>6

\* The steps of the Delivery attempts.
LEMMA DeliveryListsMove ==
    ASSUME Safe, [Next]_vars
    PROVE  /\ \A r \in Recordings :
                ListMoves(delivery_attempts[r], delivery_attempts'[r],
                          r, deliverer, now)
           /\ \/ UNCHANGED delivery_attempts
              \/ deliverer'.pc \in {"idle", "calling"}
<1>0. /\ delivery_attempts \in [Recordings -> Seq(Attempt)]
      /\ DelivererTypeOK /\ HandsMatchRows
      /\ now \in Nat
  BY DEF Safe, TypeOK, StoreTypeOK
<1> DEFINE own == deliverer.recording
<1>1. CASE UNCHANGED delivery_attempts
  BY <1>1 DEF ListMoves
<1>2. CASE StartDeliveryAttempt
  <2>1. deliverer.pc = "claimed" /\ own \in Recordings
    BY <1>0, <1>2 DEF StartDeliveryAttempt, DelivererTypeOK
  <2>2. CASE InFlight(delivery_attempts[own])
    BY <1>1, <1>2, <2>2 DEF StartDeliveryAttempt
  <2>3. CASE ~InFlight(delivery_attempts[own])
    <3> DEFINE longer == Append(delivery_attempts[own],
                                NewAttempt(deliverer.started_at))
    <3>1. delivery_attempts' =
            [delivery_attempts EXCEPT ![own] = longer]
      BY <1>2, <2>3, Zenon DEF StartDeliveryAttempt
    <3>2. deliverer'.pc = "calling"
      <4>1. deliverer' = [deliverer EXCEPT
                !.pc = "calling", !.attempt = Len(longer)]
        BY <1>2, <2>3, Zenon DEF StartDeliveryAttempt
      <4>2. QED
        BY <1>0, <4>1 DEF DelivererTypeOK
    <3> HIDE DEF longer
    <3>3. \A r \in Recordings :
            delivery_attempts'[r] =
              IF r = own THEN longer ELSE delivery_attempts[r]
      BY <1>0, <2>1, <3>1
    <3>4. QED
      BY <2>1, <2>3, <3>2, <3>3, Zenon DEF ListMoves, longer
  <2>4. QED
    BY <2>2, <2>3
<1>3. ASSUME NEW outcome \in {"succeeded", "retryable", "terminal"},
             deliverer.pc = "answered",
             FinishDeliveryAttempt(outcome)
      PROVE  \A r \in Recordings :
               ListMoves(delivery_attempts[r], delivery_attempts'[r],
                         r, deliverer, now)
  <2> DEFINE old == delivery_attempts[own]
             finished == finish_attempt(old, Len(old),
                                        deliverer.finished_at, outcome)
  <2>1. /\ own \in Recordings
        /\ deliverer.attempt = Len(old)
        /\ Len(old) > 0
    BY <1>0, <1>3 DEF DelivererTypeOK, HandsMatchRows
  <2>2. delivery_attempts' =
          [delivery_attempts EXCEPT ![own] = finished]
    BY <1>3, <2>1 DEF FinishDeliveryAttempt
  <2> HIDE DEF finished
  <2>3. \A r \in Recordings :
          delivery_attempts'[r] =
            IF r = own THEN finished ELSE delivery_attempts[r]
    BY <1>0, <2>1, <2>2
  <2>4. QED
    BY <1>3, <2>1, <2>3, Zenon DEF ListMoves, finished
<1>4. CASE SucceedDelivery \/ RetryDelivery \/ FailDelivery
  <2>1. /\ deliverer.pc = "answered"
        /\ deliverer'.pc = "idle"
        /\ \E outcome \in {"succeeded", "retryable", "terminal"} :
             FinishDeliveryAttempt(outcome)
    BY <1>4 DEF SucceedDelivery, RetryDelivery, FailDelivery, IdleDeliverer
  <2>2. QED
    BY <1>3, <2>1
<1>5. CASE Recover
  <2>1. \A r \in Recordings :
          delivery_attempts'[r] =
            close_abandoned(delivery_attempts[r], now)
    BY <1>5 DEF Recover
  <2>2. deliverer'.pc = "idle"
    BY <1>0, <1>5 DEF Recover, HandsMatchRows, process
  <2>3. QED
    BY <2>1, <2>2, Zenon DEF ListMoves
<1>6. \/ UNCHANGED delivery_attempts
      \/ StartDeliveryAttempt
      \/ SucceedDelivery \/ RetryDelivery \/ FailDelivery
      \/ Recover
  BY DEF Next, ProcessStep, Upload, TranscriptionStep, ClaimReceived,
         NothingReceived, PickDueRetry, NoDueRetry, StartTranscriptionAttempt,
         TranscriberReturns, SucceedTranscription, RetryTranscription,
         FailTranscription, RoutingStep, PickRouting, RouteToSink,
         MarkBacklogged, DeliveryStep, PickDueDelivery, SinkReturns,
         SubmitRequest, AnswerRequest, ManualRoute, ManualRetryTranscription,
         ManualRetryDelivery, EndRequest, Audit, Crash, Tick, vars, store
<1>7. QED
  BY <1>1, <1>2, <1>4, <1>5, <1>6

\* How the Delivery worker moves when it does not start an attempt.
LEMMA DelivererHolds ==
    ASSUME Safe, [Next]_vars, ~StartDeliveryAttempt
    PROVE  \/ UNCHANGED deliverer
           \/ deliverer'.pc = "idle"
           \/ /\ deliverer'.pc = "claimed"
              /\ deliverer'.started_at \in Readings(delivery_attempts)
           \/ /\ deliverer.pc = "calling"
              /\ deliverer'.pc = "answered"
              /\ deliverer'.recording = deliverer.recording
              /\ deliverer'.finished_at = now
<1>0. DelivererTypeOK
  BY DEF Safe, TypeOK
<1>1. CASE PickDueDelivery
  BY <1>0, <1>1 DEF PickDueDelivery, DelivererTypeOK
<1>2. CASE SinkReturns
  BY <1>0, <1>2 DEF SinkReturns, DelivererTypeOK
<1>3. CASE SucceedDelivery \/ RetryDelivery \/ FailDelivery \/ Crash
  BY <1>3 DEF SucceedDelivery, RetryDelivery, FailDelivery, Crash,
              IdleDeliverer
<1>4. ASSUME ~PickDueDelivery, ~SinkReturns, ~SucceedDelivery,
             ~RetryDelivery, ~FailDelivery, ~Crash
      PROVE  UNCHANGED deliverer
  BY <1>4
     DEF Next, ProcessStep, Upload, TranscriptionStep, ClaimReceived,
         NothingReceived, PickDueRetry, NoDueRetry, StartTranscriptionAttempt,
         TranscriberReturns, SucceedTranscription, RetryTranscription,
         FailTranscription, RoutingStep, PickRouting, RouteToSink,
         MarkBacklogged, DeliveryStep, SubmitRequest, AnswerRequest,
         ManualRoute, ManualRetryTranscription, ManualRetryDelivery,
         EndRequest, Audit, Recover, Tick, vars, process
<1>5. QED
  BY <1>1, <1>2, <1>3, <1>4

\* Both tables with their workers.
TablesInOrder ==
    /\ Chronological(transcription_attempts, transcriber, now)
    /\ Chronological(delivery_attempts, deliverer, now)

LEMMA TablesInOrderStep ==
    Safe /\ TablesInOrder /\ [Next]_vars => TablesInOrder'
<1> SUFFICES ASSUME Safe, TablesInOrder, [Next]_vars PROVE TablesInOrder'
  OBVIOUS
<1>0. /\ transcription_attempts \in [Recordings -> Seq(Attempt)]
      /\ delivery_attempts \in [Recordings -> Seq(Attempt)]
      /\ TranscriberTypeOK /\ DelivererTypeOK
      /\ HandsMatchRows
      /\ now \in Nat
  BY DEF Safe, TypeOK, StoreTypeOK
<1>1. /\ transcription_attempts' \in [Recordings -> Seq(Attempt)]
      /\ delivery_attempts' \in [Recordings -> Seq(Attempt)]
  BY StepType DEF Safe, TypeOK, StoreTypeOK
<1>2. now' \in Nat /\ now <= now'
  BY <1>0, NowMoves
<1>3. Chronological(transcription_attempts', transcriber', now')
  <2>1. /\ transcriber.started_at \in Nat
        /\ transcriber.finished_at \in Nat
    BY <1>0 DEF TranscriberTypeOK
  <2>2. \/ transcriber'.pc \in {"idle", "calling"}
        \/ /\ UNCHANGED transcription_attempts
           /\ ~StartTranscriptionAttempt
    <3>1. StartTranscriptionAttempt => transcriber'.pc \in {"idle", "calling"}
      BY TranscriptionAttemptStarted DEF Safe
    <3>2. QED
      BY <3>1, TranscriptionListsMove
  <2>3. WorkerMoves(transcription_attempts, transcription_attempts',
                    transcriber, transcriber', now)
    <3>1. CASE transcriber'.pc \in {"idle", "calling"}
      BY <3>1, Zenon DEF WorkerMoves
    <3>2. CASE /\ UNCHANGED transcription_attempts
               /\ ~StartTranscriptionAttempt
      <4>1. transcriber.pc = "calling" =>
              /\ transcriber.recording \in Recordings
              /\ Len(transcription_attempts[transcriber.recording]) > 0
        BY <1>0 DEF TranscriberTypeOK, HandsMatchRows
      <4>2. QED
        BY <1>0, <3>2, <4>1, TranscriberHolds
           DEF WorkerMoves, Readings, RecentTimes
    <3>3. QED
      BY <2>2, <3>1, <3>2
  <2>4. QED
    BY <1>0, <1>1, <1>2, <2>1, <2>3, TranscriptionListsMove,
       ChronologicalStep DEF TablesInOrder
<1>4. Chronological(delivery_attempts', deliverer', now')
  <2>1. deliverer.started_at \in Nat /\ deliverer.finished_at \in Nat
    BY <1>0 DEF DelivererTypeOK
  <2>2. \/ deliverer'.pc \in {"idle", "calling"}
        \/ UNCHANGED delivery_attempts /\ ~StartDeliveryAttempt
    <3>1. StartDeliveryAttempt => deliverer'.pc \in {"idle", "calling"}
      BY DeliveryAttemptStarted DEF Safe
    <3>2. QED
      BY <3>1, DeliveryListsMove
  <2>3. WorkerMoves(delivery_attempts, delivery_attempts', deliverer,
                    deliverer', now)
    <3>1. CASE deliverer'.pc \in {"idle", "calling"}
      BY <3>1, Zenon DEF WorkerMoves
    <3>2. CASE UNCHANGED delivery_attempts /\ ~StartDeliveryAttempt
      <4>1. deliverer.pc = "calling" =>
              /\ deliverer.recording \in Recordings
              /\ Len(delivery_attempts[deliverer.recording]) > 0
        BY <1>0 DEF DelivererTypeOK, HandsMatchRows
      <4>2. QED
        BY <1>0, <3>2, <4>1, DelivererHolds
           DEF WorkerMoves, Readings, RecentTimes
    <3>3. QED
      BY <2>2, <3>1, <3>2
  <2>4. QED
    BY <1>0, <1>1, <1>2, <2>1, <2>3, DeliveryListsMove, ChronologicalStep
       DEF TablesInOrder
<1>5. QED
  BY <1>3, <1>4 DEF TablesInOrder

LEMMA TablesInOrderAlways == Spec => []TablesInOrder
<1>1. Init => TablesInOrder
  <2> SUFFICES ASSUME Init PROVE TablesInOrder
    OBVIOUS
  <2>1. InOrder(<<>>) /\ Past(<<>>, now)
    BY DEF InOrder, Past
  <2>2. QED
    BY <2>1 DEF Init, TablesInOrder, Chronological, IdleTranscriber,
                IdleDeliverer
<1>2. Safe /\ TablesInOrder /\ [Next]_vars => TablesInOrder'
  BY TablesInOrderStep
<1>3. QED
  BY <1>1, <1>2, SafeAlways, PTL DEF Spec

\* The attempts of a Recording never overlap and stand in the order of time,
\* whatever crashes, restarts and Operators do between them.
THEOREM AttemptsNeverOverlap == Spec => []AttemptsInOrder
<1>1. TablesInOrder => AttemptsInOrder
  BY DEF TablesInOrder, Chronological, AttemptsInOrder
<1>2. QED
  BY <1>1, TablesInOrderAlways, PTL

\* How often a peer is called: from the beginning of an attempt to that of the
\* next one at least the backoff passes, unless an Operator answered the first
\* one.  Neither a crash during the call nor a call that fails at once makes
\* the program come back sooner.
StartsAreSpread ==
    \A r \in Recordings :
        \A attempts \in {transcription_attempts[r], delivery_attempts[r]} :
            \A i \in 1..(Len(attempts) - 1) :
                \/ attempts[i].outcome = "terminal"
                \/ attempts[i + 1].started_at >=
                     attempts[i].started_at + backoff(i)

THEOREM CallsAreSpread == Spec => []StartsAreSpread
<1>1. TypeOK /\ BackoffRespected /\ AttemptsInOrder => StartsAreSpread
  <2> SUFFICES ASSUME TypeOK, BackoffRespected, AttemptsInOrder,
                      NEW r \in Recordings,
                      NEW attempts \in {transcription_attempts[r],
                                        delivery_attempts[r]},
                      NEW i \in 1..(Len(attempts) - 1),
                      attempts[i].outcome # "terminal"
               PROVE  attempts[i + 1].started_at >=
                        attempts[i].started_at + backoff(i)
    BY DEF StartsAreSpread
  <2>1. /\ attempts \in Seq(Attempt)
        /\ InOrder(attempts)
        /\ attempts[i + 1].started_at >=
             next_retry_at(attempts[i].finished_at, i)
    BY DEF TypeOK, StoreTypeOK, AttemptsInOrder, BackoffRespected
  <2>2. /\ i \in Nat /\ i < Len(attempts)
        /\ i \in DOMAIN attempts /\ i + 1 \in DOMAIN attempts
    BY <2>1
  <2>3. /\ ~IsOpen(attempts[i])
        /\ attempts[i].started_at <= attempts[i].finished_at
    BY <2>1, <2>2 DEF InOrder
  <2>4. /\ attempts[i].started_at \in Nat
        /\ attempts[i].finished_at \in Nat
        /\ attempts[i + 1].started_at \in Nat
    <3>1. attempts[i] \in Attempt /\ attempts[i + 1] \in Attempt
      BY <2>1, <2>2
    <3>2. QED
      BY <2>3, <3>1 DEF Attempt, Times, IsOpen
  <2>5. backoff(i) \in Nat
    BY <2>2, BackoffType
  <2>6. QED
    BY <2>1, <2>3, <2>4, <2>5 DEF next_retry_at
<1>2. QED
  BY <1>1, TypeCorrect, RetriesWait, AttemptsNeverOverlap, PTL

=============================================================================

--------------------------- MODULE PipelineProofs ---------------------------
(***************************************************************************)
(* Theorems about Pipeline for every set of Recordings, Sinks, Routers and *)
(* Requests, every retry schedule and every bound.                         *)
(***************************************************************************)
EXTENDS Pipeline, SequenceTheorems, TLAPS

-----------------------------------------------------------------------------
(* What the helpers on attempt sequences return.                           *)

LEMMA BackoffType ==
    ASSUME NEW n \in Nat
    PROVE  backoff(n) \in Nat
BY RetryAssumption DEF backoff, Lesser, Greater

LEMMA WindowType ==
    ASSUME NEW d \in Int
    PROVE  transcription_window(d) \in Nat
BY RetryAssumption
   DEF transcription_window, saturating_double, Lesser, Greater

\* The saturating multiplication of transcription_window never shows: for
\* every duration the integer type can hold, a missing one included, the
\* window is twice the duration, brought between the floor and the cap.  So a
\* longer recording never has a shorter window.
THEOREM WindowIsClampedDouble ==
    ASSUME NEW d \in Int
    PROVE  /\ transcription_window(d) =
                IF 2 * d <= WindowFloor THEN WindowFloor
                ELSE IF 2 * d >= WindowCap THEN WindowCap
                ELSE 2 * d
           /\ \A e \in Int : e <= d =>
                transcription_window(e) <= transcription_window(d)
<1> DEFINE Clamped(x) == IF 2 * x <= WindowFloor THEN WindowFloor
                         ELSE IF 2 * x >= WindowCap THEN WindowCap
                         ELSE 2 * x
<1>1. ASSUME NEW x \in Int
      PROVE  transcription_window(x) = Clamped(x)
  BY <1>1, RetryAssumption
     DEF transcription_window, saturating_double, Lesser, Greater
<1>2. ASSUME NEW e \in Int, e <= d
      PROVE  Clamped(e) <= Clamped(d)
  BY <1>2, RetryAssumption
<1>3. QED
  BY <1>1, <1>2

\* Whatever number the attempts table holds, the wait after it is an entry of
\* the schedule: the first for numbers below 1, the last from its length on.
\* The lookup is never out of bounds, and no attempt is due before the last
\* one has finished.
THEOREM BackoffInSchedule ==
    ASSUME NEW n \in Int
    PROVE  /\ \E i \in 1..Len(Schedule) : backoff(n) = Schedule[i]
           /\ n <= 1 => backoff(n) = Schedule[1]
           /\ n >= Len(Schedule) => backoff(n) = Schedule[Len(Schedule)]
           /\ \A t \in Int : next_retry_at(t, n) >= t
<1>1. Len(Schedule) \in Nat \ {0}
  BY RetryAssumption
<1> DEFINE i == Lesser(Greater(n, 1), Len(Schedule))
<1>2. /\ i \in 1..Len(Schedule)
      /\ n <= 1 => i = 1
      /\ n >= Len(Schedule) => i = Len(Schedule)
  <2>1. ASSUME NEW len \in Nat \ {0}
        PROVE  LET j == Lesser(Greater(n, 1), len)
               IN  /\ j \in 1..len
                   /\ n <= 1 => j = 1
                   /\ n >= len => j = len
    BY <2>1, SMT DEF Lesser, Greater
  <2>2. QED
    BY <1>1, <2>1
<1>3. backoff(n) = Schedule[i]
  BY DEF backoff
<1> HIDE DEF i
<1>4. Schedule[i] \in Nat
  BY <1>2, RetryAssumption
<1>5. \A t \in Int : next_retry_at(t, n) >= t
  BY <1>3, <1>4 DEF next_retry_at
<1>6. QED
  BY <1>2, <1>3, <1>5

\* A fresh attempt is well formed, open, and the last of its sequence.
LEMMA AppendAttempt ==
    ASSUME NEW attempts \in Seq(Attempt), NEW at \in Nat
    PROVE  LET longer == Append(attempts, NewAttempt(at)) IN
           /\ longer \in Seq(Attempt)
           /\ Len(longer) = Len(attempts) + 1
           /\ longer # <<>>
           /\ DOMAIN longer = 1..(Len(attempts) + 1)
           /\ \A i \in 1..Len(attempts) : longer[i] = attempts[i]
           /\ IsOpen(longer[Len(attempts) + 1])
<1>1. NewAttempt(at) \in Attempt
  BY DEF NewAttempt, Attempt, Times
<1>2. IsOpen(NewAttempt(at))
  BY DEF NewAttempt, IsOpen
<1>3. ASSUME NEW new \in Attempt
      PROVE  /\ Append(attempts, new) \in Seq(Attempt)
             /\ Len(Append(attempts, new)) = Len(attempts) + 1
             /\ DOMAIN Append(attempts, new) = 1..(Len(attempts) + 1)
             /\ \A i \in 1..Len(attempts) :
                  Append(attempts, new)[i] = attempts[i]
             /\ Append(attempts, new)[Len(attempts) + 1] = new
  OBVIOUS
<1>4. Append(attempts, NewAttempt(at)) # <<>>
  BY <1>1, <1>3
<1>5. QED
  BY <1>1, <1>2, <1>3, <1>4

\* A finished row is a well-formed, closed attempt.
LEMMA FinishedRow ==
    ASSUME NEW attempt \in Attempt, NEW at \in Nat,
           NEW outcome \in {"succeeded", "retryable", "terminal"}
    PROVE  LET row == [attempt EXCEPT !.finished_at = at,
                                      !.outcome = outcome]
           IN  row \in Attempt /\ ~IsOpen(row)
<1> DEFINE row == [attempt EXCEPT !.finished_at = at, !.outcome = outcome]
<1>1. row \in Attempt
  BY DEF Attempt, Times
<1>2. row.finished_at = at
  BY DEF Attempt
<1>3. ~IsOpen(row)
  BY <1>2 DEF IsOpen, NoTime
<1>4. QED
  BY <1>1, <1>3

\* Finishing closes the named attempt and changes no other.
LEMMA FinishAttempt ==
    ASSUME NEW attempts \in Seq(Attempt), NEW n \in Nat, NEW at \in Nat,
           NEW outcome \in {"succeeded", "retryable", "terminal"}
    PROVE  LET finished == finish_attempt(attempts, n, at, outcome) IN
           /\ finished \in Seq(Attempt)
           /\ Len(finished) = Len(attempts)
           /\ DOMAIN finished = DOMAIN attempts
           /\ \A i \in DOMAIN attempts :
                IF i = n THEN ~IsOpen(finished[i])
                ELSE finished[i] = attempts[i]
<1> DEFINE row == [attempts[n] EXCEPT !.finished_at = at, !.outcome = outcome]
           finished == finish_attempt(attempts, n, at, outcome)
<1>1. CASE n \in 1..Len(attempts)
  <2>1. attempts[n] \in Attempt
    BY <1>1
  <2>2. row \in Attempt /\ ~IsOpen(row)
    BY <2>1, FinishedRow
  <2>3. finished = [attempts EXCEPT ![n] = row]
    BY <1>1, <2>1 DEF finish_attempt, Attempt
  <2>4. /\ [attempts EXCEPT ![n] = row] \in Seq(Attempt)
        /\ Len([attempts EXCEPT ![n] = row]) = Len(attempts)
        /\ \A i \in 1..Len(attempts) :
             [attempts EXCEPT ![n] = row][i] =
               IF i = n THEN row ELSE attempts[i]
    BY <1>1, <2>2, ExceptSeq
  <2> HIDE DEF row
  <2>5. QED
    BY <1>1, <2>2, <2>3, <2>4
<1>2. CASE n \notin 1..Len(attempts)
  <2>1. finished = attempts
    BY <1>2 DEF finish_attempt
  <2>2. QED
    BY <1>2, <2>1
<1>3. QED
  BY <1>1, <1>2

\* Recovery leaves no attempt open and loses none.
LEMMA CloseAbandoned ==
    ASSUME NEW attempts \in Seq(Attempt), NEW at \in Nat
    PROVE  LET closed == close_abandoned(attempts, at) IN
           /\ closed \in Seq(Attempt)
           /\ Len(closed) = Len(attempts)
           /\ closed = <<>> <=> attempts = <<>>
           /\ ~InFlight(closed)
<1> DEFINE closed == close_abandoned(attempts, at)
           n == Len(attempts)
<1>1. n \in Nat /\ DOMAIN attempts = 1..n
  OBVIOUS
<1>2. closed = [i \in 1..n |-> closed[i]]
  BY <1>1 DEF close_abandoned
<1>3. \A i \in 1..n : closed[i] \in Attempt /\ ~IsOpen(closed[i])
  <2> SUFFICES ASSUME NEW i \in 1..n
               PROVE  closed[i] \in Attempt /\ ~IsOpen(closed[i])
    OBVIOUS
  <2>1. attempts[i] \in Attempt
    OBVIOUS
  <2>2. QED
    BY <1>1, <2>1, FinishedRow DEF close_abandoned
<1>4. closed \in Seq(Attempt) /\ Len(closed) = n
  BY <1>1, <1>2, <1>3
<1>5. QED
  BY <1>1, <1>3, <1>4, EmptySeq DEF InFlight

-----------------------------------------------------------------------------
(* Type correctness.                                                       *)

LEMMA RowTypes ==
    /\ AbsentRecording \in RecordingRow
    /\ AbsentDelivery \in DeliveryRow
BY DEF AbsentRecording, RecordingRow, AbsentDelivery, DeliveryRow, Times,
       NoTime

\* The row insert_delivery writes.
LEMMA NewDelivery ==
    ASSUME NEW sink \in Sinks \cup {NoSink}, NEW at \in Nat
    PROVE  [AbsentDelivery EXCEPT
               !.status = "delivering", !.sink_name = sink,
               !.selected_at = at,
               !.retry_deadline_at = at + DELIVERY_WINDOW] \in DeliveryRow
<1>1. at + DELIVERY_WINDOW \in Nat
  BY RetryAssumption
<1>2. ASSUME NEW row \in DeliveryRow, NEW deadline \in Nat
      PROVE  [row EXCEPT
               !.status = "delivering", !.sink_name = sink,
               !.selected_at = at, !.retry_deadline_at = deadline]
                 \in DeliveryRow
  BY DEF DeliveryRow, DeliveryStatuses, Times
<1>3. QED
  BY <1>1, <1>2, RowTypes

\* The row a manual retry writes.
LEMMA ReopenedRow ==
    ASSUME NEW row \in DeliveryRow, NEW at \in Nat
    PROVE  Reopened(row, at) \in DeliveryRow
<1>1. at + DELIVERY_WINDOW \in Nat
  BY RetryAssumption
<1>2. ASSUME NEW deadline \in Nat
      PROVE  [row EXCEPT !.status = "delivering", !.completed_at = NoTime,
                         !.retry_deadline_at = deadline,
                         !.latest_error = FALSE,
                         !.retry_window_started_at = at] \in DeliveryRow
  <2>1. deadline \in Times /\ at \in Times /\ NoTime \in Times
    BY DEF Times
  <2> HIDE DEF Times
  <2>2. QED
    BY <2>1 DEF DeliveryRow, DeliveryStatuses
<1>3. QED
  BY <1>1, <1>2 DEF Reopened

LEMMA IdleTypes ==
    /\ transcriber = IdleTranscriber => TranscriberTypeOK
    /\ deliverer = IdleDeliverer => DelivererTypeOK
    /\ requests = [q \in Requests |-> NoRequest] => RequestsTypeOK
    /\ routers = [w \in Routers |-> IdleRouter] => RoutersTypeOK
<1>1. transcriber = IdleTranscriber => TranscriberTypeOK
  BY DEF IdleTranscriber, TranscriberTypeOK
<1>2. deliverer = IdleDeliverer => DelivererTypeOK
  BY DEF IdleDeliverer, DelivererTypeOK, Times
<1>3. requests = [q \in Requests |-> NoRequest] => RequestsTypeOK
  BY DEF NoRequest, RequestsTypeOK
<1>4. routers = [w \in Routers |-> IdleRouter] => RoutersTypeOK
  BY DEF IdleRouter, RoutersTypeOK
<1>5. QED
  BY <1>1, <1>2, <1>3, <1>4

LEMMA InitType == Init => TypeOK
<1> SUFFICES ASSUME Init PROVE TypeOK
  OBVIOUS
<1>1. StoreTypeOK
  BY RowTypes DEF Init, StoreTypeOK
<1>2. QED
  BY <1>1, IdleTypes DEF Init, TypeOK

LEMMA StepType == TypeOK /\ [Next]_vars => TypeOK'
<1> SUFFICES ASSUME TypeOK, [Next]_vars PROVE TypeOK'
  OBVIOUS
<1> USE DEF TypeOK, store, process
<1>1. ASSUME NEW r \in Recordings, Upload(r) PROVE TypeOK'
  <2>1. PICK at \in 0..now :
          /\ now - at <= MaxUploadLag
          /\ recordings' = [recordings EXCEPT
                ![r].status = "received", ![r].received_at = at]
    BY <1>1, Zenon DEF Upload
  <2>2. at \in Times
    BY DEF Times
  <2>3. recordings' \in [Recordings -> RecordingRow]
    <3> HIDE DEF Times
    <3>1. QED
      BY <2>1, <2>2, ZenonT(40)
         DEF StoreTypeOK, RecordingRow, RecordingStatuses
  <2>4. StoreTypeOK'
    BY <1>1, <2>3 DEF Upload, StoreTypeOK
  <2>5. QED
    BY <1>1, <2>4 DEF Upload, TranscriberTypeOK, RoutersTypeOK,
                      DelivererTypeOK, RequestsTypeOK
<1>2. CASE ClaimReceived
  <2>1. PICK r \in Recordings, at \in Readings(transcription_attempts) :
          /\ recordings' = [recordings EXCEPT ![r].status = "transcribing"]
          /\ transcriber' = [transcriber EXCEPT
                !.pc = "claimed", !.recording = r, !.started_at = at]
    BY <1>2 DEF ClaimReceived, OldestReceived, WithStatus
  <2>2. recordings' \in [Recordings -> RecordingRow]
    BY <2>1 DEF StoreTypeOK, RecordingRow, RecordingStatuses
  <2>3. StoreTypeOK'
    BY <1>2, <2>2 DEF ClaimReceived, StoreTypeOK
  <2>4. TranscriberTypeOK'
    <3>1. at \in Nat
      BY DEF Readings, RecentTimes
    <3>2. QED
      BY <2>1, <3>1 DEF TranscriberTypeOK
  <2>5. QED
    BY <1>2, <2>3, <2>4 DEF ClaimReceived, RoutersTypeOK, DelivererTypeOK,
                            RequestsTypeOK
<1>3. CASE NothingReceived
  <2>1. TranscriberTypeOK'
    <3>1. PICK at \in Readings(transcription_attempts) :
            transcriber' = [transcriber EXCEPT
                !.pc = "listing", !.started_at = at]
      BY <1>3 DEF NothingReceived
    <3>2. at \in Nat
      BY DEF Readings, RecentTimes
    <3>3. QED
      BY <3>1, <3>2 DEF TranscriberTypeOK
  <2>2. QED
    BY <1>3, <2>1 DEF NothingReceived, StoreTypeOK, RoutersTypeOK,
                      DelivererTypeOK, RequestsTypeOK
<1>4. CASE PickDueRetry
  <2>1. PICK r \in Recordings :
          transcriber' = [transcriber EXCEPT !.pc = "claimed",
                                             !.recording = r]
    BY <1>4 DEF PickDueRetry, OldestReceived, DueTranscriptions,
                transcription_retry_candidates, WithStatus
  <2>2. TranscriberTypeOK'
    BY <2>1 DEF TranscriberTypeOK
  <2>3. QED
    BY <1>4, <2>2 DEF PickDueRetry, StoreTypeOK, RoutersTypeOK,
                      DelivererTypeOK, RequestsTypeOK
<1>5. CASE NoDueRetry
  <2>1. TranscriberTypeOK'
    BY <1>5 DEF NoDueRetry, IdleTranscriber, TranscriberTypeOK
  <2>2. QED
    BY <1>5, <2>1 DEF NoDueRetry, StoreTypeOK, RoutersTypeOK,
                      DelivererTypeOK, RequestsTypeOK
<1>6. CASE StartTranscriptionAttempt
  <2> DEFINE r == transcriber.recording
             attempts == Append(transcription_attempts[r],
                                NewAttempt(transcriber.started_at))
  <2>1. r \in Recordings /\ transcriber.started_at \in Nat
    BY <1>6 DEF StartTranscriptionAttempt, TranscriberTypeOK
  <2>2. transcription_attempts[r] \in Seq(Attempt)
    BY <2>1 DEF StoreTypeOK
  <2>3. attempts \in Seq(Attempt)
    BY <2>1, <2>2, AppendAttempt, Zenon
  <2>4. Len(attempts) \in Nat
    BY <2>3, LenProperties
  <2>5. RetryAnchors(r, attempts) \subseteq Nat
    <3> HIDE DEF attempts
    <3>1. \A i \in DOMAIN attempts : attempts[i] \in Attempt
      BY <2>3
    <3>2. \A i \in DOMAIN attempts : attempts[i].started_at \in Nat
      BY <3>1 DEF Attempt
    <3>3. recordings[r].retry_window_started_at \in Times
      BY <2>1 DEF StoreTypeOK, RecordingRow
    <3>4. QED
      BY <3>2, <3>3 DEF RetryAnchors, Times
  <2> HIDE DEF r, attempts
  <2>6. CASE InFlight(transcription_attempts[r])
    <3>1. TranscriberTypeOK' /\ UNCHANGED transcription_attempts
      BY <1>6, <2>6 DEF StartTranscriptionAttempt, IdleTranscriber,
                        TranscriberTypeOK, r
    <3>2. QED
      BY <1>6, <3>1 DEF StartTranscriptionAttempt, StoreTypeOK,
                        RoutersTypeOK, DelivererTypeOK, RequestsTypeOK
  <2>7. CASE ~InFlight(transcription_attempts[r])
    <3>1. /\ transcription_attempts' =
               [transcription_attempts EXCEPT ![r] = attempts]
          /\ \E anchor \in RetryAnchors(r, attempts) :
               transcriber' = [transcriber EXCEPT
                   !.pc = "calling", !.attempt = Len(attempts),
                   !.first_started_at = anchor]
      BY <1>6, <2>7 DEF StartTranscriptionAttempt, r, attempts
    <3>2. PICK anchor \in Nat :
               transcriber' = [transcriber EXCEPT
                   !.pc = "calling", !.attempt = Len(attempts),
                   !.first_started_at = anchor]
      BY <2>5, <3>1
    <3>3. TranscriberTypeOK'
      BY <2>1, <2>4, <3>2 DEF TranscriberTypeOK, r
    <3>4. StoreTypeOK'
      BY <1>6, <2>3, <3>1 DEF StartTranscriptionAttempt, StoreTypeOK
    <3>5. QED
      BY <1>6, <3>3, <3>4 DEF StartTranscriptionAttempt, RoutersTypeOK,
                              DelivererTypeOK, RequestsTypeOK
  <2>8. QED
    BY <2>6, <2>7
<1>7. CASE TranscriberReturns
  <2>1. TranscriberTypeOK'
    BY <1>7 DEF TranscriberReturns, TranscriberTypeOK
  <2>2. QED
    BY <1>7, <2>1 DEF TranscriberReturns, StoreTypeOK, RoutersTypeOK,
                      DelivererTypeOK, RequestsTypeOK
<1>8. ASSUME NEW outcome \in {"succeeded", "retryable", "terminal"},
             transcriber.pc = "answered",
             FinishTranscriptionAttempt(outcome)
      PROVE  transcription_attempts' \in [Recordings -> Seq(Attempt)]
  <2>1. /\ transcriber.recording \in Recordings
        /\ transcriber.attempt \in Nat
        /\ transcriber.finished_at \in Nat
    BY <1>8 DEF TranscriberTypeOK
  <2>2. finish_attempt(transcription_attempts[transcriber.recording],
                       transcriber.attempt, transcriber.finished_at, outcome)
          \in Seq(Attempt)
    BY <2>1, FinishAttempt DEF StoreTypeOK
  <2>3. QED
    BY <1>8, <2>1, <2>2 DEF FinishTranscriptionAttempt, StoreTypeOK
<1>9. CASE SucceedTranscription
  <2>1. transcription_attempts' \in [Recordings -> Seq(Attempt)]
    BY <1>8, <1>9 DEF SucceedTranscription
  <2>2. recordings' \in [Recordings -> RecordingRow]
    BY <1>9, ZenonT(40) DEF SucceedTranscription, StoreTypeOK, RecordingRow,
                RecordingStatuses
  <2>3. transcripts' \subseteq Recordings
    BY <1>9 DEF SucceedTranscription, StoreTypeOK, TranscriberTypeOK
  <2>4. StoreTypeOK'
    BY <1>9, <2>1, <2>2, <2>3 DEF SucceedTranscription, StoreTypeOK
  <2>5. TranscriberTypeOK'
    BY <1>9 DEF SucceedTranscription, IdleTranscriber, TranscriberTypeOK
  <2>6. QED
    BY <1>9, <2>4, <2>5 DEF SucceedTranscription, RoutersTypeOK,
                            DelivererTypeOK, RequestsTypeOK
<1>10. CASE RetryTranscription
  <2>1. transcription_attempts' \in [Recordings -> Seq(Attempt)]
    BY <1>8, <1>10 DEF RetryTranscription
  <2>2. recordings' \in [Recordings -> RecordingRow]
    BY <1>10 DEF RetryTranscription, StoreTypeOK, RecordingRow
  <2>3. StoreTypeOK'
    BY <1>10, <2>1, <2>2 DEF RetryTranscription, StoreTypeOK
  <2>4. TranscriberTypeOK'
    BY <1>10 DEF RetryTranscription, IdleTranscriber, TranscriberTypeOK
  <2>5. QED
    BY <1>10, <2>3, <2>4 DEF RetryTranscription, RoutersTypeOK,
                             DelivererTypeOK, RequestsTypeOK
<1>11. CASE FailTranscription
  <2>1. transcription_attempts' \in [Recordings -> Seq(Attempt)]
    BY <1>8, <1>11 DEF FailTranscription
  <2>2. recordings' \in [Recordings -> RecordingRow]
    BY <1>11, ZenonT(40) DEF FailTranscription, StoreTypeOK, RecordingRow,
                 RecordingStatuses
  <2>3. StoreTypeOK'
    BY <1>11, <2>1, <2>2 DEF FailTranscription, StoreTypeOK
  <2>4. TranscriberTypeOK'
    BY <1>11 DEF FailTranscription, IdleTranscriber, TranscriberTypeOK
  <2>5. QED
    BY <1>11, <2>3, <2>4 DEF FailTranscription, RoutersTypeOK,
                             DelivererTypeOK, RequestsTypeOK
<1>12. ASSUME NEW w \in Routers, PickRouting(w) PROVE TypeOK'
  <2>1. PICK r \in Recordings, decision \in Sinks \cup {NoSink},
             at \in RecentTimes :
          routers' = [routers EXCEPT ![w] =
             [pc |-> "decided", recording |-> r, decision |-> decision,
              at |-> at]]
    BY <1>12 DEF PickRouting, OldestReceived, WithStatus
  <2>2. RoutersTypeOK'
    BY <2>1 DEF RoutersTypeOK, RecentTimes
  <2>3. QED
    BY <1>12, <2>2 DEF PickRouting, StoreTypeOK, TranscriberTypeOK,
                       DelivererTypeOK, RequestsTypeOK
<1>13. ASSUME NEW r \in Recordings, NEW sink \in Sinks \cup {NoSink},
              NEW at \in Nat, insert_delivery(r, sink, at)
       PROVE  deliveries' \in [Recordings -> DeliveryRow]
  BY <1>13, NewDelivery, Zenon DEF insert_delivery, StoreTypeOK
<1>14. ASSUME NEW w \in Routers, RouteToSink(w) PROVE TypeOK'
  <2>1. /\ routers[w].recording \in Recordings
        /\ routers[w].decision \in Sinks \cup {NoSink}
        /\ routers[w].at \in Nat
    BY <1>14 DEF RouteToSink, RoutersTypeOK
  <2>2. deliveries' \in [Recordings -> DeliveryRow]
    BY <1>13, <1>14, <2>1 DEF RouteToSink, StoreTypeOK
  <2>3. recordings' \in [Recordings -> RecordingRow]
    <3>1. \/ UNCHANGED recordings
          \/ recordings' = [recordings EXCEPT
                 ![routers[w].recording].status = "delivering",
                 ![routers[w].recording].selected_sink_name =
                     routers[w].decision]
      BY <1>14, Zenon DEF RouteToSink
    <3>2. CASE UNCHANGED recordings
      BY <3>2 DEF StoreTypeOK
    <3>3. CASE recordings' = [recordings EXCEPT
                 ![routers[w].recording].status = "delivering",
                 ![routers[w].recording].selected_sink_name =
                     routers[w].decision]
      <4> DEFINE r == routers[w].recording
                 sink == routers[w].decision
      <4> HIDE DEF r, sink
      <4>1. r \in Recordings /\ sink \in Sinks \cup {NoSink}
        BY <2>1 DEF r, sink
      <4>2. recordings' = [recordings EXCEPT
                ![r].status = "delivering", ![r].selected_sink_name = sink]
        BY <3>3 DEF r, sink
      <4>3. QED
        BY <4>1, <4>2, ZenonT(40)
           DEF StoreTypeOK, RecordingRow, RecordingStatuses
    <3>4. QED
      BY <3>1, <3>2, <3>3
  <2>4. StoreTypeOK'
    BY <1>14, <2>2, <2>3 DEF RouteToSink, StoreTypeOK
  <2>5. RoutersTypeOK'
    BY <1>14 DEF RouteToSink, RoutersTypeOK, IdleRouter
  <2>6. QED
    BY <1>14, <2>4, <2>5 DEF RouteToSink, TranscriberTypeOK, DelivererTypeOK,
                             RequestsTypeOK
<1>15. ASSUME NEW w \in Routers, MarkBacklogged(w) PROVE TypeOK'
  <2>1. recordings' \in [Recordings -> RecordingRow]
    <3>1. \/ UNCHANGED recordings
          \/ recordings' = [recordings EXCEPT
                 ![routers[w].recording].status = "backlogged"]
      BY <1>15, Zenon DEF MarkBacklogged
    <3>2. CASE UNCHANGED recordings
      BY <3>2 DEF StoreTypeOK
    <3>3. CASE recordings' = [recordings EXCEPT
                 ![routers[w].recording].status = "backlogged"]
      BY <3>3, ZenonT(40) DEF StoreTypeOK, RecordingRow, RecordingStatuses
    <3>4. QED
      BY <3>1, <3>2, <3>3
  <2>2. StoreTypeOK'
    BY <1>15, <2>1 DEF MarkBacklogged, StoreTypeOK
  <2>3. RoutersTypeOK'
    BY <1>15 DEF MarkBacklogged, RoutersTypeOK, IdleRouter
  <2>4. QED
    BY <1>15, <2>2, <2>3 DEF MarkBacklogged, TranscriberTypeOK,
                             DelivererTypeOK, RequestsTypeOK
<1>16. CASE PickDueDelivery
  <2>1. PICK at \in Readings(delivery_attempts), r \in Recordings :
          deliverer' = [deliverer EXCEPT
                !.pc = "claimed", !.recording = r, !.started_at = at,
                !.retry_deadline_at = deliveries[r].retry_deadline_at]
    BY <1>16 DEF PickDueDelivery, DueDeliveries, delivery_candidates
  <2>2. deliveries[r].retry_deadline_at \in Times
    BY DEF StoreTypeOK, DeliveryRow
  <2>3. DelivererTypeOK'
    <3>1. at \in Nat
      BY DEF Readings, RecentTimes
    <3>2. QED
      BY <2>1, <2>2, <3>1 DEF DelivererTypeOK
  <2>4. QED
    BY <1>16, <2>3 DEF PickDueDelivery, StoreTypeOK, TranscriberTypeOK,
                       RoutersTypeOK, RequestsTypeOK
<1>17. CASE StartDeliveryAttempt
  <2> DEFINE r == deliverer.recording
             attempts == Append(delivery_attempts[r],
                                NewAttempt(deliverer.started_at))
  <2>1. r \in Recordings /\ deliverer.started_at \in Nat
    BY <1>17 DEF StartDeliveryAttempt, DelivererTypeOK
  <2>2. delivery_attempts[r] \in Seq(Attempt)
    BY <2>1 DEF StoreTypeOK
  <2>3. attempts \in Seq(Attempt)
    BY <2>1, <2>2, AppendAttempt, Zenon
  <2>4. Len(attempts) \in Nat
    BY <2>3, LenProperties
  <2> HIDE DEF r, attempts
  <2>5. CASE InFlight(delivery_attempts[r])
    <3>1. DelivererTypeOK' /\ UNCHANGED delivery_attempts
      BY <1>17, <2>5 DEF StartDeliveryAttempt, IdleDeliverer,
                         DelivererTypeOK, Times, r
    <3>2. QED
      BY <1>17, <3>1 DEF StartDeliveryAttempt, StoreTypeOK,
                         TranscriberTypeOK, RoutersTypeOK, RequestsTypeOK
  <2>6. CASE ~InFlight(delivery_attempts[r])
    <3>1. /\ delivery_attempts' = [delivery_attempts EXCEPT ![r] = attempts]
          /\ deliverer' = [deliverer EXCEPT
                 !.pc = "calling", !.attempt = Len(attempts)]
      BY <1>17, <2>6 DEF StartDeliveryAttempt, r, attempts
    <3>2. DelivererTypeOK'
      BY <2>1, <2>4, <3>1 DEF DelivererTypeOK, r
    <3>3. StoreTypeOK'
      BY <1>17, <2>3, <3>1 DEF StartDeliveryAttempt, StoreTypeOK
    <3>4. QED
      BY <1>17, <3>2, <3>3 DEF StartDeliveryAttempt, TranscriberTypeOK,
                               RoutersTypeOK, RequestsTypeOK
  <2>7. QED
    BY <2>5, <2>6
<1>18. CASE SinkReturns
  <2>1. PICK answer \in Results \X BOOLEAN :
          /\ deliverer' = [deliverer EXCEPT
                !.pc = "answered", !.result = answer[1], !.finished_at = now]
          /\ accepted' = [accepted EXCEPT
                ![deliverer.recording] = IF answer[2] THEN @ + 1 ELSE @]
    BY <1>18 DEF SinkReturns, SinkAnswers
  <2>2. DelivererTypeOK'
    BY <1>18, <2>1 DEF SinkReturns, DelivererTypeOK
  <2>3. accepted' \in [Recordings -> Nat]
    <3>1. deliverer.recording \in Recordings
      BY <1>18 DEF SinkReturns, DelivererTypeOK
    <3>2. accepted \in [Recordings -> Nat]
      BY DEF StoreTypeOK
    <3>3. CASE answer[2]
      BY <2>1, <3>1, <3>2, <3>3
    <3>4. CASE ~answer[2]
      BY <2>1, <3>1, <3>2, <3>4
    <3>5. QED
      BY <3>3, <3>4
  <2>4. StoreTypeOK'
    BY <1>18, <2>3 DEF SinkReturns, StoreTypeOK
  <2>5. QED
    BY <1>18, <2>2, <2>4 DEF SinkReturns, TranscriberTypeOK, RoutersTypeOK,
                             RequestsTypeOK
<1>19. ASSUME NEW outcome \in {"succeeded", "retryable", "terminal"},
              deliverer.pc = "answered",
              FinishDeliveryAttempt(outcome)
       PROVE  delivery_attempts' \in [Recordings -> Seq(Attempt)]
  <2>1. /\ deliverer.recording \in Recordings
        /\ deliverer.attempt \in Nat
        /\ deliverer.finished_at \in Nat
    BY <1>19 DEF DelivererTypeOK
  <2>2. finish_attempt(delivery_attempts[deliverer.recording],
                       deliverer.attempt, deliverer.finished_at, outcome)
          \in Seq(Attempt)
    BY <2>1, FinishAttempt DEF StoreTypeOK
  <2>3. QED
    BY <1>19, <2>1, <2>2 DEF FinishDeliveryAttempt, StoreTypeOK
<1>20. CASE SucceedDelivery
  <2>1. delivery_attempts' \in [Recordings -> Seq(Attempt)]
    BY <1>19, <1>20 DEF SucceedDelivery
  <2>2. recordings' \in [Recordings -> RecordingRow]
    BY <1>20, ZenonT(40) DEF SucceedDelivery, StoreTypeOK, RecordingRow,
                 RecordingStatuses
  <2>3. deliverer.finished_at \in Times
    BY DEF DelivererTypeOK, Times
  <2>4. deliveries' \in [Recordings -> DeliveryRow]
    <3> DEFINE r == deliverer.recording
               row == [deliveries[r] EXCEPT !.status = "delivered",
                                   !.completed_at = deliverer.finished_at]
    <3>1. deliveries' = [deliveries EXCEPT ![r] = row]
      BY <1>20 DEF SucceedDelivery, StoreTypeOK, DeliveryRow
    <3>2. ASSUME r \in Recordings PROVE row \in DeliveryRow
      <4> HIDE DEF r, Times
      <4>1. deliveries[r] \in DeliveryRow
        BY <3>2 DEF StoreTypeOK
      <4>2. QED
        BY <2>3, <4>1 DEF DeliveryRow, DeliveryStatuses
    <3> HIDE DEF r, row
    <3>3. QED
      BY <3>1, <3>2 DEF StoreTypeOK
  <2>5. StoreTypeOK'
    BY <1>20, <2>1, <2>2, <2>4 DEF SucceedDelivery, StoreTypeOK
  <2>6. DelivererTypeOK'
    BY <1>20 DEF SucceedDelivery, IdleDeliverer, DelivererTypeOK, Times
  <2>7. QED
    BY <1>20, <2>5, <2>6 DEF SucceedDelivery, TranscriberTypeOK,
                             RoutersTypeOK, RequestsTypeOK
<1>21. CASE RetryDelivery
  <2>1. delivery_attempts' \in [Recordings -> Seq(Attempt)]
    BY <1>19, <1>21 DEF RetryDelivery
  <2>2. recordings' \in [Recordings -> RecordingRow]
    BY <1>21, ZenonT(40) DEF RetryDelivery, StoreTypeOK, RecordingRow
  <2>3. deliveries' \in [Recordings -> DeliveryRow]
    BY <1>21, ZenonT(40) DEF RetryDelivery, StoreTypeOK, DeliveryRow
  <2>4. StoreTypeOK'
    BY <1>21, <2>1, <2>2, <2>3 DEF RetryDelivery, StoreTypeOK
  <2>5. DelivererTypeOK'
    BY <1>21 DEF RetryDelivery, IdleDeliverer, DelivererTypeOK, Times
  <2>6. QED
    BY <1>21, <2>4, <2>5 DEF RetryDelivery, TranscriberTypeOK,
                             RoutersTypeOK, RequestsTypeOK
<1>22. CASE FailDelivery
  <2>1. delivery_attempts' \in [Recordings -> Seq(Attempt)]
    BY <1>19, <1>22 DEF FailDelivery
  <2>2. recordings' \in [Recordings -> RecordingRow]
    BY <1>22, ZenonT(40)
       DEF FailDelivery, StoreTypeOK, RecordingRow, RecordingStatuses
  <2>3. deliverer.finished_at \in Times
    BY DEF DelivererTypeOK, Times
  <2>4. deliveries' \in [Recordings -> DeliveryRow]
    <3> DEFINE r == deliverer.recording
               row == [deliveries[r] EXCEPT !.status = "delivery_failed",
                                   !.completed_at = deliverer.finished_at,
                                   !.latest_error = TRUE]
    <3>1. deliveries' = [deliveries EXCEPT ![r] = row]
      BY <1>22 DEF FailDelivery, StoreTypeOK, DeliveryRow
    <3>2. ASSUME r \in Recordings PROVE row \in DeliveryRow
      <4> HIDE DEF r, Times
      <4>1. deliveries[r] \in DeliveryRow
        BY <3>2 DEF StoreTypeOK
      <4>2. QED
        BY <2>3, <4>1 DEF DeliveryRow, DeliveryStatuses
    <3> HIDE DEF r, row
    <3>3. QED
      BY <3>1, <3>2 DEF StoreTypeOK
  <2>5. StoreTypeOK'
    BY <1>22, <2>1, <2>2, <2>4 DEF FailDelivery, StoreTypeOK
  <2>6. DelivererTypeOK'
    BY <1>22 DEF FailDelivery, IdleDeliverer, DelivererTypeOK, Times
  <2>7. QED
    BY <1>22, <2>5, <2>6 DEF FailDelivery, TranscriberTypeOK, RoutersTypeOK,
                             RequestsTypeOK
<1>23. ASSUME NEW q \in Requests, SubmitRequest(q) PROVE TypeOK'
  <2>1. PICK kind \in OperatorActions, r \in Recordings, sink \in Sinks :
          requests' = [requests EXCEPT ![q] =
             [kind |-> kind, recording |-> r, at |-> now,
              sink |-> IF kind = "manual_routing" THEN sink ELSE NoSink]]
    BY <1>23 DEF SubmitRequest
  <2>2. RequestsTypeOK'
    BY <2>1 DEF RequestsTypeOK
  <2>3. QED
    BY <1>23, <2>2 DEF SubmitRequest, StoreTypeOK, TranscriberTypeOK,
                       RoutersTypeOK, DelivererTypeOK
<1>24. ASSUME NEW q \in Requests, requests[q].kind \in OperatorActions,
              Audit(q)
       PROVE  /\ audit_events' \in [Recordings -> Seq(OperatorActions)]
              /\ RequestsTypeOK'
  <2>1. requests[q].recording \in Recordings
    BY <1>24 DEF RequestsTypeOK, OperatorActions
  <2>2. Append(audit_events[requests[q].recording], requests[q].kind)
          \in Seq(OperatorActions)
    BY <1>24, <2>1 DEF StoreTypeOK
  <2>3. audit_events' \in [Recordings -> Seq(OperatorActions)]
    BY <1>24, <2>1, <2>2 DEF Audit, StoreTypeOK
  <2>4. RequestsTypeOK'
    BY <1>24 DEF Audit, NoRequest, RequestsTypeOK
  <2>5. QED
    BY <2>3, <2>4
<1>25. ASSUME NEW q \in Requests, ManualRoute(q) PROVE TypeOK'
  <2> DEFINE r == requests[q].recording
             sink == requests[q].sink
  <2>1. r \in Recordings /\ sink \in Sinks /\ requests[q].at \in Nat
    BY <1>25 DEF ManualRoute, RequestsTypeOK
  <2>2. recordings' = [recordings EXCEPT
            ![r].status = "delivering", ![r].selected_sink_name = sink]
    BY <1>25 DEF ManualRoute
  <2>3. deliveries' \in [Recordings -> DeliveryRow]
    BY <1>13, <1>25, <2>1 DEF ManualRoute
  <2> HIDE DEF r, sink
  <2>4. recordings' \in [Recordings -> RecordingRow]
    BY <2>1, <2>2, ZenonT(40) DEF StoreTypeOK, RecordingRow, RecordingStatuses
  <2>5. /\ audit_events' \in [Recordings -> Seq(OperatorActions)]
        /\ RequestsTypeOK'
    BY <1>24, <1>25 DEF ManualRoute, OperatorActions
  <2>6. StoreTypeOK'
    BY <1>25, <2>3, <2>4, <2>5 DEF ManualRoute, Audit, StoreTypeOK
  <2>7. QED
    BY <1>25, <2>5, <2>6 DEF ManualRoute, Audit, TranscriberTypeOK,
                             RoutersTypeOK, DelivererTypeOK
<1>26. ASSUME NEW q \in Requests, ManualRetryTranscription(q) PROVE TypeOK'
  <2> DEFINE r == requests[q].recording
             at == requests[q].at
  <2>1. r \in Recordings /\ at \in Times
    BY <1>26 DEF ManualRetryTranscription, RequestsTypeOK, Times
  <2>2. recordings' = [recordings EXCEPT
            ![r].status = "transcribing", ![r].latest_error = FALSE,
            ![r].retry_window_started_at = at]
    BY <1>26 DEF ManualRetryTranscription
  <2> HIDE DEF r, at
  <2>3. recordings' \in [Recordings -> RecordingRow]
    <3> DEFINE row == [recordings[r] EXCEPT !.status = "transcribing",
                           !.latest_error = FALSE,
                           !.retry_window_started_at = at]
    <3>1. recordings' = [recordings EXCEPT ![r] = row]
      BY <2>1, <2>2 DEF StoreTypeOK, RecordingRow
    <3>2. row \in RecordingRow
      <4> HIDE DEF Times
      <4>1. recordings[r] \in RecordingRow
        BY <2>1 DEF StoreTypeOK
      <4>2. QED
        BY <2>1, <4>1 DEF RecordingRow, RecordingStatuses
    <3> HIDE DEF row
    <3>3. QED
      BY <2>1, <3>1, <3>2 DEF StoreTypeOK
  <2>4. /\ audit_events' \in [Recordings -> Seq(OperatorActions)]
        /\ RequestsTypeOK'
    BY <1>24, <1>26 DEF ManualRetryTranscription, OperatorActions
  <2>5. StoreTypeOK'
    BY <1>26, <2>3, <2>4 DEF ManualRetryTranscription, Audit, StoreTypeOK
  <2>6. QED
    BY <1>26, <2>4, <2>5 DEF ManualRetryTranscription, Audit,
                TranscriberTypeOK, RoutersTypeOK, DelivererTypeOK
<1>27. ASSUME NEW q \in Requests, ManualRetryDelivery(q) PROVE TypeOK'
  <2> DEFINE r == requests[q].recording
             at == requests[q].at
  <2>1. r \in Recordings /\ at \in Nat
    BY <1>27 DEF ManualRetryDelivery, RequestsTypeOK
  <2>2. /\ recordings' = [recordings EXCEPT
              ![r].status = "delivering", ![r].latest_error = FALSE]
        /\ deliveries' = [deliveries EXCEPT ![r] = Reopened(@, at)]
    BY <1>27 DEF ManualRetryDelivery
  <2> HIDE DEF r, at
  <2>3. recordings' \in [Recordings -> RecordingRow]
    BY <2>1, <2>2, ZenonT(40) DEF StoreTypeOK, RecordingRow, RecordingStatuses
  <2>4. Reopened(deliveries[r], at) \in DeliveryRow
    BY <2>1, ReopenedRow DEF StoreTypeOK
  <2>5. deliveries' \in [Recordings -> DeliveryRow]
    BY <2>1, <2>2, <2>4 DEF StoreTypeOK
  <2>6. /\ audit_events' \in [Recordings -> Seq(OperatorActions)]
        /\ RequestsTypeOK'
    BY <1>24, <1>27 DEF ManualRetryDelivery, OperatorActions
  <2>7. StoreTypeOK'
    BY <1>27, <2>3, <2>5, <2>6 DEF ManualRetryDelivery, Audit, StoreTypeOK
  <2>8. QED
    BY <1>27, <2>6, <2>7 DEF ManualRetryDelivery, Audit, TranscriberTypeOK,
                             RoutersTypeOK, DelivererTypeOK
<1>28. ASSUME NEW q \in Requests, EndRequest(q) PROVE TypeOK'
  <2>1. RequestsTypeOK'
    BY <1>28 DEF EndRequest, NoRequest, RequestsTypeOK
  <2>2. QED
    BY <1>28, <2>1 DEF EndRequest, StoreTypeOK, TranscriberTypeOK,
                       RoutersTypeOK, DelivererTypeOK
<1>29. CASE Recover
  <2>1. ASSUME NEW r \in Recordings
        PROVE  [recordings[r] EXCEPT
                   !.status = RecoveredStatus(r),
                   !.latest_error = \/ @
                                    \/ InFlight(transcription_attempts[r])
                                    \/ InFlight(delivery_attempts[r])]
                 \in RecordingRow
    <3>1. RecoveredStatus(r) \in RecordingStatuses \cup {"absent"}
      BY DEF RecoveredStatus, StoreTypeOK, RecordingRow, RecordingStatuses
    <3>2. recordings[r] \in RecordingRow
      BY DEF StoreTypeOK
    <3>3. (\/ recordings[r].latest_error
           \/ InFlight(transcription_attempts[r])
           \/ InFlight(delivery_attempts[r])) \in BOOLEAN
      OBVIOUS
    <3>4. QED
      BY <3>1, <3>2, <3>3 DEF RecordingRow
  <2>2. recordings' \in [Recordings -> RecordingRow]
    BY <1>29, <2>1 DEF Recover
  <2>3. ASSUME NEW r \in Recordings
        PROVE  /\ close_abandoned(transcription_attempts[r], now)
                    \in Seq(Attempt)
               /\ close_abandoned(delivery_attempts[r], now) \in Seq(Attempt)
    BY CloseAbandoned DEF StoreTypeOK
  <2>4. StoreTypeOK'
    BY <1>29, <2>2, <2>3 DEF Recover, StoreTypeOK
  <2>5. QED
    BY <1>29, <2>4 DEF Recover, TranscriberTypeOK, RoutersTypeOK,
                       DelivererTypeOK, RequestsTypeOK
<1>30. CASE Crash
  <2>1. /\ TranscriberTypeOK' /\ RoutersTypeOK'
        /\ DelivererTypeOK' /\ RequestsTypeOK'
    BY <1>30 DEF Crash, TranscriberTypeOK, IdleTranscriber, RoutersTypeOK,
                 IdleRouter, DelivererTypeOK, IdleDeliverer, RequestsTypeOK,
                 NoRequest, Times
  <2>2. StoreTypeOK'
    BY <1>30 DEF Crash, StoreTypeOK
  <2>3. crashes' \in Nat /\ now' \in Nat
    BY <1>30 DEF Crash
  <2>4. running' \in BOOLEAN
    BY <1>30 DEF Crash
  <2>5. QED
    BY <2>1, <2>2, <2>3, <2>4
<1>31. CASE Tick
  <2>1. now' \in Nat
    BY <1>31 DEF Tick
  <2>2. UNCHANGED <<store, accepted, running, process, crashes>>
    BY <1>31 DEF Tick
  <2>3. StoreTypeOK'
    BY <2>2 DEF StoreTypeOK
  <2>4. TranscriberTypeOK' /\ RoutersTypeOK' /\ DelivererTypeOK'
          /\ RequestsTypeOK'
    BY <2>2 DEF TranscriberTypeOK, RoutersTypeOK, DelivererTypeOK,
                RequestsTypeOK
  <2>5. QED
    BY <2>1, <2>2, <2>3, <2>4
<1>32. CASE UNCHANGED vars
  BY <1>32 DEF vars, StoreTypeOK, TranscriberTypeOK, RoutersTypeOK,
               DelivererTypeOK, RequestsTypeOK
<1>33. QED
  BY <1>1, <1>2, <1>3, <1>4, <1>5, <1>6, <1>7, <1>9, <1>10, <1>11, <1>12,
     <1>14, <1>15, <1>16, <1>17, <1>18, <1>20, <1>21, <1>22, <1>23, <1>25,
     <1>26, <1>27, <1>28, <1>29, <1>30, <1>31, <1>32
     DEF Next, ProcessStep, TranscriptionStep, RoutingStep, DeliveryStep,
         AnswerRequest

\* The rows and the processes keep their types through every interleaving of
\* workers, requests, crashes and restarts; in particular the deadline that
\* start_transcription_attempt anchors is always a time and never NULL.
THEOREM TypeCorrect == Spec => []TypeOK
<1>1. Init => TypeOK
  BY InitType
<1>2. TypeOK /\ [Next]_vars => TypeOK'
  BY StepType
<1>3. QED
  BY <1>1, <1>2, PTL DEF Spec
=============================================================================

------------------------- MODULE PipelineRefinement -------------------------
(***************************************************************************)
(* Pipeline implements RecordingLifecycle, for every set of Recordings and *)
(* Sinks: each transaction is one step of one Recording's lifecycle, or    *)
(* none.                                                                   *)
(***************************************************************************)
EXTENDS PipelineSafety

\* The claim that recovery undoes: a Recording in transcribing without an
\* attempt.  There is one transcriber, so there is one at most.
Unattempted(r) ==
    /\ recordings[r].status = "transcribing"
    /\ transcription_attempts[r] = <<>>

OneUnattempted ==
    \A q, r \in Recordings : Unattempted(q) /\ Unattempted(r) => q = r

\* While the process runs the transcriber holds the claim; a crash leaves it
\* to recovery, which undoes it before anything else happens.
LEMMA OneUnattemptedStep ==
    Safe /\ OneUnattempted /\ [Next]_vars => OneUnattempted'
<1> SUFFICES ASSUME Safe, OneUnattempted, [Next]_vars
             PROVE  OneUnattempted'
  OBVIOUS
<1>1. CASE running'
  BY <1>1, HandsStep DEF HandsMatchRows, OneUnattempted, Unattempted
<1>2. CASE ~running'
  <2>1. UNCHANGED <<recordings, transcription_attempts>>
    <3>1. Crash \/ ~running
      BY <1>2 DEF Next, ProcessStep, Upload, TranscriptionStep,
         ClaimReceived, NothingReceived, PickDueRetry, NoDueRetry,
         StartTranscriptionAttempt, TranscriberReturns, SucceedTranscription,
         RetryTranscription, FailTranscription, RoutingStep, PickRouting,
         RouteToSink, MarkBacklogged, DeliveryStep, PickDueDelivery,
         StartDeliveryAttempt, SinkReturns, SucceedDelivery, RetryDelivery,
         FailDelivery, SubmitRequest, AnswerRequest, ManualRoute,
         ManualRetryTranscription, ManualRetryDelivery, EndRequest, Audit,
         Recover, Tick, vars
    <3>2. Crash \/ Tick \/ UNCHANGED vars
      BY <1>2, <3>1 DEF Next, ProcessStep, Upload, TranscriptionStep,
         ClaimReceived, NothingReceived, PickDueRetry, NoDueRetry,
         StartTranscriptionAttempt, TranscriberReturns, SucceedTranscription,
         RetryTranscription, FailTranscription, RoutingStep, PickRouting,
         RouteToSink, MarkBacklogged, DeliveryStep, PickDueDelivery,
         StartDeliveryAttempt, SinkReturns, SucceedDelivery, RetryDelivery,
         FailDelivery, SubmitRequest, AnswerRequest, ManualRoute,
         ManualRetryTranscription, ManualRetryDelivery, EndRequest, Recover
    <3>3. QED
      BY <3>2 DEF Crash, Tick, vars, store
  <2>2. QED
    BY <2>1 DEF OneUnattempted, Unattempted
<1>3. QED
  BY <1>1, <1>2

\* The view of the rows that RecordingLifecycle has.
Status == [r \in Recordings |-> recordings[r].status]
Transcript == [r \in Recordings |-> r \in transcripts]
Sink == [r \in Recordings |-> recordings[r].selected_sink_name]
Accepted == [r \in Recordings |-> accepted[r] > 0]

\* Predicates on Recordings are equal when they hold of the same ones.
LEMMA SamePredicate ==
    ASSUME NEW f \in [Recordings -> BOOLEAN],
           NEW g \in [Recordings -> BOOLEAN],
           \A q \in Recordings : f[q] <=> g[q]
    PROVE  f = g
OBVIOUS

\* Membership and positiveness are such predicates.
LEMMA Membership ==
    ASSUME NEW T
    PROVE  LET f == [q \in Recordings |-> q \in T] IN
           /\ f \in [Recordings -> BOOLEAN]
           /\ \A q \in Recordings : f[q] <=> q \in T
<1>1. [q \in Recordings |-> q \in T] \in [Recordings -> BOOLEAN]
  OBVIOUS
<1>2. \A r \in Recordings :
        [q \in Recordings |-> q \in T][r] <=> r \in T
  OBVIOUS
<1>3. QED
  BY <1>1, <1>2, Zenon

LEMMA Positiveness ==
    ASSUME NEW a \in [Recordings -> Nat]
    PROVE  LET f == [q \in Recordings |-> a[q] > 0] IN
           /\ f \in [Recordings -> BOOLEAN]
           /\ \A q \in Recordings : f[q] <=> a[q] > 0
<1>1. [q \in Recordings |-> a[q] > 0] \in [Recordings -> BOOLEAN]
  OBVIOUS
<1>2. \A r \in Recordings :
        [q \in Recordings |-> a[q] > 0][r] <=> a[r] > 0
  OBVIOUS
<1>3. QED
  BY <1>1, <1>2, Zenon

\* A predicate that holds of one Recording more.
LEMMA OneMore ==
    ASSUME NEW f \in [Recordings -> BOOLEAN],
           NEW g \in [Recordings -> BOOLEAN], NEW r \in Recordings,
           \A q \in Recordings : g[q] <=> (q = r \/ f[q])
    PROVE  g = [f EXCEPT ![r] = TRUE]
<1>1. [f EXCEPT ![r] = TRUE] \in [Recordings -> BOOLEAN]
  OBVIOUS
<1>2. \A q \in Recordings : [f EXCEPT ![r] = TRUE][q] <=> (q = r \/ f[q])
  OBVIOUS
<1> DEFINE h == [f EXCEPT ![r] = TRUE]
<1> HIDE DEF h
<1>3. \A q \in Recordings : g[q] <=> h[q]
  BY <1>2 DEF h
<1>4. h \in [Recordings -> BOOLEAN]
  BY <1>1 DEF h
<1>5. g = h
  BY <1>3, <1>4, SamePredicate
<1>6. QED
  BY <1>5 DEF h

\* A transaction that writes the status of one Recording, and no Sink.
StatusOnly(r, to) ==
    /\ \A q \in Recordings :
         /\ recordings'[q].status =
              IF q = r THEN to ELSE recordings[q].status
         /\ recordings'[q].selected_sink_name =
              recordings[q].selected_sink_name
    /\ UNCHANGED accepted

\* It is one Move of the lifecycle.
LEMMA StatusMove ==
    ASSUME NEW r \in Recordings, NEW to, StatusOnly(r, to)
    PROVE  /\ Lifecycle!Move(r, recordings[r].status, to)
           /\ UNCHANGED <<Sink, Accepted>>
BY DEF StatusOnly, Lifecycle!Move, Sink, Accepted

\* A transaction that writes neither is none.
LEMMA NoMove ==
    ASSUME \A q \in Recordings :
             /\ recordings'[q].status = recordings[q].status
             /\ recordings'[q].selected_sink_name =
                  recordings[q].selected_sink_name,
           UNCHANGED <<transcripts, accepted>>
    PROVE  UNCHANGED Lifecycle!lifecycleVars
BY DEF Lifecycle!lifecycleVars

\* The selection of a Sink, by the rules or by an Operator.
LEMMA SelectionMove ==
    ASSUME Safe, NEW r \in Recordings, NEW sink \in Sinks,
           recordings[r].status \in {"routing", "backlogged"},
           recordings' = [recordings EXCEPT
               ![r].status = "delivering", ![r].selected_sink_name = sink],
           UNCHANGED <<transcripts, accepted>>
    PROVE  Lifecycle!Select(r)
<1>1. \A q \in Recordings :
        /\ recordings'[q].status =
             IF q = r THEN "delivering" ELSE recordings[q].status
        /\ recordings'[q].selected_sink_name =
             IF q = r THEN sink ELSE recordings[q].selected_sink_name
  BY DEF Safe, TypeOK, StoreTypeOK, RecordingRow
<1>2. /\ r \in transcripts
      /\ recordings[r].selected_sink_name = NoSink
  <2>1. RowAgrees(r) /\ recordings[r] \in RecordingRow
    BY DEF Safe, TypeOK, StoreTypeOK, RowsAgree
  <2>2. QED
    BY <2>1 DEF RowAgrees, Transcribed, DeliveryStatuses, RecordingRow
<1>3. Lifecycle!Move(r, recordings[r].status, "delivering")
  BY <1>1 DEF Lifecycle!Move
<1>4. Sink' = [Sink EXCEPT ![r] = sink]
  BY <1>1 DEF Sink
<1>5. QED
  BY <1>2, <1>3, <1>4 DEF Lifecycle!Select, Sink

\* Every step of Pipeline is a step of one Recording's lifecycle, or none.
LEMMA StepRefines ==
    Safe /\ OneUnattempted /\ [Next]_vars
      => [Lifecycle!Next]_(Lifecycle!lifecycleVars)
<1> SUFFICES ASSUME Safe, OneUnattempted, [Next]_vars
             PROVE  \/ \E r \in Recordings : Lifecycle!Step(r)
                    \/ UNCHANGED Lifecycle!lifecycleVars
  BY DEF Lifecycle!Next
<1>0. /\ recordings \in [Recordings -> RecordingRow]
      /\ accepted \in [Recordings -> Nat]
      /\ TranscriberTypeOK /\ DelivererTypeOK /\ RoutersTypeOK
      /\ RequestsTypeOK
      /\ WorkersKeepTheirClaim /\ HandsMatchRows
  BY DEF Safe, TypeOK, StoreTypeOK
<1>1. ASSUME NEW r \in Recordings, Upload(r) PROVE Lifecycle!Receive(r)
  <2>1. StatusOnly(r, "received")
    BY <1>0, <1>1 DEF Upload, StatusOnly, RecordingRow
  <2>2. recordings[r].status = "absent" /\ UNCHANGED transcripts
    BY <1>1 DEF Upload
  <2>3. QED
    BY <2>1, <2>2, StatusMove DEF Lifecycle!Receive, Sink, Accepted
<1>2. CASE ClaimReceived
  <2>1. PICK r \in Recordings :
          /\ recordings[r].status = "received"
          /\ recordings' = [recordings EXCEPT ![r].status = "transcribing"]
    BY <1>2 DEF ClaimReceived, OldestReceived, WithStatus
  <2>2. UNCHANGED <<transcripts, accepted>>
    BY <1>2 DEF ClaimReceived
  <2>3. StatusOnly(r, "transcribing")
    BY <1>0, <2>1, <2>2 DEF StatusOnly, RecordingRow
  <2>4. Lifecycle!Claim(r)
    BY <2>1, <2>2, <2>3, StatusMove DEF Lifecycle!Claim, Sink, Accepted
  <2>5. QED
    BY <2>4 DEF Lifecycle!Step
<1>3. CASE SucceedTranscription
  <2> DEFINE r == transcriber.recording
  <2>1. /\ r \in Recordings /\ r \notin transcripts
        /\ recordings[r].status = "transcribing"
        /\ transcripts' = transcripts \cup {r}
    BY <1>0, <1>3
       DEF SucceedTranscription, WorkersKeepTheirClaim, TranscriberTypeOK
  <2>2. StatusOnly(r, "routing")
    BY <1>0, <1>3, <2>1 DEF SucceedTranscription, StatusOnly, RecordingRow
  <2> HIDE DEF r
  <2>3. Transcript' = [Transcript EXCEPT ![r] = TRUE]
    <3>1. /\ Transcript \in [Recordings -> BOOLEAN]
          /\ \A q \in Recordings : Transcript[q] <=> q \in transcripts
      BY Membership DEF Transcript
    <3>2. /\ Transcript' \in [Recordings -> BOOLEAN]
          /\ \A q \in Recordings : Transcript'[q] <=> q \in transcripts'
      BY Membership DEF Transcript
    <3>3. \A q \in Recordings : Transcript'[q] <=> (q = r \/ Transcript[q])
      BY <2>1, <3>1, <3>2
    <3>4. QED
      BY <2>1, <3>1, <3>2, <3>3, OneMore
  <2>4. \E x \in Recordings : Lifecycle!Transcribe(x)
    BY <2>1, <2>2, <2>3, StatusMove
       DEF Lifecycle!Transcribe, Transcript, Sink, Accepted
  <2>5. QED
    BY <2>4 DEF Lifecycle!Step
<1>4. CASE FailTranscription
  <2> DEFINE r == transcriber.recording
  <2>1. /\ r \in Recordings /\ recordings[r].status = "transcribing"
        /\ UNCHANGED transcripts
    BY <1>0, <1>4
       DEF FailTranscription, WorkersKeepTheirClaim, TranscriberTypeOK
  <2>2. StatusOnly(r, "transcription_failed")
    BY <1>0, <1>4, <2>1 DEF FailTranscription, StatusOnly, RecordingRow
  <2> HIDE DEF r
  <2>3. \E x \in Recordings : Lifecycle!FailTranscription(x)
    BY <2>1, <2>2, StatusMove
       DEF Lifecycle!FailTranscription, Sink, Accepted
  <2>4. QED
    BY <2>3 DEF Lifecycle!Step
<1>5. ASSUME NEW w \in Routers, RouteToSink(w)
      PROVE  \/ \E r \in Recordings : Lifecycle!Select(r)
             \/ UNCHANGED Lifecycle!lifecycleVars
  <2> DEFINE r == routers[w].recording
             sink == routers[w].decision
  <2>1. /\ r \in Recordings /\ sink \in Sinks
        /\ UNCHANGED <<transcripts, accepted>>
    BY <1>0, <1>5 DEF RouteToSink, RoutersTypeOK
  <2>2. CASE recordings[r].status = "routing"
    <3>1. recordings' = [recordings EXCEPT
              ![r].status = "delivering", ![r].selected_sink_name = sink]
      BY <1>5, <2>2 DEF RouteToSink
    <3> HIDE DEF r, sink
    <3>2. QED
      BY <2>1, <2>2, <3>1, SelectionMove
  <2>3. CASE recordings[r].status # "routing"
    <3>1. UNCHANGED recordings
      BY <1>5, <2>3 DEF RouteToSink
    <3>2. QED
      BY <2>1, <3>1, NoMove
  <2>4. QED
    BY <2>2, <2>3
<1>6. ASSUME NEW w \in Routers, MarkBacklogged(w)
      PROVE  \/ \E r \in Recordings : Lifecycle!Backlog(r)
             \/ UNCHANGED Lifecycle!lifecycleVars
  <2> DEFINE r == routers[w].recording
  <2>1. r \in Recordings /\ UNCHANGED <<transcripts, accepted>>
    BY <1>0, <1>6 DEF MarkBacklogged, RoutersTypeOK
  <2>2. CASE can_transition_to(recordings[r].status, "backlogged")
    <3>1. recordings' = [recordings EXCEPT ![r].status = "backlogged"]
      BY <1>6, <2>2 DEF MarkBacklogged
    <3>2. recordings[r].status = "routing"
      BY <2>2, Zenon DEF can_transition_to
    <3> HIDE DEF r
    <3>3. StatusOnly(r, "backlogged")
      BY <1>0, <2>1, <3>1 DEF StatusOnly, RecordingRow
    <3>4. QED
      BY <2>1, <3>2, <3>3, StatusMove DEF Lifecycle!Backlog, Sink, Accepted
  <2>3. CASE ~can_transition_to(recordings[r].status, "backlogged")
    <3>1. UNCHANGED recordings
      BY <1>6, <2>3 DEF MarkBacklogged
    <3>2. QED
      BY <2>1, <3>1, NoMove
  <2>4. QED
    BY <2>2, <2>3
<1>7. CASE SinkReturns
  <2> DEFINE r == deliverer.recording
  <2>1. /\ r \in Recordings /\ recordings[r].status = "delivering"
        /\ UNCHANGED <<recordings, transcripts>>
    BY <1>0, <1>7 DEF SinkReturns, DelivererTypeOK, WorkersKeepTheirClaim,
                      store
  <2>2. accepted' \in {accepted, [accepted EXCEPT ![r] = @ + 1]}
    BY <1>0, <1>7 DEF SinkReturns, SinkAnswers
  <2> HIDE DEF r
  <2>3. CASE accepted' = accepted
    BY <2>1, <2>3, NoMove
  <2>4. CASE accepted' = [accepted EXCEPT ![r] = @ + 1]
    <3>1. Accepted' = [Accepted EXCEPT ![r] = TRUE]
      <4>1. \A q \in Recordings :
              (accepted'[q] > 0) <=> (q = r \/ accepted[q] > 0)
        BY <1>0, <2>1, <2>4
      <4>2. /\ Accepted \in [Recordings -> BOOLEAN]
            /\ \A q \in Recordings : Accepted[q] <=> accepted[q] > 0
        BY <1>0, Positiveness DEF Accepted
      <4>3. accepted' \in [Recordings -> Nat]
        BY <1>0, <2>1, <2>4
      <4>4. /\ Accepted' \in [Recordings -> BOOLEAN]
            /\ \A q \in Recordings : Accepted'[q] <=> accepted'[q] > 0
        BY <4>3, Positiveness DEF Accepted
      <4>5. \A q \in Recordings : Accepted'[q] <=> (q = r \/ Accepted[q])
        BY <4>1, <4>2, <4>4
      <4>6. QED
        BY <2>1, <4>2, <4>4, <4>5, OneMore
    <3>2. \E x \in Recordings : Lifecycle!Accept(x)
      BY <2>1, <3>1 DEF Lifecycle!Accept, Accepted
    <3>3. QED
      BY <3>2 DEF Lifecycle!Step
  <2>5. QED
    BY <2>2, <2>3, <2>4
<1>8. CASE SucceedDelivery
  <2> DEFINE r == deliverer.recording
  <2>1. /\ r \in Recordings /\ recordings[r].status = "delivering"
        /\ accepted[r] > 0 /\ UNCHANGED transcripts
    BY <1>0, <1>8 DEF SucceedDelivery, DelivererTypeOK,
                      WorkersKeepTheirClaim, HandsMatchRows
  <2>2. StatusOnly(r, "delivered")
    BY <1>0, <1>8, <2>1 DEF SucceedDelivery, StatusOnly, RecordingRow
  <2> HIDE DEF r
  <2>3. \E x \in Recordings : Lifecycle!Deliver(x)
    BY <2>1, <2>2, StatusMove DEF Lifecycle!Deliver, Sink, Accepted
  <2>4. QED
    BY <2>3 DEF Lifecycle!Step
<1>9. CASE FailDelivery
  <2> DEFINE r == deliverer.recording
  <2>1. /\ r \in Recordings /\ recordings[r].status = "delivering"
        /\ UNCHANGED transcripts
    BY <1>0, <1>9
       DEF FailDelivery, DelivererTypeOK, WorkersKeepTheirClaim
  <2>2. StatusOnly(r, "delivery_failed")
    BY <1>0, <1>9, <2>1 DEF FailDelivery, StatusOnly, RecordingRow
  <2> HIDE DEF r
  <2>3. \E x \in Recordings : Lifecycle!FailDelivery(x)
    BY <2>1, <2>2, StatusMove DEF Lifecycle!FailDelivery, Sink, Accepted
  <2>4. QED
    BY <2>3 DEF Lifecycle!Step
<1>10. CASE RetryTranscription \/ RetryDelivery
  <2>1. \A q \in Recordings :
          /\ recordings'[q].status = recordings[q].status
          /\ recordings'[q].selected_sink_name =
               recordings[q].selected_sink_name
    BY <1>0, <1>10 DEF RetryTranscription, RetryDelivery, RecordingRow
  <2>2. UNCHANGED <<transcripts, accepted>>
    BY <1>10 DEF RetryTranscription, RetryDelivery
  <2>3. QED
    BY <2>1, <2>2, NoMove
<1>11. ASSUME NEW q \in Requests, ManualRoute(q)
       PROVE  \E r \in Recordings : Lifecycle!Select(r)
  <2> DEFINE r == requests[q].recording
             sink == requests[q].sink
  <2>1. /\ r \in Recordings /\ sink \in Sinks
        /\ recordings[r].status = "backlogged"
        /\ recordings' = [recordings EXCEPT
               ![r].status = "delivering", ![r].selected_sink_name = sink]
        /\ UNCHANGED <<transcripts, accepted>>
    BY <1>0, <1>11 DEF ManualRoute, Audit, RequestsTypeOK
  <2> HIDE DEF r, sink
  <2>2. QED
    BY <2>1, SelectionMove
<1>12. ASSUME NEW q \in Requests, ManualRetryTranscription(q)
       PROVE  \E r \in Recordings : Lifecycle!RetryTranscription(r)
  <2> DEFINE r == requests[q].recording
  <2>1. /\ r \in Recordings
        /\ recordings[r].status = "transcription_failed"
        /\ UNCHANGED <<transcripts, accepted>>
    BY <1>0, <1>12 DEF ManualRetryTranscription, TranscriptionRetryAllowed,
                       Audit, RequestsTypeOK
  <2>2. StatusOnly(r, "transcribing")
    BY <1>0, <1>12, <2>1 DEF ManualRetryTranscription, StatusOnly,
                             RecordingRow
  <2> HIDE DEF r
  <2>3. QED
    BY <2>1, <2>2, StatusMove DEF Lifecycle!RetryTranscription, Sink, Accepted
<1>13. ASSUME NEW q \in Requests, ManualRetryDelivery(q)
       PROVE  \E r \in Recordings : Lifecycle!RetryDelivery(r)
  <2> DEFINE r == requests[q].recording
  <2>1. /\ r \in Recordings
        /\ recordings[r].status = "delivery_failed"
        /\ UNCHANGED <<transcripts, accepted>>
    BY <1>0, <1>13 DEF ManualRetryDelivery, DeliveryRetryAllowed, Audit,
                       RequestsTypeOK
  <2>2. StatusOnly(r, "delivering")
    BY <1>0, <1>13, <2>1 DEF ManualRetryDelivery, StatusOnly, RecordingRow
  <2> HIDE DEF r
  <2>3. QED
    BY <2>1, <2>2, StatusMove DEF Lifecycle!RetryDelivery, Sink, Accepted
<1>14. CASE Recover
  <2>1. \A q \in Recordings :
          /\ recordings'[q].status =
               IF Unattempted(q) THEN "received" ELSE recordings[q].status
          /\ recordings'[q].selected_sink_name =
               recordings[q].selected_sink_name
    BY <1>0, <1>14 DEF Recover, RecoveredStatus, RecordingRow, Unattempted
  <2>2. UNCHANGED <<transcripts, accepted>>
    BY <1>14 DEF Recover
  <2>3. CASE \E r \in Recordings : Unattempted(r)
    <3>1. PICK r \in Recordings : Unattempted(r)
      BY <2>3
    <3>2. \A q \in Recordings : Unattempted(q) <=> q = r
      BY <3>1 DEF OneUnattempted
    <3>3. StatusOnly(r, "received")
      BY <2>1, <2>2, <3>2 DEF StatusOnly
    <3>4. recordings[r].status = "transcribing" /\ r \notin transcripts
      BY <3>1 DEF Unattempted, Safe, RowsAgree, RowAgrees, Transcribed
    <3>5. Lifecycle!Unclaim(r)
      BY <2>2, <3>3, <3>4, StatusMove DEF Lifecycle!Unclaim, Sink, Accepted
    <3>6. QED
      BY <3>5 DEF Lifecycle!Step
  <2>4. CASE ~\E r \in Recordings : Unattempted(r)
    BY <2>1, <2>2, <2>4, NoMove
  <2>5. QED
    BY <2>3, <2>4
<1>15. CASE \/ Quiet /\ ~SinkReturns
            \/ StartTranscriptionAttempt \/ StartDeliveryAttempt
  <2>1. UNCHANGED <<recordings, transcripts, accepted>>
    BY <1>15 DEF Quiet, NothingReceived, PickDueRetry, NoDueRetry,
         TranscriberReturns, PickRouting, PickDueDelivery, SubmitRequest,
         EndRequest, Crash, Tick, vars, store, StartTranscriptionAttempt,
         StartDeliveryAttempt
  <2>2. QED
    BY <2>1, NoMove
<1>16. QED
  BY <1>1, <1>2, <1>3, <1>4, <1>5, <1>6, <1>7, <1>8, <1>9, <1>10, <1>11,
     <1>12, <1>13, <1>14, <1>15
     DEF Next, ProcessStep, TranscriptionStep, RoutingStep, DeliveryStep,
         AnswerRequest, Quiet, Lifecycle!Step

\* Attempts, clocks, queues, crashes and restarts add no step to the lifecycle
\* a Recording is promised: the pipeline implements it.
THEOREM PipelineImplementsLifecycle == Spec => ImplementsLifecycle
<1>1. Init => Lifecycle!Init /\ OneUnattempted
  <2> SUFFICES ASSUME Init PROVE Lifecycle!Init /\ OneUnattempted
    OBVIOUS
  <2>1. Status = [r \in Recordings |-> "absent"]
    BY DEF Init, AbsentRecording, Status
  <2>2. Sink = [r \in Recordings |-> NoSink]
    BY DEF Init, AbsentRecording, Sink
  <2>3. Transcript = [r \in Recordings |-> FALSE]
    <3>1. /\ Transcript \in [Recordings -> BOOLEAN]
          /\ \A q \in Recordings : Transcript[q] <=> q \in transcripts
      BY Membership DEF Transcript
    <3>2. QED
      BY <3>1, SamePredicate DEF Init
  <2>4. Accepted = [r \in Recordings |-> FALSE]
    <3>1. accepted \in [Recordings -> Nat]
      BY DEF Init
    <3>2. /\ Accepted \in [Recordings -> BOOLEAN]
          /\ \A q \in Recordings : Accepted[q] <=> accepted[q] > 0
      BY <3>1, Positiveness DEF Accepted
    <3>3. QED
      BY <3>2, SamePredicate DEF Init
  <2>5. OneUnattempted
    BY DEF Init, AbsentRecording, OneUnattempted, Unattempted
  <2>6. QED
    BY <2>1, <2>2, <2>3, <2>4, <2>5
       DEF Lifecycle!Init, Status, Sink, Transcript, Accepted
<1>2. Safe /\ OneUnattempted /\ [Next]_vars => OneUnattempted'
  BY OneUnattemptedStep
<1>3. Safe /\ OneUnattempted /\ [Next]_vars
        => [Lifecycle!Next]_(Lifecycle!lifecycleVars)
  BY StepRefines
<1>4. QED
  BY <1>1, <1>2, <1>3, SafeAlways, PTL
     DEF Spec, ImplementsLifecycle, Lifecycle!Spec
=============================================================================

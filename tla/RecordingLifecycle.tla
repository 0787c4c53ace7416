------------------------- MODULE RecordingLifecycle -------------------------
(***************************************************************************)
(* What the Transcription, Routing and Delivery pipeline promises about    *)
(* each Recording, without attempts, clocks, workers or crashes.  The      *)
(* statuses are those of RecordingStatus in src/domain.rs; an edge of      *)
(* can_transition_to is an action here.  The one edge domain.rs does not   *)
(* list, Unclaim, is the startup recovery of a Recording claimed before    *)
(* its first attempt was recorded.                                         *)
(*                                                                         *)
(*   status     the lifecycle state, "absent" before the upload            *)
(*   transcript whether the Transcript is stored                           *)
(*   sink       the selected Sink, NoSink before one is selected           *)
(*   accepted   whether the selected Sink has accepted the payload         *)
(***************************************************************************)
CONSTANTS Recordings, Sinks, NoSink

VARIABLES status, transcript, sink, accepted

lifecycleVars == <<status, transcript, sink, accepted>>

Statuses == {"absent", "received", "transcribing", "routing", "backlogged",
             "delivering", "delivered", "transcription_failed",
             "delivery_failed"}

TypeOK ==
    /\ status \in [Recordings -> Statuses]
    /\ transcript \in [Recordings -> BOOLEAN]
    /\ sink \in [Recordings -> Sinks \cup {NoSink}]
    /\ accepted \in [Recordings -> BOOLEAN]

Init ==
    /\ status = [r \in Recordings |-> "absent"]
    /\ transcript = [r \in Recordings |-> FALSE]
    /\ sink = [r \in Recordings |-> NoSink]
    /\ accepted = [r \in Recordings |-> FALSE]

Move(r, from, to) ==
    /\ status[r] = from
    /\ status' = [status EXCEPT ![r] = to]

\* The upload is acknowledged.
Receive(r) ==
    /\ Move(r, "absent", "received")
    /\ UNCHANGED <<transcript, sink, accepted>>

\* A worker takes the Recording up for its first Transcription Attempt ...
Claim(r) ==
    /\ Move(r, "received", "transcribing")
    /\ UNCHANGED <<transcript, sink, accepted>>

\* ... which a crash may undo, as long as no Transcript came of it.
Unclaim(r) ==
    /\ ~transcript[r]
    /\ Move(r, "transcribing", "received")
    /\ UNCHANGED <<transcript, sink, accepted>>

\* The one Transcript is stored in the step that ends Transcription.
Transcribe(r) ==
    /\ ~transcript[r]
    /\ Move(r, "transcribing", "routing")
    /\ transcript' = [transcript EXCEPT ![r] = TRUE]
    /\ UNCHANGED <<sink, accepted>>

FailTranscription(r) ==
    /\ Move(r, "transcribing", "transcription_failed")
    /\ UNCHANGED <<transcript, sink, accepted>>

RetryTranscription(r) ==
    /\ Move(r, "transcription_failed", "transcribing")
    /\ UNCHANGED <<transcript, sink, accepted>>

Backlog(r) ==
    /\ Move(r, "routing", "backlogged")
    /\ UNCHANGED <<transcript, sink, accepted>>

\* A Sink is selected once, by the rules or by an Operator, for a Recording
\* that has its Transcript.
Select(r) ==
    /\ transcript[r]
    /\ sink[r] = NoSink
    /\ \E from \in {"routing", "backlogged"} : Move(r, from, "delivering")
    /\ \E s \in Sinks : sink' = [sink EXCEPT ![r] = s]
    /\ UNCHANGED <<transcript, accepted>>

\* The Sink accepts the payload; it may do so again on a repeated Delivery.
Accept(r) ==
    /\ status[r] = "delivering"
    /\ accepted' = [accepted EXCEPT ![r] = TRUE]
    /\ UNCHANGED <<status, transcript, sink>>

\* Delivered is claimed only of a payload the Sink has accepted.
Deliver(r) ==
    /\ accepted[r]
    /\ Move(r, "delivering", "delivered")
    /\ UNCHANGED <<transcript, sink, accepted>>

FailDelivery(r) ==
    /\ Move(r, "delivering", "delivery_failed")
    /\ UNCHANGED <<transcript, sink, accepted>>

RetryDelivery(r) ==
    /\ Move(r, "delivery_failed", "delivering")
    /\ UNCHANGED <<transcript, sink, accepted>>

Step(r) ==
    \/ Receive(r) \/ Claim(r) \/ Unclaim(r) \/ Transcribe(r)
    \/ FailTranscription(r) \/ RetryTranscription(r)
    \/ Backlog(r) \/ Select(r)
    \/ Accept(r) \/ Deliver(r) \/ FailDelivery(r) \/ RetryDelivery(r)

Next == \E r \in Recordings : Step(r)

Spec == Init /\ [][Next]_lifecycleVars
=============================================================================

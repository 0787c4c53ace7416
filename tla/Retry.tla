------------------------------- MODULE Retry -------------------------------
(***************************************************************************)
(* The retry policy of src/workers/retry.rs: how long the workers wait     *)
(* after a failed attempt and for how long they keep trying.  Durations    *)
(* are numbers in one common unit.  The schedule and the windows are       *)
(* constants so that a model may scale them: the code has, in minutes,     *)
(* <<1, 5, 15, 60, 360>>, 120, 1440 and 1440.                              *)
(***************************************************************************)
EXTENDS Integers, Sequences

CONSTANTS
    Schedule,        \* backoff after attempt 1, 2, ...; the last entry repeats
    WindowFloor,     \* the shortest Transcription window
    WindowCap,       \* the longest Transcription window
    DELIVERY_WINDOW, \* the Delivery window
    MaxDuration      \* the largest duration the integer type can hold

\* Every delay and window is a natural number and the cap fits the integer.
ASSUME RetryAssumption ==
    /\ Schedule \in Seq(Nat)
    /\ Len(Schedule) > 0
    /\ WindowFloor \in Nat
    /\ WindowCap \in Nat
    /\ DELIVERY_WINDOW \in Nat
    /\ MaxDuration \in Nat
    /\ WindowFloor <= WindowCap
    /\ WindowCap <= MaxDuration

Lesser(a, b) == IF a <= b THEN a ELSE b
Greater(a, b) == IF a <= b THEN b ELSE a

\* Attempt numbers below 1 count as 1, those past the schedule as its end.
backoff(attempt_number) ==
    Schedule[Lesser(Greater(attempt_number, 1), Len(Schedule))]

next_retry_at(last_attempt_finished_at, attempt_number) ==
    last_attempt_finished_at + backoff(attempt_number)

\* i64::saturating_mul(2) on a positive duration.
saturating_double(duration) == Lesser(2 * duration, MaxDuration)

\* A missing duration is passed as a non-positive number.
transcription_window(duration) ==
    LET window == IF duration > 0
                  THEN Greater(WindowFloor, saturating_double(duration))
                  ELSE WindowFloor
    IN  Lesser(window, WindowCap)

transcription_deadline(first_attempt_started_at, duration) ==
    first_attempt_started_at + transcription_window(duration)
=============================================================================

--------------------------- MODULE LoginThrottle ---------------------------
(***************************************************************************)
(* POST /monitor/login: attempts that count the recent failures, wait or   *)
(* are turned away, check their credentials and record a failure or clear  *)
(* them all, any number of them at once over one login_failures table.     *)
(*                                                                         *)
(* Time is relative, so it may run for ever: a row and an attempt carry    *)
(* their age, the time since the clock reading they bear.  An attempt      *)
(* reads the clock once; the row it may record is as old as that reading.  *)
(*                                                                         *)
(* Every attempt has the remote address "unknown" (REMOTE_IP), so each     *)
(* statement's "username = ? OR remote_ip = ?" selects every row and the   *)
(* username only decides whether the credentials can be right.             *)
(* Definitions named Seeded... are faulty forms of the definition they     *)
(* precede; no action uses them.                                           *)
(***************************************************************************)
EXTENDS Integers, FiniteSets

CONSTANTS
    Attempts,        \* login handlers that may run at once
    DelayThreshold,  \* DELAY_THRESHOLD
    LockThreshold,   \* LOCK_THRESHOLD
    Window,          \* THROTTLE_WINDOW, in ticks
    MaxHold,         \* bound on the ticks an attempt may take
    MaxRows          \* bound on the rows some attempt may still count

ASSUME ThrottleAssumption ==
    /\ IsFiniteSet(Attempts)
    /\ DelayThreshold \in Nat
    /\ LockThreshold \in Nat \ {0}
    /\ DelayThreshold <= LockThreshold
    /\ Window \in Nat
    /\ MaxHold \in Nat
    /\ MaxRows \in Nat

VARIABLES
    rows,      \* table login_failures, by row number
    rowAge,    \* how long ago each row's failed_at is
    attempts   \* the handlers: where each is, and how long ago it read the
               \* clock

vars == <<rows, rowAge, attempts>>

RowIds == 1..MaxRows

\* "counting" awaits the COUNT, "delayed" sleeps, "recording" awaits the
\* INSERT of a failure; "opening" and "clearing" are finish_login.
Points == {"idle", "counting", "delayed", "recording", "opening", "clearing"}

TypeOK ==
    /\ rows \subseteq RowIds
    /\ rowAge \in [RowIds -> Nat]
    /\ attempts \in [Attempts -> [pc : Points, age : 0..MaxHold]]

AtRest == [pc |-> "idle", age |-> 0]

Init ==
    /\ rows = {}
    /\ rowAge = [i \in RowIds |-> 0]
    /\ attempts = [q \in Attempts |-> AtRest]

At(q, point) == attempts[q].pc = point

Goto(q, point) == attempts' = [attempts EXCEPT ![q].pc = point]

Finish(q) == attempts' = [attempts EXCEPT ![q] = AtRest]

\* No row older than this is ever counted again.  The table keeps such rows;
\* the model forgets them.
Oldest == Window + MaxHold

\* Time passes for rows and for attempts in flight alike.
Tick ==
    /\ \A q \in Attempts : ~At(q, "idle") => attempts[q].age < MaxHold
    /\ rows' = {i \in rows : rowAge[i] < Oldest}
    /\ rowAge' = [i \in RowIds |->
                     IF i \in rows' THEN rowAge[i] + 1 ELSE 0]
    /\ attempts' = [q \in Attempts |->
                       IF At(q, "idle") THEN attempts[q]
                       ELSE [attempts[q] EXCEPT !.age = @ + 1]]

-----------------------------------------------------------------------------
(* One attempt. *)

\* login_post reads the clock.
Begin(q) ==
    /\ At(q, "idle")
    /\ attempts' = [attempts EXCEPT ![q] = [pc |-> "counting", age |-> 0]]
    /\ UNCHANGED <<rows, rowAge>>

\* count_login_failures_since(now - THROTTLE_WINDOW), for a now that is age
\* ticks ago: failed_at >= since.
Counted(age) == {i \in rows : rowAge[i] <= age + Window}

SeededDecision(count) ==
    IF count > LockThreshold THEN "locked"
    ELSE IF count >= DelayThreshold THEN "delay" ELSE "allow"

decision(count) ==
    IF count >= LockThreshold THEN "locked"
    ELSE IF count >= DelayThreshold THEN "delay" ELSE "allow"

\* verify_credentials, with no await between it and what precedes: right,
\* wrong, or an error of the configured hash, which answers 500.
Verified(q) ==
    \/ Goto(q, "opening")
    \/ Goto(q, "recording")
    \/ Finish(q)

\* What becomes of a locked attempt: 429 and nothing is recorded.
SeededLockedRecords(q) == Goto(q, "recording")

TurnAway(q) == Finish(q)

\* The COUNT answers.
Decide(q) ==
    LET verdict == decision(Cardinality(Counted(attempts[q].age))) IN
    /\ At(q, "counting")
    /\ \/ verdict = "locked" /\ TurnAway(q)
       \/ verdict = "delay" /\ Goto(q, "delayed")
       \/ verdict = "allow" /\ Verified(q)
    /\ UNCHANGED <<rows, rowAge>>

\* The sleep ends.
Wake(q) ==
    /\ At(q, "delayed")
    /\ Verified(q)
    /\ UNCHANGED <<rows, rowAge>>

\* failed_at is the time read at the start, however long ago that is.
SeededFailedAt(q) == attempts[q].age - 1

FailedAt(q) == attempts[q].age

\* record_login_failure
RecordFailure(q) ==
    /\ At(q, "recording")
    /\ \E i \in RowIds \ rows :
        /\ \A j \in RowIds \ rows : i <= j
        /\ rows' = rows \cup {i}
        /\ rowAge' = [rowAge EXCEPT ![i] = FailedAt(q)]
    /\ Finish(q)

\* start_session: the module OperatorSessions.
OpenSession(q) ==
    /\ At(q, "opening")
    /\ Goto(q, "clearing")
    /\ UNCHANGED <<rows, rowAge>>

\* clear_login_failures, and the answer.
ClearFailures(q) ==
    /\ At(q, "clearing")
    /\ rows' = {}
    /\ rowAge' = [i \in RowIds |-> 0]
    /\ Finish(q)

\* A statement fails (the failure of an INSERT is logged and the answer is
\* the same), the client hangs up or the process ends.
Drop(q) ==
    /\ ~At(q, "idle")
    /\ Finish(q)
    /\ UNCHANGED <<rows, rowAge>>

\* A handler that has begun goes on.
Proceed(q) ==
    \/ Decide(q)
    \/ Wake(q)
    \/ RecordFailure(q)
    \/ OpenSession(q)
    \/ ClearFailures(q)

Next ==
    \/ Tick
    \/ \E q \in Attempts : Begin(q) \/ Proceed(q) \/ Drop(q)

(***************************************************************************)
(* Time passes, statements answer and timers fire; nobody has to try to    *)
(* log in, and anybody may do so without end.                              *)
(***************************************************************************)
Fairness ==
    /\ WF_vars(Tick)
    /\ \A q \in Attempts : WF_vars(Proceed(q))

Spec == Init /\ [][Next]_vars /\ Fairness

-----------------------------------------------------------------------------
(* Properties. *)

\* The failures that count for an attempt that begins now.
Recent == Counted(0)

\* The attempts that have passed the check and may yet record a failure.
Passed == {q \in Attempts : ~(At(q, "idle") \/ At(q, "counting"))}

(***************************************************************************)
(* The check is not atomic with the record, so the lock is overshot, but   *)
(* by no more than the attempts that run at once: failures in a window and *)
(* attempts past the check never exceed LockThreshold - 1 by more than     *)
(* that.  (login_post, count_login_failures_since, record_login_failure)   *)
(***************************************************************************)
OvershootBounded ==
    Cardinality(Recent) + Cardinality(Passed)
        <= LockThreshold - 1 + Cardinality(Attempts)

(***************************************************************************)
(* "The lock lifts automatically as old failures age out of the window"    *)
(* (throttle.rs), though attempts keep coming and failures recorded late   *)
(* bear early times: a locked attempt adds no failure.                     *)
(***************************************************************************)
Locked == decision(Cardinality(Recent)) = "locked"

LockLifts == Locked ~> ~Locked
=============================================================================

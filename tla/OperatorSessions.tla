-------------------------- MODULE OperatorSessions --------------------------
(***************************************************************************)
(* The Operator's sessions on the monitor: logins that mint them, requests *)
(* that are let in by them and move their idle deadline, logouts that end  *)
(* them, any number of these at once over one operator_sessions table.     *)
(*                                                                         *)
(* A handler reads the clock once, then awaits a read of the session's     *)
(* row, then awaits an UPDATE of it: what it decides on is as old as its   *)
(* slowest wait.  One action is one SQL statement or one step between two. *)
(* A handler may be dropped at any of its awaits (Drop): by a client that  *)
(* hung up or a process that ended, and any statement may fail.            *)
(*                                                                         *)
(* A token stands for its hash, and for the CSRF token derived from it.    *)
(* The throttle in front of a login is the module LoginThrottle.           *)
(* Definitions named Seeded... are faulty forms of the definition they     *)
(* precede; no action uses them.                                           *)
(***************************************************************************)
EXTENDS Integers

CONSTANTS
    Tokens,       \* session tokens, each minted by at most one login
    NoToken,      \* a handler that works for no session yet
    Requests,     \* handlers that may run at once
    IdleTtl,      \* IDLE_TTL
    AbsoluteTtl,  \* ABSOLUTE_TTL
    MaxTime       \* bound on the clock

ASSUME SessionAssumption ==
    /\ NoToken \notin Tokens
    /\ IdleTtl \in Nat \ {0}
    /\ AbsoluteTtl \in Nat
    /\ IdleTtl <= AbsoluteTtl
    /\ MaxTime \in Nat

VARIABLES
    clock,     \* Clock::now()
    sessions,  \* table operator_sessions, by token
    cookies,   \* the tokens some browser holds
    requests,  \* the handlers: where each is, what it has read
    activity   \* history: per session, when it was created and when the
               \* requests it let in arrived

vars == <<clock, sessions, cookies, requests, activity>>

\* revoked_at IS NULL
Unset == -1

Row(created, seen, idle, absolute, revoked) ==
    [created |-> created, lastSeen |-> seen, idleExpires |-> idle,
     absoluteExpires |-> absolute, revoked |-> revoked]

\* No row bears the token's hash yet.
NoRow == [created |-> Unset]

Rows == [created : Nat, lastSeen : Nat, idleExpires : Nat,
         absoluteExpires : Nat, revoked : Nat \cup {Unset}]

\* "login" has verified its credentials; "clearing" and "granting" are the
\* rest of finish_login.  "reading" awaits get_session, "touching" awaits
\* touch_session, "admitted" is past require_session; "revoking" and
\* "revoked" are the rest of logout_post.
Points == {"idle", "login", "clearing", "granting", "reading", "touching",
           "admitted", "revoking", "revoked"}

\* A page, a state-changing POST with a CSRF token, or the logout POST.
Kinds == {"page", "action", "logout"}

Exists(t) == sessions[t] # NoRow

TypeOK ==
    /\ clock \in Nat
    /\ sessions \in [Tokens -> Rows \cup {NoRow}]
    /\ cookies \subseteq {t \in Tokens : Exists(t)}
    /\ requests \in [Requests -> [pc : Points, kind : Kinds,
                                  token : Tokens \cup {NoToken},
                                  now : Nat, cap : Nat, at : Nat]]
    /\ activity \in [Tokens -> SUBSET Nat]

AtRest == [pc |-> "idle", kind |-> "page", token |-> NoToken,
           now |-> 0, cap |-> 0, at |-> 0]

Init ==
    /\ clock = 0
    /\ sessions = [t \in Tokens |-> NoRow]
    /\ cookies = {}
    /\ requests = [q \in Requests |-> AtRest]
    /\ activity = [t \in Tokens |-> {}]

Tick ==
    /\ clock < MaxTime
    /\ clock' = clock + 1
    /\ UNCHANGED <<sessions, cookies, requests, activity>>

At(q, point) == requests[q].pc = point

Goto(q, point) == requests' = [requests EXCEPT ![q].pc = point]

\* The handler has answered, or is no more.
Finish(q) == requests' = [requests EXCEPT ![q] = AtRest]

-----------------------------------------------------------------------------
(* Logins. *)

\* login_post reads the clock first; the throttle's wait and the password
\* hash come between this time and the row that bears it.
BeginLogin(q) ==
    /\ At(q, "idle")
    /\ requests' = [requests EXCEPT ![q] = [AtRest EXCEPT !.pc = "login",
                                                          !.now = clock]]
    /\ UNCHANGED <<clock, sessions, cookies, activity>>

\* start_session
CreateSession(q, t) ==
    LET now == requests[q].now IN
    /\ At(q, "login")
    /\ ~Exists(t)
    /\ sessions' = [sessions EXCEPT ![t] =
           Row(now, now, now + IdleTtl, now + AbsoluteTtl, Unset)]
    /\ activity' = [activity EXCEPT ![t] = {now}]
    /\ requests' = [requests EXCEPT ![q].pc = "clearing", ![q].token = t]
    /\ UNCHANGED <<clock, cookies>>

SeededLoginWithoutSession(q) ==
    /\ At(q, "login")
    /\ Goto(q, "granting")
    /\ UNCHANGED <<clock, sessions, cookies, activity>>

\* clear_login_failures succeeds; should it fail, the handler answers 500
\* and the new session's row stays, known to nobody (Drop).
ClearFailures(q) ==
    /\ At(q, "clearing")
    /\ Goto(q, "granting")
    /\ UNCHANGED <<clock, sessions, cookies, activity>>

\* The answer with its Set-Cookie arrives.
GrantCookie(q) ==
    /\ At(q, "granting")
    /\ cookies' = cookies \cup {requests[q].token}
    /\ Finish(q)
    /\ UNCHANGED <<clock, sessions, activity>>

-----------------------------------------------------------------------------
(* Authentication: require_session, and the same calls in login_get. *)

BeginRequest(q, t, kind) ==
    /\ At(q, "idle")
    /\ t \in cookies
    /\ requests' = [requests EXCEPT ![q] =
           [pc |-> "reading", kind |-> kind, token |-> t,
            now |-> clock, cap |-> 0, at |-> 0]]
    /\ UNCHANGED <<clock, sessions, cookies, activity>>

\* evaluate_session: revoked before absolute before idle; only Active is
\* told apart from the rest by its callers.
SeededNoIdle(row, now) ==
    /\ row.revoked = Unset
    /\ now < row.absoluteExpires

Active(row, now) ==
    /\ row.revoked = Unset
    /\ now < row.absoluteExpires
    /\ now < row.idleExpires

\* get_session answers and the row is judged.
ReadSession(q) ==
    LET row == sessions[requests[q].token] IN
    /\ At(q, "reading")
    /\ IF Active(row, requests[q].now)
       THEN requests' = [requests EXCEPT ![q].pc = "touching",
                                         ![q].cap = row.absoluteExpires]
       ELSE Finish(q)
    /\ UNCHANGED <<clock, sessions, cookies, activity>>

Sooner(a, b) == IF a <= b THEN a ELSE b

\* The row touch_session leaves, for a handler that read the clock at now
\* and the absolute deadline as cap.
SeededUncappedTouch(row, now, cap) ==
    [row EXCEPT !.lastSeen = now, !.idleExpires = now + IdleTtl]

Touched(row, now, cap) ==
    [row EXCEPT !.lastSeen = now,
                !.idleExpires = Sooner(now + IdleTtl, cap)]

\* touch_session: WHERE revoked_at IS NULL, and rows_affected decides.
SeededTouchAny(row) == TRUE

Touchable(row) == row.revoked = Unset

TouchSession(q) ==
    LET r == requests[q]
        row == sessions[r.token]
    IN
    /\ At(q, "touching")
    /\ IF Touchable(row)
       THEN /\ sessions' = [sessions EXCEPT ![r.token] =
                                Touched(row, r.now, r.cap)]
            /\ activity' = [activity EXCEPT ![r.token] = @ \cup {r.now}]
            /\ Goto(q, "admitted")
       ELSE /\ Finish(q)
            /\ UNCHANGED <<sessions, activity>>
    /\ UNCHANGED <<clock, cookies>>

-----------------------------------------------------------------------------
(* What an admitted request does. *)

\* A page is rendered, or an action's own transaction runs: neither looks
\* at the session again.  The effects are those of the module Pipeline.
Serve(q) ==
    /\ At(q, "admitted")
    /\ requests[q].kind \in {"page", "action"}
    /\ Finish(q)
    /\ UNCHANGED <<clock, sessions, cookies, activity>>

\* The form's CSRF token is missing or of another session: 403.
Forbid(q) ==
    /\ At(q, "admitted")
    /\ requests[q].kind \in {"action", "logout"}
    /\ Finish(q)
    /\ UNCHANGED <<clock, sessions, cookies, activity>>

\* logout_post with the right CSRF token reads the clock a second time.
BeginLogout(q) ==
    /\ At(q, "admitted")
    /\ requests[q].kind = "logout"
    /\ requests' = [requests EXCEPT ![q].pc = "revoking", ![q].at = clock]
    /\ UNCHANGED <<clock, sessions, cookies, activity>>

\* revoke_session: WHERE revoked_at IS NULL.
SeededRevokeAny(row, at) == [row EXCEPT !.revoked = at]

Revoked(row, at) ==
    IF row.revoked = Unset THEN [row EXCEPT !.revoked = at] ELSE row

RevokeSession(q) ==
    LET r == requests[q] IN
    /\ At(q, "revoking")
    /\ sessions' = [sessions EXCEPT ![r.token] = Revoked(@, r.at)]
    /\ Goto(q, "revoked")
    /\ UNCHANGED <<clock, cookies, activity>>

\* The answer with the cleared cookie arrives.
ClearCookie(q) ==
    /\ At(q, "revoked")
    /\ cookies' = cookies \ {requests[q].token}
    /\ Finish(q)
    /\ UNCHANGED <<clock, sessions, activity>>

-----------------------------------------------------------------------------
(* A statement fails, the client hangs up, the process ends, or an answer  *)
(* is lost: the handler stops where it stands and nobody cleans up.        *)
Drop(q) ==
    /\ ~At(q, "idle")
    /\ Finish(q)
    /\ UNCHANGED <<clock, sessions, cookies, activity>>

Step(q) ==
    \/ BeginLogin(q)
    \/ \E t \in Tokens : CreateSession(q, t)
    \/ ClearFailures(q)
    \/ GrantCookie(q)
    \/ \E t \in Tokens, kind \in Kinds : BeginRequest(q, t, kind)
    \/ ReadSession(q)
    \/ TouchSession(q)
    \/ Serve(q)
    \/ Forbid(q)
    \/ BeginLogout(q)
    \/ RevokeSession(q)
    \/ ClearCookie(q)
    \/ Drop(q)

Next == Tick \/ \E q \in Requests : Step(q)

Spec == Init /\ [][Next]_vars

-----------------------------------------------------------------------------
(* Properties. *)

(***************************************************************************)
(* A session unused for IdleTtl is dead: whoever it lets in arrived within *)
(* IdleTtl of the login, or of an earlier arrival it let in.  Handlers     *)
(* write the deadline from clocks read before they waited, in any order,   *)
(* and a late write may move it back; no such order opens a gap.           *)
(* (authenticate, evaluate_session)                                        *)
(***************************************************************************)
NoIdleGap ==
    \A t \in Tokens : Exists(t) =>
        \A a \in activity[t] :
            \/ a = sessions[t].created
            \/ \E b \in activity[t] : b < a /\ a < b + IdleTtl

(***************************************************************************)
(* The row a session's handlers leave is always one that some prefix of    *)
(* its use explains: last seen at an arrival it let in (or its login), its *)
(* idle deadline following from that and never past the absolute one, the  *)
(* time of its revocation not before that of the login.                    *)
(* (start_session, touch_session, revoke_session)                          *)
(***************************************************************************)
RowsCohere ==
    \A t \in Tokens : Exists(t) =>
        LET row == sessions[t] IN
        /\ row.created \in activity[t]
        /\ row.lastSeen \in activity[t]
        /\ row.absoluteExpires = row.created + AbsoluteTtl
        /\ row.idleExpires = Sooner(row.lastSeen + IdleTtl,
                                    row.absoluteExpires)
        /\ row.revoked # Unset => row.created <= row.revoked
        /\ \A a \in activity[t] : row.created <= a /\ a <= clock

(***************************************************************************)
(* A logout is final: once revoked_at is set no handler, whatever it read  *)
(* before, changes the row again, and its first time stands.               *)
(* (the guards revoked_at IS NULL of touch_session and revoke_session)     *)
(***************************************************************************)
RevokedRowsFrozen ==
    [][\A t \in Tokens : Exists(t) /\ sessions[t].revoked # Unset =>
           sessions'[t] = sessions[t]]_vars

(***************************************************************************)
(* Reading, judging and touching a session in three steps lets in nobody   *)
(* whom one indivisible check at the touch would not: the handlers         *)
(* implement SessionGate.  In particular no request is let in after the    *)
(* logout's UPDATE, however early it read the row, nor one that arrived at *)
(* or past the absolute deadline.  What a request admitted before the      *)
(* logout goes on to do is not cut short.                                  *)
(***************************************************************************)
GateState(t) == IF ~Exists(t) THEN "shut"
                ELSE IF sessions[t].revoked = Unset THEN "open" ELSE "closed"

OpenedAt(t) == IF Exists(t) THEN sessions[t].created ELSE 0

Inside == {"admitted", "revoking", "revoked"}

AskedBy(q) ==
    LET r == requests[q] IN
    IF r.pc \in {"reading", "touching"} \cup Inside
    THEN [asks |-> TRUE, token |-> r.token, since |-> r.now]
    ELSE [asks |-> FALSE]

Gate == INSTANCE SessionGate WITH
    Lifetime <- AbsoluteTtl,
    time <- clock,
    gates <- [t \in Tokens |-> GateState(t)],
    opened <- [t \in Tokens |-> OpenedAt(t)],
    asking <- [q \in Requests |-> AskedBy(q)],
    admitted <- {q \in Requests : requests[q].pc \in Inside}

ImplementsGate == Gate!Spec
=============================================================================

--------------------------- MODULE SessionProofs ---------------------------
(***************************************************************************)
(* Theorems about OperatorSessions for every set of tokens and handlers    *)
(* and all lifetimes.                                                      *)
(*                                                                         *)
(* The inductive invariant is Inv: beside the coherence of rows it keeps,  *)
(* for each handler, what it has learnt that later writes cannot undo      *)
(* (HandlerInv), and that every time below some arrival's window lies in   *)
(* the window of an arrival before it (Covered), which is NoIdleGap made   *)
(* strong enough to survive a late write.                                  *)
(***************************************************************************)
EXTENDS OperatorSessions, TLAPS

\* A handler that holds the token of a session.
Holds(q) == requests[q].pc \notin {"idle", "login"}

Asks(q) == requests[q].pc \in {"reading", "touching"} \cup Inside

\* What the handler at q knows, and no other handler's write can change.
HandlerInv(q) ==
    LET r == requests[q] IN
    /\ r.now <= clock
    /\ Holds(q) => r.token \in Tokens /\ Exists(r.token)
    /\ Asks(q) => sessions[r.token].created <= r.now
    /\ r.pc = "touching" =>
        /\ r.cap = sessions[r.token].absoluteExpires
        /\ r.now < r.cap
        /\ \E s \in activity[r.token] : r.now < s + IdleTtl
    /\ r.pc = "revoking" => sessions[r.token].created <= r.at

\* Every time after the login that some arrival's window reaches lies in
\* the window of an earlier arrival.
Covered(t) ==
    \A x \in Nat, s \in activity[t] :
        sessions[t].created < x /\ x < s + IdleTtl =>
            \E b \in activity[t] : b < x /\ x < b + IdleTtl

RowInv(t) ==
    LET row == sessions[t] IN
    /\ row.created \in activity[t]
    /\ row.lastSeen \in activity[t]
    /\ row.absoluteExpires = row.created + AbsoluteTtl
    /\ row.idleExpires = Sooner(row.lastSeen + IdleTtl, row.absoluteExpires)
    /\ row.revoked # Unset => row.created <= row.revoked
    /\ \A a \in activity[t] : row.created <= a /\ a <= clock

Inv ==
    /\ TypeOK
    /\ \A t \in Tokens : Exists(t) => RowInv(t) /\ Covered(t)
    /\ \A q \in Requests : HandlerInv(q)

-----------------------------------------------------------------------------
(* Types. *)

\* A row that exists is a full row.
LEMMA ExistingRow ==
    ASSUME TypeOK, NEW t \in Tokens
    PROVE  /\ Exists(t) <=> sessions[t] \in Rows
           /\ ~Exists(t) => sessions[t] = NoRow
<1>1. NoRow \notin Rows
    BY SMT DEF NoRow, Rows, Unset
<1>2. QED
    BY <1>1 DEF TypeOK, Exists

\* The rows the statements write are rows.
LEMMA RowTypes ==
    ASSUME NEW row \in Rows, NEW n \in Nat, NEW c \in Nat
    PROVE  /\ Touched(row, n, c) \in Rows
           /\ Revoked(row, n) \in Rows
<1>1. Sooner(n + IdleTtl, c) \in Nat
    BY SessionAssumption DEF Sooner
<1>2. Touched(row, n, c) \in Rows
    BY <1>1 DEF Rows, Touched
<1>3. Revoked(row, n) \in Rows
    BY DEF Rows, Revoked
<1>4. QED
    BY <1>2, <1>3

\* The type invariant holds at the start.
LEMMA TypeInit == Init => TypeOK
BY SMT DEF Init, TypeOK, AtRest, Points, Kinds, NoRow, Exists

\* Every step keeps the type invariant: a cookie always names a row, and a
\* handler past its login always names a session.
LEMMA TypeStep ==
    ASSUME Inv, [Next]_vars
    PROVE  TypeOK'
<1>0. TypeOK /\ \A q \in Requests : HandlerInv(q)
    BY DEF Inv
<1> USE SessionAssumption
<1>1. CASE Tick
    BY <1>0, <1>1 DEF Tick, TypeOK, Exists
<1>2. ASSUME NEW q \in Requests, BeginLogin(q)
      PROVE  TypeOK'
    BY <1>0, <1>2 DEF BeginLogin, TypeOK, Exists, AtRest, Points, Kinds
<1>3. ASSUME NEW q \in Requests, NEW t \in Tokens, CreateSession(q, t)
      PROVE  TypeOK'
    <2>1. requests[q].now \in Nat
        BY <1>0 DEF TypeOK
    <2>2. Row(requests[q].now, requests[q].now, requests[q].now + IdleTtl,
              requests[q].now + AbsoluteTtl, Unset) \in Rows
        BY <2>1 DEF Row, Rows
    <2>3. sessions' \in [Tokens -> Rows \cup {NoRow}]
        BY <1>0, <1>3, <2>2 DEF CreateSession, TypeOK
    <2>4. cookies' \subseteq {u \in Tokens : Exists(u)'}
        BY <1>0, <1>3 DEF CreateSession, TypeOK, Exists
    <2>5. /\ clock' \in Nat
          /\ activity' \in [Tokens -> SUBSET Nat]
        BY <1>0, <1>3, <2>1 DEF CreateSession, TypeOK
    <2>6. requests' \in [Requests -> [pc : Points, kind : Kinds,
                                      token : Tokens \cup {NoToken},
                                      now : Nat, cap : Nat, at : Nat]]
        BY <1>0, <1>3 DEF CreateSession, TypeOK, Points
    <2>7. QED
        BY <2>3, <2>4, <2>5, <2>6 DEF TypeOK
<1>4. ASSUME NEW q \in Requests, ClearFailures(q)
      PROVE  TypeOK'
    BY <1>0, <1>4 DEF ClearFailures, Goto, TypeOK, Exists, Points
<1>5. ASSUME NEW q \in Requests, GrantCookie(q)
      PROVE  TypeOK'
    BY <1>0, <1>5 DEF GrantCookie, Finish, At, HandlerInv, Holds, TypeOK,
       Exists, AtRest, Points, Kinds
<1>6. ASSUME NEW q \in Requests, NEW t \in Tokens, NEW kind \in Kinds,
             BeginRequest(q, t, kind)
      PROVE  TypeOK'
    BY <1>0, <1>6 DEF BeginRequest, TypeOK, Exists, Points
<1>7. ASSUME NEW q \in Requests, ReadSession(q)
      PROVE  TypeOK'
    <2>1. sessions[requests[q].token] \in Rows
        BY <1>0, <1>7, ExistingRow DEF ReadSession, At, HandlerInv, Holds
    <2>2. sessions[requests[q].token].absoluteExpires \in Nat
        BY <2>1 DEF Rows
    <2>3. requests' \in [Requests -> [pc : Points, kind : Kinds,
                                      token : Tokens \cup {NoToken},
                                      now : Nat, cap : Nat, at : Nat]]
        BY <1>0, <1>7, <2>2 DEF ReadSession, Finish, AtRest, TypeOK, Points,
           Kinds
    <2>4. QED
        BY <1>0, <1>7, <2>3 DEF ReadSession, TypeOK, Exists
<1>8. ASSUME NEW q \in Requests, TouchSession(q)
      PROVE  TypeOK'
    <2> DEFINE r == requests[q]
    <2>1. /\ sessions[r.token] \in Rows
          /\ r.token \in Tokens
          /\ r.now \in Nat
          /\ r.cap \in Nat
        BY <1>0, <1>8, ExistingRow
           DEF TouchSession, At, HandlerInv, Holds, TypeOK
    <2>2. Touched(sessions[r.token], r.now, r.cap) \in Rows
        BY <2>1, RowTypes
    <2>3. sessions' \in [Tokens -> Rows \cup {NoRow}]
        BY <1>0, <1>8, <2>2 DEF TouchSession, TypeOK
    <2>4. Touched(sessions[r.token], r.now, r.cap) # NoRow
        BY <2>2, SMT DEF Rows, NoRow, Unset
    <2>5. cookies' \subseteq {u \in Tokens : Exists(u)'}
        BY <1>0, <1>8, <2>4 DEF TouchSession, TypeOK, Exists
    <2>6. activity' \in [Tokens -> SUBSET Nat]
        BY <1>0, <1>8, <2>1 DEF TouchSession, TypeOK
    <2>7. requests' \in [Requests -> [pc : Points, kind : Kinds,
                                      token : Tokens \cup {NoToken},
                                      now : Nat, cap : Nat, at : Nat]]
        BY <1>0, <1>8 DEF TouchSession, Finish, Goto, AtRest, TypeOK, Points,
           Kinds
    <2>8. clock' \in Nat
        BY <1>0, <1>8 DEF TouchSession, TypeOK
    <2>9. QED
        BY <2>3, <2>5, <2>6, <2>7, <2>8 DEF TypeOK
<1>9. ASSUME NEW q \in Requests, Serve(q) \/ Forbid(q) \/ Drop(q)
      PROVE  TypeOK'
    BY <1>0, <1>9 DEF Serve, Forbid, Drop, Finish, TypeOK, Exists, AtRest,
       Points, Kinds
<1>10. ASSUME NEW q \in Requests, BeginLogout(q)
       PROVE  TypeOK'
    BY <1>0, <1>10 DEF BeginLogout, TypeOK, Exists, Points
<1>11. ASSUME NEW q \in Requests, RevokeSession(q)
       PROVE  TypeOK'
    <2> DEFINE r == requests[q]
    <2>1. /\ sessions[r.token] \in Rows
          /\ r.token \in Tokens
          /\ r.at \in Nat
        BY <1>0, <1>11, ExistingRow
           DEF RevokeSession, At, HandlerInv, Holds, TypeOK
    <2>2. Revoked(sessions[r.token], r.at) \in Rows
        BY <2>1, RowTypes
    <2>3. sessions' \in [Tokens -> Rows \cup {NoRow}]
        BY <1>0, <1>11, <2>2 DEF RevokeSession, TypeOK
    <2>4. Revoked(sessions[r.token], r.at) # NoRow
        BY <2>2, SMT DEF Rows, NoRow, Unset
    <2>5. cookies' \subseteq {u \in Tokens : Exists(u)'}
        BY <1>0, <1>11, <2>4 DEF RevokeSession, TypeOK, Exists
    <2>6. requests' \in [Requests -> [pc : Points, kind : Kinds,
                                      token : Tokens \cup {NoToken},
                                      now : Nat, cap : Nat, at : Nat]]
        BY <1>0, <1>11 DEF RevokeSession, Goto, TypeOK, Points
    <2>7. QED
        BY <1>0, <1>11, <2>3, <2>5, <2>6 DEF RevokeSession, TypeOK
<1>12. ASSUME NEW q \in Requests, ClearCookie(q)
       PROVE  TypeOK'
    BY <1>0, <1>12 DEF ClearCookie, Finish, TypeOK, Exists, AtRest, Points,
       Kinds
<1>13. CASE UNCHANGED vars
    BY <1>0, <1>13 DEF vars, TypeOK, Exists
<1>14. QED
    BY <1>1, <1>2, <1>3, <1>4, <1>5, <1>6, <1>7, <1>8, <1>9, <1>10, <1>11,
       <1>12, <1>13 DEF Next, Step

-----------------------------------------------------------------------------
(* The inductive invariant. *)

LEMMA InvInit == Init => Inv
<1> SUFFICES ASSUME Init PROVE Inv
    OBVIOUS
<1>1. TypeOK
    BY TypeInit
<1>2. \A t \in Tokens : ~Exists(t)
    BY DEF Init, Exists
<1>3. \A q \in Requests : HandlerInv(q)
    BY SMT DEF Init, AtRest, HandlerInv, Holds, Asks, Inside
<1>4. QED
    BY <1>1, <1>2, <1>3 DEF Inv

\* A step that writes no session leaves the rows' part of the invariant.
LEMMA RowsKept ==
    ASSUME Inv, TypeOK', sessions' = sessions, activity' = activity,
           clock <= clock', NEW t \in Tokens, Exists(t)'
    PROVE  (RowInv(t) /\ Covered(t))'
<1>1. Exists(t) /\ RowInv(t) /\ Covered(t)
    BY DEF Inv, Exists
<1>2. clock \in Nat /\ clock' \in Nat /\ activity[t] \subseteq Nat
    BY DEF Inv, TypeOK
<1>3. sessions[t] \in Rows
    BY <1>1, ExistingRow DEF Inv
<1>4. RowInv(t)'
    BY <1>1, <1>2, <1>3, SMT DEF RowInv, Rows
<1>5. Covered(t)'
    BY <1>1 DEF Covered
<1>6. QED
    BY <1>4, <1>5

\* What a handler knows outlives every step that leaves the handler alone:
\* rows keep their login time and absolute deadline, activity only grows.
LEMMA KnowledgeKept ==
    ASSUME Inv, NEW p \in Requests, requests'[p] = requests[p],
           clock <= clock', clock' \in Nat,
           \A t \in Tokens : Exists(t) =>
               /\ Exists(t)'
               /\ sessions'[t].created = sessions[t].created
               /\ sessions'[t].absoluteExpires = sessions[t].absoluteExpires
               /\ activity[t] \subseteq activity'[t]
    PROVE  HandlerInv(p)'
<1>1. HandlerInv(p) /\ requests[p].now \in Nat /\ clock \in Nat
    BY DEF Inv, TypeOK
<1>2. Holds(p)' <=> Holds(p)
    BY DEF Holds
<1>3. Asks(p)' <=> Asks(p)
    BY DEF Asks
<1>4. (requests[p].now <= clock)'
    BY <1>1 DEF HandlerInv
<1>5. Holds(p) => /\ requests[p].token \in Tokens
                  /\ Exists(requests[p].token)
    BY <1>1 DEF HandlerInv
<1>6. (requests[p].pc \in {"touching", "revoking"}) \/ Asks(p) => Holds(p)
    BY DEF Holds, Asks, Inside
<1>7. (requests[p].pc = "touching" =>
          /\ requests[p].cap = sessions[requests[p].token].absoluteExpires
          /\ requests[p].now < requests[p].cap
          /\ \E s \in activity[requests[p].token] :
                 requests[p].now < s + IdleTtl)'
    BY <1>1, <1>5, <1>6 DEF HandlerInv
<1>8. (requests[p].pc = "revoking" =>
          sessions[requests[p].token].created <= requests[p].at)'
    BY <1>1, <1>5, <1>6 DEF HandlerInv
<1>9. (Asks(p) => sessions[requests[p].token].created <= requests[p].now)'
    BY <1>1, <1>3, <1>5, <1>6 DEF HandlerInv
<1>10. (Holds(p) => /\ requests[p].token \in Tokens
                    /\ Exists(requests[p].token))'
    BY <1>2, <1>5
<1>11. QED
    BY <1>4, <1>7, <1>8, <1>9, <1>10 DEF HandlerInv

\* A step of q that writes no session: its own knowledge is all there is
\* to check.
LEMMA QuietStep ==
    ASSUME Inv, TypeOK', NEW q \in Requests,
           UNCHANGED <<clock, sessions, activity>>,
           \A p \in Requests \ {q} : requests'[p] = requests[p],
           HandlerInv(q)'
    PROVE  Inv'
<1>0. clock \in Nat /\ clock' = clock
    BY DEF Inv, TypeOK
<1>1. \A t \in Tokens : Exists(t)' => (RowInv(t) /\ Covered(t))'
    BY <1>0, RowsKept
<1>2. ASSUME NEW p \in Requests, p # q
      PROVE  HandlerInv(p)'
    BY <1>0, <1>2, KnowledgeKept DEF Exists
<1>3. QED
    BY <1>1, <1>2 DEF Inv

\* A handler at rest knows nothing.
LEMMA RestKnows ==
    ASSUME NEW q \in Requests, clock' \in Nat, requests'[q] = AtRest
    PROVE  HandlerInv(q)'
BY SMT DEF AtRest, HandlerInv, Holds, Asks, Inside

\* A new row covers every time in its first window.
LEMMA CreateStep ==
    ASSUME Inv, TypeOK', NEW q \in Requests, NEW t \in Tokens,
           CreateSession(q, t)
    PROVE  Inv'
<1> DEFINE now == requests[q].now
<1>0. /\ now \in Nat /\ clock \in Nat /\ now <= clock /\ clock' = clock
      /\ ~Exists(t)
      /\ sessions' = [sessions EXCEPT ![t] =
             Row(now, now, now + IdleTtl, now + AbsoluteTtl, Unset)]
      /\ activity' = [activity EXCEPT ![t] = {now}]
      /\ requests' = [requests EXCEPT ![q].pc = "clearing", ![q].token = t]
      /\ IdleTtl \in Nat \ {0} /\ AbsoluteTtl \in Nat
      /\ IdleTtl <= AbsoluteTtl
    BY SessionAssumption DEF Inv, TypeOK, CreateSession, HandlerInv
<1>1. /\ sessions'[t] = Row(now, now, now + IdleTtl, now + AbsoluteTtl, Unset)
      /\ activity'[t] = {now}
    BY <1>0 DEF Inv, TypeOK
<1>2. \A u \in Tokens \ {t} : /\ sessions'[u] = sessions[u]
                              /\ activity'[u] = activity[u]
    BY <1>0 DEF Inv, TypeOK
<1>3. RowInv(t)'
    BY <1>0, <1>1 DEF RowInv, Row, Sooner
<1>4. Covered(t)'
    BY <1>0, <1>1 DEF Covered, Row
<1>5. ASSUME NEW u \in Tokens, Exists(u)'
      PROVE  (RowInv(u) /\ Covered(u))'
    <2>1. CASE u = t
        BY <1>3, <1>4, <2>1
    <2>2. CASE u # t
        <3>1. Exists(u) /\ RowInv(u) /\ Covered(u)
            BY <1>2, <1>5, <2>2 DEF Inv, Exists
        <3>2. QED
            BY <1>0, <1>2, <2>2, <3>1 DEF RowInv, Covered
    <2>3. QED
        BY <2>1, <2>2
<1>6. Exists(t)'
    BY <1>1, SMT DEF Exists, Row, NoRow, Unset
<1>7. \A u \in Tokens : Exists(u) =>
          /\ Exists(u)'
          /\ sessions'[u].created = sessions[u].created
          /\ sessions'[u].absoluteExpires = sessions[u].absoluteExpires
          /\ activity[u] \subseteq activity'[u]
    BY <1>0, <1>2 DEF Exists
<1>8. ASSUME NEW p \in Requests
      PROVE  HandlerInv(p)'
    <2>1. CASE p = q
        <3>1. /\ requests'[q].pc = "clearing" /\ requests'[q].token = t
              /\ requests'[q].now = now
            BY <1>0 DEF Inv, TypeOK
        <3>2. QED
            BY <1>0, <1>6, <2>1, <3>1, SMT
               DEF HandlerInv, Holds, Asks, Inside
    <2>2. CASE p # q
        <3>1. requests'[p] = requests[p]
            BY <1>0, <2>2 DEF Inv, TypeOK
        <3>2. QED
            <4>1. clock <= clock' /\ clock' \in Nat
                BY <1>0
            <4>2. QED
                BY <1>7, <3>1, <4>1, KnowledgeKept
    <2>3. QED
        BY <2>1, <2>2
<1>9. QED
    BY <1>5, <1>8 DEF Inv

\* A touch, however late, leaves a coherent row and every time covered: a
\* time in the new arrival's window lies past the arrival, or is it, or
\* comes before it and lies in a window that reached the arrival.
LEMMA TouchStep ==
    ASSUME Inv, TypeOK', NEW q \in Requests, TouchSession(q)
    PROVE  Inv'
<1> DEFINE r == requests[q]
<1>t. PICK t \in Tokens : t = r.token
    BY DEF Inv, HandlerInv, Holds, TouchSession, At
<1> DEFINE row == sessions[t]
<1>1. CASE ~Touchable(row)
    <2>1. /\ UNCHANGED <<clock, sessions, activity>>
          /\ \A p \in Requests \ {q} : requests'[p] = requests[p]
          /\ requests'[q] = AtRest
        BY <1>1, <1>t DEF TouchSession, Finish, Inv, TypeOK
    <2>2. HandlerInv(q)'
        BY <2>1, RestKnows DEF Inv, TypeOK
    <2>3. QED
        BY <2>1, <2>2, QuietStep
<1>2. CASE Touchable(row)
    <2>0. /\ r.now \in Nat /\ r.cap \in Nat /\ clock \in Nat
          /\ clock' = clock
          /\ r.pc = "touching"
          /\ sessions' = [sessions EXCEPT ![t] = Touched(row, r.now, r.cap)]
          /\ activity' = [activity EXCEPT ![t] = @ \cup {r.now}]
          /\ requests' = [requests EXCEPT ![q].pc = "admitted"]
          /\ IdleTtl \in Nat \ {0} /\ AbsoluteTtl \in Nat
        BY <1>2, <1>t, SessionAssumption
           DEF Inv, TypeOK, TouchSession, At, Goto
    <2>1. /\ t \in Tokens /\ Exists(t)
          /\ r.now <= clock
          /\ row.created <= r.now
          /\ r.cap = row.absoluteExpires
          /\ r.now < r.cap
          /\ \E s \in activity[t] : r.now < s + IdleTtl
        BY <2>0, <1>t DEF Inv, HandlerInv, Holds, Asks
    <2>2. /\ row \in Rows /\ RowInv(t) /\ Covered(t)
          /\ activity[t] \subseteq Nat
        BY <2>1, ExistingRow DEF Inv, TypeOK
    <2>3. /\ sessions'[t] = Touched(row, r.now, r.cap)
          /\ activity'[t] = activity[t] \cup {r.now}
        BY <2>0, <2>1 DEF Inv, TypeOK
    <2>4. \A u \in Tokens \ {t} : /\ sessions'[u] = sessions[u]
                                  /\ activity'[u] = activity[u]
        BY <2>0 DEF Inv, TypeOK
    <2>5. /\ sessions'[t] \in Rows
          /\ sessions'[t].created = row.created
          /\ sessions'[t].absoluteExpires = row.absoluteExpires
          /\ sessions'[t].revoked = row.revoked
          /\ sessions'[t].lastSeen = r.now
          /\ sessions'[t].idleExpires = Sooner(r.now + IdleTtl, r.cap)
        <3>1. sessions'[t] \in Rows
            <4>1. Touched(row, r.now, r.cap) \in Rows
                BY <2>0, <2>2, RowTypes
            <4>2. QED
                BY <2>3, <4>1
        <3>2. QED
            BY <2>2, <2>3, <3>1 DEF Touched, Rows
    <2>6. RowInv(t)'
        <3>1. \A a \in activity'[t] : row.created <= a /\ a <= clock
            BY <2>1, <2>2, <2>3 DEF RowInv
        <3>2. row.created \in activity'[t] /\ r.now \in activity'[t]
            BY <2>2, <2>3 DEF RowInv
        <3>3. /\ row.absoluteExpires = row.created + AbsoluteTtl
              /\ row.revoked # Unset => row.created <= row.revoked
            BY <2>2 DEF RowInv
        <3>4. QED
            BY <2>0, <2>1, <2>5, <3>1, <3>2, <3>3 DEF RowInv
    <2>7. Covered(t)'
        <3>1. SUFFICES ASSUME NEW x \in Nat, NEW s \in activity'[t],
                              row.created < x, x < s + IdleTtl
                       PROVE  \E b \in activity'[t] :
                                  b < x /\ x < b + IdleTtl
            BY <2>5 DEF Covered
        <3>2. ASSUME NEW a \in activity[t], x < a + IdleTtl
              PROVE  \E b \in activity'[t] : b < x /\ x < b + IdleTtl
            BY <2>2, <2>3, <3>1, <3>2 DEF Covered
        <3>3. CASE s \in activity[t]
            BY <3>1, <3>2, <3>3
        <3>4. CASE s = r.now /\ r.now < x
            BY <2>3, <3>1, <3>4
        <3>5. CASE x <= r.now
            <4>1. PICK a \in activity[t] : r.now < a + IdleTtl
                BY <2>1
            <4>2. x < a + IdleTtl
                BY <2>0, <2>2, <3>5, <4>1
            <4>3. QED
                BY <3>2, <4>2
        <3>6. QED
            BY <2>0, <2>3, <3>3, <3>4, <3>5
    <2>8. Exists(t)'
        BY <2>5, SMT DEF Exists, Rows, NoRow, Unset
    <2>9. ASSUME NEW u \in Tokens, Exists(u)'
          PROVE  (RowInv(u) /\ Covered(u))'
        <3>1. CASE u = t
            BY <2>6, <2>7, <3>1
        <3>2. CASE u # t
            <4>1. Exists(u) /\ RowInv(u) /\ Covered(u)
                BY <2>4, <2>9, <3>2 DEF Inv, Exists
            <4>2. QED
                BY <2>0, <2>4, <3>2, <4>1 DEF RowInv, Covered
        <3>3. QED
            BY <3>1, <3>2
    <2>10. \A u \in Tokens : Exists(u) =>
               /\ Exists(u)'
               /\ sessions'[u].created = sessions[u].created
               /\ sessions'[u].absoluteExpires = sessions[u].absoluteExpires
               /\ activity[u] \subseteq activity'[u]
        BY <2>3, <2>4, <2>5, <2>8 DEF Exists
    <2>11. ASSUME NEW p \in Requests
           PROVE  HandlerInv(p)'
        <3>1. CASE p = q
            <4>1. /\ requests'[q].pc = "admitted"
                  /\ requests'[q].token = t
                  /\ requests'[q].now = r.now
                BY <2>0, <1>t DEF Inv, TypeOK
            <4>2. QED
                BY <2>0, <2>1, <2>5, <2>8, <3>1, <4>1, SMT
                   DEF HandlerInv, Holds, Asks, Inside
        <3>2. CASE p # q
            <4>1. requests'[p] = requests[p]
                BY <2>0, <3>2 DEF Inv, TypeOK
            <4>2. QED
                <5>1. clock <= clock' /\ clock' \in Nat
                    BY <2>0
                <5>2. QED
                    BY <2>10, <4>1, <5>1, KnowledgeKept
        <3>3. QED
            BY <3>1, <3>2
    <2>12. QED
        BY <2>9, <2>11 DEF Inv
<1>3. QED
    BY <1>1, <1>2

\* A logout writes revoked_at and nothing else, and not before the login.
LEMMA RevokeStep ==
    ASSUME Inv, TypeOK', NEW q \in Requests, RevokeSession(q)
    PROVE  Inv'
<1> DEFINE r == requests[q]
<1>t. PICK t \in Tokens : t = r.token
    BY DEF Inv, HandlerInv, Holds, RevokeSession, At
<1> DEFINE row == sessions[t]
<1>0. /\ r.at \in Nat /\ r.now \in Nat /\ clock \in Nat /\ clock' = clock
      /\ activity' = activity
      /\ r.pc = "revoking"
      /\ sessions' = [sessions EXCEPT ![t] = Revoked(row, r.at)]
      /\ requests' = [requests EXCEPT ![q].pc = "revoked"]
    BY <1>t DEF Inv, TypeOK, RevokeSession, At, Goto
<1>1. /\ t \in Tokens /\ Exists(t)
      /\ row.created <= r.now /\ r.now <= clock
      /\ row.created <= r.at
    BY <1>0, <1>t DEF Inv, HandlerInv, Holds, Asks, Inside
<1>2. row \in Rows /\ RowInv(t) /\ Covered(t)
    BY <1>1, ExistingRow DEF Inv
<1>3. sessions'[t] = Revoked(row, r.at)
    BY <1>0, <1>1 DEF Inv, TypeOK
<1>4. \A u \in Tokens \ {t} : sessions'[u] = sessions[u]
    BY <1>0 DEF Inv, TypeOK
<1>5. /\ sessions'[t] \in Rows
      /\ sessions'[t].created = row.created
      /\ sessions'[t].absoluteExpires = row.absoluteExpires
      /\ sessions'[t].lastSeen = row.lastSeen
      /\ sessions'[t].idleExpires = row.idleExpires
      /\ sessions'[t].revoked \in {row.revoked, r.at}
    <2>1. sessions'[t] \in Rows
        BY <1>0, <1>2, <1>3, RowTypes
    <2>2. QED
        BY <1>2, <1>3, <2>1 DEF Revoked, Rows
<1>6. RowInv(t)' /\ Covered(t)'
    BY <1>0, <1>1, <1>2, <1>5 DEF RowInv, Covered
<1>7. Exists(t)'
    BY <1>5, SMT DEF Exists, Rows, NoRow, Unset
<1>8. ASSUME NEW u \in Tokens, Exists(u)'
      PROVE  (RowInv(u) /\ Covered(u))'
    <2>1. CASE u = t
        BY <1>6, <2>1
    <2>2. CASE u # t
        <3>1. Exists(u) /\ RowInv(u) /\ Covered(u)
            BY <1>4, <1>8, <2>2 DEF Inv, Exists
        <3>2. QED
            BY <1>0, <1>4, <2>2, <3>1 DEF RowInv, Covered
    <2>3. QED
        BY <2>1, <2>2
<1>9. \A u \in Tokens : Exists(u) =>
          /\ Exists(u)'
          /\ sessions'[u].created = sessions[u].created
          /\ sessions'[u].absoluteExpires = sessions[u].absoluteExpires
          /\ activity[u] \subseteq activity'[u]
    BY <1>0, <1>4, <1>5, <1>7 DEF Exists
<1>10. ASSUME NEW p \in Requests
       PROVE  HandlerInv(p)'
    <2>1. CASE p = q
        <3>1. /\ requests'[q].pc = "revoked" /\ requests'[q].token = t
              /\ requests'[q].now = r.now
            BY <1>0, <1>t DEF Inv, TypeOK
        <3>2. QED
            BY <1>0, <1>1, <1>5, <1>7, <2>1, <3>1, SMT
               DEF HandlerInv, Holds, Asks, Inside
    <2>2. CASE p # q
        <3>1. requests'[p] = requests[p]
            BY <1>0, <2>2 DEF Inv, TypeOK
        <3>2. QED
            <4>1. clock <= clock' /\ clock' \in Nat
                BY <1>0
            <4>2. QED
                BY <1>9, <3>1, <4>1, KnowledgeKept
    <2>3. QED
        BY <2>1, <2>2
<1>11. QED
    BY <1>8, <1>10 DEF Inv

LEMMA InvStep == Inv /\ [Next]_vars => Inv'
<1> SUFFICES ASSUME Inv, [Next]_vars PROVE Inv'
    OBVIOUS
<1>0. TypeOK /\ TypeOK'
    BY TypeStep DEF Inv
<1>1. CASE Tick
    <2>1. /\ clock \in Nat /\ clock' = clock + 1
          /\ UNCHANGED <<sessions, requests, activity>>
        BY <1>0, <1>1 DEF Tick, TypeOK
    <2>2. clock <= clock' /\ clock' \in Nat
        BY <2>1
    <2>3. \A t \in Tokens : Exists(t)' => (RowInv(t) /\ Covered(t))'
        BY <1>0, <2>1, <2>2, RowsKept
    <2>4. \A q \in Requests : HandlerInv(q)'
        BY <2>1, <2>2, KnowledgeKept DEF Exists
    <2>5. QED
        BY <1>0, <2>3, <2>4 DEF Inv
<1>2. ASSUME NEW q \in Requests,
             \/ GrantCookie(q) \/ Serve(q) \/ Forbid(q) \/ ClearCookie(q)
             \/ Drop(q)
      PROVE  Inv'
    <2>1. /\ UNCHANGED <<clock, sessions, activity>>
          /\ \A p \in Requests \ {q} : requests'[p] = requests[p]
          /\ requests'[q] = AtRest
        BY <1>0, <1>2 DEF GrantCookie, Serve, Forbid, ClearCookie, Drop,
           Finish, TypeOK
    <2>2. HandlerInv(q)'
        BY <1>0, <2>1, RestKnows DEF TypeOK
    <2>3. QED
        BY <1>0, <2>1, <2>2, QuietStep
<1>3. ASSUME NEW q \in Requests, BeginLogin(q)
      PROVE  Inv'
    <2>1. /\ UNCHANGED <<clock, sessions, activity>>
          /\ \A p \in Requests \ {q} : requests'[p] = requests[p]
          /\ requests'[q].pc = "login" /\ requests'[q].now = clock
          /\ clock \in Nat
        BY <1>0, <1>3 DEF BeginLogin, TypeOK, AtRest
    <2>2. HandlerInv(q)'
        BY <2>1, SMT DEF HandlerInv, Holds, Asks, Inside
    <2>3. QED
        BY <1>0, <2>1, <2>2, QuietStep
<1>4. ASSUME NEW q \in Requests, ClearFailures(q)
      PROVE  Inv'
    <2>1. /\ UNCHANGED <<clock, sessions, activity>>
          /\ \A p \in Requests \ {q} : requests'[p] = requests[p]
          /\ requests'[q].pc = "granting"
          /\ requests'[q].now = requests[q].now
          /\ requests'[q].token = requests[q].token
          /\ requests[q].pc = "clearing"
        BY <1>0, <1>4 DEF ClearFailures, Goto, At, TypeOK
    <2>2. HandlerInv(q)
        BY DEF Inv
    <2>3. HandlerInv(q)'
        BY <2>1, <2>2, SMT DEF HandlerInv, Holds, Asks, Inside, Exists
    <2>4. QED
        BY <1>0, <2>1, <2>3, QuietStep
<1>5. ASSUME NEW q \in Requests, NEW t \in Tokens, NEW kind \in Kinds,
             BeginRequest(q, t, kind)
      PROVE  Inv'
    <2>1. /\ UNCHANGED <<clock, sessions, activity>>
          /\ \A p \in Requests \ {q} : requests'[p] = requests[p]
          /\ requests'[q].pc = "reading"
          /\ requests'[q].now = clock /\ clock \in Nat
          /\ requests'[q].token = t /\ Exists(t)
        BY <1>0, <1>5 DEF BeginRequest, TypeOK
    <2>2. RowInv(t) /\ sessions[t] \in Rows
        BY <1>0, <2>1, ExistingRow DEF Inv
    <2>3. sessions[t].created <= clock
        BY <2>2 DEF RowInv
    <2>4. HandlerInv(q)'
        BY <2>1, <2>3, SMT DEF HandlerInv, Holds, Asks, Inside, Exists
    <2>5. QED
        BY <1>0, <2>1, <2>4, QuietStep
<1>6. ASSUME NEW q \in Requests, ReadSession(q)
      PROVE  Inv'
    <2> DEFINE r == requests[q]
    <2>0. PICK t \in Tokens : t = r.token
        BY <1>6 DEF Inv, HandlerInv, Holds, ReadSession, At
    <2> DEFINE row == sessions[t]
    <2>1. /\ UNCHANGED <<clock, sessions, activity>>
          /\ \A p \in Requests \ {q} : requests'[p] = requests[p]
          /\ r.pc = "reading"
        BY <1>0, <1>6 DEF ReadSession, Finish, TypeOK, At
    <2>2. /\ Exists(t) /\ row.created <= r.now /\ r.now <= clock
          /\ r.now \in Nat
        BY <2>0, <2>1 DEF Inv, HandlerInv, Holds, Asks, TypeOK
    <2>3. RowInv(t) /\ row \in Rows /\ activity[t] \subseteq Nat
        BY <1>0, <2>2, ExistingRow DEF Inv, TypeOK
    <2>4. CASE Active(row, r.now)
        <3>1. /\ requests'[q].pc = "touching"
              /\ requests'[q].now = r.now
              /\ requests'[q].token = t
              /\ requests'[q].cap = row.absoluteExpires
            BY <1>0, <1>6, <2>0, <2>4 DEF ReadSession, TypeOK
        <3>2. /\ r.now < row.absoluteExpires
              /\ r.now < row.idleExpires
            BY <2>4 DEF Active
        <3>3. /\ row.lastSeen \in activity[t]
              /\ row.idleExpires = Sooner(row.lastSeen + IdleTtl,
                                          row.absoluteExpires)
            BY <2>3 DEF RowInv
        <3>4. r.now < row.lastSeen + IdleTtl
            BY <2>2, <2>3, <3>2, <3>3, SessionAssumption DEF Sooner, Rows
        <3>5. \E s \in activity[t] : r.now < s + IdleTtl
            BY <3>3, <3>4
        <3>6. HandlerInv(q)'
            BY <2>1, <2>2, <3>1, <3>2, <3>5, SMT
               DEF HandlerInv, Holds, Asks, Inside, Exists
        <3>7. QED
            BY <1>0, <2>1, <3>6, QuietStep
    <2>5. CASE ~Active(row, r.now)
        <3>1. requests'[q] = AtRest
            BY <1>0, <1>6, <2>0, <2>5 DEF ReadSession, Finish, TypeOK
        <3>2. HandlerInv(q)'
            BY <1>0, <3>1, RestKnows DEF TypeOK
        <3>3. QED
            BY <1>0, <2>1, <3>2, QuietStep
    <2>6. QED
        BY <2>4, <2>5
<1>7. ASSUME NEW q \in Requests, BeginLogout(q)
      PROVE  Inv'
    <2>1. /\ UNCHANGED <<clock, sessions, activity>>
          /\ \A p \in Requests \ {q} : requests'[p] = requests[p]
          /\ requests'[q].pc = "revoking"
          /\ requests'[q].now = requests[q].now
          /\ requests'[q].at = clock
          /\ requests'[q].token = requests[q].token
          /\ requests[q].pc = "admitted"
          /\ clock \in Nat /\ requests[q].now \in Nat
        BY <1>0, <1>7 DEF BeginLogout, At, TypeOK
    <2>2. /\ requests[q].token \in Tokens /\ Exists(requests[q].token)
          /\ sessions[requests[q].token].created <= requests[q].now
          /\ requests[q].now <= clock
        BY <2>1 DEF Inv, HandlerInv, Holds, Asks, Inside
    <2>3. sessions[requests[q].token].created \in Nat
        BY <1>0, <2>2, ExistingRow DEF Rows
    <2>4. sessions[requests[q].token].created <= clock
        BY <2>1, <2>2, <2>3
    <2>5. HandlerInv(q)'
        BY <2>1, <2>2, <2>4, SMT DEF HandlerInv, Holds, Asks, Inside, Exists
    <2>6. QED
        BY <1>0, <2>1, <2>5, QuietStep
<1>8. CASE UNCHANGED vars
    <2>1. /\ clock \in Nat /\ clock' = clock
          /\ UNCHANGED <<sessions, requests, activity>>
        BY <1>0, <1>8 DEF vars, TypeOK
    <2>2. clock <= clock' /\ clock' \in Nat
        BY <2>1
    <2>3. \A t \in Tokens : Exists(t)' => (RowInv(t) /\ Covered(t))'
        BY <1>0, <2>1, <2>2, RowsKept
    <2>4. \A q \in Requests : HandlerInv(q)'
        BY <2>1, <2>2, KnowledgeKept DEF Exists
    <2>5. QED
        BY <1>0, <2>3, <2>4 DEF Inv
<1>9. QED
    BY <1>0, <1>1, <1>2, <1>3, <1>4, <1>5, <1>6, <1>7, <1>8, CreateStep,
       TouchStep, RevokeStep DEF Next, Step

-----------------------------------------------------------------------------
(* The theorems. *)

LEMMA Invariance == Spec => []Inv
BY InvInit, InvStep, PTL DEF Spec

\* The type invariant of the operator_sessions table, the browsers' cookies
\* and the handlers, for any number of each.
THEOREM SessionTypeOK == Spec => []TypeOK
<1>1. Inv => TypeOK
    BY DEF Inv
<1>2. QED
    BY <1>1, Invariance, PTL

\* Whatever the order of late writes, a row is one its use explains.
THEOREM SessionRowsCohere == Spec => []RowsCohere
<1>1. Inv => RowsCohere
    BY DEF Inv, RowInv, RowsCohere
<1>2. QED
    BY <1>1, Invariance, PTL

\* The idle timeout holds for every number of concurrent handlers: whoever
\* is let in arrived within IdleTtl of an earlier arrival (authenticate).
THEOREM IdleTimeoutHolds == Spec => []NoIdleGap
<1>1. ASSUME Inv PROVE NoIdleGap
    <2>1. SUFFICES ASSUME NEW t \in Tokens, Exists(t), NEW a \in activity[t],
                          a # sessions[t].created
                   PROVE  \E b \in activity[t] : b < a /\ a < b + IdleTtl
        BY DEF NoIdleGap
    <2>2. /\ RowInv(t) /\ Covered(t) /\ sessions[t] \in Rows
          /\ a \in Nat
        BY <1>1, <2>1, ExistingRow DEF Inv, TypeOK
    <2>3. sessions[t].created \in Nat /\ sessions[t].created < a
        BY <2>1, <2>2 DEF RowInv, Rows
    <2>4. a < a + IdleTtl
        BY <2>2, SessionAssumption
    <2>5. QED
        BY <2>1, <2>2, <2>3, <2>4 DEF Covered
<1>2. QED
    BY <1>1, Invariance, PTL

\* After a logout's UPDATE no handler changes the session's row, whatever
\* it read before (touch_session, revoke_session).
THEOREM LogoutIsFinal == Spec => RevokedRowsFrozen
<1>1. ASSUME Inv, [Next]_vars, NEW t \in Tokens, Exists(t),
             sessions[t].revoked # Unset
      PROVE  sessions'[t] = sessions[t]
    <2>1. ASSUME NEW q \in Requests, TouchSession(q)
          PROVE  sessions'[t] = sessions[t]
        BY <1>1, <2>1 DEF TouchSession, Touchable, Inv, TypeOK
    <2>2. ASSUME NEW q \in Requests, RevokeSession(q)
          PROVE  sessions'[t] = sessions[t]
        BY <1>1, <2>2 DEF RevokeSession, Revoked, Inv, TypeOK
    <2>3. ASSUME NEW q \in Requests, NEW u \in Tokens, CreateSession(q, u)
          PROVE  sessions'[t] = sessions[t]
        BY <1>1, <2>3 DEF CreateSession, Inv, TypeOK
    <2>4. QED
        BY <1>1, <2>1, <2>2, <2>3 DEF Next, Step, vars, Tick, BeginLogin,
           ClearFailures, GrantCookie, BeginRequest, ReadSession, Serve,
           Forbid, BeginLogout, ClearCookie, Drop
<1>2. Inv /\ [Next]_vars =>
          [\A t \in Tokens : Exists(t) /\ sessions[t].revoked # Unset =>
               sessions'[t] = sessions[t]]_vars
    BY <1>1
<1>3. QED
    BY <1>2, Invariance, PTL DEF Spec, RevokedRowsFrozen

-----------------------------------------------------------------------------
(* The refinement of SessionGate. *)

GateOf == [t \in Tokens |-> GateState(t)]
OpenedOf == [t \in Tokens |-> OpenedAt(t)]
AskingOf == [q \in Requests |-> AskedBy(q)]
AdmittedOf == {q \in Requests : requests[q].pc \in Inside}

\* The mapped variables, and what a step of the gate says of them.
LEMMA GateView ==
    /\ Gate!vars = <<clock, GateOf, OpenedOf, AskingOf, AdmittedOf>>
    /\ Gate!Pass <=>
        /\ clock' = clock + 1
        /\ UNCHANGED <<GateOf, OpenedOf, AskingOf, AdmittedOf>>
    /\ \A q : Gate!Leave(q) <=>
        /\ AskingOf' = [AskingOf EXCEPT ![q] = [asks |-> FALSE]]
        /\ AdmittedOf' = AdmittedOf \ {q}
        /\ UNCHANGED <<clock, GateOf, OpenedOf>>
    /\ \A q, t : Gate!Arrive(q, t) <=>
        /\ q \notin AdmittedOf
        /\ AskingOf[q] = [asks |-> FALSE]
        /\ AskingOf' = [AskingOf EXCEPT ![q] =
               [asks |-> TRUE, token |-> t, since |-> clock]]
        /\ UNCHANGED <<clock, GateOf, OpenedOf, AdmittedOf>>
    /\ \A q, t : Gate!Admit(q, t) <=>
        /\ AskingOf[q].asks
        /\ AskingOf[q].token = t
        /\ GateOf[t] = "open"
        /\ AskingOf[q].since < OpenedOf[t] + AbsoluteTtl
        /\ AdmittedOf' = AdmittedOf \cup {q}
        /\ UNCHANGED <<clock, GateOf, OpenedOf, AskingOf>>
    /\ \A q : Gate!Close(q) <=>
        /\ q \in AdmittedOf
        /\ GateOf' = [GateOf EXCEPT ![AskingOf[q].token] = "closed"]
        /\ UNCHANGED <<clock, OpenedOf, AskingOf, AdmittedOf>>
    /\ \A t : Gate!Open(t) <=>
        /\ GateOf[t] = "shut"
        /\ GateOf' = [GateOf EXCEPT ![t] = "open"]
        /\ \E since \in 0..clock :
               OpenedOf' = [OpenedOf EXCEPT ![t] = since]
        /\ UNCHANGED <<clock, AskingOf, AdmittedOf>>
BY Zenon DEF Gate!vars, Gate!Pass, Gate!Leave, Gate!Arrive, Gate!Admit,
   Gate!Close, Gate!Open, Gate!None, Gate!Ask, GateOf, OpenedOf, AskingOf,
   AdmittedOf

LEMMA SameView ==
    ASSUME UNCHANGED <<clock, GateOf, OpenedOf, AskingOf, AdmittedOf>>
    PROVE  UNCHANGED Gate!vars
BY Zenon DEF Gate!vars, GateOf, OpenedOf, AskingOf, AdmittedOf

\* What the gate sees changes only with the table and the handlers.
LEMMA SameSessions ==
    ASSUME sessions' = sessions
    PROVE  GateOf' = GateOf /\ OpenedOf' = OpenedOf
BY DEF GateOf, OpenedOf, GateState, OpenedAt, Exists

LEMMA SameRequests ==
    ASSUME requests' = requests
    PROVE  AskingOf' = AskingOf /\ AdmittedOf' = AdmittedOf
BY DEF AskingOf, AdmittedOf, AskedBy

\* A step of one handler changes at most its own question and entry.
LEMMA OneHandler ==
    ASSUME NEW q \in Requests,
           \A p \in Requests \ {q} : requests'[p] = requests[p]
    PROVE  /\ AskingOf' = [AskingOf EXCEPT ![q] = AskedBy(q)']
           /\ requests'[q].pc \in Inside =>
                  AdmittedOf' = AdmittedOf \cup {q}
           /\ requests'[q].pc \notin Inside =>
                  AdmittedOf' = AdmittedOf \ {q}
<1>1. \A p \in Requests \ {q} : AskedBy(p)' = AskedBy(p)
    BY DEF AskedBy
<1>2. AskingOf' = [AskingOf EXCEPT ![q] = AskedBy(q)']
    BY <1>1 DEF AskingOf
<1>3. QED
    BY <1>2 DEF AdmittedOf

\* A handler that does not ask after its step has left.
LEMMA Leaves ==
    ASSUME Inv, NEW q \in Requests, clock' = clock, sessions' = sessions,
           \A p \in Requests \ {q} : requests'[p] = requests[p],
           requests'[q].pc \notin {"reading", "touching"} \cup Inside
    PROVE  Gate!Leave(q)
<1>1. AskedBy(q)' = [asks |-> FALSE]
    BY DEF AskedBy
<1>2. QED
    BY <1>1, SameSessions, OneHandler, GateView

\* A handler that asks the same and stands where it stood is not seen.
LEMMA Unseen ==
    ASSUME Inv, NEW q \in Requests, clock' = clock, sessions' = sessions,
           \A p \in Requests \ {q} : requests'[p] = requests[p],
           AskedBy(q)' = AskedBy(q),
           requests'[q].pc \in Inside <=> requests[q].pc \in Inside
    PROVE  UNCHANGED Gate!vars
<1>1. AskingOf' = AskingOf
    BY OneHandler DEF AskingOf
<1>2. AdmittedOf' = AdmittedOf
    BY OneHandler DEF AdmittedOf
<1>3. QED
    BY <1>1, <1>2, SameSessions, SameView

LEMMA GateStep == Inv /\ Inv' /\ [Next]_vars => [Gate!Next]_(Gate!vars)
<1> SUFFICES ASSUME Inv, Inv', [Next]_vars
             PROVE  Gate!Next \/ UNCHANGED Gate!vars
    OBVIOUS
<1>0. TypeOK
    BY DEF Inv
<1>1. CASE Tick
    <2>1. Gate!Pass
        BY <1>1, SameSessions, SameRequests, GateView DEF Tick
    <2>2. QED
        BY <2>1 DEF Gate!Next
<1>2. ASSUME NEW q \in Requests,
             \/ GrantCookie(q) \/ Serve(q) \/ Forbid(q) \/ ClearCookie(q)
             \/ Drop(q) \/ BeginLogin(q) \/ ClearFailures(q)
      PROVE  Gate!Next
    <2>1. /\ clock' = clock /\ sessions' = sessions
          /\ \A p \in Requests \ {q} : requests'[p] = requests[p]
          /\ requests'[q].pc \in {"idle", "login", "granting"}
        <3>1. CASE BeginLogin(q)
            BY <1>0, <3>1 DEF BeginLogin, AtRest, TypeOK
        <3>2. CASE ClearFailures(q)
            BY <1>0, <3>2 DEF ClearFailures, Goto, TypeOK
        <3>3. CASE GrantCookie(q) \/ Serve(q) \/ Forbid(q)
                   \/ ClearCookie(q) \/ Drop(q)
            BY <1>0, <3>3 DEF GrantCookie, Serve, Forbid, ClearCookie, Drop,
               Finish, AtRest, TypeOK
        <3>4. QED
            BY <1>2, <3>1, <3>2, <3>3
    <2>2. Gate!Leave(q)
        BY <2>1, Leaves DEF Inside
    <2>3. QED
        BY <2>2 DEF Gate!Next
<1>3. ASSUME NEW q \in Requests, NEW t \in Tokens, CreateSession(q, t)
      PROVE  Gate!Next
    <2> DEFINE now == requests[q].now
    <2>1. /\ clock' = clock /\ ~Exists(t)
          /\ now \in 0..clock
          /\ sessions'[t] = Row(now, now, now + IdleTtl,
                                now + AbsoluteTtl, Unset)
          /\ \A u \in Tokens \ {t} : sessions'[u] = sessions[u]
          /\ \A p \in Requests \ {q} : requests'[p] = requests[p]
          /\ requests[q].pc = "login" /\ requests'[q].pc = "clearing"
        BY <1>0, <1>3 DEF CreateSession, At, TypeOK, Inv, HandlerInv
    <2>2. Exists(t)'
        BY <2>1, SMT DEF Exists, Row, NoRow, Unset
    <2>3. /\ GateState(t) = "shut" /\ GateState(t)' = "open"
          /\ OpenedAt(t)' = now
          /\ \A u \in Tokens \ {t} : /\ GateState(u)' = GateState(u)
                                     /\ OpenedAt(u)' = OpenedAt(u)
        BY <2>1, <2>2 DEF GateState, OpenedAt, Exists, Row
    <2>4. /\ GateOf[t] = "shut"
          /\ GateOf' = [GateOf EXCEPT ![t] = "open"]
          /\ OpenedOf' = [OpenedOf EXCEPT ![t] = now]
        BY <2>3 DEF GateOf, OpenedOf
    <2>5. AskedBy(q)' = AskedBy(q)
        BY <2>1 DEF AskedBy, Inside
    <2>6. AskingOf' = AskingOf /\ AdmittedOf' = AdmittedOf
        BY <2>1, <2>5, OneHandler DEF AskingOf, AdmittedOf, Inside
    <2>7. Gate!Open(t)
        BY <2>1, <2>4, <2>6, GateView
    <2>8. QED
        BY <2>7 DEF Gate!Next
<1>4. ASSUME NEW q \in Requests, NEW t \in Tokens, NEW kind \in Kinds,
             BeginRequest(q, t, kind)
      PROVE  Gate!Next
    <2>1. /\ clock' = clock /\ sessions' = sessions
          /\ \A p \in Requests \ {q} : requests'[p] = requests[p]
          /\ requests[q].pc = "idle"
          /\ requests'[q].pc = "reading" /\ requests'[q].token = t
          /\ requests'[q].now = clock
        BY <1>0, <1>4 DEF BeginRequest, At, TypeOK
    <2>2. /\ AskedBy(q) = [asks |-> FALSE]
          /\ AskedBy(q)' = [asks |-> TRUE, token |-> t, since |-> clock]
        BY <2>1 DEF AskedBy, Inside
    <2>3. q \notin AdmittedOf /\ AskingOf[q] = [asks |-> FALSE]
        BY <2>1, <2>2 DEF AdmittedOf, AskingOf, Inside
    <2>4. AdmittedOf' = AdmittedOf
        <3>1. requests'[q].pc \notin Inside
            BY <2>1 DEF Inside
        <3>2. AdmittedOf' = AdmittedOf \ {q}
            BY <2>1, <3>1, OneHandler
        <3>3. QED
            BY <2>3, <3>2, Zenon
    <2>5. Gate!Arrive(q, t)
        BY <2>1, <2>2, <2>3, <2>4, SameSessions, OneHandler, GateView
    <2>6. QED
        BY <2>5 DEF Gate!Next
<1>5. ASSUME NEW q \in Requests, ReadSession(q)
      PROVE  Gate!Next \/ UNCHANGED Gate!vars
    <2>1. /\ clock' = clock /\ sessions' = sessions
          /\ \A p \in Requests \ {q} : requests'[p] = requests[p]
          /\ requests[q].pc = "reading"
        BY <1>0, <1>5 DEF ReadSession, At, Finish, TypeOK
    <2>2. \/ /\ requests'[q].pc = "touching"
             /\ requests'[q].token = requests[q].token
             /\ requests'[q].now = requests[q].now
          \/ requests'[q].pc = "idle"
        BY <1>0, <1>5 DEF ReadSession, Finish, AtRest, TypeOK
    <2>3. CASE requests'[q].pc = "idle"
        <3>1. Gate!Leave(q)
            BY <2>1, <2>3, Leaves DEF Inside
        <3>2. QED
            BY <3>1 DEF Gate!Next
    <2>4. CASE requests'[q].pc = "touching"
        <3>1. AskedBy(q)' = AskedBy(q)
            BY <2>1, <2>2, <2>4 DEF AskedBy
        <3>2. QED
            BY <2>1, <2>4, <3>1, Unseen DEF Inside
    <2>5. QED
        BY <2>2, <2>3, <2>4
<1>6. ASSUME NEW q \in Requests, TouchSession(q)
      PROVE  Gate!Next
    <2> DEFINE r == requests[q]
    <2>0. PICK t \in Tokens : t = r.token
        BY <1>6 DEF Inv, HandlerInv, Holds, TouchSession, At
    <2> DEFINE row == sessions[t]
    <2>1. /\ clock' = clock /\ r.pc = "touching"
          /\ \A p \in Requests \ {q} : requests'[p] = requests[p]
        BY <1>0, <1>6 DEF TouchSession, At, Finish, Goto, TypeOK
    <2>2. CASE ~Touchable(row)
        <3>1. sessions' = sessions /\ requests'[q].pc = "idle"
            BY <1>0, <1>6, <2>0, <2>2 DEF TouchSession, Finish, AtRest,
               TypeOK
        <3>2. Gate!Leave(q)
            BY <2>1, <3>1, Leaves DEF Inside
        <3>3. QED
            BY <3>2 DEF Gate!Next
    <2>3. CASE Touchable(row)
        <3>1. /\ sessions'[t] = Touched(row, r.now, r.cap)
              /\ \A u \in Tokens \ {t} : sessions'[u] = sessions[u]
              /\ requests'[q].pc = "admitted"
              /\ requests'[q].token = r.token
              /\ requests'[q].now = r.now
            BY <1>0, <1>6, <2>0, <2>3 DEF TouchSession, Goto, TypeOK
        <3>2. /\ Exists(t) /\ row \in Rows
              /\ r.now < row.created + AbsoluteTtl
            <4>1. /\ Exists(t) /\ r.cap = row.absoluteExpires
                  /\ r.now < r.cap
                BY <2>0, <2>1 DEF Inv, HandlerInv, Holds
            <4>2. RowInv(t) /\ row \in Rows
                BY <1>0, <4>1, ExistingRow DEF Inv
            <4>3. QED
                BY <4>1, <4>2 DEF RowInv
        <3>3. /\ Exists(t)'
              /\ sessions'[t].created = row.created
              /\ sessions'[t].revoked = row.revoked
            <4>1. r.now \in Nat /\ r.cap \in Nat
                BY <1>0 DEF TypeOK
            <4>2. Touched(row, r.now, r.cap) \in Rows
                BY <3>2, <4>1, RowTypes
            <4>3. sessions'[t] \in Rows
                BY <3>1, <4>2
            <4>4. Exists(t)'
                BY <4>3, SMT DEF Exists, Rows, NoRow, Unset
            <4>5. QED
                BY <3>1, <3>2, <4>4 DEF Touched, Rows
        <3>4. /\ GateState(t) = "open"
              /\ \A u \in Tokens : /\ GateState(u)' = GateState(u)
                                   /\ OpenedAt(u)' = OpenedAt(u)
            BY <2>3, <3>1, <3>2, <3>3 DEF GateState, OpenedAt, Exists,
               Touchable
        <3>5. GateOf' = GateOf /\ OpenedOf' = OpenedOf
            BY <3>4 DEF GateOf, OpenedOf
        <3>6. /\ AskedBy(q)' = AskedBy(q)
              /\ AskedBy(q) = [asks |-> TRUE, token |-> t, since |-> r.now]
            BY <2>0, <2>1, <3>1 DEF AskedBy, Inside
        <3>7. /\ AskingOf' = AskingOf
              /\ AdmittedOf' = AdmittedOf \cup {q}
            BY <2>1, <3>1, <3>6, OneHandler DEF AskingOf, Inside
        <3>8. /\ AskingOf[q].asks /\ AskingOf[q].token = t
              /\ GateOf[t] = "open"
              /\ AskingOf[q].since < OpenedOf[t] + AbsoluteTtl
            BY <3>2, <3>4, <3>6 DEF AskingOf, GateOf, OpenedOf, OpenedAt
        <3>9. Gate!Admit(q, t)
            BY <2>1, <3>5, <3>7, <3>8, GateView
        <3>10. QED
            BY <3>9 DEF Gate!Next
    <2>4. QED
        BY <2>2, <2>3
<1>7. ASSUME NEW q \in Requests, BeginLogout(q)
      PROVE  UNCHANGED Gate!vars
    <2>1. /\ clock' = clock /\ sessions' = sessions
          /\ \A p \in Requests \ {q} : requests'[p] = requests[p]
          /\ requests[q].pc = "admitted" /\ requests'[q].pc = "revoking"
          /\ requests'[q].token = requests[q].token
          /\ requests'[q].now = requests[q].now
        BY <1>0, <1>7 DEF BeginLogout, At, TypeOK
    <2>2. AskedBy(q)' = AskedBy(q)
        BY <2>1 DEF AskedBy, Inside
    <2>3. QED
        BY <2>1, <2>2, Unseen DEF Inside
<1>8. ASSUME NEW q \in Requests, RevokeSession(q)
      PROVE  Gate!Next
    <2> DEFINE r == requests[q]
    <2>0. PICK t \in Tokens : t = r.token
        BY <1>8 DEF Inv, HandlerInv, Holds, RevokeSession, At
    <2> DEFINE row == sessions[t]
    <2>1. /\ clock' = clock
          /\ \A p \in Requests \ {q} : requests'[p] = requests[p]
          /\ r.pc = "revoking" /\ requests'[q].pc = "revoked"
          /\ requests'[q].token = r.token /\ requests'[q].now = r.now
          /\ sessions'[t] = Revoked(row, r.at)
          /\ \A u \in Tokens \ {t} : sessions'[u] = sessions[u]
        BY <1>0, <1>8, <2>0 DEF RevokeSession, At, Goto, TypeOK
    <2>2. Exists(t) /\ row \in Rows /\ r.at \in Nat
        BY <1>0, <2>0, <2>1, ExistingRow DEF Inv, HandlerInv, Holds, TypeOK
    <2>3. Exists(t)'
        <3>1. Revoked(row, r.at) \in Rows
            BY <2>2, RowTypes
        <3>2. sessions'[t] \in Rows
            BY <2>1, <3>1
        <3>3. QED
            BY <3>2, SMT DEF Exists, Rows, NoRow, Unset
    <2>4. /\ sessions'[t].created = row.created
          /\ sessions'[t].revoked # Unset
        BY <2>1, <2>2, SMT DEF Revoked, Rows, Unset
    <2>5. /\ GateState(t)' = "closed"
          /\ OpenedAt(t)' = OpenedAt(t)
          /\ \A u \in Tokens \ {t} : /\ GateState(u)' = GateState(u)
                                     /\ OpenedAt(u)' = OpenedAt(u)
        BY <2>1, <2>2, <2>3, <2>4 DEF GateState, OpenedAt, Exists
    <2>6. /\ GateOf' = [GateOf EXCEPT ![t] = "closed"]
          /\ OpenedOf' = OpenedOf
        BY <2>5 DEF GateOf, OpenedOf
    <2>7. /\ AskedBy(q)' = AskedBy(q)
          /\ AskedBy(q).token = t
        BY <2>0, <2>1 DEF AskedBy, Inside
    <2>8. /\ AskingOf' = AskingOf
          /\ AdmittedOf' = AdmittedOf
          /\ q \in AdmittedOf
          /\ AskingOf[q].token = t
        BY <2>1, <2>7, OneHandler DEF AskingOf, AdmittedOf, Inside
    <2>9. Gate!Close(q)
        BY <2>1, <2>6, <2>8, GateView
    <2>10. QED
        BY <2>9 DEF Gate!Next
<1>9. CASE UNCHANGED vars
    <2>1. sessions' = sessions /\ requests' = requests /\ clock' = clock
        BY <1>9 DEF vars
    <2>2. QED
        BY <2>1, SameSessions, SameRequests, SameView
<1>10. QED
    BY <1>1, <1>2, <1>3, <1>4, <1>5, <1>6, <1>7, <1>8, <1>9 DEF Next, Step

\* Reading, judging and touching a session's row in three steps counts as
\* one check made at the touch: the handlers implement SessionGate.
THEOREM SessionsImplementGate == Spec => ImplementsGate
<1>1. Init => Gate!Init
    BY SMT DEF Init, AtRest, Gate!Init, Gate!None, GateState, OpenedAt,
       Exists, AskedBy, Inside
<1>2. QED
    BY <1>1, GateStep, Invariance, PTL DEF Spec, ImplementsGate, Gate!Spec
=============================================================================

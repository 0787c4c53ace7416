---------------------------- MODULE SessionGate ----------------------------
(***************************************************************************)
(* What the Operator's sessions promise, with no row, deadline or answer   *)
(* in sight: a gate per session token that opens once, is closed at most   *)
(* once by someone it let in, and admits, in one indivisible step, only    *)
(* while it is open and only whoever arrived within its lifetime.          *)
(*                                                                         *)
(* OperatorSessions reads a row, judges it and later writes it; that it    *)
(* implements this module says the three steps count as one.               *)
(***************************************************************************)
EXTENDS Naturals

CONSTANTS Tokens, Requests, Lifetime

VARIABLES
    time,
    gates,     \* per token: "shut" (never opened), "open" or "closed"
    opened,    \* per token: the time it counts its lifetime from
    asking,    \* the requests that ask: whose gate, and since when
    admitted   \* the requests that have been let in

vars == <<time, gates, opened, asking, admitted>>

None == [asks |-> FALSE]
Ask(t, since) == [asks |-> TRUE, token |-> t, since |-> since]

Init ==
    /\ time = 0
    /\ gates = [t \in Tokens |-> "shut"]
    /\ opened = [t \in Tokens |-> 0]
    /\ asking = [q \in Requests |-> None]
    /\ admitted = {}

Pass ==
    /\ time' = time + 1
    /\ UNCHANGED <<gates, opened, asking, admitted>>

\* A login may count the lifetime from an earlier time than the present.
Open(t) ==
    /\ gates[t] = "shut"
    /\ gates' = [gates EXCEPT ![t] = "open"]
    /\ \E since \in 0..time : opened' = [opened EXCEPT ![t] = since]
    /\ UNCHANGED <<time, asking, admitted>>

Arrive(q, t) ==
    /\ q \notin admitted
    /\ asking[q] = None
    /\ asking' = [asking EXCEPT ![q] = Ask(t, time)]
    /\ UNCHANGED <<time, gates, opened, admitted>>

Admit(q, t) ==
    /\ asking[q].asks
    /\ asking[q].token = t
    /\ gates[t] = "open"
    /\ asking[q].since < opened[t] + Lifetime
    /\ admitted' = admitted \cup {q}
    /\ UNCHANGED <<time, gates, opened, asking>>

\* Only someone admitted may close, and only the gate that let him in.
Close(q) ==
    /\ q \in admitted
    /\ gates' = [gates EXCEPT ![asking[q].token] = "closed"]
    /\ UNCHANGED <<time, opened, asking, admitted>>

\* Answered, refused or gone.
Leave(q) ==
    /\ asking' = [asking EXCEPT ![q] = None]
    /\ admitted' = admitted \ {q}
    /\ UNCHANGED <<time, gates, opened>>

Next ==
    \/ Pass
    \/ \E t \in Tokens : Open(t)
    \/ \E q \in Requests :
        \/ \E t \in Tokens : Arrive(q, t) \/ Admit(q, t)
        \/ Close(q)
        \/ Leave(q)

Spec == Init /\ [][Next]_vars
=============================================================================

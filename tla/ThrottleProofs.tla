--------------------------- MODULE ThrottleProofs ---------------------------
(***************************************************************************)
(* Theorems about LoginThrottle for every number of concurrent attempts,   *)
(* every threshold and every window.                                       *)
(*                                                                         *)
(* OvershootBounded is inductive with the types: an attempt passes the     *)
(* check only when it has counted fewer than LockThreshold failures, and   *)
(* it counts at least those an attempt of that moment would, however old   *)
(* its clock reading is; from then on a record trades an attempt past the  *)
(* check for a row, and time only takes rows out of the window.            *)
(***************************************************************************)
EXTENDS LoginThrottle, FiniteSetTheorems, TLAPS

\* The sets that are counted are finite.
LEMMA CountedFinite ==
    ASSUME TypeOK, NEW age \in Nat
    PROVE  /\ IsFiniteSet(Counted(age))
           /\ Cardinality(Counted(age)) \in Nat
           /\ Counted(age) \subseteq RowIds
<1>1. IsFiniteSet(RowIds)
    BY ThrottleAssumption, FS_Interval DEF RowIds
<1>2. Counted(age) \subseteq RowIds
    BY DEF Counted, TypeOK
<1>3. QED
    BY <1>1, <1>2, FS_Subset, FS_CardinalityType

LEMMA PassedFinite ==
    /\ IsFiniteSet(Passed)
    /\ Cardinality(Passed) \in Nat
    /\ Cardinality(Attempts) \in Nat
    /\ Cardinality(Passed) <= Cardinality(Attempts)
    /\ IsFiniteSet(Attempts)
<1>1. IsFiniteSet(Attempts) /\ Passed \in SUBSET Attempts
    BY ThrottleAssumption DEF Passed
<1>2. QED
    BY <1>1, FS_Subset, FS_CardinalityType

\* The failures an attempt counts include those of an attempt that begins
\* now.
LEMMA CountsRecent ==
    ASSUME TypeOK, NEW age \in Nat
    PROVE  Cardinality(Recent) <= Cardinality(Counted(age))
<1>1. Recent \subseteq Counted(age)
    BY ThrottleAssumption DEF Recent, Counted, TypeOK
<1>2. QED
    BY <1>1, CountedFinite, FS_Subset

LEMMA RecentType ==
    ASSUME TypeOK
    PROVE  IsFiniteSet(Recent) /\ Cardinality(Recent) \in Nat
BY CountedFinite DEF Recent

\* Every step keeps the types.
LEMMA TypeStep == TypeOK /\ [Next]_vars => TypeOK'
<1> SUFFICES ASSUME TypeOK, [Next]_vars PROVE TypeOK'
    OBVIOUS
<1> USE ThrottleAssumption
<1>1. CASE Tick
    <2>1. rows' \subseteq RowIds
        BY <1>1 DEF Tick, TypeOK
    <2>2. rowAge' \in [RowIds -> Nat]
        BY <1>1 DEF Tick, TypeOK
    <2>3. ASSUME NEW q \in Attempts
          PROVE  /\ attempts'[q] \in [pc : Points, age : 0..MaxHold]
        BY <1>1 DEF Tick, TypeOK, At
    <2>4. attempts' \in [Attempts -> [pc : Points, age : 0..MaxHold]]
        BY <1>1, <2>3 DEF Tick
    <2>5. QED
        BY <2>1, <2>2, <2>4 DEF TypeOK
<1>2. ASSUME NEW q \in Attempts, Begin(q)
      PROVE  TypeOK'
    BY <1>2 DEF Begin, TypeOK, Points
<1>3. ASSUME NEW q \in Attempts, Decide(q) \/ Wake(q)
      PROVE  TypeOK'
    BY <1>3 DEF Decide, Wake, Verified, TurnAway, Finish, Goto, AtRest,
       TypeOK, Points
<1>4. ASSUME NEW q \in Attempts, RecordFailure(q)
      PROVE  TypeOK'
    BY <1>4 DEF RecordFailure, FailedAt, Finish, AtRest, TypeOK, Points
<1>5. ASSUME NEW q \in Attempts, OpenSession(q) \/ Drop(q)
      PROVE  TypeOK'
    BY <1>5 DEF OpenSession, Drop, Finish, Goto, AtRest, TypeOK, Points
<1>6. ASSUME NEW q \in Attempts, ClearFailures(q)
      PROVE  TypeOK'
    BY <1>6 DEF ClearFailures, Finish, AtRest, TypeOK, Points
<1>7. CASE UNCHANGED vars
    BY <1>7 DEF vars, TypeOK
<1>8. QED
    BY <1>1, <1>2, <1>3, <1>4, <1>5, <1>6, <1>7 DEF Next, Proceed

LEMMA TypeInit == Init => TypeOK
BY ThrottleAssumption DEF Init, TypeOK, AtRest, Points

-----------------------------------------------------------------------------
(* The bound. *)

\* A step that adds no row to the window and nobody to those past the check
\* keeps the bound.
LEMMA NothingAdded ==
    ASSUME TypeOK, TypeOK', OvershootBounded,
           Recent' \subseteq Recent, Passed' \subseteq Passed
    PROVE  OvershootBounded'
<1>1. /\ Cardinality(Recent') <= Cardinality(Recent)
      /\ Cardinality(Recent') \in Nat /\ Cardinality(Recent) \in Nat
    <2>1. IsFiniteSet(Recent) /\ Cardinality(Recent) \in Nat
        BY RecentType
    <2>2. /\ IsFiniteSet(Recent')
          /\ Cardinality(Recent') <= Cardinality(Recent)
        BY <2>1, FS_Subset
    <2>3. QED
        BY <2>1, <2>2, FS_CardinalityType
<1>2. /\ Cardinality(Passed') <= Cardinality(Passed)
      /\ Cardinality(Passed') \in Nat /\ Cardinality(Passed) \in Nat
    <2>1. IsFiniteSet(Passed) /\ Cardinality(Passed) \in Nat
        BY PassedFinite
    <2>2. /\ IsFiniteSet(Passed')
          /\ Cardinality(Passed') <= Cardinality(Passed)
        BY <2>1, FS_Subset
    <2>3. QED
        BY <2>1, <2>2, FS_CardinalityType
<1>3. Cardinality(Attempts) \in Nat /\ LockThreshold \in Nat
    BY PassedFinite, ThrottleAssumption
<1>4. QED
    BY <1>1, <1>2, <1>3 DEF OvershootBounded

LEMMA BoundStep ==
    ASSUME TypeOK, TypeOK', OvershootBounded, [Next]_vars
    PROVE  OvershootBounded'
<1> USE ThrottleAssumption
<1>1. CASE Tick
    <2>1. Recent' \subseteq Recent
        BY <1>1 DEF Tick, Recent, Counted, TypeOK
    <2>2. Passed' \subseteq Passed
        BY <1>1 DEF Tick, Passed, At, TypeOK
    <2>3. QED
        BY <2>1, <2>2, NothingAdded
<1>2. ASSUME NEW q \in Attempts, Begin(q)
      PROVE  OvershootBounded'
    <2>1. Recent' \subseteq Recent
        BY <1>2 DEF Begin, Recent, Counted
    <2>2. Passed' \subseteq Passed
        BY <1>2 DEF Begin, Passed, At, TypeOK
    <2>3. QED
        BY <2>1, <2>2, NothingAdded
<1>3. ASSUME NEW q \in Attempts, Decide(q)
      PROVE  OvershootBounded'
    <2>1. Recent' = Recent
        BY <1>3 DEF Decide, Recent, Counted
    <2>2. CASE decision(Cardinality(Counted(attempts[q].age))) = "locked"
        <3>1. Finish(q)
            BY <1>3, <2>2 DEF Decide, TurnAway
        <3>2. Passed' \subseteq Passed
            BY <3>1 DEF Finish, AtRest, Passed, At, TypeOK
        <3>3. QED
            BY <2>1, <3>2, NothingAdded
    <2>3. CASE decision(Cardinality(Counted(attempts[q].age))) # "locked"
        <3>1. attempts[q].age \in Nat
            BY DEF TypeOK
        <3>2. Cardinality(Counted(attempts[q].age)) < LockThreshold
            BY <2>3, <3>1, CountedFinite DEF decision
        <3>3. Cardinality(Recent) <= LockThreshold - 1
            BY <3>1, <3>2, CountsRecent, CountedFinite, RecentType
        <3>4. /\ Cardinality(Passed') \in Nat
              /\ Cardinality(Passed') <= Cardinality(Attempts)
            <4>1. IsFiniteSet(Attempts) /\ Passed' \in SUBSET Attempts
                BY DEF Passed
            <4>2. QED
                BY <4>1, FS_Subset, FS_CardinalityType
        <3>5. QED
            BY <2>1, <3>3, <3>4, RecentType, PassedFinite
               DEF OvershootBounded
    <2>4. QED
        BY <2>2, <2>3
<1>4. ASSUME NEW q \in Attempts, Wake(q) \/ OpenSession(q) \/ Drop(q)
      PROVE  OvershootBounded'
    <2>1. Recent' \subseteq Recent
        BY <1>4 DEF Wake, OpenSession, Drop, Recent, Counted
    <2>2. Passed' \subseteq Passed
        BY <1>4 DEF Wake, OpenSession, Drop, Verified, Goto, Finish, AtRest,
           Passed, At, TypeOK
    <2>3. QED
        BY <2>1, <2>2, NothingAdded
<1>5. ASSUME NEW q \in Attempts, RecordFailure(q)
      PROVE  OvershootBounded'
    <2>1. PICK i \in RowIds \ rows :
              /\ rows' = rows \cup {i}
              /\ rowAge' = [rowAge EXCEPT ![i] = attempts[q].age]
        BY <1>5 DEF RecordFailure, FailedAt
    <2>2. Recent' \subseteq Recent \cup {i}
        BY <2>1 DEF Recent, Counted, TypeOK
    <2>3. q \in Passed
        BY <1>5 DEF RecordFailure, Passed, At
    <2>4. Passed' = Passed \ {q}
        BY <1>5 DEF RecordFailure, Finish, AtRest, Passed, At, TypeOK
    <2>5. /\ Cardinality(Recent') <= Cardinality(Recent) + 1
          /\ Cardinality(Recent') \in Nat
        <3>1. IsFiniteSet(Recent) /\ Cardinality(Recent) \in Nat
            BY RecentType
        <3>2. /\ IsFiniteSet(Recent \cup {i})
              /\ Cardinality(Recent \cup {i}) <= Cardinality(Recent) + 1
            <4>1. /\ IsFiniteSet(Recent \cup {i})
                  /\ \/ Cardinality(Recent \cup {i}) = Cardinality(Recent)
                     \/ Cardinality(Recent \cup {i})
                            = Cardinality(Recent) + 1
                BY <3>1, FS_AddElement, Zenon
            <4>2. QED
                BY <3>1, <4>1
        <3>3. /\ IsFiniteSet(Recent')
              /\ Cardinality(Recent') <= Cardinality(Recent \cup {i})
            BY <2>2, <3>2, FS_Subset
        <3>4. /\ Cardinality(Recent') \in Nat
              /\ Cardinality(Recent \cup {i}) \in Nat
            BY <3>2, <3>3, FS_CardinalityType
        <3>5. QED
            BY <3>1, <3>2, <3>3, <3>4
    <2>6. Cardinality(Passed') = Cardinality(Passed) - 1
        BY <2>3, <2>4, PassedFinite, FS_RemoveElement
    <2>7. QED
        BY <2>5, <2>6, RecentType, PassedFinite DEF OvershootBounded
<1>6. ASSUME NEW q \in Attempts, ClearFailures(q)
      PROVE  OvershootBounded'
    <2>1. Recent' \subseteq Recent
        BY <1>6 DEF ClearFailures, Recent, Counted
    <2>2. Passed' \subseteq Passed
        BY <1>6 DEF ClearFailures, Finish, AtRest, Passed, At, TypeOK
    <2>3. QED
        BY <2>1, <2>2, NothingAdded
<1>7. CASE UNCHANGED vars
    BY <1>7 DEF vars, OvershootBounded, Recent, Counted, Passed, At
<1>8. QED
    BY <1>1, <1>2, <1>3, <1>4, <1>5, <1>6, <1>7 DEF Next, Proceed

LEMMA BoundInit == Init => OvershootBounded
<1> SUFFICES ASSUME Init PROVE OvershootBounded
    OBVIOUS
<1>1. Recent = {} /\ Passed = {}
    BY DEF Init, Recent, Counted, Passed, At, AtRest
<1>2. QED
    BY <1>1, FS_EmptySet, PassedFinite, ThrottleAssumption
       DEF OvershootBounded

\* The login_failures table and the attempts keep their types.
THEOREM ThrottleTypeOK == Spec => []TypeOK
BY TypeInit, TypeStep, PTL DEF Spec

\* Attempts that check before any of them records overshoot the lock by at
\* most the number that run at once, for every threshold and window.
THEOREM LockOvershootBounded == Spec => []OvershootBounded
<1>1. TypeOK /\ TypeOK' /\ OvershootBounded /\ [Next]_vars
          => OvershootBounded'
    BY BoundStep
<1>2. QED
    BY <1>1, BoundInit, ThrottleTypeOK, PTL DEF Spec
=============================================================================

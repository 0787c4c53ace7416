-------------------------- MODULE SubmissionProofs --------------------------
(***************************************************************************)
(* What module Submission computes, for every limit, every configuration   *)
(* file, every set of bodies and every way the network cuts them into      *)
(* pieces: the upload budget holds, and the answer, the stored tags, the   *)
(* duration and the Sink are those the file and the body determine.        *)
(*                                                                         *)
(* The loops of the code are recursive functions over the length of a      *)
(* prefix.  That they have a value, and which, is proved by induction;     *)
(* induction itself follows from the least element of a set of numbers.    *)
(***************************************************************************)
EXTENDS Submission, TLAPS, FiniteSetTheorems, SequenceTheorems,
        WellFoundedInduction

-----------------------------------------------------------------------------
(* The upload budget.                                                      *)

\* Besides the budget: the counters are natural numbers, the part at hand is
\* one of the request's, and a handler that has answered stays so.
Inv ==
    /\ BudgetHeld
    /\ request \in Requests
    /\ at \in Nat
    /\ left \in Nat
    /\ written \in Nat
    /\ buffered \in Nat
    /\ answer # "none" => point \in {"answered", "routed"}

LEMMA InitInv == Init => Inv
BY SubmissionAssumption, SMT DEF Init, Inv, BudgetHeld

\* Whatever is answered, only a created Recording keeps its bytes.
LEMMA AnswerInv ==
    ASSUME Inv, UNCHANGED input, answer = "none", NEW with, Answer(with)
    PROVE  Inv'
BY SubmissionAssumption, SMT DEF Inv, BudgetHeld, Answer, reading, input

LEMMA ChunkInv ==
    ASSUME Inv, UNCHANGED input, NEW bytes \in 1..left, Chunk(bytes)
    PROVE  Inv'
<1>1. answer = "none"
  BY DEF Inv, Chunk
<1>2. CASE Answer("payload_too_large")
  BY <1>1, <1>2, AnswerInv
<1>3. CASE ~Answer("payload_too_large")
  <2>1. /\ Fits(bytes)
        /\ IsText(Part) => buffered + bytes <= MAX_TEXT_FIELD_BYTES
        /\ remaining' = Charged(bytes)
        /\ left' = left - bytes
        /\ written' = IF Part.name = "audio" THEN written + bytes ELSE written
        /\ buffered' = IF IsText(Part) THEN buffered + bytes ELSE buffered
        /\ UNCHANGED <<point, at, answer>>
    <3>1. ~(\/ ~Fits(bytes)
            \/ IsText(Part) /\ buffered + bytes > MAX_TEXT_FIELD_BYTES)
      BY <1>3, Zenon DEF Chunk
    <3>2. bytes \in Nat /\ buffered \in Nat /\ MAX_TEXT_FIELD_BYTES \in Nat
      BY SubmissionAssumption, SMT DEF Inv
    <3>3. IsText(Part) => buffered + bytes <= MAX_TEXT_FIELD_BYTES
      BY <3>1, <3>2, SMT
    <3> QED
      BY <3>1, <3>3, Zenon DEF Chunk
  <2>2. ~(IsText(Part) /\ Part.name = "audio")
    BY DEF IsText
  <2> QED
    BY <1>1, <2>1, <2>2, SubmissionAssumption, SMT
       DEF Inv, BudgetHeld, Fits, Charged, input
<1> QED
  BY <1>2, <1>3

\* One step per action of Next.
LEMMA NextInv == Inv /\ [Next]_vars => Inv'
<1> SUFFICES ASSUME Inv, [Next]_vars PROVE Inv'
  OBVIOUS
<1>1. CASE UNCHANGED vars
  BY <1>1 DEF vars, reading, input, Inv, BudgetHeld
<1>2. CASE Load /\ UNCHANGED input
  BY <1>2 DEF Load, reading, input, Inv, BudgetHeld
<1>3. CASE Identify /\ UNCHANGED input
  <2>1. answer = "none"
    BY <1>3 DEF Inv, Identify
  <2>2. \/ \E with \in {"missing_client_identity", "unknown_client",
                        "missing_recording_id"} : Answer(with)
        \/ point' = "between_fields" /\ UNCHANGED <<reading, answer>>
    BY <1>3, Zenon DEF Identify
  <2> QED
    BY <1>3, <2>1, <2>2, AnswerInv DEF Inv, BudgetHeld, reading, input
<1>4. CASE NextField /\ UNCHANGED input
  <2>1. answer = "none"
    BY <1>4 DEF Inv, NextField
  <2>2. CASE Answer("multiple_audio")
    BY <1>4, <2>1, <2>2, AnswerInv
  <2>3. CASE ~Answer("multiple_audio")
    <3>1. /\ at < Len(request.parts)
          /\ at' = at + 1
          /\ left' = request.parts[at + 1].size
          /\ UNCHANGED <<remaining, written, buffered, answer>>
      BY <1>4, <2>3, Zenon DEF NextField
    <3>2. at + 1 \in 1..Len(request.parts)
      BY <3>1, SubmissionAssumption, SMT DEF Inv
    <3>3. left' \in Nat
      <4>1. request.parts \in Seq(PartRecords)
        BY InputAssumption, Zenon DEF Inv
      <4>2. request.parts[at + 1] \in PartRecords
        BY <3>2, <4>1, ElementOfSeq
      <4> QED
        BY <3>1, <4>2 DEF PartRecords
    <3> QED
      BY <1>4, <2>1, <3>1, <3>3, SMT DEF Inv, BudgetHeld, input
  <2> QED
    BY <2>2, <2>3
<1>5. ASSUME NEW bytes \in 1..left, Chunk(bytes), UNCHANGED input
      PROVE  Inv'
  BY <1>5, ChunkInv
<1>6. CASE EndField /\ UNCHANGED input
  <2>1. answer = "none"
    BY <1>6 DEF Inv, EndField
  <2>2. CASE Answer("invalid_multipart")
    BY <1>6, <2>1, <2>2, AnswerInv
  <2>3. CASE ~Answer("invalid_multipart")
    <3>1. /\ buffered' = 0
          /\ UNCHANGED <<at, left, remaining, written, answer>>
      BY <1>6, <2>3, Zenon DEF EndField
    <3> QED
      BY <1>6, <2>1, <3>1, SubmissionAssumption, SMT
         DEF Inv, BudgetHeld, input
  <2> QED
    BY <2>2, <2>3
<1>7. CASE EndBody /\ UNCHANGED input
  <2>1. answer = "none"
    BY <1>7 DEF Inv, EndBody
  <2> QED
    BY <1>7, <2>1, AnswerInv, Zenon DEF EndBody
<1>8. CASE Route /\ UNCHANGED input
  BY <1>8 DEF Route, reading, input, Inv, BudgetHeld
<1> QED
  BY <1>1, <1>2, <1>3, <1>4, <1>5, <1>6, <1>7, <1>8, Zenon DEF Next

\* No body makes the handler hold more bytes than its budget has paid for.
THEOREM UploadBudgetHolds == Spec => []BudgetHeld
<1>1. Inv => BudgetHeld
  BY DEF Inv
<1> QED
  BY <1>1, InitInv, NextInv, PTL DEF Spec

-----------------------------------------------------------------------------
(* Induction, and recursion over the prefixes of a list.                   *)

Segment(n) == 1..n

LEMMA SegmentFinite ==
    ASSUME NEW n \in Nat
    PROVE  Segment(n) \in FiniteSubsetsOf(Nat)
<1>1. IsFiniteSet(1..n)
  BY FS_Interval, SMT
<1> QED
  BY <1>1 DEF FiniteSubsetsOf, Segment

\* Every set of natural numbers that is not empty has a least element: the
\* segments below its elements are well-founded under inclusion.
LEMMA LeastElement ==
    ASSUME NEW S \in SUBSET Nat, S # {}
    PROVE  \E m \in S : \A n \in S : m <= n
<1> DEFINE T == {Segment(n) : n \in S}
           R == StrictSubsetOrdering(Nat)
<1>1. IsWellFoundedOn(R, FiniteSubsetsOf(Nat))
  BY FS_StrictSubsetOrderingWellFounded
<1>2. T \subseteq FiniteSubsetsOf(Nat)
  BY SegmentFinite
<1>3. T # {}
  OBVIOUS
<1> HIDE DEF R, T
<1>4. PICK t \in T : \A y \in T : ~(<<y,t>> \in R)
  BY <1>1, <1>2, <1>3, WFMin
<1>5. PICK m \in S : t = Segment(m)
  BY <1>4 DEF T
<1>6. ASSUME NEW n \in S
      PROVE  m <= n
  <2>1. <<Segment(n), Segment(m)>> \notin R
    BY <1>4, <1>5 DEF T
  <2>2. n < m => /\ m \in Segment(m) \ Segment(n)
                 /\ Segment(n) \subseteq Segment(m)
    BY <1>6 DEF Segment
  <2>3. n < m => <<Segment(n), Segment(m)>> \in R
    BY <2>2 DEF R, StrictSubsetOrdering, Segment
  <2> QED
    BY <2>1, <2>3
<1> QED
  BY <1>5, <1>6

\* Induction up to n, for a property given as the set of numbers that have it.
LEMMA InductionUpTo ==
    ASSUME NEW n \in Nat, NEW S, 0 \in S,
           \A i \in 0..(n - 1) : i \in S => i + 1 \in S
    PROVE  0..n \subseteq S
<1> DEFINE U == (0..n) \ S
<1>1. U \in SUBSET Nat
  BY SMT
<1>2. SUFFICES ASSUME U # {} PROVE FALSE
  OBVIOUS
<1> HIDE DEF U
<1>3. PICK m \in U : \A i \in U : m <= i
  BY <1>1, <1>2, LeastElement
<1> QED
  BY <1>3, SMT DEF U

\* f is a recursion over the prefixes of a list of n entries: step gives the
\* value after the i-th entry from the value before it.
Recursive(f, n, D, base, step) ==
    /\ f \in [0..n -> D]
    /\ f[0] = base
    /\ \A i \in 1..n : f[i] = step[i][f[i - 1]]

\* A recursion over the prefixes of a list has a solution: step gives the
\* value after the i-th entry from the value before it.
LEMMA Recursion ==
    ASSUME NEW n \in Nat, NEW D, NEW base \in D,
           NEW step \in [1..n -> [D -> D]]
    PROVE  \E f : Recursive(f, n, D, base, step)
<1> DEFINE Solves(f, k) == /\ f \in [0..k -> D]
                           /\ f[0] = base
                           /\ \A i \in 1..k : f[i] = step[i][f[i - 1]]
           S == {k \in 0..n : \E f : Solves(f, k)}
<1>1. 0 \in S
  <2> DEFINE f == [i \in 0..0 |-> base]
  <2>1. Solves(f, 0)
    OBVIOUS
  <2> HIDE DEF f, Solves
  <2> QED
    BY <2>1
<1>2. ASSUME NEW k \in 0..(n - 1), k \in S
      PROVE  k + 1 \in S
  <2>1. PICK f : Solves(f, k)
    BY <1>2
  <2> DEFINE g == [i \in 0..(k + 1) |-> IF i <= k THEN f[i]
                                        ELSE step[k + 1][f[k]]]
  <2>2. k \in Nat /\ k + 1 \in 1..n /\ f[k] \in D
    BY <1>2, <2>1
  <2>3. step[k + 1][f[k]] \in D
    BY <2>2
  <2>4. g \in [0..(k + 1) -> D]
    BY <2>1, <2>2, <2>3
  <2>5. g[0] = base
    BY <2>1, <2>2
  <2>6. ASSUME NEW i \in 1..(k + 1)
        PROVE  g[i] = step[i][g[i - 1]]
    <3>1. i - 1 \in 0..k /\ g[i - 1] = f[i - 1]
      BY <2>2, <2>6
    <3>2. CASE i <= k
      BY <2>1, <2>2, <3>1, <3>2
    <3>3. CASE i = k + 1
      BY <2>2, <3>1, <3>3
    <3> QED
      BY <2>2, <3>2, <3>3
  <2> HIDE DEF g
  <2>7. Solves(g, k + 1)
    BY <2>4, <2>5, <2>6
  <2> HIDE DEF Solves
  <2> QED
    BY <2>2, <2>7
<1>3. n \in S
  <2> HIDE DEF S
  <2>1. 0..n \subseteq S
    BY <1>1, <1>2, InductionUpTo
  <2> QED
    BY <2>1
<1> QED
  BY <1>3, Zenon DEF Recursive

\* Every value of such a recursion is in D.
LEMMA RecursionType ==
    ASSUME NEW n \in Nat, NEW D, NEW f, f = [i \in 0..n |-> f[i]],
           f[0] \in D, \A i \in 1..n : f[i - 1] \in D => f[i] \in D
    PROVE  f \in [0..n -> D]
<1> DEFINE S == {k \in 0..n : f[k] \in D}
<1>1. 0 \in S
  OBVIOUS
<1>2. ASSUME NEW k \in 0..(n - 1), k \in S
      PROVE  k + 1 \in S
  <2>1. k + 1 \in 1..n /\ (k + 1) - 1 = k
    BY <1>2
  <2>2. f[k + 1] \in D
    BY <1>2, <2>1
  <2> QED
    BY <2>1, <2>2
<1>3. 0..n \subseteq S
  <2> HIDE DEF S
  <2> QED
    BY <1>1, <1>2, InductionUpTo
<1> QED
  BY <1>3

-----------------------------------------------------------------------------
(* Tags::new.                                                              *)

\* Adding a tag to a list of texts gives a list of texts.
LEMMA AddTagType ==
    ASSUME NEW seen \in Seq(STRING), NEW item \in RawTags
    PROVE  AddTag(seen, item) \in Seq(STRING)
<1>1. item.tag \in STRING
  BY DEF RawTags
<1>2. Append(seen, item.tag) \in Seq(STRING)
  BY <1>1
<1> QED
  BY <1>2, Zenon DEF AddTag

\* The loop of Tags::new has a value after every prefix of the list.
LEMMA NormalizingSteps ==
    ASSUME NEW list \in Seq(RawTags)
    PROVE  /\ Normalizing(list) \in [0..Len(list) -> Seq(STRING)]
           /\ Normalizing(list)[0] = <<>>
           /\ \A i \in 1..Len(list) :
                Normalizing(list)[i] =
                    AddTag(Normalizing(list)[i - 1], list[i])
<1> DEFINE n == Len(list)
           D == Seq(STRING)
           step == [i \in 1..n |-> [seen \in D |-> AddTag(seen, list[i])]]
           body(f) == [i \in 0..n |-> IF i = 0 THEN <<>>
                                      ELSE AddTag(f[i - 1], list[i])]
<1>1. n \in Nat /\ <<>> \in D /\ \A i \in 1..n : list[i] \in RawTags
  OBVIOUS
<1>2. \A i \in 1..n : \A seen \in D : AddTag(seen, list[i]) \in D
  BY <1>1, AddTagType
<1> HIDE DEF n, D
<1>3. PICK f : Recursive(f, n, D, <<>>, step)
  <2>1. step \in [1..n -> [D -> D]]
    BY <1>2
  <2> HIDE DEF step
  <2> QED
    BY <1>1, <2>1, Recursion
<1>4. f = body(f)
  <2>1. \A i \in 1..n : i - 1 \in 0..n
    BY <1>1, SMT
  <2>2. \A i \in 1..n : f[i] = AddTag(f[i - 1], list[i])
    BY <1>3, <2>1 DEF Recursive
  <2> QED
    BY <1>1, <1>3, <2>2 DEF Recursive
<1>5. Normalizing(list) = CHOOSE g : g = body(g)
  BY Zenon DEF Normalizing, n
<1>6. Normalizing(list) = body(Normalizing(list))
  BY <1>4, <1>5
<1> DEFINE g == Normalizing(list)
<1> HIDE DEF g
<1>7. /\ g = [i \in 0..n |-> g[i]]
      /\ g[0] = <<>>
      /\ \A i \in 1..n : g[i] = AddTag(g[i - 1], list[i])
  <2>1. g = body(g)
    BY <1>6 DEF g
  <2>2. 0 \in 0..n /\ \A i \in 1..n : i \in 0..n /\ i # 0
    BY <1>1
  <2> QED
    BY <2>1, <2>2
<1>8. g \in [0..n -> D]
  <2>1. \A i \in 1..n : g[i - 1] \in D => g[i] \in D
    BY <1>2, <1>7
  <2>2. g[0] \in D
    BY <1>1, <1>7
  <2> QED
    BY <1>1, <1>7, <2>1, <2>2, RecursionType
<1> QED
  BY <1>7, <1>8 DEF g, n, D
\* A tag is added once: the texts, and their number, grow together.
LEMMA AddTagSet ==
    ASSUME NEW seen \in Seq(STRING), NEW item \in RawTags,
           IsFiniteSet(ToSet(seen)), Len(seen) = Cardinality(ToSet(seen))
    PROVE  LET next == AddTag(seen, item)
           IN  /\ ToSet(next) = ToSet(seen) \cup {item.tag}
               /\ IsFiniteSet(ToSet(next))
               /\ Len(next) = Cardinality(ToSet(next))
<1>1. item.tag \in STRING
  BY DEF RawTags
<1>2. Contains(seen, item.tag) <=> item.tag \in ToSet(seen)
  <2>1. DOMAIN seen = 1..Len(seen)
    OBVIOUS
  <2> QED
    BY <2>1, Zenon DEF Contains, ToSet
<1>3. CASE Contains(seen, item.tag)
  BY <1>2, <1>3, Zenon DEF AddTag
<1>4. CASE ~Contains(seen, item.tag)
  <2> DEFINE next == Append(seen, item.tag)
  <2>1. AddTag(seen, item) = next
    BY <1>4 DEF AddTag
  <2>2. /\ DOMAIN next = 1..(Len(seen) + 1)
        /\ next[Len(seen) + 1] = item.tag
        /\ \A i \in 1..Len(seen) : next[i] = seen[i]
        /\ Len(next) = Len(seen) + 1
        /\ DOMAIN seen = 1..Len(seen) /\ Len(seen) \in Nat
    BY <1>1
  <2> HIDE DEF next
  <2>3. ToSet(next) = ToSet(seen) \cup {item.tag}
    <3>1. DOMAIN next = DOMAIN seen \cup {Len(seen) + 1}
      BY <2>2
    <3>2. \A i \in DOMAIN seen : next[i] = seen[i]
      BY <2>2, Zenon
    <3> QED
      BY <2>2, <3>1, <3>2, Zenon DEF ToSet
  <2>4. /\ IsFiniteSet(ToSet(seen) \cup {item.tag})
        /\ Cardinality(ToSet(seen) \cup {item.tag}) =
             Cardinality(ToSet(seen)) + 1
    BY <1>2, <1>4, FS_AddElement, Zenon
  <2> QED
    BY <2>1, <2>2, <2>3, <2>4
<1> QED
  BY <1>3, <1>4

\* What is kept are the distinct texts of the list.
LEMMA NormalizedSet ==
    ASSUME NEW list \in Seq(RawTags)
    PROVE  /\ Normalized(list) \in Seq(STRING)
           /\ ToSet(Normalized(list)) = Texts(list)
           /\ Len(Normalized(list)) = Cardinality(Texts(list))
<1> DEFINE n == Len(list)
           g == Normalizing(list)
           prefix(k) == {list[i].tag : i \in 1..k}
           S == {k \in 0..n : /\ ToSet(g[k]) = prefix(k)
                              /\ IsFiniteSet(ToSet(g[k]))
                              /\ Len(g[k]) = Cardinality(ToSet(g[k]))}
<1>1. /\ n \in Nat
      /\ \A i \in 1..n : list[i] \in RawTags
      /\ g \in [0..n -> Seq(STRING)]
      /\ g[0] = <<>>
      /\ \A i \in 1..n : g[i] = AddTag(g[i - 1], list[i])
  BY NormalizingSteps
<1> HIDE DEF n, g
<1>2. 0 \in S
  <2>1. ToSet(<<>>) = {} /\ prefix(0) = {} /\ Len(<<>>) = 0 /\ 0 \in 0..n
    BY <1>1 DEF ToSet
  <2> QED
    BY <1>1, <2>1, FS_EmptySet, Zenon
<1>3. ASSUME NEW k \in 0..(n - 1), k \in S
      PROVE  k + 1 \in S
  <2>1. k + 1 \in 1..n /\ (k + 1) - 1 = k /\ k \in 0..n
    BY <1>1, <1>3
  <2>2. g[k + 1] = AddTag(g[k], list[k + 1])
    BY <1>1, <2>1
  <2>3. /\ ToSet(g[k + 1]) = ToSet(g[k]) \cup {list[k + 1].tag}
        /\ IsFiniteSet(ToSet(g[k + 1]))
        /\ Len(g[k + 1]) = Cardinality(ToSet(g[k + 1]))
    <3>1. g[k] \in Seq(STRING) /\ list[k + 1] \in RawTags
      BY <1>1, <2>1
    <3>2. /\ IsFiniteSet(ToSet(g[k]))
          /\ Len(g[k]) = Cardinality(ToSet(g[k]))
      BY <1>3
    <3> QED
      BY <2>2, <3>1, <3>2, AddTagSet, Zenon
  <2>4. prefix(k + 1) = prefix(k) \cup {list[k + 1].tag}
    <3>1. 1..(k + 1) = (1..k) \cup {k + 1}
      BY <2>1
    <3> QED
      BY <3>1
  <2>5. ToSet(g[k]) = prefix(k) /\ k + 1 \in 0..n
    BY <1>1, <1>3
  <2> HIDE DEF prefix
  <2> QED
    BY <2>3, <2>4, <2>5
<1>4. n \in S
  <2>1. 0..n \subseteq S
    <3> HIDE DEF S
    <3> QED
      BY <1>1, <1>2, <1>3, InductionUpTo
  <2> QED
    BY <1>1, <2>1
<1>5. prefix(n) = Texts(list)
  BY DEF Texts, n
<1> QED
  BY <1>1, <1>4, <1>5 DEF Normalized, n, g

\* A list of tags is accepted exactly when its distinct texts are valid and
\* not too many; what is kept is those texts, each once.
THEOREM TagsNormalized ==
    ASSUME NEW list \in Seq(RawTags)
    PROVE  /\ NewTags(list).ok <=> AcceptableTags(list)
           /\ NewTags(list).ok =>
                /\ ToSet(NewTags(list).value) = Texts(list)
                /\ Len(NewTags(list).value) = Cardinality(Texts(list))
<1> DEFINE valid == Normalized(list)
<1>1. /\ valid \in Seq(STRING)
      /\ ToSet(valid) = Texts(list)
      /\ Len(valid) = Cardinality(Texts(list))
  BY NormalizedSet
<1> HIDE DEF valid
<1>2. (\A i \in DOMAIN valid : is_valid_tag(valid[i]))
        <=> Texts(list) \subseteq ValidTags
  BY <1>1, Zenon DEF ToSet, is_valid_tag
<1>3. NewTags(list) = IF AcceptableTags(list) THEN Ok(valid) ELSE Err
  BY <1>1, <1>2, Zenon DEF NewTags, AcceptableTags, valid
<1> QED
  BY <1>1, <1>3 DEF Ok, Err

-----------------------------------------------------------------------------
(* The Clients and the Sinks of the configuration file.                    *)

\* Result<Vec<S>, ConfigError>
Results(S) == {Err} \cup {Ok(v) : v \in Seq(S)}

\* A result that is Ok carries a list.
LEMMA ResultOk ==
    ASSUME NEW S, NEW result \in Results(S), result.ok
    PROVE  result.value \in Seq(S) /\ result = Ok(result.value)
BY DEF Results, Ok, Err

\* Checking one more Client gives a result.
LEMMA AddClientType ==
    ASSUME NEW accepted \in Results(RawClients), NEW client \in RawClients
    PROVE  AddClient(accepted, client) \in Results(RawClients)
<1>1. ASSUME accepted.ok
      PROVE  Ok(Append(accepted.value, client)) \in Results(RawClients)
  <2>1. Append(accepted.value, client) \in Seq(RawClients)
    BY <1>1, ResultOk
  <2> QED
    BY <2>1 DEF Results
<1>2. Err \in Results(RawClients)
  BY DEF Results
<1> QED
  BY <1>1, <1>2, Zenon DEF AddClient

\* The loop of validate_clients has a value after every prefix.
LEMMA AcceptingClientsSteps ==
    ASSUME NEW list \in Seq(RawClients)
    PROVE  /\ AcceptingClients(list) \in [0..Len(list) -> Results(RawClients)]
           /\ AcceptingClients(list)[0] = Ok(<<>>)
           /\ \A i \in 1..Len(list) :
                AcceptingClients(list)[i] =
                    AddClient(AcceptingClients(list)[i - 1], list[i])
<1> DEFINE n == Len(list)
           D == Results(RawClients)
           base == Ok(<<>>)
           step == [i \in 1..n |->
                       [accepted \in D |-> AddClient(accepted, list[i])]]
           body(f) == [i \in 0..n |-> IF i = 0 THEN base
                                      ELSE AddClient(f[i - 1], list[i])]
<1>1. n \in Nat /\ \A i \in 1..n : list[i] \in RawClients
  OBVIOUS
<1>2. base \in D
  BY EmptySeq, Zenon DEF Results
<1>3. \A i \in 1..n : \A accepted \in D : AddClient(accepted, list[i]) \in D
  BY <1>1, AddClientType
<1> HIDE DEF n, D, base
<1>4. PICK f : Recursive(f, n, D, base, step)
  <2>1. step \in [1..n -> [D -> D]]
    BY <1>3
  <2> HIDE DEF step
  <2> QED
    BY <1>1, <1>2, <2>1, Recursion
<1>5. f = body(f)
  <2>1. \A i \in 1..n : i - 1 \in 0..n
    BY <1>1, SMT
  <2>2. \A i \in 1..n : f[i] = AddClient(f[i - 1], list[i])
    BY <1>4, <2>1 DEF Recursive
  <2> QED
    BY <1>1, <1>4, <2>2 DEF Recursive
<1>6. AcceptingClients(list) = CHOOSE g : g = body(g)
  BY Zenon DEF AcceptingClients, n, base
<1>7. AcceptingClients(list) = body(AcceptingClients(list))
  BY <1>5, <1>6
<1> DEFINE g == AcceptingClients(list)
<1> HIDE DEF g
<1>8. /\ g = [i \in 0..n |-> g[i]]
      /\ g[0] = base
      /\ \A i \in 1..n : g[i] = AddClient(g[i - 1], list[i])
  <2>1. g = body(g)
    BY <1>7 DEF g
  <2>2. 0 \in 0..n /\ \A i \in 1..n : i \in 0..n /\ i # 0
    BY <1>1
  <2> QED
    BY <2>1, <2>2
<1>9. g \in [0..n -> D]
  <2>1. \A i \in 1..n : g[i - 1] \in D => g[i] \in D
    BY <1>3, <1>8
  <2>2. g[0] \in D
    BY <1>2, <1>8
  <2> QED
    BY <1>1, <1>8, <2>1, <2>2, RecursionType
<1> QED
  BY <1>8, <1>9, Zenon DEF g, n, D, base

\* Entry i of the list has no text that is missing and none that an earlier
\* entry has.
FreshClient(list, i) ==
    /\ list[i].name # "" /\ list[i].fingerprint # ""
    /\ \A j \in 1..(i - 1) : /\ list[j].name # list[i].name
                             /\ list[j].fingerprint # list[i].fingerprint

ClientsAccepted(result, list, k) ==
    /\ result.ok <=> \A i \in 1..k : FreshClient(list, i)
    /\ result.ok => /\ Len(result.value) = k
                    /\ \A i \in 1..k : result.value[i] = list[i]

\* One turn of the loop keeps a Client that is complete and new.
LEMMA AddClientExact ==
    ASSUME NEW list \in Seq(RawClients), NEW k \in 0..(Len(list) - 1),
           NEW result \in Results(RawClients), ClientsAccepted(result, list, k)
    PROVE  ClientsAccepted(AddClient(result, list[k + 1]), list, k + 1)
<1> DEFINE client == list[k + 1]
<1>1. /\ client \in RawClients
      /\ k \in Nat
      /\ 1..(k + 1) = (1..k) \cup {k + 1}
      /\ (k + 1) - 1 = k
  OBVIOUS
<1> HIDE DEF client
<1>2. CASE ~result.ok
  <2>1. AddClient(result, client) = Err
    BY <1>2 DEF AddClient
  <2>2. ~\A i \in 1..(k + 1) : FreshClient(list, i)
    BY <1>1, <1>2 DEF ClientsAccepted
  <2> QED
    BY <2>1, <2>2 DEF ClientsAccepted, Err, client
<1>3. CASE result.ok
  <2>1. /\ result.value \in Seq(RawClients)
        /\ Len(result.value) = k
        /\ \A i \in 1..k : result.value[i] = list[i]
    BY <1>3, ResultOk DEF ClientsAccepted
  <2>2. DOMAIN result.value = 1..k
    BY <2>1
  <2>3. /\ Taken(result.value, "name", client.name)
             <=> \E i \in 1..k : list[i].name = client.name
        /\ Taken(result.value, "fingerprint", client.fingerprint)
             <=> \E i \in 1..k : list[i].fingerprint = client.fingerprint
    BY <2>1, <2>2 DEF Taken
  <2>4. AddClient(result, client) = IF FreshClient(list, k + 1)
                                    THEN Ok(Append(result.value, client))
                                    ELSE Err
    BY <1>1, <1>3, <2>3 DEF AddClient, FreshClient, client
  <2>5. (\A i \in 1..(k + 1) : FreshClient(list, i))
          <=> FreshClient(list, k + 1)
    BY <1>1, <1>3 DEF ClientsAccepted
  <2> DEFINE next == Append(result.value, client)
  <2>6. /\ Len(next) = k + 1
        /\ \A i \in 1..k : next[i] = list[i]
        /\ next[k + 1] = client
    BY <1>1, <2>1
  <2>7. \A i \in 1..(k + 1) : next[i] = list[i]
    BY <1>1, <2>6 DEF client
  <2> HIDE DEF next
  <2>8. CASE FreshClient(list, k + 1)
    BY <2>4, <2>5, <2>6, <2>7, <2>8 DEF ClientsAccepted, Ok, next, client
  <2>9. CASE ~FreshClient(list, k + 1)
    BY <2>4, <2>5, <2>9 DEF ClientsAccepted, Err, client
  <2> QED
    BY <2>8, <2>9
<1> QED
  BY <1>2, <1>3

\* All Clients are kept, or the file is refused.
LEMMA ClientsExact ==
    ASSUME NEW list \in Seq(RawClients)
    PROVE  /\ validate_clients(list).ok
                <=> \A i \in 1..Len(list) : FreshClient(list, i)
           /\ validate_clients(list).ok => validate_clients(list).value = list
<1> DEFINE n == Len(list)
           g == AcceptingClients(list)
           S == {k \in 0..n : ClientsAccepted(g[k], list, k)}
<1>1. /\ n \in Nat
      /\ g \in [0..n -> Results(RawClients)]
      /\ g[0] = Ok(<<>>)
      /\ \A i \in 1..n : g[i] = AddClient(g[i - 1], list[i])
  BY AcceptingClientsSteps
<1> HIDE DEF g
<1>2. 0 \in S
  BY <1>1 DEF ClientsAccepted, Ok
<1>3. ASSUME NEW k \in 0..(n - 1), k \in S
      PROVE  k + 1 \in S
  <2>1. k + 1 \in 1..n /\ (k + 1) - 1 = k /\ k \in 0..n
    BY <1>1, <1>3
  <2>2. g[k + 1] = AddClient(g[k], list[k + 1])
    BY <1>1, <2>1
  <2>3. g[k] \in Results(RawClients) /\ ClientsAccepted(g[k], list, k)
    BY <1>1, <1>3, <2>1
  <2>4. ClientsAccepted(g[k + 1], list, k + 1)
    BY <1>3, <2>2, <2>3, AddClientExact
  <2> QED
    BY <2>1, <2>4
<1>4. ClientsAccepted(g[n], list, n)
  <2>1. 0..n \subseteq S
    <3> HIDE DEF S, n
    <3> QED
      BY <1>1, <1>2, <1>3, InductionUpTo
  <2> QED
    BY <1>1, <2>1
<1>5. validate_clients(list) = g[n]
  BY DEF validate_clients, g
<1>6. ASSUME g[n].ok PROVE g[n].value = list
  <2>1. g[n].value \in Seq(RawClients)
    BY <1>1, <1>6, ResultOk
  <2> QED
    BY <1>4, <1>6, <2>1, SeqEqual DEF ClientsAccepted
<1> QED
  BY <1>4, <1>5, <1>6 DEF ClientsAccepted

\* A Sink once its tags are normalised.
KeptSinks == [name : STRING, type : STRING, url : STRING,
              secret_env : STRING, match_tags : Seq(STRING)]

KeptSink(entry) == [entry EXCEPT !.match_tags = NewTags(@).value]

\* Tags that are accepted are a list of texts.
LEMMA NewTagsType ==
    ASSUME NEW list \in Seq(RawTags), NewTags(list).ok
    PROVE  NewTags(list).value \in Seq(STRING)
<1>1. NewTags(list) = Ok(Normalized(list)) \/ NewTags(list) = Err
  BY Zenon DEF NewTags
<1>2. Normalized(list) \in Seq(STRING)
  BY NormalizedSet
<1> QED
  BY <1>1, <1>2 DEF Ok, Err

\* Normalising its tags makes a Sink of the file a Sink.
LEMMA KeptSinkType ==
    ASSUME NEW entry \in RawSinks, NewTags(entry.match_tags).ok
    PROVE  KeptSink(entry) \in KeptSinks
<1>1. entry.match_tags \in Seq(RawTags)
  BY DEF RawSinks
<1>2. NewTags(entry.match_tags).value \in Seq(STRING)
  BY <1>1, NewTagsType
<1> QED
  BY <1>2 DEF RawSinks, KeptSinks, KeptSink

\* Checking one more Sink gives a result.
LEMMA AddSinkType ==
    ASSUME NEW accepted \in Results(KeptSinks), NEW entry \in RawSinks
    PROVE  AddSink(accepted, entry) \in Results(KeptSinks)
<1>1. ASSUME accepted.ok, NewTags(entry.match_tags).ok
      PROVE  Ok(Append(accepted.value, KeptSink(entry)))
                \in Results(KeptSinks)
  <2>1. KeptSink(entry) \in KeptSinks
    BY <1>1, KeptSinkType
  <2>2. Append(accepted.value, KeptSink(entry)) \in Seq(KeptSinks)
    BY <1>1, <2>1, ResultOk
  <2> QED
    BY <2>2 DEF Results
<1>2. Err \in Results(KeptSinks)
  BY DEF Results
<1> QED
  BY <1>1, <1>2, Zenon DEF AddSink, KeptSink

\* The loop of validate_sinks has a value after every prefix.
LEMMA AcceptingSinksSteps ==
    ASSUME NEW list \in Seq(RawSinks)
    PROVE  /\ AcceptingSinks(list) \in [0..Len(list) -> Results(KeptSinks)]
           /\ AcceptingSinks(list)[0] = Ok(<<>>)
           /\ \A i \in 1..Len(list) :
                AcceptingSinks(list)[i] =
                    AddSink(AcceptingSinks(list)[i - 1], list[i])
<1> DEFINE n == Len(list)
           D == Results(KeptSinks)
           base == Ok(<<>>)
           step == [i \in 1..n |->
                       [accepted \in D |-> AddSink(accepted, list[i])]]
           body(f) == [i \in 0..n |-> IF i = 0 THEN base
                                      ELSE AddSink(f[i - 1], list[i])]
<1>1. n \in Nat /\ \A i \in 1..n : list[i] \in RawSinks
  OBVIOUS
<1>2. base \in D
  BY EmptySeq, Zenon DEF Results
<1>3. \A i \in 1..n : \A accepted \in D : AddSink(accepted, list[i]) \in D
  BY <1>1, AddSinkType
<1> HIDE DEF n, D, base
<1>4. PICK f : Recursive(f, n, D, base, step)
  <2>1. step \in [1..n -> [D -> D]]
    BY <1>3
  <2> HIDE DEF step
  <2> QED
    BY <1>1, <1>2, <2>1, Recursion
<1>5. f = body(f)
  <2>1. \A i \in 1..n : i - 1 \in 0..n
    BY <1>1, SMT
  <2>2. \A i \in 1..n : f[i] = AddSink(f[i - 1], list[i])
    BY <1>4, <2>1 DEF Recursive
  <2> QED
    BY <1>1, <1>4, <2>2 DEF Recursive
<1>6. AcceptingSinks(list) = CHOOSE g : g = body(g)
  BY Zenon DEF AcceptingSinks, n, base
<1>7. AcceptingSinks(list) = body(AcceptingSinks(list))
  BY <1>5, <1>6
<1> DEFINE g == AcceptingSinks(list)
<1> HIDE DEF g
<1>8. /\ g = [i \in 0..n |-> g[i]]
      /\ g[0] = base
      /\ \A i \in 1..n : g[i] = AddSink(g[i - 1], list[i])
  <2>1. g = body(g)
    BY <1>7 DEF g
  <2>2. 0 \in 0..n /\ \A i \in 1..n : i \in 0..n /\ i # 0
    BY <1>1
  <2> QED
    BY <2>1, <2>2
<1>9. g \in [0..n -> D]
  <2>1. \A i \in 1..n : g[i - 1] \in D => g[i] \in D
    BY <1>3, <1>8
  <2>2. g[0] \in D
    BY <1>2, <1>8
  <2> QED
    BY <1>1, <1>8, <2>1, <2>2, RecursionType
<1> QED
  BY <1>8, <1>9, Zenon DEF g, n, D, base

\* Entry i of the list is a webhook with all its settings, and no earlier
\* entry has its name.
FreshSink(list, i) ==
    /\ list[i].name # "" /\ list[i].secret_env # ""
    /\ list[i].type = "webhook"
    /\ list[i].url = "http"
    /\ AcceptableTags(list[i].match_tags)
    /\ \A j \in 1..(i - 1) : list[j].name # list[i].name

SinksAccepted(result, list, k) ==
    /\ result.ok <=> \A i \in 1..k : FreshSink(list, i)
    /\ result.ok => /\ Len(result.value) = k
                    /\ \A i \in 1..k : result.value[i] = KeptSink(list[i])

\* One turn of the loop keeps a Sink that is complete and new.
LEMMA AddSinkExact ==
    ASSUME NEW list \in Seq(RawSinks), NEW k \in 0..(Len(list) - 1),
           NEW result \in Results(KeptSinks), SinksAccepted(result, list, k)
    PROVE  SinksAccepted(AddSink(result, list[k + 1]), list, k + 1)
<1> DEFINE entry == list[k + 1]
<1>1. /\ entry \in RawSinks
      /\ k \in Nat
      /\ 1..(k + 1) = (1..k) \cup {k + 1}
      /\ (k + 1) - 1 = k
  OBVIOUS
<1> HIDE DEF entry
<1>2. CASE ~result.ok
  <2>1. AddSink(result, entry) = Err
    BY <1>2, Zenon DEF AddSink
  <2>2. ~\A i \in 1..(k + 1) : FreshSink(list, i)
    BY <1>1, <1>2 DEF SinksAccepted
  <2> QED
    BY <2>1, <2>2 DEF SinksAccepted, Err, entry
<1>3. CASE result.ok
  <2>1. /\ result.value \in Seq(KeptSinks)
        /\ Len(result.value) = k
        /\ \A i \in 1..k : result.value[i] = KeptSink(list[i])
    BY <1>3, ResultOk DEF SinksAccepted
  <2>2. DOMAIN result.value = 1..k
    BY <2>1
  <2>3. \A i \in 1..k : KeptSink(list[i]).name = list[i].name
    <3>1. \A i \in 1..k : list[i] \in RawSinks
      OBVIOUS
    <3> QED
      BY <3>1 DEF KeptSink, RawSinks
  <2>4. Taken(result.value, "name", entry.name)
          <=> \E i \in 1..k : list[i].name = entry.name
    BY <2>1, <2>2, <2>3 DEF Taken
  <2>5. NewTags(entry.match_tags).ok <=> AcceptableTags(entry.match_tags)
    <3>1. entry.match_tags \in Seq(RawTags)
      BY <1>1 DEF RawSinks
    <3> QED
      BY <3>1, TagsNormalized
  <2> DEFINE next == Append(result.value, KeptSink(entry))
  <2>6. FreshSink(list, k + 1) <=>
           /\ entry.name # "" /\ entry.secret_env # ""
           /\ entry.type = "webhook" /\ entry.url = "http"
           /\ NewTags(entry.match_tags).ok
           /\ ~Taken(result.value, "name", entry.name)
    BY <1>1, <2>4, <2>5 DEF FreshSink, entry
  <2>7. AddSink(result, entry) = IF FreshSink(list, k + 1)
                                 THEN Ok(next)
                                 ELSE Err
    BY <1>3, <2>6, Zenon DEF AddSink, KeptSink
  <2>8. (\A i \in 1..(k + 1) : FreshSink(list, i))
          <=> FreshSink(list, k + 1)
    BY <1>1, <1>3 DEF SinksAccepted
  <2>9. CASE FreshSink(list, k + 1)
    <3>1. KeptSink(entry) \in KeptSinks
      BY <1>1, <2>6, <2>9, KeptSinkType
    <3>2. /\ Len(next) = k + 1
          /\ \A i \in 1..k : next[i] = result.value[i]
          /\ next[k + 1] = KeptSink(entry)
      BY <1>1, <2>1, <3>1
    <3> HIDE DEF next
    <3>3. \A i \in 1..(k + 1) : next[i] = KeptSink(list[i])
      BY <1>1, <2>1, <3>2 DEF entry
    <3> QED
      BY <2>7, <2>8, <2>9, <3>2, <3>3 DEF SinksAccepted, Ok, entry
  <2>10. CASE ~FreshSink(list, k + 1)
    BY <2>7, <2>8, <2>10 DEF SinksAccepted, Err, entry
  <2> QED
    BY <2>9, <2>10
<1> QED
  BY <1>2, <1>3

\* All Sinks are kept, or the file is refused.
LEMMA SinksExact ==
    ASSUME NEW list \in Seq(RawSinks)
    PROVE  /\ validate_sinks(list) \in Results(KeptSinks)
           /\ SinksAccepted(validate_sinks(list), list, Len(list))
<1> DEFINE n == Len(list)
           g == AcceptingSinks(list)
           S == {k \in 0..n : SinksAccepted(g[k], list, k)}
<1>1. /\ n \in Nat
      /\ g \in [0..n -> Results(KeptSinks)]
      /\ g[0] = Ok(<<>>)
      /\ \A i \in 1..n : g[i] = AddSink(g[i - 1], list[i])
  BY AcceptingSinksSteps
<1> HIDE DEF g
<1>2. 0 \in S
  BY <1>1 DEF SinksAccepted, Ok
<1>3. ASSUME NEW k \in 0..(n - 1), k \in S
      PROVE  k + 1 \in S
  <2>1. k + 1 \in 1..n /\ (k + 1) - 1 = k /\ k \in 0..n
    BY <1>1, <1>3
  <2>2. g[k + 1] = AddSink(g[k], list[k + 1])
    BY <1>1, <2>1
  <2>3. g[k] \in Results(KeptSinks) /\ SinksAccepted(g[k], list, k)
    BY <1>1, <1>3, <2>1
  <2>4. SinksAccepted(g[k + 1], list, k + 1)
    BY <1>3, <2>2, <2>3, AddSinkExact
  <2> QED
    BY <2>1, <2>4
<1>4. SinksAccepted(g[n], list, n)
  <2>1. 0..n \subseteq S
    <3> HIDE DEF S, n
    <3> QED
      BY <1>1, <1>2, <1>3, InductionUpTo
  <2> QED
    BY <1>1, <2>1
<1> QED
  BY <1>1, <1>4 DEF validate_sinks, g

\* No two entries share a text exactly when none has that of an earlier one.
LEMMA DistinctFromEarlier ==
    ASSUME NEW entries, NEW n \in Nat, DOMAIN entries = 1..n, NEW field
    PROVE  AllDistinct(entries, field) <=>
             \A i \in 1..n : \A j \in 1..(i - 1) :
                 entries[j][field] # entries[i][field]
<1>1. ASSUME AllDistinct(entries, field), NEW i \in 1..n, NEW j \in 1..(i - 1)
      PROVE  entries[j][field] # entries[i][field]
  <2>1. j \in 1..n /\ j # i
    BY <1>1
  <2> QED
    BY <1>1, <2>1 DEF AllDistinct
<1>2. ASSUME \A i \in 1..n : \A j \in 1..(i - 1) :
                 entries[j][field] # entries[i][field],
             NEW i \in 1..n, NEW j \in 1..n,
             entries[i][field] = entries[j][field]
      PROVE  i = j
  <2>1. i < j => i \in 1..(j - 1)
    OBVIOUS
  <2>2. j < i => j \in 1..(i - 1)
    OBVIOUS
  <2>3. i < j \/ j < i \/ i = j
    OBVIOUS
  <2> QED
    BY <1>2, <2>1, <2>2, <2>3
<1> QED
  BY <1>1, <1>2, Zenon DEF AllDistinct

\* The file is accepted exactly when it is well-formed; what is kept of it is
\* its Clients, and its Sinks in their order with their tags normalised.
THEOREM ConfigurationValidated ==
    ASSUME raw \in RawConfigs
    PROVE  /\ validate(raw).ok <=> WellFormed
           /\ validate(raw).ok =>
                LET valid == validate(raw).value
                IN  /\ valid.clients = raw.clients
                    /\ DOMAIN valid.sinks = DOMAIN raw.sinks
                    /\ \A i \in DOMAIN raw.sinks :
                         /\ valid.sinks[i].name = raw.sinks[i].name
                         /\ ToSet(valid.sinks[i].match_tags) =
                              Texts(raw.sinks[i].match_tags)
<1> DEFINE clients == raw.clients
           sinks == raw.sinks
<1>1. /\ clients \in Seq(RawClients) /\ sinks \in Seq(RawSinks)
      /\ Len(clients) \in Nat /\ Len(sinks) \in Nat
      /\ DOMAIN clients = 1..Len(clients) /\ DOMAIN sinks = 1..Len(sinks)
  <2>1. clients \in Seq(RawClients) /\ sinks \in Seq(RawSinks)
    BY InputAssumption
  <2> HIDE DEF clients, sinks
  <2> QED
    BY <2>1
<1> HIDE DEF clients, sinks
<1>2. /\ validate_clients(clients).ok
           <=> \A i \in 1..Len(clients) : FreshClient(clients, i)
      /\ validate_clients(clients).ok
           => validate_clients(clients).value = clients
  BY <1>1, ClientsExact
<1>3. SinksAccepted(validate_sinks(sinks), sinks, Len(sinks))
  BY <1>1, SinksExact
<1>4. (\A i \in 1..Len(clients) : FreshClient(clients, i)) <=>
        /\ AllDistinct(clients, "name")
        /\ AllDistinct(clients, "fingerprint")
        /\ \A i \in DOMAIN clients :
              "" \notin {clients[i].name, clients[i].fingerprint}
  <2>1. /\ AllDistinct(clients, "name") <=>
             \A i \in 1..Len(clients) : \A j \in 1..(i - 1) :
                 clients[j].name # clients[i].name
        /\ AllDistinct(clients, "fingerprint") <=>
             \A i \in 1..Len(clients) : \A j \in 1..(i - 1) :
                 clients[j].fingerprint # clients[i].fingerprint
    BY <1>1, DistinctFromEarlier
  <2> QED
    BY <1>1, <2>1 DEF FreshClient
<1>5. (\A i \in 1..Len(sinks) : FreshSink(sinks, i)) <=>
        /\ AllDistinct(sinks, "name")
        /\ \A i \in DOMAIN sinks :
              /\ "" \notin {sinks[i].name, sinks[i].secret_env}
              /\ sinks[i].type = "webhook"
              /\ sinks[i].url = "http"
              /\ AcceptableTags(sinks[i].match_tags)
  <2>1. AllDistinct(sinks, "name") <=>
             \A i \in 1..Len(sinks) : \A j \in 1..(i - 1) :
                 sinks[j].name # sinks[i].name
    BY <1>1, DistinctFromEarlier
  <2> QED
    BY <1>1, <2>1 DEF FreshSink
<1>6. validate(raw) =
        IF /\ validate_clients(clients).ok
           /\ validate_sinks(sinks).ok
           /\ validate_settings(raw)
        THEN Ok([clients |-> validate_clients(clients).value,
                 sinks |-> validate_sinks(sinks).value])
        ELSE Err
  BY Zenon DEF validate, clients, sinks
<1>7. validate(raw).ok <=> /\ validate_clients(clients).ok
                           /\ validate_sinks(sinks).ok
                           /\ validate_settings(raw)
  BY <1>6 DEF Ok, Err
<1>8. WellFormed <=>
        /\ \A i \in 1..Len(clients) : FreshClient(clients, i)
        /\ \A i \in 1..Len(sinks) : FreshSink(sinks, i)
        /\ validate_settings(raw)
  <2>1. validate_settings(raw) <=>
          "" \notin {raw.username, raw.password_hash_env, raw.api_key_env}
    BY DEF validate_settings
  <2> QED
    BY <1>4, <1>5, <2>1, Zenon DEF WellFormed, clients, sinks
<1>9. ASSUME validate(raw).ok
      PROVE  LET valid == validate(raw).value
             IN  /\ valid.clients = clients
                 /\ DOMAIN valid.sinks = DOMAIN sinks
                 /\ \A i \in DOMAIN sinks :
                      /\ valid.sinks[i].name = sinks[i].name
                      /\ ToSet(valid.sinks[i].match_tags) =
                           Texts(sinks[i].match_tags)
  <2> DEFINE valid == validate(raw).value
             result == validate_sinks(sinks)
  <2>1. valid = [clients |-> clients, sinks |-> result.value]
    BY <1>2, <1>6, <1>7, <1>9 DEF Ok
  <2>2. /\ \A i \in 1..Len(sinks) : FreshSink(sinks, i)
        /\ Len(result.value) = Len(sinks)
        /\ \A i \in 1..Len(sinks) : result.value[i] = KeptSink(sinks[i])
    BY <1>3, <1>7, <1>9 DEF SinksAccepted
  <2>3. DOMAIN result.value = DOMAIN sinks
    <3>1. result.value \in Seq(KeptSinks)
      BY <1>1, <1>7, <1>9, SinksExact, ResultOk
    <3> QED
      BY <1>1, <2>2, <3>1
  <2>4. ASSUME NEW i \in DOMAIN sinks
        PROVE  /\ KeptSink(sinks[i]).name = sinks[i].name
               /\ ToSet(KeptSink(sinks[i]).match_tags) =
                    Texts(sinks[i].match_tags)
    <3>1. sinks[i] \in RawSinks
      BY <1>1, <2>4
    <3> DEFINE entry == sinks[i]
    <3> HIDE DEF entry
    <3>4. entry.match_tags \in Seq(RawTags)
      BY <3>1 DEF RawSinks, entry
    <3>2. /\ KeptSink(sinks[i]).name = sinks[i].name
          /\ KeptSink(sinks[i]).match_tags =
                NewTags(sinks[i].match_tags).value
      BY <3>1 DEF KeptSink, RawSinks
    <3>3. AcceptableTags(sinks[i].match_tags)
      BY <1>1, <2>2, <2>4 DEF FreshSink
    <3> QED
      BY <3>2, <3>3, <3>4, TagsNormalized DEF entry
  <2> QED
    BY <1>1, <2>1, <2>2, <2>3, <2>4
<1> QED
  BY <1>2, <1>3, <1>7, <1>8, <1>9 DEF SinksAccepted, clients, sinks

-----------------------------------------------------------------------------
(* The first of several: lookups and routing.                              *)

\* The minimum of a set of numbers is its least element.
LEMMA MinIsLeast ==
    ASSUME NEW S \in SUBSET Nat, S # {}
    PROVE  Min(S) \in S /\ \A n \in S : Min(S) <= n
<1>1. \E m \in S : \A n \in S : m <= n
  BY LeastElement
<1> QED
  BY <1>1, Zenon DEF Min

\* A least element of a set is its minimum.
LEMMA MinIs ==
    ASSUME NEW S \in SUBSET Nat, NEW m \in S, \A n \in S : m <= n
    PROVE  Min(S) = m
<1>1. Min(S) \in S /\ \A n \in S : Min(S) <= n
  BY MinIsLeast
<1>2. Min(S) \in Nat /\ m \in Nat /\ Min(S) <= m /\ m <= Min(S)
  BY <1>1
<1> QED
  BY <1>2

\* A greatest element of a set is its maximum.
LEMMA MaxIs ==
    ASSUME NEW S \in SUBSET Nat, NEW m \in S, \A n \in S : n <= m
    PROVE  Max(S) = m
<1>1. \A n \in S : m >= n
  OBVIOUS
<1>2. Max(S) \in S /\ \A n \in S : Max(S) >= n
  BY <1>1, Zenon DEF Max
<1>3. Max(S) \in Nat /\ m \in Nat /\ Max(S) >= m /\ Max(S) <= m
  BY <1>2
<1> QED
  BY <1>3

\* A fingerprint is known exactly when a Client of the file has it.
LEMMA ClientKnown ==
    ASSUME NEW valid, valid.clients = raw.clients, NEW fingerprint
    PROVE  client_by_fingerprint(valid, fingerprint).ok
             <=> \E i \in DOMAIN raw.clients :
                    raw.clients[i].fingerprint = fingerprint
<1> DEFINE known == {i \in DOMAIN raw.clients :
                        raw.clients[i].fingerprint = fingerprint}
<1>1. client_by_fingerprint(valid, fingerprint)
        = IF known = {} THEN Err ELSE Ok(valid.clients[Min(known)].name)
  BY Zenon DEF client_by_fingerprint
<1>2. known = {} <=> ~\E i \in DOMAIN raw.clients :
                         raw.clients[i].fingerprint = fingerprint
  OBVIOUS
<1> QED
  BY <1>1, <1>2 DEF Ok, Err

\* A Recording with the tags that were sent goes to the first Sink of the
\* file that shares one of them, or to the Backlog when none does.
THEOREM FirstSharingSink ==
    ASSUME raw \in RawConfigs, validate(raw).ok,
           NEW sent, ToSet(sent) = SentTags
    PROVE  route(routing_rules(validate(raw).value), sent) = SpecifiedSink
<1> DEFINE valid == validate(raw).value
           rules == routing_rules(valid)
           matching == {i \in DOMAIN rules :
                           intersects(rules[i].match_tags, sent)}
           sharing == {i \in DOMAIN raw.sinks :
                          Texts(raw.sinks[i].match_tags) \cap SentTags # {}}
<1>1. /\ DOMAIN valid.sinks = DOMAIN raw.sinks
      /\ \A i \in DOMAIN raw.sinks :
           /\ valid.sinks[i].name = raw.sinks[i].name
           /\ ToSet(valid.sinks[i].match_tags) =
                Texts(raw.sinks[i].match_tags)
  BY ConfigurationValidated
<1> HIDE DEF valid
<1>2. /\ DOMAIN rules = DOMAIN raw.sinks
      /\ \A i \in DOMAIN raw.sinks :
           /\ rules[i].sink_name = raw.sinks[i].name
           /\ rules[i].match_tags = valid.sinks[i].match_tags
  BY <1>1 DEF routing_rules
<1> HIDE DEF rules
<1>3. matching = sharing
  BY <1>1, <1>2, Zenon DEF intersects
<1>4. route(rules, sent) = IF matching = {} THEN "backlog"
                           ELSE rules[Min(matching)].sink_name
  BY Zenon DEF route
<1>5. SpecifiedSink = IF sharing = {} THEN "backlog"
                      ELSE raw.sinks[Min(sharing)].name
  BY Zenon DEF SpecifiedSink
<1>6. DOMAIN raw.sinks \subseteq Nat
  <2>1. raw.sinks \in Seq(RawSinks)
    BY InputAssumption
  <2> QED
    BY <2>1
<1>7. sharing # {} => Min(sharing) \in DOMAIN raw.sinks
  <2>1. sharing \in SUBSET Nat /\ sharing \subseteq DOMAIN raw.sinks
    BY <1>6
  <2> HIDE DEF sharing
  <2> QED
    BY <2>1, MinIsLeast
<1> HIDE DEF sharing, matching
<1> QED
  BY <1>2, <1>3, <1>4, <1>5, <1>7, Zenon DEF rules, valid

-----------------------------------------------------------------------------
(* The walk over the chunks of a WAV file.                                 *)

\* An odd size is padded to the next even one.
LEMMA Padding ==
    ASSUME NEW size \in Nat
    PROVE  /\ size % 2 \in Nat
           /\ 2 * ((size + 1) \div 2) = size + (size % 2)
OBVIOUS

\* The chunks end where advancing from one to the next leads.
LEMMA EndsSteps ==
    ASSUME NEW file, file.chunks \in Seq(ChunkRecords)
    PROVE  /\ Ends(file) \in [0..Len(file.chunks) -> Nat]
           /\ Ends(file)[0] = RIFF_LEN
           /\ \A i \in 1..Len(file.chunks) :
                Ends(file)[i] = Ends(file)[i - 1] + Advance(file.chunks[i])
<1> DEFINE list == file.chunks
           n == Len(list)
           padded(i) == 2 * ((list[i].size + 1) \div 2)
           step == [i \in 1..n |->
                       [end \in Nat |-> end + CHUNK_HEAD_LEN + padded(i)]]
           body(f) == [i \in 0..n |->
                          IF i = 0 THEN RIFF_LEN
                          ELSE f[i - 1] + CHUNK_HEAD_LEN + padded(i)]
<1> HIDE DEF list
<1>1. n \in Nat /\ \A i \in 1..n : list[i] \in ChunkRecords
  BY DEF list
<1>2. \A i \in 1..n : list[i].size \in Nat
  BY <1>1 DEF ChunkRecords
<1>3. \A i \in 1..n :
         /\ padded(i) \in Nat
         /\ CHUNK_HEAD_LEN + padded(i) = Advance(list[i])
  <2>1. ASSUME NEW i \in 1..n
        PROVE  /\ padded(i) \in Nat
               /\ CHUNK_HEAD_LEN + padded(i) = Advance(list[i])
    <3> DEFINE size == list[i].size
    <3>1. size \in Nat
      BY <1>2, <2>1
    <3>2. Advance(list[i]) = CHUNK_HEAD_LEN + size + (size % 2)
      BY Zenon DEF Advance
    <3> HIDE DEF size
    <3>3. size % 2 \in Nat /\ 2 * ((size + 1) \div 2) = size + (size % 2)
      BY <3>1, Padding
    <3> DEFINE odd == size % 2
               double == 2 * ((size + 1) \div 2)
    <3> HIDE DEF odd, double
    <3>4. odd \in Nat /\ double = size + odd
      BY <3>3 DEF odd, double
    <3>5. CHUNK_HEAD_LEN + size + odd = CHUNK_HEAD_LEN + double
      BY <3>1, <3>4, WavAssumption
    <3> QED
      BY <3>1, <3>2, <3>4, <3>5 DEF odd, double, size
  <2> QED
    BY <2>1, Zenon
<1>4. \A i \in 1..n : \A end \in Nat : end + CHUNK_HEAD_LEN + padded(i) \in Nat
  BY <1>3, WavAssumption
<1>5. RIFF_LEN \in Nat
  BY WavAssumption
<1> HIDE DEF n, padded
<1>6. PICK f : Recursive(f, n, Nat, RIFF_LEN, step)
  <2>1. step \in [1..n -> [Nat -> Nat]]
    BY <1>4
  <2> HIDE DEF step
  <2> QED
    BY <1>1, <1>5, <2>1, Recursion
<1>7. f = body(f)
  <2>1. \A i \in 1..n : i - 1 \in 0..n
    BY <1>1, SMT
  <2>2. \A i \in 1..n : f[i] = f[i - 1] + CHUNK_HEAD_LEN + padded(i)
    BY <1>6, <2>1 DEF Recursive
  <2> QED
    BY <1>1, <1>6, <2>2 DEF Recursive
<1>8. Ends(file) = CHOOSE g : g = body(g)
  BY Zenon DEF Ends, n, list, padded
<1>9. Ends(file) = body(Ends(file))
  BY <1>7, <1>8
<1> DEFINE g == Ends(file)
<1> HIDE DEF g
<1>10. /\ g = [i \in 0..n |-> g[i]]
       /\ g[0] = RIFF_LEN
       /\ \A i \in 1..n : g[i] = g[i - 1] + CHUNK_HEAD_LEN + padded(i)
  <2>1. g = body(g)
    BY <1>9 DEF g
  <2>2. 0 \in 0..n /\ \A i \in 1..n : i \in 0..n /\ i # 0
    BY <1>1
  <2> QED
    BY <2>1, <2>2
<1>11. g \in [0..n -> Nat]
  <2>1. \A i \in 1..n : g[i - 1] \in Nat => g[i] \in Nat
    BY <1>4, <1>10
  <2>2. g[0] \in Nat
    BY <1>5, <1>10
  <2> QED
    BY <1>1, <1>10, <2>1, <2>2, RecursionType
<1>12. \A i \in 1..n : g[i] = g[i - 1] + Advance(list[i])
  <2>1. ASSUME NEW i \in 1..n
        PROVE  g[i] = g[i - 1] + Advance(list[i])
    <3>1. g[i - 1] \in Nat
      BY <1>1, <1>11, <2>1
    <3>2. g[i] = g[i - 1] + CHUNK_HEAD_LEN + padded(i)
      BY <1>10, <2>1
    <3>3. padded(i) \in Nat /\ CHUNK_HEAD_LEN + padded(i) = Advance(list[i])
      BY <1>3, <2>1
    <3> QED
      BY <3>1, <3>2, <3>3, WavAssumption
  <2> QED
    BY <2>1
<1> QED
  BY <1>10, <1>11, <1>12, Zenon DEF g, n, list

ScanRecords == [offset : Nat, stopped : BOOLEAN, malformed : BOOLEAN,
                fmt : Seq(ChunkRecords), data : Seq(ChunkRecords)]

FirstScan == [offset |-> RIFF_LEN, stopped |-> FALSE, malformed |-> FALSE,
              fmt |-> <<>>, data |-> <<>>]

\* The walk begins in a state of its own type.
LEMMA FirstScanType == FirstScan \in ScanRecords
<1>1. <<>> \in Seq(ChunkRecords)
  BY EmptySeq
<1> QED
  BY <1>1, WavAssumption DEF FirstScan, ScanRecords

\* A turn of the walk stays in the type.
LEMMA ScanChunkType ==
    ASSUME NEW len \in Nat, NEW scan \in ScanRecords,
           NEW chunk \in ChunkRecords
    PROVE  ScanChunk(len, scan, chunk) \in ScanRecords
<1>1. Advance(chunk) \in Nat
  BY WavAssumption DEF ChunkRecords, Advance
<1>2. <<chunk>> \in Seq(ChunkRecords)
  OBVIOUS
<1>3. scan.offset + Advance(chunk) \in Nat
  BY <1>1 DEF ScanRecords
<1> QED
  BY <1>2, <1>3 DEF ScanRecords, ScanChunk

\* The walk has a state after every chunk.
LEMMA ScanningSteps ==
    ASSUME NEW file, file.chunks \in Seq(ChunkRecords), NEW len \in Nat
    PROVE  /\ Scanning(file, len) \in [0..Len(file.chunks) -> ScanRecords]
           /\ Scanning(file, len)[0] = FirstScan
           /\ \A i \in 1..Len(file.chunks) :
                Scanning(file, len)[i] =
                    ScanChunk(len, Scanning(file, len)[i - 1], file.chunks[i])
<1> DEFINE list == file.chunks
           n == Len(list)
           D == ScanRecords
           base == FirstScan
           step == [i \in 1..n |->
                       [scan \in D |-> ScanChunk(len, scan, list[i])]]
           body(f) == [i \in 0..n |-> IF i = 0 THEN base
                                      ELSE ScanChunk(len, f[i - 1], list[i])]
<1> HIDE DEF list
<1>1. n \in Nat /\ \A i \in 1..n : list[i] \in ChunkRecords
  BY DEF list
<1>2. base \in D
  BY FirstScanType
<1>3. \A i \in 1..n : \A scan \in D : ScanChunk(len, scan, list[i]) \in D
  BY <1>1, ScanChunkType
<1> HIDE DEF n, D, base
<1>4. PICK f : Recursive(f, n, D, base, step)
  <2>1. step \in [1..n -> [D -> D]]
    BY <1>3
  <2> HIDE DEF step
  <2> QED
    BY <1>1, <1>2, <2>1, Recursion
<1>5. f = body(f)
  <2>1. \A i \in 1..n : i - 1 \in 0..n
    BY <1>1, SMT
  <2>2. \A i \in 1..n : f[i] = ScanChunk(len, f[i - 1], list[i])
    BY <1>4, <2>1 DEF Recursive
  <2> QED
    BY <1>1, <1>4, <2>2 DEF Recursive
<1>6. Scanning(file, len) = CHOOSE g : g = body(g)
  BY Zenon DEF Scanning, n, list, base, FirstScan
<1>7. Scanning(file, len) = body(Scanning(file, len))
  BY <1>5, <1>6
<1> DEFINE g == Scanning(file, len)
<1> HIDE DEF g
<1>8. /\ g = [i \in 0..n |-> g[i]]
      /\ g[0] = base
      /\ \A i \in 1..n : g[i] = ScanChunk(len, g[i - 1], list[i])
  <2>1. g = body(g)
    BY <1>7 DEF g
  <2>2. 0 \in 0..n /\ \A i \in 1..n : i \in 0..n /\ i # 0
    BY <1>1
  <2> QED
    BY <2>1, <2>2
<1>9. g \in [0..n -> D]
  <2>1. \A i \in 1..n : g[i - 1] \in D => g[i] \in D
    BY <1>3, <1>8
  <2>2. g[0] \in D
    BY <1>2, <1>8
  <2> QED
    BY <1>1, <1>8, <2>1, <2>2, RecursionType
<1> QED
  BY <1>8, <1>9, Zenon DEF g, n, D, base, list

Reached(file, len, i) ==
    /\ Ends(file)[i - 1] + CHUNK_HEAD_LEN <= len
    /\ \A j \in 1..(i - 1) : file.chunks[j].id # "data"

Met(file, len, id, k) ==
    {i \in 1..k : file.chunks[i].id = id /\ Reached(file, len, i)}

CutOff(file, len, i) ==
    Ends(file)[i - 1] + CHUNK_HEAD_LEN + FMT_BODY_LEN > len

\* What the walk knows after k chunks, unless a fmt chunk was cut off.
Intact(scan, file, len, k) ==
    /\ ~scan.stopped <=>
         \A i \in 1..k : /\ Reached(file, len, i)
                         /\ file.chunks[i].id # "data"
    /\ ~scan.stopped => scan.offset = Ends(file)[k]
    /\ scan.fmt = <<>> <=> Met(file, len, "fmt", k) = {}
    /\ \A i \in Met(file, len, "fmt", k) :
          (\A j \in Met(file, len, "fmt", k) : j <= i)
             => scan.fmt = <<file.chunks[i]>>
    /\ scan.data = <<>> <=> Met(file, len, "data", k) = {}
    /\ \A i \in Met(file, len, "data", k) : scan.data = <<file.chunks[i]>>

Walked(scan, file, len, k) ==
    /\ scan.malformed <=>
         \E i \in Met(file, len, "fmt", k) : CutOff(file, len, i)
    /\ scan.malformed => scan.stopped
    /\ ~scan.malformed => Intact(scan, file, len, k)

\* One more chunk is met, or the chunks met are the same.
LEMMA MetGrows ==
    ASSUME NEW file, NEW len, NEW id, NEW k \in Nat
    PROVE  Met(file, len, id, k + 1) =
              IF file.chunks[k + 1].id = id /\ Reached(file, len, k + 1)
              THEN Met(file, len, id, k) \cup {k + 1}
              ELSE Met(file, len, id, k)
<1>1. 1..(k + 1) = (1..k) \cup {k + 1}
  OBVIOUS
<1> QED
  BY <1>1, Zenon DEF Met

\* The chunks end one after the other.
LEMMA EndsGrow ==
    ASSUME NEW file, file.chunks \in Seq(ChunkRecords),
           NEW k \in 0..Len(file.chunks)
    PROVE  \A i \in 0..k : Ends(file)[i] <= Ends(file)[k]
<1> DEFINE n == Len(file.chunks)
           S == {m \in 0..k : \A i \in 0..m : Ends(file)[i] <= Ends(file)[m]}
<1>1. /\ n \in Nat
      /\ Ends(file) \in [0..n -> Nat]
      /\ \A i \in 1..n :
            Ends(file)[i] = Ends(file)[i - 1] + Advance(file.chunks[i])
  BY EndsSteps
<1>2. \A i \in 1..n : Advance(file.chunks[i]) \in Nat
  <2>1. ASSUME NEW chunk \in ChunkRecords
        PROVE  Advance(chunk) \in Nat
    <3>1. chunk.size \in Nat
      BY <2>1 DEF ChunkRecords
    <3>2. chunk.size % 2 \in Nat
      BY <3>1, Padding
    <3> QED
      BY <3>1, <3>2, WavAssumption DEF Advance
  <2> QED
    BY <2>1
<1> HIDE DEF n
<1>3. 0 \in S
  BY <1>1
<1>4. ASSUME NEW m \in 0..(k - 1), m \in S
      PROVE  m + 1 \in S
  <2>1. m + 1 \in 1..n /\ (m + 1) - 1 = m /\ m \in 0..n /\ m + 1 \in 0..k
    BY <1>1, <1>4 DEF n
  <2>2. /\ Ends(file)[m + 1] = Ends(file)[m] + Advance(file.chunks[m + 1])
        /\ Advance(file.chunks[m + 1]) \in Nat
        /\ Ends(file)[m] \in Nat
    BY <1>1, <1>2, <2>1
  <2>3. Ends(file)[m] <= Ends(file)[m + 1]
    BY <2>2
  <2>4. ASSUME NEW i \in 0..(m + 1)
        PROVE  Ends(file)[i] <= Ends(file)[m + 1]
    <3>1. CASE i = m + 1
      BY <1>1, <2>1, <3>1 DEF n
    <3>2. CASE i \in 0..m
      <4>1. /\ Ends(file)[i] \in Nat
            /\ Ends(file)[i] <= Ends(file)[m]
            /\ Ends(file)[m + 1] \in Nat
        BY <1>1, <1>4, <2>1, <3>2
      <4> QED
        BY <2>2, <2>3, <4>1
    <3> QED
      BY <2>1, <2>4, <3>1, <3>2
  <2> QED
    BY <2>1, <2>4
<1>5. k \in S
  <2>1. k \in Nat
    OBVIOUS
  <2> HIDE DEF S
  <2>2. 0..k \subseteq S
    BY <1>3, <1>4, <2>1, InductionUpTo
  <2> QED
    BY <2>1, <2>2
<1> QED
  BY <1>5

\* Once the walk has stopped it reaches no further chunk.
LEMMA StaysStopped ==
    ASSUME NEW file, file.chunks \in Seq(ChunkRecords), NEW len \in Nat,
           NEW k \in 0..(Len(file.chunks) - 1), NEW i \in 1..k,
           ~Reached(file, len, i) \/ file.chunks[i].id = "data"
    PROVE  ~Reached(file, len, k + 1)
<1>1. /\ Ends(file) \in [0..Len(file.chunks) -> Nat]
      /\ k \in 0..Len(file.chunks) /\ Len(file.chunks) \in Nat
  BY EndsSteps
<1>2. /\ Ends(file)[i - 1] <= Ends(file)[k]
      /\ Ends(file)[i - 1] \in Nat /\ Ends(file)[k] \in Nat
  <2>1. i - 1 \in 0..k /\ i - 1 \in 0..Len(file.chunks)
    BY <1>1
  <2> QED
    BY <1>1, <2>1, EndsGrow
<1>3. (k + 1) - 1 = k /\ i \in 1..k /\ \A j \in 1..(i - 1) : j \in 1..k
  OBVIOUS
<1>4. SUFFICES ASSUME Reached(file, len, k + 1) PROVE FALSE
  OBVIOUS
<1>5. /\ Ends(file)[k] + CHUNK_HEAD_LEN <= len
      /\ \A j \in 1..k : file.chunks[j].id # "data"
  BY <1>3, <1>4 DEF Reached
<1>6. Ends(file)[i - 1] + CHUNK_HEAD_LEN <= len
  BY <1>2, <1>5, WavAssumption
<1>7. Reached(file, len, i)
  BY <1>3, <1>5, <1>6, Zenon DEF Reached
<1> QED
  BY <1>3, <1>5, <1>7

\* A field that is there is not absent.
LEMMA SingletonNotEmpty ==
    ASSUME NEW c
    PROVE  <<c>> # <<>>
OBVIOUS

\* One turn of the loop in parse_header keeps what the walk knows true.
LEMMA WalkStep ==
    ASSUME NEW file, file.chunks \in Seq(ChunkRecords), NEW len \in Nat,
           NEW k \in 0..(Len(file.chunks) - 1), NEW scan \in ScanRecords,
           Walked(scan, file, len, k)
    PROVE  Walked(ScanChunk(len, scan, file.chunks[k + 1]), file, len, k + 1)
<1> DEFINE chunk == file.chunks[k + 1]
           body == scan.offset + CHUNK_HEAD_LEN
           advanced == [scan EXCEPT !.offset = @ + Advance(chunk)]
           next == ScanChunk(len, scan, chunk)
           met(id, m) == Met(file, len, id, m)
           reached == Reached(file, len, k + 1)
           before == \A i \in 1..k : /\ Reached(file, len, i)
                                     /\ file.chunks[i].id # "data"
<1>1. /\ k \in Nat /\ k + 1 \in 1..Len(file.chunks)
      /\ 1..(k + 1) = (1..k) \cup {k + 1} /\ k + 1 \notin 1..k
      /\ (k + 1) - 1 = k
      /\ chunk \in ChunkRecords
  OBVIOUS
<1>2. \A id : met(id, k) \subseteq 1..k
  BY DEF Met
<1>3. \A id : met(id, k + 1) = IF chunk.id = id /\ reached
                               THEN met(id, k) \cup {k + 1}
                               ELSE met(id, k)
  <2> SUFFICES ASSUME NEW id
               PROVE  met(id, k + 1) = IF chunk.id = id /\ reached
                                       THEN met(id, k) \cup {k + 1}
                                       ELSE met(id, k)
    OBVIOUS
  <2>1. k \in Nat
    BY <1>1
  <2> QED
    BY <2>1, MetGrows, Zenon
<1>4. reached => before
  <2>1. ASSUME NEW i \in 1..k,
               ~Reached(file, len, i) \/ file.chunks[i].id = "data"
        PROVE  ~reached
    BY <2>1, StaysStopped
  <2> QED
    BY <2>1
<1>5. Ends(file)[k + 1] = Ends(file)[k] + Advance(chunk)
  BY <1>1, EndsSteps
<1>6. next = IF scan.stopped \/ body > len
             THEN [scan EXCEPT !.stopped = TRUE]
             ELSE IF chunk.id = "fmt"
             THEN IF body + FMT_BODY_LEN > len
                  THEN [scan EXCEPT !.stopped = TRUE, !.malformed = TRUE]
                  ELSE [advanced EXCEPT !.fmt = <<chunk>>]
             ELSE IF chunk.id = "data"
             THEN [scan EXCEPT !.stopped = TRUE, !.data = <<chunk>>]
             ELSE advanced
  BY Zenon DEF ScanChunk
<1>7. \A i \in 1..(k + 1) : i \in 1..k \/ i = k + 1
  BY <1>1
<1> HIDE DEF next, chunk, met, reached, before, body, advanced
\* Nothing more is learnt.
<1>8. CASE scan.malformed
  <2>1. next = [scan EXCEPT !.stopped = TRUE]
    BY <1>6, <1>8 DEF Walked
  <2>2. next.malformed /\ next.stopped
    BY <1>8, <2>1 DEF ScanRecords
  <2>3. met("fmt", k) \subseteq met("fmt", k + 1)
    <3>1. CASE chunk.id = "fmt" /\ reached
      BY <1>3, <3>1
    <3>2. CASE ~(chunk.id = "fmt" /\ reached)
      BY <1>3, <3>2, Zenon
    <3> QED
      BY <3>1, <3>2
  <2>4. \E i \in met("fmt", k + 1) : CutOff(file, len, i)
    BY <1>8, <2>3 DEF Walked, met
  <2> QED
    BY <2>2, <2>4 DEF Walked, met, next, chunk
<1>9. CASE ~scan.malformed /\ ~reached
  <2>1. /\ Intact(scan, file, len, k)
        /\ ~\E i \in met("fmt", k) : CutOff(file, len, i)
    BY <1>9 DEF Walked, met
  <2>2. scan.stopped \/ body > len
    <3>1. CASE ~scan.stopped
      <4>1. before /\ scan.offset = Ends(file)[k]
        BY <2>1, <3>1 DEF Intact, before
      <4>2. ~(body <= len)
        BY <1>1, <1>9, <4>1 DEF Reached, reached, before, body
      <4>3. body \in Nat
        BY WavAssumption DEF ScanRecords, body
      <4> QED
        BY <4>2, <4>3
    <3> QED
      BY <3>1
  <2>3. /\ next.stopped /\ next.malformed = scan.malformed
        /\ next.fmt = scan.fmt /\ next.data = scan.data
    BY <1>6, <2>2 DEF ScanRecords
  <2>4. /\ met("fmt", k + 1) = met("fmt", k)
        /\ met("data", k + 1) = met("data", k)
    BY <1>3, <1>9
  <2>5. ~\A i \in 1..(k + 1) : /\ Reached(file, len, i)
                               /\ file.chunks[i].id # "data"
    BY <1>1, <1>9 DEF reached
  <2>6. Intact(next, file, len, k + 1)
    BY <2>1, <2>3, <2>4, <2>5, Zenon DEF Intact, met
  <2> QED
    BY <1>9, <2>1, <2>3, <2>4, <2>6, Zenon DEF Walked, met, next, chunk
\* The walk has not stopped and reads the chunk.
<1>10. CASE ~scan.malformed /\ reached
  <2>1. /\ Intact(scan, file, len, k)
        /\ ~\E i \in met("fmt", k) : CutOff(file, len, i)
    BY <1>10 DEF Walked, met
  <2>2. before
    BY <1>4, <1>10
  <2>3. ~scan.stopped /\ scan.offset = Ends(file)[k]
    BY <2>1, <2>2, Zenon DEF Intact, before
  <2>4. ~(body > len)
    <3>1. body <= len
      BY <1>1, <1>10, <2>3 DEF Reached, reached, body
    <3>2. body \in Nat
      BY WavAssumption DEF ScanRecords, body
    <3> QED
      BY <3>1, <3>2
  <2>5. met("data", k) = {}
    BY <2>2 DEF before, met, Met
  <2>6. scan.data = <<>>
    BY <2>1, <2>5 DEF Intact, met
  <2>7. CutOff(file, len, k + 1) <=> body + FMT_BODY_LEN > len
    BY <1>1, <2>3 DEF CutOff, body
  <2>8. CASE chunk.id = "fmt"
    <3>1. /\ met("fmt", k + 1) = met("fmt", k) \cup {k + 1}
          /\ met("data", k + 1) = {}
      BY <1>3, <1>10, <2>5, <2>8
    <3>2. CASE body + FMT_BODY_LEN > len
      <4>1. next = [scan EXCEPT !.stopped = TRUE, !.malformed = TRUE]
        BY <1>6, <2>3, <2>4, <2>8, <3>2
      <4>2. next.stopped /\ next.malformed
        BY <4>1 DEF ScanRecords
      <4> QED
        BY <2>7, <3>1, <3>2, <4>2 DEF Walked, met, next, chunk
    <3>3. CASE ~(body + FMT_BODY_LEN > len)
      <4>1. next = [advanced EXCEPT !.fmt = <<chunk>>]
        BY <1>6, <2>3, <2>4, <2>8, <3>3
      <4>2. /\ ~next.malformed /\ ~next.stopped
            /\ next.offset = Ends(file)[k + 1]
            /\ next.fmt = <<chunk>> /\ next.data = <<>>
        BY <1>5, <1>10, <2>3, <2>6, <4>1 DEF ScanRecords, advanced
      <4>3. ~\E i \in met("fmt", k + 1) : CutOff(file, len, i)
        BY <2>1, <2>7, <3>1, <3>3
      <4>4. \A i \in 1..(k + 1) : /\ Reached(file, len, i)
                                  /\ file.chunks[i].id # "data"
        BY <1>7, <1>10, <2>2, <2>8 DEF before, reached, chunk
      <4>5. ASSUME NEW i \in met("fmt", k + 1),
                   \A j \in met("fmt", k + 1) : j <= i
            PROVE  i = k + 1
        <5>1. k + 1 <= i /\ (i \in 1..k \/ i = k + 1)
          BY <1>2, <3>1, <4>5
        <5> QED
          BY <1>1, <5>1
      <4>6. next.fmt # <<>> /\ met("fmt", k + 1) # {}
        BY <3>1, <4>2, SingletonNotEmpty
      <4>7. \A i \in met("fmt", k + 1) :
               (\A j \in met("fmt", k + 1) : j <= i)
                  => next.fmt = <<file.chunks[i]>>
        BY <4>2, <4>5 DEF chunk
      <4>8. Intact(next, file, len, k + 1)
        BY <3>1, <4>2, <4>4, <4>6, <4>7, Zenon DEF Intact, met
      <4> QED
        BY <4>2, <4>3, <4>8, Zenon DEF Walked, met, next, chunk
    <3> QED
      BY <3>2, <3>3
  <2>9. CASE chunk.id = "data"
    <3>1. /\ met("fmt", k + 1) = met("fmt", k)
          /\ met("data", k + 1) = {k + 1}
      BY <1>3, <1>10, <2>5, <2>9
    <3>2. next = [scan EXCEPT !.stopped = TRUE, !.data = <<chunk>>]
      BY <1>6, <2>3, <2>4, <2>9
    <3>3. /\ ~next.malformed /\ next.stopped
          /\ next.fmt = scan.fmt /\ next.data = <<chunk>>
      BY <1>10, <3>2 DEF ScanRecords
    <3>4. ~\A i \in 1..(k + 1) : /\ Reached(file, len, i)
                                 /\ file.chunks[i].id # "data"
      BY <1>1, <2>9 DEF chunk
    <3>5. /\ next.data # <<>> /\ met("data", k + 1) # {}
          /\ \A i \in met("data", k + 1) : next.data = <<file.chunks[i]>>
      BY <3>1, <3>3, SingletonNotEmpty DEF chunk
    <3>6. Intact(next, file, len, k + 1)
      BY <2>1, <3>1, <3>3, <3>4, <3>5, Zenon DEF Intact, met
    <3> QED
      BY <2>1, <3>1, <3>3, <3>6, Zenon DEF Walked, met, next, chunk
  <2>10. CASE chunk.id \notin {"fmt", "data"}
    <3>1. /\ met("fmt", k + 1) = met("fmt", k)
          /\ met("data", k + 1) = met("data", k)
      BY <1>3, <2>10
    <3>2. next = advanced
      BY <1>6, <2>3, <2>4, <2>10
    <3>3. /\ ~next.malformed /\ ~next.stopped
          /\ next.offset = Ends(file)[k + 1]
          /\ next.fmt = scan.fmt /\ next.data = scan.data
      BY <1>5, <1>10, <2>3, <3>2 DEF ScanRecords, advanced
    <3>4. \A i \in 1..(k + 1) : /\ Reached(file, len, i)
                                /\ file.chunks[i].id # "data"
      BY <1>7, <1>10, <2>2, <2>10 DEF before, reached, chunk
    <3>5. Intact(next, file, len, k + 1)
      BY <2>1, <3>1, <3>3, <3>4, Zenon DEF Intact, met
    <3> QED
      BY <2>1, <3>1, <3>3, <3>5, Zenon DEF Walked, met, next, chunk
  <2> QED
    BY <2>8, <2>9, <2>10
<1> QED
  BY <1>8, <1>9, <1>10

\* A bounded set of numbers that is not empty has a maximum.
LEMMA GreatestElement ==
    ASSUME NEW n \in Nat, NEW S \in SUBSET (0..n), S # {}
    PROVE  Max(S) \in S /\ \A i \in S : i <= Max(S)
<1> DEFINE below == {n - i : i \in S}
<1>1. below \in SUBSET Nat /\ below # {}
  OBVIOUS
<1> HIDE DEF below
<1>2. PICK d \in below : \A e \in below : d <= e
  BY <1>1, LeastElement
<1>3. PICK m \in S : d = n - m
  BY <1>2 DEF below
<1>4. ASSUME NEW i \in S
      PROVE  m >= i
  <2>1. n - i \in below
    BY <1>4 DEF below
  <2>2. n - m <= n - i
    BY <1>2, <1>3, <2>1
  <2>3. m \in Int /\ i \in Int
    BY <1>3, <1>4
  <2> QED
    BY <2>2, <2>3
<1>5. Max(S) \in S /\ \A i \in S : Max(S) >= i
  BY <1>3, <1>4, Zenon DEF Max
<1>6. \A i \in S : i \in Int
  OBVIOUS
<1> QED
  BY <1>5, <1>6

\* What the walk knows at its end.
LEMMA WalkedThrough ==
    ASSUME NEW file, file.chunks \in Seq(ChunkRecords), NEW len \in Nat
    PROVE  Walked(Scan(file, len), file, len, Len(file.chunks))
<1> DEFINE n == Len(file.chunks)
           g == Scanning(file, len)
           S == {k \in 0..n : Walked(g[k], file, len, k)}
<1>1. /\ n \in Nat
      /\ g \in [0..n -> ScanRecords]
      /\ g[0] = FirstScan
      /\ \A i \in 1..n : g[i] = ScanChunk(len, g[i - 1], file.chunks[i])
  BY ScanningSteps
<1> HIDE DEF g
<1>2. 0 \in S
  <2>1. \A id : Met(file, len, id, 0) = {}
    BY DEF Met
  <2>2. Ends(file)[0] = RIFF_LEN
    BY EndsSteps
  <2>3. Intact(FirstScan, file, len, 0)
    BY <2>1, <2>2 DEF Intact, FirstScan
  <2>4. Walked(FirstScan, file, len, 0)
    BY <2>1, <2>3 DEF Walked, FirstScan
  <2> QED
    BY <1>1, <2>4
<1>3. ASSUME NEW k \in 0..(n - 1), k \in S
      PROVE  k + 1 \in S
  <2>1. k + 1 \in 1..n /\ (k + 1) - 1 = k /\ k \in 0..n /\ k + 1 \in 0..n
    BY <1>1, <1>3
  <2>2. g[k + 1] = ScanChunk(len, g[k], file.chunks[k + 1])
    BY <1>1, <2>1
  <2>3. g[k] \in ScanRecords /\ Walked(g[k], file, len, k)
    BY <1>1, <1>3, <2>1
  <2>4. Walked(g[k + 1], file, len, k + 1)
    BY <1>3, <2>2, <2>3, WalkStep
  <2> QED
    BY <2>1, <2>4
<1>4. n \in S
  <2> HIDE DEF S, n
  <2>1. 0..n \subseteq S
    BY <1>1, <1>2, <1>3, InductionUpTo
  <2> QED
    BY <1>1, <2>1
<1> QED
  BY <1>4 DEF Scan, g

\* The header scan accepts exactly the files whose fmt chunks before the data
\* are all complete in the leading bytes, and there is one; the duration is
\* that of the last of them and of the first data chunk.
THEOREM AudioParsed ==
    ASSUME NEW audio, audio.size \in Nat,
           audio.file.chunks \in Seq(ChunkRecords)
    PROVE  /\ Parses(audio.file, Leading(audio)) <=> AcceptableAudio(audio)
           /\ AcceptableAudio(audio) =>
                duration_ms(audio.file, Leading(audio)) =
                    SpecifiedDuration(audio)
<1> DEFINE file == audio.file
           len == Leading(audio)
           n == Len(file.chunks)
           scan == Scan(file, len)
           fmts == Seen(audio, "fmt")
           datas == Seen(audio, "data")
<1>1. len \in Nat
  BY SubmissionAssumption DEF Leading
<1> HIDE DEF len
<1>2. file.chunks \in Seq(ChunkRecords)
  OBVIOUS
<1> HIDE DEF file
<1>3. n \in Nat /\ DOMAIN file.chunks = 1..n
  BY <1>2
<1>4. Walked(scan, file, len, n)
  BY <1>1, <1>2, WalkedThrough
<1>5. fmts = Met(file, len, "fmt", n) /\ datas = Met(file, len, "data", n)
  BY <1>3, Zenon DEF Seen, Met, Reached, file, len
<1>6. AcceptableAudio(audio) <=> /\ file.markers
                                 /\ len >= RIFF_LEN
                                 /\ fmts # {}
                                 /\ ~\E i \in fmts : CutOff(file, len, i)
  <2>1. \A i \in fmts :
           (Ends(file)[i - 1] + CHUNK_HEAD_LEN + FMT_BODY_LEN <= len)
              <=> ~CutOff(file, len, i)
    <3>1. ASSUME NEW i \in fmts
          PROVE  Ends(file)[i - 1] \in Nat
      <4>1. i - 1 \in 0..n
        BY <1>3, <1>5, <3>1 DEF Met
      <4> QED
        BY <1>2, <4>1, EndsSteps
    <3> QED
      BY <1>1, <3>1, WavAssumption DEF CutOff
  <2> QED
    BY <2>1, Zenon DEF AcceptableAudio, file, len
<1>7. fmts \subseteq 1..n /\ datas \subseteq 1..n
  BY <1>5 DEF Met
<1> HIDE DEF fmts, datas, scan, n
<1>8. Parses(file, len) <=> /\ len >= RIFF_LEN
                            /\ file.markers
                            /\ ~scan.malformed /\ scan.fmt # <<>>
  BY Zenon DEF Parses, scan
<1>9. Parses(file, len) <=> AcceptableAudio(audio)
  BY <1>4, <1>5, <1>6, <1>8, Zenon DEF Walked, Intact
<1>10. ASSUME AcceptableAudio(audio)
       PROVE  duration_ms(file, len) = SpecifiedDuration(audio)
  <2>1. Intact(scan, file, len, n) /\ fmts # {}
    BY <1>4, <1>5, <1>6, <1>10, Zenon DEF Walked
  <2> DEFINE last == Max(fmts)
             first == Min(datas)
             fmt == file.chunks[last]
             data == file.chunks[first]
  <2>2. last \in fmts /\ \A i \in fmts : i <= last
    <3>1. fmts \in SUBSET (0..n)
      BY <1>7
    <3> QED
      BY <1>3, <2>1, <3>1, GreatestElement
  <2>3. datas # {} => first \in datas
    <3>1. datas \in SUBSET Nat
      BY <1>7
    <3> QED
      BY <3>1, MinIsLeast
  <2> HIDE DEF last, first
  <2>4. scan.fmt = <<fmt>>
    BY <1>5, <2>1, <2>2, Zenon DEF Intact
  <2>5. IF datas = {} THEN scan.data = <<>> ELSE scan.data = <<data>>
    BY <1>5, <2>1, <2>3, Zenon DEF Intact
  <2>6. fmt.byte_rate \in Nat
    <3>1. fmt \in ChunkRecords
      BY <1>2, <1>3, <1>7, <2>2
    <3>2. fmt.id = "fmt"
      BY <1>5, <2>2 DEF Met
    <3> QED
      BY <3>1, <3>2 DEF ChunkRecords
  <2> HIDE DEF fmt, data
  <2>7. duration_ms(file, len) =
          IF scan.data # <<>> /\ scan.fmt[1].byte_rate > 0
          THEN (scan.data[1].size * 1000) \div scan.fmt[1].byte_rate
          ELSE 0
    BY Zenon DEF duration_ms, scan
  <2>8. SpecifiedDuration(audio) =
          IF datas = {} \/ fmt.byte_rate = 0
          THEN 0
          ELSE (data.size * 1000) \div fmt.byte_rate
    BY Zenon DEF SpecifiedDuration, fmts, datas, fmt, data, last, first, file
  <2>9. /\ scan.fmt[1] = fmt
        /\ fmt.byte_rate > 0 <=> fmt.byte_rate # 0
    BY <2>4, <2>6
  <2>10. CASE datas = {}
    BY <2>5, <2>7, <2>8, <2>10
  <2>11. CASE datas # {}
    <3>1. scan.data = <<data>>
      BY <2>5, <2>11, Zenon
    <3>2. scan.data # <<>> /\ scan.data[1] = data
      BY <3>1, SingletonNotEmpty
    <3> DEFINE quotient == (data.size * 1000) \div fmt.byte_rate
    <3>3. duration_ms(file, len) = IF fmt.byte_rate > 0 THEN quotient ELSE 0
      BY <2>7, <2>9, <3>2
    <3>4. SpecifiedDuration(audio) = IF fmt.byte_rate = 0 THEN 0 ELSE quotient
      BY <2>8, <2>11, Zenon
    <3> HIDE DEF quotient
    <3> QED
      BY <3>3, <3>4, <2>9
  <2> QED
    BY <2>10, <2>11
<1> QED
  BY <1>9, <1>10 DEF file, len

-----------------------------------------------------------------------------
(* The parts of a body.                                                    *)

\* The bytes of the parts add up one part after the other.
LEMMA SentSteps ==
    ASSUME request.parts \in Seq(PartRecords)
    PROVE  /\ Sent \in [0..Len(request.parts) -> Nat]
           /\ Sent[0] = 0
           /\ \A i \in 1..Len(request.parts) :
                Sent[i] = Sent[i - 1] + request.parts[i].size
<1> DEFINE list == request.parts
           n == Len(list)
           step == [i \in 1..n |-> [sum \in Nat |-> sum + list[i].size]]
           body(f) == [i \in 0..n |-> IF i = 0 THEN 0
                                      ELSE f[i - 1] + list[i].size]
<1> HIDE DEF list
<1>1. n \in Nat /\ \A i \in 1..n : list[i] \in PartRecords
  BY DEF list
<1>2. \A i \in 1..n : list[i].size \in Nat
  BY <1>1 DEF PartRecords
<1> HIDE DEF n
<1>3. PICK f : Recursive(f, n, Nat, 0, step)
  <2>1. step \in [1..n -> [Nat -> Nat]]
    BY <1>2
  <2> HIDE DEF step
  <2> QED
    BY <1>1, <2>1, Recursion
<1>4. f = body(f)
  <2>1. \A i \in 1..n : i - 1 \in 0..n
    BY <1>1, SMT
  <2>2. \A i \in 1..n : f[i] = f[i - 1] + list[i].size
    BY <1>3, <2>1 DEF Recursive
  <2> QED
    BY <1>1, <1>3, <2>2 DEF Recursive
<1>5. Sent = CHOOSE g : g = body(g)
  BY Zenon DEF Sent, PartAt, n, list
<1>6. Sent = body(Sent)
  BY <1>4, <1>5
<1> DEFINE g == Sent
<1> HIDE DEF g
<1>7. /\ g = [i \in 0..n |-> g[i]]
      /\ g[0] = 0
      /\ \A i \in 1..n : g[i] = g[i - 1] + list[i].size
  <2>1. g = body(g)
    BY <1>6 DEF g
  <2>2. 0 \in 0..n /\ \A i \in 1..n : i \in 0..n /\ i # 0
    BY <1>1
  <2> QED
    BY <2>1, <2>2
<1>8. g \in [0..n -> Nat]
  <2>1. ASSUME NEW i \in 1..n, g[i - 1] \in Nat
        PROVE  g[i] \in Nat
    <3>1. list[i].size \in Nat /\ g[i] = g[i - 1] + list[i].size
      BY <1>2, <1>7, <2>1
    <3> QED
      BY <2>1, <3>1
  <2>2. g[0] \in Nat
    BY <1>7
  <2> QED
    BY <1>1, <1>7, <2>1, <2>2, RecursionType
<1> QED
  BY <1>7, <1>8, Zenon DEF g, n, list

\* The fields among the first k parts.
NamedUpTo(parts, name, k) == {i \in 1..k : parts[i].name = name}

KeptUpTo(parts, name, k) ==
    IF NamedUpTo(parts, name, k) = {} THEN <<>>
    ELSE <<parts[Max(NamedUpTo(parts, name, k))]>>

KeptAfter(parts, k) ==
    [audio |-> KeptUpTo(parts, "audio", k),
     tags |-> KeptUpTo(parts, "tags", k),
     recorded_at |-> KeptUpTo(parts, "recorded_at", k)]

AudioBytes(parts, k) ==
    LET audio == KeptUpTo(parts, "audio", k)
    IN  IF audio = <<>> THEN 0 ELSE audio[1].size

\* Before the first part no field is known.
LEMMA KeptNone ==
    ASSUME NEW parts, NEW name
    PROVE  KeptUpTo(parts, name, 0) = <<>>
BY DEF KeptUpTo, NamedUpTo

\* The last field of a name counts.
LEMMA KeptGrows ==
    ASSUME NEW parts, NEW name, NEW k \in Nat
    PROVE  KeptUpTo(parts, name, k + 1) =
              IF parts[k + 1].name = name THEN <<parts[k + 1]>>
              ELSE KeptUpTo(parts, name, k)
<1> DEFINE before == NamedUpTo(parts, name, k)
           after == NamedUpTo(parts, name, k + 1)
<1>1. 1..(k + 1) = (1..k) \cup {k + 1}
  OBVIOUS
<1>2. after = IF parts[k + 1].name = name THEN before \cup {k + 1} ELSE before
  BY <1>1, Zenon DEF NamedUpTo
<1>3. CASE parts[k + 1].name = name
  <2>1. k + 1 \in after /\ after # {}
    BY <1>2, <1>3
  <2>2. after \in SUBSET Nat /\ \A i \in after : i <= k + 1
    BY DEF NamedUpTo
  <2> HIDE DEF after
  <2>3. Max(after) = k + 1
    BY <2>1, <2>2, MaxIs
  <2> QED
    BY <1>3, <2>1, <2>3, Zenon DEF KeptUpTo, after
<1>4. CASE parts[k + 1].name # name
  BY <1>2, <1>4, Zenon DEF KeptUpTo
<1> QED
  BY <1>3, <1>4

\* After the last part the fields kept are the last of their names.
LEMMA KeptAll ==
    ASSUME request.parts \in Seq(PartRecords), NEW name
    PROVE  /\ KeptUpTo(request.parts, name, Len(request.parts)) =
                IF Named(name) = {} THEN <<>> ELSE <<LastNamed(name)>>
           /\ Named(name) # {} => LastNamed(name) \in PartRecords
<1> DEFINE n == Len(request.parts)
<1>1. n \in Nat /\ DOMAIN request.parts = 1..n
  OBVIOUS
<1>2. NamedUpTo(request.parts, name, n) = Named(name)
  BY <1>1, Zenon DEF NamedUpTo, Named, Positions, PartAt
<1>3. Named(name) # {} => Max(Named(name)) \in 1..n
  <2>1. Named(name) \in SUBSET (0..n) /\ Named(name) \subseteq 1..n
    BY <1>1, <1>2 DEF NamedUpTo
  <2> HIDE DEF n
  <2> QED
    BY <1>1, <2>1, GreatestElement
<1>4. \A i \in 1..n : request.parts[i] \in PartRecords
  OBVIOUS
<1> HIDE DEF n
<1> QED
  BY <1>2, <1>3, <1>4, Zenon DEF KeptUpTo, LastNamed, PartAt, n

-----------------------------------------------------------------------------
(* The end of a body.                                                      *)

\* The headers name a Client of the file and a Recording.
Identified ==
    /\ request.fingerprint # ""
    /\ \E i \in DOMAIN raw.clients :
          raw.clients[i].fingerprint = request.fingerprint
    /\ request.client_recording_id # ""

\* The first part that is refused decides the answer.
LEMMA RefusedAnswer ==
    ASSUME request.parts \in Seq(PartRecords), Identified,
           NEW k \in 1..Len(request.parts), k \in Refused,
           Refused \cap (1..(k - 1)) = {}
    PROVE  SpecifiedAnswer = IF SecondAudio(k) THEN "multiple_audio"
                             ELSE IF TooLarge(k) THEN "payload_too_large"
                             ELSE "invalid_multipart"
<1>1. Refused \in SUBSET Nat
  <2>1. DOMAIN request.parts \subseteq Nat
    OBVIOUS
  <2> QED
    BY <2>1 DEF Refused, Positions
<1>2. \A i \in Refused : k <= i
  <2>1. ASSUME NEW i \in Refused, ~(k <= i)
        PROVE  FALSE
    <3>1. i \in 1..Len(request.parts)
      <4>1. DOMAIN request.parts = 1..Len(request.parts)
        OBVIOUS
      <4> QED
        BY <2>1, <4>1 DEF Refused, Positions
    <3>2. i \in 1..(k - 1)
      BY <2>1, <3>1
    <3> QED
      BY <2>1, <3>2
  <2> QED
    BY <2>1
<1>3. Min(Refused) = k
  BY <1>1, <1>2, MinIs
<1>4. SpecifiedAnswer = LET i == Min(Refused)
                        IN  IF SecondAudio(i) THEN "multiple_audio"
                            ELSE IF TooLarge(i) THEN "payload_too_large"
                            ELSE "invalid_multipart"
  BY Zenon DEF SpecifiedAnswer, Identified
<1> QED
  BY <1>3, <1>4, Zenon

\* The checks at the end of the body, in their order.
LEMMA FirstFailing ==
    ASSUME NEW checks, NEW n \in Nat, DOMAIN checks = 1..n,
           NEW k \in 1..n, checks[k].fails,
           \A i \in 1..(k - 1) : ~checks[i].fails
    PROVE  LET failed == {i \in DOMAIN checks : checks[i].fails}
           IN  failed # {} /\ Min(failed) = k
<1> DEFINE failed == {i \in DOMAIN checks : checks[i].fails}
<1>1. k \in failed /\ failed \in SUBSET Nat
  OBVIOUS
<1>2. ASSUME NEW i \in failed, ~(k <= i)
      PROVE  FALSE
  <2>1. i \in 1..(k - 1) /\ checks[i].fails
    BY <1>2
  <2> QED
    BY <2>1
<1> HIDE DEF failed
<1>3. Min(failed) = k
  BY <1>1, <1>2, MinIs
<1> QED
  BY <1>1, <1>3 DEF failed

\* The tags field is accepted, and kept, as it is specified.
LEMMA TagsParsed ==
    ASSUME request.parts \in Seq(PartRecords),
           kept.tags = KeptUpTo(request.parts, "tags", Len(request.parts))
    PROVE  /\ parse_tags(kept.tags).ok <=>
                ~(/\ Named("tags") # {}
                  /\ \/ ~LastNamed("tags").json
                     \/ ~AcceptableTags(LastNamed("tags").values))
           /\ parse_tags(kept.tags).ok =>
                /\ ToSet(tags) = SentTags
                /\ Len(tags) = Cardinality(SentTags)
<1> DEFINE last == LastNamed("tags")
<1>1. /\ kept.tags = IF Named("tags") = {} THEN <<>> ELSE <<last>>
      /\ Named("tags") # {} => last \in PartRecords
  BY KeptAll, Zenon
<1> HIDE DEF last
<1>2. CASE Named("tags") = {}
  <2>1. parse_tags(kept.tags) = Ok(<<>>)
    BY <1>1, <1>2, Zenon DEF parse_tags
  <2>2. parse_tags(kept.tags).ok /\ tags = <<>>
    BY <2>1 DEF Ok, tags
  <2>3. SentTags = {}
    BY <1>2 DEF SentTags
  <2>4. ToSet(<<>>) = {} /\ Len(<<>>) = 0
    BY DEF ToSet
  <2> QED
    BY <1>2, <2>2, <2>3, <2>4, FS_EmptySet
<1>3. CASE Named("tags") # {}
  <2>1. kept.tags # <<>> /\ kept.tags[1] = last
    <3>1. kept.tags = <<last>>
      BY <1>1, <1>3, Zenon
    <3> QED
      BY <3>1, SingletonNotEmpty
  <2>2. parse_tags(kept.tags) = IF last.json THEN NewTags(last.values) ELSE Err
    BY <2>1, Zenon DEF parse_tags
  <2>3. last.values \in Seq(RawTags) /\ last.json \in BOOLEAN
    BY <1>1, <1>3 DEF PartRecords
  <2>4. /\ NewTags(last.values).ok <=> AcceptableTags(last.values)
        /\ NewTags(last.values).ok =>
             /\ ToSet(NewTags(last.values).value) = Texts(last.values)
             /\ Len(NewTags(last.values).value) =
                  Cardinality(Texts(last.values))
    BY <2>3, TagsNormalized
  <2>5. SentTags = Texts(last.values)
    BY <1>3, Zenon DEF SentTags, last
  <2>6. CASE last.json
    <3>1. parse_tags(kept.tags) = NewTags(last.values)
      BY <2>2, <2>6
    <3> QED
      BY <1>3, <2>4, <2>5, <2>6, <3>1, Zenon DEF tags, last
  <2>7. CASE ~last.json
    <3>1. parse_tags(kept.tags) = Err
      BY <2>2, <2>7
    <3>2. ~parse_tags(kept.tags).ok
      BY <3>1 DEF Err
    <3> QED
      BY <1>3, <2>7, <3>2, Zenon DEF last
  <2> QED
    BY <2>6, <2>7
<1> QED
  BY <1>2, <1>3

\* The table of the checks, entry by entry.
LEMMA ChecksAre ==
    LET audio == kept.audio
        recorded_at == kept.recorded_at
    IN  /\ DOMAIN Checks = 1..5
        /\ Checks[1].fails <=> audio = <<>>
        /\ Checks[2].fails <=> ~parse_tags(kept.tags).ok
        /\ Checks[3].fails <=> recorded_at # <<>> /\ ~recorded_at[1].parses
        /\ Checks[4].fails <=>
              /\ recorded_at # <<>>
              /\ recorded_at[1].ahead > MAX_RECORDED_AT_SKEW
        /\ Checks[5].fails <=>
              audio # <<>> /\ ~Parses(audio[1].file, Leading(audio[1]))
        /\ Checks[1].error = "missing_audio"
        /\ Checks[2].error = "invalid_tags"
        /\ Checks[3].error = "invalid_recorded_at"
        /\ Checks[4].error = "recorded_at_in_future"
        /\ Checks[5].error = "unsupported_audio"
<1> DEFINE audio == kept.audio
           recorded_at == kept.recorded_at
           b1 == audio = <<>>
           b2 == ~parse_tags(kept.tags).ok
           b3 == recorded_at # <<>> /\ ~recorded_at[1].parses
           b4 == /\ recorded_at # <<>>
                 /\ recorded_at[1].ahead > MAX_RECORDED_AT_SKEW
           b5 == audio # <<>> /\ ~Parses(audio[1].file, Leading(audio[1]))
<1>1. Checks = <<[fails |-> b1, error |-> "missing_audio"],
                 [fails |-> b2, error |-> "invalid_tags"],
                 [fails |-> b3, error |-> "invalid_recorded_at"],
                 [fails |-> b4, error |-> "recorded_at_in_future"],
                 [fails |-> b5, error |-> "unsupported_audio"]>>
  BY Zenon DEF Checks
<1> HIDE DEF b1, b2, b3, b4, b5
<1>2. /\ DOMAIN Checks = 1..5
      /\ Checks[1] = [fails |-> b1, error |-> "missing_audio"]
      /\ Checks[2] = [fails |-> b2, error |-> "invalid_tags"]
      /\ Checks[3] = [fails |-> b3, error |-> "invalid_recorded_at"]
      /\ Checks[4] = [fails |-> b4, error |-> "recorded_at_in_future"]
      /\ Checks[5] = [fails |-> b5, error |-> "unsupported_audio"]
  BY <1>1
<1>3. /\ Checks[1].fails = b1 /\ Checks[1].error = "missing_audio"
      /\ Checks[2].fails = b2 /\ Checks[2].error = "invalid_tags"
      /\ Checks[3].fails = b3 /\ Checks[3].error = "invalid_recorded_at"
      /\ Checks[4].fails = b4 /\ Checks[4].error = "recorded_at_in_future"
      /\ Checks[5].fails = b5 /\ Checks[5].error = "unsupported_audio"
  BY <1>2
<1> QED
  BY <1>2, <1>3, Zenon DEF b1, b2, b3, b4, b5

\* What the handler answers at the end of a body.
BodyAnswer ==
    LET failed == {i \in DOMAIN Checks : Checks[i].fails}
    IN  IF request.cut THEN "invalid_multipart"
        ELSE IF failed # {} THEN Checks[Min(failed)].error
        ELSE "created"

\* The first check that fails is the answer.
LEMMA BodyAnswerIs ==
    BodyAnswer =
        IF request.cut THEN "invalid_multipart"
        ELSE IF Checks[1].fails THEN "missing_audio"
        ELSE IF Checks[2].fails THEN "invalid_tags"
        ELSE IF Checks[3].fails THEN "invalid_recorded_at"
        ELSE IF Checks[4].fails THEN "recorded_at_in_future"
        ELSE IF Checks[5].fails THEN "unsupported_audio"
        ELSE "created"
<1> DEFINE failed == {i \in DOMAIN Checks : Checks[i].fails}
           F(i) == Checks[i].fails
<1>1. DOMAIN Checks = 1..5
  BY ChecksAre
<1>2. ASSUME NEW k \in 1..5, F(k), \A i \in 1..(k - 1) : ~F(i)
      PROVE  failed # {} /\ Min(failed) = k
  BY <1>1, <1>2, FirstFailing
<1>3. (~F(1) /\ ~F(2) /\ ~F(3) /\ ~F(4) /\ ~F(5)) => failed = {}
  <2>1. 1..5 = {1, 2, 3, 4, 5}
    OBVIOUS
  <2> QED
    BY <1>1, <2>1
<1>4. /\ F(1) => failed # {} /\ Min(failed) = 1
      /\ ~F(1) /\ F(2) => failed # {} /\ Min(failed) = 2
      /\ ~F(1) /\ ~F(2) /\ F(3) => failed # {} /\ Min(failed) = 3
      /\ ~F(1) /\ ~F(2) /\ ~F(3) /\ F(4) => failed # {} /\ Min(failed) = 4
      /\ ~F(1) /\ ~F(2) /\ ~F(3) /\ ~F(4) /\ F(5)
           => failed # {} /\ Min(failed) = 5
  <2> HIDE DEF failed, F
  <2>1. /\ 1..(1 - 1) = {} /\ 1..(2 - 1) = {1} /\ 1..(3 - 1) = {1, 2}
        /\ 1..(4 - 1) = {1, 2, 3} /\ 1..(5 - 1) = {1, 2, 3, 4}
    OBVIOUS
  <2>2. \A k \in 1..5 : F(k) /\ (\A i \in 1..(k - 1) : ~F(i))
                           => failed # {} /\ Min(failed) = k
    BY <1>2
  <2> QED
    BY <2>1, <2>2
<1>5. /\ Checks[1].error = "missing_audio"
      /\ Checks[2].error = "invalid_tags"
      /\ Checks[3].error = "invalid_recorded_at"
      /\ Checks[4].error = "recorded_at_in_future"
      /\ Checks[5].error = "unsupported_audio"
  BY ChecksAre
<1>6. BodyAnswer = IF request.cut THEN "invalid_multipart"
                   ELSE IF failed # {} THEN Checks[Min(failed)].error
                   ELSE "created"
  BY Zenon DEF BodyAnswer
<1> HIDE DEF failed
<1> QED
  BY <1>3, <1>4, <1>5, <1>6

\* With no part refused the handler answers as specified.
LEMMA BodyDecided ==
    ASSUME request.parts \in Seq(PartRecords), Identified, Refused = {},
           kept = KeptAfter(request.parts, Len(request.parts))
    PROVE  /\ BodyAnswer = SpecifiedAnswer
           /\ BodyAnswer = "created" =>
                /\ Named("audio") # {}
                /\ kept.audio = <<LastNamed("audio")>>
                /\ AcceptableAudio(LastNamed("audio"))
                /\ parse_tags(kept.tags).ok
<1> DEFINE audio == LastNamed("audio")
           time == LastNamed("recorded_at")
<1>1. /\ kept.audio = IF Named("audio") = {} THEN <<>> ELSE <<audio>>
      /\ kept.recorded_at = IF Named("recorded_at") = {} THEN <<>>
                            ELSE <<time>>
      /\ kept.tags = KeptUpTo(request.parts, "tags", Len(request.parts))
      /\ Named("audio") # {} => audio \in PartRecords
  BY KeptAll DEF KeptAfter
<1> HIDE DEF audio, time
<1>2. /\ kept.audio = <<>> <=> Named("audio") = {}
      /\ Named("audio") # {} => kept.audio = <<audio>> /\ kept.audio[1] = audio
  BY <1>1, SingletonNotEmpty
<1>3. /\ kept.recorded_at = <<>> <=> Named("recorded_at") = {}
      /\ Named("recorded_at") # {} => kept.recorded_at[1] = time
  BY <1>1, SingletonNotEmpty
<1>4. Named("audio") # {} =>
        (Parses(audio.file, Leading(audio)) <=> AcceptableAudio(audio))
  <2>1. ASSUME Named("audio") # {}
        PROVE  audio.size \in Nat /\ audio.file.chunks \in Seq(ChunkRecords)
    BY <1>1, <2>1 DEF PartRecords
  <2> QED
    BY <2>1, AudioParsed
<1>5. parse_tags(kept.tags).ok <=>
        ~(/\ Named("tags") # {}
          /\ \/ ~LastNamed("tags").json
             \/ ~AcceptableTags(LastNamed("tags").values))
  BY <1>1, TagsParsed
<1>6. /\ Checks[1].fails <=> Named("audio") = {}
      /\ Checks[2].fails <=> ~parse_tags(kept.tags).ok
      /\ Checks[3].fails <=> Named("recorded_at") # {} /\ ~time.parses
      /\ Checks[4].fails <=> /\ Named("recorded_at") # {}
                             /\ time.ahead > MAX_RECORDED_AT_SKEW
      /\ Checks[5].fails <=> Named("audio") # {} /\ ~AcceptableAudio(audio)
  BY <1>2, <1>3, <1>4, ChecksAre, Zenon
<1>7. SpecifiedAnswer =
        IF request.cut THEN "invalid_multipart"
        ELSE IF Named("audio") = {} THEN "missing_audio"
        ELSE IF /\ Named("tags") # {}
                /\ \/ ~LastNamed("tags").json
                   \/ ~AcceptableTags(LastNamed("tags").values)
        THEN "invalid_tags"
        ELSE IF Named("recorded_at") # {} /\ ~time.parses
        THEN "invalid_recorded_at"
        ELSE IF /\ Named("recorded_at") # {}
                /\ time.ahead > MAX_RECORDED_AT_SKEW
        THEN "recorded_at_in_future"
        ELSE IF ~AcceptableAudio(audio)
        THEN "unsupported_audio"
        ELSE "created"
  BY Zenon DEF SpecifiedAnswer, Identified, audio, time
<1>8. BodyAnswer = SpecifiedAnswer
  BY <1>5, <1>6, <1>7, BodyAnswerIs, Zenon
<1>9. BodyAnswer = "created" => /\ ~Checks[1].fails /\ ~Checks[2].fails
                                /\ ~Checks[5].fails
  BY BodyAnswerIs
<1> QED
  BY <1>2, <1>6, <1>8, <1>9, Zenon DEF audio

-----------------------------------------------------------------------------
(* The handler, one step per action.                                       *)

\* Between two fields: what the parts read so far amount to.
BetweenInv ==
    /\ Identified
    /\ at \in 0..Len(request.parts)
    /\ remaining \in Nat
    /\ remaining + Sent[at] = max_upload_bytes
    /\ kept = KeptAfter(request.parts, at)
    /\ written = AudioBytes(request.parts, at)
    /\ buffered = 0
    /\ Refused \cap (1..at) = {}

\* Within a field: the bytes of it that have come are paid for and kept.
InFieldInv ==
    /\ Identified
    /\ at \in 1..Len(request.parts)
    /\ left \in 0..request.parts[at].size
    /\ remaining \in Nat
    /\ remaining + Sent[at] = max_upload_bytes + left
    /\ kept = KeptAfter(request.parts, at - 1)
    /\ IF request.parts[at].name = "audio"
       THEN /\ kept.audio = <<>>
            /\ written = request.parts[at].size - left
       ELSE written = AudioBytes(request.parts, at - 1)
    /\ IF IsText(request.parts[at])
       THEN /\ buffered = request.parts[at].size - left
            /\ buffered <= MAX_TEXT_FIELD_BYTES
       ELSE buffered = 0
    /\ Refused \cap (1..(at - 1)) = {}

\* A created Recording has passed every check with the whole body.
StoredInv ==
    /\ kept = KeptAfter(request.parts, Len(request.parts))
    /\ Named("audio") # {}
    /\ kept.audio = <<LastNamed("audio")>>
    /\ AcceptableAudio(LastNamed("audio"))
    /\ parse_tags(kept.tags).ok
    /\ written = LastNamed("audio").size

DecidedInv ==
    /\ raw \in RawConfigs /\ request \in Requests
    /\ point \in {"loading", "refused", "listening", "between_fields",
                  "in_field", "answered", "routed"}
    /\ point # "loading" => config = validate(raw)
    /\ point = "refused" => ~config.ok
    /\ point \notin {"loading", "refused"} => config.ok
    /\ answer = "none" <=> point \notin {"answered", "routed"}
    /\ point \in {"loading", "listening"} =>
         /\ at = 0 /\ written = 0 /\ buffered = 0
         /\ remaining = max_upload_bytes
         /\ kept = [audio |-> <<>>, tags |-> <<>>, recorded_at |-> <<>>]
    /\ point = "between_fields" => BetweenInv
    /\ point = "in_field" => InFieldInv
    /\ point \in {"answered", "routed"} => answer = SpecifiedAnswer
    /\ answer = "created" => StoredInv
    /\ point = "routed" => answer = "created" /\ sink = SpecifiedSink

\* What is specified depends on the file and the request alone.
LEMMA SameInput ==
    ASSUME UNCHANGED input
    PROVE  /\ Identified' <=> Identified
           /\ Sent' = Sent
           /\ Refused' = Refused
           /\ SpecifiedAnswer' = SpecifiedAnswer
           /\ SpecifiedSink' = SpecifiedSink
           /\ Named("audio")' = Named("audio")
           /\ LastNamed("audio")' = LastNamed("audio")
<1>1. raw' = raw /\ request' = request
  BY DEF input
<1>2. Sent' = Sent
  BY <1>1, Zenon DEF Sent, PartAt
<1>3. /\ Positions' = Positions
      /\ \A i : PartAt(i)' = PartAt(i)
  BY <1>1, Zenon DEF Positions, PartAt
<1>4. \A name : /\ Named(name)' = Named(name)
                /\ LastNamed(name)' = LastNamed(name)
  BY <1>1, <1>3, Zenon DEF Named, LastNamed, Positions, PartAt
<1>5. \A i : /\ SecondAudio(i)' <=> SecondAudio(i)
             /\ TooLarge(i)' <=> TooLarge(i)
             /\ Unreadable(i)' <=> Unreadable(i)
  BY <1>1, <1>2, <1>4, Zenon DEF SecondAudio, TooLarge, Unreadable, PartAt
<1>6. Refused' = Refused
  BY <1>3, <1>5, Zenon DEF Refused
<1>7. Identified' <=> Identified
  BY <1>1, Zenon DEF Identified
<1>8. SpecifiedAnswer' = SpecifiedAnswer
  BY <1>1, <1>4, <1>5, <1>6 DEF SpecifiedAnswer
<1>9. SentTags' = SentTags
  BY <1>4, Zenon DEF SentTags
<1>10. SpecifiedSink' = SpecifiedSink
  BY <1>1, <1>9, Zenon DEF SpecifiedSink
<1> QED
  BY <1>2, <1>4, <1>6, <1>7, <1>8, <1>10, Zenon

\* The parts of the request at hand have their type.
LEMMA InputType ==
    ASSUME DecidedInv
    PROVE  /\ request.parts \in Seq(PartRecords)
           /\ Len(request.parts) \in Nat
           /\ \A i \in 1..Len(request.parts) :
                request.parts[i] \in PartRecords
<1>1. request.parts \in Seq(PartRecords)
  BY InputAssumption, Zenon DEF DecidedInv
<1> QED
  BY <1>1

\* The invariant holds before the configuration is loaded.
LEMMA DecidedInit == Init => DecidedInv
BY Zenon DEF Init, DecidedInv

\* An error that is the specified answer.
LEMMA AnswerDecided ==
    ASSUME DecidedInv, UNCHANGED input, point \notin {"loading", "refused"},
           NEW with, Answer(with), with = SpecifiedAnswer,
           with \notin {"none", "created"}
    PROVE  DecidedInv'
<1>1. /\ answer' = with /\ point' = "answered" /\ config' = config
      /\ raw' = raw /\ request' = request
  BY Zenon DEF Answer, input
<1>2. answer' = SpecifiedAnswer'
  BY <1>1, SameInput
<1>3. config' = validate(raw') /\ config'.ok
  BY <1>1, Zenon DEF DecidedInv
<1> QED
  BY <1>1, <1>2, <1>3 DEF DecidedInv

\* Startup.
LEMMA LoadDecided ==
    ASSUME DecidedInv, UNCHANGED input, Load
    PROVE  DecidedInv'
<1>1. /\ config' = validate(raw) /\ raw' = raw /\ request' = request
      /\ point = "loading" /\ answer' = answer /\ answer = "none"
      /\ UNCHANGED <<at, written, buffered, remaining, kept>>
  BY DEF Load, DecidedInv, reading, input
<1>2. /\ config'.ok => point' = "listening"
      /\ ~config'.ok => point' = "refused"
  BY Zenon DEF Load
<1> QED
  BY <1>1, <1>2 DEF DecidedInv

\* The configuration in use is the one the file validates to.
LEMMA ConfigKept ==
    ASSUME DecidedInv, point \notin {"loading", "refused"}
    PROVE  /\ validate(raw).ok /\ config.value = validate(raw).value
           /\ config.value.clients = raw.clients
           /\ config.ok
<1>1. config = validate(raw) /\ config.ok /\ raw \in RawConfigs
  BY Zenon DEF DecidedInv
<1> QED
  BY <1>1, ConfigurationValidated

\* The headers.
LEMMA IdentifyDecided ==
    ASSUME DecidedInv, UNCHANGED input, Identify
    PROVE  DecidedInv'
<1>1. point = "listening"
  BY DEF Identify
<1> DEFINE known == \E i \in DOMAIN raw.clients :
                       raw.clients[i].fingerprint = request.fingerprint
<1>2. client_by_fingerprint(config.value, request.fingerprint).ok <=> known
  BY <1>1, ConfigKept, ClientKnown
<1>3. SpecifiedAnswer =
        IF request.fingerprint = "" THEN "missing_client_identity"
        ELSE IF ~known THEN "unknown_client"
        ELSE IF request.client_recording_id = "" THEN "missing_recording_id"
        ELSE SpecifiedAnswer
  BY Zenon DEF SpecifiedAnswer
<1> HIDE DEF known
<1>4. CASE request.fingerprint = ""
  <2>1. Answer("missing_client_identity")
    BY <1>4, Zenon DEF Identify
  <2> QED
    BY <1>1, <1>3, <1>4, <2>1, AnswerDecided
<1>5. CASE request.fingerprint # "" /\ ~known
  <2>1. Answer("unknown_client")
    BY <1>2, <1>5, Zenon DEF Identify
  <2> QED
    BY <1>1, <1>3, <1>5, <2>1, AnswerDecided
<1>6. CASE /\ request.fingerprint # "" /\ known
           /\ request.client_recording_id = ""
  <2>1. Answer("missing_recording_id")
    BY <1>2, <1>6, Zenon DEF Identify
  <2> QED
    BY <1>1, <1>3, <1>6, <2>1, AnswerDecided
<1>7. CASE /\ request.fingerprint # "" /\ known
           /\ request.client_recording_id # ""
  <2>1. /\ point' = "between_fields"
        /\ UNCHANGED <<config, reading, answer, sink>>
    BY <1>2, <1>7, Zenon DEF Identify
  <2>2. /\ raw' = raw /\ request' = request /\ config' = config
        /\ answer' = answer /\ at' = at /\ remaining' = remaining
        /\ kept' = kept /\ written' = written /\ buffered' = buffered
    BY <2>1 DEF reading, input
  <2>3. Identified'
    <3>1. Identified
      BY <1>7, Zenon DEF Identified, known
    <3> QED
      BY <3>1, SameInput
  <2>4. /\ request.parts \in Seq(PartRecords) /\ Len(request.parts) \in Nat
        /\ Sent[0] = 0
    BY InputType, SentSteps
  <2>5. /\ at = 0 /\ written = 0 /\ buffered = 0
        /\ remaining = max_upload_bytes
        /\ kept = KeptAfter(request.parts, 0)
        /\ AudioBytes(request.parts, 0) = 0
    BY <1>1, KeptNone DEF DecidedInv, KeptAfter, AudioBytes
  <2>6. BetweenInv'
    <3>1. Sent' = Sent /\ Refused' = Refused
      BY SameInput
    <3>2. 1..0 = {} /\ 0 \in 0..Len(request.parts)
      BY <2>4
    <3>3. remaining \in Nat /\ remaining + 0 = max_upload_bytes
      BY <2>5, SubmissionAssumption
    <3> QED
      BY <2>2, <2>3, <2>4, <2>5, <3>1, <3>2, <3>3 DEF BetweenInv
  <2> QED
    BY <1>1, <2>1, <2>2, <2>6 DEF DecidedInv
<1> QED
  BY <1>4, <1>5, <1>6, <1>7

\* The next part begins, or is a second audio.
LEMMA NextFieldDecided ==
    ASSUME DecidedInv, UNCHANGED input, NextField
    PROVE  DecidedInv'
<1> DEFINE k == at + 1
           next == request.parts[k]
<1>1. /\ point = "between_fields" /\ at < Len(request.parts)
      /\ BetweenInv
  BY DEF NextField, DecidedInv
<1>2. /\ request.parts \in Seq(PartRecords) /\ Len(request.parts) \in Nat
      /\ at \in Nat /\ k \in 1..Len(request.parts) /\ k - 1 = at
  BY <1>1, InputType DEF BetweenInv
<1>3. next \in PartRecords /\ next.size \in Nat
  <2>1. next \in PartRecords
    BY <1>2, InputType
  <2> QED
    BY <2>1 DEF PartRecords
<1>4. /\ Sent[k] = Sent[at] + next.size
      /\ Sent[at] \in Nat
  <2>1. at \in 0..Len(request.parts)
    BY <1>2
  <2> QED
    BY <1>2, <2>1, SentSteps
<1>5. kept.audio = KeptUpTo(request.parts, "audio", at)
  BY <1>1 DEF BetweenInv, KeptAfter
<1>6. SecondAudio(k) <=> next.name = "audio" /\ kept.audio # <<>>
  <2>1. SecondAudio(k) <=>
          next.name = "audio" /\ NamedUpTo(request.parts, "audio", at) # {}
    <3>1. DOMAIN request.parts = 1..Len(request.parts)
      BY <1>2
    <3>2. \A j \in 1..Len(request.parts) : j < k <=> j \in 1..at
      BY <1>2
    <3>3. \A j \in 1..at : j \in 1..Len(request.parts)
      BY <1>2
    <3> QED
      BY <1>2, <3>1, <3>2, <3>3, Zenon
         DEF SecondAudio, Named, NamedUpTo, Positions, PartAt
  <2> QED
    BY <1>5, <2>1, SingletonNotEmpty DEF KeptUpTo
<1>7. CASE next.name = "audio" /\ kept.audio # <<>>
  <2>1. Answer("multiple_audio")
    BY <1>7, Zenon DEF NextField
  <2>2. k \in Refused /\ SecondAudio(k)
    <3>1. k \in Positions
      BY <1>2 DEF Positions
    <3> QED
      BY <1>6, <1>7, <3>1, Zenon DEF Refused
  <2>3. SpecifiedAnswer = "multiple_audio"
    <3>1. Refused \cap (1..(k - 1)) = {} /\ Identified
      BY <1>1, <1>2 DEF BetweenInv
    <3> QED
      BY <1>2, <2>2, <3>1, RefusedAnswer
  <2> QED
    BY <1>1, <2>1, <2>3, AnswerDecided
<1>8. CASE ~(next.name = "audio" /\ kept.audio # <<>>)
  <2>1. /\ point' = "in_field" /\ at' = k /\ left' = next.size
        /\ UNCHANGED <<config, remaining, kept, written, buffered, answer,
                       sink>>
    BY <1>8, Zenon DEF NextField
  <2>2. raw' = raw /\ request' = request
    BY DEF input
  <2>3. Sent' = Sent /\ Refused' = Refused /\ Identified'
    BY <1>1, SameInput, Zenon DEF BetweenInv
  <2> HIDE DEF k, next
  <2>4. /\ k \in 1..Len(request.parts) /\ k - 1 = at
        /\ next = request.parts[k]
    BY <1>2 DEF k, next
  <2>5. /\ next.size \in 0..next.size /\ next.size - next.size = 0
        /\ remaining \in Nat
        /\ remaining + Sent[k] = max_upload_bytes + next.size
        /\ MAX_TEXT_FIELD_BYTES \in Nat
    BY <1>1, <1>3, <1>4, SubmissionAssumption DEF BetweenInv
  <2>6. /\ kept = KeptAfter(request.parts, at)
        /\ written = AudioBytes(request.parts, at)
        /\ buffered = 0
        /\ Refused \cap (1..at) = {}
    BY <1>1 DEF BetweenInv
  <2>7. next.name = "audio" => kept.audio = <<>> /\ written = 0
    BY <1>5, <1>8, <2>6 DEF AudioBytes
  <2>8. InFieldInv'
    <3>1. /\ at' = k /\ left' = next.size /\ request' = request
          /\ kept' = kept /\ written' = written /\ buffered' = buffered
          /\ remaining' = remaining
      BY <2>1, <2>2
    <3>2. IF next.name = "audio"
          THEN kept.audio = <<>> /\ written = next.size - next.size
          ELSE written = AudioBytes(request.parts, k - 1)
      BY <2>4, <2>5, <2>6, <2>7
    <3>3. IF IsText(next)
          THEN /\ buffered = next.size - next.size
               /\ buffered <= MAX_TEXT_FIELD_BYTES
          ELSE buffered = 0
      BY <2>5, <2>6
    <3> QED
      BY <2>3, <2>4, <2>5, <2>6, <3>1, <3>2, <3>3, Zenon DEF InFieldInv
  <2> QED
    BY <1>1, <2>1, <2>2, <2>8 DEF DecidedInv
<1> QED
  BY <1>7, <1>8

\* A piece is charged and kept, or is the first beyond a limit.
LEMMA ChunkDecided ==
    ASSUME DecidedInv, UNCHANGED input, NEW bytes \in 1..left, Chunk(bytes)
    PROVE  DecidedInv'
<1> DEFINE part == request.parts[at]
           total == part.size
<1>1. point = "in_field" /\ InFieldInv /\ bytes \in 1..left
  BY DEF Chunk, DecidedInv
<1>2. /\ request.parts \in Seq(PartRecords) /\ Len(request.parts) \in Nat
      /\ at \in 1..Len(request.parts)
      /\ part \in PartRecords
  BY <1>1, InputType DEF InFieldInv
<1>3. total \in Nat
  BY <1>2 DEF PartRecords
<1>4. Sent[at] \in Nat
  <2>1. at \in 0..Len(request.parts)
    BY <1>2
  <2> QED
    BY <1>2, <2>1, SentSteps
<1> HIDE DEF part, total
<1>5. /\ left \in Nat /\ left <= total /\ bytes \in Nat /\ bytes >= 1
      /\ bytes <= left /\ remaining \in Nat
      /\ remaining + Sent[at] = max_upload_bytes + left
      /\ max_upload_bytes \in Nat /\ MAX_TEXT_FIELD_BYTES \in Nat
  BY <1>1, <1>3, SubmissionAssumption DEF InFieldInv, part, total
<1>6. IF IsText(part)
      THEN buffered = total - left /\ buffered <= MAX_TEXT_FIELD_BYTES
      ELSE buffered = 0
  BY <1>1, Zenon DEF InFieldInv, part, total
<1>7. IF part.name = "audio"
      THEN kept.audio = <<>> /\ written = total - left
      ELSE written = AudioBytes(request.parts, at - 1)
  BY <1>1, Zenon DEF InFieldInv, part, total
<1>8. IsText(part) => part.name # "audio"
  BY DEF IsText
<1> DEFINE refused == \/ ~Fits(bytes)
                      \/ /\ IsText(part)
                         /\ buffered + bytes > MAX_TEXT_FIELD_BYTES
<1>9. CASE refused
  <2>1. Answer("payload_too_large")
    BY <1>9, Zenon DEF Chunk, part, Part
  <2>2. TooLarge(at)
    <3>1. CASE ~Fits(bytes)
      <4>1. Sent[at] > max_upload_bytes
        BY <1>4, <1>5, <3>1 DEF Fits
      <4> QED
        BY <4>1, Zenon DEF TooLarge
    <3>2. CASE IsText(part) /\ buffered + bytes > MAX_TEXT_FIELD_BYTES
      <4>1. IsText(part) /\ total > MAX_TEXT_FIELD_BYTES
        BY <1>3, <1>5, <1>6, <3>2
      <4> QED
        BY <4>1, Zenon DEF TooLarge, PartAt, part, total
    <3> QED
      BY <1>9, <3>1, <3>2
  <2>3. ~SecondAudio(at)
    <3>1. SUFFICES ASSUME SecondAudio(at) PROVE FALSE
      OBVIOUS
    <3>2. part.name = "audio" /\ \E j \in Named("audio") : j < at
      BY <3>1, Zenon DEF SecondAudio, Named, PartAt, part
    <3>3. NamedUpTo(request.parts, "audio", at - 1) # {}
      <4>1. PICK j \in Named("audio") : j < at
        BY <3>2
      <4>2. j \in 1..Len(request.parts) /\ request.parts[j].name = "audio"
        BY <1>2, <4>1 DEF Named, Positions, PartAt
      <4>3. j \in 1..(at - 1)
        BY <1>2, <4>1, <4>2
      <4> QED
        BY <4>2, <4>3 DEF NamedUpTo
    <3>4. kept.audio # <<>>
      <4>1. kept.audio = KeptUpTo(request.parts, "audio", at - 1)
        BY <1>1 DEF InFieldInv, KeptAfter
      <4> QED
        BY <3>3, <4>1, SingletonNotEmpty DEF KeptUpTo
    <3> QED
      BY <1>7, <3>2, <3>4
  <2>4. SpecifiedAnswer = "payload_too_large"
    <3>1. at \in Refused
      <4>1. at \in Positions
        BY <1>2 DEF Positions
      <4> QED
        BY <2>2, <4>1, Zenon DEF Refused
    <3>2. Refused \cap (1..(at - 1)) = {} /\ Identified
      BY <1>1, Zenon DEF InFieldInv
    <3> QED
      BY <1>2, <2>2, <2>3, <3>1, <3>2, RefusedAnswer
  <2> QED
    BY <1>1, <2>1, <2>4, AnswerDecided
<1>10. CASE ~refused
  <2>1. /\ remaining' = Charged(bytes) /\ left' = left - bytes
        /\ written' = IF part.name = "audio" THEN written + bytes ELSE written
        /\ buffered' = IF IsText(part) THEN buffered + bytes ELSE buffered
        /\ UNCHANGED <<config, point, at, kept, answer, sink>>
    BY <1>10, Zenon DEF Chunk, part, Part
  <2>2. /\ raw' = raw /\ request' = request /\ at' = at /\ kept' = kept
        /\ point' = point /\ config' = config /\ answer' = answer
    BY <2>1 DEF input
  <2>3. Sent' = Sent /\ Refused' = Refused /\ Identified'
    BY <1>1, SameInput, Zenon DEF InFieldInv
  <2>4. /\ remaining' \in Nat /\ left' \in 0..total
        /\ remaining' + Sent[at] = max_upload_bytes + left'
    BY <1>4, <1>5, <1>3, <1>10, <2>1 DEF Fits, Charged
  <2>5. IF part.name = "audio"
        THEN kept.audio = <<>> /\ written' = total - left'
        ELSE written' = AudioBytes(request.parts, at - 1)
    BY <1>3, <1>5, <1>7, <2>1
  <2>6. IF IsText(part)
        THEN buffered' = total - left' /\ buffered' <= MAX_TEXT_FIELD_BYTES
        ELSE buffered' = 0
    BY <1>3, <1>5, <1>6, <1>10, <2>1
  <2>7. /\ kept = KeptAfter(request.parts, at - 1)
        /\ Refused \cap (1..(at - 1)) = {}
    BY <1>1, Zenon DEF InFieldInv
  <2> HIDE DEF refused
  <2>8. InFieldInv'
    BY <1>2, <2>2, <2>3, <2>4, <2>5, <2>6, <2>7, Zenon
       DEF InFieldInv, part, total
  <2> QED
    BY <1>1, <2>2, <2>8 DEF DecidedInv
<1> QED
  BY <1>9, <1>10

\* A field is complete and replaces one of its name, or is unreadable.
LEMMA EndFieldDecided ==
    ASSUME DecidedInv, UNCHANGED input, EndField
    PROVE  DecidedInv'
<1> DEFINE part == request.parts[at]
           total == part.size
           unreadable == \/ request.cut /\ at = Len(request.parts)
                         \/ IsText(part) /\ ~part.utf8
<1>1. point = "in_field" /\ InFieldInv /\ left = 0
  BY DEF EndField, DecidedInv
<1>2. /\ request.parts \in Seq(PartRecords) /\ Len(request.parts) \in Nat
      /\ at \in 1..Len(request.parts) /\ at - 1 \in Nat /\ (at - 1) + 1 = at
      /\ part \in PartRecords
      /\ DOMAIN request.parts = 1..Len(request.parts)
  BY <1>1, InputType DEF InFieldInv
<1>3. total \in Nat
  BY <1>2 DEF PartRecords
<1>4. Sent[at] \in Nat
  <2>1. at \in 0..Len(request.parts)
    BY <1>2
  <2> QED
    BY <1>2, <2>1, SentSteps
<1> HIDE DEF total
<1>5. /\ remaining \in Nat /\ remaining + Sent[at] = max_upload_bytes
      /\ Identified
      /\ kept = KeptAfter(request.parts, at - 1)
      /\ Refused \cap (1..(at - 1)) = {}
  BY <1>1, SubmissionAssumption DEF InFieldInv
<1>6. IF IsText(part)
      THEN buffered = total /\ buffered <= MAX_TEXT_FIELD_BYTES
      ELSE buffered = 0
  BY <1>1, <1>3 DEF InFieldInv, total
<1>7. IF part.name = "audio"
      THEN kept.audio = <<>> /\ written = total
      ELSE written = AudioBytes(request.parts, at - 1)
  BY <1>1, <1>3 DEF InFieldInv, total
<1>8. ~TooLarge(at)
  <2>1. ~(Sent[at] > max_upload_bytes)
    BY <1>4, <1>5, SubmissionAssumption
  <2>2. IsText(part) => ~(total > MAX_TEXT_FIELD_BYTES)
    BY <1>3, <1>6, SubmissionAssumption
  <2> QED
    BY <2>1, <2>2, Zenon DEF TooLarge, PartAt, total
<1>9. ~SecondAudio(at)
  <2>1. SUFFICES ASSUME SecondAudio(at) PROVE FALSE
    OBVIOUS
  <2>2. part.name = "audio" /\ \E j \in Named("audio") : j < at
    BY <2>1, Zenon DEF SecondAudio, Named, PartAt
  <2>3. NamedUpTo(request.parts, "audio", at - 1) # {}
    <3>1. PICK j \in Named("audio") : j < at
      BY <2>2
    <3>2. j \in 1..Len(request.parts) /\ request.parts[j].name = "audio"
      BY <1>2, <3>1 DEF Named, Positions, PartAt
    <3>3. j \in 1..(at - 1)
      BY <1>2, <3>1, <3>2
    <3> QED
      BY <3>2, <3>3 DEF NamedUpTo
  <2>4. kept.audio # <<>>
    <3>1. kept.audio = KeptUpTo(request.parts, "audio", at - 1)
      BY <1>5 DEF KeptAfter
    <3> QED
      BY <2>3, <3>1, SingletonNotEmpty DEF KeptUpTo
  <2> QED
    BY <1>7, <2>2, <2>4
<1>10. at \in Refused <=> unreadable
  <2>1. at \in Positions
    BY <1>2 DEF Positions
  <2>2. Unreadable(at) <=> unreadable
    BY Zenon DEF Unreadable, PartAt
  <2> HIDE DEF unreadable
  <2> QED
    BY <1>8, <1>9, <2>1, <2>2, Zenon DEF Refused
<1>11. CASE unreadable
  <2>1. Answer("invalid_multipart")
    BY <1>11, Zenon DEF EndField, Part
  <2>2. SpecifiedAnswer = "invalid_multipart"
    BY <1>2, <1>5, <1>8, <1>9, <1>10, <1>11, RefusedAnswer
  <2> QED
    BY <1>1, <2>1, <2>2, AnswerDecided
<1>12. CASE ~unreadable
  <2>1. /\ kept' = IF part.name \in DOMAIN kept
                   THEN [kept EXCEPT ![part.name] = <<part>>]
                   ELSE kept
        /\ buffered' = 0
        /\ point' = "between_fields"
        /\ UNCHANGED <<config, at, left, remaining, written, answer, sink>>
    BY <1>12, Zenon DEF EndField, Part
  <2>2. /\ raw' = raw /\ request' = request /\ at' = at /\ answer' = answer
        /\ remaining' = remaining /\ written' = written /\ config' = config
    BY <2>1 DEF input
  <2>3. Sent' = Sent /\ Refused' = Refused /\ Identified'
    BY <1>5, SameInput, Zenon
  <2>4. \A name : KeptUpTo(request.parts, name, at) =
                    IF part.name = name THEN <<part>>
                    ELSE KeptUpTo(request.parts, name, at - 1)
    <3> SUFFICES ASSUME NEW name
                 PROVE  KeptUpTo(request.parts, name, at) =
                          IF part.name = name THEN <<part>>
                          ELSE KeptUpTo(request.parts, name, at - 1)
      OBVIOUS
    <3> DEFINE k == at - 1
    <3>1. k \in Nat /\ k + 1 = at
      BY <1>2
    <3> HIDE DEF k
    <3>2. KeptUpTo(request.parts, name, k + 1) =
            IF request.parts[k + 1].name = name THEN <<request.parts[k + 1]>>
            ELSE KeptUpTo(request.parts, name, k)
      BY <3>1, KeptGrows
    <3> QED
      BY <3>1, <3>2, Zenon DEF k
  <2> HIDE DEF part, unreadable
  <2>5. kept' = KeptAfter(request.parts, at)
    <3>1. DOMAIN kept = {"audio", "tags", "recorded_at"}
      BY <1>5 DEF KeptAfter
    <3> QED
      BY <1>5, <2>1, <2>4, <3>1 DEF KeptAfter
  <2>6. written = AudioBytes(request.parts, at)
    <3>1. CASE part.name = "audio"
      <4>1. KeptUpTo(request.parts, "audio", at) = <<part>>
        BY <2>4, <3>1
      <4> QED
        BY <1>7, <3>1, <4>1, SingletonNotEmpty DEF AudioBytes, total
    <3>2. CASE part.name # "audio"
      <4>1. KeptUpTo(request.parts, "audio", at) =
              KeptUpTo(request.parts, "audio", at - 1)
        BY <2>4, <3>2
      <4> QED
        BY <1>7, <3>2, <4>1, Zenon DEF AudioBytes
    <3> QED
      BY <3>1, <3>2
  <2>7. Refused \cap (1..at) = {}
    <3>1. 1..at = (1..(at - 1)) \cup {at}
      BY <1>2
    <3> QED
      BY <1>5, <1>10, <1>12, <3>1
  <2>8. at \in 0..Len(request.parts)
    BY <1>2
  <2>9. BetweenInv'
    BY <1>5, <2>1, <2>2, <2>3, <2>5, <2>6, <2>7, <2>8, Zenon DEF BetweenInv
  <2> QED
    BY <1>1, <2>1, <2>2, <2>9 DEF DecidedInv
<1> QED
  BY <1>11, <1>12

\* The checks at the end of the body.
LEMMA EndBodyDecided ==
    ASSUME DecidedInv, UNCHANGED input, EndBody
    PROVE  DecidedInv'
<1>1. /\ point = "between_fields" /\ BetweenInv /\ at = Len(request.parts)
      /\ request.parts \in Seq(PartRecords)
  BY InputType DEF EndBody, DecidedInv
<1>2. Answer(BodyAnswer)
  BY Zenon DEF EndBody, BodyAnswer
<1>3. Refused = {}
  <2>1. Refused \subseteq 1..at
    <3>1. DOMAIN request.parts = 1..at
      BY <1>1
    <3> QED
      BY <3>1 DEF Refused, Positions
  <2> QED
    BY <1>1, <2>1 DEF BetweenInv
<1>4. /\ Identified
      /\ kept = KeptAfter(request.parts, Len(request.parts))
      /\ written = AudioBytes(request.parts, Len(request.parts))
  BY <1>1 DEF BetweenInv
<1>5. /\ BodyAnswer = SpecifiedAnswer
      /\ BodyAnswer = "created" =>
           /\ Named("audio") # {}
           /\ kept.audio = <<LastNamed("audio")>>
           /\ AcceptableAudio(LastNamed("audio"))
           /\ parse_tags(kept.tags).ok
  BY <1>1, <1>3, <1>4, BodyDecided
<1>6. CASE BodyAnswer # "created"
  <2>1. BodyAnswer # "none"
    BY BodyAnswerIs
  <2> QED
    BY <1>1, <1>2, <1>5, <1>6, <2>1, AnswerDecided
<1>7. CASE BodyAnswer = "created"
  <2>1. /\ answer' = "created" /\ point' = "answered" /\ written' = written
        /\ UNCHANGED <<config, at, left, remaining, kept, sink>>
        /\ raw' = raw /\ request' = request
    BY <1>2, <1>7 DEF Answer, input
  <2>2. written = LastNamed("audio").size
    <3>1. KeptUpTo(request.parts, "audio", Len(request.parts)) =
            <<LastNamed("audio")>>
      BY <1>4, <1>5, <1>7 DEF KeptAfter
    <3> QED
      BY <1>4, <3>1, SingletonNotEmpty DEF AudioBytes
  <2>3. StoredInv
    BY <1>4, <1>5, <1>7, <2>2, Zenon DEF StoredInv
  <2>4. StoredInv'
    BY <2>1, <2>3, SameInput, Zenon DEF StoredInv
  <2>5. answer' = SpecifiedAnswer'
    BY <1>5, <1>7, <2>1, SameInput
  <2> QED
    BY <1>1, <2>1, <2>4, <2>5 DEF DecidedInv
<1> QED
  BY <1>6, <1>7

\* The routing decision.
LEMMA RouteDecided ==
    ASSUME DecidedInv, UNCHANGED input, Route
    PROVE  DecidedInv'
<1>1. /\ point = "answered" /\ answer = "created" /\ StoredInv
      /\ answer = SpecifiedAnswer
      /\ raw \in RawConfigs
      /\ request.parts \in Seq(PartRecords)
  BY InputType DEF Route, DecidedInv
<1>2. /\ point' = "routed"
      /\ sink' = route(routing_rules(config.value), tags)
      /\ UNCHANGED <<config, reading, answer>>
  BY DEF Route
<1>3. /\ raw' = raw /\ request' = request /\ config' = config
      /\ answer' = answer /\ kept' = kept /\ written' = written
  BY <1>2 DEF input, reading
<1>4. ToSet(tags) = SentTags
  BY <1>1, TagsParsed DEF StoredInv, KeptAfter
<1>5. sink' = SpecifiedSink
  BY <1>1, <1>2, <1>4, ConfigKept, FirstSharingSink
<1>6. /\ sink' = SpecifiedSink' /\ answer' = SpecifiedAnswer'
  BY <1>1, <1>3, <1>5, SameInput
<1>7. StoredInv'
  BY <1>1, <1>3, SameInput, Zenon DEF StoredInv
<1> QED
  BY <1>1, <1>2, <1>3, <1>6, <1>7 DEF DecidedInv

\* One step per action of Next.
LEMMA DecidedNext == DecidedInv /\ [Next]_vars => DecidedInv'
<1> SUFFICES ASSUME DecidedInv, [Next]_vars PROVE DecidedInv'
  OBVIOUS
<1>1. CASE UNCHANGED vars
  <2>1. /\ UNCHANGED input
        /\ UNCHANGED <<config, point, at, left, remaining, kept, written,
                       buffered, answer, sink>>
    BY <1>1 DEF vars, reading, input
  <2>2. /\ Identified' <=> Identified
        /\ Sent' = Sent
        /\ Refused' = Refused
        /\ SpecifiedAnswer' = SpecifiedAnswer
        /\ SpecifiedSink' = SpecifiedSink
        /\ Named("audio")' = Named("audio")
        /\ LastNamed("audio")' = LastNamed("audio")
    BY <2>1, SameInput
  <2>3. (BetweenInv => BetweenInv') /\ (InFieldInv => InFieldInv')
    BY <2>1, <2>2, Zenon DEF BetweenInv, InFieldInv, input
  <2>4. StoredInv => StoredInv'
    BY <2>1, <2>2, Zenon DEF StoredInv, input
  <2> QED
    BY <2>1, <2>2, <2>3, <2>4, Zenon DEF DecidedInv, input
<1>2. CASE Load /\ UNCHANGED input
  BY <1>2, LoadDecided
<1>3. CASE Identify /\ UNCHANGED input
  BY <1>3, IdentifyDecided
<1>4. CASE NextField /\ UNCHANGED input
  BY <1>4, NextFieldDecided
<1>5. ASSUME NEW bytes \in 1..left, Chunk(bytes), UNCHANGED input
      PROVE  DecidedInv'
  BY <1>5, ChunkDecided
<1>6. CASE EndField /\ UNCHANGED input
  BY <1>6, EndFieldDecided
<1>7. CASE EndBody /\ UNCHANGED input
  BY <1>7, EndBodyDecided
<1>8. CASE Route /\ UNCHANGED input
  BY <1>8, RouteDecided
<1> QED
  BY <1>1, <1>2, <1>3, <1>4, <1>5, <1>6, <1>7, <1>8, Zenon DEF Next

\* The invariant says what the property says.
LEMMA DecidedInvDecides == DecidedInv => DecidedAsSpecified
<1> SUFFICES ASSUME DecidedInv PROVE DecidedAsSpecified
  OBVIOUS
<1>1. point # "loading" => (point = "refused" <=> ~WellFormed)
  <2>1. /\ raw \in RawConfigs
        /\ point # "loading" => config = validate(raw)
        /\ point = "refused" => ~config.ok
        /\ point \notin {"loading", "refused"} => config.ok
    BY Zenon DEF DecidedInv
  <2>2. validate(raw).ok <=> WellFormed
    BY <2>1, ConfigurationValidated
  <2> QED
    BY <2>1, <2>2
<1>2. answer # "none" => answer = SpecifiedAnswer
  BY DEF DecidedInv
<1>3. ASSUME answer = "created"
      PROVE  /\ written = LastNamed("audio").size
             /\ ToSet(tags) = SentTags
             /\ Len(tags) = Cardinality(SentTags)
             /\ audio_duration_ms = SpecifiedDuration(LastNamed("audio"))
  <2> DEFINE audio == LastNamed("audio")
  <2>1. StoredInv /\ request.parts \in Seq(PartRecords)
    BY <1>3, InputType, Zenon DEF DecidedInv
  <2>2. /\ ToSet(tags) = SentTags
        /\ Len(tags) = Cardinality(SentTags)
    BY <2>1, TagsParsed DEF StoredInv, KeptAfter
  <2>3. audio \in PartRecords
    BY <2>1, KeptAll, Zenon DEF StoredInv
  <2> HIDE DEF audio
  <2>4. audio.size \in Nat /\ audio.file.chunks \in Seq(ChunkRecords)
    BY <2>3 DEF PartRecords
  <2>5. AcceptableAudio(audio) /\ kept.audio = <<audio>>
    BY <2>1, Zenon DEF StoredInv, audio
  <2>6. duration_ms(audio.file, Leading(audio)) = SpecifiedDuration(audio)
    BY <2>4, <2>5, AudioParsed
  <2>7. kept.audio[1] = audio
    BY <2>5
  <2>8. audio_duration_ms = SpecifiedDuration(audio)
    BY <2>6, <2>7, Zenon DEF audio_duration_ms
  <2> QED
    BY <2>1, <2>2, <2>8, Zenon DEF StoredInv, audio
<1>4. point = "routed" => sink = SpecifiedSink
  BY DEF DecidedInv
<1> QED
  BY <1>1, <1>2, <1>3, <1>4, Zenon DEF DecidedAsSpecified

\* For every configuration file, every request and every cut of its body into
\* pieces, the process starts exactly with a well-formed file, and answers,
\* stores and routes as the file and the whole body determine.
THEOREM EveryBodyDecidedAsSpecified == Spec => []DecidedAsSpecified
BY DecidedInit, DecidedNext, DecidedInvDecides, PTL DEF Spec
=============================================================================

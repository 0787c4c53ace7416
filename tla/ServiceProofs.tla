--------------------------- MODULE ServiceProofs ---------------------------
(***************************************************************************)
(* What the proof system shows of module Service, for every poll budget,   *)
(* number of jobs, set of worker loops, connections and restarts.          *)
(***************************************************************************)
EXTENDS Service, TLAPS

\* A creation still on its way is of a resource the job will delete or has
\* given up on.
InFlight ==
    \A call \in calls :
        call.verb = "create" => call.what \in unaccounted \cup Open

\* A creation whose answer gave an id is not on its way any more.
Confirmed ==
    /\ stage \in {"creating", "polling", "pausing", "fetching",
                  "deleting_transcription", "deleting_file"}
       => Create(File(job)) \notin calls
    /\ stage \in {"polling", "pausing", "fetching",
                  "deleting_transcription"}
       => Create(Transcription(job)) \notin calls

\* What the loops and the server have reached.
ServicesInv ==
    /\ server # "listening" => flag
    /\ server = "returned" => connections = 0
    /\ \A w \in Loops : loop[w] = "returned" => flag
    /\ ~Running => connections = 0

JobInv == JobTypeOK /\ NoSilentLeak /\ InFlight /\ Confirmed

Inv == TypeOK /\ NoSilentLeak /\ InFlight /\ Confirmed /\ ServicesInv

\* The facts about the job are about the job's variables only.
LEMMA JobStutter ==
    ASSUME JobInv, UNCHANGED jobVars
    PROVE  JobInv'
BY DEF JobInv, jobVars, JobTypeOK, NoSilentLeak, InFlight, Confirmed, Open,
       File, Transcription, Create

LEMMA FailureType ==
    \A error \in SonioxError :
        into_worker_failure(error) \in {"retryable", "terminal"}
BY DEF into_worker_failure

\* What is needed of the shape of resources and calls.
LEMMA Shapes ==
    /\ \A j \in 1..MaxJobs : File(j) \in Resources
    /\ \A j \in 1..MaxJobs : Transcription(j) \in Resources
    /\ \A r \in Resources : Create(r) \in Calls /\ Delete(r) \in Calls
    /\ \A r : Create(r).what = r /\ Create(r).verb = "create"
    /\ \A r : Delete(r).what = r /\ Delete(r).verb = "delete"
    /\ \A i, j : File(i) # Transcription(j)
    /\ \A r, s : Create(r) # Delete(s)
    /\ \A r, s : Create(r) = Create(s) => r = s
    /\ \A call \in Calls : call.verb = "create" => call = Create(call.what)
    /\ \A call \in Calls : call.what \in Resources
BY DEF File, Transcription, Create, Delete, Resources, Calls

LEMMA DiscardCases ==
    ASSUME NEW r, Discard(r)
    PROVE  \/ r \notin held /\ unaccounted' = unaccounted
           \/ unaccounted' = unaccounted \cup {r}
BY DEF Discard

\* While a job runs its resources and the calls about them are well formed.
LEMMA JobNames ==
    ASSUME JobTypeOK, stage # "idle"
    PROVE  /\ job \in 1..MaxJobs
           /\ {File(job), Transcription(job)} \subseteq Resources
           /\ {Create(File(job)), Create(Transcription(job)),
               Delete(File(job)), Delete(Transcription(job))} \subseteq Calls
<1>1. job \in 1..MaxJobs
  BY JobAssumption, SMT
     DEF JobTypeOK, Stages, Verdicts, Ending, Calls, Resources
<1> QED
  BY <1>1, Shapes, Zenon

LEMMA OpenType ==
    ASSUME JobTypeOK
    PROVE  Open \subseteq Resources
<1>1. CASE stage = "idle"
  BY <1>1 DEF Open
<1>2. CASE stage # "idle"
  BY <1>2, JobNames, SMT
     DEF Open, JobTypeOK, Stages, Verdicts, Ending, Calls, Resources
<1> QED
  BY <1>1, <1>2

LEMMA CleanupInv ==
    ASSUME JobInv, NEW result \in Verdicts \ {"none"}, Cleanup(result),
           stage \in {"polling", "pausing", "fetching"}
    PROVE  JobInv' /\ stage' # "idle"
<1>1. JobTypeOK'
  BY JobNames, JobAssumption, SMT
     DEF JobInv, JobTypeOK, Cleanup, Go, Send, Stages, Verdicts, Ending,
         Calls, Resources
<1>2. /\ Open = {File(job), Transcription(job)}
      /\ Open' = Open
      /\ calls' = calls \cup {Delete(Transcription(job))}
      /\ held' = held /\ unaccounted' = unaccounted
      /\ job' = job /\ stage' = "deleting_transcription"
  BY DEF Open, Cleanup, Go, Send, File, Transcription
<1>3. NoSilentLeak'
  BY <1>2 DEF JobInv, NoSilentLeak
<1>4. InFlight'
  BY <1>2, Shapes, Zenon DEF JobInv, InFlight
<1>5. Confirmed'
  BY <1>2, Shapes DEF JobInv, Confirmed, File, Transcription
<1> QED
  BY <1>1, <1>2, <1>3, <1>4, <1>5 DEF JobInv

LEMMA CarryInv ==
    ASSUME JobInv, NEW call \in calls, Carry(call) \/ Lose(call)
    PROVE  JobInv' /\ stage' = stage
<1>1. /\ calls' = calls \ {call}
      /\ UNCHANGED <<stage, job, polls, verdict, unaccounted>>
      /\ held' \subseteq held \cup
                   {r \in {call.what} : call.verb = "create"}
  BY DEF Carry, Lose
<1>2. JobTypeOK'
  BY <1>1, Shapes, SMT
     DEF JobInv, JobTypeOK, Stages, Verdicts, Ending, Calls, Resources
<1>3. Open' = Open
  BY <1>1 DEF Open
<1>4. NoSilentLeak'
  BY <1>1, <1>3 DEF JobInv, NoSilentLeak, InFlight
<1>5. InFlight'
  BY <1>1, <1>3 DEF JobInv, InFlight
<1>6. Confirmed'
  BY <1>1 DEF JobInv, Confirmed, File, Transcription, Create
<1> QED
  BY <1>1, <1>2, <1>4, <1>5, <1>6 DEF JobInv

LEMMA DropInv ==
    ASSUME JobInv, Drop
    PROVE  JobInv' /\ stage' = "idle"
<1>1. /\ stage' = "idle" /\ polls' = 0 /\ verdict' = "none"
      /\ unaccounted' = unaccounted \cup Open
      /\ job' = job /\ calls' = calls /\ held' = held
  BY DEF Drop
<1>2. Open \subseteq Resources
  BY OpenType DEF JobInv
<1>3. Open' = {}
  BY <1>1 DEF Open
<1>4. JobTypeOK'
  BY <1>1, <1>2, JobAssumption, SMT
     DEF JobInv, JobTypeOK, Stages, Verdicts, Ending, Calls, Resources
<1>5. NoSilentLeak' /\ InFlight' /\ Confirmed'
  BY <1>1, <1>3 DEF JobInv, NoSilentLeak, InFlight, Confirmed
<1> QED
  BY <1>1, <1>4, <1>5 DEF JobInv

LEMMA BeginJobInv ==
    ASSUME JobInv, BeginJob
    PROVE  JobInv' /\ stage' # "idle"
BY SMT, JobAssumption DEF JobInv, JobTypeOK, NoSilentLeak, InFlight,
       Confirmed, Open, File, Transcription, Create, BeginJob, Stages,
       Verdicts, Ending, Calls, Resources

LEMMA TakeResultInv ==
    ASSUME JobInv, TakeResult
    PROVE  JobInv' /\ stage' = "idle"
BY SMT DEF JobInv, JobTypeOK, NoSilentLeak, InFlight, Confirmed, Open, File,
       Transcription, Create, TakeResult, Go, Stages, Verdicts, Ending,
       Calls, Resources

\* Every step the job takes while it runs, action by action.
LEMMA JobStepInv ==
    ASSUME JobInv, JobStep
    PROVE  JobInv' /\ (stage' = "idle" <=> stage = "idle")
<1> DEFINE Goal == JobInv' /\ (stage' = "idle" <=> stage = "idle")
<1> USE DEF JobInv, JobTypeOK, NoSilentLeak, InFlight, Confirmed, Open, Go,
            Send, Stages, Verdicts, Ending, Calls, Resources
<1>1. CASE ReadAudio
  BY <1>1, Shapes, SMT DEF ReadAudio
<1>2. CASE AudioUnreadable
  BY <1>2, Shapes, SMT DEF AudioUnreadable
<1>3. CASE Uploaded
  BY <1>3, Shapes, SMT DEF Uploaded
<1>4. ASSUME NEW error \in SonioxError, UploadFails(error)
      PROVE  Goal
  BY <1>4, Shapes, FailureType, SMT DEF UploadFails
<1>5. CASE Created
  <2>1. JobTypeOK' /\ stage' # "idle" /\ stage # "idle"
    BY <1>5, JobAssumption, SMT DEF Created
  <2>2. NoSilentLeak' /\ InFlight' /\ Confirmed'
    BY <1>5, SMT DEF Created, File, Transcription, Create
  <2> QED
    BY <2>1, <2>2
<1>6. ASSUME NEW error \in SonioxError, CreateFails(error)
      PROVE  Goal
  <2>1. into_worker_failure(error) \in {"retryable", "terminal"}
    BY FailureType
  <2>2. JobTypeOK' /\ stage' # "idle" /\ stage # "idle"
    BY <1>6, <2>1, JobNames, SMT DEF CreateFails
  <2>3. NoSilentLeak'
    BY <1>6, SMT DEF CreateFails, File, Transcription
  <2>4. InFlight'
    BY <1>6, Shapes DEF CreateFails, File, Transcription
  <2>5. Confirmed'
    BY <1>6, Shapes DEF CreateFails, File, Transcription
  <2> QED
    BY <2>2, <2>3, <2>4, <2>5
<1>7. CASE NotYet
  BY <1>7, JobAssumption, SMT DEF NotYet
<1>8. CASE Completed
  BY <1>8, JobAssumption, SMT DEF Completed
<1>9. CASE ProviderFails
  BY <1>9, CleanupInv, Zenon DEF ProviderFails
<1>10. ASSUME NEW error \in SonioxError, PollFails(error)
       PROVE  Goal
  BY <1>10, CleanupInv, FailureType, Zenon DEF PollFails
<1>11. CASE Pause
  <2>1. CASE polls < MaxPolls
    BY <1>11, <2>1, SMT DEF Pause
  <2>2. CASE ~(polls < MaxPolls)
    BY <1>11, <2>2, CleanupInv, Zenon DEF Pause
  <2> QED
    BY <2>1, <2>2
<1>12. CASE Fetched
  BY <1>12, CleanupInv, Zenon DEF Fetched
<1>13. ASSUME NEW error \in SonioxError, FetchFails(error)
       PROVE  Goal
  BY <1>13, CleanupInv, FailureType, Zenon DEF FetchFails
<1>14. CASE CleanupTranscription
  <2>1. /\ stage = "deleting_transcription"
        /\ stage' = "deleting_file"
        /\ calls' = calls \cup {Delete(File(job))}
        /\ UNCHANGED <<job, held, polls, verdict>>
        /\ \/ Transcription(job) \notin held /\ unaccounted' = unaccounted
           \/ unaccounted' = unaccounted \cup {Transcription(job)}
    BY <1>14, DiscardCases DEF CleanupTranscription
  <2>2. JobTypeOK'
    BY <2>1, JobNames, SMT
  <2>3. NoSilentLeak'
    BY <2>1, SMT DEF File, Transcription
  <2>4. InFlight' /\ Confirmed'
    BY <2>1, Shapes, SMT DEF File, Transcription
  <2> QED
    BY <2>1, <2>2, <2>3, <2>4
<1>15. CASE CleanupFile
  <2>1. /\ stage = "deleting_file"
        /\ stage' = "returned"
        /\ UNCHANGED <<job, held, polls, verdict, calls>>
        /\ \/ File(job) \notin held /\ unaccounted' = unaccounted
           \/ unaccounted' = unaccounted \cup {File(job)}
    BY <1>15, DiscardCases DEF CleanupFile
  <2>2. JobTypeOK'
    BY <2>1, JobNames, SMT
  <2>3. NoSilentLeak'
    BY <2>1, SMT DEF File
  <2>4. InFlight' /\ Confirmed'
    BY <2>1, Shapes, SMT DEF File
  <2> QED
    BY <2>1, <2>2, <2>3, <2>4
<1>16. ASSUME NEW call \in calls, Carry(call) \/ Lose(call)
       PROVE  Goal
  BY <1>16, CarryInv, Zenon
<1> QED
  BY <1>1, <1>2, <1>3, <1>4, <1>5, <1>6, <1>7, <1>8, <1>9, <1>10, <1>11,
     <1>12, <1>13, <1>14, <1>15, <1>16, Zenon DEF JobStep, Answer, Proceed
-----------------------------------------------------------------------------
\* The invariant in its two halves.
ProcessInv ==
    /\ phase \in Phases
    /\ ending \in Endings
    /\ flag \in BOOLEAN
    /\ loop \in [Loops -> {"checking", "ticking", "waiting", "returned"}]
    /\ server \in {"listening", "closing", "returned"}
    /\ connections \in 0..MaxConnections
    /\ starts \in 0..MaxStarts
    /\ admitted \in [ticks : SUBSET Loops, last_job : Nat]
    /\ flag <=> phase = "draining"
    /\ ending = "none" <=> phase # "exited"
    /\ ServicesInv

InJob == stage # "idle" => Running /\ loop["transcription"] = "ticking"

LEMMA InvParts == Inv <=> JobInv /\ ProcessInv /\ InJob
BY DEF Inv, JobInv, TypeOK, ProcessInv, InJob

LEMMA InitInv == Init => Inv
<1> SUFFICES ASSUME Init PROVE JobInv /\ ProcessInv /\ InJob
  BY InvParts
<1>1. JobInv
  BY JobAssumption, SMT DEF Init, JobInit, JobInv, JobTypeOK, NoSilentLeak,
     InFlight, Confirmed, Open, Stages, Verdicts, Ending
<1>2. /\ 1 \in 0..MaxStarts
      /\ 0 \in 0..MaxConnections
  BY ServiceAssumption, SMT
<1>3. loop \in [Loops -> {"checking", "ticking", "waiting", "returned"}]
  BY DEF Init
<1>4. \A w \in Loops : loop[w] = "returned" => flag
  BY DEF Init
<1>n. admitted \in [ticks : SUBSET Loops, last_job : Nat]
  BY DEF Init, Nothing
<1>5. ProcessInv /\ InJob
  BY <1>2, <1>3, <1>4, <1>n, Zenon DEF Init, JobInit, ProcessInv, ServicesInv,
     InJob, Phases, Endings, Running
<1> QED
  BY <1>1, <1>5

LEMMA ExitInv ==
    ASSUME Inv, NEW how \in Endings \ {"none"}, Exit(how)
    PROVE  Inv'
<1>1. JobInv' /\ stage' = "idle"
  BY InvParts, DropInv DEF Exit
<1>2. ProcessInv
  BY InvParts
<1>3. 0 \in 0..MaxConnections
  BY ServiceAssumption, SMT
<1>4. loop' \in [Loops -> {"checking", "ticking", "waiting", "returned"}]
  BY DEF Exit
<1>5. \A w \in Loops : (loop[w] = "returned")' => flag'
  BY DEF Exit
<1>n. admitted' \in [ticks : SUBSET Loops, last_job : Nat]
  BY DEF Exit, Nothing
<1>6. ProcessInv'
  BY <1>2, <1>3, <1>4, <1>5, <1>n DEF Exit, ProcessInv, ServicesInv, Phases,
     Endings, Running
<1> QED
  BY <1>1, <1>6 DEF InJob, Inv, JobInv, TypeOK, ProcessInv

LEMMA SetInv ==
    ASSUME Inv, Running, NEW w \in Loops,
           NEW at \in {"checking", "ticking", "waiting", "returned"},
           at = "returned" => flag,
           w = "transcription" /\ at # "ticking" => stage' = "idle",
           Set(w, at), JobInv',
           stage' # "idle" => loop'["transcription"] = "ticking"
    PROVE  Inv'
<1>1. ProcessInv'
  BY InvParts, SMT DEF Set, ProcessInv, ServicesInv, Running
<1>2. InJob'
  BY SMT DEF Set, InJob, Running
<1> QED
  BY <1>1, <1>2 DEF InJob, Inv, JobInv, TypeOK, ProcessInv

\* One step per action of Next; the job's own steps are JobStepInv.
LEMMA NextInv == Inv /\ [Next]_vars => Inv'
<1> SUFFICES ASSUME Inv, [Next]_vars PROVE Inv'
  OBVIOUS
<1> USE InvParts
<1>i. JobInv /\ ProcessInv /\ InJob
  OBVIOUS
<1>f. Inv' <=> JobInv' /\ ProcessInv' /\ InJob'
  BY DEF InJob, Inv, JobInv, TypeOK, ProcessInv
<1>1. CASE Serve
  <2>1. JobInv'
    BY <1>1, <1>i, JobStutter DEF Serve
  <2>2. ProcessInv' /\ InJob'
    BY <1>1, <1>i, SMT DEF Serve, ProcessInv, ServicesInv, InJob, jobVars,
       Phases, Running
  <2> QED
    BY <2>1, <2>2, <1>f
<1>2. CASE StartupFails
  BY <1>2, ExitInv DEF StartupFails, Endings
<1>3. CASE Signal
  <2>1. JobInv'
    BY <1>3, <1>i, JobStutter DEF Signal
  <2>t. admitted' \in [ticks : SUBSET Loops, last_job : Nat]
    BY <1>3, <1>i, JobAssumption, SMT
       DEF Signal, UnderWay, JobInv, JobTypeOK
  <2>2. ProcessInv' /\ InJob'
    BY <1>3, <1>i, <2>t, SMT DEF Signal, ProcessInv, ServicesInv, InJob,
       jobVars, Phases, Running
  <2> QED
    BY <2>1, <2>2, <1>f
<1>4. CASE Join
  BY <1>4, ExitInv DEF Join, Endings
<1>5. CASE GraceElapses
  BY <1>5, ExitInv DEF GraceElapses, Endings
<1>6. CASE Kill
  BY <1>6, ExitInv DEF Kill, Endings
<1>7. CASE Restart
  <2>1. JobInv'
    BY <1>7, <1>i, JobStutter DEF Restart
  <2>2. ProcessInv' /\ InJob'
    BY <1>7, <1>i, ServiceAssumption, SMT
       DEF Restart, ProcessInv, ServicesInv, InJob, jobVars, Phases, Endings,
           Running
  <2> QED
    BY <2>1, <2>2, <1>f
<1>8. ASSUME NEW w \in Loops, LoopStep(w)
      PROVE  Inv'
  <2>1. CASE Check(w)
    <3>1. JobInv'
      BY <2>1, <1>i, JobStutter DEF Check
    <3>2. /\ stage' = stage
          /\ Set(w, Head(w)) /\ loop[w] = "checking" /\ Running
      BY <2>1 DEF Check, jobVars
    <3>3. loop'["transcription"] = IF w = "transcription" THEN Head(w)
                                   ELSE loop["transcription"]
      BY <3>2, <1>i, <1>8 DEF Set, ProcessInv, Loops
    <3> QED
      BY <3>1, <3>2, <3>3, <1>i, SetInv, SMT DEF Head, InJob
  <2>2. CASE Wake(w)
    <3>1. JobInv'
      BY <2>2, <1>i, JobStutter DEF Wake
    <3>2. /\ stage' = stage
          /\ Set(w, "checking") /\ Running
          /\ w = "transcription" => stage = "idle"
      BY <2>2, <1>i, ServiceAssumption DEF Wake, jobVars, InJob
    <3>3. loop'["transcription"] = IF w = "transcription" THEN "checking"
                                   ELSE loop["transcription"]
      BY <3>2, <1>i, <1>8 DEF Set, ProcessInv, Loops
    <3> QED
      BY <3>1, <3>2, <3>3, <1>i, SetInv, SMT DEF AfterTick, InJob
  <2>3. CASE TickIdle(w)
    <3>1. JobInv'
      BY <2>3, <1>i, JobStutter DEF TickIdle
    <3>2. /\ stage' = stage
          /\ Set(w, AfterTick(FALSE)) /\ Running
          /\ w = "transcription" => stage = "idle"
      BY <2>3, <1>i, ServiceAssumption DEF TickIdle, AtStore, jobVars, InJob
    <3>3. loop'["transcription"] = IF w = "transcription" THEN AfterTick(FALSE)
                                   ELSE loop["transcription"]
      BY <3>2, <1>i, <1>8 DEF Set, ProcessInv, Loops
    <3> QED
      BY <3>1, <3>2, <3>3, <1>i, SetInv, SMT DEF AfterTick, InJob
  <2>4. CASE TickWorked(w)
    <3>1. JobInv'
      BY <2>4, <1>i, JobStutter DEF TickWorked
    <3>2. /\ stage' = stage
          /\ Set(w, AfterTick(TRUE)) /\ Running
          /\ w = "transcription" => stage = "idle"
      BY <2>4, <1>i, ServiceAssumption DEF TickWorked, jobVars, InJob
    <3>3. loop'["transcription"] = IF w = "transcription" THEN AfterTick(TRUE)
                                   ELSE loop["transcription"]
      BY <3>2, <1>i, <1>8 DEF Set, ProcessInv, Loops
    <3> QED
      BY <3>1, <3>2, <3>3, <1>i, SetInv, SMT DEF AfterTick, InJob
  <2>5. CASE TickFails(w)
    BY <2>5, ExitInv DEF TickFails, Endings
  <2> QED
    BY <1>8, <2>1, <2>2, <2>3, <2>4, <2>5 DEF LoopStep
<1>9. CASE JobStep /\ UNCHANGED processVars
  <2>1. JobInv' /\ (stage' = "idle" <=> stage = "idle")
    BY <1>9, <1>i, JobStepInv
  <2>2. ProcessInv' /\ InJob'
    BY <1>9, <2>1, <1>i
       DEF processVars, ProcessInv, ServicesInv, InJob, Running
  <2> QED
    BY <2>1, <2>2, <1>f
<1>10. CASE BeginTranscription
  <2>1. JobInv'
    BY <1>10, <1>i, BeginJobInv DEF BeginTranscription
  <2>2. ProcessInv' /\ InJob'
    BY <1>10, <1>i DEF BeginTranscription, processVars, ProcessInv,
       ServicesInv, InJob, Running
  <2> QED
    BY <2>1, <2>2, <1>f
<1>11. CASE RecordResult
  <2>1. JobInv' /\ stage' = "idle"
    BY <1>11, <1>i, TakeResultInv DEF RecordResult
  <2>2. Set("transcription", AfterTick(TRUE)) /\ Running
    BY <1>11 DEF RecordResult
  <2> QED
    BY <2>1, <2>2, SetInv, SMT DEF AfterTick, Loops
<1>12. CASE Accept \/ Disconnect \/ StopListening \/ ServerReturns
  <2>1. JobInv'
    BY <1>12, <1>i, JobStutter
       DEF Accept, Disconnect, StopListening, ServerReturns
  <2>2. ProcessInv' /\ InJob'
    BY <1>12, <1>i, ServiceAssumption, SMT
       DEF Accept, Disconnect, StopListening, ServerReturns, ProcessInv,
           ServicesInv, InJob, jobVars, Running
  <2> QED
    BY <2>1, <2>2, <1>f
<1>13. CASE UNCHANGED vars
  <2>1. JobInv'
    BY <1>13, <1>i, JobStutter DEF vars
  <2>2. ProcessInv' /\ InJob'
    BY <1>13, <1>i DEF vars, jobVars, processVars, ProcessInv, ServicesInv,
       InJob, Running
  <2> QED
    BY <2>1, <2>2, <1>f
<1> QED
  BY <1>1, <1>2, <1>3, <1>4, <1>5, <1>6, <1>7, <1>8, <1>9, <1>10, <1>11,
     <1>12, <1>13 DEF Next, Work

LEMMA Invariance == Spec => []Inv
  BY InitInv, NextInv, PTL DEF Spec

\* The variables of the process and of its provider job keep their types.
THEOREM ServiceTypeOK == Spec => []TypeOK
<1>1. Inv => TypeOK
  BY DEF Inv
<1> QED
  BY <1>1, Invariance, PTL

\* run() forgets no provider resource whose id it was given, whatever is
\* answered, lost or late and wherever the process dies.
THEOREM NoResourceForgotten == Spec => []NoSilentLeak
<1>1. Inv => NoSilentLeak
  BY DEF Inv
<1> QED
  BY <1>1, Invariance, PTL

\* OnlyTicksUnderWay, and what makes it inductive: the tick that still has its
\* attempt before it has its job in hand.
TicksInv ==
    flag => /\ UnderWay.ticks \subseteq admitted.ticks
            /\ job <= admitted.last_job
            /\ loop["transcription"] = "ticking" /\ stage = "idle"
                 => job < admitted.last_job

\* A loop that sees the flag ends, and a tick begins one job.
LEMMA TicksStep == Inv /\ TicksInv /\ [Next]_vars => TicksInv'
<1> SUFFICES ASSUME Inv, TicksInv, [Next]_vars, flag' PROVE TicksInv'
  BY DEF TicksInv
<1>0. /\ ProcessInv /\ InJob
      /\ job \in Int
      /\ "transcription" \in Loops
  BY InvParts, JobAssumption, SMT DEF JobInv, JobTypeOK, Loops
<1>1. CASE Signal
  BY <1>0, <1>1, SMT DEF Signal, TicksInv, UnderWay, jobVars, ProcessInv
<1>2. ASSUME flag, NEW w \in Loops, NEW to \in {"checking", "waiting",
             "returned"}, Set(w, to), UNCHANGED job,
             w = "transcription" \/ UNCHANGED stage
      PROVE  TicksInv'
  BY <1>0, <1>2, SMT DEF Set, TicksInv, UnderWay, ProcessInv
<1>3. ASSUME NEW w \in Loops, LoopStep(w)
      PROVE  TicksInv'
  <2>1. flag /\ UNCHANGED jobVars
    BY <1>3 DEF LoopStep, Check, Wake, TickIdle, TickWorked, TickFails, Set,
         Exit
  <2>2. \E to \in {"checking", "waiting", "returned"} : Set(w, to)
    BY <1>3, <2>1 DEF LoopStep, Check, Wake, TickIdle, TickWorked, TickFails,
         Exit, Head, AfterTick
  <2>3. QED
    BY <1>2, <2>1, <2>2 DEF jobVars
<1>4. CASE JobStep /\ UNCHANGED processVars
  <2>1. /\ UNCHANGED job
        /\ stage' = "idle" <=> stage = "idle"
    BY <1>4, InvParts, JobStepInv DEF JobStep, Answer, Proceed, ReadAudio,
       AudioUnreadable, Pause, Uploaded, Created, NotYet, Completed,
       ProviderFails, Fetched, UploadFails, CreateFails, PollFails,
       FetchFails, CleanupTranscription, CleanupFile, Carry, Lose, Cleanup,
       Go
  <2>2. QED
    BY <1>4, <2>1 DEF processVars, TicksInv, UnderWay
<1>5. CASE BeginTranscription
  <2>1. /\ flag /\ UNCHANGED <<flag, loop, admitted>>
        /\ stage = "idle" /\ stage' = "reading"
        /\ loop["transcription"] = "ticking"
        /\ job' = job + 1
    BY <1>5 DEF BeginTranscription, BeginJob, processVars
  <2>2. job < admitted.last_job /\ admitted.last_job \in Int
    BY <1>0, <2>1 DEF TicksInv, ProcessInv
  <2>3. UnderWay'.ticks = UnderWay.ticks
    BY <2>1 DEF UnderWay
  <2>4. QED
    BY <1>0, <2>1, <2>2, <2>3, SMT DEF TicksInv
<1>6. CASE RecordResult
  <2>1. flag /\ Set("transcription", "returned") /\ UNCHANGED job
    BY <1>6 DEF RecordResult, AfterTick, Set, TakeResult, Go
  <2>2. QED
    BY <1>0, <1>2, <2>1
<1>7. CASE \/ Serve \/ Restart \/ Accept \/ Disconnect \/ StopListening
           \/ ServerReturns \/ UNCHANGED vars
  BY <1>7 DEF Serve, Restart, Accept, Disconnect, StopListening,
     ServerReturns, vars, processVars, jobVars, TicksInv, UnderWay
<1>8. ~(StartupFails \/ Join \/ GraceElapses \/ Kill)
  BY DEF StartupFails, Join, GraceElapses, Kill, Exit
<1>9. QED
  BY <1>1, <1>3, <1>4, <1>5, <1>6, <1>7, <1>8 DEF Next, Work

\* A shutdown lets the ticks under way finish and admits no other: at most one
\* more Recording goes to the provider, by the tick that had begun, and none if
\* its job was running.
THEOREM ShutdownAdmitsNoTick == Spec => []OnlyTicksUnderWay
<1>1. Init => TicksInv
  BY DEF Init, TicksInv
<1>2. TicksInv => OnlyTicksUnderWay
  BY DEF TicksInv, OnlyTicksUnderWay
<1> QED
  BY <1>1, <1>2, TicksStep, Invariance, PTL DEF Spec

\* A process that ends by itself has finished everything it had begun.
THEOREM GracefulExitIsClean == Spec => GracefulExit
<1>1. Inv /\ [Next]_vars
      => [ending # "joined" /\ ending' = "joined"
          => /\ stage = "idle"
             /\ connections = 0
             /\ \A w \in Loops : loop[w] = "returned"
             /\ flag]_vars
  <2> SUFFICES ASSUME Inv, Next, ending # "joined", ending' = "joined"
               PROVE  /\ stage = "idle"
                      /\ connections = 0
                      /\ \A w \in Loops : loop[w] = "returned"
                      /\ flag
    BY DEF vars
  <2>1. ProcessInv /\ InJob
    BY InvParts
  <2>2. CASE ending' = ending
    BY <2>2
  <2>3. ASSUME NEW x \in Loops, LoopStep(x), ending' # ending
        PROVE  FALSE
    BY <2>3 DEF LoopStep, Check, Wake, TickIdle, TickWorked, TickFails, Set,
       Exit
  <2>4. CASE Join
    BY <2>1, <2>4 DEF Join, Joined, ProcessInv, ServicesInv, InJob, Loops
  <2>5. CASE StartupFails \/ GraceElapses \/ Kill
    BY <2>5 DEF StartupFails, GraceElapses, Kill, Exit
  <2>6. CASE Restart
    BY <2>6 DEF Restart
  <2> QED
    BY <2>2, <2>3, <2>4, <2>5, <2>6, Zenon DEF Next, Work, Serve, Signal,
       BeginTranscription, RecordResult, Set, Accept, Disconnect,
       StopListening, ServerReturns, processVars
<1> QED
  BY <1>1, Invariance, PTL DEF Spec, GracefulExit

\* A fetched transcript survives its cleanup.
THEOREM FetchedIsKept == Spec => TranscriptKept
<1>1. Inv /\ [Next]_vars
      => [verdict = "ok" => \/ verdict' = "ok" \/ stage = "returned"
                            \/ phase' = "exited"]_vars
  <2> SUFFICES ASSUME Inv, Next, verdict = "ok", stage # "returned",
                      phase' # "exited"
               PROVE  verdict' = "ok"
    BY DEF vars
  <2>1. stage \in {"deleting_transcription", "deleting_file"}
    BY SMT DEF Inv, TypeOK, JobTypeOK, Ending
  <2>2. CASE UNCHANGED jobVars
    BY <2>2 DEF jobVars
  <2>3. CASE JobStep
    BY <2>1, <2>3 DEF JobStep, Answer, Proceed, ReadAudio, AudioUnreadable,
       Pause, Uploaded, Created, NotYet, Completed, ProviderFails, Fetched,
       UploadFails, CreateFails, PollFails, FetchFails, CleanupTranscription,
       CleanupFile, Carry, Lose
  <2>4. CASE BeginTranscription \/ RecordResult
    BY <2>1, <2>4 DEF BeginTranscription, BeginJob, RecordResult, TakeResult
  <2>5. ASSUME NEW x \in Loops, LoopStep(x)
        PROVE  UNCHANGED jobVars
    BY <2>5 DEF LoopStep, Check, Wake, TickIdle, TickWorked, TickFails, Exit
  <2>6. ~(StartupFails \/ Join \/ GraceElapses \/ Kill)
    BY DEF StartupFails, Join, GraceElapses, Kill, Exit
  <2> QED
    BY <2>2, <2>3, <2>4, <2>5, <2>6, Zenon DEF Next, Work, Serve, Signal,
       Restart, Accept, Disconnect, StopListening, ServerReturns
<1> QED
  BY <1>1, Invariance, PTL DEF Spec, TranscriptKept
=============================================================================

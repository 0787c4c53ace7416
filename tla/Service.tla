------------------------------ MODULE Service ------------------------------
(***************************************************************************)
(* The process of src/runtime.rs: startup, the HTTP server and the three   *)
(* worker loops (run_worker_loop, src/workers/mod.rs) under one try_join,  *)
(* and the shutdown with its grace period.  The Transcription loop runs    *)
(* the provider job of module SonioxJob; what a tick reads and writes in   *)
(* the database is modules Pipeline and Intake, so a tick of the other     *)
(* loops is only its outcome.                                              *)
(*                                                                         *)
(* The loops, the server and the signal are polled by one task, so a loop  *)
(* reads the flag and begins its tick in one step.                         *)
(***************************************************************************)
EXTENDS SonioxJob

CONSTANTS
    OtherLoops,     \* the worker loops besides "transcription"
    MaxConnections, \* bound: HTTP connections open at once
    MaxStarts       \* bound: starts of the process

ASSUME ServiceAssumption ==
    /\ "transcription" \notin OtherLoops
    /\ MaxConnections \in Nat
    /\ MaxStarts \in Nat \ {0}

VARIABLES
    phase,       \* of run()
    ending,      \* how the last process ended
    flag,        \* the value of the shutdown watch channel
    loop,        \* where each worker loop stands
    server,      \* "listening", then "closing", then "returned"
    connections, \* open HTTP connections
    starts,      \* starts of the process so far
    admitted     \* history: what was under way when the shutdown was requested

processVars ==
    <<phase, ending, flag, loop, server, connections, starts, admitted>>
vars == <<jobVars, processVars>>

Loops == OtherLoops \cup {"transcription"}
Phases == {"starting", "serving", "draining", "exited"}
\* "joined" and "grace" exit with code 0, "failed" with another.
Endings == {"none", "joined", "grace", "failed", "killed"}

Running == phase \in {"serving", "draining"}

\* The loops that are in a tick, and the number of the last provider job that
\* those ticks can come to: one that has its attempt still before it may begin
\* one more.
UnderWay ==
    [ticks |-> {w \in Loops : loop[w] = "ticking"},
     last_job |-> IF loop["transcription"] = "ticking" /\ stage = "idle"
                  THEN job + 1 ELSE job]

Nothing == [ticks |-> {}, last_job |-> 0]

Init ==
    /\ JobInit
    /\ phase = "starting"
    /\ ending = "none"
    /\ flag = FALSE
    /\ loop = [w \in Loops |-> "checking"]
    /\ server = "listening"
    /\ connections = 0
    /\ starts = 1
    /\ admitted = Nothing
-----------------------------------------------------------------------------
(* run(): startup and the end of the process.                              *)

\* The process ends.  Every future it was polling is dropped; the next
\* process begins with new ones.
Exit(how) ==
    /\ phase' = "exited"
    /\ ending' = how
    /\ flag' = FALSE
    /\ loop' = [w \in Loops |-> "checking"]
    /\ server' = "listening"
    /\ connections' = 0
    /\ admitted' = Nothing
    /\ Drop
    /\ UNCHANGED starts

\* Storage, recovery, the integrations and the listener are set up.
Serve ==
    /\ phase = "starting"
    /\ phase' = "serving"
    /\ UNCHANGED <<jobVars, ending, flag, loop, server, connections, starts,
                   admitted>>

\* One of them fails: no loop has run yet.
StartupFails == phase = "starting" /\ Exit("failed")

\* SIGINT or SIGTERM.
Signal ==
    /\ phase = "serving"
    /\ phase' = "draining"
    /\ flag' = TRUE
    /\ admitted' = UnderWay
    /\ UNCHANGED <<jobVars, ending, loop, server, connections, starts>>

\* Seeded bug: the server alone decides.
SeededJoined == server = "returned"

\* try_join!: every service has returned Ok.
Joined ==
    /\ \A w \in Loops : loop[w] = "returned"
    /\ server = "returned"

Join == Running /\ Joined /\ Exit("joined")

\* Seeded bug: the grace bounds the server's drain and not the ticks.
SeededGraceElapses ==
    /\ phase = "draining"
    /\ \A w \in Loops : loop[w] # "ticking"
    /\ Exit("grace")

GraceElapses == phase = "draining" /\ Exit("grace")

\* A crash or SIGKILL.
Kill == phase # "exited" /\ Exit("killed")

\* systemd, or the operator, starts the process again.
Restart ==
    /\ phase = "exited"
    /\ starts < MaxStarts
    /\ starts' = starts + 1
    /\ phase' = "starting"
    /\ ending' = "none"
    /\ UNCHANGED <<jobVars, flag, loop, server, connections, admitted>>
-----------------------------------------------------------------------------
(* run_worker_loop().                                                      *)

Set(w, at) ==
    /\ loop' = [loop EXCEPT ![w] = at]
    /\ UNCHANGED <<phase, ending, flag, server, connections, starts, admitted>>

\* Seeded bug: the flag is read only after a tick.
SeededHead(w) == "ticking"

\* The head of the loop: the flag, or the next tick.
Head(w) == IF flag THEN "returned" ELSE "ticking"

\* After a tick: the flag again, then the head at once or after the wait.
AfterTick(worked) ==
    IF flag THEN "returned" ELSE IF worked THEN "checking" ELSE "waiting"

Check(w) ==
    /\ Running
    /\ loop[w] = "checking"
    /\ Set(w, Head(w))
    /\ UNCHANGED jobVars

\* The idle interval is over or the flag has changed.
Wake(w) ==
    /\ Running
    /\ loop[w] = "waiting"
    /\ Set(w, "checking")
    /\ UNCHANGED jobVars

\* The tick is not inside the provider's job.
AtStore(w) == loop[w] = "ticking" /\ (w = "transcription" => stage = "idle")

TickIdle(w) ==
    /\ Running
    /\ AtStore(w)
    /\ Set(w, AfterTick(FALSE))
    /\ UNCHANGED jobVars

TickWorked(w) ==
    /\ Running
    /\ w \in OtherLoops
    /\ loop[w] = "ticking"
    /\ Set(w, AfterTick(TRUE))
    /\ UNCHANGED jobVars

\* A StorageError ends the loop, the join and the process.
TickFails(w) ==
    /\ Running
    /\ loop[w] = "ticking"
    /\ w = "transcription" => stage \in {"idle", "returned"}
    /\ Exit("failed")

\* The Transcription tick has an attempt and calls the transcriber.
BeginTranscription ==
    /\ Running
    /\ loop["transcription"] = "ticking"
    /\ BeginJob
    /\ UNCHANGED processVars

\* It records the result of the job.
RecordResult ==
    /\ Running
    /\ loop["transcription"] = "ticking"
    /\ TakeResult
    /\ Set("transcription", AfterTick(TRUE))
-----------------------------------------------------------------------------
(* axum::serve() with graceful shutdown.                                   *)

Accept ==
    /\ Running
    /\ server = "listening"
    /\ connections < MaxConnections
    /\ connections' = connections + 1
    /\ UNCHANGED <<jobVars, phase, ending, flag, loop, server, starts,
                   admitted>>

Disconnect ==
    /\ Running
    /\ connections > 0
    /\ connections' = connections - 1
    /\ UNCHANGED <<jobVars, phase, ending, flag, loop, server, starts,
                   admitted>>

StopListening ==
    /\ Running
    /\ server = "listening"
    /\ flag
    /\ server' = "closing"
    /\ UNCHANGED <<jobVars, phase, ending, flag, loop, connections, starts,
                   admitted>>

ServerReturns ==
    /\ Running
    /\ server = "closing"
    /\ connections = 0
    /\ server' = "returned"
    /\ UNCHANGED <<jobVars, phase, ending, flag, loop, connections, starts,
                   admitted>>
-----------------------------------------------------------------------------
LoopStep(w) ==
    \/ Check(w) \/ Wake(w) \/ TickIdle(w) \/ TickWorked(w) \/ TickFails(w)

Work == \/ JobStep /\ UNCHANGED processVars
        \/ BeginTranscription
        \/ RecordResult

Next ==
    \/ Serve \/ StartupFails \/ Signal \/ Join \/ GraceElapses
    \/ Kill \/ Restart
    \/ \E w \in Loops : LoopStep(w)
    \/ Work
    \/ Accept \/ Disconnect \/ StopListening \/ ServerReturns

\* The process runs: its timers fire and what is ready is polled.  Nothing is
\* assumed of the provider, of a Sink or of the HTTP clients, which may never
\* answer; the calls have no timeout.
Fairness ==
    /\ WF_vars(GraceElapses)
    /\ WF_vars(Proceed /\ UNCHANGED processVars)
    /\ WF_vars(RecordResult)

Spec == Init /\ [][Next]_vars /\ Fairness
-----------------------------------------------------------------------------
(* Properties.                                                             *)

TypeOK ==
    /\ JobTypeOK
    /\ phase \in Phases
    /\ ending \in Endings
    /\ flag \in BOOLEAN
    /\ loop \in [Loops -> {"checking", "ticking", "waiting", "returned"}]
    /\ server \in {"listening", "closing", "returned"}
    /\ connections \in 0..MaxConnections
    /\ starts \in 0..MaxStarts
    /\ admitted \in [ticks : SUBSET Loops, last_job : Nat]
    /\ flag <=> phase = "draining"
    /\ ending = "none" <=> phase # "exited"
    /\ stage # "idle" => Running /\ loop["transcription"] = "ticking"

\* Every file or transcription that exists at the provider either belongs to
\* the job now running, which will still delete it, or is one whose creation
\* or deletion was never confirmed or whose job was dropped with the process:
\* no path through run() forgets a resource whose id it was given.
NoSilentLeak == held \subseteq unaccounted \cup Open

\* Once the transcript has been fetched, nothing the cleanup meets turns the
\* job into a failure: it returns the transcript or dies with the process.
TranscriptKept ==
    [][verdict = "ok"
       => verdict' = "ok" \/ stage = "returned" \/ phase' = "exited"]_vars

\* After a shutdown request only the ticks that were under way go on: no loop
\* begins another, and nothing is sent to the provider but by the Transcription
\* tick of that moment, for one Recording at most and for none if its job had
\* begun already.
OnlyTicksUnderWay ==
    flag => /\ UnderWay.ticks \subseteq admitted.ticks
            /\ job <= admitted.last_job

\* A process that ends because its services returned leaves nothing behind:
\* no job at the provider, no tick half done, no connection cut.
GracefulExit ==
    [][ending # "joined" /\ ending' = "joined"
       => /\ stage = "idle"
          /\ connections = 0
          /\ \A w \in Loops : loop[w] = "returned"
          /\ flag]_vars

\* A requested shutdown ends the process even if the provider, a Sink or an
\* HTTP client never answers.
ShutdownEnds == phase = "draining" ~> phase = "exited"

\* If the provider answers, every job ends: the poll budget bounds a
\* transcription that never completes.
JobEnds ==
    WF_vars(Answer /\ UNCHANGED processVars)
    => (stage # "idle" ~> stage = "idle")
=============================================================================

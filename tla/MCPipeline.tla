----------------------------- MODULE MCPipeline -----------------------------
(***************************************************************************)
(* Instances of Pipeline for TLC.  The schedule <<1, 2>> and windows of 2  *)
(* scale the code's minutes and hours down: a retry fits into the window,  *)
(* and the last backoff is as long as the window, as 6h is against 2h.     *)
(***************************************************************************)
EXTENDS Pipeline, TLC

ScaledSchedule == <<1, 2>>

\* No Recording has a known duration, so each has the shortest window ...
UnknownDuration == [r \in Recordings |-> 0]

\* ... or is long enough to stretch it.
LongDuration == [r \in Recordings |-> 2]

\* Interchangeable identities, for the runs that check no liveness.
Symmetry ==
    Permutations(Recordings) \cup Permutations(Routers)
        \cup Permutations(Requests) \cup Permutations(Sinks)
=============================================================================

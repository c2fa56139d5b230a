------------------------ MODULE ExperimentScheduler ------------------------
(***************************************************************************)
(* What the experiment scheduler of JCoz promises, without the sampling   *)
(* buffer, the delay ledger or time: the profiler thread cycles through    *)
(* Idle, Sampling, Selecting, Running and Recording until a stop flag is   *)
(* raised, then terminates.  An experiment is active only while Running;  *)
(* an experiment that was stopped while running is discarded, and a row   *)
(* is appended only when a completed experiment is recorded.              *)
(*                                                                         *)
(* JCozEngine implements it (module JCozRefinement): phase is a function  *)
(* of the agent's program counter, stopped is ~_running, active is        *)
(* in_experiment and rows counts the CSV rows written.                     *)
(***************************************************************************)
EXTENDS Naturals

VARIABLES
    phase,     \* "Idle", "Sampling", "Selecting", "Running", "Recording", "Stopped"
    stopped,   \* the global stop flag has been raised
    active,    \* an experiment is active
    rows       \* rows appended to the output

vars == <<phase, stopped, active, rows>>

Phases == {"Idle", "Sampling", "Selecting", "Running", "Recording", "Stopped"}

Init ==
    /\ phase = "Idle"
    /\ stopped = FALSE
    /\ active = FALSE
    /\ rows = 0

\* The stop flag is observed at the top of the loop.
BeginRound ==
    /\ phase = "Idle" /\ ~stopped
    /\ phase' = "Sampling"
    /\ UNCHANGED <<stopped, active, rows>>

Terminate ==
    /\ phase = "Idle" /\ stopped
    /\ phase' = "Stopped"
    /\ UNCHANGED <<stopped, active, rows>>

\* The sampling budget is spent: the frame buffer is taken.
EndSampling ==
    /\ phase = "Sampling"
    /\ phase' = "Selecting"
    /\ UNCHANGED <<stopped, active, rows>>

\* No candidate frame resolves: back to the top of the loop.
NoTarget ==
    /\ phase = "Selecting"
    /\ phase' = "Idle"
    /\ UNCHANGED <<stopped, active, rows>>

\* A target is chosen and the experiment is marked active.
Activate ==
    /\ phase = "Selecting"
    /\ phase' = "Running" /\ active' = TRUE
    /\ UNCHANGED <<stopped, rows>>

\* The run ends (duration elapsed, progress seen, or stop observed).
Deactivate ==
    /\ phase = "Running" /\ active
    /\ active' = FALSE
    /\ UNCHANGED <<phase, stopped, rows>>

\* Stopped mid-experiment: the results are discarded.
DiscardTrial ==
    /\ phase = "Running" /\ ~active /\ stopped
    /\ phase' = "Idle"
    /\ UNCHANGED <<stopped, active, rows>>

CollectTrial ==
    /\ phase = "Running" /\ ~active /\ ~stopped
    /\ phase' = "Recording"
    /\ UNCHANGED <<stopped, active, rows>>

\* One row is appended, or the trial is dropped when its class cannot be
\* resolved.
RecordTrial ==
    /\ phase = "Recording"
    /\ phase' = "Idle"
    /\ rows' \in {rows, rows + 1}
    /\ UNCHANGED <<stopped, active>>

RaiseStop ==
    /\ ~stopped
    /\ stopped' = TRUE
    /\ UNCHANGED <<phase, active, rows>>

Next ==
    \/ BeginRound \/ Terminate \/ EndSampling \/ NoTarget \/ Activate
    \/ Deactivate \/ DiscardTrial \/ CollectTrial \/ RecordTrial \/ RaiseStop

Spec == Init /\ [][Next]_vars

TypeOK ==
    /\ phase \in Phases /\ stopped \in BOOLEAN /\ active \in BOOLEAN
    /\ rows \in Nat
=============================================================================

--------------------------- MODULE JCozRefinement ---------------------------
(***************************************************************************)
(* JCozEngine implements ExperimentScheduler.  The refinement mapping     *)
(* reads the scheduler's phase off the agent thread's program counter:    *)
(* the loop top (and the cleanup after a trial) is Idle, the sampling     *)
(* broadcasts are Sampling, the frame-buffer swap and target selection    *)
(* are Selecting, runExperiment from in_experiment = true until the       *)
(* results are read is Running, and the counter reset and row write are    *)
(* Recording.  The stop flag is ~_running, the active flag in_experiment. *)
(***************************************************************************)
EXTENDS JCozEngine

\* The scheduler phase of each point of runAgentThread / runExperiment.
SchedulerPhase ==
    CASE apc \in {"top", "cleanup"}                -> "Idle"
      [] apc = "sample"                           -> "Sampling"
      [] apc \in {"swap", "select", "start"}       -> "Selecting"
      [] apc \in {"draw", "run", "flip", "check"}  -> "Running"
      [] apc \in {"reset", "record"}               -> "Recording"
      [] apc = "done"                             -> "Stopped"

Sched == INSTANCE ExperimentScheduler
           WITH phase <- SchedulerPhase, stopped <- ~running,
                active <- inExperiment, rows <- rowsWritten

\* The agent thread, the handlers, the registry and Stop together behave
\* as the scheduler state machine of the design: every step of theirs is
\* a scheduler step or leaves the scheduler's state alone.  In particular
\* the stop flag is honoured at the loop top, an experiment is active only
\* in Running, and a trial cut short by Stop never reaches Recording.
SchedulerRefined == Sched!Spec
=============================================================================

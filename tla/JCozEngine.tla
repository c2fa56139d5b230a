----------------------------- MODULE JCozEngine -----------------------------
(***************************************************************************)
(* The experiment engine of JCoz: the profiler (agent) thread that samples *)
(* frames, selects a target and runs experiments (runAgentThread,          *)
(* runExperiment, update_experiment_length), the SIGPROF handler running  *)
(* on every registered thread (Handle), the virtual-delay protocol between *)
(* the handler and the global ledger, thread registration (addUserThread, *)
(* removeUserThread), progress-point hits (HandleBreakpoint) and shutdown  *)
(* (Stop).  Source: src/src/profiler.cc.                                   *)
(*                                                                         *)
(* Time is abstracted: one tick of the run loop is one SIGNAL_FREQ sleep   *)
(* followed by a broadcast; delays are in units of speedup-step *          *)
(* SIGNAL_FREQ (50 microseconds), so an experiment of speedup k/20 has a   *)
(* per-hit delay of k units.                                               *)
(***************************************************************************)
EXTENDS Integers, Sequences, FiniteSets, FiniteSetsExt

CONSTANTS
  Threads,           \* Java threads of the "main" thread group
  InScope,           \* jmethodIDs of in-scope classes (in_scope_ids)
  Resolvable,        \* methods for which GetLineNumberTable succeeds
  NullFrame,         \* the all-zero JVMPI_CallFrame written by memset
  SpeedupSteps,      \* k such that calculate_random_speedup() may return k/20
  EndToEnd,          \* the end_to_end option
  FixExp,            \* the fix_exp option
  NumStaticFrames,   \* NUM_STATIC_CALL_FRAMES
  SyncEvery,         \* signals between two delay synchronisations (10)
  SampleRounds,      \* broadcasts per sampling phase (15..30 in the code)
  MinExpTime, MaxExpTime, ExpTimeFactor,
  HitsToIncExpTime, HitsToDecExpTime,
  SleepOvershoot,    \* extra time a nanosleep may take beyond its request
  OneSecond,         \* one second in delay units: the tv_nsec limit
  MaxHits,           \* bound: points_hit plus a thread's pending hits
  MaxExperiments     \* bound: number of experiments started

ASSUME /\ Resolvable \subseteq InScope /\ NullFrame \notin InScope
       /\ SpeedupSteps \subseteq 0..20 /\ 0 \in SpeedupSteps
       /\ EndToEnd \in BOOLEAN /\ FixExp \in BOOLEAN
       /\ NumStaticFrames \in Nat \ {0} /\ SyncEvery \in Nat \ {0}
       /\ SampleRounds \in Nat \ {0}
       /\ 0 < MinExpTime /\ MinExpTime <= MaxExpTime /\ ExpTimeFactor > 1
       /\ SleepOvershoot \subseteq Nat /\ 0 \in SleepOvershoot
       /\ OneSecond \in Nat \ {0}
       /\ MaxHits \in Nat /\ MaxExperiments \in Nat

VARIABLES
  \* --- profiler (agent) thread: static members of Profiler ---
  apc,            \* where the agent thread is in runAgentThread/runExperiment
  running,        \* _running
  profileDone,    \* profile_done
  inExperiment,   \* in_experiment
  pointsHit,      \* points_hit (global progress counter)
  globalDelay,    \* global_delay (the ledger)
  expTime,        \* experiment_time
  expSpeedup,     \* current_experiment.speedup (in twentieths)
  expDelay,       \* current_experiment.delay
  expHits,        \* current_experiment.points_hit
  expMethod,      \* current_experiment.method_id
  ticks,          \* run-loop iterations of the current experiment
  rounds,         \* broadcasts of the current sampling phase
  exps,           \* experiments started (bounded by MaxExperiments)
  callIndex,      \* call_index
  staticFrames,   \* static_call_frames
  callFrames,     \* call_frames after sort/unique (a set)
  rowsWritten,    \* CSV rows appended to the output file
  rangesState,    \* current_experiment.location_ranges: "none", "live", "freed"
  \* --- registered threads ---
  userThreads,    \* user_threads
  tstate,         \* lifecycle of each thread
  localDelay,     \* curr_ut->local_delay
  numSignals,     \* curr_ut->num_signals_received
  tHits,          \* curr_ut->points_hit
  sigPending,     \* a SIGPROF is pending for the thread
  hpc,            \* where the thread's signal handler is
  hdiff,          \* sleep_diff local of Handle
  bpc, bval,      \* HandleBreakpoint's read-modify-write of points_hit
  rdiff,          \* sleep_time local of removeUserThread
  \* --- the VM-death thread running Stop ---
  spc,
  \* --- history variables, not in the code ---
  expCredits,     \* delay amounts credited to local_delay, this experiment
  expSlept,       \* delay each thread requested to sleep, this experiment
  injected        \* Stop injected the end-to-end hit into a running experiment

rangeVars  == <<rangesState>>
agentVars  == <<apc, running, profileDone, inExperiment, pointsHit, globalDelay,
                expTime, expSpeedup, expDelay, expHits, expMethod, ticks,
                rounds, exps, callIndex, staticFrames, callFrames, rowsWritten,
                rangesState>>
threadVars == <<userThreads, tstate, localDelay, numSignals, tHits, sigPending,
                hpc, hdiff, bpc, bval, rdiff>>
ghostVars  == <<expCredits, expSlept, injected>>
vars == <<agentVars, threadVars, spc, ghostVars>>

Frames == InScope \cup {NullFrame}
FrameSlots == 0..(NumStaticFrames - 1)
Alive == {t \in Threads : tstate[t] \in {"live", "ending", "erasing"}}
VMAlive == spc # "done"

(* signal_user_threads: under user_threads_lock, pthread_kill(SIGPROF) to   *)
(* every registered thread.  Standard signals do not queue.                *)
Broadcast ==
  /\ sigPending' = [t \in Threads |-> sigPending[t] \/ t \in userThreads]

(* update_experiment_length *)
UpdateExperimentLength(time, hits) ==
  CASE FixExp -> time
    [] hits <= HitsToIncExpTime ->
         IF time * 2 > MaxExpTime THEN MaxExpTime ELSE time * ExpTimeFactor
    [] time > MinExpTime /\ hits >= HitsToDecExpTime -> time \div ExpTimeFactor
    [] OTHER -> time

(* Variant of the loop condition that waits for a hit without testing    *)
(* end_to_end.                                                             *)
RunConditionNoModeCheck ==
  running /\ (pointsHit = 0 \/ ticks < expTime)

(* The loop condition of runExperiment's while. *)
RunCondition ==
  running /\ ((EndToEnd /\ pointsHit = 0) \/ ticks < expTime)

(* jcoz_sleep(d): the time nanosleep actually took.  The request is put  *)
(* whole into tv_nsec, so from one second on nanosleep fails with EINVAL;  *)
(* the zeroed remainder is then requested and the loop ends at once.      *)
JcozSleep(d) ==
  IF d = 0 \/ d >= OneSecond THEN {0} ELSE {d + o : o \in SleepOvershoot}

(* History variables start afresh for each experiment. *)
ResetHistory ==
  /\ expCredits' = {} /\ expSlept' = [t \in Threads |-> 0]

(* History: from in_experiment = true until runExperiment reads the ledger. *)
Measuring == apc \in {"draw", "run", "flip", "check"}
ChargeSleep(t, d) ==
  expSlept' = IF Measuring THEN [expSlept EXCEPT ![t] = @ + d] ELSE expSlept

----------------------------------------------------------------------------
(***************************************************************************)
(* Profiler thread: runAgentThread                                         *)
(***************************************************************************)

(* Variant of the loop top that starts a round without testing _running. *)
LoopTopNoRunCheck ==
  /\ apc = "top" /\ exps < MaxExperiments
  /\ apc' = "sample" /\ rounds' = 0
  /\ UNCHANGED <<running, profileDone, inExperiment, pointsHit, globalDelay,
                 expTime, expSpeedup, expDelay, expHits, expMethod, ticks, exps,
                 callIndex, staticFrames, callFrames, rowsWritten, rangeVars>>
  /\ UNCHANGED <<threadVars, spc, ghostVars>>

(* while (_running) at the top of the agent loop.  Once MaxExperiments    *)
(* have been started the model's agent waits here for Stop.               *)
LoopTop ==
  /\ apc = "top" /\ running /\ exps < MaxExperiments
  /\ apc' = "sample" /\ rounds' = 0
  /\ UNCHANGED <<running, profileDone, inExperiment, pointsHit, globalDelay,
                 expTime, expSpeedup, expDelay, expHits, expMethod, ticks, exps,
                 callIndex, staticFrames, callFrames, rowsWritten, rangeVars>>
  /\ UNCHANGED <<threadVars, spc, ghostVars>>

(* Variant of the loop exit that forgets profile_done = true. *)
AgentExitNoFlag ==
  /\ apc = "top" /\ ~running
  /\ apc' = "done"
  /\ UNCHANGED <<running, profileDone, inExperiment, pointsHit, globalDelay,
                 expTime, expSpeedup, expDelay, expHits, expMethod, ticks,
                 rounds, exps, callIndex, staticFrames, callFrames, rowsWritten, rangeVars>>
  /\ UNCHANGED <<threadVars, spc, ghostVars>>

AgentExit ==
  /\ apc = "top" /\ ~running
  /\ apc' = "done" /\ profileDone' = TRUE
  /\ UNCHANGED <<running, inExperiment, pointsHit, globalDelay, expTime,
                 expSpeedup, expDelay, expHits, expMethod, ticks, rounds, exps,
                 callIndex, staticFrames, callFrames, rowsWritten, rangeVars>>
  /\ UNCHANGED <<threadVars, spc, ghostVars>>

(* One randomized sleep of the sampling phase followed by a broadcast. *)
SampleTick ==
  /\ apc = "sample"
  /\ Broadcast
  /\ rounds' = rounds + 1
  /\ apc' = IF rounds + 1 = SampleRounds THEN "swap" ELSE "sample"
  /\ UNCHANGED <<running, profileDone, inExperiment, pointsHit, globalDelay,
                 expTime, expSpeedup, expDelay, expHits, expMethod, ticks, exps,
                 callIndex, staticFrames, callFrames, rowsWritten, rangeVars>>
  /\ UNCHANGED <<userThreads, tstate, localDelay, numSignals, tHits, hpc, hdiff,
                 bpc, bval, rdiff, spc, expCredits, expSlept, injected>>

(* Copy static_call_frames[0 .. call_index) under frame_lock, then sort and *)
(* unique: the set of distinct frames.                                     *)
SwapFrames ==
  /\ apc = "swap"
  /\ callFrames' = callFrames \cup
       {staticFrames[i] : i \in 0..(Min({callIndex, NumStaticFrames}) - 1)}
  /\ apc' = "select"
  /\ UNCHANGED <<running, profileDone, inExperiment, pointsHit, globalDelay,
                 expTime, expSpeedup, expDelay, expHits, expMethod, ticks,
                 rounds, exps, callIndex, staticFrames, rowsWritten, rangeVars>>
  /\ UNCHANGED <<threadVars, spc, ghostVars>>

(* No frame was copied: sample again (call_index is left alone). *)
SelectNoFrames ==
  /\ apc = "select" /\ callFrames = {}
  /\ apc' = "top"
  /\ UNCHANGED <<running, profileDone, inExperiment, pointsHit, globalDelay,
                 expTime, expSpeedup, expDelay, expHits, expMethod, ticks,
                 rounds, exps, callIndex, staticFrames, callFrames, rowsWritten, rangeVars>>
  /\ UNCHANGED <<threadVars, spc, ghostVars>>

(* No candidate's line-number table resolves: clear call_frames, continue. *)
SelectUnresolved ==
  /\ apc = "select" /\ callFrames # {}
  /\ callFrames \cap Resolvable = {}
  /\ callIndex' = 0 /\ callFrames' = {} /\ apc' = "top"
  /\ UNCHANGED <<running, profileDone, inExperiment, pointsHit, globalDelay,
                 expTime, expSpeedup, expDelay, expHits, expMethod, ticks,
                 rounds, exps, staticFrames, rowsWritten, rangeVars>>
  /\ UNCHANGED <<threadVars, spc, ghostVars>>

(* The first resolvable candidate in shuffled order becomes the target;   *)
(* its line and bytecode ranges are computed (module LineRanges).         *)
SelectTarget ==
  /\ apc = "select"
  /\ \E f \in callFrames \cap Resolvable : expMethod' = f
  /\ callIndex' = 0 /\ exps' = exps + 1 /\ apc' = "start"
  /\ rangesState' = "live"
  /\ UNCHANGED <<running, profileDone, inExperiment, pointsHit, globalDelay,
                 expTime, expSpeedup, expDelay, expHits, ticks, rounds,
                 staticFrames, callFrames, rowsWritten>>
  /\ UNCHANGED <<threadVars, spc, ghostVars>>

(* After the experiment: call_frames.clear() and memset of the static      *)
(* buffer under frame_lock; call_index is not reset.                       *)
Cleanup ==
  /\ apc = "cleanup"
  /\ callFrames' = {} /\ staticFrames' = [i \in FrameSlots |-> NullFrame]
  /\ apc' = "top"
  /\ ResetHistory
  /\ UNCHANGED <<running, profileDone, inExperiment, pointsHit, globalDelay,
                 expTime, expSpeedup, expDelay, expHits, expMethod, ticks,
                 rounds, exps, callIndex, rowsWritten, rangeVars>>
  /\ UNCHANGED <<threadVars, spc, injected>>

----------------------------------------------------------------------------
(***************************************************************************)
(* Profiler thread: runExperiment                                          *)
(***************************************************************************)

(* in_experiment = true; points_hit = 0: raised before speedup and delay  *)
(* are written.                                                            *)
StartExperiment ==
  /\ apc = "start"
  /\ inExperiment' = TRUE /\ pointsHit' = 0 /\ apc' = "draw"
  /\ ResetHistory
  /\ UNCHANGED <<running, profileDone, globalDelay, expTime,
                 expSpeedup, expDelay, expHits, expMethod, ticks, rounds, exps,
                 callIndex, staticFrames, callFrames, rowsWritten, rangeVars>>
  /\ UNCHANGED <<threadVars, spc, injected>>

(* Variant of calculate_random_speedup with the zero band one value wide *)
(* too many.                                                               *)
CalculateRandomSpeedupOffByOne(randVal) ==
  IF randVal <= 5 THEN 0 ELSE randVal - 4

(* calculate_random_speedup, in twentieths: rand() % 25 below 5 gives 0,   *)
(* otherwise (randVal - 4) / 20.  The float product with SIGNAL_FREQ is    *)
(* exact for every k / 20, so the delay in units is the speedup itself.    *)
CalculateRandomSpeedup(randVal) ==
  IF randVal < 5 THEN 0 ELSE randVal - 4

RandValues == 0..24

(* Speedup drawn; delay = speedup * SIGNAL_FREQ; the clock starts.  Only   *)
(* the draws giving a speedup in SpeedupSteps are explored.                *)
DrawSpeedup ==
  /\ apc = "draw"
  /\ \E r \in RandValues :
       LET s == CalculateRandomSpeedup(r)
       IN  s \in SpeedupSteps /\ expSpeedup' = s /\ expDelay' = s
  /\ ticks' = 0 /\ apc' = "run"
  /\ UNCHANGED <<running, profileDone, inExperiment, pointsHit, globalDelay,
                 expTime, expHits, expMethod, rounds, exps, callIndex,
                 staticFrames, callFrames, rowsWritten, rangeVars>>
  /\ UNCHANGED <<threadVars, spc, ghostVars>>

(* One iteration of the run loop: jcoz_sleep(SIGNAL_FREQ); broadcast.    *)
(* ticks counts the iterations up to the deadline; once it equals         *)
(* experiment_time the clock is past `end` and further iterations (end-to- *)
(* end mode waiting for a hit) leave it there.                             *)
RunTick ==
  /\ apc = "run" /\ RunCondition
  /\ ticks' = Min({ticks + 1, expTime})
  /\ Broadcast
  /\ UNCHANGED <<apc, running, profileDone, inExperiment, pointsHit,
                 globalDelay, expTime, expSpeedup, expDelay, expHits, expMethod,
                 rounds, exps, callIndex, staticFrames, callFrames, rowsWritten, rangeVars>>
  /\ UNCHANGED <<userThreads, tstate, localDelay, numSignals, tHits, hpc, hdiff,
                 bpc, bval, rdiff, spc, expCredits, expSlept, injected>>

RunExit ==
  /\ apc = "run" /\ ~RunCondition
  /\ apc' = "flip"
  /\ UNCHANGED <<running, profileDone, inExperiment, pointsHit, globalDelay,
                 expTime, expSpeedup, expDelay, expHits, expMethod, ticks,
                 rounds, exps, callIndex, staticFrames, callFrames, rowsWritten, rangeVars>>
  /\ UNCHANGED <<threadVars, spc, expCredits, expSlept,
                 injected>>

(* in_experiment = false, then one more broadcast. *)
Flip ==
  /\ apc = "flip"
  /\ inExperiment' = FALSE /\ Broadcast /\ apc' = "check"
  /\ UNCHANGED <<running, profileDone, pointsHit, globalDelay, expTime,
                 expSpeedup, expDelay, expHits, expMethod, ticks, rounds, exps,
                 callIndex, staticFrames, callFrames, rowsWritten, rangeVars>>
  /\ UNCHANGED <<userThreads, tstate, localDelay, numSignals, tHits, hpc, hdiff,
                 bpc, bval, rdiff, spc, expCredits, expSlept, injected>>

(* if (!_running) { delete[] location_ranges; return; } *)
Discard ==
  /\ apc = "check" /\ ~running
  /\ apc' = "cleanup"
  /\ rangesState' = "freed"
  /\ UNCHANGED <<running, profileDone, inExperiment, pointsHit, globalDelay,
                 expTime, expSpeedup, expDelay, expHits, expMethod, ticks,
                 rounds, exps, callIndex, staticFrames, callFrames, rowsWritten>>
  /\ UNCHANGED <<threadVars, spc, ghostVars>>

(* delay = global_delay; points_hit read *)
Collect ==
  /\ apc = "check" /\ running
  /\ expDelay' = globalDelay /\ expHits' = pointsHit /\ apc' = "reset"
  /\ UNCHANGED <<running, profileDone, inExperiment, pointsHit, globalDelay,
                 expTime, expSpeedup, expMethod, ticks, rounds, exps, callIndex,
                 staticFrames, callFrames, rowsWritten, rangeVars>>
  /\ UNCHANGED <<threadVars, spc, ghostVars>>

(* points_hit = 0; global_delay = 0 *)
ResetCounters ==
  /\ apc = "reset"
  /\ pointsHit' = 0 /\ globalDelay' = 0 /\ apc' = "record"
  /\ UNCHANGED <<running, profileDone, inExperiment, expTime, expSpeedup,
                 expDelay, expHits, expMethod, ticks, rounds, exps, callIndex,
                 staticFrames, callFrames, rowsWritten, rangeVars>>
  /\ UNCHANGED <<threadVars, spc, expCredits, expSlept,
                 injected>>

(* getClassFromMethodIDLocation fails: the sample is thrown out. *)
RecordLookupFails ==
  /\ apc = "record"
  /\ apc' = "cleanup"
  /\ UNCHANGED <<running, profileDone, inExperiment, pointsHit, globalDelay,
                 expTime, expSpeedup, expDelay, expHits, expMethod, ticks,
                 rounds, exps, callIndex, staticFrames, callFrames, rowsWritten, rangeVars>>
  /\ UNCHANGED <<threadVars, spc, ghostVars>>

(* update_experiment_length, then one CSV row is appended. *)
Record ==
  /\ apc = "record"
  /\ expTime' = UpdateExperimentLength(expTime, expHits)
  /\ rowsWritten' = rowsWritten + 1
  /\ apc' = "cleanup"
  /\ rangesState' = "freed"
  /\ UNCHANGED <<running, profileDone, inExperiment, pointsHit, globalDelay,
                 expSpeedup, expDelay, expHits, expMethod, ticks, rounds, exps,
                 callIndex, staticFrames, callFrames>>
  /\ UNCHANGED <<threadVars, spc, ghostVars>>

----------------------------------------------------------------------------
(***************************************************************************)
(* Registered threads: addUserThread, HandleBreakpoint, removeUserThread   *)
(***************************************************************************)

MergeHits(t) ==
  /\ pointsHit' = pointsHit + tHits[t]
  /\ tHits' = [tHits EXCEPT ![t] = 0]

(* OnThreadStart of a "main"-group thread: a UserThread with local_delay =  *)
(* global_delay is inserted into user_threads under user_threads_lock.     *)
ThreadStart(t) ==
  /\ VMAlive /\ tstate[t] = "new"
  /\ tstate' = [tstate EXCEPT ![t] = "live"]
  /\ localDelay' = [localDelay EXCEPT ![t] = globalDelay]
  /\ numSignals' = [numSignals EXCEPT ![t] = 0]
  /\ tHits' = [tHits EXCEPT ![t] = 0]
  /\ userThreads' = userThreads \cup {t}
  /\ UNCHANGED <<agentVars, sigPending, hpc, hdiff, bpc, bval, rdiff, spc, expCredits, expSlept, injected>>

(* curr_ut->points_hit += in_experiment: the load-add ... *)
BreakpointRead(t) ==
  /\ VMAlive /\ ~EndToEnd
  /\ tstate[t] = "live" /\ hpc[t] = "idle" /\ bpc[t] = "idle"
  /\ pointsHit + tHits[t] < MaxHits
  /\ bval' = [bval EXCEPT ![t] = tHits[t] + (IF inExperiment THEN 1 ELSE 0)]
  /\ bpc' = [bpc EXCEPT ![t] = "write"]
  /\ UNCHANGED <<agentVars, userThreads, tstate, localDelay, numSignals, tHits,
                 sigPending, hpc, hdiff, rdiff, spc, expCredits, expSlept, injected>>

(* ... and the store, which a SIGPROF handler may precede. *)
BreakpointWrite(t) ==
  /\ bpc[t] = "write" /\ hpc[t] = "idle"
  /\ tHits' = [tHits EXCEPT ![t] = bval[t]]
  /\ bpc' = [bpc EXCEPT ![t] = "idle"] /\ bval' = [bval EXCEPT ![t] = 0]
  /\ UNCHANGED <<agentVars, userThreads, tstate, localDelay, numSignals,
                 sigPending, hpc, hdiff, rdiff, spc, ghostVars>>

(* removeUserThread: merge pending hits and read sleep_time = global_delay *)
(* - local_delay.                                                           *)
EndMerge(t) ==
  /\ VMAlive
  /\ tstate[t] = "live" /\ hpc[t] = "idle" /\ bpc[t] = "idle"
  /\ MergeHits(t)
  /\ rdiff' = [rdiff EXCEPT ![t] = globalDelay - localDelay[t]]
  /\ tstate' = [tstate EXCEPT ![t] = "ending"]
  /\ UNCHANGED <<apc, running, profileDone, inExperiment, globalDelay, expTime,
                 expSpeedup, expDelay, expHits, expMethod, ticks, rounds, exps,
                 callIndex, staticFrames, callFrames, rowsWritten, rangeVars>>
  /\ UNCHANGED <<userThreads, localDelay, numSignals, sigPending, hpc, hdiff,
                 bpc, bval, spc, ghostVars>>

(* Settle the skew: sleep if behind, else global_delay += |sleep_time|. *)
EndSettle(t) ==
  /\ VMAlive /\ tstate[t] = "ending" /\ hpc[t] = "idle"
  /\ \/ /\ rdiff[t] > 0
        /\ ChargeSleep(t, rdiff[t])
        /\ UNCHANGED globalDelay
     \/ /\ rdiff[t] <= 0
        /\ globalDelay' = globalDelay - rdiff[t]
        /\ UNCHANGED expSlept
  /\ tstate' = [tstate EXCEPT ![t] = "erasing"]
  /\ UNCHANGED <<apc, running, profileDone, inExperiment, pointsHit, expTime,
                 expSpeedup, expDelay, expHits, expMethod, ticks, rounds, exps,
                 callIndex, staticFrames, callFrames, rowsWritten, rangeVars>>
  /\ UNCHANGED <<userThreads, localDelay, numSignals, tHits, sigPending, hpc,
                 hdiff, bpc, bval, rdiff, spc, expCredits, injected>>

(* Erase from user_threads under the lock and delete curr_ut.  A SIGPROF  *)
(* already sent to the thread stays pending.                              *)
EndErase(t) ==
  /\ VMAlive /\ tstate[t] = "erasing" /\ hpc[t] = "idle"
  /\ userThreads' = userThreads \ {t}
  /\ tstate' = [tstate EXCEPT ![t] = "ended"]
  /\ rdiff' = [rdiff EXCEPT ![t] = 0]
  /\ UNCHANGED <<agentVars, localDelay, numSignals, tHits, sigPending, hpc,
                 hdiff, bpc, bval, spc, ghostVars>>

----------------------------------------------------------------------------
(***************************************************************************)
(* The SIGPROF handler Profiler::Handle, on the thread it interrupts       *)
(***************************************************************************)

HandlerEnabled(t) ==
  /\ VMAlive /\ t \in Alive /\ sigPending[t] /\ hpc[t] = "idle"

(* Early return: no JNI environment, or AsyncGetCallTrace failed with an *)
(* unrecognised error code.  (A recognised error leaves num_frames < 0 and *)
(* takes the paths below with no frame.)                                   *)
HandleTraceError(t) ==
  /\ HandlerEnabled(t)
  /\ sigPending' = [sigPending EXCEPT ![t] = FALSE]
  /\ UNCHANGED <<agentVars, userThreads, tstate, localDelay, numSignals, tHits,
                 hpc, hdiff, bpc, bval, rdiff, spc, ghostVars>>

(* Not in an experiment: local_delay = 0; no in-scope frame on the stack. *)
HandleSampleNoFrame(t) ==
  /\ HandlerEnabled(t) /\ ~inExperiment
  /\ sigPending' = [sigPending EXCEPT ![t] = FALSE]
  /\ localDelay' = [localDelay EXCEPT ![t] = 0]
  /\ UNCHANGED <<agentVars, userThreads, tstate, numSignals, tHits, hpc, hdiff,
                 bpc, bval, rdiff, spc, ghostVars>>

(* Not in an experiment: local_delay = 0; the first in-scope frame f is   *)
(* stored at call_index.fetch_add(1) under frame_lock if it fits.          *)
HandleSampleFrame(t) ==
  /\ HandlerEnabled(t) /\ ~inExperiment
  /\ \E f \in InScope :
       staticFrames' = IF callIndex < NumStaticFrames
                       THEN [staticFrames EXCEPT ![callIndex] = f]
                       ELSE staticFrames
  /\ callIndex' = callIndex + 1
  /\ sigPending' = [sigPending EXCEPT ![t] = FALSE]
  /\ localDelay' = [localDelay EXCEPT ![t] = 0]
  /\ UNCHANGED <<apc, running, profileDone, inExperiment, pointsHit,
                 globalDelay, expTime, expSpeedup, expDelay, expHits, expMethod,
                 ticks, rounds, exps, callFrames, rowsWritten, rangeVars>>
  /\ UNCHANGED <<userThreads, tstate, numSignals, tHits, hpc, hdiff, bpc, bval,
                 rdiff, spc, ghostVars>>

(* In an experiment: num_signals_received++, then the frames are scanned. *)
HandleExperiment(t) ==
  /\ HandlerEnabled(t) /\ inExperiment
  /\ numSignals' = [numSignals EXCEPT ![t] = @ + 1]
  /\ hpc' = [hpc EXCEPT ![t] = "scan"]
  /\ sigPending' = [sigPending EXCEPT ![t] = FALSE]
  /\ UNCHANGED <<agentVars, userThreads, tstate, localDelay, tHits, hdiff, bpc,
                 bval, rdiff, spc, ghostVars>>

(* The scan reads current_experiment.location_ranges (inExperiment) with  *)
(* no lock and no new check of in_experiment: if a frame lies in the      *)
(* target's ranges, local_delay += current_experiment.delay.  On the       *)
(* SyncEvery-th signal read sleep_diff = global_delay - local_delay;       *)
(* otherwise merge pending hits and return.                                *)
HandleScan(t) ==
  /\ VMAlive /\ hpc[t] = "scan"
  /\ \E inRegion \in BOOLEAN :
       LET local == localDelay[t] + (IF inRegion THEN expDelay ELSE 0)
       IN /\ localDelay' = [localDelay EXCEPT ![t] = local]
          /\ expCredits' = IF inRegion THEN expCredits \cup {expDelay}
                                       ELSE expCredits
          /\ \/ /\ numSignals[t] = SyncEvery
                /\ hdiff' = [hdiff EXCEPT ![t] = globalDelay - local]
                /\ hpc' = [hpc EXCEPT ![t] = "sync"]
                /\ UNCHANGED <<pointsHit, tHits>>
             \/ /\ numSignals[t] # SyncEvery
                /\ MergeHits(t)
                /\ hpc' = [hpc EXCEPT ![t] = "idle"]
                /\ UNCHANGED hdiff
  /\ UNCHANGED <<apc, running, profileDone, inExperiment, globalDelay, expTime,
                 expSpeedup, expDelay, expHits, expMethod, ticks, rounds, exps,
                 callIndex, staticFrames, callFrames, rowsWritten, rangeVars>>
  /\ UNCHANGED <<userThreads, tstate, numSignals, sigPending, bpc, bval, rdiff,
                 spc, expSlept, injected>>

(* Behind the ledger: jcoz_sleep(sleep_diff). *)
SyncSleep(t) ==
  /\ VMAlive /\ hpc[t] = "sync" /\ hdiff[t] > 0
  /\ hpc' = [hpc EXCEPT ![t] = "sleep"]
  /\ ChargeSleep(t, hdiff[t])
  /\ UNCHANGED <<agentVars, userThreads, tstate, localDelay, numSignals, tHits,
                 sigPending, hdiff, bpc, bval, rdiff, spc, expCredits, injected>>

(* Ahead of the ledger: global_delay += labs(sleep_diff), with the value  *)
(* of sleep_diff read before; then reset the count and merge hits.         *)
SyncDonate(t) ==
  /\ VMAlive /\ hpc[t] = "sync" /\ hdiff[t] <= 0
  /\ globalDelay' = globalDelay - hdiff[t]
  /\ numSignals' = [numSignals EXCEPT ![t] = 0]
  /\ MergeHits(t)
  /\ hpc' = [hpc EXCEPT ![t] = "idle"] /\ hdiff' = [hdiff EXCEPT ![t] = 0]
  /\ UNCHANGED <<apc, running, profileDone, inExperiment, expTime, expSpeedup,
                 expDelay, expHits, expMethod, ticks, rounds, exps, callIndex,
                 staticFrames, callFrames, rowsWritten, rangeVars>>
  /\ UNCHANGED <<userThreads, tstate, localDelay, sigPending, bpc, bval,
                 rdiff, spc, ghostVars>>

(* Variant of the wake-up that forgets num_signals_received = 0. *)
SyncWakeNoReset(t) ==
  /\ VMAlive /\ hpc[t] = "sleep"
  /\ \E slept \in JcozSleep(hdiff[t]) :
       localDelay' = [localDelay EXCEPT ![t] = @ + slept]
  /\ MergeHits(t)
  /\ hpc' = [hpc EXCEPT ![t] = "idle"] /\ hdiff' = [hdiff EXCEPT ![t] = 0]
  /\ UNCHANGED <<apc, running, profileDone, inExperiment, globalDelay, expTime,
                 expSpeedup, expDelay, expHits, expMethod, ticks, rounds, exps,
                 callIndex, staticFrames, callFrames, rowsWritten, rangeVars>>
  /\ UNCHANGED <<userThreads, tstate, numSignals, sigPending, bpc, bval, rdiff,
                 spc, expCredits, expSlept, injected>>

(* The sleep returns: local_delay += the time actually slept. *)
SyncWake(t) ==
  /\ VMAlive /\ hpc[t] = "sleep"
  /\ \E slept \in JcozSleep(hdiff[t]) :
       localDelay' = [localDelay EXCEPT ![t] = @ + slept]
  /\ numSignals' = [numSignals EXCEPT ![t] = 0]
  /\ MergeHits(t)
  /\ hpc' = [hpc EXCEPT ![t] = "idle"] /\ hdiff' = [hdiff EXCEPT ![t] = 0]
  /\ UNCHANGED <<apc, running, profileDone, inExperiment, globalDelay, expTime,
                 expSpeedup, expDelay, expHits, expMethod, ticks, rounds, exps,
                 callIndex, staticFrames, callFrames, rowsWritten, rangeVars>>
  /\ UNCHANGED <<userThreads, tstate, sigPending, bpc, bval, rdiff, spc, expCredits, expSlept, injected>>

----------------------------------------------------------------------------
(***************************************************************************)
(* OnVMDeath -> Profiler::Stop                                             *)
(***************************************************************************)

(* In end-to-end mode the single progress point is injected. *)
StopInject ==
  /\ spc = "idle" /\ running
  /\ pointsHit' = pointsHit + (IF EndToEnd THEN 1 ELSE 0)
  /\ injected' = (EndToEnd /\ inExperiment)
  /\ spc' = "flag"
  /\ UNCHANGED <<apc, running, profileDone, inExperiment, globalDelay, expTime,
                 expSpeedup, expDelay, expHits, expMethod, ticks, rounds, exps,
                 callIndex, staticFrames, callFrames, rowsWritten, rangeVars>>
  /\ UNCHANGED <<threadVars, expCredits, expSlept>>

StopFlag ==
  /\ spc = "flag"
  /\ running' = FALSE /\ spc' = "wait"
  /\ UNCHANGED <<apc, profileDone, inExperiment, pointsHit, globalDelay,
                 expTime, expSpeedup, expDelay, expHits, expMethod, ticks,
                 rounds, exps, callIndex, staticFrames, callFrames, rowsWritten, rangeVars>>
  /\ UNCHANGED <<threadVars, expCredits, expSlept, injected>>

(* while (!profile_done); then signal(SIGPROF, SIG_IGN). *)
StopWait ==
  /\ spc = "wait" /\ profileDone
  /\ spc' = "done"
  /\ sigPending' = [t \in Threads |-> FALSE]
  /\ UNCHANGED <<agentVars, userThreads, tstate, localDelay, numSignals, tHits,
                 hpc, hdiff, bpc, bval, rdiff, ghostVars>>

----------------------------------------------------------------------------

(* The state after Profiler::Start and run_profiler, before the agent     *)
(* thread's first sampling round.                                          *)
Init ==
  /\ apc = "top" /\ running = TRUE /\ profileDone = FALSE
  /\ inExperiment = FALSE /\ pointsHit = 0 /\ globalDelay = 0
  /\ expTime = MinExpTime /\ expSpeedup = 0 /\ expDelay = 0 /\ expHits = 0
  /\ expMethod = NullFrame /\ ticks = 0 /\ rounds = 0 /\ exps = 0
  /\ callIndex = 0 /\ staticFrames = [i \in FrameSlots |-> NullFrame]
  /\ callFrames = {} /\ rowsWritten = 0
  /\ rangesState = "none"
  /\ userThreads = {} /\ tstate = [t \in Threads |-> "new"]
  /\ localDelay = [t \in Threads |-> 0] /\ numSignals = [t \in Threads |-> 0]
  /\ tHits = [t \in Threads |-> 0] /\ sigPending = [t \in Threads |-> FALSE]
  /\ hpc = [t \in Threads |-> "idle"] /\ hdiff = [t \in Threads |-> 0]
  /\ bpc = [t \in Threads |-> "idle"] /\ bval = [t \in Threads |-> 0]
  /\ rdiff = [t \in Threads |-> 0]
  /\ spc = "idle"
  /\ expCredits = {} /\ expSlept = [t \in Threads |-> 0]
  /\ injected = FALSE

AgentStep ==
  \/ LoopTop \/ AgentExit \/ SampleTick \/ SwapFrames \/ SelectNoFrames
  \/ SelectUnresolved \/ SelectTarget \/ Cleanup
  \/ StartExperiment \/ DrawSpeedup \/ RunTick \/ RunExit \/ Flip
  \/ Discard \/ Collect \/ ResetCounters \/ RecordLookupFails \/ Record

HandlerStep(t) ==
  \/ HandleTraceError(t) \/ HandleSampleNoFrame(t) \/ HandleSampleFrame(t)
  \/ HandleExperiment(t) \/ HandleScan(t) \/ SyncSleep(t) \/ SyncDonate(t) \/ SyncWake(t)

ThreadStep(t) ==
  \/ ThreadStart(t) \/ BreakpointRead(t) \/ BreakpointWrite(t)
  \/ EndMerge(t) \/ EndSettle(t) \/ EndErase(t)

StopStep == StopInject \/ StopFlag \/ StopWait

Next ==
  \/ AgentStep
  \/ \E t \in Threads : HandlerStep(t) \/ ThreadStep(t)
  \/ StopStep

Spec == Init /\ [][Next]_vars

(* The OS schedules the agent thread and delivers pending signals; a      *)
(* thread that has begun to end or to store a hit completes that; Stop,    *)
(* once begun, runs to completion.  Starting threads, hitting breakpoints, *)
(* ending threads and beginning Stop are up to the application.            *)
Fairness ==
  /\ WF_vars(AgentStep)
  /\ \A t \in Threads :
       /\ WF_vars(HandlerStep(t))
       /\ WF_vars(BreakpointWrite(t) \/ EndSettle(t) \/ EndErase(t))
  /\ WF_vars(StopFlag) /\ WF_vars(StopWait)

FairSpec == Spec /\ Fairness

----------------------------------------------------------------------------
(***************************************************************************)
(* Properties                                                              *)
(***************************************************************************)

AgentPCs == {"top", "sample", "swap", "select", "start", "draw", "run", "flip",
             "check", "reset", "record", "cleanup", "done"}

TypeOK ==
  /\ apc \in AgentPCs /\ running \in BOOLEAN /\ profileDone \in BOOLEAN
  /\ inExperiment \in BOOLEAN /\ pointsHit \in Nat /\ globalDelay \in Int
  /\ expTime \in Nat /\ expSpeedup \in SpeedupSteps /\ expDelay \in Nat
  /\ expHits \in Nat /\ expMethod \in Frames /\ ticks \in Nat
  /\ rowsWritten \in Nat
  /\ rangesState \in {"none", "live", "freed"}
  /\ callIndex \in Nat /\ staticFrames \in [FrameSlots -> Frames]
  /\ callFrames \subseteq Frames /\ userThreads \subseteq Threads
  /\ tstate \in [Threads -> {"new", "live", "ending", "erasing", "ended"}]
  /\ localDelay \in [Threads -> Int] /\ numSignals \in [Threads -> 0..SyncEvery]
  /\ tHits \in [Threads -> 0..MaxHits] /\ sigPending \in [Threads -> BOOLEAN]
  /\ hpc \in [Threads -> {"idle", "scan", "sync", "sleep"}] /\ hdiff \in [Threads -> Int]
  /\ bpc \in [Threads -> {"idle", "write"}] /\ rdiff \in [Threads -> Int]
  /\ spc \in {"idle", "flag", "wait", "done"}


(* A CSV row is being appended (the step of runExperiment that writes it). *)
RowWritten == rowsWritten' > rowsWritten

(* Spec 4.5 and 7: the speedup of the current experiment was drawn with  *)
(* the spec's probability: calculate_random_speedup gives 0 for exactly 5  *)
(* of the 25 values of rand() % 25 (20%) and each of 0.05, ..., 1.00 for   *)
(* exactly one, so the nonzero speedups are equally likely.                *)
SpeedupDistribution ==
  LET Draws(k) == {r \in RandValues : CalculateRandomSpeedup(r) = k}
  IN  /\ Cardinality(Draws(expSpeedup)) = IF expSpeedup = 0 THEN 5 ELSE 1
      /\ \A k \in 1..20 : Cardinality(Draws(k)) = 1

(* Spec 5, cancellation: once Stop has cleared _running it returns: the   *)
(* agent loop observes the flag, sets profile_done, and Stop's busy wait   *)
(* ends.                                                                   *)
StopTerminates == (spc = "wait") ~> (spc = "done")

(* Spec 4.5: in normal mode every experiment ends, whether or not the      *)
(* program ever hits the progress point: the run loop waits for a hit only *)
(* when end_to_end is set, is otherwise bounded by experiment_time, and     *)
(* in_experiment is cleared after it.                                      *)
ExperimentEnds == inExperiment ~> ~inExperiment

(* Spec 8, delay convergence: no thread is made to sleep, within one       *)
(* experiment, for longer than the ledger the experiment reports as its    *)
(* delay (Handle's sync sleep and removeUserThread's settlement sleep).    *)
SleepWithinReportedLedger ==
  [][RowWritten => \A t \in Threads : expSlept[t] <= expDelay]_vars

(* Spec 5: a thread that observes "active" never sees a partially         *)
(* initialized experiment, so every delay credited during an experiment   *)
(* is that experiment's speedup * SIGNAL_FREQ.                             *)
CreditsMatchSpeedup == [][RowWritten => expCredits \subseteq {expSpeedup}]_vars

(* Spec 4.6: in end-to-end mode the hit injected when the outer driver     *)
(* finishes completes the running experiment, which is then recorded.      *)
EndToEndTrialRecorded == injected ~> (rowsWritten > 0)

(* Memory safety of Handle: no SIGPROF is pending for a thread whose        *)
(* UserThread removeUserThread has deleted, since the handler would        *)
(* dereference the dangling curr_ut.                                       *)
NoSignalAfterDelete ==
  \A t \in Threads : tstate[t] = "ended" => ~sigPending[t]

(* runExperiment deletes current_experiment.location_ranges right after  *)
(* clearing in_experiment and one broadcast, while a SIGPROF handler that *)
(* read in_experiment = true may still be scanning the frames through     *)
(* inExperiment: no handler ever reads the ranges after they are freed.   *)
NoRangeReadAfterFree ==
  \A t \in Threads : hpc[t] = "scan" => rangesState = "live"

=============================================================================

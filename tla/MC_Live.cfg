\* Progress-point hits, duration control, shutdown and the scheduler
\* refinement: no virtual delay (speedup 0), one thread, one counted hit at
\* a time, experiments of up to three ticks, two experiments, under the
\* fairness the OS and the JVM give the agent thread, signal delivery and
\* Stop (no symmetry: liveness).
CONSTANTS
  t1 = t1
  t2 = t2
  m1 = m1
  m2 = m2
  NullFrame = NullFrame
  Threads <- MCOneThread
  InScope <- MCInScope
  Resolvable <- MCResolvable
  SpeedupSteps = {0}
  EndToEnd = FALSE
  FixExp = FALSE
  NumStaticFrames = 1
  SyncEvery = 2
  SampleRounds = 1
  MinExpTime = 1
  MaxExpTime = 3
  ExpTimeFactor = 2
  HitsToIncExpTime = 0
  HitsToDecExpTime = 1
  SleepOvershoot = {0}
  OneSecond = 20000
  MaxHits = 1
  MaxExperiments = 2

SPECIFICATION FairSpec
INVARIANT SpeedupDistribution
PROPERTY SchedulerRefined StopTerminates ExperimentEnds
\* The VM stops for good after Stop returns (OnVMDeath).
CHECK_DEADLOCK FALSE

\* Signals arriving between in_experiment = true and the write of the delay.
CONSTANTS
  t1 = t1
  t2 = t2
  m1 = m1
  m2 = m2
  NullFrame = NullFrame
  Threads <- MCThreads
  InScope <- MCResolvable
  Resolvable <- MCResolvable
  SpeedupSteps = {0, 1}
  EndToEnd = FALSE
  FixExp = FALSE
  NumStaticFrames = 1
  SyncEvery = 2
  SampleRounds = 1
  MinExpTime = 1
  MaxExpTime = 2
  ExpTimeFactor = 2
  HitsToIncExpTime = 0
  HitsToDecExpTime = 1
  SleepOvershoot = {0}
  OneSecond = 20000
  MaxHits = 0
  MaxExperiments = 1

SPECIFICATION Spec
SYMMETRY ThreadSymmetry
PROPERTY CreditsMatchSpeedup
\* The VM stops for good after Stop returns (OnVMDeath).
CHECK_DEADLOCK FALSE

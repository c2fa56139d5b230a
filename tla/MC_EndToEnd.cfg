\* End-to-end mode: the hit Stop injects into the running experiment.
CONSTANTS
  t1 = t1
  t2 = t2
  m1 = m1
  m2 = m2
  NullFrame = NullFrame
  Threads <- MCOneThread
  InScope <- MCInScope
  Resolvable <- MCResolvable
  SpeedupSteps = {0}
  EndToEnd = TRUE
  FixExp = FALSE
  NumStaticFrames = 1
  SyncEvery = 2
  SampleRounds = 1
  MinExpTime = 1
  MaxExpTime = 3
  ExpTimeFactor = 2
  HitsToIncExpTime = 0
  HitsToDecExpTime = 1
  SleepOvershoot = {0}
  OneSecond = 20000
  MaxHits = 1
  MaxExperiments = 3

SPECIFICATION FairSpec
PROPERTY EndToEndTrialRecorded
\* The VM stops for good after Stop returns (OnVMDeath).
CHECK_DEADLOCK FALSE

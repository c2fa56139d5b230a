\* location_ranges use after free: a handler still scanning when
\* runExperiment deletes the ranges.
CONSTANTS
  t1 = t1
  t2 = t2
  m1 = m1
  m2 = m2
  NullFrame = NullFrame
  Threads <- MCThreads
  InScope <- MCResolvable
  Resolvable <- MCResolvable
  SpeedupSteps = {0, 1}
  EndToEnd = FALSE
  FixExp = FALSE
  NumStaticFrames = 1
  SyncEvery = 1
  SampleRounds = 1
  MinExpTime = 1
  MaxExpTime = 2
  ExpTimeFactor = 2
  HitsToIncExpTime = 0
  HitsToDecExpTime = 1
  SleepOvershoot = {0}
  OneSecond = 20000
  MaxHits = 0
  MaxExperiments = 1

SPECIFICATION Spec
SYMMETRY ThreadSymmetry
INVARIANT NoRangeReadAfterFree
CHECK_DEADLOCK FALSE

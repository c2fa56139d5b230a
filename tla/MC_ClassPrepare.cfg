\* Two threads prepare three classes of one method each, all named like
\* the progress class: c1 and c2 are in scope; c2 and c3 hold the progress
\* line, so that two threads can race to set the point; c1 lacks it
\* (addProgressPoint exits).  Liveness under FairSpec.
CONSTANTS
    t1 = t1  t2 = t2  c1 = c1  c2 = c2  c3 = c3
    None = None  VMDeath = VMDeath
    Threads = {t1, t2}
    Classes = {c1, c2, c3}
    InScopeClasses = {c1, c2}
    ProgressClasses = {c1, c2, c3}
    LineClasses = {c2, c3}
    MethodCount = 1
    EndToEnd = FALSE
SPECIFICATION FairSpec
INVARIANT InScopeReadExcludesOtherWriters
INVARIANT ProgressPointSetOnce
PROPERTY EveryCallbackReturns
\* The VM stops for good after OnVMDeath; exit(1) ends the process.
CHECK_DEADLOCK FALSE

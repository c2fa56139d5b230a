\* Two threads prepare three classes of one method each: c1 and c2 in
\* scope, c2 and c3 both named like the progress class and both holding
\* the progress line, so that two threads can race to set the point.
CONSTANTS
    t1 = t1  t2 = t2  c1 = c1  c2 = c2  c3 = c3  c4 = c4
    None = None  VMDeath = VMDeath
    Threads = {t1, t2}
    Classes = {c1, c2, c3, c4}
    InScopeClasses = {c1, c2}
    ProgressClasses = {c2, c3, c4}
    LineClasses = {c2, c3}
    MethodCount = 1
    EndToEnd = FALSE
SPECIFICATION Spec
INVARIANT InScopeReadNotDuringInsert
\* The VM stops for good after OnVMDeath; exit(1) ends the process.
CHECK_DEADLOCK FALSE

---------------------------- MODULE ClassPrepare ----------------------------
(***************************************************************************)
(* The class-prepare side of the JCoz agent and the state it shares with   *)
(* the SIGPROF handler and with shutdown:                                 *)
(*   - CreateJMethodIDsForClass (entry.cc), run by the JVM on the thread   *)
(*     that prepares a class, under the owner-tagged spinlock              *)
(*     class_prep_lock; it adds the methods of an in-scope class to        *)
(*     in_scope_ids (Profiler::addInScopeMethods, under in_scope_lock) and *)
(*     sets the progress-point breakpoint when the class is the progress   *)
(*     class (Profiler::addProgressPoint);                                 *)
(*   - the part of Profiler::Handle that, outside an experiment, reads     *)
(*     in_scope_ids under in_scope_lock, taking the lock only when the    *)
(*     interrupted thread does not hold it already;                        *)
(*   - OnVMDeath: Profiler::Stop (clears _running, then                    *)
(*     clearInScopeMethods and signal(SIGPROF, SIG_IGN)), disabling        *)
(*     CLASS_PREPARE, and clearProgressPoint.                              *)
(* A handler runs on top of the thread it interrupts: while it runs, that  *)
(* thread takes no step.  Whether a class is in scope is the ScopeFilter   *)
(* module's question; here it is the constant InScopeClasses.             *)
(***************************************************************************)
EXTENDS Integers, FiniteSets

CONSTANTS
    Threads,          \* the threads that prepare classes and take SIGPROF
    Classes,          \* the classes prepared during the run
    InScopeClasses,   \* classes for which is_in_allowed_scope holds
    ProgressClasses,  \* classes whose signature is the progress class
    LineClasses,      \* progress classes whose line table has the line
    MethodCount,      \* methods of every class (GetClassMethods)
    EndToEnd,         \* Profiler::end_to_end
    None,             \* an unheld lock, a NULL method id
    VMDeath           \* the thread that runs OnVMDeath

ASSUME InScopeClasses \subseteq Classes /\ LineClasses \subseteq ProgressClasses

VARIABLES
    running,        \* Profiler::_running
    eventsOn,       \* CLASS_PREPARE notification enabled
    sigIgnored,     \* SIGPROF set to SIG_IGN
    classPrepLock,  \* class_prep_lock: None or the owner
    inScopeLock,    \* Profiler::in_scope_lock: None or the owner
    inScopeIds,     \* Profiler::in_scope_ids
    writer,         \* the thread in the middle of an in_scope_ids insert
    ppMethod,       \* progress_point->method_id
    bpSets,         \* SetBreakpoint calls on the progress point
    exited,         \* exit(1) in addProgressPoint
    prepared,       \* classes whose CLASS_PREPARE event was delivered
    pc,             \* per thread: where it is in CreateJMethodIDsForClass
    cls,            \* per thread: the class it is preparing
    idx,            \* per thread: the loop index of addInScopeMethods
    hpc,            \* per thread: "none", "spin" or "read" in Handle
    hasLock,        \* per thread: the handler's has_lock
    dpc             \* OnVMDeath: where it is

vars == <<running, eventsOn, sigIgnored, classPrepLock, inScopeLock,
          inScopeIds, writer, ppMethod, bpSets, exited, prepared,
          pc, cls, idx, hpc, hasLock, dpc>>

Methods(c) == {<<c, i>> : i \in 1..MethodCount}

\* A thread steps only when no handler runs on top of it.
Free(t) == hpc[t] = "none" /\ ~exited

Goto(t, p) == pc' = [pc EXCEPT ![t] = p]

-----------------------------------------------------------------------------
(* CreateJMethodIDsForClass                                                 *)

\* The JVM delivers CLASS_PREPARE; the callback returns at once when the
\* profiler is not running.
ClassPrepareEvent(t, c) ==
    /\ Free(t) /\ pc[t] = "idle" /\ eventsOn /\ c \notin prepared
    /\ prepared' = prepared \cup {c}
    /\ cls' = [cls EXCEPT ![t] = c]
    /\ Goto(t, IF running THEN "cp_lock" ELSE "idle")
    /\ UNCHANGED <<running, eventsOn, sigIgnored, classPrepLock, inScopeLock,
                   inScopeIds, writer, ppMethod, bpSets, exited, idx, hpc,
                   hasLock, dpc>>

\* Mutant: the owner tag is written without waiting for the lock.
AcquireCreateLockNoWait(t) ==
    /\ Free(t) /\ pc[t] = "cp_lock"
    /\ classPrepLock' = t

\* acquireCreateLock: CAS class_prep_lock from 0 to pthread_self().
AcquireCreateLock(t) ==
    /\ Free(t) /\ pc[t] = "cp_lock"
    /\ classPrepLock = None
    /\ classPrepLock' = t

\* After the lock: GetClassMethods, which may fail (the error is logged and
\* nothing is registered); otherwise the in-scope methods are added.
CreateLocked(t) ==
    /\ AcquireCreateLock(t)
    /\ \/ Goto(t, "release")
       \/ Goto(t, IF cls[t] \in InScopeClasses THEN "is_lock" ELSE "pp_check")
    /\ UNCHANGED <<running, eventsOn, sigIgnored, inScopeLock, inScopeIds,
                   writer, ppMethod, bpSets, exited, prepared, cls, idx, hpc,
                   hasLock, dpc>>

\* addInScopeMethods: spin until in_scope_lock is taken.
AddInScopeLock(t) ==
    /\ Free(t) /\ pc[t] = "is_lock"
    /\ inScopeLock = None
    /\ inScopeLock' = t
    /\ idx' = [idx EXCEPT ![t] = 1]
    /\ Goto(t, "insert")
    /\ UNCHANGED <<running, eventsOn, sigIgnored, classPrepLock, inScopeIds,
                   writer, ppMethod, bpSets, exited, prepared, cls, hpc,
                   hasLock, dpc>>

\* in_scope_ids.insert(methods[i]) begins: the hash set is being changed.
InsertBegin(t) ==
    /\ Free(t) /\ pc[t] = "insert" /\ idx[t] <= MethodCount
    /\ writer' = t
    /\ Goto(t, "inserting")
    /\ UNCHANGED <<running, eventsOn, sigIgnored, classPrepLock, inScopeLock,
                   inScopeIds, ppMethod, bpSets, exited, prepared, cls, idx,
                   hpc, hasLock, dpc>>

InsertEnd(t) ==
    /\ Free(t) /\ pc[t] = "inserting"
    /\ inScopeIds' = inScopeIds \cup {<<cls[t], idx[t]>>}
    /\ writer' = None
    /\ idx' = [idx EXCEPT ![t] = idx[t] + 1]
    /\ Goto(t, "insert")
    /\ UNCHANGED <<running, eventsOn, sigIgnored, classPrepLock, inScopeLock,
                   ppMethod, bpSets, exited, prepared, cls, hpc, hasLock, dpc>>

\* The loop is done: in_scope_lock = 0.
AddInScopeUnlock(t) ==
    /\ Free(t) /\ pc[t] = "insert" /\ idx[t] > MethodCount
    /\ inScopeLock' = None
    /\ Goto(t, "pp_check")
    /\ UNCHANGED <<running, eventsOn, sigIgnored, classPrepLock, inScopeIds,
                   writer, ppMethod, bpSets, exited, prepared, cls, idx, hpc,
                   hasLock, dpc>>

\* The two-stage progress-class check, then addProgressPoint's early
\* return when end_to_end is set or the point is already set.
ProgressCheck(t) ==
    /\ Free(t) /\ pc[t] = "pp_check"
    /\ Goto(t, IF cls[t] \in ProgressClasses /\ ~EndToEnd /\ ppMethod = None
               THEN "pp_search" ELSE "release")
    /\ UNCHANGED <<running, eventsOn, sigIgnored, classPrepLock, inScopeLock,
                   inScopeIds, writer, ppMethod, bpSets, exited, prepared,
                   cls, idx, hpc, hasLock, dpc>>

\* addProgressPoint's search of the line tables: on the line, set
\* method_id and the breakpoint; no method has it: exit(1).
ProgressSet(t) ==
    /\ Free(t) /\ pc[t] = "pp_search"
    /\ IF cls[t] \in LineClasses
         THEN /\ ppMethod' = cls[t]
              /\ bpSets' = bpSets + 1
              /\ Goto(t, "release")
              /\ UNCHANGED exited
         ELSE /\ exited' = TRUE
              /\ UNCHANGED <<ppMethod, bpSets, pc>>
    /\ UNCHANGED <<running, eventsOn, sigIgnored, classPrepLock, inScopeLock,
                   inScopeIds, writer, prepared, cls, idx, hpc, hasLock, dpc>>

\* Mutant: class_prep_lock is left set when the callback returns.
ReleaseCreateLockKeep(t) ==
    /\ Free(t) /\ pc[t] = "release"
    /\ Goto(t, "idle")
    /\ UNCHANGED <<running, eventsOn, sigIgnored, classPrepLock, inScopeLock,
                   inScopeIds, writer, ppMethod, bpSets, exited, prepared,
                   cls, idx, hpc, hasLock, dpc>>

\* releaseCreateLock
ReleaseCreateLock(t) ==
    /\ Free(t) /\ pc[t] = "release"
    /\ classPrepLock' = None
    /\ Goto(t, "idle")
    /\ UNCHANGED <<running, eventsOn, sigIgnored, inScopeLock, inScopeIds,
                   writer, ppMethod, bpSets, exited, prepared, cls, idx, hpc,
                   hasLock, dpc>>

-----------------------------------------------------------------------------
(* Profiler::Handle outside an experiment                                    *)

\* SIGPROF lands on t: has_lock = (in_scope_lock == pthread_self()).
HandleStart(t) ==
    /\ hpc[t] = "none" /\ ~sigIgnored /\ ~exited
    /\ hasLock' = [hasLock EXCEPT ![t] = (inScopeLock = t)]
    /\ hpc' = [hpc EXCEPT ![t] = IF inScopeLock = t THEN "read" ELSE "spin"]
    /\ UNCHANGED <<running, eventsOn, sigIgnored, classPrepLock, inScopeLock,
                   inScopeIds, writer, ppMethod, bpSets, exited, prepared,
                   pc, cls, idx, dpc>>

\* Mutant: the handler reads without taking in_scope_lock.
HandleLockSkipped(t) ==
    /\ hpc[t] = "spin"
    /\ UNCHANGED inScopeLock

\* CAS in_scope_lock from 0 to pthread_self().
HandleLock(t) ==
    /\ hpc[t] = "spin"
    /\ inScopeLock = None
    /\ inScopeLock' = t

HandleSpin(t) ==
    /\ HandleLock(t)
    /\ hpc' = [hpc EXCEPT ![t] = "read"]
    /\ UNCHANGED <<running, eventsOn, sigIgnored, classPrepLock, inScopeIds,
                   writer, ppMethod, bpSets, exited, prepared, pc, cls, idx,
                   hasLock, dpc>>

\* frameInScope over the trace, then in_scope_lock = 0 unless has_lock.
HandleRead(t) ==
    /\ hpc[t] = "read"
    /\ inScopeLock' = IF hasLock[t] THEN inScopeLock ELSE None
    /\ hpc' = [hpc EXCEPT ![t] = "none"]
    /\ UNCHANGED <<running, eventsOn, sigIgnored, classPrepLock, inScopeIds,
                   writer, ppMethod, bpSets, exited, prepared, pc, cls, idx,
                   hasLock, dpc>>

-----------------------------------------------------------------------------
(* OnVMDeath                                                                 *)

\* Profiler::Stop: _running = false (the wait for profile_done is the
\* JCozEngine module's StopWait).
StopRunning ==
    /\ dpc = "live" /\ ~exited
    /\ running' = FALSE
    /\ dpc' = "clear"
    /\ UNCHANGED <<eventsOn, sigIgnored, classPrepLock, inScopeLock,
                   inScopeIds, writer, ppMethod, bpSets, exited, prepared,
                   pc, cls, idx, hpc, hasLock>>

\* clearInScopeMethods: spin on in_scope_lock, clear, release.
ClearInScopeMethods ==
    /\ dpc = "clear" /\ ~exited
    /\ inScopeLock = None
    /\ inScopeIds' = {}
    /\ dpc' = "sig_ign"
    /\ UNCHANGED <<running, eventsOn, sigIgnored, classPrepLock, inScopeLock,
                   writer, ppMethod, bpSets, exited, prepared, pc, cls, idx,
                   hpc, hasLock>>

\* signal(SIGPROF, SIG_IGN), then CLASS_PREPARE disabled.
StopSignals ==
    /\ dpc = "sig_ign" /\ ~exited
    /\ sigIgnored' = TRUE
    /\ dpc' = "disable"
    /\ UNCHANGED <<running, eventsOn, classPrepLock, inScopeLock, inScopeIds,
                   writer, ppMethod, bpSets, exited, prepared, pc, cls, idx,
                   hpc, hasLock>>

DisableEvents ==
    /\ dpc = "disable" /\ ~exited
    /\ eventsOn' = FALSE
    /\ dpc' = "clear_pp"
    /\ UNCHANGED <<running, sigIgnored, classPrepLock, inScopeLock, inScopeIds,
                   writer, ppMethod, bpSets, exited, prepared, pc, cls, idx,
                   hpc, hasLock>>

\* clearProgressPoint: ClearBreakpoint and method_id = nullptr when set.
ClearProgressPoint ==
    /\ dpc = "clear_pp" /\ ~exited
    /\ ppMethod' = IF ~EndToEnd THEN None ELSE ppMethod
    /\ dpc' = "dead"
    /\ UNCHANGED <<running, eventsOn, sigIgnored, classPrepLock, inScopeLock,
                   inScopeIds, writer, bpSets, exited, prepared, pc, cls, idx,
                   hpc, hasLock>>

-----------------------------------------------------------------------------
Init ==
    /\ running = TRUE
    /\ eventsOn = TRUE
    /\ sigIgnored = FALSE
    /\ classPrepLock = None
    /\ inScopeLock = None
    /\ inScopeIds = {}
    /\ writer = None
    /\ ppMethod = None
    /\ bpSets = 0
    /\ exited = FALSE
    /\ prepared = {}
    /\ pc = [t \in Threads |-> "idle"]
    /\ cls = [t \in Threads |-> None]
    /\ idx = [t \in Threads |-> 1]
    /\ hpc = [t \in Threads |-> "none"]
    /\ hasLock = [t \in Threads |-> FALSE]
    /\ dpc = "live"

ThreadStep(t) ==
    \/ \E c \in Classes : ClassPrepareEvent(t, c)
    \/ CreateLocked(t)
    \/ AddInScopeLock(t) \/ InsertBegin(t) \/ InsertEnd(t)
    \/ AddInScopeUnlock(t)
    \/ ProgressCheck(t) \/ ProgressSet(t) \/ ReleaseCreateLock(t)

HandlerStep(t) == HandleStart(t) \/ HandleSpin(t) \/ HandleRead(t)

DeathStep ==
    StopRunning \/ ClearInScopeMethods \/ StopSignals \/ DisableEvents
    \/ ClearProgressPoint

Next ==
    \/ \E t \in Threads : ThreadStep(t) \/ HandlerStep(t)
    \/ DeathStep

Spec == Init /\ [][Next]_vars

\* The OS runs a thread whenever no handler is on top of it, and a SIGPROF
\* handler, once started, runs to its end: the steps of a callback, of a
\* handler and of OnVMDeath after they have begun are fair.  The three
\* locks are spinlocks whose CAS is retried without pause, so a lock that
\* is free infinitely often is eventually taken: strong fairness for the
\* steps that wait on one (and for a thread's steps, which a handler
\* starting on top of it may disable at any time).  Delivering a
\* CLASS_PREPARE event or a SIGPROF, and the VM's death, are up to the
\* environment and carry no fairness.
CallbackStep(t) == ThreadStep(t) /\ pc[t] # "idle"

Fairness ==
    /\ \A t \in Threads :
         /\ SF_vars(CallbackStep(t))
         /\ SF_vars(HandleSpin(t)) /\ WF_vars(HandleRead(t))
    /\ SF_vars(ClearInScopeMethods)
    /\ WF_vars(StopSignals \/ DisableEvents \/ ClearProgressPoint)

FairSpec == Spec /\ Fairness

-----------------------------------------------------------------------------
Owners == Threads \cup {None, VMDeath}

TypeOK ==
    /\ running \in BOOLEAN /\ eventsOn \in BOOLEAN /\ sigIgnored \in BOOLEAN
    /\ classPrepLock \in Owners /\ inScopeLock \in Owners
    /\ inScopeIds \subseteq UNION {Methods(c) : c \in Classes}
    /\ writer \in Threads \cup {None}
    /\ ppMethod \in Classes \cup {None}
    /\ bpSets \in Nat
    /\ prepared \subseteq Classes
    /\ pc \in [Threads -> {"idle", "cp_lock", "is_lock", "insert",
                           "inserting", "pp_check", "pp_search", "release"}]
    /\ hpc \in [Threads -> {"none", "spin", "read"}]
    /\ dpc \in {"live", "clear", "sig_ign", "disable", "clear_pp", "dead"}

\* While a handler walks in_scope_ids, no other thread is in the middle
\* of an insert into it: addInScopeMethods and Handle exclude each other
\* through in_scope_lock.
InScopeReadExcludesOtherWriters ==
    \A t \in Threads : hpc[t] = "read" => writer \in {None, t}

\* A handler never walks in_scope_ids while an insert into it is half
\* done, the interrupted thread's own insert included.
InScopeReadNotDuringInsert ==
    \A t \in Threads : hpc[t] = "read" => writer = None

\* Until OnVMDeath has cleared it, the progress-point breakpoint is set at
\* most once ("Only ever set progress point once", addProgressPoint), even
\* when several classes with the progress class's name are prepared on
\* different threads: the check of method_id and its assignment are both
\* under class_prep_lock.
ProgressPointSetOnce == dpc # "dead" => bpSets <= 1

\* Nobody waits forever on the three spinlocks (class_prep_lock taken by
\* CreateJMethodIDsForClass, in_scope_lock taken by addInScopeMethods, by
\* Handle unless its thread holds it, and by clearInScopeMethods): every
\* CLASS_PREPARE callback and every SIGPROF handler that has begun
\* returns, and OnVMDeath, once it has cleared _running, finishes, unless
\* addProgressPoint has ended the process with exit(1).
EveryCallbackReturns ==
    /\ \A t \in Threads :
         (pc[t] # "idle" \/ hpc[t] # "none")
             ~> ((pc[t] = "idle" /\ hpc[t] = "none") \/ exited)
    /\ (dpc = "clear") ~> (dpc = "dead" \/ exited)
=============================================================================

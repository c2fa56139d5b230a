# TLA+ models of the JCoz profiler

JCoz is a causal profiler for the JVM. It consists of a JVMTI agent
(`src/src/entry.cc`) and the profiler engine (`src/src/profiler.cc`). This
directory holds TLA+ models of that code, the TLC configurations that check
them, and `PROJECT.json`. `PROJECT.json` lists:

- the components;
- the runs;
- the mutants that show each checked property can fail;
- the source lines each definition models;
- the findings;
- the hazards.

## 1. The system

### Parts and how they interact

| Part | Code | State | Operations |
|---|---|---|---|
| Agent thread (ExperimentScheduler) | `runAgentThread` 469-629, `runExperiment` 373-449, `update_experiment_length` 350-371 | `_running`, `profile_done`, `in_experiment`, `current_experiment`, `experiment_time`, `call_frames`, `call_index`, `static_call_frames` | sample (30 randomized sleeps + broadcasts), swap the frame buffer, select a target, run an experiment (flag, draw speedup, timed loop of sleep + broadcast, unflag, broadcast), collect, record a CSV row, clean up |
| SIGPROF handler (FrameSampler) | `Handle` 828-942 | per thread: `curr_ut->local_delay`, `num_signals_received`, `points_hit`; shared: `static_call_frames`, `call_index`, `global_delay`, `points_hit` | early return; outside experiments: zero local delay, store first in-scope frame; inside: count, credit delay if in target range, every 10th signal sync with the ledger, merge hits |
| Delay ledger (DelayCoordinator) | handler 924-937, `removeUserThread` 699-707 | `global_delay`, each `local_delay` | sleep if behind, else donate `labs(diff)` |
| Thread registry | `addUserThread` 666-689, `removeUserThread` 691-719, `signal_user_threads` 311-326, `OnThreadStart/End` entry.cc 46-67 | `user_threads`, `user_threads_lock` | register with `local_delay = global_delay`; merge, settle, erase, delete; broadcast SIGPROF |
| Progress counter | `HandleBreakpoint` 1066-1075, `addProgressPoint` 768-806 | `curr_ut->points_hit`, global `points_hit`, `progress_point` | `points_hit += in_experiment` (non-atomic), merges |
| Shutdown | `Stop` 1029-1059, `OnVMDeath` entry.cc 251-260 | `_running`, `profile_done` | end-to-end hit injection, clear `_running`, busy-wait, `SIG_IGN` |
| Options and scope filter | `ParseOptions` 108-249, entry.cc 143-166, 202-221 | search/ignore scope lists, `progress_class`, `progress_point->lineno`, `end_to_end` | parse the `_`-separated option string, reject missing required options; prefix match after the signature marker; the two-stage progress-class test |
| In-scope set | `CreateJMethodIDsForClass` entry.cc 170-228, `addInScopeMethods` 743-757 | `in_scope_ids`, owner-tagged `in_scope_lock`, `class_prep_lock` | add methods of prepared classes; the progress-point class check |
| Line ranges and the row | `runAgentThread` 569-603, `runExperiment` 419-446, `cleanSignature` 990-1016 | `current_experiment.lineno`, `location_ranges` | line of the sampled bci, all bci ranges of that line; the row's class name and line |

Interaction happens through shared memory and signals. The agent thread
broadcasts SIGPROF to every registered thread. A handler runs on each
signalled thread, reads `in_experiment`, and updates the shared frame buffer,
the ledger and the hit counter. JVMTI callbacks run on application threads:

- thread start and end (registration);
- breakpoint hits (counting);
- class preparation (in-scope set, progress point);
- VM death (Stop).

### What makes it hard

- A handler can interrupt its own thread in the middle of
  `removeUserThread` or `HandleBreakpoint`. Both functions do read-then-write
  steps on state the handler also writes.
- Several threads sync with `global_delay` at once, each using a difference
  it read earlier.
- The agent sets `in_experiment` before the experiment's fields are written,
  and reads `points_hit` and `global_delay` while threads still merge into
  them.
- Stop runs on another thread and races the agent's loop.
- Standard signals do not queue. A signal sent before a thread erases itself
  may be delivered after its `UserThread` is deleted.

## 2. Modules

`JCozEngine.tla` models the agent thread, the handler, the ledger, the
registry, breakpoint counting and Stop as one module. They share every
variable, and every interesting behaviour is an interleaving among them.

**Agent thread.** `apc` is its program counter. There is one action per
step:
- `LoopTop`, `SampleTick`, `SwapFrames`;
- `SelectNoFrames` / `SelectUnresolved` / `SelectTarget`;
- `StartExperiment` (376-377), `DrawSpeedup` (379-385), which draws
  `rand() % 25` through `CalculateRandomSpeedup` (327-349; the float
  product `(k/20.f) * SIGNAL_FREQ` is exact for every k, so the delay is k
  units);
- `RunTick` / `RunExit` (387-395), `Flip` (396-401);
- `Discard` (405) or `Collect` (413-414), then `ResetCounters` (415-417);
- `RecordLookupFails` (421) or `Record` (426-444);
- `Cleanup` (608-616), `AgentExit` (628).

Time is abstracted: one `RunTick` is one `SIGNAL_FREQ` sleep plus a
broadcast, and `expTime` counts ticks. `ticks` stops at `expTime`: from
there on the clock is past `end`, which is all the loop condition can
tell apart (an end-to-end loop keeps iterating until a hit or Stop). Delay is counted in units of
`SIGNAL_FREQ / 20` (50 µs), so an experiment with speedup k/20 credits k
per hit.

**Handler.** `hpc[t]` is the handler's position on thread `t`, and
`sigPending[t]` is the pending-signal flag. Its actions:
- `HandleTraceError`, `HandleSampleNoFrame`, `HandleSampleFrame`,
  `HandleExperiment`;
- the sync is split into `SyncSleep`, `SyncWake` and `SyncDonate`, because
  the sleep is a point where other threads run.

**Thread lifecycle.** `tstate[t]`:
- `ThreadStart` is `addUserThread`;
- `BreakpointRead` and `BreakpointWrite` are the two halves of line 1074;
- `EndMerge`, `EndSettle` and `EndErase` are the three phases of
  `removeUserThread`.

**Stop.** `spc` is its program counter. Its actions are `StopInject`,
`StopFlag` and `StopWait`.

**Atomic steps.** A spinlock critical section is one step, since nothing
observable happens inside one. `global_delay` and `points_hit` are atomics,
so `+=` on them is one step. The handler's read of `global_delay` and its
later `+=` are separate steps.

**Location ranges.** `rangesState` is the state of
`current_experiment.location_ranges`: allocated by `SelectTarget` (598),
deleted by `Discard` (407) and `Record` (446), and left alone by
`RecordLookupFails` (422 returns before the delete). The in-experiment
handler is split into `HandleExperiment` (911-912: the signal is counted)
and `HandleScan` (913-941: the unlocked scan of the ranges, the credit and
the sync), because the agent can clear `in_experiment`, broadcast, sleep and
delete the ranges between the two.

**Sleep.** `JcozSleep(d)` is what `jcoz_sleep` (254-281) sleeps: nothing for
0, nothing for a request of `OneSecond` or more (the whole request goes into
`tv_nsec`, `nanosleep` fails with EINVAL and the retry with the zeroed
remainder returns at once), else the request plus an overshoot.

**History variables**, which are not in the code:
- `expCredits`: delay amounts credited;
- `expSlept`: sleep requested per thread;
- `injected`: the end-to-end hit went into a running experiment.

`MC_JCozEngine.tla` gives the model values (threads `t1, t2`, methods
`m1, m2`, of which `m1` has a line table) and the symmetry set. It extends
`JCozRefinement`, so every engine cfg can check the refinement. Its
`ProgramState` is the state without the history variables. No guard and no
program-variable assignment reads a history variable, so the `delay_ledger`
run, whose `TypeOK` constrains them only to their types, identifies states that differ only in
them (`VIEW ProgramState`).

**`ExperimentScheduler.tla`** is the abstract specification of the agent
thread: `Idle → Sampling → Selecting → Running → Recording → Idle`, with
`Terminate` to `Stopped` once the stop flag is seen at the loop top, an
`active` flag only in `Running`, `DiscardTrial` only when stopped and
`CollectTrial` only when not, and `rows` grown only by `RecordTrial`.

**`JCozRefinement.tla`** instantiates it with the mapping
`phase <- SchedulerPhase` (a function of `apc`), `stopped <- ~running`,
`active <- inExperiment`, `rows <- rowsWritten`, and states
`SchedulerRefined == Sched!Spec`. Every step of the handlers, the thread
lifecycle and Stop other than `StopFlag` is a stuttering step of the
scheduler; `StopFlag` is `RaiseStop`.

**`LineRanges.tla`** models the target's line lookup and range
construction in `runAgentThread` (569-603) and `Profiler::inExperiment`
(720-735). `FindLine` is the lookup loop as a RECURSIVE operator (with no
entries it returns the previous `lineno`, as the code leaves it),
`LocationRanges` the ranges of every entry on that line. One action selects
a target from any sorted line table of up to `MaxEntries` entries and any
bci. `RefLine` is the reference: the line of the last entry starting at or
before the bci. `Record` is the part of `runExperiment` that names the row:
the signature of the method's class (`getClassFromMethodIDLocation`, any
class name of up to `MaxNameLen` characters), then `CleanSignature`, which
follows `cleanSignature`'s in-place shift, its cut at `sig_len - 2` and its
loop (`DotAndCut`, RECURSIVE: `/` to `.`, stop at `$`). `NextRound` ends the
experiment. `OuterDottedName` is the reference: the top-level class in
dotted form.

**`ScopeFilter.tla`** models the agent's configuration and the class
filter. `ParseOptions` is the whole of `Profiler::ParseOptions`: the option
string is split at `_` as `std::getline` does (`GetlineSplit`: no trailing
empty field); each item is split at its first `=` (`ParseItem`; with no `=`
the value is the whole item, since `npos + 1` wraps to 0); the option name
goes through `from_string` (`FromString`, taken from the spec because
`args.h` is not in the repository; the names are abbreviated to one letter).
Scope values are split at `|` and `.` becomes `/` (`prepare_scope`);
`progress_point` takes the class before the first `:` and `std::stoi` of the
rest (`ParseProgressPoint`, `Stoi`: an optional sign and at least one digit,
else an exception nothing catches); `end_to_end` sets the flag; an unknown
option or a `progress_point` without `:` is `report_error`; `fix_exp` sets
`fixExp`, `warmup` is `std::stol` times 1000 (`ParseWarmup`), `output_file`
sets the path and `logging_level` only configures the logger (abstracted).
After the loop the path defaults to `jcoz-output.csv` and the CSV header is
appended to it (`headerFile`) before the closing check. The closing
check (245-248, `MissingRequired`) rejects an empty search list and, outside
end-to-end mode, an empty class or the line -1. `report_error` and an
uncaught exception both end the agent (`phase = "exited"`). The checked
option strings are `s=<search>_i=<ignored>` followed by one of the option
lists in `MC_ScopeFilter.tla`'s `MCTails`. `ClassifyClass` is the part of
`CreateJMethodIDsForClass` that reads the configuration: `is_in_allowed_scope`
on the JVM signature `L<name>;` (`strstr` is `StrStr`, the first
occurrence), and the progress-class test (`IsProgressClass`: `strstr` at the
start, then the compare after cutting the `;`). `RefInScope` is the design's
reading of the scope test: a prefix test on the name.

**`ClassPrepare.tla`** models class preparation and what it shares with the
handler and with shutdown. Its variables:
- per thread: `pc` in `CreateJMethodIDsForClass`, `cls`, and the insert loop
  index `idx`;
- the locks `classPrepLock` and `inScopeLock` (owner or `None`);
- `inScopeIds`, and `writer`, the thread inside an `in_scope_ids.insert`;
- `ppMethod` and `bpSets` for the progress point, `exited` for `exit(1)`;
- per thread, the handler's `hpc` and `hasLock`;
- `dpc` for OnVMDeath.

The thread actions are `ClassPrepareEvent` (the `isRunning` early return),
`CreateLocked` (`acquireCreateLock`, `GetClassMethods` failing or not, the
scope test), `AddInScopeLock`, `InsertBegin`/`InsertEnd` (one insert is two
steps, so a signal can land inside it), `AddInScopeUnlock`, `ProgressCheck`,
`ProgressSet` (set the breakpoint, or `exit(1)` when no method has the line)
and `ReleaseCreateLock`. The handler's are `HandleStart` (`has_lock`),
`HandleSpin` and `HandleRead`; a handler runs on top of its thread, so the
thread takes no step meanwhile. OnVMDeath is `StopRunning`,
`ClearInScopeMethods`, `StopSignals`, `DisableEvents` and
`ClearProgressPoint`. On Linux `class_prep_lock` is an `int` holding a
truncated `pthread_t`, so `acquireCreateLock`'s `has_lock` is never true;
`CreateJMethodIDsForClass` does not nest, so the model's lock is a plain
one.

`FairSpec` adds the fairness of section 4 and `EveryCallbackReturns`
states that every callback, every handler and OnVMDeath's clear return.

## 3. Runs

Deadlock checking is off in every cfg. After Stop returns the VM is dead
and the engine stops; `ScopeFilter` stops after a configuration error and
otherwise keeps classifying classes; `LineRanges` only revisits states once
its input space is explored; `ClassPrepare` stops when every class is prepared, or at
`exit(1)`.

### Passing runs

| Run | Module, cfg | Checks | Bounds |
|---|---|---|---|
| `delay_ledger` | `MC_JCozEngine`, `MC_JCozEngine.cfg` | `TypeOK` | 2 threads (symmetric), speedup {0,1}, sync every signal, 1 experiment, no breakpoint hits; `VIEW ProgramState`; about 1.9M states, 1 min |
| `hits_termination` | `MC_JCozEngine`, `MC_Live.cfg` | `SpeedupDistribution`, `SchedulerRefined`, and under `FairSpec` `StopTerminates`, `ExperimentEnds` | 1 thread, speedup 0, sync every 2nd signal, 1 counted hit at a time, 2 experiments, `experiment_time` in 1..3 with factor 2; 103k states, 35 s |
| `scope_filter` | `MC_ScopeFilter`, `MC_ScopeFilter.cfg` | `AllowedScopeDivergesOnlyOnMarkerScopes` | option strings with `search_scopes` values of up to 3 characters and `ignored_scopes` values of up to 2 over `L a . \|`, then each of the 9 option lists of `MCTails`; class names of up to 3 characters over `L a /`; 106k states, under 1 min |
| `class_prepare` | `ClassPrepare`, `MC_ClassPrepare.cfg` | `InScopeReadExcludesOtherWriters`, `ProgressPointSetOnce`, `EveryCallbackReturns` | 2 threads, 3 classes (2 in scope, all with the progress-class name, 2 of them with the line), 1 method each; under `FairSpec` `EveryCallbackReturns`; 79k states, about 1.5 min |
| `line_ranges` | `LineRanges`, `MC_LineRanges.cfg` | `SamplesChargedOnSelectedLine`, `RowNamesSelectedClassAndLine` | bci 0..4, lines {10,20}, tables of up to 3 entries, class names of up to 3 characters over `a / $`; 26k states |

What the passing runs show:
- **`delay_ledger`.** Across threads syncing, donating, sleeping, ending
  mid-experiment and Stop at any step, every variable keeps its type; in
  particular `num_signals_received` never passes the sync count, so every
  sync path (sleep or donation) resets it.
- **`hits_termination`.** `calculate_random_speedup` gives speedup 0 with
  probability 5/25 and each of 1/20..20/20 with 1/25, as spec 4.5 and 7
  require. The whole engine implements
  `ExperimentScheduler`: the stop flag is honoured only at the loop top,
  `in_experiment` is set only while running, and a stopped trial never
  reaches recording. Under fairness every normal-mode experiment ends,
  whether or not the program hits the progress point (the loop waits for a
  hit only when `end_to_end` is set), and Stop's busy wait returns.
  `experiment_time` goes through both branches of the growth test (1 → 2 →
  3, the second through `* 2 > MAX`) and shrinks back; no property bounds
  it, because the constants that decide whether it can leave its bounds
  are not in the repository (hazard at 358).
- **`scope_filter`.** `is_in_allowed_scope` agrees with a prefix test on the
  class name except when some scope consists only of `L` characters (the
  empty scope included). Such a scope first occurs at the signature's
  marker, so `strstr(...) == class_sig + 1` fails for classes whose name
  starts with it and the empty scope matches nothing. The run also parses
  every branch of the option switch and of the closing check (malformed
  progress points, unknown options, the default output file and its
  header).
- **`class_prepare`.** No other thread is inserting into
  `in_scope_ids` while a handler reads it, and the progress breakpoint is
  set at most once until OnVMDeath has run. Under fair scheduling every
  callback, handler and OnVMDeath's clear returns: no spinlock
  (`class_prep_lock`, `in_scope_lock`) is held forever or waited on by its
  own holder (a handler spinning on the lock its interrupted thread holds
  would never return).
- **`line_ranges`.** For every sorted table and bci, the selected line is
  the line of the bci, and a bci of the method counts as in the experiment
  exactly when it lies on that line, over all the line's entries. The row
  names that line and the top-level class in dotted form, for names with
  separators and nested-class markers in every position.

Between them, the passing runs fire every action and every disjunct of the
next-state relations.

Each property has a mutant in `PROJECT.json`: a plausible bug in the mapped
definition that TLC then catches under the same cfg.

| Property | Mutant |
|---|---|
| `TypeOK` | the missing reset of `num_signals_received` after a sleep |
| `SpeedupDistribution` | a zero band one value too wide (`<= 5`) |
| `SchedulerRefined` | a loop top that does not test `_running` |
| `StopTerminates` | exit without `profile_done = true` |
| `ExperimentEnds` | a loop that waits for a hit without testing `end_to_end` |
| `AllowedScopeDivergesOnlyOnMarkerScopes` | a scope allowed anywhere in the signature |
| `InScopeReadExcludesOtherWriters` | the handler's lock skipped |
| `ProgressPointSetOnce` | `acquireCreateLock` that does not wait |
| `EveryCallbackReturns` | `class_prep_lock` not released when the callback returns |
| `SamplesChargedOnSelectedLine` | `>=` instead of `>` in the line lookup |
| `RowNamesSelectedClassAndLine` | `cleanSignature`'s second loop one position short |

### Violation runs

Each one checks one property stated by the spec or the code's comments; see
the findings in `PROJECT.json`.

| Run | Property | What TLC shows |
|---|---|---|
| `double_sleep` | `SleepWithinReportedLedger` | A thread ending mid-experiment sleeps its debt in `removeUserThread` (701), without crediting `local_delay`. A pending SIGPROF's sync then sleeps it again (929). |
| `stale_delay_credit` | `CreditsMatchSpeedup` | A signal between 376 and 380 credits the previous `delay`. |
| `end_to_end_discarded` | `EndToEndTrialRecorded` | Stop injects the end-to-end hit (1039) and clears `_running` (1042). The trial is discarded at 405. |
| `dangling_signal` | `NoSignalAfterDelete` | A SIGPROF is still pending after `delete curr_ut` (717). |
| `range_use_after_free` | `NoRangeReadAfterFree` | A handler that read `in_experiment = true` is still scanning `location_ranges` when `runExperiment` deletes them (446). |
| `insert_race` | `InScopeReadNotDuringInsert` | A SIGPROF inside its own thread's `in_scope_ids.insert` skips the lock (`has_lock`, 878) and reads the set mid-insert. |
| `progress_dotted` | `AcceptedProgressClassResolvable` | `progress_point=La.a:1` (cfg `MC_ProgressDotted.cfg`, option lists `MCDottedTails`) passes the check at 245, but the class is never normalised (176) and no signature can pass the test at entry.cc 207-218: no breakpoint is ever set and nothing reports it. |

Other behaviours the models reach but no run checks are listed as hazards
with a note: the double donation at 933, a hit counted twice by the split
`points_hit` update, the CSV header appended before the closing check
(222 vs 245), a negative `warmup` wrapping in the unsigned `warmup_time`, a ledger carried between experiments (`global_delay` zeroed at 417 while every `local_delay` is kept), `experiment_time` halved below `MIN_EXP_TIME` for constants the repository does not show, the EINVAL undersleep for requests of a second or more, the
`location_ranges` leak at 422, and class preparation that passes the
`isRunning` check before Stop and inserts after `clearInScopeMethods`.

### Why these bounds are enough

- **Two threads** are the fewest for the concurrent-sync and donor races,
  and for a class prepare racing another thread's handler. One thread is
  enough for the re-entrancy of a handler into `removeUserThread`,
  `HandleBreakpoint` and `addInScopeMethods`.
- **`SyncEvery` 1 or 2** (10 in the code). The sync logic does not depend on
  the count, only on whether this signal is the sync signal.
- **Speedups {0,1}** give a zero and a non-zero delay. A delay unit is
  `SIGNAL_FREQ / 20` = 50 µs, so **`OneSecond` = 20000** units is the
  `tv_nsec` limit of 10^9 ns; every modelled delay is far below it, as in
  a normal run.
- **One static frame slot** exercises the "full buffer" path.
- **One sampling round** per phase (15-30 in the code) already lets a
  handler store a frame. More rounds only repeat that.
- **`MaxHits`** bounds `points_hit` plus one thread's pending hits, and
  **`MaxExperiments`** bounds the experiments started.
- **Scope strings of up to 3 characters** (2 for the ignored scopes, which
  are tested by the same predicate) over alphabets with `L`, a letter,
  the separators `.`/`/` and `|` include empty items, leading and trailing
  separators, marker-like scopes and scopes longer than the name.
- **Three classes** cover every combination that matters: in scope or not,
  progress class with and without the line (the one without it makes
  `addProgressPoint` exit), and two progress classes on two threads.
  `insert_race` keeps four. One method per class is enough for an insert to be
  interrupted.
- **Option lists** (`MCTails`): a well-formed progress point, one without
  `:`, one with no class, one with no line, one at line -1, end-to-end mode,
  end-to-end mode with `fix_exp`, `warmup`, `output_file` and
  `logging_level`, a `warmup` with no digits, an unknown option and none: one of each branch of the option switch and of
  the closing check. Digits are 0-2.
- **Class names of up to 3 characters over `a / $`** put a separator and a
  nested-class marker first, last and in the middle, and one-letter names.
- **Line tables of up to 3 entries over 2 lines** include a line with two
  separate ranges, the last entry's range up to `MAX_BCI + 1` (`MaxBci` =
  4), and bcis before, inside and after every entry.

## 4. Fairness

`FairSpec` assumes weak fairness of:
- the agent thread's steps (the OS schedules it, and each step is a bounded
  sleep or computation);
- each thread's handler steps (a pending signal is delivered, and a sleep
  returns);
- the completion of a started breakpoint store and of `removeUserThread`;
- Stop's steps after it has begun.

Nothing is assumed about when the application starts or ends threads, hits
breakpoints, or calls Stop: those are up to the program being profiled.

`ClassPrepare`'s `FairSpec` assumes strong fairness of each thread's
callback steps and of each spin-CAS acquisition (`HandleSpin`,
`ClearInScopeMethods`): a handler that starts on top of the thread, or
another thread holding the lock, disables them only for a while, and the
OS keeps scheduling the spinning thread. It assumes weak fairness of the
handler's read and of OnVMDeath's steps after `clearInScopeMethods`. Class
preparation events, signals and the start of OnVMDeath come from the JVM
and have no fairness.

## 5. Not modelled

- **The warmup sleep and `fix_exp` in the engine**: the sleep comes before
  the state `JCozEngine` starts from, and `fix_exp` is its constant
  `FixExp`; `ScopeFilter` parses both. **JVMTI setup** (`Agent_OnLoad`,
  `RegisterJvmti`, `run_profiler`), **logging** and **CSV formatting**:
  one-shot setup and I/O with no concurrent state. The one concurrent
  consequence, `RunAgentThread`'s error ignored by `OnVMInit` (entry.cc
  417) so that Stop would wait forever, is a hazard: the engine starts
  with its agent thread running. In the engine a row is a
  counter; `LineRanges` models the row's class name and line.
- **Deadlock in the handler's spdlog calls** (832, 841, 869). This is a
  hazard, but logging is not modelled.
- **The engine's in-scope set and line table** are constants (`InScope`,
  `Resolvable`, and a region-membership choice in `HandleScan`); the
  separate modules `ClassPrepare` and `LineRanges` model how they are built.
  Composing them into the engine would multiply its state space without
  adding an interaction a property is about.

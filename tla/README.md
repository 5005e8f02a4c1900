# Specification of the PCT concurrency testing library

The repository is a tool for testing multi-threaded C programs. `skeleton/testlib.c`
is a library that is preloaded into the program under test; it defines
`pthread_create`, `pthread_exit`, `pthread_yield`, the mutex calls and the condition
variable calls, logs each call, and, depending on the environment variable `ALGORITHM`,
lets the program run as it is (`none`), sleeps at random in every call (`random`), or
schedules its threads by random priorities (`pct`, probabilistic concurrency testing).
Python scripts run a target many times with different seeds.

This directory holds TLA+ modules that model the library, TLC configurations that check
them on small instances, and proofs that TLAPS checks. Paths below are relative to
`src/skeleton/` unless they start with `src/`.

## Parts of the system

| Part | Where | State | Operations | Modelled |
|---|---|---|---|---|
| Priority table | `utils.c` 40-65, 81-95 | `priorities` | `init_utils`: draw, make unique | `Priorities` |
| PCT scheduler | `testlib.c` 207-714 | `g_threads`, `g_semaphores`, `g_current_thread`, `g_current_mutex`, `g_runnable_threads`, `g_PCT_main_lock` | handlers of `PCT()` | `PctScheduler` |
| Thread management | `testlib.c` 737-955 | `g_thread_count`, `args->thread_index`, `g_general_lock` | create, start routine, exit, yield | `PctScheduler` (pct), `InterposedThreads` |
| Mutexes | `testlib.c` 1034-1131 | `g_current_mutex`, the C library's mutexes | lock, unlock, trylock | `PctScheduler` (pct), `Interposer` |
| Condition variables | `testlib.c` 958-1031 | the C library's | wait, signal, broadcast | `Interposer` (none, random) |
| Log and stack traces | `testlib.c` 152-201 | `g_print_lock`, `STACKTRACE_THREAD_ID` | print a call, unwind | `Interposer` |
| Thread numbering | `testlib.c` 66, 137-145, 773-792 | `g_thread_ids`, `g_count_lock` | register, look up | `ThreadNumbers` |
| `none`, `random` | `testlib.c` 720-731, `utils.c` 69-78 | none | sleep or nothing | `Interposer` |
| Constructors | `testlib.c` 1134-1208, `utils.c` 81-95 | all of the above | initialise | as `Init` / `Priorities` |
| Test programs | `tests/*.c` | their variables | sequences of calls | `PctTestPrograms`, `InterposerTests` |
| Framework | `framework.py`, `new_framework.py` | `exit_status` | run targets, time out, combine exit codes | `Framework` |
| Batch scripts | `coverage.py`, `tests.py` | none | run `new_framework.py` on each test | no |
| Environment, build, `unwind-test.c`, `libunwind/` | | | | no |

How they interact. The constructors run before `main()`, first `init_utils` (priority 150),
then `init_testlib` (200), which enters slot 0 of the scheduler for the main thread. From
then on the threads of the program call into the library concurrently. Each interposed
function takes `g_general_lock` for single accesses to shared variables, calls
`run_scheduling_algorithm`, logs, calls the original function, and calls
`run_scheduling_algorithm` again. With `pct` that is `PCT()`, whose handlers run one at a
time under `g_PCT_main_lock`, share `g_threads`, `g_semaphores` and `g_runnable_threads`,
and let a thread run by posting the semaphore of its slot. Two things cross these
boundaries: `g_current_thread`, an argument in disguise that is written under one lock and
read under the other, and the interposed `pthread_mutex_trylock`, which the scheduler calls
itself.

What is hard here: threads interleave between the statements of every call; a thread sleeps
on a semaphore while it holds the lock that the poster needs; a failed `pthread_create` is
registered and never undone; and the library calls functions that it interposes.
`PROJECT.json` lists each hazard at its line with the properties that watch it.

The committed `testlib.c` defines `PCT_thread_trylock` twice (597 and 626) and does not
compile as it is. The second differs from the first only in taking a fresh local semaphore
instead of a global one, which under `g_PCT_main_lock` is the same; the model has one.

## Modules

| Module | Content |
|---|---|
| `Priorities` | the table: one action per pass through the loops of `initialize_priorities` and `make_unique` |
| `PriorityTable` | the abstract table: an entry is placed at once, with the least free value at or above a draw |
| `PctScheduler` | the scheduler and the interposed calls with `ALGORITHM=pct`, and any program under test |
| `MCPctScheduler` | instances of `PctScheduler` for TLC: threads, mutexes, priority tables, symmetry |
| `PctTestPrograms` | extends `PctScheduler`: the program under test is one of the programs of `tests/` |
| `MCPctTestPrograms` | instances of `PctTestPrograms` |
| `PosixThreads` | external: what the C library promises of mutexes, condition variables and yield |
| `Interposer` | the wrappers of these calls with `none` and `random`: locks of the library, log, stack traces |
| `MCInterposer` | instances of `Interposer` |
| `InterposerTests` | extends `Interposer`: its threads follow the programs of `tests/` |
| `MCInterposerTests` | instances of `InterposerTests` |
| `ThreadNumbers`, `MCThreadNumbers` | the numbers of threads in the log, with kernel ids that are used again |
| `InterposedThreads`, `MCInterposedThreads` | the whole library with `none` and `random`: `Interposer` and `ThreadNumbers` composed |
| `Framework`, `MCFramework` | the scripts that run a target once per seed |
| `Priorities_proofs`, `PctScheduler_proofs`, `PctTestPrograms_proofs`, `Interposer_proofs`, `InterposerTests_proofs`, `ThreadNumbers_proofs`, `InterposedThreads_proofs`, `Framework_proofs` | theorems and proofs |

`PctTestPrograms` extends `PctScheduler` and `InterposerTests` extends `Interposer` with a
program for each thread, so that the same library steps run under a client that makes any
call and under the clients of the repository. `InterposedThreads` extends `Interposer` and
instantiates `ThreadNumbers`, and is proved to implement both. `Priorities` refines `PriorityTable`,
`Interposer` refines `PosixThreads`. A run of a test program is proved to be a run of the
module it extends (`TestsRunTheScheduler`, `TestsRunTheWrappers`). What one module assumes of another is an assumption on
a constant: `TablesAssumption` of `PctScheduler` is proved of `Priorities` (`FinishedTables`), and the target
of `Framework`, which may end or hang, is what the runs of the test programs show.

### PctScheduler and the code

Each thread has a label in `pc` that says which statement it is about to execute. The first
word of the label is the call or the handler: `create_`, `after_`, `start_`, `term_`,
`yield_`, `lock_`, `try_`, `unlock_`. A thread at `..._enter` waits for `g_PCT_main_lock`
at the top of `PCT()`; the labels in `HandlerSteps` are those inside a handler, with the
main lock taken. `client` is the program's own code, from which the action `Client(t)` may
start any call in `Calls` at any time. `interpose_start_routine` begins at `start_set`.

A step of the model is one statement that touches a variable which another thread may
change at the same time, together with the statements around it that touch only what the
lock in hand protects:

* `g_current_thread` is shared in this sense even inside `PCT()`, because
  `interpose_start_routine` writes it under `g_general_lock` only (759, 796). So each
  statement of a handler that reads or writes it is a step.
* `g_threads`, `g_semaphores` and `g_runnable_threads` are only touched under
  `g_PCT_main_lock`; a search through all slots of these is one step (215-219, 269-274).
* The loop of `PCT_thread_yield` (471-478) reads `g_current_thread` again for every slot, while
  a start routine may store another one: each pass is a step (`CompareOther`).
* A section of `g_general_lock` makes one access; taking the lock, the access and the
  release are one step (`GeneralSection`) that needs the lock to be free. The only place
  that keeps the lock is `pthread_mutex_trylock` (1111), which is `TakeGeneralLock`.
* The per-handler semaphores `g_PCT_thread_*_lock` and the two used in the searches are
  taken only by a thread that holds the main lock, never twice, so they never block and are
  left out. `g_print_lock` and `g_count_lock` are left out too: no thread waits for
  anything modelled here while it holds one of them.
* Where an index is -1 the C program's behaviour is undefined. The model records `fault`
  and stops there.

Two places are cut off because the model itself shows that they are not reached:
`PCT_thread_lock` after its call of the interposed trylock (`LockBlocksItself`,
`LockNeverReturns`), and `PCT_thread_unlock` (`UnlockIsBlocked`, `UnlockNeverReturns`).

### Interposer, PosixThreads and the code

A wrapper goes through these labels of `pc`, of which `pthread_mutex_lock` has all but
`again`:

| Label | Statement |
|---|---|
| `check` | `if (gettid() == STACKTRACE_THREAD_ID)` (1038, 1072), without a lock |
| `bypass` | the original call of a thread that is in the unwinder |
| `general` | the section of `g_general_lock` that stores `g_current_mutex` (1043, 1077, 1106) |
| `again` | the second `sem_wait(&g_general_lock)` of trylock (1111) |
| `log_call` | `sem_wait(&g_print_lock)`, the CALL line, `STACKTRACE_THREAD_ID = gettid()` |
| `trace`, `nested` | the unwinder locks and unlocks a mutex of its own through the wrappers |
| `traced` | the end of `stacktrace()`, which resets the id, and the post of `g_print_lock` |
| `orig` | the original function |
| `sleeping` | in `pthread_cond_wait` of the C library |
| `log_return` | the RETURN line, under `g_print_lock` |

`run_scheduling_algorithm` sleeps or does nothing; as any step may be delayed, it is the
interleaving itself, and one model stands for both algorithms. The mutex of the unwinder is
external and never contended, since one thread at a time unwinds; `nested` only keeps that
its calls come back into `pthread_mutex_lock` and `pthread_mutex_unlock`. That it does so is
why the code compares ids at all, and an id that does not match would leave the thread
waiting for the print lock it holds (`self_wait`).

`PosixThreads` states each call as its begin, its effect at one instant (two for a wait), and its end;
`Interposer` uses the same instants for the original functions and implements the
specification with `phase <- Phase(pc)`: everything from the call to the original function is
`called`, everything after it `done`. `shown` is a history variable, who holds each mutex by
the lines printed so far.

`InterposerTests` gives each thread a list of calls, jumps and statements. `main()` only
creates and joins, so it is left out, and a program has ended when its threads have.

`create` and `exit` are calls without an effect in `PosixThreads`: they go through the locks
and the log as `pthread_create` (838-856) and `pthread_exit` (883-888) do. What they create
and end is in `InterposedThreads`.

### InterposedThreads and the code

The module joins the two state machines of a created thread where the code does. `place` is
its `pc` in `ThreadNumbers`; its calls, and `pc`, are those of `Interposer`. The original
`pthread_create` (849) is the step in which `Wrapper` makes `Numbers!Create`, unless it fails,
which is only logged. `section` is the section of `g_general_lock` the thread stands before in
`interpose_start_routine`: `args` (739), `set` (758, after which `Numbers!Begin` leads on), then the registration, the announcement
and the program; `return` (795) when the start routine returns, `returned` before the
THREAD EXITED line. `pthread_exit` does not enter `g_general_lock` again but with `pct`
(891), searches for its number and prints its line (899-906) and is gone. A search has
`g_print_lock` from the step before its first entry to the line (`PrintLockFree`). The program calls when it likes, `calls_left`
times. `leaked` remembers that a trylock took `g_general_lock` for good.

### ThreadNumbers, Framework and the code

`ThreadNumbers` follows a created thread from `pthread_create` over the sections of
`g_general_lock` at 739 and 758 (`begin`, where it may stay for ever) through the section of
`g_count_lock` (773-778: `count`, `store`), the search and the THREAD CREATED line
(`announce`, `find_created`), to the end by return, which prints the number found at the start, or by
`pthread_exit`, which searches again (`find_exited`). A search looks at one entry in a step
(`PassEntry`, with `scanned` the loop variable), so that others register in the middle of it.
It is made under `g_print_lock`, which only `InterposedThreads` has: here several threads may
search at a time. The kernel may give the id of a thread that is gone to
a new one. `created_as` and `exited_as` are history.

`Framework` is the loop over the seeds. `times_out` tells `new_framework.py` from
`framework.py`, the one difference between the two; a behaviour begins with either. The target is external.

Definitions whose comment calls them a *variant* are faulty versions of the definition
after them (a dropped guard, a forgotten post). They are not part of any specification;
`PROJECT.json` pairs each property with a variant under which TLC must find it violated.

## Runs

| Run | Question | States |
|---|---|---|
| `Priorities.cfg` | does `make_unique` end, with the least free value, is the table unique and bounded, and does it implement `PriorityTable`? | 1 237 |
| `PctThreads.cfg` | create, yield, return, exit by three threads in any order, creations may fail: main lock, counter, choice of the next slot, empty searches | 1.9 million |
| `PctHandlers.cfg` | two threads with every call, fair: does every handler return or freeze, and what becomes of mutexes? | 38 000 |
| `PctTests.cfg` | how do five test programs end, and is it only a race that mixes up their slots? | 47 000 |
| `PctTestsEnd.cfg` | do `pthread_yield_test` and `pthread_mutex_lock_unlock_test` always end with `pct`? No | |
| `PctSlots.cfg` | has every thread a slot of its own, and do handlers work on that of their thread? No | |
| `Interposer.cfg` | do log, stack traces and locks of the library leave mutexes and condition variables as they are, and does the log tell the truth? | 636 000 |
| `InterposerTests.cfg` | how do five test programs end with `none` and `random`? | 3 926 |
| `TrylockTest.cfg` | does `pthread_mutex_trylock_test` always end with `none` and `random`? No | |
| `ThreadNumbers.cfg` | do numbers in the log identify threads, and fit the table? | 1.45 million |
| `InterposedThreads.cfg` | do threads start, return and exit among the mutex calls of others, and is none taken for an ended one with its kernel id? | 69 000 |
| `Framework.cfg` | do the scripts return, and remember failures? | 534 |

`FrozenIsFinal` and `HandlerEnds` run on `PctHandlers`, with the properties of mutexes:
`PctThreads` is too large to check temporal properties on. `MixUpsNeedRace` and
`FaultNeedsDrift`, implications between temporal formulas, run on `PctTests`, whose programs
reach shared slots, foreign slots and the bad index (two threads with any calls do not reach
the last). All of these but `HandlerEnds` are proved for any number of threads.

What holds. The handlers exclude each other and give the main lock back exactly once on
every path (`MainLockExclusive`); the counter of runnable threads does not drift although it is changed on
behalf of whatever slot is current (`RunnableCountsThreads`); the slot that is posted is the
best runnable one unless a thread announced itself in between
(`OnlyAnnouncementsSpoilChoice`); a handler returns unless its thread sleeps for good
(`HandlerEnds`), and once one does nothing ever wakes it (`FrozenIsFinal`). A search for the
next slot comes up empty only where the runnable slots and the counter differ
(`EmptySearchMeansDrift`), and a run in which they never do never has -1 as an index
(`FaultNeedsDrift`). Both are about the run and not about the state with the bad index: with
13 threads there is a run in which a later race makes slots and counter agree again before
the index is used, so that `fault` does not imply that they differ there. As long as no
thread stores into `g_current_thread` what another still relies on, and none calls
`pthread_exit` while another is current, every thread has its own slot, handlers
serve their own thread and slots and counter agree (`MixUpsNeedRace`), also with creations
that fail.

With `none` and `random` the program sees of its calls what it would see of the C library
(`ImplementsPosix`); whoever holds a mutex by the order of the log lines holds it
(`LogShowsExclusion`), although the lines are printed under another lock; a thread that
unwinds its stack always gets past its own wrappers (`PrinterGetsPast`), and no call of the
program is mistaken for one of the unwinder (`EveryCallIsLogged`). Test programs hang only by
their own doing or by trylock (`EndsOrBlocksItself`), and a signal or broadcast
reaches whoever sleeps (`NoSignalLost`). Live threads have
different numbers, even if ids are used again and the search takes no lock
(`LiveNumbersDiffer`, `NumberStays`). A created thread starts, is announced and returns,
unless a trylock took `g_general_lock` for good (`ThreadsComeAndGo`); `pthread_exit`, which
does not need that lock, gets through even then (`ExitsGetThrough`). `STACKTRACE_THREAD_ID`
is never the id of a thread that has ended (`IdOfLiveThread`), so the kernel may use ids again.

What does not hold, although a comment or a list of the repository says so. A run that must
fail shows each; they are the "findings" in `PROJECT.json`.

1. A thread that starts sleeps for its semaphore with the main lock taken (342), and so does
   one that yields (487). If the creator has not yet passed `PCT_THREAD_AFTER_CREATE`, nobody
   can post, and the program hangs; the shortest such run has one created thread.
   `pthread_yield_test` "will always succeed" (`Ends`, run `PctTestsEnd`).
2. `pthread_mutex_lock` never returns with `pct`: `PCT_thread_lock` calls the library's own
   `pthread_mutex_trylock` (526), which waits for the lock the thread holds
   (`LockBlocksItself`). `pthread_mutex_lock_unlock_test` "will always print the expected value"
   and is listed as not buggy, but no run of it ends, nor one of any program that begins with a
   lock in a thread that is joined (`LockingTestsNeverEnd`; `Ends`, run `PctTestsEnd`).
3. `g_current_thread` is an argument that others overwrite (`SlotsAreTheirOwn`, run `PctSlots`).
   A new thread may wait on the semaphore of another's slot (759 against 341), one
   that returns may mark another's slot dead, `pthread_exit` (897) does not even store its
   slot, and two live threads may get one slot, as `args->thread_index` is read after `PCT()`
   was left (839). The comments at 757, 794 and 836 say otherwise. The trace of the run is of the
   first kind; TLC finds either conjunct of `SlotsAreTheirOwn` violated by itself as well.
4. `pthread_mutex_trylock` takes `g_general_lock` and keeps it (1111), so that with every
   algorithm the next call that needs it hangs (`UnlockIsBlocked`).
   `pthread_mutex_trylock_test`, which "should prevent deadlock", ends in no run with `none`
   or `random` (`TestsEnd`, run `TrylockTest`; `SomeTestsHang`).

What holds and is hardly intended:

5. With `pct` at most one mutex is ever taken in a run (`OneMutexEver`). `deadlock_buggy_test`,
   which is to deadlock "most of the time", ends in no run at all, whatever the algorithm: even
   when its threads run one after the other, the first keeps a mutex that the second needs
   (`SomeTestsHang`, and with `pct` `LockingTestsNeverEnd`).
6. A search may find no slot while the counter is positive, and -1 is used as an index (257):
   `PctThreads` and `PctTests` reach states with `fault`. Point 3 and this one have one cause,
   `g_current_thread`: a run in which it is not disturbed has none of them (`MixUpsNeedRace`).
7. `pthread_cond_wait_signal_test` ends if the wait comes first (`NoSignalLost`); if the
   signal does, its first thread sleeps for ever. Its `sleep(0.1)` is `sleep(0)`.
8. A thread with an id that the kernel used before is logged under the number of the thread
   that is gone, since the search returns the first entry (140). It is the same number for
   its whole life (`NumberStays`) and no other live thread's (`LiveNumbersDiffer`).
9. `framework.py` never comes back from a target that hangs; only `new_framework.py` has a
   time limit (`Returns`).

### Bounds

* `Threads` is main and two created threads (two in all in `PctHandlers`). Three is what it takes for a creator, a starting or ending thread and a
  third one that is hit by their race; the shared slot and the bad index need
  all three. `CreatesBegun` bounds creations by the number of threads: no thread is
  reused.
* `MAX_THREADS` is 3 instead of 64: a slot for every thread, so that the slots run out only
  through the program's faults. The proofs are for every number.
* `PriorityTables` has one table per rank of slot 0: the other slots start out alike, and the
  code only compares priorities, so that other tables only rename slots.
* `Size` 5 and `MaxVal` 3 in `Priorities`: with more entries than values, draws must collide
  and be bumped beyond `MaxVal - 1`, also several times in a row.
* `Interposer` has three threads, two mutexes and one condition variable: two sleepers and
  the thread that signals, or a holder, a waiter and a thread that prints. Calls are not
  bounded, the state space is finite as it is.
* `InterposerTests` has two threads, three in `pthread_cond_broadcast_test`, whose
  `THREAD_NUM` is 2 in place of 10, so that each of the two can be the one that signals the
  dispatcher. Waits do not end without a signal there: the programs do not loop around them,
  and a spurious end would only hide a lost signal.
* `ThreadNumbers` creates four threads on three ids, so that an id is used again while other
  threads live, with a table of 5: as in the code, one entry more than threads created.
* `InterposedThreads` creates two threads on two kernel ids. `main()` makes two calls and the
  others one each: enough to create both threads, or one and
  leak the lock before or after it starts; a third call of `main()` took six times
  as long and showed nothing else.
* `PctTestPrograms` has the four programs that make other calls than locks, and one that
  locks. The other locking programs begin with `pthread_mutex_lock`, too, and under `pct`
  that call does not return (`LockBlocksItself`, `LockingTestsNeverEnd`): what follows it is never reached.
* `Framework` runs three seeds with either script and return codes of success, failure and a signal.
* `MCSymmetry` permutes the created threads and the mutexes in runs without liveness (in
  `Interposer`, all threads); no
  definition tells them apart. The runs with `FairSpec` or `ProgramSpec` use no symmetry.
* `CHECK_DEADLOCK FALSE` everywhere: a program may end, the constructor ends, and the
  scheduler really does stop for good, which is what `FrozenIsFinal` is about.

### Fairness

`FairSpec` of `PctScheduler` has weak fairness of each thread's steps inside the library:
the kernel runs a thread that can run. There is none for `Client(t)`, as a program need not
call again, and none that is strong: `sem_wait` promises no order among waiters, and
`HandlerEnds` needs none because the holder of the main lock is never in competition.
`ProgramSpec` adds weak fairness of the calls a test program makes, since its text leaves no
choice; `ProgramSpec` of `InterposerTests` is the same. Weak fairness is enough there: the
programs are finite, so nobody can be overtaken for ever. `FairSpec` of `Priorities` is weak
fairness of sequential code. `ThreadNumbers` has no fairness: a
thread may wait for ever for the locks that are not in it. `FairSpec` of `InterposedThreads` is weak
fairness of each thread's steps in the library, which suffices for its semaphores as calls are
finite in number, and none of the program's calls. In `Framework` the script and its clock go on, and the target
need not end.

## Proofs

TLAPS checks these theorems for every value of the constants.

| Theorem | Property |
|---|---|
| `UniquePriorities`, `BoundedPriorities`, `LeastFreeValue` | `UniqueSettled`, `BumpsBounded`, `LeastFree` |
| `TableImplemented` | `ImplementsTable` |
| `FinishedTables` | a finished table satisfies `TablesAssumption` of `PctScheduler` |
| `TypeCorrect`, `MutualExclusion` | `TypeOK`, `MainLockExclusive` |
| `LockNeverReturns` | `LockBlocksItself` |
| `UnlockNeverReturns`, `OneMutexPerRun` | `UnlockIsBlocked`, `OneMutexEver` |
| `FreezeIsPermanent` | `FrozenIsFinal` |
| `ChoiceIsBest` | `OnlyAnnouncementsSpoilChoice` |
| `EmptySearches`, `FaultsNeedDrift` | `EmptySearchMeansDrift`, `FaultNeedsDrift` |
| `OnlyRacesMixUp` | `MixUpsNeedRace` |
| `UndisturbedStaysInBounds` | with a slot for every thread, an undisturbed run never has the index -1 |
| `CounterIsExact` | `RunnableCountsThreads` |
| `LockingTestsNeverEnd` | no program with a thread that begins with a lock satisfies `Ends` |
| `TestsRunTheScheduler` | a run of `PctTestPrograms` is one of `PctScheduler` |
| `FaultsOfTestsNeedDrift`, `MixUpsOfTestsNeedRace` | `FaultNeedsDrift`, `MixUpsNeedRace`, of `PctTestPrograms` |
| `Interposer_proofs`: `TypeCorrect`, `PrinterIsRecognised`, `CallsAreLogged` | `TypeOK`, `PrinterGetsPast`, `EveryCallIsLogged` |
| `LogIsTrue` | `LogShowsExclusion` |
| `PosixImplemented` | `ImplementsPosix` |
| `TestsRunTheWrappers` | a run of `InterposerTests` is one of `Interposer` |
| `LogsOfTestsAreTrue`, `TestsSeePosix` | `LogShowsExclusion`, `ImplementsPosix`, of `InterposerTests` |
| `SomeTestsHang` | `deadlock_buggy_test` and `pthread_mutex_trylock_test` never satisfy `TestsEnd` |
| `ThreadNumbers_proofs`: `TypeCorrect`, `TableSuffices` | `TypeOK`, `CountInTable` |
| `NumbersIdentify`, `NumberIsKept` | `LiveNumbersDiffer`, `NumberStays` |
| `WrappersImplemented`, `NumbersImplemented` | `InterposedThreads` implements `Interposer` and `ThreadNumbers` |
| `LogStaysTrue`, `IdsAreOfLiveThreads` | `LogShowsExclusion`, `IdOfLiveThread`, of `InterposedThreads` |
| `NumbersStayTrue` | `LiveNumbersDiffer`, `NumberStays`, `CountInTable`, of `InterposedThreads` |
| `Framework_proofs`: `TypeCorrect`, `FailuresShow` | `TypeOK`, `FailuresNoticed` |

Assumptions: those named in the modules, which TLC evaluates in the runs. `TablesAssumption`, that
priorities are natural and pairwise distinct, is what `FinishedTables`
establishes of the table. `InterposedThreads` assumes of its kernel ids and of the table what
`ThreadNumbers` does, and `InterposerTests` that the threads and mutexes of the two programs
it has theorems about are different ones.

*Priorities.* `UniqueSettled` is not inductive: that the entry being placed will differ from
all earlier ones is known only from the comparisons since the last bump. `ComparedDistinct`
says so. For the bound, a bump at entry j moves a value that equals entry j, which is at most
`MaxVal - 1 + j`. `StepRefines` shows that an `Accept` places an entry of `PriorityTable` and that
every other step leaves the abstract table as it is; it rests on both invariants.

*PctScheduler.* That the main lock is binary (`TypeOK`) depends on its holder being unique
(`MainLockExclusive`) and the other way round, so `IInv` is their conjunction. Lemma
`MainLockStep` goes through the actions once and sorts them into those that leave the set of
threads in handlers alone, take the lock or post it; `ExclusiveStep` needs no more than that.
`BestExists` shows that a search returns a slot, by well-founded choice among finite sets.
`GeneralInv` strengthens `OneMutexEver` and `UnlockIsBlocked` by what the leaked
`g_general_lock` means for threads on their way to the original trylock. `OthersKeepOut` is
the rely condition of a handler (what other threads may do while it runs), from which
`FreezeIsPermanent` and `ChoiceIsBest` follow.

The index -1 is a matter of counting. `InStep` says that as many slots are runnable as the
counter, corrected for the thread between its two updates, counts. `BirthInv` counts the
threads not yet created. A search for a free slot (`FreeSlotFound`) then finds one because every
runnable slot is counted for a thread that has been created, and the new one is still to come; a
search for the next thread (`NobodyLeft`) finds none only when the counter is 0. `SlotInv` draws
the consequence for `g_current_thread`. It is proved under `[]InStep`, which is what
`FaultNeedsDrift` has as premise: races do break it.

`OnlyRacesMixUp` is the same kind of proof under `[]Undisturbed`. `FlowStep` goes through the
actions once and says how each moves a thread, `g_current_thread` and the states of slots;
everything after it uses no more than that. `ApartInv` says that live threads have different
slots, which are runnable until their threads are marked dead, and `CurrentInv` whose slot
is in `g_current_thread` at each label that is going to read it. `ReliedOn` is where the premise is used:
a step that stores in `g_current_thread` is made by the one thread that relies on it.

*PctTestPrograms.* `ProgramInv` reads off the indices what the threads did: a lock that was
called has not returned, a join that was passed was for a thread that is done. It holds of
every program whose `main()` joins the threads that lock (`JoinsAssumption`, which the run
evaluates for the programs of `tests/`). A thread whose first call is a lock is then either
before that call or in it, so `main()` cannot have passed the join that comes before its return
(`LockingTestsNeverEnd`). A step of a program is a step of its thread in
`PctScheduler`, or changes nothing there.

*Interposer.* `PrintInv` says that `STACKTRACE_THREAD_ID` is t exactly while t prints, which is
why the unlocked comparison at 1038 can be trusted: only t itself ever makes it equal t. With the
mutual exclusion of `g_print_lock` it gives `PrinterGetsPast` and `EveryCallIsLogged`. `HoldInv` adds
which labels a holder may be at, and that a thread is shown with a mutex only from its RETURN
line to its next CALL line that lets go; `LogShowsExclusion` follows. `TrylockInv`
says that a trylock past `again` means that `g_general_lock` is 0 for good. The refinement goes
action by action: those between `check` and `traced` stutter, since they keep the phase, and the original
functions are the instants of `PosixThreads` by definition.

*InterposerTests.* A step of a program is one of its thread in `Interposer`, or changes
nothing there, so `LogIsTrue` and `PosixImplemented` carry over. `DeadlockInv` reads off the index
of each thread which mutexes it has, and says that never both have their second one: a thread
keeps the mutex it locked second, which is the first of the other. `TrylockTestInv` says that
from the return of the trylock on `g_general_lock` is taken, and stays so
(`GeneralLockStaysTaken`): whatever was returned the next call is an unlock, which never gets
past its first section.

*ThreadNumbers.* The invariant says of every thread that has stored its id that it is in the
table, at no entry that its search has already passed, and that it was announced under the
first entry with its id, so that a later search stops at the same one. Live threads have different ids, and a
registration writes one entry, above all others and with the id of the thread that makes it: it
changes no search of another live thread, the unfinished ones included.

*InterposedThreads.* Every step is a step or a stutter of `Interposer`, and one of
`ThreadNumbers`, so what was proved of either holds of the whole (`LogStaysTrue`,
`NumbersStayTrue`, by an instance of `ThreadNumbers_proofs`). That ids
are of live threads relates the two: `PlaceInv` says that a thread inside a wrapper
has been announced and is not gone, unless it has passed the log of `pthread_exit`, and with `PrintInv` of `Interposer` that leaves only live
threads for `STACKTRACE_THREAD_ID`.

*Framework.* The exit status is an upper bound of the codes seen, and at least 1 after a time-out.

Only model-checked: `Terminates`, `HandlerEnds`, `EndsOrFreezes`,
`EndsOrBlocksItself`, `NoSignalLost`, `ThreadsComeAndGo`, `ExitsGetThrough` and
`Returns`. They are liveness under fairness, which is out of the prover's reach. Every
other property of a run that passes is a theorem. `TypeOK` of `Priorities` and of `Framework`
is proved and not run.

## Not modelled

* The scripts `coverage.py` and `tests.py`, which run `new_framework.py` on one test after the
  other and discard its status; the environment variables, parsed once; the build;
  `unwind-test.c`; the vendored `libunwind/`.
* Of `testlib.c`: the text of log lines and stack traces; `g_block_threads`, `g_mutex_locked` and
  `PCT_THREAD_CALL`, which nothing reads; what `init_testlib` does with `init_lock`, a mutex it never initialises.
* Condition variables with `pct`. The wrappers only pass through `PCT_DO_NOTHING` before and
  after the original call, and a thread can hold a mutex to wait with only after a trylock,
  since `pthread_mutex_lock` never returns. No program of `tests/` does.
* A run with more threads than the 64 the code reckons with (70): `g_thread_ids` is written past
  its end (777), which is undefined. `ThreadsAssumption` and `NumbersAssumption` exclude it.
* `PCT_thread_unlock`, and `PCT_thread_lock` after its call of the trylock: never reached.
* The unprotected data of the `*_buggy` programs and what they print of it. Their calls are
  those of a modelled program.
* The return of `main()` in `InterposedThreads`, which ends the process under the others.

## What is left

1. Condition variables in `PctScheduler`, for programs that come to them by a trylock.
2. An abstract scheduler (slots that are free, reserved or posted), which `PctScheduler`
   implements in undisturbed runs; so far these are described by `MixUpsNeedRace`.
3. Strong fairness of the semaphores in `InterposedThreads`, for programs that call without end.

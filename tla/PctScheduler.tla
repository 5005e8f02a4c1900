----------------------------- MODULE PctScheduler -----------------------------
(***************************************************************************)
(* The PCT scheduler of skeleton/testlib.c and the interposed calls that   *)
(* drive it, with ALGORITHM=pct: thread creation and termination, yield,   *)
(* mutex lock and trylock.                                                 *)
(*                                                                         *)
(* A definition introduced as a variant is the one after it with a fault   *)
(* put in, on which the checks of a property are tried.                    *)
(*                                                                         *)
(* The program under test is every program: a thread that is in its own    *)
(* code ("client") may make any call in Calls, at any time.  Each call is  *)
(* cut into one step per statement that touches a variable which another   *)
(* thread may write at the same time.  g_current_thread is such a variable *)
(* even inside PCT(): interpose_start_routine writes it under              *)
(* g_general_lock only, while the handlers use it under g_PCT_main_lock    *)
(* only.  What is touched under g_PCT_main_lock alone (g_threads,          *)
(* g_semaphores, g_runnable_threads) joins the step next to it, and so     *)
(* does a loop that searches nothing else.  The loop of a yield, which     *)
(* compares every slot with g_current_thread, takes one step for each.     *)
(*                                                                         *)
(* Left out: the per-handler semaphores g_PCT_thread_*_lock and the two    *)
(* g_PCT_find_*_lock, which are taken once by a thread that already holds  *)
(* g_PCT_main_lock and so never block; g_print_lock and g_count_lock,      *)
(* which guard printing and g_thread_ids, and under which a thread never   *)
(* waits for anything modelled here; g_mutex_locked, which is never read.  *)
(***************************************************************************)
EXTENDS Integers, FiniteSets

CONSTANTS
  Threads,        \* the operating-system threads a run may have
  Main,           \* the thread that runs main()
  None,           \* no owner, no mutex, the content of an unwritten thread_id
  Mutexes,        \* the mutexes of the program under test
  MAX_THREADS,    \* slots in g_threads and g_semaphores, 64 in the code
  PriorityTables, \* the tables get_priorities() may return
  Calls,          \* the calls the program under test makes
  CreateCanFail   \* whether the C library's pthread_create may return an error

Slots == 0 .. MAX_THREADS - 1

NoSlot == -1      \* what a search that finds nothing returns

ASSUME ThreadsAssumption == Main \in Threads /\ None \notin Threads
ASSUME FiniteAssumption == IsFiniteSet(Threads)
ASSUME SlotsAssumption == MAX_THREADS \in Nat \ {0}
ASSUME CallsAssumption ==
  Calls \subseteq {"create", "exit", "yield", "lock", "trylock", "unlock", "return"}
ASSUME CreateAssumption == CreateCanFail \in BOOLEAN

(* What module Priorities establishes of every table. *)
ASSUME TablesAssumption ==
  \A p \in PriorityTables :
    /\ p \in [Slots -> Nat]
    /\ \A a, b \in Slots : p[a] = p[b] => a = b

VARIABLES
  priorities,          \* the table of this run
  g_threads,           \* slot -> state, thread_id, thread_number
  g_semaphores,        \* slot -> value of its semaphore
  g_runnable_threads,
  g_current_thread,    \* a slot, or NoSlot
  g_current_mutex,
  g_thread_count,
  g_PCT_main_lock,     \* value of the semaphore: 1 free, 0 taken
  g_general_lock,
  owner,               \* external: the holder of each mutex in the C library
  pc,                  \* where each thread is
  thread_index,        \* args->thread_index of each thread
  thread_pick,         \* the local thread_index of PCT_thread_yield
  scanned,             \* the slots its loop has looked at, its local i
  waiting_on,          \* the slot whose semaphore a sem_wait was called on
  mutex,               \* the argument of the mutex call a thread is in
  fault                \* g_threads or g_semaphores was indexed with NoSlot

table == <<g_threads, g_semaphores, g_runnable_threads>>
locks == <<g_PCT_main_lock, g_general_lock>>
locals == <<thread_index, thread_pick, scanned, waiting_on, mutex>>
current == <<g_current_thread, g_current_mutex, g_thread_count>>

vars == <<priorities, table, current, locks, owner, pc, locals, fault>>

-----------------------------------------------------------------------------
(* Helpers *)

(* Of the slots in S, the one with the highest priority.                   *)
Best(S) ==
  IF S = {} THEN NoSlot
  ELSE CHOOSE s \in S : \A r \in S : priorities[r] <= priorities[s]

InState(state) == {s \in Slots : g_threads[s].state = state}

find_highest_priority == Best(InState("RUNNABLE"))

find_next_available_thread == Best(InState("DEAD"))

Goto(t, label) == pc' = [pc EXCEPT ![t] = label]

(* Moves thread t from one label to the next. *)
Moves(t, from, to) == pc[t] = from /\ Goto(t, to)

(* Variants: the post is forgotten; a handler posts as well as PCT().      *)
PostNothing == UNCHANGED g_PCT_main_lock
PostTwice == g_PCT_main_lock' = g_PCT_main_lock + 2

(* sem_post(&g_PCT_main_lock) at the end of PCT(). *)
PostMainLock == g_PCT_main_lock' = g_PCT_main_lock + 1

PostSlot(s) == g_semaphores' = [g_semaphores EXCEPT ![s] = @ + 1]

(* A section between sem_wait and sem_post of g_general_lock. It makes one *)
(* access to shared state, so that taking the lock, the access and the     *)
(* release are one step.                                                   *)
GeneralSection == g_general_lock > 0 /\ UNCHANGED locks

-----------------------------------------------------------------------------
(* PCT(): the dispatch on pct_thread_state. A thread at an "enter" label   *)
(* waits for the main lock and goes on to the first step of its handler,   *)
(* which keeps the lock until it returns.                                  *)

FirstStep ==
  [create_enter |-> "create_slot", after_enter |-> "after_find",
   start_enter  |-> "start_tid",   term_enter  |-> "term_mark",
   yield_enter  |-> "yield_scan",  lock_enter  |-> "lock_try"]

(* Variant: the handlers are not serialised.                               *)
PCTUnguarded(t) ==
  /\ pc[t] \in DOMAIN FirstStep
  /\ g_PCT_main_lock' = 0
  /\ Goto(t, FirstStep[pc[t]])
  /\ UNCHANGED <<priorities, table, current, g_general_lock, owner, locals, fault>>

PCT(t) ==
  /\ pc[t] \in DOMAIN FirstStep
  /\ g_PCT_main_lock > 0
  /\ g_PCT_main_lock' = g_PCT_main_lock - 1
  /\ Goto(t, FirstStep[pc[t]])
  /\ UNCHANGED <<priorities, table, current, g_general_lock, owner, locals, fault>>

(* PCT(PCT_DO_NOTHING): takes and releases the main lock. *)
AfterNothing ==
  [exit_pass |-> "exit_general", yield_pass |-> "yield_enter", try_pass |-> "client"]

PCT_DO_NOTHING(t) ==
  /\ pc[t] \in DOMAIN AfterNothing
  /\ g_PCT_main_lock > 0
  /\ Goto(t, AfterNothing[pc[t]])
  /\ UNCHANGED <<priorities, table, current, locks, owner, locals, fault>>

-----------------------------------------------------------------------------
(* pthread_create *)

(* The creations begun so far; bounded by the threads of the instance. *)
CreatesBegun == g_thread_count + Cardinality({t \in Threads : pc[t] = "create_count"})

CallCreate(t) ==
  /\ "create" \in Calls
  /\ CreatesBegun < Cardinality(Threads) - 1
  /\ Moves(t, "client", "create_count")
  /\ UNCHANGED <<priorities, table, current, locks, owner, locals, fault>>

CountThread(t) ==
  /\ Moves(t, "create_count", "create_enter")
  /\ GeneralSection
  /\ g_thread_count' = g_thread_count + 1
  /\ UNCHANGED <<priorities, table, g_current_thread, g_current_mutex, owner, locals,
                 fault>>

(* PCT_thread_before_create: choose a slot, ... *)
ReserveSlot(t) ==
  /\ Moves(t, "create_slot", "create_mark")
  /\ g_current_thread' = find_next_available_thread
  /\ UNCHANGED <<priorities, table, g_current_mutex, g_thread_count, locks, owner, locals,
                 fault>>

(* ... mark it runnable, ... *)
MarkRunnable(t) ==
  /\ g_current_thread \in Slots
  /\ Moves(t, "create_mark", "create_number")
  /\ g_threads' = [g_threads EXCEPT ![g_current_thread].state = "RUNNABLE"]
  /\ UNCHANGED <<priorities, g_semaphores, g_runnable_threads, current, locks, owner,
                 locals, fault>>

(* Variant: the new thread is numbered but not counted.                    *)
NumberThreadOnly(t) ==
  /\ g_current_thread \in Slots
  /\ Moves(t, "create_number", "create_spawn")
  /\ g_threads' = [g_threads EXCEPT ![g_current_thread].thread_number = g_thread_count]
  /\ PostMainLock
  /\ UNCHANGED <<priorities, g_semaphores, g_runnable_threads, current, g_general_lock,
                 owner, locals, fault>>

(* ... and number it. *)
NumberThread(t) ==
  /\ g_current_thread \in Slots
  /\ Moves(t, "create_number", "create_spawn")
  /\ g_threads' = [g_threads EXCEPT ![g_current_thread].thread_number = g_thread_count]
  /\ g_runnable_threads' = g_runnable_threads + 1
  /\ PostMainLock
  /\ UNCHANGED <<priorities, g_semaphores, current, g_general_lock, owner, locals, fault>>

(* args->thread_index = g_current_thread, then the C library's             *)
(* pthread_create.  Its result is only printed: the slot reserved for a    *)
(* thread that could not be created stays runnable.                        *)
Spawn(t) ==
  /\ pc[t] = "create_spawn"
  /\ GeneralSection
  /\ \E u \in Threads :
       /\ pc[u] = "unborn"
       /\ \/ /\ pc' = [pc EXCEPT ![t] = "after_enter", ![u] = "start_set"]
             /\ thread_index' = [thread_index EXCEPT ![u] = g_current_thread]
          \/ /\ CreateCanFail
             /\ pc' = [pc EXCEPT ![t] = "after_enter", ![u] = "failed"]
             /\ UNCHANGED thread_index
  /\ UNCHANGED <<priorities, table, current, owner, thread_pick, scanned, waiting_on, mutex,
                 fault>>

(* Variant: the search skips the current thread, as that of a yield does.  *)
ChooseAnotherAfterCreate(t) ==
  /\ Moves(t, "after_find", "after_post")
  /\ g_current_thread' = Best(InState("RUNNABLE") \ {g_current_thread})
  /\ UNCHANGED <<priorities, table, g_current_mutex, g_thread_count, locks, owner, locals,
                 fault>>

(* PCT_thread_after_create: choose the thread to run next, ...             *)
ChooseAfterCreate(t) ==
  /\ Moves(t, "after_find", "after_post")
  /\ g_current_thread' = find_highest_priority
  /\ UNCHANGED <<priorities, table, g_current_mutex, g_thread_count, locks, owner, locals,
                 fault>>

(* ... and post its semaphore. The creating thread runs on.                *)
PostAfterCreate(t) ==
  /\ g_current_thread \in Slots
  /\ Moves(t, "after_post", "client")
  /\ PostSlot(g_current_thread)
  /\ PostMainLock
  /\ UNCHANGED <<priorities, g_threads, g_runnable_threads, current, g_general_lock, owner,
                 locals, fault>>

-----------------------------------------------------------------------------
(* interpose_start_routine, up to the call of start_routine *)

AnnounceStart(t) ==
  /\ Moves(t, "start_set", "start_enter")
  /\ GeneralSection
  /\ g_current_thread' = thread_index[t]
  /\ UNCHANGED <<priorities, table, g_current_mutex, g_thread_count, owner, locals, fault>>

(* PCT_thread_start: store the thread's id, ... *)
StoreThreadId(t) ==
  /\ g_current_thread \in Slots
  /\ Moves(t, "start_tid", "start_addr")
  /\ g_threads' = [g_threads EXCEPT ![g_current_thread].thread_id = t]
  /\ UNCHANGED <<priorities, g_semaphores, g_runnable_threads, current, locks, owner,
                 locals, fault>>

(* ... pick the semaphore to wait on, ... *)
AddressStart(t) ==
  /\ g_current_thread \in Slots
  /\ Moves(t, "start_addr", "start_wait")
  /\ waiting_on' = [waiting_on EXCEPT ![t] = g_current_thread]
  /\ UNCHANGED <<priorities, table, current, locks, owner, thread_index, thread_pick,
                 scanned, mutex, fault>>

(* ... and wait on it, with the main lock still taken.  The last step of   *)
(* PCT_thread_yield is the same wait.                                      *)
WaitSlot(t) ==
  /\ pc[t] \in {"start_wait", "yield_wait"}
  /\ waiting_on[t] \in Slots
  /\ g_semaphores[waiting_on[t]] > 0
  /\ g_semaphores' = [g_semaphores EXCEPT ![waiting_on[t]] = @ - 1]
  /\ waiting_on' = [waiting_on EXCEPT ![t] = NoSlot]
  /\ PostMainLock
  /\ Goto(t, "client")
  /\ UNCHANGED <<priorities, g_threads, g_runnable_threads, current, g_general_lock, owner,
                 thread_index, thread_pick, scanned, mutex, fault>>

-----------------------------------------------------------------------------
(* Termination: start_routine returns, or the thread calls pthread_exit *)

(* main() returning ends the process, and with it every thread.            *)
CallReturn(t) ==
  /\ "return" \in Calls
  /\ Moves(t, "client", IF t = Main THEN "returned" ELSE "return_set")
  /\ UNCHANGED <<priorities, table, current, locks, owner, locals, fault>>

(* Variant: the slot is not stored.                                        *)
AnnounceNothing(t) ==
  /\ Moves(t, "return_set", "term_enter")
  /\ GeneralSection
  /\ UNCHANGED <<priorities, table, current, owner, locals, fault>>

AnnounceReturn(t) ==
  /\ Moves(t, "return_set", "term_enter")
  /\ GeneralSection
  /\ g_current_thread' = thread_index[t]
  /\ UNCHANGED <<priorities, table, g_current_mutex, g_thread_count, owner, locals, fault>>

CallExit(t) ==
  /\ "exit" \in Calls
  /\ Moves(t, "client", "exit_pass")
  /\ UNCHANGED <<priorities, table, current, locks, owner, locals, fault>>

(* pthread_exit reads a thread number for its message under                *)
(* g_general_lock; unlike a return, it does not set g_current_thread.      *)
ReadExitNumber(t) ==
  /\ Moves(t, "exit_general", "term_enter")
  /\ GeneralSection
  /\ UNCHANGED <<priorities, table, current, owner, locals, fault>>

(* PCT_thread_terminate: the current slot is dead, ... *)
MarkDead(t) ==
  /\ g_current_thread \in Slots
  /\ Moves(t, "term_mark", "term_count")
  /\ g_threads' = [g_threads EXCEPT ![g_current_thread].state = "DEAD"]
  /\ UNCHANGED <<priorities, g_semaphores, g_runnable_threads, current, locks, owner,
                 locals, fault>>

(* ... has no number and no longer counts, ... *)
Uncount(t) ==
  /\ g_current_thread \in Slots
  /\ Moves(t, "term_count", "term_stop")
  /\ g_threads' = [g_threads EXCEPT ![g_current_thread].thread_number = 0]
  /\ g_runnable_threads' = g_runnable_threads - 1
  /\ UNCHANGED <<priorities, g_semaphores, current, locks, owner, locals, fault>>

(* ... its semaphore is initialised again (run_highest_priority), ... *)
StopCurrent(t) ==
  /\ g_current_thread \in Slots
  /\ Moves(t, "term_stop", "term_find")
  /\ g_semaphores' = [g_semaphores EXCEPT ![g_current_thread] = 0]
  /\ UNCHANGED <<priorities, g_threads, g_runnable_threads, current, locks, owner, locals,
                 fault>>

ChooseNext(t) ==
  /\ Moves(t, "term_find", "term_post")
  /\ g_current_thread' = find_highest_priority
  /\ UNCHANGED <<priorities, table, g_current_mutex, g_thread_count, locks, owner, locals,
                 fault>>

(* ... and the next thread's semaphore is posted. *)
PostNext(t) ==
  /\ g_runnable_threads > 0 => g_current_thread \in Slots
  /\ Moves(t, "term_post", "done")
  /\ IF g_runnable_threads > 0 THEN PostSlot(g_current_thread) ELSE UNCHANGED g_semaphores
  /\ PostMainLock
  /\ UNCHANGED <<priorities, g_threads, g_runnable_threads, current, g_general_lock, owner,
                 locals, fault>>

-----------------------------------------------------------------------------
(* pthread_yield *)

CallYield(t) ==
  /\ "yield" \in Calls
  /\ Moves(t, "client", "yield_pass")
  /\ UNCHANGED <<priorities, table, current, locks, owner, locals, fault>>

(* PCT_thread_yield: the loop looks at the slots one after the other for a *)
(* runnable thread that is better than the best so far and, by now, not    *)
(* the current one.                                                        *)
Better(t, i) ==
  /\ g_threads[i].state = "RUNNABLE"
  /\ thread_pick[t] = NoSlot \/ priorities[i] > priorities[thread_pick[t]]
  /\ i # g_current_thread

CompareOther(t) ==
  LET i == scanned[t] IN
  /\ pc[t] = "yield_scan"
  /\ i < MAX_THREADS
  /\ thread_pick' = IF Better(t, i) THEN [thread_pick EXCEPT ![t] = i] ELSE thread_pick
  /\ scanned' = [scanned EXCEPT ![t] = i + 1]
  /\ UNCHANGED <<priorities, table, current, locks, owner, pc, thread_index, waiting_on,
                 mutex, fault>>

(* Variant: the search is repeated until it finds another thread.          *)
FindOtherOrSpin(t) ==
  /\ pc[t] = "yield_scan"
  /\ scanned[t] = MAX_THREADS
  /\ scanned' = [scanned EXCEPT ![t] = 0]
  /\ IF thread_pick[t] = NoSlot THEN UNCHANGED pc ELSE Goto(t, "yield_old")
  /\ UNCHANGED <<priorities, table, current, locks, owner, thread_index, thread_pick,
                 waiting_on, mutex, fault>>

(* After the last slot: with no other thread to run, return.               *)
FindOther(t) ==
  /\ pc[t] = "yield_scan"
  /\ scanned[t] = MAX_THREADS
  /\ scanned' = [scanned EXCEPT ![t] = 0]
  /\ \/ thread_pick[t] = NoSlot /\ PostMainLock /\ Goto(t, "client")
     \/ thread_pick[t] # NoSlot /\ UNCHANGED g_PCT_main_lock /\ Goto(t, "yield_old")
  /\ UNCHANGED <<priorities, table, current, g_general_lock, owner, thread_index,
                 thread_pick, waiting_on, mutex, fault>>

(* int old_thread = g_current_thread *)
RememberOld(t) ==
  /\ Moves(t, "yield_old", "yield_switch")
  /\ waiting_on' = [waiting_on EXCEPT ![t] = g_current_thread]
  /\ UNCHANGED <<priorities, table, current, locks, owner, thread_index, thread_pick,
                 scanned, mutex, fault>>

SwitchCurrent(t) ==
  /\ Moves(t, "yield_switch", "yield_post")
  /\ g_current_thread' = thread_pick[t]
  /\ thread_pick' = [thread_pick EXCEPT ![t] = NoSlot]
  /\ UNCHANGED <<priorities, table, g_current_mutex, g_thread_count, locks, owner,
                 thread_index, scanned, waiting_on, mutex, fault>>

PostYield(t) ==
  /\ g_current_thread \in Slots
  /\ Moves(t, "yield_post", "yield_wait")
  /\ PostSlot(g_current_thread)
  /\ UNCHANGED <<priorities, g_threads, g_runnable_threads, current, locks, owner, locals,
                 fault>>

-----------------------------------------------------------------------------
(* pthread_mutex_lock, pthread_mutex_trylock, pthread_mutex_unlock *)

CallMutex(t, m, call, label) ==
  /\ call \in Calls
  /\ Moves(t, "client", label)
  /\ mutex' = [mutex EXCEPT ![t] = m]
  /\ UNCHANGED <<priorities, table, current, locks, owner, thread_index, thread_pick,
                 scanned, waiting_on, fault>>

CallLock(t, m) == CallMutex(t, m, "lock", "lock_set")

CallTrylock(t, m) == CallMutex(t, m, "trylock", "try_set")

(* A correct program unlocks only what it holds. *)
CallUnlock(t, m) == owner[m] = t /\ CallMutex(t, m, "unlock", "unlock_set")

(* g_current_mutex = mutex. PCT_thread_unlock is not modelled beyond this  *)
(* point: UnlockIsBlocked below says that no thread gets past it.          *)
SetMutex(t) ==
  /\ \/ Moves(t, "lock_set", "lock_enter")
     \/ Moves(t, "try_set", "try_handler")
  /\ GeneralSection
  /\ g_current_mutex' = mutex[t]
  /\ UNCHANGED <<priorities, table, g_current_thread, g_thread_count, owner, locals, fault>>

(* Variant: PCT_thread_lock leaves the main lock before it tries the mutex.*)
TryOutsideLock(t) ==
  /\ Moves(t, "lock_try", "lock_reenter")
  /\ PostMainLock
  /\ UNCHANGED <<priorities, table, current, g_general_lock, owner, locals, fault>>

(* PCT_thread_lock calls pthread_mutex_trylock(g_current_mutex), which the *)
(* dynamic linker resolves to the interposed one: it stores the same       *)
(* g_current_mutex again and calls PCT(PCT_THREAD_TRY_LOCK).  The rest of  *)
(* PCT_thread_lock is not modelled: LockBlocksItself says that the thread  *)
(* waits there for the main lock it holds.                                 *)
TryInsideLock(t) ==
  /\ Moves(t, "lock_try", "lock_reenter")
  /\ GeneralSection
  /\ UNCHANGED <<priorities, table, current, owner, locals, fault>>

(* PCT_thread_trylock: reads g_thread_mutexes[g_current_thread] and sets   *)
(* the flag g_mutex_locked, which nothing reads.                           *)
TrylockHandler(t) ==
  /\ Moves(t, "try_handler", "try_take")
  /\ g_PCT_main_lock > 0
  /\ UNCHANGED <<priorities, table, current, locks, owner, locals, fault>>

(* Variant: the lock is given back.                                        *)
TakeGeneralLockBriefly(t) ==
  /\ Moves(t, "try_take", "try_orig")
  /\ GeneralSection
  /\ UNCHANGED <<priorities, table, current, owner, locals, fault>>

(* The second sem_wait(&g_general_lock) of pthread_mutex_trylock.  No      *)
(* sem_post matches it.                                                    *)
TakeGeneralLock(t) ==
  /\ Moves(t, "try_take", "try_orig")
  /\ g_general_lock > 0
  /\ g_general_lock' = g_general_lock - 1
  /\ UNCHANGED <<priorities, table, current, g_PCT_main_lock, owner, locals, fault>>

(* External: the C library's trylock takes the mutex if nobody holds it.   *)
OrigTrylock(t) ==
  /\ Moves(t, "try_orig", "try_pass")
  /\ owner' = IF owner[mutex[t]] = None THEN [owner EXCEPT ![mutex[t]] = t] ELSE owner
  /\ UNCHANGED <<priorities, table, current, locks, locals, fault>>

-----------------------------------------------------------------------------
(* Steps that write an entry of g_threads or use one of g_semaphores: the  *)
(* index is old_thread at the end of a yield, and else g_current_thread.   *)
(* With the index -1 what follows is undefined, and the model ends there.  *)
(* The reads of g_threads and g_thread_mutexes that only feed a message or *)
(* g_mutex_locked are left out.                                            *)
Indexes(t) ==
  \/ pc[t] \in {"create_mark", "create_number", "after_post", "start_tid", "start_addr",
                "term_mark", "term_count", "term_stop", "yield_post", "yield_wait"}
  \/ pc[t] = "term_post" /\ g_runnable_threads > 0

Index(t) == IF pc[t] = "yield_wait" THEN waiting_on[t] ELSE g_current_thread

IndexOutOfBounds(t) ==
  /\ Indexes(t)
  /\ Index(t) = NoSlot
  /\ fault' = TRUE
  /\ UNCHANGED <<priorities, table, current, locks, owner, pc, locals>>

-----------------------------------------------------------------------------

(* The constructor init_testlib with PCT_init_main: slot 0 is main's, and  *)
(* its semaphore is posted once.                                           *)
Init ==
  /\ priorities \in PriorityTables
  /\ g_threads = [s \in Slots |->
                    IF s = 0
                    THEN [state |-> "RUNNABLE", thread_id |-> Main, thread_number |-> 0]
                    ELSE [state |-> "DEAD", thread_id |-> None, thread_number |-> -1]]
  /\ g_semaphores = [s \in Slots |-> IF s = 0 THEN 1 ELSE 0]
  /\ g_runnable_threads = 1
  /\ g_current_thread = 0
  /\ g_current_mutex = None
  /\ g_thread_count = 0
  /\ g_PCT_main_lock = 1
  /\ g_general_lock = 1
  /\ owner = [m \in Mutexes |-> None]
  /\ pc = [t \in Threads |-> IF t = Main THEN "client" ELSE "unborn"]
  /\ thread_index = [t \in Threads |-> NoSlot]
  /\ thread_pick = [t \in Threads |-> NoSlot]
  /\ scanned = [t \in Threads |-> 0]
  /\ waiting_on = [t \in Threads |-> NoSlot]
  /\ mutex = [t \in Threads |-> None]
  /\ fault = FALSE

-----------------------------------------------------------------------------
(* What thread t decides in its own code. *)
Client(t) ==
  \/ CallCreate(t) \/ CallReturn(t) \/ CallExit(t) \/ CallYield(t)
  \/ \E m \in Mutexes : CallLock(t, m) \/ CallTrylock(t, m) \/ CallUnlock(t, m)

(* What thread t does inside the interposed calls. *)
Create(t) ==
  CountThread(t) \/ ReserveSlot(t) \/ MarkRunnable(t) \/ NumberThread(t)
    \/ Spawn(t) \/ ChooseAfterCreate(t) \/ PostAfterCreate(t)

Start(t) == AnnounceStart(t) \/ StoreThreadId(t) \/ AddressStart(t) \/ WaitSlot(t)

Terminate(t) ==
  AnnounceReturn(t) \/ ReadExitNumber(t) \/ MarkDead(t) \/ Uncount(t) \/ StopCurrent(t)
    \/ ChooseNext(t) \/ PostNext(t)

Yield(t) ==
  CompareOther(t) \/ FindOther(t) \/ RememberOld(t) \/ SwitchCurrent(t) \/ PostYield(t)

Mutex(t) ==
  SetMutex(t) \/ TryInsideLock(t) \/ TrylockHandler(t) \/ TakeGeneralLock(t) \/ OrigTrylock(t)

Inside(t) ==
  PCT(t) \/ PCT_DO_NOTHING(t) \/ Create(t) \/ Start(t) \/ Terminate(t) \/ Yield(t) \/ Mutex(t)
    \/ IndexOutOfBounds(t)

(* The process runs until main() returns or an index is out of bounds.     *)
Running == pc[Main] # "returned" /\ ~fault

ClientStep(t) == Running /\ Client(t)
LibraryStep(t) == Running /\ Inside(t)

Next == \E t \in Threads : ClientStep(t) \/ LibraryStep(t)

Spec == Init /\ [][Next]_vars

(* The kernel schedules every thread that can run.  A program owes the     *)
(* library nothing: it need not make another call.                         *)
FairSpec == Spec /\ \A t \in Threads : WF_vars(LibraryStep(t))

-----------------------------------------------------------------------------
(* Properties *)

HandlerSteps ==
  {"create_slot", "create_mark", "create_number", "after_find", "after_post",
   "start_tid", "start_addr", "start_wait",
   "term_mark", "term_count", "term_stop", "term_find", "term_post",
   "yield_scan", "yield_old", "yield_switch", "yield_post", "yield_wait",
   "lock_try", "lock_reenter"}

OutsideSteps ==
  {"unborn", "failed", "client", "returned", "done",
   "create_count", "create_enter", "create_spawn", "after_enter",
   "start_set", "start_enter", "return_set", "exit_pass", "exit_general", "term_enter",
   "yield_pass", "yield_enter",
   "lock_set", "lock_enter", "try_set", "try_handler", "try_take", "try_orig", "try_pass",
   "unlock_set"}

TypeOK ==
  /\ priorities \in PriorityTables
  /\ g_threads \in [Slots -> [state : {"DEAD", "RUNNABLE"},
                              thread_id : Threads \cup {None},
                              thread_number : Int]]
  /\ g_semaphores \in [Slots -> Nat]
  /\ g_runnable_threads \in Int
  /\ g_current_thread \in Slots \cup {NoSlot}
  /\ g_current_mutex \in Mutexes \cup {None}
  /\ g_thread_count \in Nat
  /\ g_PCT_main_lock \in {0, 1}
  /\ g_general_lock \in {0, 1}
  /\ owner \in [Mutexes -> Threads \cup {None}]
  /\ pc \in [Threads -> HandlerSteps \cup OutsideSteps]
  /\ thread_index \in [Threads -> Slots \cup {NoSlot}]
  /\ thread_pick \in [Threads -> Slots \cup {NoSlot}]
  /\ scanned \in [Threads -> 0 .. MAX_THREADS]
  /\ waiting_on \in [Threads -> Slots \cup {NoSlot}]
  /\ mutex \in [Threads -> Mutexes \cup {None}]
  /\ fault \in BOOLEAN

InHandler(t) == pc[t] \in HandlerSteps

(* PCT() is a critical section: its handlers never overlap, although one   *)
(* of them sleeps inside it, and the semaphore is 0 exactly while a thread *)
(* is in a handler, so no path through PCT() forgets or repeats the post.  *)
MainLockExclusive ==
  /\ \A t, u \in Threads : InHandler(t) /\ InHandler(u) => t = u
  /\ g_PCT_main_lock = 0 <=> \E t \in Threads : InHandler(t)

(* The threads that were registered and have not been unregistered, and    *)
(* the threads that have registered the one they are about to create.      *)
Registered ==
  {t \in Threads : pc[t] \notin {"unborn", "term_stop", "term_find", "term_post", "done"}}

Creating == {t \in Threads : pc[t] = "create_spawn"}

(* g_runnable_threads counts the threads that were registered and have not *)
(* been unregistered, including those whose creation failed: whatever slot *)
(* the racing accesses hit, the counter itself is neither lost nor doubled.*)
RunnableCountsThreads ==
  g_runnable_threads = Cardinality(Registered) + Cardinality(Creating)

(* The slot that PCT_thread_after_create and run_highest_priority post is  *)
(* the best runnable one, unless a thread that is entering or leaving its  *)
(* start routine has stored its own slot in g_current_thread since.        *)
OnlyAnnouncementsSpoilChoice ==
  \A t \in Threads :
    pc[t] \in {"after_post", "term_post"} =>
      \/ g_current_thread = find_highest_priority
      \/ \E u \in Threads : /\ pc[u] \in {"start_enter", "term_enter"}
                            /\ thread_index[u] = g_current_thread

At(label) == {t \in Threads : pc[t] = label}

(* As many slots are runnable as g_runnable_threads says, but for the one  *)
(* that a handler has just marked and not yet counted.                     *)
InStep ==
  Cardinality(InState("RUNNABLE")) + Cardinality(At("term_count"))
    = g_runnable_threads + Cardinality(At("create_number"))

(* No search comes up empty while slots and counter are in step, unless    *)
(* nobody is left: the guard of run_highest_priority is enough for the     *)
(* last thread that ends, and MAX_THREADS slots for as many threads.  Then *)
(* -1 gets into g_current_thread only from a thread that was given it as   *)
(* its thread_index.                                                       *)
EmptySearchMeansDrift ==
  [][g_current_thread' = NoSlot /\ g_current_thread # NoSlot =>
       \/ ~ InStep
       \/ g_runnable_threads = 0
       \/ Cardinality(Threads) > MAX_THREADS
       \/ \E t \in Threads : /\ pc[t] \in {"start_set", "return_set"}
                             /\ pc'[t] # pc[t]
                             /\ thread_index[t] = NoSlot]_vars

(* Without a race that puts slots and counter out of step, which a later   *)
(* race may undo, g_threads and g_semaphores are never indexed with the -1 *)
(* of an empty search, in this or any later step.                          *)
FaultNeedsDrift ==
  Cardinality(Threads) <= MAX_THREADS /\ []InStep => []~fault

(* A thread that can only go on if another one posts, and that keeps the   *)
(* other from doing so.                                                    *)
Stuck(t) ==
  \/ /\ pc[t] \in {"start_wait", "yield_wait"}
     /\ waiting_on[t] \in Slots
     /\ g_semaphores[waiting_on[t]] = 0
  \/ pc[t] = "lock_reenter"
  \/ pc[t] = "lock_try" /\ g_general_lock = 0

Frozen == \E t \in Threads : Stuck(t)

(* Once a thread sleeps in PCT_thread_start, PCT_thread_yield or           *)
(* PCT_thread_lock the scheduler has stopped for good: no later step of    *)
(* any thread wakes it or changes a slot, a semaphore or the counter.      *)
FrozenIsFinal ==
  [][\A t \in Threads : Stuck(t) => Stuck(t)' /\ UNCHANGED table]_vars

(* A handler that was entered either returns or freezes the scheduler.     *)
HandlerEnds ==
  \A t \in Threads : InHandler(t) ~> (~InHandler(t) \/ Stuck(t) \/ ~Running)

(* pthread_mutex_lock never returns under PCT: the thread that calls the   *)
(* interposed trylock from inside PCT_thread_lock waits for the main lock, *)
(* which is taken, and by itself.                                          *)
LockBlocksItself ==
  \A t \in Threads : pc[t] = "lock_reenter" => g_PCT_main_lock = 0

(* A thread that holds a mutex got it from pthread_mutex_trylock, which    *)
(* keeps g_general_lock: so the unlock waits for that lock for ever, and   *)
(* nobody ever reaches PCT_thread_unlock.                                  *)
UnlockIsBlocked ==
  \A t \in Threads : pc[t] = "unlock_set" => g_general_lock = 0

(* For the same reason a program gets at most one mutex in a whole run.    *)
OneMutexEver ==
  \A m, n \in Mutexes : owner[m] # None /\ owner[n] # None => m = n

-----------------------------------------------------------------------------
(* What comments of testlib.c say of the code, and the code does not do *)

(* The slot that a thread was given. *)
OwnSlot(t) == IF t = Main THEN 0 ELSE thread_index[t]

(* g_current_thread tells PCT_thread_start and PCT_thread_terminate whom   *)
(* they work for: "Needs to tell pthread_start what semaphores to wait on" *)
(* (testlib.c:757), "Need to tell PCT_thread_terminate() which thread is   *)
(* terminating" (testlib.c:794).  A new thread waits on the semaphore of   *)
(* its own slot, and the slot marked dead is that of the thread that ends. *)
HandlersServeTheirThread ==
  \A t \in Threads :
    /\ pc[t] = "start_wait" => waiting_on[t] = OwnSlot(t)
    /\ pc[t] = "term_mark" => g_current_thread = OwnSlot(t)

(* "g_current_thread is set in PCT_thread_before_create() to be this       *)
(* thread that is about to be created" (testlib.c:836): every created      *)
(* thread has a slot of its own.                                           *)
OneThreadPerSlot ==
  \A t, u \in Threads \ {Main} :
    /\ pc[t] \notin {"unborn", "failed", "done"}
    /\ pc[u] \notin {"unborn", "failed", "done"}
    /\ thread_index[t] = thread_index[u]
    => t = u

(* Both comments at once: g_current_thread, wherever it is read for a      *)
(* thread, is the slot stored for that thread (testlib.c:757, 794, 836).   *)
SlotsAreTheirOwn == OneThreadPerSlot /\ HandlersServeTheirThread

(* The threads that have stored a slot in g_current_thread, or are about   *)
(* to end the thread it names, and have yet to read it.                    *)
Relying ==
  {t \in Threads : pc[t] \in
     {"create_mark", "create_number", "create_spawn", "after_post",
      "start_enter", "start_tid", "start_addr", "yield_post",
      "exit_general", "term_enter", "term_mark", "term_count", "term_stop", "term_post"}}

(* Nobody stores into g_current_thread what another still relies on, and a *)
(* thread that calls pthread_exit, which stores nothing, is the current one*)
Undisturbed ==
  /\ \A t, u \in Relying : t = u
  /\ \A t \in At("exit_general") : g_current_thread = OwnSlot(t)

(* The comments are true but for g_current_thread, which is shared between *)
(* two locks and not stored by pthread_exit: as long as nobody disturbs it,*)
(* every thread has a slot of its own, handlers serve their thread, and    *)
(* slots and counter stay in step, also with creations that fail.          *)
MixUpsNeedRace ==
  []Undisturbed => [](SlotsAreTheirOwn /\ InStep)

=============================================================================

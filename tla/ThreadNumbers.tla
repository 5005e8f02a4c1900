----------------------------- MODULE ThreadNumbers -----------------------------
(***************************************************************************)
(* The numbers under which created threads appear in the log with          *)
(* ALGORITHM=none or random: interpose_start_routine counts the new thread *)
(* and stores its kernel id in g_thread_ids under g_count_lock, and        *)
(* find_thread_number searches the table for the id, without that lock,    *)
(* when the thread is announced and when it calls pthread_exit.  A search  *)
(* looks at one entry in a step, so that threads register while it runs.   *)
(*                                                                         *)
(* The kernel gives the id of a thread that is gone to a new one.          *)
(*                                                                         *)
(* Left out: the main thread, which is not in the table; g_general_lock,   *)
(* for which a thread waits as it begins, and g_print_lock, under which it *)
(* searches.  Here a thread may stay in either place for ever, and two may *)
(* search at a time; InterposedThreads adds the locks.                     *)
(*                                                                         *)
(* A definition introduced as a variant is the one after it with a fault   *)
(* put in, on which the checks of a property are tried.                    *)
(***************************************************************************)
EXTENDS Integers, FiniteSets

CONSTANTS
  Threads,        \* the threads created in the course of a run
  Tids,           \* the ids of the kernel, gettid()
  NoTid,          \* 0, which is no thread's id
  MAX_THREADS     \* entries of g_thread_ids, 64 in the code

ASSUME TidsAssumption == NoTid \notin Tids
ASSUME MaxAssumption == MAX_THREADS \in Nat

(* "there will only be up to 64 threads ever run" (testlib.c:70), the main *)
(* thread among them.                                                      *)
ASSUME ThreadsAssumption == IsFiniteSet(Threads) /\ Cardinality(Threads) < MAX_THREADS

VARIABLES
  g_thread_count,
  g_thread_ids,
  g_count_lock,   \* value of the semaphore: 1 free, 0 taken
  tid,            \* thread -> its id, until it is gone
  pc,             \* where each thread is
  scanned,        \* thread -> the entries its search has passed, its local i
  created_as,     \* the number in the thread's THREAD CREATED line
  exited_as       \* the number in its THREAD EXITED line

lines == <<created_as, exited_as>>

vars == <<g_thread_count, g_thread_ids, g_count_lock, tid, pc, scanned, lines>>

Entries == 0 .. MAX_THREADS - 1

NotFound == -1

Unset == -2       \* no line was printed

Moves(t, from, to) == pc[t] = from /\ pc' = [pc EXCEPT ![t] = to]

Init ==
  /\ g_thread_count = 0
  /\ g_thread_ids = [i \in Entries |-> NoTid]
  /\ g_count_lock = 1
  /\ tid = [t \in Threads |-> NoTid]
  /\ pc = [t \in Threads |-> "unborn"]
  /\ scanned = [t \in Threads |-> 0]
  /\ created_as = [t \in Threads |-> Unset]
  /\ exited_as = [t \in Threads |-> Unset]

-----------------------------------------------------------------------------

(* pthread_create: the kernel takes an id that no live thread has. *)
Create(t) ==
  /\ Moves(t, "unborn", "begin")
  /\ \E id \in Tids \ {tid[u] : u \in Threads} : tid' = [tid EXCEPT ![t] = id]
  /\ UNCHANGED <<g_thread_count, g_thread_ids, g_count_lock, scanned, lines>>

(* The thread has read its arguments and stored g_current_thread, each in  *)
(* a section of g_general_lock.                                            *)
Begin(t) ==
  /\ Moves(t, "begin", "count")
  /\ UNCHANGED <<g_thread_count, g_thread_ids, g_count_lock, tid, scanned, lines>>

(* Variants: the count is not guarded; it grows by two.                    *)
CountUnlocked(t) ==
  /\ Moves(t, "count", "store")
  /\ g_count_lock' = 0
  /\ g_thread_count' = g_thread_count + 1
  /\ UNCHANGED <<g_thread_ids, tid, scanned, lines>>

CountTwice(t) ==
  /\ Moves(t, "count", "store")
  /\ g_count_lock > 0
  /\ g_count_lock' = g_count_lock - 1
  /\ g_thread_count' = g_thread_count + 2
  /\ UNCHANGED <<g_thread_ids, tid, scanned, lines>>

(* sem_wait(&g_count_lock); g_thread_count++ *)
Count(t) ==
  /\ Moves(t, "count", "store")
  /\ g_count_lock > 0
  /\ g_count_lock' = g_count_lock - 1
  /\ g_thread_count' = g_thread_count + 1
  /\ UNCHANGED <<g_thread_ids, tid, scanned, lines>>

(* g_thread_ids[g_thread_count] = gettid(); sem_post(&g_count_lock) *)
StoreId(t) ==
  /\ Moves(t, "store", "announce")
  /\ g_thread_ids' = [g_thread_ids EXCEPT ![g_thread_count] = tid[t]]
  /\ g_count_lock' = g_count_lock + 1
  /\ UNCHANGED <<g_thread_count, tid, scanned, lines>>

-----------------------------------------------------------------------------
(* find_thread_number *)

(* The thread has g_print_lock and begins the search: for THREAD CREATED,  *)
(* or in pthread_exit for THREAD EXITED.                                   *)
Announce(t) ==
  /\ Moves(t, "announce", "find_created")
  /\ UNCHANGED <<g_thread_count, g_thread_ids, g_count_lock, tid, scanned, lines>>

ExitByCall(t) ==
  /\ Moves(t, "client", "find_exited")
  /\ UNCHANGED <<g_thread_count, g_thread_ids, g_count_lock, tid, scanned, lines>>

Searching(t) == pc[t] \in {"find_created", "find_exited"}

AtHit(t) == g_thread_ids[scanned[t]] = tid[t]

(* An entry with another id. *)
PassEntry(t) ==
  /\ Searching(t)
  /\ scanned[t] \in Entries /\ ~ AtHit(t)
  /\ scanned' = [scanned EXCEPT ![t] = @ + 1]
  /\ UNCHANGED <<g_thread_count, g_thread_ids, g_count_lock, tid, pc, lines>>

(* The search returns the index of the first hit, or -1 after the last     *)
(* entry.                                                                  *)
find_thread_number(t) == IF scanned[t] \in Entries THEN scanned[t] ELSE NotFound

SearchEnds(t) ==
  /\ scanned[t] \in Entries => AtHit(t)
  /\ scanned' = [scanned EXCEPT ![t] = 0]

(* THREAD CREATED, then the start routine of the program. *)
PrintCreated(t) ==
  /\ Moves(t, "find_created", "client")
  /\ SearchEnds(t)
  /\ created_as' = [created_as EXCEPT ![t] = find_thread_number(t)]
  /\ UNCHANGED <<g_thread_count, g_thread_ids, g_count_lock, tid, exited_as>>

(* THREAD EXITED in pthread_exit. *)
PrintExited(t) ==
  /\ Moves(t, "find_exited", "ending")
  /\ SearchEnds(t)
  /\ exited_as' = [exited_as EXCEPT ![t] = find_thread_number(t)]
  /\ UNCHANGED <<g_thread_count, g_thread_ids, g_count_lock, tid, created_as>>

-----------------------------------------------------------------------------

(* The start routine returned: the number is still at hand.                *)
ExitByReturn(t) ==
  /\ Moves(t, "client", "ending")
  /\ exited_as' = [exited_as EXCEPT ![t] = created_as[t]]
  /\ UNCHANGED <<g_thread_count, g_thread_ids, g_count_lock, tid, scanned, created_as>>

(* The kernel may use the id again. *)
Vanish(t) ==
  /\ Moves(t, "ending", "gone")
  /\ tid' = [tid EXCEPT ![t] = NoTid]
  /\ UNCHANGED <<g_thread_count, g_thread_ids, g_count_lock, scanned, lines>>

Start(t) == Begin(t) \/ Count(t) \/ StoreId(t) \/ Announce(t) \/ PrintCreated(t)

Exit(t) == ExitByReturn(t) \/ ExitByCall(t) \/ PrintExited(t) \/ Vanish(t)

Next == \E t \in Threads : Create(t) \/ Start(t) \/ PassEntry(t) \/ Exit(t)

Spec == Init /\ [][Next]_vars

-----------------------------------------------------------------------------

TypeOK ==
  /\ g_thread_count \in Nat
  /\ g_thread_ids \in [Entries -> Tids \cup {NoTid}]
  /\ g_count_lock \in {0, 1}
  /\ tid \in [Threads -> Tids \cup {NoTid}]
  /\ pc \in [Threads -> {"unborn", "begin", "count", "store", "announce", "find_created",
                        "client", "find_exited", "ending", "gone"}]
  /\ scanned \in [Threads -> 0 .. MAX_THREADS]
  /\ created_as \in [Threads -> Int]
  /\ exited_as \in [Threads -> Int]

(* With at most 64 threads in a run, the table is never written past its   *)
(* end, although the count only grows and entry 0 is never used.           *)
CountInTable == g_thread_count \in Entries

(* The threads in the log that have not exited yet. *)
Announced(t) == pc[t] \in {"client", "find_exited"}

(* Two threads that are alive never have the same number in the log, and   *)
(* none has the -1 of a search that failed: neither can a thread that      *)
(* registers in the middle of a search cause that, nor an id used before.  *)
LiveNumbersDiffer ==
  \A t, u \in Threads :
    Announced(t) /\ Announced(u) =>
      /\ created_as[t] # NotFound
      /\ created_as[t] = created_as[u] => t = u

(* A thread exits under the number it was created with, whichever way it   *)
(* ends and whoever registers in the meantime.                             *)
NumberStays ==
  \A t \in Threads : exited_as[t] # Unset => exited_as[t] = created_as[t]

=============================================================================

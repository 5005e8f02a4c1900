------------------------------ MODULE Interposer ------------------------------
(***************************************************************************)
(* The wrappers that testlib.c puts around the mutex, condition variable   *)
(* and yield calls, with ALGORITHM=none or random.  Both leave the order   *)
(* of things to the kernel (random only adds delays), so they have the     *)
(* same behaviours here.                                                   *)
(*                                                                         *)
(* Every wrapper prints a CALL line, unwinds the stack, calls the original *)
(* function and prints a RETURN line, all printing under g_print_lock.     *)
(* The unwinder locks a mutex of its own through the same wrappers; a      *)
(* thread that is printing must then get past them, which it does by       *)
(* comparing its id with STACKTRACE_THREAD_ID, without a lock.             *)
(*                                                                         *)
(* pthread_create and pthread_exit are here as far as they lock and print; *)
(* InterposedThreads has the rest.                                         *)
(*                                                                         *)
(* Left out: g_current_mutex and g_current_thread, which only PCT() reads. *)
(*                                                                         *)
(* A definition introduced as a variant is the one after it with a fault   *)
(* put in, on which the checks of a property are tried.                    *)
(***************************************************************************)
EXTENDS Integers, FiniteSets

CONSTANTS
  Threads, Mutexes, Conds, None, Ops,
  Stacktraces            \* get_stacktraces()

ASSUME NoneAssumption == None \notin Threads \cup Conds
ASSUME OpsAssumption ==
  Ops \subseteq {"lock", "trylock", "unlock", "wait", "signal", "broadcast", "yield",
                "create", "exit"}
ASSUME StacktracesAssumption == Stacktraces \in BOOLEAN

VARIABLES
  g_print_lock,          \* value of the semaphore: 1 free, 0 taken
  g_general_lock,
  STACKTRACE_THREAD_ID,  \* a thread, or None for -1
  pc,                    \* where each thread is
  shown,                 \* history: mutex -> the threads that hold it by the log
  owner, asleep, call, return_val    \* of the C library, see PosixThreads

locks == <<g_print_lock, g_general_lock>>

(* How far the call is, seen from outside. *)
Phase(label) ==
  CASE label = "client" -> "idle"
    [] label = "sleeping" -> "sleeping"
    [] label = "log_return" -> "done"
    [] OTHER -> "called"

Posix == INSTANCE PosixThreads WITH phase <- [t \in Threads |-> Phase(pc[t])]

library == <<owner, asleep, return_val>>

vars == <<locks, STACKTRACE_THREAD_ID, pc, shown, library, call>>

Goto(t, label) == pc' = [pc EXCEPT ![t] = label]

Moves(t, from, to) == pc[t] = from /\ Goto(t, to)

Init ==
  /\ pc = [t \in Threads |-> "client"]
  /\ Posix!Init
  /\ g_print_lock = 1
  /\ g_general_lock = 1
  /\ STACKTRACE_THREAD_ID = None
  /\ shown = [m \in Mutexes |-> {}]

-----------------------------------------------------------------------------
(* Up to the CALL line *)

(* lock and unlock look at STACKTRACE_THREAD_ID; trylock, lock and unlock  *)
(* store g_current_mutex, and create reads g_current_thread.               *)
FirstLabel(op) ==
  CASE op \in {"lock", "unlock"} -> "check"
    [] op \in {"trylock", "create"} -> "general"
    [] OTHER -> "log_call"

Call(t) ==
  /\ pc[t] = "client"
  /\ \E c \in Posix!AllCalls :
       /\ Posix!MayCall(t, c)
       /\ call' = [call EXCEPT ![t] = c]
       /\ Goto(t, FirstLabel(c.op))
  /\ UNCHANGED <<locks, STACKTRACE_THREAD_ID, shown, library>>

(* A thread that is printing takes the original function at once. *)
Check(t) ==
  /\ Moves(t, "check", IF STACKTRACE_THREAD_ID = t THEN "bypass" ELSE "general")
  /\ UNCHANGED <<locks, STACKTRACE_THREAD_ID, shown, library, call>>

(* Variant: the section is not left.                                       *)
StoreMutexAndStay(t) ==
  /\ Moves(t, "general", IF call[t].op = "trylock" THEN "again" ELSE "log_call")
  /\ g_general_lock > 0
  /\ g_general_lock' = g_general_lock - 1
  /\ UNCHANGED <<g_print_lock, STACKTRACE_THREAD_ID, shown, library, call>>

(* A section of g_general_lock that stores g_current_mutex (lock, trylock, *)
(* unlock) or reads g_current_thread (create).                             *)
StoreMutex(t) ==
  /\ Moves(t, "general", IF call[t].op = "trylock" THEN "again" ELSE "log_call")
  /\ g_general_lock > 0
  /\ UNCHANGED <<locks, STACKTRACE_THREAD_ID, shown, library, call>>

(* The second sem_wait(&g_general_lock) of pthread_mutex_trylock.  No      *)
(* sem_post matches it.                                                    *)
TakeGeneralLock(t) ==
  /\ Moves(t, "again", "log_call")
  /\ g_general_lock > 0
  /\ g_general_lock' = g_general_lock - 1
  /\ UNCHANGED <<g_print_lock, STACKTRACE_THREAD_ID, shown, library, call>>

AfterCallLine == IF Stacktraces THEN "trace" ELSE "traced"

(* By a CALL line of unlock or wait the thread lets go of the mutex. *)
HideHolder(t) ==
  shown' = IF call[t].op \in {"unlock", "wait"}
           THEN [shown EXCEPT ![call[t].mutex] = @ \ {t}]
           ELSE shown

(* Variant: the line is printed without the print lock.                    *)
PrintCallUnlocked(t) ==
  /\ Moves(t, "log_call", AfterCallLine)
  /\ g_print_lock' = 0
  /\ STACKTRACE_THREAD_ID' = t
  /\ HideHolder(t)
  /\ UNCHANGED <<g_general_lock, library, call>>

(* sem_wait(&g_print_lock), the CALL line, STACKTRACE_THREAD_ID = gettid().*)
PrintCall(t) ==
  /\ Moves(t, "log_call", AfterCallLine)
  /\ g_print_lock > 0
  /\ g_print_lock' = g_print_lock - 1
  /\ STACKTRACE_THREAD_ID' = t
  /\ HideHolder(t)
  /\ UNCHANGED <<g_general_lock, library, call>>

(* External: while it walks the stack, libunwind locks and unlocks a mutex *)
(* through the wrappers.  One that does not see its own id goes on to wait *)
(* for g_print_lock.                                                       *)
Unwind(t) ==
  /\ \E move \in {<<"trace", "nested">>, <<"nested", "traced">>} :
       Moves(t, move[1], IF STACKTRACE_THREAD_ID = t THEN move[2] ELSE "self_wait")
  /\ UNCHANGED <<locks, STACKTRACE_THREAD_ID, shown, library, call>>

(* Variants: the id is not reset; the original call is forgotten.          *)
EndTraceNoReset(t) ==
  /\ Moves(t, "traced", "orig")
  /\ g_print_lock' = g_print_lock + 1
  /\ UNCHANGED <<g_general_lock, STACKTRACE_THREAD_ID, shown, library, call>>

EndTraceAndCall(t) ==
  /\ Moves(t, "traced", "log_return")
  /\ g_print_lock' = g_print_lock + 1
  /\ STACKTRACE_THREAD_ID' = None
  /\ UNCHANGED <<g_general_lock, shown, library, call>>

(* stacktrace() resets the id at its end; sem_post(&g_print_lock). *)
EndTrace(t) ==
  /\ Moves(t, "traced", "orig")
  /\ g_print_lock' = g_print_lock + 1
  /\ STACKTRACE_THREAD_ID' = None
  /\ UNCHANGED <<g_general_lock, shown, library, call>>

-----------------------------------------------------------------------------
(* The original function and the RETURN line, which a bypass leaves out *)

Orig(t) ==
  /\ pc[t] \in {"orig", "bypass"}
  /\ Goto(t, IF pc[t] = "orig" THEN "log_return" ELSE "client")
  /\ Posix!Effect(t)
  /\ UNCHANGED <<locks, STACKTRACE_THREAD_ID, shown, call>>

OrigWait(t) ==
  /\ Moves(t, "orig", "sleeping")
  /\ Posix!FallAsleep(t)
  /\ UNCHANGED <<locks, STACKTRACE_THREAD_ID, shown, call>>

OrigWaitSpurious(t) ==
  /\ Posix!WakeSpuriously(t)
  /\ UNCHANGED <<locks, STACKTRACE_THREAD_ID, pc, shown, call>>

OrigWaitEnds(t) ==
  /\ Moves(t, "sleeping", "log_return")
  /\ Posix!Relock(t)
  /\ UNCHANGED <<locks, STACKTRACE_THREAD_ID, shown, call>>

(* By its RETURN line the thread has the mutex. *)
PrintReturn(t) ==
  /\ Moves(t, "log_return", "client")
  /\ g_print_lock > 0
  /\ shown' = IF call[t].op \in {"lock", "trylock", "wait"} /\ return_val[t] = 0
              THEN [shown EXCEPT ![call[t].mutex] = @ \cup {t}]
              ELSE shown
  /\ UNCHANGED <<locks, STACKTRACE_THREAD_ID, library, call>>

-----------------------------------------------------------------------------

Log(t) == PrintCall(t) \/ Unwind(t) \/ EndTrace(t) \/ PrintReturn(t)

Inside(t) ==
  \/ Check(t) \/ StoreMutex(t) \/ TakeGeneralLock(t) \/ Log(t)
  \/ Orig(t) \/ OrigWait(t) \/ OrigWaitEnds(t)

Next == \E t \in Threads : Call(t) \/ Inside(t) \/ OrigWaitSpurious(t)

Spec == Init /\ [][Next]_vars

-----------------------------------------------------------------------------
(* Properties *)

Labels ==
  {"client", "check", "bypass", "general", "again", "log_call", "trace", "nested",
   "self_wait", "traced", "orig", "sleeping", "log_return"}

TypeOK ==
  /\ g_print_lock \in {0, 1}
  /\ g_general_lock \in {0, 1}
  /\ STACKTRACE_THREAD_ID \in Threads \cup {None}
  /\ pc \in [Threads -> Labels]
  /\ shown \in [Mutexes -> SUBSET Threads]
  /\ owner \in [Mutexes -> Threads \cup {None}]
  /\ asleep \in [Threads -> Conds \cup {None}]
  /\ call \in [Threads -> Posix!AllCalls \cup {Posix!NoCall}]
  /\ return_val \in [Threads -> {0, Posix!EBUSY}]
  /\ \A t \in Threads : pc[t] # "client" => call[t] \in Posix!AllCalls

Printing(t) == pc[t] \in {"trace", "nested", "traced", "self_wait"}

(* A thread that prints a stack trace is never caught in its own wrappers: *)
(* nobody overwrites STACKTRACE_THREAD_ID while it unwinds, although the   *)
(* variable is read without a lock and stored by every thread.             *)
PrinterGetsPast == \A t \in Threads : pc[t] # "self_wait"

(* A call of the program itself never takes the way round the log that is  *)
(* meant for the unwinder, also not with an id left over from its own last *)
(* trace.                                                                  *)
EveryCallIsLogged == \A t \in Threads : pc[t] # "bypass"

(* The log tells no lies about mutual exclusion: whoever holds a mutex by  *)
(* the order of the lines really holds it, so that two critical sections   *)
(* of one mutex never overlap in the log, across waits included.           *)
LogShowsExclusion ==
  \A m \in Mutexes : \A t \in shown[m] : owner[m] = t

(* Log, stack traces and delays are invisible: what the program sees of    *)
(* its calls is what it would see of the C library.                        *)
ImplementsPosix == Posix!Spec

=============================================================================

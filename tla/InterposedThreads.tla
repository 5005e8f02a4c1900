--------------------------- MODULE InterposedThreads ---------------------------
(***************************************************************************)
(* The whole library with ALGORITHM=none or random: the wrappers of        *)
(* Interposer and the registration of ThreadNumbers, joined by             *)
(* pthread_create, the start routine around each thread and pthread_exit.  *)
(*                                                                         *)
(* The two share g_general_lock, g_print_lock and STACKTRACE_THREAD_ID:    *)
(* threads are created, started and ended through the same locks as their  *)
(* mutex calls go through, the one that trylock never gives back included. *)
(* While a thread searches g_thread_ids it has g_print_lock.               *)
(*                                                                         *)
(* Left out: the return of main(), which ends the process; what the        *)
(* sections of g_general_lock access here, which only PCT() reads; the     *)
(* THREAD EXITED line of the main thread, which has no number.             *)
(***************************************************************************)
EXTENDS Interposer

CONSTANTS
  Main,                        \* the thread that runs main()
  Tids, NoTid, MAX_THREADS,    \* see ThreadNumbers
  MaxCalls                     \* thread -> the calls it makes, at most

ASSUME MainAssumption == Main \in Threads
ASSUME MaxCallsAssumption == MaxCalls \in [Threads -> Nat]

(* What ThreadNumbers assumes of ids and of its table; "up to 64 threads"  *)
(* (testlib.c:70) counts the main thread.                                  *)
ASSUME NumbersAssumption ==
  /\ NoTid \notin Tids
  /\ MAX_THREADS \in Nat
  /\ IsFiniteSet(Threads) /\ Cardinality(Threads) <= MAX_THREADS

Created == Threads \ {Main}

VARIABLES
  g_thread_count, g_thread_ids, g_count_lock, tid, scanned, created_as, exited_as,
  place,                       \* created thread -> its pc in ThreadNumbers
  section,                     \* created thread -> the section of g_general_lock in
                               \* interpose_start_routine that it has to go through
  calls_left,                  \* thread -> calls its program may still make
  leaked                       \* history: a trylock took g_general_lock for good

Numbers == INSTANCE ThreadNumbers WITH Threads <- Created, pc <- place

numbers == <<g_thread_count, g_thread_ids, g_count_lock, tid, place, scanned, created_as,
             exited_as>>

allVars == <<vars, numbers, section, calls_left, leaked>>

ThreadsInit ==
  /\ Init
  /\ Numbers!Init
  /\ section = [t \in Created |-> "none"]
  /\ calls_left = MaxCalls
  /\ leaked = FALSE

-----------------------------------------------------------------------------

(* The thread executes code of the program. *)
InProgram(t) ==
  /\ pc[t] = "client"
  /\ t \in Created => place[t] = "client" /\ section[t] = "none"

MakeCall(t) ==
  /\ InProgram(t)
  /\ calls_left[t] > 0
  /\ Call(t)
  /\ calls_left' = [calls_left EXCEPT ![t] = @ - 1]
  /\ UNCHANGED <<numbers, section, leaked>>

(* The semaphore g_print_lock: a search takes it, too. *)
PrintLockFree == g_print_lock > 0 /\ \A u \in Created : ~ Numbers!Searching(u)

(* A step inside a wrapper.  The original pthread_create starts a thread,  *)
(* or fails, which the wrapper only prints.                                *)
Wrapper(t) ==
  /\ Inside(t)
  /\ pc[t] \in {"log_call", "log_return"} => PrintLockFree
  /\ \/ UNCHANGED <<numbers, section>>
     \/ /\ pc[t] = "orig" /\ call[t].op = "create"
        /\ \E u \in Created : /\ Numbers!Create(u)
                              /\ section' = [section EXCEPT ![u] = "args"]
  /\ leaked' = (leaked \/ pc[t] = "again")
  /\ UNCHANGED calls_left

WakeUp(t) == OrigWaitSpurious(t) /\ UNCHANGED <<numbers, section, calls_left, leaked>>

(* interpose_start_routine reads its arguments in one section and stores   *)
(* g_current_thread in another, before and after the start routine.        *)
EnterSection(t) ==
  /\ \/ /\ \E step \in {<<"args", "set">>, <<"return", "returned">>} :
            section[t] = step[1] /\ section' = [section EXCEPT ![t] = step[2]]
        /\ UNCHANGED numbers
     \/ /\ section[t] = "set" /\ section' = [section EXCEPT ![t] = "none"]
        /\ Numbers!Begin(t)
  /\ g_general_lock > 0
  /\ UNCHANGED <<vars, calls_left, leaked>>

Register(t) ==
  /\ Numbers!Count(t) \/ Numbers!StoreId(t)
  /\ UNCHANGED <<vars, section, calls_left, leaked>>

(* The search of a thread that was created, or has called pthread_exit,    *)
(* and the line it prints.                                                 *)
Announce(t) ==
  /\ PrintLockFree
  /\ Numbers!Announce(t)
  /\ UNCHANGED <<vars, section, calls_left, leaked>>

Search(t) ==
  /\ Numbers!PassEntry(t) \/ Numbers!PrintCreated(t) \/ Numbers!PrintExited(t)
  /\ UNCHANGED <<vars, section, calls_left, leaked>>

(* The start routine of the program returns. *)
Return(t) ==
  /\ InProgram(t)
  /\ section' = [section EXCEPT ![t] = "return"]
  /\ UNCHANGED <<vars, numbers, calls_left, leaked>>

PrintReturned(t) ==
  /\ section[t] = "returned"
  /\ PrintLockFree
  /\ Numbers!ExitByReturn(t)
  /\ UNCHANGED <<vars, section, calls_left, leaked>>

Exiting(t) == pc[t] = "orig" /\ call[t].op = "exit"

(* Variant: the section of g_general_lock that only PCT() needs is entered *)
(* with every algorithm.                                                   *)
ExitAfterSection(t) ==
  /\ Exiting(t)
  /\ PrintLockFree /\ g_general_lock > 0
  /\ Numbers!ExitByCall(t)
  /\ UNCHANGED <<vars, section, calls_left, leaked>>

(* pthread_exit prints another line before the original function, which    *)
(* does not return.                                                        *)
Exit(t) ==
  /\ Exiting(t)
  /\ PrintLockFree
  /\ Numbers!ExitByCall(t)
  /\ UNCHANGED <<vars, section, calls_left, leaked>>

Vanish(t) == Numbers!Vanish(t) /\ UNCHANGED <<vars, section, calls_left, leaked>>

-----------------------------------------------------------------------------

StartRoutine(t) ==
  EnterSection(t) \/ Register(t) \/ Announce(t) \/ Search(t) \/ PrintReturned(t)

Library(t) == Wrapper(t) \/ (t \in Created /\ (StartRoutine(t) \/ Exit(t)))

ThreadsNext ==
  \E t \in Threads :
    \/ MakeCall(t) \/ Library(t) \/ WakeUp(t)
    \/ t \in Created /\ (Return(t) \/ Vanish(t))

ThreadsSpec == ThreadsInit /\ [][ThreadsNext]_allVars

(* The kernel runs every thread that can run.  Weak fairness is enough for *)
(* the semaphores, as no program calls without end.                        *)
FairSpec == ThreadsSpec /\ \A t \in Threads : WF_allVars(Library(t))

-----------------------------------------------------------------------------
(* Properties *)

(* The wrappers compare kernel ids, and the kernel gives the id of a       *)
(* thread that is gone to another one.  The id in STACKTRACE_THREAD_ID is  *)
(* always that of a thread that has not printed THREAD EXITED, so a new    *)
(* thread is never taken for one that once printed a stack trace.          *)
IdOfLiveThread ==
  \A t \in Created : STACKTRACE_THREAD_ID = t => place[t] = "client"

(* A created thread is announced and its return is, whatever the others    *)
(* lock and print, unless some trylock has taken g_general_lock.           *)
ThreadsComeAndGo ==
  \A t \in Created :
    /\ section[t] = "args" ~> (created_as[t] # Numbers!Unset \/ leaked)
    /\ section[t] = "return" ~> (exited_as[t] # Numbers!Unset \/ leaked)

(* A thread that calls pthread_exit gets through even then.                *)
ExitsGetThrough ==
  \A t \in Created : call[t].op = "exit" ~> exited_as[t] # Numbers!Unset

=============================================================================

---------------------------- MODULE InterposerTests ----------------------------
(***************************************************************************)
(* Programs of skeleton/tests run with ALGORITHM=none or random.           *)
(*                                                                         *)
(* Every thread of Interposer follows the text of a test program.  main()  *)
(* only creates the threads and joins them, so the program has ended when  *)
(* they have; the threads start in any order, as none of these programs    *)
(* waits between its creations (sleep(0.1) is sleep(0)).                   *)
(***************************************************************************)
EXTENDS Interposer, Sequences

CONSTANTS
  t1, t2, t3,
  lock1, lock2,
  cond, wait_cond,
  Programs        \* the programs of an instance

ASSUME ProgramThreads == {t1, t2, t3} = Threads /\ t1 # t2 /\ t2 # t3 /\ t1 # t3
ASSUME ProgramMutexes == lock1 # lock2

VARIABLES
  program,        \* the program of this run: thread -> sequence of instructions
  ip,             \* thread -> index of its next instruction
  g_waiting_count \* the counter of pthread_cond_broadcast_test.c

allVars == <<vars, program, ip, g_waiting_count>>

lock(m) == <<"call", [op |-> "lock", mutex |-> m, cond |-> None]>>
unlock(m) == <<"call", [op |-> "unlock", mutex |-> m, cond |-> None]>>
trylock(m) == <<"call", [op |-> "trylock", mutex |-> m, cond |-> None]>>
wait(c, m) == <<"call", [op |-> "wait", mutex |-> m, cond |-> c]>>
signal(c) == <<"call", [op |-> "signal", mutex |-> None, cond |-> c]>>
broadcast(c) == <<"call", [op |-> "broadcast", mutex |-> None, cond |-> c]>>
count == <<"count">>
goto(test, to) == <<"goto", test, to>>

Program(a, b, c) == [t \in Threads |-> CASE t = t1 -> a [] t = t2 -> b [] t = t3 -> c]

(* THREAD_NUM, cut down from 10 to the two threads other than the dispatcher. *)
Waiters == 2

pthread_mutex_lock_unlock_test ==
  Program(<<lock(lock1), unlock(lock1)>>, <<lock(lock1), unlock(lock1)>>, <<>>)

pthread_cond_wait_signal_test ==
  Program(<<lock(lock1), wait(cond, lock1), unlock(lock1)>>,
          <<lock(lock1), signal(cond), unlock(lock1)>>, <<>>)

pthread_cond_broadcast_test ==
  LET waiter == <<lock(lock1), count, goto("some missing", 5), signal(wait_cond),
                  wait(cond, lock1), unlock(lock1)>>
  IN Program(waiter, waiter,
             <<lock(lock1), goto("all there", 5), wait(wait_cond, lock1), goto("always", 2),
               broadcast(cond), unlock(lock1)>>)

pthread_mutex_trylock_test ==
  Program(<<lock(lock1), lock(lock2), unlock(lock2), unlock(lock1)>>,
          <<lock(lock2), trylock(lock1), goto("busy", 7), unlock(lock1), unlock(lock2),
            goto("always", 9), unlock(lock2), goto("always", 1)>>, <<>>)

deadlock_buggy_test ==
  Program(<<lock(lock1), lock(lock2), unlock(lock1)>>,
          <<lock(lock2), lock(lock1), unlock(lock2)>>, <<>>)

-----------------------------------------------------------------------------

(* No other thread touches the counter without the mutex.                  *)
Holds(t, test) ==
  CASE test = "busy" -> return_val[t] # 0
    [] test = "all there" -> g_waiting_count >= Waiters
    [] test = "some missing" -> g_waiting_count # Waiters
    [] test = "always" -> TRUE

ProgramInit ==
  /\ Init
  /\ program \in Programs
  /\ ip = [t \in Threads |-> 1]
  /\ g_waiting_count = 0

(* Thread t executes the next instruction of its program. *)
Perform(t) ==
  LET next == program[t][ip[t]] IN
  /\ pc[t] = "client"
  /\ ip[t] \in DOMAIN program[t]
  /\ \/ /\ next[1] = "call"
        /\ Call(t) /\ call'[t] = next[2]
        /\ ip' = [ip EXCEPT ![t] = @ + 1]
        /\ UNCHANGED g_waiting_count
     \/ /\ next[1] = "count"
        /\ g_waiting_count' = g_waiting_count + 1
        /\ ip' = [ip EXCEPT ![t] = @ + 1]
        /\ UNCHANGED vars
     \/ /\ next[1] = "goto"
        /\ ip' = [ip EXCEPT ![t] = IF Holds(t, next[2]) THEN next[3] ELSE @ + 1]
        /\ UNCHANGED <<vars, g_waiting_count>>
  /\ UNCHANGED program

Step(t) == Perform(t) \/ (Inside(t) /\ UNCHANGED <<program, ip, g_waiting_count>>)

ProgramNext == \E t \in Threads : Step(t)

(* The kernel runs every thread that can run. *)
ProgramSpec ==
  ProgramInit /\ [][ProgramNext]_allVars /\ \A t \in Threads : WF_allVars(Step(t))

-----------------------------------------------------------------------------

Done(t) == pc[t] = "client" /\ ip[t] \notin DOMAIN program[t]

Ended == \A t \in Threads : Done(t)

(* The thread sleeps in the C library for want of a mutex or a signal. *)
BlockedByProgram(t) ==
  \/ pc[t] = "orig" /\ call[t].op = "lock" /\ owner[call[t].mutex] # None
  \/ pc[t] = "sleeping" /\ (asleep[t] # None \/ owner[call[t].mutex] # None)

(* Each test program ends, unless the program itself leaves its threads    *)
(* without a mutex or a signal: the locks of the library add no hang of    *)
(* their own, but for pthread_mutex_trylock.                               *)
EndsOrBlocksItself ==
  program # pthread_mutex_trylock_test =>
    <>(\A t \in Threads : Done(t) \/ BlockedByProgram(t))

(* "The program will hang if it fails" (pthread_cond_broadcast_test.c:70): *)
(* it never does, whichever thread is first.  pthread_cond_wait_signal_test*)
(* may hang, but only by a signal that comes before the wait: if the first *)
(* thread sleeps before the second calls signal, the program ends.         *)
NoSignalLost ==
  /\ program = pthread_cond_broadcast_test => <>Ended
  /\ (program = pthread_cond_wait_signal_test /\ asleep[t1] # None /\ ip[t2] < 3) ~> Ended

-----------------------------------------------------------------------------
(* What a test says of itself, and does not do                             *)

(* "This should prevent deadlock" (pthread_mutex_trylock_test.c:12), and   *)
(* coverage.txt lists the test as not buggy: its threads end.              *)
TestsEnd == <>Ended

=============================================================================

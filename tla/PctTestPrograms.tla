---------------------------- MODULE PctTestPrograms ----------------------------
(***************************************************************************)
(* Programs of skeleton/tests run under the PCT scheduler.                 *)
(*                                                                         *)
(* PctScheduler lets the program under test make any call at any time.     *)
(* Here every thread follows the text of a test program: the sequence of   *)
(* its pthread calls, in order.  pthread_join is not interposed, it waits  *)
(* in the C library for the end of the thread it names.                    *)
(*                                                                         *)
(* The programs are cut down to two created threads.                       *)
(***************************************************************************)
EXTENDS PctScheduler, Sequences

CONSTANTS
  t1, t2,      \* the created threads, in the order of their creation
  lock,        \* the mutex of pthread_mutex_lock_unlock_test.c
  Programs     \* the programs of an instance

ASSUME ProgramThreads == {t1, t2} \subseteq Threads \ {Main}

VARIABLES
  program,     \* the program of this run: thread -> sequence of its calls
  ip           \* thread -> index of its next call

allVars == <<vars, program, ip>>

call(name) == [name |-> name, arg |-> None]
create(t) == [name |-> "create", arg |-> t]
join(t) == [name |-> "join", arg |-> t]
acquire(m) == [name |-> "lock", arg |-> m]
release(m) == [name |-> "unlock", arg |-> m]

Program(main_calls, t1_calls, t2_calls) ==
  [t \in Threads |-> CASE t = Main -> main_calls [] t = t1 -> t1_calls [] t = t2 -> t2_calls]

(* Both threads are created, then both are joined. *)
CreateThenJoin == <<create(t1), create(t2), join(t1), join(t2), call("return")>>

(* The second thread is created after the first was joined. *)
JoinBetween == <<create(t1), join(t1), create(t2), join(t2), call("return")>>

pthread_yield_test ==
  Program(CreateThenJoin, <<call("yield"), call("exit")>>, <<call("exit")>>)

(* atomicity_buggy_test.c and pthread_create_buggy_test.c make the same calls. *)
pthread_create_test ==
  Program(CreateThenJoin, <<call("return")>>, <<call("return")>>)

(* order_test.c and atomicity_test.c make the same calls. *)
order_test ==
  Program(JoinBetween, <<call("exit")>>, <<call("exit")>>)

(* pthread_mutex_lock_unlock_buggy_test.c makes the same calls. *)
order_buggy_test ==
  Program(CreateThenJoin, <<call("exit")>>, <<call("exit")>>)

pthread_mutex_lock_unlock_test ==
  Program(CreateThenJoin, <<acquire(lock), release(lock), call("exit")>>,
                          <<acquire(lock), release(lock), call("exit")>>)

TestPrograms ==
  {pthread_yield_test, pthread_create_test, order_test, order_buggy_test,
   pthread_mutex_lock_unlock_test}

(* The instructions name mutexes and threads of the instance. *)
ASSUME ProgramsAssumption ==
  \A p \in Programs, t \in Threads :
    /\ DOMAIN p[t] \subseteq Nat \ {0}
    /\ \A k \in DOMAIN p[t] :
         /\ p[t][k].name = "lock" => p[t][k].arg \in Mutexes
         /\ p[t][k].name = "join" => p[t][k].arg \in Threads

(* Before it returns, main() joins every thread that locks a mutex. *)
ASSUME JoinsAssumption ==
  \A p \in Programs, t \in Threads \ {Main} :
    \A j \in DOMAIN p[Main], k \in DOMAIN p[t] :
      p[Main][j].name = "return" /\ p[t][k].name = "lock" =>
        \E i \in DOMAIN p[Main] : i < j /\ p[Main][i] = join(t)

-----------------------------------------------------------------------------

ProgramInit ==
  /\ Init
  /\ program \in Programs
  /\ ip = [t \in Threads |-> 1]

(* Thread t makes the call its program has next. *)
Perform(t) ==
  /\ ip[t] \in DOMAIN program[t]
  /\ LET next == program[t][ip[t]] IN
       \/ next.name = "create" /\ CallCreate(t)
       \/ next.name = "yield" /\ CallYield(t)
       \/ next.name = "exit" /\ CallExit(t)
       \/ next.name = "return" /\ CallReturn(t)
       \/ next.name = "lock" /\ CallLock(t, next.arg)
       \/ next.name = "join" /\ pc[t] = "client" /\ pc[next.arg] = "done" /\ UNCHANGED vars
  /\ ip' = [ip EXCEPT ![t] = @ + 1]
  /\ UNCHANGED program

(* Inside the library the only choice is which thread a creation starts:   *)
(* the one the program names.                                              *)
Continue(t) ==
  /\ Inside(t)
  /\ pc[t] = "create_spawn" => pc'[program[t][ip[t] - 1].arg] # "unborn"
  /\ UNCHANGED <<program, ip>>

Step(t) == Running /\ (Perform(t) \/ Continue(t))

ProgramNext == \E t \in Threads : Step(t)

(* Every thread that can take its next step takes it. *)
ProgramSpec ==
  ProgramInit /\ [][ProgramNext]_allVars /\ \A t \in Threads : WF_allVars(Step(t))

-----------------------------------------------------------------------------

Ended == pc[Main] = "returned"

(* The program reaches the end of main(), as pthread_yield_test.c (line 29)*)
(* and pthread_mutex_lock_unlock_test.c (line 11) say of themselves.       *)
Ends == <>Ended

(* The only way for a test program not to reach the end of main() is that  *)
(* a thread went to sleep inside the scheduler with the main lock taken    *)
(* (or that the scheduler indexed its tables with -1): no thread is left   *)
(* waiting at the entry of PCT(), in a join or for the general lock while  *)
(* the scheduler itself is still alive.                                    *)
EndsOrFreezes == <>(Ended \/ Frozen \/ fault)

=============================================================================

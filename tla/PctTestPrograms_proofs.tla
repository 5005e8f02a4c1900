------------------------ MODULE PctTestPrograms_proofs ------------------------
(***************************************************************************)
(* No program ends under PCT in which a thread begins with                 *)
(* pthread_mutex_lock and main() joins it, for every such program and      *)
(* every number of threads and slots.  A test program is one of the        *)
(* clients of PctScheduler, so what is proved there holds here.            *)
(***************************************************************************)
EXTENDS PctTestPrograms, PctScheduler_proofs

Locking == {"lock_set", "lock_enter", "lock_try", "lock_reenter"}

(* Where a thread is until it makes the first call of its program. *)
Starting ==
  {"unborn", "failed", "start_set", "start_enter", "start_tid", "start_addr", "start_wait",
   "client"}

(* The program counters tell what the threads did: a lock that was called  *)
(* has not returned, a join that was passed was for a thread that is done. *)
ProgramInv ==
  /\ PcType
  /\ program \in Programs
  /\ ip \in [Threads -> Nat]
  /\ \A t \in Threads : \A k \in DOMAIN program[t] :
       program[t][k].name = "lock" /\ k < ip[t] => pc[t] \in Locking
  /\ \A t \in Threads : 1 < ip[t] \/ pc[t] \in Starting
  /\ \A k \in DOMAIN program[Main] :
       program[Main][k].name = "join" /\ k < ip[Main] => pc[program[Main][k].arg] = "done"
  /\ pc[Main] = "returned" =>
       \E k \in DOMAIN program[Main] : k < ip[Main] /\ program[Main][k].name = "return"

-----------------------------------------------------------------------------
(* What a step does to the places of the threads *)

(* Other threads than the one that steps stay where they are, but for one  *)
(* that is created.                                                        *)
OthersStay(t) ==
  \A u \in Threads \ {t} :
    \/ pc'[u] = pc[u]
    \/ pc[u] = "unborn" /\ pc'[u] \in {"start_set", "failed"}

(* Inside the library a thread neither leaves pthread_mutex_lock nor gets  *)
(* to the end of main(), and it was not in its own code.                   *)
StaysInside(t) ==
  /\ pc[t] \notin {"client", "done", "returned"}
  /\ pc'[t] # "returned"
  /\ pc[t] \in Locking => pc'[t] \in Locking
  /\ pc[t] \in Starting => pc'[t] \in Starting

(* A step inside the library keeps a thread that locks where it is.        *)
LEMMA InsideStep ==
  ASSUME PcType, NEW t \in Threads, Inside(t)
  PROVE  OthersStay(t) /\ StaysInside(t)
<1> USE DEF PcType, Goto, OthersStay, StaysInside, Locking, Starting
<1>1. CASE PCT(t)
  BY <1>1 DEF PCT, FirstStep
<1>2. CASE PCT_DO_NOTHING(t)
  BY <1>2 DEF PCT_DO_NOTHING, AfterNothing
<1>3. CASE Create(t)
  <2>1. CASE Spawn(t)
    BY <2>1 DEF Spawn
  <2>2. CASE CountThread(t) \/ ReserveSlot(t) \/ MarkRunnable(t) \/ NumberThread(t)
               \/ ChooseAfterCreate(t) \/ PostAfterCreate(t)
    BY <2>2 DEF Moves, CountThread, ReserveSlot, MarkRunnable, NumberThread,
         ChooseAfterCreate, PostAfterCreate
  <2>3. QED
    BY <1>3, <2>1, <2>2 DEF Create
<1>4. CASE Start(t)
  BY <1>4 DEF Start, Moves, AnnounceStart, StoreThreadId, AddressStart, WaitSlot
<1>5. CASE Terminate(t)
  BY <1>5 DEF Terminate, Moves, AnnounceReturn, ReadExitNumber, MarkDead, Uncount,
       StopCurrent, ChooseNext, PostNext
<1>6. CASE Yield(t)
  BY <1>6 DEF Yield, Moves, CompareOther, FindOther, RememberOld, SwitchCurrent, PostYield
<1>7. CASE Mutex(t)
  BY <1>7 DEF Mutex, Moves, SetMutex, TryInsideLock, TrylockHandler, TakeGeneralLock,
       OrigTrylock
<1>8. CASE IndexOutOfBounds(t)
  BY <1>8 DEF IndexOutOfBounds, Indexes
<1>9. QED
  BY <1>1, <1>2, <1>3, <1>4, <1>5, <1>6, <1>7, <1>8 DEF Inside

(* A call of the program changes the place of its thread only, and main()  *)
(* returns by that call alone.                                             *)
LEMMA PerformStep ==
  ASSUME ProgramInv, NEW t \in Threads, Perform(t)
  PROVE  LET next == program[t][ip[t]] IN
         /\ PcType'
         /\ pc[t] = "client"
         /\ \A u \in Threads \ {t} : pc'[u] = pc[u]
         /\ next.name = "lock" => pc'[t] = "lock_set"
         /\ next.name = "join" => pc[next.arg] = "done" /\ pc' = pc
         /\ pc'[t] = "returned" => next.name = "return"
<1> DEFINE next == program[t][ip[t]]
<1>1. CASE next.name = "join" /\ pc[t] = "client" /\ pc[next.arg] = "done" /\ UNCHANGED vars
  BY <1>1 DEF ProgramInv, PcType, vars
<1>2. CASE next.name = "lock" /\ CallLock(t, next.arg)
  <2>1. next.arg \in Mutexes
    BY <1>2, ProgramsAssumption DEF ProgramInv, Perform
  <2>2. PcType'
    BY <1>2, <2>1, MainLockStep DEF ProgramInv, Client
  <2>3. QED
    BY <1>2, <2>2 DEF ProgramInv, PcType, CallLock, CallMutex, Moves, Goto
<1>3. CASE next.name = "create" /\ CallCreate(t)
  BY <1>3, MainLockStep DEF Client, ProgramInv, PcType, CallCreate, Moves, Goto
<1>4. CASE next.name = "yield" /\ CallYield(t)
  BY <1>4, MainLockStep DEF Client, ProgramInv, PcType, CallYield, Moves, Goto
<1>5. CASE next.name = "exit" /\ CallExit(t)
  BY <1>5, MainLockStep DEF Client, ProgramInv, PcType, CallExit, Moves, Goto
<1>6. CASE next.name = "return" /\ CallReturn(t)
  BY <1>6, MainLockStep DEF Client, ProgramInv, PcType, CallReturn, Moves, Goto
<1>7. QED
  BY <1>1, <1>2, <1>3, <1>4, <1>5, <1>6 DEF Perform

-----------------------------------------------------------------------------

LEMMA InitProgramInv == ProgramInit => ProgramInv
<1> SUFFICES ASSUME ProgramInit PROVE ProgramInv
  OBVIOUS
<1>1. PcType /\ pc[Main] # "returned"
  BY ThreadsAssumption DEF ProgramInit, Init, PcType, OutsideSteps, HandlerSteps
<1>2. program \in Programs /\ ip \in [Threads -> Nat] /\ \A t \in Threads : ip[t] = 1
  BY DEF ProgramInit
<1>3. \A t \in Threads : \A k \in DOMAIN program[t] : ~ (k < ip[t])
  BY <1>2, ProgramsAssumption
<1>4. \A t \in Threads : pc[t] \in Starting
  BY DEF ProgramInit, Init, Starting
<1>5. QED
  BY <1>1, <1>2, <1>3, <1>4, ThreadsAssumption DEF ProgramInv

(* A call of the program moves its index by one, and with it the thread.   *)
LEMMA PerformKeepsInv ==
  ASSUME ProgramInv, NEW t \in Threads, Perform(t)
  PROVE  ProgramInv'
<1> DEFINE next == program[t][ip[t]]
<1>1. /\ ip[t] \in DOMAIN program[t]
      /\ program' = program
      /\ ip' = [ip EXCEPT ![t] = @ + 1]
  BY DEF Perform
<1>2. /\ \A u \in Threads : DOMAIN program[u] \subseteq Nat
      /\ Main \in Threads
      /\ \A k \in DOMAIN program[Main] :
           program[Main][k].name = "join" => program[Main][k].arg \in Threads
  BY ProgramsAssumption, ThreadsAssumption DEF ProgramInv
<1>3. /\ PcType'
      /\ pc[t] = "client"
      /\ \A u \in Threads \ {t} : pc'[u] = pc[u]
      /\ next.name = "lock" => pc'[t] = "lock_set"
      /\ next.name = "join" => pc[next.arg] = "done" /\ pc' = pc
      /\ pc'[t] = "returned" => next.name = "return"
  BY PerformStep
<1>4. /\ ip' \in [Threads -> Nat]
      /\ ip'[t] = ip[t] + 1
      /\ \A u \in Threads \ {t} : ip'[u] = ip[u]
      /\ \A k \in Nat : k < ip'[t] <=> k < ip[t] \/ k = ip[t]
  BY <1>1 DEF ProgramInv
<1>5. ASSUME NEW u \in Threads, NEW k \in DOMAIN program[u],
             program[u][k].name = "lock", k < ip'[u]
      PROVE  pc'[u] \in Locking
  <2>1. CASE u = t
    <3>1. k = ip[t]
      BY <1>2, <1>3, <1>4, <1>5, <2>1 DEF ProgramInv, Locking
    <3>2. QED
      BY <1>3, <1>5, <2>1, <3>1 DEF Locking
  <2>2. CASE u # t
    BY <1>3, <1>4, <1>5, <2>2 DEF ProgramInv
  <2>3. QED
    BY <2>1, <2>2
<1>6. ASSUME NEW k \in DOMAIN program[Main],
             program[Main][k].name = "join", k < ip'[Main]
      PROVE  pc'[program[Main][k].arg] = "done"
  <2>1. CASE k < ip[Main]
    BY <1>2, <1>3, <1>6, <2>1 DEF ProgramInv
  <2>2. CASE ~ (k < ip[Main])
    <3>1. t = Main /\ k = ip[t]
      BY <1>2, <1>4, <1>6, <2>2
    <3>2. QED
      BY <1>3, <1>6, <3>1
  <2>3. QED
    BY <2>1, <2>2
<1>7. ASSUME pc'[Main] = "returned"
      PROVE  \E k \in DOMAIN program[Main] : k < ip'[Main] /\ program[Main][k].name = "return"
  <2>1. CASE t = Main
    BY <1>1, <1>2, <1>3, <1>4, <1>7, <2>1
  <2>2. CASE t # Main
    BY <1>2, <1>3, <1>4, <1>7, <2>2 DEF ProgramInv
  <2>3. QED
    BY <2>1, <2>2
<1>8. \A u \in Threads : 1 < ip'[u] \/ pc'[u] \in Starting
  BY <1>1, <1>3, <1>4, ProgramsAssumption DEF ProgramInv
<1>9. QED
  BY <1>1, <1>3, <1>4, <1>5, <1>6, <1>7, <1>8 DEF ProgramInv

(* A step inside the library changes no index, and moves no thread out of  *)
(* where ProgramInv has it.                                                *)
LEMMA ContinueKeepsInv ==
  ASSUME ProgramInv, NEW t \in Threads, Continue(t)
  PROVE  ProgramInv'
<1>1. program' = program /\ ip' = ip /\ Inside(t)
  BY DEF Continue
<1>2. PcType'
  BY <1>1, MainLockStep DEF ProgramInv
<1>3. OthersStay(t) /\ StaysInside(t)
  BY <1>1, InsideStep DEF ProgramInv
<1>4. \A u \in Threads :
        /\ pc[u] \in Locking => pc'[u] \in Locking
        /\ pc[u] \in Starting => pc'[u] \in Starting
        /\ pc[u] = "done" => pc'[u] = "done"
        /\ pc'[u] = "returned" => pc[u] = "returned"
  BY <1>3 DEF OthersStay, StaysInside, Locking, Starting
<1>5. QED
  BY <1>1, <1>2, <1>4, ProgramsAssumption, ThreadsAssumption DEF ProgramInv

LEMMA NextProgramInv == ProgramInv /\ [ProgramNext]_allVars => ProgramInv'
<1> SUFFICES ASSUME ProgramInv, [ProgramNext]_allVars PROVE ProgramInv'
  OBVIOUS
<1>1. CASE UNCHANGED allVars
  BY <1>1 DEF allVars, vars, ProgramInv, PcType
<1>2. ASSUME NEW t \in Threads, Step(t) PROVE ProgramInv'
  BY <1>2, PerformKeepsInv, ContinueKeepsInv DEF Step
<1>3. QED
  BY <1>1, <1>2 DEF ProgramNext

(* The first call of thread t is pthread_mutex_lock. *)
LocksFirst(t) == 1 \in DOMAIN program[t] /\ program[t][1].name = "lock"

(* A test program with a thread that begins with pthread_mutex_lock does   *)
(* not end in any run: the thread never returns from the call, and main(), *)
(* which joins it, waits for ever.                                         *)
THEOREM LockingTestsNeverEnd ==
  ProgramSpec /\ (\E t \in Threads : LocksFirst(t)) => ~ Ends
<1> DEFINE Locks == \E t \in Threads : LocksFirst(t)
<1>1. ProgramInv /\ Locks => ~ Ended
  <2> SUFFICES ASSUME ProgramInv, NEW t \in Threads, LocksFirst(t), Ended PROVE FALSE
    OBVIOUS
  <2>1. program \in Programs /\ \A u \in Threads : DOMAIN program[u] \subseteq Nat
    BY ProgramsAssumption DEF ProgramInv
  <2>2. t # Main /\ pc[t] = "done"
    <3>1. 1 < ip[t] => pc[t] \in Locking
      BY <2>1 DEF ProgramInv, LocksFirst
    <3>2. t # Main
      BY <3>1 DEF ProgramInv, Ended, Locking, Starting
    <3>3. PICK j \in DOMAIN program[Main] :
            j < ip[Main] /\ program[Main][j].name = "return"
      BY DEF Ended, ProgramInv
    <3>4. PICK i \in DOMAIN program[Main] : i < j /\ program[Main][i] = join(t)
      BY <2>1, <3>2, <3>3, JoinsAssumption DEF LocksFirst
    <3>5. program[Main][i].name = "join" /\ program[Main][i].arg = t /\ i < ip[Main]
      BY <2>1, <3>3, <3>4, ThreadsAssumption DEF join, ProgramInv
    <3>6. QED
      BY <3>2, <3>5 DEF ProgramInv
  <2>3. QED
    BY <2>1, <2>2 DEF ProgramInv, LocksFirst, Locking, Starting
<1>2. Locks /\ [ProgramNext]_allVars => Locks'
  BY DEF ProgramNext, Step, Perform, Continue, allVars, LocksFirst
<1>3. ProgramSpec /\ Locks => [](ProgramInv /\ Locks)
  <2> HIDE DEF Locks
  <2>1. QED
    BY InitProgramInv, NextProgramInv, <1>2, PTL DEF ProgramSpec
<1>4. QED
  <2> HIDE DEF Locks
  <2>1. ProgramSpec /\ Locks => ~ Ends
    BY <1>1, <1>3, PTL DEF Ends
  <2>2. QED
    BY <2>1 DEF Locks

-----------------------------------------------------------------------------
(* A run of a test program is a run of PctScheduler: its threads make      *)
(* calls that any program may make, so that what is proved there of every  *)
(* program holds of the test programs.                                     *)
THEOREM TestsRunTheScheduler == ProgramSpec => Spec
<1>1. ProgramInit => Init
  BY DEF ProgramInit
<1>2. ProgramInv /\ [ProgramNext]_allVars => [Next]_vars
  <2> SUFFICES ASSUME ProgramInv, ProgramNext PROVE [Next]_vars
    BY DEF allVars
  <2>1. PICK t \in Threads : Step(t)
    BY DEF ProgramNext
  <2>2. CASE Continue(t)
    BY <2>1, <2>2 DEF Continue, Step, Next, LibraryStep
  <2>3. CASE Perform(t)
    <3> DEFINE next == program[t][ip[t]]
    <3>1. next.name = "lock" => next.arg \in Mutexes
      BY <2>3, ProgramsAssumption DEF Perform, ProgramInv
    <3>2. Client(t) \/ UNCHANGED vars
      BY <2>3, <3>1 DEF Perform, Client
    <3>3. QED
      BY <2>1, <3>2 DEF Step, Next, ClientStep
  <2>4. QED
    BY <2>1, <2>2, <2>3 DEF Step
<1>3. QED
  BY InitProgramInv, NextProgramInv, <1>1, <1>2, PTL DEF ProgramSpec, Spec

(* In a test program, too, -1 is an index only after a race.               *)
COROLLARY FaultsOfTestsNeedDrift == ProgramSpec => FaultNeedsDrift
  BY TestsRunTheScheduler, FaultsNeedDrift

(* And the threads of a test program keep their slots and their handlers   *)
(* as long as nobody disturbs g_current_thread.                            *)
COROLLARY MixUpsOfTestsNeedRace == ProgramSpec => MixUpsNeedRace
  BY TestsRunTheScheduler, OnlyRacesMixUp

=============================================================================

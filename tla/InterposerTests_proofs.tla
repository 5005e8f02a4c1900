------------------------ MODULE InterposerTests_proofs ------------------------
(***************************************************************************)
(* The test programs run on Interposer: what is proved there of every      *)
(* program holds of them, and two of them never end, whatever else the     *)
(* instance has.                                                           *)
(***************************************************************************)
EXTENDS InterposerTests, Interposer_proofs

(* A step of a test program is a step of Interposer, or moves along the    *)
(* text without a call.                                                    *)
LEMMA ProgramStep == [ProgramNext]_allVars => [Next]_vars
<1>1. ASSUME NEW t \in Threads, Perform(t) PROVE [Next]_vars
  BY <1>1 DEF Perform, Next
<1>2. ASSUME NEW t \in Threads, Inside(t) PROVE [Next]_vars
  BY <1>2 DEF Next
<1>3. UNCHANGED allVars => UNCHANGED vars
  BY DEF allVars
<1>4. QED
  BY <1>1, <1>2, <1>3 DEF ProgramNext, Step

(* A run of a test program is a run of Interposer.                         *)
THEOREM TestsRunTheWrappers == ProgramSpec => Spec
<1>1. ProgramInit => Init
  BY DEF ProgramInit
<1>2. QED
  BY ProgramStep, <1>1, PTL DEF ProgramSpec, Spec

(* In a test program, too, two critical sections never overlap in the log. *)
COROLLARY LogsOfTestsAreTrue == ProgramSpec => []LogShowsExclusion
  BY TestsRunTheWrappers, LogIsTrue

(* What a test program sees of its calls it could see of the C library.    *)
COROLLARY TestsSeePosix == ProgramSpec => ImplementsPosix
  BY TestsRunTheWrappers, PosixImplemented

-----------------------------------------------------------------------------
(* One step of a thread inside a call that does not wait *)

(* The original function has had its effect. *)
After(t) == pc[t] \in {"log_return", "client"}

(* On the way to the original function: the mutexes stay as they are.      *)
Approaches(t) ==
  /\ pc[t] \notin {"orig", "log_return"}
  /\ pc'[t] \notin {"client", "log_return", "sleeping"}
  /\ owner' = owner

Acts(t) == pc[t] = "orig" /\ pc'[t] = "log_return" /\ Posix!Effect(t)

Leaves(t) == pc[t] = "log_return" /\ pc'[t] = "client" /\ owner' = owner

(* The call goes on its way, and no other thread moves.                    *)
Proceeds(t) ==
  /\ pc[t] # "client"
  /\ pc[t] = "check" => pc'[t] = "general"
  /\ pc[t] = "general" => g_general_lock > 0
  /\ call' = call
  /\ \A u \in Threads \ {t} : pc'[u] = pc[u]
  /\ Approaches(t) \/ Acts(t) \/ Leaves(t)

(* Every step inside a mutex call is of this kind: the call is logged, and *)
(* does not sleep.                                                         *)
LEMMA InsideProceeds ==
  ASSUME LockInv, LockInv', NEW t \in Threads, Inside(t), pc[t] # "sleeping",
         call[t].op \in {"lock", "trylock", "unlock"}
  PROVE  Proceeds(t)
<1> USE DEF LockInv, TypeOK, PrintInv, Moves, Goto, Proceeds, Approaches, Acts, Leaves, library
<1>1. CASE Check(t)
  <2>1. pc'[t] # "bypass"
    OBVIOUS
  <2>2. QED
    BY <1>1, <2>1 DEF Check
<1>2. CASE StoreMutex(t) \/ TakeGeneralLock(t)
  BY <1>2 DEF StoreMutex, TakeGeneralLock
<1>3. CASE PrintCall(t)
  BY <1>3 DEF PrintCall, AfterCallLine
<1>4. CASE Unwind(t)
  BY <1>4 DEF Unwind
<1>5. CASE EndTrace(t)
  BY <1>5 DEF EndTrace
<1>6. CASE PrintReturn(t)
  BY <1>6 DEF PrintReturn
<1>7. CASE Orig(t)
  BY <1>7 DEF Orig
<1>8. CASE OrigWait(t)
  BY <1>8 DEF OrigWait, Posix!FallAsleep, Posix!Does
<1>9. CASE OrigWaitEnds(t)
  BY <1>9 DEF OrigWaitEnds
<1>10. QED
  BY <1>1, <1>2, <1>3, <1>4, <1>5, <1>6, <1>7, <1>8, <1>9 DEF Inside, Log

(* A thread begins the call its text has next, and nothing else moves.     *)
Begins(t, c) ==
  /\ pc[t] = "client"
  /\ pc'[t] = FirstLabel(c.op)
  /\ call' = [call EXCEPT ![t] = c]
  /\ c \in Posix!AllCalls
  /\ ip' = [ip EXCEPT ![t] = @ + 1]
  /\ \A u \in Threads \ {t} : pc'[u] = pc[u]
  /\ owner' = owner

(* What a thread does when its text has a call next.                       *)
LEMMA PerformCall ==
  ASSUME TypeOK, NEW t \in Threads, NEW c, Perform(t), program[t][ip[t]] = <<"call", c>>
  PROVE  Begins(t, c)
<1>1. program[t][ip[t]][1] = "call" /\ program[t][ip[t]][2] = c
  OBVIOUS
<1>2. Call(t) /\ call'[t] = c /\ ip' = [ip EXCEPT ![t] = @ + 1]
  BY <1>1 DEF Perform
<1>3. PICK d \in Posix!AllCalls :
        /\ call' = [call EXCEPT ![t] = d]
        /\ Goto(t, FirstLabel(d.op))
  BY <1>2 DEF Call
<1>4. d = c
  BY <1>2, <1>3 DEF TypeOK
<1>5. QED
  BY <1>2, <1>3, <1>4 DEF Begins, Call, Goto, TypeOK, library

(* Where the calls of a mutex begin.                                       *)
LEMMA FirstLabelsOfMutexes ==
  /\ FirstLabel("lock") = "check" /\ FirstLabel("unlock") = "check"
  /\ FirstLabel("trylock") = "general"
<1>1. "lock" \in {"lock", "unlock"} /\ "unlock" \in {"lock", "unlock"}
  OBVIOUS
<1>2. QED
  BY <1>1, Zenon DEF FirstLabel

(* The call that an instruction makes.                                     *)
LEMMA CallOfText ==
  ASSUME NEW c, NEW m
  PROVE  /\ <<"call", c>> = lock(m) => c.op = "lock" /\ c.mutex = m
         /\ <<"call", c>> = trylock(m) => c.op = "trylock" /\ c.mutex = m
         /\ <<"call", c>> = unlock(m) => c.op = "unlock" /\ c.mutex = m
<1>1. ASSUME NEW d, <<"call", c>> = <<"call", d>> PROVE c = d
  BY <1>1
<1>2. <<"call", c>> = lock(m) => c.op = "lock" /\ c.mutex = m
  BY <1>1 DEF lock
<1>3. <<"call", c>> = trylock(m) => c.op = "trylock" /\ c.mutex = m
  BY <1>1 DEF trylock
<1>4. <<"call", c>> = unlock(m) => c.op = "unlock" /\ c.mutex = m
  BY <1>1 DEF unlock
<1>5. QED
  BY <1>2, <1>3, <1>4

-----------------------------------------------------------------------------
(* deadlock_buggy_test.c.  Each thread locks its own first mutex, then the *)
(* other's, and unlocks the first: it never gives back the second.         *)

First(t) == IF t = t1 THEN lock1 ELSE lock2
Second(t) == IF t = t1 THEN lock2 ELSE lock1

(* The text of both threads is the same but for the names, and no other    *)
(* thread has a text.                                                      *)
LEMMA DeadlockText ==
  /\ \A t \in {t1, t2} :
       deadlock_buggy_test[t] = <<lock(First(t)), lock(Second(t)), unlock(First(t))>>
  /\ \A t \in Threads \ {t1, t2} : deadlock_buggy_test[t] = <<>>
  BY ProgramThreads DEF deadlock_buggy_test, Program, First, Second

HasFirst(t) == (ip[t] = 2 /\ After(t)) \/ ip[t] = 3 \/ (ip[t] = 4 /\ ~ After(t))
HasSecond(t) == (ip[t] = 3 /\ After(t)) \/ ip[t] = 4

(* The place in the text tells which call a thread is in and which mutexes *)
(* it has; and the two threads never both get their second mutex.          *)
DeadlockInv ==
  /\ ip \in [Threads -> Nat]
  /\ \A t \in {t1, t2} :
       /\ ip[t] \in 1 .. 4
       /\ ip[t] = 1 => pc[t] = "client"
       /\ pc[t] # "client" => <<"call", call[t]>> = deadlock_buggy_test[t][ip[t] - 1]
       /\ pc[t] # "sleeping"
       /\ HasFirst(t) => owner[First(t)] = t
       /\ HasSecond(t) => owner[Second(t)] = t
  /\ \A t \in Threads \ {t1, t2} : pc[t] = "client"
  /\ ~ (HasSecond(t1) /\ HasSecond(t2))

(* A call changes neither who has what nor the mutexes.                    *)
LEMMA DeadlockPerform ==
  ASSUME TypeOK, program = deadlock_buggy_test, DeadlockInv, NEW t \in Threads, Perform(t)
  PROVE  DeadlockInv'
<1>1. t \in {t1, t2}
  BY DeadlockText DEF Perform
<1>2. ip[t] \in 1 .. 3 /\ pc[t] = "client"
  BY <1>1, DeadlockText DEF Perform
<1>3. PICK c : c.op \in {"lock", "unlock"} /\ <<"call", c>> = deadlock_buggy_test[t][ip[t]]
  BY <1>1, <1>2, DeadlockText DEF lock, unlock
<1>4. Begins(t, c)
  BY <1>3, PerformCall
<1>5. /\ pc'[t] = "check" /\ call'[t] = c /\ ip'[t] = ip[t] + 1
      /\ \A u \in Threads \ {t} : pc'[u] = pc[u] /\ call'[u] = call[u] /\ ip'[u] = ip[u]
      /\ ip' \in [Threads -> Nat]
      /\ owner' = owner
  BY <1>3, <1>4, FirstLabelsOfMutexes DEF Begins, TypeOK, DeadlockInv
<1>6. /\ HasFirst(t)' => HasFirst(t)
      /\ HasSecond(t)' => HasSecond(t)
      /\ \A u \in Threads \ {t} : /\ HasFirst(u)' <=> HasFirst(u)
                                  /\ HasSecond(u)' <=> HasSecond(u)
  BY <1>2, <1>5 DEF HasFirst, HasSecond, After
<1>7. t1 \in Threads /\ t2 \in Threads
  BY ProgramThreads
<1>8. ASSUME NEW u \in {t1, t2}
      PROVE  /\ ip'[u] \in 1 .. 4
             /\ ip'[u] = 1 => pc'[u] = "client"
             /\ pc'[u] # "client" => <<"call", call'[u]>> = deadlock_buggy_test[u][ip'[u] - 1]
             /\ pc'[u] # "sleeping"
  BY <1>2, <1>3, <1>5, <1>7 DEF DeadlockInv
<1>9. ASSUME NEW u \in {t1, t2}
      PROVE  /\ HasFirst(u)' => owner'[First(u)] = u
             /\ HasSecond(u)' => owner'[Second(u)] = u
  BY <1>5, <1>6, <1>7 DEF DeadlockInv
<1>10. \A u \in Threads \ {t1, t2} : pc'[u] = "client"
  BY <1>1, <1>5 DEF DeadlockInv
<1>11. ~ (HasSecond(t1)' /\ HasSecond(t2)')
  BY <1>6, <1>7 DEF DeadlockInv
<1>12. QED
  BY <1>5, <1>8, <1>9, <1>10, <1>11 DEF DeadlockInv

(* The call a thread is in, by its place in the text.                      *)
LEMMA DeadlockCall ==
  ASSUME DeadlockInv, NEW t \in {t1, t2}, pc[t] # "client"
  PROVE  \/ ip[t] = 2 /\ call[t].op = "lock" /\ call[t].mutex = First(t)
         \/ ip[t] = 3 /\ call[t].op = "lock" /\ call[t].mutex = Second(t)
         \/ ip[t] = 4 /\ call[t].op = "unlock" /\ call[t].mutex = First(t)
<1>1. ip[t] \in 2 .. 4 /\ <<"call", call[t]>> = deadlock_buggy_test[t][ip[t] - 1]
  BY DEF DeadlockInv
<1>2. deadlock_buggy_test[t] = <<lock(First(t)), lock(Second(t)), unlock(First(t))>>
  BY DeadlockText
<1>3. /\ ip[t] = 2 => <<"call", call[t]>> = lock(First(t))
      /\ ip[t] = 3 => <<"call", call[t]>> = lock(Second(t))
      /\ ip[t] = 4 => <<"call", call[t]>> = unlock(First(t))
  <2>1. ASSUME ip[t] = 2 PROVE <<"call", call[t]>> = lock(First(t))
    BY <1>1, <1>2, <2>1
  <2>2. ASSUME ip[t] = 3 PROVE <<"call", call[t]>> = lock(Second(t))
    BY <1>1, <1>2, <2>2
  <2>3. ASSUME ip[t] = 4 PROVE <<"call", call[t]>> = unlock(First(t))
    BY <1>1, <1>2, <2>3
  <2>4. QED
    BY <2>1, <2>2, <2>3
<1>4. ASSUME NEW m
      PROVE  /\ <<"call", call[t]>> = lock(m) => call[t].op = "lock" /\ call[t].mutex = m
             /\ <<"call", call[t]>> = unlock(m) => call[t].op = "unlock" /\ call[t].mutex = m
  BY CallOfText
<1>5. QED
  BY <1>1, <1>3, <1>4

(* Inside a call it is the original function that gives and takes: a       *)
(* second mutex is free only when the other thread has not got its own.    *)
LEMMA DeadlockInside ==
  ASSUME LockInv, LockInv', program = deadlock_buggy_test, DeadlockInv,
         NEW t \in Threads, Inside(t), UNCHANGED ip
  PROVE  DeadlockInv'
<1>1. pc[t] # "client"
  BY DEF Inside, Check, StoreMutex, TakeGeneralLock, Log, PrintCall, Unwind, EndTrace,
       PrintReturn, Orig, OrigWait, OrigWaitEnds, Moves
<1>2. t \in {t1, t2}
  BY <1>1 DEF DeadlockInv
<1>3. \/ ip[t] = 2 /\ call[t].op = "lock" /\ call[t].mutex = First(t)
      \/ ip[t] = 3 /\ call[t].op = "lock" /\ call[t].mutex = Second(t)
      \/ ip[t] = 4 /\ call[t].op = "unlock" /\ call[t].mutex = First(t)
  BY <1>1, <1>2, DeadlockCall
<1>4. Proceeds(t)
  BY <1>2, <1>3, InsideProceeds DEF DeadlockInv
<1>5. t1 \in Threads /\ t2 \in Threads /\ t1 # t2 /\ lock1 # lock2
  BY ProgramThreads, ProgramMutexes
<1> DEFINE o == IF t = t1 THEN t2 ELSE t1
<1>6. /\ o \in Threads \ {t} /\ {t1, t2} = {t, o}
      /\ First(o) = Second(t) /\ Second(o) = First(t) /\ First(t) # Second(t)
  BY <1>2, <1>5 DEF First, Second
<1> HIDE DEF o
<1>7. /\ \A u \in Threads \ {t} : /\ HasFirst(u)' <=> HasFirst(u)
                                  /\ HasSecond(u)' <=> HasSecond(u)
      /\ ~ Acts(t) => /\ HasFirst(t)' <=> HasFirst(t)
                      /\ HasSecond(t)' <=> HasSecond(t)
                      /\ owner' = owner
  BY <1>4 DEF Proceeds, Approaches, Leaves, HasFirst, HasSecond, After
<1>8. /\ \A u \in {t1, t2} : HasFirst(u)' => owner'[First(u)] = u
      /\ \A u \in {t1, t2} : HasSecond(u)' => owner'[Second(u)] = u
      /\ ~ (HasSecond(t1)' /\ HasSecond(t2)')
  <2>1. CASE ~ Acts(t)
    BY <1>2, <1>5, <1>7, <2>1 DEF DeadlockInv
  <2>2. CASE Acts(t) /\ call[t].op = "lock"
    <3>1. Posix!Lock(t)
      BY <2>2 DEF Acts, Posix!Effect, Posix!Trylock, Posix!Unlock, Posix!Signal,
           Posix!Broadcast, Posix!YieldOrCreate, Posix!Does
    <3>2. call[t].mutex \in Mutexes
      BY <1>1, <2>2, CallFields DEF LockInv, TypeOK
    <3>3. owner[call[t].mutex] = None /\ owner' = [owner EXCEPT ![call[t].mutex] = t]
      BY <3>1 DEF Posix!Lock
    <3>4. \A m : m # call[t].mutex => owner'[m] = owner[m]
      BY <3>3 DEF LockInv, TypeOK
    <3>5. owner'[call[t].mutex] = t
      BY <3>2, <3>3 DEF LockInv, TypeOK
    <3>6. CASE ip[t] = 2
      <4>1. call[t].mutex = First(t) /\ ~ HasSecond(t)'
        BY <1>3, <2>2, <3>6 DEF Acts, HasSecond, After
      <4>2. ~ HasSecond(o)
        BY <1>6, <3>3, <4>1, NoneAssumption DEF DeadlockInv
      <4>3. HasFirst(o) => owner'[First(o)] = o
        BY <1>6, <3>4, <4>1 DEF DeadlockInv
      <4>4. QED
        BY <1>6, <1>7, <3>5, <4>1, <4>2, <4>3
    <3>7. CASE ip[t] = 3
      <4>1. call[t].mutex = Second(t) /\ HasFirst(t)
        BY <1>3, <2>2, <3>7 DEF HasFirst
      <4>2. owner[First(t)] = t /\ owner'[First(t)] = t
        BY <1>6, <3>4, <4>1 DEF DeadlockInv
      <4>3. ~ HasFirst(o) /\ ~ HasSecond(o)
        BY <1>6, <3>3, <4>1, <4>2, NoneAssumption DEF DeadlockInv
      <4>4. QED
        BY <1>6, <1>7, <3>5, <4>1, <4>2, <4>3
    <3>8. QED
      BY <1>3, <2>2, <3>6, <3>7
  <2>3. CASE Acts(t) /\ call[t].op = "unlock"
    <3>1. Posix!Unlock(t)
      BY <2>3 DEF Acts, Posix!Effect, Posix!Trylock, Posix!Lock, Posix!Signal,
           Posix!Broadcast, Posix!YieldOrCreate, Posix!Does
    <3>2. owner' = [owner EXCEPT ![First(t)] = None] /\ ip[t] = 4
      BY <1>3, <2>3, <3>1 DEF Posix!Unlock
    <3>3. ~ HasFirst(t)' /\ HasFirst(t) /\ HasSecond(t)
      BY <2>3, <3>2 DEF Acts, HasFirst, HasSecond, After
    <3>4. QED
      BY <1>2, <1>5, <1>7, <3>2, <3>3 DEF DeadlockInv, LockInv, TypeOK, First, Second
  <2>4. QED
    BY <1>3, <2>1, <2>2, <2>3
<1>9. QED
  BY <1>1, <1>2, <1>4, <1>5, <1>8
  DEF DeadlockInv, Proceeds, Approaches, Acts, Leaves

LEMMA DeadlockInit == ProgramInit /\ program = deadlock_buggy_test => DeadlockInv
<1>1. t1 \in Threads /\ t2 \in Threads
  BY ProgramThreads
<1>2. QED
  BY <1>1 DEF ProgramInit, Init, DeadlockInv, HasFirst, HasSecond, After

LEMMA DeadlockStep ==
  ASSUME LockInv, LockInv', program = deadlock_buggy_test, DeadlockInv, [ProgramNext]_allVars
  PROVE  DeadlockInv'
<1>1. ASSUME NEW t \in Threads, Perform(t) PROVE DeadlockInv'
  BY <1>1, DeadlockPerform DEF LockInv
<1>2. ASSUME NEW t \in Threads, Inside(t), UNCHANGED ip PROVE DeadlockInv'
  BY <1>2, DeadlockInside
<1>3. CASE UNCHANGED allVars
  BY <1>3 DEF allVars, vars, library, DeadlockInv, HasFirst, HasSecond, After
<1>4. QED
  BY <1>1, <1>2, <1>3 DEF ProgramNext, Step

(* Both threads at their end would both have their second mutex.           *)
LEMMA DeadlockNeverEnds ==
  program = deadlock_buggy_test /\ DeadlockInv => ~ Ended
<1> SUFFICES ASSUME program = deadlock_buggy_test, DeadlockInv, Ended PROVE FALSE
  OBVIOUS
<1>1. t1 \in Threads /\ t2 \in Threads
  BY ProgramThreads
<1>2. ASSUME NEW t \in {t1, t2} PROVE ip[t] = 4
  <2>1. ip[t] \in 1 .. 4 /\ ip[t] \notin DOMAIN deadlock_buggy_test[t]
    BY <1>1 DEF DeadlockInv, Ended, Done
  <2>2. DOMAIN deadlock_buggy_test[t] = 1 .. 3
    BY DeadlockText
  <2>3. QED
    BY <2>1, <2>2
<1>3. QED
  BY <1>2 DEF DeadlockInv, HasSecond

-----------------------------------------------------------------------------
(* pthread_mutex_trylock_test.c.  The second thread calls trylock, which   *)
(* leaves the general lock taken, and can only go on to an unlock.         *)

trylockText == pthread_mutex_trylock_test[t2]

LEMMA TrylockText ==
  trylockText =
    <<lock(lock2), trylock(lock1), goto("busy", 7), unlock(lock1), unlock(lock2),
      goto("always", 9), unlock(lock2), goto("always", 1)>>
  BY ProgramThreads DEF trylockText, pthread_mutex_trylock_test, Program

(* Before the trylock returns the second thread comes and goes; after it   *)
(* the general lock is taken, and it never gets past the section of unlock.*)
TrylockTestInv ==
  /\ DOMAIN ip = Threads
  /\ ip[t2] \in {1, 2, 3, 4, 5, 7, 8}
  /\ ip[t2] \in {1, 4, 7} => pc[t2] = "client"
  /\ ip[t2] = 2 /\ pc[t2] # "client" => call[t2].op = "lock"
  /\ ip[t2] = 3 => call[t2].op = "trylock"
  /\ ip[t2] \in {4, 5, 7, 8} => g_general_lock = 0
  /\ ip[t2] \in {5, 8} => pc[t2] \in {"check", "general"} /\ call[t2].op = "unlock"
  /\ pc[t2] # "sleeping"

(* Nothing posts the general lock once it is taken for good.               *)
LEMMA GeneralLockStaysTaken ==
  [Next]_vars /\ g_general_lock = 0 => g_general_lock' = 0
<1> USE DEF locks
<1>1. ASSUME NEW t \in Threads, Call(t) PROVE UNCHANGED g_general_lock
  BY <1>1 DEF Call
<1>2. ASSUME NEW t \in Threads, Inside(t), g_general_lock = 0 PROVE UNCHANGED g_general_lock
  BY <1>2 DEF Inside, Check, StoreMutex, TakeGeneralLock, Log, PrintCall, Unwind, EndTrace,
       PrintReturn, Orig, OrigWait, OrigWaitEnds
<1>3. ASSUME NEW t \in Threads, OrigWaitSpurious(t) PROVE UNCHANGED g_general_lock
  BY <1>3 DEF OrigWaitSpurious
<1>4. UNCHANGED vars => UNCHANGED g_general_lock
  BY DEF vars
<1>5. QED
  BY <1>1, <1>2, <1>3, <1>4 DEF Next

(* The other threads leave the second one where it is.                     *)
LEMMA OthersStay ==
  ASSUME TypeOK, NEW t \in Threads \ {t2}, Call(t) \/ Inside(t)
  PROVE  pc'[t2] = pc[t2] /\ call'[t2] = call[t2]
<1> USE ProgramThreads DEF TypeOK, Goto, Moves
<1>1. CASE Call(t)
  BY <1>1 DEF Call
<1>2. CASE Inside(t)
  BY <1>2 DEF Inside, Check, StoreMutex, TakeGeneralLock, Log, PrintCall, Unwind, EndTrace,
       PrintReturn, Orig, OrigWait, OrigWaitEnds
<1>3. QED
  BY <1>1, <1>2

LEMMA TrylockOthers ==
  ASSUME LockInv, TrylockTestInv, [Next]_vars, NEW t \in Threads \ {t2}, Step(t)
  PROVE  TrylockTestInv'
<1>1. ip'[t2] = ip[t2] /\ DOMAIN ip' = Threads
  <2>1. CASE Perform(t)
    BY <2>1, ProgramThreads DEF Perform, TrylockTestInv
  <2>2. QED
    BY <2>1 DEF Step, TrylockTestInv
<1>2. pc'[t2] = pc[t2] /\ call'[t2] = call[t2]
  BY OthersStay DEF Step, Perform, LockInv, vars
<1>3. g_general_lock = 0 => g_general_lock' = 0
  BY GeneralLockStaysTaken
<1>4. QED
  BY <1>1, <1>2, <1>3 DEF TrylockTestInv

(* The second thread begins a call or goes on in its text.                 *)
LEMMA TrylockPerform ==
  ASSUME LockInv, TrylockInv, TrylockTestInv, [Next]_vars,
         program = pthread_mutex_trylock_test, Perform(t2)
  PROVE  TrylockTestInv'
<1>0. t2 \in Threads
  BY ProgramThreads
<1>1. pc[t2] = "client" /\ ip[t2] \in {1, 2, 3, 4, 7}
  BY DEF Perform, TrylockTestInv
<1>2. g_general_lock = 0 => g_general_lock' = 0
  BY GeneralLockStaysTaken
<1>3. program[t2] = trylockText
  BY DEF trylockText
<1>4. CASE ip[t2] \in {1, 2, 4, 7}
  <2>1. PICK c :
          /\ <<"call", c>> = trylockText[ip[t2]]
          /\ c.op = CASE ip[t2] = 1 -> "lock" [] ip[t2] = 2 -> "trylock" [] OTHER -> "unlock"
    BY <1>4, TrylockText DEF lock, trylock, unlock
  <2>2. Begins(t2, c)
    BY <1>0, <1>3, <2>1, PerformCall DEF LockInv
  <2>3. DOMAIN ip' = Threads /\ ip'[t2] = ip[t2] + 1
    BY <1>0, <2>2 DEF Begins, TrylockTestInv
  <2>4. call'[t2] = c
    BY <1>0, <2>2 DEF Begins, LockInv, TypeOK
  <2>5. pc'[t2] \in {"check", "general"}
    BY <1>4, <2>1, <2>2, FirstLabelsOfMutexes DEF Begins
  <2>6. QED
    BY <1>2, <1>4, <2>1, <2>3, <2>4, <2>5 DEF TrylockTestInv
<1>5. CASE ip[t2] = 3
  <2>1. trylockText[3] = <<"goto", "busy", 7>>
    BY TrylockText DEF goto
  <2>2. ip' = [ip EXCEPT ![t2] = IF Holds(t2, "busy") THEN 7 ELSE @ + 1] /\ UNCHANGED vars
    BY <1>3, <1>5, <2>1 DEF Perform
  <2>3. DOMAIN ip' = Threads /\ ip'[t2] \in {4, 7}
    BY <1>0, <1>5, <2>2 DEF TrylockTestInv
  <2>4. g_general_lock = 0
    BY <1>0, <1>1, <1>5 DEF TrylockTestInv, TrylockInv, PastTheLock
  <2>5. pc'[t2] = "client" /\ g_general_lock' = 0
    BY <1>1, <1>2, <2>2, <2>4 DEF vars
  <2>6. QED
    BY <2>3, <2>5 DEF TrylockTestInv
<1>6. QED
  BY <1>1, <1>4, <1>5

(* Inside the last unlock the section of the general lock stays shut.      *)
LEMMA TrylockInside ==
  ASSUME LockInv, LockInv', TrylockTestInv, [Next]_vars, Inside(t2), UNCHANGED ip
  PROVE  TrylockTestInv'
<1>0. t2 \in Threads
  BY ProgramThreads
<1>1. pc[t2] # "client"
  BY DEF Inside, Check, StoreMutex, TakeGeneralLock, Log, PrintCall, Unwind, EndTrace,
       PrintReturn, Orig, OrigWait, OrigWaitEnds, Moves
<1>2. call[t2].op \in {"lock", "trylock", "unlock"} /\ pc[t2] # "sleeping"
  BY <1>1 DEF TrylockTestInv
<1>3. Proceeds(t2)
  BY <1>0, <1>2, InsideProceeds
<1>4. g_general_lock = 0 => g_general_lock' = 0
  BY GeneralLockStaysTaken
<1>5. call'[t2] = call[t2] /\ pc'[t2] # "sleeping"
  BY <1>3 DEF Proceeds, Approaches, Acts, Leaves
<1>6. ip[t2] \in {5, 8} => pc'[t2] = "general"
  BY <1>3 DEF Proceeds, TrylockTestInv
<1>7. QED
  BY <1>1, <1>4, <1>5, <1>6 DEF TrylockTestInv

LEMMA TrylockTestInit == ProgramInit => TrylockTestInv
<1>1. t2 \in Threads
  BY ProgramThreads
<1>2. QED
  BY <1>1 DEF ProgramInit, Init, TrylockTestInv

LEMMA TrylockTestStep ==
  ASSUME LockInv, LockInv', TrylockInv, program = pthread_mutex_trylock_test,
         TrylockTestInv, [ProgramNext]_allVars
  PROVE  TrylockTestInv'
<1>1. [Next]_vars
  BY ProgramStep
<1>2. ASSUME NEW t \in Threads \ {t2}, Step(t) PROVE TrylockTestInv'
  BY <1>1, <1>2, TrylockOthers
<1>3. CASE Step(t2)
  BY <1>1, <1>3, TrylockPerform, TrylockInside DEF Step
<1>4. CASE UNCHANGED allVars
  BY <1>4 DEF allVars, vars, locks, TrylockTestInv
<1>5. QED
  BY <1>2, <1>3, <1>4 DEF ProgramNext

LEMMA TrylockNeverEnds ==
  program = pthread_mutex_trylock_test /\ TrylockTestInv => ~ Ended
<1>1. DOMAIN trylockText = 1 .. 8
  BY TrylockText
<1>2. t2 \in Threads
  BY ProgramThreads
<1>3. TrylockTestInv => ip[t2] \in 1 .. 8
  BY DEF TrylockTestInv
<1>4. QED
  BY <1>1, <1>2, <1>3 DEF Ended, Done, trylockText

-----------------------------------------------------------------------------

HangInv ==
  /\ LockInv
  /\ TrylockInv
  /\ program = deadlock_buggy_test => DeadlockInv
  /\ program = pthread_mutex_trylock_test => TrylockTestInv

LEMMA HangStep == HangInv /\ [ProgramNext]_allVars => HangInv'
<1> SUFFICES ASSUME HangInv, [ProgramNext]_allVars PROVE HangInv'
  OBVIOUS
<1>1. [Next]_vars
  BY ProgramStep
<1>2. LockInv' /\ TrylockInv'
  BY <1>1, NextLockInv, TrylockStep DEF HangInv, LockInv
<1>3. program' = program
  BY DEF ProgramNext, Step, Perform, allVars
<1>4. QED
  BY <1>2, <1>3, DeadlockStep, TrylockTestStep DEF HangInv

Hangs == program \in {deadlock_buggy_test, pthread_mutex_trylock_test}

(* deadlock_buggy_test and pthread_mutex_trylock_test end in no run.  The  *)
(* first: even if one thread is done before the other begins, it keeps the *)
(* mutex it locked second.  The other: whatever trylock returned, the      *)
(* unlock after it waits for g_general_lock, which trylock has kept.       *)
THEOREM SomeTestsHang == ProgramSpec /\ Hangs => ~ TestsEnd
<1>1. ProgramInit => HangInv
  BY InitLockInv, InitTrylockInv, DeadlockInit, TrylockTestInit DEF HangInv, ProgramInit
<1>2. HangInv /\ Hangs => ~ Ended
  BY DeadlockNeverEnds, TrylockNeverEnds DEF HangInv, Hangs
<1>3. Hangs /\ [ProgramNext]_allVars => Hangs'
  BY DEF ProgramNext, Step, Perform, allVars, Hangs, deadlock_buggy_test,
     pthread_mutex_trylock_test, Program, lock, unlock, trylock, goto
<1>4. QED
  BY <1>1, HangStep, <1>2, <1>3, PTL DEF ProgramSpec, TestsEnd

=============================================================================

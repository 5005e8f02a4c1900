--------------------------- MODULE Interposer_proofs ---------------------------
(***************************************************************************)
(* The safety properties of Interposer, and that it implements             *)
(* PosixThreads, for every number of threads, mutexes and conditions and   *)
(* every set of calls.                                                     *)
(*                                                                         *)
(* PrintInv is the heart: STACKTRACE_THREAD_ID names a thread exactly      *)
(* while that thread prints, and then the print lock is taken.             *)
(***************************************************************************)
EXTENDS Interposer, TLAPS

Acquires(op) == op \in {"lock", "trylock", "wait"}
Releases(op) == op \in {"unlock", "wait"}

(* The variable that is read without a lock says of every thread just      *)
(* whether it prints, and nobody is where only an unwinder that is not     *)
(* recognised, or a program that is taken for one, could get.              *)
PrintInv ==
  \A t \in Threads :
    /\ Printing(t) <=> STACKTRACE_THREAD_ID = t
    /\ Printing(t) => g_print_lock = 0
    /\ pc[t] \notin {"self_wait", "bypass"}

BeforeEffect == {"check", "general", "again", "log_call", "trace", "nested", "traced", "orig"}

(* What ownership and log have to do with each other, for each thread:     *)
(* who lets go of a mutex holds it until it does and is hidden in the log  *)
(* by then, and who got one holds it until the log says so.                *)
HoldInv ==
  \A t \in Threads :
    /\ Releases(call[t].op) /\ pc[t] \in BeforeEffect => owner[call[t].mutex] = t
    /\ Releases(call[t].op) /\ pc[t] \in {"trace", "nested", "traced", "orig"}
         => t \notin shown[call[t].mutex]
    /\ Acquires(call[t].op) /\ pc[t] = "log_return" /\ return_val[t] = 0
         => owner[call[t].mutex] = t
    /\ pc[t] = "sleeping" => call[t].op = "wait"

LockInv == TypeOK /\ PrintInv

IInv == LockInv /\ HoldInv /\ LogShowsExclusion

-----------------------------------------------------------------------------
(* Calls *)

(* The arguments a call has.                                               *)
LEMMA CallFields ==
  \A c \in Posix!AllCalls :
    /\ c.op \in {"lock", "trylock", "unlock", "wait", "signal", "broadcast", "yield",
                "create", "exit"}
    /\ c.op \in {"lock", "trylock", "unlock", "wait"} => c.mutex \in Mutexes
    /\ c.op \in {"wait", "signal", "broadcast"} => c.cond \in Conds
  BY OpsAssumption
  DEF Posix!AllCalls, Posix!MutexCalls, Posix!CondCalls, Posix!WaitCalls, Posix!PlainCalls

(* The original functions keep the types of the C library's variables.     *)
LEMMA LibraryType ==
  ASSUME TypeOK, NEW t \in Threads, pc[t] # "client",
         Posix!Effect(t) \/ Posix!FallAsleep(t) \/ Posix!Relock(t)
  PROVE  /\ owner' \in [Mutexes -> Threads \cup {None}]
         /\ asleep' \in [Threads -> Conds \cup {None}]
         /\ return_val' \in [Threads -> {0, Posix!EBUSY}]
<1> USE CallFields DEF TypeOK
<1>1. CASE Posix!Lock(t)
  BY <1>1 DEF Posix!Lock, Posix!Does
<1>2. CASE Posix!Trylock(t)
  BY <1>2 DEF Posix!Trylock, Posix!Does
<1>3. CASE Posix!Unlock(t)
  BY <1>3 DEF Posix!Unlock, Posix!Does
<1>4. CASE Posix!Signal(t)
  BY <1>4 DEF Posix!Signal, Posix!Does, Posix!Sleepers
<1>5. CASE Posix!Broadcast(t)
  BY <1>5 DEF Posix!Broadcast, Posix!Does
<1>6. CASE Posix!YieldOrCreate(t)
  BY <1>6 DEF Posix!YieldOrCreate
<1>7. CASE Posix!FallAsleep(t)
  BY <1>7 DEF Posix!FallAsleep, Posix!Does
<1>8. CASE Posix!Relock(t)
  BY <1>8 DEF Posix!Relock
<1>9. QED
  BY <1>1, <1>2, <1>3, <1>4, <1>5, <1>6, <1>7, <1>8 DEF Posix!Effect

LEMMA FirstLabels ==
  \A op : FirstLabel(op) \in {"check", "general", "log_call"}
<1> TAKE op
<1>1. CASE op \in {"lock", "unlock"}
  BY <1>1, Zenon DEF FirstLabel
<1>2. CASE op \in {"trylock", "create"}
  BY <1>2, Zenon DEF FirstLabel
<1>3. CASE op \notin {"lock", "unlock", "trylock", "create"}
  BY <1>3, Zenon DEF FirstLabel
<1>4. QED
  BY <1>1, <1>2, <1>3

-----------------------------------------------------------------------------
(* Types and the print lock *)

LEMMA InitLockInv == Init => LockInv
  BY NoneAssumption
  DEF Init, LockInv, TypeOK, PrintInv, Printing, Labels, Posix!Init

(* The print lock is posted only by a thread that prints, so it is binary. *)
LEMMA TypeStep ==
  ASSUME LockInv, [Next]_vars
  PROVE  TypeOK'
<1> USE DEF LockInv, TypeOK, Moves, Goto, locks, library, Labels
<1>1. ASSUME NEW t \in Threads, Call(t) PROVE TypeOK'
  BY <1>1, FirstLabels DEF Call
<1>2. ASSUME NEW t \in Threads, Check(t) PROVE TypeOK'
  BY <1>2 DEF Check
<1>3. ASSUME NEW t \in Threads, StoreMutex(t) PROVE TypeOK'
  BY <1>3 DEF StoreMutex
<1>4. ASSUME NEW t \in Threads, TakeGeneralLock(t) PROVE TypeOK'
  BY <1>4 DEF TakeGeneralLock
<1>5. ASSUME NEW t \in Threads, PrintCall(t) PROVE TypeOK'
  <2>1. shown' \in [Mutexes -> SUBSET Threads]
    BY <1>5 DEF PrintCall, HideHolder
  <2>2. pc' \in [Threads -> Labels] /\ call' = call
    BY <1>5 DEF PrintCall, AfterCallLine
  <2>3. g_print_lock' = 0 /\ STACKTRACE_THREAD_ID' = t /\ pc[t] # "client"
    BY <1>5 DEF PrintCall
  <2>4. \A u \in Threads \ {t} : pc'[u] = pc[u]
    BY <1>5 DEF PrintCall
  <2>5. QED
    BY <1>5, <2>1, <2>2, <2>3, <2>4 DEF PrintCall
<1>6. ASSUME NEW t \in Threads, Unwind(t) PROVE TypeOK'
  BY <1>6 DEF Unwind
<1>7. ASSUME NEW t \in Threads, EndTrace(t) PROVE TypeOK'
  BY <1>7 DEF EndTrace, PrintInv, Printing
<1>8. ASSUME NEW t \in Threads, PrintReturn(t) PROVE TypeOK'
  BY <1>8 DEF PrintReturn
<1>9. ASSUME NEW t \in Threads, Orig(t) \/ OrigWait(t) \/ OrigWaitEnds(t) PROVE TypeOK'
  <2>1. /\ owner' \in [Mutexes -> Threads \cup {None}]
        /\ asleep' \in [Threads -> Conds \cup {None}]
        /\ return_val' \in [Threads -> {0, Posix!EBUSY}]
    BY <1>9, LibraryType DEF Orig, OrigWait, OrigWaitEnds
  <2>2. QED
    BY <1>9, <2>1 DEF Orig, OrigWait, OrigWaitEnds
<1>10. ASSUME NEW t \in Threads, OrigWaitSpurious(t) PROVE TypeOK'
  BY <1>10 DEF OrigWaitSpurious, Posix!WakeSpuriously
<1>11. CASE UNCHANGED vars
  BY <1>11 DEF vars
<1>12. QED
  BY <1>1, <1>2, <1>3, <1>4, <1>5, <1>6, <1>7, <1>8, <1>9, <1>10, <1>11
  DEF Next, Inside, Log

(* A step of t moves nobody else, so that PrintInv has to be shown of t,   *)
(* and of the others as far as t changes the two variables.                *)
LEMMA PrintStep ==
  ASSUME LockInv, [Next]_vars
  PROVE  PrintInv'
<1> USE NoneAssumption DEF LockInv, TypeOK, PrintInv, Printing, Moves, Goto, locks
<1>1. ASSUME NEW t \in Threads, Call(t) PROVE PrintInv'
  BY <1>1, FirstLabels DEF Call
<1>2. ASSUME NEW t \in Threads, Check(t) PROVE PrintInv'
  BY <1>2 DEF Check
<1>3. ASSUME NEW t \in Threads, StoreMutex(t) PROVE PrintInv'
  BY <1>3 DEF StoreMutex
<1>4. ASSUME NEW t \in Threads, TakeGeneralLock(t) PROVE PrintInv'
  BY <1>4 DEF TakeGeneralLock
<1>5. ASSUME NEW t \in Threads, PrintCall(t) PROVE PrintInv'
  <2>1. \A u \in Threads : ~Printing(u) /\ STACKTRACE_THREAD_ID # u
    BY <1>5 DEF PrintCall
  <2>2. STACKTRACE_THREAD_ID' = t /\ g_print_lock' = 0 /\ Printing(t)'
    BY <1>5 DEF PrintCall, AfterCallLine
  <2>3. \A u \in Threads \ {t} : pc'[u] = pc[u]
    BY <1>5 DEF PrintCall
  <2>4. pc'[t] \in {"trace", "traced"}
    BY <1>5 DEF PrintCall, AfterCallLine
  <2>5. QED
    BY <2>1, <2>2, <2>3, <2>4
<1>6. ASSUME NEW t \in Threads, Unwind(t) PROVE PrintInv'
  BY <1>6 DEF Unwind
<1>7. ASSUME NEW t \in Threads, EndTrace(t) PROVE PrintInv'
  BY <1>7 DEF EndTrace
<1>8. ASSUME NEW t \in Threads, PrintReturn(t) PROVE PrintInv'
  BY <1>8 DEF PrintReturn
<1>9. ASSUME NEW t \in Threads, Orig(t) \/ OrigWait(t) \/ OrigWaitEnds(t) PROVE PrintInv'
  BY <1>9 DEF Orig, OrigWait, OrigWaitEnds
<1>10. ASSUME NEW t \in Threads, OrigWaitSpurious(t) PROVE PrintInv'
  BY <1>10 DEF OrigWaitSpurious
<1>11. CASE UNCHANGED vars
  BY <1>11 DEF vars
<1>12. QED
  BY <1>1, <1>2, <1>3, <1>4, <1>5, <1>6, <1>7, <1>8, <1>9, <1>10, <1>11
  DEF Next, Inside, Log

LEMMA NextLockInv == LockInv /\ [Next]_vars => LockInv'
  BY TypeStep, PrintStep DEF LockInv

(* Every variable keeps its type; in particular sem_post never lifts       *)
(* g_print_lock above 1, on any path through the wrappers.                 *)
THEOREM TypeCorrect == Spec => []TypeOK
<1>1. LockInv => TypeOK
  BY DEF LockInv
<1>2. QED
  BY InitLockInv, NextLockInv, <1>1, PTL DEF Spec

(* The thread that unwinds its stack gets past the wrappers of the mutex   *)
(* that libunwind locks.                                                   *)
THEOREM PrinterIsRecognised == Spec => []PrinterGetsPast
<1>1. LockInv => PrinterGetsPast
  BY DEF LockInv, PrintInv, PrinterGetsPast
<1>2. QED
  BY InitLockInv, NextLockInv, <1>1, PTL DEF Spec

(* A call of the program is never taken for one of the unwinder.           *)
THEOREM CallsAreLogged == Spec => []EveryCallIsLogged
<1>1. LockInv => EveryCallIsLogged
  BY DEF LockInv, PrintInv, EveryCallIsLogged
<1>2. QED
  BY InitLockInv, NextLockInv, <1>1, PTL DEF Spec

-----------------------------------------------------------------------------
(* Ownership and the log *)

(* The effect of a call of t on the mutexes: nothing is taken from another *)
(* thread; t loses only a mutex it lets go of; t has the mutex of a call   *)
(* that acquires one and returns 0.                                        *)
Handover(t) ==
  /\ \A m \in Mutexes, u \in Threads \ {t} : owner[m] = u => owner'[m] = u
  /\ \A m \in Mutexes :
       owner[m] = t /\ owner'[m] # t => Releases(call[t].op) /\ m = call[t].mutex

Acquired(t) ==
  Acquires(call[t].op) /\ return_val'[t] = 0 => owner'[call[t].mutex] = t

LEMMA EffectHandsOver ==
  ASSUME IInv, NEW t \in Threads, pc[t] = "orig", Posix!Effect(t)
  PROVE  Handover(t) /\ Acquired(t)
<1> USE NoneAssumption, CallFields
    DEF IInv, LockInv, TypeOK, HoldInv, BeforeEffect, Handover, Acquired, Acquires, Releases
<1>1. CASE Posix!Lock(t)
  BY <1>1 DEF Posix!Lock, Posix!Does
<1>2. CASE Posix!Trylock(t)
  BY <1>2 DEF Posix!Trylock, Posix!Does, Posix!EBUSY
<1>3. CASE Posix!Unlock(t)
  BY <1>3 DEF Posix!Unlock, Posix!Does
<1>4. CASE Posix!Signal(t)
  BY <1>4 DEF Posix!Signal, Posix!Does
<1>5. CASE Posix!Broadcast(t)
  BY <1>5 DEF Posix!Broadcast, Posix!Does
<1>6. CASE Posix!YieldOrCreate(t)
  BY <1>6 DEF Posix!YieldOrCreate, Posix!Does
<1>7. QED
  BY <1>1, <1>2, <1>3, <1>4, <1>5, <1>6 DEF Posix!Effect

LEMMA WaitHandsOver ==
  ASSUME IInv, NEW t \in Threads,
         \/ pc[t] = "orig" /\ Posix!FallAsleep(t)
         \/ pc[t] = "sleeping" /\ Posix!Relock(t)
  PROVE  Handover(t) /\ (pc[t] = "sleeping" => Acquired(t))
<1> USE NoneAssumption, CallFields
    DEF IInv, LockInv, TypeOK, HoldInv, BeforeEffect, Handover, Acquired, Acquires, Releases
<1>1. CASE pc[t] = "orig" /\ Posix!FallAsleep(t)
  BY <1>1 DEF Posix!FallAsleep, Posix!Does
<1>2. CASE pc[t] = "sleeping" /\ Posix!Relock(t)
  BY <1>2 DEF Posix!Relock
<1>3. QED
  BY <1>1, <1>2

LEMMA HoldStep ==
  ASSUME IInv, [Next]_vars, LockInv'
  PROVE  HoldInv' /\ LogShowsExclusion'
<1> USE NoneAssumption, CallFields
    DEF IInv, LockInv, TypeOK, HoldInv, LogShowsExclusion, BeforeEffect, Acquires, Releases,
        Moves, Goto, library
<1>1. ASSUME NEW t \in Threads, Call(t) PROVE HoldInv' /\ LogShowsExclusion'
  BY <1>1, FirstLabels DEF Call, Posix!MayCall
<1>2. ASSUME NEW t \in Threads, Check(t) PROVE HoldInv' /\ LogShowsExclusion'
  BY <1>2 DEF Check
<1>3. ASSUME NEW t \in Threads, StoreMutex(t) PROVE HoldInv' /\ LogShowsExclusion'
  BY <1>3 DEF StoreMutex
<1>4. ASSUME NEW t \in Threads, TakeGeneralLock(t) PROVE HoldInv' /\ LogShowsExclusion'
  BY <1>4 DEF TakeGeneralLock
<1>5. ASSUME NEW t \in Threads, PrintCall(t) PROVE HoldInv' /\ LogShowsExclusion'
  <2>1. \A m \in Mutexes : shown'[m] \subseteq shown[m]
    BY <1>5 DEF PrintCall, HideHolder
  <2>2. Releases(call[t].op) => t \notin shown'[call[t].mutex]
    BY <1>5 DEF PrintCall, HideHolder
  <2>3. /\ \A u \in Threads \ {t} : pc'[u] = pc[u]
        /\ pc'[t] \in {"trace", "traced"} /\ pc[t] = "log_call"
        /\ UNCHANGED <<owner, return_val, call>>
    BY <1>5 DEF PrintCall, AfterCallLine
  <2>4. HoldInv'
    BY <2>1, <2>2, <2>3
  <2>5. LogShowsExclusion'
    BY <2>1, <2>3
  <2>6. QED
    BY <2>4, <2>5
<1>6. ASSUME NEW t \in Threads, Unwind(t) PROVE HoldInv' /\ LogShowsExclusion'
  BY <1>6 DEF Unwind
<1>7. ASSUME NEW t \in Threads, EndTrace(t) PROVE HoldInv' /\ LogShowsExclusion'
  BY <1>7 DEF EndTrace
<1>8. ASSUME NEW t \in Threads, PrintReturn(t) PROVE HoldInv' /\ LogShowsExclusion'
  <2>1. /\ \A m \in Mutexes : shown'[m] \subseteq shown[m] \cup {t}
        /\ \A m \in Mutexes : t \in shown'[m] => t \in shown[m] \/ owner[m] = t
    BY <1>8 DEF PrintReturn
  <2>2. /\ \A u \in Threads \ {t} : pc'[u] = pc[u]
        /\ pc'[t] = "client"
        /\ UNCHANGED <<owner, return_val, call>>
    BY <1>8 DEF PrintReturn
  <2>3. HoldInv'
    BY <2>1, <2>2
  <2>4. LogShowsExclusion'
    BY <2>1, <2>2
  <2>5. QED
    BY <2>3, <2>4
<1>9. ASSUME NEW t \in Threads, Orig(t) \/ OrigWait(t) \/ OrigWaitEnds(t)
      PROVE  HoldInv' /\ LogShowsExclusion'
  <2>1. /\ pc[t] \in {"orig", "sleeping"}
        /\ pc'[t] \in {"log_return", "sleeping"}
        /\ pc'[t] = "sleeping" => call[t].op = "wait"
        /\ \A u \in Threads \ {t} : pc'[u] = pc[u] /\ return_val'[u] = return_val[u]
        /\ UNCHANGED <<shown, call>>
    <3>1. \A u \in Threads \ {t} : return_val'[u] = return_val[u]
      BY <1>9
      DEF Orig, OrigWait, OrigWaitEnds, Posix!FallAsleep, Posix!Relock, Posix!Effect,
          Posix!Lock, Posix!Trylock, Posix!Unlock, Posix!Signal, Posix!Broadcast, Posix!YieldOrCreate
    <3>2. QED
      BY <1>9, <3>1 DEF Orig, OrigWait, OrigWaitEnds, PrintInv, Posix!FallAsleep, Posix!Does
  <2>2. Handover(t)
    BY <1>9, <2>1, EffectHandsOver, WaitHandsOver DEF Orig, OrigWait, OrigWaitEnds
  <2>3. pc'[t] = "log_return" => Acquired(t)
    BY <1>9, <2>1, EffectHandsOver, WaitHandsOver DEF Orig, OrigWait, OrigWaitEnds
  <2>4. HoldInv'
    BY <2>1, <2>2, <2>3 DEF Handover, Acquired
  <2>5. LogShowsExclusion'
    <3> SUFFICES ASSUME NEW m \in Mutexes, NEW u \in shown[m] PROVE owner'[m] = u
      BY <2>1
    <3>1. CASE u # t
      BY <2>2, <3>1 DEF Handover
    <3>2. CASE u = t
      <4>1. pc[t] = "orig" => owner'[m] = t
        BY <2>2, <3>2 DEF Handover
      <4>2. pc[t] = "sleeping" => owner'[m] = t
        BY <1>9, <3>2 DEF Orig, OrigWait, OrigWaitEnds, Posix!Relock
      <4>3. QED
        BY <2>1, <3>2, <4>1, <4>2
    <3>3. QED
      BY <3>1, <3>2
  <2>6. QED
    BY <2>4, <2>5
<1>10. ASSUME NEW t \in Threads, OrigWaitSpurious(t) PROVE HoldInv' /\ LogShowsExclusion'
  BY <1>10 DEF OrigWaitSpurious, Posix!WakeSpuriously
<1>11. CASE UNCHANGED vars
  BY <1>11 DEF vars
<1>12. QED
  BY <1>1, <1>2, <1>3, <1>4, <1>5, <1>6, <1>7, <1>8, <1>9, <1>10, <1>11
  DEF Next, Inside, Log

LEMMA InitIInv == Init => IInv
  BY InitLockInv DEF Init, IInv, HoldInv, LogShowsExclusion, BeforeEffect

LEMMA NextIInv == IInv /\ [Next]_vars => IInv'
  BY NextLockInv, HoldStep DEF IInv

(* Whoever holds a mutex by the log really holds it.                       *)
THEOREM LogIsTrue == Spec => []LogShowsExclusion
<1>1. IInv => LogShowsExclusion
  BY DEF IInv
<1>2. QED
  BY InitIInv, NextIInv, <1>1, PTL DEF Spec

-----------------------------------------------------------------------------
(* The general lock *)

PastTheLock(t) == call[t].op = "trylock" /\ pc[t] \notin {"general", "again"}

(* A thread whose trylock gets as far as its CALL line leaves              *)
(* g_general_lock taken for good.                                          *)
TrylockInv == \A t \in Threads : PastTheLock(t) => g_general_lock = 0

LEMMA InitTrylockInv == Init => TrylockInv
  BY DEF Init, TrylockInv, PastTheLock, Posix!Init, Posix!NoCall

LEMMA TrylockStep == TypeOK /\ TrylockInv /\ [Next]_vars => TrylockInv'
<1> SUFFICES ASSUME TypeOK, TrylockInv, [Next]_vars PROVE TrylockInv'
  OBVIOUS
<1> USE DEF TypeOK, TrylockInv, PastTheLock, Moves, Goto, locks
<1>1. ASSUME NEW t \in Threads, Call(t) PROVE TrylockInv'
  <2>1. FirstLabel("trylock") = "general"
    BY Zenon DEF FirstLabel
  <2>2. call'[t].op = "trylock" => pc'[t] = "general"
    BY <1>1, <2>1 DEF Call
  <2>3. \A u \in Threads \ {t} : pc'[u] = pc[u] /\ call'[u] = call[u]
    BY <1>1 DEF Call
  <2>4. g_general_lock' = g_general_lock
    BY <1>1 DEF Call
  <2>5. QED
    BY <2>2, <2>3, <2>4
<1>2. ASSUME NEW t \in Threads, Check(t) PROVE TrylockInv'
  BY <1>2 DEF Check
<1>3. ASSUME NEW t \in Threads, StoreMutex(t) PROVE TrylockInv'
  BY <1>3 DEF StoreMutex
<1>4. ASSUME NEW t \in Threads, TakeGeneralLock(t) PROVE TrylockInv'
  BY <1>4 DEF TakeGeneralLock
<1>5. ASSUME NEW t \in Threads, Log(t) PROVE TrylockInv'
  BY <1>5 DEF Log, PrintCall, AfterCallLine, Unwind, EndTrace, PrintReturn
<1>6. ASSUME NEW t \in Threads, Orig(t) \/ OrigWait(t) \/ OrigWaitEnds(t) PROVE TrylockInv'
  BY <1>6 DEF Orig, OrigWait, OrigWaitEnds
<1>7. ASSUME NEW t \in Threads, OrigWaitSpurious(t) PROVE TrylockInv'
  BY <1>7 DEF OrigWaitSpurious
<1>8. CASE UNCHANGED vars
  BY <1>8 DEF vars
<1>9. QED
  BY <1>1, <1>2, <1>3, <1>4, <1>5, <1>6, <1>7, <1>8 DEF Next, Inside

-----------------------------------------------------------------------------
(* The refinement *)

(* What each label looks like from outside.                                *)
LEMMA Phases ==
  /\ Phase("client") = "idle"
  /\ Phase("sleeping") = "sleeping"
  /\ Phase("log_return") = "done"
  /\ \A label \in Labels \ {"client", "sleeping", "log_return"} : Phase(label) = "called"
<1>1. Phase("client") = "idle" /\ Phase("sleeping") = "sleeping" /\ Phase("log_return") = "done"
  BY Zenon DEF Phase
<1>2. \A label : label \notin {"client", "sleeping", "log_return"} => Phase(label) = "called"
  BY Zenon DEF Phase
<1>3. QED
  BY <1>1, <1>2

phase == [t \in Threads |-> Phase(pc[t])]

(* A move between two labels turns the phase of the thread.                *)
LEMMA PhaseMoves ==
  ASSUME TypeOK, NEW t \in Threads, NEW label, Goto(t, label)
  PROVE  phase' = [phase EXCEPT ![t] = Phase(label)]
<1>1. ASSUME NEW u \in Threads
      PROVE  Phase(pc'[u]) = [phase EXCEPT ![t] = Phase(label)][u]
  <2>1. pc'[u] = IF u = t THEN label ELSE pc[u]
    BY DEF Goto, TypeOK
  <2>2. CASE u = t
    BY <2>1, <2>2 DEF phase
  <2>3. CASE u # t
    BY <2>1, <2>3 DEF phase
  <2>4. QED
    BY <2>2, <2>3
<1>2. QED
  BY <1>1, Zenon DEF phase

LEMMA StepRefines ==
  ASSUME LockInv, [Next]_vars
  PROVE  [Posix!Next]_<<<<owner, asleep, return_val>>, call, phase>>
<1> DEFINE abstract == <<<<owner, asleep, return_val>>, call, phase>>
<1> USE DEF LockInv, TypeOK
<1>1. ASSUME NEW t \in Threads, NEW from \in Labels, NEW to \in Labels, Moves(t, from, to),
             Phase(from) = Phase(to)
      PROVE  phase' = phase
  <2>1. phase' = [phase EXCEPT ![t] = Phase(to)]
    BY <1>1, PhaseMoves DEF Moves
  <2>2. phase[t] = Phase(to)
    BY <1>1 DEF Moves, phase
  <2>3. QED
    BY <2>1, <2>2 DEF phase
<1>2. ASSUME NEW t \in Threads, Call(t) PROVE Posix!Next
  <2>1. PICK c \in Posix!AllCalls :
          /\ Posix!MayCall(t, c)
          /\ call' = [call EXCEPT ![t] = c]
          /\ Goto(t, FirstLabel(c.op))
    BY <1>2 DEF Call
  <2>2. Phase(FirstLabel(c.op)) = "called"
    BY FirstLabels, Phases DEF Labels
  <2>3. phase' = [phase EXCEPT ![t] = "called"] /\ phase[t] = "idle"
    <3>1. phase' = [phase EXCEPT ![t] = "called"]
      BY <2>1, <2>2, PhaseMoves
    <3>2. phase[t] = "idle"
      BY <1>2, Phases DEF Call, phase
    <3>3. QED
      BY <3>1, <3>2
  <2>4. Posix!Begin(t)
    BY <1>2, <2>1, <2>3 DEF Call, Posix!Begin, Posix!Turns, Posix!library, library, phase
  <2>5. QED
    BY <2>4 DEF Posix!Next
<1>3. ASSUME NEW t \in Threads,
             Check(t) \/ StoreMutex(t) \/ TakeGeneralLock(t) \/ PrintCall(t) \/ Unwind(t)
               \/ EndTrace(t)
      PROVE  UNCHANGED abstract
  <2>1. PICK from \in Labels \ {"client", "sleeping", "log_return"},
             to \in Labels \ {"client", "sleeping", "log_return"} : Moves(t, from, to)
    BY <1>3
    DEF Check, StoreMutex, TakeGeneralLock, PrintCall, Unwind, EndTrace, AfterCallLine, Labels
  <2>2. Phase(from) = Phase(to)
    BY Phases
  <2>3. UNCHANGED <<owner, asleep, return_val, call>>
    BY <1>3 DEF Check, StoreMutex, TakeGeneralLock, PrintCall, Unwind, EndTrace, library
  <2>4. QED
    BY <1>1, <2>1, <2>2, <2>3
<1>4. ASSUME NEW t \in Threads, PrintReturn(t) PROVE Posix!Next
  <2>1. phase' = [phase EXCEPT ![t] = "idle"] /\ phase[t] = "done"
    BY <1>4, PhaseMoves, Phases DEF PrintReturn, Moves, phase
  <2>2. Posix!End(t)
    BY <1>4, <2>1 DEF PrintReturn, Posix!End, Posix!Turns, Posix!library, library, phase
  <2>3. QED
    BY <2>2 DEF Posix!Next
<1>5. ASSUME NEW t \in Threads, Orig(t) PROVE Posix!Next
  <2>1. pc[t] = "orig" /\ Goto(t, "log_return")
    BY <1>5 DEF Orig, PrintInv
  <2>2. phase' = [phase EXCEPT ![t] = "done"] /\ phase[t] = "called"
    BY <2>1, PhaseMoves, Phases DEF Labels, phase
  <2>3. Posix!Do(t)
    BY <1>5, <2>2 DEF Orig, Posix!Do, Posix!Turns, phase
  <2>4. QED
    BY <2>3 DEF Posix!Next
<1>6. ASSUME NEW t \in Threads, OrigWait(t) PROVE Posix!Next
  <2>1. phase' = [phase EXCEPT ![t] = "sleeping"] /\ phase[t] = "called"
    <3>1. phase' = [phase EXCEPT ![t] = "sleeping"]
      BY <1>6, PhaseMoves, Phases DEF OrigWait, Moves
    <3>2. phase[t] = "called"
      BY <1>6, Phases DEF OrigWait, Moves, Labels, phase
    <3>3. QED
      BY <3>1, <3>2
  <2>2. Posix!Sleep(t)
    BY <1>6, <2>1 DEF OrigWait, Posix!Sleep, Posix!Turns, phase
  <2>3. QED
    BY <2>2 DEF Posix!Next
<1>7. ASSUME NEW t \in Threads, OrigWaitEnds(t) PROVE Posix!Next
  <2>1. phase' = [phase EXCEPT ![t] = "done"] /\ phase[t] = "sleeping"
    <3>1. pc[t] = "sleeping" /\ Goto(t, "log_return")
      BY <1>7 DEF OrigWaitEnds, Moves
    <3>2. phase' = [phase EXCEPT ![t] = "done"]
      BY <3>1, PhaseMoves, Phases
    <3>3. phase[t] = "sleeping"
      BY <3>1, Phases DEF phase
    <3>4. QED
      BY <3>2, <3>3
  <2>2. Posix!Resume(t)
    BY <1>7, <2>1 DEF OrigWaitEnds, Posix!Resume, Posix!Turns, phase
  <2>3. QED
    BY <2>2 DEF Posix!Next
<1>8. ASSUME NEW t \in Threads, OrigWaitSpurious(t) PROVE Posix!Next
  <2>1. Posix!Wake(t)
    BY <1>8 DEF OrigWaitSpurious, Posix!Wake
  <2>2. QED
    BY <2>1 DEF Posix!Next
<1>9. CASE UNCHANGED vars
  BY <1>9 DEF vars, library, phase
<1>10. QED
  BY <1>2, <1>3, <1>4, <1>5, <1>6, <1>7, <1>8, <1>9 DEF Next, Inside, Log

(* Whatever the locks, the log and the stack traces do in between, the     *)
(* program sees the C library.                                             *)
THEOREM PosixImplemented == Spec => ImplementsPosix
<1>1. Init => Posix!Init
  <2>1. Init => phase = [t \in Threads |-> "idle"]
    BY Phases DEF Init, phase
  <2>2. QED
    BY <2>1 DEF Init, Posix!Init, phase
<1>2. LockInv /\ [Next]_vars => [Posix!Next]_Posix!vars
  BY StepRefines DEF Posix!vars, Posix!library, phase
<1>3. QED
  BY InitLockInv, NextLockInv, <1>1, <1>2, PTL DEF Spec, ImplementsPosix, Posix!Spec

=============================================================================

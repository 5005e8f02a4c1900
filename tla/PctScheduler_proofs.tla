------------------------- MODULE PctScheduler_proofs -------------------------
(***************************************************************************)
(* The safety properties of PctScheduler, for every number of threads,     *)
(* slots and mutexes, every set of calls and every priority table.         *)
(*                                                                         *)
(* IInv is the invariant the rest is built on: types, and the exclusion of *)
(* the handlers.  It is proved from the three things a step may do to the  *)
(* main lock.  GeneralInv adds what the leaked g_general_lock implies;     *)
(* KeepsOut says what a handler can rely on while it runs, and gives both  *)
(* the permanence of a freeze and the choice of the next thread.  SlotInv  *)
(* holds while slots and counter are in step and bounds the index; OwnInv  *)
(* holds while nobody disturbs g_current_thread and gives every thread its *)
(* own slot.                                                               *)
(***************************************************************************)
EXTENDS PctScheduler, TLAPS, FiniteSetTheorems, WellFoundedInduction

(* Of finitely many slots one has the highest priority, so that a search   *)
(* returns a member of the set it was given, or NoSlot for the empty set.  *)
LEMMA BestExists ==
  ASSUME NEW p \in [Slots -> Nat], NEW S \in SUBSET Slots, S # {}
  PROVE  \E s \in S : \A r \in S : p[r] <= p[s]
<1> DEFINE Above(s) == {r \in S : p[r] > p[s]}
<1> DEFINE T == {Above(s) : s \in S}
<1>1. IsFiniteSet(Slots)
  BY SlotsAssumption, FS_Interval DEF Slots
<1>2. T \subseteq FiniteSubsetsOf(Slots)
  <2> SUFFICES ASSUME NEW s \in S PROVE Above(s) \in FiniteSubsetsOf(Slots)
    OBVIOUS
  <2>1. Above(s) \subseteq Slots
    OBVIOUS
  <2>2. IsFiniteSet(Above(s))
    BY <1>1, <2>1, FS_Subset
  <2>3. QED
    BY <2>1, <2>2 DEF FiniteSubsetsOf
<1>3. PICK U \in T : \A V \in T : <<V, U>> \notin StrictSubsetOrdering(Slots)
  <2>1. T # {}
    OBVIOUS
  <2>2. IsWellFoundedOn(StrictSubsetOrdering(Slots), FiniteSubsetsOf(Slots))
    BY FS_StrictSubsetOrderingWellFounded
  <2>3. QED
    BY <1>2, <2>1, <2>2, WFMin
<1>4. PICK s \in S : U = Above(s)
  OBVIOUS
<1>5. ASSUME NEW r \in S, p[r] > p[s] PROVE FALSE
  <2>1. Above(r) \subseteq Above(s) /\ Above(r) # Above(s)
    BY <1>5
  <2>2. Above(r) \in SUBSET Slots /\ Above(s) \in SUBSET Slots
    OBVIOUS
  <2>3. <<Above(r), Above(s)>> \in StrictSubsetOrdering(Slots)
    BY <2>1, <2>2 DEF StrictSubsetOrdering
  <2>4. QED
    BY <1>3, <1>4, <2>3
<1>6. QED
  BY <1>5

(* What a search of testlib.c returns: a slot of the set it searches, or   *)
(* -1.                                                                     *)
LEMMA BestType ==
  ASSUME priorities \in [Slots -> Nat], NEW S \in SUBSET Slots
  PROVE  Best(S) \in S \cup {NoSlot}
  BY BestExists DEF Best

-----------------------------------------------------------------------------
(* The main lock.  A step does one of three things to it: it leaves it     *)
(* alone and nobody enters or leaves a handler; a thread outside PCT()     *)
(* takes it and is in a handler; a thread in a handler posts it and is     *)
(* outside.                                                                *)

Holders == {u \in Threads : InHandler(u)}

KeepsMainLock ==
  Holders' = Holders /\ g_PCT_main_lock' = g_PCT_main_lock

TakesMainLock(t) ==
  /\ t \notin Holders
  /\ g_PCT_main_lock > 0
  /\ g_PCT_main_lock' = g_PCT_main_lock - 1
  /\ Holders' = Holders \cup {t}

PostsMainLock(t) ==
  /\ t \in Holders
  /\ g_PCT_main_lock' = g_PCT_main_lock + 1
  /\ Holders' = Holders \ {t}

PcType == pc \in [Threads -> HandlerSteps \cup OutsideSteps]

(* PCT() takes a thread from outside the handlers into one.                *)
LEMMA FirstSteps ==
  /\ DOMAIN FirstStep \cap HandlerSteps = {}
  /\ \A label \in DOMAIN FirstStep : FirstStep[label] \in HandlerSteps
  BY DEF FirstStep, HandlerSteps

(* PCT(PCT_DO_NOTHING) takes a thread from outside to outside.             *)
LEMMA StepsAfterNothing ==
  /\ DOMAIN AfterNothing \cap HandlerSteps = {}
  /\ \A label \in DOMAIN AfterNothing : AfterNothing[label] \in OutsideSteps
  BY DEF AfterNothing, HandlerSteps, OutsideSteps

(* No label is inside a handler and outside.                               *)
LEMMA StepsDisjoint == HandlerSteps \cap OutsideSteps = {}
  BY DEF HandlerSteps, OutsideSteps

(* Going on inside a handler leaves the set of threads in handlers alone.  *)
LEMMA MovesInside ==
  ASSUME PcType, NEW t \in Threads,
         NEW from \in HandlerSteps, NEW to \in HandlerSteps, Moves(t, from, to)
  PROVE  PcType' /\ t \in Holders /\ Holders' = Holders
  BY DEF PcType, Moves, Goto, Holders, InHandler

(* So does going on outside.                                               *)
LEMMA MovesOutside ==
  ASSUME PcType, NEW t \in Threads,
         NEW from \in OutsideSteps, NEW to \in OutsideSteps, Moves(t, from, to)
  PROVE  PcType' /\ Holders' = Holders
  BY StepsDisjoint DEF PcType, Moves, Goto, Holders, InHandler

(* The return from a handler takes just that thread out of the set.        *)
LEMMA MovesOut ==
  ASSUME PcType, NEW t \in Threads,
         NEW from \in HandlerSteps, NEW to \in OutsideSteps, Moves(t, from, to)
  PROVE  PcType' /\ t \in Holders /\ Holders' = Holders \ {t}
  BY StepsDisjoint DEF PcType, Moves, Goto, Holders, InHandler

(* Every step of the program or the library does one of the three things.  *)
LEMMA MainLockStep ==
  ASSUME PcType, NEW t \in Threads, Client(t) \/ Inside(t)
  PROVE  /\ PcType'
         /\ KeepsMainLock \/ TakesMainLock(t) \/ PostsMainLock(t)
<1>1. CASE ReserveSlot(t)
  BY <1>1, MovesInside DEF ReserveSlot, HandlerSteps, KeepsMainLock, locks
<1>2. CASE MarkRunnable(t)
  BY <1>2, MovesInside DEF MarkRunnable, HandlerSteps, KeepsMainLock, locks
<1>3. CASE StoreThreadId(t)
  BY <1>3, MovesInside DEF StoreThreadId, HandlerSteps, KeepsMainLock, locks
<1>4. CASE AddressStart(t)
  BY <1>4, MovesInside DEF AddressStart, HandlerSteps, KeepsMainLock, locks
<1>5. CASE ChooseAfterCreate(t)
  BY <1>5, MovesInside DEF ChooseAfterCreate, HandlerSteps, KeepsMainLock, locks
<1>6. CASE MarkDead(t)
  BY <1>6, MovesInside DEF MarkDead, HandlerSteps, KeepsMainLock, locks
<1>7. CASE Uncount(t)
  BY <1>7, MovesInside DEF Uncount, HandlerSteps, KeepsMainLock, locks
<1>8. CASE StopCurrent(t)
  BY <1>8, MovesInside DEF StopCurrent, HandlerSteps, KeepsMainLock, locks
<1>9. CASE ChooseNext(t)
  BY <1>9, MovesInside DEF ChooseNext, HandlerSteps, KeepsMainLock, locks
<1>10. CASE RememberOld(t)
  BY <1>10, MovesInside DEF RememberOld, HandlerSteps, KeepsMainLock, locks
<1>11. CASE SwitchCurrent(t)
  BY <1>11, MovesInside DEF SwitchCurrent, HandlerSteps, KeepsMainLock, locks
<1>12. CASE PostYield(t)
  BY <1>12, MovesInside DEF PostYield, HandlerSteps, KeepsMainLock, locks
<1>13. CASE TryInsideLock(t)
  BY <1>13, MovesInside DEF TryInsideLock, HandlerSteps, KeepsMainLock, GeneralSection,
       locks
<1>14. CASE NumberThread(t)
  BY <1>14, MovesOut DEF NumberThread, PostMainLock, HandlerSteps, OutsideSteps,
       PostsMainLock
<1>15. CASE PostAfterCreate(t)
  BY <1>15, MovesOut DEF PostAfterCreate, PostMainLock, HandlerSteps, OutsideSteps,
       PostsMainLock
<1>16. CASE PostNext(t)
  BY <1>16, MovesOut DEF PostNext, PostMainLock, HandlerSteps, OutsideSteps, PostsMainLock
<1>17. CASE CallCreate(t)
  BY <1>17, MovesOutside DEF CallCreate, OutsideSteps, KeepsMainLock, locks
<1>18. CASE CountThread(t)
  BY <1>18, MovesOutside DEF CountThread, OutsideSteps, KeepsMainLock, locks, GeneralSection
<1>19. CASE AnnounceStart(t)
  BY <1>19, MovesOutside DEF AnnounceStart, OutsideSteps, KeepsMainLock, locks,
       GeneralSection
<1>20. CASE CallReturn(t)
  BY <1>20, MovesOutside DEF CallReturn, OutsideSteps, KeepsMainLock, locks
<1>21. CASE AnnounceReturn(t)
  BY <1>21, MovesOutside DEF AnnounceReturn, OutsideSteps, KeepsMainLock, locks,
       GeneralSection
<1>22. CASE CallExit(t)
  BY <1>22, MovesOutside DEF CallExit, OutsideSteps, KeepsMainLock, locks
<1>23. CASE ReadExitNumber(t)
  BY <1>23, MovesOutside DEF ReadExitNumber, OutsideSteps, KeepsMainLock, locks,
       GeneralSection
<1>24. CASE CallYield(t)
  BY <1>24, MovesOutside DEF CallYield, OutsideSteps, KeepsMainLock, locks
<1>25. CASE SetMutex(t)
  BY <1>25, MovesOutside DEF SetMutex, OutsideSteps, KeepsMainLock, locks, GeneralSection
<1>26. CASE TrylockHandler(t)
  BY <1>26, MovesOutside DEF TrylockHandler, OutsideSteps, KeepsMainLock, locks
<1>27. CASE TakeGeneralLock(t)
  BY <1>27, MovesOutside DEF TakeGeneralLock, OutsideSteps, KeepsMainLock, locks
<1>28. CASE OrigTrylock(t)
  BY <1>28, MovesOutside DEF OrigTrylock, OutsideSteps, KeepsMainLock, locks
<1>29. CASE \E m \in Mutexes : CallLock(t, m) \/ CallTrylock(t, m) \/ CallUnlock(t, m)
  BY <1>29, MovesOutside
  DEF CallLock, CallTrylock, CallUnlock, CallMutex, OutsideSteps, KeepsMainLock, locks
<1>30. CASE PCT(t)
  <2>1. PcType'
    BY <1>30, FirstSteps DEF PCT, PcType, Goto
  <2>2. t \notin Holders /\ Holders' = Holders \cup {t}
    BY <1>30, FirstSteps DEF PCT, PcType, Goto, Holders, InHandler
  <2>3. QED
    BY <1>30, <2>1, <2>2 DEF PCT, TakesMainLock
<1>31. CASE PCT_DO_NOTHING(t)
  <2>1. PcType'
    BY <1>31, StepsAfterNothing DEF PCT_DO_NOTHING, PcType, Goto
  <2>2. Holders' = Holders
    BY <1>31, StepsAfterNothing, StepsDisjoint DEF PCT_DO_NOTHING, PcType, Goto, Holders,
         InHandler
  <2>3. QED
    BY <1>31, <2>1, <2>2 DEF PCT_DO_NOTHING, KeepsMainLock, locks
<1>32. CASE Spawn(t)
  <2>1. PICK u \in Threads :
          /\ pc[u] = "unborn"
          /\ \/ pc' = [pc EXCEPT ![t] = "after_enter", ![u] = "start_set"]
             \/ pc' = [pc EXCEPT ![t] = "after_enter", ![u] = "failed"]
    BY <1>32 DEF Spawn
  <2>2. PcType' /\ Holders' = Holders
    BY <1>32, <2>1 DEF Spawn, PcType, Holders, InHandler, HandlerSteps, OutsideSteps
  <2>3. QED
    BY <1>32, <2>2 DEF Spawn, GeneralSection, KeepsMainLock, locks
<1>33. CASE WaitSlot(t)
  <2>1. PcType' /\ t \in Holders /\ Holders' = Holders \ {t}
    BY <1>33 DEF WaitSlot, PcType, Goto, Holders, InHandler, HandlerSteps, OutsideSteps
  <2>2. QED
    BY <1>33, <2>1 DEF WaitSlot, PostMainLock, PostsMainLock
<1>34. CASE FindOther(t)
  <2>1. CASE Goto(t, "client") /\ PostMainLock
    BY <1>34, <2>1, MovesOut DEF FindOther, Moves, PostMainLock, HandlerSteps,
         OutsideSteps, PostsMainLock
  <2>2. CASE Goto(t, "yield_old") /\ UNCHANGED g_PCT_main_lock
    BY <1>34, <2>2, MovesInside DEF FindOther, Moves, HandlerSteps, KeepsMainLock
  <2>3. QED
    BY <1>34, <2>1, <2>2 DEF FindOther
<1>35. CASE CompareOther(t) \/ IndexOutOfBounds(t)
  BY <1>35 DEF CompareOther, IndexOutOfBounds, PcType, Holders, InHandler, KeepsMainLock,
       locks
<1>36. QED
  BY <1>1, <1>2, <1>3, <1>4, <1>5, <1>6, <1>7, <1>8, <1>9, <1>10, <1>11, <1>12, <1>13,
       <1>14, <1>15, <1>16, <1>17, <1>18, <1>19, <1>20, <1>21, <1>22, <1>23, <1>24, <1>25,
       <1>26, <1>27, <1>28, <1>29, <1>30, <1>31, <1>32, <1>33, <1>34, <1>35
  DEF Client, Inside, Create, Start, Terminate, Yield, Mutex

(* Each of the three keeps the lock binary and its holder unique.          *)
LEMMA ExclusiveStep ==
  ASSUME TypeOK, MainLockExclusive, NEW t \in Threads,
         KeepsMainLock \/ TakesMainLock(t) \/ PostsMainLock(t)
  PROVE  MainLockExclusive' /\ g_PCT_main_lock' \in {0, 1}
<1>1. CASE KeepsMainLock
  BY <1>1 DEF KeepsMainLock, MainLockExclusive, Holders, TypeOK
<1>2. CASE TakesMainLock(t)
  <2>1. Holders = {} /\ Holders' = {t} /\ g_PCT_main_lock' = 0
    BY <1>2 DEF TakesMainLock, MainLockExclusive, Holders, TypeOK
  <2>2. QED
    BY <2>1 DEF MainLockExclusive, Holders
<1>3. CASE PostsMainLock(t)
  <2>1. Holders = {t} /\ Holders' = {} /\ g_PCT_main_lock' = 1
    BY <1>3 DEF PostsMainLock, MainLockExclusive, Holders, TypeOK
  <2>2. QED
    BY <2>1 DEF MainLockExclusive, Holders
<1>4. QED
  BY <1>1, <1>2, <1>3

-----------------------------------------------------------------------------
(* Types.  The main lock is a binary semaphore only because its holder is  *)
(* unique, so that TypeOK and MainLockExclusive are proved together.       *)

IInv == TypeOK /\ MainLockExclusive

(* The state the constructor leaves behind satisfies the invariant.        *)
LEMMA InitIInv == Init => IInv
<1> SUFFICES ASSUME Init PROVE IInv
  OBVIOUS
<1>1. TypeOK
  <2>1. 0 \in Slots
    BY SlotsAssumption DEF Slots
  <2>2. g_threads \in [Slots -> [state : {"DEAD", "RUNNABLE"},
                                thread_id : Threads \cup {None}, thread_number : Int]]
    BY ThreadsAssumption DEF Init
  <2>3. pc \in [Threads -> HandlerSteps \cup OutsideSteps]
    BY DEF Init, OutsideSteps
  <2>4. g_semaphores \in [Slots -> Nat]
    BY DEF Init
  <2>5. /\ g_runnable_threads \in Int
        /\ g_current_thread \in Slots \cup {NoSlot}
        /\ g_thread_count \in Nat
        /\ g_PCT_main_lock \in {0, 1}
        /\ g_general_lock \in {0, 1}
    BY <2>1 DEF Init
  <2>6. /\ thread_index \in [Threads -> Slots \cup {NoSlot}]
        /\ thread_pick \in [Threads -> Slots \cup {NoSlot}]
        /\ scanned \in [Threads -> 0 .. MAX_THREADS]
        /\ waiting_on \in [Threads -> Slots \cup {NoSlot}]
    BY SlotsAssumption DEF Init
  <2>7. QED
    BY <2>2, <2>3, <2>4, <2>5, <2>6 DEF Init, TypeOK
<1>2. MainLockExclusive
  BY DEF Init, MainLockExclusive, InHandler, HandlerSteps
<1>3. QED
  BY <1>1, <1>2 DEF IInv

(* The two searches that are one step each return a slot in the state they *)
(* look for, or -1.                                                        *)
LEMMA SearchType ==
  ASSUME TypeOK
  PROVE  /\ find_highest_priority \in InState("RUNNABLE") \cup {NoSlot}
         /\ find_next_available_thread \in InState("DEAD") \cup {NoSlot}
<1>1. priorities \in [Slots -> Nat]
  BY TablesAssumption DEF TypeOK
<1>2. InState("RUNNABLE") \in SUBSET Slots /\ InState("DEAD") \in SUBSET Slots
  BY DEF InState
<1>3. QED
  BY <1>1, <1>2, BestType DEF find_highest_priority, find_next_available_thread

(* Every step keeps every variable in its type.                            *)
LEMMA TypeStep ==
  ASSUME IInv, NEW t \in Threads, Client(t) \/ Inside(t)
  PROVE  TypeOK'
<1>1. PcType' /\ g_PCT_main_lock' \in {0, 1}
  BY MainLockStep, ExclusiveStep DEF IInv, TypeOK, PcType
<1>2. /\ find_highest_priority \in Slots \cup {NoSlot}
      /\ find_next_available_thread \in Slots \cup {NoSlot}
  BY SearchType DEF IInv, InState
<1>3. TypeOK
  BY DEF IInv
<1>4. CASE \E m \in Mutexes : CallLock(t, m) \/ CallTrylock(t, m) \/ CallUnlock(t, m)
  BY <1>1, <1>3, <1>4
  DEF TypeOK, PcType, CallLock, CallTrylock, CallUnlock, CallMutex, table, current, locks,
       locals
<1>5. CASE CallCreate(t)
  BY <1>1, <1>3, <1>5 DEF TypeOK, PcType, CallCreate, table, current, locks, locals
<1>6. CASE CallReturn(t)
  BY <1>1, <1>3, <1>6 DEF TypeOK, PcType, CallReturn, table, current, locks, locals
<1>7. CASE CallExit(t)
  BY <1>1, <1>3, <1>7 DEF TypeOK, PcType, CallExit, table, current, locks, locals
<1>8. CASE CallYield(t)
  BY <1>1, <1>3, <1>8 DEF TypeOK, PcType, CallYield, table, current, locks, locals
<1>9. CASE PCT(t)
  BY <1>1, <1>3, <1>9 DEF TypeOK, PcType, PCT, table, current, locks, locals
<1>10. CASE PCT_DO_NOTHING(t)
  BY <1>1, <1>3, <1>10 DEF TypeOK, PcType, PCT_DO_NOTHING, table, current, locks, locals
<1>11. CASE CountThread(t)
  BY <1>1, <1>3, <1>11 DEF TypeOK, PcType, CountThread, GeneralSection, table, current,
       locks, locals
<1>12. CASE MarkRunnable(t)
  BY <1>1, <1>3, <1>12 DEF TypeOK, PcType, MarkRunnable, table, current, locks, locals
<1>13. CASE NumberThread(t)
  BY <1>1, <1>3, <1>13 DEF TypeOK, PcType, NumberThread, table, current, locks, locals
<1>14. CASE StoreThreadId(t)
  BY <1>1, <1>3, <1>14 DEF TypeOK, PcType, StoreThreadId, table, current, locks, locals
<1>15. CASE AddressStart(t)
  BY <1>1, <1>3, <1>15 DEF TypeOK, PcType, AddressStart, table, current, locks, locals
<1>16. CASE AnnounceStart(t)
  BY <1>1, <1>3, <1>16 DEF TypeOK, PcType, AnnounceStart, GeneralSection, table, current,
       locks, locals
<1>17. CASE AnnounceReturn(t)
  BY <1>1, <1>3, <1>17 DEF TypeOK, PcType, AnnounceReturn, GeneralSection, table, current,
       locks, locals
<1>18. CASE ReadExitNumber(t)
  BY <1>1, <1>3, <1>18 DEF TypeOK, PcType, ReadExitNumber, GeneralSection, table, current,
       locks, locals
<1>19. CASE MarkDead(t)
  BY <1>1, <1>3, <1>19 DEF TypeOK, PcType, MarkDead, table, current, locks, locals
<1>20. CASE Uncount(t)
  BY <1>1, <1>3, <1>20 DEF TypeOK, PcType, Uncount, table, current, locks, locals
<1>21. CASE StopCurrent(t)
  BY <1>1, <1>3, <1>21 DEF TypeOK, PcType, StopCurrent, table, current, locks, locals
<1>22. CASE RememberOld(t)
  BY <1>1, <1>3, <1>22 DEF TypeOK, PcType, RememberOld, table, current, locks, locals
<1>23. CASE SwitchCurrent(t)
  BY <1>1, <1>3, <1>23 DEF TypeOK, PcType, SwitchCurrent, table, current, locks, locals
<1>24. CASE SetMutex(t)
  BY <1>1, <1>3, <1>24 DEF TypeOK, PcType, SetMutex, GeneralSection, table, current, locks,
       locals
<1>25. CASE TryInsideLock(t)
  BY <1>1, <1>3, <1>25 DEF TypeOK, PcType, TryInsideLock, GeneralSection, table, current,
       locks, locals
<1>26. CASE TrylockHandler(t)
  BY <1>1, <1>3, <1>26 DEF TypeOK, PcType, TrylockHandler, table, current, locks, locals
<1>27. CASE TakeGeneralLock(t)
  BY <1>1, <1>3, <1>27 DEF TypeOK, PcType, TakeGeneralLock, table, current, locks, locals
<1>28. CASE OrigTrylock(t)
  BY <1>1, <1>3, <1>28 DEF TypeOK, PcType, OrigTrylock, table, current, locks, locals
<1>29. CASE Spawn(t)
  BY <1>1, <1>3, <1>29 DEF TypeOK, PcType, Spawn, GeneralSection, table, current, locks,
       locals
<1>30. CASE IndexOutOfBounds(t)
  BY <1>1, <1>3, <1>30 DEF TypeOK, PcType, IndexOutOfBounds, table, current, locks, locals
<1>31. CASE PostAfterCreate(t)
  BY <1>1, <1>3, <1>31 DEF TypeOK, PcType, PostAfterCreate, PostSlot, table, current,
       locks, locals
<1>32. CASE PostNext(t)
  BY <1>1, <1>3, <1>32 DEF TypeOK, PcType, PostNext, PostSlot, table, current, locks, locals
<1>33. CASE PostYield(t)
  BY <1>1, <1>3, <1>33 DEF TypeOK, PcType, PostYield, PostSlot, table, current, locks,
       locals
<1>34. CASE WaitSlot(t)
  BY <1>1, <1>3, <1>34 DEF TypeOK, PcType, WaitSlot, table, current, locks, locals
<1>35. CASE ReserveSlot(t)
  BY <1>1, <1>3, <1>35, <1>2 DEF TypeOK, PcType, ReserveSlot, table, current, locks, locals
<1>36. CASE ChooseAfterCreate(t)
  BY <1>1, <1>3, <1>36, <1>2 DEF TypeOK, PcType, ChooseAfterCreate, table, current, locks,
       locals
<1>37. CASE ChooseNext(t)
  BY <1>1, <1>3, <1>37, <1>2 DEF TypeOK, PcType, ChooseNext, table, current, locks, locals
<1>38. CASE FindOther(t)
  <2>1. scanned' \in [Threads -> 0 .. MAX_THREADS]
    BY <1>3, <1>38, SlotsAssumption DEF TypeOK, FindOther
  <2>2. QED
    BY <1>1, <1>3, <1>38, <2>1 DEF TypeOK, PcType, FindOther, table, current
<1>39. CASE CompareOther(t)
  <2>1. scanned[t] \in Slots /\ scanned[t] + 1 \in 0 .. MAX_THREADS
    BY <1>3, <1>39, SlotsAssumption DEF TypeOK, CompareOther, Slots
  <2>2. scanned' \in [Threads -> 0 .. MAX_THREADS]
    BY <1>3, <1>39, <2>1 DEF TypeOK, CompareOther
  <2>3. thread_pick' \in [Threads -> Slots \cup {NoSlot}]
    BY <1>3, <1>39, <2>1 DEF TypeOK, CompareOther
  <2>4. QED
    BY <1>1, <1>3, <1>39, <2>2, <2>3 DEF TypeOK, PcType, CompareOther, table, current, locks
<1>40. QED
  BY <1>4, <1>5, <1>6, <1>7, <1>8, <1>9, <1>10, <1>11, <1>12, <1>13, <1>14, <1>15, <1>16,
       <1>17, <1>18, <1>19, <1>20, <1>21, <1>22, <1>23, <1>24, <1>25, <1>26, <1>27, <1>28,
       <1>29, <1>30, <1>31, <1>32, <1>33, <1>34, <1>35, <1>36, <1>37, <1>38,
       <1>39
  DEF Client, Inside, Create, Start, Terminate, Yield, Mutex

(* The invariant is inductive.                                             *)
LEMMA NextIInv == IInv /\ [Next]_vars => IInv'
<1> SUFFICES ASSUME IInv, [Next]_vars PROVE IInv'
  OBVIOUS
<1>1. CASE Next
  <2>1. PICK t \in Threads : Client(t) \/ Inside(t)
    BY <1>1 DEF Next, ClientStep, LibraryStep
  <2>2. TypeOK'
    BY <2>1, TypeStep
  <2>3. MainLockExclusive'
    BY <2>1, MainLockStep, ExclusiveStep DEF IInv, TypeOK, PcType
  <2>4. QED
    BY <2>2, <2>3 DEF IInv
<1>2. CASE UNCHANGED vars
  <2>1. TypeOK'
    BY <1>2 DEF IInv, TypeOK, vars, table, current, locks, locals
  <2>2. MainLockExclusive'
    BY <1>2 DEF IInv, MainLockExclusive, InHandler, vars, locks
  <2>3. QED
    BY <2>1, <2>2 DEF IInv
<1>3. QED
  BY <1>1, <1>2

(* Both invariants hold of every reachable state, for any number of        *)
(* threads, slots and mutexes and every table of priorities.               *)
LEMMA Invariance == Spec => []IInv
  BY InitIInv, NextIInv, PTL DEF Spec

(* Every variable keeps its type; in particular the main lock and the      *)
(* general lock, which the code posts and waits on in many places, never   *)
(* count beyond 1, and no search returns anything but a slot or -1.        *)
THEOREM TypeCorrect == Spec => []TypeOK
<1>1. IInv => TypeOK
  BY DEF IInv
<1>2. QED
  BY Invariance, <1>1, PTL

(* The handlers of PCT() exclude each other and the semaphore that guards  *)
(* them is taken exactly while one of them runs.                           *)
THEOREM MutualExclusion == Spec => []MainLockExclusive
<1>1. IInv => MainLockExclusive
  BY DEF IInv
<1>2. QED
  BY Invariance, <1>1, PTL

(* A thread that tries its mutex from inside PCT_thread_lock always finds  *)
(* the main lock taken.                                                    *)
THEOREM LockNeverReturns == Spec => []LockBlocksItself
<1>1. IInv => LockBlocksItself
  BY DEF IInv, MainLockExclusive, LockBlocksItself, InHandler, HandlerSteps
<1>2. QED
  BY Invariance, <1>1, PTL

-----------------------------------------------------------------------------
(* The general lock.  pthread_mutex_trylock takes it and keeps it, so that *)
(* one thread at most ever gets to the original trylock, and while the     *)
(* lock is free no mutex is owned.                                         *)

Trying == {t \in Threads : pc[t] = "try_orig"}

GeneralInv ==
  /\ g_general_lock = 1 => Trying = {} /\ \A m \in Mutexes : owner[m] = None
  /\ Trying # {} => \A m \in Mutexes : owner[m] = None
  /\ \A t, u \in Trying : t = u
  /\ OneMutexEver
  /\ UnlockIsBlocked

(* The general lock starts out free, and no mutex is owned.                *)
LEMMA InitGeneralInv == Init => GeneralInv
  BY DEF Init, GeneralInv, Trying, OneMutexEver, UnlockIsBlocked

(* A step that leaves the general lock and the mutexes alone and brings no *)
(* thread to the original trylock or to an unlock.                         *)
LEMMA NeutralStep ==
  ASSUME GeneralInv, UNCHANGED <<g_general_lock, owner>>,
         \A u \in Threads : pc'[u] \in {"try_orig", "unlock_set"} => pc'[u] = pc[u]
  PROVE  GeneralInv'
<1>1. Trying' \subseteq Trying
  BY DEF Trying
<1>2. QED
  BY <1>1 DEF GeneralInv, OneMutexEver, UnlockIsBlocked

(* Every step keeps the invariant of the general lock.                     *)
LEMMA GeneralStep ==
  ASSUME TypeOK, GeneralInv, NEW t \in Threads, Client(t) \/ Inside(t)
  PROVE  GeneralInv'
<1>1. CASE CallCreate(t)
  BY <1>1, NeutralStep DEF TypeOK, CallCreate, Moves, Goto, locks
<1>2. CASE CallReturn(t)
  BY <1>2, NeutralStep DEF TypeOK, CallReturn, Moves, Goto, locks
<1>3. CASE CallExit(t)
  BY <1>3, NeutralStep DEF TypeOK, CallExit, Moves, Goto, locks
<1>4. CASE CallYield(t)
  BY <1>4, NeutralStep DEF TypeOK, CallYield, Moves, Goto, locks
<1>5. CASE CountThread(t)
  BY <1>5, NeutralStep DEF TypeOK, CountThread, GeneralSection, Moves, Goto, locks
<1>6. CASE ReserveSlot(t)
  BY <1>6, NeutralStep DEF TypeOK, ReserveSlot, Moves, Goto, locks
<1>7. CASE MarkRunnable(t)
  BY <1>7, NeutralStep DEF TypeOK, MarkRunnable, Moves, Goto, locks
<1>8. CASE NumberThread(t)
  BY <1>8, NeutralStep DEF TypeOK, NumberThread, Moves, Goto, locks
<1>9. CASE ChooseAfterCreate(t)
  BY <1>9, NeutralStep DEF TypeOK, ChooseAfterCreate, Moves, Goto, locks
<1>10. CASE PostAfterCreate(t)
  BY <1>10, NeutralStep DEF TypeOK, PostAfterCreate, Moves, Goto, locks
<1>11. CASE AnnounceStart(t)
  BY <1>11, NeutralStep DEF TypeOK, AnnounceStart, GeneralSection, Moves, Goto, locks
<1>12. CASE StoreThreadId(t)
  BY <1>12, NeutralStep DEF TypeOK, StoreThreadId, Moves, Goto, locks
<1>13. CASE AddressStart(t)
  BY <1>13, NeutralStep DEF TypeOK, AddressStart, Moves, Goto, locks
<1>14. CASE AnnounceReturn(t)
  BY <1>14, NeutralStep DEF TypeOK, AnnounceReturn, GeneralSection, Moves, Goto, locks
<1>15. CASE ReadExitNumber(t)
  BY <1>15, NeutralStep DEF TypeOK, ReadExitNumber, GeneralSection, Moves, Goto, locks
<1>16. CASE MarkDead(t)
  BY <1>16, NeutralStep DEF TypeOK, MarkDead, Moves, Goto, locks
<1>17. CASE Uncount(t)
  BY <1>17, NeutralStep DEF TypeOK, Uncount, Moves, Goto, locks
<1>18. CASE StopCurrent(t)
  BY <1>18, NeutralStep DEF TypeOK, StopCurrent, Moves, Goto, locks
<1>19. CASE ChooseNext(t)
  BY <1>19, NeutralStep DEF TypeOK, ChooseNext, Moves, Goto, locks
<1>20. CASE PostNext(t)
  BY <1>20, NeutralStep DEF TypeOK, PostNext, Moves, Goto, locks
<1>21. CASE RememberOld(t)
  BY <1>21, NeutralStep DEF TypeOK, RememberOld, Moves, Goto, locks
<1>22. CASE SwitchCurrent(t)
  BY <1>22, NeutralStep DEF TypeOK, SwitchCurrent, Moves, Goto, locks
<1>23. CASE PostYield(t)
  BY <1>23, NeutralStep DEF TypeOK, PostYield, Moves, Goto, locks
<1>24. CASE SetMutex(t)
  BY <1>24, NeutralStep DEF TypeOK, SetMutex, GeneralSection, Moves, Goto, locks
<1>25. CASE TryInsideLock(t)
  BY <1>25, NeutralStep DEF TypeOK, TryInsideLock, GeneralSection, Moves, Goto, locks
<1>26. CASE TrylockHandler(t)
  BY <1>26, NeutralStep DEF TypeOK, TrylockHandler, Moves, Goto, locks
<1>27. CASE WaitSlot(t)
  BY <1>27, NeutralStep DEF TypeOK, WaitSlot, Goto, locks
<1>28. CASE FindOther(t) \/ CompareOther(t)
  BY <1>28, NeutralStep DEF TypeOK, FindOther, CompareOther, Goto, locks
<1>29. CASE Spawn(t)
  BY <1>29, NeutralStep DEF TypeOK, Spawn, GeneralSection, locks
<1>30. CASE IndexOutOfBounds(t)
  BY <1>30, NeutralStep DEF TypeOK, IndexOutOfBounds, locks
<1>31. CASE PCT(t)
  <2>1. FirstStep[pc[t]] \notin {"try_orig", "unlock_set"}
    BY <1>31, FirstSteps DEF PCT, HandlerSteps
  <2>2. QED
    BY <1>31, <2>1, NeutralStep DEF TypeOK, PCT, Goto
<1>32. CASE PCT_DO_NOTHING(t)
  <2>1. AfterNothing[pc[t]] \notin {"try_orig", "unlock_set"}
    BY <1>32 DEF PCT_DO_NOTHING, AfterNothing
  <2>2. QED
    BY <1>32, <2>1, NeutralStep DEF TypeOK, PCT_DO_NOTHING, Goto, locks
<1>33. CASE \E m \in Mutexes : CallLock(t, m) \/ CallTrylock(t, m)
  BY <1>33, NeutralStep DEF TypeOK, CallLock, CallTrylock, CallMutex, Moves, Goto, locks
<1>34. CASE \E m \in Mutexes : CallUnlock(t, m)
  <2>1. PICK m \in Mutexes : owner[m] = t /\ CallMutex(t, m, "unlock", "unlock_set")
    BY <1>34 DEF CallUnlock
  <2>2. g_general_lock = 0
    BY <2>1, ThreadsAssumption DEF TypeOK, GeneralInv
  <2>3. UNCHANGED <<g_general_lock, owner>> /\ Trying' = Trying
    BY <2>1 DEF TypeOK, CallMutex, Moves, Goto, Trying, locks
  <2>4. QED
    BY <2>2, <2>3 DEF GeneralInv, OneMutexEver, UnlockIsBlocked
<1>35. CASE TakeGeneralLock(t)
  <2>1. g_general_lock = 1 /\ g_general_lock' = 0
    BY <1>35 DEF TakeGeneralLock, TypeOK
  <2>2. Trying' = {t} /\ UNCHANGED owner
    BY <1>35, <2>1 DEF TakeGeneralLock, Moves, Goto, TypeOK, GeneralInv, Trying
  <2>3. QED
    BY <2>1, <2>2 DEF GeneralInv, OneMutexEver, UnlockIsBlocked
<1>36. CASE OrigTrylock(t)
  <2>1. t \in Trying /\ Trying' = {} /\ g_general_lock = 0 /\ g_general_lock' = 0
    BY <1>36 DEF OrigTrylock, Moves, Goto, TypeOK, GeneralInv, Trying, locks
  <2>2. \A m \in Mutexes : owner[m] = None
    BY <2>1 DEF GeneralInv
  <2>3. OneMutexEver'
    BY <1>36, <2>2 DEF OrigTrylock, TypeOK, OneMutexEver
  <2>4. QED
    BY <2>1, <2>3 DEF GeneralInv, UnlockIsBlocked
<1>37. QED
  BY <1>1, <1>2, <1>3, <1>4, <1>5, <1>6, <1>7, <1>8, <1>9, <1>10, <1>11, <1>12, <1>13,
       <1>14, <1>15, <1>16, <1>17, <1>18, <1>19, <1>20, <1>21, <1>22, <1>23, <1>24, <1>25,
       <1>26, <1>27, <1>28, <1>29, <1>30, <1>31, <1>32, <1>33, <1>34, <1>35, <1>36
  DEF Client, Inside, Create, Start, Terminate, Yield, Mutex

(* The invariant of the general lock holds of every reachable state.       *)
LEMMA GeneralInvariance == Spec => []GeneralInv
<1>1. IInv /\ GeneralInv /\ [Next]_vars => GeneralInv'
  <2> SUFFICES ASSUME IInv, GeneralInv, [Next]_vars PROVE GeneralInv'
    OBVIOUS
  <2>1. CASE Next
    BY <2>1, GeneralStep DEF IInv, Next, ClientStep, LibraryStep
  <2>2. CASE UNCHANGED vars
    BY <2>2, NeutralStep DEF vars, locks
  <2>3. QED
    BY <2>1, <2>2
<1>2. QED
  BY Invariance, InitGeneralInv, <1>1, PTL DEF Spec

(* Whoever calls pthread_mutex_unlock finds the general lock taken.        *)
THEOREM UnlockNeverReturns == Spec => []UnlockIsBlocked
<1>1. GeneralInv => UnlockIsBlocked
  BY DEF GeneralInv
<1>2. QED
  BY GeneralInvariance, <1>1, PTL

(* In a whole run the program gets hold of at most one mutex.              *)
THEOREM OneMutexPerRun == Spec => []OneMutexEver
<1>1. GeneralInv => OneMutexEver
  BY DEF GeneralInv
<1>2. QED
  BY GeneralInvariance, <1>1, PTL

-----------------------------------------------------------------------------
(* What the other threads do while thread t is in a handler: they do not   *)
(* touch the tables, do not wake t, and change g_current_thread only by    *)
(* storing their own slot on their way to the entry of PCT().              *)

Announcing(u) == pc[u] \in {"start_enter", "term_enter"}

KeepsOut(t, u) ==
  /\ UNCHANGED <<priorities, table>>
  /\ pc'[t] = pc[t]
  /\ waiting_on'[t] = waiting_on[t]
  /\ g_general_lock = 0 => g_general_lock' = 0
  /\ \A v \in Threads : Announcing(v) => Announcing(v)' /\ thread_index'[v] = thread_index[v]
  /\ g_current_thread' # g_current_thread =>
       Announcing(u)' /\ g_current_thread' = thread_index'[u]

(* A thread in a handler keeps the others out of PCT().                    *)
LEMMA OthersKeepOut ==
  ASSUME TypeOK, MainLockExclusive,
         NEW t \in Threads, NEW u \in Threads, InHandler(t), u # t,
         Client(u) \/ Inside(u)
  PROVE  KeepsOut(t, u)
<1>1. pc[u] \notin HandlerSteps /\ g_PCT_main_lock = 0 /\ pc[t] \in HandlerSteps
  BY DEF MainLockExclusive, InHandler, TypeOK
<1>2. pc[t] \notin {"unborn", "start_enter", "term_enter"}
  BY <1>1 DEF HandlerSteps
<1>3. CASE ReserveSlot(u) \/ MarkRunnable(u) \/ NumberThread(u) \/ ChooseAfterCreate(u)
  BY <1>1, <1>3 DEF HandlerSteps, Moves, ReserveSlot, MarkRunnable, NumberThread,
       ChooseAfterCreate
<1>4. CASE PostAfterCreate(u) \/ StoreThreadId(u) \/ AddressStart(u) \/ MarkDead(u)
  BY <1>1, <1>4 DEF HandlerSteps, Moves, PostAfterCreate, StoreThreadId, AddressStart,
       MarkDead
<1>5. CASE Uncount(u) \/ StopCurrent(u) \/ ChooseNext(u) \/ PostNext(u)
  BY <1>1, <1>5 DEF HandlerSteps, Moves, Uncount, StopCurrent, ChooseNext, PostNext
<1>6. CASE RememberOld(u) \/ SwitchCurrent(u) \/ PostYield(u) \/ TryInsideLock(u)
  BY <1>1, <1>6 DEF HandlerSteps, Moves, RememberOld, SwitchCurrent, PostYield,
       TryInsideLock
<1>7. CASE WaitSlot(u) \/ FindOther(u) \/ CompareOther(u)
  BY <1>1, <1>7 DEF HandlerSteps, WaitSlot, FindOther, CompareOther
<1>8. CASE PCT(u) \/ PCT_DO_NOTHING(u) \/ TrylockHandler(u)
  BY <1>1, <1>8 DEF PCT, PCT_DO_NOTHING, TrylockHandler
<1>9. CASE CallCreate(u)
  BY <1>1, <1>2, <1>9 DEF TypeOK, CallCreate, Moves, Goto, KeepsOut, Announcing, table,
       current, locks, locals
<1>10. CASE CallReturn(u)
  BY <1>1, <1>2, <1>10 DEF TypeOK, CallReturn, Moves, Goto, KeepsOut, Announcing, table,
       current, locks, locals
<1>11. CASE CallExit(u)
  BY <1>1, <1>2, <1>11 DEF TypeOK, CallExit, Moves, Goto, KeepsOut, Announcing, table,
       current, locks, locals
<1>12. CASE CallYield(u)
  BY <1>1, <1>2, <1>12 DEF TypeOK, CallYield, Moves, Goto, KeepsOut, Announcing, table,
       current, locks, locals
<1>13. CASE CountThread(u)
  BY <1>1, <1>2, <1>13 DEF TypeOK, CountThread, GeneralSection, Moves, Goto, KeepsOut,
       Announcing, table, current, locks, locals
<1>14. CASE AnnounceStart(u)
  BY <1>1, <1>2, <1>14 DEF TypeOK, AnnounceStart, GeneralSection, Moves, Goto, KeepsOut,
       Announcing, table, current, locks, locals
<1>15. CASE AnnounceReturn(u)
  BY <1>1, <1>2, <1>15 DEF TypeOK, AnnounceReturn, GeneralSection, Moves, Goto, KeepsOut,
       Announcing, table, current, locks, locals
<1>16. CASE ReadExitNumber(u)
  BY <1>1, <1>2, <1>16 DEF TypeOK, ReadExitNumber, GeneralSection, Moves, Goto, KeepsOut,
       Announcing, table, current, locks, locals
<1>17. CASE SetMutex(u)
  BY <1>1, <1>2, <1>17 DEF TypeOK, SetMutex, GeneralSection, Moves, Goto, KeepsOut,
       Announcing, table, current, locks, locals
<1>18. CASE TakeGeneralLock(u)
  BY <1>1, <1>2, <1>18 DEF TypeOK, TakeGeneralLock, Moves, Goto, KeepsOut, Announcing,
       table, current, locks, locals
<1>19. CASE OrigTrylock(u)
  BY <1>1, <1>2, <1>19 DEF TypeOK, OrigTrylock, Moves, Goto, KeepsOut, Announcing, table,
       current, locks, locals
<1>20. CASE Spawn(u)
  <2>1. PICK v \in Threads :
          /\ pc[v] = "unborn"
          /\ \/ /\ pc' = [pc EXCEPT ![u] = "after_enter", ![v] = "start_set"]
                /\ thread_index' = [thread_index EXCEPT ![v] = g_current_thread]
             \/ /\ pc' = [pc EXCEPT ![u] = "after_enter", ![v] = "failed"]
                /\ UNCHANGED thread_index
    BY <1>20 DEF Spawn
  <2>2. pc[u] = "create_spawn"
    BY <1>20 DEF Spawn
  <2>3. QED
    BY <1>1, <1>2, <1>20, <2>1, <2>2
    DEF TypeOK, Spawn, GeneralSection, KeepsOut, Announcing, table, current, locks
<1>21. CASE \E m \in Mutexes : CallLock(u, m) \/ CallTrylock(u, m) \/ CallUnlock(u, m)
  BY <1>1, <1>2, <1>21
  DEF TypeOK, CallLock, CallTrylock, CallUnlock, CallMutex, Moves, Goto, KeepsOut,
       Announcing, table, current, locks
<1>22. CASE IndexOutOfBounds(u)
  BY <1>22 DEF IndexOutOfBounds, KeepsOut, Announcing, current, locks, locals
<1>23. QED
  BY <1>3, <1>4, <1>5, <1>6, <1>7, <1>8, <1>9, <1>10, <1>11, <1>12, <1>13, <1>14, <1>15,
       <1>16, <1>17, <1>18, <1>19, <1>20, <1>21, <1>22
  DEF Client, Inside, Create, Start, Terminate, Yield, Mutex

(* A thread sleeps for good only inside a handler.                         *)
LEMMA StuckInHandler ==
  ASSUME NEW t \in Threads, Stuck(t)
  PROVE  InHandler(t)
  BY DEF Stuck, InHandler, HandlerSteps

(* A thread that sleeps for good has no step of its own.                   *)
LEMMA StuckCannotStep ==
  ASSUME TypeOK, MainLockExclusive, NEW t \in Threads, Stuck(t), Client(t) \/ Inside(t)
  PROVE  FALSE
<1>1. pc[t] \in {"start_wait", "yield_wait", "lock_try", "lock_reenter"}
  BY DEF Stuck
<1>2. g_PCT_main_lock = 0
  BY StuckInHandler DEF MainLockExclusive
<1>3. ~ WaitSlot(t)
  BY DEF Stuck, WaitSlot
<1>4. ~ TryInsideLock(t)
  BY DEF Stuck, TryInsideLock, GeneralSection, Moves
<1>5. ~ IndexOutOfBounds(t)
  BY DEF Stuck, IndexOutOfBounds, Indexes, Index, Slots, NoSlot
<1>6. ~ Client(t)
  BY <1>1 DEF Client, CallCreate, CallReturn, CallExit, CallYield, CallLock, CallTrylock,
       CallUnlock, CallMutex, Moves
<1>7. ~ (PCT(t) \/ PCT_DO_NOTHING(t))
  BY <1>2 DEF PCT, PCT_DO_NOTHING
<1>8. ~ Create(t)
  BY <1>1 DEF Create, CountThread, ReserveSlot, MarkRunnable, NumberThread, Spawn,
       ChooseAfterCreate, PostAfterCreate, Moves
<1>9. ~ (AnnounceStart(t) \/ StoreThreadId(t) \/ AddressStart(t))
  BY <1>1 DEF AnnounceStart, StoreThreadId, AddressStart, Moves
<1>10. ~ Terminate(t)
  BY <1>1 DEF Terminate, AnnounceReturn, ReadExitNumber, MarkDead, Uncount, StopCurrent,
       ChooseNext, PostNext, Moves
<1>11. ~ Yield(t)
  BY <1>1 DEF Yield, CompareOther, FindOther, RememberOld, SwitchCurrent, PostYield, Moves
<1>12. ~ (SetMutex(t) \/ TrylockHandler(t) \/ TakeGeneralLock(t) \/ OrigTrylock(t))
  BY <1>1 DEF SetMutex, TrylockHandler, TakeGeneralLock, OrigTrylock, Moves
<1>13. QED
  BY <1>3, <1>4, <1>5, <1>6, <1>7, <1>8, <1>9, <1>10, <1>11, <1>12 DEF Inside, Start, Mutex

(* A thread that sleeps in the scheduler sleeps for good, and with it the  *)
(* tables stay as they are: whatever the other threads do, none of them    *)
(* can enter PCT() to post a semaphore.                                    *)
THEOREM FreezeIsPermanent == Spec => FrozenIsFinal
<1>1. IInv /\ [Next]_vars =>
        [\A t \in Threads : Stuck(t) => Stuck(t)' /\ UNCHANGED table]_vars
  <2> SUFFICES ASSUME IInv, Next, NEW t \in Threads, Stuck(t)
               PROVE  Stuck(t)' /\ UNCHANGED table
    BY DEF vars
  <2>1. PICK u \in Threads : Client(u) \/ Inside(u)
    BY DEF Next, ClientStep, LibraryStep
  <2>2. u # t
    BY <2>1, StuckCannotStep DEF IInv
  <2>3. KeepsOut(t, u)
    BY <2>1, <2>2, StuckInHandler, OthersKeepOut DEF IInv
  <2>4. QED
    BY <2>3 DEF KeepsOut, Stuck, table
<1>2. QED
  BY Invariance, <1>1, PTL DEF Spec, FrozenIsFinal

-----------------------------------------------------------------------------
(* The slot chosen to run next *)

ChosenBy(t) ==
  pc[t] \in {"after_post", "term_post"} =>
    \/ g_current_thread = find_highest_priority
    \/ \E u \in Threads : Announcing(u) /\ thread_index[u] = g_current_thread

(* The search finds the same slot while the tables stay the same.          *)
LEMMA SameChoice ==
  ASSUME UNCHANGED <<priorities, g_threads>>
  PROVE  find_highest_priority' = find_highest_priority
<1>1. InState("RUNNABLE")' = InState("RUNNABLE")
  BY DEF InState
<1> DEFINE TheBest(p, S) ==
      IF S = {} THEN NoSlot ELSE CHOOSE s \in S : \A r \in S : p[r] <= p[s]
<1>2. find_highest_priority = TheBest(priorities, InState("RUNNABLE"))
  BY DEF find_highest_priority, Best
<1>3. find_highest_priority' = TheBest(priorities', InState("RUNNABLE")')
  BY DEF find_highest_priority, Best
<1> HIDE DEF TheBest
<1>4. QED
  BY <1>1, <1>2, <1>3

(* The step with which t itself gets to the post is the search.            *)
LEMMA OwnChoice ==
  ASSUME TypeOK, NEW t \in Threads, ChosenBy(t), Client(t) \/ Inside(t)
  PROVE  ChosenBy(t)'
<1> DEFINE Elsewhere == pc'[t] \notin {"after_post", "term_post"}
<1>1. CASE ChooseAfterCreate(t) \/ ChooseNext(t)
  BY <1>1, SameChoice DEF ChooseAfterCreate, ChooseNext, ChosenBy, table
<1>2. CASE IndexOutOfBounds(t)
  BY <1>2, SameChoice DEF IndexOutOfBounds, ChosenBy, Announcing, table, current, locals
<1>3. CASE Client(t)
  <2>1. Elsewhere
    BY <1>3 DEF TypeOK, Client, CallCreate, CallReturn, CallExit, CallYield, CallLock,
         CallTrylock,
         CallUnlock, CallMutex, Moves, Goto
  <2>2. QED
    BY <2>1 DEF ChosenBy
<1>4. CASE PCT(t) \/ PCT_DO_NOTHING(t)
  <2>1. CASE PCT(t)
    BY <2>1 DEF TypeOK, PCT, FirstStep, Goto, ChosenBy
  <2>2. CASE PCT_DO_NOTHING(t)
    BY <2>2 DEF TypeOK, PCT_DO_NOTHING, AfterNothing, Goto, ChosenBy
  <2>3. QED
    BY <1>4, <2>1, <2>2
<1>5. CASE \/ CountThread(t) \/ ReserveSlot(t) \/ MarkRunnable(t)
           \/ NumberThread(t) \/ PostAfterCreate(t)
  BY <1>5 DEF TypeOK, CountThread, ReserveSlot, MarkRunnable, NumberThread,
       PostAfterCreate, Moves, Goto, ChosenBy
<1>6. CASE AnnounceStart(t) \/ StoreThreadId(t) \/ AddressStart(t) \/ WaitSlot(t)
  BY <1>6 DEF TypeOK, AnnounceStart, StoreThreadId, AddressStart, WaitSlot, Moves, Goto,
       ChosenBy
<1>7. CASE \/ AnnounceReturn(t) \/ ReadExitNumber(t) \/ MarkDead(t)
           \/ Uncount(t) \/ StopCurrent(t) \/ PostNext(t)
  BY <1>7 DEF TypeOK, AnnounceReturn, ReadExitNumber, MarkDead, Uncount, StopCurrent,
       PostNext, Moves, Goto, ChosenBy
<1>8. CASE Yield(t)
  BY <1>8 DEF TypeOK, Yield, CompareOther, FindOther, RememberOld, SwitchCurrent,
       PostYield, Moves, Goto, ChosenBy
<1>9. CASE \/ SetMutex(t) \/ TryInsideLock(t) \/ TrylockHandler(t)
           \/ TakeGeneralLock(t) \/ OrigTrylock(t)
  BY <1>9 DEF TypeOK, SetMutex, TryInsideLock, TrylockHandler, TakeGeneralLock,
       OrigTrylock, Moves, Goto, ChosenBy
<1>10. CASE Spawn(t)
  BY <1>10 DEF TypeOK, Spawn, ChosenBy
<1>11. QED
  BY <1>1, <1>2, <1>3, <1>4, <1>5, <1>6, <1>7, <1>8, <1>9, <1>10
  DEF Inside, Create, Start, Terminate, Mutex

(* The steps of the others either keep the slot or announce another.       *)
LEMMA OthersChoice ==
  ASSUME TypeOK, MainLockExclusive, NEW t \in Threads, NEW u \in Threads, u # t,
         ChosenBy(t), Client(u) \/ Inside(u)
  PROVE  ChosenBy(t)'
<1>1. CASE ~ InHandler(t)
  <2>1. pc[t] \notin {"after_post", "term_post"}
    BY <1>1 DEF InHandler, HandlerSteps
  <2>2. pc'[t] = pc[t] \/ pc'[t] \in {"start_set", "failed"}
    <3>1. CASE Spawn(u)
      BY <3>1 DEF TypeOK, Spawn
    <3>2. CASE ~ Spawn(u)
      BY <3>2 DEF TypeOK, Client, CallCreate, CallReturn, CallExit, CallYield, CallLock,
           CallTrylock, CallUnlock, CallMutex, Inside, PCT, PCT_DO_NOTHING,
           Create, CountThread, ReserveSlot, MarkRunnable, NumberThread,
           ChooseAfterCreate, PostAfterCreate,
           Start, AnnounceStart, StoreThreadId, AddressStart, WaitSlot,
           Terminate, AnnounceReturn, ReadExitNumber, MarkDead, Uncount, StopCurrent,
           ChooseNext, PostNext,
           Yield, CompareOther, FindOther, RememberOld, SwitchCurrent, PostYield,
           Mutex, SetMutex, TryInsideLock, TrylockHandler, TakeGeneralLock, OrigTrylock,
           IndexOutOfBounds, Moves, Goto
    <3>3. QED
      BY <3>1, <3>2
  <2>3. QED
    BY <2>1, <2>2 DEF ChosenBy
<1>2. CASE InHandler(t)
  <2>1. KeepsOut(t, u)
    BY <1>2, OthersKeepOut
  <2>2. find_highest_priority' = find_highest_priority
    BY <2>1, SameChoice DEF KeepsOut, table
  <2>3. CASE g_current_thread' = g_current_thread
    BY <2>1, <2>2, <2>3 DEF KeepsOut, ChosenBy
  <2>4. CASE g_current_thread' # g_current_thread
    BY <2>1, <2>4 DEF KeepsOut, ChosenBy
  <2>5. QED
    BY <2>3, <2>4
<1>3. QED
  BY <1>1, <1>2

(* The thread whose semaphore is posted is the runnable one with the       *)
(* highest priority, unless a thread that starts or returns has stored its *)
(* own slot between the search and the post.                               *)
THEOREM ChoiceIsBest == Spec => []OnlyAnnouncementsSpoilChoice
<1> DEFINE Inv == \A t \in Threads : ChosenBy(t)
<1>1. Init => Inv
  BY DEF Init, ChosenBy
<1>2. IInv /\ Inv /\ [Next]_vars => Inv'
  <2> SUFFICES ASSUME IInv, Inv, [Next]_vars, NEW t \in Threads PROVE ChosenBy(t)'
    OBVIOUS
  <2>1. CASE Next
    <3>1. PICK u \in Threads : Client(u) \/ Inside(u)
      BY <2>1 DEF Next, ClientStep, LibraryStep
    <3>2. CASE u = t
      BY <3>1, <3>2, OwnChoice DEF IInv
    <3>3. CASE u # t
      BY <3>1, <3>3, OthersChoice DEF IInv
    <3>4. QED
      BY <3>2, <3>3
  <2>2. CASE UNCHANGED vars
    BY <2>2, SameChoice DEF vars, table, current, locals, ChosenBy, Announcing
  <2>3. QED
    BY <2>1, <2>2
<1>3. Inv => OnlyAnnouncementsSpoilChoice
  BY DEF ChosenBy, Announcing, OnlyAnnouncementsSpoilChoice
<1>4. QED
  BY Invariance, <1>1, <1>2, <1>3, PTL DEF Spec

-----------------------------------------------------------------------------
(* The counter of runnable threads.  Three steps matter to it: the count   *)
(* in PCT_thread_before_create on behalf of a thread that is not there     *)
(* yet, the birth of that thread, and the discount in                      *)
(* PCT_thread_terminate.                                                   *)

CountKept ==
  Registered' = Registered /\ Creating' = Creating /\ g_runnable_threads' = g_runnable_threads

(* Both sets that are counted are finite.                                  *)
LEMMA SetsFinite ==
  /\ IsFiniteSet(Registered) /\ Cardinality(Registered) \in Nat
  /\ IsFiniteSet(Creating) /\ Cardinality(Creating) \in Nat
<1>1. Registered \in SUBSET Threads /\ Creating \in SUBSET Threads
  BY DEF Registered, Creating
<1>2. IsFiniteSet(Registered) /\ IsFiniteSet(Creating)
  BY <1>1, FiniteAssumption, FS_Subset
<1>3. QED
  BY <1>2, FS_CardinalityType

(* No other step changes the counter or the sets.                          *)
LEMMA OtherStepsCountNothing ==
  ASSUME TypeOK, NEW t \in Threads, Client(t) \/ Inside(t),
         ~ NumberThread(t), ~ Spawn(t), ~ Uncount(t)
  PROVE  CountKept
<1>1. CASE Client(t)
  BY <1>1 DEF TypeOK, Client, CallCreate, CallReturn, CallExit, CallYield, CallLock,
       CallTrylock,
       CallUnlock, CallMutex, Moves, Goto, CountKept, Registered, Creating, table
<1>2. CASE PCT(t)
  <2>1. /\ pc[t] \notin {"unborn", "term_stop", "term_find", "term_post", "done",
                  "create_spawn"}
        /\ pc'[t] \notin {"unborn", "term_stop", "term_find", "term_post", "done",
             "create_spawn"}
    BY <1>2 DEF TypeOK, PCT, FirstStep, Goto
  <2>2. QED
    BY <1>2, <2>1 DEF TypeOK, PCT, Goto, CountKept, Registered, Creating, table
<1>3. CASE PCT_DO_NOTHING(t)
  <2>1. /\ pc[t] \notin {"unborn", "term_stop", "term_find", "term_post", "done",
                  "create_spawn"}
        /\ pc'[t] \notin {"unborn", "term_stop", "term_find", "term_post", "done",
             "create_spawn"}
    BY <1>3 DEF TypeOK, PCT_DO_NOTHING, AfterNothing, Goto
  <2>2. QED
    BY <1>3, <2>1 DEF TypeOK, PCT_DO_NOTHING, Goto, CountKept, Registered, Creating, table
<1>4. CASE \/ CountThread(t) \/ ReserveSlot(t) \/ MarkRunnable(t)
           \/ ChooseAfterCreate(t) \/ PostAfterCreate(t)
  BY <1>4 DEF TypeOK, CountThread, ReserveSlot, MarkRunnable, ChooseAfterCreate,
       PostAfterCreate, Moves, Goto, CountKept,
       Registered, Creating, table
<1>5. CASE AnnounceStart(t) \/ StoreThreadId(t) \/ AddressStart(t) \/ WaitSlot(t)
  BY <1>5 DEF TypeOK, AnnounceStart, StoreThreadId, AddressStart, WaitSlot, Moves, Goto,
       CountKept,
       Registered, Creating, table
<1>6. CASE \/ AnnounceReturn(t) \/ ReadExitNumber(t) \/ MarkDead(t)
           \/ StopCurrent(t) \/ ChooseNext(t) \/ PostNext(t)
  BY <1>6 DEF TypeOK, AnnounceReturn, ReadExitNumber, MarkDead, StopCurrent, ChooseNext,
       PostNext, Moves, Goto, CountKept,
       Registered, Creating, table
<1>7. CASE Yield(t)
  BY <1>7 DEF TypeOK, Yield, CompareOther, FindOther, RememberOld, SwitchCurrent,
       PostYield, Moves, Goto, CountKept,
       Registered, Creating, table
<1>8. CASE \/ SetMutex(t) \/ TryInsideLock(t) \/ TrylockHandler(t)
           \/ TakeGeneralLock(t) \/ OrigTrylock(t)
  BY <1>8 DEF TypeOK, SetMutex, TryInsideLock, TrylockHandler, TakeGeneralLock,
       OrigTrylock, Moves, Goto, CountKept,
       Registered, Creating, table
<1>9. CASE IndexOutOfBounds(t)
  BY <1>9 DEF TypeOK, IndexOutOfBounds, CountKept,
       Registered, Creating, table
<1>10. QED
  BY <1>1, <1>2, <1>3, <1>4, <1>5, <1>6, <1>7, <1>8, <1>9
  DEF Inside, Create, Start, Terminate, Mutex

(* The three steps change the counter as they change the sets.             *)
LEMMA CountStep ==
  ASSUME TypeOK, RunnableCountsThreads, NEW t \in Threads, Client(t) \/ Inside(t)
  PROVE  RunnableCountsThreads'
<1> USE SetsFinite
<1>1. CASE NumberThread(t)
  <2>1. Registered' = Registered /\ t \notin Creating /\ Creating' = Creating \cup {t}
    BY <1>1 DEF TypeOK, NumberThread, Moves, Goto, Registered, Creating
  <2>2. Cardinality(Creating') = Cardinality(Creating) + 1
    BY <2>1, FS_AddElement
  <2>3. QED
    BY <1>1, <2>1, <2>2 DEF NumberThread, TypeOK, RunnableCountsThreads
<1>2. CASE Spawn(t)
  <2>1. PICK u \in Threads :
          /\ pc[u] = "unborn"
          /\ \/ pc' = [pc EXCEPT ![t] = "after_enter", ![u] = "start_set"]
             \/ pc' = [pc EXCEPT ![t] = "after_enter", ![u] = "failed"]
    BY <1>2 DEF Spawn
  <2>2. pc[t] = "create_spawn" /\ UNCHANGED g_runnable_threads
    BY <1>2 DEF Spawn, table
  <2>3. /\ u \notin Registered /\ Registered' = Registered \cup {u}
        /\ t \in Creating /\ Creating' = Creating \ {t}
    BY <2>1, <2>2 DEF TypeOK, Registered, Creating
  <2>4. Cardinality(Registered') = Cardinality(Registered) + 1
    BY <2>3, FS_AddElement
  <2>5. Cardinality(Creating') = Cardinality(Creating) - 1
    BY <2>3, FS_RemoveElement
  <2>6. QED
    BY <2>2, <2>4, <2>5 DEF TypeOK, RunnableCountsThreads
<1>3. CASE Uncount(t)
  <2>1. t \in Registered /\ Registered' = Registered \ {t} /\ Creating' = Creating
    BY <1>3 DEF TypeOK, Uncount, Moves, Goto, Registered, Creating
  <2>2. Cardinality(Registered') = Cardinality(Registered) - 1
    BY <2>1, FS_RemoveElement
  <2>3. QED
    BY <1>3, <2>1, <2>2 DEF Uncount, TypeOK, RunnableCountsThreads
<1>4. CASE CountKept
  BY <1>4 DEF CountKept, RunnableCountsThreads
<1>5. QED
  BY <1>1, <1>2, <1>3, <1>4, OtherStepsCountNothing

(* The counter is exact: threads that share a slot, that unregister the    *)
(* slot of another or that could not be created do not make it drift.      *)
THEOREM CounterIsExact == Spec => []RunnableCountsThreads
<1>1. Init => RunnableCountsThreads
  <2> SUFFICES ASSUME Init PROVE RunnableCountsThreads
    OBVIOUS
  <2>1. Registered = {Main} /\ Creating = {}
    BY ThreadsAssumption DEF Init, Registered, Creating
  <2>2. Cardinality(Registered) = 1 /\ Cardinality(Creating) = 0
    BY <2>1, FS_Singleton, FS_EmptySet
  <2>3. g_runnable_threads = 1
    BY DEF Init
  <2>4. QED
    BY <2>2, <2>3 DEF RunnableCountsThreads
<1>2. IInv /\ RunnableCountsThreads /\ [Next]_vars => RunnableCountsThreads'
  <2> SUFFICES ASSUME IInv, RunnableCountsThreads, [Next]_vars PROVE RunnableCountsThreads'
    OBVIOUS
  <2>1. CASE Next
    BY <2>1, CountStep DEF IInv, Next, ClientStep, LibraryStep
  <2>2. CASE UNCHANGED vars
    BY <2>2 DEF vars, table, RunnableCountsThreads, Registered, Creating
  <2>3. QED
    BY <2>1, <2>2
<1>3. QED
  BY Invariance, <1>1, <1>2, PTL DEF Spec

-----------------------------------------------------------------------------
(* Searches that find nothing.  The births come first: every creation that *)
(* was counted and has not ended in a birth has an unborn thread to spare, *)
(* because the program begins no more creations than there are threads.    *)

Making ==
  {t \in Threads : pc[t] \in {"create_enter", "create_slot", "create_mark",
                              "create_number", "create_spawn"}}

Unborn == At("unborn")

Beginning == At("create_count")

BirthInv ==
  /\ Cardinality(Unborn) + g_thread_count = Cardinality(Threads) - 1 + Cardinality(Making)
  /\ g_thread_count + Cardinality(Beginning) < Cardinality(Threads)

BirthsKept ==
  /\ Unborn' = Unborn /\ Making' = Making /\ Beginning' = Beginning
  /\ g_thread_count' = g_thread_count

(* The sets of threads that BirthInv counts are finite.                    *)
LEMMA ThreadSetsFinite ==
  ASSUME NEW S \in SUBSET Threads
  PROVE  IsFiniteSet(S) /\ Cardinality(S) \in Nat /\ Cardinality(S) <= Cardinality(Threads)
  BY FiniteAssumption, FS_Subset, FS_CardinalityType

(* The births are counted over subsets of Threads.                         *)
LEMMA BirthSets ==
  /\ Unborn \in SUBSET Threads /\ Making \in SUBSET Threads /\ Beginning \in SUBSET Threads
  /\ Registered \in SUBSET Threads /\ Creating \in SUBSET Threads
  BY DEF Unborn, Making, Beginning, At, Registered, Creating

(* Only three steps of a creation change what BirthInv counts.             *)
LEMMA OtherStepsBearNothing ==
  ASSUME TypeOK, NEW t \in Threads, Client(t) \/ Inside(t),
         ~ CallCreate(t), ~ CountThread(t), ~ Spawn(t)
  PROVE  BirthsKept
<1> USE DEF TypeOK, Moves, Goto, BirthsKept, Unborn, Making, Beginning, At, current
<1>1. CASE Client(t)
  BY <1>1 DEF Client, CallReturn, CallExit, CallYield, CallLock, CallTrylock, CallUnlock,
       CallMutex
<1>2. CASE PCT(t)
  BY <1>2 DEF PCT, FirstStep
<1>3. CASE PCT_DO_NOTHING(t)
  BY <1>3 DEF PCT_DO_NOTHING, AfterNothing
<1>4. CASE \/ ReserveSlot(t) \/ MarkRunnable(t) \/ NumberThread(t)
           \/ ChooseAfterCreate(t) \/ PostAfterCreate(t)
  BY <1>4 DEF ReserveSlot, MarkRunnable, NumberThread, ChooseAfterCreate, PostAfterCreate
<1>5. CASE Start(t)
  BY <1>5 DEF Start, AnnounceStart, StoreThreadId, AddressStart, WaitSlot
<1>6. CASE Terminate(t)
  BY <1>6 DEF Terminate, AnnounceReturn, ReadExitNumber, MarkDead, Uncount, StopCurrent,
       ChooseNext, PostNext
<1>7. CASE Yield(t)
  BY <1>7 DEF Yield, CompareOther, FindOther, RememberOld, SwitchCurrent, PostYield
<1>8. CASE Mutex(t)
  BY <1>8 DEF Mutex, SetMutex, TryInsideLock, TrylockHandler, TakeGeneralLock, OrigTrylock
<1>9. CASE IndexOutOfBounds(t)
  BY <1>9 DEF IndexOutOfBounds
<1>10. QED
  BY <1>1, <1>2, <1>3, <1>4, <1>5, <1>6, <1>7, <1>8, <1>9 DEF Inside, Create

(* The three steps keep the account of the births.                         *)
LEMMA BirthStep ==
  ASSUME TypeOK, BirthInv, NEW t \in Threads, Client(t) \/ Inside(t)
  PROVE  BirthInv'
<1> DEFINE N == Cardinality(Threads)
<1>1. /\ IsFiniteSet(Unborn) /\ IsFiniteSet(Making) /\ IsFiniteSet(Beginning)
      /\ Cardinality(Unborn) \in Nat /\ Cardinality(Making) \in Nat
      /\ Cardinality(Beginning) \in Nat
      /\ N \in Nat /\ g_thread_count \in Nat
  BY BirthSets, ThreadSetsFinite DEF TypeOK
<1>2. CASE CallCreate(t)
  <2>1. /\ Unborn' = Unborn /\ Making' = Making /\ g_thread_count' = g_thread_count
        /\ t \notin Beginning /\ Beginning' = Beginning \cup {t}
        /\ g_thread_count + Cardinality(Beginning) < N - 1
    BY <1>2 DEF TypeOK, CallCreate, CreatesBegun, Moves, Goto, Unborn, Making, Beginning,
         At, current
  <2>2. Cardinality(Beginning') = Cardinality(Beginning) + 1
    BY <1>1, <2>1, FS_AddElement
  <2>3. QED
    BY <1>1, <2>1, <2>2 DEF BirthInv
<1>3. CASE CountThread(t)
  <2>1. /\ Unborn' = Unborn /\ g_thread_count' = g_thread_count + 1
        /\ t \notin Making /\ Making' = Making \cup {t}
        /\ t \in Beginning /\ Beginning' = Beginning \ {t}
    BY <1>3 DEF TypeOK, CountThread, Moves, Goto, Unborn, Making, Beginning, At
  <2>2. Cardinality(Making') = Cardinality(Making) + 1
    BY <1>1, <2>1, FS_AddElement
  <2>3. Cardinality(Beginning') = Cardinality(Beginning) - 1
    BY <1>1, <2>1, FS_RemoveElement
  <2>4. QED
    BY <1>1, <2>1, <2>2, <2>3 DEF BirthInv
<1>4. CASE Spawn(t)
  <2>1. PICK u \in Threads :
          /\ pc[u] = "unborn"
          /\ \/ pc' = [pc EXCEPT ![t] = "after_enter", ![u] = "start_set"]
             \/ pc' = [pc EXCEPT ![t] = "after_enter", ![u] = "failed"]
    BY <1>4 DEF Spawn
  <2>2. pc[t] = "create_spawn" /\ UNCHANGED g_thread_count
    BY <1>4 DEF Spawn, current
  <2>3. /\ Beginning' = Beginning
        /\ u \in Unborn /\ Unborn' = Unborn \ {u}
        /\ t \in Making /\ Making' = Making \ {t}
    BY <2>1, <2>2 DEF TypeOK, Unborn, Making, Beginning, At
  <2>4. Cardinality(Unborn') = Cardinality(Unborn) - 1
    BY <1>1, <2>3, FS_RemoveElement
  <2>5. Cardinality(Making') = Cardinality(Making) - 1
    BY <1>1, <2>3, FS_RemoveElement
  <2>6. QED
    BY <1>1, <2>2, <2>3, <2>4, <2>5 DEF BirthInv
<1>5. CASE BirthsKept
  BY <1>5 DEF BirthsKept, BirthInv
<1>6. QED
  BY <1>2, <1>3, <1>4, <1>5, OtherStepsBearNothing

(* The account of the births is right in every reachable state.            *)
LEMMA BirthInvariance == Spec => []BirthInv
<1>1. Init => BirthInv
  <2> SUFFICES ASSUME Init PROVE BirthInv
    OBVIOUS
  <2>1. /\ Unborn = Threads \ {Main} /\ Making = {} /\ Beginning = {}
        /\ g_thread_count = 0
    BY DEF Init, Unborn, Making, Beginning, At
  <2>2. Cardinality(Threads \ {Main}) = Cardinality(Threads) - 1
    BY ThreadsAssumption, FiniteAssumption, FS_RemoveElement
  <2>3. Cardinality(Threads) \in Nat /\ Cardinality(Threads) > 0
    BY ThreadsAssumption, FiniteAssumption, FS_CardinalityType, FS_EmptySet
  <2>4. Cardinality({}) = 0
    BY FS_EmptySet
  <2>5. QED
    BY <2>1, <2>2, <2>3, <2>4 DEF BirthInv
<1>2. IInv /\ BirthInv /\ [Next]_vars => BirthInv'
  <2> SUFFICES ASSUME IInv, BirthInv, [Next]_vars PROVE BirthInv'
    OBVIOUS
  <2>1. CASE Next
    BY <2>1, BirthStep DEF IInv, Next, ClientStep, LibraryStep
  <2>2. CASE UNCHANGED vars
    BY <2>2 DEF vars, current, BirthInv, Unborn, Making, Beginning, At
  <2>3. QED
    BY <2>1, <2>2
<1>3. QED
  BY Invariance, <1>1, <1>2, PTL DEF Spec

(* A search of a set with a slot in it finds a slot.                       *)
LEMMA BestFinds ==
  ASSUME TypeOK, NEW S \in SUBSET Slots, Best(S) = NoSlot
  PROVE  S = {}
<1> SUFFICES ASSUME S # {} PROVE FALSE
  OBVIOUS
<1>1. priorities \in [Slots -> Nat]
  BY TablesAssumption DEF TypeOK
<1>2. Best(S) \in S
  BY <1>1, BestExists DEF Best
<1>3. QED
  BY <1>2 DEF Slots, NoSlot

(* PCT_thread_before_create finds a free slot: of the threads that are     *)
(* counted there are fewer than slots.                                     *)
LEMMA FreeSlotFound ==
  ASSUME IInv, RunnableCountsThreads, BirthInv, InStep, Cardinality(Threads) <= MAX_THREADS,
         NEW t \in Threads, pc[t] = "create_slot"
  PROVE  find_next_available_thread # NoSlot
<1> SUFFICES ASSUME find_next_available_thread = NoSlot PROVE FALSE
  OBVIOUS
<1>1. TypeOK /\ MainLockExclusive /\ MAX_THREADS \in Nat
  BY SlotsAssumption DEF IInv
<1>2. At("create_number") = {} /\ At("term_count") = {}
  BY <1>1 DEF At, MainLockExclusive, InHandler, HandlerSteps
<1>3. InState("RUNNABLE") = Slots
  <2>1. InState("DEAD") \in SUBSET Slots
    BY DEF InState
  <2>2. InState("DEAD") = {}
    BY <1>1, <2>1, BestFinds DEF find_next_available_thread
  <2>3. ASSUME NEW s \in Slots PROVE g_threads[s].state \in {"DEAD", "RUNNABLE"}
    <3>1. g_threads[s] \in [state : {"DEAD", "RUNNABLE"},
                           thread_id : Threads \cup {None}, thread_number : Int]
      BY <1>1 DEF TypeOK
    <3>2. QED
      BY <3>1
  <2>4. QED
    BY <2>2, <2>3 DEF InState
<1>4. Cardinality(Slots) = MAX_THREADS
  BY <1>1, FS_Interval DEF Slots
<1>5. g_runnable_threads = MAX_THREADS
  <2>1. Cardinality({}) = 0 /\ g_runnable_threads \in Int
    BY <1>1, FS_EmptySet DEF TypeOK
  <2>2. QED
    BY <1>1, <1>2, <1>3, <1>4, <2>1 DEF InStep
<1>6. /\ IsFiniteSet(Registered) /\ IsFiniteSet(Unborn) /\ IsFiniteSet(Creating)
      /\ IsFiniteSet(Making)
      /\ Cardinality(Registered) \in Nat /\ Cardinality(Unborn) \in Nat
      /\ Cardinality(Creating) \in Nat /\ Cardinality(Making) \in Nat
      /\ Cardinality(Beginning) \in Nat
      /\ Cardinality(Threads) \in Nat /\ g_thread_count \in Nat
  BY <1>1, BirthSets, ThreadSetsFinite DEF TypeOK
<1>7. Cardinality(Registered) + Cardinality(Unborn) <= Cardinality(Threads)
  <2>1. Registered \cap Unborn = {} /\ Registered \cup Unborn \in SUBSET Threads
    BY DEF Registered, Unborn, At
  <2>2. Cardinality(Registered \cup Unborn)
          = Cardinality(Registered) + Cardinality(Unborn) - Cardinality(Registered \cap Unborn)
    BY <1>6, FS_Union
  <2>3. Cardinality(Registered \cup Unborn) <= Cardinality(Threads)
    BY <2>1, ThreadSetsFinite
  <2>4. Cardinality(Registered \cap Unborn) = 0
    BY <2>1, FS_EmptySet
  <2>5. QED
    BY <1>6, <2>2, <2>3, <2>4
<1>8. Cardinality(Creating) + 1 <= Cardinality(Making)
  <2>1. t \notin Creating /\ Creating \cup {t} \subseteq Making
    BY DEF Creating, Making
  <2>2. Cardinality(Creating \cup {t}) = Cardinality(Creating) + 1
    BY <1>6, <2>1, FS_AddElement
  <2>3. Cardinality(Creating \cup {t}) <= Cardinality(Making)
    BY <1>6, <2>1, FS_Subset
  <2>4. QED
    BY <2>2, <2>3
<1>9. QED
  BY <1>1, <1>5, <1>6, <1>7, <1>8 DEF BirthInv, RunnableCountsThreads

(* The search for the next thread to run comes up empty only when every    *)
(* thread there was has unregistered.                                      *)
LEMMA NobodyLeft ==
  ASSUME IInv, RunnableCountsThreads, InStep,
         NEW t \in Threads, pc[t] \in {"after_find", "term_find"},
         find_highest_priority = NoSlot
  PROVE  /\ pc[t] = "term_find"
         /\ g_runnable_threads = 0
         /\ \A u \in Threads \ {t} : pc[u] \in {"unborn", "term_post", "done"}
<1>1. TypeOK /\ MainLockExclusive
  BY DEF IInv
<1>2. At("create_number") = {} /\ At("term_count") = {}
  BY <1>1 DEF At, MainLockExclusive, InHandler, HandlerSteps
<1>3. InState("RUNNABLE") = {}
  <2>1. InState("RUNNABLE") \in SUBSET Slots
    BY DEF InState
  <2>2. QED
    BY <1>1, <2>1, BestFinds DEF find_highest_priority
<1>4. g_runnable_threads = 0
  <2>1. Cardinality({}) = 0 /\ g_runnable_threads \in Int
    BY <1>1, FS_EmptySet DEF TypeOK
  <2>2. QED
    BY <1>2, <1>3, <2>1 DEF InStep
<1>5. Registered = {}
  <2>1. Cardinality(Registered) = 0
    BY <1>4, SetsFinite DEF RunnableCountsThreads
  <2>2. QED
    BY <2>1, SetsFinite, FS_EmptySet
<1>6. \A u \in Threads : pc[u] \in {"unborn", "term_stop", "term_find", "term_post", "done"}
  BY <1>5 DEF Registered
<1>7. InHandler(t) /\ \A u \in Threads : pc[u] \in {"term_stop", "term_find"} => InHandler(u)
  BY DEF InHandler, HandlerSteps
<1>8. \A u \in Threads \ {t} : pc[u] \notin {"term_stop", "term_find"}
  BY <1>1, <1>7 DEF MainLockExclusive
<1>9. QED
  BY <1>4, <1>6, <1>8

-----------------------------------------------------------------------------
(* What a yield has picked is a slot. *)

PickInv == \A t \in Threads : pc[t] \in {"yield_old", "yield_switch"} => thread_pick[t] # NoSlot

(* main() was not started by the library, and does not end like a thread   *)
(* that was.                                                               *)
MainInv == pc[Main] \notin {"unborn", "failed", "start_set", "return_set"}

(* Where a step takes the thread that makes it, and what it leaves of the  *)
(* local variables of the others.                                          *)
Turns(t) ==
  /\ pc[t] \notin {"unborn", "failed", "done", "returned"}
  /\ pc'[t] \notin {"unborn", "failed", "start_set"}
  /\ pc'[t] = "return_set" => t # Main
  /\ pc[t] = "term_post" => pc'[t] = "done"
  /\ pc'[t] = "yield_old" => thread_pick'[t] # NoSlot
  /\ pc'[t] = "yield_switch" => /\ pc[t] = "yield_old"
                                /\ thread_pick'[t] = thread_pick[t]
                                /\ waiting_on'[t] = g_current_thread
  /\ pc'[t] \in {"yield_post", "yield_wait"} => /\ pc[t] \in {"yield_switch", "yield_post"}
                                                /\ waiting_on'[t] = waiting_on[t]
  /\ thread_index'[t] = thread_index[t]
  /\ \A u \in Threads \ {t} : /\ thread_pick'[u] = thread_pick[u]
                              /\ waiting_on'[u] = waiting_on[u]
  /\ UNCHANGED fault

(* Nobody but the thread t is anywhere else after the step than before.    *)
Alone(t) ==
  \A u \in Threads \ {t} : pc'[u] = pc[u] /\ thread_index'[u] = thread_index[u]

(* Another thread is born, with g_current_thread for its slot, or will     *)
(* never be.                                                               *)
Bears(t) ==
  /\ pc[t] = "create_spawn"
  /\ \A u \in Threads \ {t} :
       \/ pc'[u] = pc[u] /\ thread_index'[u] = thread_index[u]
       \/ pc[u] = "unborn" /\ pc'[u] = "failed"
       \/ pc[u] = "unborn" /\ pc'[u] = "start_set" /\ thread_index'[u] = g_current_thread
  /\ \A u, v \in Threads \ {t} : pc'[u] # pc[u] /\ pc'[v] # pc[v] => u = v

(* A step within the bounds of the tables is of this kind.                 *)
LEMMA TurnStep ==
  ASSUME TypeOK, NEW t \in Threads, Client(t) \/ Inside(t), ~ IndexOutOfBounds(t)
  PROVE  Turns(t) /\ (Alone(t) \/ Bears(t))
<1> USE DEF TypeOK, Moves, Goto, Turns, Alone, locals
<1>1. CASE CallCreate(t) \/ CallReturn(t) \/ CallExit(t) \/ CallYield(t)
  BY <1>1 DEF CallCreate, CallReturn, CallExit, CallYield
<1>2. CASE \E m \in Mutexes : CallLock(t, m) \/ CallTrylock(t, m) \/ CallUnlock(t, m)
  BY <1>2 DEF CallLock, CallTrylock, CallUnlock, CallMutex
<1>3. CASE PCT(t)
  BY <1>3 DEF PCT, FirstStep
<1>4. CASE PCT_DO_NOTHING(t)
  BY <1>4 DEF PCT_DO_NOTHING, AfterNothing
<1>5. CASE CountThread(t) \/ ReserveSlot(t) \/ MarkRunnable(t) \/ NumberThread(t)
  BY <1>5 DEF CountThread, ReserveSlot, MarkRunnable, NumberThread
<1>6. CASE Spawn(t)
  <2>1. Turns(t)
    BY <1>6 DEF Spawn
  <2>2. Bears(t)
    BY <1>6 DEF Spawn, Bears
  <2>3. QED
    BY <2>1, <2>2
<1>7. CASE ChooseAfterCreate(t) \/ PostAfterCreate(t)
  BY <1>7 DEF ChooseAfterCreate, PostAfterCreate
<1>8. CASE AnnounceStart(t) \/ StoreThreadId(t) \/ AddressStart(t)
  BY <1>8 DEF AnnounceStart, StoreThreadId, AddressStart
<1>9. CASE WaitSlot(t)
  BY <1>9 DEF WaitSlot
<1>10. CASE AnnounceReturn(t) \/ ReadExitNumber(t) \/ MarkDead(t) \/ Uncount(t)
  BY <1>10 DEF AnnounceReturn, ReadExitNumber, MarkDead, Uncount
<1>11. CASE StopCurrent(t) \/ ChooseNext(t) \/ PostNext(t)
  BY <1>11 DEF StopCurrent, ChooseNext, PostNext
<1>12. CASE CompareOther(t) \/ FindOther(t)
  BY <1>12 DEF CompareOther, FindOther
<1>13. CASE RememberOld(t)
  BY <1>13 DEF RememberOld
<1>14. CASE SwitchCurrent(t) \/ PostYield(t)
  BY <1>14 DEF SwitchCurrent, PostYield
<1>15. CASE Mutex(t)
  BY <1>15 DEF Mutex, SetMutex, TryInsideLock, TrylockHandler, TakeGeneralLock, OrigTrylock
<1>16. QED
  BY <1>1, <1>2, <1>3, <1>4, <1>5, <1>6, <1>7, <1>8, <1>9, <1>10, <1>11, <1>12, <1>13,
     <1>14, <1>15 DEF Client, Inside, Create, Start, Terminate, Yield

(* What g_current_thread is set to: the result of a search, the slot a     *)
(* starting or returning thread was given, or what a yield has picked.     *)
LEMMA CurrentStep ==
  ASSUME TypeOK, NEW t \in Threads, Client(t) \/ Inside(t),
         g_current_thread' # g_current_thread
  PROVE  \/ pc[t] = "create_slot" /\ g_current_thread' = find_next_available_thread
         \/ /\ pc[t] = "after_find" \/ (pc[t] = "term_find" /\ pc'[t] = "term_post")
            /\ g_current_thread' = find_highest_priority
         \/ /\ pc[t] \in {"start_set", "return_set"}
            /\ pc'[t] # pc[t]
            /\ g_current_thread' = thread_index[t]
         \/ pc[t] = "yield_switch" /\ g_current_thread' = thread_pick[t]
<1>1. CASE ReserveSlot(t)
  BY <1>1 DEF ReserveSlot, Moves
<1>2. CASE ChooseAfterCreate(t) \/ ChooseNext(t)
  BY <1>2 DEF TypeOK, ChooseAfterCreate, ChooseNext, Moves, Goto
<1>3. CASE AnnounceStart(t) \/ AnnounceReturn(t)
  BY <1>3 DEF TypeOK, AnnounceStart, AnnounceReturn, Moves, Goto
<1>4. CASE SwitchCurrent(t)
  BY <1>4 DEF SwitchCurrent, Moves
<1>5. CASE ~ (\/ ReserveSlot(t) \/ ChooseAfterCreate(t) \/ ChooseNext(t)
              \/ AnnounceStart(t) \/ AnnounceReturn(t) \/ SwitchCurrent(t))
  BY <1>5 DEF Client, CallCreate, CallReturn, CallExit, CallYield, CallLock, CallTrylock,
       CallUnlock, CallMutex, Inside, PCT, PCT_DO_NOTHING,
       Create, CountThread, MarkRunnable, NumberThread, Spawn, PostAfterCreate,
       Start, StoreThreadId, AddressStart, WaitSlot,
       Terminate, ReadExitNumber, MarkDead, Uncount, StopCurrent, PostNext,
       Yield, CompareOther, FindOther, RememberOld, PostYield,
       Mutex, SetMutex, TryInsideLock, TrylockHandler, TakeGeneralLock, OrigTrylock,
       IndexOutOfBounds, current
<1>6. QED
  BY <1>1, <1>2, <1>3, <1>4, <1>5

(* Both hold of every reachable state, drift or not.                       *)
LEMMA PickInvariance == Spec => [](PickInv /\ MainInv)
<1>1. Init => PickInv /\ MainInv
  BY ThreadsAssumption DEF Init, PickInv, MainInv
<1>2. IInv /\ PickInv /\ MainInv /\ [Next]_vars => (PickInv /\ MainInv)'
  <2> SUFFICES ASSUME IInv, PickInv, MainInv, [Next]_vars PROVE (PickInv /\ MainInv)'
    OBVIOUS
  <2>1. ASSUME NEW t \in Threads, Client(t) \/ Inside(t), ~ IndexOutOfBounds(t)
        PROVE  (PickInv /\ MainInv)'
    <3>1. Turns(t) /\ (Alone(t) \/ Bears(t))
      BY <2>1, TurnStep DEF IInv
    <3>2. PickInv'
      BY <3>1 DEF PickInv, Turns, Alone, Bears
    <3>3. MainInv'
      BY <3>1, ThreadsAssumption DEF MainInv, Turns, Alone, Bears
    <3>4. QED
      BY <3>2, <3>3
  <2>2. ASSUME NEW t \in Threads, IndexOutOfBounds(t) PROVE (PickInv /\ MainInv)'
    BY <2>2 DEF IndexOutOfBounds, locals, PickInv, MainInv
  <2>3. CASE UNCHANGED vars
    BY <2>3 DEF vars, locals, PickInv, MainInv
  <2>4. QED
    BY <2>1, <2>2, <2>3 DEF Next, ClientStep, LibraryStep
<1>3. QED
  BY Invariance, <1>1, <1>2, PTL DEF Spec

-----------------------------------------------------------------------------
(* -1 and the drift between slots and counter *)

(* A -1 gets into g_current_thread only while slots and counter are out of *)
(* step, or when nobody is left to use it, or from the slot that a thread  *)
(* was given.                                                              *)
THEOREM EmptySearches == Spec => EmptySearchMeansDrift
<1> DEFINE Found ==
      g_current_thread' = NoSlot /\ g_current_thread # NoSlot =>
        \/ ~ InStep
        \/ g_runnable_threads = 0
        \/ Cardinality(Threads) > MAX_THREADS
        \/ \E t \in Threads : /\ pc[t] \in {"start_set", "return_set"}
                              /\ pc'[t] # pc[t]
                              /\ thread_index[t] = NoSlot
<1>1. IInv /\ RunnableCountsThreads /\ BirthInv /\ PickInv /\ [Next]_vars => [Found]_vars
  <2> SUFFICES ASSUME IInv, RunnableCountsThreads, BirthInv, PickInv, Next,
                      g_current_thread' = NoSlot, g_current_thread # NoSlot,
                      InStep, ~ (Cardinality(Threads) > MAX_THREADS)
               PROVE  \/ g_runnable_threads = 0
                      \/ \E t \in Threads : /\ pc[t] \in {"start_set", "return_set"}
                                            /\ pc'[t] # pc[t]
                                            /\ thread_index[t] = NoSlot
    BY DEF vars
  <2>1. PICK t \in Threads : Client(t) \/ Inside(t)
    BY DEF Next, ClientStep, LibraryStep
  <2>2. Cardinality(Threads) <= MAX_THREADS
    BY FiniteAssumption, FS_CardinalityType, SlotsAssumption
  <2>3. CASE pc[t] = "create_slot" /\ g_current_thread' = find_next_available_thread
    BY <2>2, <2>3, FreeSlotFound
  <2>4. CASE /\ pc[t] \in {"after_find", "term_find"}
             /\ g_current_thread' = find_highest_priority
    BY <2>4, NobodyLeft
  <2>5. CASE /\ pc[t] \in {"start_set", "return_set"}
             /\ pc'[t] # pc[t]
             /\ g_current_thread' = thread_index[t]
    BY <2>5
  <2>6. CASE pc[t] = "yield_switch" /\ g_current_thread' = thread_pick[t]
    BY <2>6 DEF PickInv
  <2>7. QED
    BY <2>1, <2>3, <2>4, <2>5, <2>6, CurrentStep DEF IInv
<1>2. QED
  BY Invariance, CounterIsExact, BirthInvariance, PickInvariance, <1>1, PTL
  DEF Spec, EmptySearchMeansDrift

(* While slots and counter have always been in step, -1 is nowhere where   *)
(* a step could index with it.                                             *)
SlotInv ==
  /\ g_current_thread = NoSlot => \A t \in Threads : pc[t] \in {"unborn", "term_post", "done"}
  /\ \A t \in Threads \ {Main} : pc[t] \notin {"unborn", "failed"} => thread_index[t] # NoSlot
  /\ \A t \in Threads :
       pc[t] \in {"yield_switch", "yield_post", "yield_wait"} => waiting_on[t] # NoSlot
  /\ ~ fault

(* No step is out of bounds then.                                          *)
LEMMA WithinBounds ==
  ASSUME IInv, RunnableCountsThreads, SlotInv, NEW t \in Threads
  PROVE  ~ IndexOutOfBounds(t)
<1> SUFFICES ASSUME Indexes(t), Index(t) = NoSlot PROVE FALSE
  BY DEF IndexOutOfBounds
<1>1. CASE pc[t] = "yield_wait"
  BY <1>1 DEF SlotInv, Index
<1>2. CASE pc[t] # "yield_wait"
  <2>1. \A u \in Threads : pc[u] \in {"unborn", "term_post", "done"}
    BY <1>2 DEF SlotInv, Index
  <2>2. pc[t] = "term_post" /\ g_runnable_threads > 0
    BY <2>1 DEF Indexes
  <2>3. Registered = {} /\ Creating = {}
    BY <2>1 DEF Registered, Creating
  <2>4. g_runnable_threads = 0
    BY <2>3, FS_EmptySet DEF RunnableCountsThreads
  <2>5. QED
    BY <2>2, <2>4
<1>3. QED
  BY <1>1, <1>2

(* A step from a state in step keeps -1 out.                               *)
LEMMA SlotStep ==
  ASSUME IInv, RunnableCountsThreads, BirthInv, PickInv, MainInv, SlotInv, InStep,
         Cardinality(Threads) <= MAX_THREADS, NEW t \in Threads, Client(t) \/ Inside(t)
  PROVE  SlotInv'
<1>1. Turns(t) /\ (Alone(t) \/ Bears(t))
  BY WithinBounds, TurnStep DEF IInv
<1>2. g_current_thread = NoSlot => pc[t] = "term_post"
  BY <1>1 DEF SlotInv, Turns
<1>3. ASSUME NEW u \in Threads \ {Main}, pc'[u] \notin {"unborn", "failed"}
      PROVE  thread_index'[u] # NoSlot
  <2>1. CASE u = t
    BY <1>1, <1>3, <2>1 DEF SlotInv, Turns
  <2>2. CASE u # t
    BY <1>1, <1>2, <1>3, <2>2 DEF SlotInv, Alone, Bears
  <2>3. QED
    BY <2>1, <2>2
<1>4. ASSUME NEW u \in Threads, pc'[u] \in {"yield_switch", "yield_post", "yield_wait"}
      PROVE  waiting_on'[u] # NoSlot
  <2>1. CASE u = t
    BY <1>1, <1>2, <1>4, <2>1 DEF SlotInv, Turns
  <2>2. CASE u # t
    BY <1>1, <1>4, <2>2 DEF SlotInv, Turns, Alone, Bears
  <2>3. QED
    BY <2>1, <2>2
<1>5. ASSUME g_current_thread' = NoSlot, NEW u \in Threads
      PROVE  pc'[u] \in {"unborn", "term_post", "done"}
  <2>1. CASE g_current_thread = NoSlot
    BY <1>1, <1>2, <2>1 DEF SlotInv, Turns, Alone, Bears
  <2>2. CASE g_current_thread # NoSlot
    <3>1. ~ (pc[t] = "create_slot" /\ g_current_thread' = find_next_available_thread)
      BY <1>5, FreeSlotFound
    <3>2. ~ (pc[t] = "yield_switch" /\ g_current_thread' = thread_pick[t])
      BY <1>5 DEF PickInv
    <3>3. ~ (pc[t] \in {"start_set", "return_set"} /\ g_current_thread' = thread_index[t])
      BY <1>5 DEF SlotInv, MainInv
    <3>4. /\ pc[t] = "after_find" \/ (pc[t] = "term_find" /\ pc'[t] = "term_post")
          /\ g_current_thread' = find_highest_priority
      BY <1>5, <2>2, <3>1, <3>2, <3>3, CurrentStep DEF IInv
    <3>5. /\ pc[t] = "term_find" /\ pc'[t] = "term_post"
          /\ \A v \in Threads \ {t} : pc[v] \in {"unborn", "term_post", "done"}
      BY <1>5, <3>4, NobodyLeft
    <3>6. QED
      BY <1>1, <3>5 DEF Alone, Bears
  <2>3. QED
    BY <2>1, <2>2
<1>6. QED
  BY <1>1, <1>3, <1>4, <1>5 DEF SlotInv, Turns

(* A run in which slots and counter never get out of step never indexes    *)
(* g_threads or g_semaphores with -1.                                      *)
THEOREM FaultsNeedDrift == Spec => FaultNeedsDrift
<1>1. CASE Cardinality(Threads) <= MAX_THREADS
  <2>1. Init => SlotInv
    BY SlotsAssumption DEF Init, SlotInv, NoSlot
  <2>2. /\ IInv /\ RunnableCountsThreads /\ BirthInv /\ PickInv /\ MainInv
        /\ SlotInv /\ InStep /\ [Next]_vars
        => SlotInv'
    <3> SUFFICES ASSUME IInv, RunnableCountsThreads, BirthInv, PickInv, MainInv,
                        SlotInv, InStep, [Next]_vars
                 PROVE  SlotInv'
      OBVIOUS
    <3>1. CASE Next
      BY <1>1, <3>1, SlotStep DEF Next, ClientStep, LibraryStep
    <3>2. CASE UNCHANGED vars
      BY <3>2 DEF vars, current, locals, SlotInv
    <3>3. QED
      BY <3>1, <3>2
  <2>3. SlotInv => ~ fault
    BY DEF SlotInv
  <2>4. QED
    BY Invariance, CounterIsExact, BirthInvariance, PickInvariance, <2>1, <2>2, <2>3, PTL
    DEF Spec, FaultNeedsDrift
<1>2. CASE ~ (Cardinality(Threads) <= MAX_THREADS)
  BY <1>2 DEF FaultNeedsDrift
<1>3. QED
  BY <1>1, <1>2

-----------------------------------------------------------------------------
(* Undisturbed runs.  The step of a thread, by where it leads: which label *)
(* it comes from, whose slot is current then, and what becomes of the      *)
(* slots and the counter.                                                  *)

SetsState(s, state) == g_threads' = [g_threads EXCEPT ![s].state = state]

(* The handlers of a creation and of a start. *)
Arrives(t) ==
  /\ pc'[t] = "create_mark" =>
       pc[t] = "create_slot" /\ g_current_thread' = find_next_available_thread
  /\ pc'[t] = "create_number" =>
       /\ pc[t] = "create_mark" /\ g_current_thread \in Slots
       /\ SetsState(g_current_thread, "RUNNABLE")
  /\ pc'[t] = "create_spawn" => pc[t] = "create_number"
  /\ pc'[t] = "start_enter" => pc[t] = "start_set" /\ g_current_thread' = thread_index[t]
  /\ pc'[t] = "start_tid" => pc[t] = "start_enter"
  /\ pc'[t] = "start_addr" => pc[t] = "start_tid"
  /\ pc'[t] = "start_wait" => pc[t] = "start_addr" /\ waiting_on'[t] = g_current_thread
  /\ pc[t] = "create_mark" => pc'[t] = "create_number"
  /\ pc[t] = "create_number" => pc'[t] = "create_spawn"

(* The end of a thread. *)
Departs(t) ==
  /\ pc'[t] = "term_enter" => \/ pc[t] = "return_set" /\ g_current_thread' = thread_index[t]
                              \/ pc[t] = "exit_general"
  /\ pc'[t] = "term_mark" => pc[t] = "term_enter"
  /\ pc'[t] = "term_count" =>
       /\ pc[t] = "term_mark" /\ g_current_thread \in Slots
       /\ SetsState(g_current_thread, "DEAD")
  /\ pc[t] = "term_count" => pc'[t] = "term_stop"
  /\ pc[t] = "term_stop" => pc'[t] = "term_find"
  /\ pc[t] = "term_find" => pc'[t] = "term_post"
  /\ pc[t] = "term_post" => pc'[t] = "done"

(* The variables all share. *)
Shares(t) ==
  /\ pc'[t] \notin {"create_number", "term_count"} =>
       \A s \in Slots : g_threads'[s].state = g_threads[s].state
  /\ g_current_thread' = g_current_thread \/ t \in Relying'
  /\ pc'[t] \in {"create_number", "create_spawn", "start_tid", "start_addr", "start_wait",
                 "term_mark", "term_count"}
       => g_current_thread' = g_current_thread
  /\ pc'[t] = "term_enter" /\ pc[t] = "exit_general" => g_current_thread' = g_current_thread
  /\ g_runnable_threads' = CASE pc[t] = "create_number" -> g_runnable_threads + 1
                             [] pc[t] = "term_count" -> g_runnable_threads - 1
                             [] OTHER -> g_runnable_threads

(* Every step within the bounds is of this kind.                           *)
LEMMA FlowStep ==
  ASSUME TypeOK, NEW t \in Threads, Client(t) \/ Inside(t), ~ IndexOutOfBounds(t)
  PROVE  Arrives(t) /\ Departs(t) /\ Shares(t)
<1> USE DEF TypeOK, Moves, Goto, Arrives, Departs, Shares, SetsState, Relying, table, current
<1>1. CASE CallCreate(t) \/ CallReturn(t) \/ CallExit(t) \/ CallYield(t)
  BY <1>1 DEF CallCreate, CallReturn, CallExit, CallYield
<1>2. CASE \E m \in Mutexes : CallLock(t, m) \/ CallTrylock(t, m) \/ CallUnlock(t, m)
  BY <1>2 DEF CallLock, CallTrylock, CallUnlock, CallMutex
<1>3. CASE PCT(t)
  BY <1>3 DEF PCT, FirstStep
<1>4. CASE PCT_DO_NOTHING(t)
  BY <1>4 DEF PCT_DO_NOTHING, AfterNothing
<1>5. CASE CountThread(t) \/ ReserveSlot(t)
  BY <1>5 DEF CountThread, ReserveSlot
<1>6. CASE MarkRunnable(t)
  BY <1>6 DEF MarkRunnable
<1>7. CASE NumberThread(t)
  BY <1>7 DEF NumberThread
<1>8. CASE Spawn(t)
  <2>1. pc[t] = "create_spawn" /\ pc'[t] = "after_enter"
    BY <1>8 DEF Spawn
  <2>2. UNCHANGED <<table, current>>
    BY <1>8 DEF Spawn
  <2>3. QED
    BY <2>1, <2>2
<1>9. CASE ChooseAfterCreate(t) \/ PostAfterCreate(t)
  BY <1>9 DEF ChooseAfterCreate, PostAfterCreate
<1>10. CASE AnnounceStart(t) \/ AddressStart(t)
  BY <1>10 DEF AnnounceStart, AddressStart
<1>11. CASE StoreThreadId(t)
  BY <1>11 DEF StoreThreadId
<1>12. CASE WaitSlot(t)
  BY <1>12 DEF WaitSlot
<1>13. CASE AnnounceReturn(t) \/ ReadExitNumber(t)
  BY <1>13 DEF AnnounceReturn, ReadExitNumber
<1>14. CASE MarkDead(t)
  BY <1>14 DEF MarkDead
<1>15. CASE Uncount(t)
  BY <1>15 DEF Uncount
<1>16. CASE StopCurrent(t) \/ ChooseNext(t) \/ PostNext(t)
  BY <1>16 DEF StopCurrent, ChooseNext, PostNext
<1>17. CASE CompareOther(t) \/ FindOther(t)
  BY <1>17 DEF CompareOther, FindOther
<1>18. CASE RememberOld(t) \/ SwitchCurrent(t) \/ PostYield(t)
  BY <1>18 DEF RememberOld, SwitchCurrent, PostYield
<1>19. CASE Mutex(t)
  BY <1>19 DEF Mutex, SetMutex, TryInsideLock, TrylockHandler, TakeGeneralLock, OrigTrylock
<1>20. QED
  BY <1>1, <1>2, <1>3, <1>4, <1>5, <1>6, <1>7, <1>8, <1>9, <1>10, <1>11, <1>12, <1>13, <1>14,
     <1>15, <1>16, <1>17, <1>18, <1>19
  DEF Client, Inside, Create, Start, Terminate, Yield

Live(t) == pc[t] \notin {"unborn", "failed", "done"}

Draining(t) == pc[t] \in {"term_count", "term_stop", "term_find", "term_post"}

Told(t) ==
  pc[t] \in {"start_enter", "start_tid", "start_addr", "term_enter", "term_mark"}

Reserved == {t \in Threads : pc[t] \in {"create_number", "create_spawn"}}

(* Live threads have different slots, runnable until they are marked dead. *)
ApartInv ==
  /\ \A t \in Threads : Live(t) => OwnSlot(t) \in Slots
  /\ \A t, u \in Threads : Live(t) /\ Live(u) /\ OwnSlot(t) = OwnSlot(u) => t = u
  /\ \A t \in Threads : Live(t) /\ ~ Draining(t) => g_threads[OwnSlot(t)].state = "RUNNABLE"

(* In g_current_thread is a free slot, then the one reserved for the new   *)
(* thread, for a thread that creates another; and its own for one that     *)
(* starts or ends.                                                         *)
CurrentInv ==
  /\ \A t \in At("create_mark") :
       g_current_thread \in Slots => g_threads[g_current_thread].state = "DEAD"
  /\ \A t \in Reserved :
       /\ g_current_thread \in Slots /\ g_threads[g_current_thread].state = "RUNNABLE"
       /\ \A u \in Threads : Live(u) => OwnSlot(u) # g_current_thread
  /\ \A t \in Threads : Told(t) => g_current_thread = OwnSlot(t)
  /\ \A t \in At("start_wait") : waiting_on[t] = OwnSlot(t)

OwnInv == ApartInv /\ CurrentInv /\ InStep

(* What holds of the step of t in an undisturbed run.                      *)
Flows(t) ==
  /\ Turns(t) /\ (Alone(t) \/ Bears(t))
  /\ Arrives(t) /\ Departs(t) /\ Shares(t)

(* Who is live after a step was so before, with the same slot, or is born  *)
(* with the slot that was reserved.                                        *)
LEMMA LiveStep ==
  ASSUME NEW t \in Threads, Flows(t), MainInv, NEW u \in Threads, Live(u)'
  PROVE  \/ Live(u) /\ OwnSlot(u)' = OwnSlot(u) /\ (u # t => pc'[u] = pc[u])
         \/ /\ pc[t] = "create_spawn" /\ u # t
            /\ pc[u] = "unborn" /\ pc'[u] = "start_set" /\ OwnSlot(u)' = g_current_thread
  BY DEF Flows, Turns, Alone, Bears, Live, OwnSlot, MainInv

(* While a thread relies on g_current_thread, neither it nor a slot's      *)
(* state is changed by another one, and nobody is born but for it.         *)
LEMMA ReliedOn ==
  ASSUME NEW t \in Threads, Flows(t), Undisturbed, Undisturbed',
         NEW u \in Threads \ {t}, u \in Relying'
  PROVE  /\ pc[u] = pc'[u] \/ pc'[u] = "start_set"
         /\ g_current_thread' = g_current_thread
         /\ \A s \in Slots : g_threads'[s].state = g_threads[s].state
         /\ Alone(t)
<1>1. pc'[u] # "start_set" /\ pc'[u] # "failed"
  BY DEF Relying
<1>2. pc[u] = pc'[u]
  BY <1>1 DEF Flows, Alone, Bears
<1>3. u \in Relying
  BY <1>2 DEF Relying
<1>4. t \notin Relying' /\ t \notin Relying
  BY <1>3 DEF Undisturbed
<1>5. pc[t] # "create_spawn" /\ pc'[t] \notin {"create_number", "term_count"}
  BY <1>4 DEF Relying
<1>6. QED
  BY <1>2, <1>4, <1>5 DEF Flows, Shares, Bears

LEMMA ApartStep ==
  ASSUME IInv, MainInv, OwnInv, NEW t \in Threads, Flows(t)
  PROVE  ApartInv'
<1>1. pc[t] = "create_spawn" =>
        /\ g_current_thread \in Slots /\ g_threads[g_current_thread].state = "RUNNABLE"
        /\ \A u \in Threads : Live(u) => OwnSlot(u) # g_current_thread
  BY DEF OwnInv, CurrentInv, Reserved
<1>2. ASSUME NEW u \in Threads, Live(u)' PROVE OwnSlot(u)' \in Slots
  BY <1>1, <1>2, LiveStep DEF OwnInv, ApartInv
<1>3. ASSUME NEW u \in Threads, NEW v \in Threads, Live(u)', Live(v)', OwnSlot(u)' = OwnSlot(v)'
      PROVE  u = v
  <2>1. CASE Live(u) /\ Live(v) /\ OwnSlot(u)' = OwnSlot(u) /\ OwnSlot(v)' = OwnSlot(v)
    BY <1>3, <2>1 DEF OwnInv, ApartInv
  <2>2. CASE /\ pc[t] = "create_spawn" /\ u # t /\ v # t
             /\ pc[u] = "unborn" /\ pc'[u] = "start_set"
             /\ pc[v] = "unborn" /\ pc'[v] = "start_set"
    BY <2>2 DEF Flows, Alone, Bears
  <2>3. CASE \/ Live(u) /\ OwnSlot(u)' = OwnSlot(u) /\ OwnSlot(v)' = g_current_thread
             \/ Live(v) /\ OwnSlot(v)' = OwnSlot(v) /\ OwnSlot(u)' = g_current_thread
    <3>1. CASE pc[t] = "create_spawn"
      BY <1>1, <1>3, <2>3, <3>1
    <3>2. CASE pc[t] # "create_spawn"
      BY <1>3, <2>1, <3>2, LiveStep
    <3>3. QED
      BY <3>1, <3>2
  <2>4. QED
    BY <1>3, <2>1, <2>2, <2>3, LiveStep
<1>4. ASSUME NEW u \in Threads, Live(u)', ~ Draining(u)'
      PROVE  g_threads'[OwnSlot(u)'].state = "RUNNABLE"
  <2>1. CASE /\ pc[t] = "create_spawn" /\ u # t
             /\ pc[u] = "unborn" /\ pc'[u] = "start_set" /\ OwnSlot(u)' = g_current_thread
    BY <1>1, <2>1 DEF Flows, Arrives, Departs, Shares
  <2>2. CASE Live(u) /\ OwnSlot(u)' = OwnSlot(u) /\ (u # t => pc'[u] = pc[u])
    <3>1. ~ Draining(u)
      BY <1>4, <2>2 DEF Draining, Live, Flows, Departs
    <3>2. OwnSlot(u) \in Slots /\ g_threads[OwnSlot(u)].state = "RUNNABLE"
      BY <2>2, <3>1 DEF OwnInv, ApartInv
    <3>3. CASE pc'[t] = "create_number"
      BY <2>2, <3>2, <3>3 DEF Flows, Arrives, SetsState, IInv, TypeOK
    <3>4. CASE pc'[t] = "term_count"
      <4>1. pc[t] = "term_mark" /\ SetsState(g_current_thread, "DEAD")
        BY <3>4 DEF Flows, Departs
      <4>2. g_current_thread = OwnSlot(t) /\ Live(t) /\ u # t
        BY <1>4, <3>4, <4>1 DEF OwnInv, CurrentInv, Told, Live, Draining
      <4>3. OwnSlot(u) # g_current_thread
        BY <2>2, <4>2 DEF OwnInv, ApartInv
      <4>4. QED
        BY <2>2, <3>2, <4>1, <4>3 DEF SetsState, IInv, TypeOK
    <3>5. CASE pc'[t] \notin {"create_number", "term_count"}
      BY <2>2, <3>2, <3>5 DEF Flows, Shares
    <3>6. QED
      BY <3>3, <3>4, <3>5
  <2>3. QED
    BY <1>4, <2>1, <2>2, LiveStep
<1>5. QED
  BY <1>2, <1>3, <1>4 DEF ApartInv

LEMMA CurrentInvStep ==
  ASSUME IInv, MainInv, OwnInv, NEW t \in Threads, Flows(t), Undisturbed, Undisturbed'
  PROVE  CurrentInv'
<1>1. ASSUME NEW u \in Threads, pc'[u] = "create_mark", g_current_thread' \in Slots
      PROVE  g_threads'[g_current_thread'].state = "DEAD"
  <2>1. CASE u = t
    <3>1. g_current_thread' = Best(InState("DEAD"))
      BY <1>1, <2>1 DEF Flows, Arrives, find_next_available_thread
    <3>2. priorities \in [Slots -> Nat] /\ InState("DEAD") \in SUBSET Slots
      BY TablesAssumption DEF IInv, TypeOK, InState
    <3>3. g_current_thread' \in InState("DEAD")
      BY <1>1, <3>1, <3>2, BestType DEF Slots, NoSlot
    <3>4. QED
      BY <1>1, <2>1, <3>3 DEF Flows, Shares, InState
  <2>2. CASE u # t
    <3>1. u \in Relying'
      BY <1>1 DEF Relying
    <3>2. QED
      BY <1>1, <2>2, <3>1, ReliedOn DEF OwnInv, CurrentInv, At
  <2>3. QED
    BY <2>1, <2>2
<1>2. ASSUME NEW u \in Threads, pc'[u] \in {"create_number", "create_spawn"}
      PROVE  /\ g_current_thread' \in Slots
             /\ g_threads'[g_current_thread'].state = "RUNNABLE"
             /\ \A v \in Threads : Live(v)' => OwnSlot(v)' # g_current_thread'
  <2>1. CASE u = t /\ pc'[t] = "create_number"
    <3>1. /\ pc[t] = "create_mark" /\ g_current_thread \in Slots
          /\ SetsState(g_current_thread, "RUNNABLE")
          /\ g_current_thread' = g_current_thread
      BY <2>1 DEF Flows, Arrives, Shares
    <3>2. g_threads[g_current_thread].state = "DEAD"
      BY <3>1 DEF OwnInv, CurrentInv, At
    <3>3. \A v \in Threads : ~ Draining(v)
      BY <3>1 DEF IInv, MainLockExclusive, InHandler, HandlerSteps, Draining
    <3>4. ASSUME NEW v \in Threads, Live(v)' PROVE OwnSlot(v)' # g_current_thread
      BY <3>1, <3>2, <3>3, <3>4, LiveStep DEF OwnInv, ApartInv
    <3>5. g_threads'[g_current_thread].state = "RUNNABLE"
      BY <3>1 DEF SetsState, IInv, TypeOK
    <3>6. QED
      BY <3>1, <3>4, <3>5
  <2>2. CASE u = t /\ pc'[t] = "create_spawn"
    <3>1. /\ pc[t] = "create_number" /\ g_current_thread' = g_current_thread
          /\ \A s \in Slots : g_threads'[s].state = g_threads[s].state
      BY <2>2 DEF Flows, Arrives, Shares
    <3>2. /\ g_current_thread \in Slots /\ g_threads[g_current_thread].state = "RUNNABLE"
          /\ \A v \in Threads : Live(v) => OwnSlot(v) # g_current_thread
      BY <3>1 DEF OwnInv, CurrentInv, Reserved
    <3>3. ASSUME NEW v \in Threads, Live(v)' PROVE OwnSlot(v)' # g_current_thread
      BY <3>1, <3>2, <3>3, LiveStep
    <3>4. QED
      BY <3>1, <3>2, <3>3
  <2>3. CASE u # t
    <3>1. u \in Relying'
      BY <1>2 DEF Relying
    <3>2. /\ pc'[u] = pc[u] /\ g_current_thread' = g_current_thread
          /\ \A s \in Slots : g_threads'[s].state = g_threads[s].state
          /\ Alone(t)
      BY <1>2, <2>3, <3>1, ReliedOn
    <3>3. /\ g_current_thread \in Slots /\ g_threads[g_current_thread].state = "RUNNABLE"
          /\ \A v \in Threads : Live(v) => OwnSlot(v) # g_current_thread
      BY <1>2, <3>2 DEF OwnInv, CurrentInv, Reserved
    <3>4. ASSUME NEW v \in Threads, Live(v)' PROVE Live(v) /\ OwnSlot(v)' = OwnSlot(v)
      BY <3>2, <3>4, LiveStep DEF Alone
    <3>5. QED
      BY <3>2, <3>3, <3>4
  <2>4. QED
    BY <1>2, <2>1, <2>2, <2>3
<1>3. ASSUME NEW u \in Threads, Told(u)' PROVE g_current_thread' = OwnSlot(u)'
  <2>1. Live(u)' /\ pc'[u] # "start_set"
    BY <1>3 DEF Told, Live
  <2>2. Live(u) /\ OwnSlot(u)' = OwnSlot(u) /\ (u # t => pc'[u] = pc[u])
    BY <2>1, LiveStep
  <2>3. CASE u = t
    <3>1. CASE pc'[t] \in {"start_enter", "term_enter"} /\ g_current_thread' = thread_index[t]
      BY <2>2, <2>3, <3>1 DEF Flows, Arrives, Departs, MainInv, OwnSlot, Undisturbed, At, Shares
    <3>2. CASE pc'[t] = "term_enter" /\ pc[t] = "exit_general"
      BY <2>2, <2>3, <3>2 DEF Flows, Shares, Undisturbed, At
    <3>3. CASE pc'[t] \in {"start_tid", "start_addr", "term_mark"}
      BY <2>2, <2>3, <3>3 DEF Flows, Arrives, Departs, Shares, OwnInv, CurrentInv, Told
    <3>4. QED
      BY <1>3, <2>3, <3>1, <3>2, <3>3 DEF Told, Flows, Arrives, Departs
  <2>4. CASE u # t
    <3>1. u \in Relying'
      BY <1>3 DEF Relying, Told
    <3>2. g_current_thread' = g_current_thread
      BY <2>4, <3>1, ReliedOn
    <3>3. QED
      BY <1>3, <2>2, <2>4, <3>2 DEF Told, OwnInv, CurrentInv
  <2>5. QED
    BY <2>3, <2>4
<1>4. ASSUME NEW u \in Threads, pc'[u] = "start_wait" PROVE waiting_on'[u] = OwnSlot(u)'
  <2>1. Live(u) /\ OwnSlot(u)' = OwnSlot(u) /\ (u # t => pc'[u] = pc[u])
    BY <1>4, LiveStep DEF Live
  <2>2. CASE u = t
    BY <1>4, <2>1, <2>2 DEF Flows, Arrives, OwnInv, CurrentInv, Told
  <2>3. CASE u # t
    BY <1>4, <2>1, <2>3 DEF Flows, Turns, OwnInv, CurrentInv, At
  <2>4. QED
    BY <2>2, <2>3
<1>5. QED
  BY <1>1, <1>2, <1>3, <1>4 DEF CurrentInv, At, Reserved

(* In an undisturbed run the slot marked runnable is a free one, and the   *)
(* slot marked dead is a runnable one, so that slots and counter change    *)
(* together.                                                               *)
LEMMA InStepKept ==
  ASSUME IInv, OwnInv, NEW t \in Threads, Flows(t)
  PROVE  InStep'
<1> DEFINE R == InState("RUNNABLE")
           C == At("create_number")
           D == At("term_count")
<1>1. /\ IsFiniteSet(R) /\ IsFiniteSet(C) /\ IsFiniteSet(D)
      /\ Cardinality(R) \in Nat /\ Cardinality(C) \in Nat /\ Cardinality(D) \in Nat
      /\ g_runnable_threads \in Int
  <2>1. R \in SUBSET Slots /\ C \in SUBSET Threads /\ D \in SUBSET Threads
    BY DEF InState, At
  <2>2. IsFiniteSet(Slots)
    BY SlotsAssumption, FS_Interval DEF Slots
  <2>3. QED
    BY <2>1, <2>2, FiniteAssumption, FS_Subset, FS_CardinalityType DEF IInv, TypeOK
<1>2. Cardinality(R) + Cardinality(D) = g_runnable_threads + Cardinality(C)
  BY DEF OwnInv, InStep
<1>3. \A u \in Threads \ {t} : pc'[u] = pc[u] \/ (pc[u] = "unborn" /\ pc'[u] \in {"failed", "start_set"})
  BY DEF Flows, Alone, Bears
<1>4. CASE pc'[t] = "create_number"
  <2>1. /\ pc[t] = "create_mark" /\ g_current_thread \in Slots
        /\ SetsState(g_current_thread, "RUNNABLE")
    BY <1>4 DEF Flows, Arrives
  <2>2. g_threads[g_current_thread].state = "DEAD"
    BY <2>1 DEF OwnInv, CurrentInv, At
  <2>3. g_current_thread \notin R /\ R' = R \cup {g_current_thread}
    BY <2>1, <2>2 DEF InState, SetsState, IInv, TypeOK
  <2>4. t \notin C /\ C' = C \cup {t} /\ D' = D
    BY <1>3, <1>4, <2>1 DEF At
  <2>5. Cardinality(R') = Cardinality(R) + 1 /\ Cardinality(C') = Cardinality(C) + 1
    BY <1>1, <2>3, <2>4, FS_AddElement
  <2>6. g_runnable_threads' = g_runnable_threads
    BY <2>1 DEF Flows, Shares
  <2>7. QED
    BY <1>1, <1>2, <2>4, <2>5, <2>6 DEF InStep
<1>5. CASE pc[t] = "create_number"
  <2>1. pc'[t] = "create_spawn" /\ g_runnable_threads' = g_runnable_threads + 1
    BY <1>5 DEF Flows, Arrives, Shares
  <2>2. R' = R
    BY <2>1 DEF Flows, Shares, InState
  <2>3. t \in C /\ C' = C \ {t} /\ D' = D
    BY <1>3, <1>5, <2>1 DEF At
  <2>4. Cardinality(C') = Cardinality(C) - 1
    BY <1>1, <2>3, FS_RemoveElement
  <2>5. QED
    BY <1>1, <1>2, <2>1, <2>2, <2>3, <2>4 DEF InStep
<1>6. CASE pc'[t] = "term_count"
  <2>1. /\ pc[t] = "term_mark" /\ g_current_thread \in Slots
        /\ SetsState(g_current_thread, "DEAD")
    BY <1>6 DEF Flows, Departs
  <2>2. g_threads[g_current_thread].state = "RUNNABLE"
    BY <2>1 DEF OwnInv, ApartInv, CurrentInv, Told, Live, Draining
  <2>3. g_current_thread \in R /\ R' = R \ {g_current_thread}
    BY <2>1, <2>2 DEF InState, SetsState, IInv, TypeOK
  <2>4. t \notin D /\ D' = D \cup {t} /\ C' = C
    BY <1>3, <1>6, <2>1 DEF At
  <2>5. Cardinality(R') = Cardinality(R) - 1 /\ Cardinality(D') = Cardinality(D) + 1
    BY <1>1, <2>3, <2>4, FS_AddElement, FS_RemoveElement
  <2>6. g_runnable_threads' = g_runnable_threads
    BY <2>1 DEF Flows, Shares
  <2>7. QED
    BY <1>1, <1>2, <2>4, <2>5, <2>6 DEF InStep
<1>7. CASE pc[t] = "term_count"
  <2>1. pc'[t] = "term_stop" /\ g_runnable_threads' = g_runnable_threads - 1
    BY <1>7 DEF Flows, Departs, Shares
  <2>2. R' = R
    BY <2>1 DEF Flows, Shares, InState
  <2>3. t \in D /\ D' = D \ {t} /\ C' = C
    BY <1>3, <1>7, <2>1 DEF At
  <2>4. Cardinality(D') = Cardinality(D) - 1
    BY <1>1, <2>3, FS_RemoveElement
  <2>5. QED
    BY <1>1, <1>2, <2>1, <2>2, <2>3, <2>4 DEF InStep
<1>8. CASE pc[t] \notin {"create_number", "term_count"} /\ pc'[t] \notin {"create_number", "term_count"}
  <2>1. g_runnable_threads' = g_runnable_threads
    BY <1>8 DEF Flows, Shares
  <2>2. R' = R
    BY <1>8 DEF Flows, Shares, InState
  <2>3. C' = C /\ D' = D
    BY <1>3, <1>8 DEF At
  <2>4. QED
    BY <1>2, <2>1, <2>2, <2>3 DEF InStep
<1>9. QED
  BY <1>4, <1>5, <1>6, <1>7, <1>8

LEMMA InitOwnInv == Init => OwnInv
<1> SUFFICES ASSUME Init PROVE OwnInv
  OBVIOUS
<1>1. ApartInv
  <2>1. \A t \in Threads : Live(t) => t = Main
    BY DEF Init, Live
  <2>2. OwnSlot(Main) = 0 /\ 0 \in Slots
    BY SlotsAssumption DEF OwnSlot, Slots
  <2>3. g_threads[0].state = "RUNNABLE"
    BY <2>2 DEF Init
  <2>4. QED
    BY <2>1, <2>2, <2>3 DEF ApartInv
<1>2. CurrentInv
  BY DEF Init, CurrentInv, At, Reserved, Told
<1>3. InState("RUNNABLE") = {0} /\ At("term_count") = {} /\ At("create_number") = {}
  BY SlotsAssumption DEF Init, InState, At, Slots
<1>4. InStep
  BY <1>3, FS_Singleton, FS_EmptySet DEF Init, InStep
<1>5. QED
  BY <1>1, <1>2, <1>4 DEF OwnInv

LEMMA OwnStep ==
  ASSUME IInv, MainInv, OwnInv, Undisturbed, Undisturbed', [Next]_vars
  PROVE  OwnInv'
<1>1. ASSUME NEW t \in Threads, Client(t) \/ Inside(t), ~ IndexOutOfBounds(t)
      PROVE  OwnInv'
  <2>1. Flows(t)
    BY <1>1, TurnStep, FlowStep DEF Flows, IInv
  <2>2. QED
    BY <2>1, ApartStep, CurrentInvStep, InStepKept DEF OwnInv
<1>2. ASSUME NEW t \in Threads, IndexOutOfBounds(t) PROVE OwnInv'
  BY <1>2 DEF IndexOutOfBounds, table, current, locals, OwnInv, ApartInv, CurrentInv, InStep,
       Live, Draining, Told, OwnSlot, At, Reserved, InState
<1>3. CASE UNCHANGED vars
  BY <1>3 DEF vars, table, current, locals, OwnInv, ApartInv, CurrentInv, InStep,
       Live, Draining, Told, OwnSlot, At, Reserved, InState
<1>4. QED
  BY <1>1, <1>2, <1>3 DEF Next, ClientStep, LibraryStep

(* Shared slots, handlers that serve another thread and a drift between    *)
(* slots and counter all come from g_current_thread changing hands: a run  *)
(* in which nobody disturbs it has none of them.                           *)
THEOREM OnlyRacesMixUp == Spec => MixUpsNeedRace
<1>1. OwnInv => SlotsAreTheirOwn /\ InStep
  <2> SUFFICES ASSUME OwnInv PROVE SlotsAreTheirOwn /\ InStep
    OBVIOUS
  <2>1. OneThreadPerSlot
    BY DEF OwnInv, ApartInv, Live, OwnSlot, OneThreadPerSlot
  <2>2. HandlersServeTheirThread
    BY DEF OwnInv, CurrentInv, Told, At, HandlersServeTheirThread
  <2>3. QED
    BY <2>1, <2>2 DEF OwnInv, SlotsAreTheirOwn
<1>2. IInv /\ MainInv /\ OwnInv /\ Undisturbed /\ Undisturbed' /\ [Next]_vars => OwnInv'
  BY OwnStep
<1>3. QED
  BY Invariance, PickInvariance, InitOwnInv, <1>1, <1>2, PTL DEF Spec, MixUpsNeedRace

(* Nor is -1 ever an index in such a run.                                  *)
COROLLARY UndisturbedStaysInBounds ==
  Spec => (Cardinality(Threads) <= MAX_THREADS /\ []Undisturbed => []~fault)
  BY OnlyRacesMixUp, FaultsNeedDrift, PTL DEF MixUpsNeedRace, FaultNeedsDrift

=============================================================================

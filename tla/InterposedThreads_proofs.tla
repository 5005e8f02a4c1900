----------------------- MODULE InterposedThreads_proofs -----------------------
(***************************************************************************)
(* The whole library implements its two parts, so that what is proved of   *)
(* each, for the log and for the numbers in it, holds with the other       *)
(* around it, and kernel ids that are used again cannot confuse the        *)
(* wrappers.                                                               *)
(***************************************************************************)
EXTENDS InterposedThreads, Interposer_proofs, FiniteSetTheorems

(* The wrappers with threads that come and go behave like the wrappers.    *)
THEOREM WrappersImplemented == ThreadsSpec => Spec
<1>1. ThreadsInit => Init
  BY DEF ThreadsInit
<1>2. [ThreadsNext]_allVars => [Next]_vars
  BY DEF ThreadsNext, allVars, MakeCall, Library, Wrapper, WakeUp, StartRoutine,
       EnterSection, Register, Announce, Search, Return, PrintReturned, Exit, Vanish, Next
<1>3. QED
  BY <1>1, <1>2, PTL DEF ThreadsSpec, Spec

(* Threads that start and end among locks behave like those of             *)
(* ThreadNumbers, which has no locks but g_count_lock.                     *)
THEOREM NumbersImplemented == ThreadsSpec => Numbers!Spec
<1>1. ThreadsInit => Numbers!Init
  BY DEF ThreadsInit
<1>2. [ThreadsNext]_allVars => [Numbers!Next]_(Numbers!vars)
  <2> SUFFICES ASSUME [ThreadsNext]_allVars
               PROVE  Numbers!Next \/ UNCHANGED numbers
    BY DEF numbers, Numbers!vars, Numbers!lines
  <2>1. CASE UNCHANGED allVars
    BY <2>1 DEF allVars
  <2>2. ASSUME NEW t \in Threads, MakeCall(t) \/ WakeUp(t) PROVE UNCHANGED numbers
    BY <2>2 DEF MakeCall, WakeUp
  <2>3. ASSUME NEW t \in Threads, Wrapper(t) PROVE Numbers!Next \/ UNCHANGED numbers
    BY <2>3 DEF Wrapper, Numbers!Next
  <2>4. ASSUME NEW t \in Created, EnterSection(t) \/ Return(t)
        PROVE  Numbers!Next \/ UNCHANGED numbers
    BY <2>4 DEF EnterSection, Return, Numbers!Next, Numbers!Start
  <2>5. ASSUME NEW t \in Created,
               \/ Register(t) \/ Announce(t) \/ Search(t) \/ PrintReturned(t)
               \/ Exit(t) \/ Vanish(t)
        PROVE  Numbers!Next
    BY <2>5 DEF Register, Announce, Search, PrintReturned, Exit, Vanish, Numbers!Next,
         Numbers!Start, Numbers!Exit
  <2>6. QED
    BY <2>1, <2>2, <2>3, <2>4, <2>5 DEF ThreadsNext, Library, StartRoutine
<1>3. QED
  BY <1>1, <1>2, PTL DEF ThreadsSpec, Numbers!Spec

(* What ThreadNumbers_proofs proves of the instance Numbers.               *)
Proved == INSTANCE ThreadNumbers_proofs WITH Threads <- Created, pc <- place

LEMMA NumbersAreProved ==
  Numbers!Spec => [](Proved!LiveNumbersDiffer /\ Proved!NumberStays /\ Proved!CountInTable)
<1>1. Proved!IsFiniteSet(Created) /\ Proved!Cardinality(Created) < MAX_THREADS
  <2>1. IsFiniteSet(Created) /\ Cardinality(Created) = Cardinality(Threads) - 1
    BY NumbersAssumption, MainAssumption, FS_RemoveElement DEF Created
  <2>2. Cardinality(Threads) \in Nat
    BY NumbersAssumption, FS_CardinalityType
  <2>3. IsFiniteSet(Created) /\ Cardinality(Created) < MAX_THREADS
    BY <2>1, <2>2, NumbersAssumption
  <2>4. Proved!IsFiniteSet(Created) <=> IsFiniteSet(Created)
    BY DEF Proved!IsFiniteSet, IsFiniteSet
  <2>5. Proved!Cardinality(Created) = Cardinality(Created)
    BY DEF Proved!Cardinality, Cardinality, Proved!IsFiniteSet, IsFiniteSet
  <2>6. QED
    BY <2>3, <2>4, <2>5
<1>2. Proved!Spec => [](Proved!LiveNumbersDiffer /\ Proved!NumberStays /\ Proved!CountInTable)
  <2>1. Proved!Spec => []Proved!LiveNumbersDiffer
    BY <1>1, NumbersAssumption, Proved!NumbersIdentify
  <2>2. Proved!Spec => []Proved!NumberStays
    BY <1>1, NumbersAssumption, Proved!NumberIsKept
  <2>3. Proved!Spec => []Proved!CountInTable
    BY <1>1, NumbersAssumption, Proved!TableSuffices
  <2>4. QED
    BY <2>1, <2>2, <2>3, PTL
<1>3. Numbers!Init => Proved!Init
  BY DEF Numbers!Init, Proved!Init, Numbers!Entries, Proved!Entries, Numbers!Unset, Proved!Unset
<1>4. [Numbers!Next]_(Numbers!vars) => [Proved!Next]_(Proved!vars)
  BY Zenon DEF Numbers!vars, Proved!vars, Numbers!Next, Proved!Next,
     Numbers!Create, Proved!Create, Numbers!Start, Proved!Start, Numbers!Exit, Proved!Exit,
     Numbers!Begin, Proved!Begin,
     Numbers!Count, Proved!Count, Numbers!StoreId, Proved!StoreId,
     Numbers!Announce, Proved!Announce, Numbers!PassEntry, Proved!PassEntry,
     Numbers!PrintCreated, Proved!PrintCreated, Numbers!PrintExited, Proved!PrintExited,
     Numbers!SearchEnds, Proved!SearchEnds, Numbers!Searching, Proved!Searching,
     Numbers!AtHit, Proved!AtHit, Numbers!lines, Proved!lines,
     Numbers!ExitByReturn, Proved!ExitByReturn,
     Numbers!ExitByCall, Proved!ExitByCall, Numbers!Vanish, Proved!Vanish,
     Numbers!Moves, Proved!Moves, Numbers!find_thread_number, Proved!find_thread_number,
     Numbers!NotFound, Proved!NotFound,
     Numbers!Entries, Proved!Entries
<1>5. QED
  BY <1>2, <1>3, <1>4, PTL DEF Numbers!Spec, Proved!Spec

(* In the whole library, too, two live threads never share a number in the *)
(* log, a thread exits under the number it was created with, and           *)
(* g_thread_ids is never written past its end.                             *)
THEOREM NumbersStayTrue ==
  ThreadsSpec => [](Numbers!LiveNumbersDiffer /\ Numbers!NumberStays /\ Numbers!CountInTable)
<1>1. Proved!LiveNumbersDiffer /\ Proved!NumberStays /\ Proved!CountInTable =>
        Numbers!LiveNumbersDiffer /\ Numbers!NumberStays /\ Numbers!CountInTable
  BY DEF Proved!LiveNumbersDiffer, Numbers!LiveNumbersDiffer, Proved!NumberStays,
     Numbers!NumberStays, Proved!CountInTable, Numbers!CountInTable, Proved!Announced,
     Numbers!Announced, Proved!Entries, Numbers!Entries, Proved!NotFound, Numbers!NotFound,
     Proved!Unset, Numbers!Unset
<1>2. QED
  BY NumbersImplemented, NumbersAreProved, <1>1, PTL

(* The log stays true about mutual exclusion with threads that are created *)
(* and end, with or without the mutexes they hold.                         *)
THEOREM LogStaysTrue == ThreadsSpec => []LogShowsExclusion
  BY WrappersImplemented, LogIsTrue, PTL

-----------------------------------------------------------------------------
(* Kernel ids *)

(* A thread that is not in its start routine is outside the wrappers or in *)
(* the original pthread_exit, where it prints no stack trace.              *)
PlaceInv ==
  \A t \in Created :
    /\ place[t] = "client" \/ pc[t] = "client" \/ Exiting(t)
    /\ section[t] \in {"return", "returned"} => pc[t] = "client"

Typed ==
  /\ place = [t \in Created |-> place[t]]
  /\ section = [t \in Created |-> section[t]]

IdInv == LockInv /\ Typed /\ PlaceInv

LEMMA InitIdInv == ThreadsInit => IdInv
  BY InitLockInv DEF ThreadsInit, IdInv, Typed, PlaceInv, Init, Numbers!Init, Created

LEMMA NextIdInv == IdInv /\ [ThreadsNext]_allVars => IdInv'
<1> SUFFICES ASSUME IdInv, [ThreadsNext]_allVars PROVE IdInv'
  OBVIOUS
<1> USE DEF IdInv, Typed, PlaceInv, Exiting, Created
<1>1. LockInv'
  <2>1. [Next]_vars
    BY DEF ThreadsNext, allVars, MakeCall, Library, Wrapper, WakeUp, StartRoutine,
         EnterSection, Register, Announce, Search, Return, PrintReturned, Exit, Vanish, Next
  <2>2. QED
    BY <2>1, NextLockInv
<1>2. pc = [t \in Threads |-> pc[t]]
  BY DEF LockInv, TypeOK
<1>3. CASE UNCHANGED allVars
  BY <1>1, <1>3 DEF allVars, vars, numbers
<1>4. ASSUME NEW t \in Threads, MakeCall(t) PROVE IdInv'
  BY <1>1, <1>2, <1>4 DEF MakeCall, InProgram, Call, Goto, numbers, LockInv, TypeOK
<1>5. ASSUME NEW t \in Threads, Wrapper(t) PROVE IdInv'
  <2>1. /\ pc[t] # "client" /\ ~ Exiting(t)
        /\ \A u \in Threads \ {t} : pc'[u] = pc[u]
        /\ call' = call
    BY <1>2, <1>5
    DEF Wrapper, Inside, Log, Check, StoreMutex, TakeGeneralLock, PrintCall, Unwind, EndTrace,
        PrintReturn, Orig, OrigWait, OrigWaitEnds, Moves, Goto, Posix!Effect, Posix!Lock,
        Posix!Trylock, Posix!Unlock, Posix!Signal, Posix!Broadcast, Posix!YieldOrCreate,
        Posix!FallAsleep, Posix!Does
  <2>2. CASE UNCHANGED <<numbers, section>>
    BY <1>1, <2>1, <2>2 DEF numbers
  <2>3. ASSUME NEW u \in Created, Numbers!Create(u),
               section' = [section EXCEPT ![u] = "args"]
        PROVE  IdInv'
    <3>1. place[u] = "unborn" /\ place' = [place EXCEPT ![u] = "begin"] /\ u # t
      BY <2>1, <2>3 DEF Numbers!Create, Numbers!Moves
    <3>2. QED
      BY <1>1, <2>1, <2>3, <3>1
  <2>4. QED
    BY <1>5, <2>2, <2>3 DEF Wrapper
<1>6. ASSUME NEW t \in Threads, WakeUp(t) PROVE IdInv'
  BY <1>1, <1>6 DEF WakeUp, OrigWaitSpurious, numbers
<1>7. ASSUME NEW t \in Created, EnterSection(t) \/ Return(t) PROVE IdInv'
  <2>1. UNCHANGED <<pc, call>>
    BY <1>7 DEF EnterSection, Return, vars
  <2>2. \/ place' = place
        \/ place[t] = "begin" /\ place' = [place EXCEPT ![t] = "count"]
    BY <1>7 DEF EnterSection, Return, numbers, Numbers!Begin, Numbers!Moves
  <2>3. PICK label : /\ section' = [section EXCEPT ![t] = label]
                     /\ label \in {"return", "returned"} => pc[t] = "client"
    <3>1. CASE Return(t)
      BY <3>1 DEF Return, InProgram
    <3>2. CASE EnterSection(t)
      <4>1. PICK step \in {<<"args", "set">>, <<"set", "none">>, <<"return", "returned">>} :
              section[t] = step[1] /\ section' = [section EXCEPT ![t] = step[2]]
        BY <3>2 DEF EnterSection
      <4>2. step[2] \in {"return", "returned"} => step[1] = "return"
        OBVIOUS
      <4>3. QED
        BY <4>1, <4>2
    <3>3. QED
      BY <1>7, <3>1, <3>2
  <2>4. QED
    BY <1>1, <2>1, <2>2, <2>3
<1>8. ASSUME NEW t \in Created,
             \/ Register(t) \/ Announce(t) \/ Search(t) \/ PrintReturned(t)
             \/ Exit(t) \/ Vanish(t)
      PROVE  IdInv'
  <2>1. UNCHANGED <<pc, call, section>>
    BY <1>8 DEF Register, Announce, Search, PrintReturned, Exit, Vanish, vars
  <2>2. CASE Numbers!PassEntry(t)
    BY <1>1, <2>1, <2>2 DEF Numbers!PassEntry
  <2>3. CASE ~ Numbers!PassEntry(t)
    <3>1. PICK label : place' = [place EXCEPT ![t] = label]
      BY <1>8, <2>3 DEF Register, Announce, Search, PrintReturned, Exit, Vanish, Numbers!Count,
           Numbers!StoreId, Numbers!Announce, Numbers!PrintCreated, Numbers!PrintExited,
           Numbers!ExitByReturn, Numbers!ExitByCall, Numbers!Vanish, Numbers!Moves
    <3>2. pc[t] = "client" \/ Exiting(t)
      BY <1>8, <2>3 DEF Register, Announce, Search, PrintReturned, Exit, Vanish, Numbers!Count,
           Numbers!StoreId, Numbers!Announce, Numbers!PrintCreated, Numbers!PrintExited,
           Numbers!Vanish, Numbers!Moves
    <3>3. QED
      BY <1>1, <2>1, <3>1, <3>2
  <2>4. QED
    BY <2>2, <2>3
<1>9. QED
  BY <1>3, <1>4, <1>5, <1>6, <1>7, <1>8 DEF ThreadsNext, Library, StartRoutine

(* STACKTRACE_THREAD_ID never holds the id of a thread that has printed    *)
(* THREAD EXITED, so no new thread with the same id is taken for it.       *)
THEOREM IdsAreOfLiveThreads == ThreadsSpec => []IdOfLiveThread
<1>1. IdInv => IdOfLiveThread
  BY DEF IdInv, LockInv, PrintInv, Printing, PlaceInv, Exiting, IdOfLiveThread, Created
<1>2. QED
  BY InitIdInv, NextIdInv, <1>1, PTL DEF ThreadsSpec

=============================================================================

------------------------- MODULE ThreadNumbers_proofs -------------------------
(***************************************************************************)
(* The safety properties of ThreadNumbers, for every number of threads     *)
(* that fits in the table and every supply of kernel ids.                  *)
(*                                                                         *)
(* NumberInv says why a search without g_count_lock is harmless: an entry  *)
(* is written once, above all others, and with the id of its writer, so no *)
(* search for the id of another thread that is alive can tell, nor has it  *)
(* passed what it looks for.                                               *)
(***************************************************************************)
EXTENDS ThreadNumbers, TLAPS, FiniteSetTheorems

(* The kernel's ids: only live threads have one, and no two have the same. *)
TidInv ==
  /\ \A t \in Threads : tid[t] = NoTid <=> pc[t] \in {"unborn", "gone"}
  /\ \A t, u \in Threads : tid[t] = tid[u] /\ tid[t] # NoTid => t = u

CountLockInv ==
  /\ \A t \in Threads : pc[t] = "store" => g_count_lock = 0
  /\ \A t, u \in Threads : pc[t] = "store" /\ pc[u] = "store" => t = u

Counted == {t \in Threads : pc[t] \notin {"unborn", "begin", "count"}}

CountInv == g_thread_count = Cardinality(Counted)

(* The table is filled from below, and the entry that a thread which is    *)
(* storing its id will write is free.                                      *)
TableInv ==
  \A i \in Entries :
    g_thread_ids[i] # NoTid =>
      /\ i <= g_thread_count
      /\ i = g_thread_count => \A t \in Threads : pc[t] # "store"

(* The entries with the id of thread t, and the first of them.             *)
Hits(t) == {i \in Entries : g_thread_ids[i] = tid[t]}

FirstHit(t, i) == i \in Hits(t) /\ \A k \in Hits(t) : i <= k

Stored(t) == pc[t] \in {"announce", "find_created", "client", "find_exited", "ending"}

(* A thread that has stored its id is in the table, at no entry its search *)
(* has passed, and was announced under the first.                          *)
NumberInv ==
  \A t \in Threads :
    /\ Stored(t) => Hits(t) # {}
    /\ Searching(t) => \A k \in Hits(t) : scanned[t] <= k
    /\ ~ Searching(t) => scanned[t] = 0
    /\ Announced(t) => FirstHit(t, created_as[t])
    /\ exited_as[t] # Unset => pc[t] \in {"ending", "gone"}

IInv ==
  TypeOK /\ TidInv /\ CountLockInv /\ CountInv /\ TableInv /\ NumberInv /\ NumberStays

LEMMA InitIInv == Init => IInv
<1> SUFFICES ASSUME Init PROVE IInv
  OBVIOUS
<1>1. Counted = {}
  BY DEF Init, Counted
<1>2. CountInv
  BY <1>1, FS_EmptySet DEF Init, CountInv
<1>3. QED
  BY <1>2, MaxAssumption DEF Init, IInv, TypeOK, TidInv, CountLockInv, TableInv, NumberInv,
       NumberStays, Unset, Stored, Searching, Announced

LEMMA TypeStep ==
  ASSUME IInv, [Next]_vars
  PROVE  TypeOK'
<1> USE MaxAssumption DEF IInv, TypeOK, Moves, lines
<1>1. ASSUME NEW t \in Threads, Create(t) \/ Begin(t) PROVE TypeOK'
  BY <1>1 DEF Create, Begin
<1>2. ASSUME NEW t \in Threads, Count(t) PROVE TypeOK'
  BY <1>2 DEF Count
<1>3. ASSUME NEW t \in Threads, StoreId(t) PROVE TypeOK'
  <2>1. g_count_lock' = 1
    BY <1>3 DEF StoreId, CountLockInv
  <2>2. g_thread_ids' \in [Entries -> Tids \cup {NoTid}]
    BY <1>3 DEF StoreId
  <2>3. QED
    BY <1>3, <2>1, <2>2 DEF StoreId
<1>4. ASSUME NEW t \in Threads, PassEntry(t) PROVE TypeOK'
  BY <1>4 DEF PassEntry, Entries
<1>5. ASSUME NEW t \in Threads, Announce(t) \/ ExitByCall(t) PROVE TypeOK'
  BY <1>5 DEF Announce, ExitByCall
<1>6. ASSUME NEW t \in Threads, PrintCreated(t) \/ PrintExited(t) PROVE TypeOK'
  <2>1. find_thread_number(t) \in Int /\ 0 \in 0 .. MAX_THREADS
    BY DEF find_thread_number, Entries, NotFound
  <2>2. QED
    BY <1>6, <2>1 DEF PrintCreated, PrintExited, SearchEnds
<1>7. ASSUME NEW t \in Threads, ExitByReturn(t) \/ Vanish(t) PROVE TypeOK'
  BY <1>7 DEF ExitByReturn, Vanish
<1>8. CASE UNCHANGED vars
  BY <1>8 DEF vars
<1>9. QED
  BY <1>1, <1>2, <1>3, <1>4, <1>5, <1>6, <1>7, <1>8 DEF Next, Start, Exit

LEMMA TidStep ==
  ASSUME IInv, [Next]_vars
  PROVE  TidInv'
<1> USE TidsAssumption DEF IInv, TypeOK, TidInv, Moves
<1>1. ASSUME NEW t \in Threads, Create(t) PROVE TidInv'
  <2>1. tid'[t] # NoTid /\ \A u \in Threads \ {t} : tid'[u] = tid[u] /\ tid[u] # tid'[t]
    BY <1>1 DEF Create
  <2>2. pc'[t] = "begin" /\ \A u \in Threads \ {t} : pc'[u] = pc[u]
    BY <1>1 DEF Create
  <2>3. QED
    BY <2>1, <2>2
<1>2. ASSUME NEW t \in Threads, Start(t) \/ PassEntry(t) PROVE TidInv'
  BY <1>2 DEF Start, Begin, Count, StoreId, Announce, PrintCreated, PassEntry
<1>3. ASSUME NEW t \in Threads, ExitByReturn(t) \/ ExitByCall(t) \/ PrintExited(t)
      PROVE  TidInv'
  BY <1>3 DEF ExitByReturn, ExitByCall, PrintExited
<1>4. ASSUME NEW t \in Threads, Vanish(t) PROVE TidInv'
  BY <1>4 DEF Vanish
<1>5. CASE UNCHANGED vars
  BY <1>5 DEF vars
<1>6. QED
  BY <1>1, <1>2, <1>3, <1>4, <1>5 DEF Next, Exit

LEMMA CountLockStep ==
  ASSUME IInv, [Next]_vars
  PROVE  CountLockInv'
<1> USE DEF IInv, TypeOK, CountLockInv, Moves
<1>1. ASSUME NEW t \in Threads, Create(t) \/ Begin(t) PROVE CountLockInv'
  BY <1>1 DEF Create, Begin
<1>2. ASSUME NEW t \in Threads, Count(t) PROVE CountLockInv'
  BY <1>2 DEF Count
<1>3. ASSUME NEW t \in Threads, StoreId(t) PROVE CountLockInv'
  BY <1>3 DEF StoreId
<1>4. ASSUME NEW t \in Threads, Announce(t) \/ PassEntry(t) \/ PrintCreated(t) \/ Exit(t)
      PROVE  CountLockInv'
  BY <1>4 DEF Announce, PassEntry, PrintCreated, Exit, ExitByReturn, ExitByCall, PrintExited,
       Vanish
<1>5. CASE UNCHANGED vars
  BY <1>5 DEF vars
<1>6. QED
  BY <1>1, <1>2, <1>3, <1>4, <1>5 DEF Next, Start

(* Count adds the thread that executes it to those that were counted.      *)
LEMMA CountStep ==
  ASSUME IInv, [Next]_vars
  PROVE  CountInv'
<1> USE DEF IInv, TypeOK, CountInv, Counted, Moves
<1>1. ASSUME NEW t \in Threads, Count(t) PROVE CountInv'
  <2>1. Counted' = Counted \cup {t} /\ t \notin Counted
    BY <1>1 DEF Count
  <2>2. IsFiniteSet(Counted)
    BY ThreadsAssumption, FS_Subset
  <2>3. Cardinality(Counted') = Cardinality(Counted) + 1
    BY <2>1, <2>2, FS_AddElement
  <2>4. QED
    BY <1>1, <2>3 DEF Count
<1>2. ASSUME NEW t \in Threads, ~ Count(t),
             Create(t) \/ Start(t) \/ PassEntry(t) \/ Exit(t)
      PROVE  CountInv'
  <2>1. Counted' = Counted
    BY <1>2 DEF Create, Start, Begin, StoreId, Announce, PrintCreated, PassEntry, Exit,
         ExitByReturn, ExitByCall, PrintExited, Vanish
  <2>2. g_thread_count' = g_thread_count
    BY <1>2 DEF Create, Start, Begin, StoreId, Announce, PrintCreated, PassEntry, Exit,
         ExitByReturn, ExitByCall, PrintExited, Vanish
  <2>3. QED
    BY <2>1, <2>2
<1>3. CASE UNCHANGED vars
  BY <1>3 DEF vars
<1>4. QED
  BY <1>1, <1>2, <1>3 DEF Next

LEMMA TableStep ==
  ASSUME IInv, [Next]_vars
  PROVE  TableInv'
<1> USE MaxAssumption DEF IInv, TypeOK, TableInv, Moves, Entries
<1>1. CASE UNCHANGED vars
  BY <1>1 DEF vars
<1>2. ASSUME NEW t \in Threads,
             Create(t) \/ Begin(t) \/ Announce(t) \/ PassEntry(t) \/ PrintCreated(t) \/ Exit(t)
      PROVE  TableInv'
  BY <1>2 DEF Create, Begin, Announce, PassEntry, PrintCreated, Exit, ExitByReturn, ExitByCall,
       PrintExited, Vanish
<1>3. ASSUME NEW t \in Threads, Count(t) PROVE TableInv'
  BY <1>3 DEF Count
<1>4. ASSUME NEW t \in Threads, StoreId(t) PROVE TableInv'
  BY <1>4 DEF StoreId, CountLockInv
<1>5. QED
  BY <1>1, <1>2, <1>3, <1>4 DEF Next, Start

-----------------------------------------------------------------------------

(* At most every thread was counted, and there are fewer than entries.     *)
LEMMA InTable == IInv => CountInTable
<1> SUFFICES ASSUME IInv PROVE CountInTable
  OBVIOUS
<1>1. Cardinality(Counted) <= Cardinality(Threads)
  BY ThreadsAssumption, FS_Subset DEF Counted
<1>2. Cardinality(Threads) \in Nat
  BY ThreadsAssumption, FS_CardinalityType
<1>3. QED
  BY <1>1, <1>2, ThreadsAssumption, MaxAssumption
  DEF IInv, TypeOK, CountInv, CountInTable, Entries

(* StoreId writes to an entry that was free, so that only a search for the *)
(* id of its own thread can notice.                                        *)
LEMMA StoreSparesOthers ==
  ASSUME IInv, NEW t \in Threads, StoreId(t)
  PROVE  /\ \A u \in Threads \ {t} : Stored(u) => Hits(u)' = Hits(u)
         /\ Hits(t)' # {}
<1>1. g_thread_count \in Entries /\ g_thread_ids[g_thread_count] = NoTid
  BY InTable DEF IInv, TableInv, StoreId, Moves, CountInTable
<1>2. tid[t] # NoTid /\ \A u \in Threads \ {t} : Stored(u) => tid[u] \notin {NoTid, tid[t]}
  BY DEF IInv, TidInv, StoreId, Moves, Stored
<1>3. ASSUME NEW u \in Threads \ {t}, Stored(u) PROVE Hits(u)' = Hits(u)
  <2>1. \A i \in Entries : g_thread_ids'[i] = tid[u] <=> g_thread_ids[i] = tid[u]
    BY <1>1, <1>2, <1>3 DEF IInv, TypeOK, StoreId
  <2>2. tid' = tid
    BY DEF StoreId
  <2>3. QED
    BY <2>1, <2>2 DEF Hits, Entries
<1>4. g_thread_count \in Hits(t)'
  BY <1>1 DEF IInv, TypeOK, StoreId, Hits, Entries
<1>5. QED
  BY <1>3, <1>4

(* A search ends at the first entry with the id it looks for, and there is *)
(* one.                                                                    *)
LEMMA SearchFinds ==
  ASSUME IInv, NEW t \in Threads, Searching(t), SearchEnds(t)
  PROVE  FirstHit(t, find_thread_number(t))
<1>1. PICK k \in Hits(t) : TRUE
  BY DEF IInv, NumberInv, Searching, Stored
<1>2. scanned[t] \in 0 .. MAX_THREADS /\ \A j \in Hits(t) : scanned[t] <= j
  BY DEF IInv, TypeOK, NumberInv
<1>3. scanned[t] \in Entries
  BY <1>1, <1>2, MaxAssumption DEF Hits, Entries
<1>4. QED
  BY <1>2, <1>3 DEF SearchEnds, AtHit, find_thread_number, FirstHit, Hits

(* There is but one first entry.                                           *)
LEMMA FirstIsOne ==
  ASSUME NEW t \in Threads, NEW i, NEW j, FirstHit(t, i), FirstHit(t, j)
  PROVE  i = j
  BY MaxAssumption DEF FirstHit, Hits, Entries

(* The part of thread t in NumberInv and NumberStays.                      *)
Numbered(t) ==
  /\ Stored(t) => Hits(t) # {}
  /\ Searching(t) => \A k \in Hits(t) : scanned[t] <= k
  /\ ~ Searching(t) => scanned[t] = 0
  /\ Announced(t) => FirstHit(t, created_as[t])
  /\ exited_as[t] # Unset => pc[t] \in {"ending", "gone"} /\ exited_as[t] = created_as[t]

(* A thread other than the one that steps keeps its part.                  *)
LEMMA OthersStayNumbered ==
  ASSUME IInv, NEW t \in Threads, Create(t) \/ Start(t) \/ PassEntry(t) \/ Exit(t),
         NEW u \in Threads \ {t}
  PROVE  Numbered(u)'
<1>1. Numbered(u)
  BY DEF IInv, NumberInv, NumberStays, Numbered
<1>2. /\ pc'[u] = pc[u] /\ tid'[u] = tid[u] /\ scanned'[u] = scanned[u]
      /\ created_as'[u] = created_as[u] /\ exited_as'[u] = exited_as[u]
  BY DEF IInv, TypeOK, Create, Start, Begin, Count, StoreId, Announce, PrintCreated, PassEntry,
       Exit, ExitByReturn, ExitByCall, PrintExited, Vanish, SearchEnds, Moves, lines
<1>3. Stored(u) => Hits(u)' = Hits(u)
  <2>1. CASE StoreId(t)
    BY <2>1, StoreSparesOthers
  <2>2. CASE ~ StoreId(t)
    <3>1. g_thread_ids' = g_thread_ids
      BY <2>2 DEF Create, Start, Begin, Count, Announce, PrintCreated, PassEntry,
           Exit, ExitByReturn, ExitByCall, PrintExited, Vanish
    <3>2. QED
      BY <1>2, <3>1 DEF Hits, Entries
  <2>3. QED
    BY <2>1, <2>2
<1>4. (Searching(u) => Stored(u)) /\ (Announced(u) => Stored(u))
  BY DEF Searching, Announced, Stored
<1>5. QED
  BY <1>1, <1>2, <1>3, <1>4 DEF Numbered, Stored, Searching, Announced, FirstHit

LEMMA SelfStaysNumbered ==
  ASSUME IInv, NEW t \in Threads, Create(t) \/ Start(t) \/ PassEntry(t) \/ Exit(t)
  PROVE  Numbered(t)'
<1>1. Numbered(t)
  BY DEF IInv, NumberInv, NumberStays, Numbered
<1>2. g_thread_ids' = g_thread_ids /\ tid' = tid => Hits(t)' = Hits(t)
  BY DEF Hits, Entries
<1> USE DEF IInv, TypeOK, Moves, Numbered, Stored, Searching, Announced, lines
<1>3. CASE Create(t) \/ Begin(t) \/ Count(t) \/ Vanish(t)
  BY <1>1, <1>3 DEF Create, Begin, Count, Vanish
<1>4. CASE StoreId(t)
  BY <1>1, <1>4, StoreSparesOthers DEF StoreId
<1>5. CASE Announce(t)
  BY <1>1, <1>2, <1>5, MaxAssumption DEF Announce, Hits, Entries
<1>6. CASE ExitByCall(t)
  <2>1. \A k \in Hits(t) : 0 <= k
    BY MaxAssumption DEF Hits, Entries
  <2>2. QED
    BY <1>1, <1>2, <1>6, <2>1 DEF ExitByCall, FirstHit
<1>7. CASE PassEntry(t)
  <2>1. scanned[t] \notin Hits(t) /\ scanned'[t] = scanned[t] + 1
    BY <1>7 DEF PassEntry, AtHit, Hits
  <2>2. \A k \in Hits(t) : scanned'[t] <= k
    BY <1>1, <1>7, <2>1, MaxAssumption DEF PassEntry, Hits, Entries
  <2>3. QED
    BY <1>1, <1>2, <1>7, <2>2 DEF PassEntry, FirstHit
<1>8. CASE PrintCreated(t)
  <2>1. FirstHit(t, find_thread_number(t))
    BY <1>8, SearchFinds DEF PrintCreated
  <2>2. created_as'[t] = find_thread_number(t) /\ scanned'[t] = 0
    BY <1>8 DEF PrintCreated, SearchEnds
  <2>3. QED
    BY <1>1, <1>2, <1>8, <2>1, <2>2 DEF PrintCreated, FirstHit
<1>9. CASE PrintExited(t)
  <2>1. FirstHit(t, find_thread_number(t)) /\ FirstHit(t, created_as[t])
    BY <1>1, <1>9, SearchFinds DEF PrintExited
  <2>2. exited_as'[t] = created_as[t] /\ scanned'[t] = 0
    BY <1>9, <2>1, FirstIsOne DEF PrintExited, SearchEnds
  <2>3. QED
    BY <1>1, <1>2, <1>9, <2>2 DEF PrintExited
<1>10. CASE ExitByReturn(t)
  BY <1>1, <1>2, <1>10 DEF ExitByReturn
<1>11. QED
  BY <1>3, <1>4, <1>5, <1>6, <1>7, <1>8, <1>9, <1>10 DEF Start, Exit

LEMMA NumberStep ==
  ASSUME IInv, [Next]_vars
  PROVE  NumberInv' /\ NumberStays'
<1>1. CASE UNCHANGED vars
  BY <1>1 DEF vars, lines, IInv, NumberInv, NumberStays, Hits, FirstHit, Stored, Searching,
       Announced, Entries
<1>2. CASE Next
  <2>1. \A u \in Threads : Numbered(u)'
    BY <1>2, OthersStayNumbered, SelfStaysNumbered DEF Next
  <2>2. QED
    BY <2>1 DEF Numbered, NumberInv, NumberStays
<1>3. QED
  BY <1>1, <1>2

LEMMA NextIInv == IInv /\ [Next]_vars => IInv'
  BY TypeStep, TidStep, CountLockStep, CountStep, TableStep, NumberStep DEF IInv

(* Every variable keeps its type: g_count_lock is binary and every search  *)
(* returns a number.                                                       *)
THEOREM TypeCorrect == Spec => []TypeOK
<1>1. IInv => TypeOK
  BY DEF IInv
<1>2. QED
  BY InitIInv, NextIInv, <1>1, PTL DEF Spec

(* As long as there are fewer threads than entries, the write of           *)
(* interpose_start_routine stays inside the table.                         *)
THEOREM TableSuffices == Spec => []CountInTable
  BY InitIInv, NextIInv, InTable, PTL DEF Spec

(* The log never shows two live threads under one number, nor any under    *)
(* the -1 of a failed search.                                              *)
THEOREM NumbersIdentify == Spec => []LiveNumbersDiffer
<1>1. IInv => LiveNumbersDiffer
  <2> SUFFICES ASSUME IInv, NEW t \in Threads, NEW u \in Threads, Announced(t), Announced(u)
               PROVE  /\ created_as[t] # NotFound
                      /\ created_as[t] = created_as[u] => t = u
    BY DEF LiveNumbersDiffer
  <2>1. ASSUME NEW v \in Threads, Announced(v)
        PROVE  created_as[v] # NotFound /\ g_thread_ids[created_as[v]] = tid[v]
    BY <2>1, MaxAssumption DEF IInv, NumberInv, FirstHit, Hits, Entries, NotFound
  <2>2. tid[t] = tid[u] => t = u
    BY DEF IInv, TidInv, Announced
  <2>3. QED
    BY <2>1, <2>2
<1>2. QED
  BY InitIInv, NextIInv, <1>1, PTL DEF Spec

(* The THREAD EXITED line of a thread repeats the number of its THREAD     *)
(* CREATED line.                                                           *)
THEOREM NumberIsKept == Spec => []NumberStays
<1>1. IInv => NumberStays
  BY DEF IInv
<1>2. QED
  BY InitIInv, NextIInv, <1>1, PTL DEF Spec

=============================================================================

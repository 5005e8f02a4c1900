--------------------------- MODULE Priorities_proofs ---------------------------
(***************************************************************************)
(* The priority table is injective and bounded for every size and every    *)
(* modulus, in particular for the 64 and 100000 of utils.c.                *)
(***************************************************************************)
EXTENDS Priorities, TLAPS

(* The entry being placed differs from the entries it was compared with    *)
(* since the last bump, and has not been bumped past its bound.            *)
ComparedDistinct ==
  pc = "compare" =>
    /\ \A k \in 0 .. j - 1 : array[i] # array[k]
    /\ array[i] >= 0
    /\ array[i] <= MaxVal - 1 + i

IInv == TypeOK /\ UniqueSettled /\ BumpsBounded /\ ComparedDistinct

LEMMA InitIInv == Init => IInv
  BY SizeAssumption, MaxValAssumption
  DEF Init, IInv, TypeOK, UniqueSettled, BumpsBounded, ComparedDistinct, Settled, Entries

LEMMA NextIInv == IInv /\ [Next]_vars => IInv'
<1> SUFFICES ASSUME IInv, [Next]_vars PROVE IInv'
  OBVIOUS
<1> USE SizeAssumption, MaxValAssumption
    DEF IInv, TypeOK, UniqueSettled, BumpsBounded, ComparedDistinct, Settled, Entries
<1>1. CASE UNCHANGED vars
  BY <1>1 DEF vars
<1>2. CASE Draw
  BY <1>2 DEF Draw
<1>3. CASE Bump
  <2>1. array[i] <= MaxVal - 1 + j
    BY <1>3 DEF Bump, BumpBy
  <2>2. QED
    BY <1>3, <2>1 DEF Bump, BumpBy
<1>4. CASE Accept
  <2>1. TypeOK' /\ ComparedDistinct'
    BY <1>4 DEF Accept
  <2>2. \A k \in Settled : array[k] # array[i]
    BY <1>4 DEF Accept
  <2>3. Settled' = Settled \cup {i} /\ array' = array
    BY <1>4 DEF Accept
  <2>4. UniqueSettled'
    BY <2>2, <2>3
  <2>5. BumpsBounded'
    BY <1>4, <2>3 DEF Accept
  <2>6. QED
    BY <2>1, <2>4, <2>5
<1>5. CASE Advance
  BY <1>5 DEF Advance
<1>6. QED
  BY <1>1, <1>2, <1>3, <1>4, <1>5 DEF Next

(* The loops of initialize_priorities and make_unique never leave the      *)
(* table: i and j are indices of it whenever an entry is read.             *)
THEOREM TypeCorrect == Spec => []TypeOK
<1>1. IInv => TypeOK
  BY DEF IInv
<1>2. QED
  BY InitIInv, NextIInv, <1>1, PTL DEF Spec

(* Priorities are pairwise distinct as soon as they are settled: get_priorities() *)
(* hands the scheduler the unique values that utils.h promises.                   *)
THEOREM UniquePriorities == Spec => []UniqueSettled
<1>1. IInv => UniqueSettled
  BY DEF IInv
<1>2. QED
  BY InitIInv, NextIInv, <1>1, PTL DEF Spec

(* Every settled priority is at least 0 and at most max_val - 1 plus its   *)
(* index: the searches that start from -1 see every slot, and the bumps of *)
(* make_unique cannot overflow an int.                                     *)
THEOREM BoundedPriorities == Spec => []BumpsBounded
<1>1. IInv => BumpsBounded
  BY DEF IInv
<1>2. QED
  BY InitIInv, NextIInv, <1>1, PTL DEF Spec

(* Every finished table is one that PctScheduler assumes (TablesAssumption *)
(* there, with Size for MAX_THREADS).                                      *)
THEOREM FinishedTables ==
  Spec => [](i = Size => /\ array \in [Entries -> Nat]
                         /\ \A a, b \in Entries : array[a] = array[b] => a = b)
<1>1. ASSUME IInv, i = Size
      PROVE  array \in [Entries -> Nat] /\ \A a, b \in Entries : array[a] = array[b] => a = b
  BY <1>1 DEF IInv, TypeOK, UniqueSettled, BumpsBounded, Settled, Entries
<1>2. QED
  BY InitIInv, NextIInv, <1>1, PTL DEF Spec

(* The values that were passed over stay taken. *)
LEMMA LeastFreeInvariant ==
  /\ Init => LeastFree
  /\ IInv /\ LeastFree /\ [Next]_vars => LeastFree'
<1>1. Init => LeastFree
  BY DEF Init, LeastFree
<1>2. IInv /\ LeastFree /\ [Next]_vars => LeastFree'
  <2> SUFFICES ASSUME IInv, LeastFree, [Next]_vars PROVE LeastFree'
    OBVIOUS
  <2> USE SizeAssumption, MaxValAssumption
      DEF IInv, TypeOK, LeastFree, Settled, Entries
  <2>1. CASE Draw \/ Accept
    BY <2>1 DEF Draw, Accept
  <2>2. CASE Advance \/ UNCHANGED vars
    BY <2>2 DEF Advance, vars
  <2>3. CASE Bump
    <3>1. drawn <= array'[i]
      BY <2>3 DEF Bump, BumpBy
    <3>2. ASSUME NEW v \in drawn .. array'[i] - 1
          PROVE  \E k \in Settled : array'[k] = v
      <4>1. CASE v = array[i]
        BY <2>3, <4>1 DEF Bump, BumpBy
      <4>2. CASE v # array[i]
        BY <2>3, <3>2, <4>2 DEF Bump, BumpBy
      <4>3. QED
        BY <4>1, <4>2
    <3>3. QED
      BY <2>3, <3>1, <3>2 DEF Bump, BumpBy
  <2>4. QED
    BY <2>1, <2>2, <2>3 DEF Next
<1>3. QED
  BY <1>1, <1>2

(* The result of make_unique is the least free value at or above the draw. *)
THEOREM LeastFreeValue == Spec => []LeastFree
  BY InitIInv, NextIInv, LeastFreeInvariant, PTL DEF Spec

-----------------------------------------------------------------------------

(* An Accept places the entry that was being compared, any other step is   *)
(* invisible in the abstract table.                                        *)
LEMMA StepRefines ==
  IInv /\ LeastFree /\ [Next]_vars =>
    [Table!Place]_<<[k \in Entries |-> IF k < i THEN array[k] ELSE 0], i>>
<1> SUFFICES ASSUME IInv, LeastFree, [Next]_vars
             PROVE  [Table!Place]_<<[k \in Entries |-> IF k < i THEN array[k] ELSE 0], i>>
  OBVIOUS
<1> DEFINE placed == [k \in Entries |-> IF k < i THEN array[k] ELSE 0]
<1> USE SizeAssumption, MaxValAssumption DEF IInv, TypeOK, Entries
<1>1. CASE Draw
  BY <1>1 DEF Draw
<1>2. CASE Bump
  BY <1>2 DEF Bump, BumpBy
<1>3. CASE Advance
  BY <1>3 DEF Advance
<1>4. CASE Accept
  <2>1. i < Size /\ i' = i + 1 /\ array' = array
    BY <1>4 DEF Accept
  <2>2. placed' = [placed EXCEPT ![i] = array[i]]
    <3>1. ASSUME NEW k \in 0 .. Size - 1
          PROVE  (IF k < i + 1 THEN array[k] ELSE 0)
                   = [placed EXCEPT ![i] = array[i]][k]
      <4>1. CASE k = i
        BY <2>1, <4>1
      <4>2. CASE k # i
        <5>1. k < i + 1 <=> k < i
          BY <2>1, <4>2
        <5>2. QED
          BY <4>2, <5>1
      <4>3. QED
        BY <4>1, <4>2
    <3>2. placed' = [k \in 0 .. Size - 1 |-> IF k < i + 1 THEN array[k] ELSE 0]
      BY <2>1
    <3>3. QED
      BY <3>1, <3>2
  <2>3. Table!Taken = {array[k] : k \in Settled}
    <3>1. \A k \in Settled : placed[k] = array[k]
      BY <2>1 DEF Settled
    <3>2. Table!Taken = {placed[k] : k \in Settled}
      BY DEF Table!Taken, Settled
    <3>3. QED
      BY <3>1, <3>2
  <2>4. array[i] \notin Table!Taken
    BY <1>4, <2>3 DEF Accept, ComparedDistinct, Settled
  <2>5. drawn .. array[i] - 1 \subseteq Table!Taken
    BY <1>4, <2>3 DEF Accept, LeastFree
  <2>6. drawn \in 0 .. MaxVal - 1 /\ array[i] \in drawn .. MaxVal - 1 + i
    BY <1>4 DEF Accept, LeastFree, ComparedDistinct
  <2>7. QED
    BY <2>1, <2>2, <2>4, <2>5, <2>6 DEF Table!Place, Table!LeastFreeFrom
<1>5. CASE UNCHANGED vars
  BY <1>5 DEF vars
<1>6. QED
  BY <1>1, <1>2, <1>3, <1>4, <1>5 DEF Next

(* The constructor, with its loops and restarts, implements the table that *)
(* is filled one final value at a time.                                    *)
THEOREM TableImplemented == Spec => ImplementsTable
<1>1. Init => Table!Init
  BY SizeAssumption DEF Init, Table!Init, Entries
<1>2. QED
  BY InitIInv, NextIInv, LeastFreeInvariant, StepRefines, <1>1, PTL
  DEF Spec, ImplementsTable, Table!Spec

=============================================================================

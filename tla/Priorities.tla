------------------------------ MODULE Priorities ------------------------------
(***************************************************************************)
(* The priority table of the PCT scheduler: the constructor init_utils of  *)
(* skeleton/utils.c draws one pseudo-random value per slot and             *)
(* make_unique bumps a drawn value until it differs from every earlier     *)
(* entry.  The scheduler only ever compares priorities, so the table is    *)
(* useful to it exactly when no two slots share a value and no value is    *)
(* negative (its searches start from highest_priorty = -1).                *)
(*                                                                         *)
(* rand() is a nondeterministic draw: the seed fixes which behaviour is    *)
(* taken, not which behaviours there are.                                  *)
(*                                                                         *)
(* A definition introduced as a variant is the one after it with a fault   *)
(* put in, on which the checks of a property are tried.                    *)
(***************************************************************************)
EXTENDS Integers

CONSTANTS
  Size,      \* the number of entries, 64 in init_utils
  MaxVal     \* max_val, the modulus of a draw, 100000 in the code

ASSUME SizeAssumption == Size \in Nat
ASSUME MaxValAssumption == MaxVal \in Nat \ {0}

VARIABLES
  array,     \* the table being filled; entries from i on are not yet written
  i,         \* the loop variable of initialize_priorities, idx of make_unique
  j,         \* the loop variable of make_unique
  drawn,     \* history: the value rand() % max_val that array[i] started from
  pc         \* "draw" in initialize_priorities, "compare" in make_unique

vars == <<array, i, j, drawn, pc>>

Entries == 0 .. Size - 1

(* malloc() leaves the table unwritten; no entry is read before its draw.  *)
Init ==
  /\ array = [k \in Entries |-> 0]
  /\ i = 0
  /\ j = 0
  /\ drawn = 0
  /\ pc = "draw"

(* Variant: the modulus is off by one.                                     *)
DrawUpToMaxVal ==
  /\ pc = "draw"
  /\ i < Size
  /\ \E v \in 0 .. MaxVal :
        /\ array' = [array EXCEPT ![i] = v]
        /\ drawn' = v
  /\ j' = 0
  /\ pc' = "compare"
  /\ UNCHANGED i

(* array[i] = rand() % max_val, then the call make_unique(array, i).       *)
Draw ==
  /\ pc = "draw"
  /\ i < Size
  /\ \E v \in 0 .. MaxVal - 1 :
        /\ array' = [array EXCEPT ![i] = v]
        /\ drawn' = v
  /\ j' = 0
  /\ pc' = "compare"
  /\ UNCHANGED i

(* A clash with entry j: the new entry grows by n, and the comparison goes *)
(* on from entry k.                                                        *)
BumpBy(n, k) ==
  /\ pc = "compare"
  /\ j < i
  /\ array[i] = array[j]
  /\ array' = [array EXCEPT ![i] = @ + n]
  /\ j' = k
  /\ UNCHANGED <<i, drawn, pc>>

(* Variants: the comparison goes on where it was (no break); the entry     *)
(* grows by 2; the entry stays as it is.                                   *)
BumpAndGoOn == BumpBy(1, j + 1)
BumpTooFar == BumpBy(2, 0)
BumpNothing == BumpBy(0, 0)

(* A clash: unique = 0, array[idx]++, break; the while loop then starts    *)
(* the comparison again from the first entry.                              *)
Bump == BumpBy(1, 0)

Advance ==
  /\ pc = "compare"
  /\ j < i
  /\ array[i] # array[j]
  /\ j' = j + 1
  /\ UNCHANGED <<array, i, drawn, pc>>

(* The inner loop ended with unique = 1: make_unique returns.              *)
Accept ==
  /\ pc = "compare"
  /\ j = i
  /\ i' = i + 1
  /\ pc' = "draw"
  /\ UNCHANGED <<array, j, drawn>>

Next == Draw \/ Bump \/ Advance \/ Accept

Spec == Init /\ [][Next]_vars

(* The constructor is sequential code that nothing blocks.                 *)
FairSpec == Spec /\ WF_vars(Next)

-----------------------------------------------------------------------------

(* The entries that initialize_priorities has finished with. *)
Settled == 0 .. i - 1

TypeOK ==
  /\ array \in [Entries -> Int]
  /\ i \in 0 .. Size
  /\ j \in 0 .. Size
  /\ drawn \in 0 .. MaxVal - 1
  /\ pc \in {"draw", "compare"}
  /\ pc = "compare" => i \in Entries /\ j <= i

(* No two settled entries are equal.  This is the "64 unique priority      *)
(* values" of utils.h:29, at every point of the construction and not only  *)
(* at its end: a bump that forgot to restart the comparison would break it *)
(* several steps after the fact.                                           *)
UniqueSettled == \A k, l \in Settled : array[k] = array[l] => k = l

(* A settled entry k lies in 0 .. max_val - 1 + k.  The lower bound is     *)
(* what lets the scheduler's searches start from -1; the upper bound says  *)
(* that at most one bump per earlier entry is ever needed, so that 64      *)
(* entries stay far from INT_MAX.                                          *)
BumpsBounded == \A k \in Settled : array[k] >= 0 /\ array[k] <= MaxVal - 1 + k

(* make_unique moves a draw no further than it must: every value it passes *)
(* over belongs to an earlier entry.  Together with UniqueSettled this is  *)
(* the reference definition of its result, the least free value at or      *)
(* above the draw.                                                         *)
LeastFree ==
  pc = "compare" =>
    /\ drawn <= array[i]
    /\ \A v \in drawn .. array[i] - 1 : \E k \in Settled : array[k] = v

(* The comparison loop of make_unique cannot restart for ever: the         *)
(* constructor returns and the program gets to run.                        *)
Terminates == <>(i = Size)

(* The loops of initialize_priorities and make_unique implement the table  *)
(* that is filled at once: an entry counts as placed when make_unique      *)
(* returns, and what it is bumped through before is not visible.           *)
Table == INSTANCE PriorityTable WITH
  table  <- [k \in Entries |-> IF k < i THEN array[k] ELSE 0],
  filled <- i

ImplementsTable == Table!Spec

=============================================================================

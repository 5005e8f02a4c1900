----------------------------- MODULE PriorityTable -----------------------------
(***************************************************************************)
(* What the scheduler is promised of get_priorities(): a table that is     *)
(* filled entry by entry, each with a value no earlier entry has, the      *)
(* least free one at or above some draw.  There is no search here, an      *)
(* entry is placed at once and never touched again.                        *)
(***************************************************************************)
EXTENDS Integers

CONSTANTS Size, MaxVal

VARIABLES table, filled

Taken == {table[k] : k \in 0 .. filled - 1}

(* Value w is what a draw of v leads to. *)
LeastFreeFrom(v, w) == w \notin Taken /\ v .. w - 1 \subseteq Taken

Init ==
  /\ table = [k \in 0 .. Size - 1 |-> 0]
  /\ filled = 0

Place ==
  /\ filled < Size
  /\ \E v \in 0 .. MaxVal - 1 : \E w \in v .. MaxVal - 1 + filled :
       /\ LeastFreeFrom(v, w)
       /\ table' = [table EXCEPT ![filled] = w]
  /\ filled' = filled + 1

Spec == Init /\ [][Place]_<<table, filled>>

=============================================================================

------------------------------- MODULE Framework -------------------------------
(***************************************************************************)
(* framework.py and new_framework.py: the target program is run once for   *)
(* each of a number of seeds, and the worst outcome becomes the exit       *)
(* status.  The two scripts differ in one thing, the 10 seconds after      *)
(* which new_framework.py ends a target: a run is one of either script.    *)
(*                                                                         *)
(* The target is external: with any seed it may end with any return code   *)
(* or hang, as the programs of skeleton/tests do (see InterposerTests).    *)
(*                                                                         *)
(* A definition introduced as a variant is the one after it with a fault   *)
(* put in, on which the checks of a property are tried.                    *)
(***************************************************************************)
EXTENDS Integers, Sequences

CONSTANTS
  Iterations,     \* -n
  ReturnCodes,    \* what subprocess.run reports of a target that ended
  Expired         \* the outcome of a target that was ended after 10 seconds

(* subprocess.run reports -n of a target that signal n ended. *)
ASSUME CodesAssumption ==
  ReturnCodes \subseteq Int /\ \A code \in ReturnCodes : code <= 255
ASSUME ExpiredAssumption == Expired \notin ReturnCodes
ASSUME IterationsAssumption == Iterations \in Nat

VARIABLES
  times_out,      \* TRUE for new_framework.py
  phase,          \* "loop", "running", "hung", "exited"
  exit_status,
  outcomes        \* history: a return code or Expired for each run so far

vars == <<times_out, phase, exit_status, outcomes>>

Init ==
  /\ times_out \in BOOLEAN
  /\ phase = "loop"
  /\ exit_status = 0
  /\ outcomes = <<>>

AtLeast(code) == IF code > exit_status THEN code ELSE exit_status

(* The target of iteration Len(outcomes), with its seed. *)
Run ==
  /\ phase = "loop" /\ Len(outcomes) < Iterations
  /\ phase' = "running"
  /\ UNCHANGED <<times_out, exit_status, outcomes>>

(* Variant: the status is that of the last target.                         *)
TargetEndsLast ==
  /\ phase = "running"
  /\ phase' = "loop"
  /\ \E code \in ReturnCodes :
       /\ exit_status' = code
       /\ outcomes' = Append(outcomes, code)
  /\ UNCHANGED times_out

TargetEnds ==
  /\ phase = "running"
  /\ phase' = "loop"
  /\ \E code \in ReturnCodes :
       /\ exit_status' = AtLeast(code)
       /\ outcomes' = Append(outcomes, code)
  /\ UNCHANGED times_out

(* External: the target gets to where it can never end. *)
TargetHangs ==
  /\ phase = "running"
  /\ phase' = "hung"
  /\ UNCHANGED <<times_out, exit_status, outcomes>>

(* Variant: a target that hangs is not ended.                              *)
ExpireRunning ==
  /\ times_out /\ phase = "running"
  /\ phase' = "loop"
  /\ exit_status' = AtLeast(1)
  /\ outcomes' = Append(outcomes, Expired)
  /\ UNCHANGED times_out

(* TimeoutExpired, which also befalls a target that is only slow. *)
Expire ==
  /\ times_out /\ phase \in {"running", "hung"}
  /\ phase' = "loop"
  /\ exit_status' = AtLeast(1)
  /\ outcomes' = Append(outcomes, Expired)
  /\ UNCHANGED times_out

Exit ==
  /\ phase = "loop" /\ Len(outcomes) = Iterations
  /\ phase' = "exited"
  /\ UNCHANGED <<times_out, exit_status, outcomes>>

Next == Run \/ TargetEnds \/ TargetHangs \/ Expire \/ Exit

(* The script goes on, and its clock does; the target need not end. *)
Spec == Init /\ [][Next]_vars /\ WF_vars(Run \/ Expire \/ Exit)

-----------------------------------------------------------------------------

TypeOK ==
  /\ phase \in {"loop", "running", "hung", "exited"}
  /\ times_out \in BOOLEAN
  /\ exit_status \in 0 .. 255
  /\ outcomes \in Seq(ReturnCodes \cup {Expired})

(* After the last iteration the status is 0 only if no run hung and none   *)
(* returned a positive code: a later run that goes well never hides an     *)
(* earlier one that did not.  A run that a signal ended is not noticed.    *)
FailuresNoticed ==
  phase = "exited" /\ exit_status = 0 =>
    \A i \in 1 .. Len(outcomes) : outcomes[i] # Expired /\ outcomes[i] <= 0

(* new_framework.py comes back, whatever the targets do.  framework.py may *)
(* not, but only because it waits for one target for ever: that            *)
(* "the framework will catch it and return 1" if a test deadlocks          *)
(* (pthread_mutex_trylock_test.c:61) is true of the other script only.     *)
Returns == <>(phase = "exited") \/ <>[](~times_out /\ phase \in {"running", "hung"})

=============================================================================

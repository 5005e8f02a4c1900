----------------------------- MODULE PosixThreads -----------------------------
(***************************************************************************)
(* What a program is promised of the calls that testlib.c interposes: a    *)
(* call begins, has its effect on the mutexes and the sleeping threads at  *)
(* one instant, and ends.  A wait has its effect in two instants, going to *)
(* sleep and getting the mutex again.                                      *)
(*                                                                         *)
(* This is the C library, modelled as far as testlib.c and the programs of *)
(* skeleton/tests use it, without a log, a scheduler or a stack trace.     *)
(***************************************************************************)
EXTENDS Integers

CONSTANTS
  Threads,
  Mutexes,
  Conds,       \* the condition variables of the program
  None,        \* no owner, no condition, no argument
  Ops          \* the calls the program makes

EBUSY == 16    \* what pthread_mutex_trylock returns for a taken mutex

VARIABLES
  owner,       \* mutex -> the thread that holds it
  asleep,      \* thread -> the condition it sleeps on
  call,        \* thread -> its last call, with the arguments
  return_val,  \* thread -> what its last call returned
  phase        \* thread -> "idle", "called", "sleeping", "done"

MutexCalls == [op : Ops \cap {"lock", "unlock", "trylock"}, mutex : Mutexes, cond : {None}]
CondCalls == [op : Ops \cap {"signal", "broadcast"}, mutex : {None}, cond : Conds]
WaitCalls == [op : Ops \cap {"wait"}, mutex : Mutexes, cond : Conds]
PlainCalls == [op : Ops \cap {"yield", "create", "exit"}, mutex : {None}, cond : {None}]

NoCall == [op |-> "none", mutex |-> None, cond |-> None]

AllCalls == MutexCalls \cup CondCalls \cup WaitCalls \cup PlainCalls

(* A correct program unlocks, and waits with, only a mutex it holds. *)
MayCall(t, c) == c.op \in {"unlock", "wait"} => owner[c.mutex] = t

Does(t, op) == call[t].op = op

-----------------------------------------------------------------------------
(* The instants.  None of them mentions phase. *)

Lock(t) ==
  /\ Does(t, "lock")
  /\ owner[call[t].mutex] = None
  /\ owner' = [owner EXCEPT ![call[t].mutex] = t]
  /\ return_val' = [return_val EXCEPT ![t] = 0]
  /\ UNCHANGED asleep

Trylock(t) ==
  LET free == owner[call[t].mutex] = None IN
  /\ Does(t, "trylock")
  /\ owner' = IF free THEN [owner EXCEPT ![call[t].mutex] = t] ELSE owner
  /\ return_val' = [return_val EXCEPT ![t] = IF free THEN 0 ELSE EBUSY]
  /\ UNCHANGED asleep

Unlock(t) ==
  /\ Does(t, "unlock")
  /\ owner' = [owner EXCEPT ![call[t].mutex] = None]
  /\ return_val' = [return_val EXCEPT ![t] = 0]
  /\ UNCHANGED asleep

Sleepers(c) == {u \in Threads : asleep[u] = c}

(* A signal wakes one of the sleepers, any of them, and is lost if there   *)
(* is none.                                                                *)
Signal(t) ==
  /\ Does(t, "signal")
  /\ \/ Sleepers(call[t].cond) = {} /\ UNCHANGED asleep
     \/ \E u \in Sleepers(call[t].cond) : asleep' = [asleep EXCEPT ![u] = None]
  /\ return_val' = [return_val EXCEPT ![t] = 0]
  /\ UNCHANGED owner

Broadcast(t) ==
  /\ Does(t, "broadcast")
  /\ asleep' = [u \in Threads |-> IF asleep[u] = call[t].cond THEN None ELSE asleep[u]]
  /\ return_val' = [return_val EXCEPT ![t] = 0]
  /\ UNCHANGED owner

(* Nothing happens to a mutex or a sleeper.  The same is true of "exit",   *)
(* which does not end.                                                     *)
YieldOrCreate(t) ==
  /\ call[t].op \in {"yield", "create"}
  /\ return_val' = [return_val EXCEPT ![t] = 0]
  /\ UNCHANGED <<owner, asleep>>

Effect(t) ==
  Lock(t) \/ Trylock(t) \/ Unlock(t) \/ Signal(t) \/ Broadcast(t) \/ YieldOrCreate(t)

FallAsleep(t) ==
  /\ Does(t, "wait")
  /\ owner' = [owner EXCEPT ![call[t].mutex] = None]
  /\ asleep' = [asleep EXCEPT ![t] = call[t].cond]
  /\ UNCHANGED return_val

(* The C library may end a wait without a signal. *)
WakeSpuriously(t) ==
  /\ asleep[t] # None
  /\ asleep' = [asleep EXCEPT ![t] = None]
  /\ UNCHANGED <<owner, return_val>>

(* A woken thread gets its mutex again before the wait ends. *)
Relock(t) ==
  /\ asleep[t] = None
  /\ owner[call[t].mutex] = None
  /\ owner' = [owner EXCEPT ![call[t].mutex] = t]
  /\ return_val' = [return_val EXCEPT ![t] = 0]
  /\ UNCHANGED asleep

-----------------------------------------------------------------------------
library == <<owner, asleep, return_val>>

vars == <<library, call, phase>>

Turns(t, from, to) == phase[t] = from /\ phase' = [phase EXCEPT ![t] = to]

Init ==
  /\ owner = [m \in Mutexes |-> None]
  /\ asleep = [t \in Threads |-> None]
  /\ call = [t \in Threads |-> NoCall]
  /\ return_val = [t \in Threads |-> 0]
  /\ phase = [t \in Threads |-> "idle"]

Begin(t) ==
  /\ Turns(t, "idle", "called")
  /\ \E c \in AllCalls : MayCall(t, c) /\ call' = [call EXCEPT ![t] = c]
  /\ UNCHANGED library

Do(t) == Turns(t, "called", "done") /\ Effect(t) /\ UNCHANGED call
Sleep(t) == Turns(t, "called", "sleeping") /\ FallAsleep(t) /\ UNCHANGED call
Wake(t) == WakeSpuriously(t) /\ UNCHANGED <<phase, call>>
Resume(t) == Turns(t, "sleeping", "done") /\ Relock(t) /\ UNCHANGED call
End(t) == Turns(t, "done", "idle") /\ UNCHANGED <<library, call>>

Next == \E t \in Threads : Begin(t) \/ Do(t) \/ Sleep(t) \/ Wake(t) \/ Resume(t) \/ End(t)

Spec == Init /\ [][Next]_vars

=============================================================================

--------------------------- MODULE Framework_proofs ---------------------------
(***************************************************************************)
(* The safety properties of the scripts, for every number of iterations    *)
(* and every set of return codes, with and without the time limit.         *)
(***************************************************************************)
EXTENDS Framework, TLAPS

(* FailuresNoticed at any time: what the status forgets, it never knew.    *)
NoticedInv ==
  exit_status = 0 => \A i \in 1 .. Len(outcomes) : outcomes[i] # Expired /\ outcomes[i] <= 0

IInv == TypeOK /\ NoticedInv

LEMMA InitIInv == Init => IInv
  BY DEF Init, IInv, TypeOK, NoticedInv

LEMMA NextIInv == IInv /\ [Next]_vars => IInv'
<1> SUFFICES ASSUME IInv, [Next]_vars PROVE IInv'
  OBVIOUS
<1> USE CodesAssumption, ExpiredAssumption DEF IInv, TypeOK, NoticedInv, AtLeast
<1>1. CASE Run
  BY <1>1 DEF Run
<1>2. CASE TargetEnds
  <2>1. PICK code \in ReturnCodes :
          exit_status' = AtLeast(code) /\ outcomes' = Append(outcomes, code)
    BY <1>2 DEF TargetEnds
  <2>2. code \in Int /\ code <= 255 /\ code # Expired
    OBVIOUS
  <2>3. exit_status' \in 0 .. 255
    BY <2>1, <2>2
  <2>4. /\ outcomes' \in Seq(ReturnCodes \cup {Expired})
        /\ Len(outcomes') = Len(outcomes) + 1
        /\ \A i \in 1 .. Len(outcomes) + 1 :
             outcomes'[i] = IF i = Len(outcomes) + 1 THEN code ELSE outcomes[i]
    BY <2>1
  <2>5. NoticedInv'
    <3> SUFFICES ASSUME exit_status' = 0, NEW i \in 1 .. Len(outcomes) + 1
                 PROVE  outcomes'[i] # Expired /\ outcomes'[i] <= 0
      BY <2>4
    <3>1. exit_status = 0 /\ code <= 0
      BY <2>1, <2>2
    <3>2. CASE i = Len(outcomes) + 1
      <4>1. outcomes'[i] = code
        BY <2>4, <3>2
      <4>2. QED
        BY <2>2, <3>1, <4>1
    <3>3. CASE i # Len(outcomes) + 1
      <4>1. outcomes'[i] = outcomes[i] /\ i \in 1 .. Len(outcomes)
        BY <2>4, <3>3
      <4>2. QED
        BY <3>1, <4>1
    <3>4. QED
      BY <3>2, <3>3
  <2>6. QED
    BY <1>2, <2>3, <2>4, <2>5 DEF TargetEnds
<1>3. CASE TargetHangs
  BY <1>3 DEF TargetHangs
<1>4. CASE Expire
  <2>1. exit_status' > 0
    BY <1>4 DEF Expire
  <2>2. QED
    BY <1>4, <2>1 DEF Expire
<1>5. CASE Exit
  BY <1>5 DEF Exit
<1>6. CASE UNCHANGED vars
  BY <1>6 DEF vars
<1>7. QED
  BY <1>1, <1>2, <1>3, <1>4, <1>5, <1>6 DEF Next

(* The exit status is one that a process can have.                         *)
THEOREM TypeCorrect == Spec => []TypeOK
<1>1. IInv => TypeOK
  BY DEF IInv
<1>2. QED
  BY InitIInv, NextIInv, <1>1, PTL DEF Spec

(* A hang or a positive return code of any iteration shows in the status.  *)
THEOREM FailuresShow == Spec => []FailuresNoticed
<1>1. IInv => FailuresNoticed
  BY DEF IInv, NoticedInv, FailuresNoticed
<1>2. QED
  BY InitIInv, NextIInv, <1>1, PTL DEF Spec

=============================================================================

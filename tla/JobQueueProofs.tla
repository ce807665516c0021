---------------------------- MODULE JobQueueProofs ----------------------------
(***************************************************************************)
(* What the promise of JobQueue amounts to: the two statements a reader    *)
(* would make of it follow from its transitions.                           *)
(***************************************************************************)
EXTENDS JobQueue, TLAPS

PromiseInv == status \in [Jobs -> Status] /\ OneActive

LEMMA PromiseInvInductive == PromiseInv /\ [Next]_vars => PromiseInv'
<1> SUFFICES ASSUME PromiseInv, [Next]_vars PROVE PromiseInv'
    OBVIOUS
<1> USE DEF PromiseInv, OneActive, Status, Outcome
<1>1. ASSUME NEW j \in Jobs, Accept(j) PROVE PromiseInv'
    BY <1>1 DEF Accept
<1>2. ASSUME NEW j \in Jobs, Begin(j) PROVE PromiseInv'
    BY <1>2 DEF Begin
<1>3. ASSUME NEW j \in Jobs, NEW outcome \in {"succeeded", "failed"}, Settle(j, outcome)
      PROVE PromiseInv'
    BY <1>3 DEF Settle
<1>4. ASSUME NEW j \in Jobs, Strand(j) PROVE PromiseInv'
    BY <1>4 DEF Strand
<1>5. CASE Halt
    BY <1>5 DEF Halt
<1>6. CASE Restart
    BY <1>6 DEF Restart
<1>7. CASE UNCHANGED vars
    BY <1>7 DEF vars
<1> QED
    BY <1>1, <1>2, <1>3, <1>4, <1>5, <1>6, <1>7 DEF Next

(* Two jobs are never under way at once, whatever dies, restarts or is stranded. *)
THEOREM OneAtATime == Spec => []OneActive
<1>1. Init => PromiseInv
    BY DEF Init, PromiseInv, OneActive, Status
<1>2. PromiseInv => OneActive
    BY DEF PromiseInv
<1> QED
    BY <1>1, <1>2, PromiseInvInductive, PTL DEF Spec

(* No transition revises an outcome: not a restart either, which interrupts only what is *)
(* still open.                                                                           *)
THEOREM OutcomesFinal == Spec => OutcomeIsFinal
<1> DEFINE Final == \A j \in Jobs : status[j] \in Outcome => status'[j] = status[j]
<1>1. Init => PromiseInv
    BY DEF Init, PromiseInv, OneActive, Status
<1>2. ASSUME PromiseInv, [Next]_vars PROVE [Final]_vars
  <2> USE <1>2 DEF PromiseInv, Outcome
  <2>1. ASSUME NEW j \in Jobs,
               Accept(j) \/ Begin(j) \/ Strand(j)
                  \/ \E outcome \in {"succeeded", "failed"} : Settle(j, outcome)
        PROVE Final
      BY <2>1 DEF Accept, Begin, Strand, Settle
  <2>2. CASE Halt
      BY <2>2 DEF Halt
  <2>3. CASE Restart
      BY <2>3 DEF Restart
  <2> QED
      BY <2>1, <2>2, <2>3 DEF Next
<1> QED
    BY <1>1, <1>2, PromiseInvInductive, PTL DEF Spec, OutcomeIsFinal
=============================================================================

------------------------------ MODULE JobQueue ------------------------------
(***************************************************************************)
(* What aptly-gui promises about write jobs, without the queue, the worker *)
(* or the database that keep the promise (src/README.md, "Only one write   *)
(* job runs at a time"):                                                   *)
(*                                                                         *)
(*   - an accepted job runs at most once, and never starts beside another; *)
(*   - an outcome, once recorded, is never revised, not even by a restart; *)
(*   - a restart repeats nothing: whatever had no outcome is interrupted.  *)
(*                                                                         *)
(* "stranded" is the one state the database has no word for: the worker    *)
(* has let go of a job without giving it an outcome, so its row goes on    *)
(* saying queued or running until the next start of the process.           *)
(***************************************************************************)
EXTENDS FiniteSets

CONSTANT Jobs       \* the job rows that will ever exist

VARIABLES status,   \* what is promised of each job so far
          halted    \* the process is down: nothing starts, nothing settles

vars == <<status, halted>>

Outcome == {"succeeded", "failed", "interrupted"}
Status  == {"absent", "waiting", "active", "stranded"} \cup Outcome

Init ==
    /\ status = [j \in Jobs |-> "absent"]
    /\ halted = TRUE

Accept(j) ==
    /\ ~halted
    /\ status[j] = "absent"
    /\ status' = [status EXCEPT ![j] = "waiting"]
    /\ UNCHANGED halted

Begin(j) ==
    /\ ~halted
    /\ status[j] = "waiting"
    /\ \A k \in Jobs : status[k] # "active"
    /\ status' = [status EXCEPT ![j] = "active"]
    /\ UNCHANGED halted

Settle(j, outcome) ==
    /\ ~halted
    /\ status[j] = "active"
    /\ status' = [status EXCEPT ![j] = outcome]
    /\ UNCHANGED halted

Strand(j) ==
    /\ ~halted
    /\ status[j] \in {"waiting", "active"}
    /\ status' = [status EXCEPT ![j] = "stranded"]
    /\ UNCHANGED halted

Halt ==
    /\ ~halted
    /\ halted' = TRUE
    /\ UNCHANGED status

Restart ==
    /\ halted
    /\ halted' = FALSE
    /\ status' = [j \in Jobs |-> IF status[j] \in {"waiting", "active", "stranded"}
                                 THEN "interrupted" ELSE status[j]]

Next ==
    \/ \E j \in Jobs :
          \/ Accept(j) \/ Begin(j) \/ Strand(j)
          \/ \E outcome \in {"succeeded", "failed"} : Settle(j, outcome)
    \/ Halt
    \/ Restart

Spec == Init /\ [][Next]_vars

-----------------------------------------------------------------------------
(* At no time are two jobs under way. *)
OneActive == \A j, k \in Jobs : status[j] = "active" /\ status[k] = "active" => j = k

(* An outcome is final. *)
OutcomeIsFinal ==
    [][\A j \in Jobs : status[j] \in Outcome => status'[j] = status[j]]_vars
=============================================================================

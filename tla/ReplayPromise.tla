---------------------------- MODULE ReplayPromise ----------------------------
(***************************************************************************)
(* What a run of the replay promises, whichever way it is carried out:     *)
(* blocks are checked one after the other, the run succeeds only when all  *)
(* of them are, and it fails only for a block that is not checked and that *)
(* really has a fault, or because it was cancelled.                        *)
(* The blocks are those the block database's iterator yields, numbered     *)
(* from 1 in the order it yields them (go/replay/replay.go).               *)
(***************************************************************************)
EXTENDS Integers

CONSTANT N   \* how many blocks the iterator yields

Position == 1 .. N

(* What is wrong with a block: the iterator or the conversion fails on it  *)
(* ("decode"), or ApplyBlock, MaybeSnapshot, checkBlockResults or the      *)
(* callback onBlockDone does.                                              *)
Fault == {"none", "decode", "apply", "snapshot", "check", "report"}

NoIssue == [block |-> 0, why |-> "none"]
Issue == [block : Position, why : (Fault \ {"none"}) \cup {"cancelled"}] \cup {NoIssue}

VARIABLES
    fault,      \* the fault of each block, fixed
    cancelled,  \* the context is cancelled
    checked,    \* how many blocks went through all the steps
    outcome,    \* "running", "ok" or "failed"
    issue       \* the error that is returned

vars == <<fault, cancelled, checked, outcome, issue>>

Init ==
    /\ fault \in [Position -> Fault]
    /\ cancelled = FALSE
    /\ checked = 0
    /\ outcome = "running"
    /\ issue = NoIssue

Cancel ==
    /\ ~ cancelled
    /\ cancelled' = TRUE
    /\ UNCHANGED <<fault, checked, outcome, issue>>

CheckBlock ==
    /\ outcome = "running"
    /\ checked < N
    /\ fault[checked + 1] = "none"
    /\ checked' = checked + 1
    /\ UNCHANGED <<fault, cancelled, outcome, issue>>

Succeed ==
    /\ outcome = "running"
    /\ checked = N
    /\ outcome' = "ok"
    /\ UNCHANGED <<fault, cancelled, checked, issue>>

Fail ==
    /\ outcome = "running"
    /\ \E b \in (checked + 1) .. N :
          \/ fault[b] # "none" /\ issue' = [block |-> b, why |-> fault[b]]
          \/ cancelled /\ issue' = [block |-> b, why |-> "cancelled"]
    /\ outcome' = "failed"
    /\ UNCHANGED <<fault, cancelled, checked>>

Next == Cancel \/ CheckBlock \/ Succeed \/ Fail

Spec == Init /\ [][Next]_vars
=============================================================================

----------------------------- MODULE ReplayLoop -----------------------------
(***************************************************************************)
(* runReplayLoop (go/replay/replay.go): one goroutine does the steps of    *)
(* the three stages on one block after the other and returns the first     *)
(* error it meets.  Its state is that of the stages, of which at most one  *)
(* is at work; the channels stay empty and abort is not used.              *)
(***************************************************************************)
EXTENDS ReplayPipeline

Between == outcome = "running" /\ apply = "next" /\ check = "next"

(* return err *)
ReturnError(block, why) ==
    /\ issue' = [block |-> block, why |-> why]
    /\ outcome' = "failed"

(* The iterator's error, then the context, then the conversion. *)
LoopDecode ==
    /\ Between
    /\ read < N
    /\ read' = read + 1
    /\ \/ /\ fault[read + 1] = "decode"
          /\ ReturnError(read + 1, "decode")
          /\ decode' = "stopped"
          /\ UNCHANGED <<apply, applying>>
       \/ /\ cancelled
          /\ ReturnError(read + 1, "cancelled")
          /\ decode' = "stopped"
          /\ UNCHANGED <<apply, applying>>
       \/ /\ fault[read + 1] # "decode" /\ ~ cancelled
          /\ apply' = "apply" /\ applying' = read + 1
          /\ UNCHANGED <<decode, issue, outcome>>
    /\ UNCHANGED <<applied, stage3, channels, given, abort>>

LoopApply ==
    /\ outcome = "running"
    /\ apply = "apply"
    /\ \/ /\ fault[applying] = "apply"
          /\ ReturnError(applying, "apply")
          /\ apply' = "stopped"
          /\ UNCHANGED applied
       \/ /\ fault[applying] # "apply"
          /\ applied' = applied + 1
          /\ apply' = "snapshot"
          /\ UNCHANGED <<issue, outcome>>
    /\ UNCHANGED <<stage1, applying, stage3, channels, given, abort>>

LoopSnapshot ==
    /\ outcome = "running"
    /\ apply = "snapshot"
    /\ \/ /\ fault[applying] = "snapshot"
          /\ ReturnError(applying, "snapshot")
          /\ apply' = "stopped"
          /\ UNCHANGED <<check, checking>>
       \/ /\ fault[applying] # "snapshot"
          /\ apply' = "next"
          /\ check' = "check" /\ checking' = applying
          /\ UNCHANGED <<issue, outcome>>
    /\ UNCHANGED <<stage1, applying, applied, checked, channels, given, abort>>

LoopCheck ==
    /\ outcome = "running"
    /\ check = "check"
    /\ \/ /\ fault[checking] = "check"
          /\ ReturnError(checking, "check")
          /\ check' = "stopped"
       \/ /\ fault[checking] # "check"
          /\ check' = "report"
          /\ UNCHANGED <<issue, outcome>>
    /\ UNCHANGED <<stage1, stage2, checking, checked, channels, given, abort>>

(* onBlockDone, and the submission to the archive verifier *)
LoopReport ==
    /\ outcome = "running"
    /\ check = "report"
    /\ \/ /\ fault[checking] = "report"
          /\ ReturnError(checking, "report")
          /\ check' = "stopped"
          /\ UNCHANGED checked
       \/ /\ fault[checking] # "report"
          /\ checked' = checked + 1
          /\ check' = "next"
          /\ UNCHANGED <<issue, outcome>>
    /\ UNCHANGED <<stage1, stage2, checking, channels, given, abort>>

(* The iterator is exhausted: return nil. *)
LoopEnd ==
    /\ Between
    /\ read = N
    /\ outcome' = "ok"
    /\ UNCHANGED <<stage1, stage2, stage3, channels, given, report>>

LoopStep == LoopDecode \/ LoopApply \/ LoopSnapshot \/ LoopCheck \/ LoopReport \/ LoopEnd

LoopNext == Cancel \/ LoopStep \/ Returned

LoopSpec == Init /\ [][LoopNext]_vars

(* The goroutine is scheduled; the calls it makes return. *)
LoopFairSpec == LoopSpec /\ WF_vars(LoopStep)

-----------------------------------------------------------------------------
(* The loop applies no block before the one below it is checked, and an    *)
(* error it returns is of the block after the last one checked: unlike     *)
(* after a failed pipeline, the state is at most that one block ahead.     *)
OneAtATime ==
    /\ applied - checked \in 0 .. 1
    /\ outcome = "failed" => issue.block = checked + 1
=============================================================================

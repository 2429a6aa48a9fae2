--------------------------- MODULE ReplayPipeline ---------------------------
(***************************************************************************)
(* runReplayPipeline (go/replay/replay.go): three goroutines decode, apply *)
(* and check the blocks, connected by two bounded channels.  A stage that  *)
(* meets an error stores it -- over one stored earlier -- and closes the   *)
(* channel abort; a stage looks at abort only while it sends, where the    *)
(* choice between sending and stopping is Go's, at random.  A stage that   *)
(* returns closes the channel it sends on.                                 *)
(*                                                                         *)
(* A block is its position in the iterator.  A stage that stops on an      *)
(* error or on abort keeps the block it had in hand ("stopped").           *)
(***************************************************************************)
EXTENDS Integers, Sequences

CONSTANTS
    N,           \* how many blocks the iterator yields
    channelSize  \* capacity of each of the two channels

ASSUME PipelineAssumption == N \in Nat /\ channelSize \in Nat \ {0}

VARIABLES
    fault, cancelled, checked, outcome, issue,  \* see ReplayPromise
    abort,          \* the channel abort is closed
    decode,         \* stage 1: "next", "send", "stopped" or "done"
    read,           \* the last block stage 1 got from the iterator
    decodedBlocks,  \* the channel from stage 1 to stage 2
    apply,          \* stage 2: "next", "apply", "snapshot", "send", "stopped", "done"
    applying,       \* the block in the hands of stage 2
    applied,        \* how many blocks ApplyBlock has committed to the state
    results,        \* the channel from stage 2 to stage 3
    check,          \* stage 3: "next", "check", "report", "stopped" or "done"
    checking        \* the block in the hands of stage 3

promise == INSTANCE ReplayPromise

stage1 == <<decode, read>>
stage2 == <<apply, applying, applied>>
stage3 == <<check, checking, checked>>
channels == <<decodedBlocks, results>>
given == <<fault, cancelled>>
report == <<issue, abort>>
vars == <<stage1, stage2, stage3, channels, given, report, outcome>>

TypeOK ==
    /\ fault \in [1 .. N -> promise!Fault]
    /\ cancelled \in BOOLEAN
    /\ outcome \in {"running", "ok", "failed"}
    /\ issue \in promise!Issue
    /\ abort \in BOOLEAN
    /\ decode \in {"next", "send", "stopped", "done"}
    /\ apply \in {"next", "apply", "snapshot", "send", "stopped", "done"}
    /\ check \in {"next", "check", "report", "stopped", "done"}
    /\ {read, applying, applied, checking, checked} \subseteq 0 .. N
    /\ decodedBlocks \in Seq(1 .. N) /\ Len(decodedBlocks) <= channelSize
    /\ results \in Seq(1 .. N) /\ Len(results) <= channelSize

Init ==
    /\ promise!Init
    /\ abort = FALSE
    /\ decode = "next" /\ read = 0
    /\ apply = "next" /\ applying = 0 /\ applied = 0
    /\ check = "next" /\ checking = 0
    /\ decodedBlocks = <<>>
    /\ results = <<>>

(* Mutation: the error is not stored. *)
ReportIssueUnstored(block, why) == abort' = TRUE /\ UNCHANGED issue

(* Mutation: abort is not closed. *)
ReportIssueQuietly(block, why) ==
    /\ issue' = [block |-> block, why |-> why]
    /\ UNCHANGED abort

(* reportIssue *)
ReportIssue(block, why) ==
    /\ issue' = [block |-> block, why |-> why]
    /\ abort' = TRUE

(* The context is cancelled: by the user, or by the archive verifier. *)
Cancel ==
    /\ outcome = "running"
    /\ ~ cancelled
    /\ cancelled' = TRUE
    /\ UNCHANGED <<fault, stage1, stage2, stage3, channels, report, outcome>>

-----------------------------------------------------------------------------
(* Stage 1: the iterator yields a block or an error; then the context is   *)
(* looked at; then the block is converted and its senders are recovered.   *)

(* Mutation: the context is not looked at. *)
DecodeBlockRegardless ==
    /\ decode = "next"
    /\ read < N
    /\ read' = read + 1
    /\ \/ /\ fault[read + 1] = "decode"
          /\ ReportIssue(read + 1, "decode")
          /\ decode' = "stopped"
       \/ /\ fault[read + 1] # "decode"
          /\ decode' = "send"
          /\ UNCHANGED report
    /\ UNCHANGED <<stage2, stage3, channels, given, outcome>>

DecodeBlock ==
    /\ decode = "next"
    /\ read < N
    /\ read' = read + 1
    /\ \/ /\ fault[read + 1] = "decode"
          /\ ReportIssue(read + 1, "decode")
          /\ decode' = "stopped"
       \/ /\ cancelled
          /\ ReportIssue(read + 1, "cancelled")
          /\ decode' = "stopped"
       \/ /\ fault[read + 1] # "decode" /\ ~ cancelled
          /\ decode' = "send"
          /\ UNCHANGED report
    /\ UNCHANGED <<stage2, stage3, channels, given, outcome>>

SendDecoded ==
    /\ decode = "send"
    /\ Len(decodedBlocks) < channelSize
    /\ decodedBlocks' = Append(decodedBlocks, read)
    /\ decode' = "next"
    /\ UNCHANGED <<read, stage2, stage3, results, given, report, outcome>>

StopDecoding ==
    /\ decode = "send"
    /\ abort
    /\ decode' = "stopped"
    /\ UNCHANGED <<read, stage2, stage3, channels, given, report, outcome>>

EndDecoding ==
    /\ decode = "next"
    /\ read = N
    /\ decode' = "done"
    /\ UNCHANGED <<read, stage2, stage3, channels, given, report, outcome>>

-----------------------------------------------------------------------------
(* Stage 2 *)

ReceiveDecoded ==
    /\ apply = "next"
    /\ decodedBlocks # <<>>
    /\ applying' = Head(decodedBlocks)
    /\ decodedBlocks' = Tail(decodedBlocks)
    /\ apply' = "apply"
    /\ UNCHANGED <<stage1, applied, stage3, results, given, report, outcome>>

ApplyBlock ==
    /\ apply = "apply"
    /\ \/ /\ fault[applying] = "apply"
          /\ ReportIssue(applying, "apply")
          /\ apply' = "stopped"
          /\ UNCHANGED applied
       \/ /\ fault[applying] # "apply"
          /\ applied' = applied + 1
          /\ apply' = "snapshot"
          /\ UNCHANGED report
    /\ UNCHANGED <<stage1, applying, stage3, channels, given, outcome>>

MaybeSnapshot ==
    /\ apply = "snapshot"
    /\ \/ /\ fault[applying] = "snapshot"
          /\ ReportIssue(applying, "snapshot")
          /\ apply' = "stopped"
       \/ /\ fault[applying] # "snapshot"
          /\ apply' = "send"
          /\ UNCHANGED report
    /\ UNCHANGED <<stage1, applying, applied, stage3, channels, given, outcome>>

SendResult ==
    /\ apply = "send"
    /\ Len(results) < channelSize
    /\ results' = Append(results, applying)
    /\ apply' = "next"
    /\ UNCHANGED <<stage1, applying, applied, stage3, decodedBlocks, given, report, outcome>>

(* Mutation: the stage drops the block and goes on. *)
SkipOnAbort ==
    /\ apply = "send"
    /\ abort
    /\ apply' = "next"
    /\ UNCHANGED <<stage1, applying, applied, stage3, channels, given, report, outcome>>

StopApplying ==
    /\ apply = "send"
    /\ abort
    /\ apply' = "stopped"
    /\ UNCHANGED <<stage1, applying, applied, stage3, channels, given, report, outcome>>

EndApplying ==
    /\ apply = "next"
    /\ decodedBlocks = <<>>
    /\ decode \in {"stopped", "done"}
    /\ apply' = "done"
    /\ UNCHANGED <<stage1, applying, applied, stage3, channels, given, report, outcome>>

-----------------------------------------------------------------------------
(* Stage 3 *)

ReceiveResult ==
    /\ check = "next"
    /\ results # <<>>
    /\ checking' = Head(results)
    /\ results' = Tail(results)
    /\ check' = "check"
    /\ UNCHANGED <<stage1, stage2, checked, decodedBlocks, given, report, outcome>>

CheckBlockResults ==
    /\ check = "check"
    /\ \/ /\ fault[checking] = "check"
          /\ ReportIssue(checking, "check")
          /\ check' = "stopped"
       \/ /\ fault[checking] # "check"
          /\ check' = "report"
          /\ UNCHANGED report
    /\ UNCHANGED <<stage1, stage2, checking, checked, channels, given, outcome>>

(* onBlockDone, and the submission to the archive verifier *)
OnBlockDone ==
    /\ check = "report"
    /\ \/ /\ fault[checking] = "report"
          /\ ReportIssue(checking, "report")
          /\ check' = "stopped"
          /\ UNCHANGED checked
       \/ /\ fault[checking] # "report"
          /\ checked' = checked + 1
          /\ check' = "next"
          /\ UNCHANGED report
    /\ UNCHANGED <<stage1, stage2, checking, channels, given, outcome>>

EndChecking ==
    /\ check = "next"
    /\ results = <<>>
    /\ apply \in {"stopped", "done"}
    /\ check' = "done"
    /\ UNCHANGED <<stage1, stage2, checking, checked, channels, given, report, outcome>>

-----------------------------------------------------------------------------
(* wg.Wait() and the return *)
AllStagesReturned == {decode, apply, check} \subseteq {"stopped", "done"}

Return ==
    /\ outcome = "running"
    /\ AllStagesReturned
    /\ outcome' = IF issue = promise!NoIssue THEN "ok" ELSE "failed"
    /\ UNCHANGED <<stage1, stage2, stage3, channels, given, report>>

(* The pipeline has returned. *)
Returned == outcome # "running" /\ UNCHANGED vars

Stage1 == DecodeBlock \/ SendDecoded \/ StopDecoding \/ EndDecoding

Stage2 ==
    ReceiveDecoded \/ ApplyBlock \/ MaybeSnapshot \/ SendResult \/ StopApplying
    \/ EndApplying

Stage3 == ReceiveResult \/ CheckBlockResults \/ OnBlockDone \/ EndChecking

Next == Cancel \/ Stage1 \/ Stage2 \/ Stage3 \/ Return \/ Returned

Spec == Init /\ [][Next]_vars

(* Goroutines that can run are scheduled; the calls they make return. *)
FairSpec ==
    Spec /\ WF_vars(Stage1) /\ WF_vars(Stage2) /\ WF_vars(Stage3) /\ WF_vars(Return)

-----------------------------------------------------------------------------
(* The pipeline keeps the promise of the replay: while decoding and        *)
(* application run ahead and errors overwrite each other, blocks are       *)
(* checked in order, nil is returned only when all were, and the error     *)
(* that is returned belongs to a block that was not checked.  The error is *)
(* the promise's at the return only: before it, it may be overwritten.     *)
Promise ==
    INSTANCE ReplayPromise
    WITH issue <- IF outcome = "failed" THEN issue ELSE promise!NoIssue

KeepsPromise == Promise!Spec

Held(stage, in) == IF stage \in in THEN 1 ELSE 0
InCheck == Held(check, {"check", "report", "stopped"})
InApply == Held(apply, {"apply", "snapshot", "send", "stopped"})
InDecode == Held(decode, {"send", "stopped"})

(* Nothing is lost, doubled or reordered between the stages: the blocks    *)
(* read are the ones checked, followed by those in the hands of stage 3,   *)
(* in results, with stage 2, in decodedBlocks and with stage 1.            *)
NothingLost ==
    LET inResults == checked + InCheck
        inDecoded == inResults + Len(results) + InApply
    IN  /\ InCheck = 1 => checking = checked + 1
        /\ \A i \in 1 .. Len(results) : results[i] = inResults + i
        /\ InApply = 1 => applying = inResults + Len(results) + 1
        /\ \A i \in 1 .. Len(decodedBlocks) : decodedBlocks[i] = inDecoded + i
        /\ read = inDecoded + Len(decodedBlocks) + InDecode

(* The state is never further ahead of the checks than one full channel    *)
(* and the two blocks that stages 2 and 3 work on, also after an error:    *)
(* that many blocks the state holds unchecked when the replay fails.       *)
RunAheadBounded == applied - checked \in 0 .. (channelSize + 2)

(* A stage that waits on a channel is never left behind: an error in any   *)
(* stage, or a cancelled context, makes the pipeline return.               *)
Terminates == <>(outcome # "running")

(* A cancellation before the last block is read makes the replay fail. *)
CancelIsNoticed == (cancelled /\ read < N) ~> (outcome = "failed")
=============================================================================

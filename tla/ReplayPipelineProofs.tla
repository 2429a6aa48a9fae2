------------------------ MODULE ReplayPipelineProofs ------------------------
(***************************************************************************)
(* Proof that the pipeline and the sequential loop keep the promise of the *)
(* replay, for any number of blocks, any channel capacity and any faults.  *)
(***************************************************************************)
EXTENDS ReplayLoop, TLAPS

(* What the inductive invariant adds to NothingLost.  A block that a stage *)
(* has let through does not have the faults this stage notices: *)
FaultsFiltered ==
    /\ \A k \in 1 .. checked : fault[k] = "none"
    /\ \A i \in 1 .. Len(results) : fault[results[i]] \in {"none", "check", "report"}
    /\ \A i \in 1 .. Len(decodedBlocks) : fault[decodedBlocks[i]] # "decode"
    /\ decode = "send" => fault[read] # "decode"
    /\ apply \in {"apply", "snapshot", "send"} => fault[applying] # "decode"
    /\ apply \in {"snapshot", "send"} => fault[applying] # "apply"
    /\ apply = "send" => fault[applying] # "snapshot"
    /\ check \in {"check", "report"} => fault[checking] \in {"none", "check", "report"}
    /\ check = "report" => fault[checking] # "check"

(* abort is closed exactly when an error is stored; the error is real, and *)
(* one of a cancellation is that of the block on which stage 1 stopped: *)
IssueReal ==
    /\ abort <=> issue # promise!NoIssue
    /\ "stopped" \in {decode, apply, check} => abort
    /\ abort => /\ issue.block \in 1 .. N
                /\ \/ /\ issue.why = "cancelled"
                      /\ cancelled
                      /\ decode = "stopped"
                      /\ issue.block = read
                   \/ /\ issue.why # "none"
                      /\ fault[issue.block] = issue.why

(* A stage ends only when its input has ended: *)
EndsInOrder ==
    /\ decode = "done" => read = N
    /\ apply = "done" => decodedBlocks = <<>> /\ decode \in {"stopped", "done"}
    /\ check = "done" => results = <<>> /\ apply \in {"stopped", "done"}
    /\ outcome # "running" => AllStagesReturned
    /\ outcome = "ok" => issue = promise!NoIssue
    /\ outcome = "failed" => issue # promise!NoIssue

(* The state holds the blocks that left stage 2 and perhaps the one it has *)
(* in hand: *)
AppliedCount ==
    LET left == checked + InCheck + Len(results)
    IN  /\ applied \in {left, left + 1}
        /\ apply \in {"next", "apply", "done"} => applied = left
        /\ apply \in {"snapshot", "send"} => applied = left + 1

IInv ==
    TypeOK /\ NothingLost /\ FaultsFiltered /\ IssueReal /\ EndsInOrder /\ AppliedCount

-----------------------------------------------------------------------------
LEMMA AppendFacts ==
    ASSUME NEW S, NEW s \in Seq(S), NEW x \in S
    PROVE  /\ Append(s, x) \in Seq(S)
           /\ Len(Append(s, x)) = Len(s) + 1
           /\ \A i \in 1 .. Len(s) : Append(s, x)[i] = s[i]
           /\ Append(s, x)[Len(s) + 1] = x
OBVIOUS

LEMMA TailFacts ==
    ASSUME NEW S, NEW s \in Seq(S), s # <<>>
    PROVE  /\ Len(s) \in Nat /\ Len(s) >= 1
           /\ Head(s) \in S /\ Head(s) = s[1]
           /\ Tail(s) \in Seq(S)
           /\ Len(Tail(s)) = Len(s) - 1
           /\ \A i \in 1 .. Len(Tail(s)) : Tail(s)[i] = s[i + 1]
OBVIOUS

LEMMA IssueFacts ==
    ASSUME NEW b \in 1 .. N,
           NEW w \in {"decode", "apply", "snapshot", "check", "report", "cancelled"}
    PROVE  /\ [block |-> b, why |-> w] \in promise!Issue
           /\ [block |-> b, why |-> w] # promise!NoIssue
BY DEF promise!Issue, promise!NoIssue, promise!Fault, promise!Position

LEMMA CancelKeepsIInv == IInv /\ Cancel => IInv'
<1> SUFFICES ASSUME IInv, Cancel PROVE IInv'
  OBVIOUS
<1> USE PipelineAssumption
<1> USE DEF Cancel, ReportIssue, stage1, stage2, stage3, channels, given, report
<1>11. TypeOK'
  BY DEF IInv, TypeOK
<1>12. NothingLost'
  BY DEF IInv, NothingLost, InCheck, InApply, InDecode, Held
<1>13. FaultsFiltered'
  BY DEF IInv, FaultsFiltered
<1>14. IssueReal'
  BY DEF IInv, IssueReal
<1>15. EndsInOrder'
  BY DEF IInv, TypeOK, EndsInOrder, AllStagesReturned
<1>16. AppliedCount'
  BY DEF IInv, AppliedCount, InCheck, InApply, InDecode, Held
<1>. QED
  BY <1>11, <1>12, <1>13, <1>14, <1>15, <1>16 DEF IInv

LEMMA DecodeBlockKeepsIInv == IInv /\ DecodeBlock => IInv'
<1> SUFFICES ASSUME IInv, DecodeBlock PROVE IInv'
  OBVIOUS
<1> USE PipelineAssumption
<1> USE DEF DecodeBlock, ReportIssue, stage1, stage2, stage3, channels, given, report
<1>1. read + 1 \in 1 .. N
  BY DEF IInv, TypeOK, NothingLost, InCheck, InApply, InDecode, Held
<1>2. \/ issue' = issue /\ abort' = abort
      \/ /\ issue' \in promise!Issue /\ issue' # promise!NoIssue /\ abort' = TRUE
         /\ issue'.block = read + 1
         /\ issue'.why \in {"decode", "cancelled"}
  <2>1. CASE UNCHANGED <<issue, abort>>
    BY <2>1
  <2>2. CASE ReportIssue(read + 1, "decode")
    <3> DEFINE e == [block |-> read + 1, why |-> "decode"]
    <3>1. e \in promise!Issue /\ e # promise!NoIssue
      BY <1>1, IssueFacts
    <3>2. e.block = read + 1 /\ e.why = "decode"
      OBVIOUS
    <3>3. issue' = e /\ abort' = TRUE
      BY <2>2
    <3> HIDE DEF e
    <3>. QED
      BY <3>1, <3>2, <3>3
  <2>3. CASE ReportIssue(read + 1, "cancelled")
    <3> DEFINE e == [block |-> read + 1, why |-> "cancelled"]
    <3>1. e \in promise!Issue /\ e # promise!NoIssue
      BY <1>1, IssueFacts
    <3>2. e.block = read + 1 /\ e.why = "cancelled"
      OBVIOUS
    <3>3. issue' = e /\ abort' = TRUE
      BY <2>3
    <3> HIDE DEF e
    <3>. QED
      BY <3>1, <3>2, <3>3
  <2>. QED
    BY <2>1, <2>2, <2>3
<1>11. TypeOK'
  <2>1. read' \in 0 .. N
    BY <1>1
  <2>2. issue' \in promise!Issue /\ abort' \in BOOLEAN
    BY <1>2 DEF IInv, TypeOK
  <2>3. decode' \in {"next", "send", "stopped", "done"}
    OBVIOUS
  <2>4. UNCHANGED <<stage2, stage3, channels, given, outcome>>
    OBVIOUS
  <2> HIDE DEF DecodeBlock, ReportIssue
  <2>. QED
    BY <2>1, <2>2, <2>3, <2>4 DEF IInv, TypeOK
<1>12. NothingLost'
  BY <1>1 DEF IInv, TypeOK, NothingLost, InCheck, InApply, InDecode, Held
<1>13. FaultsFiltered'
  BY <1>1 DEF IInv, TypeOK, NothingLost, FaultsFiltered, promise!Fault, InCheck, InApply, InDecode, Held
<1>14. IssueReal'
  <2>1. CASE UNCHANGED <<issue, abort>>
    BY <2>1 DEF IInv, IssueReal, promise!NoIssue
  <2>2. CASE ~ UNCHANGED <<issue, abort>>
    <3>1. /\ abort' = TRUE /\ issue' # promise!NoIssue
          /\ issue'.block \in 1 .. N
      BY <1>1, <1>2, <2>2
    <3>2. \/ issue'.why = "cancelled" /\ cancelled' /\ decode' = "stopped" /\ issue'.block = read'
          \/ issue'.why # "none" /\ fault'[issue'.block] = issue'.why
      BY <1>1, <1>2, <2>2
    <3>. QED
      BY <3>1, <3>2 DEF IssueReal
  <2>. QED
    BY <2>1, <2>2
<1>15. EndsInOrder'
  BY <1>1, <1>2 DEF IInv, EndsInOrder, AllStagesReturned, promise!NoIssue
<1>16. AppliedCount'
  BY <1>1 DEF IInv, TypeOK, NothingLost, AppliedCount, InCheck, InApply, InDecode, Held
<1>. QED
  BY <1>11, <1>12, <1>13, <1>14, <1>15, <1>16 DEF IInv

LEMMA SendDecodedKeepsIInv == IInv /\ SendDecoded => IInv'
<1> SUFFICES ASSUME IInv, SendDecoded PROVE IInv'
  OBVIOUS
<1> USE PipelineAssumption
<1>1. decode = "send" /\ Len(decodedBlocks) < channelSize /\ decode' = "next"
  BY DEF SendDecoded
<1>2. UNCHANGED <<fault, cancelled, checked, outcome, issue, abort, read, apply, applying, applied, results, check, checking>>
  BY DEF SendDecoded, ReportIssue, stage1, stage2, stage3, channels, given, report
<1>3. InDecode = 1 /\ InDecode' = 0 /\ InApply' = InApply /\ InCheck' = InCheck
  BY <1>1, <1>2 DEF InCheck, InApply, InDecode, Held
<1>4. read \in 1 .. N
  BY <1>1 DEF IInv, TypeOK, NothingLost, InCheck, InApply, InDecode, Held
<1>5. /\ decodedBlocks' \in Seq(1 .. N)
      /\ Len(decodedBlocks') = Len(decodedBlocks) + 1
      /\ \A i \in 1 .. Len(decodedBlocks) : decodedBlocks'[i] = decodedBlocks[i]
      /\ decodedBlocks'[Len(decodedBlocks) + 1] = read
  BY <1>4, AppendFacts DEF SendDecoded, IInv, TypeOK
<1>6. InCheck \in {0, 1} /\ InApply \in {0, 1} /\ InDecode \in {0, 1}
  BY DEF InCheck, InApply, InDecode, Held
<1>7. /\ Len(results) \in Nat /\ Len(decodedBlocks) \in Nat
      /\ checked \in Nat /\ read \in Nat /\ applied \in Nat
  BY DEF IInv, TypeOK
<1>11. TypeOK'
  BY <1>1, <1>2, <1>4, <1>5, <1>7 DEF IInv, TypeOK
<1>12. NothingLost'
  <2>1. InCheck' = 1 => checking' = checked' + 1
    BY <1>1, <1>2, <1>4, <1>5, <1>7, <1>3, <1>6 DEF IInv, NothingLost
  <2>2. \A i \in 1 .. Len(results') : results'[i] = checked' + InCheck' + i
    BY <1>1, <1>2, <1>4, <1>5, <1>7, <1>3, <1>6 DEF IInv, NothingLost
  <2>3. InApply' = 1 => applying' = checked' + InCheck' + Len(results') + 1
    BY <1>1, <1>2, <1>4, <1>5, <1>7, <1>3, <1>6 DEF IInv, NothingLost
  <2>4. \A i \in 1 .. Len(decodedBlocks') :
           decodedBlocks'[i] = checked' + InCheck' + Len(results') + InApply' + i
    <3> SUFFICES ASSUME NEW i \in 1 .. Len(decodedBlocks')
                 PROVE  decodedBlocks'[i] = checked' + InCheck' + Len(results') + InApply' + i
      OBVIOUS
    <3>1. \A j \in 1 .. Len(decodedBlocks) : decodedBlocks[j] = checked + InCheck + Len(results) + InApply + j
      BY DEF IInv, NothingLost
    <3>2. CASE i \in 1 .. Len(decodedBlocks)
      BY <1>1, <1>2, <1>4, <1>5, <1>7, <1>3, <1>6, <3>1, <3>2
    <3>3. CASE i = Len(decodedBlocks) + 1
      <4>1. read = checked + InCheck + Len(results) + InApply + Len(decodedBlocks) + 1
        BY <1>3 DEF IInv, NothingLost
      <4>. QED
        BY <1>2, <1>3, <1>5, <1>6, <1>7, <3>3, <4>1
    <3>. QED
      BY <1>5, <1>7, <3>2, <3>3
  <2>5. read' = checked' + InCheck' + Len(results') + InApply' + Len(decodedBlocks') + InDecode'
    BY <1>1, <1>2, <1>4, <1>5, <1>7, <1>3, <1>6 DEF IInv, NothingLost
  <2>. QED
    BY <2>1, <2>2, <2>3, <2>4, <2>5 DEF NothingLost
<1>13. FaultsFiltered'
  <2>1. \A i \in 1 .. Len(decodedBlocks') : fault'[decodedBlocks'[i]] # "decode"
    <3>1. fault[read] # "decode"
      BY <1>1, <1>4 DEF IInv, TypeOK, FaultsFiltered, promise!Fault
    <3>2. \A i \in 1 .. Len(decodedBlocks) : fault[decodedBlocks[i]] # "decode"
      BY DEF IInv, FaultsFiltered
    <3>3. \A i \in 1 .. Len(decodedBlocks') : i \in 1 .. Len(decodedBlocks) \/ i = Len(decodedBlocks) + 1
      BY <1>5, <1>7
    <3>. QED
      BY <1>2, <1>5, <3>1, <3>2, <3>3
  <2>. QED
    BY <1>1, <1>2, <2>1 DEF IInv, FaultsFiltered
<1>14. IssueReal'
  BY <1>1, <1>2 DEF IInv, IssueReal, promise!NoIssue
<1>15. EndsInOrder'
  BY <1>1, <1>2, <1>4 DEF IInv, EndsInOrder, AllStagesReturned, promise!NoIssue
<1>16. AppliedCount'
  <2>1. checked' + InCheck' + Len(results') = checked + InCheck + Len(results)
    BY <1>2, <1>3, <1>5, <1>6, <1>7
  <2>2. checked + InCheck + Len(results) \in Int
    BY <1>6, <1>7
  <2>. QED
    BY <1>1, <1>2, <1>7, <2>1, <2>2 DEF IInv, AppliedCount
<1>. QED
  BY <1>11, <1>12, <1>13, <1>14, <1>15, <1>16 DEF IInv

LEMMA StopDecodingKeepsIInv == IInv /\ StopDecoding => IInv'
<1> SUFFICES ASSUME IInv, StopDecoding PROVE IInv'
  OBVIOUS
<1> USE PipelineAssumption
<1> USE DEF StopDecoding, ReportIssue, stage1, stage2, stage3, channels, given, report
<1>11. TypeOK'
  BY DEF IInv, TypeOK
<1>12. NothingLost'
  BY DEF IInv, NothingLost, InCheck, InApply, InDecode, Held
<1>13. FaultsFiltered'
  BY DEF IInv, FaultsFiltered
<1>14. IssueReal'
  BY DEF IInv, IssueReal
<1>15. EndsInOrder'
  BY DEF IInv, TypeOK, EndsInOrder, AllStagesReturned
<1>16. AppliedCount'
  BY DEF IInv, AppliedCount, InCheck, InApply, InDecode, Held
<1>. QED
  BY <1>11, <1>12, <1>13, <1>14, <1>15, <1>16 DEF IInv

LEMMA EndDecodingKeepsIInv == IInv /\ EndDecoding => IInv'
<1> SUFFICES ASSUME IInv, EndDecoding PROVE IInv'
  OBVIOUS
<1> USE PipelineAssumption
<1> USE DEF EndDecoding, ReportIssue, stage1, stage2, stage3, channels, given, report
<1>11. TypeOK'
  BY DEF IInv, TypeOK
<1>12. NothingLost'
  BY DEF IInv, NothingLost, InCheck, InApply, InDecode, Held
<1>13. FaultsFiltered'
  BY DEF IInv, FaultsFiltered
<1>14. IssueReal'
  BY DEF IInv, IssueReal
<1>15. EndsInOrder'
  BY DEF IInv, TypeOK, EndsInOrder, AllStagesReturned
<1>16. AppliedCount'
  BY DEF IInv, AppliedCount, InCheck, InApply, InDecode, Held
<1>. QED
  BY <1>11, <1>12, <1>13, <1>14, <1>15, <1>16 DEF IInv

LEMMA ReceiveDecodedKeepsIInv == IInv /\ ReceiveDecoded => IInv'
<1> SUFFICES ASSUME IInv, ReceiveDecoded PROVE IInv'
  OBVIOUS
<1> USE PipelineAssumption
<1>1. apply = "next" /\ apply' = "apply"
  BY DEF ReceiveDecoded
<1>2. UNCHANGED <<fault, cancelled, checked, outcome, issue, abort, decode, read, applied, results, check, checking>>
  BY DEF ReceiveDecoded, ReportIssue, stage1, stage2, stage3, channels, given, report
<1>3. InApply = 0 /\ InApply' = 1 /\ InDecode' = InDecode /\ InCheck' = InCheck
  BY <1>1, <1>2 DEF InCheck, InApply, InDecode, Held
<1>4. decodedBlocks # <<>>
  BY DEF ReceiveDecoded
<1>5. /\ Len(decodedBlocks) \in Nat /\ Len(decodedBlocks) >= 1
      /\ applying' \in 1 .. N /\ applying' = decodedBlocks[1]
      /\ decodedBlocks' \in Seq(1 .. N)
      /\ Len(decodedBlocks') = Len(decodedBlocks) - 1
      /\ \A i \in 1 .. Len(decodedBlocks') : decodedBlocks'[i] = decodedBlocks[i + 1]
  BY <1>4, TailFacts DEF ReceiveDecoded, IInv, TypeOK
<1>6. InCheck \in {0, 1} /\ InApply \in {0, 1} /\ InDecode \in {0, 1}
  BY DEF InCheck, InApply, InDecode, Held
<1>7. /\ Len(results) \in Nat /\ Len(decodedBlocks) \in Nat
      /\ checked \in Nat /\ read \in Nat /\ applied \in Nat
  BY DEF IInv, TypeOK
<1>11. TypeOK'
  BY <1>1, <1>2, <1>4, <1>5, <1>7 DEF IInv, TypeOK
<1>12. NothingLost'
  <2>1. InCheck' = 1 => checking' = checked' + 1
    BY <1>1, <1>2, <1>4, <1>5, <1>7, <1>3, <1>6 DEF IInv, NothingLost
  <2>2. \A i \in 1 .. Len(results') : results'[i] = checked' + InCheck' + i
    BY <1>1, <1>2, <1>4, <1>5, <1>7, <1>3, <1>6 DEF IInv, NothingLost
  <2>3. InApply' = 1 => applying' = checked' + InCheck' + Len(results') + 1
    BY <1>1, <1>2, <1>4, <1>5, <1>7, <1>3, <1>6 DEF IInv, NothingLost
  <2>4. \A i \in 1 .. Len(decodedBlocks') :
           decodedBlocks'[i] = checked' + InCheck' + Len(results') + InApply' + i
    <3> SUFFICES ASSUME NEW i \in 1 .. Len(decodedBlocks')
                 PROVE  decodedBlocks'[i] = checked' + InCheck' + Len(results') + InApply' + i
      OBVIOUS
    <3>1. \A j \in 1 .. Len(decodedBlocks) : decodedBlocks[j] = checked + InCheck + Len(results) + InApply + j
      BY DEF IInv, NothingLost
    <3>2. i + 1 \in 1 .. Len(decodedBlocks) /\ decodedBlocks'[i] = decodedBlocks[i + 1]
      BY <1>5
    <3>3. decodedBlocks'[i] = checked + InCheck + Len(results) + InApply + (i + 1)
      BY <3>1, <3>2
    <3>4. i \in Int
      BY <1>5
    <3>. QED
      BY <1>2, <1>3, <1>6, <1>7, <3>3, <3>4
  <2>5. read' = checked' + InCheck' + Len(results') + InApply' + Len(decodedBlocks') + InDecode'
    BY <1>1, <1>2, <1>4, <1>5, <1>7, <1>3, <1>6 DEF IInv, NothingLost
  <2>. QED
    BY <2>1, <2>2, <2>3, <2>4, <2>5 DEF NothingLost
<1>13. FaultsFiltered'
  <2>1. \A i \in 1 .. Len(decodedBlocks') : fault'[decodedBlocks'[i]] # "decode"
    <3>1. \A i \in 1 .. Len(decodedBlocks) : fault[decodedBlocks[i]] # "decode"
      BY DEF IInv, FaultsFiltered
    <3>2. \A i \in 1 .. Len(decodedBlocks') : i + 1 \in 1 .. Len(decodedBlocks)
      BY <1>5
    <3>. QED
      BY <1>2, <1>5, <3>1, <3>2
  <2>2. fault[applying'] # "decode"
    BY <1>5 DEF IInv, FaultsFiltered
  <2>. QED
    BY <1>1, <1>2, <2>1, <2>2 DEF IInv, FaultsFiltered
<1>14. IssueReal'
  BY <1>1, <1>2 DEF IInv, IssueReal, promise!NoIssue
<1>15. EndsInOrder'
  BY <1>1, <1>2, <1>4 DEF IInv, EndsInOrder, AllStagesReturned, promise!NoIssue
<1>16. AppliedCount'
  <2>1. checked' + InCheck' + Len(results') = checked + InCheck + Len(results)
    BY <1>2, <1>3, <1>5, <1>6, <1>7
  <2>2. checked + InCheck + Len(results) \in Int
    BY <1>6, <1>7
  <2>. QED
    BY <1>1, <1>2, <1>7, <2>1, <2>2 DEF IInv, AppliedCount
<1>. QED
  BY <1>11, <1>12, <1>13, <1>14, <1>15, <1>16 DEF IInv

LEMMA ApplyBlockKeepsIInv == IInv /\ ApplyBlock => IInv'
<1> SUFFICES ASSUME IInv, ApplyBlock PROVE IInv'
  OBVIOUS
<1> USE PipelineAssumption
<1> USE DEF ApplyBlock, ReportIssue, stage1, stage2, stage3, channels, given, report
<1>1. applying \in 1 .. N
  BY DEF IInv, TypeOK, NothingLost, InCheck, InApply, InDecode, Held
<1>2. \/ issue' = issue /\ abort' = abort
      \/ /\ issue' \in promise!Issue /\ issue' # promise!NoIssue /\ abort' = TRUE
         /\ issue'.block = applying
         /\ issue'.why \in {"apply"}
  <2>1. CASE UNCHANGED <<issue, abort>>
    BY <2>1
  <2>2. CASE ReportIssue(applying, "apply")
    <3> DEFINE e == [block |-> applying, why |-> "apply"]
    <3>1. e \in promise!Issue /\ e # promise!NoIssue
      BY <1>1, IssueFacts
    <3>2. e.block = applying /\ e.why = "apply"
      OBVIOUS
    <3>3. issue' = e /\ abort' = TRUE
      BY <2>2
    <3> HIDE DEF e
    <3>. QED
      BY <3>1, <3>2, <3>3
  <2>. QED
    BY <2>1, <2>2
<1>3. applied' \in 0 .. N
  <2>1. applied + 1 = applying
    <3>1. InApply = 1
      BY DEF InCheck, InApply, InDecode, Held
    <3>2. applied = checked + InCheck + Len(results)
      BY DEF IInv, AppliedCount
    <3>. QED
      BY <3>1, <3>2 DEF IInv, NothingLost
  <2>. QED
    BY <1>1, <2>1 DEF IInv, TypeOK
<1>11. TypeOK'
  BY <1>1, <1>2, <1>3 DEF IInv, TypeOK
<1>12. NothingLost'
  BY <1>1 DEF IInv, TypeOK, NothingLost, InCheck, InApply, InDecode, Held
<1>13. FaultsFiltered'
  BY <1>1 DEF IInv, TypeOK, NothingLost, FaultsFiltered, promise!Fault, InCheck, InApply, InDecode, Held
<1>14. IssueReal'
  <2>1. CASE UNCHANGED <<issue, abort>>
    BY <2>1 DEF IInv, IssueReal, promise!NoIssue
  <2>2. CASE ~ UNCHANGED <<issue, abort>>
    <3>1. /\ abort' = TRUE /\ issue' # promise!NoIssue
          /\ issue'.block \in 1 .. N
      BY <1>1, <1>2, <2>2
    <3>2. issue'.why # "none" /\ fault'[issue'.block] = issue'.why
      BY <1>1, <1>2, <2>2
    <3>. QED
      BY <3>1, <3>2 DEF IssueReal
  <2>. QED
    BY <2>1, <2>2
<1>15. EndsInOrder'
  BY <1>1, <1>2 DEF IInv, EndsInOrder, AllStagesReturned, promise!NoIssue
<1>16. AppliedCount'
  BY <1>1 DEF IInv, TypeOK, NothingLost, AppliedCount, InCheck, InApply, InDecode, Held
<1>. QED
  BY <1>11, <1>12, <1>13, <1>14, <1>15, <1>16 DEF IInv

LEMMA MaybeSnapshotKeepsIInv == IInv /\ MaybeSnapshot => IInv'
<1> SUFFICES ASSUME IInv, MaybeSnapshot PROVE IInv'
  OBVIOUS
<1> USE PipelineAssumption
<1> USE DEF MaybeSnapshot, ReportIssue, stage1, stage2, stage3, channels, given, report
<1>1. applying \in 1 .. N
  BY DEF IInv, TypeOK, NothingLost, InCheck, InApply, InDecode, Held
<1>2. \/ issue' = issue /\ abort' = abort
      \/ /\ issue' \in promise!Issue /\ issue' # promise!NoIssue /\ abort' = TRUE
         /\ issue'.block = applying
         /\ issue'.why \in {"snapshot"}
  <2>1. CASE UNCHANGED <<issue, abort>>
    BY <2>1
  <2>2. CASE ReportIssue(applying, "snapshot")
    <3> DEFINE e == [block |-> applying, why |-> "snapshot"]
    <3>1. e \in promise!Issue /\ e # promise!NoIssue
      BY <1>1, IssueFacts
    <3>2. e.block = applying /\ e.why = "snapshot"
      OBVIOUS
    <3>3. issue' = e /\ abort' = TRUE
      BY <2>2
    <3> HIDE DEF e
    <3>. QED
      BY <3>1, <3>2, <3>3
  <2>. QED
    BY <2>1, <2>2
<1>11. TypeOK'
  BY <1>1, <1>2 DEF IInv, TypeOK
<1>12. NothingLost'
  BY <1>1 DEF IInv, TypeOK, NothingLost, InCheck, InApply, InDecode, Held
<1>13. FaultsFiltered'
  BY <1>1 DEF IInv, TypeOK, NothingLost, FaultsFiltered, promise!Fault, InCheck, InApply, InDecode, Held
<1>14. IssueReal'
  <2>1. CASE UNCHANGED <<issue, abort>>
    BY <2>1 DEF IInv, IssueReal, promise!NoIssue
  <2>2. CASE ~ UNCHANGED <<issue, abort>>
    <3>1. /\ abort' = TRUE /\ issue' # promise!NoIssue
          /\ issue'.block \in 1 .. N
      BY <1>1, <1>2, <2>2
    <3>2. issue'.why # "none" /\ fault'[issue'.block] = issue'.why
      BY <1>1, <1>2, <2>2
    <3>. QED
      BY <3>1, <3>2 DEF IssueReal
  <2>. QED
    BY <2>1, <2>2
<1>15. EndsInOrder'
  BY <1>1, <1>2 DEF IInv, EndsInOrder, AllStagesReturned, promise!NoIssue
<1>16. AppliedCount'
  BY <1>1 DEF IInv, TypeOK, NothingLost, AppliedCount, InCheck, InApply, InDecode, Held
<1>. QED
  BY <1>11, <1>12, <1>13, <1>14, <1>15, <1>16 DEF IInv

LEMMA SendResultKeepsIInv == IInv /\ SendResult => IInv'
<1> SUFFICES ASSUME IInv, SendResult PROVE IInv'
  OBVIOUS
<1> USE PipelineAssumption
<1>1. apply = "send" /\ Len(results) < channelSize /\ apply' = "next"
  BY DEF SendResult
<1>2. UNCHANGED <<fault, cancelled, checked, outcome, issue, abort, decode, read, decodedBlocks, applying, applied, check, checking>>
  BY DEF SendResult, ReportIssue, stage1, stage2, stage3, channels, given, report
<1>3. InApply = 1 /\ InApply' = 0 /\ InDecode' = InDecode /\ InCheck' = InCheck
  BY <1>1, <1>2 DEF InCheck, InApply, InDecode, Held
<1>4. applying \in 1 .. N
  BY <1>1 DEF IInv, TypeOK, NothingLost, InCheck, InApply, InDecode, Held
<1>5. /\ results' \in Seq(1 .. N)
      /\ Len(results') = Len(results) + 1
      /\ \A i \in 1 .. Len(results) : results'[i] = results[i]
      /\ results'[Len(results) + 1] = applying
  BY <1>4, AppendFacts DEF SendResult, IInv, TypeOK
<1>6. InCheck \in {0, 1} /\ InApply \in {0, 1} /\ InDecode \in {0, 1}
  BY DEF InCheck, InApply, InDecode, Held
<1>7. /\ Len(results) \in Nat /\ Len(decodedBlocks) \in Nat
      /\ checked \in Nat /\ read \in Nat /\ applied \in Nat
  BY DEF IInv, TypeOK
<1>11. TypeOK'
  BY <1>1, <1>2, <1>4, <1>5, <1>7 DEF IInv, TypeOK
<1>12. NothingLost'
  <2>1. InCheck' = 1 => checking' = checked' + 1
    BY <1>1, <1>2, <1>4, <1>5, <1>7, <1>3, <1>6 DEF IInv, NothingLost
  <2>2. \A i \in 1 .. Len(results') : results'[i] = checked' + InCheck' + i
    <3> SUFFICES ASSUME NEW i \in 1 .. Len(results')
                 PROVE  results'[i] = checked' + InCheck' + i
      OBVIOUS
    <3>1. \A j \in 1 .. Len(results) : results[j] = checked + InCheck + j
      BY DEF IInv, NothingLost
    <3>2. CASE i \in 1 .. Len(results)
      BY <1>1, <1>2, <1>4, <1>5, <1>7, <1>3, <1>6, <3>1, <3>2
    <3>3. CASE i = Len(results) + 1
      <4>1. applying = checked + InCheck + Len(results) + 1
        BY <1>3 DEF IInv, NothingLost
      <4>2. results'[i] = applying
        BY <1>5, <3>3
      <4>. QED
        BY <1>2, <1>3, <1>6, <1>7, <3>3, <4>1, <4>2
    <3>. QED
      BY <1>5, <1>7, <3>2, <3>3
  <2>3. InApply' = 1 => applying' = checked' + InCheck' + Len(results') + 1
    BY <1>1, <1>2, <1>4, <1>5, <1>7, <1>3, <1>6 DEF IInv, NothingLost
  <2>4. \A i \in 1 .. Len(decodedBlocks') :
           decodedBlocks'[i] = checked' + InCheck' + Len(results') + InApply' + i
    BY <1>1, <1>2, <1>4, <1>5, <1>7, <1>3, <1>6 DEF IInv, NothingLost
  <2>5. read' = checked' + InCheck' + Len(results') + InApply' + Len(decodedBlocks') + InDecode'
    BY <1>1, <1>2, <1>4, <1>5, <1>7, <1>3, <1>6 DEF IInv, NothingLost
  <2>. QED
    BY <2>1, <2>2, <2>3, <2>4, <2>5 DEF NothingLost
<1>13. FaultsFiltered'
  <2>1. \A i \in 1 .. Len(results') : fault'[results'[i]] \in {"none", "check", "report"}
    <3>1. fault[applying] \in {"none", "check", "report"}
      BY <1>1, <1>4 DEF IInv, TypeOK, FaultsFiltered, promise!Fault
    <3>2. \A i \in 1 .. Len(results) : fault[results[i]] \in {"none", "check", "report"}
      BY DEF IInv, FaultsFiltered
    <3>3. \A i \in 1 .. Len(results') : i \in 1 .. Len(results) \/ i = Len(results) + 1
      BY <1>5, <1>7
    <3>. QED
      BY <1>2, <1>5, <3>1, <3>2, <3>3
  <2>. QED
    BY <1>1, <1>2, <2>1 DEF IInv, FaultsFiltered
<1>14. IssueReal'
  BY <1>1, <1>2 DEF IInv, IssueReal, promise!NoIssue
<1>15. EndsInOrder'
  BY <1>1, <1>2, <1>4 DEF IInv, EndsInOrder, AllStagesReturned, promise!NoIssue
<1>16. AppliedCount'
  <2>1. checked' + InCheck' + Len(results') = checked + InCheck + Len(results) + 1
    BY <1>2, <1>3, <1>5, <1>6, <1>7
  <2>2. checked + InCheck + Len(results) \in Int
    BY <1>6, <1>7
  <2>. QED
    BY <1>1, <1>2, <1>7, <2>1, <2>2 DEF IInv, AppliedCount
<1>. QED
  BY <1>11, <1>12, <1>13, <1>14, <1>15, <1>16 DEF IInv

LEMMA StopApplyingKeepsIInv == IInv /\ StopApplying => IInv'
<1> SUFFICES ASSUME IInv, StopApplying PROVE IInv'
  OBVIOUS
<1> USE PipelineAssumption
<1> USE DEF StopApplying, ReportIssue, stage1, stage2, stage3, channels, given, report
<1>11. TypeOK'
  BY DEF IInv, TypeOK
<1>12. NothingLost'
  BY DEF IInv, NothingLost, InCheck, InApply, InDecode, Held
<1>13. FaultsFiltered'
  BY DEF IInv, FaultsFiltered
<1>14. IssueReal'
  BY DEF IInv, IssueReal
<1>15. EndsInOrder'
  BY DEF IInv, TypeOK, EndsInOrder, AllStagesReturned
<1>16. AppliedCount'
  BY DEF IInv, AppliedCount, InCheck, InApply, InDecode, Held
<1>. QED
  BY <1>11, <1>12, <1>13, <1>14, <1>15, <1>16 DEF IInv

LEMMA EndApplyingKeepsIInv == IInv /\ EndApplying => IInv'
<1> SUFFICES ASSUME IInv, EndApplying PROVE IInv'
  OBVIOUS
<1> USE PipelineAssumption
<1> USE DEF EndApplying, ReportIssue, stage1, stage2, stage3, channels, given, report
<1>11. TypeOK'
  BY DEF IInv, TypeOK
<1>12. NothingLost'
  BY DEF IInv, NothingLost, InCheck, InApply, InDecode, Held
<1>13. FaultsFiltered'
  BY DEF IInv, FaultsFiltered
<1>14. IssueReal'
  BY DEF IInv, IssueReal
<1>15. EndsInOrder'
  BY DEF IInv, TypeOK, EndsInOrder, AllStagesReturned
<1>16. AppliedCount'
  BY DEF IInv, AppliedCount, InCheck, InApply, InDecode, Held
<1>. QED
  BY <1>11, <1>12, <1>13, <1>14, <1>15, <1>16 DEF IInv

LEMMA ReceiveResultKeepsIInv == IInv /\ ReceiveResult => IInv'
<1> SUFFICES ASSUME IInv, ReceiveResult PROVE IInv'
  OBVIOUS
<1> USE PipelineAssumption
<1>1. check = "next" /\ check' = "check"
  BY DEF ReceiveResult
<1>2. UNCHANGED <<fault, cancelled, checked, outcome, issue, abort, decode, read, decodedBlocks, apply, applying, applied>>
  BY DEF ReceiveResult, ReportIssue, stage1, stage2, stage3, channels, given, report
<1>3. InCheck = 0 /\ InCheck' = 1 /\ InDecode' = InDecode /\ InApply' = InApply
  BY <1>1, <1>2 DEF InCheck, InApply, InDecode, Held
<1>4. results # <<>>
  BY DEF ReceiveResult
<1>5. /\ Len(results) \in Nat /\ Len(results) >= 1
      /\ checking' \in 1 .. N /\ checking' = results[1]
      /\ results' \in Seq(1 .. N)
      /\ Len(results') = Len(results) - 1
      /\ \A i \in 1 .. Len(results') : results'[i] = results[i + 1]
  BY <1>4, TailFacts DEF ReceiveResult, IInv, TypeOK
<1>6. InCheck \in {0, 1} /\ InApply \in {0, 1} /\ InDecode \in {0, 1}
  BY DEF InCheck, InApply, InDecode, Held
<1>7. /\ Len(results) \in Nat /\ Len(decodedBlocks) \in Nat
      /\ checked \in Nat /\ read \in Nat /\ applied \in Nat
  BY DEF IInv, TypeOK
<1>11. TypeOK'
  BY <1>1, <1>2, <1>4, <1>5, <1>7 DEF IInv, TypeOK
<1>12. NothingLost'
  <2>1. InCheck' = 1 => checking' = checked' + 1
    BY <1>1, <1>2, <1>4, <1>5, <1>7, <1>3, <1>6 DEF IInv, NothingLost
  <2>2. \A i \in 1 .. Len(results') : results'[i] = checked' + InCheck' + i
    <3> SUFFICES ASSUME NEW i \in 1 .. Len(results')
                 PROVE  results'[i] = checked' + InCheck' + i
      OBVIOUS
    <3>1. \A j \in 1 .. Len(results) : results[j] = checked + InCheck + j
      BY DEF IInv, NothingLost
    <3>2. i + 1 \in 1 .. Len(results) /\ results'[i] = results[i + 1]
      BY <1>5
    <3>. QED
      BY <1>2, <1>3, <1>5, <1>6, <1>7, <3>1, <3>2
  <2>3. InApply' = 1 => applying' = checked' + InCheck' + Len(results') + 1
    BY <1>1, <1>2, <1>4, <1>5, <1>7, <1>3, <1>6 DEF IInv, NothingLost
  <2>4. \A i \in 1 .. Len(decodedBlocks') :
           decodedBlocks'[i] = checked' + InCheck' + Len(results') + InApply' + i
    BY <1>1, <1>2, <1>4, <1>5, <1>7, <1>3, <1>6 DEF IInv, NothingLost
  <2>5. read' = checked' + InCheck' + Len(results') + InApply' + Len(decodedBlocks') + InDecode'
    BY <1>1, <1>2, <1>4, <1>5, <1>7, <1>3, <1>6 DEF IInv, NothingLost
  <2>. QED
    BY <2>1, <2>2, <2>3, <2>4, <2>5 DEF NothingLost
<1>13. FaultsFiltered'
  <2>1. \A i \in 1 .. Len(results') : fault'[results'[i]] \in {"none", "check", "report"}
    <3>1. \A i \in 1 .. Len(results) : fault[results[i]] \in {"none", "check", "report"}
      BY DEF IInv, FaultsFiltered
    <3>2. \A i \in 1 .. Len(results') : i + 1 \in 1 .. Len(results)
      BY <1>5
    <3>. QED
      BY <1>2, <1>5, <3>1, <3>2
  <2>2. fault[checking'] \in {"none", "check", "report"}
    BY <1>5 DEF IInv, FaultsFiltered
  <2>. QED
    BY <1>1, <1>2, <2>1, <2>2 DEF IInv, FaultsFiltered
<1>14. IssueReal'
  BY <1>1, <1>2 DEF IInv, IssueReal, promise!NoIssue
<1>15. EndsInOrder'
  BY <1>1, <1>2, <1>4 DEF IInv, EndsInOrder, AllStagesReturned, promise!NoIssue
<1>16. AppliedCount'
  <2>1. checked' + InCheck' + Len(results') = checked + InCheck + Len(results)
    BY <1>2, <1>3, <1>5, <1>6, <1>7
  <2>2. checked + InCheck + Len(results) \in Int
    BY <1>6, <1>7
  <2>. QED
    BY <1>1, <1>2, <1>7, <2>1, <2>2 DEF IInv, AppliedCount
<1>. QED
  BY <1>11, <1>12, <1>13, <1>14, <1>15, <1>16 DEF IInv

LEMMA CheckBlockResultsKeepsIInv == IInv /\ CheckBlockResults => IInv'
<1> SUFFICES ASSUME IInv, CheckBlockResults PROVE IInv'
  OBVIOUS
<1> USE PipelineAssumption
<1> USE DEF CheckBlockResults, ReportIssue, stage1, stage2, stage3, channels, given, report
<1>1. checking \in 1 .. N
  BY DEF IInv, TypeOK, NothingLost, InCheck, InApply, InDecode, Held
<1>2. \/ issue' = issue /\ abort' = abort
      \/ /\ issue' \in promise!Issue /\ issue' # promise!NoIssue /\ abort' = TRUE
         /\ issue'.block = checking
         /\ issue'.why \in {"check"}
  <2>1. CASE UNCHANGED <<issue, abort>>
    BY <2>1
  <2>2. CASE ReportIssue(checking, "check")
    <3> DEFINE e == [block |-> checking, why |-> "check"]
    <3>1. e \in promise!Issue /\ e # promise!NoIssue
      BY <1>1, IssueFacts
    <3>2. e.block = checking /\ e.why = "check"
      OBVIOUS
    <3>3. issue' = e /\ abort' = TRUE
      BY <2>2
    <3> HIDE DEF e
    <3>. QED
      BY <3>1, <3>2, <3>3
  <2>. QED
    BY <2>1, <2>2
<1>11. TypeOK'
  BY <1>1, <1>2 DEF IInv, TypeOK
<1>12. NothingLost'
  BY <1>1 DEF IInv, TypeOK, NothingLost, InCheck, InApply, InDecode, Held
<1>13. FaultsFiltered'
  BY <1>1 DEF IInv, TypeOK, NothingLost, FaultsFiltered, promise!Fault, InCheck, InApply, InDecode, Held
<1>14. IssueReal'
  <2>1. CASE UNCHANGED <<issue, abort>>
    BY <2>1 DEF IInv, IssueReal, promise!NoIssue
  <2>2. CASE ~ UNCHANGED <<issue, abort>>
    <3>1. /\ abort' = TRUE /\ issue' # promise!NoIssue
          /\ issue'.block \in 1 .. N
      BY <1>1, <1>2, <2>2
    <3>2. issue'.why # "none" /\ fault'[issue'.block] = issue'.why
      BY <1>1, <1>2, <2>2
    <3>. QED
      BY <3>1, <3>2 DEF IssueReal
  <2>. QED
    BY <2>1, <2>2
<1>15. EndsInOrder'
  BY <1>1, <1>2 DEF IInv, EndsInOrder, AllStagesReturned, promise!NoIssue
<1>16. AppliedCount'
  BY <1>1 DEF IInv, TypeOK, NothingLost, AppliedCount, InCheck, InApply, InDecode, Held
<1>. QED
  BY <1>11, <1>12, <1>13, <1>14, <1>15, <1>16 DEF IInv

LEMMA OnBlockDoneKeepsIInv == IInv /\ OnBlockDone => IInv'
<1> SUFFICES ASSUME IInv, OnBlockDone PROVE IInv'
  OBVIOUS
<1> USE PipelineAssumption
<1> USE DEF OnBlockDone, ReportIssue, stage1, stage2, stage3, channels, given, report
<1>1. checking \in 1 .. N
  BY DEF IInv, TypeOK, NothingLost, InCheck, InApply, InDecode, Held
<1>2. \/ issue' = issue /\ abort' = abort
      \/ /\ issue' \in promise!Issue /\ issue' # promise!NoIssue /\ abort' = TRUE
         /\ issue'.block = checking
         /\ issue'.why \in {"report"}
  <2>1. CASE UNCHANGED <<issue, abort>>
    BY <2>1
  <2>2. CASE ReportIssue(checking, "report")
    <3> DEFINE e == [block |-> checking, why |-> "report"]
    <3>1. e \in promise!Issue /\ e # promise!NoIssue
      BY <1>1, IssueFacts
    <3>2. e.block = checking /\ e.why = "report"
      OBVIOUS
    <3>3. issue' = e /\ abort' = TRUE
      BY <2>2
    <3> HIDE DEF e
    <3>. QED
      BY <3>1, <3>2, <3>3
  <2>. QED
    BY <2>1, <2>2
<1>3. checked' \in 0 .. N
  BY <1>1 DEF IInv, TypeOK, NothingLost, InCheck, InApply, InDecode, Held
<1>11. TypeOK'
  BY <1>1, <1>2, <1>3 DEF IInv, TypeOK
<1>12. NothingLost'
  <2>1. CASE fault[checking] = "report"
    BY <2>1 DEF IInv, TypeOK, NothingLost, InCheck, InApply, InDecode, Held
  <2>2. CASE fault[checking] # "report"
    <3>1. InCheck = 1 /\ InCheck' = 0 /\ InApply' = InApply /\ InDecode' = InDecode
      BY <2>2 DEF InCheck, InApply, InDecode, Held
    <3>2. checked' + InCheck' = checked + InCheck
      BY <2>2, <3>1 DEF IInv, TypeOK
    <3>3. UNCHANGED <<results, decodedBlocks, applying, read>>
      OBVIOUS
    <3> HIDE DEF OnBlockDone
    <3>. QED
      BY <3>1, <3>2, <3>3 DEF IInv, NothingLost
  <2>. QED
    BY <2>1, <2>2
<1>13. FaultsFiltered'
  BY <1>1 DEF IInv, TypeOK, NothingLost, FaultsFiltered, promise!Fault, InCheck, InApply, InDecode, Held
<1>14. IssueReal'
  <2>1. CASE UNCHANGED <<issue, abort>>
    BY <2>1 DEF IInv, IssueReal, promise!NoIssue
  <2>2. CASE ~ UNCHANGED <<issue, abort>>
    <3>1. /\ abort' = TRUE /\ issue' # promise!NoIssue
          /\ issue'.block \in 1 .. N
      BY <1>1, <1>2, <2>2
    <3>2. issue'.why # "none" /\ fault'[issue'.block] = issue'.why
      BY <1>1, <1>2, <2>2
    <3>. QED
      BY <3>1, <3>2 DEF IssueReal
  <2>. QED
    BY <2>1, <2>2
<1>15. EndsInOrder'
  BY <1>1, <1>2 DEF IInv, EndsInOrder, AllStagesReturned, promise!NoIssue
<1>16. AppliedCount'
  <2>1. checked' + InCheck' = checked + InCheck
    BY DEF IInv, TypeOK, InCheck, InApply, InDecode, Held
  <2>2. UNCHANGED <<results, apply, applied>>
    OBVIOUS
  <2> HIDE DEF OnBlockDone
  <2>. QED
    BY <2>1, <2>2 DEF IInv, AppliedCount
<1>. QED
  BY <1>11, <1>12, <1>13, <1>14, <1>15, <1>16 DEF IInv

LEMMA EndCheckingKeepsIInv == IInv /\ EndChecking => IInv'
<1> SUFFICES ASSUME IInv, EndChecking PROVE IInv'
  OBVIOUS
<1> USE PipelineAssumption
<1> USE DEF EndChecking, ReportIssue, stage1, stage2, stage3, channels, given, report
<1>11. TypeOK'
  BY DEF IInv, TypeOK
<1>12. NothingLost'
  BY DEF IInv, NothingLost, InCheck, InApply, InDecode, Held
<1>13. FaultsFiltered'
  BY DEF IInv, FaultsFiltered
<1>14. IssueReal'
  BY DEF IInv, IssueReal
<1>15. EndsInOrder'
  BY DEF IInv, TypeOK, EndsInOrder, AllStagesReturned
<1>16. AppliedCount'
  BY DEF IInv, AppliedCount, InCheck, InApply, InDecode, Held
<1>. QED
  BY <1>11, <1>12, <1>13, <1>14, <1>15, <1>16 DEF IInv

LEMMA ReturnKeepsIInv == IInv /\ Return => IInv'
<1> SUFFICES ASSUME IInv, Return PROVE IInv'
  OBVIOUS
<1> USE PipelineAssumption
<1> USE DEF Return, ReportIssue, stage1, stage2, stage3, channels, given, report
<1>11. TypeOK'
  BY DEF IInv, TypeOK
<1>12. NothingLost'
  BY DEF IInv, NothingLost, InCheck, InApply, InDecode, Held
<1>13. FaultsFiltered'
  BY DEF IInv, FaultsFiltered
<1>14. IssueReal'
  BY DEF IInv, IssueReal
<1>15. EndsInOrder'
  BY DEF IInv, TypeOK, EndsInOrder, AllStagesReturned
<1>16. AppliedCount'
  BY DEF IInv, AppliedCount, InCheck, InApply, InDecode, Held
<1>. QED
  BY <1>11, <1>12, <1>13, <1>14, <1>15, <1>16 DEF IInv

LEMMA StepKeepsIInv == IInv /\ [Next]_vars => IInv'
<1> SUFFICES ASSUME IInv, [Next]_vars PROVE IInv'
  OBVIOUS
<1>1. CASE UNCHANGED vars
  BY <1>1
  DEF vars, stage1, stage2, stage3, channels, given, report, IInv, TypeOK, NothingLost,
      FaultsFiltered, IssueReal, EndsInOrder, AppliedCount, AllStagesReturned,
      InCheck, InApply, InDecode, Held
<1>2. CASE Stage1
  BY <1>2, DecodeBlockKeepsIInv, SendDecodedKeepsIInv, StopDecodingKeepsIInv,
     EndDecodingKeepsIInv DEF Stage1
<1>3. CASE Stage2
  BY <1>3, ReceiveDecodedKeepsIInv, ApplyBlockKeepsIInv, MaybeSnapshotKeepsIInv,
     SendResultKeepsIInv, StopApplyingKeepsIInv, EndApplyingKeepsIInv DEF Stage2
<1>4. CASE Stage3
  BY <1>4, ReceiveResultKeepsIInv, CheckBlockResultsKeepsIInv, OnBlockDoneKeepsIInv,
     EndCheckingKeepsIInv DEF Stage3
<1>. QED
  BY <1>1, <1>2, <1>3, <1>4, CancelKeepsIInv, ReturnKeepsIInv DEF Next, Returned

LEMMA InitEstablishesIInv == Init => IInv
<1> SUFFICES ASSUME Init PROVE IInv
  OBVIOUS
<1> USE PipelineAssumption
<1>1. /\ fault \in [1 .. N -> promise!Fault] /\ cancelled = FALSE /\ checked = 0
      /\ outcome = "running" /\ issue = promise!NoIssue
  BY DEF Init, promise!Init, promise!Position
<1>2. /\ abort = FALSE /\ decode = "next" /\ read = 0 /\ apply = "next" /\ applying = 0
      /\ applied = 0 /\ check = "next" /\ checking = 0
      /\ decodedBlocks = <<>> /\ results = <<>>
  BY DEF Init
<1>3. InCheck = 0 /\ InApply = 0 /\ InDecode = 0
  BY <1>2 DEF InCheck, InApply, InDecode, Held
<1>4. Len(results) = 0 /\ Len(decodedBlocks) = 0
      /\ results \in Seq(1 .. N) /\ decodedBlocks \in Seq(1 .. N)
  BY <1>2
<1>5. TypeOK
  <2>1. issue \in promise!Issue
    BY <1>1 DEF promise!Issue
  <2>2. {read, applying, applied, checking, checked} \subseteq 0 .. N
    BY <1>1, <1>2
  <2>3. Len(results) <= channelSize /\ Len(decodedBlocks) <= channelSize
    BY <1>4
  <2>. QED
    BY <1>1, <1>2, <1>4, <2>1, <2>2, <2>3 DEF TypeOK
<1>6. NothingLost
  BY <1>1, <1>2, <1>3, <1>4 DEF NothingLost
<1>7. FaultsFiltered
  BY <1>1, <1>2, <1>4 DEF FaultsFiltered
<1>8. IssueReal /\ EndsInOrder
  BY <1>1, <1>2 DEF IssueReal, EndsInOrder
<1>9. AppliedCount
  BY <1>1, <1>2, <1>3, <1>4 DEF AppliedCount
<1>. QED
  BY <1>5, <1>6, <1>7, <1>8, <1>9 DEF IInv

-----------------------------------------------------------------------------
(* For any number of blocks, any channel capacity and any faults, the      *)
(* blocks pass through the two channels of runReplayPipeline in order,     *)
(* none lost or doubled, and the state never runs further ahead of the     *)
(* checks than one full channel and two blocks.                            *)
THEOREM PipelineInOrder == Spec => [](TypeOK /\ NothingLost /\ RunAheadBounded)
<1>1. IInv => RunAheadBounded
  <2> SUFFICES ASSUME IInv PROVE RunAheadBounded
    OBVIOUS
  <2>1. InCheck \in {0, 1}
    BY DEF InCheck, Held
  <2>2. /\ Len(results) \in 0 .. channelSize /\ channelSize \in Nat
        /\ checked \in Nat /\ applied \in Nat
    BY PipelineAssumption DEF IInv, TypeOK
  <2>3. \/ applied = checked + InCheck + Len(results)
        \/ applied = checked + InCheck + Len(results) + 1
    BY DEF IInv, AppliedCount
  <2>. QED
    BY <2>1, <2>2, <2>3 DEF RunAheadBounded
<1>2. IInv => TypeOK /\ NothingLost
  BY DEF IInv
<1>. QED
  BY <1>1, <1>2, InitEstablishesIInv, StepKeepsIInv, PTL DEF Spec

-----------------------------------------------------------------------------
(* Every step of the pipeline is a step of the promise, or none. *)

LEMMA QuietStep ==
    ASSUME UNCHANGED <<fault, cancelled, checked, outcome>>, outcome # "failed"
    PROVE  UNCHANGED Promise!vars
BY DEF Promise!vars, Promise!NoIssue, promise!NoIssue

(* While a stage has something to do, the pipeline has not returned. *)
LEMMA BusyIsRunning ==
    ASSUME IInv, {decode, apply, check} \cap {"next", "send", "apply", "snapshot",
                                               "check", "report"} # {}
    PROVE  outcome = "running"
BY DEF IInv, EndsInOrder, AllStagesReturned, TypeOK

LEMMA StepIsPromised == IInv /\ [Next]_vars => [Promise!Next]_(Promise!vars)
<1> SUFFICES ASSUME IInv, [Next]_vars PROVE [Promise!Next]_(Promise!vars)
  OBVIOUS
<1> USE PipelineAssumption
<1>1. CASE UNCHANGED vars
  BY <1>1 DEF vars, given, report, stage3, Promise!vars, Promise!NoIssue, promise!NoIssue
<1>2. CASE Cancel
  <2>1. /\ outcome = "running" /\ ~ cancelled /\ cancelled' = TRUE
        /\ UNCHANGED <<fault, checked, outcome>>
    BY <1>2 DEF Cancel, stage3, report
  <2>2. Promise!Cancel
    BY <2>1 DEF Promise!Cancel
  <2>. QED
    BY <2>2 DEF Promise!Next
<1>3. CASE Stage1
  <2>1. UNCHANGED <<fault, cancelled, checked, outcome>>
    BY <1>3 DEF Stage1, DecodeBlock, SendDecoded, StopDecoding, EndDecoding, stage3, given
  <2>2. decode \in {"next", "send"}
    BY <1>3 DEF Stage1, DecodeBlock, SendDecoded, StopDecoding, EndDecoding
  <2>. QED
    BY <2>1, <2>2, BusyIsRunning, QuietStep
<1>4. CASE Stage2
  <2>1. UNCHANGED <<fault, cancelled, checked, outcome>>
    BY <1>4 DEF Stage2, ReceiveDecoded, ApplyBlock, MaybeSnapshot, SendResult,
                StopApplying, EndApplying, stage3, given
  <2>2. apply \in {"next", "apply", "snapshot", "send"}
    BY <1>4 DEF Stage2, ReceiveDecoded, ApplyBlock, MaybeSnapshot, SendResult,
                StopApplying, EndApplying
  <2>. QED
    BY <2>1, <2>2, BusyIsRunning, QuietStep
<1>5. CASE ReceiveResult \/ CheckBlockResults \/ EndChecking
  <2>1. UNCHANGED <<fault, cancelled, checked, outcome>>
    BY <1>5 DEF ReceiveResult, CheckBlockResults, EndChecking, given
  <2>2. check \in {"next", "check"}
    BY <1>5 DEF ReceiveResult, CheckBlockResults, EndChecking
  <2>. QED
    BY <2>1, <2>2, BusyIsRunning, QuietStep
<1>6. CASE OnBlockDone
  <2>1. outcome = "running" /\ UNCHANGED <<fault, cancelled, outcome>>
    BY <1>6, BusyIsRunning DEF OnBlockDone, given
  <2>2. CASE fault[checking] = "report"
    <3>1. UNCHANGED checked
      BY <1>6, <2>2 DEF OnBlockDone
    <3>. QED
      BY <2>1, <3>1, QuietStep
  <2>3. CASE fault[checking] # "report"
    <3>1. check = "report" /\ checked' = checked + 1
      BY <1>6, <2>3 DEF OnBlockDone
    <3>2. checking = checked + 1
      BY <3>1 DEF IInv, NothingLost, InCheck, Held
    <3>3. fault[checking] = "none"
      BY <2>3, <3>1 DEF IInv, FaultsFiltered
    <3>4. checked < N
      BY <3>2 DEF IInv, TypeOK
    <3>5. Promise!CheckBlock
      BY <2>1, <3>1, <3>2, <3>3, <3>4 DEF Promise!CheckBlock
    <3>. QED
      BY <3>5 DEF Promise!Next
  <2>. QED
    BY <2>2, <2>3
<1>7. CASE Return
  <2>1. /\ outcome = "running" /\ UNCHANGED <<fault, cancelled, checked, issue>>
        /\ {decode, apply, check} \subseteq {"stopped", "done"}
        /\ outcome' = IF issue = promise!NoIssue THEN "ok" ELSE "failed"
    BY <1>7 DEF Return, AllStagesReturned, stage3, given, report
  <2>2. CASE issue = promise!NoIssue
    <3>1. ~ abort
      BY <2>2 DEF IInv, IssueReal
    <3>2. decode = "done" /\ apply = "done" /\ check = "done"
      BY <2>1, <3>1 DEF IInv, IssueReal
    <3>3. read = N /\ decodedBlocks = <<>> /\ results = <<>>
      BY <3>2 DEF IInv, EndsInOrder
    <3>4. InCheck = 0 /\ InApply = 0 /\ InDecode = 0
      BY <3>2 DEF InCheck, InApply, InDecode, Held
    <3>5. Len(results) = 0 /\ Len(decodedBlocks) = 0
      BY <3>3
    <3>6. checked = N
      BY <3>3, <3>4, <3>5 DEF IInv, TypeOK, NothingLost
    <3>7. Promise!Succeed
      BY <2>1, <2>2, <3>6 DEF Promise!Succeed, promise!NoIssue
    <3>. QED
      BY <3>7 DEF Promise!Next
  <2>3. CASE issue # promise!NoIssue
    <3>1. /\ issue.block \in 1 .. N
          /\ \/ /\ issue.why = "cancelled" /\ cancelled
                /\ decode = "stopped" /\ issue.block = read
             \/ issue.why # "none" /\ fault[issue.block] = issue.why
      BY <2>3 DEF IInv, IssueReal
    <3>2. issue = [block |-> issue.block, why |-> issue.why]
      BY <2>3 DEF IInv, TypeOK, promise!Issue
    <3>3. issue.block \in (checked + 1) .. N
      <4>1. CASE issue.why = "cancelled" /\ decode = "stopped" /\ issue.block = read
        <5>1. InDecode = 1 /\ InCheck \in {0, 1} /\ InApply \in {0, 1}
          BY <4>1 DEF InDecode, InCheck, InApply, Held
        <5>2. read > checked
          BY <5>1 DEF IInv, TypeOK, NothingLost
        <5>. QED
          BY <3>1, <4>1, <5>2 DEF IInv, TypeOK
      <4>2. CASE issue.why # "none" /\ fault[issue.block] = issue.why
        BY <3>1, <4>2 DEF IInv, TypeOK, FaultsFiltered
      <4>. QED
        BY <3>1, <4>1, <4>2
    <3>4. outcome' = "failed"
      BY <2>1, <2>3
    <3>5. \E b \in (checked + 1) .. N :
             \/ fault[b] # "none" /\ issue' = [block |-> b, why |-> fault[b]]
             \/ cancelled /\ issue' = [block |-> b, why |-> "cancelled"]
      BY <2>1, <3>1, <3>2, <3>3
    <3>6. Promise!Fail
      BY <2>1, <3>4, <3>5 DEF Promise!Fail
    <3>. QED
      BY <3>6 DEF Promise!Next
  <2>. QED
    BY <2>2, <2>3
<1>. QED
  BY <1>1, <1>2, <1>3, <1>4, <1>5, <1>6, <1>7 DEF Next, Stage3, Returned

(* runReplayPipeline implements the promise that runReplayLoop keeps too:  *)
(* success means that every block was checked in order, an error belongs   *)
(* to a block that was not, for all N, all capacities and all faults.      *)
THEOREM PipelineKeepsPromise == Spec => KeepsPromise
<1>1. Init => Promise!Init
  BY DEF Init, promise!Init, Promise!Init, promise!Position, Promise!Position,
         promise!Fault, Promise!Fault, promise!NoIssue, Promise!NoIssue
<1>2. IInv /\ [Next]_vars => [Promise!Next]_(Promise!vars)
  BY StepIsPromised
<1>. QED
  BY <1>1, <1>2, InitEstablishesIInv, StepKeepsIInv, PTL DEF Spec, KeepsPromise, Promise!Spec
-----------------------------------------------------------------------------
(* The sequential loop.  Its inductive invariant: where the one goroutine  *)
(* is, and which block it has in hand. *)
LoopAt ==
    /\ abort = FALSE /\ decodedBlocks = <<>> /\ results = <<>>
    /\ decode \in {"next", "stopped"} /\ apply # "send"
    /\ "done" \notin {decode, apply, check}
    /\ "stopped" \in {decode, apply, check} <=> outcome = "failed"
    /\ \/ decode = "next" /\ apply = "next" /\ check = "next" /\ read = checked
       \/ decode = "stopped" /\ apply = "next" /\ check = "next" /\ read = checked + 1
       \/ decode = "next" /\ apply # "next" /\ check = "next" /\ read = checked + 1
             /\ applying = read
       \/ decode = "next" /\ apply = "next" /\ check # "next" /\ read = checked + 1
             /\ checking = read

(* Which faults the steps that are done have excluded for this block, and  *)
(* whether the state has it. *)
LoopFiltered ==
    /\ \A k \in 1 .. checked : fault[k] = "none"
    /\ apply = "apply" => fault[applying] # "decode"
    /\ apply = "snapshot" => fault[applying] \notin {"decode", "apply"}
    /\ check = "check" => fault[checking] \in {"none", "check", "report"}
    /\ check = "report" => fault[checking] \in {"none", "report"}
    /\ apply = "apply" \/ (apply = "next" /\ check = "next") => applied = checked
    /\ apply = "snapshot" \/ check # "next" => applied = checked + 1

LoopInv == TypeOK /\ LoopAt /\ LoopFiltered /\ OneAtATime

(* The error that the loop returns is one that the promise allows. *)
LEMMA LoopErrorIsReal ==
    ASSUME LoopInv, NEW block \in 1 .. N, NEW why, ReturnError(block, why),
           outcome = "running", block = checked + 1,
           \/ why \in {"decode", "apply", "snapshot", "check", "report"} /\ fault[block] = why
           \/ why = "cancelled" /\ cancelled,
           UNCHANGED <<fault, cancelled, checked>>
    PROVE  /\ Promise!Fail
           /\ issue' \in promise!Issue
           /\ outcome' = "failed" /\ issue'.block = checked + 1
<1>1. /\ issue' = [block |-> block, why |-> why] /\ outcome' = "failed"
  BY DEF ReturnError
<1>2. checked \in 0 .. N /\ N \in Nat
  BY PipelineAssumption DEF LoopInv, TypeOK
<1>3. block \in (checked + 1) .. N
  BY <1>2
<1>4. \/ fault[block] # "none" /\ issue' = [block |-> block, why |-> fault[block]]
      \/ cancelled /\ issue' = [block |-> block, why |-> "cancelled"]
  BY <1>1
<1>5. Promise!Fail
  BY <1>1, <1>3, <1>4 DEF Promise!Fail
<1>6. issue' \in promise!Issue
  BY <1>1 DEF promise!Issue, promise!Position, promise!Fault
<1>. QED
  BY <1>1, <1>5, <1>6

LEMMA LoopDecodeKeepsLoopInv ==
    ASSUME LoopInv, LoopDecode
    PROVE  LoopInv' /\ [Promise!Next]_(Promise!vars)
<1> USE PipelineAssumption
<1>1. /\ outcome = "running" /\ apply = "next" /\ check = "next" /\ read < N
      /\ read' = read + 1
      /\ UNCHANGED <<applied, check, checking, checked, decodedBlocks, results,
                     fault, cancelled, abort>>
  BY DEF LoopDecode, Between, stage3, channels, given
<1>2. decode = "next" /\ read = checked /\ applied = checked /\ read + 1 \in 1 .. N
  BY <1>1 DEF LoopInv, LoopAt, LoopFiltered, TypeOK
<1>3. CASE /\ ReturnError(read + 1, "decode") \/ ReturnError(read + 1, "cancelled")
           /\ fault[read + 1] = "decode" \/ cancelled
           /\ decode' = "stopped" /\ UNCHANGED <<apply, applying>>
  <2>1. /\ Promise!Fail /\ issue' \in promise!Issue
        /\ outcome' = "failed" /\ issue'.block = checked + 1
    <3>1. CASE ReturnError(read + 1, "decode") /\ fault[read + 1] = "decode"
      BY <1>1, <1>2, <3>1, LoopErrorIsReal
    <3>2. CASE ReturnError(read + 1, "cancelled") /\ cancelled
      BY <1>1, <1>2, <3>2, LoopErrorIsReal
    <3>. QED
      BY <3>1, <3>2, <1>3 DEF LoopDecode
  <2>2. TypeOK'
    BY <1>1, <1>2, <1>3, <2>1 DEF LoopInv, TypeOK
  <2>3. LoopAt'
    BY <1>1, <1>2, <1>3, <2>1 DEF LoopInv, LoopAt
  <2>4. LoopFiltered' /\ OneAtATime'
    BY <1>1, <1>2, <1>3, <2>1 DEF LoopInv, LoopFiltered, OneAtATime, TypeOK
  <2>. QED
    BY <2>1, <2>2, <2>3, <2>4 DEF LoopInv, Promise!Next
<1>4. CASE /\ fault[read + 1] # "decode" /\ apply' = "apply" /\ applying' = read + 1
           /\ UNCHANGED <<decode, issue, outcome>>
  <2>1. TypeOK'
    BY <1>1, <1>2, <1>4 DEF LoopInv, TypeOK
  <2>2. LoopAt'
    BY <1>1, <1>2, <1>4 DEF LoopInv, LoopAt
  <2>3. LoopFiltered' /\ OneAtATime'
    BY <1>1, <1>2, <1>4 DEF LoopInv, LoopFiltered, OneAtATime, TypeOK
  <2>4. UNCHANGED Promise!vars
    BY <1>1, <1>4, QuietStep
  <2>. QED
    BY <2>1, <2>2, <2>3, <2>4 DEF LoopInv
<1>. QED
  BY <1>3, <1>4 DEF LoopDecode

LEMMA LoopApplyKeepsLoopInv ==
    ASSUME LoopInv, LoopApply
    PROVE  LoopInv' /\ [Promise!Next]_(Promise!vars)
<1> USE PipelineAssumption
<1>1. /\ outcome = "running" /\ apply = "apply"
      /\ UNCHANGED <<decode, read, applying, check, checking, checked, decodedBlocks,
                     results, fault, cancelled, abort>>
  BY DEF LoopApply, stage1, stage3, channels, given
<1>2. /\ decode = "next" /\ check = "next" /\ applying = read /\ read = checked + 1
      /\ applied = checked /\ fault[applying] # "decode" /\ applying \in 1 .. N
  BY <1>1 DEF LoopInv, LoopAt, LoopFiltered, TypeOK
<1>3. CASE /\ fault[applying] = "apply" /\ ReturnError(applying, "apply")
           /\ apply' = "stopped" /\ UNCHANGED applied
  <2>1. /\ Promise!Fail /\ issue' \in promise!Issue
        /\ outcome' = "failed" /\ issue'.block = checked + 1
    BY <1>1, <1>2, <1>3, LoopErrorIsReal
  <2>2. TypeOK'
    BY <1>1, <1>2, <1>3, <2>1 DEF LoopInv, TypeOK
  <2>3. LoopAt'
    BY <1>1, <1>2, <1>3, <2>1 DEF LoopInv, LoopAt
  <2>4. LoopFiltered' /\ OneAtATime'
    BY <1>1, <1>2, <1>3, <2>1 DEF LoopInv, LoopFiltered, OneAtATime, TypeOK
  <2>. QED
    BY <2>1, <2>2, <2>3, <2>4 DEF LoopInv, Promise!Next
<1>4. CASE /\ fault[applying] # "apply" /\ applied' = applied + 1 /\ apply' = "snapshot"
           /\ UNCHANGED <<issue, outcome>>
  <2>1. TypeOK'
    BY <1>1, <1>2, <1>4 DEF LoopInv, TypeOK
  <2>2. LoopAt'
    BY <1>1, <1>2, <1>4 DEF LoopInv, LoopAt
  <2>3. LoopFiltered' /\ OneAtATime'
    BY <1>1, <1>2, <1>4 DEF LoopInv, LoopFiltered, OneAtATime, TypeOK
  <2>4. UNCHANGED Promise!vars
    BY <1>1, <1>4, QuietStep
  <2>. QED
    BY <2>1, <2>2, <2>3, <2>4 DEF LoopInv
<1>. QED
  BY <1>3, <1>4 DEF LoopApply

LEMMA LoopSnapshotKeepsLoopInv ==
    ASSUME LoopInv, LoopSnapshot
    PROVE  LoopInv' /\ [Promise!Next]_(Promise!vars)
<1> USE PipelineAssumption
<1>1. /\ outcome = "running" /\ apply = "snapshot"
      /\ UNCHANGED <<decode, read, applying, applied, checked, decodedBlocks,
                     results, fault, cancelled, abort>>
  BY DEF LoopSnapshot, stage1, channels, given
<1>2. /\ decode = "next" /\ check = "next" /\ applying = read /\ read = checked + 1
      /\ applied = checked + 1 /\ applying \in 1 .. N
      /\ fault[applying] \in {"none", "snapshot", "check", "report"}
  BY <1>1 DEF LoopInv, LoopAt, LoopFiltered, TypeOK, promise!Fault
<1>3. CASE /\ fault[applying] = "snapshot" /\ ReturnError(applying, "snapshot")
           /\ apply' = "stopped" /\ UNCHANGED <<check, checking>>
  <2>1. /\ Promise!Fail /\ issue' \in promise!Issue
        /\ outcome' = "failed" /\ issue'.block = checked + 1
    BY <1>1, <1>2, <1>3, LoopErrorIsReal
  <2>2. TypeOK'
    BY <1>1, <1>2, <1>3, <2>1 DEF LoopInv, TypeOK
  <2>3. LoopAt'
    BY <1>1, <1>2, <1>3, <2>1 DEF LoopInv, LoopAt
  <2>4. LoopFiltered' /\ OneAtATime'
    BY <1>1, <1>2, <1>3, <2>1 DEF LoopInv, LoopFiltered, OneAtATime, TypeOK
  <2>. QED
    BY <2>1, <2>2, <2>3, <2>4 DEF LoopInv, Promise!Next
<1>4. CASE /\ fault[applying] # "snapshot" /\ apply' = "next" /\ check' = "check"
           /\ checking' = applying /\ UNCHANGED <<issue, outcome>>
  <2>1. TypeOK'
    BY <1>1, <1>2, <1>4 DEF LoopInv, TypeOK
  <2>2. LoopAt'
    BY <1>1, <1>2, <1>4 DEF LoopInv, LoopAt
  <2>3. LoopFiltered' /\ OneAtATime'
    BY <1>1, <1>2, <1>4 DEF LoopInv, LoopFiltered, OneAtATime, TypeOK
  <2>4. UNCHANGED Promise!vars
    BY <1>1, <1>4, QuietStep
  <2>. QED
    BY <2>1, <2>2, <2>3, <2>4 DEF LoopInv
<1>. QED
  BY <1>3, <1>4 DEF LoopSnapshot

LEMMA LoopCheckKeepsLoopInv ==
    ASSUME LoopInv, LoopCheck
    PROVE  LoopInv' /\ [Promise!Next]_(Promise!vars)
<1> USE PipelineAssumption
<1>1. /\ outcome = "running" /\ check = "check"
      /\ UNCHANGED <<decode, read, apply, applying, applied, checking, checked,
                     decodedBlocks, results, fault, cancelled, abort>>
  BY DEF LoopCheck, stage1, stage2, channels, given
<1>2. /\ decode = "next" /\ apply = "next" /\ checking = read /\ read = checked + 1
      /\ applied = checked + 1 /\ checking \in 1 .. N
      /\ fault[checking] \in {"none", "check", "report"}
  BY <1>1 DEF LoopInv, LoopAt, LoopFiltered, TypeOK
<1>3. CASE fault[checking] = "check" /\ ReturnError(checking, "check") /\ check' = "stopped"
  <2>1. /\ Promise!Fail /\ issue' \in promise!Issue
        /\ outcome' = "failed" /\ issue'.block = checked + 1
    BY <1>1, <1>2, <1>3, LoopErrorIsReal
  <2>2. TypeOK'
    BY <1>1, <1>2, <1>3, <2>1 DEF LoopInv, TypeOK
  <2>3. LoopAt'
    BY <1>1, <1>2, <1>3, <2>1 DEF LoopInv, LoopAt
  <2>4. LoopFiltered' /\ OneAtATime'
    BY <1>1, <1>2, <1>3, <2>1 DEF LoopInv, LoopFiltered, OneAtATime, TypeOK
  <2>. QED
    BY <2>1, <2>2, <2>3, <2>4 DEF LoopInv, Promise!Next
<1>4. CASE fault[checking] # "check" /\ check' = "report" /\ UNCHANGED <<issue, outcome>>
  <2>1. TypeOK'
    BY <1>1, <1>2, <1>4 DEF LoopInv, TypeOK
  <2>2. LoopAt'
    BY <1>1, <1>2, <1>4 DEF LoopInv, LoopAt
  <2>3. LoopFiltered' /\ OneAtATime'
    BY <1>1, <1>2, <1>4 DEF LoopInv, LoopFiltered, OneAtATime, TypeOK
  <2>4. UNCHANGED Promise!vars
    BY <1>1, <1>4, QuietStep
  <2>. QED
    BY <2>1, <2>2, <2>3, <2>4 DEF LoopInv
<1>. QED
  BY <1>3, <1>4 DEF LoopCheck

LEMMA LoopReportKeepsLoopInv ==
    ASSUME LoopInv, LoopReport
    PROVE  LoopInv' /\ [Promise!Next]_(Promise!vars)
<1> USE PipelineAssumption
<1>1. /\ outcome = "running" /\ check = "report"
      /\ UNCHANGED <<decode, read, apply, applying, applied, checking,
                     decodedBlocks, results, fault, cancelled, abort>>
  BY DEF LoopReport, stage1, stage2, channels, given
<1>2. /\ decode = "next" /\ apply = "next" /\ checking = read /\ read = checked + 1
      /\ applied = checked + 1 /\ checking \in 1 .. N
      /\ fault[checking] \in {"none", "report"}
  BY <1>1 DEF LoopInv, LoopAt, LoopFiltered, TypeOK
<1>3. CASE /\ fault[checking] = "report" /\ ReturnError(checking, "report")
           /\ check' = "stopped" /\ UNCHANGED checked
  <2>1. /\ Promise!Fail /\ issue' \in promise!Issue
        /\ outcome' = "failed" /\ issue'.block = checked + 1
    BY <1>1, <1>2, <1>3, LoopErrorIsReal
  <2>2. TypeOK'
    BY <1>1, <1>2, <1>3, <2>1 DEF LoopInv, TypeOK
  <2>3. LoopAt'
    BY <1>1, <1>2, <1>3, <2>1 DEF LoopInv, LoopAt
  <2>4. LoopFiltered' /\ OneAtATime'
    BY <1>1, <1>2, <1>3, <2>1 DEF LoopInv, LoopFiltered, OneAtATime, TypeOK
  <2>. QED
    BY <2>1, <2>2, <2>3, <2>4 DEF LoopInv, Promise!Next
<1>4. CASE /\ fault[checking] # "report" /\ checked' = checked + 1 /\ check' = "next"
           /\ UNCHANGED <<issue, outcome>>
  <2>1. TypeOK'
    BY <1>1, <1>2, <1>4 DEF LoopInv, TypeOK
  <2>2. LoopAt'
    BY <1>1, <1>2, <1>4 DEF LoopInv, LoopAt
  <2>3. \A k \in 1 .. checked' : fault[k] = "none"
    BY <1>1, <1>2, <1>4 DEF LoopInv, LoopFiltered, TypeOK
  <2>4. LoopFiltered' /\ OneAtATime'
    BY <1>1, <1>2, <1>4, <2>3 DEF LoopInv, LoopFiltered, OneAtATime, TypeOK
  <2>5. checked < N /\ fault[checked + 1] = "none"
    BY <1>2, <1>4 DEF LoopInv, TypeOK
  <2>6. Promise!CheckBlock
    BY <1>1, <1>4, <2>5 DEF Promise!CheckBlock
  <2>. QED
    BY <2>1, <2>2, <2>4, <2>6 DEF LoopInv, Promise!Next
<1>. QED
  BY <1>3, <1>4 DEF LoopReport

LEMMA LoopStepIsPromised ==
    LoopInv /\ [LoopNext]_vars => LoopInv' /\ [Promise!Next]_(Promise!vars)
<1> SUFFICES ASSUME LoopInv, [LoopNext]_vars
             PROVE  LoopInv' /\ [Promise!Next]_(Promise!vars)
  OBVIOUS
<1> USE PipelineAssumption
<1>1. CASE UNCHANGED vars
  <2>1. UNCHANGED Promise!vars
    BY <1>1 DEF vars, given, report, stage3, Promise!vars, Promise!NoIssue, promise!NoIssue
  <2>2. TypeOK' /\ LoopAt'
    BY <1>1 DEF LoopInv, TypeOK, LoopAt, vars, stage1, stage2, stage3, channels, given, report
  <2>3. LoopFiltered' /\ OneAtATime'
    BY <1>1 DEF LoopInv, LoopFiltered, OneAtATime, vars, stage1, stage2, stage3, channels,
                given, report
  <2>. QED
    BY <2>1, <2>2, <2>3 DEF LoopInv
<1>2. CASE Cancel
  <2>1. /\ outcome = "running" /\ ~ cancelled /\ cancelled' = TRUE
        /\ UNCHANGED <<fault, stage1, stage2, stage3, channels, report, outcome>>
    BY <1>2 DEF Cancel
  <2>2. Promise!Cancel
    BY <2>1 DEF Promise!Cancel, stage3, report
  <2>3. TypeOK' /\ LoopAt'
    BY <2>1 DEF LoopInv, TypeOK, LoopAt, stage1, stage2, stage3, channels, report
  <2>4. LoopFiltered' /\ OneAtATime'
    BY <2>1 DEF LoopInv, LoopFiltered, OneAtATime, stage1, stage2, stage3, channels, report
  <2>. QED
    BY <2>2, <2>3, <2>4 DEF LoopInv, Promise!Next
<1>3. CASE LoopDecode
  BY <1>3, LoopDecodeKeepsLoopInv
<1>4. CASE LoopApply
  BY <1>4, LoopApplyKeepsLoopInv
<1>5. CASE LoopSnapshot
  BY <1>5, LoopSnapshotKeepsLoopInv
<1>6. CASE LoopCheck
  BY <1>6, LoopCheckKeepsLoopInv
<1>7. CASE LoopReport
  BY <1>7, LoopReportKeepsLoopInv
<1>8. CASE LoopEnd
  <2>1. /\ outcome = "running" /\ apply = "next" /\ check = "next" /\ read = N
        /\ outcome' = "ok"
        /\ UNCHANGED <<stage1, stage2, stage3, channels, given, report>>
    BY <1>8 DEF LoopEnd, Between
  <2>2. checked = N
    BY <2>1 DEF LoopInv, LoopAt
  <2>3. Promise!Succeed
    BY <2>1, <2>2 DEF Promise!Succeed, given, stage3, report, promise!NoIssue
  <2>4. TypeOK' /\ LoopAt'
    BY <2>1 DEF LoopInv, TypeOK, LoopAt, stage1, stage2, stage3, channels, given, report
  <2>5. LoopFiltered' /\ OneAtATime'
    BY <2>1 DEF LoopInv, LoopFiltered, OneAtATime, stage1, stage2, stage3, channels, given, report
  <2>. QED
    BY <2>3, <2>4, <2>5 DEF LoopInv, Promise!Next
<1>. QED
  BY <1>1, <1>2, <1>3, <1>4, <1>5, <1>6, <1>7, <1>8 DEF LoopNext, LoopStep, Returned

LEMMA InitEstablishesLoopInv == Init => LoopInv
<1> SUFFICES ASSUME Init PROVE LoopInv
  OBVIOUS
<1>1. TypeOK
  BY InitEstablishesIInv DEF IInv
<1>2. LoopAt
  BY DEF Init, promise!Init, LoopAt
<1>3. LoopFiltered /\ OneAtATime
  BY DEF Init, promise!Init, LoopFiltered, OneAtATime
<1>. QED
  BY <1>1, <1>2, <1>3 DEF LoopInv

(* runReplayLoop keeps the promise of the replay as well: whichever way    *)
(* the flag of the command chooses, success means that every block was     *)
(* checked, and an error is of a block that was not.                       *)
THEOREM LoopKeepsPromise == LoopSpec => KeepsPromise
<1>1. Init => Promise!Init
  BY DEF Init, promise!Init, Promise!Init, promise!Position, Promise!Position,
         promise!Fault, Promise!Fault, promise!NoIssue, Promise!NoIssue
<1>. QED
  BY <1>1, LoopStepIsPromised, InitEstablishesLoopInv, PTL DEF LoopSpec, KeepsPromise, Promise!Spec

(* The loop has at most one block in hand: the state is at most one block  *)
(* ahead of the checks, also after an error, which is always that of the   *)
(* first block that was not checked; and no block is lost on the way.      *)
THEOREM LoopIsOneAtATime == LoopSpec => [](NothingLost /\ OneAtATime)
<1>1. LoopInv => NothingLost /\ OneAtATime
  <2> SUFFICES ASSUME LoopInv PROVE NothingLost
    BY DEF LoopInv
  <2>1. Len(results) = 0 /\ Len(decodedBlocks) = 0
    BY DEF LoopInv, LoopAt
  <2>2. checked \in Nat /\ read \in Nat
    BY PipelineAssumption DEF LoopInv, TypeOK
  <2>3. \/ InDecode = 0 /\ InApply = 0 /\ InCheck = 0 /\ read = checked
        \/ InDecode = 1 /\ InApply = 0 /\ InCheck = 0 /\ read = checked + 1
        \/ InDecode = 0 /\ InApply = 1 /\ InCheck = 0 /\ read = checked + 1 /\ applying = read
        \/ InDecode = 0 /\ InApply = 0 /\ InCheck = 1 /\ read = checked + 1 /\ checking = read
    BY DEF LoopInv, LoopAt, TypeOK, InDecode, InApply, InCheck, Held
  <2>. QED
    BY <2>1, <2>2, <2>3 DEF NothingLost
<1>. QED
  BY <1>1, LoopStepIsPromised, InitEstablishesLoopInv, PTL DEF LoopSpec

=============================================================================

-------------------------- MODULE MCReplayPipeline --------------------------
(***************************************************************************)
(* Model checking of both ways to replay: a behaviour is one of the        *)
(* pipeline or one of the sequential loop.                                 *)
(***************************************************************************)
EXTENDS ReplayLoop

VARIABLE pipelined     \* the flag of the command

MCInit == pipelined \in BOOLEAN /\ Init

MCNext ==
    /\ UNCHANGED pipelined
    /\ IF pipelined THEN Next ELSE LoopNext

(* The fairness of FairSpec, or of LoopFairSpec. *)
MCSpec ==
    /\ MCInit /\ [][MCNext]_<<vars, pipelined>>
    /\ WF_vars(pipelined /\ Stage1) /\ WF_vars(pipelined /\ Stage2)
    /\ WF_vars(pipelined /\ Stage3) /\ WF_vars(pipelined /\ Return)
    /\ WF_vars(~ pipelined /\ LoopStep)
=============================================================================

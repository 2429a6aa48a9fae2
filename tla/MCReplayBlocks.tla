--------------------------- MODULE MCReplayBlocks ---------------------------
(* Model checking of what a replay keeps from block to block, the network  *)
(* rules (RulesUpdates) and the block hashes (HashHistory): each behaviour *)
(* is one of the one or the other.                                         *)
EXTENDS RulesUpdates, HashHistory, TLC

VARIABLE part   \* which of the two

Symmetry == Permutations(Field)

MCInit ==
    \/ /\ part = "rules" /\ Init /\ HistoryInit
       /\ \A n \in BlockNumber : ~Stored(n)
    \/ /\ part = "hashes" /\ Init /\ HistoryInit
       /\ chain = [b \in 1 .. MaxBlock |-> [seal |-> FALSE, patch |-> <<>>]]

MCNext ==
    \/ part = "rules" /\ Next /\ UNCHANGED <<part, historyVars>>
    \/ part = "hashes" /\ HistoryNext /\ UNCHANGED <<part, vars>>

MCSpec == MCInit /\ [][MCNext]_<<vars, historyVars, part>>
=============================================================================

---------------------------- MODULE RulesUpdates ----------------------------
(***************************************************************************)
(* The network rules of a replay (go/replay/metadata.go, and ApplyBlock    *)
(* and onNewLog of go/replay/replay.go).  The logs of a block may patch    *)
(* the rules; the next block that seals an epoch commits the patches, for  *)
(* the blocks after it.  The commits are kept in the metadata store and,   *)
(* with --write-rules-update-heights, in the block database, where they    *)
(* serve later replays, which may start in the middle of the chain.        *)
(*                                                                         *)
(* A patch sets a field of the rules.  The empty one stands for a block    *)
(* without an update, and for one with an update that cannot be decoded or *)
(* parsed, which is only logged.  Several patches in one block, or one of  *)
(* several fields, are like patches of successive blocks.                  *)
(***************************************************************************)
EXTENDS Integers, FiniteSets, FiniteSetsExt

CONSTANTS
    Field,        \* the fields of the rules
    MaxBlock,     \* the last block of the chain
    SealPatches,  \* whether a block that seals an epoch may patch the rules
    NoRules       \* the nil pointer to rules

ASSUME RulesAssumption ==
    /\ IsFiniteSet(Field)
    /\ MaxBlock \in Nat
    /\ SealPatches \in BOOLEAN
    /\ NoRules \notin [Field -> 0 .. 1]

VARIABLES
    chain,      \* of each block, whether it seals an epoch and what it patches
    stored,     \* the rules update heights in the block database
    up,         \* whether a replay is running
    write,      \* writeRulesUpdateHeights
    start,      \* its first block
    next,       \* the block it applies next
    committed,  \* whether it is past the commit of that block
    heights,    \* metadata.RulesUpdateHeights
    nextRules,  \* nextRules
    used,       \* the rules each block was executed with in this replay
    failed,     \* whether the last replay ended with an unexpected update
    recorded,   \* history: the blocks whose updates are in the block database
    tainted     \* history: a replay without the pending patches wrote there

proc == <<up, write, start, next, committed, heights, nextRules, used>>
vars == <<chain, stored, proc, failed, recorded, tainted>>

Block == 0 .. MaxBlock
Rules == [Field -> 0 .. 1]
Patch == UNION {[F -> 0 .. 1] : F \in {G \in SUBSET Field : Cardinality(G) <= 1}}
Update == [block : 0 .. MaxBlock + 1, rules : Rules]

(* The genesis rules of the network, and those of another genesis file. *)
Genesis == [f \in Field |-> 0]
OtherGenesis == [f \in Field |-> 1]

TypeOK ==
    /\ chain \in [1 .. MaxBlock -> [seal : BOOLEAN, patch : Patch]]
    /\ stored \subseteq Update
    /\ up \in BOOLEAN /\ write \in BOOLEAN /\ committed \in BOOLEAN
    /\ start \in Block
    /\ next \in 0 .. MaxBlock + 1
    /\ heights \subseteq Update
    /\ \A a, b \in heights : a.block = b.block => a = b
    /\ nextRules \in Rules \cup {NoRules}
    /\ used \in [Block -> Rules \cup {NoRules}]
    /\ failed \in BOOLEAN /\ tainted \in BOOLEAN
    /\ recorded \in Block

Init ==
    /\ chain \in [1 .. MaxBlock -> [seal : BOOLEAN, patch : Patch]]
    /\ SealPatches \/ \A b \in 1 .. MaxBlock :
           chain[b].seal => DOMAIN chain[b].patch = {}
    /\ stored = {}
    /\ up = FALSE
    /\ write = FALSE
    /\ start = 0
    /\ next = 0
    /\ committed = FALSE
    /\ heights = {}
    /\ nextRules = NoRules
    /\ used = [b \in Block |-> NoRules]
    /\ failed = FALSE
    /\ recorded = 0
    /\ tainted = FALSE

-----------------------------------------------------------------------------
(* Mutation: the current rules serve for all blocks. *)
GetCurrentRules(b) ==
    (CHOOSE u \in heights : \A v \in heights : v.block <= u.block).rules

(* The rules of the last update, in the order of the blocks, not after     *)
(* block b.  There is always one, at block 0.                              *)
GetRulesAtBlock(b) ==
    (CHOOSE u \in heights :
        /\ u.block <= b
        /\ \A v \in heights : v.block <= b => v.block <= u.block).rules

(* opera.UpdateRules. *)
UpdateRules(rules, patch) ==
    [f \in Field |-> IF f \in DOMAIN patch THEN patch[f] ELSE rules[f]]

-----------------------------------------------------------------------------
(* What the chain says, for the properties only: the rules of block b have *)
(* in each field the last value that was patched before the last epoch     *)
(* that was sealed before b.                                               *)
LastSeal(b) == Max({0} \cup {s \in 1 .. MaxBlock : s < b /\ chain[s].seal})

Expected(b) ==
    [f \in Field |->
        LET P == {p \in 1 .. MaxBlock :
                     p < LastSeal(b) /\ f \in DOMAIN chain[p].patch}
        IN  IF P = {} THEN Genesis[f] ELSE chain[Max(P)].patch[f]]

(* No patch waits for its commit before block b. *)
NothingPending(b) ==
    \A p \in 1 .. MaxBlock :
        p < b /\ p >= LastSeal(b) => DOMAIN chain[p].patch = {}

(* A replay from block b knows all there is to know of the blocks before:  *)
(* it starts at the beginning, or between two updates all recorded.        *)
Grounded(b) ==
    b = 0 \/ (recorded >= b - 1 /\ NothingPending(b))

-----------------------------------------------------------------------------
WithGenesis(updates, rules) ==
    IF \E u \in updates : u.block = 0
    THEN updates
    ELSE updates \cup {[block |-> 0, rules |-> rules]}

(* NewBlockDBMetadataStore, with the rules of the genesis file; a stored   *)
(* genesis with other rules is an error.  The state to start from is that  *)
(* of an earlier replay, a snapshot of it or a copy from elsewhere.        *)
Start(b, w, genesis) ==
    /\ ~up
    /\ \A u \in stored : u.block = 0 => u.rules = genesis
    /\ up' = TRUE
    /\ write' = w
    /\ start' = b
    /\ next' = b
    /\ committed' = FALSE
    /\ heights' = WithGenesis(stored, genesis)
    /\ nextRules' = NoRules
    /\ used' = [c \in Block |-> NoRules]
    /\ failed' = FALSE
    /\ UNCHANGED <<chain, stored, recorded, tainted>>

(* Block 0 is the genesis, and only its hash is recorded. *)
SkipGenesisBlock ==
    /\ up /\ next = 0
    /\ next' = 1
    /\ UNCHANGED <<chain, stored, up, write, start, committed, heights,
                   nextRules, used, failed, recorded, tainted>>

(* A replay that is grounded, has the rules of the network and writes its  *)
(* updates has recorded those of block b.                                  *)
Trusted == Grounded(start) /\ GetRulesAtBlock(0) = Genesis

Record(b) ==
    recorded' = IF Trusted /\ write /\ ~tainted /\ b > recorded
                THEN b ELSE recorded

-----------------------------------------------------------------------------
EffectiveFrom(b) == b + 1

(* CommitRules, when block `next' seals an epoch.                          *)
Pending == chain[next].seal /\ nextRules # NoRules

Committing == up /\ next \in 1 .. MaxBlock /\ ~committed

NothingToCommit ==
    /\ Committing
    /\ ~Pending
    /\ committed' = TRUE
    /\ Record(next)
    /\ UNCHANGED <<chain, stored, up, write, start, next, heights,
                   nextRules, used, failed, tainted>>

(* An update known for the same block has to be the same. *)
CommitKnown ==
    /\ Committing
    /\ Pending
    /\ \E u \in heights :
        /\ u.block = EffectiveFrom(next)
        /\ committed' = (u.rules = nextRules)
        /\ failed' = (u.rules # nextRules)
        /\ up' = (u.rules = nextRules)
        /\ IF u.rules = nextRules THEN Record(next) ELSE UNCHANGED recorded
    /\ nextRules' = NoRules
    /\ UNCHANGED <<chain, stored, write, start, next, heights, used,
                   tainted>>

Known(b) == \E u \in heights : u.block = EffectiveFrom(b)

WriteAll(updates, new) ==
    stored' = IF write THEN updates \cup {new} ELSE stored

CommitNew ==
    /\ Committing
    /\ Pending
    /\ ~Known(next)
    /\ LET new == [block |-> EffectiveFrom(next), rules |-> nextRules]
       IN  /\ heights' = heights \cup {new}
           /\ WriteAll(heights, new)
    /\ nextRules' = NoRules
    /\ committed' = TRUE
    /\ tainted' = (tainted \/ (write /\ ~Trusted))
    /\ Record(next)
    /\ UNCHANGED <<chain, up, write, start, next, used, failed>>

-----------------------------------------------------------------------------
(* Mutation: a patch starts from the rules in force, even if there is an   *)
(* earlier patch.                                                          *)
PatchInForce(b, patch) ==
    LET last == GetRulesAtBlock(b)
        updated == UpdateRules(last, patch)
    IN  IF updated # last THEN updated ELSE nextRules

PatchRules(b, patch) ==
    LET last == IF nextRules # NoRules THEN nextRules ELSE GetRulesAtBlock(b)
        updated == UpdateRules(last, patch)
    IN  IF updated # last THEN updated ELSE nextRules

(* The execution of block `next' with the rules in force, and its logs. *)
Execute ==
    /\ up /\ committed
    /\ used' = [used EXCEPT ![next] = GetRulesAtBlock(next)]
    /\ nextRules' = PatchRules(next, chain[next].patch)
    /\ next' = next + 1
    /\ committed' = FALSE
    /\ UNCHANGED <<chain, stored, up, write, start, heights, failed, recorded,
                   tainted>>

(* The end of a replay, by its last block, an error or a crash. *)
Stop ==
    /\ up
    /\ up' = FALSE
    /\ write' = FALSE
    /\ start' = 0
    /\ next' = 0
    /\ committed' = FALSE
    /\ heights' = {}
    /\ nextRules' = NoRules
    /\ used' = [b \in Block |-> NoRules]
    /\ UNCHANGED <<chain, stored, failed, recorded, tainted>>

Next ==
    \/ \E b \in Block, w \in BOOLEAN, g \in {Genesis, OtherGenesis} :
           Start(b, w, g)
    \/ SkipGenesisBlock
    \/ NothingToCommit \/ CommitKnown \/ CommitNew
    \/ Execute
    \/ Stop

Spec == Init /\ [][Next]_vars

-----------------------------------------------------------------------------
(* Every block is executed with the rules the chain gives it: in a replay  *)
(* that started at the beginning or between two recorded updates for all   *)
(* blocks it comes to, in any other for those whose updates a replay       *)
(* before it recorded with --write-rules-update-heights.  Patches of an    *)
(* epoch accumulate, an update is never applied to the block that commits  *)
(* it, and none is lost.  The exceptions are replays with a foreign        *)
(* genesis and those after a write by a replay that started with patches   *)
(* pending, which CommitRules cannot know.  But for these, no replay ends  *)
(* with an unexpected update: resuming between epochs is never refused.    *)
RulesOfTheChain ==
    /\ failed => \/ tainted
                 \/ ~Grounded(start)
                 \/ GetRulesAtBlock(0) # Genesis
    /\ (up /\ ~tainted /\ GetRulesAtBlock(0) = Genesis) =>
           \A b \in 1 .. MaxBlock + 1 :
               b <= recorded + 1 \/ (Grounded(start) /\ b <= next)
                   => GetRulesAtBlock(b) = Expected(b)

(* The archive verifier executes a block again while later ones commit     *)
(* their updates, and finds the rules the block was first executed with.   *)
ArchiveFindsSameRules ==
    up => \A b \in Block : used[b] # NoRules => GetRulesAtBlock(b) = used[b]
=============================================================================

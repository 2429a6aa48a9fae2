-------------------------------- MODULE Sync --------------------------------
(***************************************************************************)
(* The start command (blockservice/src/cmd/start.rs): three tasks, one     *)
(* that stores the blocks of all configured chains, one that lets the      *)
(* reading instance of the database catch up, and one that serves it.      *)
(* Each chain has a subscription task of its own                           *)
(* (json_rpc/block_subscription.rs) that asks a JSON-RPC server for block  *)
(* after block, header first and receipts then, and sends them through a   *)
(* bounded channel.                                                        *)
(*                                                                         *)
(* A request for a block that is not there yet is repeated after a delay   *)
(* that doubles without bound: it is a step that waits for the block.  A   *)
(* block is its number; a Put is atomic (module BlockDb).                  *)
(***************************************************************************)
EXTENDS Integers, Sequences

CONSTANTS
    Chain,        \* chain IDs
    MaxBlock,     \* the last block the JSON-RPC servers will have
    ChannelSize,  \* CHANNEL_SIZE
    Err           \* an error in place of a block

ASSUME SyncAssumption ==
    /\ MaxBlock \in Nat
    /\ ChannelSize \in Nat \ {0}
    /\ Err \notin Nat

VARIABLES
    headers,     \* per chain, the number of blocks with a header on the server
    receipts,    \* per chain, the number of blocks with receipts
    up,          \* whether the command runs
    subscribed,  \* the chains with a JSON-RPC endpoint in the configuration
    cancelled,   \* the cancellation token
    tasks,       \* the state of the three tasks of the join set
    sub,         \* the state of each subscription task
    number,      \* its block_number
    chan,        \* its channel
    db,          \* the stored blocks of each chain
    view         \* what the reading instance sees of them

remote == <<headers, receipts>>
subs == <<sub, number, chan>>
vars == <<remote, up, subscribed, cancelled, tasks, subs, db, view>>

Number == 0 .. MaxBlock
Task == {"sync", "catch up", "serve"}

TypeOK ==
    /\ headers \in [Chain -> 0 .. MaxBlock + 1]
    /\ receipts \in [Chain -> 0 .. MaxBlock + 1]
    /\ up \in BOOLEAN
    /\ subscribed \subseteq Chain
    /\ cancelled \in BOOLEAN
    /\ tasks \in [Task -> {"running", "ok", "failed"}]
    /\ sub \in [Chain -> {"header", "receipts", "send", "error", "ended"}]
    /\ number \in [Chain -> 0 .. MaxBlock + 1]
    /\ chan \in [Chain -> Seq(Number \cup {Err})]
    /\ \A c \in Chain : Len(chan[c]) <= ChannelSize
    /\ db \in [Chain -> SUBSET Number]
    /\ view \in [Chain -> SUBSET Number]

Init ==
    /\ headers = [c \in Chain |-> 0]
    /\ receipts = [c \in Chain |-> 0]
    /\ up = FALSE
    /\ subscribed = {}
    /\ cancelled = FALSE
    /\ tasks = [t \in Task |-> "ok"]
    /\ sub = [c \in Chain |-> "ended"]
    /\ number = [c \in Chain |-> 0]
    /\ chan = [c \in Chain |-> <<>>]
    /\ db = [c \in Chain |-> {}]
    /\ view = [c \in Chain |-> {}]

-----------------------------------------------------------------------------
(* The chain on the server of the JSON-RPC endpoint grows; the receipts of *)
(* a block may become available later than its header.                     *)
NewHeader(c) ==
    /\ headers[c] <= MaxBlock
    /\ headers' = [headers EXCEPT ![c] = @ + 1]
    /\ UNCHANGED <<receipts, up, subscribed, cancelled, tasks, subs, db, view>>

NewReceipts(c) ==
    /\ receipts[c] < headers[c]
    /\ receipts' = [receipts EXCEPT ![c] = @ + 1]
    /\ UNCHANGED <<headers, up, subscribed, cancelled, tasks, subs, db, view>>

-----------------------------------------------------------------------------
(* Lines 138-143: the block after the highest one stored. *)
StartBlock(blocks) ==
    IF blocks = {} THEN 0
    ELSE (CHOOSE n \in blocks : \A m \in blocks : m <= n) + 1

(* start spawns the tasks, and sync one subscription for each chain with   *)
(* an endpoint.                                                            *)
Start(S) ==
    /\ ~up
    /\ up' = TRUE
    /\ subscribed' = S
    /\ tasks' = [t \in Task |-> "running"]
    /\ sub' = [c \in Chain |-> IF c \in S THEN "header" ELSE "ended"]
    /\ number' = [c \in Chain |-> IF c \in S THEN StartBlock(db[c]) ELSE 0]
    /\ view' = db
    /\ UNCHANGED <<remote, cancelled, chan, db>>

-----------------------------------------------------------------------------
(* The subscription task of chain c.  It ends when the receiving end of    *)
(* its channel, which the sync task owns, is closed.                       *)
Receiving == tasks["sync"] = "running"

Subscription(c, from, to) ==
    /\ Receiving
    /\ sub[c] = from
    /\ sub' = [sub EXCEPT ![c] = to]
    /\ UNCHANGED <<remote, up, subscribed, cancelled, tasks, db, view>>

GetHeader(c) ==
    /\ number[c] < headers[c]
    /\ Subscription(c, "header", "receipts")
    /\ UNCHANGED <<number, chan>>

(* Mutation: receipts that are not there yet are taken for none. *)
GetReceiptsIfAny(c) ==
    /\ Subscription(c, "receipts", "send")
    /\ UNCHANGED <<number, chan>>

GetReceipts(c) ==
    /\ number[c] < receipts[c]
    /\ Subscription(c, "receipts", "send")
    /\ UNCHANGED <<number, chan>>

(* Any other answer than the block and NotFound. *)
SourceFails(c) ==
    /\ \/ Subscription(c, "header", "error")
       \/ Subscription(c, "receipts", "error")
    /\ UNCHANGED <<number, chan>>

SendBlock(c) ==
    /\ Len(chan[c]) < ChannelSize
    /\ Subscription(c, "send", "header")
    /\ chan' = [chan EXCEPT ![c] = Append(@, number[c])]
    /\ number' = [number EXCEPT ![c] = @ + 1]

(* Mutation: the error is only tried to be sent, and lost when the channel *)
(* is full.                                                                *)
TrySendError(c) ==
    /\ Subscription(c, "error", "ended")
    /\ chan' = IF Len(chan[c]) < ChannelSize
               THEN [chan EXCEPT ![c] = Append(@, Err)]
               ELSE chan
    /\ UNCHANGED number

SendError(c) ==
    /\ Len(chan[c]) < ChannelSize
    /\ Subscription(c, "error", "ended")
    /\ chan' = [chan EXCEPT ![c] = Append(@, Err)]
    /\ UNCHANGED number

(* sender.closed() wins the select, wherever the task waits. *)
SubscriptionEnds(c) ==
    /\ ~Receiving
    /\ sub[c] # "ended"
    /\ sub' = [sub EXCEPT ![c] = "ended"]
    /\ UNCHANGED <<remote, up, subscribed, cancelled, tasks, number, chan, db,
                   view>>

-----------------------------------------------------------------------------
(* The task t of the join set ends. *)
EndTask(t, how) ==
    /\ tasks[t] = "running"
    /\ tasks' = [tasks EXCEPT ![t] = how]
    /\ UNCHANGED <<remote, up, subscribed, cancelled, sub, number, db, view>>

CloseChannels == chan' = [c \in Chain |-> <<>>]

(* sync takes the next item of one of the streams, in any order. *)
StoreBlock(c) ==
    /\ Receiving
    /\ chan[c] # <<>>
    /\ Head(chan[c]) # Err
    /\ db' = [db EXCEPT ![c] = @ \cup {Head(chan[c])}]
    /\ chan' = [chan EXCEPT ![c] = Tail(@)]
    /\ UNCHANGED <<remote, up, subscribed, cancelled, tasks, sub, number, view>>

ReceiveError(c) ==
    /\ chan[c] # <<>>
    /\ Head(chan[c]) = Err
    /\ EndTask("sync", "failed")
    /\ CloseChannels

(* A put, or the connection to an endpoint, fails. *)
SyncFails == EndTask("sync", "failed") /\ CloseChannels

(* Without an endpoint there is no stream, and sync returns Ok. *)
NothingToSync ==
    /\ subscribed = {}
    /\ EndTask("sync", "ok")
    /\ CloseChannels

(* Mutation: the reader catches up when it is empty only. *)
CatchUpOnce ==
    /\ tasks["catch up"] = "running"
    /\ \A c \in Chain : view[c] = {}
    /\ view' = db
    /\ UNCHANGED <<remote, up, subscribed, cancelled, tasks, subs, db>>

(* The catch-up task, every CATCH_UP_INTERVAL. *)
CatchUp ==
    /\ tasks["catch up"] = "running"
    /\ view' = db
    /\ UNCHANGED <<remote, up, subscribed, cancelled, tasks, subs, db>>

CatchUpFails == EndTask("catch up", "failed") /\ UNCHANGED chan
ServeFails == EndTask("serve", "failed") /\ UNCHANGED chan

(* Ctrl-C. *)
Cancel ==
    /\ up
    /\ ~cancelled
    /\ cancelled' = TRUE
    /\ UNCHANGED <<remote, up, subscribed, tasks, subs, db, view>>

(* cancelled() wins the select of a task. *)
TaskCancelled(t) ==
    /\ cancelled
    /\ EndTask(t, "ok")
    /\ IF t = "sync" THEN CloseChannels ELSE UNCHANGED chan

(* The process ends, and every task with it. *)
Stop ==
    /\ up' = FALSE
    /\ subscribed' = {}
    /\ cancelled' = FALSE
    /\ tasks' = [t \in Task |-> "ok"]
    /\ sub' = [c \in Chain |-> "ended"]
    /\ number' = [c \in Chain |-> 0]
    /\ CloseChannels
    /\ UNCHANGED <<remote, db, view>>

(* Mutation: the command waits for all of its tasks before it looks for    *)
(* errors.                                                                 *)
JoinAll ==
    /\ up
    /\ \A t \in Task : tasks[t] # "running"
    /\ Stop

(* Lines 111-123: the first error, or the end of all tasks. *)
Join ==
    /\ up
    /\ \/ \E t \in Task : tasks[t] = "failed"
       \/ \A t \in Task : tasks[t] = "ok"
    /\ Stop

Killed == up /\ Stop

Next ==
    \/ \E c \in Chain :
          \/ NewHeader(c) \/ NewReceipts(c)
          \/ GetHeader(c) \/ GetReceipts(c) \/ SourceFails(c)
          \/ SendBlock(c) \/ SendError(c) \/ SubscriptionEnds(c)
          \/ StoreBlock(c) \/ ReceiveError(c)
    \/ \E S \in SUBSET Chain : Start(S)
    \/ SyncFails \/ NothingToSync
    \/ CatchUp \/ CatchUpFails \/ ServeFails
    \/ Cancel
    \/ \E t \in Task : TaskCancelled(t)
    \/ Join
    \/ Killed

Spec == Init /\ [][Next]_vars

(* The runtime polls every task that can go on; a request is repeated for  *)
(* ever, and a StreamMap polls its streams in a random order.  Nothing     *)
(* obliges the server to grow, a request to fail or the user to act.       *)
FairSpec ==
    /\ Spec
    /\ \A c \in Chain :
          /\ WF_vars(GetHeader(c))
          /\ WF_vars(GetReceipts(c))
          /\ WF_vars(SendBlock(c))
          /\ WF_vars(SendError(c))
          /\ WF_vars(SubscriptionEnds(c))
          /\ WF_vars(StoreBlock(c))
          /\ WF_vars(ReceiveError(c))
    /\ WF_vars(CatchUp)
    /\ \A t \in Task : WF_vars(TaskCancelled(t))
    /\ WF_vars(Join)

-----------------------------------------------------------------------------
(* Synchronisation leaves no gap, whenever it was stopped, killed or       *)
(* restarted: the stored blocks of a chain are the first ones, those in    *)
(* the channel are the next ones in order, before an error if there is     *)
(* one, and those of the reader some of the first; and a block is only     *)
(* stored once its receipts were there (start.rs:138-143, 150-155,         *)
(* block_subscription.rs:44-86).                                           *)
NoGaps ==
    \A c \in Chain :
        /\ \E k \in 0 .. receipts[c] : db[c] = 0 .. k - 1
        /\ \E k \in 0 .. receipts[c] : view[c] = 0 .. k - 1
        /\ \A i \in 1 .. Len(chan[c]) :
              \/ chan[c][i] = StartBlock(db[c]) + i - 1
              \/ chan[c][i] = Err /\ i = Len(chan[c])

(* A subscription never ends silently: while blocks are being stored, a    *)
(* chain whose subscription has ended has its error in the channel, even   *)
(* if the channel was full when the error came up                          *)
(* (block_subscription.rs:88-93).                                          *)
NoSilentEnd ==
    \A c \in subscribed :
        Receiving /\ sub[c] = "ended" =>
            chan[c] # <<>> /\ chan[c][Len(chan[c])] = Err

(* An error in any task, and a cancellation, stop the whole command        *)
(* (start.rs:111-123 and the selects of the three tasks), and so does a    *)
(* subscription of one chain that fails: no chain is quietly left behind   *)
(* (start.rs:150-151).                                                     *)
StopsOnError ==
    \/ \E t \in Task : tasks[t] = "failed"
    \/ \E c \in Chain : sub[c] = "error"
    \/ cancelled
    ~> ~up

(* Every block that the endpoint of a chain has is served eventually,      *)
(* whatever the other chains do, unless the command stops                  *)
(* (block_subscription.rs:46-86, start.rs:72-86).                          *)
EventuallyServed ==
    \A c \in Chain, n \in Number :
        up /\ c \in subscribed /\ n < receipts[c] ~> n \in view[c] \/ ~up
=============================================================================

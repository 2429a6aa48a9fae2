---------------------------- MODULE BlockJourney ----------------------------
(***************************************************************************)
(* A block on its way through the system: read from one of the sources,    *)
(* stored as a message, copied as raw bytes by a fetching client, read     *)
(* from that database, printed as JSON and parsed again, or written to a   *)
(* genesis file and read from it.  What happens to it in the databases is  *)
(* module StoredBlocks.                                                    *)
(***************************************************************************)
EXTENDS BlockSources, StoredBlocks

CONSTANT TrueBlocks     \* what the chain may have: [chain, fork, slot, block]

VARIABLES
    truth,     \* the block as the chain has it
    source,    \* where it was read from
    shown      \* the JSON that "view" printed

vars == <<truth, source, shown, storedVars>>

Init ==
    /\ truth \in TrueBlocks
    /\ source = None /\ shown = None
    /\ StoredInit

-----------------------------------------------------------------------------
(* What the files and servers of the network hold for a block.             *)

(* A signature has a parity; a legacy transaction without replay           *)
(* protection has no chain.                                                *)
Envelope(tx) ==
    LET legacy == tx.transaction_type = 0
    IN  [parity |-> IF legacy THEN (tx.y_parity + 1) % 2 ELSE tx.y_parity,
         chain_id |-> IF legacy /\ tx.y_parity < 35 THEN None ELSE tx.chain_id] @@ tx

NetworkReceipt(receipt) == [status |-> receipt.post_state_or_status] @@ receipt

EraTuple(block) ==
    [readable |-> TRUE, header |-> ToHeader(block),
     body |-> [transactions |-> ConvertAll(Envelope, block.transactions),
               ommers |-> block.ommer_headers,
               withdrawals |-> IF block.withdrawals_root = None THEN None ELSE block.withdrawals],
     receipts |-> ConvertAll(NetworkReceipt, block.receipts)]

SignedBeaconBlock(t) ==
    [len |-> SlotEnd, slot |-> t.slot, fork |-> t.fork,
     block |-> [parent_root |-> t.block.parent_beacon_block_root,
                requests_hash |-> t.block.requests_hash,
                payload |-> [fee_recipient |-> t.block.beneficiary,
                             block_number |-> t.block.number,
                             transactions |-> ConvertAll(Marshal, t.block.transactions)]
                            @@ t.block]]

(* A server shows the price that was paid for every type, and null for     *)
(* blob fields of other types.  It has no status for a post state.         *)
RpcTransaction(tx) ==
    LET listed == DOMAIN PayloadOf(tx.transaction_type).fields
                      \union {"transaction_type", "gas_price", "chain_id"}
    IN  [f \in listed \union DeserializeNull |->
            IF f \in listed THEN ToJson(Transaction.fields[f], tx[f]) ELSE None]

RpcReceipt(receipt) ==
    LET j == ReceiptToJson(receipt)
    IN  [f \in {g \in DOMAIN j : g = "status" => j.root = None} |-> j[f]]

RpcBlock(block) ==
    (IF block.withdrawals_root = None THEN <<>>
     ELSE [withdrawals |-> ToJson(ListOf(Withdrawal), block.withdrawals)])
    @@ [transactions |-> ConvertAll(RpcTransaction, block.transactions)]
    @@ HeaderToJson(ToHeader(block))

Sources(fork) ==
    IF fork = "Sonic" THEN {"rpc", "g"}
    ELSE IF fork = "PreMerge" THEN {"rpc", "era1", "erae"} ELSE {"rpc", "erae", "era"}

-----------------------------------------------------------------------------
(* The source that import or start reads the block from. *)
Read(s) ==
    /\ source = None
    /\ source' = s
    /\ Obtain(CASE s = "rpc" -> ReadRpcAnswers(RpcBlock(truth.block),
                                               ConvertAll(RpcReceipt, truth.block.receipts))
                [] s = "g" -> ReadGFileItem(WriteGFileItem(truth.block).val)
                [] s = "era1" -> ReadEra1Item(EraTuple(truth.block))
                [] s = "erae" -> ReadEraEItem(EraTuple(truth.block))
                [] s = "era" -> ReadEraItem(SignedBeaconBlock(truth), truth.chain), s)
    /\ UNCHANGED <<truth, shown>>

(* The databases. *)
Store == (Put \/ FetchBytes \/ FetchDamaged \/ Get) /\ UNCHANGED <<truth, source, shown>>

(* The view command prints a block that it got from the database. *)
View ==
    /\ mem.ok /\ via = "db" /\ shown = None
    /\ shown' = BlockToJson(mem.val)
    /\ UNCHANGED <<truth, source, storedVars>>

ParseJson ==
    /\ shown # None
    /\ shown.ok
    /\ Obtain(BlockFromJson(shown.val), "json")
    /\ UNCHANGED <<truth, source, shown>>

(* Only a Sonic block can be written to a genesis file. *)
WriteGFile ==
    /\ mem.ok /\ truth.fork = "Sonic" /\ via \in {"db", "json"}
    /\ LET item == WriteGFileItem(mem.val)
       IN  Obtain(IF item.ok THEN ReadGFileItem(item.val) ELSE Err, "g")
    /\ UNCHANGED <<truth, source, shown>>

Next ==
    \/ \E s \in Sources(truth.fork) : Read(s)
    \/ Store
    \/ View \/ ParseJson \/ WriteGFile

Spec == Init /\ [][Next]_vars

-----------------------------------------------------------------------------
(* What a source tells of a block: .era files have no receipts. *)
Told(block, src) == IF src = "era" THEN [block EXCEPT !.receipts = <<>>] ELSE block

(* The blocks of the chain as told, with their hashes. *)
Hashed(src) ==
    {[block |-> b, hash |-> ComputeHash(ToHeader(b))] : b \in {Told(t.block, src) : t \in TrueBlocks}}

HashedWithReceipts == Hashed("rpc")
HashedWithout == Hashed("era")

(* The withdrawals of a block are those of its withdrawals root, and there *)
(* are none without a root.                                                *)
WithdrawalsMatchRoot(block) ==
    IF block.withdrawals_root = None THEN block.withdrawals = <<>>
    ELSE block.withdrawals_root
             = ComputeRootHash(ConvertAll(MarshalWithdrawal, block.withdrawals))

(* The hash that verification computes for a block (to_header and          *)
(* compute_hash) is the one of the block that the chain has, and of no     *)
(* other, from whichever source and through whichever encodings it came.   *)
(* It stands for the withdrawals too, of which it has only the root.       *)
HashIdentifiesBlock ==
    mem.ok =>
        LET hash == ComputeHash(ToHeader(mem.val))
            block == Told(truth.block, source)
        IN  /\ WithdrawalsMatchRoot(mem.val)
            /\ \A known \in IF source = "era" THEN HashedWithout ELSE HashedWithReceipts :
                   (known.hash = hash) <=> (known.block = block)

(* No block of the chain is refused, in any fork at any slot, but by the   *)
(* two limits of the JSON: a JSON-RPC receipt without a status, and the    *)
(* gas price, which deserialising a transaction requires and serialising   *)
(* leaves out for the types that pay dynamic fees.                         *)
RefusesOnlyTheseBlocks ==
    (via # None /\ ~mem.ok /\ ~damaged) =>
        \/ /\ via = "rpc"
           /\ \E r \in Range(truth.block.receipts) : r.post_state_or_status.tag = "post_state"
        \/ /\ via = "json"
           /\ \E tx \in Range(truth.block.transactions) : tx.transaction_type >= 2

(* may_contain_logs has no false negatives: the bloom filter that          *)
(* to_header computes has every log of the block, by its address and any   *)
(* of its topics.                                                          *)
BloomHasEveryLog ==
    mem.ok =>
        \A log \in Range(AllLogs(mem.val.receipts)) :
            \A topics \in SUBSET Range(log.topics) :
                MayContainLogs(ToHeader(mem.val), log.address, topics)
=============================================================================

------------------------------- MODULE Blocks -------------------------------
(***************************************************************************)
(* Blocks, headers, receipts, logs and withdrawals (bertha-types).  A      *)
(* Block holds what cannot be computed; its header, and with it the hash,  *)
(* is derived.                                                             *)
(*                                                                         *)
(* Keccak and the root of a Merkle Patricia trie are taken to be           *)
(* injective: a hash is a record of what was hashed.                       *)
(***************************************************************************)
EXTENDS Transactions

CONSTANT BloomBits     \* the bits that an address or a topic sets

Keccak(item) == [keccak |-> item]

(* compute_root_hash, of the marshalled items by their index. *)
ComputeRootHash(items) == [root |-> items]

EmptyOmmersHash == Keccak(List(<<>>))
EmptyTreeRootHash == ComputeRootHash(<<>>)

-----------------------------------------------------------------------------
MarshalWithdrawal(w) == TypedItem(0, Encode(Withdrawal, w))

(* The bits that a sequence of logs sets: of the addresses and the topics. *)
Accrue(logs) ==
    UNION {BloomBits[log.address] \union UNION {BloomBits[t] : t \in Range(log.topics)} :
              log \in Range(logs)}

-----------------------------------------------------------------------------
(* Receipts. *)
LogsBloom(receipt) == Accrue(receipt.logs)

(* Any status but 1 is a failure. *)
StatusString(status) ==
    IF status.tag = "post_state" THEN StringOf(HashSize, status.val)
    ELSE IF status.val = 1 THEN StringOf(1, 1) ELSE EmptyString

MarshalReceipt(receipt) ==
    TypedItem(receipt.transaction_type,
        List(<<StatusString(receipt.post_state_or_status),
               Encode(U64, receipt.cumulative_gas_used),
               Encode(Bloom, LogsBloom(receipt)),
               Encode(ListOf(Log), receipt.logs)>>))

JsonRpcTransactionReceipt ==
    Struct([transaction_type |-> TxType, status |-> U64, root |-> Option(Bytes),
            cumulative_gas_used |-> U64, logs_bloom |-> Bloom, logs |-> ListOf(Log)], <<>>)

ReceiptFromJson(j) ==
    LET r == FromJson(JsonRpcTransactionReceipt, j)
        root == r.val.root
    IN  IF r.ok
        THEN Ok([transaction_type |-> r.val.transaction_type,
                 post_state_or_status |->
                     IF root # None /\ root.len = HashSize
                     THEN PostState(root.val) ELSE StatusOf(r.val.status),
                 cumulative_gas_used |-> r.val.cumulative_gas_used,
                 logs |-> r.val.logs])
        ELSE Err

ReceiptToJson(receipt) ==
    LET status == receipt.post_state_or_status
        isRoot == status.tag = "post_state"
    IN  ToJson(JsonRpcTransactionReceipt,
            [transaction_type |-> receipt.transaction_type,
             status |-> IF isRoot THEN 0 ELSE status.val,
             root |-> IF isRoot THEN StringOf(HashSize, status.val) ELSE None,
             cumulative_gas_used |-> receipt.cumulative_gas_used,
             logs_bloom |-> LogsBloom(receipt),
             logs |-> receipt.logs])

-----------------------------------------------------------------------------
(* Headers. *)
OptionalFields ==
    <<"base_fee_per_gas", "withdrawals_root", "blob_gas_used", "excess_blob_gas",
      "parent_beacon_block_root", "requests_hash">>

(* RlpBlockHeader, #[rlp(trailing)]. *)
BlockHeader ==
    Struct(HeaderFields,
        <<"parent_hash", "ommers_hash", "beneficiary", "state_root", "transactions_root",
          "receipts_root", "logs_bloom", "difficulty", "number", "gas_limit", "gas_used",
          "timestamp", "extra_data", "prev_randao", "nonce">> \o OptionalFields)

HeaderToJson(header) == ToJson(BlockHeader, header)
HeaderFromJson(j) == FromJson(BlockHeader, j)

ComputeHash(header) == Keccak(EncodeTrailing(BlockHeader, header))

MayContainLogs(header, address, topics) ==
    (IF address = None THEN {} ELSE BloomBits[address])
        \union UNION {BloomBits[t] : t \in topics} \subseteq header.logs_bloom

-----------------------------------------------------------------------------
(* Blocks. *)

(* gas_used is the cumulative gas of the last receipt. *)
GasUsed(receipts) == IF receipts = <<>> THEN 0 ELSE Last(receipts).cumulative_gas_used

AllLogs(receipts) == FlattenSeq([i \in DOMAIN receipts |-> receipts[i].logs])

ToHeaderWith(block, bloom) ==
    [f \in DOMAIN SharedFields |-> block[f]] @@
    [transactions_root |-> ComputeRootHash([i \in DOMAIN block.transactions |->
                                               Marshal(block.transactions[i])]),
     receipts_root |-> ComputeRootHash([i \in DOMAIN block.receipts |->
                                           MarshalReceipt(block.receipts[i])]),
     logs_bloom |-> bloom,
     difficulty |-> block.difficulty,
     gas_used |-> GasUsed(block.receipts)]

(* Mutation: the topics do not reach the bloom filter of the block. *)
ToHeaderAddressesOnly(block) ==
    ToHeaderWith(block, UNION {BloomBits[log.address] : log \in Range(AllLogs(block.receipts))})

ToHeader(block) == ToHeaderWith(block, Accrue(AllLogs(block.receipts)))

(* Nothing of an ommer but its hash, and no experimental root, is known. *)
Unknown == [ommer_headers |-> <<>>, verkle_state_root |-> None, binary_state_root |-> None]

FromParts(header, transactions, receipts, withdrawals) ==
    [f \in DOMAIN SharedFields |-> header[f]] @@ Unknown @@
    [difficulty |-> ToLeastSignificantU64(header.difficulty),
     transactions |-> transactions, receipts |-> receipts, withdrawals |-> withdrawals]

-----------------------------------------------------------------------------
(* The JSON of a block, which "view" prints.  A block without withdrawals  *)
(* in the JSON has none.                                                   *)
PlainFields == SharedFields @@ [difficulty |-> U64]

BlockToJson(block) ==
    LET txs == Collect([i \in DOMAIN block.transactions |-> TransactionToJson(block.transactions[i])])
    IN  IF txs.ok
        THEN Ok([f \in DOMAIN PlainFields |-> ToJson(PlainFields[f], block[f])] @@
                [transactions |-> txs.val,
                 receipts |-> [i \in DOMAIN block.receipts |-> ReceiptToJson(block.receipts[i])],
                 withdrawals |-> ToJson(ListOf(Withdrawal), block.withdrawals)])
        ELSE Err

BlockFromJson(j) ==
    LET plain == FromJson(Struct(PlainFields, <<>>), j)
        txs == Collect([i \in DOMAIN j.transactions |-> TransactionFromJson(j.transactions[i])])
        receipts == Collect([i \in DOMAIN j.receipts |-> ReceiptFromJson(j.receipts[i])])
        withdrawals == IF "withdrawals" \in DOMAIN j
                       THEN FromJson(ListOf(Withdrawal), j.withdrawals) ELSE Ok(<<>>)
    IN  IF plain.ok /\ txs.ok /\ receipts.ok /\ withdrawals.ok
        THEN Ok(plain.val @@ Unknown @@
                [transactions |-> txs.val, receipts |-> receipts.val,
                 withdrawals |-> withdrawals.val])
        ELSE Err
=============================================================================

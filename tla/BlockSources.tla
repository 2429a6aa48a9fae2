---------------------------- MODULE BlockSources ----------------------------
(***************************************************************************)
(* How a block comes into the system: the items of a genesis file          *)
(* (g_file/block.rs, transaction_receipt.rs), of .era1, .erae and .era     *)
(* files (era_dir) and the answers of a JSON-RPC server (json_rpc).        *)
(***************************************************************************)
EXTENDS Blocks

CONSTANTS
    NanosSize,          \* the bytes of the nanoseconds in extra_data
    NanosPerSecond

ASSUME NanosAssumption ==
    /\ NanosSize \in Nat \ {0}
    /\ NanosPerSecond \in 1 .. Limit(NanosSize)

-----------------------------------------------------------------------------
(* Genesis files.  A legacy transaction is an RLP list, any other a string *)
(* that holds its type and payload.                                        *)
EncodeRlpTransaction(tx) == Marshal(tx)
DecodeRlpTransaction(item) == Unmarshal(item)

StoredReceiptRlp ==
    Struct([post_state_or_status |-> Bytes, cumulative_gas_used |-> U64, logs |-> ListOf(Log)],
           <<"post_state_or_status", "cumulative_gas_used", "logs">>)

ReceiptFromStored(stored, type) ==
    LET s == stored.post_state_or_status
        status == IF s.len = 0 THEN Ok(StatusOf(0))
                  ELSE IF s.len = 1 /\ s.val = 1 THEN Ok(StatusOf(1))
                  ELSE IF s.len = HashSize THEN Ok(PostState(s.val))
                  ELSE Err
    IN  IF status.ok
        THEN Ok([transaction_type |-> type, post_state_or_status |-> status.val,
                 cumulative_gas_used |-> stored.cumulative_gas_used, logs |-> stored.logs])
        ELSE Err

StoredFromReceipt(receipt) ==
    [post_state_or_status |-> StatusString(receipt.post_state_or_status),
     cumulative_gas_used |-> receipt.cumulative_gas_used,
     logs |-> receipt.logs]

FullBlock ==
    Struct([block_hash |-> Hash, parent_hash |-> Hash, state_root |-> Hash,
            timestamp |-> U64, duration |-> U64, difficulty |-> U64, gas_limit |-> U64,
            gas_used |-> U64, base_fee |-> U256, prev_randao |-> Hash,
            epoch |-> UInt(NanosSize)],
           <<"block_hash", "parent_hash", "state_root", "timestamp", "duration", "difficulty",
             "gas_limit", "gas_used", "base_fee", "prev_randao", "epoch">>)

(* The item of a file: the encoded block, its transactions and receipts,   *)
(* and its number.                                                         *)
IdxFullBlock(full, transactions, receipts, number) ==
    [block |-> Encode(FullBlock, full),
     transactions |-> [i \in DOMAIN transactions |-> EncodeRlpTransaction(transactions[i])],
     receipts |-> Encode(ListOf(StoredReceiptRlp), receipts),
     number |-> Encode(U64, number)]

ExtraDataSize == NanosSize + U64Size

(* What the header of a Sonic block does not take from the file. *)
SonicConstants ==
    [ommers_hash |-> EmptyOmmersHash, withdrawals_root |-> EmptyTreeRootHash,
     withdrawals |-> <<>>, blob_gas_used |-> 0, excess_blob_gas |-> 0,
     beneficiary |-> 0, nonce |-> 0, parent_beacon_block_root |-> None,
     requests_hash |-> None] @@ Unknown

(* Block::default_sonic. *)
DefaultSonic ==
    SonicConstants @@
    [extra_data |-> StringOf(ExtraDataSize, 0), base_fee_per_gas |-> 0, parent_hash |-> 0,
     state_root |-> 0, difficulty |-> 0, number |-> 0, gas_limit |-> 0, timestamp |-> 0,
     prev_randao |-> 0, transactions |-> <<>>, receipts |-> <<>>]

(* The receipts are matched with the transactions for their types. *)
ZipReceipts(receipts, transactions) ==
    [i \in DOMAIN receipts \intersect DOMAIN transactions |->
        ReceiptFromStored(receipts[i], transactions[i].transaction_type)]

BlockFromFull(full, transactions, receipts, number) ==
    SonicConstants @@
    [parent_hash |-> full.parent_hash, state_root |-> full.state_root,
     difficulty |-> full.difficulty, number |-> number, gas_limit |-> full.gas_limit,
     timestamp |-> full.timestamp \div NanosPerSecond,
     extra_data |-> StringOf(ExtraDataSize,
         (full.timestamp % NanosPerSecond) * Limit(U64Size) + full.duration),
     prev_randao |-> full.prev_randao, transactions |-> transactions,
     receipts |-> receipts, base_fee_per_gas |-> full.base_fee]

ReadGFileItem(item) ==
    LET full == Decode(FullBlock, item.block)
        transactions == Collect([i \in DOMAIN item.transactions |->
                                    DecodeRlpTransaction(item.transactions[i])])
        stored == Decode(ListOf(StoredReceiptRlp), item.receipts)
        receipts == Collect(ZipReceipts(stored.val, transactions.val))
        number == Decode(U64, item.number)
    IN  IF full.ok /\ transactions.ok /\ stored.ok /\ number.ok
        THEN IF receipts.ok
             THEN Ok(BlockFromFull(full.val, transactions.val, receipts.val, number.val))
             ELSE Err
        ELSE Err

(* TryFrom<Block> for IdxFullBlock, by which test files are written. *)
WriteGFileItem(block) ==
    IF block.extra_data.len < ExtraDataSize THEN Err
    ELSE LET extra == block.extra_data.val \div Limit(block.extra_data.len - ExtraDataSize)
         IN  Ok(IdxFullBlock(
                 [block_hash |-> ComputeHash(ToHeader(block)),
                  parent_hash |-> block.parent_hash, state_root |-> block.state_root,
                  timestamp |-> block.timestamp * NanosPerSecond + extra \div Limit(U64Size),
                  duration |-> extra % Limit(U64Size), difficulty |-> block.difficulty,
                  gas_limit |-> block.gas_limit, gas_used |-> GasUsed(block.receipts),
                  base_fee |-> IF block.base_fee_per_gas = None THEN 0 ELSE block.base_fee_per_gas,
                  prev_randao |-> block.prev_randao, epoch |-> 0],
                 block.transactions,
                 [i \in DOMAIN block.receipts |-> StoredFromReceipt(block.receipts[i])],
                 block.number))

-----------------------------------------------------------------------------
(* .era1 and .erae files hold the header, the body and the receipts as     *)
(* decoded by alloy, where a signature has a parity instead of a v.        *)
ConvertTxType(type) == type

ConvertAccessList(list) == [i \in DOMAIN list |-> [address |-> list[i].address,
                                                   storage_keys |-> list[i].storage_keys]]

ConvertAuthorizationList(list) ==
    [i \in DOMAIN list |-> [f \in DOMAIN SetCodeAuthorization.fields |-> list[i][f]]]

(* EIP-155. *)
LegacyV(parity, chain_id) ==
    IF chain_id = None THEN parity + 27 ELSE parity + chain_id * 2 + 35

ConvertTransaction(envelope) ==
    LET type == ConvertTxType(envelope.transaction_type)
        shared == [f \in DOMAIN PayloadOf(type).fields \ {"y_parity"} |-> envelope[f]]
        lists == [access_list |-> ConvertAccessList(envelope.access_list),
                  authorization_list |-> ConvertAuthorizationList(envelope.authorization_list)]
        own == [f \in DOMAIN lists \intersect DOMAIN shared |-> lists[f]]
        chain == IF envelope.chain_id = None THEN 0 ELSE envelope.chain_id
        v == IF type = 0 THEN LegacyV(envelope.parity, envelope.chain_id) ELSE envelope.parity
    IN  FromPayload(type, own @@ shared @@ [chain_id |-> chain, y_parity |-> v])

ConvertReceipt(receipt) ==
    [transaction_type |-> ConvertTxType(receipt.transaction_type),
     post_state_or_status |-> receipt.status,
     cumulative_gas_used |-> receipt.cumulative_gas_used,
     logs |-> [i \in DOMAIN receipt.logs |-> [address |-> receipt.logs[i].address,
                                              topics |-> receipt.logs[i].topics,
                                              data |-> receipt.logs[i].data]]]

ConvertAll(Op(_), items) == [i \in DOMAIN items |-> Op(items[i])]

ConvertOmmer(header) == [beneficiary |-> header.beneficiary, number |-> header.number]

BlockOfTuple(header, body, receipts, withdrawals) ==
    [f \in DOMAIN SharedFields |-> header[f]] @@
    [difficulty |-> ToLeastSignificantU64(header.difficulty),
     transactions |-> ConvertAll(ConvertTransaction, body.transactions),
     receipts |-> receipts, withdrawals |-> withdrawals,
     ommer_headers |-> ConvertAll(ConvertOmmer, body.ommers),
     verkle_state_root |-> None, binary_state_root |-> None]

(* There are no withdrawals before the merge. *)
ConvertEra1Block(tuple) ==
    BlockOfTuple(tuple.header, tuple.body, ConvertAll(ConvertReceipt, tuple.receipts), <<>>)

ConvertSlimReceipt(receipt) == ConvertReceipt(receipt)

ConvertEraEBlock(tuple) ==
    BlockOfTuple(tuple.header, tuple.body,
        IF tuple.receipts = None THEN <<>> ELSE ConvertAll(ConvertSlimReceipt, tuple.receipts),
        IF tuple.body.withdrawals = None THEN <<>> ELSE tuple.body.withdrawals)

ReadEra1Item(tuple) == IF tuple.readable THEN Ok(ConvertEra1Block(tuple)) ELSE Err
ReadEraEItem(tuple) == IF tuple.readable THEN Ok(ConvertEraEBlock(tuple)) ELSE Err

-----------------------------------------------------------------------------
(* .era files hold beacon blocks, whose execution payload has no receipts. *)
Forks == <<"Bellatrix", "Capella", "Deneb", "Electra", "Fulu">>
SlotsPerEpoch == 32

(* The epochs at which the forks start; 0 for one that is there from the   *)
(* start, and for those that it replaced before.                           *)
ForkEpochs ==
    [Mainnet |-> <<144896, 194048, 269568, 364032, 411392>>,
     Sepolia |-> <<100, 56832, 132608, 222464, 272640>>,
     Holeski |-> <<0, 256, 29696, 115968, 165120>>,
     Hoodi |-> <<0, 0, 0, 2048, 50688>>]

(* Mutation: the first slot of a fork belongs to the previous one. *)
LateBeaconFork(slot, chain) ==
    LET started == {i \in DOMAIN Forks : chain \in DOMAIN ForkEpochs
                        /\ ForkEpochs[chain][i] * SlotsPerEpoch < slot}
    IN  IF started = {} THEN None ELSE Forks[Max(started)]

TryGetBeaconFork(slot, chain) ==
    LET started == {i \in DOMAIN Forks : chain \in DOMAIN ForkEpochs
                        /\ ForkEpochs[chain][i] * SlotsPerEpoch <= slot}
    IN  IF started = {} THEN None ELSE Forks[Max(started)]

SlotEnd == 108     \* where the slot ends in a signed block

DecodeSlot(ssz) == IF ssz.len < SlotEnd THEN Err ELSE Ok(ssz.slot)

ParseTransactions(data) == Collect([i \in DOMAIN data |-> Unmarshal(data[i])])

ParseWithdrawals(data) == [i \in DOMAIN data |-> [f \in DOMAIN Withdrawal.fields |-> data[i][f]]]

(* What a fork adds to the payload of the one before. *)
Since(fork, first) ==
    \E i, j \in DOMAIN Forks : Forks[i] = first /\ Forks[j] = fork /\ i <= j

ConvertBeaconBlock(beacon, fork) ==
    LET p == beacon.payload
        transactions == ParseTransactions(p.transactions)
        withdrawals == IF Since(fork, "Capella") THEN ParseWithdrawals(p.withdrawals) ELSE <<>>
        From(first, x) == IF Since(fork, first) THEN x ELSE None
    IN  IF transactions.ok
        THEN Ok([parent_hash |-> p.parent_hash, ommers_hash |-> EmptyOmmersHash,
                 beneficiary |-> p.fee_recipient, state_root |-> p.state_root,
                 difficulty |-> 0, number |-> p.block_number, gas_limit |-> p.gas_limit,
                 timestamp |-> p.timestamp, extra_data |-> p.extra_data,
                 prev_randao |-> p.prev_randao, nonce |-> 0,
                 transactions |-> transactions.val, receipts |-> <<>>,
                 base_fee_per_gas |-> p.base_fee_per_gas,
                 withdrawals_root |-> From("Capella",
                     ComputeRootHash(ConvertAll(MarshalWithdrawal, withdrawals))),
                 withdrawals |-> withdrawals,
                 blob_gas_used |-> From("Deneb", p.blob_gas_used),
                 excess_blob_gas |-> From("Deneb", p.excess_blob_gas),
                 parent_beacon_block_root |-> From("Deneb", beacon.parent_root),
                 requests_hash |-> From("Electra", beacon.requests_hash)] @@ Unknown)
        ELSE Err

(* from_ssz_bytes_by_fork fails unless the block is of that fork. *)
ReadEraItem(ssz, chain) ==
    LET slot == DecodeSlot(ssz)
        fork == TryGetBeaconFork(slot.val, chain)
    IN  IF slot.ok
        THEN IF fork # None /\ fork = ssz.fork THEN ConvertBeaconBlock(ssz.block, fork) ELSE Err
        ELSE Err

-----------------------------------------------------------------------------
(* JSON-RPC: the header with transactions and withdrawals, and the         *)
(* receipts, come in two answers (NetworkSource).                          *)
ReadRpcAnswers(block, receipts) ==
    LET header == HeaderFromJson(block)
        transactions == Collect([i \in DOMAIN block.transactions |->
                                    TransactionFromJson(block.transactions[i])])
        withdrawals == IF "withdrawals" \in DOMAIN block
                       THEN FromJson(ListOf(Withdrawal), block.withdrawals) ELSE Ok(<<>>)
        all == Collect([i \in DOMAIN receipts |-> ReceiptFromJson(receipts[i])])
    IN  IF header.ok /\ transactions.ok /\ withdrawals.ok /\ all.ok
        THEN Ok(FromParts(header.val, transactions.val, all.val, withdrawals.val))
        ELSE Err
=============================================================================

----------------------------- MODULE BlockTypes -----------------------------
(***************************************************************************)
(* The types of block data (bertha-types): transactions, receipts, logs,   *)
(* withdrawals, headers and blocks, as kinds.                              *)
(***************************************************************************)
EXTENDS Kinds

AccessListEntry ==
    Struct([address |-> Address, storage_keys |-> ListOf(Hash)], <<"address", "storage_keys">>)

SetCodeAuthorization ==
    Struct([chain_id |-> U256, address |-> Address, nonce |-> U64,
            y_parity |-> U8, r |-> U256, s |-> U256],
           <<"chain_id", "address", "nonce", "y_parity", "r", "s">>)

Transaction ==
    Struct([transaction_type |-> TxType, chain_id |-> U256, nonce |-> U64,
            gas_price |-> U256, gas_limit |-> U64, to |-> Option(Address),
            value |-> U256, data |-> Bytes, access_list |-> ListOf(AccessListEntry),
            max_fee_per_gas |-> U256, max_priority_fee_per_gas |-> U256,
            blob_versioned_hashes |-> ListOf(Hash), max_fee_per_blob_gas |-> U256,
            authorization_list |-> ListOf(SetCodeAuthorization),
            y_parity |-> U256, r |-> U256, s |-> U256], <<>>)

Log ==
    Struct([address |-> Address, topics |-> ListOf(Hash), data |-> Bytes],
           <<"address", "topics", "data">>)

Withdrawal ==
    Struct([index |-> U64, validator_index |-> U64, address |-> Address, amount |-> U64],
           <<"index", "validator_index", "address", "amount">>)

OmmerHeader == Struct([beneficiary |-> Address, number |-> U64], <<"beneficiary", "number">>)

TransactionReceipt ==
    Struct([transaction_type |-> TxType, post_state_or_status |-> Status,
            cumulative_gas_used |-> U64, logs |-> ListOf(Log)], <<>>)

StatusOf(n) == [tag |-> "status", val |-> n]
PostState(hash) == [tag |-> "post_state", val |-> hash]

-----------------------------------------------------------------------------
HeaderFields ==
    [parent_hash |-> Hash, ommers_hash |-> Hash, beneficiary |-> Address,
     state_root |-> Hash, transactions_root |-> Hash, receipts_root |-> Hash,
     logs_bloom |-> Bloom, difficulty |-> U256, number |-> U64, gas_limit |-> U64,
     gas_used |-> U64, timestamp |-> U64, extra_data |-> Bytes, prev_randao |-> Hash,
     nonce |-> Fixed(U64Size), base_fee_per_gas |-> Option(U256),
     withdrawals_root |-> Option(Hash), blob_gas_used |-> Option(U64),
     excess_blob_gas |-> Option(U64), parent_beacon_block_root |-> Option(Hash),
     requests_hash |-> Option(Hash)]

(* Blocks.  A block shares the fields that are not derived with its        *)
(* header, the difficulty as a u64.                                        *)
Derived == {"transactions_root", "receipts_root", "logs_bloom", "gas_used", "difficulty"}

SharedFields == [f \in DOMAIN HeaderFields \ Derived |-> HeaderFields[f]]

OwnFields ==
    [difficulty |-> U64, transactions |-> ListOf(Transaction),
     receipts |-> ListOf(TransactionReceipt), withdrawals |-> ListOf(Withdrawal),
     ommer_headers |-> ListOf(OmmerHeader), verkle_state_root |-> Option(Hash),
     binary_state_root |-> Option(Hash)]

Block ==
    Struct([f \in DOMAIN SharedFields \cup DOMAIN OwnFields |->
               IF f \in DOMAIN OwnFields THEN OwnFields[f] ELSE SharedFields[f]], <<>>)
=============================================================================

---------------------------- MODULE Transactions ----------------------------
(***************************************************************************)
(* Transactions (bertha-types/src/transaction).  A Transaction has the     *)
(* fields of all transaction types.  What is hashed, and what JSON shows,  *)
(* is the payload of its own type; the other fields do not survive.        *)
(*                                                                         *)
(* The payload types share the names of the fields with Transaction (w of  *)
(* LegacyTx is y_parity), so the conversions between them select fields.   *)
(***************************************************************************)
EXTENDS Codec, BlockTypes, SequencesExt

(* The default value of a kind; all zeros of a fixed size are written 0. *)
DefaultOf(kind) ==
    CASE kind.k = "list" -> <<>>
      [] kind.k = "bytes" -> EmptyString
      [] kind.k = "option" -> None
      [] OTHER -> 0

(* impl Default: the address is zero, not absent. *)
DefaultTransaction ==
    [f \in DOMAIN Transaction.fields |->
        IF f = "to" THEN 0 ELSE DefaultOf(Transaction.fields[f])]

-----------------------------------------------------------------------------
(* The payloads. *)
Payload(order) ==
    Struct([f \in Range(order) |-> Transaction.fields[f]], order)

WithMandatoryTo(payload) == [payload EXCEPT !.fields.to = Address]

LegacyTx ==
    Payload(<<"nonce", "gas_price", "gas_limit", "to", "value", "data",
              "y_parity", "r", "s">>)

AccessListTx ==
    Payload(<<"chain_id", "nonce", "gas_price", "gas_limit", "to", "value", "data",
              "access_list", "y_parity", "r", "s">>)

DynamicFeeTx ==
    Payload(<<"chain_id", "nonce", "max_priority_fee_per_gas", "max_fee_per_gas",
              "gas_limit", "to", "value", "data", "access_list", "y_parity", "r", "s">>)

BlobTx ==
    WithMandatoryTo(
    Payload(<<"chain_id", "nonce", "max_priority_fee_per_gas", "max_fee_per_gas",
              "gas_limit", "to", "value", "data", "access_list", "max_fee_per_blob_gas",
              "blob_versioned_hashes", "y_parity", "r", "s">>))

SetCodeTx ==
    WithMandatoryTo(
    Payload(<<"chain_id", "nonce", "max_priority_fee_per_gas", "max_fee_per_gas",
              "gas_limit", "to", "value", "data", "access_list", "authorization_list",
              "y_parity", "r", "s">>))

PayloadOf(type) == <<LegacyTx, AccessListTx, DynamicFeeTx, BlobTx, SetCodeTx>>[type + 1]

(* Transaction::is_valid. *)
IsValid(tx) == PayloadOf(tx.transaction_type).fields.to = Address => tx.to # None

(* From<LegacyTx> and the others: fields outside of the payload are zero. *)
FromPayload(type, p) ==
    [f \in DOMAIN DefaultTransaction |->
        IF f = "transaction_type" THEN type
        ELSE IF f \in DOMAIN p THEN p[f] ELSE DefaultTransaction[f]]

-----------------------------------------------------------------------------
(* EIP-2718: a type byte, none for a legacy transaction, and the payload.  *)
(* An invalid transaction becomes the empty string.                        *)
TypedItem(type, item) == [type |-> type, item |-> item]

(* Mutation: the blob fees are not encoded. *)
MarshalWithoutBlobFee(tx) ==
    TypedItem(tx.transaction_type,
              Encode(PayloadOf(tx.transaction_type), [tx EXCEPT !.max_fee_per_blob_gas = 0]))

Marshal(tx) ==
    IF IsValid(tx)
    THEN TypedItem(tx.transaction_type, Encode(PayloadOf(tx.transaction_type), tx))
    ELSE TypedItem(0, EmptyString)

Unmarshal(buf) ==
    IF buf = None \/ buf.type \notin TransactionTypes THEN Err
    ELSE LET p == Decode(PayloadOf(buf.type), buf.item)
         IN  IF p.ok THEN Ok(FromPayload(buf.type, p.val)) ELSE Err

-----------------------------------------------------------------------------
(* JSON-RPC.  Serialising shows the type and its payload, where an absent  *)
(* recipient is left out; a dynamic fee transaction has no gas price then, *)
(* which deserialising requires.                                           *)
TransactionToJson(tx) ==
    LET payload == PayloadOf(tx.transaction_type)
        shown == {f \in DOMAIN payload.fields : tx[f] # None}
    IN  IF IsValid(tx)
        THEN Ok([f \in shown \union {"transaction_type"} |-> ToJson(Transaction.fields[f], tx[f])])
        ELSE Err

RequiredInJson ==
    {"transaction_type", "nonce", "gas_price", "gas_limit", "value", "data",
     "y_parity", "r", "s"}

DeserializeNull == {"blob_versioned_hashes", "max_fee_per_blob_gas"}

TransactionFromJson(j) ==
    LET Field(f) ==
            IF f \notin DOMAIN j
            THEN IF f \in RequiredInJson THEN Err ELSE Ok(DefaultOf(Transaction.fields[f]))
            ELSE IF j[f] = None /\ f \in DeserializeNull
                 THEN Ok(DefaultOf(Transaction.fields[f]))
                 ELSE FromJson(Transaction.fields[f], j[f])
        tx == Collect([f \in DOMAIN Transaction.fields |-> Field(f)])
    IN  IF tx.ok THEN (IF IsValid(tx.val) THEN tx ELSE Err) ELSE Err
=============================================================================

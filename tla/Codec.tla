------------------------------- MODULE Codec -------------------------------
(***************************************************************************)
(* Two encodings of block data: RLP (rlp_utils.rs, u256.rs and the derives *)
(* of alloy_rlp) and hex strings in JSON (hex_convert.rs, as_hex.rs and    *)
(* the derives of serde).  What a derive does for a Rust type is a         *)
(* function of its kind.                                                   *)
(*                                                                         *)
(* An RLP list has items, a JSON object is a function of the names of its  *)
(* fields, without renaming to camel case.  A hex string is its number of  *)
(* digits, its content and whether it has digits only.                     *)
(***************************************************************************)
EXTENDS Kinds

(* The fewest digits of the given radix that hold n, none for zero. *)
Digits(n, radix) == CHOOSE d \in 0 .. 2 * U256Size : n < radix ^ d /\ \A e \in 0 .. d - 1 : n >= radix ^ e

List(items) == [items |-> items]
IsList(item) == "items" \in DOMAIN item

(* U256::to_least_significant_u64. *)
ToLeastSignificantU64(n) == n % Limit(U64Size)

-----------------------------------------------------------------------------
(* RLP.  Numbers have no leading zeros. *)
EncodeInt(n) == StringOf(Digits(n, Radix), n)

(* alloy_rlp refuses leading zeros of a u64, U256::decode does not. *)
DecodeInt(size, s) ==
    IF s.val < Limit(size) /\ (size = U256Size \/ s.len = Digits(s.val, Radix))
    THEN Ok(s.val) ELSE Err

(* RlpNil: None is the empty string. *)
EncodeNil(encoded, x) == IF x = None THEN EmptyString ELSE encoded
IsNil(item) == ~IsList(item) /\ item.len = 0

RECURSIVE Encode(_, _)
Encode(kind, x) ==
    CASE kind.k = "uint" -> EncodeInt(x)
      [] kind.k = "fixed" -> StringOf(kind.size, x)
      [] kind.k = "bytes" -> x
      [] kind.k = "option" -> EncodeNil(Encode(kind.of, x), x)
      [] kind.k = "list" -> List([i \in DOMAIN x |-> Encode(kind.of, x[i])])
      [] kind.k = "struct" ->
             List([i \in DOMAIN kind.order |->
                      Encode(kind.fields[kind.order[i]], x[kind.order[i]])])

RECURSIVE Decode(_, _)
Decode(kind, item) ==
    CASE kind.k = "option" ->
             IF IsNil(item) THEN Ok(None) ELSE Decode(kind.of, item)
      [] kind.k = "list" ->
             IF IsList(item)
             THEN Collect([i \in DOMAIN item.items |-> Decode(kind.of, item.items[i])])
             ELSE Err
      [] kind.k = "struct" ->
             IF IsList(item) /\ Len(item.items) = Len(kind.order)
             THEN Collect([f \in DOMAIN kind.fields |->
                     LET i == CHOOSE j \in DOMAIN kind.order : kind.order[j] = f
                     IN  Decode(kind.fields[f], item.items[i])])
             ELSE Err
      [] IsList(item) -> Err
      [] kind.k = "uint" -> DecodeInt(kind.size, item)
      [] kind.k = "fixed" -> IF item.len = kind.size THEN Ok(item.val) ELSE Err
      [] kind.k = "bytes" -> Ok(item)

(* The optional fields at the end of a structure, #[rlp(trailing)]: they   *)
(* are left out after the last one that is set.                            *)
EncodeTrailing(kind, x) ==
    LET all == Encode(kind, x).items
        set == {i \in DOMAIN all : kind.fields[kind.order[i]].k # "option"
                                       \/ x[kind.order[i]] # None}
    IN  List(SubSeq(all, 1, CHOOSE i \in set : \A j \in set : j <= i))

DecodeTrailing(kind, item) ==
    LET n == Len(kind.order)
        pad == [i \in 1 .. n |-> IF i <= Len(item.items) THEN item.items[i] ELSE EmptyString]
    IN  IF IsList(item) /\ Len(item.items) <= n THEN Decode(kind, List(pad)) ELSE Err

-----------------------------------------------------------------------------
(* Hex strings. *)
Hex(digits, x) == [digits |-> digits, val |-> x, clean |-> TRUE]

IntToHex(n) == Hex(IF n = 0 THEN 1 ELSE Digits(n, Digit), n)
IntFromHex(size, h) ==
    IF h.clean /\ h.digits > 0 /\ h.val < Limit(size) THEN Ok(h.val) ELSE Err

ArrayToHex(size, x) == Hex(2 * size, x)
ArrayFromHex(size, h) ==
    IF h.clean /\ h.digits = 2 * size THEN Ok(h.val) ELSE Err

BytesToHex(b) == Hex(2 * b.len, b.val)
BytesFromHex(h) ==
    IF h.clean /\ h.digits % 2 = 0 THEN Ok(StringOf(h.digits \div 2, h.val)) ELSE Err

TransactionTypeFromHex(h) ==
    LET n == IntFromHex(1, h) IN IF n.ok THEN TryFromU8(n.val) ELSE Err

RECURSIVE ToJson(_, _)
ToJson(kind, x) ==
    CASE kind.k \in {"uint", "type"} -> IntToHex(x)
      [] kind.k = "fixed" -> ArrayToHex(kind.size, x)
      [] kind.k = "bytes" -> BytesToHex(x)
      [] kind.k = "option" -> IF x = None THEN None ELSE ToJson(kind.of, x)
      [] kind.k = "list" -> [i \in DOMAIN x |-> ToJson(kind.of, x[i])]
      [] kind.k = "struct" -> [f \in DOMAIN kind.fields |-> ToJson(kind.fields[f], x[f])]

(* A field that is absent or null is an error, unless it is an Option. *)
RECURSIVE FromJson(_, _)
FromJson(kind, j) ==
    CASE kind.k = "option" -> IF j = None THEN Ok(None) ELSE FromJson(kind.of, j)
      [] j = None -> Err
      [] kind.k = "uint" -> IntFromHex(kind.size, j)
      [] kind.k = "type" -> TransactionTypeFromHex(j)
      [] kind.k = "fixed" -> ArrayFromHex(kind.size, j)
      [] kind.k = "bytes" -> BytesFromHex(j)
      [] kind.k = "list" -> Collect([i \in DOMAIN j |-> FromJson(kind.of, j[i])])
      [] kind.k = "struct" ->
             Collect([f \in DOMAIN kind.fields |->
                 FromJson(kind.fields[f], IF f \in DOMAIN j THEN j[f] ELSE None)])
=============================================================================

------------------------------- MODULE Kinds --------------------------------
(***************************************************************************)
(* What the encodings of block data have in common: the kinds of Rust      *)
(* types, a description of which an encoding is a function, and results.   *)
(*                                                                         *)
(* A byte string is its length and its content.                            *)
(***************************************************************************)
EXTENDS Integers, Sequences

CONSTANTS
    Digit,        \* the values of a hex digit
    U64Size,      \* the bytes of a u64, of which a few stand for eight
    U256Size,
    AddressSize,
    HashSize,
    BloomSize,
    None          \* Option::None, null and an absent message field

ASSUME CodecAssumption ==
    /\ {Digit, U64Size, U256Size, AddressSize, HashSize, BloomSize} \subseteq Nat
    /\ Digit > 2 /\ U64Size > 1 /\ U256Size > U64Size

Radix == Digit * Digit

-----------------------------------------------------------------------------
(* Results. *)
Ok(x) == [ok |-> TRUE, val |-> x]
Err == [ok |-> FALSE, val |-> None]

(* Iterator::collect into a Result: all values, or an error. *)
Collect(results) ==
    IF \A i \in DOMAIN results : results[i].ok
    THEN Ok([i \in DOMAIN results |-> results[i].val])
    ELSE Err

-----------------------------------------------------------------------------
(* Kinds. *)
UInt(size) == [k |-> "uint", size |-> size]
Fixed(size) == [k |-> "fixed", size |-> size]
U8 == UInt(1)
U64 == UInt(U64Size)
U256 == UInt(U256Size)
Address == Fixed(AddressSize)
Hash == Fixed(HashSize)
Bloom == Fixed(BloomSize)
Bytes == [k |-> "bytes"]
TxType == [k |-> "type"]
Status == [k |-> "status"]
ListOf(kind) == [k |-> "list", of |-> kind]
Option(kind) == [k |-> "option", of |-> kind]
(* The fields, with their kinds, and their order. *)
Struct(fields, order) == [k |-> "struct", fields |-> fields, order |-> order]

Limit(size) == Radix ^ size

EmptyString == [len |-> 0, val |-> 0]
StringOf(size, x) == [len |-> size, val |-> x]

(* TransactionType: 0 legacy, 1 access list, 2 dynamic fee, 3 blob, 4 set  *)
(* code.                                                                   *)
TransactionTypes == 0 .. 4
TryFromU8(n) == IF n \in TransactionTypes THEN Ok(n) ELSE Err
=============================================================================

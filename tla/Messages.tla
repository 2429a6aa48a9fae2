------------------------------ MODULE Messages ------------------------------
(***************************************************************************)
(* The message in which the block database keeps a block (db/proto.rs).  A *)
(* u64 is a number, all that is longer or of a fixed size is a byte        *)
(* string, whose size is checked by the conversion back.                   *)
(*                                                                         *)
(* Structures nest three deep: those of flat fields (access list entries,  *)
(* authorizations, logs, withdrawals, ommers), those with lists of flat    *)
(* ones (transactions, receipts), and blocks, with lists of both.  A       *)
(* message is a function of the names of its fields.                       *)
(***************************************************************************)
EXTENDS BlockTypes

HoldsStructs(kind) == kind.k = "list" /\ kind.of.k = "struct"

(* An integer that a field of a message has room for. *)
IsNumber(kind) == kind.k = "uint" /\ kind # U256

-----------------------------------------------------------------------------
(* From: numbers, byte strings, enums; options and lists of them. *)
LeafIntoMessage(kind, x) ==
    CASE kind = U256 -> StringOf(U256Size, x)
      [] kind.k = "fixed" -> StringOf(kind.size, x)
      [] IsNumber(kind) \/ kind.k \in {"type", "bytes"} -> x
      [] kind.k = "status" ->
             IF x.tag = "status" THEN x ELSE [x EXCEPT !.val = StringOf(HashSize, x.val)]

FieldIntoMessage(kind, x) ==
    CASE kind.k = "option" -> IF x = None THEN None ELSE LeafIntoMessage(kind.of, x)
      [] kind.k = "list" -> [i \in DOMAIN x |-> LeafIntoMessage(kind.of, x[i])]
      [] OTHER -> LeafIntoMessage(kind, x)

FlatIntoMessage(kind, x) ==
    [f \in DOMAIN kind.fields |-> FieldIntoMessage(kind.fields[f], x[f])]

NestedFieldIntoMessage(kind, x) ==
    IF HoldsStructs(kind)
    THEN [i \in DOMAIN x |-> FlatIntoMessage(kind.of, x[i])]
    ELSE FieldIntoMessage(kind, x)

NestedIntoMessage(kind, x) ==
    [f \in DOMAIN kind.fields |-> NestedFieldIntoMessage(kind.fields[f], x[f])]

BlockFieldIntoMessage(kind, x) ==
    IF HoldsStructs(kind)
    THEN [i \in DOMAIN x |-> NestedIntoMessage(kind.of, x[i])]
    ELSE FieldIntoMessage(kind, x)

BlockIntoMessage(block) ==
    [f \in DOMAIN Block.fields |-> BlockFieldIntoMessage(Block.fields[f], block[f])]

-----------------------------------------------------------------------------
(* Mutation: the size is not checked. *)
ConvertAnySize(size, s) == Ok(s.val)

ConvertToFixedSize(size, s) == IF s.len = size THEN Ok(s.val) ELSE Err

ConvertToU256(s) == ConvertToFixedSize(U256Size, s)

(* TryFrom. *)
LeafFromMessage(kind, m) ==
    CASE kind = U256 -> ConvertToU256(m)
      [] kind.k = "fixed" -> ConvertToFixedSize(kind.size, m)
      [] IsNumber(kind) -> IF m < Limit(kind.size) THEN Ok(m) ELSE Err
      [] kind.k = "type" -> IF m < Radix THEN TryFromU8(m) ELSE Err
      [] kind.k = "bytes" -> Ok(m)
      [] kind.k = "status" ->
             IF m = None THEN Err
             ELSE IF m.tag = "status" THEN Ok(m)
             ELSE LET h == ConvertToFixedSize(HashSize, m.val)
                  IN  IF h.ok THEN Ok([m EXCEPT !.val = h.val]) ELSE Err

FieldFromMessage(kind, m) ==
    CASE kind.k = "option" -> IF m = None THEN Ok(None) ELSE LeafFromMessage(kind.of, m)
      [] kind.k = "list" -> Collect([i \in DOMAIN m |-> LeafFromMessage(kind.of, m[i])])
      [] OTHER -> LeafFromMessage(kind, m)

FlatFromMessage(kind, m) ==
    Collect([f \in DOMAIN kind.fields |-> FieldFromMessage(kind.fields[f], m[f])])

NestedFieldFromMessage(kind, m) ==
    IF HoldsStructs(kind)
    THEN Collect([i \in DOMAIN m |-> FlatFromMessage(kind.of, m[i])])
    ELSE FieldFromMessage(kind, m)

NestedFromMessage(kind, m) ==
    Collect([f \in DOMAIN kind.fields |-> NestedFieldFromMessage(kind.fields[f], m[f])])

BlockFieldFromMessage(kind, m) ==
    IF HoldsStructs(kind)
    THEN Collect([i \in DOMAIN m |-> NestedFromMessage(kind.of, m[i])])
    ELSE FieldFromMessage(kind, m)

BlockTryFromMessage(m) ==
    Collect([f \in DOMAIN Block.fields |-> BlockFieldFromMessage(Block.fields[f], m[f])])

-----------------------------------------------------------------------------
(* The values of a type, which the compiler sees to in the code: integers  *)
(* within their width, the variants of an enum, and all fields.  A byte    *)
(* string, or what is left of it, is not taken for an absent one.          *)
IsString(size, x) == size \in Nat \ {0} /\ \A n \in 0 .. size : StringOf(n, x) # None

IsLeaf(kind, x) ==
    \/ /\ kind.k = "uint" /\ x \in Nat /\ x < Limit(kind.size)
       /\ IsString(kind.size, x)
    \/ kind.k = "type" /\ x \in TransactionTypes
    \/ kind.k = "fixed" /\ IsString(kind.size, x)
    \/ kind.k = "bytes"
    \/ /\ kind.k = "status"
       /\ x \in {StatusOf(x.val), PostState(x.val)}
       /\ None \notin {x, PostState(StringOf(HashSize, x.val))}

IsVec(x) == x = [i \in 1 .. Len(x) |-> x[i]]

IsField(kind, x) ==
    \/ /\ kind.k = "option"
       /\ x # None => /\ kind.of \in {U64, U256} \/ kind.of.k = "fixed"
                      /\ IsLeaf(kind.of, x)
    \/ kind.k = "list" /\ IsVec(x) /\ \A i \in DOMAIN x : IsLeaf(kind.of, x[i])
    \/ IsLeaf(kind, x)

HasFields(kind, x) == x = [f \in DOMAIN kind.fields |-> x[f]]

IsFlat(kind, x) ==
    HasFields(kind, x) /\ \A f \in DOMAIN kind.fields : IsField(kind.fields[f], x[f])

IsNestedField(kind, x) ==
    IF HoldsStructs(kind) THEN IsVec(x) /\ \A i \in DOMAIN x : IsFlat(kind.of, x[i])
    ELSE IsField(kind, x)

IsNested(kind, x) ==
    HasFields(kind, x) /\ \A f \in DOMAIN kind.fields : IsNestedField(kind.fields[f], x[f])

IsBlockField(kind, x) ==
    IF HoldsStructs(kind) THEN IsVec(x) /\ \A i \in DOMAIN x : IsNested(kind.of, x[i])
    ELSE IsField(kind, x)

IsBlock(x) ==
    HasFields(Block, x) /\ \A f \in DOMAIN Block.fields : IsBlockField(Block.fields[f], x[f])
=============================================================================

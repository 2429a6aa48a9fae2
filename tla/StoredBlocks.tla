---------------------------- MODULE StoredBlocks ----------------------------
(***************************************************************************)
(* A block in the database (db/blockdb.rs, db/proto.rs): it is put into    *)
(* the database of a server as a message, copied to that of a client as    *)
(* raw bytes, and read there.  A copy may be damaged: one of the byte      *)
(* strings in the message is shorter.                                      *)
(***************************************************************************)
EXTENDS Messages

CONSTANT TypedBlocks   \* values of the type Block

ASSUME TypedBlocksAssumption == None # "db" /\ \A b \in TypedBlocks : IsBlock(b)

VARIABLES
    mem,       \* the block in memory, or the error
    via,       \* what it was decoded from last
    stored,    \* the block that was put into the database of the server
    messages,  \* the messages there
    copies,    \* and those in the database of the client
    damaged    \* whether a copy differs

databases == <<stored, messages, copies, damaged>>
storedVars == <<mem, via, databases>>

StoredInit ==
    /\ mem = Err /\ via = None /\ stored = None
    /\ messages = {} /\ copies = {} /\ damaged = FALSE

(* A command has a block, or an error, from something other than the       *)
(* database: a file, a server, or JSON text.                               *)
Origins == {"rpc", "g", "era1", "erae", "era", "json"}

Obtain(result, origin) == mem' = result /\ via' = origin /\ UNCHANGED databases

(* BlockDb::put encodes the block. *)
Put ==
    /\ mem.ok /\ messages = {}
    /\ stored' = mem.val
    /\ messages' = {BlockIntoMessage(mem.val)}
    /\ UNCHANGED <<mem, via, copies, damaged>>

(* The server sends the bytes as they are and the client stores them so. *)
FetchBytes ==
    /\ messages # {} /\ copies = {}
    /\ copies' = messages
    /\ UNCHANGED <<mem, via, stored, messages, damaged>>

SizedFields(struct, m) ==
    {f \in DOMAIN struct.fields :
        /\ m[f] # None
        /\ struct.fields[f] = U256 \/ struct.fields[f].k = "fixed"
               \/ (struct.fields[f].k = "option" /\ struct.fields[f].of # U64)}

Shortened(s) == [s EXCEPT !.len = s.len - 1]

FetchDamaged ==
    /\ copies = {}
    /\ \E m \in messages :
          \/ \E f \in SizedFields(Block, m) :
                copies' = {[m EXCEPT ![f] = Shortened(@)]}
          \/ \E i \in DOMAIN m.transactions :
                \E f \in SizedFields(Transaction, m.transactions[i]) :
                   copies' = {[m EXCEPT !.transactions[i][f] = Shortened(@)]}
    /\ damaged' = TRUE
    /\ UNCHANGED <<mem, via, stored, messages>>

(* BlockDb::get decodes the bytes. *)
Get ==
    /\ \E m \in copies : mem' = BlockTryFromMessage(m)
    /\ via' = "db"
    /\ UNCHANGED databases

StoredNext ==
    \/ \E result \in {Ok(block) : block \in TypedBlocks} \cup {Err}, origin \in Origins :
          Obtain(result, origin)
    \/ Put \/ FetchBytes \/ FetchDamaged \/ Get

StoredSpec == StoredInit /\ [][StoredNext]_storedVars

-----------------------------------------------------------------------------
(* A block that is stored is one of its type, with all integers in their   *)
(* width, whichever source it was read from, and BlockDb::get returns the  *)
(* block that was put, in every field, after its bytes went to another     *)
(* database; bytes that were damaged on the way are an error there and     *)
(* never another block.                                                    *)
StoredBlockSurvives ==
    /\ messages # {} => IsBlock(stored)
    /\ via = "db" => IF damaged THEN ~mem.ok ELSE mem.ok /\ mem.val = stored
=============================================================================

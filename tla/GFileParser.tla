---------------------------- MODULE GFileParser -----------------------------
(***************************************************************************)
(* The lazy parser of genesis files (genesis-parser/src/g_file): the units *)
(* of the file are listed, the unit of the blocks is opened, and blocks    *)
(* are decoded from a buffer that a SliceReader refills from the           *)
(* decompressed stream.                                                    *)
(*                                                                         *)
(* Of the bytes only their positions matter.  A block takes the positions  *)
(* [from, to) of the stream and is good, garbled (not decodable) or unfit  *)
(* (decodable, but its receipts are not).  The stream of a cut file fails  *)
(* where the bytes end.                                                    *)
(***************************************************************************)
EXTENDS Integers, Sequences, FiniteSetsExt

CONSTANTS
    GFiles,          \* the files: [units, blocks, cut, memory]
    BufferSize,      \* MAX_MEM_USAGE, also the limit of pieces and hashes
    MinSliceSize,    \* half of it
    NoHeader         \* no header was read yet

(* The position behind the first k blocks of the file f. *)
EndOf(f, k) == IF k = 0 THEN 0 ELSE f.blocks[k].to

GFileBlock == [from : Nat, to : Nat, kind : {"good", "garbled", "unfit"}]

(* The blocks lie one behind the other from position 0 on. *)
LaidOut(f) ==
    /\ f.blocks \in Seq(GFileBlock)
    /\ f.cut \in 0 .. EndOf(f, Len(f.blocks))
    /\ \A i \in DOMAIN f.blocks :
          /\ f.blocks[i].from = EndOf(f, i - 1)
          /\ f.blocks[i].from < f.blocks[i].to
          /\ \A j \in 1 .. i - 1 : f.blocks[j].to <= f.blocks[i].from

ASSUME GFileAssumption ==
    /\ BufferSize \in Nat /\ MinSliceSize \in 1 .. BufferSize
    /\ \A f \in GFiles : LaidOut(f)

VARIABLES
    file,         \* the file that is parsed
    phase,        \* "units", "open", "blocks" or "done"
    unit,         \* the units read so far
    first_header, \* the header of the first
    names,        \* the names of the units
    failure,      \* the error of GFile::parse
    buffer,       \* the positions [from, to) of the stream that are buffered
    buffer_idx,   \* the bytes of the buffer that were consumed
    reader_empty,
    error,        \* BlockParser.error
    yielded       \* the items of the iterator: the number of the block, and whether it is Ok

gfileVars ==
    <<file, phase, unit, first_header, names, failure, buffer, buffer_idx, reader_empty, error, yielded>>

GFileInit ==
    /\ file \in GFiles
    /\ phase = "units" /\ unit = 0 /\ first_header = NoHeader /\ names = {}
    /\ failure = "none" /\ buffer = [from |-> 0, to |-> 0] /\ buffer_idx = 0
    /\ reader_empty = FALSE /\ error = FALSE /\ yielded = <<>>

Fail(reason) ==
    /\ failure' = reason /\ phase' = "done"
    /\ UNCHANGED <<file, unit, first_header, names, buffer, buffer_idx, reader_empty, error, yielded>>

-----------------------------------------------------------------------------
(* GFile::parse. *)

(* read_file_header: the magic and the version, each of which may be cut. *)
HeaderError(u) ==
    CASE u.magic = "short" \/ (u.magic = "good" /\ u.version = "short") -> "HeaderMissing"
      [] u.magic = "bad" -> "InvalidHeader"
      [] u.magic = "good" /\ u.version = "bad" -> "InvalidFileVersion"
      [] OTHER -> "none"

(* parse_unit: the description is decoded from the next bytes. *)
UnitError(u) == IF u.decodable THEN "none" ELSE "Rlp"

MetadataError(u) ==
    IF HeaderError(u) # "none" THEN HeaderError(u)
    ELSE IF UnitError(u) # "none" THEN UnitError(u)
    ELSE IF first_header # NoHeader /\ first_header # u.header THEN "HeaderMismatch"
    ELSE IF ~u.complete THEN "Io"
    ELSE "none"

(* One pass of the loop of parse_metadata. *)
ParseUnit ==
    /\ phase = "units" /\ unit < Len(file.units)
    /\ LET u == file.units[unit + 1]
       IN  IF MetadataError(u) # "none" THEN Fail(MetadataError(u))
           ELSE /\ unit' = unit + 1
                /\ first_header' = u.header
                /\ names' = names \union {u.name}
                /\ UNCHANGED <<file, phase, failure, buffer, buffer_idx, reader_empty,
                               error, yielded>>

FinishMetadata ==
    /\ phase = "units" /\ unit = Len(file.units)
    /\ IF first_header = NoHeader THEN Fail("HeaderMissing")
       ELSE /\ phase' = "open"
            /\ UNCHANGED <<file, unit, first_header, names, failure, buffer, buffer_idx,
                           reader_empty, error, yielded>>

(* BlockParser::try_new: only the unit "brs" is used. *)
TryNew ==
    /\ phase = "open"
    /\ IF "brs" \notin names THEN Fail("BlocksUnitMissing")
       ELSE IF file.memory > BufferSize THEN Fail("PieceSizeTooLarge")
       ELSE /\ phase' = "blocks"
            /\ UNCHANGED <<file, unit, first_header, names, failure, buffer, buffer_idx,
                           reader_empty, error, yielded>>

-----------------------------------------------------------------------------
(* The stream: how many bytes there are, and the block at a position. *)
StreamEnd == EndOf(file, Len(file.blocks)) - file.cut
BlockAt(position) == CHOOSE i \in DOMAIN file.blocks : file.blocks[i].from = position
Size(i) == file.blocks[i].to - file.blocks[i].from

(* Mutation: the buffer is refilled when it is empty. *)
RefillWhenEmpty == buffer_idx >= buffer.to - buffer.from

NeedsRefill == buffer_idx + MinSliceSize >= buffer.to - buffer.from

(* SliceReader::fill_buffer: the rest of the buffer moves to its front,    *)
(* and as much is read as fits.  A read that finds nothing is the last.    *)
FillBuffer ==
    LET from == buffer.from + buffer_idx
        remaining == buffer.to - from
        to == Min({buffer.to + BufferSize - remaining, StreamEnd})
    IN  IF NeedsRefill /\ ~reader_empty
        THEN [buffer |-> [from |-> from, to |-> to], idx |-> 0, empty |-> to = buffer.to]
        ELSE [buffer |-> buffer, idx |-> buffer_idx, empty |-> reader_empty]

(* The decompression of a cut file fails when the bytes run out. *)
ReadFails == NeedsRefill /\ ~reader_empty /\ file.cut > 0
                 /\ buffer.from + buffer_idx + BufferSize > StreamEnd

(* IdxFullBlock::decode of the slice that starts at a position. *)
Decodable(i, slice) == file.blocks[i].kind # "garbled" /\ Size(i) <= slice

(* Mutation: less than the smallest slice is taken for the end. *)
LittleLeft(slice) == slice < MinSliceSize

NothingLeft(slice) == slice = 0

Yield(n, ok) == yielded' = Append(yielded, [block |-> n, ok |-> ok])

(* BlockParser::next, with SliceReader::process_with.  A block that does   *)
(* not decode ends the iteration, one that is not converted does not.      *)
NextBlock ==
    /\ phase = "blocks" /\ ~error
    /\ IF ReadFails
       THEN /\ error' = TRUE /\ Yield(0, FALSE)
            /\ UNCHANGED <<phase, buffer, buffer_idx, reader_empty>>
       ELSE LET filled == FillBuffer
                position == filled.buffer.from + filled.idx
                slice == filled.buffer.to - position
                i == BlockAt(position)
            IN  /\ buffer' = filled.buffer /\ reader_empty' = filled.empty
                /\ \/ /\ NothingLeft(slice)
                      /\ phase' = "done" /\ buffer_idx' = filled.idx
                      /\ UNCHANGED <<error, yielded>>
                   \/ /\ ~NothingLeft(slice) /\ Decodable(i, slice)
                      /\ buffer_idx' = filled.idx + Size(i)
                      /\ Yield(i, file.blocks[i].kind = "good")
                      /\ UNCHANGED <<phase, error>>
                   \/ /\ ~NothingLeft(slice) /\ ~Decodable(i, slice)
                      /\ error' = TRUE /\ buffer_idx' = filled.idx
                      /\ Yield(i, FALSE)
                      /\ UNCHANGED phase
    /\ UNCHANGED <<file, unit, first_header, names, failure>>

(* After an error there are no more items. *)
NextAfterError ==
    /\ phase = "blocks" /\ error
    /\ phase' = "done"
    /\ UNCHANGED <<file, unit, first_header, names, failure, buffer, buffer_idx, reader_empty,
                   error, yielded>>

GFileNext == ParseUnit \/ FinishMetadata \/ TryNew \/ NextBlock \/ NextAfterError

GFileSpec == GFileInit /\ [][GFileNext]_gfileVars

-----------------------------------------------------------------------------
(* SliceReader hands out every byte once and in order: the item at a       *)
(* position is the block at that position, whatever the sizes of blocks    *)
(* and buffer are, and there is an error only for a block that is bad,     *)
(* larger than the smallest slice, or not in the file.                     *)
BlocksInOrder ==
    \A i \in DOMAIN yielded :
        /\ yielded[i].block \in {0, i}
        /\ ~yielded[i].ok => \/ file.cut > 0
                             \/ file.blocks[i].kind # "good"
                             \/ Size(i) > MinSliceSize

(* An iteration of BlockParser that ends without an error has yielded all  *)
(* blocks of the file: an import never takes a part for the whole.         *)
EndsWithAllBlocks ==
    (phase = "done" /\ failure = "none" /\ ~error) => Len(yielded) = Len(file.blocks)

(* The documentation of BlockParser (block_parser.rs:34): "Once an error   *)
(* was returned, the iterator will not yield any more blocks."  It does    *)
(* after a block that can be decoded and not converted, whose error        *)
(* next() does not remember.                                               *)
NothingAfterError == \A i \in 1 .. Len(yielded) - 1 : yielded[i].ok
=============================================================================

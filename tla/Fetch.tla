-------------------------------- MODULE Fetch --------------------------------
(***************************************************************************)
(* The fetch command (blockservice/src/cmd/fetch.rs) with the server that  *)
(* answers it (grpc/server.rs), for one chain.                             *)
(*                                                                         *)
(* The client asks for the server's ranges once, plans what to fetch, and  *)
(* then requests range after range; it stores every block by itself as it  *)
(* arrives.  The server reads its database again for every request: in a   *)
(* task of its own, through an iterator that sees the database as of its   *)
(* creation, into a bounded channel.  In between the server's database     *)
(* grows, and the server may be stopped, blocks purged, and started again. *)
(* A connection may break and the client be killed at any time; the user   *)
(* may then run the command again.                                         *)
(*                                                                         *)
(* Both databases keep their list of ranges true to their blocks (module   *)
(* BlockDb), so the ranges are those of the stored blocks.                 *)
(***************************************************************************)
EXTENDS Ranges, Sequences

CONSTANTS
    MaxBlock,     \* the largest block number of the server
    Payload,      \* encoded blocks
    NoBlock,      \* no block stored
    ChannelSize,  \* STREAMING_RESPONSE_CHANNEL_SIZE
    ReadError,    \* an error in place of a block
    Last,         \* no `to` was given: the server's last block
    U64Max        \* u64::MAX

ASSUME FetchAssumption ==
    /\ MaxBlock \in Nat
    /\ U64Max \in Nat
    /\ U64Max > MaxBlock
    /\ ChannelSize \in Nat \ {0}
    /\ NoBlock \notin Payload
    /\ Last \notin Nat

VARIABLES
    db,       \* the client's blocks
    pc,       \* where the client is
    from, to, \* the range asked for
    todo,     \* ranges_to_fetch that are not finished
    range,    \* the one being fetched
    expected, \* expected_block
    outcome,  \* what the fetch that returns has to say
    remote,   \* the blocks the server's reader sees
    up,       \* whether the server runs
    task,     \* the server's task for the request: its state
    view,     \* what the task's iterator still has to yield
    chan      \* blocks on their way from the task to the client

client == <<db, pc, from, to, todo, range, expected, outcome>>
stream == <<task, view, chan>>
vars == <<client, remote, up, stream>>

Number == 0 .. MaxBlock
Contents == [Number -> Payload \cup {NoBlock}]
Empty == [n \in Number |-> NoBlock]
StoredIn(blocks) == {n \in Number : blocks[n] # NoBlock}
NoRange == <<0, 0>>

TypeOK ==
    /\ db \in Contents
    /\ pc \in {"idle", "list", "request", "stream", "return"}
    /\ from \in Number
    /\ to \in Number \cup {Last}
    /\ todo \subseteq Number \X Number
    /\ range \in Number \X Number
    /\ expected \in 0 .. MaxBlock + 1
    /\ outcome \in {"none", "ok", "nothing"}
    /\ remote \in Contents
    /\ up \in BOOLEAN
    /\ task \in {"none", "spawned", "sending", "closed", "broken"}
    /\ view \in Contents
    /\ chan \in Seq((Number \X Payload) \cup {ReadError})
    /\ Len(chan) <= ChannelSize

Init ==
    /\ db = Empty
    /\ pc = "idle"
    /\ from = 0 /\ to = Last
    /\ todo = {} /\ range = NoRange /\ expected = 0
    /\ outcome = "none"
    /\ remote = Empty
    /\ up = TRUE
    /\ task = "none" /\ view = Empty /\ chan = <<>>

-----------------------------------------------------------------------------
(* The server.  Its synchronisation adds the next block. *)
RemoteGrows(p) ==
    /\ up
    /\ \E n \in Number :
          /\ \A m \in Number : remote[m] # NoBlock => m < n
          /\ n # 0 => remote[n - 1] # NoBlock
          /\ remote' = [remote EXCEPT ![n] = p]
    /\ UNCHANGED <<client, up, stream>>

(* The server process ends.  Its tasks are dropped: the client sees the    *)
(* stream break or, if the channel's sender was dropped before the         *)
(* connection, end.                                                        *)
ServerStops ==
    /\ up
    /\ up' = FALSE
    /\ IF task \in {"spawned", "sending"}
       THEN \/ task' = "closed" /\ UNCHANGED chan
            \/ /\ task' = "broken"
               /\ \E k \in 0 .. Len(chan) : chan' = SubSeq(chan, 1, k)
       ELSE UNCHANGED <<task, chan>>
    /\ view' = Empty
    /\ UNCHANGED <<client, remote>>

(* It is started again, perhaps after a purge. *)
ServerStarts(lo, hi) ==
    /\ ~up
    /\ up' = TRUE
    /\ remote' = [n \in Number |-> IF n \in lo .. hi THEN NoBlock ELSE remote[n]]
    /\ UNCHANGED <<client, stream>>

(* get_block_range, in the spawned task: the iterator is created. *)
OpenIterator ==
    /\ task = "spawned"
    /\ task' = "sending"
    /\ view' = [n \in Number |-> IF n < range[1] THEN NoBlock ELSE remote[n]]
    /\ UNCHANGED <<client, remote, up, chan>>

(* The first block the iterator still has to yield. *)
IsNext(n) == n \in StoredIn(view) /\ \A m \in StoredIn(view) : n <= m

(* tx.send waits for room in the channel. *)
SendBlock(n) ==
    /\ task = "sending"
    /\ IsNext(n)
    /\ n <= range[2]
    /\ Len(chan) < ChannelSize
    /\ chan' = Append(chan, <<n, view[n]>>)
    /\ view' = [view EXCEPT ![n] = NoBlock]
    /\ UNCHANGED <<client, remote, up, task>>

(* Mutation: the task waits for blocks that are not there yet. *)
EndStreamAtEndOnly ==
    /\ task = "sending"
    /\ \E n \in StoredIn(view) : n > range[2]
    /\ task' = "closed"
    /\ view' = Empty
    /\ UNCHANGED <<client, remote, up, chan>>

(* The loop ends at a block above `to` or at the iterator's end, and the   *)
(* sender is dropped.                                                      *)
EndStream ==
    /\ task = "sending"
    /\ \A n \in StoredIn(view) : n > range[2]
    /\ task' = "closed"
    /\ view' = Empty
    /\ UNCHANGED <<client, remote, up, chan>>

(* Reading a block fails: the error is sent and the loop ends. *)
ReadFails ==
    /\ task = "sending"
    /\ StoredIn(view) # {}
    /\ Len(chan) < ChannelSize
    /\ chan' = Append(chan, ReadError)
    /\ task' = "closed"
    /\ view' = Empty
    /\ UNCHANGED <<client, remote, up>>

ServerTask ==
    \/ OpenIterator
    \/ \E n \in Number : SendBlock(n)
    \/ EndStream
    \/ ReadFails

-----------------------------------------------------------------------------
(* The client drops the stream: the task's next send fails and it ends. *)
DropStream ==
    /\ task' = "none"
    /\ view' = Empty
    /\ chan' = <<>>

(* The command ends, with an error unless outcome says otherwise. *)
Exit ==
    /\ pc' = "idle"
    /\ from' = 0 /\ to' = Last
    /\ todo' = {} /\ range' = NoRange /\ expected' = 0
    /\ outcome' = "none"
    /\ DropStream
    /\ UNCHANGED <<db, remote, up>>

Fetch(f, t) ==
    /\ pc = "idle"
    /\ pc' = "list"
    /\ from' = f /\ to' = t
    /\ UNCHANGED <<db, todo, range, expected, outcome, remote, up, stream>>

(* subtract_ranges(from..=to, local_ranges) *)
RangesToFetch(f, t, local) == SubtractRanges(<<f, t>>, Canonical(local))

(* The binary search over the sorted remote ranges: r lies in one of them. *)
Available(r, ranges) == \E q \in ranges : q[1] <= r[1] /\ r[2] <= q[2]

(* The answer to `list`, and everything up to the first request, which     *)
(* happens without waiting: only this process writes to the database.      *)
List ==
    /\ pc = "list"
    /\ up
    /\ StoredIn(remote) # {}
    /\ LET ranges == Canonical(StoredIn(remote))
           upTo == IF to = Last
                   THEN CHOOSE n \in StoredIn(remote) :
                            \A m \in StoredIn(remote) : m <= n
                   ELSE to
           missing == RangesToFetch(from, upTo, StoredIn(db))
       IN /\ from <= upTo
          /\ \A r \in missing : Available(r, ranges)
          /\ to' = upTo
          /\ todo' = missing
          /\ IF missing = {} THEN pc' = "return" /\ outcome' = "nothing"
                             ELSE pc' = "request" /\ outcome' = "none"
    /\ UNCHANGED <<db, from, range, expected, remote, up, stream>>

(* client.get_block_range for the first range that is left. *)
GetBlockRange(r) ==
    /\ pc = "request"
    /\ up
    /\ r \in todo
    /\ \A q \in todo : r[1] <= q[1]
    /\ pc' = "stream"
    /\ range' = r
    /\ expected' = r[1]
    /\ task' = "spawned"
    /\ view' = Empty
    /\ chan' = <<>>
    /\ UNCHANGED <<db, from, to, todo, outcome, remote, up>>

(* Mutation: the number of the block is not compared. *)
ReceiveAnyBlock ==
    /\ pc = "stream"
    /\ chan # <<>>
    /\ Head(chan) # ReadError
    /\ db' = [db EXCEPT ![Head(chan)[1]] = Head(chan)[2]]
    /\ expected' = Head(chan)[1] + 1
    /\ chan' = Tail(chan)
    /\ UNCHANGED <<pc, from, to, todo, range, outcome, remote, up, task, view>>

ReceiveBlock ==
    /\ pc = "stream"
    /\ chan # <<>>
    /\ Head(chan) # ReadError
    /\ Head(chan)[1] = expected
    /\ db' = [db EXCEPT ![expected] = Head(chan)[2]]
    /\ expected' = expected + 1
    /\ chan' = Tail(chan)
    /\ UNCHANGED <<pc, from, to, todo, range, outcome, remote, up, task, view>>

(* expected_block - 1, in u64 *)
LastReceived == (expected - 1) % (U64Max + 1)

(* Mutation: the number of received blocks is not compared. *)
EndRangeUnchecked ==
    /\ pc = "stream"
    /\ chan = <<>>
    /\ task = "closed"
    /\ todo' = todo \ {range}
    /\ IF todo' = {} THEN pc' = "return" /\ outcome' = "ok"
                     ELSE pc' = "request" /\ outcome' = "none"
    /\ DropStream
    /\ UNCHANGED <<db, from, to, range, expected, remote, up>>

(* The stream ends after the last block of the range. *)
EndRange ==
    /\ pc = "stream"
    /\ chan = <<>>
    /\ task = "closed"
    /\ LastReceived = range[2]
    /\ todo' = todo \ {range}
    /\ IF todo' = {} THEN pc' = "return" /\ outcome' = "ok"
                     ELSE pc' = "request" /\ outcome' = "none"
    /\ DropStream
    /\ UNCHANGED <<db, from, to, range, expected, remote, up>>

(* The fetch returns an error: from `list` or the plan, from               *)
(* get_block_range, or in the stream: a broken connection, an error of the *)
(* server, a block of another number, or too few blocks.                   *)
FetchFails ==
    /\ \/ pc \in {"list", "request"}
       \/ /\ pc = "stream"
          /\ IF chan = <<>>
             THEN \/ task = "broken"
                  \/ task = "closed" /\ LastReceived # range[2]
             ELSE Head(chan) # ReadError => Head(chan)[1] # expected
    /\ Exit

Return == pc = "return" /\ Exit

(* The connection breaks, or the client is killed. *)
ConnectionBreaks == pc = "stream" /\ Exit

ClientSteps ==
    \/ List
    \/ \E r \in todo : GetBlockRange(r)
    \/ ReceiveBlock
    \/ EndRange
    \/ FetchFails
    \/ Return

Next ==
    \/ \E p \in Payload : RemoteGrows(p)
    \/ ServerStops
    \/ \E lo, hi \in Number : ServerStarts(lo, hi)
    \/ ServerTask
    \/ \E f \in Number, t \in Number \cup {Last} : Fetch(f, t)
    \/ ClientSteps
    \/ ConnectionBreaks

Spec == Init /\ [][Next]_vars

(* Both processes are scheduled; the network delivers or breaks. *)
FairSpec ==
    /\ Spec
    /\ WF_vars(ServerTask)
    /\ WF_vars(ClientSteps)

-----------------------------------------------------------------------------
(* A fetch that succeeds has every block of the range it was asked for,    *)
(* although the server listed its ranges before and may have lost blocks,  *)
(* or been stopped in the middle of a stream, since (fetch.rs:115-147).    *)
FetchedAll ==
    outcome \in {"ok", "nothing"} => from .. to \subseteq StoredIn(db)

(* A stream fills its range from below: at any time, whatever happens      *)
(* next, the blocks of the range that are stored are those before          *)
(* expected_block, and the ranges still to come are untouched, so a fetch  *)
(* that is run again asks for the rest only (fetch.rs:115-137).            *)
FilledFromBelow ==
    /\ pc = "stream" =>
          \A n \in Blocks(range) : n \in StoredIn(db) <=> n < expected
    /\ \A r \in todo \ {range} :
          pc \in {"request", "stream"} => Blocks(r) \cap StoredIn(db) = {}

(* The fetch keeps its promise (FetchPromise): while the server loses      *)
(* blocks, restarts and sends what it likes, and the command is stopped    *)
(* and run again, the local blocks are only added to, each in its turn     *)
(* from below, never replaced, and success means that all are there        *)
(* (fetch.rs:78-147).                                                      *)
Promise ==
    INSTANCE FetchPromise
    WITH request <- IF pc = "idle" THEN <<>> ELSE <<from, to>>,
         done <- outcome # "none"

FetchKeepsPromise == Promise!Spec

(* Every fetch ends: neither side waits for the other for ever, with the   *)
(* channel full or the server gone (server.rs:105-128, fetch.rs:120-137).  *)
FetchEnds == pc # "idle" ~> pc = "idle"
=============================================================================

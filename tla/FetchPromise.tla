---------------------------- MODULE FetchPromise ----------------------------
(***************************************************************************)
(* What the fetch command promises of the local database, however the      *)
(* server behaves and whenever the client is stopped: blocks are only      *)
(* added, each one asked for and none a second time, from below, so that   *)
(* all blocks of the request below a new one are there already; the        *)
(* command succeeds only when all blocks of the request are.               *)
(* (blockservice/src/cmd/fetch.rs)                                         *)
(***************************************************************************)
EXTENDS Integers

CONSTANTS
    MaxBlock,   \* the largest block number
    Payload,    \* encoded blocks
    NoBlock,    \* no block stored
    Last        \* no `to` was given

VARIABLES
    db,         \* the local blocks
    request,    \* <<from, to>> of the command that runs, or NoRequest
    done        \* it has succeeded

vars == <<db, request, done>>

Number == 0 .. MaxBlock
NoRequest == <<>>
Running == request # NoRequest /\ ~done
Has(from, to) == \A n \in from .. to : db[n] # NoBlock

Init ==
    /\ db = [n \in Number |-> NoBlock]
    /\ request = NoRequest
    /\ done = FALSE

(* The user runs the command. *)
Ask(from, to) ==
    /\ request = NoRequest
    /\ request' = <<from, to>>
    /\ UNCHANGED <<db, done>>

(* The end of the request is settled; there may be nothing to do. *)
Settle(to) ==
    /\ Running
    /\ request[2] \in {Last, to}
    /\ request[1] <= to
    /\ request' = <<request[1], to>>
    /\ done' => Has(request[1], to)
    /\ done' \in BOOLEAN
    /\ UNCHANGED db

(* A block is stored. *)
Add(n, block) ==
    /\ Running
    /\ request[2] \in Number
    /\ n \in request[1] .. request[2]
    /\ db[n] = NoBlock
    /\ Has(request[1], n - 1)
    /\ db' = [db EXCEPT ![n] = block]
    /\ UNCHANGED <<request, done>>

Finish ==
    /\ Running
    /\ request[2] \in Number
    /\ Has(request[1], request[2])
    /\ done' = TRUE
    /\ UNCHANGED <<db, request>>

(* The command returns, with an error unless it is done, or is killed. *)
End ==
    /\ request # NoRequest
    /\ request' = NoRequest
    /\ done' = FALSE
    /\ UNCHANGED db

Next ==
    \/ \E f \in Number, t \in Number \cup {Last} : Ask(f, t)
    \/ \E t \in Number : Settle(t)
    \/ \E n \in Number, block \in Payload : Add(n, block)
    \/ Finish
    \/ End

Spec == Init /\ [][Next]_vars
=============================================================================

----------------------------- MODULE MCSources ------------------------------
(***************************************************************************)
(* The two questions about where blocks come from, in one run: what        *)
(* happens to a block on its way (BlockJourney), and whether the parser of *)
(* genesis files finds the blocks (GFileParser).  A behaviour is one of    *)
(* the two; the variables of the other keep their initial values.          *)
(***************************************************************************)
EXTENDS BlockJourney, GFileParser

CONSTANTS
    A1, A2, H1, H2, D1,     \* addresses, hashes and data
    MaxBlocks, MaxSize      \* of the genesis files

VARIABLE part

-----------------------------------------------------------------------------
(* The blocks of the journey: one of each fork, and those that differ from *)
(* it in one field of the header, of the transaction or of the receipt.    *)
MCBloomBits ==
    [x \in {A1, A2, H1, H2} |->
        CASE x = A1 -> {1, 2} [] x = A2 -> {2, 3} [] x = H1 -> {3, 4} [] x = H2 -> {1, 4}]

BaseFields(type) ==
    [chain_id |-> 1, nonce |-> 1, gas_price |-> 1, gas_limit |-> 2, to |-> A1, value |-> 1,
     data |-> StringOf(1, D1), access_list |-> <<[address |-> A1, storage_keys |-> <<H1>>]>>,
     max_fee_per_gas |-> 2, max_priority_fee_per_gas |-> 1, blob_versioned_hashes |-> <<H1>>,
     max_fee_per_blob_gas |-> 1,
     authorization_list |-> <<[chain_id |-> 0, address |-> A2, nonce |-> 0, y_parity |-> 1,
                               r |-> 1, s |-> 2]>>,
     y_parity |-> IF type = 0 THEN 37 ELSE 0, r |-> 3, s |-> Limit(U256Size) - 1]

BaseTx(type) ==
    LET kept == DOMAIN PayloadOf(type).fields \union {"chain_id", "gas_price"}
    IN  FromPayload(type, [f \in kept |-> BaseFields(type)[f]])

OtherTxValues ==
    [nonce |-> {0, Limit(U64Size) - 1}, gas_price |-> {0, Limit(U64Size)}, gas_limit |-> {1},
     to |-> {A2, None}, value |-> {0, 17}, data |-> {EmptyString, StringOf(2, D1)},
     access_list |-> {<<>>, <<[address |-> A1, storage_keys |-> <<>>]>>},
     max_fee_per_gas |-> {1}, max_priority_fee_per_gas |-> {0},
     blob_versioned_hashes |-> {<<H2>>}, max_fee_per_blob_gas |-> {0, 2},
     authorization_list |-> {<<>>}, r |-> {0}, s |-> {1}]

OtherTxs(type) ==
    {tx \in UNION {{[BaseTx(type) EXCEPT ![f] = x] : x \in OtherTxValues[f]} :
                f \in DOMAIN OtherTxValues \intersect DOMAIN PayloadOf(type).fields} :
        IsValid(tx)}
    \union IF type = 0
           THEN {[BaseTx(0) EXCEPT !.y_parity = 38],
                 [BaseTx(0) EXCEPT !.y_parity = 27, !.chain_id = 0],
                 [BaseTx(0) EXCEPT !.y_parity = 28, !.chain_id = 0]}
           ELSE {[BaseTx(type) EXCEPT !.y_parity = 1], [BaseTx(type) EXCEPT !.chain_id = 2]}

LogOf(address, topics) == [address |-> address, topics |-> topics, data |-> EmptyString]

Receipt(type, status, logs) ==
    [transaction_type |-> type, post_state_or_status |-> status,
     cumulative_gas_used |-> 2, logs |-> logs]

SonicBlock ==
    [DefaultSonic EXCEPT
        !.parent_hash = H1, !.state_root = H2, !.number = 1, !.timestamp = 5,
        !.extra_data = StringOf(ExtraDataSize, 3 * Limit(U64Size) + 7),
        !.base_fee_per_gas = 1, !.gas_limit = 3]

WithdrawalOf(amount) == [index |-> 0, validator_index |-> 1, address |-> A1, amount |-> amount]

WithWithdrawals(block, ws) ==
    [block EXCEPT !.withdrawals = ws,
                  !.withdrawals_root = ComputeRootHash(ConvertAll(MarshalWithdrawal, ws))]

EthereumBlock(fork) ==
    LET merged == fork # "PreMerge"
        From(first, x) == IF merged /\ Since(fork, first) THEN x ELSE None
        plain == [SonicBlock EXCEPT
                     !.beneficiary = A1, !.prev_randao = H1,
                     !.difficulty = IF merged THEN 0 ELSE 9,
                     !.ommers_hash = IF merged THEN EmptyOmmersHash ELSE H2,
                     !.ommer_headers = IF merged THEN <<>> ELSE <<[beneficiary |-> A2, number |-> 0]>>,
                     !.nonce = IF merged THEN 0 ELSE D1,
                     !.extra_data = StringOf(1, D1), !.withdrawals_root = None,
                     !.blob_gas_used = From("Deneb", 0), !.excess_blob_gas = From("Deneb", 1),
                     !.parent_beacon_block_root = From("Deneb", H1),
                     !.requests_hash = From("Electra", H2)]
    IN  IF merged /\ Since(fork, "Capella") THEN WithWithdrawals(plain, <<WithdrawalOf(1)>>) ELSE plain

OtherHeaderValues ==
    [parent_hash |-> {H2}, beneficiary |-> {A2}, state_root |-> {H1}, number |-> {0, 2},
     gas_limit |-> {0}, timestamp |-> {0, 6}, prev_randao |-> {H2}, difficulty |-> {1},
     extra_data |-> {EmptyString}, base_fee_per_gas |-> {0, Limit(U64Size)},
     blob_gas_used |-> {1}, excess_blob_gas |-> {0}, parent_beacon_block_root |-> {H2},
     requests_hash |-> {H1}, ommers_hash |-> {EmptyOmmersHash}]

SonicHeaderValues ==
    [OtherHeaderValues EXCEPT
        !.extra_data = {StringOf(ExtraDataSize, n) : n \in {0, 7, 3 * Limit(U64Size)}}]

(* The fields that a block of the fork may have another value of. *)
FreeFields(fork, block) ==
    {f \in DOMAIN OtherHeaderValues : block[f] # None}
        \ CASE fork = "Sonic" -> {"beneficiary", "blob_gas_used", "excess_blob_gas", "ommers_hash"}
            [] fork = "PreMerge" -> {}
            [] OTHER -> {"difficulty", "ommers_hash"}

Varied(fork, block) ==
    LET values == IF fork = "Sonic" THEN SonicHeaderValues ELSE OtherHeaderValues
    IN  UNION {{[block EXCEPT ![f] = x] : x \in values[f]} : f \in FreeFields(fork, block)}

WithTx(block, tx, status, logs) ==
    [block EXCEPT !.transactions = <<tx>>,
                  !.receipts = <<Receipt(tx.transaction_type, status, logs)>>]

(* The first and the last slot of a fork, if the chain had it. *)
SlotsOf(fork, chain) ==
    LET i == CHOOSE j \in DOMAIN Forks : Forks[j] = fork
        first == ForkEpochs[chain][i] * SlotsPerEpoch
        next == IF i = Len(Forks) THEN first + 2 ELSE ForkEpochs[chain][i + 1] * SlotsPerEpoch
    IN  IF first < next THEN {first, next - 1} ELSE {}

True(fork, blocks) == [chain : {"Mainnet"}, fork : {fork}, block : blocks,
                       slot : IF fork \in Range(Forks) THEN SlotsOf(fork, "Mainnet") ELSE {0}]

OtherChains ==
    UNION {[chain : {c}, fork : {f}, block : {EthereumBlock(f)}, slot : SlotsOf(f, c)] :
              c \in DOMAIN ForkEpochs, f \in Range(Forks)}

AllLogSets == {<<>>, <<LogOf(A1, <<H1, H2>>)>>, <<LogOf(A1, <<>>), LogOf(A2, <<H2>>)>>}

MCTrueBlocks ==
    OtherChains
    \union True("Sonic", {SonicBlock} \union Varied("Sonic", SonicBlock)
        \union {WithTx(SonicBlock, tx, StatusOf(1), <<>>) :
                   tx \in UNION {{BaseTx(t)} \union OtherTxs(t) : t \in TransactionTypes}}
        \union {WithTx(SonicBlock, BaseTx(2), StatusOf(s), logs) :
                   s \in {0, 1}, logs \in AllLogSets})
    \union True("PreMerge", {EthereumBlock("PreMerge")} \union Varied("PreMerge", EthereumBlock("PreMerge"))
        \union {WithTx(EthereumBlock("PreMerge"), tx, s, <<LogOf(A2, <<H1>>)>>) :
                   tx \in {BaseTx(0), BaseTx(1), BaseTx(2)} \union OtherTxs(0),
                   s \in {StatusOf(1), PostState(H1)}})
    \union UNION {True(f, {EthereumBlock(f),
                           WithTx(EthereumBlock(f), BaseTx(2), StatusOf(1), <<LogOf(A2, <<H1>>)>>)}) :
                     f \in Range(Forks)}
    \union True("Fulu", Varied("Fulu", EthereumBlock("Fulu"))
        \union {WithWithdrawals(EthereumBlock("Fulu"), ws) :
                   ws \in {<<>>, <<WithdrawalOf(1), WithdrawalOf(2)>>}}
        \union {WithTx(EthereumBlock("Fulu"), BaseTx(t), StatusOf(1), <<>>) : t \in TransactionTypes})

(* In memory they are values of the type Block. *)
MCTypedBlocks == {t.block : t \in MCTrueBlocks}

-----------------------------------------------------------------------------
(* The genesis files. *)
GoodUnit(name, h) ==
    [magic |-> "good", version |-> "good", decodable |-> TRUE, complete |-> TRUE,
     name |-> name, header |-> h]

(* Good units, and one that is not. *)
UnitLists ==
    {<<>>, <<GoodUnit("brs", 1)>>, <<GoodUnit("ers", 1)>>,
     <<GoodUnit("ers", 1), GoodUnit("brs", 1)>>, <<GoodUnit("brs", 1), GoodUnit("brs_1", 2)>>}
    \union {<<GoodUnit("ers", 1), [GoodUnit("brs", 1) EXCEPT !.magic = m, !.version = v]>> :
               m, v \in {"good", "bad", "short"}}
    \union {<<[GoodUnit("brs", 1) EXCEPT !.decodable = FALSE]>>,
            <<[GoodUnit("brs", 1) EXCEPT !.complete = FALSE]>>}

(* The blocks of these sizes and kinds, one behind the other. *)
Laid(blocks) ==
    LET end(k) == MapThenSumSet(LAMBDA j : blocks[j].size, 1 .. k)
    IN  [i \in DOMAIN blocks |->
            [from |-> end(i - 1), to |-> end(i), kind |-> blocks[i].kind]]

BlockLists ==
    {Laid(blocks) : blocks \in
        UNION {[1 .. n -> [size : 1 .. MaxSize, kind : {"good"}]] : n \in 0 .. MaxBlocks}
        \union [1 .. 3 -> [size : {2}, kind : {"good", "garbled", "unfit"}]]}

MCGFiles ==
    [units : UnitLists, blocks : {<<>>, <<[from |-> 0, to |-> 1, kind |-> "good"]>>},
     cut : {0}, memory : {1, BufferSize + 1}]
    \union {f \in [units : {<<GoodUnit("brs", 1)>>}, blocks : BlockLists, cut : 0 .. 1, memory : {1}] :
               f.blocks = <<>> => f.cut = 0}

MCInit ==
    \/ /\ part = "journey" /\ Init
       /\ file = CHOOSE f \in MCGFiles : f.blocks = <<>>
       /\ phase = "done" /\ unit = 0 /\ first_header = NoHeader /\ names = {}
       /\ failure = "none" /\ buffer = [from |-> 0, to |-> 0] /\ buffer_idx = 0
       /\ reader_empty = FALSE /\ error = FALSE /\ yielded = <<>>
    \/ /\ part = "gfile" /\ GFileInit
       /\ truth = CHOOSE t \in TrueBlocks : TRUE
       /\ source = None /\ shown = None /\ StoredInit

MCNext ==
    \/ part = "journey" /\ Next /\ UNCHANGED <<part, gfileVars>>
    \/ part = "gfile" /\ GFileNext /\ UNCHANGED <<part, vars>>

MCSpec == MCInit /\ [][MCNext]_<<vars, gfileVars, part>>
=============================================================================

------------------------------ MODULE Commands ------------------------------
(***************************************************************************)
(* A command of the blockservice from its command line to its exit code    *)
(* (main.rs, cli.rs, cmd/mod.rs), the commands list, view-..., import-...  *)
(* and fetch-metadata for the metadata of a chain, and the gRPC server and *)
(* client they talk through, with the token of their configurations.  A    *)
(* process runs one command in one application directory; Ctrl-C and a     *)
(* kill come at any step.  The other commands have modules of their own.   *)
(*                                                                         *)
(* The directories are initialised (AppDir) and each has a port of its     *)
(* own.  A metadata document is a number, 0 if there is none; of the       *)
(* blocks of a chain the number is kept.  A token is as in the file, and   *)
(* as in the header, where `Bearer ' is put before it.                     *)
(***************************************************************************)
EXTENDS Integers, FiniteSets

CONSTANTS
    Process,    \* processes
    Dir,        \* application directories, of servers and of clients
    Document,   \* metadata documents
    MaxBlocks,  \* how many blocks a server gets for a chain
    MaxEvents,  \* how often a user changes a token, or stops a command
    Offered,    \* the commands users give
    Nobody      \* no process

VARIABLES
    store,     \* of each directory: the database
    conf,      \* the configuration: its token, and the chains it names
    primary,   \* who has the database open for writing
    events,    \* how often a token was changed, or a command stopped
    step,      \* of each process: what it does next
    command,   \* what it was told to do
    loaded,    \* the configuration it loaded
    view,      \* the secondary database it opened for reading
    peer,      \* the server it is connected to
    answer,    \* what it was told, or found
    begin,     \* history: the database when it began, or had it opened
    ctrl_c,    \* whether it received Ctrl-C
    code       \* its exit code

shared == <<store, conf, primary, events>>
cmdVars == <<shared, step, command, loaded, view, peer, answer, begin,
             ctrl_c, code>>

Kind == {"rules", "corrections", "bundles"}

(* ChainArg: names and numbers stand for chain IDs, anything else is refused. *)
WellKnown ==
    [sonic |-> 146, sonic_testnet |-> 14601, sepolia |-> 11155111, hoodi |-> 560048]
Number == {0, 146}
ChainArg == [name : DOMAIN WellKnown, id : {-1}] \cup [name : {""}, id : Number]
NotAChain == [name |-> "", id |-> -1]

ToChainId(c) == IF c.name = "" THEN c.id ELSE WellKnown[c.name]

ChainId == {ToChainId(c) : c \in ChainArg}

(* The database: the chains in it, their metadata and blocks. *)
Database ==
    [ids : SUBSET ChainId,
     meta : [Kind -> [ChainId -> Document \cup {0}]],
     blocks : [ChainId -> 0 .. MaxBlocks]]

Empty ==
    [ids |-> {},
     meta |-> [k \in Kind |-> [c \in ChainId |-> 0]],
     blocks |-> [c \in ChainId |-> 0]]

PutMetadata(db, k, c, doc) ==
    [ids |-> db.ids \cup {c},
     meta |-> [db.meta EXCEPT ![k][c] = doc],
     blocks |-> db.blocks]

Imported ==
    PutMetadata(PutMetadata(Empty, "rules", 146, 1), "corrections", 146, 1)

(* Config: the token is NoToken if there is none. *)
NoToken == "none"
Config == [token : {NoToken, "one", "two"}, chains : SUBSET ChainId]
DefaultConfig == [token |-> NoToken, chains |-> {}]

(* What users made of it: a chain that is synchronised, and a token. *)
Edited == {[token |-> t, chains |-> {146}] : t \in {NoToken, "one"}}

(* Command: its name with its arguments.  `all' is a list without a chain, *)
(* and `url' the server of a command that has one.                         *)
Imports == {"import-rules-update-heights", "import-corrections",
            "import-failed-bundles"}
Views == {"view", "view-rules-update-heights", "view-corrections"}
KindOf(name) ==
    CASE name \in {"import-corrections", "view-corrections"} -> "corrections"
      [] name = "import-failed-bundles" -> "bundles"
      [] OTHER -> "rules"

CommandWith(name, d, c, all, remote, url) ==
    [name |-> name, dir |-> d, chain |-> c, all |-> all, kind |-> KindOf(name),
     remote |-> remote, url |-> url]

Local(name, d, c) == CommandWith(name, d, c, FALSE, FALSE, d)

NoCommand == Local("none", CHOOSE d \in Dir : TRUE, NotAChain)

CommandsIn(d, c, url) ==
    {Local(name, d, c) : name \in Imports \cup Views \cup {"list"}} \cup
    {CommandWith("list", d, c, TRUE, FALSE, d), Local("start", d, NotAChain)} \cup
    {CommandWith("fetch-metadata", d, c, FALSE, TRUE, url),
     CommandWith("list", d, c, FALSE, TRUE, url),
     CommandWith("list", d, c, TRUE, TRUE, url)}

(* All that a command line can say. *)
CommandLines ==
    UNION {CommandsIn(d, c, url) :
              d \in Dir, c \in ChainArg \cup {NotAChain}, url \in Dir}

ASSUME CommandsAssumption ==
    /\ Nobody \notin Process
    /\ Dir # {}
    /\ Document \subseteq Nat \ {0}
    /\ Offered \subseteq CommandLines

Id(p) == ToChainId(command[p].chain)

Writes(p) == command[p].name \in Imports \cup {"fetch-metadata", "start"}

(* What a command was told or found: chains, and documents or blocks. *)
Nothing == [ids |-> {}, left |-> {}, meta |-> Empty.meta, blocks |-> Empty.blocks]

CommandsTypeOK ==
    /\ store \in [Dir -> Database]
    /\ conf \in [Dir -> Config]
    /\ primary \in [Dir -> Process \cup {Nobody}]
    /\ events \in 0 .. MaxEvents
    /\ loaded \in [Process -> Config]
    /\ view \in [Process -> Database]
    /\ peer \in [Process -> Process \cup {Nobody}]
    /\ ctrl_c \in [Process -> BOOLEAN]
    /\ code \in [Process -> {-1, 0, 1, 2, 9}]

CmdInit ==
    /\ store \in [Dir -> {Empty, Imported}]
    /\ conf \in [Dir -> {DefaultConfig} \cup Edited]
    /\ primary = [d \in Dir |-> Nobody]
    /\ events = 0
    /\ step = [p \in Process |-> "new"]
    /\ command = [p \in Process |-> NoCommand]
    /\ loaded = [p \in Process |-> DefaultConfig]
    /\ view = [p \in Process |-> Empty]
    /\ peer = [p \in Process |-> Nobody]
    /\ answer = [p \in Process |-> Nothing]
    /\ begin = [p \in Process |-> Empty]
    /\ ctrl_c = [p \in Process |-> FALSE]
    /\ code = [p \in Process |-> -1]

-----------------------------------------------------------------------------
Goto(p, s) == step' = [step EXCEPT ![p] = s]

From(p, s, t) == step[p] = s /\ Goto(p, t)

(* main: an error is exit code 1. *)
ExitCode(result) == IF result = "error" THEN 1 ELSE 0

(* The end of a process: its database is closed. *)
Exit(p, c) ==
    /\ Goto(p, "ended")
    /\ code' = [code EXCEPT ![p] = c]
    /\ primary' = [d \in Dir |-> IF primary[d] = p THEN Nobody ELSE primary[d]]

Return(p, result) == Exit(p, ExitCode(result))

Goes == UNCHANGED <<primary, code>>

(* Args::parse and execute, up to the command itself: list refuses chain 0 *)
(* before it opens anything, and start binds its address first.            *)
Run(p, cmd) ==
    /\ step[p] = "new"
    /\ command' = [command EXCEPT ![p] = cmd]
    /\ begin' = [begin EXCEPT ![p] = store[cmd.dir]]
    /\ LET bad == cmd.name # "start" /\ ~cmd.all /\ cmd.chain = NotAChain
           zero == cmd.name = "list" /\ ~cmd.all /\ ToChainId(cmd.chain) = 0
       IN  \/ bad /\ Exit(p, 2)
           \/ ~bad /\ zero /\ Return(p, "error")
           \/ /\ ~bad /\ ~zero
              /\ Goto(p, IF cmd.name = "start" THEN "bind" ELSE "load")
              /\ Goes
    /\ UNCHANGED <<store, conf, events, loaded, view, peer, answer, ctrl_c>>

(* ConfigFileAddressBinder: one server listens on the port of a directory. *)
Listens(d) ==
    {s \in Process : /\ command[s].name = "start" /\ command[s].dir = d
                     /\ step[s] \notin {"new", "bind", "ended"}}

BindAddress(p) ==
    /\ step[p] = "bind"
    /\ IF Listens(command[p].dir) = {}
       THEN Goto(p, "load") /\ Goes
       ELSE Return(p, "error")
    /\ UNCHANGED <<store, conf, events, command, loaded, view, peer, answer,
                   begin, ctrl_c>>

(* open_app_dir: the configuration first, then the database. *)
Load(p) ==
    /\ From(p, "load", "open")
    /\ loaded' = [loaded EXCEPT ![p] = conf[command[p].dir]]
    /\ Goes
    /\ UNCHANGED <<store, conf, events, command, view, peer, answer, begin,
                   ctrl_c>>

OpensForWriting(p) == Writes(p)

Opened(p) ==
    CASE command[p].name = "start" -> "serving"
      [] command[p].name \in Imports -> "read file"
      [] command[p].remote -> "connect"
      [] OTHER -> "print"

OpenForWriting(p) ==
    /\ OpensForWriting(p)
    /\ step[p] = "open"
    /\ LET d == command[p].dir
       IN  IF primary[d] # Nobody
           THEN Return(p, "error") /\ UNCHANGED <<view, begin>>
           ELSE /\ Goto(p, Opened(p))
                /\ primary' = [primary EXCEPT ![d] = p]
                /\ view' = [view EXCEPT ![p] = store[d]]
                /\ begin' = [begin EXCEPT ![p] = store[d]]
                /\ UNCHANGED code
    /\ UNCHANGED <<store, conf, events, command, loaded, peer, answer, ctrl_c>>

OpenForReading(p) ==
    /\ ~OpensForWriting(p)
    /\ From(p, "open", Opened(p))
    /\ view' = [view EXCEPT ![p] = store[command[p].dir]]
    /\ Goes
    /\ UNCHANGED <<store, conf, events, command, loaded, peer, answer, begin,
                   ctrl_c>>

-----------------------------------------------------------------------------
(* The local commands: they read a file and store it, or print. *)
ImportFile(p, doc) ==
    /\ step[p] = "read file"
    /\ store' = [store EXCEPT ![command[p].dir] =
                    PutMetadata(@, command[p].kind, Id(p), doc)]
    /\ Return(p, "ok")
    /\ UNCHANGED <<conf, events, command, loaded, view, peer, answer, begin,
                   ctrl_c>>

FileMissing(p) ==
    /\ step[p] = "read file"
    /\ Return(p, "error")
    /\ UNCHANGED <<store, conf, events, command, loaded, view, peer, answer,
                   begin, ctrl_c>>

(* Mutation: the chains of the configuration only. *)
ConfiguredChains(p) == IF command[p].all THEN loaded[p].chains ELSE {Id(p)}

(* The chains of a local list. *)
ChainsToList(p) ==
    IF command[p].all THEN view[p].ids \cup loaded[p].chains ELSE {Id(p)}

Show(p) ==
    /\ step[p] = "print"
    /\ answer' = [answer EXCEPT ![p] =
           [ids |-> IF command[p].name = "list" THEN ChainsToList(p) ELSE {Id(p)},
            left |-> {}, meta |-> view[p].meta, blocks |-> view[p].blocks]]
    /\ Return(p, "ok")
    /\ UNCHANGED <<store, conf, events, command, loaded, view, peer, begin,
                   ctrl_c>>

-----------------------------------------------------------------------------
(* The server: it stores blocks in the primary database and serves from    *)
(* the secondary one, which catches up now and then.                       *)
SyncBlock(p, c) ==
    /\ step[p] = "serving"
    /\ c \in loaded[p].chains
    /\ LET db == store[command[p].dir]
       IN  /\ db.blocks[c] < MaxBlocks
           /\ store' = [store EXCEPT ![command[p].dir] =
                  [db EXCEPT !.ids = @ \cup {c}, !.blocks[c] = @ + 1]]
    /\ UNCHANGED <<conf, primary, events, step, command, loaded, view, peer,
                   answer, begin, ctrl_c, code>>

CatchUp(p) ==
    /\ step[p] = "serving"
    /\ view[p] # store[command[p].dir]
    /\ view' = [view EXCEPT ![p] = store[command[p].dir]]
    /\ UNCHANGED <<shared, step, command, loaded, peer, answer, begin, ctrl_c,
                   code>>

(* start ends with an error of one of its tasks. *)
ServerFails(p) ==
    /\ step[p] = "serving"
    /\ Return(p, "error")
    /\ UNCHANGED <<store, conf, events, command, loaded, view, peer, answer,
                   begin, ctrl_c>>

(* RpcClient::try_new. *)
Serving(d) == {s \in Listens(d) : step[s] = "serving"}

Connect(p) ==
    /\ step[p] = "connect"
    /\ IF Serving(command[p].url) = {}
       THEN Return(p, "error") /\ UNCHANGED <<peer, begin>>
       ELSE /\ \E s \in Serving(command[p].url) :
                /\ peer' = [peer EXCEPT ![p] = s]
                /\ begin' = [begin EXCEPT ![p] =
                       IF command[p].name = "list" THEN view[s] ELSE @]
            /\ Goto(p, "request")
            /\ Goes
    /\ UNCHANGED <<store, conf, events, command, loaded, view, answer, ctrl_c>>

(* Mutation: a request without a token passes. *)
CheckTokenIfAny(server, client) ==
    server = NoToken \/ client = NoToken \/ client = server

(* check_token, with the token the server loaded when it started. *)
CheckToken(server, client) == server = NoToken \/ client = server

(* A request comes to the server, which begins to answer it. *)
Request(p) ==
    LET s == peer[p]
        ok == step[s] = "serving" /\ CheckToken(loaded[s].token, loaded[p].token)
    IN  /\ step[p] = "request"
        /\ IF ~ok
           THEN Return(p, "error") /\ UNCHANGED answer
           ELSE /\ Goto(p, IF command[p].name = "list" THEN "listing" ELSE "rules")
                /\ Goes
                /\ answer' = [answer EXCEPT ![p].left =
                       IF command[p].name = "list" /\ command[p].all
                       THEN view[s].ids ELSE {Id(p)}]
        /\ UNCHANGED <<store, conf, events, command, loaded, view, peer, begin,
                       ctrl_c>>

(* The server is gone before it has answered. *)
Waiting == {"request", "listing", "rules", "corrections"}

ConnectionLost(p) ==
    /\ step[p] \in Waiting
    /\ step[peer[p]] = "ended"
    /\ Return(p, "error")
    /\ UNCHANGED <<store, conf, events, command, loaded, view, peer, answer,
                   begin, ctrl_c>>

Answers(p, s) == step[p] = s /\ step[peer[p]] = "serving"

(* RpcServer::list: one chain after the other. *)
ListChain(p, c) ==
    LET db == view[peer[p]]
    IN  /\ Answers(p, "listing")
        /\ c \in answer[p].left
        /\ answer' = [answer EXCEPT ![p] =
               [ids |-> @.ids \cup {c}, left |-> @.left \ {c},
                meta |-> [k \in Kind |-> [@.meta[k] EXCEPT ![c] = db.meta[k][c]]],
                blocks |-> [@.blocks EXCEPT ![c] = db.blocks[c]]]]
        /\ UNCHANGED <<shared, step, command, loaded, view, peer, begin,
                       ctrl_c, code>>

(* The client prints the list. *)
ShowListing(p) ==
    /\ step[p] = "listing"
    /\ answer[p].left = {}
    /\ Return(p, "ok")
    /\ UNCHANGED <<store, conf, events, command, loaded, view, peer, answer,
                   begin, ctrl_c>>

(* RpcServer::get_metadata: one read after the other. *)
GetMetadata(p, k, next) ==
    /\ Answers(p, k)
    /\ Goto(p, next)
    /\ answer' = [answer EXCEPT ![p].meta[k] = view[peer[p]].meta[k]]
    /\ Goes
    /\ UNCHANGED <<store, conf, events, command, loaded, view, peer, begin,
                   ctrl_c>>

(* fetch_metadata stores what there is, in two writes. *)
Answered(p, k, doc) ==
    store' = IF doc = 0 THEN store
             ELSE [store EXCEPT ![command[p].dir] = PutMetadata(@, k, Id(p), doc)]

StoreRules(p) ==
    /\ From(p, "store rules", "store corrections")
    /\ Answered(p, "rules", answer[p].meta["rules"][Id(p)])
    /\ Goes
    /\ UNCHANGED <<conf, events, command, loaded, view, peer, answer, begin,
                   ctrl_c>>

StoreCorrections(p) ==
    /\ step[p] = "store corrections"
    /\ Answered(p, "corrections", answer[p].meta["corrections"][Id(p)])
    /\ Return(p, "ok")
    /\ UNCHANGED <<conf, events, command, loaded, view, peer, answer, begin,
                   ctrl_c>>

-----------------------------------------------------------------------------
Event == events < MaxEvents /\ events' = events + 1

Running(p) == step[p] \notin {"new", "ended"}

(* main: Ctrl-C cancels the token ... *)
CtrlC(p) ==
    /\ Running(p)
    /\ ~ctrl_c[p]
    /\ ctrl_c' = [ctrl_c EXCEPT ![p] = TRUE]
    /\ Event
    /\ UNCHANGED <<store, conf, primary, step, command, loaded, view,
                   peer, answer, begin, code>>

(* Mutation: there is an await between the two writes. *)
AwaitBetweenWrites(p) ==
    step[p] \in Waiting \cup {"connect", "serving", "bind", "store corrections"}

(* ... and the command is dropped where it awaits something.  A command    *)
(* that does not goes on to its end.                                       *)
AtAwait(p) == step[p] \in Waiting \cup {"connect", "serving", "bind"}

Dropped(p) ==
    /\ ctrl_c[p]
    /\ AtAwait(p)
    /\ Exit(p, 0)
    /\ UNCHANGED <<store, conf, events, command, loaded, view, peer, answer,
                   begin, ctrl_c>>

Kill(p) ==
    /\ Running(p)
    /\ Exit(p, 9)
    /\ Event
    /\ UNCHANGED <<store, conf, command, loaded, view, peer, answer,
                   begin, ctrl_c>>

(* A user changes the token in a configuration file. *)
EditToken(d, t) ==
    /\ Event
    /\ t # conf[d].token
    /\ conf' = [conf EXCEPT ![d].token = t]
    /\ UNCHANGED <<store, primary, step, command, loaded, view, peer,
                   answer, begin, ctrl_c, code>>

AllEnded ==
    /\ \A p \in Process : step[p] = "ended"
    /\ UNCHANGED cmdVars

CmdNext ==
    \/ \E p \in Process, cmd \in Offered : Run(p, cmd)
    \/ \E p \in Process :
        \/ BindAddress(p) \/ Load(p) \/ OpenForWriting(p) \/ OpenForReading(p)
        \/ FileMissing(p) \/ Show(p)
        \/ CatchUp(p) \/ ServerFails(p)
        \/ Connect(p) \/ Request(p) \/ ConnectionLost(p) \/ ShowListing(p)
        \/ GetMetadata(p, "rules", "corrections")
        \/ GetMetadata(p, "corrections", "store rules")
        \/ StoreRules(p) \/ StoreCorrections(p)
        \/ CtrlC(p) \/ Dropped(p) \/ Kill(p)
    \/ \E p \in Process, doc \in Document : ImportFile(p, doc)
    \/ \E p \in Process, c \in ChainId : SyncBlock(p, c) \/ ListChain(p, c)
    \/ \E d \in Dir, t \in {"two"} : EditToken(d, t)
    \/ AllEnded

CmdSpec == CmdInit /\ [][CmdNext]_cmdVars

-----------------------------------------------------------------------------
Ends(p) == step[p] # "ended" /\ step'[p] = "ended" /\ code'[p] # 9

Pair(db, p) == [k \in {"rules", "corrections"} |-> db.meta[k][Id(p)]]

Merged(p) ==
    [k \in {"rules", "corrections"} |->
        IF answer[p].meta[k][Id(p)] = 0 THEN begin[p].meta[k][Id(p)]
        ELSE answer[p].meta[k][Id(p)]]

(* A fetch-metadata that is not killed leaves its database merged with the *)
(* whole answer, or as it was; the answer is of one state of the server.   *)
FetchesWhole(p) ==
    command[p].name = "fetch-metadata" =>
      /\ Ends(p) /\ primary[command[p].dir] = p =>
           LET now == Pair(store'[command[p].dir], p)
           IN  /\ now \in {Pair(begin[p], p), Merged(p)}
               /\ code'[p] = 0 /\ ~ctrl_c[p] => now = Merged(p)
      /\ step[p] = "corrections" /\ step'[p] = "store rules" =>
           \A k \in {"rules", "corrections"} :
               answer'[p].meta[k][Id(p)] =
                   store[command[peer[p]].dir].meta[k][Id(p)]

(* Unless it is killed, fetch-metadata stores all the server answered or   *)
(* nothing, Ctrl-C or not, and removes nothing; with exit code 0 and       *)
(* without Ctrl-C it has stored all.  The two documents of the answer are  *)
(* those the database of the server has at that moment, both of them,      *)
(* although they are read one after the other from a database that lags    *)
(* behind: no import can run beside the server.                            *)
MetadataAllOrNothing == [][\A p \in Process : FetchesWhole(p)]_cmdVars

Has(a, b) ==
    \A c \in ChainId :
        /\ a.blocks[c] <= b.blocks[c]
        /\ \A k \in Kind : a.meta[k][c] # 0 => b.meta[k][c] # 0

Asked(p) == IF command[p].all THEN begin[p].ids ELSE {Id(p)}

(* A database without the chains nobody asked for. *)
Only(db, asked) ==
    [ids |-> db.ids,
     meta |-> [k \in Kind |-> [c \in ChainId |->
                  IF c \in asked THEN db.meta[k][c] ELSE 0]],
     blocks |-> [c \in ChainId |-> IF c \in asked THEN db.blocks[c] ELSE 0]]

ListsTruly(p) ==
    command[p].name = "list" /\ Ends(p) /\ code'[p] = 0 /\ ~ctrl_c[p] =>
      /\ Asked(p) \subseteq answer'[p].ids
      /\ Has(Only(begin[p], Asked(p)), answer'[p])
      /\ Has(answer'[p],
             store[IF command[p].remote THEN command[p].url ELSE command[p].dir])

(* A list that ends with exit code 0 has every chain that was stored when  *)
(* it began (a remote one: when it connected, as far as the server had     *)
(* caught up), also those with metadata only, which no configuration       *)
(* names, with the blocks and metadata there were, and nothing that is not *)
(* stored.                                                                 *)
ListingIsTrue == [][\A p \in Process : ListsTruly(p)]_cmdVars

Told(p) == answer[p] # Nothing \/ (code[p] = 0 /\ ~ctrl_c[p])

(* Whatever a client is told of a server that loaded a token, at any time  *)
(* and however the configurations change, it is told with that token; a    *)
(* client that is refused ends with exit code 1, and does not take the     *)
(* missing answer for an empty one.                                        *)
OnlyWithToken ==
    \A p \in Process :
        peer[p] # Nobody /\ loaded[peer[p]].token # NoToken /\ Told(p) =>
            loaded[p].token = loaded[peer[p]].token
=============================================================================

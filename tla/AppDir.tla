------------------------------- MODULE AppDir -------------------------------
(***************************************************************************)
(* The application directory of the blockservice (app_dir.rs, config.rs):  *)
(* a configuration file and a block database that several processes        *)
(* create, open and change, each of which may be killed at any step.  The  *)
(* file is created or truncated first and written then, and only the       *)
(* database has a lock.                                                    *)
(*                                                                         *)
(* The commands are init and import, the only ones that write the          *)
(* configuration; import stands for every command that opens the directory *)
(* for writing.  Of the configuration the chains are kept.                 *)
(***************************************************************************)
EXTENDS Integers

CONSTANTS
    Proc,        \* processes
    Chain,       \* chain IDs
    MaxCrashes,  \* how many commands are killed or fail to write
    NoProc       \* nobody has the lock of the database

ASSUME AppDirAssumption ==
    /\ MaxCrashes \in Nat
    /\ NoProc \notin Proc
    /\ Chain # {}

VARIABLES
    config,   \* the configuration file
    db,       \* the database: absent, created, ready (with its version)
    lock,     \* who has it open for writing
    blocks,   \* the chains with blocks in it
    pc,       \* the step of each process
    cfg,      \* what it loaded of the configuration
    chain,    \* the chain it imports
    inited,   \* whether an init command has succeeded
    crashes   \* the commands that were killed

proc == <<pc, cfg, chain>>
vars == <<config, db, lock, blocks, proc, inited, crashes>>

(* A file that was created and not written yet cannot be parsed. *)
NoFile == [file |-> "none", chains |-> {}]
EmptyFile == [file |-> "empty", chains |-> {}]
File(chains) == [file |-> "written", chains |-> chains]
Written == {File(S) : S \in SUBSET Chain}

TypeOK ==
    /\ config \in Written \cup {NoFile, EmptyFile}
    /\ db \in {"absent", "created", "ready"}
    /\ lock \in Proc \cup {NoProc}
    /\ blocks \subseteq Chain
    /\ pc \in [Proc -> {"idle", "create config", "write config", "database",
                        "create database", "write version", "load", "open",
                        "add chain", "write chain", "blocks"}]
    /\ cfg \in [Proc -> SUBSET Chain]
    /\ chain \in [Proc -> Chain]
    /\ inited \in BOOLEAN
    /\ crashes \in 0 .. MaxCrashes
    /\ \A p \in Proc :
           pc[p] \in {"write version", "add chain", "write chain", "blocks"}
               <=> lock = p

Init ==
    /\ config = NoFile
    /\ db = "absent"
    /\ lock = NoProc
    /\ blocks = {}
    /\ pc = [p \in Proc |-> "idle"]
    /\ cfg = [p \in Proc |-> {}]
    /\ chain = [p \in Proc |-> CHOOSE c \in Chain : TRUE]
    /\ inited = FALSE
    /\ crashes = 0

Go(p, to) == pc' = [pc EXCEPT ![p] = to]

At(p, from, to) == pc[p] = from /\ Go(p, to)

-----------------------------------------------------------------------------
(* init_app_dir: what exists is kept. *)
InitConfig(p) ==
    /\ At(p, "idle", IF config = NoFile THEN "create config" ELSE "database")
    /\ UNCHANGED <<config, db, lock, blocks, cfg, chain, inited, crashes>>

(* Mutation: File::create, which truncates an existing file. *)
CreateAnyway(p) ==
    /\ At(p, "create config", "write config")
    /\ config' = EmptyFile
    /\ UNCHANGED <<db, lock, blocks, cfg, chain, inited, crashes>>

(* Config::create_default, with File::create_new. *)
CreateConfig(p) ==
    /\ At(p, "create config", IF config = NoFile THEN "write config" ELSE "idle")
    /\ config' = IF config = NoFile THEN EmptyFile ELSE config
    /\ UNCHANGED <<db, lock, blocks, cfg, chain, inited, crashes>>

WriteConfig(p) ==
    /\ At(p, "write config", "database")
    /\ config' = File({})
    /\ UNCHANGED <<db, lock, blocks, cfg, chain, inited, crashes>>

InitDatabase(p) ==
    /\ At(p, "database", IF db = "absent" THEN "create database" ELSE "idle")
    /\ inited' = (inited \/ db # "absent")
    /\ UNCHANGED <<config, db, lock, blocks, cfg, chain, crashes>>

(* RocksDb::create fails if the database exists. *)
CreateDatabase(p) ==
    /\ At(p, "create database", IF db = "absent" THEN "write version" ELSE "idle")
    /\ IF db = "absent" THEN db' = "created" /\ lock' = p
                        ELSE UNCHANGED <<db, lock>>
    /\ UNCHANGED <<config, blocks, cfg, chain, inited, crashes>>

(* Mutation: the version is left to the first command that opens it. *)
LeaveVersion(p) ==
    /\ At(p, "write version", "idle")
    /\ lock' = NoProc
    /\ inited' = TRUE
    /\ UNCHANGED <<config, db, blocks, cfg, chain, crashes>>

WriteVersion(p) ==
    /\ At(p, "write version", "idle")
    /\ db' = "ready"
    /\ lock' = NoProc
    /\ inited' = TRUE
    /\ UNCHANGED <<config, blocks, cfg, chain, crashes>>

-----------------------------------------------------------------------------
(* open_app_dir, for the import of chain c. *)
Open(p, c) ==
    /\ config # NoFile /\ db # "absent"
    /\ At(p, "idle", "load")
    /\ chain' = [chain EXCEPT ![p] = c]
    /\ UNCHANGED <<config, db, lock, blocks, cfg, inited, crashes>>

LoadConfig(p) ==
    /\ At(p, "load", IF config \in Written THEN "open" ELSE "idle")
    /\ cfg' = [cfg EXCEPT ![p] = IF config \in Written THEN config.chains ELSE @]
    /\ UNCHANGED <<config, db, lock, blocks, chain, inited, crashes>>

(* Mutation: a database without a version is taken for a new one. *)
OpenAnyDatabase(p) ==
    LET ok == lock = NoProc
    IN  /\ At(p, "open", IF ok THEN "add chain" ELSE "idle")
        /\ lock' = IF ok THEN p ELSE lock
        /\ UNCHANGED <<config, db, blocks, cfg, chain, inited, crashes>>

(* RocksDb::open needs the lock, and KvDbBackedBlockDb::open the version. *)
OpenDatabase(p) ==
    LET ok == lock = NoProc /\ db = "ready"
    IN  /\ At(p, "open", IF ok THEN "add chain" ELSE "idle")
        /\ lock' = IF ok THEN p ELSE lock
        /\ UNCHANGED <<config, db, blocks, cfg, chain, inited, crashes>>

(* Config::add_chain, for a chain that has no entry yet. *)
AddChain(p) ==
    /\ At(p, "add chain", IF chain[p] \in cfg[p] THEN "blocks" ELSE "write chain")
    /\ config' = IF chain[p] \in cfg[p] THEN config ELSE EmptyFile
    /\ UNCHANGED <<db, lock, blocks, cfg, chain, inited, crashes>>

WriteChain(p) ==
    /\ At(p, "write chain", "blocks")
    /\ config' = File(cfg[p] \cup {chain[p]})
    /\ UNCHANGED <<db, lock, blocks, cfg, chain, inited, crashes>>

ImportBlocks(p) ==
    /\ At(p, "blocks", "idle")
    /\ blocks' = blocks \cup {chain[p]}
    /\ lock' = NoProc
    /\ UNCHANGED <<config, db, cfg, chain, inited, crashes>>

-----------------------------------------------------------------------------
(* A command is killed, or a write to the file fails. *)
Crash(p) ==
    /\ pc[p] # "idle"
    /\ crashes < MaxCrashes
    /\ crashes' = crashes + 1
    /\ Go(p, "idle")
    /\ lock' = IF lock = p THEN NoProc ELSE lock
    /\ UNCHANGED <<config, db, blocks, cfg, chain, inited>>

(* When nothing runs, the user removes what cannot be opened, to have init *)
(* create it again.                                                        *)
Idle == \A p \in Proc : pc[p] = "idle"

Remove ==
    /\ Idle
    /\ config = EmptyFile \/ db = "created"
    /\ config' = IF config = EmptyFile THEN NoFile ELSE config
    /\ db' = IF db = "created" THEN "absent" ELSE db
    /\ UNCHANGED <<lock, blocks, proc, inited, crashes>>

InitStep(p) ==
    \/ CreateConfig(p) \/ WriteConfig(p)
    \/ InitDatabase(p) \/ CreateDatabase(p) \/ WriteVersion(p)

ImportStep(p) ==
    \/ LoadConfig(p) \/ OpenDatabase(p)
    \/ AddChain(p) \/ WriteChain(p) \/ ImportBlocks(p)

Next ==
    \/ \E p \in Proc : InitConfig(p) \/ InitStep(p) \/ ImportStep(p) \/ Crash(p)
    \/ \E p \in Proc, c \in Chain : Open(p, c)
    \/ Remove

Spec == Init /\ [][Next]_vars

(* Whether the directory can be opened. *)
Usable == config \in Written /\ db = "ready"

-----------------------------------------------------------------------------
(* init does not overwrite a configuration, even one that another init     *)
(* creates at the same time: only import, which has the database open,     *)
(* changes one that is written, and nothing removes blocks.                *)
InitKeepsConfig ==
    [][ /\ config \in Written /\ config' # config
            => \E p \in Proc : pc[p] = "add chain" /\ lock = p
        /\ blocks \subseteq blocks' ]_vars

(* After a successful init and without crashes the directory can be opened *)
(* whenever no command is running, however several init commands and       *)
(* imports were interleaved.                                               *)
InitIsEnough == inited /\ crashes = 0 /\ Idle => Usable

(* No command gets to write blocks to a database without its version, the  *)
(* remains of an init that was killed.                                     *)
BlocksNeedVersion ==
    \A p \in Proc :
        pc[p] \in {"add chain", "write chain", "blocks"} => db = "ready"

(* The file is the source of truth of the configuration: import adds its   *)
(* chain to what the file has, and no entry of another command is lost.    *)
NoChainLost == crashes = 0 /\ config \in Written => blocks \subseteq config.chains
=============================================================================

---------------------------- MODULE AppDirProofs ----------------------------
(***************************************************************************)
(* Any number of processes, chains, crashes, commands and directories: the *)
(* properties of the application directory, and below those of the         *)
(* commands that run in one.  The invariant for the directory says which   *)
(* process is alone with which part of it; the one for the commands where  *)
(* a process is in its command, which database it has open for writing,    *)
(* and how far what it has read and stored may lag behind.                 *)
(***************************************************************************)
EXTENDS AppDir, Commands, TLAPS

Step == {"idle", "create config", "write config", "database", "create database",
         "write version", "load", "open", "add chain", "write chain", "blocks"}
Holding == {"write version", "add chain", "write chain", "blocks"}

Types ==
    /\ pc \in [Proc -> Step]
    /\ db \in {"absent", "created", "ready"}
    /\ crashes \in Nat

(* The lock is held exactly in the steps that need it. *)
LockIsHeld == \A p \in Proc : pc[p] \in Holding <=> lock = p

(* The database is not there without its version unless it is written next. *)
VersionIsWritten ==
    \A p \in Proc :
        /\ pc[p] = "write version" => db = "created"
        /\ pc[p] \in {"add chain", "write chain", "blocks"} => db = "ready"

(* Who writes the file has just created or truncated it, and nobody else   *)
(* writes it: an init only creates it while no import is past its load.    *)
FileIsWritten ==
    /\ \A p \in Proc : pc[p] \in {"write config", "write chain"} => config = EmptyFile
    /\ config = NoFile => \A p \in Proc : pc[p] \notin {"open", "add chain"}
    /\ \A p, q \in Proc :
          pc[p] = "write config" /\ pc[q] \in {"write config", "open", "add chain", "write chain"}
              => p = q

(* Without crashes nothing is left half-done. *)
NothingHalfDone ==
    crashes = 0 =>
        /\ config = EmptyFile => \E p \in Proc : pc[p] \in {"write config", "write chain"}
        /\ db = "created" => \E p \in Proc : pc[p] = "write version"
        /\ \A p \in Proc : pc[p] \in {"database", "create database", "write version"}
              => config # NoFile
        /\ db # "absent" => config # NoFile
        /\ inited => db # "absent"

Shape == config \in Written \cup {NoFile, EmptyFile} /\ cfg \in [Proc -> SUBSET Chain]
             /\ chain \in [Proc -> Chain]

Safe == Types /\ LockIsHeld /\ VersionIsWritten /\ FileIsWritten
Whole == Shape /\ NothingHalfDone
-----------------------------------------------------------------------------
(* The three kinds of a configuration file are distinct. *)
LEMMA FileKinds ==
    /\ NoFile # EmptyFile
    /\ \A S : File(S) # NoFile /\ File(S) # EmptyFile
    /\ NoFile \notin Written /\ EmptyFile \notin Written
    /\ \A S \in SUBSET Chain : File(S) \in Written
    /\ \A f \in Written : f.chains \in SUBSET Chain
<1>1. NoFile.file = "none" /\ EmptyFile.file = "empty"
  BY DEF NoFile, EmptyFile
<1>2. \A S : File(S).file = "written" /\ File(S).chains = S
  BY DEF File
<1>3. \A S : File(S) # NoFile /\ File(S) # EmptyFile
  BY <1>1, <1>2
<1>4. \A f \in Written : \E S \in SUBSET Chain : f = File(S)
  BY DEF Written
<1>5. \A S \in SUBSET Chain : File(S) \in Written
  BY DEF Written
<1> QED
  BY <1>1, <1>2, <1>3, <1>4, <1>5

(* Each step keeps the lock, the version and the file to their process. *)
LEMMA SafeStep == Safe /\ [Next]_vars => Safe'
<1> SUFFICES ASSUME Safe, [Next]_vars PROVE Safe'
  OBVIOUS
<1> USE FileKinds, AppDirAssumption
<1> QED
  <2>1. ASSUME NEW p \in Proc, InitConfig(p)  PROVE  Safe'
    BY <2>1, FileKinds DEF InitConfig, Safe, Types, LockIsHeld,
         VersionIsWritten, FileIsWritten, Step, Holding, At, Go
  <2>2. ASSUME NEW p \in Proc, CreateConfig(p)  PROVE  Safe'
    BY <2>2, FileKinds DEF CreateConfig, Safe, Types, LockIsHeld,
         VersionIsWritten, FileIsWritten, Step, Holding, At, Go
  <2>3. ASSUME NEW p \in Proc, WriteConfig(p)  PROVE  Safe'
    BY <2>3, FileKinds DEF WriteConfig, Safe, Types, LockIsHeld,
         VersionIsWritten, FileIsWritten, Step, Holding, At, Go
  <2>4. ASSUME NEW p \in Proc, InitDatabase(p)  PROVE  Safe'
    BY <2>4, FileKinds DEF InitDatabase, Safe, Types, LockIsHeld,
         VersionIsWritten, FileIsWritten, Step, Holding, At, Go
  <2>5. ASSUME NEW p \in Proc, CreateDatabase(p)  PROVE  Safe'
    BY <2>5, FileKinds DEF CreateDatabase, Safe, Types, LockIsHeld,
         VersionIsWritten, FileIsWritten, Step, Holding, At, Go
  <2>6. ASSUME NEW p \in Proc, WriteVersion(p)  PROVE  Safe'
    BY <2>6, FileKinds DEF WriteVersion, Safe, Types, LockIsHeld,
         VersionIsWritten, FileIsWritten, Step, Holding, At, Go
  <2>7. ASSUME NEW p \in Proc, LoadConfig(p)  PROVE  Safe'
    BY <2>7, FileKinds DEF LoadConfig, Safe, Types, LockIsHeld,
         VersionIsWritten, FileIsWritten, Step, Holding, At, Go
  <2>8. ASSUME NEW p \in Proc, OpenDatabase(p)  PROVE  Safe'
    BY <2>8, FileKinds DEF OpenDatabase, Safe, Types, LockIsHeld,
         VersionIsWritten, FileIsWritten, Step, Holding, At, Go
  <2>9. ASSUME NEW p \in Proc, AddChain(p)  PROVE  Safe'
    BY <2>9, FileKinds DEF AddChain, Safe, Types, LockIsHeld, VersionIsWritten,
         FileIsWritten, Step, Holding, At, Go
  <2>10. ASSUME NEW p \in Proc, WriteChain(p)  PROVE  Safe'
    BY <2>10, FileKinds DEF WriteChain, Safe, Types, LockIsHeld,
         VersionIsWritten, FileIsWritten, Step, Holding, At, Go
  <2>11. ASSUME NEW p \in Proc, ImportBlocks(p)  PROVE  Safe'
    BY <2>11, FileKinds DEF ImportBlocks, Safe, Types, LockIsHeld,
         VersionIsWritten, FileIsWritten, Step, Holding, At, Go
  <2>12. ASSUME NEW p \in Proc, Crash(p)  PROVE  Safe'
    <3>1. Types'
      <4>1. pc' \in [Proc -> Step]
        BY <2>12 DEF Crash, Safe, Types, Step, Go
      <4>2. crashes' \in Nat
        BY <2>12 DEF Crash, Safe, Types
      <4> QED
        BY <2>12, <4>1, <4>2 DEF Crash, Safe, Types
    <3>2. \A q \in Proc : pc'[q] = IF q = p THEN "idle" ELSE pc[q]
      BY <2>12 DEF Crash, Go, Safe, Types
    <3>3. LockIsHeld'
      BY <2>12, <3>2 DEF Crash, Safe, LockIsHeld, Holding
    <3>4. VersionIsWritten' /\ FileIsWritten'
      BY <2>12, <3>2 DEF Crash, Safe, VersionIsWritten, FileIsWritten
    <3> QED
      BY <3>1, <3>3, <3>4 DEF Safe
  <2>13. ASSUME NEW p \in Proc, NEW c \in Chain, Open(p, c)  PROVE  Safe'
    BY <2>13, FileKinds DEF Open, Safe, Types, LockIsHeld, VersionIsWritten,
         FileIsWritten, Step, Holding, At, Go
  <2>14. CASE Remove
    BY <2>14, FileKinds DEF Remove, Idle, proc, Safe, Types, LockIsHeld,
         VersionIsWritten, FileIsWritten, Step, Holding, At, Go
  <2>15. CASE UNCHANGED vars
    BY <2>15, FileKinds DEF vars, proc, Safe, Types, LockIsHeld,
         VersionIsWritten, FileIsWritten, Step, Holding, At, Go
  <2> QED
    BY <2>1, <2>2, <2>3, <2>4, <2>5, <2>6, <2>7, <2>8, <2>9, <2>10, <2>11,
         <2>12, <2>13, <2>14, <2>15 DEF Next, InitStep, ImportStep

(* Each step of a command keeps the shape of the file and of what was read. *)
LEMMA ShapeStep == Shape /\ [Next]_vars => Shape'
<1> SUFFICES ASSUME Shape, [Next]_vars PROVE Shape'
  OBVIOUS
<1> QED
  <2>1. ASSUME NEW p \in Proc, InitConfig(p)  PROVE  Shape'
    BY <2>1, FileKinds DEF InitConfig, Shape, At, Go
  <2>2. ASSUME NEW p \in Proc, CreateConfig(p)  PROVE  Shape'
    BY <2>2, FileKinds DEF CreateConfig, Shape, At, Go
  <2>3. ASSUME NEW p \in Proc, WriteConfig(p)  PROVE  Shape'
    BY <2>3, FileKinds DEF WriteConfig, Shape, At, Go
  <2>4. ASSUME NEW p \in Proc, InitDatabase(p)  PROVE  Shape'
    BY <2>4, FileKinds DEF InitDatabase, Shape, At, Go
  <2>5. ASSUME NEW p \in Proc, CreateDatabase(p)  PROVE  Shape'
    BY <2>5, FileKinds DEF CreateDatabase, Shape, At, Go
  <2>6. ASSUME NEW p \in Proc, WriteVersion(p)  PROVE  Shape'
    BY <2>6, FileKinds DEF WriteVersion, Shape, At, Go
  <2>7. ASSUME NEW p \in Proc, LoadConfig(p)  PROVE  Shape'
    BY <2>7, FileKinds DEF LoadConfig, Shape, At, Go
  <2>8. ASSUME NEW p \in Proc, OpenDatabase(p)  PROVE  Shape'
    BY <2>8, FileKinds DEF OpenDatabase, Shape, At, Go
  <2>9. ASSUME NEW p \in Proc, AddChain(p)  PROVE  Shape'
    BY <2>9, FileKinds DEF AddChain, Shape, At, Go
  <2>10. ASSUME NEW p \in Proc, WriteChain(p)  PROVE  Shape'
    BY <2>10, FileKinds DEF WriteChain, Shape, At, Go
  <2>11. ASSUME NEW p \in Proc, ImportBlocks(p)  PROVE  Shape'
    BY <2>11, FileKinds DEF ImportBlocks, Shape, At, Go
  <2>12. ASSUME NEW p \in Proc, Crash(p)  PROVE  Shape'
    BY <2>12, FileKinds DEF Crash, Shape, At, Go
  <2>13. ASSUME NEW p \in Proc, NEW c \in Chain, Open(p, c)  PROVE  Shape'
    BY <2>13, FileKinds DEF Open, Shape, At, Go
  <2>14. CASE Remove
    BY <2>14, FileKinds DEF Remove, Idle, proc, Shape, At, Go
  <2>15. CASE UNCHANGED vars
    BY <2>15, FileKinds DEF vars, proc, Shape, At, Go
  <2> QED
    BY <2>1, <2>2, <2>3, <2>4, <2>5, <2>6, <2>7, <2>8, <2>9, <2>10, <2>11,
         <2>12, <2>13, <2>14, <2>15 DEF Next, InitStep, ImportStep

(* Without crashes each step leaves nothing half-done. *)
LEMMA WholeStep == Safe /\ Whole /\ [Next]_vars => NothingHalfDone'
<1> SUFFICES ASSUME Safe, Shape, NothingHalfDone, [Next]_vars PROVE NothingHalfDone'
  BY DEF Whole
<1> USE AppDirAssumption
<1> QED
  <2>1. ASSUME NEW p \in Proc, InitConfig(p)  PROVE  NothingHalfDone'
    BY <2>1, FileKinds DEF InitConfig, Safe, Types, LockIsHeld,
         VersionIsWritten, FileIsWritten, Shape, NothingHalfDone, Step, Holding,
         At, Go
  <2>2. ASSUME NEW p \in Proc, CreateConfig(p)  PROVE  NothingHalfDone'
    BY <2>2, FileKinds DEF CreateConfig, Safe, Types, LockIsHeld,
         VersionIsWritten, FileIsWritten, Shape, NothingHalfDone, Step, Holding,
         At, Go
  <2>3. ASSUME NEW p \in Proc, WriteConfig(p)  PROVE  NothingHalfDone'
    BY <2>3, FileKinds DEF WriteConfig, Safe, Types, LockIsHeld,
         VersionIsWritten, FileIsWritten, Shape, NothingHalfDone, Step, Holding,
         At, Go
  <2>4. ASSUME NEW p \in Proc, InitDatabase(p)  PROVE  NothingHalfDone'
    BY <2>4, FileKinds DEF InitDatabase, Safe, Types, LockIsHeld,
         VersionIsWritten, FileIsWritten, Shape, NothingHalfDone, Step, Holding,
         At, Go
  <2>5. ASSUME NEW p \in Proc, CreateDatabase(p)  PROVE  NothingHalfDone'
    BY <2>5, FileKinds DEF CreateDatabase, Safe, Types, LockIsHeld,
         VersionIsWritten, FileIsWritten, Shape, NothingHalfDone, Step, Holding,
         At, Go
  <2>6. ASSUME NEW p \in Proc, WriteVersion(p)  PROVE  NothingHalfDone'
    BY <2>6, FileKinds DEF WriteVersion, Safe, Types, LockIsHeld,
         VersionIsWritten, FileIsWritten, Shape, NothingHalfDone, Step, Holding,
         At, Go
  <2>7. ASSUME NEW p \in Proc, LoadConfig(p)  PROVE  NothingHalfDone'
    BY <2>7, FileKinds DEF LoadConfig, Safe, Types, LockIsHeld,
         VersionIsWritten, FileIsWritten, Shape, NothingHalfDone, Step, Holding,
         At, Go
  <2>8. ASSUME NEW p \in Proc, OpenDatabase(p)  PROVE  NothingHalfDone'
    BY <2>8, FileKinds DEF OpenDatabase, Safe, Types, LockIsHeld,
         VersionIsWritten, FileIsWritten, Shape, NothingHalfDone, Step, Holding,
         At, Go
  <2>9. ASSUME NEW p \in Proc, AddChain(p)  PROVE  NothingHalfDone'
    BY <2>9, FileKinds DEF AddChain, Safe, Types, LockIsHeld, VersionIsWritten,
         FileIsWritten, Shape, NothingHalfDone, Step, Holding, At, Go
  <2>10. ASSUME NEW p \in Proc, WriteChain(p)  PROVE  NothingHalfDone'
    BY <2>10, FileKinds DEF WriteChain, Safe, Types, LockIsHeld,
         VersionIsWritten, FileIsWritten, Shape, NothingHalfDone, Step, Holding,
         At, Go
  <2>11. ASSUME NEW p \in Proc, ImportBlocks(p)  PROVE  NothingHalfDone'
    BY <2>11, FileKinds DEF ImportBlocks, Safe, Types, LockIsHeld,
         VersionIsWritten, FileIsWritten, Shape, NothingHalfDone, Step, Holding,
         At, Go
  <2>12. ASSUME NEW p \in Proc, Crash(p)  PROVE  NothingHalfDone'
    <3>1. crashes \in Nat /\ crashes' = crashes + 1
      BY <2>12 DEF Crash, Safe, Types
    <3>2. crashes' # 0
      BY <3>1
    <3> QED
      BY <3>2 DEF NothingHalfDone
  <2>13. ASSUME NEW p \in Proc, NEW c \in Chain, Open(p, c)  PROVE  NothingHalfDone'
    BY <2>13, FileKinds DEF Open, Safe, Types, LockIsHeld, VersionIsWritten,
         FileIsWritten, Shape, NothingHalfDone, Step, Holding, At, Go
  <2>14. CASE Remove
    BY <2>14, FileKinds DEF Remove, Idle, proc, Safe, Types, LockIsHeld,
         VersionIsWritten, FileIsWritten, Shape, NothingHalfDone, Step, Holding,
         At, Go
  <2>15. CASE UNCHANGED vars
    BY <2>15, FileKinds DEF vars, proc, Safe, Types, LockIsHeld,
         VersionIsWritten, FileIsWritten, Shape, NothingHalfDone, Step, Holding,
         At, Go
  <2> QED
    BY <2>1, <2>2, <2>3, <2>4, <2>5, <2>6, <2>7, <2>8, <2>9, <2>10, <2>11,
         <2>12, <2>13, <2>14, <2>15 DEF Next, InitStep, ImportStep

-----------------------------------------------------------------------------
(* A directory that does not exist yet is safe and nothing in it half-done. *)
LEMMA InitiallySafe == Init => Safe /\ Whole
<1> SUFFICES ASSUME Init PROVE Safe /\ Whole
  OBVIOUS
<1> USE FileKinds, AppDirAssumption
<1>1. Types /\ LockIsHeld
  BY DEF Init, Types, LockIsHeld, Step, Holding
<1>2. VersionIsWritten /\ FileIsWritten
  BY DEF Init, VersionIsWritten, FileIsWritten
<1>3. (CHOOSE c \in Chain : TRUE) \in Chain
  OBVIOUS
<1>4. Shape
  BY <1>3 DEF Init, Shape
<1>5. NothingHalfDone
  BY DEF Init, NothingHalfDone
<1> QED
  BY <1>1, <1>2, <1>4, <1>5 DEF Safe, Whole

(* The invariant. *)
LEMMA AlwaysSafe == Spec => [](Safe /\ Whole)
<1>1. Safe /\ Whole /\ [Next]_vars => (Safe /\ Whole)'
  BY SafeStep, ShapeStep, WholeStep DEF Whole
<1> QED
  BY InitiallySafe, <1>1, PTL DEF Spec

(* With any number of processes and crashes no import writes to a database *)
(* whose version is missing (KvDbBackedBlockDb::open).                     *)
THEOREM ImportsNeedVersion == Spec => []BlocksNeedVersion
<1>1. Safe => BlocksNeedVersion
  BY DEF Safe, VersionIsWritten, BlocksNeedVersion
<1> QED
  BY AlwaysSafe, <1>1, PTL

(* Any number of init commands that race, with each other and with         *)
(* imports, leave a written configuration alone (File::create_new).        *)
THEOREM InitOverwritesNothing == Spec => InitKeepsConfig
<1> DEFINE Change == config \in Written /\ config' # config
           Keeps == /\ Change => \E p \in Proc : pc[p] = "add chain" /\ lock = p
                    /\ blocks \subseteq blocks'
<1>1. ASSUME Safe, Next PROVE blocks \subseteq blocks'
  BY <1>1 DEF Next, InitStep, ImportStep, InitConfig, CreateConfig, WriteConfig,
       InitDatabase, CreateDatabase, WriteVersion, Open, LoadConfig, OpenDatabase,
       AddChain, WriteChain, ImportBlocks, Crash, Remove
<1>2. ASSUME Safe, Next, Change PROVE \E p \in Proc : pc[p] = "add chain" /\ lock = p
  <2>1. PICK p \in Proc : CreateConfig(p) \/ WriteConfig(p) \/ AddChain(p) \/ WriteChain(p)
    BY <1>2, FileKinds DEF Next, InitStep, ImportStep, InitConfig, InitDatabase,
         CreateDatabase, WriteVersion, Open, LoadConfig, OpenDatabase, ImportBlocks,
         Crash, Remove
  <2>2. pc[p] \notin {"write config", "write chain"}
    BY <1>2, FileKinds DEF Safe, FileIsWritten
  <2>3. ~ CreateConfig(p)
    BY <1>2, FileKinds DEF CreateConfig
  <2>4. pc[p] = "add chain"
    BY <2>1, <2>2, <2>3 DEF WriteConfig, AddChain, WriteChain, At
  <2> QED
    BY <1>2, <2>4 DEF Safe, LockIsHeld, Holding
<1>3. Safe /\ [Next]_vars => [Keeps]_vars
  BY <1>1, <1>2
<1> QED
  BY AlwaysSafe, <1>3, PTL DEF Spec, InitKeepsConfig

(* Without crashes a successful init is enough, whatever else runs: once   *)
(* no command is running the directory can be opened (init_app_dir).       *)
THEOREM InitSuffices == Spec => []InitIsEnough
<1>1. Safe /\ Whole => InitIsEnough
  BY FileKinds DEF Safe, Types, Whole, Shape, NothingHalfDone, InitIsEnough, Idle,
       Usable
<1> QED
  BY AlwaysSafe, <1>1, PTL

-----------------------------------------------------------------------------
(* The commands.  Where a process is: before it has opened its database,   *)
(* at a server, or anywhere.                                               *)
Before == {"new", "bind", "load", "open"}
AtServer == {"request", "listing", "rules", "corrections", "store rules", "store corrections"}
Places == Before \cup AtServer
              \cup {"serving", "read file", "connect", "print", "ended"}

Tables == [Kind -> [ChainId -> Nat]]
Stores == [ids : SUBSET ChainId, meta : Tables, blocks : [ChainId -> Nat]]
Found == [ids : SUBSET ChainId, left : SUBSET ChainId, meta : Tables,
          blocks : [ChainId -> Nat]]

CmdTypes ==
    /\ store \in [Dir -> Stores]
    /\ conf \in [Dir -> Config]
    /\ primary \in [Dir -> Process \cup {Nobody}]
    /\ step \in [Process -> Places]
    /\ loaded \in [Process -> Config]
    /\ view \in [Process -> Stores]
    /\ peer \in [Process -> Process \cup {Nobody}]
    /\ answer \in [Process -> Found]
    /\ begin \in [Process -> Stores]
    /\ ctrl_c \in [Process -> BOOLEAN]
    /\ code \in [Process -> Int]
    /\ DOMAIN command = Process
    /\ command = [p \in Process |-> command[p]]

(* Every process does what its command line says. *)
Script ==
    \A p \in Process :
        /\ step[p] = "new" => command[p] = NoCommand
        /\ step[p] # "new" => command[p] \in Offered
        /\ step[p] \notin {"new", "ended"} /\ command[p].name # "start" /\ ~command[p].all =>
               Id(p) \in ChainId
        /\ step[p] \in {"bind", "serving"} => command[p].name = "start"
        /\ step[p] = "read file" => command[p].name \in Imports
        /\ step[p] \in AtServer \cup {"connect"} => command[p].remote
        /\ step[p] = "listing" => command[p].name = "list"
        /\ step[p] \in AtServer \ {"request", "listing"} => command[p].name = "fetch-metadata"
        /\ step[p] = "print" => ~Writes(p) /\ ~command[p].remote

(* A database is open for writing in the one process whose command writes. *)
Holders ==
    \A p \in Process, d \in Dir :
        primary[d] = p <=> /\ command[p].dir = d /\ Writes(p)
                           /\ step[p] \notin Before \cup {"ended"}

(* A process has a peer from Connect on: a server, which has opened its    *)
(* database and never loads its configuration again.                       *)
Peers ==
    \A p \in Process :
        /\ step[p] \in AtServer => peer[p] \in Process
        /\ step[p] \notin AtServer \cup {"ended"} => peer[p] = Nobody
        /\ peer[p] \in Process =>
               /\ step[peer[p]] \in {"serving", "ended"}
               /\ command[peer[p]].name = "start"
               /\ command[peer[p]].dir = command[p].url

Quiet ==
    \A p \in Process :
        /\ step[p] # "ended" => code[p] = -1
        /\ step[p] \notin {"ended", "listing", "rules", "corrections", "store rules", "store corrections"}
               => answer[p] = Nothing

(* Only a request with the token gets past the interceptor. *)
Cleared(p) == loaded[peer[p]].token = NoToken \/ loaded[p].token = loaded[peer[p]].token

PastTheCheck ==
    \A p \in Process : step[p] \in AtServer \ {"request"} => Cleared(p)

(* No metadata is written beside a server, ... *)
MetadataOfServer ==
    \A p \in Process :
        /\ step[p] = "serving" => view[p].meta = store[command[p].dir].meta
        /\ step[p] = "corrections" /\ step[peer[p]] = "serving" =>
               answer[p].meta["rules"] = view[peer[p]].meta["rules"]

(* ... nor beside a client that fetches it. *)
MetadataOfClient ==
    \A p \in Process :
        /\ step[p] \notin Before \cup {"ended", "store corrections"}
             /\ command[p].name = "fetch-metadata"
               => store[command[p].dir] = begin[p]
        /\ step[p] = "store corrections" =>
               Pair(store[command[p].dir], p) =
                   [Pair(begin[p], p) EXCEPT !["rules"] = Merged(p)["rules"]]

(* Databases only grow, and so do views of them. *)
Grown(a, b) == a.ids \subseteq b.ids /\ Has(a, b)

Listings ==
    \A p \in Process :
        /\ step[p] \in {"serving", "print"} => Grown(view[p], store[command[p].dir])
        /\ step[p] \in {"bind", "load", "open"} => Grown(begin[p], store[command[p].dir])
        /\ step[p] = "print" => Grown(begin[p], view[p])
        /\ step[p] \in {"request", "listing"} /\ command[p].name = "list" =>
               Grown(begin[p], view[peer[p]])
        /\ step[p] = "listing" =>
               /\ Asked(p) \subseteq answer[p].ids \cup answer[p].left
               /\ \A c \in answer[p].ids :
                     /\ begin[p].blocks[c] <= answer[p].blocks[c]
                     /\ \A k \in Kind : begin[p].meta[k][c] # 0 => answer[p].meta[k][c] # 0
               /\ Has(answer[p], store[command[p].url])

CmdIInv == CmdTypes /\ Script /\ Holders /\ Peers /\ Quiet /\ PastTheCheck /\ OnlyWithToken
            /\ MetadataOfServer /\ MetadataOfClient /\ Listings

-----------------------------------------------------------------------------
(* A step of process p. *)
Act(p) ==
    \/ \E cmd \in Offered : Run(p, cmd)
    \/ BindAddress(p) \/ Load(p) \/ OpenForWriting(p) \/ OpenForReading(p)
    \/ FileMissing(p) \/ Show(p)
    \/ CatchUp(p) \/ ServerFails(p)
    \/ Connect(p) \/ Request(p) \/ ConnectionLost(p) \/ ShowListing(p)
    \/ GetMetadata(p, "rules", "corrections")
    \/ GetMetadata(p, "corrections", "store rules")
    \/ StoreRules(p) \/ StoreCorrections(p)
    \/ CtrlC(p) \/ Dropped(p) \/ Kill(p)
    \/ \E doc \in Document : ImportFile(p, doc)
    \/ \E c \in ChainId : SyncBlock(p, c) \/ ListChain(p, c)

LEMMA NextActs ==
    ASSUME CmdNext
    PROVE  \/ \E p \in Process : Act(p)
           \/ \E d \in Dir : EditToken(d, "two")
           \/ UNCHANGED cmdVars
<1> USE CommandsAssumption DEF Act
<1> QED
  BY DEF CmdNext, AllEnded

LEMMA OfferedCommands ==
    ASSUME NEW cmd \in Offered
    PROVE  /\ cmd.dir \in Dir /\ cmd.url \in Dir
           /\ cmd.all \in BOOLEAN /\ cmd.remote \in BOOLEAN /\ cmd.kind \in Kind
           /\ cmd.chain \in ChainArg \cup {NotAChain}
           /\ cmd.name \in Imports \cup Views \cup {"list", "start", "fetch-metadata"}
           /\ cmd.remote => cmd.name \in {"list", "fetch-metadata"}
           /\ cmd.name = "fetch-metadata" => cmd.remote
           /\ cmd.all => cmd.name = "list"
<1>1. PICK d \in Dir, c \in ChainArg \cup {NotAChain}, url \in Dir : cmd \in CommandsIn(d, c, url)
  BY CommandsAssumption DEF CommandLines
<1>2. \A name : KindOf(name) \in Kind
  BY DEF KindOf, Kind
<1> HIDE DEF KindOf
<1>6. CASE \E name \in Imports \cup Views \cup {"list"} : cmd = Local(name, d, c)
  BY <1>2, <1>6 DEF Local, CommandWith, Imports, Views
<1>7. CASE cmd = CommandWith("list", d, c, TRUE, FALSE, d)
  BY <1>2, <1>7 DEF CommandWith
<1>8. CASE cmd = Local("start", d, NotAChain)
  BY <1>2, <1>8 DEF Local, CommandWith
<1>9. CASE cmd = CommandWith("fetch-metadata", d, c, FALSE, TRUE, url)
  BY <1>2, <1>9 DEF CommandWith
<1>10. CASE cmd = CommandWith("list", d, c, FALSE, TRUE, url)
  BY <1>2, <1>10 DEF CommandWith
<1>11. CASE cmd = CommandWith("list", d, c, TRUE, TRUE, url)
  BY <1>2, <1>11 DEF CommandWith
<1>. QED
  BY <1>1, <1>6, <1>7, <1>8, <1>9, <1>10, <1>11 DEF CommandsIn

(* The commands of the processes that are past Run. *)
LEMMA ScriptFacts ==
    ASSUME CmdTypes, Script, NEW p \in Process, step[p] # "new"
    PROVE  /\ command[p] \in Offered
           /\ command[p].dir \in Dir /\ command[p].url \in Dir /\ command[p].kind \in Kind
           /\ command[p].name = "fetch-metadata" => Writes(p) /\ ~command[p].all
           /\ command[p].name = "start" => Writes(p)
           /\ command[p].name \in Imports => Writes(p) /\ ~command[p].all
           /\ command[p].name = "list" => ~Writes(p)
BY OfferedCommands DEF Script, Writes, Imports, Views

LEMMA PutMetadataType ==
    ASSUME NEW base \in Stores, NEW k \in Kind, NEW c \in ChainId, NEW doc \in Nat
    PROVE  /\ PutMetadata(base, k, c, doc) \in Stores
           /\ PutMetadata(base, k, c, doc).ids = base.ids \cup {c}
           /\ PutMetadata(base, k, c, doc).blocks = base.blocks
           /\ \A j \in Kind : j # k => PutMetadata(base, k, c, doc).meta[j] = base.meta[j]
           /\ \A e \in ChainId : PutMetadata(base, k, c, doc).meta[k][e] = IF e = c THEN doc ELSE base.meta[k][e]
<1> DEFINE m == [base.meta EXCEPT ![k][c] = doc]
<1>1. m \in Tables /\ (\A j \in Kind : j # k => m[j] = base.meta[j])
        /\ \A e \in ChainId : m[k][e] = IF e = c THEN doc ELSE base.meta[k][e]
  BY DEF Stores, Tables
<1>2. PutMetadata(base, k, c, doc) = [ids |-> base.ids \cup {c}, meta |-> m, blocks |-> base.blocks]
  BY DEF PutMetadata
<1> HIDE DEF m
<1>3. base.ids \cup {c} \in SUBSET ChainId /\ base.blocks \in [ChainId -> Nat]
  BY DEF Stores
<1>. QED
  BY <1>1, <1>2, <1>3 DEF Stores

LEMMA InitialValues ==
    /\ Empty \in Stores /\ Imported \in Stores /\ Nothing \in Found
    /\ DefaultConfig \in Config /\ Edited \subseteq Config
<1>0. 146 \in ChainId
  <2>1. [name |-> "", id |-> 146] \in ChainArg
    BY DEF ChainArg, Number
  <2>2. ToChainId([name |-> "", id |-> 146]) = 146
    BY DEF ToChainId
  <2>. QED
    BY <2>1, <2>2 DEF ChainId
<1>1. Empty \in Stores
  BY DEF Empty, Stores, Tables
<1>2. Imported \in Stores
  <2>1. PutMetadata(Empty, "rules", 146, 1) \in Stores
    BY <1>0, <1>1, PutMetadataType DEF Kind
  <2>. QED
    BY <1>0, <2>1, PutMetadataType DEF Kind, Imported
<1>3. Nothing \in Found
  BY <1>1 DEF Nothing, Stores, Found
<1>4. DefaultConfig \in Config /\ Edited \subseteq Config
  BY <1>0 DEF DefaultConfig, Edited, Config, NoToken
<1>. QED
  BY <1>1, <1>2, <1>3, <1>4

LEMMA ExitTypes ==
    ASSUME CmdTypes, NEW p \in Process, NEW c \in Int, Exit(p, c)
    PROVE  /\ step' \in [Process -> Places] /\ code' \in [Process -> Int]
           /\ primary' \in [Dir -> Process \cup {Nobody}]
BY DEF CmdTypes, Exit, Goto, Places

LEMMA ExitCodes == ExitCode("error") = 1 /\ ExitCode("ok") = 0
BY DEF ExitCode

(* A server writes blocks only, and what a command writes is metadata that *)
(* is there.                                                               *)
LEMMA StoreTypes ==
    ASSUME CmdTypes, Script, NEW p \in Process, Act(p)
    PROVE  store' \in [Dir -> Stores]
<1> USE DEF CmdTypes
<1>1. CASE \E doc \in Document : ImportFile(p, doc)
  <2>1. PICK doc \in Document : ImportFile(p, doc)
    BY <1>1
  <2>2. /\ step[p] = "read file"
        /\ store' = [store EXCEPT ![command[p].dir] = PutMetadata(@, command[p].kind, Id(p), doc)]
    BY <2>1 DEF ImportFile
  <2>3. command[p].dir \in Dir /\ command[p].kind \in Kind /\ Id(p) \in ChainId
    BY <2>2, ScriptFacts DEF Script, Imports
  <2>4. PutMetadata(store[command[p].dir], command[p].kind, Id(p), doc) \in Stores
    BY <2>3, PutMetadataType, CommandsAssumption
  <2>. QED
    BY <2>2, <2>3, <2>4
<1>2. ASSUME NEW k \in {"rules", "corrections"}, Answered(p, k, answer[p].meta[k][Id(p)]),
             step[p] \in {"store rules", "store corrections"}
      PROVE  store' \in [Dir -> Stores]
  <2>1. command[p].dir \in Dir /\ Id(p) \in ChainId /\ k \in Kind
    BY <1>2, ScriptFacts DEF Script, AtServer, Kind
  <2>2. answer[p].meta[k][Id(p)] \in Nat
    BY <2>1 DEF Found, Tables
  <2>3. PutMetadata(store[command[p].dir], k, Id(p), answer[p].meta[k][Id(p)]) \in Stores
    BY <2>1, <2>2, PutMetadataType
  <2>. QED
    BY <1>2, <2>1, <2>3 DEF Answered
<1>3. CASE \E c \in ChainId : SyncBlock(p, c)
  <2>1. PICK c \in ChainId : SyncBlock(p, c)
    BY <1>3
  <2> DEFINE d == command[p].dir
             base == store[d]
             new == [base EXCEPT !.ids = @ \cup {c}, !.blocks[c] = @ + 1]
  <2>2. step[p] = "serving" /\ store' = [store EXCEPT ![d] = new]
    BY <2>1 DEF SyncBlock
  <2>3. d \in Dir
    BY <2>2, ScriptFacts
  <2>4. base \in Stores
    BY <2>3
  <2>5. new \in Stores
    <3>1. [base.blocks EXCEPT ![c] = @ + 1] \in [ChainId -> Nat]
      BY <2>4 DEF Stores
    <3>. QED
      BY <2>4, <3>1 DEF Stores
  <2>. QED
    BY <2>2, <2>3, <2>5
<1>4. CASE StoreRules(p) \/ StoreCorrections(p)
  BY <1>2, <1>4 DEF StoreRules, StoreCorrections, From
<1>5. CASE UNCHANGED store
  BY <1>5
<1>. QED
  BY <1>1, <1>3, <1>4, <1>5
     DEF Act, Run, BindAddress, Load, OpenForWriting, OpenForReading, FileMissing, Show,
         CatchUp, ServerFails, Connect, Request, ConnectionLost, ShowListing, GetMetadata,
         CtrlC, Dropped, Kill, ListChain, shared

LEMMA TypesStep ==
    ASSUME CmdTypes, Script, Peers, [CmdNext]_cmdVars
    PROVE  CmdTypes'
<1>0. \A p \in Process : step[p] # "new" => command[p].dir \in Dir /\ command[p].url \in Dir
  BY ScriptFacts
<1>1. ASSUME NEW p \in Process, Act(p)
      PROVE  CmdTypes'
  <2>0. store' \in [Dir -> Stores]
    BY <1>1, StoreTypes
  <2>1. conf' = conf /\ ctrl_c' \in [Process -> BOOLEAN]
    BY <1>1 DEF Act, CmdTypes, shared, Run, BindAddress, Load, OpenForWriting, OpenForReading,
         FileMissing, Show, CatchUp, ServerFails, Connect, Request, ConnectionLost, ShowListing,
         GetMetadata, CtrlC, Dropped, Kill, ListChain, SyncBlock, ImportFile, StoreRules,
         StoreCorrections
  <2>2. DOMAIN command' = Process /\ command' = [q \in Process |-> command'[q]]
    <3>1. CASE \E cmd \in Offered : Run(p, cmd)
      BY <3>1 DEF Run, CmdTypes
    <3>2. CASE UNCHANGED command
      BY <3>2 DEF CmdTypes
    <3>. QED
      BY <1>1, <3>1, <3>2
         DEF Act, BindAddress, Load, OpenForWriting, OpenForReading, FileMissing, Show,
         CatchUp, ServerFails, Connect, Request, ConnectionLost, ShowListing, GetMetadata,
         CtrlC, Dropped, Kill, ListChain, SyncBlock, ImportFile, StoreRules, StoreCorrections
  <2>3. loaded' \in [Process -> Config]
    <3>1. CASE Load(p)
      <4>1. command[p].dir \in Dir
        BY <1>0, <3>1 DEF Load, From
      <4>. QED
        BY <3>1, <4>1 DEF Load, CmdTypes
    <3>2. CASE UNCHANGED loaded
      BY <3>2 DEF CmdTypes
    <3>. QED
      BY <1>1, <3>1, <3>2
         DEF Act, Run, BindAddress, OpenForWriting, OpenForReading, FileMissing, Show,
         CatchUp, ServerFails, Connect, Request, ConnectionLost, ShowListing, GetMetadata,
         CtrlC, Dropped, Kill, ListChain, SyncBlock, ImportFile, StoreRules, StoreCorrections
  <2>4. view' \in [Process -> Stores]
    <3>1. CASE OpenForWriting(p) \/ OpenForReading(p) \/ CatchUp(p)
      <4>1. command[p].dir \in Dir
        BY <1>0, <3>1 DEF OpenForWriting, OpenForReading, CatchUp, From
      <4>. QED
        BY <3>1, <4>1 DEF OpenForWriting, OpenForReading, CatchUp, CmdTypes
    <3>2. CASE UNCHANGED view
      BY <3>2 DEF CmdTypes
    <3>. QED
      BY <1>1, <3>1, <3>2
         DEF Act, Run, BindAddress, Load, FileMissing, Show,
         ServerFails, Connect, Request, ConnectionLost, ShowListing, GetMetadata,
         CtrlC, Dropped, Kill, ListChain, SyncBlock, ImportFile, StoreRules, StoreCorrections
  <2>5. peer' \in [Process -> Process \cup {Nobody}] /\ begin' \in [Process -> Stores]
    <3>1. CASE Connect(p)
      <4>1. CASE UNCHANGED <<peer, begin>>
        BY <4>1 DEF CmdTypes
      <4>2. CASE \E s \in Serving(command[p].url) :
                /\ peer' = [peer EXCEPT ![p] = s]
                /\ begin' = [begin EXCEPT ![p] =
                       IF command[p].name = "list" THEN view[s] ELSE @]
        BY <4>2 DEF CmdTypes, Serving, Listens
      <4>. QED
        BY <3>1, <4>1, <4>2 DEF Connect
    <3>2. CASE \E cmd \in Offered : Run(p, cmd)
      <4>1. PICK cmd \in Offered : Run(p, cmd)
        BY <3>2
      <4>2. cmd.dir \in Dir
        BY OfferedCommands
      <4>. QED
        BY <4>1, <4>2 DEF Run, CmdTypes
    <3>3. CASE OpenForWriting(p)
      <4>1. command[p].dir \in Dir
        BY <1>0, <3>3 DEF OpenForWriting
      <4>. QED
        BY <3>3, <4>1 DEF OpenForWriting, CmdTypes
    <3>4. CASE UNCHANGED <<peer, begin>>
      BY <3>4 DEF CmdTypes
    <3>. QED
      BY <1>1, <3>1, <3>2, <3>3, <3>4
         DEF Act, BindAddress, Load, OpenForReading, FileMissing, Show,
         CatchUp, ServerFails, Request, ConnectionLost, ShowListing, GetMetadata,
         CtrlC, Dropped, Kill, ListChain, SyncBlock, ImportFile, StoreRules, StoreCorrections
  <2>6. answer' \in [Process -> Found]
    <3>1. CASE Show(p)
      <4>1. step[p] = "print" /\ command[p] \in Offered /\ command[p].all \in BOOLEAN
        BY <3>1, ScriptFacts, OfferedCommands DEF Show
      <4>2. ~command[p].all => Id(p) \in ChainId
        BY <4>1 DEF Script, Writes
      <4>3. command[p].name # "list" => ~command[p].all
        BY <4>1, OfferedCommands
      <4>4. ChainsToList(p) \in SUBSET ChainId \/ command[p].name # "list"
        BY <4>1, <4>2 DEF ChainsToList, CmdTypes, Stores, Config
      <4>5. (IF command[p].name = "list" THEN ChainsToList(p) ELSE {Id(p)}) \in SUBSET ChainId
        BY <4>2, <4>3, <4>4
      <4>6. view[p].meta \in Tables /\ view[p].blocks \in [ChainId -> Nat]
        BY DEF CmdTypes, Stores
      <4>7. [ids |-> IF command[p].name = "list" THEN ChainsToList(p) ELSE {Id(p)},
             left |-> {}, meta |-> view[p].meta, blocks |-> view[p].blocks] \in Found
        BY <4>5, <4>6 DEF Found
      <4>. QED
        BY <3>1, <4>7 DEF Show, CmdTypes
    <3>2. CASE Request(p)
      <4> DEFINE left == IF command[p].name = "list" /\ command[p].all
                         THEN view[peer[p]].ids ELSE {Id(p)}
      <4>1. step[p] = "request" /\ command[p] \in Offered
        BY <3>2, ScriptFacts DEF Request
      <4>2. ~command[p].all => Id(p) \in ChainId
        BY <4>1, OfferedCommands DEF Script, AtServer
      <4>3. peer[p] \in Process /\ (command[p].all => command[p].name = "list")
        BY <4>1, OfferedCommands DEF Peers, AtServer
      <4>4. left \in SUBSET ChainId
        BY <4>2, <4>3 DEF CmdTypes, Stores
      <4> HIDE DEF left
      <4>a. answer[p] \in Found
        BY DEF CmdTypes
      <4>5. [answer[p] EXCEPT !.left = left] \in Found
        BY <4>4, <4>a DEF Found
      <4>6. UNCHANGED answer \/ answer' = [answer EXCEPT ![p].left = left]
        BY <3>2 DEF Request, left
      <4>. QED
        BY <4>5, <4>6 DEF CmdTypes
    <3>3. CASE \E c \in ChainId : ListChain(p, c)
      <4>1. PICK c \in ChainId : ListChain(p, c)
        BY <3>3
      <4> DEFINE base == view[peer[p]]
                 a == answer[p]
                 m == [k \in Kind |-> [a.meta[k] EXCEPT ![c] = base.meta[k][c]]]
                 b == [a.blocks EXCEPT ![c] = base.blocks[c]]
      <4>2. answer' = [answer EXCEPT ![p] = [ids |-> a.ids \cup {c}, left |-> a.left \ {c},
                                             meta |-> m, blocks |-> b]]
        BY <4>1 DEF ListChain
      <4>3. peer[p] \in Process
        BY <4>1 DEF ListChain, Answers, Peers, AtServer
      <4>4. base \in Stores /\ a \in Found
        BY <4>3 DEF CmdTypes
      <4>5. m \in Tables /\ b \in [ChainId -> Nat]
        BY <4>4 DEF Stores, Found, Tables
      <4>6. a.ids \cup {c} \in SUBSET ChainId /\ a.left \ {c} \in SUBSET ChainId
        BY <4>4 DEF Found
      <4> HIDE DEF base, a, m, b
      <4>7. [ids |-> a.ids \cup {c}, left |-> a.left \ {c}, meta |-> m, blocks |-> b] \in Found
        BY <4>5, <4>6 DEF Found
      <4>. QED
        BY <4>2, <4>7 DEF CmdTypes
    <3>4. ASSUME NEW k \in {"rules", "corrections"}, NEW next, GetMetadata(p, k, next)
          PROVE  answer' \in [Process -> Found]
      <4>1. peer[p] \in Process
        BY <3>4 DEF GetMetadata, Answers, Peers, AtServer
      <4>2. [answer[p].meta EXCEPT ![k] = view[peer[p]].meta[k]] \in Tables
        BY <4>1 DEF CmdTypes, Stores, Found, Tables, Kind
      <4>a. answer[p] \in Found
        BY DEF CmdTypes
      <4>3. [answer[p] EXCEPT !.meta[k] = view[peer[p]].meta[k]] \in Found
        BY <4>2, <4>a DEF Found
      <4>. QED
        BY <3>4, <4>3 DEF GetMetadata, CmdTypes
    <3>5. CASE UNCHANGED answer
      BY <3>5 DEF CmdTypes
    <3>. QED
      BY <1>1, <3>1, <3>2, <3>3, <3>4, <3>5
         DEF Act, Run, BindAddress, Load, OpenForWriting, OpenForReading, FileMissing,
         CatchUp, ServerFails, Connect, ConnectionLost, ShowListing,
         CtrlC, Dropped, Kill, SyncBlock, ImportFile, StoreRules, StoreCorrections
  <2>7. /\ step' \in [Process -> Places] /\ code' \in [Process -> Int]
        /\ primary' \in [Dir -> Process \cup {Nobody}]
    <3>1. CASE \E c \in Int : Exit(p, c)
      BY <3>1, ExitTypes
    <3>2. CASE step' \in [Process -> Places] /\ UNCHANGED <<primary, code>>
      BY <3>2 DEF CmdTypes
    <3>3. CASE OpenForWriting(p)
      <4>1. Opened(p) \in Places
        BY DEF Opened, Places, AtServer, Before
      <4>2. CASE Return(p, "error")
        BY <3>1, <4>2, ExitCodes DEF Return
      <4>3. CASE /\ Goto(p, Opened(p))
                 /\ primary' = [primary EXCEPT ![command[p].dir] = p]
                 /\ UNCHANGED code
        BY <4>1, <4>3 DEF Goto, CmdTypes
      <4>. QED
        BY <3>3, <4>2, <4>3 DEF OpenForWriting
    <3>4. \A s \in Places : Goto(p, s) => step' \in [Process -> Places]
      BY DEF Goto, CmdTypes
    <3>5. Opened(p) \in Places
      BY DEF Opened, Places, AtServer, Before
    <3>6. {"bind", "load", "open", "request", "listing", "rules", "corrections", "store rules",
           "store corrections"} \subseteq Places
      BY DEF Places, AtServer, Before
    <3>7. \A r \in {"ok", "error"} : Return(p, r) => \E c \in Int : Exit(p, c)
      BY ExitCodes DEF Return
    <3>8. CASE \E cmd \in Offered : Run(p, cmd)
      <4>1. PICK cmd \in Offered : Run(p, cmd)
        BY <3>8
      <4>2. \/ Exit(p, 2) \/ Return(p, "error")
            \/ (Goto(p, "bind") \/ Goto(p, "load")) /\ Goes
        BY <4>1 DEF Run
      <4>3. CASE Exit(p, 2) \/ Return(p, "error")
        BY <3>1, <3>7, <4>3
      <4>. QED
        BY <3>2, <3>4, <3>6, <4>2, <4>3 DEF Goes
    <3>9. CASE BindAddress(p) \/ Load(p) \/ OpenForReading(p) \/ FileMissing(p) \/ Show(p)
               \/ ServerFails(p) \/ Connect(p)
      BY <3>1, <3>2, <3>4, <3>5, <3>6, <3>7, <3>9
         DEF BindAddress, Load, OpenForReading, FileMissing, Show, ServerFails, Connect, From, Goes
    <3>10. CASE ConnectionLost(p) \/ ShowListing(p) \/ StoreCorrections(p) \/ Dropped(p) \/ Kill(p)
                \/ (\E doc \in Document : ImportFile(p, doc))
      <4>1. Return(p, "ok") \/ Return(p, "error") \/ Exit(p, 0) \/ Exit(p, 9)
        BY <3>10 DEF ConnectionLost, ShowListing, StoreCorrections, Dropped, Kill, ImportFile
      <4>. QED
        BY <3>1, <3>7, <4>1
    <3>13. CASE Request(p) \/ StoreRules(p)
      <4>1. \/ Return(p, "error")
            \/ Goto(p, IF command[p].name = "list" THEN "listing" ELSE "rules") /\ Goes
            \/ Goto(p, "store corrections") /\ Goes
        BY <3>13 DEF Request, StoreRules, From
      <4>. QED
        BY <3>1, <3>2, <3>4, <3>6, <3>7, <4>1 DEF Goes
    <3>11. CASE GetMetadata(p, "rules", "corrections") \/ GetMetadata(p, "corrections", "store rules")
      BY <3>2, <3>4, <3>6, <3>11 DEF GetMetadata, Goes
    <3>12. CASE UNCHANGED <<step, primary, code>>
      BY <3>2, <3>12 DEF CmdTypes
    <3>. QED
      BY <1>1, <3>3, <3>8, <3>9, <3>10, <3>11, <3>12, <3>13
         DEF Act, CatchUp, CtrlC, ListChain, SyncBlock, shared
  <2>. QED
    BY <2>0, <2>1, <2>2, <2>3, <2>4, <2>5, <2>6, <2>7 DEF CmdTypes
<1>2. ASSUME NEW d \in Dir, EditToken(d, "two")
      PROVE  CmdTypes'
  <2>1. [conf[d] EXCEPT !.token = "two"] \in Config
    BY DEF CmdTypes, Config
  <2>. QED
    BY <1>2, <2>1 DEF EditToken, CmdTypes
<1>3. CASE UNCHANGED cmdVars
  BY <1>3 DEF CmdTypes, cmdVars, shared
<1>. QED
  BY <1>1, <1>2, <1>3, NextActs

(* Of the other processes a step changes nothing, ... *)
Kept(q) ==
    /\ step'[q] = step[q] /\ command'[q] = command[q] /\ loaded'[q] = loaded[q]
    /\ view'[q] = view[q] /\ peer'[q] = peer[q] /\ answer'[q] = answer[q]
    /\ begin'[q] = begin[q] /\ ctrl_c'[q] = ctrl_c[q] /\ code'[q] = code[q]

LEMMA OthersKept ==
    ASSUME CmdTypes, NEW p \in Process, Act(p), NEW q \in Process, q # p
    PROVE  Kept(q)
<1> USE DEF CmdTypes
<1>1. step'[q] = step[q] /\ code'[q] = code[q]
  <2>1. \A s : Goto(p, s) => step'[q] = step[q]
    BY DEF Goto
  <2>2. \A c : Exit(p, c) => step'[q] = step[q] /\ code'[q] = code[q]
    BY <2>1 DEF Exit
  <2>3. \A r : Return(p, r) => step'[q] = step[q] /\ code'[q] = code[q]
    BY <2>2 DEF Return
  <2>4. CASE \E cmd \in Offered : Run(p, cmd)
    BY <2>1, <2>2, <2>3, <2>4 DEF Run, Goes
  <2>5. CASE BindAddress(p) \/ Load(p) \/ OpenForWriting(p) \/ OpenForReading(p)
    BY <2>1, <2>2, <2>3, <2>5
       DEF BindAddress, Load, OpenForWriting, OpenForReading, From, Goes
  <2>6. CASE FileMissing(p) \/ Show(p) \/ ServerFails(p) \/ Connect(p) \/ Request(p)
             \/ ConnectionLost(p) \/ ShowListing(p)
    BY <2>1, <2>2, <2>3, <2>6
       DEF FileMissing, Show, ServerFails, Connect, Request, ConnectionLost, ShowListing, Goes
  <2>7. CASE \/ GetMetadata(p, "rules", "corrections") \/ GetMetadata(p, "corrections", "store rules")
             \/ StoreRules(p) \/ StoreCorrections(p) \/ Dropped(p) \/ Kill(p)
             \/ \E doc \in Document : ImportFile(p, doc)
    BY <2>1, <2>2, <2>3, <2>7
       DEF GetMetadata, StoreRules, StoreCorrections, Dropped, Kill, ImportFile, From, Goes
  <2>8. CASE UNCHANGED <<step, code>>
    BY <2>8
  <2>. QED
    BY <2>4, <2>5, <2>6, <2>7, <2>8 DEF Act, CatchUp, CtrlC, SyncBlock, ListChain
<1>2. command'[q] = command[q] /\ loaded'[q] = loaded[q] /\ ctrl_c'[q] = ctrl_c[q]
  BY DEF Act, Run, BindAddress, Load, OpenForWriting, OpenForReading, FileMissing, Show,
         CatchUp, ServerFails, Connect, Request, ConnectionLost, ShowListing, GetMetadata,
         CtrlC, Dropped, Kill, ListChain, SyncBlock, ImportFile, StoreRules, StoreCorrections
<1>3. view'[q] = view[q] /\ peer'[q] = peer[q] /\ begin'[q] = begin[q]
  BY DEF Act, Run, BindAddress, Load, OpenForWriting, OpenForReading, FileMissing, Show,
         CatchUp, ServerFails, Connect, Request, ConnectionLost, ShowListing, GetMetadata,
         CtrlC, Dropped, Kill, ListChain, SyncBlock, ImportFile, StoreRules, StoreCorrections
<1>4. answer'[q] = answer[q]
  BY DEF Act, Run, BindAddress, Load, OpenForWriting, OpenForReading, FileMissing, Show,
         CatchUp, ServerFails, Connect, Request, ConnectionLost, ShowListing, GetMetadata,
         CtrlC, Dropped, Kill, ListChain, SyncBlock, ImportFile, StoreRules, StoreCorrections
<1>. QED
  BY <1>1, <1>2, <1>3, <1>4 DEF Kept

(* ... and its own way through its command is this. *)
Freed(p) == [d \in Dir |-> IF primary[d] = p THEN Nobody ELSE primary[d]]

Moves(p) ==
    \/ step'[p] = step[p]
    \/ step[p] = "bind" /\ step'[p] = "load"
    \/ step[p] = "load" /\ step'[p] = "open"
    \/ step[p] = "open" /\ step'[p] = Opened(p) /\ ~Writes(p)
    \/ step[p] = "connect" /\ step'[p] = "request"
    \/ step[p] = "request" /\ step'[p] = IF command[p].name = "list" THEN "listing" ELSE "rules"
    \/ step[p] = "rules" /\ step'[p] = "corrections"
    \/ step[p] = "corrections" /\ step'[p] = "store rules"
    \/ step[p] = "store rules" /\ step'[p] = "store corrections"

Opens(p) ==
    /\ step[p] = "open" /\ step'[p] = Opened(p) /\ Writes(p)
    /\ primary[command[p].dir] = Nobody /\ primary' = [primary EXCEPT ![command[p].dir] = p]

LEMMA OwnStep ==
    ASSUME CmdTypes, NEW p \in Process, Act(p)
    PROVE  \/ \E cmd \in Offered : Run(p, cmd)
           \/ /\ step[p] \notin {"new", "ended"} /\ command' = command
              /\ \/ step'[p] = "ended" /\ primary' = Freed(p)
                 \/ Moves(p) /\ step'[p] # "ended" /\ UNCHANGED <<primary, code>>
                 \/ Opens(p) /\ step'[p] # "ended" /\ UNCHANGED code
<1>1. \A s : Goto(p, s) => step'[p] = s
  BY DEF Goto, CmdTypes
<1>2. \A c : Exit(p, c) => step'[p] = "ended" /\ primary' = Freed(p)
  BY <1>1 DEF Exit, Freed
<1>3. \A r : Return(p, r) => step'[p] = "ended" /\ primary' = Freed(p)
  BY <1>2 DEF Return
<1>4. Opened(p) # "ended"
  BY DEF Opened
<1>5. CASE \/ FileMissing(p) \/ Show(p) \/ ServerFails(p) \/ ConnectionLost(p) \/ ShowListing(p)
           \/ StoreCorrections(p) \/ (\E doc \in Document : ImportFile(p, doc))
  BY <1>3, <1>5 DEF FileMissing, Show, ServerFails, ConnectionLost, ShowListing,
       StoreCorrections, ImportFile, Waiting
<1>6. CASE Dropped(p) \/ Kill(p)
  BY <1>2, <1>6 DEF Dropped, Kill, Running, AtAwait, Waiting
<1>7. CASE OpenForWriting(p)
  <2>1. step[p] = "open" /\ command' = command /\ Writes(p)
    BY <1>7 DEF OpenForWriting, OpensForWriting
  <2>2. CASE Return(p, "error")
    BY <1>3, <2>1, <2>2
  <2>3. CASE /\ primary[command[p].dir] = Nobody /\ Goto(p, Opened(p)) /\ UNCHANGED code
             /\ primary' = [primary EXCEPT ![command[p].dir] = p]
    BY <1>1, <1>4, <2>1, <2>3 DEF Opens
  <2>. QED
    BY <1>7, <2>2, <2>3 DEF OpenForWriting
<1>8. CASE OpenForReading(p) \/ Load(p)
  BY <1>1, <1>4, <1>8 DEF OpenForReading, Load, From, Moves, OpensForWriting, Goes
<1>9. CASE BindAddress(p) \/ Connect(p) \/ Request(p)
  <2>1. CASE Return(p, "error")
    BY <1>3, <1>9, <2>1 DEF BindAddress, Connect, Request
  <2>2. CASE ~Return(p, "error")
    BY <1>1, <1>9, <2>2 DEF BindAddress, Connect, Request, Moves, Goes
  <2>. QED
    BY <2>1, <2>2
<1>10. CASE GetMetadata(p, "rules", "corrections") \/ GetMetadata(p, "corrections", "store rules")
            \/ StoreRules(p)
  BY <1>1, <1>10 DEF GetMetadata, StoreRules, Answers, From, Moves, Goes
<1>11. CASE CatchUp(p) \/ CtrlC(p) \/ (\E c \in ChainId : SyncBlock(p, c) \/ ListChain(p, c))
  BY <1>11 DEF CatchUp, CtrlC, SyncBlock, ListChain, Answers, Running, Moves, shared
<1>. QED
  BY <1>5, <1>6, <1>7, <1>8, <1>9, <1>10, <1>11 DEF Act

LEMMA RunStep ==
    ASSUME CmdTypes, NEW p \in Process, NEW cmd \in Offered, Run(p, cmd)
    PROVE  /\ step[p] = "new" /\ command' = [command EXCEPT ![p] = cmd]
           /\ begin' = [begin EXCEPT ![p] = store[cmd.dir]]
           /\ UNCHANGED <<store, conf, loaded, view, peer, answer, ctrl_c>>
           /\ \/ step'[p] = "ended" /\ primary' = Freed(p) /\ code'[p] # 0
              \/ /\ cmd.name # "start" /\ ~cmd.all => ToChainId(cmd.chain) \in ChainId
                 /\ step'[p] = IF cmd.name = "start" THEN "bind" ELSE "load"
                 /\ UNCHANGED <<primary, code>>
<1>1. \A s : Goto(p, s) => step'[p] = s
  BY DEF Goto, CmdTypes
<1>2. Exit(p, 2) \/ Return(p, "error") => step'[p] = "ended" /\ primary' = Freed(p) /\ code'[p] # 0
  BY <1>1, ExitCodes DEF Exit, Freed, Return, CmdTypes
<1>3. cmd.chain \in ChainArg => ToChainId(cmd.chain) \in ChainId
  BY DEF ChainId
<1>4. \/ Exit(p, 2) \/ Return(p, "error")
      \/ /\ ~(cmd.name # "start" /\ ~cmd.all /\ cmd.chain = NotAChain)
         /\ Goto(p, IF cmd.name = "start" THEN "bind" ELSE "load") /\ Goes
  BY DEF Run
<1>5. cmd.name # "start" /\ ~cmd.all /\ cmd.chain # NotAChain => ToChainId(cmd.chain) \in ChainId
  BY <1>3, OfferedCommands
<1>6. /\ step[p] = "new" /\ command' = [command EXCEPT ![p] = cmd]
      /\ begin' = [begin EXCEPT ![p] = store[cmd.dir]]
      /\ UNCHANGED <<store, conf, loaded, view, peer, answer, ctrl_c>>
  BY DEF Run
<1>. QED
  BY <1>1, <1>2, <1>4, <1>5, <1>6 DEF Goes

LEMMA ScriptStep ==
    ASSUME CmdTypes, Script, [CmdNext]_cmdVars
    PROVE  Script'
<1> DEFINE Ok(q) ==
        /\ step[q] = "new" => command[q] = NoCommand
        /\ step[q] # "new" => command[q] \in Offered
        /\ step[q] \notin {"new", "ended"} /\ command[q].name # "start" /\ ~command[q].all =>
               Id(q) \in ChainId
        /\ step[q] \in {"bind", "serving"} => command[q].name = "start"
        /\ step[q] = "read file" => command[q].name \in Imports
        /\ step[q] \in AtServer \cup {"connect"} => command[q].remote
        /\ step[q] = "listing" => command[q].name = "list"
        /\ step[q] \in AtServer \ {"request", "listing"} => command[q].name = "fetch-metadata"
        /\ step[q] = "print" => ~Writes(q) /\ ~command[q].remote
<1>0. \A q \in Process : Ok(q)
  BY DEF Script
<1>1. ASSUME NEW q \in Process, step'[q] = step[q], command'[q] = command[q]
      PROVE  Ok(q)'
  BY <1>0, <1>1 DEF Id, Writes
<1>2. ASSUME NEW p \in Process, Act(p)
      PROVE  Ok(p)'
  <2>1. CASE \E cmd \in Offered : Run(p, cmd)
    <3>1. PICK cmd \in Offered : Run(p, cmd)
      BY <2>1
    <3>2. command'[p] = cmd /\ step'[p] \in {"ended", "bind", "load"}
          /\ (step'[p] = "bind" => cmd.name = "start")
          /\ (step'[p] # "ended" /\ cmd.name # "start" /\ ~cmd.all => ToChainId(cmd.chain) \in ChainId)
      BY <3>1, RunStep DEF CmdTypes
    <3>. QED
      BY <3>2 DEF Id, AtServer
  <2>2. CASE step[p] \notin {"new", "ended"} /\ command' = command
    <3> USE <2>2
    <3>1. CASE step'[p] = "ended"
      BY <1>0, <3>1 DEF AtServer
    <3>2. CASE step[p] = "open" /\ step'[p] = Opened(p)
      <4>1. Ok(p) /\ command[p] \in Offered
        BY <1>0
      <4>2. /\ step'[p] = "serving" => command[p].name = "start"
            /\ step'[p] = "read file" => command[p].name \in Imports
            /\ step'[p] = "connect" => command[p].remote
            /\ step'[p] = "print" => ~command[p].remote /\ ~Writes(p)
            /\ step'[p] \in {"serving", "read file", "connect", "print"}
        <5>1. command[p].name = "fetch-metadata" => command[p].remote
          BY <4>1, OfferedCommands
        <5>. QED
          BY <3>2, <5>1 DEF Opened, Writes
      <4>3. Writes(p)' = Writes(p) /\ Id(p)' = Id(p)
        BY DEF Writes, Id
      <4>. QED
        BY <3>2, <4>1, <4>2, <4>3 DEF AtServer
    <3>3. CASE Moves(p) /\ step'[p] # "ended" /\ step[p] # "open"
      <4>1. Ok(p)
        BY <1>0
      <4>2. command[p].remote => command[p].name \in {"list", "fetch-metadata"}
        BY <4>1, OfferedCommands
      <4>3. Writes(p)' = Writes(p) /\ Id(p)' = Id(p)
        BY DEF Writes, Id
      <4>. QED
        BY <3>3, <4>1, <4>2, <4>3 DEF AtServer, Moves
    <3>4. CASE step'[p] = step[p]
      BY <1>1, <3>4
    <3>. QED
      BY <1>2, <3>1, <3>2, <3>3, <3>4, OwnStep, RunStep DEF Moves, Opens
  <2>. QED
    BY <1>2, <2>1, <2>2, OwnStep
<1>3. ASSUME NEW p \in Process, Act(p), NEW q \in Process
      PROVE  Ok(q)'
  BY <1>1, <1>2, <1>3, OthersKept DEF Kept
<1>4. CASE UNCHANGED <<step, command>>
  BY <1>1, <1>4 DEF Script
<1> HIDE DEF Ok
<1>5. (\A q \in Process : Ok(q)') => Script'
  BY DEF Script, Ok
<1>. QED
  BY <1>3, <1>4, <1>5, NextActs DEF EditToken, cmdVars

LEMMA HoldersStep ==
    ASSUME CmdTypes, Script, Holders, [CmdNext]_cmdVars
    PROVE  Holders'
<1> DEFINE Is(q, d) == /\ command[q].dir = d /\ Writes(q)
                       /\ step[q] \notin Before \cup {"ended"}
<1>0. \A q \in Process, d \in Dir : primary[d] = q <=> Is(q, d)
  BY DEF Holders
<1>1. ASSUME NEW q \in Process, NEW d \in Dir, step'[q] = step[q], command'[q] = command[q]
      PROVE  Is(q, d)' <=> Is(q, d)
  BY <1>1 DEF Writes
<1>2. ASSUME NEW p \in Process, Act(p), NEW q \in Process, NEW d \in Dir
      PROVE  primary'[d] = q <=> Is(q, d)'
  <2>0. q # p => (Is(q, d)' <=> Is(q, d))
    BY <1>1, <1>2, OthersKept DEF Kept
  <2>1. CASE step'[p] = "ended" /\ primary' = Freed(p)
    <3>1. primary'[d] = IF primary[d] = p THEN Nobody ELSE primary[d]
      BY <2>1 DEF Freed
    <3>2. ~Is(p, d)'
      BY <2>1
    <3> HIDE DEF Is
    <3>. QED
      BY <1>0, <2>0, <3>1, <3>2, CommandsAssumption
  <2>2. CASE UNCHANGED primary /\ (Is(p, d)' <=> Is(p, d))
    <3> HIDE DEF Is
    <3>. QED
      BY <1>0, <2>0, <2>2
  <2>3. CASE \E cmd \in Offered : Run(p, cmd)
    <3>1. step[p] = "new" /\ (\/ step'[p] = "ended" /\ primary' = Freed(p)
                              \/ step'[p] \in Before /\ UNCHANGED primary)
      BY <2>3, RunStep DEF Before
    <3>. QED
      BY <2>1, <2>2, <3>1 DEF Before
  <2>4. CASE command' = command /\ Moves(p) /\ step'[p] # "ended" /\ UNCHANGED primary
             /\ step[p] \notin {"new", "ended"}
    <3>1. Writes(p)' = Writes(p)
      BY <2>4 DEF Writes
    <3>2. \/ step'[p] \notin Before \cup {"ended"} <=> step[p] \notin Before \cup {"ended"}
          \/ ~Writes(p)
      BY <2>4 DEF Moves, Before
    <3>3. Is(p, d)' <=> Is(p, d)
      BY <2>4, <3>1, <3>2
    <3>. QED
      BY <2>2, <2>4, <3>3
  <2>5. CASE command' = command /\ Opens(p)
    <3>1. step'[p] \notin Before \cup {"ended"} /\ Writes(p)' /\ Writes(p) /\ step[p] \in Before
      BY <2>5 DEF Opens, Opened, Before, Writes
    <3>2. (Is(p, d)' <=> d = command[p].dir) /\ ~Is(p, d)
      BY <2>5, <3>1
    <3>3. primary'[d] = IF d = command[p].dir THEN p ELSE primary[d]
      BY <2>5 DEF Opens, CmdTypes
    <3>4. primary[command[p].dir] = Nobody
      BY <2>5 DEF Opens
    <3> HIDE DEF Is
    <3>. QED
      BY <1>0, <2>0, <3>2, <3>3, <3>4, CommandsAssumption
  <2>. QED
    BY <1>2, <2>1, <2>3, <2>4, <2>5, OwnStep
<1>3. CASE UNCHANGED <<step, command, primary>>
  BY <1>0, <1>1, <1>3 DEF Holders
<1>4. (\A q \in Process, d \in Dir : primary'[d] = q <=> Is(q, d)') => Holders'
  BY DEF Holders
<1> HIDE DEF Is
<1>. QED
  BY <1>2, <1>3, <1>4, NextActs DEF EditToken, cmdVars, shared

(* Once connected, a process keeps its peer. *)
LEMMA PeerStep ==
    ASSUME CmdTypes, NEW p \in Process, Act(p)
    PROVE  \/ UNCHANGED peer /\ ~(step[p] = "connect" /\ step'[p] = "request")
           \/ /\ step[p] = "connect" /\ step'[p] = "request" /\ command' = command
              /\ \E s \in Process :
                    /\ peer' = [peer EXCEPT ![p] = s]
                    /\ step[s] = "serving" /\ command[s].name = "start"
                    /\ command[s].dir = command[p].url
<1>1. CASE Connect(p)
  <2>1. CASE Return(p, "error") /\ UNCHANGED <<peer, begin>>
    <3>1. step'[p] = "ended"
      BY <2>1 DEF Return, Exit, Goto, CmdTypes
    <3>. QED
      BY <2>1, <3>1
  <2>2. CASE Goto(p, "request") /\ \E s \in Serving(command[p].url) : peer' = [peer EXCEPT ![p] = s]
    BY <1>1, <2>2 DEF Connect, Goto, CmdTypes, Serving, Listens
  <2>. QED
    BY <1>1, <2>1, <2>2 DEF Connect
<1>2. CASE ~Connect(p)
  <2>1. UNCHANGED peer
    BY <1>2
     DEF Act, Run, BindAddress, Load, OpenForWriting, OpenForReading, FileMissing, Show,
         CatchUp, ServerFails, Request, ConnectionLost, ShowListing, GetMetadata,
         CtrlC, Dropped, Kill, ListChain, SyncBlock, ImportFile, StoreRules, StoreCorrections
  <2>2. step[p] = "connect" => step'[p] # "request"
    <3>1. \A r : Return(p, r) \/ Exit(p, r) => step'[p] = "ended"
      BY DEF Return, Exit, Goto, CmdTypes
    <3>. QED
      BY <1>2, <3>1
     DEF Act, Run, BindAddress, Load, OpenForWriting, OpenForReading, FileMissing, Show,
         CatchUp, ServerFails, Request, ConnectionLost, ShowListing, GetMetadata, From, Answers, Waiting,
         CtrlC, Dropped, Kill, ListChain, SyncBlock, ImportFile, StoreRules, StoreCorrections
  <2>. QED
    BY <2>1, <2>2
<1>. QED
  BY <1>1, <1>2

LEMMA PeersStep ==
    ASSUME CmdTypes, Script, Peers, [CmdNext]_cmdVars
    PROVE  Peers'
<1> DEFINE Ok(q) ==
        /\ step[q] \in AtServer => peer[q] \in Process
        /\ step[q] \notin AtServer \cup {"ended"} => peer[q] = Nobody
        /\ peer[q] \in Process =>
               /\ step[peer[q]] \in {"serving", "ended"}
               /\ command[peer[q]].name = "start"
               /\ command[peer[q]].dir = command[q].url
<1>0. \A q \in Process : Ok(q)
  BY DEF Peers
<1>1. ASSUME NEW p \in Process, Act(p)
      PROVE  /\ \A s \in Process : step[s] \in {"serving", "ended"} =>
                   step'[s] \in {"serving", "ended"} /\ command'[s] = command[s]
             /\ \A s \in Process : step[s] # "new" => command'[s] = command[s]
  <2>1. \A s \in Process : s # p => step'[s] = step[s] /\ command'[s] = command[s]
    BY <1>1, OthersKept DEF Kept
  <2>2. CASE \E cmd \in Offered : Run(p, cmd)
    BY <2>1, <2>2, RunStep
  <2>3. CASE step[p] # "ended" /\ command' = command /\ (step'[p] = "ended" \/ Moves(p) \/ Opens(p))
    BY <2>1, <2>3 DEF Moves, Opens
  <2>. QED
    BY <1>1, <2>2, <2>3, OwnStep
<1>2. ASSUME NEW p \in Process, Act(p), NEW q \in Process
      PROVE  Ok(q)'
  <2>1. CASE step[p] = "connect" /\ step'[p] = "request" /\ command' = command
    <3>1. PICK s \in Process : /\ peer' = [peer EXCEPT ![p] = s]
                               /\ step[s] = "serving" /\ command[s].name = "start"
                               /\ command[s].dir = command[p].url
      BY <1>2, <2>1, PeerStep
    <3>2. CASE q = p
      BY <1>1, <1>2, <2>1, <3>1, <3>2 DEF CmdTypes, AtServer
    <3>3. CASE q # p
      <4>1. peer'[q] = peer[q] /\ step'[q] = step[q] /\ command'[q] = command[q]
        BY <1>2, <3>3, OthersKept DEF Kept
      <4>2. peer[q] \in Process => step[peer[q]] \in {"serving", "ended"}
        BY <1>0
      <4>. QED
        BY <1>0, <1>1, <1>2, <4>1, <4>2
    <3>. QED
      BY <3>2, <3>3
  <2>2. CASE UNCHANGED peer /\ ~(step[p] = "connect" /\ step'[p] = "request")
    <3>1. /\ step'[q] \in AtServer => step[q] \in AtServer
          /\ step'[q] \notin AtServer \cup {"ended"} => step[q] \notin AtServer \cup {"ended"}
      <4>1. CASE q # p
        BY <1>2, <4>1, OthersKept DEF Kept
      <4>2. CASE q = p /\ \E cmd \in Offered : Run(p, cmd)
        BY <4>2, RunStep DEF AtServer
      <4>3. CASE q = p /\ step'[p] = "ended"
        BY <4>3 DEF AtServer
      <4>4. CASE q = p /\ step[p] # "ended" /\ (Moves(p) \/ Opens(p))
        <5>1. Opened(p) \notin AtServer
          BY DEF Opened, AtServer
        <5>. QED
          BY <2>2, <4>4, <5>1 DEF AtServer, Moves, Opens
      <4>. QED
        BY <1>2, <4>1, <4>2, <4>3, <4>4, OwnStep
    <3>2. peer[q] \in Process => /\ step'[peer[q]] \in {"serving", "ended"}
                                 /\ command'[peer[q]].name = "start"
                                 /\ command'[peer[q]].dir = command[q].url
      BY <1>0, <1>1, <1>2
    <3>3. peer[q] \in Process => command'[q] = command[q]
      <4>1. step[q] = "new" => peer[q] = Nobody
        BY <1>0 DEF AtServer
      <4>. QED
        BY <1>1, <1>2, <4>1, CommandsAssumption
    <3>. QED
      BY <1>0, <2>2, <3>1, <3>2, <3>3
  <2>. QED
    BY <1>2, <2>1, <2>2, PeerStep
<1>3. CASE UNCHANGED <<step, command, peer>>
  BY <1>0, <1>3 DEF Peers
<1>4. (\A q \in Process : Ok(q)') => Peers'
  BY DEF Peers
<1> HIDE DEF Ok
<1>. QED
  BY <1>2, <1>3, <1>4, NextActs DEF EditToken, cmdVars, shared

(* What a step does to the answer and the exit code of its process. *)
LEMMA AnswerStep ==
    ASSUME CmdTypes, Quiet, NEW p \in Process, Act(p)
    PROVE  /\ step'[p] \notin {"ended", "listing", "rules", "corrections", "store rules",
                               "store corrections"} => answer' = answer
           /\ step[p] = "request" /\ step'[p] = "ended" => answer' = answer
           /\ step'[p] = "ended" /\ code'[p] = 0 /\ ~ctrl_c'[p] =>
                 step[p] \in {"read file", "print", "listing", "store corrections"}
           /\ step[p] # "new" /\ step'[p] = "ended" /\ code'[p] = 0 /\ ~ctrl_c'[p] =>
                 \/ \E doc \in Document : ImportFile(p, doc)
                 \/ Show(p) \/ ShowListing(p) \/ StoreCorrections(p)
<1>0. ASSUME NEW r, Return(p, r)
      PROVE  step'[p] = "ended" /\ code'[p] = ExitCode(r)
  BY <1>0 DEF Return, Exit, Goto, CmdTypes
<1>a. Return(p, "error") => step'[p] = "ended" /\ code'[p] # 0
  BY <1>0, ExitCodes
<1>1. CASE \E cmd \in Offered : Run(p, cmd)
  BY <1>1, RunStep
<1>2. CASE \/ FileMissing(p) \/ ServerFails(p) \/ ConnectionLost(p)
  <2>1. UNCHANGED answer /\ step'[p] = "ended" /\ code'[p] # 0
    BY <1>a, <1>2 DEF FileMissing, ServerFails, ConnectionLost
  <2>. QED
    BY <2>1
<1>3. CASE BindAddress(p) \/ Connect(p) \/ OpenForWriting(p)
  <2>1. CASE Return(p, "error")
    <3>1. UNCHANGED answer /\ step'[p] = "ended" /\ code'[p] # 0
      BY <1>a, <1>3, <2>1 DEF BindAddress, Connect, OpenForWriting
    <3>. QED
      BY <3>1
  <2>2. CASE ~Return(p, "error")
    <3>1. UNCHANGED <<code, answer>> /\ step[p] # "ended" /\ step[p] # "request"
      BY <1>3, <2>2 DEF BindAddress, Connect, OpenForWriting, Goes
    <3>2. code[p] = -1
      BY <3>1 DEF Quiet
    <3>. QED
      BY <3>1, <3>2
  <2>. QED
    BY <2>1, <2>2
<1>4. CASE Request(p)
  <2>1. CASE Return(p, "error") /\ UNCHANGED answer
    BY <1>a, <2>1
  <2>2. CASE Goto(p, IF command[p].name = "list" THEN "listing" ELSE "rules")
    BY <2>2 DEF Goto, CmdTypes
  <2>. QED
    BY <1>4, <2>1, <2>2 DEF Request
<1>5. CASE Dropped(p)
  BY <1>5 DEF Dropped, CmdTypes
<1>6. CASE Kill(p)
  BY <1>6 DEF Kill, Exit, CmdTypes
<1>7. CASE GetMetadata(p, "rules", "corrections") \/ GetMetadata(p, "corrections", "store rules")
           \/ StoreRules(p) \/ Load(p) \/ OpenForReading(p)
  <2>1. step'[p] \in {"corrections", "store rules", "store corrections", "open", Opened(p)}
        /\ step[p] # "request" /\ (step'[p] \in {"open", Opened(p)} => answer' = answer)
    BY <1>7 DEF GetMetadata, StoreRules, Load, OpenForReading, From, Goto, Answers, CmdTypes, Opened
  <2>2. step'[p] # "ended"
    BY <2>1 DEF Opened
  <2>. QED
    BY <2>1, <2>2
<1>8. CASE CatchUp(p) \/ CtrlC(p) \/ (\E c \in ChainId : SyncBlock(p, c))
  <2>1. UNCHANGED <<step, answer>> /\ step[p] # "ended"
    BY <1>8 DEF CatchUp, CtrlC, SyncBlock, Running
  <2>. QED
    BY <2>1
<1>9. CASE \E c \in ChainId : ListChain(p, c)
  BY <1>9 DEF ListChain, Answers
<1>10. CASE Show(p) \/ ShowListing(p) \/ StoreCorrections(p) \/ (\E doc \in Document : ImportFile(p, doc))
  <2>1. step[p] \in {"read file", "print", "listing", "store corrections"} /\ step'[p] = "ended"
    BY <1>0, <1>10 DEF Show, ShowListing, StoreCorrections, ImportFile
  <2>. QED
    BY <1>10, <2>1
<1>. QED
  BY <1>1, <1>2, <1>3, <1>4, <1>5, <1>6, <1>7, <1>8, <1>9, <1>10 DEF Act

LEMMA QuietStep ==
    ASSUME CmdTypes, Script, Quiet, [CmdNext]_cmdVars
    PROVE  Quiet'
<1> DEFINE Told_ == {"ended", "listing", "rules", "corrections", "store rules", "store corrections"}
<1>1. ASSUME NEW p \in Process, Act(p), NEW q \in Process
      PROVE  /\ step'[q] # "ended" => code'[q] = -1
             /\ step'[q] \notin Told_ => answer'[q] = Nothing
  <2>1. CASE q # p
    BY <1>1, <2>1, OthersKept DEF Kept, Quiet
  <2>2. CASE q = p /\ \E cmd \in Offered : Run(p, cmd)
    BY <2>2, RunStep DEF Quiet
  <2>3. CASE q = p /\ step[p] # "ended" /\ step'[p] = "ended"
    BY <2>3
  <2>4. CASE q = p /\ step[p] # "ended" /\ UNCHANGED code /\ (Moves(p) \/ Opens(p))
    <3>1. code'[p] = -1
      BY <2>4 DEF Quiet
    <3>2. step'[p] \notin Told_ => step[p] \notin Told_
      BY <2>4 DEF Moves, Opens
    <3>3. step'[p] \notin Told_ => answer'[p] = Nothing
      BY <1>1, <2>4, <3>2, AnswerStep DEF Quiet
    <3>. QED
      BY <2>4, <3>1, <3>3
  <2>. QED
    BY <1>1, <2>1, <2>2, <2>3, <2>4, OwnStep
<1>2. CASE UNCHANGED <<step, answer, code>>
  BY <1>2 DEF Quiet
<1>. QED
  BY <1>1, <1>2, NextActs DEF EditToken, cmdVars, shared, Quiet

(* The token: whoever is past its request has the token of the server, and *)
(* neither of the two loads its configuration again.                       *)
LEMMA TokenStep ==
    ASSUME CmdTypes, Script, Peers, Quiet, PastTheCheck, OnlyWithToken, [CmdNext]_cmdVars
    PROVE  PastTheCheck' /\ OnlyWithToken'
<1>0. ASSUME NEW p \in Process, Act(p), NEW q \in Process, step[q] # "load"
      PROVE  loaded'[q] = loaded[q]
  <2>1. CASE Load(p)
    BY <1>0, <2>1 DEF Load, From, CmdTypes
  <2>2. CASE ~Load(p)
    BY <1>0, <2>2
     DEF Act, Run, BindAddress, OpenForWriting, OpenForReading, FileMissing, Show, Connect,
         CatchUp, ServerFails, Request, ConnectionLost, ShowListing, GetMetadata,
         CtrlC, Dropped, Kill, ListChain, SyncBlock, ImportFile, StoreRules, StoreCorrections
  <2>. QED
    BY <2>1, <2>2
<1>1. ASSUME NEW p \in Process, Act(p), NEW q \in Process, peer[q] \in Process
      PROVE  peer'[q] = peer[q] /\ (Cleared(q)' <=> Cleared(q))
  <2>1. step[q] \in AtServer \cup {"ended"} /\ step[peer[q]] \in {"serving", "ended"}
    BY <1>1, CommandsAssumption DEF Peers
  <2>2. loaded'[q] = loaded[q] /\ loaded'[peer[q]] = loaded[peer[q]]
    BY <1>0, <1>1, <2>1 DEF AtServer
  <2>3. peer'[q] = peer[q]
    <3>1. CASE q = p
      BY <1>1, <2>1, <3>1, PeerStep DEF AtServer
    <3>2. CASE q # p
      BY <1>1, <3>2, OthersKept DEF Kept
    <3>. QED
      BY <3>1, <3>2
  <2>. QED
    BY <2>2, <2>3 DEF Cleared
<1>2. ASSUME NEW p \in Process, Act(p), NEW q \in Process, step'[q] \in AtServer \ {"request"}
      PROVE  Cleared(q)'
  <2>1. CASE step[q] \in AtServer \ {"request"}
    BY <1>1, <1>2, <2>1 DEF PastTheCheck, Peers
  <2>2. CASE step[q] \notin AtServer \ {"request"}
    <3>1. q = p
      BY <1>2, <2>2, OthersKept DEF Kept
    <3>2. step[p] = "request" /\ step'[p] \in {"listing", "rules"}
      <4>1. CASE \E cmd \in Offered : Run(p, cmd)
        BY <1>2, <3>1, <4>1, RunStep DEF AtServer
      <4>2. CASE Moves(p) \/ Opens(p)
        BY <1>2, <2>2, <3>1, <4>2 DEF Moves, Opens, Opened, AtServer
      <4>. QED
        BY <1>2, <3>1, <4>1, <4>2, OwnStep DEF AtServer
    <3>3. Request(p)
      <4>1. \A r : Return(p, r) \/ Exit(p, r) => step'[p] = "ended"
        BY DEF Return, Exit, Goto, CmdTypes
      <4>. QED
        BY <1>2, <3>2, <4>1
         DEF Act, Run, BindAddress, Load, OpenForWriting, OpenForReading, FileMissing, Show,
             CatchUp, ServerFails, Connect, ConnectionLost, ShowListing, GetMetadata, From, Answers, Waiting,
             CtrlC, Dropped, Kill, ListChain, SyncBlock, ImportFile, StoreRules, StoreCorrections, Goto
    <3>4. ~Return(p, "error")
      BY <3>2 DEF Return, Exit, Goto, CmdTypes
    <3>5. CheckToken(loaded[peer[p]].token, loaded[p].token)
      BY <3>3, <3>4 DEF Request
    <3>6. peer[p] \in Process
      BY <3>2 DEF Peers, AtServer
    <3>. QED
      BY <1>1, <1>2, <3>1, <3>5, <3>6 DEF CheckToken, Cleared
  <2>. QED
    BY <2>1, <2>2
<1>3. ASSUME NEW p \in Process, Act(p), NEW q \in Process, peer'[q] # Nobody, Told(q)'
      PROVE  Cleared(q)'
  <2>1. CASE peer[q] \notin Process
    <3>1. q = p /\ step'[p] = "request" /\ step[p] = "connect"
      <4>1. CASE q # p
        BY <1>3, <2>1, <4>1, OthersKept DEF Kept, CmdTypes
      <4>. QED
        BY <1>3, <2>1, <4>1, PeerStep DEF CmdTypes
    <3>2. answer'[p] = Nothing /\ code'[p] = code[p]
      <4>1. answer[p] = Nothing /\ answer' = answer
        BY <1>3, <3>1, AnswerStep DEF Quiet
      <4>2. code' = code
        BY <1>3, <3>1, OwnStep, RunStep
      <4>. QED
        BY <4>1, <4>2
    <3>3. code[p] = -1
      BY <3>1 DEF Quiet
    <3>. QED
      BY <1>3, <3>1, <3>2, <3>3 DEF Told
  <2>2. CASE peer[q] \in Process /\ (step'[q] = step[q] => Told(q))
    <3>1. peer'[q] = peer[q] /\ (Cleared(q)' <=> Cleared(q))
      BY <1>1, <1>3, <2>2
    <3>2. CASE step'[q] \in AtServer \ {"request"}
      BY <1>2, <1>3, <3>2
    <3>3. CASE step'[q] = step[q]
      BY <2>2, <3>1, <3>3, CommandsAssumption DEF OnlyWithToken, Cleared
    <3>4. CASE q = p /\ step'[p] = "ended" /\ step[p] \in AtServer \ {"request"}
      BY <3>1, <3>4 DEF PastTheCheck
    <3>5. CASE q = p /\ step'[p] = "ended" /\ step[p] = "request"
      <4>1. answer'[p] = Nothing
        BY <1>3, <3>5, AnswerStep DEF Quiet
      <4>2. ~(code'[p] = 0 /\ ~ctrl_c'[p])
        BY <1>3, <3>5, AnswerStep
      <4>. QED
        BY <1>3, <3>5, <4>1, <4>2 DEF Told
    <3>6. step[q] \in AtServer \cup {"ended"}
      BY <2>2, CommandsAssumption DEF Peers
    <3>. QED
      <4>1. CASE q # p
        BY <1>3, <3>3, <4>1, OthersKept DEF Kept
      <4>2. CASE q = p
        <5>1. step[p] # "ended" /\ step[p] # "new"
          BY <1>3, <3>6, <4>2, OwnStep, RunStep DEF AtServer
        <5>2. \/ step'[p] = "ended" \/ step'[p] = step[p] \/ step'[p] \in AtServer \ {"request"}
          BY <1>3, <3>6, <4>2, <5>1, OwnStep, RunStep DEF Moves, Opens, AtServer
        <5>. QED
          BY <3>2, <3>3, <3>4, <3>5, <3>6, <4>2, <5>1, <5>2
      <4>. QED
        BY <4>1, <4>2
  <2>3. CASE peer[q] \in Process /\ step'[q] = step[q] /\ ~Told(q)
    <3>1. q = p
      BY <1>3, <2>3, OthersKept DEF Kept, Told
    <3>2. step[p] \in AtServer
      BY <1>3, <2>3, <3>1, OwnStep, RunStep, CommandsAssumption DEF Peers
    <3>3. CASE step[p] = "request"
      <4>1. answer' = answer
        BY <1>3, <2>3, <3>1, <3>3, AnswerStep
      <4>2. code' = code /\ code[p] = -1
        BY <1>3, <2>3, <3>1, <3>3, OwnStep, RunStep DEF Quiet
      <4>. QED
        BY <1>3, <2>3, <3>1, <4>1, <4>2 DEF Told
    <3>4. CASE step[p] # "request"
      BY <1>1, <1>3, <2>3, <3>1, <3>2, <3>4 DEF PastTheCheck
    <3>. QED
      BY <3>3, <3>4
  <2>. QED
    BY <2>1, <2>2, <2>3
<1>4. ASSUME NEW p \in Process, Act(p)
      PROVE  PastTheCheck' /\ OnlyWithToken'
  BY <1>2, <1>3, <1>4 DEF PastTheCheck, OnlyWithToken, Cleared
<1>5. CASE UNCHANGED <<step, peer, loaded, answer, code, ctrl_c>>
  BY <1>5 DEF PastTheCheck, OnlyWithToken, Cleared, Told
<1>. QED
  BY <1>4, <1>5, NextActs DEF EditToken, cmdVars, shared

-----------------------------------------------------------------------------
LEMMA GrownReflexive ==
    ASSUME NEW a \in Stores
    PROVE  Grown(a, a)
BY DEF Grown, Has, Stores

LEMMA GrownTransitive ==
    ASSUME NEW a \in Stores, NEW b \in Stores, NEW c \in Stores, Grown(a, b), Grown(b, c)
    PROVE  Grown(a, c)
<1>1. a.ids \subseteq c.ids
  BY DEF Grown
<1>2. ASSUME NEW e \in ChainId
      PROVE  a.blocks[e] <= c.blocks[e] /\ \A k \in Kind : a.meta[k][e] # 0 => c.meta[k][e] # 0
  <2>1. a.blocks[e] \in Nat /\ b.blocks[e] \in Nat /\ c.blocks[e] \in Nat
    BY DEF Stores
  <2>2. a.blocks[e] <= b.blocks[e] /\ b.blocks[e] <= c.blocks[e]
    BY DEF Grown, Has
  <2>3. \A k \in Kind : a.meta[k][e] # 0 => c.meta[k][e] # 0
    BY DEF Grown, Has
  <2>. QED
    BY <2>1, <2>2, <2>3
<1>. QED
  BY <1>1, <1>2 DEF Grown, Has

LEMMA PutMetadataGrows ==
    ASSUME NEW base \in Stores, NEW k \in Kind, NEW c \in ChainId, NEW doc \in Nat, doc # 0
    PROVE  Grown(base, PutMetadata(base, k, c, doc))
<1> DEFINE new == PutMetadata(base, k, c, doc)
<1>1. new.ids = base.ids \cup {c} /\ new.blocks = base.blocks
  BY PutMetadataType
<1>2. \A j \in Kind, e \in ChainId : base.meta[j][e] # 0 => new.meta[j][e] # 0
  <2>1. \A j \in Kind : j # k => new.meta[j] = base.meta[j]
    BY PutMetadataType
  <2>2. \A e \in ChainId : new.meta[k][e] = IF e = c THEN doc ELSE base.meta[k][e]
    BY PutMetadataType
  <2> HIDE DEF new
  <2>. QED
    BY <2>1, <2>2
<1> HIDE DEF new
<1>3. \A e \in ChainId : base.blocks[e] \in Nat
  BY DEF Stores
<1>4. Grown(base, new)
  BY <1>1, <1>2, <1>3 DEF Grown, Has
<1>. QED
  BY <1>4 DEF new

(* Databases only grow, by the hand of the process that has them open, and *)
(* a server adds no metadata.                                              *)
LEMMA StoreStep ==
    ASSUME CmdTypes, Script, Holders, NEW p \in Process, Act(p), NEW d \in Dir
    PROVE  /\ Grown(store[d], store'[d])
           /\ store'[d] # store[d] =>
                 /\ primary[d] = p
                 /\ step[p] \in {"read file", "serving", "store rules", "store corrections"}
           /\ step[p] = "serving" => store'[d].meta = store[d].meta
<1>0. store[d] \in Stores /\ Grown(store[d], store[d])
  BY GrownReflexive DEF CmdTypes
<1>1. ASSUME NEW k \in Kind, NEW doc \in Nat, doc # 0,
             step[p] \in {"read file", "store rules", "store corrections"},
             store' = [store EXCEPT ![command[p].dir] = PutMetadata(@, k, Id(p), doc)]
      PROVE  /\ Grown(store[d], store'[d])
             /\ store'[d] # store[d] => primary[d] = p
  <2>1. command[p].dir \in Dir /\ Id(p) \in ChainId /\ Writes(p)
    BY <1>1, ScriptFacts DEF Script, AtServer, Imports
  <2>2. CASE d = command[p].dir
    <3>1. store'[d] = PutMetadata(store[d], k, Id(p), doc)
      BY <1>1, <2>2 DEF CmdTypes
    <3>2. primary[d] = p
      BY <1>1, <2>1, <2>2 DEF Holders, Before
    <3>. QED
      BY <1>0, <1>1, <2>1, <3>1, <3>2, PutMetadataGrows
  <2>3. CASE d # command[p].dir
    BY <1>0, <1>1, <2>1, <2>3 DEF CmdTypes
  <2>. QED
    BY <2>2, <2>3
<1>2. CASE \E doc \in Document : ImportFile(p, doc)
  <2>1. PICK doc \in Document : ImportFile(p, doc)
    BY <1>2
  <2>2. step[p] = "read file" /\ store' = [store EXCEPT ![command[p].dir] =
                    PutMetadata(@, command[p].kind, Id(p), doc)]
    BY <2>1 DEF ImportFile
  <2>3. command[p].kind \in Kind /\ doc \in Nat /\ doc # 0
    BY <2>2, ScriptFacts, CommandsAssumption
  <2>. QED
    BY <1>1, <2>2, <2>3
<1>3. ASSUME NEW k \in {"rules", "corrections"}, Answered(p, k, answer[p].meta[k][Id(p)]),
             step[p] \in {"store rules", "store corrections"}
      PROVE  /\ Grown(store[d], store'[d])
             /\ store'[d] # store[d] => primary[d] = p
  <2>1. Id(p) \in ChainId /\ k \in Kind
    BY <1>3, ScriptFacts DEF Script, AtServer, Kind
  <2>2. answer[p].meta[k][Id(p)] \in Nat
    BY <2>1 DEF CmdTypes, Found, Tables
  <2>3. CASE answer[p].meta[k][Id(p)] = 0
    BY <1>0, <1>3, <2>3 DEF Answered
  <2>4. CASE answer[p].meta[k][Id(p)] # 0
    BY <1>1, <1>3, <2>1, <2>2, <2>4 DEF Answered
  <2>. QED
    BY <2>3, <2>4
<1>4. CASE StoreRules(p) \/ StoreCorrections(p)
  <2>1. step[p] \in {"store rules", "store corrections"} /\
        \E k \in {"rules", "corrections"} : Answered(p, k, answer[p].meta[k][Id(p)])
    BY <1>4 DEF StoreRules, StoreCorrections, From
  <2>. QED
    BY <1>3, <2>1
<1>5. CASE \E c \in ChainId : SyncBlock(p, c)
  <2>1. PICK c \in ChainId : SyncBlock(p, c)
    BY <1>5
  <2> DEFINE e == command[p].dir
             base == store[e]
             b == [base.blocks EXCEPT ![c] = @ + 1]
             new == [base EXCEPT !.ids = @ \cup {c}, !.blocks = b]
  <2>2. step[p] = "serving" /\ store' = [store EXCEPT ![e] = new]
    BY <2>1 DEF SyncBlock
  <2>3. e \in Dir /\ Writes(p)
    BY <2>2, ScriptFacts DEF Script
  <2>4. primary[e] = p
    BY <2>2, <2>3 DEF Holders, Before
  <2>5. base \in Stores
    BY <2>3 DEF CmdTypes
  <2>6. new.ids = base.ids \cup {c} /\ new.meta = base.meta /\ new.blocks = b
    BY <2>5 DEF Stores
  <2>7. \A x \in ChainId : base.blocks[x] <= b[x]
    BY <2>5 DEF Stores
  <2>8. CASE d = e
    <3>1. store'[d] = new /\ store[d] = base
      BY <2>2, <2>3, <2>8 DEF CmdTypes
    <3> HIDE DEF new, b, base
    <3>2. Grown(base, new)
      BY <2>6, <2>7 DEF Grown, Has
    <3>. QED
      BY <2>2, <2>4, <2>6, <2>8, <3>1, <3>2
  <2>9. CASE d # e
    <3>1. store'[d] = store[d]
      BY <2>2, <2>9 DEF CmdTypes
    <3>. QED
      BY <1>0, <3>1
  <2>. QED
    BY <2>8, <2>9
<1>6. CASE UNCHANGED store
  BY <1>0, <1>6
<1>. QED
  BY <1>2, <1>4, <1>5, <1>6
     DEF Act, Run, BindAddress, Load, OpenForWriting, OpenForReading, FileMissing, Show,
         CatchUp, ServerFails, Connect, Request, ConnectionLost, ShowListing, GetMetadata,
         CtrlC, Dropped, Kill, ListChain, shared

(* What a step does to the views and the history of its process. *)
LEMMA DataStep ==
    ASSUME CmdTypes, NEW p \in Process, Act(p), step[p] # "new"
    PROVE  /\ step[p] \notin {"open", "connect"} => begin' = begin
           /\ step[p] = "open" /\ step'[p] = "open" => begin' = begin
           /\ step[p] \notin {"open", "serving"} => view' = view
           /\ step[p] \in {"bind", "load", "open", "connect", "request", "listing", "rules",
                           "corrections", "print"} => UNCHANGED store
           /\ step[p] = "store rules" /\ step'[p] = "store rules" => UNCHANGED store
           /\ step[p] = "open" /\ step'[p] \notin {"open", "ended"} =>
                 /\ view'[p] = store[command[p].dir]
                 /\ begin'[p] = IF Writes(p) THEN store[command[p].dir] ELSE begin[p]
           /\ step[p] = "serving" =>
                 view' = view \/ (view'[p] = store[command[p].dir] /\ UNCHANGED store)
           /\ step[p] = "connect" =>
                 \/ begin' = begin /\ step'[p] # "request"
                 \/ begin'[p] = IF command[p].name = "list" THEN view[peer'[p]] ELSE begin[p]
<1>0. ASSUME NEW r, Return(p, r) \/ Exit(p, r)
      PROVE  step'[p] = "ended"
  BY <1>0 DEF Return, Exit, Goto, CmdTypes
<1>1. CASE OpenForWriting(p)
  <2>1. step[p] = "open" /\ UNCHANGED store /\ Writes(p)
    BY <1>1 DEF OpenForWriting, OpensForWriting
  <2>2. CASE Return(p, "error")
    BY <1>0, <2>1, <2>2
  <2>3. CASE ~Return(p, "error")
    <3>1. step'[p] = Opened(p)
      BY <1>1, <2>3 DEF OpenForWriting, CmdTypes, Goto
    <3>2. step'[p] # "open"
      BY <3>1 DEF Opened
    <3>. QED
      BY <1>1, <2>1, <2>3, <3>2 DEF OpenForWriting, CmdTypes
  <2>. QED
    BY <2>2, <2>3
<1>2. CASE OpenForReading(p)
  BY <1>2 DEF OpenForReading, From, OpensForWriting, CmdTypes
<1>3. CASE Connect(p)
  <2>1. step[p] = "connect" /\ UNCHANGED <<store, view>>
    BY <1>3 DEF Connect
  <2>2. CASE Return(p, "error") /\ UNCHANGED <<peer, begin>>
    BY <1>0, <2>1, <2>2
  <2>3. CASE \E s \in Serving(command[p].url) :
                /\ peer' = [peer EXCEPT ![p] = s]
                /\ begin' = [begin EXCEPT ![p] =
                       IF command[p].name = "list" THEN view[s] ELSE @]
    BY <2>1, <2>3 DEF CmdTypes
  <2>. QED
    BY <1>3, <2>2, <2>3 DEF Connect
<1>4. CASE CatchUp(p)
  BY <1>4 DEF CatchUp, shared, CmdTypes
<1>5. CASE CtrlC(p)
  BY <1>5 DEF CtrlC
<1>6. CASE Dropped(p) \/ Kill(p)
  <2>1. UNCHANGED <<store, view, begin>> /\ step'[p] = "ended"
    BY <1>0, <1>6 DEF Dropped, Kill
  <2>. QED
    BY <2>1
<1>7. CASE \/ BindAddress(p) \/ Load(p) \/ FileMissing(p) \/ Show(p) \/ ServerFails(p)
           \/ Request(p) \/ ShowListing(p) \/ GetMetadata(p, "rules", "corrections")
           \/ GetMetadata(p, "corrections", "store rules") \/ ConnectionLost(p)
           \/ (\E c \in ChainId : ListChain(p, c))
  <2>1. UNCHANGED <<store, view, begin>> /\ step[p] \notin {"open", "connect"}
    BY <1>7 DEF BindAddress, Load, FileMissing, Show, ServerFails, Request, ShowListing, shared,
         GetMetadata, ConnectionLost, ListChain, Answers, From, Waiting
  <2>. QED
    BY <2>1
<1>8. CASE \/ StoreRules(p) \/ StoreCorrections(p) \/ (\E c \in ChainId : SyncBlock(p, c))
           \/ (\E doc \in Document : ImportFile(p, doc))
  <2>1. /\ UNCHANGED <<view, begin>> /\ step[p] \in {"store rules", "store corrections", "serving", "read file"}
        /\ step[p] = "store rules" => step'[p] = "store corrections"
    BY <1>8 DEF StoreRules, StoreCorrections, SyncBlock, ImportFile, From, Goto, CmdTypes
  <2>. QED
    BY <2>1
<1>9. CASE \E cmd \in Offered : Run(p, cmd)
  BY <1>9, RunStep
<1>. QED
  BY <1>1, <1>2, <1>3, <1>4, <1>5, <1>6, <1>7, <1>8, <1>9 DEF Act

(* A server has its database for itself, and so has every fetch. *)
LEMMA OwnStore ==
    ASSUME CmdTypes, Script, Holders, NEW p \in Process, Act(p), NEW q \in Process, q # p,
           step[q] \notin Before \cup {"ended"}, Writes(q)
    PROVE  command[q].dir \in Dir /\ store'[command[q].dir] = store[command[q].dir]
<1>1. command[q].dir \in Dir
  BY ScriptFacts DEF Before
<1>2. primary[command[q].dir] = q
  BY <1>1 DEF Holders
<1>. QED
  BY <1>1, <1>2, StoreStep

LEMMA ServerStep ==
    ASSUME CmdTypes, Script, Holders, Peers, MetadataOfServer, [CmdNext]_cmdVars
    PROVE  MetadataOfServer'
<1>1. ASSUME NEW p \in Process, Act(p), NEW q \in Process, step'[q] = "serving"
      PROVE  /\ command'[q] = command[q] /\ view'[q].meta = store'[command[q].dir].meta
             /\ step[q] = "serving" => view'[q].meta = view[q].meta
  <2>1. CASE q # p
    <3>1. Kept(q)
      BY <1>1, <2>1, OthersKept
    <3>2. step[q] = "serving" /\ Writes(q)
      BY <1>1, <3>1, ScriptFacts DEF Kept, Script
    <3>3. store'[command[q].dir] = store[command[q].dir]
      BY <1>1, <2>1, <3>2, OwnStore DEF Before
    <3>. QED
      BY <3>1, <3>2, <3>3 DEF Kept, MetadataOfServer
  <2>2. CASE q = p
    <3>1. step[p] \in {"open", "serving"} /\ command' = command
      BY <1>1, <2>2, OwnStep, RunStep DEF Moves, Opens, Opened
    <3>2. command[p].dir \in Dir
      BY <3>1, ScriptFacts
    <3>3. CASE step[p] = "open"
      BY <1>1, <2>2, <3>1, <3>3, DataStep
    <3>4. CASE step[p] = "serving"
      <4>1. store'[command[p].dir].meta = store[command[p].dir].meta
        BY <1>1, <3>2, <3>4, StoreStep
      <4>2. view[p].meta = store[command[p].dir].meta
        BY <3>4 DEF MetadataOfServer
      <4>3. view' = view \/ (view'[p] = store[command[p].dir] /\ UNCHANGED store)
        BY <1>1, <3>4, DataStep
      <4>. QED
        BY <2>2, <3>1, <4>1, <4>2, <4>3
    <3>. QED
      BY <3>1, <3>3, <3>4
  <2>. QED
    BY <2>1, <2>2
<1>2. ASSUME NEW p \in Process, Act(p), NEW q \in Process, step'[q] = "corrections",
             step'[peer'[q]] = "serving"
      PROVE  answer'[q].meta["rules"] = view'[peer'[q]].meta["rules"]
  <2>1. CASE step[q] = "corrections" /\ answer'[q] = answer[q]
    <3>1. peer'[q] = peer[q] /\ peer[q] \in Process
      <4>1. peer[q] \in Process
        BY <2>1 DEF Peers, AtServer
      <4>2. CASE q = p
        BY <1>2, <2>1, <4>1, <4>2, PeerStep
      <4>. QED
        BY <1>2, <4>1, <4>2, OthersKept DEF Kept
    <3>2. step[peer[q]] = "serving"
      <4>1. step[peer[q]] \in {"serving", "ended"}
        BY <3>1 DEF Peers
      <4>2. peer[q] = p => step[p] # "ended"
        BY <1>2, OwnStep, RunStep
      <4>3. peer[q] # p => step'[peer[q]] = step[peer[q]]
        BY <1>2, <3>1, OthersKept DEF Kept
      <4>. QED
        BY <1>2, <3>1, <4>1, <4>2, <4>3
    <3>. QED
      BY <1>1, <1>2, <2>1, <3>1, <3>2 DEF MetadataOfServer
  <2>2. CASE q = p /\ GetMetadata(p, "rules", "corrections")
    <3>1. peer' = peer /\ view' = view /\ step[p] = "rules"
      BY <2>2 DEF GetMetadata, Answers
    <3>2. answer[p] \in Found /\ "rules" \in Kind
      BY DEF CmdTypes, Kind
    <3>3. answer'[p] = [answer[p] EXCEPT !.meta["rules"] = view[peer[p]].meta["rules"]]
      BY <2>2 DEF GetMetadata, CmdTypes
    <3>4. answer'[p].meta["rules"] = view[peer[p]].meta["rules"]
      BY <3>2, <3>3 DEF Found, Tables
    <3>. QED
      BY <2>2, <3>1, <3>4
  <2>3. CASE q = p /\ ~GetMetadata(p, "rules", "corrections")
    <3>1. \A r : Return(p, r) \/ Exit(p, r) => step'[p] = "ended"
      BY DEF Return, Exit, Goto, CmdTypes
    <3>2. \A s : Goto(p, s) => step'[p] = s
      BY DEF Goto, CmdTypes
    <3>3. Opened(p) # "corrections"
      BY DEF Opened
    <3>4. CASE CtrlC(p)
      BY <1>2, <2>1, <2>3, <3>4 DEF CtrlC
    <3>5. step[p] \in {"rules", "corrections"}
      BY <1>2, <2>3, <3>3, OwnStep, RunStep DEF Moves, Opens
    <3>6. CASE ~CtrlC(p)
      BY <1>2, <2>3, <3>1, <3>2, <3>5, <3>6
        DEF Act, Run, BindAddress, Load, OpenForWriting, OpenForReading, FileMissing, Show,
         CatchUp, ServerFails, Connect, Request, ConnectionLost, ShowListing, GetMetadata, From, Answers,
         Dropped, Kill, ListChain, SyncBlock, ImportFile, StoreRules, StoreCorrections
    <3>. QED
      BY <3>4, <3>6
  <2>4. CASE q # p
    <3>1. step[q] = "corrections" /\ answer'[q] = answer[q]
      BY <1>2, <2>4, OthersKept DEF Kept
    <3>. QED
      BY <2>1, <3>1
  <2>. QED
    BY <2>2, <2>3, <2>4
<1>3. ASSUME NEW p \in Process, Act(p)
      PROVE  MetadataOfServer'
  BY <1>1, <1>2, <1>3 DEF MetadataOfServer
<1>4. CASE UNCHANGED <<step, view, store, command, answer, peer>>
  BY <1>4 DEF MetadataOfServer
<1>. QED
  BY <1>3, <1>4, NextActs DEF EditToken, cmdVars, shared

LEMMA ClientStep ==
    ASSUME CmdTypes, Script, Holders, MetadataOfClient, [CmdNext]_cmdVars
    PROVE  MetadataOfClient'
<1> DEFINE Fetching(q) == step[q] \notin Before \cup {"ended", "store corrections"}
                             /\ command[q].name = "fetch-metadata"
           Half(q) == Pair(store[command[q].dir], q) =
                          [Pair(begin[q], q) EXCEPT !["rules"] = Merged(q)["rules"]]
<1>0. \A q \in Process : /\ Fetching(q) => store[command[q].dir] = begin[q]
                         /\ step[q] = "store corrections" => Half(q)
  BY DEF MetadataOfClient
<1>a. ASSUME NEW q \in Process, command'[q] = command[q], begin'[q] = begin[q],
             answer'[q] = answer[q], store'[command[q].dir] = store[command[q].dir]
      PROVE  Half(q)' <=> Half(q)
  <2>1. Pair(store[command[q].dir], q)' = Pair(store[command[q].dir], q)
    BY <1>a DEF Pair, Id
  <2>2. Pair(begin[q], q)' = Pair(begin[q], q) /\ Merged(q)' = Merged(q)
    BY <1>a DEF Pair, Merged, Id
  <2>. QED
    BY <2>1, <2>2
<1>1. ASSUME NEW p \in Process, Act(p), NEW q \in Process, q # p
      PROVE  /\ Fetching(q)' => store'[command'[q].dir] = begin'[q]
             /\ step'[q] = "store corrections" => Half(q)'
  <2>1. Kept(q)
    BY <1>1, OthersKept
  <2>2. Fetching(q) \/ step[q] = "store corrections" => store'[command[q].dir] = store[command[q].dir]
    <3>1. step[q] = "store corrections" => command[q].name = "fetch-metadata"
      BY DEF Script, AtServer
    <3>2. command[q].name = "fetch-metadata" => Writes(q)
      BY DEF Writes
    <3>. QED
      BY <1>1, <3>1, <3>2, OwnStore DEF Before
  <2>3. Fetching(q)' <=> Fetching(q)
    BY <2>1 DEF Kept
  <2>4. step[q] = "store corrections" => (Half(q)' <=> Half(q))
    <3> HIDE DEF Half
    <3>. QED
      BY <1>a, <2>1, <2>2 DEF Kept
  <2> HIDE DEF Fetching, Half
  <2>. QED
    BY <1>0, <2>1, <2>2, <2>3, <2>4 DEF Kept
<1>2. ASSUME NEW p \in Process, Act(p), Fetching(p)'
      PROVE  store'[command'[p].dir] = begin'[p]
  <2>0. \A cmd \in Offered : ~Run(p, cmd)
    BY <1>2, RunStep DEF Before
  <2>1. /\ step[p] \notin {"new", "ended"} /\ command' = command
        /\ command[p].name = "fetch-metadata" /\ Writes(p)
    BY <1>2, <2>0, OwnStep DEF Writes
  <2>2. CASE step[p] = "open"
    BY <1>2, <2>1, <2>2, DataStep DEF Before
  <2>3. CASE step[p] \in {"bind", "load"}
    BY <1>2, <2>0, <2>1, <2>3, OwnStep DEF Moves, Opens, Before
  <2>4. CASE step[p] \notin Before
    <3>1. Fetching(p)
      BY <1>2, <2>0, <2>1, <2>4, OwnStep DEF Moves, Opens, Before
    <3>2. step[p] \notin {"read file", "serving"}
      BY <2>1 DEF Script, Imports
    <3>3. command[p].dir \in Dir /\ step[p] \in Places
      BY <2>1, ScriptFacts DEF CmdTypes
    <3>4. step[p] = "store rules" => step'[p] = "store rules"
      BY <1>2, <2>0, <2>1, OwnStep DEF Moves, Opens
    <3>5. store'[command[p].dir] = store[command[p].dir]
      <4>1. CASE step[p] = "store rules"
        BY <1>2, <3>4, <4>1, DataStep
      <4>2. CASE step[p] \notin {"read file", "serving", "store rules", "store corrections"}
        BY <1>2, <3>3, <4>2, StoreStep
      <4>. QED
        BY <3>1, <3>2, <4>1, <4>2
    <3>6. begin'[p] = begin[p]
      BY <1>2, <2>1, <2>4, DataStep DEF Before
    <3>. QED
      BY <1>0, <2>1, <3>1, <3>5, <3>6
  <2>. QED
    BY <2>1, <2>2, <2>3, <2>4 DEF Before
<1>3. ASSUME NEW p \in Process, Act(p), step'[p] = "store corrections"
      PROVE  Half(p)'
  <2>0. \A cmd \in Offered : ~Run(p, cmd)
    BY <1>3, RunStep
  <2>1. step[p] \in {"store rules", "store corrections"} /\ command' = command
    BY <1>3, <2>0, OwnStep DEF Moves, Opens, Opened
  <2>2. /\ \A r : Return(p, r) \/ Exit(p, r) => step'[p] = "ended"
        /\ \A s : Goto(p, s) => step'[p] = s
    BY DEF Return, Exit, Goto, CmdTypes
  <2>3. StoreRules(p) \/ (CtrlC(p) /\ step[p] = "store corrections")
    BY <1>3, <2>0, <2>1, <2>2
      DEF Act, BindAddress, Load, OpenForWriting, OpenForReading, FileMissing, Show,
         CatchUp, ServerFails, Connect, Request, ConnectionLost, ShowListing, GetMetadata, From, Answers,
         Dropped, Kill, ListChain, SyncBlock, ImportFile, StoreCorrections, CtrlC, Waiting
  <2>4. CASE CtrlC(p) /\ step[p] = "store corrections"
    BY <1>0, <2>4 DEF CtrlC, Pair, Merged, Id
  <2>5. CASE StoreRules(p)
    <3> DEFINE d == command[p].dir
               c == Id(p)
               doc == answer[p].meta["rules"][c]
               old == store[d]
    <3>1. /\ step[p] = "store rules" /\ Answered(p, "rules", doc)
          /\ UNCHANGED <<begin, answer, command>>
      BY <2>5 DEF StoreRules, From
    <3>2. d \in Dir /\ c \in ChainId /\ "rules" \in Kind /\ "corrections" \in Kind /\ old \in Stores
      BY <3>1, ScriptFacts DEF Script, AtServer, CmdTypes, Kind
    <3>3. old = begin[p]
      BY <1>0, <3>1 DEF Script, AtServer, Before
    <3>4. doc \in Nat
      BY <3>2 DEF CmdTypes, Found, Tables
    <3>5. /\ store'[d].meta["rules"][c] = IF doc = 0 THEN old.meta["rules"][c] ELSE doc
          /\ store'[d].meta["corrections"][c] = old.meta["corrections"][c]
      <4>1. CASE doc = 0
        BY <3>1, <4>1 DEF Answered
      <4>2. CASE doc # 0
        <5>1. store'[d] = PutMetadata(old, "rules", c, doc)
          BY <3>1, <3>2, <4>2 DEF Answered, CmdTypes
        <5>. QED
          BY <3>2, <3>4, <4>2, <5>1, PutMetadataType
      <4>. QED
        BY <4>1, <4>2
    <3>6. (Id(p) = c)' /\ command'[p].dir = d
      BY <3>1 DEF Id
    <3>7. Merged(p)["rules"] = IF doc = 0 THEN old.meta["rules"][c] ELSE doc
      BY <3>3 DEF Merged
    <3>8. Merged(p)' = Merged(p) /\ Pair(begin[p], p)' = Pair(begin[p], p)
      BY <3>1 DEF Merged, Pair, Id
    <3>9. Pair(store[command[p].dir], p)' =
            [k \in {"rules", "corrections"} |-> store'[d].meta[k][c]]
      BY <3>1, <3>6 DEF Pair, Id
    <3>10. Pair(begin[p], p) = [k \in {"rules", "corrections"} |-> old.meta[k][c]]
      BY <3>3 DEF Pair
    <3> HIDE DEF d, c, doc, old
    <3>. QED
      BY <3>5, <3>7, <3>8, <3>9, <3>10
  <2>. QED
    BY <2>3, <2>4, <2>5
<1>4. ASSUME NEW p \in Process, Act(p)
      PROVE  MetadataOfClient'
  <2>1. \A q \in Process : /\ Fetching(q)' => store'[command'[q].dir] = begin'[q]
                           /\ step'[q] = "store corrections" => Half(q)'
    <3> HIDE DEF Fetching, Half
    <3>. QED
      BY <1>1, <1>2, <1>3, <1>4
  <2>. QED
    BY <2>1 DEF MetadataOfClient
<1>5. CASE UNCHANGED <<step, command, store, begin, answer>>
  <2>1. \A q \in Process : Half(q)' <=> Half(q)
    BY <1>a, <1>5
  <2>2. \A q \in Process : step[q] = "store corrections" => Half(q)'
    BY <1>0, <2>1
  <2>. QED
    BY <1>5, <2>2 DEF MetadataOfClient
<1>. QED
  BY <1>4, <1>5, NextActs DEF EditToken, cmdVars, shared

(* A listing in the making: what was asked for is there or still to come,  *)
(* with at least what there was, and at most what there is.                *)
Partly(p) ==
    /\ Asked(p) \subseteq answer[p].ids \cup answer[p].left
    /\ \A c \in answer[p].ids :
          /\ begin[p].blocks[c] <= answer[p].blocks[c]
          /\ \A k \in Kind : begin[p].meta[k][c] # 0 => answer[p].meta[k][c] # 0
    /\ Has(answer[p], store[command[p].url])

LEMMA HasTransitive ==
    ASSUME NEW a \in Found, NEW b \in Stores, NEW c \in Stores, Has(a, b), Grown(b, c)
    PROVE  Has(a, c)
<1> SUFFICES ASSUME NEW e \in ChainId
             PROVE  a.blocks[e] <= c.blocks[e] /\ \A k \in Kind : a.meta[k][e] # 0 => c.meta[k][e] # 0
  BY DEF Has
<1>1. a.blocks[e] \in Nat /\ b.blocks[e] \in Nat /\ c.blocks[e] \in Nat
  BY DEF Stores, Found
<1>2. a.blocks[e] <= b.blocks[e] /\ b.blocks[e] <= c.blocks[e]
  BY DEF Grown, Has
<1>3. \A k \in Kind : a.meta[k][e] # 0 => c.meta[k][e] # 0
  BY DEF Grown, Has
<1>. QED
  BY <1>1, <1>2, <1>3

(* Each view is at least what it was, and at most the database. *)
LEMMA ViewsStep ==
    ASSUME CmdTypes, CmdTypes', Script, Holders, Peers, Listings, NEW p \in Process, Act(p), NEW q \in Process
    PROVE  /\ step'[q] \in {"serving", "print"} => Grown(view'[q], store'[command'[q].dir])
           /\ step[q] \in {"serving", "ended"} => Grown(view[q], view'[q])
<1>1. CASE q # p
  <2>1. Kept(q)
    BY <1>1, OthersKept
  <2>2. Grown(view[q], view'[q])
    BY <2>1, GrownReflexive DEF Kept, CmdTypes
  <2>3. ASSUME step'[q] \in {"serving", "print"}
        PROVE  Grown(view'[q], store'[command'[q].dir])
    <3>1. step[q] \in {"serving", "print"} /\ command[q].dir \in Dir
      BY <2>1, <2>3, ScriptFacts DEF Kept
    <3>2. Grown(view[q], store[command[q].dir]) /\ Grown(store[command[q].dir], store'[command[q].dir])
      BY <3>1, StoreStep DEF Listings
    <3>. QED
      BY <2>1, <3>1, <3>2, GrownTransitive DEF Kept, CmdTypes
  <2>. QED
    BY <2>2, <2>3
<1>2. CASE q = p /\ \E cmd \in Offered : Run(p, cmd)
  BY <1>2, RunStep
<1>3. CASE q = p /\ step[p] \notin {"new", "ended"} /\ command' = command
  <2>0. command[p].dir \in Dir
    BY <1>3, ScriptFacts
  <2>a. store[command[p].dir] \in Stores /\ store'[command[p].dir] \in Stores /\ view[p] \in Stores
        /\ view'[p] \in Stores
    BY <2>0 DEF CmdTypes
  <2>1. Grown(store[command[p].dir], store'[command[p].dir])
    BY <2>0, StoreStep
  <2>2. CASE step[p] = "serving"
    <3>1. Grown(view[p], store[command[p].dir])
      BY <2>2 DEF Listings
    <3>2. CASE view' = view
      BY <1>3, <2>1, <2>a, <3>1, <3>2, GrownTransitive, GrownReflexive
    <3>3. CASE view'[p] = store[command[p].dir] /\ UNCHANGED store
      BY <1>3, <2>1, <2>a, <3>1, <3>3, GrownReflexive
    <3>. QED
      BY <1>3, <2>2, <3>2, <3>3, DataStep
  <2>3. CASE step[p] = "open"
    BY <1>3, <2>1, <2>3, DataStep
  <2>4. CASE step[p] \notin {"open", "serving"} /\ step'[p] \in {"serving", "print"}
    <3>1. step[p] = "print" /\ view' = view
      BY <1>3, <2>4, OwnStep, RunStep, DataStep DEF Moves, Opens
    <3>2. Grown(view[p], store[command[p].dir])
      BY <3>1 DEF Listings
    <3>. QED
      BY <1>3, <2>1, <2>a, <2>4, <3>1, <3>2, GrownTransitive
  <2>. QED
    BY <1>3, <2>2, <2>3, <2>4
<1>. QED
  BY <1>1, <1>2, <1>3, OwnStep

LEMMA ListingStep ==
    ASSUME CmdTypes, CmdTypes', Script, Holders, Peers, Quiet, Listings,
           NEW p \in Process, Act(p), step'[p] = "listing"
    PROVE  Partly(p)'
<1> DEFINE s == peer[p]
           u == command[p].url
<1>0. \A cmd \in Offered : ~Run(p, cmd)
  BY RunStep
<1>1. step[p] \in {"request", "listing"} /\ command' = command /\ command[p].name = "list"
  <2>1. step[p] \in {"request", "listing"} /\ command' = command
    BY <1>0, OwnStep DEF Moves, Opens, Opened
  <2>2. step[p] = "request" => command[p].name = "list"
    BY <1>0, <2>1, OwnStep DEF Moves, Opens
  <2>. QED
    BY <2>1, <2>2 DEF Script
<1>2. s \in Process /\ u \in Dir /\ command[s].dir = u /\ s # p
  BY <1>1, ScriptFacts DEF Peers, AtServer
<1>3. begin' = begin /\ store' = store /\ view' = view
  BY <1>1, DataStep
<1>4. Grown(begin[p], view[s])
  BY <1>1 DEF Listings
<1>5. /\ \A r : Return(p, r) \/ Exit(p, r) => step'[p] = "ended"
      /\ \A t : Goto(p, t) => step'[p] = t
  BY DEF Return, Exit, Goto, CmdTypes
<1>6. (Asked(p))' = Asked(p)
  BY <1>1, <1>3 DEF Asked, Id
<1>7. CASE step[p] = "listing" /\ UNCHANGED answer
  <2>1. Partly(p)
    BY <1>7 DEF Listings, Partly
  <2>. QED
    BY <1>1, <1>3, <1>6, <1>7, <2>1 DEF Partly
<1>8. CASE Request(p) /\ step[p] = "request"
  <2>1. answer' = [answer EXCEPT ![p].left = IF command[p].name = "list" /\ command[p].all
                                             THEN view[s].ids ELSE {Id(p)}]
    BY <1>5, <1>8 DEF Request
  <2>2. answer[p] = Nothing
    BY <1>8 DEF Quiet
  <2>3. /\ answer'[p].left = IF command[p].all THEN view[s].ids ELSE {Id(p)}
        /\ answer'[p].ids = {} /\ answer'[p].meta = Empty.meta /\ answer'[p].blocks = Empty.blocks
    <3>1. answer[p] \in Found /\ answer[p].ids = {} /\ answer[p].meta = Empty.meta
          /\ answer[p].blocks = Empty.blocks
      <4>1. answer[p] \in Found
        BY DEF CmdTypes
      <4>2. Nothing.ids = {} /\ Nothing.meta = Empty.meta /\ Nothing.blocks = Empty.blocks
        BY DEF Nothing
      <4>. QED
        BY <2>2, <4>1, <4>2
    <3>. QED
      BY <1>1, <2>1, <3>1 DEF CmdTypes, Found
  <2>4. Asked(p) \subseteq answer'[p].left
    BY <1>4, <2>3 DEF Asked, Grown
  <2>5. store[u] \in Stores
    BY <1>2 DEF CmdTypes
  <2>6. Has(answer'[p], store[u])
    BY <2>3, <2>5 DEF Has, Empty, Stores
  <2>. QED
    BY <1>1, <1>3, <1>6, <2>3, <2>4, <2>6 DEF Partly
<1>9. ASSUME NEW c \in ChainId, ListChain(p, c)
      PROVE  Partly(p)'
  <2> DEFINE base == view[s]
             a == answer[p]
  <2>1. answer'[p] = [ids |-> a.ids \cup {c}, left |-> a.left \ {c},
                      meta |-> [k \in Kind |-> [a.meta[k] EXCEPT ![c] = base.meta[k][c]]],
                      blocks |-> [a.blocks EXCEPT ![c] = base.blocks[c]]]
    BY <1>9 DEF ListChain, CmdTypes
  <2>2. step[s] = "serving" /\ step[p] = "listing"
    BY <1>9 DEF ListChain, Answers
  <2>3. a \in Found /\ base \in Stores /\ begin[p] \in Stores /\ store[u] \in Stores
    BY <1>2 DEF CmdTypes
  <2>4. /\ answer'[p].ids = a.ids \cup {c} /\ answer'[p].left = a.left \ {c}
        /\ \A e \in ChainId : answer'[p].blocks[e] = IF e = c THEN base.blocks[c] ELSE a.blocks[e]
        /\ \A k \in Kind, e \in ChainId :
              answer'[p].meta[k][e] = IF e = c THEN base.meta[k][c] ELSE a.meta[k][e]
    BY <2>1, <2>3 DEF Found, Tables
  <2>5. Partly(p)
    BY <2>2 DEF Listings, Partly
  <2>6. Grown(base, store[u])
    BY <1>2, <2>2 DEF Listings
  <2>7. a.ids \subseteq ChainId
    BY <2>3 DEF Found
  <2> HIDE DEF a, base, s, u
  <2>8. Asked(p) \subseteq answer'[p].ids \cup answer'[p].left
    BY <2>4, <2>5 DEF Partly, a
  <2>9. ASSUME NEW e \in answer'[p].ids
        PROVE  /\ begin[p].blocks[e] <= answer'[p].blocks[e]
               /\ \A k \in Kind : begin[p].meta[k][e] # 0 => answer'[p].meta[k][e] # 0
    <3>1. CASE e = c
      BY <1>4, <2>4, <3>1 DEF Grown, Has, base
    <3>2. CASE e # c
      <4>1. e \in a.ids /\ e \in ChainId
        BY <2>4, <2>7, <2>9, <3>2
      <4>. QED
        BY <2>4, <2>5, <3>2, <4>1 DEF Partly, a
    <3>. QED
      BY <3>1, <3>2
  <2>10. Has(answer'[p], store[u])
    <3> SUFFICES ASSUME NEW e \in ChainId
                 PROVE  /\ answer'[p].blocks[e] <= store[u].blocks[e]
                        /\ \A k \in Kind : answer'[p].meta[k][e] # 0 => store[u].meta[k][e] # 0
      BY DEF Has
    <3>1. CASE e = c
      BY <2>4, <2>6, <3>1 DEF Grown, Has
    <3>2. CASE e # c
      BY <2>4, <2>5, <3>2 DEF Partly, Has, a, u
    <3>. QED
      BY <3>1, <3>2
  <2>. QED
    BY <1>1, <1>3, <1>6, <2>8, <2>9, <2>10 DEF Partly, u
<1>. QED
  <2>1. CASE step[p] = "request"
    BY <1>0, <1>5, <1>8, <2>1
      DEF Act, BindAddress, Load, OpenForWriting, OpenForReading, FileMissing, Show,
         CatchUp, ServerFails, Connect, ConnectionLost, ShowListing, GetMetadata, From, Answers,
         Dropped, Kill, ListChain, SyncBlock, ImportFile, StoreRules, StoreCorrections, CtrlC
  <2>2. CASE step[p] = "listing"
    BY <1>0, <1>5, <1>7, <1>9, <2>2
      DEF Act, BindAddress, Load, OpenForWriting, OpenForReading, FileMissing, Show,
         CatchUp, ServerFails, Connect, Request, ConnectionLost, ShowListing, GetMetadata, From, Answers,
         Dropped, Kill, SyncBlock, ImportFile, StoreRules, StoreCorrections, CtrlC
  <2>. QED
    BY <1>1, <2>1, <2>2

LEMMA ListingsStep ==
    ASSUME CmdTypes, CmdTypes', Script, Holders, Peers, Quiet, Listings, [CmdNext]_cmdVars
    PROVE  Listings'
<1> DEFINE Ok(q) ==
        /\ step[q] \in {"serving", "print"} => Grown(view[q], store[command[q].dir])
        /\ step[q] \in {"bind", "load", "open"} => Grown(begin[q], store[command[q].dir])
        /\ step[q] = "print" => Grown(begin[q], view[q])
        /\ step[q] \in {"request", "listing"} /\ command[q].name = "list" =>
               Grown(begin[q], view[peer[q]])
        /\ step[q] = "listing" => Partly(q)
<1>0. \A q \in Process : Ok(q)
  BY DEF Listings, Partly
<1>1. ASSUME NEW p \in Process, Act(p), NEW q \in Process, step'[q] \in {"bind", "load", "open"}
      PROVE  Grown(begin'[q], store'[command'[q].dir])
  <2>1. CASE step[q] \in {"bind", "load", "open"} /\ command'[q] = command[q] /\ begin'[q] = begin[q]
    <3>1. command[q].dir \in Dir
      BY <2>1, ScriptFacts
    <3>2. Grown(begin[q], store[command[q].dir]) /\ Grown(store[command[q].dir], store'[command[q].dir])
      BY <1>0, <1>1, <2>1, <3>1, StoreStep
    <3>. QED
      BY <2>1, <3>1, <3>2, GrownTransitive DEF CmdTypes
  <2>2. CASE q # p
    BY <1>1, <2>1, <2>2, OthersKept DEF Kept
  <2>3. CASE q = p /\ \E cmd \in Offered : Run(p, cmd)
    <3>1. PICK cmd \in Offered : Run(p, cmd)
      BY <2>3
    <3>2. cmd.dir \in Dir
      BY OfferedCommands
    <3>3. begin'[p] = store[cmd.dir] /\ command'[p] = cmd /\ store' = store
      BY <3>1, RunStep DEF CmdTypes
    <3>. QED
      BY <2>3, <3>2, <3>3, GrownReflexive DEF CmdTypes
  <2>4. CASE q = p /\ step[p] \notin {"new", "ended"} /\ command' = command /\ (Moves(p) \/ Opens(p))
    <3>1. step[p] \in {"bind", "load", "open"}
      BY <1>1, <2>4 DEF Moves, Opens, Opened
    <3>2. step[p] = "open" => step'[p] = "open"
      BY <1>1, <2>4 DEF Moves, Opens, Opened
    <3>3. step[p] \notin {"open", "connect"} => begin' = begin
      BY <1>1, <2>4, DataStep
    <3>4. step[p] = "open" /\ step'[p] = "open" => begin' = begin
      BY <1>1, <2>4, DataStep
    <3>5. begin'[p] = begin[p]
      BY <3>1, <3>2, <3>3, <3>4
    <3>. QED
      BY <2>1, <2>4, <3>1, <3>5
  <2>. QED
    BY <1>1, <2>2, <2>3, <2>4, OwnStep
<1>2. ASSUME NEW p \in Process, Act(p), NEW q \in Process, step'[q] = "print"
      PROVE  Grown(begin'[q], view'[q])
  <2>1. CASE q # p
    BY <1>0, <1>2, <2>1, OthersKept DEF Kept
  <2>2. CASE q = p
    <3>0. \A cmd \in Offered : ~Run(p, cmd)
      BY <1>2, <2>2, RunStep
    <3>1. step[p] \in {"print", "open"} /\ command' = command
      BY <1>2, <2>2, <3>0, OwnStep DEF Moves, Opens
    <3>2. CASE step[p] = "print"
      BY <1>0, <1>2, <2>2, <3>2, DataStep
    <3>3. CASE step[p] = "open"
      <4>1. ~Writes(p)
        <5>1. Opened(p) = "print"
          BY <1>2, <2>2, <3>0, <3>3, OwnStep DEF Moves, Opens
        <5>2. command[p].name # "start" /\ command[p].name \notin Imports /\ ~command[p].remote
          BY <5>1 DEF Opened
        <5>3. command[p].name # "fetch-metadata"
          BY <3>3, <5>2, ScriptFacts, OfferedCommands
        <5>. QED
          BY <5>2, <5>3 DEF Writes
      <4>2. view'[p] = store[command[p].dir] /\ begin'[p] = begin[p]
        BY <1>2, <2>2, <3>3, <4>1, DataStep
      <4>. QED
        BY <1>0, <2>2, <3>3, <4>2
    <3>. QED
      BY <3>1, <3>2, <3>3
  <2>. QED
    BY <2>1, <2>2
<1>3. ASSUME NEW p \in Process, Act(p), NEW q \in Process,
             step'[q] \in {"request", "listing"} /\ command'[q].name = "list"
      PROVE  Grown(begin'[q], view'[peer'[q]])
  <2>1. CASE step[q] \in {"request", "listing"} /\ command'[q] = command[q] /\ begin'[q] = begin[q]
             /\ peer'[q] = peer[q]
    <3>1. peer[q] \in Process /\ step[peer[q]] \in {"serving", "ended"}
      BY <2>1 DEF Peers, AtServer
    <3>2. Grown(begin[q], view[peer[q]])
      BY <1>0, <1>3, <2>1
    <3>3. Grown(view[peer[q]], view'[peer[q]])
      BY <1>3, <3>1, ViewsStep
    <3>. QED
      BY <2>1, <3>1, <3>2, <3>3, GrownTransitive DEF CmdTypes
  <2>2. CASE q # p
    BY <1>3, <2>1, <2>2, OthersKept DEF Kept
  <2>3. CASE q = p
    <3>0. \A cmd \in Offered : ~Run(p, cmd)
      BY <1>3, <2>3, RunStep
    <3>1. step[p] \in {"connect", "request", "listing"} /\ command' = command
      BY <1>3, <2>3, <3>0, OwnStep DEF Moves, Opens, Opened
    <3>2. CASE step[p] \in {"request", "listing"}
      BY <1>3, <2>1, <2>3, <3>1, <3>2, DataStep, PeerStep
    <3>3. CASE step[p] = "connect"
      <4>1. step'[p] = "request"
        BY <1>3, <2>3, <3>0, <3>3, OwnStep DEF Moves, Opens
      <4>2. begin'[p] = view[peer'[p]] /\ view' = view
        BY <1>3, <2>3, <3>1, <3>3, <4>1, DataStep
      <4>3. peer'[p] \in Process
        BY <1>3, <3>3, <4>1, PeerStep DEF CmdTypes
      <4>. QED
        BY <2>3, <4>2, <4>3, GrownReflexive DEF CmdTypes
    <3>. QED
      BY <3>1, <3>2, <3>3
  <2>. QED
    BY <2>2, <2>3
<1>4. ASSUME NEW p \in Process, Act(p), NEW q \in Process, step'[q] = "listing"
      PROVE  Partly(q)'
  <2>1. CASE q # p
    <3>1. Kept(q) /\ step[q] = "listing"
      BY <1>4, <2>1, OthersKept DEF Kept
    <3>2. Partly(q) /\ command[q].url \in Dir
      BY <1>0, <3>1, ScriptFacts
    <3>3. Grown(store[command[q].url], store'[command[q].url])
      BY <1>4, <3>2, StoreStep
    <3>4. Has(answer[q], store'[command[q].url])
      BY <3>2, <3>3, HasTransitive DEF Partly, CmdTypes
    <3>5. Asked(q)' = Asked(q)
      BY <3>1 DEF Kept, Asked, Id
    <3>. QED
      BY <3>1, <3>2, <3>4, <3>5 DEF Kept, Partly
  <2>2. CASE q = p
    BY <1>4, <2>2, ListingStep
  <2>. QED
    BY <2>1, <2>2
<1>5. ASSUME NEW p \in Process, Act(p), NEW q \in Process
      PROVE  Ok(q)'
  BY <1>1, <1>2, <1>3, <1>4, <1>5, ViewsStep
<1>6. CASE UNCHANGED <<step, command, store, view, begin, peer, answer>>
  BY <1>6 DEF Listings, Asked, Id
<1>7. (\A q \in Process : Ok(q)') => Listings'
  BY DEF Listings, Partly
<1> HIDE DEF Ok
<1>. QED
  BY <1>5, <1>6, <1>7, NextActs DEF EditToken, cmdVars, shared

LEMMA CmdInitially ==
    ASSUME CmdInit
    PROVE  CmdIInv
<1>0. \A p \in Process : /\ step[p] = "new" /\ command[p] = NoCommand /\ peer[p] = Nobody
                         /\ answer[p] = Nothing /\ code[p] = -1
  BY DEF CmdInit
<1>1. CmdTypes
  <2>1. "new" \in Places /\ -1 \in Int
    BY DEF Places, Before
  <2>2. \A p \in Process : command[p] = NoCommand
    BY DEF CmdInit
  <2>. QED
    BY <2>1, <2>2, InitialValues DEF CmdInit, CmdTypes
<1>2. Script
  BY <1>0 DEF Script, AtServer
<1>3. Holders
  <2>1. \A d \in Dir : primary[d] = Nobody
    BY DEF CmdInit
  <2>. QED
    BY <1>0, <2>1, CommandsAssumption DEF Holders, Before
<1>4. Peers /\ PastTheCheck /\ OnlyWithToken
  BY <1>0, CommandsAssumption DEF Peers, PastTheCheck, OnlyWithToken, AtServer
<1>5. Quiet
  BY <1>0 DEF Quiet
<1>6. MetadataOfServer /\ MetadataOfClient /\ Listings
  BY <1>0 DEF MetadataOfServer, MetadataOfClient, Listings, Before
<1>. QED
  BY <1>1, <1>2, <1>3, <1>4, <1>5, <1>6 DEF CmdIInv

LEMMA CmdInvariance ==
    CmdSpec => []CmdIInv
<1>1. CmdInit => CmdIInv
  BY CmdInitially
<1>2. CmdIInv /\ [CmdNext]_cmdVars => CmdIInv'
  <2> SUFFICES ASSUME CmdIInv, [CmdNext]_cmdVars
               PROVE  CmdIInv'
    OBVIOUS
  <2>1. CmdTypes /\ Script /\ Holders /\ Peers /\ Quiet /\ PastTheCheck /\ OnlyWithToken
        /\ MetadataOfServer /\ MetadataOfClient /\ Listings
    BY DEF CmdIInv
  <2>2. CmdTypes'
    BY <2>1, TypesStep
  <2>3. Script' /\ Holders' /\ Peers'
    BY <2>1, ScriptStep, HoldersStep, PeersStep
  <2>4. Quiet' /\ PastTheCheck' /\ OnlyWithToken'
    BY <2>1, QuietStep, TokenStep
  <2>5. MetadataOfServer' /\ MetadataOfClient'
    BY <2>1, ServerStep, ClientStep
  <2>6. Listings'
    BY <2>1, <2>2, ListingsStep
  <2>. QED
    BY <2>2, <2>3, <2>4, <2>5, <2>6 DEF CmdIInv
<1>. QED
  BY <1>1, <1>2, PTL DEF CmdSpec

(* Whatever the processes and the commands they are given, and however     *)
(* often the token is changed: nobody is told anything of a server that    *)
(* loaded a token but with that token, and a refusal is never taken for an *)
(* empty answer (auth.rs, cmd/list.rs and cmd/fetch.rs).                   *)
THEOREM OnlyTheTokenIsAnswered ==
    CmdSpec => []OnlyWithToken
<1>1. CmdIInv => OnlyWithToken
  BY DEF CmdIInv
<1>. QED
  BY <1>1, CmdInvariance, PTL

(* How a process ends: what it stored then, and with which exit code. *)
LEMMA EndStep ==
    ASSUME CmdTypes, NEW p \in Process, Act(p), step[p] # "new", step'[p] = "ended"
    PROVE  /\ ctrl_c' = ctrl_c
           /\ step[p] \notin {"read file", "store corrections"} => store' = store
           /\ step[p] = "store corrections" /\ code'[p] # 9 => StoreCorrections(p)
<1>1. \A cmd \in Offered : ~Run(p, cmd)
  BY RunStep
<1>2. \A s : Goto(p, s) => step'[p] = s
  BY DEF Goto, CmdTypes
<1>3. step[p] # "ended"
  BY <1>1, OwnStep
<1>4. Opened(p) # "ended"
  BY DEF Opened
<1>5. CASE BindAddress(p) \/ OpenForWriting(p) \/ FileMissing(p) \/ Show(p) \/ ServerFails(p)
           \/ Connect(p) \/ Request(p) \/ ConnectionLost(p) \/ ShowListing(p)
  BY <1>5 DEF BindAddress, OpenForWriting, FileMissing, Show, ServerFails, Connect, Request,
              ConnectionLost, ShowListing, Waiting
<1>6. CASE Dropped(p)
  BY <1>6 DEF Dropped, AtAwait, Waiting
<1>7. CASE Kill(p)
  BY <1>7 DEF Kill, Exit, CmdTypes
<1>8. CASE StoreCorrections(p) \/ \E doc \in Document : ImportFile(p, doc)
  BY <1>8 DEF StoreCorrections, ImportFile
<1>9. ~(Load(p) \/ OpenForReading(p) \/ GetMetadata(p, "rules", "corrections")
        \/ GetMetadata(p, "corrections", "store rules") \/ StoreRules(p))
  BY <1>2, <1>4 DEF Load, OpenForReading, GetMetadata, StoreRules, From
<1>10. ~(CatchUp(p) \/ CtrlC(p) \/ \E c \in ChainId : SyncBlock(p, c) \/ ListChain(p, c))
  BY <1>3 DEF CatchUp, CtrlC, SyncBlock, ListChain
<1>. QED
  BY <1>1, <1>5, <1>6, <1>7, <1>8, <1>9, <1>10 DEF Act

LEMMA FetchEnds ==
    ASSUME CmdIInv, NEW p \in Process, Act(p), command[p].name = "fetch-metadata", Ends(p),
           primary[command[p].dir] = p
    PROVE  LET now == Pair(store'[command[p].dir], p)
           IN  /\ now \in {Pair(begin[p], p), Merged(p)}
               /\ code'[p] = 0 /\ ~ctrl_c[p] => now = Merged(p)
<1> DEFINE d == command[p].dir
           c == Id(p)
           doc == answer[p].meta["corrections"][c]
           old == store[d]
           now == Pair(store'[d], p)
<1>a. CmdTypes /\ Script /\ Holders /\ Quiet /\ MetadataOfClient
  BY DEF CmdIInv
<1>0. step[p] # "new"
  <2>1. NoCommand.name = "none"
    BY DEF NoCommand, Local, CommandWith
  <2>. QED
    BY <1>a, <2>1 DEF Script
<1>1. command[p] \in Offered /\ d \in Dir /\ Writes(p)
  BY <1>a, <1>0, ScriptFacts
<1>2. step[p] \notin Before \cup {"ended"} /\ step'[p] = "ended" /\ code'[p] # 9
  BY <1>a, <1>1 DEF Holders, Ends
<1>3. step[p] \notin {"read file", "print", "listing"}
  BY <1>a, <1>1 DEF Script, Imports
<1>4. CASE step[p] # "store corrections"
  <2>1. old = begin[p]
    BY <1>a, <1>2, <1>4 DEF MetadataOfClient
  <2>2. store' = store
    BY <1>a, <1>0, <1>2, <1>3, <1>4, EndStep
  <2>3. ctrl_c' = ctrl_c
    BY <1>a, <1>0, <1>2, EndStep
  <2>4. ~(code'[p] = 0 /\ ~ctrl_c'[p])
    BY <1>a, <1>2, <1>3, <1>4, AnswerStep
  <2>. QED
    BY <2>1, <2>2, <2>3, <2>4
<1>5. CASE step[p] = "store corrections"
  <2>1. Answered(p, "corrections", doc)
    BY <1>a, <1>0, <1>2, <1>5, EndStep DEF StoreCorrections
  <2>2. c \in ChainId /\ old \in Stores /\ "rules" \in Kind /\ "corrections" \in Kind
    <3>1. ~command[p].all
      BY <1>a, <1>0, ScriptFacts
    <3>. QED
      BY <1>a, <1>1, <1>5, <3>1 DEF Script, CmdTypes, Kind
  <2>3. doc \in Nat
    BY <1>a, <2>2 DEF CmdTypes, Found, Tables
  <2>4. /\ store'[d].meta["corrections"][c] = IF doc = 0 THEN old.meta["corrections"][c] ELSE doc
        /\ store'[d].meta["rules"][c] = old.meta["rules"][c]
    <3>1. CASE doc = 0
      BY <2>1, <3>1 DEF Answered
    <3>2. CASE doc # 0
      <4>1. store'[d] = PutMetadata(old, "corrections", c, doc)
        BY <1>a, <1>1, <2>1, <3>2 DEF Answered, CmdTypes
      <4>. QED
        BY <2>2, <2>3, <3>2, <4>1, PutMetadataType
    <3>. QED
      BY <3>1, <3>2
  <2>5. Pair(old, p) = [Pair(begin[p], p) EXCEPT !["rules"] = Merged(p)["rules"]]
    BY <1>a, <1>5 DEF MetadataOfClient
  <2>6. /\ Pair(old, p) = [k \in {"rules", "corrections"} |-> old.meta[k][c]]
        /\ Pair(begin[p], p) = [k \in {"rules", "corrections"} |-> begin[p].meta[k][c]]
        /\ now = [k \in {"rules", "corrections"} |-> store'[d].meta[k][c]]
    BY DEF Pair
  <2>7. Merged(p)["corrections"] = IF doc = 0 THEN begin[p].meta["corrections"][c] ELSE doc
    BY DEF Merged
  <2>8. Merged(p) = [k \in {"rules", "corrections"} |-> Merged(p)[k]]
    BY DEF Merged
  <2> HIDE DEF d, c, doc, old, now
  <2>9. old.meta["rules"][c] = Merged(p)["rules"]
        /\ old.meta["corrections"][c] = begin[p].meta["corrections"][c]
    BY <2>5, <2>6
  <2>10. now = Merged(p)
    BY <2>4, <2>6, <2>7, <2>8, <2>9
  <2>. QED
    BY <2>10 DEF now, d
<1>. QED
  BY <1>4, <1>5

LEMMA FetchIsAnswered ==
    ASSUME CmdIInv, NEW p \in Process, Act(p), step[p] = "corrections", step'[p] = "store rules",
           NEW k \in {"rules", "corrections"}
    PROVE  answer'[p].meta[k][Id(p)] = store[command[peer[p]].dir].meta[k][Id(p)]
<1>a. CmdTypes /\ Script /\ Peers /\ MetadataOfServer
  BY DEF CmdIInv
<1>1. \A cmd \in Offered : ~Run(p, cmd)
  BY <1>a, RunStep
<1>2. /\ \A r : Return(p, r) \/ Exit(p, r) => step'[p] = "ended"
      /\ \A s : Goto(p, s) => step'[p] = s
  BY <1>a DEF Return, Exit, Goto, CmdTypes
<1>3. GetMetadata(p, "corrections", "store rules")
  BY <1>1, <1>2
    DEF Act, BindAddress, Load, OpenForWriting, OpenForReading, FileMissing, Show,
       CatchUp, ServerFails, Connect, Request, ConnectionLost, ShowListing, GetMetadata, From, Answers,
       Dropped, Kill, ListChain, SyncBlock, ImportFile, StoreCorrections, StoreRules, CtrlC, Waiting
<1>4. step[peer[p]] = "serving" /\ peer[p] \in Process
  BY <1>a, <1>3 DEF GetMetadata, Answers, Peers, AtServer
<1>5. answer[p] \in Found /\ "rules" \in Kind /\ "corrections" \in Kind
  BY <1>a DEF CmdTypes, Kind
<1>6. answer'[p] = [answer[p] EXCEPT !.meta["corrections"] = view[peer[p]].meta["corrections"]]
  BY <1>a, <1>3 DEF GetMetadata, CmdTypes
<1>7. /\ answer'[p].meta["corrections"] = view[peer[p]].meta["corrections"]
      /\ answer'[p].meta["rules"] = answer[p].meta["rules"]
  BY <1>5, <1>6 DEF Found, Tables
<1>8. answer[p].meta["rules"] = view[peer[p]].meta["rules"]
  BY <1>a, <1>4 DEF MetadataOfServer
<1>9. view[peer[p]].meta = store[command[peer[p]].dir].meta
  BY <1>a, <1>4 DEF MetadataOfServer
<1>. QED
  BY <1>7, <1>8, <1>9

(* However the commands of servers and clients interleave, and at whatever *)
(* step Ctrl-C comes: fetch-metadata leaves its database with all of what  *)
(* the server answered or with nothing of it, and the two documents of an  *)
(* answer, read one after the other, are of one state of the server's      *)
(* database (fetch_metadata in cmd/fetch.rs and get_metadata in grpc).     *)
THEOREM FetchedMetadataIsWhole ==
    CmdSpec => MetadataAllOrNothing
<1>1. ASSUME CmdIInv, NEW p \in Process, NEW q \in Process, Act(q)
      PROVE  FetchesWhole(p)
  <2>1. CASE p = q
    BY <1>1, <2>1, FetchEnds, FetchIsAnswered DEF FetchesWhole
  <2>2. CASE p # q
    <3>1. step'[p] = step[p]
      BY <1>1, <2>2, OthersKept DEF CmdIInv, Kept
    <3>. QED
      BY <3>1 DEF Ends, FetchesWhole
  <2>. QED
    BY <2>1, <2>2
<1>2. ASSUME step' = step, NEW p \in Process
      PROVE  FetchesWhole(p)
  BY <1>2 DEF Ends, FetchesWhole
<1>3. CmdIInv /\ [CmdNext]_cmdVars => [\A p \in Process : FetchesWhole(p)]_cmdVars
  BY <1>1, <1>2, NextActs DEF EditToken, cmdVars
<1>4. CmdSpec => [][\A p \in Process : FetchesWhole(p)]_cmdVars
  BY <1>3, CmdInvariance, PTL DEF CmdSpec
<1>. QED
  BY <1>4 DEF MetadataAllOrNothing

LEMMA OnlyHas ==
    ASSUME NEW base \in Stores, NEW a \in Found, NEW asked,
           \A c \in ChainId : c \in asked =>
               /\ base.blocks[c] <= a.blocks[c]
               /\ \A k \in Kind : base.meta[k][c] # 0 => a.meta[k][c] # 0
    PROVE  Has(Only(base, asked), a)
<1> SUFFICES ASSUME NEW c \in ChainId
             PROVE  /\ Only(base, asked).blocks[c] <= a.blocks[c]
                    /\ \A k \in Kind : Only(base, asked).meta[k][c] # 0 => a.meta[k][c] # 0
  BY DEF Has
<1>1. Only(base, asked).blocks = [e \in ChainId |-> IF e \in asked THEN base.blocks[e] ELSE 0]
  BY DEF Only
<1>2. Only(base, asked).meta
        = [k \in Kind |-> [e \in ChainId |-> IF e \in asked THEN base.meta[k][e] ELSE 0]]
  BY DEF Only
<1>3. a.blocks[c] \in Nat
  BY DEF Found
<1>. QED
  BY <1>1, <1>2, <1>3

LEMMA ListEnds ==
    ASSUME CmdIInv, NEW p \in Process, Act(p), command[p].name = "list", Ends(p),
           code'[p] = 0, ~ctrl_c[p]
    PROVE  /\ Asked(p) \subseteq answer'[p].ids
           /\ Has(Only(begin[p], Asked(p)), answer'[p])
           /\ Has(answer'[p], store[IF command[p].remote THEN command[p].url ELSE command[p].dir])
<1>a. CmdTypes /\ Script /\ Quiet /\ Listings /\ Peers
  BY DEF CmdIInv
<1>0. step[p] # "new"
  <2>1. NoCommand.name = "none"
    BY DEF NoCommand, Local, CommandWith
  <2>. QED
    BY <1>a, <2>1 DEF Script
<1>1. step'[p] = "ended" /\ step[p] # "ended"
  BY DEF Ends
<1>2. ctrl_c' = ctrl_c
  BY <1>a, <1>0, <1>1, EndStep
<1>3. Show(p) \/ ShowListing(p)
  <2>1. \A doc \in Document : ~ImportFile(p, doc)
    BY <1>a DEF ImportFile, Script, Imports
  <2>2. ~StoreCorrections(p)
    BY <1>a DEF StoreCorrections, Script, AtServer
  <2>. QED
    BY <1>a, <1>0, <1>1, <1>2, <2>1, <2>2, AnswerStep
<1>4. begin[p] \in Stores /\ view[p] \in Stores
  BY <1>a DEF CmdTypes
<1>5. CASE Show(p)
  <2>1. step[p] = "print" /\ ~command[p].remote
    BY <1>a, <1>5 DEF Show, Script
  <2>2. Grown(begin[p], view[p]) /\ Grown(view[p], store[command[p].dir])
    BY <1>a, <2>1 DEF Listings
  <2> DEFINE a == [ids |-> ChainsToList(p), left |-> {}, meta |-> view[p].meta, blocks |-> view[p].blocks]
  <2>3. answer'[p] = a
    BY <1>a, <1>5 DEF Show, CmdTypes
  <2>4. ChainsToList(p) \in SUBSET ChainId
    <3>1. view[p].ids \cup loaded[p].chains \in SUBSET ChainId
      BY <1>a DEF CmdTypes, Stores, Config
    <3>2. ~command[p].all => Id(p) \in ChainId
      BY <1>a, <2>1 DEF Script
    <3>. QED
      BY <3>1, <3>2 DEF ChainsToList
  <2>5. a \in Found
    BY <1>4, <2>4 DEF Found, Stores
  <2>6. Asked(p) \subseteq a.ids
    BY <2>2 DEF Asked, ChainsToList, Grown
  <2>7. Has(Only(begin[p], Asked(p)), a)
    <3>1. \A c \in ChainId : /\ begin[p].blocks[c] <= a.blocks[c]
                             /\ \A k \in Kind : begin[p].meta[k][c] # 0 => a.meta[k][c] # 0
      BY <2>2 DEF Grown, Has
    <3> HIDE DEF a
    <3>. QED
      BY <1>4, <2>5, <3>1, OnlyHas
  <2>8. Has(a, store[command[p].dir])
    BY <2>2 DEF Grown, Has
  <2> HIDE DEF a
  <2>. QED
    BY <2>1, <2>3, <2>6, <2>7, <2>8
<1>6. CASE ShowListing(p)
  <2>1. step[p] = "listing" /\ command[p].remote /\ answer' = answer /\ answer[p].left = {}
    BY <1>a, <1>6 DEF ShowListing, Script, AtServer
  <2>2. Partly(p) /\ answer[p] \in Found
    BY <1>a, <2>1 DEF Listings, Partly, CmdTypes
  <2>3. Asked(p) \subseteq answer[p].ids
    BY <2>1, <2>2 DEF Partly
  <2>4. Has(Only(begin[p], Asked(p)), answer[p])
    <3>1. \A c \in ChainId : c \in Asked(p) =>
               /\ begin[p].blocks[c] <= answer[p].blocks[c]
               /\ \A k \in Kind : begin[p].meta[k][c] # 0 => answer[p].meta[k][c] # 0
      BY <2>2, <2>3 DEF Partly
    <3>. QED
      BY <1>4, <2>2, <3>1, OnlyHas
  <2>. QED
    BY <2>1, <2>2, <2>3, <2>4 DEF Partly
<1>. QED
  BY <1>3, <1>5, <1>6

(* Whatever other commands and servers do meanwhile: a list that ends with *)
(* exit code 0 has every chain there was when it began, with what was      *)
(* stored of it then, and nothing that is not stored (cmd/list.rs, and     *)
(* list of the gRPC server, which reads one chain after the other from a   *)
(* database that goes on growing).                                         *)
THEOREM ListsAreTrue ==
    CmdSpec => ListingIsTrue
<1>1. ASSUME CmdIInv, NEW p \in Process, NEW q \in Process, Act(q)
      PROVE  ListsTruly(p)
  <2>1. CASE p = q
    BY <1>1, <2>1, ListEnds DEF ListsTruly
  <2>2. CASE p # q
    <3>1. step'[p] = step[p]
      BY <1>1, <2>2, OthersKept DEF CmdIInv, Kept
    <3>. QED
      BY <3>1 DEF Ends, ListsTruly
  <2>. QED
    BY <2>1, <2>2
<1>2. ASSUME step' = step, NEW p \in Process
      PROVE  ListsTruly(p)
  BY <1>2 DEF Ends, ListsTruly
<1>3. CmdIInv /\ [CmdNext]_cmdVars => [\A p \in Process : ListsTruly(p)]_cmdVars
  BY <1>1, <1>2, NextActs DEF EditToken, cmdVars
<1>4. CmdSpec => [][\A p \in Process : ListsTruly(p)]_cmdVars
  BY <1>3, CmdInvariance, PTL DEF CmdSpec
<1>. QED
  BY <1>4 DEF ListingIsTrue

============================================================================

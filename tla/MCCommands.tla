----------------------------- MODULE MCCommands -----------------------------
(* Model checking of the application directory, as AppDir describes it     *)
(* while it is created and opened, and of the commands that run in one, as *)
(* Commands describes them: each behaviour is one of the one or the other. *)
EXTENDS AppDir, Commands, TLC

VARIABLE part   \* which of the two

Symmetry == Permutations(Proc)

Sonic == [name |-> "sonic", id |-> -1]
Id146 == [name |-> "", id |-> 146]
Zero == [name |-> "", id |-> 0]

(* The commands of a server and of its clients, and what is wrong with some. *)
MCOffered ==
    {Local("start", "server", NotAChain),
     CommandWith("list", "server", Sonic, TRUE, FALSE, "server")}
    \cup {Local(name, "server", Sonic) :
            name \in {"import-rules-update-heights", "view-corrections"}}
    \cup {cmd \in CommandsIn("client", Id146, "server") : cmd.remote}
    \cup {Local("list", "client", Zero), Local("view", "client", NotAChain)}

MCInit ==
    \/ /\ part = "directory" /\ Init /\ CmdInit
       /\ \A d \in Dir : store[d] = Empty /\ conf[d] = DefaultConfig
    \/ /\ part = "commands" /\ Init /\ CmdInit
       /\ store["client"] = Empty
       /\ conf["server"] = conf["client"]

MCNext ==
    \/ part = "directory" /\ Next /\ UNCHANGED <<part, cmdVars>>
    \/ part = "commands" /\ CmdNext /\ UNCHANGED <<part, vars>>

MCSpec == MCInit /\ [][MCNext]_<<vars, cmdVars, part>>

(* The secondary database of a process that has ended is not used any more. *)
Seen ==
    <<vars, shared, step, command, loaded, peer, answer, ctrl_c, code, part,
      [p \in Process |-> IF step[p] = "ended" THEN <<>> ELSE <<view[p], begin[p]>>]>>
=============================================================================

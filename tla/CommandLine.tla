---------------------------- MODULE CommandLine -----------------------------
(***************************************************************************)
(* The commands of the command line (cli.py) that work on directories: the *)
(* instance commands, and init and the commands that prepare a workspace,  *)
(* with the directory that their options select.  Several processes share  *)
(* one registry and its workspaces.                                        *)
(***************************************************************************)
EXTENDS InstanceRegistry, ConfigWorkspace, Integers

CONSTANTS
  Commands,              \* what may be called
  Books, Situations,     \* the registries and the directories to begin with
  MaxCommands, MaxKills  \* bounds on the history

\* What the argument parser lets through, registries as _read accepts them, and directories
\* that no command has touched.
ASSUME CommandAssumption ==
  /\ \A op \in Commands :
       \/ op.kind = "add" /\ op.name \in Names /\ op.path \in Dirs /\ op.force \in BOOLEAN
       \/ op.kind \in {"use", "remove"} /\ op.name \in Names
       \/ /\ op.kind \in {"init", "check", "upgrade"} /\ op.path \in Dirs
          /\ op.by \in {"instance", "word"} => op.name \in Names
  /\ \A book \in Books : Book(book)
  /\ \A s \in Situations :
       s = Fresh(s.config, s.resources, s.index) /\ s.config \in Configurations

VARIABLES
  cli,   \* the command of each process, and where it is
  counts \* how much of the bounds is used

vars == <<registryVars, workspaceVars, cli, counts>>

Idle == [pc |-> "idle", op |-> NoChange]

Answered(p) == cli' = [cli EXCEPT ![p] = Idle]

\* _instance and main: a registry command, or one that needs a directory.
Start(p, op) ==
  /\ cli[p] = Idle /\ counts.commands < MaxCommands
  /\ counts' = [counts EXCEPT !.commands = @ + 1]
  /\ \/ /\ op.kind \in {"add", "use", "remove"}
        /\ StartChange(p, op)
        /\ cli' = [cli EXCEPT ![p] = [pc |-> "changing", op |-> op]]
     \/ /\ op.kind \in {"init", "check", "upgrade"}
        /\ cli' = [cli EXCEPT ![p] = [pc |-> "resolving", op |-> op]]
        /\ UNCHANGED registryVars
  /\ UNCHANGED workspaceVars

\* The nickname is not known, or the registry cannot be read.
Unresolved(op) ==
  \/ op.by = "instance" /\ (~Readable \/ op.name \notin Valid \/ ~Known(registry, op.name))
  \/ op.by = "word" /\ (~Readable \/ op.name \notin Valid)
  \/ op.by = "nothing" /\ files[op.path].config \in {"absent", "folder"} /\ ~Readable

\* _resolve_workspace, where op.path is the path that was given or the current directory.
Resolved(op) ==
  CASE op.by \in {"instance", "word"} /\ Known(registry, op.name) -> Record(registry, op.name).path
    [] /\ op.by = "nothing" /\ files[op.path].config \in {"absent", "folder"}
       /\ registry.default # None -> Record(registry, registry.default).path
    [] OTHER -> op.path

Resolve(p) ==
  LET op == cli[p].op IN
  /\ cli[p].pc = "resolving"
  /\ IF Unresolved(op) THEN Answered(p) /\ UNCHANGED workspaceVars
     ELSE /\ Begins(p, Resolved(op), IF op.kind = "check" THEN "prepare" ELSE op.kind)
          /\ cli' = [cli EXCEPT ![p].pc = "working"]
  /\ UNCHANGED <<registryVars, counts>>

\* The operation on the workspace has ended; _load prepares it once more.
WorkDone(p) ==
  /\ cli[p].pc \in {"working", "loading"} /\ work[p].pc = "none"
  /\ IF /\ cli[p].pc = "working" /\ cli[p].op.kind = "check"
        /\ work[p].result \in {"prepared", "initialized"}
     THEN /\ Begins(p, work[p].dir, "prepare")
          /\ cli' = [cli EXCEPT ![p].pc = "loading"]
     ELSE Answered(p) /\ UNCHANGED workspaceVars
  /\ UNCHANGED <<registryVars, counts>>

ChangeDone(p) ==
  /\ cli[p].pc = "changing" /\ call[p] = NoRegistryCall
  /\ Answered(p)
  /\ UNCHANGED <<registryVars, workspaceVars, counts>>

\* The process is killed.
Kill(p) ==
  /\ cli[p] # Idle /\ counts.kills < MaxKills
  /\ counts' = [counts EXCEPT !.kills = @ + 1]
  /\ KillChange(p) /\ KillWork(p) /\ Answered(p)
  /\ UNCHANGED <<registry, broken, files>>

-----------------------------------------------------------------------------
Init ==
  /\ InitRegistry(Books)
  /\ InitWorkspace(Situations)
  /\ cli = [p \in Processes |-> Idle]
  /\ counts = [commands |-> 0, kills |-> 0]

Next ==
  \/ \E p \in Processes :
       \/ \E op \in Commands : Start(p, op)
       \/ Resolve(p) \/ WorkDone(p) \/ ChangeDone(p) \/ Kill(p)
       \/ ChangeStep(p) /\ UNCHANGED <<workspaceVars, cli, counts>>
       \/ WorkStep(p) /\ UNCHANGED <<registryVars, cli, counts>>
  \/ \E d \in Dirs : \/ Break(d) /\ UNCHANGED <<workspaceVars, cli, counts>>
                     \/ Merge(d) /\ UNCHANGED <<registryVars, cli, counts>>

Spec == Init /\ [][Next]_vars

-----------------------------------------------------------------------------
(* What the commands of several processes promise about what they share. *)

\* The registry as its users see it.
Place == [n \in {registry.records[k].name : k \in DOMAIN registry.records} |->
            registry.records[Key[n]].path]

Atomic == INSTANCE AtomicRegistry WITH place <- Place, favorite <- registry.default

\* Every change of the registry takes effect at one moment and as a whole, or not at all,
\* however many processes change it and whichever is killed where; no update is lost, and the
\* default is an instance at any time, so that the next command can read the file.
RegistryIsAtomic == Atomic!Spec

\* Of the processes that initialise a directory at the same time one succeeds, and then the
\* configuration and the index are there.
InitialisedOnce ==
  \A p, q \in Processes :
    work[p].result = "initialized" =>
      /\ Here(p).config = "current" /\ Here(p).resources = "folder" /\ Here(p).index = "file"
      /\ work[q].result = "initialized" /\ work[q].dir = work[p].dir => p = q

\* No command changes a configuration that it has not created itself, and an index or a
\* template never goes.
FilesKept ==
  [][\A d \in Dirs :
       /\ files'[d].config # files[d].config =>
            \/ files[d].config = "absent"
            \/ \E p \in Processes : WriteConfig(p) /\ work[p].dir = d
            \/ Merge(d)
       /\ files[d].index # "absent" => files'[d].index = files[d].index
       /\ files[d].template => files'[d].template]_vars

\* A template stands beside a backup of the configuration it is to be compared with, whichever
\* process was killed while it prepared the upgrade.
BackupFirst ==
  \A d \in Dirs : files[d].template /\ files[d].config \in Outdated
                    => files[d].config \in files[d].backups
=============================================================================

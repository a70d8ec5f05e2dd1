--------------------------- MODULE PluginManager ----------------------------
(***************************************************************************)
(* The local plugin manager (plugin_manager.py): one plugin command at a   *)
(* time, over the distributions of the interpreter, the provenance file    *)
(* .liteyuki/plugins.json and the [cordis] table of liteyuki.toml.  An     *)
(* action is what a command does up to the next change of a file or of the *)
(* interpreter; a command may be killed between two of them.               *)
(*                                                                         *)
(* Every bundle has a distribution of its own.  The index is outside: it   *)
(* publishes newer versions, and a command works with what it fetched.     *)
(***************************************************************************)
EXTENDS Integers, FiniteSets

CONSTANTS
  Bundles,     \* the bundles of the index
  MaxVersion,  \* versions are 1..MaxVersion; 0 is no version
  Entries,     \* Cordis entry points
  Points,      \* the entry points of each version of each bundle
  Needs,       \* the dependencies of each version of each bundle
  Values,      \* configurations of one entry point
  Unset,       \* an entry point has no configuration
  MaxCommands, MaxKills  \* bounds on the history

Versions == 1..MaxVersion

\* What PluginIndex.from_document demands of an index.
ValidIndex ==
  /\ Points \in [Bundles -> [Versions -> SUBSET Entries]]
  /\ Needs \in [Bundles -> [Versions -> SUBSET Bundles]]
  /\ \A b, c \in Bundles : \A v, w \in Versions :
       Points[b][v] \cap Points[c][w] # {} => b = c

ASSUME PluginAssumption ==
  /\ MaxVersion \in Nat \ {0} /\ {MaxCommands, MaxKills} \subseteq Nat
  /\ ValidIndex /\ Unset \notin Values

VARIABLES
  index,       \* the version that the index offers of each bundle
  dist,        \* the version of each bundle's distribution in the interpreter
  records,     \* plugins.json: a record for each installed bundle
  enabled,     \* [cordis].enabled
  config,      \* [cordis.config]
  command,     \* the command at work
  told,        \* history: what each entry point was last configured to be
  counts       \* how much of the history's bounds is used

vars == <<index, dist, records, enabled, config, command, told, counts>>

-----------------------------------------------------------------------------
(* Helpers. *)

NoConfig == [e \in Entries |-> Unset]
NoRecords == [b \in {} |-> Unset]
NoCordis == [enabled |-> {}, config |-> NoConfig]

Idle == [pc |-> "idle", op |-> "none", on |-> {}, save |-> NoRecords, old |-> NoCordis]

Count(what, max) == counts[what] < max /\ counts' = [counts EXCEPT ![what] = @ + 1]

EntryPoints(b) == Points[b][records[b].version]

\* Everything that b needs by way of the direct needs, and b.
Closure(b, direct) ==
  {c \in Bundles : \A S \in SUBSET Bundles :
                     b \in S /\ (\A d \in S : direct[d] \subseteq S) => c \in S}

\* PluginIndex.resolve: the bundles to install for b, if their dependencies have no cycle.
Resolved(b) == Closure(b, [d \in Bundles |-> Needs[d][index[d]]])

Resolvable(b) ==
  \A c \in Resolved(b) : \A d \in Needs[c][index[c]] : c \notin Resolved(d)

\* _depends_on: does c need b by way of installed bundles?
DependsOn(c, b) ==
  c # b /\ b \in Closure(c, [d \in Bundles |-> IF d \in DOMAIN records
                                               THEN Needs[d][records[d].version] ELSE {}])

\* The check of load_settings: only enabled entry points are configured.
SettingsValid(points, values) == {e \in Entries : values[e] # Unset} \subseteq points

\* Start of a command with its next step.
Begins(op, pc, bundles, save) ==
  /\ command = Idle /\ Count("commands", MaxCommands)
  /\ command' = [Idle EXCEPT !.op = op, !.pc = pc, !.on = bundles, !.save = save]

\* The first half of _write_cordis: the file is replaced.
Writes(points, values) == enabled' = points /\ config' = values

Cordis == [enabled |-> enabled, config |-> config]

-----------------------------------------------------------------------------
(* Activation. *)

\* What _activate makes of [cordis.config]: the configuration kept in the records of enabled
\* bundles, where the file has none.
RestoredConfig(recs) ==
  [e \in Entries |->
     LET keepers == {b \in DOMAIN recs : recs[b].enabled /\ recs[b].config[e] # Unset}
     IN  IF config[e] = Unset /\ keepers # {} THEN recs[CHOOSE b \in keepers : TRUE].config[e]
         ELSE config[e]]

Install(b, enable) ==
  LET chosen == Resolved(b)
      kept(c) == IF c \in DOMAIN records THEN records[c]
                 ELSE [version |-> 0, enabled |-> FALSE, config |-> NoConfig]
  IN  /\ Resolvable(b)
      /\ Begins(IF enable THEN "install" ELSE "add", "stage", chosen,
                [c \in DOMAIN records \cup chosen |->
                   IF c \in chosen
                   THEN [version |-> index[c], enabled |-> enable \/ kept(c).enabled,
                         config |-> kept(c).config]
                   ELSE records[c]])
      /\ UNCHANGED <<index, dist, records, enabled, config, told>>

\* The bundles whose distribution is not ready.
Staged == {c \in command.on : dist[c] # command.save[c].version}

\* Their wheels are downloaded, verified and installed.
Stage ==
  /\ command.pc = "stage"
  /\ dist' = [c \in Bundles |-> IF c \in Staged THEN command.save[c].version ELSE dist[c]]
  /\ command' = [command EXCEPT !.pc = IF command.op = "install" THEN "activate" ELSE "save"]
  /\ UNCHANGED <<index, records, enabled, config, told, counts>>

\* A download, uv or the verification fails: some of the wheels may have been installed.
StageFails ==
  /\ command.pc = "stage"
  /\ \E some \in SUBSET Staged :
       dist' = [c \in Bundles |-> IF c \in some THEN command.save[c].version ELSE dist[c]]
  /\ command' = Idle
  /\ UNCHANGED <<index, records, enabled, config, told, counts>>

\* install activates the entry points of all its bundles.
Activate ==
  /\ command.pc = "activate"
  /\ UNCHANGED <<index, dist, records, told, counts>>
  /\ IF SettingsValid(enabled, config)
     THEN /\ Writes(enabled \cup UNION {Points[c][command.save[c].version] : c \in command.on},
                    RestoredConfig(command.save))
          /\ command' = [command EXCEPT !.pc = "check", !.old = Cordis]
     ELSE command' = Idle /\ UNCHANGED <<enabled, config>>

\* Mutant: a bundle that its record calls enabled is not activated again.
UnlessRecorded(b) == IF records[b].enabled THEN {} ELSE EntryPoints(b)

\* The entry points that enable activates.
Activated(b) == EntryPoints(b)

\* Is the distribution of b the one that its record names?
Verified(b) == dist[b] = records[b].version

Enable(b) ==
  LET save == [records EXCEPT ![b].enabled = TRUE] IN
  /\ b \in DOMAIN records /\ Verified(b)
  /\ SettingsValid(enabled, config)
  /\ command = Idle /\ Count("commands", MaxCommands)
  /\ Writes(enabled \cup Activated(b), RestoredConfig(save))
  /\ command' = [pc |-> "check", op |-> "enable", on |-> {b}, save |-> save, old |-> Cordis]
  /\ UNCHANGED <<index, dist, records, told>>

\* The second half of _write_cordis: what was written is loaded, and taken back if invalid.
Check ==
  /\ command.pc = "check"
  /\ UNCHANGED <<index, dist, records, told, counts>>
  /\ IF SettingsValid(enabled, config)
     THEN /\ command' = IF command.op \in {"set", "clear"} THEN Idle
                        ELSE [command EXCEPT !.pc = "save", !.old = NoCordis]
          /\ UNCHANGED <<enabled, config>>
     ELSE command' = Idle /\ Writes(command.old.enabled, command.old.config)

\* plugins.json is replaced.
Save ==
  /\ command.pc = "save"
  /\ records' = command.save
  /\ command' = IF command.op = "remove" THEN [command EXCEPT !.pc = "uninstall", !.save = NoRecords]
                ELSE Idle
  /\ UNCHANGED <<index, dist, enabled, config, told, counts>>

-----------------------------------------------------------------------------
(* Deactivation and removal. *)

\* Mutant: disable does not look at what is in the file.
KeptAsRecorded(b) == records[b].config

\* The configuration that disable keeps in the record.
SavedConfig(b) ==
  [e \in Entries |-> IF e \in EntryPoints(b) /\ config[e] # Unset THEN config[e]
                     ELSE records[b].config[e]]

\* disable writes the file; its record is saved after the check.
Deactivates(op, b) ==
  /\ SettingsValid(enabled, config)
  /\ command = Idle /\ Count("commands", MaxCommands)
  /\ Writes(enabled \ EntryPoints(b),
            [e \in Entries |-> IF e \in EntryPoints(b) THEN Unset ELSE config[e]])
  /\ command' = [pc |-> "check", op |-> op, on |-> {b}, old |-> Cordis,
                 save |-> [records EXCEPT ![b].enabled = FALSE, ![b].config = SavedConfig(b)]]
  /\ UNCHANGED <<index, dist, records, told>>

Disable(b) ==
  /\ b \in DOMAIN records
  /\ \A c \in DOMAIN records : records[c].enabled => ~DependsOn(c, b)
  /\ Deactivates("disable", b)

\* Mutant: remove asks, as disable does, for enabled bundles only.
EnabledUsers(b) == {c \in DOMAIN records : records[c].enabled /\ DependsOn(c, b)}

\* The bundles that keep b from being removed.
UsersOf(b) == {c \in DOMAIN records : DependsOn(c, b)}

Remove(b) ==
  /\ b \in DOMAIN records /\ UsersOf(b) = {}
  /\ IF records[b].enabled
     THEN Deactivates("remove", b)
     ELSE /\ Begins("remove", "uninstall", {b}, NoRecords)
          /\ UNCHANGED <<index, dist, records, enabled, config, told>>

Uninstall ==
  /\ command.pc = "uninstall"
  /\ \/ /\ dist' = [c \in Bundles |-> IF c \in command.on THEN 0 ELSE dist[c]]
        /\ command' = [command EXCEPT !.pc = "forget"]
     \/ UNCHANGED dist /\ command' = Idle
  /\ UNCHANGED <<index, records, enabled, config, told, counts>>

Forget ==
  /\ command.pc = "forget"
  /\ records' = [c \in DOMAIN records \ command.on |-> records[c]]
  /\ told' = [e \in Entries |->
                IF \E b \in command.on, v \in Versions : e \in Points[b][v] THEN Unset ELSE told[e]]
  /\ command' = Idle
  /\ UNCHANGED <<index, dist, enabled, config, counts>>

-----------------------------------------------------------------------------
(* Configuration. *)

\* set_config and clear_config of the entry points es of b: in the file if b is enabled, and
\* in its record if not.
Configure(op, b, es, value) ==
  LET changed(values) == [e \in Entries |-> IF e \in es THEN value ELSE values[e]] IN
  /\ command = Idle /\ Count("commands", MaxCommands)
  /\ UNCHANGED <<index, dist>>
  /\ IF records[b].enabled
     THEN /\ SettingsValid(enabled, config)
          /\ Writes(enabled, changed(config))
          /\ told' = IF SettingsValid(enabled, config') THEN changed(told) ELSE told
          /\ command' = [Idle EXCEPT !.pc = "check", !.op = op, !.on = {b}, !.old = Cordis]
          /\ UNCHANGED records
     ELSE /\ records' = [records EXCEPT ![b].config = changed(@)]
          /\ told' = changed(told)
          /\ UNCHANGED <<enabled, config, command>>

SetConfig(b, e, value) ==
  b \in DOMAIN records /\ e \in EntryPoints(b) /\ Configure("set", b, {e}, value)

ClearConfig(b) == b \in DOMAIN records /\ Configure("clear", b, EntryPoints(b), Unset)

-----------------------------------------------------------------------------
(* The surroundings. *)

Publish(b) ==
  /\ command = Idle /\ index[b] < MaxVersion
  /\ index' = [index EXCEPT ![b] = @ + 1]
  /\ UNCHANGED <<dist, records, enabled, config, command, told, counts>>

\* The process of the command is killed; the files stay as they are.
Killed ==
  /\ command # Idle /\ Count("kills", MaxKills)
  /\ command' = Idle
  /\ UNCHANGED <<index, dist, records, enabled, config, told>>

Init ==
  /\ index = [b \in Bundles |-> 1] /\ dist = [b \in Bundles |-> 0]
  /\ records = NoRecords /\ enabled = {} /\ config = NoConfig
  /\ command = Idle /\ told = NoConfig
  /\ counts = [w \in {"commands", "kills"} |-> 0]

Next ==
  \/ \E b \in Bundles :
       \/ \E enable \in BOOLEAN : Install(b, enable)
       \/ Enable(b) \/ Disable(b) \/ Remove(b) \/ ClearConfig(b) \/ Publish(b)
       \/ \E e \in Entries, value \in Values : SetConfig(b, e, value)
  \/ Stage \/ StageFails \/ Activate \/ Check \/ Save \/ Uninstall \/ Forget \/ Killed

Spec == Init /\ [][Next]_vars
=============================================================================

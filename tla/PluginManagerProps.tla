------------------------- MODULE PluginManagerProps -------------------------
(***************************************************************************)
(* What the plugin manager promises, over PluginManager.                   *)
(***************************************************************************)
EXTENDS PluginManager

Records(bundles) ==
  [bundles -> [version : Versions, enabled : BOOLEAN, config : [Entries -> Values \cup {Unset}]]]

\* The possible contents of plugins.json and of the [cordis] table.
Books == UNION {Records(bundles) : bundles \in SUBSET Bundles}
Tables == [enabled : SUBSET Entries, config : [Entries -> Values \cup {Unset}]]

Commands ==
  [pc : {"idle", "stage", "activate", "check", "save", "uninstall", "forget"},
   op : {"none", "install", "add", "enable", "disable", "remove", "set", "clear"},
   on : SUBSET Bundles, save : Books, old : Tables]

\* Every variable stays within the values the code gives it.
TypeOK ==
  /\ index \in [Bundles -> Versions] /\ dist \in [Bundles -> {0} \cup Versions]
  /\ records \in Books /\ command \in Commands
  /\ enabled \subseteq Entries /\ {config, told} \subseteq [Entries -> Values \cup {Unset}]
  /\ counts \in [{"commands", "kills"} -> Nat]

\* Whatever was killed on the way: the dependencies of an installed bundle are installed, and
\* the distribution of a bundle whose record is enabled is there.
RecordsSupported ==
  \A b \in DOMAIN records :
    /\ Needs[b][records[b].version] \subseteq DOMAIN records
    /\ records[b].enabled => dist[b] # 0

\* A command that ends well leaves the record and the file agreeing on its bundles, even if
\* commands before it were killed half way.
SuccessMeansAgreement ==
  [][ command.pc = "save" /\ command'.pc = "idle" /\ records' = command.save =>
      \A b \in command.on :
        /\ command.op \in {"install", "enable"} =>
             records'[b].enabled /\ Points[b][records'[b].version] \subseteq enabled
        /\ command.op = "disable" =>
             ~records'[b].enabled /\ Points[b][records'[b].version] \cap enabled = {} ]_vars

\* Every dependency of a record in the book is in the book.
Complete(book) == \A b \in DOMAIN book : Needs[b][book[b].version] \subseteq DOMAIN book

\* The distributions of the enabled records of these bundles are there.
Installed(book, bundles) == \A b \in bundles \cap DOMAIN book : book[b].enabled => dist[b] # 0

\* No other record of the book needs the bundles, and they are disabled.
Unneeded(book, bundles) ==
  /\ \A c \in DOMAIN book \ bundles : Needs[c][book[c].version] \cap bundles = {}
  /\ \A b \in bundles \cap DOMAIN book : ~book[b].enabled

\* The entry points that a command activated or deactivated, against the records it will save.
Agreed ==
  \A b \in command.on :
    /\ command.op \in {"install", "enable"} =>
         command.save[b].enabled /\ Points[b][command.save[b].version] \subseteq enabled
    /\ command.op = "disable" =>
         ~command.save[b].enabled /\ Points[b][command.save[b].version] \cap enabled = {}

\* What each step of a command relies on: with TypeOK and RecordsSupported an inductive
\* invariant.
CommandSound ==
  /\ command.pc \in {"stage", "activate", "check", "save"} => Complete(command.save)
  /\ command.pc \in {"stage", "activate"} =>
       /\ command.op \in {"install", "add"} /\ command.on \subseteq DOMAIN command.save
       /\ command.op = "install" => \A b \in command.on : command.save[b].enabled
  /\ command.pc = "stage" => Installed(command.save, DOMAIN command.save \ command.on)
  /\ command.pc = "activate" => command.op = "install"
  /\ command.pc \in {"activate", "check", "save"} =>
       Installed(command.save, DOMAIN command.save)
  /\ command.pc \in {"check", "save"} /\ command.op \notin {"set", "clear"} =>
       command.on \subseteq DOMAIN command.save /\ Agreed
  /\ command.pc \in {"check", "save"} /\ command.op = "remove" =>
       Unneeded(command.save, command.on)
  /\ command.pc \in {"uninstall", "forget"} => Unneeded(records, command.on)

\* What config shows of an entry point of an installed bundle.
Shown(b, e) == IF records[b].enabled THEN config[e] ELSE records[b].config[e]

Undisturbed == command = Idle /\ counts["kills"] = 0

\* A configuration that was set is there until it is set again, cleared or removed, through
\* any number of installs, enables and disables.
ConfigKept ==
  Undisturbed =>
    \A b \in DOMAIN records : \A e \in EntryPoints(b) :
      told[e] # Unset => Shown(b, e) = told[e]
=============================================================================

------------------------ MODULE PluginManagerProofs -------------------------
(***************************************************************************)
(* Proofs about PluginManager for every index, every number of commands    *)
(* and every point at which commands are killed.                           *)
(***************************************************************************)
EXTENDS PluginManagerProps, TLAPS

PluginInv == TypeOK /\ RecordsSupported /\ CommandSound

Configs == [Entries -> Values \cup {Unset}]

-----------------------------------------------------------------------------
(* Data. *)

\* What is known of the records of a book.
LEMMA BookProperties ==
  ASSUME NEW book \in Books
  PROVE  /\ DOMAIN book \subseteq Bundles
         /\ \A b \in DOMAIN book :
              /\ book[b].version \in Versions /\ book[b].enabled \in BOOLEAN
              /\ book[b].config \in Configs
  BY DEF Books, Records, Configs

\* A function that gives every bundle of a set a record is a book.
LEMMA BookIntro ==
  ASSUME NEW S \in SUBSET Bundles, NEW book, book = [b \in S |-> book[b]],
         \A b \in S : book[b] \in [version : Versions, enabled : BOOLEAN, config : Configs]
  PROVE  book \in Books
<1>1. book \in Records(S)
  BY DEF Records, Configs
<1> QED BY <1>1 DEF Books

LEMMA NoRecordsIsBook == NoRecords \in Books /\ DOMAIN NoRecords = {} /\ Complete(NoRecords)
<1>1. NoRecords \in Records({})
  BY DEF NoRecords, Records
<1>2. DOMAIN NoRecords = {}
  BY DEF NoRecords
<1> QED BY <1>1, <1>2 DEF Books, Complete

LEMMA IdleIsCommand == Idle \in Commands /\ Idle.pc = "idle"
<1>1. NoCordis \in Tables
  BY DEF NoCordis, NoConfig, Tables
<1> QED BY <1>1, NoRecordsIsBook DEF Idle, Commands

\* The fixed point of resolve and _depends_on contains its start and what its members need.
LEMMA ClosureProperties ==
  ASSUME NEW b \in Bundles, NEW direct \in [Bundles -> SUBSET Bundles]
  PROVE  /\ b \in Closure(b, direct) /\ Closure(b, direct) \subseteq Bundles
         /\ \A c \in Closure(b, direct) : direct[c] \subseteq Closure(b, direct)
<1>1. ASSUME NEW c \in Closure(b, direct), NEW d \in direct[c]
      PROVE  d \in Closure(b, direct)
  <2>1. ASSUME NEW S \in SUBSET Bundles, b \in S, \A e \in S : direct[e] \subseteq S
        PROVE  d \in S
    BY <1>1, <2>1 DEF Closure
  <2> QED BY <1>1, <2>1 DEF Closure
<1> QED BY <1>1 DEF Closure

\* resolve returns the bundle and, with every bundle, its dependencies.
LEMMA ResolvedProperties ==
  ASSUME TypeOK, NEW b \in Bundles
  PROVE  /\ Resolved(b) \subseteq Bundles
         /\ \A c \in Resolved(b) : Needs[c][index[c]] \subseteq Resolved(b)
<1> DEFINE direct == [d \in Bundles |-> Needs[d][index[d]]]
<1>1. direct \in [Bundles -> SUBSET Bundles]
  BY PluginAssumption DEF ValidIndex, TypeOK
<1>2. Resolved(b) = Closure(b, direct)
  BY DEF Resolved
<1>3. \A c \in Bundles : direct[c] = Needs[c][index[c]]
  OBVIOUS
<1> HIDE DEF direct
<1> QED BY <1>1, <1>2, <1>3, ClosureProperties

\* A bundle that no other depends on is not a direct need of another either.
LEMMA UsersProperties ==
  ASSUME TypeOK, NEW b \in DOMAIN records, UsersOf(b) = {}
  PROVE  \A c \in DOMAIN records \ {b} : b \notin Needs[c][records[c].version]
<1> DEFINE direct == [d \in Bundles |-> IF d \in DOMAIN records
                                        THEN Needs[d][records[d].version] ELSE {}]
<1>1. direct \in [Bundles -> SUBSET Bundles]
  BY PluginAssumption, BookProperties DEF ValidIndex, TypeOK
<1>2. ASSUME NEW c \in DOMAIN records \ {b}, b \in Needs[c][records[c].version]
      PROVE  FALSE
  <2>1. c \in Bundles /\ direct[c] = Needs[c][records[c].version]
    BY BookProperties DEF TypeOK
  <2>2. DependsOn(c, b) <=> c # b /\ b \in Closure(c, direct)
    BY DEF DependsOn
  <2> HIDE DEF direct
  <2>3. b \in Closure(c, direct)
    BY <1>1, <1>2, <2>1, ClosureProperties
  <2> QED BY <2>2, <2>3 DEF UsersOf
<1> QED BY <1>2

LEMMA RestoredIsConfig ==
  ASSUME TypeOK, NEW book \in Books
  PROVE  RestoredConfig(book) \in Configs
<1>1. config \in Configs
  BY DEF TypeOK, Configs
<1>2. ASSUME NEW e \in Entries
      PROVE  LET keepers == {b \in DOMAIN book : book[b].enabled /\ book[b].config[e] # Unset}
             IN  keepers # {} => book[CHOOSE b \in keepers : TRUE].config[e]
                                   \in Values \cup {Unset}
  BY BookProperties DEF Configs
<1> QED BY <1>1, <1>2 DEF RestoredConfig, Configs

LEMMA RecordsStaySupported ==
  ASSUME RecordsSupported, UNCHANGED <<dist, records>>
  PROVE  RecordsSupported'
  BY DEF RecordsSupported

\* A command that has begun.
LEMMA BeginsEffect ==
  ASSUME TypeOK, NEW op, NEW pc, NEW bundles, NEW save, Begins(op, pc, bundles, save)
  PROVE  /\ command' = [pc |-> pc, op |-> op, on |-> bundles, save |-> save, old |-> NoCordis]
         /\ counts' \in [{"commands", "kills"} -> Nat]
<1>1. command' = [Idle EXCEPT !.op = op, !.pc = pc, !.on = bundles, !.save = save]
  BY DEF Begins
<1>2. counts' = [counts EXCEPT !["commands"] = @ + 1]
  BY DEF Begins, Count
<1>3. command' = [pc |-> pc, op |-> op, on |-> bundles, save |-> save, old |-> NoCordis]
  BY <1>1 DEF Idle
<1>4. counts' \in [{"commands", "kills"} -> Nat]
  BY <1>2 DEF TypeOK
<1> QED BY <1>3, <1>4

\* A command that ends or is killed leaves nothing to be relied on.
LEMMA IdleIsSound ==
  ASSUME command' = Idle
  PROVE  command' \in Commands /\ CommandSound'
  BY IdleIsCommand DEF CommandSound

-----------------------------------------------------------------------------
(* Installation. *)

LEMMA InstallIsGood ==
  ASSUME PluginInv, NEW b \in Bundles, NEW enable \in BOOLEAN, Install(b, enable)
  PROVE  PluginInv'
<1> DEFINE kept(c) == IF c \in DOMAIN records THEN records[c]
                      ELSE [version |-> 0, enabled |-> FALSE, config |-> NoConfig]
           Saved(cs) == [c \in DOMAIN records \cup cs |->
                           IF c \in cs
                           THEN [version |-> index[c], enabled |-> enable \/ kept(c).enabled,
                                 config |-> kept(c).config]
                           ELSE records[c]]
<1>1. PICK chosen, save, op :
        /\ chosen = Resolved(b) /\ save = Saved(chosen)
        /\ op = IF enable THEN "install" ELSE "add"
        /\ Begins(op, "stage", chosen, save)
        /\ UNCHANGED <<index, dist, records, enabled, config, told>>
  BY DEF Install
<1>2. chosen \in SUBSET Bundles /\ \A c \in chosen : Needs[c][index[c]] \subseteq chosen
  BY <1>1, ResolvedProperties DEF PluginInv
<1>3. DOMAIN records \subseteq Bundles /\ records \in Books /\ index \in [Bundles -> Versions]
  BY BookProperties DEF PluginInv, TypeOK
<1>4. NoConfig \in Configs
  BY DEF NoConfig, Configs
<1>5. /\ DOMAIN save = DOMAIN records \cup chosen
      /\ save = [c \in DOMAIN save |-> save[c]]
      /\ \A c \in chosen : save[c] = [version |-> index[c], enabled |-> enable \/ kept(c).enabled,
                                       config |-> kept(c).config]
      /\ \A c \in DOMAIN records \ chosen : save[c] = records[c]
  <2> HIDE DEF kept
  <2> QED BY <1>1
<1> HIDE DEF Saved
<1>6. save \in Books
  <2>1. ASSUME NEW c \in chosen
        PROVE  save[c] \in [version : Versions, enabled : BOOLEAN, config : Configs]
    <3>1. kept(c).enabled \in BOOLEAN /\ kept(c).config \in Configs
      BY <1>3, <1>4, BookProperties
    <3> HIDE DEF kept
    <3> QED BY <1>2, <1>3, <1>5, <3>1
  <2>2. ASSUME NEW c \in DOMAIN records, c \notin chosen
        PROVE  save[c] \in [version : Versions, enabled : BOOLEAN, config : Configs]
    <3>1. PICK S \in SUBSET Bundles : records \in Records(S)
      BY <1>3 DEF Books
    <3> HIDE DEF kept
    <3> QED BY <1>5, <2>2, <3>1 DEF Records, Configs
  <2> HIDE DEF kept
  <2> QED BY <1>2, <1>3, <1>5, <2>1, <2>2, BookIntro
<1>7. \A c \in chosen : save[c].version = index[c] /\ (enable => save[c].enabled)
  <2> HIDE DEF kept
  <2> QED BY <1>5
<1> HIDE DEF kept
<1>8. /\ command' = [pc |-> "stage", op |-> op, on |-> chosen, save |-> save, old |-> NoCordis]
      /\ counts' \in [{"commands", "kills"} -> Nat]
  BY <1>1, BeginsEffect DEF PluginInv
<1>9. TypeOK'
  <2>1. command' \in Commands
    BY <1>1, <1>2, <1>6, <1>8, IdleIsCommand DEF Commands, Idle
  <2> QED BY <1>1, <1>8, <2>1 DEF PluginInv, TypeOK
<1>10. CommandSound'
  <2>1. Complete(save)
    BY <1>2, <1>5, <1>7 DEF PluginInv, RecordsSupported, Complete
  <2>2. Installed(save, DOMAIN save \ chosen)'
    BY <1>1, <1>5 DEF PluginInv, RecordsSupported, Installed
  <2>3. op \in {"install", "add"} /\ (op = "install" => enable)
    BY <1>1
  <2> QED BY <1>5, <1>7, <1>8, <2>1, <2>2, <2>3 DEF CommandSound
<1> QED BY <1>1, <1>9, <1>10, RecordsStaySupported DEF PluginInv

\* The wheels that were installed, all or some of them.
LEMMA StagedDistributions ==
  ASSUME PluginInv, command.pc = "stage", NEW some \in SUBSET Staged,
         dist' = [c \in Bundles |-> IF c \in some THEN command.save[c].version ELSE dist[c]]
  PROVE  /\ dist' \in [Bundles -> {0} \cup Versions]
         /\ \A c \in Bundles : dist[c] # 0 => dist'[c] # 0
         /\ \A c \in some : dist'[c] # 0
<1>1. /\ some \subseteq DOMAIN command.save /\ command.save \in Books
      /\ dist \in [Bundles -> {0} \cup Versions]
  BY DEF PluginInv, TypeOK, CommandSound, Staged, Commands
<1>2. \A c \in some : c \in Bundles /\ command.save[c].version \in Versions
  BY <1>1, BookProperties
<1>3. 0 \notin Versions
  BY DEF Versions
<1> QED BY <1>1, <1>2, <1>3

LEMMA StageIsGood ==
  ASSUME PluginInv, Stage
  PROVE  PluginInv'
<1>1. /\ command.pc = "stage"
      /\ dist' = [c \in Bundles |-> IF c \in Staged THEN command.save[c].version ELSE dist[c]]
      /\ command' = [command EXCEPT !.pc = IF command.op = "install" THEN "activate" ELSE "save"]
      /\ UNCHANGED <<index, records, enabled, config, told, counts>>
  BY DEF Stage
<1>2. /\ dist' \in [Bundles -> {0} \cup Versions]
      /\ \A c \in Bundles : dist[c] # 0 => dist'[c] # 0
      /\ \A c \in Staged : dist'[c] # 0
  BY <1>1, StagedDistributions, Staged \in SUBSET Staged
<1>3. /\ command \in Commands /\ records \in Books /\ command.save \in Books
      /\ DOMAIN records \subseteq Bundles /\ DOMAIN command.save \subseteq Bundles
  BY BookProperties DEF PluginInv, TypeOK, Commands
<1>4. /\ command'.pc = IF command.op = "install" THEN "activate" ELSE "save"
      /\ command'.op = command.op /\ command'.on = command.on /\ command'.save = command.save
      /\ command' \in Commands
  BY <1>1, <1>3 DEF Commands
<1>5. /\ Complete(command.save) /\ command.on \subseteq DOMAIN command.save
      /\ command.op \in {"install", "add"}
      /\ command.op = "install" => \A b \in command.on : command.save[b].enabled
      /\ Installed(command.save, DOMAIN command.save \ command.on)
  BY <1>1 DEF PluginInv, CommandSound
<1>6. Installed(command.save, DOMAIN command.save)'
  <2>1. ASSUME NEW c \in DOMAIN command.save, command.save[c].enabled
        PROVE  dist'[c] # 0
    <3>1. CASE c \in command.on
      <4>1. command.save[c].version \in Versions /\ 0 \notin Versions
        BY <1>3, BookProperties DEF Versions
      <4> QED BY <1>2, <1>3, <3>1, <4>1 DEF Staged
    <3>2. CASE c \notin command.on
      BY <1>2, <1>3, <1>5, <2>1, <3>2 DEF Installed
    <3> QED BY <3>1, <3>2
  <2> QED BY <1>4, <2>1 DEF Installed
<1>7. RecordsSupported'
  BY <1>1, <1>2, <1>3 DEF PluginInv, RecordsSupported
<1>8. TypeOK'
  BY <1>1, <1>2, <1>4 DEF PluginInv, TypeOK
<1>9. CommandSound'
  <2>1. Complete(command.save)'
    BY <1>4, <1>5 DEF Complete
  <2>2. Agreed' \/ command.op = "install"
    BY <1>4, <1>5 DEF Agreed
  <2> QED BY <1>4, <1>5, <1>6, <2>1, <2>2 DEF CommandSound
<1> QED BY <1>7, <1>8, <1>9 DEF PluginInv

LEMMA StageFailsIsGood ==
  ASSUME PluginInv, StageFails
  PROVE  PluginInv'
<1>1. /\ dist' \in [Bundles -> {0} \cup Versions]
      /\ \A c \in Bundles : dist[c] # 0 => dist'[c] # 0
  BY StagedDistributions DEF StageFails
<1>2. /\ command' = Idle
      /\ UNCHANGED <<index, records, enabled, config, told, counts>>
  BY DEF StageFails
<1>3. DOMAIN records \subseteq Bundles
  BY BookProperties DEF PluginInv, TypeOK
<1>4. RecordsSupported'
  BY <1>1, <1>2, <1>3 DEF PluginInv, RecordsSupported
<1>5. TypeOK'
  BY <1>1, <1>2, IdleIsSound DEF PluginInv, TypeOK
<1> QED BY <1>2, <1>4, <1>5, IdleIsSound DEF PluginInv

-----------------------------------------------------------------------------
(* The [cordis] table and the records. *)

LEMMA CordisIsTable == TypeOK => Cordis \in Tables
  BY DEF TypeOK, Cordis, Tables

LEMMA PointsOfRecord ==
  ASSUME NEW book \in Books, NEW b \in DOMAIN book
  PROVE  Points[b][book[b].version] \subseteq Entries
  BY PluginAssumption, BookProperties DEF ValidIndex

LEMMA ActivateIsGood ==
  ASSUME PluginInv, Activate
  PROVE  PluginInv'
<1>1. command.pc = "activate" /\ UNCHANGED <<index, dist, records, told, counts>>
  BY DEF Activate
<1>2. CASE ~SettingsValid(enabled, config)
  <2>1. command' = Idle /\ UNCHANGED <<enabled, config>>
    BY <1>2 DEF Activate
  <2> QED BY <1>1, <2>1, IdleIsSound, RecordsStaySupported DEF PluginInv, TypeOK
<1>3. CASE SettingsValid(enabled, config)
  <2>1. /\ enabled' = enabled
                      \cup UNION {Points[c][command.save[c].version] : c \in command.on}
        /\ config' = RestoredConfig(command.save)
        /\ command' = [command EXCEPT !.pc = "check", !.old = Cordis]
    BY <1>3 DEF Activate, Writes
  <2>2. command \in Commands /\ command.save \in Books /\ Cordis \in Tables
    BY CordisIsTable DEF PluginInv, TypeOK, Commands
  <2>3. /\ command'.pc = "check" /\ command'.op = command.op /\ command'.on = command.on
        /\ command'.save = command.save /\ command' \in Commands
    BY <2>1, <2>2 DEF Commands
  <2>4. /\ Complete(command.save) /\ Installed(command.save, DOMAIN command.save)
        /\ command.op = "install" /\ command.on \subseteq DOMAIN command.save
        /\ \A b \in command.on : command.save[b].enabled
    BY <1>1 DEF PluginInv, CommandSound
  <2>5. enabled' \subseteq Entries
    BY <2>1, <2>2, <2>4, PointsOfRecord DEF PluginInv, TypeOK
  <2>6. config' \in Configs
    BY <2>1, <2>2, RestoredIsConfig DEF PluginInv
  <2>7. TypeOK'
    BY <1>1, <2>3, <2>5, <2>6 DEF PluginInv, TypeOK, Configs
  <2>8. CommandSound'
    <3>1. Agreed'
      BY <2>1, <2>3, <2>4 DEF Agreed
    <3>2. Complete(command.save)' /\ Installed(command.save, DOMAIN command.save)'
      BY <1>1, <2>3, <2>4 DEF Complete, Installed
    <3> QED BY <2>3, <2>4, <3>1, <3>2 DEF CommandSound
  <2> QED BY <1>1, <2>7, <2>8, RecordsStaySupported DEF PluginInv
<1> QED BY <1>2, <1>3

LEMMA EnableIsGood ==
  ASSUME PluginInv, NEW b \in Bundles, Enable(b)
  PROVE  PluginInv'
<1>1. PICK save :
        /\ save = [records EXCEPT ![b].enabled = TRUE]
        /\ b \in DOMAIN records /\ dist[b] = records[b].version
        /\ enabled' = enabled \cup Points[b][records[b].version]
        /\ config' = RestoredConfig(save) /\ counts' = [counts EXCEPT !["commands"] = @ + 1]
        /\ command' = [pc |-> "check", op |-> "enable", on |-> {b}, save |-> save,
                       old |-> Cordis]
        /\ UNCHANGED <<index, dist, records, told>>
  BY DEF Enable, Verified, Writes, Activated, EntryPoints, Count
<1>2. records \in Books /\ Cordis \in Tables
  BY CordisIsTable DEF PluginInv, TypeOK
<1>3. PICK S \in SUBSET Bundles : records \in Records(S)
  BY <1>2 DEF Books
<1>4. /\ save \in Records(S) /\ DOMAIN save = S /\ DOMAIN records = S
      /\ save[b].enabled /\ \A c \in S : save[c].version = records[c].version
      /\ \A c \in S \ {b} : save[c] = records[c]
  BY <1>1, <1>3 DEF Records
<1>5. save \in Books
  BY <1>4 DEF Books
<1>6. TypeOK'
  <2>1. command' \in Commands
    BY <1>1, <1>2, <1>5 DEF Commands
  <2>2. enabled' \subseteq Entries
    BY <1>1, <1>2, PointsOfRecord DEF PluginInv, TypeOK
  <2>3. config' \in Configs
    BY <1>1, <1>5, RestoredIsConfig DEF PluginInv
  <2>4. counts' \in [{"commands", "kills"} -> Nat]
    BY <1>1 DEF PluginInv, TypeOK
  <2> QED BY <1>1, <2>1, <2>2, <2>3, <2>4 DEF PluginInv, TypeOK, Configs
<1>7. CommandSound'
  <2>1. Complete(save)
    BY <1>4 DEF PluginInv, RecordsSupported, Complete
  <2>2. Installed(save, DOMAIN save)'
    <3>1. records[b].version # 0
      BY <1>1, <1>2, BookProperties DEF Versions
    <3> QED BY <1>1, <1>4, <3>1 DEF PluginInv, RecordsSupported, Installed
  <2>3. Agreed'
    BY <1>1, <1>4 DEF Agreed
  <2> QED BY <1>1, <1>4, <2>1, <2>2, <2>3 DEF CommandSound
<1> QED BY <1>1, <1>6, <1>7, RecordsStaySupported DEF PluginInv

LEMMA CheckIsGood ==
  ASSUME PluginInv, Check
  PROVE  PluginInv'
<1>1. command.pc = "check" /\ UNCHANGED <<index, dist, records, told, counts>>
  BY DEF Check
<1>2. command \in Commands /\ command.old \in Tables /\ NoCordis \in Tables
  BY DEF PluginInv, TypeOK, Commands, NoCordis, NoConfig, Tables
<1>3. CASE command' = Idle
  <2>1. enabled' \subseteq Entries /\ config' \in Configs
    BY <1>2 DEF Check, Writes, PluginInv, TypeOK, Tables, Configs
  <2> QED BY <1>1, <1>3, <2>1, IdleIsSound, RecordsStaySupported DEF PluginInv, TypeOK, Configs
<1>4. CASE command' # Idle
  <2>1. /\ command' = [command EXCEPT !.pc = "save", !.old = NoCordis]
        /\ command.op \notin {"set", "clear"} /\ UNCHANGED <<enabled, config>>
    BY <1>4 DEF Check
  <2>2. /\ command'.pc = "save" /\ command'.op = command.op /\ command'.on = command.on
        /\ command'.save = command.save /\ command' \in Commands
    BY <1>2, <2>1 DEF Commands
  <2>3. CommandSound'
    BY <1>1, <2>1, <2>2 DEF PluginInv, CommandSound, Complete, Installed, Agreed, Unneeded
  <2> QED BY <1>1, <2>1, <2>2, <2>3, RecordsStaySupported DEF PluginInv, TypeOK
<1> QED BY <1>3, <1>4

LEMMA SaveIsGood ==
  ASSUME PluginInv, Save
  PROVE  PluginInv'
<1>1. /\ command.pc = "save" /\ records' = command.save
      /\ command' = IF command.op = "remove"
                    THEN [command EXCEPT !.pc = "uninstall", !.save = NoRecords] ELSE Idle
      /\ UNCHANGED <<index, dist, enabled, config, told, counts>>
  BY DEF Save
<1>2. command \in Commands /\ command.save \in Books
  BY DEF PluginInv, TypeOK, Commands
<1>3. RecordsSupported'
  BY <1>1 DEF PluginInv, CommandSound, Complete, Installed, RecordsSupported
<1>4. CASE command.op # "remove"
  BY <1>1, <1>2, <1>3, <1>4, IdleIsSound DEF PluginInv, TypeOK
<1>5. CASE command.op = "remove"
  <2>1. /\ command'.pc = "uninstall" /\ command'.op = "remove" /\ command'.on = command.on
        /\ command'.save = NoRecords /\ command' \in Commands
    BY <1>1, <1>2, <1>5, NoRecordsIsBook DEF Commands
  <2>2. Unneeded(records, command.on)'
    BY <1>1, <1>5, <2>1 DEF PluginInv, CommandSound, Unneeded
  <2>3. CommandSound'
    BY <2>1, <2>2 DEF CommandSound
  <2> QED BY <1>1, <1>2, <1>3, <2>1, <2>3 DEF PluginInv, TypeOK
<1> QED BY <1>4, <1>5

\* disable, and remove of an enabled bundle, whose users have all gone.
LEMMA DeactivatesIsGood ==
  ASSUME PluginInv, NEW b \in DOMAIN records, NEW op \in {"disable", "remove"},
         op = "remove" => UsersOf(b) = {}, Deactivates(op, b)
  PROVE  PluginInv'
<1>1. PICK save :
        /\ save = [records EXCEPT ![b].enabled = FALSE, ![b].config = SavedConfig(b)]
        /\ enabled' = enabled \ Points[b][records[b].version]
        /\ config' = [e \in Entries |-> IF e \in EntryPoints(b) THEN Unset ELSE config[e]]
        /\ counts' = [counts EXCEPT !["commands"] = @ + 1]
        /\ command' = [pc |-> "check", op |-> op, on |-> {b}, old |-> Cordis, save |-> save]
        /\ UNCHANGED <<index, dist, records, told>>
  BY DEF Deactivates, Writes, EntryPoints, Count
<1>2. /\ records \in Books /\ Cordis \in Tables /\ b \in Bundles
      /\ config \in Configs /\ records[b].config \in Configs
  BY CordisIsTable, BookProperties DEF PluginInv, TypeOK, Configs
<1>3. PICK S \in SUBSET Bundles : records \in Records(S)
  BY <1>2 DEF Books
<1>4. SavedConfig(b) \in Configs
  BY <1>2 DEF SavedConfig, Configs
<1>5. /\ save \in Records(S) /\ DOMAIN save = S /\ DOMAIN records = S
      /\ ~save[b].enabled /\ \A c \in S : save[c].version = records[c].version
      /\ \A c \in S \ {b} : save[c] = records[c]
  BY <1>1, <1>3, <1>4 DEF Records, Configs
<1>6. TypeOK'
  <2>1. command' \in Commands
    BY <1>1, <1>2, <1>5 DEF Commands, Books
  <2>2. config' \in Configs
    BY <1>1, <1>2 DEF Configs
  <2>3. counts' \in [{"commands", "kills"} -> Nat]
    BY <1>1 DEF PluginInv, TypeOK
  <2> QED BY <1>1, <2>1, <2>2, <2>3 DEF PluginInv, TypeOK, Configs
<1>7. CommandSound'
  <2>1. Complete(save)
    BY <1>5 DEF PluginInv, RecordsSupported, Complete
  <2>2. Installed(save, DOMAIN save)'
    BY <1>1, <1>5 DEF PluginInv, RecordsSupported, Installed
  <2>3. Agreed'
    BY <1>1, <1>5 DEF Agreed
  <2>4. op = "remove" => Unneeded(save, {b})
    BY <1>5, UsersProperties DEF PluginInv, Unneeded
  <2> QED BY <1>1, <1>5, <2>1, <2>2, <2>3, <2>4 DEF CommandSound
<1> QED BY <1>1, <1>6, <1>7, RecordsStaySupported DEF PluginInv

LEMMA RemoveIsGood ==
  ASSUME PluginInv, NEW b \in Bundles, Remove(b)
  PROVE  PluginInv'
<1>1. b \in DOMAIN records /\ UsersOf(b) = {}
  BY DEF Remove
<1>2. CASE records[b].enabled
  BY <1>1, <1>2, DeactivatesIsGood DEF Remove
<1>3. CASE ~records[b].enabled
  <2>1. /\ command' = [pc |-> "uninstall", op |-> "remove", on |-> {b}, save |-> NoRecords,
                       old |-> NoCordis]
        /\ counts' \in [{"commands", "kills"} -> Nat]
        /\ UNCHANGED <<index, dist, records, enabled, config, told>>
    BY <1>3, BeginsEffect DEF PluginInv, Remove
  <2>2. command' \in Commands
    BY <2>1, IdleIsCommand, NoRecordsIsBook DEF Idle, Commands
  <2>3. Unneeded(records, {b})'
    BY <1>1, <1>3, <2>1, UsersProperties DEF PluginInv, Unneeded
  <2>4. CommandSound'
    BY <2>1, <2>3 DEF CommandSound
  <2> QED BY <2>1, <2>2, <2>4, RecordsStaySupported DEF PluginInv, TypeOK
<1> QED BY <1>2, <1>3

LEMMA UninstallIsGood ==
  ASSUME PluginInv, Uninstall
  PROVE  PluginInv'
<1>1. command.pc = "uninstall" /\ UNCHANGED <<index, records, enabled, config, told, counts>>
  BY DEF Uninstall
<1>2. CASE command' = Idle
  <2>1. UNCHANGED dist
    BY <1>1, <1>2, IdleIsCommand DEF Uninstall, PluginInv, TypeOK, Commands
  <2> QED BY <1>1, <1>2, <2>1, IdleIsSound, RecordsStaySupported DEF PluginInv, TypeOK
<1>3. CASE command' # Idle
  <2>1. /\ dist' = [c \in Bundles |-> IF c \in command.on THEN 0 ELSE dist[c]]
        /\ command' = [command EXCEPT !.pc = "forget"]
    BY <1>3 DEF Uninstall
  <2>2. /\ command'.pc = "forget" /\ command'.on = command.on /\ command' \in Commands
    BY <2>1 DEF PluginInv, TypeOK, Commands
  <2>3. Unneeded(records, command.on)
    BY <1>1 DEF PluginInv, CommandSound
  <2>4. RecordsSupported'
    <3>1. DOMAIN records \subseteq Bundles
      BY BookProperties DEF PluginInv, TypeOK
    <3> QED BY <1>1, <2>1, <2>3, <3>1 DEF PluginInv, RecordsSupported, Unneeded
  <2>5. CommandSound'
    BY <1>1, <2>2, <2>3 DEF CommandSound, Unneeded
  <2>6. dist' \in [Bundles -> {0} \cup Versions]
    BY <2>1 DEF PluginInv, TypeOK
  <2> QED BY <1>1, <2>2, <2>4, <2>5, <2>6 DEF PluginInv, TypeOK
<1> QED BY <1>2, <1>3

LEMMA ForgetIsGood ==
  ASSUME PluginInv, Forget
  PROVE  PluginInv'
<1>1. /\ command.pc = "forget" /\ command' = Idle
      /\ records' = [c \in DOMAIN records \ command.on |-> records[c]]
      /\ told' = [e \in Entries |->
                    IF \E b \in command.on, v \in Versions : e \in Points[b][v]
                    THEN Unset ELSE told[e]]
      /\ UNCHANGED <<index, dist, enabled, config, counts>>
  BY DEF Forget
<1>2. told' \in Configs
  BY <1>1 DEF PluginInv, TypeOK, Configs
<1>3. records' \in Books
  <2>1. PICK S \in SUBSET Bundles : records \in Records(S)
    BY DEF PluginInv, TypeOK, Books
  <2>2. records' \in Records(S \ command.on)
    BY <1>1, <2>1 DEF Records
  <2> QED BY <2>2 DEF Books
<1>4. RecordsSupported'
  <2>1. Unneeded(records, command.on)
    BY <1>1 DEF PluginInv, CommandSound
  <2> QED BY <1>1, <2>1 DEF PluginInv, RecordsSupported, Unneeded
<1> QED BY <1>1, <1>2, <1>3, <1>4, IdleIsSound DEF PluginInv, TypeOK, Configs

LEMMA ConfigureIsGood ==
  ASSUME PluginInv, NEW op \in {"set", "clear"}, NEW b \in DOMAIN records,
         NEW es \in SUBSET Entries, NEW value \in Values \cup {Unset},
         Configure(op, b, es, value)
  PROVE  PluginInv'
<1> DEFINE changed(values) == [e \in Entries |-> IF e \in es THEN value ELSE values[e]]
<1>1. \A values \in Configs : changed(values) \in Configs
  BY DEF Configs
<1>2. /\ command = Idle /\ counts' = [counts EXCEPT !["commands"] = @ + 1]
      /\ UNCHANGED <<index, dist>>
  BY DEF Configure, Count
<1>3. /\ config \in Configs /\ told \in Configs /\ Cordis \in Tables /\ records \in Books
      /\ counts' \in [{"commands", "kills"} -> Nat]
  BY <1>2, CordisIsTable DEF PluginInv, TypeOK, Configs
<1>4. CASE records[b].enabled
  <2>1. /\ enabled' = enabled /\ config' = changed(config) /\ UNCHANGED records
        /\ told' \in {changed(told), told}
        /\ command' = [Idle EXCEPT !.pc = "check", !.op = op, !.on = {b}, !.old = Cordis]
    BY <1>4 DEF Configure, Writes
  <2>2. /\ command' = [pc |-> "check", op |-> op, on |-> {b}, save |-> NoRecords,
                       old |-> Cordis]
    BY <2>1 DEF Idle
  <2>3. command' \in Commands
    BY <1>3, <2>2, NoRecordsIsBook, BookProperties DEF Commands
  <2>4. CommandSound'
    BY <2>2, NoRecordsIsBook DEF CommandSound, Complete, Installed
  <2>5. config' \in Configs /\ told' \in Configs
    BY <1>1, <1>3, <2>1
  <2> QED BY <1>2, <1>3, <2>1, <2>3, <2>4, <2>5, RecordsStaySupported
          DEF PluginInv, TypeOK, Configs
<1>5. CASE ~records[b].enabled
  <2>1. /\ records' = [records EXCEPT ![b].config = changed(@)] /\ told' = changed(told)
        /\ UNCHANGED <<enabled, config, command>>
    BY <1>5 DEF Configure
  <2>2. PICK S \in SUBSET Bundles : records \in Records(S)
    BY <1>3 DEF Books
  <2>3. records[b].config \in Configs
    BY <1>3, BookProperties
  <2>4. /\ records' \in Records(S) /\ DOMAIN records' = S /\ DOMAIN records = S
        /\ \A c \in S : /\ records'[c].version = records[c].version
                        /\ records'[c].enabled = records[c].enabled
    <3>1. changed(records[b].config) \in Configs
      BY <1>1, <2>3
    <3>2. records' = [records EXCEPT ![b].config = changed(records[b].config)]
      BY <2>1
    <3> HIDE DEF changed
    <3> QED BY <2>2, <3>1, <3>2 DEF Records, Configs
  <2>5. RecordsSupported'
    BY <1>2, <2>4 DEF PluginInv, RecordsSupported
  <2>6. TypeOK'
    <3>1. records' \in Books
      BY <2>4 DEF Books
    <3>2. told' \in Configs
      BY <1>1, <1>3, <2>1
    <3> HIDE DEF changed
    <3> QED BY <1>2, <1>3, <2>1, <3>1, <3>2 DEF PluginInv, TypeOK, Configs
  <2> QED BY <1>2, <2>1, <2>5, <2>6, IdleIsSound DEF PluginInv
<1> QED BY <1>4, <1>5

LEMMA PublishIsGood ==
  ASSUME PluginInv, NEW b \in Bundles, Publish(b)
  PROVE  PluginInv'
<1>1. /\ command' = Idle /\ index[b] < MaxVersion /\ index' = [index EXCEPT ![b] = @ + 1]
      /\ UNCHANGED <<dist, records, enabled, config, told, counts>>
  BY DEF Publish
<1>2. index' \in [Bundles -> Versions]
  BY <1>1, PluginAssumption DEF PluginInv, TypeOK, Versions
<1> QED BY <1>1, <1>2, IdleIsSound, RecordsStaySupported DEF PluginInv, TypeOK

LEMMA KilledIsGood ==
  ASSUME PluginInv, Killed
  PROVE  PluginInv'
<1>1. /\ command' = Idle /\ counts' = [counts EXCEPT !["kills"] = @ + 1]
      /\ UNCHANGED <<index, dist, records, enabled, config, told>>
  BY DEF Killed, Count
<1>2. counts' \in [{"commands", "kills"} -> Nat]
  BY <1>1 DEF PluginInv, TypeOK
<1> QED BY <1>1, <1>2, IdleIsSound, RecordsStaySupported DEF PluginInv, TypeOK


-----------------------------------------------------------------------------
(* Configurations are kept: the invariant. *)

\* Nothing in an index demands this: a version that drops an entry point may be followed by one
\* that has it again.  Then disable leaves the configuration in the file, where the record of
\* the disabled bundle does not look for it.
StablePoints ==
  \A b \in Bundles : \A u, v, w \in Versions :
    u <= v /\ v <= w => Points[b][u] \cap Points[b][w] \subseteq Points[b][v]

CanGive(b, e) == \E v \in Versions : e \in Points[b][v]

\* Version v of b or one after it has the entry point e.
Comes(b, e, v) == \E w \in Versions : v <= w /\ e \in Points[b][w]

\* What a book says of entry point e and bundle b agrees with its value in the file and with
\* what it was last told to be; offered is the version of b in the index.
Agrees(b, e, book, value, say, offered) ==
  IF b \in DOMAIN book
  THEN LET r == book[b] IN
       /\ r.version <= offered
       /\ r.config[e] # Unset => CanGive(b, e)
       /\ e \in Points[b][r.version] /\ say # Unset =>
            say = IF r.enabled THEN value ELSE r.config[e]
       /\ ~r.enabled /\ Comes(b, e, r.version) => value = Unset
       /\ Comes(b, e, r.version) /\ e \notin Points[b][r.version] =>
            say = Unset /\ value = Unset /\ r.config[e] = Unset
  ELSE /\ Comes(b, e, offered) => value = Unset
       /\ CanGive(b, e) => say = Unset

Remembers(book, values, said, offered) ==
  \A b \in Bundles, e \in Entries : Agrees(b, e, book, values[e], said[e], offered[b])

\* The book with some more of its bundles enabled.
Raises(book, book2) ==
  /\ DOMAIN book2 = DOMAIN book
  /\ \A b \in DOMAIN book :
       /\ book2[b].version = book[b].version /\ book2[b].config = book[b].config
       /\ book[b].enabled => book2[b].enabled

\* A command at work has, before and after its write, what it will need.
MemoryInv ==
  counts["kills"] = 0 =>
    /\ command.pc \in {"idle", "stage", "activate", "uninstall", "forget"} =>
         Remembers(records, config, told, index)
    /\ command.pc \in {"stage", "activate"} =>
         \E book \in Books : /\ Remembers(book, config, told, index)
                             /\ Raises(book, command.save)
                             /\ command.op = "add" => book = command.save
    /\ command.pc = "check" /\ command.op \in {"set", "clear"} =>
         Remembers(records, IF SettingsValid(enabled, config) THEN config ELSE command.old.config,
                   told, index)
    /\ command.pc = "check" /\ command.op \notin {"set", "clear"} =>
         Remembers(records, command.old.config, told, index)
    /\ command.pc = "save" \/ (command.pc = "check" /\ command.op \notin {"set", "clear"}) =>
         Remembers(command.save, config, told, index)

LEMMA MemoryIsEnough ==
  ASSUME PluginInv, MemoryInv
  PROVE  ConfigKept
<1> SUFFICES ASSUME Undisturbed, NEW b \in DOMAIN records, NEW e \in EntryPoints(b),
                    told[e] # Unset
             PROVE  Shown(b, e) = told[e]
  BY DEF ConfigKept
<1>1. Remembers(records, config, told, index)
  BY IdleIsCommand DEF MemoryInv, Undisturbed
<1>2. b \in Bundles /\ e \in Entries /\ e \in Points[b][records[b].version]
  BY BookProperties, PointsOfRecord DEF PluginInv, TypeOK, EntryPoints
<1>3. Agrees(b, e, records, config[e], told[e], index[b])
  BY <1>1, <1>2 DEF Remembers
<1> QED BY <1>2, <1>3 DEF Agrees, Shown

-----------------------------------------------------------------------------
(* What keeps the memory. *)

\* Every entry point is of one bundle.
LEMMA OneOwner ==
  ASSUME NEW b \in Bundles, NEW c \in Bundles, NEW e, CanGive(b, e), CanGive(c, e)
  PROVE  b = c
<1>1. PICK v \in Versions, w \in Versions : e \in Points[b][v] /\ e \in Points[c][w]
  BY DEF CanGive
<1> QED BY <1>1, PluginAssumption DEF ValidIndex

LEMMA ComesProperties ==
  ASSUME NEW b, NEW e, NEW v \in Versions
  PROVE  /\ e \in Points[b][v] => Comes(b, e, v)
         /\ Comes(b, e, v) => CanGive(b, e)
         /\ \A u \in Versions : u <= v /\ Comes(b, e, v) => Comes(b, e, u)
  BY DEF Comes, CanGive, Versions

\* Some bundles are recorded with the version the index has now, enabled or not as before.
LEMMA AddRemembers ==
  ASSUME StablePoints, NEW book \in Books, NEW values, NEW said,
         NEW offered \in [Bundles -> Versions],
         Remembers(book, values, said, offered), NEW chosen \in SUBSET Bundles,
         NEW book2, DOMAIN book2 = DOMAIN book \cup chosen,
         \A b \in DOMAIN book \ chosen : book2[b] = book[b],
         \A b \in chosen : book2[b].version = offered[b],
         \A b \in chosen \cap DOMAIN book :
            book2[b].enabled = book[b].enabled /\ book2[b].config = book[b].config,
         \A b \in chosen \ DOMAIN book : ~book2[b].enabled /\ book2[b].config = NoConfig
  PROVE  Remembers(book2, values, said, offered)
<1> SUFFICES ASSUME NEW b \in Bundles, NEW e \in Entries
             PROVE  Agrees(b, e, book2, values[e], said[e], offered[b])
  BY DEF Remembers
<1>1. Agrees(b, e, book, values[e], said[e], offered[b]) /\ offered[b] \in Versions
  BY DEF Remembers
<1>2. CASE b \notin chosen
  BY <1>1, <1>2 DEF Agrees
<1>3. CASE b \in chosen /\ b \notin DOMAIN book
  <2>1. book2[b].config[e] = Unset /\ book2[b].version = offered[b] /\ ~book2[b].enabled
    BY <1>3 DEF NoConfig
  <2>2. /\ Comes(b, e, offered[b]) => values[e] = Unset /\ said[e] = Unset
        /\ e \in Points[b][offered[b]] => said[e] = Unset
    BY <1>1, <1>3, ComesProperties DEF Agrees
  <2>3. offered[b] <= offered[b]
    BY <1>1 DEF Versions
  <2> QED BY <1>3, <2>1, <2>2, <2>3 DEF Agrees
<1>4. CASE b \in chosen /\ b \in DOMAIN book
  <2>1. PICK v \in Versions, w \in Versions : v = book[b].version /\ w = offered[b]
    BY <1>1, <1>4, BookProperties
  <2>2. v <= w /\ w <= w
    BY <1>1, <1>4, <2>1 DEF Agrees, Versions
  <2>3. Comes(b, e, w) => Comes(b, e, v)
    BY <2>2, ComesProperties
  <2>4. Comes(b, e, w) /\ e \in Points[b][v] => e \in Points[b][w]
    BY <2>2 DEF StablePoints, Comes
  <2>5. e \in Points[b][w] => Comes(b, e, w)
    BY <2>2 DEF Comes
  <2>6. /\ book2[b].version = w /\ book2[b].enabled = book[b].enabled
        /\ book2[b].config = book[b].config /\ b \in DOMAIN book2
    BY <1>4, <2>1
  <2> QED BY <1>1, <1>4, <2>1, <2>2, <2>3, <2>4, <2>5, <2>6 DEF Agrees
<1> QED BY <1>2, <1>3, <1>4

\* _activate restores, for the bundles that are enabled now, what their records kept.
LEMMA RestoredRemembers ==
  ASSUME NEW book \in Books, NEW book2, Raises(book, book2),
         Remembers(book, config, told, index), index \in [Bundles -> Versions]
  PROVE  Remembers(book2, RestoredConfig(book2), told, index)
<1> SUFFICES ASSUME NEW b \in Bundles, NEW e \in Entries
             PROVE  Agrees(b, e, book2, RestoredConfig(book2)[e], told[e], index[b])
  BY DEF Remembers
<1>1. PICK value, say, keepers, restored :
        /\ value = config[e] /\ say = told[e] /\ restored = RestoredConfig(book2)[e]
        /\ keepers = {c \in DOMAIN book2 : book2[c].enabled /\ book2[c].config[e] # Unset}
  OBVIOUS
<1>2. restored = IF value = Unset /\ keepers # {}
                 THEN book2[CHOOSE c \in keepers : TRUE].config[e] ELSE value
  BY <1>1 DEF RestoredConfig
<1>3. /\ \A c \in Bundles : Agrees(c, e, book, value, say, index[c])
      /\ DOMAIN book \subseteq Bundles /\ index[b] \in Versions
  BY <1>1, BookProperties DEF Remembers
<1>4. \A c \in keepers : c \in Bundles /\ CanGive(c, e)
  BY <1>1, <1>3 DEF Agrees, Raises
<1>5. CanGive(b, e) => keepers \subseteq {b}
  BY <1>4, OneOwner
<1>6. CASE b \notin DOMAIN book
  <2>1. b \notin DOMAIN book2 /\ b \notin keepers
    BY <1>1, <1>6 DEF Raises
  <2>2. Comes(b, e, index[b]) => restored = value
    BY <1>2, <1>3, <1>5, <2>1, ComesProperties
  <2> QED BY <1>1, <1>3, <1>6, <2>1, <2>2 DEF Agrees
<1>7. CASE b \in DOMAIN book
  <2>1. PICK v, kept : v = book[b].version /\ v \in Versions /\ kept = book[b].config[e]
    BY <1>7, BookProperties
  <2>2. /\ b \in DOMAIN book2 /\ book2[b].version = v /\ book2[b].config[e] = kept
        /\ book[b].enabled => book2[b].enabled
    BY <1>7, <2>1 DEF Raises
  <2>3. /\ v <= index[b] /\ (kept # Unset => CanGive(b, e))
        /\ e \in Points[b][v] /\ say # Unset => say = IF book[b].enabled THEN value ELSE kept
        /\ ~book[b].enabled /\ Comes(b, e, v) => value = Unset
        /\ Comes(b, e, v) /\ e \notin Points[b][v] => say = Unset /\ value = Unset /\ kept = Unset
    BY <1>3, <1>7, <2>1 DEF Agrees
  <2>4. ~book2[b].enabled \/ kept = Unset => b \notin keepers
    BY <1>1, <2>2
  <2>5. book2[b].enabled /\ kept # Unset => b \in keepers
    BY <1>1, <2>2
  <2>6. (e \in Points[b][v] => Comes(b, e, v)) /\ (Comes(b, e, v) => CanGive(b, e))
    BY <2>1, ComesProperties
  <2>7. ~book2[b].enabled /\ Comes(b, e, v) => restored = Unset
    BY <1>2, <1>5, <2>2, <2>3, <2>4, <2>6
  <2>8. Comes(b, e, v) /\ e \notin Points[b][v] => restored = Unset
    BY <1>2, <1>5, <2>3, <2>4, <2>6
  <2>9. ASSUME e \in Points[b][v], say # Unset, book2[b].enabled PROVE say = restored
    <3>1. CASE book[b].enabled
      BY <1>2, <2>3, <2>9, <3>1
    <3>2. CASE ~book[b].enabled
      <4>1. value = Unset /\ kept = say /\ keepers = {b}
        BY <1>5, <2>3, <2>5, <2>6, <2>9, <3>2
      <4>2. (CHOOSE c \in keepers : TRUE) = b
        BY <4>1
      <4> QED BY <1>2, <2>2, <4>1, <4>2
    <3> QED BY <3>1, <3>2
  <2>10. ~book2[b].enabled => ~book[b].enabled
    BY <2>2
  <2>11. Agrees(b, e, book2, restored, say, index[b])
    BY <2>2, <2>3, <2>7, <2>8, <2>9, <2>10 DEF Agrees
  <2> QED BY <1>1, <2>11
<1> QED BY <1>6, <1>7

-----------------------------------------------------------------------------
(* Every step keeps the memory. *)

\* A step that changes neither the file nor the records nor what was told.
LEMMA SameMemory ==
  ASSUME MemoryInv, UNCHANGED <<records, enabled, config, told, index, counts>>,
         counts["kills"] = 0 => command.pc \in {"idle", "stage", "activate", "uninstall", "forget"},
         command'.pc \in {"idle", "uninstall", "forget"}
  PROVE  MemoryInv'
  BY DEF MemoryInv

LEMMA InstallRemembers ==
  ASSUME StablePoints, PluginInv, MemoryInv, NEW b \in Bundles, NEW enable \in BOOLEAN,
         Install(b, enable)
  PROVE  MemoryInv'
<1> DEFINE kept(c) == IF c \in DOMAIN records THEN records[c]
                      ELSE [version |-> 0, enabled |-> FALSE, config |-> NoConfig]
           Saved(cs) == [c \in DOMAIN records \cup cs |->
                           IF c \in cs
                           THEN [version |-> index[c], enabled |-> enable \/ kept(c).enabled,
                                 config |-> kept(c).config]
                           ELSE records[c]]
           Added(cs) == [c \in DOMAIN records \cup cs |->
                           IF c \in cs
                           THEN [version |-> index[c], enabled |-> kept(c).enabled,
                                 config |-> kept(c).config]
                           ELSE records[c]]
<1>1. PICK chosen, save, book, op :
        /\ chosen = Resolved(b) /\ save = Saved(chosen) /\ book = Added(chosen)
        /\ op = IF enable THEN "install" ELSE "add"
        /\ Begins(op, "stage", chosen, save)
        /\ UNCHANGED <<index, dist, records, enabled, config, told>>
  BY DEF Install
<1>2. /\ chosen \in SUBSET Bundles /\ DOMAIN records \subseteq Bundles /\ records \in Books
      /\ index \in [Bundles -> Versions]
  BY <1>1, ResolvedProperties, BookProperties DEF PluginInv, TypeOK
<1>3. \A c : kept(c).enabled = (c \in DOMAIN records /\ records[c].enabled)
             /\ kept(c).config = IF c \in DOMAIN records THEN records[c].config ELSE NoConfig
  BY BookProperties, <1>2
<1>4. /\ DOMAIN book = DOMAIN records \cup chosen /\ book = [c \in DOMAIN book |-> book[c]]
      /\ \A c \in chosen :
           book[c] = [version |-> index[c], enabled |-> kept(c).enabled,
                      config |-> kept(c).config]
      /\ \A c \in DOMAIN records \ chosen : book[c] = records[c]
  <2> HIDE DEF kept
  <2> QED BY <1>1
<1>5. /\ DOMAIN save = DOMAIN records \cup chosen /\ (~enable => save = book)
      /\ \A c \in chosen :
           save[c] = [version |-> index[c], enabled |-> enable \/ kept(c).enabled,
                      config |-> kept(c).config]
      /\ \A c \in DOMAIN records \ chosen : save[c] = records[c]
  <2>1. kept(b).enabled \in BOOLEAN
    BY <1>2, BookProperties
  <2>2. ASSUME ~enable PROVE save = book
    <3>1. \A c : (enable \/ kept(c).enabled) = kept(c).enabled
      BY <1>3, <2>2
    <3> HIDE DEF kept
    <3> QED BY <1>1, <3>1
  <2> HIDE DEF kept
  <2> QED BY <1>1, <2>2
<1> HIDE DEF Saved, Added
<1>6. book \in Books
  <2>1. ASSUME NEW c \in DOMAIN book
        PROVE  book[c] \in [version : Versions, enabled : BOOLEAN, config : Configs]
    <3>1. CASE c \in chosen
      <4>1. kept(c).enabled \in BOOLEAN /\ kept(c).config \in Configs /\ index[c] \in Versions
        <5>1. NoConfig \in Configs
          BY DEF NoConfig, Configs
        <5> QED BY <1>2, <3>1, <5>1, BookProperties
      <4> HIDE DEF kept
      <4> QED BY <1>4, <3>1, <4>1
    <3>2. CASE c \notin chosen
      <4>1. PICK S \in SUBSET Bundles : records \in Records(S)
        BY <1>2 DEF Books
      <4> HIDE DEF kept
      <4> QED BY <1>4, <2>1, <3>2, <4>1 DEF Records, Configs
    <3> QED BY <3>1, <3>2
  <2> HIDE DEF kept
  <2> QED BY <1>2, <1>4, <2>1, BookIntro
<1>7. \A c \in chosen :
        /\ book[c].version = index[c] /\ save[c].version = index[c]
        /\ book[c].config = kept(c).config /\ save[c].config = kept(c).config
        /\ book[c].enabled = kept(c).enabled /\ (book[c].enabled => save[c].enabled)
  <2> HIDE DEF kept
  <2> QED BY <1>4, <1>5
<1>8. \A c \in chosen \cap DOMAIN records :
         book[c].enabled = records[c].enabled /\ book[c].config = records[c].config
  <2>1. ASSUME NEW c \in chosen, c \in DOMAIN records
        PROVE  kept(c).enabled = records[c].enabled /\ kept(c).config = records[c].config
    BY <2>1
  <2> HIDE DEF kept
  <2> QED BY <1>7, <2>1
<1>9. \A c \in chosen \ DOMAIN records : ~book[c].enabled /\ book[c].config = NoConfig
  <2> HIDE DEF kept
  <2> QED BY <1>3, <1>7
<1>10. \A c \in chosen : book[c].version = index[c]
  BY <1>7
<1>11. Raises(book, save)
  <2> HIDE DEF kept
  <2> QED BY <1>4, <1>5, <1>7 DEF Raises
<1>12. /\ command = Idle /\ command'.pc = "stage" /\ command'.op = op /\ command'.save = save
      /\ counts'["kills"] = counts["kills"]
  <2>1. command = Idle /\ counts' = [counts EXCEPT !["commands"] = @ + 1]
    BY <1>1 DEF Begins, Count
  <2> QED BY <1>1, <2>1, BeginsEffect DEF PluginInv, TypeOK
<1>13. ASSUME counts["kills"] = 0
       PROVE  Remembers(records, config, told, index) /\ Remembers(book, config, told, index)
  <2>1. Remembers(records, config, told, index)
    BY <1>12, <1>13, IdleIsCommand DEF MemoryInv
  <2> HIDE DEF kept
  <2> QED BY <1>2, <1>4, <1>8, <1>9, <1>10, <2>1, AddRemembers
<1>14. (op = "add" => ~enable)
  BY <1>1
<1> HIDE DEF kept
<1> QED BY <1>1, <1>5, <1>6, <1>11, <1>12, <1>13, <1>14 DEF MemoryInv

LEMMA StageRemembers ==
  ASSUME PluginInv, MemoryInv, Stage
  PROVE  MemoryInv'
<1>1. command.pc = "stage" /\ command.op \in {"install", "add"}
  BY DEF Stage, PluginInv, CommandSound
<1>2. /\ command'.pc = IF command.op = "install" THEN "activate" ELSE "save"
      /\ command'.op = command.op /\ command'.save = command.save
      /\ UNCHANGED <<index, records, enabled, config, told, counts>>
  BY DEF Stage, PluginInv, TypeOK, Commands
<1> QED BY <1>1, <1>2 DEF MemoryInv

LEMMA ActivateRemembers ==
  ASSUME PluginInv, MemoryInv, Activate
  PROVE  MemoryInv'
<1>1. /\ command.pc = "activate" /\ command.op = "install"
      /\ UNCHANGED <<index, dist, records, told, counts>> /\ command \in Commands
  BY DEF Activate, PluginInv, TypeOK, CommandSound
<1>2. CASE command' = Idle /\ UNCHANGED <<enabled, config>>
  BY <1>1, <1>2, SameMemory, IdleIsCommand
<1>3. CASE /\ config' = RestoredConfig(command.save)
           /\ command' = [command EXCEPT !.pc = "check", !.old = Cordis]
  <2>1. /\ command'.pc = "check" /\ command'.op = "install" /\ command'.save = command.save
        /\ command'.old.config = config
    BY <1>1, <1>3 DEF Commands, Cordis
  <2>2. ASSUME counts["kills"] = 0
        PROVE  /\ Remembers(records, config, told, index)
               /\ Remembers(command.save, RestoredConfig(command.save), told, index)
    <3>1. /\ Remembers(records, config, told, index)
          /\ \E book \in Books : Remembers(book, config, told, index)
                                 /\ Raises(book, command.save)
      BY <1>1, <2>2 DEF MemoryInv
    <3>2. index \in [Bundles -> Versions]
      BY DEF PluginInv, TypeOK
    <3> QED BY <3>1, <3>2, RestoredRemembers
  <2> QED BY <1>1, <1>3, <2>1, <2>2 DEF MemoryInv
<1> QED BY <1>2, <1>3 DEF Activate, Writes

LEMMA EnableRemembers ==
  ASSUME PluginInv, MemoryInv, NEW b \in Bundles, Enable(b)
  PROVE  MemoryInv'
<1>1. PICK save :
        /\ save = [records EXCEPT ![b].enabled = TRUE]
        /\ b \in DOMAIN records /\ command = Idle
        /\ config' = RestoredConfig(save) /\ counts' = [counts EXCEPT !["commands"] = @ + 1]
        /\ command' = [pc |-> "check", op |-> "enable", on |-> {b}, save |-> save,
                       old |-> Cordis]
        /\ UNCHANGED <<index, dist, records, told>>
  BY DEF Enable, Writes, Count
<1>2. /\ command'.pc = "check" /\ command'.op = "enable" /\ command'.save = save
      /\ command'.old.config = config /\ counts'["kills"] = counts["kills"]
  BY <1>1 DEF Cordis, PluginInv, TypeOK
<1>3. records \in Books /\ index \in [Bundles -> Versions]
  BY DEF PluginInv, TypeOK
<1>4. Raises(records, save)
  <2>1. PICK S \in SUBSET Bundles : records \in Records(S)
    BY <1>3 DEF Books
  <2> QED BY <1>1, <2>1 DEF Raises, Records
<1>5. ASSUME counts["kills"] = 0
      PROVE  /\ Remembers(records, config, told, index)
             /\ Remembers(save, RestoredConfig(save), told, index)
  <2>1. Remembers(records, config, told, index)
    BY <1>1, <1>5, IdleIsCommand DEF MemoryInv
  <2> QED BY <1>3, <1>4, <2>1, RestoredRemembers
<1> QED BY <1>1, <1>2, <1>5 DEF MemoryInv

LEMMA CheckRemembers ==
  ASSUME PluginInv, MemoryInv, Check
  PROVE  MemoryInv'
<1>1. command.pc = "check" /\ UNCHANGED <<index, dist, records, told, counts>>
  BY DEF Check
<1>2. CASE SettingsValid(enabled, config) /\ command.op \in {"set", "clear"}
  <2>1. command' = Idle /\ UNCHANGED <<enabled, config>>
    BY <1>2 DEF Check
  <2> QED BY <1>1, <1>2, <2>1, IdleIsCommand DEF MemoryInv
<1>3. CASE SettingsValid(enabled, config) /\ command.op \notin {"set", "clear"}
  <2>1. /\ command' = [command EXCEPT !.pc = "save", !.old = NoCordis]
        /\ UNCHANGED <<enabled, config>>
    BY <1>3 DEF Check
  <2>2. command'.pc = "save" /\ command'.op = command.op /\ command'.save = command.save
    BY <2>1 DEF PluginInv, TypeOK, Commands
  <2> QED BY <1>1, <1>3, <2>1, <2>2 DEF MemoryInv
<1>4. CASE ~SettingsValid(enabled, config)
  <2>1. command' = Idle /\ config' = command.old.config
    BY <1>4 DEF Check, Writes
  <2> QED BY <1>1, <1>4, <2>1, IdleIsCommand DEF MemoryInv
<1> QED BY <1>2, <1>3, <1>4

LEMMA SaveRemembers ==
  ASSUME PluginInv, MemoryInv, Save
  PROVE  MemoryInv'
<1>1. /\ command.pc = "save" /\ records' = command.save
      /\ UNCHANGED <<index, dist, enabled, config, told, counts>>
  BY DEF Save
<1>2. command'.pc \in {"idle", "uninstall"}
  BY IdleIsCommand DEF Save, PluginInv, TypeOK, Commands
<1> QED BY <1>1, <1>2 DEF MemoryInv

\* What disable makes of the records and of [cordis.config]: the configuration of the bundle
\* moves from the file into its record.
DisabledBook(b) == [records EXCEPT ![b].enabled = FALSE, ![b].config = SavedConfig(b)]
ConfigWithout(b) == [e \in Entries |-> IF e \in EntryPoints(b) THEN Unset ELSE config[e]]

LEMMA DeactivatedRemembers ==
  ASSUME PluginInv, Remembers(records, config, told, index), NEW b \in DOMAIN records
  PROVE  Remembers(DisabledBook(b), ConfigWithout(b), told, index)
<1>0. PICK save, values : save = DisabledBook(b) /\ values = ConfigWithout(b)
  OBVIOUS
<1>1. PICK S \in SUBSET Bundles : records \in Records(S)
  BY DEF PluginInv, TypeOK, Books
<1>2. SavedConfig(b) \in Configs
  <2>1. config \in Configs /\ records[b].config \in Configs
    BY BookProperties DEF Configs, PluginInv, TypeOK
  <2> QED BY <2>1 DEF SavedConfig, Configs
<1>3. /\ DOMAIN save = DOMAIN records /\ \A c \in DOMAIN records \ {b} : save[c] = records[c]
      /\ save[b].version = records[b].version /\ ~save[b].enabled
      /\ save[b].config = SavedConfig(b)
  BY <1>0, <1>1 DEF Records, DisabledBook
<1> SUFFICES ASSUME NEW c \in Bundles, NEW e \in Entries
             PROVE  Agrees(c, e, save, values[e], told[e], index[c])
  BY <1>0 DEF Remembers
<1>4. /\ Agrees(c, e, records, config[e], told[e], index[c])
      /\ Agrees(b, e, records, config[e], told[e], index[b]) /\ b \in Bundles
  BY BookProperties DEF Remembers, PluginInv, TypeOK
<1>5. PICK value, say : value = config[e] /\ say = told[e]
  OBVIOUS
<1>6. PICK v \in Versions : v = records[b].version
  BY BookProperties DEF PluginInv, TypeOK
<1>7. /\ values[e] = IF e \in Points[b][v] THEN Unset ELSE value
      /\ save[b].config[e] = IF e \in Points[b][v] /\ value # Unset THEN value
                             ELSE records[b].config[e]
  <2>1. EntryPoints(b) = Points[b][v]
    BY <1>6 DEF EntryPoints
  <2>2. SavedConfig(b)[e] = IF e \in Points[b][v] /\ value # Unset THEN value
                            ELSE records[b].config[e]
    BY <1>5, <2>1 DEF SavedConfig
  <2> QED BY <1>0, <1>3, <1>5, <2>1, <2>2 DEF ConfigWithout
<1>8. (e \in Points[b][v] => Comes(b, e, v)) /\ (Comes(b, e, v) => CanGive(b, e))
  BY ComesProperties
<1>9. CASE c = b
  BY <1>3, <1>4, <1>5, <1>6, <1>7, <1>8, <1>9 DEF Agrees
<1>10. CASE c # b
  <2>1. /\ c \in DOMAIN save <=> c \in DOMAIN records
        /\ c \in DOMAIN records => save[c] = records[c]
    BY <1>3, <1>10
  <2>2. CASE e \notin Points[b][v]
    BY <1>4, <1>5, <1>7, <2>1, <2>2 DEF Agrees
  <2>3. CASE e \in Points[b][v]
    <3>1. ~CanGive(c, e)
      BY <1>4, <1>8, <1>10, <2>3, OneOwner
    <3>2. \A u \in Versions : e \notin Points[c][u] /\ ~Comes(c, e, u)
      BY <3>1, ComesProperties DEF CanGive
    <3>3. index[c] \in Versions /\ (c \in DOMAIN records => records[c].version \in Versions)
      BY BookProperties DEF PluginInv, TypeOK
    <3> QED BY <1>4, <2>1, <3>1, <3>2, <3>3 DEF Agrees
  <2> QED BY <2>2, <2>3
<1> QED BY <1>9, <1>10

LEMMA DeactivatesRemembers ==
  ASSUME PluginInv, MemoryInv, NEW b \in DOMAIN records, NEW op \in {"disable", "remove"},
         Deactivates(op, b)
  PROVE  MemoryInv'
<1>1. PICK save, values :
        /\ save = DisabledBook(b) /\ values = ConfigWithout(b)
        /\ config' = values /\ command = Idle
        /\ counts' = [counts EXCEPT !["commands"] = @ + 1]
        /\ command' = [pc |-> "check", op |-> op, on |-> {b}, old |-> Cordis, save |-> save]
        /\ UNCHANGED <<index, dist, records, told>>
  BY DEF Deactivates, Writes, Count, DisabledBook, ConfigWithout
<1>2. /\ command'.pc = "check" /\ command'.op = op /\ command'.save = save
      /\ command'.old.config = config /\ counts'["kills"] = counts["kills"]
  BY <1>1 DEF Cordis, PluginInv, TypeOK
<1>3. ASSUME counts["kills"] = 0
      PROVE  Remembers(records, config, told, index) /\ Remembers(save, values, told, index)
  <2>1. Remembers(records, config, told, index)
    BY <1>1, <1>3, IdleIsCommand DEF MemoryInv
  <2> QED BY <1>1, <2>1, DeactivatedRemembers
<1> QED BY <1>1, <1>2, <1>3 DEF MemoryInv

LEMMA RemoveRemembers ==
  ASSUME PluginInv, MemoryInv, NEW b \in Bundles, Remove(b)
  PROVE  MemoryInv'
<1>1. b \in DOMAIN records
  BY DEF Remove
<1>2. CASE records[b].enabled
  BY <1>1, <1>2, DeactivatesRemembers DEF Remove
<1>3. CASE ~records[b].enabled
  <2>1. Begins("remove", "uninstall", {b}, NoRecords)
    BY <1>3 DEF Remove
  <2>2. /\ command = Idle /\ counts' = [counts EXCEPT !["commands"] = @ + 1]
        /\ UNCHANGED <<index, dist, records, enabled, config, told>>
    BY <1>3, <2>1 DEF Remove, Begins, Count
  <2>3. command'.pc = "uninstall" /\ counts'["kills"] = counts["kills"]
    BY <2>1, <2>2, BeginsEffect DEF PluginInv, TypeOK
  <2> QED BY <2>2, <2>3, IdleIsCommand DEF MemoryInv
<1> QED BY <1>2, <1>3

\* The records forget the bundle, which was disabled, and nothing of it is left to be told.
LEMMA ForgetRemembers ==
  ASSUME PluginInv, MemoryInv, Forget
  PROVE  MemoryInv'
<1>1. /\ command.pc = "forget" /\ command' = Idle
      /\ DOMAIN records' = DOMAIN records \ command.on
      /\ \A c \in DOMAIN records \ command.on : records'[c] = records[c]
      /\ \A e \in Entries : told'[e] = IF \E b \in command.on, v \in Versions : e \in Points[b][v]
                                       THEN Unset ELSE told[e]
      /\ UNCHANGED <<index, dist, enabled, config, counts>>
  BY DEF Forget
<1>2. \A b \in command.on \cap DOMAIN records : ~records[b].enabled
  BY <1>1 DEF PluginInv, CommandSound, Unneeded
<1>3. ASSUME counts["kills"] = 0, NEW b \in Bundles, NEW e \in Entries
      PROVE  Agrees(b, e, records', config[e], told'[e], index[b])
  <2>1. Agrees(b, e, records, config[e], told[e], index[b])
    BY <1>1, <1>3 DEF MemoryInv, Remembers
  <2>2. told'[e] \in {told[e], Unset} /\ (b \in command.on /\ CanGive(b, e) => told'[e] = Unset)
    BY <1>1 DEF CanGive
  <2>3. CASE b \notin command.on
    BY <1>1, <2>1, <2>2, <2>3 DEF Agrees
  <2>4. CASE b \in command.on /\ b \notin DOMAIN records
    BY <1>1, <2>1, <2>2, <2>4 DEF Agrees
  <2>5. CASE b \in command.on /\ b \in DOMAIN records
    <3>1. /\ records[b].version \in Versions /\ index[b] \in Versions
          /\ records[b].version <= index[b]
      BY <2>1, <2>5, BookProperties DEF Agrees, PluginInv, TypeOK
    <3>2. Comes(b, e, index[b]) => Comes(b, e, records[b].version)
      BY <3>1, ComesProperties
    <3> QED BY <1>1, <1>2, <2>1, <2>2, <2>5, <3>2 DEF Agrees
  <2> QED BY <2>3, <2>4, <2>5
<1>4. counts["kills"] = 0 => Remembers(records, config, told, index)'
  BY <1>1, <1>3 DEF Remembers
<1> QED BY <1>1, <1>4, IdleIsCommand DEF MemoryInv

\* The entry points es are given the value.
Tells(es, value, values, new) ==
  \A e \in Entries : new[e] = IF e \in es THEN value ELSE values[e]

\* Entry points of an installed bundle are told a value, where the bundle keeps it.
LEMMA ConfiguredRemembers ==
  ASSUME PluginInv, Remembers(records, config, told, index), NEW b \in DOMAIN records,
         NEW es \in SUBSET EntryPoints(b), NEW value \in Values \cup {Unset},
         NEW book, NEW values, NEW said,
         Tells(es, value, told, said),
         \/ records[b].enabled /\ book = records /\ Tells(es, value, config, values)
         \/ /\ ~records[b].enabled /\ values = config
            /\ DOMAIN book = DOMAIN records
            /\ \A c \in DOMAIN records \ {b} : book[c] = records[c]
            /\ book[b].version = records[b].version /\ book[b].enabled = records[b].enabled
            /\ Tells(es, value, records[b].config, book[b].config)
  PROVE  Remembers(book, values, said, index)
<1> SUFFICES ASSUME NEW c \in Bundles, NEW e \in Entries
             PROVE  Agrees(c, e, book, values[e], said[e], index[c])
  BY DEF Remembers
<1>1. /\ Agrees(c, e, records, config[e], told[e], index[c]) /\ b \in Bundles
      /\ records[b].version \in Versions
      /\ index[c] \in Versions /\ (c \in DOMAIN records => records[c].version \in Versions)
  BY BookProperties DEF Remembers, PluginInv, TypeOK
<1>2. e \in es => e \in Points[b][records[b].version] /\ CanGive(b, e)
  BY <1>1 DEF EntryPoints, CanGive
<1>3. c \in DOMAIN book <=> c \in DOMAIN records
  OBVIOUS
<1>4. CASE e \notin es
  <2>1. said[e] = told[e] /\ values[e] = config[e]
    BY <1>4 DEF Tells
  <2>2. c \in DOMAIN records => /\ book[c].version = records[c].version
                                /\ book[c].enabled = records[c].enabled
                                /\ book[c].config[e] = records[c].config[e]
    BY <1>4 DEF Tells
  <2> QED BY <1>1, <1>3, <2>1, <2>2 DEF Agrees
<1>5. CASE e \in es /\ c # b
  <2>1. ~CanGive(c, e)
    BY <1>1, <1>2, <1>5, OneOwner
  <2>2. \A u \in Versions : e \notin Points[c][u] /\ ~Comes(c, e, u)
    BY <2>1, ComesProperties DEF CanGive
  <2>3. c \in DOMAIN records => book[c] = records[c]
    BY <1>5
  <2> QED BY <1>1, <1>3, <2>1, <2>2, <2>3 DEF Agrees
<1>6. CASE e \in es /\ c = b
  <2>1. CASE records[b].enabled
    <3>1. book = records /\ values[e] = value /\ said[e] = value
      BY <1>6, <2>1 DEF Tells
    <3> QED BY <1>1, <1>2, <1>6, <2>1, <3>1 DEF Agrees
  <2>2. CASE ~records[b].enabled
    <3>1. /\ values[e] = config[e] /\ said[e] = value /\ book[b].config[e] = value
          /\ book[b].version = records[b].version /\ ~book[b].enabled
      BY <1>6, <2>2 DEF Tells
    <3> QED BY <1>1, <1>2, <1>3, <1>6, <2>2, <3>1 DEF Agrees
  <2> QED BY <2>1, <2>2
<1> QED BY <1>4, <1>5, <1>6

LEMMA ConfigureRemembers ==
  ASSUME PluginInv, MemoryInv, NEW op \in {"set", "clear"}, NEW b \in DOMAIN records,
         NEW es \in SUBSET EntryPoints(b), NEW value \in Values \cup {Unset},
         Configure(op, b, es, value)
  PROVE  MemoryInv'
<1> DEFINE changed(values) == [e \in Entries |-> IF e \in es THEN value ELSE values[e]]
<1>1. /\ command = Idle /\ counts' = [counts EXCEPT !["commands"] = @ + 1]
      /\ UNCHANGED <<index, dist>> /\ counts'["kills"] = counts["kills"]
  BY DEF Configure, Count, PluginInv, TypeOK
<1>2. counts["kills"] = 0 => Remembers(records, config, told, index)
  BY <1>1, IdleIsCommand DEF MemoryInv
<1>3. CASE records[b].enabled
  <2>1. /\ enabled' = enabled /\ config' = changed(config) /\ UNCHANGED records
        /\ told' = IF SettingsValid(enabled, config') THEN changed(told) ELSE told
        /\ command' = [Idle EXCEPT !.pc = "check", !.op = op, !.on = {b}, !.old = Cordis]
    BY <1>3 DEF Configure, Writes
  <2>2. command'.pc = "check" /\ command'.op = op /\ command'.old.config = config
    BY <2>1 DEF Idle, Cordis
  <2>3. SettingsValid(enabled, config)' <=> SettingsValid(enabled, config')
    BY <2>1 DEF SettingsValid
  <2>4. CASE SettingsValid(enabled, config')
    <3>1. Tells(es, value, told, told') /\ Tells(es, value, config, config')
      BY <2>1, <2>4 DEF Tells
    <3>2. counts["kills"] = 0 => Remembers(records, config', told', index)
      BY <1>2, <1>3, <3>1, ConfiguredRemembers
    <3> HIDE DEF changed
    <3> QED BY <1>1, <2>1, <2>2, <2>3, <2>4, <3>2 DEF MemoryInv
  <2>5. CASE ~SettingsValid(enabled, config')
    <3> HIDE DEF changed
    <3> QED BY <1>1, <1>2, <2>1, <2>2, <2>3, <2>5 DEF MemoryInv
  <2> QED BY <2>4, <2>5
<1>4. CASE ~records[b].enabled
  <2>1. /\ records' = [records EXCEPT ![b].config = changed(@)] /\ told' = changed(told)
        /\ UNCHANGED <<enabled, config, command>>
    BY <1>4 DEF Configure
  <2>2. PICK S \in SUBSET Bundles : records \in Records(S)
    BY DEF PluginInv, TypeOK, Books
  <2>3. /\ DOMAIN records' = DOMAIN records
        /\ \A c \in DOMAIN records \ {b} : records'[c] = records[c]
        /\ records'[b].version = records[b].version
        /\ records'[b].enabled = records[b].enabled
        /\ records'[b].config = changed(records[b].config)
    <3>1. records' = [records EXCEPT ![b].config = changed(records[b].config)]
      BY <2>1
    <3> HIDE DEF changed
    <3> QED BY <2>2, <3>1 DEF Records
  <2>4. Tells(es, value, told, told') /\ Tells(es, value, records[b].config, records'[b].config)
    BY <2>1, <2>3 DEF Tells
  <2>5. counts["kills"] = 0 => Remembers(records', config, told', index)
    <3> HIDE DEF changed
    <3> QED BY <1>2, <1>4, <2>3, <2>4, ConfiguredRemembers
  <2> HIDE DEF changed
  <2> QED BY <1>1, <2>1, <2>5, IdleIsCommand DEF MemoryInv
<1> QED BY <1>3, <1>4

LEMMA PublishRemembers ==
  ASSUME PluginInv, MemoryInv, NEW b \in Bundles, Publish(b)
  PROVE  MemoryInv'
<1>1. /\ command = Idle /\ command' = Idle /\ index' = [index EXCEPT ![b] = @ + 1]
      /\ index[b] < MaxVersion /\ UNCHANGED <<dist, records, enabled, config, told, counts>>
  BY DEF Publish
<1>2. index \in [Bundles -> Versions] /\ Versions \subseteq Nat /\ MaxVersion \in Nat
  BY PluginAssumption DEF PluginInv, TypeOK, Versions
<1>3. ASSUME NEW c \in Bundles
      PROVE  index[c] \in Versions /\ index'[c] \in Versions /\ index[c] <= index'[c]
  <2>1. index'[c] = index[c] \/ (c = b /\ index'[c] = index[c] + 1)
    BY <1>1, <1>2
  <2> QED BY <1>1, <1>2, <2>1 DEF Versions
<1>4. ASSUME counts["kills"] = 0, NEW c \in Bundles, NEW e \in Entries
      PROVE  Agrees(c, e, records, config[e], told[e], index'[c])
  <2>1. Agrees(c, e, records, config[e], told[e], index[c])
    BY <1>1, <1>4, IdleIsCommand DEF MemoryInv, Remembers
  <2>2. Comes(c, e, index'[c]) => Comes(c, e, index[c])
    BY <1>3, ComesProperties
  <2>3. c \in DOMAIN records => records[c].version \in Nat
    BY <1>2, BookProperties DEF PluginInv, TypeOK
  <2>4. ASSUME NEW v \in Nat, v <= index[c] PROVE v <= index'[c]
    <3>1. index[c] \in Nat /\ index'[c] \in Nat /\ index[c] <= index'[c]
      BY <1>2, <1>3
    <3> QED BY <2>4, <3>1
  <2> QED BY <2>1, <2>2, <2>3, <2>4 DEF Agrees
<1>5. counts["kills"] = 0 => Remembers(records, config, told, index)'
  BY <1>1, <1>4 DEF Remembers
<1> QED BY <1>1, <1>5, IdleIsCommand DEF MemoryInv

LEMMA KilledRemembers ==
  ASSUME PluginInv, Killed
  PROVE  MemoryInv'
<1>1. counts' = [counts EXCEPT !["kills"] = @ + 1]
  BY DEF Killed, Count
<1>2. counts'["kills"] # 0
  BY <1>1 DEF PluginInv, TypeOK
<1> QED BY <1>2 DEF MemoryInv

LEMMA NextRemembers ==
  ASSUME StablePoints, PluginInv, MemoryInv, Next
  PROVE  MemoryInv'
<1>1. ASSUME NEW b \in Bundles, Disable(b)
      PROVE  MemoryInv'
  BY <1>1, DeactivatesRemembers DEF Disable
<1>2. ASSUME NEW b \in Bundles, NEW e \in Entries, NEW value \in Values, SetConfig(b, e, value)
      PROVE  MemoryInv'
  BY <1>2, ConfigureRemembers DEF SetConfig
<1>3. ASSUME NEW b \in Bundles, ClearConfig(b)
      PROVE  MemoryInv'
  BY <1>3, ConfigureRemembers DEF ClearConfig
<1>4. CASE StageFails \/ Uninstall
  <2>1. /\ command.pc \in {"stage", "uninstall"}
        /\ UNCHANGED <<index, records, enabled, config, told, counts>>
    BY <1>4 DEF StageFails, Uninstall
  <2>2. command'.pc \in {"idle", "forget"}
    BY <1>4, IdleIsCommand DEF StageFails, Uninstall, PluginInv, TypeOK, Commands
  <2> QED BY <2>1, <2>2, SameMemory
<1> QED BY <1>1, <1>2, <1>3, <1>4, InstallRemembers, EnableRemembers, RemoveRemembers,
           PublishRemembers, StageRemembers, ActivateRemembers, CheckRemembers, SaveRemembers,
           ForgetRemembers, KilledRemembers DEF Next

LEMMA InitRemembers ==
  ASSUME Init
  PROVE  MemoryInv
<1>1. ASSUME NEW b \in Bundles, NEW e \in Entries
      PROVE  Agrees(b, e, records, config[e], told[e], index[b])
  BY NoRecordsIsBook DEF Init, Agrees, NoConfig
<1> QED BY <1>1, IdleIsCommand DEF Init, MemoryInv, Remembers
-----------------------------------------------------------------------------
(* The theorems. *)

LEMMA NextIsGood ==
  ASSUME PluginInv, Next
  PROVE  PluginInv'
<1>1. ASSUME NEW b \in Bundles, Disable(b)
      PROVE  PluginInv'
  BY <1>1, DeactivatesIsGood DEF Disable
<1>2. ASSUME NEW b \in Bundles, NEW e \in Entries, NEW value \in Values, SetConfig(b, e, value)
      PROVE  PluginInv'
  BY <1>2, ConfigureIsGood DEF SetConfig
<1>3. ASSUME NEW b \in Bundles, ClearConfig(b)
      PROVE  PluginInv'
  BY <1>3, ConfigureIsGood, PointsOfRecord DEF ClearConfig, EntryPoints, PluginInv, TypeOK
<1> QED BY <1>1, <1>2, <1>3, InstallIsGood, EnableIsGood, RemoveIsGood, PublishIsGood,
           StageIsGood, StageFailsIsGood, ActivateIsGood, CheckIsGood, SaveIsGood,
           UninstallIsGood, ForgetIsGood, KilledIsGood DEF Next

LEMMA InitIsGood ==
  ASSUME Init
  PROVE  PluginInv
<1>1. /\ records \in Books /\ command \in Commands
      /\ NoConfig \in Configs /\ 0 \in {0} \cup Versions /\ 1 \in Versions
  BY IdleIsCommand, NoRecordsIsBook, PluginAssumption DEF Init, NoConfig, Configs, Versions
<1>2. TypeOK
  BY <1>1 DEF Init, TypeOK, Configs
<1>3. RecordsSupported
  BY NoRecordsIsBook DEF Init, RecordsSupported
<1>4. CommandSound
  BY IdleIsCommand DEF Init, CommandSound
<1> QED BY <1>2, <1>3, <1>4 DEF PluginInv

\* The inductive invariant: types, supported records, and what each step of a command relies
\* on, whichever commands were killed before.
THEOREM Invariance == Spec => []PluginInv
<1>1. Init => PluginInv
  BY InitIsGood
<1>2. PluginInv /\ [Next]_vars => PluginInv'
  <2>1. ASSUME PluginInv, UNCHANGED vars
        PROVE  PluginInv'
    BY <2>1 DEF vars, PluginInv, TypeOK, RecordsSupported, CommandSound, Complete, Installed,
                Unneeded, Agreed
  <2> QED BY <2>1, NextIsGood
<1> QED BY <1>1, <1>2, PTL DEF Spec

\* Every variable of the plugin manager keeps its type, for every valid index.
THEOREM TypeCorrect == Spec => []TypeOK
<1>1. PluginInv => TypeOK
  BY DEF PluginInv
<1> QED BY <1>1, Invariance, PTL

\* install, disable and remove, killed or failing at any step, never leave an installed
\* bundle without its dependencies or an enabled record without its distribution.
THEOREM RecordsStaySound == Spec => []RecordsSupported
<1>1. PluginInv => RecordsSupported
  BY DEF PluginInv
<1> QED BY <1>1, Invariance, PTL

\* An install, enable or disable that ends well leaves plugins.json and the [cordis] table in
\* agreement on its bundles.
THEOREM SuccessAgrees == Spec => SuccessMeansAgreement
<1> DEFINE Agreement ==
      command.pc = "save" /\ command'.pc = "idle" /\ records' = command.save =>
        \A b \in command.on :
          /\ command.op \in {"install", "enable"} =>
               records'[b].enabled /\ Points[b][records'[b].version] \subseteq enabled
          /\ command.op = "disable" =>
               ~records'[b].enabled /\ Points[b][records'[b].version] \cap enabled = {}
<1>1. PluginInv => Agreement
  BY DEF PluginInv, CommandSound, Agreed
<1>2. PluginInv /\ [Next]_vars => [Agreement]_vars
  BY <1>1
<1> QED BY <1>2, Invariance, PTL DEF Spec, SuccessMeansAgreement

\* set_config is remembered, whatever is installed, upgraded, enabled, disabled, configured or
\* removed next to it, until it is set again, cleared or removed: of an index that brings no
\* entry point back that a version dropped, and as long as no command was killed.
THEOREM ConfigIsKept ==
  ASSUME StablePoints
  PROVE  Spec => []ConfigKept
<1>1. Init => MemoryInv
  BY InitRemembers
<1>2. PluginInv /\ MemoryInv /\ [Next]_vars => MemoryInv'
  <2>1. ASSUME MemoryInv, UNCHANGED vars
        PROVE  MemoryInv'
    BY <2>1 DEF vars, MemoryInv, SettingsValid
  <2> QED BY <2>1, NextRemembers
<1>3. PluginInv /\ MemoryInv => ConfigKept
  BY MemoryIsEnough
<1> QED BY <1>1, <1>2, <1>3, Invariance, PTL DEF Spec
=============================================================================

---------------------------- MODULE ConfigLayers ----------------------------
(***************************************************************************)
(* Loading the configuration (config/loader.py, config/models.py): the     *)
(* primary file and its includes, additional files, the environment and    *)
(* the command line are merged in that order over the defaults, validated, *)
(* and the layers that set each value are kept for "config explain".       *)
(*                                                                         *)
(* A tree is a function from the paths of its leaves to the leaves.  A     *)
(* leaf is a value and the layer that wrote it, with the directory a       *)
(* declared path was resolved against; the value "{}" is an empty table.   *)
(* A question is what one call of load_settings is given: the files, which *)
(* file is the primary one, and the other layers.                          *)
(***************************************************************************)
EXTENDS Integers, SequencesExt, TLC

CONSTANTS
  Directory,   \* the directory of each file
  Cwd,         \* the directory the process runs in
  Scalars,     \* paths of the settings that are not tables
  PathSettings,\* those that hold file system paths
  FreeTables,  \* paths of the tables with keys of the user's own
  Defaults,    \* the text of each default
  RemovedSections,
  Nothing      \* no primary file

Leaf(text, layer, base) == [is |-> text, by |-> layer, base |-> base]

\* What a layer writes: a declared path is resolved against the layer's directory.
Written(texts, layer, directory) ==
  [p \in DOMAIN texts |-> Leaf(texts[p], layer, IF p \in PathSettings THEN directory ELSE Nothing)]

NoTree == [p \in {} |-> Nothing]

-----------------------------------------------------------------------------
(* Trees. *)

\* Mutant: a table replaces the table below it.
Replaced(base, over) ==
  [p \in {q \in DOMAIN base : \A r \in DOMAIN over : r[1] # q[1]} \cup DOMAIN over |->
     IF p \in DOMAIN over THEN over[p] ELSE base[p]]

\* _deep_merge: tables are merged, anything else of the overlay replaces what base has there.
Merged(base, over) ==
  LET kept == {p \in DOMAIN base : \A q \in DOMAIN over :
                 ~IsPrefix(p, q) /\ (IsPrefix(q, p) => over[q].is = "{}")}
      taken == {q \in DOMAIN over :
                  over[q].is = "{}" => \A p \in DOMAIN base : ~IsStrictPrefix(q, p)}
  IN  [p \in kept \cup taken |-> IF p \in taken THEN over[p] ELSE base[p]]

\* _assign_nested: what is in the way of the path, or below it, goes.
Assigned(tree, p, leaf) ==
  [q \in {r \in DOMAIN tree : ~IsPrefix(r, p) /\ ~IsPrefix(p, r)} \cup {p} |->
     IF q = p THEN leaf ELSE tree[q]]

\* The paths the tracker marks: those of the leaves, or the root of an empty layer.
Marks(tree) == IF DOMAIN tree = {} THEN {<<>>} ELSE DOMAIN tree

-----------------------------------------------------------------------------
(* Files.  A load is a record of the tree read so far, the files loaded    *)
(* and being loaded, the layers the tracker was given and whether          *)
(* something is wrong.                                                     *)

NoLoad == [tree |-> NoTree, loaded |-> {}, active |-> <<>>, applied |-> <<>>, issues |-> {}]

\* The tracker is told of a layer before the layer is merged.
Applied(load, layer, tree) ==
  [load EXCEPT !.applied = Append(@, [layer |-> layer, marks |-> Marks(tree)])]

\* _parse_file: it can be read, is of a known format, and holds a table.
Readable(q, f) == q.files[f].readable

\* _load_file has nothing to say of a file that includes itself, was loaded before or cannot
\* be read and parsed: each is an issue.
Refused(q, f, load) ==
  Contains(load.active, f) \/ f \in load.loaded \/ ~Readable(q, f)

ConfigVersion == <<"config_version">>

RECURSIVE LoadFile(_, _, _, _)

\* _load_includes: each included file over those before it.
LoadIncludes(q, f, load) ==
  LET Include(l, g) ==
        LET one == LoadFile(q, g, FALSE, l) IN [one EXCEPT !.tree = Merged(l.tree, one.tree)]
  IN  FoldLeft(Include, [load EXCEPT !.tree = NoTree], q.files[f].include)

\* _load_file: the file's own values over those of the files it includes.
LoadFile(q, f, root, load) ==
  IF Refused(q, f, load)
  THEN [load EXCEPT !.tree = NoTree, !.issues = @ \cup {"file"}]
  ELSE LET own == Written(q.files[f].sets, f, Directory[f])
           unversioned == root /\ (ConfigVersion \in DOMAIN own => own[ConfigVersion].is # "7")
           included == LoadIncludes(q, f,
                         [load EXCEPT !.loaded = @ \cup {f}, !.active = Append(@, f),
                                      !.issues = @ \cup IF unversioned THEN {"version"} ELSE {}])
       IN  [Applied(included, f, own) EXCEPT !.tree = Merged(included.tree, own),
                                             !.active = load.active]

-----------------------------------------------------------------------------
(* The other layers. *)

\* One LITEYUKI__SECTION__FIELD variable, or one KEY=VALUE of the command line, after another.
\* An override without a path is an issue.
Overrides(sets, layer, base) ==
  LET Set(tree, o) ==
        LET leaf == Written(o.path :> o.is, layer, base)
        IN  IF o.path = <<>> THEN tree
            ELSE IF o.merge THEN Merged(tree, leaf) ELSE Assigned(tree, o.path, leaf[o.path])
  IN  FoldLeft(Set, NoTree, sets)

OverrideIssues(sets) == IF \E i \in DOMAIN sets : sets[i].path = <<>> THEN {"override"} ELSE {}

PathBase(q) == IF q.primary = Nothing THEN Cwd ELSE Directory[q.primary]

AddOverrides(q, layer, sets, load) ==
  LET values == Overrides(sets, layer, PathBase(q))
  IN  [Applied(load, layer, values) EXCEPT !.tree = Merged(load.tree, values),
                                           !.issues = @ \cup OverrideIssues(sets)]

AddFile(q, f, root, load) ==
  LET one == LoadFile(q, f, root, load) IN [one EXCEPT !.tree = Merged(load.tree, one.tree)]

\* _load_settings up to the validation; inspect_settings has told the tracker of the defaults.
LoadLayers(q) ==
  LET start == Applied(NoLoad, "default", Defaults)
      primary == IF q.primary = Nothing THEN start ELSE AddFile(q, q.primary, TRUE, start)
      files == FoldLeft(LAMBDA l, f : AddFile(q, f, FALSE, l), primary, q.extra)
  IN  AddOverrides(q, "cli", q.cli, AddOverrides(q, "env", q.env, files))

-----------------------------------------------------------------------------
(* Validation. *)

SettingPaths == Scalars \cup FreeTables

\* The model forbids settings it does not name, and a table where it wants a value.
Known(p, tree) ==
  \/ p \in Scalars /\ tree[p].is # "{}"
  \/ tree[p].is = "{}" /\ \E s \in SettingPaths : IsPrefix(p, s) /\ p \notin Scalars
  \/ \E t \in FreeTables : IsStrictPrefix(t, p)

TextOf(tree, p) == IF p \in DOMAIN tree THEN tree[p].is ELSE "none"

CordisConfig == <<"cordis", "config">>

\* cordis.config speaks only of plugins that cordis.enabled names.
PluginsEnabled(tree) ==
  \A p \in DOMAIN tree :
    IsStrictPrefix(CordisConfig, p) => p[3] = TextOf(tree, <<"cordis", "enabled">>)

DataDir == <<"core", "data_dir">>
LogFile == <<"logging", "file">>

\* Full payloads are logged only into a file below the data directory.
PayloadPolicy(tree) ==
  TextOf(tree, <<"logging", "payload_mode">>) = "full" =>
    /\ TextOf(tree, LogFile) # "none"
    /\ TextOf(tree, <<"logging", "console">>) = "off"
    /\ tree[LogFile].is = "data/log" /\ tree[DataDir].is = "data"
    /\ tree[LogFile].base = tree[DataDir].base

ValidSettings(tree) ==
  /\ \A p \in DOMAIN tree : p[1] \notin RemovedSections /\ Known(p, tree)
  /\ TextOf(tree, ConfigVersion) = "7"
  /\ PluginsEnabled(tree) /\ PayloadPolicy(tree)

\* inspect_settings: the settings and the chains, or nothing but the fact that it raises.
InspectSettings(q) ==
  LET load == LoadLayers(q)
      settings == Merged(Written(Defaults, "default", Cwd), load.tree)
  IN  [ok |-> load.issues = {} /\ ValidSettings(settings),
       settings |-> settings, applied |-> load.applied]

-----------------------------------------------------------------------------
(* Explaining. *)

\* The chain of a path: the layers that marked it, in the order the tracker met them.
Chain(answer, p) ==
  LET marking == SelectSeq(answer.applied, LAMBDA a : p \in a.marks)
  IN  [i \in DOMAIN marking |-> marking[i].layer]

\* ConfigProvenance.explain: the layers of the path itself, or else of everything below it.
Explain(answer, p) ==
  IF Chain(answer, p) # <<>> THEN ToSet(Chain(answer, p))
  ELSE UNION {ToSet(Chain(answer, d)) : d \in {m \in UNION {a.marks : a \in ToSet(answer.applied)} :
                                                 IsPrefix(p, m)}}

\* _value_at_pointer: a value, or the table of all values below p.
ValueAt(settings, p) == [r \in {s \in DOMAIN settings : IsPrefix(p, s)} |-> settings[r]]

\* ConfigInspection.explain: the value at a path and its layers; it raises where there is none.
Explanation(answer, p) ==
  LET value == ValueAt(answer.settings, p)
  IN  IF DOMAIN value = {} \/ Explain(answer, p) = {} THEN Nothing
      ELSE [value |-> value, sources |-> Explain(answer, p)]
=============================================================================

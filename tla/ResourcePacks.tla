----------------------------- MODULE ResourcePacks -----------------------------
(***************************************************************************)
(* Resource packs (resource_packs.py): a process loads the packs that its  *)
(* workspace lists, file by file, while an editor changes them and the     *)
(* manifests are written anew.                                             *)
(*                                                                         *)
(* The content of a file stands for its bytes and its digest.  A manifest  *)
(* is what it says of each file, and whether its own digest is right.      *)
(*                                                                         *)
(* A translator (i18n.py) is made of a catalogue: which locale is          *)
(* selected, which entries each language has, and what a key is translated *)
(* to.                                                                     *)
(***************************************************************************)
EXTENDS Integers, SequencesExt

CONSTANTS
  Shipped,     \* the packs that come with the program, in load order: origins and files
  Packs,       \* the packs of the workspace
  Zips,        \* those that are archives
  Edits,       \* what an editor may write: paths and contents
  Workspaces,  \* what the resources of the workspace may be at first
  PackId,      \* the id that metadata of some content gives: only contents that are metadata
  Icon,        \* the icon path that metadata of some content gives, or Gone
  Alpha,       \* the contents that are square PNGs with an alpha channel
  Size,        \* the bytes of a content
  MaxFileBytes, MaxPackBytes, MaxCatalogBytes, MaxFiles, MaxPacks,
  MaxEdits, MaxLoads, \* bounds of the model: edits, and loads of the catalogue
  Gone,        \* no file, manifest, pack or catalogue
  LanguageFiles, \* the language files of a pack, by their names, in path order
  Entries,       \* the keys and texts that content of a language file gives: only contents
                 \* that _parse_lang accepts
  Malformed,     \* instead of a translator: some content is refused
  Requested, Detected, \* the locales that are asked for, and that the system has
  Keys           \* the keys that are translated

IsFunction(f) == f = [x \in DOMAIN f |-> f[x]]

\* The origin of a pack that comes with the program is no name in the workspace.
ASSUME PackAssumption ==
  /\ Zips \subseteq Packs
  /\ {MaxEdits, MaxLoads, MaxCatalogBytes} \subseteq Nat
  /\ Shipped \in Seq(ToSet(Shipped)) /\ \A i \in DOMAIN Shipped : Shipped[i].origin \notin Packs
  /\ LanguageFiles \in Seq(ToSet(LanguageFiles))
  /\ \A w \in Workspaces :
       w.trees = [p \in Packs |-> w.trees[p]] /\ \A p \in Packs : IsFunction(w.trees[p])

VARIABLES
  trees,       \* the files of each pack but its manifest, by path
  manifests,   \* the manifest of each pack
  faults,      \* what is wrong with an archive as an archive
  index,       \* index.json
  writer,      \* the pack a manifest is being written for, and the files read so far
  loader,      \* where the load of a catalogue is
  catalog,     \* the catalogue in use
  published,   \* the trees that some manifest of each pack was written for
  translator,  \* the translator made of a catalogue in use
  edits, loads

packVars == <<trees, manifests, faults, index, writer, loader, catalog, published, translator,
              edits, loads>>

Metadata == "metadata.yml"

\* dict.update.
Update(old, new) ==
  [k \in DOMAIN old \cup DOMAIN new |-> IF k \in DOMAIN new THEN new[k] ELSE old[k]]

With(files, path, content) == Update(files, [p \in {path} |-> content])

-----------------------------------------------------------------------------
(* What is checked of the files that were read. *)

Bytes(files) == FoldFunctionOnSet(LAMBDA c, n : Size[c] + n, 0, files, DOMAIN files)

\* _validate_resource_budget, for all files of a pack.
WithinBudget(files) ==
  /\ \A p \in DOMAIN files : Size[files[p]] <= MaxFileBytes
  /\ Cardinality(DOMAIN files) <= MaxFiles /\ Bytes(files) <= MaxPackBytes

\* Mutant: a file that the manifest does not name is let through.
VerifyNamed(files, manifest) ==
  /\ manifest # Gone
  /\ manifest.sealed
  /\ DOMAIN manifest.digests \subseteq DOMAIN files
  /\ \A p \in DOMAIN manifest.digests : files[p] = manifest.digests[p]

\* _verify_manifest: the manifest is well formed, and names these files and no others.
VerifyManifest(files, manifest) ==
  /\ manifest # Gone
  /\ manifest.sealed
  /\ DOMAIN manifest.digests = DOMAIN files
  /\ \A p \in DOMAIN files : files[p] = manifest.digests[p]

\* _validate_icon.
ValidIcon(metadata, files) ==
  Icon[metadata] # Gone => Icon[metadata] \in DOMAIN files /\ files[Icon[metadata]] \in Alpha

\* _read_metadata: other contents raise.
IsMetadata(content) == content \in DOMAIN PackId

Acceptable(metadata, files, manifest) ==
  WithinBudget(files) /\ VerifyManifest(files, manifest) /\ ValidIcon(metadata, files)

\* A manifest as it is written for these files.
Sealed(files) == [digests |-> files, sealed |-> TRUE]

Pack(origin, metadata, files) == [origin |-> origin, id |-> PackId[metadata], files |-> files]

\* total_bytes after these packs.
TotalBytes(packs) ==
  LET total[i \in 0 .. Len(packs)] == IF i = 0 THEN 0 ELSE total[i - 1] + Bytes(packs[i].files)
  IN  total[Len(packs)]

\* _append_catalog_pack.
Fits(packs, files) ==
  /\ Len(packs) < MaxPacks
  /\ TotalBytes(packs) + Bytes(files) <= MaxCatalogBytes

\* ResourceCatalog: no two packs have one id.
DistinctIds(packs) == IsInjective([i \in DOMAIN packs |-> packs[i].id])

\* A dictionary updated with each of these in turn.
Updated(updates) ==
  LET result[i \in 0 .. Len(updates)] == IF i = 0 THEN <<>> ELSE Update(result[i - 1], updates[i])
  IN  result[Len(updates)]

\* get, of the files of a catalogue.
FileAt(packs, path) ==
  LET files == Updated([i \in DOMAIN packs |-> packs[i].files])
  IN  IF path \in DOMAIN files THEN files[path] ELSE Gone

-----------------------------------------------------------------------------
(* Loading. *)

Idle == [pc |-> "idle", packs |-> <<>>, names |-> <<>>, metadata |-> Gone,
         todo |-> {}, files |-> <<>>, manifest |-> Gone]

LoadFailed == loader' = Idle /\ UNCHANGED catalog

\* _load_traversable: a pack that comes with the program; nobody changes it or its manifest.
Sound(pack) ==
  /\ Metadata \in DOMAIN pack.files /\ IsMetadata(pack.files[Metadata])
  /\ Acceptable(pack.files[Metadata], pack.files, Sealed(pack.files))

ShippedPacks == [i \in DOMAIN Shipped |-> Pack(Shipped[i].origin, Shipped[i].files[Metadata], Shipped[i].files)]

\* load, or reload of a catalogue in use, with the packs shipped with the program.
StartLoad ==
  /\ loader = Idle /\ loads < MaxLoads
  /\ loads' = loads + 1
  /\ IF \A i \in DOMAIN Shipped : Sound(Shipped[i]) /\ Fits(SubSeq(Shipped, 1, i - 1), Shipped[i].files)
     THEN loader' = [Idle EXCEPT !.pc = "index", !.packs = ShippedPacks] /\ UNCHANGED catalog
     ELSE LoadFailed
  /\ UNCHANGED <<trees, manifests, faults, index, writer, published, translator, edits>>

\* _load_workspace_packs, up to the first pack; an index that is no list of names raises.
ReadIndex ==
  /\ loader.pc = "index"
  /\ IF index.readable /\ IsInjective(index.names) /\ Len(index.names) <= MaxPacks
     THEN loader' = [loader EXCEPT !.pc = "open", !.names = index.names] /\ UNCHANGED catalog
     ELSE LoadFailed
  /\ UNCHANGED <<trees, manifests, faults, index, writer, published, translator, edits, loads>>

\* A pack that was read: it joins the others, or the load ends.
PackRead(name, metadata, files, manifest) ==
  IF Acceptable(metadata, files, manifest) /\ Fits(loader.packs, files)
  THEN loader' = [loader EXCEPT !.pc = "open", !.names = Tail(@), !.metadata = Gone, !.todo = {},
                                !.files = <<>>, !.manifest = Gone,
                                !.packs = Append(@, Pack(name, metadata, files))] /\ UNCHANGED catalog
  ELSE LoadFailed

\* _load_directory up to the walk: metadata.yml is read on its own, before all files.
OpenDirectory ==
  /\ loader.pc = "open" /\ loader.names # <<>> /\ Head(loader.names) \in Packs \ Zips
  /\ LET name == Head(loader.names)
     IN  IF Metadata \in DOMAIN trees[name] /\ IsMetadata(trees[name][Metadata])
         THEN /\ loader' = [loader EXCEPT !.pc = "walk", !.metadata = trees[name][Metadata],
                                          !.todo = DOMAIN trees[name] \cup {"manifest"}]
              /\ UNCHANGED catalog
         ELSE LoadFailed
  /\ UNCHANGED <<trees, manifests, faults, index, writer, published, translator, edits, loads>>

\* One file of the walk; one that is gone since raises.
ReadFile(path) ==
  LET name == Head(loader.names)
  IN  /\ loader.pc = "walk" /\ path \in loader.todo
      /\ IF path = "manifest"
         THEN /\ loader' = [loader EXCEPT !.todo = @ \ {path}, !.manifest = manifests[name]]
              /\ UNCHANGED catalog
         ELSE IF path \in DOMAIN trees[name]
         THEN /\ loader' = [loader EXCEPT !.todo = @ \ {path}, !.files = With(@, path, trees[name][path])]
              /\ UNCHANGED catalog
         ELSE LoadFailed
      /\ UNCHANGED <<trees, manifests, faults, index, writer, published, translator, edits, loads>>

\* The end of _load_directory.
CloseDirectory ==
  /\ loader.pc = "walk" /\ loader.todo = {}
  /\ PackRead(Head(loader.names), loader.metadata, loader.files, loader.manifest)
  /\ UNCHANGED <<trees, manifests, faults, index, writer, published, translator, edits, loads>>

\* _validate_zip_directory_budget and the entries of an archive: entries twice, links, lies about
\* sizes and extreme ratios raise.
SoundArchive(name) == faults[name] = {}

\* _load_zip: an archive is read as one.
ReadZip ==
  /\ loader.pc = "open" /\ loader.names # <<>> /\ Head(loader.names) \in Zips
  /\ LET name == Head(loader.names)
     IN  IF SoundArchive(name) /\ Metadata \in DOMAIN trees[name] /\ IsMetadata(trees[name][Metadata])
         THEN PackRead(name, trees[name][Metadata], trees[name], manifests[name])
         ELSE LoadFailed
  /\ UNCHANGED <<trees, manifests, faults, index, writer, published, translator, edits, loads>>

\* A name of the index that is no pack.
UnknownName ==
  /\ loader.pc = "open" /\ loader.names # <<>> /\ Head(loader.names) \notin Packs
  /\ LoadFailed
  /\ UNCHANGED <<trees, manifests, faults, index, writer, published, translator, edits, loads>>

\* The catalogue is put together, and replaces the one in use.
FinishLoad ==
  /\ loader.pc = "open" /\ loader.names = <<>>
  /\ loader' = Idle
  /\ catalog' = IF DistinctIds(loader.packs) THEN loader.packs ELSE catalog
  /\ UNCHANGED <<trees, manifests, faults, index, writer, published, translator, edits, loads>>

-----------------------------------------------------------------------------
(* The editor, and write_resource_manifest. *)

Edit(pack, path, content) ==
  /\ edits < MaxEdits /\ edits' = edits + 1
  /\ trees' = [trees EXCEPT ![pack] =
                 IF content = Gone THEN [p \in DOMAIN @ \ {path} |-> @[p]] ELSE With(@, path, content)]
  /\ UNCHANGED <<manifests, faults, index, writer, loader, catalog, published, translator, loads>>

\* The editor touches the manifest itself, and does not reseal it.
Tamper(pack, path, content) ==
  /\ edits < MaxEdits /\ edits' = edits + 1
  /\ manifests[pack] # Gone
  /\ manifests' = [manifests EXCEPT ![pack] =
                     [digests |-> With(@.digests, path, content), sealed |-> FALSE]]
  /\ UNCHANGED <<trees, faults, index, writer, loader, catalog, published, translator, loads>>

\* write_resource_manifest lists the files of a pack.
BeginManifest(pack) ==
  /\ writer = Gone /\ edits < MaxEdits /\ edits' = edits + 1
  /\ writer' = [pack |-> pack, todo |-> DOMAIN trees[pack], files |-> <<>>]
  /\ UNCHANGED <<trees, manifests, faults, index, loader, catalog, published, translator, loads>>

\* It reads one; a file that is gone, or one too many, raises.
ListFile(path) ==
  /\ writer # Gone
  /\ path \in writer.todo
  /\ LET tree == trees[writer.pack]
         files == With(writer.files, path, tree[path])
     IN  writer' = IF path \notin DOMAIN tree THEN Gone
                   ELSE IF WithinBudget(files)
                   THEN [writer EXCEPT !.todo = @ \ {path}, !.files = files] ELSE Gone
  /\ UNCHANGED <<trees, manifests, faults, index, loader, catalog, published, translator, edits, loads>>

\* It writes what it read.
WriteManifest ==
  /\ writer # Gone
  /\ writer.todo = {}
  /\ manifests' = [manifests EXCEPT ![writer.pack] = Sealed(writer.files)]
  /\ published' = [published EXCEPT ![writer.pack] = @ \cup {writer.files}]
  /\ writer' = Gone
  /\ UNCHANGED <<trees, faults, index, loader, catalog, translator, edits, loads>>

-----------------------------------------------------------------------------
(* The texts of the language files of a catalogue. *)

DefaultLocale == "en-US"
SupportedLocales == {"en-US", "zh-CN"}

\* normalize_locale.
NormalizeLocale(value) ==
  CASE value = "en" -> "en-US" [] value \in {"zh", "zh-Hans"} -> "zh-CN" [] OTHER -> value

\* system_locale.
SystemLocale(detected) ==
  IF NormalizeLocale(detected) \in SupportedLocales THEN NormalizeLocale(detected) ELSE DefaultLocale

\* select_locale: a terminal without Chinese fonts changes what is selected by itself, not what
\* was asked for.
SelectLocale(requested, detected, cjk) ==
  LET automatic == requested = "auto"
      wanted == IF automatic THEN SystemLocale(detected) ELSE NormalizeLocale(requested)
      selected == IF wanted \in SupportedLocales THEN wanted ELSE DefaultLocale
  IN  IF selected = "zh-CN" /\ ~cjk /\ automatic THEN DefaultLocale ELSE selected

Selected == {SelectLocale(r, d, cjk) : r \in Requested, d \in Detected, cjk \in BOOLEAN}

\* One malformed file of any pack is enough: there is no translator.
Translatable(packs) ==
  \A i \in DOMAIN packs : \A k \in DOMAIN LanguageFiles :
    LanguageFiles[k].path \in DOMAIN packs[i].files =>
      packs[i].files[LanguageFiles[k].path] \in DOMAIN Entries

\* What the k-th language file of a pack adds to a language.
EntriesOf(files, locale, k) ==
  IF LanguageFiles[k].path \in DOMAIN files /\ NormalizeLocale(LanguageFiles[k].locale) = locale
  THEN Entries[files[LanguageFiles[k].path]] ELSE <<>>

\* What a pack adds to it, by the order of its paths.
EntriesOfPack(files, locale) == Updated([k \in DOMAIN LanguageFiles |-> EntriesOf(files, locale, k)])

\* from_resources: each language, pack after pack.
Catalogs(packs) ==
  [l \in SupportedLocales |-> Updated([i \in DOMAIN packs |-> EntriesOfPack(packs[i].files, l)])]

\* text_for.
TextFor(made, locale, key) ==
  LET asked == NormalizeLocale(locale)
      selected == IF asked \in SupportedLocales THEN asked ELSE made.locale
  IN  IF key \in DOMAIN made.catalogs[selected] THEN made.catalogs[selected][key]
      ELSE IF key \in DOMAIN made.catalogs[DefaultLocale] THEN made.catalogs[DefaultLocale][key]
      ELSE key

\* from_resources, of the catalogue in use; the translator remembers here what it was made of.
Translate(locale) ==
  /\ catalog # Gone
  /\ translator' =
       IF ~Translatable(catalog) THEN Malformed
       ELSE [locale |-> locale, catalogs |-> Catalogs(catalog), packs |-> catalog]
  /\ UNCHANGED <<trees, manifests, faults, index, writer, loader, catalog, published, edits, loads>>

-----------------------------------------------------------------------------
PackInit(workspace) ==
  /\ index = workspace.index /\ trees = workspace.trees /\ faults = workspace.faults
  /\ manifests = [p \in Packs |-> Sealed(trees[p])]
  /\ published = [p \in Packs |-> {trees[p]}]
  /\ writer = Gone /\ loader = Idle /\ catalog = Gone /\ translator = Gone /\ edits = 0 /\ loads = 0

PackNext ==
  \/ StartLoad \/ ReadIndex \/ OpenDirectory \/ CloseDirectory \/ ReadZip \/ UnknownName \/ FinishLoad
  \/ \E path \in loader.todo : ReadFile(path)
  \/ \E pack \in Packs \ Zips, e \in Edits : Edit(pack, e.path, e.content) \/ Tamper(pack, e.path, e.content)
  \/ \E pack \in Packs \ Zips : BeginManifest(pack)
  \/ writer # Gone /\ \E path \in writer.todo : ListFile(path)
  \/ WriteManifest
  \/ \E locale \in Selected : Translate(locale)

PackSpec == (\E w \in Workspaces : PackInit(w)) /\ [][PackNext]_packVars

-----------------------------------------------------------------------------
(* What a catalogue promises. *)

\* The language files with something to say of a key, in the order of packs and paths.
Speaking(packs, locale, key) ==
  {x \in (DOMAIN packs) \X (DOMAIN LanguageFiles) :
     LET file == LanguageFiles[x[2]]
     IN  /\ file.path \in DOMAIN packs[x[1]].files /\ NormalizeLocale(file.locale) = locale
         /\ key \in DOMAIN Entries[packs[x[1]].files[file.path]]}

\* What the last of them says.
Spoken(packs, locale, key) ==
  LET all == Speaking(packs, locale, key)
      top == CHOOSE x \in all : \A y \in all : x[1] > y[1] \/ (x[1] = y[1] /\ x[2] >= y[2])
  IN  Entries[packs[top[1]].files[LanguageFiles[top[2]].path]][key]

\* A key is translated by the last pack that has it in the language, then in the default one.
SpeaksFor(packs, own, locale, key) ==
  LET selected == IF NormalizeLocale(locale) \in SupportedLocales THEN NormalizeLocale(locale) ELSE own
  IN  IF Speaking(packs, selected, key) # {} THEN Spoken(packs, selected, key)
      ELSE IF Speaking(packs, DefaultLocale, key) # {} THEN Spoken(packs, DefaultLocale, key)
      ELSE key

\* A catalogue in use, loaded again or not, holds only packs as some manifest was written for
\* them, however the files changed while they were read, each pack once and within its
\* budget; a path and a translation come from the last pack that has them.  This is about the
\* files a manifest lists: id and icon come from a metadata.yml that is read apart from them,
\* and the manifest itself counts for no budget.
\* (_load_directory, _verify_manifest, ResourceCatalog, reload, from_resources, text_for.)
CatalogueIsWhole ==
  /\ catalog # Gone =>
       /\ \A i \in DOMAIN catalog :
            /\ catalog[i].origin \in Packs => catalog[i].files \in published[catalog[i].origin]
            /\ Bytes(catalog[i].files) <= MaxPackBytes
            /\ \A j \in DOMAIN catalog : i # j => catalog[i].id # catalog[j].id
            /\ \A path \in DOMAIN catalog[i].files :
                 (\A j \in i + 1 .. Len(catalog) : path \notin DOMAIN catalog[j].files) =>
                   FileAt(catalog, path) = catalog[i].files[path]
       /\ TotalBytes(catalog) <= MaxCatalogBytes
  /\ translator \notin {Gone, Malformed} =>
       \A key \in Keys, l \in Requested :
         TextFor(translator, l, key) = SpeaksFor(translator.packs, translator.locale, l, key)
=============================================================================

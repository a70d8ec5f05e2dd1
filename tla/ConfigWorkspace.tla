--------------------------- MODULE ConfigWorkspace --------------------------
(***************************************************************************)
(* The files of a workspace directory (config/workspace.py): liteyuki.toml *)
(* and the resource index, which init creates and never replaces, and the  *)
(* backups and the template that are left beside a configuration of        *)
(* another version.  An action is what a process does up to its next       *)
(* change of a file.                                                       *)
(*                                                                         *)
(* A configuration is what prepare tells apart: "absent"; "partial", a     *)
(* file that init has opened and not written; "missing", "old", "current"  *)
(* and "newer" by its config_version; "unparsable"; "link"; "folder".      *)
(***************************************************************************)
EXTENDS Machine

CONSTANT
  Docker       \* the processes that run in a container

VARIABLES
  files,       \* what is in each directory
  work         \* where each process is, and how its last operation ended

workspaceVars == <<files, work>>

NoWork == [pc |-> "none", dir |-> "none", refresh |-> FALSE, result |-> "none"]

Configurations == {"absent", "partial", "missing", "old", "current", "newer", "unparsable",
                   "link", "folder"}

\* A directory that init has not seen.
Fresh(config, resources, index) ==
  [config |-> config, resources |-> resources, index |-> index, backups |-> {},
   template |-> FALSE]

InitWorkspace(situations) ==
  /\ files \in [Dirs -> situations]
  /\ work = [p \in Processes |-> NoWork]

Here(p) == files[work[p].dir]

Ends(p, result) == work' = [work EXCEPT ![p] = [NoWork EXCEPT !.dir = work[p].dir, !.result = result]]

Goes(p, pc) == work' = [work EXCEPT ![p].pc = pc]

Begins(p, d, pc) ==
  /\ work[p].pc = "none"
  /\ work' = [work EXCEPT ![p] = [NoWork EXCEPT !.pc = pc, !.dir = d]]
  /\ UNCHANGED files

-----------------------------------------------------------------------------
(* initialize *)

\* The checks that come before any change.
InitCheck(p) ==
  /\ work[p].pc = "init"
  /\ IF /\ Here(p).config = "absent"
        /\ Here(p).resources \in {"absent", "folder"}
        /\ Here(p).index \in {"absent", "file"}
     THEN Goes(p, "create")
     ELSE Ends(p, "raised")
  /\ UNCHANGED files

\* Mutant: an existing file is opened and truncated.
Opens(p) == TRUE

\* The file is opened for exclusive creation.
CreatedByUs(p) == Here(p).config = "absent"

CreateConfig(p) ==
  /\ work[p].pc = "create"
  /\ IF CreatedByUs(p)
     THEN /\ files' = [files EXCEPT ![work[p].dir].config = "partial"]
          /\ Goes(p, "write")
     ELSE Ends(p, "raised") /\ UNCHANGED files

WriteConfig(p) ==
  /\ work[p].pc = "write"
  /\ files' = [files EXCEPT ![work[p].dir].config = "current"]
  /\ Goes(p, "resources")

MakeResources(p) ==
  /\ work[p].pc = "resources"
  /\ files' = [files EXCEPT ![work[p].dir].resources = IF @ = "absent" THEN "folder" ELSE @]
  /\ IF Here(p).resources \in {"absent", "folder"} THEN Goes(p, "index") ELSE Ends(p, "raised")

\* An index that is there is kept.
CreateIndex(p) ==
  /\ work[p].pc = "index"
  /\ files' = [files EXCEPT ![work[p].dir].index = IF @ = "absent" THEN "file" ELSE @]
  /\ Ends(p, IF Here(p).index \in {"absent", "file"} THEN "initialized" ELSE "raised")

-----------------------------------------------------------------------------
(* prepare and upgrade *)

Outdated == {"partial", "missing", "old"}

\* prepare looks at the configuration; upgrade, which never creates one, does the same.
Inspect(p) ==
  /\ work[p].pc \in {"prepare", "upgrade"}
  /\ \/ Here(p).config = "current" /\ Ends(p, "prepared")
     \/ /\ Here(p).config = "absent" /\ work[p].pc = "prepare" /\ p \in Docker
        /\ Goes(p, "init")
     \/ /\ Here(p).config = "absent" /\ (work[p].pc = "upgrade" \/ p \notin Docker)
        /\ Ends(p, "raised")
     \/ Here(p).config \in {"newer", "unparsable", "link", "folder"} /\ Ends(p, "raised")
     \/ /\ Here(p).config \in Outdated
        /\ work' = [work EXCEPT ![p].pc = "material", ![p].refresh = work[p].pc = "upgrade"]
  /\ UNCHANGED files

\* _write_upgrade_material: the template that is there is enough, unless it is refreshed.
Material(p) ==
  /\ work[p].pc = "material"
  /\ IF Here(p).template /\ ~work[p].refresh
     THEN Ends(p, "upgrade required")
     ELSE Goes(p, "backup")
  /\ UNCHANGED files

\* Mutant: nothing is copied.
NothingCopied(p) == Here(p).backups

Copied(p) == Here(p).backups \cup {Here(p).config}

Backup(p) ==
  /\ work[p].pc = "backup"
  /\ files' = [files EXCEPT ![work[p].dir].backups = Copied(p)]
  /\ Goes(p, "template")

WriteTemplate(p) ==
  /\ work[p].pc = "template"
  /\ files' = [files EXCEPT ![work[p].dir].template = TRUE]
  /\ Ends(p, "upgrade required")

-----------------------------------------------------------------------------
WorkFails(p) ==
  /\ work[p].pc \in {"create", "resources", "index", "backup", "template"}
  /\ Ends(p, "raised")
  /\ UNCHANGED files

KillWork(p) == work' = [work EXCEPT ![p] = NoWork]

\* The user merges the template into the configuration.
Merge(d) ==
  /\ files[d].config \in Outdated /\ files[d].template
  /\ files' = [files EXCEPT ![d].config = "current"]
  /\ UNCHANGED work

WorkStep(p) ==
  \/ InitCheck(p) \/ CreateConfig(p) \/ WriteConfig(p) \/ MakeResources(p) \/ CreateIndex(p)
  \/ Inspect(p) \/ Material(p) \/ Backup(p) \/ WriteTemplate(p) \/ WorkFails(p)
=============================================================================

--------------------------- MODULE MCCommandLine ----------------------------
(***************************************************************************)
(* Instances of CommandLine for TLC.                                       *)
(***************************************************************************)
EXTENDS CommandLine

CONSTANTS d1, d2

LowerCase == [bot |-> "bot", Bot |-> "bot", dev |-> "dev", bad |-> "bad"]

Add(n, d, force) == [kind |-> "add", name |-> n, path |-> d, force |-> force]
Use(n) == [kind |-> "use", name |-> n]
Remove(n) == [kind |-> "remove", name |-> n]
At(kind, d) == [kind |-> kind, by |-> "path", path |-> d]
By(kind, how, n) == [kind |-> kind, by |-> how, name |-> n, path |-> d1]

\* A nickname that is registered twice, moved, chosen and removed in two spellings, one that
\* the pattern refuses, and every way to select a directory.
SomeCommands ==
  {Add("bot", d1, FALSE), Add("Bot", d2, TRUE), Add("dev", d2, FALSE), Use("bot"), Use("dev"),
   Remove("Bot"), Add("bad", d1, FALSE),
   At("init", d1), At("check", d1), At("upgrade", d1), By("check", "nothing", "dev"),
   By("init", "instance", "bot"), By("check", "word", "dev")}

OneBot == [records |-> [bot |-> [name |-> "bot", path |-> d2]], default |-> "Bot"]
SomeBooks == {NoRegistry, OneBot}

\* A new directory, one of an older version, one with links, and configurations that prepare
\* refuses.
SomeSituations ==
  {Fresh("absent", "absent", "absent"), Fresh("absent", "link", "absent"),
   Fresh("absent", "folder", "folder"), Fresh("old", "folder", "file"),
   Fresh("missing", "absent", "absent"), Fresh("newer", "folder", "file")}
=============================================================================

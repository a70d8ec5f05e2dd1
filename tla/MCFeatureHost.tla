---------------------------- MODULE MCFeatureHost -----------------------------
(* The router with commands of its own, the profile feature and a plugin whose commands extend
   one path of the resource.  The router may take a path of the resource first, which is then
   refused by the second registry, and the second command of the plugin may clash. *)
EXTENDS FeatureHostProps

CONSTANTS router, profile, extra, e1, e2

AllWords == {"profile", "set", "Set", "delete", "all", "help", "Help", "nick", "lang", "v", "/x"}
LowerCase == [w \in AllWords |-> CASE w = "Help" -> "help" [] w = "Set" -> "set" [] OTHER -> w]
PrefixWords == {"/x"}
ChainOfThree == <<router, profile, extra>>

ProfileResource == [name |-> "profile", path |-> <<>>, fields |-> {"nick", "lang"}, needs |-> "manage"]
HelpCommand == [name |-> "Help", aliases |-> {"all"}, path |-> <<>>, permission |-> "public"]
DeleteCommand == [name |-> "delete", aliases |-> {}, path |-> <<"profile">>, permission |-> "public"]
AllCommand == [name |-> "all", aliases |-> {}, path |-> <<"profile", "set">>, permission |-> "admin"]
LangCommand == [name |-> "lang", aliases |-> {"help"}, path |-> <<>>, permission |-> "public"]

Scripts ==
  router :> <<[do |-> "handler", order |-> -1],
              [do |-> "commands", batches |-> {<<HelpCommand>>, <<HelpCommand, DeleteCommand>>}]>>
  @@ profile :> <<[do |-> "storage", resource |-> ProfileResource]>>
  @@ extra :> <<[do |-> "handler", order |-> -2], [do |-> "own"],
                [do |-> "commands", batches |-> {<<AllCommand>>, <<AllCommand, LangCommand>>}]>>

Line(tokens, own, field) == [prefixed |-> TRUE, spaced |-> FALSE, tokens |-> tokens, valid |-> TRUE,
                      own |-> own, field |-> field, value |-> "v"]
Lines == {Line(<<"profile", "set", "nick">>, TRUE, "nick"),
          Line(<<"profile", "delete">>, TRUE, "lang"),
          Line(<<"profile", "set", "all">>, FALSE, "lang")}
LineTails == {<<>>, <<"Set", "all", "v">>, <<"nick">>}
Defaults == [f \in {"nick", "lang"} |-> "d"]
===============================================================================

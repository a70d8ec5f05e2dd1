------------------------------- MODULE MCInputs -------------------------------
(* Small questions for Inputs. *)
EXTENDS InputsProps

-----------------------------------------------------------------------------
(* Configuration: three files in two directories.  The plugin table takes a   *)
(* value of its own and a table, so that layers can disagree about a shape.   *)

MCDirectory == [main |-> "home", a |-> "sub", b |-> "home"]

Enabled == <<"cordis", "enabled">>
PluginTable == <<"cordis", "config", "p">>
PluginKey == <<"cordis", "config", "p", "k">>
Payload == <<"logging", "payload_mode">>
Console == <<"logging", "console">>

MCDefaults ==
  (ConfigVersion :> "7") @@ (DataDir :> "data") @@ (LogFile :> "none") @@ (Payload :> "metadata")
    @@ (Console :> "on") @@ (Enabled :> "none") @@ (CordisConfig :> "{}")
MCScalars == DOMAIN MCDefaults \ {CordisConfig}
MCPathSettings == {DataDir, LogFile}
MCFreeTables == {CordisConfig}

Version == ConfigVersion :> "7"
Plugin == (Enabled :> "p") @@ (PluginKey :> "1")
Logs == (LogFile :> "data/log") @@ (Payload :> "full") @@ (Console :> "off")
Data == DataDir :> "data"

File(include, sets, readable) == [include |-> include, sets |-> sets, readable |-> readable]
Override(path, text) == [path |-> path, is |-> text, merge |-> FALSE]

Mains == {File(i, Version @@ s, TRUE) :
            i \in {<<>>, <<"a">>, <<"a", "b">>, <<"b", "a">>}, s \in {<<>>, Logs, PluginTable :> "5"}}
           \cup {File(<<"a">>, Plugin, TRUE)}
As == {File(i, s, TRUE) : i \in {<<>>, <<"b">>, <<"main">>}, s \in {Plugin, Logs}}
Bs == {File(<<>>, s, TRUE) : s \in {<<>>, Plugin @@ Data, <<"plugins">> :> "1"}} \cup {File(<<>>, Data, FALSE)}
Envs == {<<>>, <<Override(Enabled, "p"), Override(PluginTable, "5"), Override(PluginKey, "2")>>,
         <<Override(<<>>, "x")>>, <<Override(Console, "off")>>}
Clis == {<<>>, <<Override(PluginKey, "3"), Override(Enabled, "p")>>,
         <<[path |-> <<"core">>, is |-> "{}", merge |-> TRUE], Override(DataDir, "data")>>}

MCSettingsQuestions ==
  {[primary |-> p, files |-> [main |-> m, a |-> x, b |-> y], extra |-> e, env |-> n, cli |-> c] :
     p \in {"main", Nothing}, m \in Mains, x \in As, y \in Bs,
     e \in {<<>>, <<"b", "a">>}, n \in Envs, c \in Clis}

-----------------------------------------------------------------------------
(* Commands: "say" and the longer "say all". *)

Argument(name, converter, required, variadic) ==
  [name |-> name, converter |-> converter, required |-> required, variadic |-> variadic, default |-> Absent]
Option(name, aliases, converter, flag, repeatable, required) ==
  [name |-> name, aliases |-> aliases, converter |-> converter, flag |-> flag,
   repeatable |-> repeatable, required |-> required, default |-> Absent]

Say == <<<<"say">>>>
SayAll == <<<<"say">>, <<"all">>>>

SaySchema ==
  [arguments |-> <<Argument(<<"t">>, "string", TRUE, FALSE), Argument(<<"c">>, "integer", FALSE, FALSE)>>,
   options |-> <<Option(<<"n">>, <<<<"a">>>>, "string", FALSE, FALSE, FALSE),
                 Option(<<"f">>, <<<<"g">>>>, "string", TRUE, FALSE, FALSE)>>]
SayAllSchema ==
  [arguments |-> <<Argument(<<"t">>, "string", FALSE, TRUE)>>,
   options |-> <<Option(<<"n">>, <<<<"a">>>>, "integer", FALSE, TRUE, TRUE),
                 Option(<<"f">>, <<<<"g">>>>, "string", TRUE, TRUE, FALSE)>>]

ASSUME SchemaAssumption == ValidSchema(SaySchema) /\ ValidSchema(SayAllSchema)

MCCommands == (Say :> [schema |-> SaySchema, permission |-> "talk"])
                @@ (SayAll :> [schema |-> SayAllSchema, permission |-> "shout"])

MCDigits == {"1", "2"}
MCTruths == {<<"true">>, <<"false">>}
MCPrefixes == {<<"/">>, <<"/", "!">>}

Values == {<<>>, <<"1">>, <<"-", "1">>, <<"v", " ", "\"">>, <<"\\", "'">>, <<"-">>, <<"-", "-">>, <<"n", "=", "v">>}
Word(value) == [kind |-> "value", value |-> value]
Asks(name, form, inline, value) == [kind |-> "option", name |-> name, form |-> form, inline |-> inline, value |-> value]

OptionItems ==
  {Asks(<<"n">>, form, inline, v) : form \in {"long", "alias"}, inline \in BOOLEAN, v \in Values}
    \cup {Asks(<<"f">>, form, inline, Absent) : form \in {"long", "alias"}, inline \in {FALSE}}
    \cup {Asks(<<"f">>, "long", TRUE, <<"v">>), Asks(<<"u">>, "long", TRUE, <<"v">>)}

Alias(name) == CASE name = <<"n">> -> <<"a">> [] name = <<"f">> -> <<"g">> [] OTHER -> <<"z">>

TokensOf(item) ==
  IF item.kind = "value" THEN <<item.value>>
  ELSE LET named == IF item.form = "long" THEN <<Dash, Dash>> \o item.name ELSE <<Dash>> \o Alias(item.name)
       IN  IF item.value = Absent THEN <<named>>
           ELSE IF item.inline THEN <<named \o <<"=">> \o item.value>> ELSE <<named, item.value>>

Escaped(token, chars) == FlattenSeq([i \in DOMAIN token |->
                           IF token[i] \in chars THEN <<Backslash, token[i]>> ELSE <<token[i]>>])

Quoted(token, style) ==
  CASE style = "bare" -> IF token = <<>> THEN <<"'", "'">> ELSE Escaped(token, {Blank, Backslash} \cup Quotes)
    [] style = "double" -> <<"\"">> \o Escaped(token, {"\"", Backslash}) \o <<"\"">>
    [] style = "single" -> <<"'">> \o Escaped(token, {"'", Backslash}) \o <<"'">>

\* The items in their order, with "--" behind the first n of them, if there are as many.
TextOfItems(items, n, style) ==
  LET upTo == Min({n, Len(items)})
      tokens == FlattenSeq([i \in 1 .. upTo |-> TokensOf(items[i])])
                  \o (IF n <= Len(items) THEN <<<<Dash, Dash>>>> ELSE <<>>)
                  \o FlattenSeq([i \in 1 .. Len(items) - upTo |-> TokensOf(items[upTo + i])])
  IN  FlattenSeq([i \in DOMAIN tokens |-> <<Blank>> \o Quoted(tokens[i], style)])

PathText(path) == FlattenSeq([i \in DOMAIN path |-> (IF i = 1 THEN <<>> ELSE <<Blank, Blank>>) \o path[i]])

Grants(who, roles, capabilities) == [who |-> who, roles |-> roles, capabilities |-> capabilities]
Actor(runtime, actor) == [runtime |-> runtime, bot |-> "b1", actor |-> actor]
Config(roles, grants) == [roles |-> roles, grants |-> grants]

Everyone == Config([all |-> <<"talk", "shout">>], <<Grants(Actor("r1", "ann"), <<"all">>, <<>>)>>)

MCTokens == {"talk", "shout", "all", "r1", "r2", "b1", "ann", "bob", "public"}

\* Roles and grants of all sorts, some of them refused.
Configs ==
  {Config(roles, <<g, h>>) :
     roles \in {[all |-> <<"talk">>], [all |-> <<"talk", "talk">>], [all |-> <<"public">>], [all |-> <<>>]},
     g \in {Grants(Actor("r1", "ann"), r, c) : r \in {<<>>, <<"all">>, <<"none">>}, c \in {<<>>, <<"shout">>}},
     h \in {Grants(w, <<"all">>, <<"talk">>) : w \in {Actor("r2", "ann"), Actor("r1", "bob"), Actor("r1", "ann")}}}

CommandQuestion(path, items, n, style, pad, prefix, broken, permissions, event) ==
  [path |-> path, items |-> items, broken |-> broken, permissions |-> permissions, event |-> event,
   message |-> pad \o prefix \o PathText(path) \o TextOfItems(items, n, style)
                 \o (IF broken THEN <<Backslash>> ELSE <<>>)]

Author == Actor("r1", "ann")

\* Words that stand for themselves among options, orders of words and options, and the places
\* "--" may have among them: behind the last option, or nowhere.
PlainWords == {<<>>, <<"1">>, <<"v", " ", "\"">>, <<"-">>}
Orders(w, x, o, p) == {<<w, o>>, <<o, w>>, <<w, o, x>>, <<o, w, p>>, <<w, o, x, p>>, <<w, x>>}
Mixed ==
  UNION {{[items |-> items, n |-> n] :
            n \in {k \in 0 .. Len(items) + 1 : \A i \in k + 1 .. Len(items) : items[i].kind = "value"}} :
           items \in UNION {Orders(Word(w), Word(x), o, Asks(<<"n">>, "long", FALSE, <<"1">>)) :
                             w, x \in PlainWords, o \in OptionItems}}

MCCommandQuestions ==
  {CommandQuestion(path, m.items, m.n, style, <<>>, <<"/">>, FALSE, Everyone, Author) :
     path \in {Say, SayAll}, m \in Mixed, style \in {"bare", "double"}}
  \cup {CommandQuestion(path, options \o words, Len(options), style, <<>>, <<"/">>, FALSE, Everyone, Author) :
     path \in {Say, SayAll},
     options \in {<<>>} \cup {<<o>> : o \in OptionItems}
                   \cup {<<o, Asks(<<"n">>, "long", TRUE, <<"1">>)>> : o \in OptionItems},
     words \in {<<>>, <<Word(<<>>)>>, <<Word(<<"v", " ", "\"">>), Word(<<"-", "1">>)>>, <<Word(<<"1">>), Word(<<"v">>)>>},
     style \in {"bare", "double", "single"}}
  \cup {CommandQuestion(path, words, 0, style, <<>>, <<"/">>, FALSE, Everyone, Author) :
     path \in {Say, SayAll}, words \in {<<Word(v), Word(w)>> : v, w \in Values}, style \in {"bare", "single"}}
  \cup {CommandQuestion(path, <<Word(<<"v">>)>>, n, "bare", pad, prefix, broken, Everyone, Author) :
     path \in {Say, SayAll, <<<<"sing">>>>}, pad \in {<<>>, <<" ">>},
     n \in {0, 2}, prefix \in {<<"/">>, <<"/", "!">>, <<"/", " ">>, <<"?">>}, broken \in BOOLEAN}
  \cup {CommandQuestion(path, <<Word(<<"v">>)>>, 2, "bare", <<>>, <<"/">>, FALSE, config, Actor(r, a)) :
     path \in {Say, SayAll}, config \in Configs, r \in {"r1", "r2"}, a \in {"ann", "bob", Anonymous}}

-----------------------------------------------------------------------------
(* Messages: native segments, and their CQ text. *)

Escape(chars) == FlattenSeq([i \in DOMAIN chars |->
  CASE chars[i] = "&" -> <<"&", "amp;">> [] chars[i] = "[" -> <<"&", "#91;">>
    [] chars[i] = "]" -> <<"&", "#93;">> [] chars[i] = "," -> <<"&", "#44;">> [] OTHER -> <<chars[i]>>])

Texts == {<<"t">>, <<"[", "&">>, <<"&", "#91;">>, <<"&", "amp;", "]">>, <<",", "&", "#44;">>}
TextSegments == {Segment("text", "text" :> Text(t)) : t \in Texts}
Four == Number(<<"4">>)

Ids == {Text(<<"4">>), Number(<<"4">>), Text(<<>>), Text(<<" ", "4">>), Text(<<"all">>)}
Sources == {<<>>} \cup {k :> Text(v) : k \in {"file", "url", "file_id"}, v \in {<<"name">>, <<"http:", "/", ",">>}}
              \cup {k :> Four : k \in {"file", "url", "file_id"}}
Codes ==
  {Segment(type, "qq" :> id) : type \in {"at", "mention"}, id \in Ids}
    \cup {Segment(type, "id" :> id) : type \in {"reply", "face"}, id \in Ids}
    \cup {Segment(type, a @@ b @@ ("note" :> Text(<<"[", ",", "&">>))) :
            type \in {"image", "record"}, a \in Sources, b \in Sources}
    \cup {Segment("image", a @@ ("note" :> Four)) : a \in Sources}
    \cup {Segment("poke", "id" :> Text(<<"4">>)), Segment("poke", "id" :> Four), Segment("reply", <<>>)}

CqOf(segment) ==
  IF segment.type = "text" THEN Escape(segment.data["text"].is)
  ELSE LET keys == SetToSeq(DOMAIN segment.data)
       IN  <<"[CQ:", segment.type>>
             \o FlattenSeq([i \in DOMAIN keys |-> <<",", keys[i], "=">> \o Escape(segment.data[keys[i]].is)])
             \o <<"]">>

Messages ==
  {<<t>> : t \in TextSegments \cup {Segment("text", "text" :> Four)}} \cup {<<c>> : c \in Codes} \cup {<<t, c>> : t \in TextSegments, c \in Codes}
    \cup {<<c, t, d>> : c \in {Segment("at", "qq" :> Four)}, t \in TextSegments, d \in Codes}

MCMessageQuestions == {[array |-> m, cq |-> FlattenSeq([i \in DOMAIN m |-> CqOf(m[i])])] : m \in Messages}

-----------------------------------------------------------------------------
(* Events: two accounts, of which r2 also meets a user of r1. *)

MCSelfIds == [r1 |-> "b1", r2 |-> "b2"]
MCNumbers == {"u1", "g1", "g2"}

Sent(self, message_type, subtype, user, group) ==
  [post_type |-> "message", self_id |-> self, message_type |-> message_type, subtype |-> subtype,
   user |-> user, group |-> group, type |-> "message", flag |-> Missing]
Signal(self, post_type, type, user, group, flag) ==
  [post_type |-> post_type, self_id |-> self, message_type |-> Missing, subtype |-> Missing,
   user |-> user, group |-> group, type |-> type, flag |-> flag]

MCPayloads ==
  {Sent("b1", "private", "group", "u1", "g1"), Sent("b1", "private", "friend", "x", Missing),
   Sent("b1", "private", "group", "u1", "x"), Sent("b1", "group", "normal", "u1", "g2"),
   Sent("b2", "private", "group", "u1", "g2"),
   Signal("b1", "request", "request.friend", "u1", Missing, "f1"),
   Signal("b2", "request", "request.group", "u1", "g1", "f2"),
   Signal("b1", "notice", "notice.bot_offline", "u1", Missing, Missing)}

MCExtensionAPIs == {"poke"}

-----------------------------------------------------------------------------
(* Packs: one that is shipped, a directory and an archive. *)

English == "lang/en-US.lang"
Chinese == "lang/zh.lang"

MCPackId == [m0 |-> "base", m1 |-> "d1", m2 |-> "z1", m3 |-> "d1"]
MCIcon == [m0 |-> Gone, m1 |-> Gone, m2 |-> "icon.png", m3 |-> Gone]
MCAlpha == {"png"}
MCEntries == [e0 |-> (("k" :> "base") @@ ("j" :> "base")), e1 |-> ("k" :> "one"), c0 |-> ("j" :> "chinese"),
              huge |-> <<>>]
MCSize == [m0 |-> 1, m1 |-> 1, m2 |-> 1, m3 |-> 1, e0 |-> 1, e1 |-> 1, c0 |-> 1, bad |-> 1, png |-> 1, huge |-> 4]
MCLanguageFiles == <<[path |-> English, locale |-> "en-US"], [path |-> Chinese, locale |-> "zh"]>>

MCShipped == <<[origin |-> "kernel", files |-> (Metadata :> "m0") @@ (English :> "e0")]>>

Directories == {(Metadata :> "m1") @@ (English :> "e1"), (Chinese :> "c0"), Metadata :> "bad"}
ZipTrees == {(Metadata :> "m2") @@ (Chinese :> "c0") @@ ("icon.png" :> "png"), (Metadata :> "m3") @@ (English :> "bad"),
             (Metadata :> "m2") @@ (English :> "e1")}

Index(names, readable) == [names |-> names, readable |-> readable]
MCIndexes == {Index(<<"d", "z">>, TRUE), Index(<<"z", "d">>, TRUE), Index(<<"d", "d">>, TRUE),
              Index(<<"d", "gone">>, TRUE), Index(<<>>, FALSE)}

Workspace(i, d, z, f) == [index |-> i, trees |-> [d |-> d, z |-> z], faults |-> [d |-> {}, z |-> f]]

MCNoWorkspace == Workspace(Index(<<>>, TRUE), <<>>, <<>>, {})
MCWorkspaces ==
  {Workspace(i, d, z, {}) : i \in {Index(<<"d", "z">>, TRUE), Index(<<"z", "d">>, TRUE)},
                            d \in Directories, z \in ZipTrees}
    \cup {Workspace(i, d, z, {"duplicate"}) : i \in MCIndexes,
          d \in {(Metadata :> "m1") @@ (English :> "e1")}, z \in {(Metadata :> "m2") @@ (English :> "e1")}}
    \cup {MCNoWorkspace}

MCEdits == {[path |-> English, content |-> "e0"], [path |-> English, content |-> Gone],
            [path |-> Chinese, content |-> "huge"], [path |-> Metadata, content |-> "m3"]}
=============================================================================

---------------------------- MODULE InputsProps ----------------------------
(***************************************************************************)
(* What the answers and the machines of Inputs are held against: the       *)
(* meaning of a question is said here without the algorithm of the code.   *)
(***************************************************************************)
EXTENDS Inputs

-----------------------------------------------------------------------------
(* Configuration. *)

RECURSIVE Under(_, _)

\* The files a file brings along, itself among them.
Under(q, f) == {f} \cup UNION {Under(q, g) : g \in ToSet(q.files[f].include)}

Roots(q) == (IF q.primary = Nothing THEN <<>> ELSE <<q.primary>>) \o q.extra

LoadedFiles(q) == UNION {Under(q, f) : f \in ToSet(Roots(q))}

Layers(q) == {"default", "env", "cli"} \cup LoadedFiles(q)

\* What each layer says.
Says(q, layer) ==
  CASE layer = "default" -> Written(Defaults, "default", Cwd)
    [] layer = "env" -> Overrides(q.env, "env", PathBase(q))
    [] layer = "cli" -> Overrides(q.cli, "cli", PathBase(q))
    [] OTHER -> Written(q.files[layer].sets, layer, Directory[layer])

\* A file beats what it includes, and what comes before it where both are listed.
FileBeats(q, f, g) ==
  \/ f # g /\ g \in Under(q, f)
  \/ \E list \in {Roots(q)} \cup {q.files[h].include : h \in LoadedFiles(q)} :
       \E i, j \in DOMAIN list : i > j /\ f \in Under(q, list[i]) /\ g \in Under(q, list[j])

Beats(q, a, b) ==
  CASE a = "cli" -> b # "cli"
    [] a = "env" -> b \notin {"env", "cli"}
    [] a = "default" -> FALSE
    [] OTHER -> b = "default" \/ (b \in LoadedFiles(q) /\ FileBeats(q, a, b))

\* Below path p, or above it, a layer has a table where another has a value.
Contested(q, p) ==
  \E l \in Layers(q) : \E r \in DOMAIN Says(q, l) :
    r # p /\ (IsPrefix(r, p) \/ IsPrefix(p, r)) /\ ~(IsPrefix(r, p) /\ Says(q, l)[r].is = "{}")

Writers(q, p) == {l \in Layers(q) : p \in DOMAIN Says(q, l)}

\* Configuration that is accepted says what its strongest layer says: an includer beats what it
\* includes, a later file an earlier one, the environment all files and the command line the
\* environment; nothing anybody wrote is lost, paths count from the directory of the layer that
\* wrote them, and the chain of "config explain" names exactly the layers that wrote a value,
\* the winner last; no table above it is without an explanation.
\* (_load_settings, _load_file, _load_includes, _deep_merge, the tracker, ConfigInspection.explain.)
StrongestLayerWins ==
  desk = "settings" /\ answer # Pending /\ answer.ok =>
    LET q == asked
        written == UNION {DOMAIN Says(q, l) : l \in Layers(q)}
    IN  \A p \in {r \in written : ~Contested(q, r)} :
          \E w \in Writers(q, p) :
            /\ \A l \in Writers(q, p) \ {w} : Beats(q, w, l)
            /\ \/ /\ Explanation(answer, p) = [value |-> p :> Says(q, w)[p], sources |-> Writers(q, p)]
                  /\ Last(Chain(answer, p)) = w
                  /\ \A n \in 0 .. Len(p) : Explanation(answer, SubSeq(p, 1, n)) # Nothing
               \/ Says(q, w)[p].is = "{}"

-----------------------------------------------------------------------------
(* Commands. *)

\* The values an item of the question asks an option to have.
GivenTo(q, name) ==
  LET asks == SelectSeq(q.items, LAMBDA item : item.kind = "option" /\ item.name = name)
  IN  [i \in DOMAIN asks |-> asks[i].value]

Positional(q) ==
  LET words == SelectSeq(q.items, LAMBDA item : item.kind = "value")
  IN  [i \in DOMAIN words |-> words[i].value]

Typed(converter, tokens) == [i \in DOMAIN tokens |-> <<converter, tokens[i]>>]

\* An option as it was asked for.
OptionMeant(q, o) ==
  LET given == GivenTo(q, o.name)
      typed == Typed(o.converter, given)
  IN  CASE o.flag -> IF o.repeatable THEN Len(given) ELSE Len(given) = 1
        [] ~o.flag /\ o.repeatable -> typed
        [] OTHER -> IF given = <<>> THEN o.default ELSE typed[1]

\* An argument as it was asked for.
ArgumentMeant(q, a, i) ==
  LET typed == Typed(a.converter, Positional(q))
  IN  IF a.variadic THEN [k \in 1 .. Max({0, Len(typed) - i + 1}) |-> typed[k + i - 1]]
      ELSE IF i <= Len(typed) THEN typed[i] ELSE a.default

Wrong(converter, token) ==
  \/ converter = "integer" /\ token \notin {<<"1">>, <<"-", "1">>}
  \/ converter = "boolean" /\ token \notin Truths

\* Nothing is missing, given twice, unknown, or of another kind.
WellMeant(q, schema) ==
  /\ ~q.broken
  /\ \A i \in DOMAIN q.items : q.items[i].kind = "option" =>
       \E k \in DOMAIN schema.options :
         LET o == schema.options[k]
         IN  /\ o.name = q.items[i].name
             /\ o.flag <=> q.items[i].value = Absent
             /\ o.flag \/ ~Wrong(o.converter, q.items[i].value)
  /\ \A k \in DOMAIN schema.options :
       LET o == schema.options[k]
       IN  /\ Len(GivenTo(q, o.name)) <= 1 \/ o.repeatable
           /\ o.required => Len(GivenTo(q, o.name)) > 0
  /\ \A i \in DOMAIN schema.arguments :
       /\ schema.arguments[i].required => Len(Positional(q)) >= i
       /\ \A k \in DOMAIN Positional(q) :
            k = i \/ (k > i /\ schema.arguments[i].variadic) =>
              ~Wrong(schema.arguments[i].converter, Positional(q)[k])
  /\ \/ Len(Positional(q)) <= Len(schema.arguments)
     \/ schema.arguments # <<>> /\ Last(schema.arguments).variadic

\* The grants of an actor on an account, and the roles they name, say what the actor may do.
MayUse(q, capability) ==
  \/ capability = Public
  \/ \E g \in ToSet(q.permissions.grants) :
       /\ g.who = [runtime |-> q.event.runtime, bot |-> q.event.bot, actor |-> q.event.actor]
       /\ \/ capability \in ToSet(g.capabilities)
          \/ \E r \in ToSet(g.roles) : capability \in ToSet(q.permissions.roles[r])

\* A command does what its author wrote, or is refused: whatever quoting and option form the
\* text uses, and in whatever order words and options stand, before "--", behind it or without
\* it, the handler is called with exactly the values that were meant, on the path that was
\* meant, and an author without the capability is never heard.  (tokenize_command,
\* _parse_options, _parse_arguments, _parse, create_permission_service, allows.)
CommandsMeanWhatTheySay ==
  desk = "commands" /\ answer # Pending /\ answer.outcome \notin {"unavailable", "ignored"} =>
    LET q == asked
        schema == Commands[q.path].schema
    IN  /\ answer.outcome = "called" <=> MayUse(q, Commands[q.path].permission)
        /\ answer.outcome = "called" =>
             /\ answer.path = q.path
             /\ answer.parsed.error = "" <=> WellMeant(q, schema)
             /\ answer.parsed.error = "" =>
                  /\ \A i \in DOMAIN schema.arguments :
                       answer.parsed.arguments[schema.arguments[i].name] = ArgumentMeant(q, schema.arguments[i], i)
                  /\ \A i \in DOMAIN schema.options :
                       answer.parsed.options[schema.options[i].name] = OptionMeant(q, schema.options[i])

-----------------------------------------------------------------------------
(* Messages. *)

\* Two native media mean the same when they share an identifier or a location.
SameMedium(a, b) ==
  {a[k].is : k \in DOMAIN a \cap {"file", "file_id", "url"}}
    \cap {b[k].is : k \in DOMAIN b \cap {"file", "file_id", "url"}} # {}

SameSegment(a, b) ==
  /\ a.type = b.type \/ {a.type, b.type} = {"at", "mention"}
  /\ a.type \in Media =>
       /\ SameMedium(a.data, b.data)
       /\ \A k \in DOMAIN a.data \ {"file", "file_id", "url"} : Has(b.data, k) /\ b.data[k] = a.data[k]
  /\ a.type = "text" => a.data = b.data
  /\ a.type \in {"at", "reply", "face"} => {a.data[k].is : k \in DOMAIN a.data} = {b.data[k].is : k \in DOMAIN b.data}
  /\ a.type \notin Media \cup {"text", "at", "mention", "reply", "face"} => a.data = b.data

\* A portable segment with its numbers written out, as a CQ text has them.
InTexts(s) ==
  LET texts(data) == [k \in DOMAIN data |-> Text(data[k].is)]
  IN  IF s.type = "adapter" THEN [s EXCEPT !.data.data = texts(@)] ELSE [s EXCEPT !.data = texts(@)]

\* A number where the array format takes only strings: a text, or the source of a medium.
NumberForText(s) ==
  \E k \in DOMAIN s.data : /\ s.data[k].number
                           /\ s.type = "text" \/ (s.type \in Media /\ k \in {"file", "url"})

\* A message is the same message in both formats OneBot may send it in, except that the numbers
\* which the array format keeps in the data of media and of foreign segments are texts in the
\* CQ format, and that a number for a text or for the source of a medium counts as a text only
\* there; its portable form is valid, and sent back to OneBot it is the native message again,
\* with its texts, targets, media and foreign data.  (to_portable_message, _parse_cq_data,
\* _cq_unescape, to_onebot_message, validate_normalized_shape.)
MessagesSurvive ==
  desk = "messages" /\ answer # Pending =>
    /\ (\A i \in DOMAIN asked.array : ~NumberForText(asked.array[i])) =>
         answer.cq = IF answer.array = Bad THEN Bad
                     ELSE [i \in DOMAIN answer.array |-> InTexts(answer.array[i])]
    /\ answer.array # Bad => /\ \A i \in DOMAIN answer.array : ValidSegment(answer.array[i])
                             /\ answer.back # Bad
    /\ answer.back # Bad =>
         /\ Len(answer.back) = Len(asked.array)
         /\ \A i \in DOMAIN answer.back : SameSegment(asked.array[i], answer.back[i])
         /\ ToOnebot(Portable(answer.back)) = answer.back
=============================================================================

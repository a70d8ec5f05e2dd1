--------------------------- MODULE CommandGrammar ---------------------------
(***************************************************************************)
(* The text of a command (features/commands_parsing.py and _parse of       *)
(* features/commands_service.py): how it is cut into tokens, how tokens    *)
(* become options and arguments, and which schemas are accepted.           *)
(*                                                                         *)
(* A text, a token and a name are sequences of characters.  Besides the    *)
(* ones the grammar knows a character stands for any run of others.  A     *)
(* schema is a sequence of arguments and one of options.                   *)
(***************************************************************************)
EXTENDS Integers, SequencesExt, TLC

CONSTANTS
  Digits,      \* the characters that make an integer
  Truths,      \* the tokens boolean_value accepts
  CommandPrefixes, \* what a command starts with, each a text
  Absent       \* no value, no option

Blank == " "
Dash == "-"
Backslash == "\\"
Quotes == {"'", "\""}

Failed(code) == [error |-> code]

\* Op applied along a sequence; FoldLeft would walk the subsets of its positions.
Along(Op(_, _), start, seq) ==
  LET upTo[i \in 0 .. Len(seq)] == IF i = 0 THEN start ELSE Op(upTo[i - 1], seq[i])
  IN  upTo[Len(seq)]

-----------------------------------------------------------------------------
(* Schemas. *)

\* _validate_name.
ValidName(name) == name # <<>> /\ Head(name) # Dash /\ ToSet(name) \cap {Blank, "="} = {}

\* __post_init__ of an argument and of an option.
ValidArgument(a) == ValidName(a.name) /\ (a.required \/ a.variadic => a.default = Absent)

ValidOption(o) ==
  /\ ValidName(o.name) /\ IsInjective(o.aliases)
  /\ \A i \in DOMAIN o.aliases : ValidName(o.aliases[i]) /\ Len(o.aliases[i]) = 1
  /\ o.flag \/ o.repeatable => o.default = Absent

\* __post_init__ of a schema: only the last argument takes several values, optional arguments
\* come last, and no two options answer to one name or alias.
ValidSchema(schema) ==
  /\ \A i \in DOMAIN schema.arguments :
       LET a == schema.arguments[i]
       IN  /\ ValidArgument(a) /\ (a.variadic => i = Len(schema.arguments))
           /\ \A j \in 1 .. i - 1 : /\ schema.arguments[j].name # a.name
                                    /\ a.required => schema.arguments[j].required
  /\ \A i \in DOMAIN schema.options :
       LET o == schema.options[i]
       IN  /\ ValidOption(o)
           /\ \A j \in 1 .. i - 1 : /\ schema.options[j].name # o.name
                                    /\ ToSet(schema.options[j].aliases) \cap ToSet(o.aliases) = {}

-----------------------------------------------------------------------------
(* Tokens. *)

\* Mutant: a quoted empty token is lost.
ReadBufferOnly(t, c) ==
  IF t.escaping THEN [t EXCEPT !.buffer = Append(@, c), !.escaping = FALSE, !.started = TRUE]
  ELSE IF c = Backslash THEN [t EXCEPT !.escaping = TRUE]
  ELSE IF t.quote # Absent
  THEN IF c = t.quote THEN [t EXCEPT !.quote = Absent]
       ELSE [t EXCEPT !.buffer = Append(@, c), !.started = TRUE]
  ELSE IF c \in Quotes THEN [t EXCEPT !.quote = c]
  ELSE IF c # Blank THEN [t EXCEPT !.buffer = Append(@, c), !.started = TRUE]
  ELSE IF ~t.started THEN t
  ELSE [t EXCEPT !.tokens = Append(@, t.buffer), !.buffer = <<>>, !.started = FALSE]

\* One character of tokenize_command.  Quotes and escapes start a token even when it stays empty.
Read(t, c) ==
  IF t.escaping THEN [t EXCEPT !.buffer = Append(@, c), !.escaping = FALSE, !.started = TRUE]
  ELSE IF c = Backslash THEN [t EXCEPT !.escaping = TRUE, !.started = TRUE]
  ELSE IF t.quote # Absent
  THEN IF c = t.quote THEN [t EXCEPT !.quote = Absent, !.started = TRUE]
       ELSE [t EXCEPT !.buffer = Append(@, c), !.started = TRUE]
  ELSE IF c \in Quotes THEN [t EXCEPT !.quote = c, !.started = TRUE]
  ELSE IF c # Blank THEN [t EXCEPT !.buffer = Append(@, c), !.started = TRUE]
  ELSE IF ~t.started THEN t
  ELSE [t EXCEPT !.tokens = Append(@, t.buffer), !.buffer = <<>>, !.started = FALSE]

\* tokenize_command.
TokenizeCommand(text) ==
  LET end == Along(Read, [tokens |-> <<>>, buffer |-> <<>>, quote |-> Absent,
                          escaping |-> FALSE, started |-> FALSE], text)
  IN  IF end.escaping THEN Failed("trailing_escape")
      ELSE IF end.quote # Absent THEN Failed("unterminated_quote")
      ELSE [error |-> "", tokens |-> IF end.started THEN Append(end.tokens, end.buffer) ELSE end.tokens]

\* The converters; int() takes a sign.
Converts(converter, token) ==
  CASE converter = "string" -> TRUE
    [] converter = "boolean" -> token \in Truths
    [] converter = "integer" ->
         LET digits == IF token # <<>> /\ Head(token) = Dash THEN Tail(token) ELSE token
         IN  digits # <<>> /\ ToSet(digits) \subseteq Digits

\* _converted.
Value(converter, token) == <<converter, token>>

-----------------------------------------------------------------------------
(* Options.  A scan is where _parse_options is between two tokens: the     *)
(* option that waits for its value, the values given so far by name, the   *)
(* positional tokens, whether options are still looked for, and the error. *)

NoScan == [enabled |-> TRUE, awaiting |-> Absent, given |-> <<>>, positional |-> <<>>, error |-> ""]

IsOption(token) == token # <<>> /\ Head(token) = Dash /\ token # <<Dash>>

\* _resolve_option: the option a token names, and what follows its first "=".
ResolveOption(token, schema) ==
  LET long == Len(token) > 1 /\ token[2] = Dash
      body == SubSeq(token, IF long THEN 3 ELSE 2, Len(token))
      cut == SelectInSeq(body, LAMBDA c : c = "=")
      name == IF cut = 0 THEN body ELSE SubSeq(body, 1, cut - 1)
      at == SelectInSeq(schema.options, LAMBDA o : IF long THEN o.name = name ELSE Contains(o.aliases, name))
  IN  [option |-> IF at = 0 THEN Absent ELSE schema.options[at],
       inline |-> IF cut = 0 THEN Absent ELSE <<SubSeq(body, cut + 1, Len(body))>>]

Given(s, name) == IF name \in DOMAIN s.given THEN s.given[name] ELSE <<>>

\* The value of an option, converted.
GiveValue(s, o, token) ==
  IF Converts(o.converter, token)
  THEN [s EXCEPT !.awaiting = Absent,
                 !.given = (o.name :> Append(Given(s, o.name), Value(o.converter, token))) @@ @]
  ELSE [s EXCEPT !.error = "invalid_value"]

\* _consume_option, up to the token that is its value.
ConsumeOption(s, o, inline) ==
  IF o.flag /\ inline # Absent THEN [s EXCEPT !.error = "unexpected_option_value"]
  ELSE IF ~o.repeatable /\ o.name \in DOMAIN s.given THEN [s EXCEPT !.error = "duplicate_option"]
  ELSE IF o.flag THEN [s EXCEPT !.given = (o.name :> Append(Given(s, o.name), TRUE)) @@ @]
  ELSE IF inline = Absent THEN [s EXCEPT !.awaiting = o]
  ELSE GiveValue(s, o, inline[1])

\* One token of _parse_options.
Scan(s, token, schema) ==
  IF s.error # "" THEN s
  ELSE IF s.awaiting # Absent THEN GiveValue(s, s.awaiting, token)
  ELSE IF s.enabled /\ token = <<Dash, Dash>> THEN [s EXCEPT !.enabled = FALSE]
  ELSE IF ~(s.enabled /\ IsOption(token)) THEN [s EXCEPT !.positional = Append(@, token)]
  ELSE LET found == ResolveOption(token, schema)
       IN  IF found.option = Absent THEN [s EXCEPT !.error = "unknown_option"]
           ELSE ConsumeOption(s, found.option, found.inline)

\* _default_option, and the form in which the given values are handed over.
OptionValue(s, o) ==
  LET values == Given(s, o.name)
  IN  IF o.flag THEN IF o.repeatable THEN Len(values) ELSE values # <<>>
      ELSE IF o.repeatable THEN values
      ELSE IF values = <<>> THEN o.default ELSE values[1]

OptionNamed(schema, name) == schema.options[SelectInSeq(schema.options, LAMBDA o : o.name = name)]

NamesOf(items) == {items[i].name : i \in DOMAIN items}

ParseOptions(tokens, schema) ==
  LET end == Along(LAMBDA s, token : Scan(s, token, schema), NoScan, tokens)
  IN  IF end.error # "" THEN Failed(end.error)
      ELSE IF end.awaiting # Absent THEN Failed("missing_option_value")
      ELSE IF \E n \in NamesOf(schema.options) \ DOMAIN end.given : OptionNamed(schema, n).required
      THEN Failed("missing_option")
      ELSE [error |-> "", positional |-> end.positional,
            options |-> [n \in NamesOf(schema.options) |-> OptionValue(end, OptionNamed(schema, n))]]

-----------------------------------------------------------------------------
(* Arguments. *)

\* The positional tokens that are argument i's.
Share(positional, schema, i) ==
  LET last == IF schema.arguments[i].variadic THEN Len(positional) ELSE i
  IN  SubSeq(positional, i, IF last < Len(positional) THEN last ELSE Len(positional))

ArgumentValue(a, share) ==
  LET values == [k \in DOMAIN share |-> Value(a.converter, share[k])]
  IN  IF a.variadic THEN values ELSE IF share = <<>> THEN a.default ELSE values[1]

\* What is wrong with argument i, for the first that has something wrong.
ArgumentError(positional, schema, i) ==
  LET a == schema.arguments[i]
      share == Share(positional, schema, i)
  IN  IF a.required /\ share = <<>> THEN "missing_argument"
      ELSE IF \E token \in ToSet(share) : ~Converts(a.converter, token) THEN "invalid_value" ELSE ""

ParseArguments(positional, schema) ==
  LET errors == SelectSeq([i \in DOMAIN schema.arguments |-> ArgumentError(positional, schema, i)],
                          LAMBDA e : e # "")
      takesAll == schema.arguments # <<>> /\ Last(schema.arguments).variadic
  IN  IF errors # <<>> THEN Failed(errors[1])
      ELSE IF ~takesAll /\ Len(positional) > Len(schema.arguments) THEN Failed("unexpected_argument")
      ELSE [error |-> "",
            arguments |-> [n \in NamesOf(schema.arguments) |->
                             LET i == SelectInSeq(schema.arguments, LAMBDA a : a.name = n)
                             IN  ArgumentValue(schema.arguments[i], Share(positional, schema, i))]]

\* parse_command.
ParseCommand(text, schema) ==
  LET cut == TokenizeCommand(text)
  IN  IF cut.error # "" THEN cut
      ELSE LET scanned == ParseOptions(cut.tokens, schema)
           IN  IF scanned.error # "" THEN scanned
               ELSE LET found == ParseArguments(scanned.positional, schema)
                    IN  IF found.error # "" THEN found
                        ELSE [error |-> "", arguments |-> found.arguments, options |-> scanned.options]

-----------------------------------------------------------------------------
(* The message around the arguments. *)

Stripped(text) ==
  LET first == SelectInSeq(text, LAMBDA c : c # Blank)
  IN  IF first = 0 THEN <<>> ELSE SubSeq(text, first, Len(text))

\* _command_tokens: where a word of a text starts, and where it ends.
WordStarts(text) == {i \in DOMAIN text : text[i] # Blank /\ (i = 1 \/ text[i - 1] = Blank)}

WordEnd(text, start) ==
  CHOOSE j \in start .. Len(text) :
    /\ \A k \in start .. j : text[k] # Blank
    /\ j = Len(text) \/ text[j + 1] = Blank

StartOf(text, k) == CHOOSE i \in WordStarts(text) : Cardinality({j \in WordStarts(text) : j <= i}) = k

\* The first n words, and what follows them.
FirstWords(text, n) == [k \in 1 .. n |-> SubSeq(text, StartOf(text, k), WordEnd(text, StartOf(text, k)))]

Behind(text, n) == Stripped(SubSeq(text, WordEnd(text, StartOf(text, n)) + 1, Len(text)))

\* _parse: the longest path that the words after a prefix spell, and the text behind it.
InvocationOf(message, paths) ==
  LET text == Stripped(message)
      fitting == {p \in CommandPrefixes : IsPrefix(p, text)}
      prefix == CHOOSE p \in fitting : \A r \in fitting : Len(r) <= Len(p)
      body == SubSeq(text, Len(prefix) + 1, Len(text))
      longest == Max({0} \cup {Len(p) : p \in paths})
      spelled == {n \in 1 .. Min({longest, Cardinality(WordStarts(body))}) : FirstWords(body, n) \in paths}
  IN  IF fitting = {} THEN Absent
      ELSE IF body = <<>> THEN Absent
      ELSE IF body[1] = Blank \/ spelled = {} THEN Absent
      ELSE [path |-> FirstWords(body, Max(spelled)), arguments |-> Behind(body, Max(spelled))]
=============================================================================

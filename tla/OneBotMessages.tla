---------------------------- MODULE OneBotMessages ----------------------------
(***************************************************************************)
(* OneBot v11 messages and their portable form (onebot/v11/core.py, with   *)
(* the checks of Segment and Message in events/models.py).                 *)
(*                                                                         *)
(* A native message is a sequence of segments, or a CQ text: a sequence of *)
(* characters in which "[CQ:", the native types and the names of entities  *)
(* are one character each.  A segment is its type and its data, a function *)
(* from keys to values; a value is a text, marked when it is a JSON number *)
(* instead of a string.                                                    *)
(***************************************************************************)
EXTENDS Integers, SequencesExt, TLC

CONSTANTS
  Locators,    \* the characters that make a media source a URL or a path
  Bad,         \* stands for what raises
  Adapter      \* the name of this adapter

Text(s) == [is |-> s, number |-> FALSE]
Number(s) == [is |-> s, number |-> TRUE]

Segment(type, data) == [type |-> type, data |-> data]

Media == {"image", "record", "video", "file"}
PortableMedia == {"image", "audio", "video", "file"}

-----------------------------------------------------------------------------
(* From OneBot. *)

Has(data, key) == key \in DOMAIN data

\* A key that holds a string which is not empty.
HasText(data, key) == Has(data, key) /\ ~data[key].number /\ data[key].is # <<>>

Without(data, keys) == [k \in DOMAIN data \ keys |-> data[k]]

\* _identifier: a trimmed string that is not empty; numbers become strings.
IsIdentifier(data, key) ==
  /\ Has(data, key) /\ data[key].is # <<>>
  /\ Head(data[key].is) # " " /\ Last(data[key].is) # " "

Identifier(data, key) == Text(data[key].is)

\* A file name that says where the medium is, and one that only names it.
IsLocator(text) == \E i \in DOMAIN text : text[i] \in Locators

\* _portable_media_data.
PortableMediaData(data) ==
  LET rest == Without(data, {"file_id", "file"})
      named == HasText(data, "file") /\ ~IsLocator(data["file"].is)
  IN  IF HasText(data, "url")
      THEN IF Has(data, "file_id")
           THEN IF IsIdentifier(data, "file_id") THEN ("file_id" :> Identifier(data, "file_id")) @@ rest ELSE Bad
           ELSE IF named THEN ("file_id" :> data["file"]) @@ rest ELSE rest
      ELSE IF named THEN ("file_id" :> data["file"]) @@ rest
      ELSE IF HasText(data, "file") THEN ("url" :> data["file"]) @@ rest
      ELSE IF IsIdentifier(data, "file_id") THEN ("file_id" :> Identifier(data, "file_id")) @@ rest
      ELSE Bad

PortableType(native) == IF native = "record" THEN "audio" ELSE native

\* An identifier of native data under a portable key.
Identified(type, key, data, native) ==
  IF IsIdentifier(data, native) THEN Segment(type, key :> Identifier(data, native)) ELSE Bad

\* _to_portable_segment.
ToPortableSegment(native, data) ==
  CASE native = "text" ->
         IF Has(data, "text") /\ ~data["text"].number THEN Segment("text", "text" :> data["text"]) ELSE Bad
    [] native \in {"at", "mention"} ->
         LET key == IF Has(data, "qq") THEN "qq" ELSE "user_id"
         IN  IF Has(data, key) /\ data[key] = Text(<<"all">>)
             THEN Segment("mention", "scope" :> Text(<<"all">>))
             ELSE Identified("mention", "user_id", data, key)
    [] native = "reply" -> Identified("reply", "message_id", data, "id")
    [] native = "face" -> Identified("emoji", "id", data, "id")
    [] native \in Media ->
         LET portable == PortableMediaData(data)
         IN  IF portable = Bad THEN Bad ELSE Segment(PortableType(native), portable)
    [] OTHER -> Segment("adapter", [adapter |-> Adapter, type |-> native, data |-> data])

\* to_portable_message of a segment array: one segment that raises is enough.
Portable(segments) ==
  LET all == [i \in DOMAIN segments |-> ToPortableSegment(segments[i].type, segments[i].data)]
  IN  IF Contains(all, Bad) THEN Bad ELSE all

-----------------------------------------------------------------------------
(* CQ texts. *)

\* One entity of a text, replaced everywhere.
ReplaceEntity(text, entity, char) ==
  LET starts == {i \in 1 .. Len(text) - 1 : text[i] = "&" /\ text[i + 1] = entity}
      KeepOrReplace(i) == IF i \in starts THEN <<char>> ELSE IF i - 1 \in starts THEN <<>> ELSE <<text[i]>>
  IN  FlattenSeq([i \in DOMAIN text |-> KeepOrReplace(i)])

\* Mutant: the ampersand is restored before the other entities.
CqUnescapeFirst(text) ==
  ReplaceEntity(ReplaceEntity(ReplaceEntity(ReplaceEntity(
    text, "amp;", "&"), "#91;", "["), "#93;", "]"), "#44;", ",")

\* _cq_unescape.
CqUnescape(text) ==
  ReplaceEntity(ReplaceEntity(ReplaceEntity(ReplaceEntity(
    text, "#91;", "["), "#93;", "]"), "#44;", ","), "amp;", "&")

\* The texts between the commas of a text.
RECURSIVE SplitAtCommas(_)
SplitAtCommas(text) ==
  LET cut == SelectInSeq(text, LAMBDA c : c = ",")
  IN  IF cut = 0 THEN <<text>>
      ELSE <<SubSeq(text, 1, cut - 1)>> \o SplitAtCommas(SubSeq(text, cut + 1, Len(text)))

\* _parse_cq_data: the pairs of a key and a value.
ParseCqData(raw) ==
  LET Pair(data, pair) ==
        IF Len(pair) < 2 THEN data
        ELSE IF pair[1] = "=" \/ pair[2] # "=" THEN data
        ELSE (pair[1] :> Text(CqUnescape(SubSeq(pair, 3, Len(pair))))) @@ data
  IN  FoldLeft(Pair, <<>>, SplitAtCommas(raw))

\* Where the first CQ code of a text starts and ends, or 0: a type follows "[CQ:", then the
\* code ends or has data up to the next bracket.
CodeAt(text) ==
  LET closes(i) == {j \in i + 2 .. Len(text) : text[j] = "]"}
      starts == {i \in DOMAIN text : text[i] = "[CQ:" /\ closes(i) # {}
                   /\ (i + 2 \in closes(i) \/ text[i + 2] = ",")}
  IN  IF starts = {} THEN [first |-> 0, last |-> 0]
      ELSE [first |-> Min(starts), last |-> Min(closes(Min(starts)))]

CqText(text) == IF CqUnescape(text) = <<>> THEN <<>> ELSE <<Segment("text", "text" :> Text(CqUnescape(text)))>>

RECURSIVE CqSegments(_)
CqSegments(text) ==
  LET at == CodeAt(text)
  IN  IF at.first = 0 THEN CqText(text)
      ELSE CqText(SubSeq(text, 1, at.first - 1))
           \o <<ToPortableSegment(text[at.first + 1], ParseCqData(SubSeq(text, at.first + 3, at.last - 1)))>>
           \o CqSegments(SubSeq(text, at.last + 1, Len(text)))

\* _to_portable_cq_message: a text without codes is one segment, even when it is empty.
PortableCq(text) ==
  IF CodeAt(text).first = 0 THEN <<Segment("text", "text" :> Text(CqUnescape(text)))>>
  ELSE IF Contains(CqSegments(text), Bad) THEN Bad ELSE CqSegments(text)

-----------------------------------------------------------------------------
(* Portable messages, and back to OneBot. *)

\* validate_normalized_shape of a segment.
ValidSegment(s) ==
  CASE s.type = "text" -> Has(s.data, "text") /\ ~s.data["text"].number
    [] s.type = "mention" -> \/ Has(s.data, "scope") /\ s.data["scope"] = Text(<<"all">>)
                             \/ Has(s.data, "user_id") /\ ~s.data["user_id"].number
    [] s.type = "reply" -> Has(s.data, "message_id") /\ ~s.data["message_id"].number
    [] s.type \in PortableMedia -> HasText(s.data, "url") \/ HasText(s.data, "file_id")
    [] s.type = "emoji" -> Has(s.data, "id") /\ ~s.data["id"].number
    [] s.type = "adapter" -> s.data.adapter # "" /\ s.data.type # ""

\* plain_text of a message.
PlainText(message) ==
  FlattenSeq([i \in DOMAIN message |-> IF message[i].type = "text" THEN message[i].data["text"].is ELSE <<>>])

\* _onebot_media_data.
OnebotMediaData(data) ==
  LET key == IF HasText(data, "file_id") THEN "file_id" ELSE "url"
  IN  IF HasText(data, key) THEN ("file" :> data[key]) @@ Without(data, {"url", "file_id"}) ELSE Bad

NativeType(type) == IF type = "audio" THEN "record" ELSE type

\* _to_onebot_segment.
ToOnebotSegment(s) ==
  CASE s.type = "text" -> Segment("text", "text" :> s.data["text"])
    [] s.type = "mention" ->
         IF Has(s.data, "scope") /\ s.data["scope"] = Text(<<"all">>) THEN Segment("at", "qq" :> Text(<<"all">>))
         ELSE IF HasText(s.data, "user_id") THEN Segment("at", "qq" :> s.data["user_id"]) ELSE Bad
    [] s.type = "reply" -> IF HasText(s.data, "message_id") THEN Segment("reply", "id" :> s.data["message_id"]) ELSE Bad
    [] s.type \in PortableMedia ->
         LET native == OnebotMediaData(s.data)
         IN  IF native = Bad THEN Bad ELSE Segment(NativeType(s.type), native)
    [] s.type = "emoji" -> Segment("face", "id" :> s.data["id"])
    [] s.type = "adapter" -> IF s.data.adapter = Adapter THEN Segment(s.data.type, s.data.data) ELSE Bad

\* to_onebot_message.
ToOnebot(message) ==
  LET all == [i \in DOMAIN message |-> ToOnebotSegment(message[i])]
  IN  IF Contains(all, Bad) THEN Bad ELSE all
=============================================================================

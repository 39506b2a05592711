--------------------------- MODULE XmlSerializer ----------------------------
(***************************************************************************)
(* xml::serializer (include/corecpp/serialization/xml.h, src/xml.cpp) with *)
(* serialize_impl (serialization/common.h).                                *)
(*                                                                         *)
(* A step is one call of serialize from outside, which returns or throws:  *)
(* what it writes for a value follows the structure of the value, and all  *)
(* that is kept from call to call is m_started.  Types, values and         *)
(* characters are those of JsonText; the names of tags that the code       *)
(* spells out, the words of entities and true, false and null are one      *)
(* character each.  What m_pretty adds is white space between the tags and *)
(* is left out.  Nothing reads the text.                                   *)
(***************************************************************************)
EXTENDS JsonText

VARIABLES m_started,   \* a document has been started and not ended
          xmls         \* what each call has written: [text, threw]

xmlVars == <<m_started, xmls>>

XmlInit == m_started = FALSE /\ xmls = <<>>

EntityOf == [c \in {"&", Quote, "'", "<", ">"} |->
               CASE c = "&" -> "amp" [] c = Quote -> "quot" [] c = "'" -> "apos"
                 [] c = "<" -> "lt" [] c = ">" -> "gt"]

\* Mutant: an ampersand stands for itself.
EscapedButAmp(s) ==
  FlattenSeq([i \in DOMAIN s |->
    IF s[i] \in DOMAIN EntityOf \ {"&"} THEN <<"&", EntityOf[s[i]], ";">> ELSE <<s[i]>>])

\* convert_and_escape
Escaped(s) ==
  FlattenSeq([i \in DOMAIN s |->
    IF s[i] \in DOMAIN EntityOf THEN <<"&", EntityOf[s[i]], ";">> ELSE <<s[i]>>])

\* start_tag, something, end_tag
Tagged(name, chars) ==
  <<"<">> \o Escaped(name) \o <<">">> \o chars \o <<"<", "/">> \o Escaped(name) \o <<">">>

\* write_element
Item(chars) == Tagged(<<"item">>, chars)

\* serialize of a scalar.
ScalarXml(t, v) ==
  CASE t.kind \in {"int", "long"} -> Numeral(v)
    [] t.kind = "bool" -> IF v THEN <<"true">> ELSE <<"false">>
    [] t.kind = "float" -> FixedPoint(v)
    [] t.kind = "string" -> Escaped(v)
    [] t.kind = "null" -> <<"null">>

\* serialize inside of a document: write_object or a serialize written by hand,
\* write_object_cb of something tuple-like or of something that may be null,
\* variant::serialize, write_array, write_associative_array.
RECURSIVE Content(_, _)
Content(t, v) ==
  CASE t.kind \in Scalars -> ScalarXml(t, v)
    [] t.kind \in {"object", "user"} ->
         FlattenSeq([i \in DOMAIN v |-> Tagged(t.names[i], Content(t.of[i], v[i]))])
    [] t.kind = "tuple" ->
         FlattenSeq([i \in DOMAIN v |-> Tagged(Numeral(i - 1), Content(t.of[i], v[i]))])
    [] t.kind = "optional" ->
         IF v = <<>> THEN <<>> ELSE Tagged(<<"value">>, Content(t.of[1], v[1]))
    [] t.kind = "variant" ->
         IF v = <<>> THEN Tagged(Numeral(-1), ScalarXml(NullT, <<>>))
         ELSE Tagged(Numeral(v[1]), Item(Content(t.of[v[1] + 1], v[2])))
    [] t.kind = "array" -> FlattenSeq([i \in DOMAIN v |-> Item(Content(t.of[1], v[i]))])
    [] t.kind = "map" ->
         FlattenSeq([i \in DOMAIN v |->
           Tagged(<<"key">>, Item(Content(t.of[1], v[i][1])))
             \o Tagged(<<"value">>, Item(Content(t.of[2], v[i][2])))])

\* start_document and end_document
Opening == <<"<?xml?>", "<", "root", ">">>
Closing == <<"<", "/", "root", ">">>

\* A scalar has an overload of its own, which starts no document.
StartsDocument(t) == t.kind \notin Scalars /\ ~ m_started

\* What serialize writes if nothing goes wrong.
XmlOf(t, v) ==
  IF StartsDocument(t) THEN Opening \o Content(t, v) \o Closing ELSE Content(t, v)

SerializeXml(t, v) ==
  /\ xmls' = Append(xmls, [text |-> XmlOf(t, v), threw |-> FALSE])
  /\ UNCHANGED m_started

\* The stream or the serialize of a class throws after n characters.  The
\* exception passes serialize, which leaves m_started as it is.
SerializeXmlThrows(t, v, n) ==
  /\ n < Len(XmlOf(t, v))
  /\ xmls' = Append(xmls, [text |-> SubSeq(XmlOf(t, v), 1, n), threw |-> TRUE])
  /\ m_started' = (m_started \/ (StartsDocument(t) /\ n >= Len(Opening)))
=============================================================================

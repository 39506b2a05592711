--------------------------- MODULE JsonSerializer ---------------------------
(***************************************************************************)
(* json::serializer (include/corecpp/serialization/json.h, src/json.cpp)   *)
(* with serialize_impl (serialization/common.h), which picks the calls     *)
(* that write a value by its type.                                         *)
(*                                                                         *)
(* The calls that have yet to be made are kept in todo, the innermost      *)
(* first; a step makes one of them, which writes to the stream and may put *)
(* calls of its own in front.                                              *)
(***************************************************************************)
EXTENDS JsonText

VARIABLES todo,             \* the calls to make
          m_pretty,
          m_indent_level,
          s_first           \* serializer::m_first

serializerVars == <<text, todo, m_pretty, m_indent_level, s_first>>

Serialize(t, v)       == [op |-> "serialize", type |-> t, value |-> v]
WriteElement(t, v)    == [op |-> "write_element", type |-> t, value |-> v]
WriteProperty(n, t, v)   == [op |-> "write_property", name |-> n, type |-> t, value |-> v]
WritePropertyCb(n, t, v) == [op |-> "write_property_cb", name |-> n, type |-> t, value |-> v]
Do(op) == [op |-> op]

SerializerInit(pretty) ==
  /\ todo = <<>>
  /\ m_pretty = pretty
  /\ m_indent_level = 0
  /\ s_first = TRUE

\* Make the first call: write chars and put calls in its place.
Make(op, chars, calls) ==
  /\ todo # <<>>
  /\ Head(todo).op = op
  /\ text' = text \o chars
  /\ todo' = calls \o Tail(todo)

\* indent
Indent == [i \in 1..m_indent_level |-> "\t"]
NewLine == IF m_pretty THEN <<"\n">> \o Indent ELSE <<>>

-----------------------------------------------------------------------------
\* convert_and_escape of one printable or control character.
Escape(c) ==
  IF c \in {Quote, Backslash} THEN <<Backslash, c>>
  ELSE IF c \in DOMAIN LastHex THEN <<Backslash, "u", "0", "0", "0", LastHex[c]>>
  ELSE <<c>>

Literal(s) ==
  <<Quote>> \o FlattenSeq([i \in DOMAIN s |-> Escape(s[i])]) \o <<Quote>>

\* serialize of a scalar.
ScalarText(t, v) ==
  CASE t.kind \in {"int", "long"} -> Numeral(v)
    [] t.kind = "bool" -> IF v THEN <<"t", "rue">> ELSE <<"f", "alse">>
    [] t.kind = "float" -> FixedPoint(v)
    [] t.kind = "string" -> Literal(v)
    [] t.kind = "null" -> <<"n", "ull">>

-----------------------------------------------------------------------------
InObject(calls) == <<Do("begin_object")>> \o calls \o <<Do("end_object")>>
InArray(calls)  == <<Do("begin_array")>> \o calls \o <<Do("end_array")>>

\* write_object, and serialize of a class that lists its properties by hand.
Properties(t, v) ==
  InObject([i \in DOMAIN v |-> WriteProperty(t.names[i], t.of[i], v[i])])

\* write_object_cb for something tuple-like: the names are the positions.
TupleProperties(t, v) ==
  InObject([i \in DOMAIN v |-> WriteProperty(Numeral(i - 1), t.of[i], v[i])])

\* write_object_cb for something that can be dereferenced, and may be null.
Pointee(t, v) ==
  InObject(IF v = <<>> THEN <<>> ELSE <<WriteProperty(<<"value">>, t.of[1], v[1])>>)

\* variant::serialize: the property is named for the alternative.
Alternative(v, t) ==
  InObject(IF v = <<>> THEN <<WriteProperty(Numeral(-1), NullT, <<>>)>>
           ELSE <<WritePropertyCb(Numeral(v[1]), t.of[v[1] + 1], v[2])>>)

\* write_array
Elements(t, v) == InArray([i \in DOMAIN v |-> WriteElement(t.of[1], v[i])])

\* write_associative_array: each entry is an object with two bare elements.
Entries(t, v) ==
  InArray(FlattenSeq([i \in DOMAIN v |->
    <<Do("begin_entry")>> \o <<Do("begin_object")>>
      \o <<WriteElement(t.of[1], v[i][1]), WriteElement(t.of[2], v[i][2])>>
      \o <<Do("end_object")>>]))

\* serialize_impl: the calls that write a value that is not a scalar.
CallsFor(t, v) ==
  CASE t.kind \in {"object", "user"} -> Properties(t, v)
    [] t.kind = "tuple" -> TupleProperties(t, v)
    [] t.kind = "optional" -> Pointee(t, v)
    [] t.kind = "variant" -> Alternative(v, t)
    [] t.kind = "array" -> Elements(t, v)
    [] t.kind = "map" -> Entries(t, v)

-----------------------------------------------------------------------------
SerializeScalar ==
  /\ todo # <<>> /\ Head(todo).op = "serialize" /\ Head(todo).type.kind \in Scalars
  /\ Make("serialize", ScalarText(Head(todo).type, Head(todo).value), <<>>)
  /\ UNCHANGED <<m_pretty, m_indent_level, s_first>>

SerializeCompound ==
  /\ todo # <<>> /\ Head(todo).op = "serialize" /\ Head(todo).type.kind \notin Scalars
  /\ Make("serialize", <<>>, CallsFor(Head(todo).type, Head(todo).value))
  /\ UNCHANGED <<m_pretty, m_indent_level, s_first>>

BeginObject ==
  /\ Make("begin_object",
          NewLine \o <<"{">>
            \o (IF m_pretty THEN <<"\n">> \o Indent \o <<"\t">> ELSE <<>>), <<>>)
  /\ m_indent_level' = IF m_pretty THEN m_indent_level + 1 ELSE m_indent_level
  /\ s_first' = TRUE
  /\ UNCHANGED m_pretty

EndObject ==
  /\ m_indent_level' = IF m_pretty THEN m_indent_level - 1 ELSE m_indent_level
  /\ Make("end_object",
          (IF m_pretty THEN <<"\n">> \o [i \in 1..m_indent_level - 1 |-> "\t"] ELSE <<>>)
            \o <<"}">>, <<>>)
  /\ UNCHANGED <<m_pretty, s_first>>

\* Mutant: m_first keeps the value it has from the surroundings.
BeginArrayNested ==
  /\ Make("begin_array", <<"[">>, <<>>)
  /\ UNCHANGED <<m_pretty, m_indent_level, s_first>>

BeginArray ==
  /\ Make("begin_array", <<"[">>, <<>>)
  /\ s_first' = TRUE
  /\ UNCHANGED <<m_pretty, m_indent_level>>

EndArray ==
  /\ Make("end_array", <<"]">>, <<>>)
  /\ UNCHANGED <<m_pretty, m_indent_level, s_first>>

\* The comma between two entries of an associative array.
EntryComma ==
  /\ Make("begin_entry", IF s_first THEN <<>> ELSE <<",">> \o NewLine, <<>>)
  /\ UNCHANGED <<m_pretty, m_indent_level, s_first>>

\* write_element up to the call of serialize, after which m_first is false.
Element ==
  /\ Make("write_element",
          IF s_first THEN <<>> ELSE IF m_pretty THEN <<",", " ">> ELSE <<",">>,
          <<Serialize(Head(todo).type, Head(todo).value), Do("not_first")>>)
  /\ UNCHANGED <<m_pretty, m_indent_level, s_first>>

\* write_property up to the call of serialize.
Property ==
  /\ Make("write_property",
          (IF s_first THEN <<>> ELSE <<",">> \o NewLine) \o Literal(Head(todo).name) \o <<":">>,
          <<Serialize(Head(todo).type, Head(todo).value), Do("not_first")>>)
  /\ UNCHANGED <<m_pretty, m_indent_level, s_first>>

\* write_property_cb breaks the line whether or not the text is to be pretty;
\* the callback of a variant writes an element.
PropertyCb ==
  /\ Make("write_property_cb",
          (IF s_first THEN <<>> ELSE <<",", "\n">> \o Indent) \o Literal(Head(todo).name) \o <<":">>,
          <<WriteElement(Head(todo).type, Head(todo).value), Do("not_first")>>)
  /\ UNCHANGED <<m_pretty, m_indent_level, s_first>>

\* The last statement of write_element, write_property and write_property_cb.
WroteOne ==
  /\ Make("not_first", <<>>, <<>>)
  /\ s_first' = FALSE
  /\ UNCHANGED <<m_pretty, m_indent_level>>

SerializerStep ==
  \/ SerializeScalar \/ SerializeCompound \/ BeginObject \/ EndObject \/ BeginArray
  \/ EndArray \/ EntryComma \/ Element \/ Property \/ PropertyCb \/ WroteOne
=============================================================================

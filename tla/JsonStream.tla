----------------------------- MODULE JsonStream -----------------------------
(***************************************************************************)
(* A serializer and the deserializers of what it wrote: values are written *)
(* to a stream one behind the other, the text may lose its end, and every  *)
(* value is read by a deserializer of its own, for the type it was written *)
(* from or for an older version of that type.  What was read is written    *)
(* again as XML, as in examples/serialization.cpp.                         *)
(***************************************************************************)
EXTENDS JsonSerializer, JsonDeserializer, JsonGrammar, XmlSerializer

CONSTANT Documents   \* the sequences of documents [type, value, readAs]

VARIABLES documents,  \* the values that are written, and the types they are read as
          ends,       \* history: where the text of each of them ends
          phase,      \* "writing", "reading"
          whole,      \* the text has not lost its end
          results     \* what was read: [value, pos]

vars == <<serializerVars, deserializerVars, xmlVars, documents, ends, phase, whole, results>>

Write(d) == <<Serialize(d.type, d.value)>>
Construct(d) == <<Read, Deserialize(d.readAs)>>

Init ==
  /\ documents \in Documents
  /\ text = <<>>
  /\ \E pretty \in BOOLEAN : SerializerInit(pretty)
  /\ DeserializerInit
  /\ XmlInit
  /\ ends = <<>>
  /\ phase = "begin"
  /\ whole = TRUE
  /\ results = <<>>

\* The next value is given to the serializer.
WriteNext ==
  /\ phase \in {"begin", "writing"} /\ todo = <<>>
  /\ Len(ends) < Len(documents)
  /\ phase' = "writing"
  /\ ends' = IF phase = "begin" THEN ends ELSE Append(ends, Len(text))
  /\ IF Len(ends') < Len(documents)
     THEN todo' = Write(documents[Len(ends') + 1]) ELSE UNCHANGED todo
  /\ UNCHANGED <<text, m_pretty, m_indent_level, s_first, deserializerVars, xmlVars,
                 documents, whole, results>>

\* The writer is done, or it has died and only the first n characters are left.
Reopen(n) ==
  /\ phase = "writing" /\ Len(ends) = Len(documents)
  /\ phase' = "reading"
  /\ text' = SubSeq(text, 1, n)
  /\ whole' = (n = Len(text))
  /\ calls' = Construct(documents[1])
  /\ UNCHANGED <<todo, m_pretty, m_indent_level, s_first, pos, made, m_current,
                 d_first, threw, xmlVars, documents, ends, results>>

\* A value has been read; a new deserializer reads the next one.
ReadNext ==
  /\ phase = "reading" /\ calls = <<>> /\ ~ threw
  /\ Len(results) < Len(documents)
  /\ results' = Append(results, [value |-> made[1], pos |-> pos])
  /\ calls' = IF Len(results') < Len(documents)
              THEN Construct(documents[Len(results') + 1]) ELSE <<>>
  /\ made' = <<>>
  /\ m_current' = None
  /\ d_first' = TRUE
  /\ UNCHANGED <<serializerVars, xmlVars, pos, threw, documents, ends, phase, whole>>

\* What was read is written again, by one XML serializer (after texts that were
\* whole, a bound: one that was cut gives no other values).
Rewrite ==
  /\ whole /\ Len(results) = Len(documents)
  /\ Len(xmls) < Len(results)
  /\ LET i == Len(xmls) + 1
         t == documents[i].readAs
         v == results[i].value
     IN  SerializeXml(t, v) \/ \E n \in 0..Len(XmlOf(t, v)) : SerializeXmlThrows(t, v, n)
  /\ UNCHANGED <<serializerVars, deserializerVars, documents, ends, phase, whole, results>>

Next ==
  \/ WriteNext
  \/ SerializerStep /\ UNCHANGED <<deserializerVars, xmlVars, documents, ends, phase, whole, results>>
  \/ \E n \in 0..Len(text) : Reopen(n)
  \/ DeserializerStep /\ UNCHANGED <<serializerVars, xmlVars, documents, ends, phase, whole, results>>
  \/ ReadNext
  \/ Rewrite

Spec == Init /\ [][Next]_vars

-----------------------------------------------------------------------------
\* What a reader of type r should make of a value of type t: properties it
\* does not know are left out, those that are not there keep their default.
RECURSIVE Seen(_, _, _)
Seen(t, r, v) ==
  IF t = r \/ t.kind \in Scalars THEN v
  ELSE IF t.kind = "array" THEN [i \in DOMAIN v |-> Seen(t.of[1], r.of[1], v[i])]
  ELSE [i \in DOMAIN r.names |->
         IF \E j \in DOMAIN t.names : t.names[j] = r.names[i]
         THEN LET j == CHOOSE j \in DOMAIN t.names : t.names[j] = r.names[i]
              IN  Seen(t.of[j], r.of[i], v[j])
         ELSE Default(r.of[i])]

\* The properties of t that r does not know.
Unknown(t, r) == {j \in DOMAIN t.names : \A i \in DOMAIN r.names : r.names[i] # t.names[j]}

\* Nothing that r does not know is more than one token long.
RECURSIVE Skippable(_, _)
Skippable(t, r) ==
  \/ t = r
  \/ t.kind = "array" /\ Skippable(t.of[1], r.of[1])
  \/ /\ t.kind = "object"
     /\ \A j \in Unknown(t, r) : t.of[j].kind \in Scalars
     /\ \A i \in DOMAIN r.names, j \in DOMAIN t.names :
          t.names[j] = r.names[i] => Skippable(t.of[j], r.of[i])

\* Something that r does not know has the text {}.
RECURSIVE Hollow(_, _, _)
Hollow(t, r, v) ==
  /\ t # r
  /\ \/ t.kind = "array" /\ \E i \in DOMAIN v : Hollow(t.of[1], r.of[1], v[i])
     \/ /\ t.kind = "object"
        /\ \/ \E j \in Unknown(t, r) : t.of[j].kind \in {"object", "optional"} /\ v[j] = <<>>
           \/ \E i \in DOMAIN r.names, j \in DOMAIN t.names :
                t.names[j] = r.names[i] /\ Hollow(t.of[j], r.of[i], v[j])

Same(d) == d.type = d.readAs

\* Every document up to the i-th is read as the type it was written from.
SameUpTo(i) == \A j \in 1..i : Same(documents[j])

\* The stream is where the i-th document ends; a number at the very end of the
\* stream has had its last digit put back.
AtEndOf(i, p) ==
  p = IF ends[i] = Len(text) /\ documents[i].type.kind \in {"int", "long", "float"}
      THEN ends[i] - 1 ELSE ends[i]

\* What was written is what is read, escapes and nesting included, although
\* each deserializer goes on from where the one before it left the stream: none
\* of them reads too far (json::deserializer after json::serializer).
ReadBackAsWritten ==
  whole =>
    \A i \in DOMAIN results :
      SameUpTo(i) => results[i].value = documents[i].value /\ AtEndOf(i, results[i].pos)

\* What the serializer writes, the deserializer accepts, also for an older type
\* that lacks properties of one token each: they are passed over.
NothingRefused ==
  whole /\ (\A i \in DOMAIN documents : Skippable(documents[i].type, documents[i].readAs))
    => ~ threw

\* The characters of the string that the text breaks off in, if it does.
Unfinished ==
  LET Scan(s, c) == [inside  |-> IF c = Quote /\ ~ s.escaped THEN ~ s.inside ELSE s.inside,
                     escaped |-> s.inside /\ c = Backslash /\ ~ s.escaped,
                     chars   |-> IF c = Quote /\ ~ s.escaped THEN <<>> ELSE Append(s.chars, c)]
      end == FoldLeft(Scan, [inside |-> FALSE, escaped |-> FALSE, chars |-> <<>>], text)
  IN  IF end.inside THEN end.chars ELSE <<>>

\* A text that has lost its end gives no value: nothing is returned for an
\* object or array that is cut short, although the tokenizer passes over what
\* it cannot read and puts back what it has read.  The exception is a cut
\* through a string in which there is a closing bracket or brace: the string is
\* given up, but its characters are read as tokens, and that one ends the value
\* (["]"] cut to ["] is read as []).
CutIsRefused ==
  \A i \in DOMAIN results :
    SameUpTo(i) /\ documents[i].type.kind \notin Scalars /\ ends[i] > Len(text) =>
      {"]", "}"} \cap ToSet(Unfinished) # {}

\* A reader of an older type gets the right value or an exception, never a
\* wrong value: properties it does not know may confuse read_object, but it
\* finds out, unless such a property is written {}, which ends the object.
OlderReaderNotMisled ==
  whole =>
    \A i \in DOMAIN results :
      LET d == documents[i]
      IN  SameUpTo(i - 1) /\ ~ Hollow(d.type, d.readAs, d.value) =>
            results[i].value = Seen(d.type, d.readAs, d.value) /\ AtEndOf(i, results[i].pos)

\* The kinds of the tokens between two positions.
RECURSIVE Kinds(_, _)
Kinds(p, q) ==
  IF p >= q THEN <<>>
  ELSE LET r == ReadFrom(p) IN <<r.token.kind>> \o Kinds(r.pos, q)

\* The document that has just been written, if it is an object or an array.
JustWritten ==
  {i \in DOMAIN ends : /\ phase = "writing" /\ ends[i] = Len(text)
                       /\ documents[i].type.kind \notin Scalars}

TextInGrammar(i) == InGrammar(Kinds(IF i = 1 THEN 0 ELSE ends[i - 1], ends[i]))

RECURSIVE HasMap(_)
HasMap(t) == t.kind = "map" \/ \E i \in DOMAIN t.of : HasMap(t.of[i])

\* What is written is a sentence of json.BNF: braces match and commas are where
\* they belong, however objects and arrays, empty or not, are nested in one
\* another under one m_first.  Associative arrays are left out: json.BNF has no
\* other objects than those of pairs, and write_associative_array puts two bare
\* elements into one.
WrittenInGrammar ==
  \A i \in JustWritten : ~ HasMap(documents[i].type) => TextInGrammar(i)

\* The elements that a text starts and ends match like brackets; open are those
\* it is in.
RECURSIVE Matching(_, _)
Matching(s, open) ==
  IF s = <<>> THEN open = <<>>
  ELSE IF s[1] # "<" THEN Matching(Tail(s), open)
  ELSE LET end  == SelectInSeq(s, LAMBDA c : c = ">")
           rest == SubSeq(s, end + 1, Len(s))
       IN  IF s[2] = "/"
           THEN open # <<>> /\ Last(open) = SubSeq(s, 3, end - 1) /\ Matching(rest, Front(open))
           ELSE Matching(rest, Append(open, SubSeq(s, 2, end - 1)))

IsXmlDocument(s) ==
  /\ IsPrefix(Opening, s) /\ IsSuffix(Closing, s)
  /\ Matching(SubSeq(s, Len(Opening) + 1, Len(s) - Len(Closing)), <<>>)

Written == {ds[1] : ds \in Documents}

\* As long as no call has thrown, each call of the XML serializer writes an
\* object or array as a document of its own with one root in which elements
\* match, and no two values of a type have the same text: nothing of a value is
\* lost in it and no string is taken for structure.
XmlTellsApart ==
  \A i \in DOMAIN xmls :
    i = Len(xmls) /\ (\A j \in 1..i : ~ xmls[j].threw) =>
      LET t == documents[i].readAs
      IN  /\ t.kind \notin Scalars => IsXmlDocument(xmls[i].text)
          /\ \A d \in Written :
               d.type = t /\ d.value # results[i].value => XmlOf(t, d.value) # xmls[i].text
=============================================================================

-------------------------- MODULE JsonDeserializer --------------------------
(***************************************************************************)
(* json::deserializer (include/corecpp/serialization/json.h) with          *)
(* deserialize_impl (serialization/common.h).                              *)
(*                                                                         *)
(* As in the serializer, the calls that have yet to be made are kept in    *)
(* calls, the innermost first.  made is a stack of the values that are     *)
(* being read, the innermost last: a call that reads a value leaves it     *)
(* there, and the next call puts it into the value below.                  *)
(***************************************************************************)
EXTENDS JsonTokenizer

VARIABLES pos,        \* the position of the stream
          calls,      \* the calls to make
          made,       \* the values being read
          m_current,  \* the token at hand
          d_first,    \* deserializer::m_first
          threw       \* an exception has left the deserializer

deserializerVars == <<pos, calls, made, m_current, d_first, threw>>

Call(op, t)      == [op |-> op, type |-> t]
CallAt(op, t, i) == [op |-> op, type |-> t, index |-> i]
Read             == [op |-> "read"]
Close(op)        == [op |-> op]
Deserialize(t)   == Call("deserialize", t)

CONSTANTS IntMin, IntMax   \* the range of the type int stands for

DeserializerInit ==
  /\ pos = 0
  /\ calls = <<>>
  /\ made = <<>>
  /\ m_current = None
  /\ d_first = TRUE
  /\ threw = FALSE

\* The value a variable of the type has before anything is read into it.
RECURSIVE Default(_)
Default(t) ==
  CASE t.kind \in {"int", "long", "float"} -> 0
    [] t.kind = "bool" -> FALSE
    [] t.kind = "null" -> <<>>
    [] t.kind \in {"object", "user", "tuple"} -> [i \in DOMAIN t.of |-> Default(t.of[i])]
    [] OTHER -> <<>>

Doing(op) == calls # <<>> /\ Head(calls).op = op
T == Head(calls).type

Goes(next) == calls' = next \o Tail(calls) /\ UNCHANGED threw
Throws     == calls' = <<>> /\ threw' = TRUE

\* Go on if the token at hand is of one of the kinds, throw otherwise.
Expect(kinds, next) ==
  \/ m_current.kind \in kinds /\ Goes(next)
  \/ m_current.kind \notin kinds /\ Throws

Push(v) == made' = Append(made, v)
\* The value that was read last goes into the one below, which becomes v.
PutBelow(v) == made' = Append(SubSeq(made, 1, Len(made) - 2), v)
Below == made[Len(made) - 1]

-----------------------------------------------------------------------------
\* variant::operator=(variant&&): a variant that holds a token of the same kind
\* moves its own value to itself and never looks at the other one, so a number
\* stays as it was and a string is left empty.
Replaced(token) ==
  IF token.kind = m_current.kind THEN [m_current EXCEPT !.chars = <<>>] ELSE token

\* read: the next token becomes the current one.
ReadToken ==
  /\ Doing("read")
  /\ LET r == ReadFrom(pos)
     IN  /\ pos' = r.pos
         /\ \/ r.token = Bad /\ Throws /\ UNCHANGED m_current
            \/ r.token # Bad /\ Goes(<<>>) /\ m_current' = Replaced(r.token)
  /\ UNCHANGED <<made, d_first>>

\* The tokens a scalar is read from, and its value.
TokensFor(t) ==
  CASE t.kind \in {"int", "long"} -> {"integral"}
    [] t.kind = "float" -> {"integral", "numeric"}
    [] t.kind = "bool" -> {"true", "false"}
    [] t.kind = "string" -> {"string"}
    [] t.kind = "null" -> {"null"}

ScalarOf(t, token) ==
  CASE t.kind = "bool" -> token.kind = "true"
    [] t.kind = "null" -> <<>>
    [] t.kind = "string" -> token.chars
    [] t.kind \in {"int", "long"} -> token.number
    [] t.kind = "float" -> IF token.kind = "integral" THEN 10 * token.number ELSE token.number

InRange(t, token) == t.kind = "int" => token.number \in IntMin..IntMax

\* deserialize of a scalar; the token stays the current one.
DeserializeScalar ==
  /\ Doing("deserialize") /\ T.kind \in Scalars
  /\ \/ /\ m_current.kind \in TokensFor(T) /\ InRange(T, m_current)
        /\ Goes(<<>>) /\ Push(ScalarOf(T, m_current))
     \/ /\ m_current.kind \notin TokensFor(T) \/ ~ InRange(T, m_current)
        /\ Throws /\ UNCHANGED made
  /\ UNCHANGED <<pos, m_current, d_first>>

\* Mutant: m_first keeps the value it has from the surroundings.
DeserializeObjectNested ==
  /\ Doing("deserialize") /\ T.kind \in {"object", "user", "optional", "variant"}
  /\ Expect({"{"}, <<Read, Call("members", T)>>)
  /\ Push(Default(T))
  /\ UNCHANGED <<pos, m_current, d_first>>

\* read_object and read_object_cb: begin_object, then the loop over the
\* properties.
DeserializeObject ==
  /\ Doing("deserialize") /\ T.kind \in {"object", "user", "optional", "variant"}
  /\ Expect({"{"}, <<Read, Call("members", T)>>)
  /\ Push(Default(T))
  /\ d_first' = TRUE
  /\ UNCHANGED <<pos, m_current>>

\* A tuple reads one property for each of its elements, whatever their names.
DeserializeTuple ==
  /\ Doing("deserialize") /\ T.kind = "tuple"
  /\ Expect({"{"}, <<Read>> \o [i \in DOMAIN T.of |-> CallAt("property", T, i)]
                      \o <<Close("end_object")>>)
  /\ Push(Default(T))
  /\ d_first' = TRUE
  /\ UNCHANGED <<pos, m_current>>

\* read_array and read_associative_array up to the first element.
DeserializeSequence ==
  /\ Doing("deserialize") /\ T.kind \in {"array", "map"}
  /\ Expect({"["}, <<Read, Call("first", T)>>)
  /\ Push(<<>>)
  /\ UNCHANGED <<pos, m_current, d_first>>

-----------------------------------------------------------------------------
\* One turn of the loop of read_array; of read_associative_array.
Turn(t) ==
  IF t.kind = "array"
  THEN <<Deserialize(t.of[1]), Close("add"), Read, Call("next", t)>>
  ELSE <<Close("begin_entry"), Read, Call("element", t.of[1]), Read,
         Call("element", t.of[2]), Read, Close("end_object"), Read, Close("put"),
         Call("next", t)>>

\* An empty sequence ends at once.
FirstElement ==
  /\ Doing("first")
  /\ Goes(IF m_current.kind = "]" THEN <<>> ELSE Turn(T))
  /\ UNCHANGED <<pos, made, m_current, d_first>>

\* The end of a turn: a comma goes on, a closing bracket ends it.
NextElement ==
  /\ Doing("next")
  /\ Expect({",", "]"}, IF m_current.kind = "," THEN <<Read>> \o Turn(T) ELSE <<>>)
  /\ UNCHANGED <<pos, made, m_current, d_first>>

\* emplace_back, whose element was read in place.
AddElement ==
  /\ Doing("add")
  /\ Goes(<<>>) /\ PutBelow(Append(Below, Last(made)))
  /\ UNCHANGED <<pos, m_current, d_first>>

\* begin_object for an entry; its read is the next call.
BeginPair ==
  /\ Doing("begin_entry")
  /\ Expect({"{"}, <<>>)
  /\ d_first' = TRUE
  /\ UNCHANGED <<pos, made, m_current>>

\* read_element: a comma before all but the first, then the value.
ReadElement ==
  /\ Doing("element")
  /\ \/ d_first /\ Goes(<<Deserialize(T), Close("not_first")>>)
     \/ ~ d_first /\ Expect({","}, <<Read, Deserialize(T), Close("not_first")>>)
  /\ UNCHANGED <<pos, made, m_current, d_first>>

ReadOne ==
  /\ Doing("not_first")
  /\ Goes(<<>>)
  /\ d_first' = FALSE
  /\ UNCHANGED <<pos, made, m_current>>

\* emplace: a key that is there already keeps its value.
PutEntry ==
  /\ Doing("put")
  /\ LET n == Len(made)
         entry == <<made[n - 1], made[n]>>
         map == made[n - 2]
     IN  made' = Append(SubSeq(made, 1, n - 3),
                        IF \E i \in DOMAIN map : map[i][1] = entry[1] THEN map
                        ELSE Append(map, entry))
  /\ Goes(<<>>)
  /\ UNCHANGED <<pos, m_current, d_first>>

-----------------------------------------------------------------------------
\* The loop over the properties of an object: until the closing brace.
Members ==
  /\ Doing("members")
  /\ Goes(IF m_current.kind = "}" THEN <<Close("end_object")>>
          ELSE <<CallAt("property", T, 0), Call("members", T)>>)
  /\ UNCHANGED <<pos, made, m_current, d_first>>

\* read_property_cb up to the name.
ReadProperty ==
  /\ Doing("property")
  /\ LET name == CallAt("name", T, Head(calls).index)
     IN  \/ d_first /\ Goes(<<name>>)
         \/ ~ d_first /\ Expect({","}, <<Read, name>>)
  /\ d_first' = FALSE
  /\ UNCHANGED <<pos, made, m_current>>

\* Mutant: a property that is not known is read into the first member.
MemberOrFirst(t, name) ==
  LET known == {i \in DOMAIN t.names : t.names[i] = name}
  IN  IF known # {} THEN CHOOSE i \in known : TRUE
      ELSE IF t.kind = "object" THEN 1 ELSE -1

\* The callback of a property with this name: the member it is read into, 0
\* for none, or -1 for an exception.
MemberOf(t, name) ==
  LET known == {i \in DOMAIN t.names : t.names[i] = name}
  IN  IF known # {} THEN CHOOSE i \in known : TRUE
      ELSE IF t.kind = "object" THEN 0 ELSE -1

\* The name, the colon and the value of a property.
ReadName ==
  /\ Doing("name")
  /\ LET i == Head(calls).index
         member == IF i > 0 THEN i ELSE MemberOf(T, m_current.chars)
     IN  Expect({"string"},
                <<Read, Close("colon"), Read>>
                  \o (IF member = 0 THEN <<>>
                      ELSE IF member = -1 THEN <<Close("throw")>>
                      ELSE <<Deserialize(T.of[member]), CallAt("set", T, member)>>)
                  \o <<Read>>)
  /\ UNCHANGED <<pos, made, m_current, d_first>>

Colon ==
  /\ Doing("colon")
  /\ Expect({":"}, <<>>)
  /\ UNCHANGED <<pos, made, m_current, d_first>>

\* A callback that knows no such property.
ThrowInvalid ==
  /\ Doing("throw")
  /\ Throws
  /\ UNCHANGED <<pos, made, m_current, d_first>>

\* What was read goes into the member, the optional or the variant.  The last
\* name of a variant is -1, for no alternative.
SetMember ==
  /\ Doing("set")
  /\ LET v == Last(made)
         i == Head(calls).index
     IN  PutBelow(CASE T.kind = "optional" -> <<v>>
                [] T.kind = "variant" -> IF T.of[i] = NullT THEN <<>> ELSE <<i - 1, v>>
                [] OTHER -> [Below EXCEPT ![i] = v])
  /\ Goes(<<>>)
  /\ UNCHANGED <<pos, m_current, d_first>>

\* Mutant: the token behind the object is read already.
EndObjectReading ==
  /\ Doing("end_object")
  /\ Expect({"}"}, <<Read>>)
  /\ d_first' = FALSE
  /\ UNCHANGED <<pos, made, m_current>>

\* end_object
EndRead ==
  /\ Doing("end_object")
  /\ Expect({"}"}, <<>>)
  /\ d_first' = FALSE
  /\ UNCHANGED <<pos, made, m_current>>

DeserializerStep ==
  \/ ReadToken \/ DeserializeScalar \/ DeserializeObject \/ DeserializeTuple
  \/ DeserializeSequence \/ FirstElement \/ NextElement \/ AddElement \/ BeginPair
  \/ ReadElement \/ ReadOne \/ PutEntry \/ Members \/ ReadProperty \/ ReadName
  \/ Colon \/ ThrowInvalid \/ SetMember \/ EndRead
=============================================================================

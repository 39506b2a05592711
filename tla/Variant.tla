------------------------------ MODULE Variant -------------------------------
(***************************************************************************)
(* corecpp::variant (include/corecpp/variant.h): the index of an           *)
(* alternative and storage for one object.  The compiler knows nothing of  *)
(* what is in the storage: the class itself has to construct and destroy   *)
(* it, and to keep the index true when a constructor throws.               *)
(*                                                                         *)
(* Several variants are made, assigned to one another, read from documents *)
(* and destroyed, one call after the other.  The alternatives are the      *)
(* numbers below Size.  Operations that do not compile when they are used  *)
(* (emplace, get by position, the assignment of a const T&, the copy       *)
(* assignment where all alternatives can be copy-assigned) are left out.   *)
(***************************************************************************)
EXTENDS Integers, FiniteSets

CONSTANTS Variants,    \* the variant objects
          Size,        \* the number of alternatives
          Values,      \* the values that objects have
          Moved,       \* the value of an object that was moved from
          Nothing,     \* storage without an object
          MaxBorn      \* bound: the objects that are constructed

Alternatives == 0..(Size - 1)
Objects == [type : Alternatives, value : Values \cup {Moved}]

ASSUME VariantAssumption ==
  /\ IsFiniteSet(Variants)
  /\ Size \in Nat \ {0} /\ MaxBorn \in Nat
  /\ Moved \notin Values
  /\ Nothing \notin Objects

VARIABLES exists,        \* the variants whose lifetime has begun and not ended
          m_type_index,
          m_data,        \* the object that lives in the storage, or Nothing
          move_assigns,  \* is_move_assignable: all alternatives can be move-assigned
          nothrow,       \* no constructor of an alternative throws
          born, destroyed, leaked,  \* history: objects constructed, destroyed,
                                    \* and left behind in storage that is gone
          last,          \* history: the last call and its source, and whether it threw
          status         \* "running", "terminated", "undefined"

vars == <<exists, m_type_index, m_data, move_assigns, nothrow, born, destroyed,
          leaked, last, status>>
kind == <<move_assigns, nothrow>>

Init ==
  /\ exists = {}
  /\ m_type_index = [v \in Variants |-> -1]
  /\ m_data = [v \in Variants |-> Nothing]
  /\ move_assigns \in BOOLEAN /\ nothrow \in BOOLEAN
  /\ born = 0 /\ destroyed = 0 /\ leaked = 0
  /\ last = [call |-> "none", threw |-> FALSE]
  /\ status = "running"

-----------------------------------------------------------------------------
Holds(v) == m_type_index[v] \in Alternatives /\ m_data[v] # Nothing
\* The index names an alternative, and no object is there.
Hollow(v) == m_type_index[v] \in Alternatives /\ m_data[v] = Nothing

Returns(call, v, from) ==
  last' = [call |-> call, threw |-> FALSE, on |-> v, from |-> from] /\ UNCHANGED status
Throws(call, v) == last' = [call |-> call, threw |-> TRUE, on |-> v] /\ UNCHANGED status
\* The program is over: std::terminate, or the use of an object that is not there.
Ends(how) ==
  /\ status' = how
  /\ UNCHANGED <<exists, m_type_index, m_data, born, destroyed, leaked, last>>

\* The storage of v gets an object; PutMoved takes it from w, which is moved from.
Put(v, object) == [m_data EXCEPT ![v] = object]
\* Mutant: moved twice, the second time from what is left.
PutMovedTwice(v, w) ==
  LET left == [type |-> m_data[w].type, value |-> Moved]
  IN  [m_data EXCEPT ![v] = left, ![w] = left]

PutMoved(v, w) ==
  [m_data EXCEPT ![v] = m_data[w], ![w] = [type |-> m_data[w].type, value |-> Moved]]

Count(data) == Cardinality({v \in Variants : data[v] # Nothing})

\* Mutant: the object that was in the storage is not destroyed.
ReplaceOver(v, index, data) ==
  /\ m_type_index[v] < Size /\ ~ Hollow(v)
  /\ born' = born + IF data[v] = Nothing THEN 0 ELSE 1
  /\ born' <= MaxBorn
  /\ m_type_index' = [m_type_index EXCEPT ![v] = index]
  /\ m_data' = data
  /\ UNCHANGED <<exists, destroyed, leaked>>

\* reset() destroys the object of v; then v has a new index, and perhaps an object.
Replace(v, index, data) ==
  /\ m_type_index[v] < Size /\ ~ Hollow(v)
  /\ destroyed' = destroyed + IF Holds(v) THEN 1 ELSE 0
  /\ born' = born + IF data[v] = Nothing THEN 0 ELSE 1
  /\ born' <= MaxBorn
  /\ m_type_index' = [m_type_index EXCEPT ![v] = index]
  /\ m_data' = data
  /\ UNCHANGED <<exists, leaked>>

\* reset() cannot do its work: its visit throws, out of a function that is
\* noexcept, or it destroys what is not there.
ResetFails(v) ==
  /\ v \in exists
  /\ \/ m_type_index[v] >= Size /\ Ends("terminated")
     \/ Hollow(v) /\ Ends("undefined")

\* The index that reset() leaves: one below 0, whichever it is, stays.
AfterReset(v) == IF m_type_index[v] >= 0 THEN -1 ELSE m_type_index[v]

\* Mutant: the index is forgotten.
ResetKeepsIndex(v) ==
  v \in exists /\ Replace(v, m_type_index[v], Put(v, Nothing)) /\ Returns("reset", v, v)

Reset(v) ==
  v \in exists /\ Replace(v, AfterReset(v), Put(v, Nothing)) /\ Returns("reset", v, v)

-----------------------------------------------------------------------------
(***************************************************************************)
(* Lifetime of the variants.                                               *)
(***************************************************************************)
Begin(v, index, data) ==
  /\ exists' = exists \cup {v}
  /\ m_type_index' = [m_type_index EXCEPT ![v] = index]
  /\ m_data' = data
  /\ born' = born + IF data[v] = Nothing THEN 0 ELSE 1
  /\ born' <= MaxBorn
  /\ UNCHANGED <<destroyed, leaked>>

\* Nothing is changed: a call that only reads, or a constructor that an
\* exception leaves, so that there is no variant.
Untouched == UNCHANGED <<exists, m_type_index, m_data, born, destroyed, leaked>>

Default(v) == v \notin exists /\ Begin(v, -1, m_data) /\ Returns("construct", v, v)

FromValue(v, object) ==
  /\ v \notin exists
  /\ \/ Begin(v, object.type, Put(v, object)) /\ Returns("construct", v, v)
     \/ ~ nothrow /\ Untouched /\ Throws("construct", v)

\* The copy and the move constructor: only -1 is recognised as no value.
FromVariant(v, w, data) ==
  /\ v \notin exists /\ w \in exists
  /\ \/ m_type_index[w] = -1 /\ Begin(v, -1, m_data) /\ Returns("construct", v, w)
     \/ Holds(w) /\ Begin(v, m_type_index[w], data) /\ Returns("construct", v, w)
     \/ Holds(w) /\ ~ nothrow /\ Untouched /\ Throws("construct", v)
     \/ Hollow(w) /\ Ends("undefined")
     \/ /\ m_type_index[w] \notin Alternatives \cup {-1}
        /\ IF nothrow THEN Ends("terminated") ELSE Untouched /\ Throws("construct", v)

CopyConstruct(v, w) == FromVariant(v, w, Put(v, m_data[w]))
MoveConstruct(v, w) == FromVariant(v, w, IF Holds(w) THEN PutMoved(v, w) ELSE m_data)

\* The destructor compares the index with size as unsigned numbers and calls
\* reset() if it is not below: never for an alternative.
Destroy(v) ==
  /\ v \in exists
  /\ \/ m_type_index[v] >= Size /\ Ends("terminated")
     \/ /\ m_type_index[v] < Size
        /\ exists' = exists \ {v}
        /\ leaked' = leaked + IF m_data[v] = Nothing THEN 0 ELSE 1
        /\ m_type_index' = [m_type_index EXCEPT ![v] = -1]
        /\ m_data' = Put(v, Nothing)
        /\ UNCHANGED <<born, destroyed>>
        /\ Returns("destroy", v, v)

-----------------------------------------------------------------------------
(***************************************************************************)
(* Assignment.  The index is set before the object is constructed.         *)
(***************************************************************************)
AssignValue(v, object) ==
  /\ v \in exists
  /\ \/ Replace(v, object.type, Put(v, object)) /\ Returns("assign value", v, v)
     \/ ~ nothrow /\ Replace(v, object.type, Put(v, Nothing)) /\ Throws("assign value", v)

\* v gives up what it has for what w has.
Take(v, w, data) ==
  \/ /\ Holds(w)
     /\ \/ Replace(v, m_type_index[w], data) /\ Returns("assign", v, w)
        \/ ~ nothrow /\ Replace(v, m_type_index[w], Put(v, Nothing)) /\ Throws("assign", v)
  \/ /\ m_type_index[w] >= Size
     /\ Replace(v, m_type_index[w], Put(v, Nothing)) /\ Throws("assign", v)
  \/ Hollow(w) /\ m_type_index[v] < Size /\ Ends("undefined")

\* Where not every alternative can be copy-assigned: a source without a value
\* makes v valueless too and throws.
CopyAssign(v, w) ==
  /\ {v, w} \subseteq exists /\ v # w
  /\ \/ Take(v, w, Put(v, m_data[w]))
     \/ /\ m_type_index[w] < 0
        /\ Replace(v, m_type_index[w], Put(v, Nothing)) /\ Throws("assign", v)

\* The same alternative: the value of v is assigned to itself, w is not looked
\* at, and without a value visit throws.
MoveAssignSame(v) ==
  \/ /\ Holds(v)
     /\ \E value \in {m_data[v].value, Moved} : m_data' = [m_data EXCEPT ![v].value = value]
     /\ UNCHANGED <<exists, m_type_index, born, destroyed, leaked>>
     /\ Returns("assign same", v, v)
  \/ Hollow(v) /\ Ends("undefined")
  \/ m_type_index[v] \notin Alternatives /\ Untouched /\ Throws("assign", v)

MoveAssign(v, w) ==
  /\ {v, w} \subseteq exists /\ v # w
  /\ \/ move_assigns /\ m_type_index[v] = m_type_index[w] /\ MoveAssignSame(v)
     \/ /\ ~ move_assigns \/ m_type_index[v] # m_type_index[w]
        /\ \/ Take(v, w, IF Holds(w) THEN PutMoved(v, w) ELSE m_data)
           \/ /\ m_type_index[w] < 0
              /\ IF move_assigns
                 THEN Replace(v, AfterReset(v), Put(v, Nothing)) /\ Returns("assign", v, w)
                 ELSE Replace(v, m_type_index[w], Put(v, Nothing)) /\ Throws("assign", v)

-----------------------------------------------------------------------------
\* get, c_get, visit and the comparisons give the object or throw.
Get(v, t) ==
  /\ v \in exists
  /\ \/ m_type_index[v] = t /\ m_data[v] = Nothing /\ Ends("undefined")
     \/ m_type_index[v] = t /\ m_data[v] # Nothing /\ Untouched /\ Returns("get", v, v)
     \/ m_type_index[v] # t /\ Untouched /\ Throws("get", v)

\* deserialize() when the name of the property is no number, or the number i.
Deserialize(v, i) ==
  /\ v \in exists
  /\ \/ Replace(v, AfterReset(v), Put(v, Nothing)) /\ Throws("deserialize", v)
     \/ /\ i < 0 /\ Replace(v, i, Put(v, Nothing))
        /\ Returns("deserialize", v, v) \/ Throws("deserialize", v)
     \/ i >= Size /\ Replace(v, i, Put(v, Nothing)) /\ Throws("deserialize", v)
     \/ i \in Alternatives /\ ~ nothrow /\ Replace(v, i, Put(v, Nothing)) /\ Throws("deserialize", v)
     \/ /\ i \in Alternatives
        /\ \E value \in Values : Replace(v, i, Put(v, [type |-> i, value |-> value]))
        /\ Returns("deserialize", v, v) \/ Throws("deserialize", v)

Next ==
  /\ status = "running"
  /\ UNCHANGED kind
  /\ \E v \in Variants :
       \/ Default(v) \/ Destroy(v) \/ Reset(v) \/ ResetFails(v)
       \/ \E t \in Alternatives, x \in Values :
            FromValue(v, [type |-> t, value |-> x]) \/ AssignValue(v, [type |-> t, value |-> x])
       \/ \E w \in Variants :
            CopyConstruct(v, w) \/ MoveConstruct(v, w) \/ CopyAssign(v, w) \/ MoveAssign(v, w)
       \/ \E t \in Alternatives : Get(v, t)
       \/ \E i \in -2..Size : Deserialize(v, i)

Spec == Init /\ [][Next]_vars

-----------------------------------------------------------------------------
TypeOK ==
  /\ exists \subseteq Variants
  /\ m_type_index \in [Variants -> -2..Size]
  /\ m_data \in [Variants -> Objects \cup {Nothing}]
  /\ move_assigns \in BOOLEAN /\ nothrow \in BOOLEAN
  /\ {born, destroyed, leaked} \subseteq 0..MaxBorn
  /\ status \in {"running", "terminated", "undefined"}

\* Every object that was constructed in the storage of a variant lives there,
\* was destroyed once, or was left behind by the destructor of its variant:
\* no assignment, reset, move or failed deserialize builds over an object or
\* destroys one that is not there (reset and the placement news of variant.h).
Accounted ==
  /\ born = Count(m_data) + destroyed + leaked
  /\ \A v \in Variants : m_data[v] # Nothing => v \in exists /\ m_type_index[v] = m_data[v].type

\* v claims an alternative that it does not hold.
Broken(v) == v \in exists /\ m_type_index[v] >= 0 /\ ~ Holds(v)

\* A variant comes to claim an alternative that it does not hold only by a call
\* that threw: after calls that return, get and visit find what the index names.
OnlyExceptionsBreak ==
  [][\A v \in Variants : Broken(v)' /\ ~ Broken(v) => last'.threw /\ last'.on = v]_vars

\* An assignment that returns leaves its target with the alternative of its
\* source, or with none if that has none, and with its value if the target had
\* another alternative; and whether it returns or throws, it leaves every other
\* variant its alternative.
AssignmentTakes ==
  [][status' = "running" /\ last'.call = "assign" =>
       /\ ~ last'.threw =>
            /\ \/ m_type_index'[last'.on] = m_type_index[last'.from]
               \/ m_type_index'[last'.on] < 0 /\ m_type_index[last'.from] < 0
            /\ m_data'[last'.on] = m_data[last'.from]
       /\ \A v \in Variants \ {last'.on} : m_type_index'[v] = m_type_index[v]]_vars

\* The destructor of a variant does not throw, as the comment in it says (a
\* destructor that throws ends the program).
DestructorDoesNotThrow ==
  [][(\E v \in Variants : Destroy(v)) => status' # "terminated"]_vars
=============================================================================

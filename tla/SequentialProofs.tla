------------------------- MODULE SequentialProofs --------------------------
(***************************************************************************)
(* Proofs about three components of which no other thread hears.           *)
(*                                                                         *)
(* Variant, for any variants, alternatives and values: that every object   *)
(* is accounted for, that only calls that threw leave a variant with an    *)
(* alternative it does not hold, and what an assignment leaves behind.     *)
(*                                                                         *)
(* UnitTest, for any numbers of fixtures, tests, groups, cases and         *)
(* failures: that a test reports each failure once, and that the exit      *)
(* status is right about the tests that were selected.                     *)
(*                                                                         *)
(* JsonSerializer, for any types and values, nested in any way: that one   *)
(* m_first is enough, a comma is written between two values and nowhere    *)
(* else.                                                                   *)
(***************************************************************************)
EXTENDS Variant, UnitTest, JsonSerializer, FiniteSetTheorems, WellFoundedInduction, TLAPS

-----------------------------------------------------------------------------
(***************************************************************************)
(* Variant.                                                                *)
(***************************************************************************)
\* Outside of its lifetime a variant has nothing.
Absent == \A v \in Variants \ exists : m_type_index[v] = -1 /\ m_data[v] = Nothing

\* The inductive invariant.
IInv == TypeOK /\ Absent /\ Accounted

One(object) == IF object = Nothing THEN 0 ELSE 1

-----------------------------------------------------------------------------
\* How many objects there are is a number.
LEMMA CountType ==
  ASSUME NEW d PROVE IsFiniteSet({v \in Variants : d[v] # Nothing}) /\ Count(d) \in Nat
<1>1. IsFiniteSet({v \in Variants : d[v] # Nothing})
  BY VariantAssumption, FS_Subset
<1>2. QED BY <1>1, FS_CardinalityType DEF Count

\* It changes with what one variant has, where the others have something or
\* nothing as before.
LEMMA CountChanges ==
  ASSUME NEW d, NEW e, NEW v \in Variants,
         \A u \in Variants \ {v} : e[u] = Nothing <=> d[u] = Nothing
  PROVE  Count(e) + One(d[v]) = Count(d) + One(e[v])
<1> DEFINE others == {u \in Variants \ {v} : d[u] # Nothing}
<1>1. IsFiniteSet(others) /\ v \notin others
  <2>1. others \subseteq Variants
    OBVIOUS
  <2>2. IsFiniteSet(others)
    BY <2>1, VariantAssumption, FS_Subset
  <2>3. QED BY <2>2
<1>2. ASSUME NEW f, \A u \in Variants \ {v} : f[u] = Nothing <=> d[u] = Nothing
      PROVE  Count(f) = Cardinality(others) + One(f[v])
  <2>1. CASE f[v] = Nothing
    <3>1. {u \in Variants : f[u] # Nothing} = others
      BY <1>2, <2>1
    <3>2. Cardinality(others) \in Nat
      BY <1>1, FS_CardinalityType
    <3>3. Count(f) = Cardinality(others)
      BY <3>1 DEF Count
    <3>4. QED BY <2>1, <3>2, <3>3 DEF One
  <2>2. CASE f[v] # Nothing
    <3>1. {u \in Variants : f[u] # Nothing} = others \cup {v}
      BY <1>2, <2>2
    <3>2. Cardinality(others \cup {v}) = Cardinality(others) + 1
      BY <1>1, FS_AddElement
    <3>3. QED BY <2>2, <3>1, <3>2 DEF Count, One
  <2>3. QED BY <2>1, <2>2
<1>3. Count(d) = Cardinality(others) + One(d[v]) /\ Count(e) = Cardinality(others) + One(e[v])
  BY <1>2
<1>4. Cardinality(others) \in Nat
  BY <1>1, FS_CardinalityType
<1>5. QED BY <1>3, <1>4 DEF One

\* The initial states satisfy the invariant.
LEMMA InvInit == Init => IInv
<1> SUFFICES ASSUME Init PROVE IInv
  OBVIOUS
<1>1. {v \in Variants : m_data[v] # Nothing} = {}
  BY DEF Init
<1>2. Count(m_data) = 0
  BY <1>1, FS_EmptySet DEF Count
<1>3. QED
  BY <1>2, VariantAssumption DEF Init, IInv, TypeOK, Absent, Accounted

-----------------------------------------------------------------------------
\* What v may have after a call: nothing, an object, or that of another.
New(v, index, data) ==
  \/ data = Put(v, Nothing)
  \/ \E object \in Objects : data = Put(v, object) /\ index = object.type
  \/ \E w \in Variants \ {v} : Holds(w) /\ data = PutMoved(v, w) /\ index = m_type_index[w]

\* The index is as good as what the call has done, unless it threw.
Told(v, index, data) ==
  \/ index < 0 \/ data[v] # Nothing
  \/ last'.threw /\ last'.on = v

Builds(v) ==
  \E index \in -2..Size : \E data :
    /\ New(v, index, data) /\ Told(v, index, data)
    /\ \/ v \in exists /\ Replace(v, index, data)
       \/ v \notin exists /\ Begin(v, index, data)

\* The lifetime of v ends, and with it that of its storage.
Goes(v) ==
  /\ v \in exists
  /\ exists' = exists \ {v}
  /\ leaked' = leaked + One(m_data[v])
  /\ m_type_index' = [m_type_index EXCEPT ![v] = -1]
  /\ m_data' = Put(v, Nothing)
  /\ UNCHANGED <<born, destroyed>>

\* The object of v has another value.
Assigned(v) ==
  /\ Holds(v)
  /\ \E value \in Values \cup {Moved} : m_data' = [m_data EXCEPT ![v].value = value]
  /\ UNCHANGED <<exists, m_type_index, born, destroyed, leaked>>

Change == \E v \in Variants : Untouched \/ Builds(v) \/ Goes(v) \/ Assigned(v)

\* A variant that holds something holds an object of its alternative.
LEMMA HeldObject ==
  ASSUME IInv, NEW w \in Variants
  PROVE  /\ Holds(w) <=> m_data[w] # Nothing
         /\ Holds(w) => m_data[w] \in Objects /\ m_type_index[w] = m_data[w].type
                          /\ m_data[w].type \in Alternatives
         /\ m_type_index[w] \in -2..Size
  BY DEF IInv, TypeOK, Accounted, Holds, Objects

\* What does not concern v stays as it was, but for the value of an object
\* that was moved from.
LEMMA NewKeeps ==
  ASSUME IInv, NEW v \in Variants, NEW index \in -2..Size, NEW data, New(v, index, data)
  PROVE  /\ data \in [Variants -> Objects \cup {Nothing}]
         /\ \A u \in Variants \ {v} : /\ data[u] = Nothing <=> m_data[u] = Nothing
                                      /\ data[u] # Nothing => data[u].type = m_data[u].type
         /\ data[v] # Nothing => index = data[v].type
<1> USE VariantAssumption DEF IInv, TypeOK
<1>1. CASE data = Put(v, Nothing)
  BY <1>1 DEF Put
<1>2. ASSUME NEW object \in Objects, data = Put(v, object), index = object.type
      PROVE  /\ data \in [Variants -> Objects \cup {Nothing}] /\ data[v] = object
             /\ \A u \in Variants \ {v} : data[u] = m_data[u]
  BY <1>2 DEF Put
<1>3. ASSUME NEW w \in Variants \ {v}, Holds(w), data = PutMoved(v, w), index = m_type_index[w]
      PROVE  /\ data \in [Variants -> Objects \cup {Nothing}] /\ data[v] = m_data[w]
             /\ \A u \in Variants \ {v, w} : data[u] = m_data[u]
             /\ m_data[w] # Nothing /\ data[w] # Nothing
             /\ data[w].type = m_data[w].type /\ index = m_data[w].type
  <2>1. m_data[w] \in Objects /\ m_type_index[w] = m_data[w].type /\ m_data[w] # Nothing
    BY <1>3, HeldObject
  <2>2. [type |-> m_data[w].type, value |-> Moved] \in Objects
    BY <2>1 DEF Objects
  <2>3. data = [m_data EXCEPT ![v] = m_data[w], ![w] = [type |-> m_data[w].type, value |-> Moved]]
    BY <1>3 DEF PutMoved
  <2>4. /\ data[v] = m_data[w] /\ data[w] = [type |-> m_data[w].type, value |-> Moved]
        /\ \A u \in Variants \ {v, w} : data[u] = m_data[u]
        /\ data \in [Variants -> Objects \cup {Nothing}]
    BY <2>1, <2>2, <2>3
  <2>5. QED BY <1>3, <2>1, <2>2, <2>4
<1>4. QED BY <1>1, <1>2, <1>3 DEF New, Put

\* What a change of one variant does to the balance.
LEMMA ChangeKeeps ==
  ASSUME IInv, Change, UNCHANGED kind, status' \in {"running", "terminated", "undefined"}
  PROVE  IInv'
<1> USE VariantAssumption DEF IInv, kind
<1>1. CASE Untouched
  BY <1>1 DEF Untouched, TypeOK, Absent, Accounted, Count
<1>2. ASSUME NEW v \in Variants, Builds(v) PROVE IInv'
  <2>1. PICK index \in -2..Size : \E data :
          /\ New(v, index, data)
          /\ \/ v \in exists /\ Replace(v, index, data)
             \/ v \notin exists /\ Begin(v, index, data)
    BY <1>2 DEF Builds
  <2>2. /\ New(v, index, m_data')
        /\ \/ v \in exists /\ Replace(v, index, m_data')
           \/ v \notin exists /\ Begin(v, index, m_data')
    BY <2>1 DEF Replace, Begin
  <2>3. /\ m_data' \in [Variants -> Objects \cup {Nothing}]
        /\ \A u \in Variants \ {v} : /\ m_data'[u] = Nothing <=> m_data[u] = Nothing
                                     /\ m_data'[u] # Nothing => m_data'[u].type = m_data[u].type
        /\ m_data'[v] # Nothing => index = m_data'[v].type
    BY <2>2, NewKeeps
  <2>4. /\ v \in exists' /\ exists' = exists \cup {v} /\ leaked' = leaked
        /\ m_type_index' = [m_type_index EXCEPT ![v] = index]
        /\ born' = born + One(m_data'[v]) /\ born' <= MaxBorn
        /\ destroyed' = destroyed + One(m_data[v])
    <3>1. CASE v \in exists /\ Replace(v, index, m_data')
      BY <3>1, HeldObject DEF Replace, One
    <3>2. CASE v \notin exists /\ Begin(v, index, m_data')
      <4>1. m_data[v] = Nothing
        BY <3>2 DEF Absent
      <4>2. QED BY <3>2, <4>1 DEF Begin, One, TypeOK
    <3>3. QED BY <2>2, <3>1, <3>2
  <2>5. Count(m_data') + One(m_data[v]) = Count(m_data) + One(m_data'[v])
    <3>1. \A u \in Variants \ {v} : m_data'[u] = Nothing <=> m_data[u] = Nothing
      BY <2>3
    <3>2. QED BY ONLY <3>1, CountChanges
  <2>6. Count(m_data) \in Nat /\ Count(m_data') \in Nat
    BY CountType
  <2>7. /\ born' = Count(m_data') + destroyed' + leaked'
        /\ {born', destroyed', leaked'} \subseteq 0..MaxBorn
    BY <2>4, <2>5, <2>6 DEF One, Accounted, TypeOK
  <2>8. TypeOK'
    BY <2>3, <2>4, <2>7 DEF TypeOK
  <2>9. Absent'
    BY <2>3, <2>4 DEF Absent, TypeOK
  <2>10. Accounted'
    <3>1. \A u \in Variants : m_data'[u] # Nothing => u \in exists' /\ m_type_index'[u] = m_data'[u].type
      BY <2>3, <2>4 DEF Accounted, TypeOK
    <3>2. QED BY <2>7, <3>1 DEF Accounted
  <2>11. QED BY <2>8, <2>9, <2>10
<1>3. ASSUME NEW v \in Variants, Goes(v) PROVE IInv'
  <2>1. /\ exists' = exists \ {v} /\ leaked' = leaked + One(m_data[v])
        /\ m_type_index' = [m_type_index EXCEPT ![v] = -1]
        /\ m_data' = [m_data EXCEPT ![v] = Nothing]
        /\ UNCHANGED <<born, destroyed>>
    BY <1>3 DEF Goes, Put
  <2>2. /\ \A u \in Variants \ {v} : m_data'[u] = m_data[u]
        /\ m_data'[v] = Nothing
    BY <2>1 DEF TypeOK
  <2>3. Count(m_data') + One(m_data[v]) = Count(m_data)
    <3>1. \A u \in Variants \ {v} : m_data'[u] = Nothing <=> m_data[u] = Nothing
      BY <2>2
    <3>2. Count(m_data') + One(m_data[v]) = Count(m_data) + One(m_data'[v])
      BY ONLY <3>1, CountChanges
    <3>3. One(m_data'[v]) = 0 /\ Count(m_data) \in Nat
      BY <2>2, CountType DEF One
    <3>4. QED BY ONLY <3>2, <3>3
  <2>4. Count(m_data) \in Nat /\ Count(m_data') \in Nat
    BY CountType
  <2>5. /\ born' = Count(m_data') + destroyed' + leaked'
        /\ {born', destroyed', leaked'} \subseteq 0..MaxBorn
    BY <2>1, <2>3, <2>4 DEF One, Accounted, TypeOK
  <2>6. TypeOK' /\ Absent'
    BY <2>1, <2>5 DEF TypeOK, Absent
  <2>7. Accounted'
    <3>1. \A u \in Variants : m_data'[u] # Nothing => u \in exists' /\ m_type_index'[u] = m_data'[u].type
      BY <2>1 DEF Accounted, TypeOK
    <3>2. QED BY <2>5, <3>1 DEF Accounted
  <2>8. QED BY <2>6, <2>7
<1>4. ASSUME NEW v \in Variants, Assigned(v) PROVE IInv'
  <2>1. PICK value \in Values \cup {Moved} : m_data' = [m_data EXCEPT ![v].value = value]
    BY <1>4 DEF Assigned
  <2>2. /\ m_data[v] \in Objects /\ m_type_index[v] = m_data[v].type /\ m_data[v] # Nothing
        /\ UNCHANGED <<exists, m_type_index, born, destroyed, leaked>>
    BY <1>4, HeldObject DEF Assigned
  <2>3. /\ m_data' \in [Variants -> Objects \cup {Nothing}]
        /\ m_data'[v] \in Objects /\ m_data'[v].type = m_data[v].type
        /\ \A u \in Variants \ {v} : m_data'[u] = m_data[u]
    BY <2>1, <2>2 DEF Objects, TypeOK
  <2>4. Count(m_data') = Count(m_data)
    <3>1. \A u \in Variants \ {v} : m_data'[u] = Nothing <=> m_data[u] = Nothing
      BY <2>3
    <3>2. Count(m_data') + One(m_data[v]) = Count(m_data) + One(m_data'[v])
      BY ONLY <3>1, CountChanges
    <3>3. One(m_data'[v]) = 1 /\ One(m_data[v]) = 1
      BY <2>2, <2>3 DEF One
    <3>4. Count(m_data) \in Nat /\ Count(m_data') \in Nat
      BY CountType
    <3>5. QED BY ONLY <3>2, <3>3, <3>4
  <2>5. QED BY <2>2, <2>3, <2>4 DEF TypeOK, Absent, Accounted
<1>5. QED BY <1>1, <1>2, <1>3, <1>4 DEF Change

-----------------------------------------------------------------------------
Statuses == {"running", "terminated", "undefined"}

\* A call that replaces what v has, or begins it.
LEMMA Building ==
  ASSUME NEW v \in Variants, NEW index \in -2..Size, NEW data,
         New(v, index, data), Told(v, index, data),
         \/ v \in exists /\ Replace(v, index, data)
         \/ v \notin exists /\ Begin(v, index, data)
  PROVE  Change
  BY DEF Change, Builds

\* What is put into v is there.
LEMMA PutIsNew ==
  ASSUME IInv, NEW v \in Variants
  PROVE  /\ \A index : New(v, index, Put(v, Nothing))
         /\ \A object \in Objects : /\ New(v, object.type, Put(v, object))
                                    /\ Put(v, object)[v] # Nothing
                                    /\ object.type \in -2..Size
         /\ \A w \in Variants \ {v} : Holds(w) =>
              /\ m_type_index[w] \in -2..Size
              /\ New(v, m_type_index[w], Put(v, m_data[w])) /\ Put(v, m_data[w])[v] # Nothing
              /\ New(v, m_type_index[w], PutMoved(v, w)) /\ PutMoved(v, w)[v] # Nothing
<1> USE VariantAssumption DEF IInv, TypeOK
<1>1. \A index : New(v, index, Put(v, Nothing))
  BY DEF New
<1>2. ASSUME NEW object \in Objects
      PROVE  /\ New(v, object.type, Put(v, object))
             /\ Put(v, object)[v] # Nothing /\ object.type \in -2..Size
  <2>1. Put(v, object)[v] = object
    BY DEF Put
  <2>2. object.type \in -2..Size
    BY DEF Objects, Alternatives
  <2>3. QED BY <2>1, <2>2 DEF New
<1>3. ASSUME NEW w \in Variants \ {v}, Holds(w)
      PROVE  /\ m_type_index[w] \in -2..Size
             /\ New(v, m_type_index[w], Put(v, m_data[w])) /\ Put(v, m_data[w])[v] # Nothing
             /\ New(v, m_type_index[w], PutMoved(v, w)) /\ PutMoved(v, w)[v] # Nothing
  <2>1. m_data[w] \in Objects /\ m_data[w] # Nothing /\ m_type_index[w] = m_data[w].type
    BY <1>3, HeldObject
  <2>2. Put(v, m_data[w])[v] = m_data[w] /\ PutMoved(v, w)[v] = m_data[w]
    BY DEF Put, PutMoved
  <2>3. QED BY <1>3, <2>1, <2>2 DEF New
<1>4. QED BY <1>1, <1>2, <1>3

\* The constructors and the destructor.
LEMMA LifetimeChanges ==
  ASSUME IInv, status = "running", NEW v \in Variants,
         \/ Default(v) \/ Destroy(v)
         \/ \E object \in Objects : FromValue(v, object)
         \/ \E w \in Variants : CopyConstruct(v, w) \/ MoveConstruct(v, w)
  PROVE  Change /\ status' \in Statuses
<1> USE DEF Statuses, Returns, Throws, Ends
<1>0. v \notin exists => m_data = Put(v, Nothing)
  BY DEF IInv, TypeOK, Absent, Put
<1>1. CASE Default(v)
  <2>1. New(v, -1, m_data) /\ Told(v, -1, m_data) /\ -1 \in -2..Size
    BY <1>0, <1>1, VariantAssumption DEF Default, New, Told
  <2>2. QED BY <1>1, <2>1, Building DEF Default
<1>2. CASE Destroy(v)
  BY <1>2 DEF Destroy, Change, Untouched, Goes, One
<1>3. ASSUME NEW object \in Objects, FromValue(v, object) PROVE Change /\ status' \in Statuses
  <2>1. CASE Untouched
    BY <1>3, <2>1 DEF FromValue, Change
  <2>2. CASE Begin(v, object.type, Put(v, object))
    BY <1>3, <2>2, PutIsNew, Building DEF FromValue, Told
  <2>3. QED BY <1>3, <2>1, <2>2 DEF FromValue
<1>4. ASSUME NEW w \in Variants, NEW data, FromVariant(v, w, data),
             Holds(w) => data = Put(v, m_data[w]) \/ data = PutMoved(v, w)
      PROVE  Change /\ status' \in Statuses
  <2>0. v # w /\ v \notin exists
    BY <1>4 DEF FromVariant
  <2>1. CASE Untouched
    BY <1>4, <2>1 DEF FromVariant, Change
  <2>2. CASE Holds(w) /\ Begin(v, m_type_index[w], data)
    BY <1>4, <2>0, <2>2, PutIsNew, Building DEF FromVariant, Told
  <2>3. CASE Begin(v, -1, m_data)
    <3>1. New(v, -1, m_data) /\ Told(v, -1, m_data) /\ -1 \in -2..Size
      BY <1>0, <2>0, VariantAssumption DEF New, Told
    <3>2. QED BY <1>4, <2>0, <2>3, <3>1, Building DEF FromVariant
  <2>4. QED BY <1>4, <2>1, <2>2, <2>3 DEF FromVariant, Change, Untouched
<1>5. QED
  BY <1>1, <1>2, <1>3, <1>4 DEF CopyConstruct, MoveConstruct

\* The assignments.
LEMMA AssignmentChanges ==
  ASSUME IInv, status = "running", NEW v \in Variants,
         \/ Reset(v)
         \/ \E object \in Objects : AssignValue(v, object)
         \/ \E w \in Variants : CopyAssign(v, w) \/ MoveAssign(v, w)
  PROVE  Change /\ status' \in Statuses
<1> USE DEF Statuses, Returns, Throws, Ends
<1>0. AfterReset(v) < 0 /\ AfterReset(v) \in -2..Size
  BY VariantAssumption DEF AfterReset, IInv, TypeOK
<1>1. CASE Reset(v)
  <2>1. Told(v, AfterReset(v), Put(v, Nothing))
    BY <1>0 DEF Told
  <2>2. QED BY <1>0, <1>1, <2>1, PutIsNew, Building DEF Reset
<1>2. ASSUME NEW object \in Objects, AssignValue(v, object) PROVE Change /\ status' \in Statuses
  <2>1. CASE Replace(v, object.type, Put(v, object)) /\ Returns("assign value", v, v)
    <3>1. Told(v, object.type, Put(v, object)) /\ v \in exists
      BY <1>2, PutIsNew DEF Told, AssignValue
    <3>2. QED BY <2>1, <3>1, PutIsNew, Building
  <2>2. CASE Replace(v, object.type, Put(v, Nothing)) /\ Throws("assign value", v)
    <3>1. Told(v, object.type, Put(v, Nothing)) /\ v \in exists
      BY <1>2, <2>2 DEF Told, AssignValue
    <3>2. QED BY <2>2, <3>1, PutIsNew, Building
  <2>3. QED BY <1>2, <2>1, <2>2 DEF AssignValue
<1>3. ASSUME NEW w \in Variants \ {v}, v \in exists, NEW data, Take(v, w, data),
             Holds(w) => data = Put(v, m_data[w]) \/ data = PutMoved(v, w)
      PROVE  Change /\ status' \in Statuses
  <2>1. m_type_index[w] \in -2..Size
    BY HeldObject
  <2>2. CASE Holds(w) /\ Replace(v, m_type_index[w], data)
    BY <1>3, <2>1, <2>2, PutIsNew, Building DEF Told, Take
  <2>3. CASE Replace(v, m_type_index[w], Put(v, Nothing)) /\ Throws("assign", v)
    BY <1>3, <2>1, <2>3, PutIsNew, Building DEF Told
  <2>4. QED BY <1>3, <2>2, <2>3 DEF Take, Change, Untouched
<1>4. ASSUME NEW w \in Variants, v \in exists, m_type_index[w] < 0,
             Replace(v, m_type_index[w], Put(v, Nothing)) /\ Throws("assign", v)
      PROVE  Change /\ status' \in Statuses
  <2>1. m_type_index[w] \in -2..Size
    BY HeldObject
  <2>2. QED BY <1>4, <2>1, PutIsNew, Building DEF Told
<1>5. ASSUME NEW w \in Variants, CopyAssign(v, w) PROVE Change /\ status' \in Statuses
  BY <1>3, <1>4, <1>5 DEF CopyAssign
<1>6. CASE MoveAssignSame(v)
  <2>1. CASE Holds(v)
    <3>1. m_data[v].value \in Values \cup {Moved}
      BY <2>1, HeldObject DEF Objects
    <3>2. CASE Assigned(v) /\ UNCHANGED status
      BY <3>2 DEF Change
    <3>3. QED BY <1>6, <2>1, <3>1, <3>2 DEF MoveAssignSame, Assigned, Hollow, Holds
  <2>2. CASE ~ Holds(v)
    BY <1>6, <2>2 DEF MoveAssignSame, Change, Untouched
  <2>3. QED BY <2>1, <2>2
<1>7. ASSUME NEW w \in Variants, MoveAssign(v, w) PROVE Change /\ status' \in Statuses
  <2>1. CASE MoveAssignSame(v)
    BY <1>6, <2>1
  <2>2. CASE Take(v, w, IF Holds(w) THEN PutMoved(v, w) ELSE m_data)
    <3>1. w # v /\ v \in exists
      BY <1>7 DEF MoveAssign
    <3>2. QED BY <1>3, <2>2, <3>1
  <2>3. CASE Replace(v, AfterReset(v), Put(v, Nothing)) /\ Returns("assign", v, w)
    <3>1. Told(v, AfterReset(v), Put(v, Nothing)) /\ v \in exists
      BY <1>0, <1>7 DEF Told, MoveAssign
    <3>2. QED BY <1>0, <2>3, <3>1, PutIsNew, Building
  <2>4. QED BY <1>4, <1>7, <2>1, <2>2, <2>3 DEF MoveAssign
<1>8. QED BY <1>1, <1>2, <1>5, <1>7

\* A document that is read into a variant.
LEMMA ReadingChanges ==
  ASSUME IInv, status = "running", NEW v \in Variants, NEW i \in -2..Size, Deserialize(v, i)
  PROVE  Change /\ status' \in Statuses
<1> USE DEF Statuses, Returns, Throws
<1>0. /\ AfterReset(v) < 0 /\ AfterReset(v) \in -2..Size
      /\ v \in exists /\ status' = status
  BY VariantAssumption DEF AfterReset, IInv, TypeOK, Deserialize
<1>1. CASE Replace(v, AfterReset(v), Put(v, Nothing))
  <2>1. Told(v, AfterReset(v), Put(v, Nothing))
    BY <1>0 DEF Told
  <2>2. QED BY <1>0, <1>1, <2>1, PutIsNew, Building
<1>2. CASE Replace(v, i, Put(v, Nothing)) /\ (i < 0 \/ Throws("deserialize", v))
  <2>1. Told(v, i, Put(v, Nothing))
    BY <1>2 DEF Told
  <2>2. QED BY <1>0, <1>2, <2>1, PutIsNew, Building
<1>3. ASSUME i \in Alternatives, NEW value \in Values,
             Replace(v, i, Put(v, [type |-> i, value |-> value]))
      PROVE  Change /\ status' \in Statuses
  <2>1. [type |-> i, value |-> value] \in Objects /\ [type |-> i, value |-> value].type = i
    BY <1>3 DEF Objects
  <2>2. /\ New(v, i, Put(v, [type |-> i, value |-> value]))
        /\ Told(v, i, Put(v, [type |-> i, value |-> value]))
    BY <2>1, PutIsNew DEF Told
  <2>3. QED BY <1>0, <1>3, <2>2, Building
<1>4. QED BY <1>0, <1>1, <1>2, <1>3 DEF Deserialize

\* Whatever is called, one variant changes, or none.
LEMMA StepChanges ==
  ASSUME IInv, Next PROVE Change /\ UNCHANGED kind /\ status' \in Statuses
<1>1. status = "running" /\ UNCHANGED kind
  BY DEF Next
<1>2. \A t \in Alternatives, x \in Values : [type |-> t, value |-> x] \in Objects
  BY DEF Objects
<1>3. ASSUME NEW v \in Variants, ResetFails(v) PROVE Change /\ status' \in Statuses
  BY <1>3 DEF ResetFails, Ends, Change, Untouched, Statuses
<1>4. ASSUME NEW v \in Variants, NEW t \in Alternatives, Get(v, t)
      PROVE  Change /\ status' \in Statuses
  BY <1>1, <1>4 DEF Get, Ends, Returns, Throws, Change, Untouched, Statuses
<1>5. ASSUME NEW v \in Variants,
             \/ Default(v) \/ Destroy(v) \/ Reset(v)
             \/ \E t \in Alternatives, x \in Values :
                  FromValue(v, [type |-> t, value |-> x]) \/ AssignValue(v, [type |-> t, value |-> x])
             \/ \E w \in Variants :
                  CopyConstruct(v, w) \/ MoveConstruct(v, w) \/ CopyAssign(v, w) \/ MoveAssign(v, w)
      PROVE  Change /\ status' \in Statuses
  BY <1>1, <1>2, <1>5, LifetimeChanges, AssignmentChanges
<1>6. ASSUME NEW v \in Variants, NEW i \in -2..Size, Deserialize(v, i)
      PROVE  Change /\ status' \in Statuses
  BY <1>1, <1>6, ReadingChanges
<1>7. QED BY <1>1, <1>3, <1>4, <1>5, <1>6 DEF Next

\* Every step keeps the invariant.
LEMMA InvNext == IInv /\ [Next]_vars => IInv'
<1> SUFFICES ASSUME IInv, [Next]_vars PROVE IInv'
  OBVIOUS
<1>1. CASE Next
  BY <1>1, StepChanges, ChangeKeeps DEF Statuses
<1>2. CASE UNCHANGED vars
  BY <1>2 DEF vars, IInv, TypeOK, Absent, Accounted, Count
<1>3. QED BY <1>1, <1>2

\* The inductive invariant is one.
LEMMA Invariance == Spec => []IInv
  BY InvInit, InvNext, PTL DEF Spec

\* Type correctness of the variants.
THEOREM TypeCorrect == Spec => []TypeOK
  BY Invariance, PTL DEF IInv

\* However variants are made, assigned, moved, read and destroyed, every object
\* in their storage is destroyed once or left behind by the destructor of its
\* variant: nothing is built over an object, nothing is destroyed twice.
THEOREM EveryObjectAccounted == Spec => []Accounted
  BY Invariance, PTL DEF IInv

-----------------------------------------------------------------------------
\* Only a call that threw leaves a variant that claims what it does not hold.
THEOREM ExceptionsBreak == Spec => OnlyExceptionsBreak
<1>1. ASSUME IInv, [Next]_vars
      PROVE  [\A v \in Variants : Broken(v)' /\ ~ Broken(v) => last'.threw /\ last'.on = v]_vars
  <2> SUFFICES ASSUME Next, NEW u \in Variants, Broken(u)', ~ Broken(u)
               PROVE  last'.threw /\ last'.on = u
    BY <1>1
  <2> USE <1>1 DEF IInv, Broken, Holds
  <2>1. PICK v \in Variants : Untouched \/ Builds(v) \/ Goes(v) \/ Assigned(v)
    BY StepChanges DEF Change
  <2>2. CASE Untouched
    BY <2>2 DEF Untouched
  <2>3. CASE Builds(v)
    <3>1. PICK index \in -2..Size :
            /\ New(v, index, m_data') /\ Told(v, index, m_data')
            /\ exists' = exists \cup {v} /\ m_type_index' = [m_type_index EXCEPT ![v] = index]
      BY <2>3 DEF Builds, Replace, Begin
    <3>2. /\ \A x \in Variants \ {v} : m_data'[x] = Nothing <=> m_data[x] = Nothing
          /\ m_data'[v] # Nothing => index = m_data'[v].type
          /\ m_data' \in [Variants -> Objects \cup {Nothing}]
      BY <3>1, NewKeeps
    <3>3. u = v
      BY <3>1, <3>2 DEF TypeOK
    <3>4. m_type_index'[v] = index
      BY <3>1 DEF TypeOK
    <3>5. m_data'[v] # Nothing => index \in Alternatives
      BY <3>2 DEF Objects
    <3>6. ~ (index < 0) /\ m_data'[v] = Nothing
      BY <3>1, <3>3, <3>4, <3>5
    <3>7. QED BY <3>1, <3>3, <3>6 DEF Told
  <2>4. CASE Goes(v)
    BY <2>4 DEF Goes, Put, TypeOK
  <2>5. CASE Assigned(v)
    <3>1. PICK value \in Values \cup {Moved} : m_data' = [m_data EXCEPT ![v].value = value]
      BY <2>5 DEF Assigned
    <3>2. m_data[v] \in Objects
      BY <2>5, HeldObject DEF Assigned
    <3>3. \A x \in Variants : m_data'[x] = Nothing => m_data[x] = Nothing
      BY <3>1, <3>2, VariantAssumption DEF TypeOK, Objects
    <3>4. QED BY <2>5, <3>3 DEF Assigned
  <2>6. QED BY <2>1, <2>2, <2>3, <2>4, <2>5
<1>2. QED BY <1>1, Invariance, PTL DEF Spec, OnlyExceptionsBreak

-----------------------------------------------------------------------------
\* What the target of the last assignment has got from its source.
Taken ==
  \/ status' # "running"
  \/ /\ ~ last'.threw =>
          /\ \/ m_type_index'[last'.on] = m_type_index[last'.from]
             \/ m_type_index'[last'.on] < 0 /\ m_type_index[last'.from] < 0
          /\ m_data'[last'.on] = m_data[last'.from]
     /\ \A v \in Variants \ {last'.on} : m_type_index'[v] = m_type_index[v]

\* One variant gives up what it has for what another has.
LEMMA TakeTakes ==
  ASSUME IInv, NEW v \in Variants, NEW w \in Variants \ {v}, NEW data, Take(v, w, data),
         Holds(w) => data[v] = m_data[w]
  PROVE  Taken
<1> USE DEF Returns, Throws, Ends, IInv, TypeOK
<1>1. CASE Holds(w) /\ Replace(v, m_type_index[w], data) /\ Returns("assign", v, w)
  BY <1>1 DEF Replace, Taken
<1>2. CASE Replace(v, m_type_index[w], Put(v, Nothing)) /\ Throws("assign", v)
  BY <1>2 DEF Replace, Taken
<1>3. CASE Ends("undefined")
  BY <1>3 DEF Taken
<1>4. QED BY <1>1, <1>2, <1>3 DEF Take

\* The two assignments between variants.
LEMMA AssignmentsTake ==
  ASSUME IInv, status = "running", NEW v \in Variants, NEW w \in Variants,
         CopyAssign(v, w) \/ (MoveAssign(v, w) /\ last'.call = "assign")
  PROVE  Taken
<1> USE DEF Returns, Throws, Ends, IInv, TypeOK
<1>0. w \in Variants \ {v} /\ Put(v, m_data[w])[v] = m_data[w] /\ PutMoved(v, w)[v] = m_data[w]
  BY DEF CopyAssign, MoveAssign, Put, PutMoved
<1>1. CASE Take(v, w, Put(v, m_data[w]))
  BY <1>0, <1>1, TakeTakes
<1>2. CASE Take(v, w, IF Holds(w) THEN PutMoved(v, w) ELSE m_data)
  BY <1>0, <1>2, TakeTakes
<1>3. CASE Replace(v, m_type_index[w], Put(v, Nothing)) /\ Throws("assign", v)
  BY <1>3 DEF Replace, Taken
<1>4. CASE /\ Replace(v, AfterReset(v), Put(v, Nothing)) /\ Returns("assign", v, w)
           /\ m_type_index[w] < 0
  <2>1. AfterReset(v) < 0
    BY DEF AfterReset
  <2>2. m_data[w] = Nothing
    BY <1>4, HeldObject DEF Alternatives, Holds
  <2>3. /\ m_type_index' = [m_type_index EXCEPT ![v] = AfterReset(v)]
        /\ m_data' = [m_data EXCEPT ![v] = Nothing]
        /\ last'.on = v /\ last'.from = w
    BY <1>4 DEF Replace, Put
  <2>4. QED BY <1>4, <2>1, <2>2, <2>3 DEF Taken
<1>5. CASE MoveAssignSame(v) /\ last'.call = "assign"
  <2>1. CASE Ends("undefined")
    BY <2>1 DEF Taken
  <2>2. CASE Untouched /\ Throws("assign", v)
    BY <2>2 DEF Untouched, Taken
  <2>3. CASE Returns("assign same", v, v)
    BY <1>5, <2>3
  <2>4. QED BY <1>5, <2>1, <2>2, <2>3 DEF MoveAssignSame
<1>6. QED BY <1>1, <1>2, <1>3, <1>4, <1>5 DEF CopyAssign, MoveAssign

\* An assignment leaves its target with the alternative of its source and with
\* its value, unless it throws, and leaves the others their alternatives.
THEOREM AssignmentsAreTaken == Spec => AssignmentTakes
<1>1. ASSUME IInv, Next, status' = "running", last'.call = "assign" PROVE Taken
  <2> USE DEF Returns, Throws, Ends
  <2>1. ASSUME NEW v \in Variants,
               Default(v) \/ Destroy(v) \/ Reset(v) \/ ResetFails(v)
        PROVE  FALSE
    BY <1>1, <2>1 DEF Default, Destroy, Reset, ResetFails
  <2>2. ASSUME NEW v \in Variants, NEW object, FromValue(v, object) \/ AssignValue(v, object)
        PROVE  FALSE
    <3>1. CASE FromValue(v, object)
      BY <1>1, <3>1 DEF FromValue
    <3>2. CASE AssignValue(v, object)
      <4>1. Returns("assign value", v, v) \/ Throws("assign value", v)
        BY <3>2 DEF AssignValue
      <4>2. CASE Returns("assign value", v, v)
        BY ONLY <1>1, <4>2 DEF Returns
      <4>3. CASE Throws("assign value", v)
        BY ONLY <1>1, <4>3 DEF Throws
      <4>4. QED BY <4>1, <4>2, <4>3
    <3>3. QED BY <2>2, <3>1, <3>2
  <2>3. ASSUME NEW v \in Variants, NEW w \in Variants, CopyConstruct(v, w) \/ MoveConstruct(v, w)
        PROVE  FALSE
    BY <1>1, <2>3 DEF CopyConstruct, MoveConstruct, FromVariant
  <2>4. ASSUME NEW v \in Variants, NEW t, Get(v, t) PROVE FALSE
    BY <1>1, <2>4 DEF Get
  <2>5. ASSUME NEW v \in Variants, NEW i, Deserialize(v, i) PROVE FALSE
    BY <1>1, <2>5 DEF Deserialize
  <2>6. ASSUME NEW v \in Variants, NEW w \in Variants, CopyAssign(v, w) \/ MoveAssign(v, w)
        PROVE  Taken
    BY <1>1, <2>6, AssignmentsTake DEF Next
  <2>7. QED BY <1>1, <2>1, <2>2, <2>3, <2>4, <2>5, <2>6 DEF Next
<1>2. ASSUME IInv, [Next]_vars
      PROVE  [status' = "running" /\ last'.call = "assign" =>
                /\ ~ last'.threw =>
                     /\ \/ m_type_index'[last'.on] = m_type_index[last'.from]
                        \/ m_type_index'[last'.on] < 0 /\ m_type_index[last'.from] < 0
                     /\ m_data'[last'.on] = m_data[last'.from]
                /\ \A v \in Variants \ {last'.on} : m_type_index'[v] = m_type_index[v]]_vars
  BY <1>1, <1>2 DEF Taken
<1>3. QED BY <1>2, Invariance, PTL DEF Spec, AssignmentTakes

-----------------------------------------------------------------------------
(***************************************************************************)
(* UnitTest.                                                               *)
(***************************************************************************)
\* How bad the worst of some failures is.
Worst(s) == Max({SUCCESS} \cup {Severity[s[i].kind] : i \in DOMAIN s})

\* The result of a group, or of a test, in which these failures have happened.
Outcome(s) == [value |-> Worst(s), errors |-> s]

Running == {"loop", "case", "next"}
Testing == {"body", "report"} \cup Running

\* The tests that were run are the first of those that were selected.
Begun == IF pc \in Testing \cup {"teardown"} THEN next ELSE next - 1

InSequence ==
  pc \notin {"refused", "terminated"} =>
    /\ Len(ran) = Begun /\ Begun <= Len(selected)
    /\ \A i \in 1..Begun : ran[i] = selected[i]
    /\ pc = "start" => next = 1
    /\ pc = "test" => next <= Len(selected)
    /\ pc = "done" => Begun = Len(selected)

\* Between setup and teardown one fixture is set up, outside of them none is.
SetUp ==
  /\ pc \in {"start", "fixture", "done"} => \A f \in Fixtures : ~ m_setted[f]
  /\ pc \in {"test", "teardown"} \cup Testing => \A f \in Fixtures \ {Fixture} : ~ m_setted[f]

\* The groups that were run have their outcomes; the one that runs has its own
\* in the members, and the number of its case.
Grouped ==
  /\ pc \notin Testing => \A g \in Groups : happened[g] = <<>> /\ results[g] = None
  /\ pc \in {"body"} \cup Running =>
       /\ ~ escaped
       /\ \A g \in Groups : IF results[g] # None THEN results[g] = Outcome(happened[g])
                            ELSE happened[g] = <<>> \/ (pc \in Running /\ g = group)
  /\ pc \in Running =>
       /\ group \in Groups /\ results[group] = None
       /\ m_errors = happened[group] /\ m_result = Worst(m_errors)
       /\ position = m_current_test_index + 1
  /\ pc = "report" => result = IF escaped THEN Uncaught ELSE Outcome(FlattenSeq(happened))

\* Where a failure shows: in the exit status, in that of the fixture, or in the
\* test that runs.
Blamed ==
  \/ ret # SUCCESS
  \/ pc \in {"test", "teardown"} \cup Testing /\ res # SUCCESS
  \/ pc \in {"body"} \cup Running /\ \E g \in Groups : happened[g] # <<>>
  \/ pc = "report" /\ result.value # SUCCESS

Remembered == pc \notin {"refused", "terminated"} => (failed <=> Blamed)

\* The inductive invariant of the suite.
SuiteInv == SuiteTypeOK /\ InSequence /\ SetUp /\ Grouped /\ Remembered

-----------------------------------------------------------------------------
Less == {ss \in Nat \X Nat : ss[1] < ss[2]}

\* A set of numbers that is not empty has a least one.
LEMMA LeastNumber ==
  ASSUME NEW T, T \subseteq Nat, T # {}
  PROVE  \E x \in T : \A y \in T : x <= y
<1>1. Less = OpToRel(<, Nat)
  BY Zenon DEF Less, OpToRel
<1>2. PICK x \in T : \A y \in T : <<y, x>> \notin Less
  BY <1>1, NatLessThanWellFounded, WFMin
<1>3. ASSUME NEW y \in T PROVE x <= y
  <2>1. <<y, x>>[1] = y /\ <<y, x>>[2] = x /\ <<y, x>> \in Nat \X Nat
    OBVIOUS
  <2>2. y < x => <<y, x>> \in Less
    BY <2>1 DEF Less
  <2>3. QED BY <1>2, <2>2
<1>4. QED BY <1>3

-----------------------------------------------------------------------------
\* The greater of two numbers.
LEMMA MaxOfTwo ==
  ASSUME NEW a \in Int, NEW b \in Int
  PROVE  Max({a, b}) = IF a >= b THEN a ELSE b
<1>1. \A x \in {a, b} : (\A y \in {a, b} : x >= y) <=> x = IF a >= b THEN a ELSE b
  OBVIOUS
<1>2. \E x \in {a, b} : \A y \in {a, b} : x >= y
  OBVIOUS
<1>3. QED BY <1>1, <1>2 DEF Max

\* A failure has a severity.
LEMMA SeverityType ==
  ASSUME NEW x \in Failures PROVE Severity[x.kind] \in {FAILURE, FATAL, EXCEPTION}
<1>1. x.kind \in {"failure", "fatal", "exception"}
  BY DEF Failures, Kinds
<1>2. /\ Severity["failure"] = FAILURE /\ Severity["fatal"] = FATAL
      /\ Severity["exception"] = EXCEPTION
  BY DEF Severity
<1>3. QED BY <1>1, <1>2

\* Worst is the severity of one of the failures and of none less.
LEMMA WorstIs ==
  ASSUME NEW s \in Seq(Failures)
  PROVE  /\ Worst(s) \in SUCCESS..EXCEPTION
         /\ \A i \in DOMAIN s : Severity[s[i].kind] <= Worst(s)
         /\ Worst(s) = SUCCESS \/ \E i \in DOMAIN s : Severity[s[i].kind] = Worst(s)
<1> DEFINE severities == {SUCCESS} \cup {Severity[s[i].kind] : i \in DOMAIN s}
<1>1. \A i \in DOMAIN s : Severity[s[i].kind] \in {FAILURE, FATAL, EXCEPTION}
  BY SeverityType
<1>2. severities \subseteq {SUCCESS, FAILURE, FATAL, EXCEPTION}
  BY <1>1
<1>3. \E x \in severities : \A y \in severities : x >= y
  <2>1. SUCCESS \in severities
    OBVIOUS
  <2> HIDE DEF severities
  <2>2. QED BY <1>2, <2>1 DEF SUCCESS, FAILURE, FATAL, EXCEPTION
<1>4. Max(severities) \in severities /\ \A y \in severities : Max(severities) >= y
  <2> HIDE DEF severities
  <2>1. QED BY <1>3 DEF Max
<1>5. Worst(s) = Max(severities)
  BY DEF Worst
<1>6. Worst(s) \in SUCCESS..EXCEPTION /\ \A y \in severities : y <= Worst(s)
  <2> DEFINE m == Max(severities)
  <2>0. m \in severities /\ \A y \in severities : m >= y
    BY <1>4
  <2> HIDE DEF severities, m
  <2>1. m \in SUCCESS..EXCEPTION
    BY <1>2, <2>0 DEF SUCCESS, FAILURE, FATAL, EXCEPTION
  <2>2. \A y \in severities : y \in Int /\ m >= y
    BY <1>2, <2>0 DEF SUCCESS, FAILURE, FATAL, EXCEPTION
  <2>3. \A y \in severities : y <= m
    BY <2>1, <2>2 DEF SUCCESS, EXCEPTION
  <2>4. QED BY <1>5, <2>1, <2>3 DEF m
<1>7. QED BY <1>4, <1>5, <1>6

\* It is the only such number.
LEMMA WorstIsOnly ==
  ASSUME NEW s \in Seq(Failures), NEW w \in SUCCESS..EXCEPTION,
         \A i \in DOMAIN s : Severity[s[i].kind] <= w,
         w = SUCCESS \/ \E i \in DOMAIN s : Severity[s[i].kind] = w
  PROVE  Worst(s) = w
<1>1. w <= Worst(s) /\ Worst(s) <= w
  BY WorstIs DEF SUCCESS, EXCEPTION
<1>2. QED BY <1>1, WorstIs DEF SUCCESS, EXCEPTION

\* No failure is of no severity: only what nothing has happened in is a success.
LEMMA WorstOfNothing ==
  ASSUME NEW s \in Seq(Failures) PROVE Worst(s) = SUCCESS <=> s = <<>>
<1>1. \A i \in DOMAIN s : Severity[s[i].kind] \in {FAILURE, FATAL, EXCEPTION}
  BY SeverityType
<1>2. s # <<>> => 1 \in DOMAIN s
  OBVIOUS
<1>3. CASE s = <<>>
  <2>1. DOMAIN s = {}
    BY <1>3
  <2>2. QED BY <1>3, <2>1, WorstIs
<1>4. QED BY <1>1, <1>2, <1>3, WorstIs DEF SUCCESS, FAILURE, FATAL, EXCEPTION

\* Of two sequences of failures, one behind the other, the worst is that of the
\* one in which it is worse.
LEMMA WorstOfBoth ==
  ASSUME NEW s \in Seq(Failures), NEW t \in Seq(Failures)
  PROVE  Worst(s \o t) = Max({Worst(s), Worst(t)})
<1>1. /\ Worst(s) \in SUCCESS..EXCEPTION /\ Worst(t) \in SUCCESS..EXCEPTION
      /\ \A i \in DOMAIN s : Severity[s[i].kind] <= Worst(s)
      /\ \A i \in DOMAIN t : Severity[t[i].kind] <= Worst(t)
      /\ Worst(s) = SUCCESS \/ \E i \in DOMAIN s : Severity[s[i].kind] = Worst(s)
      /\ Worst(t) = SUCCESS \/ \E i \in DOMAIN t : Severity[t[i].kind] = Worst(t)
  BY WorstIs
<1> DEFINE w == IF Worst(s) >= Worst(t) THEN Worst(s) ELSE Worst(t)
<1>2. Max({Worst(s), Worst(t)}) = w
  <2>1. Worst(s) \in Int /\ Worst(t) \in Int
    BY <1>1 DEF SUCCESS, EXCEPTION
  <2>2. QED BY <2>1, MaxOfTwo
<1>3. s \o t \in Seq(Failures)
  OBVIOUS
<1>4. /\ \A i \in DOMAIN s : i \in DOMAIN (s \o t) /\ (s \o t)[i] = s[i]
      /\ \A i \in DOMAIN t : Len(s) + i \in DOMAIN (s \o t) /\ (s \o t)[Len(s) + i] = t[i]
      /\ \A i \in DOMAIN (s \o t) : \/ i \in DOMAIN s /\ (s \o t)[i] = s[i]
                                    \/ \E j \in DOMAIN t : (s \o t)[i] = t[j]
  <2>1. ASSUME NEW i \in DOMAIN (s \o t), i \notin DOMAIN s
        PROVE  i - Len(s) \in DOMAIN t /\ (s \o t)[i] = t[i - Len(s)]
    BY <2>1
  <2>2. QED BY <2>1
<1>5. \A i \in DOMAIN s : Severity[s[i].kind] \in {FAILURE, FATAL, EXCEPTION}
  BY SeverityType
<1>6. \A i \in DOMAIN t : Severity[t[i].kind] \in {FAILURE, FATAL, EXCEPTION}
  BY SeverityType
<1>7. \A i \in DOMAIN (s \o t) : Severity[(s \o t)[i].kind] <= w
  <2>1. w \in Int /\ Worst(s) <= w /\ Worst(t) <= w /\ Worst(s) \in Int /\ Worst(t) \in Int
    BY <1>1 DEF SUCCESS, EXCEPTION
  <2> HIDE DEF w
  <2>2. \A i \in DOMAIN s : Severity[s[i].kind] <= w
    BY <1>1, <1>5, <2>1 DEF FAILURE, FATAL, EXCEPTION
  <2>3. \A i \in DOMAIN t : Severity[t[i].kind] <= w
    BY <1>1, <1>6, <2>1 DEF FAILURE, FATAL, EXCEPTION
  <2>4. QED BY <1>4, <2>2, <2>3, Zenon
<1>8. w = SUCCESS \/ \E i \in DOMAIN (s \o t) : Severity[(s \o t)[i].kind] = w
  <2>1. CASE w = Worst(s)
    <3> HIDE DEF w
    <3>1. QED BY <1>1, <1>4, <2>1, Zenon
  <2>2. ASSUME NEW i \in DOMAIN t, Severity[t[i].kind] = w
        PROVE  \E j \in DOMAIN (s \o t) : Severity[(s \o t)[j].kind] = w
    <3> HIDE DEF w
    <3>1. QED BY <1>4, <2>2, Zenon
  <2>3. QED BY <1>1, <2>1, <2>2
<1>9. w \in SUCCESS..EXCEPTION
  BY <1>1
<1>10. Worst(s \o t) = w
  <2> HIDE DEF w
  <2>1. QED BY <1>3, <1>7, <1>8, <1>9, WorstIsOnly
<1>11. QED BY <1>2, <1>10

-----------------------------------------------------------------------------
\* f joins the first k sequences of ss from the first to the last.
Joins(f, ss, k, S) ==
  /\ f \in [0..k -> Seq(S)]
  /\ f[0] = <<>>
  /\ \A i \in 1..k : f[i] = f[i - 1] \o ss[i]
  /\ \A i \in 0..k : f[i] = <<>> <=> \A j \in 1..i : ss[j] = <<>>

\* Sequences can be joined; nothing comes of it exactly if there is nothing in them.
LEMMA JoinExists ==
  ASSUME NEW S, NEW n \in Nat, NEW ss \in [1..n -> Seq(S)]
  PROVE  \E f : Joins(f, ss, n, S)
<1> DEFINE Apart == {k \in 0..n : \A f : ~ Joins(f, ss, k, S)}
<1>0. /\ \A k \in 0..n : k \notin Apart => \E f : Joins(f, ss, k, S)
      /\ \A k \in Apart : k \in 0..n /\ \A f : ~ Joins(f, ss, k, S)
      /\ n \in 0..n
  OBVIOUS
<1> HIDE DEF Apart
<1>1. SUFFICES ASSUME Apart # {} PROVE FALSE
  BY <1>0, Zenon
<1>2. PICK k \in Apart : \A j \in Apart : k <= j
  <2>1. Apart \subseteq Nat
    BY <1>0
  <2>2. QED BY <1>1, <2>1, LeastNumber
<1>3. CASE k = 0
  <2> DEFINE f == [i \in 0..0 |-> <<>>]
  <2>1. f \in [0..0 -> Seq(S)] /\ f[0] = <<>>
    OBVIOUS
  <2> HIDE DEF f
  <2>2. Joins(f, ss, 0, S)
    BY <2>1 DEF Joins
  <2>3. QED BY <1>0, <1>2, <1>3, <2>2
<1>4. CASE k # 0
  <2>1. k \in 1..n /\ k - 1 \in 0..n /\ k - 1 \notin Apart
    <3>1. k \in 0..n
      BY <1>0, <1>2
    <3>2. k \in 1..n /\ k - 1 \in 0..n /\ ~ (k <= k - 1)
      BY <1>4, <3>1
    <3>3. QED BY <1>2, <3>2
  <2>2. PICK f : Joins(f, ss, k - 1, S)
    BY <1>0, <2>1
  <2>3. f[k - 1] \in Seq(S) /\ ss[k] \in Seq(S)
    BY <2>1, <2>2 DEF Joins
  <2>4. f[k - 1] \o ss[k] \in Seq(S)
    BY <2>3
  <2>5. f[k - 1] \o ss[k] = <<>> <=> f[k - 1] = <<>> /\ ss[k] = <<>>
    BY <2>3
  <2> DEFINE g == [i \in 0..k |-> IF i = k THEN f[k - 1] \o ss[k] ELSE f[i]]
  <2>6. /\ g \in [0..k -> Seq(S)] /\ g[k] = f[k - 1] \o ss[k]
        /\ \A i \in 0..(k - 1) : g[i] = f[i]
    <3>1. f \in [0..(k - 1) -> Seq(S)]
      BY <2>2 DEF Joins
    <3>2. \A i \in 0..k : i = k \/ i \in 0..(k - 1)
      BY <2>1
    <3>3. k \in 0..k /\ \A i \in 0..(k - 1) : i \in 0..k /\ i # k
      BY <2>1
    <3>4. QED BY <2>4, <3>1, <3>2, <3>3
  <2> HIDE DEF g
  <2>7. g[0] = <<>>
    BY <2>1, <2>2, <2>6 DEF Joins
  <2>8. ASSUME NEW i \in 1..k PROVE g[i] = g[i - 1] \o ss[i]
    <3>1. CASE i = k
      <4>1. k - 1 \in 0..(k - 1)
        BY <2>1
      <4>2. QED BY <2>6, <3>1, <4>1
    <3>2. CASE i # k
      <4>1. i \in 1..(k - 1) /\ i \in 0..(k - 1) /\ i - 1 \in 0..(k - 1)
        BY <2>1, <3>2
      <4>2. QED BY <2>2, <2>6, <4>1 DEF Joins
    <3>3. QED BY <3>1, <3>2
  <2>9. ASSUME NEW i \in 0..k PROVE g[i] = <<>> <=> \A j \in 1..i : ss[j] = <<>>
    <3>1. CASE i = k
      <4>1. f[k - 1] = <<>> <=> \A j \in 1..(k - 1) : ss[j] = <<>>
        <5>1. k - 1 \in 0..(k - 1)
          BY <2>1
        <5>2. QED BY <2>2, <5>1, Zenon DEF Joins
      <4>2. \A j : j \in 1..k <=> j \in 1..(k - 1) \/ j = k
        BY <2>1
      <4>3. QED BY <2>5, <2>6, <3>1, <4>1, <4>2
    <3>2. CASE i # k
      <4>1. i \in 0..(k - 1)
        BY <2>1, <3>2
      <4>2. QED BY <2>2, <2>6, <4>1 DEF Joins
    <3>3. QED BY <3>1, <3>2
  <2>10. Joins(g, ss, k, S)
    BY <2>6, <2>7, <2>8, <2>9 DEF Joins
  <2>11. QED BY <1>0, <1>2, <2>10
<1>5. QED BY <1>3, <1>4

\* FlattenSeq joins all of them.
LEMMA FlattenJoins ==
  ASSUME NEW S, NEW n \in Nat \ {0}, NEW ss \in [1..n -> Seq(S)], NEW f, Joins(f, ss, n, S)
  PROVE  FlattenSeq(ss) = f[n]
<1> DEFINE Rule(h) == [i \in 1..Len(ss) |-> IF i = 1 THEN ss[i] ELSE h[i - 1] \o ss[i]]
           flatten == CHOOSE h : h = Rule(h)
           g == [i \in 1..n |-> f[i]]
<1>0. ASSUME NEW i \in 1..n
      PROVE  f[i] = f[i - 1] \o ss[i] /\ f[0] = <<>> /\ <<>> \o ss[i] = ss[i]
  <2>1. f[i] = f[i - 1] \o ss[i] /\ f[0] = <<>>
    BY Zenon DEF Joins
  <2>2. ss[i] \in Seq(S)
    OBVIOUS
  <2>3. <<>> \o ss[i] = ss[i]
    BY <2>2
  <2>4. QED BY <2>1, <2>3
<1>1. Len(ss) = n
  OBVIOUS
<1>2. FlattenSeq(ss) = flatten[n]
  BY <1>1, Zenon DEF FlattenSeq
<1>3. g = Rule(g)
  <2>1. ASSUME NEW i \in 1..n PROVE g[i] = IF i = 1 THEN ss[i] ELSE g[i - 1] \o ss[i]
    <3>1. f[i] = f[i - 1] \o ss[i] /\ f[0] = <<>> /\ <<>> \o ss[i] = ss[i]
      BY <1>0
    <3>2. CASE i = 1
      <4>1. i - 1 = 0
        BY <3>2
      <4>2. f[i - 1] \o ss[i] = ss[i]
        BY <3>1, <4>1
      <4>3. QED BY <3>1, <3>2, <4>2
    <3>3. CASE i # 1
      <4>1. i - 1 \in 1..n
        BY <3>3
      <4>2. QED BY <3>1, <3>3, <4>1
    <3>4. QED BY <3>2, <3>3
  <2>2. g = [i \in 1..n |-> g[i]]
    OBVIOUS
  <2> HIDE DEF g
  <2>3. QED BY <1>1, <2>1, <2>2
<1>4. flatten = Rule(flatten)
  <2> HIDE DEF g, Rule
  <2>1. QED BY <1>3, Zenon
<1>5. \A i \in 1..n : flatten[i] = IF i = 1 THEN ss[i] ELSE flatten[i - 1] \o ss[i]
  <2> HIDE DEF flatten
  <2>1. QED BY <1>1, <1>4
<1> HIDE DEF flatten
<1> DEFINE Differ == {i \in 1..n : flatten[i] # f[i]}
<1>6. Differ = {}
  <2>1. SUFFICES ASSUME Differ # {} PROVE FALSE
    OBVIOUS
  <2>2. PICK i \in Differ : \A j \in Differ : i <= j
    <3>1. Differ \subseteq Nat
      OBVIOUS
    <3> HIDE DEF Differ
    <3>2. QED BY <2>1, <3>1, LeastNumber
  <2>3. f[i] = f[i - 1] \o ss[i] /\ f[0] = <<>> /\ <<>> \o ss[i] = ss[i]
    BY <1>0
  <2>4. CASE i = 1
    <3>1. i - 1 = 0
      BY <2>4
    <3>2. f[i - 1] \o ss[i] = ss[i]
      BY <2>3, <3>1
    <3>3. flatten[i] = ss[i]
      BY <1>5, <2>4
    <3>4. QED BY <2>2, <2>3, <3>2, <3>3
  <2>5. CASE i # 1
    <3>1. i - 1 \in 1..n /\ ~ (i <= i - 1)
      BY <2>5
    <3>2. i - 1 \notin Differ
      <4> HIDE DEF Differ
      <4>1. QED BY <2>2, <3>1
    <3>3. QED BY <1>5, <2>3, <2>5, <3>1, <3>2
  <2>6. QED BY <2>4, <2>5
<1>7. n \in 1..n
  OBVIOUS
<1>8. QED BY <1>2, <1>6, <1>7

\* Joined, sequences are a sequence of the same kind, and there is nothing in it
\* exactly if there is nothing in any of them.
LEMMA FlattenType ==
  ASSUME NEW S, NEW n \in Nat \ {0}, NEW ss \in [1..n -> Seq(S)]
  PROVE  /\ FlattenSeq(ss) \in Seq(S)
         /\ FlattenSeq(ss) = <<>> <=> \A i \in 1..n : ss[i] = <<>>
<1>1. PICK f : Joins(f, ss, n, S)
  BY JoinExists
<1>2. f[n] \in Seq(S) /\ (f[n] = <<>> <=> \A i \in 1..n : ss[i] = <<>>)
  <2>1. n \in 0..n
    OBVIOUS
  <2>2. QED BY <1>1, <2>1 DEF Joins
<1>3. FlattenSeq(ss) = f[n]
  BY <1>1, FlattenJoins
<1>4. QED BY <1>2, <1>3

\* What the groups returned adds up to the outcome of all that has happened in
\* them, whatever groups were run.
LEMMA SumIsOutcome ==
  ASSUME NEW hs \in [Groups -> Seq(Failures)], NEW rs,
         \A g \in Groups : IF rs[g] = None THEN hs[g] = <<>> ELSE rs[g] = Outcome(hs[g])
  PROVE  Sums(rs)[NGroups] = Outcome(FlattenSeq(hs))
<1>1. NGroups \in Nat \ {0} /\ Groups = 1..NGroups
  BY UnitTestAssumption DEF Groups
<1>2. PICK f : Joins(f, hs, NGroups, Failures)
  BY <1>1, JoinExists
<1>3. FlattenSeq(hs) = f[NGroups]
  BY <1>1, <1>2, FlattenJoins
<1> DEFINE Rule(h) == [g \in 0..NGroups |->
                         IF g = 0 THEN Clean
                         ELSE IF rs[g] = None THEN h[g - 1] ELSE Plus(h[g - 1], rs[g])]
           outcomes == [g \in 0..NGroups |-> Outcome(f[g])]
<1>4. Sums(rs) = CHOOSE h : h = Rule(h)
  BY Zenon DEF Sums
<1>5. Outcome(f[0]) = Clean
  <2>1. f[0] = <<>> /\ <<>> \in Seq(Failures)
    BY <1>2 DEF Joins
  <2>2. QED BY <2>1, WorstOfNothing DEF Outcome, Clean
<1>6. ASSUME NEW g \in 1..NGroups
      PROVE  Outcome(f[g]) = IF rs[g] = None THEN Outcome(f[g - 1])
                             ELSE Plus(Outcome(f[g - 1]), rs[g])
  <2>1. /\ f[g - 1] \in Seq(Failures) /\ hs[g] \in Seq(Failures)
        /\ f[g] = f[g - 1] \o hs[g]
    <3>1. g - 1 \in 0..NGroups /\ g \in Groups
      BY <1>1
    <3>2. QED BY <1>2, <3>1 DEF Joins
  <2>2. CASE rs[g] = None
    <3>1. hs[g] = <<>>
      BY <1>1, <2>2
    <3>2. f[g] = f[g - 1]
      BY <2>1, <3>1
    <3>3. QED BY <2>2, <3>2
  <2>3. CASE rs[g] # None
    <3>1. rs[g] = Outcome(hs[g])
      BY <1>1, <2>3
    <3>2. Worst(f[g]) = Max({Worst(f[g - 1]), Worst(hs[g])})
      BY <2>1, WorstOfBoth
    <3>3. QED BY <2>1, <2>3, <3>1, <3>2 DEF Outcome, Plus
  <2>4. QED BY <2>2, <2>3
<1>7. outcomes = Rule(outcomes)
  <2>1. ASSUME NEW g \in 0..NGroups
        PROVE  outcomes[g] = IF g = 0 THEN Clean
                             ELSE IF rs[g] = None THEN outcomes[g - 1]
                             ELSE Plus(outcomes[g - 1], rs[g])
    <3>1. CASE g = 0
      BY <1>5, <3>1
    <3>2. CASE g # 0
      <4>1. g \in 1..NGroups /\ g - 1 \in 0..NGroups
        BY <1>1, <3>2
      <4>2. outcomes[g] = Outcome(f[g]) /\ outcomes[g - 1] = Outcome(f[g - 1])
        BY <4>1
      <4> HIDE DEF outcomes
      <4>3. QED BY <1>6, <3>2, <4>1, <4>2
    <3>3. QED BY <3>1, <3>2
  <2>2. outcomes = [g \in 0..NGroups |-> outcomes[g]]
    OBVIOUS
  <2> HIDE DEF outcomes
  <2>3. QED BY <2>1, <2>2
<1> DEFINE sum == Sums(rs)
<1>8. sum = Rule(sum)
  <2> HIDE DEF outcomes, Rule
  <2>1. QED BY <1>4, <1>7, Zenon
<1>9. \A g \in 0..NGroups : sum[g] = IF g = 0 THEN Clean
                                     ELSE IF rs[g] = None THEN sum[g - 1]
                                     ELSE Plus(sum[g - 1], rs[g])
  <2> HIDE DEF sum
  <2>1. QED BY <1>8
<1> HIDE DEF sum
<1> DEFINE Differ == {g \in 0..NGroups : sum[g] # Outcome(f[g])}
<1>10. Differ = {}
  <2>1. SUFFICES ASSUME Differ # {} PROVE FALSE
    OBVIOUS
  <2>2. PICK g \in Differ : \A j \in Differ : g <= j
    <3>1. Differ \subseteq Nat
      BY <1>1
    <3> HIDE DEF Differ
    <3>2. QED BY <2>1, <3>1, LeastNumber
  <2>3. g # 0
    BY <1>5, <1>9, <2>2
  <2>4. g \in 1..NGroups /\ g - 1 \in 0..NGroups /\ g - 1 \notin Differ
    BY <1>1, <2>2, <2>3
  <2>5. QED BY <1>6, <1>9, <2>2, <2>3, <2>4
<1>11. NGroups \in 0..NGroups
  BY <1>1
<1>12. QED BY <1>3, <1>10, <1>11 DEF sum

-----------------------------------------------------------------------------
\* Whatever is selected is a sequence of tests.
LEMMA SelectedType == Select => selected' \in Seq(Fixtures \X Tests)
<1> SUFFICES ASSUME Select PROVE selected' \in Seq(Fixtures \X Tests)
  OBVIOUS
<1>1. NFixtures \in Nat \ {0} /\ NTests \in Nat \ {0}
  BY UnitTestAssumption
<1>2. \A f \in Fixtures : TestsOf(f) \in Seq(Fixtures \X Tests)
  BY <1>1 DEF TestsOf, Tests, Fixtures
<1>3. AllTests \in Seq(Fixtures \X Tests)
  <2> DEFINE all == [f \in Fixtures |-> TestsOf(f)]
  <2>1. all \in [1..NFixtures -> Seq(Fixtures \X Tests)]
    BY <1>2 DEF Fixtures
  <2> HIDE DEF all
  <2>2. FlattenSeq(all) \in Seq(Fixtures \X Tests)
    BY <1>1, <2>1, FlattenType
  <2>3. QED BY <2>2 DEF AllTests, all
<1>4. \A f \in Fixtures, t \in Tests : <<<<f, t>>>> \in Seq(Fixtures \X Tests)
  OBVIOUS
<1>5. \/ selected' = AllTests \/ \E f \in Fixtures : selected' = TestsOf(f)
      \/ \E f \in Fixtures, t \in Tests : selected' = <<<<f, t>>>>
  BY DEF Select
<1>6. QED BY <1>2, <1>3, <1>4, <1>5, Zenon

-----------------------------------------------------------------------------
\* One failure or two of a case are added to what the members have and to what
\* has happened in the group that runs.
Fails ==
  /\ pc = "case" /\ pc' \in {"case", "next"}
  /\ \E more \in Seq(Failures) \ {<<>>} :
       /\ m_errors' = m_errors \o more
       /\ m_result' = Max({m_result, Worst(more)})
       /\ happened' = [happened EXCEPT ![group] = @ \o more]
  /\ failed' = TRUE
  /\ UNCHANGED <<selected, next, m_setted, m_current_test_index, loop, result, res, ret, escaped, ran>>

\* The number of the case in the members is the one in the history, and the
\* severity of the kinds is that of their records.
LEMMA RecordFails ==
  ASSUME SuiteInv, pc = "case", pc' \in {"case", "next"}, UNCHANGED m_current_test_index,
         NEW kinds \in Seq(Kinds) \ {<<>>}, NEW value \in {FAILURE, FATAL, EXCEPTION},
         \A i \in DOMAIN kinds : Severity[kinds[i]] <= value,
         \E i \in DOMAIN kinds : Severity[kinds[i]] = value,
         Record(kinds, value)
  PROVE  Fails
<1> DEFINE more == [i \in DOMAIN kinds |-> [case |-> m_current_test_index, kind |-> kinds[i]]]
<1>1. m_current_test_index \in Nat /\ position - 1 = m_current_test_index
  BY DEF SuiteInv, SuiteTypeOK, Grouped, Running
<1>2. \A i \in DOMAIN kinds : [case |-> m_current_test_index, kind |-> kinds[i]] \in Failures
  BY <1>1 DEF Failures
<1>3. more \in Seq(Failures) /\ more # <<>> /\ DOMAIN more = DOMAIN kinds
  BY <1>2
<1>4. \A i \in DOMAIN kinds : more[i].kind = kinds[i]
  OBVIOUS
<1>5. Worst(more) = value
  <2> HIDE DEF more
  <2>1. value \in SUCCESS..EXCEPTION
    BY DEF SUCCESS, FAILURE, FATAL, EXCEPTION
  <2>2. QED BY <1>3, <1>4, <2>1, WorstIsOnly
<1>6. /\ m_errors' = m_errors \o more
      /\ m_result' = Max({m_result, value})
      /\ happened' = [happened EXCEPT ![group] = @ \o more]
      /\ failed' = TRUE
      /\ UNCHANGED <<selected, next, m_setted, loop, result, res, ret, escaped, ran>>
  BY <1>1, Zenon DEF Record
<1> HIDE DEF more
<1>7. QED BY <1>3, <1>5, <1>6 DEF Fails

\* A record of one failure.
LEMMA OneFails ==
  ASSUME SuiteInv, pc = "case", pc' \in {"case", "next"}, UNCHANGED m_current_test_index,
         NEW k \in Kinds, Record(<<k>>, Severity[k])
  PROVE  Fails
<1>1. Severity[k] \in {FAILURE, FATAL, EXCEPTION}
  <2>1. [case |-> 0, kind |-> k] \in Failures
    BY DEF Failures
  <2>2. QED BY <2>1, SeverityType
<1>2. <<k>> \in Seq(Kinds) \ {<<>>} /\ DOMAIN <<k>> = {1} /\ <<k>>[1] = k
  OBVIOUS
<1> DEFINE kinds == <<k>>
           value == Severity[k]
<1>3. /\ kinds \in Seq(Kinds) \ {<<>>} /\ value \in {FAILURE, FATAL, EXCEPTION}
      /\ \A i \in DOMAIN kinds : Severity[kinds[i]] <= value
      /\ \E i \in DOMAIN kinds : Severity[kinds[i]] = value
      /\ Record(kinds, value)
  BY <1>1, <1>2 DEF FAILURE, FATAL, EXCEPTION
<1> HIDE DEF kinds, value
<1>4. QED BY <1>3, RecordFails

\* Whatever a case does to fail, it fails so.
LEMMA CaseFails ==
  ASSUME SuiteInv, AssertFails \/ SwallowFatal \/ FatalFails \/ CaseThrows
  PROVE  Fails
<1>1. /\ Severity["failure"] = FAILURE /\ Severity["fatal"] = FATAL
      /\ Severity["exception"] = EXCEPTION
  BY DEF Severity
<1>2. {"failure", "fatal", "exception"} \subseteq Kinds
  BY DEF Kinds
<1>3. CASE AssertFails
  BY <1>1, <1>2, <1>3, OneFails DEF AssertFails
<1>4. CASE SwallowFatal
  <2>1. CASE Record(<<"fatal">>, FATAL)
    BY <1>1, <1>2, <1>4, <2>1, OneFails DEF SwallowFatal
  <2>2. CASE Record(<<"fatal", "failure">>, FATAL)
    <3> DEFINE kinds == <<"fatal", "failure">>
    <3>1. /\ kinds \in Seq(Kinds) \ {<<>>} /\ DOMAIN kinds = {1, 2}
          /\ kinds[1] = "fatal" /\ kinds[2] = "failure"
      BY <1>2
    <3>2. Record(kinds, FATAL)
      BY <2>2
    <3> HIDE DEF kinds
    <3>3. /\ \A i \in DOMAIN kinds : Severity[kinds[i]] <= FATAL
          /\ \E i \in DOMAIN kinds : Severity[kinds[i]] = FATAL
      BY <1>1, <3>1 DEF FAILURE, FATAL
    <3>4. /\ pc = "case" /\ pc' \in {"case", "next"} /\ UNCHANGED m_current_test_index
          /\ FATAL \in {FAILURE, FATAL, EXCEPTION}
      BY <1>4 DEF SwallowFatal
    <3>5. QED BY <3>1, <3>2, <3>3, <3>4, RecordFails
  <2>3. QED BY <1>4, <2>1, <2>2 DEF SwallowFatal
<1>5. CASE FatalFails
  BY <1>1, <1>2, <1>5, OneFails DEF FatalFails
<1>6. CASE CaseThrows
  BY <1>1, <1>2, <1>6, OneFails DEF CaseThrows
<1>7. QED BY <1>3, <1>4, <1>5, <1>6

\* The steps within a test, and those around them, as a list to split a proof on.
Around ==
  \/ Select \/ Refuse(SUCCESS) \/ Refuse(FAILURE)
  \/ Setup \/ RunTest \/ Report \/ TearDown \/ Terminate

Within ==
  \/ TestThrows \/ StrayFailure \/ TestReturns
  \/ RunCases \/ EnterCase \/ Fails \/ CaseReturns \/ NextCase \/ CaseEscapes \/ GroupReturns

LEMMA StepIs == SuiteInv /\ SuiteNext => Around \/ Within
  BY CaseFails, Zenon DEF SuiteNext, Around, Within

\* Within a test the suite stays where it is.
LEMMA WithinTest ==
  ASSUME Within
  PROVE  /\ pc \in Testing \ {"report"} /\ pc' \in Testing
         /\ UNCHANGED <<selected, next, m_setted, res, ret, ran>>
  BY DEF Within, TestThrows, StrayFailure, TestReturns, RunCases, EnterCase, Fails, CaseReturns,
         NextCase, CaseEscapes, GroupReturns, EscapeTest, Testing, Running, history, counters, loop

-----------------------------------------------------------------------------
\* The initial states satisfy the invariant.
LEMMA SuiteInvInit == SuiteInit => SuiteInv
<1> SUFFICES ASSUME SuiteInit PROVE SuiteInv
  OBVIOUS
<1> USE UnitTestAssumption DEF SuiteInit, SUCCESS, FAILURE, FATAL, EXCEPTION
<1>1. Clean \in Results
  BY DEF Clean, Results
<1>2. SuiteTypeOK
  <2>1. <<>> \in Seq(Failures) /\ <<>> \in Seq(Fixtures \X Tests)
    OBVIOUS
  <2>2. /\ results \in [Groups -> Results \cup {None}]
        /\ happened \in [Groups -> Seq(Failures)]
        /\ result \in Results \cup {Uncaught}
    BY <1>1, <2>1
  <2>3. /\ m_result \in SUCCESS..EXCEPTION /\ m_current_test_index \in Nat
        /\ group \in 0..NGroups /\ position \in Nat /\ cases \in 0..NCases
    OBVIOUS
  <2>4. /\ {selected, ran} \subseteq Seq(Fixtures \X Tests) /\ next \in Nat \ {0}
        /\ m_errors \in Seq(Failures)
    BY <2>1
  <2>5. QED BY <2>2, <2>3, <2>4 DEF SuiteTypeOK
<1>3. InSequence /\ SetUp
  BY DEF InSequence, SetUp, Begun, Testing, Running
<1>4. Grouped /\ Remembered
  BY DEF Grouped, Remembered, Blamed, Testing, Running
<1>5. QED BY <1>2, <1>3, <1>4 DEF SuiteInv

\* The tests stay in sequence.
LEMMA SequenceNext == SuiteInv /\ SuiteNext => InSequence'
<1> SUFFICES ASSUME SuiteInv, SuiteNext PROVE InSequence'
  OBVIOUS
<1> USE DEF InSequence, Begun, Testing, Running, counters, loop, history
<1>0. /\ selected \in Seq(Fixtures \X Tests) /\ ran \in Seq(Fixtures \X Tests) /\ next \in Nat \ {0}
      /\ InSequence
  BY DEF SuiteInv, SuiteTypeOK
<1>1. CASE Select
  <2>1. Len(ran) = 0 /\ next = 1
    BY <1>0, <1>1 DEF Select
  <2>2. selected' \in Seq(Fixtures \X Tests)
    BY <1>1, SelectedType
  <2>3. Len(selected') \in Nat
    BY <2>2
  <2>4. QED BY <1>1, <2>1, <2>3 DEF Select
<1>2. CASE Refuse(SUCCESS) \/ Refuse(FAILURE) \/ Terminate
  BY <1>2 DEF Refuse, Terminate
<1>3. CASE Setup
  BY <1>0, <1>3 DEF Setup
<1>4. CASE RunTest
  BY <1>0, <1>4 DEF RunTest
<1>5. CASE Report
  BY <1>0, <1>5 DEF Report, LastOfFixture
<1>6. CASE TearDown
  BY <1>0, <1>6 DEF TearDown
<1>7. CASE Within
  BY <1>0, <1>7, WithinTest
<1>8. QED BY <1>1, <1>2, <1>3, <1>4, <1>5, <1>6, <1>7, StepIs DEF Around

\* No fixture stays set up.
LEMMA SetUpNext == SuiteInv /\ SuiteNext => SetUp'
<1> SUFFICES ASSUME SuiteInv, SuiteNext PROVE SetUp'
  OBVIOUS
<1> USE DEF SetUp, Testing, Running, counters, loop, history, Fixture
<1>0. /\ selected \in Seq(Fixtures \X Tests) /\ next \in Nat \ {0}
      /\ m_setted \in [Fixtures -> BOOLEAN]
      /\ InSequence /\ SetUp
  BY DEF SuiteInv, SuiteTypeOK
<1>1. CASE Select \/ Refuse(SUCCESS) \/ Refuse(FAILURE) \/ Terminate
  BY <1>0, <1>1 DEF Select, Refuse, Terminate
<1>2. CASE Setup
  BY <1>0, <1>2 DEF Setup
<1>3. CASE RunTest
  BY <1>0, <1>3 DEF RunTest
<1>4. CASE Report
  BY <1>0, <1>4 DEF Report, LastOfFixture
<1>5. CASE TearDown
  BY <1>0, <1>5 DEF TearDown
<1>6. CASE Within
  BY <1>0, <1>6, WithinTest
<1>7. QED BY <1>1, <1>2, <1>3, <1>4, <1>5, <1>6, StepIs DEF Around

\* An outcome is that of a success exactly if nothing has happened.
LEMMA OutcomeType ==
  ASSUME NEW s \in Seq(Failures)
  PROVE  /\ Outcome(s) \in Results /\ Outcome(s) # None
         /\ Outcome(s).value = SUCCESS <=> s = <<>>
<1>1. Outcome(s) \in Results /\ (Outcome(s).value = SUCCESS <=> s = <<>>)
  BY WorstIs, WorstOfNothing DEF Outcome, Results
<1>2. Outcome(s).value # -1
  BY WorstIs DEF Outcome, SUCCESS, EXCEPTION
<1>3. QED BY <1>1, <1>2 DEF None

\* What the groups have is what has happened in them.
LEMMA GroupedNext == SuiteInv /\ SuiteNext => Grouped'
<1> SUFFICES ASSUME SuiteInv, SuiteNext PROVE Grouped'
  OBVIOUS
<1> USE DEF Testing, Running, counters, loop, history
<1>0. /\ results \in [Groups -> Results \cup {None}]
      /\ happened \in [Groups -> Seq(Failures)]
      /\ m_errors \in Seq(Failures) /\ m_current_test_index \in Nat
      /\ Grouped
  BY DEF SuiteInv, SuiteTypeOK
<1>1. CASE Select \/ Refuse(SUCCESS) \/ Refuse(FAILURE) \/ Terminate \/ Setup \/ TearDown
  <2>1. pc \notin Testing /\ pc' \notin Testing /\ UNCHANGED <<happened, results>>
    BY <1>1 DEF Select, Refuse, Terminate, Setup, TearDown
  <2>2. QED BY <1>0, <2>1 DEF Grouped
<1>2. CASE RunTest
  BY <1>0, <1>2 DEF RunTest, Grouped
<1>3. CASE Report
  <2>1. pc' \notin Testing /\ \A g \in Groups : happened'[g] = <<>> /\ results'[g] = None
    BY <1>3 DEF Report, Forget
  <2>2. QED BY <2>1 DEF Grouped
<1>4. CASE TestThrows \/ CaseEscapes
  BY <1>4 DEF TestThrows, CaseEscapes, EscapeTest, Grouped
<1>5. CASE StrayFailure
  BY <1>0, <1>5 DEF StrayFailure, Grouped
<1>6. CASE TestReturns
  <2>1. \A g \in Groups : IF results[g] = None THEN happened[g] = <<>>
                          ELSE results[g] = Outcome(happened[g])
    BY <1>0, <1>6 DEF TestReturns, Grouped
  <2>2. result' = Outcome(FlattenSeq(happened))
    BY <1>0, <1>6, <2>1, SumIsOutcome DEF TestReturns
  <2>3. pc' = "report" /\ ~ escaped' /\ happened' = happened
    BY <1>0, <1>6 DEF TestReturns, Grouped
  <2>4. QED BY <2>2, <2>3 DEF Grouped
<1>7. CASE RunCases
  <2>1. <<>> \in Seq(Failures) /\ Worst(<<>>) = SUCCESS
    <3>1. <<>> \in Seq(Failures)
      OBVIOUS
    <3>2. QED BY <3>1, WorstOfNothing
  <2>2. group' \in Groups /\ results[group'] = None
    BY <1>7 DEF RunCases
  <2>3. happened[group'] = <<>>
    BY <1>0, <1>7, <2>2 DEF RunCases, Grouped
  <2>4. QED BY <1>0, <1>7, <2>1, <2>2, <2>3 DEF RunCases, Grouped
<1>8. CASE EnterCase \/ CaseReturns
  BY <1>0, <1>8 DEF EnterCase, CaseReturns, Grouped
<1>9. CASE NextCase
  BY <1>0, <1>9 DEF NextCase, Grouped
<1>10. CASE Fails
  <2>1. PICK more \in Seq(Failures) :
          /\ m_errors' = m_errors \o more
          /\ m_result' = Max({m_result, Worst(more)})
          /\ happened' = [happened EXCEPT ![group] = @ \o more]
    BY <1>10 DEF Fails
  <2>2. /\ group \in Groups /\ results[group] = None /\ ~ escaped
        /\ m_errors = happened[group] /\ m_result = Worst(m_errors)
        /\ position = m_current_test_index + 1
        /\ \A g \in Groups : IF results[g] # None THEN results[g] = Outcome(happened[g])
                             ELSE happened[g] = <<>> \/ g = group
    BY <1>0, <1>10 DEF Fails, Grouped
  <2>3. m_result' = Worst(m_errors')
    BY <1>0, <2>1, <2>2, WorstOfBoth
  <2>4. m_errors' = happened'[group] /\ \A g \in Groups \ {group} : happened'[g] = happened[g]
    BY <1>0, <2>1, <2>2
  <2>5. /\ pc' \in {"case", "next"}
        /\ UNCHANGED <<group, results, escaped, position, m_current_test_index>>
    BY <1>10 DEF Fails
  <2>6. QED BY <2>2, <2>3, <2>4, <2>5 DEF Grouped
<1>11. CASE GroupReturns
  <2>1. /\ group \in Groups /\ [value |-> m_result, errors |-> m_errors] = Outcome(happened[group])
        /\ ~ escaped
        /\ \A g \in Groups : IF results[g] # None THEN results[g] = Outcome(happened[g])
                             ELSE happened[g] = <<>> \/ g = group
    BY <1>0, <1>11 DEF GroupReturns, Grouped, Outcome
  <2>2. /\ results'[group] = Outcome(happened[group])
        /\ \A g \in Groups \ {group} : results'[g] = results[g]
        /\ pc' = "body" /\ UNCHANGED <<happened, escaped>>
    BY <1>0, <1>11, <2>1 DEF GroupReturns
  <2>3. Outcome(happened[group]) # None
    BY <1>0, <2>1, OutcomeType
  <2>4. \A g \in Groups : IF results'[g] # None THEN results'[g] = Outcome(happened'[g])
                          ELSE happened'[g] = <<>>
    BY <2>1, <2>2, <2>3
  <2>5. QED BY <2>1, <2>2, <2>4 DEF Grouped
<1>12. QED
  BY <1>1, <1>2, <1>3, <1>4, <1>5, <1>6, <1>7, <1>8, <1>9, <1>10, <1>11, StepIs
  DEF Around, Within

\* The result of a test that has returned.
LEMMA ReportedType ==
  ASSUME SuiteInv, TestReturns
  PROVE  /\ result' \in Results
         /\ result'.value = SUCCESS <=> \A g \in Groups : happened[g] = <<>>
<1>1. happened \in [1..NGroups -> Seq(Failures)] /\ NGroups \in Nat \ {0} /\ Groups = 1..NGroups
  BY UnitTestAssumption DEF SuiteInv, SuiteTypeOK, Groups
<1>2. /\ FlattenSeq(happened) \in Seq(Failures)
      /\ FlattenSeq(happened) = <<>> <=> \A g \in Groups : happened[g] = <<>>
  BY <1>1, FlattenType
<1>3. \A g \in Groups : IF results[g] = None THEN happened[g] = <<>>
                        ELSE results[g] = Outcome(happened[g])
  BY DEF TestReturns, SuiteInv, Grouped, Testing, Running
<1>4. result' = Outcome(FlattenSeq(happened))
  BY <1>1, <1>3, SumIsOutcome DEF TestReturns
<1>5. QED BY <1>2, <1>4, OutcomeType

\* What has failed shows, and nothing else does.
LEMMA RememberedNext == SuiteInv /\ SuiteNext => Remembered'
<1> SUFFICES ASSUME SuiteInv, SuiteNext PROVE Remembered'
  OBVIOUS
<1> USE DEF Testing, Running, counters, loop, history
<1>0. /\ happened \in [Groups -> Seq(Failures)] /\ failed \in BOOLEAN
      /\ res \in {SUCCESS, FAILURE} /\ ret \in {SUCCESS, FAILURE}
      /\ Grouped /\ Remembered
  BY DEF SuiteInv, SuiteTypeOK
<1>1. CASE Refuse(SUCCESS) \/ Refuse(FAILURE) \/ Terminate
  BY <1>1 DEF Refuse, Terminate, Remembered
<1>2. CASE Select
  BY <1>0, <1>2 DEF Select, Remembered, Blamed
<1>3. CASE Setup
  BY <1>0, <1>3 DEF Setup, Remembered, Blamed
<1>4. CASE RunTest
  BY <1>0, <1>4 DEF RunTest, Grouped, Remembered, Blamed
<1>5. CASE Report
  BY <1>0, <1>5 DEF Report, Remembered, Blamed, SUCCESS, FAILURE
<1>6. CASE TearDown
  BY <1>0, <1>6 DEF TearDown, Remembered, Blamed, SUCCESS, FAILURE
<1>7. CASE TestThrows \/ CaseEscapes
  BY <1>7 DEF TestThrows, CaseEscapes, EscapeTest, Uncaught, FATAL, SUCCESS, Remembered, Blamed
<1>8. CASE TestReturns
  <2>1. result'.value = SUCCESS <=> \A g \in Groups : happened[g] = <<>>
    BY <1>8, ReportedType
  <2>2. pc = "body" /\ pc' = "report" /\ UNCHANGED <<res, ret, failed, happened>>
    BY <1>8 DEF TestReturns
  <2>3. QED BY <1>0, <2>1, <2>2 DEF Remembered, Blamed
<1>9. CASE StrayFailure \/ RunCases \/ EnterCase \/ CaseReturns \/ NextCase \/ GroupReturns
  <2>1. /\ pc \in {"body"} \cup Running /\ pc' \in {"body"} \cup Running
        /\ UNCHANGED <<res, ret, failed, happened>>
    BY <1>9 DEF StrayFailure, RunCases, EnterCase, CaseReturns, NextCase, GroupReturns
  <2>2. QED BY <1>0, <2>1 DEF Remembered, Blamed
<1>10. CASE Fails
  <2>1. PICK more \in Seq(Failures) \ {<<>>} : happened' = [happened EXCEPT ![group] = @ \o more]
    BY <1>10 DEF Fails
  <2>2. group \in Groups
    BY <1>0, <1>10 DEF Fails, Grouped
  <2>3. happened'[group] # <<>>
    BY <1>0, <2>1, <2>2
  <2>4. QED BY <1>10, <2>2, <2>3 DEF Fails, Remembered, Blamed
<1>11. QED
  BY <1>1, <1>2, <1>3, <1>4, <1>5, <1>6, <1>7, <1>8, <1>9, <1>10, StepIs DEF Around, Within

\* Every step keeps the types.
LEMMA SuiteTypeNext == SuiteInv /\ SuiteNext => SuiteTypeOK'
<1> SUFFICES ASSUME SuiteInv, SuiteNext PROVE SuiteTypeOK'
  OBVIOUS
<1> USE DEF SuiteTypeOK, counters, loop, history
<1>0. SuiteTypeOK /\ InSequence /\ Grouped
  BY DEF SuiteInv
<1>1. CASE Refuse(SUCCESS) \/ Refuse(FAILURE) \/ Terminate
  BY <1>0, <1>1 DEF Refuse, Terminate
<1>2. CASE Select
  BY <1>0, <1>2, SelectedType DEF Select
<1>3. CASE Setup
  BY <1>0, <1>3 DEF Setup
<1>4. CASE RunTest
  <2>1. selected[next] \in Fixtures \X Tests
    BY <1>0, <1>4 DEF RunTest, InSequence, Begun, Testing, Running
  <2>2. ran' \in Seq(Fixtures \X Tests)
    BY <1>0, <1>4, <2>1 DEF RunTest
  <2>3. QED BY <1>0, <1>4, <2>2 DEF RunTest
<1>5. CASE Report
  <2>1. <<>> \in Seq(Failures) /\ Clean \in Results
    BY DEF Clean, Results, SUCCESS, EXCEPTION
  <2>2. QED BY <1>0, <1>5, <2>1, UnitTestAssumption DEF Report, Forget
<1>6. CASE TearDown
  <2>1. m_setted' \in [Fixtures -> BOOLEAN]
    BY <1>0, <1>6 DEF TearDown
  <2>2. next' \in Nat \ {0}
    BY <1>0, <1>6 DEF TearDown
  <2>3. ret' \in {SUCCESS, FAILURE}
    BY <1>0, <1>6 DEF TearDown
  <2>4. pc' \in {"done", "fixture"}
    BY <1>6 DEF TearDown
  <2>5. QED BY <1>0, <1>6, <2>1, <2>2, <2>3, <2>4 DEF TearDown
<1>7. CASE TestThrows \/ CaseEscapes
  BY <1>0, <1>7 DEF TestThrows, CaseEscapes, EscapeTest
<1>8. CASE TestReturns
  <2>1. result' \in Results
    BY <1>8, ReportedType
  <2>2. QED BY <1>0, <1>8, <2>1 DEF TestReturns
<1>9. CASE StrayFailure
  <2>1. [case |-> m_current_test_index, kind |-> "failure"] \in Failures
    BY <1>0 DEF Failures, Kinds
  <2>2. m_errors' \in Seq(Failures)
    BY <1>0, <1>9, <2>1 DEF StrayFailure
  <2>3. m_result' \in SUCCESS..EXCEPTION
    BY <1>0, <1>9 DEF StrayFailure, SUCCESS, FAILURE, EXCEPTION
  <2>4. QED BY <1>0, <1>9, <2>2, <2>3 DEF StrayFailure
<1>10. CASE RunCases
  <2>1. m_result' \in SUCCESS..EXCEPTION /\ m_errors' \in Seq(Failures)
    BY <1>10 DEF RunCases, SUCCESS, EXCEPTION
  <2>2. group' \in 0..NGroups
    BY <1>10, UnitTestAssumption DEF RunCases, Groups
  <2>3. QED BY <1>0, <1>10, <2>1, <2>2 DEF RunCases
<1>11. CASE EnterCase \/ CaseReturns
  BY <1>0, <1>11 DEF EnterCase, CaseReturns
<1>12. CASE NextCase
  BY <1>0, <1>12 DEF NextCase
<1>13. CASE Fails
  <2>1. PICK more \in Seq(Failures) :
          /\ m_errors' = m_errors \o more
          /\ m_result' = Max({m_result, Worst(more)})
          /\ happened' = [happened EXCEPT ![group] = @ \o more]
    BY <1>13 DEF Fails
  <2>2. m_result' \in SUCCESS..EXCEPTION
    <3>1. Worst(more) \in SUCCESS..EXCEPTION /\ m_result \in SUCCESS..EXCEPTION
      BY <1>0, WorstIs
    <3>2. m_result' = IF m_result >= Worst(more) THEN m_result ELSE Worst(more)
      <4>1. Worst(more) \in Int /\ m_result \in Int
        BY <3>1 DEF SUCCESS, EXCEPTION
      <4>2. QED BY <2>1, <4>1, MaxOfTwo
    <3>3. QED BY <3>1, <3>2
  <2>3. happened' \in [Groups -> Seq(Failures)] /\ m_errors' \in Seq(Failures)
    <3>1. group \in Groups /\ m_errors = happened[group]
      BY <1>0, <1>13 DEF Fails, Grouped, Running
    <3>2. m_errors \o more \in Seq(Failures)
      BY <1>0
    <3>3. QED BY <1>0, <2>1, <3>1, <3>2
  <2>4. QED BY <1>0, <1>13, <2>2, <2>3 DEF Fails
<1>14. CASE GroupReturns
  <2>1. [value |-> m_result, errors |-> m_errors] \in Results
    BY <1>0 DEF Results
  <2>2. QED BY <1>0, <1>14, <2>1 DEF GroupReturns
<1>15. QED
  BY <1>1, <1>2, <1>3, <1>4, <1>5, <1>6, <1>7, <1>8, <1>9, <1>10, <1>11, <1>12, <1>13, <1>14, StepIs
  DEF Around, Within

\* Every step keeps the invariant.
LEMMA SuiteInvNext == SuiteInv /\ [SuiteNext]_suiteVars => SuiteInv'
<1>1. ASSUME SuiteInv, SuiteNext PROVE SuiteInv'
  BY <1>1, SuiteTypeNext, SequenceNext, SetUpNext, GroupedNext, RememberedNext DEF SuiteInv
<1>2. ASSUME SuiteInv, UNCHANGED suiteVars PROVE SuiteInv'
  BY <1>2 DEF suiteVars, counters, loop, history, SuiteInv, SuiteTypeOK, InSequence, Begun,
              SetUp, Fixture, Grouped, Remembered, Blamed
<1>3. QED BY <1>1, <1>2

\* The inductive invariant is one.
LEMMA SuiteInvariance == SuiteSpec => []SuiteInv
  BY SuiteInvInit, SuiteInvNext, PTL DEF SuiteSpec

\* Type correctness of the suite.
THEOREM SuiteTypeCorrect == SuiteSpec => []SuiteTypeOK
  BY SuiteInvariance, PTL DEF SuiteInv

\* Whatever the groups of a test are and in whichever order they run, each
\* failure is in the result of the test once, and the result is as bad as the worst.
THEOREM FailuresReported == SuiteSpec => []ReportedOnce
<1>1. SuiteInv => ReportedOnce
  BY DEF SuiteInv, Grouped, ReportedOnce, Outcome, Worst
<1>2. QED BY <1>1, SuiteInvariance, PTL

\* The exit status tells whether anything has failed in the tests that were
\* selected, all of which were run, and no fixture is left set up.
THEOREM StatusIsRight == SuiteSpec => []SuiteSound
<1>1. ASSUME SuiteInv PROVE SuiteSound
  <2>1. CASE pc = "done"
    <3>1. ran = selected
      BY <1>1, <2>1 DEF SuiteInv, SuiteTypeOK, InSequence
    <3>2. ret = SUCCESS <=> ~ failed
      BY <1>1, <2>1 DEF SuiteInv, Remembered, Blamed, Testing, Running
    <3>3. QED BY <1>1, <2>1, <3>1, <3>2 DEF SuiteInv, SetUp, SuiteSound
  <2>2. CASE pc # "done"
    BY <1>1, <2>2 DEF SuiteInv, SetUp, SuiteSound
  <2>3. QED BY <2>1, <2>2
<1>2. QED BY <1>1, SuiteInvariance, PTL

-----------------------------------------------------------------------------
(***************************************************************************)
(* JsonSerializer.                                                         *)
(***************************************************************************)
\* What a container or a member begins with, and what a value ends in.
Openers == {"{", "["}
Enders  == DigitSet \cup {Quote, "rue", "alse", "ull", "}", "]"}

\* The characters that the serializer writes of itself.
Marks == Openers \cup Enders \cup Blanks \cup {"-", ".", ",", ":", Backslash, "u", "A", "t", "f", "n", "value"}

\* The last character of s that is not blank is one of these.
Behind(s, chars) ==
  \E k \in 1..Len(s) : s[k] \in chars /\ \A j \in (k + 1)..Len(s) : s[j] \in Blanks

\* What is behind the second of two texts is behind both.
LEMMA BehindSecond ==
  ASSUME NEW C, NEW s \in Seq(C), NEW r \in Seq(C), NEW chars, Behind(r, chars)
  PROVE  Behind(s \o r, chars)
<1>1. PICK k \in 1..Len(r) : r[k] \in chars /\ \A j \in (k + 1)..Len(r) : r[j] \in Blanks
  BY DEF Behind
<1>2. Len(s \o r) = Len(s) + Len(r) /\ Len(s) \in Nat /\ Len(r) \in Nat
  OBVIOUS
<1>3. /\ Len(s) + k \in 1..Len(s \o r) /\ (s \o r)[Len(s) + k] = r[k]
      /\ \A j \in (Len(s) + k + 1)..Len(s \o r) : (s \o r)[j] = r[j - Len(s)] /\ j - Len(s) \in (k + 1)..Len(r)
  BY <1>2
<1>4. QED BY <1>1, <1>3 DEF Behind

\* Blanks do not change what a text ends in.
LEMMA BehindBlanks ==
  ASSUME NEW C, NEW s \in Seq(C), NEW r \in Seq(Blanks), NEW chars, Behind(s, chars)
  PROVE  Behind(s \o r, chars)
<1>1. PICK k \in 1..Len(s) : s[k] \in chars /\ \A j \in (k + 1)..Len(s) : s[j] \in Blanks
  BY DEF Behind
<1>2. Len(s \o r) = Len(s) + Len(r) /\ Len(s) \in Nat /\ Len(r) \in Nat
  OBVIOUS
<1>3. k \in 1..Len(s \o r) /\ (s \o r)[k] = s[k]
  BY <1>2
<1>4. ASSUME NEW j \in (k + 1)..Len(s \o r) PROVE (s \o r)[j] \in Blanks
  <2>1. CASE j <= Len(s)
    <3>1. j \in (k + 1)..Len(s) /\ (s \o r)[j] = s[j]
      BY <1>2, <2>1
    <3>2. QED BY <1>1, <3>1
  <2>2. CASE j > Len(s)
    <3>1. j - Len(s) \in 1..Len(r) /\ (s \o r)[j] = r[j - Len(s)]
      BY <1>2, <2>2
    <3>2. QED BY <3>1
  <2>3. QED BY <1>2, <2>1, <2>2
<1>5. QED BY <1>1, <1>3, <1>4 DEF Behind

\* f has the digits of every number up to k.
Spells(f, k) ==
  /\ f \in [0..k -> Seq(DigitSet)]
  /\ \A m \in 0..k :
       /\ f[m] = IF m < 10 THEN <<DigitOf[m + 1]>> ELSE Append(f[m \div 10], DigitOf[(m % 10) + 1])
       /\ f[m] # <<>>

\* A digit.
LEMMA DigitIs == ASSUME NEW d \in 0..9 PROVE DigitOf[d + 1] \in DigitSet
<1>1. d + 1 \in 1..10
  OBVIOUS
<1>2. DOMAIN DigitOf = 1..10
  BY DEF DigitOf
<1>3. QED BY <1>1, <1>2 DEF DigitSet

\* Every number has digits.
LEMMA SpellsExists == ASSUME NEW n \in Nat PROVE \E f : Spells(f, n)
<1> DEFINE Mute == {k \in Nat : \A f : ~ Spells(f, k)}
<1>0. Mute \subseteq Nat /\ \A k \in Nat : k \notin Mute <=> \E f : Spells(f, k)
  OBVIOUS
<1> HIDE DEF Mute
<1>1. SUFFICES ASSUME Mute # {} PROVE FALSE
  BY <1>0, Zenon
<1>2. PICK k \in Mute : \A j \in Mute : k <= j
  BY <1>0, <1>1, LeastNumber
<1>3. CASE k = 0
  <2> DEFINE f == [i \in 0..0 |-> <<DigitOf[1]>>]
  <2>1. DigitOf[1] \in DigitSet
    BY DigitIs
  <2>2. <<DigitOf[1]>> \in Seq(DigitSet) /\ <<DigitOf[1]>> # <<>>
    BY <2>1
  <2>3. f \in [0..0 -> Seq(DigitSet)] /\ \A m \in 0..0 : m = 0 /\ m + 1 = 1 /\ f[m] = <<DigitOf[1]>>
    BY <2>2
  <2> HIDE DEF f
  <2>4. Spells(f, 0)
    <3>1. ASSUME NEW m \in 0..0
          PROVE  /\ f[m] = IF m < 10 THEN <<DigitOf[m + 1]>> ELSE Append(f[m \div 10], DigitOf[(m % 10) + 1])
                 /\ f[m] # <<>>
      <4>1. m = 0 /\ m < 10 /\ m + 1 = 1
        OBVIOUS
      <4>2. f[m] = <<DigitOf[m + 1]>> /\ f[m] # <<>>
        BY <2>2, <2>3, <4>1, Zenon
      <4>3. QED BY <4>1, <4>2, Zenon
    <3>2. QED BY <2>3, <3>1, Zenon DEF Spells
  <2>5. QED BY <1>0, <1>2, <1>3, <2>4
<1>4. CASE k # 0
  <2>1. k \in Nat \ {0} /\ k - 1 \in Nat /\ k - 1 \notin Mute
    <3>1. k \in Nat
      BY <1>0, <1>2
    <3>2. k - 1 \in Nat /\ ~ (k <= k - 1)
      BY <1>4, <3>1
    <3>3. QED BY <1>2, <1>4, <3>1, <3>2
  <2>2. PICK f : Spells(f, k - 1)
    BY <1>0, <2>1
  <2> DEFINE spelled == IF k < 10 THEN <<DigitOf[k + 1]>> ELSE Append(f[k \div 10], DigitOf[(k % 10) + 1])
  <2>3. spelled \in Seq(DigitSet) /\ spelled # <<>>
    <3>1. CASE k < 10
      <4>1. DigitOf[k + 1] \in DigitSet
        BY <2>1, <3>1, DigitIs
      <4>2. QED BY <3>1, <4>1
    <3>2. CASE k >= 10
      <4>1. k % 10 \in 0..9 /\ k \div 10 \in 0..(k - 1)
        BY <2>1, <3>2
      <4>2. DigitOf[(k % 10) + 1] \in DigitSet /\ f[k \div 10] \in Seq(DigitSet)
        BY <2>2, <4>1, DigitIs DEF Spells
      <4>3. QED BY <2>1, <3>2, <4>2
    <3>3. QED BY <2>1, <3>1, <3>2
  <2> DEFINE g == [i \in 0..k |-> IF i = k THEN spelled ELSE f[i]]
  <2>4. /\ g \in [0..k -> Seq(DigitSet)] /\ g[k] = spelled
        /\ \A m \in 0..(k - 1) : g[m] = f[m]
    <3>1. f \in [0..(k - 1) -> Seq(DigitSet)]
      BY <2>2 DEF Spells
    <3>2. \A m \in 0..k : m = k \/ m \in 0..(k - 1)
      BY <2>1
    <3>3. k \in 0..k /\ \A m \in 0..(k - 1) : m \in 0..k /\ m # k
      BY <2>1
    <3> HIDE DEF spelled
    <3>4. QED BY <2>3, <3>1, <3>2, <3>3
  <2>5. ASSUME NEW m \in 0..k
        PROVE  /\ g[m] = IF m < 10 THEN <<DigitOf[m + 1]>> ELSE Append(g[m \div 10], DigitOf[(m % 10) + 1])
               /\ g[m] # <<>>
    <3>1. m >= 10 => m \div 10 \in 0..(m - 1) /\ m \div 10 \in 0..(k - 1)
      BY <2>1
    <3>2. m >= 10 => g[m \div 10] = f[m \div 10]
      BY <2>4, <3>1
    <3> HIDE DEF g
    <3>3. CASE m = k
      <4>1. g[k] = spelled /\ spelled # <<>>
        BY <2>3, <2>4
      <4>2. spelled = IF k < 10 THEN <<DigitOf[k + 1]>> ELSE Append(f[k \div 10], DigitOf[(k % 10) + 1])
        OBVIOUS
      <4> HIDE DEF spelled
      <4>3. CASE k < 10
        BY <3>3, <4>1, <4>2, <4>3
      <4>4. CASE k >= 10
        <5>1. ~ (k < 10) /\ g[k \div 10] = f[k \div 10]
          BY <2>1, <3>2, <3>3, <4>4
        <5>2. QED BY <3>3, <4>1, <4>2, <5>1
      <4>5. QED BY <2>1, <4>3, <4>4
    <3>4. CASE m # k
      <4>1. m \in 0..(k - 1)
        BY <2>1, <3>4
      <4>2. QED BY <2>2, <2>4, <3>2, <4>1 DEF Spells
    <3>5. QED BY <3>3, <3>4
  <2> HIDE DEF g
  <2>6. Spells(g, k)
    BY <2>4, <2>5 DEF Spells
  <2>7. QED BY <1>0, <1>2, <2>1, <2>6
<1>5. QED BY <1>3, <1>4

\* A numeral of at least one digit.
LEMMA DigitsType == ASSUME NEW n \in Nat PROVE Digits(n) \in Seq(DigitSet) /\ Digits(n) # <<>>
<1> DEFINE Rule(h) == [m \in 0..n |-> IF m < 10 THEN <<DigitOf[m + 1]>>
                                      ELSE Append(h[m \div 10], DigitOf[(m % 10) + 1])]
           digits == CHOOSE h : h = Rule(h)
<1>1. Digits(n) = digits[n]
  BY Zenon DEF Digits
<1>2. PICK f : Spells(f, n)
  BY SpellsExists
<1>3. f = Rule(f)
  <2>1. f = [m \in 0..n |-> f[m]]
    BY <1>2 DEF Spells
  <2>2. QED BY <1>2, <2>1 DEF Spells
<1>4. digits = Rule(digits)
  <2> HIDE DEF Rule
  <2>1. QED BY <1>3, Zenon
<1> HIDE DEF digits
<1>5. \A m \in 0..n : digits[m] = IF m < 10 THEN <<DigitOf[m + 1]>> ELSE Append(digits[m \div 10], DigitOf[(m % 10) + 1])
  BY <1>4
<1> DEFINE Differ == {m \in 0..n : digits[m] # f[m]}
<1>6. Differ = {}
  <2>1. SUFFICES ASSUME Differ # {} PROVE FALSE
    OBVIOUS
  <2>2. PICK m \in Differ : \A j \in Differ : m <= j
    <3>1. Differ \subseteq Nat
      OBVIOUS
    <3> HIDE DEF Differ
    <3>2. QED BY <2>1, <3>1, LeastNumber
  <2>3. m \in 0..n /\ digits[m] # f[m]
    OBVIOUS
  <2>4. m >= 10 => digits[m \div 10] = f[m \div 10]
    <3>1. m >= 10 => m \div 10 \in 0..n /\ ~ (m <= m \div 10)
      BY <2>3
    <3>2. QED BY <2>2, <3>1
  <2>5. f[m] = IF m < 10 THEN <<DigitOf[m + 1]>> ELSE Append(f[m \div 10], DigitOf[(m % 10) + 1])
    BY <1>2, <2>3, Zenon DEF Spells
  <2>6. digits[m] = IF m < 10 THEN <<DigitOf[m + 1]>> ELSE Append(digits[m \div 10], DigitOf[(m % 10) + 1])
    BY <1>5, <2>3
  <2>7. CASE m < 10
    BY <2>3, <2>5, <2>6, <2>7
  <2>8. CASE m >= 10
    <3>1. ~ (m < 10)
      BY <2>3, <2>8
    <3>2. QED BY <2>3, <2>4, <2>5, <2>6, <2>8, <3>1
  <2>9. QED BY <2>3, <2>7, <2>8
<1>7. n \in 0..n
  OBVIOUS
<1>8. QED BY <1>1, <1>2, <1>6, <1>7 DEF Spells

\* The characters that end a value or are blank are among those that are written.
LEMMA Characters ==
  /\ Blanks \subseteq Marks /\ Enders \subseteq Marks /\ DigitSet \subseteq Marks
  /\ DigitSet \subseteq Enders /\ Quote \in Marks /\ Backslash \in Marks
BY DEF Marks, Enders

\* A sequence over one set is a sequence over a larger one.
LEMMA SeqMonotone == ASSUME NEW S, NEW T, S \subseteq T PROVE Seq(S) \subseteq Seq(T)
<1>1. ASSUME NEW s \in Seq(S) PROVE s \in Seq(T)
  <2>1. Len(s) \in Nat /\ s \in [1..Len(s) -> S]
    OBVIOUS
  <2>2. s \in [1..Len(s) -> T]
    BY <2>1
  <2>3. QED BY <2>1, <2>2
<1>2. QED BY <1>1

\* The last character of a text is behind it.
LEMMA BehindLast ==
  ASSUME NEW C, NEW s \in Seq(C), NEW chars, s # <<>>, s[Len(s)] \in chars
  PROVE  Behind(s, chars)
<1>1. Len(s) \in 1..Len(s) /\ (Len(s) + 1)..Len(s) = {}
  OBVIOUS
<1>2. QED BY <1>1 DEF Behind

\* What is behind a text is so for a larger set of characters.
LEMMA BehindMore ==
  ASSUME NEW s, NEW chars, NEW more, chars \subseteq more, Behind(s, chars)
  PROVE  Behind(s, more)
BY DEF Behind

\* A number is written as characters of which the last is a digit.
LEMMA NumeralType ==
  ASSUME NEW C, Marks \subseteq C, NEW n \in Int
  PROVE  Numeral(n) \in Seq(C) /\ Behind(Numeral(n), Enders)
<1>1. ASSUME NEW m \in Nat PROVE Digits(m) \in Seq(C) /\ Behind(Digits(m), Enders)
  <2>1. Digits(m) \in Seq(DigitSet) /\ Digits(m) # <<>>
    BY DigitsType
  <2>2. Digits(m) \in Seq(C) /\ Digits(m)[Len(Digits(m))] \in Enders
    BY <2>1, Characters, SeqMonotone
  <2>3. QED BY <2>1, <2>2, BehindLast
<1>2. CASE n < 0
  <2>1. -n \in Nat
    BY <1>2
  <2>2. Digits(-n) \in Seq(C) /\ Behind(Digits(-n), Enders)
    BY <1>1, <2>1
  <2>3. <<"-">> \in Seq(C)
    <3>1. "-" \in C
      BY DEF Marks
    <3>2. QED BY <3>1
  <2>4. Behind(<<"-">> \o Digits(-n), Enders)
    BY <2>2, <2>3, BehindSecond
  <2>5. QED BY <1>2, <2>2, <2>3, <2>4 DEF Numeral
<1>3. CASE ~ (n < 0)
  <2>1. n \in Nat
    BY <1>3
  <2>2. QED BY <1>1, <1>3, <2>1 DEF Numeral
<1>4. QED BY <1>2, <1>3

\* The same of a number with a fraction.
LEMMA FixedPointType ==
  ASSUME NEW C, Marks \subseteq C, NEW n \in Int
  PROVE  FixedPoint(n) \in Seq(C) /\ Behind(FixedPoint(n), Enders)
<1> DEFINE m == IF n < 0 THEN -n ELSE n
           sign == IF n < 0 THEN <<"-">> ELSE <<>>
<1>1. m \in Nat /\ m \div 10 \in Nat /\ m % 10 \in Nat /\ ~ (m % 10 < 0) /\ m % 10 \in Int
  <2>1. m \in Nat
    OBVIOUS
  <2> HIDE DEF m
  <2>2. QED BY <2>1
<1>2. sign \in Seq(C) /\ <<".">> \in Seq(C)
  <2>1. "-" \in C /\ "." \in C
    BY DEF Marks
  <2>2. QED BY <2>1
<1>3. FixedPoint(n) = sign \o Digits(m \div 10) \o <<".">> \o Digits(m % 10)
  BY DEF FixedPoint
<1> HIDE DEF m, sign
<1>4. Digits(m \div 10) \in Seq(C) /\ Digits(m % 10) \in Seq(C)
  BY <1>1, DigitsType, Characters, SeqMonotone
<1>5. Behind(Digits(m % 10), Enders)
  <2>1. Numeral(m % 10) = Digits(m % 10)
    BY <1>1 DEF Numeral
  <2>2. QED BY <1>1, <2>1, NumeralType
<1>6. sign \o Digits(m \div 10) \o <<".">> \in Seq(C)
  BY <1>2, <1>4
<1> DEFINE front == sign \o Digits(m \div 10) \o <<".">>
<1>7. front \in Seq(C) /\ FixedPoint(n) = front \o Digits(m % 10)
  BY <1>3, <1>6
<1> HIDE DEF front
<1>8. QED BY <1>4, <1>5, <1>7, BehindSecond

\* Joined, the sequences over a set are one over it, even if there are none.
LEMMA FlattenIn ==
  ASSUME NEW S, NEW n \in Nat, NEW ss \in [1..n -> Seq(S)]
  PROVE  FlattenSeq(ss) \in Seq(S)
<1>1. CASE n = 0
  <2>1. ss = <<>> /\ Len(ss) = 0
    BY <1>1
  <2>2. QED BY <2>1 DEF FlattenSeq
<1>2. CASE n # 0
  BY <1>2, FlattenType
<1>3. QED BY <1>1, <1>2

\* A character of a string, escaped or not.
LEMMA EscapeType ==
  ASSUME NEW C, Marks \subseteq C, NEW c \in C
  PROVE  Escape(c) \in Seq(C)
<1>1. \A x \in DOMAIN LastHex : LastHex[x] \in C
  <2>1. DigitOf[10] = "9" /\ DOMAIN DigitOf = 1..10
    BY DEF DigitOf
  <2>2. "9" \in DigitSet
    BY <2>1 DEF DigitSet
  <2>3. "A" \in C /\ "9" \in C
    BY <2>2, Characters DEF Marks
  <2>4. QED BY <2>3 DEF LastHex
<1>2. "u" \in C /\ "0" \in C /\ Backslash \in C
  <2>1. DigitOf[1] = "0" /\ DOMAIN DigitOf = 1..10
    BY DEF DigitOf
  <2>2. "0" \in DigitSet
    BY <2>1 DEF DigitSet
  <2>3. QED BY <2>2, Characters DEF Marks
<1>3. QED BY <1>1, <1>2 DEF Escape

\* A string is written between quotes.
LEMMA LiteralType ==
  ASSUME NEW C, Marks \subseteq C, NEW s \in Seq(C)
  PROVE  Literal(s) \in Seq(C) /\ Behind(Literal(s), Enders)
<1> DEFINE ss == [i \in DOMAIN s |-> Escape(s[i])]
<1>1. \A c \in C : Escape(c) \in Seq(C)
  BY EscapeType
<1>2. Len(s) \in Nat /\ ss \in [1..Len(s) -> Seq(C)]
  <2>1. Len(s) \in Nat /\ DOMAIN s = 1..Len(s) /\ \A i \in DOMAIN s : s[i] \in C
    OBVIOUS
  <2>2. \A i \in DOMAIN s : Escape(s[i]) \in Seq(C)
    BY <1>1, <2>1
  <2>3. QED BY <2>1, <2>2
<1> HIDE DEF ss
<1>3. FlattenSeq(ss) \in Seq(C)
  BY <1>2, FlattenIn
<1>4. <<Quote>> \in Seq(C) /\ Behind(<<Quote>>, Enders)
  <2>1. Quote \in C /\ Quote \in Enders
    BY Characters DEF Enders
  <2>2. <<Quote>> \in Seq(C) /\ <<Quote>> # <<>> /\ <<Quote>>[Len(<<Quote>>)] \in Enders
    BY <2>1
  <2>3. QED BY <2>2, BehindLast
<1>5. Literal(s) = <<Quote>> \o FlattenSeq(ss) \o <<Quote>>
  BY Zenon DEF Literal, ss
<1>6. <<Quote>> \o FlattenSeq(ss) \in Seq(C)
  BY <1>3, <1>4
<1> DEFINE front == <<Quote>> \o FlattenSeq(ss)
<1>7. front \in Seq(C) /\ Literal(s) = front \o <<Quote>>
  BY <1>5, <1>6
<1> DEFINE quote == <<Quote>>
<1>8. quote \in Seq(C) /\ Behind(quote, Enders) /\ Literal(s) = front \o quote
  BY <1>4, <1>7
<1> HIDE DEF front, quote
<1>9. QED BY <1>7, <1>8, BehindSecond

\* A scalar is written as characters behind which a comma may follow.
LEMMA ScalarType ==
  ASSUME NEW C, Marks \subseteq C, NEW t, NEW v, t.kind \in Scalars,
         t.kind \in {"int", "long", "float"} => v \in Int,
         t.kind = "string" => v \in Seq(C)
  PROVE  ScalarText(t, v) \in Seq(C) /\ Behind(ScalarText(t, v), Enders)
<1>1. CASE t.kind \in {"int", "long"}
  BY <1>1, NumeralType DEF ScalarText
<1>2. CASE t.kind = "float"
  BY <1>2, FixedPointType DEF ScalarText
<1>3. CASE t.kind = "string"
  BY <1>3, LiteralType DEF ScalarText
<1>4. ASSUME NEW x \in C, NEW y \in Enders
      PROVE  <<x, y>> \in Seq(C) /\ Behind(<<x, y>>, Enders)
  <2>1. <<x, y>> \in Seq(C) /\ <<x, y>> # <<>> /\ <<x, y>>[Len(<<x, y>>)] \in Enders
    BY Characters
  <2>2. QED BY <2>1, BehindLast
<1>5. /\ "rue" \in Enders /\ "alse" \in Enders /\ "ull" \in Enders
      /\ "t" \in C /\ "f" \in C /\ "n" \in C
  BY DEF Enders, Marks
<1>6. CASE t.kind = "bool"
  <2>1. ScalarText(t, v) = IF v THEN <<"t", "rue">> ELSE <<"f", "alse">>
    BY <1>6 DEF ScalarText
  <2>2. QED BY <1>4, <1>5, <2>1
<1>7. CASE t.kind = "null"
  <2>1. ScalarText(t, v) = <<"n", "ull">>
    BY <1>7 DEF ScalarText
  <2>2. QED BY <1>4, <1>5, <2>1
<1>8. QED BY <1>1, <1>2, <1>3, <1>6, <1>7 DEF Scalars

-----------------------------------------------------------------------------
\* A type, with a value of it.
Part(t, v) == [type |-> t, value |-> v]

\* D is a set of types with values of them, whose characters are in C, with
\* every part of a value there is in it.
WellFormed(D, C) ==
  /\ Part(NullT, <<>>) \in D
  /\ \A d \in D :
       /\ d = Part(d.type, d.value)
       /\ d.type.kind \in Scalars \cup {"object", "user", "tuple", "optional", "variant", "array", "map"}
       /\ d.type.kind \in {"int", "long", "float"} => d.value \in Int
       /\ d.type.kind = "string" => d.value \in Seq(C)
       /\ d.type.kind \in {"object", "user", "tuple"} =>
            \E n \in Nat :
              /\ DOMAIN d.value = 1..n
              /\ \A i \in 1..n : /\ Part(d.type.of[i], d.value[i]) \in D
                                 /\ d.type.kind # "tuple" => d.type.names[i] \in Seq(C)
       /\ d.type.kind = "optional" /\ d.value # <<>> => Part(d.type.of[1], d.value[1]) \in D
       /\ d.type.kind = "variant" /\ d.value # <<>> =>
            d.value[1] \in Int /\ Part(d.type.of[d.value[1] + 1], d.value[2]) \in D
       /\ d.type.kind = "array" =>
            \E n \in Nat : DOMAIN d.value = 1..n /\ \A i \in 1..n : Part(d.type.of[1], d.value[i]) \in D
       /\ d.type.kind = "map" =>
            \E n \in Nat : DOMAIN d.value = 1..n /\ \A i \in 1..n :
              Part(d.type.of[1], d.value[i][1]) \in D /\ Part(d.type.of[2], d.value[i][2]) \in D

\* The calls that write them.
CallsOf(D, C) ==
  {Serialize(d.type, d.value) : d \in D} \cup {WriteElement(d.type, d.value) : d \in D}
    \cup {WriteProperty(n, d.type, d.value) : n \in Seq(C), d \in D}
    \cup {WritePropertyCb(n, d.type, d.value) : n \in Seq(C), d \in D}
    \cup {Do(op) : op \in {"begin_object", "end_object", "begin_array", "end_array",
                           "begin_entry", "not_first"}}

\* The calls that may be next but one, behind a call of op.
Follow(op) ==
  CASE op = "serialize"         -> {"not_first"}
    [] op = "begin_object"      -> {"write_property", "write_property_cb", "write_element", "end_object"}
    [] op = "begin_array"       -> {"write_element", "begin_entry", "end_array"}
    [] op = "end_object"        -> {"not_first", "begin_entry", "end_array"}
    [] op = "end_array"         -> {"not_first"}
    [] op = "begin_entry"       -> {"begin_object"}
    [] op = "write_property"    -> {"write_property", "end_object"}
    [] op = "write_property_cb" -> {"end_object"}
    [] op = "write_element"     -> {"write_element", "end_object", "end_array", "not_first"}
    [] op = "not_first"         -> {"write_property", "write_element", "end_object", "end_array", "not_first"}

\* One call fits behind the other, and the object in front of an entry of a map
\* is one into which something has been written.
Chained(q) ==
  /\ \A i \in 2..Len(q) : q[i].op \in Follow(q[i - 1].op)
  /\ \A i \in 3..Len(q) :
       q[i].op = "begin_entry" /\ q[i - 1].op = "end_object" => q[i - 2].op \in {"write_element", "not_first"}

\* The calls that write a value that is not a scalar.
Whole(c, S) ==
  /\ c \in Seq(S) /\ c # <<>> /\ Chained(c)
  /\ c[1].op \in {"begin_object", "begin_array"}
  /\ c[Len(c)].op \in {"end_object", "end_array"}

\* What a call is, by its name.
LEMMA CallIs ==
  ASSUME NEW D, NEW C, NEW c \in CallsOf(D, C)
  PROVE  /\ c.op \in {"serialize", "write_element", "write_property", "write_property_cb"} =>
              \E d \in D : c.type = d.type /\ c.value = d.value
         /\ c.op \in {"write_property", "write_property_cb"} => c.name \in Seq(C)
<1>1. CASE c \in {Do(op) : op \in {"begin_object", "end_object", "begin_array", "end_array",
                                   "begin_entry", "not_first"}}
  BY <1>1 DEF Do
<1>2. CASE \E d \in D : c = Serialize(d.type, d.value)
  BY <1>2 DEF Serialize
<1>3. CASE \E d \in D : c = WriteElement(d.type, d.value)
  BY <1>3 DEF WriteElement
<1>4. CASE \E n \in Seq(C), d \in D : c = WriteProperty(n, d.type, d.value)
  BY <1>4 DEF WriteProperty
<1>5. CASE \E n \in Seq(C), d \in D : c = WritePropertyCb(n, d.type, d.value)
  BY <1>5 DEF WritePropertyCb
<1>6. QED BY <1>1, <1>2, <1>3, <1>4, <1>5 DEF CallsOf

\* c is a call of op.
IsCall(c, op, S) == c \in S /\ c.op = op

\* The calls for a part of a value.
LEMMA CallOfPart ==
  ASSUME NEW D, NEW C, NEW t, NEW v, Part(t, v) \in D
  PROVE  /\ IsCall(Serialize(t, v), "serialize", CallsOf(D, C))
         /\ IsCall(WriteElement(t, v), "write_element", CallsOf(D, C))
         /\ \A n \in Seq(C) : /\ IsCall(WriteProperty(n, t, v), "write_property", CallsOf(D, C))
                              /\ IsCall(WritePropertyCb(n, t, v), "write_property_cb", CallsOf(D, C))
<1>1. PICK d \in D : d.type = t /\ d.value = v
  BY DEF Part
<1>2. Serialize(t, v) \in CallsOf(D, C) /\ WriteElement(t, v) \in CallsOf(D, C)
  BY <1>1 DEF CallsOf
<1>3. ASSUME NEW n \in Seq(C)
      PROVE  WriteProperty(n, t, v) \in CallsOf(D, C) /\ WritePropertyCb(n, t, v) \in CallsOf(D, C)
  BY <1>1 DEF CallsOf
<1>4. ASSUME NEW n
      PROVE  /\ Serialize(t, v).op = "serialize" /\ WriteElement(t, v).op = "write_element"
             /\ WriteProperty(n, t, v).op = "write_property"
             /\ WritePropertyCb(n, t, v).op = "write_property_cb"
  BY DEF Serialize, WriteElement, WriteProperty, WritePropertyCb
<1>5. QED BY <1>2, <1>3, <1>4 DEF IsCall

\* The calls without a value.
LEMMA CallOfOp ==
  ASSUME NEW D, NEW C,
         NEW op \in {"begin_object", "end_object", "begin_array", "end_array", "begin_entry", "not_first"}
  PROVE  IsCall(Do(op), op, CallsOf(D, C))
<1>1. Do(op) \in CallsOf(D, C)
  BY DEF CallsOf
<1>2. QED BY <1>1 DEF Do, IsCall

\* Two sequences of calls that fit are one, if what is at the seam fits.
LEMMA ChainedConcat ==
  ASSUME NEW S, NEW a \in Seq(S), NEW b \in Seq(S), Chained(a), Chained(b),
         a # <<>> /\ b # <<>> => b[1].op \in Follow(a[Len(a)].op),
         Len(a) > 1 /\ b # <<>> /\ b[1].op = "begin_entry" /\ a[Len(a)].op = "end_object" =>
           a[Len(a) - 1].op \in {"write_element", "not_first"},
         a # <<>> /\ Len(b) > 1 /\ b[2].op = "begin_entry" /\ b[1].op = "end_object" =>
           a[Len(a)].op \in {"write_element", "not_first"}
  PROVE  Chained(a \o b)
<1> DEFINE m == Len(a)
           n == Len(b)
           r == a \o b
<1>1. /\ m \in Nat /\ n \in Nat /\ Len(r) = m + n
      /\ \A i \in 1..m : r[i] = a[i]
      /\ \A i \in (m + 1)..(m + n) : r[i] = b[i - m]
      /\ m > 0 => a # <<>>
      /\ n > 0 => b # <<>>
  OBVIOUS
<1>2. /\ \A i \in 2..m : a[i].op \in Follow(a[i - 1].op)
      /\ \A i \in 2..n : b[i].op \in Follow(b[i - 1].op)
  BY Zenon DEF Chained
<1>3. /\ \A i \in 3..m : a[i].op = "begin_entry" /\ a[i - 1].op = "end_object" => a[i - 2].op \in {"write_element", "not_first"}
      /\ \A i \in 3..n : b[i].op = "begin_entry" /\ b[i - 1].op = "end_object" => b[i - 2].op \in {"write_element", "not_first"}
  BY Zenon DEF Chained
<1>4. /\ m > 0 /\ n > 0 => b[1].op \in Follow(a[m].op)
      /\ m > 1 /\ n > 0 /\ b[1].op = "begin_entry" /\ a[m].op = "end_object" =>
           a[m - 1].op \in {"write_element", "not_first"}
      /\ m > 0 /\ n > 1 /\ b[2].op = "begin_entry" /\ b[1].op = "end_object" =>
           a[m].op \in {"write_element", "not_first"}
  BY <1>1
<1> HIDE DEF m, n, r
<1>5. ASSUME NEW i \in 2..(m + n) PROVE r[i].op \in Follow(r[i - 1].op)
  <2>1. CASE i <= m
    <3>1. i \in 2..m /\ i \in 1..m /\ i - 1 \in 1..m
      BY <1>1, <2>1
    <3>2. QED BY <1>1, <1>2, <3>1
  <2>2. CASE i = m + 1
    <3>1. m \in 1..m /\ i - 1 = m /\ i - m = 1 /\ i \in (m + 1)..(m + n) /\ m > 0 /\ n > 0
      BY <1>1, <2>2
    <3>2. r[i] = b[1] /\ r[i - 1] = a[m]
      BY <1>1, <3>1
    <3>3. QED BY <1>4, <3>1, <3>2
  <2>3. CASE i > m + 1
    <3>1. /\ i \in (m + 1)..(m + n) /\ i - 1 \in (m + 1)..(m + n) /\ i - m \in 2..n
          /\ (i - 1) - m = (i - m) - 1
      BY <1>1, <2>3
    <3>2. r[i] = b[i - m] /\ r[i - 1] = b[(i - m) - 1]
      BY <1>1, <3>1
    <3>3. QED BY <1>2, <3>1, <3>2
  <2>4. QED BY <1>1, <2>1, <2>2, <2>3
<1>6. ASSUME NEW i \in 3..(m + n), r[i].op = "begin_entry", r[i - 1].op = "end_object"
      PROVE  r[i - 2].op \in {"write_element", "not_first"}
  <2>1. CASE i <= m
    <3>1. i \in 3..m /\ i \in 1..m /\ i - 1 \in 1..m /\ i - 2 \in 1..m
      BY <1>1, <2>1
    <3>2. QED BY <1>1, <1>3, <1>6, <3>1
  <2>2. CASE i = m + 1
    <3>1. /\ m \in 1..m /\ i - 1 = m /\ i - m = 1 /\ i \in (m + 1)..(m + n) /\ m > 1 /\ n > 0
          /\ m - 1 \in 1..m /\ i - 2 = m - 1
      BY <1>1, <2>2
    <3>2. r[i] = b[1] /\ r[i - 1] = a[m] /\ r[i - 2] = a[m - 1]
      BY <1>1, <3>1
    <3>3. QED BY <1>4, <1>6, <3>1, <3>2
  <2>3. CASE i = m + 2
    <3>1. /\ m \in 1..m /\ i - 1 = m + 1 /\ i - m = 2 /\ i \in (m + 1)..(m + n) /\ m > 0 /\ n > 1
          /\ m + 1 \in (m + 1)..(m + n) /\ (m + 1) - m = 1 /\ i - 2 = m
      BY <1>1, <2>3
    <3>2. r[i] = b[2] /\ r[i - 1] = b[1] /\ r[i - 2] = a[m]
      BY <1>1, <3>1
    <3>3. QED BY <1>4, <1>6, <3>1, <3>2
  <2>4. CASE i > m + 2
    <3>1. /\ i \in (m + 1)..(m + n) /\ i - 1 \in (m + 1)..(m + n) /\ i - 2 \in (m + 1)..(m + n)
          /\ i - m \in 3..n /\ (i - 1) - m = (i - m) - 1 /\ (i - 2) - m = (i - m) - 2
      BY <1>1, <2>4
    <3>2. r[i] = b[i - m] /\ r[i - 1] = b[(i - m) - 1] /\ r[i - 2] = b[(i - m) - 2]
      BY <1>1, <3>1
    <3>3. QED BY <1>3, <1>6, <3>1, <3>2
  <2>5. QED BY <1>1, <2>1, <2>2, <2>3, <2>4
<1>7. Chained(r)
  BY <1>1, <1>5, <1>6 DEF Chained
<1>8. QED BY <1>7 DEF r

\* Calls of one name, that may follow one another.
Alike(calls, op, S) ==
  \E n \in Nat : /\ calls \in [1..n -> S]
                 /\ \A i \in 1..n : calls[i].op = op
                 /\ n > 1 => op \in Follow(op)

\* They fit.
LEMMA ChainedAlike ==
  ASSUME NEW S, NEW calls, NEW op, Alike(calls, op, S), op # "begin_entry"
  PROVE  /\ calls \in Seq(S) /\ Chained(calls)
         /\ calls # <<>> => calls[1].op = op /\ calls[Len(calls)].op = op
<1>1. PICK n \in Nat : /\ calls \in [1..n -> S]
                       /\ \A i \in 1..n : calls[i].op = op
                       /\ n > 1 => op \in Follow(op)
  BY DEF Alike
<1>2. calls \in Seq(S) /\ Len(calls) = n
  BY <1>1
<1>3. ASSUME NEW i \in 2..n PROVE calls[i].op \in Follow(calls[i - 1].op)
  <2>1. n > 1 /\ i \in 1..n /\ i - 1 \in 1..n
    OBVIOUS
  <2>2. QED BY <1>1, <2>1
<1>4. \A i \in 3..n : calls[i].op # "begin_entry"
  BY <1>1
<1>5. calls # <<>> => 1 \in 1..n /\ n \in 1..n
  BY <1>2
<1>6. QED BY <1>1, <1>2, <1>3, <1>4, <1>5 DEF Chained

\* What one sequence behind another is.
LEMMA ConcatIs ==
  ASSUME NEW S, NEW a \in Seq(S), NEW b \in Seq(S)
  PROVE  /\ a \o b \in Seq(S) /\ Len(a) \in Nat /\ Len(b) \in Nat /\ Len(a \o b) = Len(a) + Len(b)
         /\ \A i \in 1..Len(a) : (a \o b)[i] = a[i]
         /\ \A i \in 1..Len(b) : (a \o b)[Len(a) + i] = b[i]
OBVIOUS

\* Calls between a bracket that opens and one that closes write a whole value.
LEMMA Enclosed ==
  ASSUME NEW S, NEW calls \in Seq(S), NEW x \in S, NEW y \in S, Chained(calls),
         x.op \in {"begin_object", "begin_array"}, y.op \in {"end_object", "end_array"},
         calls = <<>> => y.op \in Follow(x.op),
         calls # <<>> => /\ calls[1].op \in Follow(x.op) \ {"end_object"}
                         /\ y.op \in Follow(calls[Len(calls)].op)
  PROVE  Whole(<<x>> \o calls \o <<y>>, S)
<1> DEFINE a == <<x>>
           z == <<y>>
           b == a \o calls
<1>1. a \in Seq(S) /\ Len(a) = 1 /\ a[1] = x /\ a # <<>> /\ z \in Seq(S) /\ Len(z) = 1 /\ z[1] = y /\ z # <<>>
  OBVIOUS
<1> HIDE DEF a, z
<1>2. Chained(a) /\ Chained(z)
  BY <1>1 DEF Chained
<1>3. Chained(b)
  <2>1. calls # <<>> => calls[1].op \in Follow(a[Len(a)].op) /\ calls[1].op # "end_object" /\ a[Len(a)].op # "end_object"
    BY <1>1
  <2>2. Len(calls) > 1 => calls # <<>>
    OBVIOUS
  <2>3. QED BY <1>1, <1>2, <2>1, <2>2, ChainedConcat
<1>4. /\ b \in Seq(S) /\ Len(b) = 1 + Len(calls) /\ Len(calls) \in Nat /\ b # <<>> /\ b[1] = x
      /\ calls = <<>> => b[Len(b)] = x
      /\ calls # <<>> => b[Len(b)] = calls[Len(calls)]
  <2>1. b \in Seq(S) /\ Len(b) = 1 + Len(calls) /\ Len(calls) \in Nat /\ b # <<>> /\ b[1] = x
    <3>1. b \in Seq(S) /\ Len(b) = 1 + Len(calls) /\ Len(calls) \in Nat
      BY <1>1, ConcatIs
    <3>2. b[1] = a[1]
      BY <1>1
    <3> HIDE DEF b
    <3>3. b # <<>>
      BY <3>1
    <3>4. QED BY <1>1, <3>1, <3>2, <3>3
  <2>2. calls = <<>> => Len(calls) = 0
    OBVIOUS
  <2>3. ASSUME calls # <<>> PROVE b[Len(b)] = calls[Len(calls)]
    <3>1. 1 + Len(calls) > Len(a) /\ 1 + Len(calls) <= Len(a) + Len(calls) /\ (1 + Len(calls)) - Len(a) = Len(calls)
      BY <1>1, <2>1, <2>3
    <3>2. QED BY <1>1, <2>1, <3>1
  <2> HIDE DEF b
  <2>4. QED BY <2>1, <2>2, <2>3
<1> HIDE DEF b
<1>5. z[1].op \in Follow(b[Len(b)].op) /\ z[1].op # "begin_entry" /\ ~ (Len(z) > 1)
  BY <1>1, <1>4
<1>6. Chained(b \o z)
  BY <1>1, <1>2, <1>3, <1>4, <1>5, ChainedConcat
<1>7. /\ b \o z \in Seq(S) /\ b \o z # <<>> /\ (b \o z)[1] = x
      /\ (b \o z)[Len(b \o z)] = y
  <2>1. Len(b) \in Nat /\ Len(b) >= 1 /\ (Len(b) + 1) - Len(b) = 1
    BY <1>4
  <2>2. b \o z \in Seq(S) /\ Len(b \o z) = Len(b) + 1
    <3>1. b \in Seq(S) /\ z \in Seq(S) /\ Len(z) = 1
      BY <1>1, <1>4
    <3>2. b \o z \in Seq(S) /\ Len(b \o z) = Len(b) + Len(z)
      BY <3>1, ConcatIs, Zenon
    <3>3. QED BY <3>1, <3>2
  <2>3. (b \o z)[1] = b[1] /\ (b \o z)[Len(b) + 1] = z[1]
    BY <1>1, <1>4, <2>1
  <2> DEFINE r == b \o z
  <2>4. r \in Seq(S) /\ Len(r) = Len(b) + 1 /\ r[1] = b[1] /\ r[Len(b) + 1] = z[1]
    BY <2>2, <2>3
  <2> HIDE DEF r
  <2>5. r # <<>> /\ r[1] = x /\ r[Len(r)] = y
    BY <1>1, <1>4, <2>1, <2>4
  <2>6. QED BY <2>2, <2>5 DEF r
<1>8. Whole(b \o z, S)
  BY <1>6, <1>7 DEF Whole
<1>9. QED BY <1>8 DEF a, b, z

\* The calls for entries of a map: the last one closes the object that the last
\* entry is, behind its second element.
EntryRun(q, S) ==
  /\ q \in Seq(S) /\ Chained(q)
  /\ q # <<>> => /\ Len(q) > 1 /\ q[1].op = "begin_entry"
                 /\ q[Len(q)].op = "end_object" /\ q[Len(q) - 1].op = "write_element"

\* One entry.
LEMMA EntryRunOne ==
  ASSUME NEW S, NEW x \in S, NEW y \in S, NEW u \in S, NEW v \in S, NEW z \in S,
         x.op = "begin_entry", y.op = "begin_object", u.op = "write_element", v.op = "write_element",
         z.op = "end_object"
  PROVE  EntryRun(<<x>> \o <<y>> \o <<u, v>> \o <<z>>, S)
<1> DEFINE a == <<x>>
           b == <<y>>
           c == <<u, v>>
           e == <<z>>
           ab == a \o b
           abc == ab \o c
           q == abc \o e
<1>1. /\ a \in Seq(S) /\ Len(a) = 1 /\ a[1] = x /\ b \in Seq(S) /\ Len(b) = 1 /\ b[1] = y
      /\ e \in Seq(S) /\ Len(e) = 1 /\ e[1] = z
  OBVIOUS
<1>2. c \in Seq(S) /\ Len(c) = 2 /\ c[1] = u /\ c[2] = v
  OBVIOUS
<1> HIDE DEF a, b, c, e
<1>3. ab \in Seq(S) /\ Len(ab) = 2 /\ ab[1] = x /\ ab[2] = y
  <2>1. /\ ab \in Seq(S) /\ Len(ab) = 2
        /\ \A i \in 1..Len(a) : ab[i] = a[i]
        /\ \A i \in 1..Len(b) : ab[Len(a) + i] = b[i]
    <3>1. a \in Seq(S) /\ b \in Seq(S)
      BY <1>1
    <3>2. /\ ab \in Seq(S) /\ Len(ab) = Len(a) + Len(b)
          /\ \A i \in 1..Len(a) : ab[i] = a[i]
          /\ \A i \in 1..Len(b) : ab[Len(a) + i] = b[i]
      BY <3>1, ConcatIs
    <3>3. Len(a) = 1 /\ Len(b) = 1
      BY <1>1
    <3>4. QED BY <3>2, <3>3
  <2>2. 1 \in 1..Len(a) /\ 1 \in 1..Len(b) /\ Len(a) + 1 = 2
    BY <1>1
  <2> HIDE DEF ab
  <2>3. QED BY <1>1, <2>1, <2>2
<1> HIDE DEF ab
<1>4. abc \in Seq(S) /\ Len(abc) = 4 /\ abc[1] = x /\ abc[2] = y /\ abc[3] = u /\ abc[4] = v
  <2>1. /\ abc \in Seq(S) /\ Len(abc) = 4
        /\ \A i \in 1..Len(ab) : abc[i] = ab[i]
        /\ \A i \in 1..Len(c) : abc[Len(ab) + i] = c[i]
    <3>1. ab \in Seq(S) /\ c \in Seq(S)
      BY <1>2, <1>3
    <3>2. /\ abc \in Seq(S) /\ Len(abc) = Len(ab) + Len(c)
          /\ \A i \in 1..Len(ab) : abc[i] = ab[i]
          /\ \A i \in 1..Len(c) : abc[Len(ab) + i] = c[i]
      BY <3>1, ConcatIs
    <3>3. Len(ab) = 2 /\ Len(c) = 2
      BY <1>2, <1>3
    <3>4. QED BY <3>2, <3>3
  <2>2. 1 \in 1..Len(ab) /\ 2 \in 1..Len(ab) /\ 1 \in 1..Len(c) /\ Len(ab) + 1 = 3 /\ 2 \in 1..Len(c) /\ Len(ab) + 2 = 4
    BY <1>2, <1>3
  <2> HIDE DEF abc
  <2>3. QED BY <1>2, <1>3, <2>1, <2>2
<1> HIDE DEF abc
<1>5. q \in Seq(S) /\ Len(q) = 5 /\ q[1] = x /\ q[2] = y /\ q[3] = u /\ q[4] = v /\ q[5] = z
  <2>1. /\ q \in Seq(S) /\ Len(q) = 5
        /\ \A i \in 1..Len(abc) : q[i] = abc[i]
        /\ \A i \in 1..Len(e) : q[Len(abc) + i] = e[i]
    <3>1. abc \in Seq(S) /\ e \in Seq(S)
      BY <1>1, <1>4
    <3>2. /\ q \in Seq(S) /\ Len(q) = Len(abc) + Len(e)
          /\ \A i \in 1..Len(abc) : q[i] = abc[i]
          /\ \A i \in 1..Len(e) : q[Len(abc) + i] = e[i]
      BY <3>1, ConcatIs
    <3>3. Len(abc) = 4 /\ Len(e) = 1
      BY <1>1, <1>4
    <3>4. QED BY <3>2, <3>3
  <2>2. 1 \in 1..Len(abc) /\ 2 \in 1..Len(abc) /\ 3 \in 1..Len(abc) /\ 4 \in 1..Len(abc) /\ 1 \in 1..Len(e) /\ Len(abc) + 1 = 5
    BY <1>1, <1>4
  <2> HIDE DEF q
  <2>3. QED BY <1>1, <1>4, <2>1, <2>2
<1> HIDE DEF q
<1>6. ASSUME NEW i \in 2..Len(q) PROVE q[i].op \in Follow(q[i - 1].op)
  <2>1. i = 2 \/ i = 3 \/ i = 4 \/ i = 5
    BY <1>5
  <2>2. CASE i = 2
    BY <1>5, <2>2 DEF Follow
  <2>3. CASE i = 3
    BY <1>5, <2>3 DEF Follow
  <2>4. CASE i = 4
    BY <1>5, <2>4 DEF Follow
  <2>5. CASE i = 5
    BY <1>5, <2>5 DEF Follow
  <2>6. QED BY <2>1, <2>2, <2>3, <2>4, <2>5
<1>7. ASSUME NEW i \in 3..Len(q) PROVE q[i].op # "begin_entry"
  <2>1. i = 3 \/ i = 4 \/ i = 5
    BY <1>5
  <2>2. QED BY <1>5, <2>1
<1>8. Chained(q)
  BY <1>6, <1>7 DEF Chained
<1>9. EntryRun(q, S)
  BY <1>5, <1>8 DEF EntryRun
<1>10. QED BY <1>9 DEF q, abc, ab, a, b, c, e

\* Entries behind others.
LEMMA EntryRunConcat ==
  ASSUME NEW S, NEW a, NEW b, EntryRun(a, S), EntryRun(b, S), b # <<>>
  PROVE  EntryRun(a \o b, S)
<1>1. /\ a \in Seq(S) /\ Chained(a)
      /\ a # <<>> => /\ Len(a) > 1 /\ a[1].op = "begin_entry"
                     /\ a[Len(a)].op = "end_object" /\ a[Len(a) - 1].op = "write_element"
  BY DEF EntryRun
<1>2. /\ b \in Seq(S) /\ Chained(b) /\ Len(b) > 1 /\ b[1].op = "begin_entry"
      /\ b[Len(b)].op = "end_object" /\ b[Len(b) - 1].op = "write_element"
  BY DEF EntryRun
<1>3. a # <<>> => b[1].op \in Follow(a[Len(a)].op)
  BY <1>1, <1>2 DEF Follow
<1>4. Chained(a \o b)
  <2>1. Len(a) > 1 => a # <<>>
    BY <1>1
  <2>2. b[1].op # "end_object"
    BY <1>2
  <2>3. QED BY <1>1, <1>2, <1>3, <2>1, <2>2, ChainedConcat
<1> DEFINE r == a \o b
<1>5. /\ r \in Seq(S) /\ Len(a) \in Nat /\ Len(b) \in Nat /\ Len(r) = Len(a) + Len(b)
      /\ \A i \in 1..Len(a) : r[i] = a[i]
      /\ \A i \in 1..Len(b) : r[Len(a) + i] = b[i]
  BY <1>1, <1>2, ConcatIs
<1> HIDE DEF r
<1>6. r[1].op = "begin_entry"
  <2>1. CASE a = <<>>
    <3>1. Len(a) = 0 /\ 1 \in 1..Len(b) /\ Len(a) + 1 = 1
      BY <1>2, <1>5, <2>1
    <3>2. QED BY <1>2, <1>5, <3>1
  <2>2. CASE a # <<>>
    <3>1. 1 \in 1..Len(a)
      BY <1>1, <1>5, <2>2
    <3>2. QED BY <1>1, <1>5, <2>2, <3>1
  <2>3. QED BY <2>1, <2>2
<1>7. r[Len(r)] = b[Len(b)] /\ r[Len(r) - 1] = b[Len(b) - 1] /\ Len(r) > 1
  <2>1. Len(b) \in 1..Len(b) /\ Len(b) - 1 \in 1..Len(b) /\ Len(r) > 1
    BY <1>2, <1>5
  <2>2. Len(r) = Len(a) + Len(b) /\ Len(r) - 1 = Len(a) + (Len(b) - 1)
    BY <1>5
  <2>3. QED BY <1>5, <2>1, <2>2
<1>8. EntryRun(r, S)
  <2>1. Chained(r)
    BY <1>4 DEF r
  <2>2. QED BY <1>2, <1>5, <1>6, <1>7, <2>1 DEF EntryRun
<1>9. QED BY <1>8 DEF r

\* All the entries of a map.
LEMMA EntryRunAll ==
  ASSUME NEW S, NEW n \in Nat, NEW ss \in [1..n -> Seq(S)],
         \A i \in 1..n : EntryRun(ss[i], S) /\ ss[i] # <<>>
  PROVE  EntryRun(FlattenSeq(ss), S)
<1>1. EntryRun(<<>>, S)
  BY DEF EntryRun, Chained
<1>2. CASE n = 0
  <2>1. ss = <<>> /\ Len(ss) = 0
    BY <1>2
  <2>2. FlattenSeq(ss) = <<>>
    BY <2>1 DEF FlattenSeq
  <2>3. QED BY <1>1, <2>2
<1>3. CASE n # 0
  <2>1. PICK f : Joins(f, ss, n, S)
    BY JoinExists
  <2>2. f[0] = <<>> /\ \A i \in 1..n : f[i] = f[i - 1] \o ss[i]
    BY <2>1 DEF Joins
  <2> DEFINE Torn == {i \in 0..n : ~ EntryRun(f[i], S)}
  <2>3. Torn = {}
    <3>1. SUFFICES ASSUME Torn # {} PROVE FALSE
      OBVIOUS
    <3>2. PICK i \in Torn : \A j \in Torn : i <= j
      <4>1. Torn \subseteq Nat
        OBVIOUS
      <4> HIDE DEF Torn
      <4>2. QED BY <3>1, <4>1, LeastNumber
    <3>3. i \in 0..n /\ ~ EntryRun(f[i], S)
      OBVIOUS
    <3>4. CASE i = 0
      BY <1>1, <2>2, <3>3, <3>4
    <3>5. CASE i # 0
      <4>1. i \in 1..n /\ i - 1 \in 0..n /\ ~ (i <= i - 1)
        BY <3>3, <3>5
      <4>2. i - 1 \notin Torn
        <5> HIDE DEF Torn
        <5>1. QED BY <3>2, <4>1
      <4>3. EntryRun(f[i - 1], S)
        BY <4>1, <4>2
      <4>4. EntryRun(f[i - 1] \o ss[i], S)
        BY <4>1, <4>3, EntryRunConcat
      <4>5. QED BY <2>2, <3>3, <4>1, <4>4
    <3>6. QED BY <3>4, <3>5
  <2>4. n \in 0..n
    OBVIOUS
  <2>5. EntryRun(f[n], S)
    BY <2>3, <2>4
  <2>6. FlattenSeq(ss) = f[n]
    BY <1>3, <2>1, FlattenJoins
  <2>7. QED BY <2>5, <2>6
<1>4. QED BY <1>2, <1>3

\* The calls for an object or an array, all of one name.
LEMMA ObjectWhole ==
  ASSUME NEW S, NEW calls, NEW op, op \in {"write_property", "write_property_cb"}, Alike(calls, op, S),
         IsCall(Do("begin_object"), "begin_object", S), IsCall(Do("end_object"), "end_object", S)
  PROVE  Whole(InObject(calls), S)
<1> DEFINE x == Do("begin_object")
           y == Do("end_object")
<1>1. /\ calls \in Seq(S) /\ Chained(calls)
      /\ calls # <<>> => calls[1].op = op /\ calls[Len(calls)].op = op
  BY ChainedAlike
<1>2. x \in S /\ y \in S /\ x.op = "begin_object" /\ y.op = "end_object"
  BY DEF IsCall
<1> HIDE DEF x, y
<1>3. op \in Follow(x.op) \ {"end_object"} /\ y.op \in Follow(op) /\ y.op \in Follow(x.op)
  BY <1>2 DEF Follow
<1>4. Whole(<<x>> \o calls \o <<y>>, S)
  BY <1>1, <1>2, <1>3, Enclosed
<1>5. QED BY <1>4 DEF InObject, x, y

\* The same of an array.
LEMMA ArrayWhole ==
  ASSUME NEW S, NEW calls \in Seq(S), Chained(calls),
         calls # <<>> => \/ calls[1].op = "write_element" /\ calls[Len(calls)].op = "write_element"
                         \/ calls[1].op = "begin_entry" /\ calls[Len(calls)].op = "end_object",
         IsCall(Do("begin_array"), "begin_array", S), IsCall(Do("end_array"), "end_array", S)
  PROVE  Whole(InArray(calls), S)
<1> DEFINE x == Do("begin_array")
           y == Do("end_array")
<1>1. x \in S /\ y \in S /\ x.op = "begin_array" /\ y.op = "end_array"
  BY DEF IsCall
<1> HIDE DEF x, y
<1>2. /\ y.op \in Follow(x.op)
      /\ calls # <<>> => calls[1].op \in Follow(x.op) \ {"end_object"} /\ y.op \in Follow(calls[Len(calls)].op)
  BY <1>1 DEF Follow
<1>3. Whole(<<x>> \o calls \o <<y>>, S)
  BY <1>1, <1>2, Enclosed
<1>4. QED BY <1>3 DEF InArray, x, y

\* Whatever a value is, the calls for it are for a whole value.
LEMMA CallsForWhole ==
  ASSUME NEW C, Marks \subseteq C, NEW D, WellFormed(D, C), NEW d \in D, d.type.kind \notin Scalars
  PROVE  Whole(CallsFor(d.type, d.value), CallsOf(D, C))
<1> DEFINE S == CallsOf(D, C)
           t == d.type
           v == d.value
<1>0. SUFFICES Whole(CallsFor(t, v), S)
  OBVIOUS
<1>1. /\ IsCall(Do("begin_object"), "begin_object", S) /\ IsCall(Do("end_object"), "end_object", S)
      /\ IsCall(Do("begin_array"), "begin_array", S) /\ IsCall(Do("end_array"), "end_array", S)
      /\ IsCall(Do("begin_entry"), "begin_entry", S)
  BY CallOfOp
<1>2. ASSUME NEW u, NEW w, Part(u, w) \in D
      PROVE  /\ IsCall(WriteElement(u, w), "write_element", S)
             /\ \A n \in Seq(C) : /\ IsCall(WriteProperty(n, u, w), "write_property", S)
                                  /\ IsCall(WritePropertyCb(n, u, w), "write_property_cb", S)
  BY <1>2, CallOfPart
<1>3. <<"value">> \in Seq(C) /\ \A n \in Int : Numeral(n) \in Seq(C)
  <2>1. "value" \in C
    BY DEF Marks
  <2>2. QED BY <2>1, NumeralType
<1> HIDE DEF S
<1>4. CASE t.kind \in {"object", "user"}
  <2>1. PICK n \in Nat : /\ DOMAIN v = 1..n
                         /\ \A i \in 1..n : Part(t.of[i], v[i]) \in D /\ t.names[i] \in Seq(C)
    BY <1>4 DEF WellFormed
  <2> DEFINE calls == [i \in DOMAIN v |-> WriteProperty(t.names[i], t.of[i], v[i])]
  <2>2. \A i \in 1..n : IsCall(WriteProperty(t.names[i], t.of[i], v[i]), "write_property", S)
    BY <1>2, <2>1
  <2>3. calls \in [1..n -> S] /\ \A i \in 1..n : calls[i].op = "write_property"
    BY <2>1, <2>2 DEF IsCall
  <2>4. CallsFor(t, v) = InObject(calls)
    BY <1>4 DEF CallsFor, Properties
  <2> HIDE DEF calls
  <2>5. "write_property" \in Follow("write_property")
    BY DEF Follow
  <2>6. Alike(calls, "write_property", S)
    BY <2>3, <2>5 DEF Alike
  <2>7. QED BY <1>1, <2>4, <2>6, ObjectWhole
<1>5. CASE t.kind = "tuple"
  <2>1. PICK n \in Nat : DOMAIN v = 1..n /\ \A i \in 1..n : Part(t.of[i], v[i]) \in D
    BY <1>5 DEF WellFormed
  <2> DEFINE calls == [i \in DOMAIN v |-> WriteProperty(Numeral(i - 1), t.of[i], v[i])]
  <2>2. \A i \in 1..n : Numeral(i - 1) \in Seq(C)
    BY <1>3
  <2>3. \A i \in 1..n : IsCall(WriteProperty(Numeral(i - 1), t.of[i], v[i]), "write_property", S)
    BY <1>2, <2>1, <2>2
  <2>4. calls \in [1..n -> S] /\ \A i \in 1..n : calls[i].op = "write_property"
    BY <2>1, <2>3 DEF IsCall
  <2>5. CallsFor(t, v) = InObject(calls)
    BY <1>5 DEF CallsFor, TupleProperties
  <2> HIDE DEF calls
  <2>6. "write_property" \in Follow("write_property")
    BY DEF Follow
  <2>7. Alike(calls, "write_property", S)
    BY <2>4, <2>6 DEF Alike
  <2>8. QED BY <1>1, <2>5, <2>7, ObjectWhole
<1>6. ASSUME NEW c, NEW op, op \in {"write_property", "write_property_cb"}, IsCall(c, op, S)
      PROVE  Whole(InObject(<<c>>), S)
  <2> DEFINE one == <<c>>
  <2>1. one \in [1..1 -> S] /\ (\A i \in 1..1 : one[i].op = op) /\ 1 \in Nat /\ ~ (1 > 1)
    BY <1>6 DEF IsCall
  <2> HIDE DEF one
  <2>2. Alike(one, op, S)
    BY <2>1 DEF Alike
  <2>3. Whole(InObject(one), S)
    BY <1>1, <1>6, <2>2, ObjectWhole
  <2>4. QED BY <2>3 DEF one
<1>7. Whole(InObject(<<>>), S)
  <2> DEFINE none == <<>>
  <2>1. none \in [1..0 -> S] /\ (\A i \in 1..0 : none[i].op = "write_property") /\ 0 \in Nat /\ ~ (0 > 1)
    OBVIOUS
  <2> HIDE DEF none
  <2>2. Alike(none, "write_property", S)
    BY <2>1 DEF Alike
  <2>3. Whole(InObject(none), S)
    BY <1>1, <2>2, ObjectWhole
  <2>4. QED BY <2>3 DEF none
<1>8. CASE t.kind = "optional"
  <2>1. CallsFor(t, v) = InObject(IF v = <<>> THEN <<>> ELSE <<WriteProperty(<<"value">>, t.of[1], v[1])>>)
    BY <1>8 DEF CallsFor, Pointee
  <2>2. CASE v = <<>>
    <3>1. CallsFor(t, v) = InObject(<<>>)
      BY <2>1, <2>2, Zenon
    <3>2. QED BY <1>7, <3>1
  <2>3. CASE v # <<>>
    <3>1. CallsFor(t, v) = InObject(<<WriteProperty(<<"value">>, t.of[1], v[1])>>)
      BY <2>1, <2>3, Zenon
    <3>2. Part(t.of[1], v[1]) \in D
      BY <1>8, <2>3 DEF WellFormed
    <3>3. IsCall(WriteProperty(<<"value">>, t.of[1], v[1]), "write_property", S)
      BY <1>2, <1>3, <3>2
    <3>4. QED BY <1>6, <3>1, <3>3
  <2>4. QED BY <2>2, <2>3
<1>9. CASE t.kind = "variant"
  <2>1. CallsFor(t, v) = InObject(IF v = <<>> THEN <<WriteProperty(Numeral(-1), NullT, <<>>)>>
                                  ELSE <<WritePropertyCb(Numeral(v[1]), t.of[v[1] + 1], v[2])>>)
    BY <1>9 DEF CallsFor, Alternative
  <2>2. CASE v = <<>>
    <3>1. CallsFor(t, v) = InObject(<<WriteProperty(Numeral(-1), NullT, <<>>)>>)
      BY <2>1, <2>2, Zenon
    <3>2. Part(NullT, <<>>) \in D
      BY DEF WellFormed
    <3>3. Numeral(-1) \in Seq(C)
      BY <1>3
    <3>4. IsCall(WriteProperty(Numeral(-1), NullT, <<>>), "write_property", S)
      BY <1>2, <3>2, <3>3
    <3>5. QED BY <1>6, <3>1, <3>4
  <2>3. CASE v # <<>>
    <3>1. CallsFor(t, v) = InObject(<<WritePropertyCb(Numeral(v[1]), t.of[v[1] + 1], v[2])>>)
      BY <2>1, <2>3, Zenon
    <3>2. v[1] \in Int /\ Part(t.of[v[1] + 1], v[2]) \in D
      BY <1>9, <2>3 DEF WellFormed
    <3>3. Numeral(v[1]) \in Seq(C)
      BY <1>3, <3>2
    <3>4. IsCall(WritePropertyCb(Numeral(v[1]), t.of[v[1] + 1], v[2]), "write_property_cb", S)
      BY <1>2, <3>2, <3>3
    <3>5. QED BY <1>6, <3>1, <3>4
  <2>4. QED BY <2>2, <2>3
<1>10. CASE t.kind = "array"
  <2>1. PICK n \in Nat : DOMAIN v = 1..n /\ \A i \in 1..n : Part(t.of[1], v[i]) \in D
    BY <1>10 DEF WellFormed
  <2> DEFINE calls == [i \in DOMAIN v |-> WriteElement(t.of[1], v[i])]
  <2>2. \A i \in 1..n : IsCall(WriteElement(t.of[1], v[i]), "write_element", S)
    BY <1>2, <2>1
  <2>3. calls \in [1..n -> S] /\ \A i \in 1..n : calls[i].op = "write_element"
    BY <2>1, <2>2 DEF IsCall
  <2>4. CallsFor(t, v) = InArray(calls)
    BY <1>10 DEF CallsFor, Elements
  <2> HIDE DEF calls
  <2>5. "write_element" \in Follow("write_element")
    BY DEF Follow
  <2>6. Alike(calls, "write_element", S)
    BY <2>3, <2>5 DEF Alike
  <2>7. /\ calls \in Seq(S) /\ Chained(calls)
        /\ calls # <<>> => calls[1].op = "write_element" /\ calls[Len(calls)].op = "write_element"
    BY <2>6, ChainedAlike
  <2>8. QED BY <1>1, <2>4, <2>7, ArrayWhole
<1>11. CASE t.kind = "map"
  <2>1. PICK n \in Nat : /\ DOMAIN v = 1..n
                         /\ \A i \in 1..n : Part(t.of[1], v[i][1]) \in D /\ Part(t.of[2], v[i][2]) \in D
    BY <1>11 DEF WellFormed
  <2> DEFINE Entry(i) == <<Do("begin_entry")>> \o <<Do("begin_object")>>
                           \o <<WriteElement(t.of[1], v[i][1]), WriteElement(t.of[2], v[i][2])>>
                           \o <<Do("end_object")>>
             ss == [i \in DOMAIN v |-> Entry(i)]
  <2>2. ASSUME NEW i \in 1..n PROVE EntryRun(Entry(i), S)
    <3>1. /\ IsCall(WriteElement(t.of[1], v[i][1]), "write_element", S)
          /\ IsCall(WriteElement(t.of[2], v[i][2]), "write_element", S)
      BY <1>2, <2>1
    <3>2. QED BY <1>1, <3>1, EntryRunOne DEF IsCall
  <2>3. ASSUME NEW i \in 1..n PROVE Entry(i) # <<>> /\ Entry(i) \in Seq(S)
    <3>1. Entry(i) \in Seq(S)
      BY <2>2 DEF EntryRun
    <3>2. Entry(i) # <<>>
      OBVIOUS
    <3>3. QED BY <3>1, <3>2
  <2>4. CallsFor(t, v) = InArray(FlattenSeq(ss))
    BY <1>11 DEF CallsFor, Entries
  <2> HIDE DEF Entry
  <2>5. ss \in [1..n -> Seq(S)] /\ \A i \in 1..n : EntryRun(ss[i], S) /\ ss[i] # <<>>
    BY <2>1, <2>2, <2>3
  <2> HIDE DEF ss
  <2>6. EntryRun(FlattenSeq(ss), S)
    BY <2>5, EntryRunAll
  <2> DEFINE calls == FlattenSeq(ss)
  <2>7. EntryRun(calls, S) /\ CallsFor(t, v) = InArray(calls)
    BY <2>4, <2>6
  <2> HIDE DEF calls
  <2>8. /\ calls \in Seq(S) /\ Chained(calls)
        /\ calls # <<>> => calls[1].op = "begin_entry" /\ calls[Len(calls)].op = "end_object"
    BY <2>7 DEF EntryRun
  <2>9. QED BY <1>1, <2>7, <2>8, ArrayWhole
<1>12. t.kind \in {"object", "user", "tuple", "optional", "variant", "array", "map"}
  BY DEF WellFormed
<1>13. QED BY <1>4, <1>5, <1>8, <1>9, <1>10, <1>11, <1>12

-----------------------------------------------------------------------------
\* What may be behind the call that is made last.
Closes(q) == q # <<>> => q[Len(q)].op \in {"serialize", "end_object", "end_array"}

\* What is behind the first of the calls to make.
LEMMA TailFits ==
  ASSUME NEW S, NEW q \in Seq(S), q # <<>>, Chained(q), Closes(q)
  PROVE  /\ Tail(q) \in Seq(S) /\ Chained(Tail(q)) /\ Closes(Tail(q))
         /\ Len(Tail(q)) = Len(q) - 1 /\ Len(q) \in Nat \ {0}
         /\ \A i \in 1..(Len(q) - 1) : Tail(q)[i] = q[i + 1]
         /\ Tail(q) # <<>> => Tail(q)[1].op \in Follow(q[1].op)
         /\ Tail(q) = <<>> => q[1].op \in {"serialize", "end_object", "end_array"}
         /\ Len(Tail(q)) > 1 /\ Tail(q)[2].op = "begin_entry" /\ Tail(q)[1].op = "end_object" =>
              q[1].op \in {"write_element", "not_first"}
<1> DEFINE r == Tail(q)
           n == Len(q)
<1>1. /\ r \in Seq(S) /\ Len(r) = n - 1 /\ n \in Nat \ {0}
      /\ \A i \in 1..(n - 1) : r[i] = q[i + 1]
      /\ r # <<>> <=> n > 1
  <2>1. n \in Nat \ {0}
    OBVIOUS
  <2>2. r \in Seq(S) /\ Len(r) = n - 1
    OBVIOUS
  <2>3. \A i \in 1..(n - 1) : r[i] = q[i + 1]
    OBVIOUS
  <2> HIDE DEF r, n
  <2>4. QED BY <2>1, <2>2, <2>3
<1>2. /\ \A i \in 2..n : q[i].op \in Follow(q[i - 1].op)
      /\ \A i \in 3..n : q[i].op = "begin_entry" /\ q[i - 1].op = "end_object" => q[i - 2].op \in {"write_element", "not_first"}
  BY Zenon DEF Chained
<1>3. q[n].op \in {"serialize", "end_object", "end_array"}
  BY DEF Closes
<1> HIDE DEF r, n
<1>4. Chained(r)
  <2>1. ASSUME NEW i \in 2..Len(r) PROVE r[i].op \in Follow(r[i - 1].op)
    <3>1. /\ i + 1 \in 2..n /\ i \in 1..(n - 1) /\ i - 1 \in 1..(n - 1) /\ (i - 1) + 1 = i /\ (i + 1) - 1 = i
      BY <1>1
    <3>2. QED BY <1>1, <1>2, <3>1
  <2>2. ASSUME NEW i \in 3..Len(r), r[i].op = "begin_entry", r[i - 1].op = "end_object"
        PROVE  r[i - 2].op \in {"write_element", "not_first"}
    <3>1. /\ i + 1 \in 3..n /\ i \in 1..(n - 1) /\ i - 1 \in 1..(n - 1) /\ (i - 1) + 1 = i /\ (i + 1) - 1 = i
          /\ i - 2 \in 1..(n - 1) /\ (i - 2) + 1 = i - 1 /\ (i + 1) - 2 = i - 1
      BY <1>1
    <3>2. r[i] = q[i + 1] /\ r[i - 1] = q[i] /\ r[i - 2] = q[i - 1]
      BY <1>1, <3>1
    <3>3. QED BY <1>2, <2>2, <3>1, <3>2
  <2>3. QED BY <2>1, <2>2 DEF Chained
<1>5. Closes(r)
  <2>1. ASSUME r # <<>> PROVE r[Len(r)] = q[n]
    <3>1. Len(r) \in 1..(n - 1) /\ Len(r) + 1 = n
      BY <1>1, <2>1
    <3>2. QED BY <1>1, <3>1
  <2>2. QED BY <1>3, <2>1 DEF Closes
<1>6. r # <<>> => r[1].op \in Follow(q[1].op)
  <2>1. n > 1 => r[1] = q[2] /\ 2 \in 2..n /\ 2 - 1 = 1
    BY <1>1
  <2>2. QED BY <1>1, <1>2, <2>1
<1>7. r = <<>> => q[1].op \in {"serialize", "end_object", "end_array"}
  <2>1. r = <<>> => n = 1
    BY <1>1
  <2>2. QED BY <1>3, <2>1
<1>8. Len(r) > 1 /\ r[2].op = "begin_entry" /\ r[1].op = "end_object" => q[1].op \in {"write_element", "not_first"}
  <2>1. Len(r) > 1 => r[1] = q[2] /\ r[2] = q[3] /\ 3 \in 3..n /\ 3 - 1 = 2 /\ 3 - 2 = 1
    BY <1>1
  <2>2. QED BY <1>2, <2>1
<1>9. QED BY <1>1, <1>4, <1>5, <1>6, <1>7, <1>8 DEF r, n

\* Other calls in the place of the first one.
LEMMA ReplacedFits ==
  ASSUME NEW S, NEW q \in Seq(S), q # <<>>, Chained(q), Closes(q),
         NEW c \in Seq(S), c # <<>>, Chained(c), c[1].op # "end_object",
         Tail(q) = <<>> => c[Len(c)].op \in {"end_object", "end_array"},
         Tail(q) # <<>> => /\ Tail(q)[1].op \in Follow(c[Len(c)].op) /\ Tail(q)[1].op # "begin_entry"
                           /\ Tail(q)[1].op = "end_object" => c[Len(c)].op = "not_first"
  PROVE  /\ c \o Tail(q) \in Seq(S) /\ Chained(c \o Tail(q)) /\ Closes(c \o Tail(q))
         /\ c \o Tail(q) # <<>> /\ (c \o Tail(q))[1] = c[1]
<1> DEFINE t == Tail(q)
           r == c \o t
<1>1. t \in Seq(S) /\ Chained(t) /\ Closes(t)
  BY TailFits
<1> HIDE DEF t
<1>2. Chained(r)
  <2>1. /\ c # <<>> /\ t # <<>> => t[1].op \in Follow(c[Len(c)].op)
        /\ t # <<>> => t[1].op # "begin_entry"
        /\ Len(t) > 1 /\ t[1].op = "end_object" => c[Len(c)].op = "not_first"
    <3>1. Len(t) > 1 => t # <<>>
      BY <1>1
    <3>2. QED BY <3>1 DEF t
  <2>2. QED BY <1>1, <2>1, ChainedConcat
<1>3. /\ r \in Seq(S) /\ Len(c) \in Nat /\ Len(t) \in Nat /\ Len(r) = Len(c) + Len(t)
      /\ \A i \in 1..Len(c) : r[i] = c[i]
      /\ \A i \in 1..Len(t) : r[Len(c) + i] = t[i]
  BY <1>1, ConcatIs
<1>4. Len(c) > 0
  BY <1>3
<1> HIDE DEF r
<1>5. r # <<>> /\ r[1] = c[1]
  BY <1>3, <1>4
<1>6. Closes(r)
  <2>1. CASE t = <<>>
    <3>1. Len(t) = 0
      BY <2>1
    <3>2. Len(r) \in 1..Len(c) /\ Len(r) = Len(c)
      BY <1>3, <1>4, <3>1
    <3>3. r[Len(r)] = c[Len(c)]
      BY <1>3, <3>2
    <3>4. QED BY <2>1, <3>3 DEF Closes, t
  <2>2. CASE t # <<>>
    <3>1. Len(t) \in 1..Len(t)
      BY <1>1, <2>2
    <3>2. r[Len(r)] = t[Len(t)]
      BY <1>3, <3>1
    <3>3. QED BY <1>1, <2>2, <3>2 DEF Closes
  <2>3. QED BY <2>1, <2>2
<1>7. QED BY <1>2, <1>3, <1>5, <1>6 DEF r, t

-----------------------------------------------------------------------------
\* One serializer writes values of D, one behind the other.
GiveValue(D) ==
  /\ todo = <<>>
  /\ \E d \in D : todo' = <<Serialize(d.type, d.value)>>
  /\ UNCHANGED <<text, m_pretty, m_indent_level, s_first>>

\* From an empty stream; a document may be written behind another one.
JsonInit    == text = <<>> /\ \E pretty \in BOOLEAN : SerializerInit(pretty)
JsonNext(D) == SerializerStep \/ GiveValue(D)
JsonSpec(D) == JsonInit /\ [][JsonNext(D)]_serializerVars

\* What the text ends in, in front of the next call: in front of an element, a
\* property or an entry it is what m_first says, and between two values it is a
\* value.
Fits(chars, calls, first) ==
  /\ calls = <<>> => chars = <<>> \/ Behind(chars, Enders)
  /\ calls # <<>> =>
       /\ calls[1].op \in {"write_element", "write_property", "write_property_cb", "begin_entry"} =>
            Behind(chars, IF first THEN Openers \cup {":"} ELSE Enders)
       /\ calls[1].op \in {"write_property", "write_property_cb", "begin_entry"} /\ first => Behind(chars, Openers)
       /\ calls[1].op = "write_property_cb" => first
       /\ calls[1].op \in {"end_object", "end_array"} => Behind(chars, Openers \cup Enders)
       /\ calls[1].op = "not_first" => Behind(chars, Enders)

\* The object in front of another entry of a map is not empty.
EntryFits(calls, first) ==
  Len(calls) > 1 /\ calls[2].op = "begin_entry" /\ calls[1].op = "end_object" => ~ first

\* The text is as the next call needs it.
WellSeparated == Fits(text, todo, s_first)

\* The type invariant.
JsonTypeOK(D, C) ==
  /\ text \in Seq(C) /\ todo \in Seq(CallsOf(D, C))
  /\ m_pretty \in BOOLEAN /\ m_indent_level \in Int /\ s_first \in BOOLEAN

\* The inductive invariant: the calls that are left fit behind one another, and
\* the text fits in front of them.
JsonInv(D, C) ==
  /\ JsonTypeOK(D, C)
  /\ Chained(todo) /\ Closes(todo)
  /\ WellSeparated /\ EntryFits(todo, s_first)

\* Line breaks and tabs are blanks.
LEMMA BlankType ==
  ASSUME m_pretty \in BOOLEAN, m_indent_level \in Int
  PROVE  /\ NewLine \in Seq(Blanks) /\ Indent \in Seq(Blanks)
         /\ [i \in 1..(m_indent_level - 1) |-> "\t"] \in Seq(Blanks)
<1>1. "\t" \in Blanks /\ "\n" \in Blanks
  BY DEF Blanks
<1>2. ASSUME NEW n \in Int PROVE [i \in 1..n |-> "\t"] \in Seq(Blanks)
  <2> DEFINE f == [i \in 1..n |-> "\t"]
  <2>1. \E k \in Nat : 1..n = 1..k
    <3>1. CASE n \in Nat
      BY <3>1
    <3>2. CASE n \notin Nat
      <4>1. 1..n = 1..0 /\ 0 \in Nat
        BY <3>2
      <4>2. QED BY <4>1
    <3>3. QED BY <3>1, <3>2
  <2>2. PICK k \in Nat : 1..n = 1..k
    BY <2>1
  <2>3. f \in [1..k -> Blanks]
    BY <1>1, <2>2
  <2> HIDE DEF f
  <2>4. f \in Seq(Blanks)
    BY <2>3
  <2>5. QED BY <2>4 DEF f
<1>3. Indent \in Seq(Blanks)
  BY <1>2 DEF Indent
<1>4. NewLine \in Seq(Blanks)
  <2>1. ASSUME NEW x \in Blanks PROVE <<x>> \in Seq(Blanks) /\ <<>> \in Seq(Blanks)
    OBVIOUS
  <2>2. <<"\n">> \in Seq(Blanks) /\ <<>> \in Seq(Blanks)
    BY <1>1, <2>1
  <2>3. <<"\n">> \o Indent \in Seq(Blanks)
    BY <1>3, <2>2
  <2>4. QED BY <2>2, <2>3 DEF NewLine
<1>5. m_indent_level - 1 \in Int
  OBVIOUS
<1>6. QED BY <1>2, <1>3, <1>4, <1>5

\* A call that is made, and has no calls of its own.
LEMMA MakeLast ==
  ASSUME NEW C, NEW D, JsonInv(D, C), NEW op, NEW chars \in Seq(C), Make(op, chars, <<>>)
  PROVE  /\ todo # <<>> /\ todo[1].op = op
         /\ text' = text \o chars /\ text' \in Seq(C)
         /\ todo' \in Seq(CallsOf(D, C)) /\ Chained(todo') /\ Closes(todo')
         /\ todo' # <<>> => todo'[1].op \in Follow(op)
         /\ todo' = <<>> => op \in {"serialize", "end_object", "end_array"}
         /\ Len(todo') > 1 /\ todo'[2].op = "begin_entry" /\ todo'[1].op = "end_object" =>
              op \in {"write_element", "not_first"}
<1>1. text \in Seq(C) /\ todo \in Seq(CallsOf(D, C)) /\ Chained(todo) /\ Closes(todo)
  BY DEF JsonInv, JsonTypeOK
<1>2. todo # <<>> /\ Head(todo).op = op /\ text' = text \o chars /\ todo' = <<>> \o Tail(todo)
  BY DEF Make
<1>3. todo[1].op = op
  BY <1>1, <1>2
<1>4. text' \in Seq(C)
  BY <1>1, <1>2
<1>5. todo' = Tail(todo)
  <2>1. Tail(todo) \in Seq(CallsOf(D, C))
    BY <1>1, <1>2
  <2>2. QED BY <1>2, <2>1
<1>6. /\ Tail(todo) \in Seq(CallsOf(D, C)) /\ Chained(Tail(todo)) /\ Closes(Tail(todo))
      /\ Tail(todo) # <<>> => Tail(todo)[1].op \in Follow(todo[1].op)
      /\ Tail(todo) = <<>> => todo[1].op \in {"serialize", "end_object", "end_array"}
      /\ Len(Tail(todo)) > 1 /\ Tail(todo)[2].op = "begin_entry" /\ Tail(todo)[1].op = "end_object" =>
           todo[1].op \in {"write_element", "not_first"}
  BY <1>1, <1>2, TailFits
<1>7. QED BY <1>2, <1>3, <1>4, <1>5, <1>6

\* A call that is made, and has calls of its own.
LEMMA MakeMore ==
  ASSUME NEW C, NEW D, JsonInv(D, C), NEW op, NEW chars \in Seq(C), NEW c \in Seq(CallsOf(D, C)),
         Make(op, chars, c), c # <<>>, Chained(c), c[1].op # "end_object",
         op \in {"serialize", "end_object", "end_array"} => c[Len(c)].op \in {"end_object", "end_array"},
         op = "serialize" \/ c[Len(c)].op = "not_first",
         Follow(op) \subseteq Follow(c[Len(c)].op) \ {"begin_entry"},
         op = "serialize" => "end_object" \notin Follow(op)
  PROVE  /\ todo # <<>> /\ todo[1].op = op
         /\ text' = text \o chars /\ text' \in Seq(C)
         /\ todo' \in Seq(CallsOf(D, C)) /\ Chained(todo') /\ Closes(todo')
         /\ todo' # <<>> /\ todo'[1] = c[1]
<1>1. text \in Seq(C) /\ todo \in Seq(CallsOf(D, C)) /\ Chained(todo) /\ Closes(todo)
  BY DEF JsonInv, JsonTypeOK
<1>2. todo # <<>> /\ Head(todo).op = op /\ text' = text \o chars /\ todo' = c \o Tail(todo)
  BY DEF Make
<1>3. todo[1].op = op
  BY <1>1, <1>2
<1>4. text' \in Seq(C)
  BY <1>1, <1>2
<1>5. /\ Tail(todo) # <<>> => Tail(todo)[1].op \in Follow(todo[1].op)
      /\ Tail(todo) = <<>> => todo[1].op \in {"serialize", "end_object", "end_array"}
  BY <1>1, <1>2, TailFits
<1>6. /\ Tail(todo) = <<>> => c[Len(c)].op \in {"end_object", "end_array"}
      /\ Tail(todo) # <<>> => /\ Tail(todo)[1].op \in Follow(c[Len(c)].op) /\ Tail(todo)[1].op # "begin_entry"
                              /\ Tail(todo)[1].op = "end_object" => c[Len(c)].op = "not_first"
  BY <1>3, <1>5
<1>7. /\ c \o Tail(todo) \in Seq(CallsOf(D, C)) /\ Chained(c \o Tail(todo)) /\ Closes(c \o Tail(todo))
      /\ c \o Tail(todo) # <<>> /\ (c \o Tail(todo))[1] = c[1]
  BY <1>1, <1>2, <1>6, ReplacedFits
<1>8. QED BY <1>2, <1>3, <1>4, <1>7

\* What the text ends in once a call has been made that has no calls of its own.
LEMMA LastFits ==
  ASSUME NEW C, NEW D, JsonInv(D, C), NEW op, NEW chars \in Seq(C), Make(op, chars, <<>>),
         op # "write_element", op = "not_first" => s_first' = FALSE,
         \/ op \in {"serialize", "end_object", "end_array", "not_first"} /\ Behind(text', Enders)
              /\ (op = "end_object" => s_first' = s_first)
         \/ op \in {"begin_object", "begin_array"} /\ Behind(text', Openers) /\ s_first' = TRUE
         \/ op = "begin_entry",
         m_pretty' \in BOOLEAN, m_indent_level' \in Int, s_first' \in BOOLEAN
  PROVE  JsonInv(D, C)'
<1>1. /\ todo # <<>> /\ todo[1].op = op
      /\ text' \in Seq(C)
      /\ todo' \in Seq(CallsOf(D, C)) /\ Chained(todo') /\ Closes(todo')
      /\ todo' # <<>> => todo'[1].op \in Follow(op)
      /\ todo' = <<>> => op \in {"serialize", "end_object", "end_array"}
      /\ Len(todo') > 1 /\ todo'[2].op = "begin_entry" /\ todo'[1].op = "end_object" =>
           op \in {"write_element", "not_first"}
  BY MakeLast
<1>2. EntryFits(todo', s_first')
  BY <1>1 DEF EntryFits
<1>3. Openers \subseteq Openers \cup {":"} /\ Openers \subseteq Openers \cup Enders /\ Enders \subseteq Openers \cup Enders
  OBVIOUS
<1>4. Fits(text', todo', s_first')
  <2>1. CASE op \in {"serialize", "end_array", "not_first"}
    <3>1. Behind(text', Enders) /\ Behind(text', Openers \cup Enders)
      BY <1>3, <2>1, BehindMore
    <3>2. op = "serialize" => todo' = <<>> \/ todo'[1].op = "not_first"
      BY <1>1 DEF Follow
    <3>3. op = "end_array" => todo' = <<>> \/ todo'[1].op = "not_first"
      BY <1>1 DEF Follow
    <3>4. op = "not_first" => todo' = <<>> \/ todo'[1].op \in {"write_property", "write_element", "end_object", "end_array", "not_first"}
      BY <1>1 DEF Follow
    <3>5. CASE op \in {"serialize", "end_array"}
      BY <3>1, <3>2, <3>3, <3>5 DEF Fits
    <3>6. CASE op = "not_first"
      BY <1>1, <3>1, <3>4, <3>6 DEF Fits
    <3>7. QED BY <2>1, <3>5, <3>6
  <2>2. CASE op = "end_object"
    <3>1. Behind(text', Enders) /\ Behind(text', Openers \cup Enders) /\ s_first' = s_first
      BY <1>3, <2>2, BehindMore
    <3>2. todo' = <<>> \/ todo'[1].op \in {"not_first", "begin_entry", "end_array"}
      BY <1>1, <2>2 DEF Follow
    <3>3. todo' # <<>> /\ todo'[1].op = "begin_entry" => ~ s_first
      <4>1. todo \in Seq(CallsOf(D, C)) /\ EntryFits(todo, s_first)
        BY DEF JsonInv, JsonTypeOK
      <4>2. todo' = Tail(todo)
        <5>1. Tail(todo) \in Seq(CallsOf(D, C)) /\ todo' = <<>> \o Tail(todo)
          BY <1>1, <4>1 DEF Make
        <5>2. QED BY <5>1
      <4>3. Tail(todo) # <<>> => Len(todo) > 1 /\ Tail(todo)[1] = todo[2]
        BY <1>1, <4>1
      <4>4. QED BY <1>1, <2>2, <4>1, <4>2, <4>3 DEF EntryFits
    <3>4. CASE todo' = <<>>
      BY <3>1, <3>4 DEF Fits
    <3>5. CASE todo' # <<>>
      BY <3>1, <3>2, <3>3, <3>5 DEF Fits
    <3>6. QED BY <3>4, <3>5
  <2>3. CASE op \in {"begin_object", "begin_array"}
    <3>1. Behind(text', Openers) /\ Behind(text', Openers \cup Enders) /\ Behind(text', Openers \cup {":"}) /\ s_first'
      BY <1>3, <2>3, BehindMore
    <3>2. todo' # <<>> /\ todo'[1].op # "not_first"
      <4>1. CASE op = "begin_object"
        BY <1>1, <4>1 DEF Follow
      <4>2. CASE op = "begin_array"
        BY <1>1, <4>2 DEF Follow
      <4>3. QED BY <2>3, <4>1, <4>2
    <3>3. QED BY <3>1, <3>2 DEF Fits
  <2>4. CASE op = "begin_entry"
    <3>1. todo' # <<>> /\ todo'[1].op = "begin_object"
      BY <1>1, <2>4 DEF Follow
    <3>2. QED BY <3>1 DEF Fits
  <2>5. QED BY <2>1, <2>2, <2>3, <2>4
<1>5. QED BY <1>1, <1>2, <1>4 DEF JsonInv, JsonTypeOK, WellSeparated

\* What the text ends in once a call has been made that has calls of its own.
LEMMA MoreFits ==
  ASSUME NEW C, NEW D, JsonInv(D, C), NEW op, NEW chars \in Seq(C), NEW c \in Seq(CallsOf(D, C)),
         Make(op, chars, c), c # <<>>, Chained(c),
         \/ op = "serialize" /\ c[1].op \in {"begin_object", "begin_array"} /\ c[Len(c)].op \in {"end_object", "end_array"}
         \/ /\ op \in {"write_element", "write_property", "write_property_cb"}
            /\ c[1].op = "serialize" /\ c[Len(c)].op = "not_first"
         \/ /\ op = "write_property_cb" /\ c[1].op = "write_element" /\ c[Len(c)].op = "not_first"
            /\ Behind(text', {":"}),
         UNCHANGED <<m_pretty, m_indent_level, s_first>>
  PROVE  JsonInv(D, C)'
<1>1. /\ Follow("serialize") \subseteq Follow("end_object") \ {"begin_entry"}
      /\ Follow("serialize") \subseteq Follow("end_array") \ {"begin_entry"}
      /\ "end_object" \notin Follow("serialize")
      /\ Follow("write_element") \subseteq Follow("not_first") \ {"begin_entry"}
      /\ Follow("write_property") \subseteq Follow("not_first") \ {"begin_entry"}
      /\ Follow("write_property_cb") \subseteq Follow("not_first") \ {"begin_entry"}
  BY DEF Follow
<1>2. /\ c[1].op # "end_object"
      /\ op \in {"serialize", "end_object", "end_array"} => c[Len(c)].op \in {"end_object", "end_array"}
      /\ op = "serialize" \/ c[Len(c)].op = "not_first"
      /\ Follow(op) \subseteq Follow(c[Len(c)].op) \ {"begin_entry"}
      /\ op = "serialize" => "end_object" \notin Follow(op)
  BY <1>1
<1>3. /\ todo # <<>> /\ todo[1].op = op
      /\ text' \in Seq(C)
      /\ todo' \in Seq(CallsOf(D, C)) /\ Chained(todo') /\ Closes(todo')
      /\ todo' # <<>> /\ todo'[1] = c[1]
  BY <1>2, MakeMore
<1>4. EntryFits(todo', s_first')
  BY <1>2, <1>3 DEF EntryFits
<1>5. todo'[1].op = "write_element" => Behind(text', Openers \cup {":"}) /\ s_first'
  <2>1. ASSUME todo'[1].op = "write_element" PROVE op = "write_property_cb" /\ Behind(text', {":"})
    BY <1>3, <2>1
  <2>2. op = "write_property_cb" => s_first
    BY <1>3 DEF JsonInv, WellSeparated, Fits
  <2>3. {":"} \subseteq Openers \cup {":"}
    OBVIOUS
  <2>4. QED BY <2>1, <2>2, <2>3, BehindMore
<1>6. todo'[1].op \in {"begin_object", "begin_array", "serialize", "write_element"}
  BY <1>3
<1>7. Fits(text', todo', s_first')
  BY <1>3, <1>5, <1>6 DEF Fits
<1>8. QED BY <1>3, <1>4, <1>7 DEF JsonInv, JsonTypeOK, WellSeparated

\* A character in front of blanks.
LEMMA BehindOne ==
  ASSUME NEW C, Marks \subseteq C, NEW a \in Seq(Blanks), NEW x \in Marks, NEW b \in Seq(Blanks), NEW ends, x \in ends
  PROVE  a \o <<x>> \o b \in Seq(C) /\ Behind(a \o <<x>> \o b, ends)
<1> DEFINE one == <<x>>
<1>1. one \in Seq(C) /\ one # <<>> /\ one[Len(one)] \in ends
  OBVIOUS
<1> HIDE DEF one
<1>2. Behind(one, ends)
  BY <1>1, BehindLast
<1>3. a \in Seq(C) /\ b \in Seq(C)
  BY Characters, SeqMonotone
<1> DEFINE front == a \o one
<1>4. front \in Seq(C) /\ Behind(front, ends)
  BY <1>1, <1>2, <1>3, BehindSecond
<1> HIDE DEF front
<1>5. front \o b \in Seq(C) /\ Behind(front \o b, ends)
  BY <1>3, <1>4, BehindBlanks
<1>6. QED BY <1>5 DEF front, one

\* A value is written into the text, or its calls are put in its place.
LEMMA ValueFits ==
  ASSUME NEW C, Marks \subseteq C, NEW D, WellFormed(D, C), JsonInv(D, C), SerializeScalar \/ SerializeCompound
  PROVE  JsonInv(D, C)'
<1> DEFINE t == Head(todo).type
           v == Head(todo).value
<1>1. /\ text \in Seq(C) /\ todo \in Seq(CallsOf(D, C)) /\ todo # <<>> /\ Head(todo).op = "serialize"
      /\ UNCHANGED <<m_pretty, m_indent_level, s_first>>
      /\ m_pretty' \in BOOLEAN /\ m_indent_level' \in Int /\ s_first' \in BOOLEAN
  BY DEF SerializeScalar, SerializeCompound, JsonInv, JsonTypeOK
<1>2. PICK d \in D : t = d.type /\ v = d.value
  <2>1. Head(todo) \in CallsOf(D, C)
    BY <1>1
  <2>2. QED BY <1>1, <2>1, CallIs
<1>3. CASE SerializeScalar
  <2> DEFINE chars == ScalarText(t, v)
  <2>1. /\ t.kind \in Scalars
        /\ t.kind \in {"int", "long", "float"} => v \in Int
        /\ t.kind = "string" => v \in Seq(C)
    BY <1>2, <1>3 DEF WellFormed, SerializeScalar
  <2>2. chars \in Seq(C) /\ Behind(chars, Enders)
    BY <2>1, ScalarType
  <2>3. Make("serialize", chars, <<>>)
    BY <1>3 DEF SerializeScalar
  <2> HIDE DEF chars
  <2>4. text' = text \o chars
    BY <2>3 DEF Make
  <2>5. Behind(text', Enders)
    BY <1>1, <2>2, <2>4, BehindSecond
  <2>6. QED BY <1>1, <2>2, <2>3, <2>5, LastFits
<1>4. CASE SerializeCompound
  <2> DEFINE c == CallsFor(t, v)
  <2>1. t.kind \notin Scalars
    BY <1>4 DEF SerializeCompound
  <2>2. Whole(c, CallsOf(D, C))
    BY <1>2, <2>1, CallsForWhole
  <2>3. Make("serialize", <<>>, c)
    BY <1>4 DEF SerializeCompound
  <2> HIDE DEF c
  <2>4. <<>> \in Seq(C)
    OBVIOUS
  <2>5. QED BY <1>1, <2>2, <2>3, <2>4, MoreFits DEF Whole
<1>5. QED BY <1>3, <1>4

\* Brackets.
LEMMA BracketFits ==
  ASSUME NEW C, Marks \subseteq C, NEW D, JsonInv(D, C), BeginObject \/ EndObject \/ BeginArray \/ EndArray
  PROVE  JsonInv(D, C)'
<1>1. /\ text \in Seq(C) /\ m_pretty \in BOOLEAN /\ m_indent_level \in Int /\ s_first \in BOOLEAN
  BY DEF JsonInv, JsonTypeOK
<1>2. /\ m_pretty' \in BOOLEAN /\ m_indent_level' \in Int /\ s_first' \in BOOLEAN
  <2>1. CASE BeginObject
    <3>1. /\ m_indent_level' = m_indent_level + 1 \/ m_indent_level' = m_indent_level
          /\ m_pretty' = m_pretty /\ s_first' = TRUE
      BY <2>1, Zenon DEF BeginObject
    <3>2. QED BY <1>1, <3>1
  <2>2. CASE EndObject
    <3>1. /\ m_indent_level' = m_indent_level - 1 \/ m_indent_level' = m_indent_level
          /\ m_pretty' = m_pretty /\ s_first' = s_first
      BY <2>2, Zenon DEF EndObject
    <3>2. QED BY <1>1, <3>1
  <2>3. CASE BeginArray
    BY <1>1, <2>3 DEF BeginArray
  <2>4. CASE EndArray
    BY <1>1, <2>4 DEF EndArray
  <2>5. QED BY <2>1, <2>2, <2>3, <2>4
<1>3. /\ NewLine \in Seq(Blanks) /\ Indent \in Seq(Blanks) /\ <<>> \in Seq(Blanks)
      /\ [i \in 1..(m_indent_level - 1) |-> "\t"] \in Seq(Blanks)
      /\ <<"\n">> \in Seq(Blanks) /\ <<"\t">> \in Seq(Blanks)
  <2>1. ASSUME NEW x \in Blanks PROVE <<x>> \in Seq(Blanks)
    OBVIOUS
  <2>2. "\t" \in Blanks /\ "\n" \in Blanks
    BY DEF Blanks
  <2>3. QED BY <1>1, <2>1, <2>2, BlankType
<1>4. /\ "{" \in Marks /\ "{" \in Openers /\ "[" \in Marks /\ "[" \in Openers
      /\ "}" \in Marks /\ "}" \in Enders /\ "]" \in Marks /\ "]" \in Enders
  BY DEF Marks, Openers, Enders
<1>5. ASSUME NEW op, NEW a \in Seq(Blanks), NEW x \in Marks, NEW b \in Seq(Blanks), NEW ends, x \in ends,
             Make(op, a \o <<x>> \o b, <<>>)
      PROVE  a \o <<x>> \o b \in Seq(C) /\ Behind(text', ends)
  <2> DEFINE chars == a \o <<x>> \o b
  <2>1. chars \in Seq(C) /\ Behind(chars, ends)
    BY <1>5, BehindOne
  <2>2. text' = text \o chars
    BY <1>5 DEF Make
  <2> HIDE DEF chars
  <2>3. Behind(text', ends)
    BY <1>1, <2>1, <2>2, BehindSecond
  <2>4. QED BY <2>1, <2>3 DEF chars
<1>6. CASE BeginObject
  <2> DEFINE b == IF m_pretty THEN <<"\n">> \o Indent \o <<"\t">> ELSE <<>>
             chars == NewLine \o <<"{">> \o b
  <2>1. b \in Seq(Blanks)
    BY <1>3
  <2>2. Make("begin_object", chars, <<>>) /\ s_first' = TRUE
    BY <1>6 DEF BeginObject
  <2> HIDE DEF b
  <2>3. chars \in Seq(C) /\ Behind(text', Openers)
    BY <1>3, <1>4, <1>5, <2>1, <2>2
  <2> HIDE DEF chars
  <2>4. QED BY <1>2, <2>2, <2>3, LastFits
<1>7. CASE EndObject
  <2> DEFINE a == IF m_pretty THEN <<"\n">> \o [i \in 1..m_indent_level - 1 |-> "\t"] ELSE <<>>
             none == <<>>
             chars == a \o <<"}">>
  <2>1. a \in Seq(Blanks)
    BY <1>3
  <2>2. Make("end_object", chars, <<>>) /\ s_first' = s_first
    BY <1>7 DEF EndObject
  <2> HIDE DEF a
  <2>3. chars = a \o <<"}">> \o <<>>
    <3>1. a \in Seq(C)
      BY <2>1, Characters, SeqMonotone
    <3>2. "}" \in C
      BY <1>4
    <3>3. chars \in Seq(C)
      <4>1. ASSUME NEW x \in C PROVE a \o <<x>> \in Seq(C)
        BY <3>1
      <4>2. QED BY <3>2, <4>1
    <3>4. chars = chars \o <<>>
      <4> HIDE DEF chars
      <4>1. QED BY <3>3
    <3>5. QED BY <3>4
  <2>4. chars \in Seq(C) /\ Behind(text', Enders)
    <3>1. Make("end_object", a \o <<"}">> \o <<>>, <<>>)
      BY <2>2, <2>3
    <3> HIDE DEF chars
    <3>2. QED BY <1>3, <1>4, <1>5, <2>1, <2>3, <3>1
  <2> HIDE DEF chars
  <2>5. QED BY <1>2, <2>2, <2>4, LastFits
<1>8. CASE BeginArray
  <2> DEFINE chars == <<"[">>
  <2>1. chars = <<>> \o <<"[">> \o <<>>
    OBVIOUS
  <2>2. Make("begin_array", chars, <<>>) /\ s_first' = TRUE
    BY <1>8 DEF BeginArray
  <2> HIDE DEF chars
  <2>3. Make("begin_array", <<>> \o <<"[">> \o <<>>, <<>>)
    BY <2>1, <2>2
  <2>4. chars \in Seq(C) /\ Behind(text', Openers)
    BY <1>3, <1>4, <1>5, <2>1, <2>3
  <2>5. QED BY <1>2, <2>2, <2>4, LastFits
<1>9. CASE EndArray
  <2> DEFINE chars == <<"]">>
  <2>1. chars = <<>> \o <<"]">> \o <<>>
    OBVIOUS
  <2>2. Make("end_array", chars, <<>>)
    BY <1>9 DEF EndArray
  <2> HIDE DEF chars
  <2>3. Make("end_array", <<>> \o <<"]">> \o <<>>, <<>>)
    BY <2>1, <2>2
  <2>4. chars \in Seq(C) /\ Behind(text', Enders)
    BY <1>3, <1>4, <1>5, <2>1, <2>3
  <2>5. QED BY <1>2, <2>2, <2>4, LastFits
<1>10. QED BY <1>6, <1>7, <1>8, <1>9

\* A call of op, and behind it the one that notes that something was written.
Twofold(c, op, S) ==
  c \in Seq(S) /\ c # <<>> /\ Chained(c) /\ c[1].op = op /\ c[Len(c)].op = "not_first"

\* Two such calls are.
LEMMA TwofoldIs ==
  ASSUME NEW S, NEW x, NEW y, NEW op \in {"serialize", "write_element"}, IsCall(x, op, S), IsCall(y, "not_first", S)
  PROVE  Twofold(<<x, y>>, op, S)
<1> DEFINE c == <<x, y>>
<1>1. x \in S /\ y \in S /\ x.op = op /\ y.op = "not_first"
  BY DEF IsCall
<1>2. c \in Seq(S) /\ c # <<>> /\ Len(c) = 2 /\ c[1] = x /\ c[2] = y
  BY <1>1
<1> HIDE DEF c
<1>3. "not_first" \in Follow(op)
  BY DEF Follow
<1>4. Chained(c)
  <2>1. \A i \in 2..Len(c) : i = 2 /\ i - 1 = 1
    BY <1>2
  <2>2. \A i \in 3..Len(c) : FALSE
    BY <1>2
  <2>3. QED BY <1>1, <1>2, <1>3, <2>1, <2>2 DEF Chained
<1>5. Twofold(c, op, S)
  BY <1>1, <1>2, <1>4 DEF Twofold
<1>6. QED BY <1>5 DEF c

\* What separates, and what is written in front of a value.
LEMMA SeparatorFits ==
  ASSUME NEW C, Marks \subseteq C, NEW D, WellFormed(D, C), JsonInv(D, C),
         EntryComma \/ Element \/ Property \/ PropertyCb \/ WroteOne
  PROVE  JsonInv(D, C)'
<1>1. /\ text \in Seq(C) /\ todo \in Seq(CallsOf(D, C)) /\ m_pretty \in BOOLEAN /\ m_indent_level \in Int /\ s_first \in BOOLEAN
      /\ todo # <<>> /\ m_pretty' \in BOOLEAN /\ m_indent_level' \in Int /\ s_first' \in BOOLEAN
  BY DEF JsonInv, JsonTypeOK, EntryComma, Element, Property, PropertyCb, WroteOne, Make
<1>2. NewLine \in Seq(C) /\ Indent \in Seq(C) /\ <<>> \in Seq(C)
  BY <1>1, BlankType, Characters, SeqMonotone
<1>3. "," \in C /\ " " \in C /\ "\n" \in C /\ ":" \in C
  BY DEF Marks, Blanks
<1>4. <<",">> \in Seq(C) /\ <<",", " ">> \in Seq(C) /\ <<",", "\n">> \in Seq(C) /\ <<":">> \in Seq(C)
  <2>1. ASSUME NEW x \in C, NEW y \in C PROVE <<x>> \in Seq(C) /\ <<x, y>> \in Seq(C)
    OBVIOUS
  <2>2. QED BY <1>3, <2>1
<1>5. \A a \in Seq(C), b \in Seq(C) : a \o b \in Seq(C)
  OBVIOUS
<1>6. <<",">> \o NewLine \in Seq(C) /\ <<",", "\n">> \o Indent \in Seq(C)
  BY <1>2, <1>4, <1>5, Zenon
<1>7. /\ Head(todo) \in CallsOf(D, C)
      /\ Head(todo).op \in {"write_element", "write_property", "write_property_cb"} =>
           Part(Head(todo).type, Head(todo).value) \in D
      /\ Head(todo).op \in {"write_property", "write_property_cb"} => Literal(Head(todo).name) \in Seq(C)
  <2>1. Head(todo) \in CallsOf(D, C)
    BY <1>1
  <2>2. Head(todo).op \in {"write_property", "write_property_cb"} => Literal(Head(todo).name) \in Seq(C)
    BY <2>1, CallIs, LiteralType
  <2>3. Head(todo).op \in {"write_element", "write_property", "write_property_cb"} =>
          \E d \in D : Head(todo).type = d.type /\ Head(todo).value = d.value
    BY <2>1, CallIs
  <2>4. \A d \in D : Part(d.type, d.value) \in D
    BY Zenon DEF WellFormed
  <2>5. QED BY <2>1, <2>2, <2>3, <2>4
<1>8. ASSUME Part(Head(todo).type, Head(todo).value) \in D
      PROVE  LET t == Head(todo).type
                 v == Head(todo).value
             IN  /\ Twofold(<<Serialize(t, v), Do("not_first")>>, "serialize", CallsOf(D, C))
                 /\ Twofold(<<WriteElement(t, v), Do("not_first")>>, "write_element", CallsOf(D, C))
  <2>1. /\ IsCall(Serialize(Head(todo).type, Head(todo).value), "serialize", CallsOf(D, C))
        /\ IsCall(WriteElement(Head(todo).type, Head(todo).value), "write_element", CallsOf(D, C))
    BY <1>8, CallOfPart
  <2>2. IsCall(Do("not_first"), "not_first", CallsOf(D, C))
    BY CallOfOp
  <2>3. QED BY <2>1, <2>2, TwofoldIs
<1>9. CASE EntryComma
  <2> DEFINE chars == IF s_first THEN <<>> ELSE <<",">> \o NewLine
  <2>1. chars \in Seq(C)
    BY <1>2, <1>6, Zenon
  <2>2. Make("begin_entry", chars, <<>>)
    BY <1>9 DEF EntryComma
  <2> HIDE DEF chars
  <2>3. QED BY <1>1, <2>1, <2>2, LastFits
<1>10. CASE WroteOne
  <2>1. Make("not_first", <<>>, <<>>) /\ s_first' = FALSE
    BY <1>10 DEF WroteOne
  <2>2. text' = text
    <3>1. text' = text \o <<>>
      BY <2>1 DEF Make
    <3>2. QED BY <1>1, <3>1
  <2>3. Behind(text, Enders)
    <3>1. todo[1].op = "not_first"
      BY <1>1, <2>1 DEF Make
    <3>2. QED BY <1>1, <3>1 DEF JsonInv, WellSeparated, Fits
  <2>4. QED BY <1>1, <1>2, <2>1, <2>2, <2>3, LastFits
<1>11. CASE Element
  <2> DEFINE chars == IF s_first THEN <<>> ELSE IF m_pretty THEN <<",", " ">> ELSE <<",">>
             c == <<Serialize(Head(todo).type, Head(todo).value), Do("not_first")>>
  <2>1. chars \in Seq(C)
    BY <1>2, <1>4
  <2>2. Make("write_element", chars, c) /\ UNCHANGED <<m_pretty, m_indent_level, s_first>>
    BY <1>11 DEF Element
  <2>3. Twofold(c, "serialize", CallsOf(D, C))
    BY <1>7, <1>8, <2>2 DEF Make
  <2> HIDE DEF chars, c
  <2>4. QED BY <2>1, <2>2, <2>3, MoreFits DEF Twofold
<1>12. CASE Property
  <2> DEFINE comma == IF s_first THEN <<>> ELSE <<",">> \o NewLine
             chars == comma \o Literal(Head(todo).name) \o <<":">>
             c == <<Serialize(Head(todo).type, Head(todo).value), Do("not_first")>>
  <2>1. comma \in Seq(C)
    BY <1>2, <1>6, Zenon
  <2>2. Make("write_property", chars, c) /\ UNCHANGED <<m_pretty, m_indent_level, s_first>>
    BY <1>12 DEF Property
  <2> HIDE DEF comma
  <2>3. chars \in Seq(C)
    <3>1. Literal(Head(todo).name) \in Seq(C)
      BY <1>7, <2>2 DEF Make
    <3>2. QED BY <1>4, <1>5, <2>1, <3>1, Zenon
  <2>4. Twofold(c, "serialize", CallsOf(D, C))
    BY <1>7, <1>8, <2>2 DEF Make
  <2> HIDE DEF chars, c
  <2>5. QED BY <2>2, <2>3, <2>4, MoreFits DEF Twofold
<1>13. CASE PropertyCb
  <2> DEFINE comma == IF s_first THEN <<>> ELSE <<",", "\n">> \o Indent
             front == comma \o Literal(Head(todo).name)
             colon == <<":">>
             chars == front \o colon
             c == <<WriteElement(Head(todo).type, Head(todo).value), Do("not_first")>>
  <2>1. comma \in Seq(C)
    BY <1>2, <1>6, Zenon
  <2>2. Make("write_property_cb", chars, c) /\ UNCHANGED <<m_pretty, m_indent_level, s_first>>
    BY <1>13 DEF PropertyCb
  <2> HIDE DEF comma
  <2>3. front \in Seq(C)
    BY <1>7, <2>1, <2>2 DEF Make
  <2> HIDE DEF front
  <2>4. colon \in Seq(C) /\ Behind(colon, {":"})
    <3>1. colon \in Seq(C) /\ colon # <<>> /\ colon[Len(colon)] \in {":"}
      BY <1>4
    <3> HIDE DEF colon
    <3>2. QED BY <3>1, BehindLast
  <2>5. Twofold(c, "write_element", CallsOf(D, C))
    BY <1>7, <1>8, <2>2 DEF Make
  <2> HIDE DEF c, colon
  <2>6. chars \in Seq(C) /\ Behind(chars, {":"})
    BY <2>3, <2>4, BehindSecond
  <2>7. text' = text \o chars
    BY <2>2 DEF Make
  <2> HIDE DEF chars
  <2>8. Behind(text', {":"})
    BY <1>1, <2>6, <2>7, BehindSecond
  <2>9. QED BY <2>2, <2>5, <2>6, <2>8, MoreFits DEF Twofold
<1>14. QED BY <1>9, <1>10, <1>11, <1>12, <1>13

\* Every step leaves the calls and the text fitting.
LEMMA JsonInductive ==
  ASSUME NEW C, Marks \subseteq C, NEW D, WellFormed(D, C)
  PROVE  JsonSpec(D) => []JsonInv(D, C)
<1>1. ASSUME JsonInit PROVE JsonInv(D, C)
  <2>1. /\ text = <<>> /\ todo = <<>> /\ m_pretty \in BOOLEAN /\ m_indent_level = 0 /\ s_first = TRUE
    BY <1>1 DEF JsonInit, SerializerInit
  <2>2. Chained(todo) /\ Closes(todo)
    BY <2>1 DEF Chained, Closes
  <2>3. WellSeparated /\ EntryFits(todo, s_first)
    BY <2>1 DEF WellSeparated, Fits, EntryFits
  <2>4. JsonTypeOK(D, C)
    <3>1. text \in Seq(C) /\ todo \in Seq(CallsOf(D, C))
      BY <2>1
    <3>2. m_indent_level \in Int
      BY <2>1
    <3>3. s_first \in BOOLEAN
      BY <2>1
    <3>4. QED BY <2>1, <3>1, <3>2, <3>3 DEF JsonTypeOK
  <2>5. QED BY <2>2, <2>3, <2>4 DEF JsonInv
<1>2. ASSUME JsonInv(D, C), SerializerStep PROVE JsonInv(D, C)'
  BY <1>2, ValueFits, BracketFits, SeparatorFits DEF SerializerStep
<1>3. ASSUME JsonInv(D, C), GiveValue(D) PROVE JsonInv(D, C)'
  <2>1. PICK d \in D : todo' = <<Serialize(d.type, d.value)>>
    BY <1>3 DEF GiveValue
  <2>2. Part(d.type, d.value) \in D
    BY Zenon DEF WellFormed
  <2>3. Serialize(d.type, d.value) \in CallsOf(D, C) /\ Serialize(d.type, d.value).op = "serialize"
    BY <2>2, CallOfPart DEF IsCall
  <2>4. todo' \in Seq(CallsOf(D, C)) /\ Len(todo') = 1 /\ todo' # <<>> /\ todo'[1].op = "serialize"
    BY <2>1, <2>3
  <2>5. Chained(todo') /\ Closes(todo') /\ EntryFits(todo', s_first')
    BY <2>4 DEF Chained, Closes, EntryFits
  <2>6. Fits(text', todo', s_first')
    BY <2>4 DEF Fits
  <2>7. UNCHANGED <<text, m_pretty, m_indent_level, s_first>>
    BY <1>3 DEF GiveValue
  <2>8. QED BY <1>3, <2>4, <2>5, <2>6, <2>7 DEF JsonInv, JsonTypeOK, WellSeparated
<1>4. ASSUME JsonInv(D, C), UNCHANGED serializerVars PROVE JsonInv(D, C)'
  BY <1>4 DEF serializerVars, JsonInv, JsonTypeOK, WellSeparated
<1>5. QED BY <1>1, <1>2, <1>3, <1>4, PTL DEF JsonSpec, JsonNext

\* Under one m_first, values of whatever types, nested in one another as they may
\* be, are separated: in front of an element, a property or an entry the text ends
\* in a bracket or a colon exactly if m_first says that a comma must not be
\* written, and in a value if it says that one must.
THEOREM ValuesSeparated ==
  ASSUME NEW C, Marks \subseteq C, NEW D, WellFormed(D, C)
  PROVE  JsonSpec(D) => []WellSeparated
<1>1. JsonInv(D, C) => WellSeparated
  BY DEF JsonInv
<1>2. QED BY <1>1, JsonInductive, PTL

\* The digits.
LEMMA DigitsAre == DigitSet = {"0", "1", "2", "3", "4", "5", "6", "7", "8", "9"}
<1>1. DOMAIN DigitOf = 1..10
  BY DEF DigitOf
<1>2. \A i \in 1..10 : i = 1 \/ i = 2 \/ i = 3 \/ i = 4 \/ i = 5 \/ i = 6 \/ i = 7 \/ i = 8 \/ i = 9 \/ i = 10
  OBVIOUS
<1>3. /\ DigitOf[1] = "0" /\ DigitOf[2] = "1" /\ DigitOf[3] = "2" /\ DigitOf[4] = "3" /\ DigitOf[5] = "4"
      /\ DigitOf[6] = "5" /\ DigitOf[7] = "6" /\ DigitOf[8] = "7" /\ DigitOf[9] = "8" /\ DigitOf[10] = "9"
  BY DEF DigitOf
<1>4. ASSUME NEW c PROVE c \in DigitSet <=> \E i \in 1..10 : c = DigitOf[i]
  BY <1>1 DEF DigitSet
<1>5. QED BY <1>2, <1>3, <1>4

\* A text does not end in characters of two kinds.
LEMMA BehindOnly ==
  ASSUME NEW C, NEW s \in Seq(C), NEW these, NEW those, Behind(s, these),
         these \cap (those \cup Blanks) = {}, those \cap Blanks = {}
  PROVE  ~ Behind(s, those)
<1>1. SUFFICES ASSUME Behind(s, those) PROVE FALSE
  OBVIOUS
<1>2. PICK k \in 1..Len(s) : s[k] \in these /\ \A j \in (k + 1)..Len(s) : s[j] \in Blanks
  BY DEF Behind
<1>3. PICK l \in 1..Len(s) : s[l] \in those /\ \A j \in (l + 1)..Len(s) : s[j] \in Blanks
  BY <1>1 DEF Behind
<1>4. Len(s) \in Nat
  OBVIOUS
<1>5. CASE k = l
  BY <1>2, <1>3, <1>5
<1>6. CASE k < l
  <2>1. l \in (k + 1)..Len(s)
    BY <1>4, <1>6
  <2>2. QED BY <1>2, <1>3, <2>1
<1>7. CASE l < k
  <2>1. k \in (l + 1)..Len(s)
    BY <1>4, <1>7
  <2>2. QED BY <1>2, <1>3, <2>1
<1>8. QED BY <1>4, <1>5, <1>6, <1>7

\* A step that may have to write a comma, and one that writes one.
Separates    == todo # <<>> /\ todo[1].op \in {"write_element", "write_property", "write_property_cb", "begin_entry"}
CommaWritten == Len(text') > Len(text) /\ text'[Len(text) + 1] = ","

\* The first of two texts that are joined has the first character.
LEMMA FirstOfTwo ==
  ASSUME NEW C, NEW a \in Seq(C), NEW b \in Seq(C), a # <<>>
  PROVE  a \o b \in Seq(C) /\ a \o b # <<>> /\ (a \o b)[1] = a[1]
<1>1. Len(a) \in Nat /\ 1 \in 1..Len(a)
  OBVIOUS
<1> DEFINE r == a \o b
<1>2. r \in Seq(C) /\ Len(r) = Len(a) + Len(b) /\ Len(b) \in Nat /\ r[1] = a[1]
  BY <1>1, ConcatIs
<1> HIDE DEF r
<1>3. r # <<>>
  BY <1>1, <1>2
<1>4. QED BY <1>2, <1>3 DEF r

\* A string begins with a quote.
LEMMA LiteralFirst ==
  ASSUME NEW C, Marks \subseteq C, NEW s \in Seq(C), NEW r \in Seq(C)
  PROVE  /\ Literal(s) \o r \in Seq(C) /\ Literal(s) \o r # <<>> /\ (Literal(s) \o r)[1] = Quote
         /\ <<>> \o Literal(s) = Literal(s)
<1> DEFINE quote == <<Quote>>
           middle == FlattenSeq([i \in DOMAIN s |-> Escape(s[i])])
           begun == quote \o middle
<1>1. quote \in Seq(C) /\ quote # <<>> /\ quote[1] = Quote
  BY Characters
<1>2. middle \in Seq(C)
  <2> DEFINE ss == [i \in DOMAIN s |-> Escape(s[i])]
  <2>1. \A c \in C : Escape(c) \in Seq(C)
    BY EscapeType
  <2>2. Len(s) \in Nat /\ ss \in [1..Len(s) -> Seq(C)]
    <3>1. Len(s) \in Nat /\ DOMAIN s = 1..Len(s) /\ \A i \in DOMAIN s : s[i] \in C
      OBVIOUS
    <3>2. \A i \in DOMAIN s : Escape(s[i]) \in Seq(C)
      BY <2>1, <3>1
    <3>3. QED BY <3>1, <3>2
  <2> HIDE DEF ss
  <2>3. FlattenSeq(ss) \in Seq(C)
    BY <2>2, FlattenIn
  <2>4. QED BY <2>3 DEF ss
<1>3. Literal(s) = begun \o quote
  BY Zenon DEF Literal
<1> HIDE DEF quote, middle
<1>4. begun \in Seq(C) /\ begun # <<>> /\ begun[1] = Quote
  BY <1>1, <1>2, FirstOfTwo
<1> HIDE DEF begun
<1>5. Literal(s) \in Seq(C) /\ Literal(s) # <<>> /\ Literal(s)[1] = Quote
  BY <1>1, <1>3, <1>4, FirstOfTwo
<1>6. <<>> \o Literal(s) = Literal(s)
  BY <1>5
<1>7. QED BY <1>5, <1>6, FirstOfTwo

\* What begins with a comma, and what does not.
LEMMA CommaOf ==
  ASSUME NEW C, text \in Seq(C), NEW chars \in Seq(C), text' = text \o chars
  PROVE  CommaWritten <=> chars # <<>> /\ chars[1] = ","
<1>1. Len(text) \in Nat /\ Len(chars) \in Nat /\ Len(text') = Len(text) + Len(chars)
  BY ConcatIs
<1>2. chars # <<>> <=> Len(chars) > 0
  OBVIOUS
<1>3. chars # <<>> => text'[Len(text) + 1] = chars[1]
  <2>1. chars # <<>> => 1 \in 1..Len(chars)
    BY <1>1, <1>2
  <2>2. \A i \in 1..Len(chars) : (text \o chars)[Len(text) + i] = chars[i]
    BY ConcatIs
  <2>3. QED BY <2>1, <2>2
<1>4. Len(text') > Len(text) <=> chars # <<>>
  BY <1>1, <1>2
<1>5. QED BY <1>3, <1>4, Zenon DEF CommaWritten

\* A comma is written between two values and nowhere else: where one may have to be,
\* it is written exactly if the text ends in a value, and no element, property or
\* entry is written behind a value without one.
THEOREM CommasBetweenValues ==
  ASSUME NEW C, Marks \subseteq C, NEW D, WellFormed(D, C)
  PROVE  JsonSpec(D) => [][Separates => (CommaWritten <=> Behind(text, Enders))]_serializerVars
<1>1. ASSUME JsonInv(D, C), JsonNext(D), Separates
      PROVE  CommaWritten <=> Behind(text, Enders)
  <2>1. /\ text \in Seq(C) /\ todo \in Seq(CallsOf(D, C)) /\ m_pretty \in BOOLEAN /\ m_indent_level \in Int
        /\ s_first \in BOOLEAN
    BY <1>1 DEF JsonInv, JsonTypeOK
  <2>2. Head(todo) = todo[1] /\ todo # <<>>
    BY <1>1, <2>1 DEF Separates
  <2>3. EntryComma \/ Element \/ Property \/ PropertyCb
    BY <1>1, <2>2 DEF JsonNext, SerializerStep, GiveValue, Separates, Make, SerializeScalar, SerializeCompound,
         BeginObject, EndObject, BeginArray, EndArray, WroteOne
  <2>4. IF s_first THEN ~ Behind(text, Enders) ELSE Behind(text, Enders)
    <3>1. Behind(text, IF s_first THEN Openers \cup {":"} ELSE Enders)
      BY <1>1, <2>2 DEF JsonInv, WellSeparated, Fits, Separates
    <3>2. /\ (Openers \cup {":"}) \cap (Enders \cup Blanks) = {}
          /\ Enders \cap Blanks = {}
      BY DigitsAre DEF Openers, Enders, Blanks, Quote
    <3>3. CASE s_first
      <4>1. Behind(text, Openers \cup {":"})
        BY <3>1, <3>3
      <4>2. QED BY <2>1, <3>2, <3>3, <4>1, BehindOnly
    <3>4. CASE ~ s_first
      BY <3>1, <3>4
    <3>5. QED BY <3>3, <3>4
  <2>5. NewLine \in Seq(C) /\ Indent \in Seq(C) /\ <<>> \in Seq(C) /\ "," \in C /\ <<",">> \in Seq(C)
    <3>1. "," \in C
      BY DEF Marks
    <3>2. ASSUME NEW x \in C PROVE <<x>> \in Seq(C)
      OBVIOUS
    <3>3. NewLine \in Seq(Blanks) /\ Indent \in Seq(Blanks)
      BY <2>1, BlankType
    <3>4. NewLine \in Seq(C) /\ Indent \in Seq(C)
      BY <3>3, Characters, SeqMonotone
    <3>5. <<",">> \in Seq(C)
      BY <3>1, <3>2, Zenon
    <3>6. <<>> \in Seq(C)
      OBVIOUS
    <3>7. QED BY <3>1, <3>4, <3>5, <3>6
  <2>6. Quote # ","
    BY DEF Quote
  <2>7. \A chars \in Seq(C) : text' = text \o chars => (CommaWritten <=> chars # <<>> /\ chars[1] = ",")
    BY <2>1, CommaOf
  <2>8. ASSUME NEW r \in Seq(C)
        PROVE  <<",">> \o r \in Seq(C) /\ <<",">> \o r # <<>> /\ (<<",">> \o r)[1] = ","
    <3> DEFINE comma == <<",">>
    <3>1. comma \in Seq(C) /\ comma # <<>> /\ comma[1] = ","
      BY <2>5
    <3> HIDE DEF comma
    <3>2. comma \o r \in Seq(C) /\ comma \o r # <<>> /\ (comma \o r)[1] = ","
      BY <3>1, FirstOfTwo
    <3>3. QED BY <3>2 DEF comma
  <2>9. Head(todo).op \in {"write_property", "write_property_cb"} => Head(todo).name \in Seq(C)
    BY <2>1, <2>2, CallIs
  <2>10. CASE EntryComma
    <3> DEFINE chars == IF s_first THEN <<>> ELSE <<",">> \o NewLine
    <3>1. text' = text \o chars
      BY <2>10 DEF EntryComma, Make
    <3>2. CASE s_first
      <4>1. chars = <<>>
        BY <3>2
      <4> HIDE DEF chars
      <4>2. QED BY <2>4, <2>5, <2>7, <3>1, <3>2, <4>1
    <3>3. CASE ~ s_first
      <4>1. chars \in Seq(C) /\ chars # <<>> /\ chars[1] = ","
        BY <2>5, <2>8, <3>3
      <4> HIDE DEF chars
      <4>2. QED BY <2>4, <2>7, <3>1, <3>3, <4>1
    <3>4. QED BY <3>2, <3>3
  <2>11. CASE Element
    <3> DEFINE chars == IF s_first THEN <<>> ELSE IF m_pretty THEN <<",", " ">> ELSE <<",">>
    <3>1. text' = text \o chars
      BY <2>11 DEF Element, Make
    <3>2. CASE s_first
      <4>1. chars = <<>>
        BY <3>2
      <4> HIDE DEF chars
      <4>2. QED BY <2>4, <2>5, <2>7, <3>1, <3>2, <4>1
    <3>3. CASE ~ s_first
      <4>1. ASSUME NEW x \in C, NEW y \in C
            PROVE  /\ <<x>> \in Seq(C) /\ <<x>> # <<>> /\ <<x>>[1] = x
                   /\ <<x, y>> \in Seq(C) /\ <<x, y>> # <<>> /\ <<x, y>>[1] = x
        OBVIOUS
      <4>2. " " \in C
        BY Characters DEF Blanks
      <4>3. chars = <<",", " ">> \/ chars = <<",">>
        BY <3>3
      <4> HIDE DEF chars
      <4>4. chars \in Seq(C) /\ chars # <<>> /\ chars[1] = ","
        BY <2>5, <4>1, <4>2, <4>3
      <4>5. QED BY <2>4, <2>7, <3>1, <3>3, <4>4
    <3>4. QED BY <3>2, <3>3
  <2>12. ASSUME NEW comma \in Seq(C), NEW name \in Seq(C), IF s_first THEN comma = <<>> ELSE comma # <<>> /\ comma[1] = ",",
                text' = text \o (comma \o Literal(name) \o <<":">>)
         PROVE  CommaWritten <=> Behind(text, Enders)
    <3> DEFINE colon == <<":">>
               front == comma \o Literal(name)
               chars == front \o colon
    <3>1. colon \in Seq(C)
      <4>1. ":" \in C
        BY DEF Marks
      <4>2. QED BY <4>1
    <3> HIDE DEF colon
    <3>2. text' = text \o chars
      BY <2>12 DEF colon
    <3>3. CASE s_first
      <4>1. Literal(name) \o colon \in Seq(C) /\ Literal(name) \o colon # <<>> /\ (Literal(name) \o colon)[1] = Quote
        BY <3>1, LiteralFirst
      <4>2. <<>> \o Literal(name) = Literal(name)
        BY LiteralFirst
      <4>3. front = Literal(name)
        BY <2>12, <3>3, <4>2
      <4>4. chars \in Seq(C) /\ chars[1] # ","
        BY <2>6, <4>1, <4>3
      <4> HIDE DEF chars
      <4>5. QED BY <2>4, <2>7, <3>2, <3>3, <4>4
    <3>4. CASE ~ s_first
      <4>1. Literal(name) \in Seq(C)
        BY LiteralType
      <4>2. front \in Seq(C) /\ front # <<>> /\ front[1] = ","
        BY <2>12, <3>4, <4>1, FirstOfTwo
      <4> HIDE DEF front
      <4>3. chars \in Seq(C) /\ chars # <<>> /\ chars[1] = ","
        BY <3>1, <4>2, FirstOfTwo
      <4> HIDE DEF chars
      <4>4. QED BY <2>4, <2>7, <3>2, <3>4, <4>3
    <3>5. QED BY <3>3, <3>4
  <2>13. CASE Property
    <3> DEFINE comma == IF s_first THEN <<>> ELSE <<",">> \o NewLine
    <3>1. text' = text \o (comma \o Literal(Head(todo).name) \o <<":">>)
      BY <2>13 DEF Property, Make
    <3>2. Head(todo).name \in Seq(C)
      BY <2>9, <2>13 DEF Property, Make
    <3>3. comma \in Seq(C) /\ IF s_first THEN comma = <<>> ELSE comma # <<>> /\ comma[1] = ","
      <4>1. CASE s_first
        BY <2>5, <4>1
      <4>2. CASE ~ s_first
        BY <2>5, <2>8, <4>2
      <4>3. QED BY <4>1, <4>2
    <3> HIDE DEF comma
    <3>4. QED BY <2>12, <3>1, <3>2, <3>3
  <2>14. CASE PropertyCb
    <3> DEFINE comma == IF s_first THEN <<>> ELSE <<",", "\n">> \o Indent
    <3>1. text' = text \o (comma \o Literal(Head(todo).name) \o <<":">>)
      BY <2>14 DEF PropertyCb, Make
    <3>2. Head(todo).name \in Seq(C)
      BY <2>9, <2>14 DEF PropertyCb, Make
    <3>3. comma \in Seq(C) /\ IF s_first THEN comma = <<>> ELSE comma # <<>> /\ comma[1] = ","
      <4>1. CASE s_first
        BY <2>5, <4>1
      <4>2. CASE ~ s_first
        <5> DEFINE break == <<",", "\n">>
        <5>1. break \in Seq(C) /\ break # <<>> /\ break[1] = ","
          <6>1. "\n" \in C
            BY Characters DEF Blanks
          <6>2. ASSUME NEW x \in C, NEW y \in C
                PROVE  <<x, y>> \in Seq(C) /\ <<x, y>> # <<>> /\ <<x, y>>[1] = x
            OBVIOUS
          <6>3. QED BY <2>5, <6>1, <6>2
        <5>2. comma = break \o Indent
          BY <4>2
        <5> HIDE DEF break, comma
        <5>3. comma \in Seq(C) /\ comma # <<>> /\ comma[1] = ","
          BY <2>5, <5>1, <5>2, FirstOfTwo
        <5>4. QED BY <4>2, <5>3
      <4>3. QED BY <4>1, <4>2
    <3> HIDE DEF comma
    <3>4. QED BY <2>12, <3>1, <3>2, <3>3
  <2>15. QED BY <2>3, <2>10, <2>11, <2>13, <2>14
<1>2. QED BY <1>1, JsonInductive, PTL DEF JsonSpec
=============================================================================

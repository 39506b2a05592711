-------------------------- MODULE PeriodicProofs ---------------------------
(***************************************************************************)
(* Proofs about PeriodicAppender for any period, local time, template and  *)
(* bounds: how far m_timestamp is from the events, for how long a file     *)
(* stays open, and that every event is written once.                       *)
(***************************************************************************)
EXTENDS PeriodicAppender, TLAPS

TypeOK ==
  /\ m_timestamp \in Nat
  /\ m_stream \in FileNames \cup {Closed}
  /\ files \in [FileNames -> Seq(Nat)]
  /\ appended \in Seq(1..MaxTime)
  /\ opener \in 0..Len(appended)
  /\ dropped \in Seq(Nat)
  /\ refused \in BOOLEAN /\ aborted \in BOOLEAN

\* m_timestamp is less than a period ahead of the event that rolled last.
OpenerWithinAPeriod ==
  /\ opener = 0 => m_timestamp = 0 /\ appended = <<>>
  /\ opener # 0 => m_timestamp - appended[opener] < Period

\* Once an event has come, no file is open only if opening one failed.
OpenedOrRefused == m_stream = Closed => m_timestamp = 0 \/ refused

\* Files hold events that were appended.
Known == \A n \in Places : \A i \in DOMAIN Within(n) : Within(n)[i] \in 1..Len(appended)

\* The inductive invariant.
IInv ==
  /\ TypeOK /\ OpenerWithinAPeriod /\ OpenedOrRefused /\ Known
  /\ WithinAPeriod /\ OpenForLessThanAPeriod /\ EveryEventWritten

-----------------------------------------------------------------------------
\* What a division leaves is less than the divisor.
LEMMA Division ==
  ASSUME NEW d \in Nat \ {0}, NEW x \in Nat
  PROVE  x \div d \in Nat /\ d * (x \div d) \in Nat /\ d * (x \div d) <= x /\ x - d * (x \div d) < d
  OBVIOUS

\* What is not ahead is not a period ahead.
LEMMA NotAhead ==
  ASSUME NEW d \in Nat, 0 < d, NEW x \in Nat, NEW y \in Nat, x <= y PROVE x - y < d
  OBVIOUS

\* Where m_timestamp goes when append rolls: on, up to a period behind ts.
LEMMA Advances ==
  ASSUME TypeOK, NEW ts \in Nat, MustRoll(ts)
  PROVE  /\ m_timestamp + Advance(ts) \in Nat /\ m_timestamp <= m_timestamp + Advance(ts)
         /\ m_timestamp + Advance(ts) <= ts /\ ts - (m_timestamp + Advance(ts)) < Period
<1>1. ts - m_timestamp \in Nat /\ m_timestamp \in Nat
  BY DEF TypeOK, MustRoll
<1>2. Period \in Nat \ {0}
  BY PeriodicAssumption
<1>3. Advance(ts) \in Nat /\ Advance(ts) <= ts - m_timestamp /\ ts - m_timestamp - Advance(ts) < Period
  BY <1>1, <1>2, Division DEF Advance
<1> HIDE DEF Advance
<1>4. QED BY <1>1, <1>2, <1>3

-----------------------------------------------------------------------------
\* The initial states satisfy the invariant.
LEMMA InvInit == Init => IInv
<1> SUFFICES ASSUME Init PROVE IInv
  OBVIOUS
<1>1. TypeOK
  <2>1. files \in [FileNames -> Seq(Nat)] /\ dropped \in Seq(Nat) /\ appended \in Seq(1..MaxTime)
    BY DEF Init
  <2>2. opener \in 0..Len(appended)
    BY DEF Init
  <2>3. QED BY <2>1, <2>2 DEF Init, TypeOK
<1>2. OpenerWithinAPeriod /\ OpenedOrRefused
  BY DEF Init, OpenerWithinAPeriod, OpenedOrRefused
<1>3. \A n \in Places : Within(n) = <<>>
  BY DEF Init, Places, Within
<1>4. Known
  BY <1>3 DEF Known
<1>5. WithinAPeriod
  BY DEF Init, WithinAPeriod
<1>6. OpenForLessThanAPeriod
  BY DEF Init, OpenForLessThanAPeriod
<1>7. EveryEventWritten
  BY <1>3 DEF Init, EveryEventWritten
<1>8. QED BY <1>1, <1>2, <1>4, <1>5, <1>6, <1>7 DEF IInv

\* What append leaves behind whether it writes the event or the assertion
\* stops it.
LEMMA RollKeeps ==
  ASSUME IInv, NEW ts \in 1..MaxTime, NEW now \in 1..MaxTime, AppendEvent(ts, now)
  PROVE  /\ m_timestamp' \in Nat /\ m_stream' \in FileNames \cup {Closed} /\ refused' \in BOOLEAN
         /\ appended' \in Seq(1..MaxTime) /\ Len(appended') = Len(appended) + 1
         /\ appended'[Len(appended')] = ts
         /\ \A i \in DOMAIN appended : i \in DOMAIN appended' /\ appended'[i] = appended[i]
         /\ opener' \in 0..Len(appended')
         /\ OpenerWithinAPeriod' /\ OpenedOrRefused' /\ WithinAPeriod' /\ OpenForLessThanAPeriod'
         /\ refused => refused'
<1> USE DEF IInv
<1>1. ts \in Nat /\ 0 < ts /\ Period \in Nat \ {0}
  BY PeriodicAssumption
<1>2. /\ appended' \in Seq(1..MaxTime) /\ Len(appended') = Len(appended) + 1
      /\ appended'[Len(appended')] = ts
      /\ DOMAIN appended = 1..Len(appended) /\ DOMAIN appended' = 1..Len(appended) + 1
      /\ \A i \in DOMAIN appended : i \in DOMAIN appended' /\ appended'[i] = appended[i]
      /\ Len(appended) \in Nat
  BY DEF AppendEvent, TypeOK
<1>3. \A i \in DOMAIN appended : appended[i] \in Nat
  BY PeriodicAssumption DEF TypeOK
\* An event that is in the record is one of the old ones or the new one.
<1>4. \A i \in DOMAIN appended' :
        \/ i \in DOMAIN appended /\ appended'[i] = appended[i]
        \/ i = Len(appended') /\ appended'[i] = ts
  BY <1>2
<1>5. CASE MustRoll(ts)
  <2>1. /\ m_timestamp' = m_timestamp + Advance(ts)
        /\ m_stream' \in {FileName(now), Closed}
        /\ refused' = (refused \/ m_stream' = Closed)
        /\ opener' = Len(appended')
    BY <1>5 DEF AppendEvent, Roll
  <2>2. /\ m_timestamp' \in Nat /\ m_timestamp \in Nat /\ m_timestamp <= m_timestamp'
        /\ m_timestamp' <= ts /\ ts - m_timestamp' < Period
    <3>1. TypeOK /\ m_timestamp \in Nat
      BY DEF TypeOK
    <3>2. QED BY <1>1, <1>5, <2>1, <3>1, Advances
  <2>3. m_stream' \in FileNames \cup {Closed} /\ refused' \in BOOLEAN /\ (refused => refused')
    BY <2>1 DEF FileNames, TypeOK
  <2>4. opener' \in 0..Len(appended') /\ opener' # 0 /\ appended'[opener'] = ts
    BY <1>2, <2>1
  <2>5. m_timestamp' - ts < Period
    <3>1. m_timestamp' \in Nat /\ ts \in Nat /\ m_timestamp' <= ts /\ Period \in Nat /\ 0 < Period
      BY <1>1, <2>2
    <3>2. QED BY ONLY <3>1, NotAhead
  <2>6. OpenerWithinAPeriod'
    <3>1. QED BY <2>4, <2>5 DEF OpenerWithinAPeriod
  <2>7. OpenedOrRefused'
    BY <2>1 DEF OpenedOrRefused
  <2>8. WithinAPeriod'
    <3>1. ASSUME NEW i \in DOMAIN appended' PROVE appended'[i] - m_timestamp' < Period
      <4>1. CASE i \in DOMAIN appended /\ appended'[i] = appended[i]
        <5>1. appended[i] \in Nat /\ appended[i] - m_timestamp < Period
          BY <1>3, <4>1 DEF WithinAPeriod
        <5>2. QED BY <1>1, <2>2, <4>1, <5>1
      <4>2. CASE appended'[i] = ts
        BY <2>2, <4>2
      <4>3. QED BY <1>4, <4>1, <4>2
    <3>2. Len(appended') \in DOMAIN appended' /\ m_timestamp' - appended'[Len(appended')] < Period
      BY <1>2, <2>5
    <3>3. QED BY <3>1, <3>2 DEF WithinAPeriod
  <2>9. OpenForLessThanAPeriod'
    <3>1. SUFFICES ASSUME NEW i \in opener'..Len(appended')
                   PROVE  appended'[i] - appended'[opener'] < Period
      BY DEF OpenForLessThanAPeriod
    <3>2. i = Len(appended')
      BY <1>2, <2>1
    <3>3. QED BY <1>1, <1>2, <2>4, <3>2
  <2>10. QED BY <1>2, <2>2, <2>3, <2>4, <2>6, <2>7, <2>8, <2>9
<1>6. CASE ~ MustRoll(ts)
  <2>1. m_timestamp' = m_timestamp /\ m_stream' = m_stream /\ refused' = refused /\ opener' = opener
    BY <1>6 DEF AppendEvent, Roll
  <2>2. m_timestamp \in Nat /\ ts <= m_timestamp /\ m_timestamp # 0
    BY <1>1, <1>6 DEF TypeOK, MustRoll
  <2>3. /\ opener # 0 /\ opener \in DOMAIN appended /\ m_timestamp - appended[opener] < Period
        /\ appended'[opener] = appended[opener] /\ appended[opener] \in Nat
    <3>1. opener # 0 /\ m_timestamp - appended[opener] < Period
      BY <2>2 DEF OpenerWithinAPeriod
    <3>2. opener \in DOMAIN appended
      BY <1>2, <3>1 DEF TypeOK
    <3>3. QED BY <1>2, <1>3, <3>1, <3>2
  <2>4. opener' \in 0..Len(appended')
    BY <1>2, <2>1 DEF TypeOK
  <2>5. OpenerWithinAPeriod' /\ OpenedOrRefused'
    BY <2>1, <2>3 DEF OpenerWithinAPeriod, OpenedOrRefused
  <2>6. WithinAPeriod'
    <3>1. ASSUME NEW i \in DOMAIN appended' PROVE appended'[i] - m_timestamp' < Period
      <4>1. CASE i \in DOMAIN appended /\ appended'[i] = appended[i]
        BY <2>1, <4>1 DEF WithinAPeriod
      <4>2. CASE appended'[i] = ts
        BY <1>1, <2>1, <2>2, <4>2
      <4>3. QED BY <1>4, <4>1, <4>2
    <3>2. \E i \in DOMAIN appended' : m_timestamp' - appended'[i] < Period
      BY <1>2, <2>1, <2>2 DEF WithinAPeriod
    <3>3. QED BY <3>1, <3>2 DEF WithinAPeriod
  <2>7. OpenForLessThanAPeriod'
    <3>1. SUFFICES ASSUME NEW i \in opener..Len(appended')
                   PROVE  appended'[i] - appended[opener] < Period
      BY <2>1, <2>3 DEF OpenForLessThanAPeriod
    <3>2. CASE i = Len(appended')
      BY <1>1, <1>2, <2>2, <2>3, <3>2
    <3>3. CASE i # Len(appended')
      <4>1. i \in opener..Len(appended) /\ i \in DOMAIN appended
        BY <1>2, <2>3, <3>3
      <4>2. appended'[i] = appended[i]
        BY <1>2, <4>1
      <4>3. QED BY <2>3, <4>1, <4>2 DEF OpenForLessThanAPeriod
    <3>4. QED BY <3>2, <3>3
  <2>8. QED BY <1>2, <2>1, <2>2, <2>4, <2>5, <2>6, <2>7 DEF TypeOK
<1>7. QED BY <1>5, <1>6

\* An event that is written is the last of one file and changes no other.
LEMMA WriteToAppends ==
  ASSUME TypeOK, NEW name \in Places, NEW ev, WriteTo(name, ev)
  PROVE  /\ Within(name)' = Append(Within(name), ev)
         /\ \A n \in Places \ {name} : Within(n)' = Within(n)
         /\ Places' = Places
         /\ DOMAIN files' = DOMAIN files
<1>1. DOMAIN files = FileNames /\ Closed \notin FileNames
  BY PeriodicAssumption DEF TypeOK
<1>2. CASE name = Closed
  BY <1>1, <1>2 DEF WriteTo, Within, Places
<1>3. CASE name # Closed
  BY <1>1, <1>3 DEF WriteTo, Within, Places
<1>4. QED BY <1>2, <1>3

\* What is at a place is a sequence of numbers.
LEMMA WithinType ==
  ASSUME TypeOK, NEW n \in Places PROVE Within(n) \in Seq(Nat)
  BY DEF TypeOK, Places, Within

\* An event that goes to a place is in order there, and only there.
LEMMA AppendWrites ==
  ASSUME IInv, NEW ts \in 1..MaxTime, NEW now \in 1..MaxTime, AppendEvent(ts, now),
         WriteTo(m_stream', Len(appended'))
  PROVE  /\ files' \in [FileNames -> Seq(Nat)] /\ dropped' \in Seq(Nat)
         /\ Known' /\ EveryEventWritten'
<1>0. PICK name, ev : name = m_stream' /\ ev = Len(appended')
  OBVIOUS
<1>1. /\ name \in FileNames \cup {Closed} /\ appended' \in Seq(1..MaxTime)
      /\ Len(appended) \in Nat /\ ev = Len(appended) + 1 /\ appended'[ev] = ts
      /\ \A i \in DOMAIN appended : i \in DOMAIN appended' /\ appended'[i] = appended[i]
      /\ refused => refused'
      /\ OpenedOrRefused'
  BY <1>0, RollKeeps DEF IInv, TypeOK
<1>2. name \in Places /\ Places = FileNames \cup {Closed} /\ DOMAIN files = FileNames
  BY <1>1 DEF IInv, TypeOK, Places
<1>3. /\ Within(name)' = Append(Within(name), ev)
      /\ \A n \in Places \ {name} : Within(n)' = Within(n)
      /\ Places' = Places /\ DOMAIN files' = DOMAIN files
  BY <1>0, <1>2, WriteToAppends DEF IInv
<1>4. \A n \in Places : Within(n) \in Seq(Nat)
  BY WithinType DEF IInv
<1>5. ev \in Nat
  BY <1>1
<1>6. files' \in [FileNames -> Seq(Nat)] /\ dropped' \in Seq(Nat)
  <2>1. files \in [FileNames -> Seq(Nat)] /\ dropped \in Seq(Nat) /\ WriteTo(name, ev)
    BY <1>0 DEF IInv, TypeOK
  <2>2. CASE name = Closed
    <3>1. dropped' = Append(dropped, ev) /\ files' = files
      BY <2>1, <2>2 DEF WriteTo
    <3>2. QED BY <1>5, <2>1, <3>1
  <2>3. CASE name # Closed
    <3>1. name \in FileNames /\ files[name] \in Seq(Nat)
      BY <1>1, <2>1, <2>3
    <3>2. Append(files[name], ev) \in Seq(Nat)
      BY <1>5, <3>1
    <3>3. QED BY <2>1, <2>3, <3>1, <3>2 DEF WriteTo
  <2>4. QED BY <2>2, <2>3
\* What a place holds now is what it held, or the event at its end.
<1>7. ASSUME NEW n \in Places, NEW i \in DOMAIN Within(n)'
      PROVE  \/ i \in DOMAIN Within(n) /\ Within(n)'[i] = Within(n)[i] /\ Within(n)[i] \in 1..Len(appended)
             \/ n = name /\ i = Len(Within(n)) + 1 /\ Within(n)'[i] = ev
  <2>1. CASE n = name
    BY <1>2, <1>3, <1>4, <2>1 DEF IInv, Known
  <2>2. CASE n # name
    BY <1>2, <1>3, <2>2 DEF IInv, Known
  <2>3. QED BY <2>1, <2>2
<1>8. \A n \in Places : \A i \in DOMAIN Within(n) : i \in DOMAIN Within(n)' /\ Within(n)'[i] = Within(n)[i]
  <2>1. SUFFICES ASSUME NEW n \in Places, NEW i \in DOMAIN Within(n)
                 PROVE  i \in DOMAIN Within(n)' /\ Within(n)'[i] = Within(n)[i]
    OBVIOUS
  <2>2. CASE n = name
    BY <1>2, <1>3, <1>4, <1>5, <2>2
  <2>3. CASE n # name
    BY <1>3, <2>3
  <2>4. QED BY <2>2, <2>3
<1>9. Known'
  BY <1>0, <1>1, <1>3, <1>5, <1>7 DEF Known
<1>10. EveryEventWritten'
  <2>1. ASSUME NEW e \in DOMAIN appended'
        PROVE  \E n \in Places' : \E i \in DOMAIN Within(n)' : Within(n)'[i] = e
    <3>1. CASE e = ev
      <4>1. Len(Within(name)) + 1 \in DOMAIN Within(name)' /\ Within(name)'[Len(Within(name)) + 1] = ev
        BY <1>2, <1>3, <1>4, <1>5
      <4>2. QED BY <1>2, <1>3, <3>1, <4>1
    <3>2. CASE e # ev
      <4>1. e \in DOMAIN appended
        <5>1. e \in 1..Len(appended')
          BY <1>1
        <5>2. QED BY <1>0, <1>1, <3>2, <5>1 DEF IInv, TypeOK
      <4>2. ~ aborted
        BY DEF AppendEvent
      <4>3. PICK n \in Places : \E i \in DOMAIN Within(n) : Within(n)[i] = e
        BY <4>1, <4>2 DEF IInv, EveryEventWritten
      <4>4. QED BY <1>3, <1>8, <4>3
    <3>3. QED BY <3>1, <3>2
  <2>2. ASSUME NEW m \in Places, NEW n \in Places, NEW i \in DOMAIN Within(m)', NEW j \in DOMAIN Within(n)'
        PROVE  /\ m = n /\ i < j => Within(m)'[i] < Within(n)'[j]
               /\ m # n => Within(m)'[i] # Within(n)'[j]
    <3>2. /\ DOMAIN Within(m) = 1..Len(Within(m)) /\ Len(Within(m)) \in Nat
          /\ DOMAIN Within(n) = 1..Len(Within(n)) /\ Len(Within(n)) \in Nat
      BY <1>4
    <3>3. CASE /\ i \in DOMAIN Within(m) /\ Within(m)'[i] = Within(m)[i] /\ Within(m)[i] \in 1..Len(appended)
               /\ j \in DOMAIN Within(n) /\ Within(n)'[j] = Within(n)[j]
      <4>1. /\ m = n /\ i < j => Within(m)[i] < Within(n)[j]
            /\ m # n => Within(m)[i] # Within(n)[j]
        BY <3>3 DEF IInv, EveryEventWritten
      <4>2. QED BY <3>3, <4>1
    <3>4. CASE /\ i \in DOMAIN Within(m) /\ Within(m)'[i] = Within(m)[i] /\ Within(m)[i] \in 1..Len(appended)
               /\ Within(n)'[j] = ev
      BY <1>0, <1>1, <3>4
    <3>5. CASE /\ m = name /\ i = Len(Within(m)) + 1 /\ Within(m)'[i] = ev
               /\ j \in DOMAIN Within(n) /\ Within(n)'[j] = Within(n)[j] /\ Within(n)[j] \in 1..Len(appended)
      BY <1>1, <3>2, <3>5
    <3>6. CASE /\ m = name /\ i = Len(Within(m)) + 1
               /\ n = name /\ j = Len(Within(n)) + 1
      BY <3>2, <3>6
    <3>7. QED BY <1>7, <3>3, <3>4, <3>5, <3>6
  <2>3. dropped' # <<>> => refused'
    <3>1. CASE name = Closed
      <4>1. ts # 0 /\ (m_timestamp' = 0 => MustRoll(ts))
        BY DEF AppendEvent, Roll, MustRoll, IInv, TypeOK
      <4>2. QED BY <1>0, <1>1, <3>1, <4>1 DEF AppendEvent, Roll, OpenedOrRefused
    <3>2. CASE name # Closed
      BY <1>0, <1>1, <3>2 DEF WriteTo, IInv, EveryEventWritten
    <3>3. QED BY <3>1, <3>2
  <2>4. QED BY <1>3, <2>1, <2>2, <2>3 DEF EveryEventWritten
<1>11. QED BY <1>6, <1>9, <1>10

-----------------------------------------------------------------------------
\* Every step keeps the invariant.
LEMMA InvNext == IInv /\ [Next]_vars => IInv'
<1> SUFFICES ASSUME IInv, [Next]_vars PROVE IInv'
  OBVIOUS
<1>1. ASSUME NEW ts \in 1..MaxTime, NEW now \in 1..MaxTime, AppendEvent(ts, now) PROVE IInv'
  <2>1. /\ m_timestamp' \in Nat /\ m_stream' \in FileNames \cup {Closed} /\ refused' \in BOOLEAN
        /\ appended' \in Seq(1..MaxTime) /\ Len(appended') = Len(appended) + 1
        /\ \A i \in DOMAIN appended : i \in DOMAIN appended' /\ appended'[i] = appended[i]
        /\ opener' \in 0..Len(appended')
        /\ OpenerWithinAPeriod' /\ OpenedOrRefused' /\ WithinAPeriod' /\ OpenForLessThanAPeriod'
        /\ refused => refused'
    BY <1>1, RollKeeps
  <2>2. CASE Assertions /\ m_timestamp' < ts
    <3>1. files' = files /\ dropped' = dropped /\ aborted' = TRUE
      BY <1>1, <2>2 DEF AppendEvent
    <3>2. TypeOK'
      BY <2>1, <3>1 DEF IInv, TypeOK
    <3>3. Places' = Places /\ \A n \in Places : Within(n)' = Within(n)
      BY <3>1 DEF Places, Within
    <3>4. Known'
      BY <2>1, <3>3 DEF IInv, Known, TypeOK
    <3>5. EveryEventWritten'
      BY <2>1, <3>1, <3>3 DEF IInv, EveryEventWritten
    <3>6. QED BY <2>1, <3>2, <3>4, <3>5 DEF IInv
  <2>3. CASE ~ (Assertions /\ m_timestamp' < ts)
    <3>1. WriteTo(m_stream', Len(appended')) /\ aborted' = aborted
      BY <1>1, <2>3 DEF AppendEvent
    <3>2. /\ files' \in [FileNames -> Seq(Nat)] /\ dropped' \in Seq(Nat)
          /\ Known' /\ EveryEventWritten'
      BY <1>1, <3>1, AppendWrites
    <3>3. TypeOK'
      BY <2>1, <3>1, <3>2 DEF IInv, TypeOK
    <3>4. QED BY <2>1, <3>2, <3>3 DEF IInv
  <2>4. QED BY <2>2, <2>3
<1>2. ASSUME UNCHANGED vars PROVE IInv'
  <2>1. TypeOK' /\ OpenerWithinAPeriod' /\ OpenedOrRefused' /\ WithinAPeriod' /\ OpenForLessThanAPeriod'
    BY <1>2 DEF vars, IInv, TypeOK, OpenerWithinAPeriod, OpenedOrRefused, WithinAPeriod,
                OpenForLessThanAPeriod
  <2>2. Known' /\ EveryEventWritten'
    BY <1>2 DEF vars, IInv, Known, EveryEventWritten, Places, Within
  <2>3. QED BY <2>1, <2>2 DEF IInv
<1>3. QED BY <1>1, <1>2 DEF Next

\* The invariant holds in every reachable state.
LEMMA Invariance == Spec => []IInv
<1>1. QED BY InvInit, InvNext, PTL DEF Spec

-----------------------------------------------------------------------------
\* Every variable of the appender keeps its type, for any period and any
\* number of events.
THEOREM TypeCorrect == Spec => []TypeOK
<1>1. IInv => TypeOK
  BY DEF IInv
<1>2. QED BY <1>1, Invariance, PTL

\* append moves m_timestamp to less than a period behind every event and less
\* than a period ahead of one of them.
THEOREM RollsByWholePeriods == Spec => []WithinAPeriod
<1>1. IInv => WithinAPeriod
  BY DEF IInv
<1>2. QED BY <1>1, Invariance, PTL

\* No event that append puts behind the one it last rolled for is a whole period
\* later, whatever the clock, the local time and the template do to the names.
THEOREM FilesAreRolled == Spec => []OpenForLessThanAPeriod
<1>1. IInv => OpenForLessThanAPeriod
  BY DEF IInv
<1>2. QED BY <1>1, Invariance, PTL

\* Every event append is given is in one file, once and in the order of the
\* calls, unless opening a file failed or the assertion stopped the program.
THEOREM WrittenOnce == Spec => []EveryEventWritten
<1>1. IInv => EveryEventWritten
  BY DEF IInv
<1>2. QED BY <1>1, Invariance, PTL
=============================================================================

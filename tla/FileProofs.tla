----------------------------- MODULE FileProofs -----------------------------
(***************************************************************************)
(* Proofs about FileAppender for any sizes of messages, limits and bounds: *)
(* where every event is, in which order, and how much a file holds.        *)
(***************************************************************************)
EXTENDS FileAppender, SequenceTheorems, WellFoundedInduction, TLAPS

Events == 1..MaxEvents

-----------------------------------------------------------------------------
(***************************************************************************)
(* The bytes of a sequence of events.  The library's induction theorems    *)
(* take a predicate as a parameter; here induction is the choice of the    *)
(* least number for which a claim fails.                                   *)
(***************************************************************************)
Less == {ss \in Nat \X Nat : ss[1] < ss[2]}

\* A set of numbers that is not empty has a least one.
LEMMA LeastNumber ==
  ASSUME NEW T, T \subseteq Nat, T # {}
  PROVE  \E x \in T : \A y \in T : x <= y
<1>1. Less = OpToRel(<, Nat)
  BY Zenon DEF Less, OpToRel
<1>2. PICK x \in T : \A y \in T : <<y, x>> \notin Less
  BY <1>1, NatLessThanWellFounded, WFMin
<1>3. ASSUME NEW y \in T PROVE x <= y
  <2>1. <<y, x>>[1] = y /\ <<y, x>>[2] = x /\ <<y, x>> \in Nat \X Nat
    OBVIOUS
  <2>2. y < x => <<y, x>> \in Less
    BY <2>1 DEF Less
  <2>3. QED BY <1>2, <2>2
<1>4. QED BY <1>3

\* f counts the bytes of the first k events of s.
Counts(f, s, k) ==
  /\ f \in [0..k -> Nat]
  /\ f[0] = 0
  /\ \A i \in 1..k : f[i] = f[i - 1] + MessageSize(s[i])

\* The bytes of any sequence can be counted.
LEMMA CountExists ==
  ASSUME NEW s \in Seq(Events) PROVE \E f : Counts(f, s, Len(s))
<1> DEFINE Uncounted == {k \in 0..Len(s) : \A f : ~ Counts(f, s, k)}
<1>0. Len(s) \in Nat /\ Uncounted \subseteq Nat
  OBVIOUS
<1>1. SUFFICES ASSUME Uncounted # {} PROVE FALSE
  BY <1>0
<1>2. PICK k \in Uncounted : \A j \in Uncounted : k <= j
  <2> HIDE DEF Uncounted
  <2>1. QED BY <1>0, <1>1, LeastNumber
<1>3. CASE k = 0
  <2>1. Counts([i \in 0..0 |-> 0], s, 0)
    BY DEF Counts
  <2>2. QED BY <1>3, <2>1
<1>4. CASE k # 0
  <2>1. k - 1 \in 0..Len(s) /\ k - 1 \notin Uncounted /\ k \in 1..Len(s)
    BY <1>2, <1>4
  <2>2. PICK f : Counts(f, s, k - 1)
    BY <2>1
  <2>3. MessageSize(s[k]) \in Nat
    BY <2>1, FileAssumption DEF Events
  <2> DEFINE g == [i \in 0..k |-> IF i = k THEN f[k - 1] + MessageSize(s[k]) ELSE f[i]]
  <2>4. g \in [0..k -> Nat]
    BY <2>1, <2>2, <2>3 DEF Counts
  <2>5. ASSUME NEW i \in 1..k PROVE g[i] = g[i - 1] + MessageSize(s[i])
    BY <2>1, <2>2 DEF Counts
  <2>6. g[0] = 0
    BY <2>1, <2>2 DEF Counts
  <2>7. Counts(g, s, k)
    <3> HIDE DEF g
    <3>1. QED BY <2>4, <2>5, <2>6 DEF Counts
  <2>8. QED BY <2>7
<1>5. QED BY <1>3, <1>4

\* Total counts the bytes.
LEMMA TotalCounts ==
  ASSUME NEW s \in Seq(Events) PROVE Counts(Total(s), s, Len(s))
<1> DEFINE Rule(f) == [i \in 0..Len(s) |-> IF i = 0 THEN 0 ELSE f[i - 1] + MessageSize(s[i])]
<1>1. Total(s) = CHOOSE f : f = Rule(f)
  BY Zenon DEF Total
<1>2. PICK f : Counts(f, s, Len(s))
  BY CountExists
<1>3. f = Rule(f)
  BY <1>2 DEF Counts
<1> DEFINE g == Total(s)
<1>4. g = Rule(g)
  BY <1>1, <1>3, Zenon
<1>5. g = [i \in 0..Len(s) |-> g[i]] /\ g[0] = 0
      /\ \A i \in 1..Len(s) : g[i] = g[i - 1] + MessageSize(s[i])
  <2> HIDE DEF g
  <2>1. Len(s) \in Nat
    OBVIOUS
  <2>2. QED BY <1>4, <2>1
<1> HIDE DEF g
<1> DEFINE Differ == {i \in 0..Len(s) : f[i] # g[i]}
<1>6. Differ = {}
  <2>1. SUFFICES ASSUME Differ # {} PROVE FALSE
    OBVIOUS
  <2>2. PICK i \in Differ : \A j \in Differ : i <= j
    <3>1. Differ \subseteq Nat
      OBVIOUS
    <3> HIDE DEF Differ
    <3>2. QED BY <2>1, <3>1, LeastNumber
  <2>3. i # 0 /\ i \in 1..Len(s)
    BY <1>2, <1>5, <2>2 DEF Counts
  <2>4. i - 1 \in 0..Len(s) /\ i - 1 \notin Differ
    BY <2>2, <2>3
  <2>5. QED BY <1>2, <1>5, <2>2, <2>3, <2>4 DEF Counts
<1>7. g = f
  BY <1>2, <1>5, <1>6 DEF Counts
<1>8. QED BY <1>2, <1>7 DEF g

-----------------------------------------------------------------------------
\* The bytes of nothing, and of one event more.
LEMMA BytesOfEmpty == BytesOf(<<>>) = 0
<1>1. <<>> \in Seq(Events) /\ Len(<<>>) = 0
  OBVIOUS
<1>2. QED BY <1>1, TotalCounts DEF Counts, BytesOf

\* A size is a number.
LEMMA BytesOfType ==
  ASSUME NEW s \in Seq(Events) PROVE BytesOf(s) \in Nat
<1>1. Len(s) \in Nat
  OBVIOUS
<1>2. QED BY <1>1, TotalCounts DEF Counts, BytesOf

\* The count of a sequence begins like that of any sequence it begins.
LEMMA BytesOfPrefix ==
  ASSUME NEW s \in Seq(Events), NEW t \in Seq(Events), Len(s) <= Len(t),
         \A i \in 1..Len(s) : s[i] = t[i]
  PROVE  Total(t)[Len(s)] = BytesOf(s)
<1>1. Len(s) \in Nat /\ Len(t) \in Nat
  OBVIOUS
<1>2. Counts(Total(s), s, Len(s)) /\ Counts(Total(t), t, Len(t))
  BY TotalCounts
<1> DEFINE Differ == {i \in 0..Len(s) : Total(s)[i] # Total(t)[i]}
<1>3. SUFFICES ASSUME Differ # {} PROVE FALSE
  BY <1>1 DEF BytesOf
<1>4. PICK i \in Differ : \A j \in Differ : i <= j
  <2>1. Differ \subseteq Nat
    BY <1>1
  <2> HIDE DEF Differ
  <2>2. QED BY <1>3, <2>1, LeastNumber
<1>5. i # 0 /\ i \in 1..Len(s)
  BY <1>1, <1>2, <1>4 DEF Counts
<1>6. i - 1 \in 0..Len(s) /\ i - 1 \notin Differ
  BY <1>1, <1>4, <1>5
<1>7. /\ Total(s)[i] = Total(s)[i - 1] + MessageSize(s[i])
      /\ Total(t)[i] = Total(t)[i - 1] + MessageSize(t[i])
  BY <1>1, <1>2, <1>5 DEF Counts
<1>8. QED BY <1>4, <1>5, <1>6, <1>7

\* An event behind a record adds its own bytes to those of the record.
LEMMA BytesOfAppend ==
  ASSUME NEW s \in Seq(Events), NEW e \in Events
  PROVE  BytesOf(Append(s, e)) = BytesOf(s) + MessageSize(e)
<1> DEFINE t == Append(s, e)
<1>1. /\ Len(s) \in Nat /\ t \in Seq(Events) /\ Len(t) = Len(s) + 1 /\ t[Len(s) + 1] = e
      /\ \A i \in 1..Len(s) : s[i] = t[i]
  OBVIOUS
<1> HIDE DEF t
<1>2. Counts(Total(s), s, Len(s)) /\ Counts(Total(t), t, Len(s) + 1)
  BY <1>1, TotalCounts
<1>3. Total(t)[Len(s)] = BytesOf(s)
  <2>1. Len(s) <= Len(t)
    BY <1>1
  <2>2. QED BY <1>1, <2>1, BytesOfPrefix
<1>4. Total(t)[Len(s) + 1] = Total(t)[(Len(s) + 1) - 1] + MessageSize(t[Len(s) + 1])
  BY <1>1, <1>2 DEF Counts
<1>5. QED BY <1>1, <1>3, <1>4 DEF BytesOf, t

\* The bytes of two sequences, one behind the other.
LEMMA BytesOfConcat ==
  ASSUME NEW s \in Seq(Events), NEW t \in Seq(Events)
  PROVE  BytesOf(s \o t) = BytesOf(s) + BytesOf(t)
<1> DEFINE u == s \o t
<1>1. /\ Len(s) \in Nat /\ Len(t) \in Nat /\ u \in Seq(Events) /\ Len(u) = Len(s) + Len(t)
      /\ \A i \in 1..Len(s) : s[i] = u[i]
      /\ \A i \in 1..Len(t) : u[Len(s) + i] = t[i]
  OBVIOUS
<1> HIDE DEF u
<1>2. /\ Counts(Total(s), s, Len(s)) /\ Counts(Total(t), t, Len(t))
      /\ Counts(Total(u), u, Len(s) + Len(t))
  BY <1>1, TotalCounts
<1>3. Total(u)[Len(s)] = BytesOf(s)
  <2>1. Len(s) <= Len(u)
    BY <1>1
  <2>2. QED BY <1>1, <2>1, BytesOfPrefix
<1> DEFINE Wrong == {i \in 0..Len(t) : Total(u)[Len(s) + i] # BytesOf(s) + Total(t)[i]}
<1>4. Wrong = {}
  <2>1. SUFFICES ASSUME Wrong # {} PROVE FALSE
    OBVIOUS
  <2>2. PICK i \in Wrong : \A j \in Wrong : i <= j
    <3>1. Wrong \subseteq Nat
      BY <1>1
    <3> HIDE DEF Wrong
    <3>2. QED BY <2>1, <3>1, LeastNumber
  <2>3. BytesOf(s) \in Nat
    BY BytesOfType
  <2>4. CASE i = 0
    BY <1>1, <1>2, <1>3, <2>2, <2>3, <2>4 DEF Counts, BytesOf
  <2>5. CASE i # 0
    <3>1. i \in 1..Len(t) /\ i - 1 \in 0..Len(t) /\ i - 1 \notin Wrong
      <4>1. i \in 0..Len(t) /\ Len(t) \in Nat
        BY <1>1, <2>2
      <4>2. i \in 1..Len(t) /\ i - 1 \in 0..Len(t) /\ ~ (i <= i - 1)
        BY ONLY <2>5, <4>1
      <4>3. QED BY <2>2, <4>2
    <3>2. Total(t)[i] = Total(t)[i - 1] + MessageSize(t[i]) /\ Total(t)[i - 1] \in Nat
      BY <1>2, <3>1 DEF Counts
    <3>3. Total(u)[Len(s) + i] = Total(u)[Len(s) + i - 1] + MessageSize(u[Len(s) + i])
      <4>1. Len(s) + i \in 1..(Len(s) + Len(t))
        BY <1>1, <3>1
      <4>2. \A k \in 1..(Len(s) + Len(t)) : Total(u)[k] = Total(u)[k - 1] + MessageSize(u[k])
        BY <1>2 DEF Counts
      <4>3. QED BY <4>1, <4>2
    <3>4. Total(u)[Len(s) + (i - 1)] = BytesOf(s) + Total(t)[i - 1]
      BY <3>1
    <3>5. Len(s) + (i - 1) = Len(s) + i - 1 /\ u[Len(s) + i] = t[i] /\ MessageSize(t[i]) \in Nat
      <4>1. t[i] \in Events
        BY <3>1
      <4>2. QED BY <1>1, <3>1, <4>1, FileAssumption DEF Events
    <3>6. Total(u)[Len(s) + i] = BytesOf(s) + Total(t)[i]
      BY ONLY <2>3, <3>2, <3>3, <3>4, <3>5
    <3>7. QED BY <2>2, <3>6
  <2>6. QED BY <2>4, <2>5
<1>5. Len(t) \in 0..Len(t)
  BY <1>1
<1>6. QED BY <1>1, <1>4, <1>5 DEF BytesOf, u

-----------------------------------------------------------------------------
(***************************************************************************)
(* What is true between the steps of append and roll.                      *)
(***************************************************************************)
TypeOK ==
  /\ DOMAIN disk \subseteq Nat /\ \A n \in DOMAIN disk : disk[n] \in Seq(Events)
  /\ stream \in {"closed", "good", "failed"}
  /\ buffer \in Seq(Events)
  /\ m_file_size \in Nat /\ m_max_file_size \in Nat
  /\ pc \in {"stopped", "idle", "close", "rename", "reopen", "write"}
  /\ rolled_name \in Nat /\ now \in Nat \ {0} /\ starts \in Nat
  /\ accepted \in 0..MaxEvents
  /\ stuck \in BOOLEAN /\ ran_back \in BOOLEAN

\* Only an open stream has a buffer, and then the live file exists.
Streaming ==
  /\ stream = "good" => Live \in DOMAIN disk /\ pc \in {"idle", "close", "write"}
  /\ stream # "good" => buffer = <<>>
  /\ pc \notin {"stopped", "idle"} => accepted \in Events

\* roll never chooses the name of the live file.  Unless the local time has run
\* back no file has a name of the future, or one behind the name roll has chosen.
Naming ==
  /\ pc \in {"close", "rename"} => rolled_name # Live
  /\ ~ ran_back =>
       /\ \A n \in DOMAIN disk : n <= now
       /\ pc \in {"close", "rename"} =>
            rolled_name <= now /\ \A n \in DOMAIN disk : n <= rolled_name
  /\ pc = "reopen" /\ ~ stuck => Live \notin DOMAIN disk

\* m_file_size is never less than what the live file has or will have, also
\* while no stream is open.
Sized ==
  pc # "stopped" /\ Live \in DOMAIN disk =>
    BytesOf(disk[Live]) + BytesOf(buffer) <= m_file_size

\* The inductive invariant.
IInv ==
  /\ TypeOK /\ Streaming /\ Naming /\ Sized
  /\ Accounted /\ Chronological /\ RolledBeforeWrite

-----------------------------------------------------------------------------
(***************************************************************************)
(* What sequences hold.                                                    *)
(***************************************************************************)
LEMMA EventsOfConcat ==
  ASSUME NEW s \in Seq(Nat), NEW t \in Seq(Nat)
  PROVE  EventsOf(s \o t) = EventsOf(s) \cup EventsOf(t)
<1>1. /\ Len(s) \in Nat /\ Len(t) \in Nat /\ Len(s \o t) = Len(s) + Len(t)
      /\ DOMAIN s = 1..Len(s) /\ DOMAIN t = 1..Len(t) /\ DOMAIN (s \o t) = 1..(Len(s) + Len(t))
      /\ \A i \in 1..Len(s) : (s \o t)[i] = s[i]
      /\ \A i \in 1..Len(t) : (s \o t)[Len(s) + i] = t[i]
  OBVIOUS
<1>2. ASSUME NEW i \in DOMAIN (s \o t) PROVE (s \o t)[i] \in EventsOf(s) \cup EventsOf(t)
  <2>1. CASE i <= Len(s)
    BY <1>1, <2>1 DEF EventsOf, ToSet
  <2>2. CASE i > Len(s)
    <3>1. i - Len(s) \in 1..Len(t) /\ i = Len(s) + (i - Len(s))
      BY <1>1, <2>2
    <3>2. QED BY <1>1, <3>1 DEF EventsOf, ToSet
  <2>3. QED BY <1>1, <2>1, <2>2
<1>3. ASSUME NEW i \in DOMAIN s PROVE s[i] \in EventsOf(s \o t)
  <2>1. i \in DOMAIN (s \o t)
    BY <1>1
  <2>2. QED BY <1>1, <2>1 DEF EventsOf, ToSet
<1>4. ASSUME NEW i \in DOMAIN t PROVE t[i] \in EventsOf(s \o t)
  <2>1. Len(s) + i \in DOMAIN (s \o t)
    BY <1>1
  <2>2. QED BY <1>1, <2>1 DEF EventsOf, ToSet
<1>5. QED BY <1>2, <1>3, <1>4 DEF EventsOf, ToSet

\* The events of a record with one more at its end.
LEMMA EventsOfAppend ==
  ASSUME NEW s \in Seq(Nat), NEW e \in Nat
  PROVE  EventsOf(Append(s, e)) = EventsOf(s) \cup {e}
<1>1. /\ Len(s) \in Nat /\ DOMAIN s = 1..Len(s) /\ DOMAIN Append(s, e) = 1..(Len(s) + 1)
      /\ \A i \in 1..Len(s) : Append(s, e)[i] = s[i]
      /\ Append(s, e)[Len(s) + 1] = e
  OBVIOUS
<1>2. QED BY <1>1 DEF EventsOf, ToSet

\* An empty file holds no event.
LEMMA EventsOfEmpty == EventsOf(<<>>) = {}
  BY DEF EventsOf, ToSet

\* The events of a record of events are events.
LEMMA EventsOfType ==
  ASSUME NEW s \in Seq(Events) PROVE EventsOf(s) \subseteq Events /\ s \in Seq(Nat)
<1>1. \A i \in DOMAIN s : s[i] \in Events
  OBVIOUS
<1>2. Events \subseteq Nat
  BY FileAssumption DEF Events
<1>3. s \in Seq(Nat)
  BY <1>2, SeqMonotonic
<1>4. QED BY <1>1, <1>3 DEF EventsOf, ToSet

\* Older looks at what the sequences hold only.
LEMMA OlderIs ==
  ASSUME NEW s, NEW t
  PROVE  Older(s, t) <=> \A e \in EventsOf(s), f \in EventsOf(t) : e < f
  BY DEF Older, EventsOf, ToSet

\* Two records in order, the second behind the first, are in order together.
LEMMA IncreasingConcat ==
  ASSUME NEW s \in Seq(Nat), NEW t \in Seq(Nat), Increasing(s), Increasing(t), Older(s, t)
  PROVE  Increasing(s \o t)
<1>1. /\ Len(s) \in Nat /\ Len(t) \in Nat
      /\ DOMAIN s = 1..Len(s) /\ DOMAIN t = 1..Len(t) /\ DOMAIN (s \o t) = 1..(Len(s) + Len(t))
      /\ \A i \in 1..Len(s) : (s \o t)[i] = s[i]
      /\ \A i \in (Len(s) + 1)..(Len(s) + Len(t)) : (s \o t)[i] = t[i - Len(s)]
  OBVIOUS
<1>2. SUFFICES ASSUME NEW i \in DOMAIN (s \o t), NEW j \in DOMAIN (s \o t), i < j
               PROVE  (s \o t)[i] < (s \o t)[j]
  BY DEF Increasing
<1>3. CASE j <= Len(s)
  <2>1. i \in 1..Len(s) /\ j \in 1..Len(s)
    BY <1>1, <1>2, <1>3
  <2>2. QED BY <1>1, <1>2, <2>1 DEF Increasing
<1>4. CASE i <= Len(s) /\ j > Len(s)
  <2>1. i \in 1..Len(s) /\ j \in (Len(s) + 1)..(Len(s) + Len(t)) /\ j - Len(s) \in 1..Len(t)
    BY <1>1, <1>4
  <2>2. QED BY <1>1, <2>1 DEF Older
<1>5. CASE i > Len(s) /\ j > Len(s)
  <2>1. /\ i \in (Len(s) + 1)..(Len(s) + Len(t)) /\ j \in (Len(s) + 1)..(Len(s) + Len(t))
        /\ i - Len(s) \in 1..Len(t) /\ j - Len(s) \in 1..Len(t) /\ i - Len(s) < j - Len(s)
    BY <1>1, <1>2, <1>5
  <2>2. QED BY <1>1, <2>1 DEF Increasing
<1>6. QED BY <1>1, <1>2, <1>3, <1>4, <1>5

\* A record in order stays in order with a later event at its end.
LEMMA IncreasingAppend ==
  ASSUME NEW s \in Seq(Nat), NEW e \in Nat, Increasing(s), \A f \in EventsOf(s) : f < e
  PROVE  Increasing(Append(s, e))
<1>1. /\ Len(s) \in Nat /\ DOMAIN s = 1..Len(s) /\ DOMAIN Append(s, e) = 1..(Len(s) + 1)
      /\ \A i \in 1..Len(s) : Append(s, e)[i] = s[i] /\ s[i] < e
      /\ Append(s, e)[Len(s) + 1] = e
  BY DEF EventsOf, ToSet
<1>2. QED BY <1>1 DEF Increasing

\* An empty file is in order.
LEMMA IncreasingEmpty == Increasing(<<>>)
  BY DEF Increasing

\* What is on disk, file by file.
LEMMA OnDiskIs == \A e : e \in OnDisk <=> \E n \in DOMAIN disk : e \in EventsOf(disk[n])
  BY DEF OnDisk

-----------------------------------------------------------------------------
(***************************************************************************)
(* Accounted, part by part.                                                *)
(***************************************************************************)
\* Every event accepted is somewhere.
Somewhere ==
  OnDisk \cup EventsOf(buffer) \cup InProgress \cup overwritten \cup truncated \cup dropped = 1..accepted

\* No event is in two parts.
OnePlace ==
  /\ OnDisk \cap (EventsOf(buffer) \cup InProgress \cup overwritten \cup truncated \cup dropped) = {}
  /\ EventsOf(buffer) \cap (InProgress \cup overwritten \cup truncated \cup dropped) = {}
  /\ InProgress \cap (overwritten \cup truncated \cup dropped) = {}
  /\ overwritten \cap (truncated \cup dropped) = {}
  /\ truncated \cap dropped = {}

\* No event is in two files.
FilesApart ==
  \A m, n \in DOMAIN disk : m # n => EventsOf(disk[m]) \cap EventsOf(disk[n]) = {}

\* The parts that the steps are shown to keep one by one.
LEMMA AccountedIs == Accounted <=> Somewhere /\ OnePlace /\ FilesApart
<1> DEFINE places == <<OnDisk, EventsOf(buffer), InProgress, overwritten, truncated, dropped>>
<1>1. /\ DOMAIN places = 1..6
      /\ places[1] = OnDisk /\ places[2] = EventsOf(buffer) /\ places[3] = InProgress
      /\ places[4] = overwritten /\ places[5] = truncated /\ places[6] = dropped
  OBVIOUS
<1>2. Accounted <=> /\ UNION {places[i] : i \in DOMAIN places} = 1..accepted
                    /\ \A i, j \in DOMAIN places : i # j => places[i] \cap places[j] = {}
                    /\ FilesApart
  BY DEF Accounted, FilesApart
<1> HIDE DEF places
<1>3. 1..6 = {1, 2, 3, 4, 5, 6}
  OBVIOUS
<1>4. UNION {places[i] : i \in DOMAIN places} =
        OnDisk \cup EventsOf(buffer) \cup InProgress \cup overwritten \cup truncated \cup dropped
  BY <1>1, <1>3
<1>5. (\A i, j \in DOMAIN places : i # j => places[i] \cap places[j] = {}) <=> OnePlace
  <2>1. ASSUME \A i, j \in DOMAIN places : i # j => places[i] \cap places[j] = {} PROVE OnePlace
    <3>1. \A i \in 1..6, j \in 1..6 : i # j => places[i] \cap places[j] = {}
      BY <1>1, <2>1
    <3>2. /\ places[1] \cap places[2] = {} /\ places[1] \cap places[3] = {} /\ places[1] \cap places[4] = {}
          /\ places[1] \cap places[5] = {} /\ places[1] \cap places[6] = {}
          /\ places[2] \cap places[3] = {} /\ places[2] \cap places[4] = {} /\ places[2] \cap places[5] = {}
          /\ places[2] \cap places[6] = {}
          /\ places[3] \cap places[4] = {} /\ places[3] \cap places[5] = {} /\ places[3] \cap places[6] = {}
          /\ places[4] \cap places[5] = {} /\ places[4] \cap places[6] = {}
          /\ places[5] \cap places[6] = {}
      BY <3>1
    <3>3. QED BY <1>1, <3>2 DEF OnePlace
  <2>2. ASSUME OnePlace, NEW i \in DOMAIN places, NEW j \in DOMAIN places, i # j
        PROVE  places[i] \cap places[j] = {}
    BY <1>1, <1>3, <2>2 DEF OnePlace
  <2>3. QED BY <2>1, <2>2
<1>6. QED BY <1>2, <1>4, <1>5 DEF Somewhere

\* Files in order have no event in common.
LEMMA InOrderApart == TypeOK /\ Chronological => FilesApart
<1> SUFFICES ASSUME TypeOK, Chronological, NEW m \in DOMAIN disk, NEW n \in DOMAIN disk, m # n
             PROVE  EventsOf(disk[m]) \cap EventsOf(disk[n]) = {}
  BY DEF FilesApart
<1>1. m \in Nat /\ n \in Nat /\ disk[m] \in Seq(Events) /\ disk[n] \in Seq(Events)
  BY DEF TypeOK
<1>3. Older(disk[m], disk[n]) \/ Older(disk[n], disk[m])
  BY DEF Chronological
<1>4. EventsOf(disk[m]) \subseteq Nat /\ EventsOf(disk[n]) \subseteq Nat
  BY <1>1, EventsOfType, FileAssumption DEF Events
<1>5. QED BY <1>3, <1>4, OlderIs

-----------------------------------------------------------------------------
(***************************************************************************)
(* What steps do to the files and the buffer.                              *)
(***************************************************************************)
\* Nothing.
LEMMA FilesStay ==
  ASSUME IInv, disk' = disk, buffer' = buffer, ran_back => ran_back'
  PROVE  OnDisk' = OnDisk /\ EventsOf(buffer)' = EventsOf(buffer) /\ Chronological'
<1>1. \A m, n \in DOMAIN disk : Before(m, n)' => Before(m, n)
  BY DEF Before
<1>2. QED BY <1>1 DEF IInv, OnDisk, Chronological

\* The buffer is lost.
LEMMA BufferLost ==
  ASSUME IInv, disk' = disk, buffer' = <<>>, ran_back' = ran_back
  PROVE  OnDisk' = OnDisk /\ EventsOf(buffer)' = {} /\ Chronological'
<1>1. \A n \in DOMAIN disk : Older(disk[n], <<>>)
  BY DEF Older
<1>2. \A m, n \in DOMAIN disk : Before(m, n)' = Before(m, n)
  BY DEF Before
<1>3. QED BY <1>1, <1>2, EventsOfEmpty, IncreasingEmpty DEF IInv, OnDisk, Chronological

\* A record in order, cut in two.
LEMMA CutInTwo ==
  ASSUME NEW s \in Seq(Events), NEW n \in 0..Len(s), Increasing(s)
  PROVE  LET kept == SubSeq(s, 1, n)
             lost == SubSeq(s, n + 1, Len(s))
         IN  /\ kept \in Seq(Events) /\ lost \in Seq(Events) /\ Increasing(kept)
             /\ EventsOf(s) = EventsOf(kept) \cup EventsOf(lost)
             /\ EventsOf(kept) \cap EventsOf(lost) = {}
             /\ BytesOf(kept) <= BytesOf(s)
             /\ n = Len(s) => kept = s
<1> DEFINE kept == SubSeq(s, 1, n)
           lost == SubSeq(s, n + 1, Len(s))
<1>1. Len(s) \in Nat /\ n \in Nat /\ n <= Len(s) /\ DOMAIN s = 1..Len(s)
      /\ \A i \in DOMAIN s : s[i] \in Events
  OBVIOUS
<1>2. /\ kept \in Seq(Events) /\ Len(kept) = n
      /\ \A i \in 1..n : kept[i] = s[i]
  <2>1. 1 \in Int /\ n \in Int /\ \A i \in 1..n : s[i] \in Events
    BY <1>1
  <2>2. /\ SubSeq(s, 1, n) \in Seq(Events)
        /\ Len(SubSeq(s, 1, n)) = IF 1 <= n THEN n - 1 + 1 ELSE 0
        /\ \A i \in 1..n - 1 + 1 : SubSeq(s, 1, n)[i] = s[1 + i - 1]
    BY ONLY <2>1, SubSeqProperties
  <2>3. n - 1 + 1 = n /\ \A i \in 1..n : 1 + i - 1 = i
    BY <1>1
  <2>4. Len(SubSeq(s, 1, n)) = n
    BY <1>1, <2>2
  <2>5. QED BY <2>2, <2>3, <2>4
<1>3. /\ lost \in Seq(Events) /\ Len(lost) = Len(s) - n
      /\ \A i \in 1..Len(s) - n : lost[i] = s[n + i]
  <2>1. n + 1 \in Int /\ Len(s) \in Int /\ \A i \in (n + 1)..Len(s) : s[i] \in Events
    BY <1>1
  <2>2. /\ SubSeq(s, n + 1, Len(s)) \in Seq(Events)
        /\ Len(SubSeq(s, n + 1, Len(s))) = IF n + 1 <= Len(s) THEN Len(s) - (n + 1) + 1 ELSE 0
        /\ \A i \in 1..Len(s) - (n + 1) + 1 : SubSeq(s, n + 1, Len(s))[i] = s[(n + 1) + i - 1]
    BY ONLY <2>1, SubSeqProperties
  <2>3. Len(s) - (n + 1) + 1 = Len(s) - n /\ \A i \in 1..Len(s) - n : (n + 1) + i - 1 = n + i
    BY <1>1
  <2>4. Len(SubSeq(s, n + 1, Len(s))) = Len(s) - n
    <3>1. CASE n + 1 <= Len(s)
      BY <2>2, <2>3, <3>1
    <3>2. CASE ~ (n + 1 <= Len(s))
      <4>1. Len(s) - n = 0
        <5>1. Len(s) \in Nat /\ n \in Nat /\ n <= Len(s)
          BY <1>1
        <5>2. QED BY ONLY <3>2, <5>1
      <4>2. QED BY <2>2, <3>2, <4>1
    <3>3. QED BY <3>1, <3>2
  <2>5. QED BY <2>2, <2>3, <2>4
<1> HIDE DEF kept, lost
<1>4. DOMAIN kept = 1..n /\ DOMAIN lost = 1..Len(s) - n
  BY <1>2, <1>3
<1>5. Increasing(kept)
  <2>1. SUFFICES ASSUME NEW i \in 1..n, NEW j \in 1..n, i < j PROVE kept[i] < kept[j]
    BY <1>4 DEF Increasing
  <2>2. i \in DOMAIN s /\ j \in DOMAIN s
    BY <1>1
  <2>3. QED BY <1>2, <2>1, <2>2 DEF Increasing
<1>6. EventsOf(s) = EventsOf(kept) \cup EventsOf(lost)
  <2>1. ASSUME NEW i \in DOMAIN s PROVE s[i] \in EventsOf(kept) \cup EventsOf(lost)
    <3>1. CASE i <= n
      <4>1. i \in 1..n
        BY <1>1, <3>1
      <4>2. QED BY <1>2, <1>4, <4>1 DEF EventsOf, ToSet
    <3>2. CASE i > n
      <4>1. i - n \in 1..Len(s) - n /\ n + (i - n) = i
        BY <1>1, <3>2
      <4>2. QED BY <1>3, <1>4, <4>1 DEF EventsOf, ToSet
    <3>3. QED BY <1>1, <3>1, <3>2
  <2>2. ASSUME NEW i \in DOMAIN kept PROVE kept[i] \in EventsOf(s)
    <3>1. i \in DOMAIN s /\ kept[i] = s[i]
      BY <1>1, <1>2, <1>4
    <3>2. QED BY <3>1 DEF EventsOf, ToSet
  <2>3. ASSUME NEW i \in DOMAIN lost PROVE lost[i] \in EventsOf(s)
    <3>1. n + i \in DOMAIN s /\ lost[i] = s[n + i]
      BY <1>1, <1>3, <1>4
    <3>2. QED BY <3>1 DEF EventsOf, ToSet
  <2>4. QED BY <2>1, <2>2, <2>3 DEF EventsOf, ToSet
<1>7. EventsOf(kept) \cap EventsOf(lost) = {}
  <2>1. ASSUME NEW i \in DOMAIN kept, NEW j \in DOMAIN lost PROVE kept[i] # lost[j]
    <3>1. i \in DOMAIN s /\ n + j \in DOMAIN s /\ i < n + j
      BY <1>1, <1>4
    <3>2. s[i] < s[n + j]
      BY <3>1 DEF Increasing
    <3>3. s[i] \in Nat /\ s[n + j] \in Nat
      BY <1>1, <3>1, FileAssumption DEF Events
    <3>4. kept[i] = s[i] /\ lost[j] = s[n + j]
      BY <1>2, <1>3, <1>4
    <3>5. QED BY <3>2, <3>3, <3>4
  <2>2. QED BY <2>1 DEF EventsOf, ToSet
<1>8. BytesOf(kept) <= BytesOf(s) /\ (n = Len(s) => kept = s)
  <2>1. n = Len(s) => kept = s
    BY SubSeqFull DEF kept
  <2>2. kept \o lost = s
    <3>1. CASE n = 0
      <4>1. kept = <<>> /\ lost = s
        BY <3>1, <1>1, <1>2, SubSeqFull DEF lost
      <4>2. QED BY <4>1
    <3>2. CASE n = Len(s)
      <4>1. lost = <<>>
        BY <1>3, <3>2, <1>1
      <4>2. QED BY <2>1, <3>2, <4>1
    <3>3. CASE n # 0 /\ n # Len(s)
      <4>1. Len(kept \o lost) = Len(s)
        <5>1. Len(kept \o lost) = Len(kept) + Len(lost)
          BY <1>2, <1>3, ConcatProperties
        <5>2. QED BY <1>1, <1>2, <1>3, <5>1
      <4>2. \A i \in 1..Len(s) : (kept \o lost)[i] = s[i]
        <5>1. ASSUME NEW i \in 1..Len(s) PROVE (kept \o lost)[i] = s[i]
          <6>1. CASE i <= n
            BY <1>1, <1>2, <1>3, <6>1
          <6>2. CASE i > n
            <7>1. i - n \in 1..Len(s) - n /\ n + (i - n) = i
              BY <1>1, <6>2
            <7>2. (kept \o lost)[i] = lost[i - n]
              BY <1>1, <1>2, <1>3, <6>2
            <7>3. QED BY <1>3, <7>1, <7>2
          <6>3. i <= n \/ i > n
            BY <1>1
          <6>4. QED BY <6>1, <6>2, <6>3
        <5>2. QED BY <5>1
      <4>3. kept \o lost \in Seq(Events)
        BY <1>2, <1>3
      <4>4. QED BY <4>1, <4>2, <4>3, SeqEqual
    <3>4. QED BY <3>1, <3>2, <3>3
  <2>3. BytesOf(s) = BytesOf(kept) + BytesOf(lost)
    BY <1>2, <1>3, <2>2, BytesOfConcat
  <2>4. BytesOf(kept) \in Nat /\ BytesOf(lost) \in Nat
    BY <1>2, <1>3, BytesOfType
  <2>5. QED BY <2>1, <2>3, <2>4
<1>9. QED BY <1>1, <1>2, <1>3, <1>5, <1>6, <1>7, <1>8 DEF kept, lost

\* A part of the buffer goes into the live file, the rest is lost.
LEMMA BufferWritten ==
  ASSUME IInv, stream = "good", ran_back' = ran_back, NEW k \in 0..Len(buffer), WriteOut(k)
  PROVE  /\ DOMAIN disk' = DOMAIN disk /\ Live \in DOMAIN disk
         /\ \A n \in DOMAIN disk' : disk'[n] \in Seq(Events)
         /\ \E kept, lost : /\ EventsOf(buffer) = kept \cup lost /\ kept \cap lost = {}
                            /\ OnDisk' = OnDisk \cup kept /\ dropped' = dropped \cup lost
         /\ buffer' = <<>> /\ EventsOf(buffer)' = {}
         /\ Chronological'
         /\ BytesOf(disk'[Live]) + BytesOf(buffer') <= BytesOf(disk[Live]) + BytesOf(buffer)
<1>1. PICK kept, lost :
        /\ kept = SubSeq(buffer, 1, k) /\ lost = SubSeq(buffer, k + 1, Len(buffer))
  OBVIOUS
<1>2. buffer \in Seq(Events) /\ Increasing(buffer)
  BY DEF IInv, TypeOK, Chronological
<1>3. /\ kept \in Seq(Events) /\ lost \in Seq(Events) /\ Increasing(kept)
      /\ EventsOf(buffer) = EventsOf(kept) \cup EventsOf(lost)
      /\ EventsOf(kept) \cap EventsOf(lost) = {}
      /\ BytesOf(kept) <= BytesOf(buffer)
  BY <1>1, <1>2, CutInTwo
<1>4. /\ Live \in DOMAIN disk /\ DOMAIN disk' = DOMAIN disk
      /\ disk'[Live] = disk[Live] \o kept
      /\ \A n \in DOMAIN disk : n # Live => disk'[n] = disk[n]
      /\ dropped' = dropped \cup EventsOf(lost)
      /\ buffer' = <<>>
  BY <1>1 DEF IInv, Streaming, Put, WriteOut
<1>5. /\ disk[Live] \in Seq(Events) /\ disk[Live] \o kept \in Seq(Events)
      /\ \A n \in DOMAIN disk : disk[n] \in Seq(Events)
      /\ kept \in Seq(Nat) /\ disk[Live] \in Seq(Nat)
  BY <1>3, <1>4, EventsOfType DEF IInv, TypeOK
<1>6. EventsOf(disk'[Live]) = EventsOf(disk[Live]) \cup EventsOf(kept)
  BY <1>4, <1>5, EventsOfConcat
<1>7. OnDisk' = OnDisk \cup EventsOf(kept)
  <2>1. ASSUME NEW n \in DOMAIN disk PROVE EventsOf(disk'[n]) \subseteq OnDisk \cup EventsOf(kept)
    BY <1>4, <1>6 DEF OnDisk
  <2>2. ASSUME NEW n \in DOMAIN disk PROVE EventsOf(disk[n]) \subseteq EventsOf(disk'[n])
    BY <1>4, <1>6
  <2>3. OnDisk' = UNION {EventsOf(disk'[n]) : n \in DOMAIN disk'}
    BY DEF OnDisk, EventsOf
  <2>4. QED BY <1>4, <1>6, <2>1, <2>2, <2>3 DEF OnDisk
<1>8. Chronological'
  <2>1. \A n \in DOMAIN disk : Older(disk[n], kept)
    BY <1>3, OlderIs DEF IInv, Chronological
  <2>2. ASSUME NEW n \in DOMAIN disk PROVE Increasing(disk'[n]) /\ Older(disk'[n], <<>>)
    <3>1. CASE n = Live
      <4>1. Increasing(disk[Live]) /\ Older(disk[Live], kept)
        BY <1>4, <2>1 DEF IInv, Chronological
      <4>2. Increasing(disk'[Live])
        BY <1>3, <1>4, <1>5, <4>1, IncreasingConcat
      <4>3. QED BY <3>1, <4>2 DEF Older
    <3>2. CASE n # Live
      BY <1>4, <3>2 DEF IInv, Chronological, Older
    <3>3. QED BY <3>1, <3>2
  \* What is older than a file stays so when what is written is newer than both.
  <2>3. ASSUME NEW m \in DOMAIN disk, NEW n \in DOMAIN disk, m # Live, Older(disk[m], disk[n])
        PROVE  Older(disk'[m], disk'[n])
    <3>1. disk'[m] = disk[m] /\ Older(disk[m], kept)
      BY <1>4, <2>1, <2>3
    <3>2. EventsOf(disk'[n]) \subseteq EventsOf(disk[n]) \cup EventsOf(kept)
      BY <1>4, <1>6
    <3>3. QED BY <2>3, <3>1, <3>2, OlderIs
  <2>4. ASSUME NEW m \in DOMAIN disk, NEW n \in DOMAIN disk, Before(m, n)
        PROVE  Older(disk'[m], disk'[n])
    <3>1. m # Live /\ Older(disk[m], disk[n])
      BY <2>4 DEF Before, IInv, Chronological
    <3>2. QED BY <2>3, <3>1
  <2>5. ASSUME NEW m \in DOMAIN disk, NEW n \in DOMAIN disk, m # n
        PROVE  Older(disk'[m], disk'[n]) \/ Older(disk'[n], disk'[m])
    <3>1. CASE m = Live \/ n = Live
      <4>1. Before(m, n) \/ Before(n, m)
        BY <2>5, <3>1 DEF Before
      <4>2. QED BY <2>4, <4>1
    <3>2. CASE m # Live /\ n # Live
      BY <2>3, <2>5, <3>2 DEF IInv, Chronological
    <3>3. QED BY <3>1, <3>2
  <2>6. Increasing(buffer')
    BY <1>4, IncreasingEmpty
  <2>7. QED BY <1>4, <2>2, <2>4, <2>5, <2>6 DEF Chronological, Increasing, Older, Before
<1>9. BytesOf(disk'[Live]) + BytesOf(buffer') <= BytesOf(disk[Live]) + BytesOf(buffer)
  <2>1. BytesOf(disk[Live]) \in Nat /\ BytesOf(buffer) \in Nat /\ BytesOf(kept) \in Nat
    BY <1>2, <1>3, <1>5, BytesOfType
  <2>2. BytesOf(disk[Live] \o kept) = BytesOf(disk[Live]) + BytesOf(kept)
    BY <1>3, <1>5, BytesOfConcat
  <2>3. QED BY <1>3, <1>4, <2>1, <2>2, BytesOfEmpty
<1>10. \A n \in DOMAIN disk' : disk'[n] \in Seq(Events)
  BY <1>4, <1>5
<1>11. EventsOf(buffer)' = {}
  BY <1>4, EventsOfEmpty DEF EventsOf
<1>12. QED
  BY <1>3, <1>4, <1>7, <1>8, <1>9, <1>10, <1>11

\* The stream is closed.
LEMMA StreamClosed ==
  ASSUME IInv, ran_back' = ran_back, CloseStream
  PROVE  /\ stream' = "closed" /\ buffer' = <<>> /\ EventsOf(buffer)' = {}
         /\ DOMAIN disk' = DOMAIN disk
         /\ \A n \in DOMAIN disk' : disk'[n] \in Seq(Events)
         /\ \E kept, lost : /\ EventsOf(buffer) = kept \cup lost /\ kept \cap lost = {}
                            /\ OnDisk' = OnDisk \cup kept /\ dropped' = dropped \cup lost
         /\ Chronological'
         /\ Live \in DOMAIN disk =>
              BytesOf(disk'[Live]) + BytesOf(buffer') <= BytesOf(disk[Live]) + BytesOf(buffer)
<1>1. stream' = "closed"
  BY DEF CloseStream
<1>2. CASE stream = "good"
  <2>1. PICK k \in 0..Len(buffer) : WriteOut(k)
    BY <1>2 DEF CloseStream
  <2>2. QED BY <1>1, <1>2, <2>1, BufferWritten
<1>3. CASE stream # "good"
  <2>1. disk' = disk /\ buffer = <<>> /\ buffer' = <<>> /\ dropped' = dropped
    BY <1>3 DEF CloseStream, IInv, Streaming
  <2>2. OnDisk' = OnDisk /\ EventsOf(buffer)' = {} /\ EventsOf(buffer) = {} /\ Chronological'
    BY <2>1, BufferLost, EventsOfEmpty
  <2>3. \A n \in DOMAIN disk : disk[n] \in Seq(Events)
    BY DEF IInv, TypeOK
  <2>4. Live \in DOMAIN disk => BytesOf(disk[Live]) \in Nat
    BY <2>3, BytesOfType
  <2>5. \E kept, lost : /\ EventsOf(buffer) = kept \cup lost /\ kept \cap lost = {}
                       /\ OnDisk' = OnDisk \cup kept /\ dropped' = dropped \cup lost
    <3>1. {} \cap {} = {} /\ {} \cup {} = {}
      OBVIOUS
    <3>2. OnDisk' = OnDisk \cup {} /\ dropped' = dropped \cup {}
      BY <2>1, <2>2
    <3>3. QED BY <2>2, <3>1, <3>2
  <2>6. Live \in DOMAIN disk =>
          BytesOf(disk'[Live]) + BytesOf(buffer') <= BytesOf(disk[Live]) + BytesOf(buffer)
    BY <2>1, <2>4, BytesOfEmpty
  <2>7. QED BY <1>1, <2>1, <2>2, <2>3, <2>5, <2>6
<1>4. QED BY <1>2, <1>3

\* What there is to show of a step, part by part.
LEMMA Parts ==
  /\ TypeOK /\ Streaming /\ Naming /\ Sized /\ RolledBeforeWrite
  /\ Chronological /\ Somewhere /\ OnePlace
  => IInv
  BY AccountedIs, InOrderApart DEF IInv

\* The initial states satisfy the invariant.
LEMMA InvInit == Init => IInv
<1> SUFFICES ASSUME Init PROVE IInv
  OBVIOUS
<1>1. DOMAIN disk = {} /\ buffer = <<>>
  BY DEF Init
<1>2. TypeOK
  <2>1. DOMAIN disk \subseteq Nat /\ \A n \in DOMAIN disk : disk[n] \in Seq(Events)
    BY <1>1
  <2>2. buffer \in Seq(Events) /\ accepted \in 0..MaxEvents
    BY <1>1, FileAssumption DEF Init
  <2>3. rolled_name \in Nat /\ now \in Nat \ {0} /\ m_file_size \in Nat /\ m_max_file_size \in Nat /\ starts \in Nat
    BY DEF Init, Live
  <2>4. QED BY <2>1, <2>2, <2>3 DEF Init, TypeOK
<1>3. Streaming /\ Naming /\ Sized /\ RolledBeforeWrite
  BY <1>1 DEF Init, Streaming, Naming, Sized, RolledBeforeWrite
<1>4. Chronological
  BY <1>1, IncreasingEmpty DEF Chronological
<1>5. OnDisk = {} /\ EventsOf(buffer) = {} /\ InProgress = {}
  BY <1>1, EventsOfEmpty DEF Init, OnDisk, InProgress
<1>6. 1..0 = {}
  OBVIOUS
<1>7. Somewhere /\ OnePlace
  BY <1>5, <1>6 DEF Init, Somewhere, OnePlace
<1>8. QED BY <1>2, <1>3, <1>4, <1>7, Parts

\* A start.
LEMMA OpenKeeps == IInv /\ Open => IInv'
<1> SUFFICES ASSUME IInv, Open PROVE IInv'
  OBVIOUS
<1>1. /\ buffer = <<>> /\ buffer' = <<>>
      /\ DOMAIN disk' = DOMAIN disk \cup {Live} /\ disk'[Live] = <<>>
      /\ \A n \in DOMAIN disk : n # Live => disk'[n] = disk[n]
  BY DEF IInv, Streaming, Open, Put
<1>2. TypeOK'
  <2>1. <<>> \in Seq(Events) /\ Live \in Nat /\ 0 \in Nat
    BY DEF Live
  <2>2. starts' \in Nat
    BY DEF Open, IInv, TypeOK
  <2>3. QED BY <1>1, <2>1, <2>2 DEF Open, IInv, TypeOK
<1>3. Streaming' /\ Naming'
  BY <1>1 DEF Open, IInv, TypeOK, Streaming, Naming, Live
<1>4. Sized' /\ RolledBeforeWrite'
  <2>1. BytesOf(disk'[Live]) + BytesOf(buffer') = 0
    BY <1>1, BytesOfEmpty
  <2>2. m_file_size' = 0 /\ pc' = "idle"
    BY DEF Open
  <2>3. Sized'
    <3>1. BytesOf(disk'[Live]) + BytesOf(buffer') <= m_file_size'
      BY <2>1, <2>2
    <3>2. QED BY <3>1 DEF Sized, Live, BytesOf, Total
  <2>4. QED BY <2>2, <2>3 DEF RolledBeforeWrite
<1>5. Chronological'
  <2>1. ASSUME NEW n \in DOMAIN disk' PROVE Increasing(disk'[n]) /\ Older(disk'[n], <<>>)
    <3>1. Increasing(disk'[n])
      BY <1>1, IncreasingEmpty DEF IInv, Chronological
    <3>2. QED BY <3>1 DEF Older
  <2>2. ASSUME NEW m \in DOMAIN disk', NEW n \in DOMAIN disk', Before(m, n)
        PROVE  Older(disk'[m], disk'[n])
    <3>1. CASE n = Live
      BY <1>1, <3>1 DEF Older
    <3>2. CASE n # Live
      <4>1. m \in DOMAIN disk /\ n \in DOMAIN disk /\ disk'[m] = disk[m] /\ disk'[n] = disk[n]
        BY <1>1, <2>2, <3>2 DEF Before
      <4>2. QED BY <2>2, <4>1 DEF IInv, Chronological
    <3>3. QED BY <3>1, <3>2
  <2>3. ASSUME NEW m \in DOMAIN disk', NEW n \in DOMAIN disk', m # n
        PROVE  Older(disk'[m], disk'[n]) \/ Older(disk'[n], disk'[m])
    <3>1. CASE m = Live \/ n = Live
      BY <1>1, <3>1 DEF Older
    <3>2. CASE m # Live /\ n # Live
      BY <1>1, <2>3, <3>2 DEF IInv, Chronological
    <3>3. QED BY <3>1, <3>2
  <2>4. ran_back' = ran_back
    BY DEF Open
  <2>5. QED BY <1>1, <2>1, <2>2, <2>3, <2>4, IncreasingEmpty DEF Chronological, Increasing, Older, Before
<1>6. Somewhere' /\ OnePlace'
  <2>1. EventsOf(disk'[Live]) = {} /\ EventsOf(buffer)' = {} /\ EventsOf(buffer) = {}
    BY <1>1, EventsOfEmpty
  <2>2. OnDisk' = UNION {EventsOf(disk'[n]) : n \in DOMAIN disk'}
    BY DEF OnDisk, EventsOf
  <2>3. InProgress = {} /\ InProgress' = {} /\ accepted' = accepted
        /\ overwritten' = overwritten /\ dropped' = dropped
    BY DEF Open, InProgress
  <2>4. Somewhere /\ OnePlace /\ FilesApart
    BY AccountedIs DEF IInv
  <2>5. CASE Live \in DOMAIN disk
    <3>1. truncated' = truncated \cup EventsOf(disk[Live])
      BY <2>5 DEF Open
    <3>2. OnDisk = OnDisk' \cup EventsOf(disk[Live])
      BY <1>1, <2>1, <2>2, <2>5 DEF OnDisk
    <3>3. OnDisk' \cap EventsOf(disk[Live]) = {}
      BY <1>1, <2>1, <2>2, <2>4, <2>5 DEF FilesApart
    <3>4. EventsOf(disk[Live]) \subseteq OnDisk
      BY <2>5 DEF OnDisk
    <3>5. QED BY <2>1, <2>3, <2>4, <3>1, <3>2, <3>3, <3>4 DEF Somewhere, OnePlace
  <2>6. CASE Live \notin DOMAIN disk
    <3>1. truncated' = truncated
      BY <2>6 DEF Open
    <3>2. OnDisk' = OnDisk
      BY <1>1, <2>1, <2>2, <2>6 DEF OnDisk
    <3>3. QED BY <2>1, <2>3, <2>4, <3>1, <3>2 DEF Somewhere, OnePlace
  <2>7. QED BY <2>5, <2>6
<1>7. QED BY <1>2, <1>3, <1>4, <1>5, <1>6, Parts, PTL

\* What is where, for a step.
LEMMA Moved ==
  ASSUME IInv,
         Somewhere /\ OnePlace => Somewhere' /\ OnePlace',
         TypeOK', Streaming', Naming', Sized', RolledBeforeWrite', Chronological'
  PROVE  IInv'
<1>1. Somewhere /\ OnePlace
  BY AccountedIs DEF IInv
<1>2. QED BY <1>1, Parts, PTL

\* The buffer is divided between the disk and the lost.
LEMMA Spread ==
  ASSUME \E kept, lost : /\ EventsOf(buffer) = kept \cup lost /\ kept \cap lost = {}
                        /\ OnDisk' = OnDisk \cup kept /\ dropped' = dropped \cup lost,
         EventsOf(buffer)' = {}, InProgress' = InProgress, accepted' = accepted,
         overwritten' = overwritten, truncated' = truncated
  PROVE  Somewhere /\ OnePlace => Somewhere' /\ OnePlace'
  BY DEF Somewhere, OnePlace

\* A call of append, the local time, and what else leaves the files
\* and the buffer alone.
LEMMA SetMaxFileSizeKeeps == IInv /\ SetMaxFileSize => IInv'
<1> SUFFICES ASSUME IInv, SetMaxFileSize PROVE IInv'
  OBVIOUS
<1>1. disk' = disk /\ buffer' = buffer /\ ran_back' = ran_back
  BY DEF SetMaxFileSize, files
<1>2. OnDisk' = OnDisk /\ EventsOf(buffer)' = EventsOf(buffer) /\ Chronological'
  BY <1>1, FilesStay
<1>3. TypeOK' /\ Streaming' /\ Naming'
  BY FileAssumption DEF SetMaxFileSize, files, losses, IInv, TypeOK, Streaming, Naming
<1>4. Sized' /\ RolledBeforeWrite'
  BY DEF SetMaxFileSize, files, losses, IInv, Sized, RolledBeforeWrite
<1>5. Somewhere /\ OnePlace => Somewhere' /\ OnePlace'
  BY <1>2 DEF SetMaxFileSize, losses, InProgress, Somewhere, OnePlace
<1>6. QED BY <1>2, <1>3, <1>4, <1>5, Moved

\* append of an event.
LEMMA AppendKeeps == IInv /\ (\E e \in 1..MaxEvents : Append_(e)) => IInv'
<1> SUFFICES ASSUME IInv, NEW e \in 1..MaxEvents, Append_(e) PROVE IInv'
  OBVIOUS
<1>1. disk' = disk /\ buffer' = buffer /\ ran_back' = ran_back
  BY DEF Append_, files
<1>2. OnDisk' = OnDisk /\ EventsOf(buffer)' = EventsOf(buffer) /\ Chronological'
  BY <1>1, FilesStay
<1>3. TypeOK'
  BY DEF Append_, files, sizes, losses, IInv, TypeOK
<1>4. Streaming' /\ Naming'
  <2>1. Streaming'
    BY DEF Append_, files, IInv, TypeOK, Streaming, Events
  <2>2. now' = now /\ now \in Nat \ {0} /\ rolled_name' \in {now, rolled_name}
        /\ (pc' \in {"close", "rename"} => rolled_name' = now) /\ pc' # "reopen"
    BY DEF Append_, IInv, TypeOK
  <2>3. QED BY <1>1, <2>1, <2>2 DEF IInv, Naming, Live
<1>5. Sized'
  BY DEF Append_, files, sizes, losses, IInv, Sized
<1>6. RolledBeforeWrite'
  <2>1. SUFFICES ASSUME pc' = "write", stream = "good", m_max_file_size # 0
                 PROVE  BytesOf(disk[Live]) + BytesOf(buffer) <= m_max_file_size
    BY <1>1 DEF Append_, files, sizes, RolledBeforeWrite
  <2>2. m_file_size <= m_max_file_size
    BY <2>1 DEF Append_, MustRoll, IInv, TypeOK
  <2>3. Live \in DOMAIN disk /\ BytesOf(disk[Live]) + BytesOf(buffer) <= m_file_size
    BY <2>1 DEF Append_, IInv, Streaming, Sized
  <2>4. BytesOf(disk[Live]) \in Nat /\ BytesOf(buffer) \in Nat
    BY <2>3, BytesOfType DEF IInv, TypeOK
  <2>5. QED BY <2>2, <2>3, <2>4 DEF IInv, TypeOK
<1>7. Somewhere /\ OnePlace => Somewhere' /\ OnePlace'
  <2>1. SUFFICES ASSUME Somewhere, OnePlace PROVE Somewhere' /\ OnePlace'
    OBVIOUS
  <2>2. InProgress = {} /\ InProgress' = {e} /\ accepted' = e /\ e = accepted + 1 /\ accepted \in Nat
    BY DEF Append_, InProgress, IInv, TypeOK
  <2>3. 1..e = (1..accepted) \cup {e} /\ e \notin 1..accepted
    BY <2>2
  <2>4. overwritten' = overwritten /\ truncated' = truncated /\ dropped' = dropped
    BY DEF Append_, losses
  <2>5. QED BY <1>2, <2>1, <2>2, <2>3, <2>4 DEF Somewhere, OnePlace
<1>8. QED BY <1>2, <1>3, <1>4, <1>5, <1>6, <1>7, Moved

\* The local time, and nothing.
LEMMA TickKeeps == IInv /\ (Tick \/ SetBack \/ UNCHANGED vars) => IInv'
<1> SUFFICES ASSUME IInv, Tick \/ SetBack \/ UNCHANGED vars PROVE IInv'
  OBVIOUS
<1>1. /\ UNCHANGED <<files, sizes, pc, rolled_name, starts, accepted, losses>>
      /\ now' \in Nat \ {0} /\ now \in Nat /\ ran_back' \in BOOLEAN
      /\ (ran_back => ran_back') /\ (now <= now' \/ ran_back')
  <2>1. now \in Nat \ {0} /\ ran_back \in BOOLEAN
    BY DEF IInv, TypeOK
  <2>2. CASE Tick
    BY <2>1, <2>2 DEF Tick
  <2>3. CASE SetBack
    BY <2>1, <2>3 DEF SetBack
  <2>4. CASE UNCHANGED vars
    BY <2>1, <2>4 DEF vars
  <2>5. QED BY <2>2, <2>3, <2>4
<1>2. OnDisk' = OnDisk /\ EventsOf(buffer)' = EventsOf(buffer) /\ Chronological'
  BY <1>1, FilesStay DEF files
<1>3. TypeOK' /\ Streaming' /\ Naming'
  <2>1. TypeOK' /\ Streaming'
    BY <1>1 DEF files, sizes, losses, IInv, TypeOK, Streaming
  <2>2. ASSUME ~ ran_back'
        PROVE  /\ \A n \in DOMAIN disk : n <= now'
               /\ pc \in {"close", "rename"} => rolled_name <= now'
    BY <1>1, <2>2 DEF IInv, TypeOK, Naming
  <2>3. QED BY <1>1, <2>1, <2>2 DEF files, losses, IInv, Naming
<1>4. Sized' /\ RolledBeforeWrite'
  BY <1>1 DEF files, sizes, losses, IInv, Sized, RolledBeforeWrite
<1>5. Somewhere /\ OnePlace => Somewhere' /\ OnePlace'
  BY <1>1, <1>2 DEF losses, InProgress, Somewhere, OnePlace
<1>6. QED BY <1>2, <1>3, <1>4, <1>5, Moved

\* What is written out when the buffer is full, and by closing the stream.
LEMMA FlushKeeps == IInv /\ Flush => IInv'
<1> SUFFICES ASSUME IInv, Flush PROVE IInv'
  OBVIOUS
<1>1. /\ UNCHANGED <<sizes, pc, rolled_name, now, ran_back, starts, accepted, overwritten, truncated, stuck>>
      /\ stream = "good" /\ stream' \in {"good", "failed"}
  BY DEF Flush
<1>2. /\ DOMAIN disk' = DOMAIN disk /\ Live \in DOMAIN disk
      /\ \A n \in DOMAIN disk' : disk'[n] \in Seq(Events)
      /\ \E kept, lost : /\ EventsOf(buffer) = kept \cup lost /\ kept \cap lost = {}
                         /\ OnDisk' = OnDisk \cup kept /\ dropped' = dropped \cup lost
      /\ buffer' = <<>> /\ EventsOf(buffer)' = {}
      /\ Chronological'
      /\ BytesOf(disk'[Live]) + BytesOf(buffer') <= BytesOf(disk[Live]) + BytesOf(buffer)
  <2>1. PICK k \in 0..Len(buffer) : WriteOut(k)
    BY DEF Flush
  <2>2. QED BY <1>1, <2>1, BufferWritten
<1>3. <<>> \in Seq(Events)
  OBVIOUS
<1>4. TypeOK'
  BY <1>1, <1>2, <1>3 DEF sizes, IInv, TypeOK
<1>5. Streaming' /\ Naming'
  BY <1>1, <1>2 DEF IInv, Streaming, Naming
<1>6. Sized' /\ RolledBeforeWrite'
  <2>1. UNCHANGED <<pc, m_file_size, m_max_file_size, stuck>>
    BY <1>1 DEF sizes
  <2>2. /\ BytesOf(disk[Live]) \in Nat /\ BytesOf(buffer) \in Nat
        /\ BytesOf(disk'[Live]) \in Nat /\ BytesOf(buffer') \in Nat
    BY <1>2, <1>3, BytesOfType DEF IInv, TypeOK
  <2>3. Sized'
    <3>1. SUFFICES ASSUME pc # "stopped"
                   PROVE  BytesOf(disk'[Live]) + BytesOf(buffer') <= m_file_size
      BY <2>1 DEF Sized, Live, BytesOf, Total
    <3>2. BytesOf(disk[Live]) + BytesOf(buffer) <= m_file_size /\ m_file_size \in Nat
      BY <1>2, <3>1 DEF IInv, Sized, TypeOK
    <3>3. QED BY <1>2, <2>2, <3>2
  <2>4. RolledBeforeWrite'
    <3>1. SUFFICES ASSUME pc = "write", ~ stuck, m_max_file_size # 0
                   PROVE  BytesOf(disk'[Live]) + BytesOf(buffer') <= m_max_file_size
      BY <2>1 DEF RolledBeforeWrite, Live, BytesOf, Total
    <3>2. BytesOf(disk[Live]) + BytesOf(buffer) <= m_max_file_size /\ m_max_file_size \in Nat
      BY <1>1, <3>1 DEF IInv, RolledBeforeWrite, TypeOK
    <3>3. QED BY <1>2, <2>2, <3>2
  <2>5. QED BY <2>3, <2>4
<1>7. Somewhere /\ OnePlace => Somewhere' /\ OnePlace'
  BY <1>1, <1>2, Spread DEF InProgress
<1>8. QED BY <1>2, <1>4, <1>5, <1>6, <1>7, Moved

\* roll closes the stream.
LEMMA CloseKeeps == IInv /\ Close => IInv'
<1> SUFFICES ASSUME IInv, Close PROVE IInv'
  OBVIOUS
<1>1. /\ UNCHANGED <<sizes, rolled_name, now, ran_back, starts, accepted, overwritten, truncated, stuck>>
      /\ CloseStream /\ pc = "close" /\ pc' = "rename"
  BY DEF Close
<1>2. /\ stream' = "closed" /\ buffer' = <<>> /\ EventsOf(buffer)' = {}
      /\ DOMAIN disk' = DOMAIN disk
      /\ \A n \in DOMAIN disk' : disk'[n] \in Seq(Events)
      /\ \E kept, lost : /\ EventsOf(buffer) = kept \cup lost /\ kept \cap lost = {}
                         /\ OnDisk' = OnDisk \cup kept /\ dropped' = dropped \cup lost
      /\ Chronological'
      /\ Live \in DOMAIN disk =>
           BytesOf(disk'[Live]) + BytesOf(buffer') <= BytesOf(disk[Live]) + BytesOf(buffer)
  BY <1>1, StreamClosed
<1>3. <<>> \in Seq(Events)
  OBVIOUS
<1>4. TypeOK'
  BY <1>1, <1>2, <1>3 DEF sizes, IInv, TypeOK
<1>5. Streaming' /\ Naming'
  BY <1>1, <1>2 DEF IInv, Streaming, Naming
<1>6. Sized' /\ RolledBeforeWrite'
  <2>1. Sized'
    <3>1. SUFFICES ASSUME Live \in DOMAIN disk
                   PROVE  BytesOf(disk'[Live]) + BytesOf(buffer') <= m_file_size
      BY <1>1, <1>2 DEF sizes, Sized, Live, BytesOf, Total
    <3>2. /\ BytesOf(disk[Live]) \in Nat /\ BytesOf(buffer) \in Nat
          /\ BytesOf(disk'[Live]) \in Nat /\ BytesOf(buffer') \in Nat
      BY <1>2, <1>3, <3>1, BytesOfType DEF IInv, TypeOK
    <3>3. BytesOf(disk[Live]) + BytesOf(buffer) <= m_file_size /\ m_file_size \in Nat
      BY <1>1, <3>1 DEF IInv, Sized, TypeOK
    <3>4. QED BY <1>2, <3>1, <3>2, <3>3
  <2>2. QED BY <1>1, <2>1 DEF RolledBeforeWrite
<1>7. Somewhere /\ OnePlace => Somewhere' /\ OnePlace'
  <2>1. InProgress' = InProgress
    BY <1>1 DEF InProgress
  <2>2. QED BY <1>1, <1>2, <2>1, Spread
<1>8. QED BY <1>2, <1>4, <1>5, <1>6, <1>7, Moved

\* The destructor closes it too.
LEMMA DestroyKeeps == IInv /\ Destroy => IInv'
<1> SUFFICES ASSUME IInv, Destroy PROVE IInv'
  OBVIOUS
<1>1. /\ UNCHANGED <<sizes, rolled_name, now, ran_back, starts, accepted, overwritten, truncated, stuck>>
      /\ CloseStream /\ pc = "idle" /\ pc' = "stopped"
  BY DEF Destroy
<1>2. /\ stream' = "closed" /\ buffer' = <<>> /\ EventsOf(buffer)' = {}
      /\ DOMAIN disk' = DOMAIN disk
      /\ \A n \in DOMAIN disk' : disk'[n] \in Seq(Events)
      /\ \E kept, lost : /\ EventsOf(buffer) = kept \cup lost /\ kept \cap lost = {}
                         /\ OnDisk' = OnDisk \cup kept /\ dropped' = dropped \cup lost
      /\ Chronological'
  BY <1>1, StreamClosed
<1>3. <<>> \in Seq(Events)
  OBVIOUS
<1>4. TypeOK'
  BY <1>1, <1>2, <1>3 DEF sizes, IInv, TypeOK
<1>5. Streaming' /\ Naming'
  BY <1>1, <1>2 DEF IInv, Streaming, Naming
<1>6. Sized' /\ RolledBeforeWrite'
  BY <1>1 DEF Sized, RolledBeforeWrite
<1>7. Somewhere /\ OnePlace => Somewhere' /\ OnePlace'
  <2>1. InProgress' = InProgress
    BY <1>1 DEF InProgress
  <2>2. QED BY <1>1, <1>2, <2>1, Spread
<1>8. QED BY <1>2, <1>4, <1>5, <1>6, <1>7, Moved

\* A crash loses the buffer and the event in progress.
LEMMA CrashKeeps == IInv /\ Crash => IInv'
<1> SUFFICES ASSUME IInv, Crash PROVE IInv'
  OBVIOUS
<1>1. /\ UNCHANGED <<disk, sizes, rolled_name, now, ran_back, starts, accepted, overwritten, truncated, stuck>>
      /\ buffer' = <<>> /\ stream' = "closed" /\ pc # "stopped" /\ pc' = "stopped"
      /\ dropped' = dropped \cup EventsOf(buffer) \cup (IF pc = "idle" THEN {} ELSE {accepted})
  BY DEF Crash
<1>2. OnDisk' = OnDisk /\ EventsOf(buffer)' = {} /\ Chronological'
  BY <1>1, BufferLost
<1>3. <<>> \in Seq(Events)
  OBVIOUS
<1>4. TypeOK'
  BY <1>1, <1>3 DEF sizes, IInv, TypeOK
<1>5. Streaming' /\ Naming'
  BY <1>1 DEF IInv, Streaming, Naming
<1>6. Sized' /\ RolledBeforeWrite'
  BY <1>1 DEF Sized, RolledBeforeWrite
<1>7. Somewhere /\ OnePlace => Somewhere' /\ OnePlace'
  <2>1. InProgress' = {} /\ dropped' = dropped \cup EventsOf(buffer) \cup InProgress
    BY <1>1 DEF InProgress, IInv, TypeOK
  <2>2. QED BY <1>1, <1>2, <2>1 DEF Somewhere, OnePlace
<1>8. QED BY <1>2, <1>4, <1>5, <1>6, <1>7, Moved

\* The event is written into the buffer, or nowhere.
LEMMA WriteKeeps == IInv /\ Write => IInv'
<1> SUFFICES ASSUME IInv, Write PROVE IInv'
  OBVIOUS
<1>1. /\ UNCHANGED <<disk, stream, m_max_file_size, rolled_name, now, ran_back, starts, accepted,
                     overwritten, truncated, stuck>>
      /\ pc = "write" /\ pc' = "idle"
      /\ m_file_size' = m_file_size + MessageSize(accepted)
  BY DEF Write
<1>2. accepted \in Events /\ accepted \in Nat /\ MessageSize(accepted) \in Nat
  BY <1>1, FileAssumption DEF IInv, Streaming, Events
<1>3. InProgress = {accepted} /\ InProgress' = {}
  BY <1>1 DEF InProgress
<1>4. buffer \in Seq(Events) /\ buffer \in Seq(Nat)
  BY EventsOfType DEF IInv, TypeOK
<1>5. CASE stream = "good"
  <2>1. buffer' = Append(buffer, accepted) /\ dropped' = dropped
    BY <1>5 DEF Write
  <2>2. EventsOf(buffer)' = EventsOf(buffer) \cup {accepted}
    BY <1>2, <1>4, <2>1, EventsOfAppend DEF EventsOf
  <2>3. OnDisk' = OnDisk
    BY <1>1 DEF OnDisk, EventsOf
  <2>4. TypeOK'
    <3>1. buffer' \in Seq(Events)
      BY <1>2, <1>4, <2>1
    <3>2. m_file_size' \in Nat
      BY <1>1, <1>2 DEF IInv, TypeOK
    <3>3. QED BY <1>1, <3>1, <3>2 DEF IInv, TypeOK
  <2>5. Streaming' /\ Naming'
    BY <1>1, <1>5 DEF IInv, Streaming, Naming
  <2>6. BytesOf(buffer') = BytesOf(buffer) + MessageSize(accepted)
    BY <1>2, <1>4, <2>1, BytesOfAppend
  <2>7. Sized'
    <3>1. SUFFICES ASSUME Live \in DOMAIN disk
                   PROVE  BytesOf(disk[Live]) + BytesOf(buffer') <= m_file_size'
      BY <1>1 DEF Sized, Live, BytesOf, Total
    <3>2. BytesOf(disk[Live]) \in Nat /\ BytesOf(buffer) \in Nat /\ m_file_size \in Nat
      BY <1>4, <3>1, BytesOfType DEF IInv, TypeOK
    <3>3. BytesOf(disk[Live]) + BytesOf(buffer) <= m_file_size
      BY <1>1, <3>1 DEF IInv, Sized
    <3>4. QED BY <1>1, <1>2, <2>6, <3>2, <3>3
  <2>8. RolledBeforeWrite'
    BY <1>1 DEF RolledBeforeWrite
  \* Every event before is older.
  <2>9. \A e \in OnDisk \cup EventsOf(buffer) : e \in Nat /\ e < accepted
    <3>1. Somewhere /\ OnePlace
      BY AccountedIs DEF IInv
    <3>2. ASSUME NEW e \in OnDisk \cup EventsOf(buffer) PROVE e \in Nat /\ e < accepted
      <4>1. e \in 1..accepted /\ e # accepted
        BY <1>3, <3>1, <3>2 DEF Somewhere, OnePlace
      <4>2. QED BY <1>2, <4>1
    <3>3. QED BY <3>2
  <2>10. Chronological'
    <3>1. Increasing(buffer')
      <4>1. Increasing(buffer) /\ \A f \in EventsOf(buffer) : f < accepted
        BY <2>9 DEF IInv, Chronological
      <4>2. QED BY <1>2, <1>4, <2>1, <4>1, IncreasingAppend
    <3>2. ASSUME NEW n \in DOMAIN disk PROVE Older(disk[n], buffer')
      <4>1. Older(disk[n], buffer)
        BY DEF IInv, Chronological
      <4>2. EventsOf(disk[n]) \subseteq OnDisk
        BY DEF OnDisk
      <4>3. EventsOf(buffer') = EventsOf(buffer) \cup {accepted}
        BY <2>2 DEF EventsOf
      <4>4. QED BY <2>9, <4>1, <4>2, <4>3, OlderIs
    <3>3. QED BY <1>1, <3>1, <3>2 DEF IInv, Chronological, Increasing, Older, Before
  <2>11. Somewhere /\ OnePlace => Somewhere' /\ OnePlace'
    BY <1>1, <1>3, <2>1, <2>2, <2>3 DEF Somewhere, OnePlace
  <2>12. QED BY <2>4, <2>5, <2>7, <2>8, <2>10, <2>11, Moved
<1>6. CASE stream # "good"
  <2>1. buffer' = buffer /\ dropped' = dropped \cup {accepted}
    BY <1>6 DEF Write
  <2>2. OnDisk' = OnDisk /\ EventsOf(buffer)' = EventsOf(buffer) /\ Chronological'
    BY <1>1, <2>1, FilesStay
  <2>3. TypeOK'
    <3>1. m_file_size' \in Nat
      BY <1>1, <1>2 DEF IInv, TypeOK
    <3>2. QED BY <1>1, <2>1, <3>1 DEF IInv, TypeOK
  <2>4. Streaming' /\ Naming'
    BY <1>1, <1>6, <2>1 DEF IInv, Streaming, Naming
  <2>5. Sized'
    <3>1. SUFFICES ASSUME Live \in DOMAIN disk
                   PROVE  BytesOf(disk[Live]) + BytesOf(buffer) <= m_file_size'
      BY <1>1, <2>1 DEF Sized, Live, BytesOf, Total
    <3>2. BytesOf(disk[Live]) \in Nat /\ BytesOf(buffer) \in Nat /\ m_file_size \in Nat
      BY <1>4, <3>1, BytesOfType DEF IInv, TypeOK
    <3>3. BytesOf(disk[Live]) + BytesOf(buffer) <= m_file_size
      BY <1>1, <3>1 DEF IInv, Sized
    <3>4. QED BY <1>1, <1>2, <3>2, <3>3
  <2>6. RolledBeforeWrite'
    BY <1>1 DEF RolledBeforeWrite
  <2>7. Somewhere /\ OnePlace => Somewhere' /\ OnePlace'
    BY <1>1, <1>3, <2>1, <2>2 DEF Somewhere, OnePlace
  <2>8. QED BY <2>2, <2>3, <2>4, <2>5, <2>6, <2>7, Moved
<1>7. QED BY <1>5, <1>6

\* The live file gets the name roll has chosen, over a file of that name.
LEMMA RenameKeeps == IInv /\ Rename => IInv'
<1> SUFFICES ASSUME IInv, Rename PROVE IInv'
  OBVIOUS
<1>1. /\ UNCHANGED <<stream, buffer, sizes, rolled_name, now, ran_back, starts, accepted, truncated, dropped>>
      /\ pc = "rename" /\ pc' = "reopen"
      /\ InProgress' = InProgress
  BY DEF Rename, InProgress
<1>2. stream # "good" /\ buffer = <<>>
  BY <1>1 DEF IInv, Streaming
<1>3. RolledBeforeWrite'
  BY <1>1 DEF RolledBeforeWrite
<1>4. CASE /\ stuck' = TRUE /\ UNCHANGED <<disk, overwritten>>
  <2>1. OnDisk' = OnDisk /\ EventsOf(buffer)' = EventsOf(buffer) /\ Chronological'
    BY <1>1, <1>4, FilesStay
  <2>2. TypeOK'
    BY <1>1, <1>4 DEF sizes, IInv, TypeOK
  <2>3. Streaming' /\ Naming'
    BY <1>1, <1>4 DEF IInv, Streaming, Naming
  <2>4. Sized'
    BY <1>1, <1>4 DEF sizes, IInv, Sized
  <2>5. Somewhere /\ OnePlace => Somewhere' /\ OnePlace'
    BY <1>1, <1>4, <2>1 DEF Somewhere, OnePlace
  <2>6. QED BY <1>3, <2>1, <2>2, <2>3, <2>4, <2>5, Moved
<1>5. CASE /\ Live \in DOMAIN disk
           /\ overwritten' = IF rolled_name \in DOMAIN disk
                             THEN overwritten \cup EventsOf(disk[rolled_name])
                             ELSE overwritten
           /\ disk' = [n \in (DOMAIN disk \ {Live}) \cup {rolled_name} |->
                         IF n = rolled_name THEN disk[Live] ELSE disk[n]]
           /\ stuck' = stuck
  <2>1. /\ rolled_name # Live /\ rolled_name \in Nat /\ now \in Nat
        /\ \A n \in DOMAIN disk : n \in Nat
        /\ ~ ran_back => rolled_name <= now /\ \A n \in DOMAIN disk : n <= rolled_name
    BY <1>1 DEF IInv, Naming, TypeOK
  <2>2. /\ DOMAIN disk' = (DOMAIN disk \ {Live}) \cup {rolled_name} /\ Live \notin DOMAIN disk'
        /\ disk'[rolled_name] = disk[Live]
        /\ \A n \in DOMAIN disk \ {Live, rolled_name} : n \in DOMAIN disk' /\ disk'[n] = disk[n]
    BY <1>5, <2>1
  <2>3. TypeOK'
    <3>1. \A n \in DOMAIN disk' : n \in Nat /\ disk'[n] \in Seq(Events)
      BY <1>5, <2>1, <2>2 DEF IInv, TypeOK
    <3>2. QED BY <1>1, <1>5, <3>1 DEF sizes, IInv, TypeOK
  <2>4. Streaming'
    BY <1>1, <1>2 DEF IInv, Streaming
  <2>5. Naming'
    BY <1>1, <1>5, <2>1, <2>2 DEF IInv, Naming
  <2>6. Sized'
    BY <2>2 DEF Sized, Live
  <2>7. Chronological'
    <3>1. ASSUME NEW n \in DOMAIN disk' PROVE Increasing(disk'[n]) /\ Older(disk'[n], buffer)
      <4>1. Increasing(disk'[n])
        BY <1>5, <2>2 DEF IInv, Chronological
      <4>2. QED BY <1>2, <4>1 DEF Older
    \* The live file was the newest of all.
    <3>2. ASSUME NEW m \in DOMAIN disk', m # rolled_name
          PROVE  m \in DOMAIN disk /\ disk'[m] = disk[m] /\ Older(disk'[m], disk'[rolled_name])
      <4>1. m \in DOMAIN disk /\ m # Live /\ disk'[m] = disk[m]
        BY <2>2, <3>2
      <4>2. Before(m, Live)
        BY <4>1 DEF Before
      <4>3. QED BY <1>5, <2>2, <4>1, <4>2 DEF IInv, Chronological
    <3>5. ASSUME NEW m \in DOMAIN disk', NEW n \in DOMAIN disk', m # n
          PROVE  Older(disk'[m], disk'[n]) \/ Older(disk'[n], disk'[m])
      <4>1. CASE m = rolled_name \/ n = rolled_name
        BY <3>2, <3>5, <4>1
      <4>2. CASE m # rolled_name /\ n # rolled_name
        BY <3>2, <3>5, <4>2 DEF IInv, Chronological
      <4>3. QED BY <4>1, <4>2
    <3>6. ASSUME NEW m \in DOMAIN disk', NEW n \in DOMAIN disk', Before(m, n)
          PROVE  Older(disk'[m], disk'[n])
      <4>1. n # Live /\ m < n /\ ~ ran_back /\ n \in Nat /\ m \in Nat /\ n <= rolled_name
        BY <2>1, <2>2, <3>6 DEF Before
      <4>2. m # rolled_name
        BY <2>1, <4>1
      <4>3. CASE n = rolled_name
        BY <3>2, <4>2, <4>3
      <4>4. CASE n # rolled_name
        BY <3>2, <3>6, <4>2, <4>4 DEF IInv, Chronological
      <4>5. QED BY <4>3, <4>4
    <3>3. Increasing(buffer)
      BY DEF IInv, Chronological
    <3>4. QED BY <1>1, <3>1, <3>3, <3>5, <3>6 DEF Chronological, Increasing, Older, Before
  <2>8. Somewhere /\ OnePlace => Somewhere' /\ OnePlace'
    <3>1. SUFFICES ASSUME Somewhere, OnePlace PROVE Somewhere' /\ OnePlace'
      OBVIOUS
    <3>2. EventsOf(buffer)' = EventsOf(buffer)
      BY <1>1
    <3>3. OnDisk' = UNION {EventsOf(disk'[n]) : n \in DOMAIN disk'}
      BY DEF OnDisk, EventsOf
    <3>4. CASE rolled_name \in DOMAIN disk
      <4>1. overwritten' = overwritten \cup EventsOf(disk[rolled_name])
        BY <1>5, <3>4
      <4>2. OnDisk = OnDisk' \cup EventsOf(disk[rolled_name])
        BY <1>5, <2>2, <3>3, <3>4 DEF OnDisk
      <4>3. OnDisk' \cap EventsOf(disk[rolled_name]) = {}
        <5>1. FilesApart
          BY AccountedIs DEF IInv
        <5>2. ASSUME NEW n \in DOMAIN disk'
              PROVE  EventsOf(disk'[n]) \cap EventsOf(disk[rolled_name]) = {}
          <6>1. CASE n = rolled_name
            BY <1>5, <2>1, <2>2, <3>4, <5>1, <6>1 DEF FilesApart
          <6>2. CASE n # rolled_name
            BY <2>2, <3>4, <5>1, <6>2 DEF FilesApart
          <6>3. QED BY <6>1, <6>2
        <5>3. QED BY <3>3, <5>2
      <4>4. QED BY <1>1, <3>1, <3>2, <4>1, <4>2, <4>3 DEF Somewhere, OnePlace
    <3>5. CASE rolled_name \notin DOMAIN disk
      <4>1. overwritten' = overwritten
        BY <1>5, <3>5
      <4>2. OnDisk' = OnDisk
        BY <1>5, <2>2, <3>3, <3>5 DEF OnDisk
      <4>3. QED BY <1>1, <3>1, <3>2, <4>1, <4>2 DEF Somewhere, OnePlace
    <3>6. QED BY <3>4, <3>5
  <2>9. QED BY <1>3, <2>3, <2>4, <2>5, <2>6, <2>7, <2>8, Moved
<1>6. QED BY <1>4, <1>5 DEF Rename

\* roll opens the live file again, or fails to.
LEMMA ReopenKeeps == IInv /\ Reopen => IInv'
<1> SUFFICES ASSUME IInv, Reopen PROVE IInv'
  OBVIOUS
<1>1. /\ UNCHANGED <<buffer, sizes, rolled_name, now, ran_back, starts, accepted, losses>>
      /\ pc = "reopen" /\ pc' = "write" /\ InProgress' = InProgress
      /\ stream' \in {"good", "failed"}
      /\ stream' = "good" => disk' = IF Live \in DOMAIN disk THEN disk ELSE Put(Live, <<>>)
      /\ stream' = "failed" => disk' = disk
  BY DEF Reopen, InProgress
<1>2. stream # "good" /\ buffer = <<>>
  BY <1>1 DEF IInv, Streaming
<1>3. RolledBeforeWrite'
  <2>1. SUFFICES ASSUME stream' = "good", ~ stuck, m_max_file_size # 0
                 PROVE  BytesOf(disk'[Live]) + BytesOf(buffer) <= m_max_file_size
    BY <1>1 DEF sizes, losses, RolledBeforeWrite, Live, BytesOf, Total
  <2>2. Live \notin DOMAIN disk
    BY <1>1, <2>1 DEF IInv, Naming
  <2>3. disk'[Live] = <<>>
    BY <1>1, <2>1, <2>2 DEF Put
  <2>4. QED BY <1>2, <2>3, BytesOfEmpty DEF IInv, TypeOK
<1>4. CASE disk' = disk
  <2>1. OnDisk' = OnDisk /\ EventsOf(buffer)' = EventsOf(buffer) /\ Chronological'
    BY <1>1, <1>4, FilesStay
  <2>2. TypeOK'
    BY <1>1, <1>4 DEF sizes, losses, IInv, TypeOK
  <2>3. Streaming'
    <3>1. stream' = "good" => Live \in DOMAIN disk
      BY <1>1, <1>4 DEF Put
    <3>2. QED BY <1>1, <1>2, <1>4, <3>1 DEF IInv, Streaming
  <2>4. Naming'
    BY <1>1, <1>4 DEF IInv, Naming
  <2>5. Sized'
    BY <1>1, <1>4 DEF sizes, IInv, Sized
  <2>6. Somewhere /\ OnePlace => Somewhere' /\ OnePlace'
    BY <1>1, <2>1 DEF losses, Somewhere, OnePlace
  <2>7. QED BY <1>3, <2>1, <2>2, <2>3, <2>4, <2>5, <2>6, Moved
<1>5. CASE Live \notin DOMAIN disk /\ disk' = Put(Live, <<>>)
  <2>1. /\ DOMAIN disk' = DOMAIN disk \cup {Live} /\ disk'[Live] = <<>>
        /\ \A n \in DOMAIN disk : n # Live /\ disk'[n] = disk[n]
    BY <1>5 DEF Put
  <2>2. TypeOK'
    <3>1. \A n \in DOMAIN disk' : n \in Nat /\ disk'[n] \in Seq(Events)
      <4>1. <<>> \in Seq(Events) /\ Live \in Nat
        BY DEF Live
      <4>2. QED BY <2>1, <4>1 DEF IInv, TypeOK
    <3>2. QED BY <1>1, <3>1 DEF sizes, losses, IInv, TypeOK
  <2>3. Streaming'
    BY <1>1, <1>2, <2>1 DEF IInv, Streaming, Live
  <2>4. Naming'
    BY <1>1, <2>1 DEF IInv, TypeOK, Naming, Live
  <2>5. Sized'
    <3>1. BytesOf(disk'[Live]) + BytesOf(buffer) <= m_file_size
      BY <1>2, <2>1, BytesOfEmpty DEF IInv, TypeOK
    <3>2. QED BY <1>1, <3>1 DEF sizes, Sized, Live, BytesOf, Total
  <2>6. Chronological'
    <3>1. ASSUME NEW n \in DOMAIN disk' PROVE Increasing(disk'[n]) /\ Older(disk'[n], buffer)
      <4>1. Increasing(disk'[n])
        BY <2>1, IncreasingEmpty DEF IInv, Chronological
      <4>2. QED BY <1>2, <4>1 DEF Older
    <3>2. ASSUME NEW m \in DOMAIN disk', NEW n \in DOMAIN disk', Before(m, n)
          PROVE  Older(disk'[m], disk'[n])
      <4>1. CASE n = Live
        BY <2>1, <4>1 DEF Older
      <4>2. CASE n # Live
        BY <2>1, <3>2, <4>2 DEF Before, IInv, Chronological
      <4>3. QED BY <4>1, <4>2
    <3>3. Increasing(buffer)
      BY DEF IInv, Chronological
    <3>4. ASSUME NEW m \in DOMAIN disk', NEW n \in DOMAIN disk', m # n
          PROVE  Older(disk'[m], disk'[n]) \/ Older(disk'[n], disk'[m])
      <4>1. CASE m = Live \/ n = Live
        BY <2>1, <4>1 DEF Older
      <4>2. CASE m # Live /\ n # Live
        BY <2>1, <3>4, <4>2 DEF IInv, Chronological
      <4>3. QED BY <4>1, <4>2
    <3>5. QED BY <1>1, <3>1, <3>2, <3>3, <3>4 DEF Chronological, Increasing, Older, Before
  <2>7. Somewhere /\ OnePlace => Somewhere' /\ OnePlace'
    <3>1. EventsOf(buffer)' = EventsOf(buffer) /\ EventsOf(disk'[Live]) = {}
      BY <1>1, <2>1, EventsOfEmpty
    <3>2. OnDisk' = UNION {EventsOf(disk'[n]) : n \in DOMAIN disk'}
      BY DEF OnDisk, EventsOf
    <3>3. OnDisk' = OnDisk
      BY <2>1, <3>1, <3>2 DEF OnDisk
    <3>4. QED BY <1>1, <3>1, <3>3 DEF losses, Somewhere, OnePlace
  <2>8. QED BY <1>3, <2>2, <2>3, <2>4, <2>5, <2>6, <2>7, Moved
<1>6. QED BY <1>1, <1>4, <1>5

-----------------------------------------------------------------------------
\* The invariant holds in every reachable state.
LEMMA Invariance == Spec => []IInv
<1>1. IInv /\ [Next]_vars => IInv'
  BY OpenKeeps, SetMaxFileSizeKeeps, AppendKeeps, CloseKeeps, RenameKeeps, ReopenKeeps, WriteKeeps,
     FlushKeeps, DestroyKeeps, CrashKeeps, TickKeeps DEF Next
<1>2. QED BY <1>1, InvInit, PTL DEF Spec

\* Every variable of the appender keeps its type, for any number of events,
\* seconds and starts.
THEOREM TypeCorrect == Spec => []TypeOK
<1>1. IInv => TypeOK
  BY DEF IInv
<1>2. QED BY <1>1, Invariance, PTL

\* Every event append was given is in one place: a file, the buffer, or one of
\* the ways to lose it, through rolls, failing calls, crashes and starts.
THEOREM NothingVanishes == Spec => []Accounted
<1>1. IInv => Accounted
  BY DEF IInv
<1>2. QED BY <1>1, Invariance, PTL

\* However the local time runs, each file roll and the constructor leave is a
\* stretch of the log and the live one is the newest; their names are in the
\* same order until the local time runs back.
THEOREM InOrder == Spec => []Chronological
<1>1. IInv => Chronological
  BY DEF IInv
<1>2. QED BY <1>1, Invariance, PTL

\* file_size() never reports less than what is in the live file and on its way.
THEOREM SizeIsUpperBound == Spec => []SizeNotUnderestimated
<1>1. IInv => SizeNotUnderestimated
  BY DEF IInv, Sized, Streaming, SizeNotUnderestimated
<1>2. QED BY <1>1, Invariance, PTL

\* roll keeps every file within its limit but for the last message, unless a
\* rename has failed, whatever the sizes of the messages.
THEOREM LimitKept == Spec => []RolledBeforeWrite
<1>1. IInv => RolledBeforeWrite
  BY DEF IInv
<1>2. QED BY <1>1, Invariance, PTL
=============================================================================

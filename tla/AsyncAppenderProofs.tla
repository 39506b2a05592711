------------------------ MODULE AsyncAppenderProofs -------------------------
(***************************************************************************)
(* Proofs about AsyncAppender for any producers and events: what the       *)
(* destructor flushes, that queue, worker and null pointer together        *)
(* implement AsyncDelivery, and that neither worker nor destructor can be  *)
(* stuck.  What is known of the queue itself is cited from                 *)
(* WaitingQueueProofs.                                                     *)
(***************************************************************************)
EXTENDS AsyncAppender, FiniteSetTheorems, TLAPS

\* The queue of the appender, with what is proved about it.
QP == INSTANCE WaitingQueueProofs

\* An emplace of t has put its value into the queue.
Entered(t) == pc[t] \in {"notify", "unlock", "idle"}

\* What the threads are in the queue for.
Roles ==
  /\ \A p \in Producers : /\ call[p].op \in {"emplace", "size"}
                          /\ call[p].op = "emplace" => call[p].arg \in Events
  /\ IF owner = "alive" THEN call[Owner].op = "size" ELSE call[Owner] = Emplace(Null)
  /\ owner = "destroyed" => worker = "exited" /\ pc[Owner] = "idle"

\* What the worker has taken it has delivered, but for the last value.
Working ==
  /\ worker \in {"pop", "popping", "exited", "terminated"}
  /\ appended \in Seq(Events)
  /\ IF worker = "pop" THEN pc[Worker] = "idle"
     ELSE call[Worker] = Pop /\ calls[Worker] > 0
  /\ IF worker # "pop" /\ pc[Worker] \in {"unlock", "idle"}
     THEN taken = Append(appended, result[Worker]) ELSE taken = appended
  /\ worker \in {"exited", "terminated"} => pc[Worker] = "idle"
  /\ worker = "exited" => result[Worker] = Null
  /\ worker = "terminated" => result[Worker] # Null

NullOnce(s) == \A i, j \in 1..Len(s) : s[i] = Null /\ s[j] = Null => i = j

\* The null pointer enters once, by the hand of the destructor.
Closing ==
  /\ owner \in {"alive", "stopping", "destroyed"}
  /\ Contains(entered, Null) <=> owner # "alive" /\ Entered(Owner)
  /\ NullOnce(entered)

\* What a producer has logged has entered the queue, but for the last event if
\* its append is on the way there; and what the destructor found settled has
\* entered ahead of the null pointer.
Settling ==
  /\ logged \in [Producers -> Seq(Events)]
  /\ \A p \in Producers : \A i \in 1..Len(logged[p]) :
       /\ i < Len(logged[p]) \/ Entered(p) => Contains(entered, logged[p][i])
       /\ i = Len(logged[p]) => call[p] = Emplace(logged[p][i])
  /\ owner = "alive" => settled = {}
  /\ \A e \in settled : \E i \in 1..Len(entered) :
       entered[i] = e /\ \A j \in 1..i : entered[j] # Null

\* What holds of the queue alone, as WaitingQueueProofs shows.
QueueInv == QP!IInv /\ QP!ExactlyOnceInOrder

\* The inductive invariant.
IInv == QueueInv /\ Roles /\ Working /\ Closing /\ Settling

-----------------------------------------------------------------------------
\* The queue is given what it assumes of its constants.
LEMMA QueueConstants == QP!QueueAssumption
  BY AppenderAssumption, FS_CardinalityType DEF MaxCalls, Threads, QP!QueueAssumption

\* The queue's own steps, in one word.
LEMMA SameStep == ASSUME NEW t PROVE Q!Step(t) = QP!Step(t)
  BY DEF QP!Step, Q!Step, QP!Lock, Q!Lock, QP!Unlock, Q!Unlock, QP!EmplaceBack,
         Q!EmplaceBack, QP!NotifyAll, Q!NotifyAll, QP!TakeFront, Q!TakeFront, QP!Wait,
         Q!Wait, QP!ReturnFalse, Q!ReturnFalse, QP!Size, Q!Size, QP!Goto, Q!Goto,
         Q!counters, QP!counters, Q!Pops, QP!Pops, Q!Waits, QP!Waits

\* Every step of the appender is one of the queue or leaves the queue alone.
LEMMA QueueNext == [Next]_vars => [QP!Next]_(QP!vars)
<1> SUFFICES ASSUME [Next]_vars PROVE [QP!Next]_(QP!vars)
  OBVIOUS
<1>1. ASSUME NEW t \in Threads, NEW c \in QP!Calls, Q!Call(t, c) PROVE QP!Next
  BY <1>1 DEF Q!Call, QP!Call, Q!Goto, QP!Goto, QP!Next
<1>2. ASSUME NEW p \in Producers, NEW e \in Events, AppendCall(p, e) PROVE QP!Next
  BY <1>1, <1>2 DEF AppendCall, Emplace, QP!Calls, Values, Threads
<1>3. CASE Destroy
  BY <1>1, <1>3 DEF Destroy, Emplace, QP!Calls, Values, Threads
<1>4. CASE PopCall
  BY <1>1, <1>4 DEF PopCall, Pop, QP!Calls, QP!Pops, Threads
<1>5. ASSUME NEW t \in Threads, QueueStep(t) PROVE QP!Next
  BY <1>5, SameStep
     DEF QueueStep, QP!Next, QP!SpuriousWakeup, Q!SpuriousWakeup, QP!Goto, Q!Goto
<1>6. CASE Join \/ Deliver \/ Throw \/ Exit \/ UNCHANGED vars
  BY <1>6 DEF Join, Deliver, Throw, Exit, vars, queueVars, QP!vars
<1>7. QED BY <1>2, <1>3, <1>4, <1>5, <1>6 DEF Next

\* So the queue stays what its own proofs say of it.
LEMMA QueueInvNext == QueueInv /\ [Next]_vars => QueueInv'
  BY QueueConstants, QueueNext, QP!TypeNext, QP!SyncNext, QP!OrderNext
     DEF QueueInv, QP!IInv

\* The initial states satisfy the invariant.
LEMMA InvInit == Init => IInv
<1> SUFFICES ASSUME Init PROVE IInv
  OBVIOUS
<1>1. QP!Init
  BY DEF Init, Q!Init, QP!Init
<1>2. QueueInv
  BY <1>1, QueueConstants, QP!TypeInit, QP!SyncInit
     DEF QueueInv, QP!IInv, QP!Init, QP!ExactlyOnceInOrder
<1>3. QED
  BY <1>2 DEF Init, Q!Init, IInv, Roles, Working, Closing, Settling, Entered, NullOnce,
              Contains, Threads, Emplace

\* The steps of a thread inside the queue.
QueueSteps(t) ==
  \/ Q!Lock(t) \/ Q!Unlock(t) \/ Q!EmplaceBack(t) \/ Q!NotifyAll(t) \/ Q!TakeFront(t)
  \/ Q!Wait(t) \/ Q!ReturnFalse(t) \/ Q!Size(t) \/ Q!SpuriousWakeup(t)

\* Nobody takes on another role.
LEMMA RolesNext == IInv /\ [Next]_vars => Roles'
<1> SUFFICES ASSUME IInv, [Next]_vars PROVE Roles'
  OBVIOUS
<1> USE AppenderAssumption
    DEF IInv, QueueInv, QP!IInv, QP!TypeOK, Roles, Emplace, Pop, Threads, Values, Q!Goto
<1>1. ASSUME NEW p \in Producers, NEW e \in Events, AppendCall(p, e) PROVE Roles'
  BY <1>1 DEF AppendCall, Q!Call
<1>2. CASE Destroy
  BY <1>2 DEF Destroy, Q!Call, Closing
<1>3. CASE PopCall
  BY <1>3 DEF PopCall, Q!Call
<1>4. CASE Join \/ Deliver \/ Throw \/ Exit \/ UNCHANGED vars
  BY <1>4 DEF Join, Deliver, Throw, Exit, vars, queueVars, appenderVars, Popped
<1>5. ASSUME NEW t \in Threads, QueueStep(t) PROVE Roles'
  <2>1. call' = call /\ owner # "destroyed" /\ owner' = owner
    BY <1>5 DEF QueueStep, Q!Step, Q!Lock, Q!Unlock, Q!EmplaceBack, Q!NotifyAll,
                Q!TakeFront, Q!Wait, Q!ReturnFalse, Q!Size, Q!SpuriousWakeup, appenderVars
  <2>2. QED BY <2>1
<1>6. QED BY <1>1, <1>2, <1>3, <1>4, <1>5 DEF Next

\* The worker is the only one that takes.
LEMMA OnlyWorkerPops ==
  ASSUME Roles, NEW t \in Threads, call[t].op \in Q!Pops PROVE t = Worker
<1>1. CASE t \in Producers
  BY <1>1 DEF Roles, Q!Pops
<1>2. CASE t = Owner
  BY <1>2 DEF Roles, Q!Pops, Emplace
<1>3. QED BY <1>1, <1>2 DEF Threads

\* The worker delivers what it takes, one after the other.
LEMMA WorkingNext == IInv /\ [Next]_vars => Working'
<1> SUFFICES ASSUME IInv, [Next]_vars PROVE Working'
  OBVIOUS
<1> USE AppenderAssumption
    DEF IInv, QueueInv, QP!IInv, QP!TypeOK, Working, Pop, Threads, Values, Q!Goto
<1>1. ASSUME NEW p \in Producers, NEW e \in Events, AppendCall(p, e) PROVE Working'
  BY <1>1 DEF AppendCall, Q!Call
<1>2. CASE Destroy
  BY <1>2 DEF Destroy, Q!Call
<1>3. CASE PopCall
  BY <1>3 DEF PopCall, Q!Call
<1>4. CASE Deliver
  BY <1>4 DEF Deliver, Popped, queueVars, QP!Sync, QP!PopGivesAValue
<1>5. CASE Join \/ Throw \/ Exit \/ UNCHANGED vars
  BY <1>5 DEF Join, Throw, Exit, vars, queueVars, appenderVars, Popped
<1>6. ASSUME NEW t \in Threads, QueueStep(t) PROVE Working'
  <2> USE DEF appenderVars
  <2>0. UNCHANGED appenderVars /\ QueueSteps(t)
    BY <1>6 DEF QueueStep, Q!Step, QueueSteps
  <2>1. CASE Q!TakeFront(t) /\ t = Worker
    <3>1. /\ worker' = worker /\ appended' = appended /\ pc[Worker] = "locked"
          /\ worker = "popping" /\ call' = call /\ calls' = calls
      BY <2>0, <2>1 DEF Q!TakeFront, Q!counters
    <3>2. taken' = Append(appended, Head(m_container)) /\ result'[Worker] = Head(m_container)
      BY <2>1, <3>1 DEF Q!TakeFront
    <3>3. pc'[Worker] = "unlock"
      BY <2>1 DEF Q!TakeFront
    <3>4. QED BY <3>1, <3>2, <3>3
  <2>2. CASE Q!TakeFront(t) /\ t # Worker
    BY <2>2, OnlyWorkerPops DEF Q!TakeFront
  <2>3. CASE Q!NotifyAll(t)
    <3>1. pc[t] = "notify" /\ t # Worker
      BY <2>3 DEF Q!NotifyAll, QP!Sync, QP!NotifierEmplaced
    <3>2. pc'[Worker] = IF pc[Worker] = "blocked" THEN "lock" ELSE pc[Worker]
      BY <2>3, <3>1 DEF Q!NotifyAll, QP!Sync, QP!WaitSet
    <3>3. UNCHANGED <<worker, appended, call, calls, taken, result>>
      BY <2>0, <2>3 DEF Q!NotifyAll, Q!counters
    <3>4. QED BY <3>2, <3>3
  <2>4. CASE Q!Lock(t) \/ Q!Unlock(t) \/ Q!Wait(t) \/ Q!SpuriousWakeup(t)
    BY <2>0, <2>4 DEF Q!Lock, Q!Unlock, Q!Wait, Q!SpuriousWakeup, Q!counters
  <2>5. CASE Q!EmplaceBack(t)
    BY <2>0, <2>5 DEF Q!EmplaceBack, Q!counters
  <2>6. CASE Q!Size(t)
    BY <2>0, <2>6 DEF Q!Size, Q!counters
  <2>7. CASE Q!ReturnFalse(t)
    BY <2>0, <2>7 DEF Q!ReturnFalse, Q!counters, QP!Sync, QP!LateIsInside
  <2>8. QED BY <2>0, <2>1, <2>2, <2>3, <2>4, <2>5, <2>6, <2>7 DEF QueueSteps
<1>7. QED BY <1>1, <1>2, <1>3, <1>4, <1>5, <1>6 DEF Next

-----------------------------------------------------------------------------
\* What a sequence contains when it has grown by one element.
LEMMA AppendContains ==
  ASSUME NEW S, NEW s \in Seq(S), NEW v \in S, NEW x
  PROVE  Contains(Append(s, v), x) <=> Contains(s, x) \/ x = v
<1>1. /\ Append(s, v) \in Seq(S) /\ Len(Append(s, v)) = Len(s) + 1 /\ Len(s) \in Nat
      /\ \A i \in 1..Len(s) : Append(s, v)[i] = s[i]
      /\ Append(s, v)[Len(s) + 1] = v
  OBVIOUS
<1>2. QED BY <1>1 DEF Contains

\* The null pointer stays the only one.
LEMMA AppendNullOnce ==
  ASSUME NEW S, NEW s \in Seq(S), NEW v \in S, NullOnce(s), v # Null \/ ~ Contains(s, Null)
  PROVE  NullOnce(Append(s, v))
<1>1. /\ Append(s, v) \in Seq(S) /\ Len(Append(s, v)) = Len(s) + 1 /\ Len(s) \in Nat
      /\ \A i \in 1..Len(s) : Append(s, v)[i] = s[i]
      /\ Append(s, v)[Len(s) + 1] = v
  OBVIOUS
<1>2. QED BY <1>1 DEF Contains, NullOnce

\* An emplace is one of a producer, with an event, or that of the destructor.
LEMMA Emplacing ==
  ASSUME IInv, NEW t \in Threads, Q!EmplaceBack(t)
  PROVE  \/ t \in Producers /\ call[t].arg \in Events /\ call[t].arg # Null
         \/ t = Owner /\ owner # "alive" /\ call[t].arg = Null /\ ~ Entered(Owner)
<1> USE AppenderAssumption DEF Q!EmplaceBack, Q!Goto, IInv
<1>1. CASE t \in Producers
  BY <1>1 DEF Roles
<1>2. CASE t = Owner
  BY <1>2 DEF Roles, Entered, Emplace
<1>3. CASE t = Worker
  BY <1>3 DEF Working, Pop
<1>4. QED BY <1>1, <1>2, <1>3 DEF Threads

\* Only an emplace_back brings a value of t into the queue; a wait, a look at
\* the size or a pop is nothing t is in the queue for once it emplaces.
LEMMA EnteredStays ==
  ASSUME IInv, NEW t \in Threads, QueueSteps(t), ~ Q!EmplaceBack(t),
         NEW u \in Threads, call[u].op = "emplace"
  PROVE  /\ Entered(u)' <=> Entered(u)
         /\ entered' = entered
<1> USE AppenderAssumption
    DEF Q!Goto, IInv, QueueInv, QP!IInv, QP!TypeOK, QP!Places, Entered
<1>1. CASE Q!TakeFront(t) \/ Q!ReturnFalse(t)
  <2>1. t # u
    BY <1>1 DEF Q!TakeFront, Q!ReturnFalse, Q!Pops
  <2>2. QED BY <1>1, <2>1 DEF Q!TakeFront, Q!ReturnFalse
<1>2. CASE Q!Size(t) \/ Q!Wait(t)
  <2>1. t # u
    BY <1>2 DEF Q!Size, Q!Wait, Q!Waits
  <2>2. QED BY <1>2, <2>1 DEF Q!Size, Q!Wait
<1>3. CASE Q!NotifyAll(t)
  BY <1>3 DEF Q!NotifyAll, QP!Sync, QP!WaitSet
<1>4. CASE Q!Lock(t) \/ Q!Unlock(t) \/ Q!SpuriousWakeup(t)
  BY <1>4 DEF Q!Lock, Q!Unlock, Q!SpuriousWakeup
<1>5. QED BY <1>1, <1>2, <1>3, <1>4 DEF QueueSteps

\* The null pointer enters at most once.
LEMMA ClosingNext == IInv /\ [Next]_vars => Closing'
<1> SUFFICES ASSUME IInv, [Next]_vars PROVE Closing'
  OBVIOUS
<1> USE AppenderAssumption
    DEF IInv, QueueInv, QP!IInv, QP!TypeOK, Threads, Q!Goto
<1>1. ASSUME NEW p \in Producers, NEW e \in Events, AppendCall(p, e) PROVE Closing'
  BY <1>1 DEF AppendCall, Q!Call, Closing, Entered
<1>2. CASE Destroy
  BY <1>2 DEF Destroy, Q!Call, Closing, Entered
<1>3. CASE PopCall
  BY <1>3 DEF PopCall, Q!Call, Closing, Entered
<1>4. CASE Join \/ Deliver \/ Throw \/ Exit \/ UNCHANGED vars
  BY <1>4 DEF Join, Deliver, Throw, Exit, vars, queueVars, appenderVars, Popped, Closing, Entered
<1>5. ASSUME NEW t \in Threads, QueueStep(t) PROVE Closing'
  <2>0. UNCHANGED appenderVars /\ QueueSteps(t)
    BY <1>5 DEF QueueStep, Q!Step, QueueSteps
  <2>1. CASE Q!EmplaceBack(t)
    <3>1. /\ entered' = Append(entered, call[t].arg) /\ call[t].arg \in Values
          /\ pc' = [pc EXCEPT ![t] = "notify"] /\ pc[t] = "locked"
      BY <2>1, Emplacing DEF Q!EmplaceBack, Values
    <3>2. entered \in Seq(Values)
      OBVIOUS
    <3>3. NullOnce(entered')
      BY <2>1, <3>1, <3>2, Emplacing, AppendNullOnce DEF Closing
    <3>4. Contains(entered', Null) <=> Contains(entered, Null) \/ call[t].arg = Null
      BY <3>1, <3>2, AppendContains
    <3>5. QED BY <2>0, <2>1, <3>1, <3>3, <3>4, Emplacing DEF appenderVars, Closing, Entered
  <2>2. CASE ~ Q!EmplaceBack(t)
    <3>1. owner # "alive" => call[Owner].op = "emplace"
      BY DEF Roles, Emplace
    <3>2. entered' = entered
      BY <2>0, <2>2 DEF QueueSteps, Q!Lock, Q!Unlock, Q!NotifyAll, Q!TakeFront, Q!Wait,
                        Q!ReturnFalse, Q!Size, Q!SpuriousWakeup
    <3>3. QED BY <2>0, <2>2, <3>1, <3>2, EnteredStays DEF appenderVars, Closing
  <2>3. QED BY <2>1, <2>2
<1>6. QED BY <1>1, <1>2, <1>3, <1>4, <1>5 DEF Next

\* What is settled when the destructor starts has entered.
LEMMA ReturnedEntered ==
  ASSUME IInv, NEW e \in Returned PROVE Contains(entered, e)
<1>1. PICK p \in Producers : \E i \in DOMAIN logged[p] :
        logged[p][i] = e /\ (i < Len(logged[p]) \/ pc[p] = "idle")
  BY DEF Returned
<1>2. PICK i \in DOMAIN logged[p] :
        logged[p][i] = e /\ (i < Len(logged[p]) \/ pc[p] = "idle")
  BY <1>1
<1>3. i \in 1..Len(logged[p])
  BY <1>1 DEF IInv, Settling
<1>4. QED BY <1>2, <1>3 DEF IInv, Settling, Entered

\* What has settled stays in the queue's history, ahead of the null pointer.
LEMMA SettlingNext == IInv /\ [Next]_vars => Settling'
<1> SUFFICES ASSUME IInv, [Next]_vars PROVE Settling'
  OBVIOUS
<1> USE AppenderAssumption
    DEF IInv, QueueInv, QP!IInv, QP!TypeOK, Threads, Q!Goto
<1>1. ASSUME NEW p \in Producers, NEW e \in Events, AppendCall(p, e) PROVE Settling'
  <2>1. /\ pc[p] = "idle" /\ pc' = [pc EXCEPT ![p] = "lock"]
        /\ call' = [call EXCEPT ![p] = Emplace(e)]
        /\ logged' = [logged EXCEPT ![p] = Append(@, e)]
        /\ UNCHANGED <<entered, settled, owner>>
    BY <1>1 DEF AppendCall, Q!Call
  <2>2. logged' \in [Producers -> Seq(Events)]
    BY <2>1 DEF Settling
  <2>3. ASSUME NEW q \in Producers, NEW i \in 1..Len(logged'[q])
        PROVE  /\ i < Len(logged'[q]) \/ Entered(q)' => Contains(entered, logged'[q][i])
               /\ i = Len(logged'[q]) => call'[q] = Emplace(logged'[q][i])
    <3>1. CASE q # p
      BY <2>1, <2>3, <3>1 DEF Settling, Entered
    <3>2. CASE q = p
      <4>1. /\ logged'[p] = Append(logged[p], e) /\ Len(logged'[p]) = Len(logged[p]) + 1
            /\ \A j \in 1..Len(logged[p]) : logged'[p][j] = logged[p][j]
            /\ logged'[p][Len(logged[p]) + 1] = e /\ Len(logged[p]) \in Nat
        BY <2>1 DEF Settling
      <4>2. ~ Entered(p)' /\ call'[p] = Emplace(e)
        BY <2>1 DEF Entered
      <4>3. \A j \in 1..Len(logged[p]) : Contains(entered, logged[p][j])
        BY <2>1 DEF Settling, Entered
      <4>4. QED BY <2>3, <3>2, <4>1, <4>2, <4>3
    <3>3. QED BY <3>1, <3>2
  <2>4. QED BY <2>1, <2>2, <2>3 DEF Settling
<1>2. CASE Destroy
  <2>1. /\ owner = "alive" /\ owner' = "stopping" /\ settled' = Returned
        /\ UNCHANGED <<entered, logged>>
        /\ pc' = [pc EXCEPT ![Owner] = "lock"]
        /\ call' = [call EXCEPT ![Owner] = Emplace(Null)]
    BY <1>2 DEF Destroy, Q!Call
  <2>2. ~ Contains(entered, Null)
    BY <2>1 DEF Closing
  <2>3. ASSUME NEW e \in settled'
        PROVE  \E i \in 1..Len(entered) : entered[i] = e /\ \A j \in 1..i : entered[j] # Null
    <3>1. PICK i \in 1..Len(entered) : entered[i] = e
      BY <2>1, ReturnedEntered DEF Contains
    <3>2. \A j \in 1..i : j \in 1..Len(entered)
      OBVIOUS
    <3>3. QED BY <2>2, <3>1, <3>2 DEF Contains
  <2>4. \A p \in Producers : call'[p] = call[p] /\ (Entered(p)' <=> Entered(p))
    BY <2>1 DEF Entered
  <2>5. QED BY <2>1, <2>3, <2>4 DEF Settling
<1>3. CASE PopCall
  BY <1>3 DEF PopCall, Q!Call, Settling, Entered
<1>4. CASE Join \/ Deliver \/ Throw \/ Exit \/ UNCHANGED vars
  <2>1. UNCHANGED <<logged, settled, entered, call, pc>>
    BY <1>4 DEF Join, Deliver, Throw, Exit, vars, queueVars, appenderVars
  <2>2. owner' = "alive" => owner = "alive"
    BY <1>4 DEF Join, Deliver, Throw, Exit, vars, appenderVars
  <2>3. QED BY <2>1, <2>2 DEF Settling, Entered
<1>5. ASSUME NEW t \in Threads, QueueStep(t) PROVE Settling'
  <2>0. UNCHANGED <<owner, logged, settled, call>> /\ QueueSteps(t)
    BY <1>5 DEF QueueStep, QueueSteps, appenderVars, Q!Step, Q!Lock, Q!Unlock, Q!EmplaceBack,
                Q!NotifyAll, Q!TakeFront, Q!Wait, Q!ReturnFalse, Q!Size, Q!SpuriousWakeup
  <2>1. CASE Q!EmplaceBack(t)
    <3>1. /\ entered' = Append(entered, call[t].arg) /\ call[t].arg \in Values
          /\ pc' = [pc EXCEPT ![t] = "notify"] /\ pc[t] = "locked"
      BY <2>1, Emplacing DEF Q!EmplaceBack, Values
    <3>2. /\ entered \in Seq(Values) /\ Len(entered') = Len(entered) + 1
          /\ \A i \in 1..Len(entered) : entered'[i] = entered[i]
      BY <3>1
    <3>3. \A x : Contains(entered', x) <=> Contains(entered, x) \/ call[t].arg = x
      BY <3>1, <3>2, AppendContains
    <3>4. ASSUME NEW p \in Producers, NEW i \in 1..Len(logged[p]),
                 i < Len(logged[p]) \/ Entered(p)'
          PROVE  Contains(entered', logged[p][i])
      <4>1. CASE i < Len(logged[p]) \/ Entered(p)
        BY <3>3, <4>1 DEF Settling
      <4>2. CASE ~ (i < Len(logged[p]) \/ Entered(p))
        <5>1. p = t /\ i = Len(logged[p])
          BY <3>1, <3>4, <4>2 DEF Entered, Settling
        <5>2. call[t].arg = logged[p][i]
          BY <5>1 DEF Settling, Emplace
        <5>3. QED BY <3>3, <5>2
      <4>3. QED BY <4>1, <4>2
    <3>5. ASSUME NEW e \in settled
          PROVE  \E i \in 1..Len(entered') : entered'[i] = e /\ \A j \in 1..i : entered'[j] # Null
      <4>1. PICK i \in 1..Len(entered) : entered[i] = e /\ \A j \in 1..i : entered[j] # Null
        BY DEF Settling
      <4>2. i \in 1..Len(entered') /\ \A j \in 1..i : j \in 1..Len(entered)
        BY <3>2
      <4>3. QED BY <3>2, <4>1, <4>2
    <3>6. QED BY <2>0, <3>4, <3>5 DEF Settling
  <2>2. CASE ~ Q!EmplaceBack(t)
    <3>1. entered' = entered
      BY <2>0, <2>2 DEF QueueSteps, Q!Lock, Q!Unlock, Q!NotifyAll, Q!TakeFront, Q!Wait,
                        Q!ReturnFalse, Q!Size, Q!SpuriousWakeup
    <3>2. ASSUME NEW p \in Producers, NEW i \in 1..Len(logged[p])
          PROVE  Entered(p)' <=> Entered(p)
      <4>1. call[p].op = "emplace"
        <5>1. Len(logged[p]) \in 1..Len(logged[p])
          BY DEF Settling
        <5>2. QED BY <5>1 DEF Settling, Emplace
      <4>2. QED BY <2>0, <2>2, <4>1, EnteredStays
    <3>3. QED BY <2>0, <3>1, <3>2 DEF Settling
  <2>3. QED BY <2>1, <2>2
<1>6. QED BY <1>1, <1>2, <1>3, <1>4, <1>5 DEF Next

\* The inductive invariant is one.
LEMMA Invariance == Spec => []IInv
<1>1. IInv /\ [Next]_vars => IInv'
  BY QueueInvNext, RolesNext, WorkingNext, ClosingNext, SettlingNext DEF IInv
<1>2. QED BY <1>1, InvInit, PTL DEF Spec

-----------------------------------------------------------------------------
\* In front of the null pointer: everything if there is none.
LEMMA NothingCut ==
  ASSUME NEW s \in Seq(Values), ~ Contains(s, Null) PROVE BeforeNull(s) = s
  BY DEF BeforeNull

\* In front of the null pointer: what precedes the one there is.
LEMMA CutAt ==
  ASSUME NEW s \in Seq(Values), NEW k \in 1..Len(s), s[k] = Null, NullOnce(s)
  PROVE  BeforeNull(s) = SubSeq(s, 1, k - 1)
<1>1. Contains(s, Null)
  BY DEF Contains
<1>2. {i \in 1..Len(s) : s[i] = Null} = {k}
  BY DEF NullOnce
<1>3. SelectInSeq(s, LAMBDA v : v = Null) = k
  BY <1>2 DEF SelectInSeq, Min
<1>4. QED BY <1>1, <1>3 DEF BeforeNull

\* It is a sequence of values like the whole.
LEMMA CutInValues ==
  ASSUME NEW s \in Seq(Values), NullOnce(s) PROVE BeforeNull(s) \in Seq(Values)
<1>1. CASE ~ Contains(s, Null)
  BY <1>1, NothingCut
<1>2. CASE Contains(s, Null)
  <2>1. PICK k \in 1..Len(s) : s[k] = Null
    BY <1>2 DEF Contains
  <2>2. BeforeNull(s) = SubSeq(s, 1, k - 1)
    BY <2>1, CutAt
  <2>3. SubSeq(s, 1, k - 1) \in Seq(Values)
    OBVIOUS
  <2>4. QED BY <2>2, <2>3
<1>3. QED BY <1>1, <1>2

\* A worker that has left its loop has delivered exactly what entered ahead of
\* the null pointer, and that has everything that was settled.
LEMMA ExitedHasDelivered ==
  ASSUME IInv, worker = "exited"
  PROVE  appended = BeforeNull(entered) /\ \A e \in settled : Contains(appended, e)
<1> USE DEF IInv
<1>1. /\ appended \in Seq(Events) /\ appended \in Seq(Values)
      /\ taken = Append(appended, Null)
  BY DEF Working, Values
<1>2. entered = Append(appended, Null) \o m_container /\ m_container \in Seq(Values)
  BY <1>1 DEF QueueInv, QP!ExactlyOnceInOrder, QP!IInv, QP!TypeOK
<1>3. Null \in Values
  BY DEF Values
<1> DEFINE k == Len(appended) + 1
<1>4. /\ entered \in Seq(Values) /\ k \in 1..Len(entered) /\ entered[k] = Null
      /\ \A i \in 1..(k - 1) : entered[i] = appended[i]
  BY <1>1, <1>2, <1>3
<1>5. SubSeq(entered, 1, k - 1) = appended
  BY <1>1, <1>4
<1>6. appended = BeforeNull(entered)
  BY <1>4, <1>5, CutAt DEF Closing
<1>7. ASSUME NEW e \in settled PROVE Contains(appended, e)
  <2>1. PICK i \in 1..Len(entered) : entered[i] = e /\ \A j \in 1..i : entered[j] # Null
    BY <1>7 DEF Settling
  <2>2. i < k
    BY <1>4, <2>1
  <2>3. QED BY <1>1, <1>4, <2>1, <2>2 DEF Contains
<1>8. QED BY <1>6, <1>7

\* Once the destructor has returned, the wrapped appender has had exactly what
\* entered ahead of the null pointer, and with it everything whose append had
\* returned when the destructor started.
THEOREM DestructionFlushes == Spec => []FlushedAtDestruction
<1>1. ASSUME IInv PROVE FlushedAtDestruction
  BY <1>1, ExitedHasDelivered DEF FlushedAtDestruction, IInv, Roles
<1>2. QED BY <1>1, Invariance, PTL

-----------------------------------------------------------------------------
\* An event that enters ahead of the null pointer comes last in front of it,
\* and one that enters behind it, or the null pointer itself, changes nothing.
LEMMA CutOfAppend ==
  ASSUME NEW s \in Seq(Values), NEW v \in Values, NullOnce(s),
         v = Null => ~ Contains(s, Null)
  PROVE  BeforeNull(Append(s, v)) =
           IF v = Null \/ Contains(s, Null) THEN BeforeNull(s) ELSE Append(s, v)
<1> DEFINE a == Append(s, v)
<1>1. /\ a \in Seq(Values) /\ Len(a) = Len(s) + 1 /\ Len(s) \in Nat
      /\ \A i \in 1..Len(s) : a[i] = s[i]
      /\ a[Len(s) + 1] = v
  OBVIOUS
<1>2. NullOnce(a)
  BY AppendNullOnce
<1>3. CASE v = Null
  <2>1. BeforeNull(a) = SubSeq(a, 1, (Len(s) + 1) - 1)
    <3> HIDE DEF a
    <3>1. Len(s) + 1 \in 1..Len(a) /\ a[Len(s) + 1] = Null
      BY <1>1, <1>3
    <3>2. QED BY ONLY <3>1, <1>1, <1>2, CutAt
  <2>2. SubSeq(a, 1, (Len(s) + 1) - 1) = s
    BY <1>1
  <2>3. QED BY <1>3, <2>1, <2>2, NothingCut
<1>4. CASE v # Null /\ Contains(s, Null)
  <2>1. PICK k \in 1..Len(s) : s[k] = Null
    BY <1>4 DEF Contains
  <2>2. BeforeNull(s) = SubSeq(s, 1, k - 1)
    BY <2>1, CutAt
  <2>3. BeforeNull(a) = SubSeq(a, 1, k - 1)
    <3> HIDE DEF a
    <3>1. k \in 1..Len(a) /\ a[k] = Null
      BY <1>1, <2>1
    <3>2. QED BY ONLY <3>1, <1>1, <1>2, CutAt
  <2>4. SubSeq(a, 1, k - 1) = SubSeq(s, 1, k - 1)
    BY <1>1, <2>1
  <2>5. QED BY <1>4, <2>2, <2>3, <2>4
<1>5. CASE v # Null /\ ~ Contains(s, Null)
  <2>1. ~ Contains(a, Null)
    BY <1>5, AppendContains
  <2>2. QED BY <1>1, <1>5, <2>1, NothingCut
<1>6. QED BY <1>3, <1>4, <1>5

\* The front of a sequence is in front of the null pointer unless it is that.
LEMMA CutOfTail ==
  ASSUME NEW s \in Seq(Values), s # <<>>, NullOnce(s)
  PROVE  BeforeNull(s) = IF Head(s) = Null THEN <<>> ELSE <<Head(s)>> \o BeforeNull(Tail(s))
<1>1. /\ Tail(s) \in Seq(Values) /\ Len(Tail(s)) = Len(s) - 1 /\ Len(s) \in Nat \ {0}
      /\ \A i \in 1..Len(Tail(s)) : Tail(s)[i] = s[i + 1]
      /\ Head(s) = s[1] /\ s = <<Head(s)>> \o Tail(s)
  OBVIOUS
<1>2. CASE Head(s) = Null
  <2>1. BeforeNull(s) = SubSeq(s, 1, 1 - 1)
    BY <1>1, <1>2, CutAt
  <2>2. SubSeq(s, 1, 1 - 1) = <<>>
    OBVIOUS
  <2>3. QED BY <1>2, <2>1, <2>2
<1>3. CASE Head(s) # Null /\ Contains(s, Null)
  <2>1. PICK k \in 1..Len(s) : s[k] = Null
    BY <1>3 DEF Contains
  <2>2. k - 1 \in 1..Len(Tail(s)) /\ Tail(s)[k - 1] = Null
    BY <1>1, <1>3, <2>1
  <2>3. NullOnce(Tail(s))
    <3>1. ASSUME NEW i \in 1..Len(Tail(s)), NEW j \in 1..Len(Tail(s)),
                 Tail(s)[i] = Null, Tail(s)[j] = Null
          PROVE  i = j
      <4>1. i + 1 \in 1..Len(s) /\ j + 1 \in 1..Len(s) /\ s[i + 1] = Null /\ s[j + 1] = Null
        BY <1>1, <3>1
      <4>2. QED BY <4>1 DEF NullOnce
    <3>2. QED BY <3>1 DEF NullOnce
  <2>4. BeforeNull(s) = SubSeq(s, 1, k - 1)
    BY <2>1, CutAt
  <2>5. BeforeNull(Tail(s)) = SubSeq(Tail(s), 1, (k - 1) - 1)
    BY <1>1, <2>2, <2>3, CutAt
  <2>6. SubSeq(s, 1, k - 1) = <<Head(s)>> \o SubSeq(Tail(s), 1, (k - 1) - 1)
    BY <1>1, <2>2
  <2>7. QED BY <1>3, <2>4, <2>5, <2>6
<1>4. CASE ~ Contains(s, Null)
  <2>1. ~ Contains(Tail(s), Null)
    <3>1. ASSUME NEW i \in 1..Len(Tail(s)), Tail(s)[i] = Null PROVE FALSE
      <4>1. i + 1 \in 1..Len(s) /\ s[i + 1] = Null
        BY <1>1, <3>1
      <4>2. QED BY <1>4, <4>1 DEF Contains
    <3>2. QED BY <3>1 DEF Contains
  <2>2. Head(s) # Null
    BY <1>1, <1>4 DEF Contains
  <2>3. QED BY <1>1, <1>4, <2>1, <2>2, NothingCut
<1>5. QED BY <1>2, <1>3, <1>4

\* What is queued in front of the null pointer.
Ahead == IF Contains(taken, Null) THEN <<>> ELSE BeforeNull(m_container)

\* How what entered, what is queued and the backlog belong together.
Balance ==
  /\ m_container \in Seq(Values) /\ taken \in Seq(Values)
  /\ NullOnce(m_container)
  /\ \A x : Contains(entered, x) <=> Contains(taken, x) \/ Contains(m_container, x)
  /\ ~ (Contains(taken, Null) /\ Contains(m_container, Null))
  /\ Backlog = InHand \o Ahead

\* They do in every state of the invariant.
LEMMA WhatIsAhead == IInv => Balance
<1> SUFFICES ASSUME IInv PROVE Balance
  OBVIOUS
<1>1. /\ m_container \in Seq(Values) /\ taken \in Seq(Values)
      /\ entered = taken \o m_container /\ NullOnce(entered)
  BY DEF IInv, QueueInv, QP!IInv, QP!TypeOK, QP!ExactlyOnceInOrder, Closing
<1>2. /\ Len(taken) \in Nat /\ Len(m_container) \in Nat
      /\ Len(entered) = Len(taken) + Len(m_container)
      /\ \A i \in 1..Len(taken) : entered[i] = taken[i]
      /\ \A i \in 1..Len(m_container) : entered[Len(taken) + i] = m_container[i]
  BY <1>1
<1>3. NullOnce(m_container)
  <2>1. ASSUME NEW i \in 1..Len(m_container), NEW j \in 1..Len(m_container),
               m_container[i] = Null, m_container[j] = Null
        PROVE  i = j
    <3>1. /\ Len(taken) + i \in 1..Len(entered) /\ entered[Len(taken) + i] = Null
          /\ Len(taken) + j \in 1..Len(entered) /\ entered[Len(taken) + j] = Null
      BY <1>2, <2>1
    <3>2. Len(taken) + i = Len(taken) + j
      BY <1>1, <3>1 DEF NullOnce
    <3>3. QED BY <1>2, <3>2
  <2>2. QED BY <2>1 DEF NullOnce
<1>4. ASSUME NEW x
      PROVE  Contains(entered, x) <=> Contains(taken, x) \/ Contains(m_container, x)
  <2>1. ASSUME NEW i \in 1..Len(entered), entered[i] = x
        PROVE  Contains(taken, x) \/ Contains(m_container, x)
    <3>1. CASE i \in 1..Len(taken)
      BY <1>2, <2>1, <3>1 DEF Contains
    <3>2. CASE i \notin 1..Len(taken)
      <4>1. i - Len(taken) \in 1..Len(m_container) /\ Len(taken) + (i - Len(taken)) = i
        BY <1>2, <3>2
      <4>2. m_container[i - Len(taken)] = x
        BY <1>2, <2>1, <4>1
      <4>3. QED BY <4>1, <4>2 DEF Contains
    <3>3. QED BY <3>1, <3>2
  <2>2. Contains(taken, x) => Contains(entered, x)
    BY <1>2 DEF Contains
  <2>3. ASSUME NEW i \in 1..Len(m_container), m_container[i] = x PROVE Contains(entered, x)
    <3>1. Len(taken) + i \in 1..Len(entered) /\ entered[Len(taken) + i] = x
      BY <1>2, <2>3
    <3>2. QED BY <3>1 DEF Contains
  <2>4. QED BY <2>1, <2>2, <2>3 DEF Contains
<1>5. ASSUME Contains(taken, Null), Contains(m_container, Null) PROVE FALSE
  <2>1. PICK i \in 1..Len(taken) : taken[i] = Null
    BY <1>5 DEF Contains
  <2>2. PICK j \in 1..Len(m_container) : m_container[j] = Null
    BY <1>5 DEF Contains
  <2>3. i \in 1..Len(entered) /\ Len(taken) + j \in 1..Len(entered)
        /\ entered[i] = Null /\ entered[Len(taken) + j] = Null
    BY <1>2, <2>1, <2>2
  <2>4. i = Len(taken) + j
    BY <1>1, <2>3 DEF NullOnce
  <2>5. QED BY <1>2, <2>4
<1>6. Backlog = InHand \o Ahead
  <2>1. worker = "exited" => Contains(taken, Null)
    <3>1. ASSUME worker = "exited" PROVE Contains(taken, Null)
      <4>1. taken = Append(appended, Null) /\ appended \in Seq(Events)
        BY <3>1 DEF IInv, Working
      <4>2. Len(appended) + 1 \in 1..Len(taken) /\ taken[Len(appended) + 1] = Null
        BY <4>1
      <4>3. QED BY <4>2 DEF Contains
    <3>2. QED BY <3>1
  <2>2. BeforeNull(<<>>) = <<>>
    <3>1. <<>> \in Seq(Values) /\ ~ Contains(<<>>, Null)
      BY DEF Contains
    <3>2. QED BY <3>1, NothingCut
  <2>3. QED BY <2>1, <2>2 DEF Backlog, Ahead
<1>7. QED BY <1>1, <1>3, <1>4, <1>5, <1>6 DEF Balance

\* After a step as before it.
LEMMA WhatIsAheadNext == IInv' => Balance'
  BY WhatIsAhead, PTL

\* The initial states are those of the delivery.
LEMMA DeliveryStarts == Init => Delivery!DeliveryInit
<1> SUFFICES ASSUME Init PROVE Delivery!DeliveryInit
  OBVIOUS
<1>1. BeforeNull(<<>>) = <<>>
  <2>1. <<>> \in Seq(Values) /\ ~ Contains(<<>>, Null)
    BY DEF Contains
  <2>2. QED BY <2>1, NothingCut
<1>2. Contains(<<>>, Null) = FALSE
  BY DEF Contains
<1>3. QED
  BY <1>1, <1>2 DEF Init, Q!Init, Delivery!DeliveryInit, Backlog, InHand, Door

\* A value that enters while the door is open is accepted, the null pointer
\* closes it, and what enters behind that is nobody's.
LEMMA EmplaceDelivers ==
  ASSUME IInv, IInv', NEW t \in Threads, Q!EmplaceBack(t), UNCHANGED appenderVars,
         owner # "destroyed"
  PROVE  [Delivery!DeliveryNext]_(Delivery!deliveryVars)
<1> DEFINE v == call[t].arg
<1>1. /\ m_container' = Append(m_container, v) /\ entered' = Append(entered, v)
      /\ UNCHANGED <<taken, result, worker, owner, appended>>
      /\ v \in Values /\ (v # Null => v \in Events) /\ (v = Null => ~ Contains(entered, Null))
  BY Emplacing DEF Q!EmplaceBack, appenderVars, IInv, Closing, Values
<1> HIDE DEF v
<1>2. InHand' = InHand
  <2>1. t # Worker
    BY Emplacing, AppenderAssumption DEF Threads
  <2>2. pc'[Worker] = pc[Worker]
    BY <2>1 DEF Q!EmplaceBack, Q!Goto, IInv, QueueInv, QP!IInv, QP!TypeOK
  <2>3. QED BY <1>1, <2>2 DEF InHand
<1>3. /\ Contains(entered, Null) <=> Contains(taken, Null) \/ Contains(m_container, Null)
      /\ Contains(entered', Null) <=> Contains(entered, Null) \/ v = Null
  <2>1. entered \in Seq(Values)
    BY DEF IInv, QueueInv, QP!IInv, QP!TypeOK
  <2>2. QED BY <1>1, <2>1, WhatIsAhead, AppendContains DEF Balance
<1>4. /\ Backlog = InHand \o Ahead /\ Backlog' = InHand \o Ahead'
      /\ m_container \in Seq(Values) /\ NullOnce(m_container)
  BY <1>2, WhatIsAhead, WhatIsAheadNext DEF Balance
<1>5. Ahead' = IF Contains(taken, Null) THEN <<>>
               ELSE IF v = Null \/ Contains(m_container, Null)
                    THEN BeforeNull(m_container) ELSE Append(m_container, v)
  <2>1. Ahead' = IF Contains(taken, Null) THEN <<>> ELSE BeforeNull(Append(m_container, v))
    BY <1>1 DEF Ahead
  <2>2. v = Null => ~ Contains(m_container, Null)
    BY <1>1, <1>3
  <2>3. QED BY <1>1, <1>4, <2>1, <2>2, CutOfAppend
<1>6. CASE Contains(entered, Null) \/ v = Null
  <2>1. Ahead' = Ahead
    BY <1>3, <1>5, <1>6 DEF Ahead
  <2>2. Backlog' = Backlog
    BY <1>4, <2>1
  <2>3. CASE Contains(entered, Null)
    BY <1>1, <1>3, <2>2, <2>3 DEF Door, Delivery!deliveryVars
  <2>4. CASE ~ Contains(entered, Null)
    <3>1. Delivery!Close
      BY <1>1, <1>3, <1>6, <2>2, <2>4 DEF Door, Delivery!Close
    <3>2. QED BY <3>1 DEF Delivery!DeliveryNext
  <2>5. QED BY <2>3, <2>4
<1>7. CASE ~ Contains(entered, Null) /\ v # Null
  <2>1. Ahead = m_container /\ Ahead' = Append(m_container, v)
    BY <1>3, <1>4, <1>5, <1>7, NothingCut DEF Ahead
  <2>2. InHand \in Seq(Values)
    BY DEF InHand, IInv, Working, QueueInv, QP!IInv, QP!TypeOK
  <2>3. Backlog' = Append(Backlog, v)
    BY <1>1, <1>4, <2>1, <2>2
  <2>4. Delivery!Accept(v)
    BY <1>1, <1>3, <1>7, <2>3 DEF Door, Delivery!Accept
  <2>5. QED BY <1>1, <1>7, <2>4 DEF Delivery!DeliveryNext
<1>8. QED BY <1>6, <1>7

\* A value that the worker takes stays where it is, in front of the others.
LEMMA TakeDelivers ==
  ASSUME IInv, IInv', NEW t \in Threads, Q!TakeFront(t), UNCHANGED appenderVars
  PROVE  UNCHANGED Delivery!deliveryVars
<1>1. t = Worker
  BY OnlyWorkerPops DEF Q!TakeFront, IInv
<1>2. /\ pc[Worker] = "locked" /\ pc'[Worker] = "unlock" /\ m_container # <<>>
      /\ result'[Worker] = Head(m_container)
      /\ m_container' = Tail(m_container) /\ taken' = Append(taken, Head(m_container))
      /\ UNCHANGED <<entered, worker, owner, appended>>
  BY <1>1 DEF Q!TakeFront, Q!Goto, appenderVars, IInv, QueueInv, QP!IInv, QP!TypeOK, Threads
<1>3. worker = "popping" /\ taken = appended /\ appended \in Seq(Events)
  BY <1>2 DEF IInv, Working
<1>4. ~ Contains(taken, Null)
  BY <1>3, AppenderAssumption DEF Contains
<1>5. Contains(taken', Null) <=> Head(m_container) = Null
  <2>1. taken \in Seq(Values) /\ Head(m_container) \in Values
    BY <1>2, WhatIsAhead DEF Balance
  <2>2. QED BY <1>2, <1>4, <2>1, AppendContains
<1>6. BeforeNull(m_container) = IF Head(m_container) = Null THEN <<>>
                                ELSE <<Head(m_container)>> \o BeforeNull(Tail(m_container))
  BY <1>2, WhatIsAhead, CutOfTail DEF Balance
<1>7. InHand = <<>> /\ InHand' = IF Head(m_container) = Null THEN <<>> ELSE <<Head(m_container)>>
  BY <1>2, <1>3 DEF InHand
<1>8. /\ Ahead = BeforeNull(m_container)
      /\ Ahead' = IF Head(m_container) = Null THEN <<>> ELSE BeforeNull(Tail(m_container))
  BY <1>2, <1>4, <1>5 DEF Ahead
<1>9. Backlog' = Backlog
  <2>1. Backlog = InHand \o Ahead /\ Backlog' = InHand' \o Ahead'
    BY WhatIsAhead, WhatIsAheadNext DEF Balance
  <2>2. CASE Head(m_container) = Null
    BY <1>6, <1>7, <1>8, <2>1, <2>2
  <2>3. CASE Head(m_container) # Null
    <3>1. BeforeNull(m_container) \in Seq(Values)
      BY WhatIsAhead, CutInValues DEF Balance
    <3>2. Backlog = BeforeNull(m_container)
      BY <1>7, <1>8, <2>1, <3>1
    <3>3. QED BY <1>6, <1>7, <1>8, <2>1, <2>3, <3>2
  <2>4. QED BY <2>2, <2>3
<1>10. QED BY <1>2, <1>9 DEF Delivery!deliveryVars, Door

\* The worker passes on what is first in the backlog.
LEMMA DeliverDelivers ==
  ASSUME IInv, IInv', Deliver PROVE Delivery!Deliver
<1>1. /\ worker = "popping" /\ pc[Worker] = "idle" /\ result[Worker] # Null
      /\ appended' = Append(appended, result[Worker]) /\ worker' = "pop"
      /\ UNCHANGED <<m_container, taken, entered, pc, result, owner>>
  BY DEF Deliver, Popped, queueVars
<1>2. InHand = <<result[Worker]>> /\ InHand' = <<>>
  BY <1>1 DEF InHand
<1>3. Ahead' = Ahead /\ Ahead \in Seq(Values)
  <2>1. Ahead' = Ahead
    BY <1>1 DEF Ahead
  <2>2. Ahead \in Seq(Values)
    BY WhatIsAhead, CutInValues DEF Ahead, Balance
  <2>3. QED BY <2>1, <2>2
<1>4. Backlog = <<result[Worker]>> \o Ahead /\ Backlog' = Ahead
  BY <1>2, <1>3, WhatIsAhead, WhatIsAheadNext DEF Balance
<1>5. Backlog # <<>> /\ Head(Backlog) = result[Worker] /\ Tail(Backlog) = Ahead
  <2>1. result[Worker] \in Values
    BY <1>1 DEF IInv, QueueInv, QP!IInv, QP!Sync, QP!PopGivesAValue, Working, Pop, Threads
  <2>2. QED BY <1>3, <1>4, <2>1
<1>6. owner # "destroyed"
  BY <1>1 DEF IInv, Roles
<1>7. QED BY <1>1, <1>4, <1>5, <1>6 DEF Delivery!Deliver, Door

\* The destructor returns when nothing is left.
LEMMA JoinDelivers ==
  ASSUME IInv, IInv', Join PROVE Delivery!Finish
<1>1. /\ owner = "stopping" /\ owner' = "destroyed" /\ pc[Owner] = "idle" /\ worker = "exited"
      /\ UNCHANGED <<m_container, taken, entered, pc, result, worker, appended>>
  BY DEF Join, queueVars
<1>2. Contains(entered, Null)
  BY <1>1 DEF IInv, Closing, Entered
<1>3. Backlog = <<>> /\ Backlog' = <<>>
  <2>1. BeforeNull(<<>>) = <<>>
    <3>1. <<>> \in Seq(Values) /\ ~ Contains(<<>>, Null)
      BY DEF Contains
    <3>2. QED BY <3>1, NothingCut
  <2>2. QED BY <1>1, <2>1 DEF Backlog, InHand
<1>4. QED BY <1>1, <1>2, <1>3 DEF Delivery!Finish, Door

\* The other steps change nothing that the delivery shows.
LEMMA OthersDeliverNothing ==
  ASSUME UNCHANGED <<m_container, taken, entered, appended>>,
         UNCHANGED InHand, UNCHANGED Door, worker = "exited" <=> worker' = "exited"
  PROVE  UNCHANGED Delivery!deliveryVars
<1>1. Backlog' = Backlog
  BY DEF Backlog
<1>2. QED BY <1>1 DEF Delivery!deliveryVars

\* A step of the appender is a step of the delivery, or invisible to it.
LEMMA DeliveryGoesOn ==
  IInv /\ IInv' /\ [Next]_vars => [Delivery!DeliveryNext]_(Delivery!deliveryVars)
<1> SUFFICES ASSUME IInv, IInv', [Next]_vars
             PROVE  [Delivery!DeliveryNext]_(Delivery!deliveryVars)
  OBVIOUS
<1> USE AppenderAssumption
    DEF IInv, QueueInv, QP!IInv, QP!TypeOK, Threads, Q!Goto
<1>1. ASSUME NEW p \in Producers, NEW e \in Events, AppendCall(p, e)
      PROVE  UNCHANGED Delivery!deliveryVars
  <2>1. /\ UNCHANGED <<m_container, taken, entered, appended, worker, owner>>
        /\ pc'[Worker] = pc[Worker] /\ result'[Worker] = result[Worker]
    BY <1>1 DEF AppendCall, Q!Call
  <2>2. QED BY <2>1, OthersDeliverNothing DEF InHand, Door
<1>2. CASE Destroy
  <2>1. /\ UNCHANGED <<m_container, taken, entered, appended, worker>>
        /\ pc'[Worker] = pc[Worker] /\ result'[Worker] = result[Worker]
        /\ owner = "alive" /\ owner' = "stopping"
    BY <1>2 DEF Destroy, Q!Call
  <2>2. QED BY <2>1, OthersDeliverNothing DEF InHand, Door
<1>3. CASE PopCall
  <2>1. /\ UNCHANGED <<m_container, taken, entered, appended, owner>>
        /\ worker = "pop" /\ worker' = "popping" /\ pc'[Worker] = "lock"
    BY <1>3 DEF PopCall, Q!Call
  <2>2. QED BY <2>1, OthersDeliverNothing DEF InHand, Door
<1>4. CASE Throw \/ Exit
  <2>1. /\ UNCHANGED <<m_container, taken, entered, appended, owner, pc, result>>
        /\ worker = "popping" /\ pc[Worker] = "idle"
        /\ \/ worker' = "terminated" /\ result[Worker] # Null
           \/ worker' = "exited" /\ result[Worker] = Null
    BY <1>4 DEF Throw, Exit, Popped, queueVars
  <2>2. UNCHANGED InHand /\ UNCHANGED Door
    BY <2>1 DEF InHand, Door
  <2>3. CASE worker' = "terminated"
    BY <2>1, <2>2, <2>3, OthersDeliverNothing
  <2>4. CASE worker' = "exited"
    <3>1. Ahead' = Ahead
      BY <2>1 DEF Ahead
    <3>2. Backlog' = Backlog
      BY <2>2, <3>1, WhatIsAhead, WhatIsAheadNext DEF Balance
    <3>3. QED BY <2>1, <2>2, <3>2 DEF Delivery!deliveryVars
  <2>5. QED BY <2>1, <2>3, <2>4
<1>5. CASE UNCHANGED vars
  <2>1. UNCHANGED <<m_container, taken, entered, appended, worker, owner, pc, result>>
    BY <1>5 DEF vars, queueVars, appenderVars
  <2>2. QED BY <2>1, OthersDeliverNothing DEF InHand, Door
<1>6. ASSUME NEW t \in Threads, QueueStep(t)
      PROVE  [Delivery!DeliveryNext]_(Delivery!deliveryVars)
  <2>0. UNCHANGED appenderVars /\ QueueSteps(t) /\ owner # "destroyed"
    BY <1>6 DEF QueueStep, Q!Step, QueueSteps
  <2>1. CASE Q!EmplaceBack(t)
    BY <2>0, <2>1, EmplaceDelivers
  <2>2. CASE Q!TakeFront(t)
    BY <2>0, <2>2, TakeDelivers
  <2>3. CASE ~ Q!EmplaceBack(t) /\ ~ Q!TakeFront(t)
    <3>1. UNCHANGED <<m_container, taken, entered, appended, worker, owner>>
      BY <2>0, <2>3 DEF QueueSteps, Q!Lock, Q!Unlock, Q!NotifyAll, Q!Wait, Q!ReturnFalse,
                        Q!Size, Q!SpuriousWakeup, appenderVars
    <3>2. CASE worker \in {"popping", "terminated"}
      <4>1. call[Worker].op = "pop" /\ (worker = "terminated" => pc[Worker] = "idle")
        <5> USE ONLY <3>2, IInv DEF IInv, Working
        <5>1. call[Worker] = Pop
          OBVIOUS
        <5>2. worker = "terminated" => pc[Worker] = "idle"
          OBVIOUS
        <5>3. QED BY ONLY <5>1, <5>2 DEF Pop
      <4>2. pc[Worker] # "notify" /\ Worker \notin expired
        BY <4>1 DEF QP!Sync, QP!NotifierEmplaced, QP!LateIsInside
      <4>3. /\ pc'[Worker] \in {"unlock", "idle"} <=> pc[Worker] \in {"unlock", "idle"}
            /\ result'[Worker] = result[Worker]
        <5>1. CASE Q!NotifyAll(t)
          BY <4>2, <5>1 DEF Q!NotifyAll, QP!Sync, QP!WaitSet
        <5>2. CASE Q!Size(t) \/ Q!ReturnFalse(t)
          BY <4>1, <4>2, <5>2 DEF Q!Size, Q!ReturnFalse
        <5>3. CASE Q!Lock(t) \/ Q!Unlock(t) \/ Q!Wait(t) \/ Q!SpuriousWakeup(t)
          BY <5>3 DEF Q!Lock, Q!Unlock, Q!Wait, Q!SpuriousWakeup
        <5>4. QED BY <2>0, <2>3, <5>1, <5>2, <5>3 DEF QueueSteps
      <4>4. QED BY <3>1, <4>3, OthersDeliverNothing DEF InHand, Door
    <3>3. CASE worker \notin {"popping", "terminated"}
      BY <3>1, <3>3, OthersDeliverNothing DEF InHand, Door
    <3>4. QED BY <3>2, <3>3
  <2>4. QED BY <2>1, <2>2, <2>3
<1>7. CASE Deliver
  BY <1>7, DeliverDelivers DEF Delivery!DeliveryNext
<1>8. CASE Join
  BY <1>8, JoinDelivers DEF Delivery!DeliveryNext
<1>9. QED
  BY <1>1, <1>2, <1>3, <1>4, <1>5, <1>6, <1>7, <1>8 DEF Next

\* The queue of WaitingQueue, the worker and the null pointer together are the
\* delivery that AsyncDelivery promises: the hand-over from thread to thread
\* loses, repeats and reorders nothing, and the destructor returns only when
\* everything accepted has been delivered.
THEOREM Implements == Spec => ImplementsDelivery
<1>1. Spec => Init /\ [][Next]_vars /\ []IInv
  BY Invariance, PTL DEF Spec
<1>2. QED
  BY <1>1, DeliveryStarts, DeliveryGoesOn, PTL DEF ImplementsDelivery, Delivery!DeliverySpec
-----------------------------------------------------------------------------
\* Nobody has anything to do: the worker neither is about to pop nor has a
\* value in its hand, and no thread can go on inside the queue, if there is one.
Quiet ==
  /\ worker # "pop" /\ ~ Popped
  /\ owner # "destroyed" => \A t \in Threads : ~ QP!Ready(t)

\* When nobody has anything to do, everything that entered ahead of the null
\* pointer has been delivered, and a destructor that has begun can join.
NothingLeft ==
  Quiet /\ worker # "terminated" =>
    /\ appended = BeforeNull(entered)
    /\ owner = "stopping" => worker = "exited" /\ pc[Owner] = "idle"

\* The worker, if it sleeps, has delivered all there is.
LEMMA AsleepHasDelivered ==
  ASSUME IInv, Quiet, worker \notin {"terminated", "exited"}
  PROVE  /\ owner = "alive"
         /\ entered = appended /\ ~ Contains(entered, Null)
<1> USE AppenderAssumption DEF IInv
<1>1. worker = "popping" /\ pc[Worker] # "idle" /\ owner # "destroyed"
  BY DEF Quiet, Popped, Working, Roles
<1>2. QP!OnlySleep /\ \A t \in Threads : ~ QP!Ready(t)
  BY <1>1, QP!RestIsSleep, QueueConstants DEF Quiet, QueueInv
<1>3. pc[Worker] = "blocked" /\ m_container = <<>>
  BY <1>1, <1>2 DEF QP!OnlySleep, Threads
<1>4. taken = appended /\ appended \in Seq(Events)
  BY <1>1, <1>3 DEF Working
<1>5. entered = appended
  BY <1>3, <1>4 DEF QueueInv, QP!ExactlyOnceInOrder
<1>6. ~ Contains(entered, Null)
  BY <1>4, <1>5 DEF Contains
<1>7. owner = "alive"
  <2>1. SUFFICES ASSUME owner = "stopping" PROVE FALSE
    BY <1>1 DEF Closing
  <2>2. call[Owner].op \notin QP!Waits
    BY <2>1 DEF Roles, Emplace, QP!Waits
  <2>3. pc[Owner] = "idle"
    BY <1>2, <2>2 DEF QP!OnlySleep, Threads
  <2>4. QED BY <1>6, <2>1, <2>3 DEF Closing, Entered
<1>8. QED BY <1>5, <1>6, <1>7

\* At rest nothing is left lying and the destructor has what it waits for.
LEMMA RestIsDelivered == IInv => NothingLeft
<1> SUFFICES ASSUME IInv, Quiet, worker # "terminated"
             PROVE  /\ appended = BeforeNull(entered)
                    /\ owner = "stopping" => worker = "exited" /\ pc[Owner] = "idle"
  BY DEF NothingLeft
<1>1. CASE worker # "exited"
  <2>1. owner = "alive" /\ entered = appended /\ ~ Contains(entered, Null)
    BY <1>1, AsleepHasDelivered
  <2>2. entered \in Seq(Values)
    BY DEF IInv, QueueInv, QP!IInv, QP!TypeOK
  <2>3. QED BY <2>1, <2>2, NothingCut
<1>2. CASE worker = "exited"
  <2>1. appended = BeforeNull(entered)
    BY <1>2, ExitedHasDelivered
  <2>2. ASSUME owner = "stopping" PROVE pc[Owner] = "idle"
    <3>1. QP!OnlySleep /\ \A t \in Threads : ~ QP!Ready(t)
      BY <2>2, QP!RestIsSleep, QueueConstants DEF Quiet, IInv, QueueInv
    <3>2. call[Owner].op \notin QP!Waits
      BY <2>2 DEF IInv, Roles, Emplace, QP!Waits
    <3>3. QED BY <3>1, <3>2 DEF QP!OnlySleep, Threads
  <2>3. QED BY <1>2, <2>1, <2>2
<1>3. QED BY <1>1, <1>2

\* Neither the worker nor the destructor can be stuck: when nobody can go on,
\* every event that was accepted has been delivered, and the join of a
\* destructor that has begun finds the worker gone.
THEOREM NeverStuck == Spec => []NothingLeft
  BY Invariance, RestIsDelivered, PTL
=============================================================================

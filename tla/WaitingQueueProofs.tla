------------------------- MODULE WaitingQueueProofs -------------------------
(***************************************************************************)
(* Proofs about WaitingQueue for any threads, values and bounds: the type  *)
(* invariant, mutual exclusion through the waits, no lost wake-up, exactly *)
(* once and in order, that the queue implements BlockingFifo, and what can *)
(* keep all threads from going on.                                         *)
(***************************************************************************)
EXTENDS WaitingQueue, TLAPS

\* The steps of one thread, as a list to split a proof on.
ThreadStep(t) ==
  \/ \E c \in Calls : Call(t, c)
  \/ Step(t) \/ Timeout(t) \/ SpuriousWakeup(t)

\* The set on which notify_all works is the set of the sleepers.
WaitSet == \A t \in Threads : t \in m_condition <=> pc[t] = "blocked"

\* Only an emplace notifies, so a pop that is about to return was not one.
NotifierEmplaced == \A t \in Threads : pc[t] = "notify" => call[t].op = "emplace"

\* Only a timed pop that is going for the mutex, or has it, is past its time.
LateIsInside ==
  \A t \in expired : call[t].op = "pop_for" /\ pc[t] \in {"lock", "locked"}

\* Only a pop that waits falls asleep.
SleeperWaits == \A t \in Threads : pc[t] = "blocked" => call[t].op \in Waits

\* What holds besides the types.
Sync ==
  /\ MutualExclusion /\ WaitSet /\ NoLostWakeup /\ SleeperWaits
  /\ LateIsInside /\ NotifierEmplaced /\ PopGivesAValue

\* The inductive invariant.
IInv == TypeOK /\ Sync

\* Whatever the threads do, every variable keeps its type.
LEMMA TypeInit == Init => TypeOK
  BY QueueAssumption DEF Init, TypeOK, Calls, Pops, Places

\* Every step of the queue keeps the types.
LEMMA TypeNext == TypeOK /\ [Next]_vars => TypeOK'
<1> SUFFICES ASSUME TypeOK, [Next]_vars PROVE TypeOK'
  OBVIOUS
<1> USE QueueAssumption DEF TypeOK, Goto, Places, counters
<1>1. ASSUME NEW t \in Threads, NEW c \in Calls, Call(t, c) PROVE TypeOK'
  <2>1. calls'[t] \in 0..MaxCalls
    BY <1>1 DEF Call
  <2>2. QED BY <1>1, <2>1 DEF Call
<1>2. ASSUME NEW t \in Threads, Lock(t) PROVE TypeOK'
  BY <1>2 DEF Lock
<1>3. ASSUME NEW t \in Threads, Unlock(t) PROVE TypeOK'
  BY <1>3 DEF Unlock
<1>4. ASSUME NEW t \in Threads, EmplaceBack(t) PROVE TypeOK'
  <2>1. call[t].arg \in Values
    BY <1>4 DEF EmplaceBack, Calls, Pops
  <2>2. QED BY <1>4, <2>1 DEF EmplaceBack
<1>5. ASSUME NEW t \in Threads, NotifyAll(t) PROVE TypeOK'
  BY <1>5 DEF NotifyAll
<1>6. ASSUME NEW t \in Threads, TakeFront(t) PROVE TypeOK'
  <2>1. /\ Head(m_container) \in Values
        /\ Tail(m_container) \in Seq(Values)
    BY <1>6 DEF TakeFront
  <2>2. QED BY <1>6, <2>1 DEF TakeFront
<1>7. ASSUME NEW t \in Threads, Wait(t) PROVE TypeOK'
  BY <1>7 DEF Wait
<1>8. ASSUME NEW t \in Threads, ReturnFalse(t) PROVE TypeOK'
  BY <1>8 DEF ReturnFalse
<1>9. ASSUME NEW t \in Threads, Size(t) PROVE TypeOK'
  <2>1. Len(m_container) \in Nat
    OBVIOUS
  <2>2. QED BY <1>9, <2>1 DEF Size
<1>10. ASSUME NEW t \in Threads, Timeout(t) PROVE TypeOK'
  BY <1>10 DEF Timeout
<1>11. ASSUME NEW t \in Threads, SpuriousWakeup(t) PROVE TypeOK'
  BY <1>11 DEF SpuriousWakeup
<1>12. CASE UNCHANGED vars
  BY <1>12 DEF vars
<1>13. QED
  BY <1>1, <1>2, <1>3, <1>4, <1>5, <1>6, <1>7, <1>8, <1>9, <1>10, <1>11, <1>12
     DEF Next, Step

\* Type correctness of the waiting queue, for any number of threads and calls.
THEOREM TypeCorrect == Spec => []TypeOK
  BY TypeInit, TypeNext, PTL DEF Spec

-----------------------------------------------------------------------------
\* The parts of the invariant other than the types hold at the start.
LEMMA SyncInit == Init => Sync
  BY QueueAssumption
  DEF Init, Sync, MutualExclusion, WaitSet, NoLostWakeup, LateIsInside,
      NotifierEmplaced, SleeperWaits, PopGivesAValue, Inside

\* Each step of a thread keeps the mutex, the wait set and the queue in step.
LEMMA SyncNext == IInv /\ [Next]_vars => Sync'
<1> SUFFICES ASSUME IInv, [Next]_vars
             PROVE  Sync'
  OBVIOUS
<1> USE QueueAssumption
    DEF IInv, TypeOK, Sync, MutualExclusion, WaitSet, NoLostWakeup, LateIsInside,
        NotifierEmplaced, SleeperWaits, PopGivesAValue, Goto, Inside, Places, counters
<1>1. ASSUME NEW t \in Threads, NEW c \in Calls, Call(t, c) PROVE Sync'
  BY <1>1 DEF Call
<1>2. ASSUME NEW t \in Threads, Lock(t) PROVE Sync'
  BY <1>2 DEF Lock
<1>3. ASSUME NEW t \in Threads, Unlock(t) PROVE Sync'
  BY <1>3 DEF Unlock
<1>4. ASSUME NEW t \in Threads, EmplaceBack(t) PROVE Sync'
  BY <1>4 DEF EmplaceBack
<1>5. ASSUME NEW t \in Threads, NotifyAll(t) PROVE Sync'
  BY <1>5 DEF NotifyAll
<1>6. ASSUME NEW t \in Threads, TakeFront(t) PROVE Sync'
  BY <1>6 DEF TakeFront
<1>7. ASSUME NEW t \in Threads, Wait(t) PROVE Sync'
  BY <1>7 DEF Wait
<1>8. ASSUME NEW t \in Threads, ReturnFalse(t) PROVE Sync'
  BY <1>8 DEF ReturnFalse
<1>9. ASSUME NEW t \in Threads, Size(t) PROVE Sync'
  BY <1>9 DEF Size
<1>10. ASSUME NEW t \in Threads, Timeout(t) PROVE Sync'
  BY <1>10 DEF Timeout
<1>11. ASSUME NEW t \in Threads, SpuriousWakeup(t) PROVE Sync'
  BY <1>11 DEF SpuriousWakeup
<1>12. CASE UNCHANGED vars
  BY <1>12 DEF vars
<1>13. QED
  BY <1>1, <1>2, <1>3, <1>4, <1>5, <1>6, <1>7, <1>8, <1>9, <1>10, <1>11, <1>12
     DEF Next, Step

\* The inductive invariant is one.
LEMMA Invariance == Spec => []IInv
<1>1. Init => IInv
  BY TypeInit, SyncInit DEF IInv
<1>2. IInv /\ [Next]_vars => IInv'
  BY TypeNext, SyncNext DEF IInv
<1>3. QED BY <1>1, <1>2, PTL DEF Spec

\* A thread is in a critical section exactly while it holds the mutex, so no
\* two threads ever touch m_container together.
THEOREM MutexSafe == Spec => []MutualExclusion
  BY Invariance, PTL DEF IInv, Sync

\* No popper sleeps beside an element once the emplace has notified.
THEOREM WakeupSafe == Spec => []NoLostWakeup
  BY Invariance, PTL DEF IInv, Sync

-----------------------------------------------------------------------------
\* Emplacing extends the history and the queue alike.
LEMMA AppendRight ==
  ASSUME NEW S, NEW p \in Seq(S), NEW q \in Seq(S), NEW x \in S
  PROVE  p \o Append(q, x) = Append(p \o q, x)
  OBVIOUS

\* Moving the front from the queue to the end of what was taken changes nothing.
LEMMA ShiftFront ==
  ASSUME NEW S, NEW p \in Seq(S), NEW q \in Seq(S), q # <<>>
  PROVE  Append(p, Head(q)) \o Tail(q) = p \o q
  OBVIOUS

\* Every step keeps the balance between what entered, what is queued and what
\* was taken.
LEMMA OrderNext == TypeOK /\ ExactlyOnceInOrder /\ [Next]_vars => ExactlyOnceInOrder'
<1> SUFFICES ASSUME TypeOK, ExactlyOnceInOrder, [Next]_vars
             PROVE  ExactlyOnceInOrder'
  OBVIOUS
<1> USE DEF ExactlyOnceInOrder
<1>1. ASSUME NEW t \in Threads, EmplaceBack(t) PROVE ExactlyOnceInOrder'
  <2>1. call[t].arg \in Values
    BY <1>1 DEF EmplaceBack, TypeOK, Calls, Pops
  <2>2. taken \o Append(m_container, call[t].arg) = Append(taken \o m_container, call[t].arg)
    BY <2>1, AppendRight DEF TypeOK
  <2>3. QED BY <1>1, <2>2 DEF EmplaceBack
<1>2. ASSUME NEW t \in Threads, TakeFront(t) PROVE ExactlyOnceInOrder'
  <2>1. Append(taken, Head(m_container)) \o Tail(m_container) = taken \o m_container
    BY <1>2, ShiftFront DEF TakeFront, TypeOK
  <2>2. QED BY <1>2, <2>1 DEF TakeFront
<1>3. CASE UNCHANGED <<m_container, entered, taken>>
  BY <1>3
<1>4. ASSUME NEW t \in Threads, ThreadStep(t), ~ EmplaceBack(t), ~ TakeFront(t)
      PROVE  UNCHANGED <<m_container, entered, taken>>
  BY <1>4 DEF ThreadStep, Step, Call, Lock, Unlock, NotifyAll, Wait, ReturnFalse,
              Size, Timeout, SpuriousWakeup
<1>5. QED
  BY <1>1, <1>2, <1>3, <1>4 DEF Next, ThreadStep, vars

\* Every element that enters leaves once, in order: the queue loses, repeats
\* and reorders nothing, with any number of producers and poppers.
THEOREM OrderSafe == Spec => []ExactlyOnceInOrder
<1>1. Init => ExactlyOnceInOrder
  BY DEF Init, ExactlyOnceInOrder
<1>2. QED BY <1>1, OrderNext, TypeCorrect, PTL DEF Spec

-----------------------------------------------------------------------------
\* The initial states of the queue are those of the atomic queue.
LEMMA LinearizableInit == Init => Fifo!FifoInit
  BY DEF Init, Fifo!FifoInit, Phase

\* A step of the queue acts once on the atomic queue, or not at all.
LEMMA LinearizableNext == IInv /\ [Next]_vars => [Fifo!FifoNext]_(Fifo!fifoVars)
<1> SUFFICES ASSUME IInv, [Next]_vars PROVE [Fifo!FifoNext]_(Fifo!fifoVars)
  OBVIOUS
<1> USE DEF IInv, Sync, TypeOK, Goto, Places
<1>0. Calls = Fifo!Requests
  BY DEF Calls, Fifo!Requests, Pops
<1>1. ASSUME NEW t \in Threads, NEW c \in Calls, Call(t, c)
      PROVE  Fifo!Invoke(t, c)
  BY <1>1 DEF Call, Fifo!Invoke, Phase
<1>2. ASSUME NEW t \in Threads, Unlock(t) PROVE Fifo!Return(t)
  BY <1>2 DEF Unlock, Fifo!Return, Phase
<1>3. ASSUME NEW t \in Threads, EmplaceBack(t) PROVE Fifo!Put(t)
  BY <1>3 DEF EmplaceBack, Fifo!Put, Fifo!Act, Phase
<1>4. ASSUME NEW t \in Threads, TakeFront(t) PROVE Fifo!Take(t)
  BY <1>4 DEF TakeFront, Fifo!Take, Fifo!Act, Phase, Pops
<1>5. ASSUME NEW t \in Threads, ReturnFalse(t) PROVE Fifo!Miss(t)
  BY <1>5 DEF ReturnFalse, Fifo!Miss, Fifo!Act, Phase, LateIsInside
<1>6. ASSUME NEW t \in Threads, Size(t) PROVE Fifo!Measure(t)
  BY <1>6 DEF Size, Fifo!Measure, Fifo!Act, Phase
<1>7. ASSUME NEW t \in Threads, Lock(t) \/ Wait(t) \/ Timeout(t) \/ SpuriousWakeup(t)
      PROVE  UNCHANGED Fifo!fifoVars
  <2>1. Phase' = Phase
    BY <1>7 DEF Lock, Wait, Timeout, SpuriousWakeup, Phase
  <2>2. QED BY <1>7, <2>1 DEF Lock, Wait, Timeout, SpuriousWakeup, Fifo!fifoVars
<1>8. ASSUME NEW t \in Threads, NotifyAll(t) PROVE UNCHANGED Fifo!fifoVars
  <2>1. ASSUME NEW u \in Threads PROVE Phase'[u] = Phase[u]
    BY <1>8, <2>1 DEF NotifyAll, Phase, WaitSet
  <2>2. Phase' = Phase
    BY <2>1 DEF Phase
  <2>3. QED BY <1>8, <2>2 DEF NotifyAll, Fifo!fifoVars
<1>9. CASE UNCHANGED vars
  BY <1>9 DEF vars, Fifo!fifoVars, Phase
<1>10. QED
  BY <1>0, <1>1, <1>2, <1>3, <1>4, <1>5, <1>6, <1>7, <1>8, <1>9
     DEF Next, Step, Fifo!FifoNext

\* The waiting queue implements the atomic blocking queue: mutex, waits,
\* timeouts and spurious wake-ups are invisible to its callers.
THEOREM Implements == Spec => Linearizable
<1>1. Spec => Init /\ [][Next]_vars /\ []IInv
  BY Invariance, PTL DEF Spec
<1>2. QED
  BY <1>1, LinearizableInit, LinearizableNext, PTL DEF Linearizable, Fifo!FifoSpec

\* pop() never comes back without a value.
THEOREM PopSafe == Spec => []PopGivesAValue
  BY Invariance, PTL DEF IInv, Sync

-----------------------------------------------------------------------------
\* The guards of Step(t): t can go on by itself.
Ready(t) ==
  \/ pc[t] = "lock" /\ m_mutex = NoThread
  \/ pc[t] \in {"notify", "unlock"}
  \/ /\ pc[t] = "locked"
     /\ \/ call[t].op \in {"emplace", "size"}
        \/ call[t].op \in Pops /\ m_container # <<>>
        \/ call[t].op \in Waits /\ m_container = <<>> /\ t \notin expired
        \/ call[t].op = "try_pop" /\ m_container = <<>>
        \/ call[t].op \in Pops /\ t \in expired /\ m_container = <<>>

\* Nobody can go on: then nobody is about to lock either, whoever sleeps is
\* inside a wait, and there is nothing for it to wake up for.
OnlySleep ==
  (\A t \in Threads : ~ Ready(t)) =>
    /\ m_mutex = NoThread
    /\ \A t \in Threads :
         pc[t] = "idle" \/ (pc[t] = "blocked" /\ call[t].op \in Waits /\ m_container = <<>>)

\* The holder of the mutex can always go on, so it is free when nobody can.
LEMMA RestIsSleep == IInv => OnlySleep
<1> SUFFICES ASSUME IInv, \A t \in Threads : ~ Ready(t)
             PROVE  /\ m_mutex = NoThread
                    /\ \A t \in Threads :
                         \/ pc[t] = "idle"
                         \/ pc[t] = "blocked" /\ call[t].op \in Waits /\ m_container = <<>>
  BY DEF OnlySleep
<1> USE DEF IInv, TypeOK, Sync
<1>1. ASSUME NEW t \in Threads PROVE pc[t] \notin Inside
  <2>1. call[t].op \in {"emplace", "size"} \cup Pops /\ pc[t] \in Places
    BY DEF Calls
  <2>2. pc[t] # "locked"
    BY <2>1 DEF Ready, Pops, Waits
  <2>3. QED BY <2>2 DEF Ready, Inside
<1>2. m_mutex = NoThread
  BY <1>1 DEF MutualExclusion
<1>3. ASSUME NEW t \in Threads, pc[t] # "idle"
      PROVE  pc[t] = "blocked" /\ call[t].op \in Waits /\ m_container = <<>>
  <2>1. pc[t] = "blocked"
    BY <1>1, <1>2, <1>3 DEF Ready, Places, Inside
  <2>2. m_container = <<>>
    BY <1>1, <2>1 DEF NoLostWakeup, Inside
  <2>3. QED BY <2>1, <2>2 DEF SleeperWaits
<1>4. QED BY <1>2, <1>3

\* The queue deadlocks nowhere: when no thread can go on by itself the mutex
\* is free, and each thread is outside or asleep in a wait for an element of an
\* empty queue, which the next emplace ends.
THEOREM NoDeadlock == Spec => []OnlySleep
  BY Invariance, RestIsSleep, PTL
=============================================================================

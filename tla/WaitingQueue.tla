---------------------------- MODULE WaitingQueue ----------------------------
(***************************************************************************)
(* corecpp::waiting_queue (include/corecpp/container/waiting_queue.h): a   *)
(* std::deque guarded by one std::mutex, with one std::condition_variable  *)
(* on which the poppers wait.  Every lock, wait, wake-up, notification and *)
(* unlock is a step of its own, so that the calls of the threads           *)
(* interleave as they do in the program.                                   *)
(***************************************************************************)
EXTENDS Naturals, Sequences, FiniteSets

CONSTANTS Threads,      \* the threads that share the queue
          Values,       \* the values an element may have
          NoThread,     \* the holder of a mutex nobody holds
          Nothing,      \* the absence of a value
          MaxCalls,     \* bound: how many calls each thread makes
          MaxSpurious   \* bound: how many spurious wake-ups happen

ASSUME QueueAssumption ==
  /\ NoThread \notin Threads
  /\ MaxCalls \in Nat
  /\ MaxSpurious \in Nat

VARIABLES m_container,  \* the elements, front first
          m_mutex,      \* the thread that holds the mutex, or NoThread
          m_condition,  \* the threads asleep on the condition variable
          pc,           \* where each thread is inside the queue's code
          call,         \* call[t]: the last call of t, [op, arg]
          result,       \* result[t]: the out parameter or return value of t
          expired,      \* the threads whose timed wait has timed out
          calls,        \* calls[t]: how many calls t has made
          spurious,     \* how many spurious wake-ups there were
          entered,      \* history: every value emplaced, in order
          taken         \* history: every value popped, in order

vars == <<m_container, m_mutex, m_condition, pc, call, result, expired,
          calls, spurious, entered, taken>>
counters == <<calls, spurious>>

Pops  == {"pop", "try_pop", "pop_for"}
Waits == {"pop", "pop_for"}            \* the pops that wait for an element
Calls == [op : {"emplace"}, arg : Values] \cup [op : Pops \cup {"size"}, arg : {Nothing}]

Init ==
  /\ m_container = <<>>
  /\ m_mutex = NoThread
  /\ m_condition = {}
  /\ pc = [t \in Threads |-> "idle"]
  /\ call = [t \in Threads |-> [op |-> "size", arg |-> Nothing]]
  /\ result = [t \in Threads |-> Nothing]
  /\ expired = {}
  /\ calls = [t \in Threads |-> 0]
  /\ spurious = 0
  /\ entered = <<>>
  /\ taken = <<>>

Goto(t, from, to) ==
  /\ pc[t] = from
  /\ pc' = [pc EXCEPT ![t] = to]

\* Thread t enters one of the queue's member functions.
Call(t, c) ==
  /\ calls[t] < MaxCalls
  /\ Goto(t, "idle", "lock")
  /\ call' = [call EXCEPT ![t] = c]
  /\ result' = [result EXCEPT ![t] = Nothing]
  /\ calls' = [calls EXCEPT ![t] = @ + 1]
  /\ UNCHANGED <<m_container, m_mutex, m_condition, expired, spurious, entered, taken>>

\* The constructor of lock_guard or unique_lock, or the end of a wait.
Lock(t) ==
  /\ m_mutex = NoThread
  /\ Goto(t, "lock", "locked")
  /\ m_mutex' = t
  /\ UNCHANGED <<m_container, m_condition, call, result, expired, counters, entered, taken>>

\* The destructor of lock_guard or unique_lock.
Unlock(t) ==
  /\ Goto(t, "unlock", "idle")
  /\ m_mutex' = NoThread
  /\ UNCHANGED <<m_container, m_condition, call, result, expired, counters, entered, taken>>

\* Mutant: the value is moved from before it is emplaced.
EmplaceMovedFrom(t) ==
  /\ call[t].op = "emplace"
  /\ Goto(t, "locked", "notify")
  /\ m_container' = Append(m_container, result[t])
  /\ entered' = Append(entered, result[t])
  /\ UNCHANGED <<m_mutex, m_condition, call, result, expired, counters, taken>>

\* Mutant: emplace does not notify.
EmplaceSilently(t) ==
  /\ call[t].op = "emplace"
  /\ Goto(t, "locked", "unlock")
  /\ m_container' = Append(m_container, call[t].arg)
  /\ entered' = Append(entered, call[t].arg)
  /\ UNCHANGED <<m_mutex, m_condition, call, result, expired, counters, taken>>

EmplaceBack(t) ==
  /\ call[t].op = "emplace"
  /\ Goto(t, "locked", "notify")
  /\ m_container' = Append(m_container, call[t].arg)
  /\ entered' = Append(entered, call[t].arg)
  /\ UNCHANGED <<m_mutex, m_condition, call, result, expired, counters, taken>>

\* notify_all, still holding the mutex: every sleeper goes for the mutex.
NotifyAll(t) ==
  /\ pc[t] = "notify"
  /\ pc' = [u \in Threads |-> IF u = t THEN "unlock"
                              ELSE IF u \in m_condition THEN "lock" ELSE pc[u]]
  /\ m_condition' = {}
  /\ UNCHANGED <<m_container, m_mutex, call, result, expired, counters, entered, taken>>

\* Mutant: the back is taken.
TakeBack(t) ==
  LET last == Len(m_container) IN
  /\ call[t].op \in Pops
  /\ m_container # <<>>
  /\ Goto(t, "locked", "unlock")
  /\ result' = [result EXCEPT ![t] = m_container[last]]
  /\ m_container' = SubSeq(m_container, 1, last - 1)
  /\ expired' = expired \ {t}
  /\ taken' = Append(taken, m_container[last])
  /\ UNCHANGED <<m_mutex, m_condition, call, counters, entered>>

\* The predicate of the wait holds (or try_pop finds an element): move the
\* front out.
TakeFront(t) ==
  /\ call[t].op \in Pops
  /\ m_container # <<>>
  /\ Goto(t, "locked", "unlock")
  /\ result' = [result EXCEPT ![t] = Head(m_container)]
  /\ m_container' = Tail(m_container)
  /\ expired' = expired \ {t}
  /\ taken' = Append(taken, Head(m_container))
  /\ UNCHANGED <<m_mutex, m_condition, call, counters, entered>>

\* The predicate does not hold: release the mutex and fall asleep, in one
\* step (what condition_variable::wait guarantees).
Wait(t) ==
  /\ call[t].op \in Waits
  /\ m_container = <<>>
  /\ t \notin expired
  /\ Goto(t, "locked", "blocked")
  /\ m_mutex' = NoThread
  /\ m_condition' = m_condition \cup {t}
  /\ UNCHANGED <<m_container, call, result, expired, counters, entered, taken>>

\* Mutant: a timed pop that is late does not look at the queue again.
ReturnFalseUnseen(t) ==
  /\ (call[t].op = "try_pop" /\ m_container = <<>>) \/ t \in expired
  /\ call[t].op \in Pops
  /\ Goto(t, "locked", "unlock")
  /\ expired' = expired \ {t}
  /\ UNCHANGED <<m_container, m_mutex, m_condition, call, result, counters, entered, taken>>

\* try_pop on an empty queue; wait_for whose time is over, after it looked at
\* the predicate a last time.
ReturnFalse(t) ==
  /\ call[t].op = "try_pop" \/ t \in expired
  /\ call[t].op \in Pops
  /\ m_container = <<>>
  /\ Goto(t, "locked", "unlock")
  /\ expired' = expired \ {t}
  /\ UNCHANGED <<m_container, m_mutex, m_condition, call, result, counters, entered, taken>>

\* size and empty.
Size(t) ==
  /\ call[t].op = "size"
  /\ Goto(t, "locked", "unlock")
  /\ result' = [result EXCEPT ![t] = Len(m_container)]
  /\ UNCHANGED <<m_container, m_mutex, m_condition, call, expired, counters, entered, taken>>

\* Mutant: the end of a timed wait goes on without the mutex.
TimeoutUnlocked(t) ==
  /\ call[t].op = "pop_for"
  /\ Goto(t, "blocked", "locked")
  /\ m_condition' = m_condition \ {t}
  /\ expired' = expired \cup {t}
  /\ UNCHANGED <<m_container, m_mutex, call, result, counters, entered, taken>>

\* Mutant: the wait begins again for the whole time.
TimeoutForgotten(t) ==
  /\ call[t].op = "pop_for"
  /\ Goto(t, "blocked", "lock")
  /\ m_condition' = m_condition \ {t}
  /\ UNCHANGED <<m_container, m_mutex, call, result, expired, counters, entered, taken>>

\* The time of a timed wait is over: t goes for the mutex.
Timeout(t) ==
  /\ call[t].op = "pop_for"
  /\ Goto(t, "blocked", "lock")
  /\ m_condition' = m_condition \ {t}
  /\ expired' = expired \cup {t}
  /\ UNCHANGED <<m_container, m_mutex, call, result, counters, entered, taken>>

\* A wait may end without a reason.
SpuriousWakeup(t) ==
  /\ spurious < MaxSpurious
  /\ Goto(t, "blocked", "lock")
  /\ m_condition' = m_condition \ {t}
  /\ spurious' = spurious + 1
  /\ UNCHANGED <<m_container, m_mutex, call, result, expired, calls, entered, taken>>

\* What a thread does by itself once it is inside the queue.
Step(t) ==
  \/ Lock(t) \/ Unlock(t) \/ EmplaceBack(t) \/ NotifyAll(t)
  \/ TakeFront(t) \/ Wait(t) \/ ReturnFalse(t) \/ Size(t)

Next ==
  \E t \in Threads :
    \/ \E c \in Calls : Call(t, c)
    \/ Step(t)
    \/ Timeout(t)
    \/ SpuriousWakeup(t)

Spec == Init /\ [][Next]_vars

(***************************************************************************)
(* A thread inside the queue is scheduled again and clocks advance.        *)
(* Nothing obliges a thread to make a call or a wait to end spuriously.    *)
(***************************************************************************)
Fairness == \A t \in Threads : WF_vars(Step(t)) /\ WF_vars(Timeout(t))

FairSpec == Spec /\ Fairness

-----------------------------------------------------------------------------
Places == {"idle", "lock", "locked", "notify", "blocked", "unlock"}
Inside == {"locked", "notify", "unlock"}   \* where a thread holds the mutex

\* Every variable has its type.
TypeOK ==
  /\ m_container \in Seq(Values)
  /\ m_mutex \in Threads \cup {NoThread}
  /\ m_condition \in SUBSET Threads
  /\ pc \in [Threads -> Places]
  /\ call \in [Threads -> Calls]
  /\ result \in [Threads -> Values \cup {Nothing} \cup Nat]
  /\ expired \in SUBSET Threads
  /\ calls \in [Threads -> 0..MaxCalls]
  /\ spurious \in 0..MaxSpurious
  /\ entered \in Seq(Values)
  /\ taken \in Seq(Values)

\* The critical sections exclude each other although a wait gives the mutex
\* up and takes it back in the middle of one: a thread is between lock and
\* unlock exactly when the mutex is its own.
MutualExclusion == \A t \in Threads : pc[t] \in Inside <=> m_mutex = t

\* No wake-up is lost: a popper is never asleep beside an element, but for the
\* moment between the emplace_back and the notify_all of one emplace.
NoLostWakeup ==
  \A t \in Threads :
    pc[t] = "blocked" /\ m_container # <<>> =>
      \E u \in Threads : pc[u] = "notify"

\* What was popped, followed by what is still in the queue, is what was
\* emplaced: no element is lost, duplicated or overtaken, whoever pops.
ExactlyOnceInOrder == entered = taken \o m_container

\* pop has no failure result: it comes back with a value, whatever woke it.
PopGivesAValue ==
  \A t \in Threads :
    call[t].op = "pop" /\ calls[t] > 0 /\ pc[t] \in {"unlock", "idle"} =>
      result[t] \in Values

\* Elements are never left lying while somebody waits for one.
NoForgottenElement ==
  []<>~(m_container # <<>> /\ \E t \in Threads : pc[t] # "idle" /\ call[t].op \in Waits)

\* A timed pop comes back, element or not, whatever the others do.
TimedPopReturns ==
  \A t \in Threads : (pc[t] # "idle" /\ call[t].op = "pop_for") ~> (pc[t] = "idle")

-----------------------------------------------------------------------------
\* The queue implements the atomic blocking queue: a call acts at the step
\* that appends, takes the front, gives up or measures, under the mutex.
Phase == [t \in Threads |->
            IF pc[t] = "idle" THEN "out"
            ELSE IF pc[t] \in {"lock", "locked", "blocked"} THEN "in" ELSE "done"]

Fifo == INSTANCE BlockingFifo
          WITH queue <- m_container, phase <- Phase, request <- call, answer <- result

\* Every step of the queue is a step of the atomic queue or invisible to it.
Linearizable == Fifo!FifoSpec
=============================================================================

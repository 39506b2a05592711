--------------------------- MODULE AsyncAppender ----------------------------
(***************************************************************************)
(* corecpp::diagnostic::async_appender (include/corecpp/diagnostic.h): the *)
(* threads that log emplace copies of their events into a waiting_queue, a *)
(* worker thread pops them and hands them to the wrapped appender, and the *)
(* destructor emplaces a null pointer, which ends the worker, and joins.   *)
(*                                                                         *)
(* The class composes with the real queue, step by step: Q is              *)
(* WaitingQueue.tla.  Everything the class does between two calls of the   *)
(* queue is a step of this module.                                         *)
(***************************************************************************)
EXTENDS Naturals, Sequences, FiniteSets, SequencesExt

CONSTANTS Producers,    \* the threads that call append
          Worker,       \* m_thread
          Owner,        \* the thread that destroys the appender
          Events,       \* the events, each of which is logged at most once
          Null,         \* the null unique_ptr that ends the worker
          NoThread, Nothing, MaxSpurious,   \* see WaitingQueue
          MayThrow      \* can the wrapped appender throw

ASSUME AppenderAssumption ==
  /\ Null \notin Events
  /\ Worker \notin Producers /\ Owner \notin Producers /\ Worker # Owner
  /\ NoThread \notin Producers \cup {Worker, Owner}
  /\ IsFiniteSet(Events) /\ MaxSpurious \in Nat
  /\ MayThrow \in BOOLEAN

VARIABLES m_container, m_mutex, m_condition, pc, call, result, expired,
          calls, spurious, entered, taken,   \* the queue, see WaitingQueue
          worker,     \* where run() is: "pop", "popping", "exited", "terminated"
          owner,      \* "alive", "stopping" (inside the destructor), "destroyed"
          logged,     \* history: logged[p]: the events p has passed to append
          appended,   \* the events m_appender has been given, in order
          settled     \* history: the events whose append had returned when the
                      \* destructor started

queueVars == <<m_container, m_mutex, m_condition, pc, call, result, expired,
               calls, spurious, entered, taken>>
appenderVars == <<worker, owner, logged, appended, settled>>
vars == <<queueVars, appenderVars>>

Threads == Producers \cup {Worker, Owner}
Values == Events \cup {Null}
MaxCalls == Cardinality(Events) + 2   \* the worker pops every value and waits again

Q == INSTANCE WaitingQueue

Init ==
  /\ Q!Init
  /\ worker = "pop"
  /\ owner = "alive"
  /\ logged = [p \in Producers |-> <<>>]
  /\ appended = <<>>
  /\ settled = {}

Emplace(v) == [op |-> "emplace", arg |-> v]
Pop == [op |-> "pop", arg |-> Nothing]

Fresh(e) == \A p \in Producers : \A i \in DOMAIN logged[p] : logged[p][i] # e

\* append(ev): copy the event and emplace the copy.  Nothing keeps a thread
\* from logging while the destructor is at work.
AppendCall(p, e) ==
  /\ owner # "destroyed"
  /\ Fresh(e)
  /\ Q!Call(p, Emplace(e))
  /\ logged' = [logged EXCEPT ![p] = Append(@, e)]
  /\ UNCHANGED <<worker, owner, appended, settled>>

\* The events whose append has returned.
Returned ==
  {e \in Events : \E p \in Producers : \E i \in DOMAIN logged[p] :
      logged[p][i] = e /\ (i < Len(logged[p]) \/ pc[p] = "idle")}

\* Mutant: the destructor does not emplace a null pointer.
DestroySilently ==
  /\ owner = "alive"
  /\ owner' = "stopping"
  /\ settled' = Returned
  /\ UNCHANGED <<queueVars, worker, logged, appended>>

\* ~async_appender(): m_queue.emplace(nullptr).
Destroy ==
  /\ owner = "alive"
  /\ Q!Call(Owner, Emplace(Null))
  /\ owner' = "stopping"
  /\ settled' = Returned
  /\ UNCHANGED <<worker, logged, appended>>

\* Mutant: the thread is detached.
Detach ==
  /\ owner = "stopping"
  /\ pc[Owner] = "idle"
  /\ owner' = "destroyed"
  /\ UNCHANGED <<queueVars, worker, logged, appended, settled>>

\* m_thread.join() comes back and the members go.
Join ==
  /\ owner = "stopping"
  /\ pc[Owner] = "idle"
  /\ worker = "exited"
  /\ owner' = "destroyed"
  /\ UNCHANGED <<queueVars, worker, logged, appended, settled>>

\* run(): m_queue.pop(ev).
PopCall ==
  /\ worker = "pop"
  /\ Q!Call(Worker, Pop)
  /\ worker' = "popping"
  /\ UNCHANGED <<owner, logged, appended, settled>>

Popped == worker = "popping" /\ pc[Worker] = "idle"

\* Mutant: the loop goes round without popping.
DeliverAgain ==
  /\ Popped
  /\ result[Worker] # Null
  /\ Len(appended) < Cardinality(Events)
  /\ appended' = Append(appended, result[Worker])
  /\ UNCHANGED <<queueVars, worker, owner, logged, settled>>

\* run(): the loop condition found an event, m_appender.append(ev).
Deliver ==
  /\ Popped
  /\ result[Worker] # Null
  /\ appended' = Append(appended, result[Worker])
  /\ worker' = "pop"
  /\ UNCHANGED <<queueVars, owner, logged, settled>>

\* An exception of m_appender.append leaves run() and so the thread: the
\* program is terminated.
Throw ==
  /\ MayThrow
  /\ Popped
  /\ result[Worker] # Null
  /\ worker' = "terminated"
  /\ UNCHANGED <<queueVars, owner, logged, appended, settled>>

\* run(): the loop condition found the null pointer.
Exit ==
  /\ Popped
  /\ result[Worker] = Null
  /\ worker' = "exited"
  /\ UNCHANGED <<queueVars, owner, logged, appended, settled>>

\* A thread moves on inside the queue, or its wait ends spuriously.  What a
\* thread does that is still inside when the queue is gone is not followed.
QueueStep(t) ==
  /\ owner # "destroyed"
  /\ Q!Step(t) \/ Q!SpuriousWakeup(t)
  /\ UNCHANGED appenderVars

Next ==
  /\ worker # "terminated"
  /\ \/ \E p \in Producers, e \in Events : AppendCall(p, e)
     \/ Destroy \/ Join
     \/ PopCall \/ Deliver \/ Throw \/ Exit
     \/ \E t \in Threads : QueueStep(t)

Spec == Init /\ [][Next]_vars

(***************************************************************************)
(* Threads inside the queue, the worker and a destructor that has begun    *)
(* are scheduled again.  Nobody has to log, and nobody has to destroy.     *)
(***************************************************************************)
Fairness ==
  /\ \A t \in Threads : WF_vars(/\ worker # "terminated" /\ owner # "destroyed"
                                /\ Q!Step(t) /\ UNCHANGED appenderVars)
  /\ WF_vars(PopCall \/ Deliver \/ Exit)
  /\ WF_vars(Join)

FairSpec == Spec /\ Fairness

-----------------------------------------------------------------------------
\* The part of a sequence of values in front of the first null pointer.
BeforeNull(s) == IF Contains(s, Null)
                 THEN SubSeq(s, 1, SelectInSeq(s, LAMBDA v : v = Null) - 1)
                 ELSE s

\* Once the destructor has returned, everything that was in the queue before
\* its null pointer has been delivered, and nothing is missing whose append had
\* returned when the destructor started: destruction flushes, and callers that
\* stop logging first lose nothing, whatever the others do.
FlushedAtDestruction ==
  owner = "destroyed" =>
    /\ appended = BeforeNull(entered)
    /\ \A e \in settled : Contains(appended, e)

\* A destructor that starts comes to its end, unless the program is terminated.
DestructorReturns == owner = "stopping" ~> owner = "destroyed" \/ worker = "terminated"

\* An event accepted ahead of the null pointer reaches the wrapped appender.
EventuallyDelivered ==
  \A e \in Events :
    Contains(BeforeNull(entered), e) ~> Contains(appended, e) \/ worker = "terminated"

-----------------------------------------------------------------------------
\* An event that left the queue and has not been appended yet.
InHand == IF worker \in {"popping", "terminated"} /\ pc[Worker] \in {"unlock", "idle"}
             /\ result[Worker] # Null
          THEN <<result[Worker]>> ELSE <<>>

Backlog == InHand \o BeforeNull(IF worker = "exited" \/ Contains(taken, Null)
                                THEN <<>> ELSE m_container)

Door == IF owner = "destroyed" THEN "closed"
        ELSE IF Contains(entered, Null) THEN "closing" ELSE "open"

Delivery == INSTANCE AsyncDelivery
              WITH backlog <- Backlog, delivered <- appended, door <- Door

\* The queue, the worker and the null pointer together implement the delivery
\* that is promised: the hand-over from thread to thread loses nothing.
ImplementsDelivery == Delivery!DeliverySpec
=============================================================================

---------------------------- MODULE BlockingFifo ----------------------------
(***************************************************************************)
(* What a waiting queue promises to the threads that call it: every call   *)
(* takes effect in one indivisible step between its invocation and its     *)
(* return, elements leave in the order in which they entered, and a call   *)
(* comes back empty-handed only if the queue was empty at that step.       *)
(* WaitingQueue.tla is shown to implement this specification.              *)
(***************************************************************************)
EXTENDS Naturals, Sequences

CONSTANTS Threads,   \* the threads that call the queue
          Values,    \* the values an element may have
          Nothing    \* the absence of a value

VARIABLES queue,     \* the elements, oldest first
          phase,     \* phase[t]: has the call of t been made, has it acted
          request,   \* request[t]: the last call made by t
          answer     \* answer[t]: what that call gave

fifoVars == <<queue, phase, request, answer>>

Requests == [op : {"emplace"}, arg : Values]
              \cup [op : {"pop", "try_pop", "pop_for", "size"}, arg : {Nothing}]

FifoInit ==
  /\ queue = <<>>
  /\ phase = [t \in Threads |-> "out"]
  /\ request = [t \in Threads |-> [op |-> "size", arg |-> Nothing]]
  /\ answer = [t \in Threads |-> Nothing]

Invoke(t, r) ==
  /\ phase[t] = "out"
  /\ phase' = [phase EXCEPT ![t] = "in"]
  /\ request' = [request EXCEPT ![t] = r]
  /\ answer' = [answer EXCEPT ![t] = Nothing]
  /\ UNCHANGED queue

\* The single step in which the call of t, which is of kind k, takes effect.
Act(t, k) ==
  /\ phase[t] = "in"
  /\ request[t].op \in k
  /\ phase' = [phase EXCEPT ![t] = "done"]
  /\ UNCHANGED request

Put(t) ==
  /\ Act(t, {"emplace"})
  /\ queue' = Append(queue, request[t].arg)
  /\ UNCHANGED answer

Take(t) ==
  /\ Act(t, {"pop", "try_pop", "pop_for"})
  /\ queue # <<>>
  /\ answer' = [answer EXCEPT ![t] = Head(queue)]
  /\ queue' = Tail(queue)

\* pop waits as long as it must: it never misses.
Miss(t) ==
  /\ Act(t, {"try_pop", "pop_for"})
  /\ queue = <<>>
  /\ UNCHANGED <<queue, answer>>

Measure(t) ==
  /\ Act(t, {"size"})
  /\ answer' = [answer EXCEPT ![t] = Len(queue)]
  /\ UNCHANGED queue

Return(t) ==
  /\ phase[t] = "done"
  /\ phase' = [phase EXCEPT ![t] = "out"]
  /\ UNCHANGED <<queue, request, answer>>

FifoNext ==
  \E t \in Threads :
    \/ \E r \in Requests : Invoke(t, r)
    \/ Put(t) \/ Take(t) \/ Miss(t) \/ Measure(t) \/ Return(t)

FifoSpec == FifoInit /\ [][FifoNext]_fifoVars
=============================================================================

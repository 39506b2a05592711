------------------------------ MODULE Channel -------------------------------
(***************************************************************************)
(* corecpp::diagnostic::channel (include/corecpp/diagnostic.h and          *)
(* src/diagnostic_manager.cpp): threads log on channels while others       *)
(* change a channel's level or swap two channels.                          *)
(*                                                                         *)
(* A channel is a mutex and a shared_ptr to its params, a level and an     *)
(* output.  diagnose copies the pointer under the mutex and then works     *)
(* without it, so that the level it reads, twice, may change under it.     *)
(* The output of a params object never changes, so the params object       *)
(* stands for it.  The section in which diagnose copies the pointer, and   *)
(* that of set_level, wait for nothing else: each is one step, which needs *)
(* the mutex to be free.  swap takes two mutexes and is modelled lock by   *)
(* lock.                                                                   *)
(***************************************************************************)
EXTENDS Integers, FiniteSets

CONSTANTS Threads,
          Channels,
          UsedLevels,   \* the levels the threads log at and set
          SwapPairs,    \* the pairs of channels swap is called with
          NoThread,
          Sink,         \* the params object (level and output) channel c is made with
          MaxCalls      \* bound: how many calls each thread makes

\* diagnostic_level
fatal == 0
error == 1
warning == 2
faillure == 3
success == 4
info == 5
trace == 6
debug == 7
Levels == fatal..debug

\* The level each member function of event_producer logs at.
event_producer == [fatal |-> fatal, error |-> error, warn |-> warning, fail |-> faillure,
                   success |-> success, info |-> info, trace |-> trace, debug |-> debug]

ASSUME ChannelAssumption ==
  /\ NoThread \notin Threads
  /\ Channels # {}
  /\ UsedLevels \subseteq {event_producer[f] : f \in DOMAIN event_producer}
  /\ SwapPairs \subseteq Channels \X Channels
  /\ \A c, d \in Channels : Sink[c] = Sink[d] => c = d
  /\ MaxCalls \in Nat

Params == {Sink[c] : c \in Channels}

VARIABLES m_params,   \* m_params[c]: the params object channel c points to
          m_mutex,    \* m_mutex[c]: the thread that holds the mutex of c
          level,      \* level[p]: the level in params object p
          pc,         \* where each thread is
          call,       \* call[t]: [op, chan, other, level, details]
          p,          \* p[t]: the pointer diagnose copied, or swap's temporary
          first,      \* first[t]: the level diagnose read first
          attach,     \* attach[t]: does the event t appends keep its details
          calls,      \* calls[t]: how many calls t has made
          hadParams   \* history: the levels p[t] had since t copied it

vars == <<m_params, m_mutex, level, pc, call, p, first, attach, calls, hadParams>>

\* diagnose has an overload without details.
DiagnoseCalls == [op : {"diagnose"}, chan : Channels, level : UsedLevels, details : BOOLEAN]
SetCalls      == [op : {"set_level"}, chan : Channels, level : UsedLevels]
SwapCalls     == {[op |-> "swap", chan |-> s[1], other |-> s[2]] : s \in SwapPairs}
Calls         == DiagnoseCalls \cup SetCalls \cup SwapCalls

Init ==
  /\ m_params = [c \in Channels |-> Sink[c]]
  /\ m_mutex = [c \in Channels |-> NoThread]
  /\ level \in [Params -> UsedLevels]
  /\ pc = [t \in Threads |-> "idle"]
  /\ call \in [Threads -> {CHOOSE c \in DiagnoseCalls : TRUE}]
  /\ p \in [Threads -> {CHOOSE q \in Params : TRUE}]
  /\ first = [t \in Threads |-> fatal]
  /\ attach = [t \in Threads |-> FALSE]
  /\ calls = [t \in Threads |-> 0]
  /\ hadParams = [t \in Threads |-> {}]

Goto(t, from, to) ==
  /\ pc[t] = from
  /\ pc' = [pc EXCEPT ![t] = to]

\* The threads that work with the pointer they copied.
Reading(t) == pc[t] \in {"test", "again", "append"}

\* Their histories after a change of the levels.
Observe ==
  hadParams' = [t \in Threads |-> IF Reading(t) THEN hadParams[t] \cup {level'[p[t]]} ELSE {}]

\* t is done with its pointer.
Forget(t) == hadParams' = [hadParams EXCEPT ![t] = {}]

Call(t, c) ==
  /\ Goto(t, "idle", c.op)
  /\ calls[t] < MaxCalls
  /\ call' = [call EXCEPT ![t] = c]
  /\ calls' = [calls EXCEPT ![t] = @ + 1]
  /\ UNCHANGED <<m_params, m_mutex, level, p, first, attach, hadParams>>

\* Mutant: the mutex is locked without a guard, and kept.
CopyParamsHolding(t) ==
  LET c == call[t].chan IN
  /\ Goto(t, "diagnose", "test")
  /\ m_mutex[c] = NoThread
  /\ m_mutex' = [m_mutex EXCEPT ![c] = t]
  /\ p' = [p EXCEPT ![t] = m_params[c]]
  /\ hadParams' = [hadParams EXCEPT ![t] = {level[m_params[c]]}]
  /\ UNCHANGED <<m_params, level, call, first, attach, calls>>

\* diagnose: lock, p = m_params, unlock.
CopyParams(t) ==
  LET c == call[t].chan IN
  /\ Goto(t, "diagnose", "test")
  /\ m_mutex[c] = NoThread
  /\ p' = [p EXCEPT ![t] = m_params[c]]
  /\ hadParams' = [hadParams EXCEPT ![t] = {level[m_params[c]]}]
  /\ UNCHANGED <<m_params, m_mutex, level, call, first, attach, calls>>

\* diagnose: if (p->level < level) return.
Reject(t) ==
  /\ Goto(t, "test", "idle")
  /\ level[p[t]] < call[t].level
  /\ Forget(t)
  /\ UNCHANGED <<m_params, m_mutex, level, call, p, first, attach, calls>>

\* diagnose: the event is let through; the overload without details has
\* nothing more to read.
Admit(t) ==
  /\ Goto(t, "test", IF call[t].details THEN "again" ELSE "append")
  /\ level[p[t]] >= call[t].level
  /\ first' = [first EXCEPT ![t] = level[p[t]]]
  /\ attach' = [attach EXCEPT ![t] = FALSE]
  /\ UNCHANGED <<m_params, m_mutex, level, call, p, calls, hadParams>>

\* Mutant: details are kept from the event's own level on.
KeepDetailsInclusive(t) ==
  /\ Goto(t, "again", "append")
  /\ \E v \in {first[t], level[p[t]]} :
       attach' = [attach EXCEPT ![t] = v >= call[t].level]
  /\ UNCHANGED <<m_params, m_mutex, level, call, p, first, calls, hadParams>>

\* diagnose: p->level > level || level == debug.  The level is read without
\* the mutex, so the compiler may use the value it read before.
KeepDetails(t) ==
  /\ Goto(t, "again", "append")
  /\ \E v \in {first[t], level[p[t]]} :
       attach' = [attach EXCEPT ![t] = v > call[t].level \/ call[t].level = debug]
  /\ UNCHANGED <<m_params, m_mutex, level, call, p, first, calls, hadParams>>

\* diagnose: output.append(event), without any lock.
AppendEvent(t) ==
  /\ Goto(t, "append", "idle")
  /\ Forget(t)
  /\ UNCHANGED <<m_params, m_mutex, level, call, p, first, attach, calls>>

SetLevel(t) ==
  LET c == call[t].chan IN
  /\ Goto(t, "set_level", "idle")
  /\ m_mutex[c] = NoThread
  /\ level' = [level EXCEPT ![m_params[c]] = call[t].level]
  /\ UNCHANGED <<m_params, m_mutex, call, p, first, attach, calls>>
  /\ Observe

\* swap: the first lock_guard.
LockOwn(t) ==
  LET c == call[t].chan IN
  /\ Goto(t, "swap", "other")
  /\ m_mutex[c] = NoThread
  /\ m_mutex' = [m_mutex EXCEPT ![c] = t]
  /\ UNCHANGED <<m_params, level, call, p, first, attach, calls, hadParams>>

\* Mutant: swap only locks its own mutex.
LockOnlyOwn(t) ==
  /\ Goto(t, "other", "exchange")
  /\ UNCHANGED <<m_params, m_mutex, level, call, p, first, attach, calls, hadParams>>

\* swap: the second one.  A std::mutex its holder locks again never comes free.
LockOther(t) ==
  LET d == call[t].other IN
  /\ Goto(t, "other", "exchange")
  /\ m_mutex[d] = NoThread
  /\ m_mutex' = [m_mutex EXCEPT ![d] = t]
  /\ UNCHANGED <<m_params, level, call, p, first, attach, calls, hadParams>>

\* std::swap: the temporary takes the first pointer and the first the second.
Exchange(t) ==
  LET c == call[t].chan  d == call[t].other IN
  /\ Goto(t, "exchange", "store")
  /\ p' = [p EXCEPT ![t] = m_params[c]]
  /\ m_params' = [m_params EXCEPT ![c] = m_params[d]]
  /\ UNCHANGED <<m_mutex, level, call, first, attach, calls, hadParams>>

\* std::swap: the second takes the temporary.  Both mutexes are released.
Store(t) ==
  LET c == call[t].chan  d == call[t].other IN
  /\ Goto(t, "store", "idle")
  /\ m_params' = [m_params EXCEPT ![d] = p[t]]
  /\ m_mutex' = [m_mutex EXCEPT ![c] = NoThread, ![d] = NoThread]
  /\ UNCHANGED <<level, call, p, first, attach, calls, hadParams>>

Step(t) ==
  \/ CopyParams(t) \/ Reject(t) \/ Admit(t) \/ KeepDetails(t) \/ AppendEvent(t)
  \/ SetLevel(t)
  \/ LockOwn(t) \/ LockOther(t) \/ Exchange(t) \/ Store(t)

Next == \E t \in Threads : (\E c \in Calls : Call(t, c)) \/ Step(t)

Spec == Init /\ [][Next]_vars

-----------------------------------------------------------------------------
Places == {"idle", "diagnose", "test", "again", "append", "set_level",
           "swap", "other", "exchange", "store"}

\* Every variable has its type.
TypeOK ==
  /\ m_params \in [Channels -> Params]
  /\ m_mutex \in [Channels -> Threads \cup {NoThread}]
  /\ level \in [Params -> UsedLevels]
  /\ pc \in [Threads -> Places]
  /\ call \in [Threads -> Calls]
  /\ p \in [Threads -> Params]
  /\ first \in [Threads -> Levels]
  /\ attach \in [Threads -> BOOLEAN]
  /\ calls \in [Threads -> 0..MaxCalls]
  /\ hadParams \in [Threads -> SUBSET Levels]

\* Whether the event t appends agrees with a set of levels: some of them let
\* it through, its details need one above its own, and leaving them out needs
\* one that is not.
Agrees(t, had) ==
  LET l == call[t].level IN
  /\ \E v \in had : v >= l
  /\ attach[t] => l = debug \/ \E v \in had : v > l
  /\ ~ attach[t] /\ call[t].details => l # debug /\ \E v \in had : v <= l

\* Whatever set_level and swap do meanwhile, what diagnose decides is justified
\* by levels its params object had during the call.
JustifiedByParams == \A t \in Threads : pc[t] = "append" => Agrees(t, hadParams[t])

\* A swap is never seen half-done: two channels nobody has locked have
\* different params, so no event goes to the wrong output for good and no
\* output is forgotten.
NoTornSwap ==
  \A c, d \in Channels :
    c # d /\ m_mutex[c] = NoThread /\ m_mutex[d] = NoThread => m_params[c] # m_params[d]

\* The mutex a thread has to get next, if it has to get one.
Needs(t) ==
  IF pc[t] \in {"diagnose", "set_level", "swap"} THEN {call[t].chan}
  ELSE IF pc[t] = "other" THEN {call[t].other} ELSE {}

Blocked(t) == \E c \in Needs(t) : m_mutex[c] # NoThread

Waiting(t, u) == \E c \in Needs(t) : m_mutex[c] = u

\* If all threads inside a call are stuck, then swaps are to blame that cross
\* (or one that was given the same channel twice): neither diagnose nor
\* set_level can be part of a deadlock.
StuckOnlyByCrossedSwaps ==
  LET inside == {t \in Threads : pc[t] # "idle"}
      stuck  == {t \in inside : pc[t] = "other"}
  IN  inside # {} /\ (\A t \in inside : Blocked(t)) =>
        /\ stuck # {}
        /\ \A t \in stuck : \E u \in stuck : Waiting(t, u)
=============================================================================

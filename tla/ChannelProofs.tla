--------------------------- MODULE ChannelProofs ----------------------------
(***************************************************************************)
(* Proofs about Channel for any threads, channels, levels and pairs that   *)
(* swap is called with: the type invariant, that no swap is seen half-done *)
(* or loses an output, that what diagnose decides is justified by levels   *)
(* that were in force, and that only swaps can be in a deadlock.           *)
(***************************************************************************)
EXTENDS Channel, TLAPS

\* The member function a thread is in is the one it called.
InCall(t) ==
  /\ pc[t] \in {"diagnose", "test", "again", "append"} => call[t].op = "diagnose"
  /\ pc[t] = "set_level" => call[t].op = "set_level"
  /\ pc[t] \in {"swap", "other", "exchange", "store"} => call[t].op = "swap"

\* A thread inside swap holds its own mutex, and then both, of two channels.
Locked(t) ==
  /\ pc[t] \in {"other", "exchange", "store"} => m_mutex[call[t].chan] = t
  /\ pc[t] \in {"exchange", "store"} =>
       m_mutex[call[t].other] = t /\ call[t].chan # call[t].other

\* A mutex is held only by a thread inside swap that has locked it.
Holder(c) ==
  m_mutex[c] # NoThread =>
    LET t == m_mutex[c] IN
    /\ pc[t] \in {"other", "exchange", "store"}
    /\ c = call[t].chan \/ (pc[t] # "other" /\ c = call[t].other)

Locking == /\ \A t \in Threads : InCall(t) /\ Locked(t)
           /\ \A c \in Channels : Holder(c)

\* The params that belong to a channel: while a swap is between its two
\* assignments, those of the second channel are in the temporary.
Owned(c) ==
  IF /\ m_mutex[c] # NoThread
     /\ pc[m_mutex[c]] = "store"
     /\ call[m_mutex[c]].other = c
  THEN p[m_mutex[c]] ELSE m_params[c]

\* No two channels own the same params, in the middle of swaps or not.
Exclusive == \A c, d \in Channels : c # d => Owned(c) # Owned(d)

\* The inductive invariant for the locks.
IInv == TypeOK /\ Locking /\ Exclusive

\* What a thread that works with its pointer has seen.
Witnessed(t) ==
  /\ Reading(t) => level[p[t]] \in hadParams[t]
  /\ pc[t] = "again" => first[t] \in hadParams[t] /\ first[t] >= call[t].level
                        /\ call[t].details
  /\ pc[t] = "append" => Agrees(t, hadParams[t])

Justified == \A t \in Threads : Witnessed(t)

-----------------------------------------------------------------------------
\* Levels are numbers, the levels that are used among them.
LEMMA LevelsAreNumbers == Levels \subseteq Int /\ UsedLevels \subseteq Levels /\ debug \in Levels
  BY ChannelAssumption
  DEF Levels, event_producer, fatal, error, warning, faillure, success, info, trace, debug

\* What a call of each kind is made of.
LEMMA CallTypes ==
  ASSUME NEW c \in Calls
  PROVE  /\ c.op \in {"diagnose", "set_level", "swap"}
         /\ c.chan \in Channels
         /\ c.op \in {"diagnose", "set_level"} => c.level \in UsedLevels
         /\ c.op = "diagnose" => c.details \in BOOLEAN
         /\ c.op = "swap" => c.other \in Channels
  BY ChannelAssumption DEF Calls, DiagnoseCalls, SetCalls, SwapCalls

\* The initial states have the types.
LEMMA TypeInit == Init => TypeOK
<1> SUFFICES ASSUME Init PROVE TypeOK
  OBVIOUS
<1>1. PICK c \in Channels : TRUE
  BY ChannelAssumption
<1>2. Sink[c] \in Params
  BY DEF Params
<1>3. level[Sink[c]] \in UsedLevels
  BY <1>2 DEF Init
<1>4. [op |-> "diagnose", chan |-> c, level |-> level[Sink[c]], details |-> TRUE] \in DiagnoseCalls
  BY <1>3 DEF DiagnoseCalls
<1>5. (CHOOSE d \in DiagnoseCalls : TRUE) \in Calls
  BY <1>4 DEF Calls
<1>6. (CHOOSE q \in Params : TRUE) \in Params
  BY <1>2
<1>7. call \in [Threads -> Calls] /\ p \in [Threads -> Params]
  BY <1>5, <1>6 DEF Init
<1>8. fatal \in Levels
  BY DEF Levels, fatal, debug
<1>9. m_params \in [Channels -> Params]
  BY DEF Init, Params
<1>10. QED BY <1>7, <1>8, <1>9, ChannelAssumption DEF Init, TypeOK, Places

\* Every step keeps the types.
LEMMA TypeNext == TypeOK /\ Locking /\ [Next]_vars => TypeOK'
<1> SUFFICES ASSUME TypeOK, Locking, [Next]_vars PROVE TypeOK'
  OBVIOUS
<1> USE ChannelAssumption DEF TypeOK, Goto, Places
<1>0. \A t \in Threads : /\ call[t].chan \in Channels
                         /\ call[t].op \in {"diagnose", "set_level"} => call[t].level \in UsedLevels
                         /\ call[t].op = "swap" => call[t].other \in Channels
                         /\ InCall(t)
  BY CallTypes DEF Locking
<1>1. ASSUME NEW t \in Threads, NEW c \in Calls, Call(t, c) PROVE TypeOK'
  <2>1. c.op \in Places
    BY CallTypes
  <2>2. calls'[t] \in 0..MaxCalls
    BY <1>1 DEF Call
  <2>3. QED BY <1>1, <2>1, <2>2 DEF Call
<1>2. ASSUME NEW t \in Threads, CopyParams(t) PROVE TypeOK'
  <2>1. level[m_params[call[t].chan]] \in Levels
    BY <1>0, LevelsAreNumbers
  <2>2. QED BY <1>0, <1>2, <2>1 DEF CopyParams
<1>3. ASSUME NEW t \in Threads, Reject(t) PROVE TypeOK'
  BY <1>3 DEF Reject, Forget
<1>4. ASSUME NEW t \in Threads, Admit(t) PROVE TypeOK'
  <2>1. level[p[t]] \in Levels
    BY LevelsAreNumbers
  <2>2. QED BY <1>4, <2>1 DEF Admit
<1>5. ASSUME NEW t \in Threads, KeepDetails(t) PROVE TypeOK'
  BY <1>5 DEF KeepDetails
<1>6. ASSUME NEW t \in Threads, AppendEvent(t) PROVE TypeOK'
  BY <1>6 DEF AppendEvent, Forget
<1>7. ASSUME NEW t \in Threads, SetLevel(t) PROVE TypeOK'
  <2>1. level' \in [Params -> UsedLevels]
    BY <1>0, <1>7 DEF SetLevel, InCall
  <2>2. \A u \in Threads : level'[p[u]] \in Levels
    BY <2>1, LevelsAreNumbers
  <2>3. hadParams' \in [Threads -> SUBSET Levels]
    BY <1>7, <2>2 DEF SetLevel, Observe
  <2>4. QED BY <1>7, <2>1, <2>3 DEF SetLevel
<1>8. ASSUME NEW t \in Threads, LockOwn(t) PROVE TypeOK'
  BY <1>0, <1>8 DEF LockOwn
<1>9. ASSUME NEW t \in Threads, LockOther(t) PROVE TypeOK'
  BY <1>0, <1>9 DEF LockOther, InCall
<1>10. ASSUME NEW t \in Threads, Exchange(t) PROVE TypeOK'
  BY <1>0, <1>10 DEF Exchange, InCall
<1>11. ASSUME NEW t \in Threads, Store(t) PROVE TypeOK'
  BY <1>0, <1>11 DEF Store, InCall
<1>12. CASE UNCHANGED vars
  BY <1>12 DEF vars
<1>13. QED
  BY <1>1, <1>2, <1>3, <1>4, <1>5, <1>6, <1>7, <1>8, <1>9, <1>10, <1>11, <1>12
     DEF Next, Step

-----------------------------------------------------------------------------
\* Nobody holds a mutex at the start, and each channel has params of its own.
LEMMA SafeInit == Init => Locking /\ Exclusive
  BY ChannelAssumption
  DEF Init, Locking, InCall, Locked, Holder, Exclusive, Owned, Params

\* Every step keeps the mutexes with the threads that have locked them.
LEMMA LockingNext == TypeOK /\ Locking /\ [Next]_vars => Locking'
<1> SUFFICES ASSUME TypeOK, Locking, [Next]_vars PROVE Locking'
  OBVIOUS
<1> USE ChannelAssumption, CallTypes DEF TypeOK, Goto, Places, Locking, InCall, Locked, Holder
<1>1. ASSUME NEW t \in Threads, NEW c \in Calls, Call(t, c) PROVE Locking'
  BY <1>1 DEF Call
<1>2. ASSUME NEW t \in Threads, CopyParams(t) PROVE Locking'
  BY <1>2 DEF CopyParams
<1>3. ASSUME NEW t \in Threads, Reject(t) PROVE Locking'
  BY <1>3 DEF Reject
<1>4. ASSUME NEW t \in Threads, Admit(t) PROVE Locking'
  BY <1>4 DEF Admit
<1>5. ASSUME NEW t \in Threads, KeepDetails(t) PROVE Locking'
  BY <1>5 DEF KeepDetails
<1>6. ASSUME NEW t \in Threads, AppendEvent(t) PROVE Locking'
  BY <1>6 DEF AppendEvent
<1>7. ASSUME NEW t \in Threads, SetLevel(t) PROVE Locking'
  BY <1>7 DEF SetLevel
<1>8. ASSUME NEW t \in Threads, LockOwn(t) PROVE Locking'
  BY <1>8 DEF LockOwn
<1>9. ASSUME NEW t \in Threads, LockOther(t) PROVE Locking'
  BY <1>9 DEF LockOther
<1>10. ASSUME NEW t \in Threads, Exchange(t) PROVE Locking'
  BY <1>10 DEF Exchange
<1>11. ASSUME NEW t \in Threads, Store(t) PROVE Locking'
  BY <1>11 DEF Store
<1>12. CASE UNCHANGED vars
  BY <1>12 DEF vars
<1>13. QED
  BY <1>1, <1>2, <1>3, <1>4, <1>5, <1>6, <1>7, <1>8, <1>9, <1>10, <1>11, <1>12
     DEF Next, Step

\* Every step leaves each channel params of its own: std::swap gives the second
\* channel those of the first, which nobody else can have taken meanwhile.
LEMMA ExclusiveNext == IInv /\ [Next]_vars => Exclusive'
<1> SUFFICES ASSUME IInv, [Next]_vars PROVE Exclusive'
  OBVIOUS
<1> USE ChannelAssumption DEF IInv, TypeOK, Goto, Places
<1>0. \A t \in Threads : call[t].chan \in Channels /\ (call[t].op = "swap" => call[t].other \in Channels)
  BY CallTypes
<1>1. ASSUME NEW t \in Threads, Exchange(t) PROVE Exclusive'
  <2>1. PICK c \in Channels, d \in Channels :
          c = call[t].chan /\ d = call[t].other /\ c # d /\ m_mutex[c] = t /\ m_mutex[d] = t
    BY <1>0, <1>1 DEF Exchange, Locking, InCall, Locked
  <2>2. Owned(c)' = Owned(d) /\ Owned(d)' = Owned(c)
    BY <1>1, <2>1 DEF Exchange, Owned
  <2>3. ASSUME NEW e \in Channels, e # c, e # d PROVE Owned(e)' = Owned(e)
    <3>1. m_mutex[e] # t
      BY <2>1, <2>3, <1>1 DEF Exchange, Locking, Holder
    <3>2. m_params'[e] = m_params[e] /\ m_mutex' = m_mutex
      BY <1>1, <2>1, <2>3 DEF Exchange
    <3>3. m_mutex[e] # NoThread => p'[m_mutex[e]] = p[m_mutex[e]] /\ pc'[m_mutex[e]] = pc[m_mutex[e]]
      BY <1>1, <3>1 DEF Exchange
    <3>4. QED BY <1>1, <3>2, <3>3 DEF Exchange, Owned
  <2>4. QED BY <2>1, <2>2, <2>3 DEF Exclusive
<1>2. ASSUME NEW t \in Threads, Store(t) PROVE Exclusive'
  <2>1. PICK c \in Channels, d \in Channels :
          c = call[t].chan /\ d = call[t].other /\ c # d /\ m_mutex[c] = t /\ m_mutex[d] = t
    BY <1>0, <1>2 DEF Store, Locking, InCall, Locked
  <2>2. Owned(c)' = Owned(c) /\ Owned(d)' = Owned(d)
    BY <1>2, <2>1 DEF Store, Owned
  <2>3. ASSUME NEW e \in Channels, e # c, e # d PROVE Owned(e)' = Owned(e)
    <3>1. m_mutex[e] # t
      BY <2>1, <2>3, <1>2 DEF Store, Locking, Holder
    <3>2. m_params'[e] = m_params[e] /\ m_mutex'[e] = m_mutex[e]
      BY <1>2, <2>1, <2>3 DEF Store
    <3>3. m_mutex[e] # NoThread => p' = p /\ pc'[m_mutex[e]] = pc[m_mutex[e]]
      BY <1>2, <3>1 DEF Store
    <3>4. QED BY <1>2, <3>2, <3>3 DEF Store, Owned
  <2>4. QED BY <2>1, <2>2, <2>3 DEF Exclusive
<1>3. ASSUME NEW t \in Threads,
             \/ LockOwn(t) \/ LockOther(t) \/ CopyParams(t) \/ Reject(t) \/ Admit(t)
             \/ KeepDetails(t) \/ AppendEvent(t) \/ SetLevel(t) \/ \E c \in Calls : Call(t, c)
      PROVE  Exclusive'
  <2>1. ASSUME NEW e \in Channels PROVE Owned(e)' = Owned(e)
    BY <1>3
    DEF LockOwn, LockOther, CopyParams, Reject, Admit, KeepDetails, AppendEvent, SetLevel,
        Call, Locking, Holder, Owned
  <2>2. QED BY <2>1 DEF Exclusive
<1>4. CASE UNCHANGED vars
  BY <1>4 DEF vars, Exclusive, Owned
<1>5. QED BY <1>1, <1>2, <1>3, <1>4 DEF Next, Step

\* The inductive invariant is one.
LEMMA Invariance == Spec => []IInv
<1>1. Init => IInv
  BY TypeInit, SafeInit DEF IInv
<1>2. IInv /\ [Next]_vars => IInv'
  BY TypeNext, LockingNext, ExclusiveNext DEF IInv
<1>3. QED BY <1>1, <1>2, PTL DEF Spec

\* Type correctness of channels and of the threads that use them.
THEOREM TypeCorrect == Spec => []TypeOK
  BY Invariance, PTL DEF IInv

\* Channels that nobody has locked have different params, whatever swaps have
\* been made: no output is lost, and none is reached by two channels for good.
THEOREM SwapSafe == Spec => []NoTornSwap
<1>1. IInv => NoTornSwap
  BY DEF IInv, Exclusive, Owned, NoTornSwap
<1>2. QED BY <1>1, Invariance, PTL

\* Who holds a mutex waits for none, or is at the second one in swap: a thread
\* that everybody else may be waiting for is always a swap.
LEMMA BlockedBySwap ==
  ASSUME IInv, NEW t \in Threads, NEW c \in Needs(t), m_mutex[c] # NoThread,
         \A u \in Threads : pc[u] # "idle" => Blocked(u)
  PROVE  \E u \in Threads : pc[u] = "other" /\ m_mutex[c] = u
<1>1. c \in Channels
  BY CallTypes DEF IInv, TypeOK, Locking, InCall, Needs
<1>2. m_mutex[c] \in Threads /\ pc[m_mutex[c]] \in {"other", "exchange", "store"}
  BY <1>1 DEF IInv, TypeOK, Locking, Holder
<1>3. Blocked(m_mutex[c])
  BY <1>2
<1>4. QED BY <1>2, <1>3 DEF Blocked, Needs

\* If everyone who is inside a call is stuck, there is a swap that waits for a
\* mutex, and each such swap waits for another of them (or for itself).
THEOREM DeadlockNeedsSwaps == Spec => []StuckOnlyByCrossedSwaps
<1>1. IInv => StuckOnlyByCrossedSwaps
  <2> SUFFICES ASSUME IInv,
                      NEW t \in Threads, pc[t] # "idle",
                      \A u \in Threads : pc[u] # "idle" => Blocked(u)
               PROVE  /\ \E u \in Threads : pc[u] = "other"
                      /\ \A v \in Threads : pc[v] = "other" =>
                            \E u \in Threads : pc[u] = "other" /\ Waiting(v, u)
    BY DEF StuckOnlyByCrossedSwaps
  <2>1. ASSUME NEW v \in Threads, pc[v] # "idle"
        PROVE  \E u \in Threads : pc[u] = "other" /\ Waiting(v, u)
    <3>1. PICK c \in Needs(v) : m_mutex[c] # NoThread
      BY <2>1 DEF Blocked
    <3>2. QED BY <3>1, BlockedBySwap DEF Waiting
  <2>2. QED BY <2>1
<1>2. QED BY <1>1, Invariance, PTL

-----------------------------------------------------------------------------
\* Nobody has seen anything at the start.
LEMMA JustifiedInit == Init => Justified
  BY DEF Init, Justified, Witnessed, Reading

\* What a thread has seen only grows until it is done with its pointer.
LEMMA JustifiedNext == IInv /\ Justified /\ [Next]_vars => Justified'
<1> SUFFICES ASSUME IInv, Justified, [Next]_vars, NEW u \in Threads PROVE Witnessed(u)'
  BY DEF Justified
<1> USE ChannelAssumption DEF IInv, TypeOK, Goto, Places, Reading
<1>0. /\ \A t \in Threads : call[t].chan \in Channels /\ InCall(t)
      /\ call[u].op = "diagnose" => call[u].level \in Int /\ call[u].details \in BOOLEAN
      /\ level[p[u]] \in Int /\ first[u] \in Int
      /\ Witnessed(u)
      /\ hadParams[u] \subseteq Int
  BY CallTypes, LevelsAreNumbers DEF Justified, Locking
<1>1. ASSUME NEW t \in Threads, NEW c \in Calls, Call(t, c) PROVE Witnessed(u)'
  BY <1>0, <1>1, CallTypes DEF Call, Witnessed, Agrees
<1>2. ASSUME NEW t \in Threads, CopyParams(t) PROVE Witnessed(u)'
  BY <1>0, <1>2 DEF CopyParams, Witnessed, Agrees
<1>3. ASSUME NEW t \in Threads, Reject(t) \/ AppendEvent(t) PROVE Witnessed(u)'
  BY <1>0, <1>3 DEF Reject, AppendEvent, Forget, Witnessed, Agrees
<1>4. ASSUME NEW t \in Threads, Admit(t) PROVE Witnessed(u)'
  BY <1>0, <1>4 DEF Admit, Witnessed, Agrees, InCall
<1>5. ASSUME NEW t \in Threads, KeepDetails(t) PROVE Witnessed(u)'
  <2>1. CASE u # t
    BY <1>0, <1>5, <2>1 DEF KeepDetails, Witnessed, Agrees
  <2>2. CASE u = t
    <3>1. PICK v \in {first[t], level[p[t]]} :
            attach' = [attach EXCEPT ![t] = v > call[t].level \/ call[t].level = debug]
      BY <1>5 DEF KeepDetails
    <3>2. v \in hadParams[t] /\ first[t] \in hadParams[t] /\ first[t] >= call[t].level
      BY <1>0, <1>5, <2>2 DEF KeepDetails, Witnessed
    <3>3. /\ attach'[t] => v > call[t].level \/ call[t].level = debug
          /\ ~ attach'[t] => ~ (v > call[t].level) /\ call[t].level # debug
      BY <3>1, Zenon
    <3>4. call' = call /\ hadParams' = hadParams /\ level' = level /\ p' = p /\ pc'[t] = "append"
      BY <1>5 DEF KeepDetails
    <3>5. v \in Int /\ call[t].level \in Int
      BY <1>0, <1>5, <2>2, <3>2 DEF KeepDetails, InCall
    <3>6. Agrees(t, hadParams[t])'
      BY <3>2, <3>3, <3>4, <3>5 DEF Agrees
    <3>7. QED BY <1>0, <1>5, <2>2, <3>4, <3>6 DEF Witnessed, KeepDetails
  <2>3. QED BY <2>1, <2>2
<1>6. ASSUME NEW t \in Threads, SetLevel(t) PROVE Witnessed(u)'
  BY <1>0, <1>6 DEF SetLevel, Observe, Witnessed, Agrees
<1>7. ASSUME NEW t \in Threads, LockOwn(t) \/ LockOther(t) \/ Exchange(t) \/ Store(t)
      PROVE  Witnessed(u)'
  BY <1>0, <1>7 DEF LockOwn, LockOther, Exchange, Store, Witnessed, Agrees
<1>8. CASE UNCHANGED vars
  BY <1>0, <1>8 DEF vars, Witnessed, Agrees
<1>9. QED
  BY <1>1, <1>2, <1>3, <1>4, <1>5, <1>6, <1>7, <1>8 DEF Next, Step

\* Every event that diagnose lets through, and every detail that it keeps, is
\* justified by levels that the params it works with had during the call.
THEOREM DecisionsJustified == Spec => []JustifiedByParams
<1>1. Spec => []Justified
  BY Invariance, JustifiedInit, JustifiedNext, PTL DEF Spec
<1>2. Justified => JustifiedByParams
  BY DEF Justified, Witnessed, JustifiedByParams
<1>3. QED BY <1>1, <1>2, PTL
=============================================================================

--------------------------- MODULE ManagerProofs ----------------------------
(***************************************************************************)
(* Proofs about Manager for any threads and any number of calls: the type  *)
(* invariant, that channels are destroyed by set_default only and leaked   *)
(* by nobody, and that a default set at the start outlives every reference *)
(* to it.                                                                  *)
(***************************************************************************)
EXTENDS Manager, FiniteSetTheorems, TLAPS

\* Where a thread can be in each of the member functions.
InFunction(t) ==
  /\ fn[t] = "set_default" => pc[t] \in {"idle", "lock", "make", "swap_in", "delete", "unlock"}
  /\ fn[t] = "default_channel" => pc[t] \in {"idle", "check", "give"} /\ usage = "startup"

\* Where a thread holds the mutex.
Inside(t) ==
  \/ pc[t] \in {"make", "swap_in", "delete", "announce", "unlock"}
  \/ pc[t] \in {"check", "give"} /\ fn[t] = "get_channel"

Exclusion == \A t \in Threads : InFunction(t) /\ (Inside(t) <=> m_mutex = t)

\* The thread that makes or replaces the default, and what is in its hands: the
\* channel it has made is new, and the one it deletes is not the default any more.
Making(t) ==
  /\ pc[t] = "swap_in" => fresh[t] \in 1..made /\ fresh[t] # m_default /\ fresh[t] \notin destroyed
  /\ pc[t] = "delete" => /\ m_default # None
                         /\ old[t] # m_default /\ old[t] \notin destroyed
                         /\ old[t] \in 0..made
  /\ pc[t] \in {"make", "swap_in"} /\ fn[t] = "get_channel" => m_default = None
  /\ pc[t] = "delete" /\ fn[t] = "get_channel" => old[t] = None

\* The channels there are.
Channels ==
  /\ m_default \in 0..made /\ destroyed \subseteq 1..made /\ builtin \subseteq 1..made
  /\ destroyed = replaced
  /\ NoLeak

\* There is one builtin channel at most, and from the moment it is made there
\* is a default or a thread that is about to store one.
OneBuiltin ==
  /\ \A b, c \in builtin : b = c
  /\ builtin # {} /\ m_default = None =>
       \E t \in Threads : pc[t] = "swap_in" /\ fn[t] = "get_channel"

\* Nothing is there before the first call.
Beginning ==
  /\ \A t \in Threads : calls[t] = 0 => pc[t] = "idle" /\ handle[t] = None
  /\ (\A t \in Threads : calls[t] = 0) => m_default = None

Setting(t) == fn[t] = "set_default" /\ pc[t] # "idle"

\* A program that sets the default first: while it does, nobody else has
\* called anything; from then on there is a default, which stays.
Startup(t) ==
  /\ Setting(t) =>
       /\ \A u \in Threads : handle[u] = None /\ (u # t => calls[u] = 0)
       /\ pc[t] \in {"lock", "make", "swap_in"} => m_default = None
       /\ pc[t] = "delete" => old[t] = None
  /\ pc[t] # "idle" /\ fn[t] # "set_default" =>
       m_default # None /\ pc[t] \in {"lock", "check", "give", "unlock"}
  /\ handle[t] # None => handle[t] = m_default

StartedUp == usage = "startup" => destroyed = {} /\ \A t \in Threads : Startup(t)

\* The inductive invariant.
IInv ==
  /\ TypeOK
  /\ Exclusion
  /\ \A t \in Threads : Making(t)
  /\ Channels /\ OneBuiltin
  /\ Beginning /\ StartedUp

-----------------------------------------------------------------------------
\* The initial states satisfy the invariant.
LEMMA InvInit == Init => IInv
  BY ManagerAssumption
  DEF Init, IInv, TypeOK, Usages, None, Exclusion, InFunction, Inside, Making, Channels,
      NoLeak, OneBuiltin, Beginning, StartedUp, Startup, Setting

\* Every step keeps the types.
LEMMA TypeNext == TypeOK /\ [Next]_vars => TypeOK'
<1> SUFFICES ASSUME TypeOK, [Next]_vars PROVE TypeOK'
  OBVIOUS
<1> USE ManagerAssumption DEF TypeOK, Goto, None, Usages
<1>1. ASSUME NEW t \in Threads, NEW f \in Entries, Call(t, f), UNCHANGED usage PROVE TypeOK'
  BY <1>1 DEF Call, Entries
<1>2. ASSUME NEW t \in Threads, Lock(t), UNCHANGED usage PROVE TypeOK'
  BY <1>2 DEF Lock
<1>3. ASSUME NEW t \in Threads, Check(t), UNCHANGED usage PROVE TypeOK'
  BY <1>3 DEF Check
<1>4. ASSUME NEW t \in Threads, Make(t), UNCHANGED usage PROVE TypeOK'
  BY <1>4 DEF Make
<1>5. ASSUME NEW t \in Threads, SwapIn(t), UNCHANGED usage PROVE TypeOK'
  BY <1>5 DEF SwapIn
<1>6. ASSUME NEW t \in Threads, Delete(t), UNCHANGED usage PROVE TypeOK'
  <2>1. {old[t]} \ {None} \subseteq 1..MaxChannels
    OBVIOUS
  <2>2. destroyed' \in SUBSET (1..MaxChannels)
    BY <1>6, <2>1 DEF Delete
  <2>3. replaced' \in SUBSET (1..MaxChannels)
    BY <1>6, <2>1 DEF Delete
  <2>4. old' \in [Threads -> 0..MaxChannels]
    BY <1>6 DEF Delete
  <2>5. QED BY <1>6, <2>2, <2>3, <2>4 DEF Delete
<1>7. ASSUME NEW t \in Threads, Announce(t), UNCHANGED usage PROVE TypeOK'
  BY <1>7 DEF Announce
<1>8. ASSUME NEW t \in Threads, Give(t), UNCHANGED usage PROVE TypeOK'
  BY <1>8 DEF Give
<1>9. ASSUME NEW t \in Threads, Unlock(t), UNCHANGED usage PROVE TypeOK'
  BY <1>9 DEF Unlock
<1>10. CASE UNCHANGED vars
  BY <1>10 DEF vars
<1>11. QED
  BY <1>1, <1>2, <1>3, <1>4, <1>5, <1>6, <1>7, <1>8, <1>9, <1>10 DEF Next, Step

\* A call only moves its thread to the door.
LEMMA CallKeeps ==
  ASSUME IInv, NEW t \in Threads, NEW f \in Entries, Call(t, f), UNCHANGED usage
  PROVE  /\ Exclusion' /\ (\A u \in Threads : Making(u)') /\ Channels' /\ OneBuiltin'
         /\ Beginning' /\ StartedUp'
<1> USE ManagerAssumption DEF IInv, TypeOK, Call, Goto, None, Entries
<1>1. Exclusion'
  BY DEF Exclusion, InFunction, Inside
<1>2. \A u \in Threads : Making(u)'
  BY DEF Making
<1>3. Channels' /\ OneBuiltin'
  BY DEF Channels, NoLeak, OneBuiltin
<1>4. Beginning'
  BY DEF Beginning
<1>5. ASSUME usage = "startup", NEW u \in Threads PROVE Startup(u)'
  BY <1>5 DEF StartedUp, Startup, Setting, Beginning
<1>6. QED BY <1>1, <1>2, <1>3, <1>4, <1>5 DEF StartedUp

\* So do the steps that change neither channels nor the default.
LEMMA OtherStepsKeep ==
  ASSUME IInv, NEW t \in Threads, UNCHANGED usage,
         Lock(t) \/ Check(t) \/ Announce(t) \/ Give(t) \/ Unlock(t)
  PROVE  /\ Exclusion' /\ (\A u \in Threads : Making(u)') /\ Channels' /\ OneBuiltin'
         /\ Beginning' /\ StartedUp'
<1> USE ManagerAssumption DEF IInv, TypeOK, Lock, Check, Announce, Give, Unlock, Goto, None
<1>1. Exclusion'
  BY DEF Exclusion, InFunction, Inside, StartedUp, Startup
<1>2. \A u \in Threads : Making(u)'
  BY DEF Making, Exclusion, InFunction, StartedUp, Startup
<1>3. Channels' /\ OneBuiltin'
  <2>1. \A u \in Threads : \A where \in {"swap_in", "delete"} : pc'[u] = where <=> pc[u] = where
    OBVIOUS
  <2>2. UNCHANGED <<m_default, made, destroyed, builtin, old, fresh, replaced>>
    OBVIOUS
  <2>3. NoLeak'
    <3> USE ONLY <2>1, <2>2, IInv DEF IInv, Channels
    <3>1. QED BY DEF NoLeak
  <2>4. Channels'
    <3> USE ONLY <2>2, <2>3, IInv DEF IInv
    <3>1. QED BY DEF Channels
  <2>5. OneBuiltin'
    BY <2>1 DEF OneBuiltin
  <2>6. QED BY <2>4, <2>5
<1>4. Beginning'
  BY DEF Beginning
<1>5. ASSUME usage = "startup", NEW u \in Threads PROVE Startup(u)'
  BY <1>5 DEF StartedUp, Startup, Setting, Beginning, Exclusion, InFunction
<1>6. QED BY <1>1, <1>2, <1>3, <1>4, <1>5 DEF StartedUp

\* Making a channel: its number is new.
LEMMA MakeKeeps ==
  ASSUME IInv, NEW t \in Threads, Make(t), UNCHANGED usage
  PROVE  /\ Exclusion' /\ (\A u \in Threads : Making(u)') /\ Channels' /\ OneBuiltin'
         /\ Beginning' /\ StartedUp'
<1> USE ManagerAssumption DEF IInv, TypeOK, Make, Goto, None
<1>0. \A u \in Threads : u # t => ~ Inside(u)
  BY DEF Exclusion, Inside
<1>1. Exclusion'
  BY DEF Exclusion, InFunction, Inside
<1>2. \A u \in Threads : Making(u)'
  BY DEF Making, Channels
<1>3. Channels'
  BY DEF Channels, NoLeak
<1>4. OneBuiltin'
  BY <1>0 DEF OneBuiltin, Making, Exclusion, InFunction, Inside
<1>5. Beginning'
  BY DEF Beginning
<1>6. ASSUME usage = "startup", NEW u \in Threads PROVE Startup(u)'
  <2>1. Setting(t) /\ Startup(t) /\ Startup(u) /\ destroyed = {}
    BY <1>6 DEF StartedUp, Startup, Setting
  <2>2. CASE u = t
    BY <2>1, <2>2 DEF Startup, Setting
  <2>3. CASE u # t
    BY <2>1, <2>3 DEF Startup, Setting
  <2>4. QED BY <2>2, <2>3
<1>7. QED BY <1>1, <1>2, <1>3, <1>4, <1>5, <1>6 DEF StartedUp

\* Storing the new default: the old one is in the hands of the thread.
LEMMA SwapInKeeps ==
  ASSUME IInv, NEW t \in Threads, SwapIn(t), UNCHANGED usage
  PROVE  /\ Exclusion' /\ (\A u \in Threads : Making(u)') /\ Channels' /\ OneBuiltin'
         /\ Beginning' /\ StartedUp'
<1> USE ManagerAssumption DEF IInv, TypeOK, SwapIn, Goto, None
<1>0. \A u \in Threads : u # t => ~ Inside(u)
  BY DEF Exclusion, Inside
<1>1. Exclusion'
  BY DEF Exclusion, InFunction, Inside
<1>2. \A u \in Threads : Making(u)'
  BY <1>0 DEF Making, Channels, Inside, NoLeak
<1>3. Channels'
  <2>1. NoLeak'
    <3>1. m_default' \notin destroyed'
      BY DEF Making
    <3>2. ASSUME NEW c \in 1..made, c \notin destroyed, c # fresh[t]
          PROVE  c = m_default
      BY <1>0, <3>2 DEF Channels, NoLeak, Inside
    <3>3. old'[t] = m_default /\ pc'[t] = "delete" /\ m_default' = fresh[t]
      OBVIOUS
    <3>4. QED BY <3>1, <3>2, <3>3 DEF NoLeak
  <2>2. QED BY <2>1 DEF Channels, Making
<1>4. OneBuiltin'
  BY DEF OneBuiltin, Making
<1>5. Beginning'
  BY DEF Beginning
<1>6. ASSUME usage = "startup", NEW u \in Threads PROVE Startup(u)'
  <2>1. Setting(t) /\ Startup(t) /\ Startup(u) /\ destroyed = {} /\ fresh[t] # None
    BY <1>6 DEF StartedUp, Startup, Setting, Making
  <2>2. CASE u = t
    BY <2>1, <2>2 DEF Startup, Setting
  <2>3. CASE u # t
    <3>1. calls[u] = 0 /\ handle[u] = None /\ pc[u] = "idle"
      BY <2>1, <2>3 DEF Startup, Beginning
    <3>2. pc'[u] = "idle" /\ handle'[u] = None
      BY <2>3, <3>1
    <3>3. QED BY <3>2 DEF Startup, Setting
  <2>4. QED BY <2>2, <2>3
<1>7. QED BY <1>1, <1>2, <1>3, <1>4, <1>5, <1>6 DEF StartedUp

\* Deleting the old default: only set_default has one.
LEMMA DeleteKeeps ==
  ASSUME IInv, NEW t \in Threads, Delete(t), UNCHANGED usage
  PROVE  /\ Exclusion' /\ (\A u \in Threads : Making(u)') /\ Channels' /\ OneBuiltin'
         /\ Beginning' /\ StartedUp'
<1> USE ManagerAssumption DEF IInv, TypeOK, Delete, Goto, None
<1>0. \A u \in Threads : u # t => ~ Inside(u)
  BY DEF Exclusion, Inside
<1>1. Exclusion'
  BY DEF Exclusion, InFunction, Inside
<1>2. \A u \in Threads : Making(u)'
  BY <1>0 DEF Making, Inside
<1>3. Channels'
  <2>1. destroyed' = destroyed \cup ({old[t]} \ {None}) /\ destroyed' = replaced'
    BY DEF Channels, Making, Exclusion, InFunction
  <2>2. /\ old[t] # m_default /\ old[t] \in 0..made /\ made \in Nat
        /\ destroyed \subseteq 1..made /\ m_default \notin destroyed
    BY DEF Channels, NoLeak, Making
  <2>3. destroyed' \subseteq 1..made
    <3>1. \A o \in 0..made : {o} \ {0} \subseteq 1..made
      BY ONLY <2>2
    <3>2. {old[t]} \ {None} \subseteq 1..made
      BY ONLY <2>2, <3>1 DEF None
    <3>3. QED BY ONLY <2>1, <2>2, <3>2
  <2>4. m_default \notin destroyed'
    BY ONLY <2>1, <2>2
  <2>5. ASSUME NEW c \in 1..made, c \notin destroyed'
        PROVE  c = m_default
    BY <1>0, <2>1, <2>5 DEF Channels, NoLeak, Inside
  <2>6. NoLeak'
    BY <2>4, <2>5 DEF NoLeak
  <2>7. QED BY <2>1, <2>3, <2>6 DEF Channels
<1>4. OneBuiltin'
  BY DEF OneBuiltin
<1>5. Beginning'
  BY DEF Beginning
<1>6. ASSUME usage = "startup", NEW u \in Threads PROVE destroyed' = {} /\ Startup(u)'
  BY <1>6 DEF StartedUp, Startup, Setting
<1>7. QED BY <1>1, <1>2, <1>3, <1>4, <1>5, <1>6 DEF StartedUp

\* Every step keeps the invariant.
LEMMA InvNext == IInv /\ [Next]_vars => IInv'
<1> SUFFICES ASSUME IInv, [Next]_vars PROVE IInv'
  OBVIOUS
<1>1. TypeOK'
  BY TypeNext DEF IInv
<1>2. CASE UNCHANGED vars
  BY <1>1, <1>2
  DEF IInv, vars, Exclusion, InFunction, Inside, Making, Channels, NoLeak, OneBuiltin,
      Beginning, StartedUp, Startup, Setting
<1>3. ASSUME NEW t \in Threads, NEW f \in Entries, Call(t, f), UNCHANGED usage PROVE IInv'
  BY <1>1, <1>3, CallKeeps DEF IInv
<1>4. ASSUME NEW t \in Threads, Step(t), UNCHANGED usage PROVE IInv'
  BY <1>1, <1>4, OtherStepsKeep, MakeKeeps, SwapInKeeps, DeleteKeeps DEF IInv, Step
<1>5. QED BY <1>2, <1>3, <1>4 DEF Next

\* The inductive invariant is one.
LEMMA Invariance == Spec => []IInv
  BY InvInit, InvNext, PTL DEF Spec

-----------------------------------------------------------------------------
\* Type correctness of the manager.
THEOREM TypeCorrect == Spec => []TypeOK
  BY Invariance, PTL DEF IInv

\* Channels go only because set_default replaces them, and get_channel makes
\* the builtin channel at most once, whoever asks first.
THEOREM BuiltinSafe == Spec => []OnlySetDefaultDestroys
<1>1. IInv => OnlySetDefaultDestroys
  <2> SUFFICES ASSUME IInv PROVE Cardinality(builtin) <= 1
    BY DEF IInv, Channels, OnlySetDefaultDestroys
  <2>1. CASE builtin = {}
    BY <2>1, FS_EmptySet
  <2>2. CASE builtin # {}
    <3>1. PICK b : builtin = {b}
      BY <2>2 DEF IInv, OneBuiltin
    <3>2. QED BY <3>1, FS_Singleton
  <2>3. QED BY <2>1, <2>2
<1>2. QED BY <1>1, Invariance, PTL

\* The default is never a channel that is gone, and every channel that is
\* there is the default or in the hands of the thread that replaces it.
THEOREM NothingLeaks == Spec => []NoLeak
  BY Invariance, PTL DEF IInv, Channels

\* If the default is set first, every reference that was ever handed out is to
\* the one default there is, and that exists.
THEOREM DefaultLives == Spec => []OneLivingDefault
<1>1. IInv => OneLivingDefault
  BY DEF IInv, StartedUp, Startup, OneLivingDefault, Usages
<1>2. QED BY <1>1, Invariance, PTL
=============================================================================

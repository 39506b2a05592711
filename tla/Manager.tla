------------------------------ MODULE Manager -------------------------------
(***************************************************************************)
(* corecpp::diagnostic::manager (include/corecpp/diagnostic.h and          *)
(* src/diagnostic_manager.cpp): the singleton that owns the default        *)
(* channel and hands out references to it.                                 *)
(*                                                                         *)
(* get_channel and set_default hold m_mutex, default_channel does not.     *)
(* Nothing registers a named channel, so m_channels is always empty and    *)
(* get_channel always falls back to the default one.  A channel that was   *)
(* handed out is used later, without the manager: what matters is that it  *)
(* still exists then.                                                      *)
(***************************************************************************)
EXTENDS Naturals, FiniteSets

CONSTANTS Threads,
          NoThread,
          MaxCalls,    \* bound: how many calls each thread makes
          MaxChannels  \* bound: how many channels are made

None == 0              \* the null pointer

ASSUME ManagerAssumption ==
  /\ NoThread \notin Threads
  /\ MaxCalls \in Nat /\ MaxChannels \in Nat

VARIABLES usage,       \* how the program uses the manager, see Usages
          m_default,   \* the channel m_default owns, or None
          m_mutex,     \* the thread that holds the manager's mutex
          made,        \* how many channels have been made: 1..made
          destroyed,   \* the channels that have been destroyed
          builtin,     \* the channels made for want of a default
          pc,          \* where each thread is
          fn,          \* fn[t]: the member function t is in
          old,         \* old[t]: what unique_ptr::reset is about to delete
          fresh,       \* fresh[t]: the channel t has made
          handle,      \* handle[t]: the reference t was given last, or None
          calls,       \* calls[t]: how many calls t has made
          replaced     \* history: the channels set_default has destroyed

vars == <<usage, m_default, m_mutex, made, destroyed, builtin, pc, fn, old, fresh,
          handle, calls, replaced>>

\* "locked": get_channel and set_default, at any time.
\* "startup": set_default is called once, before everything else.
\* (Calling default_channel before there is a default races with the others
\* for m_default: what that does is undefined.)
Usages == {"locked", "startup"}
Entries == {"get_channel", "set_default"} \cup (IF usage = "startup" THEN {"default_channel"} ELSE {})

Init ==
  /\ usage \in Usages
  /\ m_default = None
  /\ m_mutex = NoThread
  /\ made = 0
  /\ destroyed = {}
  /\ builtin = {}
  /\ pc = [t \in Threads |-> "idle"]
  /\ fn \in [Threads -> {"get_channel"}]
  /\ old = [t \in Threads |-> None]
  /\ fresh = [t \in Threads |-> None]
  /\ handle = [t \in Threads |-> None]
  /\ calls = [t \in Threads |-> 0]
  /\ replaced = {}

Goto(t, from, to) ==
  /\ pc[t] = from
  /\ pc' = [pc EXCEPT ![t] = to]

\* A thread enters one of the static member functions.
Call(t, f) ==
  /\ Goto(t, "idle", IF f = "default_channel" THEN "check" ELSE "lock")
  /\ calls[t] < MaxCalls
  /\ usage = "startup" =>
                \/ f = "set_default" /\ \A u \in Threads : calls[u] = 0
                \/ f # "set_default" /\ m_default # None
                     /\ \A u \in Threads : fn[u] # "set_default" \/ pc[u] = "idle"
  /\ fn' = [fn EXCEPT ![t] = f]
  /\ calls' = [calls EXCEPT ![t] = @ + 1]
  /\ UNCHANGED <<m_default, m_mutex, made, destroyed, builtin, old, fresh, handle, replaced>>

\* lock_guard in _get_channel and in set_default.  m_channels.find fails.
Lock(t) ==
  /\ Goto(t, "lock", IF fn[t] = "set_default" THEN "make" ELSE "check")
  /\ m_mutex = NoThread
  /\ m_mutex' = t
  /\ UNCHANGED <<m_default, made, destroyed, builtin, fn, old, fresh, handle, calls, replaced>>

\* Mutant: the builtin channel is made without looking.
CheckNothing(t) ==
  /\ Goto(t, "check", "make")
  /\ UNCHANGED <<m_default, m_mutex, made, destroyed, builtin, fn, old, fresh, handle,
                 calls, replaced>>

\* _default_channel: if (!m_default).
Check(t) ==
  /\ Goto(t, "check", IF m_default = None THEN "make" ELSE "give")
  /\ UNCHANGED <<m_default, m_mutex, made, destroyed, builtin, fn, old, fresh, handle,
                 calls, replaced>>

\* new channel(level, app): the caller's, or the builtin console.
Make(t) ==
  /\ Goto(t, "make", "swap_in")
  /\ made < MaxChannels
  /\ made' = made + 1
  /\ fresh' = [fresh EXCEPT ![t] = made + 1]
  /\ builtin' = IF fn[t] = "set_default" THEN builtin ELSE builtin \cup {made + 1}
  /\ UNCHANGED <<m_default, m_mutex, destroyed, fn, old, handle, calls, replaced>>

\* Mutant: the old channel is released instead of kept for deletion.
SwapInReleasing(t) ==
  /\ Goto(t, "swap_in", "delete")
  /\ m_default' = fresh[t]
  /\ UNCHANGED <<m_mutex, made, destroyed, builtin, fn, old, fresh, handle, calls, replaced>>

\* unique_ptr::reset keeps the old pointer and stores the new one ...
SwapIn(t) ==
  /\ Goto(t, "swap_in", "delete")
  /\ old' = [old EXCEPT ![t] = m_default]
  /\ m_default' = fresh[t]
  /\ UNCHANGED <<m_mutex, made, destroyed, builtin, fn, fresh, handle, calls, replaced>>

\* ... and deletes the old one.
Delete(t) ==
  /\ Goto(t, "delete", IF fn[t] = "set_default" THEN "unlock" ELSE "announce")
  /\ destroyed' = destroyed \cup ({old[t]} \ {None})
  /\ replaced' = IF fn[t] = "set_default" THEN replaced \cup ({old[t]} \ {None})
                 ELSE replaced
  /\ old' = [old EXCEPT ![t] = None]
  /\ UNCHANGED <<m_default, m_mutex, made, builtin, fn, fresh, handle, calls>>

\* _default_channel logs that the builtin is used, at a level above that of
\* the channel: the channel is touched and nothing is written.
Announce(t) ==
  /\ Goto(t, "announce", "give")
  /\ handle' = [handle EXCEPT ![t] = m_default]
  /\ UNCHANGED <<m_default, m_mutex, made, destroyed, builtin, fn, old, fresh, calls, replaced>>

\* return *m_default.
Give(t) ==
  /\ Goto(t, "give", IF fn[t] = "get_channel" THEN "unlock" ELSE "idle")
  /\ handle' = [handle EXCEPT ![t] = m_default]
  /\ UNCHANGED <<m_default, m_mutex, made, destroyed, builtin, fn, old, fresh, calls, replaced>>

Unlock(t) ==
  /\ Goto(t, "unlock", "idle")
  /\ m_mutex' = NoThread
  /\ UNCHANGED <<m_default, made, destroyed, builtin, fn, old, fresh, handle, calls, replaced>>

Step(t) ==
  \/ Lock(t) \/ Check(t) \/ Make(t) \/ SwapIn(t) \/ Delete(t) \/ Announce(t)
  \/ Give(t) \/ Unlock(t)

Next ==
  /\ \E t \in Threads : (\E f \in Entries : Call(t, f)) \/ Step(t)
  /\ UNCHANGED usage

Spec == Init /\ [][Next]_vars

-----------------------------------------------------------------------------
\* Every variable has its type.
TypeOK ==
  /\ usage \in Usages
  /\ m_default \in 0..MaxChannels
  /\ m_mutex \in Threads \cup {NoThread}
  /\ made \in 0..MaxChannels
  /\ destroyed \in SUBSET (1..MaxChannels)
  /\ builtin \in SUBSET (1..MaxChannels)
  /\ pc \in [Threads -> {"idle", "lock", "check", "make", "swap_in", "delete",
                         "announce", "give", "unlock"}]
  /\ fn \in [Threads -> {"get_channel", "default_channel", "set_default"}]
  /\ old \in [Threads -> 0..MaxChannels]
  /\ fresh \in [Threads -> 0..MaxChannels]
  /\ handle \in [Threads -> 0..MaxChannels]
  /\ calls \in [Threads -> 0..MaxCalls]
  /\ replaced \in SUBSET (1..MaxChannels)

\* Where get_channel is the only way in, a reference goes bad only because
\* set_default replaced the channel behind it: making the builtin channel on
\* demand happens once, whoever asks first, and never destroys a channel
\* somebody has.
OnlySetDefaultDestroys == destroyed = replaced /\ Cardinality(builtin) <= 1

\* m_default never points to a channel that is gone, and no channel leaks:
\* the only ones alive are the default and those in the hands of a thread
\* that is making or replacing it.
NoLeak ==
  /\ m_default \notin destroyed
  /\ \A c \in 1..made :
       c \notin destroyed =>
         \/ c = m_default
         \/ \E t \in Threads : \/ pc[t] = "swap_in" /\ fresh[t] = c
                               \/ pc[t] = "delete" /\ old[t] = c

\* If the default is set before the threads start, none of the three ways in
\* ever gives a reference that goes bad, and all threads log to one channel.
OneLivingDefault ==
  usage = "startup" => \A t \in Threads :
    handle[t] # None => handle[t] = m_default /\ handle[t] \notin destroyed
=============================================================================

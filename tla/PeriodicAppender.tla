-------------------------- MODULE PeriodicAppender --------------------------
(***************************************************************************)
(* corecpp::diagnostic::periodic_file_appender (include/corecpp/           *)
(* diagnostic.h and src/appender.cpp): events go into a file named after   *)
(* the time of the last roll, and an event that lies after m_timestamp     *)
(* makes the appender roll and move m_timestamp on by whole periods.       *)
(*                                                                         *)
(* Time is counted in ticks of system_clock.  An event carries the time at *)
(* which diagnose built it; roll reads the clock again.  Events come late  *)
(* and the clock may be set in between, so neither time bounds the other.  *)
(* An event is its place in the order of the calls of append.              *)
(***************************************************************************)
EXTENDS Integers, Sequences

CONSTANTS Period,        \* m_period, in ticks
          LocalTime(_),  \* std::localtime: it may give a time twice, or run back
          Template(_),   \* the name put_time makes by m_file_tmpl_name, not for one time only
          Assertions,    \* is assert compiled in (no NDEBUG)
          Failing,       \* can opening a file fail
          MaxTime,       \* bound: how many times there are
          MaxEvents      \* bound: how many events are appended

Closed == -1             \* no file is open

FileName(time) == Template(LocalTime(time))
FileNames == {FileName(t) : t \in 1..MaxTime}

ASSUME PeriodicAssumption ==
  /\ Period \in Nat \ {0}
  /\ Closed \notin FileNames
  /\ Assertions \in BOOLEAN /\ Failing \in BOOLEAN
  /\ MaxTime \in Nat /\ MaxEvents \in Nat

VARIABLES m_timestamp,  \* up to when events stay in the current file
          m_stream,     \* the name of the file that is open, or Closed
          files,        \* name -> the events in that file
          appended,     \* the time stamps of the events append was given, in order
          opener,       \* history: the event that rolled last, 0 before
          dropped,      \* history: the events that found no open file
          refused,      \* history: has opening a file failed
          aborted       \* did the assertion stop the program

vars == <<m_timestamp, m_stream, files, appended, opener, dropped, refused, aborted>>

Init ==
  /\ m_timestamp = 0            \* the epoch
  /\ m_stream = Closed
  /\ files = [n \in FileNames |-> <<>>]
  /\ appended = <<>>
  /\ opener = 0
  /\ dropped = <<>>
  /\ refused = FALSE
  /\ aborted = FALSE

\* Mutant: one period is added, however many have passed.
AdvanceOnce(ts) == Period

\* Mutant: a period too much for an event that is on the boundary of two.
AdvanceBeyond(ts) == Period * ((ts - m_timestamp) \div Period + 1)

\* What append adds to m_timestamp: the quotient of two durations is an
\* integer already, so ceil has nothing to round up.
Advance(ts) == Period * ((ts - m_timestamp) \div Period)

MustRoll(ts) == m_timestamp < ts

\* roll, at the time now: the file named after that time, opened for appending.
Roll(ts, now) ==
  IF MustRoll(ts)
  THEN /\ m_timestamp' = m_timestamp + Advance(ts)
       /\ m_stream' \in {FileName(now)} \cup (IF Failing THEN {Closed} ELSE {})
       /\ refused' = (refused \/ m_stream' = Closed)
       /\ opener' = Len(appended')
  ELSE UNCHANGED <<m_timestamp, m_stream, refused, opener>>

\* Mutant: the file is emptied when it is opened.
WriteAnew(name, ev) ==
  /\ files' = [files EXCEPT ![name] = IF MustRoll(appended'[ev]) THEN <<ev>> ELSE Append(@, ev)]
  /\ UNCHANGED dropped

WriteTo(name, ev) ==
  IF name = Closed
  THEN dropped' = Append(dropped, ev) /\ UNCHANGED files
  ELSE files' = [files EXCEPT ![name] = Append(@, ev)] /\ UNCHANGED dropped

\* append(ev), where ev was built at time ts.
AppendEvent(ts, now) ==
  /\ ~ aborted
  /\ Len(appended) < MaxEvents
  /\ appended' = Append(appended, ts)
  /\ Roll(ts, now)
  /\ IF Assertions /\ m_timestamp' < ts
     THEN aborted' = TRUE /\ UNCHANGED <<files, dropped>>
     ELSE WriteTo(m_stream', Len(appended')) /\ UNCHANGED aborted

Next == \E ts, now \in 1..MaxTime : AppendEvent(ts, now)

Spec == Init /\ [][Next]_vars

-----------------------------------------------------------------------------
\* However many periods pass between two events, and whichever way their number
\* is rounded, no event is a whole period or more behind m_timestamp, and
\* m_timestamp is less than a period ahead of an event that came.
WithinAPeriod ==
  /\ \A i \in DOMAIN appended : appended[i] - m_timestamp < Period
  /\ m_timestamp # 0 => \E i \in DOMAIN appended : m_timestamp - appended[i] < Period

\* A file does not stay open for a period: no event that follows the one that
\* rolled last is a whole period or more later, however late and out of order
\* the events between them came.
OpenForLessThanAPeriod ==
  opener # 0 =>
    \A i \in opener..Len(appended) : appended[i] - appended[opener] < Period

\* What a file holds, or no file.
Within(name) == IF name = Closed THEN dropped ELSE files[name]
Places == DOMAIN files \cup {Closed}

\* Every event is in exactly one file, once, in the order of the calls, and
\* none is lost before opening a file has failed: a roll to a name that there
\* has been goes on with the file instead of starting it again.
EveryEventWritten ==
  /\ ~ aborted => \A ev \in DOMAIN appended :
       \E name \in Places : \E i \in DOMAIN Within(name) : Within(name)[i] = ev
  /\ \A m, n \in Places : \A i \in DOMAIN Within(m), j \in DOMAIN Within(n) :
       /\ m = n /\ i < j => Within(m)[i] < Within(n)[j]
       /\ m # n => Within(m)[i] # Within(n)[j]
  /\ dropped # <<>> => refused

\* assert (m_timestamp >= ev.timestamp)
TimestampCoversEvent == ~ aborted
=============================================================================

---------------------------- MODULE FileAppender ----------------------------
(***************************************************************************)
(* corecpp::diagnostic::file_appender (include/corecpp/diagnostic.h and    *)
(* src/appender.cpp): a log file that is put aside, when it has grown too  *)
(* big, under a name that ends in the local time.                          *)
(*                                                                         *)
(* The appender has no lock of its own and is used by one thread at a time *)
(* (behind an async_appender, or in a program that logs from one thread).  *)
(* Around it the local time goes on and, at the end of summer or when the  *)
(* clock is set, back; the stream's buffer reaches the disk when it likes; *)
(* system calls fail; and the program stops, cleanly or not, and starts    *)
(* again.  An event is a number, given in the order of the calls; its      *)
(* formatted message is as long as MessageSize says.                       *)
(***************************************************************************)
EXTENDS Naturals, Sequences, FiniteSets, SequencesExt

CONSTANTS MessageSize(_),  \* the length of the message of an event
          MaxSizes,        \* the arguments max_file_size is called with
          MaxEvents,       \* bound: how many events are appended
          MaxTime,         \* bound: how many local times there are
          MaxStarts,       \* bound: how often the program starts
          Failing,         \* can writing, rename and reopening fail
          Crashing         \* can the program crash

ASSUME FileAssumption ==
  /\ MaxEvents \in Nat /\ MaxTime \in Nat /\ MaxStarts \in Nat
  /\ \A e \in 1..MaxEvents : MessageSize(e) \in Nat
  /\ MaxSizes \subseteq Nat
  /\ Failing \in BOOLEAN /\ Crashing \in BOOLEAN

Live == 0           \* m_filename; a rolled file is named by a local time

VARIABLES disk,             \* name -> the events in that file
          stream,           \* m_stream: "closed", "good" or "failed"
          buffer,           \* the events in the buffer of m_stream
          m_file_size, m_max_file_size,
          pc,               \* "stopped", "idle", or the step of append
          rolled_name,      \* the local time roll puts into the name
          now,              \* the local time, to the second ("%F-%T")
          ran_back,         \* history: has the local time ever run back
          starts,           \* how often the program has started
          accepted,         \* history: how many events append was given
          overwritten,      \* history: the events of files renamed over
          truncated,        \* history: the events of the file a start emptied
          dropped,          \* history: the events that never reached a file
          stuck             \* history: has a rename failed since the start

files == <<disk, stream, buffer>>
sizes == <<m_file_size, m_max_file_size>>
losses == <<overwritten, truncated, dropped, stuck>>
vars == <<files, sizes, pc, rolled_name, now, ran_back, starts, accepted, losses>>

EventsOf(s) == ToSet(s)

Put(name, s) == [n \in DOMAIN disk \cup {name} |-> IF n = name THEN s ELSE disk[n]]

Init ==
  /\ disk = << >>
  /\ stream = "closed"
  /\ buffer = <<>>
  /\ m_file_size = 0 /\ m_max_file_size = 0
  /\ pc = "stopped"
  /\ rolled_name = Live
  /\ now = 1
  /\ ran_back = FALSE
  /\ starts = 0
  /\ accepted = 0
  /\ overwritten = {} /\ truncated = {} /\ dropped = {}
  /\ stuck = FALSE

\* The constructor.  Opening with out | ate, without in or app, empties the
\* file; tellp is then 0.  (When opening fails it throws and nothing is left.)
Open ==
  /\ pc = "stopped"
  /\ starts < MaxStarts
  /\ starts' = starts + 1
  /\ truncated' = IF Live \in DOMAIN disk THEN truncated \cup EventsOf(disk[Live])
                  ELSE truncated
  /\ disk' = Put(Live, <<>>)
  /\ stream' = "good"
  /\ m_file_size' = 0
  /\ m_max_file_size' = 0
  /\ pc' = "idle"
  /\ stuck' = FALSE
  /\ UNCHANGED <<buffer, rolled_name, now, ran_back, accepted, overwritten, dropped>>

\* max_file_size(size)
SetMaxFileSize ==
  /\ pc = "idle"
  /\ m_max_file_size' \in MaxSizes
  /\ UNCHANGED <<files, m_file_size, pc, rolled_name, now, ran_back, starts, accepted, losses>>

\* Mutant: a file may grow one byte too big.
MustRollLate == m_max_file_size # 0 /\ m_file_size > m_max_file_size + 1

MustRoll == m_max_file_size # 0 /\ m_file_size > m_max_file_size

\* append: an event comes; roll begins by taking the time, unless the file
\* is small enough.
Append_(e) ==
  /\ pc = "idle"
  /\ e = accepted + 1 /\ e <= MaxEvents
  /\ accepted' = e
  /\ IF MustRoll
     THEN rolled_name' = now /\ pc' = "close"
     ELSE pc' = "write" /\ UNCHANGED rolled_name
  /\ UNCHANGED <<files, sizes, now, ran_back, starts, losses>>

\* The first n events of the buffer reach the live file: all of them, unless
\* the disk is full, which nobody looks at; the others are lost.
WriteOut(n) ==
  /\ n = Len(buffer) \/ Failing
  /\ disk' = Put(Live, disk[Live] \o SubSeq(buffer, 1, n))
  /\ dropped' = dropped \cup EventsOf(SubSeq(buffer, n + 1, Len(buffer)))
  /\ buffer' = <<>>

\* m_stream.close() writes what is buffered.
CloseStream ==
  /\ stream' = "closed"
  /\ IF stream = "good" THEN \E n \in 0..Len(buffer) : WriteOut(n)
     ELSE UNCHANGED <<disk, buffer, dropped>>

\* Mutant: what is buffered is thrown away.
CloseDiscarding ==
  /\ pc = "close"
  /\ buffer' = <<>>
  /\ stream' = "closed"
  /\ pc' = "rename"
  /\ UNCHANGED <<disk, sizes, rolled_name, now, ran_back, starts, accepted, losses>>

\* roll closes the stream, whether that writes everything or not.
Close ==
  /\ pc = "close"
  /\ CloseStream
  /\ pc' = "rename"
  /\ UNCHANGED <<sizes, rolled_name, now, ran_back, starts, accepted,
                 overwritten, truncated, stuck>>

\* Mutant: a file that has the new name is continued, not replaced.
RenameExtending ==
  /\ pc = "rename"
  /\ pc' = "reopen"
  /\ \/ /\ Live \in DOMAIN disk
        /\ disk' = [n \in (DOMAIN disk \ {Live}) \cup {rolled_name} |->
                      IF n # rolled_name THEN disk[n]
                      ELSE IF n \in DOMAIN disk THEN disk[n] \o disk[Live] ELSE disk[Live]]
        /\ UNCHANGED stuck
     \/ /\ Failing \/ Live \notin DOMAIN disk
        /\ stuck' = TRUE
        /\ UNCHANGED disk
  /\ UNCHANGED <<stream, buffer, sizes, rolled_name, now, ran_back, starts, accepted,
                 overwritten, truncated, dropped>>

\* roll: rename replaces a file that has the new name; its result is not
\* looked at.
Rename ==
  /\ pc = "rename"
  /\ pc' = "reopen"
  /\ \/ /\ Live \in DOMAIN disk
        /\ overwritten' = IF rolled_name \in DOMAIN disk
                          THEN overwritten \cup EventsOf(disk[rolled_name])
                          ELSE overwritten
        /\ disk' = [n \in (DOMAIN disk \ {Live}) \cup {rolled_name} |->
                      IF n = rolled_name THEN disk[Live] ELSE disk[n]]
        /\ UNCHANGED stuck
     \/ /\ Failing \/ Live \notin DOMAIN disk
        /\ stuck' = TRUE
        /\ UNCHANGED <<disk, overwritten>>
  /\ UNCHANGED <<stream, buffer, sizes, rolled_name, now, ran_back, starts, accepted,
                 truncated, dropped>>

\* Mutant: the size is set back although the file may still be the old one.
ReopenResetting ==
  /\ pc = "reopen"
  /\ pc' = "write"
  /\ stream' = "good"
  /\ disk' = IF Live \in DOMAIN disk THEN disk ELSE Put(Live, <<>>)
  /\ m_file_size' = 0
  /\ UNCHANGED <<buffer, m_max_file_size, rolled_name, now, ran_back, starts, accepted, losses>>

\* roll: m_stream.open(m_filename, out | app), whose result is not looked at
\* either.  m_file_size keeps its value.
Reopen ==
  /\ pc = "reopen"
  /\ pc' = "write"
  /\ \/ /\ stream' = "good"
        /\ disk' = IF Live \in DOMAIN disk THEN disk ELSE Put(Live, <<>>)
     \/ /\ Failing
        /\ stream' = "failed"
        /\ UNCHANGED disk
  /\ UNCHANGED <<buffer, sizes, rolled_name, now, ran_back, starts, accepted, losses>>

\* append: format and write; m_file_size counts the message in any case.
Write ==
  /\ pc = "write"
  /\ IF stream = "good"
     THEN buffer' = Append(buffer, accepted) /\ UNCHANGED dropped
     ELSE dropped' = dropped \cup {accepted} /\ UNCHANGED buffer
  /\ m_file_size' = m_file_size + MessageSize(accepted)
  /\ pc' = "idle"
  /\ UNCHANGED <<disk, stream, m_max_file_size, rolled_name, now, ran_back, starts, accepted,
                 overwritten, truncated, stuck>>

\* The stream's buffer is written out when it is full.
Flush ==
  /\ stream = "good" /\ buffer # <<>>
  /\ \E n \in 0..Len(buffer) :
       /\ WriteOut(n)
       /\ stream' = IF n = Len(buffer) THEN "good" ELSE "failed"
  /\ UNCHANGED <<sizes, pc, rolled_name, now, ran_back, starts, accepted,
                 overwritten, truncated, stuck>>

\* The destructor closes m_stream.
Destroy ==
  /\ pc = "idle"
  /\ pc' = "stopped"
  /\ CloseStream
  /\ UNCHANGED <<sizes, rolled_name, now, ran_back, starts, accepted,
                 overwritten, truncated, stuck>>

\* The program dies, in the middle of an append or not.
Crash ==
  /\ Crashing
  /\ pc # "stopped"
  /\ pc' = "stopped"
  /\ dropped' = dropped \cup EventsOf(buffer)
                  \cup (IF pc = "idle" THEN {} ELSE {accepted})
  /\ buffer' = <<>>
  /\ stream' = "closed"
  /\ UNCHANGED <<disk, sizes, rolled_name, now, ran_back, starts, accepted,
                 overwritten, truncated, stuck>>

Tick ==
  /\ now < MaxTime
  /\ now' = now + 1
  /\ UNCHANGED <<files, sizes, pc, rolled_name, ran_back, starts, accepted, losses>>

\* The end of daylight saving time, or a clock that is set back.
SetBack ==
  /\ now' \in 1..(now - 1)
  /\ ran_back' = TRUE
  /\ UNCHANGED <<files, sizes, pc, rolled_name, starts, accepted, losses>>

Next ==
  \/ Open \/ SetMaxFileSize \/ (\E e \in 1..MaxEvents : Append_(e))
  \/ Close \/ Rename \/ Reopen \/ Write
  \/ Flush \/ Destroy \/ Crash
  \/ Tick \/ SetBack

Spec == Init /\ [][Next]_vars

-----------------------------------------------------------------------------
OnDisk == UNION {EventsOf(disk[n]) : n \in DOMAIN disk}

\* The event append is working on.
InProgress == IF pc \in {"close", "rename", "reopen", "write"} THEN {accepted} ELSE {}

\* Every event is accounted for, once: it is in one file, in the buffer, in
\* progress, or it was lost in one of the three ways an event can be lost (a
\* rolled file of the same name, a start that empties the file, a write
\* that failed or a crash).
Accounted ==
  LET places == <<OnDisk, EventsOf(buffer), InProgress, overwritten, truncated, dropped>>
  IN  /\ UNION {places[i] : i \in DOMAIN places} = 1..accepted
      /\ \A i, j \in DOMAIN places : i # j => places[i] \cap places[j] = {}
      /\ \A m, n \in DOMAIN disk :
           m # n => EventsOf(disk[m]) \cap EventsOf(disk[n]) = {}

\* A rolled file comes before the live one and, unless the local time has run
\* back, before those with later names.
Before(m, n) == m # Live /\ (n = Live \/ (m < n /\ ~ ran_back))

Increasing(s) == \A i, j \in DOMAIN s : i < j => s[i] < s[j]

\* All events of s are older than those of t.
Older(s, t) == \A i \in DOMAIN s, j \in DOMAIN t : s[i] < t[j]

\* Each file is a stretch of the log in the order of the calls, no two files
\* are interwoven, the live file is the newest, and the buffer is newer still,
\* through rolls, failures, restarts and local times that repeat.  The names of
\* the rolled files are in the order of their events as long as the local time
\* has not run back; then they need not be.
Chronological ==
  /\ \A n \in DOMAIN disk : Increasing(disk[n]) /\ Older(disk[n], buffer)
  /\ Increasing(buffer)
  /\ \A m, n \in DOMAIN disk :
       /\ m # n => Older(disk[m], disk[n]) \/ Older(disk[n], disk[m])
       /\ Before(m, n) => Older(disk[m], disk[n])

\* How many bytes the first i events of s are, and all of them.
Total(s) == LET total[i \in 0..Len(s)] == IF i = 0 THEN 0 ELSE total[i - 1] + MessageSize(s[i])
            IN  total
BytesOf(s) == Total(s)[Len(s)]

\* What file_size() reports is never less than what is in the live file and
\* on its way there.
SizeNotUnderestimated ==
  stream = "good" /\ Live \in DOMAIN disk =>
    BytesOf(disk[Live]) + BytesOf(buffer) <= m_file_size

\* Unless a rename has failed, a message only goes into a file that is within
\* the limit in force, although m_file_size is never set back: a file exceeds
\* the limit by its last message at most.
RolledBeforeWrite ==
  pc = "write" /\ stream = "good" /\ ~ stuck /\ m_max_file_size # 0 =>
    BytesOf(disk[Live]) + BytesOf(buffer) <= m_max_file_size
=============================================================================

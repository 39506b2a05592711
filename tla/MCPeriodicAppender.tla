------------------------ MODULE MCPeriodicAppender -------------------------
(***************************************************************************)
(* Instances of PeriodicAppender for TLC: summer ends after the fourth     *)
(* tick, and a template that leaves out a part of the time.                *)
(***************************************************************************)
EXTENDS PeriodicAppender

EndOfSummer(time) == IF time <= 4 THEN time + 2 ELSE time

Repeating(local) == local % 3
=============================================================================

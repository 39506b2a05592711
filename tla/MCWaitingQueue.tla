--------------------------- MODULE MCWaitingQueue ---------------------------
(***************************************************************************)
(* Instances of WaitingQueue for TLC.                                      *)
(***************************************************************************)
EXTENDS WaitingQueue, Functions

CONSTANT MaxTotal   \* a bound on the calls of all threads together

\* Only calls are held back by it, which no thread has to make: it takes
\* nothing away from what fairness asks for.
CallsInTotal == FoldFunction(+, 0, calls') <= MaxTotal
=============================================================================

-------------------------- MODULE MCFileAppender ---------------------------
(***************************************************************************)
(* Instances of FileAppender for TLC: short and long messages alternate.   *)
(***************************************************************************)
EXTENDS FileAppender

Alternating(e) == 1 + (e % 2)
=============================================================================

-------------------------- MODULE MCAsyncAppender ---------------------------
(***************************************************************************)
(* The instance of AsyncAppender for TLC.  Its run checks liveness, so     *)
(* that no symmetry is declared.                                           *)
(***************************************************************************)
EXTENDS AsyncAppender
=============================================================================

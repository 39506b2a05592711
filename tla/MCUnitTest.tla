----------------------------- MODULE MCUnitTest -----------------------------
(***************************************************************************)
(* An instance of UnitTest for TLC.                                        *)
(***************************************************************************)
EXTENDS UnitTest
=============================================================================

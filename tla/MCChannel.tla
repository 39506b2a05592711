------------------------------ MODULE MCChannel -----------------------------
(***************************************************************************)
(* Instances of Channel for TLC: two channels and the levels around one    *)
(* the threads log at, with and without debug.                             *)
(***************************************************************************)
EXTENDS Channel, Sequences, TLC

CONSTANTS c1, c2

SinkOf == (c1 :> "first") @@ (c2 :> "second")

Crossed == {<<c1, c2>>, <<c2, c1>>, <<c1, c1>>}

Symmetry == Permutations(Threads)
=============================================================================

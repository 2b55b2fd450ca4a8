-------------------------- MODULE MCConcurrentOutput --------------------------
(***************************************************************************)
(* Instances of ConcurrentOutput: outputs of less than a block and of more *)
(* than one, that differ at once or that another continues.  The runs are  *)
(* alike, so that they may be exchanged.                                   *)
(***************************************************************************)
EXTENDS ConcurrentOutput

MCOutputs == {<<1>>, <<2>>, <<1, 2, 1>>}
Symmetry == Permutations(Runs)
=============================================================================

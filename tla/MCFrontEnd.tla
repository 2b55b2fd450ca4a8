------------------------------- MODULE MCFrontEnd -------------------------------
(***************************************************************************)
(* Every text of up to MaxDefinitions definitions, read and resolved.      *)
(***************************************************************************)
EXTENDS FrontEnd

Symmetry == Permutations(Names)
=============================================================================

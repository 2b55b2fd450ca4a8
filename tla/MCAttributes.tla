----------------------------- MODULE MCAttributes -----------------------------
(***************************************************************************)
(* Every interface of up to MaxAttributes attributes with every choice of  *)
(* accessors the binding may write.  Two attributes may have one name, as  *)
(* they may when a mixin is merged into an interface.                      *)
(***************************************************************************)
EXTENDS Attributes
=============================================================================

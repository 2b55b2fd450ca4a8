---------------------------- MODULE MCGeneratedCall -----------------------------
(***************************************************************************)
(* Calls of operations with up to MaxArguments arguments and up to         *)
(* MaxPassed values, and of every accessor.                                *)
(***************************************************************************)
EXTENDS GeneratedCall
=============================================================================

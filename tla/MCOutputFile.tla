----------------------------- MODULE MCOutputFile -----------------------------
(***************************************************************************)
(* Instances of OutputFile: outputs that agree in a block, differ in one,  *)
(* end within a block or at its end; in MCPrefix one continues the other.  *)
(***************************************************************************)
EXTENDS OutputFile

MCOutputs == {<<1, 1, 1>>, <<1, 1, 2, 2>>, <<1, 2>>, <<2, 1, 2>>, <<1, 1, 2, 1, 1>>}
MCPrefix == {<<1, 2, 1>>, <<1, 2>>, <<1, 2, 1, 1>>}
=============================================================================

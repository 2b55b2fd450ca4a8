---------------------------- MODULE MCLibdomOutput ----------------------------
(***************************************************************************)
(* Instances of LibdomOutput: every map of N entries whose init methods    *)
(* have one of a few parameter lists, with the README's alias among them.  *)
(***************************************************************************)
EXTENDS LibdomOutput

Param(i, a) == [id |-> i, alias |-> a]
MCParams == {<<>>, <<Param("node", Null)>>, <<Param("element", "node")>>,
             <<Param("other", Null), Param("node", Null)>>}
=============================================================================

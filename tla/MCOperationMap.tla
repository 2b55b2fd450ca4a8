--------------------------- MODULE MCOperationMap ---------------------------
(***************************************************************************)
(* Instance of OperationMap: every sequence of up to MaxOps operations.    *)
(***************************************************************************)
EXTENDS OperationMap

CONSTANT MaxOps             \* bound on the operations of an interface

MCArgs == {<<>>, <<"plain", "optional">>}

MCInit == /\ \E n \in 0 .. MaxOps : ops \in [1 .. n -> Operation]
          /\ Init

MCSpec == MCInit /\ [][Next]_vars
=============================================================================

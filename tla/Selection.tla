------------------------------- MODULE Selection ------------------------------
(***************************************************************************)
(* What a loop leaves of a list when it skips some elements.  SelectSeq of *)
(* the standard module Sequences says the same of an operator where this   *)
(* takes a set, but the provers know nothing of its definition.            *)
(***************************************************************************)
EXTENDS Integers, Sequences

(* the elements of s that are in T, in their order *)
Selected(s, T) ==
  LET upto[n \in 0 .. Len(s)] ==
        IF n = 0 THEN <<>>
        ELSE IF s[n] \in T THEN Append(upto[n-1], s[n]) ELSE upto[n-1]
  IN  upto[Len(s)]
=============================================================================

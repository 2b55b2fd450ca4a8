----------------------------- MODULE EntryOrder -----------------------------
(***************************************************************************)
(* What ir_new promises its callers about the order of the entry map, with *)
(* no word on how the order is found: either every entry is placed once,   *)
(* with the entry it inherits from somewhere before it, or the map is      *)
(* refused, and then only because some entries inherit from one another in *)
(* a circle.                                                               *)
(***************************************************************************)
EXTENDS Integers

CONSTANT N                      \* entryc, the number of entries of the map
Idx == 0 .. N-1

VARIABLES
  parent,       \* parent[e]: entry that e inherits from, -1 if not in the map
  verdict,      \* "pending", "ordered" or "refused"
  order         \* order[k]: the entry at index k once ordered

absVars == <<parent, verdict, order>>

NoOrder == [k \in Idx |-> -1]

(* every entry occurs at exactly one index *)
Permutation(f) == \A e \in Idx : \E k \in Idx :
                     f[k] = e /\ \A m \in Idx : f[m] = e => m = k

(* the entry inherited from stands before the one that inherits *)
ParentsBefore(f) == \A k, m \in Idx : parent[f[k]] = f[m] => m < k

(* a set of entries in which every member is inherited from by a member *)
Knot(S) == S # {} /\ \A p \in S : \E c \in S : parent[c] = p

AbsInit == /\ parent \in [Idx -> Idx \cup {-1}]
           /\ verdict = "pending"
           /\ order = NoOrder

Arrange == /\ verdict = "pending"
           /\ verdict' = "ordered"
           /\ order' \in [Idx -> Idx]
           /\ Permutation(order')
           /\ ParentsBefore(order')
           /\ UNCHANGED parent

Refuse == /\ verdict = "pending"
          /\ \E S \in SUBSET Idx : Knot(S)
          /\ verdict' = "refused"
          /\ UNCHANGED <<parent, order>>

AbsNext == Arrange \/ Refuse

AbsSafety == AbsInit /\ [][AbsNext]_absVars

AbsSpec == AbsSafety /\ WF_absVars(AbsNext)
=============================================================================

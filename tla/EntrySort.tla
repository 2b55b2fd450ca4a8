------------------------------ MODULE EntrySort ------------------------------
(***************************************************************************)
(* The ordering of the entry map in ir.c: entry_map_new has filled one     *)
(* entry per interface and then one per dictionary, in AST order; it then  *)
(* links every entry to the one it inherits from                           *)
(* (compute_inherit_refcount), sorts (entry_topoligical_sort) and links    *)
(* the sorted map again.  Everything the back end emits follows the order  *)
(* and the links found here.                                               *)
(*                                                                         *)
(* An entry is known by its index in the unsorted map, which stands for    *)
(* its AST node; name and inherit_name are what the AST says of it.        *)
(* Nothing keeps an interface and a dictionary from sharing a name, so     *)
(* names need not be distinct.                                             *)
(***************************************************************************)
EXTENDS Integers, FiniteSets

CONSTANTS
  N,        \* entryc
  Names,    \* identifiers that may name an entry or be inherited from
  Null      \* the NULL inherit_name of an entry that inherits nothing

ASSUME NAssumption == N \in Nat
ASSUME NullAssumption == Null \notin Names

Idx == 0 .. N-1

VARIABLES
  name,           \* name[e]: the identifier of node e
  inherit_name,   \* inherit_name[e]: what e says it inherits from, or Null
  inherit_idx,    \* of the map being linked: index of the parent entry or -1
  refcount,       \* of the map being linked: entries that inherit from it
  left,           \* entries of the source map whose name is not yet cleared
  dst,            \* dst[k]: entry copied to index k of the output map, or -1
  i,              \* loop index of the running loop
  pc              \* "link", "sort", "relink", "done" or "failed"

vars == <<name, inherit_name, inherit_idx, refcount, left, dst, i, pc>>

-----------------------------------------------------------------------------
(* index of the first other entry whose name is the one inherited from; nm
   and inh are the name and inherit_name columns of the map at hand *)
Matches(nm, inh, e) == {f \in Idx \ {e} : nm[f] = inh[e]}
FirstMatch(nm, inh, e) ==
  LET M == Matches(nm, inh, e)
  IN  IF M = {} THEN -1 ELSE CHOOSE f \in M : \A g \in M : f <= g

(* one turn of the outer loop of compute_inherit_refcount on that map *)
LinkEntry(nm, inh) ==
  LET p == FirstMatch(nm, inh, i)
  IN  /\ i < N
      /\ inherit_idx' = [inherit_idx EXCEPT ![i] = p]
      /\ refcount' = [f \in Idx |-> refcount[f] + IF f = p THEN 1 ELSE 0]
      /\ i' = i + 1

(* columns of the output map, whose index k holds entry dst[k] *)
SortedName == [k \in Idx |-> name[dst[k]]]
SortedInherit == [k \in Idx |-> inherit_name[dst[k]]]

(* mistake: the walk does not ask for a refcount of zero *)
ReadyAny == left

(* entries the walk of the source map may stop at *)
Ready == {e \in left : refcount[e] = 0}

Init == /\ name \in [Idx -> Names]
        /\ inherit_name \in [Idx -> Names \cup {Null}]
        /\ inherit_idx = [e \in Idx |-> 0]
        /\ refcount = [e \in Idx |-> 0]
        /\ left = Idx
        /\ dst = [k \in Idx |-> -1]
        /\ i = 0
        /\ pc = "link"

Link == /\ pc = "link"
        /\ LinkEntry(name, inherit_name)
        /\ UNCHANGED <<name, inherit_name, left, dst, pc>>

LinkEnd == /\ pc = "link" /\ i = N
           /\ pc' = "sort"
           /\ i' = N - 1
           /\ UNCHANGED <<name, inherit_name, inherit_idx, refcount, left, dst>>

(* mistake: the reference of a placed entry on its parent is kept *)
PlaceKeepingReference ==
  /\ pc = "sort" /\ i >= 0
  /\ \E e \in Ready :
       /\ \A f \in Ready : e <= f
       /\ dst' = [dst EXCEPT ![i] = e]
       /\ left' = left \ {e}
  /\ i' = i - 1
  /\ UNCHANGED <<name, inherit_name, inherit_idx, refcount, pc>>

(* mistake: the name of a placed entry is not cleared in the source map *)
PlaceKeepingName ==
  /\ pc = "sort" /\ i >= 0
  /\ \E e \in Ready :
       /\ \A f \in Ready : e <= f
       /\ dst' = [dst EXCEPT ![i] = e]
       /\ refcount' = [f \in Idx |->
             refcount[f] - IF f = inherit_idx[e] THEN 1 ELSE 0]
  /\ i' = i - 1
  /\ UNCHANGED <<name, inherit_name, inherit_idx, left, pc>>

(* the first ready entry goes to the last free index of the output map *)
Place == /\ pc = "sort" /\ i >= 0
         /\ \E e \in Ready :
              /\ \A f \in Ready : e <= f
              /\ dst' = [dst EXCEPT ![i] = e]
              /\ refcount' = [f \in Idx |->
                    refcount[f] - IF f = inherit_idx[e] THEN 1 ELSE 0]
              /\ left' = left \ {e}
         /\ i' = i - 1
         /\ UNCHANGED <<name, inherit_name, inherit_idx, pc>>

(* mistake: the walk starts over instead of giving up *)
StuckRetry == /\ pc = "sort" /\ i >= 0
              /\ Ready = {}
              /\ UNCHANGED vars

(* the walk ran off the end: the output map is freed and ir_new fails *)
Stuck == /\ pc = "sort" /\ i >= 0
         /\ Ready = {}
         /\ pc' = "failed"
         /\ UNCHANGED <<name, inherit_name, inherit_idx, refcount, left, dst, i>>

(* the output map was allocated zeroed and only names, node, class, type
   and payload were copied, so its links start from zero again *)
SortEnd == /\ pc = "sort" /\ i = -1
           /\ pc' = "relink"
           /\ i' = 0
           /\ inherit_idx' = [k \in Idx |-> 0]
           /\ refcount' = [k \in Idx |-> 0]
           /\ UNCHANGED <<name, inherit_name, left, dst>>

Relink == /\ pc = "relink"
          /\ LinkEntry(SortedName, SortedInherit)
          /\ UNCHANGED <<name, inherit_name, left, dst, pc>>

(* mistake: the loop stops one entry short *)
RelinkEndEarly ==
  /\ pc = "relink" /\ i = N-1
  /\ pc' = "done"
  /\ UNCHANGED <<name, inherit_name, inherit_idx, refcount, left, dst, i>>

RelinkEnd == /\ pc = "relink" /\ i = N
             /\ pc' = "done"
             /\ UNCHANGED <<name, inherit_name, inherit_idx, refcount, left, dst, i>>

Next == \/ Link \/ LinkEnd
        \/ Place \/ Stuck \/ SortEnd
        \/ Relink \/ RelinkEnd

Spec == Init /\ [][Next]_vars

(* the loops run without waiting for anyone *)
FairSpec == Spec /\ WF_vars(Next)

-----------------------------------------------------------------------------
(* The parent of an entry of the unsorted map: what Link stores.           *)
ParentOf == [e \in Idx |-> FirstMatch(name, inherit_name, e)]

(* Type correctness of the map and of the loop state.                      *)
TypeOK == /\ name \in [Idx -> Names]
          /\ inherit_name \in [Idx -> Names \cup {Null}]
          /\ inherit_idx \in [Idx -> Idx \cup {-1}]
          /\ refcount \in [Idx -> Nat]
          /\ left \subseteq Idx
          /\ dst \in [Idx -> Idx \cup {-1}]
          /\ i \in -1 .. N
          /\ pc \in {"link", "sort", "relink", "done", "failed"}

(* While sorting, the refcount of an entry is the number of entries still
   in the source map that inherit from it: the in-place decrements of the
   sort keep agreeing with the links (ir.c:115-118), so a zero means that
   nothing left to place inherits from the entry. *)
RefcountExact ==
  pc = "sort" => \A p \in Idx :
     refcount[p] = Cardinality({c \in left : inherit_idx[c] = p})

(* Each turn of the sort moves one entry from the source map to the output
   map: those placed and those left share out the entries, none twice. *)
PlacedOnce ==
  pc = "sort" =>
    /\ Cardinality(left) = i + 1
    /\ \A k \in i+1 .. N-1 : dst[k] \in Idx \ left
    /\ \A k, m \in i+1 .. N-1 : dst[k] = dst[m] => k = m

(* Once the map is handed out, the parent index of every entry is smaller
   than its own, which is what lets the back end emit in index order
   (private structures, prototypes).  It holds for the links recomputed on
   the sorted map, although with a name used twice they may name another
   entry than the links the sort worked from. *)
ParentsFirst ==
  pc = "done" => \A k \in Idx : inherit_idx[k] < k

(* The map handed out has an exact refcount: an interface initialiser is
   static exactly when this is zero (duk-libdom-interface.c:627-629). *)
SortedRefcountExact ==
  pc = "done" => \A p \in Idx :
     refcount[p] = Cardinality({k \in Idx : inherit_idx[k] = p})

(* The sort is refused only when some entries inherit in a circle. *)
CircleWhenRefused ==
  pc = "failed" => \E S \in SUBSET Idx : S # {} /\
     \A p \in S : \E c \in S : inherit_idx[c] = p

(* A map with a circle is never handed out. *)
NoCircleHandedOut ==
  pc = "done" => \A S \in (SUBSET Idx) \ {{}} :
     \E p \in S : \A c \in S : ParentOf[c] # p

(* Every run of the sort ends, with a map or with a refusal. *)
Terminates == <>(pc \in {"done", "failed"})

(* The sort implements the promise of EntryOrder: nothing is promised until
   the links of the sorted map are complete, and what is handed out then is
   an order of all entries with parents first, or a justified refusal. *)
Verdict == IF pc = "done" THEN "ordered"
           ELSE IF pc = "failed" THEN "refused" ELSE "pending"
Abs == INSTANCE EntryOrder WITH
          parent <- ParentOf,
          verdict <- Verdict,
          order <- IF pc = "done" THEN dst ELSE [k \in Idx |-> -1]

ImplementsEntryOrder == Abs!AbsSpec
=============================================================================

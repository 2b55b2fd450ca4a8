--------------------------- MODULE EntrySortProofs ---------------------------
(***************************************************************************)
(* Proofs about EntrySort for every number of entries and every set of     *)
(* names.  The argument: during the sort the refcount of an entry counts   *)
(* its children among the entries still to place, so an entry is placed    *)
(* only when all its children already stand behind it; linking the sorted  *)
(* map anew can only find a parent at or before the place of the old one.  *)
(***************************************************************************)
EXTENDS EntrySort, FiniteSetTheorems, WellFoundedInduction, TLAPS

(* A non-empty set of naturals has a least element: the loops that walk an
   array from index 0 stop at the first element they accept. *)
LEMMA LeastExists ==
  ASSUME NEW T \in SUBSET Nat, T # {}
  PROVE  \E x \in T : \A y \in T : x <= y
<1>1. PICK x \in T : \A y \in T : ~ (<<y, x>> \in OpToRel(<, Nat))
  BY NatLessThanWellFounded, WFMin, Zenon
<1>2. \A y \in T : ~ (y < x)
  BY <1>1, Zenon DEF OpToRel
<1>3. QED
  BY <1>2

(* how many elements of S the function f maps to p *)
Count(S, f, p) == Cardinality({c \in S : f[c] = p})

(* A count over a finite set is a natural number, and when it is zero no
   element of the set is mapped to p. *)
LEMMA CountType ==
  ASSUME NEW S, IsFiniteSet(S), NEW f, NEW p
  PROVE  /\ Count(S, f, p) \in Nat
         /\ Count(S, f, p) = 0 <=> \A c \in S : f[c] # p
<1>1. IsFiniteSet({c \in S : f[c] = p})
  BY FS_Subset
<1>2. Cardinality({c \in S : f[c] = p}) = 0 <=> {c \in S : f[c] = p} = {}
  BY <1>1, FS_EmptySet
<1>3. QED
  BY <1>1, <1>2, FS_CardinalityType DEF Count

(* Counting when x is added to the set. *)
LEMMA CountAdd ==
  ASSUME NEW S, IsFiniteSet(S), NEW x, x \notin S, NEW f, NEW p
  PROVE  /\ f[x] = p => Count(S \cup {x}, f, p) = Count(S, f, p) + 1
         /\ f[x] # p => Count(S \cup {x}, f, p) = Count(S, f, p)
<1>1. IsFiniteSet({c \in S : f[c] = p}) /\ x \notin {c \in S : f[c] = p}
  BY FS_Subset
<1>2. CASE f[x] = p
  <2>1. {c \in S \cup {x} : f[c] = p} = {c \in S : f[c] = p} \cup {x}
    BY <1>2
  <2>2. QED
    BY <1>1, <1>2, <2>1, FS_AddElement DEF Count
<1>3. CASE f[x] # p
  <2>1. {c \in S \cup {x} : f[c] = p} = {c \in S : f[c] = p}
    BY <1>3
  <2>2. QED
    BY <1>3, <2>1 DEF Count
<1>4. QED
  BY <1>2, <1>3

(* Counting when x is taken from the set. *)
LEMMA CountRemove ==
  ASSUME NEW S, IsFiniteSet(S), NEW x \in S, NEW f, NEW p
  PROVE  /\ f[x] = p => Count(S \ {x}, f, p) = Count(S, f, p) - 1
         /\ f[x] # p => Count(S \ {x}, f, p) = Count(S, f, p)
<1>1. /\ IsFiniteSet(S \ {x})
      /\ x \notin S \ {x}
      /\ (S \ {x}) \cup {x} = S
  BY FS_RemoveElement
<1>2. /\ Count(S \ {x}, f, p) \in Nat
      /\ Count(S, f, p) \in Nat
  BY <1>1, CountType
<1>3. /\ f[x] = p => Count((S \ {x}) \cup {x}, f, p) = Count(S \ {x}, f, p) + 1
      /\ f[x] # p => Count((S \ {x}) \cup {x}, f, p) = Count(S \ {x}, f, p)
  BY <1>1, CountAdd
<1>4. QED
  BY <1>1, <1>2, <1>3

(* Counting over a prefix of the indices, as a loop from 0 does it. *)
LEMMA CountUpTo ==
  ASSUME NEW n \in Nat, NEW f, NEW p
  PROVE  /\ f[n] = p => Count(0 .. n, f, p) = Count(0 .. n-1, f, p) + 1
         /\ f[n] # p => Count(0 .. n, f, p) = Count(0 .. n-1, f, p)
<1> DEFINE P == 0 .. n-1
<1>1. 0 .. n = P \cup {n}
  OBVIOUS
<1>2. IsFiniteSet(P) /\ n \notin P
  BY FS_Interval
<1> HIDE DEF P
<1>3. /\ f[n] = p => Count(P \cup {n}, f, p) = Count(P, f, p) + 1
      /\ f[n] # p => Count(P \cup {n}, f, p) = Count(P, f, p)
  BY <1>2, CountAdd
<1>4. QED
  BY <1>1, <1>3, Zenon DEF P
-----------------------------------------------------------------------------

Placed == i+1 .. N-1

(* the k of Idx before the loop index *)
Seen == 0 .. i-1

LinkInv ==
  pc = "link" =>
    /\ i \in 0 .. N
    /\ left = Idx
    /\ \A e \in Seen : inherit_idx[e] = ParentOf[e]
    /\ \A p \in Idx : refcount[p] = Count(Seen, ParentOf, p)

SortInv ==
  pc \in {"sort", "failed"} =>
    /\ i \in -1 .. N-1
    /\ inherit_idx = ParentOf
    /\ \A p \in Idx : refcount[p] = Count(left, ParentOf, p)
    /\ Cardinality(left) = i + 1
    /\ \A e \in Idx : e \in left \/ \E k \in Placed : dst[k] = e
    /\ \A k \in Placed : dst[k] \in Idx \ left
    /\ \A k, m \in Placed : dst[k] = dst[m] => k = m
    /\ \A k \in Placed, c \in Idx :
         ParentOf[c] = dst[k] => \E m \in Placed : k < m /\ dst[m] = c
    /\ pc = "failed" => i >= 0 /\ Ready = {}

(* what the sort leaves behind in dst *)
Sorted ==
  /\ dst \in [Idx -> Idx]
  /\ \A e \in Idx : \E k \in Idx : dst[k] = e
  /\ \A k, m \in Idx : dst[k] = dst[m] => k = m
  /\ \A k, m \in Idx : ParentOf[dst[m]] = dst[k] => k < m

RelinkInv ==
  pc \in {"relink", "done"} =>
    /\ i \in 0 .. N
    /\ Sorted
    /\ \A k \in Seen : inherit_idx[k] = FirstMatch(SortedName, SortedInherit, k)
    /\ \A p \in Idx : refcount[p] = Count(Seen, inherit_idx, p)
    /\ pc = "done" => i = N

IInv == TypeOK /\ LinkInv /\ SortInv /\ RelinkInv

-----------------------------------------------------------------------------
(* Facts about the search for the parent.                                  *)

(* The search over any pair of columns finds the first matching index of
   another entry, or nothing when there is none. *)
LEMMA FirstMatchFacts ==
  ASSUME NEW nm, NEW inh, NEW e \in Idx
  PROVE  /\ FirstMatch(nm, inh, e) \in Idx \cup {-1}
         /\ FirstMatch(nm, inh, e) # e
         /\ FirstMatch(nm, inh, e) = -1 => Matches(nm, inh, e) = {}
         /\ FirstMatch(nm, inh, e) # -1 =>
              /\ FirstMatch(nm, inh, e) \in Matches(nm, inh, e)
              /\ \A g \in Matches(nm, inh, e) : FirstMatch(nm, inh, e) <= g
<1> DEFINE M == Matches(nm, inh, e)
<1>1. M \subseteq Idx \ {e} /\ M \subseteq Nat
  BY NAssumption DEF Matches, Idx
<1>2. CASE M = {}
  BY <1>2 DEF FirstMatch, Idx
<1>3. CASE M # {}
  <2>1. \E f \in M : \A g \in M : f <= g
    BY <1>1, <1>3, LeastExists
  <2>2. FirstMatch(nm, inh, e) = CHOOSE f \in M : \A g \in M : f <= g
    BY <1>3 DEF FirstMatch
  <2>3. /\ FirstMatch(nm, inh, e) \in M
        /\ \A g \in M : FirstMatch(nm, inh, e) <= g
    BY <2>1, <2>2
  <2>4. FirstMatch(nm, inh, e) # -1
    BY <2>3, <1>1
  <2>5. QED
    BY <1>1, <2>3, <2>4
<1>4. QED
  BY <1>2, <1>3

(* The parent links of the unsorted map are indices of other entries. *)
LEMMA ParentOfType ==
  /\ ParentOf \in [Idx -> Idx \cup {-1}]
  /\ \A e \in Idx : ParentOf[e] # e
BY FirstMatchFacts DEF ParentOf

(* Index sets are finite. *)
LEMMA IdxFinite == IsFiniteSet(Idx) /\ Cardinality(Idx) = N
<1>1. 0 \in Int /\ N-1 \in Int
  BY NAssumption
<1>2. QED
  BY <1>1, NAssumption, FS_Interval DEF Idx

(* One turn of the linking loop, on whatever columns: it extends the links
   and the counts by the entry at the loop index. *)
LEMMA LinkEntryFacts ==
  ASSUME NEW STATE nm, NEW STATE inh, TypeOK, i \in 0 .. N, LinkEntry(nm, inh),
         NEW STATE g, \A e \in Seen : g[e] = inherit_idx[e],
         g[i] = FirstMatch(nm, inh, i),
         \A p \in Idx : refcount[p] = Count(Seen, g, p)
  PROVE  /\ i' \in 0 .. N
         /\ inherit_idx' \in [Idx -> Idx \cup {-1}]
         /\ refcount' \in [Idx -> Nat]
         /\ \A e \in Seen' : g[e] = inherit_idx'[e]
         /\ \A p \in Idx : refcount'[p] = Count(Seen', g, p)
<1>1. i \in Idx /\ i' = i + 1 /\ i' \in 0 .. N
  BY NAssumption DEF LinkEntry, Idx
<1>2. FirstMatch(nm, inh, i) \in Idx \cup {-1}
  BY <1>1, FirstMatchFacts
<1>3. i \in Nat /\ Seen' = 0 .. i /\ Seen = 0 .. i-1
  BY <1>1 DEF Seen
<1>4. /\ inherit_idx' = [inherit_idx EXCEPT ![i] = g[i]]
      /\ inherit_idx' \in [Idx -> Idx \cup {-1}]
  BY <1>1, <1>2 DEF LinkEntry, TypeOK
<1>5. \A e \in Seen' : g[e] = inherit_idx'[e]
  BY <1>1, <1>3, <1>4 DEF TypeOK, Seen, Idx
<1>6. ASSUME NEW p \in Idx
      PROVE  refcount'[p] \in Nat /\ refcount'[p] = Count(Seen', g, p)
  <2>1. /\ g[i] = p => Count(Seen', g, p) = Count(Seen, g, p) + 1
        /\ g[i] # p => Count(Seen', g, p) = Count(Seen, g, p)
    BY <1>3, CountUpTo
  <2>2. refcount'[p] = refcount[p] + IF p = g[i] THEN 1 ELSE 0
    BY DEF LinkEntry
  <2>3. refcount[p] \in Nat
    BY DEF TypeOK
  <2>4. QED
    BY <2>1, <2>2, <2>3
<1>7. refcount' \in [Idx -> Nat]
  <2>1. refcount' = [f \in Idx |-> refcount'[f]]
    BY DEF LinkEntry
  <2>2. QED
    BY <1>6, <2>1
<1>8. QED
  BY <1>1, <1>4, <1>5, <1>6, <1>7

-----------------------------------------------------------------------------
(* The steps, one lemma each.                                              *)

(* Before the first turn of the first loop the invariant holds. *)
LEMMA InitInv == Init => IInv
<1> SUFFICES ASSUME Init PROVE IInv
  OBVIOUS
<1>1. TypeOK
  BY NAssumption DEF Init, TypeOK, Idx
<1>2. LinkInv
  <2>1. i = 0 /\ left = Idx /\ Seen = {}
    BY DEF Init, Seen
  <2>2. ASSUME NEW p \in Idx PROVE refcount[p] = Count(Seen, ParentOf, p)
    <3>1. Count({}, ParentOf, p) = 0
      BY FS_EmptySet, CountType
    <3>2. QED
      BY <2>1, <3>1 DEF Init
  <2>3. QED
    BY <2>1, <2>2, NAssumption DEF LinkInv
<1>3. QED
  BY <1>1, <1>2 DEF IInv, SortInv, RelinkInv, Init

(* Linking one entry of the unsorted map. *)
LEMMA LinkKeepsInv == IInv /\ Link => IInv'
<1> SUFFICES ASSUME IInv, Link PROVE IInv'
  OBVIOUS
<1>1. ParentOf' = ParentOf
  BY DEF Link, ParentOf
<1>2. pc = "link" /\ pc' = "link" /\ TypeOK /\ LinkEntry(name, inherit_name)
  BY DEF Link, IInv
<1>3. /\ i \in 0 .. N
      /\ left = Idx
      /\ \A e \in Seen : ParentOf[e] = inherit_idx[e]
      /\ \A p \in Idx : refcount[p] = Count(Seen, ParentOf, p)
  BY <1>2 DEF IInv, LinkInv
<1>4. ParentOf[i] = FirstMatch(name, inherit_name, i)
  <2>1. i \in Idx
    BY <1>2, <1>3, NAssumption DEF LinkEntry, Idx
  <2>2. QED
    BY <2>1 DEF ParentOf
<1>5. /\ i' \in 0 .. N
      /\ inherit_idx' \in [Idx -> Idx \cup {-1}]
      /\ refcount' \in [Idx -> Nat]
      /\ \A e \in Seen' : ParentOf[e] = inherit_idx'[e]
      /\ \A p \in Idx : refcount'[p] = Count(Seen', ParentOf, p)
  BY <1>2, <1>3, <1>4, LinkEntryFacts
<1>6. TypeOK'
  BY <1>2, <1>5 DEF TypeOK, Link
<1>7. LinkInv'
  BY <1>1, <1>3, <1>5 DEF LinkInv, Link
<1>8. QED
  BY <1>2, <1>6, <1>7 DEF IInv, SortInv, RelinkInv

(* From the first linking loop to the sort: everything is still to place. *)
LEMMA LinkEndKeepsInv == IInv /\ LinkEnd => IInv'
<1> SUFFICES ASSUME IInv, LinkEnd PROVE IInv'
  OBVIOUS
<1>1. /\ pc = "link" /\ pc' = "sort" /\ i = N /\ i' = N-1 /\ TypeOK
      /\ UNCHANGED <<name, inherit_name, inherit_idx, refcount, left, dst>>
  BY DEF LinkEnd, IInv
<1>2. /\ left = Idx
      /\ \A e \in Seen : inherit_idx[e] = ParentOf[e]
      /\ \A p \in Idx : refcount[p] = Count(Seen, ParentOf, p)
  BY <1>1 DEF IInv, LinkInv
<1>3. Seen = Idx /\ ParentOf' = ParentOf
  BY <1>1 DEF Seen, Idx, ParentOf
<1>4. TypeOK'
  BY <1>1, NAssumption DEF TypeOK
<1>5. SortInv'
  <2>1. Placed' = {} /\ i' \in -1 .. N-1 /\ i' + 1 = N
    BY <1>1, NAssumption DEF Placed
  <2>2. inherit_idx' = ParentOf'
    BY <1>1, <1>2, <1>3, ParentOfType DEF TypeOK
  <2>3. \A p \in Idx : refcount'[p] = Count(left', ParentOf', p)
    BY <1>1, <1>2, <1>3
  <2>4. Cardinality(left') = i' + 1
    BY <1>1, <1>2, <2>1, IdxFinite
  <2>5. QED
    BY <1>1, <1>2, <2>1, <2>2, <2>3, <2>4 DEF SortInv
<1>6. QED
  BY <1>1, <1>4, <1>5 DEF IInv, LinkInv, RelinkInv
(* Placing an entry: its refcount is zero, so its children are all placed
   already, and only its parent loses a child that is left. *)
LEMMA PlaceKeepsInv == IInv /\ Place => IInv'
<1> SUFFICES ASSUME IInv, Place PROVE IInv'
  OBVIOUS
<1>1. /\ pc = "sort" /\ pc' = "sort" /\ i >= 0 /\ i' = i - 1 /\ TypeOK
      /\ UNCHANGED <<name, inherit_name, inherit_idx>>
  BY DEF Place, IInv
<1>2. PICK e \in Ready :
         /\ dst' = [dst EXCEPT ![i] = e]
         /\ refcount' = [f \in Idx |->
               refcount[f] - IF f = inherit_idx[e] THEN 1 ELSE 0]
         /\ left' = left \ {e}
  BY DEF Place
<1>3. SortInv
  BY DEF IInv
<1>4. /\ i \in 0 .. N-1 /\ i \in Idx
      /\ inherit_idx = ParentOf
      /\ \A p \in Idx : refcount[p] = Count(left, ParentOf, p)
      /\ Cardinality(left) = i + 1
  BY <1>1, <1>3, NAssumption DEF SortInv, Idx
<1>5. e \in left /\ e \in Idx /\ refcount[e] = 0 /\ left \subseteq Idx
  BY <1>1 DEF Ready, TypeOK
<1>6. IsFiniteSet(left)
  BY <1>5, IdxFinite, FS_Subset
<1>7. ParentOf' = ParentOf
  BY <1>1 DEF ParentOf
<1>8. \A c \in left : ParentOf[c] # e
  BY <1>4, <1>5, <1>6, CountType
<1>9. Placed' = Placed \cup {i} /\ i \notin Placed /\ Placed \subseteq Idx
  BY <1>1, <1>4, NAssumption DEF Placed, Idx
<1>10. /\ dst'[i] = e
       /\ \A k \in Placed : dst'[k] = dst[k]
  BY <1>1, <1>2, <1>4, <1>9 DEF TypeOK
<1>11. ASSUME NEW p \in Idx
       PROVE  refcount'[p] \in Nat /\ refcount'[p] = Count(left', ParentOf, p)
  <2>1. /\ ParentOf[e] = p => Count(left \ {e}, ParentOf, p) = Count(left, ParentOf, p) - 1
        /\ ParentOf[e] # p => Count(left \ {e}, ParentOf, p) = Count(left, ParentOf, p)
    <3>1. e \in left
      BY <1>5
    <3>2. QED
      BY <1>6, <3>1, CountRemove
  <2>2. refcount'[p] = refcount[p] - IF p = ParentOf[e] THEN 1 ELSE 0
    BY <1>2, <1>4
  <2>3. refcount[p] = Count(left, ParentOf, p) /\ Count(left, ParentOf, p) \in Nat
    BY <1>4, <1>6, CountType
  <2>4. Count(left', ParentOf, p) \in Nat
    BY <1>2, <1>6, FS_RemoveElement, CountType
  <2>5. refcount'[p] = Count(left', ParentOf, p)
    BY <1>2, <2>1, <2>2, <2>3
  <2>6. QED
    BY <2>4, <2>5
<1>12. TypeOK'
  <2>1. refcount' = [f \in Idx |-> refcount'[f]]
    BY <1>2
  <2>2. refcount' \in [Idx -> Nat]
    BY <1>11, <2>1
  <2>3. dst' \in [Idx -> Idx \cup {-1}] /\ left' \subseteq Idx
    BY <1>1, <1>2, <1>5 DEF TypeOK
  <2>4. i' \in -1 .. N
    BY <1>1, <1>4, NAssumption
  <2>5. QED
    BY <1>1, <2>2, <2>3, <2>4 DEF TypeOK
<1>13. SortInv'
  <2>1. i' \in -1 .. N-1 /\ Cardinality(left') = i' + 1
    <3>1. Cardinality(left \ {e}) = Cardinality(left) - 1
      BY <1>5, <1>6, FS_RemoveElement
    <3>2. QED
      BY <1>1, <1>2, <1>4, <3>1, NAssumption
  <2>2. \A f \in Idx : f \in left' \/ \E k \in Placed' : dst'[k] = f
    BY <1>1, <1>2, <1>3, <1>9, <1>10 DEF SortInv
  <2>3. \A k \in Placed' : dst'[k] \in Idx \ left'
    BY <1>1, <1>2, <1>3, <1>5, <1>9, <1>10 DEF SortInv
  <2>4. \A k, m \in Placed' : dst'[k] = dst'[m] => k = m
    BY <1>1, <1>3, <1>5, <1>9, <1>10 DEF SortInv
  <2>5. ASSUME NEW k \in Placed', NEW c \in Idx, ParentOf[c] = dst'[k]
        PROVE  \E m \in Placed' : k < m /\ dst'[m] = c
    <3>1. CASE k \in Placed
      BY <1>1, <1>3, <1>9, <1>10, <2>5, <3>1 DEF SortInv
    <3>2. CASE k = i
      <4>1. c \notin left
        BY <1>8, <1>10, <2>5, <3>2
      <4>2. PICK m \in Placed : dst[m] = c
        BY <1>1, <1>3, <4>1 DEF SortInv
      <4>3. i < m
        BY <1>4 DEF Placed
      <4>4. QED
        BY <1>9, <1>10, <3>2, <4>2, <4>3
    <3>3. QED
      BY <1>9, <3>1, <3>2
  <2>6. \A p \in Idx : refcount'[p] = Count(left', ParentOf', p)
    BY <1>7, <1>11
  <2>7. inherit_idx' = ParentOf'
    BY <1>1, <1>4, <1>7
  <2>8. QED
    BY <1>1, <1>7, <2>1, <2>2, <2>3, <2>4, <2>5, <2>6, <2>7 DEF SortInv
<1>14. QED
  BY <1>1, <1>12, <1>13 DEF IInv, LinkInv, RelinkInv

(* Giving up changes nothing but the verdict. *)
LEMMA StuckKeepsInv == IInv /\ Stuck => IInv'
<1> SUFFICES ASSUME IInv, Stuck PROVE IInv'
  OBVIOUS
<1>1. /\ pc = "sort" /\ pc' = "failed" /\ i >= 0 /\ Ready = {}
      /\ UNCHANGED <<name, inherit_name, inherit_idx, refcount, left, dst, i>>
  BY DEF Stuck
<1>2. ParentOf' = ParentOf /\ Ready' = Ready /\ Placed' = Placed
  BY <1>1 DEF ParentOf, Ready, Placed
<1>3. TypeOK'
  BY <1>1 DEF IInv, TypeOK
<1>4. SortInv'
  BY <1>1, <1>2 DEF IInv, SortInv
<1>5. QED
  BY <1>1, <1>3, <1>4 DEF IInv, LinkInv, RelinkInv

(* The sort is over: nothing is left, so the output map holds every entry. *)
LEMMA SortEndKeepsInv == IInv /\ SortEnd => IInv'
<1> SUFFICES ASSUME IInv, SortEnd PROVE IInv'
  OBVIOUS
<1>1. /\ pc = "sort" /\ pc' = "relink" /\ i = -1 /\ i' = 0 /\ TypeOK /\ SortInv
      /\ inherit_idx' = [k \in Idx |-> 0]
      /\ refcount' = [k \in Idx |-> 0]
      /\ UNCHANGED <<name, inherit_name, left, dst>>
  BY DEF SortEnd, IInv
<1>2. left = {}
  <2>1. IsFiniteSet(left)
    BY <1>1, IdxFinite, FS_Subset DEF TypeOK
  <2>2. Cardinality(left) = 0
    BY <1>1 DEF SortInv
  <2>3. QED
    BY <2>1, <2>2, FS_EmptySet
<1>3. Placed = Idx /\ Seen' = {}
  BY <1>1 DEF Placed, Idx, Seen
<1>4. ParentOf' = ParentOf
  BY <1>1 DEF ParentOf
<1>5. TypeOK'
  BY <1>1, NAssumption DEF TypeOK, Idx
<1>6. Sorted'
  <2>1. \A k \in Idx : dst[k] \in Idx
    BY <1>1, <1>3 DEF SortInv
  <2>2. dst \in [Idx -> Idx]
    BY <1>1, <2>1 DEF TypeOK
  <2>3. \A k, m \in Idx : ParentOf[dst[m]] = dst[k] => k < m
    <3> SUFFICES ASSUME NEW k \in Idx, NEW m \in Idx, ParentOf[dst[m]] = dst[k]
                 PROVE  k < m
      OBVIOUS
    <3>1. PICK l \in Idx : k < l /\ dst[l] = dst[m]
      BY <1>1, <1>3, <2>1 DEF SortInv
    <3>2. l = m
      BY <1>1, <1>3, <3>1 DEF SortInv
    <3>3. QED
      BY <3>1, <3>2
  <2>4. /\ \A e \in Idx : \E k \in Idx : dst[k] = e
        /\ \A k, m \in Idx : dst[k] = dst[m] => k = m
    BY <1>1, <1>2, <1>3 DEF SortInv
  <2>5. QED
    BY <1>1, <1>4, <2>2, <2>3, <2>4 DEF Sorted
<1>7. \A p \in Idx : refcount'[p] = Count(Seen', inherit_idx', p)
  <2>1. \A p \in Idx : Count({}, inherit_idx', p) = 0
    BY FS_EmptySet, CountType
  <2>2. QED
    BY <1>1, <1>3, <2>1
<1>8. RelinkInv'
  BY <1>1, <1>3, <1>6, <1>7, NAssumption DEF RelinkInv
<1>9. QED
  BY <1>1, <1>5, <1>8 DEF IInv, LinkInv, SortInv
(* Linking one entry of the sorted map. *)
LEMMA RelinkKeepsInv == IInv /\ Relink => IInv'
<1> SUFFICES ASSUME IInv, Relink PROVE IInv'
  OBVIOUS
<1>1. /\ pc = "relink" /\ pc' = "relink" /\ TypeOK
      /\ LinkEntry(SortedName, SortedInherit)
      /\ UNCHANGED <<name, inherit_name, left, dst>>
  BY DEF Relink, IInv
<1> DEFINE g == [k \in Idx |-> FirstMatch(SortedName, SortedInherit, k)]
<1>2. /\ i \in 0 .. N /\ Sorted
      /\ \A k \in Seen : inherit_idx[k] = FirstMatch(SortedName, SortedInherit, k)
      /\ \A p \in Idx : refcount[p] = Count(Seen, inherit_idx, p)
  BY <1>1 DEF IInv, RelinkInv
<1>3. i \in Idx /\ Seen \subseteq Idx /\ i' = i + 1
  BY <1>1, <1>2, NAssumption DEF LinkEntry, Seen, Idx
<1>4. \A k \in Seen : g[k] = inherit_idx[k]
  BY <1>2, <1>3
<1>5. g[i] = FirstMatch(SortedName, SortedInherit, i)
  BY <1>3
<1>6. \A k \in Idx : g[k] = FirstMatch(SortedName, SortedInherit, k)
  OBVIOUS
<1>7. \A p \in Idx : refcount[p] = Count(Seen, g, p)
  <2>1. \A p \in Idx : {c \in Seen : g[c] = p} = {c \in Seen : inherit_idx[c] = p}
    BY <1>4
  <2>2. QED
    BY <1>2, <2>1 DEF Count
<1> HIDE DEF g
<1>8. /\ i' \in 0 .. N
      /\ inherit_idx' \in [Idx -> Idx \cup {-1}]
      /\ refcount' \in [Idx -> Nat]
      /\ \A k \in Seen' : g[k] = inherit_idx'[k]
      /\ \A p \in Idx : refcount'[p] = Count(Seen', g, p)
  BY <1>1, <1>2, <1>4, <1>5, <1>7, LinkEntryFacts
<1>9. TypeOK'
  BY <1>1, <1>8, NAssumption DEF TypeOK
<1>10. SortedName' = SortedName /\ SortedInherit' = SortedInherit
  BY <1>1 DEF SortedName, SortedInherit
<1>11. Sorted'
  BY <1>1, <1>2 DEF Sorted, ParentOf
<1>12. Seen' \subseteq Idx
  <2>1. Seen' = 0 .. i
    BY <1>3 DEF Seen, Idx
  <2>2. QED
    BY <1>3, <2>1, NAssumption DEF Idx
<1>13. \A k \in Seen' : inherit_idx'[k] = FirstMatch(SortedName', SortedInherit', k)
  BY <1>6, <1>8, <1>10, <1>12
<1>14. \A p \in Idx : refcount'[p] = Count(Seen', inherit_idx', p)
  <2>1. \A p \in Idx : {c \in Seen' : g[c] = p} = {c \in Seen' : inherit_idx'[c] = p}
    BY <1>8
  <2>2. QED
    BY <1>8, <2>1 DEF Count
<1>15. RelinkInv'
  BY <1>1, <1>8, <1>11, <1>13, <1>14 DEF RelinkInv
<1>16. QED
  BY <1>1, <1>9, <1>15 DEF IInv, LinkInv, SortInv

(* Handing the map out changes nothing but the phase. *)
LEMMA RelinkEndKeepsInv == IInv /\ RelinkEnd => IInv'
<1> SUFFICES ASSUME IInv, RelinkEnd PROVE IInv'
  OBVIOUS
<1>1. /\ pc = "relink" /\ pc' = "done" /\ i = N
      /\ UNCHANGED <<name, inherit_name, inherit_idx, refcount, left, dst, i>>
  BY DEF RelinkEnd
<1>2. /\ SortedName' = SortedName /\ SortedInherit' = SortedInherit
      /\ Sorted' = Sorted /\ Seen' = Seen
  BY <1>1 DEF SortedName, SortedInherit, Sorted, ParentOf, Seen
<1>3. TypeOK'
  BY <1>1 DEF IInv, TypeOK
<1>4. RelinkInv'
  BY <1>1, <1>2 DEF IInv, RelinkInv
<1>5. QED
  BY <1>1, <1>3, <1>4 DEF IInv, LinkInv, SortInv

(* The inductive invariant: the refcounts count the children left to place,
   and every entry placed has its children behind it. *)
THEOREM Invariant == Spec => []IInv
<1>1. IInv /\ [Next]_vars => IInv'
  <2> SUFFICES ASSUME IInv, [Next]_vars PROVE IInv'
    OBVIOUS
  <2>1. CASE UNCHANGED vars
    <3>1. /\ ParentOf' = ParentOf /\ Ready' = Ready /\ Placed' = Placed
          /\ Seen' = Seen /\ Sorted' = Sorted
          /\ SortedName' = SortedName /\ SortedInherit' = SortedInherit
      BY <2>1 DEF vars, ParentOf, Ready, Placed, Seen, Sorted, SortedName, SortedInherit
    <3>2. QED
      BY <2>1, <3>1 DEF vars, IInv, TypeOK, LinkInv, SortInv, RelinkInv
  <2>2. CASE Next
    BY <2>2, LinkKeepsInv, LinkEndKeepsInv, PlaceKeepsInv, StuckKeepsInv,
       SortEndKeepsInv, RelinkKeepsInv, RelinkEndKeepsInv DEF Next
  <2>3. QED
    BY <2>1, <2>2
<1>2. QED
  BY InitInv, <1>1, PTL DEF Spec

(* The map and the loops stay within their types; in particular no
   refcount goes below zero. *)
THEOREM TypeCorrect == Spec => []TypeOK
BY Invariant, PTL DEF IInv

(* During the sort a refcount is exactly the number of children left. *)
THEOREM RefcountCounts == Spec => []RefcountExact
<1>1. IInv => RefcountExact
  BY DEF IInv, SortInv, RefcountExact, Count
<1>2. QED
  BY <1>1, Invariant, PTL

(* No entry is lost or placed twice. *)
THEOREM EachPlacedOnce == Spec => []PlacedOnce
<1>1. IInv => PlacedOnce
  BY DEF IInv, SortInv, PlacedOnce, Placed
<1>2. QED
  BY <1>1, Invariant, PTL

(* The map handed out lists parents before children, for every set of
   entries, whatever they are named and whatever they inherit from. *)
THEOREM ParentsComeFirst == Spec => []ParentsFirst
<1>1. IInv => ParentsFirst
  <2> SUFFICES ASSUME IInv, pc = "done", NEW k \in Idx
               PROVE  inherit_idx[k] < k
    BY DEF ParentsFirst
  <2>1. /\ Sorted
        /\ inherit_idx[k] = FirstMatch(SortedName, SortedInherit, k)
    BY NAssumption DEF IInv, RelinkInv, Seen, Idx
  <2>2. CASE inherit_idx[k] = -1
    BY <2>2 DEF Idx
  <2>3. CASE inherit_idx[k] # -1
    <3> DEFINE f == inherit_idx[k]
               e == dst[k]
               p == ParentOf[dst[k]]
    <3>1. /\ f \in Idx \ {k}
          /\ SortedName[f] = SortedInherit[k]
          /\ \A g \in Matches(SortedName, SortedInherit, k) : f <= g
      BY <2>1, <2>3, FirstMatchFacts DEF Matches
    <3>2. /\ e \in Idx /\ dst[f] \in Idx /\ dst[f] # e
          /\ name[dst[f]] = inherit_name[e]
      BY <2>1, <3>1 DEF Sorted, SortedName, SortedInherit
    <3>3. dst[f] \in Matches(name, inherit_name, e)
      BY <3>2 DEF Matches
    <3>4. /\ p = FirstMatch(name, inherit_name, e)
          /\ p # -1
          /\ p \in Matches(name, inherit_name, e)
      BY <3>2, <3>3, FirstMatchFacts DEF ParentOf
    <3>5. PICK m \in Idx : dst[m] = p
      BY <2>1, <3>4 DEF Sorted, Matches
    <3>6. m < k
      BY <2>1, <3>5 DEF Sorted
    <3>7. m \in Matches(SortedName, SortedInherit, k)
      BY <3>4, <3>5, <3>6 DEF Matches, SortedName, SortedInherit, Idx
    <3>8. f <= m
      BY <3>1, <3>7
    <3>9. QED
      BY <3>1, <3>6, <3>8 DEF Idx
  <2>4. QED
    BY <2>2, <2>3
<1>2. QED
  BY <1>1, Invariant, PTL

(* The refcounts handed out count the children in the sorted map. *)
THEOREM SortedRefcountCounts == Spec => []SortedRefcountExact
<1>1. IInv => SortedRefcountExact
  <2> SUFFICES ASSUME IInv, pc = "done", NEW p \in Idx
               PROVE  refcount[p] = Cardinality({k \in Idx : inherit_idx[k] = p})
    BY DEF SortedRefcountExact
  <2>1. Seen = Idx
    BY DEF IInv, RelinkInv, Seen, Idx
  <2>2. QED
    BY <2>1 DEF IInv, RelinkInv, Count
<1>2. QED
  BY <1>1, Invariant, PTL

(* The sort refuses only maps in which some entries inherit in a circle:
   when it is stuck, the entries left are such a set. *)
THEOREM RefusedHasCircle == Spec => []CircleWhenRefused
<1>1. IInv => CircleWhenRefused
  <2> SUFFICES ASSUME IInv, pc = "failed"
               PROVE  /\ left \in SUBSET Idx /\ left # {}
                      /\ \A p \in left : \E c \in left : inherit_idx[c] = p
    BY DEF CircleWhenRefused
  <2>1. left \subseteq Idx /\ IsFiniteSet(left)
    BY IdxFinite, FS_Subset DEF IInv, TypeOK
  <2>2. left # {}
    <3>1. Cardinality(left) = i + 1 /\ i >= 0 /\ i \in Int
      BY DEF IInv, SortInv
    <3>2. QED
      BY <3>1, FS_EmptySet
  <2>3. ASSUME NEW p \in left PROVE \E c \in left : inherit_idx[c] = p
    <3>1. refcount[p] # 0
      BY DEF IInv, SortInv, Ready
    <3>2. Count(left, ParentOf, p) # 0 /\ inherit_idx = ParentOf
      BY <2>1, <2>3, <3>1 DEF IInv, SortInv
    <3>3. QED
      BY <2>1, <3>2, CountType
  <2>4. QED
    BY <2>1, <2>2, <2>3
<1>2. QED
  BY <1>1, Invariant, PTL
(* A map that holds a circle is never handed out: in the order of the map
   the last member of a circle would need a child still behind it. *)
THEOREM DoneHasNoCircle == Spec => []NoCircleHandedOut
<1>1. IInv => NoCircleHandedOut
  <2> SUFFICES ASSUME IInv, pc = "done", NEW S \in SUBSET Idx, S # {}
               PROVE  \E p \in S : \A c \in S : ParentOf[c] # p
    BY DEF NoCircleHandedOut
  <2>1. Sorted
    BY DEF IInv, RelinkInv
  <2> DEFINE T == {N - k : k \in {k \in Idx : dst[k] \in S}}
  <2>2. T \in SUBSET Nat /\ T # {}
    <3>1. PICK k \in Idx : dst[k] \in S
      BY <2>1 DEF Sorted
    <3>2. \A m \in Idx : N - m \in Nat
      BY NAssumption DEF Idx
    <3>3. QED
      BY <3>1, <3>2
  <2>3. PICK t \in T : \A u \in T : t <= u
    BY <2>2, LeastExists
  <2>4. PICK k \in Idx : dst[k] \in S /\ t = N - k
    BY <2>3
  <2>5. ASSUME NEW c \in S, ParentOf[c] = dst[k]
        PROVE  FALSE
    <3>1. PICK m \in Idx : dst[m] = c
      BY <2>1 DEF Sorted
    <3>2. k < m
      BY <2>1, <2>5, <3>1 DEF Sorted
    <3>3. N - m \in T
      BY <3>1
    <3>4. t <= N - m
      BY <2>3, <3>3
    <3>5. QED
      BY <2>4, <3>2, <3>4, NAssumption DEF Idx
  <2>6. QED
    BY <2>4, <2>5
<1>2. QED
  BY <1>1, Invariant, PTL

(* The sort implements the order it promises: each of its steps is a step
   of EntryOrder or leaves what EntryOrder speaks of alone. *)
THEOREM ImplementsOrder == Spec => Abs!AbsSafety
<1>1. Init => Abs!AbsInit
  <2> SUFFICES ASSUME Init PROVE Abs!AbsInit
    OBVIOUS
  <2>1. pc = "link"
    BY DEF Init
  <2>2. QED
    BY <2>1, ParentOfType DEF Abs!AbsInit, Abs!NoOrder, Abs!Idx, Idx, Verdict
<1>2. IInv /\ IInv' /\ [Next]_vars => [Abs!AbsNext]_(Abs!absVars)
  <2> SUFFICES ASSUME IInv, IInv', [Next]_vars
               PROVE  [Abs!AbsNext]_(Abs!absVars)
    OBVIOUS
  <2>1. ParentOf' = ParentOf
    BY DEF Next, vars, Link, LinkEnd, Place, Stuck, SortEnd, Relink, RelinkEnd, ParentOf
  <2>2. CASE Stuck
    <3>1. /\ Verdict = "pending" /\ Verdict' = "refused"
          /\ pc # "done" /\ pc' # "done" /\ pc' = "failed"
      BY <2>2 DEF Stuck, Verdict
    <3>2. /\ left' \in SUBSET Idx /\ left' # {}
          /\ \A p \in left' : \E c \in left' : ParentOf'[c] = p
      <4>1. left' \subseteq Idx /\ IsFiniteSet(left')
        BY IdxFinite, FS_Subset DEF IInv, TypeOK
      <4>2. /\ Cardinality(left') = i' + 1 /\ i' >= 0 /\ i' \in Int
            /\ \A p \in left' : refcount'[p] # 0
            /\ \A p \in Idx : refcount'[p] = Count(left', ParentOf', p)
        BY <3>1 DEF IInv, SortInv, Ready
      <4>3. left' # {}
        BY <4>2, FS_EmptySet
      <4>4. ASSUME NEW p \in left' PROVE \E c \in left' : ParentOf'[c] = p
        <5>1. Count(left', ParentOf', p) # 0
          BY <4>1, <4>2, <4>4
        <5>2. QED
          BY <4>1, <5>1, CountType
      <4>5. QED
        BY <4>1, <4>3, <4>4
    <3>3. \E S \in SUBSET Idx : S # {} /\ \A p \in S : \E c \in S : ParentOf[c] = p
      BY <2>1, <3>2
    <3>4. Abs!Refuse
      BY <2>1, <3>1, <3>3 DEF Abs!Refuse, Abs!Knot, Abs!Idx, Idx
    <3>5. QED
      BY <3>4 DEF Abs!AbsNext
  <2>3. CASE RelinkEnd
    <3>1. /\ Verdict = "pending" /\ Verdict' = "ordered" /\ pc' = "done"
          /\ dst' = dst
      BY <2>3 DEF RelinkEnd, Verdict
    <3>2. Sorted
      BY <2>3 DEF IInv, RelinkInv, RelinkEnd
    <3>3. Abs!Permutation(dst)
      BY <3>2 DEF Sorted, Abs!Permutation, Abs!Idx, Idx
    <3>4. Abs!ParentsBefore(dst)
      BY <3>2 DEF Sorted, Abs!ParentsBefore, Abs!Idx, Idx
    <3>5. Abs!Arrange
      BY <2>1, <3>1, <3>2, <3>3, <3>4
         DEF Sorted, Abs!Arrange, Abs!Permutation, Abs!ParentsBefore, Abs!Idx, Idx
    <3>6. QED
      BY <3>5 DEF Abs!AbsNext
  <2>4. CASE Link \/ LinkEnd \/ Place \/ SortEnd \/ Relink \/ UNCHANGED vars
    <3>1. Verdict' = Verdict /\ (pc' = "done" <=> pc = "done")
          /\ (pc = "done" => dst' = dst)
      BY <2>4 DEF Link, LinkEnd, Place, SortEnd, Relink, vars, Verdict
    <3>2. QED
      BY <2>1, <3>1 DEF Abs!absVars, Idx
  <2>5. QED
    BY <2>2, <2>3, <2>4 DEF Next
<1>3. QED
  BY <1>1, <1>2, Invariant, PTL DEF Spec, Abs!AbsSafety

-----------------------------------------------------------------------------
(* the turns that the loops of the linking, the sort and the second linking
   have left at most, counted from the loop that runs *)
TurnsLeft == CASE pc = "link"   -> 3 * N + 4 - i
               [] pc = "sort"   -> N + 3 + i
               [] pc = "relink" -> N + 1 - i
               [] OTHER         -> 0

(* No turn of compute_inherit_refcount or entry_topoligical_sort
   (ir.c:51-125) is made in vain: each leaves fewer to make, also when names
   are used twice or entries inherit in a circle, so the three loops cannot
   run on. *)
THEOREM SortGetsOn == Spec => [][TurnsLeft' < TurnsLeft /\ TurnsLeft \in Nat]_vars
<1>1. TypeOK /\ [Next]_vars => [TurnsLeft' < TurnsLeft /\ TurnsLeft \in Nat]_vars
  <2> SUFFICES ASSUME TypeOK, Next PROVE TurnsLeft \in Nat /\ TurnsLeft' < TurnsLeft
    OBVIOUS
  <2>1. N \in Nat /\ i \in -1 .. N
    BY NAssumption DEF TypeOK
  <2>2. CASE Link
    <3>1. pc = "link" /\ pc' = "link" /\ i' = i + 1
      BY <2>2 DEF Link, LinkEntry
    <3>2. QED
      BY <2>1, <3>1 DEF TurnsLeft
  <2>3. CASE LinkEnd
    <3>1. pc = "link" /\ pc' = "sort" /\ i = N /\ i' = N - 1
      BY <2>3 DEF LinkEnd
    <3>2. QED
      BY <2>1, <3>1 DEF TurnsLeft
  <2>4. CASE Place
    <3>1. pc = "sort" /\ pc' = "sort" /\ i' = i - 1
      BY <2>4 DEF Place
    <3>2. QED
      BY <2>1, <3>1 DEF TurnsLeft
  <2>5. CASE Stuck
    <3>1. pc = "sort" /\ pc' = "failed"
      BY <2>5 DEF Stuck
    <3>2. QED
      BY <2>1, <3>1 DEF TurnsLeft
  <2>6. CASE SortEnd
    <3>1. pc = "sort" /\ pc' = "relink" /\ i = -1 /\ i' = 0
      BY <2>6 DEF SortEnd
    <3>2. QED
      BY <2>1, <3>1 DEF TurnsLeft
  <2>7. CASE Relink
    <3>1. pc = "relink" /\ pc' = "relink" /\ i < N /\ i' = i + 1
      BY <2>7 DEF Relink, LinkEntry
    <3>2. QED
      BY <2>1, <3>1 DEF TurnsLeft
  <2>8. CASE RelinkEnd
    <3>1. pc = "relink" /\ pc' = "done" /\ i = N
      BY <2>8 DEF RelinkEnd
    <3>2. QED
      BY <2>1, <3>1 DEF TurnsLeft
  <2>9. QED
    BY <2>2, <2>3, <2>4, <2>5, <2>6, <2>7, <2>8 DEF Next
<1>2. QED
  BY <1>1, TypeCorrect, PTL DEF Spec
=============================================================================

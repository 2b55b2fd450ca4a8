--------------------------- MODULE LifecycleProofs ----------------------------
(***************************************************************************)
(* The properties of the generated C, of the run of the tool that writes   *)
(* it and of the object that lives by it, for maps of any size.            *)
(*                                                                         *)
(* The invariant has one part per layer: the map, which nothing changes;   *)
(* the class files, each of which is what Source says of its entry; the    *)
(* files that are written after them, in their order; the stages of main;  *)
(* the prototypes; and the object.  The upper layers start when the lower  *)
(* ones have come to their end, so that each is proved from the parts      *)
(* before it.                                                              *)
(***************************************************************************)
EXTENDS Lifecycle, FiniteSetTheorems, SequenceTheorems, WellFoundedInduction,
        TLAPS

(* A non-empty set of naturals has a least element: the loops that walk an
   array from index 0 stop at the first element they accept. *)
LEMMA LeastExists ==
  ASSUME NEW T \in SUBSET Nat, T # {}
  PROVE  \E x \in T : \A y \in T : x <= y
<1>1. PICK x \in T : \A y \in T : ~ (<<y, x>> \in OpToRel(<, Nat))
  BY NatLessThanWellFounded, WFMin, Zenon
<1>2. \A y \in T : ~ (y < x)
  BY <1>1, Zenon DEF OpToRel
<1>3. QED
  BY <1>2

(* what the definition of Selected asks of its function, up to m *)
Upto(f, s, T, m) ==
  f = [n \in 0 .. m |-> IF n = 0 THEN <<>>
                        ELSE IF s[n] \in T THEN Append(f[n-1], s[n]) ELSE f[n-1]]

(* Such a function exists, however long the list is. *)
LEMMA UptoExists ==
  ASSUME NEW s, NEW T, NEW m \in Nat
  PROVE  \E f : Upto(f, s, T, m)
<1> DEFINE Bad == {n \in Nat : ~ \E f : Upto(f, s, T, n)}
<1>1. ASSUME Bad # {} PROVE FALSE
  <2>1. PICK n \in Bad : \A y \in Bad : n <= y
    BY <1>1, LeastExists
  <2>2. CASE n = 0
    <3>1. Upto([j \in 0 .. 0 |-> <<>>], s, T, 0)
      BY DEF Upto
    <3>2. QED
      BY <2>1, <2>2, <3>1
  <2>3. CASE n # 0
    <3>1. n-1 \in Nat /\ n-1 \notin Bad
      BY <2>1, <2>3
    <3>2. PICK g : Upto(g, s, T, n-1)
      BY <3>1
    <3> DEFINE last == IF s[n] \in T THEN Append(g[n-1], s[n]) ELSE g[n-1]
               f == [j \in 0 .. n |-> IF j = n THEN last ELSE g[j]]
    <3>3. \A j \in 0 .. n : j # 0 => f[j-1] = g[j-1]
      BY <3>1
    <3>4. \A j \in 0 .. n-1 : g[j] = IF j = 0 THEN <<>>
                        ELSE IF s[j] \in T THEN Append(g[j-1], s[j]) ELSE g[j-1]
      BY <3>2, Zenon DEF Upto
    <3>5. \A j \in 0 .. n : f[j] = IF j = 0 THEN <<>>
                        ELSE IF s[j] \in T THEN Append(f[j-1], s[j]) ELSE f[j-1]
      BY <3>1, <3>3, <3>4
    <3>6. f = [j \in 0 .. n |-> f[j]]
      OBVIOUS
    <3> HIDE DEF f
    <3>7. Upto(f, s, T, n)
      BY <3>5, <3>6, Zenon DEF Upto
    <3>8. QED
      BY <2>1, <3>7
  <2>4. QED
    BY <2>2, <2>3
<1>2. QED
  BY <1>1

(* Selected is the last value of such a function. *)
LEMMA SelectedUpto ==
  ASSUME NEW s, NEW T, Len(s) \in Nat
  PROVE  \E f : Upto(f, s, T, Len(s)) /\ Selected(s, T) = f[Len(s)]
<1> DEFINE f == CHOOSE g : Upto(g, s, T, Len(s))
<1>1. Upto(f, s, T, Len(s))
  BY UptoExists, Zenon
<1>2. Selected(s, T) = f[Len(s)]
  BY Zenon DEF Selected, Upto
<1>3. QED
  BY <1>1, <1>2, Zenon

(* w[i] is the place in s that the i-th element of out has been taken from *)
Places(w, out, s, T, m) ==
  /\ w \in [1 .. Len(out) -> 1 .. m]
  /\ \A i \in 1 .. Len(out) : out[i] = s[w[i]] /\ out[i] \in T
  /\ \A i, j \in 1 .. Len(out) : i < j => w[i] < w[j]
  /\ \A a \in 1 .. m : s[a] \in T => \E i \in 1 .. Len(out) : w[i] = a

(* What is kept of the first m elements comes from increasing places, and
   from all places whose element is in T. *)
LEMMA UptoPlaces ==
  ASSUME NEW S, NEW s \in Seq(S), NEW T, NEW f, Upto(f, s, T, Len(s))
  PROVE  \A m \in 0 .. Len(s) :
           f[m] \in Seq(S) /\ \E w : Places(w, f[m], s, T, m)
<1> DEFINE P(m) == f[m] \in Seq(S) /\ \E w : Places(w, f[m], s, T, m)
           Bad == {m \in 0 .. Len(s) : ~ P(m)}
<1>0. Len(s) \in Nat /\ \A i \in 1 .. Len(s) : s[i] \in S
  BY LenProperties, ElementOfSeq
<1>1. ASSUME Bad # {} PROVE FALSE
  <2>1. PICK m \in Bad : \A y \in Bad : m <= y
    <3>1. Bad \in SUBSET Nat
      BY <1>0
    <3> HIDE DEF Bad
    <3>2. QED
      BY <1>1, <3>1, LeastExists
  <2>2. CASE m = 0
    <3>1. f[0] = <<>>
      BY <1>0, SMT DEF Upto
    <3>2. <<>> \in Seq(S) /\ Len(<<>>) = 0
      BY EmptySeq
    <3>3. Places([i \in {} |-> 0], <<>>, s, T, 0)
      BY <3>2 DEF Places
    <3>4. QED
      BY <2>1, <2>2, <3>1, <3>2, <3>3
  <2>3. CASE m # 0
    <3>1. m \in 1 .. Len(s) /\ m-1 \in 0 .. Len(s) /\ P(m-1)
      BY <1>0, <2>1, <2>3
    <3>2. PICK g : g = f[m-1]
      OBVIOUS
    <3>3. g \in Seq(S) /\ Len(g) \in Nat
      BY <3>1, <3>2, LenProperties
    <3>4. PICK w : Places(w, g, s, T, m-1)
      BY <3>1, <3>2
    <3>5. f[m] = IF s[m] \in T THEN Append(g, s[m]) ELSE g
      <4>1. f[m] = IF m = 0 THEN <<>>
                   ELSE IF s[m] \in T THEN Append(f[m-1], s[m]) ELSE f[m-1]
        BY <2>1, Zenon DEF Upto
      <4>2. QED
        BY <2>3, <3>2, <4>1, Zenon
    <3>6. CASE s[m] \notin T
      <4>1. Places(w, g, s, T, m)
        BY <3>1, <3>3, <3>4, <3>6 DEF Places
      <4>2. QED
        BY <2>1, <3>3, <3>5, <3>6, <4>1
    <3>7. CASE s[m] \in T
      <4>1. PICK x : x = s[m]
        OBVIOUS
      <4>2. PICK h : h = Append(g, x)
        OBVIOUS
      <4>3. x \in S
        BY <1>0, <3>1, <4>1
      <4>4. /\ h \in Seq(S) /\ Len(h) = Len(g) + 1 /\ h[Len(g) + 1] = x
            /\ \A i \in 1 .. Len(g) : h[i] = g[i]
        BY <3>3, <4>2, <4>3, AppendProperties
      <4>5. PICK v : v = [i \in 1 .. Len(h) |-> IF i = Len(h) THEN m ELSE w[i]]
        OBVIOUS
      <4>6. Places(v, h, s, T, m)
        <5>1. v \in [1 .. Len(h) -> 1 .. m]
          BY <3>1, <3>3, <3>4, <4>4, <4>5 DEF Places
        <5> DEFINE W(i) == w[i]
        <5>0. /\ v[Len(h)] = m /\ Len(h) \in 1 .. Len(h)
              /\ \A i \in 1 .. Len(g) : v[i] = W(i) /\ W(i) \in 1 .. m-1
              /\ \A i \in 1 .. Len(h) : i \in 1 .. Len(g) \/ i = Len(h)
          <6>1. \A i \in 1 .. Len(g) : w[i] \in 1 .. m-1
            BY <3>4 DEF Places
          <6>2. Len(h) \in Nat /\ Len(h) # 0 /\ Len(h) \in 1 .. Len(h)
            BY <3>3, <4>4
          <6>3. \A i \in 1 .. Len(g) : i \in 1 .. Len(h) /\ i # Len(h)
            BY <3>3, <4>4
          <6>4. \A i \in 1 .. Len(h) : i \in 1 .. Len(g) \/ i = Len(h)
            BY <3>3, <4>4
          <6>5. QED
            BY ONLY <4>5, <6>1, <6>2, <6>3, <6>4
        <5>2. ASSUME NEW i \in 1 .. Len(h) PROVE h[i] = s[v[i]] /\ h[i] \in T
          <6>1. CASE i = Len(h)
            BY <3>7, <4>1, <4>4, <5>0, <6>1
          <6>2. CASE i \in 1 .. Len(g)
            BY <3>4, <4>4, <5>0, <6>2 DEF Places
          <6>3. QED
            BY <5>0, <6>1, <6>2
        <5>3. ASSUME NEW i \in 1 .. Len(h), NEW j \in 1 .. Len(h), i < j
              PROVE  v[i] < v[j]
          <6>1. i \in 1 .. Len(g)
            BY <3>3, <4>4, <5>3
          <6>2. CASE j = Len(h)
            BY <3>1, <5>0, <6>1, <6>2
          <6>3. CASE j \in 1 .. Len(g)
            BY <3>4, <5>0, <5>3, <6>1, <6>3 DEF Places
          <6>4. QED
            BY <5>0, <6>2, <6>3
        <5>4. \A a \in 1 .. m : s[a] \in T => \E i \in 1 .. Len(h) : v[i] = a
          <6>2. \A a \in 1 .. m-1 : s[a] \in T => \E i \in 1 .. Len(g) : w[i] = a
            BY <3>4 DEF Places
          <6>3. \A i \in 1 .. Len(g) : i \in 1 .. Len(h)
            BY <3>3, <4>4
          <6>4. QED
            BY <3>1, <5>0, <6>2, <6>3
        <5>5. QED
          BY <5>1, <5>2, <5>3, <5>4 DEF Places
      <4>7. QED
        BY <2>1, <3>5, <3>7, <4>1, <4>2, <4>4, <4>6
    <3>8. QED
      BY <3>6, <3>7
  <2>4. QED
    BY <2>2, <2>3
<1>2. QED
  BY <1>1

(* The elements kept are those in T, in their order. *)
LEMMA SelectedPlaces ==
  ASSUME NEW S, NEW s \in Seq(S), NEW T
  PROVE  /\ Selected(s, T) \in Seq(S)
         /\ \E w : Places(w, Selected(s, T), s, T, Len(s))
<1>1. Len(s) \in Nat
  BY LenProperties
<1>2. PICK f : Upto(f, s, T, Len(s)) /\ Selected(s, T) = f[Len(s)]
  BY <1>1, SelectedUpto
<1>3. QED
  BY <1>1, <1>2, UptoPlaces

(* An element is kept if and only if it is in the list and in T. *)
LEMMA SelectedRange ==
  ASSUME NEW S, NEW s \in Seq(S), NEW T
  PROVE  /\ Selected(s, T) \in Seq(S)
         /\ \A i \in 1 .. Len(Selected(s, T)) :
              Selected(s, T)[i] \in T /\ \E a \in 1 .. Len(s) : Selected(s, T)[i] = s[a]
         /\ \A a \in 1 .. Len(s) :
              s[a] \in T => \E i \in 1 .. Len(Selected(s, T)) : Selected(s, T)[i] = s[a]
<1>1. Selected(s, T) \in Seq(S)
  BY SelectedPlaces
<1>2. PICK out : out = Selected(s, T)
  OBVIOUS
<1>3. PICK w : Places(w, out, s, T, Len(s))
  BY <1>2, SelectedPlaces
<1>4. ASSUME NEW i \in 1 .. Len(out)
      PROVE  out[i] \in T /\ \E a \in 1 .. Len(s) : out[i] = s[a]
  BY <1>3, Zenon DEF Places
<1>5. ASSUME NEW a \in 1 .. Len(s), s[a] \in T
      PROVE  \E i \in 1 .. Len(out) : out[i] = s[a]
  <2>1. PICK i \in 1 .. Len(out) : w[i] = a
    BY <1>3, <1>5, Zenon DEF Places
  <2>2. out[i] = s[w[i]]
    BY <1>3, Zenon DEF Places
  <2>3. QED
    BY <2>1, <2>2, Zenon
<1>6. QED
  BY <1>1, <1>2, <1>4, <1>5, ZenonT(60)

(* What is kept of an increasing list is increasing. *)
LEMMA SelectedIncreasing ==
  ASSUME NEW s \in Seq(Int), NEW T,
         \A a, b \in 1 .. Len(s) : a < b => s[a] < s[b]
  PROVE  \A i, j \in 1 .. Len(Selected(s, T)) :
           i < j => Selected(s, T)[i] < Selected(s, T)[j]
<1>1. PICK out : out = Selected(s, T)
  OBVIOUS
<1>2. PICK w : Places(w, out, s, T, Len(s))
  BY <1>1, SelectedPlaces
<1>3. ASSUME NEW i \in 1 .. Len(out), NEW j \in 1 .. Len(out), i < j
      PROVE  out[i] < out[j]
  <2>1. w[i] \in 1 .. Len(s) /\ w[j] \in 1 .. Len(s) /\ w[i] < w[j]
    BY <1>2, <1>3 DEF Places
  <2>2. out[i] = s[w[i]] /\ out[j] = s[w[j]]
    BY <1>2, Zenon DEF Places
  <2>3. QED
    BY <2>1, <2>2
<1>4. QED
  BY <1>1, <1>3, Zenon
-----------------------------------------------------------------------------

(* the entries are what the sort hands out: parents first, of the kind of
   their children, with refcounts that count the children *)
MapOK ==
  /\ type \in [Idx -> {"interface", "dictionary"}]
  /\ noobject \in [Idx -> BOOLEAN]
  /\ primary_global \in [Idx -> BOOLEAN]
  /\ inherit_idx \in [Idx -> Idx \cup {-1}]
  /\ \A k \in Idx : inherit_idx[k] < k
  /\ \A k \in Idx : inherit_idx[k] # -1 => type[inherit_idx[k]] = type[k]
  /\ refcount = [p \in Idx |-> Cardinality({k \in Idx : inherit_idx[k] = p})]
  /\ init \in [Idx -> Params]

(* a class file is written in its turn, once, and only the last is torn *)
SourcesOK ==
  /\ idx \in 0 .. N
  /\ pc \in {"classes", "private", "prototype", "binding_h", "binding",
             "makefile", "done", "failed", "crashed"}
  /\ pc \in {"private", "prototype", "binding_h", "binding", "makefile", "done"}
       => idx = N
  /\ lost \in BOOLEAN
  /\ source \in [Idx -> SourceFile \cup {Null}]
  /\ \A k \in Idx : source[k] # Null =>
       /\ Generated(k)
       /\ k < idx \/ (k = idx /\ source[k].torn)
       /\ source[k].torn => pc = "failed"
       /\ Interface(k) => source[k] = Source(k)
       /\ ~Interface(k) => source[k].call = Null
  /\ \A k \in 0 .. idx-1 : Generated(k) => source[k] # Null

(* the lists that private.h and prototype.h are written from *)
Structs == [n \in DOMAIN GeneratedSeq |->
              [class |-> GeneratedSeq[n], parent |-> inherit_idx[GeneratedSeq[n]]]]

Declarations == [n \in DOMAIN InterfaceSeq |->
                   LET k == InterfaceSeq[n]
                   IN  [class |-> k, exported |-> refcount[k] >= 1,
                        init_argc |-> Len(init[k])]]

(* the files in the order in which they are written *)
HeadersOK ==
  /\ private \in {Null, Structs}
  /\ prototype \in {Null, Declarations}
  /\ binding_h \in {Null, "written"}
  /\ binding \in {Null, Creations}
  /\ makefile \in {Null, GeneratedSeq}
  /\ pc \in {"prototype", "binding_h", "binding", "makefile", "done"} => private # Null
  /\ pc \in {"binding_h", "binding", "makefile", "done"} => prototype # Null
  /\ pc \in {"binding", "makefile", "done"} => binding_h # Null
  /\ pc \in {"makefile", "done"} => binding # Null
  /\ pc = "done" <=> makefile # Null

(* no file of this run is written, so that none is lost *)
Blank == ~lost /\ files = <<[k \in Idx |-> Null], Null, Null, Null, Null, Null>>

(* nothing is written unless the input has come as far as the back end *)
DriverOK ==
  /\ stage \in {"cmdline", "binding", "type", "webidl", "ir", "output",
                "exited", "killed"}
  /\ stage \in {"cmdline", "binding", "type", "webidl", "ir"} \/ bindingtype # "duk"
       => Blank
  /\ stage # "exited" => exit = Null
  /\ stage = "exited" =>
       \/ exit \in 1 .. 7 /\ Blank
       \/ exit = 0 /\ pc = "done"
       \/ exit = 255 /\ pc = "failed"
  /\ stage = "killed" => pc = "crashed"

(* the prototypes tried so far are those of a prefix of binding.c *)
PrototypesOK ==
  /\ created \in Nat
  /\ created # 0 => Built /\ created <= Len(binding)
  /\ chain \in [Idx -> Idx \cup {-1, Null}]
  /\ \A k \in Registered : \E i \in 1 .. created : binding[i] = k
  /\ ChildlessGlobal /\ OneGlobal =>
       \A k \in Registered :
         /\ chain[k] = Chained(k)
         /\ primary_global[k] => injected = [i \in Interfaces |-> i \in Registered]

(* the initialisers have run from the root of the lineage down to some class,
   the finalisers from the class of the object up to some class *)
CodeOK ==
  LET L == Lineage[object]
  IN  /\ inits \in Seq(Idx) /\ Len(inits) <= Len(L)
      /\ \A j \in 1 .. Len(inits) : inits[j] = L[Len(L) + 1 - j]
      /\ finis \in Seq(Idx) /\ Len(finis) <= Len(L)
      /\ \A j \in 1 .. Len(finis) : finis[j] = L[j]

(* the initialisers that are active are those of the classes from that of
   the object up to some class, and only the last may have to call on *)
InitOK ==
  LET L == Lineage[object]
      n == Len(calls)
  IN  phase = "init" =>
        /\ n <= Len(L)
        /\ \A i \in 1 .. n : /\ calls[i].class = L[i]
                             /\ i < n => calls[i].at = "code"
                             /\ source[L[i]] # Null
        /\ IF n # 0 /\ calls[n].at = "parent" THEN inits = <<>>
           ELSE Len(inits) + n = Len(L)
        /\ finis = <<>> /\ priv = "live"

(* what is left to run of the finalisers is the tail of the lineage, and the
   one that is active is its head *)
FiniOK ==
  LET L == Lineage[object]
      n == Len(finis)
  IN  phase = "fini" =>
        /\ priv = "live"
        /\ IF calls = <<>> THEN n = Len(L)
           ELSE /\ Len(calls) = 1 /\ n < Len(L)
                /\ calls[1].class = L[n + 1]
                /\ source[L[n + 1]] # Null

(* an activation of an initialiser or finaliser *)
Call == [class : Idx, at : {"parent", "code"}]

(* the object: none of its state before it is made, the code of its lineage
   afterwards, and the private data from the root on to the last finaliser *)
ObjectOK ==
  /\ phase \in {"none", "init", "made", "fini", "gone"}
  /\ priv \in {"none", "live", "freed"}
  /\ faults \in Nat
  /\ calls \in Seq(Call)
  /\ phase = "none" => calls = <<>> /\ inits = <<>> /\ finis = <<>> /\ priv = "none"
  /\ phase # "none" => /\ Built /\ created = Len(binding)
                       /\ object \in Registered
                       /\ CodeOK
                       /\ priv = "none" => faults > 0
  /\ InitOK
  /\ phase = "made" => /\ finis = <<>> /\ priv # "freed"
                       /\ faults = 0 => Len(inits) = Len(Lineage[object])
  /\ FiniOK
  /\ phase = "gone" => priv = "freed" \/ faults > 0
  /\ priv = "freed" => phase = "gone" /\ Len(finis) = Len(Lineage[object])

(* the inductive invariant *)
IInv == /\ MapOK /\ SourcesOK /\ HeadersOK /\ DriverOK /\ PrototypesOK /\ ObjectOK

-----------------------------------------------------------------------------
(* The lists of entries that the loops over the map go through hold the
   entries they should, each after the ones before it in the map. *)
ListOf(out, T) ==
  /\ out \in Seq(Idx)
  /\ \A i, j \in 1 .. Len(out) : i < j => out[i] < out[j]
  /\ \A i \in 1 .. Len(out) : out[i] \in T
  /\ \A k \in T : \E i \in 1 .. Len(out) : out[i] = k

(* The indices of the map are numbers that can be compared. *)
LEMMA IdxInt == Idx \subseteq Int /\ Idx \subseteq Nat
BY NAssumption DEF Idx

(* A selection from such a list is such a list. *)
LEMMA SelectedList ==
  ASSUME NEW A \in SUBSET Idx, NEW s, ListOf(s, A), NEW T \in SUBSET Idx
  PROVE  ListOf(Selected(s, T), A \cap T)
<1>1. PICK out : out = Selected(s, T)
  OBVIOUS
<1>2. s \in Seq(Idx) /\ s \in Seq(Int)
  BY IdxInt, SeqMonotonic DEF ListOf
<1>3. /\ out \in Seq(Idx)
      /\ \A i \in 1 .. Len(out) :
           out[i] \in T /\ \E a \in 1 .. Len(s) : out[i] = s[a]
      /\ \A a \in 1 .. Len(s) :
           s[a] \in T => \E i \in 1 .. Len(out) : out[i] = s[a]
  <2>1. s \in Seq(Idx)
    BY <1>2
  <2>2. QED
    BY ONLY <1>1, <2>1, SelectedRange
<1>4. \A i, j \in 1 .. Len(out) : i < j => out[i] < out[j]
  <2>1. \A a, b \in 1 .. Len(s) : a < b => s[a] < s[b]
    BY DEF ListOf
  <2>2. QED
    BY <1>1, <1>2, <2>1, SelectedIncreasing
<1>5. \A i \in 1 .. Len(out) : out[i] \in A \cap T
  BY <1>3 DEF ListOf
<1>6. \A k \in A \cap T : \E i \in 1 .. Len(out) : out[i] = k
  BY <1>3, Zenon DEF ListOf
<1>7. QED
  BY <1>1, <1>3, <1>4, <1>5, <1>6, Zenon DEF ListOf

(* The loops over the map that skip noobject entries, as in private.h and
   the Makefile. *)
LEMMA GeneratedList == ListOf(GeneratedSeq, {k \in Idx : Generated(k)})
<1> DEFINE all_idx == [n \in 1 .. N |-> n-1]
<1>1. ListOf(all_idx, Idx)
  <2>1. all_idx \in Seq(Idx) /\ Len(all_idx) = N
    BY NAssumption, IsASeq, LenProperties DEF Idx
  <2>2. \A k \in Idx : k+1 \in 1 .. N /\ all_idx[k+1] = k
    BY NAssumption DEF Idx
  <2>3. \A i \in 1 .. N : all_idx[i] = i-1 /\ all_idx[i] \in Idx
    BY NAssumption DEF Idx
  <2> HIDE DEF all_idx
  <2>4. /\ \A i, j \in 1 .. Len(all_idx) : i < j => all_idx[i] < all_idx[j]
        /\ \A i \in 1 .. Len(all_idx) : all_idx[i] \in Idx
    BY <2>1, <2>3, NAssumption
  <2>5. \A k \in Idx : \E i \in 1 .. Len(all_idx) : all_idx[i] = k
    BY <2>1, <2>2
  <2>6. QED
    BY <2>1, <2>4, <2>5, Zenon DEF ListOf
<1> HIDE DEF all_idx
<1>2. ListOf(Selected(all_idx, {k \in Idx : Generated(k)}),
             Idx \cap {k \in Idx : Generated(k)})
  BY <1>1, SelectedList
<1>3. Idx \cap {k \in Idx : Generated(k)} = {k \in Idx : Generated(k)}
  OBVIOUS
<1>4. QED
  BY <1>2, <1>3, Zenon DEF GeneratedSeq, all_idx

(* The loops that skip dictionaries besides, as in prototype.h. *)
LEMMA InterfaceList == ListOf(InterfaceSeq, {k \in Idx : Interface(k) /\ Generated(k)})
<1> DEFINE A == {k \in Idx : Generated(k)}
           T == {k \in Idx : Interface(k)}
<1>1. ListOf(Selected(GeneratedSeq, T), A \cap T)
  BY GeneratedList, SelectedList, Zenon
<1>2. A \cap T = {k \in Idx : Interface(k) /\ Generated(k)}
  OBVIOUS
<1>3. QED
  BY <1>1, <1>2, Zenon DEF InterfaceSeq
(* Every prototype that binding.c creates is that of a generated interface,
   those of parents before those of their children, the global's last. *)
LEMMA CreationFacts ==
  ASSUME MapOK
  PROVE  /\ Creations \in Seq(Idx)
         /\ \A i \in 1 .. Len(Creations) : Interface(Creations[i]) /\ Generated(Creations[i])
         /\ \A i \in 1 .. Len(Creations) :
              primary_global[Creations[i]] => i = Len(Creations)
         /\ ChildlessGlobal =>
              \A i, j \in 1 .. Len(Creations) :
                inherit_idx[Creations[i]] = Creations[j] => j < i
<1> DEFINE A == {k \in Idx : Interface(k) /\ Generated(k)}
           Global == {k \in Idx : primary_global[k]}
           Other == {k \in Idx : ~primary_global[k]}
           last == IF Selected(InterfaceSeq, Global) = <<>> THEN <<>>
                   ELSE <<Last(Selected(InterfaceSeq, Global))>>
<1>1. PICK p : p = Selected(InterfaceSeq, Other)
  OBVIOUS
<1>2. PICK g : g = Selected(InterfaceSeq, Global)
  OBVIOUS
<1>3. ListOf(p, A \cap Other) /\ ListOf(g, A \cap Global)
  <2>1. A \in SUBSET Idx /\ Other \in SUBSET Idx /\ Global \in SUBSET Idx
    OBVIOUS
  <2> HIDE DEF A, Other, Global
  <2>2. ListOf(InterfaceSeq, A)
    BY InterfaceList DEF A
  <2>3. QED
    BY <1>1, <1>2, <2>1, <2>2, SelectedList
<1>4. PICK l : l = last
  OBVIOUS
<1>5. /\ l \in Seq(Idx) /\ Len(l) \in {0, 1}
      /\ \A i \in 1 .. Len(l) : l[i] \in A \cap Global
  <2>1. CASE g = <<>>
    <3>1. l = <<>>
      BY <1>2, <1>4, <2>1
    <3>2. <<>> \in Seq(Idx) /\ Len(<<>>) = 0 /\ 1 .. 0 = {}
      BY EmptySeq
    <3>3. QED
      BY <3>1, <3>2
  <2>2. CASE g # <<>>
    <3>1. g \in Seq(Idx) /\ Len(g) \in Nat /\ Len(g) # 0
      BY <1>3, <2>2, LenProperties, EmptySeq DEF ListOf
    <3>2. Last(g) \in A \cap Global
      BY <1>3, <3>1 DEF ListOf, Last
    <3>3. l = <<Last(g)>>
      BY <1>2, <1>4, <2>2
    <3>4. QED
      BY <3>2, <3>3
  <2>3. QED
    BY <2>1, <2>2
<1>6. Creations = p \o l
  BY <1>1, <1>2, <1>4, Zenon DEF Creations
<1>7. p \in Seq(Idx) /\ Len(p) \in Nat /\ \A i \in 1 .. Len(p) : p[i] \in A \cap Other
  BY <1>3, LenProperties DEF ListOf
<1>8. /\ p \o l \in Seq(Idx) /\ Len(p \o l) = Len(p) + Len(l)
      /\ \A i \in 1 .. Len(p) + Len(l) :
           (p \o l)[i] = IF i <= Len(p) THEN p[i] ELSE l[i - Len(p)]
  BY <1>5, <1>7, ConcatProperties
<1> DEFINE c == p \o l
<1>9. \A i \in 1 .. Len(c) :
        \/ i \in 1 .. Len(p) /\ c[i] = p[i] /\ c[i] \in A \cap Other
        \/ i = Len(c) /\ i = Len(p) + 1 /\ c[i] \in A \cap Global
  <2>1. ASSUME NEW i \in 1 .. Len(c), ~ (i <= Len(p))
        PROVE  i = Len(p) + 1 /\ Len(l) = 1 /\ i - Len(p) = 1
    BY <1>5, <1>7, <1>8, <2>1
  <2>2. QED
    BY <1>5, <1>7, <1>8, <2>1
<1>10. Len(c) \in Nat
  BY <1>5, <1>7, <1>8
<1> HIDE DEF c
<1>11. ASSUME ChildlessGlobal, NEW i \in 1 .. Len(c), NEW j \in 1 .. Len(c),
              inherit_idx[c[i]] = c[j]
       PROVE  j < i
  <2>1. c[i] \in Idx /\ c[j] \in Idx
    BY <1>9
  <2>2. ~primary_global[c[j]]
    <3>1. c[j] # -1
      BY <2>1 DEF Idx
    <3>2. QED
      BY <1>11, <2>1, <3>1 DEF ChildlessGlobal
  <2>3. j \in 1 .. Len(p) /\ c[j] = p[j]
    BY <1>9, <2>2
  <2>4. CASE i \in 1 .. Len(p) /\ c[i] = p[i]
    <3>1. p[j] < p[i]
      BY <1>11, <2>1, <2>3, <2>4 DEF MapOK
    <3>2. p[i] \in Int /\ p[j] \in Int
      BY <2>1, <2>3, <2>4, IdxInt
    <3>3. ~ (i < j)
      <4>1. i < j => p[i] < p[j]
        BY <1>3, <2>3, <2>4 DEF ListOf
      <4>2. QED
        BY <3>1, <3>2, <4>1
    <3>4. i # j
      BY <3>1, <3>2
    <3>5. QED
      BY <3>3, <3>4
  <2>5. CASE i = Len(p) + 1
    BY <1>7, <2>3, <2>5
  <2>6. QED
    BY <1>9, <2>4, <2>5
<1>12. \A i \in 1 .. Len(c) : primary_global[c[i]] => i = Len(c)
  BY <1>9
<1>13. \A i \in 1 .. Len(c) : Interface(c[i]) /\ Generated(c[i])
  BY <1>9
<1>14. c \in Seq(Idx)
  BY <1>8 DEF c
<1>15. Creations = c
  BY <1>6 DEF c
<1>16. QED
  BY <1>11, <1>12, <1>13, <1>14, <1>15, Zenon

-----------------------------------------------------------------------------
(* The lineage of an entry ends, for each parent comes before its child. *)
IsLineage(f, m) ==
  f = [k \in 0 .. m |-> <<k>> \o IF inherit_idx[k] = -1 THEN <<>> ELSE f[inherit_idx[k]]]

(* The recursion over the parents is well founded, for every parent comes
   before its child. *)
LEMMA LineageExists ==
  ASSUME MapOK, NEW m \in Idx
  PROVE  \E f : IsLineage(f, m)
<1> DEFINE Bad == {k \in Idx : ~ \E f : IsLineage(f, k)}
<1>1. ASSUME Bad # {} PROVE FALSE
  <2>1. PICK k \in Bad : \A y \in Bad : k <= y
    <3>1. Bad \in SUBSET Nat
      BY IdxInt
    <3> HIDE DEF Bad
    <3>2. QED
      BY <1>1, <3>1, LeastExists
  <2>2. inherit_idx[k] \in Idx \cup {-1} /\ inherit_idx[k] < k /\ k \in Nat /\ k \in Idx
    BY <2>1, IdxInt DEF MapOK
  <2>3. \E g : \A j \in 0 .. k-1 :
          g[j] = <<j>> \o IF inherit_idx[j] = -1 THEN <<>> ELSE g[inherit_idx[j]]
    <3>1. CASE k = 0
      BY <3>1
    <3>2. CASE k # 0
      <4>1. k-1 \in Idx /\ ~ (k <= k-1)
        BY <2>2, <3>2, NAssumption DEF Idx
      <4>2. k-1 \notin Bad
        BY <2>1, <4>1
      <4>3. QED
        BY <4>1, <4>2 DEF IsLineage
    <3>3. \A l \in Nat : l <= 1 => l \in {0, 1}
      OBVIOUS
    <3>4. QED
      BY <3>1, <3>2, <3>3, Zenon
  <2>4. PICK g : \A j \in 0 .. k-1 :
          g[j] = <<j>> \o IF inherit_idx[j] = -1 THEN <<>> ELSE g[inherit_idx[j]]
    BY <2>3
  <2> DEFINE F(h, j) == <<j>> \o IF inherit_idx[j] = -1 THEN <<>> ELSE h[inherit_idx[j]]
             f == [j \in 0 .. k |-> IF j = k THEN F(g, k) ELSE g[j]]
  <2>5. \A j \in 0 .. k : inherit_idx[j] = -1 \/ inherit_idx[j] \in 0 .. j-1
    BY <2>1, NAssumption DEF MapOK, Idx
  <2>6. \A j \in 0 .. k : j = k \/ j \in 0 .. k-1
    BY <2>2
  <2>7. \A j \in 0 .. k : inherit_idx[j] # -1 => f[inherit_idx[j]] = g[inherit_idx[j]]
    BY <2>2, <2>5
  <2>8. \A j \in 0 .. k : f[j] = F(f, j)
    BY <2>2, <2>4, <2>6, <2>7
  <2>9. f = [j \in 0 .. k |-> f[j]]
    OBVIOUS
  <2> HIDE DEF f
  <2>10. IsLineage(f, k)
    BY <2>8, <2>9, Zenon DEF IsLineage
  <2>11. QED
    BY <2>1, <2>10
<1>2. QED
  BY <1>1

(* The lineage of an entry is the entry, then the lineage of its parent. *)
LEMMA LineageDef ==
  ASSUME MapOK, NEW k \in Idx
  PROVE  Lineage[k] = <<k>> \o IF inherit_idx[k] = -1 THEN <<>> ELSE Lineage[inherit_idx[k]]
<1>1. N-1 \in Idx /\ Idx = 0 .. N-1
  BY NAssumption DEF Idx
<1>2. \E f : f = [j \in Idx |-> <<j>> \o IF inherit_idx[j] = -1 THEN <<>> ELSE f[inherit_idx[j]]]
  BY <1>1, LineageExists DEF IsLineage
<1>3. Lineage = [j \in Idx |->
                   <<j>> \o IF inherit_idx[j] = -1 THEN <<>> ELSE Lineage[inherit_idx[j]]]
  BY <1>2, Zenon DEF Lineage
<1>4. QED
  BY <1>3, Zenon

(* What the life of an object needs to know of a lineage: who comes first,
   who comes next, and that it goes on like the lineage of any of its
   members. *)
LineageOf(k, l) ==
  /\ l \in Seq(Idx) /\ Len(l) # 0
  /\ l[1] = k
  /\ \A i \in 1 .. Len(l) :
       /\ type[l[i]] = type[k]
       /\ l[i] <= k /\ (i # 1 => l[i] < k)
       /\ inherit_idx[l[i]] = IF i < Len(l) THEN l[i+1] ELSE -1
       /\ Len(Lineage[l[i]]) = Len(l) + 1 - i
       /\ \A j \in 1 .. Len(l) + 1 - i : Lineage[l[i]][j] = l[i + j - 1]

(* What a lineage is in terms of the parents in the map. *)
LEMMA LineageFacts ==
  ASSUME MapOK
  PROVE  \A k \in Idx : LineageOf(k, Lineage[k])
<1> DEFINE Bad == {k \in Idx : ~ LineageOf(k, Lineage[k])}
<1>1. ASSUME Bad # {} PROVE FALSE
  <2>1. PICK k \in Bad : \A y \in Bad : k <= y
    <3>1. Bad \in SUBSET Nat
      BY IdxInt
    <3> HIDE DEF Bad
    <3>2. QED
      BY <1>1, <3>1, LeastExists
  <2>2. inherit_idx[k] \in Idx \cup {-1} /\ inherit_idx[k] < k /\ k \in Nat /\ k \in Idx
    BY <2>1, IdxInt DEF MapOK
  <2>3. CASE inherit_idx[k] = -1
    <3>1. Lineage[k] = <<k>>
      <4>1. Lineage[k] = <<k>> \o <<>>
        BY <2>2, <2>3, LineageDef
      <4>2. QED
        BY <2>2, <4>1, ConcatEmptySeq
    <3>2. PICK l : l = Lineage[k]
      OBVIOUS
    <3>3. l \in Seq(Idx) /\ Len(l) = 1 /\ l[1] = k
      BY <2>2, <3>1, <3>2
    <3>4. LineageOf(k, l)
      <4>1. \A i \in 1 .. Len(l) : i = 1 /\ ~ (i < Len(l)) /\ Len(l) + 1 - i = 1
        BY <3>3
      <4>2. \A j \in 1 .. 1 : j = 1 /\ 1 + j - 1 = 1
        OBVIOUS
      <4>3. QED
        BY <2>2, <2>3, <3>2, <3>3, <4>1, <4>2 DEF LineageOf
    <3>5. QED
      BY <2>1, <3>2, <3>4
  <2>4. CASE inherit_idx[k] # -1
    <3>1. PICK p \in Idx : p = inherit_idx[k]
      BY <2>2, <2>4
    <3>2. p < k /\ p \in Nat /\ type[p] = type[k]
      BY <2>2, <2>4, <3>1, IdxInt DEF MapOK
    <3>3. PICK m : m = Lineage[p]
      OBVIOUS
    <3>4. LineageOf(p, m)
      <4>1. ~ (k <= p)
        BY <2>2, <3>2
      <4>2. p \notin Bad
        BY <2>1, <4>1
      <4>3. QED
        BY <3>3, <4>2
    <3>5. m \in Seq(Idx) /\ Len(m) \in Nat /\ Len(m) # 0
      BY <3>4, LenProperties DEF LineageOf
    <3>6. PICK l : l = <<k>> \o m
      OBVIOUS
    <3>7. l = Lineage[k]
      BY <2>2, <2>4, <3>1, <3>3, <3>6, LineageDef
    <3>8. /\ l \in Seq(Idx) /\ Len(l) = Len(m) + 1 /\ l[1] = k
          /\ \A i \in 2 .. Len(l) : l[i] = m[i - 1]
      <4>1. <<k>> \in Seq(Idx) /\ Len(<<k>>) = 1 /\ <<k>>[1] = k
        BY <2>2
      <4>2. /\ <<k>> \o m \in Seq(Idx) /\ Len(<<k>> \o m) = 1 + Len(m)
            /\ \A i \in 1 .. 1 + Len(m) :
                 (<<k>> \o m)[i] = IF i <= 1 THEN <<k>>[i] ELSE m[i - 1]
        BY <3>5, <4>1, ConcatProperties
      <4>3. QED
        BY <3>5, <3>6, <4>1, <4>2
    <3>9. ASSUME NEW i \in 1 .. Len(l)
          PROVE  /\ type[l[i]] = type[k]
                 /\ l[i] <= k /\ (i # 1 => l[i] < k)
                 /\ inherit_idx[l[i]] = IF i < Len(l) THEN l[i+1] ELSE -1
                 /\ Len(Lineage[l[i]]) = Len(l) + 1 - i
                 /\ \A j \in 1 .. Len(l) + 1 - i : Lineage[l[i]][j] = l[i + j - 1]
      <4>1. CASE i = 1
        <5>1. 1 < Len(l) /\ l[1+1] = p
          BY <3>4, <3>5, <3>8 DEF LineageOf
        <5>2. QED
          BY <2>2, <3>1, <3>5, <3>7, <3>8, <4>1, <5>1
      <4>2. CASE i # 1
        <5>1. i-1 \in 1 .. Len(m) /\ l[i] = m[i-1]
          BY <3>5, <3>8, <4>2
        <5>2. type[l[i]] = type[k] /\ l[i] < k /\ l[i] <= k
          <6>1. type[l[i]] = type[p] /\ m[i-1] <= p /\ m[i-1] \in Int
            BY <3>4, <3>5, <5>1, IdxInt, ElementOfSeq DEF LineageOf
          <6>2. QED
            BY <2>2, <3>2, <5>1, <6>1
        <5>3. inherit_idx[l[i]] = IF i < Len(l) THEN l[i+1] ELSE -1
          <6>1. inherit_idx[l[i]] = IF i-1 < Len(m) THEN m[i-1+1] ELSE -1
            BY <3>4, <5>1 DEF LineageOf
          <6>2. i-1 < Len(m) <=> i < Len(l)
            BY <3>5, <3>8
          <6>3. i < Len(l) => l[i+1] = m[i-1+1]
            BY <3>5, <3>8
          <6>4. QED
            BY <6>1, <6>2, <6>3
        <5>4. /\ Len(Lineage[l[i]]) = Len(m) + 1 - (i-1)
              /\ \A j \in 1 .. Len(m) + 1 - (i-1) : Lineage[l[i]][j] = m[i-1 + j - 1]
          BY <3>4, <5>1, Zenon DEF LineageOf
        <5>5. Len(m) + 1 - (i-1) = Len(l) + 1 - i
          BY <3>5, <3>8
        <5>6. \A j \in 1 .. Len(l) + 1 - i : l[i + j - 1] = m[i-1 + j - 1]
          BY <3>5, <3>8, <4>2
        <5>7. QED
          BY <5>2, <5>3, <5>4, <5>5, <5>6
      <4>3. QED
        BY <4>1, <4>2
    <3>10. LineageOf(k, l)
      BY <3>5, <3>8, <3>9 DEF LineageOf
    <3>11. QED
      BY <2>1, <3>7, <3>10
  <2>5. QED
    BY <2>3, <2>4
<1>2. QED
  BY <1>1

-----------------------------------------------------------------------------
(* Parameter lists, and the parameter that is found for one of the parent. *)
Parameters == UNION {ToSet(list) : list \in Params}

(* The parameter list of an init method is a sequence. *)
LEMMA ParamLists ==
  ASSUME MapOK, NEW k \in Idx
  PROVE  /\ init[k] \in Seq(ToSet(init[k])) /\ Len(init[k]) \in Nat
         /\ DOMAIN init[k] = 1 .. Len(init[k])
         /\ ToSet(init[k]) \subseteq Parameters
<1>1. init[k] \in Params
  BY DEF MapOK
<1>2. init[k] \in Seq(ToSet(init[k]))
  BY <1>1, ParamsAssumption
<1>3. QED
  BY <1>1, <1>2, LenProperties DEF Parameters

(* The search for a parameter of the parent finds one of the child that has
   its name, if there is one. *)
LEMMA MatchingFacts ==
  ASSUME MapOK, NEW k \in Idx, NEW x
  PROVE  LET m == Matching(k, x)
         IN  /\ m = <<>> <=> \A y \in ToSet(init[k]) : ~Names(y, x.id)
             /\ m # <<>> => Head(m) \in ToSet(init[k]) /\ Names(Head(m), x.id)
<1> DEFINE T == {y \in ToSet(init[k]) : Names(y, x.id)}
<1>1. PICK m : m = Matching(k, x)
  OBVIOUS
<1>2. PICK s : s = init[k]
  OBVIOUS
<1>3. s \in Seq(ToSet(s)) /\ ToSet(s) = {s[i] : i \in 1 .. Len(s)}
  BY <1>2, ParamLists DEF ToSet
<1>4. /\ m \in Seq(ToSet(s))
      /\ \A i \in 1 .. Len(m) : m[i] \in T
      /\ \A a \in 1 .. Len(s) : s[a] \in T => \E i \in 1 .. Len(m) : m[i] = s[a]
  <2>1. m = Selected(s, T)
    BY <1>1, <1>2 DEF Matching
  <2>2. PICK V, U : V = ToSet(s) /\ U = T
    OBVIOUS
  <2>3. s \in Seq(V)
    BY <1>3, <2>2
  <2>4. m = Selected(s, U)
    BY <2>1, <2>2
  <2>5. /\ m \in Seq(V)
        /\ \A i \in 1 .. Len(m) : m[i] \in U
        /\ \A a \in 1 .. Len(s) : s[a] \in U => \E i \in 1 .. Len(m) : m[i] = s[a]
    BY ONLY <2>3, <2>4, SelectedRange
  <2>6. QED
    BY <2>2, <2>5, Zenon
<1>5. CASE m = <<>>
  <2>1. Len(m) = 0
    BY <1>5, EmptySeq
  <2>2. \A a \in 1 .. Len(s) : s[a] \notin T
    BY <1>4, <2>1
  <2>3. \A y \in ToSet(init[k]) : ~Names(y, x.id)
    BY <1>2, <1>3, <2>2
  <2>4. QED
    BY <1>1, <1>5, <2>3
<1>6. CASE m # <<>>
  <2>1. Len(m) \in Nat /\ Len(m) # 0 /\ Head(m) = m[1]
    BY <1>4, <1>6, EmptySeq, LenProperties, HeadTailProperties
  <2>2. m[1] \in T
    BY <1>4, <2>1
  <2>3. QED
    BY <1>1, <1>6, <2>1, <2>2
<1>7. QED
  BY <1>5, <1>6

(* Only the first parameter of the parent is looked for. *)
LEMMA WantedFacts ==
  ASSUME MapOK, NEW k \in Idx
  PROVE  \/ /\ Wanted(k) = <<>> /\ DOMAIN Wanted(k) = {}
            /\ inherit_idx[k] = -1 \/ Len(init[inherit_idx[k]]) = 0
         \/ /\ DOMAIN Wanted(k) = {1}
            /\ inherit_idx[k] \in Idx /\ Len(init[inherit_idx[k]]) # 0
            /\ Wanted(k)[1] = init[inherit_idx[k]][1]
<1>1. CASE inherit_idx[k] = -1 \/ init[inherit_idx[k]] = <<>>
  <2>1. Wanted(k) = <<>>
    BY <1>1 DEF Wanted
  <2>2. DOMAIN <<>> = {} /\ Len(<<>>) = 0
    BY EmptySeq, LenProperties
  <2>3. QED
    BY <1>1, <2>1, <2>2
<1>2. CASE ~ (inherit_idx[k] = -1 \/ init[inherit_idx[k]] = <<>>)
  <2>1. PICK p \in Idx : p = inherit_idx[k]
    BY <1>2 DEF MapOK
  <2>2. init[p] \in Seq(ToSet(init[p])) /\ init[p] # <<>> /\ Len(init[p]) # 0
    BY <1>2, <2>1, ParamLists, EmptySeq
  <2>3. Head(init[p]) = init[p][1]
    BY <2>2, HeadTailProperties
  <2>4. Wanted(k) = <<init[p][1]>>
    BY <1>2, <2>1, <2>3 DEF Wanted
  <2>5. QED
    BY <2>1, <2>2, <2>4
<1>3. QED
  BY <1>1, <1>2

(* A class file is no empty value, passes on parameters of its own entry
   that the parent wants, and is torn if and only if one is not found. *)
LEMMA SourceFacts ==
  ASSUME MapOK, NEW k \in Idx
  PROVE  /\ Source(k) \in SourceFile /\ Source(k) # Null
         /\ \A n \in DOMAIN Source(k).passes :
              /\ n = 1 /\ inherit_idx[k] \in Idx
              /\ Names(Source(k).passes[1], init[inherit_idx[k]][1].id)
         /\ inherit_idx[k] \in Idx /\ Len(init[inherit_idx[k]]) # 0 =>
              /\ Source(k).torn <=> \A y \in ToSet(init[k]) :
                   ~Names(y, init[inherit_idx[k]][1].id)
              /\ ~Source(k).torn => Len(Source(k).passes) = 1
         /\ inherit_idx[k] = -1 \/ Len(init[inherit_idx[k]]) = 0 =>
              ~Source(k).torn /\ Len(Source(k).passes) = 0
<1> DEFINE p == inherit_idx[k]
           torn == \E n \in DOMAIN Wanted(k) : Matching(k, Wanted(k)[n]) = <<>>
           passes == IF torn THEN <<>>
                     ELSE [n \in DOMAIN Wanted(k) |-> Head(Matching(k, Wanted(k)[n]))]
<1>1. Source(k) = [static |-> Static(k), init_argc |-> Len(init[k]),
                   call |-> IF p = -1 THEN Null ELSE p,
                   passes |-> passes, torn |-> torn]
  BY DEF Source
<1>2. PICK s : s = Source(k)
  OBVIOUS
<1>3. PICK w : w = passes
  OBVIOUS
<1>4. s = [static |-> Static(k), init_argc |-> Len(init[k]),
           call |-> IF p = -1 THEN Null ELSE p, passes |-> w, torn |-> torn]
  BY <1>1, <1>2, <1>3, Zenon
<1>5. /\ w \in Seq(Parameters)
      /\ \A n \in DOMAIN w : n = 1 /\ p \in Idx /\ Names(w[1], init[p][1].id)
      /\ p \in Idx /\ Len(init[p]) # 0 =>
           /\ torn <=> \A y \in ToSet(init[k]) : ~Names(y, init[p][1].id)
           /\ ~torn => Len(w) = 1
      /\ p = -1 \/ Len(init[p]) = 0 => ~torn /\ Len(w) = 0
  <2>0. /\ <<>> \in Seq(Parameters) /\ DOMAIN <<>> = {} /\ Len(<<>>) = 0
        /\ -1 \notin Idx
    BY EmptySeq DEF Idx
  <2>1. CASE DOMAIN Wanted(k) = {} /\ (p = -1 \/ Len(init[p]) = 0)
    <3>1. ~torn
      BY <2>1
    <3>2. w = [n \in {} |-> Head(Matching(k, Wanted(k)[n]))]
      BY <1>3, <2>1, <3>1
    <3>3. w = <<>>
      BY <3>2
    <3>4. QED
      BY <2>0, <2>1, <3>1, <3>3
  <2>2. CASE DOMAIN Wanted(k) = {1} /\ p \in Idx /\ Len(init[p]) # 0
             /\ Wanted(k)[1] = init[p][1]
    <3>1. PICK m : m = Matching(k, init[p][1])
      OBVIOUS
    <3>2. torn <=> m = <<>>
      BY <2>2, <3>1
    <3>3. /\ m = <<>> <=> \A y \in ToSet(init[k]) : ~Names(y, init[p][1].id)
          /\ m # <<>> => Head(m) \in ToSet(init[k]) /\ Names(Head(m), init[p][1].id)
      BY <3>1, MatchingFacts
    <3>4. CASE torn
      <4>1. w = <<>>
        BY <1>3, <3>4
      <4>2. QED
        BY <2>0, <2>2, <3>2, <3>3, <3>4, <4>1
    <3>5. CASE ~torn
      <4>1. w = [n \in {1} |-> Head(m)]
        BY <1>3, <2>2, <3>1, <3>5
      <4>2. Head(m) \in Parameters /\ Names(Head(m), init[p][1].id)
        BY <3>2, <3>3, <3>5, ParamLists
      <4>3. w = <<Head(m)>>
        BY <4>1
      <4>4. w \in Seq(Parameters) /\ Len(w) = 1 /\ DOMAIN w = {1} /\ w[1] = Head(m)
        BY <4>2, <4>3
      <4>5. QED
        BY <2>0, <2>2, <3>2, <3>3, <3>5, <4>2, <4>4
    <3>6. QED
      BY <3>4, <3>5
  <2>3. QED
    BY <2>1, <2>2, WantedFacts, Zenon
<1> HIDE DEF torn
<1>6. torn \in BOOLEAN
  BY DEF torn
<1>7. s \in SourceFile
  <2>1. Static(k) \in BOOLEAN /\ Len(init[k]) \in Nat
    BY ParamLists DEF Static
  <2>2. (IF p = -1 THEN Null ELSE p) \in Idx \cup {Null}
    BY DEF MapOK
  <2>3. QED
    BY <1>4, <1>5, <1>6, <2>1, <2>2, Zenon DEF SourceFile, Parameters
<1>8. s # Null
  BY <1>7, NullAssumption
<1>9. s.passes = w /\ s.torn = torn
  BY <1>4
<1>10. QED
  BY <1>2, <1>5, <1>7, <1>8, <1>9, Zenon

-----------------------------------------------------------------------------
(* What is said of the map alone stays as it is. *)
LEMMA MapUnchanged ==
  ASSUME UNCHANGED map
  PROVE  /\ MapOK' <=> MapOK
         /\ GeneratedSeq' = GeneratedSeq /\ InterfaceSeq' = InterfaceSeq
         /\ Structs' = Structs /\ Declarations' = Declarations
         /\ Creations' = Creations /\ Lineage' = Lineage
         /\ \A k \in Idx : /\ Interface(k)' <=> Interface(k)
                           /\ Generated(k)' <=> Generated(k)
                           /\ Source(k)' = Source(k)
         /\ ObjectParents' <=> ObjectParents
         /\ ChildlessGlobal' <=> ChildlessGlobal
         /\ OneGlobal' <=> OneGlobal
<1>1. MapOK' <=> MapOK
  BY DEF MapOK, map
<1>2. GeneratedSeq' = GeneratedSeq
  BY DEF GeneratedSeq, Generated, Interface, map
<1>3. InterfaceSeq' = InterfaceSeq
  BY <1>2 DEF InterfaceSeq, Interface, map
<1>4. Structs' = Structs /\ Declarations' = Declarations
  BY <1>2, <1>3 DEF Structs, Declarations, map
<1>5. Creations' = Creations
  BY <1>3 DEF Creations, map
<1>6. Lineage' = Lineage
  BY DEF Lineage, map
<1>7. \A k \in Idx : /\ Interface(k)' <=> Interface(k)
                     /\ Generated(k)' <=> Generated(k)
  BY DEF Generated, Interface, map
<1>8. \A k \in Idx : Source(k)' = Source(k)
  BY DEF Source, Static, Matching, Wanted, map
<1>9. /\ ObjectParents' <=> ObjectParents
      /\ ChildlessGlobal' <=> ChildlessGlobal
      /\ OneGlobal' <=> OneGlobal
  BY DEF ObjectParents, ChildlessGlobal, OneGlobal, Generated, Interface, map
<1>10. QED
  BY <1>1, <1>2, <1>3, <1>4, <1>5, <1>6, <1>7, <1>8, <1>9

(* The output only reads the map. *)
LEMMA MapNeverChanges ==
  ASSUME Next
  PROVE  UNCHANGED map
BY DEF Next, OutputInterface, ConstantCrashes, OutputDictionary, SkipNoObject, ClassesEnd,
       OutputPrivateHeader, OutputPrototypeHeader, OutputBindingHeader, OutputBindingSrc,
       OutputMakefile, OpenFails

(* A file that is written is not Null, whatever the map holds. *)
LEMMA FilesDistinct ==
  ASSUME MapOK
  PROVE  /\ Structs # Null /\ Declarations # Null /\ Creations # Null /\ GeneratedSeq # Null
         /\ DOMAIN Structs = 1 .. Len(GeneratedSeq)
         /\ DOMAIN Declarations = 1 .. Len(InterfaceSeq)
<1>1. /\ GeneratedSeq \in Seq(Idx) /\ InterfaceSeq \in Seq(Idx) /\ Creations \in Seq(Idx)
  BY GeneratedList, InterfaceList, CreationFacts, Zenon DEF ListOf
<1>2. /\ DOMAIN GeneratedSeq = 1 .. Len(GeneratedSeq) /\ Len(GeneratedSeq) \in Nat
      /\ DOMAIN InterfaceSeq = 1 .. Len(InterfaceSeq) /\ Len(InterfaceSeq) \in Nat
      /\ \A n \in DOMAIN GeneratedSeq : GeneratedSeq[n] \in Idx
      /\ \A n \in DOMAIN InterfaceSeq : InterfaceSeq[n] \in Idx
  BY <1>1, LenProperties, ElementOfSeq
<1>3. Structs \in Seq(Struct)
  <2>1. \A n \in 1 .. Len(GeneratedSeq) : Structs[n] \in Struct
    BY <1>2 DEF Structs, Struct, MapOK
  <2>2. Structs = [n \in 1 .. Len(GeneratedSeq) |-> Structs[n]]
    BY <1>2 DEF Structs
  <2>3. PICK s : s = Structs
    OBVIOUS
  <2>4. s \in [1 .. Len(GeneratedSeq) -> Struct]
    BY <2>1, <2>2, <2>3
  <2>5. QED
    BY <1>2, <2>3, <2>4, SeqDef
<1>4. Declarations \in Seq(Declaration)
  <2>1. \A n \in 1 .. Len(InterfaceSeq) : Declarations[n] \in Declaration
    <3>1. ASSUME NEW n \in 1 .. Len(InterfaceSeq) PROVE Declarations[n] \in Declaration
      <4>1. PICK k \in Idx : k = InterfaceSeq[n]
        BY <1>2
      <4>2. Len(init[k]) \in Nat
        BY ParamLists
      <4>3. Declarations[n] = [class |-> k, exported |-> refcount[k] >= 1,
                               init_argc |-> Len(init[k])]
        BY <1>2, <4>1 DEF Declarations
      <4>4. QED
        BY <4>2, <4>3 DEF Declaration
    <3>2. QED
      BY <3>1
  <2>2. Declarations = [n \in 1 .. Len(InterfaceSeq) |-> Declarations[n]]
    BY <1>2 DEF Declarations
  <2>3. PICK s : s = Declarations
    OBVIOUS
  <2>4. s \in [1 .. Len(InterfaceSeq) -> Declaration]
    BY <2>1, <2>2, <2>3
  <2>5. QED
    BY <1>2, <2>3, <2>4, SeqDef
<1>5. QED
  BY <1>1, <1>2, <1>3, <1>4, NullAssumption DEF Structs, Declarations

(* An output that is lost is not found again. *)
LEMMA LostStep ==
  ASSUME lost \in BOOLEAN, Next
  PROVE  lost' \in BOOLEAN
BY DEF Next, Close, OutputInterface, ConstantCrashes, OutputDictionary, SkipNoObject,
       ClassesEnd, OutputPrivateHeader, OutputPrototypeHeader, OutputBindingHeader,
       OutputBindingSrc, OutputMakefile, OpenFails

(* Each class file is written in its turn. *)
LEMMA SourcesStep ==
  ASSUME MapOK, SourcesOK, Next
  PROVE  SourcesOK'
<1>1. UNCHANGED map
  BY MapNeverChanges
<1>2. \A k \in Idx : /\ Interface(k)' <=> Interface(k)
                     /\ Generated(k)' <=> Generated(k)
                     /\ Source(k)' = Source(k)
  BY <1>1, MapUnchanged
<1>3. N \in Nat /\ Idx = 0 .. N-1 /\ idx \in 0 .. N /\ lost' \in BOOLEAN
  BY NAssumption, LostStep DEF Idx, SourcesOK
<1>4. CASE OutputInterface
  <2>1. idx \in Idx /\ idx < N /\ pc = "classes" /\ Interface(idx) /\ Generated(idx)
    BY <1>3, <1>4 DEF OutputInterface
  <2>2. PICK s : s = Source(idx)
    OBVIOUS
  <2>3. s \in SourceFile /\ s # Null
    BY <2>1, <2>2, SourceFacts
  <2>4. source' = [source EXCEPT ![idx] = s]
    BY <1>4, <2>2 DEF OutputInterface
  <2>5. \/ s.torn /\ pc' = "failed" /\ idx' = idx
        \/ ~s.torn /\ pc' = pc /\ idx' = idx + 1
    BY <1>4, <2>2 DEF OutputInterface
  <2>6. \A k \in Idx : source[k] # Null => k < idx /\ ~source[k].torn
    BY <2>1 DEF SourcesOK
  <2>7. ASSUME NEW k \in Idx, source'[k] # Null
        PROVE  /\ Generated(k)'
               /\ k < idx' \/ (k = idx' /\ source'[k].torn)
               /\ source'[k].torn => pc' = "failed"
               /\ Interface(k)' => source'[k] = Source(k)'
               /\ ~Interface(k)' => source'[k].call = Null
    <3>1. CASE k = idx
      <4>1. source'[k] = s
        BY <2>1, <2>4, <3>1 DEF SourcesOK
      <4>2. QED
        BY <1>2, <1>3, <2>1, <2>2, <2>5, <3>1, <4>1
    <3>2. CASE k # idx
      <4>1. source'[k] = source[k]
        BY <2>4, <3>2 DEF SourcesOK
      <4>2. k < idx /\ ~source[k].torn /\ k < idx'
        BY <1>3, <2>5, <2>6, <2>7, <4>1
      <4>3. QED
        BY <1>2, <2>7, <4>1, <4>2 DEF SourcesOK
    <3>3. QED
      BY <3>1, <3>2
  <2>8. ASSUME NEW k \in 0 .. idx'-1, Generated(k)' PROVE source'[k] # Null
    <3>1. k \in Idx /\ (k = idx \/ k \in 0 .. idx-1)
      BY <1>3, <2>1, <2>5
    <3>2. k = idx => source'[k] = s
      BY <2>1, <2>4 DEF SourcesOK
    <3>3. k # idx => source'[k] = source[k]
      BY <2>4, <3>1 DEF SourcesOK
    <3>4. QED
      BY <1>2, <2>3, <2>8, <3>1, <3>2, <3>3 DEF SourcesOK
  <2>9. source' \in [Idx -> SourceFile \cup {Null}]
    BY <2>3, <2>4 DEF SourcesOK
  <2>10. idx' \in 0 .. N /\ pc' \in {"classes", "failed"}
    BY <1>3, <2>1, <2>5
  <2>11. QED
    BY <1>3, <2>7, <2>8, <2>9, <2>10 DEF SourcesOK
<1>5. CASE OutputDictionary
  <2>1. idx \in Idx /\ idx < N /\ pc = "classes" /\ ~Interface(idx) /\ Generated(idx)
    BY <1>3, <1>5 DEF OutputDictionary, Generated
  <2>2. PICK torn \in BOOLEAN :
          /\ source' = [source EXCEPT ![idx] = [torn |-> torn, call |-> Null]]
          /\ IF torn THEN pc' = "failed" /\ UNCHANGED idx
                     ELSE idx' = idx + 1 /\ UNCHANGED pc
    BY <1>5 DEF OutputDictionary
  <2>3. PICK s : s = [torn |-> torn, call |-> Null]
    OBVIOUS
  <2>4. s \in SourceFile /\ s # Null /\ s.torn = torn /\ s.call = Null
    <3>1. s \in SourceFile
      BY <2>3 DEF SourceFile
    <3>2. QED
      BY <2>3, <3>1, NullAssumption
  <2>5. source' = [source EXCEPT ![idx] = s]
    BY <2>2, <2>3
  <2>6. \A k \in Idx : source[k] # Null => k < idx /\ ~source[k].torn
    BY <2>1 DEF SourcesOK
  <2>7. ASSUME NEW k \in Idx, source'[k] # Null
        PROVE  /\ Generated(k)'
               /\ k < idx' \/ (k = idx' /\ source'[k].torn)
               /\ source'[k].torn => pc' = "failed"
               /\ Interface(k)' => source'[k] = Source(k)'
               /\ ~Interface(k)' => source'[k].call = Null
    <3>1. CASE k = idx
      <4>1. source'[k] = s
        BY <2>1, <2>5, <3>1 DEF SourcesOK
      <4>2. QED
        BY <1>2, <1>3, <2>1, <2>2, <2>4, <3>1, <4>1
    <3>2. CASE k # idx
      <4>1. source'[k] = source[k]
        BY <2>5, <3>2 DEF SourcesOK
      <4>2. k < idx /\ ~source[k].torn /\ k < idx'
        BY <1>3, <2>2, <2>6, <2>7, <4>1
      <4>3. QED
        BY <1>2, <2>7, <4>1, <4>2 DEF SourcesOK
    <3>3. QED
      BY <3>1, <3>2
  <2>8. ASSUME NEW k \in 0 .. idx'-1, Generated(k)' PROVE source'[k] # Null
    <3>1. k \in Idx /\ (k = idx \/ k \in 0 .. idx-1)
      BY <1>3, <2>1, <2>2
    <3>2. k = idx => source'[k] = s
      BY <2>1, <2>5 DEF SourcesOK
    <3>3. k # idx => source'[k] = source[k]
      BY <2>5, <3>1 DEF SourcesOK
    <3>4. QED
      BY <1>2, <2>4, <2>8, <3>1, <3>2, <3>3 DEF SourcesOK
  <2>9. source' \in [Idx -> SourceFile \cup {Null}]
    BY <2>4, <2>5 DEF SourcesOK
  <2>10. idx' \in 0 .. N /\ pc' \in {"classes", "failed"}
    BY <1>3, <2>1, <2>2
  <2>11. QED
    BY <1>3, <2>7, <2>8, <2>9, <2>10 DEF SourcesOK
<1>6. CASE SkipNoObject
  <2>1. /\ idx \in Idx /\ idx < N /\ ~Generated(idx) /\ pc = "classes"
        /\ idx' = idx + 1 /\ pc' = pc /\ source' = source
    BY <1>3, <1>6 DEF SkipNoObject, files
  <2>2. ASSUME NEW k \in 0 .. idx'-1, Generated(k)' PROVE source'[k] # Null
    <3>1. k \in Idx /\ k \in 0 .. idx-1
      BY <1>2, <1>3, <2>1, <2>2
    <3>2. QED
      BY <1>2, <2>1, <2>2, <3>1 DEF SourcesOK
  <2>3. ASSUME NEW k \in Idx, source'[k] # Null
        PROVE  /\ Generated(k)'
               /\ k < idx' \/ (k = idx' /\ source'[k].torn)
               /\ source'[k].torn => pc' = "failed"
               /\ Interface(k)' => source'[k] = Source(k)'
               /\ ~Interface(k)' => source'[k].call = Null
    <3>1. k < idx /\ k < idx'
      BY <1>3, <2>1, <2>3 DEF SourcesOK
    <3>2. QED
      BY <1>2, <2>1, <2>3, <3>1 DEF SourcesOK
  <2>4. idx' \in 0 .. N
    BY <1>3, <2>1
  <2>5. QED
    BY <1>3, <2>1, <2>2, <2>3, <2>4 DEF SourcesOK
<1>7. CASE ~ (OutputInterface \/ OutputDictionary \/ SkipNoObject)
  <2>1. /\ source' = source /\ idx' = idx
        /\ pc' \in {"private", "prototype", "binding_h", "binding", "makefile", "done"}
             => idx = N
        /\ pc' \in {"private", "prototype", "binding_h", "binding", "makefile", "done",
                    "failed", "crashed"}
        /\ pc # "failed"
    BY <1>7 DEF Next, ConstantCrashes, ClassesEnd, OutputPrivateHeader,
       OutputPrototypeHeader, OutputBindingHeader, OutputBindingSrc, OutputMakefile,
       OpenFails, files, SourcesOK
  <2>2. \A k \in Idx : source[k] # Null => k < idx /\ ~source[k].torn
    BY <2>1 DEF SourcesOK
  <2>3. ASSUME NEW k \in Idx, source'[k] # Null
        PROVE  /\ Generated(k)'
               /\ k < idx' \/ (k = idx' /\ source'[k].torn)
               /\ source'[k].torn => pc' = "failed"
               /\ Interface(k)' => source'[k] = Source(k)'
               /\ ~Interface(k)' => source'[k].call = Null
    BY <1>2, <2>1, <2>2, <2>3 DEF SourcesOK
  <2>4. ASSUME NEW k \in 0 .. idx'-1, Generated(k)' PROVE source'[k] # Null
    <3>1. k \in Idx
      BY <1>3, <2>1
    <3>2. QED
      BY <1>2, <2>1, <2>4, <3>1 DEF SourcesOK
  <2>5. QED
    BY <1>3, <2>1, <2>3, <2>4 DEF SourcesOK
<1>8. QED
  BY <1>4, <1>5, <1>6, <1>7

(* The files after the class files come one after the other. *)
LEMMA HeadersStep ==
  ASSUME MapOK, HeadersOK, Next
  PROVE  HeadersOK'
<1>1. UNCHANGED map
  BY MapNeverChanges
<1>2. /\ GeneratedSeq' = GeneratedSeq /\ Structs' = Structs
      /\ Declarations' = Declarations /\ Creations' = Creations
  BY <1>1, MapUnchanged
<1>3. /\ Structs # Null /\ Declarations # Null /\ Creations # Null /\ GeneratedSeq # Null
      /\ "written" # Null
  BY FilesDistinct, NullAssumption
<1>4. CASE OutputPrivateHeader
  BY <1>2, <1>3, <1>4 DEF OutputPrivateHeader, HeadersOK, Structs
<1>5. CASE OutputPrototypeHeader
  <2>1. prototype' = Declarations
    BY <1>5 DEF OutputPrototypeHeader, Declarations
  <2>2. QED
    BY <1>2, <1>3, <1>5, <2>1 DEF OutputPrototypeHeader, HeadersOK
<1>6. CASE OutputBindingHeader
  BY <1>2, <1>3, <1>6 DEF OutputBindingHeader, HeadersOK
<1>7. CASE OutputBindingSrc
  BY <1>2, <1>3, <1>7 DEF OutputBindingSrc, HeadersOK
<1>8. CASE OutputMakefile
  BY <1>2, <1>3, <1>8 DEF OutputMakefile, HeadersOK
<1>9. CASE OutputInterface \/ OutputDictionary \/ SkipNoObject \/ ClassesEnd
           \/ ConstantCrashes \/ OpenFails
  <2>1. /\ UNCHANGED <<private, prototype, binding_h, binding, makefile>>
        /\ pc' \in {"classes", "private", "failed", "crashed"}
        /\ pc \in {"classes", "private", "prototype", "binding_h", "binding", "makefile"}
    BY <1>9 DEF OutputInterface, OutputDictionary, SkipNoObject, ClassesEnd,
       ConstantCrashes, OpenFails, files
  <2>2. QED
    BY <1>2, <2>1 DEF HeadersOK
<1>10. QED
  BY <1>4, <1>5, <1>6, <1>7, <1>8, <1>9 DEF Next

(* A step that leaves the output alone leaves its part of the invariant. *)
LEMMA OutputUnchanged ==
  ASSUME MapOK, UNCHANGED vars
  PROVE  /\ UNCHANGED map /\ MapOK'
         /\ SourcesOK => SourcesOK'
         /\ HeadersOK => HeadersOK'
         /\ Blank => Blank'
         /\ Callers' = Callers
<1>1. UNCHANGED map /\ UNCHANGED files /\ UNCHANGED <<lost, idx, pc>>
  BY DEF vars
<1>2. /\ MapOK' <=> MapOK
      /\ GeneratedSeq' = GeneratedSeq /\ Structs' = Structs
      /\ Declarations' = Declarations /\ Creations' = Creations
      /\ \A k \in Idx : /\ Interface(k)' <=> Interface(k)
                        /\ Generated(k)' <=> Generated(k)
                        /\ Source(k)' = Source(k)
  BY <1>1, MapUnchanged
<1>3. SourcesOK => SourcesOK'
  <2>1. idx' = idx /\ pc' = pc /\ source' = source /\ lost' = lost
    BY <1>1 DEF files
  <2>2. \A k \in 0 .. idx-1 : SourcesOK => k \in Idx
    BY NAssumption DEF SourcesOK, Idx
  <2>3. QED
    BY <1>2, <2>1, <2>2 DEF SourcesOK
<1>4. HeadersOK => HeadersOK'
  BY <1>1, <1>2 DEF HeadersOK, files
<1>5. Blank => Blank'
  BY <1>1 DEF Blank
<1>6. Callers' = Callers
  BY <1>1 DEF Callers, Interface, files, map
<1>7. QED
  BY <1>1, <1>2, <1>3, <1>4, <1>5, <1>6

(* main: a file is written at the stage of the output alone. *)
LEMMA DriverStep ==
  ASSUME MapOK, SourcesOK, HeadersOK, DriverOK, DriverNext
  PROVE  /\ MapOK' /\ SourcesOK' /\ HeadersOK' /\ DriverOK'
         /\ stage # "exited"
<1>1. ASSUME UNCHANGED vars
      PROVE  /\ MapOK' /\ SourcesOK' /\ HeadersOK' /\ (Blank => Blank')
             /\ pc' = pc
  BY <1>1, OutputUnchanged DEF vars
<1>3. CASE ProcessCmdline
  BY <1>1, <1>3 DEF ProcessCmdline, Step, Exit, DriverOK
<1>4. CASE ParseBinding
  BY <1>1, <1>4 DEF ParseBinding, Step, Exit, DriverOK
<1>5. CASE GetType
  BY <1>1, <1>5 DEF GetType, DriverOK
<1>6. CASE LoadIdl
  BY <1>1, <1>6 DEF LoadIdl, Step, Exit, DriverOK
<1>7. CASE IrNew
  BY <1>1, <1>7 DEF IrNew, Step, Exit, DriverOK
<1>8. CASE UnableToGenerate
  BY <1>1, <1>8 DEF UnableToGenerate, Exit, DriverOK
<1>9. CASE Output
  <2>1. MapOK' /\ SourcesOK' /\ HeadersOK'
    BY <1>9, MapNeverChanges, MapUnchanged, SourcesStep, HeadersStep DEF Output
  <2>2. DriverOK'
    BY <1>9 DEF Output, driver, DriverOK
  <2>3. QED
    BY <1>9, <2>1, <2>2 DEF Output
<1>10. CASE OutputEnd
  <2>1. UNCHANGED vars
    BY <1>10 DEF OutputEnd, Exit, Step
  <2>2. DriverOK'
    BY <1>1, <1>10, <2>1 DEF OutputEnd, Exit, Step, DriverOK
  <2>3. QED
    BY <1>1, <1>10, <2>1, <2>2 DEF OutputEnd
<1>11. QED
  BY <1>3, <1>4, <1>5, <1>6, <1>7, <1>8, <1>9, <1>10 DEF DriverNext

-----------------------------------------------------------------------------
(* What a class file is once it is there. *)
LEMMA CallerFacts ==
  ASSUME MapOK, SourcesOK, NEW k \in Callers
  PROVE  /\ k \in Idx /\ Interface(k) /\ Generated(k)
         /\ source[k] = Source(k)
         /\ inherit_idx[k] \in Idx /\ source[k].call = inherit_idx[k]
         /\ Interface(inherit_idx[k])
<1>1. k \in Idx /\ source[k] # Null /\ Interface(k) /\ source[k].call # Null
  BY DEF Callers
<1>2. source[k] = Source(k) /\ Generated(k)
  BY <1>1 DEF SourcesOK
<1>3. Source(k).call = IF inherit_idx[k] = -1 THEN Null ELSE inherit_idx[k]
  BY DEF Source
<1>4. inherit_idx[k] # -1 /\ inherit_idx[k] \in Idx
  BY <1>1, <1>2, <1>3 DEF MapOK
<1>5. QED
  BY <1>1, <1>2, <1>3, <1>4 DEF MapOK, Interface

(* When the Makefile is there, each entry that is not skipped has its class
   file, and a whole one. *)
LEMMA MakefileFacts ==
  ASSUME MapOK, SourcesOK, HeadersOK, makefile # Null
  PROVE  /\ pc = "done" /\ makefile = GeneratedSeq
         /\ private = Structs /\ prototype = Declarations
         /\ binding_h # Null /\ binding = Creations
         /\ \A k \in Idx : Generated(k) <=> source[k] # Null
         /\ \A k \in Idx : source[k] # Null => ~source[k].torn
<1>1. pc = "done" /\ idx = N
  BY DEF HeadersOK, SourcesOK
<1>2. \A k \in Idx : k \in 0 .. idx-1
  BY <1>1, NAssumption DEF Idx
<1>3. QED
  BY <1>1, <1>2 DEF HeadersOK, SourcesOK

(* private.h keeps the order of the map. *)
LEMMA StructsFollow ==
  ASSUME MapOK, HeadersOK
  PROVE  StructsDefinedFirst
<1> SUFFICES ASSUME private # Null, ObjectParents, NEW n \in DOMAIN private,
                    private[n].parent # -1
             PROVE  \E m \in 1 .. n-1 : private[m].class = private[n].parent
  BY DEF StructsDefinedFirst
<1>1. private = Structs
  BY DEF HeadersOK
<1>2. PICK g : g = GeneratedSeq
  OBVIOUS
<1>3. /\ g \in Seq(Idx) /\ Len(g) \in Nat
      /\ \A i, j \in 1 .. Len(g) : i < j => g[i] < g[j]
      /\ \A k \in Idx : Generated(k) => \E i \in 1 .. Len(g) : g[i] = k
      /\ \A i \in 1 .. Len(g) : g[i] \in Idx /\ g[i] \in Int
  <2>1. ListOf(g, {k \in Idx : Generated(k)})
    BY <1>2, GeneratedList
  <2>2. g \in Seq(Idx) /\ Len(g) \in Nat
    BY <2>1, LenProperties DEF ListOf
  <2>3. \A i \in 1 .. Len(g) : g[i] \in Idx /\ g[i] \in Int
    BY <2>2, ElementOfSeq, IdxInt
  <2>4. QED
    BY <2>1, <2>2, <2>3 DEF ListOf
<1>4. n \in 1 .. Len(g) /\ \A i \in 1 .. Len(g) :
         private[i].class = g[i] /\ private[i].parent = inherit_idx[g[i]]
  BY <1>1, <1>2, FilesDistinct DEF Structs
<1>5. PICK p \in Idx : p = inherit_idx[g[n]] /\ p < g[n] /\ Generated(p)
  BY <1>3, <1>4 DEF MapOK, ObjectParents
<1>6. PICK m \in 1 .. Len(g) : g[m] = p
  BY <1>3, <1>5
<1>7. m < n
  <2>1. n < m => g[n] < g[m]
    BY <1>3, <1>4
  <2>2. g[n] \in Int /\ g[m] \in Int /\ g[m] < g[n]
    BY <1>3, <1>4, <1>5, <1>6
  <2>3. QED
    BY <1>3, <1>4, <2>1, <2>2
<1>8. m \in 1 .. n-1
  BY <1>3, <1>4, <1>7
<1>9. QED
  BY <1>4, <1>5, <1>6, <1>8

(* What a class calls of its parent is in a source that is listed, exported
   there and declared. *)
LEMMA CallsFollow ==
  ASSUME MapOK, SourcesOK, HeadersOK
  PROVE  CallsResolve
<1> SUFFICES ASSUME makefile # Null, ObjectParents, NEW k \in Callers
             PROVE  LET p == source[k].call
                    IN  /\ source[p] # Null /\ ~source[p].static
                        /\ p \in ToSet(makefile)
                        /\ \E d \in ToSet(prototype) :
                             d.class = p /\ d.exported /\ d.init_argc = source[p].init_argc
  BY DEF CallsResolve
<1>1. PICK p \in Idx : p = inherit_idx[k]
  BY CallerFacts
<1>2. k \in Idx /\ source[k].call = p /\ Interface(p) /\ Generated(p)
  BY <1>1, CallerFacts DEF ObjectParents, Idx
<1>3. source[p] # Null /\ source[p] = Source(p)
  BY <1>2, MakefileFacts DEF SourcesOK
<1>4. refcount[p] \in Nat /\ refcount[p] # 0
  <2>1. k \in {c \in Idx : inherit_idx[c] = p}
    BY <1>1, <1>2
  <2>2. IsFiniteSet({c \in Idx : inherit_idx[c] = p})
    <3>1. IsFiniteSet(Idx)
      BY FS_Interval, NAssumption DEF Idx
    <3>2. QED
      BY <3>1, FS_Subset
  <2>3. refcount[p] = Cardinality({c \in Idx : inherit_idx[c] = p})
    BY DEF MapOK
  <2>4. QED
    BY <2>1, <2>2, <2>3, FS_CardinalityType, FS_EmptySet
<1>5. ~source[p].static /\ source[p].init_argc = Len(init[p])
  <2>1. Source(p).static = (refcount[p] = 0) /\ Source(p).init_argc = Len(init[p])
    BY Zenon DEF Source, Static
  <2>2. QED
    BY <1>3, <1>4, <2>1
<1>6. p \in ToSet(makefile)
  <2>1. PICK i \in 1 .. Len(GeneratedSeq) : GeneratedSeq[i] = p
    BY <1>2, GeneratedList DEF ListOf
  <2>2. GeneratedSeq \in Seq(Idx) /\ DOMAIN GeneratedSeq = 1 .. Len(GeneratedSeq)
    BY GeneratedList, LenProperties DEF ListOf
  <2>3. QED
    BY <2>1, <2>2, MakefileFacts DEF ToSet
<1>7. \E d \in ToSet(prototype) :
         d.class = p /\ d.exported /\ d.init_argc = Len(init[p])
  <2>1. PICK i \in 1 .. Len(InterfaceSeq) : InterfaceSeq[i] = p
    BY <1>2, InterfaceList DEF ListOf
  <2>2. i \in DOMAIN Declarations /\ i \in DOMAIN InterfaceSeq
    BY <2>1, FilesDistinct DEF Declarations
  <2>3. Declarations[i] = [class |-> p, exported |-> refcount[p] >= 1,
                           init_argc |-> Len(init[p])]
    BY <2>1, <2>2 DEF Declarations
  <2>4. prototype = Declarations
    BY MakefileFacts
  <2>5. Declarations[i] \in ToSet(prototype)
    BY <2>2, <2>4 DEF ToSet
  <2>6. PICK d : d = Declarations[i]
    OBVIOUS
  <2>7. d.class = p /\ d.exported = (refcount[p] >= 1) /\ d.init_argc = Len(init[p])
    BY <2>3, <2>6
  <2>8. refcount[p] >= 1
    BY <1>4
  <2>9. QED
    BY <2>5, <2>6, <2>7, <2>8, Zenon
<1>8. QED
  BY <1>2, <1>3, <1>5, <1>6, <1>7

(* A single parameter of the parent is passed or missed. *)
LEMMA PassedFollow ==
  ASSUME MapOK, SourcesOK
  PROVE  ParentInitialisedByOne
<1>1. ASSUME NEW k \in Callers, Len(init[source[k].call]) <= 1
      PROVE  /\ source[k].torn <=> \E n \in DOMAIN init[source[k].call] :
                  \A y \in ToSet(init[k]) : init[source[k].call][n].id \notin {y.id, y.alias}
             /\ ~source[k].torn => Len(source[k].passes) = Len(init[source[k].call])
  <2>1. PICK p \in Idx : p = inherit_idx[k]
    BY CallerFacts
  <2>2. k \in Idx /\ source[k] = Source(k) /\ source[k].call = p
    BY <2>1, CallerFacts
  <2>3. Len(init[p]) \in {0, 1} /\ DOMAIN init[p] = 1 .. Len(init[p])
    <3>1. Len(init[p]) \in Nat /\ DOMAIN init[p] = 1 .. Len(init[p])
      BY ParamLists
    <3>2. Len(init[p]) <= 1
      BY <1>1, <2>2
    <3>3. \A l \in Nat : l <= 1 => l \in {0, 1}
      OBVIOUS
    <3>4. QED
      BY <3>1, <3>2, <3>3, Zenon
  <2>4. /\ Len(init[p]) # 0 =>
             /\ source[k].torn <=> \A y \in ToSet(init[k]) : ~Names(y, init[p][1].id)
             /\ ~source[k].torn => Len(source[k].passes) = 1
        /\ Len(init[p]) = 0 => ~source[k].torn /\ Len(source[k].passes) = 0
    BY <2>1, <2>2, SourceFacts
  <2>5. CASE Len(init[p]) = 0
    BY <2>2, <2>3, <2>4, <2>5
  <2>6. CASE Len(init[p]) = 1
    <3>1. \A n \in DOMAIN init[p] : n = 1
      BY <2>3, <2>6
    <3>2. 1 \in DOMAIN init[p]
      BY <2>3, <2>6
    <3>3. QED
      BY <2>2, <2>4, <2>6, <3>1, <3>2 DEF Names
  <2>7. QED
    BY <2>3, <2>5, <2>6
<1>2. QED
  BY <1>1 DEF ParentInitialisedByOne

(* The Makefile lists what was written, and comes last. *)
LEMMA MakefileFollows ==
  ASSUME MapOK, SourcesOK, HeadersOK
  PROVE  MakefileLast
<1> SUFFICES ASSUME makefile # Null
             PROVE  /\ ToSet(makefile) = {k \in Idx : source[k] # Null}
                    /\ \A k \in ToSet(makefile) : ~source[k].torn
                    /\ Null \notin {private, prototype, binding_h, binding}
  BY DEF MakefileLast
<1>1. ToSet(GeneratedSeq) = {k \in Idx : Generated(k)}
  <2>1. DOMAIN GeneratedSeq = 1 .. Len(GeneratedSeq)
    BY GeneratedList, LenProperties DEF ListOf
  <2>2. QED
    BY <2>1, GeneratedList DEF ListOf, ToSet
<1>2. QED
  BY <1>1, MakefileFacts, FilesDistinct

(* The exit code tells which of the files are there. *)
LEMMA ExitFollows ==
  ASSUME MapOK, SourcesOK, HeadersOK, DriverOK
  PROVE  ExitTellsOutcome
<1> SUFFICES ASSUME stage \in {"exited", "killed"}
             PROVE  /\ exit = 0 <=> makefile # Null
                    /\ exit = 0 => /\ Null \notin {private, prototype, binding_h, binding}
                                   /\ \A k \in Idx : Generated(k) <=> source[k] # Null
                                   /\ \A k \in Idx : Generated(k) => ~source[k].torn
                    /\ exit \in 1 .. 7 => Blank
  BY DEF ExitTellsOutcome, Blank
<1>1. Null \notin Int
  BY NullAssumption
<1>2. pc = "done" <=> makefile # Null
  BY DEF HeadersOK
<1>3. Blank => makefile = Null
  BY DEF Blank, files
<1>4. QED
  BY <1>1, <1>2, <1>3, MakefileFacts, FilesDistinct DEF DriverOK

-----------------------------------------------------------------------------
(* A program that has been built is that of a run of the tool that is over,
   so that nothing below the object changes any more. *)
LEMMA BuiltFacts ==
  ASSUME MapOK, SourcesOK, HeadersOK, DriverOK, Built
  PROVE  /\ stage = "exited" /\ makefile # Null
         /\ binding = Creations /\ binding \in Seq(Idx) /\ Len(binding) \in Nat
<1>1. exit = 0 /\ Null # 0
  BY NullAssumption DEF Built
<1>2. makefile # Null /\ stage = "exited"
  BY <1>1 DEF DriverOK, HeadersOK
<1>3. binding = Creations
  BY <1>2, MakefileFacts
<1>4. QED
  BY <1>2, <1>3, CreationFacts, LenProperties

(* A step that leaves the run of the tool alone leaves the program. *)
LEMMA ProgramUnchanged ==
  ASSUME UNCHANGED <<vars, driver>>
  PROVE  /\ UNCHANGED map /\ UNCHANGED <<source, binding, exit, stage>>
         /\ Built' <=> Built
<1>1. UNCHANGED map /\ UNCHANGED <<source, binding, exit, stage>> /\ lost' = lost
  BY DEF vars, files, driver
<1>2. QED
  BY <1>1 DEF Built, Callers, Interface, map

(* The classes that an object of class o goes through: each calls the next,
   and all of them are in the program. *)
LEMMA Ancestors ==
  ASSUME MapOK, SourcesOK, HeadersOK, DriverOK, PrototypesOK, Built, NEW o \in Registered
  PROVE  LET L == Lineage[o]
         IN  /\ LineageOf(o, L) /\ L \in Seq(Idx) /\ Len(L) \in Nat \ {0} /\ L[1] = o
             /\ source[o] # Null
             /\ \A i \in 1 .. Len(L) :
                  /\ L[i] \in Idx
                  /\ source[L[i]] # Null =>
                       /\ i < Len(L) => /\ source[L[i]].call = L[i+1]
                                        /\ L[i+1] # Null /\ source[L[i+1]] # Null
                       /\ i = Len(L) => source[L[i]].call = Null
<1>1. o \in Idx
  BY DEF Registered
<1>2. PICK l : l = Lineage[o]
  OBVIOUS
<1>3. LineageOf(o, l) /\ l \in Seq(Idx) /\ Len(l) \in Nat \ {0} /\ l[1] = o
  <2>1. LineageOf(o, l)
    BY <1>1, <1>2, LineageFacts
  <2>2. QED
    BY <2>1, LenProperties DEF LineageOf
<1>4. Interface(o) /\ Generated(o) /\ source[o] # Null
  <2>1. PICK i \in 1 .. created : binding[i] = o
    BY DEF PrototypesOK
  <2>2. created \in Nat /\ created <= Len(binding) /\ Len(binding) \in Nat
    BY <2>1, BuiltFacts DEF PrototypesOK
  <2>3. i \in 1 .. Len(Creations) /\ Creations[i] = o
    BY <2>1, <2>2, BuiltFacts
  <2>4. QED
    BY <1>1, <2>3, CreationFacts, BuiltFacts, MakefileFacts
<1>5. ASSUME NEW i \in 1 .. Len(l)
      PROVE  /\ l[i] \in Idx
             /\ source[l[i]] # Null =>
                  /\ i < Len(l) => /\ source[l[i]].call = l[i+1]
                                   /\ l[i+1] # Null /\ source[l[i+1]] # Null
                  /\ i = Len(l) => source[l[i]].call = Null
  <2>1. l[i] \in Idx
    BY <1>3, ElementOfSeq
  <2>2. PICK k \in Idx : k = l[i]
    BY <2>1
  <2>3. Interface(k) /\ inherit_idx[k] = IF i < Len(l) THEN l[i+1] ELSE -1
    BY <1>3, <1>4, <2>2 DEF LineageOf, Interface
  <2>4. ASSUME source[k] # Null
        PROVE  /\ i < Len(l) => /\ source[k].call = l[i+1]
                                /\ l[i+1] # Null /\ source[l[i+1]] # Null
               /\ i = Len(l) => source[k].call = Null
    <3>1. source[k] = Source(k)
      BY <2>3, <2>4 DEF SourcesOK
    <3>2. Source(k).call = IF inherit_idx[k] = -1 THEN Null ELSE inherit_idx[k]
      BY DEF Source
    <3>3. CASE i < Len(l)
      <4>1. l[i+1] \in Idx
        BY <1>3, <3>3, ElementOfSeq
      <4>2. inherit_idx[k] = l[i+1] /\ l[i+1] # -1 /\ l[i+1] # Null
        BY <2>3, <3>3, <4>1, NullAssumption DEF Idx
      <4>3. source[k].call = l[i+1] /\ k \in Callers
        BY <2>3, <2>4, <3>1, <3>2, <4>2 DEF Callers
      <4>4. source[l[i+1]] # Null
        BY <4>3 DEF Built
      <4>5. QED
        BY <3>3, <4>2, <4>3, <4>4
    <3>4. CASE i = Len(l)
      BY <1>3, <2>3, <3>1, <3>2, <3>4
    <3>5. QED
      BY <1>3, <3>3, <3>4
  <2>5. QED
    BY <2>1, <2>2, <2>4
<1>6. QED
  BY <1>2, <1>3, <1>4, <1>5, Zenon

-----------------------------------------------------------------------------
(* The prototypes: the parent's is tried before the child's. *)
LEMMA CreateStep ==
  ASSUME MapOK, SourcesOK, HeadersOK, DriverOK, PrototypesOK, CreatePrototype
  PROVE  PrototypesOK'
<1>1. /\ Built /\ created < Len(binding) /\ UNCHANGED <<vars, driver>>
      /\ created' = created + 1
  BY DEF CreatePrototype
<1>2. /\ UNCHANGED map /\ UNCHANGED <<source, binding, exit, stage>>
      /\ Built'
  BY <1>1, ProgramUnchanged
<1>3. /\ ChildlessGlobal' <=> ChildlessGlobal
      /\ OneGlobal' <=> OneGlobal
  BY <1>2, MapUnchanged
<1>4. binding = Creations /\ binding \in Seq(Idx) /\ Len(binding) \in Nat
  BY <1>1, BuiltFacts
<1>5. created \in Nat /\ created + 1 \in 1 .. Len(binding)
  BY <1>1, <1>4 DEF PrototypesOK
<1>6. PICK k \in Idx : k = binding[created + 1]
  BY <1>4, <1>5, ElementOfSeq
<1>7. chain' = [chain EXCEPT ![k] = Chained(k)]
      /\ injected' = IF primary_global[k] THEN Injected(k) ELSE injected
  BY <1>6 DEF CreatePrototype
<1>8. PICK c : c = Chained(k)
  OBVIOUS
<1>9. c \in Idx \cup {-1} /\ c # Null
  BY <1>8, NullAssumption DEF Chained, Registered, Idx
<1>10. Registered' = Registered \cup {k}
  <2>1. \A j \in Idx : chain'[j] = IF j = k THEN c ELSE chain[j]
    BY <1>7, <1>8 DEF PrototypesOK
  <2>2. QED
    BY <1>9, <2>1 DEF Registered
<1>11. chain' \in [Idx -> Idx \cup {-1, Null}]
  BY <1>7, <1>8, <1>9 DEF PrototypesOK
<1>12. ASSUME NEW r \in Registered' PROVE \E i \in 1 .. created' : binding'[i] = r
  <2>1. CASE r = k
    BY <1>1, <1>2, <1>5, <1>6, <2>1
  <2>2. CASE r \in Registered
    <3>1. PICK i \in 1 .. created : binding[i] = r
      BY <2>2 DEF PrototypesOK
    <3>2. i \in 1 .. created'
      BY <1>1, <1>5
    <3>3. QED
      BY <1>2, <3>1, <3>2
  <2>3. QED
    BY <1>10, <2>1, <2>2
<1>13. ASSUME ChildlessGlobal, OneGlobal, NEW r \in Registered'
       PROVE  /\ chain'[r] = Chained(r)'
              /\ primary_global'[r] => injected' = [i \in Interfaces' |-> i \in Registered']
  <2>1. UNCHANGED <<inherit_idx, primary_global>>
    BY <1>2 DEF map
  <2>2. CASE r = k
    <3>1. inherit_idx[k] # k
      BY IdxInt DEF MapOK
    <3>2. chain'[r] = Chained(r)'
      BY <1>7, <1>10, <2>1, <2>2, <3>1 DEF Chained, PrototypesOK
    <3>3. Interfaces' = Interfaces
      BY <1>2 DEF Interfaces, Interface, Generated, map
    <3>4. Injected(k) = [i \in Interfaces' |-> i \in Registered']
      BY <1>10, <3>3 DEF Injected
    <3>5. QED
      BY <1>7, <2>1, <2>2, <3>2, <3>4
  <2>3. CASE r # k
    <3>1. r \in Registered /\ r \in Idx
      BY <1>10, <2>3 DEF Registered
    <3>2. PICK i \in 1 .. created : binding[i] = r
      BY <3>1 DEF PrototypesOK
    <3>3. i \in 1 .. Len(binding) /\ i < created + 1 /\ i # Len(binding)
      BY <1>5
    <3>4. inherit_idx[r] # k
      <4>1. inherit_idx[binding[i]] = binding[created + 1] => created + 1 < i
        BY <1>4, <1>5, <1>13, <3>3, CreationFacts
      <4>2. QED
        BY <1>5, <1>6, <3>2, <3>3, <4>1
    <3>5. chain'[r] = Chained(r)'
      <4>1. chain'[r] = chain[r] /\ chain[r] = Chained(r)
        BY <1>7, <1>13, <2>3, <3>1 DEF PrototypesOK
      <4>2. QED
        BY <1>10, <2>1, <3>4, <4>1 DEF Chained
    <3>6. ~primary_global[r]
      BY <1>4, <3>2, <3>3, CreationFacts
    <3>7. QED
      BY <2>1, <3>5, <3>6
  <2>4. QED
    BY <2>2, <2>3
<1>14. created' \in Nat /\ created' <= Len(binding')
  BY <1>1, <1>2, <1>5
<1>15. QED
  BY <1>2, <1>3, <1>11, <1>12, <1>13, <1>14 DEF PrototypesOK

(* A prototype that fails changes nothing else, nor does a step of the object. *)
LEMMA PrototypesSame ==
  ASSUME PrototypesOK, UNCHANGED <<vars, driver, chain, injected>>,
         \/ created' = created
         \/ Built /\ created < Len(binding) /\ Len(binding) \in Nat
              /\ created' = created + 1
  PROVE  PrototypesOK' /\ Registered' = Registered
<1>1. /\ UNCHANGED map /\ UNCHANGED <<source, binding, exit, stage>>
      /\ Built' <=> Built
  BY ProgramUnchanged
<1>2. /\ ChildlessGlobal' <=> ChildlessGlobal
      /\ OneGlobal' <=> OneGlobal
  BY <1>1, MapUnchanged
<1>3. Registered' = Registered
  BY DEF Registered
<1>4. \A k \in Registered : Chained(k)' = Chained(k) /\ primary_global'[k] = primary_global[k]
  BY <1>1, <1>3 DEF Chained, map
<1>5. created \in Nat /\ created' \in Nat /\ created <= created'
  BY DEF PrototypesOK
<1>6. created' # 0 => Built' /\ created' <= Len(binding')
  BY <1>1, <1>5 DEF PrototypesOK
<1>7. \A k \in Registered : \E i \in 1 .. created' : binding'[i] = k
  <2>1. \A i \in 1 .. created : i \in 1 .. created'
    BY <1>5
  <2>2. QED
    BY <1>1, <2>1 DEF PrototypesOK
<1>8. Interfaces' = Interfaces
  BY <1>1 DEF Interfaces, Interface, Generated, map
<1>9. QED
  BY <1>2, <1>3, <1>4, <1>5, <1>6, <1>7, <1>8 DEF PrototypesOK

(* The stack of active calls: what is taken off, and what comes back to. *)
LEMMA CallStack ==
  ASSUME NEW c \in Seq(Call), c # <<>>
  PROVE  /\ Len(c) \in Nat \ {0} /\ Last(c) = c[Len(c)] /\ Last(c) \in Call
         /\ Front(c) \in Seq(Call) /\ Len(Front(c)) = Len(c) - 1
         /\ \A i \in 1 .. Len(c) - 1 : Front(c)[i] = c[i]
         /\ LET s == [c EXCEPT ![Len(c)].at = "code"]
            IN  /\ s \in Seq(Call) /\ Len(s) = Len(c)
                /\ \A i \in 1 .. Len(c) :
                     s[i].class = c[i].class /\ s[i].at = IF i = Len(c) THEN "code" ELSE c[i].at
<1>1. Len(c) \in Nat \ {0} /\ \A i \in 1 .. Len(c) : c[i] \in Call
  BY LenProperties, ElementOfSeq, EmptySeq
<1>2. Last(c) = c[Len(c)] /\ Last(c) \in Call
  BY <1>1 DEF Last
<1>3. Front(c) \in Seq(Call) /\ Len(Front(c)) = Len(c) - 1
      /\ \A i \in 1 .. Len(c) - 1 : Front(c)[i] = c[i]
  <2>1. PICK l \in Nat \ {0} : l = Len(c)
    BY <1>1
  <2>2. PICK n \in Nat : n = l - 1
    BY <2>1
  <2>3. \A i \in 1 .. n : c[i] \in Call
    BY <1>1, <2>1, <2>2
  <2>4. /\ SubSeq(c, 1, n) \in Seq(Call)
        /\ Len(SubSeq(c, 1, n)) = IF 1 <= n THEN n - 1 + 1 ELSE 0
        /\ \A i \in 1 .. n - 1 + 1 : SubSeq(c, 1, n)[i] = c[1 + i - 1]
    BY <2>2, <2>3, SubSeqProperties
  <2>5. Len(SubSeq(c, 1, n)) = n /\ \A i \in 1 .. n : SubSeq(c, 1, n)[i] = c[i]
    BY <2>2, <2>4
  <2>6. QED
    BY <2>1, <2>2, <2>4, <2>5 DEF Front
<1>4. PICK r \in Call : r = [c[Len(c)] EXCEPT !.at = "code"]
  <2>1. PICK t \in Call : t = c[Len(c)]
    BY <1>1
  <2>2. [t EXCEPT !.at = "code"] \in Call
    BY DEF Call
  <2>3. QED
    BY <2>1, <2>2
<1>5. PICK s : s = [c EXCEPT ![Len(c)].at = "code"]
  OBVIOUS
<1>6. s = [c EXCEPT ![Len(c)] = r]
  BY <1>4, <1>5
<1>7. s \in Seq(Call) /\ Len(s) = Len(c)
      /\ \A i \in 1 .. Len(c) : s[i] = IF i = Len(c) THEN r ELSE c[i]
  BY <1>1, <1>6, ExceptSeq
<1>8. r.class = c[Len(c)].class /\ r.at = "code"
  BY <1>1, <1>4 DEF Call
<1>9. QED
  BY <1>1, <1>2, <1>3, <1>5, <1>7, <1>8

-----------------------------------------------------------------------------
(* all that lies below the object *)
LowerOK == MapOK /\ SourcesOK /\ HeadersOK /\ DriverOK /\ PrototypesOK

(* What lies below the object, which its own steps leave alone. *)
LEMMA ObjectFrame ==
  ASSUME UNCHANGED <<vars, driver, prototypes>>
  PROVE  /\ UNCHANGED <<source, binding, created>>
         /\ Lineage' = Lineage /\ Registered' = Registered
         /\ Built' <=> Built
<1>1. /\ UNCHANGED map /\ UNCHANGED <<source, binding, exit, stage>>
      /\ Built' <=> Built
  BY ProgramUnchanged
<1>2. Registered' = Registered /\ created' = created
  BY DEF Registered, prototypes
<1>3. QED
  BY <1>1, <1>2, MapUnchanged

(* The object is made: its own initialiser is the first to be called. *)
LEMMA ConstructStep ==
  ASSUME LowerOK, ObjectOK, NEW k \in Idx, Construct(k) \/ ConstructFails(k)
  PROVE  ObjectOK'
<1>1. /\ UNCHANGED <<vars, driver, prototypes>>
      /\ phase = "none" /\ k \in Registered /\ Built /\ created = Len(binding)
      /\ object' = k /\ inits' = inits /\ finis' = finis
  BY DEF Construct, ConstructFails
<1>2. inits = <<>> /\ finis = <<>> /\ calls = <<>> /\ priv = "none"
  BY <1>1 DEF ObjectOK
<1>3. /\ UNCHANGED <<source, binding, created>>
      /\ Lineage' = Lineage /\ Registered' = Registered /\ Built'
  BY <1>1, ObjectFrame
<1>4. PICK l : l = Lineage[k]
  OBVIOUS
<1>5. l \in Seq(Idx) /\ Len(l) \in Nat \ {0} /\ l[1] = k /\ source[k] # Null
  BY <1>1, <1>4, Ancestors DEF LowerOK
<1>6. Lineage'[object'] = l
  BY <1>1, <1>3, <1>4
<1>7. <<>> \in Seq(Idx) /\ Len(<<>>) = 0 /\ 1 .. 0 = {} /\ 0 <= Len(l)
  BY <1>5, EmptySeq
<1>8. CodeOK'
  BY <1>1, <1>2, <1>6, <1>7 DEF CodeOK
<1>9. CASE Construct(k)
  <2>1. /\ phase' = "init" /\ priv' = "live" /\ faults' = faults
        /\ calls' = <<[class |-> k, at |-> "parent"]>>
    BY <1>9 DEF Construct
  <2>2. PICK c \in Call : c = [class |-> k, at |-> "parent"]
    BY DEF Call
  <2>3. calls' = <<c>> /\ <<c>> \in Seq(Call) /\ Len(<<c>>) = 1 /\ <<c>>[1] = c
    BY <2>1, <2>2
  <2>4. InitOK'
    <3>1. Len(calls') = 1 /\ calls'[1].class = k /\ calls'[1].at = "parent"
      BY <2>2, <2>3
    <3>2. 1 <= Len(l) /\ \A i \in 1 .. 1 : i = 1
      BY <1>5
    <3>3. QED
      BY <1>1, <1>2, <1>3, <1>5, <1>6, <2>1, <3>1, <3>2 DEF InitOK
  <2>5. QED
    BY <1>1, <1>3, <1>8, <2>1, <2>3, <2>4 DEF ObjectOK, FiniOK
<1>10. CASE ConstructFails(k)
  <2>1. /\ phase' = "made" /\ priv' = priv /\ faults' = faults + 1 /\ calls' = calls
    BY <1>10 DEF ConstructFails, Fault
  <2>2. faults' \in Nat /\ faults' > 0
    BY <2>1 DEF ObjectOK
  <2>3. QED
    BY <1>1, <1>2, <1>3, <1>8, <2>1, <2>2 DEF ObjectOK, InitOK, FiniOK
<1>11. QED
  BY <1>9, <1>10

(* What the steps of an object start from. *)
LEMMA ObjectFacts ==
  ASSUME LowerOK, ObjectOK, phase # "none"
  PROVE  /\ Built /\ created = Len(binding) /\ object \in Registered /\ object \in Idx
         /\ LET l == Lineage[object]
            IN  /\ l \in Seq(Idx) /\ Len(l) \in Nat \ {0} /\ l[1] = object
                /\ source[object] # Null
                /\ inits \in Seq(Idx) /\ Len(inits) \in Nat /\ Len(inits) <= Len(l)
                /\ \A j \in 1 .. Len(inits) : inits[j] = l[Len(l) + 1 - j]
                /\ finis \in Seq(Idx) /\ Len(finis) \in Nat /\ Len(finis) <= Len(l)
                /\ \A j \in 1 .. Len(finis) : finis[j] = l[j]
                /\ \A i \in 1 .. Len(l) :
                     /\ l[i] \in Idx
                     /\ source[l[i]] # Null =>
                          /\ i < Len(l) => /\ source[l[i]].call = l[i+1]
                                           /\ l[i+1] # Null /\ source[l[i+1]] # Null
                          /\ i = Len(l) => source[l[i]].call = Null
<1>1. Built /\ created = Len(binding) /\ object \in Registered /\ object \in Idx /\ CodeOK
  BY DEF ObjectOK, Registered
<1>2. PICK l : l = Lineage[object]
  OBVIOUS
<1>3. /\ l \in Seq(Idx) /\ Len(l) \in Nat \ {0} /\ l[1] = object
      /\ source[object] # Null
      /\ \A i \in 1 .. Len(l) :
                     /\ l[i] \in Idx
                     /\ source[l[i]] # Null =>
                          /\ i < Len(l) => /\ source[l[i]].call = l[i+1]
                                           /\ l[i+1] # Null /\ source[l[i+1]] # Null
                          /\ i = Len(l) => source[l[i]].call = Null
  BY <1>1, <1>2, Ancestors, Zenon DEF LowerOK
<1>4. /\ inits \in Seq(Idx) /\ Len(inits) <= Len(l)
      /\ \A j \in 1 .. Len(inits) : inits[j] = l[Len(l) + 1 - j]
      /\ finis \in Seq(Idx) /\ Len(finis) <= Len(l)
      /\ \A j \in 1 .. Len(finis) : finis[j] = l[j]
  BY <1>1, <1>2 DEF CodeOK
<1>5. Len(inits) \in Nat /\ Len(finis) \in Nat
  BY <1>4, LenProperties
<1>6. QED
  BY <1>1, <1>2, <1>3, <1>4, <1>5, Zenon

(* The initialiser on top of the stack calls that of its parent. *)
LEMMA CallParentStep ==
  ASSUME LowerOK, ObjectOK, CallParentInit
  PROVE  ObjectOK'
<1>1. /\ UNCHANGED <<vars, driver, prototypes>>
      /\ UNCHANGED <<object, priv, phase, inits, finis, faults>>
      /\ phase = "init" /\ calls # <<>> /\ top.at = "parent"
  BY DEF CallParentInit
<1>2. /\ UNCHANGED <<source, binding, created>>
      /\ Lineage' = Lineage /\ Registered' = Registered /\ Built'
  <2>1. Built
    BY <1>1 DEF ObjectOK
  <2>2. QED
    BY <1>1, <2>1, ObjectFrame
<1>3. PICK l : l = Lineage[object]
  OBVIOUS
<1>4. PICK c : c = calls
  OBVIOUS
<1>5. PICK n : n = Len(c)
  OBVIOUS
<1>6. PICK s : s = [c EXCEPT ![n].at = "code"]
  OBVIOUS
<1>7. /\ c \in Seq(Call) /\ n \in Nat \ {0} /\ top = c[n] /\ c[n] \in Call
      /\ s \in Seq(Call) /\ Len(s) = n
      /\ \A i \in 1 .. n : s[i].class = c[i].class /\ s[i].at = IF i = n THEN "code" ELSE c[i].at
  <2>1. c \in Seq(Call) /\ c # <<>>
    BY <1>1, <1>4 DEF ObjectOK
  <2>2. top = Last(c)
    BY <1>4 DEF top
  <2>3. QED
    BY ONLY <1>5, <1>6, <2>1, <2>2, CallStack
<1>8. /\ n <= Len(l) /\ inits = <<>> /\ finis = <<>> /\ priv = "live"
      /\ \A i \in 1 .. n : /\ c[i].class = l[i]
                           /\ i < n => c[i].at = "code"
                           /\ source[l[i]] # Null
  BY <1>1, <1>3, <1>4, <1>5, <1>7 DEF ObjectOK, InitOK
<1>9. /\ l \in Seq(Idx) /\ Len(l) \in Nat \ {0}
      /\ l[n] \in Idx
      /\ n < Len(l) => /\ source[l[n]].call = l[n+1]
                       /\ l[n+1] # Null /\ source[l[n+1]] # Null /\ l[n+1] \in Idx
      /\ n = Len(l) => source[l[n]].call = Null
  <2>1. n \in 1 .. Len(l) /\ n \in 1 .. n
    BY <1>7, <1>8
  <2>2. n < Len(l) => n + 1 \in 1 .. Len(l)
    BY <1>7, <1>8, <2>1
  <2>3. phase # "none" /\ source[l[n]] # Null
    BY <1>1, <1>8, <2>1
  <2>4. QED
    BY <1>3, <2>1, <2>2, <2>3, ObjectFacts
<1>10. top.class = l[n]
  BY <1>7, <1>8
<1>11. calls' = IF source[l[n]].call = Null THEN s
                ELSE Append(s, [class |-> source[l[n]].call, at |-> "parent"])
  BY <1>4, <1>5, <1>6, <1>10, Zenon DEF CallParentInit
<1>12. CodeOK'
  BY <1>1, <1>2 DEF ObjectOK, CodeOK
<1>13. s # <<>> /\ \A i \in 1 .. n : s[i].class = l[i] /\ s[i].at = "code"
  <2>1. s # <<>>
    BY <1>7, EmptySeq
  <2>2. \A i \in 1 .. n : i = n \/ i < n
    BY <1>7
  <2>3. QED
    BY <1>7, <1>8, <2>1, <2>2
<1>14. CASE n = Len(l)
  <2>1. calls' = s
    BY <1>9, <1>11, <1>14
  <2>2. Len(<<>>) = 0 /\ Len(<<>>) + n = Len(l)
    BY <1>7, <1>14, EmptySeq
  <2>3. n \in 1 .. n /\ s[n].at # "parent"
    BY <1>7, <1>13
  <2>4. InitOK'
    BY <1>1, <1>2, <1>3, <1>7, <1>8, <1>13, <2>1, <2>2, <2>3 DEF InitOK
  <2>5. calls' \in Seq(Call)
    BY <1>7, <2>1
  <2>6. QED
    BY <1>1, <1>2, <1>12, <2>4, <2>5 DEF ObjectOK, FiniOK
<1>15. CASE n # Len(l)
  <2>1. n < Len(l) /\ n + 1 <= Len(l)
    BY <1>7, <1>8, <1>9, <1>15
  <2>2. PICK r \in Call : r = [class |-> l[n+1], at |-> "parent"]
    BY <1>9, <2>1 DEF Call
  <2>3. PICK t : t = Append(s, r)
    OBVIOUS
  <2>4. calls' = t
    BY <1>9, <1>11, <2>1, <2>2, <2>3
  <2>5. t \in Seq(Call) /\ Len(t) = n + 1 /\ t[n+1] = r /\ \A i \in 1 .. n : t[i] = s[i]
    BY <1>7, <2>3, AppendProperties
  <2>6. \A i \in 1 .. n + 1 : /\ t[i].class = l[i]
                              /\ i < n + 1 => t[i].at = "code"
                              /\ source[l[i]] # Null
    <3>1. \A i \in 1 .. n + 1 : i = n + 1 \/ i \in 1 .. n
      BY <1>7
    <3>2. QED
      BY <1>8, <1>9, <1>13, <2>1, <2>2, <2>5, <3>1
  <2>7. n + 1 # 0 /\ t[n+1].at = "parent"
    BY <1>7, <2>2, <2>5
  <2>8. InitOK'
    BY <1>1, <1>2, <1>3, <1>8, <2>1, <2>4, <2>5, <2>6, <2>7 DEF InitOK
  <2>9. QED
    BY <1>1, <1>2, <1>12, <2>4, <2>5, <2>8 DEF ObjectOK, FiniOK
<1>16. QED
  BY <1>14, <1>15

(* The author's init code runs to its end: that of the parents has. *)
LEMMA InitCodeStep ==
  ASSUME LowerOK, ObjectOK, InitCode
  PROVE  ObjectOK'
<1>1. /\ UNCHANGED <<vars, driver, prototypes>>
      /\ UNCHANGED <<object, priv, phase, finis, faults>>
      /\ phase = "init" /\ calls # <<>> /\ top.at = "code"
  BY DEF InitCode
<1>2. /\ UNCHANGED <<source, binding, created>>
      /\ Lineage' = Lineage /\ Registered' = Registered /\ Built'
  <2>1. Built
    BY <1>1 DEF ObjectOK
  <2>2. QED
    BY <1>1, <2>1, ObjectFrame
<1>3. PICK l : l = Lineage[object]
  OBVIOUS
<1>4. PICK c : c = calls
  OBVIOUS
<1>5. PICK n : n = Len(c)
  OBVIOUS
<1>6. PICK f : f = Front(c)
  OBVIOUS
<1>7. /\ c \in Seq(Call) /\ n \in Nat \ {0} /\ top = c[n] /\ c[n] \in Call
      /\ f \in Seq(Call) /\ Len(f) = n - 1 /\ \A i \in 1 .. n - 1 : f[i] = c[i]
  <2>1. c \in Seq(Call) /\ c # <<>>
    BY <1>1, <1>4 DEF ObjectOK
  <2>2. top = Last(c)
    BY <1>4 DEF top
  <2>3. QED
    BY ONLY <1>5, <1>6, <2>1, <2>2, CallStack
<1>8. /\ n <= Len(l) /\ Len(inits) + n = Len(l) /\ finis = <<>> /\ priv = "live"
      /\ \A i \in 1 .. n : /\ c[i].class = l[i]
                           /\ i < n => c[i].at = "code"
                           /\ source[l[i]] # Null
  BY <1>1, <1>3, <1>4, <1>5, <1>7 DEF ObjectOK, InitOK
<1>9. PICK m : m = Len(inits)
  OBVIOUS
<1>10. /\ l \in Seq(Idx) /\ Len(l) \in Nat \ {0} /\ l[n] \in Idx
       /\ inits \in Seq(Idx) /\ m \in Nat
       /\ \A j \in 1 .. m : inits[j] = l[Len(l) + 1 - j]
  <2>1. n \in 1 .. Len(l)
    BY <1>7, <1>8
  <2>2. QED
    BY <1>1, <1>3, <1>9, <2>1, ObjectFacts
<1>11. PICK k \in Idx : k = l[n] /\ k = top.class
  <2>1. PICK e \in Idx : e = l[n]
    BY <1>10
  <2>2. n \in 1 .. n
    BY <1>7
  <2>3. c[n].class = l[n]
    BY <1>8, <2>2
  <2>4. top.class = l[n]
    BY <1>7, <2>3, Zenon
  <2>5. QED
    BY <2>1, <2>4, Zenon
<1>12. inits' = Append(inits, k) /\ calls' = f
  BY <1>4, <1>6, <1>11 DEF InitCode
<1>13. PICK t : t = Append(inits, k)
  OBVIOUS
<1>14. t \in Seq(Idx) /\ Len(t) = m + 1 /\ t[m + 1] = k /\ \A j \in 1 .. m : t[j] = inits[j]
  BY <1>9, <1>10, <1>13, AppendProperties
<1>15. m + n = Len(l) /\ Len(t) + (n - 1) = Len(l) /\ Len(t) <= Len(l)
       /\ Len(l) + 1 - (m + 1) = n
  <2>1. m + n = Len(l)
    BY <1>8, <1>9
  <2>2. PICK q \in Nat : q = Len(l)
    BY <1>10
  <2>3. PICK r : r = Len(t)
    OBVIOUS
  <2>4. r + (n - 1) = q /\ r <= q /\ q + 1 - (m + 1) = n
    BY <1>7, <1>10, <1>14, <2>1, <2>2, <2>3
  <2>5. QED
    BY <2>1, <2>2, <2>3, <2>4
<1>16. \A j \in 1 .. m + 1 : t[j] = l[Len(l) + 1 - j]
  <2>1. \A j \in 1 .. m + 1 : j = m + 1 \/ j \in 1 .. m
    BY <1>10
  <2>2. t[m + 1] = l[Len(l) + 1 - (m + 1)]
    BY <1>11, <1>14, <1>15
  <2>3. QED
    BY <1>10, <1>14, <2>1, <2>2
<1>17. CodeOK'
  <2>1. inits' = t /\ finis' = finis /\ Lineage'[object'] = l
    BY <1>1, <1>2, <1>3, <1>12, <1>13
  <2>2. finis \in Seq(Idx) /\ Len(finis) <= Len(l) /\ \A j \in 1 .. Len(finis) : finis[j] = l[j]
    BY <1>1, <1>3 DEF ObjectOK, CodeOK
  <2>3. QED
    BY <1>14, <1>15, <1>16, <2>1, <2>2 DEF CodeOK
<1>18. InitOK'
  <2>1. n - 1 <= Len(l) /\ \A i \in 1 .. n - 1 : i \in 1 .. n /\ i < n
    BY <1>7, <1>8, <1>10
  <2>2. n - 1 # 0 => n - 1 \in 1 .. n - 1
    BY <1>7
  <2>3. \A i \in 1 .. n - 1 : f[i].class = l[i] /\ f[i].at = "code" /\ source[l[i]] # Null
    BY <1>7, <1>8, <2>1
  <2>4. n - 1 # 0 => f[n - 1].at # "parent"
    BY <2>2, <2>3
  <2>5. QED
    BY <1>1, <1>2, <1>3, <1>7, <1>8, <1>12, <1>13, <1>15, <2>1, <2>3, <2>4, ZenonT(60) DEF InitOK
<1>19. QED
  BY <1>1, <1>2, <1>7, <1>12, <1>17, <1>18 DEF ObjectOK, FiniOK

(* The construction is over, with the last initialiser or with an error. *)
LEMMA ConstructOverStep ==
  ASSUME LowerOK, ObjectOK, InitThrows \/ ConstructEnd
  PROVE  ObjectOK'
<1>1. /\ UNCHANGED <<vars, driver, prototypes>>
      /\ UNCHANGED <<object, priv, inits, finis>>
      /\ phase = "init" /\ phase' = "made" /\ calls' = <<>>
      /\ \/ faults' = faults + 1
         \/ faults' = faults /\ calls = <<>>
  BY DEF InitThrows, ConstructEnd, Fault
<1>2. /\ UNCHANGED <<source, binding, created>>
      /\ Lineage' = Lineage /\ Registered' = Registered /\ Built'
  <2>1. Built
    BY <1>1 DEF ObjectOK
  <2>2. QED
    BY <1>1, <2>1, ObjectFrame
<1>3. CodeOK'
  BY <1>1, <1>2 DEF ObjectOK, CodeOK
<1>4. <<>> \in Seq(Call) /\ Len(<<>>) = 0
  BY EmptySeq
<1>5. faults \in Nat /\ faults' \in Nat /\ (faults' = 0 => calls = <<>>)
  BY <1>1 DEF ObjectOK
<1>6. calls = <<>> => Len(inits) = Len(Lineage[object])
  <2>1. phase # "none" /\ InitOK
    BY <1>1 DEF ObjectOK
  <2>2. Len(Lineage[object]) \in Nat /\ Len(inits) \in Nat
    BY <2>1, ObjectFacts
  <2>3. calls = <<>> => Len(inits) + 0 = Len(Lineage[object])
    BY <1>1, <1>4, <2>1 DEF InitOK
  <2>4. QED
    BY <2>2, <2>3
<1>7. finis = <<>> /\ priv = "live"
  BY <1>1 DEF ObjectOK, InitOK
<1>8. QED
  BY <1>1, <1>2, <1>3, <1>4, <1>5, <1>6, <1>7 DEF ObjectOK, InitOK, FiniOK

(* The destructor of the object's own class starts the finalisers. *)
LEMMA DestructStep ==
  ASSUME LowerOK, ObjectOK, Destruct
  PROVE  ObjectOK'
<1>1. /\ UNCHANGED <<vars, driver, prototypes>>
      /\ UNCHANGED <<object, priv, inits, finis, faults>>
      /\ phase = "made"
      /\ \/ priv = "none" /\ phase' = "gone" /\ calls' = calls
         \/ priv # "none" /\ phase' = "fini" /\ calls' = <<[class |-> object, at |-> "code"]>>
  BY DEF Destruct
<1>2. /\ UNCHANGED <<source, binding, created>>
      /\ Lineage' = Lineage /\ Registered' = Registered /\ Built'
  <2>1. Built
    BY <1>1 DEF ObjectOK
  <2>2. QED
    BY <1>1, <2>1, ObjectFrame
<1>3. CodeOK'
  BY <1>1, <1>2 DEF ObjectOK, CodeOK
<1>4. finis = <<>> /\ priv \in {"none", "live"} /\ (priv = "none" => faults > 0)
  BY <1>1 DEF ObjectOK
<1>5. CASE priv = "none"
  BY <1>1, <1>2, <1>3, <1>4, <1>5 DEF ObjectOK, InitOK, FiniOK
<1>6. CASE priv # "none"
  <2>1. PICK l : l = Lineage[object]
    OBVIOUS
  <2>2. Len(l) \in Nat \ {0} /\ l[1] = object /\ source[object] # Null /\ object \in Idx
    BY <1>1, <2>1, ObjectFacts
  <2>3. PICK c \in Call : c = [class |-> object, at |-> "code"]
    BY <2>2 DEF Call
  <2>4. calls' = <<c>> /\ <<c>> \in Seq(Call) /\ Len(<<c>>) = 1 /\ <<c>>[1] = c /\ <<c>> # <<>>
    BY <1>1, <1>6, <2>3
  <2>5. Len(finis) = 0 /\ 0 < Len(l) /\ 0 + 1 = 1
    BY <1>4, <2>2, EmptySeq
  <2>6. FiniOK'
    BY <1>1, <1>2, <1>4, <1>6, <2>1, <2>2, <2>3, <2>4, <2>5 DEF FiniOK
  <2>7. QED
    BY <1>1, <1>2, <1>3, <1>4, <1>6, <2>4, <2>6 DEF ObjectOK, InitOK
<1>7. QED
  BY <1>5, <1>6

(* A finaliser runs to its end and calls that of the parent. *)
LEMMA FiniCodeStep ==
  ASSUME LowerOK, ObjectOK, FiniCode
  PROVE  ObjectOK'
<1>1. /\ UNCHANGED <<vars, driver, prototypes>>
      /\ UNCHANGED <<object, priv, phase, inits, faults>>
      /\ phase = "fini" /\ calls # <<>>
  BY DEF FiniCode
<1>2. /\ UNCHANGED <<source, binding, created>>
      /\ Lineage' = Lineage /\ Registered' = Registered /\ Built'
  <2>1. Built
    BY <1>1 DEF ObjectOK
  <2>2. QED
    BY <1>1, <2>1, ObjectFrame
<1>3. PICK l : l = Lineage[object]
  OBVIOUS
<1>4. PICK n : n = Len(finis)
  OBVIOUS
<1>5. /\ calls \in Seq(Call) /\ Len(calls) = 1 /\ n < Len(l)
      /\ calls[1].class = l[n + 1] /\ source[l[n + 1]] # Null /\ priv = "live"
  BY <1>1, <1>3, <1>4 DEF ObjectOK, FiniOK
<1>6. /\ l \in Seq(Idx) /\ Len(l) \in Nat \ {0}
      /\ finis \in Seq(Idx) /\ n \in Nat
      /\ \A j \in 1 .. n : finis[j] = l[j]
  BY <1>1, <1>3, <1>4, ObjectFacts
<1>7. /\ l[n+1] \in Idx
      /\ n + 1 < Len(l) => /\ source[l[n+1]].call = l[n+2]
                           /\ l[n+2] # Null /\ source[l[n+2]] # Null /\ l[n+2] \in Idx
      /\ n + 1 = Len(l) => source[l[n+1]].call = Null
  <2>1. n + 1 \in 1 .. Len(l) /\ (n + 1 < Len(l) => n + 2 \in 1 .. Len(l)) /\ n + 1 + 1 = n + 2
    BY <1>5, <1>6
  <2>2. phase # "none"
    BY <1>1
  <2>3. PICK i : i = n + 1
    OBVIOUS
  <2>4. /\ l[i] \in Idx
        /\ i < Len(l) => /\ source[l[i]].call = l[i+1]
                         /\ l[i+1] # Null /\ source[l[i+1]] # Null
        /\ i = Len(l) => source[l[i]].call = Null
        /\ n + 1 < Len(l) => l[n+2] \in Idx
    BY <1>3, <1>5, <2>1, <2>2, <2>3, ObjectFacts
  <2>5. QED
    BY <2>1, <2>3, <2>4
<1>8. PICK k \in Idx : k = l[n + 1]
  BY <1>7
<1>9. top.class = k
  BY <1>5, <1>8 DEF top, Last
<1>10. PICK t : t = Append(finis, k)
  OBVIOUS
<1>11. t \in Seq(Idx) /\ Len(t) = n + 1 /\ t[n + 1] = k /\ \A j \in 1 .. n : t[j] = finis[j]
  BY <1>4, <1>6, <1>10, AppendProperties
<1>12. finis' = t /\ calls' = IF source[k].call = Null THEN <<>>
                              ELSE <<[class |-> source[k].call, at |-> "code"]>>
  BY <1>9, <1>10 DEF FiniCode
<1>13. CodeOK'
  <2>1. \A j \in 1 .. n + 1 : t[j] = l[j]
    <3>1. \A j \in 1 .. n + 1 : j = n + 1 \/ j \in 1 .. n
      BY <1>6
    <3>2. QED
      BY <1>6, <1>8, <1>11, <3>1
  <2>2. Len(t) <= Len(l)
    BY <1>5, <1>6, <1>11
  <2>3. inits' = inits /\ Lineage'[object'] = l
    BY <1>1, <1>2, <1>3
  <2>4. inits \in Seq(Idx) /\ Len(inits) <= Len(l)
        /\ \A j \in 1 .. Len(inits) : inits[j] = l[Len(l) + 1 - j]
    BY <1>1, <1>3 DEF ObjectOK, CodeOK
  <2>5. QED
    BY <1>11, <1>12, <2>1, <2>2, <2>3, <2>4 DEF CodeOK
<1>14. calls' \in Seq(Call) /\ FiniOK'
  <2>1. CASE n + 1 = Len(l)
    <3>1. calls' = <<>> /\ <<>> \in Seq(Call)
      BY <1>7, <1>8, <1>12, <2>1, EmptySeq
    <3>2. QED
      BY <1>1, <1>2, <1>3, <1>5, <1>11, <1>12, <2>1, <3>1 DEF FiniOK
  <2>2. CASE n + 1 # Len(l)
    <3>1. n + 1 < Len(l) /\ n + 1 + 1 = n + 2
      BY <1>5, <1>6, <2>2
    <3>2. PICK c \in Call : c = [class |-> l[n+2], at |-> "code"]
      BY <1>7, <3>1 DEF Call
    <3>3. calls' = <<c>> /\ <<c>> \in Seq(Call) /\ Len(<<c>>) = 1 /\ <<c>>[1] = c
          /\ <<c>> # <<>> /\ c.class = l[n+2]
      BY <1>7, <1>8, <1>12, <3>1, <3>2
    <3>4. FiniOK'
      BY <1>1, <1>2, <1>3, <1>5, <1>7, <1>11, <1>12, <3>1, <3>3 DEF FiniOK
    <3>5. QED
      BY <3>3, <3>4
  <2>3. QED
    BY <2>1, <2>2
<1>15. QED
  BY <1>1, <1>2, <1>13, <1>14, <1>5 DEF ObjectOK, InitOK

(* The end of the object. *)
LEMMA FiniOverStep ==
  ASSUME LowerOK, ObjectOK, FiniThrows \/ FreePrivate
  PROVE  ObjectOK'
<1>1. /\ UNCHANGED <<vars, driver, prototypes>>
      /\ UNCHANGED <<object, inits, finis>>
      /\ phase = "fini" /\ phase' = "gone" /\ calls' = <<>>
      /\ \/ faults' = faults + 1 /\ priv' = priv
         \/ faults' = faults /\ calls = <<>> /\ priv' = "freed"
  BY DEF FiniThrows, FreePrivate, Fault
<1>2. /\ UNCHANGED <<source, binding, created>>
      /\ Lineage' = Lineage /\ Registered' = Registered /\ Built'
  <2>1. Built
    BY <1>1 DEF ObjectOK
  <2>2. QED
    BY <1>1, <2>1, ObjectFrame
<1>3. CodeOK'
  BY <1>1, <1>2 DEF ObjectOK, CodeOK
<1>4. <<>> \in Seq(Call)
  BY EmptySeq
<1>5. faults \in Nat /\ faults' \in Nat /\ (faults' = faults \/ faults' > 0)
  BY <1>1 DEF ObjectOK
<1>6. priv = "live" /\ (calls = <<>> => Len(finis) = Len(Lineage[object]))
  BY <1>1 DEF ObjectOK, FiniOK
<1>7. QED
  BY <1>1, <1>2, <1>3, <1>4, <1>5, <1>6 DEF ObjectOK, InitOK, FiniOK

-----------------------------------------------------------------------------
(* The first state: nothing is written, built or alive. *)
LEMMA InitInv == LifecycleInit => IInv
<1> SUFFICES ASSUME LifecycleInit PROVE IInv
  OBVIOUS
<1>1. Init /\ DriverInit
  BY DEF LifecycleInit, DriverInit
<1>2. MapOK
  BY <1>1 DEF Init, MapOK
<1>3. SourcesOK
  <2>1. lost \in BOOLEAN
    BY <1>1 DEF Init
  <2>2. QED
    BY <1>1, <2>1, NAssumption DEF Init, SourcesOK
<1>4. HeadersOK
  BY <1>1 DEF Init, HeadersOK
<1>5. Blank
  BY <1>1 DEF Init, Blank, files
<1>6. DriverOK
  BY <1>1, <1>5 DEF DriverInit, DriverOK
<1>7. Registered = {} /\ created = 0 /\ chain \in [Idx -> Idx \cup {-1, Null}]
  BY DEF LifecycleInit, Registered
<1>8. PrototypesOK
  BY <1>7 DEF PrototypesOK
<1>9. ObjectOK
  <2>1. <<>> \in Seq(Call)
    BY EmptySeq
  <2>2. QED
    BY <2>1 DEF LifecycleInit, ObjectOK, InitOK, FiniOK
<1>10. QED
  BY <1>2, <1>3, <1>4, <1>6, <1>8, <1>9 DEF IInv

(* Before the object there is none of its state. *)
LEMMA NoObjectStep ==
  ASSUME ObjectOK, phase = "none", UNCHANGED life, faults' \in Nat
  PROVE  ObjectOK'
BY DEF ObjectOK, InitOK, FiniOK, life

(* Faults are counted. *)
LEMMA FaultType ==
  ASSUME ObjectOK, UNCHANGED faults \/ Fault
  PROVE  faults' \in Nat
BY DEF ObjectOK, Fault

(* Every step keeps the invariant: those of the tool move its own layers
   while there is no program, those of the program leave the tool's alone. *)
LEMMA StepInv == IInv /\ [LifecycleNext]_all => IInv'
<1> SUFFICES ASSUME IInv, [LifecycleNext]_all PROVE IInv'
  OBVIOUS
<1>0. MapOK /\ SourcesOK /\ HeadersOK /\ DriverOK /\ PrototypesOK /\ ObjectOK /\ LowerOK
  BY DEF IInv, LowerOK
<1>1. CASE DriverNext /\ UNCHANGED <<prototypes, life, faults>>
  <2>1. MapOK' /\ SourcesOK' /\ HeadersOK' /\ DriverOK' /\ stage # "exited"
    BY <1>0, <1>1, DriverStep
  <2>2. ~Built
    BY <1>0, <2>1, BuiltFacts
  <2>3. created = 0 /\ phase = "none"
    BY <1>0, <2>2 DEF PrototypesOK, ObjectOK
  <2>4. Registered = {}
    BY <1>0, <2>3 DEF PrototypesOK
  <2>5. Registered' = {} /\ created' = 0 /\ chain' = chain
    BY <1>1, <2>3, <2>4 DEF prototypes, Registered
  <2>6. PrototypesOK'
    BY <1>0, <2>5 DEF PrototypesOK
  <2>7. ObjectOK'
    BY <1>0, <1>1, <2>3, NoObjectStep, FaultType
  <2>8. QED
    BY <2>1, <2>6, <2>7 DEF IInv
<1>2. ASSUME UNCHANGED <<vars, driver>>
      PROVE  MapOK' /\ SourcesOK' /\ HeadersOK' /\ DriverOK'
  <2>1. MapOK' /\ SourcesOK' /\ HeadersOK' /\ (Blank => Blank') /\ pc' = pc
    BY <1>0, <1>2, OutputUnchanged DEF vars
  <2>2. DriverOK'
    BY <1>0, <1>2, <2>1 DEF DriverOK, driver
  <2>3. QED
    BY <2>1, <2>2
<1>3. CASE CreatePrototype
  <2>1. UNCHANGED <<vars, driver>> /\ UNCHANGED life /\ UNCHANGED faults
        /\ Built /\ created < Len(binding)
    BY <1>3 DEF CreatePrototype
  <2>2. phase = "none"
    <3>1. Len(binding) \in Nat
      BY <1>0, <2>1, BuiltFacts
    <3>2. created # Len(binding)
      BY <2>1, <3>1
    <3>3. QED
      BY <1>0, <3>2 DEF ObjectOK
  <2>3. PrototypesOK' /\ ObjectOK'
    BY <1>0, <1>3, <2>1, <2>2, CreateStep, NoObjectStep, FaultType
  <2>4. QED
    BY <1>2, <2>1, <2>3 DEF IInv
<1>4. CASE PrototypeFails
  <2>1. UNCHANGED <<vars, driver>> /\ UNCHANGED life /\ Fault
        /\ Built /\ created < Len(binding) /\ UNCHANGED <<chain, injected>>
        /\ created' = created + 1
    BY <1>4 DEF PrototypeFails
  <2>2. Len(binding) \in Nat
    BY <1>0, <2>1, BuiltFacts
  <2>3. phase = "none"
    <3>1. created # Len(binding)
      BY <2>1, <2>2
    <3>2. QED
      BY <1>0, <3>1 DEF ObjectOK
  <2>4. PrototypesOK'
    BY <1>0, <2>1, <2>2, PrototypesSame
  <2>5. ObjectOK'
    BY <1>0, <2>1, <2>3, NoObjectStep, FaultType
  <2>6. QED
    BY <1>2, <2>1, <2>4, <2>5 DEF IInv
<1>5. ASSUME UNCHANGED <<vars, driver, prototypes>>, ObjectOK'
      PROVE  IInv'
  <2>1. PrototypesOK'
    <3>1. created' = created /\ UNCHANGED <<vars, driver, chain, injected>>
      BY <1>5 DEF prototypes
    <3>2. QED
      BY <1>0, <3>1, PrototypesSame
  <2>2. QED
    BY <1>2, <1>5, <2>1 DEF IInv
<1>6. CASE \E k \in Idx : Construct(k) \/ ConstructFails(k)
  <2>1. PICK k \in Idx : Construct(k) \/ ConstructFails(k)
    BY <1>6
  <2>2. QED
    BY <1>0, <1>5, <2>1, ConstructStep DEF Construct, ConstructFails
<1>7. CASE CallParentInit
  BY <1>0, <1>5, <1>7, CallParentStep DEF CallParentInit
<1>8. CASE InitCode
  BY <1>0, <1>5, <1>8, InitCodeStep DEF InitCode
<1>9. CASE InitThrows \/ ConstructEnd
  BY <1>0, <1>5, <1>9, ConstructOverStep DEF InitThrows, ConstructEnd
<1>10. CASE Destruct
  BY <1>0, <1>5, <1>10, DestructStep DEF Destruct
<1>11. CASE FiniCode
  BY <1>0, <1>5, <1>11, FiniCodeStep DEF FiniCode
<1>12. CASE FiniThrows \/ FreePrivate
  BY <1>0, <1>5, <1>12, FiniOverStep DEF FiniThrows, FreePrivate
<1>13. CASE UNCHANGED all
  <2>1. UNCHANGED <<vars, driver, prototypes>> /\ UNCHANGED life /\ UNCHANGED faults
    BY <1>13 DEF all
  <2>2. /\ UNCHANGED <<source, binding, created>>
        /\ Lineage' = Lineage /\ Registered' = Registered /\ (Built' <=> Built)
    BY <2>1, ObjectFrame
  <2>3. ObjectOK'
    BY <1>0, <2>1, <2>2 DEF ObjectOK, CodeOK, InitOK, FiniOK, life
  <2>4. QED
    BY <1>5, <2>1, <2>3
<1>14. QED
  BY <1>1, <1>3, <1>4, <1>6, <1>7, <1>8, <1>9, <1>10, <1>11, <1>12, <1>13 DEF LifecycleNext

(* The invariant from which all properties of the module follow. *)
THEOREM LifecycleInvariant == LifecycleSpec => []IInv
BY InitInv, StepInv, PTL DEF LifecycleSpec

-----------------------------------------------------------------------------
(* The reverse of a sequence of entries, element by element. *)
LEMMA Reversed ==
  ASSUME NEW s \in Seq(Idx)
  PROVE  /\ Reverse(s) \in Seq(Idx) /\ Len(Reverse(s)) = Len(s)
         /\ \A j \in 1 .. Len(s) : Reverse(s)[j] = s[(Len(s) - j) + 1]
<1>1. PICK n \in Nat : n = Len(s)
  BY LenProperties
<1>2. PICK r : r = [j \in 1 .. n |-> s[(n - j) + 1]]
  OBVIOUS
<1>3. \A j \in 1 .. n : (n - j) + 1 \in 1 .. n
  BY <1>1
<1>4. r \in [1 .. n -> Idx]
  BY <1>1, <1>2, <1>3, ElementOfSeq
<1>5. r \in Seq(Idx)
  BY <1>1, <1>4, SeqDef
<1>6. Len(r) = n
  BY <1>1, <1>4, <1>5, LenProperties
<1>7. Reverse(s) = r
  BY <1>1, <1>2 DEF Reverse
<1>8. QED
  BY <1>1, <1>2, <1>5, <1>6, <1>7

(* A prefix of a sequence of entries, element by element. *)
LEMMA PrefixFacts ==
  ASSUME NEW s \in Seq(Idx), NEW n \in 0 .. Len(s)
  PROVE  /\ SubSeq(s, 1, n) \in Seq(Idx) /\ Len(SubSeq(s, 1, n)) = n
         /\ \A j \in 1 .. n : SubSeq(s, 1, n)[j] = s[j]
<1>1. n \in Nat /\ \A i \in 1 .. n : s[i] \in Idx
  BY LenProperties, ElementOfSeq
<1>2. /\ SubSeq(s, 1, n) \in Seq(Idx)
      /\ Len(SubSeq(s, 1, n)) = IF 1 <= n THEN n - 1 + 1 ELSE 0
      /\ \A i \in 1 .. n - 1 + 1 : SubSeq(s, 1, n)[i] = s[1 + i - 1]
  BY <1>1, SubSeqProperties
<1>3. QED
  BY <1>1, <1>2

(* The init code of a class runs after that of all its ancestors. *)
LEMMA AncestryFollows ==
  ASSUME LowerOK, ObjectOK
  PROVE  AncestryInitialised
<1>1. CASE phase = "none"
  <2>1. inits = <<>> /\ DOMAIN <<>> = {}
    BY <1>1 DEF ObjectOK
  <2>2. QED
    BY <1>1, <2>1 DEF AncestryInitialised
<1>2. CASE phase # "none"
  <2>1. PICK l : l = Lineage[object]
    OBVIOUS
  <2>2. PICK q : q = Len(l)
    OBVIOUS
  <2>3. PICK m : m = Len(inits)
    OBVIOUS
  <2>4. /\ l \in Seq(Idx) /\ q \in Nat \ {0} /\ m \in Nat /\ m <= q
        /\ inits \in Seq(Idx) /\ \A j \in 1 .. m : inits[j] = l[q + 1 - j]
        /\ object \in Idx
    BY <1>2, <2>1, <2>2, <2>3, ObjectFacts
  <2>5. LineageOf(object, l)
    BY <2>1, <2>4, LineageFacts DEF LowerOK
  <2>6. ASSUME NEW n \in 1 .. m
        PROVE  SubSeq(inits, 1, n) = Reverse(Lineage[inits[n]])
    <3>1. PICK i \in 1 .. q : i = q + 1 - n /\ q + 1 - i = n
      BY <2>4
    <3>2. PICK k \in Idx : k = l[i] /\ k = inits[n]
      BY <2>2, <2>4, <3>1, ElementOfSeq
    <3>3. PICK s : s = Lineage[k]
      OBVIOUS
    <3>4. s \in Seq(Idx)
      BY <3>3, LineageFacts DEF LowerOK, LineageOf
    <3>5. Len(s) = n /\ \A j \in 1 .. n : s[j] = l[i + j - 1]
      BY <2>2, <2>5, <3>1, <3>2, <3>3 DEF LineageOf
    <3>6. PICK r : r = Reverse(s)
      OBVIOUS
    <3>7. r \in Seq(Idx) /\ Len(r) = n /\ \A j \in 1 .. n : r[j] = s[(n - j) + 1]
      BY <3>4, <3>5, <3>6, Reversed
    <3>8. PICK p : p = SubSeq(inits, 1, n)
      OBVIOUS
    <3>9. p \in Seq(Idx) /\ Len(p) = n /\ \A j \in 1 .. n : p[j] = inits[j]
      <4>1. n \in 0 .. Len(inits)
        BY <2>3, <2>4
      <4>2. inits \in Seq(Idx)
        BY <2>4
      <4>3. QED
        BY ONLY <3>8, <4>1, <4>2, PrefixFacts
    <3>10. ASSUME NEW j \in 1 .. n PROVE p[j] = r[j]
      <4>1. (n - j) + 1 \in 1 .. n /\ i + ((n - j) + 1) - 1 = q + 1 - j /\ j \in 1 .. m
        BY <2>4, <3>1
      <4>2. r[j] = l[i + ((n - j) + 1) - 1]
        BY <3>5, <3>7, <4>1
      <4>3. p[j] = l[q + 1 - j]
        BY <2>4, <3>9, <4>1
      <4>4. QED
        BY <4>1, <4>2, <4>3
    <3>11. p = r
      BY <3>7, <3>9, <3>10, SeqEqual
    <3>12. QED
      BY <3>2, <3>3, <3>6, <3>8, <3>11
  <2>7. DOMAIN inits = 1 .. m
    BY <2>3, <2>4, LenProperties
  <2>8. ASSUME phase = "made", faults = 0 PROVE inits = Reverse(l)
    <3>1. m = q
      BY <2>1, <2>2, <2>3, <2>8 DEF ObjectOK
    <3>2. PICK r : r = Reverse(l)
      OBVIOUS
    <3>3. r \in Seq(Idx) /\ Len(r) = q /\ \A j \in 1 .. q : r[j] = l[(q - j) + 1]
      BY <2>2, <2>4, <3>2, Reversed
    <3>4. \A j \in 1 .. q : (q - j) + 1 = q + 1 - j
      BY <2>4
    <3>5. \A j \in 1 .. q : inits[j] = r[j]
      BY <2>4, <3>1, <3>3, <3>4
    <3>6. inits = r
      BY <2>3, <2>4, <3>1, <3>3, <3>5, SeqEqual
    <3>7. QED
      BY <3>2, <3>6
  <2>9. QED
    BY <2>1, <2>6, <2>7, <2>8 DEF AncestryInitialised
<1>3. QED
  BY <1>1, <1>2

(* The finalisers run from the object's own class to the root. *)
LEMMA FinalisedFollows ==
  ASSUME LowerOK, ObjectOK
  PROVE  FinalisedToTheRoot
<1>1. CASE phase = "none"
  BY <1>1 DEF ObjectOK, FinalisedToTheRoot
<1>2. CASE phase # "none"
  <2>1. PICK l : l = Lineage[object]
    OBVIOUS
  <2>2. PICK n : n = Len(finis)
    OBVIOUS
  <2>3. /\ l \in Seq(Idx) /\ Len(l) \in Nat /\ n \in Nat /\ n <= Len(l)
        /\ finis \in Seq(Idx) /\ \A j \in 1 .. n : finis[j] = l[j]
    BY <1>2, <2>1, <2>2, ObjectFacts
  <2>4. IsPrefix(finis, l)
    <3>1. PICK p, r : p = SubSeq(finis, 1, n) /\ r = SubSeq(l, 1, n)
      OBVIOUS
    <3>2. n \in 0 .. Len(finis) /\ n \in 0 .. Len(l)
      BY <2>2, <2>3
    <3>3. p \in Seq(Idx) /\ Len(p) = n /\ \A j \in 1 .. n : p[j] = finis[j]
      <4>1. finis \in Seq(Idx)
        BY <2>3
      <4>2. QED
        BY ONLY <3>1, <3>2, <4>1, PrefixFacts
    <3>4. r \in Seq(Idx) /\ Len(r) = n /\ \A j \in 1 .. n : r[j] = l[j]
      <4>1. l \in Seq(Idx)
        BY <2>3
      <4>2. QED
        BY ONLY <3>1, <3>2, <4>1, PrefixFacts
    <3>5. p = r
      BY <2>3, <3>3, <3>4, SeqEqual
    <3>6. QED
      BY <2>2, <2>3, <3>1, <3>5 DEF IsPrefix
  <2>5. priv = "freed" => finis = l
    <3>1. priv = "freed" => n = Len(l)
      BY <2>1, <2>2 DEF ObjectOK
    <3>2. QED
      BY <2>2, <2>3, <3>1, SeqEqual
  <2>6. phase = "gone" /\ faults = 0 => priv = "freed"
    BY DEF ObjectOK
  <2>7. QED
    BY <2>1, <2>4, <2>5, <2>6 DEF FinalisedToTheRoot
<1>3. QED
  BY <1>1, <1>2

-----------------------------------------------------------------------------
(* The walk along the prototypes ends, for each leads to a smaller entry. *)
IsWalk(f, m) ==
  f = [k \in 0 .. m |-> {k} \cup IF chain[k] \in Idx THEN f[chain[k]] ELSE {}]

(* prototypes lead down the map *)
ChainDown == \A k \in Idx : chain[k] \in Idx => chain[k] < k

(* The recursion along the prototypes is well founded. *)
LEMMA WalkExists ==
  ASSUME ChainDown, NEW m \in Idx
  PROVE  \E f : IsWalk(f, m)
<1> DEFINE Bad == {k \in Idx : ~ \E f : IsWalk(f, k)}
<1>1. ASSUME Bad # {} PROVE FALSE
  <2>1. PICK k \in Bad : \A y \in Bad : k <= y
    <3>1. Bad \in SUBSET Nat
      BY IdxInt
    <3> HIDE DEF Bad
    <3>2. QED
      BY <1>1, <3>1, LeastExists
  <2>2. k \in Nat /\ k \in Idx
    BY <2>1, IdxInt
  <2>3. \E g : \A j \in 0 .. k-1 :
          g[j] = {j} \cup IF chain[j] \in Idx THEN g[chain[j]] ELSE {}
    <3>1. CASE k = 0
      BY <3>1
    <3>2. CASE k # 0
      <4>1. k-1 \in Idx /\ ~ (k <= k-1)
        BY <2>2, <3>2, NAssumption DEF Idx
      <4>2. k-1 \notin Bad
        BY <2>1, <4>1
      <4>3. QED
        BY <4>1, <4>2 DEF IsWalk
    <3>3. QED
      BY <3>1, <3>2
  <2>4. PICK g : \A j \in 0 .. k-1 :
          g[j] = {j} \cup IF chain[j] \in Idx THEN g[chain[j]] ELSE {}
    BY <2>3
  <2> DEFINE F(h, j) == {j} \cup IF chain[j] \in Idx THEN h[chain[j]] ELSE {}
             f == [j \in 0 .. k |-> IF j = k THEN F(g, k) ELSE g[j]]
  <2>5. \A j \in 0 .. k : chain[j] \in Idx => chain[j] \in 0 .. j-1
    BY <2>2, NAssumption DEF ChainDown, Idx
  <2>6. \A j \in 0 .. k : j = k \/ j \in 0 .. k-1
    BY <2>2
  <2>7. \A j \in 0 .. k : chain[j] \in Idx => f[chain[j]] = g[chain[j]]
    BY <2>2, <2>5
  <2>8. \A j \in 0 .. k : f[j] = F(f, j)
    BY <2>2, <2>4, <2>6, <2>7
  <2>9. f = [j \in 0 .. k |-> f[j]]
    OBVIOUS
  <2> HIDE DEF f
  <2>10. IsWalk(f, k)
    BY <2>8, <2>9, Zenon DEF IsWalk
  <2>11. QED
    BY <2>1, <2>10
<1>2. QED
  BY <1>1

(* The walk from an entry visits it, then all that its prototype visits. *)
LEMMA WalkDef ==
  ASSUME ChainDown, NEW k \in Idx
  PROVE  Walk[k] = {k} \cup IF chain[k] \in Idx THEN Walk[chain[k]] ELSE {}
<1>1. N-1 \in Idx /\ Idx = 0 .. N-1
  BY NAssumption DEF Idx
<1>2. \E f : f = [j \in Idx |-> {j} \cup IF chain[j] \in Idx THEN f[chain[j]] ELSE {}]
  BY <1>1, WalkExists, ZenonT(60) DEF IsWalk
<1>3. Walk = [j \in Idx |-> {j} \cup IF chain[j] \in Idx THEN Walk[chain[j]] ELSE {}]
  BY <1>2, Zenon DEF Walk
<1>4. QED
  BY <1>3, Zenon

(* An object is an instance of an ancestor if and only if no prototype
   between them is missing. *)
InstanceUpTo(k) ==
  \A n \in 1 .. Len(Lineage[k]) :
    InstanceOf(k, Lineage[k][n]) <=> \A m \in 1 .. n : Lineage[k][m] \in Registered

(* It is, when the prototypes are chained as the lineage is. *)
LEMMA InstanceByLineage ==
  ASSUME MapOK, chain \in [Idx -> Idx \cup {-1, Null}],
         \A k \in Registered : chain[k] = Chained(k)
  PROVE  \A k \in Registered : InstanceUpTo(k)
<1>0. Registered \subseteq Idx /\ Registered \subseteq Nat
  BY IdxInt DEF Registered
<1>1. ChainDown
  <2>1. ASSUME NEW k \in Idx, chain[k] \in Idx PROVE chain[k] < k
    <3>1. k \in Registered
      BY <2>1, NullAssumption DEF Registered, Idx
    <3>2. chain[k] = Chained(k) /\ -1 \notin Idx
      BY <3>1 DEF Idx
    <3>3. chain[k] = inherit_idx[k]
      BY <2>1, <3>2 DEF Chained
    <3>4. QED
      BY <3>3 DEF MapOK
  <2>2. QED
    BY <2>1 DEF ChainDown
<1> DEFINE Bad == {k \in Registered : ~ InstanceUpTo(k)}
<1>2. ASSUME Bad # {} PROVE FALSE
  <2>1. PICK k \in Bad : \A y \in Bad : k <= y
    <3>1. Bad \in SUBSET Nat
      BY <1>0
    <3> HIDE DEF Bad
    <3>2. QED
      BY <1>2, <3>1, LeastExists
  <2>2. k \in Registered /\ k \in Idx /\ ~InstanceUpTo(k) /\ k \in Nat
    BY <1>0, <2>1
  <2>3. PICK l : l = Lineage[k]
    OBVIOUS
  <2>4. LineageOf(k, l) /\ l \in Seq(Idx) /\ Len(l) \in Nat \ {0} /\ l[1] = k
    <3>1. LineageOf(k, l)
      BY <2>2, <2>3, LineageFacts
    <3>2. QED
      BY <3>1, LenProperties DEF LineageOf
  <2>5. ASSUME NEW n \in 1 .. Len(l)
        PROVE  InstanceOf(k, l[n]) <=> \A m \in 1 .. n : l[m] \in Registered
    <3>1. Walk[k] = {k} \cup IF chain[k] \in Idx THEN Walk[chain[k]] ELSE {}
      BY <1>1, <2>2, WalkDef
    <3>2. CASE n = 1
      <4>1. \A m \in 1 .. 1 : m = 1
        OBVIOUS
      <4>2. k \in Walk[k]
        BY <3>1
      <4>3. QED
        BY <2>2, <2>4, <3>2, <4>1, <4>2 DEF InstanceOf
    <3>3. CASE n # 1
      <4>1. PICK p \in Idx : p = l[2] /\ p = inherit_idx[k]
        <5>1. 1 < Len(l) /\ 2 \in 1 .. Len(l) /\ 1 \in 1 .. Len(l) /\ 1 + 1 = 2
          BY <2>4, <3>3
        <5>2. inherit_idx[l[1]] = l[1+1]
          BY <2>4, <5>1 DEF LineageOf
        <5>3. l[2] \in Idx
          BY <2>4, <5>1, ElementOfSeq
        <5>4. QED
          BY <2>4, <5>1, <5>2, <5>3
      <4>2. l[n] \in Idx /\ l[n] # k
        <5>1. l[n] \in Idx /\ l[n] < k
          BY <2>4, <3>3, ElementOfSeq DEF LineageOf
        <5>2. QED
          BY <2>2, <5>1, IdxInt
      <4>3. chain[k] = IF p \in Registered THEN p ELSE -1
        BY <2>2, <4>1 DEF Chained
      <4>4. CASE p \notin Registered
        <5>1. Walk[k] = {k}
          BY <3>1, <4>3, <4>4 DEF Idx
        <5>2. 2 \in 1 .. n
          BY <3>3
        <5>3. QED
          BY <4>1, <4>2, <4>4, <5>1, <5>2 DEF InstanceOf
      <4>5. CASE p \in Registered
        <5>1. Walk[k] = {k} \cup Walk[p]
          BY <3>1, <4>3, <4>5, <1>0
        <5>2. InstanceOf(k, l[n]) <=> InstanceOf(p, l[n])
          BY <4>2, <5>1 DEF InstanceOf
        <5>3. PICK t : t = Lineage[p]
          OBVIOUS
        <5>4. Len(t) = Len(l) - 1 /\ \A j \in 1 .. Len(l) - 1 : t[j] = l[j + 1]
          <6>1. 2 \in 1 .. Len(l)
            BY <2>4, <3>3
          <6>2. Len(t) = Len(l) + 1 - 2 /\ \A j \in 1 .. Len(l) + 1 - 2 : t[j] = l[2 + j - 1]
            BY <2>4, <4>1, <5>3, <6>1 DEF LineageOf
          <6>3. Len(l) + 1 - 2 = Len(l) - 1 /\ \A j \in 1 .. Len(l) - 1 : 2 + j - 1 = j + 1
            BY <2>4
          <6>4. QED
            BY <6>2, <6>3
        <5>5. InstanceUpTo(p)
          <6>1. p < k /\ p \in Nat
            BY <2>2, <4>1, IdxInt DEF MapOK
          <6>2. ~ (k <= p)
            BY <2>2, <6>1
          <6>3. p \notin Bad
            BY <2>1, <6>2
          <6>4. QED
            BY <4>5, <6>3
        <5>6. n - 1 \in 1 .. Len(t) /\ n - 1 + 1 = n
          BY <2>4, <3>3, <5>4
        <5>7. InstanceOf(p, l[n]) <=> \A m \in 1 .. n - 1 : t[m] \in Registered
          <6>1. InstanceOf(p, t[n - 1]) <=> \A m \in 1 .. n - 1 : t[m] \in Registered
            BY <5>3, <5>5, <5>6, Zenon DEF InstanceUpTo
          <6>2. t[n - 1] = l[n]
            BY <5>4, <5>6
          <6>3. QED
            BY <6>1, <6>2
        <5>8. (\A m \in 1 .. n - 1 : t[m] \in Registered)
                <=> \A m \in 1 .. n : l[m] \in Registered
          <6>1. \A m \in 1 .. n - 1 : t[m] = l[m + 1] /\ m + 1 \in 1 .. n
            BY <2>4, <5>4, <5>6
          <6>2. \A m \in 1 .. n : m = 1 \/ (m - 1 \in 1 .. n - 1 /\ m - 1 + 1 = m)
            OBVIOUS
          <6>3. l[1] \in Registered
            BY <2>2, <2>4
          <6>4. ASSUME \A m \in 1 .. n - 1 : t[m] \in Registered, NEW m \in 1 .. n
                PROVE  l[m] \in Registered
            BY <6>1, <6>2, <6>3, <6>4
          <6>5. ASSUME \A m \in 1 .. n : l[m] \in Registered, NEW m \in 1 .. n - 1
                PROVE  t[m] \in Registered
            BY <6>1, <6>5
          <6>6. QED
            BY <6>4, <6>5
        <5>9. QED
          BY <5>2, <5>7, <5>8
      <4>6. QED
        BY <4>4, <4>5
    <3>4. QED
      BY <3>2, <3>3
  <2>6. QED
    BY <2>2, <2>3, <2>5 DEF InstanceUpTo
<1>3. QED
  BY <1>2

(* What dukky_instanceof answers, and what the global object is given. *)
LEMMA InstanceFollows ==
  ASSUME MapOK, PrototypesOK
  PROVE  InstanceOfAncestors
<1> SUFFICES ASSUME ChildlessGlobal, OneGlobal
             PROVE  /\ \A k \in Registered : \A n \in DOMAIN Lineage[k] :
                         InstanceOf(k, Lineage[k][n])
                           <=> \A m \in 1 .. n : Lineage[k][m] \in Registered
                    /\ \A k \in Registered :
                         primary_global[k] => injected = [i \in Interfaces |-> i \in Registered]
  BY DEF InstanceOfAncestors
<1>1. /\ chain \in [Idx -> Idx \cup {-1, Null}]
      /\ \A k \in Registered : chain[k] = Chained(k)
      /\ \A k \in Registered :
           primary_global[k] => injected = [i \in Interfaces |-> i \in Registered]
  BY DEF PrototypesOK
<1>2. \A k \in Registered : InstanceUpTo(k)
  BY <1>1, InstanceByLineage
<1>3. \A k \in Registered : DOMAIN Lineage[k] = 1 .. Len(Lineage[k])
  BY LineageFacts, LenProperties DEF LineageOf, Registered
<1>4. QED
  BY <1>1, <1>2, <1>3 DEF InstanceUpTo

-----------------------------------------------------------------------------
(* The state of the run of the back end is what it should be. *)
THEOREM OutputTypes == LifecycleSpec => []TypeOK
<1>1. ASSUME IInv PROVE TypeOK
  <2>1. MapOK /\ SourcesOK /\ HeadersOK /\ NAssumption
    BY <1>1, NAssumption DEF IInv
  <2>2. Creations \in Seq(Idx) /\ GeneratedSeq \in Seq(Idx)
    BY <2>1, CreationFacts, GeneratedList DEF ListOf
  <2>3. /\ binding # Null => binding \in Seq(Idx)
        /\ makefile # Null => makefile \in Seq(Idx)
    BY <2>1, <2>2 DEF HeadersOK
  <2>4. \A k \in Idx : idx <= k => source[k] = Null \/ source[k].torn
    BY <2>1 DEF SourcesOK, Idx
  <2>5. QED
    BY <2>1, <2>3, <2>4 DEF TypeOK, MapOK, SourcesOK
<1>2. QED
  BY <1>1, LifecycleInvariant, PTL

(* private.h defines the structure of a parent before that of its child
   embeds it, in every map in which no noobject interface is a parent. *)
THEOREM StructsInOrder == LifecycleSpec => []StructsDefinedFirst
BY LifecycleInvariant, StructsFollow, PTL DEF IInv

(* What a class calls of its parent is listed in the Makefile, not static
   and declared with as many parameters, in every map of any size: the three
   places that decide on the refcount agree. *)
THEOREM CallsOfTheParentResolve == LifecycleSpec => []CallsResolve
BY LifecycleInvariant, CallsFollow, PTL DEF IInv

(* A parent with one parameter is given it or the class is refused, for all
   parameter lists. *)
THEOREM OneParameterIsPassed == LifecycleSpec => []ParentInitialisedByOne
BY LifecycleInvariant, PassedFollow, PTL DEF IInv

(* A Makefile never lists a source that was not generated or was left off. *)
THEOREM MakefileOfWholeSources == LifecycleSpec => []MakefileLast
BY LifecycleInvariant, MakefileFollows, PTL DEF IInv

(* Exit code 0 means that every file has been generated to its end, lost on
   its way to the disk or not, and 1 to 7 that none has been touched. *)
THEOREM ExitCodeIsRight == LifecycleSpec => []ExitTellsOutcome
BY LifecycleInvariant, ExitFollows, PTL DEF IInv

(* An object is an instance of an ancestor unless a prototype on the way has
   failed, for lineages of any length. *)
THEOREM InstancesOfAncestors == LifecycleSpec => []InstanceOfAncestors
BY LifecycleInvariant, InstanceFollows, PTL DEF IInv

(* The code of an init method runs after that of all ancestors. *)
THEOREM AncestorsInitialised == LifecycleSpec => []AncestryInitialised
BY LifecycleInvariant, AncestryFollows, PTL DEF IInv, LowerOK

(* The finalisers run up to the root, and the private data is freed after
   the last one. *)
THEOREM FinalisersReachTheRoot == LifecycleSpec => []FinalisedToTheRoot
BY LifecycleInvariant, FinalisedFollows, PTL DEF IInv, LowerOK
=============================================================================

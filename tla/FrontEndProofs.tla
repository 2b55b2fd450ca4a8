--------------------------- MODULE FrontEndProofs ----------------------------
(***************************************************************************)
(* The front end is right about every text: what the files say about an    *)
(* interface ends up in its one node, and after the walk the interface has *)
(* the members of all that it implements.                                  *)
(*                                                                         *)
(* The walk first, on its own: the recursion is right about every          *)
(* implements relation of any number of interfaces, circular ones included *)
(* as far as the stack takes them.                                         *)
(*                                                                         *)
(* What an interface will have in the end is, at any time, what it has     *)
(* already and what the interfaces named by its remaining nodes reach.  A  *)
(* call on an interface that is over leaves it with no node, so that all   *)
(* it reaches is in its lists when the caller copies them.  No two active  *)
(* calls are on the caller that unlinks: the other one would have an       *)
(* active call on the interface whose nodes are all gone.                  *)
(*                                                                         *)
(* An interface has its members from itself and from the nodes that are    *)
(* gone, the first of those declared.  If it can reach another one along   *)
(* one path only, the node at hand cannot bring it a second time.          *)
(*                                                                         *)
(* Then the text: no two nodes have a name, every definition has a node, a *)
(* node was made by the first definition about it, and its parts are those *)
(* of the definitions so far.  That is so in every state; when the walk    *)
(* begins, the names are replaced by the places of the nodes, and what can *)
(* be reached along places is what the text says is implemented.  The walk *)
(* visits every interface, and the call of each leaves it no IMPLEMENTS    *)
(* node, so that in the end no interface lacks anything.                   *)
(***************************************************************************)
EXTENDS FrontEnd, FiniteSetTheorems, SequenceTheorems, WellFoundedInduction, TLAPS

(* A non-empty set of naturals has a least element: the loops that walk an
   array from index 0 stop at the first element they accept. *)
LEMMA LeastExists ==
  ASSUME NEW T \in SUBSET Nat, T # {}
  PROVE  \E x \in T : \A y \in T : x <= y
<1>1. PICK x \in T : \A y \in T : ~ (<<y, x>> \in OpToRel(<, Nat))
  BY NatLessThanWellFounded, WFMin, Zenon
<1>2. \A y \in T : ~ (y < x)
  BY <1>1, Zenon DEF OpToRel
<1>3. QED
  BY <1>2
-----------------------------------------------------------------------------

(* the IMPLEMENTS nodes left are among those declared *)
LinksInv == \A a \in Iface : ToSet(implements[a]) \subseteq ToSet(declared[a])

(* what the nodes left of an interface reach *)
ToCome(a) == UNION {Reach(b) : b \in ToSet(implements[a]) \cap Iface}

MembersInv == \A a \in Iface : Reach(a) \subseteq ToSet(lists[a]) \cup ToCome(a)

OverflowInv == pc = "overflow" => Len(stack) = MaxDepth

IInv == TypeOK /\ LinksInv /\ CallsPending /\ MembersInv /\ OnlyImplemented /\ OverflowInv

-----------------------------------------------------------------------------
(* Sequences as sets of their members.                                     *)

LEMMA ToSetTail ==
  ASSUME NEW S, NEW s \in Seq(S), s # <<>>
  PROVE  /\ Head(s) \in S /\ Tail(s) \in Seq(S)
         /\ ToSet(s) = {Head(s)} \cup ToSet(Tail(s))
<1>1. /\ Head(s) \in S /\ Tail(s) \in Seq(S)
      /\ Len(s) \in Nat \ {0} /\ Len(Tail(s)) = Len(s) - 1
      /\ Head(s) = s[1]
      /\ \A k \in 1 .. Len(Tail(s)) : Tail(s)[k] = s[k + 1]
  BY HeadTailProperties, EmptySeq
<1>2. ToSet(s) \subseteq {Head(s)} \cup ToSet(Tail(s))
  <2> SUFFICES ASSUME NEW x \in ToSet(s), x # Head(s) PROVE x \in ToSet(Tail(s))
    OBVIOUS
  <2>1. PICK k \in 1 .. Len(s) : x = s[k]
    BY DEF ToSet
  <2>2. k # 1 /\ k \in Nat
    BY <1>1, <2>1
  <2>3. k - 1 \in 1 .. Len(Tail(s)) /\ (k - 1) + 1 = k
    BY <1>1, <2>1, <2>2
  <2>4. Tail(s)[k - 1] = x
    BY <1>1, <2>1, <2>3
  <2>5. k - 1 \in DOMAIN Tail(s)
    BY <1>1, <2>3
  <2>6. QED
    BY <2>4, <2>5 DEF ToSet
<1>3. Head(s) \in ToSet(s)
  <2>1. 1 \in DOMAIN s
    BY <1>1
  <2>2. QED
    BY <1>1, <2>1 DEF ToSet
<1>4. ToSet(Tail(s)) \subseteq ToSet(s)
  <2> SUFFICES ASSUME NEW k \in 1 .. Len(Tail(s)) PROVE Tail(s)[k] \in ToSet(s)
    BY <1>1 DEF ToSet
  <2>1. k + 1 \in DOMAIN s
    BY <1>1
  <2>2. QED
    BY <1>1, <2>1 DEF ToSet
<1>5. QED
  BY <1>1, <1>2, <1>3, <1>4

LEMMA ToSetCopied ==
  ASSUME NEW S, NEW s \in Seq(S), NEW t \in Seq(S)
  PROVE  /\ s \o Reverse(t) \in Seq(S)
         /\ ToSet(s \o Reverse(t)) = ToSet(s) \cup ToSet(t)
<1> DEFINE r == Reverse(t)
           u == s \o r
<1>1. Len(s) \in Nat /\ Len(t) \in Nat
  OBVIOUS
<1>2. ASSUME NEW k \in 1 .. Len(t)
      PROVE  Len(t) - k + 1 \in 1 .. Len(t) /\ Len(t) - (Len(t) - k + 1) + 1 = k
  BY <1>1
<1>3. /\ r \in Seq(S) /\ Len(r) = Len(t)
      /\ \A k \in 1 .. Len(t) : r[k] = t[Len(t) - k + 1]
  <2>1. r = [k \in 1 .. Len(t) |-> t[Len(t) - k + 1]]
    BY DEF Reverse
  <2>2. \A k \in 1 .. Len(t) : t[Len(t) - k + 1] \in S
    BY <1>2, ElementOfSeq
  <2>3. r \in [1 .. Len(t) -> S]
    BY <2>1, <2>2
  <2>4. QED
    BY <1>1, <2>1, <2>3
<1> HIDE DEF r
<1>4. /\ u \in Seq(S) /\ Len(u) = Len(s) + Len(t)
      /\ \A k \in 1 .. Len(s) + Len(t) :
           u[k] = IF k <= Len(s) THEN s[k] ELSE r[k - Len(s)]
  <2>1. r \in Seq(S)
    BY <1>3
  <2>2. /\ u \in Seq(S) /\ Len(u) = Len(s) + Len(r)
        /\ \A k \in 1 .. Len(s) + Len(r) :
             u[k] = IF k <= Len(s) THEN s[k] ELSE r[k - Len(s)]
    BY <2>1, ConcatProperties
  <2>3. QED
    BY <1>3, <2>2
<1> HIDE DEF u
<1>5. DOMAIN s = 1 .. Len(s) /\ DOMAIN t = 1 .. Len(t) /\ DOMAIN u = 1 .. Len(u)
  BY <1>4
<1>6. ToSet(u) \subseteq ToSet(s) \cup ToSet(t)
  <2> SUFFICES ASSUME NEW k \in 1 .. Len(s) + Len(t) PROVE u[k] \in ToSet(s) \cup ToSet(t)
    BY <1>4, <1>5 DEF ToSet
  <2>1. CASE k <= Len(s)
    <3>1. k \in DOMAIN s /\ u[k] = s[k]
      BY <1>1, <1>4, <1>5, <2>1
    <3>2. QED
      BY ONLY <3>1 DEF ToSet
  <2>2. CASE k > Len(s)
    <3>1. k - Len(s) \in 1 .. Len(t) /\ u[k] = r[k - Len(s)]
      BY <1>1, <1>4, <2>2
    <3>2. u[k] = t[Len(t) - (k - Len(s)) + 1]
      BY <1>3, <3>1
    <3>3. QED
      BY <1>2, <1>5, <3>1, <3>2 DEF ToSet
  <2>3. QED
    BY <1>1, <2>1, <2>2
<1>7. ToSet(s) \subseteq ToSet(u)
  <2> SUFFICES ASSUME NEW k \in 1 .. Len(s) PROVE s[k] \in ToSet(u)
    BY <1>5 DEF ToSet
  <2>1. k \in 1 .. Len(u) /\ u[k] = s[k]
    BY <1>1, <1>4
  <2>2. QED
    BY <1>5, <2>1 DEF ToSet
<1>8. ToSet(t) \subseteq ToSet(u)
  <2> SUFFICES ASSUME NEW k \in 1 .. Len(t) PROVE t[k] \in ToSet(u)
    BY <1>5 DEF ToSet
  <2> DEFINE m == Len(t) - k + 1
  <2>1. m \in 1 .. Len(t) /\ r[m] = t[k]
    BY <1>2, <1>3
  <2> HIDE DEF m
  <2>2. /\ Len(s) + m \in 1 .. Len(s) + Len(t)
        /\ ~ (Len(s) + m <= Len(s)) /\ (Len(s) + m) - Len(s) = m
    BY <1>1, <2>1
  <2>3. Len(s) + m \in DOMAIN u /\ u[Len(s) + m] = r[m]
    BY <1>4, <1>5, <2>2
  <2>4. QED
    BY <2>1, <2>3 DEF ToSet
<1>9. QED
  BY <1>4, <1>6, <1>7, <1>8 DEF u, r

-----------------------------------------------------------------------------
(* Reach is the least set with an interface and what its members implement. *)

LEMMA ReachLeast ==
  ASSUME NEW a \in Iface
  PROVE  /\ a \in Reach(a) /\ Reach(a) \subseteq Iface /\ Closed(Reach(a))
         /\ \A S \in SUBSET Iface : a \in S /\ Closed(S) => Reach(a) \subseteq S
BY DEF Reach, Closed

(* What an interface implements reaches no further than itself. *)
LEMMA ReachStep ==
  ASSUME NEW a \in Iface, NEW b \in ToSet(declared[a]) \cap Iface
  PROVE  Reach(b) \subseteq Reach(a)
<1>1. b \in Reach(a)
  BY ReachLeast DEF Closed
<1>2. QED
  BY <1>1, ReachLeast

(* An interface reaches itself and what those it implements reach. *)
LEMMA ReachUnfold ==
  ASSUME NEW a \in Iface
  PROVE  Reach(a) \subseteq {a} \cup UNION {Reach(b) : b \in ToSet(declared[a]) \cap Iface}
<1> DEFINE S == {a} \cup UNION {Reach(b) : b \in ToSet(declared[a]) \cap Iface}
<1>1. S \in SUBSET Iface /\ a \in S
  BY ReachLeast
<1>2. Closed(S)
  <2> SUFFICES ASSUME NEW c \in S, NEW d \in ToSet(declared[c]) \cap Iface PROVE d \in S
    BY DEF Closed
  <2>1. CASE c = a
    <3>1. d \in Reach(d)
      BY ReachLeast
    <3>2. QED
      BY <2>1, <3>1
  <2>2. CASE c # a
    <3>1. PICK b \in ToSet(declared[a]) \cap Iface : c \in Reach(b)
      BY <2>2
    <3>2. d \in Reach(b)
      BY <3>1, ReachLeast DEF Closed
    <3>3. QED
      BY <3>2
  <2>3. QED
    BY <2>1, <2>2
<1> HIDE DEF S
<1>3. Reach(a) \subseteq S
  BY <1>1, <1>2, ReachLeast
<1>4. QED
  BY <1>3 DEF S

(* The IDL does not change under the walk, and so what is reached. *)
LEMMA ReachConstant ==
  ASSUME declared' = declared
  PROVE  \A a : Reach(a)' = Reach(a)
BY DEF Reach, Closed

(* Top and Caller are the last two positions of the stack. *)
LEMMA StackEnds ==
  ASSUME TypeOK, stack # <<>>
  PROVE  /\ Len(stack) \in Nat \ {0}
         /\ \A k \in 1 .. Len(stack) : stack[k] \in Iface
         /\ Top = stack[Len(stack)] /\ Top \in Iface
         /\ Front(stack) \in Seq(Iface) /\ Len(Front(stack)) = Len(stack) - 1
         /\ \A k \in 1 .. Len(stack) - 1 : Front(stack)[k] = stack[k]
         /\ Len(stack) > 1 => Caller = stack[Len(stack) - 1] /\ Caller \in Iface
<1>1. stack \in Seq(Iface) /\ Len(stack) \in Nat \ {0}
  BY EmptySeq DEF TypeOK
<1>2. \A k \in 1 .. Len(stack) : stack[k] \in Iface
  BY <1>1, ElementOfSeq
<1>3. Top = stack[Len(stack)] /\ Top \in Iface
  BY <1>1, <1>2 DEF Top, Last
<1> DEFINE n == Len(stack) - 1
<1>4. n \in Nat /\ 1 \in Int /\ \A k \in 1 .. n : stack[k] \in Iface
  BY <1>1, <1>2
<1> HIDE DEF n
<1>5. /\ SubSeq(stack, 1, n) \in Seq(Iface)
      /\ Len(SubSeq(stack, 1, n)) = IF 1 <= n THEN n - 1 + 1 ELSE 0
      /\ \A k \in 1 .. n - 1 + 1 : SubSeq(stack, 1, n)[k] = stack[1 + k - 1]
  BY <1>4, SubSeqProperties
<1>6. Front(stack) = SubSeq(stack, 1, n)
  BY DEF Front, n
<1>7. /\ Front(stack) \in Seq(Iface) /\ Len(Front(stack)) = n
      /\ \A k \in 1 .. n : Front(stack)[k] = stack[k]
  <2>1. \A k \in 1 .. n : k \in 1 .. n - 1 + 1 /\ 1 + k - 1 = k
    BY <1>4
  <2>2. Len(SubSeq(stack, 1, n)) = n
    BY <1>4, <1>5
  <2>3. QED
    BY <1>5, <1>6, <2>1, <2>2
<1>8. n > 0 => Caller = stack[n] /\ Caller \in Iface
  <2>1. n > 0 => n \in 1 .. n
    BY <1>4
  <2>2. QED
    BY <1>4, <1>7, <2>1 DEF Caller, Last
<1>9. QED
  BY <1>1, <1>2, <1>3, <1>7, <1>8 DEF n

(* A call was made for an interface its caller implements. *)
LEMMA CallsImplemented ==
  ASSUME TypeOK, LinksInv, CallsPending, NEW k \in 1 .. Len(stack) - 1
  PROVE  /\ stack[k] \in Iface /\ stack[k+1] \in Iface
         /\ implements[stack[k]] \in Seq(Iface \cup {Undeclared})
         /\ implements[stack[k]] # <<>>
         /\ Head(implements[stack[k]]) = stack[k+1]
         /\ stack[k+1] \in ToSet(implements[stack[k]])
         /\ stack[k+1] \in ToSet(declared[stack[k]]) \cap Iface
<1>1. k \in 1 .. Len(stack) /\ k + 1 \in 1 .. Len(stack)
  BY DEF TypeOK
<1>2. stack[k] \in Iface /\ stack[k+1] \in Iface
  BY <1>1, ElementOfSeq DEF TypeOK
<1>3. implements[stack[k]] # <<>> /\ Head(implements[stack[k]]) = stack[k+1]
  BY DEF CallsPending
<1>4. implements[stack[k]] \in Seq(Iface \cup {Undeclared})
  BY <1>2 DEF TypeOK
<1>5. stack[k+1] \in ToSet(implements[stack[k]])
  BY <1>3, <1>4, ToSetTail
<1>6. QED
  BY <1>2, <1>3, <1>4, <1>5 DEF LinksInv

-----------------------------------------------------------------------------
LEMMA InitInv == Init => IInv
<1> SUFFICES ASSUME Init PROVE IInv
  OBVIOUS
<1>1. TypeOK
  <2>1. \A a \in Iface : <<a>> \in Seq(Iface)
    OBVIOUS
  <2>2. /\ stack \in Seq(Iface) /\ Len(stack) = 0
        /\ 0 <= MaxDepth /\ 1 \in 1 .. N + 1
    BY NAssumption, MaxDepthAssumption DEF Init
  <2>3. QED
    BY <2>1, <2>2 DEF Init, TypeOK
<1>2. LinksInv
  BY DEF Init, LinksInv
<1>3. CallsPending
  <2>1. 1 .. Len(stack) - 1 = {}
    BY DEF Init
  <2>2. QED
    BY <2>1 DEF CallsPending
<1>4. ASSUME NEW a \in Iface PROVE ToSet(lists[a]) = {a}
  <2>1. lists[a] = <<a>>
    BY DEF Init
  <2>2. DOMAIN <<a>> = {1} /\ <<a>>[1] = a
    OBVIOUS
  <2>3. QED
    BY <2>1, <2>2 DEF ToSet
<1>5. MembersInv
  <2>1. \A a \in Iface : ToCome(a) = UNION {Reach(b) : b \in ToSet(declared[a]) \cap Iface}
    BY DEF Init, ToCome
  <2>2. QED
    BY <1>4, <2>1, ReachUnfold DEF MembersInv
<1>6. OnlyImplemented
  BY <1>4, ReachLeast DEF OnlyImplemented
<1>7. OverflowInv
  BY DEF Init, OverflowInv
<1>8. QED
  BY <1>1, <1>2, <1>3, <1>5, <1>6, <1>7 DEF IInv

(* As long as neither nodes nor lists change, only the stack is in question. *)
LEMMA NodesUnchanged ==
  ASSUME IInv, UNCHANGED <<declared, implements, lists>>
  PROVE  LinksInv' /\ MembersInv' /\ OnlyImplemented'
<1>1. \A a : Reach(a)' = Reach(a)
  BY ReachConstant
<1>2. \A a : ToCome(a)' = ToCome(a)
  BY <1>1 DEF ToCome
<1>3. QED
  BY <1>1, <1>2 DEF IInv, LinksInv, MembersInv, OnlyImplemented

LEMMA VisitKeepsInv == IInv /\ Visit => IInv'
<1> SUFFICES ASSUME IInv, Visit PROVE IInv'
  OBVIOUS
<1>1. LinksInv' /\ MembersInv' /\ OnlyImplemented'
  BY NodesUnchanged DEF Visit
<1>2. next \in Iface /\ next + 1 \in 1 .. N + 1 /\ 1 <= MaxDepth
  BY NAssumption, MaxDepthAssumption DEF IInv, TypeOK, Visit, Iface
<1>3. stack' = <<next>> /\ stack' \in Seq(Iface) /\ Len(stack') = 1
  BY <1>2 DEF Visit
<1>4. TypeOK'
  BY <1>2, <1>3 DEF IInv, TypeOK, Visit
<1>5. CallsPending'
  <2>1. 1 .. Len(stack') - 1 = {}
    BY <1>3
  <2>2. QED
    BY <2>1 DEF CallsPending
<1>6. OverflowInv'
  BY DEF Visit, OverflowInv
<1>7. QED
  BY <1>1, <1>4, <1>5, <1>6 DEF IInv

LEMMA WalkEndKeepsInv == IInv /\ WalkEnd => IInv'
<1> SUFFICES ASSUME IInv, WalkEnd PROVE IInv'
  OBVIOUS
<1>1. LinksInv' /\ MembersInv' /\ OnlyImplemented'
  BY NodesUnchanged DEF WalkEnd
<1>2. TypeOK' /\ CallsPending' /\ OverflowInv'
  BY DEF IInv, WalkEnd, TypeOK, CallsPending, OverflowInv
<1>3. QED
  BY <1>1, <1>2 DEF IInv

LEMMA RecurseKeepsInv == IInv /\ Recurse => IInv'
<1> SUFFICES ASSUME IInv, Recurse PROVE IInv'
  OBVIOUS
<1> DEFINE b == Head(implements[Top])
<1>1. /\ pc = "walk" /\ stack # <<>> /\ implements[Top] # <<>> /\ b \in Iface
      /\ UNCHANGED <<declared, implements, lists, next>>
  BY DEF Recurse
<1>2. LinksInv' /\ MembersInv' /\ OnlyImplemented'
  BY <1>1, NodesUnchanged
<1>3. CASE Len(stack) < MaxDepth
  <2>1. stack' = Append(stack, b) /\ pc' = pc
    BY <1>3 DEF Recurse
  <2> HIDE DEF b
  <2>2. stack \in Seq(Iface) /\ Len(stack) \in Nat \ {0}
    BY <1>1, StackEnds DEF IInv, TypeOK
  <2>3. /\ stack' \in Seq(Iface) /\ Len(stack') = Len(stack) + 1
        /\ \A k \in 1 .. Len(stack) : stack'[k] = stack[k]
        /\ stack'[Len(stack) + 1] = b
    BY <1>1, <2>1, <2>2, AppendProperties
  <2>4. TypeOK'
    <3>1. TypeOK
      BY DEF IInv
    <3>2. stack' \in Seq(Iface) /\ Len(stack') <= MaxDepth
      BY ONLY <1>3, <2>2, <2>3, MaxDepthAssumption
    <3>3. QED
      BY ONLY <1>1, <2>1, <3>1, <3>2 DEF TypeOK
  <2>5. ASSUME NEW k \in 1 .. Len(stack') - 1
        PROVE  implements[stack'[k]] # <<>> /\ Head(implements[stack'[k]]) = stack'[k+1]
    <3>1. CASE k = Len(stack)
      <4>1. stack'[k] = Top /\ stack'[k+1] = b
        BY <1>1, <2>2, <2>3, <3>1, StackEnds DEF IInv
      <4>2. QED
        BY <1>1, <4>1 DEF b
    <3>2. CASE k # Len(stack)
      <4>1. k \in 1 .. Len(stack) - 1 /\ k \in 1 .. Len(stack) /\ k + 1 \in 1 .. Len(stack)
        BY <2>2, <2>3, <3>2
      <4>2. stack'[k] = stack[k] /\ stack'[k+1] = stack[k+1]
        BY <2>3, <4>1
      <4>3. QED
        BY <4>1, <4>2 DEF IInv, CallsPending
    <3>3. QED
      BY <3>1, <3>2
  <2>6. CallsPending'
    BY <1>1, <2>5 DEF CallsPending
  <2>7. OverflowInv'
    BY <1>1, <2>1 DEF OverflowInv
  <2>8. QED
    BY <1>2, <2>4, <2>6, <2>7 DEF IInv
<1>4. CASE ~ (Len(stack) < MaxDepth)
  <2>1. stack' = stack /\ pc' = "overflow"
    BY <1>4 DEF Recurse
  <2>2. Len(stack) \in Nat /\ Len(stack) <= MaxDepth /\ MaxDepth \in Nat
    BY MaxDepthAssumption DEF IInv, TypeOK
  <2>3. TypeOK' /\ CallsPending'
    BY <1>1, <2>1 DEF IInv, TypeOK, CallsPending
  <2>4. OverflowInv'
    BY <1>4, <2>1, <2>2 DEF OverflowInv
  <2>5. QED
    BY <1>2, <2>3, <2>4 DEF IInv
<1>5. QED
  BY <1>3, <1>4

(* What is unlinked is no interface: nothing was to come from it, and no
   call can be pending on it. *)
LEMMA SkipUndeclaredKeepsInv == IInv /\ SkipUndeclared => IInv'
<1> SUFFICES ASSUME IInv, SkipUndeclared PROVE IInv'
  OBVIOUS
<1>1. /\ pc = "walk" /\ stack # <<>> /\ implements[Top] # <<>>
      /\ Head(implements[Top]) \notin Iface
      /\ implements' = [implements EXCEPT ![Top] = Tail(@)]
      /\ UNCHANGED <<declared, lists, stack, next, pc>>
  BY DEF SkipUndeclared
<1>2. Top \in Iface /\ implements[Top] \in Seq(Iface \cup {Undeclared})
  BY <1>1, StackEnds DEF IInv, TypeOK
<1>3. /\ Tail(implements[Top]) \in Seq(Iface \cup {Undeclared})
      /\ ToSet(implements[Top]) = {Head(implements[Top])} \cup ToSet(Tail(implements[Top]))
  BY <1>1, <1>2, ToSetTail
<1>4. /\ implements'[Top] = Tail(implements[Top])
      /\ \A a \in Iface : a # Top => implements'[a] = implements[a]
  BY <1>1, <1>2 DEF IInv, TypeOK
<1>5. TypeOK'
  BY <1>1, <1>3 DEF IInv, TypeOK
<1>6. \A a \in Iface : /\ ToSet(implements'[a]) \subseteq ToSet(implements[a])
                       /\ ToSet(implements'[a]) \cap Iface = ToSet(implements[a]) \cap Iface
  BY <1>1, <1>3, <1>4
<1>7. LinksInv'
  BY <1>1, <1>6 DEF IInv, LinksInv
<1>8. \A a : Reach(a)' = Reach(a)
  BY <1>1, ReachConstant
<1>9. \A a \in Iface : ToCome(a)' = ToCome(a)
  BY <1>6, <1>8 DEF ToCome
<1>10. MembersInv' /\ OnlyImplemented'
  BY <1>1, <1>8, <1>9 DEF IInv, MembersInv, OnlyImplemented
<1>11. ASSUME NEW k \in 1 .. Len(stack) - 1
       PROVE  implements'[stack[k]] = implements[stack[k]]
  <2>1. /\ stack[k] \in Iface /\ stack[k+1] \in Iface
        /\ Head(implements[stack[k]]) = stack[k+1]
    BY CallsImplemented DEF IInv
  <2>2. stack[k] # Top
    BY <1>1, <2>1
  <2>3. QED
    BY <1>4, <2>1, <2>2
<1>12. CallsPending'
  <2>1. CallsPending /\ stack' = stack
    BY <1>1 DEF IInv
  <2>2. QED
    BY ONLY <1>11, <2>1 DEF CallsPending
<1>13. OverflowInv'
  BY <1>1 DEF OverflowInv
<1>14. QED
  BY <1>5, <1>7, <1>10, <1>12, <1>13 DEF IInv

(* Top has all it reaches in its lists, so its caller loses nothing with the
   node; and the caller has no other active call below it. *)
LEMMA CopyAndUnlinkKeepsInv == IInv /\ CopyAndUnlink => IInv'
<1> SUFFICES ASSUME IInv, CopyAndUnlink PROVE IInv'
  OBVIOUS
<1> DEFINE t == Top
           c == Caller
           n == Len(stack)
<1>1. /\ pc = "walk" /\ n > 1 /\ implements[t] = <<>>
      /\ lists' = [lists EXCEPT ![c] = Copied(t, c)]
      /\ implements' = [implements EXCEPT ![c] = Tail(@)]
      /\ stack' = Front(stack)
      /\ UNCHANGED <<declared, next, pc>>
  BY DEF CopyAndUnlink
<1>2. stack # <<>>
  BY <1>1
<1>3. /\ n \in Nat \ {0} /\ t = stack[n] /\ t \in Iface
      /\ c = stack[n - 1] /\ c \in Iface
      /\ Front(stack) \in Seq(Iface) /\ Len(Front(stack)) = n - 1
      /\ \A k \in 1 .. n - 1 : Front(stack)[k] = stack[k]
  BY <1>1, <1>2, StackEnds DEF IInv
<1>4. /\ implements[c] \in Seq(Iface \cup {Undeclared}) /\ implements[c] # <<>>
      /\ Head(implements[c]) = t
      /\ t \in ToSet(declared[c]) \cap Iface
  <2>1. n - 1 \in 1 .. n - 1 /\ (n - 1) + 1 = n
    BY <1>1, <1>3
  <2>2. QED
    BY <1>3, <2>1, CallsImplemented DEF IInv
<1>5. /\ Tail(implements[c]) \in Seq(Iface \cup {Undeclared})
      /\ ToSet(implements[c]) = {t} \cup ToSet(Tail(implements[c]))
  BY <1>4, ToSetTail
<1>6. Copied(t, c) \in Seq(Iface) /\ ToSet(Copied(t, c)) = ToSet(lists[c]) \cup ToSet(lists[t])
  <2>1. lists[c] \in Seq(Iface) /\ lists[t] \in Seq(Iface)
    BY <1>3 DEF IInv, TypeOK
  <2>2. QED
    BY <2>1, ToSetCopied DEF Copied
<1> HIDE DEF t, c
<1>7. /\ implements'[c] = Tail(implements[c]) /\ lists'[c] = Copied(t, c)
      /\ \A a \in Iface : a # c => implements'[a] = implements[a] /\ lists'[a] = lists[a]
  BY <1>1, <1>3 DEF IInv, TypeOK
<1>8. \A a : Reach(a)' = Reach(a)
  BY <1>1, ReachConstant
<1>9. TypeOK'
  <2>1. Len(stack') <= MaxDepth
    BY <1>1, <1>3, MaxDepthAssumption DEF IInv, TypeOK
  <2>2. QED
    BY <1>1, <1>3, <1>5, <1>6, <2>1 DEF IInv, TypeOK
<1>10. LinksInv'
  BY <1>1, <1>5, <1>7 DEF IInv, LinksInv
<1>11. MembersInv'
  <2> SUFFICES ASSUME NEW a \in Iface
               PROVE  Reach(a) \subseteq ToSet(lists'[a]) \cup ToCome(a)'
    BY <1>8 DEF MembersInv
  <2>1. Reach(a) \subseteq ToSet(lists[a]) \cup ToCome(a)
    BY DEF IInv, MembersInv
  <2>2. ToCome(a)' = UNION {Reach(b) : b \in ToSet(implements'[a]) \cap Iface}
    BY <1>8 DEF ToCome
  <2>3. CASE a # c
    <3>1. ToCome(a)' = ToCome(a)
      BY <1>7, <2>2, <2>3 DEF ToCome
    <3>2. QED
      BY <1>7, <2>1, <2>3, <3>1
  <2>4. CASE a = c
    <3>1. ToCome(t) = {}
      <4>1. ToSet(implements[t]) = {}
        <5>1. DOMAIN <<>> = {}
          OBVIOUS
        <5>2. QED
          BY <1>1, <5>1 DEF ToSet
      <4>2. QED
        BY <4>1 DEF ToCome
    <3>2. Reach(t) \subseteq ToSet(lists[t])
      BY <1>3, <3>1 DEF IInv, MembersInv
    <3>3. ToCome(a) \subseteq Reach(t) \cup ToCome(a)'
      <4>1. ToSet(implements[a]) = {t} \cup ToSet(implements'[a])
        BY <1>5, <1>7, <2>4
      <4>2. QED
        BY <2>2, <4>1 DEF ToCome
    <3>4. QED
      BY <1>6, <1>7, <2>1, <2>4, <3>2, <3>3
  <2>5. QED
    BY <2>3, <2>4
<1>12. OnlyImplemented'
  <2> SUFFICES ASSUME NEW a \in Iface PROVE ToSet(lists'[a]) \subseteq Reach(a)
    BY <1>8 DEF OnlyImplemented
  <2>1. ToSet(lists[a]) \subseteq Reach(a) /\ ToSet(lists[t]) \subseteq Reach(t)
    BY <1>3 DEF IInv, OnlyImplemented
  <2>2. Reach(t) \subseteq Reach(c)
    BY <1>3, <1>4, ReachStep
  <2>3. QED
    BY <1>6, <1>7, <2>1, <2>2
<1>13. ASSUME NEW k \in 1 .. (n - 1) - 1
       PROVE  /\ k \in 1 .. n - 1 /\ stack'[k] = stack[k] /\ stack'[k+1] = stack[k+1]
              /\ implements'[stack[k]] = implements[stack[k]]
  <2>1. k \in 1 .. n - 1 /\ k + 1 \in 1 .. n - 1
    BY <1>1, <1>3
  <2>2. stack'[k] = stack[k] /\ stack'[k+1] = stack[k+1]
    BY <1>1, <1>3, <2>1
  <2>3. /\ stack[k] \in Iface /\ Head(implements[stack[k]]) = stack[k+1]
        /\ implements[stack[k+1]] # <<>>
    BY <2>1, CallsImplemented DEF IInv
  <2>4. stack[k] # c
    BY <1>1, <1>4, <2>3
  <2>5. QED
    BY <1>7, <2>1, <2>2, <2>3, <2>4
<1>14. CallsPending'
  <2> SUFFICES ASSUME NEW k \in 1 .. Len(stack') - 1
               PROVE  /\ implements'[stack'[k]] # <<>>
                      /\ Head(implements'[stack'[k]]) = stack'[k+1]
    BY DEF CallsPending
  <2>1. k \in 1 .. (n - 1) - 1
    BY <1>1, <1>3
  <2>2. implements[stack[k]] # <<>> /\ Head(implements[stack[k]]) = stack[k+1]
    BY <1>13, <2>1 DEF IInv, CallsPending
  <2>3. QED
    BY <1>13, <2>1, <2>2
<1>15. OverflowInv'
  BY <1>1 DEF OverflowInv
<1>16. QED
  BY <1>9, <1>10, <1>11, <1>12, <1>14, <1>15 DEF IInv

LEMMA ReturnKeepsInv == IInv /\ Return => IInv'
<1> SUFFICES ASSUME IInv, Return PROVE IInv'
  OBVIOUS
<1>1. LinksInv' /\ MembersInv' /\ OnlyImplemented'
  BY NodesUnchanged DEF Return
<1>2. stack' = <<>> /\ UNCHANGED <<declared, implements, lists, next, pc>> /\ pc = "walk"
  BY DEF Return
<1>3. stack' \in Seq(Iface) /\ Len(stack') = 0 /\ 0 <= MaxDepth
  BY <1>2, MaxDepthAssumption
<1>4. TypeOK'
  BY <1>2, <1>3 DEF IInv, TypeOK
<1>5. CallsPending'
  <2>1. 1 .. Len(stack') - 1 = {}
    BY <1>3
  <2>2. QED
    BY <2>1 DEF CallsPending
<1>6. OverflowInv'
  BY <1>2 DEF OverflowInv
<1>7. QED
  BY <1>1, <1>4, <1>5, <1>6 DEF IInv

LEMMA StepKeepsInv == IInv /\ [Next]_vars => IInv'
<1> SUFFICES ASSUME IInv, [Next]_vars PROVE IInv'
  OBVIOUS
<1>1. CASE UNCHANGED vars
  <2>1. LinksInv' /\ MembersInv' /\ OnlyImplemented'
    BY <1>1, NodesUnchanged DEF vars
  <2>2. TypeOK' /\ CallsPending' /\ OverflowInv'
    BY <1>1 DEF vars, IInv, TypeOK, CallsPending, OverflowInv
  <2>3. QED
    BY <2>1, <2>2 DEF IInv
<1>2. CASE Next
  BY <1>2, VisitKeepsInv, WalkEndKeepsInv, RecurseKeepsInv, SkipUndeclaredKeepsInv,
     CopyAndUnlinkKeepsInv, ReturnKeepsInv DEF Next
<1>3. QED
  BY <1>1, <1>2

(* The inductive invariant holds of every reachable state. *)
THEOREM Invariant == Spec => []IInv
BY StepKeepsInv, InitInv, PTL DEF Spec

(* Types, the bound on the depth of the recursion included. *)
THEOREM TypeCorrect == Spec => []TypeOK
<1>1. IInv => TypeOK
  BY DEF IInv
<1>2. QED
  BY <1>1, Invariant, PTL

(* Every active call was made for the first node of its caller, which is
   still linked: looking for the next node from the start is right. *)
THEOREM NodeStaysLinked == Spec => []CallsPending
<1>1. IInv => CallsPending
  BY DEF IInv
<1>2. QED
  BY <1>1, Invariant, PTL

(* No interface ever has the members of one it does not implement. *)
THEOREM NothingForeign == Spec => []OnlyImplemented
<1>1. IInv => OnlyImplemented
  BY DEF IInv
<1>2. QED
  BY <1>1, Invariant, PTL

LEMMA UnlinkedIsComplete == IInv => CompleteWhenUnlinked
<1> SUFFICES ASSUME IInv, NEW a \in Iface, implements[a] = <<>>
             PROVE  ToSet(lists[a]) = Reach(a)
  BY DEF CompleteWhenUnlinked
<1>1. DOMAIN <<>> = {}
  OBVIOUS
<1>2. ToSet(implements[a]) = {}
  BY <1>1 DEF ToSet
<1>3. ToCome(a) = {}
  BY <1>2 DEF ToCome
<1>4. QED
  BY <1>3 DEF IInv, MembersInv, OnlyImplemented

(* An interface without IMPLEMENTS nodes has the members of all it implements,
   directly or not, in whatever order the recursion came to it. *)
THEOREM CompleteToCopy == Spec => []CompleteWhenUnlinked
BY UnlinkedIsComplete, Invariant, PTL

(* A call reaches every interface above it on the stack. *)
LEMMA StackReaches ==
  ASSUME IInv, NEW x \in 1 .. Len(stack), NEW y \in 1 .. Len(stack), x <= y
  PROVE  stack[y] \in Reach(stack[x])
<1> DEFINE Bad == {k \in x .. y : stack[k] \notin Reach(stack[x])}
<1>1. SUFFICES Bad = {}
  <2>1. y \in x .. y
    BY DEF IInv, TypeOK
  <2>2. QED
    BY <1>1, <2>1
<1>2. SUFFICES ASSUME Bad # {} PROVE FALSE
  OBVIOUS
<1>3. Len(stack) \in Nat /\ x \in Nat /\ y \in Nat /\ stack[x] \in Iface
  BY ElementOfSeq DEF IInv, TypeOK
<1>4. Bad \in SUBSET Nat
  BY <1>3
<1>5. PICK k \in Bad : \A m \in Bad : k <= m
  <2> HIDE DEF Bad
  <2>1. QED
    BY <1>2, <1>4, LeastExists
<1>6. k # x
  BY <1>3, ReachLeast
<1>7. k - 1 \in x .. y /\ k - 1 \in 1 .. Len(stack) - 1 /\ (k - 1) + 1 = k /\ ~ (k <= k - 1)
  BY <1>3, <1>6
<1>8. stack[k - 1] \in Reach(stack[x])
  BY <1>5, <1>7
<1>9. stack[k] \in ToSet(declared[stack[k - 1]]) \cap Iface
  BY <1>7, CallsImplemented DEF IInv
<1>10. stack[k] \in Reach(stack[x])
  BY <1>3, <1>8, <1>9, ReachLeast DEF Closed
<1>11. QED
  BY <1>10

(* With more frames on the stack than interfaces an interface is there twice. *)
LEMMA Repetition ==
  ASSUME IInv, Len(stack) = MaxDepth
  PROVE  \E x, y \in 1 .. Len(stack) : x < y /\ stack[x] = stack[y]
<1> DEFINE P == 1 .. MaxDepth
<1>1. MaxDepth \in Nat /\ N \in Nat /\ MaxDepth > N
  BY NAssumption, MaxDepthAssumption
<1>2. IsFiniteSet(P) /\ Cardinality(P) = MaxDepth
  <2>1. 1 \in Int /\ MaxDepth \in Int /\ ~ (1 > MaxDepth) /\ MaxDepth - 1 + 1 = MaxDepth
    BY <1>1
  <2>2. QED
    BY <2>1, FS_Interval
<1>3. IsFiniteSet(Iface) /\ Cardinality(Iface) = N
  <2>1. 1 \in Int /\ N \in Int /\ (1 > N => N = 0) /\ N - 1 + 1 = N
    BY <1>1
  <2>2. IsFiniteSet(1 .. N) /\ Cardinality(1 .. N) = N
    BY <2>1, FS_Interval
  <2>3. QED
    BY <2>2 DEF Iface
<1>4. stack \in [P -> Iface]
  BY DEF IInv, TypeOK
<1> HIDE DEF P
<1>5. PICK x, y \in P : x # y /\ stack[x] = stack[y]
  <2>1. Cardinality(Iface) < Cardinality(P)
    BY <1>1, <1>2, <1>3
  <2>2. QED
    BY <1>2, <1>3, <1>4, <2>1, FS_PigeonHole
<1>6. x < y \/ y < x
  BY <1>1, <1>5 DEF P
<1>7. P = 1 .. Len(stack)
  BY DEF P
<1>8. QED
  BY <1>5, <1>6, <1>7

(* The stack runs out only when the IDL implements in a circle: it takes one
   frame more than there are interfaces, however they implement each other. *)
THEOREM OverflowIsCircular == Spec => []OverflowOnlyIfCircular
<1>1. IInv => OverflowOnlyIfCircular
  <2> SUFFICES ASSUME IInv, pc = "overflow" PROVE Circular
    BY DEF OverflowOnlyIfCircular
  <2>1. PICK x, y \in 1 .. Len(stack) : x < y /\ stack[x] = stack[y]
    BY Repetition DEF IInv, OverflowInv
  <2>2. /\ x \in 1 .. Len(stack) - 1 /\ x + 1 \in 1 .. Len(stack) /\ x + 1 <= y
    BY <2>1 DEF IInv, TypeOK
  <2>3. stack[x] \in Iface /\ stack[x+1] \in ToSet(declared[stack[x]]) \cap Iface
    BY <2>2, CallsImplemented DEF IInv
  <2>4. stack[x] \in Reach(stack[x+1])
    BY <2>1, <2>2, StackReaches
  <2>5. QED
    BY <2>3, <2>4 DEF Circular
<1>2. QED
  BY <1>1, Invariant, PTL

-----------------------------------------------------------------------------
(* The nodes gone from an interface are the first of those declared, and it
   has its members from them. *)
Unlinked(a) == Len(declared[a]) - Len(implements[a])

OriginInv ==
  \A a \in Iface :
    /\ Unlinked(a) \in Nat
    /\ \A k \in 1 .. Len(implements[a]) : implements[a][k] = declared[a][Unlinked(a) + k]
    /\ \A b \in ToSet(lists[a]) : b # a =>
         \E k \in 1 .. Unlinked(a) : declared[a][k] \in Iface /\ b \in Reach(declared[a][k])

(* at most one copy of a list in s *)
Once(s, b) == \A k, m \in 1 .. Len(s) : s[k] = b /\ s[m] = b => k = m

(* What is once in the list copied or in the list it is added to, and not in
   both, is once in the result. *)
LEMMA OnceCopied ==
  ASSUME NEW S, NEW s \in Seq(S), NEW t \in Seq(S), NEW b,
         Once(s, b), Once(t, b), b \notin ToSet(s) \/ b \notin ToSet(t)
  PROVE  Once(s \o Reverse(t), b)
<1>1. PICK p \in Nat, q \in Nat : p = Len(s) /\ q = Len(t)
  BY LenProperties
<1>2. DOMAIN s = 1 .. p /\ DOMAIN t = 1 .. q
  BY <1>1, LenProperties
<1>3. PICK r : r = Reverse(t)
  OBVIOUS
<1>4. /\ r \in Seq(S) /\ Len(r) = q
      /\ \A k \in 1 .. q : (q - k) + 1 \in 1 .. q /\ r[k] = t[(q - k) + 1]
  <2>1. r = [k \in 1 .. q |-> t[(q - k) + 1]]
    BY <1>1, <1>3 DEF Reverse
  <2>2. \A k \in 1 .. q : (q - k) + 1 \in 1 .. q
    BY <1>1
  <2>3. r \in [1 .. q -> S]
    BY <1>1, <2>1, <2>2, ElementOfSeq
  <2>4. r \in Seq(S) /\ Len(r) = q
    BY <1>1, <2>3
  <2>5. QED
    BY <2>1, <2>2, <2>4
<1>5. PICK u : u = s \o r
  OBVIOUS
<1>6. /\ Len(u) = p + q
      /\ \A k \in 1 .. p + q : u[k] = IF k <= p THEN s[k] ELSE r[k - p]
  <2>1. /\ Len(u) = Len(s) + Len(r)
        /\ \A k \in 1 .. Len(s) + Len(r) : u[k] = IF k <= Len(s) THEN s[k] ELSE r[k - Len(s)]
    <3>1. s \in Seq(S) /\ r \in Seq(S)
      BY <1>4
    <3>2. QED
      BY ONLY <1>5, <3>1, ConcatProperties
  <2>2. Len(s) = p /\ Len(r) = q
    BY <1>1, <1>4
  <2>3. QED
    BY <2>1, <2>2
<1>7. /\ \A k \in 1 .. p : s[k] \in ToSet(s)
      /\ \A k \in 1 .. q : t[k] \in ToSet(t)
  BY <1>2 DEF ToSet
<1>8. \A k, m \in 1 .. p : s[k] = b /\ s[m] = b => k = m
  BY <1>1 DEF Once
<1>9. \A k, m \in 1 .. q : r[k] = b /\ r[m] = b => k = m
  <2>1. SUFFICES ASSUME NEW k \in 1 .. q, NEW m \in 1 .. q, r[k] = b, r[m] = b PROVE k = m
    OBVIOUS
  <2>2. (q - k) + 1 = (q - m) + 1
    BY <1>1, <1>4, <2>1 DEF Once
  <2>3. QED
    BY <1>1, <2>2
<1>10. ASSUME NEW k \in 1 .. p + q, NEW m \in 1 .. p + q, u[k] = b, u[m] = b
       PROVE  k = m
  <2>1. \A i \in 1 .. p + q : i <= p \/ (i - p \in 1 .. q /\ ~ (i <= p))
    BY <1>1
  <2>2. \A i \in 1 .. p + q : i <= p => i \in 1 .. p
    BY <1>1
  <2>3. \A i \in 1 .. q : r[i] = b => b \in ToSet(t)
    BY <1>4, <1>7
  <2>4. \A i \in 1 .. p : s[i] = b => b \in ToSet(s)
    BY <1>7
  <2>5. CASE k <= p /\ m <= p
    BY <1>6, <1>8, <1>10, <2>2, <2>5
  <2>6. CASE ~ (k <= p) /\ ~ (m <= p)
    <3>1. k - p = m - p
      BY <1>6, <1>9, <1>10, <2>1, <2>6
    <3>2. QED
      BY <1>1, <3>1
  <2>7. CASE (k <= p) # (m <= p)
    <3>1. b \in ToSet(s) /\ b \in ToSet(t)
      BY <1>6, <1>10, <2>1, <2>2, <2>3, <2>4, <2>7
    <3>2. QED
      BY <3>1
  <2>8. QED
    BY <2>5, <2>6, <2>7
<1>11. QED
  BY <1>3, <1>5, <1>6, <1>10 DEF Once

(* The first of the nodes left is the declared one after those gone. *)
LEMMA HeadIsNext ==
  ASSUME TypeOK, OriginInv, NEW a \in Iface, implements[a] # <<>>
  PROVE  /\ Unlinked(a) \in Nat
         /\ Unlinked(a) + 1 \in 1 .. Len(declared[a])
         /\ Head(implements[a]) = declared[a][Unlinked(a) + 1]
         /\ Len(Tail(implements[a])) = Len(implements[a]) - 1
         /\ \A k \in 1 .. Len(Tail(implements[a])) :
              Tail(implements[a])[k] = declared[a][(Unlinked(a) + 1) + k]
<1>1. PICK s : s = implements[a]
  OBVIOUS
<1>2. s \in Seq(Iface \cup {Undeclared}) /\ s # <<>> /\ Len(declared[a]) \in Nat
  BY <1>1 DEF TypeOK
<1>3. PICK n \in Nat : n = Unlinked(a)
  BY DEF OriginInv
<1>4. PICK l \in Nat \ {0} : l = Len(s)
  BY <1>2, EmptySeq
<1>5. /\ Len(Tail(s)) = l - 1
      /\ Head(s) = s[1]
      /\ \A k \in 1 .. l - 1 : Tail(s)[k] = s[k + 1]
  BY <1>2, <1>4, HeadTailProperties
<1>6. \A k \in 1 .. l : s[k] = declared[a][n + k]
  BY <1>1, <1>3, <1>4 DEF OriginInv
<1>7. n + 1 \in 1 .. Len(declared[a])
  <2>1. PICK d \in Nat : d = Len(declared[a])
    BY <1>2
  <2>2. n = d - l
    BY <1>1, <1>3, <1>4, <2>1 DEF Unlinked
  <2>3. n + 1 \in 1 .. d
    BY <2>2
  <2>4. QED
    BY <2>1, <2>3
<1>8. s[1] = declared[a][n + 1]
  BY <1>4, <1>6
<1>9. \A k \in 1 .. l - 1 : s[k + 1] = declared[a][(n + 1) + k]
  <2>1. SUFFICES ASSUME NEW k \in 1 .. l - 1 PROVE s[k + 1] = declared[a][(n + 1) + k]
    OBVIOUS
  <2>2. k + 1 \in 1 .. l /\ n + (k + 1) = (n + 1) + k
    BY <1>4
  <2>3. QED
    BY <1>6, <2>2
<1>10. QED
  BY <1>1, <1>3, <1>4, <1>5, <1>7, <1>8, <1>9

(* Before the walk each interface has its own list and all its nodes. *)
LEMMA OriginInit == Init => OriginInv /\ CopiedOnce
<1> SUFFICES ASSUME Init PROVE OriginInv /\ CopiedOnce
  OBVIOUS
<1>1. ASSUME NEW a \in Iface
      PROVE  /\ Unlinked(a) = 0
             /\ \A k \in 1 .. Len(implements[a]) : implements[a][k] = declared[a][0 + k]
             /\ ToSet(lists[a]) = {a} /\ Len(lists[a]) = 1
  <2>1. implements[a] = declared[a] /\ lists[a] = <<a>> /\ declared[a] \in Seq(Iface \cup {Undeclared})
    BY DEF Init
  <2>2. PICK d \in Nat : d = Len(declared[a])
    BY <2>1, LenProperties
  <2>3. Unlinked(a) = d - d
    BY <2>1, <2>2 DEF Unlinked
  <2>4. DOMAIN <<a>> = {1} /\ <<a>>[1] = a /\ Len(<<a>>) = 1
    OBVIOUS
  <2>5. ToSet(lists[a]) = {a}
    BY <2>1, <2>4 DEF ToSet
  <2>6. \A k \in 1 .. d : 0 + k = k
    BY <2>2
  <2>7. QED
    BY <2>1, <2>2, <2>3, <2>4, <2>5, <2>6
<1>2. OriginInv
  <2> SUFFICES ASSUME NEW a \in Iface
               PROVE  /\ Unlinked(a) \in Nat
                      /\ \A k \in 1 .. Len(implements[a]) :
                           implements[a][k] = declared[a][Unlinked(a) + k]
                      /\ \A b \in ToSet(lists[a]) : b = a
    BY DEF OriginInv
  <2>1. Unlinked(a) = 0 /\ ToSet(lists[a]) = {a}
    BY <1>1
  <2>2. \A k \in 1 .. Len(implements[a]) : implements[a][k] = declared[a][Unlinked(a) + k]
    BY <1>1, <2>1
  <2>3. QED
    BY <2>1, <2>2
<1>3. CopiedOnce
  BY <1>1 DEF CopiedOnce, Copies
<1>4. QED
  BY <1>2, <1>3

(* Which paths there are depends on the IDL only. *)
LEMMA PathsConstant ==
  ASSUME declared' = declared
  PROVE  /\ Circular' <=> Circular
         /\ \A a, b \in Iface : SinglePath(a, b)' <=> SinglePath(a, b)
<1>1. \A a : Reach(a)' = Reach(a)
  BY ReachConstant
<1>2. Circular' <=> Circular
  BY <1>1 DEF Circular
<1>3. QED
  BY <1>1, <1>2 DEF SinglePath

(* A path from what an interface implements is one from the interface. *)
LEMMA SinglePathBelow ==
  ASSUME NEW a \in Iface, NEW t \in ToSet(declared[a]) \cap Iface, NEW b \in Iface,
         SinglePath(a, b)
  PROVE  SinglePath(t, b)
BY ReachStep DEF SinglePath

(* As long as neither nodes nor lists change, nothing is copied. *)
LEMMA OriginUnchanged ==
  ASSUME OriginInv, CopiedOnce, UNCHANGED <<declared, implements, lists>>
  PROVE  OriginInv' /\ CopiedOnce'
<1>1. \A a : Reach(a)' = Reach(a)
  BY ReachConstant
<1>2. \A a : Unlinked(a)' = Unlinked(a)
  BY DEF Unlinked
<1>3. OriginInv'
  BY <1>1, <1>2 DEF OriginInv
<1>4. CopiedOnce'
  BY PathsConstant DEF CopiedOnce, Copies
<1>5. QED
  BY <1>3, <1>4

(* One node fewer, and members from it alone: the rest is as it was. *)
LEMMA OriginMoves ==
  ASSUME TypeOK, OriginInv, NEW c \in Iface, implements[c] # <<>>, UNCHANGED declared,
         implements' = [implements EXCEPT ![c] = Tail(@)],
         \A a \in Iface : a # c => lists'[a] = lists[a],
         \A b \in ToSet(lists'[c]) \ ToSet(lists[c]) :
           Head(implements[c]) \in Iface /\ b \in Reach(Head(implements[c]))
  PROVE  OriginInv'
<1>1. \A a : Reach(a)' = Reach(a)
  BY ReachConstant
<1>2. PICK n \in Nat : n = Unlinked(c)
  BY DEF OriginInv
<1>3. /\ implements'[c] = Tail(implements[c])
      /\ \A a \in Iface : a # c => implements'[a] = implements[a]
  BY DEF TypeOK
<1>4. /\ n + 1 \in 1 .. Len(declared[c])
      /\ Head(implements[c]) = declared[c][n + 1]
      /\ Len(implements'[c]) = Len(implements[c]) - 1
      /\ \A k \in 1 .. Len(implements'[c]) : implements'[c][k] = declared[c][(n + 1) + k]
  <2>1. PICK s : s = implements'[c]
    OBVIOUS
  <2>2. s = Tail(implements[c])
    BY <1>3, <2>1
  <2>3. /\ n + 1 \in 1 .. Len(declared[c])
        /\ Head(implements[c]) = declared[c][n + 1]
        /\ Len(s) = Len(implements[c]) - 1
        /\ \A k \in 1 .. Len(s) : s[k] = declared[c][(n + 1) + k]
    BY <1>2, <2>2, HeadIsNext
  <2>4. QED
    BY <2>1, <2>3
<1>5. Unlinked(c)' = n + 1
  <2>1. Len(declared[c]) \in Nat /\ Len(implements[c]) \in Nat
    BY DEF TypeOK
  <2>2. Unlinked(c)' = Len(declared[c]) - Len(implements'[c])
    BY DEF Unlinked
  <2>3. n = Len(declared[c]) - Len(implements[c])
    BY <1>2 DEF Unlinked
  <2>4. QED
    BY <1>4, <2>1, <2>2, <2>3
<1>6. \A a \in Iface : a # c => Unlinked(a)' = Unlinked(a)
  BY <1>3 DEF Unlinked
<1>7. ASSUME NEW a \in Iface, a # c
      PROVE  /\ Unlinked(a)' \in Nat
             /\ \A k \in 1 .. Len(implements'[a]) :
                  implements'[a][k] = declared[a][Unlinked(a)' + k]
             /\ \A b \in ToSet(lists'[a]) : b # a =>
                  \E k \in 1 .. Unlinked(a)' :
                    declared[a][k] \in Iface /\ b \in Reach(declared[a][k])
  BY <1>3, <1>6, <1>7 DEF OriginInv
<1>8. ASSUME NEW b \in ToSet(lists'[c]), b # c
      PROVE  \E k \in 1 .. n + 1 : declared[c][k] \in Iface /\ b \in Reach(declared[c][k])
  <2>1. CASE b \in ToSet(lists[c])
    <3>1. PICK k \in 1 .. n : declared[c][k] \in Iface /\ b \in Reach(declared[c][k])
      BY <1>2, <1>8, <2>1 DEF OriginInv
    <3>2. k \in 1 .. n + 1
      BY <1>2
    <3>3. QED
      BY <3>1, <3>2
  <2>2. CASE b \notin ToSet(lists[c])
    <3>1. n + 1 \in 1 .. n + 1
      BY <1>2
    <3>2. QED
      BY <1>4, <2>2, <3>1
  <2>3. QED
    BY <2>1, <2>2
<1>9. ASSUME NEW a \in Iface
      PROVE  /\ Unlinked(a)' \in Nat
             /\ \A k \in 1 .. Len(implements'[a]) :
                  implements'[a][k] = declared[a][Unlinked(a)' + k]
             /\ \A b \in ToSet(lists'[a]) : b # a =>
                  \E k \in 1 .. Unlinked(a)' :
                    declared[a][k] \in Iface /\ b \in Reach(declared[a][k])
  <2>1. CASE a = c
    BY <1>2, <1>4, <1>5, <1>8, <2>1
  <2>2. QED
    BY <1>7, <2>1
<1>10. declared' = declared
  OBVIOUS
<1>11. QED
  BY ONLY <1>1, <1>9, <1>10 DEF OriginInv

(* A node that names no interface is unlinked, and nothing copied. *)
LEMMA SkipKeepsOnce ==
  ASSUME IInv, OriginInv, CopiedOnce, SkipUndeclared
  PROVE  OriginInv' /\ CopiedOnce'
<1>1. stack # <<>> /\ implements[Top] # <<>> /\ UNCHANGED <<declared, lists>>
  BY DEF SkipUndeclared
<1>2. Top \in Iface /\ implements' = [implements EXCEPT ![Top] = Tail(@)]
  BY <1>1, StackEnds DEF IInv, SkipUndeclared
<1>3. OriginInv'
  BY <1>1, <1>2, OriginMoves DEF IInv
<1>4. CopiedOnce'
  BY <1>1, PathsConstant DEF CopiedOnce, Copies
<1>5. QED
  BY <1>3, <1>4

(* What is copied has come from no node before, as there is one path to it,
   and is not the interface itself, as there is no circle. *)
LEMMA CopyKeepsOnce ==
  ASSUME IInv, OriginInv, CopiedOnce, CopyAndUnlink
  PROVE  OriginInv' /\ CopiedOnce'
<1>1. PICK t, c : t = Top /\ c = Caller
  OBVIOUS
<1>2. /\ Len(stack) > 1
      /\ lists' = [lists EXCEPT ![c] = Copied(t, c)]
      /\ implements' = [implements EXCEPT ![c] = Tail(@)]
      /\ UNCHANGED declared
  BY <1>1 DEF CopyAndUnlink
<1>3. /\ t \in Iface /\ c \in Iface
      /\ implements[c] # <<>> /\ Head(implements[c]) = t
      /\ t \in ToSet(declared[c]) \cap Iface
  <2>1. PICK n \in Nat : n = Len(stack)
    BY DEF IInv, TypeOK
  <2>2. stack # <<>> /\ n > 1
    BY <1>2, <2>1
  <2>3. t = stack[n] /\ c = stack[n - 1]
    BY <1>1, <2>1, <2>2, StackEnds DEF IInv
  <2>4. n - 1 \in 1 .. Len(stack) - 1 /\ (n - 1) + 1 = n
    BY <2>1, <2>2
  <2>5. QED
    BY <2>3, <2>4, CallsImplemented DEF IInv
<1>4. /\ lists'[c] = lists[c] \o Reverse(lists[t])
      /\ \A a \in Iface : a # c => lists'[a] = lists[a]
  BY <1>2, <1>3 DEF Copied, IInv, TypeOK
<1>5. lists[c] \in Seq(Iface) /\ lists[t] \in Seq(Iface)
  BY <1>3 DEF IInv, TypeOK
<1>6. ToSet(lists'[c]) = ToSet(lists[c]) \cup ToSet(lists[t])
  BY <1>4, <1>5, ToSetCopied
<1>7. ToSet(lists[t]) \subseteq Reach(t)
  BY <1>3 DEF IInv, OnlyImplemented
<1>8. OriginInv'
  BY <1>2, <1>3, <1>4, <1>6, <1>7, OriginMoves DEF IInv
<1>9. ASSUME ~Circular, NEW a \in Iface, NEW b \in Iface, SinglePath(a, b)
      PROVE  Once(lists'[a], b)
  <2>1. CASE a # c
    BY <1>4, <1>9, <2>1 DEF CopiedOnce, Copies, Once
  <2>2. CASE a = c
    <3>1. Once(lists[c], b) /\ Once(lists[t], b)
      <4>1. SinglePath(c, b) /\ SinglePath(t, b)
        BY <1>3, <1>9, <2>2, SinglePathBelow
      <4>2. QED
        BY <1>3, <1>9, <4>1 DEF CopiedOnce, Copies, Once
    <3>2. ASSUME b \in ToSet(lists[c]), b \in ToSet(lists[t]) PROVE FALSE
      <4>1. b \in Reach(t)
        BY <1>7, <3>2
      <4>2. b # c
        BY <1>3, <1>9, <4>1 DEF Circular
      <4>3. PICK k \in 1 .. Unlinked(c) : declared[c][k] \in Iface /\ b \in Reach(declared[c][k])
        BY <1>3, <3>2, <4>2 DEF OriginInv
      <4>4. /\ Unlinked(c) \in Nat
            /\ Unlinked(c) + 1 \in 1 .. Len(declared[c])
            /\ declared[c][Unlinked(c) + 1] = t
        BY <1>3, HeadIsNext DEF IInv
      <4>5. PICK m : m = Unlinked(c) + 1
        OBVIOUS
      <4>6. k \in 1 .. Len(declared[c]) /\ m \in 1 .. Len(declared[c]) /\ k # m
        <5>1. Len(declared[c]) \in Nat
          BY <1>3 DEF IInv, TypeOK
        <5>2. QED
          BY <4>3, <4>4, <4>5, <5>1
      <4>7. c \in Reach(c)
        BY <1>3, ReachLeast
      <4>8. k = m
        BY <1>3, <1>9, <2>2, <4>1, <4>3, <4>4, <4>5, <4>6, <4>7 DEF SinglePath
      <4>9. QED
        BY <4>6, <4>8
    <3>3. QED
      BY <1>4, <1>5, <2>2, <3>1, <3>2, OnceCopied
  <2>3. QED
    BY <2>1, <2>2
<1>10. CopiedOnce'
  <2>1. /\ Circular' <=> Circular
        /\ \A a, b \in Iface : SinglePath(a, b)' <=> SinglePath(a, b)
    BY <1>2, PathsConstant
  <2>2. QED
    BY <1>9, <2>1 DEF CopiedOnce, Copies, Once
<1>11. QED
  BY <1>8, <1>10

(* An interface that is implemented along one path is copied once, in every
   implements relation without a circle: that the walk comes to an interface
   again after the recursion has been there copies nothing twice. *)
THEOREM NothingTwice == Spec => []CopiedOnce
<1>1. IInv /\ OriginInv /\ CopiedOnce /\ [Next]_vars => OriginInv' /\ CopiedOnce'
  <2> SUFFICES ASSUME IInv, OriginInv, CopiedOnce, [Next]_vars
               PROVE  OriginInv' /\ CopiedOnce'
    OBVIOUS
  <2>1. CASE UNCHANGED vars \/ Visit \/ WalkEnd \/ Recurse \/ Return
    BY <2>1, OriginUnchanged DEF vars, Visit, WalkEnd, Recurse, Return
  <2>2. CASE SkipUndeclared
    BY <2>2, SkipKeepsOnce
  <2>3. CASE CopyAndUnlink
    BY <2>3, CopyKeepsOnce
  <2>4. QED
    BY <2>1, <2>2, <2>3 DEF Next
<1>2. QED
  BY <1>1, OriginInit, Invariant, PTL DEF Spec

-----------------------------------------------------------------------------
(* what the definition of FlattenSeq asks of its function, up to m *)
Flattens(f, s, m) ==
  f = [i \in 1 .. m |-> IF i = 1 THEN s[i] ELSE f[i-1] \o s[i]]

(* Such a function exists, however long the list is, *)
LEMMA FlattensExists ==
  ASSUME NEW s, NEW m \in Nat
  PROVE  \E f : Flattens(f, s, m)
<1> DEFINE Bad == {n \in Nat : ~ \E f : Flattens(f, s, n)}
<1>1. ASSUME Bad # {} PROVE FALSE
  <2>1. PICK n \in Bad : \A y \in Bad : n <= y
    BY <1>1, LeastExists
  <2>2. CASE n = 0
    <3>1. \A f : [i \in 1 .. 0 |-> IF i = 1 THEN s[i] ELSE f[i-1] \o s[i]] = <<>>
      OBVIOUS
    <3>2. Flattens(<<>>, s, 0)
      BY <3>1, Zenon DEF Flattens
    <3>3. QED
      BY <2>1, <2>2, <3>2
  <2>3. CASE n # 0
    <3>1. n-1 \in Nat /\ n-1 \notin Bad
      BY <2>1, <2>3
    <3>2. PICK g : Flattens(g, s, n-1)
      BY <3>1
    <3> DEFINE last == IF n = 1 THEN s[n] ELSE g[n-1] \o s[n]
               f == [j \in 1 .. n |-> IF j = n THEN last ELSE g[j]]
    <3>3. \A j \in 1 .. n : j # 1 => f[j-1] = g[j-1]
      BY <3>1
    <3>4. \A j \in 1 .. n-1 : g[j] = IF j = 1 THEN s[j] ELSE g[j-1] \o s[j]
      BY <3>2, Zenon DEF Flattens
    <3>5. \A j \in 1 .. n : f[j] = IF j = 1 THEN s[j] ELSE f[j-1] \o s[j]
      BY <3>1, <3>3, <3>4
    <3>6. f = [j \in 1 .. n |-> f[j]]
      OBVIOUS
    <3> HIDE DEF f
    <3>7. Flattens(f, s, n)
      BY <3>5, <3>6, Zenon DEF Flattens
    <3>8. QED
      BY <2>1, <3>7
  <2>4. QED
    BY <2>2, <2>3
<1>2. QED
  BY <1>1

(* and its last value is the list. *)
LEMMA FlattenSeqValue ==
  ASSUME NEW s, Len(s) \in Nat, Len(s) # 0
  PROVE  \E f : Flattens(f, s, Len(s)) /\ FlattenSeq(s) = f[Len(s)]
<1> DEFINE f == CHOOSE g : Flattens(g, s, Len(s))
<1>1. Flattens(f, s, Len(s))
  BY FlattensExists, Zenon
<1>2. FlattenSeq(s) = f[Len(s)]
  BY Zenon DEF FlattenSeq, Flattens
<1>3. QED
  BY <1>1, <1>2, Zenon

(* One element more is added at the end. *)
LEMMA FlattenSeqStep ==
  ASSUME NEW m \in Nat, NEW s, NEW t, Len(s) = m, Len(t) = m + 1,
         \A k \in 1 .. m : t[k] = s[k]
  PROVE  m # 0 => FlattenSeq(t) = FlattenSeq(s) \o t[m + 1]
<1> SUFFICES ASSUME m # 0 PROVE FlattenSeq(t) = FlattenSeq(s) \o t[m + 1]
  OBVIOUS
<1>1. PICK f : Flattens(f, t, m + 1) /\ FlattenSeq(t) = f[m + 1]
  BY FlattenSeqValue
<1>2. PICK g : Flattens(g, s, m) /\ FlattenSeq(s) = g[m]
  BY FlattenSeqValue
<1>3. \A j \in 1 .. m + 1 : f[j] = IF j = 1 THEN t[j] ELSE f[j-1] \o t[j]
  BY <1>1, Zenon DEF Flattens
<1>4. \A j \in 1 .. m : g[j] = IF j = 1 THEN s[j] ELSE g[j-1] \o s[j]
  BY <1>2, Zenon DEF Flattens
<1> DEFINE Bad == {j \in 1 .. m : f[j] # g[j]}
<1>5. ASSUME Bad # {} PROVE FALSE
  <2>1. PICK n \in Bad : \A y \in Bad : n <= y
    <3>1. Bad \in SUBSET Nat
      OBVIOUS
    <3> HIDE DEF Bad
    <3>2. QED
      BY <1>5, <3>1, LeastExists
  <2>2. n \in 1 .. m /\ f[n] # g[n] /\ n \in 1 .. m + 1
    BY <2>1
  <2>3. n # 1 => n - 1 \in 1 .. m /\ f[n - 1] = g[n - 1]
    BY <2>1
  <2>4. QED
    BY <1>3, <1>4, <2>2, <2>3
<1>6. f[m] = g[m] /\ m + 1 # 1 /\ (m + 1) - 1 = m /\ m + 1 \in 1 .. m + 1
  BY <1>5
<1>7. QED
  BY <1>1, <1>2, <1>3, <1>6

(* the elements of each of the n lists E[1], E[2], ... in turn *)
Flat(E, n) == FlattenSeq([k \in 1 .. n |-> E[k]])

LEMMA FlatZero ==
  ASSUME NEW E
  PROVE  Flat(E, 0) = <<>>
<1>1. [k \in 1 .. 0 |-> E[k]] = <<>>
  OBVIOUS
<1>2. QED
  BY <1>1 DEF Flat, FlattenSeq

LEMMA FlatStep ==
  ASSUME NEW S, NEW n \in Nat, NEW E, \A k \in 1 .. n + 1 : E[k] \in Seq(S),
         Flat(E, n) \in Seq(S)
  PROVE  Flat(E, n + 1) \in Seq(S) /\ Flat(E, n + 1) = Flat(E, n) \o E[n + 1]
<1>1. PICK s : s = [k \in 1 .. n |-> E[k]]
  OBVIOUS
<1>2. PICK t : t = [k \in 1 .. n + 1 |-> E[k]]
  OBVIOUS
<1>3. Len(s) = n /\ Len(t) = n + 1 /\ \A k \in 1 .. n : t[k] = s[k]
  BY <1>1, <1>2
<1>4. t[n + 1] = E[n + 1] /\ E[n + 1] \in Seq(S)
  BY <1>2
<1>5. CASE n = 0
  <2>1. Flat(E, 0) = <<>>
    BY FlatZero
  <2>2. PICK f : Flattens(f, t, 1) /\ FlattenSeq(t) = f[1]
    <3>1. Len(t) = 1 /\ 1 \in Nat /\ 1 # 0
      BY <1>3, <1>5
    <3>2. QED
      BY <3>1, FlattenSeqValue
  <2>3. f[1] = t[1]
    <3>1. 1 \in 1 .. 1
      OBVIOUS
    <3>2. QED
      BY <2>2, <3>1, Zenon DEF Flattens
  <2>4. Flat(E, n + 1) = E[n + 1]
    BY <1>2, <1>4, <1>5, <2>2, <2>3 DEF Flat
  <2>5. QED
    BY <1>4, <1>5, <2>1, <2>4
<1>6. CASE n # 0
  <2>1. FlattenSeq(t) = FlattenSeq(s) \o t[n + 1]
    BY ONLY n \in Nat, <1>3, <1>6, FlattenSeqStep
  <2>2. Flat(E, n + 1) = Flat(E, n) \o E[n + 1]
    BY <1>1, <1>2, <1>4, <2>1 DEF Flat
  <2>3. ASSUME NEW p \in Seq(S), NEW q \in Seq(S)
        PROVE  p \o q \in Seq(S)
    OBVIOUS
  <2>4. Flat(E, n) \o E[n + 1] \in Seq(S)
    BY ONLY Flat(E, n) \in Seq(S), <1>4, <2>3
  <2>5. QED
    BY <2>2, <2>4
<1>7. QED
  BY <1>5, <1>6

(* The result is a list. *)
LEMMA FlatType ==
  ASSUME NEW S, NEW E, NEW m \in Nat, \A k \in 1 .. m : E[k] \in Seq(S)
  PROVE  Flat(E, m) \in Seq(S)
<1> DEFINE Bad == {n \in 0 .. m : Flat(E, n) \notin Seq(S)}
<1>1. ASSUME Bad # {} PROVE FALSE
  <2>1. PICK n \in Bad : \A y \in Bad : n <= y
    <3>1. Bad \in SUBSET Nat
      OBVIOUS
    <3> HIDE DEF Bad
    <3>2. QED
      BY <1>1, <3>1, LeastExists
  <2>2. n # 0
    <3>1. <<>> \in Seq(S)
      OBVIOUS
    <3>2. QED
      BY <2>1, <3>1, FlatZero
  <2>3. n - 1 \in Nat /\ Flat(E, n - 1) \in Seq(S) /\ (n - 1) + 1 = n
    BY <2>1, <2>2
  <2>4. \A k \in 1 .. (n - 1) + 1 : E[k] \in Seq(S)
    BY <2>1, <2>3
  <2>5. Flat(E, (n - 1) + 1) \in Seq(S)
    BY ONLY <2>3, <2>4, FlatStep
  <2>6. QED
    BY <2>1, <2>3, <2>5
<1>2. QED
  BY <1>1

(* The lists beyond the first m do not matter. *)
LEMMA FlatSame ==
  ASSUME NEW E, NEW F, NEW m \in Nat, \A k \in 1 .. m : E[k] = F[k]
  PROVE  Flat(E, m) = Flat(F, m)
<1>1. [k \in 1 .. m |-> E[k]] = [k \in 1 .. m |-> F[k]]
  OBVIOUS
<1>2. QED
  BY <1>1, Zenon DEF Flat

(* A list more is added to what the lists come to. *)
LEMMA FlatLast ==
  ASSUME NEW S, NEW n \in Nat, n # 0, NEW E, \A k \in 1 .. n : E[k] \in Seq(S)
  PROVE  /\ Flat(E, n - 1) \in Seq(S) /\ Flat(E, n) \in Seq(S)
         /\ Flat(E, n) = Flat(E, n - 1) \o E[n]
<1>1. n - 1 \in Nat /\ (n - 1) + 1 = n
  OBVIOUS
<1>2. \A k \in 1 .. n - 1 : E[k] \in Seq(S)
  OBVIOUS
<1>3. Flat(E, n - 1) \in Seq(S)
  BY ONLY <1>1, <1>2, FlatType
<1>4. \A k \in 1 .. (n - 1) + 1 : E[k] \in Seq(S)
  BY <1>1
<1>5. /\ Flat(E, (n - 1) + 1) \in Seq(S)
      /\ Flat(E, (n - 1) + 1) = Flat(E, n - 1) \o E[(n - 1) + 1]
  BY ONLY <1>1, <1>3, <1>4, FlatStep
<1>6. QED
  BY <1>1, <1>3, <1>5

(* Lists that are all empty come to nothing. *)
LEMMA FlatEmpty ==
  ASSUME NEW E, NEW m \in Nat, \A k \in 1 .. m : E[k] = <<>>
  PROVE  Flat(E, m) = <<>>
<1> DEFINE Bad == {n \in 0 .. m : Flat(E, n) # <<>>}
<1>1. ASSUME Bad # {} PROVE FALSE
  <2>1. PICK n \in Bad : \A y \in Bad : n <= y
    <3>1. Bad \in SUBSET Nat
      OBVIOUS
    <3> HIDE DEF Bad
    <3>2. QED
      BY <1>1, <3>1, LeastExists
  <2>2. n # 0
    BY <2>1, FlatZero
  <2>3. n \in Nat /\ n - 1 \in 0 .. m /\ ~ (n <= n - 1) /\ n \in 1 .. m
    BY <2>1, <2>2
  <2>4. Flat(E, n - 1) = <<>>
    BY <2>1, <2>3
  <2>5. \A k \in 1 .. n : E[k] \in Seq({})
    <3>1. <<>> \in Seq({})
      OBVIOUS
    <3>2. \A k \in 1 .. n : k \in 1 .. m
      BY <2>3
    <3>3. \A k \in 1 .. n : E[k] = <<>>
      BY <3>2
    <3>4. QED
      BY ONLY <3>1, <3>3
  <2>6. Flat(E, n) = Flat(E, n - 1) \o E[n]
    <3>1. n \in Nat /\ n # 0
      BY <2>2, <2>3
    <3>2. QED
      BY ONLY <3>1, <2>5, FlatLast, Zenon
  <2>7. <<>> \o <<>> = <<>>
    OBVIOUS
  <2>8. QED
    BY <2>1, <2>3, <2>4, <2>6, <2>7
<1>2. QED
  BY <1>1

-----------------------------------------------------------------------------
(* what the definitions of text t give the node, p[n] being the n-th's part *)
Given(t, node, p) ==
  Flat([n \in 1 .. Len(t) |-> IF SameNode(node, t[n]) THEN p[n] ELSE <<>>], Len(t))

ListsOf(t) == [n \in 1 .. Len(t) |-> Lists(t[n], n)]
InheritsOf(t) == [n \in 1 .. Len(t) |-> Inheritance(t[n])]
ImplementsOf(t) == [n \in 1 .. Len(t) |-> Implements(t[n])]

(* list q of parts is p with part e after its first m *)
Longer(q, p, m, e, S) ==
  (\A n \in 1 .. m : p[n] \in Seq(S) /\ q[n] = p[n]) /\ q[m + 1] = e /\ e \in Seq(S)

(* definition d adds part e to what text t gives the node, if it is the node's *)
GivesPart(t, d, node, q, p, e) ==
  /\ SameNode(node, d) => Given(Append(t, d), node, q) = Given(t, node, p) \o e
  /\ ~SameNode(node, d) => Given(Append(t, d), node, q) = Given(t, node, p)

(* With one definition more they give its part more, if it is the node's. *)
LEMMA GivenAppend ==
  ASSUME NEW t \in Seq(Definition), NEW d \in Definition, NEW node,
         NEW q, NEW p, NEW e, NEW S, Longer(q, p, Len(t), e, S)
  PROVE  GivesPart(t, d, node, q, p, e)
<1> SUFFICES ASSUME \A n \in 1 .. Len(t) : p[n] \in Seq(S) /\ q[n] = p[n],
                    q[Len(t) + 1] = e, e \in Seq(S)
             PROVE  GivesPart(t, d, node, q, p, e)
  BY Zenon DEF Longer
<1>0. PICK u : u = Append(t, d)
  OBVIOUS
<1>1. PICK m \in Nat : m = Len(t)
  BY LenProperties
<1>2. Len(u) = m + 1 /\ u[m + 1] = d /\ \A n \in 1 .. m : u[n] = t[n]
  BY <1>0, <1>1, AppendProperties
<1>3. PICK E : E = [n \in 1 .. m |-> IF SameNode(node, t[n]) THEN p[n] ELSE <<>>]
  OBVIOUS
<1>4. PICK F : F = [n \in 1 .. m + 1 |-> IF SameNode(node, u[n]) THEN q[n] ELSE <<>>]
  OBVIOUS
<1>5. <<>> \in Seq(S)
  OBVIOUS
<1>6. \A n \in 1 .. m : E[n] \in Seq(S) /\ F[n] = E[n]
  <2>1. SUFFICES ASSUME NEW n \in 1 .. m PROVE E[n] \in Seq(S) /\ F[n] = E[n]
    OBVIOUS
  <2>2. n \in 1 .. m + 1 /\ u[n] = t[n] /\ p[n] \in Seq(S) /\ q[n] = p[n]
    BY <1>1, <1>2
  <2>3. QED
    BY <1>3, <1>4, <1>5, <2>2
<1>7. PICK f : f = IF SameNode(node, d) THEN e ELSE <<>>
  OBVIOUS
<1>8. f \in Seq(S) /\ F[m + 1] = f
  <2>1. m + 1 \in 1 .. m + 1
    OBVIOUS
  <2>2. QED
    BY <1>1, <1>2, <1>4, <1>5, <1>7, <2>1
<1>9. Flat(E, m) \in Seq(S)
  <2>1. \A n \in 1 .. m : E[n] \in Seq(S)
    BY <1>6
  <2>2. QED
    BY ONLY m \in Nat, <2>1, FlatType
<1>10. Flat(F, m) = Flat(E, m)
  <2>1. \A n \in 1 .. m : F[n] = E[n]
    BY <1>6
  <2>2. QED
    BY ONLY m \in Nat, <2>1, FlatSame
<1>11. Flat(F, m + 1) = Flat(F, m) \o F[m + 1]
  <2>1. \A n \in 1 .. m + 1 : n \in 1 .. m \/ n = m + 1
    OBVIOUS
  <2>2. \A n \in 1 .. m + 1 : F[n] \in Seq(S)
    BY <1>6, <1>8, <2>1
  <2>3. Flat(F, m) \in Seq(S)
    BY <1>9, <1>10
  <2>4. QED
    BY ONLY m \in Nat, <2>2, <2>3, FlatStep
<1>12. Given(t, node, p) = Flat(E, m) /\ Given(u, node, q) = Flat(F, m + 1)
  BY <1>1, <1>2, <1>3, <1>4, Zenon DEF Given
<1>13. Flat(E, m) \o <<>> = Flat(E, m)
  BY <1>9, ConcatEmptySeq
<1>14. QED
  BY <1>0, <1>7, <1>8, <1>9, <1>10, <1>11, <1>12, <1>13 DEF GivesPart

(* A node that no definition is about has been given nothing. *)
LEMMA GivenNothing ==
  ASSUME NEW t, Len(t) \in Nat, NEW node, NEW p, \A n \in 1 .. Len(t) : ~SameNode(node, t[n])
  PROVE  Given(t, node, p) = <<>>
<1>1. PICK E : E = [n \in 1 .. Len(t) |-> IF SameNode(node, t[n]) THEN p[n] ELSE <<>>]
  OBVIOUS
<1>2. \A n \in 1 .. Len(t) : E[n] = <<>>
  BY <1>1
<1>3. Flat(E, Len(t)) = <<>>
  BY <1>2, FlatEmpty
<1>4. QED
  BY <1>1, <1>3 DEF Given

(* Only the type and the name of the node matter. *)
LEMMA GivenByName ==
  ASSUME NEW t, NEW node, NEW other, NEW p, node.type = other.type, node.name = other.name
  PROVE  Given(t, node, p) = Given(t, other, p)
BY DEF Given, SameNode

-----------------------------------------------------------------------------
NodeRec == [type : {"interface", "dictionary"}, name : Names, inherits : Seq(Names),
            lists : Seq(Nat), implements : Seq(Names), attrs : SUBSET Attrs]

AstTypes == /\ text \in Seq(Definition) /\ ast \in Seq(NodeRec)
            /\ Len(ast) <= Len(text) /\ Len(text) <= MaxDefinitions
            /\ parse \in {"parse", "parsed", "failed"}

OneNode == \A j, k \in 1 .. Len(ast) :
             ast[j].type = ast[k].type /\ ast[j].name = ast[k].name => j = k

EachDefined == \A n \in 1 .. Len(text) : \E k \in 1 .. Len(ast) : SameNode(ast[k], text[n])

(* t[n] is the definition that made the node *)
MadeBy(node, t, n) == /\ SameNode(node, t[n]) /\ node.attrs = t[n].attrs
                      /\ \A m \in 1 .. n - 1 : ~SameNode(node, t[m])

EachMentioned == \A k \in 1 .. Len(ast) : \E n \in 1 .. Len(text) : MadeBy(ast[k], text, n)

(* the node has gathered what text t says about it *)
HasText(node, t) ==
  /\ node.lists = Given(t, node, ListsOf(t))
  /\ node.inherits = Given(t, node, InheritsOf(t))
  /\ node.implements = Given(t, node, ImplementsOf(t))

(* and nothing else *)
HasMembers(node, t) ==
  /\ ToSet(node.lists) = {n \in 1 .. Len(t) : SameNode(node, t[n]) /\ t[n].form # "implements"}
  /\ ToSet(node.implements)
       = {t[n].other : n \in {m \in 1 .. Len(t) : SameNode(node, t[m]) /\ t[m].form = "implements"}}

NodesInv == \A k \in 1 .. Len(ast) : HasText(ast[k], text) /\ HasMembers(ast[k], text)

AstInv == AstTypes /\ OneNode /\ EachDefined /\ EachMentioned /\ NodesInv

(* The parts of a definition. *)
LEMMA DefinitionParts ==
  ASSUME NEW d \in Definition, NEW n \in Nat
  PROVE  /\ d.type \in {"interface", "dictionary"} /\ d.name \in Names /\ d.attrs \in SUBSET Attrs
         /\ d.form = "implements" => d.type = "interface" /\ d.other \in Names
         /\ Lists(d, n) \in Seq(Nat) /\ Inheritance(d) \in Seq(Names) /\ Implements(d) \in Seq(Names)
         /\ ToSet(Lists(d, n)) = IF d.form # "implements" THEN {n} ELSE {}
         /\ ToSet(Implements(d)) = IF d.form = "implements" THEN {d.other} ELSE {}
<1>1. /\ d.type \in {"interface", "dictionary"} /\ d.name \in Names
      /\ d.other \in Names \cup {Null} /\ d.attrs \in SUBSET Attrs
      /\ d.form = "implements" => d.type = "interface" /\ d.other \in Names
  BY DEF Definition
<1>2. ASSUME NEW X, NEW x \in X
      PROVE  <<x>> \in Seq(X) /\ <<>> \in Seq(X) /\ ToSet(<<x>>) = {x} /\ ToSet(<<>>) = {}
  <2>1. DOMAIN <<x>> = {1} /\ <<x>>[1] = x /\ DOMAIN <<>> = {}
    OBVIOUS
  <2>2. ToSet(<<x>>) = {x} /\ ToSet(<<>>) = {}
    BY <2>1 DEF ToSet
  <2>3. QED
    BY <2>2
<1>3. /\ Lists(d, n) \in Seq(Nat)
      /\ ToSet(Lists(d, n)) = IF d.form # "implements" THEN {n} ELSE {}
  BY <1>2 DEF Lists, Optional
<1>4. Inheritance(d) \in Seq(Names)
  <2>1. CASE d.form = "full" /\ d.other # Null
    <3>1. d.other \in Names
      BY <1>1, <2>1
    <3>2. QED
      BY <1>2, <2>1, <3>1 DEF Inheritance, Optional
  <2>2. CASE ~(d.form = "full" /\ d.other # Null)
    BY <1>1, <1>2, <2>2 DEF Inheritance, Optional
  <2>3. QED
    BY <2>1, <2>2
<1>5. /\ Implements(d) \in Seq(Names)
      /\ ToSet(Implements(d)) = IF d.form = "implements" THEN {d.other} ELSE {}
  <2>1. CASE d.form = "implements"
    <3>1. d.other \in Names
      BY <1>1, <2>1
    <3>2. QED
      BY <1>2, <2>1, <3>1 DEF Implements, Optional
  <2>2. CASE d.form # "implements"
    BY <1>1, <1>2, <2>2 DEF Implements, Optional
  <2>3. QED
    BY <2>1, <2>2
<1>6. QED
  BY <1>1, <1>3, <1>4, <1>5
-----------------------------------------------------------------------------
(* an interface the walk has been at has no IMPLEMENTS node left, but for the
   one whose call is active *)
VisitedInv == \A a \in Iface : a < next /\ implements[a] # <<>> => stack # <<>> /\ a = stack[1]

(* the interfaces whose name the node implements *)
ImplementedNodes(k) ==
  {b \in 1 .. Len(ast) : ast[b].type = "interface" /\ ast[b].name \in ToSet(ast[k].implements)}

(* these are what the walk has taken from the AST *)
LinkedInv == \A k \in Iface :
  ToSet(declared[k]) \cap Iface = IF k \in 1 .. Len(ast) THEN ImplementedNodes(k) ELSE {}

WalkInv == /\ parse = "parsed" /\ IInv /\ VisitedInv /\ LinkedInv
           /\ pc = "done" => stack = <<>> /\ next > N

WaitingInv == lists = [k \in Iface |-> <<k>>] /\ stack = <<>> /\ next = 1

FrontInv == /\ AstInv
            /\ pc = "waiting" => WaitingInv
            /\ pc # "waiting" => WalkInv

-----------------------------------------------------------------------------
LEMMA ToSetConcat ==
  ASSUME NEW S, NEW p \in Seq(S), NEW q \in Seq(S)
  PROVE  p \o q \in Seq(S) /\ ToSet(p \o q) = ToSet(p) \cup ToSet(q)
<1>1. /\ p \o q \in Seq(S) /\ Len(p) \in Nat /\ Len(q) \in Nat
      /\ Len(p \o q) = Len(p) + Len(q)
      /\ \A k \in 1 .. Len(p) : (p \o q)[k] = p[k]
      /\ \A k \in 1 .. Len(q) : (p \o q)[Len(p) + k] = q[k]
  BY ConcatProperties
<1>2. /\ ToSet(p) = {p[k] : k \in 1 .. Len(p)} /\ ToSet(q) = {q[k] : k \in 1 .. Len(q)}
      /\ ToSet(p \o q) = {(p \o q)[k] : k \in 1 .. Len(p \o q)}
  BY <1>1 DEF ToSet
<1>3. ToSet(p \o q) \subseteq ToSet(p) \cup ToSet(q)
  <2>1. SUFFICES ASSUME NEW k \in 1 .. Len(p) + Len(q)
                 PROVE  (p \o q)[k] \in ToSet(p) \cup ToSet(q)
    BY <1>1, <1>2
  <2>2. CASE k \in 1 .. Len(p)
    BY <1>1, <1>2, <2>2
  <2>3. CASE k \notin 1 .. Len(p)
    <3>1. k - Len(p) \in 1 .. Len(q) /\ Len(p) + (k - Len(p)) = k
      BY <1>1, <2>1, <2>3
    <3>2. (p \o q)[k] = q[k - Len(p)]
      BY <1>1, <3>1
    <3>3. QED
      BY <1>2, <3>1, <3>2
  <2>4. QED
    BY <2>2, <2>3
<1>4. ToSet(p) \subseteq ToSet(p \o q)
  <2>1. \A k \in 1 .. Len(p) : k \in 1 .. Len(p \o q)
    BY <1>1
  <2>2. QED
    BY <1>1, <1>2, <2>1
<1>5. ToSet(q) \subseteq ToSet(p \o q)
  <2>1. \A k \in 1 .. Len(q) : Len(p) + k \in 1 .. Len(p \o q)
    BY <1>1
  <2>2. QED
    BY <1>1, <1>2, <2>1
<1>6. QED
  BY <1>1, <1>3, <1>4, <1>5

(* What one definition more gives a node, and what it leaves as it was. *)
LEMMA TextGrows ==
  ASSUME NEW t \in Seq(Definition), NEW d \in Definition, NEW node
  PROVE  LET u == Append(t, d)
         IN  /\ SameNode(node, d) =>
                  /\ Given(u, node, ListsOf(u)) = Given(t, node, ListsOf(t)) \o Lists(d, Len(t) + 1)
                  /\ Given(u, node, InheritsOf(u)) = Given(t, node, InheritsOf(t)) \o Inheritance(d)
                  /\ Given(u, node, ImplementsOf(u)) = Given(t, node, ImplementsOf(t)) \o Implements(d)
             /\ ~SameNode(node, d) =>
                  /\ Given(u, node, ListsOf(u)) = Given(t, node, ListsOf(t))
                  /\ Given(u, node, InheritsOf(u)) = Given(t, node, InheritsOf(t))
                  /\ Given(u, node, ImplementsOf(u)) = Given(t, node, ImplementsOf(t))
<1> DEFINE u == Append(t, d)
<1>0. PICK m \in Nat : m = Len(t)
  BY LenProperties
<1>1. Len(u) = m + 1 /\ u[m + 1] = d /\ \A n \in 1 .. m : u[n] = t[n] /\ t[n] \in Definition
  BY <1>0, AppendProperties, ElementOfSeq
<1>2. m + 1 \in 1 .. m + 1 /\ m + 1 \in Nat /\ \A n \in 1 .. m : n \in 1 .. m + 1 /\ n \in Nat
  OBVIOUS
<1>3. PICK p : p = ListsOf(t)
  OBVIOUS
<1>4. PICK q : q = ListsOf(u)
  OBVIOUS
<1>5. /\ \A n \in 1 .. Len(t) : p[n] \in Seq(Nat) /\ q[n] = p[n]
      /\ Lists(d, m + 1) \in Seq(Nat) /\ q[Len(t) + 1] = Lists(d, m + 1)
  BY <1>0, <1>1, <1>2, <1>3, <1>4, DefinitionParts DEF ListsOf
<1>6. /\ SameNode(node, d) => Given(Append(t, d), node, q) = Given(t, node, p) \o Lists(d, m + 1)
      /\ ~SameNode(node, d) => Given(Append(t, d), node, q) = Given(t, node, p)
  <2>1. Longer(q, p, Len(t), Lists(d, m + 1), Nat)
    BY <1>5, Zenon DEF Longer
  <2>2. GivesPart(t, d, node, q, p, Lists(d, m + 1))
    BY <2>1, GivenAppend, Zenon
  <2>3. QED
    BY <2>2 DEF GivesPart
<1>7. PICK pi : pi = InheritsOf(t)
  OBVIOUS
<1>8. PICK qi : qi = InheritsOf(u)
  OBVIOUS
<1>9. /\ \A n \in 1 .. Len(t) : pi[n] \in Seq(Names) /\ qi[n] = pi[n]
      /\ Inheritance(d) \in Seq(Names) /\ qi[Len(t) + 1] = Inheritance(d)
  BY <1>0, <1>1, <1>2, <1>7, <1>8, DefinitionParts DEF InheritsOf
<1>10. /\ SameNode(node, d) => Given(Append(t, d), node, qi) = Given(t, node, pi) \o Inheritance(d)
       /\ ~SameNode(node, d) => Given(Append(t, d), node, qi) = Given(t, node, pi)
  <2>1. Longer(qi, pi, Len(t), Inheritance(d), Names)
    BY <1>9, Zenon DEF Longer
  <2>2. GivesPart(t, d, node, qi, pi, Inheritance(d))
    BY <2>1, GivenAppend, Zenon
  <2>3. QED
    BY <2>2 DEF GivesPart
<1>11. PICK pm : pm = ImplementsOf(t)
  OBVIOUS
<1>12. PICK qm : qm = ImplementsOf(u)
  OBVIOUS
<1>13. /\ \A n \in 1 .. Len(t) : pm[n] \in Seq(Names) /\ qm[n] = pm[n]
       /\ Implements(d) \in Seq(Names) /\ qm[Len(t) + 1] = Implements(d)
  BY <1>0, <1>1, <1>2, <1>11, <1>12, DefinitionParts DEF ImplementsOf
<1>14. /\ SameNode(node, d) => Given(Append(t, d), node, qm) = Given(t, node, pm) \o Implements(d)
       /\ ~SameNode(node, d) => Given(Append(t, d), node, qm) = Given(t, node, pm)
  <2>1. Longer(qm, pm, Len(t), Implements(d), Names)
    BY <1>13, Zenon DEF Longer
  <2>2. GivesPart(t, d, node, qm, pm, Implements(d))
    BY <2>1, GivenAppend, Zenon
  <2>3. QED
    BY <2>2 DEF GivesPart
<1>15. QED
  BY <1>0, <1>3, <1>4, <1>6, <1>7, <1>8, <1>10, <1>11, <1>12, <1>14

(* the members and the implemented interfaces text t says a node has *)
MembersSaid(node, t) == {n \in 1 .. Len(t) : SameNode(node, t[n]) /\ t[n].form # "implements"}
ImplementsSaid(node, t) ==
  {t[n].other : n \in {m \in 1 .. Len(t) : SameNode(node, t[m]) /\ t[m].form = "implements"}}

LEMMA SaidGrows ==
  ASSUME NEW t \in Seq(Definition), NEW d \in Definition, NEW node
  PROVE  /\ \A n : n \in MembersSaid(node, Append(t, d)) <=>
              \/ n \in MembersSaid(node, t)
              \/ SameNode(node, d) /\ d.form # "implements" /\ n = Len(t) + 1
         /\ \A x : x \in ImplementsSaid(node, Append(t, d)) <=>
              \/ x \in ImplementsSaid(node, t)
              \/ SameNode(node, d) /\ d.form = "implements" /\ x = d.other
<1> DEFINE u == Append(t, d)
<1>0. PICK m \in Nat : m = Len(t)
  BY LenProperties
<1>1. Len(u) = m + 1 /\ u[m + 1] = d /\ \A n \in 1 .. m : u[n] = t[n]
  BY <1>0, AppendProperties
<1>2. \A n : n \in 1 .. m + 1 <=> n \in 1 .. m \/ n = m + 1
  OBVIOUS
<1>3. \A n : n \in MembersSaid(node, u) <=>
               \/ n \in MembersSaid(node, t)
               \/ SameNode(node, d) /\ d.form # "implements" /\ n = m + 1
  BY <1>0, <1>1, <1>2 DEF MembersSaid
<1>4. \A x : x \in ImplementsSaid(node, u) <=>
               \/ x \in ImplementsSaid(node, t)
               \/ SameNode(node, d) /\ d.form = "implements" /\ x = d.other
  BY <1>0, <1>1, <1>2 DEF ImplementsSaid
<1>5. QED
  BY <1>0, <1>3, <1>4

(* A node of another name stays what it was. *)
LEMMA NodeStays ==
  ASSUME NEW t \in Seq(Definition), NEW d \in Definition, NEW node,
         ~SameNode(node, d), HasText(node, t), HasMembers(node, t)
  PROVE  HasText(node, Append(t, d)) /\ HasMembers(node, Append(t, d))
<1> DEFINE u == Append(t, d)
<1>1. HasText(node, u)
  <2>1. /\ Given(u, node, ListsOf(u)) = Given(t, node, ListsOf(t))
        /\ Given(u, node, InheritsOf(u)) = Given(t, node, InheritsOf(t))
        /\ Given(u, node, ImplementsOf(u)) = Given(t, node, ImplementsOf(t))
    BY TextGrows, Zenon
  <2>2. QED
    BY <2>1, Zenon DEF HasText
<1>2. MembersSaid(node, u) = MembersSaid(node, t) /\ ImplementsSaid(node, u) = ImplementsSaid(node, t)
  BY SaidGrows, Zenon
<1>3. HasMembers(node, u)
  BY <1>2, Zenon DEF HasMembers, MembersSaid, ImplementsSaid
<1>4. QED
  BY <1>1, <1>3

(* A node of the name has the definition's parts after its own. *)
LEMMA NodeGrows ==
  ASSUME NEW t \in Seq(Definition), NEW d \in Definition,
         NEW node \in NodeRec, SameNode(node, d), HasText(node, t), HasMembers(node, t),
         NEW new, new.type = node.type, new.name = node.name,
         new.lists = node.lists \o Lists(d, Len(t) + 1),
         new.inherits = node.inherits \o Inheritance(d),
         new.implements = node.implements \o Implements(d)
  PROVE  HasText(new, Append(t, d)) /\ HasMembers(new, Append(t, d))
<1> DEFINE u == Append(t, d)
<1>1. Len(t) + 1 \in Nat
  BY LenProperties
<1>2. HasText(new, u)
  <2>1. /\ Given(u, node, ListsOf(u)) = new.lists /\ Given(u, node, InheritsOf(u)) = new.inherits
        /\ Given(u, node, ImplementsOf(u)) = new.implements
    <3>1. /\ Given(u, node, ListsOf(u)) = Given(t, node, ListsOf(t)) \o Lists(d, Len(t) + 1)
          /\ Given(u, node, InheritsOf(u)) = Given(t, node, InheritsOf(t)) \o Inheritance(d)
          /\ Given(u, node, ImplementsOf(u)) = Given(t, node, ImplementsOf(t)) \o Implements(d)
      BY TextGrows
    <3>2. QED
      BY <3>1, Zenon DEF HasText
  <2>2. \A p : Given(u, node, p) = Given(u, new, p)
    BY GivenByName, Zenon
  <2>3. QED
    BY <2>1, <2>2, Zenon DEF HasText
<1>3. ToSet(node.lists) = MembersSaid(node, t) /\ ToSet(node.implements) = ImplementsSaid(node, t)
  BY DEF HasMembers, MembersSaid, ImplementsSaid
<1>4. ToSet(new.lists) = MembersSaid(node, u)
  <2>1. PICK p \in Seq(Nat) : p = node.lists
    BY DEF NodeRec
  <2>2. PICK q \in Seq(Nat) : q = Lists(d, Len(t) + 1)
    BY <1>1, DefinitionParts
  <2>3. ToSet(q) = IF d.form # "implements" THEN {Len(t) + 1} ELSE {}
    BY <1>1, <2>2, DefinitionParts
  <2>4. ToSet(p \o q) = ToSet(p) \cup ToSet(q)
    BY ToSetConcat
  <2>5. \A n : n \in MembersSaid(node, u) <=>
                 \/ n \in MembersSaid(node, t)
                 \/ SameNode(node, d) /\ d.form # "implements" /\ n = Len(t) + 1
    BY SaidGrows, Zenon
  <2>6. \A n : n \in ToSet(q) <=> SameNode(node, d) /\ d.form # "implements" /\ n = Len(t) + 1
    BY <2>3
  <2>7. new.lists = p \o q
    BY <2>1, <2>2
  <2>8. ToSet(new.lists) = MembersSaid(node, t) \cup ToSet(q)
    BY <1>3, <2>1, <2>4, <2>7, Zenon
  <2>9. QED
    BY <2>5, <2>6, <2>8
<1>5. ToSet(new.implements) = ImplementsSaid(node, u)
  <2>1. PICK p \in Seq(Names) : p = node.implements
    BY DEF NodeRec
  <2>2. PICK q \in Seq(Names) : q = Implements(d)
    BY <1>1, DefinitionParts
  <2>3. ToSet(q) = IF d.form = "implements" THEN {d.other} ELSE {}
    BY <1>1, <2>2, DefinitionParts
  <2>4. ToSet(p \o q) = ToSet(p) \cup ToSet(q)
    BY ToSetConcat
  <2>5. \A x : x \in ImplementsSaid(node, u) <=>
                 \/ x \in ImplementsSaid(node, t)
                 \/ SameNode(node, d) /\ d.form = "implements" /\ x = d.other
    BY SaidGrows, Zenon
  <2>6. \A x : x \in ToSet(q) <=> SameNode(node, d) /\ d.form = "implements" /\ x = d.other
    BY <2>3
  <2>7. new.implements = p \o q
    BY <2>1, <2>2
  <2>8. ToSet(new.implements) = ImplementsSaid(node, t) \cup ToSet(q)
    BY <1>3, <2>1, <2>4, <2>7, Zenon
  <2>9. QED
    BY <2>5, <2>6, <2>8
<1>6. HasMembers(new, u)
  <2>1. /\ MembersSaid(new, u) = MembersSaid(node, u) /\ ImplementsSaid(new, u) = ImplementsSaid(node, u)
    BY DEF MembersSaid, ImplementsSaid, SameNode
  <2>2. QED
    BY <1>4, <1>5, <2>1, Zenon DEF HasMembers, MembersSaid, ImplementsSaid
<1>7. QED
  BY <1>2, <1>6

-----------------------------------------------------------------------------
LEMMA AstInitInv == AstInit => AstInv
<1> SUFFICES ASSUME AstInit PROVE AstInv
  OBVIOUS
<1>1. text = <<>> /\ ast = <<>> /\ parse = "parse" /\ Len(<<>>) = 0 /\ 0 <= MaxDefinitions
  BY DefinitionsAssumption DEF AstInit
<1>2. AstTypes
  <2>1. <<>> \in Seq(Definition) /\ <<>> \in Seq(NodeRec)
    OBVIOUS
  <2>2. QED
    BY <1>1, <2>1 DEF AstTypes
<1>3. \A k : k \notin 1 .. Len(text) /\ k \notin 1 .. Len(ast)
  BY <1>1
<1>4. QED
  BY <1>2, <1>3 DEF AstInv, OneNode, EachDefined, EachMentioned, NodesInv

(* The text is a definition longer. *)
LEMMA TextLonger ==
  ASSUME AstTypes, NEW d \in Definition, Len(text) < MaxDefinitions, text' = Append(text, d)
  PROVE  /\ Len(text) \in Nat /\ text' \in Seq(Definition)
         /\ Len(text') = Len(text) + 1 /\ Len(text') <= MaxDefinitions /\ text'[Len(text) + 1] = d
         /\ \A n \in 1 .. Len(text) : text'[n] = text[n]
<1>1. PICK t \in Seq(Definition) : t = text
  BY DEF AstTypes
<1>2. Len(t) \in Nat
  BY LenProperties
<1>3. PICK u : u = Append(t, d)
  OBVIOUS
<1>4. u \in Seq(Definition) /\ Len(u) = Len(t) + 1 /\ u[Len(t) + 1] = d /\ \A n \in 1 .. Len(t) : u[n] = t[n]
  BY <1>3, AppendProperties
<1>5. Len(t) + 1 <= MaxDefinitions
  BY <1>1, <1>2, DefinitionsAssumption
<1>6. QED
  BY <1>1, <1>2, <1>3, <1>4, <1>5

LEMMA CreateKeepsInv ==
  ASSUME AstInv, NEW d \in Definition, Len(text) < MaxDefinitions, CreateNode(d),
         text' = Append(text, d), parse' = parse
  PROVE  AstInv'
<1> DEFINE new == [type |-> d.type, name |-> d.name, inherits |-> Inheritance(d),
                   lists |-> Lists(d, Len(text) + 1), implements |-> Implements(d),
                   attrs |-> d.attrs]
           empty == [type |-> d.type, name |-> d.name, inherits |-> <<>>,
                     lists |-> <<>>, implements |-> <<>>, attrs |-> d.attrs]
<1>1. PICK m \in Nat : m = Len(text)
  BY TextLonger DEF AstInv
<1>2. /\ text \in Seq(Definition) /\ text' \in Seq(Definition)
      /\ Len(text') = m + 1 /\ m + 1 <= MaxDefinitions /\ text'[m + 1] = d
      /\ \A n \in 1 .. m : text'[n] = text[n]
  BY <1>1, TextLonger DEF AstInv, AstTypes
<1>3. PICK K \in Nat : K = Len(ast)
  BY LenProperties DEF AstInv, AstTypes
<1>4. new \in NodeRec /\ empty \in NodeRec /\ SameNode(new, d) /\ SameNode(empty, d)
  <2>1. m + 1 \in Nat
    OBVIOUS
  <2>2. /\ d.type \in {"interface", "dictionary"} /\ d.name \in Names /\ d.attrs \in SUBSET Attrs
        /\ Lists(d, m + 1) \in Seq(Nat) /\ Inheritance(d) \in Seq(Names) /\ Implements(d) \in Seq(Names)
    BY <2>1, DefinitionParts
  <2>3. QED
    BY <1>1, <2>2 DEF NodeRec, SameNode
<1>5. ast' \in Seq(NodeRec) /\ Len(ast') = K + 1 /\ ast'[K + 1] = new /\ \A k \in 1 .. K : ast'[k] = ast[k]
  <2>1. PICK a \in Seq(NodeRec) : a = ast
    BY DEF AstInv, AstTypes
  <2>2. PICK r \in NodeRec : r = new
    BY <1>4
  <2>3. PICK b : b = Append(a, r)
    OBVIOUS
  <2>4. b \in Seq(NodeRec) /\ Len(b) = Len(a) + 1 /\ b[Len(a) + 1] = r /\ \A k \in 1 .. Len(a) : b[k] = a[k]
    BY <2>3, AppendProperties
  <2>5. ast' = b
    BY <2>1, <2>2, <2>3 DEF CreateNode
  <2>6. QED
    BY <1>3, <2>1, <2>2, <2>4, <2>5
<1>6. \A k \in 1 .. K : ~SameNode(ast[k], d)
  <2>1. DOMAIN ast = 1 .. K
    BY <1>3 DEF AstInv, AstTypes
  <2>2. QED
    BY <2>1 DEF CreateNode, Existing
<1>7. \A n \in 1 .. m : ~SameNode(new, text[n]) /\ ~SameNode(empty, text[n])
  BY <1>1, <1>3, <1>6 DEF AstInv, EachDefined, SameNode
<1>8. \A k : /\ k \in 1 .. K => k \in 1 .. K + 1
             /\ k \in 1 .. K + 1 <=> k \in 1 .. K \/ k = K + 1
             /\ k \in 1 .. m + 1 <=> k \in 1 .. m \/ k = m + 1
             /\ k \in 1 .. m => k \in 1 .. m + 1 /\ \A i \in 1 .. k - 1 : i \in 1 .. m
  OBVIOUS
<1> HIDE DEF new, empty
<1>9. AstTypes'
  <2>1. K + 1 <= m + 1
    BY <1>1, <1>3 DEF AstInv, AstTypes
  <2>2. QED
    BY <1>2, <1>5, <2>1 DEF AstInv, AstTypes
<1>10. OneNode'
  <2>1. \A k \in 1 .. K : ~(ast[k].type = new.type /\ ast[k].name = new.name)
    BY <1>4, <1>6 DEF SameNode
  <2>2. SUFFICES ASSUME NEW j \in 1 .. K + 1, NEW k \in 1 .. K + 1,
                        ast'[j].type = ast'[k].type, ast'[j].name = ast'[k].name
                 PROVE  j = k
    BY <1>5 DEF OneNode
  <2>3. CASE j = K + 1 \/ k = K + 1
    BY <1>5, <1>8, <2>1, <2>2, <2>3
  <2>4. CASE j # K + 1 /\ k # K + 1
    <3>1. j \in 1 .. K /\ k \in 1 .. K /\ ast'[j] = ast[j] /\ ast'[k] = ast[k]
      BY <1>5, <1>8, <2>4
    <3>2. QED
      BY <1>3, <2>2, <3>1 DEF AstInv, OneNode
  <2>5. QED
    BY <2>3, <2>4
<1>11. EachDefined'
  <2>1. SUFFICES ASSUME NEW n \in 1 .. m + 1
                 PROVE  \E k \in 1 .. K + 1 : SameNode(ast'[k], text'[n])
    BY <1>2, <1>5 DEF EachDefined, SameNode
  <2>2. CASE n \in 1 .. m
    <3>1. PICK k \in 1 .. K : SameNode(ast[k], text[n])
      BY <1>1, <1>3, <2>2 DEF AstInv, EachDefined
    <3>2. k \in 1 .. K + 1 /\ ast'[k] = ast[k] /\ text'[n] = text[n]
      BY <1>2, <1>5, <1>8, <2>2
    <3>3. QED
      BY <3>1, <3>2
  <2>3. CASE n = m + 1
    <3>1. K + 1 \in 1 .. K + 1 /\ SameNode(ast'[K + 1], text'[n])
      BY <1>2, <1>4, <1>5, <2>3
    <3>2. QED
      BY <3>1
  <2>4. QED
    BY <1>8, <2>2, <2>3
<1>12. EachMentioned'
  <2>1. SUFFICES ASSUME NEW k \in 1 .. K + 1
                 PROVE  \E n \in 1 .. m + 1 : MadeBy(ast'[k], text', n)
    BY <1>2, <1>5 DEF EachMentioned, MadeBy, SameNode
  <2>2. CASE k \in 1 .. K
    <3>1. PICK n \in 1 .. m : MadeBy(ast[k], text, n)
      BY <1>1, <1>3, <2>2 DEF AstInv, EachMentioned
    <3>2. MadeBy(ast[k], text', n)
      BY <1>2, <1>8, <3>1 DEF MadeBy
    <3>3. QED
      BY <1>5, <1>8, <2>2, <3>2
  <2>3. CASE k = K + 1
    <3>1. m + 1 \in 1 .. m + 1 /\ \A i \in 1 .. (m + 1) - 1 : i \in 1 .. m
      OBVIOUS
    <3>2. new.attrs = d.attrs
      BY DEF new
    <3>3. MadeBy(new, text', m + 1)
      BY <1>2, <1>4, <1>7, <3>1, <3>2 DEF MadeBy
    <3>4. QED
      BY <1>5, <2>3, <3>1, <3>3
  <2>4. QED
    BY <1>8, <2>2, <2>3
<1>13. NodesInv'
  <2>1. SUFFICES ASSUME NEW k \in 1 .. K + 1
                 PROVE  HasText(ast'[k], text') /\ HasMembers(ast'[k], text')
    BY <1>5, Zenon DEF NodesInv
  <2>2. CASE k \in 1 .. K
    <3>1. HasText(ast[k], text) /\ HasMembers(ast[k], text)
      BY <1>3, <2>2 DEF AstInv, NodesInv
    <3>2. ~SameNode(ast[k], d)
      BY <1>6, <2>2
    <3>3. HasText(ast[k], Append(text, d)) /\ HasMembers(ast[k], Append(text, d))
      BY ONLY <1>2, d \in Definition, <3>1, <3>2, NodeStays, Zenon
    <3>4. QED
      BY <1>5, <2>2, <3>3
  <2>3. CASE k = K + 1
    <3>1. HasText(empty, text)
      <4>1. \A p : Given(text, empty, p) = <<>>
        BY <1>1, <1>7, GivenNothing, Zenon
      <4>2. QED
        BY <4>1 DEF HasText, empty
    <3>2. HasMembers(empty, text)
      <4>1. ToSet(<<>>) = {}
        BY DEF ToSet
      <4>2. ToSet(empty.lists) = {} /\ ToSet(empty.implements) = {}
        BY <4>1 DEF empty
      <4>3. QED
        BY <1>1, <1>7, <4>2 DEF HasMembers
    <3>3. \A S : \A s \in Seq(S) : <<>> \o s = s
      BY ConcatEmptySeq
    <3>4. /\ Lists(d, m + 1) \in Seq(Nat) /\ Inheritance(d) \in Seq(Names)
          /\ Implements(d) \in Seq(Names)
      <4>1. m + 1 \in Nat
        OBVIOUS
      <4>2. QED
        BY <4>1, DefinitionParts
    <3>5. /\ new.type = empty.type /\ new.name = empty.name
          /\ new.lists = empty.lists \o Lists(d, Len(text) + 1)
          /\ new.inherits = empty.inherits \o Inheritance(d)
          /\ new.implements = empty.implements \o Implements(d)
      BY <1>1, <3>3, <3>4 DEF new, empty
    <3>6. HasText(new, Append(text, d)) /\ HasMembers(new, Append(text, d))
      BY ONLY <1>2, d \in Definition, <1>4, <3>1, <3>2, <3>5, NodeGrows, Zenon
    <3>7. QED
      BY <1>5, <2>3, <3>6
  <2>4. QED
    BY <1>8, <2>2, <2>3
<1>14. QED
  BY <1>9, <1>10, <1>11, <1>12, <1>13 DEF AstInv

LEMMA UpdateKeepsInv ==
  ASSUME AstInv, NEW d \in Definition, Len(text) < MaxDefinitions, UpdateNode(d),
         text' = Append(text, d), parse' = parse
  PROVE  AstInv'
<1>1. PICK m \in Nat : m = Len(text)
  BY TextLonger DEF AstInv
<1>2. /\ text \in Seq(Definition) /\ text' \in Seq(Definition)
      /\ Len(text') = m + 1 /\ m + 1 <= MaxDefinitions /\ text'[m + 1] = d
      /\ \A n \in 1 .. m : text'[n] = text[n]
  BY <1>1, TextLonger DEF AstInv, AstTypes
<1>3. PICK K \in Nat : K = Len(ast)
  BY LenProperties DEF AstInv, AstTypes
<1>4. PICK k \in Existing(d) :
        ast' = [ast EXCEPT ![k].inherits = @ \o Inheritance(d),
                           ![k].lists = @ \o Lists(d, Len(text) + 1),
                           ![k].implements = @ \o Implements(d)]
  BY DEF UpdateNode
<1>5. PICK new : new = [ast[k] EXCEPT !.inherits = @ \o Inheritance(d),
                                      !.lists = @ \o Lists(d, Len(text) + 1),
                                      !.implements = @ \o Implements(d)]
  OBVIOUS
<1>6. DOMAIN ast = 1 .. K /\ k \in 1 .. K /\ ast[k] \in NodeRec /\ SameNode(ast[k], d)
  <2>1. DOMAIN ast = 1 .. K /\ k \in 1 .. K /\ SameNode(ast[k], d)
    BY <1>3, <1>4 DEF AstInv, AstTypes, Existing
  <2>2. QED
    BY <1>3, <2>1 DEF AstInv, AstTypes
<1>7. /\ new.type = ast[k].type /\ new.name = ast[k].name /\ new.attrs = ast[k].attrs
      /\ new.lists = ast[k].lists \o Lists(d, Len(text) + 1)
      /\ new.inherits = ast[k].inherits \o Inheritance(d)
      /\ new.implements = ast[k].implements \o Implements(d)
      /\ new = [type |-> new.type, name |-> new.name, inherits |-> new.inherits,
                lists |-> new.lists, implements |-> new.implements, attrs |-> new.attrs]
  BY <1>5, <1>6 DEF NodeRec
<1>8. new \in NodeRec
  <2>1. PICK p \in Seq(Nat), q \in Seq(Names), r \in Seq(Names) :
          p = ast[k].lists /\ q = ast[k].inherits /\ r = ast[k].implements
    BY <1>6 DEF NodeRec
  <2>2. m + 1 \in Nat
    OBVIOUS
  <2>3. PICK x \in Seq(Nat), y \in Seq(Names), z \in Seq(Names) :
          x = Lists(d, m + 1) /\ y = Inheritance(d) /\ z = Implements(d)
    BY <2>2, DefinitionParts
  <2>4. p \o x \in Seq(Nat) /\ q \o y \in Seq(Names) /\ r \o z \in Seq(Names)
    BY ToSetConcat
  <2>5. new.lists \in Seq(Nat) /\ new.inherits \in Seq(Names) /\ new.implements \in Seq(Names)
    BY <1>1, <1>7, <2>1, <2>3, <2>4
  <2>6. new.type \in {"interface", "dictionary"} /\ new.name \in Names /\ new.attrs \in SUBSET Attrs
    BY <1>6, <1>7 DEF NodeRec
  <2>7. QED
    BY <1>7, <2>5, <2>6 DEF NodeRec
<1>9. ast' = [ast EXCEPT ![k] = new]
  BY <1>4, <1>5, <1>6
<1>10. /\ ast' \in Seq(NodeRec) /\ Len(ast') = K /\ ast'[k] = new
       /\ \A j \in 1 .. K : j # k => ast'[j] = ast[j]
  BY <1>3, <1>6, <1>8, <1>9 DEF AstInv, AstTypes
<1>11. \A j \in 1 .. K : ast'[j].type = ast[j].type /\ ast'[j].name = ast[j].name /\ ast'[j].attrs = ast[j].attrs
  BY <1>7, <1>10
<1>12. \A n : n \in 1 .. m + 1 <=> n \in 1 .. m \/ n = m + 1
  OBVIOUS
<1>13. AstTypes'
  <2>1. K <= m + 1
    BY <1>1, <1>3 DEF AstInv, AstTypes
  <2>2. QED
    BY <1>2, <1>10, <2>1 DEF AstInv, AstTypes
<1>14. OneNode'
  BY <1>3, <1>10, <1>11 DEF AstInv, OneNode
<1>15. EachDefined'
  <2>1. SUFFICES ASSUME NEW n \in 1 .. m + 1
                 PROVE  \E j \in 1 .. K : SameNode(ast'[j], text'[n])
    BY <1>2, <1>10 DEF EachDefined, SameNode
  <2>2. CASE n \in 1 .. m
    <3>1. PICK j \in 1 .. K : SameNode(ast[j], text[n])
      BY <1>1, <1>3, <2>2 DEF AstInv, EachDefined
    <3>2. SameNode(ast'[j], text'[n])
      BY <1>2, <1>11, <2>2, <3>1 DEF SameNode
    <3>3. QED
      BY <3>2
  <2>3. CASE n = m + 1
    <3>1. SameNode(ast'[k], text'[n])
      BY <1>2, <1>6, <1>11, <2>3 DEF SameNode
    <3>2. QED
      BY <1>6, <3>1
  <2>4. QED
    BY <1>12, <2>2, <2>3
<1>16. EachMentioned'
  <2> Len(text') = m + 1 /\ Len(ast') = K
    BY <1>2, <1>10
  <2>1. SUFFICES ASSUME NEW j \in 1 .. K
                 PROVE  \E n \in 1 .. m + 1 : MadeBy(ast'[j], text', n)
    BY DEF EachMentioned, MadeBy, SameNode
  <2>2. PICK n \in 1 .. m : MadeBy(ast[j], text, n)
    BY <1>1, <1>3 DEF AstInv, EachMentioned
  <2>3. \A i \in 1 .. n - 1 : i \in 1 .. m
    OBVIOUS
  <2>4. MadeBy(ast'[j], text', n)
    BY <1>2, <1>11, <2>2, <2>3 DEF MadeBy, SameNode
  <2>5. QED
    BY <1>12, <2>4
<1>17. NodesInv'
  <2>1. SUFFICES ASSUME NEW j \in 1 .. K
                 PROVE  HasText(ast'[j], text') /\ HasMembers(ast'[j], text')
    BY <1>10, Zenon DEF NodesInv
  <2>2. HasText(ast[j], text) /\ HasMembers(ast[j], text)
    BY <1>3 DEF AstInv, NodesInv
  <2>3. CASE j # k
    <3>1. ~SameNode(ast[j], d)
      BY <1>3, <1>6, <2>3 DEF AstInv, OneNode, SameNode
    <3>2. HasText(ast[j], Append(text, d)) /\ HasMembers(ast[j], Append(text, d))
      BY ONLY <1>2, d \in Definition, <2>2, <3>1, NodeStays, Zenon
    <3>3. QED
      BY <1>10, <2>3, <3>2
  <2>4. CASE j = k
    <3>1. HasText(ast[k], text) /\ HasMembers(ast[k], text)
      BY <2>2, <2>4
    <3>2. HasText(new, Append(text, d)) /\ HasMembers(new, Append(text, d))
      BY ONLY <1>2, d \in Definition, <1>6, <1>7, <3>1, NodeGrows, Zenon
    <3>3. QED
      BY <1>10, <2>4, <3>2
  <2>5. QED
    BY <2>3, <2>4
<1>18. QED
  BY <1>13, <1>14, <1>15, <1>16, <1>17 DEF AstInv

LEMMA AstUnchanged == AstInv /\ UNCHANGED <<text, ast>> /\ parse' \in {"parse", "parsed", "failed"} => AstInv'
BY DEF AstInv, AstTypes, OneNode, EachDefined, EachMentioned, NodesInv

LEMMA AstStep == AstInv /\ [AstNext]_astvars => AstInv'
<1> SUFFICES ASSUME AstInv, [AstNext]_astvars PROVE AstInv'
  OBVIOUS
<1>1. CASE UNCHANGED astvars
  BY <1>1, AstUnchanged DEF astvars, AstInv, AstTypes
<1>2. ASSUME NEW d \in Definition, Define(d) PROVE AstInv'
  BY <1>2, CreateKeepsInv, UpdateKeepsInv DEF Define
<1>3. CASE Abort
  BY <1>3, AstUnchanged DEF Abort
<1>4. CASE EndOfFiles
  BY <1>4, AstUnchanged DEF EndOfFiles
<1>5. QED
  BY <1>1, <1>2, <1>3, <1>4 DEF AstNext

(* The nodes have what the text gives them ... *)
LEMMA InvGathers == AstInv => NodesGatherText
<1> SUFFICES ASSUME AstInv PROVE NodesGatherText
  OBVIOUS
<1>1. DOMAIN text = 1 .. Len(text) /\ Len(text) \in Nat /\ DOMAIN ast = 1 .. Len(ast) /\ Len(ast) \in Nat
  BY LenProperties DEF AstInv, AstTypes
<1>2. ASSUME NEW d \in ToSet(text)
      PROVE  Cardinality({k \in DOMAIN ast : SameNode(ast[k], d)}) = 1
  <2>1. PICK n \in 1 .. Len(text) : d = text[n]
    BY <1>1 DEF ToSet
  <2>2. PICK k \in 1 .. Len(ast) : SameNode(ast[k], d)
    BY <2>1 DEF AstInv, EachDefined
  <2>3. \A j \in 1 .. Len(ast) : SameNode(ast[j], d) => j = k
    BY <2>2 DEF AstInv, OneNode, SameNode
  <2>4. {j \in DOMAIN ast : SameNode(ast[j], d)} = {k}
    BY <1>1, <2>2, <2>3
  <2>5. QED
    BY <2>4, FS_Singleton
<1>3. ASSUME NEW k \in DOMAIN ast, NEW p
      PROVE  Gathered(ast[k], p) = Given(text, ast[k], p)
  <2>1. PICK E : E = [n \in 1 .. Len(text) |-> IF SameNode(ast[k], text[n]) THEN p[n] ELSE <<>>]
    OBVIOUS
  <2>2. \A n \in DOMAIN text : n \in About(ast[k]) <=> SameNode(ast[k], text[n])
    BY DEF About
  <2>3. [n \in DOMAIN text |-> IF n \in About(ast[k]) THEN p[n] ELSE <<>>] = E
    BY <1>1, <2>1, <2>2
  <2>4. [n \in 1 .. Len(text) |-> E[n]] = E
    BY <2>1
  <2>5. QED
    BY <2>1, <2>3, <2>4, Zenon DEF Gathered, Given, Flat
<1>4. ASSUME NEW k \in DOMAIN ast
      PROVE  /\ ast[k].lists = Gathered(ast[k], [n \in DOMAIN text |-> Lists(text[n], n)])
             /\ ast[k].inherits = Gathered(ast[k], [n \in DOMAIN text |-> Inheritance(text[n])])
             /\ ast[k].implements = Gathered(ast[k], [n \in DOMAIN text |-> Implements(text[n])])
  <2>1. HasText(ast[k], text)
    BY <1>1 DEF AstInv, NodesInv
  <2>2. /\ [n \in DOMAIN text |-> Lists(text[n], n)] = ListsOf(text)
        /\ [n \in DOMAIN text |-> Inheritance(text[n])] = InheritsOf(text)
        /\ [n \in DOMAIN text |-> Implements(text[n])] = ImplementsOf(text)
    BY <1>1, Zenon DEF ListsOf, InheritsOf, ImplementsOf
  <2>3. QED
    BY <1>3, <2>1, <2>2, Zenon DEF HasText
<1>5. QED
  BY <1>2, <1>4, Zenon DEF NodesGatherText

(* ... and the attributes of the definition that made them. *)
LEMMA InvFirstMention == AstInv => AttrsOfFirstMention
<1> SUFFICES ASSUME AstInv, NEW k \in DOMAIN ast
             PROVE  ast[k].attrs = text[Min(About(ast[k]))].attrs
  BY DEF AttrsOfFirstMention
<1>1. DOMAIN text = 1 .. Len(text) /\ Len(text) \in Nat /\ DOMAIN ast = 1 .. Len(ast)
  BY LenProperties DEF AstInv, AstTypes
<1>2. PICK n \in 1 .. Len(text) : MadeBy(ast[k], text, n)
  BY <1>1 DEF AstInv, EachMentioned
<1>3. n \in About(ast[k])
  BY <1>1, <1>2 DEF About, MadeBy
<1>4. \A i \in About(ast[k]) : n <= i
  <2>1. SUFFICES ASSUME NEW i \in About(ast[k]), ~(n <= i) PROVE FALSE
    OBVIOUS
  <2>2. i \in 1 .. Len(text) /\ SameNode(ast[k], text[i])
    BY <1>1 DEF About
  <2>3. i \in 1 .. n - 1
    BY <2>1, <2>2
  <2>4. QED
    BY <1>2, <2>2, <2>3 DEF MadeBy
<1>5. \A i \in About(ast[k]) : i \in Nat
  BY <1>1 DEF About
<1>6. Min(About(ast[k])) = n
  <2>1. \A i \in About(ast[k]) : (\A y \in About(ast[k]) : i <= y) <=> i = n
    BY <1>3, <1>4, <1>5
  <2>2. PICK S : S = About(ast[k])
    OBVIOUS
  <2>3. Min(S) = CHOOSE x \in S : x = n
    BY <2>1, <2>2, Zenon DEF Min
  <2>4. QED
    BY <1>3, <2>2, <2>3
<1>7. QED
  BY <1>2, <1>6 DEF MadeBy

-----------------------------------------------------------------------------
LEMMA FrontInitInv == FrontInit => FrontInv
BY AstInitInv DEF FrontInit, FrontInv, WaitingInv

(* As long as files are read the walk has not begun. *)
LEMMA ReadStep == FrontInv /\ AstNext /\ UNCHANGED vars => FrontInv'
<1> SUFFICES ASSUME FrontInv, AstNext, UNCHANGED vars PROVE FrontInv'
  OBVIOUS
<1>1. parse = "parse"
  BY DEF AstNext, Define, Abort, EndOfFiles
<1>2. pc = "waiting" /\ WaitingInv
  BY <1>1 DEF FrontInv, WalkInv
<1>3. AstInv'
  BY AstStep DEF FrontInv
<1>4. pc' = "waiting" /\ WaitingInv'
  BY <1>2 DEF vars, WaitingInv
<1>5. QED
  BY <1>3, <1>4 DEF FrontInv

(* Interfaces are found by name: there is one of a name at most. *)
LEMMA PlaceFinds ==
  ASSUME AstInv
  PROVE  /\ 1 .. Len(ast) \subseteq Iface
         /\ \A name : /\ Place(name) \in Iface \cup {Undeclared}
                      /\ \A b \in Iface : b = Place(name) <=> b \in InterfaceNodes(name)
<1>1. DOMAIN ast = 1 .. Len(ast) /\ Len(ast) \in Nat /\ Len(text) \in Nat
  BY LenProperties DEF AstInv, AstTypes
<1>2. \A b \in 1 .. Len(ast) : b \in Iface
  BY <1>1, PlacesAssumption, DefinitionsAssumption, NAssumption DEF AstInv, AstTypes, Iface
<1>3. SUFFICES ASSUME NEW name
               PROVE  /\ Place(name) \in Iface \cup {Undeclared}
                      /\ \A b \in Iface : b = Place(name) <=> b \in InterfaceNodes(name)
  BY <1>2
<1>4. PICK S : S = InterfaceNodes(name)
  OBVIOUS
<1>5. S \subseteq 1 .. Len(ast) /\ \A j, k \in S : j = k
  BY <1>1, <1>4 DEF InterfaceNodes, AstInv, OneNode
<1>6. CASE S = {}
  <2>1. Place(name) = Undeclared
    BY <1>4, <1>6 DEF Place
  <2>2. QED
    BY <1>4, <1>6, <2>1, UndeclaredAssumption DEF Iface
<1>7. CASE S # {}
  <2>1. PICK k \in S : TRUE
    BY <1>7
  <2>2. \A j \in S : (\A m \in S : j <= m) <=> j = k
    BY <1>1, <1>5
  <2>3. Place(name) = CHOOSE j \in S : \A m \in S : j <= m
    BY <1>4, <1>7, Zenon DEF Place
  <2>4. (CHOOSE j \in S : \A m \in S : j <= m) = k
    <3>1. (CHOOSE j \in S : \A m \in S : j <= m) = CHOOSE j \in S : j = k
      BY <2>2, Zenon
    <3>2. QED
      BY <2>1, <3>1
  <2>5. S = {k}
    BY <1>5, <2>1
  <2>6. QED
    BY <1>2, <1>4, <1>5, <2>3, <2>4, <2>5
<1>8. QED
  BY <1>6, <1>7

LEMMA ResolvedLinks ==
  ASSUME AstInv
  PROVE  /\ Resolved \in [Iface -> Seq(Iface \cup {Undeclared})]
         /\ \A k \in Iface : ToSet(Resolved[k]) \cap Iface
                               = IF k \in 1 .. Len(ast) THEN ImplementedNodes(k) ELSE {}
<1>1. DOMAIN ast = 1 .. Len(ast) /\ Len(ast) \in Nat
  BY LenProperties DEF AstInv, AstTypes
<1>2. ASSUME NEW k \in Iface
      PROVE  /\ Resolved[k] \in Seq(Iface \cup {Undeclared})
             /\ ToSet(Resolved[k]) \cap Iface
                  = IF k \in 1 .. Len(ast) THEN ImplementedNodes(k) ELSE {}
  <2>1. CASE k \notin 1 .. Len(ast)
    <3>1. Resolved[k] = <<>>
      BY <1>1, <2>1 DEF Resolved
    <3>2. ToSet(<<>>) = {} /\ <<>> \in Seq(Iface \cup {Undeclared})
      BY DEF ToSet
    <3>3. QED
      BY <2>1, <3>1, <3>2
  <2>2. CASE k \in 1 .. Len(ast)
    <3>1. ast[k].implements \in Seq(Names)
      <4>1. ast[k] \in NodeRec
        BY <2>2 DEF AstInv, AstTypes
      <4>2. QED
        BY <4>1 DEF NodeRec
    <3>2. PICK s \in Seq(Names) : s = ast[k].implements
      BY <3>1
    <3>3. DOMAIN s = 1 .. Len(s) /\ Len(s) \in Nat
      BY LenProperties
    <3>4. Resolved[k] = [n \in 1 .. Len(s) |-> Place(s[n])]
      BY <1>1, <2>2, <3>2, <3>3, Zenon DEF Resolved
    <3>5. PICK r : r = [n \in 1 .. Len(s) |-> Place(s[n])]
      OBVIOUS
    <3>6. \A n \in 1 .. Len(s) : r[n] = Place(s[n]) /\ r[n] \in Iface \cup {Undeclared}
      BY <3>5, PlaceFinds
    <3>7. r \in Seq(Iface \cup {Undeclared})
      BY <3>3, <3>5, <3>6
    <3>8. ToSet(r) = {r[n] : n \in 1 .. Len(s)}
      BY <3>5 DEF ToSet
    <3>9. ToSet(s) = {s[n] : n \in 1 .. Len(s)}
      BY <3>3 DEF ToSet
    <3>10. \A b \in Iface : b \in ToSet(r) <=> \E n \in 1 .. Len(s) : b \in InterfaceNodes(s[n])
      BY <3>6, <3>8, PlaceFinds
    <3>11. \A b : b \in ImplementedNodes(k)
                    <=> b \in 1 .. Len(ast) /\ \E n \in 1 .. Len(s) : b \in InterfaceNodes(s[n])
      BY <1>1, <3>2, <3>9 DEF ImplementedNodes, InterfaceNodes
    <3>12. ToSet(r) \cap Iface = ImplementedNodes(k)
      <4>1. \A name : InterfaceNodes(name) \subseteq 1 .. Len(ast)
        BY <1>1 DEF InterfaceNodes
      <4>2. 1 .. Len(ast) \subseteq Iface
        BY PlaceFinds
      <4>3. QED
        BY <3>10, <3>11, <4>1, <4>2
    <3>13. QED
      BY <2>2, <3>4, <3>5, <3>7, <3>12
  <2>3. QED
    BY <2>1, <2>2
<1>3. Resolved = [k \in Iface |-> Resolved[k]]
  BY Zenon DEF Resolved
<1>4. QED
  BY <1>2, <1>3

LEMMA StartStep == FrontInv /\ StartWalk => FrontInv'
<1> SUFFICES ASSUME FrontInv, StartWalk PROVE FrontInv'
  OBVIOUS
<1>1. AstInv' /\ ast' = ast /\ parse' = "parsed" /\ pc' = "walk"
  BY AstUnchanged DEF FrontInv, StartWalk, astvars
<1>2. AstInv /\ WaitingInv
  BY DEF FrontInv, StartWalk
<1>3. /\ declared' \in [Iface -> Seq(Iface \cup {Undeclared})]
      /\ \A k \in Iface : ToSet(declared'[k]) \cap Iface
                            = IF k \in 1 .. Len(ast) THEN ImplementedNodes(k) ELSE {}
  <2>1. declared' = Resolved
    BY DEF StartWalk
  <2>2. QED
    BY <1>2, <2>1, ResolvedLinks, Zenon
<1>4. Init'
  BY <1>2, <1>3 DEF Init, StartWalk, WaitingInv
<1>5. IInv'
  BY <1>4, InitInv, PTL
<1>6. VisitedInv'
  <2>1. next' = 1
    BY <1>4 DEF Init
  <2>2. QED
    BY <2>1 DEF VisitedInv, Iface
<1>7. LinkedInv'
  <2>1. \A k : ImplementedNodes(k)' = ImplementedNodes(k)
    BY <1>1 DEF ImplementedNodes
  <2>2. QED
    BY <1>1, <1>3, <2>1, Zenon DEF LinkedInv
<1>8. QED
  BY <1>1, <1>5, <1>6, <1>7 DEF FrontInv, WalkInv

LEMMA VisitedStep == IInv /\ VisitedInv /\ Next => VisitedInv'
<1> SUFFICES ASSUME IInv, VisitedInv, Next, NEW a \in Iface, a < next', implements'[a] # <<>>
             PROVE  stack' # <<>> /\ a = stack'[1]
  BY DEF VisitedInv
<1>1. /\ TypeOK /\ next \in Int /\ a \in Int /\ stack \in Seq(Iface)
      /\ implements \in [Iface -> Seq(Iface \cup {Undeclared})]
  <2>1. TypeOK
    BY DEF IInv
  <2>2. next \in 1 .. N + 1 /\ a \in 1 .. N
    BY <2>1 DEF TypeOK, Iface
  <2>3. QED
    BY <2>1, <2>2, NAssumption DEF TypeOK
<1>2. CASE Visit
  BY <1>1, <1>2 DEF Visit, VisitedInv
<1>3. CASE WalkEnd
  BY <1>3 DEF WalkEnd, VisitedInv
<1>4. CASE Recurse
  <2>1. stack # <<>> /\ a = stack[1]
    BY <1>4 DEF Recurse, VisitedInv
  <2>2. Len(stack) \in Nat \ {0} /\ 1 \in 1 .. Len(stack)
    BY <1>1, <2>1, StackEnds
  <2>3. stack' = stack \/ \E b \in Iface : stack' = Append(stack, b)
    BY <1>4 DEF Recurse
  <2>4. \A b \in Iface : Append(stack, b) # <<>> /\ Append(stack, b)[1] = stack[1]
    BY <1>1, <2>2
  <2>5. QED
    BY <2>1, <2>3, <2>4
<1>5. CASE SkipUndeclared
  <2>1. implements[a] # <<>>
    <3>1. Top \in Iface /\ implements[Top] # <<>>
      BY <1>1, <1>5, StackEnds DEF SkipUndeclared
    <3>2. implements' = [implements EXCEPT ![Top] = Tail(@)]
      BY <1>5 DEF SkipUndeclared
    <3>3. a # Top => implements'[a] = implements[a]
      BY <3>2
    <3>4. QED
      BY <3>1, <3>3
  <2>2. QED
    BY <1>5, <2>1 DEF SkipUndeclared, VisitedInv
<1>6. CASE CopyAndUnlink
  <2>1. /\ Len(stack) \in Nat /\ Len(stack) > 1 /\ stack # <<>>
        /\ Caller = stack[Len(stack) - 1] /\ Caller \in Iface
        /\ Front(stack) \in Seq(Iface) /\ Len(Front(stack)) = Len(stack) - 1
        /\ \A k \in 1 .. Len(stack) - 1 : Front(stack)[k] = stack[k]
    <3>1. Len(stack) > 1 /\ stack # <<>>
      BY <1>1, <1>6 DEF CopyAndUnlink
    <3>2. QED
      BY <1>1, <3>1, StackEnds
  <2>2. implements[Caller] # <<>>
    <3>1. Len(stack) - 1 \in 1 .. Len(stack) - 1
      BY <2>1
    <3>2. QED
      BY <2>1, <3>1 DEF IInv, CallsPending
  <2>3. implements[a] # <<>>
    <3>1. implements' = [implements EXCEPT ![Caller] = Tail(@)]
      BY <1>6 DEF CopyAndUnlink
    <3>2. a # Caller => implements'[a] = implements[a]
      BY <3>1
    <3>3. QED
      BY <2>2, <3>2
  <2>4. a = stack[1]
    BY <1>6, <2>3 DEF CopyAndUnlink, VisitedInv
  <2>5. Front(stack) # <<>> /\ Front(stack)[1] = stack[1]
    BY <2>1
  <2>6. QED
    BY <1>6, <2>4, <2>5 DEF CopyAndUnlink
<1>7. CASE Return
  <2>1. implements[a] # <<>>
    BY <1>7 DEF Return
  <2>2. stack # <<>> /\ a = stack[1] /\ Len(stack) = 1
    BY <1>7, <2>1 DEF Return, VisitedInv
  <2>3. Top = stack[1] /\ implements[Top] = <<>>
    BY <1>1, <1>7, <2>2, StackEnds DEF Return
  <2>4. QED
    BY <2>1, <2>2, <2>3
<1>8. QED
  BY <1>2, <1>3, <1>4, <1>5, <1>6, <1>7 DEF Next

LEMMA WalkStep == FrontInv /\ Next /\ UNCHANGED astvars => FrontInv'
<1> SUFFICES ASSUME FrontInv, Next, UNCHANGED astvars PROVE FrontInv'
  OBVIOUS
<1>1. pc = "walk"
  BY DEF Next, Visit, WalkEnd, Recurse, SkipUndeclared, CopyAndUnlink, Return
<1>2. AstInv /\ WalkInv
  BY <1>1 DEF FrontInv
<1>3. AstInv' /\ ast' = ast /\ parse' = "parsed"
  BY <1>2, AstUnchanged DEF astvars, WalkInv
<1>4. IInv'
  BY <1>2, StepKeepsInv DEF WalkInv
<1>5. VisitedInv'
  BY <1>2, VisitedStep DEF WalkInv
<1>6. LinkedInv'
  <2>1. declared' = declared
    BY DEF Next, Visit, WalkEnd, Recurse, SkipUndeclared, CopyAndUnlink, Return
  <2>2. \A k : ImplementedNodes(k)' = ImplementedNodes(k)
    BY <1>3 DEF ImplementedNodes
  <2>3. QED
    BY <1>2, <1>3, <2>1, <2>2, Zenon DEF WalkInv, LinkedInv
<1>7. pc' = "done" => stack' = <<>> /\ next' > N
  BY <1>1 DEF Next, Visit, WalkEnd, Recurse, SkipUndeclared, CopyAndUnlink, Return
<1>8. pc' # "waiting"
  BY <1>4 DEF IInv, TypeOK
<1>9. QED
  BY <1>3, <1>4, <1>5, <1>6, <1>7, <1>8 DEF FrontInv, WalkInv

LEMMA FrontStutter == FrontInv /\ UNCHANGED <<astvars, vars>> => FrontInv'
<1> SUFFICES ASSUME FrontInv, UNCHANGED <<astvars, vars>> PROVE FrontInv'
  OBVIOUS
<1>1. AstInv' /\ ast' = ast /\ parse' = parse /\ pc' = pc /\ declared' = declared
  BY AstStep DEF FrontInv, astvars, vars
<1>2. pc = "waiting" => WaitingInv'
  BY DEF FrontInv, WaitingInv, vars
<1>3. ASSUME pc # "waiting" PROVE WalkInv'
  <2>1. WalkInv
    BY <1>3 DEF FrontInv
  <2>2. IInv'
    BY <2>1, StepKeepsInv DEF WalkInv
  <2>3. VisitedInv'
    BY <2>1 DEF WalkInv, VisitedInv, vars
  <2>4. LinkedInv'
    <3>1. \A k : ImplementedNodes(k)' = ImplementedNodes(k)
      BY <1>1 DEF ImplementedNodes
    <3>2. QED
      BY <1>1, <2>1, <3>1, Zenon DEF WalkInv, LinkedInv
  <2>5. QED
    BY <1>1, <2>1, <2>2, <2>3, <2>4 DEF WalkInv, vars
<1>4. QED
  BY <1>1, <1>2, <1>3 DEF FrontInv

(* The front end is in this state of affairs for good. *)
THEOREM FrontInvariant == FrontSpec => []FrontInv
<1>1. FrontInit => FrontInv
  BY FrontInitInv
<1>2. FrontInv /\ [FrontNext]_<<astvars, vars>> => FrontInv'
  BY ReadStep, StartStep, WalkStep, FrontStutter DEF FrontNext
<1>3. QED
  BY <1>1, <1>2, PTL DEF FrontSpec

-----------------------------------------------------------------------------
(* A text has in its implements statements what the nodes have. *)
LEMMA SaidByNodes ==
  ASSUME AstInv, NEW k \in 1 .. Len(ast), ast[k].type = "interface"
  PROVE  ToSet(ast[k].implements) = Said(ast[k].name)
<1>1. DOMAIN text = 1 .. Len(text) /\ \A n \in 1 .. Len(text) : text[n] \in Definition
  BY DEF AstInv, AstTypes
<1>2. \A n \in 1 .. Len(text) : text[n].form = "implements" => text[n].type = "interface"
  <2>1. \A d \in Definition : d.form = "implements" => d.type = "interface"
    BY DEF Definition
  <2>2. QED
    BY <1>1, <2>1
<1>3. HasMembers(ast[k], text)
  BY DEF AstInv, NodesInv
<1>4. {m \in 1 .. Len(text) : SameNode(ast[k], text[m]) /\ text[m].form = "implements"}
        = {m \in DOMAIN text : text[m].form = "implements" /\ text[m].name = ast[k].name}
  BY <1>1, <1>2 DEF SameNode
<1>5. QED
  BY <1>3, <1>4, Zenon DEF HasMembers, Said

LEMMA SaidNames ==
  ASSUME AstInv
  PROVE  \A c : Said(c) \subseteq Names
<1>1. DOMAIN text = 1 .. Len(text) /\ \A n \in 1 .. Len(text) : text[n] \in Definition
  BY DEF AstInv, AstTypes
<1>2. \A d \in Definition : d.form = "implements" => d.other \in Names
  BY DEF Definition
<1>3. QED
  BY <1>1, <1>2 DEF Said

LEMMA ImplementedClosed ==
  ASSUME AstInv, NEW a \in Names
  PROVE  /\ a \in Implemented(a) /\ Implemented(a) \subseteq Names
         /\ \A c \in Implemented(a) : Said(c) \subseteq Implemented(a)
         /\ \A S \in SUBSET Names : a \in S /\ (\A c \in S : Said(c) \subseteq S)
                                      => Implemented(a) \subseteq S
<1>1. \A c : Said(c) \subseteq Names
  BY SaidNames
<1>2. \A b \in Names : b \in Implemented(a)
        <=> \A S \in SUBSET Names : a \in S /\ (\A c \in S : Said(c) \subseteq S) => b \in S
  BY Zenon DEF Implemented
<1>3. Implemented(a) \subseteq Names
  BY DEF Implemented
<1>4. \A S \in SUBSET Names : a \in S /\ (\A c \in S : Said(c) \subseteq S)
                                => Implemented(a) \subseteq S
  BY <1>2, <1>3
<1>5. ASSUME NEW c \in Implemented(a), NEW x \in Said(c) PROVE x \in Implemented(a)
  <2>1. x \in Names
    BY <1>1, <1>5
  <2>2. SUFFICES ASSUME NEW S \in SUBSET Names, a \in S, \A y \in S : Said(y) \subseteq S
                 PROVE  x \in S
    BY <1>2, <2>1
  <2>3. c \in S
    BY <1>4, <1>5, <2>2
  <2>4. QED
    BY <1>5, <2>2, <2>3
<1>6. a \in Implemented(a)
  BY <1>2
<1>7. QED
  BY <1>3, <1>4, <1>5, <1>6

(* Nodes that are reached in the AST are those of the interfaces that the text
   says are implemented. *)
LEMMA ReachByName ==
  ASSUME AstInv, LinkedInv, NEW k \in 1 .. Len(ast), ast[k].type = "interface"
  PROVE  Reach(k) = {b \in 1 .. Len(ast) : ast[b].type = "interface"
                                             /\ ast[b].name \in Implemented(ast[k].name)}
<1> DEFINE a == ast[k].name
           T == {b \in 1 .. Len(ast) : ast[b].type = "interface" /\ ast[b].name \in Implemented(a)}
<1>1. /\ 1 .. Len(ast) \subseteq Iface /\ k \in Iface
      /\ \A b \in 1 .. Len(ast) : ast[b].name \in Names
  <2>1. \A b \in 1 .. Len(ast) : ast[b] \in NodeRec
    BY DEF AstInv, AstTypes
  <2>2. \A b \in 1 .. Len(ast) : ast[b].name \in Names
    BY <2>1 DEF NodeRec
  <2>3. 1 .. Len(ast) \subseteq Iface
    BY PlaceFinds
  <2>4. QED
    BY <2>2, <2>3
<1>2. /\ a \in Implemented(a) /\ Implemented(a) \subseteq Names
      /\ \A c \in Implemented(a) : Said(c) \subseteq Implemented(a)
      /\ \A S \in SUBSET Names : a \in S /\ (\A c \in S : Said(c) \subseteq S)
                                   => Implemented(a) \subseteq S
  BY <1>1, ImplementedClosed
<1>3. ASSUME NEW b \in 1 .. Len(ast), ast[b].type = "interface"
      PROVE  ToSet(declared[b]) \cap Iface
               = {c \in 1 .. Len(ast) : ast[c].type = "interface" /\ ast[c].name \in Said(ast[b].name)}
  BY <1>1, <1>3, SaidByNodes DEF LinkedInv, ImplementedNodes
<1>4. Reach(k) \subseteq T
  <2>1. k \in T /\ T \in SUBSET Iface
    BY <1>1, <1>2
  <2>2. Closed(T)
    <3>1. SUFFICES ASSUME NEW b \in T, NEW c \in ToSet(declared[b]) \cap Iface PROVE c \in T
      BY DEF Closed
    <3>2. c \in 1 .. Len(ast) /\ ast[c].type = "interface" /\ ast[c].name \in Said(ast[b].name)
      BY <1>3, <3>1
    <3>3. QED
      BY <1>2, <3>1, <3>2
  <2> HIDE DEF T
  <2>3. QED
    BY <1>1, <2>1, <2>2, ReachLeast
<1>5. T \subseteq Reach(k)
  <2> DEFINE S == {c \in Names : \A b \in 1 .. Len(ast) :
                     ast[b].type = "interface" /\ ast[b].name = c => b \in Reach(k)}
  <2>1. k \in Reach(k) /\ Closed(Reach(k))
    BY <1>1, ReachLeast
  <2>2. a \in S
    BY <1>1, <2>1 DEF AstInv, OneNode
  <2>3. \A c \in S : Said(c) \subseteq S
    <3>1. SUFFICES ASSUME NEW c \in S, NEW x \in Said(c), NEW b \in 1 .. Len(ast),
                          ast[b].type = "interface", ast[b].name = x
                   PROVE  b \in Reach(k)
      BY SaidNames
    <3>2. DOMAIN text = 1 .. Len(text) /\ \A n \in 1 .. Len(text) : text[n] \in Definition
      BY DEF AstInv, AstTypes
    <3>3. PICK n \in 1 .. Len(text) : text[n].form = "implements" /\ text[n].name = c
      BY <3>1, <3>2 DEF Said
    <3>4. text[n].type = "interface"
      <4>1. \A d \in Definition : d.form = "implements" => d.type = "interface"
        BY DEF Definition
      <4>2. QED
        BY <3>2, <3>3, <4>1
    <3>5. PICK j \in 1 .. Len(ast) : SameNode(ast[j], text[n])
      BY DEF AstInv, EachDefined
    <3>6. ast[j].type = "interface" /\ ast[j].name = c
      BY <3>3, <3>4, <3>5 DEF SameNode
    <3>7. j \in Reach(k)
      BY <3>1, <3>6
    <3>8. b \in ToSet(declared[j]) \cap Iface
      BY <1>3, <3>1, <3>6
    <3>9. QED
      BY <2>1, <3>7, <3>8 DEF Closed
  <2>4. S \in SUBSET Names
    OBVIOUS
  <2>5. Implemented(a) \subseteq S
    <3> HIDE DEF S
    <3>1. QED
      BY <1>2, <2>2, <2>3, <2>4
  <2>6. QED
    BY <2>5
<1>6. QED
  BY <1>4, <1>5

(* A dictionary implements nothing. *)
LEMMA DictionaryAlone ==
  ASSUME AstInv, LinkedInv, NEW k \in 1 .. Len(ast), ast[k].type = "dictionary"
  PROVE  Reach(k) = {k}
<1>1. k \in Iface
  BY PlaceFinds
<1>2. ToSet(ast[k].implements) = {}
  <2>1. \A n \in 1 .. Len(text) : text[n] \in Definition
    BY DEF AstInv, AstTypes
  <2>2. \A d \in Definition : d.form = "implements" => d.type = "interface"
    BY DEF Definition
  <2>3. \A n \in 1 .. Len(text) : ~(SameNode(ast[k], text[n]) /\ text[n].form = "implements")
    BY <2>1, <2>2 DEF SameNode
  <2>4. HasMembers(ast[k], text)
    BY DEF AstInv, NodesInv
  <2>5. QED
    BY <2>3, <2>4 DEF HasMembers
<1>3. ToSet(declared[k]) \cap Iface = {}
  BY <1>1, <1>2 DEF LinkedInv, ImplementedNodes
<1>4. Closed({k})
  BY <1>3 DEF Closed
<1>5. QED
  BY <1>1, <1>4, ReachLeast

(* When the walk is done the members are those the text gives. *)
LEMMA InvMembers == FrontInv => MembersOfText
<1> SUFFICES ASSUME FrontInv, pc = "done", NEW k \in DOMAIN ast
             PROVE  Members(k) = IF ast[k].type = "dictionary" THEN ToSet(ast[k].lists)
                                 ELSE {n \in DOMAIN text :
                                         /\ text[n].type = "interface" /\ text[n].form # "implements"
                                         /\ text[n].name \in Implemented(ast[k].name)}
  BY DEF MembersOfText
<1>1. AstInv /\ WalkInv /\ IInv /\ LinkedInv
  BY DEF FrontInv, WalkInv
<1>2. DOMAIN ast = 1 .. Len(ast) /\ DOMAIN text = 1 .. Len(text) /\ k \in Iface
  <2>1. DOMAIN ast = 1 .. Len(ast) /\ DOMAIN text = 1 .. Len(text)
    BY <1>1 DEF AstInv, AstTypes
  <2>2. QED
    BY <1>1, <2>1, PlaceFinds
<1>3. ast[k].type \in {"interface", "dictionary"}
  <2>1. ast[k] \in NodeRec
    BY <1>1, <1>2 DEF AstInv, AstTypes
  <2>2. QED
    BY <2>1 DEF NodeRec
<1>4. ToSet(lists[k]) = Reach(k)
  <2>1. k < next
    <3>1. next > N /\ next \in 1 .. N + 1
      BY <1>1 DEF WalkInv, IInv, TypeOK
    <3>2. QED
      BY <1>2, <3>1, NAssumption DEF Iface
  <2>2. implements[k] = <<>>
    BY <1>1, <1>2, <2>1 DEF WalkInv, VisitedInv
  <2>3. QED
    BY <1>1, <1>2, <2>2, UnlinkedIsComplete DEF CompleteWhenUnlinked
<1>5. CASE ast[k].type = "dictionary"
  <2>1. Reach(k) = {k}
    BY <1>1, <1>2, <1>5, DictionaryAlone
  <2>2. QED
    BY <1>4, <1>5, <2>1 DEF Members
<1>6. CASE ast[k].type = "interface"
  <2> DEFINE R == {b \in 1 .. Len(ast) : ast[b].type = "interface"
                                           /\ ast[b].name \in Implemented(ast[k].name)}
             M == {n \in 1 .. Len(text) :
                     /\ text[n].type = "interface" /\ text[n].form # "implements"
                     /\ text[n].name \in Implemented(ast[k].name)}
  <2>1. Reach(k) = R
    BY <1>1, <1>2, <1>6, ReachByName
  <2>2. \A b \in 1 .. Len(ast) : ToSet(ast[b].lists)
          = {n \in 1 .. Len(text) : SameNode(ast[b], text[n]) /\ text[n].form # "implements"}
    BY <1>1 DEF AstInv, NodesInv, HasMembers
  <2>3. ASSUME NEW b \in R, NEW n \in ToSet(ast[b].lists) PROVE n \in M
    BY <2>2, <2>3 DEF SameNode
  <2>4. ASSUME NEW n \in M PROVE \E b \in R : n \in ToSet(ast[b].lists)
    <3>1. PICK b \in 1 .. Len(ast) : SameNode(ast[b], text[n])
      BY <1>1 DEF AstInv, EachDefined
    <3>2. b \in R
      BY <3>1 DEF SameNode
    <3>3. n \in ToSet(ast[b].lists)
      BY <2>2, <3>1
    <3>4. QED
      BY <3>2, <3>3
  <2>5. Members(k) = UNION {ToSet(ast[b].lists) : b \in R}
    BY <1>4, <2>1, Zenon DEF Members
  <2>6. M = UNION {ToSet(ast[b].lists) : b \in R}
    <3> HIDE DEF R, M
    <3>1. QED
      BY <2>3, <2>4
  <2>7. QED
    BY <1>2, <1>6, <2>5, <2>6
<1>7. QED
  BY <1>3, <1>5, <1>6

-----------------------------------------------------------------------------
(* webidl-parser.y: whatever definitions the files hold, in whatever order,
   each has one node, and a node has the parts of the definitions of its
   name, all of them, in the order of the text. *)
THEOREM NodesGather == FrontSpec => []NodesGatherText
<1>1. FrontInv => NodesGatherText
  BY InvGathers DEF FrontInv
<1>2. QED
  BY <1>1, FrontInvariant, PTL

(* webidl_node_add: the first definition that mentions a name decides on the
   extended attributes of its node, for good. *)
THEOREM FirstMentionDecides == FrontSpec => []AttrsOfFirstMention
<1>1. FrontInv => AttrsOfFirstMention
  BY InvFirstMention DEF FrontInv
<1>2. QED
  BY <1>1, FrontInvariant, PTL

(* genbind_load_idl from end to end: once the walk is done, an interface has
   the members the text says it has, in its own definitions and in those of
   all that it implements. *)
THEOREM TextToMembers == FrontSpec => []MembersOfText
<1>1. FrontInv => MembersOfText
  BY InvMembers
<1>2. QED
  BY <1>1, FrontInvariant, PTL

-----------------------------------------------------------------------------
(* the IMPLEMENTS nodes still linked, each as its interface and its position *)
LinksLeft == UNION {{a} \X (1 .. Len(implements[a])) : a \in Iface}


(* the calls still to make and to return from, at most: an interface is visited
   once, and a deeper stack has fewer calls left to hold *)
CallsLeft == 3 * (N + 1 - next) + (IF stack # <<>> THEN 3 ELSE 0)
               + (MaxDepth - Len(stack)) + (IF pc = "walk" THEN 1 ELSE 0)

(* what is left of the walk; the node unlinked when a call is over weighs more
   than the frame that its return sets free *)
WalkMeasure == 2 * Cardinality(LinksLeft) + CallsLeft

LEMMA LinksFinite == TypeOK => IsFiniteSet(LinksLeft)
<1> SUFFICES ASSUME TypeOK PROVE IsFiniteSet(LinksLeft)
  OBVIOUS
<1> DEFINE f == [a \in Iface |-> {a} \X (1 .. Len(implements[a]))]
           T == {{a} \X (1 .. Len(implements[a])) : a \in Iface}
<1>1. f \in Surjection(Iface, T)
  BY DEF Surjection
<1>2. IsFiniteSet(Iface)
  BY FS_Interval, NAssumption DEF Iface
<1>3. IsFiniteSet(T)
  <2> HIDE DEF f, T
  <2>1. QED
    BY <1>1, <1>2, FS_Surjection
<1>4. ASSUME NEW U \in T PROVE IsFiniteSet(U)
  <2>1. PICK a \in Iface : U = {a} \X (1 .. Len(implements[a]))
    OBVIOUS
  <2>2. Len(implements[a]) \in Nat
    BY DEF TypeOK
  <2>3. IsFiniteSet({a})
    BY FS_Singleton
  <2>4. PICK n \in Nat : n = Len(implements[a])
    BY <2>2
  <2>5. IsFiniteSet(1 .. n)
    <3>1. 1 \in Int /\ n \in Int
      OBVIOUS
    <3>2. QED
      BY <3>1, FS_Interval
  <2>6. QED
    BY <2>1, <2>3, <2>4, <2>5, FS_Product
<1> HIDE DEF T
<1>5. IsFiniteSet(UNION T)
  BY <1>3, <1>4, FS_UNION
<1>6. QED
  BY <1>5 DEF T, LinksLeft

LEMMA UnlinkOne ==
  ASSUME TypeOK, NEW c \in Iface, implements[c] # <<>>,
         implements' = [implements EXCEPT ![c] = Tail(@)]
  PROVE  Cardinality(LinksLeft') = Cardinality(LinksLeft) - 1
<1>1. /\ Len(implements[c]) \in Nat \ {0} /\ Len(implements'[c]) = Len(implements[c]) - 1
      /\ \A a \in Iface : a # c => implements'[a] = implements[a]
  <2>1. implements[c] \in Seq(Iface \cup {Undeclared}) /\ implements'[c] = Tail(implements[c])
        /\ \A a \in Iface : a # c => implements'[a] = implements[a]
    BY DEF TypeOK
  <2>2. PICK s \in Seq(Iface \cup {Undeclared}) : s = implements[c]
    BY <2>1
  <2>3. Len(s) \in Nat \ {0} /\ Len(Tail(s)) = Len(s) - 1
    BY <2>2, EmptySeq, HeadTailProperties
  <2>4. QED
    BY <2>1, <2>2, <2>3
<1>2. \A a \in Iface : Len(implements[a]) \in Nat
  BY DEF TypeOK
<1> DEFINE last == <<c, Len(implements[c])>>
<1>3. \A a, n : <<a, n>> \in LinksLeft <=> a \in Iface /\ n \in 1 .. Len(implements[a])
  BY DEF LinksLeft
<1>4. \A a, n : <<a, n>> \in LinksLeft' <=> a \in Iface /\ n \in 1 .. Len(implements'[a])
  BY DEF LinksLeft, Iface
<1>5. last \in LinksLeft
  BY <1>1, <1>3
<1>6. \A x : (x \in LinksLeft \/ x \in LinksLeft') => x = <<x[1], x[2]>>
  BY DEF LinksLeft
<1>7. \A a, n : <<a, n>> \in LinksLeft' <=> <<a, n>> \in LinksLeft /\ <<a, n>> # last
  <2>1. SUFFICES ASSUME NEW a, NEW n
                 PROVE  <<a, n>> \in LinksLeft' <=> <<a, n>> \in LinksLeft /\ <<a, n>> # last
    OBVIOUS
  <2>2. CASE a = c
    <3>1. \A m : m \in 1 .. Len(implements'[c]) <=> m \in 1 .. Len(implements[c]) /\ m # Len(implements[c])
      BY <1>1
    <3>2. QED
      BY <1>3, <1>4, <2>2, <3>1
  <2>3. CASE a # c
    BY <1>1, <1>3, <1>4, <2>3
  <2>4. QED
    BY <2>2, <2>3
<1>8. LinksLeft' = LinksLeft \ {last}
  <2> HIDE DEF last
  <2>1. \A x : x \in LinksLeft' <=> x \in LinksLeft /\ x # last
    BY <1>6, <1>7
  <2>2. QED
    BY <2>1
<1>9. IsFiniteSet(LinksLeft)
  BY LinksFinite
<1>10. Cardinality(LinksLeft \ {last}) = Cardinality(LinksLeft) - 1
  <2> HIDE DEF last
  <2>1. QED
    BY <1>5, <1>9, FS_RemoveElement
<1>2b. QED
  BY <1>8, <1>10

LEMMA MeasureNat == TypeOK => WalkMeasure \in Nat
<1> SUFFICES ASSUME TypeOK PROVE WalkMeasure \in Nat
  OBVIOUS
<1>1. Cardinality(LinksLeft) \in Nat
  BY LinksFinite, FS_CardinalityType
<1>2. N + 1 - next \in Nat
  BY NAssumption DEF TypeOK
<1>3. MaxDepth - Len(stack) \in Nat
  <2>1. Len(stack) \in Nat /\ Len(stack) <= MaxDepth /\ MaxDepth \in Nat
    BY MaxDepthAssumption DEF TypeOK
  <2>2. QED
    BY <2>1
<1>4. QED
  BY <1>1, <1>2, <1>3 DEF WalkMeasure, CallsLeft

(* Every step of the walk leaves less to do. *)
LEMMA StepMeasured == IInv /\ Next => WalkMeasure' < WalkMeasure
<1> SUFFICES ASSUME IInv, Next PROVE WalkMeasure' < WalkMeasure
  OBVIOUS
<1>1. /\ TypeOK /\ next \in 1 .. N + 1 /\ N \in Nat /\ MaxDepth \in Nat
      /\ stack \in Seq(Iface) /\ Len(stack) \in Nat /\ pc \in {"walk", "done", "overflow"}
  BY NAssumption, MaxDepthAssumption DEF IInv, TypeOK
<1>2. PICK L \in Nat : L = Cardinality(LinksLeft)
  BY <1>1, LinksFinite, FS_CardinalityType
<1> PICK D \in Nat : D = Len(stack)
  BY <1>1
<1>2b. CallsLeft \in Int
  BY <1>1 DEF CallsLeft
<1>3. implements' = implements => Cardinality(LinksLeft') = L
  BY <1>2 DEF LinksLeft, Iface
<1>4. CASE Visit
  <2>1. Cardinality(LinksLeft') = L
    BY <1>3, <1>4 DEF Visit
  <2>2. stack = <<>> /\ stack' # <<>> /\ Len(stack) = 0 /\ Len(stack') = 1 /\ next' = next + 1 /\ pc' = pc
    BY <1>4 DEF Visit
  <2>3. QED
    BY <1>1, <1>2, <2>1, <2>2 DEF WalkMeasure, CallsLeft
<1>5. CASE WalkEnd
  <2>1. Cardinality(LinksLeft') = L
    BY <1>3, <1>5 DEF WalkEnd
  <2>2. stack' = stack /\ next' = next /\ pc = "walk" /\ pc' = "done"
    BY <1>5 DEF WalkEnd
  <2>3. QED
    BY <1>1, <1>2, <2>1, <2>2 DEF WalkMeasure, CallsLeft
<1>6. CASE Recurse
  <2>1. Cardinality(LinksLeft') = L /\ next' = next /\ stack # <<>>
    BY <1>3, <1>6 DEF Recurse
  <2>2. \/ pc' = "overflow" /\ stack' = stack
        \/ pc' = pc /\ \E b \in Iface : stack' = Append(stack, b)
    BY <1>6 DEF Recurse
  <2>3. CASE pc' = "overflow" /\ stack' = stack
    <3>1. pc = "walk"
      BY <1>6 DEF Recurse
    <3>2. QED
      BY <1>1, <1>2, <2>1, <2>3, <3>1 DEF WalkMeasure, CallsLeft
  <2>4. CASE pc' = pc /\ \E b \in Iface : stack' = Append(stack, b)
    <3>1. stack' # <<>> /\ Len(stack') = Len(stack) + 1
      BY <1>1, <2>4
    <3>2. QED
      BY <1>1, <1>2, <2>1, <2>4, <3>1 DEF WalkMeasure, CallsLeft
  <2>5. QED
    BY <2>2, <2>3, <2>4
<1>7. CASE SkipUndeclared
  <2>1. Top \in Iface /\ implements[Top] # <<>>
    BY <1>1, <1>7, StackEnds DEF SkipUndeclared
  <2>2. implements' = [implements EXCEPT ![Top] = Tail(@)]
    BY <1>7 DEF SkipUndeclared
  <2>3. Cardinality(LinksLeft') = L - 1
    BY <1>1, <1>2, <2>1, <2>2, UnlinkOne
  <2>4. stack' = stack /\ next' = next /\ pc' = pc
    BY <1>7 DEF SkipUndeclared
  <2>5. CallsLeft' = CallsLeft
    BY <2>4 DEF CallsLeft
  <2>6. QED
    BY <1>2, <1>2b, <2>3, <2>5 DEF WalkMeasure
<1>8. CASE CopyAndUnlink
  <2>1. Len(stack) > 1 /\ stack # <<>>
    BY <1>1, <1>8 DEF CopyAndUnlink
  <2>2. /\ Caller = stack[Len(stack) - 1] /\ Caller \in Iface
        /\ Front(stack) \in Seq(Iface) /\ Len(Front(stack)) = Len(stack) - 1
    BY <1>1, <2>1, StackEnds
  <2>3. implements[Caller] # <<>>
    <3>1. Len(stack) - 1 \in 1 .. Len(stack) - 1
      BY <1>1, <2>1
    <3>2. QED
      BY <2>2, <3>1 DEF IInv, CallsPending
  <2>4. implements' = [implements EXCEPT ![Caller] = Tail(@)]
    BY <1>8 DEF CopyAndUnlink
  <2>5. Cardinality(LinksLeft') = L - 1
    BY <1>1, <1>2, <2>2, <2>3, <2>4, UnlinkOne
  <2>6. stack' # <<>> /\ Len(stack') = Len(stack) - 1 /\ next' = next /\ pc' = pc
    BY <1>8, <2>1, <2>2 DEF CopyAndUnlink
  <2>7. CallsLeft' = CallsLeft + 1
    <3>1. Len(stack') = D - 1 /\ Len(stack) = D
      BY <2>6
    <3>2. QED
      BY <1>1, <2>1, <2>6, <3>1 DEF CallsLeft
  <2>8. QED
    BY <1>2, <1>2b, <2>5, <2>7 DEF WalkMeasure
<1>9. CASE Return
  <2>1. Cardinality(LinksLeft') = L
    BY <1>3, <1>9 DEF Return
  <2>2. Len(stack) = 1 /\ stack # <<>> /\ stack' = <<>> /\ Len(stack') = 0 /\ next' = next /\ pc' = pc
    BY <1>1, <1>9 DEF Return
  <2>3. QED
    BY <1>1, <1>2, <2>1, <2>2 DEF WalkMeasure, CallsLeft
<1>10. QED
  BY <1>4, <1>5, <1>6, <1>7, <1>8, <1>9 DEF Next

(* intercalate_implements and the walk that calls it never run on: every step
   leaves less to do, a natural number of things, circular or not. *)
THEOREM WalkGetsOn == Spec => [][WalkMeasure' < WalkMeasure /\ WalkMeasure \in Nat]_vars
<1>1. IInv /\ [Next]_vars => [WalkMeasure' < WalkMeasure /\ WalkMeasure \in Nat]_vars
  BY StepMeasured, MeasureNat DEF IInv
<1>2. QED
  BY <1>1, Invariant, PTL DEF Spec

(* At the end of the walk no interface has an IMPLEMENTS node left. *)
AllResolved == pc = "done" => \A a \in Iface : implements[a] = <<>>

(* webidl_intercalate_implements: the walk only ends when all implements
   statements are resolved, whatever the recursion from other interfaces has
   done before. *)
THEOREM ResolvesAll == Spec => []AllResolved
<1> DEFINE DoneInv == pc = "done" => stack = <<>> /\ next > N
<1>1. Init => VisitedInv /\ DoneInv
  <2> SUFFICES ASSUME Init PROVE VisitedInv /\ DoneInv
    OBVIOUS
  <2>1. next = 1 /\ pc = "walk"
    BY DEF Init
  <2>2. QED
    BY <2>1 DEF VisitedInv, Iface
<1>2. IInv /\ VisitedInv /\ DoneInv /\ [Next]_vars => (VisitedInv /\ DoneInv)'
  <2> SUFFICES ASSUME IInv, VisitedInv, DoneInv, [Next]_vars PROVE (VisitedInv /\ DoneInv)'
    OBVIOUS
  <2>1. CASE UNCHANGED vars
    BY <2>1 DEF vars, VisitedInv
  <2>2. CASE Next
    <3>1. VisitedInv'
      BY <2>2, VisitedStep
    <3>2. DoneInv'
      BY <2>2 DEF Next, Visit, WalkEnd, Recurse, SkipUndeclared, CopyAndUnlink, Return
    <3>3. QED
      BY <3>1, <3>2
  <2>3. QED
    BY <2>1, <2>2
<1>3. IInv /\ VisitedInv /\ DoneInv => AllResolved
  <2> SUFFICES ASSUME IInv, VisitedInv, DoneInv, pc = "done", NEW a \in Iface
               PROVE  implements[a] = <<>>
    BY DEF AllResolved
  <2>1. next > N /\ next \in 1 .. N + 1 /\ a \in 1 .. N
    BY DEF IInv, TypeOK, Iface
  <2>2. a < next
    BY <2>1, NAssumption
  <2>3. QED
    BY <2>2 DEF VisitedInv
<1> HIDE DEF DoneInv
<1>4. QED
  BY <1>1, <1>2, <1>3, Invariant, PTL DEF Spec
=============================================================================

----------------------------- MODULE Intercalate -----------------------------
(***************************************************************************)
(* webidl_intercalate_implements (webidl-ast.c): after the last IDL file   *)
(* is parsed, every "A implements B" is resolved by copying the member     *)
(* lists of B onto A.  The walk visits every interface of the AST and      *)
(* recurses into the interface implemented before copying from it; an      *)
(* IMPLEMENTS node is unlinked once its copy is made.                      *)
(*                                                                         *)
(* Of the children of an interface node only the LIST and IMPLEMENTS nodes *)
(* matter here and each kind is only ever looked up by type, so the model  *)
(* keeps one sequence of each, in the order webidl_node_find_type yields   *)
(* them: from the end of the sibling chain, where the first node added     *)
(* stands, to its front.  A LIST is known by the interface that declared   *)
(* it; copying a LIST node shares its children.                            *)
(***************************************************************************)
EXTENDS Integers, SequencesExt

CONSTANTS
  N,          \* interfaces of the AST, in the order of their declaration
  Undeclared, \* an interface that is implemented but declared nowhere
  MaxDepth    \* bound on the depth of the recursion: the C stack

ASSUME NAssumption == N \in Nat
ASSUME UndeclaredAssumption == Undeclared \notin 1 .. N
ASSUME MaxDepthAssumption == MaxDepth \in Nat /\ MaxDepth > N

Iface == 1 .. N

VARIABLES
  declared,    \* declared[a]: what a implements according to the IDL text
  implements,  \* implements[a]: IMPLEMENTS nodes still linked to a
  lists,       \* lists[a]: owners of the LIST nodes of a
  stack,       \* interfaces of the active calls, outermost first
  next,        \* interface the walk over the AST visits next
  pc           \* "walk", "done" or "overflow"

vars == <<declared, implements, lists, stack, next, pc>>

Top == Last(stack)
Caller == Last(Front(stack))

-----------------------------------------------------------------------------
(* mistake: only the first LIST of the interface is copied *)
CopiedFirst(from, to) == Append(lists[to], Head(lists[from]))

(* implements_copy_nodes walks the source chain from its front and prepends
   each copy to the destination chain *)
Copied(from, to) == lists[to] \o Reverse(lists[from])

Init == /\ declared \in [Iface -> Seq(Iface \cup {Undeclared})]
        /\ implements = declared
        /\ lists = [a \in Iface |-> <<a>>]
        /\ stack = <<>>
        /\ next = 1
        /\ pc = "walk"

(* the walk of the AST calls intercalate_implements on the next interface *)
Visit == /\ pc = "walk" /\ stack = <<>> /\ next <= N
         /\ stack' = <<next>>
         /\ next' = next + 1
         /\ UNCHANGED <<declared, implements, lists, pc>>

WalkEnd == /\ pc = "walk" /\ stack = <<>> /\ next > N
           /\ pc' = "done"
           /\ UNCHANGED <<declared, implements, lists, stack, next>>

(* mistake: the recursion is made on the interface at hand *)
RecurseSelf == /\ pc = "walk" /\ stack # <<>>
               /\ implements[Top] # <<>>
               /\ Head(implements[Top]) \in Iface
               /\ IF Len(stack) < MaxDepth
                  THEN stack' = Append(stack, Top) /\ UNCHANGED pc
                  ELSE pc' = "overflow" /\ UNCHANGED stack
               /\ UNCHANGED <<declared, implements, lists, next>>

(* mistake: the node is unlinked before the recursion it is needed for *)
RecurseUnlinked == /\ pc = "walk" /\ stack # <<>>
                   /\ implements[Top] # <<>>
                   /\ Head(implements[Top]) \in Iface
                   /\ implements' = [implements EXCEPT ![Top] = Tail(@)]
                   /\ stack' = Append(stack, Head(implements[Top]))
                   /\ UNCHANGED <<declared, lists, next, pc>>

(* the first IMPLEMENTS node names an interface: recurse into it *)
Recurse == /\ pc = "walk" /\ stack # <<>>
           /\ implements[Top] # <<>>
           /\ LET b == Head(implements[Top])
              IN  /\ b \in Iface
                  /\ IF Len(stack) < MaxDepth
                     THEN stack' = Append(stack, b) /\ UNCHANGED pc
                     ELSE pc' = "overflow" /\ UNCHANGED stack
           /\ UNCHANGED <<declared, implements, lists, next>>

(* it names no interface of the AST: the recursion and the copy see NULL
   and do nothing, the node is unlinked *)
SkipUndeclared == /\ pc = "walk" /\ stack # <<>>
                  /\ implements[Top] # <<>>
                  /\ Head(implements[Top]) \notin Iface
                  /\ implements' = [implements EXCEPT ![Top] = Tail(@)]
                  /\ UNCHANGED <<declared, lists, stack, next, pc>>

(* mistake: the last IMPLEMENTS node is unlinked *)
CopyAndUnlinkLast == /\ pc = "walk" /\ Len(stack) > 1
                     /\ implements[Top] = <<>>
                     /\ lists' = [lists EXCEPT ![Caller] = Copied(Top, Caller)]
                     /\ implements' = [implements EXCEPT ![Caller] = Front(@)]
                     /\ stack' = Front(stack)
                     /\ UNCHANGED <<declared, next, pc>>

(* mistake: source and destination of the copy are swapped *)
CopyBackAndUnlink == /\ pc = "walk" /\ Len(stack) > 1
                     /\ implements[Top] = <<>>
                     /\ lists' = [lists EXCEPT ![Top] = Copied(Caller, Top)]
                     /\ implements' = [implements EXCEPT ![Caller] = Tail(@)]
                     /\ stack' = Front(stack)
                     /\ UNCHANGED <<declared, next, pc>>

(* the call on Top is over: its caller copies and unlinks *)
CopyAndUnlink == /\ pc = "walk" /\ Len(stack) > 1
                 /\ implements[Top] = <<>>
                 /\ lists' = [lists EXCEPT ![Caller] = Copied(Top, Caller)]
                 /\ implements' = [implements EXCEPT ![Caller] = Tail(@)]
                 /\ stack' = Front(stack)
                 /\ UNCHANGED <<declared, next, pc>>

(* the call made by the walk is over *)
Return == /\ pc = "walk" /\ Len(stack) = 1
          /\ implements[Top] = <<>>
          /\ stack' = <<>>
          /\ UNCHANGED <<declared, implements, lists, next, pc>>

Next == \/ Visit \/ WalkEnd
        \/ Recurse \/ SkipUndeclared \/ CopyAndUnlink \/ Return

Spec == Init /\ [][Next]_vars

-----------------------------------------------------------------------------
(* a set of interfaces with a and all that a member implements *)
Closed(S) == \A b \in S : ToSet(declared[b]) \cap Iface \subseteq S
Reach(a) == {b \in Iface : \A S \in SUBSET Iface : a \in S /\ Closed(S) => b \in S}

Circular == \E a \in Iface : \E b \in ToSet(declared[a]) \cap Iface : a \in Reach(b)

(* The node lists, the call stack and the walk stay within their types; the
   recursion never has more frames than the stack holds. *)
TypeOK == /\ declared \in [Iface -> Seq(Iface \cup {Undeclared})]
          /\ implements \in [Iface -> Seq(Iface \cup {Undeclared})]
          /\ lists \in [Iface -> Seq(Iface)]
          /\ stack \in Seq(Iface) /\ Len(stack) <= MaxDepth
          /\ next \in 1 .. N+1
          /\ pc \in {"walk", "done", "overflow"}

(* Every active call was made for the first IMPLEMENTS node of its caller,
   and that node is still linked: the search for the next node after the
   unlink, which starts over because prev has left the chain
   (webidl-ast.c:757-763), can neither skip nor repeat a node. *)
CallsPending == \A k \in 1 .. Len(stack) - 1 :
   implements[stack[k]] # <<>> /\ Head(implements[stack[k]]) = stack[k+1]

(* An interface whose IMPLEMENTS nodes are gone has the members of every
   interface it implements, directly or not: whoever copies from it (the
   recursion does so early) gets all of them. *)
CompleteWhenUnlinked ==
  \A a \in Iface : implements[a] = <<>> => ToSet(lists[a]) = Reach(a)

(* At no time has an interface members of one it does not implement. *)
OnlyImplemented == \A a \in Iface : ToSet(lists[a]) \subseteq Reach(a)

(* An interface implemented along one path only is copied exactly once;
   meeting it again while walking the AST copies nothing twice. *)
Copies(a, b) == {k \in 1 .. Len(lists[a]) : lists[a][k] = b}
SinglePath(a, b) ==
  \A c \in Reach(a) :
    /\ IsInjective(declared[c])
    /\ \A k, m \in 1 .. Len(declared[c]) :
         (/\ {declared[c][k], declared[c][m]} \subseteq Iface
          /\ b \in Reach(declared[c][k]) \cap Reach(declared[c][m])) => k = m
CopiedOnce ==
  ~Circular => \A a, b \in Iface : SinglePath(a, b) =>
                 \A k, m \in Copies(a, b) : k = m

(* The recursion runs out of stack only when the IDL implements in a circle. *)
OverflowOnlyIfCircular == pc = "overflow" => Circular

(* With no circle the resolution ends, with no IMPLEMENTS node left. *)
Resolves == ~Circular => <>(pc = "done" /\ \A a \in Iface : implements[a] = <<>>)
=============================================================================

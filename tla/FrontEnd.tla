------------------------------- MODULE FrontEnd -------------------------------
(***************************************************************************)
(* genbind_load_idl (nsgenbind.c): the IDL files of a binding become one   *)
(* AST (WebidlAst), and when the last is parsed the implements statements  *)
(* are resolved in it (Intercalate).                                       *)
(*                                                                         *)
(* The resolution knows interfaces by their place in the AST: a name is    *)
(* looked up among the interface nodes, and may belong to a dictionary or  *)
(* to nothing at all.  Places beyond the nodes of a text are interfaces    *)
(* that implement nothing, on which the walk does nothing.                 *)
(*                                                                         *)
(* parse is where the reading of the files has come to, pc where the walk  *)
(* has: it is "waiting" before they are all read.                          *)
(***************************************************************************)
EXTENDS WebidlAst, Intercalate

ASSUME PlacesAssumption == MaxDefinitions <= N

-----------------------------------------------------------------------------
InterfaceNodes(name) == {k \in DOMAIN ast : ast[k].type = "interface" /\ ast[k].name = name}

(* mistake: a dictionary of the name will do *)
PlaceOfAny(name) ==
  LET nodes == {k \in DOMAIN ast : ast[k].name = name}
  IN  IF nodes = {} THEN Undeclared ELSE CHOOSE k \in nodes : \A m \in nodes : k <= m

(* webidl_node_find_type_ident among the interfaces *)
Place(name) == IF InterfaceNodes(name) = {} THEN Undeclared
               ELSE CHOOSE k \in InterfaceNodes(name) : \A m \in InterfaceNodes(name) : k <= m

FrontInit == /\ AstInit
             /\ declared = [k \in Iface |-> <<>>] /\ implements = declared
             /\ lists = [k \in Iface |-> <<k>>]
             /\ stack = <<>> /\ next = 1
             /\ pc = "waiting"

(* the implements statements of each node, with names for places *)
Resolved == [k \in Iface |->
  IF k \in DOMAIN ast
  THEN [n \in DOMAIN ast[k].implements |-> Place(ast[k].implements[n])]
  ELSE <<>>]

(* every file is read: the walk over the interfaces of the AST begins *)
StartWalk == /\ parse = "parsed" /\ pc = "waiting"
             /\ declared' = Resolved /\ implements' = Resolved
             /\ pc' = "walk"
             /\ UNCHANGED <<astvars, lists, stack, next>>

FrontNext == \/ AstNext /\ UNCHANGED vars
             \/ StartWalk
             \/ Next /\ UNCHANGED astvars

FrontSpec == FrontInit /\ [][FrontNext]_<<astvars, vars>>

-----------------------------------------------------------------------------
(* what the text says that an interface implements, directly or not *)
Said(a) == {text[n].other : n \in {m \in DOMAIN text : text[m].form = "implements" /\ text[m].name = a}}
Implemented(a) == {b \in Names : \A S \in SUBSET Names :
                     a \in S /\ (\A c \in S : Said(c) \subseteq S) => b \in S}

(* the definitions whose members the node has in the end *)
Members(k) == UNION {ToSet(ast[b].lists) : b \in ToSet(lists[k])}

(* From the text to the members: an interface ends up with the members of
   every definition, full or partial and in whichever file, of itself and of
   all that the text says it implements, and with those of nothing else; a
   dictionary, or a name that is only mentioned, contributes nothing. *)
MembersOfText ==
  pc = "done" => \A k \in DOMAIN ast :
    Members(k) = IF ast[k].type = "dictionary" THEN ToSet(ast[k].lists)
                 ELSE {n \in DOMAIN text :
                         /\ text[n].type = "interface" /\ text[n].form # "implements"
                         /\ text[n].name \in Implemented(ast[k].name)}
=============================================================================

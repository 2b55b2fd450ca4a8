------------------------------- MODULE WebidlAst -------------------------------
(***************************************************************************)
(* The AST that webidl-parser.y builds of all the IDL files of a binding,  *)
(* one definition after the other (genbind_load_idl parses every file into *)
(* the same AST and stops at the first error).  A definition either adds a *)
(* node to the AST or extends the node of its name that is there: partial  *)
(* interfaces, repeated interfaces and implements statements may come      *)
(* before or after the interface they speak of, in any file.               *)
(*                                                                         *)
(* Nodes are kept in the order webidl_node_find visits them, oldest first. *)
(* The children that later stages look up by type are kept by type, in     *)
(* that order too: INHERITANCE, LIST (known by the definition its members  *)
(* stand in), INTERFACE_IMPLEMENTS and EXTENDED_ATTRIBUTE.                 *)
(***************************************************************************)
EXTENDS Integers, SequencesExt

CONSTANTS
  Names,          \* identifiers of interfaces and dictionaries
  Attrs,          \* extended attributes
  Null,           \* no inheritance
  MaxDefinitions  \* bound on the definitions of all files

ASSUME NullAssumption == Null \notin Names
ASSUME DefinitionsAssumption == MaxDefinitions \in Nat

VARIABLES
  text,   \* the definitions read so far
  ast,    \* the interface and dictionary nodes
  parse   \* "parse", "parsed" or "failed"

astvars == <<text, ast, parse>>

-----------------------------------------------------------------------------
(* A definition is what the grammar gives its action: a full definition may
   inherit, an implements statement names what its interface implements;
   extended attributes may stand in front of each.                         *)
Definition ==
  [type : {"interface", "dictionary"}, form : {"full", "partial"},
   name : Names, other : Names \cup {Null}, attrs : SUBSET Attrs]
  \cup [type : {"interface"}, form : {"implements"},
        name : Names, other : Names, attrs : SUBSET Attrs]

WellFormed(d) == d.form = "partial" => d.other = Null

(* webidl_node_find_type_ident with the type of the definition *)
SameNode(node, d) == node.type = d.type /\ node.name = d.name

Existing(d) == {k \in DOMAIN ast : SameNode(ast[k], d)}

(* the children of definition d, the n-th of the text, by type; webidl_node_add
   puts them in front of the older ones, where they are found after these *)
Optional(test, x) == IF test THEN <<x>> ELSE <<>>
Inheritance(d) == Optional(d.form = "full" /\ d.other # Null, d.other)
Lists(d, n) == Optional(d.form # "implements", n)
Implements(d) == Optional(d.form = "implements", d.other)

AstInit == text = <<>> /\ ast = <<>> /\ parse = "parse"

(* no node has the name: the definition becomes one, with its attributes *)
CreateNode(d) ==
  /\ Existing(d) = {}
  /\ ast' = Append(ast,
       [type |-> d.type, name |-> d.name, inherits |-> Inheritance(d),
        lists |-> Lists(d, Len(text) + 1), implements |-> Implements(d),
        attrs |-> d.attrs])

(* mistake: the children are appended, and found before the older ones *)
UpdateNodeAppending(d) ==
  \E k \in Existing(d) :
    ast' = [ast EXCEPT ![k].inherits = Inheritance(d) \o @,
                       ![k].lists = Lists(d, Len(text) + 1) \o @,
                       ![k].implements = Implements(d) \o @]

(* mistake: the attributes go to whatever node there is *)
UpdateNodeWithAttrs(d) ==
  \E k \in Existing(d) :
    ast' = [ast EXCEPT ![k].inherits = @ \o Inheritance(d),
                       ![k].lists = @ \o Lists(d, Len(text) + 1),
                       ![k].implements = @ \o Implements(d),
                       ![k].attrs = @ \cup d.attrs]

(* the children are linked into the node; the action yields NULL, and on
   NULL webidl_node_add drops the extended attributes in front of it *)
UpdateNode(d) ==
  \E k \in Existing(d) :
    /\ \A m \in Existing(d) : k <= m
    /\ ast' = [ast EXCEPT ![k].inherits = @ \o Inheritance(d),
                          ![k].lists = @ \o Lists(d, Len(text) + 1),
                          ![k].implements = @ \o Implements(d)]

Define(d) == /\ parse = "parse" /\ Len(text) < MaxDefinitions
             /\ WellFormed(d)
             /\ CreateNode(d) \/ UpdateNode(d)
             /\ text' = Append(text, d)
             /\ UNCHANGED parse

(* a syntax error, or a file that cannot be opened: no further file is read
   and the tool stops before it looks at the AST *)
Abort == /\ parse = "parse"
         /\ parse' = "failed"
         /\ UNCHANGED <<text, ast>>

EndOfFiles == /\ parse = "parse"
              /\ parse' = "parsed"
              /\ UNCHANGED <<text, ast>>

AstNext == \/ \E d \in Definition : Define(d)
        \/ Abort \/ EndOfFiles

AstSpec == AstInit /\ [][AstNext]_astvars

-----------------------------------------------------------------------------
(* positions of the text whose definition the node stands for, and what
   these definitions give the node, part[n] being that of the n-th *)
About(node) == {n \in DOMAIN text : SameNode(node, text[n])}
Gathered(node, part) ==
  FlattenSeq([n \in DOMAIN text |-> IF n \in About(node) THEN part[n] ELSE <<>>])

(* Every definition ends up in the one node of its name, so the searches by
   name of the later stages have one answer, and nothing else ends up there:
   member lists, inheritance and implements are those of all definitions of
   the name, in the order of the text. *)
NodesGatherText ==
  /\ \A d \in ToSet(text) :
       Cardinality({k \in DOMAIN ast : SameNode(ast[k], d)}) = 1
  /\ \A k \in DOMAIN ast :
       /\ ast[k].lists = Gathered(ast[k], [n \in DOMAIN text |-> Lists(text[n], n)])
       /\ ast[k].inherits = Gathered(ast[k], [n \in DOMAIN text |-> Inheritance(text[n])])
       /\ ast[k].implements = Gathered(ast[k], [n \in DOMAIN text |-> Implements(text[n])])

(* The extended attributes of a node are those of the first definition that
   mentions it, no more and no less: PrimaryGlobal or NoInterfaceObject of
   an interface is lost if a partial interface or an implements statement
   of it was read before. *)
AttrsOfFirstMention ==
  \A k \in DOMAIN ast : ast[k].attrs = text[Min(About(ast[k]))].attrs
=============================================================================

------------------------------- MODULE BindingAst -------------------------------
(***************************************************************************)
(* The AST that nsgenbind-parser.y builds of the binding file, statement   *)
(* by statement, and the searches by which the rest of the tool finds the  *)
(* code a binding author wrote for a class.                                *)
(*                                                                         *)
(* A statement is a binding, a class or a method.  A method is attached to *)
(* the class of its name if the AST has one and otherwise brings a class   *)
(* node of its own.  The AST the search sees is *genbind_ast, which the    *)
(* grammar sets when it appends a statement to the ones before: not yet    *)
(* while the first two statements are read.                                *)
(*                                                                         *)
(* Statements are known by their position in the file.  A cdata block of a *)
(* binding or class body counts as a method of its type there.             *)
(***************************************************************************)
EXTENDS Integers, SequencesExt

CONSTANTS
  Classes,       \* class names
  Types,         \* method types: "init", "method", "preface", ...
  Idents,        \* method identifiers
  MaxStatements  \* bound on the statements of the file

VARIABLES
  text,     \* statements read
  nodes,    \* top level nodes, oldest first
  visible,  \* how many of them *genbind_ast reaches
  pc        \* "parse", "parsed" or "failed"

vars == <<text, nodes, visible, pc>>

-----------------------------------------------------------------------------
(* body: the types of the cdata blocks of a class or binding, in the order
   a search meets them *)
Bodies == {<<>>, <<"preface", "preface">>}
Statement ==
  [kind : {"binding"}, body : Bodies]
  \cup [kind : {"class"}, class : Classes, body : Bodies]
  \cup [kind : {"method"}, class : Classes, type : Types, ident : Idents]

(* class nodes of the name among the first n nodes *)
ClassNodes(name, n) ==
  {k \in 1 .. n : nodes[k].kind = "class" /\ nodes[k].class = name}

(* genbind_node_find goes down the l pointers first, and appending a
   statement made it the end of that chain: the newest node is found *)
Found(name, n) == CHOOSE k \in ClassNodes(name, n) :
                    \A m \in ClassNodes(name, n) : m <= k

Method(s, n) == [type |-> s.type, ident |-> s.ident, from |-> n]
Body(s, n) == [m \in DOMAIN s.body |-> [type |-> s.body[m], ident |-> "", from |-> n]]

Init == text = <<>> /\ nodes = <<>> /\ visible = 0 /\ pc = "parse"

(* mistake: appending a statement does not set *genbind_ast *)
ReadUnpublished(s) == /\ pc = "parse" /\ Len(text) < MaxStatements
                      /\ text' = Append(text, s)
                      /\ UNCHANGED <<visible, pc>>

(* the second reduction of Statements sets *genbind_ast *)
Read(s) == /\ pc = "parse" /\ Len(text) < MaxStatements
           /\ text' = Append(text, s)
           /\ visible' = IF text = <<>> THEN 0 ELSE Len(nodes')
           /\ UNCHANGED pc

BindingStatement(s) ==
  /\ s.kind = "binding"
  /\ nodes' = Append(nodes, [kind |-> "binding", class |-> "",
                             from |-> Len(text) + 1, methods |-> Body(s, Len(text) + 1)])
  /\ Read(s)

(* a class node is made whether or not the AST has one of the name *)
ClassStatement(s) ==
  /\ s.kind = "class"
  /\ nodes' = Append(nodes, [kind |-> "class", class |-> s.class,
                             from |-> Len(text) + 1, methods |-> Body(s, Len(text) + 1)])
  /\ Read(s)

(* add_method: no existing class so manufacture one and attach method *)
ManufactureClass(s) ==
  /\ s.kind = "method"
  /\ ClassNodes(s.class, visible) = {}
  /\ nodes' = Append(nodes, [kind |-> "class", class |-> s.class,
                             from |-> Len(text) + 1, methods |-> <<Method(s, Len(text) + 1)>>])
  /\ Read(s)

(* mistake: the newest method is found first *)
UpdateClassInFront(s) ==
  /\ s.kind = "method"
  /\ ClassNodes(s.class, visible) # {}
  /\ nodes' = [nodes EXCEPT ![Found(s.class, visible)].methods =
                 <<Method(s, Len(text) + 1)>> \o @]
  /\ Read(s)

(* add_method: update the existing class *)
UpdateClass(s) ==
  /\ s.kind = "method"
  /\ ClassNodes(s.class, visible) # {}
  /\ nodes' = [nodes EXCEPT ![Found(s.class, visible)].methods =
                 Append(@, Method(s, Len(text) + 1))]
  /\ Read(s)

Abort == /\ pc = "parse"
         /\ pc' = "failed"
         /\ UNCHANGED <<text, nodes, visible>>

(* Input: *genbind_ast is the whole list *)
EndOfFile == /\ pc = "parse" /\ text # <<>>
             /\ pc' = "parsed"
             /\ visible' = Len(nodes)
             /\ UNCHANGED <<text, nodes>>

Next == \/ \E s \in Statement : \/ BindingStatement(s) \/ ClassStatement(s)
                                \/ ManufactureClass(s) \/ UpdateClass(s)
        \/ Abort \/ EndOfFile

Spec == Init /\ [][Next]_vars

-----------------------------------------------------------------------------
(* what the code generator is given for a class: the methods of the class
   node it finds, none if there is no such node *)
MethodsOf(name) == IF ClassNodes(name, Len(nodes)) = {} THEN <<>>
                   ELSE nodes[Found(name, Len(nodes))].methods

(* what genbind_node_find_method finds one after another, and what
   genbind_node_find_method_ident does, which never matches a method without
   an identifier *)
FindMethod(name, type) ==
  {k \in DOMAIN MethodsOf(name) : MethodsOf(name)[k].type = type}
FindMethodIdent(name, type, ident) ==
  {k \in FindMethod(name, type) : MethodsOf(name)[k].ident = ident /\ ident # ""}

(* the one that a search without a previous match finds *)
FirstFound(name, found) == MethodsOf(name)[Min(found)]

(* output_method_cdata emits every method of the type *)
Emitted(name, type) == FindMethod(name, type)

Statements(name) == {n \in 1 .. Len(text) : text[n].kind = "method" /\ text[n].class = name}
Declarations(name) == {n \in 1 .. Len(text) : text[n].kind = "class" /\ text[n].class = name}

(* Files as they are usually written: the binding comes first, and a class
   is declared once at most, ahead of its methods. *)
Customary ==
  /\ text # <<>> => text[1].kind = "binding"
  /\ \A name \in Classes :
       /\ \A k, m \in Declarations(name) : k = m
       /\ \A k \in Declarations(name) : \A m \in Statements(name) : k < m

(* "methods that reference a class cause it to be implicitly created"
   (README:163-165): the code generator finds every method of a class. *)
MethodsReachClass ==
  pc = "parsed" => \A name \in Classes :
    \A n \in Statements(name) : \E k \in DOMAIN MethodsOf(name) : MethodsOf(name)[k].from = n

(* In a customary file it does, and it finds the body of the class too. *)
MethodsReachClassIfCustomary ==
  Customary /\ pc = "parsed" => \A name \in Classes :
    /\ Statements(name) \subseteq {MethodsOf(name)[k].from : k \in DOMAIN MethodsOf(name)}
    /\ \A n \in Declarations(name) : nodes[Found(name, Len(nodes))].from = n

(* In a customary file the method written first is the one used, whether it
   is looked up by its type, as init, fini and prototype are, or by its
   identifier too. *)
FirstMethodWins ==
  Customary /\ pc = "parsed" => \A name \in Classes : \A n \in Statements(name) :
    /\ FirstFound(name, FindMethod(name, text[n].type)).from <= n
    /\ text[n].ident # "" =>
         FirstFound(name, FindMethodIdent(name, text[n].type, text[n].ident)).from <= n

(* "There may only be one of these per class, subsequent directives will be
   ignored." (README:173-174): a class has one preface in its source. *)
OnePreface == pc = "parsed" => \A name \in Classes : Cardinality(Emitted(name, "preface")) <= 1
=============================================================================

------------------------------- MODULE Attributes -------------------------------
(***************************************************************************)
(* The attributes of one interface, from the AST to the C source: the      *)
(* attribute map, a getter and perhaps a setter function for each, and the *)
(* properties of the prototype that refer to these functions.              *)
(*                                                                         *)
(* The C functions are static and compiled in the order of the source, so  *)
(* what refers to a function must follow it; what the functions do is up   *)
(* to their body, from one of four origins.                                *)
(***************************************************************************)
EXTENDS Integers, SequencesExt

CONSTANTS
  AttributeNames,  \* attribute names
  MaxAttributes    \* bound on the attributes of the interface

ASSUME MaxAttributesAssumption == MaxAttributes \in Nat

VARIABLES
  decls,    \* attributes as declared, over all lists of the interface
  written,  \* what the binding author wrote for the getter and the setter of a name
  map,      \* attribute entries, a prefix of decls until complete
  emitted,  \* functions in the source file, in order
  props,    \* properties of the prototype, in order
  stage     \* "map", "emit", "proto" or "done"

attributevars == <<decls, written, map, emitted, props, stage>>

-----------------------------------------------------------------------------
(* generable: libdom has an accessor the generator can call, for a single
   type of a base it knows or an event handler *)
Attribute == [name : AttributeNames, qualifier : {"none", "inherit", "static"},
              readonly : BOOLEAN, putforwards : BOOLEAN, generable : BOOLEAN]

(* a method without a cdata block is written "empty" *)
Origin == {"none", "empty", "code"}
Accessor == {"getter", "setter"}

(* the modifier nodes of an attribute in the order a search meets them: the
   grammar puts readonly in front of the others, the search starts behind *)
Modifiers(a) == (IF a.qualifier = "none" THEN <<>> ELSE <<a.qualifier>>)
                  \o (IF a.readonly THEN <<"readonly">> ELSE <<>>)

(* mistake: an absent modifier is taken for readonly *)
ReadonlyUnlessModified(a) == Modifiers(a) = <<>> \/ Head(Modifiers(a)) = "readonly"

(* cure->modifier is READONLY: the first modifier node is *)
Readonly(a) == Modifiers(a) # <<>> /\ Head(Modifiers(a)) = "readonly"

(* an attribute entry: no setter is looked up if it is readonly *)
Entry(a) == [name |-> a.name, readonly |-> Readonly(a),
             getter |-> written[<<"getter", a.name>>],
             setter |-> IF Readonly(a) THEN "none" ELSE written[<<"setter", a.name>>],
             putforwards |-> a.putforwards, generable |-> a.generable]

AttributesInit ==
  /\ decls \in BoundedSeq(Attribute, MaxAttributes)
  /\ written \in [Accessor \X AttributeNames -> Origin]
  /\ map = <<>> /\ emitted = <<>> /\ props = <<>>
  /\ stage = "map"

AddEntry == /\ stage = "map" /\ Len(map) < Len(decls)
            /\ map' = Append(map, Entry(decls[Len(map) + 1]))
            /\ UNCHANGED <<decls, written, emitted, props, stage>>

MapEnd == /\ stage = "map" /\ Len(map) = Len(decls)
          /\ stage' = "emit"
          /\ UNCHANGED <<decls, written, map, emitted, props>>

-----------------------------------------------------------------------------
(* the code of a method, or what is generated in place of an empty one *)
Body(origin, e) == CASE origin = "code" -> "code"
                     [] origin = "empty" -> IF e.generable THEN "generated" ELSE "default"

GetterBody(e) == IF e.getter = "none" THEN "default" ELSE Body(e.getter, e)

(* mistake: forwarding comes before the author's setter *)
SetterForwardsFirst(e) == IF e.putforwards THEN "forwards"
                          ELSE IF e.setter # "none" THEN Body(e.setter, e)
                          ELSE "default"

SetterBody(e) == IF e.setter # "none" THEN Body(e.setter, e)
                 ELSE IF e.putforwards THEN "forwards"
                 ELSE "default"

(* "only read/write and putforward attributes have a setter" *)
HasSetter(e) == ~e.readonly \/ e.putforwards

(* the attributes with a getter so far *)
getters == Cardinality({k \in DOMAIN emitted : emitted[k].accessor = "getter"})
Function(accessor, e, body) == [accessor |-> accessor, name |-> e.name, body |-> body]

(* mistake: the setter comes before the getter *)
OutputSetterFirst ==
  /\ stage = "emit" /\ getters < Len(map)
  /\ LET e == map[getters + 1]
     IN  emitted' = emitted
                    \o (IF HasSetter(e) THEN <<Function("setter", e, SetterBody(e))>> ELSE <<>>)
                    \o <<Function("getter", e, GetterBody(e))>>
  /\ UNCHANGED <<decls, written, map, props, stage>>

OutputAttribute ==
  /\ stage = "emit" /\ getters < Len(map)
  /\ LET e == map[getters + 1]
     IN  emitted' = emitted
                    \o <<Function("getter", e, GetterBody(e))>>
                    \o (IF HasSetter(e) THEN <<Function("setter", e, SetterBody(e))>> ELSE <<>>)
  /\ UNCHANGED <<decls, written, map, props, stage>>

OutputAttributesEnd == /\ stage = "emit" /\ getters = Len(map)
                       /\ stage' = "proto"
                       /\ UNCHANGED <<decls, written, map, emitted, props>>

(* output_prototype_attribute: a read only property has a getter only *)
ReadonlyProperty(e) == ~e.putforwards /\ e.readonly

OutputPrototypeAttribute ==
  /\ stage = "proto" /\ Len(props) < Len(map)
  /\ LET e == map[Len(props) + 1]
     IN  props' = Append(props, [name |-> e.name,
                                 accessors |-> IF ReadonlyProperty(e) THEN {"getter"} ELSE Accessor])
  /\ UNCHANGED <<decls, written, map, emitted, stage>>

PrototypeEnd == /\ stage = "proto" /\ Len(props) = Len(map)
                /\ stage' = "done"
                /\ UNCHANGED <<decls, written, map, emitted, props>>

AttributesNext == \/ AddEntry \/ MapEnd
                  \/ OutputAttribute \/ OutputAttributesEnd
                  \/ OutputPrototypeAttribute \/ PrototypeEnd

AttributesSpec == AttributesInit /\ [][AttributesNext]_attributevars

-----------------------------------------------------------------------------
(* an attribute of the name the function was emitted for *)
Declared(f) == {k \in DOMAIN decls : decls[k].name = f.name}

(* The source compiles: a property refers to functions emitted before it, a
   setter that forwards calls the getter emitted before it, and no function
   is left without a property. *)
FunctionsResolve ==
  /\ \A p \in ToSet(props) : \A accessor \in p.accessors :
       \E f \in ToSet(emitted) : f.accessor = accessor /\ f.name = p.name
  /\ \A k \in DOMAIN emitted : emitted[k].body = "forwards" =>
       \E m \in 1 .. k-1 : emitted[m].accessor = "getter" /\ emitted[m].name = emitted[k].name
  /\ stage = "done" => \A f \in ToSet(emitted) :
       \E p \in ToSet(props) : p.name = f.name /\ f.accessor \in p.accessors

(* "only read/write and putforward attributes have a setter"
   (duk-libdom-interface.c:1609), of the attributes the Web IDL declares. *)
SetterOnlyIfWritable ==
  \A f \in ToSet(emitted) : f.accessor = "setter" =>
    \E k \in Declared(f) : ~decls[k].readonly \/ decls[k].putforwards

(* Only another modifier, which hides readonly from the generator, gives an
   attribute a setter that may not be written, and its neighbours are none the
   worse for it; conversely a script can set each attribute that may be. *)
SettersAsDeclared ==
  /\ \A f \in ToSet(emitted) : f.accessor = "setter" =>
       \E k \in Declared(f) : \/ ~decls[k].readonly \/ decls[k].putforwards
                              \/ decls[k].qualifier # "none"
  /\ stage = "done" =>
       \A k \in DOMAIN decls : ~decls[k].readonly \/ decls[k].putforwards =>
         \E p \in ToSet(props) : p.name = decls[k].name /\ "setter" \in p.accessors

(* "The cdata block is output" (README:337 and 344, of getter and setter): a
   function whose code the author wrote has that code for its body. *)
AuthorCodeUsed ==
  \A f \in ToSet(emitted) : written[<<f.accessor, f.name>>] = "code" => f.body = "code"

(* It is so for every getter, and for the setter of an attribute that is not
   readonly in any declaration. *)
AuthorCodeUsedIfWritable ==
  \A f \in ToSet(emitted) :
    /\ written[<<f.accessor, f.name>>] = "code"
    /\ f.accessor = "getter" \/ \A k \in Declared(f) : ~decls[k].readonly
    => f.body = "code"
=============================================================================

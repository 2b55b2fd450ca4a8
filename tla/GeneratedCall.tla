----------------------------- MODULE GeneratedCall ------------------------------
(***************************************************************************)
(* A call of any one function that the generator writes: of an operation   *)
(* (ArgumentCheck), of an attribute's getter or setter whose body is       *)
(* generated (Attributes), or, by the author's code, of the C accessor of  *)
(* a dictionary member.  An accessor is at the object's private data where *)
(* an operation is after its checks, and goes on with a body of its own.   *)
(*                                                                         *)
(* External: libdom, whose calls may fail and whose strings are counted    *)
(* references, the stack of the Duktape engine, and the search for the     *)
(* event handler of a node, which puts the handler below the node.         *)
(***************************************************************************)
EXTENDS ArgumentCheck

VARIABLES
  fn,       \* the function called
  member,   \* the value that a dictionary object has for the member read
  refs,     \* references to libdom strings held by the call
  local,    \* C variable with the value read, "none" before and for NULL
  written,  \* value stored by a setter: "none" if it stored nothing
  ret       \* results returned to the engine, of an accessor

call == <<fn, member, refs, local, written, ret>>

-----------------------------------------------------------------------------
(* Bases for which bodies are generated.  A string attribute may be nullable
   or, for its setter, marked TreatNullAs=EmptyString.  The getter of an
   attribute that forwards what is put to it may be the author's code. *)
AttributeBase == {"string", "number", "boolean", "handler"}
ForwardBase == AttributeBase \cup {"author"}
MemberBase == {"string", "number", "float", "boolean"}

Operation == [kind |-> "operation"]
Accessors == [kind : {"getter", "setter"}, base : AttributeBase, null : BOOLEAN]
             \cup [kind : {"forwards"}, base : ForwardBase, null : BOOLEAN]
             \cup [kind : {"member"}, base : MemberBase, literal : Literal]

(* get_member_default_str and the initialiser it becomes a part of: "none"
   for a NULL pointer, "zero" for 0 and false; "refused" ends the run of the
   generator, "broken" is no initialiser in C.  A string takes any text, NULL
   included, a float has no text of its own for no default. *)
DefaultOf(base, literal) ==
  CASE literal = "bool" /\ base # "boolean" -> "refused"
    [] base = "string" /\ literal = "none" -> "none"
    [] base # "string" /\ literal \in {"string", "null"} -> "broken"
    [] base = "float" /\ literal = "none" -> "broken"
    [] base \in {"number", "boolean"} /\ literal = "none" -> "zero"
    [] OTHER -> "literal"

Compiled(f) == f.kind = "member" => DefaultOf(f.base, f.literal) \notin {"refused", "broken"}

(* what the engine leaves on the stack of an accessor; a member is read of
   the value at an index that the author's code chooses *)
PassedTo(f) == IF f.kind = "getter" THEN {<<>>} ELSE {<<v>> : v \in Value}

CallInit == /\ \/ fn = Operation /\ Init
               \/ /\ fn \in {f \in Accessors : Compiled(f)}
                  /\ args = <<>> /\ single = FALSE
                  /\ passed \in PassedTo(fn) /\ stack = passed
                  /\ argidx = 1
                  /\ pc = IF fn.kind = "member" THEN "body" ELSE "private"
            /\ member \in IF fn.kind = "member" THEN Value ELSE {"undefined"}
            /\ refs = 0
            /\ local = "none" /\ written = "none"
            /\ ret = 0

Gets(base) == pc = "body" /\ fn.kind \in {"getter", "forwards"} /\ fn.base = base
Sets(base) == pc = "body" /\ fn.kind = "setter" /\ fn.base = base
declared == <<args, single, passed, argidx, fn, member>>

(* a getter returns n results: to the setter that forwards, if that called it *)
Return(n) == IF fn.kind = "forwards"
             THEN pc' = (IF n = 1 THEN "forward" ELSE "returned") /\ ret' = 0
             ELSE pc' = "returned" /\ ret' = n

(* external: the author's getter, which may leave values of its own *)
GetByAuthor == /\ Gets("author")
               /\ \/ Return(0) /\ UNCHANGED stack
                  \/ \E own \in {<<>>, <<"number">>}, v \in {"object", "null"} :
                       stack' = stack \o own \o <<v>> /\ Return(1)
               /\ UNCHANGED <<declared, refs, local, written>>

(* dom_<class>_get_<property> *)
GetAttribute ==
  /\ \E base \in {"string", "number", "boolean"} : Gets(base)
  /\ \/ Return(0) /\ UNCHANGED <<refs, local>>
     \/ /\ local' = fn.base
        /\ refs' = refs + IF fn.base = "string" THEN 1 ELSE 0
        /\ pc' = "push" /\ UNCHANGED ret
     \/ /\ fn.base = "string"
        /\ pc' = "push" /\ UNCHANGED <<refs, local, ret>>
  /\ UNCHANGED <<declared, stack, written>>

(* mistake: the string is not released *)
PushAttributeHeld ==
  /\ pc = "push"
  /\ stack' = Append(stack, IF local # "none" THEN local
                            ELSE IF fn.null THEN "null" ELSE "string")
  /\ Return(1)
  /\ UNCHANGED <<declared, refs, local, written>>

(* mistake: there is no null for a string that is not there *)
PushAttributeNonNull ==
  /\ pc = "push"
  /\ stack' = IF local # "none" THEN Append(stack, local) ELSE stack
  /\ refs' = 0
  /\ Return(1)
  /\ UNCHANGED <<declared, local, written>>

(* a NULL string is null to a nullable attribute and empty to another *)
PushAttribute ==
  /\ pc = "push"
  /\ stack' = Append(stack, IF local # "none" THEN local
                            ELSE IF fn.null THEN "null" ELSE "string")
  /\ refs' = refs - IF local = "string" THEN 1 ELSE 0
  /\ Return(1)
  /\ UNCHANGED <<declared, local, written>>

(* the name of the event *)
CreateName == /\ Gets("handler")
              /\ \/ Return(0) /\ UNCHANGED refs
                 \/ refs' = refs + 1 /\ pc' = "lookup" /\ UNCHANGED ret
              /\ UNCHANGED <<declared, stack, local, written>>

(* dukky_get_current_value_of_event_handler with the node on the stack *)
GetHandler == /\ pc = "lookup"
              /\ refs' = refs - 1
              /\ \/ stack' = Append(stack, "object") /\ Return(0)
                 \/ /\ \E handler \in {"object", "null"} :
                         stack' = Front(stack \o <<handler, "object">>)
                    /\ Return(1)
              /\ UNCHANGED <<declared, local, written>>

(* mistake: the parameter is looked for on top, where the attribute is *)
PutForwardTop == /\ pc = "forward"
                 /\ \/ pc' = "thrown" /\ UNCHANGED written
                    \/ /\ Last(stack) \notin {"undefined", "null"}
                       /\ pc' = "returned" /\ written' = Last(stack)
                 /\ UNCHANGED <<declared, stack, refs, local, ret>>

(* the parameter is put into a property of the attribute's value; this may
   throw, and does for a value that has no properties *)
PutForward == /\ pc = "forward"
              /\ \/ pc' = "thrown" /\ UNCHANGED written
                 \/ /\ Last(stack) \notin {"undefined", "null"}
                    /\ pc' = "returned" /\ written' = stack[1]
              /\ UNCHANGED <<declared, stack, refs, local, ret>>

-----------------------------------------------------------------------------
(* any value becomes a string, null an empty one if it is treated so *)
CreateString ==
  /\ Sets("string")
  /\ stack' = IF fn.null /\ stack[1] = "null" THEN stack ELSE [stack EXCEPT ![1] = "string"]
  /\ local' = "string"
  /\ \/ pc' = "returned" /\ UNCHANGED refs
     \/ pc' = "set" /\ refs' = refs + 1
  /\ UNCHANGED <<declared, written, ret>>

(* dom_<class>_set_<property>, which may refuse the string *)
SetString == /\ pc = "set"
             /\ written' \in {local, "none"}
             /\ refs' = refs - 1
             /\ pc' = "returned"
             /\ UNCHANGED <<declared, stack, local, ret>>

(* of any other value duk_get_int makes 0, duk_get_boolean false *)
SetAttribute ==
  /\ Sets("number") \/ Sets("boolean")
  /\ local' = IF stack[1] = fn.base THEN stack[1] ELSE "zero"
  /\ written' \in {local', "none"}
  /\ pc' = "returned"
  /\ UNCHANGED <<declared, stack, refs, ret>>

(* the value goes into the table of handlers and libdom is told *)
SetHandler == /\ Sets("handler")
              /\ stack' = stack \o <<"object", "object">>
              /\ written' = stack[1]
              /\ pc' = "returned"
              /\ UNCHANGED <<declared, refs, local, ret>>

-----------------------------------------------------------------------------
Member == pc = "body" /\ fn.kind = "member"
ValueOf(base) == IF base = "float" THEN "number" ELSE base

(* mistake: nothing is looked for in the object *)
GetMemberUnread ==
  /\ Member
  /\ local' = DefaultOf(fn.base, fn.literal)
  /\ pc' = IF stack[1] \in {"undefined", "null"} THEN "thrown" ELSE "returned"
  /\ UNCHANGED <<declared, stack, refs, written, ret>>

(* the property is pushed, read unless it is undefined, and popped; the
   first throws for a value without properties, the second for a type that
   is not the member's *)
GetMember ==
  /\ Member
  /\ \/ /\ stack[1] \in {"undefined", "null"}
        /\ pc' = "thrown" /\ UNCHANGED <<stack, local>>
     \/ /\ stack[1] \notin {"undefined", "null"} /\ member = "undefined"
        /\ local' = DefaultOf(fn.base, fn.literal)
        /\ pc' = "returned" /\ UNCHANGED stack
     \/ /\ stack[1] \notin {"undefined", "null"} /\ member = ValueOf(fn.base)
        /\ local' = member
        /\ pc' = "returned" /\ UNCHANGED stack
     \/ /\ stack[1] \notin {"undefined", "null"} /\ member \notin {"undefined", ValueOf(fn.base)}
        /\ pc' = "thrown" /\ stack' = Append(stack, member) /\ UNCHANGED local
  /\ UNCHANGED <<declared, refs, written, ret>>

CallNext == \/ Next /\ UNCHANGED call
            \/ GetByAuthor \/ GetAttribute \/ PushAttribute \/ CreateName \/ GetHandler \/ PutForward
            \/ CreateString \/ SetString \/ SetAttribute \/ SetHandler
            \/ GetMember

CallSpec == CallInit /\ [][CallNext]_<<vars, call>>

-----------------------------------------------------------------------------
over == pc \in {"returned", "thrown"} /\ fn.kind # "operation"

(* Whichever call fails on the way, and also when a setter calls a getter,
   no reference to a string is left behind, nor one released twice. *)
ReferencesReleased == refs >= 0 /\ (over => refs = 0)

(* What a getter returns is on top of the stack, above what was there, and
   of the declared type; a setter that forwards finds both the value it was
   given and the attribute's in their places and puts the first into the
   second; no setter stores a value of another type. *)
AccessorYields ==
  /\ over /\ fn.kind = "getter" /\ ret = 1 =>
       /\ Len(stack) = Len(passed) + 1
       /\ Last(stack) \in CASE fn.base = "handler" -> {"object", "null"}
                            [] fn.base = "string" /\ fn.null -> {"string", "null"}
                            [] OTHER -> {fn.base}
  /\ over /\ fn.kind = "forwards" /\ written # "none" =>
       written = passed[1] /\ stack[1] = passed[1] /\ Len(stack) > 1
  /\ over /\ fn.kind = "setter" /\ written # "none" /\ fn.base # "handler" =>
       \/ written = fn.base
       \/ written = "zero" /\ passed[1] # fn.base

(* A default of the member's type, of the dictionary as the Web IDL has it. *)
Suits(base, literal) == \/ literal = "none" /\ base # "float"
                        \/ <<base, literal>> \in {<<"string", "string">>, <<"boolean", "bool">>,
                             <<"number", "int">>, <<"float", "int">>, <<"float", "float">>}

(* What the author's code gets is the value that the object has for the
   member and, if it has none, the default that the Web IDL gives: without
   one NULL for a string, 0 or false for another.  Only a value of another
   type, or a dictionary that is not there, is an error. *)
MemberOrDefault ==
  fn.kind = "member" /\ Suits(fn.base, fn.literal) =>
    /\ pc = "returned" =>
         /\ stack = passed
         /\ member # "undefined" => member = ValueOf(fn.base) /\ local = member
         /\ member = "undefined" => local = IF fn.literal # "none" THEN "literal"
                                           ELSE IF fn.base = "string" THEN "none"
                                           ELSE "zero"
    /\ pc = "thrown" => \/ passed[1] \in {"undefined", "null"}
                         \/ member \notin {"undefined", ValueOf(fn.base)}
=============================================================================

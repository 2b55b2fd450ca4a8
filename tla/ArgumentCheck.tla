----------------------------- MODULE ArgumentCheck -----------------------------
(***************************************************************************)
(* A call of one generated operation, from the JavaScript engine entering  *)
(* dukky_<class>_<method> to the code the binding author wrote for it.     *)
(*                                                                         *)
(* The generator writes, from the arguments the Web IDL declares, code     *)
(* that checks how many values the caller passed, adds defaults for the    *)
(* optional arguments that are missing, drops values beyond the last       *)
(* argument, and checks or coerces the types of the values passed.  For an *)
(* operation with overloads or a variadic argument it writes none of this. *)
(* The actions are the steps of the generated code, their guards and       *)
(* effects those of the text the generator chose to output.                *)
(***************************************************************************)
EXTENDS Integers, SequencesExt

CONSTANTS
  MaxArguments,  \* bound on the arguments an operation declares
  MaxPassed      \* bound on the values a caller passes

ASSUME BoundsAssumption == MaxArguments \in Nat /\ MaxPassed \in Nat

VARIABLES
  args,    \* declared arguments of the (first) overload
  single,  \* one overload and no variadic argument
  passed,  \* what the caller passed; never changes
  stack,   \* the engine's value stack, bottom first
  argidx,  \* argument whose type is checked next, from 1
  pc

vars == <<args, single, passed, stack, argidx, pc>>

-----------------------------------------------------------------------------
(* Web IDL types as the check tells them apart, kinds of JavaScript values,
   and the literals an optional argument may have as its default *)
BaseType == {"any", "string", "boolean", "number", "other"}
Value    == {"undefined", "null", "boolean", "number", "string", "object"}
Literal  == {"none", "null", "int", "bool", "string", "float"}

Argument == [optional : {FALSE}, base : BaseType, literal : {"none"}]
            \cup [optional : {TRUE}, base : BaseType, literal : Literal]

argumentc == Len(args)
(* number of arguments that are optional *)
optionalc == Cardinality({k \in 1 .. argumentc : args[k].optional})
fixedargc == argumentc - optionalc
(* %s_argc: read once on entry *)
argc == Len(passed)

(* the first branch of the generated checks, there if fixedargc > 0 *)
Missing == argc < fixedargc

(* what output_operation_optional_defaults pushes for an argument, also for
   one that is not optional *)
DefaultValue(a) == CASE a.literal = "null"   -> "null"
                     [] a.literal = "int"    -> "number"
                     [] a.literal = "bool"   -> "boolean"
                     [] a.literal = "string" -> "string"
                     [] a.literal \in {"float", "none"} -> "undefined"

(* mistake: the defaults are those of the first optional arguments *)
DefaultsFromFirst(n) ==
  [k \in 1 .. argumentc - n |-> DefaultValue(args[fixedargc + k])]

(* defaults for all arguments from the n-th on, counted from 0 *)
DefaultsFrom(n) == [k \in 1 .. argumentc - n |-> DefaultValue(args[n + k])]

(* a value as the body sees it, "error" if the check refuses it: strings are
   coerced, a number will do for a boolean, nothing else for a number *)
Checked(base, v) ==
  CASE base = "string"  -> "string"
    [] base = "boolean" -> IF v \in {"boolean", "number"} THEN "boolean" ELSE "error"
    [] base = "number"  -> IF v = "number" THEN "number" ELSE "error"
    [] base \in {"any", "other"} -> v

Init == /\ args \in BoundedSeq(Argument, MaxArguments)
        /\ single \in BOOLEAN
        /\ passed \in BoundedSeq(Value, MaxPassed)
        /\ stack = passed
        /\ argidx = 1
        /\ pc = "enter"

(* "checking of the parameters to the overloaded operation should go" here *)
EnterUnchecked == /\ pc = "enter" /\ ~single
                  /\ pc' = "private"
                  /\ UNCHANGED <<args, single, passed, stack, argidx>>

TooFew == /\ pc = "enter" /\ single
          /\ Missing
          /\ pc' = "error"
          /\ UNCHANGED <<args, single, passed, stack, argidx>>

AddDefaults == /\ pc = "enter" /\ single
               /\ argc \in fixedargc .. argumentc - 1
               /\ stack' = stack \o DefaultsFrom(argc)
               /\ pc' = "check"
               /\ UNCHANGED <<args, single, passed, argidx>>

RemoveExtraneous == /\ pc = "enter" /\ single
                    /\ argc > argumentc
                    /\ stack' = SubSeq(stack, 1, argumentc)
                    /\ pc' = "check"
                    /\ UNCHANGED <<args, single, passed, argidx>>

(* none of the branches of the generated checks is taken *)
AsDeclared == /\ pc = "enter" /\ single
              /\ ~Missing
              /\ argc \notin fixedargc .. argumentc - 1
              /\ argc <= argumentc
              /\ pc' = "check"
              /\ UNCHANGED <<args, single, passed, stack, argidx>>

(* duk_to_string throws for an object that has no conversion *)
Throws(k) == argc >= k /\ args[k].base = "string" /\ stack[k] = "object"

(* mistake: defaults are checked as if the caller had passed them *)
CheckEveryArgument ==
  /\ pc = "check" /\ argidx <= argumentc
  /\ IF Checked(args[argidx].base, stack[argidx]) = "error"
     THEN pc' = "error" /\ UNCHANGED <<stack, argidx>>
     ELSE /\ stack' = [stack EXCEPT ![argidx] = Checked(args[argidx].base, @)]
          /\ argidx' = argidx + 1
          /\ UNCHANGED pc
  /\ UNCHANGED <<args, single, passed>>

(* "check types of passed arguments are correct": if (argc > argidx) *)
CheckArgument ==
  /\ pc = "check" /\ argidx <= argumentc
  /\ \/ /\ Throws(argidx)
        /\ pc' = "unconverted" /\ UNCHANGED <<stack, argidx>>
     \/ /\ argc >= argidx /\ Checked(args[argidx].base, stack[argidx]) = "error"
        /\ pc' = "error" /\ UNCHANGED <<stack, argidx>>
     \/ /\ argc >= argidx => Checked(args[argidx].base, stack[argidx]) # "error"
        /\ stack' = [stack EXCEPT ![argidx] =
                       IF argc >= argidx THEN Checked(args[argidx].base, @) ELSE @]
        /\ argidx' = argidx + 1
        /\ UNCHANGED pc
  /\ UNCHANGED <<args, single, passed>>

CheckEnd == /\ pc = "check" /\ argidx > argumentc
            /\ pc' = "private"
            /\ UNCHANGED <<args, single, passed, stack, argidx>>

(* the object has the private data of the class, or it has not and the call
   returns undefined; the stack is as it was *)
GetMethodPrivate == /\ pc = "private"
                    /\ pc' \in {"body", "returned"}
                    /\ UNCHANGED <<args, single, passed, stack, argidx>>

Next == \/ EnterUnchecked \/ TooFew \/ AddDefaults \/ RemoveExtraneous \/ AsDeclared
        \/ CheckArgument \/ CheckEnd \/ GetMethodPrivate

Spec == Init /\ [][Next]_vars

-----------------------------------------------------------------------------
PassedOf == 1 .. (IF argc < argumentc THEN argc ELSE argumentc)

(* The author's code of a checked operation finds one value per declared
   argument: what the caller passed, in its place and of the declared type,
   and after it the defaults of exactly the arguments left out. *)
BodySeesDeclared ==
  pc = "body" /\ single =>
    stack = [k \in 1 .. argumentc |->
               IF k \in PassedOf THEN Checked(args[k].base, passed[k]) ELSE DefaultValue(args[k])]

(* A call is refused exactly when it has too few values or passes one that
   its argument's type refuses, and fails only if an object it passes for a
   string has no conversion: an argument left to its default, whatever the
   default, refuses nothing, nor does a value beyond the last argument. *)
RefusedForCause ==
  LET cause == \/ argc < fixedargc
               \/ \E k \in PassedOf : Checked(args[k].base, passed[k]) = "error"
  IN  /\ pc = "error" => cause
      /\ pc \in {"body", "returned"} /\ single => ~cause
      /\ pc = "unconverted" =>
           \E k \in PassedOf : args[k].base = "string" /\ passed[k] = "object"

=============================================================================

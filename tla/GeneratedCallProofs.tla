-------------------------- MODULE GeneratedCallProofs --------------------------
(***************************************************************************)
(* The properties of a call of any generated function, for operations with *)
(* any number of arguments and calls with any number of values.            *)
(*                                                                         *)
(* The invariant says of each place in the generated code what is on the   *)
(* engine's stack there: of an operation which values have been checked,   *)
(* of an accessor also which references to strings it holds and what it    *)
(* has read, as far as the results at its end depend on it.                *)
(***************************************************************************)
EXTENDS GeneratedCall, FiniteSetTheorems, SequenceTheorems, TLAPS

(* the call and what it was given *)
CallOK ==
  /\ fn = Operation \/ (fn \in Accessors /\ Compiled(fn))
  /\ args \in Seq(Argument) /\ passed \in Seq(Value) /\ single \in BOOLEAN
  /\ pc = "enter" => stack = passed /\ argidx = 1
  /\ fn.kind = "operation" =>
       /\ pc \in {"enter", "check", "private", "body", "returned", "error", "unconverted"}
       /\ refs = 0 /\ written = "none"
  /\ fn.kind # "operation" =>
       /\ pc \in {"private", "body", "push", "lookup", "set", "forward", "returned", "thrown"}
       /\ ~single
       /\ passed \in PassedTo(fn)

(* what refuses a call of a checked operation *)
Cause == \/ Missing
         \/ \E k \in PassedOf : Checked(args[k].base, passed[k]) = "error"

(* what makes the check of one fail *)
Unconverted == \E k \in PassedOf : args[k].base = "string" /\ passed[k] = "object"

(* the arguments before argidx have been checked, those after it have not *)
CheckedUpTo(n) ==
  /\ ~Missing
  /\ n \in 1 .. argumentc + 1
  /\ stack = [k \in 1 .. argumentc |->
                IF k \notin PassedOf THEN DefaultValue(args[k])
                ELSE IF k < n THEN Checked(args[k].base, passed[k]) ELSE passed[k]]
  /\ \A k \in PassedOf : k < n => Checked(args[k].base, passed[k]) # "error"

(* the places of an operation *)
OperationOK ==
  /\ pc = "check" => CheckedUpTo(argidx)
  /\ pc \in {"private", "body", "returned"} /\ single => CheckedUpTo(argumentc + 1)
  /\ pc = "error" => Cause
  /\ pc = "unconverted" => Unconverted

(* at the start of the body of an accessor nothing has happened yet *)
Fresh == stack = passed /\ refs = 0 /\ local = "none" /\ written = "none" /\ ret = 0

(* a value of the attribute is on top of what was passed *)
Yields == /\ Len(stack) = Len(passed) + 1
          /\ Last(stack) \in CASE fn.base = "handler" -> {"object", "null"}
                               [] fn.base = "string" /\ fn.null -> {"string", "null"}
                               [] OTHER -> {fn.base}

(* the places of a getter, and of a setter that forwards, which calls one *)
GetterOK ==
  fn.kind \in {"getter", "forwards"} =>
    /\ pc \in {"private", "body"} => Fresh
    /\ pc = "push" => /\ fn.base \in {"string", "number", "boolean"}
                      /\ stack = passed /\ written = "none"
                      /\ local = fn.base \/ (local = "none" /\ fn.base = "string")
                      /\ refs = IF local = "string" THEN 1 ELSE 0
    /\ pc = "lookup" => fn.base = "handler" /\ stack = passed /\ refs = 1 /\ written = "none"
    /\ pc = "forward" => /\ fn.kind = "forwards" /\ refs = 0 /\ written = "none"
                         /\ Len(stack) > 1 /\ stack[1] = passed[1]
    /\ pc \in {"returned", "thrown"} =>
         /\ refs = 0
         /\ fn.kind = "getter" /\ ret = 1 => Yields
         /\ fn.kind = "forwards" /\ written # "none" =>
              written = passed[1] /\ stack[1] = passed[1] /\ Len(stack) > 1
    /\ pc # "set"

(* the places of any other setter *)
SetterOK ==
  fn.kind = "setter" =>
    /\ pc \in {"private", "body"} => Fresh
    /\ pc = "set" => fn.base = "string" /\ refs = 1 /\ local = "string"
    /\ pc \in {"returned", "thrown"} =>
         /\ refs = 0
         /\ written \in {"none", "zero", fn.base} \/ fn.base = "handler"
         /\ written = "zero" => passed[1] # fn.base
    /\ pc \notin {"push", "lookup", "forward"}

(* the one step of a member's accessor *)
MemberOK ==
  fn.kind = "member" =>
    /\ pc \in {"body", "returned", "thrown"}
    /\ refs = 0
    /\ pc = "body" => Fresh
    /\ member \in Value
    /\ MemberOrDefault

(* the inductive invariant *)
CallInv == CallOK /\ OperationOK /\ GetterOK /\ SetterOK /\ MemberOK

-----------------------------------------------------------------------------
(* The counts that the generated checks compare. *)
LEMMA Counts ==
  ASSUME args \in Seq(Argument), passed \in Seq(Value)
  PROVE  /\ argumentc \in Nat /\ argc \in Nat /\ fixedargc \in Int /\ fixedargc <= argumentc
         /\ DOMAIN args = 1 .. argumentc /\ DOMAIN passed = 1 .. argc
         /\ \A k \in 1 .. argumentc : args[k] \in Argument
         /\ \A k \in 1 .. argc : passed[k] \in Value
         /\ PassedOf = {k \in 1 .. argumentc : k <= argc}
<1>1. /\ argumentc \in Nat /\ argc \in Nat
      /\ DOMAIN args = 1 .. argumentc /\ DOMAIN passed = 1 .. argc
  BY LenProperties DEF argumentc, argc
<1>2. /\ \A k \in 1 .. argumentc : args[k] \in Argument
      /\ \A k \in 1 .. argc : passed[k] \in Value
  BY ElementOfSeq DEF argumentc, argc
<1>3. optionalc \in Nat
  <2>1. IsFiniteSet(1 .. argumentc)
    BY <1>1, FS_Interval
  <2>2. IsFiniteSet({k \in 1 .. argumentc : args[k].optional})
    BY <2>1, FS_Subset
  <2>3. QED
    BY <2>2, FS_CardinalityType DEF optionalc
<1>4. fixedargc \in Int /\ fixedargc <= argumentc
  BY <1>1, <1>3 DEF fixedargc
<1>5. PassedOf = {k \in 1 .. argumentc : k <= argc}
  BY <1>1 DEF PassedOf
<1>6. QED
  BY <1>1, <1>2, <1>4, <1>5

(* A default is a value that a caller could have passed. *)
LEMMA DefaultIsValue ==
  ASSUME NEW a \in Argument
  PROVE  DefaultValue(a) \in Value
BY DEF Argument, Literal, Value, DefaultValue

(* A function on an initial segment of the naturals is a sequence. *)
LEMMA FunctionIsSeq ==
  ASSUME NEW n \in Nat, NEW S, NEW f \in [1 .. n -> S]
  PROVE  f \in Seq(S) /\ Len(f) = n
<1>1. f \in Seq(S)
  BY SeqDef
<1>2. QED
  BY <1>1, LenProperties

(* What is left alone of a call keeps what is derived from it. *)
LEMMA Declared ==
  ASSUME UNCHANGED <<args, single, passed, fn>>
  PROVE  /\ argumentc' = argumentc /\ argc' = argc /\ fixedargc' = fixedargc
         /\ PassedOf' = PassedOf
         /\ Missing' <=> Missing
         /\ Cause' <=> Cause
         /\ Unconverted' <=> Unconverted
<1>1. argumentc' = argumentc /\ argc' = argc
  BY DEF argumentc, argc
<1>2. fixedargc' = fixedargc
  BY <1>1 DEF fixedargc, optionalc
<1>3. PassedOf' = PassedOf
  BY <1>1 DEF PassedOf
<1>4. Missing' <=> Missing
  BY <1>1, <1>2 DEF Missing
<1>5. QED
  BY <1>1, <1>2, <1>3, <1>4 DEF Cause, Unconverted

-----------------------------------------------------------------------------
(* Each way into the checks leaves one value per argument on the stack: that
   passed, or the default. *)
LEMMA EnterStep ==
  ASSUME args \in Seq(Argument), passed \in Seq(Value), stack = passed, argidx = 1,
         UNCHANGED <<args, single, passed, fn, argidx>>,
         AddDefaults \/ RemoveExtraneous \/ AsDeclared
  PROVE  CheckedUpTo(argidx)'
<1> DEFINE whole == [k \in 1 .. argumentc |->
                       IF k \notin PassedOf THEN DefaultValue(args[k]) ELSE passed[k]]
<1>1. /\ argumentc \in Nat /\ argc \in Nat /\ fixedargc \in Int /\ fixedargc <= argumentc
      /\ \A k \in 1 .. argumentc : DefaultValue(args[k]) \in Value
      /\ \A k \in 1 .. argc : passed[k] \in Value
      /\ PassedOf = {k \in 1 .. argumentc : k <= argc}
  BY Counts, DefaultIsValue
<1>2. /\ argumentc' = argumentc /\ argc' = argc /\ PassedOf' = PassedOf
      /\ Missing' <=> Missing
  BY Declared
<1>3. ~Missing
  BY <1>1 DEF AddDefaults, RemoveExtraneous, AsDeclared, Missing
<1>4. whole \in Seq(Value) /\ Len(whole) = argumentc
  <2>1. whole \in [1 .. argumentc -> Value]
    BY <1>1
  <2>2. QED
    BY <1>1, <2>1, FunctionIsSeq
<1>5. stack' = whole
  <2>1. CASE AddDefaults
    <3>1. argc < argumentc
      BY <1>1, <2>1 DEF AddDefaults
    <3>2. PICK d : d = DefaultsFrom(argc)
      OBVIOUS
    <3>3. d \in [1 .. argumentc - argc -> Value] /\ argumentc - argc \in Nat
      <4>1. \A k \in 1 .. argumentc - argc : argc + k \in 1 .. argumentc
        BY <1>1
      <4>2. QED
        BY <1>1, <3>1, <3>2, <4>1 DEF DefaultsFrom
    <3>4. d \in Seq(Value) /\ Len(d) = argumentc - argc
      BY <3>3, FunctionIsSeq
    <3>5. PICK t : t = passed \o d
      OBVIOUS
    <3>6. /\ t \in Seq(Value) /\ Len(t) = argc + (argumentc - argc)
          /\ \A i \in 1 .. argc + (argumentc - argc) :
               t[i] = IF i <= argc THEN passed[i] ELSE d[i - argc]
      <4>1. passed \in Seq(Value) /\ d \in Seq(Value) /\ argc = Len(passed)
        BY <3>4 DEF argc
      <4>2. QED
        BY ONLY <3>4, <3>5, <4>1, ConcatProperties
    <3>7. \A i \in 1 .. argumentc : t[i] = whole[i]
      <4>1. TAKE i \in 1 .. argumentc
      <4>2. CASE i <= argc
        BY <1>1, <3>1, <3>6, <4>2
      <4>3. CASE ~ (i <= argc)
        <5>1. i - argc \in 1 .. argumentc - argc /\ argc + (i - argc) = i
          BY <1>1, <4>3
        <5>2. d[i - argc] = DefaultValue(args[i])
          BY <3>2, <5>1 DEF DefaultsFrom
        <5>3. QED
          BY <1>1, <3>1, <3>6, <4>3, <5>2
      <4>4. QED
        BY <4>2, <4>3
    <3>8. Len(t) = argumentc
      BY <1>1, <3>6
    <3>9. t = whole
      <4> HIDE DEF whole
      <4>1. QED
        BY <1>4, <3>6, <3>7, <3>8, SeqEqual
    <3>10. QED
      BY <2>1, <3>2, <3>5, <3>9 DEF AddDefaults
  <2>2. CASE RemoveExtraneous
    <3>1. argumentc < argc
      BY <1>1, <2>2 DEF RemoveExtraneous
    <3>2. PICK t : t = SubSeq(passed, 1, argumentc)
      OBVIOUS
    <3>3. \A i \in 1 .. argumentc : passed[i] \in Value
      BY <1>1, <3>1
    <3>4. /\ t \in Seq(Value)
          /\ Len(t) = IF 1 <= argumentc THEN argumentc - 1 + 1 ELSE 0
          /\ \A i \in 1 .. argumentc - 1 + 1 : t[i] = passed[1 + i - 1]
      BY <1>1, <3>2, <3>3, SubSeqProperties
    <3>5. Len(t) = argumentc /\ \A i \in 1 .. argumentc : t[i] = passed[i]
      BY <1>1, <3>4
    <3>6. \A i \in 1 .. argumentc : t[i] = whole[i]
      BY <1>1, <3>1, <3>5
    <3>7. t = whole
      <4> HIDE DEF whole
      <4>1. QED
        BY <1>4, <3>4, <3>5, <3>6, SeqEqual
    <3>8. QED
      BY <2>2, <3>2, <3>7 DEF RemoveExtraneous
  <2>3. CASE AsDeclared
    <3>1. argc = argumentc
      BY <1>1, <1>3, <2>3 DEF AsDeclared, Missing
    <3>2. \A i \in 1 .. argumentc : passed[i] = whole[i]
      BY <1>1, <3>1
    <3>3. passed = whole
      <4> HIDE DEF whole
      <4>1. QED
        BY <1>4, <3>1, <3>2, SeqEqual DEF argc
    <3>4. QED
      BY <2>3, <3>3 DEF AsDeclared
  <2>4. QED
    BY <2>1, <2>2, <2>3
<1>6. QED
  <2>1. 1 \in 1 .. argumentc + 1
    BY <1>1
  <2>2. \A k \in 1 .. argumentc : ~ (k < 1)
    BY <1>1
  <2>3. argidx' = 1
    OBVIOUS
  <2>4. whole = [k \in 1 .. argumentc |->
                   IF k \notin PassedOf THEN DefaultValue(args[k])
                   ELSE IF k < 1 THEN Checked(args[k].base, passed[k]) ELSE passed[k]]
    BY <2>2
  <2>5. \A k \in PassedOf : ~ (k < 1)
    BY <1>1
  <2>6. QED
    BY <1>2, <1>3, <1>5, <2>1, <2>3, <2>4, <2>5 DEF CheckedUpTo

(* One more argument has been checked, or the call is refused for it. *)
LEMMA CheckStep ==
  ASSUME args \in Seq(Argument), passed \in Seq(Value), CheckedUpTo(argidx),
         UNCHANGED fn, CheckArgument
  PROVE  \/ pc' = "error" /\ Cause'
         \/ pc' = "unconverted" /\ Unconverted'
         \/ pc' = "check" /\ CheckedUpTo(argidx)'
<1>1. /\ argumentc \in Nat /\ argc \in Nat
      /\ PassedOf = {k \in 1 .. argumentc : k <= argc}
  BY Counts
<1>2. /\ UNCHANGED <<args, single, passed, fn>> /\ pc = "check" /\ argidx <= argumentc
      /\ argidx \in 1 .. argumentc
  BY <1>1 DEF CheckArgument, CheckedUpTo
<1>3. /\ argumentc' = argumentc /\ argc' = argc /\ PassedOf' = PassedOf
      /\ Missing' <=> Missing
      /\ Cause' <=> Cause
      /\ Unconverted' <=> Unconverted
  BY <1>2, Declared
<1>4. argc >= argidx <=> argidx \in PassedOf
  BY <1>1, <1>2
<1>5. /\ argidx \in PassedOf => stack[argidx] = passed[argidx]
      /\ argidx \notin PassedOf => stack[argidx] = DefaultValue(args[argidx])
  BY <1>1, <1>2 DEF CheckedUpTo
<1>6. CASE /\ argc >= argidx /\ Checked(args[argidx].base, stack[argidx]) = "error"
           /\ pc' = "error"
  <2>1. Cause
    BY <1>4, <1>5, <1>6 DEF Cause
  <2>2. QED
    BY <1>3, <1>6, <2>1
<1>7. CASE Throws(argidx) /\ pc' = "unconverted"
  <2>1. Unconverted
    BY <1>4, <1>5, <1>7 DEF Throws, Unconverted
  <2>2. QED
    BY <1>3, <1>7, <2>1
<1>8. CASE /\ argc >= argidx => Checked(args[argidx].base, stack[argidx]) # "error"
           /\ stack' = [stack EXCEPT ![argidx] =
                          IF argc >= argidx THEN Checked(args[argidx].base, @) ELSE @]
           /\ argidx' = argidx + 1
           /\ UNCHANGED pc
  <2>1. /\ pc' = "check" /\ argidx' = argidx + 1
        /\ stack' = [stack EXCEPT ![argidx] =
                       IF argc >= argidx THEN Checked(args[argidx].base, @) ELSE @]
    BY <1>2, <1>8
  <2>2. PICK n \in 1 .. argumentc : n = argidx
    BY <1>2
  <2>3. \A k \in PassedOf : k < n + 1 => Checked(args[k].base, passed[k]) # "error"
    <3>1. \A k \in PassedOf : k < n => Checked(args[k].base, passed[k]) # "error"
      BY <2>2 DEF CheckedUpTo
    <3>2. n \in PassedOf => Checked(args[n].base, passed[n]) # "error"
      BY <1>4, <1>5, <1>8, <2>2
    <3>3. \A k \in PassedOf : k < n + 1 => k < n \/ k = n
      BY <1>1, <2>2
    <3>4. QED
      BY <3>1, <3>2, <3>3
  <2>4. stack' = [k \in 1 .. argumentc |->
                    IF k \notin PassedOf THEN DefaultValue(args[k])
                    ELSE IF k < n + 1 THEN Checked(args[k].base, passed[k]) ELSE passed[k]]
    <3>1. stack = [k \in 1 .. argumentc |->
                     IF k \notin PassedOf THEN DefaultValue(args[k])
                     ELSE IF k < n THEN Checked(args[k].base, passed[k]) ELSE passed[k]]
      BY <2>2 DEF CheckedUpTo
    <3>2. stack' = [k \in 1 .. argumentc |->
                      IF k = n THEN IF n \in PassedOf THEN Checked(args[n].base, stack[n])
                                                      ELSE stack[n]
                      ELSE stack[k]]
      BY <1>4, <2>1, <2>2, <3>1
    <3>3. \A k \in 1 .. argumentc : k # n => (k < n + 1 <=> k < n)
      BY <1>1, <2>2
    <3>4. n < n + 1 /\ ~ (n < n)
      BY <2>2
    <3>5. QED
      BY <1>5, <2>2, <3>1, <3>2, <3>3, <3>4
  <2>5. n + 1 \in 1 .. argumentc + 1 /\ argidx' = n + 1
    BY <1>1, <2>1, <2>2
  <2>6. /\ ~Missing' /\ argidx' \in 1 .. argumentc' + 1
        /\ \A k \in PassedOf' : k < argidx' => Checked(args'[k].base, passed'[k]) # "error"
    BY <1>2, <1>3, <2>3, <2>5 DEF CheckedUpTo
  <2>7. stack' = [k \in 1 .. argumentc' |->
                    IF k \notin PassedOf' THEN DefaultValue(args'[k])
                    ELSE IF k < argidx' THEN Checked(args'[k].base, passed'[k])
                    ELSE passed'[k]]
    BY <1>2, <1>3, <2>4, <2>5
  <2>8. CheckedUpTo(argidx)'
    BY <2>6, <2>7 DEF CheckedUpTo
  <2>9. QED
    BY <1>2, <2>1, <2>8
<1>9. QED
  BY <1>6, <1>7, <1>8 DEF CheckArgument

(* Every step of an operation keeps the invariant. *)
LEMMA OperationStep ==
  ASSUME CallInv, fn.kind = "operation", Next, UNCHANGED call
  PROVE  CallInv'
<1>1. /\ args \in Seq(Argument) /\ passed \in Seq(Value) /\ single \in BOOLEAN
      /\ fn = Operation \/ (fn \in Accessors /\ Compiled(fn))
      /\ pc = "enter" => stack = passed /\ argidx = 1
      /\ refs = 0 /\ written = "none"
      /\ OperationOK
  BY DEF CallInv, CallOK
<1>2. UNCHANGED <<args, single, passed, fn, member, refs, local, written, ret>>
  BY DEF call, Next, EnterUnchecked, TooFew, AddDefaults, RemoveExtraneous, AsDeclared,
         CheckArgument, CheckEnd, GetMethodPrivate
<1>3. pc' \in {"check", "private", "body", "returned", "error", "unconverted"}
  BY DEF Next, EnterUnchecked, TooFew, AddDefaults, RemoveExtraneous, AsDeclared,
         CheckArgument, CheckEnd, GetMethodPrivate
<1>4. /\ argumentc' = argumentc
      /\ Missing' <=> Missing
      /\ Cause' <=> Cause
      /\ argumentc \in Nat
  BY <1>1, <1>2, Declared, Counts
<1>5. OperationOK'
  <2>1. CASE EnterUnchecked
    BY <1>2, <2>1 DEF EnterUnchecked, OperationOK
  <2>2. CASE TooFew
    BY <1>4, <2>2 DEF TooFew, OperationOK, Cause
  <2>3. CASE AddDefaults \/ RemoveExtraneous \/ AsDeclared
    <3>1. pc = "enter" /\ pc' = "check" /\ UNCHANGED argidx
      BY <2>3 DEF AddDefaults, RemoveExtraneous, AsDeclared
    <3>2. CheckedUpTo(argidx)'
      BY <1>1, <1>2, <2>3, <3>1, EnterStep
    <3>3. QED
      BY <3>1, <3>2 DEF OperationOK
  <2>4. CASE CheckArgument
    <3>1. CheckedUpTo(argidx)
      BY <1>1, <2>4 DEF CheckArgument, OperationOK
    <3>2. QED
      BY <1>1, <1>2, <2>4, <3>1, CheckStep DEF OperationOK
  <2>5. CASE CheckEnd
    <3>1. CheckedUpTo(argidx) /\ argidx > argumentc
      BY <1>1, <2>5 DEF CheckEnd, OperationOK
    <3>2. argidx = argumentc + 1
      BY <1>4, <3>1 DEF CheckedUpTo
    <3>3. pc' = "private" /\ UNCHANGED <<stack, argidx>>
      BY <2>5 DEF CheckEnd
    <3>4. CheckedUpTo(argumentc + 1)'
      BY <1>2, <3>1, <3>2, <3>3, Declared DEF CheckedUpTo
    <3>5. QED
      BY <3>3, <3>4 DEF OperationOK
  <2>6. CASE GetMethodPrivate
    <3>1. pc = "private" /\ pc' \in {"body", "returned"} /\ UNCHANGED <<stack, single>>
      BY <2>6 DEF GetMethodPrivate
    <3>2. single => CheckedUpTo(argumentc + 1)
      BY <1>1, <3>1 DEF OperationOK
    <3>3. CheckedUpTo(argumentc + 1) => CheckedUpTo(argumentc + 1)'
      BY <1>2, <3>1, Declared DEF CheckedUpTo
    <3>4. QED
      BY <3>1, <3>2, <3>3 DEF OperationOK
  <2>7. QED
    BY <2>1, <2>2, <2>3, <2>4, <2>5, <2>6 DEF Next
<1>6. CallOK'
  BY <1>1, <1>2, <1>3 DEF CallOK, Compiled
<1>7. GetterOK' /\ SetterOK' /\ MemberOK'
  BY <1>2 DEF GetterOK, SetterOK, MemberOK
<1>8. QED
  BY <1>5, <1>6, <1>7 DEF CallInv

-----------------------------------------------------------------------------
(* The value that is pushed last is on top, and leaves what is below it. *)
LEMMA OnTop ==
  ASSUME NEW s \in Seq(Value), NEW v \in Value
  PROVE  /\ Append(s, v) \in Seq(Value)
         /\ Len(Append(s, v)) = Len(s) + 1
         /\ Last(Append(s, v)) = v
         /\ Len(s) >= 1 => Append(s, v)[1] = s[1]
<1>1. Len(s) \in Nat
  BY LenProperties
<1>2. PICK t : t = Append(s, v)
  OBVIOUS
<1>3. /\ t \in Seq(Value) /\ Len(t) = Len(s) + 1
      /\ \A i \in 1 .. Len(s) : t[i] = s[i]
      /\ t[Len(s) + 1] = v
  BY <1>2, AppendProperties
<1>4. Last(t) = v
  BY <1>3 DEF Last
<1>5. Len(s) >= 1 => t[1] = s[1]
  BY <1>1, <1>3
<1>6. QED
  BY <1>2, <1>3, <1>4, <1>5

(* The event handler is below the node, which is popped. *)
LEMMA BelowTop ==
  ASSUME NEW s \in Seq(Value), NEW v \in Value, NEW w \in Value
  PROVE  Front(s \o <<v, w>>) = Append(s, v)
<1>1. Len(s) \in Nat
  BY LenProperties
<1>2. <<v, w>> \in Seq(Value) /\ Len(<<v, w>>) = 2
  OBVIOUS
<1>3. PICK t : t = s \o <<v, w>>
  OBVIOUS
<1>4. /\ t \in Seq(Value) /\ Len(t) = Len(s) + 2
      /\ \A i \in 1 .. Len(s) + 2 :
           t[i] = IF i <= Len(s) THEN s[i] ELSE <<v, w>>[i - Len(s)]
  BY <1>2, <1>3, ConcatProperties
<1>5. PICK u : u = SubSeq(t, 1, Len(t) - 1)
  OBVIOUS
<1>6. PICK n \in Nat : n = Len(s)
  BY <1>1
<1>7. /\ u \in Seq(Value) /\ Len(u) = n + 1
      /\ \A i \in 1 .. n + 1 : u[i] = t[i]
  <2>1. Len(t) - 1 = n + 1 /\ \A i \in 1 .. n + 1 : t[i] \in Value
    <3>1. Len(t) = n + 2
      BY <1>4, <1>6
    <3>2. \A i \in 1 .. n + 1 : i \in 1 .. Len(t)
      BY <3>1, <1>6
    <3>3. QED
      BY <1>4, <1>6, <3>1, <3>2, ElementOfSeq
  <2>2. /\ u \in Seq(Value)
        /\ Len(u) = IF 1 <= n + 1 THEN (n + 1) - 1 + 1 ELSE 0
        /\ \A i \in 1 .. (n + 1) - 1 + 1 : u[i] = t[1 + i - 1]
    BY <1>5, <1>6, <2>1, SubSeqProperties
  <2>3. QED
    BY <2>2
<1>8. PICK a : a = Append(s, v)
  OBVIOUS
<1>9. /\ a \in Seq(Value) /\ Len(a) = n + 1
      /\ \A i \in 1 .. n : a[i] = s[i]
      /\ a[n + 1] = v
  BY <1>6, <1>8, AppendProperties
<1>10. \A i \in 1 .. n + 1 : u[i] = a[i]
  <2>1. TAKE i \in 1 .. n + 1
  <2>2. CASE i <= n
    BY <1>4, <1>6, <1>7, <1>9, <2>2
  <2>3. CASE i = n + 1
    <3>1. t[i] = <<v, w>>[1]
      <4>1. i \in 1 .. Len(s) + 2 /\ ~ (i <= Len(s)) /\ i - Len(s) = 1
        BY <1>6, <2>3
      <4>2. QED
        BY <1>4, <4>1
    <3>2. QED
      BY <1>7, <1>9, <2>3, <3>1
  <2>4. QED
    BY <1>6, <2>2, <2>3
<1>11. u = a
  BY <1>7, <1>9, <1>10, SeqEqual
<1>12. QED
  BY <1>3, <1>5, <1>8, <1>11 DEF Front

(* What the kinds of accessors are called with. *)
LEMMA KindFacts ==
  ASSUME CallOK, fn.kind # "operation"
  PROVE  /\ fn \in Accessors
         /\ fn.kind \in {"getter", "setter", "forwards", "member"}
         /\ fn.kind \in {"getter", "setter"} => fn.base \in AttributeBase
         /\ fn.kind = "forwards" => fn.base \in ForwardBase
         /\ fn.kind = "member" => fn.base \in MemberBase /\ fn.literal \in Literal
         /\ fn.kind # "member" => fn.null \in BOOLEAN
         /\ passed \in Seq(Value)
         /\ fn.kind # "getter" => passed \in Seq(Value) /\ Len(passed) = 1 /\ passed[1] \in Value
<1>1. fn \in Accessors
  BY DEF CallOK, Operation
<1>2. passed \in Seq(Value) /\ passed \in PassedTo(fn)
  BY DEF CallOK
<1>3. fn.kind # "getter" => Len(passed) = 1 /\ passed[1] \in Value
  <2>1. SUFFICES ASSUME fn.kind # "getter" PROVE Len(passed) = 1 /\ passed[1] \in Value
    OBVIOUS
  <2>2. PICK v \in Value : passed = <<v>>
    BY <1>2, <2>1 DEF PassedTo
  <2>3. QED
    BY <2>2
<1>4. /\ fn.kind \in {"getter", "setter", "forwards", "member"}
      /\ fn.kind \in {"getter", "setter"} => fn.base \in AttributeBase
      /\ fn.kind = "forwards" => fn.base \in ForwardBase
      /\ fn.kind = "member" => fn.base \in MemberBase /\ fn.literal \in Literal
      /\ fn.kind # "member" => fn.null \in BOOLEAN
  BY <1>1 DEF Accessors
<1>5. QED
  BY <1>1, <1>2, <1>3, <1>4

(* the steps that only accessors have *)
AccessorAction ==
  \/ GetByAuthor \/ GetAttribute \/ PushAttribute \/ CreateName \/ GetHandler \/ PutForward
  \/ CreateString \/ SetString \/ SetAttribute \/ SetHandler
  \/ GetMember

(* They leave alone what the accessor was called with. *)
LEMMA AccessorFrame ==
  ASSUME AccessorAction
  PROVE  UNCHANGED <<args, single, passed, argidx, fn, member>>
BY DEF AccessorAction, GetByAuthor, GetAttribute, PushAttribute, CreateName, GetHandler,
       PutForward, CreateString, SetString, SetAttribute, SetHandler, GetMember, declared

(* A getter goes on to the setter that called it, or ends. *)
LEMMA Returning ==
  ASSUME CallOK, fn.kind \in {"getter", "forwards"}, NEW n \in {0, 1}, Return(n)
  PROVE  /\ fn.kind = "getter" \/ n = 0 => pc' = "returned"
         /\ fn.kind = "forwards" /\ n = 1 => pc' = "forward"
         /\ ret' = 1 => n = 1
BY DEF Return

(* Every step of a getter, or of a setter that forwards. *)
LEMMA GetterStep ==
  ASSUME CallOK, GetterOK, fn.kind \in {"getter", "forwards"}, AccessorAction
  PROVE  GetterOK' /\ pc' \in {"push", "lookup", "forward", "returned", "thrown"}
<1>1. /\ UNCHANGED <<passed, fn>>
      /\ passed \in Seq(Value) /\ Len(passed) \in Nat
      /\ fn.base \in ForwardBase /\ (fn.kind = "getter" => fn.base \in AttributeBase)
      /\ fn.null \in BOOLEAN
      /\ fn.kind = "forwards" => Len(passed) = 1 /\ passed[1] \in Value
  BY AccessorFrame, KindFacts, LenProperties DEF AttributeBase, ForwardBase
<1>2. CASE GetByAuthor
  <2>1. pc = "body" /\ fn.base = "author" /\ UNCHANGED <<refs, local, written>>
    BY <1>2 DEF GetByAuthor, Gets
  <2>2. fn.kind = "forwards" /\ Fresh
    BY <1>1, <2>1 DEF AttributeBase, GetterOK
  <2>3. CASE Return(0) /\ UNCHANGED stack
    <3>1. pc' = "returned"
      BY <2>2, <2>3, Returning
    <3>2. QED
      BY <1>1, <2>1, <2>2, <3>1 DEF GetterOK, Fresh
  <2>4. CASE \E own \in {<<>>, <<"number">>}, v \in {"object", "null"} :
               stack' = stack \o own \o <<v>> /\ Return(1)
    <3>1. PICK own \in {<<>>, <<"number">>}, v \in {"object", "null"} :
            stack' = stack \o own \o <<v>> /\ Return(1)
      BY <2>4
    <3>2. pc' = "forward"
      BY <2>2, <3>1, Returning
    <3>3. PICK s : s = passed \o own
      OBVIOUS
    <3>4. s \in Seq(Value) /\ Len(s) \in Nat \ {0} /\ s[1] = passed[1]
      <4>1. own \in Seq(Value) /\ Len(own) \in Nat
        <5>1. CASE own = <<>>
          BY <5>1, EmptySeq
        <5>2. CASE own = <<"number">>
          BY <5>2 DEF Value
        <5>3. QED
          BY <5>1, <5>2
      <4>2. /\ s \in Seq(Value) /\ Len(s) = Len(passed) + Len(own)
            /\ \A i \in 1 .. Len(passed) + Len(own) :
                 s[i] = IF i <= Len(passed) THEN passed[i] ELSE own[i - Len(passed)]
        BY <1>1, <3>3, <4>1, ConcatProperties
      <4>3. Len(passed) = 1
        BY <1>1, <2>2
      <4>4. PICK n \in Nat : n = Len(own)
        BY <4>1
      <4>5. Len(s) = 1 + n /\ \A i \in 1 .. 1 + n : i <= 1 => s[i] = passed[i]
        BY <4>2, <4>3, <4>4
      <4>6. QED
        BY <4>2, <4>4, <4>5
    <3>5. PICK t : t = s \o <<v>>
      OBVIOUS
    <3>6. Len(t) > 1 /\ t[1] = passed[1]
      <4>1. <<v>> \in Seq(Value) /\ Len(<<v>>) = 1
        BY DEF Value
      <4>2. /\ Len(t) = Len(s) + 1
            /\ \A i \in 1 .. Len(s) + 1 :
                 t[i] = IF i <= Len(s) THEN s[i] ELSE <<v>>[i - Len(s)]
        BY <3>4, <3>5, <4>1, ConcatProperties
      <4>3. QED
        BY <3>4, <4>2
    <3>7. stack' = t
      BY <2>2, <3>1, <3>3, <3>5 DEF Fresh
    <3>8. QED
      BY <1>1, <2>1, <2>2, <3>2, <3>6, <3>7 DEF GetterOK, Fresh
  <2>5. QED
    BY <1>2, <2>3, <2>4 DEF GetByAuthor
<1>3. CASE GetAttribute
  <2>1. /\ pc = "body" /\ fn.base \in {"string", "number", "boolean"}
        /\ UNCHANGED <<stack, written>>
    BY <1>3 DEF GetAttribute, Gets
  <2>2. Fresh
    BY <2>1 DEF GetterOK
  <2>3. CASE Return(0) /\ UNCHANGED <<refs, local>>
    <3>1. pc' = "returned" /\ ret' # 1
      BY <2>3, Returning
    <3>2. QED
      BY <1>1, <2>1, <2>2, <2>3, <3>1 DEF GetterOK, Fresh
  <2>4. CASE /\ local' = fn.base
             /\ refs' = refs + IF fn.base = "string" THEN 1 ELSE 0
             /\ pc' = "push" /\ UNCHANGED ret
    BY <1>1, <2>1, <2>2, <2>4 DEF GetterOK, Fresh
  <2>5. CASE fn.base = "string" /\ pc' = "push" /\ UNCHANGED <<refs, local, ret>>
    BY <1>1, <2>1, <2>2, <2>5 DEF GetterOK, Fresh
  <2>6. QED
    BY <1>3, <2>3, <2>4, <2>5 DEF GetAttribute
<1>4. CASE PushAttribute
  <2>1. /\ pc = "push" /\ fn.base \in {"string", "number", "boolean"}
        /\ stack = passed /\ written = "none"
        /\ local = fn.base \/ (local = "none" /\ fn.base = "string")
        /\ refs = IF local = "string" THEN 1 ELSE 0
    BY <1>4 DEF PushAttribute, GetterOK
  <2>2. refs' = 0 /\ written' = "none" /\ Return(1)
    BY <1>4, <2>1 DEF PushAttribute
  <2>3. PICK v : v = IF local # "none" THEN local ELSE IF fn.null THEN "null" ELSE "string"
    OBVIOUS
  <2>4. v \in Value /\ stack' = Append(passed, v)
    BY <1>4, <2>1, <2>3 DEF PushAttribute, Value
  <2>5. PICK t : t = Append(passed, v)
    OBVIOUS
  <2>6. Len(t) = Len(passed) + 1 /\ Last(t) = v /\ (Len(passed) >= 1 => t[1] = passed[1])
    BY <1>1, <2>4, <2>5, OnTop
  <2>7. CASE fn.kind = "getter"
    <3>1. pc' = "returned"
      BY <2>2, <2>7, Returning
    <3>2. v \in CASE fn.base = "handler" -> {"object", "null"}
                  [] fn.base = "string" /\ fn.null -> {"string", "null"}
                  [] OTHER -> {fn.base}
      BY <2>1, <2>3
    <3>3. Yields'
      BY <1>1, <2>4, <2>5, <2>6, <3>2 DEF Yields
    <3>4. QED
      BY <1>1, <2>2, <2>7, <3>1, <3>3 DEF GetterOK
  <2>8. CASE fn.kind = "forwards"
    <3>1. pc' = "forward"
      BY <2>2, <2>8, Returning
    <3>2. stack' = t /\ Len(t) > 1 /\ t[1] = passed[1]
      BY <1>1, <2>4, <2>5, <2>6, <2>8
    <3>3. QED
      BY <1>1, <2>2, <2>8, <3>1, <3>2 DEF GetterOK
  <2>9. QED
    BY <2>7, <2>8
<1>5. CASE CreateName
  <2>1. pc = "body" /\ fn.base = "handler" /\ UNCHANGED <<stack, local, written>>
    BY <1>5 DEF CreateName, Gets
  <2>2. Fresh
    BY <2>1 DEF GetterOK
  <2>3. CASE Return(0) /\ UNCHANGED refs
    <3>1. pc' = "returned" /\ ret' # 1
      BY <2>3, Returning
    <3>2. QED
      BY <1>1, <2>1, <2>2, <2>3, <3>1 DEF GetterOK, Fresh
  <2>4. CASE refs' = refs + 1 /\ pc' = "lookup" /\ UNCHANGED ret
    BY <1>1, <2>1, <2>2, <2>4 DEF GetterOK, Fresh
  <2>5. QED
    BY <1>5, <2>3, <2>4 DEF CreateName
<1>6. CASE GetHandler
  <2>1. fn.base = "handler" /\ stack = passed /\ refs = 1 /\ written = "none"
    BY <1>6 DEF GetHandler, GetterOK
  <2>2. refs' = 0 /\ written' = "none"
    BY <1>6, <2>1 DEF GetHandler
  <2>3. CASE Return(0)
    <3>1. pc' = "returned" /\ ret' # 1
      BY <2>3, Returning
    <3>2. QED
      BY <1>1, <2>2, <3>1 DEF GetterOK
  <2>4. CASE /\ \E handler \in {"object", "null"} :
                  stack' = Front(stack \o <<handler, "object">>)
             /\ Return(1)
    <3>1. PICK v \in {"object", "null"} : stack' = Front(stack \o <<v, "object">>)
      BY <2>4
    <3>2. v \in Value /\ "object" \in Value
      BY DEF Value
    <3>3. stack' = Append(passed, v)
      BY <1>1, <2>1, <3>1, <3>2, BelowTop
    <3>4. PICK t : t = Append(passed, v)
      OBVIOUS
    <3>5. Len(t) = Len(passed) + 1 /\ Last(t) = v /\ (Len(passed) >= 1 => t[1] = passed[1])
      BY <1>1, <3>2, <3>4, OnTop
    <3>6. CASE fn.kind = "getter"
      <4>1. pc' = "returned"
        BY <2>4, <3>6, Returning
      <4>2. Yields'
        BY <1>1, <2>1, <3>3, <3>4, <3>5 DEF Yields
      <4>3. QED
        BY <1>1, <2>2, <3>6, <4>1, <4>2 DEF GetterOK
    <3>7. CASE fn.kind = "forwards"
      <4>1. pc' = "forward"
        BY <2>4, <3>7, Returning
      <4>2. stack' = t /\ Len(t) > 1 /\ t[1] = passed[1]
        BY <1>1, <3>3, <3>4, <3>5, <3>7
      <4>3. QED
        BY <1>1, <2>2, <3>7, <4>1, <4>2 DEF GetterOK
    <3>8. QED
      BY <3>6, <3>7
  <2>5. QED
    BY <1>6, <2>3, <2>4 DEF GetHandler
<1>7. CASE PutForward
  <2>1. /\ fn.kind = "forwards" /\ refs = 0 /\ written = "none"
        /\ Len(stack) > 1 /\ stack[1] = passed[1]
        /\ UNCHANGED <<stack, refs>>
    BY <1>7 DEF PutForward, GetterOK
  <2>2. \/ pc' = "thrown" /\ written' = "none"
        \/ pc' = "returned" /\ written' = passed[1]
    BY <1>7, <2>1 DEF PutForward
  <2>3. QED
    BY <1>1, <2>1, <2>2 DEF GetterOK
<1>8. ~ (CreateString \/ SetString \/ SetAttribute \/ SetHandler \/ GetMember)
  BY DEF CreateString, SetString, SetAttribute, SetHandler, GetMember, Sets, Member, GetterOK
<1>9. QED
  BY <1>2, <1>3, <1>4, <1>5, <1>6, <1>7, <1>8 DEF AccessorAction

(* Every step of a setter that does not forward. *)
LEMMA SetterStep ==
  ASSUME CallOK, SetterOK, fn.kind = "setter", AccessorAction
  PROVE  SetterOK' /\ pc' \in {"set", "returned"}
<1>1. /\ UNCHANGED <<passed, fn>>
      /\ fn.base \in AttributeBase
  BY AccessorFrame, KindFacts
<1>2. CASE CreateString
  <2>1. pc = "body" /\ fn.base = "string" /\ local' = "string" /\ UNCHANGED written
    BY <1>2 DEF CreateString, Sets
  <2>2. Fresh
    BY <2>1 DEF SetterOK
  <2>3. \/ pc' = "returned" /\ refs' = 0
        \/ pc' = "set" /\ refs' = 1
    <3>1. \/ pc' = "returned" /\ UNCHANGED refs
          \/ pc' = "set" /\ refs' = refs + 1
      BY <1>2, Zenon DEF CreateString
    <3>2. refs = 0
      BY <2>2 DEF Fresh
    <3>3. QED
      BY <3>1, <3>2
  <2>4. QED
    BY <1>1, <2>1, <2>2, <2>3 DEF SetterOK, Fresh
<1>3. CASE SetString
  <2>1. fn.base = "string" /\ refs = 1 /\ local = "string"
    BY <1>3 DEF SetString, SetterOK
  <2>2. pc' = "returned" /\ refs' = 0 /\ written' \in {"string", "none"}
    BY <1>3, <2>1 DEF SetString
  <2>3. QED
    BY <1>1, <2>1, <2>2 DEF SetterOK
<1>4. CASE SetAttribute
  <2>1. pc = "body" /\ fn.base \in {"number", "boolean"} /\ pc' = "returned" /\ UNCHANGED refs
    BY <1>4 DEF SetAttribute, Sets
  <2>2. Fresh
    BY <2>1 DEF SetterOK
  <2>3. /\ written' \in {"none", "zero", fn.base}
        /\ written' = "zero" => passed[1] # fn.base
    BY <1>4, <2>1, <2>2 DEF SetAttribute, Fresh
  <2>4. QED
    BY <1>1, <2>1, <2>2, <2>3 DEF SetterOK, Fresh
<1>5. CASE SetHandler
  <2>1. pc = "body" /\ fn.base = "handler" /\ pc' = "returned" /\ UNCHANGED refs
    BY <1>5 DEF SetHandler, Sets
  <2>2. Fresh /\ passed[1] \in Value
    BY <2>1, KindFacts DEF SetterOK
  <2>3. written' \in Value
    BY <1>5, <2>2 DEF SetHandler, Fresh
  <2>4. written' # "zero"
    BY <2>3 DEF Value
  <2>5. QED
    BY <1>1, <2>1, <2>2, <2>4 DEF SetterOK, Fresh
<1>6. ~ \/ GetByAuthor \/ GetAttribute \/ PushAttribute \/ CreateName \/ GetHandler
        \/ PutForward \/ GetMember
  BY DEF GetByAuthor, GetAttribute, PushAttribute, CreateName, GetHandler, PutForward,
         GetMember, Gets, Member, SetterOK
<1>7. QED
  BY <1>2, <1>3, <1>4, <1>5, <1>6 DEF AccessorAction

(* The one step of the accessor of a member: a property that is not there
   is the default, one of the member's type is its value. *)
LEMMA MemberStep ==
  ASSUME CallOK, MemberOK, fn.kind = "member", AccessorAction
  PROVE  MemberOK' /\ pc' \in {"returned", "thrown"}
<1>1. /\ UNCHANGED <<passed, fn, member>>
      /\ fn.base \in MemberBase /\ fn.literal \in Literal
      /\ member \in Value
  BY AccessorFrame, KindFacts DEF MemberOK
<1>2. /\ pc = "body" /\ GetMember
  BY DEF MemberOK, AccessorAction, GetByAuthor, GetAttribute, PushAttribute, CreateName,
         GetHandler, PutForward, CreateString, SetString, SetAttribute, SetHandler,
         GetMember, Gets, Sets, Member
<1>3. Fresh
  BY <1>2 DEF MemberOK
<1>4. refs' = 0 /\ stack = passed
  BY <1>2, <1>3 DEF GetMember, Fresh
<1>5. CASE stack[1] \in {"undefined", "null"} /\ pc' = "thrown"
  BY <1>1, <1>4, <1>5 DEF MemberOK, MemberOrDefault
<1>6. CASE /\ member = "undefined" /\ local' = DefaultOf(fn.base, fn.literal)
           /\ pc' = "returned" /\ UNCHANGED stack
  <2>1. Suits(fn.base, fn.literal) =>
          DefaultOf(fn.base, fn.literal) = IF fn.literal # "none" THEN "literal"
                                           ELSE IF fn.base = "string" THEN "none"
                                           ELSE "zero"
    BY <1>1 DEF Suits, DefaultOf, MemberBase, Literal
  <2>2. QED
    BY <1>1, <1>4, <1>6, <2>1 DEF MemberOK, MemberOrDefault
<1>7. CASE /\ member = ValueOf(fn.base) /\ local' = member
           /\ pc' = "returned" /\ UNCHANGED stack
  <2>1. member # "undefined"
    BY <1>1, <1>7 DEF ValueOf, MemberBase
  <2>2. QED
    BY <1>1, <1>4, <1>7, <2>1 DEF MemberOK, MemberOrDefault
<1>8. CASE member \notin {"undefined", ValueOf(fn.base)} /\ pc' = "thrown"
  BY <1>1, <1>4, <1>8 DEF MemberOK, MemberOrDefault
<1>9. QED
  BY <1>2, <1>5, <1>6, <1>7, <1>8 DEF GetMember

(* The steps that accessors share with operations: only the private data is
   looked for. *)
LEMMA PrivateStep ==
  ASSUME CallInv, fn.kind # "operation", Next, UNCHANGED call
  PROVE  CallInv'
<1>1. pc = "private" /\ pc' \in {"body", "returned"} /\ UNCHANGED <<args, single, passed, stack, argidx>>
  BY DEF CallInv, CallOK, Next, EnterUnchecked, TooFew, AddDefaults, RemoveExtraneous,
         AsDeclared, CheckArgument, CheckEnd, GetMethodPrivate
<1>2. UNCHANGED <<fn, member, refs, local, written, ret>>
  BY DEF call
<1>3. CallOK'
  BY <1>1, <1>2 DEF CallInv, CallOK, Compiled, PassedTo
<1>4. OperationOK'
  BY <1>1, <1>2 DEF CallInv, CallOK, OperationOK
<1>5. GetterOK'
  BY <1>1, <1>2 DEF CallInv, GetterOK, Fresh
<1>6. SetterOK'
  BY <1>1, <1>2 DEF CallInv, SetterOK, Fresh
<1>7. MemberOK'
  BY <1>1, <1>2 DEF CallInv, MemberOK
<1>8. QED
  BY <1>3, <1>4, <1>5, <1>6, <1>7 DEF CallInv

(* Every step of an accessor's own keeps the invariant. *)
LEMMA AccessorStep ==
  ASSUME CallInv, AccessorAction
  PROVE  CallInv'
<1>1. CallOK /\ GetterOK /\ SetterOK /\ MemberOK
  BY DEF CallInv
<1>2. fn.kind \in {"getter", "setter", "forwards", "member"}
  <2>1. fn.kind # "operation"
    BY <1>1 DEF CallOK, AccessorAction, GetByAuthor, GetAttribute, PushAttribute, CreateName,
            GetHandler, PutForward, CreateString, SetString, SetAttribute, SetHandler,
            GetMember, Gets, Sets, Member
  <2>2. QED
    BY <1>1, <2>1, KindFacts
<1>3. UNCHANGED <<args, single, passed, argidx, fn>>
  BY AccessorFrame
<1>4. /\ GetterOK' /\ SetterOK' /\ MemberOK'
      /\ pc' \in {"push", "lookup", "set", "forward", "returned", "thrown"}
  <2>1. CASE fn.kind \in {"getter", "forwards"}
    <3>1. GetterOK' /\ pc' \in {"push", "lookup", "forward", "returned", "thrown"}
      BY <1>1, <2>1, GetterStep
    <3>2. SetterOK' /\ MemberOK'
      BY <1>3, <2>1 DEF SetterOK, MemberOK
    <3>3. QED
      BY <3>1, <3>2
  <2>2. CASE fn.kind = "setter"
    <3>1. SetterOK' /\ pc' \in {"set", "returned"}
      BY <1>1, <2>2, SetterStep
    <3>2. GetterOK' /\ MemberOK'
      BY <1>3, <2>2 DEF GetterOK, MemberOK
    <3>3. QED
      BY <3>1, <3>2
  <2>3. CASE fn.kind = "member"
    <3>1. MemberOK' /\ pc' \in {"returned", "thrown"}
      BY <1>1, <2>3, MemberStep
    <3>2. GetterOK' /\ SetterOK'
      BY <1>3, <2>3 DEF GetterOK, SetterOK
    <3>3. QED
      BY <3>1, <3>2
  <2>4. QED
    BY <1>2, <2>1, <2>2, <2>3
<1>5. CallOK'
  BY <1>1, <1>2, <1>3, <1>4 DEF CallOK, Compiled, PassedTo
<1>6. OperationOK'
  BY <1>1, <1>2, <1>3, <1>4 DEF CallOK, OperationOK
<1>7. QED
  BY <1>4, <1>5, <1>6 DEF CallInv

(* A call starts with what was passed to it on the stack. *)
LEMMA InitStep ==
  ASSUME CallInit
  PROVE  CallInv
<1>1. CASE fn = Operation /\ Init
  <2>1. args \in Seq(Argument) /\ passed \in Seq(Value)
    <3>1. \A S, n : BoundedSeq(S, n) \subseteq Seq(S)
      <4>1. SUFFICES ASSUME NEW S, NEW n, NEW s \in BoundedSeq(S, n) PROVE s \in Seq(S)
        OBVIOUS
      <4>2. PICK m \in 0 .. n : s \in [1 .. m -> S]
        BY DEF BoundedSeq, SeqOf
      <4>3. m \in Nat
        BY <4>2
      <4>4. QED
        BY <4>2, <4>3, FunctionIsSeq
    <3>2. QED
      BY <1>1, <3>1 DEF Init
  <2>2. fn.kind = "operation"
    BY <1>1 DEF Operation
  <2>3. pc = "enter" /\ stack = passed /\ argidx = 1 /\ single \in BOOLEAN
    BY <1>1 DEF Init
  <2>4. refs = 0 /\ written = "none"
    BY DEF CallInit
  <2>5. QED
    BY <1>1, <2>1, <2>2, <2>3, <2>4
       DEF CallInv, CallOK, OperationOK, GetterOK, SetterOK, MemberOK
<1>2. CASE /\ fn \in {f \in Accessors : Compiled(f)}
           /\ args = <<>> /\ single = FALSE
           /\ passed \in PassedTo(fn) /\ stack = passed
           /\ argidx = 1
           /\ pc = IF fn.kind = "member" THEN "body" ELSE "private"
  <2>1. args \in Seq(Argument)
    BY <1>2, EmptySeq
  <2>2. passed \in Seq(Value)
    <3>1. CASE fn.kind = "getter"
      BY <1>2, <3>1, EmptySeq DEF PassedTo
    <3>2. CASE fn.kind # "getter"
      <4>1. PICK v \in Value : passed = <<v>>
        BY <1>2, <3>2 DEF PassedTo
      <4>2. QED
        BY <4>1
    <3>3. QED
      BY <3>1, <3>2
  <2>3. fn.kind # "operation"
    BY <1>2 DEF Accessors
  <2>4. Fresh
    BY <1>2 DEF CallInit, Fresh
  <2>5. CallOK /\ OperationOK
    BY <1>2, <2>1, <2>2, <2>3 DEF CallOK, OperationOK
  <2>6. GetterOK /\ SetterOK /\ MemberOK
    BY <1>2, <2>4 DEF CallInit, GetterOK, SetterOK, MemberOK, MemberOrDefault, Fresh
  <2>7. QED
    BY <2>5, <2>6 DEF CallInv
<1>3. QED
  BY <1>1, <1>2 DEF CallInit

-----------------------------------------------------------------------------
(* The invariant from which the properties of a call follow. *)
THEOREM CallInvariant == CallSpec => []CallInv
<1>1. CallInv /\ [CallNext]_<<vars, call>> => CallInv'
  <2>1. SUFFICES ASSUME CallInv, [CallNext]_<<vars, call>> PROVE CallInv'
    OBVIOUS
  <2>2. CASE Next /\ UNCHANGED call
    BY <2>1, <2>2, OperationStep, PrivateStep
  <2>3. CASE AccessorAction
    BY <2>1, <2>3, AccessorStep
  <2>4. CASE UNCHANGED <<vars, call>>
    <3>1. UNCHANGED <<args, single, passed, stack, argidx, pc, fn, member, refs, local, written, ret>>
      BY <2>4 DEF vars, call
    <3>2. CallOK'
      BY <2>1, <3>1 DEF CallInv, CallOK, Compiled, PassedTo
    <3>3. OperationOK'
      BY <2>1, <3>1, Declared DEF CallInv, OperationOK, CheckedUpTo
    <3>4. GetterOK' /\ SetterOK'
      BY <2>1, <3>1 DEF CallInv, GetterOK, SetterOK, Fresh, Yields
    <3>5. MemberOK'
      BY <2>1, <3>1 DEF CallInv, MemberOK, MemberOrDefault, Fresh
    <3>6. QED
      BY <3>2, <3>3, <3>4, <3>5 DEF CallInv
  <2>5. QED
    BY <2>1, <2>2, <2>3, <2>4 DEF CallNext, AccessorAction
<1>2. QED
  BY <1>1, InitStep, PTL DEF CallSpec

(* The author's code of a checked operation finds the arguments as declared,
   in their places and with their defaults, for any number of arguments and
   of values passed. *)
THEOREM BodyFindsArguments == CallSpec => []BodySeesDeclared
<1>1. ASSUME CallInv PROVE BodySeesDeclared
  <2>1. SUFFICES ASSUME pc = "body", single
                 PROVE  stack = [k \in 1 .. argumentc |->
                                   IF k \in PassedOf THEN Checked(args[k].base, passed[k])
                                   ELSE DefaultValue(args[k])]
    BY DEF BodySeesDeclared
  <2>2. CheckedUpTo(argumentc + 1) /\ argumentc \in Nat
    BY <1>1, <2>1, Counts DEF CallInv, CallOK, OperationOK
  <2>3. \A k \in 1 .. argumentc : k < argumentc + 1
    BY <2>2
  <2>4. QED
    BY <2>2, <2>3 DEF CheckedUpTo
<1>2. QED
  BY <1>1, CallInvariant, PTL

(* A call is refused for too few values or one of the wrong type, and for
   nothing else. *)
THEOREM RefusedWithCause == CallSpec => []RefusedForCause
<1>1. ASSUME CallInv PROVE RefusedForCause
  <2>1. /\ pc = "error" => Cause
        /\ pc = "unconverted" => Unconverted
    BY <1>1 DEF CallInv, OperationOK
  <2>2. ASSUME pc \in {"body", "returned"}, single PROVE ~Cause
    <3>1. CheckedUpTo(argumentc + 1)
      BY <1>1, <2>2 DEF CallInv, OperationOK
    <3>2. argumentc \in Nat /\ PassedOf \subseteq 1 .. argumentc
      BY <1>1, Counts DEF CallInv, CallOK
    <3>3. \A k \in PassedOf : k < argumentc + 1
      BY <3>2
    <3>4. QED
      BY <3>1, <3>3 DEF CheckedUpTo, Cause
  <2>3. QED
    BY <2>1, <2>2 DEF RefusedForCause, Cause, Unconverted, Missing
<1>2. QED
  BY <1>1, CallInvariant, PTL

(* No call of an accessor ends with a reference to a string in hand, nor
   releases one twice. *)
THEOREM NoReferenceLeft == CallSpec => []ReferencesReleased
<1>1. ASSUME CallInv PROVE ReferencesReleased
  <2>1. CASE fn.kind = "operation"
    BY <1>1, <2>1 DEF CallInv, CallOK, ReferencesReleased, over
  <2>2. CASE fn.kind # "operation"
    <3>1. fn.kind \in {"getter", "setter", "forwards", "member"}
      BY <1>1, <2>2, KindFacts DEF CallInv
    <3>2. pc \in {"private", "body", "push", "lookup", "set", "forward", "returned", "thrown"}
      BY <1>1, <2>2 DEF CallInv, CallOK
    <3>3. QED
      BY <1>1, <3>1, <3>2
         DEF CallInv, GetterOK, SetterOK, MemberOK, Fresh, ReferencesReleased, over
  <2>3. QED
    BY <2>1, <2>2
<1>2. QED
  BY <1>1, CallInvariant, PTL

(* What accessors return and store is of the attribute's type and in its
   place on the stack. *)
THEOREM AccessorsYield == CallSpec => []AccessorYields
<1>1. ASSUME CallInv PROVE AccessorYields
  <2>1. CASE fn.kind = "getter"
    BY <1>1, <2>1 DEF CallInv, GetterOK, Yields, AccessorYields, over
  <2>2. CASE fn.kind = "forwards"
    BY <1>1, <2>2 DEF CallInv, GetterOK, AccessorYields, over
  <2>3. CASE fn.kind = "setter"
    BY <1>1, <2>3 DEF CallInv, SetterOK, AccessorYields, over
  <2>4. CASE fn.kind \notin {"getter", "forwards", "setter"}
    BY <2>4 DEF AccessorYields
  <2>5. QED
    BY <2>1, <2>2, <2>3, <2>4
<1>2. QED
  BY <1>1, CallInvariant, PTL

(* A dictionary member that is there is what the author's code gets, and one
   that is not is its default. *)
THEOREM MembersOrDefaults == CallSpec => []MemberOrDefault
<1>1. CallInv => MemberOrDefault
  BY DEF CallInv, MemberOK, MemberOrDefault
<1>2. QED
  BY <1>1, CallInvariant, PTL
=============================================================================

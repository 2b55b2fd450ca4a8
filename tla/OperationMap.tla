---------------------------- MODULE OperationMap ----------------------------
(***************************************************************************)
(* operation_map_new (ir.c): the operations of an interface, gathered over *)
(* all its member lists, become an array of entries in which operations of *)
(* one name share an entry and differ as overloads of it.  The array is    *)
(* allocated zeroed for as many entries as there are operations, and the   *)
(* count is lowered whenever an operation turns out to be an overload, so  *)
(* one variable is at once the bound of the search and the size to come.   *)
(*                                                                         *)
(* An operation is its name, Null for a special operation that the IDL     *)
(* leaves unnamed ("getter any (unsigned long index);"), and its           *)
(* arguments, each "plain", "optional" or "ellipsis".                      *)
(***************************************************************************)
EXTENDS Integers, SequencesExt

CONSTANTS Names, Null, Args

ASSUME NullAssumption == Null \notin Names
ASSUME ArgsAssumption == Args \subseteq Seq({"plain", "optional", "ellipsis"})

Operation == [name : Names \cup {Null}, args : Args]

VARIABLES
  ops,         \* the OPERATION nodes, in the order the two searches yield
  at,          \* operations already gathered
  operationv,  \* the array: name, AST node and overloads of each slot
  operationc,  \* the running count
  cure,        \* first slot not yet turned into an entry
  pc           \* "gather" or "done"

vars == <<ops, at, operationv, operationc, cure, pc>>

-----------------------------------------------------------------------------
Kinds(args, kind) == {k \in 1 .. Len(args) : args[k] = kind}

(* overload_map_new with argument_map_new: the counts that the generated
   argument check is made from; op records the operation they come from *)
Overload(op) == [op |-> op,
                 argumentc |-> Len(ops[op].args),
                 optionalc |-> Cardinality(Kinds(ops[op].args, "optional")),
                 elipsisc |-> Cardinality(Kinds(ops[op].args, "ellipsis"))]

(* mistake: the name is not compared *)
FoundAny(name) == 1 .. cure-1

(* find_operation_name: two NULL names are equal pointers, so a nameless
   operation finds any slot without a name, in use or not *)
Found(name) == {k \in 1 .. operationc : operationv[k].name = name}

(* mistake: the first operation of a name is not made an overload of it *)
NewEntryBare ==
  /\ pc = "gather" /\ at < Len(ops)
  /\ Found(ops[at+1].name) = {}
  /\ operationv' = [operationv EXCEPT ![cure].name = ops[at+1].name,
                                      ![cure].node = at+1]
  /\ cure' = cure + 1
  /\ at' = at + 1
  /\ UNCHANGED <<ops, operationc, pc>>

Init == /\ ops \in Seq(Operation)
        /\ at = 0
        /\ operationv = [k \in 1 .. Len(ops) |->
                           [name |-> Null, node |-> 0, overloads |-> <<>>]]
        /\ operationc = Len(ops)
        /\ cure = 1
        /\ pc = "gather"

AddOverload(k, op) == [operationv[k] EXCEPT !.overloads = Append(@, Overload(op))]

(* no slot has the name: the next slot becomes its entry *)
NewEntry == /\ pc = "gather" /\ at < Len(ops)
            /\ Found(ops[at+1].name) = {}
            /\ operationv' = [operationv EXCEPT ![cure] =
                                [AddOverload(cure, at+1) EXCEPT
                                   !.name = ops[at+1].name, !.node = at+1]]
            /\ cure' = cure + 1
            /\ at' = at + 1
            /\ UNCHANGED <<ops, operationc, pc>>

(* mistake: the count is not lowered *)
AugmentUncounted ==
  /\ pc = "gather" /\ at < Len(ops)
  /\ \E k \in Found(ops[at+1].name) :
       /\ \A m \in Found(ops[at+1].name) : k <= m
       /\ operationv' = [operationv EXCEPT ![k] = AddOverload(k, at+1)]
  /\ at' = at + 1
  /\ UNCHANGED <<ops, operationc, cure, pc>>

(* the first slot with the name gets one more overload *)
Augment == /\ pc = "gather" /\ at < Len(ops)
           /\ \E k \in Found(ops[at+1].name) :
                /\ \A m \in Found(ops[at+1].name) : k <= m
                /\ operationv' = [operationv EXCEPT ![k] = AddOverload(k, at+1)]
           /\ operationc' = operationc - 1
           /\ at' = at + 1
           /\ UNCHANGED <<ops, cure, pc>>

Finish == /\ pc = "gather" /\ at = Len(ops)
          /\ pc' = "done"
          /\ UNCHANGED <<ops, at, operationv, operationc, cure>>

Next == NewEntry \/ Augment \/ Finish

Spec == Init /\ [][Next]_vars

-----------------------------------------------------------------------------
Slot == [name : Names \cup {Null}, node : Nat, overloads : Seq(
           [op : Nat, argumentc : Nat, optionalc : Nat, elipsisc : Nat])]

(* The array keeps its allocated length and the count stays within it.     *)
TypeOK == /\ ops \in Seq(Operation)
          /\ at \in 0 .. Len(ops)
          /\ operationv \in [1 .. Len(ops) -> Slot]
          /\ operationc \in 0 .. Len(ops)
          /\ cure \in 1 .. Len(ops) + 1
          /\ pc \in {"gather", "done"}

(* The count that shrinks under the loop never falls short of the entries
   made: it is always the entries made plus the operations to come.  Hence
   no named entry drops out of the range find_operation_name searches, and
   no entry is written beyond the allocation. *)
CountBalances == operationc = (cure - 1) + (Len(ops) - at)

(* The map handed out has exactly one entry per operation name, each with
   the AST node of the first operation of the name, and no more. *)
EntriesAreNames ==
  pc = "done" =>
    /\ operationc = cure - 1
    /\ {operationv[k].name : k \in 1 .. operationc} =
         {ops[j].name : j \in 1 .. Len(ops)} \ {Null}
    /\ \A k, m \in 1 .. operationc :
         operationv[k].name = operationv[m].name => k = m
    /\ \A k \in 1 .. operationc :
         /\ ops[operationv[k].node].name = operationv[k].name
         /\ \A j \in 1 .. operationv[k].node - 1 :
              ops[j].name # operationv[k].name

(* Every named operation gathered is an overload of the entry of its name,
   once, and the overloads of an entry are in the order of the IDL, in which
   the generated code is written. *)
OverloadsKept ==
  /\ \A j \in 1 .. at : ops[j].name # Null =>
       \E k \in 1 .. cure - 1 :
         /\ operationv[k].name = ops[j].name
         /\ \E m \in DOMAIN operationv[k].overloads :
              operationv[k].overloads[m].op = j
  /\ \A k \in 1 .. Len(ops) : \A m, n \in DOMAIN operationv[k].overloads :
       m < n => operationv[k].overloads[m].op < operationv[k].overloads[n].op

(* "if this operation is already an entry in the list augment that entry
   else create a new one" (ir.c:326-328): an overload is only ever added to
   the entry of its own operation name. *)
AugmentsSameName ==
  \A k \in 1 .. cure - 1 : \A m \in DOMAIN operationv[k].overloads :
    ops[operationv[k].overloads[m].op].name = operationv[k].name

(* A nameless operation takes the first slot without a name, which is the
   next one to become an entry.  That is all that goes wrong: from its own
   operation on an entry holds operations of its name only, whatever nameless
   ones there are, and what stands in front are the nameless operations that
   came after the entry before had been made. *)
NamelessInFront ==
  \A k \in 1 .. cure - 1 : \A m \in DOMAIN operationv[k].overloads :
    LET op == operationv[k].overloads[m].op
    IN  IF op >= operationv[k].node
        THEN ops[op].name = operationv[k].name
        ELSE /\ ops[op].name = Null
             /\ \A l \in 1 .. k-1 : operationv[l].node < op
=============================================================================

--------------------------- MODULE InterfaceProofs ---------------------------
(***************************************************************************)
(* What the generator makes of one interface: its operations, gathered     *)
(* into entries with overloads; its attributes, from the entries to the    *)
(* functions and the properties of the prototype; and its class name,      *)
(* which is all that tells its file and functions from those of others.    *)
(***************************************************************************)
EXTENDS OperationMap, Attributes, ClassName,
        FiniteSetTheorems, SequenceTheorems, TLAPS

(***************************************************************************)
(* operation_map_new is right about every sequence of operations, nameless *)
(* ones among them: the count that shrinks under the loop never cuts off   *)
(* an entry, and no operation with a name is lost or misplaced.            *)
(*                                                                         *)
(* The count is the entries made plus the operations to come, so as long   *)
(* as an operation is to come, the next free slot is within the search.    *)
(* A nameless operation therefore always finds a slot without a name and   *)
(* never becomes an entry, and every entry made has a name.                *)
(***************************************************************************)
Used == 1 .. cure - 1

ProgressInv ==
  /\ CountBalances
  /\ cure - 1 <= at
  /\ pc = "done" => at = Len(ops)

(* the entries made: each for the first operation of its name *)
EntryInv ==
  /\ \A k \in cure .. Len(ops) : operationv[k].name = Null
  /\ \A k \in Used :
       /\ operationv[k].name # Null
       /\ operationv[k].node \in 1 .. at
       /\ ops[operationv[k].node].name = operationv[k].name
       /\ \A j \in 1 .. operationv[k].node - 1 : ops[j].name # operationv[k].name
  /\ \A k, m \in Used : operationv[k].name = operationv[m].name => k = m

(* every operation gathered is held by the entry of its name *)
HeldInv ==
  \A j \in 1 .. at : ops[j].name # Null =>
    \E k \in Used :
      /\ operationv[k].name = ops[j].name
      /\ \E m \in 1 .. Len(operationv[k].overloads) : operationv[k].overloads[m].op = j

(* what a slot holds are operations gathered, in order, of its name or none *)
OverloadInv ==
  \A k \in 1 .. Len(ops) :
    /\ \A m \in 1 .. Len(operationv[k].overloads) :
         /\ operationv[k].overloads[m].op \in 1 .. at
         /\ ops[operationv[k].overloads[m].op].name \in {operationv[k].name, Null}
    /\ \A m, n \in 1 .. Len(operationv[k].overloads) :
         m < n => operationv[k].overloads[m].op < operationv[k].overloads[n].op

OperationInv == TypeOK /\ ProgressInv /\ EntryInv /\ HeldInv /\ OverloadInv

(* a nameless operation that came after the entries before slot k were made *)
InFront(k, op) == ops[op].name = Null /\ \A l \in 1 .. k-1 : operationv[l].node < op

(* the next free slot holds such operations only, the slots behind it nothing,
   and an entry in front of its own operation such operations again *)
PlacedInv ==
  /\ \A k \in cure+1 .. Len(ops) : Len(operationv[k].overloads) = 0
  /\ \A k \in 1 .. Len(ops) : k = cure =>
       \A m \in 1 .. Len(operationv[k].overloads) : InFront(k, operationv[k].overloads[m].op)
  /\ \A k \in Used : \A m \in 1 .. Len(operationv[k].overloads) :
       IF operationv[k].overloads[m].op >= operationv[k].node
       THEN ops[operationv[k].overloads[m].op].name = operationv[k].name
       ELSE InFront(k, operationv[k].overloads[m].op)

-----------------------------------------------------------------------------
OverloadRec == [op : Nat, argumentc : Nat, optionalc : Nat, elipsisc : Nat]

(* The counts made of an operation's arguments are numbers. *)
LEMMA OverloadType ==
  ASSUME ops \in Seq(Operation), NEW j \in 1 .. Len(ops)
  PROVE  Overload(j) \in OverloadRec /\ Overload(j).op = j
<1>1. ops[j] \in Operation
  BY ElementOfSeq
<1>2. ops[j].args \in Seq({"plain", "optional", "ellipsis"})
  BY <1>1, ArgsAssumption DEF Operation
<1>3. Len(ops[j].args) \in Nat
  BY <1>2
<1>4. ASSUME NEW kind PROVE Cardinality(Kinds(ops[j].args, kind)) \in Nat
  <2>1. IsFiniteSet(1 .. Len(ops[j].args))
    <3>1. 1 \in Int /\ Len(ops[j].args) \in Int
      BY <1>3
    <3>2. QED
      BY <3>1, FS_Interval
  <2>2. IsFiniteSet(Kinds(ops[j].args, kind))
    BY <2>1, FS_Subset DEF Kinds
  <2>3. QED
    BY <2>2, FS_CardinalityType
<1>5. QED
  BY <1>3, <1>4 DEF Overload, OverloadRec

(* Adding an overload to a slot appends it and leaves the rest alone. *)
LEMMA AddOverloadFacts ==
  ASSUME TypeOK, NEW k \in 1 .. Len(ops), NEW j \in 1 .. Len(ops)
  PROVE  /\ AddOverload(k, j) \in Slot
         /\ AddOverload(k, j).name = operationv[k].name
         /\ AddOverload(k, j).node = operationv[k].node
         /\ AddOverload(k, j).overloads = Append(operationv[k].overloads, Overload(j))
         /\ Len(AddOverload(k, j).overloads) = Len(operationv[k].overloads) + 1
         /\ \A m \in 1 .. Len(operationv[k].overloads) :
              AddOverload(k, j).overloads[m] = operationv[k].overloads[m]
         /\ AddOverload(k, j).overloads[Len(operationv[k].overloads) + 1].op = j
<1>1. Overload(j) \in OverloadRec /\ Overload(j).op = j
  BY OverloadType DEF TypeOK
<1>2. operationv[k] \in Slot
  BY DEF TypeOK
<1>3. operationv[k].overloads \in Seq(OverloadRec)
  BY <1>2 DEF Slot, OverloadRec
<1>4. /\ Append(operationv[k].overloads, Overload(j)) \in Seq(OverloadRec)
      /\ Len(Append(operationv[k].overloads, Overload(j))) = Len(operationv[k].overloads) + 1
      /\ \A m \in 1 .. Len(operationv[k].overloads) :
           Append(operationv[k].overloads, Overload(j))[m] = operationv[k].overloads[m]
      /\ Append(operationv[k].overloads, Overload(j))[Len(operationv[k].overloads) + 1] = Overload(j)
  BY <1>1, <1>3
<1>5. AddOverload(k, j) = [operationv[k] EXCEPT !.overloads =
                             Append(operationv[k].overloads, Overload(j))]
  BY DEF AddOverload
<1>6. QED
  BY <1>1, <1>2, <1>4, <1>5 DEF Slot, OverloadRec

(* As long as an operation is to come, the next free slot is searched. *)
LEMMA FreeSlot ==
  ASSUME OperationInv, at < Len(ops)
  PROVE  /\ cure \in 1 .. operationc
         /\ cure \in 1 .. Len(ops)
         /\ operationv[cure].name = Null
         /\ Used \subseteq 1 .. operationc
         /\ Used \subseteq 1 .. Len(ops)
<1>1. /\ at \in Nat /\ Len(ops) \in Nat /\ cure \in 1 .. Len(ops) + 1
      /\ operationc \in 0 .. Len(ops)
      /\ operationc = (cure - 1) + (Len(ops) - at)
  BY DEF OperationInv, TypeOK, ProgressInv, CountBalances
<1>2. cure \in 1 .. operationc /\ cure \in 1 .. Len(ops)
  BY <1>1
<1>3. cure \in cure .. Len(ops)
  BY <1>1, <1>2
<1>4. QED
  BY <1>1, <1>2, <1>3 DEF OperationInv, EntryInv, Used

-----------------------------------------------------------------------------
LEMMA OperationsInitInv == Init => OperationInv
<1> SUFFICES ASSUME Init PROVE OperationInv
  OBVIOUS
<1>1. ops \in Seq(Operation) /\ Len(ops) \in Nat
  BY DEF Init
<1>2. \A k \in 1 .. Len(ops) :
        operationv[k] = [name |-> Null, node |-> 0, overloads |-> <<>>]
  BY DEF Init
<1>3. TypeOK
  <2>1. [name |-> Null, node |-> 0, overloads |-> <<>>] \in Slot
    BY DEF Slot
  <2>2. QED
    BY <1>1, <2>1 DEF Init, TypeOK
<1>4. ProgressInv
  BY <1>1 DEF Init, ProgressInv, CountBalances
<1>5. EntryInv
  BY <1>1, <1>2 DEF Init, EntryInv, Used
<1>6. HeldInv
  BY DEF Init, HeldInv
<1>7. OverloadInv
  BY <1>2 DEF OverloadInv
<1>8. QED
  BY <1>3, <1>4, <1>5, <1>6, <1>7 DEF OperationInv

(* A name met for the first time gets the next free slot, which is empty but
   for nameless operations. *)
LEMMA NewEntryKeepsInv == OperationInv /\ NewEntry => OperationInv'
<1> SUFFICES ASSUME OperationInv, NewEntry PROVE OperationInv'
  OBVIOUS
<1> DEFINE j == at + 1
           slot == [AddOverload(cure, j) EXCEPT !.name = ops[j].name, !.node = j]
<1>1. /\ pc = "gather" /\ at < Len(ops)
      /\ Found(ops[j].name) = {}
      /\ operationv' = [operationv EXCEPT ![cure] = slot]
      /\ cure' = cure + 1 /\ at' = j
      /\ UNCHANGED <<ops, operationc, pc>>
  BY DEF NewEntry
<1>2. /\ ops \in Seq(Operation) /\ at \in Nat /\ Len(ops) \in Nat
      /\ j \in 1 .. Len(ops) /\ cure \in Nat /\ operationc \in Nat
      /\ operationv \in [1 .. Len(ops) -> Slot]
  BY <1>1 DEF OperationInv, TypeOK
<1>3. /\ cure \in 1 .. operationc /\ cure \in 1 .. Len(ops)
      /\ operationv[cure].name = Null
      /\ Used \subseteq 1 .. operationc /\ Used \subseteq 1 .. Len(ops)
  BY <1>1, FreeSlot
<1>4. /\ ops[j].name # Null
      /\ \A k \in 1 .. operationc : operationv[k].name # ops[j].name
  BY <1>1, <1>3 DEF Found
<1>5. ops[j].name \in Names \cup {Null}
  <2>1. ops[j] \in Operation
    BY <1>2, ElementOfSeq
  <2>2. QED
    BY <2>1 DEF Operation
<1>6. /\ slot \in Slot /\ slot.name = ops[j].name /\ slot.node = j
      /\ slot.overloads = AddOverload(cure, j).overloads
  <2>1. AddOverload(cure, j) \in Slot
    BY <1>2, <1>3, AddOverloadFacts DEF OperationInv
  <2>2. j \in Nat
    BY <1>2
  <2> HIDE DEF j
  <2>3. QED
    BY <1>5, <2>1, <2>2 DEF Slot
<1> DEFINE old == operationv[cure].overloads
<1>7. /\ Len(slot.overloads) = Len(old) + 1 /\ Len(old) \in Nat
      /\ \A m \in 1 .. Len(old) : slot.overloads[m] = old[m]
      /\ slot.overloads[Len(old) + 1].op = j
  <2>1. old \in Seq(OverloadRec)
    BY <1>2, <1>3 DEF Slot, OverloadRec
  <2>2. QED
    BY <1>2, <1>3, <1>6, <2>1, AddOverloadFacts DEF OperationInv
<1> HIDE DEF slot, j, old
<1>8. /\ operationv'[cure] = slot
      /\ \A k \in 1 .. Len(ops) : k # cure => operationv'[k] = operationv[k]
  BY <1>1, <1>2, <1>3
<1>9. at' = at + 1 /\ j = at + 1
  BY <1>1 DEF j
<1>10. Used' = Used \cup {cure} /\ cure \notin Used
  <2>1. 1 .. cure' - 1 = (1 .. cure - 1) \cup {cure}
    BY <1>1, <1>2, <1>3
  <2>2. QED
    BY <1>2, <2>1 DEF Used
<1>11. TypeOK'
  BY <1>1, <1>2, <1>3, <1>6, <1>9 DEF OperationInv, TypeOK
<1>12. ProgressInv'
  BY <1>1, <1>2, <1>9 DEF OperationInv, ProgressInv, CountBalances
<1>13. EntryInv'
  <2>1. ASSUME NEW k \in cure' .. Len(ops)' PROVE operationv'[k].name = Null
    BY <1>1, <1>2, <1>3, <1>8 DEF OperationInv, EntryInv
  <2>2. ASSUME NEW k \in Used'
        PROVE  /\ operationv'[k].name # Null
               /\ operationv'[k].node \in 1 .. at'
               /\ ops'[operationv'[k].node].name = operationv'[k].name
               /\ \A m \in 1 .. operationv'[k].node - 1 : ops'[m].name # operationv'[k].name
    <3>1. CASE k = cure
      <4>1. ASSUME NEW m \in 1 .. j - 1 PROVE ops[m].name # ops[j].name
        <5>1. m \in 1 .. at /\ HeldInv
          BY <1>2, <1>9 DEF OperationInv
        <5>2. \A l \in Used : operationv[l].name # ops[j].name
          BY <1>2, <1>3, <1>4 DEF Used
        <5>3. QED
          BY ONLY <1>4, <5>1, <5>2 DEF HeldInv
      <4>2. QED
        BY <1>1, <1>2, <1>4, <1>6, <1>8, <1>9, <3>1, <4>1
    <3>2. CASE k # cure
      <4>1. k \in Used /\ k \in 1 .. Len(ops)
        BY <1>3, <1>10, <3>2
      <4>2. operationv[k].node \in 1 .. at + 1
        BY <1>2, <4>1 DEF OperationInv, EntryInv
      <4>3. QED
        BY <1>1, <1>8, <1>9, <3>2, <4>1, <4>2 DEF OperationInv, EntryInv
    <3>3. QED
      BY <3>1, <3>2
  <2>3. ASSUME NEW k \in Used', NEW m \in Used', operationv'[k].name = operationv'[m].name
        PROVE  k = m
    <3>1. ASSUME NEW l \in Used PROVE operationv'[l].name = operationv[l].name
                                     /\ operationv'[l].name # ops[j].name
      BY <1>3, <1>4, <1>8, <1>10
    <3>2. operationv'[cure].name = ops[j].name
      BY <1>6, <1>8
    <3>3. QED
      BY <1>10, <2>3, <3>1, <3>2 DEF OperationInv, EntryInv
  <2>4. QED
    BY <2>1, <2>2, <2>3 DEF EntryInv
<1>14. HeldInv'
  <2> SUFFICES ASSUME NEW i \in 1 .. at', ops[i].name # Null
               PROVE  \E k \in Used' :
                        /\ operationv'[k].name = ops[i].name
                        /\ \E m \in 1 .. Len(operationv'[k].overloads) :
                             operationv'[k].overloads[m].op = i
    BY <1>1 DEF HeldInv
  <2>1. CASE i = j
    <3>1. Len(old) + 1 \in 1 .. Len(slot.overloads)
      BY <1>7
    <3>2. QED
      BY <1>6, <1>7, <1>8, <1>10, <2>1, <3>1
  <2>2. CASE i # j
    <3>1. i \in 1 .. at
      BY <1>2, <1>9, <2>2
    <3>2. PICK k \in Used :
            /\ operationv[k].name = ops[i].name
            /\ \E m \in 1 .. Len(operationv[k].overloads) : operationv[k].overloads[m].op = i
      BY <3>1 DEF OperationInv, HeldInv
    <3>3. operationv'[k] = operationv[k]
      BY <1>3, <1>8, <1>10
    <3>4. QED
      BY <1>10, <3>2, <3>3
  <2>3. QED
    BY <2>1, <2>2
<1>15. OverloadInv'
  <2> SUFFICES ASSUME NEW k \in 1 .. Len(ops)
               PROVE  /\ \A m \in 1 .. Len(operationv'[k].overloads) :
                           /\ operationv'[k].overloads[m].op \in 1 .. at'
                           /\ ops[operationv'[k].overloads[m].op].name
                                \in {operationv'[k].name, Null}
                      /\ \A m, n \in 1 .. Len(operationv'[k].overloads) : m < n =>
                           operationv'[k].overloads[m].op < operationv'[k].overloads[n].op
    BY <1>1 DEF OverloadInv
  <2>1. CASE k # cure
    <3>1. operationv'[k] = operationv[k]
      BY <1>8, <2>1
    <3>2. ASSUME NEW m \in 1 .. Len(operationv[k].overloads)
          PROVE  operationv[k].overloads[m].op \in 1 .. at'
      <4>1. operationv[k].overloads[m].op \in 1 .. at
        BY DEF OperationInv, OverloadInv
      <4>2. QED
        BY <1>2, <1>9, <4>1
    <3>3. QED
      BY <3>1, <3>2 DEF OperationInv, OverloadInv
  <2>2. CASE k = cure
    <3>1. ASSUME NEW m \in 1 .. Len(old)
          PROVE  old[m].op \in 1 .. at /\ ops[old[m].op].name = Null
      BY <1>3 DEF OperationInv, OverloadInv, old
    <3>2. ASSUME NEW m \in 1 .. Len(slot.overloads)
          PROVE  \/ m \in 1 .. Len(old) /\ slot.overloads[m] = old[m]
                 \/ m = Len(old) + 1 /\ slot.overloads[m].op = j
      BY <1>7
    <3>3. ASSUME NEW m \in 1 .. Len(old), NEW n \in 1 .. Len(old), m < n
          PROVE  old[m].op < old[n].op
      BY <1>3, <3>3 DEF OperationInv, OverloadInv, old
    <3>4. ASSUME NEW m \in 1 .. Len(slot.overloads)
          PROVE  /\ slot.overloads[m].op \in 1 .. at'
                 /\ ops[slot.overloads[m].op].name \in {slot.name, Null}
      <4>1. CASE m \in 1 .. Len(old) /\ slot.overloads[m] = old[m]
        <5>1. old[m].op \in 1 .. at /\ ops[old[m].op].name = Null
          BY <3>1, <4>1
        <5>2. QED
          BY <1>2, <1>9, <4>1, <5>1
      <4>2. CASE m = Len(old) + 1 /\ slot.overloads[m].op = j
        BY <1>2, <1>6, <1>9, <4>2
      <4>3. QED
        BY <3>2, <4>1, <4>2
    <3>5. ASSUME NEW m \in 1 .. Len(slot.overloads), NEW n \in 1 .. Len(slot.overloads), m < n
          PROVE  slot.overloads[m].op < slot.overloads[n].op
      <4>1. m \in 1 .. Len(old) /\ slot.overloads[m] = old[m]
        BY <1>7, <3>5
      <4>2. old[m].op \in 1 .. at
        BY <3>1, <4>1
      <4>3. CASE n \in 1 .. Len(old) /\ slot.overloads[n] = old[n]
        BY <3>3, <3>5, <4>1, <4>3
      <4>4. CASE n = Len(old) + 1 /\ slot.overloads[n].op = j
        BY <1>2, <1>9, <4>1, <4>2, <4>4
      <4>5. QED
        BY <3>2, <4>3, <4>4
    <3>6. QED
      BY <1>8, <2>2, <3>4, <3>5
  <2>3. QED
    BY <2>1, <2>2
<1>16. QED
  BY <1>11, <1>12, <1>13, <1>14, <1>15 DEF OperationInv

(* Another operation of a name goes to the first slot of that name: the
   entry of the name, or a slot not yet in use for a nameless operation. *)
LEMMA AugmentKeepsInv == OperationInv /\ Augment => OperationInv'
<1> SUFFICES ASSUME OperationInv, Augment PROVE OperationInv'
  OBVIOUS
<1> DEFINE j == at + 1
<1>1. /\ pc = "gather" /\ at < Len(ops)
      /\ operationc' = operationc - 1 /\ at' = j
      /\ UNCHANGED <<ops, cure, pc>>
  BY DEF Augment
<1>2. PICK k \in 1 .. operationc :
        /\ operationv[k].name = ops[j].name
        /\ operationv' = [operationv EXCEPT ![k] = AddOverload(k, j)]
  BY DEF Augment, Found
<1>3. /\ ops \in Seq(Operation) /\ at \in Nat /\ Len(ops) \in Nat
      /\ j \in 1 .. Len(ops) /\ cure \in 1 .. Len(ops) + 1
      /\ operationc \in 0 .. Len(ops)
      /\ operationv \in [1 .. Len(ops) -> Slot]
  BY <1>1 DEF OperationInv, TypeOK
<1>4. k \in 1 .. Len(ops) /\ operationc - 1 \in 0 .. Len(ops)
  BY <1>2, <1>3
<1> DEFINE slot == AddOverload(k, j)
           old == operationv[k].overloads
<1>5. /\ slot \in Slot /\ slot.name = operationv[k].name /\ slot.node = operationv[k].node
      /\ Len(slot.overloads) = Len(old) + 1
      /\ \A m \in 1 .. Len(old) : slot.overloads[m] = old[m]
      /\ slot.overloads[Len(old) + 1].op = j
  BY <1>3, <1>4, AddOverloadFacts DEF OperationInv
<1>6. Len(old) \in Nat
  <2>1. old \in Seq(OverloadRec)
    BY <1>3, <1>4 DEF Slot, OverloadRec
  <2>2. QED
    BY <2>1
<1> HIDE DEF slot, j, old
<1>7. /\ operationv'[k] = slot
      /\ \A l \in 1 .. Len(ops) : l # k => operationv'[l] = operationv[l]
  BY <1>2, <1>3, <1>4 DEF slot
<1>8. at' = at + 1 /\ j = at + 1
  BY <1>1 DEF j
<1>9. \A l \in 1 .. Len(ops) : /\ operationv'[l].name = operationv[l].name
                               /\ operationv'[l].node = operationv[l].node
  BY <1>5, <1>7
<1>10. Used' = Used /\ Used \subseteq 1 .. Len(ops)
  BY <1>1, <1>3 DEF Used
<1>11. TypeOK'
  <2>1. operationv' \in [1 .. Len(ops) -> Slot]
    BY <1>2, <1>3, <1>4, <1>5 DEF slot
  <2>2. at' \in 0 .. Len(ops)
    BY <1>1, <1>3, <1>8
  <2>3. QED
    BY <1>1, <1>4, <2>1, <2>2 DEF OperationInv, TypeOK
<1>12. ProgressInv'
  BY <1>1, <1>3, <1>8 DEF OperationInv, ProgressInv, CountBalances
<1>13. EntryInv'
  <2>1. ASSUME NEW l \in cure' .. Len(ops)' PROVE operationv'[l].name = Null
    <3>1. l \in 1 .. Len(ops) /\ l \in cure .. Len(ops)
      BY <1>1, <1>3
    <3>2. QED
      BY <1>9, <3>1 DEF OperationInv, EntryInv
  <2>2. ASSUME NEW l \in Used'
        PROVE  /\ operationv'[l].name # Null
               /\ operationv'[l].node \in 1 .. at'
               /\ ops'[operationv'[l].node].name = operationv'[l].name
               /\ \A m \in 1 .. operationv'[l].node - 1 : ops'[m].name # operationv'[l].name
    <3>1. l \in Used /\ l \in 1 .. Len(ops)
      BY <1>10
    <3>2. operationv[l].node \in 1 .. at
      BY <3>1 DEF OperationInv, EntryInv
    <3>3. operationv[l].node \in 1 .. at'
      BY <1>3, <1>8, <3>2
    <3>4. QED
      BY <1>1, <1>9, <3>1, <3>3 DEF OperationInv, EntryInv
  <2>3. ASSUME NEW l \in Used', NEW m \in Used', operationv'[l].name = operationv'[m].name
        PROVE  l = m
    BY <1>9, <1>10, <2>3 DEF OperationInv, EntryInv
  <2>4. QED
    BY <2>1, <2>2, <2>3 DEF EntryInv
<1>14. HeldInv'
  <2> SUFFICES ASSUME NEW i \in 1 .. at', ops[i].name # Null
               PROVE  \E l \in Used' :
                        /\ operationv'[l].name = ops[i].name
                        /\ \E m \in 1 .. Len(operationv'[l].overloads) :
                             operationv'[l].overloads[m].op = i
    BY <1>1 DEF HeldInv
  <2>1. CASE i = j
    <3>1. operationv[k].name # Null
      BY <1>2, <2>1 DEF j
    <3>2. k \in Used
      <4>1. k \notin cure .. Len(ops)
        BY <3>1 DEF OperationInv, EntryInv
      <4>2. QED
        BY <1>3, <1>4, <4>1 DEF Used
    <3>3. Len(old) + 1 \in 1 .. Len(slot.overloads)
      BY <1>5, <1>6
    <3>4. operationv'[k].name = ops[i].name
      BY <1>2, <1>4, <1>9, <2>1 DEF j
    <3>5. QED
      BY <1>5, <1>7, <1>10, <2>1, <3>2, <3>3, <3>4
  <2>2. CASE i # j
    <3>1. i \in 1 .. at
      BY <1>3, <1>8, <2>2
    <3>2. PICK l \in Used :
            /\ operationv[l].name = ops[i].name
            /\ \E m \in 1 .. Len(operationv[l].overloads) : operationv[l].overloads[m].op = i
      BY <3>1 DEF OperationInv, HeldInv
    <3>3. PICK m \in 1 .. Len(operationv[l].overloads) : operationv[l].overloads[m].op = i
      BY <3>2
    <3>4. /\ m \in 1 .. Len(operationv'[l].overloads)
          /\ operationv'[l].overloads[m].op = i
      <4>1. CASE l = k
        <5>1. m \in 1 .. Len(old) /\ old[m].op = i
          BY <3>3, <4>1 DEF old
        <5>2. m \in 1 .. Len(slot.overloads)
          BY <1>5, <1>6, <5>1
        <5>3. QED
          BY <1>5, <1>7, <4>1, <5>1, <5>2
      <4>2. CASE l # k
        BY <1>7, <1>10, <3>3, <4>2
      <4>3. QED
        BY <4>1, <4>2
    <3>5. QED
      BY <1>9, <1>10, <3>2, <3>4
  <2>3. QED
    BY <2>1, <2>2
<1>15. OverloadInv'
  <2> SUFFICES ASSUME NEW l \in 1 .. Len(ops)
               PROVE  /\ \A m \in 1 .. Len(operationv'[l].overloads) :
                           /\ operationv'[l].overloads[m].op \in 1 .. at'
                           /\ ops[operationv'[l].overloads[m].op].name
                                \in {operationv'[l].name, Null}
                      /\ \A m, n \in 1 .. Len(operationv'[l].overloads) : m < n =>
                           operationv'[l].overloads[m].op < operationv'[l].overloads[n].op
    BY <1>1 DEF OverloadInv
  <2>1. CASE l # k
    <3>1. operationv'[l] = operationv[l]
      BY <1>7, <2>1
    <3>2. ASSUME NEW m \in 1 .. Len(operationv[l].overloads)
          PROVE  operationv[l].overloads[m].op \in 1 .. at'
      <4>1. operationv[l].overloads[m].op \in 1 .. at
        BY DEF OperationInv, OverloadInv
      <4>2. QED
        BY <1>3, <1>8, <4>1
    <3>3. QED
      BY <3>1, <3>2 DEF OperationInv, OverloadInv
  <2>2. CASE l = k
    <3>1. ASSUME NEW m \in 1 .. Len(old)
          PROVE  /\ old[m].op \in 1 .. at
                 /\ ops[old[m].op].name \in {operationv[k].name, Null}
      BY <1>4 DEF OperationInv, OverloadInv, old
    <3>2. ASSUME NEW m \in 1 .. Len(slot.overloads)
          PROVE  \/ m \in 1 .. Len(old) /\ slot.overloads[m] = old[m]
                 \/ m = Len(old) + 1 /\ slot.overloads[m].op = j
      BY <1>5, <1>6
    <3>3. ASSUME NEW m \in 1 .. Len(old), NEW n \in 1 .. Len(old), m < n
          PROVE  old[m].op < old[n].op
      BY <1>4, <3>3 DEF OperationInv, OverloadInv, old
    <3>4. ASSUME NEW m \in 1 .. Len(slot.overloads)
          PROVE  /\ slot.overloads[m].op \in 1 .. at'
                 /\ ops[slot.overloads[m].op].name \in {slot.name, Null}
      <4>1. CASE m \in 1 .. Len(old) /\ slot.overloads[m] = old[m]
        <5>1. old[m].op \in 1 .. at /\ ops[old[m].op].name \in {operationv[k].name, Null}
          BY <3>1, <4>1
        <5>2. QED
          BY <1>3, <1>5, <1>8, <4>1, <5>1
      <4>2. CASE m = Len(old) + 1 /\ slot.overloads[m].op = j
        <5>1. ops[j].name = slot.name
          BY <1>2, <1>5 DEF j
        <5>2. QED
          BY <1>3, <1>8, <4>2, <5>1
      <4>3. QED
        BY <3>2, <4>1, <4>2
    <3>5. ASSUME NEW m \in 1 .. Len(slot.overloads), NEW n \in 1 .. Len(slot.overloads), m < n
          PROVE  slot.overloads[m].op < slot.overloads[n].op
      <4>1. m \in 1 .. Len(old) /\ slot.overloads[m] = old[m]
        BY <1>5, <1>6, <3>5
      <4>2. old[m].op \in 1 .. at
        BY <3>1, <4>1
      <4>3. CASE n \in 1 .. Len(old) /\ slot.overloads[n] = old[n]
        BY <3>3, <3>5, <4>1, <4>3
      <4>4. CASE n = Len(old) + 1 /\ slot.overloads[n].op = j
        BY <1>3, <1>8, <4>1, <4>2, <4>4
      <4>5. QED
        BY <3>2, <4>3, <4>4
    <3>6. QED
      BY <1>7, <2>2, <3>4, <3>5
  <2>3. QED
    BY <2>1, <2>2
<1>16. QED
  BY <1>11, <1>12, <1>13, <1>14, <1>15 DEF OperationInv

(* A step that changes the phase alone, or nothing: the end of the loop. *)
LEMMA SameMapKeepsInv ==
  ASSUME OperationInv, UNCHANGED <<ops, at, operationv, operationc, cure>>,
         pc' \in {"gather", "done"}, pc' = "done" => at = Len(ops)
  PROVE  OperationInv'
<1>1. TypeOK /\ ProgressInv /\ EntryInv /\ HeldInv /\ OverloadInv
  BY DEF OperationInv
<1>2. TypeOK'
  BY <1>1 DEF TypeOK
<1>3. ProgressInv'
  BY <1>1 DEF ProgressInv, CountBalances
<1>4. Used' = Used
  BY DEF Used
<1>5. EntryInv'
  BY <1>1, <1>4 DEF EntryInv
<1>6. HeldInv'
  BY <1>1, <1>4 DEF HeldInv
<1>7. OverloadInv'
  BY <1>1 DEF OverloadInv
<1>8. QED
  BY <1>2, <1>3, <1>5, <1>6, <1>7 DEF OperationInv

-----------------------------------------------------------------------------
(* The inductive invariant: the count balances, so that entries and the next
   free slot are searched, and entries hold what was gathered. *)
THEOREM OperationsInvariant == Spec => []OperationInv
<1>1. OperationInv /\ [Next]_vars => OperationInv'
  <2> SUFFICES ASSUME OperationInv, [Next]_vars PROVE OperationInv'
    OBVIOUS
  <2>1. CASE UNCHANGED vars
    BY <2>1, SameMapKeepsInv DEF vars, OperationInv, TypeOK, ProgressInv
  <2>2. CASE Next
    <3>1. CASE Finish
      BY <3>1, SameMapKeepsInv DEF Finish
    <3>2. QED
      BY <2>2, <3>1, NewEntryKeepsInv, AugmentKeepsInv DEF Next
  <2>3. QED
    BY <2>1, <2>2
<1>2. QED
  BY OperationsInitInv, <1>1, PTL DEF Spec

(* The array keeps its length, and the count and the next slot stay in it. *)
THEOREM OperationTypes == Spec => []TypeOK
BY OperationsInvariant, PTL DEF OperationInv

(* The shrinking count is always the entries made plus the operations to
   come, which is what keeps the search within the entries. *)
THEOREM CountIsBalanced == Spec => []CountBalances
BY OperationsInvariant, PTL DEF OperationInv, ProgressInv

(* One entry per name, no more, each with the first operation of the name. *)
THEOREM OneEntryPerName == Spec => []EntriesAreNames
<1>1. OperationInv => EntriesAreNames
  <2> SUFFICES ASSUME OperationInv, pc = "done"
               PROVE  /\ operationc = cure - 1
                      /\ {operationv[k].name : k \in 1 .. operationc} =
                           {ops[j].name : j \in 1 .. Len(ops)} \ {Null}
                      /\ \A k, m \in 1 .. operationc :
                           operationv[k].name = operationv[m].name => k = m
                      /\ \A k \in 1 .. operationc :
                           /\ ops[operationv[k].node].name = operationv[k].name
                           /\ \A j \in 1 .. operationv[k].node - 1 :
                                ops[j].name # operationv[k].name
    BY DEF EntriesAreNames
  <2>1. at = Len(ops) /\ operationc = cure - 1 /\ 1 .. operationc = Used
    BY DEF OperationInv, TypeOK, ProgressInv, CountBalances, Used
  <2>2. ASSUME NEW k \in Used
        PROVE  operationv[k].name \in {ops[j].name : j \in 1 .. Len(ops)} \ {Null}
    BY <2>1 DEF OperationInv, EntryInv
  <2>3. ASSUME NEW j \in 1 .. Len(ops), ops[j].name # Null
        PROVE  \E k \in Used : operationv[k].name = ops[j].name
    BY <2>1, <2>3 DEF OperationInv, HeldInv
  <2>4. {operationv[k].name : k \in Used} = {ops[j].name : j \in 1 .. Len(ops)} \ {Null}
    BY <2>2, <2>3
  <2>5. QED
    BY <2>1, <2>4 DEF OperationInv, EntryInv
<1>2. QED
  BY <1>1, OperationsInvariant, PTL

(* No operation that has a name is lost, and the overloads of an entry keep
   the order of the IDL. *)
THEOREM NoOverloadLost == Spec => []OverloadsKept
<1>1. OperationInv => OverloadsKept
  <2> SUFFICES ASSUME OperationInv PROVE OverloadsKept
    OBVIOUS
  <2>1. \A k \in 1 .. Len(ops) :
          DOMAIN operationv[k].overloads = 1 .. Len(operationv[k].overloads)
    BY DEF OperationInv, TypeOK, Slot
  <2>2. \A k \in Used : k \in 1 .. Len(ops)
    BY DEF OperationInv, TypeOK, Used
  <2>3. ASSUME NEW j \in 1 .. at, ops[j].name # Null
        PROVE  \E k \in 1 .. cure - 1 :
                 /\ operationv[k].name = ops[j].name
                 /\ \E m \in DOMAIN operationv[k].overloads :
                      operationv[k].overloads[m].op = j
    <3>1. PICK k \in Used :
            /\ operationv[k].name = ops[j].name
            /\ \E m \in 1 .. Len(operationv[k].overloads) : operationv[k].overloads[m].op = j
      BY <2>3 DEF OperationInv, HeldInv
    <3>2. QED
      BY <2>1, <2>2, <3>1 DEF Used
  <2>4. ASSUME NEW k \in 1 .. Len(ops), NEW m \in DOMAIN operationv[k].overloads,
               NEW n \in DOMAIN operationv[k].overloads, m < n
        PROVE  operationv[k].overloads[m].op < operationv[k].overloads[n].op
    BY <2>1, <2>4 DEF OperationInv, OverloadInv
  <2>5. QED
    BY <2>3, <2>4 DEF OverloadsKept
<1>2. QED
  BY <1>1, OperationsInvariant, PTL

(* What the step of a named operation met for the first time does. *)
LEMMA NewEntryFacts ==
  ASSUME OperationInv, NewEntry
  PROVE  \E j \in 1 .. Len(ops), c \in 1 .. Len(ops) :
           /\ j = at + 1 /\ c = cure /\ cure' = c + 1 /\ ops' = ops
           /\ \A k \in 1 .. Len(ops) : k # c => operationv'[k] = operationv[k]
           /\ operationv'[c].node = j /\ operationv'[c].name = ops[j].name
           /\ Len(operationv'[c].overloads) = Len(operationv[c].overloads) + 1
           /\ \A m \in 1 .. Len(operationv[c].overloads) :
                operationv'[c].overloads[m] = operationv[c].overloads[m]
           /\ operationv'[c].overloads[Len(operationv[c].overloads) + 1].op = j
<1>1. at < Len(ops) /\ ops' = ops /\ cure' = cure + 1
  BY DEF NewEntry
<1>2. PICK c \in 1 .. Len(ops) : c = cure
  BY <1>1, FreeSlot
<1>3. PICK j \in 1 .. Len(ops) : j = at + 1
  BY <1>1 DEF OperationInv, TypeOK
<1>4. PICK s : s = AddOverload(c, j)
  OBVIOUS
<1>5. PICK o : o = s.overloads
  OBVIOUS
<1>6. /\ s \in Slot
      /\ Len(o) = Len(operationv[c].overloads) + 1
      /\ \A m \in 1 .. Len(operationv[c].overloads) : o[m] = operationv[c].overloads[m]
      /\ o[Len(operationv[c].overloads) + 1].op = j
  BY <1>4, <1>5, AddOverloadFacts DEF OperationInv
<1>7. operationv' = [operationv EXCEPT ![c] = [s EXCEPT !.name = ops[j].name, !.node = j]]
  BY <1>2, <1>3, <1>4 DEF NewEntry
<1>8. PICK t : t = [s EXCEPT !.name = ops[j].name, !.node = j]
  OBVIOUS
<1>9. t.overloads = o /\ t.node = j /\ t.name = ops[j].name
  BY <1>5, <1>6, <1>8 DEF Slot
<1>10. operationv'[c] = t /\ \A k \in 1 .. Len(ops) : k # c => operationv'[k] = operationv[k]
  BY <1>7, <1>8 DEF OperationInv, TypeOK
<1>11. QED
  BY <1>1, <1>2, <1>3, <1>6, <1>9, <1>10

(* What the step of an overload does: a named operation goes to the entry of
   its name, a nameless one to the next free slot. *)
LEMMA AugmentFacts ==
  ASSUME OperationInv, Augment
  PROVE  \E j \in 1 .. Len(ops), c \in 1 .. Len(ops) :
           /\ j = at + 1 /\ cure' = cure /\ ops' = ops
           /\ operationv[c].name = ops[j].name
           /\ c \in Used \/ c = cure
           /\ \A k \in 1 .. Len(ops) : k # c => operationv'[k] = operationv[k]
           /\ operationv'[c].node = operationv[c].node /\ operationv'[c].name = ops[j].name
           /\ Len(operationv'[c].overloads) = Len(operationv[c].overloads) + 1
           /\ \A m \in 1 .. Len(operationv[c].overloads) :
                operationv'[c].overloads[m] = operationv[c].overloads[m]
           /\ operationv'[c].overloads[Len(operationv[c].overloads) + 1].op = j
<1>1. at < Len(ops) /\ ops' = ops /\ cure' = cure
  BY DEF Augment
<1>2. PICK c \in Found(ops[at+1].name) :
        /\ \A m \in Found(ops[at+1].name) : c <= m
        /\ operationv' = [operationv EXCEPT ![c] = AddOverload(c, at+1)]
  BY DEF Augment
<1>3. PICK j \in 1 .. Len(ops) : j = at + 1
  BY <1>1 DEF OperationInv, TypeOK
<1>4. c \in 1 .. operationc /\ operationv[c].name = ops[j].name /\ c \in 1 .. Len(ops)
  BY <1>2, <1>3 DEF Found, OperationInv, TypeOK
<1>5. c \in Used \/ c = cure
  <2>1. /\ cure \in 1 .. operationc /\ cure \in 1 .. Len(ops)
        /\ operationv[cure].name = Null
    BY <1>1, FreeSlot
  <2>2. CASE ops[j].name = Null
    <3>1. cure \in Found(ops[at+1].name)
      BY <1>3, <2>1, <2>2 DEF Found
    <3>2. c <= cure
      BY <1>2, <3>1
    <3>3. QED
      BY <1>4, <2>1, <3>2 DEF Used
  <2>3. CASE ops[j].name # Null
    <3>1. c \notin cure .. Len(ops)
      BY <1>4, <2>3 DEF OperationInv, EntryInv
    <3>2. QED
      BY <1>4, <2>1, <3>1 DEF Used
  <2>4. QED
    BY <2>2, <2>3
<1>6. PICK s : s = AddOverload(c, j)
  OBVIOUS
<1>7. /\ s \in Slot /\ s.name = operationv[c].name /\ s.node = operationv[c].node
      /\ Len(s.overloads) = Len(operationv[c].overloads) + 1
      /\ \A m \in 1 .. Len(operationv[c].overloads) :
           s.overloads[m] = operationv[c].overloads[m]
      /\ s.overloads[Len(operationv[c].overloads) + 1].op = j
  BY <1>4, <1>6, AddOverloadFacts DEF OperationInv
<1>8. operationv'[c] = s /\ \A k \in 1 .. Len(ops) : k # c => operationv'[k] = operationv[k]
  BY <1>2, <1>3, <1>4, <1>6 DEF OperationInv, TypeOK
<1>9. QED
  BY <1>1, <1>3, <1>4, <1>5, <1>7, <1>8

(* The numbers that the places of nameless operations depend on. *)
LEMMA PlaceFacts ==
  ASSUME OperationInv
  PROVE  /\ at \in Nat /\ Len(ops) \in Nat /\ cure \in Nat \ {0}
         /\ Used = 1 .. cure - 1 /\ Used \subseteq 1 .. Len(ops)
         /\ \A k \in 1 .. Len(ops) : /\ operationv[k].node \in Nat
                                      /\ Len(operationv[k].overloads) \in Nat
         /\ \A k \in Used : operationv[k].node \in 1 .. at
         /\ \A k \in 1 .. Len(ops) : \A m \in 1 .. Len(operationv[k].overloads) :
              operationv[k].overloads[m].op \in 1 .. at
<1>1. TypeOK /\ EntryInv /\ OverloadInv
  BY DEF OperationInv
<1>2. \A k \in 1 .. Len(ops) : operationv[k] \in Slot
  BY <1>1 DEF TypeOK
<1>3. \A k \in 1 .. Len(ops) : operationv[k].node \in Nat
  BY <1>2 DEF Slot
<1>4. \A k \in 1 .. Len(ops) : Len(operationv[k].overloads) \in Nat
  BY <1>2 DEF Slot
<1>5. QED
  BY <1>1, <1>3, <1>4 DEF TypeOK, EntryInv, OverloadInv, Used

LEMMA NewEntryKeepsPlaced == OperationInv /\ PlacedInv /\ NewEntry => PlacedInv'
<1> SUFFICES ASSUME OperationInv, PlacedInv, NewEntry PROVE PlacedInv'
  OBVIOUS
<1>1. PICK j \in 1 .. Len(ops), c \in 1 .. Len(ops) :
           /\ j = at + 1 /\ c = cure /\ cure' = c + 1 /\ ops' = ops
           /\ \A k \in 1 .. Len(ops) : k # c => operationv'[k] = operationv[k]
           /\ operationv'[c].node = j /\ operationv'[c].name = ops[j].name
           /\ Len(operationv'[c].overloads) = Len(operationv[c].overloads) + 1
           /\ \A m \in 1 .. Len(operationv[c].overloads) :
                operationv'[c].overloads[m] = operationv[c].overloads[m]
           /\ operationv'[c].overloads[Len(operationv[c].overloads) + 1].op = j
  BY NewEntryFacts
<1>2. PICK a \in Nat, L \in Nat, l \in Nat :
        a = at /\ L = Len(ops) /\ l = Len(operationv[c].overloads)
  BY PlaceFacts
<1>3. Used = 1 .. c - 1 /\ Used' = 1 .. c
  BY <1>1 DEF Used
<1>4. ASSUME NEW k \in 1 .. c - 1
      PROVE  k \in 1 .. L /\ k # c /\ operationv'[k] = operationv[k]
  BY <1>1, <1>2
<1>5. ASSUME NEW k \in 1 .. c, NEW op, InFront(k, op)
      PROVE  InFront(k, op)'
  <2>1. \A x \in 1 .. k-1 : operationv'[x].node = operationv[x].node
    BY <1>1, <1>2, <1>4
  <2>2. QED
    BY <1>1, <1>5, <2>1 DEF InFront
<1>6. ASSUME NEW k \in cure'+1 .. Len(ops)'
      PROVE  Len(operationv'[k].overloads) = 0
  <2>1. k \in cure+1 .. Len(ops) /\ k \in 1 .. Len(ops) /\ k # c
    BY <1>1, <1>2
  <2>2. QED
    BY <1>1, <2>1 DEF PlacedInv
<1>7. ASSUME NEW k \in 1 .. Len(ops)', k = cure',
             NEW m \in 1 .. Len(operationv'[k].overloads)
      PROVE  InFront(k, operationv[k].overloads[m].op)'
  <2>1. k \in cure+1 .. Len(ops) /\ k \in 1 .. Len(ops) /\ k # c
    BY <1>1, <1>2, <1>7
  <2>2. Len(operationv'[k].overloads) = 0
    BY <1>1, <2>1 DEF PlacedInv
  <2>3. QED
    BY <1>7, <2>2
<1>8. ASSUME NEW k \in Used', NEW m \in 1 .. Len(operationv'[k].overloads)
      PROVE  IF operationv'[k].overloads[m].op >= operationv'[k].node
             THEN ops'[operationv'[k].overloads[m].op].name = operationv'[k].name
             ELSE InFront(k, operationv[k].overloads[m].op)'
  <2>1. CASE k # c
    <3>1. k \in Used /\ operationv'[k] = operationv[k]
      BY <1>1, <1>3, <1>4, <2>1
    <3>2. QED
      BY <1>1, <1>3, <1>5, <1>8, <3>1 DEF PlacedInv
  <2>2. CASE k = c /\ m \in 1 .. l
    <3>1. PICK x \in 1 .. a : x = operationv[c].overloads[m].op
      BY <1>2, <2>2, PlaceFacts
    <3>2. InFront(c, x)
      BY <1>1, <1>2, <2>2, <3>1 DEF PlacedInv
    <3>3. operationv'[k].overloads[m].op = x /\ ~(x >= operationv'[k].node)
      <4>1. operationv'[c].overloads[m] = operationv[c].overloads[m]
        BY <1>1, <1>2, <2>2
      <4>2. operationv'[c].node = j /\ j = a + 1
        BY <1>1, <1>2
      <4>3. ~(x >= a + 1)
        OBVIOUS
      <4>4. QED
        BY <2>2, <3>1, <4>1, <4>2, <4>3
    <3>4. InFront(c, x)'
      BY <1>3, <1>5, <1>8, <2>2, <3>2
    <3>5. QED
      BY <2>2, <3>3, <3>4 DEF InFront
  <2>3. CASE k = c /\ m \notin 1 .. l
    <3>1. m = l + 1
      <4>1. Len(operationv'[c].overloads) = l + 1
        BY <1>1, <1>2
      <4>2. m \in 1 .. l + 1
        BY <1>8, <2>3, <4>1
      <4>3. QED
        BY <2>3, <4>2
    <3>2. operationv'[k].overloads[m].op = j /\ operationv'[k].node = j
      BY <1>1, <1>2, <2>3, <3>1
    <3>3. operationv'[k].name = ops'[j].name /\ j >= j
      BY <1>1, <2>3
    <3>4. QED
      BY <3>2, <3>3
  <2>4. QED
    BY <2>1, <2>2, <2>3
<1>9. QED
  BY <1>6, <1>7, <1>8 DEF PlacedInv

LEMMA AugmentKeepsPlaced == OperationInv /\ PlacedInv /\ Augment => PlacedInv'
<1> SUFFICES ASSUME OperationInv, PlacedInv, Augment PROVE PlacedInv'
  OBVIOUS
<1>1. PICK j \in 1 .. Len(ops), c \in 1 .. Len(ops) :
           /\ j = at + 1 /\ cure' = cure /\ ops' = ops
           /\ operationv[c].name = ops[j].name
           /\ c \in Used \/ c = cure
           /\ \A k \in 1 .. Len(ops) : k # c => operationv'[k] = operationv[k]
           /\ operationv'[c].node = operationv[c].node /\ operationv'[c].name = ops[j].name
           /\ Len(operationv'[c].overloads) = Len(operationv[c].overloads) + 1
           /\ \A m \in 1 .. Len(operationv[c].overloads) :
                operationv'[c].overloads[m] = operationv[c].overloads[m]
           /\ operationv'[c].overloads[Len(operationv[c].overloads) + 1].op = j
  BY AugmentFacts
<1>2. PICK a \in Nat, L \in Nat, l \in Nat, u \in Nat \ {0} :
        /\ a = at /\ L = Len(ops) /\ l = Len(operationv[c].overloads) /\ u = cure
        /\ Used = 1 .. u - 1 /\ Used \subseteq 1 .. L
  BY PlaceFacts
<1>3. Used' = Used
  BY <1>1 DEF Used
<1>4. \A k \in 1 .. L : operationv'[k].node = operationv[k].node
  BY <1>1, <1>2
<1>5. ASSUME NEW k \in 1 .. u, NEW op, InFront(k, op)
      PROVE  InFront(k, op)'
  <2>1. \A x \in 1 .. k-1 : x \in 1 .. L
    BY <1>2
  <2>2. \A x \in 1 .. k-1 : operationv'[x].node = operationv[x].node
    BY <1>4, <2>1
  <2>3. QED
    BY <1>1, <1>5, <2>2 DEF InFront
<1>6. ASSUME NEW k \in cure'+1 .. Len(ops)'
      PROVE  Len(operationv'[k].overloads) = 0
  <2>1. k \in cure+1 .. Len(ops) /\ k \in 1 .. Len(ops) /\ k # c
    BY <1>1, <1>2
  <2>2. QED
    BY <1>1, <2>1 DEF PlacedInv
<1>7. ASSUME NEW k \in 1 .. Len(ops)', k = cure',
             NEW m \in 1 .. Len(operationv'[k].overloads)
      PROVE  InFront(k, operationv[k].overloads[m].op)'
  <2>1. k \in 1 .. Len(ops) /\ k = cure /\ k \in 1 .. u
    BY <1>1, <1>2, <1>7
  <2>2. CASE k # c
    <3>1. operationv'[k] = operationv[k]
      BY <1>1, <2>1, <2>2
    <3>2. InFront(k, operationv[k].overloads[m].op)
      BY <1>7, <2>1, <3>1 DEF PlacedInv
    <3>3. PICK x : x = operationv[k].overloads[m].op
      OBVIOUS
    <3>4. InFront(k, x)'
      BY <1>5, <2>1, <3>2, <3>3
    <3>5. QED
      BY <3>1, <3>3, <3>4 DEF InFront
  <2>3. CASE k = c /\ m \in 1 .. l
    <3>1. InFront(k, operationv[k].overloads[m].op)
      BY <1>2, <2>1, <2>3 DEF PlacedInv
    <3>2. PICK x : x = operationv[k].overloads[m].op
      OBVIOUS
    <3>3. InFront(k, x)'
      BY <1>5, <2>1, <3>1, <3>2
    <3>4. operationv'[k].overloads[m].op = x
      BY <1>1, <1>2, <2>3, <3>2
    <3>5. QED
      BY <3>3, <3>4 DEF InFront
  <2>4. CASE k = c /\ m \notin 1 .. l
    <3>1. m = l + 1
      BY <1>1, <1>2, <1>7, <2>4
    <3>2. operationv'[k].overloads[m].op = j
      BY <1>1, <1>2, <2>4, <3>1
    <3>3. ops[j].name = Null
      <4>1. k \in cure .. Len(ops)
        BY <1>2, <2>1
      <4>2. QED
        BY <1>1, <2>4, <4>1 DEF OperationInv, EntryInv
    <3>4. \A x \in 1 .. k-1 : operationv'[x].node < j
      <4>1. \A x \in 1 .. k-1 : x \in Used /\ x \in 1 .. L
        BY <1>2, <2>1
      <4>2. \A x \in 1 .. k-1 : operationv[x].node \in 1 .. a
        BY <1>2, <4>1, PlaceFacts
      <4>3. j = a + 1
        BY <1>1, <1>2
      <4>4. QED
        BY <1>4, <4>1, <4>2, <4>3
    <3>5. QED
      BY <1>1, <3>2, <3>3, <3>4 DEF InFront
  <2>5. QED
    BY <2>2, <2>3, <2>4
<1>8. ASSUME NEW k \in Used', NEW m \in 1 .. Len(operationv'[k].overloads)
      PROVE  IF operationv'[k].overloads[m].op >= operationv'[k].node
             THEN ops'[operationv'[k].overloads[m].op].name = operationv'[k].name
             ELSE InFront(k, operationv[k].overloads[m].op)'
  <2>1. k \in Used /\ k \in 1 .. L /\ k \in 1 .. u
    BY <1>2, <1>3
  <2>2. CASE k # c
    <3>1. operationv'[k] = operationv[k]
      BY <1>1, <1>2, <2>1, <2>2
    <3>2. QED
      BY <1>1, <1>5, <1>8, <2>1, <3>1 DEF PlacedInv
  <2>3. CASE k = c /\ m \in 1 .. l
    <3>1. PICK x \in 1 .. a : x = operationv[k].overloads[m].op
      BY <1>2, <2>3, PlaceFacts
    <3>2. operationv'[k].overloads[m].op = x
      BY <1>1, <1>2, <2>3, <3>1
    <3>3. IF x >= operationv[k].node THEN ops[x].name = operationv[k].name
                                     ELSE InFront(k, x)
      BY <1>2, <2>1, <2>3, <3>1 DEF PlacedInv
    <3>4. operationv'[k].node = operationv[k].node /\ operationv'[k].name = operationv[k].name
      BY <1>1, <2>3
    <3>5. InFront(k, x) => InFront(k, x)'
      BY <1>5, <2>1
    <3>6. InFront(k, x)' => InFront(k, operationv[k].overloads[m].op)'
      BY <3>2 DEF InFront
    <3>7. QED
      BY <1>1, <3>2, <3>3, <3>4, <3>5, <3>6
  <2>4. CASE k = c /\ m \notin 1 .. l
    <3>1. m = l + 1
      <4>1. Len(operationv'[c].overloads) = l + 1
        BY <1>1, <1>2
      <4>2. m \in 1 .. l + 1
        BY <1>8, <2>4, <4>1
      <4>3. QED
        BY <2>4, <4>2
    <3>2. operationv'[k].overloads[m].op = j /\ operationv'[k].name = ops'[j].name
      BY <1>1, <1>2, <2>4, <3>1
    <3>3. operationv'[k].node \in 1 .. a
      BY <1>2, <1>4, <2>1, PlaceFacts
    <3>4. j >= operationv'[k].node
      BY <1>1, <1>2, <3>3
    <3>5. QED
      BY <3>2, <3>4
  <2>5. QED
    BY <2>2, <2>3, <2>4
<1>9. QED
  BY <1>6, <1>7, <1>8 DEF PlacedInv

(* Only a nameless operation ever becomes an overload of an entry of another
   name, and it stands in front of those of the name, behind which the entry
   takes no other: the search never leads an operation to a wrong entry. *)
THEOREM OverloadsOfOwnName == Spec => []NamelessInFront
<1>1. Init => PlacedInv
  <2> SUFFICES ASSUME Init PROVE PlacedInv
    OBVIOUS
  <2>1. Used = {} /\ cure = 1
    BY DEF Init, Used
  <2>2. \A k \in 1 .. Len(ops) : Len(operationv[k].overloads) = 0
    BY EmptySeq DEF Init
  <2>3. Len(ops) \in Nat
    BY DEF Init
  <2>4. QED
    BY <2>1, <2>2, <2>3 DEF PlacedInv
<1>2. OperationInv /\ PlacedInv /\ [Next]_vars => PlacedInv'
  <2> SUFFICES ASSUME OperationInv, PlacedInv, [Next]_vars PROVE PlacedInv'
    OBVIOUS
  <2>1. CASE Finish \/ UNCHANGED vars
    <3>1. UNCHANGED <<ops, operationv, cure>>
      BY <2>1 DEF Finish, vars
    <3>2. QED
      BY <3>1 DEF PlacedInv, InFront, Used
  <2>2. QED
    BY <2>1, NewEntryKeepsPlaced, AugmentKeepsPlaced DEF Next
<1>3. OperationInv /\ PlacedInv => NamelessInFront
  <2> SUFFICES ASSUME OperationInv, PlacedInv,
                      NEW k \in Used, NEW m \in DOMAIN operationv[k].overloads
               PROVE  LET op == operationv[k].overloads[m].op
                      IN  IF op >= operationv[k].node
                          THEN ops[op].name = operationv[k].name
                          ELSE /\ ops[op].name = Null
                               /\ \A l \in 1 .. k-1 : operationv[l].node < op
    BY DEF NamelessInFront, Used
  <2>1. m \in 1 .. Len(operationv[k].overloads)
    <3>1. k \in 1 .. Len(ops)
      BY PlaceFacts
    <3>2. operationv[k] \in Slot
      BY <3>1 DEF OperationInv, TypeOK
    <3>3. QED
      BY <3>2, LenProperties DEF Slot
  <2>2. QED
    BY <2>1 DEF PlacedInv, InFront
<1>4. QED
  BY <1>1, <1>2, <1>3, OperationsInvariant, PTL DEF Spec

-----------------------------------------------------------------------------
(***************************************************************************)
(* However many attributes there are, in however many lists, each has the  *)
(* functions its declaration asks for and properties that refer to them.   *)
(* output_attributes and output_prototype_attribute decide apart, by       *)
(* conditions written apart, on whether there is a setter.                 *)
(***************************************************************************)
EntryType == [name : AttributeNames, readonly : BOOLEAN, getter : Origin,
              setter : Origin, putforwards : BOOLEAN, generable : BOOLEAN]
FunctionType == [accessor : Accessor, name : AttributeNames,
                 body : {"code", "generated", "default", "forwards"}]
PropertyType == [name : AttributeNames, accessors : SUBSET Accessor]

GetterOf(e) == Function("getter", e, GetterBody(e))
SetterOf(e) == Function("setter", e, SetterBody(e))
PropertyOf(e) == [name |-> e.name,
                  accessors |-> IF ReadonlyProperty(e) THEN {"getter"} ELSE Accessor]

AttributeTypes == /\ decls \in Seq(Attribute)
                  /\ written \in [Accessor \X AttributeNames -> Origin]
                  /\ map \in Seq(EntryType)
                  /\ emitted \in Seq(FunctionType)
                  /\ props \in Seq(PropertyType)
                  /\ stage \in {"map", "emit", "proto", "done"}

(* the entries are those of the declarations, in order *)
EntriesOK == /\ Len(map) <= Len(decls)
             /\ \A k \in 1 .. Len(map) : map[k] = Entry(decls[k])
             /\ stage # "map" => Len(map) = Len(decls)

(* each entry that has been output has its functions in the source, and a
   function there is the getter of such an entry or its setter behind it *)
EmittedOK ==
  /\ getters \in 0 .. Len(map)
  /\ \A k \in 1 .. getters :
       /\ \E m \in 1 .. Len(emitted) : emitted[m] = GetterOf(map[k])
       /\ HasSetter(map[k]) => \E m \in 1 .. Len(emitted) : emitted[m] = SetterOf(map[k])
  /\ \A m \in 1 .. Len(emitted) : \E k \in 1 .. getters :
       \/ emitted[m] = GetterOf(map[k])
       \/ /\ HasSetter(map[k]) /\ emitted[m] = SetterOf(map[k])
          /\ m-1 \in 1 .. Len(emitted) /\ emitted[m-1] = GetterOf(map[k])
  /\ stage = "map" => emitted = <<>>
  /\ stage \in {"proto", "done"} => getters = Len(map)

PropsOK == /\ Len(props) <= Len(map)
           /\ \A k \in 1 .. Len(props) : props[k] = PropertyOf(map[k])
           /\ stage \in {"map", "emit"} => props = <<>>
           /\ stage = "done" => Len(props) = Len(map)

AttributeInv == AttributeTypes /\ EntriesOK /\ EmittedOK /\ PropsOK

(* The only modifier the generator looks at is the first: with none but
   readonly that is right, and an attribute that is not readonly is never
   taken for one. *)
LEMMA ReadonlyFacts ==
  ASSUME NEW a \in Attribute
  PROVE  /\ Readonly(a) \in BOOLEAN
         /\ a.qualifier = "none" => (Readonly(a) <=> a.readonly)
         /\ ~a.readonly => ~Readonly(a)
<1>1. a.qualifier \in {"none", "inherit", "static"} /\ a.readonly \in BOOLEAN
  BY DEF Attribute
<1>2. CASE a.qualifier = "none" /\ a.readonly
  <2>1. Modifiers(a) = <<>> \o <<"readonly">>
    BY <1>2 DEF Modifiers
  <2>2. <<"readonly">> \in Seq({"readonly"})
    OBVIOUS
  <2>3. Modifiers(a) = <<"readonly">>
    BY <2>1, <2>2, ConcatEmptySeq
  <2>4. QED
    BY <1>2, <2>3 DEF Readonly
<1>3. CASE a.qualifier = "none" /\ ~a.readonly
  <2>1. Modifiers(a) = <<>> \o <<>>
    BY <1>3 DEF Modifiers
  <2>2. Modifiers(a) = <<>>
    BY <2>1, ConcatEmptySeq, EmptySeq
  <2>3. QED
    BY <1>3, <2>2 DEF Readonly
<1>4. CASE a.qualifier # "none" /\ ~a.readonly
  <2>1. PICK q \in {"inherit", "static"} : q = a.qualifier
    BY <1>1, <1>4
  <2>2. Modifiers(a) = <<q>> \o <<>>
    BY <1>4, <2>1 DEF Modifiers
  <2>3. <<q>> \in Seq({"inherit", "static"})
    OBVIOUS
  <2>4. Modifiers(a) = <<q>>
    BY <2>2, <2>3, ConcatEmptySeq
  <2>5. Head(<<q>>) = q
    OBVIOUS
  <2>6. QED
    BY <1>4, <2>4, <2>5 DEF Readonly
<1>5. CASE a.qualifier # "none" /\ a.readonly
  BY <1>5 DEF Readonly
<1>6. QED
  BY <1>1, <1>2, <1>3, <1>4, <1>5

LEMMA EntryFacts ==
  ASSUME NEW a \in Attribute, written \in [Accessor \X AttributeNames -> Origin]
  PROVE  Entry(a) \in EntryType
<1>1. Readonly(a) \in BOOLEAN
  BY ReadonlyFacts
<1>2. /\ a.name \in AttributeNames /\ a.putforwards \in BOOLEAN
      /\ a.generable \in BOOLEAN
  BY DEF Attribute
<1>3. written[<<"getter", a.name>>] \in Origin /\ written[<<"setter", a.name>>] \in Origin
  BY <1>2 DEF Accessor
<1>4. "none" \in Origin
  BY DEF Origin
<1>5. QED
  BY <1>1, <1>2, <1>3, <1>4 DEF Entry, EntryType

(* What is emitted for an entry: a getter never forwards. *)
LEMMA FunctionFacts ==
  ASSUME NEW e \in EntryType
  PROVE  /\ GetterOf(e) \in FunctionType /\ SetterOf(e) \in FunctionType
         /\ GetterOf(e).accessor = "getter" /\ SetterOf(e).accessor = "setter"
         /\ GetterOf(e).name = e.name /\ SetterOf(e).name = e.name
         /\ GetterOf(e).body # "forwards"
         /\ e.getter = "code" => GetterOf(e).body = "code"
         /\ e.setter = "code" => SetterOf(e).body = "code"
         /\ PropertyOf(e) \in PropertyType
<1>1. /\ e.getter \in {"none", "empty", "code"} /\ e.setter \in {"none", "empty", "code"}
      /\ e.name \in AttributeNames
  BY DEF EntryType, Origin
<1>2. /\ e.getter # "none" => Body(e.getter, e) \in {"code", "generated", "default"}
      /\ e.setter # "none" => Body(e.setter, e) \in {"code", "generated", "default"}
      /\ e.getter = "code" => Body(e.getter, e) = "code"
      /\ e.setter = "code" => Body(e.setter, e) = "code"
  BY <1>1 DEF Body
<1>3. /\ GetterBody(e) \in {"code", "generated", "default"}
      /\ SetterBody(e) \in {"code", "generated", "default", "forwards"}
      /\ e.getter = "code" => GetterBody(e) = "code"
      /\ e.setter = "code" => SetterBody(e) = "code"
  BY <1>2 DEF GetterBody, SetterBody
<1>4. QED
  BY <1>1, <1>3 DEF GetterOf, SetterOf, Function, FunctionType, Accessor, PropertyOf, PropertyType

LEMMA AttributesInitInv == AttributesInit => AttributeInv
<1> SUFFICES ASSUME AttributesInit PROVE AttributeInv
  OBVIOUS
<1>1. decls \in Seq(Attribute) /\ Len(decls) \in Nat
  <2>1. PICK m \in 0 .. MaxAttributes : decls \in [1 .. m -> Attribute]
    BY DEF AttributesInit, BoundedSeq, SeqOf
  <2>2. m \in Nat
    BY <2>1, MaxAttributesAssumption
  <2>3. QED
    BY <2>1, <2>2, SeqDef, LenProperties
<1>2. map = <<>> /\ emitted = <<>> /\ props = <<>> /\ Len(<<>>) = 0 /\ DOMAIN <<>> = {}
  BY EmptySeq DEF AttributesInit
<1>3. getters = 0
  <2>1. {k \in DOMAIN emitted : emitted[k].accessor = "getter"} = {}
    BY <1>2
  <2>2. QED
    BY <2>1, FS_EmptySet DEF getters
<1>4. QED
  BY <1>1, <1>2, <1>3 DEF AttributesInit, AttributeInv, AttributeTypes, EntriesOK,
                          EmittedOK, PropsOK

LEMMA AddEntryKeepsInv == AttributeInv /\ AddEntry => AttributeInv'
<1> SUFFICES ASSUME AttributeInv, AddEntry PROVE AttributeInv'
  OBVIOUS
<1>1. /\ AttributeTypes /\ EntriesOK /\ EmittedOK /\ PropsOK
      /\ stage = "map" /\ emitted = <<>> /\ props = <<>>
  BY DEF AttributeInv, AddEntry, EmittedOK, PropsOK
<1>2. PICK n \in Nat : n = Len(map)
  BY <1>1 DEF AttributeTypes
<1>3. n + 1 \in 1 .. Len(decls) /\ Len(decls) \in Nat
  BY <1>1, <1>2 DEF AddEntry, AttributeTypes
<1>4. PICK a \in Attribute : a = decls[n + 1]
  BY <1>1, <1>3, ElementOfSeq DEF AttributeTypes
<1>5. PICK e \in EntryType : e = Entry(a)
  BY <1>1, EntryFacts DEF AttributeTypes
<1>6. map' = Append(map, e) /\ UNCHANGED <<decls, written, emitted, props, stage>>
  BY <1>2, <1>4, <1>5 DEF AddEntry
<1>7. /\ map' \in Seq(EntryType) /\ Len(map') = n + 1
      /\ map'[n + 1] = e /\ \A k \in 1 .. n : map'[k] = map[k]
  BY <1>1, <1>2, <1>6, AppendProperties DEF AttributeTypes
<1>8. AttributeTypes'
  BY <1>1, <1>6, <1>7 DEF AttributeTypes
<1>9. EntriesOK'
  <2>1. \A b : Entry(b)' = Entry(b)
    BY <1>6 DEF Entry
  <2>2. \A k \in 1 .. n + 1 : k = n + 1 \/ k \in 1 .. n
    BY <1>2
  <2>3. \A k \in 1 .. n + 1 : map'[k] = Entry(decls[k])
    BY <1>1, <1>2, <1>4, <1>5, <1>7, <2>2 DEF EntriesOK
  <2>4. QED
    BY <1>1, <1>3, <1>6, <1>7, <2>1, <2>3 DEF EntriesOK
<1>10. EmittedOK'
  <2>1. getters' = getters
    BY <1>6 DEF getters
  <2>2. Len(emitted) = 0 /\ DOMAIN emitted = {}
    BY <1>1, EmptySeq
  <2>3. getters = 0
    <3>1. {k \in DOMAIN emitted : emitted[k].accessor = "getter"} = {}
      BY <2>2
    <3>2. QED
      BY <3>1, FS_EmptySet DEF getters
  <2>4. QED
    BY <1>1, <1>6, <1>7, <2>1, <2>2, <2>3 DEF EmittedOK
<1>11. PropsOK'
  BY <1>1, <1>6, <1>7, EmptySeq DEF PropsOK
<1>12. QED
  BY <1>8, <1>9, <1>10, <1>11 DEF AttributeInv

(* steps that leave the entries and the functions alone *)
LEMMA FunctionsUnchanged ==
  ASSUME AttributeInv, UNCHANGED <<decls, written, map, emitted>>,
         stage # "map", stage' \in {"emit", "proto", "done"},
         stage' \in {"proto", "done"} => getters = Len(map)
  PROVE  EntriesOK' /\ EmittedOK'
<1>1. getters' = getters
  BY DEF getters
<1>2. EntriesOK'
  BY DEF AttributeInv, EntriesOK, Entry
<1>3. EmittedOK'
  BY <1>1 DEF AttributeInv, EmittedOK
<1>4. QED
  BY <1>2, <1>3

(* how many getters are in a list of functions, and how a function that comes
   behind changes that *)
GettersIn(s) == Cardinality({k \in DOMAIN s : s[k].accessor = "getter"})

LEMMA GetterAdded ==
  ASSUME NEW s \in Seq(FunctionType), NEW g \in FunctionType
  PROVE  /\ GettersIn(s) \in Nat
         /\ g.accessor = "getter" => GettersIn(Append(s, g)) = GettersIn(s) + 1
         /\ g.accessor # "getter" => GettersIn(Append(s, g)) = GettersIn(s)
<1> DEFINE G == {k \in DOMAIN s : s[k].accessor = "getter"}
<1>1. PICK n \in Nat : n = Len(s) /\ DOMAIN s = 1 .. n
  BY LenProperties
<1>2. PICK t : t = Append(s, g)
  OBVIOUS
<1>3. DOMAIN t = 1 .. n + 1 /\ t[n + 1] = g /\ \A k \in 1 .. n : t[k] = s[k]
  BY <1>1, <1>2
<1>4. IsFiniteSet(G) /\ n + 1 \notin G
  <2>1. IsFiniteSet(1 .. n)
    BY FS_Interval
  <2>2. QED
    BY <1>1, <2>1, FS_Subset
<1>5. CASE g.accessor = "getter"
  <2>1. {k \in DOMAIN t : t[k].accessor = "getter"} = G \cup {n + 1}
    BY <1>1, <1>3, <1>5
  <2>2. Cardinality(G \cup {n + 1}) = Cardinality(G) + 1
    <3>1. PICK H, x : H = G /\ x = n + 1
      OBVIOUS
    <3>2. IsFiniteSet(H) /\ x \notin H
      BY <1>4, <3>1
    <3>3. Cardinality(H \cup {x}) = Cardinality(H) + 1
      BY ONLY <3>2, FS_AddElement
    <3>4. QED
      BY <3>1, <3>3
  <2>3. Cardinality(G) \in Nat
    BY <1>4, FS_CardinalityType
  <2>4. GettersIn(s) = Cardinality(G) /\ GettersIn(t) = Cardinality(G \cup {n + 1})
    BY <2>1 DEF GettersIn
  <2>5. QED
    BY <1>2, <1>5, <2>2, <2>3, <2>4
<1>6. CASE g.accessor # "getter"
  <2>1. {k \in DOMAIN t : t[k].accessor = "getter"} = G
    BY <1>1, <1>3, <1>6
  <2>2. QED
    BY <1>2, <1>4, <1>6, <2>1, FS_CardinalityType DEF GettersIn
<1>7. QED
  BY <1>5, <1>6

(* What OutputAttribute writes is the getter and, of an entry that has one,
   the setter behind it. *)
LEMMA Written ==
  ASSUME AttributeInv, OutputAttribute
  PROVE  \E n \in 0 .. Len(map) - 1 : \E e \in EntryType : \E s \in Seq(FunctionType) :
           /\ n = getters /\ e = map[n + 1] /\ s = Append(emitted, GetterOf(e))
           /\ s \in Seq(FunctionType) /\ Len(s) = Len(emitted) + 1
           /\ s[Len(s)] = GetterOf(e) /\ \A m \in 1 .. Len(emitted) : s[m] = emitted[m]
           /\ GettersIn(s) = n + 1
           /\ emitted' = IF HasSetter(e) THEN Append(s, SetterOf(e)) ELSE s
<1>1. AttributeTypes /\ EmittedOK
  BY DEF AttributeInv
<1>2. PICK n \in 0 .. Len(map) - 1 : n = getters
  BY <1>1 DEF EmittedOK, OutputAttribute, AttributeTypes
<1>3. PICK e \in EntryType : e = map[n + 1]
  <2>1. n + 1 \in 1 .. Len(map)
    BY <1>1, <1>2 DEF AttributeTypes
  <2>2. QED
    BY <1>1, <2>1, ElementOfSeq DEF AttributeTypes
<1>4. PICK g \in FunctionType : g = GetterOf(e)
  BY FunctionFacts
<1>5. PICK u \in Seq(FunctionType) : u = emitted
  BY <1>1 DEF AttributeTypes
<1>6. PICK s : s = Append(u, g)
  OBVIOUS
<1>7. /\ s \in Seq(FunctionType) /\ Len(s) = Len(u) + 1
      /\ s[Len(u) + 1] = g /\ \A m \in 1 .. Len(u) : s[m] = u[m]
  BY <1>6, AppendProperties
<1>8. GettersIn(s) = n + 1
  <2>1. g.accessor = "getter"
    BY <1>4, FunctionFacts
  <2>2. GettersIn(u) = n
    BY <1>2, <1>5 DEF GettersIn, getters
  <2>3. QED
    BY <1>6, <2>1, <2>2, GetterAdded
<1>9. emitted' = (u \o <<g>>) \o (IF HasSetter(e) THEN <<SetterOf(e)>> ELSE <<>>)
  BY <1>2, <1>3, <1>4, <1>5 DEF OutputAttribute, GetterOf, SetterOf
<1>10. u \o <<g>> = s
  BY <1>6, AppendIsConcat
<1>11. emitted' = IF HasSetter(e) THEN Append(s, SetterOf(e)) ELSE s
  <2>1. CASE HasSetter(e)
    <3>1. PICK h \in FunctionType : h = SetterOf(e)
      BY FunctionFacts
    <3>2. emitted' = s \o <<h>>
      BY <1>9, <1>10, <2>1, <3>1
    <3>3. QED
      BY <1>7, <2>1, <3>1, <3>2, AppendIsConcat
  <2>2. CASE ~HasSetter(e)
    BY <1>7, <1>9, <1>10, <2>2, ConcatEmptySeq
  <2>3. QED
    BY <2>1, <2>2
<1>12. QED
  BY <1>2, <1>3, <1>4, <1>5, <1>6, <1>7, <1>8, <1>11

LEMMA OutputAttributeKeepsInv == AttributeInv /\ OutputAttribute => AttributeInv'
<1> SUFFICES ASSUME AttributeInv, OutputAttribute PROVE AttributeInv'
  OBVIOUS
<1>1. /\ AttributeTypes /\ EntriesOK /\ EmittedOK /\ PropsOK
      /\ stage = "emit" /\ UNCHANGED <<decls, written, map, props, stage>>
  BY DEF AttributeInv, OutputAttribute
<1>2. PICK n \in 0 .. Len(map) - 1, e \in EntryType, s \in Seq(FunctionType) :
           /\ n = getters /\ e = map[n + 1] /\ s = Append(emitted, GetterOf(e))
           /\ s \in Seq(FunctionType) /\ Len(s) = Len(emitted) + 1
           /\ s[Len(s)] = GetterOf(e) /\ \A m \in 1 .. Len(emitted) : s[m] = emitted[m]
           /\ GettersIn(s) = n + 1
           /\ emitted' = IF HasSetter(e) THEN Append(s, SetterOf(e)) ELSE s
  BY Written
<1>3. PICK l \in Nat : l = Len(emitted)
  BY <1>1 DEF AttributeTypes
<1>4. PICK t : t = emitted'
  OBVIOUS
<1>5. /\ t \in Seq(FunctionType) /\ GettersIn(t) = n + 1
      /\ \A m \in 1 .. l : t[m] = emitted[m]
      /\ t[l + 1] = GetterOf(e)
      /\ HasSetter(e) => Len(t) = l + 2 /\ t[l + 2] = SetterOf(e)
      /\ ~HasSetter(e) => Len(t) = l + 1
  <2>1. CASE HasSetter(e)
    <3>1. PICK h \in FunctionType : h = SetterOf(e) /\ h.accessor # "getter"
      BY FunctionFacts
    <3>2. t = Append(s, h)
      BY <1>2, <1>4, <2>1, <3>1
    <3>3. /\ t \in Seq(FunctionType) /\ Len(t) = Len(s) + 1
          /\ t[Len(s) + 1] = h /\ \A m \in 1 .. Len(s) : t[m] = s[m]
      BY <1>2, <3>2, AppendProperties
    <3>4. GettersIn(t) = n + 1
      BY <1>2, <3>1, <3>2, GetterAdded
    <3>5. Len(s) = l + 1
      BY <1>2, <1>3
    <3>6. \A m \in 1 .. l : m \in 1 .. l + 1
      BY <1>3
    <3>7. Len(t) = l + 2 /\ t[l + 2] = h /\ \A m \in 1 .. l + 1 : t[m] = s[m]
      BY <1>3, <3>3, <3>5
    <3>8. l + 1 \in 1 .. l + 1 /\ s[l + 1] = GetterOf(e)
      BY <1>2, <1>3, <3>5
    <3>9. \A m \in 1 .. l : t[m] = emitted[m]
      BY <1>2, <1>3, <3>6, <3>7
    <3>10. QED
      BY <2>1, <3>1, <3>3, <3>4, <3>7, <3>8, <3>9
  <2>2. CASE ~HasSetter(e)
    BY <1>2, <1>3, <1>4, <2>2
  <2>3. QED
    BY <2>1, <2>2
<1>6. getters' = n + 1 /\ n \in Nat /\ n + 1 <= Len(map) /\ Len(map) \in Nat
  <2>1. getters' = GettersIn(emitted')
    BY DEF GettersIn, getters
  <2>2. Len(map) \in Nat
    BY <1>1 DEF AttributeTypes
  <2>3. QED
    BY <1>2, <1>4, <1>5, <2>1, <2>2
<1>7. AttributeTypes' /\ EntriesOK' /\ PropsOK'
  BY <1>1, <1>4, <1>5 DEF AttributeTypes, EntriesOK, PropsOK, Entry
<1>8. PICK L \in Nat : L = Len(t) /\ l + 1 \in 1 .. L /\ (\A m \in 1 .. l : m \in 1 .. L)
                     /\ (HasSetter(e) => l + 2 \in 1 .. L)
  BY <1>3, <1>5
<1>9. ASSUME NEW k \in 1 .. n + 1
      PROVE  /\ \E m \in 1 .. L : t[m] = GetterOf(map[k])
             /\ HasSetter(map[k]) => \E m \in 1 .. L : t[m] = SetterOf(map[k])
  <2>1. CASE k = n + 1
    BY <1>2, <1>5, <1>8, <2>1
  <2>2. CASE k # n + 1
    <3>1. k \in 1 .. getters
      BY <1>2, <2>2
    <3>2. QED
      BY <1>1, <1>3, <1>5, <1>8, <3>1 DEF EmittedOK
  <2>3. QED
    BY <2>1, <2>2
<1>10. ASSUME NEW m \in 1 .. L
       PROVE  \E k \in 1 .. n + 1 :
                \/ t[m] = GetterOf(map[k])
                \/ /\ HasSetter(map[k]) /\ t[m] = SetterOf(map[k])
                   /\ m-1 \in 1 .. L /\ t[m-1] = GetterOf(map[k])
  <2>1. n + 1 \in 1 .. n + 1
    BY <1>6
  <2>2. CASE m \in 1 .. l
    <3>1. PICK k \in 1 .. n :
            \/ emitted[m] = GetterOf(map[k])
            \/ /\ HasSetter(map[k]) /\ emitted[m] = SetterOf(map[k])
               /\ m-1 \in 1 .. l /\ emitted[m-1] = GetterOf(map[k])
      BY <1>1, <1>2, <1>3, <2>2 DEF EmittedOK
    <3>2. k \in 1 .. n + 1
      BY <1>6
    <3>3. QED
      BY <1>5, <1>8, <2>2, <3>1, <3>2
  <2>3. CASE m = l + 1
    BY <1>2, <1>5, <2>1, <2>3
  <2>4. CASE m \notin 1 .. l /\ m # l + 1
    <3>1. HasSetter(e) /\ m = l + 2 /\ m - 1 = l + 1
      BY <1>3, <1>5, <1>8, <2>4
    <3>2. QED
      BY <1>2, <1>5, <1>8, <2>1, <3>1
  <2>5. QED
    BY <2>2, <2>3, <2>4
<1>11. EmittedOK'
  BY <1>1, <1>4, <1>6, <1>8, <1>9, <1>10 DEF EmittedOK
<1>12. QED
  BY <1>7, <1>11 DEF AttributeInv

LEMMA OutputPrototypeAttributeKeepsInv ==
  AttributeInv /\ OutputPrototypeAttribute => AttributeInv'
<1> SUFFICES ASSUME AttributeInv, OutputPrototypeAttribute PROVE AttributeInv'
  OBVIOUS
<1>1. /\ AttributeTypes /\ EntriesOK /\ EmittedOK /\ PropsOK
      /\ stage = "proto" /\ UNCHANGED <<decls, written, map, emitted, stage>>
  BY DEF AttributeInv, OutputPrototypeAttribute
<1>2. PICK n \in Nat : n = Len(props) /\ n + 1 \in 1 .. Len(map)
  BY <1>1 DEF AttributeTypes, OutputPrototypeAttribute
<1>3. PICK e \in EntryType : e = map[n + 1]
  BY <1>1, <1>2, ElementOfSeq DEF AttributeTypes
<1>4. PICK p \in PropertyType : p = PropertyOf(e)
  BY FunctionFacts
<1>5. props' = Append(props, p)
  BY <1>2, <1>3, <1>4 DEF OutputPrototypeAttribute, PropertyOf
<1>6. /\ props' \in Seq(PropertyType) /\ Len(props') = n + 1
      /\ props'[n + 1] = p /\ \A k \in 1 .. n : props'[k] = props[k]
  BY <1>1, <1>2, <1>5, AppendProperties DEF AttributeTypes
<1>7. AttributeTypes'
  BY <1>1, <1>6 DEF AttributeTypes
<1>8. PropsOK'
  <2>1. \A k \in 1 .. n + 1 : k = n + 1 \/ k \in 1 .. n
    BY <1>2
  <2>2. \A k \in 1 .. n + 1 : props'[k] = PropertyOf(map[k])
    BY <1>1, <1>2, <1>3, <1>4, <1>6, <2>1 DEF PropsOK
  <2>3. n + 1 <= Len(map)
    BY <1>2
  <2>4. QED
    BY <1>1, <1>6, <2>2, <2>3 DEF PropsOK
<1>9. EntriesOK' /\ EmittedOK'
  BY <1>1, FunctionsUnchanged DEF EmittedOK
<1>10. QED
  BY <1>7, <1>8, <1>9 DEF AttributeInv

LEMMA AttributesNextInv ==
  AttributeInv /\ [AttributesNext]_attributevars => AttributeInv'
<1> SUFFICES ASSUME AttributeInv, [AttributesNext]_attributevars PROVE AttributeInv'
  OBVIOUS
<1>1. CASE AddEntry
  BY <1>1, AddEntryKeepsInv
<1>2. CASE MapEnd
  <2>1. /\ AttributeTypes /\ EntriesOK /\ EmittedOK /\ PropsOK
        /\ UNCHANGED <<decls, written, map, emitted, props>>
        /\ stage = "map" /\ stage' = "emit" /\ Len(map) = Len(decls)
    BY <1>2 DEF AttributeInv, MapEnd
  <2>2. getters' = getters
    BY <2>1 DEF getters
  <2>3. AttributeTypes' /\ EntriesOK' /\ PropsOK'
    BY <2>1 DEF AttributeTypes, EntriesOK, PropsOK, Entry
  <2>4. EmittedOK'
    BY <2>1, <2>2 DEF EmittedOK
  <2>5. QED
    BY <2>3, <2>4 DEF AttributeInv
<1>3. CASE OutputAttribute
  BY <1>3, OutputAttributeKeepsInv
<1>4. CASE OutputAttributesEnd
  <2>1. /\ AttributeTypes /\ PropsOK
        /\ UNCHANGED <<decls, written, map, emitted, props>>
        /\ stage = "emit" /\ stage' = "proto" /\ getters = Len(map)
    BY <1>4 DEF AttributeInv, OutputAttributesEnd
  <2>2. AttributeTypes' /\ PropsOK'
    BY <2>1 DEF AttributeTypes, PropsOK
  <2>3. QED
    BY <2>1, <2>2, FunctionsUnchanged DEF AttributeInv
<1>5. CASE OutputPrototypeAttribute
  BY <1>5, OutputPrototypeAttributeKeepsInv
<1>6. CASE PrototypeEnd
  <2>1. /\ AttributeTypes /\ PropsOK
        /\ UNCHANGED <<decls, written, map, emitted, props>>
        /\ stage = "proto" /\ stage' = "done" /\ getters = Len(map)
        /\ Len(props) = Len(map)
    BY <1>6 DEF AttributeInv, PrototypeEnd, EmittedOK
  <2>2. AttributeTypes' /\ PropsOK'
    BY <2>1 DEF AttributeTypes, PropsOK
  <2>3. QED
    BY <2>1, <2>2, FunctionsUnchanged DEF AttributeInv
<1>7. CASE UNCHANGED attributevars
  <2>1. /\ AttributeTypes /\ EntriesOK /\ EmittedOK /\ PropsOK
        /\ UNCHANGED <<decls, written, map, emitted, props, stage>>
    BY <1>7 DEF attributevars, AttributeInv
  <2>2. getters' = getters
    BY <2>1 DEF getters
  <2>3. AttributeTypes' /\ EntriesOK' /\ PropsOK'
    BY <2>1 DEF AttributeTypes, EntriesOK, PropsOK, Entry
  <2>4. EmittedOK'
    BY <2>1, <2>2 DEF EmittedOK
  <2>5. QED
    BY <2>3, <2>4 DEF AttributeInv
<1>8. QED
  BY <1>1, <1>2, <1>3, <1>4, <1>5, <1>6, <1>7 DEF AttributesNext


-----------------------------------------------------------------------------
(* Where an emitted function comes from: the entry of a declaration of its
   name, as the getter or, if the entry has one, the setter. *)
LEMMA EmittedFrom ==
  ASSUME AttributeInv, NEW m \in DOMAIN emitted
  PROVE  \E k \in 1 .. getters : \E a \in Attribute : \E e \in EntryType :
           /\ k \in 1 .. Len(map) /\ k \in Declared(emitted[m])
           /\ a = decls[k] /\ e = Entry(a) /\ e = map[k]
           /\ \/ emitted[m] = GetterOf(e)
              \/ /\ HasSetter(e) /\ emitted[m] = SetterOf(e)
                 /\ m-1 \in DOMAIN emitted /\ emitted[m-1] = GetterOf(e)
<1>1. AttributeTypes /\ EntriesOK /\ EmittedOK
  BY DEF AttributeInv
<1>2. DOMAIN emitted = 1 .. Len(emitted) /\ DOMAIN decls = 1 .. Len(decls)
      /\ Len(map) \in Nat /\ Len(decls) \in Nat
  BY <1>1, LenProperties DEF AttributeTypes
<1>3. PICK k \in 1 .. getters :
        \/ emitted[m] = GetterOf(map[k])
        \/ /\ HasSetter(map[k]) /\ emitted[m] = SetterOf(map[k])
           /\ m-1 \in DOMAIN emitted /\ emitted[m-1] = GetterOf(map[k])
  BY <1>1, <1>2 DEF EmittedOK
<1>4. k \in 1 .. Len(map) /\ k \in 1 .. Len(decls)
  BY <1>1, <1>2 DEF EmittedOK, EntriesOK
<1>5. PICK a \in Attribute : a = decls[k]
  BY <1>1, <1>4, ElementOfSeq DEF AttributeTypes
<1>6. PICK e \in EntryType : e = Entry(a) /\ e = map[k]
  BY <1>1, <1>4, <1>5, EntryFacts DEF AttributeTypes, EntriesOK
<1>7. e.name = a.name
  BY <1>6 DEF Entry
<1>8. emitted[m].name = e.name
  BY <1>3, <1>6, FunctionFacts
<1>9. k \in Declared(emitted[m])
  BY <1>2, <1>4, <1>5, <1>7, <1>8 DEF Declared
<1>10. QED
  BY <1>3, <1>4, <1>5, <1>6, <1>9

(* Where a property comes from, and what the prototype is written behind. *)
LEMMA PropertyFrom ==
  ASSUME AttributeInv, NEW k \in 1 .. Len(props)
  PROVE  \E e \in EntryType : /\ k \in 1 .. Len(map) /\ k \in 1 .. getters
                              /\ e = map[k] /\ props[k] = PropertyOf(e)
<1>1. AttributeTypes /\ EmittedOK /\ PropsOK
  BY DEF AttributeInv
<1>2. Len(props) \in Nat /\ Len(map) \in Nat
  BY <1>1 DEF AttributeTypes
<1>3. k \in 1 .. Len(map) /\ props[k] = PropertyOf(map[k])
  BY <1>1, <1>2 DEF PropsOK
<1>4. props # <<>>
  BY EmptySeq
<1>5. getters = Len(map)
  BY <1>1, <1>4 DEF AttributeTypes, EmittedOK, PropsOK
<1>6. map[k] \in EntryType
  BY <1>1, <1>3, ElementOfSeq DEF AttributeTypes
<1>7. QED
  BY <1>3, <1>5, <1>6

(* A property has the accessors that are functions of its entry. *)
LEMMA AccessorsEmitted ==
  ASSUME NEW e \in EntryType
  PROVE  /\ HasSetter(e) \in BOOLEAN
         /\ PropertyOf(e).name = e.name /\ "getter" \in PropertyOf(e).accessors
         /\ HasSetter(e) <=> "setter" \in PropertyOf(e).accessors
         /\ PropertyOf(e).accessors \subseteq {"getter", "setter"}
<1>1. e.readonly \in BOOLEAN /\ e.putforwards \in BOOLEAN
  BY DEF EntryType
<1>2. HasSetter(e) <=> ~ReadonlyProperty(e)
  BY <1>1 DEF HasSetter, ReadonlyProperty
<1>3. QED
  BY <1>1, <1>2 DEF PropertyOf, HasSetter, Accessor

(* Every state satisfies the invariant: the entries are those of the
   declarations in order, the functions in the source are those of the entries
   output so far, each setter right behind the getter of its entry, and the
   properties are those of the entries. *)
THEOREM AttributesInvariant == AttributesSpec => []AttributeInv
<1>1. AttributesInit => AttributeInv
  BY AttributesInitInv
<1>2. AttributeInv /\ [AttributesNext]_attributevars => AttributeInv'
  BY AttributesNextInv
<1>3. QED
  BY <1>1, <1>2, PTL DEF AttributesSpec

LEMMA ResolveByInv == AttributeInv => FunctionsResolve
<1> SUFFICES ASSUME AttributeInv PROVE FunctionsResolve
  OBVIOUS
<1>1. AttributeTypes /\ EntriesOK /\ EmittedOK /\ PropsOK
  BY DEF AttributeInv
<1>2. /\ DOMAIN emitted = 1 .. Len(emitted) /\ DOMAIN props = 1 .. Len(props)
      /\ Len(emitted) \in Nat /\ Len(props) \in Nat
  BY <1>1, LenProperties DEF AttributeTypes
<1>3. /\ \A f : f \in ToSet(emitted) <=> \E m \in 1 .. Len(emitted) : f = emitted[m]
      /\ \A p : p \in ToSet(props) <=> \E k \in 1 .. Len(props) : p = props[k]
  BY <1>2 DEF ToSet
<1>4. ASSUME NEW p \in ToSet(props), NEW accessor \in p.accessors
      PROVE  \E f \in ToSet(emitted) : f.accessor = accessor /\ f.name = p.name
  <2>1. PICK k \in 1 .. Len(props) : p = props[k]
    BY <1>3
  <2>2. PICK e \in EntryType : /\ k \in 1 .. Len(map) /\ k \in 1 .. getters
                               /\ e = map[k] /\ p = PropertyOf(e)
    BY <2>1, PropertyFrom
  <2>3. accessor \in {"getter", "setter"} /\ p.name = e.name
    BY <2>2, AccessorsEmitted
  <2>4. CASE accessor = "getter"
    <3>1. PICK m \in 1 .. Len(emitted) : emitted[m] = GetterOf(e)
      BY <1>1, <2>2 DEF EmittedOK
    <3>2. emitted[m].accessor = accessor /\ emitted[m].name = p.name
      BY <2>3, <2>4, <3>1, FunctionFacts
    <3>3. QED
      BY <1>3, <3>2
  <2>5. CASE accessor = "setter"
    <3>1. HasSetter(e)
      BY <2>2, <2>5, AccessorsEmitted
    <3>2. PICK m \in 1 .. Len(emitted) : emitted[m] = SetterOf(e)
      BY <1>1, <2>2, <3>1 DEF EmittedOK
    <3>3. emitted[m].accessor = accessor /\ emitted[m].name = p.name
      BY <2>3, <2>5, <3>2, FunctionFacts
    <3>4. QED
      BY <1>3, <3>3
  <2>6. QED
    BY <2>3, <2>4, <2>5
<1>5. ASSUME NEW m \in DOMAIN emitted, emitted[m].body = "forwards"
      PROVE  \E j \in 1 .. m-1 : emitted[j].accessor = "getter" /\ emitted[j].name = emitted[m].name
  <2>1. PICK e \in EntryType :
           \/ emitted[m] = GetterOf(e)
           \/ /\ emitted[m] = SetterOf(e)
              /\ m-1 \in DOMAIN emitted /\ emitted[m-1] = GetterOf(e)
    BY EmittedFrom
  <2>2. /\ emitted[m] = SetterOf(e) /\ m-1 \in DOMAIN emitted /\ emitted[m-1] = GetterOf(e)
    BY <1>5, <2>1, FunctionFacts
  <2>3. emitted[m-1].accessor = "getter" /\ emitted[m-1].name = emitted[m].name
    BY <2>2, FunctionFacts
  <2>4. m-1 \in 1 .. m-1
    BY <1>2, <2>2
  <2>5. QED
    BY <2>3, <2>4
<1>6. ASSUME stage = "done", NEW f \in ToSet(emitted)
      PROVE  \E p \in ToSet(props) : p.name = f.name /\ f.accessor \in p.accessors
  <2>1. PICK m \in DOMAIN emitted : f = emitted[m]
    BY <1>2, <1>3
  <2>2. PICK k \in 1 .. getters, e \in EntryType :
           /\ k \in 1 .. Len(map) /\ e = map[k]
           /\ \/ f = GetterOf(e)
              \/ HasSetter(e) /\ f = SetterOf(e)
    BY <2>1, EmittedFrom
  <2>3. k \in 1 .. Len(props) /\ props[k] = PropertyOf(e)
    BY <1>1, <1>6, <2>2 DEF PropsOK
  <2>4. PropertyOf(e).name = f.name /\ f.accessor \in PropertyOf(e).accessors
    BY <2>2, FunctionFacts, AccessorsEmitted
  <2>5. QED
    BY <1>3, <2>3, <2>4
<1>7. QED
  BY <1>4, <1>5, <1>6 DEF FunctionsResolve

(* The source compiles, however many attributes there are: the prototype
   refers to functions emitted before it, a setter that forwards calls the
   getter emitted before it, and no function is left without a property
   (output_attributes and output_prototype_attribute decide on a setter by
   two conditions written apart). *)
THEOREM AttributesResolve == AttributesSpec => []FunctionsResolve
<1>1. AttributeInv => FunctionsResolve
  BY ResolveByInv
<1>2. QED
  BY <1>1, AttributesInvariant, PTL

LEMMA SettersByInv == AttributeInv => SettersAsDeclared
<1> SUFFICES ASSUME AttributeInv PROVE SettersAsDeclared
  OBVIOUS
<1>1. AttributeTypes /\ EntriesOK /\ EmittedOK /\ PropsOK
  BY DEF AttributeInv
<1>2. /\ DOMAIN emitted = 1 .. Len(emitted) /\ DOMAIN props = 1 .. Len(props)
      /\ DOMAIN decls = 1 .. Len(decls)
      /\ stage = "done" => Len(map) = Len(decls) /\ Len(props) = Len(map)
  BY <1>1, LenProperties DEF AttributeTypes, EntriesOK, PropsOK
<1>3. /\ \A f : f \in ToSet(emitted) <=> \E m \in 1 .. Len(emitted) : f = emitted[m]
      /\ \A p : p \in ToSet(props) <=> \E k \in 1 .. Len(props) : p = props[k]
  BY <1>2 DEF ToSet
<1>4. ASSUME NEW f \in ToSet(emitted), f.accessor = "setter"
      PROVE  \E k \in Declared(f) : \/ ~decls[k].readonly \/ decls[k].putforwards
                                    \/ decls[k].qualifier # "none"
  <2>1. PICK m \in DOMAIN emitted : f = emitted[m]
    BY <1>2, <1>3
  <2>2. PICK k \in Declared(f), a \in Attribute, e \in EntryType :
           /\ a = decls[k] /\ e = Entry(a)
           /\ f = GetterOf(e) \/ HasSetter(e)
    BY <2>1, EmittedFrom
  <2>3. HasSetter(e)
    BY <1>4, <2>2, FunctionFacts
  <2>4. e.readonly = Readonly(a) /\ e.putforwards = a.putforwards
    BY <2>2 DEF Entry
  <2>5. ~a.readonly \/ a.putforwards \/ a.qualifier # "none"
    BY <2>3, <2>4, ReadonlyFacts DEF HasSetter
  <2>6. QED
    BY <2>2, <2>5
<1>5. ASSUME stage = "done", NEW k \in DOMAIN decls, ~decls[k].readonly \/ decls[k].putforwards
      PROVE  \E p \in ToSet(props) : p.name = decls[k].name /\ "setter" \in p.accessors
  <2>1. PICK a \in Attribute : a = decls[k]
    BY <1>1, <1>2, ElementOfSeq DEF AttributeTypes
  <2>2. PICK e \in EntryType : e = Entry(a) /\ e = map[k] /\ props[k] = PropertyOf(e)
    BY <1>1, <1>2, <1>5, <2>1, EntryFacts DEF AttributeTypes, EntriesOK, PropsOK
  <2>3. HasSetter(e) /\ e.name = a.name
    BY <1>5, <2>1, <2>2, ReadonlyFacts DEF Entry, HasSetter
  <2>4. props[k].name = decls[k].name /\ "setter" \in props[k].accessors
    BY <2>1, <2>2, <2>3, AccessorsEmitted
  <2>5. QED
    BY <1>2, <1>3, <1>5, <2>4
<1>6. QED
  BY <1>4, <1>5 DEF SettersAsDeclared

(* A script can set each attribute that may be written and, unless another
   modifier hides its readonly, no other (duk-libdom-interface.c:1609). *)
THEOREM AttributesSet == AttributesSpec => []SettersAsDeclared
<1>1. AttributeInv => SettersAsDeclared
  BY SettersByInv
<1>2. QED
  BY <1>1, AttributesInvariant, PTL

LEMMA CodeByInv == AttributeInv => AuthorCodeUsedIfWritable
<1> SUFFICES ASSUME AttributeInv, NEW f \in ToSet(emitted),
                    written[<<f.accessor, f.name>>] = "code",
                    f.accessor = "getter" \/ \A k \in Declared(f) : ~decls[k].readonly
             PROVE  f.body = "code"
  BY DEF AuthorCodeUsedIfWritable
<1>1. AttributeTypes
  BY DEF AttributeInv
<1>2. PICK m \in DOMAIN emitted : f = emitted[m]
  BY DEF ToSet
<1>3. PICK k \in Declared(f), a \in Attribute, e \in EntryType :
         /\ a = decls[k] /\ e = Entry(a)
         /\ f = GetterOf(e) \/ f = SetterOf(e)
  BY <1>2, EmittedFrom
<1>4. e.name = a.name /\ e.getter = written[<<"getter", a.name>>]
      /\ (Readonly(a) \/ e.setter = written[<<"setter", a.name>>])
  BY <1>3 DEF Entry
<1>5. CASE f = GetterOf(e)
  BY <1>4, <1>5, FunctionFacts
<1>6. CASE f = SetterOf(e)
  <2>1. f.accessor = "setter" /\ f.name = a.name
    BY <1>4, <1>6, FunctionFacts
  <2>2. ~Readonly(a)
    BY <1>3, <2>1, ReadonlyFacts
  <2>3. QED
    BY <1>4, <1>6, <2>1, <2>2, FunctionFacts
<1>7. QED
  BY <1>3, <1>5, <1>6

(* The code the author wrote is the body of every getter, and of the setter of
   an attribute that no declaration makes readonly. *)
THEOREM AttributesUseCode == AttributesSpec => []AuthorCodeUsedIfWritable
<1>1. AttributeInv => AuthorCodeUsedIfWritable
  BY CodeByInv
<1>2. QED
  BY <1>1, AttributesInvariant, PTL

-----------------------------------------------------------------------------
(***************************************************************************)
(* The class name fits its buffer and begins as it should, for IDL names   *)
(* of any length.  A turn of the loop may write three characters, so that  *)
(* "twice the length" needs more than a count per turn: what makes up for  *)
(* the third one is that the prefix HTML was copied one for one.           *)
(***************************************************************************)
NameTypes == /\ idlname \in Seq(Char)
             /\ inc \in Nat \ {0}
             /\ name \in Seq(Glyphs)
             /\ waslower \in BOOLEAN

(* how far the two positions may be apart *)
Lengths == /\ name = <<>> => waslower
           /\ name # <<>> => /\ inc >= 2 /\ inc <= Len(idlname) + 1
                             /\ Len(name) >= inc - 1
                             /\ Len(name) <= 2 * (inc - 1) - 1

(* what is known of the last character *)
LastRead == /\ inc = 2 => waslower
            /\ name # <<>> /\ inc > 2 => waslower = idlname[inc - 1].low

(* nothing is inserted before the first low character, within the prefix *)
Verbatim ==
  name # <<>> /\ inc <= 5 /\ (\A j \in 2 .. inc - 1 : ~idlname[j].low) =>
    /\ Len(name) = inc - 1
    /\ \A j \in 1 .. inc - 1 : name[j] = idlname[j].glyph

(* the underscore after the prefix is there, or the next turn inserts it *)
Prefix ==
  name # <<>> /\ inc > 5 /\ Html /\ ~idlname[5].low =>
    /\ name[1] = "h" /\ name[2] = "t" /\ name[3] = "m" /\ name[4] = "l"
    /\ \/ name[5] = Underscore /\ Len(name) > 5
       \/ /\ inc = 6 /\ Len(name) = 5
          /\ inc <= Len(idlname) /\ idlname[inc].low

NameInv == NameTypes /\ Lengths /\ LastRead /\ Verbatim /\ FirstKept /\ Prefix

-----------------------------------------------------------------------------
(* What one turn of the loop appends to, for short *)
Out == WithPrefix(name)

(* Appending and replacing, for the glyphs. *)
LEMMA Appended ==
  ASSUME NEW s \in Seq(Glyphs), NEW g \in Glyphs
  PROVE  /\ Append(s, g) \in Seq(Glyphs)
         /\ Len(Append(s, g)) = Len(s) + 1
         /\ Append(s, g)[Len(s) + 1] = g
         /\ \A j \in 1 .. Len(s) : Append(s, g)[j] = s[j]
BY AppendProperties

LEMMA Replaced ==
  ASSUME NEW s \in Seq(Glyphs), NEW i \in 1 .. Len(s), NEW g \in Glyphs
  PROVE  /\ [s EXCEPT ![i] = g] \in Seq(Glyphs)
         /\ Len([s EXCEPT ![i] = g]) = Len(s)
         /\ \A j \in 1 .. Len(s) : [s EXCEPT ![i] = g][j] = IF j = i THEN g ELSE s[j]
BY ExceptSeq

(* Without an underscore nothing changes, with one the rest stays. *)
LEMMA PrefixType ==
  ASSUME NameInv, name # <<>>
  PROVE  /\ Out \in Seq(Glyphs)
         /\ EndsHtml => Len(Out) = Len(name) + 1 /\ Out[Len(Out)] = Underscore
         /\ ~EndsHtml => Out = name
         /\ \A j \in 1 .. Len(name) : Out[j] = name[j]
<1>1. name \in Seq(Glyphs)
  BY DEF NameInv, NameTypes
<1>2. CASE EndsHtml
  <2> DEFINE app == Append(name, Underscore)
  <2>1. /\ app \in Seq(Glyphs) /\ Len(app) = Len(name) + 1
        /\ app[Len(name) + 1] = Underscore /\ \A j \in 1 .. Len(name) : app[j] = name[j]
    BY <1>1, Appended DEF Glyphs
  <2>2. Out = app
    BY <1>2 DEF Out, WithPrefix
  <2> HIDE DEF app
  <2>3. QED
    BY <1>2, <2>1, <2>2
<1>3. CASE ~EndsHtml
  BY <1>1, <1>3 DEF Out, WithPrefix
<1>4. QED
  BY <1>2, <1>3

(* A shift adds one character and changes at most the last one. *)
LEMMA ShiftedType ==
  ASSUME NEW out \in Seq(Glyphs), Len(out) > 0
  PROVE  /\ Shifted(out) \in Seq(Glyphs)
         /\ Len(Shifted(out)) = Len(out) + 1
         /\ Shifted(out)[Len(out)] = Underscore
         /\ Shifted(out)[Len(out) + 1] = out[Len(out)]
         /\ \A j \in 1 .. Len(out) - 1 : Shifted(out)[j] = out[j]
<1> PICK u \in Glyphs : u = Underscore
  BY DEF Glyphs
<1> DEFINE last == out[Len(out)]
           e == [out EXCEPT ![Len(out)] = u]
           res == Append(e, last)
<1>1. Len(out) \in 1 .. Len(out) /\ Len(out) \in Nat
  BY LenProperties
<1>2. last \in Glyphs
  BY <1>1, ElementOfSeq
<1>3. /\ e \in Seq(Glyphs) /\ Len(e) = Len(out)
      /\ \A j \in 1 .. Len(out) : e[j] = IF j = Len(out) THEN u ELSE out[j]
  BY <1>1, Replaced
<1>4. Shifted(out) = res
  BY DEF Shifted
<1> HIDE DEF e, last
<1>5. /\ res \in Seq(Glyphs) /\ Len(res) = Len(e) + 1
      /\ res[Len(e) + 1] = last
      /\ \A j \in 1 .. Len(e) : res[j] = e[j]
  BY <1>2, <1>3, Appended
<1> HIDE DEF res
<1>6. Len(res) = Len(out) + 1 /\ res[Len(out)] = u /\ res[Len(out) + 1] = last
  BY <1>1, <1>3, <1>5
<1>7. \A j \in 1 .. Len(out) - 1 : res[j] = out[j]
  BY <1>1, <1>3, <1>5
<1>8. QED
  BY <1>4, <1>5, <1>6, <1>7 DEF last

(* A turn of the loop in terms of positions: how much longer the class name
   gets, and which of its characters stay. *)
LEMMA Turn ==
  ASSUME NameInv, Copy
  PROVE  /\ name' \in Seq(Glyphs)
         /\ idlname' = idlname /\ inc' = inc + 1 /\ waslower' = idlname[inc].low
         /\ Len(name') = Len(Out) + (IF BeginsWord(Out) THEN 2 ELSE 1)
         /\ name'[Len(name')] = idlname[inc].glyph
         /\ BeginsWord(Out) => name'[Len(Out)] = Underscore
         /\ BeginsWord(Out) => name'[Len(Out) + 1] = Out[Len(Out)]
         /\ \A j \in 1 .. Len(Out) - 1 : name'[j] = Out[j]
         /\ ~BeginsWord(Out) => \A j \in 1 .. Len(Out) : name'[j] = Out[j]
<1>1. name # <<>> /\ inc \in 1 .. Len(idlname) /\ idlname[inc] \in Char
  BY ElementOfSeq DEF NameInv, NameTypes, Copy
<1>2. Out \in Seq(Glyphs) /\ Len(Out) \in Nat /\ Len(Out) > 0
  <2>1. name \in Seq(Glyphs) /\ Len(name) > 0
    BY <1>1 DEF NameInv, NameTypes, Lengths
  <2>2. QED
    BY <1>1, <2>1, PrefixType, LenProperties
<1> DEFINE g == idlname[inc].glyph
           text == IF BeginsWord(Out) THEN Shifted(Out) ELSE Out
<1>3. g \in Glyphs
  BY <1>1 DEF Char
<1>4. name' = Append(text, g)
  BY DEF Copy, Out
<1>5. idlname' = idlname /\ inc' = inc + 1 /\ waslower' = idlname[inc].low
  BY DEF Copy
<1>6. /\ text \in Seq(Glyphs)
      /\ Len(text) = Len(Out) + (IF BeginsWord(Out) THEN 1 ELSE 0)
      /\ BeginsWord(Out) => text[Len(Out)] = Underscore
      /\ BeginsWord(Out) => text[Len(Out) + 1] = Out[Len(Out)]
      /\ \A j \in 1 .. Len(Out) - 1 : text[j] = Out[j]
      /\ ~BeginsWord(Out) => \A j \in 1 .. Len(Out) : text[j] = Out[j]
  <2>1. CASE BeginsWord(Out)
    BY <1>2, <2>1, ShiftedType
  <2>2. CASE ~BeginsWord(Out)
    BY <1>2, <2>2
  <2>3. QED
    BY <2>1, <2>2
<1> HIDE DEF text, g
<1>7. /\ name' \in Seq(Glyphs) /\ Len(name') = Len(text) + 1
      /\ \A j \in 1 .. Len(text) : name'[j] = text[j]
      /\ name'[Len(text) + 1] = g
  BY <1>3, <1>4, <1>6, Appended
<1>8. /\ Len(name') = Len(Out) + (IF BeginsWord(Out) THEN 2 ELSE 1)
      /\ BeginsWord(Out) => name'[Len(Out)] = Underscore
      /\ BeginsWord(Out) => name'[Len(Out) + 1] = Out[Len(Out)]
  BY <1>2, <1>6, <1>7
<1>9. name'[Len(name')] = g
  BY <1>7
<1>10. /\ \A j \in 1 .. Len(Out) - 1 : name'[j] = Out[j]
       /\ ~BeginsWord(Out) => \A j \in 1 .. Len(Out) : name'[j] = Out[j]
  BY <1>2, <1>6, <1>7
<1>11. QED
  BY <1>5, <1>7, <1>8, <1>9, <1>10 DEF g

-----------------------------------------------------------------------------
(* What the steps below need of the state before a turn. *)
LEMMA Before ==
  ASSUME NameInv, Copy
  PROVE  /\ name # <<>> /\ name \in Seq(Glyphs) /\ Len(name) \in Nat
         /\ Len(idlname) \in Nat /\ inc \in 2 .. Len(idlname)
         /\ \A j \in 1 .. Len(idlname) : idlname[j].low \in BOOLEAN
         /\ waslower \in BOOLEAN
         /\ inc - 1 <= Len(name) /\ Len(name) <= 2 * (inc - 1) - 1
         /\ EndsHtml => inc = 5 /\ Len(name) = 4
<1>1. name # <<>> /\ name \in Seq(Glyphs) /\ Len(name) \in Nat
  BY LenProperties DEF NameInv, NameTypes, Copy
<1>2. Len(idlname) \in Nat /\ inc \in 2 .. Len(idlname)
  BY <1>1, LenProperties DEF NameInv, NameTypes, Lengths, Copy
<1>3. \A j \in 1 .. Len(idlname) : idlname[j] \in Char
  BY ElementOfSeq DEF NameInv, NameTypes
<1>4. inc - 1 <= Len(name) /\ Len(name) <= 2 * (inc - 1) - 1
  BY <1>1 DEF NameInv, Lengths
<1>5. ASSUME EndsHtml
      PROVE  inc = 5 /\ Len(name) = 4
  <2>1. inc = 5 /\ \A j \in 2 .. 4 : ~idlname[j].low
    BY <1>5 DEF EndsHtml, Html, Capital
  <2>2. QED
    BY <1>1, <2>1 DEF NameInv, Verbatim
<1>6. QED
  BY <1>1, <1>2, <1>3, <1>4, <1>5 DEF Char, NameInv, NameTypes

LEMMA CopyKeepsTypes ==
  ASSUME NameInv, Copy
  PROVE  NameTypes' /\ Lengths' /\ LastRead'
<1> USE Before, Turn
<1>1. NameTypes'
  BY DEF NameInv, NameTypes
<1>2. Len(Out) = Len(name) + (IF EndsHtml THEN 1 ELSE 0)
  BY PrefixType
<1>3. Len(name') <= 2 * inc - 1 /\ Len(name') >= inc
  <2>1. Len(name') = Len(Out) + 1 \/ Len(name') = Len(Out) + 2
    OBVIOUS
  <2>2. CASE EndsHtml
    <3>1. inc = 5 /\ Len(name) = 4
      BY <2>2
    <3>2. Len(Out) = 5
      BY <1>2, <2>2, <3>1
    <3>3. Len(name') = 6 \/ Len(name') = 7
      BY ONLY <2>1, <3>2
    <3>4. \A l : l = 6 \/ l = 7 => l <= 2 * inc - 1 /\ l >= inc
      BY ONLY <3>1
    <3>5. QED
      BY ONLY <3>3, <3>4, Zenon
  <2>3. CASE ~EndsHtml
    <3>1. Len(Out) = Len(name)
      BY <1>2, <2>3
    <3>2. /\ Len(name) \in Nat /\ inc \in Nat
          /\ inc - 1 <= Len(name) /\ Len(name) <= 2 * (inc - 1) - 1
      BY Before
    <3>3. QED
      BY ONLY <2>1, <3>1, <3>2
  <2>4. QED
    BY <2>2, <2>3
<1>4. name' # <<>>
  BY EmptySeq
<1>5. Lengths'
  <2>1. inc' = inc + 1 /\ idlname' = idlname /\ inc \in 2 .. Len(idlname) /\ Len(idlname) \in Nat
    OBVIOUS
  <2>2. QED
    BY ONLY <1>3, <1>4, <2>1 DEF Lengths
<1>6. LastRead'
  <2>1. idlname' = idlname /\ waslower' = idlname[inc].low /\ inc' = inc + 1
    OBVIOUS
  <2>2. inc \in Nat /\ inc >= 2
    OBVIOUS
  <2>3. inc' - 1 = inc /\ inc' # 2
    BY ONLY <2>1, <2>2
  <2>4. QED
    BY ONLY <2>1, <2>3 DEF LastRead
<1>7. QED
  BY <1>1, <1>5, <1>6

LEMMA CopyKeepsVerbatim ==
  ASSUME NameInv, Copy
  PROVE  Verbatim'
<1> SUFFICES ASSUME inc + 1 <= 5, \A j \in 2 .. inc : ~idlname[j].low
             PROVE  /\ Len(name') = inc
                    /\ \A j \in 1 .. inc : name'[j] = idlname[j].glyph
  <2>1. inc' = inc + 1 /\ inc' - 1 = inc /\ idlname' = idlname
    BY Before, Turn
  <2>2. QED
    BY <2>1 DEF Verbatim
<1>1. ~EndsHtml /\ Out = name
  BY Before, PrefixType
<1>2. ~BeginsWord(Out)
  BY Before DEF BeginsWord
<1>3. Len(name) = inc - 1 /\ \A j \in 1 .. inc - 1 : name[j] = idlname[j].glyph
  BY Before DEF NameInv, Verbatim
<1>4. Len(name') = inc /\ name'[inc] = idlname[inc].glyph
  BY <1>1, <1>2, <1>3, Before, Turn
<1>5. \A j \in 1 .. inc - 1 : name'[j] = idlname[j].glyph
  BY <1>1, <1>2, <1>3, Before, Turn
<1>6. inc \in Nat
  BY Before
<1>7. QED
  BY ONLY <1>4, <1>5, <1>6

LEMMA CopyKeepsFirst ==
  ASSUME NameInv, Copy
  PROVE  FirstKept'
<1>1. name[1] = idlname[1].glyph
  BY Before DEF NameInv, FirstKept
<1>2. Out[1] = name[1] /\ Len(Out) \in Nat /\ Len(Out) >= Len(name)
  BY Before, PrefixType
<1>3. name'[1] = Out[1]
  <2>1. CASE Len(Out) > 1
    BY <1>2, <2>1, Turn
  <2>2. CASE Len(Out) = 1
    <3>1. inc = 2
      BY <1>2, <2>2, Before
    <3>2. LastRead
      BY DEF NameInv
    <3>3. waslower
      BY ONLY <3>1, <3>2 DEF LastRead
    <3>4. ~BeginsWord(Out)
      BY ONLY <3>3 DEF BeginsWord
    <3>5. QED
      BY <2>2, <3>4, Turn
  <2>3. Len(name) >= 1
    BY Before
  <2>4. Len(name) \in Nat
    BY Before
  <2>5. QED
    BY ONLY <1>2, <2>1, <2>2, <2>3, <2>4
<1>4. QED
  BY <1>1, <1>2, <1>3, Turn DEF FirstKept

LEMMA CopyKeepsPrefix ==
  ASSUME NameInv, Copy
  PROVE  Prefix'
<1> SUFFICES ASSUME inc + 1 > 5, Html, ~idlname[5].low
             PROVE  /\ name'[1] = "h" /\ name'[2] = "t" /\ name'[3] = "m" /\ name'[4] = "l"
                    /\ \/ name'[5] = Underscore /\ Len(name') > 5
                       \/ /\ inc + 1 = 6 /\ Len(name') = 5
                          /\ inc + 1 <= Len(idlname) /\ idlname[inc + 1].low
  BY Before, Turn DEF Prefix, Html, Capital
<1>1. CASE inc = 5
  <2>1. \A j \in 2 .. 4 : ~idlname[j].low
    BY DEF Html, Capital
  <2>2. Len(name) = 4 /\ \A j \in 1 .. 4 : name[j] = idlname[j].glyph
    BY <1>1, <2>1, Before DEF NameInv, Verbatim
  <2>3. name[1] = "h" /\ name[2] = "t" /\ name[3] = "m" /\ name[4] = "l"
    BY <2>2 DEF Html, Capital
  <2>4. ~BeginsWord(Out)
    BY <1>1 DEF BeginsWord
  <2>5. CASE EndsHtml
    <3>1. Len(Out) = 5 /\ Out[5] = Underscore /\ \A j \in 1 .. 4 : Out[j] = name[j]
      <4>1. name # <<>>
        BY Before
      <4>2. /\ Len(Out) = Len(name) + 1 /\ Out[Len(Out)] = Underscore
            /\ \A j \in 1 .. Len(name) : Out[j] = name[j]
        BY <2>5, <4>1, PrefixType
      <4>3. QED
        BY ONLY <2>2, <4>2
    <3>2. Len(name') = 6 /\ \A j \in 1 .. 5 : name'[j] = Out[j]
      BY <2>4, <3>1, Turn
    <3>3. QED
      BY <2>3, <3>1, <3>2
  <2>6. CASE ~EndsHtml
    <3>1. Len(name') = 5 /\ \A j \in 1 .. 4 : name'[j] = name[j]
      <4>1. Out = name
        BY <2>6, Before, PrefixType
      <4>2. /\ Len(name') = Len(name) + 1
            /\ \A j \in 1 .. Len(name) : name'[j] = name[j]
        BY <2>4, <4>1, Turn
      <4>3. QED
        BY ONLY <2>2, <4>2
    <3>2. inc # Len(idlname) /\ idlname[inc + 1].low
      BY <1>1, <2>6 DEF EndsHtml
    <3>3. inc + 1 <= Len(idlname)
      BY <3>2, Before
    <3>4. QED
      BY ONLY <1>1, <2>3, <3>1, <3>2, <3>3
  <2>7. QED
    BY <2>5, <2>6
<1>2. CASE inc > 5
  <2>1. ~EndsHtml /\ Out = name
    BY <1>2, Before, PrefixType
  <2>2. name[1] = "h" /\ name[2] = "t" /\ name[3] = "m" /\ name[4] = "l"
    BY <1>2, Before DEF NameInv, Prefix
  <2>3. CASE name[5] = Underscore /\ Len(name) > 5
    <3>1. Len(name) \in Nat
      BY Before
    <3>2. /\ Len(name') = Len(name) + (IF BeginsWord(Out) THEN 2 ELSE 1)
          /\ \A j \in 1 .. Len(name) - 1 : name'[j] = name[j]
      BY <2>1, Turn
    <3>3. Len(name') > 5 /\ \A j \in 1 .. 5 : name'[j] = name[j]
      BY ONLY <2>3, <3>1, <3>2
    <3>4. QED
      BY ONLY <2>2, <2>3, <3>3
  <2>4. CASE inc = 6 /\ Len(name) = 5 /\ idlname[inc].low
    <3>1. ~waslower
      BY <2>4, Before DEF NameInv, LastRead
    <3>2. name[3] # Underscore
      BY <2>2 DEF Underscore
    <3>3. BeginsWord(Out)
      BY <2>1, <2>4, <3>1, <3>2 DEF BeginsWord
    <3>4. Len(name') = 7 /\ name'[5] = Underscore /\ \A j \in 1 .. 4 : name'[j] = name[j]
      BY <2>1, <2>4, <3>3, Turn
    <3>5. QED
      BY <2>2, <3>4
  <2>5. QED
    BY <1>2, <2>3, <2>4, Before DEF NameInv, Prefix
<1>3. QED
  BY <1>1, <1>2, Before

LEMMA FirstKeepsInv ==
  ASSUME NameInv, First
  PROVE  NameInv'
<1> DEFINE g == idlname[1].glyph
<1>1. idlname \in Seq(Char) /\ Len(idlname) \in Nat /\ Len(idlname) >= 1
  BY EmptySeq, LenProperties DEF NameInv, NameTypes, First
<1>2. g \in Glyphs
  <2>1. idlname[1] \in Char
    BY <1>1, ElementOfSeq
  <2>2. QED
    BY <2>1 DEF Char
<1>3. name' = <<g>> /\ inc' = 2 /\ idlname' = idlname /\ waslower' = waslower
  BY DEF First
<1> HIDE DEF g
<1>4. name' \in Seq(Glyphs) /\ name' # <<>> /\ Len(name') = 1 /\ name'[1] = g
  <2>1. <<g>> \in Seq(Glyphs) /\ Len(<<g>>) = 1 /\ <<g>>[1] = g
    BY <1>2
  <2>2. QED
    BY <1>3, <2>1, EmptySeq
<1>5. waslower
  BY DEF NameInv, Lengths, First
<1>6. NameTypes' /\ Lengths'
  BY <1>1, <1>3, <1>4, <1>5 DEF NameInv, NameTypes, Lengths
<1>7. LastRead' /\ Prefix'
  BY <1>3, <1>5 DEF LastRead, Prefix
<1>8. Verbatim' /\ FirstKept'
  BY <1>3, <1>4 DEF Verbatim, FirstKept, g
<1>9. QED
  BY <1>6, <1>7, <1>8 DEF NameInv

(* The inductive invariant holds. *)
THEOREM NameInvariant == NameSpec => []NameInv
<1>1. NameInit => NameInv
  BY EmptySeq DEF NameInit, InitWith, NameInv, NameTypes, Lengths, LastRead, Verbatim, FirstKept, Prefix
<1>2. NameInv /\ [NameNext]_namevars => NameInv'
  <2>1. ASSUME NameInv, First PROVE NameInv'
    BY <2>1, FirstKeepsInv
  <2>2. ASSUME NameInv, Copy PROVE NameInv'
    BY <2>2, CopyKeepsTypes, CopyKeepsVerbatim, CopyKeepsFirst, CopyKeepsPrefix DEF NameInv
  <2>3. ASSUME NameInv, UNCHANGED namevars PROVE NameInv'
    BY <2>3 DEF namevars, NameInv, NameTypes, Lengths, LastRead, Verbatim, FirstKept, Prefix, Html, Capital
  <2>4. QED
    BY <2>1, <2>2, <2>3 DEF NameNext
<1>3. QED
  BY <1>1, <1>2, PTL DEF NameSpec

(* For names of any length the buffer of twice their length has room for
   the class name and its terminator. *)
THEOREM Fits == NameSpec => []FitsBuffer
<1>1. NameInv => FitsBuffer
  <2> SUFFICES ASSUME NameInv, name # <<>> PROVE Len(name) + 1 <= Allocated
    BY DEF FitsBuffer
  <2>1. Len(name) \in Nat /\ Len(idlname) \in Nat /\ inc \in Nat
    BY LenProperties DEF NameInv, NameTypes
  <2>2. QED
    BY <2>1 DEF NameInv, Lengths, Allocated
<1>2. QED
  BY <1>1, NameInvariant, PTL

(* A class name begins with the first character of the IDL name. *)
THEOREM BeginsAlike == NameSpec => []FirstKept
<1>1. NameInv => FirstKept
  BY DEF NameInv
<1>2. QED
  BY <1>1, NameInvariant, PTL

(* The class name of an IDL name of HTML and a capital begins with html_. *)
THEOREM HtmlFirst == NameSpec => []HtmlPrefixed
<1>1. NameInv => HtmlPrefixed
  <2> SUFFICES ASSUME NameInv, Converted, Html, Len(idlname) > 4, ~idlname[5].low
               PROVE  Len(name) > 5 /\ name[1] = "h" /\ name[2] = "t" /\ name[3] = "m"
                                    /\ name[4] = "l" /\ name[5] = Underscore
    BY DEF HtmlPrefixed
  <2>1. Len(idlname) \in Nat /\ inc \in Nat /\ inc > Len(idlname) /\ name # <<>>
    BY LenProperties DEF NameInv, NameTypes, Converted
  <2>2. QED
    BY <2>1 DEF NameInv, Prefix
<1>2. QED
  BY <1>1, NameInvariant, PTL

-----------------------------------------------------------------------------
(* The last character of the IDL name went to the end of the class name. *)
LettersInv == name # <<>> => \E to : Embeds(to, inc - 1) /\ to[inc - 1] = Len(name)

(* Where a turn puts the last character but one: p, at most one place on. *)
LEMMA LastMoves ==
  ASSUME NameInv, Copy
  PROVE  \E p \in {Len(name), Len(name) + 1} :
           /\ p < Len(name') /\ name'[p] = name[Len(name)]
           /\ \A k \in 1 .. Len(name) - 1 : name'[k] = name[k]
           /\ \A k \in Len(name) .. Len(name') - 1 : k # p => name'[k] = Underscore
<1> DEFINE L == Len(name)
<1>1. L \in Nat /\ L > 0 /\ name # <<>>
  BY Before
<1>2. CASE ~EndsHtml /\ ~BeginsWord(Out)
  <2>1. Out = name
    BY <1>1, <1>2, PrefixType
  <2>2. Len(name') = L + 1 /\ \A j \in 1 .. L : name'[j] = name[j]
    BY <1>2, <2>1, Turn
  <2>3. QED
    BY ONLY <1>1, <2>2
<1>3. CASE ~EndsHtml /\ BeginsWord(Out)
  <2>1. Out = name
    BY <1>1, <1>3, PrefixType
  <2>2. /\ Len(name') = L + 2 /\ name'[L] = Underscore /\ name'[L + 1] = name[L]
        /\ \A j \in 1 .. L - 1 : name'[j] = name[j]
    BY <1>3, <2>1, Turn
  <2>3. QED
    BY ONLY <1>1, <2>2
<1>4. CASE EndsHtml
  <2>1. /\ Len(Out) = L + 1 /\ Out[L + 1] = Underscore
        /\ \A j \in 1 .. L : Out[j] = name[j]
    BY <1>1, <1>4, PrefixType
  <2>2. CASE ~BeginsWord(Out)
    <3>1. Len(name') = L + 2 /\ \A j \in 1 .. L + 1 : name'[j] = Out[j]
      BY <2>1, <2>2, Turn
    <3>2. QED
      BY ONLY <1>1, <2>1, <3>1
  <2>3. CASE BeginsWord(Out)
    <3>1. /\ Len(name') = L + 3
          /\ name'[L + 1] = Underscore /\ name'[L + 2] = Underscore
          /\ \A j \in 1 .. L : name'[j] = Out[j]
      BY <1>1, <2>1, <2>3, Turn
    <3>2. QED
      BY ONLY <1>1, <2>1, <3>1
  <2>4. QED
    BY <2>2, <2>3
<1>5. QED
  BY <1>2, <1>3, <1>4

LEMMA CopyKeepsLetters ==
  ASSUME NameInv, LettersInv, Copy
  PROVE  LettersInv'
<1> DEFINE L == Len(name)
           n == inc - 1
           M == Len(name')
<1>1. /\ L \in Nat /\ L > 0 /\ n \in Nat /\ n > 0 /\ inc = n + 1
      /\ name # <<>> /\ inc' - 1 = inc /\ idlname' = idlname
      /\ name' \in Seq(Glyphs) /\ M \in Nat /\ name'[M] = idlname[inc].glyph
  <2>1. L \in Nat /\ L > 0 /\ n \in Nat /\ n > 0 /\ inc = n + 1 /\ name # <<>>
    BY Before
  <2>2. inc' = inc + 1 /\ idlname' = idlname /\ name' \in Seq(Glyphs) /\ name'[M] = idlname[inc].glyph
    BY Turn
  <2>3. M \in Nat
    BY <2>2, LenProperties
  <2>4. inc' - 1 = inc
    BY <2>1, <2>2
  <2>5. QED
    BY <2>1, <2>2, <2>3, <2>4
<1>2. PICK to : Embeds(to, n) /\ to[n] = L
  BY <1>1 DEF LettersInv
<1>3. PICK p \in {L, L + 1} :
        /\ p < M /\ name'[p] = name[L]
        /\ \A k \in 1 .. L - 1 : name'[k] = name[k]
        /\ \A k \in L .. M - 1 : k # p => name'[k] = Underscore
  BY LastMoves
<1> DEFINE new == [i \in 1 .. inc |-> IF i = inc THEN M ELSE IF i = n THEN p ELSE to[i]]
<1>4. /\ \A i \in 1 .. n : to[i] \in 1 .. L
      /\ \A i, j \in 1 .. n : i < j => to[i] < to[j]
      /\ \A i \in 1 .. n : name[to[i]] = idlname[i].glyph
      /\ \A k \in 1 .. L : name[k] = Underscore \/ \E i \in 1 .. n : to[i] = k
  BY <1>2 DEF Embeds
<1> HIDE DEF L, M, n
<1>5. /\ new[inc] = M /\ new[n] = p
      /\ \A i \in 1 .. n - 1 : new[i] = to[i] /\ to[i] \in 1 .. L - 1
  <2>1. inc \in 1 .. inc /\ n \in 1 .. inc /\ n # inc
    BY <1>1
  <2>2. ASSUME NEW i \in 1 .. n - 1
        PROVE  i \in 1 .. n /\ i \in 1 .. inc /\ i # n /\ i # inc /\ n \in 1 .. n /\ i < n
    BY <1>1
  <2>3. ASSUME NEW i \in 1 .. n - 1
        PROVE  new[i] = to[i] /\ to[i] \in 1 .. L - 1
    <3>1. to[i] \in 1 .. L /\ to[i] < to[n]
      BY <1>4, <2>2
    <3>2. QED
      BY <1>1, <1>2, <2>2, <3>1
  <2>4. QED
    BY <2>1, <2>3
<1>6. new \in [1 .. inc -> 1 .. M]
  BY <1>1, <1>3, <1>4
<1> HIDE DEF new
<1>7. ASSUME NEW i \in 1 .. inc, NEW j \in 1 .. inc, i < j
      PROVE  new[i] < new[j]
  <2>1. CASE j = inc
    BY <1>1, <1>3, <1>5, <1>7, <2>1, SMTT(30)
  <2>2. CASE j = n
    BY <1>1, <1>3, <1>5, <1>7, <2>2
  <2>3. CASE j < n
    <3>1. i \in 1 .. n - 1 /\ j \in 1 .. n - 1
      BY <1>1, <1>7, <2>3
    <3>2. QED
      BY <1>1, <1>4, <1>5, <1>7, <3>1
  <2>4. QED
    BY <1>1, <2>1, <2>2, <2>3
<1>8. ASSUME NEW i \in 1 .. inc
      PROVE  name'[new[i]] = idlname[i].glyph
  <2>1. CASE i = inc
    BY <1>1, <1>5, <2>1
  <2>2. CASE i = n
    <3>1. n \in 1 .. n
      BY <1>1
    <3>2. QED
      BY <1>2, <1>3, <1>4, <1>5, <2>2, <3>1
  <2>3. CASE i < n
    <3>1. i \in 1 .. n - 1 /\ i \in 1 .. n
      BY <1>1, <1>8, <2>3
    <3>2. QED
      BY <1>3, <1>4, <1>5, <3>1
  <2>4. QED
    BY <1>1, <2>1, <2>2, <2>3
<1>9. ASSUME NEW k \in 1 .. M, name'[k] # Underscore
      PROVE  \E i \in 1 .. inc : new[i] = k
  <2>1. CASE k = M
    BY <1>1, <1>5, <2>1
  <2>2. CASE k \in L .. M - 1
    <3>1. k = p
      BY <1>3, <1>9, <2>2
    <3>2. QED
      BY <1>1, <1>5, <3>1
  <2>3. CASE k < L
    <3>1. k \in 1 .. L - 1 /\ k \in 1 .. L
      BY <1>1, <1>9, <2>3
    <3>2. PICK i \in 1 .. n : to[i] = k
      BY <1>3, <1>4, <1>9, <3>1
    <3>3. i # n
      BY <1>1, <1>2, <2>3, <3>2
    <3>4. i \in 1 .. n - 1 /\ i \in 1 .. inc
      BY <1>1, <3>3
    <3>5. QED
      BY <1>5, <3>2, <3>4
  <2>4. QED
    BY <1>1, <2>1, <2>2, <2>3
<1>10. \A k \in 1 .. M : name'[k] = Underscore \/ \E i \in 1 .. inc : new[i] = k
  BY <1>9
<1>11. PICK f : f = new
  OBVIOUS
<1>12. /\ f \in [1 .. inc' - 1 -> 1 .. Len(name')] /\ f[inc' - 1] = Len(name')
       /\ \A i \in 1 .. inc' - 1 : name'[f[i]] = idlname'[i].glyph
       /\ \A k \in 1 .. Len(name') : name'[k] = Underscore \/ \E i \in 1 .. inc' - 1 : f[i] = k
  BY <1>1, <1>5, <1>6, <1>8, <1>10, <1>11 DEF M
<1>13. \A i, j \in 1 .. inc' - 1 : i < j => f[i] < f[j]
  BY <1>1, <1>7, <1>11
<1>14. QED
  BY ONLY <1>12, <1>13 DEF LettersInv, Embeds

(* Two interfaces of one class name differ in case and underscores only. *)
THEOREM NothingLost == NameSpec => []LettersKept
<1>1. NameInit => LettersInv
  BY DEF NameInit, InitWith, LettersInv
<1>2. NameInv /\ LettersInv /\ [NameNext]_namevars => LettersInv'
  <2>1. ASSUME NameInv, First PROVE LettersInv'
    <3> DEFINE to == [i \in 1 .. 1 |-> 1]
    <3>1. /\ name' = <<idlname[1].glyph>> /\ inc' = 2 /\ inc' - 1 = 1 /\ idlname' = idlname
          /\ Len(name') = 1 /\ name'[1] = idlname[1].glyph
      BY <2>1 DEF First
    <3>2. /\ to \in [1 .. 1 -> 1 .. Len(name')] /\ to[1] = Len(name')
          /\ \A i, j \in 1 .. 1 : i < j => to[i] < to[j]
          /\ \A i \in 1 .. 1 : name'[to[i]] = idlname'[i].glyph
          /\ \A k \in 1 .. Len(name') : \E i \in 1 .. 1 : to[i] = k
      BY <3>1
    <3> HIDE DEF to
    <3>3. \E f : Embeds(f, 1)' /\ f[1] = Len(name')
      BY <3>2 DEF Embeds
    <3>4. QED
      BY <3>1, <3>3 DEF LettersInv
  <2>2. ASSUME NameInv, LettersInv, Copy PROVE LettersInv'
    BY <2>2, CopyKeepsLetters
  <2>3. ASSUME LettersInv, UNCHANGED namevars PROVE LettersInv'
    BY <2>3 DEF namevars, LettersInv, Embeds
  <2>4. QED
    BY <2>1, <2>2, <2>3 DEF NameNext
<1>3. LettersInv => LettersKept
  BY DEF LettersInv, LettersKept
<1>4. QED
  BY <1>1, <1>2, <1>3, NameInvariant, PTL DEF NameSpec
=============================================================================

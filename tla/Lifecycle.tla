------------------------------ MODULE Lifecycle -------------------------------
(***************************************************************************)
(* The generated C at run time: the prototypes that binding.c creates and  *)
(* one object, from its constructor to its finaliser.  The program is what *)
(* a run of the tool (Driver) left behind, linked if the linker finds all  *)
(* that is called and the calls have as many arguments as they need.       *)
(*                                                                         *)
(* The Duktape engine, which runs prototype creation under a safe call,    *)
(* unwinds a constructor that throws and drops what a finaliser throws,    *)
(* and the author's code in the binding, which may throw, are external.    *)
(* Objects do not share private data, so that one stands for all of them.  *)
(***************************************************************************)
EXTENDS Driver

CONSTANT MaxFaults  \* bound on failed allocations and errors thrown, together

ASSUME MaxFaultsAssumption == MaxFaults \in Nat

VARIABLES
  created,   \* prototypes of binding.c tried so far
  chain,     \* chain[k]: prototype of the prototype of k, -1 for none,
             \* Null while k has no prototype
  injected,  \* injected[i]: whether interface i is injected into the primary
             \* global with a prototype, Null before
  object,    \* class of the object
  priv,      \* its private data: "none", "live" or "freed"
  phase,     \* "none", "init", "made", "fini" or "gone"
  calls,     \* active initialisers or finaliser: the class, and what is next
  inits,     \* classes whose init code has run to its end, in order
  finis,     \* classes whose fini code has run to its end, in order
  faults     \* used up of MaxFaults

prototypes == <<created, chain, injected>>
life == <<object, priv, phase, calls, inits, finis>>
all == <<vars, driver, prototypes, life, faults>>

-----------------------------------------------------------------------------
LifecycleInit == /\ DriverInit
                 /\ created = 0
                 /\ chain = [k \in Idx |-> Null]
                 /\ injected = Null
                 /\ object = Null
                 /\ priv = "none"
                 /\ phase = "none"
                 /\ calls = <<>>
                 /\ inits = <<>> /\ finis = <<>>
                 /\ faults = 0

(* the compiler and the linker accept the files of the run, all of which
   reached the disk *)
Built == /\ exit = 0
         /\ ~lost
         /\ \A k \in Callers : /\ source[source[k].call] # Null
                               /\ Len(source[k].passes) = source[source[k].call].init_argc

Fault == faults < MaxFaults /\ faults' = faults + 1

Registered == {k \in Idx : chain[k] # Null}

(* the prototype of the parent is looked up by name; if it failed, the
   lookup gives undefined, which is no prototype *)
Chained(k) == IF inherit_idx[k] \in Registered THEN inherit_idx[k] ELSE -1

(* output_global_create_prototype: every generated interface is injected, with
   what the lookup of its prototype gives, the global itself with its own *)
Injected(k) == [i \in Interfaces |-> i = k \/ i \in Registered]

(* dukky_create_prototypes calls the next dukky_create_prototype *)
CreatePrototype ==
  /\ Built /\ created < Len(binding)
  /\ LET k == binding[created + 1]
     IN  /\ chain' = [chain EXCEPT ![k] = Chained(k)]
         /\ injected' = IF primary_global[k] THEN Injected(k) ELSE injected
  /\ created' = created + 1
  /\ UNCHANGED <<vars, driver, life, faults>>

(* the safe call fails: a warning, and on to the next *)
PrototypeFails == /\ Built /\ created < Len(binding)
                  /\ Fault
                  /\ created' = created + 1
                  /\ UNCHANGED <<vars, driver, chain, injected, life>>

(* the constructor of a registered class: private data, zeroed, is attached
   before the initialiser is called *)
Construct(k) == /\ Built /\ created = Len(binding)
                /\ phase = "none" /\ k \in Registered
                /\ object' = k
                /\ priv' = "live"
                /\ phase' = "init"
                /\ calls' = <<[class |-> k, at |-> "parent"]>>
                /\ UNCHANGED <<vars, driver, prototypes, inits, finis, faults>>

ConstructFails(k) == /\ Built /\ created = Len(binding)
                     /\ phase = "none" /\ k \in Registered
                     /\ Fault
                     /\ object' = k
                     /\ phase' = "made"
                     /\ UNCHANGED <<vars, driver, prototypes, priv, calls, inits, finis>>

top == Last(calls)

(* mistake: the author's code comes first *)
CallParentInitLast ==
  /\ phase = "init" /\ calls # <<>> /\ top.at = "parent"
  /\ LET p == source[top.class].call
     IN  calls' = IF p = Null THEN [calls EXCEPT ![Len(calls)].at = "code"]
                  ELSE Front(calls) \o <<[class |-> p, at |-> "parent"],
                                         [class |-> top.class, at |-> "code"]>>
  /\ UNCHANGED <<vars, driver, prototypes, object, priv, phase, inits, finis, faults>>

(* the generated initialiser calls that of the parent, if there is one *)
CallParentInit ==
  /\ phase = "init" /\ calls # <<>> /\ top.at = "parent"
  /\ LET p == source[top.class].call
         next == [calls EXCEPT ![Len(calls)].at = "code"]
     IN  calls' = IF p = Null THEN next
                  ELSE Append(next, [class |-> p, at |-> "parent"])
  /\ UNCHANGED <<vars, driver, prototypes, object, priv, phase, inits, finis, faults>>

InitCode == /\ phase = "init" /\ calls # <<>> /\ top.at = "code"
            /\ inits' = Append(inits, top.class)
            /\ calls' = Front(calls)
            /\ UNCHANGED <<vars, driver, prototypes, object, priv, phase, finis, faults>>

(* the code throws out of all initialisers; the object keeps its data *)
InitThrows == /\ phase = "init" /\ calls # <<>> /\ top.at = "code"
              /\ Fault
              /\ calls' = <<>>
              /\ phase' = "made"
              /\ UNCHANGED <<vars, driver, prototypes, object, priv, inits, finis>>

ConstructEnd == /\ phase = "init" /\ calls = <<>>
                /\ phase' = "made"
                /\ UNCHANGED <<vars, driver, prototypes, object, priv, calls, inits, finis, faults>>

(* the object is collected: the destructor of its own class, which does
   nothing without private data *)
Destruct ==
  /\ phase = "made"
  /\ IF priv = "none"
     THEN phase' = "gone" /\ UNCHANGED calls
     ELSE phase' = "fini" /\ calls' = <<[class |-> object, at |-> "code"]>>
  /\ UNCHANGED <<vars, driver, prototypes, object, priv, inits, finis, faults>>

(* mistake: the finaliser of the parent is left to the parent's destructor *)
FiniCodeOnly == /\ phase = "fini" /\ calls # <<>>
                /\ finis' = Append(finis, top.class)
                /\ calls' = <<>>
                /\ UNCHANGED <<vars, driver, prototypes, object, priv, phase, inits, faults>>

(* the author's code and, as the last thing, the finaliser of the parent *)
FiniCode ==
  /\ phase = "fini" /\ calls # <<>>
  /\ finis' = Append(finis, top.class)
  /\ calls' = IF source[top.class].call = Null THEN <<>>
              ELSE <<[class |-> source[top.class].call, at |-> "code"]>>
  /\ UNCHANGED <<vars, driver, prototypes, object, priv, phase, inits, faults>>

FiniThrows == /\ phase = "fini" /\ calls # <<>>
              /\ Fault
              /\ calls' = <<>>
              /\ phase' = "gone"
              /\ UNCHANGED <<vars, driver, prototypes, object, priv, inits, finis>>

FreePrivate == /\ phase = "fini" /\ calls = <<>>
               /\ priv' = "freed"
               /\ phase' = "gone"
               /\ UNCHANGED <<vars, driver, prototypes, object, calls, inits, finis, faults>>

LifecycleNext ==
  \/ DriverNext /\ UNCHANGED <<prototypes, life, faults>>
  \/ CreatePrototype \/ PrototypeFails
  \/ \E k \in Idx : Construct(k) \/ ConstructFails(k)
  \/ CallParentInit \/ InitCode \/ InitThrows \/ ConstructEnd
  \/ Destruct \/ FiniCode \/ FiniThrows \/ FreePrivate

LifecycleSpec == LifecycleInit /\ [][LifecycleNext]_all

-----------------------------------------------------------------------------
(* an entry and those it inherits from, as the IDL has it, child first *)
Lineage[k \in Idx] ==
  <<k>> \o IF inherit_idx[k] = -1 THEN <<>> ELSE Lineage[inherit_idx[k]]

(* dukky_instanceof of an object of k: the walk along the prototypes *)
Walk[k \in Idx] == {k} \cup IF chain[k] \in Idx THEN Walk[chain[k]] ELSE {}
InstanceOf(k, a) == a \in Registered \cap Walk[k]

(* Prototype creation never stops at a failure, and an object is then an
   instance of its ancestors as far as no prototype between has failed; the
   primary global knows all interfaces, each with its prototype if that was
   created. *)
InstanceOfAncestors ==
  Built /\ created = Len(binding) /\ ChildlessGlobal /\ OneGlobal =>
    /\ \A k \in Registered : \A n \in DOMAIN Lineage[k] :
         InstanceOf(k, Lineage[k][n])
           <=> \A m \in 1 .. n : Lineage[k][m] \in Registered
    /\ \A k \in Registered :
         primary_global[k] => injected = [i \in Interfaces |-> i \in Registered]

(* "hence the entire ancestry will be initialised" (README:286-288): before
   the code of a class runs, that of all its ancestors has, from the root
   on, and a constructor that ends without an error leaves out nobody. *)
AncestryInitialised ==
  /\ \A n \in DOMAIN inits :
       SubSeq(inits, 1, n) = Reverse(Lineage[inits[n]])
  /\ phase = "made" /\ faults = 0 => inits = Reverse(Lineage[object])

(* "The parent finalizer is called" (README:321-322): of an object that has
   private data the finalisers run from its own class to the root, whether
   or not its initialisers have, and the data is freed after the last of
   them, unless one throws. *)
FinalisedToTheRoot ==
  /\ phase \in {"fini", "gone"} => IsPrefix(finis, Lineage[object])
  /\ priv = "freed" => finis = Lineage[object]
  /\ phase = "gone" /\ faults = 0 => priv = "freed"
=============================================================================

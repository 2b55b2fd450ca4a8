----------------------------- MODULE LibdomOutput -----------------------------
(***************************************************************************)
(* duk_libdom_output (duk-libdom.c, duk-libdom-interface.c): from the      *)
(* sorted entry map to the generated C sources.  The files are written one *)
(* after the other and the first failure ends the run; a killed run is a   *)
(* behaviour that stops between two steps.                                 *)
(*                                                                         *)
(* The generated files are modelled by what they say of one another: which *)
(* structure embeds which, which initialiser is exported, declared and     *)
(* called with which parameters, which prototype is created after which.   *)
(* That is where an entry map that is out of order, or a count that is     *)
(* off, turns into C that does not build or does not run.                  *)
(*                                                                         *)
(* The map is what EntrySort hands out (ParentsFirst, SortedRefcountExact) *)
(* and a parent is of the kind of its child.  Class names are taken to be  *)
(* distinct, so an entry stands for its class and its file.                *)
(***************************************************************************)
EXTENDS Integers, SequencesExt, Selection

CONSTANTS
  N,        \* ir->entryc
  Params,   \* the parameter lists that an init method may have
  Null      \* no alias, no call, a file that this run has not written

ASSUME NAssumption == N \in Nat \ {0}

ASSUME ParamsAssumption == \A list \in Params : list \in Seq(ToSet(list))

Idx == 0 .. N-1

(* what a class file, private.h and prototype.h say of one another *)
SourceFile ==
  [static : BOOLEAN, init_argc : Nat, call : Idx \cup {Null},
   passes : Seq(UNION {ToSet(list) : list \in Params}), torn : BOOLEAN]
    \cup [torn : BOOLEAN, call : {Null}]
Struct == [class : Idx, parent : Idx \cup {-1}]
Declaration == [class : Idx, exported : BOOLEAN, init_argc : Nat]

(* Null is no number and nothing that a file may hold. *)
ASSUME NullAssumption ==
  Null \notin Int \cup {"written"} \cup SourceFile
                \cup Seq(Struct) \cup Seq(Declaration) \cup Seq(Idx)

VARIABLES
  type,            \* "interface" or "dictionary"
  noobject,        \* marked NoInterfaceObject
  primary_global,  \* marked PrimaryGlobal
  inherit_idx,     \* parent entry or -1
  refcount,        \* entries that inherit from the entry
  init,            \* init[k]: parameters of its init method
  source,          \* source[k]: the class file
  private,         \* the structures of private.h, in order
  prototype,       \* the interface declarations of prototype.h
  binding_h,       \* whether binding.h is written
  binding,         \* the prototype creations of binding.c, in order
  makefile,        \* the sources listed
  lost,            \* whether output that was generated is not on the disk
  idx,             \* entry whose class file is next
  pc               \* file that is next, or "done", "failed", "crashed"

map == <<type, noobject, primary_global, inherit_idx, refcount, init>>
files == <<source, private, prototype, binding_h, binding, makefile>>
vars == <<map, files, lost, idx, pc>>

-----------------------------------------------------------------------------
Interface(k) == type[k] = "interface"
Generated(k) == ~(Interface(k) /\ noobject[k])

(* the entries, in map order, that the loops over the map do not skip *)
GeneratedSeq == Selected([n \in 1 .. N |-> n-1], {k \in Idx : Generated(k)})
InterfaceSeq == Selected(GeneratedSeq, {k \in Idx : Interface(k)})
Interfaces == {k \in Idx : Interface(k) /\ Generated(k)}

(* mistake: a parameter is only found under its own identifier *)
NamesOwn(param, id) == param.id = id

(* genbind_node_find_type_ident finds a parameter under its identifier or
   under the alias that follows it in the binding *)
Names(param, id) == id \in {param.id, param.alias}

(* the parameters of entry k that match the identifier of parameter x *)
Matching(k, x) == Selected(init[k], {y \in ToSet(init[k]) : Names(y, x.id)})

(* output_interface_inherit_init looks for the next parameter of the parent
   among its METHOD nodes and finds none: only the first is passed *)
Wanted(k) == IF inherit_idx[k] = -1 \/ init[inherit_idx[k]] = <<>> THEN <<>>
             ELSE <<Head(init[inherit_idx[k]])>>

Init == /\ type \in [Idx -> {"interface", "dictionary"}]
        /\ noobject \in [Idx -> BOOLEAN]
        /\ primary_global \in [Idx -> BOOLEAN]
        /\ \A k \in Idx : type[k] = "dictionary" => ~noobject[k] /\ ~primary_global[k]
        /\ inherit_idx \in [Idx -> Idx \cup {-1}]
        /\ \A k \in Idx : inherit_idx[k] < k
        /\ \A k \in Idx : inherit_idx[k] # -1 => type[inherit_idx[k]] = type[k]
        /\ refcount = [p \in Idx |-> Cardinality({k \in Idx : inherit_idx[k] = p})]
        /\ init \in [Idx -> Params]
        /\ source = [k \in Idx |-> Null]
        /\ private = Null
        /\ prototype = Null
        /\ binding_h = Null
        /\ binding = Null
        /\ makefile = Null
        /\ lost = FALSE
        /\ idx = 0
        /\ pc = "classes"

(* mistake: exported only for more than one inheriting entry *)
StaticUnlessTwo(k) == refcount[k] <= 1

(* only an entry nobody inherits from keeps its initialiser to itself *)
Static(k) == refcount[k] = 0

(* the class file of an interface: Static is said of the initialiser and of
   the finaliser, init_argc of the initialiser; call is the class whose
   initialiser and finaliser are called and passes the parameters given to
   the initialiser *)
Source(k) ==
  LET torn == \E n \in DOMAIN Wanted(k) : Matching(k, Wanted(k)[n]) = <<>>
  IN  [static |-> Static(k),
       init_argc |-> Len(init[k]),
       call |-> IF inherit_idx[k] = -1 THEN Null ELSE inherit_idx[k],
       passes |-> IF torn THEN <<>>
                  ELSE [n \in DOMAIN Wanted(k) |-> Head(Matching(k, Wanted(k)[n]))],
       torn |-> torn]

(* genb_fclose_tmp: nobody looks at the result of fwrite, fputc, remove and
   rename, so that a file may be truncated or not get its name, and the run
   goes on (OutputFile has the steps) *)
Close == lost' \in {lost, TRUE}

(* mistake: the failure of a class is not passed on *)
OutputInterfaceRegardless ==
  /\ pc = "classes" /\ idx < N
  /\ Interface(idx) /\ Generated(idx)
  /\ source' = [source EXCEPT ![idx] = Source(idx)]
  /\ Close
  /\ idx' = idx + 1
  /\ UNCHANGED <<map, private, prototype, binding_h, binding, makefile, pc>>

(* a parameter the parent wants and the class lacks ends the run; what is
   written by then is closed like any file and replaces the old one *)
OutputInterface ==
  /\ pc = "classes" /\ idx < N
  /\ Interface(idx) /\ Generated(idx)
  /\ source' = [source EXCEPT ![idx] = Source(idx)]
  /\ Close
  /\ IF Source(idx).torn
     THEN pc' = "failed" /\ UNCHANGED idx
     ELSE idx' = idx + 1 /\ UNCHANGED pc
  /\ UNCHANGED <<map, private, prototype, binding_h, binding, makefile>>

(* a constant that is no integer literal: the prototype takes it for one,
   and the run is gone before the file is closed *)
ConstantCrashes ==
  /\ pc = "classes" /\ idx < N
  /\ Interface(idx) /\ Generated(idx)
  /\ ~Source(idx).torn
  /\ pc' = "crashed"
  /\ UNCHANGED <<map, files, lost, idx>>

(* torn likewise if the default of a member does not match its type *)
OutputDictionary ==
  /\ pc = "classes" /\ idx < N
  /\ ~Interface(idx)
  /\ \E torn \in BOOLEAN :
       /\ source' = [source EXCEPT ![idx] = [torn |-> torn, call |-> Null]]
       /\ Close
       /\ IF torn THEN pc' = "failed" /\ UNCHANGED idx
                  ELSE idx' = idx + 1 /\ UNCHANGED pc
  /\ UNCHANGED <<map, private, prototype, binding_h, binding, makefile>>

SkipNoObject == /\ pc = "classes" /\ idx < N
                /\ ~Generated(idx)
                /\ idx' = idx + 1
                /\ UNCHANGED <<map, files, lost, pc>>

ClassesEnd == /\ pc = "classes" /\ idx = N
              /\ pc' = "private"
              /\ UNCHANGED <<map, files, lost, idx>>

(* mistake: the structures are written from the end of the map *)
PrivateBackwards ==
  /\ pc = "private"
  /\ private' = Reverse([n \in DOMAIN GeneratedSeq |->
        [class |-> GeneratedSeq[n], parent |-> inherit_idx[GeneratedSeq[n]]]])
  /\ Close
  /\ pc' = "prototype"
  /\ UNCHANGED <<map, source, prototype, binding_h, binding, makefile, idx>>

OutputPrivateHeader ==
  /\ pc = "private"
  /\ private' = [n \in DOMAIN GeneratedSeq |->
        [class |-> GeneratedSeq[n], parent |-> inherit_idx[GeneratedSeq[n]]]]
  /\ Close
  /\ pc' = "prototype"
  /\ UNCHANGED <<map, source, prototype, binding_h, binding, makefile, idx>>

(* the prototype builder of every generated interface and, if something
   inherits from it, its initialiser and finaliser *)
OutputPrototypeHeader ==
  /\ pc = "prototype"
  /\ prototype' = [n \in DOMAIN InterfaceSeq |->
        LET k == InterfaceSeq[n]
        IN  [class |-> k, exported |-> refcount[k] >= 1, init_argc |-> Len(init[k])]]
  /\ Close
  /\ pc' = "binding_h"
  /\ UNCHANGED <<map, source, private, binding_h, binding, makefile, idx>>

OutputBindingHeader ==
  /\ pc = "binding_h"
  /\ binding_h' = "written"
  /\ Close
  /\ pc' = "binding"
  /\ UNCHANGED <<map, source, private, prototype, binding, makefile, idx>>

(* mistake: the primary global takes its turn in the map *)
GlobalInTurn == InterfaceSeq

(* the primary global is kept back and created last; of several, the last *)
Creations ==
  LET globals == Selected(InterfaceSeq, {k \in Idx : primary_global[k]})
  IN  Selected(InterfaceSeq, {k \in Idx : ~primary_global[k]})
        \o IF globals = <<>> THEN <<>> ELSE <<Last(globals)>>

OutputBindingSrc ==
  /\ pc = "binding"
  /\ binding' = Creations
  /\ Close
  /\ pc' = "makefile"
  /\ UNCHANGED <<map, source, private, prototype, binding_h, makefile, idx>>

OutputMakefile ==
  /\ pc = "makefile"
  /\ makefile' = GeneratedSeq
  /\ Close
  /\ pc' = "done"
  /\ UNCHANGED <<map, source, private, prototype, binding_h, binding, idx>>

(* a file cannot be opened: an error to the callers, except that nobody
   asks whether open_header gave a header to write to *)
OpenFails ==
  /\ \/ pc \in {"private", "prototype", "binding_h", "binding", "makefile"}
     \/ pc = "classes" /\ idx < N /\ Generated(idx)
  /\ pc' = IF pc \in {"private", "prototype", "binding_h"} THEN "crashed" ELSE "failed"
  /\ UNCHANGED <<map, files, lost, idx>>

Next == \/ OutputInterface \/ ConstantCrashes \/ OutputDictionary \/ SkipNoObject \/ ClassesEnd
        \/ OutputPrivateHeader \/ OutputPrototypeHeader \/ OutputBindingHeader
        \/ OutputBindingSrc \/ OutputMakefile
        \/ OpenFails

Spec == Init /\ [][Next]_vars

-----------------------------------------------------------------------------
(* ir.c:863-871 leaves to the author of the IDL that nothing inherits from
   an interface without object or from the primary global. *)
ObjectParents == \A k \in Idx : inherit_idx[k] # -1 => Generated(inherit_idx[k])
ChildlessGlobal == \A k \in Idx : inherit_idx[k] # -1 => ~primary_global[inherit_idx[k]]
OneGlobal == \A k, m \in Idx : primary_global[k] /\ primary_global[m] => k = m

(* the classes whose written source calls into their parent *)
Callers == {k \in Idx : source[k] # Null /\ Interface(k) /\ source[k].call # Null}

(* The state of the run and the entries its files speak of.                *)
TypeOK == /\ type \in [Idx -> {"interface", "dictionary"}]
          /\ inherit_idx \in [Idx -> Idx \cup {-1}]
          /\ lost \in BOOLEAN
          /\ idx \in 0 .. N
          /\ pc \in {"classes", "private", "prototype", "binding_h", "binding",
                     "makefile", "done", "failed", "crashed"}
          /\ binding # Null => binding \in Seq(Idx)
          /\ makefile # Null => makefile \in Seq(Idx)
          /\ \A k \in Idx : idx <= k => source[k] = Null \/ source[k].torn

(* A structure embeds that of its parent only after it has been defined, as
   C needs: the order of the sorted map is kept by private.h. *)
StructsDefinedFirst ==
  private # Null /\ ObjectParents =>
    \A n \in DOMAIN private : private[n].parent # -1 =>
      \E m \in 1 .. n-1 : private[m].class = private[n].parent

(* Initialiser and finaliser chain across the class files: what a class
   calls of its parent is in a source the Makefile lists, not static there
   and declared in prototype.h.  Three places decide on the refcount. *)
CallsResolve ==
  makefile # Null /\ ObjectParents =>
    \A k \in Callers :
      LET p == source[k].call
      IN  /\ source[p] # Null /\ ~source[p].static
          /\ p \in ToSet(makefile)
          /\ \E d \in ToSet(prototype) :
               d.class = p /\ d.exported /\ d.init_argc = source[p].init_argc

(* "If there is a parent interface it will be called with the parameters
   necessary for its initializer" (README:286-288): the call in a finished
   source has as many arguments as the initialiser of the parent has
   parameters. *)
ParentFullyInitialised ==
  \A k \in Callers : ~source[k].torn =>
      Len(source[k].passes) = Len(init[source[k].call])

(* With a single parameter at most the statement above holds, and a class
   that cannot pass it is refused. *)
ParentInitialisedByOne ==
  \A k \in Callers :
    LET p == source[k].call
    IN  Len(init[p]) <= 1 =>
          /\ source[k].torn <=> \E n \in DOMAIN init[p] :
               \A y \in ToSet(init[k]) : init[p][n].id \notin {y.id, y.alias}
          /\ ~source[k].torn => Len(source[k].passes) = Len(init[p])

(* "the create prototypes interface is used to cause all the prototype
   creation functions for all generated classes to be called"
   (duk-libdom.c:274-276). *)
AllPrototypesCreated ==
  binding # Null => Interfaces \subseteq ToSet(binding)

(* The Makefile comes last: at every step, so wherever a run is killed or
   fails, a Makefile of this run lists exactly the sources of this run,
   none of them left off by a failure of the generator, and all the headers
   they include are of this run too.  Output lost on its way to the disk is
   another matter: nothing notices it. *)
MakefileLast ==
  makefile # Null =>
    /\ ToSet(makefile) = {k \in Idx : source[k] # Null}
    /\ \A k \in ToSet(makefile) : ~source[k].torn
    /\ Null \notin {private, prototype, binding_h, binding}
=============================================================================

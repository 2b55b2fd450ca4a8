# A TLA+ model of nsgenbind

nsgenbind reads a *binding* file and the Web IDL files it names, and writes C
sources that bind the interfaces of a browser's DOM (libdom) to a JavaScript
engine (Duktape). This directory holds a model of it: TLA+ modules, the TLC
configurations that check them on small instances, and proofs that TLAPS checks.
Paths below are relative to `src/` unless they begin with it; code without a
directory is in `src/src/`.

- [The program](#the-program): components, state, operations, interactions
- [Modules and code](#modules-and-code)
- [Runs](#runs): what each checks, its bounds
- [Fairness](#fairness)
- [Proofs](#proofs)
- [Where the code departs from what it says](#where-the-code-departs-from-what-it-says)
- [Not modelled](#not-modelled)
- [Plan](#plan)

## The program

The tool is one sequential process, although a parallel `make` may run several over
one directory. There are no threads and no messages; what makes it hard is elsewhere:

- data structures that are changed while they are walked (a node unlinked from
  a chain during a recursion over it, refcounts decremented by the search that
  reads them, an array whose size shrinks while it is filled);
- links that are indices and are recomputed after the order has changed;
- input in any order and of any shape: the grammar accepts circular and repeated
  definitions, names that are used twice, and files that include each other;
- several places that must take the same decision about what is generated, or
  else the C they generate does not compile;
- files that outlive the run: a run may be killed at any point, a disk may be
  full, and the next run starts from what it finds; another run may be at work on
  the same file;
- generated code that runs later, called by scripts with any number of values, with
  allocations that fail and author's code that throws in the middle of it.

`nsgenbind.c` calls the stages in a straight line: command line, binding parse
(`genbind_parsefile`), binding type, IDL parse (`genbind_load_idl`), map
construction (`ir_new`), output (`duk_libdom_output`), and exits with a code of
its own (1 to 7) for a failure of each.

| Component | State | Operations | Talks to | What makes it correct |
|---|---|---|---|---|
| Binding lexer, includes (`nsgenbind-lexer.l`) | flex buffer stack, location stack, open files | token, include, end of buffer | parser (tokens with locations), file system | every token carries its own file and line; includes are read in place; the lexer ends |
| Binding AST (`nsgenbind-parser.y`, `nsgenbind-ast.c`) | linked list of nodes, `*genbind_ast` | add binding / class / method; find by type, name, identifier | lexer; map construction and back end search it | a method reaches its class; the first of two is used |
| Web IDL AST (`webidl-parser.y`, `webidl-ast.c`) | linked list of nodes | add or extend a node per definition; find | one AST over all files | one node per name holding all of its definitions |
| Implements intercalation (`webidl-ast.c`) | LIST and IMPLEMENTS nodes of every interface, the C stack | recursion that copies and unlinks | changes the Web IDL AST after its last file | complete, at most once, ends |
| Entry map (`ir.c`) | entries, `inherit_idx`, `refcount` | link, topological sort, relink | reads both ASTs; handed to the back end | parents first, exact counts, refuses circles only |
| Operation map (`ir.c`) | entry array, shrinking count | new entry, new overload | part of an entry | an entry per name with all its overloads |
| Attribute, constant, member maps (`ir.c`) | entry arrays | one entry per node | part of an entry | modifiers, forwards and accessors found |
| Generated objects (`duk-libdom.c`, `duk-libdom-interface.c`) | prototypes, an object's private data, active initialisers and finalisers | create prototypes, construct, finalise | the engine calls them; they call the author's code | ancestry complete, initialised from the root, finalised to the root |
| Generated accessors (`duk-libdom-generated.c`, `duk-libdom-dictionary.c`) | the engine's value stack, references to strings | get, set, forward, read a member | script calls them; they call libdom | the value declared, no reference kept |
| Back end (`duk-libdom*.c`) | the generated files | one class after the other, then headers, binding source, Makefile | reads map and binding AST | generated files agree with each other |
| Generated argument check (`duk-libdom-interface.c`) | the engine's value stack | count, defaults, truncation, type checks | script calls it; it calls the author's code | the author's code sees one value per argument |
| Class names (`duk-libdom-common.c`) | a buffer of twice the length of the IDL name | convert a name | back end, which names files and functions by it | fits the buffer, loses no letter |
| Output files (`utils.c`, `output.c`) | target and temporary file | open, write, compare, replace | every generated file | untouched when same, replaced whole |
| Command line, driver (`nsgenbind.c`) | options, exit code | stages in order | all | a failed stage ends the run |
| Debug dumps, traces | — | print ASTs and map | — | nothing reads them |

The hazards found in the survey, each with its line and the properties that
would notice it going wrong, are in `PROJECT.json` under `hazards`.

## Modules and code

The core is the entry map: what the back end emits, and in which order, rests on
it. Input comes before it (`Include`, `BindingAst` and their composition
`BindingFile`; `WebidlAst`, `Intercalate` and theirs, `FrontEnd`; `OperationMap`,
`Attributes`), output after (`LibdomOutput`, with `Driver` around it; `OutputFile`,
`ConcurrentOutput`), and last the generated program at run time (`Lifecycle`, which
goes on from `Driver`; `ArgumentCheck`, extended by `GeneratedCall`). Each module is parameterised by CONSTANTS, has one action per
operation or loop turn of the code, and starts from every input within its type;
the MC module of the same name bounds it. `PROJECT.json` maps each definition to
lines. Comments that begin with *mistake* mark variants of a definition that no
specification uses: each is a plausible error in the code that some property of
a run must notice when it takes the definition's place.

**`EntryOrder`** is the abstract promise of `ir_new`: given the parent of each
entry, it answers once, either with an order of all entries with parents first,
or with a refusal that some entries inherit in a circle.

**`EntrySort`** implements it (`compute_inherit_refcount`, ir.c:48-77;
`entry_topoligical_sort`, ir.c:84-127; the end of `entry_map_new`, ir.c:943-961). *Link* is a turn of `compute_inherit_refcount` on the unsorted
map, *Place* a turn of the topological sort, which takes the first entry whose
refcount is zero, fills the output map from its end, clears the entry's name and
decrements its parent; *Stuck* is the walk running off the end of the source
map; *Relink* is `compute_inherit_refcount` again, on the sorted map. Names may
repeat, and links are found by name, so the links of the sorted map may lead to
other entries than those the sort used. `left` is the set of entries whose name
the sort has not cleared. The refinement mapping turns `dst` into `order` when
the map is handed out.

**`Intercalate`** (`webidl_unlink` to `webidl_intercalate_implements`,
webidl-ast.c:679-785). The C recursion is an explicit `stack`
of interfaces; *Recurse* is the call for the first IMPLEMENTS node of the top
interface, *CopyAndUnlink* the copy and the unlink after it returns, and a stack
of `MaxDepth` frames overflows. Only the two kinds of children that the code
looks up by type are kept, each as a sequence in the order the searches yield.

**`OperationMap`** (`find_operation_name` to `operation_map_new`, ir.c:129-378). One variable,
`operationc`, is both the bound of the search for a name and the size to come, as
in the code; *Augment* lowers it while the loop runs. A nameless operation is equal to a
slot without a name and so lands in the next slot to become an entry, whatever name that
gets (`NamelessInFront`).

**`Attributes`** (`attribute_map_new`, ir.c; `output_attributes` and the
prototype output, duk-libdom-interface.c). From a declared attribute with its
modifiers to the functions emitted and the properties that refer to them. Attributes of
one name, which the grammar lets through, give functions of one name twice, which C
refuses; the properties here do not exclude it.

**`WebidlAst`** (the definition rules of webidl-parser.y). A definition either
creates the node of its name or extends it; nodes stand in the order that
`webidl_node_find` visits them, which is the opposite of the chain's.

**`BindingAst`** (nsgenbind-parser.y:228-280 and its class and method rules).
`visible` is the part of the list that `*genbind_ast` reaches while parsing, which
lags behind: it is set when a statement is appended to others. `MethodsOf`,
`FindMethod` and `FindMethodIdent` are what the searches of later stages come across,
`FirstFound` what they return first.

**`Include`** (nsgenbind-lexer.l). flex's buffer stack and the lexer's own
location stack are separate variables pushed and popped at different places.
`opened` counts files, none of which is ever closed.

**`BindingFile`** composes the two: the parser calls the lexer (`Include`) for the next
token (*Shift*, *LexerStep*) and runs the action of a rule (`BindingAst`) when a
statement is complete (*Reduce*). What stands at a line is chosen when it is first
read and kept in `written`, since a file may be included twice. A method that ends in
a code block may be continued by another block, so the parser must see the next
token before it reduces: by then the lexer may have left the file, and `inparser`
holds two statements.

**`FrontEnd`** extends `WebidlAst` and `Intercalate` and composes them: *StartWalk* looks
up the names of all implements statements in the AST that a text produced, which may
belong to a dictionary or to nothing, and from there `Intercalate` goes on, with the places
of the interfaces in the AST as its interfaces. `parse` says how far the reading of the
files is, `pc` how far the walk is (`"waiting"` before the last file is read). `Intercalate` has `N`
interfaces, of which a text of at most `MaxDefinitions <= N` definitions fills the first;
the rest implement nothing and the walk does nothing on them.

**`LibdomOutput`** (`duk_libdom_output`, duk-libdom.c; `output_interface`,
duk-libdom-interface.c). A generated file is what it says of others: structures
embedded, initialisers exported, declared or called and with what, prototypes
created. Its initial states are exactly what `EntrySort` promises (parents first,
exact refcounts), so the two modules meet there. A parameter the parent wants and
the class lacks leaves a torn source and ends the run, as does a file that cannot
be opened; for the headers, whose callers do not look at the result, the latter
is a crash, and so is a constant that is not an integer literal, whose node the
prototype output does not find (duk-libdom-interface.c:848-854). A dictionary is torn
by a boolean default on a member of another type. *Torn* is what the generator itself
gives up. Apart from that, each file passes through `Close`, which may lose it: nobody
looks at the result of a write, a removal or a renaming (output.c:83-100,
utils.c:117-118 and 131-132), so the run goes on and only the model knows, in `lost`.
`OutputFile` has the steps of such a loss.

**`Driver`** (`main`, nsgenbind.c) puts the stages before it and the exit codes around
it. The stages before the output have models of their own; what counts here is that
each may fail, with which code, and that no file has been touched by then. Exit code 0
says that the generator got to its end (`ExitTellsOutcome`), not that the files are on
the disk (`ExitMeansOnDisk`, which does not hold). A dry run (`-n`) is left to
`OutputFile`.

**`Lifecycle`** is what the files do when they are compiled: `binding.c` creates the
prototypes one after the other under a safe call that may fail (*CreatePrototype*,
*PrototypeFails*), and the constructor, initialisers, destructor and finalisers of the
class files run for one object. It starts from the files that a finished run of
`Driver` left, if they all reached the disk (`Built`): prototypes are created in the order of `binding`, and an initialiser
calls the class that `source` says. `calls` is the chain of active initialisers, in
which a parent's runs before the author's code of the child; finalisers run the code
first. The primary global gets every interface injected, one whose prototype failed with
undefined in its place (`Injected`). Objects share no private data, so one stands for all.

**`ArgumentCheck`** models the *generated* code: the guards and effects of its
steps are those of the text `output_operation_argument_checks` and its callers
choose to emit for the operation's arguments. The conversion of an object to a string
may throw (`Throws`), which ends the call as *unconverted*; the other ends of a check
are a refusal and the author's code.

**`GeneratedCall`** adds the functions with generated bodies: getters and setters of the
types libdom knows, event handler attributes, setters that forward to the attribute's
value, and the C accessors of dictionary members, which read `member`, the value that the
dictionary object has. They share the engine's value stack
and the private data of the object with the operations. `DefaultOf` is the C initialiser
a member's default becomes, with the combinations the generator refuses and those no
compiler takes. What libdom, the engine and the author's getter do is external: any
call may fail, any property read may give any kind of value.

**`OutputFile`** (utils.c:22-151, output.c). Runs follow one another over one
target; each may be killed at any step, a byte at a time while writing, and a write, a
read, a removal, a renaming and the opening of the target may each fail unnoticed
(`failed` is what has failed in a run, known to the model only). A target that cannot be
opened, for whatever reason, is taken to be missing. The temporary name is the same in every run, because the
buffer has no room for the process number, so a run finds what a killed one left.

**`ConcurrentOutput`** (the same code) lets any number of runs go through the steps of
one file at the same time. Names and files are apart: `target` and `tmp` say which file
a name leads to, `own` and `other` which files a run has open, and each run has its own
position. So a file can be truncated under its writer, moved from under it, or removed,
and go on being written.

**`ClassName`** (`gen_idl2c_name`, duk-libdom-common.c). One turn of the loop per
step: *Copy* copies a character, with an underscore before it where the prefix HTML ends
(`EndsHtml`) or before the capital that precedes it (`BeginsWord`, `Shifted`). `name` is
the buffer up to where `outc` points. The module has no run: it takes names of every
length, and all that is said of it is proved.

**`Selection`** says what a loop leaves of a list when it skips elements; `LibdomOutput`
and `Lifecycle` use it.

**`EntrySortProofs`**, **`FrontEndProofs`**, **`InterfaceProofs`**,
**`BindingFileProofs`**, **`LifecycleProofs`**, **`GeneratedCallProofs`**,
**`OutputFileProofs`** and **`ConcurrentOutputProofs`** hold the proofs, see below.

Abstractions used throughout: identifiers are model values; a node is the record
of what later stages look up; memory allocation succeeds; the text of generated
code is left out except for what other text relies on.

## Runs

Each line: bounds, what the bounds contain, what the run shows.

| Run | Instance | Shows |
|---|---|---|
| `sort` | 3 entries, 3 names: every assignment of names and inherited names (1,728 maps) | parents first and exact counts in the map handed out; implements `EntryOrder` with its fairness, so that it ends and refuses only for a circle. A chain, a fork, repeated names and circles of one to three entries all occur. With `N = 4` it passes as well, in about three minutes; the theorems cover every size |
| `intercalate` | 4 interfaces, 4 implements statements, at most 2 each, in any order, with repeats, undeclared names and self-reference; stack of 5 | an interface whose statements are resolved has all members, once along a single path; no call is skipped or repeated by the unlink; no end only for a circle. The bound admits a diamond and every circle |
| `front_end` | every text of up to 3 definitions of 3 names, any mixture of full, partial, implements and dictionary; names exchanged by symmetry; 3 places, stack of 4 | one node per name with everything said of it in textual order; extended attributes are those of the first mention; after the resolution, the members of an interface are those the text gives it and what it implements. Three definitions admit a definition after its use, a mixin that implements another, a dictionary of a mixin's name |
| `operations` | up to 4 operations, 3 names or none, two argument lists | one entry per name in the order of first mention, every overload kept in order, nameless operations in front of the next entry's own and nowhere else |
| `attributes` | up to 2 attributes of 2 names (a name may repeat), all modifiers and accessors | functions precede and match the properties that use them; what may be written can be set, and only a further modifier gives another attribute a setter; the author's accessor is used |
| `binding_file` | 1 or 2 files of up to 3 lines, 4 between them: includes of existing, missing, own and each other's file, trailing text, and statements (bindings, methods and classes of one class, two types, two identifiers) in the others; 4 open files | locations follow buffers; the AST holds the statements in textual order, includes in place, each with its own file and line; in a file that begins with its binding and declares a class at most once and before its methods, each method is found and the first wins; the run ends, by failure to open if includes are circular |
| `libdom` | 3 entries: every sorted map with every marking, 4 parameter lists (none, one, one under an alias, two); every way through `main`; one object of any class, 2 faults | structures before use, parent calls resolve and pass the one parameter, no Makefile without its sources, exit code 0 exactly if the generator got to its end, with output lost on the way to the disk or not; prototypes complete as far as they were created; initialisers from the root, finalisers to the root. Three entries admit a chain of three, on which a fault may hit each link |
| `generated_calls` | operations of up to 2 arguments of each kind, calls with up to 3 values; every accessor, on every kind of value | a call is refused exactly for a cause; the author's code sees one value per argument; accessors return, store or forward what they should and release their strings; what is read of a dictionary member is the value the object has for it, or its declared default if it has none |
| `output_file` | 5 outputs over blocks of 2 bytes (differing within and after the first block, ending within and at the end of one), 3 runs, 2 faults (kills, failed operations) | replaced whole or not at all, same output untouched if it can be read, up to date unless the old target is a prefix; what a failed operation excepts is in each formula. Two faults admit a truncated target or temporary file, a run over it that is killed, and a third that must put it right |
| `concurrent` | 3 runs, exchanged by symmetry; 3 outputs (below and above a block of 2 bytes, one continuing another), a target and a temporary file there or not | a target that is there when all runs are over is whole; no temporary file is left. Two runs can only take each other's file; with three a file can also be renamed between another's remove and rename |
| `output_file_prefix` | 3 outputs, one continuing another; 2 runs, no faults | **violated**: the target is not brought up to date (below) |
| `libdom_params` | 2 entries, the 4 parameter lists | **violated**: a parent's initialiser is called with too few arguments (below) |

Deadlock is not checked in these runs: every modelled stage is a computation that
ends, and the end states have no successor by intention. That they are reached is
checked where loops could run on (`ImplementsEntryOrder`, `Resolves`, `ParseEnds`).
Invariants that are proved and follow from others that a run checks, or only state types
(`TypeOK`, `RefcountExact`, `CircleWhenRefused`, `NoCircleHandedOut`, `OnlyImplemented`,
`OverflowOnlyIfCircular`, `CountBalances`, `StatementsAsWritten`, `NoTmpLeft` of
`OutputFile`), are left to the
proofs; they hold on the same instances when added to a configuration, as does `TypeOK`
of `LibdomOutput`.

Bounds that are part of a module rather than of an instance are named there:
`MaxDepth` (C stack), `MaxOpen` (open files), `MaxRuns` and `MaxFaults`,
`MaxDefinitions`, `MaxStatements`, `MaxLines`, `MaxAttributes`, `MaxArguments`,
`MaxPassed`, and `MaxFaults` of `Lifecycle`; `MaxTotal` belongs to `MCBindingFile`. The
first two stand for real limits: `OverflowOnlyIfCircular` and `ParseEnds` are about them.

`ParentsFirst`, `SortedRefcountExact` and the like are stated for arbitrary input. Those
that hold only for inputs the code leaves to their author say so in the formula:
`Customary` (`BindingAst`), `Circular` (`Intercalate`), and `ObjectParents`,
`ChildlessGlobal`, `OneGlobal` (`LibdomOutput`, from the comment at ir.c:863-871),
`Suits` (`GeneratedCall`: a default of the member's type).
The instances contain inputs on both sides of each.

## Fairness

Only `WF_vars(Next)` in `EntrySort` and `Intercalate`, and `WF_allvars(Parse)` in
`BindingFile`: each is a loop of a single process that waits for nothing (no lock, no
input from elsewhere; reading a regular file does not block), so that as long as a step
is possible one is taken. `Parse` is all of the parser and the lexer except
*SyntaxError*, which is a fact about the text that nobody owes. No fairness is put on
single actions. Modules in which a run may be killed or left alone (`OutputFile`,
`ConcurrentOutput`, `Driver`), or that wait for a caller (`Lifecycle`,
`GeneratedCall`), have none.

## Proofs

Eight modules, one per component or group of components that share an argument, prove
36 of the 39 properties that the runs check, the refinement of `EntryOrder` in its safety
part, and properties that no run needs. A theorem holds for every value of the
constants that the assumptions of its modules admit; the table names those that the
proofs use, and nothing else is assumed.
Each module has one inductive invariant, a conjunction of named parts, with a lemma
per action (or per part an action can disturb), and the properties follow from it.

| Module | About | Inductive invariant | Assumptions |
|---|---|---|---|
| `EntrySortProofs` | `EntrySort`, `EntryOrder` | `IInv` | `NAssumption` |
| `FrontEndProofs` | `Intercalate`, `WebidlAst`, `FrontEnd` | `IInv`, `OriginInv`, `FrontInv` | `NAssumption`, `MaxDepthAssumption`, `UndeclaredAssumption`, `DefinitionsAssumption`, `PlacesAssumption` |
| `InterfaceProofs` | `OperationMap`, `Attributes`, `ClassName` | `OperationInv`, `AttributeInv`, `NameInv` | `ArgsAssumption`, `MaxAttributesAssumption` |
| `BindingFileProofs` | `BindingFile`, `Include`, `BindingAst` | `FileInv`, `ProgressInv` | `LinesAssumption`, `OpenAssumption` |
| `LifecycleProofs` | `Lifecycle`, `Driver`, `LibdomOutput` | `IInv` | `NAssumption`, `ParamsAssumption`, `NullAssumption` |
| `GeneratedCallProofs` | `GeneratedCall`, `ArgumentCheck` | `CallInv` | none |
| `OutputFileProofs` | `OutputFile` | `IInv` | `OutputsAssumption`, `AbsentAssumption`, `ChunkAssumption`, `BoundsAssumption` |
| `ConcurrentOutputProofs` | `ConcurrentOutput` | `IInv` | `RunsAssumption`, `FilesAssumption`, `OutputsAssumption`, `ChunkAssumption`, `TextAssumption` |

### Entry map order

| Theorem | States |
|---|---|
| `TypeCorrect` | `TypeOK`; no refcount falls below zero |
| `RefcountCounts` | `RefcountExact`: during the sort the refcount is the number of children left |
| `EachPlacedOnce` | placed and remaining entries partition the map |
| `ParentsComeFirst` | `ParentsFirst`: in the map handed out, `inherit_idx[k] < k` |
| `SortedRefcountCounts` | `SortedRefcountExact`: static initialisers are decided on exact counts |
| `RefusedHasCircle` | `CircleWhenRefused` |
| `DoneHasNoCircle` | `NoCircleHandedOut` |
| `ImplementsOrder` | `Spec => Abs!AbsSafety`: `EntrySort` implements `EntryOrder` |
| `SortGetsOn` | every step makes `TurnsLeft`, a natural number, smaller: no loop can run on |

`IInv == TypeOK /\ LinkInv /\ SortInv /\ RelinkInv`. None of the properties is inductive by
itself. `ParentsFirst` speaks of links that do not exist until the end and are found by
name; it needs that children of a placed entry are placed *behind* it (`SortInv`),
which needs that a zero refcount means no child is left, hence that refcounts count
the children among `left` (`RefcountExact`), which in turn needs that linking counted
them (`LinkInv`). For repeated names one step more
is needed: the relinked parent is the *first* entry of the name in the sorted map, so
it stands no later than the entry of that name the sort worked with, which stands
before the child. `RefusedHasCircle` takes `left` as the witness: nothing in it has
refcount zero, so each member has a child in it. `DoneHasNoCircle` takes the member of
a set whose index is greatest. The lemmas `CountType`, `CountAdd`, `CountRemove` and
`CountUpTo`, on how many members of a finite set a function maps to a value, carry every
refcount argument.

### Implements intercalation

For every number of interfaces, every implements relation and any stack of more frames
than there are interfaces (a relation without a circle can be as deep as it has
interfaces):

| Theorem | States |
|---|---|
| `TypeCorrect` | `TypeOK`, the bound on the stack included |
| `NodeStaysLinked` | `CallsPending`: the node a call was made for is still the first of its caller |
| `NothingForeign` | `OnlyImplemented` |
| `CompleteToCopy` | `CompleteWhenUnlinked`: whoever copies from an interface gets all it reaches |
| `NothingTwice` | `CopiedOnce`: along a single path, a member list is copied once |
| `OverflowIsCircular` | `OverflowOnlyIfCircular` |
| `WalkGetsOn` | every step makes `WalkMeasure`, a natural number, smaller |
| `ResolvesAll` | the walk ends only with no `IMPLEMENTS` node left on any interface |

`CompleteWhenUnlinked` says nothing of an interface half resolved, so it is
strengthened to `MembersInv`: what an interface reaches is in its lists or is reached
by one of its remaining nodes. The step that matters is the copy: the interface
copied from has no node left, so everything it reaches is in its lists, and the
caller may give up the node. `CallsPending` survives that step because the caller
has no second active call below the first: that call's own next frame would be the
interface whose nodes are gone. `OverflowIsCircular` is the pigeonhole: a full stack
holds an interface twice, and each frame reaches those above it. `NothingTwice` needs to
know *where from* an interface has what it has, which `OriginInv` says: the nodes gone are
the first of those declared, and each foreign list came through one of them. A second copy
would therefore have come along a second path.

`WalkGetsOn` and `ResolvesAll` are the safety half of *Resolves*. A step may make a call,
which is more to do, but each call has a frame of the stack to use up, and its return,
which gives the frame back, unlinks a node, which weighs two frames (`WalkMeasure`). So
the walk comes to an end, circular or not; it ends with every statement resolved
(`ResolvesAll`) or with the stack full, and the latter only for a circle
(`OverflowIsCircular`).

### Web IDL: from the text to the members

For every text, of any number of definitions and names (`FrontSpec`):

| Theorem | States |
|---|---|
| `FrontInvariant` | `FrontInv`, below |
| `NodesGather` | `NodesGatherText`: one node per name, with the parts of all definitions of the name, in order |
| `FirstMentionDecides` | `AttrsOfFirstMention` |
| `TextToMembers` | `MembersOfText`: from end to end, an interface has the members the text gives it, and no others |

`FrontInv` has a part for each stage. `AstInv` holds of every state: no two nodes have a
name (`OneNode`), each definition read has a node (`EachDefined`), each node was made by
the first definition about it (`EachMentioned`), and its parts are those of the
definitions so far (`NodesInv`). The last is said twice, as the list the definitions flatten
to (`HasText`) and as the set of its members (`HasMembers`): a list is what the property
compares, a set is what the walk takes. `FlattenSeq` is a recursive function, of which
`FlatStep` says that one list more is added at its end; no induction over data is needed
then, since a definition adds one element and the invariant does the rest. A new node is an
empty one of its name that grows by the definition (`NodeGrows`), so that both actions are
the same step.

`WalkInv` holds from *StartWalk* on: the invariant of the walk (`IInv` of the previous
section), that what was declared to the walk are the places of the nodes whose names are
implemented (`LinkedInv`), and that an interface the walk has been at has no IMPLEMENTS node left
(`VisitedInv`). At the end that is every interface, so each has all that it reaches
(`UnlinkedIsComplete`), and `ReachByName` shows that to reach a node along places is the same
as being implemented by name in the text: the set of each that is closed under the one
relation gives a set that is closed under the other. There it matters that a name has one
node and that a dictionary never implements anything (`DictionaryAlone`).

### One interface: operations, attributes, class name

For every sequence of operations, with and without names, every sequence of declared
attributes, and names of any length over any alphabet:

| Theorem | States |
|---|---|
| `OperationTypes`, `CountIsBalanced` | `CountBalances`: the shrinking count is the entries made and the operations to come |
| `OneEntryPerName` | `EntriesAreNames`: distinct names, in the order of first mention |
| `NoOverloadLost` | `OverloadsKept` |
| `OverloadsOfOwnName` | `NamelessInFront`: an entry holds operations of its name, and in front of them nameless ones that came after the entry before |
| `AttributesResolve` | `FunctionsResolve`: the functions the prototype refers to are there and before it, each setter right behind its getter, and none is unused |
| `AttributesSet` | `SettersAsDeclared` |
| `AttributesUseCode` | `AuthorCodeUsedIfWritable` |
| `Fits` | `FitsBuffer`: the class name and its terminator fit in twice the length |
| `BeginsAlike`, `HtmlFirst` | `FirstKept`, `HtmlPrefixed` |
| `NothingLost` | `LettersKept`: every character is there, in order, and else underscores only |

The array of operations is searched up to a count that the loop lowers, so that an entry
could fall out of the search. `CountBalances` excludes it and gives more (`FreeSlot`):
while an operation is to come, the next free slot is itself within the search, and as it
has no name, a nameless operation stops there at the latest and never becomes an entry.
The other properties need that, with what each slot holds (`EntryInv`, `HeldInv`,
`OverloadInv`). Where nameless operations end up is `PlacedInv`: what an entry or the next
free slot holds of them came after all entries before it. `AttributeInv` ties the three passes over the attributes together: an
entry is what its declaration says, the functions emitted are those of the entries before
the index, and so are the properties.

A turn of the conversion of a name writes one or two characters, but three where both
rules apply, so that the count alone is not inductive. `Verbatim` makes up for it: up to
the fourth character of HTML everything was copied one for one, and there the buffer has
room to spare. `Prefix` says that after the fifth character the underscore is there or the
next turn inserts it. `LettersKept` is strengthened by where the last character went
(`LettersInv`): to the end, from which the next turn may move it by one place
(`LastMoves`).

### Binding file

For any number of files of any length that include one another, and themselves, in any
way, any statements and any limit on open files:

| Theorem | States |
|---|---|
| `StacksAgree` | `LocationsFollowBuffers`: the location stack mirrors the buffer stack |
| `KeptAsWritten` | `StatementsAsWritten`: each statement reaches the AST, with the place it stands at |
| `NoMethodLost` | `MethodsReachClassIfCustomary` |
| `FirstWins` | `FirstMethodWins` |
| `IncludesInPlace` | `StatementsLocated`: what was located is the text with each include replaced by its file, in place |

`FileInv == LexerInv /\ PlacesInv /\ AstInv`. `LexerInv` is `LocationsFollowBuffers` with
types; the lemmas `PushMirrors`, `PopMirrors` and `LineMirrors` say of any two stacks that
they stay mirrored. `PlacesInv` follows a statement from the token to the AST: the tokens
are the places of what has been reduced and then of what is in the parser, and at each
place stands the statement kept with it. `AstInv` knows what the searches rest on: a node
has a statement of its class (`NodesHaveText`), a statement has its node (`ClassesHaveNodes`,
`MethodsHaveNodes`), the methods of a node are in the order of the text (`MethodsInOrder`),
what `*genbind_ast` reaches (`VisibleInv`), and that in a customary file a class has one
node (`CustomaryInv`). The last needs the lag of `*genbind_ast`: the second statement is
read when the AST is not visible yet, which is harmless only because the first one of a
customary file is its binding, which makes no class node.

`IncludesInPlace` compares with `Expanded`, the text of a file with its includes replaced down
to a depth; a depth is needed because circular includes expand to nothing finite, and
`MaxOpen` will do, because a file that is parsed to its end never had more open.
`ProgressInv` says how far each open file is expanded: what has been located so far is the
expansion of the lines in front of the cursor of the outermost file, then of the next, and
so on to the file being read, each one level less deep than the one before (`ReadInv`).
When a file ends, the expansion of its last line makes that of the whole file complete, which is what
the line that included it expands to; what has been located does not change. `Nested` says that
each buffer stands at the directive that opened the next, and `DepthInv` that the levels suffice.

### Generated files, driver, generated objects

For maps of any size, any parameter lists, any way through `main` and any lineage:

| Theorem | States |
|---|---|
| `OutputTypes` | `TypeOK` of `LibdomOutput` |
| `StructsInOrder` | `StructsDefinedFirst` |
| `CallsOfTheParentResolve` | `CallsResolve`: what is called of a parent is there, listed, not static, and declared with as many parameters |
| `OneParameterIsPassed` | `ParentInitialisedByOne` |
| `MakefileOfWholeSources` | `MakefileLast`: sources whole as far as the generator goes |
| `ExitCodeIsRight` | `ExitTellsOutcome`: 0 exactly if the generator got to its end, 1 to 7 only if no file was touched |
| `InstancesOfAncestors` | `InstanceOfAncestors` |
| `AncestorsInitialised` | `AncestryInitialised` |
| `FinalisersReachTheRoot` | `FinalisedToTheRoot` |

`IInv` has one part per layer: `MapOK` (the map, which nothing changes and of which
exactly that is assumed that `EntrySortProofs` proves), `SourcesOK` (each class file is
what `Source` says of its entry), `HeadersOK` (the files after them, in their order),
`DriverOK` (the stages of `main`), `PrototypesOK`, `ObjectOK`. A layer starts when the one
below has ended, so that each part is shown to be kept from the parts before it. The
ancestry of an object is walked by induction on the index, which `ParentsFirst` makes go
down.

### Generated calls

For operations with any number of arguments, calls with any number of values, and every
accessor:

| Theorem | States |
|---|---|
| `BodyFindsArguments` | `BodySeesDeclared` |
| `RefusedWithCause` | `RefusedForCause` |
| `NoReferenceLeft` | `ReferencesReleased` |
| `AccessorsYield` | `AccessorYields` |
| `MembersOrDefaults` | `MemberOrDefault`: the author's code gets the value that the dictionary has, or the default |

`CallInv` has one part per kind of function and in it one line per place: what is on the
engine's stack there. For operations that is `CheckedUpTo(argidx)`: values checked up to
the index, defaults where no value was passed, the rest as passed. For accessors it is
also the references held, of which there is one between *PushAttribute* and what follows
it, and none at an end.

### Output files

`OutputFileProofs`, for every set of outputs, every block size, any number of runs, kills
and failed operations:

| Theorem | States |
|---|---|
| `TypeCorrect` | `TypeOK` |
| `TargetUpToDate` | `UpToDateUnlessPrefix` |
| `TmpRemoved` | `NoTmpLeft` |
| `SameUntouched` | `UntouchedWhenSame`, an action property |
| `WholeReplacement` | `ReplacedWhole`, an action property |

The invariant follows a run: while it writes, the temporary file is a prefix
of the output (`WriteInv`), from the comparison on it is the output unless a write
failed (`CloseInv`), the files agree up to the position reached (`CompareInv`), and a
target is removed only when it is absent, differs or could not be read. `DoneInv` is what
a run leaves, with what its failures except: a write, a read or the renaming the target
up to date, a removal or the renaming the temporary file gone. Nothing is claimed of files
that an earlier run left, killed or not, so that the next run owes nothing to them.

`ConcurrentOutputProofs`, for any number of runs at once, any outputs and any block size:

| Theorem | States |
|---|---|
| `NoneLeft` | `NoTmpLeft` |
| `WholeOrNothing` | `NeverTorn` |

The argument is about the last run to open a file. Opening truncates, so that from then
on the file holds bytes of runs under way, each in its place, and all that the last opener
has written (`Holds`, `FileOK`). A file that has got the target's name is never opened for
writing again, so it ends up whole when its last opener does. `OldOK` keeps the old target
in its place only as long as every run that has compared itself with it has found no
difference, which is why what stays may be a file that the output begins with, and
nothing else. `NoneLeft` follows from `NamesOK`: while the temporary name leads
somewhere, a run is not done.

### Left to TLC

- Liveness, which is out of the prover's reach: `Resolves`, `ParseEnds`, and the fairness
  half of `ImplementsEntryOrder`. For the first and the last the proofs leave open only
  that a step is enabled until the end: each step makes a measure smaller (`WalkGetsOn`,
  `SortGetsOn`), and what holds at the end is proved.

Some operators are written so that the provers can take hold of them: a selection of
elements by a search is a set of indices (`FindMethod`), a loop that skips elements is
`Selected` of the module `Selection`, a recursive function in the place of `SelectSeq`,
a count is a `Cardinality`, and `Expanded` is a function of the depth.

## Where the code departs from what it says

Two are runs, with a trace:

1. `libdom_params` — duk-libdom-interface.c:568 steps over the parameters of the
   parent's initialiser with the wrong node type, so that only the first is passed,
   although "it will be called with the parameters necessary for its initializer"
   (src/README:286-288). The generated C does not compile for two.
2. `output_file_prefix` — utils.c:120 compares up to the end of the *old* file; new
   output that only continues it is discarded as the same, although the file is
   closed "to check the output is different before touching the target file"
   (utils.h:28-30).

Others were met while modelling. The formula of each is kept in its module, beside
the weaker one that does hold and is checked (named here after the arrow); putting
it into the configuration of the module shows the trace.

3. `AugmentsSameName` → `NamelessInFront` (`OperationMap`): ir.c:141 takes two
   NULL names as equal, so a nameless special operation becomes an overload of an
   unused slot, not an entry (comment at ir.c:326-328), and so of the entry that the next
   name makes there.
4. `AllPrototypesCreated` → `InstanceOfAncestors` under `OneGlobal` (`LibdomOutput`,
   `Lifecycle`): of several interfaces marked PrimaryGlobal only the last is created
   (duk-libdom.c:495; comment at duk-libdom.c:274-276).
5. `MethodsReachClass` → `MethodsReachClassIfCustomary` (`BindingAst`): a class declared
   after its methods, or methods within the first two statements, are not found
   (nsgenbind-parser.y:268 and 546; src/README:163-165).
6. `OnePreface` → `FirstMethodWins` (`BindingAst`): a second preface is output as well
   (duk-libdom-common.c:157; "subsequent directives will be ignored",
   src/README:173-174).
7. `SetterOnlyIfWritable` → `SettersAsDeclared` (`Attributes`): `inherit readonly` and
   `static readonly` have two modifier nodes of which ir.c:582 reads the wrong one, so
   the attribute gets a setter (duk-libdom-interface.c:1608). `SettersAsDeclared` says no
   more than that nothing else gives an unwritable attribute one.
8. `AuthorCodeUsed` → `AuthorCodeUsedIfWritable` (`Attributes`): a setter written for a
   readonly attribute with PutForwards is ignored (ir.c:590; src/README:344).
9. `UntouchedWhenSame`, `TargetThere` → `NeverTorn` (`ConcurrentOutput`): the temporary
   name is cut off before the process number (utils.c:38-40), so of two runs with the
   same output one may touch a target that is up to date, against utils.h:28-30, and one
   may remove it after the other has moved the temporary file, so that there is none.
10. `ExitMeansOnDisk` → `ExitTellsOutcome` (`Driver`): the results of `fwrite`, `fputc`,
    `fclose`, `remove` and `rename` are ignored (output.c:83-100, utils.c:115-118 and
    128-132) and `genb_fclose_tmp` always returns 0, so that a full disk gives exit code 0
    over files that are truncated or missing. No text in the repository promises
    otherwise, but `make` relies on it. The next run replaces a truncated file, unless the
    truncation left a prefix of the new output, which it does not notice either (2).

Without a formula, because the model shows them in its actions:

11. *InitThrows*: an initialiser that throws leaves an object with private data, whose
    finalisers run up to the root although some classes were never initialised; they
    see zeroed memory (duk-libdom-interface.c:104, 417-449).
12. *ConstantCrashes*: a constant of another type than an integer literal ends the run by
    a null dereference; the comment at duk-libdom-interface.c:839-840 knows of the
    assumption.
13. `DefaultOf`: a float member without a default gets the initialiser `(null)`
    (duk-libdom-dictionary.c:253), and a string member with the default null gets the
    text `"NULL"` instead of a null pointer (lines 76 and 156).
14. *GetMember*: a member of a dictionary that was itself left out (undefined) throws
    instead of giving its default.

## Not modelled

- *Web IDL lexer*: tokens of one file at a time, nothing kept between files.
- *enum, typedef, callback and exception definitions*: nodes that nothing reads.
- *Constant and dictionary member maps*: one loop counts the nodes and a second copies
  them; nothing is looked up and nothing changes between. What is done with constants
  and members is in `LibdomOutput` and `GeneratedCall`.
- *Command line options*: `Driver` has a bad command line, not the options.
- *The formatting buffer of `outputf`* (output.c:68): needs text lengths, and the
  outcome is undefined.
- *Two interfaces of one class name*: `LibdomOutput` assumes distinct class names. By
  `NothingLost` only names that differ in nothing but case and underscores share one
  (`DOMString` and `DomString` give `dom_string`).
- *An object rescued by its finaliser*: the destructor does not clear the pointer to
  the freed data, but nothing generated brings an object back.
- *private, internal, property and flags members of classes; special methods of nameless
  operations*: copied into the output as they are.
- *Debug dumps, traces, jsapi, test runner*: output that nothing reads, a type that
  is refused, and a script.

## Plan

Done, in this order: `EntrySort` with `EntryOrder` and its proofs, `Intercalate`,
`OperationMap` and `OutputFile` with theirs, `LibdomOutput`, `WebidlAst`, `BindingAst`,
`Attributes`, `ArgumentCheck`, `Include`; then `ConcurrentOutput`, the compositions
`BindingFile` and `FrontEnd`, `Driver` around and `Lifecycle` after `LibdomOutput`, and
`GeneratedCall`; then `ClassName` with its proofs; then the proofs about `LibdomOutput`,
`Driver`, `Lifecycle`, `ArgumentCheck`, `GeneratedCall`, `ConcurrentOutput`, `Attributes`,
`BindingFile` (its includes last), `WebidlAst` and `FrontEnd`, of `CopiedOnce`, and that
the loops of `EntrySort` and `Intercalate` come to an end.

Next: private and internal members in the binding AST; the search path of `genbindopen`.

To repeat: `tlc -config MC<Module>.cfg MC<Module>` for a run (`libdom` is `MCLifecycle`;
`output_file_prefix` and `libdom_params` use `MCOutputFilePrefix.cfg` and
`MCLibdomOutputParams.cfg` with `MCOutputFile` and `MCLibdomOutput`), `tlapm
<Module>Proofs.tla` for the proofs.

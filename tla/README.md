# IRX: specifications of the IR interpreter

IRX runs LLVM IR under the control of a Python program.  A user parses modules
into an `IRModuleInterpreter`, creates the interpreter, puts data structures
into its memory through a proxy, runs functions, stops at calls, answers them
in place of the program and reads the structures back.  IRX adds to LLVM's
interpreter an address space of its own (so that the pointers of a 32 bit
program fit into 32 bits), control of calls, the work of a linker script, and
struct access by debug info.

These modules specify that logic.  TLC checks them on small instances; for the
memory map, the execution of programs, linker sections, the proxy, sessions and
the struct generator TLAPS proves it for all.  Paths below are relative to
`src/`.

```
tlc -workers 2 -config MCMapAllocator.cfg MCMapAllocator     # a run
tlapm MapAllocatorProofs.tla                                 # proofs; likewise the
tlapm DataLemmas.tla                                         # other ...Proofs modules
```

## 1. Inventory

| Component | State | Operations | What is hard, and what makes it correct |
|---|---|---|---|
| memory map (`libirx/irinterpreter2-mmap.*`) | list of allocations, two ordered maps (first and last address to list node), set of blocks it owns, address generator with a stack of marks | `add`, `malloc`, `free`, `find`, `vvptr2vptr`, `find_vvptr`, `freeze`, `reset`, destructor | Three structures describe one allocation; sizes at word boundaries; a window that runs out; reuse of addresses after a reset. Translation is exact, nothing leaks, a reset leads back. |
| interpreter core (`libirx/irinterpreter2-interpreter.cc`) | stack of frames (function, instruction, `Caller`, registers), running instruction, exit value | `run`, `runInstruction`, `visitCallBase`, `visitStoreInst`, `runFunction`, `resume`, `putReturnValue`, `resetExtraAllocations` | State that is valid only at a stop and outlives it; pointers with two representations. Each value goes to its own call; a call reaches its target. |
| flow control (`IRXFlowControl`) | the lists of `stop()` and `skip()` | setters; read at each call | Calls through pointers; a stop before the frame is made. |
| alias operands (`fixAliasesOperands`, `restoreAliasesOperands`) | the operands of constant expressions, which all instructions share | before and after each instruction | Restoration by what took an operand's place, which two aliases have in common. No operand ever means something else. |
| initial memory (`InitializeGlobals`, `InitializeMemory`) | the globals' words, their thread-local flags | at creation and reset | Undefined words and thread-local globals keep what the last run wrote; flags that are faked for a while. All else is the first image again. |
| session (`IRModuleInterpreter`) | the linked module, the interpreter's clone of it, collected debug info | parse, link, `createInterpreter`, reset, accesses | Order of the user's calls: parsing after looking up, initialisers set after creation, creating twice, a parse that fails half way. |
| linker sections (`libirx/irinterpreter2-sections.cc`) | list of finders, collected globals by level and name, levels | `collectLinkerScriptSections` | Order by strings; one collecting map for all finders; empty sections. The array is what a linker would build. |
| struct access (`libirx/irinterpreter2-struct.cc`) | cache of types by name, negative entries included | `structAlloc`, `irx_struct_set`, `irx_struct_get` | Stale negative entries; unions, which IR does not have. An access goes where the C compiler has put the field. |
| debug info (`libirx/irinterpreter2-debug.cc`) | cache of types by name | path to GEP indices, type and size | Typedefs, qualifiers, arrays, union members, members without a name. |
| global variables (`libirx/irinterpreter2-global.cc`) | none of its own | get, set, `setInitializer` | An initialiser set after creation. |
| Python binding (`pyirinterpreter.pyx`) | the wrapped interpreter | `set_struct`, `get_struct`, forwards | A failing member leaves the struct half written; numbers are written by one type and read by another. What was written is read again. |
| struct proxy (`proxy.py`) | map address to object, map object to address; `ptr` and cached reference of each pointer field | `put` (recursive), `put_cache`, `get`, `deref`, `Global`, `cache_offset` | Cycles, references to objects not yet put, exceptions. Maps agree; what is put is written with the links the user meant. |
| diff (`diff.py`) | none | comparison of trees | pure |
| struct generator (`generator-struct/`) | names that are done, the recursion, what is printed | prints a dataclass for each struct | Types that refer to each other; what a class needs must stand above it, and its fields must be ones libirx finds. |
| Zephyr types, blob extraction, logging, scripts, tests, build | | | generated code, pure input and output |

How they interact: the interpreter calls the memory map for each mapped global
and function, for `malloc` of the program and of `structAlloc`, for every
translated access, and on reset.  Sections are collected on the linked module
before the interpreter is created.  The proxy calls the binding, which calls
struct access, which asks debug info for indices and writes through the memory
map.  The generator is a program of its own; the classes it prints are what the
proxy and the binding work with, and the names of their fields become paths.
Parsing changes the module that names are looked up in, while the interpreter
runs a clone it was created with.  The user's Python program
drives all of it from one thread; nothing runs concurrently, but control moves
to and fro between the program (in `run()`) and the user (at stops), and that
interleaving is where the hard behaviours are.  `PROJECT.json` lists each
hazard at its line.

## 2. The modules

### AddressSpace, MapAllocator, MapAllocatorProofs

`AddressSpace` is what a memory map promises: a set of live regions, each
backed by its own host block, so far apart that even the address one past a
region's end, which C lets a program compute, belongs to that region alone.

`MapAllocator` is the code.  `holder`, `vvmem_start`, `vvmem_end` and
`allocations` are the members of `IRXAllocator`; `lastAllocAddr` and
`freezeStack` those of `LinearVirtualMemoryAddressGenerator`; `recorded` is
`MyInterpreter::allocations`.  `heap` and `globalMem` are the host's: blocks
allocated by the C heap and by the execution engine.  `phase` is the life of
the interpreter.  Operators bear the names of the functions (`add`, `free`,
`find`, `put`, `remove`, `vvptr2vptr`).  Actions: `MapGlobal`, `MapFunction`
and `Freeze` are `createInterpreter`; `Malloc`; `ResetFree` and `ResetDone`
are `resetExtraAllocations`; `DestroyFree` and `DestroyDone` the destructors.
The two freeing loops take one step per iteration.  A failed check that ends
the process, an assertion or a dereferenced `end()` is a phase (`exhausted`,
`overlap`, `crashed`), so that "it never happens" is a property.

`Regions` maps the three structures to the abstract state, `Space` is the
instance, and `ImplementsAddressSpace` the refinement.

### CallStack, Execution, ExecutionProofs

`CallStack` is what running a program promises: a call is made, left out or
handed to the user, and control goes on behind it; a returned value becomes
that of the call its caller stands behind, and no other.

`Execution` is `MyInterpreter::run`, one instruction per step, with what the
user may do while it is not running.  The state is `ECStack` (function,
instruction, `Caller`, registers), `runningInstruction`, the two lists, cells
of memory that hold function pointers, `ExitValue`, and `mode`: "running"
inside `run()`, "idle" when the user has control, "undefined" after reading a
`Caller` that was never set.  A program is a constant: instructions in a line
with jumps, of the kinds that matter to calls.  Arithmetic and address
computation belong to LLVM and are left out.  A value carries, as `of`, the
function it is about; the code has no such thing, and no guard reads it except
to say what an address leads to.  A function pointer is an address of the
program (`vv`) and may be a host address in a register (`host`), because
`visitCallBase` leaves the register of an indirect call translated.  A load and
a cast have a static type, `typed` when it is pointer to function.
`visitStoreInst` translates back only what is so typed (`Stored`); from a
register that was called through and cast to another type the host address goes
into memory, whole if the program's pointers are as wide as the host's (`Wide`)
and otherwise cut to their width (`StoreValueToMemory`).  A cut address is taken
to be the address of nothing.

### Sections, SectionsProofs

`collectLinkerScriptSections`.  A step handles one global for the finder at
hand (`Collect`) or emits a finder's array and its symbols (`Emit`).  Names
are records: the object or prefix they start with, the level and the priority
in them, how many digits the priority has, and their place in the order of
strings (`key`), which is all the code goes by.  `StartsWith` says which object's name
starts with which other's, since `ZephyrStaticSection::test` compares prefixes
only.  `GVs` is the map shared by all finders, `list` the levels of the one at
hand, as they grow.  What a walk over the list and the ordered map puts one
after another is said by its order (`Before`, `order`); where a level starts is
the number of elements of the levels before it (`indices`).

`DataLemmas` has what proofs about data need: least numbers (by which a proof
can go back to a least counterexample), segments of the naturals, the
existence and uniqueness of arrangements of a finite set, maximal sets,
`Recursion`: a definition that goes down along an order without endless
descents has a function that satisfies it, and `Descent`: what follows along
such an order holds everywhere.  It also has what the proofs about `Execution`,
`StructProxy` and `GeneratorStruct` share, whose stacks are sequences with the
top at the end.

### StructProxy, StructProxyProofs

`proxy.py` with the two binding calls it makes.  `put` is recursive: an object
it reaches over a cached reference and does not know is put first.  The
activations are the stack `puts`; a step resolves one field (`PutCache`,
`PutReturned`), starts a deep put (`PutDeep`) or writes a struct (`PutWrite`).
Between calls the user puts, gets, dereferences, sets references and values,
and the program changes structs (`Run`).  Memory that was allocated and not
written holds `None`, and reading it (`Found`) may give anything.  `meant`
records what the user last made a field refer to; only properties read it.

### DebugInfo, GeneratorStruct, GeneratorStructProofs

`DebugInfo` has the types of a module as metadata describes them (`Types`, a
record for each node: tag, name, what it is derived from, members) and the ways
libirx and the generator follow them: `resolve`, `toBasicType`,
`resolveDerivedTypeBaseType`, `GEP2MemberInfo` and `GEP`, which turns a path
of names into indices.  A step of a path is a `Hit`: an index, the type it
leads to, and whether that is a member's; the code passes a member's own node
around, so that one derivation more has to be taken off.

`GeneratorStruct` is `generate`, `generate_struct`, `resolve2` and what `print`
makes of a type.  The two functions call each other; their activations are the
`stack`, one step enters a type (`Generate`, `Descend`) or prints it
(`generate_struct`).  `classFields`, `Uses` and `Mentions` say which fields a
printed class has and which names Python looks up when it executes the block or
when it makes an object.  A division by zero is the phase `crashed`.  The
members of a struct without a name are printed in its place; a field has in
`through` the members it was reached over, and `InSight` are those that are not
behind a qualified one.  An input is a list of struct names, with ones that no
type has, and all types the metadata consists of.

### StructLayout, StructAccess, StructAccessProofs, Session, SessionProofs

`StructLayout` gives the types of `DebugInfo` sizes and offsets, as constants:
they are the C compiler's, and its assumptions say what any compiler obeys.
`fieldsOf` is the reference: every field of a type with the offset C gives it.
`Step` and `GEP2Offset` are libirx, which walks indices over the IR type.  IR
has no unions: `storage` is the member the compiler makes one of.

`StructAccess` is an allocated struct, written and read through a path by
`set_struct_primitive` and `get_struct_primitive`, and the two caches every
access goes through (`STCache` for IR types, `DICache` for debug info).  A
number is modelled by what its width and sign tell apart (1, -1, the largest
unsigned one), a string by its length; `toBytes` and `fromBytes` are the
conversions, from the type of the field and to the C type the binding reads by.
`written` records what a client wrote to fields that nothing has overwritten.
`Converted` is the type libirx converts a field by.  It is the field's own, but
for an element of an array libirx takes one pointer too many away: an element of
`long long *ls[2]` is converted as a `long long`, and on a program of 32 bits its
eight bytes go over the next element.  `Narrow` names such fields.

`Session` is a client of `IRModuleInterpreter`, one action per call:
`createInterpreter`, `resetExtraAllocations`, `setInitializer`,
`irx_set_global`, `runInstruction` and, by extension of `StructAccess`, the
accesses.  A parse takes several files: `parseIRFiles` begins it, each `load`
links one of `parsing` and may fail, `processModule` is what is done behind the
last one; the client makes no call in between.  `module` and `clone` are
kept apart as in the code.  `operands` are those of the clone's constant
expressions: `fixAliasesOperands` and `restoreAliasesOperands` are recursive
functions over operands; each gives, for an operand, what becomes of what they
hand on (`Fixing`: the operands, the map `Values`, whether null was
dereferenced).  `getConstantValue` is what LLVM's interpreter then comes to: it
follows an alias to a global, and one that stands for an expression only as the
operand of the instruction itself; otherwise it ends in `unreachable`.  A
failed assertion or a null operand ends in `aborted`, LLVM's fatal errors in
`exited`.  The programs a client works with are records of the MC module.

### Which step is which

Each definition that stands for code has its file and lines under "map" in
`PROJECT.json`.  Definitions named `X_Suffix` and marked "Variant" are `X` with
a plausible mistake: each property is shown to fail when `X` is replaced by its
variant, so that none of them holds for want of a case.

## 3. The runs

| Run | Bounds | What it checks |
|---|---|---|
| `memory_map` (`MCMapAllocator`) | addresses 8 to 24, 4 host blocks, 3 list nodes, sizes 0, 3 and 4 (functions: 1) | `TypeOK`; `TranslationExact`; `BaseRoundTrip`; `NoAbort`; `BlocksAccounted`; `FreshAfterReset`; `GlobalsStay`; `ImplementsAddressSpace`; `LoopsEnd` |
| `execution` (`MCExecution`) | 4 functions, one of them declared only; fourteen programs (seven bodies of `main`, two of `f`); one cell; 3 frames; no nested runs | `TypeOK`; `ResultsFromCallee`; `StoppedAtCall`; `MemoryHoldsAddresses`; `CallsReachTarget`; `ImplementsCallStack`; `RunReturns` |
| `sections` (`MCSections`) | all modules of up to 3 sectioned globals over 8 section names and 2 types; 5 finders; a program that refers to all symbols or none | `TypeOK`; `EmulatesLinker`; `LevelsPartArray`; `OnlyOwnElements`; `NamesCovered` |
| `struct_proxy` (`MCStructProxy`) | 3 objects with 1 pointer field, 4 addresses, members at offset 1, 5 acts of the user or the program | `TypeOK`; `MapsAgree`; `NothingHalfPut`; `LinksAsMeant`; `PutEnds` |
| `struct_generator` (`MCGeneratorStruct`) | seven modules of up to four structs and the types they consist of, in every order of their structs and two of their metadata | `TypeOK`; `NotReentered`; `PrintedOnce`; `NeedsDefinedEarlier`; `MentionsDefined`; `EveryStructHasClass`; `FieldsFound` |
| `session` (`MCSession`) | two programs, 5 calls; three structs in three files, with unions, arrays, arrays of pointers and members without a name; three globals in two files, four aliases, four expressions, six instructions; numbers 1, -1 and the largest, strings of 1 and 5 letters; pointers of 4 bytes | `TypeOK`; `CachesExact`; `AccessRight`; `RoundTrip`; `CleanIsImage`; `FlagsKept`; `OperandsKeepMeaning` |
| `call_arguments`, `stop_through_pointer`, `nested_run` | as `execution`; `nested_run` lets the user run a function while another is stopped | section 6 |
| `section_end`, `mandatory_start` | as `sections` | section 6 |
| `deep_put` | as `struct_proxy`, without members, two values | section 6 |

Why the bounds are enough:

- `memory_map`.  The rounding of the generator treats sizes by their remainder
  modulo the word: 0 gets an address of its own all the same, 3 is the largest
  size that fits one word with its one-past-the-end address, 4 the first that
  does not.  Sixteen addresses hold up to four allocations and are exhausted by
  others.  Three nodes leave an allocation with a neighbour on
  either side; the shortage of nodes only keeps a fourth from being made.  A fourth host block lets a
  block be handed out while others are live.  Every bound is gone in the
  proofs.
- `execution`.  The bodies are chosen for the hazards: a register called
  through twice, stored in between or called again after a jump back; a pointer
  of another type cast to one to a function, called through and stored, and one
  called through, cast the other way and stored, so that the next load meets what
  is left of a host address; declared functions, which return without a frame; calls that leave `Caller` behind
  before one that stops.  Three frames are a caller, a callee and the callee's
  callee.  Recursion beyond that repeats the same pair of frames.  The lists
  of `stop` and `skip` range over none, a defined function, and a defined one
  with a declared one; the user may write any function's address, null, and an
  address that is no function's.
- `sections`.  Three globals suffice for an order, for a duplicate with a
  bystander and for an element of the wrong type between two.  The names
  include three in one level that the module may list in any order, with
  priorities of one digit and of two, two levels, two tables that share the name of a level and a prefix, and an
  object's name that goes on after another's.  The run covers every module
  within the bounds, there are no choices after the first state.
- `struct_proxy`.  Three objects form a cycle of any length up to three and a
  chain that ends in one; with the bound on acts, two references can be set and
  put, changed and put again.  The address of the program's global makes an
  object that was not allocated by the proxy.  `MaxOps` bounds what is done
  between calls, not the steps of `put` itself.

- `struct_generator`.  The modules have each shape that makes the order hard:
  structs that refer to each other through pointers, arrays and typedefs, a
  cycle by value and by pointer, types without names, one of them behind a
  qualifier, enumerations and functions that are dropped, an array of a typedef,
  a typedef with the name of a struct, a blocked name and one without debug
  info.  The generator itself
  chooses nothing; what varies is the order of its input.
- `session`.  Five calls are a parse, a look-up, another parse, an allocation
  and an access, or a parse, the creation, a change, a reset and another change.
  The structs have a scalar of each width, typedefs, a qualified member, an
  array of scalars, of structs and of a typedef, a union without a name whose
  members are of different sizes, a struct with and one without a name; another
  file has a different struct of the same name.  The values are those whose
  bytes and signs differ.  The aliases form a chain, one stands for an
  expression, and expressions are shared by the instructions.

Deadlock is checked in every run but `nested_run`, where a `Caller` that was
never set may be read (`mode` "undefined"), after which anything may happen and
the model goes no further.  Where the system may really rest, a
stuttering action says so: the process has ended or the interpreter is gone
(`Stopped`), all sections are emitted (`Done`), the generator has ended
(`Ended`), the user stops using the proxy or the session (`Leave`).

### What the properties are about

- `TranslationExact`: nearest start and nearest end are searched in two
  independent maps, and the answer counts only if both point to the same
  list node.  For every address in and around the window this equals the region
  that covers it; all else is null or left alone.
- `BlocksAccounted`, `FreshAfterReset`: after any sequence of allocations and
  resets the host's blocks are those the map shows, and the generator, its mark
  and the list of allocations agree.
- `ImplementsAddressSpace`: each step of `add` and `free`, which touch three
  structures, changes the set of regions by one whole region.
- `ResultsFromCallee`, `StoppedAtCall`, `CallsReachTarget`: the three pieces of
  state a stop leaves behind (instruction pointer, running instruction, frame)
  are about one call, and what comes back goes to it.
- `MemoryHoldsAddresses`: a host address must not outlive the frame it came
  from.  It is claimed of programs whose stores are typed as pointers to
  functions, or store what was loaded as it is (`TypedStores`); of the others it
  would be false.
- `EmulatesLinker`: for sections with one global per input section, of the
  symbols' type, with as many digits in all priorities of a level, and without
  another object that shares the prefix (`Plain`), the array is the linker's,
  which sorts by priority.  `OnlyOwnElements` and `NamesCovered` say what is left
  of it for the others: each input section has a place of its own, in order, with
  its last global there, or null if that is of another type.  In what `Plain`
  excepts the code does differ from a linker: elements of priority 10 come before
  those of priority 5, as their names are compared as strings, and
  `._net_if_dev.static.x` also gets into the array of `net_if`, since only the
  start of a name is compared.
- `LinksAsMeant`, `NothingHalfPut`: what the recursion and the registration
  before writing must not break.
- `MapsAgree`: `objectMap` and `reverseObjectMap` are not inverse to each other.
  An object read from the address of another one takes its place in `objectMap`,
  and both stay in `reverseObjectMap`, the case `proxy.py:20-22` calls unsolved.
  What does hold is that `objectMap` has at an address an object registered
  there, hence the only one if there is one only.
- `TypeOK` of `StructProxy` bounds the depth of `put`: dropping a
  cached reference before following it is what ends the recursion on cycles.

- `NotReentered`, `PrintedOnce`, `NeedsDefinedEarlier`: a type is marked before
  the types it depends on are generated, so that cycles end; Python, which
  executes the printed module from top to bottom, needs each name to be there when
  it is looked up.  This is about names only: whether the text of a block is Python
  is another matter (that of an array of pointers or an alias of one may not be),
  and text is left out.  What is excepted is said by the property: cycles have no order, two types of
  one name, and types behind a qualifier, which are not generated.
- `EveryStructHasClass`, `FieldsFound`: the generator and libirx search by name
  in different sets of types; what one prints the other must find.
- `AccessRight`: the indices of the debug info, walked over the IR type, whose
  shape differs, lead to the offset C gives the field, and no access aborts but
  for a struct that IR does not have and for elements of an array that are
  structs or pointers to `void`: for those the debug info has no size, or no
  type where one is asked for.  `RoundTrip` adds the
  conversions and the fields around: what was written is read again, whatever
  else was written since.  `Lossy` names the types for which it is not: numbers
  that come back with the other sign, single characters, booleans (every value
  of the model is true) and elements of arrays without a size.  Fields that are
  `Narrow` are excepted too: what is converted does not fit into them.
- `CachesExact`: parsing between look-ups.  What a cache may get wrong is said
  exactly: a name that was looked up before the last parse.
- `CleanIsImage`, `FlagsKept`: a reset leads back to the image of the creation,
  whatever was parsed or set in the module meanwhile; the faked flags are gone.
- `OperandsKeepMeaning`: the replacement and its undoing, over any sequence of
  instructions that share expressions.  An alias may come back as another alias
  of the same global, as both have one key in `Values`; the property shows that
  this is all that happens, except for expressions an instruction comes to
  twice.

### Fairness

- `MapAllocator`: the two loops that free do not pause, so weak fairness on
  them while they are under way (`LoopsEnd`).  Nothing obliges the user to
  start a reset.
- `Execution`: weak fairness on `Run`.  `run()` has the only thread and
  loops.  `RunReturns` is stated for programs without a jump back; a program
  with one need not return.  The bound on frames disables a call, and none of
  those programs reaches it.
- `StructProxy`: a call of `put` that has begun goes on (`PutEnds`).
- `GeneratorStruct`: one thread that goes on.  No liveness is claimed: that the
  recursion ends is shown by `NotReentered`, as each name is entered once.
- `Sections` and `Session` need none: their properties are safety.

## 4. Proofs

### The memory map

`MapAllocatorProofs` proves for every set of host blocks and list nodes, every
set of sizes and every window, assuming only that sizes, the first address and
the length of the window are natural numbers (`SizeAssumption`,
`WindowAssumption`):

| Theorem | Statement |
|---|---|
| `Inductive` | `Spec => []IInv` |
| `TypeCorrect` | `Spec => []TypeOK` |
| `NeverAborts` | `Spec => []NoAbort` |
| `Translation` | `Spec => []TranslationExact` |
| `RoundTrip` | `Spec => []BaseRoundTrip` |
| `CleanReuse` | `Spec => []FreshAfterReset` |
| `NoLeak` | `Spec => []BlocksAccounted` |
| `Refinement` | `Spec => ImplementsAddressSpace` |
| `GlobalsUntouched` | `Spec => GlobalsStay` |

None of the properties is inductive by itself.  `TypeOK` alone does not say
that the node at a start address is the node at the matching end, without which
a `free` may erase another allocation's end.  The inductive invariant is
`IInv == TypeOK /\ MapInv /\ SessionInv`:

- `MapInv`, about the structures: the two maps have matching keys that lead to
  the same node (`EndsMatch`); allocations with their one-past-the-end addresses
  are disjoint (`Disjoint`); no two show one host block (`BlocksDiffer`), which
  `remove_if` by host block relies on; all lie below the generator
  (`InWindow`).
- `SessionInv`, about the interpreter's life: blocks the allocator owns are
  those of the C heap and not the engine's; once frozen there is one mark,
  globals lie below it in the engine's memory, and the recorded allocations
  are exactly those above it, each once (`Frozen`).

The argument: `AdvanceRoom` (rounding leaves room for the one-past-the-end
address) gives that `find` misses for a fresh address (`FindMiss`), so that the
overlap check never fires (`AddStep`); `FindCovered` gives that `find` on a
live base succeeds, so that `free` never misses (`FreeStep`).  `PutView` and
`FreeView` say what the two do to the regions.  Each action then preserves
`IInv` by a lemma of its own, `NextIInv` combines them.  `NoLeak` needs one
more direction, that each held block is shown (`BlocksShown`), preserved along
with `IInv`; the destructor frees the globals' regions before their memory, so
that part is claimed only up to then.  `Refinement` goes through `StepRegions`.

### Execution

`ExecutionProofs` proves for every set of functions, every list of programs, all
lists the user may give and all function pointers the user may write.  The
assumptions are those of `Execution`: a program's bodies are well formed
(`ProgramAssumption`: a body ends in a return, jumps within itself, and calls
through, casts and stores pointers it has loaded or cast before, calling through
what is typed as a pointer to function), functions with a body are functions
(`FunctionAssumption`), and the user's lists and pointers are of functions
(`FlowAssumption`).  The bound on frames is any number (`BoundAssumption`).

| Theorem | Statement |
|---|---|
| `Inductive` | `Spec => []IInv` |
| `TypeCorrect` | `Spec => []TypeOK` |
| `StopsAtCall` | `Spec => []StoppedAtCall` |
| `MemoryIsAddresses` | `Spec => []MemoryHoldsAddresses` |
| `CallsReach` | `Spec => CallsReachTarget` |
| `ResultsReachCalls` | `ASSUME ~ MayNest PROVE Spec => []ResultsFromCallee` |
| `Implements` | `ASSUME ~ MayNest PROVE Spec => ImplementsCallStack` |

The last two hold as long as the user runs no function while another one is
stopped; the run `nested_run` shows what happens otherwise.

The inductive invariant `IInv` says of each frame what its registers hold, by
the instruction they belong to (`Holds`), and of each pair of frames that the
lower one waits for the upper one (`Waits`): its `Caller` is the call of that
function, and it stands right behind it.

- `MemoryHoldsAddresses` is not inductive: what a store writes comes from a
  register, what a load reads is cast.  `Loaded` says what the register of a load
  or a cast may hold, `Kept` what memory may: in a program with typed stores,
  function pointers as they are in memory, and in registers also as an indirect
  call has left them; in any other, also what is left of a host address.
  `Resolved` says that `vptr2vvptr` leads back from both forms, `Stores` what a
  store then writes.
- `ResultsFromCallee` needs `Waits`: a return fills the register `Caller` names.
  `Returned` is that lemma; `Pushed` and `StepVisitCall` establish `Waits`.
- `StoppedAtCall` must survive `putReturnValue`, which overwrites a register:
  it is the call's, and the pointer called through is that of a load or a cast (`Through`).
- `CallsReachTarget` needs `Loaded` too: the function a call means is found
  from either form of a pointer (`TargetFound`).
- `Implements` maps the stack frame by frame (`Seen`).  `As...` are the steps of
  the abstract machine, `Impl...` lead each action to one of them; that a return
  fills the call behind which the caller stands is `Waits` again.

### The proxy

`StructProxyProofs` proves for any finite set of objects that refer to each
other in any way, any struct and any number of calls.  It assumes that the names
of the fields are a sequence (`FieldAssumption`), that no value is mistaken for
uninitialised memory (`ValAssumption`), that addresses are positive and members
lie behind them (`AddressAssumption`; that a member of one struct is not another
struct is not used), and that there are finitely many objects
(`ObjectAssumption`).

| Theorem | Statement |
|---|---|
| `Inductive` | `Spec => []IInv` |
| `TypeCorrect` | `Spec => []TypeOK` |
| `MapsAlwaysAgree` | `Spec => []MapsAgree` |
| `PutWhole` | `Spec => []NothingHalfPut` |
| `WrittenAsMeant` | `Spec => LinksAsMeant` |

The properties speak of the memory when a put has ended; the invariant has to
say what holds in the middle of one.

- `Registered` is `MapsAgree` with what keeps it: an object that has an address
  has memory there, and an object's address never changes.
- `Depth` bounds the stack: a put that another one calls over a reference has
  taken that reference away (`OneLessCached`), and only the outermost is deep.
  This is why `put_cache` clears `ptr.cache` before it descends; without it a
  cycle would recurse for ever.
- `Unwritten` says that what has been allocated and not written belongs to an
  object on the stack, which gives `PutWhole` when the stack is empty.
- `AllGoing` says that a put has left no reference in the fields it has passed,
  and that the object it waits for has got an address.
- `Linked` says where what the user meant is at any time: in the reference, in
  the pointer (`Resolved`), or in a put that waits (`Awaited`).  When a struct is
  written the first and the last are excluded, so that the pointer is right.
  It claims nothing once an exception has come out of a put, for a retry finds
  the reference gone.

Each step preserves the invariant by a lemma (`PutCacheStep` and so on); what
they have in common is `Entered` (a put begins), `Replaced` (the innermost put
goes on), `Called` (it calls another) and `Between` (there is none).

### Linker sections

`SectionsProofs` proves all five properties of the run for every table of
sections, every set of section names and every module.  It assumes of the
constants what their comments in `Sections` say: section names are told apart
by object, level and place in the order of strings, which is that of the
priorities where those have as many digits (`NameAssumption`); no two
tables are of one object or of a static one, and a table lists each level once,
under names that are not those of the symbols of start and end
(`NativeAssumption`); the names of static objects are not empty
(`ObjectAssumption`).

| Theorem | Statement |
|---|---|
| `Inductive` | `Spec => []IInv` |
| `TypeCorrect` | `Spec => []TypeOK` |
| `OwnElements` | `Spec => []OnlyOwnElements` |
| `AllCovered` | `Spec => []NamesCovered` |
| `SymbolsPart` | `Spec => []LevelsPartArray` |
| `Emulation` | `Spec => []EmulatesLinker` |

The properties speak of arrays that are done.  The invariant has to say what
has been collected in the middle of a module: which globals the map holds, that
each is the last one of its section name so far, and that the list has the
levels of the table first and then, for a static section, those met.  What is
done is said finder by finder, and a finder that is still to do has no array
and no symbols: no symbol is shared between tables.

The order rests on `Arrangement` of `DataLemmas`: a finite set on which an
order is total and has no cycles can be listed in that order, and in one way
only.  Its proof is by a least counterexample to the existence of a rank, as
are those of the lemmas on segments.  `LevelsPartArray` needs that the elements
of earlier levels are an initial segment of the array, so that their number is
where the level starts.

### Sessions

`SessionProofs` proves for every set of types and programs and any number of
calls.  `StructAccessProofs` has what it needs of types, paths, offsets and
conversions.  Assumed is what a compiler makes:

- of programs (`ProgramsAssumption` of `Session`): the struct types of a file
  have names, a global is thread-local in all files or in none, initialisers are
  words, expressions and instructions have operands, and no constant is a part
  of itself;
- of the metadata: it is finite and closed (`TypesAssumption`), a type does not
  contain itself but over a pointer (`ContainmentAssumption`), members have
  names that are no numbers, or are structs and unions without one
  (`FormAssumption`), and the names of the fields of a type are distinct, as the
  scopes of C demand (`ScopeAssumption`);
- of the layout: sizes, alignments and offsets are natural numbers, and an array
  has the size of its elements (`SizeAssumption`); members lie inside of their
  struct and, but for those of a union, behind each other (`LayoutAssumption`);
  and a struct in IR has the members of the one in C and no others (`Offset`);
- of values: those of the model (`DataAssumption`), and that the numbers of C are
  as wide as those of Python's `struct` (`WidthAssumption`).

| Theorem | Statement |
|---|---|
| `Inductive` | `Spec => []IInv` |
| `TypeCorrect` | `Spec => []TypeOK` |
| `CachesRight` | `Spec => []CachesExact` |
| `ResetRestores` | `Spec => []CleanIsImage` |
| `FlagsRestored` | `Spec => []FlagsKept` |
| `MeaningHolds` | `Spec => []OperandsKeepMeaning` |
| `AccessGoesRight` | `Spec => []AccessRight` |
| `RoundTrips` | `Spec => []RoundTrip` |

- `CachesExact` must survive a parse, file by file, and a parse that stops half
  way.  A search answers with the first type of the name; with one more file
  behind the others it still does (`StillFound`), but for types of globals, which
  come before those of functions of all files: then there are two types of the
  name, which is what `Ambiguous` says (`TwoAmbiguous`).  The debug info that is
  known is always that of the files linked first (`Contained`), so that its
  first hit stays the first (`StillKnown`).  While a parse goes on each name in
  a cache is one that was looked up before it (`Caches`).
- `CleanIsImage` compares two memories.  `Initialised` says of each that a word
  with an initial value in the clone has that value; the image always has been
  initialised, the memory is when nothing was written since.  The clone's
  initialisers never change, which is what the variant of `setInitializer`
  breaks.
- `FlagsKept` is about all files that are linked.  `Flagged` says of each global,
  in the module and in the clone, that its flag is that of some file of the
  program; as files agree, it is that of all.  `Restored` is the lemma that
  faking the flags and restoring them changes nothing.
- `OperandsKeepMeaning` compares two recursions that meet in a map.  `Meaning` is
  its invariant, on top of `IInv`.  That an operand means the same is in what
  the two functions hand on (`Fixing`): each operand, and each entry of `Values`,
  is something that resolves to the same, or null.  That nothing is lost is
  said of places, an expression and the number of an operand (`Places`).  Behind
  a replacement all places an operand leads to are `Kept`: no alias stands there,
  and `Values` has an entry for what does (`FixKeeps`); this is never undone while
  other operands are replaced (`Grows`).  Restoring an operand changes only the
  places it leads to (`OnlyAt`), each of them once if it is not reached twice,
  and finds what is kept (`RestoreKeeps`); a second visit looks up an operand that
  has been put back already, and may find nothing, which is why `Twice` is
  excepted.  `Evaluates` is why no alias is left for LLVM's interpreter: where all
  places are kept the first operands lead from expression to expression down to
  a global.  All three functions, and `visited`, satisfy their equations by
  `Recursion`, since constants do not contain themselves (`PartsDescend`), and
  what is said of all operands is shown by `Descent`: if it holds of an operand
  whenever it holds of its parts, it holds of all.
- `AccessRight` follows from `IInv` and one lemma about types, `FieldReached`: for
  each exposed field of a type, the indices `GEP` finds for its path lead over
  the IR type to its offset, and the last of them is that of its type.  It is
  shown by `Descent` from a type to its parts: a member, an element of an array,
  a member of a member without a name.  A walk over indices in a row is a walk
  over the first and then over the others (`WalkOn`); a search that goes through
  members without a name finds the one field of the name, as names are distinct;
  and where a union is crossed, its member in IR begins at the same offset.  The
  session adds that both caches hold types of the name, which are the same type
  unless the name is ambiguous (`BothMeant`).
- `RoundTrip` needs a stronger invariant, `Stored`, on top of `IInv`: for each
  field in the history, the value has been converted, by the type and to the size
  the access finds today, and its bytes are those in the object.  A write
  changes the bytes of one field only, and fields that are kept in the history
  share none with it (`Disjoint`, `OwnBytes`, `OtherBytes`); the object does not
  get shorter because a field ends inside it (`FieldsFit`).  Entries of
  the caches stay (`EntriesStay`), so that a parse in between does not change how a
  field is read.  `ReadBack` is the lemma about the conversions: bytes that begin
  with what `toBytes` has made of a value are read by `fromBytes` as the value,
  or as much of a string as there is room for; `PackFits` says that the number
  written is not wider than the field, for which `Narrow` has to be excepted.

### The generator

`GeneratorStructProofs` proves for every module, however its types are nested
and refer to each other, in any order of its structs and of its metadata.  It
assumes that the metadata is finite and closed (`TypesAssumption`,
`InputAssumption`: LLVM's `DebugInfoFinder` visits all a type consists of) and is
that of C: no type is a qualified form of itself (`QualifierAssumption`), a
typedef has a name, pointers, arrays and qualified types have none, members
without a name are structs or unions without one, and no such type is a part of
itself (`FormAssumption`).  Only `PathsFound` needs that a struct has each name
of a member once, those of members without a name included (`ScopeAssumption`).  Of typedefs,
pointers and named structs no such order is assumed: they may form any cycle.

| Theorem | Statement |
|---|---|
| `Inductive` | `Spec => [](IInv /\ JInv)` |
| `TypeCorrect` | `Spec => []TypeOK` |
| `NeverReentered` | `Spec => []NotReentered` |
| `OncePrinted` | `Spec => []PrintedOnce` |
| `DefinedEarlier` | `Spec => []NeedsDefinedEarlier` |
| `MentionsThere` | `Spec => []MentionsDefined` |
| `ClassForEveryStruct` | `Spec => []EveryStructHasClass` |
| `PathsFound` | `Spec => []FieldsFound` |

`IInv` is about marks and holds whatever types are.  A name is printed when it
has been marked for a while, so `Printed` says that no activation has a name
that was printed, and `Marked` that no two activations have the same one, which
holds as a type is marked before the types it depends on are generated.

`JInv` is about dependencies.  What has been printed is not to say what it
needs: the invariant has to say it of a type that is still being generated.

- `Open(t)` are the types that `generate_struct` comes to from `t`, going on
  only through types without a name, which are never marked.  `UsesOpen` and
  `MentionsOpen` show that all that a printed block looks up is among them: this
  compares `resolve2`, which decides what is generated, with `print`, which
  decides what is needed.
- `Waiting` says of each activation that a type it depends on is left, has been
  handled, or is the activation above.  A type without a name has been handled
  when all names of its `Open` types are marked.  When the top has nothing left,
  its names are marked (`EnteringPops`).
- A name that is marked was printed or is on the stack (`Known`).  If it is on
  the stack its type leads to the top, which is the exception for cycles; if its
  type is another one, two types share the name (`TopReady`).  So what is
  printed is `Ready`.
- `Visited` is the loop of `generate`: the struct names behind it are marked,
  blocked, empty or without a type.

- `FieldsFound` compares two recursions: `fields`, over the members that are
  printed in place, and the search of `GEP2MemberInfo`, which takes the first
  member that leads to the name.  `FoundNamed` says that a member that leads to
  it has it in C, so that there is only one (`OnlyBearer`), and `FieldFoundStep`
  that the two then come to the same member.

`resolve`, `fields`, the closure behind `LeadsTo` and the search are recursive;
that they satisfy their definitions is shown by `Recursion`, since qualifiers,
nested structs without a name, and sets of types that only grow come to an end.

### What is model-checked only

Liveness (`LoopsEnd`, `RunReturns`, `PutEnds`), which is out of the prover's
reach.  Every invariant and every action property of the passing runs is a
theorem.  Of the runs that expect a violation nothing is proved: a
counterexample is what they are for.

## 5. What is left out, and why

- A data race or a crash with recovery does not arise: one thread, nothing
  persisted.
- Host allocation does not fail (LLVM's `safe_malloc` ends the process when it
  does).  Host blocks are told apart by identity; an address inside a host
  block is a block and an offset.
- Addresses are unbounded naturals.  The window is 128 MB from 0x50000000 in
  the code, far below where a `uintptr_t` wraps; a size so close to its limit
  that the sum does wrap is one the host could not have allocated before.
- In `Execution`: arithmetic, `alloca`, memory beyond cells of one pointer,
  varargs, `exit` called from the program.  `NoFunction` stands for a pointer
  to no function.  Casts are those between pointers; a pointer that is turned
  into a number is not.  Of a host address cut to the width of the program's
  pointers the model says that it is no address the program has.  Functions do
  not return function pointers.
- In `Sections`: the text of section names, the replacement of uses by
  constant expressions, attributes of the emitted globals.
- In `StructProxy`: objects embedded in objects, arrays, `container_of`
  without `force_new`, collection of Python objects and reuse of `id()`, resets
  while the proxy is in use.
- In `GeneratorStruct`: the text of a block, the comment with the graph of the
  types, the names of basic types in Python.
- In `StructAccess`: bytes over the end of the struct (a string that is too long
  for the last field), values between the extreme ones, `char` given as a
  number, the older `getStructFieldInfo`, which the binding does not call.
  In `StructLayout`: bit-fields, and members of more than their natural alignment:
  the compiler puts members of its own between them in IR, and libirx, which
  counts the members of C, would take those.
  Structs of one name that differ are excepted from `AccessRight` and
  `RoundTrip`: libirx means to reject them (`irinterpreter2-struct.cc:164`), but
  compares each type with itself, and works with the first.
- In `Session`: the memory map (that is `MapAllocator`), the memory of the first
  interpreter when `createInterpreter` is called again, which is never freed,
  verification of modules, constants that cannot be parsed (they change
  nothing), and the assertion LLVM's own debug builds have on the type of an
  initialiser.
- Not modelled at all: `MMapAllocator` and `LLVMGlobalVariableAllocator`, which
  nothing instantiates, logging, extraction of blobs, generated types, scripts,
  tests and build files.

## 6. Where the code and its documents disagree

Each of these has a run that reaches the state.

- `call_arguments` (`ArgsOfStoppedCall`): `getCurrentCallArgs` evaluates
  `SF.Caller`, which a stop has not set yet; at the first stop in a frame it
  is uninitialised.  `run_test_zephyr.py:228-231` asks for the arguments of the
  stopped call.
- `stop_through_pointer` (`StopHonoured`): the address of a declared function is
  null, so a call through a pointer to it is not stopped.
  `pyirinterpreter.pyx:372` promises to stop at the functions of the list.
- `nested_run` (`DebuggerInvokedFn`): a function run while another one is
  stopped returns into a frame whose `Caller` may be a call made before.
  `Interpreter.h:63-64` says that `Caller` is null for a function the debugger
  invoked.
- `section_end` (`EndBehindLast`): the end symbol is emitted one element behind
  the end; `irinterpreter2-sections.cc:352-356` expects the index to be the
  number of elements.
- `mandatory_start` (`MandatoryHasStart`): an empty mandatory section gets an
  end symbol and no start symbol; `irinterpreter2-sections.cc:451` says it is
  required even if empty.
- `deep_put` (`DeepUploads`): a deep put goes one level down;
  `libirx/test-appl/dlist/run_dlist.py:70-73` offers it for a whole list.

## 7. Plan

Modelled first: the memory map, because every access goes through it; then
execution, sections and the proxy; then the types, the generator and the
session.  What follows, in this order:

1. The proxy over a session: resets, reuse of addresses and of `id()`.
2. `PointerMemory`: loads and stores of pointers of the program's width.
3. `MMapAllocator` as a second implementation of `AddressSpace`; `Diff`.

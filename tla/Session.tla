------------------------------- MODULE Session -------------------------------
(***************************************************************************)
(* The calls of a client in any order: parsing files into the module,      *)
(* creating the interpreter from a clone of it, changing initialisers,     *)
(* running instructions, writing globals, resetting, and the accesses to   *)
(* structs.                                                                *)
(*                                                                         *)
(* A global is a sequence of words.  Its memory is the interpreter's; what *)
(* it starts with is its initialiser in the clone, and the names of the    *)
(* types and their debug info are looked up in the module.                 *)
(***************************************************************************)
EXTENDS StructAccess

CONSTANTS
  Programs,   \* what clients work with, see MCSession
  Value,      \* the words of initialisers
  Null        \* the null pointer in place of an operand

Word == Value \union {"0", "undef", "stale", "client", "program"}
GlobalVariable == [init : Seq(Word), tls : BOOLEAN, size : Nat]
Files(p) == UNION {Range(files) : files \in p.parses}

OperandOf(p) == DOMAIN p.aliases \union DOMAIN p.exprs \union p.uses
Refers(p, x) == IF x \in DOMAIN p.aliases THEN {p.aliases[x]} ELSE Range(p.exprs[x])

\* The struct types of a file have names, a global is thread-local in all files
\* or in none, and a client gives initialisers that there are.  Expressions and
\* instructions have operands, and no constant is a part of itself.
ASSUME ProgramsAssumption ==
  \A p \in Programs :
    /\ \A files \in p.parses : files \in Seq(Range(files))
    /\ \A f \in Files(p) :
         /\ {f.inGlobals, f.inFunctions} \subseteq Seq(Structs) /\ f.types \in Seq(Node)
         /\ f.globals \in [DOMAIN f.globals -> GlobalVariable]
         /\ \A h \in Files(p) : \A g \in DOMAIN f.globals \intersect DOMAIN h.globals :
              f.globals[g].tls = h.globals[g].tls
    /\ p.constants \subseteq Seq(Word)
    /\ DOMAIN p.aliases \intersect DOMAIN p.exprs = {} /\ Null \notin OperandOf(p)
    /\ p.aliases \in [DOMAIN p.aliases -> OperandOf(p)]
    /\ p.exprs \in [DOMAIN p.exprs -> Seq(OperandOf(p)) \ {<< >>}]
    /\ p.instructions \subseteq Seq(OperandOf(p)) \ {<< >>}
    /\ \A S \in SUBSET (DOMAIN p.aliases \union DOMAIN p.exprs) :
         S # {} => \E x \in S : Refers(p, x) \intersect S = {}

VARIABLES
  program,    \* the one of this behaviour
  parsing,    \* the files a parse has still to link
  module,     \* the globals of the module: initialiser, thread-local flag, size
  clone,      \* those of the interpreter's clone
  created,    \* there is an interpreter
  memory,     \* the words of the globals in the interpreter
  operands,   \* the operands of the clone's constant expressions
  image,      \* history: memory when the interpreter was created
  clean       \* history: nothing was written since the creation or a reset

sessionVars == <<program, parsing, module, clone, created, memory, operands, image, clean>>

\* What only a parse changes.
parseVars == <<program, parsing, linked, known, early>>

\* A declaration has no initialiser.
Declared(m) == {g \in DOMAIN m : m[g].init = << >>}
Words(n, w) == [i \in 1 .. n |-> w]

-----------------------------------------------------------------------------
(* Parsing.                                                                 *)

\* Linker::linkModules, a definition in place of a declaration.
linkModules(m, globals) ==
  [g \in DOMAIN m \union DOMAIN globals |->
     IF g \in DOMAIN m \ Declared(m) \/ g \notin DOMAIN globals THEN m[g] ELSE globals[g]]

Clash(m, globals) == (DOMAIN m \ Declared(m)) \intersect (DOMAIN globals \ Declared(globals))

\* What is declared only becomes a definition, of zeros.
defineExternals(m) ==
  [g \in DOMAIN m |->
     IF g \in Declared(m) THEN [m[g] EXCEPT !.init = Words(m[g].size, "0")] ELSE m[g]]

Parsing == status = "parsing"
cloneVars == <<clone, created, memory, operands, image, clean>>

parseIRFiles(files) ==
  /\ Call
  /\ status' = "parsing" /\ parsing' = files
  /\ early' = early \union DOMAIN STCache \union DOMAIN DICache
  /\ UNCHANGED <<accessVars, cloneVars, linked, known, program, module>>

\* The files are linked one by one, up to one that cannot be loaded.  A second
\* definition of a global ends the process.
load ==
  /\ Parsing /\ parsing # << >>
  /\ LET f == Head(parsing)
     IN  IF f.missing
         THEN status' = "running" /\ parsing' = << >> /\ UNCHANGED <<linked, module>>
         ELSE IF Clash(module, f.globals) # {}
         THEN status' = "exited" /\ UNCHANGED <<parsing, linked, module>>
         ELSE /\ module' = linkModules(module, f.globals)
              /\ linked' = Append(linked, f)
              /\ parsing' = Tail(parsing)
              /\ UNCHANGED status
  /\ UNCHANGED <<accessVars, cloneVars, program, calls, early, known>>

\* Behind the last one its debug info is collected.
processModule ==
  /\ Parsing /\ parsing = << >>
  /\ module' = defineExternals(module)
  /\ known' = linked
  /\ status' = "running"
  /\ UNCHANGED <<accessVars, cloneVars, program, calls, early, parsing, linked>>

-----------------------------------------------------------------------------
(* The interpreter and its globals.                                         *)

\* So that the engine does not initialise them with pointers of the host's
\* size, all globals are thread-local while it is created.
fakeSetIsThreadLocalGlobals(m) ==
  [g \in DOMAIN m |-> IF g \in Declared(m) THEN m[g] ELSE [m[g] EXCEPT !.tls = TRUE]]

\* Variant: they stay thread-local.
restoreThreadLocal_Not(m, isThreadLocal) == m
restoreThreadLocal(m, isThreadLocal) ==
  [g \in DOMAIN m |-> [m[g] EXCEPT !.tls = isThreadLocal[g]]]

\* What is undefined or behind the initialiser stays as it is.
\* Variant: the memory becomes the initialiser.
InitializeMemory_Whole(init, words) ==
  [i \in DOMAIN init |-> IF init[i] = "undef" THEN words[i] ELSE init[i]]
InitializeMemory(init, words) ==
  [i \in DOMAIN words |-> IF i \in DOMAIN init /\ init[i] # "undef" THEN init[i] ELSE words[i]]

InitializeGlobals(m, mem) ==
  [g \in DOMAIN m |-> IF m[g].tls THEN mem[g] ELSE InitializeMemory(m[g].init, mem[g])]

\* A global that is declared only ends the process.  A second call replaces
\* the interpreter; the first one is not deleted.
createInterpreter ==
  LET isThreadLocal == [g \in DOMAIN module |-> module[g].tls]
      faked  == fakeSetIsThreadLocalGlobals(module)
      cloned == restoreThreadLocal(faked, isThreadLocal)
      fresh  == [g \in DOMAIN module |-> Words(module[g].size, "stale")]
  IN  /\ Call
      /\ IF Declared(module) # {}
         THEN /\ status' = "exited"
              /\ UNCHANGED <<module, clone, created, memory, image, clean, operands,
                             object, written, answer>>
         ELSE /\ clone' = cloned /\ created' = TRUE
              /\ memory' = InitializeGlobals(cloned, fresh)
              /\ module' = restoreThreadLocal(faked, isThreadLocal)
              /\ image' = memory' /\ clean' = TRUE
              /\ operands' = program.exprs
              /\ object' = NoObject /\ written' = << >> /\ answer' = NoAnswer
              /\ UNCHANGED status
      /\ UNCHANGED <<parseVars, STCache, DICache>>

\* Structs are freed, globals get the initialisers they have in the clone.
resetExtraAllocations ==
  /\ Call /\ created
  /\ memory' = InitializeGlobals(clone, memory)
  /\ clean' = TRUE
  /\ object' = NoObject /\ written' = << >> /\ answer' = NoAnswer
  /\ UNCHANGED <<parseVars, STCache, DICache, status, module, clone, created, operands, image>>

\* Variant: the interpreter runs the module itself.
setInitializer_Shared(g, constant) ==
  /\ Call /\ g \in DOMAIN module
  /\ module' = [module EXCEPT ![g].init = constant]
  /\ clone' = IF g \in DOMAIN clone THEN [clone EXCEPT ![g].init = constant] ELSE clone
  /\ UNCHANGED <<parseVars, accessVars, status, created, memory, operands, image, clean>>

\* The initialiser of the module's global.  No string stands for the null
\* pointer, of whatever size the global is.
setInitializer(g, constant) ==
  /\ Call /\ g \in DOMAIN module
  /\ module' = [module EXCEPT ![g].init = IF constant = << >> THEN <<"0">> ELSE constant]
  /\ UNCHANGED <<parseVars, accessVars, cloneVars, status>>

\* memcpy to the global; one that is not found is at address zero.
irx_set_global(g, n) ==
  /\ Call /\ created
  /\ IF g \in DOMAIN clone
     THEN /\ n <= clone[g].size
          /\ memory' = [memory EXCEPT ![g] = Words(n, "client") \o SubSeq(@, n + 1, Len(@))]
          /\ clean' = FALSE
          /\ UNCHANGED status
     ELSE status' = "aborted" /\ UNCHANGED <<memory, clean>>
  /\ UNCHANGED <<parseVars, accessVars, module, clone, created, operands, image>>

-----------------------------------------------------------------------------
(* Aliases in the operands of constant expressions.  While an instruction   *)
(* runs they are replaced by what they stand for.                           *)

IsAlias(x) == x \in DOMAIN program.aliases
IsExpr(x)  == x \in DOMAIN program.exprs

Operand == OperandOf(program)

resolveAliasesOperand[x \in Operand] ==
  IF IsAlias(x) THEN resolveAliasesOperand[program.aliases[x]] ELSE x

\* What may stand in the place of an operand: what means the same, or null.
Alike(x) ==
  {y \in Operand : resolveAliasesOperand[y] = resolveAliasesOperand[x]} \union {Null}

\* What the two functions hand on: the operands, what has been replaced, by what
\* took its place, and whether null was dereferenced.
Fixing ==
  [operands : {o \in [DOMAIN program.exprs -> Seq(Operand \union {Null})] :
                 \A e \in DOMAIN program.exprs :
                   /\ Len(o[e]) = Len(program.exprs[e])
                   /\ \A i \in DOMAIN o[e] : o[e][i] \in Alike(program.exprs[e][i])},
   Values   : {V \in [Operand -> Operand \union {Null}] :
                 \A x \in Operand : V[x] \in Alike(x)},
   crashed  : BOOLEAN]

Crash(acc) == [acc EXCEPT !.crashed = TRUE]

\* The functions of a sequence, applied in turn.
InTurn(fs, acc) ==
  LET done[n \in 0 .. Len(fs)] == IF n = 0 THEN acc ELSE fs[n][done[n - 1]]
  IN  done[Len(fs)]

\* One operand replaced: what it was is kept by what takes its place.
\* Variant: kept by itself.
Replace_ByItself(acc, V, i, Op) ==
  [acc EXCEPT !.Values[acc.operands[V][i]] = acc.operands[V][i], !.operands[V][i] = Op]
Replace(acc, V, i, Op) ==
  [acc EXCEPT !.Values[Op] = acc.operands[V][i], !.operands[V][i] = Op]

\* The operands of V from the first to the last, each with what it consists of.
\* A null operand is dereferenced.
fixOperands(V, fixed) ==
  LET fix(i, acc) ==
        LET Op == resolveAliasesOperand[acc.operands[V][i]]
        IN  IF acc.crashed \/ acc.operands[V][i] = Null THEN Crash(acc)
            ELSE fixed[Op][Replace(acc, V, i, Op)]
  IN  [i \in DOMAIN program.exprs[V] |-> [acc \in Fixing |-> fix(i, acc)]]

fixAliasesOperands[V \in Operand] ==
  [acc \in Fixing |-> IF IsExpr(V) THEN InTurn(fixOperands(V, fixAliasesOperands), acc) ELSE acc]

\* One operand given back: null, if it is not among the replaced ones.
PutBack(acc, V, i) == [acc EXCEPT !.operands[V][i] = acc.Values[acc.operands[V][i]]]

restoreOperands(V, restored) ==
  LET restore(i, acc) ==
        IF acc.crashed \/ acc.operands[V][i] = Null THEN Crash(acc)
        ELSE restored[acc.operands[V][i]][PutBack(acc, V, i)]
  IN  [i \in DOMAIN program.exprs[V] |-> [acc \in Fixing |-> restore(i, acc)]]

restoreAliasesOperands[V \in Operand] ==
  [acc \in Fixing |->
     IF IsExpr(V) THEN InTurn(restoreOperands(V, restoreAliasesOperands), acc) ELSE acc]

\* What LLVM's interpreter comes to from an operand: the global the first operand
\* of an expression leads to.  It follows an alias to a global only.
getConstantValue(x, acc) ==
  LET base[y \in Operand \union {Null}] ==
        IF y = Null THEN Null
        ELSE IF IsExpr(y) THEN base[acc.operands[y][1]] ELSE resolveAliasesOperand[y]
  IN  base[x]

\* An instruction stores to the global its first operand is about.  An alias as
\* the operand itself is followed, but nothing in what it stands for is replaced.
runInstruction(I) ==
  LET start == [operands |-> operands, Values |-> [x \in Operand |-> Null], crashed |-> FALSE]
      fixed == InTurn([i \in DOMAIN I |-> fixAliasesOperands[I[i]]], start)
      done  == InTurn([i \in DOMAIN I |-> restoreAliasesOperands[I[i]]], fixed)
      to    == getConstantValue(resolveAliasesOperand[I[1]], fixed)
  IN  /\ Call /\ created /\ program.uses \subseteq DOMAIN clone
      /\ IF fixed.crashed \/ to = Null
         THEN status' = "aborted" /\ UNCHANGED <<memory, operands, clean>>
         ELSE IF IsExpr(to)
         THEN status' = "unreachable" /\ UNCHANGED <<memory, operands, clean>>
         ELSE /\ status' = IF done.crashed THEN "aborted" ELSE status
              /\ memory' = [memory EXCEPT ![to][1] = "program"]
              /\ clean' = FALSE
              /\ operands' = done.operands
      /\ UNCHANGED <<parseVars, accessVars, module, clone, created, image>>

-----------------------------------------------------------------------------

Init ==
  /\ program \in Programs
  /\ linked = << >> /\ known = << >> /\ early = {} /\ calls = 0 /\ status = "running"
  /\ AccessInit
  /\ parsing = << >> /\ module = << >> /\ clone = << >> /\ created = FALSE
  /\ memory = << >> /\ operands = << >> /\ image = << >> /\ clean = FALSE

vars == <<accessVars, sessionVars, linked, known, early, calls, status>>

\* The process has ended, or the client makes no more calls.
Leave ==
  /\ ~ Parsing /\ (status # "running" \/ calls = MaxCalls)
  /\ UNCHANGED vars

Next ==
  \/ \E files \in program.parses : parseIRFiles(files)
  \/ load
  \/ processModule
  \/ createInterpreter
  \/ resetExtraAllocations
  \/ \E g \in program.names, constant \in program.constants : setInitializer(g, constant)
  \/ \E g \in program.names, n \in 1 .. 2 : irx_set_global(g, n)
  \/ \E I \in program.instructions : runInstruction(I)
  \/ Access(program.structs, created) /\ UNCHANGED <<linked, known, early, sessionVars>>
  \/ Leave

Spec == Init /\ [][Next]_vars

-----------------------------------------------------------------------------
(* Properties.                                                              *)

Status == {"running", "parsing", "aborted", "exited", "unreachable"}
Globals(m) ==
  \A g \in DOMAIN m : m[g].tls \in BOOLEAN /\ Range(m[g].init) \subseteq Word

\* What each variable holds; the interpreter's memory has the size of its
\* globals, and the object that of its type in IR.
TypeOK ==
  /\ status \in Status /\ calls \in 0 .. MaxCalls
  /\ {created, clean} \subseteq BOOLEAN
  /\ Globals(module) /\ Globals(clone)
  /\ DOMAIN memory = DOMAIN clone /\ DOMAIN image = DOMAIN clone
  /\ \A g \in DOMAIN clone :
       Len(memory[g]) = clone[g].size /\ Range(memory[g]) \subseteq Word \ {"undef"}
  /\ Range(STCache) \union Range(DICache) \subseteq OptNode
  /\ object # NoObject =>
       Len(object.bytes) = IF getTypeByName(object.name) = NoType THEN 0
                           ELSE Size(getTypeByName(object.name))
  /\ DOMAIN written \subseteq {f.path : f \in FieldsOf(object.name)}

\* After a reset the globals are what they were when the interpreter was
\* created, whatever has been done since: parsing, setting initialisers and
\* running.  Not so for thread-local globals and for words without an initial
\* value, which keep what was written to them.
CleanIsImage ==
  clean /\ status = "running" =>
    \A g \in DOMAIN clone : \A i \in DOMAIN clone[g].init \intersect DOMAIN memory[g] :
      clone[g].tls \/ clone[g].init[i] = "undef" \/ memory[g][i] = image[g][i]

\* The thread-local flags, which createInterpreter sets on all globals for a
\* while, are those of the files again, in the module and in the clone.
FlagsKept ==
  status = "running" =>
    \A f \in Range(linked) : \A g \in DOMAIN f.globals :
      /\ module[g].tls = f.globals[g].tls
      /\ g \in DOMAIN clone => clone[g].tls = f.globals[g].tls

\* The expressions fixAliasesOperands comes to from an operand.
visited[x \in Operand] ==
  IF ~ IsExpr(x) THEN {}
  ELSE {x} \union UNION {visited[resolveAliasesOperand[program.exprs[x][i]]] :
                           i \in DOMAIN program.exprs[x]}

\* Two of the operands of an expression lead to e.
Shared(V, e) ==
  \E i, j \in DOMAIN program.exprs[V] :
    i # j /\ e \in visited[resolveAliasesOperand[program.exprs[V][i]]]
                     \intersect visited[resolveAliasesOperand[program.exprs[V][j]]]

\* An instruction comes to e twice: by two operands of its own, or of an expression.
Twice(e) ==
  \E I \in program.instructions :
    \/ \E i, j \in DOMAIN I : i # j /\ e \in visited[I[i]] \intersect visited[I[j]]
    \/ \E i \in DOMAIN I : \E V \in visited[I[i]] : Shared(V, e)

\* The instruction is about an alias that stands for an expression.
OverAlias(I) == IsAlias(I[1]) /\ IsExpr(resolveAliasesOperand[I[1]])

\* Replacing aliases by what they stand for and putting them back never changes
\* what an operand means, although the expressions are shared by instructions
\* and several aliases stand for one global; and no alias is left where LLVM's
\* interpreter cannot evaluate it, but behind an alias that an instruction
\* itself has as its operand.  An expression that an instruction comes to twice
\* may lose its operands.
OperandsKeepMeaning ==
  /\ status = "unreachable" => \E I \in program.instructions : OverAlias(I)
  /\ status = "running" =>
       \A e \in DOMAIN operands : Twice(e) \/
         \A i \in DOMAIN operands[e] :
           /\ operands[e][i] # Null
           /\ resolveAliasesOperand[operands[e][i]] =
                resolveAliasesOperand[program.exprs[e][i]]
==============================================================================

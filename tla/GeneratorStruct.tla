--------------------------- MODULE GeneratorStruct ---------------------------
(***************************************************************************)
(* generator-struct: prints a Python dataclass for each struct of a        *)
(* module, from its debug info.                                            *)
(*                                                                         *)
(* generate_struct and resolve2 call each other: a type is marked, then    *)
(* the types it depends on are generated, then it is printed.  The         *)
(* activations are the stack.  What is printed is a Python module that is  *)
(* executed from top to bottom: the names a class uses for the defaults of *)
(* its fields must have been defined above it, those inside a lambda (the  *)
(* targets of pointers, the elements of arrays) need not.                  *)
(***************************************************************************)
EXTENDS DebugInfo

CONSTANTS
  Inputs,     \* modules: names of their struct types, types of the metadata
  Blocked     \* block_list

VARIABLES
  input,      \* the module at hand
  pending,    \* struct types that generate has still to look at
  stack,      \* activations of generate_struct: type, dependencies left
  done,       \* names that were marked
  output,     \* the types that were printed, in order
  phase       \* "generating", "finished", or "crashed"

vars == <<input, pending, stack, done, output, phase>>

-----------------------------------------------------------------------------
(* What a type depends on, and what is printed for it.                      *)

\* The first type of that name that is a struct, a union or a typedef.
findStructDebugInfo2(name) ==
  LET hits == {i \in DOMAIN input.types :
                 /\ Name(input.types[i]) = name
                 /\ Tag(input.types[i]) \in {"struct", "union", "typedef"}}
  IN  IF hits = {} THEN NoType ELSE input.types[Min(hits)]

\* Variants: what lies behind a typedef, behind a pointer is not generated.
resolve2_NoTypedef(t) ==
  IF Tag(t) = "typedef" THEN << >> ELSE [i \in DOMAIN Elements(t) |-> Elements(t)[i].base]
resolve2_NoPointer(t) ==
  IF Tag(t) = "pointer" THEN << >>
  ELSE IF Tag(t) = "typedef" THEN <<resolve[Base(t)]>>
  ELSE [i \in DOMAIN Elements(t) |-> Elements(t)[i].base]

\* The calls of generate_struct in resolve2, in their order; void stands for
\* members it is not called for.  A qualifier is looked through for the tag, but
\* its struct's members are not visited.
resolve2(t) ==
  LET r == resolve[t]
      member(m) == IF resolve[m.base] = NoType THEN NoType ELSE m.base
      behind == CASE Tag(r) = "typedef" -> <<resolve[Base(r)]>>
                  [] Tag(r) \in {"array", "pointer"} -> <<Base(r)>>
                  [] OTHER -> << >>
  IN  IF r = NoType THEN << >>
      ELSE [i \in DOMAIN Elements(t) |-> member(Elements(t)[i])] \o behind

InPlace(t) == Aggregate(t) /\ Name(t) = ""

\* The types a type refers to.
Parts(t) == {Base(t)} \union {Elements(t)[i].base : i \in DOMAIN Elements(t)}

\* Members whose type comes to nothing that is printed: enumerations, and
\* what points to functions or to void.
Dropped(r) ==
  \/ r = NoType
  \/ Tag(r) \in {"pointer", "typedef", "array"} /\ resolve[Base(r)] = NoType

\* The members that become fields of a class.  The members of a struct or
\* union without a name are printed in place of the member; "through" has the
\* members a field was reached over.
field(m, fieldsOf) ==
  LET r == resolve[m.base]
  IN  CASE Dropped(r) -> {}
        [] ~ Dropped(r) /\ InPlace(r) ->
             {[f EXCEPT !.through = @ \union {m}] : f \in fieldsOf[r]}
        [] OTHER -> {[name |-> m.name, base |-> m.base, through |-> {}]}
fields[t \in Node] == UNION {field(Elements(t)[i], fields) : i \in DOMAIN Elements(t)}

\* What a typedef is printed as when it starts a block.
Alias(t) == IF Tag(t) = "typedef" THEN resolve[Base(t)] ELSE NoType

\* What print does for the type that starts a block: a class for a struct, a
\* union or a typedef of a type without a name; a line "name=other" for other
\* typedefs; nothing for the rest.
IsClass(t) == Aggregate(t) \/ (Alias(t) # NoType /\ Name(Alias(t)) = "")
IsAlias(t) == Alias(t) # NoType /\ Name(Alias(t)) # ""

classFields(t) ==
  LET s == IF Aggregate(t) THEN t ELSE Alias(t)
  IN  IF ~ IsClass(t) THEN {}
      ELSE IF Tag(s) = "pointer" /\ ~ Dropped(s)
      THEN {[name |-> "", base |-> s, through |-> {}]}   \* a line without a name
      ELSE fields[s]

\* Types that are used by their name: not those that come down to a basic type.
UsedByName(r) ==
  /\ r # NoType
  /\ \/ Tag(r) = "typedef" /\ ~ Dropped(r) /\ toBasicType[Alias(r)] = NoType
     \/ Aggregate(r) /\ Name(r) # ""

\* The types whose names Python looks up while it executes the block, for some
\* of the fields.
Uses(t, fs) ==
  LET named == {f.base : f \in fs} \union (IF IsAlias(t) THEN {Alias(t)} ELSE {})
  IN  {u \in named : UsedByName(resolve[u])}

\* The types whose names are looked up when an object of the class is made.
Mentions(fs) ==
  LET behind == {Base(resolve[f.base]) :
                   f \in {g \in fs : Tag(resolve[g.base]) \in {"pointer", "array"}}}
  IN  {u \in behind : UsedByName(resolve[u])}

\* The size the metadata has of a type that is resolved: none for typedefs,
\* zero for structs without members.
HasSize(r) == Tag(r) # "typedef" /\ (Aggregate(r) => Elements(r) # << >>)

\* The length of an array is its size divided by that of its elements.
Divides(f) ==
  LET r == resolve[f.base] IN Tag(r) = "array" => HasSize(resolve[Base(r)])

-----------------------------------------------------------------------------
(* Assumptions on what C and LLVM provide.                                  *)

\* Typedefs have names, what is derived otherwise has none.  Members without a
\* name are structs or unions without one, and no such type is a part of itself.
FormAssumption ==
  /\ \A t \in Node :
       /\ Elements(t) \in Seq(Range(Elements(t)))
       /\ \A m \in Range(Elements(t)) :
            m.name \in STRING /\ (m.name = "" => InPlace(resolve[m.base]))
       /\ Tag(t) \in {"pointer", "const", "array"} => Name(t) = ""
       /\ Tag(t) = "typedef" => Name(t) # ""
  /\ \A S \in SUBSET {t \in Node : InPlace(t)} :
       S # {} => \E t \in S : \A i \in DOMAIN Elements(t) : resolve[Elements(t)[i].base] \notin S

\* DebugInfoFinder visits each type once, and all that it consists of.
InputAssumption ==
  \A m \in Inputs :
    /\ m.structs \in Seq(Range(m.structs))
    /\ m.types \in Seq(Node) /\ IsInjective(m.types)
    /\ \A t \in Range(m.types) :
         Parts(t) \subseteq Range(m.types) \union {NoType}

\* The names C knows the members of a type by, those of members without a name
\* included; it has each only once.
named(m, names) == IF m.name = "" THEN names[resolve[m.base]] ELSE {m.name}
memberNames[t \in Node] ==
  UNION {named(Elements(t)[i], memberNames) : i \in DOMAIN Elements(t)}

ScopeAssumption ==
  \A t \in Node : \A i, j \in DOMAIN Elements(t) :
    i # j => named(Elements(t)[i], memberNames) \intersect named(Elements(t)[j], memberNames) = {}

ASSUME FormAssumption
ASSUME ScopeAssumption
ASSUME InputAssumption

-----------------------------------------------------------------------------
Init ==
  /\ input \in Inputs
  /\ pending = input.structs
  /\ stack = << >> /\ done = {} /\ output = << >>
  /\ phase = "generating"

\* Variants: a type is marked when it is printed, only structs and unions are
\* marked, types without a name are marked like the others.
Enter_Unmarked(t, below) ==
  /\ stack' = IF t = NoType \/ Name(t) \in done THEN below
              ELSE Append(below, [type |-> t, deps |-> resolve2(t)])
  /\ done' = done
Enter_StructsOnly(t, below) ==
  IF t = NoType \/ Name(t) \in done
  THEN stack' = below /\ done' = done
  ELSE /\ stack' = Append(below, [type |-> t, deps |-> resolve2(t)])
       /\ done' = IF Aggregate(t) /\ Name(t) # "" THEN done \union {Name(t)} ELSE done
Enter_Unnamed(t, below) ==
  IF t = NoType \/ Name(t) \in done
  THEN stack' = below /\ done' = done
  ELSE /\ stack' = Append(below, [type |-> t, deps |-> resolve2(t)])
       /\ done' = done \union {Name(t)}

\* The entry of generate_struct: nothing for void or for a name that is
\* marked.  Types without a name are never marked.
Enter(t, below) ==
  IF t = NoType \/ Name(t) \in done
  THEN stack' = below /\ done' = done
  ELSE /\ stack' = Append(below, [type |-> t, deps |-> resolve2(t)])
       /\ done' = IF Name(t) = "" THEN done ELSE done \union {Name(t)}

\* Variant: the first blocked struct ends the loop.
Generate_Break ==
  /\ phase = "generating" /\ stack = << >> /\ pending # << >>
  /\ IF Head(pending) \in Blocked THEN pending' = << >> /\ UNCHANGED <<stack, done>>
     ELSE pending' = Tail(pending) /\ Enter(findStructDebugInfo2(Head(pending)), << >>)
  /\ UNCHANGED <<input, output, phase>>

\* generate: one struct type of the module.
Generate ==
  /\ phase = "generating" /\ stack = << >> /\ pending # << >>
  /\ pending' = Tail(pending)
  /\ IF Head(pending) \in Blocked THEN UNCHANGED <<stack, done>>
     ELSE Enter(findStructDebugInfo2(Head(pending)), << >>)
  /\ UNCHANGED <<input, output, phase>>

\* resolve2 generates the next dependency of the type on top.
Descend ==
  /\ phase = "generating" /\ stack # << >> /\ Last(stack).deps # << >>
  /\ LET top == Last(stack)
     IN  Enter(Head(top.deps), Append(Front(stack), [top EXCEPT !.deps = Tail(@)]))
  /\ UNCHANGED <<input, pending, output, phase>>

\* The end of generate_struct: a type with a name is printed.
generate_struct ==
  /\ phase = "generating" /\ stack # << >> /\ Last(stack).deps = << >>
  /\ LET t == Last(stack).type
         divides == \A f \in classFields(t) : Divides(f)
     IN  /\ stack' = Front(stack)
         /\ phase' = IF Name(t) # "" /\ ~ divides THEN "crashed" ELSE "generating"
         /\ output' = IF Name(t) # "" /\ divides THEN Append(output, t) ELSE output
  /\ UNCHANGED <<input, pending, done>>

Finish ==
  /\ phase = "generating" /\ stack = << >> /\ pending = << >>
  /\ phase' = "finished"
  /\ UNCHANGED <<input, pending, stack, done, output>>

\* The process has ended.
Ended == phase \in {"finished", "crashed"} /\ UNCHANGED vars

Step == Generate \/ Descend \/ generate_struct \/ Finish

Next == Step \/ Ended

Spec == Init /\ [][Next]_vars /\ WF_vars(Step)

-----------------------------------------------------------------------------
(* Properties.                                                              *)

\* Type invariant.
TypeOK ==
  /\ input \in Inputs
  /\ IsSuffix(pending, input.structs)
  /\ \A i \in DOMAIN stack : stack[i].type \in Node /\ Range(stack[i].deps) \subseteq OptNode
  /\ done \subseteq {Name(t) : t \in Node} \ {""}
  /\ \A i \in DOMAIN output : output[i] \in Node /\ Name(output[i]) \in done
  /\ phase \in {"generating", "finished", "crashed"}

\* The recursion over types that refer to each other comes to an end: no type
\* with a name is generated while it is being generated.  (C has no cycle of
\* types without names; one of those may be met again below itself.)
NotReentered ==
  \A i, j \in DOMAIN stack :
    Name(stack[i].type) # "" /\ Name(stack[i].type) = Name(stack[j].type) => i = j

\* Every name is printed once.
PrintedOnce ==
  \A i, j \in DOMAIN output : Name(output[i]) = Name(output[j]) => i = j

\* Types that a type is made of, whatever lies between them.
Wider(S) == S \union ((UNION {Parts(t) : t \in S}) \ {NoType})
closure[S \in SUBSET Node] == IF Wider(S) = S THEN S ELSE closure[Wider(S)]
LeadsTo(t) == closure[{t}]

\* Fields that are printed in place of a qualified member are left out: its type
\* is not generated.
InSight(t) == {f \in classFields(t) : \A m \in f.through : Tag(m.base) # "const"}

\* Two types of the module have the name, as in "typedef struct s s".
Clash(name) ==
  \E i, j \in DOMAIN input.types :
    i # j /\ Name(input.types[i]) = name /\ Name(input.types[j]) = name

HasBlock(name, types) == \E t \in types : Name(t) = name /\ (IsClass(t) \/ IsAlias(t))

\* The printed module can be executed: a name that a class uses was defined
\* above it.  Not so if the other type leads back to the class (a cycle has no
\* order), if two types share the name (only the first is ever printed), or
\* behind a qualifier (what is behind it is not generated).
NeedsDefinedEarlier ==
  \A i \in DOMAIN output : \A u \in Uses(output[i], InSight(output[i])) :
    \/ HasBlock(Name(resolve[u]), {output[j] : j \in 1 .. (i - 1)})
    \/ output[i] \in LeadsTo(resolve[u])
    \/ Clash(Name(resolve[u]))
    \/ Tag(u) = "const"

\* Objects of the classes can be made: every name their lambdas look up has a
\* block in the end, up to the same name clashes and qualifiers.
MentionsDefined ==
  phase = "finished" =>
    \A i \in DOMAIN output : \A u \in Mentions(InSight(output[i])) :
      \/ HasBlock(Name(resolve[u]), Range(output))
      \/ Clash(Name(resolve[u]))
      \/ Tag(u) = "const"

\* Every struct type of the module that is not blocked has a class, if its type
\* is known and one to print a class for.  Not so if another type has its name:
\* if that is generated first the struct is taken for done.
EveryStructHasClass ==
  phase = "finished" =>
    \A name \in Range(input.structs) \ (Blocked \union {""}) :
      LET t == findStructDebugInfo2(name)
      IN  t # NoType /\ IsClass(t) =>
            \/ \E i \in DOMAIN output : Name(output[i]) = name /\ IsClass(output[i])
            \/ Clash(name)

\* What the class of a struct promises, libirx can deliver: the path of a field
\* leads to a member of its type.  Not so for the fields of a member that has a
\* name and a type without one, which are printed in place, so that the path
\* through the member is lost; for those of a qualified member, which libirx does
\* not look into; and for the second one of two structs of one name.
FieldsFound ==
  \A i \in DOMAIN output :
    LET t == output[i]
    IN  Tag(t) = "struct" /\ findStruct(input.types, Name(t)) = t =>
          \A f \in {g \in InSight(t) : \A m \in g.through : m.name = ""} :
            LET hits == GEP(t, <<f.name>>).hits
            IN  hits # << >> /\ Last(hits).type = f.base
==============================================================================

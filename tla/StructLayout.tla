---------------------------- MODULE StructLayout ----------------------------
(***************************************************************************)
(* Where the fields of a struct are, as libirx computes it from a path.    *)
(*                                                                         *)
(* The indices of a path come from the debug info.  GEP2Offset walks them  *)
(* over the IR type of the struct.  The two do not have the same shape: in *)
(* IR a union is a struct of the one member that needs most room.  IR      *)
(* types are named by the debug info node they are lowered from.           *)
(***************************************************************************)
EXTENDS DebugInfo

\* The node an IR type is named by; void has none.
lower[t \in OptNode] ==
  IF t # NoType /\ Tag(t) \in {"typedef", "const"} THEN lower[Base(t)] ELSE t

\* What a type is made of, and what leads to it under another name.
Consists(t) ==
  (IF Tag(t) \in {"typedef", "const", "array"} THEN {Base(t)} \ {NoType} ELSE {})
    \union {m.base : m \in Range(Elements(t))}

\* No type is a part of itself.
ContainmentAssumption ==
  \A S \in SUBSET {t \in Node : Consists(t) # {}} :
    S # {} => \E t \in S : Consists(t) \intersect S = {}

\* Structs and unions have members, of complete types.  What has no name is itself
\* a struct or a union; a name is none of the subscripts.
FormAssumption ==
  \A t \in Node :
    /\ Elements(t) \in Seq(Range(Elements(t)))
    /\ Elements(t) # << >> => Aggregate(t)
    /\ Tag(t) = "array" =>
         /\ lower[Base(t)] # NoType
         /\ Derived(Base(t)) \/ Composite(Base(t)) \/ Tag(Base(t)) = "basic"
    /\ \A m \in Range(Elements(t)) :
         /\ lower[m.base] # NoType
         /\ m.name \in STRING \ DOMAIN stoi /\ (m.name = "" => Aggregate(m.base))

ASSUME ContainmentAssumption
ASSUME FormAssumption

\* What the C compiler has decided: sizes, alignments and offsets.
Size(t)      == Types[lower[t]].size
Align(t)     == Types[lower[t]].align
Offset(t, i) == Elements(t)[i].offset

SizeAssumption ==
  \A t \in Node :
    /\ Types[t].size \in Nat /\ Types[t].align \in Nat
    /\ Tag(t) = "pointer" => Types[t].size = PtrSize
    /\ Tag(t) = "array" => Types[t].count \in Nat /\ Types[t].size = Types[t].count * Size(Base(t))
    /\ \A m \in Range(Elements(t)) : m.offset \in Nat

LayoutAssumption ==
  \A t \in {u \in Node : Aggregate(u)} : \A i \in DOMAIN Elements(t) :
    LET m == Elements(t)[i]
    IN  /\ m.offset + Size(m.base) <= Size(t)
        /\ IF Tag(t) = "union" THEN m.offset = 0
           ELSE \A j \in 1 .. i - 1 : Offset(t, j) + Size(Elements(t)[j].base) <= m.offset

ASSUME SizeAssumption
ASSUME LayoutAssumption

\* The member a union is made of in IR: the first of the largest alignment,
\* and of the largest size among those.
storage(t) ==
  LET part(i) == Elements(t)[i].base
      is == DOMAIN Elements(t)
      aligned == {i \in is : \A j \in is : Align(part(i)) >= Align(part(j))}
  IN  Min({i \in aligned : \A j \in aligned : Size(part(i)) >= Size(part(j))})

\* The fields within a type: path, offset, size and type.  A field is exposed
\* if the way to it is the same in IR: not below a member of a union that is
\* not the one the union is made of, and not below a qualifier.
Within(fs, name, offset, exposed) ==
  {[f EXCEPT !.path = (IF name = "" THEN << >> ELSE <<name>>) \o @, !.offset = offset + @,
             !.exposed = exposed /\ @] : f \in fs}

Part(fs, name, offset, t, exposed) ==
  Within(fs, name, offset, exposed) \union
  (IF name = "" THEN {}
   ELSE {[path |-> <<name>>, offset |-> offset, size |-> Size(t), type |-> t, exposed |-> TRUE]})

SameInIR(u, i, t) == (Tag(u) = "union" => i = storage(u)) /\ stripTypedef[t] = lower[t]

FieldsOfElement(fs, t, s) == Part(fs, s, stoi[s] * Size(Base(t)), Base(t), TRUE)
FieldsOfMember(fs, t, i) ==
  LET m == Elements(t)[i] IN Part(fs, m.name, m.offset, m.base, SameInIR(t, i, m.base))

fieldsOf[t \in OptNode] ==
  IF t = NoType THEN {}
  ELSE IF Tag(t) \in {"typedef", "const"} THEN fieldsOf[Base(t)]
  ELSE IF Tag(t) = "array"
  THEN UNION {FieldsOfElement(fieldsOf[Base(t)], t, s) :
                s \in {e \in DOMAIN stoi : stoi[e] < Types[t].count}}
  ELSE UNION {FieldsOfMember(fieldsOf[Elements(t)[i].base], t, i) : i \in DOMAIN Elements(t)}

\* The names of a member's fields, those of its members if it has none itself; a
\* struct or a union has each name once.
namesOf(t, i) ==
  {f.path[1] : f \in FieldsOfMember(fieldsOf[Elements(t)[i].base], t, i)}

ScopeAssumption ==
  \A t \in Node : \A i, j \in DOMAIN Elements(t) :
    i # j => namesOf(t, i) \intersect namesOf(t, j) = {}

ASSUME ScopeAssumption

\* The same function as a table, so that TLC computes its values once.
fieldsIn == [t \in OptNode |-> fieldsOf[t]]

-----------------------------------------------------------------------------
(* libirx.                                                                  *)

\* Variant: the alignment of the elements in front is not looked at.
Step_Packed(acc, hit) ==
  LET u == acc.at
  IN  IF acc.failed \/ u = NoType \/ Tag(u) # "struct" \/ hit.index >= Len(Elements(u))
      THEN [acc EXCEPT !.failed = TRUE]
      ELSE [acc EXCEPT !.at = lower[Elements(u)[hit.index + 1].base], !.offset = @ + 4 * hit.index]

\* One index of GEP2Offset.  The indices of a union's members are all zero and
\* take its one member in IR; an index for a scalar or behind the last element
\* is an assertion.
Step(acc, hit) ==
  LET u == acc.at
      i == IF Tag(u) = "union" THEN storage(u) ELSE hit.index + 1
  IN  CASE acc.failed -> acc
        [] ~ acc.failed /\ Tag(u) = "array" ->
             [acc EXCEPT !.at = lower[Base(u)], !.offset = @ + hit.index * Size(Base(u))]
        [] ~ acc.failed /\ Aggregate(u) /\ i \in DOMAIN Elements(u)
           /\ (Tag(u) = "union" => hit.index = 0) ->
             [acc EXCEPT !.at = lower[Elements(u)[i].base], !.offset = @ + Offset(u, i)]
        [] OTHER -> [acc EXCEPT !.failed = TRUE]

Walk(acc, hits) ==
  LET walk[n \in 0 .. Len(hits)] == IF n = 0 THEN acc ELSE Step(walk[n - 1], hits[n])
  IN  walk[Len(hits)]

\* The first index is into an array of the struct; it is zero.
GEP2Offset(t, hits) == Walk([at |-> t, offset |-> 0, failed |-> FALSE], Tail(hits))

\* The size the debug info has of what a path leads to: of a member its real
\* size; of the elements of an array none if they are qualified or named by a
\* typedef, and an assertion if they are composite.
getDIFieldSize(hit) ==
  IF hit.member THEN Size(hit.type)
  ELSE CASE Tag(hit.type) = "basic"   -> Types[hit.type].size
         [] Tag(hit.type) = "pointer" -> PtrSize
         [] OTHER -> 0

NoFieldSize(hit) == ~ hit.member /\ Composite(hit.type)

\* The name of the type the binding converts by.
DIType2StringType(t) ==
  IF t = NoType THEN "unknown"
  ELSE IF Tag(t) = "pointer" THEN "PTR"
  ELSE IF toBasicType[t] = NoType THEN "unknown" ELSE Name(toBasicType[t])
==============================================================================

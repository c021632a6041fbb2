------------------------------ MODULE DebugInfo ------------------------------
(***************************************************************************)
(* The types of a module as its debug info describes them, and the ways    *)
(* libirx and the struct generator follow them.                            *)
(*                                                                         *)
(* A type is a record: its tag, its name ("" if it has none), the type it  *)
(* is derived from or an array of, its members in their order, its size    *)
(* (of a basic type) and its count (of an array).  A member is a name and  *)
(* a type; LLVM gives it a DIDerivedType of its own, which always leads to *)
(* that type.                                                              *)
(***************************************************************************)
EXTENDS Integers, SequencesExt, FiniteSetsExt

CONSTANTS
  Types,      \* the type behind each node of the metadata
  NoType,     \* the null pointer, which stands for void
  PtrSize     \* size of a pointer of the program

Node == DOMAIN Types
OptNode == Node \union {NoType}

Tag(t)  == Types[t].tag
Name(t) == Types[t].name
Base(t) == Types[t].base
Elements(t) == Types[t].elements

Derived(t)   == t # NoType /\ Tag(t) \in {"pointer", "typedef", "const"}
Composite(t) == t # NoType /\ Tag(t) \in {"struct", "union", "array", "enum"}
Aggregate(t) == t # NoType /\ Tag(t) \in {"struct", "union"}

TypesAssumption ==
  /\ IsFiniteSet(Node) /\ NoType \notin Node
  /\ \A t \in Node :
       /\ Base(t) \in OptNode
       /\ \A i \in DOMAIN Elements(t) : Elements(t)[i].base \in Node
       /\ Tag(t) = "array" => Base(t) # NoType

\* No type is a qualified form of itself.
QualifierAssumption ==
  \A S \in SUBSET {t \in Node : Tag(t) = "const"} :
    S # {} => \E t \in S : Base(t) \notin S

ASSUME TypesAssumption
ASSUME QualifierAssumption

-----------------------------------------------------------------------------
(* Through derived types.                                                   *)

\* resolveUntil with the kinds of resolve: through qualifiers to a type that
\* has a form of its own, typedefs included; null for enumerations and
\* functions.
Kinds == {"basic", "struct", "union", "array", "pointer", "typedef"}

resolve[t \in OptNode] ==
  IF t = NoType THEN NoType
  ELSE IF Tag(t) \in Kinds THEN t
  ELSE IF Derived(t) THEN resolve[Base(t)] ELSE NoType

\* The basic type a type comes down to, through typedefs, qualifiers and
\* arrays; null behind structs, unions and pointers.
toBasicType[t \in OptNode] ==
  IF t = NoType \/ Aggregate(t) \/ Tag(t) = "pointer" THEN NoType
  ELSE LET u == IF Derived(t) THEN Base(t) ELSE t
       IN  IF u = NoType THEN NoType
           ELSE IF Tag(u) = "basic" THEN u
           ELSE IF Tag(u) = "array" THEN toBasicType[Base(u)]
           ELSE IF Derived(u) THEN toBasicType[u] ELSE NoType

\* The loop of resolveDerivedTypeBaseType: past typedefs only.
stripTypedef[t \in OptNode] ==
  IF t # NoType /\ Tag(t) = "typedef" THEN stripTypedef[Base(t)] ELSE t

-----------------------------------------------------------------------------
(* Members by their name.  A step of a path is an index and the type it     *)
(* leads to, which is that of a member or that of the elements of an array. *)

Hit(index, type, member) == [index |-> index, type |-> type, member |-> member]

\* One derivation and the typedefs behind it.  For a member the derivation is
\* the member itself; from the element type of an array it takes a pointer or
\* a qualifier away.
resolveDerivedTypeBaseType(hit) ==
  stripTypedef[IF ~ hit.member /\ Derived(hit.type) THEN Base(hit.type) ELSE hit.type]

\* The indices that stand for array subscripts in a path.
stoi == [s \in {"0", "1", "2"} |-> CASE s = "0" -> 0 [] s = "1" -> 1 [] s = "2" -> 2]

\* What a member without a name has of the steps found in its type.  Only
\* unnamed structs, unions, enumerations and arrays are looked into.
unnamed(m, found) == IF m.name = "" /\ Composite(m.base) THEN found[m.base] ELSE << >>

\* The first member with the name, in t or in the members of t without a name.
search(t, name, found) ==
  LET els == Elements(t)
      hits == {i \in DOMAIN els :
                 IF els[i].name = "" THEN unnamed(els[i], found) # << >> ELSE els[i].name = name}
      i == Min(hits)
      index == IF Tag(t) = "union" THEN 0 ELSE i - 1
  IN  IF Tag(t) = "array" THEN <<Hit(stoi[name], Base(t), FALSE)>>
      ELSE IF hits = {} THEN << >>
      ELSE <<Hit(index, els[i].base, TRUE)>> \o unnamed(els[i], found)

GEP2MemberInfo(t, name) ==
  LET found[u \in Node] == search(u, name, found) IN found[t]

\* Variant: the steps through members without a name are left out.
GEP_Direct(t, path) ==
  LET sub == IF t = NoType THEN << >> ELSE GEP2MemberInfo(t, Head(path))
  IN  [at |-> NoType, crashed |-> FALSE,
       hits |-> IF sub = << >> THEN << >> ELSE <<Hit(0, t, FALSE), Head(sub)>>]

\* One name of a path, sub being the steps to the member of that name.  The null
\* pointer is dereferenced behind an array of void pointers.
follow(acc, sub) ==
  LET to == resolveDerivedTypeBaseType(Last(sub))
  IN  IF sub = << >> THEN [acc EXCEPT !.hits = << >>]
      ELSE [at |-> IF Composite(to) THEN to ELSE NoType, hits |-> acc.hits \o sub,
            crashed |-> to = NoType]

\* The indices of a path, which begin with one for the struct itself; empty
\* if the path leads nowhere.
GEP(t, path) ==
  LET member(acc, name) == IF acc.at = NoType THEN << >> ELSE GEP2MemberInfo(acc.at, name)
      step(acc, name) ==
        IF acc.hits = << >> \/ acc.crashed THEN acc ELSE follow(acc, member(acc, name))
      walk[n \in 0 .. Len(path)] ==
        IF n = 0 THEN [at |-> t, hits |-> <<Hit(0, t, FALSE)>>, crashed |-> FALSE]
        ELSE step(walk[n - 1], path[n])
  IN  walk[Len(path)]

\* The first struct of that name among the types the finder has collected.
\* Unions and typedefs are not looked at.
findStruct(types, name) ==
  LET hits == {i \in DOMAIN types : Name(types[i]) = name /\ Tag(types[i]) = "struct"}
  IN  IF hits = {} THEN NoType ELSE types[Min(hits)]
==============================================================================

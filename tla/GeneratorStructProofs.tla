------------------------ MODULE GeneratorStructProofs ------------------------
(***************************************************************************)
(* Proofs about GeneratorStruct, for every module: what its types are and  *)
(* how they refer to each other does not matter to them, but that they     *)
(* are those of a C program (FormAssumption, ScopeAssumption,              *)
(* QualifierAssumption) and that the metadata has all of them              *)
(* (InputAssumption).                                                      *)
(*                                                                         *)
(* Open(t) is what generate_struct enters for t, seen through the types    *)
(* without a name, which are never marked.  All that a block looks up is   *)
(* in it (UsesOpen, MentionsOpen).  The invariant says of each activation  *)
(* which of its dependencies have been handled (Waiting); when none is     *)
(* left, the names of Open(t) are marked (EnteringPops), and the ones that *)
(* were not printed are below on the stack, where they lead back to t      *)
(* (TopReady).                                                             *)
(*                                                                         *)
(* That libirx finds a field is a comparison of two recursions, that over  *)
(* the members printed in place and that of the search (FieldFoundStep),   *)
(* in which C's rule that names are unique leaves the search no other hit  *)
(* (OnlyBearer).                                                           *)
(***************************************************************************)
EXTENDS GeneratorStruct, DataLemmas, TLAPS

-----------------------------------------------------------------------------
\* Types.  The recursive definitions have solutions: each comes down to types
\* that need nothing further.

LEMMA Nodes ==
  /\ IsFiniteSet(Node) /\ NoType \notin Node
  /\ \A t \in Node : /\ Base(t) \in OptNode
                     /\ \A i \in DOMAIN Elements(t) : Elements(t)[i].base \in Node
BY TypesAssumption DEF TypesAssumption, OptNode

\* What resolve looks at next.
Behind == [t \in OptNode |-> IF t # NoType /\ Tag(t) = "const" THEN {Base(t)} ELSE {}]

LEMMA BehindDescends == Descends(Behind, OptNode)
<1>1. Behind \in [OptNode -> SUBSET OptNode]
  BY Nodes DEF Behind, OptNode
<1>2. ASSUME NEW T \in SUBSET OptNode, T # {} PROVE \E t \in T : Behind[t] \cap T = {}
  <2> DEFINE S == {t \in T : t # NoType /\ Tag(t) = "const"}
  <2>1. CASE S = {}
    BY <1>2, <2>1 DEF Behind
  <2>2. CASE S # {}
    <3>1. S \in SUBSET {t \in Node : Tag(t) = "const"}
      BY DEF OptNode
    <3>2. PICK t \in S : Base(t) \notin S
      <4> HIDE DEF S
      <4> QED BY <2>2, <3>1, QualifierAssumption DEF QualifierAssumption
    <3>3. CASE Base(t) \notin T
      BY <3>2, <3>3 DEF Behind
    <3>4. CASE Base(t) \in T
      <4>1. Behind[Base(t)] = {}
        BY <3>2, <3>4 DEF Behind
      <4> QED BY <3>4, <4>1
    <3> QED BY <3>3, <3>4
  <2> QED BY <2>1, <2>2
<1> QED BY <1>1, <1>2 DEF Descends

LEMMA ResolveEquation ==
  /\ resolve \in [OptNode -> OptNode]
  /\ \A t \in OptNode :
       resolve[t] = IF t = NoType THEN NoType
                    ELSE IF Tag(t) \in Kinds THEN t
                    ELSE IF Derived(t) THEN resolve[Base(t)] ELSE NoType
<1> DEFINE rhs(t, f) == IF t = NoType THEN NoType
                        ELSE IF Tag(t) \in Kinds THEN t
                        ELSE IF Derived(t) THEN f[Base(t)] ELSE NoType
           step == [x \in OptNode \X [OptNode -> OptNode] |-> rhs(x[1], x[2])]
<1>1. ASSUME NEW t \in OptNode, NEW f \in [OptNode -> OptNode]
      PROVE  step[<<t, f>>] = rhs(t, f) /\ rhs(t, f) \in OptNode
  <2>1. <<t, f>> \in OptNode \X [OptNode -> OptNode]
    OBVIOUS
  <2>2. step[<<t, f>>] = rhs(t, f)
    BY <2>1
  <2>3. rhs(t, f) \in OptNode
    <3>1. t # NoType => Base(t) \in OptNode
      BY Nodes DEF OptNode
    <3>2. t # NoType => f[Base(t)] \in OptNode
      BY <3>1
    <3> QED BY <3>2 DEF OptNode
  <2> QED BY <2>2, <2>3
<1>2. step \in [OptNode \X [OptNode -> OptNode] -> OptNode]
  <2>1. ASSUME NEW x \in OptNode \X [OptNode -> OptNode] PROVE rhs(x[1], x[2]) \in OptNode
    BY <1>1
  <2> QED BY <2>1
<1>3. ASSUME NEW t \in OptNode, NEW f \in [OptNode -> OptNode], NEW g \in [OptNode -> OptNode],
             \A u \in Behind[t] : f[u] = g[u]
      PROVE  rhs(t, f) = rhs(t, g)
  <2>1. CASE t # NoType /\ Tag(t) \notin Kinds /\ Derived(t)
    <3>1. Behind[t] = {Base(t)}
      BY <2>1 DEF Behind, Derived, Kinds
    <3> QED BY <1>3, <3>1
  <2>2. CASE ~ (t # NoType /\ Tag(t) \notin Kinds /\ Derived(t))
    BY <2>2
  <2> QED BY <2>1, <2>2
<1>4. \E f \in [OptNode -> OptNode] : \A t \in OptNode : f[t] = rhs(t, f)
  <2> HIDE DEF step, rhs
  <2>1. Follows(step, Behind, OptNode, OptNode)
    BY <1>1, <1>2, <1>3 DEF Follows
  <2>2. \E f \in [OptNode -> OptNode] : \A t \in OptNode : f[t] = step[<<t, f>>]
    <3>1. OptNode # {}
      BY DEF OptNode
    <3>2. Solvable(step, OptNode, OptNode)
      BY <2>1, <3>1, BehindDescends, Recursion
    <3> QED BY <3>2 DEF Solvable
  <2> QED BY <1>1, <2>2
<1>5. PICK f \in [OptNode -> OptNode] : \A t \in OptNode : f[t] = rhs(t, f)
  BY <1>4
<1>6. f = [t \in OptNode |-> rhs(t, f)]
  BY <1>5
<1>7. resolve = [t \in OptNode |-> rhs(t, resolve)]
  BY <1>6 DEF resolve
<1>8. \A t \in OptNode : resolve[t] = rhs(t, resolve)
  BY <1>7
<1>9. \A t \in OptNode : resolve[t] \in OptNode
  <2> DEFINE Bad == {t \in OptNode : resolve[t] \notin OptNode}
  <2>1. SUFFICES ASSUME Bad # {} PROVE FALSE
    OBVIOUS
  <2>2. PICK t \in Bad : Behind[t] \cap Bad = {}
    <3>1. Bad \in SUBSET OptNode
      OBVIOUS
    <3> HIDE DEF Bad
    <3> QED BY <2>1, <3>1, BehindDescends DEF Descends
  <2>3. t \in OptNode /\ resolve[t] = rhs(t, resolve) /\ resolve[t] \notin OptNode
    BY <1>8, <2>2
  <2>4. \A u \in Behind[t] : resolve[u] \in OptNode
    BY <2>2, <2>3, BehindDescends DEF Descends
  <2>5. t # NoType /\ Tag(t) \notin Kinds /\ Derived(t)
    BY <2>3 DEF OptNode
  <2>6. Behind[t] = {Base(t)}
    BY <2>3, <2>5 DEF Behind, Derived, Kinds
  <2> QED BY <2>3, <2>4, <2>5, <2>6
<1>10. resolve \in [OptNode -> OptNode]
  BY <1>7, <1>9
<1> QED BY <1>8, <1>10

LEMMA Resolved ==
  ASSUME NEW t \in OptNode
  PROVE  /\ resolve[t] \in OptNode
         /\ resolve[t] # NoType => t # NoType /\ Tag(resolve[t]) \in Kinds
         /\ t # NoType /\ Tag(t) \in Kinds => resolve[t] = t
         /\ resolve[t] # NoType /\ Tag(t) # "const" => resolve[t] = t
<1> DEFINE Bad == {u \in OptNode : resolve[u] # NoType /\ Tag(resolve[u]) \notin Kinds}
<1>1. Bad = {}
  <2>1. SUFFICES ASSUME Bad # {} PROVE FALSE
    OBVIOUS
  <2>2. PICK u \in Bad : Behind[u] \cap Bad = {}
    <3>1. Bad \in SUBSET OptNode
      OBVIOUS
    <3> HIDE DEF Bad
    <3> QED BY <2>1, <3>1, BehindDescends DEF Descends
  <2>3. u \in OptNode /\ resolve[u] # NoType /\ Tag(resolve[u]) \notin Kinds
    BY <2>2
  <2>4. \A v \in Behind[u] : resolve[v] = NoType \/ Tag(resolve[v]) \in Kinds
    BY <2>2, <2>3, BehindDescends DEF Descends
  <2>5. u # NoType /\ Tag(u) \notin Kinds /\ Derived(u) /\ resolve[u] = resolve[Base(u)]
    BY <2>3, ResolveEquation
  <2>6. Behind[u] = {Base(u)}
    BY <2>3, <2>5 DEF Behind, Derived, Kinds
  <2> QED BY <2>3, <2>4, <2>5, <2>6
<1>2. resolve[t] \in OptNode /\ (t = NoType => resolve[t] = NoType)
  BY ResolveEquation
<1>3. t # NoType /\ Tag(t) \in Kinds => resolve[t] = t
  BY ResolveEquation
<1>4. resolve[t] # NoType /\ Tag(t) # "const" => resolve[t] = t
  BY ResolveEquation DEF Derived, Kinds
<1> QED BY <1>1, <1>2, <1>3, <1>4

\* Sets of types with all that they consist of, as the metadata of a module.
Closed(S) ==
  /\ S \subseteq OptNode /\ NoType \in S
  /\ \A u \in S \ {NoType} :
       Base(u) \in S /\ \A i \in DOMAIN Elements(u) : Elements(u)[i].base \in S

LEMMA Within ==
  ASSUME NEW S, Closed(S), NEW t \in S
  PROVE  resolve[t] \in S
<1> DEFINE Bad == {u \in S : resolve[u] \notin S}
<1>1. Bad = {}
  <2>1. SUFFICES ASSUME Bad # {} PROVE FALSE
    OBVIOUS
  <2>2. PICK u \in Bad : Behind[u] \cap Bad = {}
    <3>1. Bad \in SUBSET OptNode
      BY DEF Closed
    <3> HIDE DEF Bad
    <3> QED BY <2>1, <3>1, BehindDescends DEF Descends
  <2>3. u \in OptNode /\ u \in S /\ resolve[u] \notin S
    BY <2>2 DEF Closed
  <2>4. u # NoType /\ Tag(u) \notin Kinds /\ Derived(u) /\ resolve[u] = resolve[Base(u)]
    BY <2>3, ResolveEquation DEF Closed
  <2>5. Behind[u] = {Base(u)} /\ Base(u) \in S
    BY <2>3, <2>4 DEF Behind, Derived, Kinds, Closed
  <2>6. resolve[Base(u)] \in S
    BY <2>2, <2>5
  <2> QED BY <2>3, <2>4, <2>6
<1> QED BY <1>1

-----------------------------------------------------------------------------
\* What generate_struct is called for.

Deps(t) == Range(resolve2(t))

LEMMA Joined ==
  ASSUME NEW S, NEW r \in Seq(S), NEW s \in Seq(S)
  PROVE  r \o s \in Seq(S) /\ Range(r \o s) = Range(r) \cup Range(s)
<1> DEFINE u == r \o s
<1>1. /\ u \in Seq(S) /\ Len(u) = Len(r) + Len(s)
      /\ \A i \in 1 .. Len(r) : u[i] = r[i]
      /\ \A i \in 1 .. Len(s) : u[Len(r) + i] = s[i]
  OBVIOUS
<1>2. /\ DOMAIN u = 1 .. Len(r) + Len(s) /\ Len(r) \in Nat /\ Len(s) \in Nat
      /\ DOMAIN r = 1 .. Len(r) /\ DOMAIN s = 1 .. Len(s)
  BY <1>1
<1> HIDE DEF u
<1>3. \A i \in DOMAIN u : u[i] \in Range(r) \cup Range(s)
  <2> TAKE i \in DOMAIN u
  <2>1. CASE i \in 1 .. Len(r)
    BY <1>1, <1>2, <2>1 DEF Range
  <2>2. CASE i \notin 1 .. Len(r)
    <3>1. i - Len(r) \in 1 .. Len(s) /\ Len(r) + (i - Len(r)) = i
      BY <1>2, <2>2
    <3>2. u[i] = s[i - Len(r)]
      BY <1>1, <3>1
    <3> QED BY <1>2, <3>1, <3>2 DEF Range
  <2> QED BY <2>1, <2>2
<1>4. ASSUME NEW i \in DOMAIN r PROVE r[i] \in Range(u)
  BY <1>1, <1>2 DEF Range
<1>5. ASSUME NEW i \in DOMAIN s PROVE s[i] \in Range(u)
  <2>1. Len(r) + i \in DOMAIN u /\ u[Len(r) + i] = s[i]
    BY <1>1, <1>2
  <2> QED BY <2>1 DEF Range
<1>6. Range(u) = Range(r) \cup Range(s)
  BY <1>3, <1>4, <1>5 DEF Range
<1> QED BY <1>1, <1>6 DEF u

LEMMA DepsOf ==
  ASSUME NEW S, Closed(S), NEW t \in S, t # NoType
  PROVE  /\ resolve2(t) \in Seq(S) /\ Deps(t) \subseteq S
         /\ resolve[t] # NoType =>
              /\ \A i \in DOMAIN Elements(t) :
                   resolve[Elements(t)[i].base] # NoType => Elements(t)[i].base \in Deps(t)
              /\ Tag(resolve[t]) = "typedef" => resolve[Base(resolve[t])] \in Deps(t)
              /\ Tag(resolve[t]) \in {"array", "pointer"} => Base(resolve[t]) \in Deps(t)
<1> DEFINE r == resolve[t]
           member(m) == IF resolve[m.base] = NoType THEN NoType ELSE m.base
           els == [i \in DOMAIN Elements(t) |-> member(Elements(t)[i])]
           behind == CASE Tag(r) = "typedef" -> <<resolve[Base(r)]>>
                       [] Tag(r) \in {"array", "pointer"} -> <<Base(r)>>
                       [] OTHER -> << >>
<1>1. resolve2(t) = IF r = NoType THEN << >> ELSE els \o behind
  BY DEF resolve2
<1>2. t \in Node /\ r \in S
  BY Within DEF Closed, OptNode
<1>3. els \in Seq(S) /\ Range(els) = {els[i] : i \in DOMAIN Elements(t)}
  <2>1. PICK n \in Nat : DOMAIN Elements(t) = 1 .. n
    <3>1. Elements(t) \in Seq(Range(Elements(t)))
      BY <1>2, FormAssumption DEF FormAssumption
    <3> QED BY <3>1
  <2>2. \A i \in DOMAIN Elements(t) : els[i] \in S
    BY DEF Closed
  <2>3. els \in [1 .. n -> S]
    BY <2>1, <2>2
  <2>4. els \in Seq(S)
    <3> HIDE DEF els
    <3> QED BY <2>3
  <2> QED BY <2>4 DEF Range
<1>4. r # NoType => /\ behind \in Seq(S)
                    /\ Tag(r) = "typedef" => Range(behind) = {resolve[Base(r)]}
                    /\ Tag(r) \in {"array", "pointer"} => Range(behind) = {Base(r)}
  <2>2. CASE r # NoType /\ Tag(r) = "typedef"
    <3>1. Base(r) \in S
      BY <1>2, <2>2 DEF Closed
    <3>2. resolve[Base(r)] \in S
      BY <3>1, Within
    <3>3. behind = <<resolve[Base(r)]>>
      BY <2>2
    <3> HIDE DEF behind, r
    <3> QED BY <2>2, <3>2, <3>3 DEF Range
  <2>3. CASE r # NoType /\ Tag(r) \in {"array", "pointer"}
    <3>1. Base(r) \in S
      BY <1>2, <2>3 DEF Closed
    <3>2. behind = <<Base(r)>>
      BY <2>3
    <3> HIDE DEF behind, r
    <3> QED BY <2>3, <3>1, <3>2 DEF Range
  <2>4. CASE r # NoType /\ Tag(r) \notin {"array", "pointer", "typedef"}
    <3>1. behind = << >>
      BY <2>4
    <3> HIDE DEF behind, r
    <3> QED BY <2>4, <3>1
  <2> QED BY <2>2, <2>3, <2>4
<1>5. \A i \in DOMAIN Elements(t) :
        resolve[Elements(t)[i].base] # NoType => Elements(t)[i].base \in Range(els)
  <2> TAKE i \in DOMAIN Elements(t)
  <2> HAVE resolve[Elements(t)[i].base] # NoType
  <2>1. els[i] = Elements(t)[i].base
    OBVIOUS
  <2> HIDE DEF els
  <2> QED BY <1>3, <2>1
<1> HIDE DEF els, behind, r
<1>6. r # NoType =>
        els \o behind \in Seq(S) /\ Range(els \o behind) = Range(els) \cup Range(behind)
  BY <1>3, <1>4, Joined
<1>7. resolve2(t) \in Seq(S) /\ Deps(t) \subseteq S
  <2>1. resolve2(t) \in Seq(S)
    BY <1>1, <1>6
  <2> QED BY <2>1 DEF Deps, Range
<1>8. r # NoType => Deps(t) = Range(els) \cup Range(behind)
  BY <1>1, <1>6 DEF Deps
<1> QED BY <1>4, <1>5, <1>7, <1>8 DEF r

-----------------------------------------------------------------------------
\* Fields.

MembersOf(t) == {Elements(t)[i] : i \in DOMAIN Elements(t)}
AllMembers == UNION {MembersOf(t) : t \in Node}
FieldType == [name : {m.name : m \in AllMembers}, base : {u \in Node : resolve[u] # NoType},
              through : SUBSET AllMembers]

\* The types without a name whose members are printed with those of a type.
Inside == [t \in Node |-> {r \in Node : InPlace(r) /\ \E m \in MembersOf(t) : resolve[m.base] = r}]

LEMMA InsideDescends == Descends(Inside, Node)
<1>1. Inside \in [Node -> SUBSET Node]
  BY DEF Inside
<1>2. ASSUME NEW T \in SUBSET Node, T # {} PROVE \E t \in T : Inside[t] \cap T = {}
  <2> DEFINE S == {t \in T : InPlace(t)}
  <2>1. \A t \in Node : Inside[t] \cap T \subseteq S
    BY DEF Inside
  <2>2. CASE S = {}
    BY <1>2, <2>1, <2>2
  <2>3. CASE S # {}
    <3>1. S \in SUBSET {t \in Node : InPlace(t)}
      OBVIOUS
    <3> HIDE DEF S
    <3>2. PICK t \in S : \A i \in DOMAIN Elements(t) : resolve[Elements(t)[i].base] \notin S
      BY <2>3, <3>1, FormAssumption DEF FormAssumption
    <3>3. t \in T /\ t \in Node
      BY DEF S
    <3>4. Inside[t] \cap S = {}
      BY <3>2, <3>3 DEF Inside, MembersOf
    <3> QED BY <2>1, <3>3, <3>4
  <2> QED BY <2>2, <2>3
<1> QED BY <1>1, <1>2 DEF Descends

\* The fields of a member, if those of the types inside have the right form.
LEMMA FieldOf ==
  ASSUME NEW t \in Node, NEW m \in MembersOf(t), NEW h,
         \A r \in Inside[t] : h[r] \in SUBSET FieldType
  PROVE  /\ field(m, h) \in SUBSET FieldType
         /\ \A f \in field(m, h) :
              /\ resolve[m.base] # NoType
              /\ \/ f.base = m.base /\ f.name = m.name /\ ~ InPlace(resolve[m.base])
                 \/ /\ resolve[m.base] \in Inside[t] /\ m \in f.through
                    /\ \E g \in h[resolve[m.base]] :
                         g.base = f.base /\ g.name = f.name /\ g.through \subseteq f.through
<1> DEFINE r == resolve[m.base]
           plain == [name |-> m.name, base |-> m.base, through |-> {}]
           over(g) == [g EXCEPT !.through = @ \cup {m}]
<1>1. m \in AllMembers /\ m.base \in Node /\ m.base \in OptNode
  BY Nodes DEF AllMembers, MembersOf, OptNode
<1>2. ~ Dropped(r) => plain \in FieldType
  BY <1>1 DEF FieldType, Dropped
<1>3. field(m, h) = IF Dropped(r) THEN {}
                    ELSE IF InPlace(r) THEN {over(g) : g \in h[r]} ELSE {plain}
  BY DEF field
<1>4. ~ Dropped(r) => r # NoType
  BY DEF Dropped
<1>5. r # NoType /\ InPlace(r) => r \in Inside[t]
  <2>1. r \in OptNode
    BY <1>1, Resolved
  <2> QED BY <2>1 DEF Inside, OptNode
<1>6. ASSUME NEW g \in FieldType
      PROVE  /\ over(g) \in FieldType /\ over(g).base = g.base /\ over(g).name = g.name
             /\ over(g).through = g.through \cup {m}
  <2>1. over(g) = [g EXCEPT !.through = g.through \cup {m}]
    OBVIOUS
  <2>2. g.through \cup {m} \in SUBSET AllMembers
    BY <1>1 DEF FieldType
  <2> HIDE DEF over
  <2> QED BY <2>1, <2>2 DEF FieldType
<1> HIDE DEF r, over, plain
<1>7. CASE Dropped(r)
  BY <1>3, <1>7
<1>8. CASE ~ Dropped(r) /\ InPlace(r)
  <2>1. field(m, h) = {over(g) : g \in h[r]} /\ r \in Inside[t] /\ r # NoType
    BY <1>3, <1>4, <1>5, <1>8
  <2>2. h[r] \in SUBSET FieldType
    BY <2>1
  <2>3. field(m, h) \in SUBSET FieldType
    BY <1>6, <2>1, <2>2
  <2>4. ASSUME NEW f \in field(m, h)
        PROVE  /\ m \in f.through
               /\ \E g \in h[r] : g.base = f.base /\ g.name = f.name /\ g.through \subseteq f.through
    <3>1. PICK g \in h[r] : f = over(g)
      BY <2>1
    <3>2. g \in FieldType
      BY <2>2
    <3>3. f.base = g.base /\ f.name = g.name /\ f.through = g.through \cup {m}
      BY <1>6, <3>1, <3>2
    <3> QED BY <3>3
  <2> QED BY <2>1, <2>3, <2>4 DEF r
<1>9. CASE ~ Dropped(r) /\ ~ InPlace(r)
  <2>1. field(m, h) = {plain} /\ plain.base = m.base /\ plain.name = m.name /\ r # NoType
    BY <1>3, <1>4, <1>9 DEF plain
  <2> QED BY <1>2, <1>9, <2>1 DEF r
<1> QED BY <1>7, <1>8, <1>9

LEMMA FieldsEquation ==
  /\ \A t \in Node : fields[t] \in SUBSET FieldType
  /\ \A t \in Node : fields[t] = UNION {field(m, fields) : m \in MembersOf(t)}
<1> DEFINE V == SUBSET FieldType
           rhs(t, h) == UNION {field(Elements(t)[i], h) : i \in DOMAIN Elements(t)}
           step == [x \in Node \X [Node -> V] |-> rhs(x[1], x[2])]
<1>1. ASSUME NEW t \in Node, NEW h PROVE rhs(t, h) = UNION {field(m, h) : m \in MembersOf(t)}
  BY DEF MembersOf
<1>2. ASSUME NEW t \in Node, NEW h, \A r \in Inside[t] : h[r] \in V PROVE rhs(t, h) \in V
  <2>1. \A m \in MembersOf(t) : field(m, h) \in V
    BY <1>2, FieldOf
  <2> HIDE DEF rhs
  <2> QED BY <1>1, <2>1
<1>3. ASSUME NEW t \in Node, NEW h, NEW g, \A r \in Inside[t] : h[r] = g[r] PROVE rhs(t, h) = rhs(t, g)
  <2>1. ASSUME NEW m \in MembersOf(t) PROVE field(m, h) = field(m, g)
    <3> DEFINE r == resolve[m.base]
    <3>1. InPlace(r) => h[r] = g[r]
      <4>1. r \in OptNode
        <5>1. m.base \in OptNode
          BY Nodes DEF MembersOf, OptNode
        <5> QED BY <5>1, Resolved
      <4>2. InPlace(r) => r \in Inside[t]
        BY <4>1 DEF Inside, InPlace, Aggregate, OptNode
      <4> QED BY <1>3, <4>2
    <3> QED BY <3>1 DEF field
  <2> HIDE DEF rhs
  <2> QED BY <1>1, <2>1
<1>4. Follows(step, Inside, Node, V)
  <2>1. \A t \in Node : Inside[t] \subseteq Node
    BY InsideDescends DEF Descends
  <2>2. ASSUME NEW t \in Node, NEW h \in [Node -> V] PROVE step[<<t, h>>] = rhs(t, h) /\ rhs(t, h) \in V
    <3>1. rhs(t, h) \in V
      <4>1. \A r \in Inside[t] : h[r] \in V
        BY <2>1
      <4> HIDE DEF V, rhs
      <4> QED BY <1>2, <4>1
    <3>2. <<t, h>> \in Node \X [Node -> V]
      OBVIOUS
    <3> HIDE DEF rhs, V
    <3> QED BY <3>1, <3>2
  <2> HIDE DEF V, rhs
  <2>3. step \in [Node \X [Node -> V] -> V]
    <3>1. \A x \in Node \X [Node -> V] : rhs(x[1], x[2]) \in V
      BY <2>2
    <3> QED BY <3>1
  <2> HIDE DEF step
  <2>4. ASSUME NEW t \in Node, NEW h \in [Node -> V], NEW g \in [Node -> V],
               \A u \in Inside[t] : h[u] = g[u]
        PROVE  step[<<t, h>>] = step[<<t, g>>]
    <3>1. rhs(t, h) = rhs(t, g)
      BY <1>3, <2>4
    <3> QED BY <2>2, <3>1
  <2> QED BY <2>3, <2>4 DEF Follows
<1>5. \E h : h = [t \in Node |-> rhs(t, h)]
  <2>1. V # {}
    OBVIOUS
  <2>2. PICK h \in [Node -> V] : \A t \in Node : h[t] = step[<<t, h>>]
    <3> HIDE DEF step, rhs, V
    <3>1. Solvable(step, Node, V)
      BY <1>4, <2>1, InsideDescends, Recursion
    <3> QED BY <3>1 DEF Solvable
  <2> HIDE DEF V
  <2> HIDE DEF rhs
  <2>3. \A t \in Node : h[t] = rhs(t, h)
    BY <2>2
  <2>4. h = [t \in Node |-> rhs(t, h)]
    BY <2>2, <2>3
  <2> QED BY <2>4
<1>6. fields = [t \in Node |-> rhs(t, fields)]
  BY <1>5 DEF fields
<1>7. \A t \in Node : fields[t] = rhs(t, fields)
  <2> HIDE DEF rhs
  <2> QED BY <1>6
<1>8. \A t \in Node : fields[t] \in V
  <2> HIDE DEF V, rhs
  <2> DEFINE Bad == {t \in Node : fields[t] \notin V}
  <2>1. SUFFICES ASSUME Bad # {} PROVE FALSE
    OBVIOUS
  <2>2. PICK t \in Bad : Inside[t] \cap Bad = {}
    <3>1. Bad \in SUBSET Node
      OBVIOUS
    <3> HIDE DEF Bad
    <3> QED BY <2>1, <3>1, InsideDescends DEF Descends
  <2>3. \A r \in Inside[t] : fields[r] \in V
    BY <2>2, InsideDescends DEF Descends
  <2> QED BY <1>2, <1>7, <2>2, <2>3
<1> HIDE DEF rhs
<1> QED BY <1>1, <1>7, <1>8

-----------------------------------------------------------------------------
\* What lies behind types without names: such a type is not printed for itself.

Opens(t, X) ==
  /\ X \in SUBSET OptNode /\ Deps(t) \subseteq X
  /\ \A u \in X \ {NoType} : Name(u) = "" => Deps(u) \subseteq X

\* The types that are entered, or would be, until a type has a name.
Open(t) == {u \in OptNode : \A X \in SUBSET OptNode : Opens(t, X) => u \in X}

LEMMA AllClosed == Closed(OptNode)
BY Nodes DEF Closed, OptNode

LEMMA OpenOpens == ASSUME NEW t \in Node PROVE Opens(t, Open(t))
<1>1. \A u \in OptNode \ {NoType} : Deps(u) \subseteq OptNode
  BY AllClosed, DepsOf
<1>2. t \in OptNode \ {NoType}
  BY Nodes DEF OptNode
<1>3. Deps(t) \subseteq Open(t)
  BY <1>1, <1>2 DEF Open, Opens
<1>4. ASSUME NEW u \in Open(t) \ {NoType}, Name(u) = "" PROVE Deps(u) \subseteq Open(t)
  <2>1. \A X \in SUBSET OptNode : Opens(t, X) => Deps(u) \subseteq X
    BY <1>4 DEF Open, Opens
  <2> QED BY <1>1, <2>1, <1>4 DEF Open
<1> QED BY <1>3, <1>4 DEF Opens, Open

LEMMA OpenLeast ==
  ASSUME NEW t, NEW X, Opens(t, X)
  PROVE  Open(t) \subseteq X
BY DEF Open, Opens

\* The fields that are in sight have types that are entered for the type.
LEMMA InSightOpen ==
  ASSUME NEW o \in Node, NEW s \in Node, NEW f \in fields[s], \A m \in f.through : Tag(m.base) # "const",
         \A i \in DOMAIN Elements(s) :
           resolve[Elements(s)[i].base] # NoType => Elements(s)[i].base \in Open(o)
  PROVE  f.base \in Open(o)
<1> DEFINE Sees(t) == \A m \in MembersOf(t) : resolve[m.base] # NoType => m.base \in Open(o)
           Clear(g) == \A m \in g.through : Tag(m.base) # "const"
           Bad == {t \in Node : Sees(t) /\ \E g \in fields[t] : Clear(g) /\ g.base \notin Open(o)}
<1>1. Bad = {}
  <2>1. SUFFICES ASSUME Bad # {} PROVE FALSE
    OBVIOUS
  <2>2. PICK t \in Bad : Inside[t] \cap Bad = {}
    <3>1. Bad \in SUBSET Node
      OBVIOUS
    <3> HIDE DEF Bad
    <3> QED BY <2>1, <3>1, InsideDescends DEF Descends
  <2>3. t \in Node /\ Sees(t)
    BY <2>2
  <2>4. PICK g \in fields[t] : Clear(g) /\ g.base \notin Open(o)
    BY <2>2
  <2>5. \A r \in Inside[t] : r \in Node /\ fields[r] \in SUBSET FieldType
    BY <2>3, InsideDescends, FieldsEquation DEF Descends
  <2>6. PICK m \in MembersOf(t) : g \in field(m, fields)
    BY <2>3, <2>4, FieldsEquation
  <2> DEFINE r == resolve[m.base]
  <2>7. /\ r # NoType
        /\ \/ g.base = m.base
           \/ /\ r \in Inside[t] /\ m \in g.through
              /\ \E e \in fields[r] : e.base = g.base /\ e.through \subseteq g.through
    <3> HIDE DEF Bad, Sees, Clear
    <3> QED BY <2>3, <2>5, <2>6, FieldOf
  <2>8. m.base \in Open(o) /\ m.base \in OptNode
    BY <2>3, <2>6, <2>7 DEF Open
  <2>9. r \in Inside[t] /\ m \in g.through
    BY <2>4, <2>7, <2>8
  <2>10. PICK e \in fields[r] : e.base = g.base /\ e.through \subseteq g.through
    BY <2>4, <2>7, <2>8
  <2>11. Tag(m.base) # "const" /\ r = m.base /\ r \in Node /\ InPlace(r)
    <3>1. Tag(m.base) # "const"
      BY <2>4, <2>9
    <3>2. r = m.base
      BY <2>7, <2>8, <3>1, Resolved
    <3> QED BY <2>3, <2>9, <3>1, <3>2 DEF Inside
  <2>12. Deps(r) \subseteq Open(o)
    <3>1. Name(r) = "" /\ r \in Open(o) \ {NoType}
      BY <2>7, <2>8, <2>11 DEF InPlace
    <3> QED BY <3>1, OpenOpens DEF Opens
  <2>13. Sees(r)
    <3>1. r \in OptNode /\ r # NoType /\ resolve[r] # NoType
      <4>1. Tag(r) \in Kinds /\ r \in OptNode /\ r # NoType
        BY <2>7, <2>8, <2>11 DEF InPlace, Aggregate, Kinds
      <4>2. resolve[r] = r
        BY <4>1, Resolved
      <4> QED BY <4>1, <4>2
    <3>2. \A i \in DOMAIN Elements(r) :
            resolve[Elements(r)[i].base] # NoType => Elements(r)[i].base \in Deps(r)
      BY <3>1, AllClosed, DepsOf
    <3> QED BY <2>12, <3>2 DEF MembersOf
  <2>14. r \in Bad
    <3>1. Clear(e) /\ e.base \notin Open(o)
      BY <2>4, <2>10
    <3> HIDE DEF Sees, Clear
    <3> QED BY <2>10, <2>11, <2>13, <3>1
  <2> QED BY <2>2, <2>9, <2>14
<1>2. Sees(s)
  BY DEF MembersOf
<1>3. ~ (\E g \in fields[s] : Clear(g) /\ g.base \notin Open(o))
  <2> HIDE DEF Sees, Clear
  <2> QED BY <1>1, <1>2
<1> QED BY <1>3

-----------------------------------------------------------------------------
\* What a type leads to.

LEMMA WiderOf ==
  ASSUME NEW S \in SUBSET Node
  PROVE  /\ S \subseteq Wider(S) /\ Wider(S) \in SUBSET Node
         /\ Wider(S) = S => Closed(S \cup {NoType})
<1>1. \A t \in S : Parts(t) \subseteq OptNode
  BY Nodes DEF Parts, OptNode
<1>2. S \subseteq Wider(S) /\ Wider(S) \in SUBSET Node
  BY <1>1 DEF Wider, OptNode
<1>3. ASSUME Wider(S) = S PROVE Closed(S \cup {NoType})
  <2>1. \A t \in S : Parts(t) \subseteq S \cup {NoType}
    BY <1>3 DEF Wider
  <2>2. \A t \in S : /\ Base(t) \in S \cup {NoType}
                     /\ \A i \in DOMAIN Elements(t) : Elements(t)[i].base \in S \cup {NoType}
    BY <2>1 DEF Parts
  <2> QED BY <2>2 DEF Closed, OptNode
<1> QED BY <1>2, <1>3

Grows == [S \in SUBSET Node |-> IF Wider(S) = S THEN {} ELSE {Wider(S)}]

LEMMA GrowsDescends == Descends(Grows, SUBSET Node)
<1>1. Grows \in [SUBSET Node -> SUBSET SUBSET Node]
  <2>1. \A S \in SUBSET Node : Wider(S) \in SUBSET Node
    BY WiderOf
  <2> QED BY <2>1 DEF Grows
<1>2. ASSUME NEW T \in SUBSET SUBSET Node, T # {} PROVE \E S \in T : Grows[S] \cap T = {}
  <2>1. PICK S \in T : \A R \in T : S \subseteq R => R = S
    BY <1>2, Nodes, Maximal
  <2>2. S \subseteq Wider(S)
    BY WiderOf
  <2>3. Wider(S) # S => Wider(S) \notin T
    BY <2>1, <2>2
  <2>4. Grows[S] \cap T = {}
    BY <2>3 DEF Grows
  <2> QED BY <2>4
<1> QED BY <1>1, <1>2 DEF Descends

LEMMA ClosureEquation ==
  \A S \in SUBSET Node : closure[S] = IF Wider(S) = S THEN S ELSE closure[Wider(S)]
<1> DEFINE D == SUBSET Node
           rhs(S, h) == IF Wider(S) = S THEN S ELSE h[Wider(S)]
           step == [x \in D \X [D -> D] |-> rhs(x[1], x[2])]
<1>1. \A S \in D : Wider(S) \in D
  BY WiderOf
<1>2. Follows(step, Grows, D, D)
  <2>1. ASSUME NEW S \in D, NEW h \in [D -> D] PROVE step[<<S, h>>] = rhs(S, h) /\ rhs(S, h) \in D
    <3>1. rhs(S, h) \in D
      <4> HIDE DEF D
      <4> QED BY <1>1
    <3>2. <<S, h>> \in D \X [D -> D]
      OBVIOUS
    <3> HIDE DEF rhs, D
    <3> QED BY <3>1, <3>2
  <2> HIDE DEF D, rhs
  <2>2. step \in [D \X [D -> D] -> D]
    <3>1. \A x \in D \X [D -> D] : rhs(x[1], x[2]) \in D
      BY <2>1
    <3> QED BY <3>1
  <2> HIDE DEF step
  <2>3. ASSUME NEW S \in D, NEW h \in [D -> D], NEW g \in [D -> D], \A u \in Grows[S] : h[u] = g[u]
        PROVE  step[<<S, h>>] = step[<<S, g>>]
    <3>1. rhs(S, h) = rhs(S, g)
      BY <2>3 DEF rhs, Grows, D
    <3> QED BY <2>1, <3>1
  <2> QED BY <2>2, <2>3 DEF Follows
<1>3. \E h : h = [S \in D |-> rhs(S, h)]
  <2>1. D # {}
    OBVIOUS
  <2>2. Descends(Grows, D)
    BY GrowsDescends
  <2>3. PICK h \in [D -> D] : \A S \in D : h[S] = step[<<S, h>>]
    <3> HIDE DEF step, D
    <3>1. Solvable(step, D, D)
      BY <1>2, <2>1, <2>2, Recursion
    <3> QED BY <3>1 DEF Solvable
  <2>4. \A S \in D : h[S] = rhs(S, h)
    <3> HIDE DEF rhs, D
    <3> QED BY <2>3
  <2> HIDE DEF rhs, D
  <2>5. h = [S \in D |-> rhs(S, h)]
    BY <2>3, <2>4
  <2> QED BY <2>5
<1>4. closure = [S \in D |-> rhs(S, closure)]
  BY <1>3 DEF closure
<1>5. \A S \in D : closure[S] = rhs(S, closure)
  <2> HIDE DEF rhs, D
  <2> QED BY <1>4
<1> QED BY <1>5

LEMMA LeadsToOf ==
  ASSUME NEW t \in Node
  PROVE  t \in LeadsTo(t) /\ Closed(LeadsTo(t) \cup {NoType})
<1> DEFINE Right(S) == S \subseteq closure[S] /\ closure[S] \in SUBSET Node
                       /\ Wider(closure[S]) = closure[S]
           Bad == {S \in SUBSET Node : ~ Right(S)}
<1>1. Bad = {}
  <2>1. SUFFICES ASSUME Bad # {} PROVE FALSE
    OBVIOUS
  <2>2. PICK S \in Bad : Grows[S] \cap Bad = {}
    <3>1. Bad \in SUBSET SUBSET Node
      OBVIOUS
    <3> HIDE DEF Bad
    <3> QED BY <2>1, <3>1, GrowsDescends DEF Descends
  <2>3. S \in SUBSET Node /\ ~ Right(S)
    BY <2>2
  <2>4. closure[S] = IF Wider(S) = S THEN S ELSE closure[Wider(S)]
    BY <2>3, ClosureEquation
  <2>5. CASE Wider(S) = S
    BY <2>3, <2>4, <2>5
  <2>6. CASE Wider(S) # S
    <3>1. Wider(S) \in Grows[S] /\ Wider(S) \in SUBSET Node /\ S \subseteq Wider(S)
      BY <2>3, <2>6, WiderOf DEF Grows
    <3>2. Right(Wider(S))
      BY <2>2, <3>1
    <3> QED BY <2>3, <2>4, <2>6, <3>1, <3>2
  <2> QED BY <2>5, <2>6
<1>2. {t} \in SUBSET Node
  OBVIOUS
<1>3. Right({t})
  BY <1>1, <1>2
<1>4. t \in LeadsTo(t) /\ LeadsTo(t) \in SUBSET Node /\ Wider(LeadsTo(t)) = LeadsTo(t)
  BY <1>3 DEF LeadsTo
<1> QED BY <1>4, WiderOf

-----------------------------------------------------------------------------
\* Names.

NamesOf(t) == {Name(u) : u \in Open(t) \ {NoType}} \ {""}

\* The names that d stands for as a dependency are among those of N.
Handled(d, N) ==
  d # NoType => IF Name(d) = "" THEN NamesOf(d) \subseteq N ELSE Name(d) \in N

LEMMA AllHandled ==
  ASSUME NEW t \in Node, NEW N, \A d \in Deps(t) : Handled(d, N)
  PROVE  NamesOf(t) \subseteq N
<1> DEFINE X == {u \in OptNode : Handled(u, N)}
<1>1. \A u \in OptNode \ {NoType} : Deps(u) \subseteq OptNode /\ u \in Node
  BY AllClosed, DepsOf DEF OptNode
<1>2. t \in OptNode \ {NoType}
  BY Nodes DEF OptNode
<1>3. Deps(t) \subseteq X
  BY <1>1, <1>2
<1>4. ASSUME NEW u \in X \ {NoType}, Name(u) = "" PROVE Deps(u) \subseteq X
  <2>1. NamesOf(u) \subseteq N /\ u \in OptNode \ {NoType}
    BY <1>4 DEF Handled
  <2>2. Opens(u, Open(u)) /\ Deps(u) \subseteq OptNode
    BY <1>1, <2>1, OpenOpens
  <2> SUFFICES ASSUME NEW d \in Deps(u), d # NoType PROVE d \in X
    BY <2>2 DEF Handled
  <2>3. d \in Open(u) /\ d \in OptNode
    BY <2>2 DEF Opens
  <2>4. CASE Name(d) # ""
    BY <2>1, <2>3, <2>4 DEF NamesOf, Handled
  <2>5. CASE Name(d) = ""
    <3>1. Opens(d, Open(u))
      BY <2>2, <2>3, <2>5 DEF Opens
    <3>2. Open(d) \subseteq Open(u)
      BY <3>1, OpenLeast
    <3> QED BY <2>1, <2>3, <2>5, <3>2 DEF NamesOf, Handled
  <2> QED BY <2>4, <2>5
<1>5. Opens(t, X)
  BY <1>3, <1>4 DEF Opens
<1>6. Open(t) \subseteq X
  BY <1>5, OpenLeast
<1>7. ASSUME NEW u \in Open(t) \ {NoType}, Name(u) # "" PROVE Name(u) \in N
  BY <1>6, <1>7 DEF Handled
<1> QED BY <1>7 DEF NamesOf

LEMMA OpenIn ==
  ASSUME NEW S, Closed(S), NEW t \in S, t # NoType
  PROVE  Open(t) \subseteq S
<1>1. \A u \in S \ {NoType} : Deps(u) \subseteq S
  BY DepsOf
<1>2. Opens(t, S)
  BY <1>1 DEF Opens, Closed
<1> QED BY <1>2, OpenLeast

-----------------------------------------------------------------------------
\* What the block of a type looks up is entered for the type.

LEMMA FieldsOpen ==
  ASSUME NEW o \in Node, NEW f \in InSight(o)
  PROVE  f.base \in Open(o) /\ f.base \in Node /\ resolve[f.base] # NoType
<1> DEFINE s == IF Aggregate(o) THEN o ELSE Alias(o)
<1>1. f \in classFields(o) /\ IsClass(o) /\ \A m \in f.through : Tag(m.base) # "const"
  BY DEF InSight, classFields
<1>2. o \in OptNode /\ o # NoType
  BY Nodes DEF OptNode
<1>3. /\ s \in Node /\ resolve[s] = s
      /\ ~ Aggregate(o) => s \in Open(o)
      /\ Deps(s) \subseteq Open(o)
  <2>1. CASE Aggregate(o)
    <3>1. resolve[o] = o
      BY <1>2, <2>1, Resolved DEF Aggregate, Kinds
    <3> QED BY <2>1, <3>1, OpenOpens DEF Opens
  <2>2. CASE ~ Aggregate(o)
    <3>1. Tag(o) = "typedef" /\ s = resolve[Base(o)] /\ s # NoType /\ Name(s) = ""
      BY <1>1, <2>2 DEF IsClass, Alias
    <3>2. resolve[o] = o /\ Base(o) \in OptNode
      BY <1>2, <3>1, Nodes, Resolved DEF Kinds
    <3>3. s \in OptNode /\ Tag(s) \in Kinds
      <4> HIDE DEF s
      <4>1. /\ resolve[Base(o)] \in OptNode
            /\ resolve[Base(o)] # NoType => Tag(resolve[Base(o)]) \in Kinds
        BY <3>2, Resolved
      <4> QED BY <3>1, <4>1
    <3>4. s \in Deps(o)
      <4> HIDE DEF s
      <4>1. resolve[o] # NoType /\ Tag(resolve[o]) = "typedef" /\ s = resolve[Base(resolve[o])]
        BY <1>2, <3>1, <3>2
      <4>2. resolve[Base(resolve[o])] \in Deps(o)
        BY <1>2, <4>1, AllClosed, DepsOf
      <4> QED BY <4>1, <4>2
    <3>5. s \in Open(o) /\ Deps(s) \subseteq Open(o)
      BY <3>1, <3>4, OpenOpens DEF Opens
    <3> QED BY <2>2, <3>1, <3>3, <3>5, Resolved DEF OptNode
  <2> QED BY <2>1, <2>2
<1>4. s \in OptNode /\ s # NoType
  BY <1>3, Nodes DEF OptNode
<1>5. CASE Tag(s) = "pointer" /\ ~ Dropped(s)
  <2>1. f = [name |-> "", base |-> s, through |-> {}]
    BY <1>1, <1>5 DEF classFields
  <2>2. ~ Aggregate(o)
    BY <1>5 DEF Aggregate
  <2> QED BY <1>3, <1>4, <2>1, <2>2
<1>6. CASE ~ (Tag(s) = "pointer" /\ ~ Dropped(s))
  <2>1. f \in fields[s]
    BY <1>1, <1>6 DEF classFields
  <2>2. \A i \in DOMAIN Elements(s) :
          resolve[Elements(s)[i].base] # NoType => Elements(s)[i].base \in Open(o)
    BY <1>3, <1>4, AllClosed, DepsOf
  <2>3. f.base \in Open(o)
    BY <1>1, <1>3, <2>1, <2>2, InSightOpen
  <2>4. f \in FieldType
    BY <1>3, <2>1, FieldsEquation
  <2> QED BY <2>3, <2>4 DEF FieldType
<1> QED BY <1>5, <1>6

\* A type that is used by its name, but for qualifiers, has a block.
LEMMA UsedHasBlock ==
  ASSUME NEW u \in OptNode, UsedByName(resolve[u]), Tag(u) # "const"
  PROVE  u \in Node /\ resolve[u] = u /\ Name(u) # "" /\ (IsClass(u) \/ IsAlias(u))
<1>1. resolve[u] = u /\ u # NoType /\ u \in Node
  BY Resolved DEF UsedByName, OptNode
<1>2. CASE Aggregate(u)
  BY <1>1, <1>2 DEF UsedByName, IsClass, Aggregate
<1>3. CASE ~ Aggregate(u)
  <2>1. Tag(u) = "typedef" /\ ~ Dropped(u)
    BY <1>1, <1>3 DEF UsedByName
  <2>2. Alias(u) # NoType
    BY <2>1 DEF Dropped, Alias
  <2>3. Name(u) # ""
    BY <1>1, <2>1, FormAssumption DEF FormAssumption
  <2> QED BY <1>1, <2>2, <2>3 DEF IsClass, IsAlias
<1> QED BY <1>2, <1>3

LEMMA UsesOpen ==
  ASSUME NEW o \in Node, NEW u \in Uses(o, InSight(o)), Tag(u) # "const"
  PROVE  /\ u \in Open(o) /\ u \in Node /\ resolve[u] = u /\ Name(u) # ""
         /\ IsClass(u) \/ IsAlias(u)
<1>1. UsedByName(resolve[u]) /\ (u \in {f.base : f \in InSight(o)} \/ (IsAlias(o) /\ u = Alias(o)))
  BY DEF Uses
<1>2. CASE u \in {f.base : f \in InSight(o)}
  <2>1. u \in Open(o) /\ u \in Node
    BY <1>2, FieldsOpen
  <2> QED BY <1>1, <2>1, UsedHasBlock DEF OptNode
<1>3. CASE IsAlias(o) /\ u = Alias(o)
  <2>1. Tag(o) = "typedef" /\ u = resolve[Base(o)] /\ o \in OptNode /\ o # NoType
    BY <1>3, Nodes DEF IsAlias, Alias, OptNode
  <2>2. resolve[o] = o
    BY <2>1, Resolved DEF Kinds
  <2>3. u \in Deps(o)
    BY <2>1, <2>2, AllClosed, DepsOf
  <2>4. u \in Open(o) /\ u \in OptNode
    BY <2>3, OpenOpens DEF Opens
  <2> QED BY <1>1, <2>4, UsedHasBlock
<1> QED BY <1>1, <1>2, <1>3

LEMMA MentionsOpen ==
  ASSUME NEW o \in Node, NEW u \in Mentions(InSight(o)), Tag(u) # "const"
  PROVE  /\ u \in Open(o) /\ u \in Node /\ resolve[u] = u /\ Name(u) # ""
         /\ IsClass(u) \/ IsAlias(u)
<1>1. UsedByName(resolve[u])
  BY DEF Mentions
<1>2. PICK f \in InSight(o) : Tag(resolve[f.base]) \in {"pointer", "array"} /\ u = Base(resolve[f.base])
  BY DEF Mentions
<1> DEFINE b == f.base
<1>3. b \in Open(o) /\ b \in Node /\ resolve[b] # NoType
  BY FieldsOpen
<1>4. b \in OptNode /\ b # NoType
  BY <1>3, Nodes DEF OptNode
<1>5. Name(b) = ""
  <2>1. Tag(b) \in {"pointer", "const", "array"}
    BY <1>2, <1>3, <1>4, Resolved
  <2> QED BY <1>3, <2>1, FormAssumption DEF FormAssumption
<1>6. Deps(b) \subseteq Open(o)
  BY <1>3, <1>4, <1>5, OpenOpens DEF Opens
<1>7. u \in Deps(b)
  BY <1>2, <1>3, <1>4, AllClosed, DepsOf
<1>8. u \in Open(o) /\ u \in OptNode
  BY <1>6, <1>7, OpenOpens DEF Opens
<1> QED BY <1>1, <1>8, UsedHasBlock

-----------------------------------------------------------------------------
\* The invariant of the marks.

\* Sequences of anything.
Sequence(s) == s \in Seq(Range(s))

\* An activation of generate_struct.
Frame(x) == \E t, deps : x = [type |-> t, deps |-> deps]

\* Activations s, marked names d: the type of each activation is marked or has
\* no name, and no two have the same name.
Marked(s, d) ==
  /\ Sequence(s)
  /\ \A i \in 1 .. Len(s) : Frame(s[i]) /\ Name(s[i].type) \in d \cup {""}
  /\ \A i, j \in 1 .. Len(s) :
       Name(s[i].type) # "" /\ Name(s[i].type) = Name(s[j].type) => i = j

\* What was printed is marked and is not being generated any more, and each
\* name was printed once.
Printed(out, s, d) ==
  /\ Sequence(out)
  /\ \A i \in 1 .. Len(out) :
       /\ Name(out[i]) \in d
       /\ \A k \in 1 .. Len(s) : Name(s[k].type) # Name(out[i])
  /\ \A i, j \in 1 .. Len(out) : Name(out[i]) = Name(out[j]) => i = j

IInv == Marked(stack, done) /\ Printed(output, stack, done) /\ "" \notin done

\* Stacks.

LEMMA Indices ==
  ASSUME NEW s, Sequence(s)
  PROVE  /\ Len(s) \in Nat /\ DOMAIN s = 1 .. Len(s)
         /\ s # << >> => Len(s) >= 1 /\ Len(s) \in 1 .. Len(s)
         /\ \A i \in 1 .. Len(s) : s[i] \in Range(s)
BY DEF Sequence, Range

LEMMA Upto ==
  ASSUME NEW n \in Nat
  PROVE  /\ \A i \in 1 .. n + 1 : i \in 1 .. n \/ i = n + 1
         /\ \A i \in 1 .. n - 1 : i \in 1 .. n
         /\ n + 1 \in 1 .. n + 1 /\ (n + 1) - 1 = n
         /\ \A i \in 1 .. n : i \in 1 .. n + 1
         /\ \A i \in 1 .. n + 1 : \A j \in 1 .. i - 1 : j \in 1 .. n
OBVIOUS

\* t is s with x on top.
OnTop(t, s, x) ==
  /\ Sequence(t) /\ Len(t) = Len(s) + 1 /\ t[Len(s) + 1] = x
  /\ \A i \in 1 .. Len(s) : t[i] = s[i]

LEMMA Pushed == ASSUME NEW s, Sequence(s), NEW x PROVE OnTop(Append(s, x), s, x)
<1> DEFINE S == Range(s) \cup {x}
           t == Append(s, x)
<1>1. s \in Seq(S) /\ x \in S
  BY DEF Sequence
<1> HIDE DEF S
<1>2. /\ t \in Seq(S) /\ Len(t) = Len(s) + 1 /\ t[Len(s) + 1] = x
      /\ \A i \in 1 .. Len(s) : t[i] = s[i]
  BY <1>1
<1> HIDE DEF t
<1>3. Sequence(t)
  BY <1>2 DEF Sequence, Range
<1> QED BY <1>2, <1>3 DEF t, OnTop

LEMMA Popped ==
  ASSUME NEW s, Sequence(s), s # << >>
  PROVE  /\ Sequence(Front(s)) /\ Len(Front(s)) = Len(s) - 1
         /\ \A i \in 1 .. Len(s) - 1 : Front(s)[i] = s[i]
<1>1. s \in Seq(Range(s))
  BY DEF Sequence
<1> DEFINE t == SubSeq(s, 1, Len(s) - 1)
           S == Range(s)
<1> HIDE DEF S
<1>2. t \in Seq(S) /\ Len(t) = Len(s) - 1 /\ \A i \in 1 .. Len(s) - 1 : t[i] = s[i]
  BY <1>1, Underneath DEF S
<1> HIDE DEF t
<1>3. Sequence(t)
  BY <1>2 DEF Sequence, Range
<1> QED BY <1>2, <1>3 DEF t, Front

LEMMA EmptyRange == Range(<< >>) = {}
BY DEF Range

LEMMA UptoTop ==
  ASSUME NEW n \in Nat, NEW i \in 1 .. n, i # n
  PROVE  i \in 1 .. n - 1
OBVIOUS

-----------------------------------------------------------------------------
\* The invariant of the dependencies.

\* The activations are those of types of the module, ts, each with dependencies
\* of its type left, and each above one that depends on it.
Typed(s, ts) ==
  /\ \A i \in 1 .. Len(s) : s[i].type \in ts /\ s[i].deps \in Seq(Deps(s[i].type))
  /\ \A i \in 1 .. Len(s) - 1 : s[i + 1].type \in Deps(s[i].type)

\* What the type of an activation depends on is left, or has been handled, or
\* is being generated; e is about to be.
Waiting(s, d, e) ==
  \A i \in 1 .. Len(s) : \A x \in Deps(s[i].type) :
    \/ x \in Range(s[i].deps) \/ Handled(x, d)
    \/ i < Len(s) /\ x = s[i + 1].type
    \/ i = Len(s) /\ x = e

\* e may be entered above the activations s.
Entering(s, d, e, ts) ==
  /\ Typed(s, ts) /\ Waiting(s, d, e)
  /\ e \in ts \cup {NoType}
  /\ Len(s) > 0 /\ e # NoType => e \in Deps(s[Len(s)].type)

\* A name that is marked belongs to what was printed or is being generated.
Known(out, s, d) ==
  \A n \in d : \/ \E i \in 1 .. Len(out) : Name(out[i]) = n
               \/ \E k \in 1 .. Len(s) : Name(s[k].type) = n

Twice(types, name) ==
  \E i, j \in DOMAIN types : i # j /\ Name(types[i]) = name /\ Name(types[j]) = name

\* What has been entered for a printed type was printed above it, but for the
\* exceptions; its names are marked.
Ready(out, d, types) ==
  \A i \in 1 .. Len(out) :
    /\ out[i] \in Range(types) /\ NamesOf(out[i]) \subseteq d
    /\ \A u \in Open(out[i]) \ {NoType} :
         Name(u) # "" =>
           \/ \E j \in 1 .. i - 1 : Name(out[j]) = Name(u)
           \/ out[i] \in LeadsTo(u)
           \/ Twice(types, Name(u))

\* The struct names of the module that have no type.
Missing == {i \in DOMAIN input.structs : findStructDebugInfo2(input.structs[i]) = NoType}

\* The struct names that nothing more is generated for.
Seen(d) == Blocked \cup {""} \cup d

\* p has the structs that are left; the others were looked for.
Visited(p, d, structs, missing) ==
  /\ Sequence(p)
  /\ \E n \in 0 .. Len(structs) :
       /\ Len(p) = Len(structs) - n
       /\ \A i \in 1 .. Len(p) : p[i] = structs[n + i]
       /\ \A i \in 1 .. n : structs[i] \in Seen(d) \/ i \in missing

JInv ==
  /\ input \in Inputs /\ phase \in {"generating", "finished", "crashed"}
  /\ Entering(stack, done, NoType, Range(input.types))
  /\ Ready(output, done, input.types)
  /\ Visited(pending, done, input.structs, Missing)
  /\ done \subseteq {Name(t) : t \in Node}
  /\ phase # "crashed" => Known(output, stack, done)
  /\ phase = "finished" => stack = << >> /\ pending = << >>

LEMMA InputOf ==
  ASSUME input \in Inputs
  PROVE  /\ Closed(Range(input.types) \cup {NoType}) /\ Range(input.types) \subseteq Node
         /\ input.types \in Seq(Node) /\ input.structs \in Seq(Range(input.structs))
         /\ IsInjective(input.types)
<1>1. /\ input.types \in Seq(Node) /\ input.structs \in Seq(Range(input.structs))
      /\ IsInjective(input.types)
      /\ \A t \in Range(input.types) : Parts(t) \subseteq Range(input.types) \cup {NoType}
  BY InputAssumption DEF InputAssumption
<1>2. Range(input.types) \subseteq Node
  BY <1>1 DEF Range
<1>3. \A t \in Range(input.types) \cup {NoType} :
        t # NoType => /\ Base(t) \in Range(input.types) \cup {NoType}
                      /\ \A i \in DOMAIN Elements(t) :
                           Elements(t)[i].base \in Range(input.types) \cup {NoType}
  BY <1>1 DEF Parts
<1> QED BY <1>1, <1>2, <1>3 DEF Closed, OptNode

LEMMA Found ==
  ASSUME input \in Inputs, NEW name, findStructDebugInfo2(name) # NoType
  PROVE  findStructDebugInfo2(name) \in Range(input.types) /\ Name(findStructDebugInfo2(name)) = name
<1> DEFINE hits == {i \in DOMAIN input.types :
                     /\ Name(input.types[i]) = name
                     /\ Tag(input.types[i]) \in {"struct", "union", "typedef"}}
<1>1. findStructDebugInfo2(name) = input.types[Min(hits)] /\ hits # {}
  BY DEF findStructDebugInfo2
<1>2. hits \subseteq Nat
  BY InputOf
<1>3. Min(hits) \in hits
  <2> HIDE DEF hits
  <2>1. \E n \in hits : \A m \in hits : n <= m
    BY <1>1, <1>2, Least
  <2> QED BY <2>1 DEF Min
<1> QED BY <1>1, <1>3 DEF Range

\* Two types of one name.
LEMMA NamedTwice ==
  ASSUME input \in Inputs, NEW t \in Range(input.types), NEW u \in Range(input.types),
         t # u, Name(t) = Name(u)
  PROVE  Twice(input.types, Name(u))
<1>1. PICK i \in DOMAIN input.types : input.types[i] = t
  BY DEF Range
<1>2. PICK j \in DOMAIN input.types : input.types[j] = u
  BY DEF Range
<1> QED BY <1>1, <1>2 DEF Twice

LEMMA HandledMore ==
  ASSUME NEW d, NEW e, d \subseteq e, NEW x, Handled(x, d)
  PROVE  Handled(x, e)
BY DEF Handled

\* The type of an activation leads to those above.
LEMMA Leads ==
  ASSUME NEW s, Sequence(s), NEW ts, ts \subseteq Node, Typed(s, ts), NEW k \in 1 .. Len(s)
  PROVE  s[Len(s)].type \in LeadsTo(s[k].type)
<1> DEFINE L == LeadsTo(s[k].type)
           Bad == {i \in 1 .. Len(s) : i >= k /\ s[i].type \notin L}
<1>1. Len(s) \in Nat /\ k \in Nat
  BY Indices
<1>2. s[k].type \in L /\ Closed(L \cup {NoType}) /\ \A i \in 1 .. Len(s) : s[i].type \in Node
  BY LeadsToOf DEF Typed
<1>3. Bad = {}
  <2>1. SUFFICES ASSUME Bad # {} PROVE FALSE
    OBVIOUS
  <2>2. PICK i \in Bad : \A j \in Bad : i <= j
    <3>1. Bad \subseteq Nat
      BY <1>1
    <3> HIDE DEF Bad
    <3> QED BY <2>1, <3>1, Least
  <2>3. i \in Nat /\ i \in 1 .. Len(s) /\ i >= k /\ s[i].type \notin L
    BY <1>1, <2>2
  <2>4. i # k
    BY <1>2, <2>3
  <2>5. i - 1 \in 1 .. Len(s) - 1 /\ i - 1 \in 1 .. Len(s) /\ i - 1 >= k /\ (i - 1) + 1 = i
    <3> HIDE DEF L
    <3> QED BY <1>1, <2>3, <2>4
  <2>6. s[i - 1].type \in L
    <3>1. ~ (i <= i - 1)
      BY <2>3
    <3>2. i - 1 \notin Bad
      BY <2>2, <3>1
    <3> QED BY <2>5, <3>2
  <2>7. s[i].type \in Deps(s[i - 1].type)
    <3>1. s[(i - 1) + 1].type \in Deps(s[i - 1].type)
      BY <2>5 DEF Typed
    <3> QED BY <2>5, <3>1
  <2>8. s[i - 1].type # NoType /\ s[i].type # NoType
    BY <1>2, <2>3, <2>5, Nodes
  <2>9. s[i].type \in L \cup {NoType}
    <3> HIDE DEF L
    <3> QED BY <1>2, <2>6, <2>7, <2>8, DepsOf
  <2> QED BY <2>3, <2>8, <2>9
<1>4. Len(s) \in 1 .. Len(s) /\ Len(s) >= k
  BY <1>1
<1> QED BY <1>3, <1>4

-----------------------------------------------------------------------------
\* The steps on the stack.

\* A type that is void, or whose name is marked, is not entered.
LEMMA EnteringSkips ==
  ASSUME NEW s, NEW d, "" \notin d, NEW ts, NEW t, Entering(s, d, t, ts),
         t = NoType \/ Name(t) \in d
  PROVE  Entering(s, d, NoType, ts)
<1>1. Handled(t, d)
  BY DEF Handled
<1>2. Waiting(s, d, NoType)
  <2> SUFFICES ASSUME NEW i \in 1 .. Len(s), NEW x \in Deps(s[i].type)
               PROVE  \/ x \in Range(s[i].deps) \/ Handled(x, d)
                      \/ i < Len(s) /\ x = s[i + 1].type
                      \/ i = Len(s) /\ x = NoType
    BY DEF Waiting
  <2> QED BY <1>1 DEF Entering, Waiting
<1> QED BY <1>2 DEF Entering

\* Another is generated above those it was entered for.
LEMMA EnteringPushes ==
  ASSUME NEW s, Sequence(s), NEW d, NEW e, d \subseteq e, NEW ts, Closed(ts \cup {NoType}),
         NEW t, t # NoType, Entering(s, d, t, ts),
         NEW r, OnTop(r, s, [type |-> t, deps |-> resolve2(t)])
  PROVE  Entering(r, e, NoType, ts)
<1> DEFINE n == Len(s)
<1>1. /\ n \in Nat /\ Len(r) = n + 1 /\ r[n + 1].type = t /\ r[n + 1].deps = resolve2(t)
      /\ \A i \in 1 .. n : r[i] = s[i]
  BY Indices DEF OnTop
<1>2. \A i \in 1 .. n + 1 : i \in 1 .. n \/ i = n + 1
  BY <1>1, Upto
<1>3. t \in ts /\ resolve2(t) \in Seq(Deps(t))
  <2>1. t \in ts
    BY DEF Entering
  <2>2. resolve2(t) \in Seq(ts \cup {NoType})
    BY <2>1, DepsOf
  <2> QED BY <2>1, <2>2 DEF Deps, Range
<1>4. Typed(r, ts)
  <2>1. \A i \in 1 .. n + 1 : r[i].type \in ts /\ r[i].deps \in Seq(Deps(r[i].type))
    BY <1>1, <1>2, <1>3 DEF Entering, Typed
  <2>2. ASSUME NEW i \in 1 .. n PROVE r[i + 1].type \in Deps(r[i].type)
    <3>1. CASE i = n
      <4>1. n > 0 /\ t \in Deps(s[n].type)
        BY <1>1, <3>1 DEF Entering
      <4> QED BY <1>1, <3>1, <4>1
    <3>2. CASE i # n
      <4>1. i \in 1 .. n - 1 /\ i + 1 \in 1 .. n
        BY <1>1, <3>2
      <4> QED BY <1>1, <4>1 DEF Entering, Typed
    <3> QED BY <3>1, <3>2
  <2>3. Len(r) - 1 = n
    BY <1>1
  <2> QED BY <1>1, <2>1, <2>2, <2>3 DEF Typed
<1>5. Waiting(r, e, NoType)
  <2> SUFFICES ASSUME NEW i \in 1 .. n + 1, NEW x \in Deps(r[i].type)
               PROVE  \/ x \in Range(r[i].deps) \/ Handled(x, e)
                      \/ i < n + 1 /\ x = r[i + 1].type
    BY <1>1 DEF Waiting
  <2>1. CASE i = n + 1
    BY <1>1, <2>1 DEF Deps
  <2>2. CASE i \in 1 .. n
    <3>1. r[i] = s[i] /\ i < n + 1
      BY <1>1, <2>2
    <3>2. \/ x \in Range(s[i].deps) \/ Handled(x, d)
          \/ i < n /\ x = s[i + 1].type
          \/ i = n /\ x = t
      BY <2>2, <3>1 DEF Entering, Waiting
    <3>3. i < n => r[i + 1] = s[i + 1]
      <4>1. i < n => i + 1 \in 1 .. n
        BY <1>1, <2>2
      <4> QED BY <1>1, <4>1
    <3>4. Handled(x, d) => Handled(x, e)
      BY HandledMore
    <3> QED BY <1>1, <3>1, <3>2, <3>3, <3>4
  <2> QED BY <1>2, <2>1, <2>2
<1> QED BY <1>4, <1>5 DEF Entering

\* r is s with one dependency less for the top.
Advances(r, s) ==
  /\ Len(r) = Len(s) /\ \A i \in 1 .. Len(s) - 1 : r[i] = s[i]
  /\ r[Len(s)].type = s[Len(s)].type /\ r[Len(s)].deps = Tail(s[Len(s)].deps)

\* The top goes on to its next dependency.
LEMMA EnteringNext ==
  ASSUME NEW s, Sequence(s), s # << >>, NEW d, NEW ts, Entering(s, d, NoType, ts),
         Closed(ts \cup {NoType}), NoType \notin ts, s[Len(s)].deps # << >>,
         NEW r, Advances(r, s)
  PROVE  Entering(r, d, Head(s[Len(s)].deps), ts)
<1> DEFINE n == Len(s)
           deps == s[n].deps
           t == s[n].type
<1>1. n \in Nat /\ n >= 1 /\ n \in 1 .. n
  BY Indices
<1>0. /\ Len(r) = n /\ \A i \in 1 .. n - 1 : r[i] = s[i]
      /\ r[n].type = t /\ r[n].deps = Tail(deps)
  BY DEF Advances
<1>2. t \in ts /\ deps \in Seq(Deps(t)) /\ deps # << >>
  BY <1>1 DEF Entering, Typed
<1>3. Deps(t) \subseteq ts \cup {NoType}
  BY <1>2, DepsOf
<1> HIDE DEF deps, t
<1>4. /\ Head(deps) \in Deps(t) /\ Tail(deps) \in Seq(Deps(t))
      /\ \A x \in Range(deps) : x = Head(deps) \/ x \in Range(Tail(deps))
  <2>1. /\ Head(deps) \in Deps(t) /\ Tail(deps) \in Seq(Deps(t)) /\ Len(deps) \in Nat
        /\ Len(Tail(deps)) = Len(deps) - 1 /\ Head(deps) = deps[1]
        /\ DOMAIN deps = 1 .. Len(deps) /\ DOMAIN Tail(deps) = 1 .. Len(deps) - 1
        /\ \A i \in 1 .. Len(deps) - 1 : Tail(deps)[i] = deps[i + 1]
    BY <1>2
  <2>2. ASSUME NEW i \in DOMAIN deps, i # 1 PROVE deps[i] \in Range(Tail(deps))
    <3>1. i - 1 \in DOMAIN Tail(deps) /\ (i - 1) + 1 = i /\ i - 1 \in 1 .. Len(deps) - 1
      BY <2>1, <2>2
    <3>2. Tail(deps)[i - 1] = deps[i]
      BY <2>1, <3>1
    <3> QED BY <3>1, <3>2 DEF Range
  <2> QED BY <2>1, <2>2 DEF Range
<1>5. \A i \in 1 .. n : r[i].type = s[i].type
  <2> TAKE i \in 1 .. n
  <2>1. CASE i = n
    BY <1>0, <2>1 DEF t
  <2>2. CASE i # n
    <3>1. i \in 1 .. n - 1
      BY <1>1, <2>2
    <3> QED BY <1>0, <3>1
  <2> QED BY <2>1, <2>2
<1>6. \A i \in 1 .. n : i = n \/ i \in 1 .. n - 1
  BY <1>1
<1>7. Typed(r, ts)
  <2>1. \A i \in 1 .. n : r[i].type \in ts /\ r[i].deps \in Seq(Deps(r[i].type))
    <3> TAKE i \in 1 .. n
    <3>1. CASE i = n
      BY <1>0, <1>2, <1>4, <1>5, <3>1 DEF t
    <3>2. CASE i \in 1 .. n - 1
      BY <1>0, <1>5, <3>2 DEF Entering, Typed
    <3> QED BY <1>6, <3>1, <3>2
  <2>2. ASSUME NEW i \in 1 .. n - 1 PROVE r[i + 1].type \in Deps(r[i].type)
    <3>1. i \in 1 .. n /\ i + 1 \in 1 .. n
      BY <1>1
    <3> QED BY <1>5, <3>1 DEF Entering, Typed
  <2> QED BY <1>0, <2>1, <2>2 DEF Typed
<1>8. Waiting(r, d, Head(deps))
  <2> SUFFICES ASSUME NEW i \in 1 .. n, NEW x \in Deps(r[i].type)
               PROVE  \/ x \in Range(r[i].deps) \/ Handled(x, d)
                      \/ i < n /\ x = r[i + 1].type
                      \/ i = n /\ x = Head(deps)
    BY <1>0 DEF Waiting
  <2>1. \/ x \in Range(s[i].deps) \/ Handled(x, d)
        \/ i < n /\ x = s[i + 1].type
        \/ i = n /\ x = NoType
    BY <1>5 DEF Entering, Waiting
  <2>2. Handled(NoType, d)
    BY DEF Handled
  <2>3. CASE i = n
    BY <1>0, <1>1, <1>4, <2>1, <2>2, <2>3 DEF deps
  <2>4. CASE i \in 1 .. n - 1
    <3>1. i + 1 \in 1 .. n /\ i < n /\ i # n
      BY <1>1, <2>4
    <3> QED BY <1>0, <1>5, <2>1, <2>4, <3>1
  <2> QED BY <1>6, <2>3, <2>4
<1>9. Head(deps) \in ts \cup {NoType} /\ Head(deps) \in Deps(r[n].type)
  BY <1>1, <1>3, <1>4, <1>5 DEF t
<1> QED BY <1>0, <1>7, <1>8, <1>9 DEF Entering, deps

\* r is s without its top.
Lower(r, s) == Len(r) = Len(s) - 1 /\ \A i \in 1 .. Len(s) - 1 : r[i] = s[i]

\* The top has no dependencies left, and is marked if it has a name.
Spent(s, d) == Range(s[Len(s)].deps) = {} /\ Name(s[Len(s)].type) \in d \cup {""}

\* The top has no dependencies left: its names are marked, and it may be dropped.
LEMMA EnteringPops ==
  ASSUME NEW s, Sequence(s), s # << >>, NEW d, NEW ts, ts \subseteq Node,
         Entering(s, d, NoType, ts), Spent(s, d), NEW r, Lower(r, s)
  PROVE  NamesOf(s[Len(s)].type) \subseteq d /\ Entering(r, d, NoType, ts)
<1> DEFINE n == Len(s)
           t == s[n].type
<1>1. /\ n \in Nat /\ n >= 1 /\ n \in 1 .. n
      /\ Len(r) = n - 1 /\ \A i \in 1 .. n - 1 : r[i] = s[i]
  BY Indices DEF Lower
<1>2. NamesOf(t) \subseteq d
  <2>1. t \in Node
    BY <1>1 DEF Entering, Typed
  <2>2. ASSUME NEW x \in Deps(t) PROVE Handled(x, d)
    <3>1. \/ x \in Range(s[n].deps) \/ Handled(x, d) \/ n < n \/ x = NoType
      BY <1>1 DEF Entering, Waiting
    <3>2. x = NoType => Handled(x, d)
      BY DEF Handled
    <3>3. x \notin Range(s[n].deps)
      BY DEF Spent
    <3>4. ~ (n < n)
      BY <1>1
    <3> QED BY <3>1, <3>2, <3>3, <3>4
  <2> HIDE DEF t
  <2> QED BY <2>1, <2>2, AllHandled
<1>3. Handled(t, d)
  BY <1>2 DEF Handled, Spent
<1>4. Typed(r, ts)
  <2>1. \A i \in 1 .. n - 1 : r[i].type \in ts /\ r[i].deps \in Seq(Deps(r[i].type))
    BY <1>1 DEF Entering, Typed
  <2>2. ASSUME NEW i \in 1 .. (n - 1) - 1 PROVE r[i + 1].type \in Deps(r[i].type)
    <3>1. i \in 1 .. n - 1 /\ i + 1 \in 1 .. n - 1
      BY <1>1
    <3> QED BY <1>1, <3>1 DEF Entering, Typed
  <2>3. Len(r) = n - 1
    BY <1>1
  <2> QED BY <2>1, <2>2, <2>3 DEF Typed
<1>5. Waiting(r, d, NoType)
  <2> SUFFICES ASSUME NEW i \in 1 .. n - 1, NEW x \in Deps(r[i].type)
               PROVE  \/ x \in Range(r[i].deps) \/ Handled(x, d)
                      \/ i < n - 1 /\ x = r[i + 1].type
    BY <1>1 DEF Waiting
  <2>1. r[i] = s[i] /\ i \in 1 .. n /\ i < n
    BY <1>1
  <2>2. \/ x \in Range(s[i].deps) \/ Handled(x, d) \/ x = s[i + 1].type
    BY <2>1 DEF Entering, Waiting
  <2>3. CASE i = n - 1 /\ x = s[i + 1].type
    BY <1>1, <1>3, <2>3
  <2>4. CASE i # n - 1 /\ x = s[i + 1].type
    <3>1. i + 1 \in 1 .. n - 1 /\ i < n - 1
      BY <1>1, <2>4
    <3> QED BY <1>1, <2>4, <3>1
  <2> QED BY <2>1, <2>2, <2>3, <2>4
<1> QED BY <1>2, <1>4, <1>5 DEF Entering, t

LEMMA JEntered ==
  ASSUME NEW t, NEW s, Sequence(s), "" \notin done, input \in Inputs,
         Entering(s, done, t, Range(input.types)), Known(output, s, done), Enter(t, s)
  PROVE  /\ Entering(stack', done', NoType, Range(input.types)) /\ Known(output, stack', done')
         /\ done \subseteq done' /\ (t # NoType => Name(t) \in done' \cup {""})
         /\ done \subseteq {Name(u) : u \in Node} => done' \subseteq {Name(u) : u \in Node}
<1>1. CASE t = NoType \/ Name(t) \in done
  <2>1. stack' = s /\ done' = done
    BY <1>1 DEF Enter
  <2>2. Entering(s, done, NoType, Range(input.types))
    BY <1>1, EnteringSkips
  <2> QED BY <1>1, <2>1, <2>2
<1>2. CASE ~ (t = NoType \/ Name(t) \in done)
  <2> DEFINE x == [type |-> t, deps |-> resolve2(t)]
             n == Len(s)
  <2>1. /\ stack' = Append(s, x)
        /\ done' = IF Name(t) = "" THEN done ELSE done \cup {Name(t)}
    BY <1>2 DEF Enter
  <2>2. x.type = t
    OBVIOUS
  <2>3. t \in Node /\ t # NoType
    BY <1>2, InputOf DEF Entering
  <2>4. OnTop(stack', s, x)
    <3>1. OnTop(Append(s, x), s, x)
      BY Pushed
    <3> QED BY <2>1, <3>1
  <2>5. done \subseteq done' /\ Name(t) \in done' \cup {""}
    BY <2>1
  <2>6. Entering(stack', done', NoType, Range(input.types))
    <3>1. Closed(Range(input.types) \cup {NoType})
      BY InputOf
    <3>2. PICK r : r = stack'
      OBVIOUS
    <3>3. PICK e : e = done'
      OBVIOUS
    <3>4. OnTop(r, s, [type |-> t, deps |-> resolve2(t)]) /\ done \subseteq e
      BY <2>4, <2>5, <3>2, <3>3
    <3>5. Entering(r, e, NoType, Range(input.types))
      BY <2>3, <3>1, <3>4, EnteringPushes
    <3> QED BY <3>2, <3>3, <3>5
  <2>7. Known(output, stack', done')
    <3> SUFFICES ASSUME NEW m \in done'
                 PROVE  \/ \E i \in 1 .. Len(output) : Name(output[i]) = m
                        \/ \E k \in 1 .. Len(stack') : Name(stack'[k].type) = m
      BY DEF Known
    <3>1. /\ n \in Nat /\ Len(stack') = n + 1 /\ stack'[n + 1].type = t
          /\ \A k \in 1 .. n : stack'[k] = s[k]
      BY <2>2, <2>4, Indices DEF OnTop
    <3>2. CASE m \in done
      <4>1. \A k \in 1 .. n : k \in 1 .. n + 1
        BY <3>1, Upto
      <4> QED BY <3>1, <3>2, <4>1 DEF Known
    <3>3. CASE m \notin done
      <4>1. m = Name(t)
        BY <2>1, <3>3
      <4>2. n + 1 \in 1 .. n + 1
        BY <3>1, Upto
      <4> QED BY <3>1, <4>1, <4>2
    <3> QED BY <3>2, <3>3
  <2>8. done \subseteq {Name(u) : u \in Node} => done' \subseteq {Name(u) : u \in Node}
    BY <2>1, <2>3
  <2> QED BY <2>5, <2>6, <2>7, <2>8
<1> QED BY <1>1, <1>2

LEMMA MoreMarked ==
  ASSUME NEW d, NEW e, d \subseteq e
  PROVE  /\ \A out, types : Ready(out, d, types) => Ready(out, e, types)
         /\ \A p, structs, missing : Visited(p, d, structs, missing) => Visited(p, e, structs, missing)
<1>1. ASSUME NEW out, NEW types, Ready(out, d, types) PROVE Ready(out, e, types)
  BY <1>1 DEF Ready
<1>2. ASSUME NEW p, NEW structs, NEW missing, Visited(p, d, structs, missing)
      PROVE  Visited(p, e, structs, missing)
  BY <1>2 DEF Visited, Seen
<1> QED BY <1>1, <1>2

\* The type on top is ready to be printed.
LEMMA TopReady ==
  ASSUME input \in Inputs, NEW s, Sequence(s), s # << >>, NEW d, NEW out,
         Entering(s, d, NoType, Range(input.types)), Known(out, s, d),
         NamesOf(s[Len(s)].type) \subseteq d
  PROVE  \A u \in Open(s[Len(s)].type) \ {NoType} :
           Name(u) # "" =>
             \/ \E j \in 1 .. Len(out) : Name(out[j]) = Name(u)
             \/ s[Len(s)].type \in LeadsTo(u)
             \/ Twice(input.types, Name(u))
<1> DEFINE t == s[Len(s)].type
           ts == Range(input.types)
<1>1. Len(s) \in 1 .. Len(s)
  BY Indices
<1>2. t \in ts /\ Typed(s, ts) /\ ts \subseteq Node /\ Closed(ts \cup {NoType})
  BY <1>1, InputOf DEF Entering, Typed
<1>3. Open(t) \subseteq ts \cup {NoType}
  <2> HIDE DEF t, ts
  <2>1. t # NoType /\ t \in ts \cup {NoType}
    BY <1>2, Nodes
  <2> QED BY <1>2, <2>1, OpenIn
<1> SUFFICES ASSUME NEW u \in Open(t) \ {NoType}, Name(u) # "",
                    \A j \in 1 .. Len(out) : Name(out[j]) # Name(u)
             PROVE  t \in LeadsTo(u) \/ Twice(input.types, Name(u))
  OBVIOUS
<1>4. Name(u) \in d /\ u \in ts
  BY <1>3 DEF NamesOf
<1>5. PICK k \in 1 .. Len(s) : Name(s[k].type) = Name(u)
  BY <1>4 DEF Known
<1>6. s[k].type \in ts
  BY <1>2 DEF Typed
<1>7. CASE s[k].type = u
  <2>1. s[Len(s)].type \in LeadsTo(s[k].type)
    <3> HIDE DEF ts
    <3> QED BY <1>2, Leads
  <2> QED BY <1>7, <2>1
<1>8. CASE s[k].type # u
  BY <1>4, <1>5, <1>6, <1>8, NamedTwice
<1> QED BY <1>7, <1>8

\* A type that is ready is printed.
LEMMA ReadyMore ==
  ASSUME NEW out, Sequence(out), NEW d, NEW types, Ready(out, d, types),
         NEW t \in Range(types), NamesOf(t) \subseteq d,
         \A u \in Open(t) \ {NoType} :
           Name(u) # "" =>
             \/ \E j \in 1 .. Len(out) : Name(out[j]) = Name(u)
             \/ t \in LeadsTo(u)
             \/ Twice(types, Name(u)),
         NEW r, OnTop(r, out, t)
  PROVE  Ready(r, d, types)
<1> DEFINE m == Len(out)
<1>1. /\ m \in Nat /\ Len(r) = m + 1 /\ r[m + 1] = t /\ \A i \in 1 .. m : r[i] = out[i]
  BY Indices DEF OnTop
<1> SUFFICES ASSUME NEW i \in 1 .. m + 1
             PROVE  /\ r[i] \in Range(types) /\ NamesOf(r[i]) \subseteq d
                    /\ \A u \in Open(r[i]) \ {NoType} :
                         Name(u) # "" =>
                           \/ \E j \in 1 .. i - 1 : Name(r[j]) = Name(u)
                           \/ r[i] \in LeadsTo(u)
                           \/ Twice(types, Name(u))
  BY <1>1 DEF Ready
<1>2. \A j \in 1 .. i - 1 : j \in 1 .. m
  BY <1>1, Upto
<1>3. CASE i \in 1 .. m
  <2>1. r[i] = out[i] /\ \A j \in 1 .. i - 1 : r[j] = out[j]
    BY <1>1, <1>2, <1>3
  <2> QED BY <1>3, <2>1 DEF Ready
<1>4. CASE i = m + 1
  <2>1. r[i] = t /\ i - 1 = m
    BY <1>1, <1>4, Upto
  <2> QED BY <1>1, <2>1
<1> QED BY <1>1, <1>3, <1>4, Upto

-----------------------------------------------------------------------------
\* The steps.

\* A type that is entered has a name no activation and no printed type has.
LEMMA Entered ==
  ASSUME NEW t, NEW s, Marked(s, done), Printed(output, s, done), "" \notin done,
         Enter(t, s), output' = output
  PROVE  IInv'
<1>1. CASE t = NoType \/ Name(t) \in done
  <2>1. stack' = s /\ done' = done
    BY <1>1 DEF Enter
  <2> QED BY <2>1 DEF IInv
<1>2. CASE ~ (t = NoType \/ Name(t) \in done)
  <2> DEFINE x == [type |-> t, deps |-> resolve2(t)]
             n == Len(s)
  <2>1. /\ stack' = Append(s, x) /\ Name(t) \notin done
        /\ done' = IF Name(t) = "" THEN done ELSE done \cup {Name(t)}
    BY <1>2 DEF Enter
  <2>2. Frame(x) /\ x.type = t
    BY DEF Frame
  <2> HIDE DEF x
  <2>3. /\ Sequence(stack') /\ Len(stack') = n + 1 /\ stack'[n + 1] = x /\ n \in Nat
        /\ \A i \in 1 .. n : stack'[i] = s[i]
    <3>1. Sequence(s)
      BY DEF Marked
    <3>2. n \in Nat
      BY <3>1, Indices
    <3>3. OnTop(Append(s, x), s, x)
      BY <3>1, Pushed
    <3>4. OnTop(stack', s, x)
      BY <2>1, <3>3
    <3> QED BY <3>2, <3>4 DEF OnTop
  <2>4. "" \notin done' /\ done \subseteq done' /\ Name(t) \in done' \cup {""}
    BY <2>1
  <2>5. \A i \in 1 .. n : /\ Frame(s[i]) /\ Name(s[i].type) \in done \cup {""}
                          /\ Name(s[i].type) # Name(t) \/ Name(t) = ""
    BY <2>1 DEF Marked
  <2>6. \A i \in 1 .. n + 1 : i \in 1 .. n \/ i = n + 1
    <3>1. n \in Nat
      BY <2>3
    <3> QED BY <3>1, Upto
  <2>7. Marked(stack', done')
    <3>1. \A i \in 1 .. n + 1 : Frame(stack'[i]) /\ Name(stack'[i].type) \in done' \cup {""}
      BY <2>2, <2>3, <2>4, <2>5, <2>6
    <3>2. \A i, j \in 1 .. n + 1 :
            Name(stack'[i].type) # "" /\ Name(stack'[i].type) = Name(stack'[j].type) => i = j
      <4> TAKE i, j \in 1 .. n + 1
      <4> HAVE Name(stack'[i].type) # "" /\ Name(stack'[i].type) = Name(stack'[j].type)
      <4>1. CASE i \in 1 .. n /\ j \in 1 .. n
        BY <2>3, <4>1 DEF Marked
      <4>2. CASE i = n + 1 /\ j \in 1 .. n
        BY <2>2, <2>3, <2>5, <4>2
      <4>3. CASE i \in 1 .. n /\ j = n + 1
        BY <2>2, <2>3, <2>5, <4>3
      <4> QED BY <2>6, <4>1, <4>2, <4>3
    <3> QED BY <2>3, <3>1, <3>2 DEF Marked
  <2>8. Printed(output', stack', done')
    <3>1. \A i \in 1 .. Len(output) : Name(output[i]) \in done
      BY DEF Printed
    <3>2. \A i \in 1 .. Len(output), k \in 1 .. n + 1 : Name(stack'[k].type) # Name(output[i])
      <4> TAKE i \in 1 .. Len(output), k \in 1 .. n + 1
      <4>1. CASE k \in 1 .. n
        BY <2>3, <4>1 DEF Printed
      <4>2. CASE k = n + 1
        BY <2>1, <2>2, <2>3, <3>1, <4>2
      <4> QED BY <2>6, <4>1, <4>2
    <3> QED BY <2>3, <2>4, <3>1, <3>2 DEF Printed
  <2> QED BY <2>4, <2>7, <2>8 DEF IInv
<1> QED BY <1>1, <1>2

\* The top goes on to its next dependency: the types on the stack stay.
LEMMA Advanced ==
  ASSUME IInv, stack # << >>
  PROVE  LET s == Append(Front(stack), [Last(stack) EXCEPT !.deps = Tail(@)])
         IN  Sequence(s) /\ Advances(s, stack) /\ \A i \in 1 .. Len(stack) : Frame(s[i])
<1> DEFINE n == Len(stack)
           x == [Last(stack) EXCEPT !.deps = Tail(@)]
           s == Append(Front(stack), x)
<1>1. /\ Sequence(stack) /\ n \in Nat /\ n >= 1
      /\ \A i \in 1 .. n : Frame(stack[i])
  BY Indices DEF IInv, Marked
<1>2. Frame(x) /\ x.type = stack[n].type /\ x.deps = Tail(stack[n].deps)
  <2>1. Frame(stack[n])
    BY <1>1
  <2>2. PICK t, deps : stack[n] = [type |-> t, deps |-> deps]
    BY <2>1 DEF Frame
  <2> DEFINE l == Last(stack)
  <2>3. l = [type |-> t, deps |-> deps]
    BY <2>2 DEF Last
  <2>4. x = [l EXCEPT !.deps = Tail(l.deps)]
    OBVIOUS
  <2> HIDE DEF x, l
  <2>5. x = [type |-> t, deps |-> Tail(deps)]
    BY <2>3, <2>4
  <2>6. x.type = t /\ x.deps = Tail(deps) /\ Frame(x)
    BY <2>5 DEF Frame
  <2> QED BY <2>2, <2>6
<1> HIDE DEF x
<1>3. /\ Sequence(Front(stack)) /\ Len(Front(stack)) = n - 1
      /\ \A i \in 1 .. n - 1 : Front(stack)[i] = stack[i]
  BY <1>1, Popped
<1>4. /\ Sequence(s) /\ Len(s) = n /\ s[n] = x
      /\ \A i \in 1 .. n - 1 : s[i] = stack[i]
  <2>1. OnTop(s, Front(stack), x)
    BY <1>3, Pushed
  <2> HIDE DEF s
  <2> QED BY <1>1, <1>3, <2>1 DEF OnTop
<1> HIDE DEF s
<1>5. \A i \in 1 .. n : Frame(s[i])
  <2> TAKE i \in 1 .. n
  <2>1. CASE i = n
    BY <1>2, <1>4, <2>1
  <2>2. CASE i \in 1 .. n - 1
    BY <1>1, <1>4, <2>2
  <2> QED BY <1>1, <2>1, <2>2
<1> QED BY <1>2, <1>4, <1>5 DEF s, x, Advances

LEMMA SameTypes ==
  ASSUME NEW s, Sequence(s), s # << >>, NEW r, Advances(r, s)
  PROVE  Len(r) = Len(s) /\ \A i \in 1 .. Len(s) : r[i].type = s[i].type
<1>1. \A i \in 1 .. Len(s) : i = Len(s) \/ i \in 1 .. Len(s) - 1
  BY Indices
<1> QED BY <1>1 DEF Advances

LEMMA Descended ==
  ASSUME IInv, stack # << >>
  PROVE  LET s == Append(Front(stack), [Last(stack) EXCEPT !.deps = Tail(@)])
         IN  Marked(s, done) /\ Printed(output, s, done)
<1> DEFINE s == Append(Front(stack), [Last(stack) EXCEPT !.deps = Tail(@)])
<1>1. /\ Sequence(stack) /\ Sequence(s) /\ Advances(s, stack)
      /\ \A i \in 1 .. Len(stack) : Frame(s[i])
  BY Advanced DEF IInv, Marked
<1> HIDE DEF s
<1>2. Len(s) = Len(stack) /\ \A i \in 1 .. Len(stack) : s[i].type = stack[i].type
  BY <1>1, SameTypes
<1>3. Marked(s, done)
  BY <1>1, <1>2 DEF IInv, Marked
<1>4. Printed(output, s, done)
  BY <1>2 DEF IInv, Printed
<1> QED BY <1>3, <1>4 DEF s

\* The top is printed, or dropped: no other activation has its name.
LEMMA PrintStep == IInv /\ generate_struct => IInv'
<1> SUFFICES ASSUME IInv, generate_struct PROVE IInv'
  OBVIOUS
<1> DEFINE n == Len(stack)
           t == Last(stack).type
           m == Len(output)
<1>1. /\ stack # << >> /\ stack' = Front(stack) /\ done' = done
      /\ \/ output' = output
         \/ Name(t) # "" /\ output' = Append(output, t)
  BY DEF generate_struct
<1>2. /\ Sequence(stack) /\ n \in Nat /\ n >= 1 /\ Sequence(output) /\ m \in Nat
      /\ t = stack[n].type
  BY <1>1, Indices DEF IInv, Marked, Printed, Last
<1>3. /\ Sequence(stack') /\ Len(stack') = n - 1
      /\ \A i \in 1 .. n - 1 : stack'[i] = stack[i] /\ i \in 1 .. n
  <2>1. /\ Sequence(Front(stack)) /\ Len(Front(stack)) = n - 1
        /\ \A i \in 1 .. n - 1 : Front(stack)[i] = stack[i]
    BY <1>1, <1>2, Popped
  <2>2. n \in Nat
    BY <1>2
  <2>3. \A i \in 1 .. n - 1 : i \in 1 .. n
    BY <2>2, Upto
  <2> QED BY <1>1, <2>1, <2>3
<1> HIDE DEF t
<1>4. Marked(stack', done')
  <2>1. \A i \in 1 .. n - 1 : Frame(stack'[i]) /\ Name(stack'[i].type) \in done \cup {""}
    BY <1>3 DEF IInv, Marked
  <2>2. \A i, j \in 1 .. n - 1 :
          Name(stack'[i].type) # "" /\ Name(stack'[i].type) = Name(stack'[j].type) => i = j
    BY <1>3 DEF IInv, Marked
  <2> QED BY <1>1, <1>3, <2>1, <2>2 DEF Marked
<1>5. Printed(output', stack', done')
  <2>1. CASE output' = output
    <3>1. /\ Sequence(output') /\ \A i \in 1 .. Len(output') : Name(output'[i]) \in done'
          /\ \A i, j \in 1 .. Len(output') : Name(output'[i]) = Name(output'[j]) => i = j
          /\ \A i \in 1 .. Len(output'), k \in 1 .. n : Name(stack[k].type) # Name(output'[i])
      BY <1>1, <2>1 DEF IInv, Printed
    <3>2. \A i \in 1 .. Len(output'), k \in 1 .. Len(stack') : Name(stack'[k].type) # Name(output'[i])
      BY <1>3, <3>1
    <3> QED BY <3>1, <3>2 DEF Printed
  <2>2. CASE Name(t) # "" /\ output' = Append(output, t)
    <3>1. /\ Sequence(output') /\ Len(output') = m + 1 /\ output'[m + 1] = t
          /\ \A i \in 1 .. m : output'[i] = output[i]
      <4>1. Sequence(output)
        BY <1>2
      <4>2. OnTop(Append(output, t), output, t)
        BY <4>1, Pushed
      <4>3. OnTop(output', output, t)
        BY <2>2, <4>2
      <4> QED BY <4>3 DEF OnTop
    <3>2. n \in 1 .. n /\ \A i \in 1 .. m + 1 : i \in 1 .. m \/ i = m + 1
      <4>1. n \in Nat /\ n >= 1 /\ m \in Nat
        BY <1>2
      <4> HIDE DEF n, m
      <4> QED BY <4>1
    <3>3. Name(t) \in done /\ \A i \in 1 .. m : Name(output[i]) # Name(t)
      BY <1>2, <2>2, <3>2 DEF IInv, Marked, Printed
    <3>4. \A k \in 1 .. n - 1 : Name(stack[k].type) # Name(t)
      <4> SUFFICES ASSUME NEW k \in 1 .. n - 1, Name(stack[k].type) = Name(t) PROVE FALSE
        OBVIOUS
      <4>1. k \in 1 .. n /\ k # n
        BY <1>2
      <4> QED BY <1>2, <2>2, <3>2, <4>1 DEF IInv, Marked
    <3>5. \A i \in 1 .. m + 1 :
            /\ Name(output'[i]) \in done
            /\ \A k \in 1 .. n - 1 : Name(stack'[k].type) # Name(output'[i])
      <4> TAKE i \in 1 .. m + 1
      <4>1. CASE i \in 1 .. m
        BY <1>3, <3>1, <4>1 DEF IInv, Printed
      <4>2. CASE i = m + 1
        BY <1>3, <3>1, <3>3, <3>4, <4>2
      <4> QED BY <3>2, <4>1, <4>2
    <3>6. \A i, j \in 1 .. m + 1 : Name(output'[i]) = Name(output'[j]) => i = j
      <4> TAKE i, j \in 1 .. m + 1
      <4> HAVE Name(output'[i]) = Name(output'[j])
      <4>1. CASE i \in 1 .. m /\ j \in 1 .. m
        BY <3>1, <4>1 DEF IInv, Printed
      <4>2. CASE i = m + 1 /\ j \in 1 .. m
        BY <3>1, <3>3, <4>2
      <4>3. CASE i \in 1 .. m /\ j = m + 1
        BY <3>1, <3>3, <4>3
      <4> QED BY <3>2, <4>1, <4>2, <4>3
    <3> QED BY <1>1, <1>3, <3>1, <3>5, <3>6 DEF Printed
  <2> QED BY <1>1, <2>1, <2>2
<1> QED BY <1>1, <1>4, <1>5 DEF IInv

LEMMA NextIInv == IInv /\ [Next]_vars => IInv'
<1> SUFFICES ASSUME IInv, [Next]_vars PROVE IInv'
  OBVIOUS
<1>1. ASSUME UNCHANGED <<stack, done, output>> PROVE IInv'
  BY <1>1 DEF IInv
<1>2. CASE Generate
  <2>1. stack = << >> /\ output' = output
    BY <1>2 DEF Generate
  <2>2. CASE UNCHANGED <<stack, done>>
    BY <1>1, <2>1, <2>2
  <2>3. CASE Enter(findStructDebugInfo2(Head(pending)), << >>)
    <3>1. Marked(<< >>, done) /\ Printed(output, << >>, done) /\ "" \notin done
      BY <2>1 DEF IInv
    <3> QED BY <2>1, <2>3, <3>1, Entered
  <2> QED BY <1>2, <2>2, <2>3 DEF Generate
<1>3. CASE Descend
  <2> DEFINE s == Append(Front(stack), [Last(stack) EXCEPT !.deps = Tail(@)])
             t == Head(Last(stack).deps)
  <2>1. stack # << >> /\ output' = output /\ Enter(t, s)
    BY <1>3 DEF Descend
  <2>2. Marked(s, done) /\ Printed(output, s, done) /\ "" \notin done
    BY <2>1, Descended DEF IInv
  <2> HIDE DEF s, t
  <2> QED BY <2>1, <2>2, Entered
<1>4. CASE generate_struct
  BY <1>4, PrintStep
<1>5. CASE Finish
  BY <1>1, <1>5 DEF Finish
<1>6. CASE Ended
  BY <1>1, <1>6 DEF Ended, vars
<1>7. CASE UNCHANGED vars
  BY <1>1, <1>7 DEF vars
<1> QED BY <1>2, <1>3, <1>4, <1>5, <1>6, <1>7 DEF Next, Step

-----------------------------------------------------------------------------

-----------------------------------------------------------------------------
\* The steps of JInv.

\* One struct name less is left.
LEMMA VisitedNext ==
  ASSUME NEW p, NEW d, NEW structs, NEW missing, Visited(p, d, structs, missing), p # << >>,
         structs \in Seq(Range(structs)), NEW e, d \subseteq e,
         \/ Head(p) \in Seen(e)
         \/ \A i \in DOMAIN structs : structs[i] = Head(p) => i \in missing
  PROVE  Visited(Tail(p), e, structs, missing)
<1>1. /\ Sequence(p)
      /\ Len(structs) \in Nat /\ DOMAIN structs = 1 .. Len(structs)
  BY DEF Visited
<1>2. PICK n \in 0 .. Len(structs) :
        /\ Len(p) = Len(structs) - n
        /\ \A i \in 1 .. Len(p) : p[i] = structs[n + i]
        /\ \A i \in 1 .. n : structs[i] \in Seen(d) \/ i \in missing
  BY DEF Visited
<1> DEFINE q == Tail(p)
           m == n + 1
<1>3. /\ Sequence(q) /\ Len(p) >= 1 /\ Len(p) \in Nat
      /\ Len(q) = Len(p) - 1 /\ \A i \in 1 .. Len(p) - 1 : q[i] = p[i + 1]
      /\ Head(p) = p[1]
  <2>1. p \in Seq(Range(p)) /\ p # << >>
    BY <1>1 DEF Sequence
  <2>2. /\ q \in Seq(Range(p)) /\ Len(p) >= 1 /\ Len(p) \in Nat
        /\ Len(q) = Len(p) - 1 /\ \A i \in 1 .. Len(p) - 1 : q[i] = p[i + 1]
        /\ Head(p) = p[1]
    BY <2>1
  <2> HIDE DEF q
  <2>3. Sequence(q)
    BY <2>2 DEF Sequence, Range
  <2> QED BY <2>2, <2>3
<1> HIDE DEF q
<1>4. m \in 0 .. Len(structs) /\ Len(q) = Len(structs) - m
  BY ONLY <1>1, <1>2, <1>3
<1>5. ASSUME NEW i \in 1 .. Len(q) PROVE q[i] = structs[m + i]
  <2>1. i + 1 \in 1 .. Len(p) /\ n + (i + 1) = m + i /\ i \in 1 .. Len(p) - 1
    BY ONLY <1>1, <1>2, <1>3, i \in 1 .. Len(q)
  <2> QED BY <1>2, <1>3, <2>1
<1>6. ASSUME NEW i \in 1 .. m PROVE structs[i] \in Seen(e) \/ i \in missing
  <2>0. Seen(d) \subseteq Seen(e)
    BY DEF Seen
  <2>1. CASE i \in 1 .. n
    BY <1>2, <2>0, <2>1
  <2>2. CASE i \notin 1 .. n
    <3>1. i = n + 1 /\ n + 1 \in 1 .. Len(structs) /\ 1 \in 1 .. Len(p)
      BY ONLY <1>1, <1>2, <1>3, <2>2, i \in 1 .. m
    <3>2. structs[i] = Head(p)
      BY <1>2, <1>3, <3>1
    <3> QED BY <1>1, <3>1, <3>2
  <2> QED BY <2>1, <2>2
<1> HIDE DEF m
<1>7. Visited(q, e, structs, missing)
  BY <1>3, <1>4, <1>5, <1>6 DEF Visited
<1> QED BY <1>7 DEF q

\* Nothing is missing before the first.
LEMMA NothingVisited ==
  ASSUME NEW s, Sequence(s), NEW d, NEW missing
  PROVE  Visited(s, d, s, missing)
<1>1. Len(s) \in Nat
  BY Indices
<1>2. /\ 0 \in 0 .. Len(s) /\ Len(s) = Len(s) - 0
      /\ \A i \in 1 .. Len(s) : s[i] = s[0 + i]
      /\ \A i \in 1 .. 0 : FALSE
  BY <1>1
<1> QED BY <1>2 DEF Visited

LEMMA Rebuilt ==
  ASSUME JInv, input' = input, done \subseteq done',
         Entering(stack', done', NoType, Range(input.types)),
         Ready(output', done', input.types), Visited(pending', done', input.structs, Missing),
         done' \subseteq {Name(t) : t \in Node}, phase' \in {"generating", "finished", "crashed"},
         phase' # "crashed" => Known(output', stack', done'),
         phase' = "finished" => stack' = << >> /\ pending' = << >>
  PROVE  JInv'
<1>1. Missing' = Missing
  BY DEF Missing, findStructDebugInfo2
<1> QED BY <1>1 DEF JInv

LEMMA JGenerate == IInv /\ JInv /\ Generate => JInv'
<1> SUFFICES ASSUME IInv, JInv, Generate PROVE JInv'
  OBVIOUS
<1> DEFINE name == Head(pending)
           t == findStructDebugInfo2(name)
<1>1. /\ phase = "generating" /\ stack = << >> /\ pending # << >> /\ pending' = Tail(pending)
      /\ input' = input /\ output' = output /\ input \in Inputs
      /\ phase' = phase
      /\ \/ name \in Blocked /\ UNCHANGED <<stack, done>>
         \/ Enter(t, << >>)
  BY DEF Generate, JInv
<1>2. Sequence(<< >>) /\ "" \notin done
  BY <1>1 DEF IInv, Marked
<1>3. /\ Known(output, stack, done) /\ Entering(stack, done, NoType, Range(input.types))
      /\ Ready(output, done, input.types) /\ Visited(pending, done, input.structs, Missing)
      /\ done \subseteq {Name(u) : u \in Node} /\ input.structs \in Seq(Range(input.structs))
  BY <1>1, InputOf DEF JInv
<1>4. t = NoType => \A i \in DOMAIN input.structs : input.structs[i] = name => i \in Missing
  BY DEF Missing
<1>5. t # NoType => Name(t) = name
  BY <1>1, Found
<1>6. t \in Range(input.types) \cup {NoType}
  BY <1>1, Found
<1> HIDE DEF t, name
<1>7. CASE name \in Blocked /\ UNCHANGED <<stack, done>>
  <2>1. Visited(pending', done', input.structs, Missing)
    BY <1>1, <1>3, <1>4, <1>7, VisitedNext DEF name, Seen
  <2> QED BY <1>1, <1>3, <1>7, <2>1, Rebuilt
<1>8. CASE Enter(t, << >>)
  <2>1. Entering(<< >>, done, t, Range(input.types))
    <3>1. Len(<< >>) = 0
      OBVIOUS
    <3>2. Typed(<< >>, Range(input.types)) /\ Waiting(<< >>, done, t)
      BY <3>1 DEF Typed, Waiting
    <3> QED BY <1>6, <3>1, <3>2 DEF Entering
  <2>2. Known(output, << >>, done)
    BY <1>1, <1>3
  <2>3. /\ Entering(stack', done', NoType, Range(input.types)) /\ Known(output, stack', done')
        /\ done \subseteq done' /\ (t # NoType => Name(t) \in done' \cup {""})
        /\ done' \subseteq {Name(u) : u \in Node}
    BY <1>1, <1>2, <1>3, <1>8, <2>1, <2>2, JEntered
  <2>4. Visited(pending', done', input.structs, Missing)
    <3>1. \/ name \in Seen(done')
          \/ \A i \in DOMAIN input.structs : input.structs[i] = name => i \in Missing
      BY <1>4, <1>5, <2>3 DEF Seen
    <3> QED BY <1>1, <1>3, <2>3, <3>1, VisitedNext DEF name
  <2>5. Ready(output', done', input.types)
    BY <1>1, <1>3, <2>3, MoreMarked
  <2>6. Known(output', stack', done')
    BY <1>1, <2>3
  <2> QED BY <1>1, <1>8, <2>3, <2>4, <2>5, <2>6, Rebuilt
<1> QED BY <1>1, <1>7, <1>8

LEMMA JDescend == IInv /\ JInv /\ Descend => JInv'
<1> SUFFICES ASSUME IInv, JInv, Descend PROVE JInv'
  OBVIOUS
<1> DEFINE s == Append(Front(stack), [Last(stack) EXCEPT !.deps = Tail(@)])
           t == Head(Last(stack).deps)
           ts == Range(input.types)
<1>1. /\ phase = "generating" /\ stack # << >> /\ Last(stack).deps # << >> /\ Enter(t, s)
      /\ input' = input /\ pending' = pending /\ output' = output /\ phase' = phase
  BY DEF Descend
<1>2. /\ Known(output, stack, done) /\ Entering(stack, done, NoType, ts)
      /\ Ready(output, done, input.types) /\ Visited(pending, done, input.structs, Missing)
      /\ done \subseteq {Name(u) : u \in Node} /\ input \in Inputs
      /\ "" \notin done /\ Sequence(stack)
  BY <1>1 DEF JInv, IInv, Marked
<1>3. Sequence(s) /\ Advances(s, stack)
  BY <1>1, Advanced
<1>4. Closed(ts \cup {NoType}) /\ NoType \notin ts
  BY <1>2, InputOf, Nodes
<1> HIDE DEF s, ts
<1>5. Entering(s, done, t, ts)
  <2>1. t = Head(stack[Len(stack)].deps) /\ stack[Len(stack)].deps # << >>
    BY <1>1 DEF Last
  <2>2. Entering(s, done, Head(stack[Len(stack)].deps), ts)
    BY <1>1, <1>2, <1>3, <1>4, <2>1, EnteringNext
  <2> QED BY <2>1, <2>2
<1> HIDE DEF t
<1>6. Known(output, s, done)
  BY <1>1, <1>2, <1>3, SameTypes DEF Known
<1>7. /\ Entering(stack', done', NoType, ts) /\ Known(output, stack', done')
      /\ done \subseteq done' /\ done' \subseteq {Name(u) : u \in Node}
  BY <1>1, <1>2, <1>3, <1>5, <1>6, JEntered DEF ts
<1>8. Ready(output', done', input.types) /\ Visited(pending', done', input.structs, Missing)
  BY <1>1, <1>2, <1>7, MoreMarked
<1>9. Known(output', stack', done')
  BY <1>1, <1>7
<1> QED BY <1>1, <1>7, <1>8, <1>9, Rebuilt DEF ts

LEMMA JPrint == IInv /\ JInv /\ generate_struct => JInv'
<1> SUFFICES ASSUME IInv, JInv, generate_struct PROVE JInv'
  OBVIOUS
<1> DEFINE n == Len(stack)
           t == stack[n].type
           ts == Range(input.types)
<1>1. /\ phase = "generating" /\ stack # << >> /\ stack[n].deps = << >> /\ stack' = Front(stack)
      /\ input' = input /\ pending' = pending /\ done' = done
      /\ \/ Name(t) = "" /\ output' = output /\ phase' = "generating"
         \/ Name(t) # "" /\ output' = Append(output, t) /\ phase' = "generating"
         \/ output' = output /\ phase' = "crashed"
  BY DEF generate_struct, Last
<1>2. /\ Known(output, stack, done) /\ Entering(stack, done, NoType, ts)
      /\ Ready(output, done, input.types) /\ Visited(pending, done, input.structs, Missing)
      /\ done \subseteq {Name(u) : u \in Node} /\ input \in Inputs
      /\ "" \notin done /\ Sequence(stack) /\ Sequence(output)
  BY <1>1 DEF JInv, IInv, Marked, Printed
<1>3. n \in 1 .. n /\ Sequence(Front(stack)) /\ Lower(Front(stack), stack)
  <2>1. /\ Sequence(Front(stack)) /\ Len(Front(stack)) = Len(stack) - 1
        /\ \A i \in 1 .. Len(stack) - 1 : Front(stack)[i] = stack[i]
    BY <1>1, <1>2, Popped
  <2>2. n \in 1 .. n
    BY <1>1, <1>2, Indices
  <2> QED BY <2>1, <2>2 DEF Lower
<1>4. Spent(stack, done)
  <2>1. Range(stack[n].deps) = {}
    BY <1>1, EmptyRange
  <2>2. Name(t) \in done \cup {""}
    BY <1>3 DEF IInv, Marked
  <2> QED BY <2>1, <2>2 DEF Spent
<1>5. NamesOf(t) \subseteq done /\ Entering(stack', done', NoType, ts)
  <2>1. ts \subseteq Node
    BY <1>2, InputOf
  <2> HIDE DEF ts
  <2>2. NamesOf(t) \subseteq done /\ Entering(Front(stack), done, NoType, ts)
    BY <1>1, <1>2, <1>3, <1>4, <2>1, EnteringPops
  <2> QED BY <1>1, <2>2
<1>6. ASSUME NEW m \in done, m # Name(t), NEW out,
             \A i \in 1 .. Len(output) : \E j \in 1 .. Len(out) : Name(out[j]) = Name(output[i])
      PROVE  \/ \E i \in 1 .. Len(out) : Name(out[i]) = m
             \/ \E k \in 1 .. Len(Front(stack)) : Name(Front(stack)[k].type) = m
  <2>1. CASE \E i \in 1 .. Len(output) : Name(output[i]) = m
    BY <1>6, <2>1
  <2>2. CASE \E k \in 1 .. n : Name(stack[k].type) = m
    <3>1. PICK k \in 1 .. n : Name(stack[k].type) = m
      BY <2>2
    <3>2. k \in 1 .. n - 1
      <4>1. k # n
        BY <1>6, <3>1
      <4>2. n \in Nat
        BY <1>2, Indices
      <4> QED BY <3>1, <4>1, <4>2, UptoTop
    <3> QED BY <1>3, <3>1, <3>2 DEF Lower
  <2> QED BY <1>2, <2>1, <2>2 DEF Known
<1>7. CASE output' = output /\ (Name(t) = "" \/ phase' = "crashed") /\ phase' \in {"generating", "crashed"}
  <2>1. phase' # "crashed" => Known(output', stack', done')
    <3> SUFFICES ASSUME Name(t) = "", NEW m \in done
                 PROVE  \/ \E i \in 1 .. Len(output) : Name(output[i]) = m
                        \/ \E k \in 1 .. Len(Front(stack)) : Name(Front(stack)[k].type) = m
      BY <1>1, <1>7 DEF Known
    <3> QED BY <1>2, <1>6
  <2> QED BY <1>1, <1>2, <1>5, <1>7, <2>1, Rebuilt
<1>8. CASE output' = Append(output, t) /\ phase' = "generating"
  <2>1. OnTop(output', output, t)
    BY <1>2, <1>8, Pushed
  <2>2. t \in ts
    BY <1>2, <1>3 DEF Entering, Typed
  <2>3. \A u \in Open(t) \ {NoType} :
          Name(u) # "" =>
            \/ \E j \in 1 .. Len(output) : Name(output[j]) = Name(u)
            \/ t \in LeadsTo(u)
            \/ Twice(input.types, Name(u))
    BY <1>1, <1>2, <1>5, TopReady
  <2> HIDE DEF t
  <2>4. Ready(output', done', input.types)
    <3>1. PICK r : r = output'
      OBVIOUS
    <3>2. OnTop(r, output, t)
      BY <2>1, <3>1
    <3>3. Ready(r, done, input.types)
      BY <1>2, <1>5, <2>2, <2>3, <3>2, ReadyMore
    <3> QED BY <1>1, <3>1, <3>3
  <2>5. /\ Len(output') = Len(output) + 1 /\ output'[Len(output) + 1] = t /\ Len(output) \in Nat
        /\ \A i \in 1 .. Len(output) : output'[i] = output[i]
    BY <1>2, <2>1, Indices DEF OnTop
  <2>6. /\ Len(output) + 1 \in 1 .. Len(output')
        /\ \A i \in 1 .. Len(output) : i \in 1 .. Len(output')
    BY <2>5, Upto
  <2>7. Known(output', stack', done')
    <3> SUFFICES ASSUME NEW m \in done
                 PROVE  \/ \E i \in 1 .. Len(output') : Name(output'[i]) = m
                        \/ \E k \in 1 .. Len(stack') : Name(stack'[k].type) = m
      BY <1>1 DEF Known
    <3>1. CASE m = Name(t)
      BY <2>5, <2>6, <3>1
    <3>2. CASE m # Name(t)
      <4>1. \A i \in 1 .. Len(output) : \E j \in 1 .. Len(output') : Name(output'[j]) = Name(output[i])
        BY <2>5, <2>6
      <4> QED BY <1>1, <1>6, <3>2, <4>1
    <3> QED BY <3>1, <3>2
  <2> QED BY <1>1, <1>2, <1>5, <1>8, <2>4, <2>7, Rebuilt
<1> QED BY <1>1, <1>7, <1>8

LEMMA NextJInv == IInv /\ JInv /\ [Next]_vars => JInv'
<1> SUFFICES ASSUME IInv, JInv, [Next]_vars PROVE JInv'
  OBVIOUS
<1>1. CASE Generate
  BY <1>1, JGenerate
<1>2. CASE Descend
  BY <1>2, JDescend
<1>3. CASE generate_struct
  BY <1>3, JPrint
<1>4. CASE Finish
  <2>1. /\ UNCHANGED <<input, pending, stack, done, output>>
        /\ phase = "generating" /\ phase' = "finished" /\ stack = << >> /\ pending = << >>
    BY <1>4 DEF Finish
  <2> QED BY <2>1, Rebuilt DEF JInv
<1>5. CASE UNCHANGED vars
  <2>1. UNCHANGED <<input, pending, stack, done, output, phase>>
    BY <1>5 DEF vars
  <2> QED BY <2>1, Rebuilt DEF JInv
<1> QED BY <1>1, <1>2, <1>3, <1>4, <1>5 DEF Next, Step, Ended

-----------------------------------------------------------------------------
\* What the invariant says.

LEMMA ReverseOf ==
  ASSUME NEW s, Sequence(s)
  PROVE  /\ Reverse(s) \in Seq(Range(s)) /\ Len(Reverse(s)) = Len(s)
         /\ \A i \in 1 .. Len(s) : Reverse(s)[i] = s[(Len(s) - i) + 1]
<1> DEFINE n == Len(s)
           r == [i \in 1 .. n |-> s[(n - i) + 1]]
<1>1. n \in Nat /\ DOMAIN s = 1 .. n /\ \A i \in 1 .. n : s[i] \in Range(s)
  BY Indices
<1>2. \A i \in 1 .. n : (n - i) + 1 \in 1 .. n
  BY <1>1
<1>3. r \in [1 .. n -> Range(s)]
  BY <1>1, <1>2
<1>4. Reverse(s) = r
  BY DEF Reverse
<1>5. r \in Seq(Range(s)) /\ Len(r) = n
  <2> HIDE DEF r, n
  <2> QED BY <1>1, <1>3
<1> QED BY <1>4, <1>5

LEMMA Suffix ==
  ASSUME NEW p, Sequence(p), NEW s, Sequence(s), NEW n \in 0 .. Len(s), Len(p) = Len(s) - n,
         \A i \in 1 .. Len(p) : p[i] = s[n + i]
  PROVE  IsSuffix(p, s)
<1> DEFINE m == Len(p)
           P == Reverse(p)
           S == Reverse(s)
           A == SubSeq(P, 1, m)
           B == SubSeq(S, 1, m)
<1>1. m \in Nat /\ Len(s) \in Nat /\ m <= Len(s) /\ n \in Nat /\ m = Len(s) - n
  BY Indices
<1>2. /\ P \in Seq(Range(p)) /\ Len(P) = m
      /\ \A i \in 1 .. m : P[i] = p[(m - i) + 1]
      /\ S \in Seq(Range(s)) /\ Len(S) = Len(s)
      /\ \A i \in 1 .. Len(s) : S[i] = s[(Len(s) - i) + 1]
  BY ReverseOf
<1>3. ASSUME NEW i \in 1 .. m PROVE P[i] = S[i]
  <2>1. (m - i) + 1 \in 1 .. m /\ n + ((m - i) + 1) = (Len(s) - i) + 1 /\ i \in 1 .. Len(s)
    BY <1>1
  <2>2. p[(m - i) + 1] = s[n + ((m - i) + 1)]
    BY <2>1
  <2> QED BY <1>2, <2>1, <2>2
<1> HIDE DEF m, P, S
<1>4. A = B
  BY <1>1, <1>2, <1>3
<1> QED BY <1>1, <1>2, <1>4 DEF IsSuffix, IsPrefix, m, P, S

LEMMA Types1 == IInv /\ JInv => TypeOK
<1> SUFFICES ASSUME IInv, JInv PROVE TypeOK
  OBVIOUS
<1> DEFINE ts == Range(input.types)
<1>1. /\ input \in Inputs /\ phase \in {"generating", "finished", "crashed"}
      /\ Entering(stack, done, NoType, ts) /\ Ready(output, done, input.types)
      /\ Visited(pending, done, input.structs, Missing)
      /\ done \subseteq {Name(t) : t \in Node} /\ "" \notin done
      /\ Sequence(stack) /\ Sequence(output)
  BY DEF IInv, JInv, Marked, Printed
<1>2. ts \subseteq Node /\ Closed(ts \cup {NoType}) /\ Sequence(input.structs)
  BY <1>1, InputOf DEF Sequence
<1>3. IsSuffix(pending, input.structs)
  <2>1. PICK n \in 0 .. Len(input.structs) :
          /\ Len(pending) = Len(input.structs) - n
          /\ \A i \in 1 .. Len(pending) : pending[i] = input.structs[n + i]
    BY <1>1 DEF Visited
  <2>2. Sequence(pending)
    BY <1>1 DEF Visited
  <2> QED BY ONLY <1>2, <2>1, <2>2, n \in 0 .. Len(input.structs), Suffix
<1>4. ASSUME NEW i \in DOMAIN stack PROVE stack[i].type \in Node /\ Range(stack[i].deps) \subseteq OptNode
  <2>1. i \in 1 .. Len(stack)
    BY <1>1, Indices
  <2>2. stack[i].type \in ts /\ stack[i].deps \in Seq(Deps(stack[i].type))
    BY <1>1, <2>1 DEF Entering, Typed
  <2>3. Range(stack[i].deps) \subseteq Deps(stack[i].type)
    BY <2>2 DEF Range
  <2>4. Deps(stack[i].type) \subseteq OptNode
    <3>1. stack[i].type \in OptNode /\ stack[i].type # NoType
      BY <1>2, <2>2, Nodes DEF OptNode
    <3> QED BY <3>1, AllClosed, DepsOf
  <2> QED BY <1>2, <2>2, <2>3, <2>4
<1>5. ASSUME NEW i \in DOMAIN output PROVE output[i] \in Node /\ Name(output[i]) \in done
  <2>1. i \in 1 .. Len(output)
    BY <1>1, Indices
  <2> QED BY <1>1, <1>2, <2>1 DEF Ready, IInv, Printed
<1> QED BY <1>1, <1>3, <1>4, <1>5 DEF TypeOK

\* A name that was printed belongs to the block of that type, if no two types
\* have it.
LEMMA BlockOf ==
  ASSUME input \in Inputs, NEW u \in Range(input.types), IsClass(u) \/ IsAlias(u),
         NEW v \in Range(input.types), Name(v) = Name(u), NEW types, v \in types
  PROVE  HasBlock(Name(u), types) \/ Clash(Name(u))
<1>1. CASE v = u
  BY <1>1 DEF HasBlock
<1>2. CASE v # u
  BY <1>2, NamedTwice DEF Twice, Clash
<1> QED BY <1>1, <1>2

LEMMA ReadyOf ==
  ASSUME IInv, JInv, NEW i \in DOMAIN output, NEW u \in Open(output[i]), u \in Node, Name(u) # ""
  PROVE  /\ i \in 1 .. Len(output) /\ output[i] \in Node /\ u \in Range(input.types)
         /\ input \in Inputs /\ Name(u) \in done
         /\ \A j \in 1 .. i - 1 : output[j] \in Range(input.types)
         /\ \/ \E j \in 1 .. i - 1 : Name(output[j]) = Name(u)
            \/ output[i] \in LeadsTo(u)
            \/ Clash(Name(u))
<1>1. /\ input \in Inputs /\ Ready(output, done, input.types) /\ Sequence(output)
  BY DEF IInv, JInv, Printed
<1>2. i \in 1 .. Len(output) /\ \A j \in 1 .. i - 1 : j \in 1 .. Len(output)
  <2>1. i \in 1 .. Len(output) /\ Len(output) \in Nat
    BY <1>1, Indices
  <2>2. \A j \in 1 .. i - 1 : j \in 1 .. Len(output)
    BY ONLY <2>1
  <2> QED BY <2>1, <2>2
<1>3. u # NoType
  BY Nodes
<1>4. /\ output[i] \in Range(input.types) /\ NamesOf(output[i]) \subseteq done
      /\ \/ \E j \in 1 .. i - 1 : Name(output[j]) = Name(u)
         \/ output[i] \in LeadsTo(u)
         \/ Twice(input.types, Name(u))
  BY <1>1, <1>2, <1>3 DEF Ready
<1>5. output[i] \in Node /\ u \in Range(input.types)
  <2>1. /\ Range(input.types) \subseteq Node /\ Closed(Range(input.types) \cup {NoType})
    BY <1>1, InputOf
  <2>2. output[i] \in Range(input.types) \cup {NoType} /\ output[i] # NoType
    BY <1>4, <2>1, Nodes
  <2>3. Open(output[i]) \subseteq Range(input.types) \cup {NoType}
    BY <2>1, <2>2, OpenIn
  <2> QED BY <1>3, <1>4, <2>1, <2>3
<1>6. Name(u) \in done
  BY <1>3, <1>4 DEF NamesOf
<1>7. \A j \in 1 .. i - 1 : output[j] \in Range(input.types)
  BY <1>1, <1>2 DEF Ready
<1> QED BY <1>1, <1>2, <1>4, <1>5, <1>6, <1>7 DEF Clash, Twice

LEMMA Earlier == IInv /\ JInv => NeedsDefinedEarlier
<1> SUFFICES ASSUME IInv, JInv, NEW i \in DOMAIN output,
                    NEW u \in Uses(output[i], InSight(output[i])), Tag(u) # "const"
             PROVE  \/ HasBlock(Name(resolve[u]), {output[j] : j \in 1 .. (i - 1)})
                    \/ output[i] \in LeadsTo(resolve[u])
                    \/ Clash(Name(resolve[u]))
  BY DEF NeedsDefinedEarlier
<1>1. output[i] \in Node
  <2>1. Ready(output, done, input.types) /\ input \in Inputs /\ i \in 1 .. Len(output)
    BY Indices DEF JInv, IInv, Printed
  <2> QED BY <2>1, InputOf DEF Ready
<1>2. /\ u \in Open(output[i]) /\ u \in Node /\ resolve[u] = u /\ Name(u) # ""
      /\ IsClass(u) \/ IsAlias(u)
  BY <1>1, UsesOpen
<1>3. /\ u \in Range(input.types) /\ input \in Inputs
      /\ \A j \in 1 .. i - 1 : output[j] \in Range(input.types)
      /\ \/ \E j \in 1 .. i - 1 : Name(output[j]) = Name(u)
         \/ output[i] \in LeadsTo(u)
         \/ Clash(Name(u))
  BY <1>2, ReadyOf
<1>4. ASSUME NEW j \in 1 .. i - 1, Name(output[j]) = Name(u)
      PROVE  HasBlock(Name(u), {output[k] : k \in 1 .. (i - 1)}) \/ Clash(Name(u))
  <2>1. output[j] \in {output[k] : k \in 1 .. (i - 1)}
    OBVIOUS
  <2> QED BY <1>2, <1>3, <1>4, <2>1, BlockOf
<1> QED BY <1>2, <1>3, <1>4

\* In the end the marked names have been printed.
LEMMA AtTheEnd ==
  ASSUME IInv, JInv, phase = "finished", NEW name \in done
  PROVE  \E j \in DOMAIN output : Name(output[j]) = name /\ output[j] \in Range(input.types)
<1>1. /\ Ready(output, done, input.types) /\ Sequence(output)
      /\ Known(output, stack, done) /\ stack = << >>
  BY DEF IInv, JInv, Printed
<1>2. Len(stack) = 0
  BY <1>1
<1>3. PICK j \in 1 .. Len(output) : Name(output[j]) = name
  BY <1>1, <1>2 DEF Known
<1> QED BY <1>1, <1>3, Indices DEF Ready

LEMMA Mentioned == IInv /\ JInv => MentionsDefined
<1> SUFFICES ASSUME IInv, JInv, phase = "finished", NEW i \in DOMAIN output,
                    NEW u \in Mentions(InSight(output[i])), Tag(u) # "const"
             PROVE  HasBlock(Name(resolve[u]), Range(output)) \/ Clash(Name(resolve[u]))
  BY DEF MentionsDefined
<1>1. output[i] \in Node
  <2>1. Ready(output, done, input.types) /\ input \in Inputs /\ i \in 1 .. Len(output)
    BY Indices DEF JInv, IInv, Printed
  <2> QED BY <2>1, InputOf DEF Ready
<1>2. /\ u \in Open(output[i]) /\ u \in Node /\ resolve[u] = u /\ Name(u) # ""
      /\ IsClass(u) \/ IsAlias(u)
  BY <1>1, MentionsOpen
<1>3. u \in Range(input.types) /\ input \in Inputs /\ Name(u) \in done
  BY <1>2, ReadyOf
<1>4. PICK j \in DOMAIN output : Name(output[j]) = Name(u) /\ output[j] \in Range(input.types)
  BY <1>3, AtTheEnd
<1>5. output[j] \in Range(output)
  BY DEF Range
<1> QED BY <1>2, <1>3, <1>4, <1>5, BlockOf

LEMMA InRange ==
  ASSUME NEW s, Sequence(s), NEW x \in Range(s)
  PROVE  \E k \in 1 .. Len(s) : s[k] = x
BY Indices DEF Range

\* When nothing is left every struct name was looked for.
LEMMA AllVisited ==
  ASSUME NEW d, NEW s, NEW missing, Visited(<< >>, d, s, missing), Sequence(s),
         NEW i \in 1 .. Len(s)
  PROVE  s[i] \in Seen(d) \/ i \in missing
<1>1. Len(s) \in Nat
  BY Indices
<1>2. PICK n \in 0 .. Len(s) :
        /\ Len(<< >>) = Len(s) - n
        /\ \A k \in 1 .. n : s[k] \in Seen(d) \/ k \in missing
  BY DEF Visited
<1>3. i \in 1 .. n
  BY <1>1, <1>2
<1> QED BY <1>2, <1>3

LEMMA Classes == IInv /\ JInv => EveryStructHasClass
<1> SUFFICES ASSUME IInv, JInv, phase = "finished",
                    NEW name \in Range(input.structs), name \notin Blocked, name # "",
                    findStructDebugInfo2(name) # NoType, IsClass(findStructDebugInfo2(name))
             PROVE  \/ \E i \in DOMAIN output : Name(output[i]) = name /\ IsClass(output[i])
                    \/ Clash(name)
  BY DEF EveryStructHasClass
<1> DEFINE t == findStructDebugInfo2(name)
<1>1. /\ input \in Inputs /\ pending = << >> /\ Visited(pending, done, input.structs, Missing)
  BY DEF JInv
<1>2. t \in Range(input.types) /\ Name(t) = name /\ Sequence(input.structs)
  BY <1>1, Found, InputOf DEF Sequence
<1>3. PICK k \in 1 .. Len(input.structs) : input.structs[k] = name
  BY <1>2, InRange
<1>4. name \in done
  <2>1. name \in Seen(done) \/ k \in Missing
    BY <1>1, <1>2, <1>3, AllVisited
  <2>2. k \notin Missing
    BY <1>3 DEF Missing
  <2> QED BY <2>1, <2>2 DEF Seen
<1>5. PICK j \in DOMAIN output : Name(output[j]) = name /\ output[j] \in Range(input.types)
  BY <1>4, AtTheEnd
<1>6. CASE output[j] = t
  BY <1>5, <1>6
<1>7. CASE output[j] # t
  <2> HIDE DEF t
  <2>1. Twice(input.types, Name(t))
    BY <1>1, <1>2, <1>5, <1>7, NamedTwice
  <2> QED BY <1>2, <2>1 DEF Twice, Clash
<1> QED BY <1>6, <1>7

-----------------------------------------------------------------------------
\* What libirx finds.

\* A member without a name.
LEMMA UnnamedMember ==
  ASSUME NEW t \in Node, NEW m \in MembersOf(t), m.name = ""
  PROVE  /\ resolve[m.base] \in Inside[t]
         /\ Tag(m.base) # "const" => m.base = resolve[m.base]
         /\ Composite(m.base) => m.base \in Inside[t]
<1>1. m.base \in Node /\ m.base \in OptNode
  BY Nodes DEF MembersOf, OptNode
<1>2. InPlace(resolve[m.base])
  BY FormAssumption DEF FormAssumption, MembersOf, Range
<1>3. resolve[m.base] \in OptNode /\ resolve[m.base] # NoType
  BY <1>1, <1>2, Resolved DEF InPlace, Aggregate
<1>4. resolve[m.base] \in Inside[t]
  BY <1>2, <1>3 DEF Inside, OptNode
<1>5. Tag(m.base) # "const" => m.base = resolve[m.base]
  BY <1>1, <1>3, Resolved
<1>6. Composite(m.base) => Tag(m.base) # "const"
  BY DEF Composite
<1> QED BY <1>4, <1>5, <1>6

LEMMA NamesEquation ==
  /\ \A t \in Node : memberNames[t] \in SUBSET STRING
  /\ \A t \in Node : memberNames[t] = UNION {named(m, memberNames) : m \in MembersOf(t)}
<1> DEFINE V == SUBSET STRING
           rhs(t, h) == UNION {named(Elements(t)[i], h) : i \in DOMAIN Elements(t)}
           step == [x \in Node \X [Node -> V] |-> rhs(x[1], x[2])]
<1>1. ASSUME NEW t \in Node, NEW h PROVE rhs(t, h) = UNION {named(m, h) : m \in MembersOf(t)}
  BY DEF MembersOf
<1>2. ASSUME NEW t \in Node, NEW h, \A r \in Inside[t] : h[r] \in V PROVE rhs(t, h) \in V
  <2>1. ASSUME NEW m \in MembersOf(t) PROVE named(m, h) \in V
    <3>1. CASE m.name = ""
      BY <1>2, <3>1, UnnamedMember DEF named
    <3>2. CASE m.name # ""
      BY <3>2, FormAssumption DEF named, FormAssumption, MembersOf, Range
    <3> QED BY <3>1, <3>2
  <2> HIDE DEF rhs
  <2> QED BY <1>1, <2>1
<1>3. ASSUME NEW t \in Node, NEW h, NEW g, \A r \in Inside[t] : h[r] = g[r] PROVE rhs(t, h) = rhs(t, g)
  <2>1. ASSUME NEW m \in MembersOf(t) PROVE named(m, h) = named(m, g)
    BY <1>3, UnnamedMember DEF named
  <2> HIDE DEF rhs
  <2> QED BY <1>1, <2>1
<1>4. Follows(step, Inside, Node, V)
  <2>1. \A t \in Node : Inside[t] \subseteq Node
    BY InsideDescends DEF Descends
  <2>2. ASSUME NEW t \in Node, NEW h \in [Node -> V] PROVE step[<<t, h>>] = rhs(t, h) /\ rhs(t, h) \in V
    <3>1. rhs(t, h) \in V
      <4>1. \A r \in Inside[t] : h[r] \in V
        BY <2>1
      <4> HIDE DEF V, rhs
      <4> QED BY <1>2, <4>1
    <3>2. <<t, h>> \in Node \X [Node -> V]
      OBVIOUS
    <3> HIDE DEF rhs, V
    <3> QED BY <3>1, <3>2
  <2> HIDE DEF V, rhs
  <2>3. step \in [Node \X [Node -> V] -> V]
    <3>1. \A x \in Node \X [Node -> V] : rhs(x[1], x[2]) \in V
      BY <2>2
    <3> QED BY <3>1
  <2> HIDE DEF step
  <2>4. ASSUME NEW t \in Node, NEW h \in [Node -> V], NEW g \in [Node -> V],
               \A u \in Inside[t] : h[u] = g[u]
        PROVE  step[<<t, h>>] = step[<<t, g>>]
    <3>1. rhs(t, h) = rhs(t, g)
      BY <1>3, <2>4
    <3> QED BY <2>2, <3>1
  <2> QED BY <2>3, <2>4 DEF Follows
<1>5. \E h : h = [t \in Node |-> rhs(t, h)]
  <2>1. V # {}
    OBVIOUS
  <2>2. PICK h \in [Node -> V] : \A t \in Node : h[t] = step[<<t, h>>]
    <3> HIDE DEF step, rhs, V
    <3>1. Solvable(step, Node, V)
      BY <1>4, <2>1, InsideDescends, Recursion
    <3> QED BY <3>1 DEF Solvable
  <2> HIDE DEF V
  <2> HIDE DEF rhs
  <2>3. \A t \in Node : h[t] = rhs(t, h)
    BY <2>2
  <2>4. h = [t \in Node |-> rhs(t, h)]
    BY <2>2, <2>3
  <2> QED BY <2>4
<1>6. memberNames = [t \in Node |-> rhs(t, memberNames)]
  BY <1>5 DEF memberNames
<1>7. \A t \in Node : memberNames[t] = rhs(t, memberNames)
  <2> HIDE DEF rhs
  <2> QED BY <1>6
<1>8. \A t \in Node : memberNames[t] \in V
  <2> HIDE DEF V, rhs
  <2> DEFINE Bad == {t \in Node : memberNames[t] \notin V}
  <2>1. SUFFICES ASSUME Bad # {} PROVE FALSE
    OBVIOUS
  <2>2. PICK t \in Bad : Inside[t] \cap Bad = {}
    <3>1. Bad \in SUBSET Node
      OBVIOUS
    <3> HIDE DEF Bad
    <3> QED BY <2>1, <3>1, InsideDescends DEF Descends
  <2>3. \A r \in Inside[t] : memberNames[r] \in V
    BY <2>2, InsideDescends DEF Descends
  <2> QED BY <1>2, <1>7, <2>2, <2>3
<1> HIDE DEF rhs
<1> QED BY <1>1, <1>7, <1>8

\* The steps of a path.
Indexes == Int \cup {stoi[name] : name \in STRING}
HitType == [index : Indexes, type : OptNode, member : BOOLEAN]

\* The members that lead to the name.
Bearers(t, name, h) ==
  {i \in DOMAIN Elements(t) :
     IF Elements(t)[i].name = "" THEN unnamed(Elements(t)[i], h) # << >>
     ELSE Elements(t)[i].name = name}

LEMMA FirstBearer ==
  ASSUME NEW t \in Node, NEW name, NEW h, Bearers(t, name, h) # {}
  PROVE  /\ Min(Bearers(t, name, h)) \in Bearers(t, name, h)
         /\ Min(Bearers(t, name, h)) \in DOMAIN Elements(t)
         /\ Min(Bearers(t, name, h)) - 1 \in Int
<1> DEFINE B == Bearers(t, name, h)
<1>1. B \subseteq Nat
  <2>1. Elements(t) \in Seq(Range(Elements(t)))
    BY FormAssumption DEF FormAssumption
  <2>2. DOMAIN Elements(t) \subseteq Nat
    BY ONLY <2>1
  <2> QED BY <2>2 DEF Bearers
<1> HIDE DEF B
<1>2. \E n \in B : \A m \in B : n <= m
  BY <1>1, Least DEF B
<1>3. Min(B) \in B
  BY <1>2 DEF Min
<1>4. \A n \in Nat : n - 1 \in Int
  OBVIOUS
<1>5. Min(B) \in DOMAIN Elements(t)
  BY <1>3 DEF B, Bearers
<1>6. Min(B) - 1 \in Int
  BY <1>1, <1>3, <1>4
<1> QED BY <1>3, <1>5, <1>6 DEF B

LEMMA Searched ==
  ASSUME NEW t, NEW name, NEW h
  PROVE  search(t, name, h) =
           IF Tag(t) = "array" THEN <<Hit(stoi[name], Base(t), FALSE)>>
           ELSE IF Bearers(t, name, h) = {} THEN << >>
           ELSE LET i == Min(Bearers(t, name, h))
                IN  <<Hit(IF Tag(t) = "union" THEN 0 ELSE i - 1, Elements(t)[i].base, TRUE)>>
                      \o unnamed(Elements(t)[i], h)
BY DEF search, Bearers

LEMMA SearchOf ==
  ASSUME NEW t \in Node, NEW name \in STRING, NEW h, \A r \in Inside[t] : h[r] \in Seq(HitType)
  PROVE  /\ search(t, name, h) \in Seq(HitType)
         /\ \A m \in MembersOf(t) : unnamed(m, h) \in Seq(HitType)
<1>1. ASSUME NEW m \in MembersOf(t) PROVE unnamed(m, h) \in Seq(HitType)
  <2>1. << >> \in Seq(HitType)
    OBVIOUS
  <2>2. m.name = "" /\ Composite(m.base) => h[m.base] \in Seq(HitType)
    BY UnnamedMember
  <2> QED BY <2>1, <2>2 DEF unnamed
<1>2. CASE Tag(t) = "array"
  <2>1. Hit(stoi[name], Base(t), FALSE) \in HitType
    BY Nodes DEF Hit, HitType, Indexes
  <2>2. search(t, name, h) = <<Hit(stoi[name], Base(t), FALSE)>>
    BY <1>2, Searched
  <2>3. \A x \in HitType : <<x>> \in Seq(HitType)
    OBVIOUS
  <2>4. search(t, name, h) \in Seq(HitType)
    BY <2>1, <2>2, <2>3
  <2> QED BY <1>1, <2>4
<1>3. CASE Tag(t) # "array" /\ Bearers(t, name, h) = {}
  <2>1. search(t, name, h) = << >>
    BY <1>3, Searched
  <2>2. << >> \in Seq(HitType)
    OBVIOUS
  <2> QED BY <1>1, <2>1, <2>2
<1>4. CASE Tag(t) # "array" /\ Bearers(t, name, h) # {}
  <2> DEFINE i == Min(Bearers(t, name, h))
             n == IF Tag(t) = "union" THEN 0 ELSE i - 1
             hit == Hit(n, Elements(t)[i].base, TRUE)
  <2>1. i \in DOMAIN Elements(t) /\ i - 1 \in Int
    BY <1>4, FirstBearer
  <2>2. n \in Indexes
    BY <2>1 DEF Indexes
  <2>3. Elements(t)[i] \in MembersOf(t) /\ Elements(t)[i].base \in OptNode
    BY <2>1, Nodes DEF MembersOf, OptNode
  <2>4. search(t, name, h) = <<hit>> \o unnamed(Elements(t)[i], h)
    BY <1>4, Searched
  <2>5. hit \in HitType
    <3> HIDE DEF n, i
    <3> QED BY <2>2, <2>3 DEF Hit, HitType
  <2>6. unnamed(Elements(t)[i], h) \in Seq(HitType)
    BY <1>1, <2>3
  <2>7. \A x \in HitType, s \in Seq(HitType) : <<x>> \o s \in Seq(HitType)
    OBVIOUS
  <2> HIDE DEF hit, i
  <2> QED BY <1>1, <2>4, <2>5, <2>6, <2>7
<1> QED BY <1>1, <1>2, <1>3, <1>4

\* found has what a search for the name comes to in each type.
Finds(found, name) ==
  /\ found \in [Node -> Seq(HitType)]
  /\ \A t \in Node : found[t] = search(t, name, found) /\ GEP2MemberInfo(t, name) = found[t]

LEMMA SearchEquation == ASSUME NEW name \in STRING PROVE \E found : Finds(found, name)
<1> DEFINE V == Seq(HitType)
           rhs(t, h) == search(t, name, h)
           step == [x \in Node \X [Node -> V] |-> rhs(x[1], x[2])]
<1>1. ASSUME NEW t \in Node, NEW h, \A r \in Inside[t] : h[r] \in V PROVE rhs(t, h) \in V
  BY <1>1, SearchOf
<1>2. ASSUME NEW t \in Node, NEW h, NEW g, \A r \in Inside[t] : h[r] = g[r] PROVE rhs(t, h) = rhs(t, g)
  <2>1. \A i \in DOMAIN Elements(t) : unnamed(Elements(t)[i], h) = unnamed(Elements(t)[i], g)
    <3>1. ASSUME NEW m \in MembersOf(t) PROVE unnamed(m, h) = unnamed(m, g)
      BY <1>2, UnnamedMember DEF unnamed
    <3> QED BY <3>1 DEF MembersOf
  <2>2. Bearers(t, name, h) = Bearers(t, name, g)
    BY <2>1 DEF Bearers
  <2>3. Bearers(t, name, h) # {} => Min(Bearers(t, name, h)) \in DOMAIN Elements(t)
    BY FirstBearer
  <2> QED BY <2>1, <2>2, <2>3, Searched
<1>3. Follows(step, Inside, Node, V)
  <2>1. \A t \in Node : Inside[t] \subseteq Node
    BY InsideDescends DEF Descends
  <2>2. ASSUME NEW t \in Node, NEW h \in [Node -> V] PROVE step[<<t, h>>] = rhs(t, h) /\ rhs(t, h) \in V
    <3>1. rhs(t, h) \in V
      <4>1. \A r \in Inside[t] : h[r] \in V
        BY <2>1
      <4> HIDE DEF V, rhs
      <4> QED BY <1>1, <4>1
    <3>2. <<t, h>> \in Node \X [Node -> V]
      OBVIOUS
    <3> HIDE DEF rhs, V
    <3> QED BY <3>1, <3>2
  <2> HIDE DEF V, rhs
  <2>3. step \in [Node \X [Node -> V] -> V]
    <3>1. \A x \in Node \X [Node -> V] : rhs(x[1], x[2]) \in V
      BY <2>2
    <3> QED BY <3>1
  <2> HIDE DEF step
  <2>4. ASSUME NEW t \in Node, NEW h \in [Node -> V], NEW g \in [Node -> V],
               \A u \in Inside[t] : h[u] = g[u]
        PROVE  step[<<t, h>>] = step[<<t, g>>]
    <3>1. rhs(t, h) = rhs(t, g)
      BY <1>2, <2>4
    <3> QED BY <2>2, <3>1
  <2> QED BY <2>3, <2>4 DEF Follows
<1>4. \E h : h = [t \in Node |-> rhs(t, h)]
  <2>1. V # {}
    <3>1. << >> \in V
      OBVIOUS
    <3> QED BY <3>1
  <2>2. PICK h \in [Node -> V] : \A t \in Node : h[t] = step[<<t, h>>]
    <3> HIDE DEF step, rhs, V
    <3>1. Solvable(step, Node, V)
      BY <1>3, <2>1, InsideDescends, Recursion
    <3> QED BY <3>1 DEF Solvable
  <2> HIDE DEF V
  <2> HIDE DEF rhs
  <2>3. \A t \in Node : h[t] = rhs(t, h)
    BY <2>2
  <2>4. h = [t \in Node |-> rhs(t, h)]
    BY <2>2, <2>3
  <2> QED BY <2>4
<1> DEFINE found == CHOOSE h : h = [t \in Node |-> search(t, name, h)]
<1>5. found = [t \in Node |-> search(t, name, found)]
  BY <1>4
<1>6. \A t : GEP2MemberInfo(t, name) = found[t]
  BY DEF GEP2MemberInfo
<1> HIDE DEF found
<1>7. \A t \in Node : found[t] = rhs(t, found)
  BY <1>5
<1>8. \A t \in Node : found[t] \in V
  <2> HIDE DEF V, rhs
  <2> DEFINE Bad == {t \in Node : found[t] \notin V}
  <2>1. SUFFICES ASSUME Bad # {} PROVE FALSE
    OBVIOUS
  <2>2. PICK t \in Bad : Inside[t] \cap Bad = {}
    <3>1. Bad \in SUBSET Node
      OBVIOUS
    <3> HIDE DEF Bad
    <3> QED BY <2>1, <3>1, InsideDescends DEF Descends
  <2>3. \A r \in Inside[t] : found[r] \in V
    BY <2>2, InsideDescends DEF Descends
  <2> QED BY <1>1, <1>7, <2>2, <2>3
<1>9. found \in [Node -> V]
  <2> HIDE DEF V
  <2> QED BY <1>5, <1>8
<1>10. Finds(found, name)
  BY <1>6, <1>7, <1>9 DEF Finds
<1> QED BY <1>10

\* A type whose search for the name finds something has a member of the name.
LEMMA FoundNamed ==
  ASSUME NEW name \in STRING, NEW found, Finds(found, name),
         NEW t \in Node, Tag(t) # "array"
  PROVE  /\ found[t] # << >> => name \in memberNames[t]
         /\ \A i \in Bearers(t, name, found) : name \in named(Elements(t)[i], memberNames)
<1> DEFINE Wrong(u) == \E i \in Bearers(u, name, found) : name \notin named(Elements(u)[i], memberNames)
           Bad == {u \in Node : Tag(u) # "array" /\ Wrong(u)}
<1>1. ASSUME NEW u \in Node, Tag(u) # "array", ~ Wrong(u), found[u] # << >> PROVE name \in memberNames[u]
  <2>1. found[u] = search(u, name, found)
    BY DEF Finds
  <2>2. PICK i \in Bearers(u, name, found) : TRUE
    BY <1>1, <2>1, Searched
  <2>3. name \in named(Elements(u)[i], memberNames) /\ i \in DOMAIN Elements(u)
    BY <1>1 DEF Bearers
  <2> QED BY <2>3, NamesEquation DEF MembersOf
<1>2. Bad = {}
  <2>1. SUFFICES ASSUME Bad # {} PROVE FALSE
    OBVIOUS
  <2>2. PICK u \in Bad : Inside[u] \cap Bad = {}
    <3>1. Bad \in SUBSET Node
      OBVIOUS
    <3> HIDE DEF Bad
    <3> QED BY <2>1, <3>1, InsideDescends DEF Descends
  <2>3. PICK i \in Bearers(u, name, found) : name \notin named(Elements(u)[i], memberNames)
    BY <2>2
  <2> DEFINE m == Elements(u)[i]
  <2>4. u \in Node /\ m \in MembersOf(u)
    BY <2>2 DEF Bearers, MembersOf
  <2>5. m.name = "" => found[m.base] # << >> /\ Composite(m.base)
    BY DEF Bearers, unnamed
  <2>6. m.name # "" => m.name = name
    BY DEF Bearers
  <2> HIDE DEF m
  <2>7. m.name = ""
    BY <2>3, <2>6 DEF named, m
  <2>8. m.base \in Inside[u] /\ resolve[m.base] = m.base
    BY <2>4, <2>5, <2>7, UnnamedMember DEF Composite
  <2>9. m.base \in Node /\ Tag(m.base) # "array"
    BY <2>4, <2>8 DEF Inside, InPlace, Aggregate
  <2>10. m.base \notin Bad
    BY <2>2, <2>8
  <2>11. name \in memberNames[m.base]
    <3>1. ~ Wrong(m.base)
      BY <2>9, <2>10
    <3> HIDE DEF Wrong
    <3> QED BY <1>1, <2>5, <2>7, <2>9, <3>1
  <2> QED BY <2>3, <2>7, <2>8, <2>11 DEF named, m
<1>3. ~ Wrong(t)
  <2> HIDE DEF Wrong
  <2> QED BY <1>2
<1> QED BY <1>1, <1>3

\* The only one, then, as C has each name only once.
LEMMA OnlyBearer ==
  ASSUME NEW name \in STRING, NEW found, Finds(found, name),
         NEW t \in Node, Tag(t) # "array", NEW i \in Bearers(t, name, found)
  PROVE  Min(Bearers(t, name, found)) = i
<1> DEFINE k == Min(Bearers(t, name, found))
<1>1. k \in Bearers(t, name, found)
  BY FirstBearer
<1> HIDE DEF k
<1>2. /\ name \in named(Elements(t)[i], memberNames)
      /\ name \in named(Elements(t)[k], memberNames)
  BY <1>1, FoundNamed
<1>3. i \in DOMAIN Elements(t) /\ k \in DOMAIN Elements(t)
  BY <1>1 DEF Bearers
<1>4. k = i
  BY <1>2, <1>3, ScopeAssumption DEF ScopeAssumption
<1> QED BY <1>4 DEF k

LEMMA LastOf ==
  ASSUME NEW S, NEW x \in S, NEW s \in Seq(S)
  PROVE  /\ <<x>> \o s # << >> /\ <<x>> \o s \in Seq(S)
         /\ s = << >> => Last(<<x>> \o s) = x
         /\ s # << >> => Last(<<x>> \o s) = Last(s)
<1> DEFINE r == <<x>> \o s
<1>1. /\ r \in Seq(S) /\ Len(r) = Len(s) + 1 /\ Len(s) \in Nat
      /\ \A i \in 1 .. Len(r) : r[i] = IF i <= 1 THEN <<x>>[i] ELSE s[i - 1]
  OBVIOUS
<1>2. r # << >>
  BY <1>1
<1>3. s = << >> => r[Len(r)] = x
  BY <1>1
<1>4. s # << >> => r[Len(r)] = s[Len(s)]
  <2>1. s # << >> => Len(s) >= 1
    OBVIOUS
  <2> HIDE DEF r
  <2> QED BY <1>1, <2>1
<1> QED BY <1>1, <1>2, <1>3, <1>4 DEF Last

\* What the search comes to if a member leads to the name.
LEMMA BearerFound ==
  ASSUME NEW name \in STRING, NEW found, Finds(found, name),
         NEW t \in Node, Tag(t) # "array", NEW i \in Bearers(t, name, found)
  PROVE  /\ found[t] # << >>
         /\ unnamed(Elements(t)[i], found) = << >> => Last(found[t]).type = Elements(t)[i].base
         /\ unnamed(Elements(t)[i], found) # << >> =>
              Last(found[t]) = Last(unnamed(Elements(t)[i], found))
<1> DEFINE n == IF Tag(t) = "union" THEN 0 ELSE i - 1
           x == Hit(n, Elements(t)[i].base, TRUE)
           s == unnamed(Elements(t)[i], found)
<1>1. Min(Bearers(t, name, found)) = i
  BY OnlyBearer
<1>2. i - 1 \in Int /\ i \in DOMAIN Elements(t)
  <2>1. Min(Bearers(t, name, found)) - 1 \in Int /\ Min(Bearers(t, name, found)) \in DOMAIN Elements(t)
    BY FirstBearer
  <2> QED BY <1>1, <2>1
<1>3. found[t] = <<x>> \o s
  <2>1. found[t] = search(t, name, found)
    BY DEF Finds
  <2> QED BY <1>1, <2>1, Searched
<1>4. n \in Indexes
  <2>1. 0 \in Indexes /\ i - 1 \in Indexes
    BY <1>2 DEF Indexes
  <2> QED BY <2>1
<1>5. s \in Seq(HitType)
  <2>1. \A r \in Inside[t] : found[r] \in Seq(HitType)
    BY InsideDescends DEF Finds, Descends
  <2>2. Elements(t)[i] \in MembersOf(t)
    BY <1>2 DEF MembersOf
  <2> QED BY <2>1, <2>2, SearchOf
<1>6. Elements(t)[i].base \in OptNode
  BY <1>2, Nodes DEF OptNode
<1> HIDE DEF n, s
<1>7. x \in HitType /\ x.type = Elements(t)[i].base
  BY <1>4, <1>6 DEF Hit, HitType
<1> HIDE DEF x
<1>8. /\ <<x>> \o s # << >> /\ (s = << >> => Last(<<x>> \o s) = x)
      /\ s # << >> => Last(<<x>> \o s) = Last(s)
  BY <1>5, <1>7, LastOf
<1> QED BY <1>3, <1>7, <1>8 DEF s

\* A field that is in sight, over members without a name.
Visible(f) == \A m \in f.through : m.name = "" /\ Tag(m.base) # "const"

FoundRight(found, t, f) == found[t] # << >> /\ Last(found[t]).type = f.base

\* The last step of the search: the field is that of a member, or of a member's type.
LEMMA FieldFoundStep ==
  ASSUME NEW name \in STRING, NEW found, Finds(found, name),
         NEW t \in Node, Tag(t) # "array", NEW f \in fields[t], f.name = name, Visible(f),
         \A r \in Inside[t] : \A g \in fields[r] :
           Tag(r) # "array" /\ g.name = name /\ Visible(g) => FoundRight(found, r, g)
  PROVE  FoundRight(found, t, f)
<1>1. PICK m \in MembersOf(t) : f \in field(m, fields)
  BY FieldsEquation
<1>2. PICK i \in DOMAIN Elements(t) : m = Elements(t)[i]
  BY DEF MembersOf
<1> DEFINE r == resolve[m.base]
<1>3. \/ f.base = m.base /\ f.name = m.name /\ ~ InPlace(r)
      \/ /\ r \in Inside[t] /\ m \in f.through
         /\ \E g \in fields[r] : g.base = f.base /\ g.name = f.name /\ g.through \subseteq f.through
  <2>1. \A u \in Inside[t] : fields[u] \in SUBSET FieldType
    BY InsideDescends, FieldsEquation DEF Descends
  <2> QED BY <1>1, <2>1, FieldOf
<1> HIDE DEF r
<1>4. CASE f.base = m.base /\ f.name = m.name /\ ~ InPlace(r)
  <2>1. m.name = "" => InPlace(r)
    BY FormAssumption DEF FormAssumption, MembersOf, Range, r
  <2>2. i \in Bearers(t, name, found) /\ unnamed(m, found) = << >>
    BY <1>2, <1>4, <2>1 DEF Bearers, unnamed
  <2>3. found[t] # << >> /\ Last(found[t]).type = m.base
    BY <1>2, <2>2, BearerFound
  <2> QED BY <1>4, <2>3 DEF FoundRight
<1>5. CASE /\ r \in Inside[t] /\ m \in f.through
           /\ \E g \in fields[r] : g.base = f.base /\ g.name = f.name /\ g.through \subseteq f.through
  <2>1. PICK g \in fields[r] : g.base = f.base /\ g.name = f.name /\ g.through \subseteq f.through
    BY <1>5
  <2>2. m.name = "" /\ Tag(m.base) # "const" /\ Visible(g)
    BY <1>5, <2>1 DEF Visible
  <2>3. r = m.base /\ InPlace(r)
    <3>1. r = m.base
      BY <2>2, UnnamedMember DEF r
    <3>2. InPlace(r)
      BY <1>5 DEF Inside
    <3> QED BY <3>1, <3>2
  <2>4. Composite(m.base) /\ Tag(r) # "array"
    BY <2>3 DEF InPlace, Aggregate, Composite
  <2>5. FoundRight(found, r, g)
    BY <1>5, <2>1, <2>2, <2>4
  <2>6. unnamed(m, found) = found[r]
    BY <2>2, <2>3, <2>4 DEF unnamed
  <2>7. unnamed(m, found) # << >>
    BY <2>5, <2>6 DEF FoundRight
  <2>8. i \in Bearers(t, name, found)
    BY <1>2, <2>2, <2>7 DEF Bearers
  <2>9. found[t] # << >> /\ Last(found[t]) = Last(found[r])
    <3>1. /\ found[t] # << >>
          /\ unnamed(Elements(t)[i], found) # << >> =>
               Last(found[t]) = Last(unnamed(Elements(t)[i], found))
      BY <2>8, BearerFound
    <3> QED BY <1>2, <2>6, <2>7, <3>1
  <2> QED BY <2>1, <2>5, <2>9 DEF FoundRight
<1> QED BY <1>3, <1>4, <1>5

\* The search for such a field comes to a member of its type.
LEMMA FieldFound ==
  ASSUME NEW name \in STRING, NEW found, Finds(found, name),
         NEW t \in Node, Tag(t) # "array", NEW f \in fields[t], f.name = name, Visible(f)
  PROVE  FoundRight(found, t, f)
<1> DEFINE Wrong(u) == \E g \in fields[u] : g.name = name /\ Visible(g) /\ ~ FoundRight(found, u, g)
           Bad == {u \in Node : Tag(u) # "array" /\ Wrong(u)}
<1>1. Bad = {}
  <2>1. SUFFICES ASSUME Bad # {} PROVE FALSE
    OBVIOUS
  <2>2. PICK u \in Bad : Inside[u] \cap Bad = {}
    <3>1. Bad \in SUBSET Node
      OBVIOUS
    <3> HIDE DEF Bad
    <3> QED BY <2>1, <3>1, InsideDescends DEF Descends
  <2>3. PICK g \in fields[u] : g.name = name /\ Visible(g) /\ ~ FoundRight(found, u, g)
    BY <2>2
  <2>4. u \in Node /\ Tag(u) # "array"
    BY <2>2
  <2>5. \A r \in Inside[u] : r \in Node /\ r \notin Bad
    BY <2>2, <2>4, InsideDescends DEF Descends
  <2>6. \A r \in Inside[u] : \A e \in fields[r] :
          Tag(r) # "array" /\ e.name = name /\ Visible(e) => FoundRight(found, r, e)
    BY <2>5
  <2> HIDE DEF Bad
  <2> QED BY <2>3, <2>4, <2>6, FieldFoundStep
<1>2. ~ Wrong(t)
  <2> HIDE DEF Wrong
  <2> QED BY <1>1
<1> QED BY <1>2

\* A path of one name.
LEMMA PathOf ==
  ASSUME NEW t \in Node, NEW name, GEP2MemberInfo(t, name) # << >>
  PROVE  GEP(t, <<name>>).hits = <<Hit(0, t, FALSE)>> \o GEP2MemberInfo(t, name)
<1> DEFINE start == [at |-> t, hits |-> <<Hit(0, t, FALSE)>>, crashed |-> FALSE]
           member(acc, n) == IF acc.at = NoType THEN << >> ELSE GEP2MemberInfo(acc.at, n)
           step(acc, n) == IF acc.hits = << >> \/ acc.crashed THEN acc ELSE follow(acc, member(acc, n))
           path == <<name>>
           Walks(w) == w = [n \in 0 .. Len(path) |-> IF n = 0 THEN start ELSE step(w[n - 1], path[n])]
           walk == CHOOSE w : Walks(w)
<1>1. GEP(t, path) = walk[Len(path)]
  BY DEF GEP
<1>2. Len(path) = 1 /\ path[1] = name /\ 0 .. 1 = {0, 1}
  OBVIOUS
<1>3. \E w : Walks(w)
  <2> DEFINE next == step(start, name)
             w == [n \in 0 .. 1 |-> IF n = 0 THEN start ELSE next]
  <2> HIDE DEF step, start, next
  <2>1. w[0] = start /\ w[1] = next
    OBVIOUS
  <2>2. ASSUME NEW n \in 0 .. 1 PROVE w[n] = IF n = 0 THEN start ELSE step(w[n - 1], path[n])
    BY <1>2, <2>1, n \in {0, 1} DEF next
  <2>3. w = [n \in 0 .. 1 |-> w[n]]
    OBVIOUS
  <2> HIDE DEF w
  <2>4. w = [n \in 0 .. 1 |-> IF n = 0 THEN start ELSE step(w[n - 1], path[n])]
    BY <2>2, <2>3
  <2> QED BY <1>2, <2>4
<1>4. Walks(walk)
  <2> HIDE DEF Walks
  <2> QED BY <1>3
<1> HIDE DEF walk
<1>5. walk[0] = start /\ walk[1] = step(walk[0], name)
  <2> HIDE DEF step, start
  <2> QED BY <1>2, <1>4
<1>6. step(start, name) = follow(start, GEP2MemberInfo(t, name))
  BY Nodes
<1>7. GEP(t, path).hits = follow(start, GEP2MemberInfo(t, name)).hits
  <2> HIDE DEF step, start, path
  <2> QED BY <1>1, <1>2, <1>5, <1>6
<1>8. follow(start, GEP2MemberInfo(t, name)).hits = start.hits \o GEP2MemberInfo(t, name)
  BY DEF follow
<1> QED BY <1>7, <1>8

LEMMA VisibleFound ==
  ASSUME NEW t \in Node, Tag(t) = "struct", NEW f \in fields[t], Visible(f)
  PROVE  /\ GEP(t, <<f.name>>).hits # << >>
         /\ Last(GEP(t, <<f.name>>).hits).type = f.base
<1> DEFINE name == f.name
<1>1. name \in STRING
  <2>1. f.name \in {m.name : m \in AllMembers}
    BY FieldsEquation DEF FieldType
  <2>2. \A m \in AllMembers : m.name \in STRING
    BY FormAssumption DEF FormAssumption, AllMembers, MembersOf, Range
  <2> QED BY <2>1, <2>2
<1>2. Tag(t) # "array"
  OBVIOUS
<1>3. PICK found : Finds(found, name)
  BY <1>1, SearchEquation
<1>4. FoundRight(found, t, f)
  BY <1>1, <1>2, <1>3, FieldFound
<1> HIDE DEF name
<1>5. found[t] \in Seq(HitType) /\ GEP2MemberInfo(t, name) = found[t]
  BY <1>3 DEF Finds
<1>6. found[t] # << >> /\ Last(found[t]).type = f.base
  BY <1>4 DEF FoundRight
<1>7. GEP(t, <<name>>).hits = <<Hit(0, t, FALSE)>> \o found[t]
  BY <1>5, <1>6, PathOf
<1>8. Hit(0, t, FALSE) \in HitType
  <2>1. 0 \in Indexes /\ t \in OptNode
    BY DEF Indexes, OptNode
  <2> QED BY <2>1 DEF Hit, HitType
<1> DEFINE x == Hit(0, t, FALSE)
           s == found[t]
<1>9. <<x>> \o s # << >> /\ Last(<<x>> \o s) = Last(s)
  <2>1. x \in HitType /\ s \in Seq(HitType) /\ s # << >>
    BY <1>5, <1>6, <1>8
  <2> HIDE DEF x, s
  <2> QED BY <2>1, LastOf
<1> QED BY <1>6, <1>7, <1>9 DEF name

LEMMA Fields == IInv /\ JInv => FieldsFound
<1> SUFFICES ASSUME IInv, JInv, NEW i \in DOMAIN output, Tag(output[i]) = "struct",
                    NEW f \in InSight(output[i]), \A m \in f.through : m.name = ""
             PROVE  /\ GEP(output[i], <<f.name>>).hits # << >>
                    /\ Last(GEP(output[i], <<f.name>>).hits).type = f.base
  BY DEF FieldsFound
<1> DEFINE t == output[i]
<1>1. t \in Node
  <2>1. Ready(output, done, input.types) /\ input \in Inputs /\ i \in 1 .. Len(output)
    BY Indices DEF JInv, IInv, Printed
  <2> QED BY <2>1, InputOf DEF Ready
<1> HIDE DEF t
<1>2. f \in fields[t] /\ Visible(f) /\ Tag(t) = "struct"
  <2>1. Tag(t) = "struct" /\ Aggregate(t) /\ IsClass(t)
    BY <1>1, Nodes DEF t, Aggregate, IsClass
  <2>2. classFields(t) = fields[t]
    BY <2>1 DEF classFields
  <2> QED BY <2>1, <2>2 DEF InSight, Visible, t
<1> QED BY <1>1, <1>2, VisibleFound DEF t

-----------------------------------------------------------------------------
\* The theorems.

LEMMA Begins == Init => IInv /\ JInv
<1> SUFFICES ASSUME Init PROVE IInv /\ JInv
  OBVIOUS
<1>1. /\ input \in Inputs /\ pending = input.structs /\ phase = "generating"
      /\ stack = << >> /\ done = {} /\ output = << >>
  BY DEF Init
<1>2. Len(stack) = 0 /\ Len(output) = 0 /\ Sequence(stack) /\ Sequence(output)
  BY <1>1, EmptySeq DEF Sequence
<1>3. IInv
  BY <1>1, <1>2 DEF IInv, Marked, Printed
<1>4. Entering(stack, done, NoType, Range(input.types))
  BY <1>2 DEF Entering, Typed, Waiting
<1>5. Ready(output, done, input.types) /\ Known(output, stack, done)
  BY <1>1, <1>2 DEF Ready, Known
<1>6. Visited(pending, done, input.structs, Missing)
  <2>1. Sequence(input.structs)
    BY <1>1, InputOf DEF Sequence
  <2>2. Visited(input.structs, done, input.structs, Missing)
    BY <2>1, NothingVisited
  <2> QED BY <1>1, <2>2
<1>7. JInv
  BY <1>1, <1>4, <1>5, <1>6 DEF JInv
<1> QED BY <1>3, <1>7

\* The invariant of the marks, the activations and the output, and that of the
\* dependencies.
THEOREM Inductive == Spec => [](IInv /\ JInv)
<1>1. IInv /\ JInv /\ [Next]_vars => (IInv /\ JInv)'
  BY NextIInv, NextJInv
<1> QED BY <1>1, Begins, PTL DEF Spec

\* The activations are those of types, what is left of the structs is an end of
\* them, and every type that was printed is marked.
THEOREM TypeCorrect == Spec => []TypeOK
BY Inductive, Types1, PTL

\* However the types of a module refer to each other, no type with a name is
\* generated while it is being generated: the recursion of generate_struct and
\* resolve2 does not return to where it is.
THEOREM NeverReentered == Spec => []NotReentered
<1>1. IInv => NotReentered
  BY Indices DEF IInv, Marked, NotReentered
<1> QED BY <1>1, Inductive, PTL

\* No name is printed twice, however often a type is met and however many
\* types have the name.
THEOREM OncePrinted == Spec => []PrintedOnce
<1>1. IInv => PrintedOnce
  BY Indices DEF IInv, Printed, PrintedOnce
<1> QED BY <1>1, Inductive, PTL

\* Whatever a class or an alias looks up while Python executes it was defined
\* above it, unless that leads back to it, is behind a qualifier, or shares its
\* name: resolve2 generates enough, in the right order.
THEOREM DefinedEarlier == Spec => []NeedsDefinedEarlier
BY Inductive, Earlier, PTL

\* In the end every name that a lambda of a class looks up has a block.
THEOREM MentionsThere == Spec => []MentionsDefined
BY Inductive, Mentioned, PTL

\* In the end every struct of the module that can have a class has one, whatever
\* was generated for the others before its turn.
THEOREM ClassForEveryStruct == Spec => []EveryStructHasClass
BY Inductive, Classes, PTL

\* The path a class has for a field leads libirx to a member of the field's type,
\* through whatever members without a name the two went over to come to it.
THEOREM PathsFound == Spec => []FieldsFound
BY Inductive, Fields, PTL
==============================================================================

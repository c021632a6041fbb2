-------------------------- MODULE StructAccessProofs --------------------------
(***************************************************************************)
(* Proofs about StructLayout and StructAccess, for all types: the indices  *)
(* the debug info has for the path of a field lead GEP2Offset to where the *)
(* compiler has put the field, and the bytes that are written for a value  *)
(* are read as the value.                                                  *)
(***************************************************************************)
EXTENDS StructAccess, DataLemmas, SequenceTheorems, TLAPS

-----------------------------------------------------------------------------
\* Types and what they consist of.

LEMMA NodeFacts ==
  /\ NoType \notin Node
  /\ \A t \in Node : Base(t) \in OptNode /\ Consists(t) \in SUBSET Node
  /\ \A t \in Node : \A i \in DOMAIN Elements(t) :
       Elements(t)[i] \in Range(Elements(t)) /\ Elements(t)[i].base \in Node
  /\ \A t \in Node : Tag(t) = "array" => Base(t) \in Node
<1>1. /\ NoType \notin Node
      /\ \A t \in Node : Base(t) \in OptNode
      /\ \A t \in Node : \A i \in DOMAIN Elements(t) : Elements(t)[i].base \in Node
      /\ \A t \in Node : Tag(t) = "array" => Base(t) # NoType
  BY TypesAssumption DEF TypesAssumption
<1>2. \A t \in Node : \A i \in DOMAIN Elements(t) : Elements(t)[i] \in Range(Elements(t))
  BY DEF Range
<1>3. ASSUME NEW t \in Node PROVE Consists(t) \subseteq Node
  <2>1. \A m \in Range(Elements(t)) : m.base \in Node
    BY <1>1 DEF Range
  <2>2. {Base(t)} \ {NoType} \subseteq Node
    BY <1>1 DEF OptNode
  <2> QED BY <2>1, <2>2 DEF Consists
<1> QED BY <1>1, <1>2, <1>3 DEF OptNode

\* void is inside of everything.
Inside == [t \in OptNode |-> IF t = NoType THEN {} ELSE Consists(t) \cup {NoType}]

LEMMA InsideDescends == Descends(Inside, OptNode)
<1>1. Inside \in [OptNode -> SUBSET OptNode]
  BY NodeFacts DEF Inside, OptNode
<1>2. ASSUME NEW T \in SUBSET OptNode, T # {} PROVE \E t \in T : Inside[t] \cap T = {}
  <2>1. CASE NoType \in T
    BY <2>1 DEF Inside, OptNode
  <2>2. CASE NoType \notin T /\ \E t \in T : Consists(t) = {}
    BY <2>2 DEF Inside, OptNode
  <2>3. CASE NoType \notin T /\ \A t \in T : Consists(t) # {}
    <3>1. T \in SUBSET {t \in Node : Consists(t) # {}}
      BY <2>3 DEF OptNode
    <3>2. PICK t \in T : Consists(t) \cap T = {}
      BY <1>2, <3>1, ContainmentAssumption DEF ContainmentAssumption
    <3> QED BY <2>3, <3>2 DEF Inside, OptNode
  <2> QED BY <2>1, <2>2, <2>3
<1> QED BY <1>1, <1>2 DEF Descends

\* What a type consists of, and its members.
LEMMA Inner ==
  ASSUME NEW t \in Node
  PROVE  /\ t \in OptNode /\ t # NoType
         /\ Tag(t) \in {"typedef", "const", "array"} => Base(t) \in Inside[t]
         /\ \A i \in DOMAIN Elements(t) : Elements(t)[i].base \in Inside[t]
<1>1. t \in OptNode /\ t # NoType
  BY NodeFacts DEF OptNode
<1>2. Inside[t] = Consists(t) \cup {NoType}
  BY <1>1 DEF Inside
<1>3. Tag(t) \in {"typedef", "const", "array"} /\ Base(t) # NoType => Base(t) \in Consists(t)
  BY DEF Consists
<1>4. \A i \in DOMAIN Elements(t) : Elements(t)[i].base \in Consists(t)
  BY DEF Consists, Range
<1> QED BY <1>1, <1>2, <1>3, <1>4

\* The same without void.
InsideNode == [t \in Node |-> Consists(t)]

LEMMA InsideNodeDescends == Descends(InsideNode, Node)
<1>1. InsideNode \in [Node -> SUBSET Node]
  BY NodeFacts DEF InsideNode
<1>2. ASSUME NEW T \in SUBSET Node, T # {} PROVE \E t \in T : InsideNode[t] \cap T = {}
  <2>1. T \in SUBSET OptNode
    BY DEF OptNode
  <2>2. PICK t \in T : Inside[t] \cap T = {}
    BY <1>2, <2>1, InsideDescends DEF Descends
  <2>3. Consists(t) \subseteq Inside[t] /\ InsideNode[t] = Consists(t)
    BY NodeFacts DEF Inside, OptNode, InsideNode
  <2> QED BY <2>2, <2>3
<1> QED BY <1>1, <1>2 DEF Descends

-----------------------------------------------------------------------------
\* Behind typedefs and qualifiers.

Behind(t, h, tags) == IF t # NoType /\ Tag(t) \in tags THEN h[Base(t)] ELSE t

\* A function that goes past types of some tags.
GoesPast(h, tags) ==
  /\ h \in [OptNode -> OptNode]
  /\ \A t \in OptNode : h[t] = Behind(t, h, tags)
  /\ \A t \in OptNode : h[t] # NoType => Tag(h[t]) \notin tags

LEMMA Past ==
  ASSUME NEW tags, tags \subseteq {"typedef", "const"}
  PROVE  \E h \in [OptNode -> OptNode] : h = [t \in OptNode |-> Behind(t, h, tags)]
<1> DEFINE V == OptNode
           step == [x \in OptNode \X [OptNode -> V] |-> Behind(x[1], x[2], tags)]
<1>1. ASSUME NEW t \in OptNode, NEW h \in [OptNode -> V]
      PROVE  step[<<t, h>>] = Behind(t, h, tags) /\ Behind(t, h, tags) \in V
  <2>1. t # NoType => Base(t) \in OptNode
    BY NodeFacts DEF OptNode
  <2>2. Behind(t, h, tags) \in OptNode
    BY <2>1 DEF Behind
  <2> QED BY <2>2
<1>2. ASSUME NEW t \in OptNode, NEW h \in [OptNode -> V], NEW g \in [OptNode -> V],
             \A u \in Inside[t] : h[u] = g[u]
      PROVE  Behind(t, h, tags) = Behind(t, g, tags)
  <2>1. t # NoType => t \in Node
    BY DEF OptNode
  <2>2. t # NoType /\ Tag(t) \in tags => Base(t) \in Inside[t]
    BY <2>1, Inner
  <2> QED BY <1>2, <2>2 DEF Behind
<1>3. Follows(step, Inside, OptNode, V)
  <2>1. step \in [OptNode \X [OptNode -> V] -> V]
    <3>1. \A x \in OptNode \X [OptNode -> V] : Behind(x[1], x[2], tags) \in V
      <4> HIDE DEF V
      <4> QED BY <1>1
    <3> QED BY <3>1
  <2>2. ASSUME NEW t \in OptNode, NEW h \in [OptNode -> V], NEW g \in [OptNode -> V],
               \A u \in Inside[t] : h[u] = g[u]
        PROVE  step[<<t, h>>] = step[<<t, g>>]
    <3> HIDE DEF V, step
    <3> QED BY <1>1, <1>2, <2>2
  <2> HIDE DEF step, V
  <2> QED BY <2>1, <2>2 DEF Follows
<1>4. PICK h \in [OptNode -> V] : \A t \in OptNode : h[t] = step[<<t, h>>]
  <2>1. V # {}
    BY DEF OptNode
  <2> HIDE DEF step, V
  <2>2. Solvable(step, OptNode, V)
    BY <1>3, <2>1, InsideDescends, Recursion
  <2> QED BY <2>2 DEF Solvable
<1>5. h = [t \in OptNode |-> Behind(t, h, tags)]
  <2>1. \A t \in OptNode : h[t] = Behind(t, h, tags)
    BY <1>1, <1>4
  <2> QED BY <2>1
<1> QED BY <1>5

\* Such a function ends at a type of none of the tags.
LEMMA PastTags ==
  ASSUME NEW tags, tags \subseteq {"typedef", "const"},
         NEW h, h = [t \in OptNode |-> Behind(t, h, tags)]
  PROVE  GoesPast(h, tags)
<1> DEFINE G == {t \in OptNode : h[t] \in OptNode /\ (h[t] # NoType => Tag(h[t]) \notin tags)}
<1>0. \A t \in OptNode : h[t] = Behind(t, h, tags)
  OBVIOUS
<1>1. ASSUME NEW t \in OptNode, Inside[t] \subseteq G PROVE t \in G
  <2>1. CASE t # NoType /\ Tag(t) \in tags
    <3>1. t \in Node /\ Tag(t) \in {"typedef", "const", "array"}
      BY <2>1 DEF OptNode
    <3>2. Base(t) \in G
      BY <1>1, <3>1, Inner
    <3>3. h[t] = h[Base(t)]
      BY <1>0, <2>1 DEF Behind
    <3> QED BY <3>2, <3>3
  <2>2. CASE ~ (t # NoType /\ Tag(t) \in tags)
    <3>1. h[t] = t
      BY <1>0, <2>2 DEF Behind
    <3> QED BY <2>2, <3>1
  <2> QED BY <2>1, <2>2
<1>2. OptNode \subseteq G
  <2> HIDE DEF G
  <2> QED BY <1>1, InsideDescends, Descent
<1>3. h \in [OptNode -> OptNode]
  <2>1. \A t \in OptNode : h[t] \in OptNode
    BY <1>2
  <2>2. DOMAIN h = OptNode /\ h = [t \in OptNode |-> h[t]]
    OBVIOUS
  <2> HIDE DEF G
  <2> QED BY <2>1, <2>2
<1> QED BY <1>0, <1>2, <1>3 DEF GoesPast

LEMMA Lowers == GoesPast(lower, {"typedef", "const"})
<1> DEFINE tags == {"typedef", "const"}
<1>1. \E h : h = [t \in OptNode |-> Behind(t, h, tags)]
  BY Past
<1>2. lower = CHOOSE h : h = [t \in OptNode |-> Behind(t, h, tags)]
  BY DEF lower, Behind
<1>3. lower = [t \in OptNode |-> Behind(t, lower, tags)]
  BY <1>1, <1>2
<1> QED BY <1>3, PastTags

LEMMA Strips == GoesPast(stripTypedef, {"typedef"})
<1> DEFINE tags == {"typedef"}
<1>1. \E h : h = [t \in OptNode |-> Behind(t, h, tags)]
  BY Past
<1>2. stripTypedef = [t \in OptNode |-> Behind(t, stripTypedef, tags)]
  BY <1>1 DEF stripTypedef, Behind
<1> QED BY <1>2, PastTags

\* What is left behind typedefs is the whole way to the node, unless a qualifier
\* is in front of it.
LEMMA StrippedIsLowered ==
  \A t \in OptNode : stripTypedef[t] = NoType \/ Tag(stripTypedef[t]) # "const"
                       => lower[t] = stripTypedef[t]
<1> DEFINE Free(u) == u = NoType \/ Tag(u) # "const"
           G == {t \in OptNode : Free(stripTypedef[t]) => lower[t] = stripTypedef[t]}
<1>1. ASSUME NEW t \in OptNode, Inside[t] \subseteq G PROVE t \in G
  <2>1. CASE t # NoType /\ Tag(t) = "typedef"
    <3>1. t \in Node
      BY <2>1 DEF OptNode
    <3>2. Base(t) \in G
      BY <1>1, <2>1, <3>1, Inner
    <3>3. lower[t] = lower[Base(t)] /\ stripTypedef[t] = stripTypedef[Base(t)]
      BY <2>1, Lowers, Strips DEF Behind, GoesPast
    <3> QED BY <3>2, <3>3
  <2>2. CASE t # NoType /\ Tag(t) = "const"
    <3>1. stripTypedef[t] = t
      BY <2>2, Strips DEF Behind, GoesPast
    <3> QED BY <2>2, <3>1
  <2>3. CASE t = NoType \/ Tag(t) \notin {"typedef", "const"}
    <3>1. stripTypedef[t] = t /\ lower[t] = t
      BY <2>3, Lowers, Strips DEF Behind, GoesPast
    <3> QED BY <3>1
  <2> QED BY <2>1, <2>2, <2>3
<1>2. OptNode \subseteq G
  <2> HIDE DEF G
  <2> QED BY <1>1, InsideDescends, Descent
<1> QED BY <1>2

\* The node of a type, and of what it is a name for.
LEMMA LowerOf ==
  ASSUME NEW t \in OptNode
  PROVE  /\ lower[t] \in OptNode /\ lower[lower[t]] = lower[t]
         /\ lower[t] # NoType => t # NoType /\ lower[t] \in Node
                                 /\ Tag(lower[t]) \notin {"typedef", "const"}
         /\ t # NoType /\ Tag(t) \in {"typedef", "const"} => lower[t] = lower[Base(t)]
         /\ t = NoType \/ Tag(t) \notin {"typedef", "const"} => lower[t] = t
<1>1. /\ lower[t] \in OptNode
      /\ lower[t] = Behind(t, lower, {"typedef", "const"})
      /\ lower[t] # NoType => Tag(lower[t]) \notin {"typedef", "const"}
  BY Lowers DEF GoesPast
<1>2. lower[lower[t]] = lower[t]
  BY <1>1, Lowers DEF GoesPast, Behind
<1> QED BY <1>1, <1>2 DEF Behind, OptNode

-----------------------------------------------------------------------------
\* Fields.

\* One more in front.
LEMMA InFront ==
  ASSUME NEW S, NEW x \in S, NEW s \in Seq(S)
  PROVE  /\ <<x>> \o s \in Seq(S) /\ <<x>> \o s # << >> /\ Len(<<x>> \o s) = Len(s) + 1
         /\ (<<x>> \o s)[1] = x /\ \A k \in 1 .. Len(s) : (<<x>> \o s)[k + 1] = s[k]
         /\ s # << >> => Last(<<x>> \o s) = Last(s)
         /\ << >> \o s = s
<1> DEFINE r == <<x>> \o s
<1>1. /\ r \in Seq(S) /\ Len(r) = Len(s) + 1 /\ Len(s) \in Nat
      /\ \A i \in 1 .. Len(r) : r[i] = IF i <= 1 THEN <<x>>[i] ELSE s[i - 1]
  OBVIOUS
<1>2. r # << >> /\ r[1] = x
  BY <1>1
<1>3. s # << >> => r[Len(r)] = s[Len(s)]
  <2>1. s # << >> => Len(s) >= 1
    OBVIOUS
  <2> HIDE DEF r
  <2> QED BY <1>1, <2>1
<1>4. \A k \in 1 .. Len(s) : r[k + 1] = s[k]
  <2> HIDE DEF r
  <2> QED BY <1>1
<1>5. << >> \o s = s
  OBVIOUS
<1> QED BY <1>1, <1>2, <1>3, <1>4, <1>5 DEF Last

LEMMA Single ==
  ASSUME NEW S, NEW x \in S
  PROVE  /\ <<x>> \in Seq(S) /\ <<x>> # << >> /\ Len(<<x>>) = 1 /\ <<x>>[1] = x
         /\ Last(<<x>>) = x /\ <<x>> \o << >> = <<x>>
<1>1. Last(<<x>>) = x
  BY DEF Last
<1> QED BY <1>1

ElementType(t) == Derived(t) \/ Composite(t) \/ Tag(t) = "basic"

Names == STRING \cup DOMAIN stoi
NoName == ""

\* A field has a path and a complete type, whose size it has.
FieldType ==
  {f \in [path : Seq(Names), offset : Nat, size : Nat, type : Node, exposed : BOOLEAN] :
     /\ f.path # << >> /\ lower[f.type] # NoType /\ f.size = Size(f.type)
     /\ Last(f.path) \in DOMAIN stoi => ElementType(f.type)}

ItsOwn(f, name, offset, t) ==
  /\ name # NoName /\ f.path = <<name>> /\ f.offset = offset /\ f.size = Size(t) /\ f.type = t
  /\ f.exposed

\* The field f that g is within a member or an element.
Outer(f, g, name, offset, exposed) ==
  /\ f.path = IF name = NoName THEN g.path ELSE <<name>> \o g.path
  /\ f.offset = offset + g.offset /\ f.size = g.size /\ f.type = g.type
  /\ f.exposed = (exposed /\ g.exposed)

LEMMA WithinOf ==
  ASSUME NEW fs \in SUBSET FieldType, NEW name \in Names, NEW offset \in Nat, NEW exposed \in BOOLEAN
  PROVE  /\ Within(fs, name, offset, exposed) \in SUBSET FieldType
         /\ \A f \in Within(fs, name, offset, exposed) :
              \E g \in fs : Outer(f, g, name, offset, exposed)
         /\ \A g \in fs : \E f \in Within(fs, name, offset, exposed) :
              Outer(f, g, name, offset, exposed)
<1> DEFINE F(g) == [g EXCEPT !.path = (IF name = NoName THEN << >> ELSE <<name>>) \o @,
                             !.offset = offset + @, !.exposed = exposed /\ @]
<1>1. Within(fs, name, offset, exposed) = {F(g) : g \in fs}
  BY DEF Within, NoName
<1>2. ASSUME NEW g \in fs PROVE F(g) \in FieldType /\ Outer(F(g), g, name, offset, exposed)
  <2>1. /\ g \in [path : Seq(Names), offset : Nat, size : Nat, type : Node, exposed : BOOLEAN]
        /\ g.path # << >> /\ lower[g.type] # NoType /\ g.size = Size(g.type)
        /\ Last(g.path) \in DOMAIN stoi => ElementType(g.type)
    BY DEF FieldType
  <2>2. g.path \in Seq(Names)
    BY <2>1
  <2> DEFINE p == (IF name = NoName THEN << >> ELSE <<name>>) \o g.path
  <2>3. p = IF name = NoName THEN g.path ELSE <<name>> \o g.path
    BY <2>2, InFront
  <2>4. p \in Seq(Names) /\ p # << >> /\ Last(p) = Last(g.path)
    <3>1. CASE name = NoName
      BY <2>1, <2>2, <2>3, <3>1
    <3>2. CASE name # NoName
      BY <2>1, <2>2, <2>3, <3>2, InFront
    <3> QED BY <3>1, <3>2
  <2> DEFINE e == exposed /\ g.exposed
             o == offset + g.offset
  <2>a. F(g) = [g EXCEPT !.path = p, !.offset = o, !.exposed = e]
    OBVIOUS
  <2>6. o \in Nat /\ e \in BOOLEAN
    BY <2>1
  <2>b. e = (exposed /\ g.exposed)
    OBVIOUS
  <2>c. o = offset + g.offset
    OBVIOUS
  <2> HIDE DEF F, p, e, o
  <2>5. F(g) = [path |-> p, offset |-> o, size |-> g.size, type |-> g.type, exposed |-> e]
    BY <2>1, <2>a
  <2>7. F(g) \in FieldType
    BY <2>1, <2>4, <2>5, <2>6 DEF FieldType
  <2>d. /\ F(g).path = p /\ F(g).offset = o /\ F(g).size = g.size /\ F(g).type = g.type
        /\ F(g).exposed = e
    BY <2>5
  <2>8. Outer(F(g), g, name, offset, exposed)
    BY <2>3, <2>b, <2>c, <2>d DEF Outer
  <2> QED BY <2>7, <2>8
<1> HIDE DEF F
<1> QED BY <1>1, <1>2

\* What is in P, which is a member or an element and the fields fs of its type.
Comprises(P, fs, name, offset, t, exposed) ==
  /\ \A f \in P : \/ ItsOwn(f, name, offset, t)
                  \/ \E g \in fs : Outer(f, g, name, offset, exposed)
  /\ name # NoName => \E f \in P : f.path = <<name>>
  /\ name = NoName => \A g \in fs : \E f \in P : f.path = g.path

LEMMA PartFacts ==
  ASSUME NEW fs \in SUBSET FieldType, NEW name \in Names, NEW offset \in Nat,
         NEW t \in Node, lower[t] # NoType, name \in DOMAIN stoi => ElementType(t),
         NEW exposed \in BOOLEAN
  PROVE  /\ Part(fs, name, offset, t, exposed) \in SUBSET FieldType
         /\ Comprises(Part(fs, name, offset, t, exposed), fs, name, offset, t, exposed)
<1> DEFINE own == [path |-> <<name>>, offset |-> offset, size |-> Size(t), type |-> t, exposed |-> TRUE]
           W == Within(fs, name, offset, exposed)
<1>1. Part(fs, name, offset, t, exposed) = W \cup (IF name = NoName THEN {} ELSE {own})
  BY DEF Part, NoName
<1>2. Size(t) \in Nat
  <2>1. lower[t] \in Node
    BY LowerOf DEF OptNode
  <2> QED BY <2>1, SizeAssumption DEF SizeAssumption, Size
<1>3. own \in FieldType
  <2>1. Last(<<name>>) = name /\ <<name>> \in Seq(Names) /\ <<name>> # << >>
    BY Single
  <2> QED BY <1>2, <2>1 DEF FieldType
<1>4. ItsOwn(own, name, offset, t) \/ name = NoName
  BY DEF ItsOwn
<1>5. /\ W \in SUBSET FieldType
      /\ \A f \in W : \E g \in fs : Outer(f, g, name, offset, exposed)
      /\ \A g \in fs : \E f \in W : Outer(f, g, name, offset, exposed)
  BY WithinOf
<1>6. own.path = <<name>>
  OBVIOUS
<1> HIDE DEF own, W
<1>7. name = NoName => \A g \in fs : \E f \in W : f.path = g.path
  BY <1>5 DEF Outer
<1> DEFINE P == Part(fs, name, offset, t, exposed)
<1>8. P \in SUBSET FieldType
  BY <1>1, <1>3, <1>5
<1>9. \A f \in P : ItsOwn(f, name, offset, t) \/ \E g \in fs : Outer(f, g, name, offset, exposed)
  BY <1>1, <1>4, <1>5
<1>10. name # NoName => \E f \in P : f.path = <<name>>
  BY <1>1, <1>6
<1>11. name = NoName => \A g \in fs : \E f \in P : f.path = g.path
  BY <1>1, <1>7
<1> HIDE DEF P
<1> QED BY <1>8, <1>9, <1>10, <1>11 DEF P, Comprises

\* Members and elements as FormAssumption has them.
LEMMA MemberFacts ==
  ASSUME NEW t \in Node, NEW i \in DOMAIN Elements(t)
  PROVE  /\ Aggregate(t) /\ Tag(t) # "array" /\ Tag(t) \notin {"typedef", "const"}
         /\ i \in 1 .. Len(Elements(t)) /\ Len(Elements(t)) \in Nat
         /\ Elements(t)[i].base \in Node /\ lower[Elements(t)[i].base] # NoType
         /\ Elements(t)[i].name \in Names /\ Elements(t)[i].name \notin DOMAIN stoi
         /\ Elements(t)[i].name = NoName => Aggregate(Elements(t)[i].base)
         /\ Elements(t)[i].offset \in Nat
<1>1. Elements(t) \in Seq(Range(Elements(t))) /\ Elements(t)[i] \in Range(Elements(t))
  BY NodeFacts, FormAssumption DEF FormAssumption
<1>2. i \in 1 .. Len(Elements(t)) /\ Len(Elements(t)) \in Nat /\ Elements(t) # << >>
  BY <1>1
<1>3. Aggregate(t)
  BY <1>2, FormAssumption DEF FormAssumption
<1>4. /\ lower[Elements(t)[i].base] # NoType
      /\ Elements(t)[i].name \in Names \ DOMAIN stoi
      /\ Elements(t)[i].name = NoName => Aggregate(Elements(t)[i].base)
      /\ Elements(t)[i].offset \in Nat
  BY <1>1, FormAssumption, SizeAssumption DEF FormAssumption, SizeAssumption, Names, NoName
<1>5. Elements(t)[i].base \in Node
  BY NodeFacts
<1> QED BY <1>2, <1>3, <1>4, <1>5 DEF Aggregate

LEMMA ElementFacts ==
  ASSUME NEW t \in Node, Tag(t) = "array", NEW s \in DOMAIN stoi
  PROVE  /\ Base(t) \in Node /\ lower[Base(t)] # NoType /\ ElementType(Base(t))
         /\ s \in Names /\ s # NoName /\ stoi[s] \in Nat
         /\ Size(Base(t)) \in Nat /\ stoi[s] * Size(Base(t)) \in Nat
<1>1. Base(t) \in Node /\ lower[Base(t)] # NoType /\ ElementType(Base(t))
  BY NodeFacts, FormAssumption DEF FormAssumption, ElementType
<1>2. s \in Names /\ s # NoName /\ stoi[s] \in Nat
  <2>1. DOMAIN stoi = {"0", "1", "2"} /\ stoi["0"] = 0 /\ stoi["1"] = 1 /\ stoi["2"] = 2
    BY DEF stoi
  <2>2. s = "0" \/ s = "1" \/ s = "2"
    BY <2>1
  <2>3. stoi[s] \in Nat
    BY <2>1, <2>2
  <2>4. s \in Names
    BY DEF Names
  <2>5. s # NoName
    BY <2>2 DEF NoName
  <2> QED BY <2>3, <2>4, <2>5
<1>3. Size(Base(t)) \in Nat
  <2>1. Base(t) \in OptNode /\ lower[Base(t)] \in Node
    BY <1>1, LowerOf DEF OptNode
  <2> QED BY <2>1, SizeAssumption DEF SizeAssumption, Size
<1>4. \A m, n \in Nat : m * n \in Nat
  OBVIOUS
<1> QED BY <1>1, <1>2, <1>3, <1>4

\* The fields of a type, from those of what it consists of.
FieldsBy(t, h) ==
  IF t = NoType THEN {}
  ELSE IF Tag(t) \in {"typedef", "const"} THEN h[Base(t)]
  ELSE IF Tag(t) = "array"
  THEN UNION {FieldsOfElement(h[Base(t)], t, s) : s \in {e \in DOMAIN stoi : stoi[e] < Types[t].count}}
  ELSE UNION {FieldsOfMember(h[Elements(t)[i].base], t, i) : i \in DOMAIN Elements(t)}

LEMMA FieldsByOf ==
  ASSUME NEW t \in OptNode, NEW h, \A u \in Inside[t] : h[u] \in SUBSET FieldType
  PROVE  FieldsBy(t, h) \in SUBSET FieldType
<1>1. CASE t = NoType
  BY <1>1 DEF FieldsBy
<1>2. CASE t # NoType /\ Tag(t) \in {"typedef", "const"}
  BY <1>2, Inner DEF FieldsBy, OptNode
<1>3. CASE t # NoType /\ Tag(t) = "array"
  <2>1. t \in Node
    BY <1>3 DEF OptNode
  <2>2. ASSUME NEW s \in DOMAIN stoi PROVE FieldsOfElement(h[Base(t)], t, s) \in SUBSET FieldType
    <3>1. h[Base(t)] \in SUBSET FieldType
      BY <1>3, <2>1, Inner
    <3>2. Part(h[Base(t)], s, stoi[s] * Size(Base(t)), Base(t), TRUE) \in SUBSET FieldType
      <4> DEFINE b == Base(t)
                 fs == h[b]
                 o == stoi[s] * Size(b)
      <4>1. /\ fs \in SUBSET FieldType /\ b \in Node /\ lower[b] # NoType /\ ElementType(b)
            /\ s \in Names /\ o \in Nat
        BY <1>3, <2>1, <3>1, ElementFacts
      <4> HIDE DEF b, fs, o
      <4>2. Part(fs, s, o, b, TRUE) \in SUBSET FieldType
        BY <4>1, PartFacts
      <4> QED BY <4>2 DEF b, fs, o
    <3> QED BY <3>2 DEF FieldsOfElement
  <2>3. FieldsBy(t, h) = UNION {FieldsOfElement(h[Base(t)], t, s) :
                                  s \in {e \in DOMAIN stoi : stoi[e] < Types[t].count}}
    BY <1>3 DEF FieldsBy
  <2> QED BY <2>2, <2>3
<1>4. CASE t # NoType /\ Tag(t) \notin {"typedef", "const", "array"}
  <2>1. t \in Node
    BY <1>4 DEF OptNode
  <2>2. ASSUME NEW i \in DOMAIN Elements(t)
        PROVE  FieldsOfMember(h[Elements(t)[i].base], t, i) \in SUBSET FieldType
    <3>1. h[Elements(t)[i].base] \in SUBSET FieldType
      BY <2>1, Inner
    <3> DEFINE m == Elements(t)[i]
               fs == h[m.base]
    <3>2. FieldsOfMember(fs, t, i) = Part(fs, m.name, m.offset, m.base, SameInIR(t, i, m.base))
      BY DEF FieldsOfMember
    <3>3. SameInIR(t, i, m.base) \in BOOLEAN
      BY DEF SameInIR
    <3>4. /\ m.base \in Node /\ lower[m.base] # NoType /\ m.name \in Names
          /\ m.name \notin DOMAIN stoi /\ m.offset \in Nat
      BY <2>1, MemberFacts
    <3>6. fs \in SUBSET FieldType
      BY <3>1
    <3> DEFINE e == SameInIR(t, i, m.base)
    <3> HIDE DEF m, fs, e
    <3>7. e \in BOOLEAN /\ FieldsOfMember(fs, t, i) = Part(fs, m.name, m.offset, m.base, e)
      BY <3>2, <3>3 DEF e
    <3>8. Part(fs, m.name, m.offset, m.base, e) \in SUBSET FieldType
      BY <3>4, <3>6, <3>7, PartFacts
    <3>5. FieldsOfMember(fs, t, i) \in SUBSET FieldType
      BY <3>7, <3>8
    <3> QED BY <3>5 DEF m, fs
  <2>3. FieldsBy(t, h) = UNION {FieldsOfMember(h[Elements(t)[i].base], t, i) : i \in DOMAIN Elements(t)}
    BY <1>4 DEF FieldsBy
  <2> QED BY <2>2, <2>3
<1> QED BY <1>1, <1>2, <1>3, <1>4

LEMMA FieldsBySame ==
  ASSUME NEW t \in OptNode, NEW h, NEW g, \A u \in Inside[t] : h[u] = g[u]
  PROVE  FieldsBy(t, h) = FieldsBy(t, g)
<1>1. CASE t = NoType
  BY <1>1 DEF FieldsBy
<1>2. CASE t # NoType
  <2>1. t \in Node
    BY <1>2 DEF OptNode
  <2>2. Tag(t) \in {"typedef", "const", "array"} => h[Base(t)] = g[Base(t)]
    BY <2>1, Inner
  <2>3. \A i \in DOMAIN Elements(t) : h[Elements(t)[i].base] = g[Elements(t)[i].base]
    BY <2>1, Inner
  <2>4. {FieldsOfMember(h[Elements(t)[i].base], t, i) : i \in DOMAIN Elements(t)} =
        {FieldsOfMember(g[Elements(t)[i].base], t, i) : i \in DOMAIN Elements(t)}
    BY <2>3
  <2> QED BY <1>2, <2>2, <2>4 DEF FieldsBy
<1> QED BY <1>1, <1>2

LEMMA FieldsEquation ==
  /\ DOMAIN fieldsOf = OptNode
  /\ \A t \in OptNode : fieldsOf[t] \in SUBSET FieldType
  /\ \A t \in OptNode : fieldsOf[t] = FieldsBy(t, fieldsOf)
<1> DEFINE V == SUBSET FieldType
           step == [x \in OptNode \X [OptNode -> V] |-> FieldsBy(x[1], x[2])]
<1>1. ASSUME NEW t \in OptNode, NEW h \in [OptNode -> V]
      PROVE  step[<<t, h>>] = FieldsBy(t, h) /\ FieldsBy(t, h) \in V
  <2>1. \A u \in Inside[t] : h[u] \in SUBSET FieldType
    BY InsideDescends DEF Descends
  <2>2. FieldsBy(t, h) \in V
    BY <2>1, FieldsByOf
  <2> HIDE DEF V
  <2> QED BY <2>2
<1>2. Follows(step, Inside, OptNode, V)
  <2>1. step \in [OptNode \X [OptNode -> V] -> V]
    <3>1. \A x \in OptNode \X [OptNode -> V] : FieldsBy(x[1], x[2]) \in V
      <4> HIDE DEF V
      <4> QED BY <1>1
    <3> QED BY <3>1
  <2>2. ASSUME NEW t \in OptNode, NEW h \in [OptNode -> V], NEW g \in [OptNode -> V],
               \A u \in Inside[t] : h[u] = g[u]
        PROVE  step[<<t, h>>] = step[<<t, g>>]
    <3>1. FieldsBy(t, h) = FieldsBy(t, g)
      BY <2>2, FieldsBySame
    <3> HIDE DEF V, step
    <3> QED BY <1>1, <3>1
  <2> HIDE DEF step, V
  <2> QED BY <2>1, <2>2 DEF Follows
<1>3. \E h : h = [t \in OptNode |-> FieldsBy(t, h)]
  <2>1. V # {}
    OBVIOUS
  <2>2. PICK h \in [OptNode -> V] : \A t \in OptNode : h[t] = step[<<t, h>>]
    <3> HIDE DEF step, V
    <3>1. Solvable(step, OptNode, V)
      BY <1>2, <2>1, InsideDescends, Recursion
    <3> QED BY <3>1 DEF Solvable
  <2>3. \A t \in OptNode : h[t] = FieldsBy(t, h)
    BY <1>1, <2>2
  <2> HIDE DEF V
  <2> QED BY <2>2, <2>3
<1>4. fieldsOf = [t \in OptNode |-> FieldsBy(t, fieldsOf)]
  BY <1>3 DEF fieldsOf, FieldsBy
<1>5. DOMAIN fieldsOf = OptNode /\ \A t \in OptNode : fieldsOf[t] = FieldsBy(t, fieldsOf)
  BY <1>4
<1>6. OptNode \subseteq {t \in OptNode : fieldsOf[t] \in SUBSET FieldType}
  <2> DEFINE G == {t \in OptNode : fieldsOf[t] \in SUBSET FieldType}
  <2>1. ASSUME NEW t \in OptNode, Inside[t] \subseteq G PROVE t \in G
    BY <1>5, <2>1, FieldsByOf
  <2> HIDE DEF G
  <2>2. OptNode \subseteq G
    BY <2>1, InsideDescends, Descent
  <2> QED BY <2>2 DEF G
<1> QED BY <1>5, <1>6

\* The fields of an array, of a struct or a union, and of a name for a type.
LEMMA FieldOfArray ==
  ASSUME NEW t \in Node, Tag(t) = "array", NEW f \in fieldsOf[t]
  PROVE  \E s \in DOMAIN stoi :
           /\ stoi[s] < Types[t].count
           /\ \/ ItsOwn(f, s, stoi[s] * Size(Base(t)), Base(t))
              \/ \E g \in fieldsOf[Base(t)] : Outer(f, g, s, stoi[s] * Size(Base(t)), TRUE)
<1>1. t \in OptNode /\ t # NoType /\ Base(t) \in OptNode
  BY NodeFacts DEF OptNode
<1>2. fieldsOf[t] = UNION {FieldsOfElement(fieldsOf[Base(t)], t, s) :
                             s \in {e \in DOMAIN stoi : stoi[e] < Types[t].count}}
  BY <1>1, FieldsEquation DEF FieldsBy
<1>3. PICK s \in DOMAIN stoi :
        stoi[s] < Types[t].count /\ f \in FieldsOfElement(fieldsOf[Base(t)], t, s)
  BY <1>2
<1>4. fieldsOf[Base(t)] \in SUBSET FieldType
  BY <1>1, FieldsEquation
<1>5. f \in Part(fieldsOf[Base(t)], s, stoi[s] * Size(Base(t)), Base(t), TRUE)
  BY <1>3 DEF FieldsOfElement
<1>6. \/ ItsOwn(f, s, stoi[s] * Size(Base(t)), Base(t))
      \/ \E g \in fieldsOf[Base(t)] : Outer(f, g, s, stoi[s] * Size(Base(t)), TRUE)
  <2> DEFINE b == Base(t)
             fs == fieldsOf[b]
             o == stoi[s] * Size(b)
  <2>1. /\ fs \in SUBSET FieldType /\ b \in Node /\ lower[b] # NoType /\ ElementType(b)
        /\ s \in Names /\ o \in Nat /\ f \in Part(fs, s, o, b, TRUE)
    BY <1>4, <1>5, ElementFacts
  <2> HIDE DEF b, fs, o
  <2>2. Comprises(Part(fs, s, o, b, TRUE), fs, s, o, b, TRUE)
    BY <2>1, PartFacts
  <2>3. ItsOwn(f, s, o, b) \/ \E g \in fs : Outer(f, g, s, o, TRUE)
    BY <2>1, <2>2 DEF Comprises
  <2> QED BY <2>3 DEF b, fs, o
<1> QED BY <1>3, <1>6

Member(t, i) == FieldsOfMember(fieldsOf[Elements(t)[i].base], t, i)

LEMMA FieldOfMember ==
  ASSUME NEW t \in Node, Tag(t) \notin {"typedef", "const", "array"}
  PROVE  fieldsOf[t] = UNION {Member(t, i) : i \in DOMAIN Elements(t)}
<1>1. t \in OptNode /\ t # NoType
  BY NodeFacts DEF OptNode
<1> QED BY <1>1, FieldsEquation DEF FieldsBy, Member

LEMMA NoFields == \A t \in Node : Tag(t) = "pointer" => fieldsOf[t] = {}
<1> SUFFICES ASSUME NEW t \in Node, Tag(t) = "pointer" PROVE fieldsOf[t] = {}
  OBVIOUS
<1>1. DOMAIN Elements(t) = {}
  BY MemberFacts DEF Aggregate
<1> QED BY <1>1, FieldOfMember

LEMMA MemberOf ==
  ASSUME NEW t \in Node, NEW i \in DOMAIN Elements(t), NEW m, m = Elements(t)[i]
  PROVE  Comprises(Member(t, i), fieldsOf[m.base], m.name, m.offset, m.base, SameInIR(t, i, m.base))
<1>1. Member(t, i) = Part(fieldsOf[m.base], m.name, m.offset, m.base, SameInIR(t, i, m.base))
  BY DEF Member, FieldsOfMember
<1>2. SameInIR(t, i, m.base) \in BOOLEAN
  BY DEF SameInIR
<1>3. /\ m.base \in Node /\ lower[m.base] # NoType /\ m.name \in Names /\ m.name \notin DOMAIN stoi
      /\ m.offset \in Nat
  BY MemberFacts
<1>4. fieldsOf[m.base] \in SUBSET FieldType
  BY <1>3, FieldsEquation DEF OptNode
<1> DEFINE e == SameInIR(t, i, m.base)
           P == Part(fieldsOf[m.base], m.name, m.offset, m.base, e)
<1> HIDE DEF e
<1>5. e \in BOOLEAN /\ e = SameInIR(t, i, m.base)
  BY <1>2 DEF e
<1>6. Comprises(P, fieldsOf[m.base], m.name, m.offset, m.base, e)
  <2> DEFINE fs == fieldsOf[m.base]
             b == m.base
             o == m.offset
             name == m.name
  <2>1. fs \in SUBSET FieldType /\ b \in Node /\ lower[b] # NoType /\ name \in Names /\ o \in Nat
        /\ (name \in DOMAIN stoi => ElementType(b))
    BY <1>3, <1>4
  <2> HIDE DEF fs, b, o, name
  <2>2. Comprises(Part(fs, name, o, b, e), fs, name, o, b, e)
    BY <1>5, <2>1, PartFacts
  <2> QED BY <2>2 DEF fs, b, o, name
<1> HIDE DEF P
<1>7. Member(t, i) = P
  BY <1>1, <1>5 DEF P
<1> QED BY <1>5, <1>6, <1>7

LEMMA FieldsOfLower ==
  ASSUME NEW t \in OptNode
  PROVE  fieldsOf[t] = fieldsOf[lower[t]] /\ fieldsOf[t] \in SUBSET FieldType
<1> DEFINE G == {u \in OptNode : fieldsOf[u] = fieldsOf[lower[u]]}
<1>1. ASSUME NEW u \in OptNode, Inside[u] \subseteq G PROVE u \in G
  <2>1. CASE u # NoType /\ Tag(u) \in {"typedef", "const"}
    <3>1. u \in Node
      BY <2>1 DEF OptNode
    <3>2. Base(u) \in G
      BY <1>1, <2>1, <3>1, Inner
    <3>3. fieldsOf[u] = fieldsOf[Base(u)]
      BY <2>1, FieldsEquation DEF FieldsBy
    <3>4. lower[u] = lower[Base(u)]
      BY <2>1, LowerOf
    <3> QED BY <3>2, <3>3, <3>4
  <2>2. CASE u = NoType \/ Tag(u) \notin {"typedef", "const"}
    BY <2>2, LowerOf
  <2> QED BY <2>1, <2>2
<1>2. OptNode \subseteq G
  <2> HIDE DEF G
  <2> QED BY <1>1, InsideDescends, Descent
<1> QED BY <1>2, FieldsEquation

-----------------------------------------------------------------------------
\* The search for a name.

Indexes == Nat \cup {stoi[name] : name \in Names}
HitType == [index : Indexes, type : Node, member : BOOLEAN]

\* The members that lead to the name.
Bearers(t, name, h) ==
  {i \in DOMAIN Elements(t) :
     IF Elements(t)[i].name = NoName THEN unnamed(Elements(t)[i], h) # << >>
     ELSE Elements(t)[i].name = name}

\* What the search for the name comes to in each type.
Finds(found, name) ==
  /\ found \in [Node -> Seq(HitType)]
  /\ \A t \in Node : found[t] = search(t, name, found) /\ GEP2MemberInfo(t, name) = found[t]

LEMMA Unnamed ==
  ASSUME NEW m, NEW h
  PROVE  /\ m.name = NoName /\ Composite(m.base) => unnamed(m, h) = h[m.base]
         /\ m.name # NoName \/ ~ Composite(m.base) => unnamed(m, h) = << >>
BY DEF unnamed, NoName

LEMMA Searched ==
  ASSUME NEW t, NEW name, NEW h
  PROVE  search(t, name, h) =
           IF Tag(t) = "array" THEN <<Hit(stoi[name], Base(t), FALSE)>>
           ELSE IF Bearers(t, name, h) = {} THEN << >>
           ELSE LET i == Min(Bearers(t, name, h))
                IN  <<Hit(IF Tag(t) = "union" THEN 0 ELSE i - 1, Elements(t)[i].base, TRUE)>>
                      \o unnamed(Elements(t)[i], h)
BY DEF search, Bearers, NoName

LEMMA FirstBearer ==
  ASSUME NEW t \in Node, NEW name, NEW h, Bearers(t, name, h) # {}
  PROVE  /\ Min(Bearers(t, name, h)) \in Bearers(t, name, h)
         /\ Min(Bearers(t, name, h)) \in DOMAIN Elements(t)
         /\ Min(Bearers(t, name, h)) - 1 \in Nat
<1> DEFINE B == Bearers(t, name, h)
<1>1. \A i \in B : i \in DOMAIN Elements(t) /\ i \in Nat /\ i - 1 \in Nat
  BY MemberFacts DEF Bearers
<1> HIDE DEF B
<1>2. \E n \in B : \A m \in B : n <= m
  <2>1. B \subseteq Nat /\ B # {}
    BY <1>1 DEF B
  <2> QED BY <2>1, Least
<1>3. Min(B) \in B
  BY <1>2 DEF Min
<1> QED BY <1>1, <1>3 DEF B

\* The one hit of a member, and those of its type if it has no name.
MemberHit(t, i) == Hit(IF Tag(t) = "union" THEN 0 ELSE i - 1, Elements(t)[i].base, TRUE)

LEMMA MemberHitOf ==
  ASSUME NEW t \in Node, NEW i \in DOMAIN Elements(t)
  PROVE  /\ MemberHit(t, i) \in HitType
         /\ MemberHit(t, i).type = Elements(t)[i].base /\ MemberHit(t, i).member
         /\ MemberHit(t, i).index = IF Tag(t) = "union" THEN 0 ELSE i - 1
<1> DEFINE n == IF Tag(t) = "union" THEN 0 ELSE i - 1
<1>1. i - 1 \in Nat /\ Elements(t)[i].base \in Node
  BY MemberFacts
<1>2. n \in Indexes
  BY <1>1 DEF Indexes
<1> HIDE DEF n
<1> QED BY <1>1, <1>2 DEF MemberHit, Hit, HitType, n

LEMMA SearchOf ==
  ASSUME NEW t \in Node, NEW name \in Names, NEW h, \A r \in InsideNode[t] : h[r] \in Seq(HitType)
  PROVE  /\ search(t, name, h) \in Seq(HitType)
         /\ \A i \in DOMAIN Elements(t) : unnamed(Elements(t)[i], h) \in Seq(HitType)
<1>1. ASSUME NEW i \in DOMAIN Elements(t) PROVE unnamed(Elements(t)[i], h) \in Seq(HitType)
  <2> DEFINE m == Elements(t)[i]
  <2>1. m.base \in InsideNode[t]
    BY DEF InsideNode, Consists, Range
  <2>2. << >> \in Seq(HitType) /\ h[m.base] \in Seq(HitType)
    BY <2>1
  <2> HIDE DEF m
  <2> QED BY <2>2, Unnamed DEF m
<1>2. CASE Tag(t) = "array"
  <2>1. Base(t) \in Node
    BY <1>2, NodeFacts
  <2>2. Hit(stoi[name], Base(t), FALSE) \in HitType
    BY <2>1 DEF Hit, HitType, Indexes
  <2>3. search(t, name, h) = <<Hit(stoi[name], Base(t), FALSE)>>
    BY <1>2, Searched
  <2>4. \A x \in HitType : <<x>> \in Seq(HitType)
    OBVIOUS
  <2>5. search(t, name, h) \in Seq(HitType)
    BY <2>2, <2>3, <2>4
  <2> QED BY <1>1, <2>5
<1>3. CASE Tag(t) # "array" /\ Bearers(t, name, h) = {}
  <2>1. search(t, name, h) = << >>
    BY <1>3, Searched
  <2>2. << >> \in Seq(HitType)
    OBVIOUS
  <2> QED BY <1>1, <2>1, <2>2
<1>4. CASE Tag(t) # "array" /\ Bearers(t, name, h) # {}
  <2> DEFINE i == Min(Bearers(t, name, h))
  <2>1. i \in DOMAIN Elements(t)
    BY <1>4, FirstBearer
  <2>2. search(t, name, h) = <<MemberHit(t, i)>> \o unnamed(Elements(t)[i], h)
    BY <1>4, Searched DEF MemberHit
  <2> HIDE DEF i
  <2>3. MemberHit(t, i) \in HitType /\ unnamed(Elements(t)[i], h) \in Seq(HitType)
    BY <1>1, <2>1, MemberHitOf
  <2>4. \A x \in HitType, s \in Seq(HitType) : <<x>> \o s \in Seq(HitType)
    OBVIOUS
  <2>5. search(t, name, h) \in Seq(HitType)
    BY <2>2, <2>3, <2>4
  <2> QED BY <1>1, <2>5
<1> QED BY <1>1, <1>2, <1>3, <1>4

LEMMA SearchSame ==
  ASSUME NEW t \in Node, NEW name, NEW h, NEW g, \A r \in InsideNode[t] : h[r] = g[r]
  PROVE  search(t, name, h) = search(t, name, g)
<1>1. \A i \in DOMAIN Elements(t) : unnamed(Elements(t)[i], h) = unnamed(Elements(t)[i], g)
  <2> TAKE i \in DOMAIN Elements(t)
  <2> DEFINE m == Elements(t)[i]
  <2>1. m.base \in InsideNode[t]
    BY DEF InsideNode, Consists, Range
  <2>2. h[m.base] = g[m.base]
    BY <2>1
  <2> HIDE DEF m
  <2> QED BY <2>2, Unnamed DEF m
<1>2. Bearers(t, name, h) = Bearers(t, name, g)
  BY <1>1 DEF Bearers
<1>3. Bearers(t, name, h) # {} => Min(Bearers(t, name, h)) \in DOMAIN Elements(t)
  BY FirstBearer
<1> QED BY <1>1, <1>2, <1>3, Searched

LEMMA SearchEquation == ASSUME NEW name \in Names PROVE \E found : Finds(found, name)
<1> DEFINE V == Seq(HitType)
           step == [x \in Node \X [Node -> V] |-> search(x[1], name, x[2])]
<1>1. ASSUME NEW t \in Node, NEW h \in [Node -> V]
      PROVE  step[<<t, h>>] = search(t, name, h) /\ search(t, name, h) \in V
  <2>1. \A r \in InsideNode[t] : h[r] \in Seq(HitType)
    BY InsideNodeDescends DEF Descends
  <2>2. search(t, name, h) \in V
    BY <2>1, SearchOf
  <2> HIDE DEF V
  <2> QED BY <2>2
<1>2. Follows(step, InsideNode, Node, V)
  <2>1. step \in [Node \X [Node -> V] -> V]
    <3>1. \A x \in Node \X [Node -> V] : search(x[1], name, x[2]) \in V
      <4> HIDE DEF V
      <4> QED BY <1>1
    <3> QED BY <3>1
  <2>2. ASSUME NEW t \in Node, NEW h \in [Node -> V], NEW g \in [Node -> V],
               \A u \in InsideNode[t] : h[u] = g[u]
        PROVE  step[<<t, h>>] = step[<<t, g>>]
    <3>1. search(t, name, h) = search(t, name, g)
      BY <2>2, SearchSame
    <3> HIDE DEF V, step
    <3> QED BY <1>1, <3>1
  <2> HIDE DEF step, V
  <2> QED BY <2>1, <2>2 DEF Follows
<1>3. \E h : h = [t \in Node |-> search(t, name, h)]
  <2>1. V # {}
    <3>1. << >> \in V
      OBVIOUS
    <3> QED BY <3>1
  <2>2. PICK h \in [Node -> V] : \A t \in Node : h[t] = step[<<t, h>>]
    <3> HIDE DEF step, V
    <3>1. Solvable(step, Node, V)
      BY <1>2, <2>1, InsideNodeDescends, Recursion
    <3> QED BY <3>1 DEF Solvable
  <2>3. \A t \in Node : h[t] = search(t, name, h)
    BY <1>1, <2>2
  <2> HIDE DEF V
  <2> QED BY <2>2, <2>3
<1> DEFINE found == CHOOSE h : h = [t \in Node |-> search(t, name, h)]
<1>4. found = [t \in Node |-> search(t, name, found)]
  BY <1>3
<1>5. \A t : GEP2MemberInfo(t, name) = found[t]
  BY DEF GEP2MemberInfo
<1> HIDE DEF found
<1>6. \A t \in Node : found[t] = search(t, name, found)
  BY <1>4
<1>7. Node \subseteq {t \in Node : found[t] \in V}
  <2> DEFINE G == {t \in Node : found[t] \in V}
  <2>1. ASSUME NEW t \in Node, InsideNode[t] \subseteq G PROVE t \in G
    BY <1>6, <2>1, SearchOf
  <2> HIDE DEF G
  <2>2. Node \subseteq G
    BY <2>1, InsideNodeDescends, Descent
  <2> QED BY <2>2 DEF G
<1>8. found \in [Node -> V]
  <2> HIDE DEF V
  <2> QED BY <1>4, <1>7
<1> QED BY <1>5, <1>6, <1>8 DEF Finds

\* A search that finds something finds a field of the name.
LEMMA FoundIsField ==
  ASSUME NEW name \in Names, NEW found, Finds(found, name), NEW t \in Node, Aggregate(t)
  PROVE  /\ found[t] # << >> => \E f \in fieldsOf[t] : f.path[1] = name
         /\ \A i \in Bearers(t, name, found) : \E f \in Member(t, i) : f.path[1] = name
<1> DEFINE Led(u) == \A i \in Bearers(u, name, found) : \E f \in Member(u, i) : f.path[1] = name
           G == {u \in Node : Aggregate(u) => Led(u)}
<1>1. ASSUME NEW u \in Node, Aggregate(u), Led(u), found[u] # << >>
      PROVE  \E f \in fieldsOf[u] : f.path[1] = name
  <2>1. Tag(u) \notin {"typedef", "const", "array"}
    BY <1>1 DEF Aggregate
  <2>2. found[u] = search(u, name, found)
    BY DEF Finds
  <2>3. PICK i \in Bearers(u, name, found) : TRUE
    BY <1>1, <2>1, <2>2, Searched
  <2>4. PICK f \in Member(u, i) : f.path[1] = name
    BY <1>1
  <2>5. i \in DOMAIN Elements(u)
    BY DEF Bearers
  <2> QED BY <2>1, <2>4, <2>5, FieldOfMember
<1>2. ASSUME NEW u \in Node, InsideNode[u] \subseteq G PROVE u \in G
  <2>1. SUFFICES ASSUME Aggregate(u), NEW i \in Bearers(u, name, found)
                 PROVE  \E f \in Member(u, i) : f.path[1] = name
    OBVIOUS
  <2>2. i \in DOMAIN Elements(u)
    BY DEF Bearers
  <2>3. PICK m : m = Elements(u)[i]
    OBVIOUS
  <2>4. CASE m.name # NoName
    <3>1. m.name = name
      BY <2>3, <2>4 DEF Bearers
    <3>2. \E f \in Member(u, i) : f.path = <<m.name>>
      <4> HIDE DEF Led, G
      <4>1. Comprises(Member(u, i), fieldsOf[m.base], m.name, m.offset, m.base, SameInIR(u, i, m.base))
        BY <2>2, <2>3, MemberOf
      <4> QED BY <2>4, <4>1 DEF Comprises
    <3> QED BY <3>1, <3>2, Single
  <2>5. CASE m.name = NoName
    <3>1. m.base \in Node /\ Aggregate(m.base)
      BY <2>2, <2>3, <2>5, MemberFacts DEF NoName
    <3>2. m.base \in InsideNode[u]
      BY <2>2, <2>3 DEF InsideNode, Consists, Range
    <3>3. found[m.base] # << >>
      <4>1. unnamed(m, found) # << >>
        BY <2>3, <2>5 DEF Bearers
      <4> QED BY <2>5, <3>1, <4>1, Unnamed DEF Composite, Aggregate
    <3>4. Led(m.base)
      BY <1>2, <3>1, <3>2
    <3> HIDE DEF Led
    <3>5. PICK g \in fieldsOf[m.base] : g.path[1] = name
      BY <1>1, <3>1, <3>3, <3>4
    <3>6. \E f \in Member(u, i) : f.path = g.path
      <4>1. Comprises(Member(u, i), fieldsOf[m.base], m.name, m.offset, m.base, SameInIR(u, i, m.base))
        BY <2>2, <2>3, MemberOf
      <4> QED BY <2>5, <4>1 DEF Comprises
    <3> QED BY <3>5, <3>6
  <2> QED BY <2>4, <2>5
<1>3. Node \subseteq G
  <2> HIDE DEF G
  <2> QED BY <1>2, InsideNodeDescends, Descent
<1>4. Led(t)
  BY <1>3
<1>5. found[t] # << >> => \E f \in fieldsOf[t] : f.path[1] = name
  <2> HIDE DEF Led
  <2> QED BY <1>1, <1>4
<1> QED BY <1>4, <1>5

\* The one member a name belongs to is the one that is found.
LEMMA OnlyBearer ==
  ASSUME NEW name \in Names, NEW found, Finds(found, name), NEW t \in Node, Aggregate(t),
         NEW i \in Bearers(t, name, found)
  PROVE  /\ i \in DOMAIN Elements(t)
         /\ found[t] = <<MemberHit(t, i)>> \o unnamed(Elements(t)[i], found)
<1> DEFINE k == Min(Bearers(t, name, found))
<1>1. k \in Bearers(t, name, found)
  BY FirstBearer
<1>2. found[t] = <<MemberHit(t, k)>> \o unnamed(Elements(t)[k], found)
  <2>1. Tag(t) # "array"
    BY DEF Aggregate
  <2>2. found[t] = search(t, name, found)
    BY DEF Finds
  <2> QED BY <1>1, <2>1, <2>2, Searched DEF MemberHit
<1> HIDE DEF k
<1>3. i \in DOMAIN Elements(t) /\ k \in DOMAIN Elements(t)
  BY <1>1 DEF Bearers
<1>4. name \in namesOf(t, i) /\ name \in namesOf(t, k)
  BY <1>1, FoundIsField DEF namesOf, Member
<1>5. k = i
  BY <1>3, <1>4, ScopeAssumption DEF ScopeAssumption
<1> QED BY <1>2, <1>3, <1>5

-----------------------------------------------------------------------------
\* Steps over the IR type.

\* Among some of n numbers there is a greatest.
LEMMA GreatestOf ==
  ASSUME NEW n \in Nat, NEW S \in SUBSET (1 .. n), S # {}, NEW v, \A j \in S : v[j] \in Nat
  PROVE  \E i \in S : \A j \in S : v[i] >= v[j]
<1> DEFINE T(k) == S \cap (1 .. k)
           G == {k \in 0 .. n : T(k) # {} => \E i \in T(k) : \A j \in T(k) : v[i] >= v[j]}
<1>1. 0 \in G
  OBVIOUS
<1>2. ASSUME NEW k \in 1 .. n, k - 1 \in G PROVE k \in G
  <2>1. T(k) = IF k \in S THEN T(k - 1) \cup {k} ELSE T(k - 1)
    OBVIOUS
  <2>2. CASE k \notin S
    BY <1>2, <2>1, <2>2
  <2>3. CASE k \in S /\ T(k - 1) = {}
    <3>1. T(k) = {k} /\ v[k] \in Nat
      BY <2>1, <2>3
    <3> HIDE DEF T
    <3> QED BY <3>1
  <2>4. CASE k \in S /\ T(k - 1) # {}
    <3>1. PICK i \in T(k - 1) : \A j \in T(k - 1) : v[i] >= v[j]
      BY <1>2, <2>4
    <3>2. i \in S /\ v[i] \in Nat /\ v[k] \in Nat /\ \A j \in T(k - 1) : v[j] \in Nat
      BY <2>4
    <3>3. T(k) = T(k - 1) \cup {k}
      BY <2>1, <2>4
    <3> HIDE DEF T
    <3>4. CASE v[i] >= v[k]
      BY <3>1, <3>3, <3>4
    <3>5. CASE ~ (v[i] >= v[k])
      <4>1. \A j \in T(k) : v[k] >= v[j]
        BY <3>1, <3>2, <3>3, <3>5
      <4> QED BY <3>3, <4>1
    <3> QED BY <3>4, <3>5
  <2> QED BY <2>2, <2>3, <2>4
<1>3. 0 .. n \subseteq G
  <2> HIDE DEF G
  <2> QED BY <1>1, <1>2, CountUp
<1>4. n \in G /\ T(n) = S
  <2>1. n \in 0 .. n
    OBVIOUS
  <2> HIDE DEF G
  <2> QED BY <1>3, <2>1
<1> QED BY <1>4

\* A union has the member it is made of in IR.
LEMMA StorageOf ==
  ASSUME NEW t \in Node, Elements(t) # << >>
  PROVE  storage(t) \in DOMAIN Elements(t)
<1> DEFINE part(i) == Elements(t)[i].base
           is == DOMAIN Elements(t)
           aligned == {i \in is : \A j \in is : Align(part(i)) >= Align(part(j))}
           largest == {i \in aligned : \A j \in aligned : Size(part(i)) >= Size(part(j))}
           n == Len(Elements(t))
           a == [i \in is |-> Align(part(i))]
           z == [i \in is |-> Size(part(i))]
<1>1. n \in Nat /\ is = 1 .. n /\ is # {}
  <2>1. Elements(t) \in Seq(Range(Elements(t)))
    BY FormAssumption DEF FormAssumption
  <2>2. \A S : \A s \in Seq(S) : Len(s) \in Nat /\ DOMAIN s = 1 .. Len(s) /\ (s # << >> => 1 \in DOMAIN s)
    OBVIOUS
  <2> QED BY <2>1, <2>2
<1>2. \A i \in is : Align(part(i)) \in Nat /\ Size(part(i)) \in Nat
  <2>1. \A i \in is : lower[part(i)] \in Node
    BY MemberFacts, LowerOf DEF OptNode
  <2> QED BY <2>1, SizeAssumption DEF SizeAssumption, Size, Align
<1>3. storage(t) = Min(largest)
  BY DEF storage
<1>4. \E i \in is : \A j \in is : a[i] >= a[j]
  <2>1. \A i \in is : a[i] \in Nat
    BY <1>2
  <2> HIDE DEF a, is, n
  <2> QED BY <1>1, <2>1, GreatestOf
<1>5. aligned # {} /\ aligned \in SUBSET (1 .. n)
  BY <1>1, <1>4
<1>6. \E i \in aligned : \A j \in aligned : z[i] >= z[j]
  <2>1. \A i \in aligned : z[i] \in Nat
    BY <1>2
  <2> HIDE DEF z, aligned, n
  <2> QED BY <1>1, <1>5, <2>1, GreatestOf
<1>7. largest # {} /\ largest \subseteq Nat /\ largest \subseteq is
  BY <1>1, <1>6
<1> HIDE DEF largest
<1>8. \E i \in largest : \A j \in largest : i <= j
  BY <1>7, Least
<1>9. Min(largest) \in largest
  BY <1>8 DEF Min
<1> QED BY <1>3, <1>7, <1>9

Pos(u, o) == [at |-> u, offset |-> o, failed |-> FALSE]

LEMMA StepElement ==
  ASSUME NEW t \in Node, Tag(t) = "array", NEW s \in DOMAIN stoi, NEW o \in Nat
  PROVE  Step(Pos(t, o), Hit(stoi[s], Base(t), FALSE)) =
           Pos(lower[Base(t)], o + stoi[s] * Size(Base(t)))
<1> DEFINE hit == Hit(stoi[s], Base(t), FALSE)
           acc == Pos(t, o)
<1>1. hit.index = stoi[s] /\ acc.at = t /\ acc.offset = o /\ ~ acc.failed
  BY DEF Hit, Pos
<1>2. Step(acc, hit) = [acc EXCEPT !.at = lower[Base(t)], !.offset = o + stoi[s] * Size(Base(t))]
  <2> HIDE DEF hit, acc
  <2> QED BY <1>1 DEF Step, Aggregate
<1> HIDE DEF hit
<1>3. Step(acc, hit) = Pos(lower[Base(t)], o + stoi[s] * Size(Base(t)))
  <2> DEFINE d == o + stoi[s] * Size(Base(t))
  <2>1. Step(acc, hit) = [acc EXCEPT !.at = lower[Base(t)], !.offset = d]
    BY <1>2
  <2> HIDE DEF d
  <2>2. Step(acc, hit) = Pos(lower[Base(t)], d)
    BY <2>1 DEF Pos
  <2> QED BY <2>2 DEF d
<1> QED BY <1>3 DEF hit

LEMMA StepMember ==
  ASSUME NEW t \in Node, NEW i \in DOMAIN Elements(t), NEW o \in Nat
  PROVE  \E j \in DOMAIN Elements(t) :
           /\ Step(Pos(t, o), MemberHit(t, i)) =
                Pos(lower[Elements(t)[j].base], o + Elements(t)[i].offset)
           /\ (Tag(t) = "union" => i = storage(t)) => j = i
<1> DEFINE j == IF Tag(t) = "union" THEN storage(t) ELSE i
           hit == MemberHit(t, i)
<1>1. Aggregate(t) /\ Tag(t) # "array" /\ i \in Nat /\ Elements(t) # << >>
  BY MemberFacts
<1>2. j \in DOMAIN Elements(t)
  BY <1>1, StorageOf
<1>3. (IF Tag(t) = "union" THEN storage(t) ELSE hit.index + 1) = j
  <2>1. Tag(t) # "union" => hit.index = i - 1
    BY MemberHitOf
  <2> QED BY <1>1, <2>1
<1>4. Tag(t) = "union" => hit.index = 0
  BY MemberHitOf
<1>5. Offset(t, j) = Elements(t)[i].offset
  <2>1. CASE Tag(t) = "union"
    BY <1>1, <1>2, <2>1, LayoutAssumption DEF LayoutAssumption, Offset
  <2>2. CASE Tag(t) # "union"
    BY <2>2 DEF Offset
  <2> QED BY <2>1, <2>2
<1>6. Step(Pos(t, o), hit) = Pos(lower[Elements(t)[j].base], o + Offset(t, j))
  <2> HIDE DEF j, hit
  <2> QED BY <1>1, <1>2, <1>3, <1>4 DEF Step, Pos
<1>7. (Tag(t) = "union" => i = storage(t)) => j = i
  OBVIOUS
<1> QED BY <1>2, <1>5, <1>6, <1>7

\* Where each number of steps leads.
LEMMA Walks ==
  ASSUME NEW acc, NEW hits \in Seq(HitType)
  PROVE  \E w : /\ Walk(acc, hits) = w[Len(hits)] /\ w[0] = acc
                /\ \A n \in 1 .. Len(hits) : w[n] = Step(w[n - 1], hits[n])
<1> DEFINE L == Len(hits)
           Up(k) == \E w : w = [n \in 0 .. k |-> IF n = 0 THEN acc ELSE Step(w[n - 1], hits[n])]
           G == {k \in 0 .. L : Up(k)}
<1>0. L \in Nat
  OBVIOUS
<1>1. 0 \in G
  <2> DEFINE w == [n \in 0 .. 0 |-> acc]
  <2>1. w = [n \in 0 .. 0 |-> IF n = 0 THEN acc ELSE Step(w[n - 1], hits[n])]
    OBVIOUS
  <2> HIDE DEF w
  <2>2. Up(0)
    BY <2>1
  <2> HIDE DEF Up
  <2> QED BY <1>0, <2>2
<1>2. ASSUME NEW k \in 1 .. L, k - 1 \in G PROVE k \in G
  <2>1. Up(k - 1)
    BY <1>2
  <2>2. PICK w : w = [n \in 0 .. k - 1 |-> IF n = 0 THEN acc ELSE Step(w[n - 1], hits[n])]
    BY <2>1
  <2> DEFINE v == [n \in 0 .. k |-> IF n = k THEN Step(w[k - 1], hits[k]) ELSE w[n]]
  <2>3. \A n \in 0 .. k - 1 : w[n] = IF n = 0 THEN acc ELSE Step(w[n - 1], hits[n])
    BY <2>2
  <2>4. \A n \in 0 .. k : v[n] = IF n = 0 THEN acc ELSE Step(v[n - 1], hits[n])
    BY <2>3
  <2>5. v = [n \in 0 .. k |-> IF n = 0 THEN acc ELSE Step(v[n - 1], hits[n])]
    <3>1. DOMAIN v = 0 .. k /\ v = [n \in 0 .. k |-> v[n]]
      OBVIOUS
    <3> HIDE DEF v
    <3> QED BY <2>4, <3>1
  <2> HIDE DEF v
  <2>6. Up(k)
    BY <2>5
  <2> HIDE DEF Up
  <2> QED BY <2>6
<1>3. Up(L)
  <2>1. L \in 0 .. L
    BY <1>0
  <2> HIDE DEF G, L
  <2>2. L \in G
    BY <1>0, <1>1, <1>2, <2>1, CountUp
  <2> QED BY <2>2 DEF G
<1> DEFINE w == CHOOSE w : w = [n \in 0 .. L |-> IF n = 0 THEN acc ELSE Step(w[n - 1], hits[n])]
<1>4. w = [n \in 0 .. L |-> IF n = 0 THEN acc ELSE Step(w[n - 1], hits[n])]
  BY <1>3
<1>5. Walk(acc, hits) = w[L]
  BY DEF Walk
<1> HIDE DEF w, L
<1>6. w[0] = acc /\ \A n \in 1 .. L : w[n] = Step(w[n - 1], hits[n])
  BY <1>0, <1>4
<1> QED BY <1>5, <1>6 DEF L

LEMMA WalkNone == ASSUME NEW acc PROVE Walk(acc, << >>) = acc
<1> DEFINE s == << >>
<1>1. s \in Seq(HitType) /\ Len(s) = 0
  OBVIOUS
<1> HIDE DEF s
<1>2. ASSUME NEW hits \in Seq(HitType), Len(hits) = 0 PROVE Walk(acc, hits) = acc
  <2>1. PICK w : /\ Walk(acc, hits) = w[Len(hits)] /\ w[0] = acc
                 /\ \A n \in 1 .. Len(hits) : w[n] = Step(w[n - 1], hits[n])
    BY Walks
  <2>2. Walk(acc, hits) = w[0] /\ w[0] = acc
    BY <1>2, <2>1
  <2> QED BY <2>2
<1>3. Walk(acc, s) = acc
  BY <1>1, <1>2
<1> QED BY <1>3 DEF s

LEMMA WalkOne ==
  ASSUME NEW acc, NEW hit \in HitType
  PROVE  Walk(acc, <<hit>>) = Step(acc, hit)
<1>1. <<hit>> \in Seq(HitType) /\ Len(<<hit>>) = 1 /\ <<hit>>[1] = hit
  OBVIOUS
<1>2. PICK w : /\ Walk(acc, <<hit>>) = w[1] /\ w[0] = acc
               /\ \A n \in 1 .. 1 : w[n] = Step(w[n - 1], <<hit>>[n])
  <2> DEFINE s == <<hit>>
  <2> HIDE DEF s
  <2>1. s \in Seq(HitType) /\ Len(s) = 1
    BY <1>1 DEF s
  <2> QED BY <2>1, Walks DEF s
<1> QED BY <1>1, <1>2

\* The walk over hits as a function of their number.
Walked(acc, hits) ==
  \E w : /\ Walk(acc, hits) = w[Len(hits)] /\ w[0] = acc
         /\ \A n \in 1 .. Len(hits) : w[n] = Step(w[n - 1], hits[n])

LEMMA WalkedAll == \A acc : \A hits \in Seq(HitType) : Walked(acc, hits)
BY Walks DEF Walked

LEMMA WalkOn ==
  ASSUME NEW acc, NEW a \in Seq(HitType), NEW b \in Seq(HitType)
  PROVE  Walk(acc, a \o b) = Walk(Walk(acc, a), b)
<1> DEFINE c == a \o b
           m == Len(a)
           n == Len(b)
<1>1. /\ c \in Seq(HitType) /\ Len(c) = m + n /\ m \in Nat /\ n \in Nat
      /\ \A k \in 1 .. m : c[k] = a[k]
      /\ \A k \in 1 .. n : c[m + k] = b[k]
  OBVIOUS
<1> HIDE DEF c
<1>2. PICK u : /\ Walk(acc, a) = u[m] /\ u[0] = acc
               /\ \A k \in 1 .. m : u[k] = Step(u[k - 1], a[k])
  <2>1. Walked(acc, a)
    BY WalkedAll
  <2> QED BY <2>1 DEF Walked
<1>3. PICK v : /\ Walk(Walk(acc, a), b) = v[n] /\ v[0] = Walk(acc, a)
               /\ \A k \in 1 .. n : v[k] = Step(v[k - 1], b[k])
  <2>1. Walked(Walk(acc, a), b)
    BY WalkedAll
  <2> QED BY <2>1 DEF Walked
<1>4. PICK w : /\ Walk(acc, c) = w[Len(c)] /\ w[0] = acc
               /\ \A k \in 1 .. Len(c) : w[k] = Step(w[k - 1], c[k])
  <2>1. c \in Seq(HitType)
    BY <1>1
  <2>2. Walked(acc, c)
    BY <2>1, WalkedAll
  <2> QED BY <2>2 DEF Walked
<1> HIDE DEF m, n
<1>5. w[m] = u[m]
  <2> DEFINE G == {k \in 0 .. m : w[k] = u[k]}
  <2>1. 0 \in G
    BY <1>1, <1>2, <1>4
  <2>2. \A k \in 1 .. m : k - 1 \in G => k \in G
    BY <1>1, <1>2, <1>4
  <2>3. m \in 0 .. m
    BY <1>1
  <2>4. 0 .. m \subseteq G
    <3> HIDE DEF G
    <3> QED BY <1>1, <2>1, <2>2, CountUp
  <2> QED BY <2>3, <2>4
<1>6. w[m + n] = v[n]
  <2> DEFINE G == {k \in 0 .. n : w[m + k] = v[k]}
  <2>1. 0 \in G
    BY <1>1, <1>2, <1>3, <1>5
  <2>2. ASSUME NEW k \in 1 .. n, k - 1 \in G PROVE k \in G
    <3>1. m + k \in 1 .. Len(c) /\ (m + k) - 1 = m + (k - 1)
      BY <1>1
    <3>2. w[m + k] = Step(w[m + (k - 1)], c[m + k])
      BY <1>4, <3>1
    <3> QED BY <1>1, <1>3, <2>2, <3>2
  <2>3. n \in 0 .. n
    BY <1>1
  <2>4. 0 .. n \subseteq G
    <3> HIDE DEF G
    <3> QED BY <1>1, <2>1, <2>2, CountUp
  <2> QED BY <2>3, <2>4
<1> QED BY <1>1, <1>3, <1>4, <1>6 DEF c

-----------------------------------------------------------------------------
\* One name of a path.

\* g is what is left of f behind its first name, and d how far that leads.
Further(f, g, d) ==
  /\ f.offset = d + g.offset /\ g.exposed /\ g.type = f.type
  /\ Len(f.path) = Len(g.path) + 1 /\ \A k \in 1 .. Len(g.path) : g.path[k] = f.path[k + 1]

\* The hits lead from t to the field, or to where it is a field of.
Ends(hits, t, f) == \A o \in Nat : \E u : Walk(Pos(t, o), hits) = Pos(u, o + f.offset)

GoesOn(hits, t, f) ==
  \E g \in fieldsOf[Last(hits).type], d \in Nat :
    /\ Further(f, g, d)
    /\ \A o \in Nat : Walk(Pos(t, o), hits) = Pos(lower[Last(hits).type], o + d)

Reaches(hits, t, f) ==
  /\ hits # << >>
  /\ Last(hits).member <=> f.path[1] \notin DOMAIN stoi
  /\ Len(f.path) = 1 => Last(hits).type = f.type /\ Ends(hits, t, f)
  /\ Len(f.path) # 1 =>
       /\ Last(hits).member => stripTypedef[Last(hits).type] = lower[Last(hits).type]
       /\ GoesOn(hits, t, f)

\* The parts of a field.
LEMMA FieldFacts ==
  ASSUME NEW t \in OptNode, NEW f \in fieldsOf[t]
  PROVE  /\ f.path \in Seq(Names) /\ f.path # << >> /\ Len(f.path) \in Nat \ {0}
         /\ f.path[1] \in Names
         /\ f.offset \in Nat /\ f.size \in Nat /\ f.type \in Node /\ f.exposed \in BOOLEAN
         /\ lower[f.type] # NoType /\ f.size = Size(f.type)
         /\ Last(f.path) \in DOMAIN stoi => ElementType(f.type)
<1>1. f \in FieldType
  BY FieldsEquation
<1>2. f.path \in Seq(Names) /\ f.path # << >>
  BY <1>1 DEF FieldType
<1>3. Len(f.path) \in Nat \ {0} /\ f.path[1] \in Names
  <2> DEFINE p == f.path
  <2> HIDE DEF p
  <2>1. p \in Seq(Names) /\ p # << >>
    BY <1>2 DEF p
  <2>2. Len(p) \in Nat \ {0} /\ p[1] \in Names
    BY <2>1
  <2> QED BY <2>2 DEF p
<1> QED BY <1>1, <1>2, <1>3 DEF FieldType

\* A field behind a name.
LEMMA OuterFurther ==
  ASSUME NEW t \in OptNode, NEW g \in fieldsOf[t], NEW f, NEW name \in Names, name # NoName,
         NEW offset \in Nat, NEW exposed \in BOOLEAN, Outer(f, g, name, offset, exposed), f.exposed
  PROVE  Further(f, g, offset) /\ f.path[1] = name /\ Len(f.path) # 1 /\ exposed
<1>1. g.path \in Seq(Names) /\ Len(g.path) \in Nat \ {0}
  BY FieldFacts
<1>2. f.path = <<name>> \o g.path
  BY DEF Outer
<1> DEFINE p == g.path
           q == f.path
<1>3. p \in Seq(Names) /\ Len(p) \in Nat \ {0} /\ q = <<name>> \o p
  BY <1>1, <1>2
<1> HIDE DEF p, q
<1>4. q[1] = name /\ Len(q) = Len(p) + 1 /\ \A k \in 1 .. Len(p) : q[k + 1] = p[k]
  BY <1>3, InFront
<1>5. Len(q) # 1
  BY <1>3, <1>4
<1> QED BY <1>4, <1>5 DEF p, q, Outer, Further

LEMMA NameInArray ==
  ASSUME NEW name \in Names, NEW found, Finds(found, name), NEW t \in Node, Tag(t) = "array",
         NEW f \in fieldsOf[t], f.exposed, f.path[1] = name
  PROVE  Reaches(found[t], t, f)
<1>1. PICK s \in DOMAIN stoi :
        \/ ItsOwn(f, s, stoi[s] * Size(Base(t)), Base(t))
        \/ \E g \in fieldsOf[Base(t)] : Outer(f, g, s, stoi[s] * Size(Base(t)), TRUE)
  BY FieldOfArray
<1> DEFINE hit == Hit(stoi[s], Base(t), FALSE)
           d == stoi[s] * Size(Base(t))
<1>2. /\ s \in Names /\ s # NoName /\ d \in Nat /\ Base(t) \in Node /\ Base(t) \in OptNode
      /\ TRUE \in BOOLEAN
  BY ElementFacts DEF OptNode
<1>3. hit \in HitType /\ hit.type = Base(t) /\ ~ hit.member
  BY <1>2 DEF Hit, HitType, Indexes
<1>4. \A o \in Nat : Step(Pos(t, o), hit) = Pos(lower[Base(t)], o + d)
  BY StepElement
<1>5. found[t] = <<Hit(stoi[name], Base(t), FALSE)>>
  <2>1. found[t] = search(t, name, found)
    BY DEF Finds
  <2> QED BY <2>1, Searched
<1> HIDE DEF hit, d
<1>6. name = s => /\ found[t] # << >> /\ Last(found[t]) = hit
                  /\ \A o \in Nat : Walk(Pos(t, o), found[t]) = Pos(lower[Base(t)], o + d)
  <2>1. name = s => found[t] = <<hit>>
    BY <1>5 DEF hit
  <2>2. <<hit>> # << >> /\ Last(<<hit>>) = hit
    BY <1>3, Single
  <2>3. \A o \in Nat : Walk(Pos(t, o), <<hit>>) = Step(Pos(t, o), hit)
    BY <1>3, WalkOne
  <2>4. \A o \in Nat : Step(Pos(t, o), hit) = Pos(lower[Base(t)], o + d)
    BY <1>4 DEF hit, d
  <2> DEFINE one == <<hit>>
  <2>5. (name = s => found[t] = one) /\ one # << >> /\ Last(one) = hit
    BY <2>1, <2>2
  <2>6. \A o \in Nat : Walk(Pos(t, o), one) = Pos(lower[Base(t)], o + d)
    BY <2>3, <2>4
  <2> HIDE DEF one
  <2> QED BY <2>5, <2>6
<1>7. CASE ItsOwn(f, s, d, Base(t))
  <2>1. f.path = <<s>> /\ f.offset = d /\ f.type = Base(t)
    BY <1>7 DEF ItsOwn
  <2>2. f.path[1] = s /\ Len(f.path) = 1
    BY <1>2, <2>1, Single
  <2>3. Ends(found[t], t, f)
    BY <1>6, <2>1, <2>2 DEF Ends
  <2> QED BY <1>2, <1>3, <1>6, <2>1, <2>2, <2>3 DEF Reaches
<1>8. CASE \E g \in fieldsOf[Base(t)] : Outer(f, g, s, d, TRUE)
  <2>1. PICK g \in fieldsOf[Base(t)] : Outer(f, g, s, d, TRUE)
    BY <1>8
  <2>2. Further(f, g, d) /\ f.path[1] = s /\ Len(f.path) # 1
    BY <1>2, <2>1, OuterFurther
  <2>3. GoesOn(found[t], t, f)
    BY <1>2, <1>3, <1>6, <2>2 DEF GoesOn
  <2> QED BY <1>2, <1>3, <1>6, <2>2, <2>3 DEF Reaches
<1> QED BY <1>1, <1>7, <1>8 DEF d

\* A member with the name.
LEMMA NameOfMember ==
  ASSUME NEW name \in Names, NEW found, Finds(found, name), NEW t \in Node,
         NEW i \in DOMAIN Elements(t), NEW m, m = Elements(t)[i], m.name # NoName,
         NEW f \in Member(t, i), f.exposed, f.path[1] = name
  PROVE  Reaches(found[t], t, f)
<1> DEFINE hit == MemberHit(t, i)
           e == SameInIR(t, i, m.base)
           d == m.offset
<1>0. e \in BOOLEAN
  BY DEF SameInIR
<1>1. /\ Aggregate(t) /\ m.base \in Node /\ m.base \in OptNode /\ m.name \in Names
      /\ m.name \notin DOMAIN stoi /\ d \in Nat
  BY MemberFacts DEF OptNode
<1>2. hit \in HitType /\ hit.type = m.base /\ hit.member
  BY MemberHitOf
<1>3. Comprises(Member(t, i), fieldsOf[m.base], m.name, d, m.base, e)
  BY MemberOf
<1>4. \A o \in Nat : \E j \in DOMAIN Elements(t) :
        /\ Step(Pos(t, o), hit) = Pos(lower[Elements(t)[j].base], o + d)
        /\ e => j = i /\ stripTypedef[m.base] = lower[m.base]
  BY StepMember DEF SameInIR
<1> HIDE DEF hit, e, d
<1>5. m.name = name => found[t] = <<hit>>
  <2>1. m.name = name => i \in Bearers(t, name, found)
    BY DEF Bearers
  <2>2. unnamed(m, found) = << >>
    BY Unnamed
  <2>3. m.name = name => found[t] = <<hit>> \o << >>
    <3>1. i \in Bearers(t, name, found)
            => found[t] = <<MemberHit(t, i)>> \o unnamed(Elements(t)[i], found)
      BY <1>1, OnlyBearer
    <3> QED BY <2>1, <2>2, <3>1 DEF hit
  <2>4. <<hit>> \o << >> = <<hit>>
    BY <1>2, Single
  <2> QED BY <2>3, <2>4
<1>6. m.name = name =>
        /\ found[t] # << >> /\ Last(found[t]) = hit
        /\ \A o \in Nat : Walk(Pos(t, o), found[t]) = Step(Pos(t, o), hit)
  BY <1>2, <1>5, WalkOne, Single
<1>7. CASE ItsOwn(f, m.name, d, m.base)
  <2>1. f.path = <<m.name>> /\ f.offset = d /\ f.type = m.base
    BY <1>7 DEF ItsOwn
  <2>2. f.path[1] = m.name /\ Len(f.path) = 1
    BY <1>1, <2>1, Single
  <2>3. Ends(found[t], t, f)
    BY <1>4, <1>6, <2>1, <2>2 DEF Ends
  <2> QED BY <1>1, <1>2, <1>6, <2>1, <2>2, <2>3 DEF Reaches
<1>8. CASE \E g \in fieldsOf[m.base] : Outer(f, g, m.name, d, e)
  <2>1. PICK g \in fieldsOf[m.base] : Outer(f, g, m.name, d, e)
    BY <1>8
  <2>2. Further(f, g, d) /\ f.path[1] = m.name /\ Len(f.path) # 1 /\ e
    BY <1>0, <1>1, <2>1, OuterFurther
  <2>3. stripTypedef[m.base] = lower[m.base]
    <3>1. 0 \in Nat
      OBVIOUS
    <3> QED BY <1>4, <2>2, <3>1
  <2>4. \A o \in Nat : Walk(Pos(t, o), found[t]) = Pos(lower[m.base], o + d)
    BY <1>4, <1>6, <2>2
  <2>5. GoesOn(found[t], t, f)
    BY <1>1, <1>2, <1>6, <2>2, <2>4 DEF GoesOn
  <2> QED BY <1>1, <1>2, <1>6, <2>2, <2>3, <2>5 DEF Reaches
<1> QED BY <1>3, <1>7, <1>8 DEF Comprises

\* A member of a member without a name.
LEMMA NameUnder ==
  ASSUME NEW name \in Names, NEW found, Finds(found, name), NEW t \in Node,
         NEW i \in DOMAIN Elements(t), NEW m, m = Elements(t)[i], m.name = NoName,
         NEW f \in Member(t, i), f.exposed, f.path[1] = name,
         \A g \in fieldsOf[m.base] : g.exposed /\ g.path[1] = name => Reaches(found[m.base], m.base, g)
  PROVE  Reaches(found[t], t, f)
<1> DEFINE hit == MemberHit(t, i)
           e == SameInIR(t, i, m.base)
           d == m.offset
           b == m.base
           rest == found[b]
<1>0. e \in BOOLEAN
  BY DEF SameInIR
<1>1. Aggregate(t) /\ b \in Node /\ b \in OptNode /\ Aggregate(b) /\ d \in Nat
  BY MemberFacts DEF OptNode, NoName
<1>2. hit \in HitType
  BY MemberHitOf
<1>3. Comprises(Member(t, i), fieldsOf[b], m.name, d, b, e)
  BY MemberOf
<1>4. \A o \in Nat : \E j \in DOMAIN Elements(t) :
        /\ Step(Pos(t, o), hit) = Pos(lower[Elements(t)[j].base], o + d)
        /\ e => j = i
  BY StepMember DEF SameInIR
<1>5. lower[b] = b
  BY <1>1, LowerOf DEF Aggregate
<1>6. PICK g \in fieldsOf[b] : Outer(f, g, NoName, d, e)
  BY <1>3 DEF Comprises, ItsOwn
<1>7. f.path = g.path /\ f.offset = d + g.offset /\ f.type = g.type /\ g.exposed /\ e
  BY <1>6 DEF Outer
<1>8. Reaches(rest, b, g)
  BY <1>7
<1>9. \A o \in Nat : Step(Pos(t, o), hit) = Pos(b, o + d)
  BY <1>4, <1>5, <1>7
<1>10. rest \in Seq(HitType) /\ rest # << >>
  <2>1. rest # << >>
    BY <1>8 DEF Reaches
  <2> QED BY <1>1, <2>1 DEF Finds
<1>11. found[t] = <<hit>> \o rest
  <2>1. unnamed(m, found) = rest
    BY <1>1, Unnamed DEF Composite, Aggregate
  <2>2. i \in Bearers(t, name, found)
    BY <1>10, <2>1 DEF Bearers
  <2> QED BY <1>1, <2>1, <2>2, OnlyBearer
<1> HIDE DEF hit, e, d, b, rest
<1>12. found[t] # << >> /\ Last(found[t]) = Last(rest)
  BY <1>2, <1>10, <1>11, InFront
<1>13. \A o \in Nat : Walk(Pos(t, o), found[t]) = Walk(Pos(b, o + d), rest)
  <2> TAKE o \in Nat
  <2> DEFINE first == <<hit>>
             acc == Pos(t, o)
  <2>1. first \in Seq(HitType) /\ found[t] = first \o rest
    BY <1>2, <1>11, Single
  <2>2. Walk(acc, first) = Pos(b, o + d)
    BY <1>2, <1>9, WalkOne
  <2> HIDE DEF first, acc
  <2>3. Walk(acc, first \o rest) = Walk(Walk(acc, first), rest)
    BY <1>10, <2>1, WalkOn
  <2> QED BY <2>1, <2>2, <2>3 DEF acc
<1>14. \A o \in Nat : o + d \in Nat
  BY <1>1
<1>15. d \in Nat /\ g.offset \in Nat
  BY <1>1, <1>6, FieldFacts
<1>16. CASE Len(f.path) = 1
  <2>1. Ends(found[t], t, f)
    <3>1. Ends(rest, b, g)
      BY <1>7, <1>8, <1>16 DEF Reaches
    <3>2. ASSUME NEW o \in Nat PROVE \E u : Walk(Pos(t, o), found[t]) = Pos(u, o + f.offset)
      <4>1. PICK u : Walk(Pos(b, o + d), rest) = Pos(u, (o + d) + g.offset)
        BY <1>14, <3>1 DEF Ends
      <4>2. (o + d) + g.offset = o + f.offset
        BY <1>7, <1>15
      <4> QED BY <1>13, <4>1, <4>2
    <3> QED BY <3>2 DEF Ends
  <2> QED BY <1>7, <1>8, <1>12, <1>16, <2>1 DEF Reaches
<1>17. CASE Len(f.path) # 1
  <2>1. PICK h \in fieldsOf[Last(rest).type], c \in Nat :
          /\ Further(g, h, c)
          /\ \A o \in Nat : Walk(Pos(b, o), rest) = Pos(lower[Last(rest).type], o + c)
    BY <1>7, <1>8, <1>17 DEF Reaches, GoesOn
  <2>2. d + c \in Nat /\ h.offset \in Nat
    <3>1. g.offset = c + h.offset
      BY <2>1 DEF Further
    <3>2. Last(rest).type \in OptNode
      <4>1. Last(rest) \in HitType
        BY <1>10 DEF Last
      <4> QED BY <4>1 DEF HitType, OptNode
    <3>3. h.offset \in Nat
      BY <2>1, <3>2, FieldFacts
    <3> QED BY <1>15, <2>1, <3>3
  <2>3. Further(f, h, d + c)
    <3>1. g.offset = c + h.offset /\ c \in Nat
      BY <2>1 DEF Further
    <3>2. f.offset = (d + c) + h.offset
      BY <1>7, <1>15, <2>2, <3>1
    <3> QED BY <1>7, <2>1, <3>2 DEF Further
  <2>4. \A o \in Nat : Walk(Pos(t, o), found[t]) = Pos(lower[Last(rest).type], o + (d + c))
    <3> TAKE o \in Nat
    <3>1. Walk(Pos(b, o + d), rest) = Pos(lower[Last(rest).type], (o + d) + c)
      BY <1>14, <2>1
    <3>2. (o + d) + c = o + (d + c)
      BY <1>15, <2>1
    <3> QED BY <1>13, <3>1, <3>2
  <2>5. Last(rest).member => stripTypedef[Last(rest).type] = lower[Last(rest).type]
    BY <1>7, <1>8, <1>17 DEF Reaches
  <2>6. Last(rest).member <=> f.path[1] \notin DOMAIN stoi
    BY <1>7, <1>8 DEF Reaches
  <2>7. GoesOn(found[t], t, f)
    BY <1>12, <2>1, <2>2, <2>3, <2>4 DEF GoesOn
  <2> QED BY <1>12, <1>17, <2>5, <2>6, <2>7 DEF Reaches
<1> QED BY <1>16, <1>17

LEMMA NameReaches ==
  ASSUME NEW name \in Names, NEW found, Finds(found, name),
         NEW t \in Node, Tag(t) \notin {"typedef", "const"},
         NEW f \in fieldsOf[t], f.exposed, f.path[1] = name
  PROVE  Reaches(found[t], t, f)
<1> DEFINE Right(u) == \A g \in fieldsOf[u] : g.exposed /\ g.path[1] = name => Reaches(found[u], u, g)
           G == {u \in Node : Tag(u) \notin {"typedef", "const"} => Right(u)}
<1>1. ASSUME NEW u \in Node, InsideNode[u] \subseteq G PROVE u \in G
  <2>1. SUFFICES ASSUME Tag(u) \notin {"typedef", "const"},
                        NEW g \in fieldsOf[u], g.exposed, g.path[1] = name
                 PROVE  Reaches(found[u], u, g)
    OBVIOUS
  <2>2. CASE Tag(u) = "array"
    BY <2>1, <2>2, NameInArray
  <2>3. CASE Tag(u) # "array"
    <3>1. PICK i \in DOMAIN Elements(u) : g \in Member(u, i)
      BY <2>1, <2>3, FieldOfMember
    <3>2. PICK m : m = Elements(u)[i]
      OBVIOUS
    <3>3. CASE m.name # NoName
      BY <2>1, <3>1, <3>2, <3>3, NameOfMember
    <3>4. CASE m.name = NoName
      <4>1. m.base \in InsideNode[u]
        BY <3>1, <3>2 DEF InsideNode, Consists, Range
      <4>2. m.base \in Node /\ Tag(m.base) \notin {"typedef", "const"}
        BY <3>1, <3>2, <3>4, MemberFacts DEF NoName, Aggregate
      <4>3. Right(m.base)
        BY <1>1, <4>1, <4>2
      <4> QED BY <2>1, <3>1, <3>2, <3>4, <4>3, NameUnder
    <3> QED BY <3>3, <3>4
  <2> QED BY <2>2, <2>3
<1>2. Node \subseteq G
  <2> HIDE DEF G
  <2> QED BY <1>1, InsideNodeDescends, Descent
<1>3. Right(t)
  BY <1>2
<1> QED BY <1>3

-----------------------------------------------------------------------------
\* A path.

\* One name of the path, as GEP goes on with it.
PathStep(acc, name) ==
  IF acc.hits = << >> \/ acc.crashed THEN acc
  ELSE follow(acc, IF acc.at = NoType THEN << >> ELSE GEP2MemberInfo(acc.at, name))

PathStart(t) == [at |-> t, hits |-> <<Hit(0, t, FALSE)>>, crashed |-> FALSE]

LEMMA PathWalks ==
  ASSUME NEW t, NEW path \in Seq(Names)
  PROVE  \E w : /\ GEP(t, path) = w[Len(path)] /\ w[0] = PathStart(t)
                /\ \A n \in 1 .. Len(path) : w[n] = PathStep(w[n - 1], path[n])
<1> DEFINE L == Len(path)
           acc == PathStart(t)
           Up(k) == \E w : w = [n \in 0 .. k |-> IF n = 0 THEN acc ELSE PathStep(w[n - 1], path[n])]
           G == {k \in 0 .. L : Up(k)}
<1>0. L \in Nat
  OBVIOUS
<1> HIDE DEF acc
<1>1. 0 \in G
  <2> DEFINE w == [n \in 0 .. 0 |-> acc]
  <2>1. w = [n \in 0 .. 0 |-> IF n = 0 THEN acc ELSE PathStep(w[n - 1], path[n])]
    OBVIOUS
  <2> HIDE DEF w
  <2>2. Up(0)
    BY <2>1
  <2> HIDE DEF Up
  <2> QED BY <1>0, <2>2
<1>2. ASSUME NEW k \in 1 .. L, k - 1 \in G PROVE k \in G
  <2>1. Up(k - 1)
    BY <1>2
  <2>2. PICK w : w = [n \in 0 .. k - 1 |-> IF n = 0 THEN acc ELSE PathStep(w[n - 1], path[n])]
    BY <2>1
  <2> DEFINE v == [n \in 0 .. k |-> IF n = k THEN PathStep(w[k - 1], path[k]) ELSE w[n]]
  <2>3. \A n \in 0 .. k - 1 : w[n] = IF n = 0 THEN acc ELSE PathStep(w[n - 1], path[n])
    BY <2>2
  <2>4. \A n \in 0 .. k : v[n] = IF n = 0 THEN acc ELSE PathStep(v[n - 1], path[n])
    BY <2>3
  <2>5. v = [n \in 0 .. k |-> IF n = 0 THEN acc ELSE PathStep(v[n - 1], path[n])]
    <3>1. DOMAIN v = 0 .. k /\ v = [n \in 0 .. k |-> v[n]]
      OBVIOUS
    <3> HIDE DEF v
    <3> QED BY <2>4, <3>1
  <2> HIDE DEF v
  <2>6. Up(k)
    BY <2>5
  <2> HIDE DEF Up
  <2> QED BY <2>6
<1>3. Up(L)
  <2>1. L \in 0 .. L
    BY <1>0
  <2> HIDE DEF G, L
  <2>2. L \in G
    BY <1>0, <1>1, <1>2, <2>1, CountUp
  <2> QED BY <2>2 DEF G
<1> DEFINE w == CHOOSE w : w = [n \in 0 .. L |-> IF n = 0 THEN acc ELSE PathStep(w[n - 1], path[n])]
<1>4. w = [n \in 0 .. L |-> IF n = 0 THEN acc ELSE PathStep(w[n - 1], path[n])]
  BY <1>3
<1>5. GEP(t, path) = w[L]
  BY DEF GEP, PathStep, PathStart, acc
<1> HIDE DEF w, L
<1>6. w[0] = acc /\ \A n \in 1 .. L : w[n] = PathStep(w[n - 1], path[n])
  BY <1>0, <1>4
<1> QED BY <1>5, <1>6 DEF L, acc

\* What a hit is resolved to: nothing only for a pointer to void that is an
\* element, and a composite type only if that is the IR type, too.
LEMMA Resolved ==
  ASSUME NEW hit \in HitType, lower[hit.type] # NoType,
         hit.member => stripTypedef[hit.type] = lower[hit.type]
  PROVE  LET to == resolveDerivedTypeBaseType(hit)
         IN  \/ ~ hit.member /\ Tag(hit.type) = "pointer" /\ to = stripTypedef[Base(hit.type)]
             \/ to # NoType /\ (Composite(to) => to = lower[hit.type])
<1> DEFINE to == resolveDerivedTypeBaseType(hit)
           t == hit.type
<1>1. t \in Node /\ t \in OptNode /\ t # NoType /\ Base(t) \in OptNode /\ lower[t] # NoType
  <2>1. t \in Node
    BY DEF HitType
  <2> QED BY <2>1, NodeFacts DEF OptNode
<1>2. CASE hit.member
  <2>1. to = stripTypedef[t]
    BY <1>2 DEF resolveDerivedTypeBaseType
  <2> QED BY <1>1, <1>2, <2>1
<1>3. CASE ~ hit.member /\ ~ Derived(t)
  <2>1. to = stripTypedef[t]
    BY <1>3 DEF resolveDerivedTypeBaseType
  <2>2. Tag(t) \notin {"typedef", "const"}
    BY <1>1, <1>3 DEF Derived
  <2>3. stripTypedef[t] = t
    BY <1>1, <2>2, Strips DEF GoesPast, Behind
  <2>4. lower[t] = t
    BY <1>1, <2>2, LowerOf
  <2> QED BY <1>1, <2>1, <2>3, <2>4
<1>4. CASE ~ hit.member /\ Derived(t)
  <2>1. to = stripTypedef[Base(t)]
    BY <1>4 DEF resolveDerivedTypeBaseType
  <2>2. CASE Tag(t) = "pointer"
    BY <1>4, <2>1, <2>2
  <2>3. CASE Tag(t) \in {"typedef", "const"}
    <3>1. lower[t] = lower[Base(t)]
      BY <1>1, <2>3, LowerOf
    <3>2. to = NoType \/ Tag(to) # "const" => lower[Base(t)] = to
      BY <1>1, <2>1, StrippedIsLowered
    <3> QED BY <1>1, <3>1, <3>2 DEF Composite
  <2> QED BY <1>1, <1>4, <2>2, <2>3 DEF Derived
<1> QED BY <1>2, <1>3, <1>4

\* acc has come along the first n names of the path of f: g is what is left of f,
\* and u is the IR type it is a field of, d bytes behind the start.
Left(acc, t, f, n, u, g, d) ==
  /\ acc.at \in {NoType, u}
  /\ Walk(Pos(t, 0), Tail(acc.hits)) = Pos(u, d)
  /\ f.offset = d + g.offset /\ g.exposed /\ g.type = f.type
  /\ Len(f.path) = n + Len(g.path) /\ \A k \in 1 .. Len(g.path) : g.path[k] = f.path[n + k]

Along(acc, t, f, n) ==
  \/ acc.hits = << >>
  \/ /\ acc.hits \in Seq(HitType) /\ acc.hits # << >> /\ ~ acc.crashed
     /\ \E u \in Node : \E g \in fieldsOf[u], d \in Nat :
          Tag(u) \notin {"typedef", "const"} /\ Left(acc, t, f, n, u, g, d)

\* The answer for the path of f: if it is not empty, then it is the hits that
\* lead to f, or that of a null pointer behind an array of pointers to void.
Answers(gep, t, f) ==
  \/ gep.hits = << >>
  \/ /\ gep.crashed /\ Last(f.path) \in DOMAIN stoi
     /\ Tag(f.type) = "pointer" /\ stripTypedef[Base(f.type)] = NoType
  \/ /\ ~ gep.crashed
     /\ Last(gep.hits).type = f.type
     /\ Last(gep.hits).member <=> Last(f.path) \notin DOMAIN stoi
     /\ \E u : GEP2Offset(t, gep.hits) = Pos(u, f.offset)

\* The hits with those of one more name.
LEMMA OneMore ==
  ASSUME NEW a \in Seq(HitType), a # << >>, NEW b \in Seq(HitType), b # << >>, NEW acc
  PROVE  /\ a \o b \in Seq(HitType) /\ a \o b # << >> /\ Last(a \o b) = Last(b)
         /\ Last(b) \in HitType
         /\ Walk(acc, Tail(a \o b)) = Walk(Walk(acc, Tail(a)), b)
<1>1. a \o b \in Seq(HitType) /\ a \o b # << >> /\ Last(a \o b) = Last(b) /\ Last(b) \in HitType
  BY DEF Last
<1>2. Tail(a) \in Seq(HitType) /\ Tail(a \o b) = Tail(a) \o b
  OBVIOUS
<1> DEFINE c == Tail(a)
<1>3. c \in Seq(HitType)
  BY <1>2
<1> HIDE DEF c
<1>4. Walk(acc, c \o b) = Walk(Walk(acc, c), b)
  BY <1>3, WalkOn
<1> QED BY <1>1, <1>2, <1>4 DEF c

\* What the next name comes to, if the answer is not empty.
NextHits(sub, u, g) == sub \in Seq(HitType) /\ Reaches(sub, u, g)

Resumes(new, acc, sub) ==
  LET to == resolveDerivedTypeBaseType(Last(sub))
  IN  new = [at |-> IF Composite(to) THEN to ELSE NoType, hits |-> acc.hits \o sub,
             crashed |-> to = NoType]

LEMMA NextName ==
  ASSUME NEW t \in Node, NEW f \in fieldsOf[t], NEW n \in Nat, NEW acc, acc.hits # << >>, ~ acc.crashed,
         NEW u \in Node, Tag(u) \notin {"typedef", "const"}, NEW g \in fieldsOf[u], NEW d \in Nat,
         Left(acc, t, f, n, u, g, d)
  PROVE  \/ PathStep(acc, f.path[n + 1]).hits = << >>
         \/ \E sub : NextHits(sub, u, g) /\ Resumes(PathStep(acc, f.path[n + 1]), acc, sub)
<1> DEFINE name == f.path[n + 1]
           sub == IF acc.at = NoType THEN << >> ELSE GEP2MemberInfo(acc.at, name)
<1>1. PathStep(acc, name) = follow(acc, sub)
  BY DEF PathStep
<1>2. /\ u \in OptNode /\ Len(g.path) \in Nat \ {0} /\ g.path[1] \in Names /\ g.exposed
      /\ g.path[1] = name
  <2>1. u \in OptNode
    BY DEF OptNode
  <2>2. Len(g.path) \in Nat \ {0} /\ g.path[1] \in Names
    BY <2>1, FieldFacts
  <2>3. 1 \in 1 .. Len(g.path)
    BY <2>2
  <2> QED BY <2>1, <2>2, <2>3 DEF Left
<1>3. CASE sub = << >>
  <2>1. PathStep(acc, name) = [acc EXCEPT !.hits = << >>]
    BY <1>1, <1>3 DEF follow
  <2>2. [acc EXCEPT !.hits = << >>].hits = << >>
    BY DEF Left
  <2> QED BY <2>1, <2>2
<1>4. CASE sub # << >>
  <2>1. acc.at = u /\ sub = GEP2MemberInfo(u, name)
    BY <1>4 DEF Left
  <2>2. name \in Names
    BY <1>2
  <2>3. PICK found : Finds(found, name)
    BY <2>2, SearchEquation
  <2>4. Reaches(found[u], u, g)
    BY <1>2, <2>2, <2>3, NameReaches
  <2>5. sub = found[u] /\ sub \in Seq(HitType)
    BY <2>1, <2>3 DEF Finds
  <2> HIDE DEF sub
  <2>6. NextHits(sub, u, g)
    BY <2>4, <2>5 DEF NextHits
  <2>7. Resumes(PathStep(acc, name), acc, sub)
    BY <1>1, <1>4 DEF follow, Resumes
  <2> QED BY <2>6, <2>7
<1> QED BY <1>3, <1>4

WalksOn(new, hits, sub) ==
  \A start : Walk(start, Tail(new)) = Walk(Walk(start, Tail(hits)), sub)

LEMMA Resumed ==
  ASSUME NEW acc, acc.hits \in Seq(HitType), acc.hits # << >>, NEW u, NEW g, NEW sub, NextHits(sub, u, g),
         NEW new, Resumes(new, acc, sub)
  PROVE  LET to == resolveDerivedTypeBaseType(Last(sub))
         IN  /\ new.hits \in Seq(HitType) /\ new.hits # << >> /\ Last(new.hits) = Last(sub)
             /\ Last(sub) \in HitType
             /\ WalksOn(new.hits, acc.hits, sub)
             /\ new.at = IF Composite(to) THEN to ELSE NoType
             /\ new.crashed <=> to = NoType
<1>1. sub \in Seq(HitType) /\ sub # << >>
  BY DEF NextHits, Reaches
<1> DEFINE to == resolveDerivedTypeBaseType(Last(sub))
           hits == acc.hits
<1>2. new = [at |-> IF Composite(to) THEN to ELSE NoType, hits |-> hits \o sub, crashed |-> to = NoType]
  BY DEF Resumes
<1>3. hits \in Seq(HitType) /\ hits # << >>
  OBVIOUS
<1> HIDE DEF to, hits
<1>4. /\ new.hits = hits \o sub /\ new.at = IF Composite(to) THEN to ELSE NoType
      /\ new.crashed <=> to = NoType
  BY <1>2
<1>5. /\ hits \o sub \in Seq(HitType) /\ hits \o sub # << >> /\ Last(hits \o sub) = Last(sub)
      /\ Last(sub) \in HitType
  BY <1>1, <1>3, OneMore
<1>6. ASSUME NEW start PROVE Walk(start, Tail(hits \o sub)) = Walk(Walk(start, Tail(hits)), sub)
  BY <1>1, <1>3, OneMore
<1>7. WalksOn(new.hits, hits, sub)
  BY <1>4, <1>6 DEF WalksOn
<1> QED BY <1>4, <1>5, <1>7 DEF to, hits

\* A name that is not the last one.
LEMMA GoesAlong ==
  ASSUME NEW t \in Node, NEW f \in fieldsOf[t], NEW n \in Nat, NEW acc, Along(acc, t, f, n),
         n + 1 < Len(f.path)
  PROVE  Along(PathStep(acc, f.path[n + 1]), t, f, n + 1)
<1> DEFINE new == PathStep(acc, f.path[n + 1])
<1>1. CASE acc.hits = << >>
  BY <1>1 DEF PathStep, Along
<1>2. CASE acc.hits # << >>
  <2>1. acc.hits \in Seq(HitType) /\ ~ acc.crashed
    BY <1>2 DEF Along
  <2>a. PICK u \in Node : \E g \in fieldsOf[u], d \in Nat :
          Tag(u) \notin {"typedef", "const"} /\ Left(acc, t, f, n, u, g, d)
    BY <1>2 DEF Along
  <2>2. PICK g \in fieldsOf[u], d \in Nat :
          Tag(u) \notin {"typedef", "const"} /\ Left(acc, t, f, n, u, g, d)
    BY <2>a
  <2>3. CASE new.hits = << >>
    BY <2>3 DEF Along
  <2>4. CASE new.hits # << >>
    <3>1. PICK sub : NextHits(sub, u, g) /\ Resumes(new, acc, sub)
      BY <1>2, <2>1, <2>2, <2>4, NextName
    <3> DEFINE hit == Last(sub)
               to == resolveDerivedTypeBaseType(hit)
               v == lower[hit.type]
    <3>2. sub \in Seq(HitType) /\ sub # << >>
      BY <3>1 DEF NextHits, Reaches
    <3>3. Len(g.path) # 1
      BY <2>2 DEF Left
    <3>4. (hit.member => stripTypedef[hit.type] = v) /\ GoesOn(sub, u, g)
      BY <3>1, <3>3 DEF NextHits, Reaches
    <3>5. PICK h \in fieldsOf[hit.type], c \in Nat :
            /\ Further(g, h, c)
            /\ \A o \in Nat : Walk(Pos(u, o), sub) = Pos(v, o + c)
      BY <3>4 DEF GoesOn
    <3>6. /\ new.hits \in Seq(HitType) /\ new.hits # << >> /\ hit \in HitType
          /\ Walk(Pos(t, 0), Tail(new.hits)) = Walk(Walk(Pos(t, 0), Tail(acc.hits)), sub)
      <4> HIDE DEF new, to
      <4>1. /\ new.hits \in Seq(HitType) /\ new.hits # << >> /\ Last(new.hits) = Last(sub)
            /\ Last(sub) \in HitType
        BY <1>2, <2>1, <3>1, Resumed
      <4>2. WalksOn(new.hits, acc.hits, sub)
        BY <1>2, <2>1, <3>1, Resumed
      <4> QED BY <4>1, <4>2 DEF WalksOn
    <3>7. new.at = (IF Composite(to) THEN to ELSE NoType) /\ (new.crashed <=> to = NoType)
      BY <1>2, <2>1, <3>1, Resumed
    <3> HIDE DEF hit, to, new
    <3>8. /\ hit.type \in Node /\ hit.type \in OptNode /\ fieldsOf[hit.type] = fieldsOf[v]
          /\ v \in OptNode
      <4>1. hit.type \in Node
        BY <3>6 DEF HitType
      <4> QED BY <4>1, LowerOf, FieldsOfLower DEF OptNode
    <3>9. v # NoType /\ v \in Node /\ Tag(v) \notin {"typedef", "const"}
      <4>1. fieldsOf[NoType] = {}
        BY FieldsEquation DEF FieldsBy, OptNode
      <4>2. v # NoType
        BY <3>5, <3>8, <4>1
      <4> QED BY <3>8, <4>2, LowerOf
    <3>10. Tag(hit.type) # "pointer"
      BY <3>5, <3>8, NoFields
    <3>11. to # NoType /\ (Composite(to) => to = v)
      BY <3>4, <3>6, <3>9, <3>10, Resolved DEF to
    <3>12. d + c \in Nat /\ h.offset \in Nat
      <4>1. h.offset \in Nat
        BY <3>5, <3>8, FieldFacts
      <4> QED BY <3>5, <4>1
    <3>13. Left(new, t, f, n + 1, v, h, d + c)
      <4>1. new.at \in {NoType, v}
        BY <3>7, <3>11
      <4>2. Walk(Pos(t, 0), Tail(new.hits)) = Pos(v, d + c)
        BY <2>2, <3>5, <3>6 DEF Left
      <4>3. f.offset = (d + c) + h.offset /\ h.exposed /\ h.type = f.type
        <5>1. f.offset = d + g.offset /\ g.offset = c + h.offset
          BY <2>2, <3>5 DEF Left, Further
        <5>2. f.offset = (d + c) + h.offset
          <6> DEFINE o == h.offset
          <6>1. f.offset = d + (c + o) /\ o \in Nat
            BY <3>12, <5>1
          <6> HIDE DEF o
          <6>2. d + (c + o) = (d + c) + o
            BY <6>1
          <6> QED BY <6>1, <6>2 DEF o
        <5> QED BY <2>2, <3>5, <5>2 DEF Left, Further
      <4>4. /\ Len(f.path) = (n + 1) + Len(h.path)
            /\ \A k \in 1 .. Len(h.path) : h.path[k] = f.path[(n + 1) + k]
        <5>0. Len(h.path) \in Nat
          BY <3>5, <3>8, FieldFacts
        <5>1. Len(h.path) \in Nat /\ Len(g.path) = Len(h.path) + 1
          BY <3>5, <5>0 DEF Further
        <5>2. ASSUME NEW k \in 1 .. Len(h.path) PROVE h.path[k] = f.path[(n + 1) + k]
          <6>1. k + 1 \in 1 .. Len(g.path) /\ n + (k + 1) = (n + 1) + k
            BY <5>1
          <6>2. h.path[k] = g.path[k + 1]
            BY <3>5 DEF Further
          <6>3. g.path[k + 1] = f.path[n + (k + 1)]
            BY <2>2, <6>1 DEF Left
          <6> QED BY <6>1, <6>2, <6>3
        <5>3. Len(f.path) = n + Len(g.path)
          BY <2>2 DEF Left
        <5>4. Len(f.path) = (n + 1) + Len(h.path)
          <6> DEFINE l == Len(h.path)
          <6>1. Len(f.path) = n + (l + 1) /\ l \in Nat
            BY <5>1, <5>3
          <6> HIDE DEF l
          <6>2. n + (l + 1) = (n + 1) + l
            BY <6>1
          <6> QED BY <6>1, <6>2 DEF l
        <5> QED BY <5>2, <5>4
      <4> QED BY <4>1, <4>2, <4>3, <4>4 DEF Left
    <3> HIDE DEF v
    <3>14. ~ new.crashed
      BY <3>7, <3>11
    <3>15. h \in fieldsOf[v]
      BY <3>5, <3>8
    <3>16. Along(new, t, f, n + 1)
      BY <3>6, <3>9, <3>12, <3>13, <3>14, <3>15 DEF Along
    <3> QED BY <3>16 DEF new
  <2> QED BY <2>3, <2>4
<1> QED BY <1>1, <1>2

\* The last name.
LEMMA Arrives ==
  ASSUME NEW t \in Node, NEW f \in fieldsOf[t], NEW n \in Nat, NEW acc, Along(acc, t, f, n),
         n + 1 = Len(f.path)
  PROVE  Answers(PathStep(acc, f.path[n + 1]), t, f)
<1> DEFINE new == PathStep(acc, f.path[n + 1])
<1>1. CASE acc.hits = << >>
  BY <1>1 DEF PathStep, Answers
<1>2. CASE acc.hits # << >>
  <2>1. acc.hits \in Seq(HitType) /\ ~ acc.crashed
    BY <1>2 DEF Along
  <2>a. PICK u \in Node : \E g \in fieldsOf[u], d \in Nat :
          Tag(u) \notin {"typedef", "const"} /\ Left(acc, t, f, n, u, g, d)
    BY <1>2 DEF Along
  <2>2. PICK g \in fieldsOf[u], d \in Nat :
          Tag(u) \notin {"typedef", "const"} /\ Left(acc, t, f, n, u, g, d)
    BY <2>a
  <2>3. CASE new.hits = << >>
    BY <2>3 DEF Answers
  <2>4. CASE new.hits # << >>
    <3>1. PICK sub : NextHits(sub, u, g) /\ Resumes(new, acc, sub)
      BY <1>2, <2>1, <2>2, <2>4, NextName
    <3> DEFINE hit == Last(sub)
               to == resolveDerivedTypeBaseType(hit)
    <3>2. sub \in Seq(HitType) /\ sub # << >>
      BY <3>1 DEF NextHits, Reaches
    <3>a. u \in OptNode /\ Len(g.path) \in Nat \ {0} /\ g.offset \in Nat
      <4>1. u \in OptNode
        BY DEF OptNode
      <4> QED BY <4>1, FieldFacts
    <3>3. Len(g.path) = 1
      <4> DEFINE l == Len(g.path)
      <4>1. n + 1 = n + l /\ l \in Nat
        BY <2>2, <3>a DEF Left
      <4> HIDE DEF l
      <4>2. l = 1
        BY <4>1
      <4> QED BY <4>2 DEF l
    <3>4. /\ hit.type = f.type /\ Ends(sub, u, g)
          /\ hit.member <=> g.path[1] \notin DOMAIN stoi
      BY <2>2, <3>1, <3>3 DEF NextHits, Reaches, Left
    <3>5. g.path[1] = Last(f.path)
      <4>1. g.path[1] = f.path[n + 1]
        <5>1. 1 \in 1 .. Len(g.path)
          BY <3>3
        <5> QED BY <2>2, <5>1 DEF Left
      <4> QED BY <4>1 DEF Last
    <3>6. /\ Last(new.hits) = hit /\ hit \in HitType
          /\ Walk(Pos(t, 0), Tail(new.hits)) = Walk(Walk(Pos(t, 0), Tail(acc.hits)), sub)
      <4> HIDE DEF new, to
      <4>1. /\ new.hits \in Seq(HitType) /\ new.hits # << >> /\ Last(new.hits) = Last(sub)
            /\ Last(sub) \in HitType
        BY <1>2, <2>1, <3>1, Resumed
      <4>2. WalksOn(new.hits, acc.hits, sub)
        BY <1>2, <2>1, <3>1, Resumed
      <4> QED BY <4>1, <4>2 DEF WalksOn
    <3>7. new.crashed <=> to = NoType
      BY <1>2, <2>1, <3>1, Resumed
    <3>8. lower[f.type] # NoType
      BY FieldFacts DEF OptNode
    <3>9. \E v : GEP2Offset(t, new.hits) = Pos(v, f.offset)
      <4>1. Walk(Pos(t, 0), Tail(acc.hits)) = Pos(u, d) /\ f.offset = d + g.offset
        BY <2>2 DEF Left
      <4>2. \E v : Walk(Pos(u, d), sub) = Pos(v, d + g.offset)
        BY <3>4 DEF Ends
      <4>3. GEP2Offset(t, new.hits) = Walk(Pos(t, 0), Tail(new.hits))
        BY DEF GEP2Offset, Pos
      <4> QED BY <3>6, <4>1, <4>2, <4>3
    <3> HIDE DEF hit, to, new
    <3>10. ASSUME to # NoType PROVE Answers(new, t, f)
      <4>1. ~ new.crashed /\ Last(new.hits).type = f.type
        BY <3>4, <3>6, <3>7, <3>10
      <4>2. Last(new.hits).member <=> Last(f.path) \notin DOMAIN stoi
        BY <3>4, <3>5, <3>6
      <4> QED BY <3>9, <4>1, <4>2 DEF Answers
    <3>11. ASSUME to = NoType PROVE Answers(new, t, f)
      <4>1. CASE hit.member
        \* A member is resolved to its own type, which is complete.
        <5>1. to = stripTypedef[f.type]
          BY <3>4, <4>1 DEF to, resolveDerivedTypeBaseType
        <5>2. lower[f.type] = NoType
          BY <3>4, <3>6, <3>11, <5>1, StrippedIsLowered DEF HitType, OptNode
        <5> QED BY <3>8, <5>2
      <4>2. CASE ~ hit.member
        <5>1. Tag(f.type) = "pointer" /\ stripTypedef[Base(f.type)] = NoType
          BY <3>4, <3>6, <3>8, <3>11, <4>2, Resolved DEF to
        <5>2. Last(f.path) \in DOMAIN stoi
          BY <3>4, <3>5, <4>2
        <5> QED BY <3>7, <3>11, <5>1, <5>2 DEF Answers
      <4> QED BY <4>1, <4>2
    <3>12. Answers(new, t, f)
      BY <3>10, <3>11
    <3> QED BY <3>12 DEF new
  <2> QED BY <2>3, <2>4
<1> QED BY <1>1, <1>2

\* The indices that the debug info has for the path of a field of a struct lead
\* to the field.
LEMMA FieldReached ==
  ASSUME NEW t \in Node, Tag(t) \notin {"typedef", "const"}, NEW f \in fieldsOf[t], f.exposed
  PROVE  Answers(GEP(t, f.path), t, f)
<1>1. f.path \in Seq(Names) /\ Len(f.path) \in Nat \ {0} /\ f.offset \in Nat
  BY FieldFacts DEF OptNode
<1> DEFINE L == Len(f.path)
<1>2. PICK w : /\ GEP(t, f.path) = w[L] /\ w[0] = PathStart(t)
               /\ \A n \in 1 .. L : w[n] = PathStep(w[n - 1], f.path[n])
  <2> DEFINE path == f.path
  <2>1. path \in Seq(Names)
    BY <1>1
  <2> HIDE DEF path
  <2>2. \E w : /\ GEP(t, path) = w[Len(path)] /\ w[0] = PathStart(t)
               /\ \A n \in 1 .. Len(path) : w[n] = PathStep(w[n - 1], path[n])
    BY <2>1, PathWalks
  <2> QED BY <2>2 DEF path
<1> DEFINE G == {n \in 0 .. L - 1 : Along(w[n], t, f, n)}
<1>3. 0 \in G
  <2> DEFINE hit == Hit(0, t, FALSE)
             acc == PathStart(t)
  <2>1. hit \in HitType
    BY DEF Hit, HitType, Indexes
  <2>2. acc.hits = <<hit>> /\ acc.at = t /\ ~ acc.crashed
    BY DEF PathStart
  <2> HIDE DEF hit
  <2>3. <<hit>> \in Seq(HitType) /\ <<hit>> # << >> /\ Tail(<<hit>>) = << >>
    BY <2>1
  <2>4. Walk(Pos(t, 0), << >>) = Pos(t, 0)
    BY WalkNone
  <2>5. Left(acc, t, f, 0, t, f, 0)
    <3>1. Walk(Pos(t, 0), Tail(acc.hits)) = Pos(t, 0)
      BY <2>2, <2>3, <2>4
    <3>2. f.offset = 0 + f.offset /\ Len(f.path) = 0 + Len(f.path)
      BY <1>1
    <3>3. \A k \in 1 .. Len(f.path) : f.path[k] = f.path[0 + k]
      OBVIOUS
    <3> HIDE DEF acc
    <3> QED BY <2>2, <3>1, <3>2, <3>3 DEF Left
  <2> HIDE DEF acc
  <2>6. 0 \in Nat
    OBVIOUS
  <2>7. Along(acc, t, f, 0)
    BY <2>2, <2>3, <2>5, <2>6 DEF Along
  <2> QED BY <1>1, <1>2, <2>7 DEF acc
<1>4. ASSUME NEW n \in 1 .. L - 1, n - 1 \in G PROVE n \in G
  <2> DEFINE k == n - 1
  <2>1. k \in Nat /\ k + 1 = n /\ n \in 1 .. L /\ k + 1 < Len(f.path)
    BY <1>1
  <2>2. w[n] = PathStep(w[k], f.path[k + 1]) /\ Along(w[k], t, f, k)
    BY <1>2, <1>4, <2>1
  <2> HIDE DEF k
  <2>3. Along(w[n], t, f, n)
    BY <2>1, <2>2, GoesAlong
  <2> QED BY <1>4, <2>3
<1>5. Along(w[L - 1], t, f, L - 1)
  <2>1. L - 1 \in Nat /\ L - 1 \in 0 .. L - 1
    BY <1>1
  <2>2. 0 .. L - 1 \subseteq G
    <3> DEFINE m == L - 1
    <3>1. m \in Nat /\ 0 \in G /\ \A n \in 1 .. m : n - 1 \in G => n \in G
      BY <1>3, <1>4, <2>1
    <3>2. G \subseteq 0 .. m
      OBVIOUS
    <3> HIDE DEF m, G
    <3>3. 0 .. m \subseteq G
      BY <3>1, <3>2, CountUp
    <3> QED BY <3>3 DEF m
  <2> QED BY <2>1, <2>2
<1>6. w[L] = PathStep(w[L - 1], f.path[L])
  BY <1>1, <1>2
<1> DEFINE k == L - 1
<1>7. k \in Nat /\ k + 1 = Len(f.path) /\ Along(w[k], t, f, k) /\ w[L] = PathStep(w[k], f.path[k + 1])
  BY <1>1, <1>5, <1>6
<1> HIDE DEF k
<1>8. Answers(w[L], t, f)
  BY <1>7, Arrives
<1> QED BY <1>2, <1>8

-----------------------------------------------------------------------------
\* Where fields are: each path is of one field, which lies within its type.

Alone(fs) == \A f, g \in fs : f.path = g.path => f = g

InPart(f, fs, name, offset, t, exposed) ==
  ItsOwn(f, name, offset, t) \/ \E g \in fs : Outer(f, g, name, offset, exposed)

LEMMA SameField ==
  ASSUME NEW f \in FieldType, NEW g \in FieldType, f.path = g.path, f.offset = g.offset,
         f.size = g.size, f.type = g.type, f.exposed = g.exposed
  PROVE  f = g
BY DEF FieldType

\* What a name stands in front of.
LEMMA NameInFront ==
  ASSUME NEW name \in Names, NEW p \in Seq(Names), NEW q \in Seq(Names), p # << >>
  PROVE  /\ <<name>> # <<name>> \o p /\ (<<name>> \o p)[1] = name
         /\ <<name>> \o p = <<name>> \o q => p = q
<1>1. /\ Len(<<name>> \o p) = Len(p) + 1 /\ (<<name>> \o p)[1] = name
      /\ \A k \in 1 .. Len(p) : (<<name>> \o p)[k + 1] = p[k]
  BY InFront
<1>2. /\ Len(<<name>> \o q) = Len(q) + 1
      /\ \A k \in 1 .. Len(q) : (<<name>> \o q)[k + 1] = q[k]
  BY InFront
<1>3. Len(p) \in Nat \ {0} /\ Len(q) \in Nat /\ Len(<<name>>) = 1
  OBVIOUS
<1> DEFINE pp == <<name>> \o p
           qq == <<name>> \o q
<1> HIDE DEF pp, qq
<1>4. ASSUME pp = qq PROVE p = q
  <2>1. Len(p) = Len(q)
    BY <1>1, <1>2, <1>3, <1>4 DEF pp, qq
  <2>2. \A k \in 1 .. Len(p) : p[k] = q[k]
    BY <1>1, <1>2, <1>4, <2>1 DEF pp, qq
  <2> QED BY <2>1, <2>2
<1>5. <<name>> # <<name>> \o p
  BY <1>1, <1>3
<1> QED BY <1>1, <1>4, <1>5 DEF pp, qq

LEMMA SamePart ==
  ASSUME NEW fs \in SUBSET FieldType, Alone(fs), NEW name \in Names, NEW offset, NEW t, NEW exposed,
         NEW f \in FieldType, NEW g \in FieldType, f.path = g.path,
         InPart(f, fs, name, offset, t, exposed), InPart(g, fs, name, offset, t, exposed)
  PROVE  f = g
<1>1. \A h \in FieldType : h.path \in Seq(Names) /\ h.path # << >> /\ h.exposed \in BOOLEAN
  BY DEF FieldType
<1>2. ASSUME NEW a, NEW b, ItsOwn(a, name, offset, t), NEW h \in fs, Outer(b, h, name, offset, exposed)
      PROVE  a.path # b.path
  BY <1>1, <1>2, NameInFront DEF ItsOwn, Outer
<1>3. CASE ItsOwn(f, name, offset, t) /\ ItsOwn(g, name, offset, t)
  <2>1. f.exposed = g.exposed
    BY <1>1, <1>3 DEF ItsOwn
  <2> QED BY <1>3, <2>1, SameField DEF ItsOwn
<1>4. CASE /\ \E h \in fs : Outer(f, h, name, offset, exposed)
           /\ \E h \in fs : Outer(g, h, name, offset, exposed)
  <2>1. PICK h \in fs : Outer(f, h, name, offset, exposed)
    BY <1>4
  <2>2. PICK k \in fs : Outer(g, k, name, offset, exposed)
    BY <1>4
  <2>3. h.path = k.path
    <3>1. h.path \in Seq(Names) /\ h.path # << >> /\ k.path \in Seq(Names)
      BY <1>1
    <3>2. CASE name = NoName
      BY <2>1, <2>2, <3>2 DEF Outer
    <3>3. CASE name # NoName
      <4> DEFINE p == h.path
                 q == k.path
      <4>1. <<name>> \o p = <<name>> \o q
        BY <2>1, <2>2, <3>3 DEF Outer
      <4>2. p \in Seq(Names) /\ p # << >> /\ q \in Seq(Names)
        BY <3>1
      <4> HIDE DEF p, q
      <4>3. p = q
        BY <4>1, <4>2, NameInFront
      <4> QED BY <4>3 DEF p, q
    <3> QED BY <3>2, <3>3
  <2>4. h = k
    BY <2>3 DEF Alone
  <2> QED BY <2>1, <2>2, <2>4, SameField DEF Outer
<1> QED BY <1>2, <1>3, <1>4 DEF InPart

\* The name of an element stands first in the path.
LEMMA PartBegins ==
  ASSUME NEW fs \in SUBSET FieldType, NEW name \in Names, name # NoName, NEW offset, NEW t, NEW exposed,
         NEW f, InPart(f, fs, name, offset, t, exposed)
  PROVE  f.path[1] = name
<1>1. \A h \in FieldType : h.path \in Seq(Names) /\ h.path # << >>
  BY DEF FieldType
<1>2. CASE ItsOwn(f, name, offset, t)
  BY <1>2 DEF ItsOwn
<1>3. CASE \E h \in fs : Outer(f, h, name, offset, exposed)
  BY <1>1, <1>3, NameInFront DEF Outer
<1> QED BY <1>2, <1>3 DEF InPart

LEMMA FieldsAlone == \A t \in OptNode : Alone(fieldsOf[t])
<1> DEFINE G == {t \in OptNode : Alone(fieldsOf[t])}
<1>1. ASSUME NEW t \in OptNode, Inside[t] \subseteq G PROVE Alone(fieldsOf[t])
  <2>1. CASE t = NoType
    BY <2>1, FieldsEquation DEF FieldsBy, Alone
  <2>2. CASE t # NoType /\ Tag(t) \in {"typedef", "const"}
    <3>1. t \in Node /\ fieldsOf[t] = fieldsOf[Base(t)]
      BY <2>2, FieldsEquation DEF FieldsBy, OptNode
    <3>2. Base(t) \in G
      BY <1>1, <2>2, <3>1, Inner
    <3> QED BY <3>1, <3>2
  <2>3. CASE t # NoType /\ Tag(t) = "array"
    <3> DEFINE b == Base(t)
               o(s) == stoi[s] * Size(b)
    <3>1. t \in Node
      BY <2>3 DEF OptNode
    <3>2. b \in G /\ fieldsOf[b] \in SUBSET FieldType
      <4>1. b \in G
        BY <1>1, <2>3, <3>1, Inner
      <4> QED BY <4>1, FieldsEquation
    <3>3. ASSUME NEW f \in fieldsOf[t], NEW g \in fieldsOf[t], f.path = g.path PROVE f = g
      <4>1. PICK s \in DOMAIN stoi : InPart(f, fieldsOf[b], s, o(s), b, TRUE)
        BY <2>3, <3>1, FieldOfArray DEF InPart
      <4>2. PICK r \in DOMAIN stoi : InPart(g, fieldsOf[b], r, o(r), b, TRUE)
        BY <2>3, <3>1, FieldOfArray DEF InPart
      <4>3. s \in Names /\ s # NoName /\ r \in Names /\ r # NoName
        BY <2>3, <3>1, ElementFacts
      <4> DEFINE fs == fieldsOf[b]
                 os == o(s)
      <4>4. f \in FieldType /\ g \in FieldType /\ Alone(fs) /\ fs \in SUBSET FieldType
        BY <3>2, FieldsEquation
      <4> HIDE DEF fs, o, b
      <4>5. s = r
        <5>1. f.path[1] = s
          BY <4>1, <4>3, <4>4, PartBegins DEF fs
        <5>2. g.path[1] = r
          BY <4>2, <4>3, <4>4, PartBegins DEF fs
        <5> QED BY <3>3, <5>1, <5>2
      <4>6. InPart(f, fs, s, os, b, TRUE) /\ InPart(g, fs, s, os, b, TRUE)
        BY <4>1, <4>2, <4>5 DEF fs
      <4> HIDE DEF os
      <4> QED BY <3>3, <4>3, <4>4, <4>6, SamePart
    <3> QED BY <3>3 DEF Alone
  <2>4. CASE t # NoType /\ Tag(t) \notin {"typedef", "const", "array"}
    <3>1. t \in Node /\ fieldsOf[t] = UNION {Member(t, i) : i \in DOMAIN Elements(t)}
      BY <2>4, FieldOfMember DEF OptNode
    <3>2. ASSUME NEW f \in fieldsOf[t], NEW g \in fieldsOf[t], f.path = g.path PROVE f = g
      <4>1. PICK i \in DOMAIN Elements(t) : f \in Member(t, i)
        BY <3>1
      <4>2. PICK j \in DOMAIN Elements(t) : g \in Member(t, j)
        BY <3>1
      <4>3. i = j
        <5>1. f.path[1] \in namesOf(t, i) /\ g.path[1] \in namesOf(t, j)
          BY <4>1, <4>2 DEF namesOf, Member
        <5> QED BY <3>1, <3>2, <5>1, ScopeAssumption DEF ScopeAssumption
      <4> DEFINE m == Elements(t)[i]
                 fs == fieldsOf[m.base]
                 e == SameInIR(t, i, m.base)
      <4>4. m.base \in G /\ m.base \in OptNode /\ m.name \in Names
        <5>1. m.base \in G
          BY <1>1, <3>1, Inner
        <5> QED BY <3>1, <5>1, MemberFacts
      <4>5. fs \in SUBSET FieldType /\ Alone(fs) /\ f \in FieldType /\ g \in FieldType
        BY <4>4, FieldsEquation
      <4>6. Comprises(Member(t, i), fs, m.name, m.offset, m.base, e)
        BY <3>1, MemberOf
      <4> HIDE DEF fs, e, m, G
      <4>7. InPart(f, fs, m.name, m.offset, m.base, e) /\ InPart(g, fs, m.name, m.offset, m.base, e)
        BY <4>1, <4>2, <4>3, <4>6 DEF Comprises, InPart
      <4> QED BY <3>2, <4>4, <4>5, <4>7, SamePart
    <3> QED BY <3>2 DEF Alone
  <2> QED BY <2>1, <2>2, <2>3, <2>4
<1>2. OptNode \subseteq G
  <2>1. \A t \in OptNode : Inside[t] \subseteq G => t \in G
    BY <1>1
  <2> HIDE DEF G
  <2> QED BY <2>1, InsideDescends, Descent
<1> QED BY <1>2

\* The size of a type is that of what it is a name for.
LEMMA SizeOfLower ==
  \A t \in OptNode : lower[t] # NoType => Size(t) = Size(lower[t]) /\ Size(t) \in Nat
<1> SUFFICES ASSUME NEW t \in OptNode, lower[t] # NoType
             PROVE  Size(t) = Size(lower[t]) /\ Size(t) \in Nat
  OBVIOUS
<1>1. lower[lower[t]] = lower[t] /\ lower[t] \in Node
  BY LowerOf
<1> QED BY <1>1, SizeAssumption DEF SizeAssumption, Size

\* An element ends before its array does.
LEMMA ElementFits ==
  ASSUME NEW count \in Nat, NEW size \in Nat, NEW s \in DOMAIN stoi, stoi[s] < count
  PROVE  stoi[s] * size + size <= count * size
<1>1. stoi[s] \in {0, 1, 2}
  <2>1. DOMAIN stoi = {"0", "1", "2"} /\ stoi["0"] = 0 /\ stoi["1"] = 1 /\ stoi["2"] = 2
    BY DEF stoi
  <2> QED BY <2>1
<1> DEFINE k == stoi[s]
           d == count - (k + 1)
<1>2. k \in Nat /\ d \in Nat /\ count = d + (k + 1)
  BY <1>1
<1> HIDE DEF k, d
<1>3. (d + (k + 1)) * size = d * size + (k * size + size)
  BY <1>2
<1>4. d * size \in Nat /\ k * size \in Nat
  BY <1>2
<1>5. k * size + size <= count * size
  BY <1>2, <1>3, <1>4
<1> QED BY <1>5 DEF k

Inscribed(fs, size) == \A f \in fs : f.offset + f.size <= size

\* What is in a part fits where the part does.
LEMMA PartFits ==
  ASSUME NEW fs \in SUBSET FieldType, NEW name, NEW offset \in Nat, NEW t \in OptNode,
         lower[t] # NoType, NEW exposed, NEW f, InPart(f, fs, name, offset, t, exposed),
         Inscribed(fs, Size(t)), NEW size \in Nat, offset + Size(t) <= size
  PROVE  f.offset + f.size <= size
<1>1. Size(t) \in Nat
  BY SizeOfLower
<1>2. CASE ItsOwn(f, name, offset, t)
  BY <1>2 DEF ItsOwn
<1>3. CASE \E g \in fs : Outer(f, g, name, offset, exposed)
  <2>1. PICK g \in fs : Outer(f, g, name, offset, exposed)
    BY <1>3
  <2>2. g.offset + g.size <= Size(t) /\ g.offset \in Nat /\ g.size \in Nat
    BY DEF Inscribed, FieldType
  <2>3. f.offset = offset + g.offset /\ f.size = g.size
    BY <2>1 DEF Outer
  <2> QED BY <1>1, <2>2, <2>3
<1> QED BY <1>2, <1>3 DEF InPart

LEMMA FieldsFit == \A t \in OptNode : Inscribed(fieldsOf[t], Size(t))
<1> DEFINE G == {t \in OptNode : Inscribed(fieldsOf[t], Size(t))}
<1>1. ASSUME NEW t \in OptNode, Inside[t] \subseteq G PROVE Inscribed(fieldsOf[t], Size(t))
  <2>1. CASE t = NoType
    BY <2>1, FieldsEquation DEF FieldsBy, Inscribed
  <2>2. CASE t # NoType /\ Tag(t) \in {"typedef", "const"}
    <3>1. t \in Node /\ fieldsOf[t] = fieldsOf[Base(t)]
      BY <2>2, FieldsEquation DEF FieldsBy, OptNode
    <3>2. Base(t) \in G
      BY <1>1, <2>2, <3>1, Inner
    <3>3. Size(t) = Size(Base(t))
      BY <2>2, LowerOf DEF Size
    <3> QED BY <3>1, <3>2, <3>3
  <2>3. CASE t # NoType /\ Tag(t) = "array"
    <3> DEFINE b == Base(t)
               o(s) == stoi[s] * Size(b)
    <3>1. t \in Node /\ lower[t] = t
      BY <2>3, LowerOf DEF OptNode
    <3>2. b \in G /\ b \in OptNode /\ fieldsOf[b] \in SUBSET FieldType
      <4>1. b \in G
        BY <1>1, <2>3, <3>1, Inner
      <4> QED BY <4>1, FieldsEquation
    <3>3. /\ lower[b] # NoType /\ Size(b) \in Nat /\ Types[t].count \in Nat
          /\ Size(t) = Types[t].count * Size(b) /\ Size(t) \in Nat
      <4>1. lower[b] # NoType
        BY <2>3, <3>1, FormAssumption DEF FormAssumption
      <4> QED BY <2>3, <3>1, <3>2, <4>1, SizeOfLower, SizeAssumption DEF SizeAssumption, Size
    <3>4. ASSUME NEW f \in fieldsOf[t] PROVE f.offset + f.size <= Size(t)
      <4>1. PICK s \in DOMAIN stoi :
              stoi[s] < Types[t].count /\ InPart(f, fieldsOf[b], s, o(s), b, TRUE)
        BY <2>3, <3>1, FieldOfArray DEF InPart
      <4>2. o(s) \in Nat
        BY <2>3, <3>1, ElementFacts
      <4>3. o(s) + Size(b) <= Size(t)
        BY <3>3, <4>1, ElementFits
      <4> DEFINE fs == fieldsOf[b]
                 os == o(s)
      <4>4. fs \in SUBSET FieldType /\ Inscribed(fs, Size(b)) /\ InPart(f, fs, s, os, b, TRUE)
        BY <3>2, <4>1
      <4>5. os \in Nat /\ os + Size(b) <= Size(t)
        BY <4>2, <4>3
      <4> HIDE DEF fs, os, o, b
      <4> QED BY <3>2, <3>3, <4>4, <4>5, PartFits
    <3> QED BY <3>4 DEF Inscribed
  <2>4. CASE t # NoType /\ Tag(t) \notin {"typedef", "const", "array"}
    <3>1. t \in Node /\ lower[t] = t /\ fieldsOf[t] = UNION {Member(t, i) : i \in DOMAIN Elements(t)}
      BY <2>4, FieldOfMember, LowerOf DEF OptNode
    <3>2. ASSUME NEW f \in fieldsOf[t] PROVE f.offset + f.size <= Size(t)
      <4>1. PICK i \in DOMAIN Elements(t) : f \in Member(t, i)
        BY <3>1
      <4> DEFINE m == Elements(t)[i]
                 fs == fieldsOf[m.base]
                 e == SameInIR(t, i, m.base)
                 b == m.base
                 o == m.offset
      <4>2. /\ b \in G /\ b \in OptNode /\ lower[b] # NoType /\ o \in Nat /\ Aggregate(t)
        <5>1. b \in G
          BY <1>1, <3>1, Inner
        <5> QED BY <3>1, <5>1, MemberFacts
      <4>3. o + Size(b) <= Size(t) /\ Size(t) \in Nat
        <5>1. t \in {u \in Node : Aggregate(u)} /\ t \in OptNode
          BY <3>1, <4>2
        <5>2. Size(t) \in Nat
          BY <2>4, <3>1, <5>1, SizeOfLower
        <5> QED BY <5>1, <5>2, LayoutAssumption DEF LayoutAssumption
      <4>4. fs \in SUBSET FieldType /\ Inscribed(fs, Size(b))
        BY <4>2, FieldsEquation
      <4>5. Comprises(Member(t, i), fs, m.name, o, b, e)
        BY <3>1, MemberOf
      <4>6. InPart(f, fs, m.name, o, b, e)
        BY <4>1, <4>5 DEF Comprises, InPart
      <4> HIDE DEF fs, e, m, G, b, o
      <4> QED BY <4>2, <4>3, <4>4, <4>6, PartFits
    <3> QED BY <3>2 DEF Inscribed
  <2> QED BY <2>1, <2>2, <2>3, <2>4
<1>2. OptNode \subseteq G
  <2>1. \A t \in OptNode : Inside[t] \subseteq G => t \in G
    BY <1>1
  <2> HIDE DEF G
  <2> QED BY <2>1, InsideDescends, Descent
<1> QED BY <1>2

-----------------------------------------------------------------------------
\* The basic type a type comes down to.

\* One step down or two.
Below[t \in OptNode] == Inside[t] \cup UNION {Inside[u] : u \in Inside[t]}

LEMMA BelowDescends == Descends(Below, OptNode)
<1>1. Inside \in [OptNode -> SUBSET OptNode]
  BY InsideDescends DEF Descends
<1>2. Below \in [OptNode -> SUBSET OptNode]
  BY <1>1 DEF Below
<1>3. ASSUME NEW T \in SUBSET OptNode, T # {} PROVE \E t \in T : Below[t] \cap T = {}
  <2> DEFINE S == T \cup {t \in OptNode : Inside[t] \cap T # {}}
  <2>1. PICK t \in S : Inside[t] \cap S = {}
    <3>1. S \in SUBSET OptNode /\ S # {}
      BY <1>3
    <3> HIDE DEF S
    <3> QED BY <3>1, InsideDescends DEF Descends
  <2>2. t \in T /\ t \in OptNode
    BY <2>1
  <2>3. \A u \in Inside[t] : u \in OptNode /\ u \notin T /\ Inside[u] \cap T = {}
    BY <1>1, <2>1, <2>2
  <2>4. Below[t] \cap T = {}
    BY <2>2, <2>3 DEF Below
  <2> QED BY <2>2, <2>4
<1> QED BY <1>2, <1>3 DEF Descends

Basics == {b \in Node : Tag(b) = "basic"} \cup {NoType}

\* toBasicType of a type, from that of what is below.
DerivedFrom(t) == IF Derived(t) THEN Base(t) ELSE t

BasicBy(t, h) ==
  IF t = NoType \/ Aggregate(t) \/ Tag(t) = "pointer" THEN NoType
  ELSE IF DerivedFrom(t) = NoType THEN NoType
  ELSE IF Tag(DerivedFrom(t)) = "basic" THEN DerivedFrom(t)
  ELSE IF Tag(DerivedFrom(t)) = "array" THEN h[Base(DerivedFrom(t))]
  ELSE IF Derived(DerivedFrom(t)) THEN h[DerivedFrom(t)] ELSE NoType

\* What it asks for.
LEMMA AskedBelow ==
  ASSUME NEW t \in OptNode, t # NoType, Tag(t) # "pointer", DerivedFrom(t) # NoType
  PROVE  /\ DerivedFrom(t) \in Node
         /\ Tag(DerivedFrom(t)) = "array" => Base(DerivedFrom(t)) \in Below[t]
         /\ Derived(DerivedFrom(t)) => DerivedFrom(t) \in Below[t]
<1>1. t \in Node /\ Below[t] = Inside[t] \cup UNION {Inside[u] : u \in Inside[t]}
  BY DEF Below, OptNode
<1>2. \A u \in Node : Tag(u) \in {"typedef", "const", "array"} => Base(u) \in Inside[u]
  BY Inner
<1>3. CASE Derived(t)
  <2>1. DerivedFrom(t) = Base(t) /\ Tag(t) \in {"typedef", "const"}
    BY <1>3 DEF DerivedFrom, Derived
  <2>2. DerivedFrom(t) \in Inside[t] /\ DerivedFrom(t) \in Node
    BY <1>1, <1>2, <2>1, NodeFacts DEF OptNode
  <2> QED BY <1>1, <1>2, <2>2
<1>4. CASE ~ Derived(t)
  BY <1>1, <1>2, <1>4 DEF DerivedFrom
<1> QED BY <1>3, <1>4

LEMMA BasicOf ==
  /\ \A t \in OptNode : toBasicType[t] \in Basics
  /\ \A t \in OptNode : t = NoType \/ Tag(t) = "pointer" => toBasicType[t] = NoType
<1> DEFINE V == Basics
           step == [x \in OptNode \X [OptNode -> V] |-> BasicBy(x[1], x[2])]
<1>1. ASSUME NEW t \in OptNode, NEW h \in [OptNode -> V]
      PROVE  step[<<t, h>>] = BasicBy(t, h) /\ BasicBy(t, h) \in V
  <2>1. /\ DerivedFrom(t) # NoType /\ t # NoType /\ Tag(t) # "pointer" /\ Tag(DerivedFrom(t)) = "basic"
             => DerivedFrom(t) \in V
        /\ NoType \in V
    BY AskedBelow DEF Basics
  <2>2. \A u \in Below[t] : h[u] \in V
    BY BelowDescends DEF Descends
  <2>3. BasicBy(t, h) \in V
    <3> HIDE DEF V
    <3> QED BY <2>1, <2>2, AskedBelow DEF BasicBy
  <2> HIDE DEF V
  <2> QED BY <2>3
<1>2. Follows(step, Below, OptNode, V)
  <2>1. step \in [OptNode \X [OptNode -> V] -> V]
    <3>1. \A x \in OptNode \X [OptNode -> V] : BasicBy(x[1], x[2]) \in V
      <4> HIDE DEF V
      <4> QED BY <1>1
    <3> QED BY <3>1
  <2>2. ASSUME NEW t \in OptNode, NEW h \in [OptNode -> V], NEW g \in [OptNode -> V],
               \A u \in Below[t] : h[u] = g[u]
        PROVE  step[<<t, h>>] = step[<<t, g>>]
    <3>1. BasicBy(t, h) = BasicBy(t, g)
      BY <2>2, AskedBelow DEF BasicBy
    <3> HIDE DEF V, step
    <3> QED BY <1>1, <3>1
  <2> HIDE DEF step, V
  <2> QED BY <2>1, <2>2 DEF Follows
<1>3. PICK h \in [OptNode -> V] : \A t \in OptNode : h[t] = step[<<t, h>>]
  <2>1. V # {}
    BY DEF Basics
  <2> HIDE DEF step, V
  <2>2. Solvable(step, OptNode, V)
    BY <1>2, <2>1, BelowDescends, Recursion
  <2> QED BY <2>2 DEF Solvable
<1>4. h = [t \in OptNode |-> BasicBy(t, h)]
  <2>1. \A t \in OptNode : h[t] = BasicBy(t, h)
    BY <1>1, <1>3
  <2> HIDE DEF V
  <2> QED BY <2>1
<1>5. toBasicType = [t \in OptNode |-> BasicBy(t, toBasicType)]
  <2> HIDE DEF step, V
  <2> QED BY <1>4 DEF toBasicType, BasicBy, DerivedFrom
<1> DEFINE G == {t \in OptNode : toBasicType[t] \in Basics}
<1>6. ASSUME NEW t \in OptNode, Below[t] \subseteq G PROVE t \in G
  <2>1. toBasicType[t] = BasicBy(t, toBasicType)
    BY <1>5
  <2>2. \A u \in Below[t] : toBasicType[u] \in Basics
    BY <1>6
  <2>3. DerivedFrom(t) # NoType /\ t # NoType /\ Tag(t) # "pointer" /\ Tag(DerivedFrom(t)) = "basic"
          => DerivedFrom(t) \in Basics
    BY AskedBelow DEF Basics
  <2>4. NoType \in Basics
    BY DEF Basics
  <2>5. BasicBy(t, toBasicType) \in Basics
    BY <2>2, <2>3, <2>4, AskedBelow DEF BasicBy
  <2> QED BY <2>1, <2>5
<1>7. OptNode \subseteq G
  <2> HIDE DEF G
  <2> QED BY <1>6, BelowDescends, Descent
<1>8. \A t \in OptNode : t = NoType \/ Tag(t) = "pointer" => toBasicType[t] = NoType
  BY <1>5 DEF BasicBy
<1> QED BY <1>7, <1>8

\* A field that is converted as a pointer has the size of one, and is so if its own
\* type is one, or the type its elements point to.
LEMMA PointerSize ==
  ASSUME NEW t \in OptNode, NEW f \in fieldsOf[t], NEW member \in BOOLEAN,
         NEW u, u = resolveDerivedTypeBaseType(Hit(0, f.type, member)), u # NoType, Tag(u) = "pointer"
  PROVE  f.size = PtrSize /\ u \in Node
<1>1. f.type \in Node /\ f.type \in OptNode /\ lower[f.type] # NoType /\ f.size = Size(f.type)
  BY FieldFacts DEF OptNode
<1>2. \A p \in Node : Tag(p) = "pointer" => Types[p].size = PtrSize /\ lower[p] = p
  BY SizeAssumption, LowerOf DEF SizeAssumption, OptNode
<1> DEFINE b == IF ~ member /\ Derived(f.type) THEN Base(f.type) ELSE f.type
<1>3. u = stripTypedef[b]
  BY DEF resolveDerivedTypeBaseType, Hit
<1>4. b \in OptNode
  BY <1>1, NodeFacts DEF OptNode
<1>5. u \in OptNode /\ lower[b] = u /\ u \in Node
  <2> HIDE DEF b
  <2>1. u \in OptNode
    BY <1>3, <1>4, Strips DEF GoesPast
  <2>2. lower[b] = u
    BY <1>3, <1>4, StrippedIsLowered
  <2> QED BY <2>1, <2>2 DEF OptNode
<1>6. CASE b = f.type
  BY <1>1, <1>2, <1>5, <1>6 DEF Size
<1>7. CASE b = Base(f.type) /\ Derived(f.type)
  <2>1. CASE Tag(f.type) = "pointer"
    BY <1>1, <1>2, <1>5, <2>1 DEF Size
  <2>2. CASE Tag(f.type) \in {"typedef", "const"}
    <3>1. lower[f.type] = u
      BY <1>1, <1>5, <1>7, <2>2, LowerOf
    <3> QED BY <1>1, <1>2, <1>5, <3>1 DEF Size
  <2> QED BY <1>7, <2>1, <2>2 DEF Derived
<1> QED BY <1>5, <1>6, <1>7

-----------------------------------------------------------------------------
\* What is written for a value, and what is read from that.

\* A number or a string of the client's.
IsText(data) == data.kind = "str"
Datum(data) ==
  \/ data \in {Num("1"), Num("-1"), Num("max")}
  \/ data.value \in Nat /\ data = Text(data.value)

IsBytes(new) == new.kind = "bytes"

LEMMA MaxOfTwo ==
  ASSUME NEW a \in Int, NEW b \in Int
  PROVE  Max({a, b}) = (IF a >= b THEN a ELSE b) /\ Max({a, b}) \in Int
<1> DEFINE m == IF a >= b THEN a ELSE b
           S == {a, b}
<1>1. m \in S /\ m \in Int /\ \A x \in S : m >= x
  OBVIOUS
<1>2. \A x \in S : (\A y \in S : x >= y) => x = m
  OBVIOUS
<1>3. Max(S) = m
  <2> HIDE DEF m, S
  <2>1. Max(S) = CHOOSE x \in S : \A y \in S : x >= y
    BY DEF Max
  <2> QED BY <1>1, <1>2, <2>1
<1> QED BY <1>1, <1>3

LEMMA MinOfTwo ==
  ASSUME NEW a \in Int, NEW b \in Int
  PROVE  Min({a, b}) = (IF a <= b THEN a ELSE b)
<1> DEFINE m == IF a <= b THEN a ELSE b
           S == {a, b}
<1>1. m \in S /\ m \in Int /\ \A x \in S : m <= x
  OBVIOUS
<1>2. \A x \in S : (\A y \in S : x <= y) => x = m
  OBVIOUS
<1> HIDE DEF m, S
<1>3. Min(S) = CHOOSE x \in S : \A y \in S : x <= y
  BY DEF Min
<1>4. Min(S) = m
  BY <1>1, <1>2, <1>3
<1> QED BY <1>4 DEF m, S

LEMMA FillOf ==
  ASSUME NEW b \in Nat, NEW n \in Nat
  PROVE  /\ Fill(b, n) \in Seq(Nat) /\ Len(Fill(b, n)) = n
         /\ \A i \in 1 .. n : Fill(b, n)[i] = b
BY DEF Fill

\* A string and what it is padded by.
Padded(v, size) == Fill(Letter, v) \o Fill(0, Max({0, size - v}))

LEMMA PaddedOf ==
  ASSUME NEW v \in Nat, NEW size \in Nat
  PROVE  LET n == IF size >= v THEN size ELSE v
         IN  /\ Padded(v, size) \in Seq(Nat) /\ Len(Padded(v, size)) = n
             /\ \A i \in 1 .. n : Padded(v, size)[i] = IF i <= v THEN Letter ELSE 0
<1> DEFINE n == IF size >= v THEN size ELSE v
           d == Max({0, size - v})
           a == Fill(Letter, v)
           z == Fill(0, d)
<1>1. d \in Nat /\ v + d = n
  <2>1. 0 \in Int /\ size - v \in Int
    OBVIOUS
  <2> QED BY <2>1, MaxOfTwo
<1>2. a \in Seq(Nat) /\ Len(a) = v /\ \A i \in 1 .. v : a[i] = Letter
  BY FillOf DEF Letter
<1>3. z \in Seq(Nat) /\ Len(z) = d /\ \A i \in 1 .. d : z[i] = 0
  <2> HIDE DEF d
  <2> QED BY <1>1, FillOf
<1>4. Padded(v, size) = a \o z
  BY DEF Padded
<1> HIDE DEF a, z, d
<1>5. a \o z \in Seq(Nat) /\ Len(a \o z) = v + d
  BY <1>2, <1>3
<1>6. ASSUME NEW i \in 1 .. v + d PROVE (a \o z)[i] = IF i <= v THEN Letter ELSE 0
  <2>1. CASE i <= v
    BY <1>1, <1>2, <1>3, <2>1
  <2>2. CASE ~ (i <= v)
    <3>1. i - v \in 1 .. d
      BY <1>1, <2>2
    <3>2. (a \o z)[i] = z[i - v]
      BY <1>1, <1>2, <1>3, <2>2
    <3> QED BY <1>3, <2>2, <3>1, <3>2
  <2> QED BY <2>1, <2>2
<1> QED BY <1>1, <1>4, <1>5, <1>6

LEMMA NumberOf ==
  ASSUME NEW v, NEW n \in Nat
  PROVE  Number(v, n) \in Seq(Nat) /\ Len(Number(v, n)) = n
BY DEF Number, Fill

\* The forms of what is written.
Truth(bt) == bt = "bool"
Characters(bt) == bt = "char"
Unknowable(bt) == bt = "unknown"

Forms(new, data, bt, size) ==
  \/ Truth(bt) /\ new.bytes = <<1>>
  \/ Characters(bt) /\ IsText(data) /\ new.bytes = Padded(data.value, size)
  \/ ~ IsText(data) /\ ~ Truth(bt) /\ Pack(bt) > 0 /\ Fits(data.value, bt) /\ new.bytes = Number(data.value, Pack(bt))

LEMMA PackFacts ==
  ASSUME NEW bt
  PROVE  /\ PtrSize \in {4, 8} /\ Pack(bt) \in {0, 1, 2, 4, 8}
         /\ Truth(bt) => Pack(bt) = 1
         /\ Characters(bt) => Pack(bt) = 0
<1>1. PtrSize \in {4, 8}
  BY WidthAssumption DEF WidthAssumption
<1> QED BY <1>1 DEF Pack, Pack_Native, Truth, Characters

LEMMA DatumFacts ==
  ASSUME NEW data, Datum(data)
  PROVE  /\ IsText(data) => data.value \in Nat /\ data = Text(data.value)
         /\ ~ IsText(data) => data = Num(data.value) /\ data.kind = "int"
                              /\ data \in {Num("1"), Num("-1"), Num("max")}
BY DEF Datum, IsText, Num, Text

LEMMA BytesOf ==
  ASSUME NEW data, Datum(data), NEW bt, NEW size \in Nat, NEW new, new = toBytes(data, bt, size),
         IsBytes(new)
  PROVE  Forms(new, data, bt, size) /\ ~ Unknowable(bt)
<1> DEFINE fits == data.kind = "int" /\ Fits(data.value, bt)
<1>1. new = CASE bt = "unknown" -> Nothing
              [] bt = "bool" -> Bytes(<<1>>)
              [] bt = "char" /\ data.kind = "str" -> Bytes(Padded(data.value, size))
              [] bt # "bool" /\ Pack(bt) > 0 /\ fits -> Bytes(Number(data.value, Pack(bt)))
              [] OTHER -> Raised
  BY DEF toBytes, Padded
<1>2. new # Nothing /\ new # Raised
  BY DEF IsBytes, Nothing, Raised
<1> HIDE DEF fits
<1>a. \A b : Bytes(b).bytes = b
  BY DEF Bytes
<1>3. \/ bt = "bool" /\ new = Bytes(<<1>>)
      \/ bt = "char" /\ data.kind = "str" /\ new = Bytes(Padded(data.value, size))
      \/ bt # "bool" /\ Pack(bt) > 0 /\ fits /\ new = Bytes(Number(data.value, Pack(bt)))
  BY <1>1, <1>2
<1>4. bt # "unknown"
  <2>1. ASSUME bt = "unknown" PROVE FALSE
    <3>1. new = Nothing
      BY <2>1 DEF toBytes, Pack, Pack_Native
    <3> QED BY <1>2, <3>1
  <2> QED BY <2>1
<1>5. fits => data.kind = "int" /\ Fits(data.value, bt)
  BY DEF fits
<1>6. fits => ~ IsText(data)
  BY <1>5 DEF IsText
<1>7. data.kind = "str" => IsText(data)
  BY DEF IsText
<1>8. CASE bt = "bool" /\ new = Bytes(<<1>>)
  BY <1>4, <1>8, <1>a DEF Forms, Truth, Unknowable
<1>9. CASE bt = "char" /\ data.kind = "str" /\ new = Bytes(Padded(data.value, size))
  BY <1>4, <1>7, <1>9, <1>a DEF Forms, Characters, Unknowable
<1>10. CASE bt # "bool" /\ Pack(bt) > 0 /\ fits /\ new = Bytes(Number(data.value, Pack(bt)))
  BY <1>4, <1>5, <1>6, <1>10, <1>a DEF Forms, Truth, Unknowable
<1> QED BY <1>3, <1>8, <1>9, <1>10

\* As many bytes as the field has, or as a string that is too long.
Reach(data, size) == IF IsText(data) THEN Max({data.value, size}) ELSE size

LEMMA BytesFit ==
  ASSUME NEW data, Datum(data), NEW bt, NEW size \in Nat, NEW n \in Nat, size <= n, Pack(bt) <= n,
         NEW new, new = toBytes(data, bt, size), IsBytes(new)
  PROVE  new.bytes \in Seq(Nat) /\ Len(new.bytes) <= Reach(data, n) /\ Reach(data, n) \in Nat
         /\ n <= Reach(data, n)
<1>1. Forms(new, data, bt, size) /\ Pack(bt) \in Nat /\ (Truth(bt) => Pack(bt) = 1)
  BY BytesOf, PackFacts
<1>2. IsText(data) => data.value \in Nat
  BY DatumFacts
<1>3. Reach(data, n) = IF IsText(data) THEN (IF data.value >= n THEN data.value ELSE n) ELSE n
  <2>1. CASE IsText(data)
    <3> DEFINE v == data.value
    <3>1. v \in Int /\ n \in Int
      BY <1>2, <2>1
    <3> HIDE DEF v
    <3>2. Max({v, n}) = IF v >= n THEN v ELSE n
      BY <3>1, MaxOfTwo
    <3> QED BY <2>1, <3>2 DEF v, Reach
  <2>2. CASE ~ IsText(data)
    BY <2>2 DEF Reach
  <2> QED BY <2>1, <2>2
<1>4. Reach(data, n) \in Nat /\ n <= Reach(data, n) /\ (IsText(data) => data.value <= Reach(data, n))
  BY <1>2, <1>3
<1>5. CASE Truth(bt) /\ new.bytes = <<1>>
  <2>1. <<1>> \in Seq(Nat) /\ Len(<<1>>) = 1
    OBVIOUS
  <2> QED BY <1>1, <1>4, <1>5, <2>1
<1>6. CASE IsText(data) /\ new.bytes = Padded(data.value, size)
  <2> DEFINE v == data.value
  <2>1. v \in Nat
    BY <1>2, <1>6
  <2> HIDE DEF v
  <2>2. Padded(v, size) \in Seq(Nat) /\ Len(Padded(v, size)) = IF size >= v THEN size ELSE v
    BY <2>1, PaddedOf
  <2>3. new.bytes = Padded(v, size) /\ v <= Reach(data, n)
    BY <1>4, <1>6 DEF v
  <2> QED BY <1>4, <2>1, <2>2, <2>3
<1>7. CASE ~ IsText(data) /\ new.bytes = Number(data.value, Pack(bt))
  <2> DEFINE w == Pack(bt)
             v == data.value
  <2>1. w \in Nat /\ w <= n /\ new.bytes = Number(v, w)
    BY <1>1, <1>7
  <2> HIDE DEF w, v
  <2>2. Number(v, w) \in Seq(Nat) /\ Len(Number(v, w)) = w
    BY <2>1, NumberOf
  <2> QED BY <1>4, <2>1, <2>2
<1> QED BY <1>1, <1>5, <1>6, <1>7 DEF Forms

\* The bytes begin with those.
Begin(bytes, new) == \A i \in 1 .. Len(bytes) : i <= Len(new) => bytes[i] = new[i]

\* A number is read by its width, with the sign that the reader has.
ReadAs(v, signed) == v = "1" \/ (v = "-1" /\ signed) \/ (v = "max" /\ ~ signed)

LEMMA SubSeqOf ==
  ASSUME NEW S, NEW s \in Seq(S), NEW n \in Nat, n <= Len(s)
  PROVE  /\ SubSeq(s, 1, n) \in Seq(S) /\ Len(SubSeq(s, 1, n)) = n
         /\ \A i \in 1 .. n : SubSeq(s, 1, n)[i] = s[i]
OBVIOUS

LEMMA ReadNumber ==
  ASSUME NEW S, NEW bytes \in Seq(S), NEW w \in Nat \ {0}, w <= Len(bytes), NEW v,
         Begin(bytes, Number(v, w)), NEW signed \in BOOLEAN, ReadAs(v, signed)
  PROVE  readNumber(bytes, w, signed) = Num(v)
<1> DEFINE read == SubSeq(bytes, 1, w)
<1>1. read \in Seq(S) /\ Len(read) = w /\ \A i \in 1 .. w : read[i] = bytes[i]
  BY SubSeqOf
<1>2. Number(v, w) \in Seq(Nat) /\ Len(Number(v, w)) = w
  BY NumberOf
<1>3. \A i \in 1 .. w : read[i] = Number(v, w)[i]
  BY <1>1, <1>2 DEF Begin
<1>4. readNumber(bytes, w, signed) =
        CASE Range(read) = {255} -> Num(IF signed THEN "-1" ELSE "max")
          [] Range(read) = {0} -> Num("0")
          [] read = Number("1", Len(read)) -> Num("1")
          [] OTHER -> Num("other")
  BY DEF readNumber
<1> HIDE DEF read
<1>5. Range(read) = {read[i] : i \in 1 .. w} /\ 1 \in 1 .. w
  <2>1. DOMAIN read = 1 .. w
    BY <1>1
  <2> QED BY <2>1 DEF Range
<1>6. CASE v = "1"
  <2>1. Number("1", w) \in Seq(Nat) /\ Len(Number("1", w)) = w
    BY NumberOf
  <2>2. read = Number("1", Len(read))
    BY <1>1, <1>3, <1>6, <2>1
  <2>3. read[1] = 1
    BY <1>3, <1>5, <1>6 DEF Number
  <2>4. Range(read) # {255} /\ Range(read) # {0}
    <3>1. 1 \in Range(read)
      BY <1>5, <2>3
    <3> QED BY <3>1
  <2> QED BY <1>4, <1>6, <2>2, <2>4
<1>7. CASE v # "1"
  <2>1. \A i \in 1 .. w : read[i] = 255
    BY <1>3, <1>7 DEF Number, Fill
  <2>2. Range(read) = {255}
    BY <1>5, <2>1
  <2>3. Range(read) # {0} /\ read[1] # 1
    BY <1>5, <2>1, <2>2
  <2>4. Number("1", w)[1] = 1
    BY <1>5 DEF Number
  <2>5. read # Number("1", Len(read))
    BY <1>1, <2>3, <2>4
  <2>6. readNumber(bytes, w, signed) = Num(IF signed THEN "-1" ELSE "max")
    BY <1>4, <2>2, <2>3, <2>5
  <2>7. v = IF signed THEN "-1" ELSE "max"
    BY <1>7 DEF ReadAs
  <2> QED BY <2>6, <2>7
<1> QED BY <1>6, <1>7

\* A string ends in front of the padding.
LEMMA ReadText ==
  ASSUME NEW S, NEW bytes \in Seq(S), NEW v \in Nat, NEW size \in Nat, Len(bytes) = size,
         Begin(bytes, Padded(v, size))
  PROVE  readText(bytes) = Text(Min({v, size}))
<1> DEFINE l == IF v <= size THEN v ELSE size
           m == IF size >= v THEN size ELSE v
           T == {i \in DOMAIN bytes : bytes[i] # 0}
           n == Max({0} \union T)
<1>1. l \in Nat /\ l <= size /\ l <= v /\ size <= m /\ m \in Nat
  OBVIOUS
<1>2. Len(Padded(v, size)) = m /\ \A i \in 1 .. m : Padded(v, size)[i] = IF i <= v THEN Letter ELSE 0
  BY PaddedOf
<1>3. ASSUME NEW i \in 1 .. size PROVE bytes[i] = IF i <= l THEN Letter ELSE 0
  <2>1. i \in 1 .. m /\ i <= Len(Padded(v, size))
    BY <1>1, <1>2
  <2>2. bytes[i] = Padded(v, size)[i]
    BY <2>1 DEF Begin
  <2>3. i <= v <=> i <= l
    OBVIOUS
  <2> QED BY <1>2, <2>1, <2>2, <2>3
<1> HIDE DEF l
<1>4. T = 1 .. l
  <2>1. DOMAIN bytes = 1 .. size
    OBVIOUS
  <2> QED BY <1>1, <1>3, <2>1 DEF Letter
<1> HIDE DEF T
<1>5. n = l
  <2> DEFINE ends == {0} \union T
  <2>1. l \in ends /\ \A x \in ends : l >= x /\ x \in Int
    BY <1>1, <1>4
  <2>2. \A x \in ends : (\A y \in ends : x >= y) => x = l
    BY <1>1, <2>1
  <2> HIDE DEF ends
  <2>3. Max(ends) = CHOOSE x \in ends : \A y \in ends : x >= y
    BY DEF Max
  <2> QED BY <2>1, <2>2, <2>3 DEF ends
<1>6. Range(SubSeq(bytes, 1, l)) \subseteq {Letter}
  <2>1. /\ SubSeq(bytes, 1, l) \in Seq(S) /\ Len(SubSeq(bytes, 1, l)) = l
        /\ \A i \in 1 .. l : SubSeq(bytes, 1, l)[i] = bytes[i]
    BY <1>1, SubSeqOf
  <2>2. DOMAIN SubSeq(bytes, 1, l) = 1 .. l
    BY <2>1
  <2>3. \A i \in 1 .. l : bytes[i] = Letter
    BY <1>1, <1>3
  <2> QED BY <2>1, <2>2, <2>3 DEF Range
<1>7. readText(bytes) = Text(IF Range(SubSeq(bytes, 1, n)) \subseteq {Letter} THEN n ELSE -1)
  BY DEF readText, T
<1> HIDE DEF n
<1>8. readText(bytes) = Text(l)
  BY <1>5, <1>6, <1>7
<1>9. Min({v, size}) = l
  <2>1. v \in Int /\ size \in Int
    OBVIOUS
  <2> QED BY <2>1, MinOfTwo DEF l
<1> QED BY <1>8, <1>9

\* The values that are not read as they were written: a number with the other sign,
\* a character, and a truth value.
Spoils(bt, size, data) ==
  \/ data = Num("max") /\ bt \in {"unsigned int", "unsigned long long"}
  \/ data = Num("max") /\ bt = "PTR" /\ PtrSize = 8
  \/ data = Num("-1") /\ bt = "short"
  \/ bt = "char" /\ size = 1
  \/ bt = "bool"

\* A number as it was written, and of a string what fits.
Back(got, data, size) == got = IF data.kind = "int" THEN data ELSE Text(Min({data.value, size}))

\* Any other comes back from the bytes of its field.
LEMMA ReadBack ==
  ASSUME NEW data, Datum(data), NEW bt, NEW size \in Nat, Pack(bt) <= size,
         Characters(bt) => size # 0,
         NEW new, new = toBytes(data, bt, size), IsBytes(new), ~ Spoils(bt, size, data),
         NEW S, NEW bytes \in Seq(S), Len(bytes) = size, Begin(bytes, new.bytes)
  PROVE  Back(fromBytes(bytes, bt, data.kind), data, size)
<1>1. Forms(new, data, bt, size) /\ ~ Unknowable(bt)
  BY BytesOf
<1>2. PtrSize \in {4, 8} /\ Pack(bt) \in {0, 1, 2, 4, 8}
  BY PackFacts
<1>3. ~ Truth(bt)
  BY DEF Spoils, Truth
<1>4. CASE Characters(bt) /\ IsText(data) /\ new.bytes = Padded(data.value, size)
  <2>1. bt = "char" /\ size > 1
    BY <1>4 DEF Characters, Spoils
  <2>2. data.value \in Nat /\ data.kind # "int"
    BY <1>4, DatumFacts DEF IsText
  <2> DEFINE v == data.value
  <2>3. v \in Nat /\ Begin(bytes, Padded(v, size))
    BY <1>4, <2>2
  <2> HIDE DEF v
  <2>4. readText(bytes) = Text(Min({v, size}))
    BY <2>3, ReadText
  <2>5. bytes # << >> /\ Len(bytes) > 1
    BY <2>1
  <2>6. fromBytes(bytes, bt, data.kind) = readText(bytes)
    <3>1. data.kind = "str"
      BY <1>4 DEF IsText
    <3> HIDE DEF IsText
    <3> QED BY <2>1, <2>5, <3>1 DEF fromBytes
  <2> QED BY <2>2, <2>4, <2>6 DEF v, Back
<1>5. CASE /\ ~ IsText(data) /\ ~ Truth(bt) /\ Pack(bt) > 0 /\ Fits(data.value, bt)
           /\ new.bytes = Number(data.value, Pack(bt))
  <2> DEFINE v == data.value
             w == Pack(bt)
  <2>1. data = Num(v) /\ data.kind = "int" /\ data \in {Num("1"), Num("-1"), Num("max")}
    BY <1>5, DatumFacts
  <2>2. v \in {"1", "-1", "max"}
    BY <2>1 DEF Num
  <2>3. w \in Nat \ {0} /\ w <= Len(bytes) /\ Begin(bytes, Number(v, w)) /\ bytes # << >>
    BY <1>2, <1>5
  <2>4. \A signed \in BOOLEAN : ReadAs(v, signed) => readNumber(bytes, w, signed) = data
    <3> HIDE DEF v, w
    <3> QED BY <2>1, <2>3, ReadNumber
  <2>5. \E signed \in BOOLEAN : ReadAs(v, signed) /\ fromBytes(bytes, bt, data.kind) = readNumber(bytes, w, signed)
    <3>1. bt \in {"PTR", "unsigned char", "unsigned short", "short", "int", "unsigned int",
                  "unsigned long long", "long long"}
      <4>1. Pack(bt) > 0 /\ bt # "bool"
        BY <1>3, <1>5 DEF Truth
      <4>2. ASSUME bt # "PTR", bt # "unsigned char", bt # "unsigned short", bt # "short", bt # "int",
                   bt # "unsigned int", bt # "unsigned long long", bt # "long long"
            PROVE  FALSE
        <5>1. Pack(bt) = 0
          BY <4>1, <4>2 DEF Pack, Pack_Native
        <5> QED BY <4>1, <5>1
      <4> QED BY <4>2
    <3>2. Fits(v, bt) /\ data = Num(v)
      BY <1>5, <2>1
    <3> HIDE DEF v
    <3>3. CASE bt = "PTR"
      <4>1. w = PtrSize /\ fromBytes(bytes, bt, data.kind) = readNumber(bytes, PtrSize, PtrSize = 8)
        BY <2>3, <3>3 DEF fromBytes, Pack
      <4>2. ReadAs(v, PtrSize = 8)
        BY <1>2, <2>2, <3>2, <3>3 DEF ReadAs, Fits, Signed, Spoils
      <4> QED BY <4>1, <4>2
    <3>4. CASE bt = "unsigned char"
      <4>a. w = 1
        BY <3>4 DEF Pack, Pack_Native
      <4>b. fromBytes(bytes, bt, data.kind) = readNumber(bytes, 1, FALSE)
        <5>1. bytes # << >> /\ data.kind = "int"
          BY <2>1, <2>3
        <5> QED BY <3>4, <5>1 DEF fromBytes
      <4>1. w = 1 /\ fromBytes(bytes, bt, data.kind) = readNumber(bytes, 1, FALSE)
        BY <4>a, <4>b
      <4>2. ReadAs(v, FALSE)
        BY <2>2, <3>2, <3>4 DEF ReadAs, Fits, Signed, Spoils
      <4> QED BY <4>1, <4>2
    <3>5. CASE bt \in {"unsigned short", "short"}
      <4>1. w = 2 /\ fromBytes(bytes, bt, data.kind) = readNumber(bytes, 2, FALSE)
        BY <2>1, <2>3, <3>5 DEF fromBytes, Pack, Pack_Native
      <4>2. ReadAs(v, FALSE)
        BY <2>2, <3>2, <3>5 DEF ReadAs, Fits, Signed, Spoils
      <4> QED BY <4>1, <4>2
    <3>6. CASE bt \in {"unsigned int", "int"}
      <4>1. w = 4 /\ fromBytes(bytes, bt, data.kind) = readNumber(bytes, 4, TRUE)
        BY <2>1, <2>3, <3>6 DEF fromBytes, Pack, Pack_Native
      <4>2. ReadAs(v, TRUE)
        BY <2>2, <3>2, <3>6 DEF ReadAs, Fits, Signed, Spoils
      <4> QED BY <4>1, <4>2
    <3>7. CASE bt \in {"unsigned long long", "long long"}
      <4>1. w = 8 /\ fromBytes(bytes, bt, data.kind) = readNumber(bytes, 8, TRUE)
        BY <2>1, <2>3, <3>7 DEF fromBytes, Pack, Pack_Native
      <4>2. ReadAs(v, TRUE)
        BY <2>2, <3>2, <3>7 DEF ReadAs, Fits, Signed, Spoils
      <4> QED BY <4>1, <4>2
    <3> QED BY <3>1, <3>3, <3>4, <3>5, <3>6, <3>7
  <2> QED BY <2>1, <2>4, <2>5 DEF Back
<1> QED BY <1>1, <1>3, <1>4, <1>5 DEF Forms

-----------------------------------------------------------------------------
\* A number that is written to a field has room in it, unless the field is too
\* narrow for the type it is converted by.
LEMMA PackFits ==
  ASSUME NEW t \in OptNode, NEW f \in fieldsOf[t], ~ Narrow(f), NEW bt,
         bt = DIType2StringType(Converted(f))
  PROVE  /\ Pack(bt) <= f.size /\ f.size \in Nat
         /\ Characters(bt) => f.size # 0
<1> DEFINE u == Converted(f)
           b == toBasicType[u]
<1>1. f.size \in Nat /\ f.type \in Node /\ f.type \in OptNode
  BY FieldFacts DEF OptNode
<1>2. u \in OptNode
  <2> DEFINE v == IF Element(f) /\ Derived(f.type) THEN Base(f.type) ELSE f.type
  <2>1. u = stripTypedef[v]
    BY DEF Converted, resolveDerivedTypeBaseType, Hit
  <2>2. v \in OptNode
    BY <1>1, NodeFacts DEF OptNode
  <2> HIDE DEF u, v
  <2> QED BY <2>1, <2>2, Strips DEF GoesPast
<1>3. PtrSize \in {4, 8}
  BY PackFacts
<1>4. CASE u # NoType /\ Tag(u) = "pointer"
  <2>1. bt = "PTR"
    BY <1>4 DEF DIType2StringType
  <2>2. f.size = PtrSize
    <3> DEFINE member == ~ Element(f)
    <3>1. member \in BOOLEAN /\ u = resolveDerivedTypeBaseType(Hit(0, f.type, member))
      BY DEF Converted
    <3> HIDE DEF u, member
    <3> QED BY <1>4, <3>1, PointerSize
  <2> QED BY <1>1, <2>1, <2>2 DEF Pack, Characters
<1>5. CASE u = NoType \/ (Tag(u) # "pointer" /\ b = NoType)
  <2>1. bt = "unknown"
    BY <1>5 DEF DIType2StringType
  <2> QED BY <1>1, <2>1 DEF Pack, Pack_Native, Characters
<1>6. CASE u # NoType /\ Tag(u) # "pointer" /\ b # NoType
  <2>1. bt = Name(b) /\ b \in Basics
    BY <1>2, <1>6, BasicOf DEF DIType2StringType
  <2>2. b \in Node /\ Tag(b) = "basic" /\ b \in OptNode
    BY <1>6, <2>1 DEF Basics, OptNode
  <2>3. Size(b) = Types[b].size /\ Size(b) <= f.size
    <3>1. lower[b] = b
      BY <2>2, LowerOf, NodeFacts
    <3>2. Size(b) \in Nat
      BY <2>2, <3>1, SizeAssumption DEF SizeAssumption, Size
    <3>3. ~ (Size(b) > f.size)
      BY <1>6 DEF Narrow
    <3> HIDE DEF b
    <3> QED BY <1>1, <3>1, <3>2, <3>3 DEF Size
  <2> HIDE DEF b
  <2>4. /\ Name(b) # "PTR"
        /\ Name(b) \in {"bool", "char", "unsigned char"} => Types[b].size = 1
        /\ Name(b) \in {"short", "unsigned short"} => Types[b].size = 2
        /\ Name(b) \in {"int", "unsigned int"} => Types[b].size = 4
        /\ Name(b) \in {"long long", "unsigned long long"} => Types[b].size = 8
    BY <2>2, WidthAssumption DEF WidthAssumption
  <2> DEFINE size == Types[b].size
             n == f.size
  <2>5. size <= n /\ n \in Nat
    BY <1>1, <2>3
  <2>6. size \in Nat
    BY <2>2, SizeAssumption DEF SizeAssumption
  <2>7. /\ bt # "PTR"
        /\ bt \in {"bool", "char", "unsigned char"} => size = 1
        /\ bt \in {"short", "unsigned short"} => size = 2
        /\ bt \in {"int", "unsigned int"} => size = 4
        /\ bt \in {"long long", "unsigned long long"} => size = 8
    BY <2>1, <2>4
  <2> HIDE DEF size, n
  <2>8. Pack(bt) = 0 \/ Pack(bt) = size
    BY <2>7 DEF Pack, Pack_Native
  <2>9. Characters(bt) => n # 0
    BY <2>5, <2>7 DEF Characters
  <2>10. Pack(bt) <= n
    BY <2>5, <2>6, <2>8
  <2> QED BY <2>5, <2>9, <2>10 DEF n
<1> QED BY <1>4, <1>5, <1>6
===============================================================================

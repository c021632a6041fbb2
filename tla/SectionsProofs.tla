---------------------------- MODULE SectionsProofs ----------------------------
(***************************************************************************)
(* Proofs about Sections, for every module and every table of sections.    *)
(*                                                                         *)
(* While a finder is at work, what it has collected is the last global of  *)
(* each section name it accepts among those it has looked at.  When it is  *)
(* done, its array is that in order, which gives the properties of its     *)
(* array and its symbols; no other finder touches them.                    *)
(***************************************************************************)
EXTENDS Sections, DataLemmas, SequenceTheorems, TLAPS

-----------------------------------------------------------------------------
\* Sorting, and the finders.

LEMMA SortedInOrder ==
  ASSUME NEW S, NEW R, Orders(R, S)
  PROVE  InOrder(Sorted(S, R), R, S)
<1>1. PICK s : Arranges(s, R, S)
  BY Arrangement
<1>2. Arranges(Sorted(S, R), R, S)
  BY <1>1 DEF Arranges, Sorted
<1> QED BY <1>2, ArrangedInOrder

Finder == {ZephyrStaticSection(o) : o \in Static} \cup
          {ZephyrNativeSection(Native[i]) : i \in DOMAIN Native}

\* What a finder is, of either kind.
StaticFinder(f) ==
  /\ f.static = TRUE /\ f.object \in Static /\ f.levels = << >>
NativeFinder(f) ==
  /\ f.static = FALSE /\ f.object \notin Static
  /\ f.levels \in Seq(Range(f.levels)) /\ IsInjective(f.levels)
  /\ Range(f.levels) \cap {"", "start", "end"} = {}

LEMMA FinderKinds ==
  ASSUME NEW f \in Finder
  PROVE  StaticFinder(f) \/ NativeFinder(f)
<1>1. CASE \E o \in Static : f = ZephyrStaticSection(o)
  BY <1>1 DEF ZephyrStaticSection, StaticFinder
<1>2. CASE \E i \in DOMAIN Native : f = ZephyrNativeSection(Native[i])
  <2>1. PICK i \in DOMAIN Native : f = ZephyrNativeSection(Native[i])
    BY <1>2
  <2> DEFINE c == Native[i]
  <2>2. f.static = FALSE /\ f.object = c.object /\ f.levels = c.levels
    BY <2>1 DEF ZephyrNativeSection
  <2>3. /\ c.object \notin Static /\ c.levels \in Seq(Range(c.levels))
        /\ Range(c.levels) \cap {"", "start", "end"} = {}
        /\ \A l, m \in DOMAIN c.levels : c.levels[l] = c.levels[m] => l = m
    BY NativeAssumption
  <2> HIDE DEF c
  <2> QED BY <2>2, <2>3 DEF NativeFinder, IsInjective
<1> QED BY <1>1, <1>2 DEF Finder

\* A finder is known by its object.
LEMMA FinderObject ==
  ASSUME NEW f \in Finder, NEW g \in Finder, f.object = g.object
  PROVE  f = g
<1>1. CASE \E o \in Static : f = ZephyrStaticSection(o)
  <2>1. PICK o \in Static : f = ZephyrStaticSection(o)
    BY <1>1
  <2>2. f.object = o
    BY <2>1 DEF ZephyrStaticSection
  <2>3. CASE \E p \in Static : g = ZephyrStaticSection(p)
    <3>1. PICK p \in Static : g = ZephyrStaticSection(p)
      BY <2>3
    <3>2. g.object = p
      BY <3>1 DEF ZephyrStaticSection
    <3> QED BY <2>1, <2>2, <3>1, <3>2
  <2>4. CASE \E i \in DOMAIN Native : g = ZephyrNativeSection(Native[i])
    <3>1. PICK i \in DOMAIN Native : g = ZephyrNativeSection(Native[i])
      BY <2>4
    <3>2. g.object = Native[i].object
      BY <3>1 DEF ZephyrNativeSection
    <3> QED BY <2>2, <3>2, NativeAssumption
  <2> QED BY <2>3, <2>4 DEF Finder
<1>2. CASE \E i \in DOMAIN Native : f = ZephyrNativeSection(Native[i])
  <2>1. PICK i \in DOMAIN Native : f = ZephyrNativeSection(Native[i])
    BY <1>2
  <2>2. f.object = Native[i].object
    BY <2>1 DEF ZephyrNativeSection
  <2>3. CASE \E p \in Static : g = ZephyrStaticSection(p)
    <3>1. PICK p \in Static : g = ZephyrStaticSection(p)
      BY <2>3
    <3>2. g.object = p
      BY <3>1 DEF ZephyrStaticSection
    <3> QED BY <2>2, <3>2, NativeAssumption
  <2>4. CASE \E j \in DOMAIN Native : g = ZephyrNativeSection(Native[j])
    <3>1. PICK j \in DOMAIN Native : g = ZephyrNativeSection(Native[j])
      BY <2>4
    <3>2. g.object = Native[j].object
      BY <3>1 DEF ZephyrNativeSection
    <3>3. i = j
      BY <2>2, <3>2, NativeAssumption
    <3> QED BY <2>1, <3>1, <3>3
  <2> QED BY <2>3, <2>4 DEF Finder
<1> QED BY <1>1, <1>2 DEF Finder

\* The globals of a module.
Modules == Seq([section : Name, type : Type])

LEMMA GlobalFacts ==
  ASSUME globals \in Modules
  PROVE  /\ Len(globals) \in Nat /\ DOMAIN globals = 1 .. Len(globals)
         /\ \A i \in DOMAIN globals :
              /\ i \in Nat /\ i # NullElement
              /\ globals[i].section \in Name /\ globals[i].type \in Type
<1>1. Len(globals) \in Nat /\ DOMAIN globals = 1 .. Len(globals)
  BY DEF Modules
<1>2. ASSUME NEW i \in DOMAIN globals
      PROVE  globals[i].section \in Name /\ globals[i].type \in Type
  <2>1. globals[i] \in [section : Name, type : Type]
    BY <1>1, ElementOfSeq DEF Modules
  <2> QED BY <2>1
<1> QED BY <1>1, <1>2 DEF NullElement

\* The objects that are found, each once, are static ones.
LEMMA FoundAreStatic ==
  ASSUME globals \in Modules
  PROVE  FoundObjects \in Seq(Static)
<1> DEFINE found == ({globals[i].section.object : i \in DOMAIN globals} \cap Static) \ Range(Mandatory)
           R == {p \in found \X found : first(p[1]) < first(p[2])}
<1>1. DOMAIN globals \subseteq Nat
  BY GlobalFacts
<1>2. ASSUME NEW o \in found
      PROVE  first(o) \in DOMAIN globals /\ globals[first(o)].section.object = o
  <2> DEFINE T == {i \in DOMAIN globals : globals[i].section.object = o}
  <2>1. T \subseteq Nat /\ T # {}
    BY <1>1
  <2>2. PICK i \in T : \A j \in T : i <= j
    <3> HIDE DEF T
    <3> QED BY <2>1, Least
  <2>3. /\ i \in DOMAIN globals /\ globals[i].section.object = o
        /\ \A j \in DOMAIN globals : globals[j].section.object = o => i <= j
    BY <2>2
  <2> QED BY <2>3 DEF first
<1>3. IsFiniteSet(found)
  <2> DEFINE o == [i \in DOMAIN globals |-> globals[i].section.object]
  <2>1. IsFiniteSet(DOMAIN globals)
    BY GlobalFacts, UpTo
  <2>2. o \in Surjection(DOMAIN globals, Range(o))
    BY DEF Surjection, Range
  <2>3. IsFiniteSet(Range(o))
    <3> HIDE DEF o
    <3> QED BY <2>1, <2>2, FS_Surjection
  <2>4. found \in SUBSET Range(o)
    BY DEF Range
  <2> HIDE DEF o, found
  <2> QED BY <2>3, <2>4, FS_Subset
<1>4. \A a \in found : first(a) \in Nat
  BY <1>1, <1>2
<1>5. \A a, b \in found : first(a) = first(b) => a = b
  BY <1>2
<1>6. FoundObjects = Sorted(found, R)
  BY DEF FoundObjects
<1> HIDE DEF found
<1>7. Orders(R, found)
  BY <1>3, <1>4, <1>5 DEF Orders
<1>8. InOrder(FoundObjects, R, found)
  BY <1>6, <1>7, SortedInOrder
<1>9. FoundObjects \in Seq(found)
  <2> HIDE DEF R
  <2> QED BY <1>8 DEF InOrder
<1>10. found \subseteq Static
  BY DEF found
<1> QED BY <1>9, <1>10

LEMMA AllFinders ==
  ASSUME globals \in Modules
  PROVE  InitializeZephyrSectionFinders \in Seq(Finder)
<1> DEFINE a == [i \in DOMAIN Mandatory |-> ZephyrStaticSection(Mandatory[i])]
           b == [i \in DOMAIN FoundObjects |-> ZephyrStaticSection(FoundObjects[i])]
           c == [i \in DOMAIN Native |-> ZephyrNativeSection(Native[i])]
<1>1. ASSUME NEW s \in Seq(Static)
      PROVE  [i \in DOMAIN s |-> ZephyrStaticSection(s[i])] \in Seq(Finder)
  <2>1. Len(s) \in Nat /\ DOMAIN s = 1 .. Len(s) /\ \A i \in 1 .. Len(s) : s[i] \in Static
    OBVIOUS
  <2>2. \A i \in 1 .. Len(s) : ZephyrStaticSection(s[i]) \in Finder
    BY <2>1 DEF Finder
  <2> QED BY <2>1, <2>2
<1>2. a \in Seq(Finder) /\ b \in Seq(Finder)
  BY <1>1, FoundAreStatic, MandatoryAssumption
<1>3. c \in Seq(Finder)
  <2>1. Len(Native) \in Nat /\ DOMAIN Native = 1 .. Len(Native)
    <3>1. Native \in Seq(Range(Native))
      BY NativeAssumption
    <3> QED BY <3>1
  <2>2. \A i \in 1 .. Len(Native) : ZephyrNativeSection(Native[i]) \in Finder
    BY <2>1 DEF Finder
  <2> QED BY <2>1, <2>2
<1>4. InitializeZephyrSectionFinders = a \o b \o c
  BY DEF InitializeZephyrSectionFinders
<1> HIDE DEF a, b, c
<1> QED BY <1>2, <1>3, <1>4

-----------------------------------------------------------------------------
\* The invariant.

\* The finder collects the global, under a level and its section name.
Accepts(f, i) == test(f, globals[i].section) /\ hasLevel(f, globals[i].section)
Key(f, i) == <<level(f, globals[i].section), globals[i].section>>

\* What f has collected when it has looked at the globals before n: of each
\* section name the last one that it accepts.
Gathered(f, n) ==
  /\ \A i \in DOMAIN globals : i < n /\ Accepts(f, i) => Key(f, i) \in DOMAIN GVs
  /\ \A k \in DOMAIN GVs :
       /\ GVs[k] \in DOMAIN globals /\ GVs[k] < n /\ Accepts(f, GVs[k])
       /\ k = Key(f, GVs[k]) /\ k[1] \in Range(list)
       /\ \A j \in DOMAIN globals : j < n /\ Accepts(f, j) /\ Key(f, j) = k => j <= GVs[k]
  /\ list \in Seq(Range(list)) /\ IsInjective(list)
  /\ ~ f.static => list = f.levels

\* The array of f is as OnlyOwnElements, NamesCovered, EmulatesLinker and
\* LevelsPartArray say.
Owned(f, area) ==
  \A i \in Range(area) \ {NullElement} :
    i \in Elements(f) \/ (f.static /\ test(f, globals[i].section))
Placed(f, area, place) ==
  /\ place \in [LastOf(f) -> DOMAIN area]
  /\ IsInjective(place) /\ DOMAIN area \subseteq Range(place)
  /\ \A i \in LastOf(f) :
       area[place[i]] = IF globals[i].type = AreaType(f, area) THEN i ELSE NullElement
  /\ \A i, j \in LastOf(f) :
       LET s == globals[i].section
           t == globals[j].section
       IN  level(f, s) = level(f, t) /\ s.key < t.key => place[i] < place[j]
Covered(f, area) == \E place : Placed(f, area, place)
Emulated(f, area) ==
  Plain(f) =>
    /\ Range(area) = Elements(f)
    /\ \A i, j \in DOMAIN area : i < j => Precedes(f, area[i], area[j])
Parted(f, area, at) ==
  \A l \in DOMAIN f.levels :
    LET start == Symbol(f, f.levels[l])
    IN  start \in DOMAIN at =>
          \A i \in DOMAIN area : area[i] # NullElement =>
            (at[start] < i <=> l <= Rank(f, area[i]))

ArrayRight(f, area, at) ==
  /\ Range(area) \subseteq DOMAIN globals \cup {NullElement}
  /\ Owned(f, area) /\ Covered(f, area) /\ Emulated(f, area) /\ Parted(f, area, at)

SymbolsRight ==
  /\ DOMAIN symbols \subseteq declared
  /\ \A s \in DOMAIN symbols : symbols[s] \in Nat /\ (s[2] = "start" => symbols[s] = 0)

Collecting ==
  IF finders = << >> THEN GVs = << >> /\ list = << >> ELSE Gathered(Head(finders), next)

IInv ==
  /\ globals \in Modules
  /\ finders \in Seq(Finder)
  /\ next \in 1 .. Len(globals) + 1
  /\ Collecting
  /\ DOMAIN areas \subseteq Finder
  /\ \A f \in DOMAIN areas : ArrayRight(f, areas[f], symbols)
  /\ SymbolsRight

-----------------------------------------------------------------------------
\* Collecting.

\* A finder begins.
Beginning ==
  /\ globals \in Modules /\ finders \in Seq(Finder) /\ next = 1
  /\ list = FirstLevels(finders) /\ GVs = << >>

\* It has collected nothing.
LEMMA Begins == Beginning => Collecting
<1> SUFFICES ASSUME Beginning PROVE Collecting
  OBVIOUS
<1>1. CASE finders = << >>
  BY <1>1 DEF Beginning, FirstLevels, Collecting
<1>2. CASE finders # << >>
  <2>1. PICK f \in Finder : f = Head(finders)
    BY <1>2 DEF Beginning
  <2>2. list = f.levels
    BY <1>2, <2>1 DEF Beginning, FirstLevels
  <2>3. list \in Seq(Range(list)) /\ IsInjective(list)
    <3>1. CASE StaticFinder(f)
      <4>1. list = << >>
        BY <2>2, <3>1 DEF StaticFinder
      <4> QED BY <4>1 DEF IsInjective
    <3>2. CASE NativeFinder(f)
      BY <2>2, <3>2 DEF NativeFinder
    <3> QED BY <3>1, <3>2, FinderKinds
  <2>4. \A i \in DOMAIN globals : ~ (i < 1)
    BY GlobalFacts DEF Beginning
  <2>5. DOMAIN GVs = {}
    BY DEF Beginning
  <2>6. Gathered(f, 1)
    BY <2>2, <2>3, <2>4, <2>5 DEF Gathered
  <2> QED BY <1>2, <2>1, <2>6 DEF Beginning, Collecting
<1> QED BY <1>1, <1>2

LEMMA BeginsNext == Beginning' => Collecting'
BY Begins, PTL

\* One more global that f does not accept, and one that it does.
LEMMA Passes ==
  ASSUME NEW f, NEW n, Gathered(f, n), n \in DOMAIN globals, globals \in Modules,
         ~ Accepts(f, n), UNCHANGED <<globals, GVs, list>>
  PROVE  Gathered(f, n + 1)'
<1>1. n \in Nat /\ \A i \in DOMAIN globals : i \in Nat
  BY GlobalFacts
<1>2. \A i \in DOMAIN globals : i < n + 1 <=> i < n \/ i = n
  BY <1>1
<1>3. \A i \in DOMAIN globals : Accepts(f, i) /\ i < n + 1 => i < n
  BY <1>2
<1>4. \A i \in DOMAIN globals : i < n => i < n + 1
  BY <1>2
<1>5. Gathered(f, n + 1)
  BY <1>3, <1>4 DEF Gathered
<1> QED BY <1>5 DEF Gathered, Accepts, Key

LEMMA Takes ==
  ASSUME NEW f \in Finder, NEW n, Gathered(f, n), n \in DOMAIN globals, globals \in Modules,
         Accepts(f, n), UNCHANGED globals,
         GVs' = At(Key(f, n), n, GVs),
         list' = IF Key(f, n)[1] \in Range(list) THEN list
                 ELSE Append(list, Key(f, n)[1])
  PROVE  Gathered(f, n + 1)'
<1> DEFINE k == Key(f, n)
           l == k[1]
<1>1. n \in Nat /\ \A i \in DOMAIN globals : i \in Nat
  BY GlobalFacts
<1>2. \A i \in DOMAIN globals : i < n + 1 <=> i < n \/ i = n
  BY <1>1
<1>3. /\ DOMAIN GVs' = DOMAIN GVs \cup {k} /\ GVs'[k] = n
      /\ \A m \in DOMAIN GVs : m # k => GVs'[m] = GVs[m]
  BY DEF At
<1>4. /\ list' \in Seq(Range(list')) /\ IsInjective(list')
      /\ Range(list) \subseteq Range(list') /\ l \in Range(list')
  <2> HIDE DEF l
  <2>1. list \in Seq(Range(list)) /\ IsInjective(list)
    BY DEF Gathered
  <2>2. CASE l \in Range(list)
    BY <2>1, <2>2 DEF l
  <2>3. CASE l \notin Range(list)
    <3>1. list' = Append(list, l)
      BY <2>3 DEF l
    <3> DEFINE S == Range(list) \cup {l}
               z == Len(list)
    <3>2. list \in Seq(S) /\ l \in S
      BY <2>1
    <3> HIDE DEF S
    <3>3. /\ list' \in Seq(S) /\ Len(list') = z + 1 /\ list'[z + 1] = l /\ z \in Nat
          /\ DOMAIN list' = 1 .. z + 1 /\ DOMAIN list = 1 .. z
          /\ \A i \in 1 .. z : list'[i] = list[i]
      BY <3>1, <3>2
    <3> HIDE DEF z
    <3>4. \A i \in 1 .. z + 1 : i \in 1 .. z \/ i = z + 1
      BY <3>3
    <3>5. \A i \in 1 .. z : i \in 1 .. z + 1 /\ z + 1 \in 1 .. z + 1
      BY <3>3
    <3>6. Range(list) \subseteq Range(list') /\ l \in Range(list')
      <4>1. z + 1 \in 1 .. z + 1
        BY <3>3
      <4> QED BY <3>3, <3>5, <4>1 DEF Range
    <3>7. \A i \in 1 .. z : list'[i] \in Range(list)
      BY <3>3 DEF Range
    <3>8. IsInjective(list')
      <4> SUFFICES ASSUME NEW i \in 1 .. z + 1, NEW j \in 1 .. z + 1, list'[i] = list'[j]
                   PROVE  i = j
        BY <3>3 DEF IsInjective
      <4>1. CASE i \in 1 .. z /\ j \in 1 .. z
        BY <2>1, <3>3, <4>1 DEF IsInjective
      <4>2. CASE i = z + 1 /\ j \in 1 .. z
        BY <2>3, <3>3, <3>7, <4>2
      <4>3. CASE i \in 1 .. z /\ j = z + 1
        BY <2>3, <3>3, <3>7, <4>3
      <4> QED BY <3>4, <4>1, <4>2, <4>3
    <3>9. list' \in Seq(Range(list'))
      BY <3>3 DEF Range
    <3> QED BY <3>6, <3>8, <3>9
  <2> QED BY <2>2, <2>3
<1>5. ~ f.static => list' = f.levels
  <2>1. ASSUME ~ f.static PROVE l \in Range(f.levels) /\ list = f.levels
    <3>1. l = globals[n].section.level /\ globals[n].section.level \in Range(f.levels)
      BY <2>1 DEF Accepts, hasLevel, Key, level
    <3> QED BY <2>1, <3>1 DEF Gathered
  <2> QED BY <2>1
<1>6. ASSUME NEW i \in DOMAIN globals, i < n + 1, Accepts(f, i)
      PROVE  Key(f, i) \in DOMAIN GVs'
  <2>1. CASE i < n
    BY <1>3, <1>6, <2>1 DEF Gathered
  <2>2. CASE i = n
    BY <1>3, <2>2
  <2> QED BY <1>2, <1>6, <2>1, <2>2
<1>7. ASSUME NEW m \in DOMAIN GVs'
      PROVE  /\ GVs'[m] \in DOMAIN globals /\ GVs'[m] < n + 1 /\ Accepts(f, GVs'[m])
             /\ m = Key(f, GVs'[m]) /\ m[1] \in Range(list')
             /\ \A j \in DOMAIN globals :
                  j < n + 1 /\ Accepts(f, j) /\ Key(f, j) = m => j <= GVs'[m]
  <2>1. CASE m = k
    <3>1. \A j \in DOMAIN globals : j < n + 1 => j <= n
      BY <1>1
    <3>2. n < n + 1
      BY <1>1
    <3> QED BY <1>3, <1>4, <2>1, <3>1, <3>2
  <2>2. CASE m # k
    <3>1. m \in DOMAIN GVs /\ GVs'[m] = GVs[m]
      BY <1>3, <2>2
    <3>2. /\ GVs[m] \in DOMAIN globals /\ GVs[m] < n /\ Accepts(f, GVs[m])
          /\ m = Key(f, GVs[m]) /\ m[1] \in Range(list)
          /\ \A j \in DOMAIN globals : j < n /\ Accepts(f, j) /\ Key(f, j) = m => j <= GVs[m]
      BY <3>1 DEF Gathered
    <3>3. GVs[m] < n + 1
      BY <1>2, <3>2
    <3>4. \A j \in DOMAIN globals :
            j < n + 1 /\ Accepts(f, j) /\ Key(f, j) = m => j <= GVs[m]
      BY <1>2, <2>2, <3>2
    <3> QED BY <1>4, <3>1, <3>2, <3>3, <3>4
  <2> QED BY <2>1, <2>2
<1> HIDE DEF k, l
<1>8. \A i : (Accepts(f, i)' <=> Accepts(f, i)) /\ Key(f, i)' = Key(f, i)
  BY DEF Accepts, Key
<1> QED BY <1>4, <1>5, <1>6, <1>7, <1>8 DEF Gathered

\* An array stays right while the globals, it and its symbols are the same.
LEMMA StaysRight ==
  ASSUME NEW f, NEW area, NEW at, ArrayRight(f, area, at), UNCHANGED <<globals, declared>>
  PROVE  ArrayRight(f, area, at)'
<1>1. Elements(f)' = Elements(f)
  BY DEF Elements
<1>2. \A i : Rank(f, i)' = Rank(f, i)
  BY DEF Rank
<1>3. \A i, j : Precedes(f, i, j)' = Precedes(f, i, j)
  BY <1>2 DEF Precedes
<1>4. Plain(f)' = Plain(f)
  BY <1>1, <1>2 DEF Plain
<1>5. Owned(f, area)'
  BY <1>1 DEF ArrayRight, Owned
<1>6. Covered(f, area)'
  <2>1. LastOf(f)' = LastOf(f) /\ AreaType(f, area)' = AreaType(f, area)
    BY DEF LastOf, AreaType
  <2>2. \A place : Placed(f, area, place) => Placed(f, area, place)'
    BY <2>1 DEF Placed
  <2> QED BY <2>2 DEF ArrayRight, Covered
<1>7. Emulated(f, area)'
  BY <1>1, <1>3, <1>4 DEF ArrayRight, Emulated
<1>8. Parted(f, area, at)'
  BY <1>2 DEF ArrayRight, Parted
<1> QED BY <1>5, <1>6, <1>7, <1>8 DEF ArrayRight

LEMMA CollectStep == IInv /\ Collect => IInv'
<1> SUFFICES ASSUME IInv, Collect PROVE IInv'
  OBVIOUS
<1>1. /\ finders # << >> /\ next \in DOMAIN globals /\ next' = next + 1
      /\ UNCHANGED <<globals, declared, finders, areas, symbols>>
  BY DEF Collect
<1>2. PICK f \in Finder : f = Head(finders)
  BY <1>1 DEF IInv
<1>3. PICK n : n = next
  OBVIOUS
<1>4. Gathered(f, n) /\ n \in DOMAIN globals /\ globals \in Modules
  BY <1>1, <1>2, <1>3 DEF IInv, Collecting
<1>5. IF Accepts(f, n)
      THEN /\ GVs' = At(Key(f, n), n, GVs)
           /\ list' = IF Key(f, n)[1] \in Range(list) THEN list
                      ELSE Append(list, Key(f, n)[1])
      ELSE UNCHANGED <<GVs, list>>
  BY <1>2, <1>3 DEF Collect, Accepts, Key
<1>6. Gathered(f, n + 1)'
  <2>1. CASE Accepts(f, n)
    BY <1>1, <1>4, <1>5, <2>1, Takes
  <2>2. CASE ~ Accepts(f, n)
    BY <1>1, <1>4, <1>5, <2>2, Passes
  <2> QED BY <2>1, <2>2
<1>7. Collecting'
  BY <1>1, <1>2, <1>3, <1>6 DEF Collecting
<1>8. next' \in 1 .. Len(globals) + 1
  BY <1>1, GlobalFacts DEF IInv
<1>9. ASSUME NEW g \in DOMAIN areas PROVE ArrayRight(g, areas[g], symbols)'
  <2>1. PICK area, at : area = areas[g] /\ at = symbols
    OBVIOUS
  <2>2. ArrayRight(g, area, at)
    BY <2>1 DEF IInv
  <2>3. ArrayRight(g, area, at)'
    BY <1>1, <2>2, StaysRight
  <2>4. area = areas'[g] /\ at = symbols'
    BY <1>1, <2>1
  <2> QED BY <2>3, <2>4 DEF ArrayRight, Owned, Covered, Placed, Emulated, Parted
<1>10. SymbolsRight'
  BY <1>1 DEF IInv, SymbolsRight
<1> QED BY <1>1, <1>7, <1>8, <1>9, <1>10 DEF IInv

-----------------------------------------------------------------------------
\* The array.

\* Each level of the list has a place.
LEMMA Places ==
  ASSUME list \in Seq(Range(list)), IsInjective(list)
  PROVE  /\ DOMAIN list = 1 .. Len(list) /\ Len(list) \in Nat
         /\ \A l \in Range(list) : Place(l) \in DOMAIN list /\ list[Place(l)] = l
         /\ \A i \in DOMAIN list : list[i] \in Range(list) /\ Place(list[i]) = i
<1>1. DOMAIN list = 1 .. Len(list) /\ Len(list) \in Nat
  OBVIOUS
<1>2. ASSUME NEW l \in Range(list)
      PROVE  Place(l) \in DOMAIN list /\ list[Place(l)] = l
  <2>1. \E i \in DOMAIN list : list[i] = l
    BY DEF Range
  <2> QED BY <2>1 DEF Place
<1>3. ASSUME NEW i \in DOMAIN list PROVE list[i] \in Range(list) /\ Place(list[i]) = i
  <2>1. list[i] \in Range(list)
    BY DEF Range
  <2>2. Place(list[i]) \in DOMAIN list /\ list[Place(list[i])] = list[i]
    BY <1>2, <2>1
  <2> QED BY <2>1, <2>2 DEF IsInjective
<1> QED BY <1>1, <1>2, <1>3

\* In a level of a finder the keys tell section names apart.
LEMMA SameName ==
  ASSUME NEW f \in Finder, globals \in Modules,
         NEW i \in DOMAIN globals, NEW j \in DOMAIN globals, Accepts(f, i), Accepts(f, j),
         Key(f, i)[1] = Key(f, j)[1], globals[i].section.key = globals[j].section.key
  PROVE  globals[i].section = globals[j].section
<1> DEFINE s == globals[i].section
           t == globals[j].section
<1>1. s \in Name /\ t \in Name
  BY GlobalFacts
<1>2. level(f, s) = level(f, t) /\ test(f, s) /\ test(f, t) /\ s.key = t.key
  BY DEF Key, Accepts
<1> HIDE DEF s, t
<1>3. CASE StaticFinder(f)
  <2>1. s.object \in Static /\ t.object \in Static /\ s.object # "" /\ t.object # ""
    BY <1>2, <1>3, PrefixAssumption, ObjectAssumption DEF test, StaticFinder
  <2>2. s.object = t.object
    BY <1>2, <1>3, <2>1 DEF level, StaticFinder, Own
  <2> QED BY <1>1, <1>2, <2>1, <2>2, NameAssumption DEF s, t
<1>4. CASE NativeFinder(f)
  <2>1. s.object = t.object /\ s.level = t.level
    BY <1>2, <1>4 DEF test, level, NativeFinder
  <2> QED BY <1>1, <1>2, <2>1, NameAssumption DEF s, t
<1> QED BY <1>3, <1>4, FinderKinds

\* What the array of f is made of.
ArrayOf(f) ==
  /\ Cardinality(Collected) \in Nat
  /\ DOMAIN order = 1 .. Cardinality(Collected) /\ DOMAIN values = DOMAIN order
  /\ \A p \in DOMAIN values :
       /\ values[p] \in DOMAIN globals /\ Accepts(f, values[p])
       /\ order[p] \in Collected /\ order[p] = Key(f, values[p])
  /\ \A k \in Collected : \E p \in DOMAIN values : order[p] = k
  /\ \A i \in DOMAIN globals : Accepts(f, i) =>
       \E p \in DOMAIN values : i <= values[p] /\ globals[i].section = globals[values[p]].section
  /\ \A p, q \in DOMAIN values : p < q => Before(order[p], order[q])
  /\ \A p, q \in DOMAIN values : order[p] = order[q] => p = q

LEMMA Collects ==
  ASSUME NEW f \in Finder, NEW n, Gathered(f, n), globals \in Modules,
         \A i \in DOMAIN globals : i < n
  PROVE  ArrayOf(f)
<1> DEFINE C == Collected
           R == {p \in C \X C : Before(p[1], p[2])}
           m == Cardinality(C)
<1>1. /\ list \in Seq(Range(list)) /\ IsInjective(list) /\ C = DOMAIN GVs
      /\ \A k \in C : /\ GVs[k] \in DOMAIN globals /\ Accepts(f, GVs[k]) /\ k = Key(f, GVs[k])
                      /\ k[1] \in Range(list)
  BY DEF Gathered, Collected
<1>2. \A i \in DOMAIN globals : Accepts(f, i) => Key(f, i) \in C
  BY <1>1 DEF Gathered
<1>3. \A k \in C : Place(k[1]) \in Nat /\ list[Place(k[1])] = k[1]
  BY <1>1, Places
<1>4. \A k \in C : k[2] = globals[GVs[k]].section /\ k[2].key \in Nat
  BY <1>1, GlobalFacts, NameAssumption DEF Key
<1>5. IsFiniteSet(C)
  <2>1. [k \in C |-> GVs[k]] \in Injection(C, DOMAIN globals)
    BY <1>1 DEF Injection, IsInjective
  <2>2. IsFiniteSet(DOMAIN globals)
    BY GlobalFacts, UpTo
  <2> HIDE DEF C
  <2> QED BY <2>1, <2>2, FS_Injection
<1>6. ASSUME NEW j \in C, NEW k \in C PROVE j = k \/ Before(j, k) \/ Before(k, j)
  <2>1. CASE j[1] # k[1]
    <3>1. Place(j[1]) # Place(k[1])
      BY <1>3, <2>1
    <3>2. Place(j[1]) < Place(k[1]) \/ Place(k[1]) < Place(j[1])
      BY <1>3, <3>1
    <3> QED BY <3>2 DEF Before
  <2>2. CASE j[1] = k[1] /\ j[2].key # k[2].key
    <3>1. j[2].key < k[2].key \/ k[2].key < j[2].key
      BY <1>4, <2>2
    <3> QED BY <2>2, <3>1 DEF Before
  <2>3. CASE j[1] = k[1] /\ j[2].key = k[2].key
    <3>1. /\ Key(f, GVs[j])[1] = Key(f, GVs[k])[1]
          /\ globals[GVs[j]].section.key = globals[GVs[k]].section.key
      BY <1>1, <1>4, <2>3
    <3>2. globals[GVs[j]].section = globals[GVs[k]].section
      BY <1>1, <3>1, SameName
    <3>3. Key(f, GVs[j]) = Key(f, GVs[k])
      BY <3>2 DEF Key
    <3> QED BY <1>1, <3>3
  <2> QED BY <2>1, <2>2, <2>3
<1>7. ASSUME NEW j \in C, NEW k \in C, NEW l \in C, Before(j, k), Before(k, l)
      PROVE  Before(j, l)
  BY <1>3, <1>4, <1>7 DEF Before
<1>8. \A k \in C : ~ Before(k, k)
  BY <1>3, <1>4 DEF Before
<1>9. \A j, k \in C : <<j, k>> \in R <=> Before(j, k)
  OBVIOUS
<1>10. order = Sorted(C, R)
  BY DEF order
<1> HIDE DEF C, R
<1>11. Orders(R, C)
  BY <1>5, <1>6, <1>7, <1>8, <1>9 DEF Orders
<1>12. InOrder(order, R, C)
  BY <1>10, <1>11, SortedInOrder
<1>13. /\ m \in Nat /\ DOMAIN order = 1 .. m /\ DOMAIN values = DOMAIN order
       /\ \A p \in 1 .. m : order[p] \in C /\ values[p] = GVs[order[p]]
  BY <1>12 DEF InOrder, values
<1>14. \A k \in C : \E p \in 1 .. m : order[p] = k
  BY <1>12 DEF InOrder
<1>15. \A p, q \in 1 .. m : p < q => Before(order[p], order[q])
  BY <1>9, <1>12, <1>13 DEF InOrder
<1>16. ASSUME NEW i \in DOMAIN globals, Accepts(f, i)
       PROVE  \E p \in 1 .. m :
                i <= values[p] /\ globals[i].section = globals[values[p]].section
  <2>1. Key(f, i) \in C
    BY <1>2, <1>16
  <2>2. PICK p \in 1 .. m : order[p] = Key(f, i)
    BY <1>14, <2>1
  <2>3. values[p] = GVs[Key(f, i)]
    BY <1>13, <2>2
  <2>4. i <= GVs[Key(f, i)]
    BY <1>1, <1>16, <2>1 DEF Gathered
  <2>5. globals[i].section = globals[GVs[Key(f, i)]].section
    BY <1>4, <2>1 DEF Key
  <2> QED BY <2>3, <2>4, <2>5
<1> HIDE DEF m
<1>17. C = Collected /\ m = Cardinality(Collected)
  BY DEF C, m
<1>18. /\ Cardinality(Collected) \in Nat
       /\ DOMAIN order = 1 .. Cardinality(Collected) /\ DOMAIN values = DOMAIN order
  BY <1>13, <1>17
<1>19. ASSUME NEW p \in DOMAIN values
       PROVE  /\ values[p] \in DOMAIN globals /\ Accepts(f, values[p])
              /\ order[p] \in Collected /\ order[p] = Key(f, values[p])
  BY <1>1, <1>13, <1>17
<1>20. \A k \in Collected : \E p \in DOMAIN values : order[p] = k
  BY <1>13, <1>14, <1>17
<1>21. \A p, q \in DOMAIN values : p < q => Before(order[p], order[q])
  BY <1>13, <1>15
<1>22. \A i \in DOMAIN globals : Accepts(f, i) =>
         \E p \in DOMAIN values : i <= values[p] /\ globals[i].section = globals[values[p]].section
  BY <1>13, <1>16
<1>23. ASSUME NEW p \in DOMAIN values, NEW q \in DOMAIN values, order[p] = order[q]
       PROVE  p = q
  <2>1. p \in Nat /\ q \in Nat /\ ~ (p < q) /\ ~ (q < p)
    BY <1>1, <1>8, <1>13, <1>19, <1>21, <1>23
  <2> QED BY <2>1
<1> QED BY <1>18, <1>19, <1>20, <1>21, <1>22, <1>23 DEF ArrayOf

-----------------------------------------------------------------------------
\* What the array has.

LEMMA AreaFacts ==
  ASSUME NEW f
  PROVE  /\ DOMAIN Area(f) = DOMAIN values
         /\ \A p \in DOMAIN values :
              IF globals[values[p]].type = ElementType(f)
              THEN Area(f)[p] = values[p] ELSE Area(f)[p] = NullElement
BY DEF Area

\* What is of the section is accepted, and in a section of a table what is
\* accepted is of it.
LEMMA ElementsAccepted ==
  ASSUME NEW f \in Finder
  PROVE  /\ Elements(f) \subseteq {i \in DOMAIN globals : Accepts(f, i)}
         /\ NativeFinder(f) => \A i \in DOMAIN globals : Accepts(f, i) => i \in Elements(f)
<1>1. CASE StaticFinder(f)
  <2>1. <<f.object, f.object>> \in StartsWith
    BY <1>1, PrefixAssumption DEF StaticFinder
  <2> QED BY <1>1, <2>1 DEF StaticFinder, NativeFinder, Elements, Accepts, test, hasLevel
<1>2. CASE NativeFinder(f)
  BY <1>2 DEF NativeFinder, Elements, Accepts, test, hasLevel
<1> QED BY <1>1, <1>2, FinderKinds

LEMMA AreaOwned ==
  ASSUME NEW f \in Finder, ArrayOf(f), globals \in Modules
  PROVE  Range(Area(f)) \subseteq DOMAIN globals \cup {NullElement} /\ Owned(f, Area(f))
<1>1. ASSUME NEW i \in Range(Area(f)), i # NullElement
      PROVE  i \in DOMAIN globals /\ Accepts(f, i)
  <2>1. PICK p \in DOMAIN Area(f) : Area(f)[p] = i
    BY DEF Range
  <2>2. p \in DOMAIN values /\ values[p] = i
    BY <1>1, <2>1, AreaFacts
  <2> QED BY <2>2 DEF ArrayOf
<1>2. ASSUME NEW i \in DOMAIN globals, Accepts(f, i)
      PROVE  i \in Elements(f) \/ (f.static /\ test(f, globals[i].section))
  <2>1. CASE StaticFinder(f)
    BY <1>2, <2>1 DEF StaticFinder, Accepts
  <2>2. CASE NativeFinder(f)
    BY <1>2, <2>2, ElementsAccepted
  <2> QED BY <2>1, <2>2, FinderKinds
<1> QED BY <1>1, <1>2 DEF Owned

\* The array has the last global of each section name, once.
LEMMA Lasts ==
  ASSUME NEW f \in Finder, ArrayOf(f), globals \in Modules
  PROVE  /\ \A p \in DOMAIN values : values[p] \in LastOf(f)
         /\ \A i \in LastOf(f) : \E p \in DOMAIN values : values[p] = i
         /\ \A p, q \in DOMAIN values : values[p] = values[q] => p = q
<1>1. \A i \in DOMAIN globals : i \in Nat
  BY GlobalFacts
<1>2. ASSUME NEW p \in DOMAIN values PROVE values[p] \in LastOf(f)
  <2>1. values[p] \in DOMAIN globals /\ Accepts(f, values[p])
    BY DEF ArrayOf
  <2>2. ASSUME NEW j \in DOMAIN globals, globals[j].section = globals[values[p]].section
        PROVE  j <= values[p]
    <3>1. Accepts(f, j)
      BY <2>1, <2>2 DEF Accepts
    <3>2. PICK q \in DOMAIN values :
            j <= values[q] /\ globals[j].section = globals[values[q]].section
      BY <3>1 DEF ArrayOf
    <3>3. Key(f, values[q]) = Key(f, values[p])
      BY <2>2, <3>2 DEF Key
    <3>4. q = p
      BY <3>3 DEF ArrayOf
    <3> QED BY <3>2, <3>4
  <2> QED BY <2>1, <2>2 DEF LastOf, Accepts
<1>3. ASSUME NEW i \in LastOf(f) PROVE \E p \in DOMAIN values : values[p] = i
  <2>1. i \in DOMAIN globals /\ Accepts(f, i)
    BY DEF LastOf, Accepts
  <2>2. PICK p \in DOMAIN values :
          i <= values[p] /\ globals[i].section = globals[values[p]].section
    BY <2>1 DEF ArrayOf
  <2>3. values[p] \in DOMAIN globals
    BY DEF ArrayOf
  <2>4. values[p] <= i
    BY <2>2, <2>3 DEF LastOf
  <2> QED BY <1>1, <2>1, <2>2, <2>3, <2>4
<1>4. \A p, q \in DOMAIN values : values[p] = values[q] => p = q
  BY DEF ArrayOf
<1> QED BY <1>2, <1>3, <1>4

\* The type of the array, seen in it.
LEMMA AreaTyped ==
  ASSUME NEW f \in Finder, ArrayOf(f)
  PROVE  AreaType(f, Area(f)) = ElementType(f)
<1>1. CASE \/ {Symbol(f, "start"), Symbol(f, "end")} \cap declared # {}
           \/ values = << >>
  <2>1. values = << >> => Area(f) = << >>
    BY DEF Area
  <2> QED BY <1>1, <2>1 DEF AreaType, ElementType
<1>2. CASE {Symbol(f, "start"), Symbol(f, "end")} \cap declared = {} /\ values # << >>
  <2>1. ElementType(f) = globals[values[1]].type
    BY <1>2 DEF ElementType
  <2>2. 1 \in DOMAIN values
    <3>1. Cardinality(Collected) # 0
      <4>1. SUFFICES ASSUME Cardinality(Collected) = 0 PROVE FALSE
        OBVIOUS
      <4>2. DOMAIN order = {}
        BY <4>1 DEF ArrayOf
      <4>3. values = << >>
        BY <4>2 DEF values
      <4> QED BY <1>2, <4>3
    <3>2. 1 \in 1 .. Cardinality(Collected)
      BY <3>1 DEF ArrayOf
    <3> QED BY <3>2 DEF ArrayOf
  <2>3. Area(f)[1] = values[1] /\ DOMAIN Area(f) = DOMAIN values
    BY <2>1, <2>2, AreaFacts
  <2>4. Area(f) # << >>
    BY <2>2, <2>3
  <2> QED BY <1>2, <2>1, <2>3, <2>4 DEF AreaType
<1> QED BY <1>1, <1>2

LEMMA AreaCovered ==
  ASSUME NEW f \in Finder, NEW n, Gathered(f, n), ArrayOf(f), globals \in Modules
  PROVE  Covered(f, Area(f))
<1> DEFINE place == [i \in LastOf(f) |-> CHOOSE p \in DOMAIN values : values[p] = i]
<1>1. ASSUME NEW i \in LastOf(f)
      PROVE  place[i] \in DOMAIN values /\ values[place[i]] = i
  BY Lasts
<1>2. DOMAIN place = LastOf(f)
  OBVIOUS
<1>3. ASSUME NEW p \in DOMAIN values PROVE values[p] \in LastOf(f) /\ place[values[p]] = p
  <2>1. values[p] \in LastOf(f)
    BY Lasts
  <2>2. place[values[p]] \in DOMAIN values /\ values[place[values[p]]] = values[p]
    BY <1>1, <2>1
  <2> HIDE DEF place
  <2> QED BY <2>1, <2>2, Lasts
<1>4. place \in [LastOf(f) -> DOMAIN Area(f)]
  BY <1>1, AreaFacts
<1> HIDE DEF place
<1>5. IsInjective(place)
  BY <1>1, <1>2 DEF IsInjective
<1>6. DOMAIN Area(f) \subseteq Range(place)
  BY <1>2, <1>3, AreaFacts DEF Range
<1>7. ASSUME NEW i \in LastOf(f)
      PROVE  Area(f)[place[i]]
               = IF globals[i].type = AreaType(f, Area(f)) THEN i ELSE NullElement
  BY <1>1, AreaFacts, AreaTyped
<1>8. ASSUME NEW i \in LastOf(f), NEW j \in LastOf(f),
             level(f, globals[i].section) = level(f, globals[j].section),
             globals[i].section.key < globals[j].section.key
      PROVE  place[i] < place[j]
  <2> DEFINE p == place[i]
             q == place[j]
             l == level(f, globals[i].section)
  <2>1. p \in DOMAIN values /\ q \in DOMAIN values /\ values[p] = i /\ values[q] = j
    BY <1>1
  <2>2. p \in Nat /\ q \in Nat
    BY <2>1 DEF ArrayOf
  <2>3. order[p] = Key(f, i) /\ order[q] = Key(f, j) /\ order[p] \in Collected
    BY <2>1 DEF ArrayOf
  <2>4. Key(f, i)[1] = l /\ Key(f, j)[1] = l
    BY <1>8 DEF Key
  <2>5. Place(l) \in Nat
    <3>1. l \in Range(list)
      BY <2>3, <2>4 DEF Collected
    <3> HIDE DEF l
    <3> QED BY <3>1, Places DEF Gathered
  <2>6. globals[i].section.key \in Nat /\ globals[j].section.key \in Nat
    BY GlobalFacts, NameAssumption DEF LastOf
  <2>7. ~ Before(Key(f, j), Key(f, i))
    <3>1. Key(f, j)[2] = globals[j].section /\ Key(f, i)[2] = globals[i].section
      BY DEF Key
    <3> HIDE DEF l
    <3> QED BY <1>8, <2>4, <2>5, <2>6, <3>1 DEF Before
  <2>8. ~ (q < p)
    BY <2>1, <2>3, <2>7 DEF ArrayOf
  <2>9. p # q
    BY <1>8, <2>1, <2>6
  <2> QED BY <2>2, <2>8, <2>9
<1>9. Placed(f, Area(f), place)
  BY <1>4, <1>5, <1>6, <1>7, <1>8 DEF Placed
<1> QED BY <1>9 DEF Covered

\* The place of a level is its rank.
LEMMA RankIsPlace ==
  ASSUME NEW f, NativeFinder(f), list = f.levels, NEW i, Accepts(f, i)
  PROVE  Rank(f, i) = Place(Key(f, i)[1]) /\ Key(f, i)[1] \in Range(list)
BY DEF NativeFinder, Rank, Place, Key, level, Accepts, hasLevel

\* In a plain section all elements have the type of the symbols.
LEMMA PlainArea ==
  ASSUME NEW f \in Finder, ArrayOf(f), globals \in Modules, Plain(f)
  PROVE  /\ \A i \in DOMAIN globals : Accepts(f, i) => i \in Elements(f)
         /\ Area(f) = values
<1>1. ASSUME NEW i \in DOMAIN globals, Accepts(f, i) PROVE i \in Elements(f)
  <2>1. CASE StaticFinder(f)
    BY <1>1, <2>1 DEF Plain, StaticFinder, Accepts
  <2>2. CASE NativeFinder(f)
    BY <1>1, <2>2, ElementsAccepted
  <2> QED BY <2>1, <2>2, FinderKinds
<1>2. \A p \in DOMAIN values : globals[values[p]].type = SymbolType(f)
  BY <1>1 DEF ArrayOf, Plain
<1>3. ASSUME NEW p \in DOMAIN values PROVE ElementType(f) = SymbolType(f)
  <2>1. values # << >>
    OBVIOUS
  <2>2. 1 \in DOMAIN values
    <3>1. p \in 1 .. Cardinality(Collected) /\ Cardinality(Collected) \in Nat
      BY DEF ArrayOf
    <3>2. 1 \in 1 .. Cardinality(Collected)
      BY <3>1
    <3> QED BY <3>2 DEF ArrayOf
  <2> QED BY <1>2, <2>1, <2>2 DEF ElementType
<1>4. \A p \in DOMAIN values : globals[values[p]].type = ElementType(f)
  BY <1>2, <1>3
<1>5. Area(f) = [p \in DOMAIN values |-> values[p]]
  BY <1>4 DEF Area
<1>6. values = [p \in DOMAIN values |-> values[p]]
  BY DEF values
<1> QED BY <1>1, <1>5, <1>6

LEMMA AreaEmulated ==
  ASSUME NEW f \in Finder, NEW n, Gathered(f, n), ArrayOf(f), globals \in Modules
  PROVE  Emulated(f, Area(f))
<1> SUFFICES ASSUME Plain(f)
             PROVE  /\ Range(values) = Elements(f)
                    /\ \A i, j \in DOMAIN values : i < j => Precedes(f, values[i], values[j])
  BY PlainArea DEF Emulated
<1>1. \A i \in DOMAIN globals : Accepts(f, i) <=> i \in Elements(f)
  BY PlainArea, ElementsAccepted
<1>2. Range(values) \subseteq Elements(f)
  BY <1>1 DEF ArrayOf, Range
<1>3. ASSUME NEW i \in Elements(f) PROVE i \in Range(values)
  <2>1. i \in DOMAIN globals /\ Accepts(f, i)
    BY ElementsAccepted
  <2>2. PICK p \in DOMAIN values : globals[i].section = globals[values[p]].section
    BY <2>1 DEF ArrayOf
  <2>3. values[p] \in Elements(f)
    BY <1>1 DEF ArrayOf
  <2>4. values[p] = i
    BY <2>2, <2>3 DEF Plain
  <2> QED BY <2>4 DEF Range
<1>4. ASSUME NEW p \in DOMAIN values, NEW q \in DOMAIN values, p < q
      PROVE  Precedes(f, values[p], values[q])
  <2> DEFINE i == values[p]
             j == values[q]
  <2>1. /\ i \in Elements(f) /\ j \in Elements(f) /\ Accepts(f, i) /\ Accepts(f, j)
        /\ Before(Key(f, i), Key(f, j))
    BY <1>1, <1>4 DEF ArrayOf
  <2> HIDE DEF i, j
  <2>2. /\ \/ Place(Key(f, i)[1]) < Place(Key(f, j)[1])
           \/ Key(f, i)[1] = Key(f, j)[1] /\ globals[i].section.key < globals[j].section.key
    BY <2>1 DEF Before, Key
  <2>3. CASE NativeFinder(f)
    <3>1. list = f.levels
      BY <2>3 DEF Gathered, NativeFinder
    <3>2. Rank(f, i) = Place(Key(f, i)[1]) /\ Rank(f, j) = Place(Key(f, j)[1])
      BY <2>1, <2>3, <3>1, RankIsPlace
    <3>3. CASE Rank(f, i) < Rank(f, j)
      BY <3>3 DEF Precedes, i, j
    <3>4. CASE /\ Key(f, i)[1] = Key(f, j)[1]
               /\ globals[i].section.key < globals[j].section.key
      <4> DEFINE s == globals[i].section
                 t == globals[j].section
      <4>1. s \in Name /\ t \in Name
        BY <2>1, GlobalFacts, ElementsAccepted
      <4>2. s.object = t.object /\ s.level = t.level
        BY <2>1, <2>3, <3>4 DEF Accepts, test, level, Key, NativeFinder
      <4>3. Rank(f, i) = Rank(f, j)
        BY <3>2, <3>4
      <4>4. s.digits = t.digits
        BY <2>1, <4>3 DEF Plain
      <4>5. s.key < t.key
        BY <3>4
      <4> HIDE DEF s, t
      <4>6. /\ s.key \in Nat /\ t.key \in Nat /\ s.prio \in Nat /\ t.prio \in Nat
            /\ t.prio < s.prio => t.key < s.key
        BY <4>1, <4>2, <4>4, NameAssumption
      <4>7. s.prio < t.prio \/ s.prio = t.prio
        BY <4>5, <4>6
      <4> QED BY <4>3, <4>5, <4>7 DEF Precedes, i, j, s, t
    <3> QED BY <2>2, <3>2, <3>3, <3>4
  <2>4. CASE StaticFinder(f)
    <3>1. Key(f, i)[1] = Own /\ Key(f, j)[1] = Own
      BY <2>1, <2>4 DEF StaticFinder, Elements, Key, level
    <3>2. list \in Seq(Range(list)) /\ IsInjective(list)
      BY DEF Gathered
    <3>3. ~ (Place(Own) < Place(Own))
      <4>1. Key(f, i) \in Collected
        BY <2>1, <1>4 DEF ArrayOf, i
      <4>2. Own \in Range(list)
        BY <3>1, <4>1 DEF Collected
      <4>3. Place(Own) \in Nat
        BY <3>2, <4>2, Places
      <4> QED BY <4>3
    <3>4. globals[i].section.key < globals[j].section.key
      BY <2>2, <3>1, <3>3
    <3>5. Rank(f, i) = 1 /\ Rank(f, j) = 1
      BY <2>4 DEF StaticFinder, Rank
    <3>6. globals[i].section.prio = 0 /\ globals[j].section.prio = 0
      <4>1. /\ globals[i].section \in Name /\ globals[j].section \in Name
            /\ globals[i].section.object \in Static /\ globals[j].section.object \in Static
        BY <2>1, <2>4, GlobalFacts, ElementsAccepted DEF StaticFinder, Elements
      <4> QED BY <4>1, NameAssumption
    <3> QED BY <3>4, <3>5, <3>6 DEF Precedes, i, j
  <2> QED BY <2>3, <2>4, FinderKinds
<1> QED BY <1>2, <1>3, <1>4

-----------------------------------------------------------------------------
\* The symbols.

\* As many elements as the levels before l have lie before its start.
LEMMA Counted ==
  ASSUME NEW f, ArrayOf(f), list \in Seq(Range(list)), IsInjective(list),
         NEW l \in DOMAIN list
  PROVE  /\ indices[l] \in Nat
         /\ l = 1 => indices[l] = 0
         /\ \A p \in DOMAIN values : indices[l] < p <=> l <= Place(order[p][1])
<1> DEFINE n == Cardinality(Collected)
           D == {k \in Collected : Place(k[1]) < l}
           T == {p \in 1 .. n : Place(order[p][1]) < l}
<1>1. /\ n \in Nat /\ DOMAIN order = 1 .. n /\ DOMAIN values = 1 .. n
      /\ \A p \in 1 .. n : order[p] \in Collected
      /\ \A k \in Collected : \E p \in 1 .. n : order[p] = k
      /\ \A p, q \in 1 .. n : p < q => Before(order[p], order[q])
  BY DEF ArrayOf
<1>2. \A k \in Collected : Place(k[1]) \in Nat /\ Place(k[1]) >= 1
  BY Places DEF Collected
<1>3. l \in Nat /\ l >= 1
  BY Places
<1>4. ASSUME NEW p \in 1 .. n, NEW q \in 1 .. n, p < q
      PROVE  Place(order[p][1]) <= Place(order[q][1])
  <2>1. Before(order[p], order[q])
    BY <1>1, <1>4
  <2>2. Place(order[p][1]) \in Nat /\ Place(order[q][1]) \in Nat
    BY <1>1, <1>2
  <2> QED BY <2>1, <2>2 DEF Before
<1>5. \A p, q \in 1 .. n : order[p] = order[q] => p = q
  BY <1>1 DEF ArrayOf
<1>6. IsFiniteSet(T) /\ Cardinality(T) \in Nat /\ T = 1 .. Cardinality(T)
  <2>1. ASSUME NEW p \in T, NEW q \in 1 .. n, q < p PROVE q \in T
    <3>1. Place(order[q][1]) <= Place(order[p][1]) /\ Place(order[p][1]) < l
      BY <1>4, <2>1
    <3>2. Place(order[q][1]) \in Nat /\ Place(order[p][1]) \in Nat
      BY <1>1, <1>2
    <3> QED BY <1>3, <3>1, <3>2
  <2>2. T \subseteq 1 .. n
    OBVIOUS
  <2> HIDE DEF T
  <2> QED BY <1>1, <2>1, <2>2, Segment
<1>7. Cardinality(D) = Cardinality(T)
  <2> DEFINE b == [p \in T |-> order[p]]
  <2>1. b \in [T -> D]
    BY <1>1
  <2>2. \A k \in D : \E p \in T : b[p] = k
    BY <1>1
  <2>3. \A p, q \in T : b[p] = b[q] => p = q
    BY <1>5
  <2> HIDE DEF b, D, T
  <2>4. b \in Bijection(T, D)
    BY <2>1, <2>2, <2>3 DEF Bijection, Injection, Surjection, IsInjective
  <2> QED BY <1>6, <2>4, FS_Bijection DEF ExistsBijection
<1>8. indices[l] = Cardinality(D)
  BY DEF indices
<1>9. ASSUME l = 1 PROVE indices[l] = 0
  <2>1. D = {}
    BY <1>2, <1>9
  <2> QED BY <1>8, <2>1, FS_EmptySet
<1>10. ASSUME NEW p \in DOMAIN values
       PROVE  indices[l] < p <=> l <= Place(order[p][1])
  <2>1. p \in 1 .. n /\ p \in Nat /\ Place(order[p][1]) \in Nat
    BY <1>1, <1>2
  <2>2. p \in T <=> p <= Cardinality(T)
    <3>1. \A q \in 1 .. n : q \in 1 .. Cardinality(T) <=> q <= Cardinality(T)
      BY <1>1, <1>6
    <3> HIDE DEF T
    <3> QED BY <1>6, <2>1, <3>1
  <2>3. p \in T <=> Place(order[p][1]) < l
    BY <2>1
  <2>4. p <= Cardinality(T) <=> ~ (Cardinality(T) < p)
    BY <1>6, <2>1
  <2>5. Place(order[p][1]) < l <=> ~ (l <= Place(order[p][1]))
    BY <1>3, <2>1
  <2> QED BY <1>7, <1>8, <2>2, <2>3, <2>4, <2>5
<1> QED BY <1>6, <1>7, <1>8, <1>9, <1>10

\* The symbols of f.
LEMMA OffsetFacts ==
  ASSUME NEW f \in Finder, ArrayOf(f), list \in Seq(Range(list)), IsInjective(list)
  PROVE  /\ \A s \in DOMAIN Offsets(f) :
              /\ s[1] = f.object /\ Offsets(f)[s] \in Nat
              /\ s[2] = "start" => Offsets(f)[s] = 0
         /\ NativeFinder(f) /\ list = f.levels =>
              \A l \in DOMAIN list :
                /\ Symbol(f, list[l]) \in DOMAIN Offsets(f)
                /\ Offsets(f)[Symbol(f, list[l])] = indices[l]
<1> DEFINE S == {Symbol(f, "end")} \cup {Symbol(f, l) : l \in Range(list) \ {Own}} \cup
                (IF list # << >> THEN {Symbol(f, "start")} ELSE {})
<1>1. Offsets(f) = [s \in S |->
         CASE s[2] = "start" -> indices[1]
           [] s[2] = "end"   -> Len(values) + 1
           [] OTHER          -> indices[Place(s[2])]]
  BY DEF Offsets, Place
<1>2. DOMAIN Offsets(f) = S
  BY <1>1
<1>3. \A s \in S : /\ s[2] = "start" => Offsets(f)[s] = indices[1]
                   /\ s[2] = "end" => Offsets(f)[s] = Len(values) + 1
                   /\ s[2] # "start" /\ s[2] # "end" => Offsets(f)[s] = indices[Place(s[2])]
  <2> HIDE DEF S
  <2> QED BY <1>1
<1>4. DOMAIN list = 1 .. Len(list) /\ Len(list) \in Nat
  BY Places
<1>5. Len(values) \in Nat
  <2> DEFINE m == Cardinality(Collected)
  <2>1. values = [p \in DOMAIN order |-> GVs[order[p]]] /\ DOMAIN order = 1 .. m /\ m \in Nat
    BY DEF ArrayOf, values
  <2> HIDE DEF m
  <2>2. values = [p \in 1 .. m |-> GVs[order[p]]]
    BY <2>1
  <2> QED BY <2>1, <2>2
<1>6. ASSUME NEW s \in S
      PROVE  /\ s[1] = f.object
             /\ s[2] = "start" => list # << >>
             /\ s[2] # "start" /\ s[2] # "end" => s[2] \in Range(list)
  <2>1. CASE s = Symbol(f, "end")
    BY <2>1 DEF Symbol
  <2>2. CASE s = Symbol(f, "start") /\ list # << >>
    BY <2>2 DEF Symbol
  <2>3. CASE \E l \in Range(list) : s = Symbol(f, l)
    <3>1. PICK l \in Range(list) : s = Symbol(f, l)
      BY <2>3
    <3>2. list # << >>
      BY <1>4 DEF Range
    <3> QED BY <3>1, <3>2 DEF Symbol
  <2> QED BY <2>1, <2>2, <2>3
<1>7. ASSUME NEW s \in S
      PROVE  /\ s[1] = f.object /\ Offsets(f)[s] \in Nat
             /\ s[2] = "start" => Offsets(f)[s] = 0
  <2>1. CASE s[2] = "start"
    <3>1. 1 \in DOMAIN list
      BY <1>4, <1>6, <2>1
    <3> QED BY <1>3, <1>6, <2>1, <3>1, Counted
  <2>2. CASE s[2] = "end"
    BY <1>3, <1>5, <1>6, <2>2
  <2>3. CASE s[2] # "start" /\ s[2] # "end"
    <3>1. Place(s[2]) \in DOMAIN list
      BY <1>6, <2>3, Places
    <3> QED BY <1>3, <1>6, <2>3, <3>1, Counted
  <2> QED BY <2>1, <2>2, <2>3
<1>8. ASSUME NativeFinder(f), list = f.levels, NEW l \in DOMAIN list
      PROVE  /\ Symbol(f, list[l]) \in S
             /\ Offsets(f)[Symbol(f, list[l])] = indices[l]
  <2>1. list[l] \in Range(list) /\ Place(list[l]) = l
    BY Places
  <2>2. list[l] \notin {"", "start", "end"}
    BY <1>8, <2>1 DEF NativeFinder
  <2>3. Symbol(f, list[l]) \in S /\ Symbol(f, list[l])[2] = list[l]
    BY <2>1, <2>2 DEF Symbol, Own
  <2> QED BY <1>3, <2>1, <2>2, <2>3
<1> QED BY <1>2, <1>7, <1>8

LEMMA AreaParted ==
  ASSUME NEW f \in Finder, NEW n, Gathered(f, n), ArrayOf(f), globals \in Modules,
         NEW at, \A s \in DOMAIN Offsets(f) \cap DOMAIN at : at[s] = Offsets(f)[s]
  PROVE  Parted(f, Area(f), at)
<1> SUFFICES ASSUME NEW l \in DOMAIN f.levels, NEW p \in DOMAIN Area(f),
                    Area(f)[p] # NullElement, Symbol(f, f.levels[l]) \in DOMAIN at
             PROVE  at[Symbol(f, f.levels[l])] < p <=> l <= Rank(f, Area(f)[p])
  BY DEF Parted
<1>1. NativeFinder(f)
  <2>1. ~ StaticFinder(f)
    BY DEF StaticFinder
  <2> QED BY <2>1, FinderKinds
<1>2. list = f.levels /\ list \in Seq(Range(list)) /\ IsInjective(list)
  BY <1>1 DEF Gathered, NativeFinder
<1>3. at[Symbol(f, f.levels[l])] = indices[l]
  BY <1>1, <1>2, OffsetFacts
<1>4. p \in DOMAIN values /\ Area(f)[p] = values[p]
  BY AreaFacts
<1>5. Rank(f, values[p]) = Place(order[p][1])
  BY <1>1, <1>2, <1>4, RankIsPlace DEF ArrayOf
<1>6. indices[l] < p <=> l <= Place(order[p][1])
  BY <1>2, <1>4, Counted
<1> QED BY <1>3, <1>4, <1>5, <1>6

\* A finder is done: its array and its symbols, and the next one begins.
LEMMA EmitStep == IInv /\ Emit => IInv'
<1> SUFFICES ASSUME IInv, Emit PROVE IInv'
  OBVIOUS
<1>1. /\ finders # << >> /\ next \notin DOMAIN globals
      /\ finders' = Tail(finders) /\ list' = FirstLevels(finders') /\ next' = 1 /\ GVs' = << >>
      /\ globals' = globals /\ declared' = declared
  BY DEF Emit
<1>2. PICK f \in Finder : f = Head(finders)
  BY <1>1 DEF IInv
<1>3. PICK n : n = next
  OBVIOUS
<1>4. Gathered(f, n) /\ globals \in Modules /\ \A i \in DOMAIN globals : i < n
  BY <1>1, <1>2, <1>3, GlobalFacts DEF IInv, Collecting
<1>5. ArrayOf(f)
  BY <1>4, Collects
<1>6. list \in Seq(Range(list)) /\ IsInjective(list)
  BY <1>4 DEF Gathered
<1>7. PICK area, offsets, at : area = Area(f) /\ offsets = Offsets(f) /\ at = symbols'
  OBVIOUS
<1>8. /\ areas' = At(f, area, areas)
      /\ at = [s \in DOMAIN symbols \cup (DOMAIN offsets \cap declared) |->
                 IF s \in DOMAIN offsets THEN offsets[s] ELSE symbols[s]]
  BY <1>2, <1>7 DEF Emit
<1>9. /\ DOMAIN at = DOMAIN symbols \cup (DOMAIN offsets \cap declared)
      /\ \A s \in DOMAIN at : at[s] = IF s \in DOMAIN offsets THEN offsets[s] ELSE symbols[s]
  BY <1>8
<1>10. \A s \in DOMAIN offsets :
         s[1] = f.object /\ offsets[s] \in Nat /\ (s[2] = "start" => offsets[s] = 0)
  BY <1>5, <1>6, <1>7, OffsetFacts
<1>11. ArrayRight(f, area, at)
  <2>1. \A s \in DOMAIN Offsets(f) \cap DOMAIN at : at[s] = Offsets(f)[s]
    BY <1>7, <1>9
  <2>2. Parted(f, area, at)
    BY <1>4, <1>5, <1>7, <2>1, AreaParted
  <2>3. Emulated(f, area)
    BY <1>4, <1>5, <1>7, AreaEmulated
  <2>4. Range(area) \subseteq DOMAIN globals \cup {NullElement} /\ Owned(f, area) /\ Covered(f, area)
    BY <1>4, <1>5, <1>7, AreaOwned, AreaCovered
  <2> QED BY <2>2, <2>3, <2>4 DEF ArrayRight
<1>12. ASSUME NEW g \in DOMAIN areas, g # f PROVE ArrayRight(g, areas[g], at)
  <2>1. g \in Finder /\ ArrayRight(g, areas[g], symbols)
    BY DEF IInv
  <2>2. g.object # f.object
    BY <1>12, <2>1, FinderObject
  <2>3. \A w : Symbol(g, w) \notin DOMAIN offsets
    BY <1>10, <2>2 DEF Symbol
  <2>4. \A w : Symbol(g, w) \in DOMAIN at =>
          Symbol(g, w) \in DOMAIN symbols /\ at[Symbol(g, w)] = symbols[Symbol(g, w)]
    BY <1>9, <2>3
  <2>5. Parted(g, areas[g], at)
    BY <2>1, <2>4 DEF ArrayRight, Parted
  <2> QED BY <2>1, <2>5 DEF ArrayRight
<1>13. DOMAIN areas' = DOMAIN areas \cup {f} /\ areas'[f] = area
       /\ \A g \in DOMAIN areas : g # f => areas'[g] = areas[g]
  BY <1>8 DEF At
<1>14. ASSUME NEW g \in DOMAIN areas' PROVE g \in Finder /\ ArrayRight(g, areas[g], symbols)'
  <2>1. PICK a : a = areas'[g]
    OBVIOUS
  <2>2. g \in Finder /\ ArrayRight(g, a, at)
    BY <1>11, <1>12, <1>13, <2>1 DEF IInv
  <2>3. ArrayRight(g, a, at)'
    BY <1>1, <2>2, StaysRight
  <2> QED BY <1>7, <2>1, <2>2, <2>3 DEF ArrayRight, Owned, Covered, Placed, Emulated, Parted
<1>15. SymbolsRight'
  <2>1. \A s \in DOMAIN at : at[s] \in Nat /\ (s[2] = "start" => at[s] = 0)
    BY <1>9, <1>10 DEF IInv, SymbolsRight
  <2>2. DOMAIN at \subseteq declared
    BY <1>9 DEF IInv, SymbolsRight
  <2> QED BY <1>1, <1>7, <2>1, <2>2 DEF SymbolsRight
<1>16. finders' \in Seq(Finder)
  BY <1>1 DEF IInv
<1>17. Collecting'
  <2>1. Beginning'
    BY <1>1, <1>4, <1>16 DEF Beginning
  <2> QED BY <2>1, BeginsNext
<1>18. next' \in 1 .. Len(globals') + 1 /\ globals' \in Modules
  BY <1>1, <1>4, GlobalFacts
<1> QED BY <1>13, <1>14, <1>15, <1>16, <1>17, <1>18 DEF IInv

LEMMA NextIInv == IInv /\ [Next]_vars => IInv'
<1> SUFFICES ASSUME IInv, [Next]_vars PROVE IInv'
  OBVIOUS
<1>1. CASE Collect
  BY <1>1, CollectStep
<1>2. CASE Emit
  BY <1>2, EmitStep
<1>3. CASE UNCHANGED vars
  <2>1. ASSUME NEW g \in DOMAIN areas PROVE ArrayRight(g, areas[g], symbols)'
    <3>1. PICK area, at : area = areas[g] /\ at = symbols
      OBVIOUS
    <3>2. ArrayRight(g, area, at)'
      BY <1>3, <3>1, StaysRight DEF IInv, vars
    <3>3. area = areas'[g] /\ at = symbols'
      BY <1>3, <3>1 DEF vars
    <3> QED BY <3>2, <3>3 DEF ArrayRight, Owned, Covered, Placed, Emulated, Parted
  <2>2. Collecting'
    BY <1>3 DEF vars, IInv, Collecting, Gathered, Accepts, Key
  <2> QED BY <1>3, <2>1, <2>2 DEF vars, IInv, SymbolsRight
<1> QED BY <1>1, <1>2, <1>3 DEF Next, Done

LEMMA InitIInv == Init => IInv
<1> SUFFICES ASSUME Init PROVE IInv
  OBVIOUS
<1>1. globals \in Modules
  <2>1. PICK n \in 0 .. MaxGlobals : globals \in [1 .. n -> [section : Name, type : Type]]
    BY DEF Init
  <2>2. n \in Nat
    BY BoundAssumption
  <2> DEFINE S == [section : Name, type : Type]
  <2>3. globals \in [1 .. n -> S]
    BY <2>1
  <2> HIDE DEF S
  <2>4. globals \in Seq(S)
    BY <2>2, <2>3
  <2> QED BY <2>4 DEF Modules, S
<1>2. finders \in Seq(Finder)
  BY <1>1, AllFinders DEF Init
<1>3. Collecting
  BY <1>1, <1>2, Begins DEF Init, Beginning
<1>4. next \in 1 .. Len(globals) + 1
  BY <1>1, GlobalFacts DEF Init
<1>5. DOMAIN areas = {} /\ DOMAIN symbols = {}
  BY DEF Init
<1> QED BY <1>1, <1>2, <1>3, <1>4, <1>5 DEF IInv, SymbolsRight

-----------------------------------------------------------------------------
\* The theorems.

\* The invariant of the loops of collectLinkerScriptSections.
THEOREM Inductive == Spec => []IInv
BY InitIInv, NextIInv, PTL DEF Spec

\* Each part has its type, and a finder lists a level once.
THEOREM TypeCorrect == Spec => []TypeOK
<1>1. IInv => TypeOK
  <2> SUFFICES ASSUME IInv PROVE TypeOK
    OBVIOUS
  <2>1. Range(GVs) \subseteq DOMAIN globals /\ \A i, j \in DOMAIN list : list[i] = list[j] => i = j
    <3>1. CASE finders = << >>
      BY <3>1 DEF IInv, Collecting, Range
    <3>2. CASE finders # << >>
      BY <3>2 DEF IInv, Collecting, Gathered, Range, IsInjective
    <3> QED BY <3>1, <3>2
  <2>2. \A f \in DOMAIN areas : Range(areas[f]) \subseteq DOMAIN globals \cup {NullElement}
    BY DEF IInv, ArrayRight
  <2>3. DOMAIN symbols \subseteq declared /\ Range(symbols) \subseteq Nat
    BY DEF IInv, SymbolsRight, Range
  <2> QED BY <2>1, <2>2, <2>3 DEF IInv, TypeOK, Modules
<1> QED BY <1>1, Inductive, PTL

\* Nothing gets into the array of a section it has nothing to do with: the
\* levels that two tables share do not mix their elements, as GVs is cleared.
THEOREM OwnElements == Spec => []OnlyOwnElements
<1>1. IInv => OnlyOwnElements
  BY DEF IInv, ArrayRight, Owned, OnlyOwnElements
<1> QED BY <1>1, Inductive, PTL

\* Every input section has a place of its own in the array of its section, by its
\* name, and there its last global, or null for one of another type.
THEOREM AllCovered == Spec => []NamesCovered
<1>1. IInv => NamesCovered
  BY DEF IInv, ArrayRight, Covered, Placed, NamesCovered
<1> QED BY <1>1, Inductive, PTL

\* The symbol of a level parts the array of its section, whatever the levels
\* are and however many elements they have.
THEOREM SymbolsPart == Spec => []LevelsPartArray
<1>1. IInv => LevelsPartArray
  BY DEF IInv, ArrayRight, Parted, LevelsPartArray
<1> QED BY <1>1, Inductive, PTL

\* The array of a plain section has what a linker puts there, by level and then by
\* priority, which the code's order of strings is as long as the priorities of a
\* level have as many digits, and starts at its start.
THEOREM Emulation == Spec => []EmulatesLinker
<1>1. IInv => EmulatesLinker
  <2> SUFFICES ASSUME IInv, NEW f \in DOMAIN areas, Plain(f)
               PROVE  /\ Range(areas[f]) = Elements(f)
                      /\ \A i, j \in DOMAIN areas[f] :
                           i < j => Precedes(f, areas[f][i], areas[f][j])
                      /\ Symbol(f, "start") \in DOMAIN symbols => symbols[Symbol(f, "start")] = 0
    BY DEF EmulatesLinker
  <2>1. Emulated(f, areas[f])
    BY DEF IInv, ArrayRight
  <2>2. Symbol(f, "start") \in DOMAIN symbols => symbols[Symbol(f, "start")] = 0
    BY DEF IInv, SymbolsRight, Symbol
  <2> QED BY <2>1, <2>2 DEF Emulated
<1> QED BY <1>1, Inductive, PTL

=============================================================================

------------------------------- MODULE Sections -------------------------------
(***************************************************************************)
(* The linker script's work on a module: collectLinkerScriptSections       *)
(* (irinterpreter2-sections.cc) gathers the globals of each section into   *)
(* one array, sorted by level and then by section name, and turns the      *)
(* symbols a linker script defines into aliases of places in that array.   *)
(*                                                                         *)
(* A section name is a record: the object or prefix it starts with, the    *)
(* level and the priority in it, with how many digits that is written      *)
(* (no digits: 0), and `key`, its place in the order of strings among      *)
(* names that start alike.  Globals are numbered in the module's order.    *)
(***************************************************************************)
EXTENDS Integers, Sequences, FiniteSets, SequencesExt

CONSTANTS
  Name,       \* the section names that occur
  Static,     \* objects of Zephyr's iterable sections: "._<object>.static.<key>"
  Mandatory,  \* those that get a section in any case, in order
  StartsWith, \* pairs of objects: the first one's name starts with the second's
  Native,     \* the table configs[]: [object, prefix, levels in order]
  Type,       \* types of elements
  Referred,   \* sets of finders whose symbols a program refers to
  MaxGlobals  \* bound: globals in the module

\* What starts with an object of a static section has no level and no priority,
\* and the key tells apart the names that start alike and have one level.  Of
\* numbers with as many digits the order of strings is that of numbers.
ASSUME NameAssumption ==
  \A s \in Name :
    /\ s.key \in Nat /\ s.prio \in Nat /\ (s.object \in Static => s.prio = 0)
    /\ s.object \in Static \/ \E i \in DOMAIN Native : Native[i].prefix = s.object
    /\ \A t \in Name :
         t.object = s.object /\ t.key = s.key /\ (s.object \in Static \/ t.level = s.level) => t = s
    /\ \A t \in Name :
         /\ t.object = s.object /\ t.level = s.level /\ t.digits = s.digits
         /\ s.prio < t.prio
         => s.key < t.key
ASSUME PrefixAssumption ==
  StartsWith \subseteq Static \X Static /\ \A o \in Static : <<o, o>> \in StartsWith
ASSUME MandatoryAssumption == Mandatory \in Seq(Static)
\* The names of static objects are not empty.  No two tables are of one object,
\* no table is of a static one, and a table lists a level once and none under
\* the names its start and end go by here.
ASSUME ObjectAssumption == "" \notin Static
ASSUME NativeAssumption ==
  /\ Native \in Seq(Range(Native))
  /\ \A i \in DOMAIN Native :
       LET c == Native[i]
       IN  /\ c.object \notin Static /\ c.levels \in Seq(Range(c.levels))
           /\ Range(c.levels) \cap {"", "start", "end"} = {}
           /\ \A l, m \in DOMAIN c.levels : c.levels[l] = c.levels[m] => l = m
           /\ \A j \in DOMAIN Native : Native[j].object = c.object => i = j
ASSUME BoundAssumption == MaxGlobals \in Nat

VARIABLES
  globals,   \* the module's globals: the section name and the type of each
  declared,  \* the linker symbols the program refers to
  finders,   \* the section finders still to do; the first one is being done
  next,      \* the global the first finder looks at next
  GVs,       \* level and section name -> the global collected for it
  list,      \* SectionFinder::list of the first finder: its levels
  areas,     \* finder -> the elements of its array
  symbols    \* linker symbol -> the offset it stands for

vars == <<globals, declared, finders, next, GVs, list, areas, symbols>>

ZephyrStaticSection(o) == [object |-> o, prefix |-> o, levels |-> << >>, static |-> TRUE]
ZephyrNativeSection(conf) ==
  [object |-> conf.object, prefix |-> conf.prefix, levels |-> conf.levels, static |-> FALSE]

\* What is declared: the start, the end, or the start of a level.
Symbol(f, which) == <<f.object, which>>
SymbolsOf(f) == {Symbol(f, w) : w \in {"start", "end"} \cup Range(f.levels)}

-----------------------------------------------------------------------------
\* Section names: SectionFinder and ZephyrStaticSection.

\* ZephyrStaticSection::test only asks what the name starts with.
test(f, s) == IF f.static THEN <<s.object, f.object>> \in StartsWith ELSE s.object = f.prefix

\* Of another object the rest of its name is left as the level.
Own == ""
level(f, s) == IF ~f.static THEN s.level ELSE IF s.object = f.object THEN Own ELSE s.object

hasLevel(f, s) == f.static \/ s.level \in Range(f.levels)

\* The elements of S in an order in which no pair of R is the wrong way round.
Sorted(S, R) ==
  CHOOSE s \in [1 .. Cardinality(S) -> S] :
    IsInjective(s) /\ \A i, j \in 1 .. Cardinality(S) : i < j => <<s[j], s[i]>> \notin R

\* The objects in the module's sections, in the order in which they are found.
first(o) == CHOOSE i \in DOMAIN globals :
              /\ globals[i].section.object = o
              /\ \A j \in DOMAIN globals : globals[j].section.object = o => i <= j
FoundObjects ==
  LET found == ({globals[i].section.object : i \in DOMAIN globals} \cap Static) \ Range(Mandatory)
  IN  Sorted(found, {p \in found \X found : first(p[1]) < first(p[2])})

InitializeZephyrSectionFinders ==
  [i \in DOMAIN Mandatory |-> ZephyrStaticSection(Mandatory[i])]
    \o [i \in DOMAIN FoundObjects |-> ZephyrStaticSection(FoundObjects[i])]
    \o [i \in DOMAIN Native |-> ZephyrNativeSection(Native[i])]

-----------------------------------------------------------------------------
\* The array has the globals of the levels in list, level by level, and in a
\* level in the order of a std::map, sorted by section name.
Place(l) == CHOOSE i \in DOMAIN list : list[i] = l
Collected == {k \in DOMAIN GVs : k[1] \in Range(list)}

\* Variant: in the order of the module.
Before_Unsorted(j, k) ==
  Place(j[1]) < Place(k[1]) \/ (j[1] = k[1] /\ GVs[j] < GVs[k])
Before(j, k) ==
  Place(j[1]) < Place(k[1]) \/ (j[1] = k[1] /\ j[2].key < k[2].key)

order == Sorted(Collected, {p \in Collected \X Collected : Before(p[1], p[2])})
values == [i \in DOMAIN order |-> GVs[order[i]]]

\* Where each level starts: behind what is of the levels before it.
\* Variant: one level late.
indices_Late == [i \in DOMAIN list |-> Cardinality({k \in Collected : Place(k[1]) <= i})]
indices == [i \in DOMAIN list |-> Cardinality({k \in Collected : Place(k[1]) < i})]

\* getType: what the symbols are declared with, or the type of the first
\* element.  The program's symbols have the type of their finder's table.
SymbolType(f) == CHOOSE t \in Type : \A u \in Type : t <= u
ElementType(f) ==
  IF {Symbol(f, "start"), Symbol(f, "end")} \cap declared # {} \/ values = << >>
  THEN SymbolType(f) ELSE globals[values[1]].type

\* emitLinkerScriptGlobal: null in place of an element of another type.
NullElement == 0
Area(f) ==
  [i \in DOMAIN values |->
     IF globals[values[i]].type = ElementType(f) THEN values[i] ELSE NullElement]

\* emitLinkerScriptGlobalsOffset, for all symbols of a finder.
Offsets(f) ==
  [s \in {Symbol(f, "end")} \cup {Symbol(f, l) : l \in Range(list) \ {Own}} \cup
         (IF list # << >> THEN {Symbol(f, "start")} ELSE {}) |->
     CASE s[2] = "start" -> indices[1]
       [] s[2] = "end"   -> Len(values) + 1
       [] OTHER          -> indices[CHOOSE i \in DOMAIN list : list[i] = s[2]]]

-----------------------------------------------------------------------------
\* SectionFinder::SectionFinder, for the finder that is next.
FirstLevels(fs) == IF fs = << >> THEN << >> ELSE Head(fs).levels

Init ==
  /\ \E n \in 0 .. MaxGlobals : globals \in [1 .. n -> [section : Name, type : Type]]
  /\ finders = InitializeZephyrSectionFinders
  /\ \E D \in Referred :
       declared = UNION {SymbolsOf(f) : f \in {f \in Range(finders) : f.object \in D}}
  /\ next = 1
  /\ GVs = << >>
  /\ list = FirstLevels(finders)
  /\ areas = << >> /\ symbols = << >>

At(f, x, m) == [y \in DOMAIN m \cup {f} |-> IF y = f THEN x ELSE m[y]]

\* Variant: a static section is recognised by its prefix alone, its level is
\* not recorded.
Collect_NoLevel ==
  /\ finders # << >> /\ next \in DOMAIN globals
  /\ LET f == Head(finders)
         s == globals[next].section
     IN  IF test(f, s) /\ hasLevel(f, s)
         THEN GVs' = At(<<level(f, s), s>>, next, GVs)
         ELSE UNCHANGED GVs
  /\ next' = next + 1
  /\ UNCHANGED <<globals, declared, finders, list, areas, symbols>>

\* Variant: push_level without looking whether the level is there.
Collect_Push ==
  /\ finders # << >> /\ next \in DOMAIN globals
  /\ LET f == Head(finders)
         s == globals[next].section
     IN  IF test(f, s) /\ hasLevel(f, s)
         THEN /\ GVs' = At(<<level(f, s), s>>, next, GVs)
              /\ list' = Append(list, level(f, s))
         ELSE UNCHANGED <<GVs, list>>
  /\ next' = next + 1
  /\ UNCHANGED <<globals, declared, finders, areas, symbols>>

\* One global: a second one of the same section name takes the first one's
\* place.
Collect ==
  /\ finders # << >> /\ next \in DOMAIN globals
  /\ LET f == Head(finders)
         s == globals[next].section
     IN  IF test(f, s) /\ hasLevel(f, s)
         THEN /\ GVs' = At(<<level(f, s), s>>, next, GVs)
              /\ list' = IF level(f, s) \in Range(list) THEN list
                         ELSE Append(list, level(f, s))
         ELSE UNCHANGED <<GVs, list>>
  /\ next' = next + 1
  /\ UNCHANGED <<globals, declared, finders, areas, symbols>>

\* Variant: without GVs.clear().
Emit_Keep ==
  /\ finders # << >> /\ next \notin DOMAIN globals
  /\ LET f == Head(finders)
         offsets == Offsets(f)
     IN  /\ areas' = At(f, Area(f), areas)
         /\ symbols' = [s \in DOMAIN symbols \cup (DOMAIN offsets \cap declared) |->
                          IF s \in DOMAIN offsets THEN offsets[s] ELSE symbols[s]]
  /\ finders' = Tail(finders)
  /\ list' = FirstLevels(finders')
  /\ next' = 1
  /\ UNCHANGED <<globals, declared, GVs>>

\* The section's array and its symbols; on to the next finder.
Emit ==
  /\ finders # << >> /\ next \notin DOMAIN globals
  /\ LET f == Head(finders)
         offsets == Offsets(f)
     IN  /\ areas' = At(f, Area(f), areas)
         /\ symbols' = [s \in DOMAIN symbols \cup (DOMAIN offsets \cap declared) |->
                          IF s \in DOMAIN offsets THEN offsets[s] ELSE symbols[s]]
  /\ finders' = Tail(finders)
  /\ list' = FirstLevels(finders')
  /\ next' = 1
  /\ GVs' = << >>
  /\ UNCHANGED <<globals, declared>>

Done == finders = << >> /\ UNCHANGED vars

Next == Collect \/ Emit \/ Done

Spec == Init /\ [][Next]_vars

-----------------------------------------------------------------------------
\* Each part has its type, and a finder lists a level once.
\* (SectionFinder::push_level.)
TypeOK ==
  /\ globals \in Seq([section : Name, type : Type])
  /\ next \in 1 .. Len(globals) + 1
  /\ Range(GVs) \subseteq DOMAIN globals
  /\ \A i, j \in DOMAIN list : list[i] = list[j] => i = j
  /\ \A f \in DOMAIN areas : Range(areas[f]) \subseteq DOMAIN globals \cup {NullElement}
  /\ DOMAIN symbols \subseteq declared /\ Range(symbols) \subseteq Nat

Elements(f) ==
  {i \in DOMAIN globals :
     LET s == globals[i].section
     IN  IF f.static THEN s.object = f.object ELSE s.object = f.prefix /\ hasLevel(f, s)}

Rank(f, i) ==
  IF f.static THEN 1
  ELSE CHOOSE l \in DOMAIN f.levels : f.levels[l] = globals[i].section.level

\* A linker sorts the elements of a level by priority: the patterns of a linker
\* script put one digit before two.  Without priorities it sorts them by name.
Precedes(f, i, j) ==
  LET s == globals[i].section
      t == globals[j].section
  IN  \/ Rank(f, i) < Rank(f, j)
      \/ Rank(f, i) = Rank(f, j) /\ s.prio < t.prio
      \/ Rank(f, i) = Rank(f, j) /\ s.prio = t.prio /\ s.key < t.key

\* What the emulation can cope with: no two globals in one input section,
\* elements of the symbols' type, priorities of a level with as many digits, and
\* no other object whose name goes on after this one's.
Plain(f) ==
  /\ \A i, j \in Elements(f) : globals[i].section = globals[j].section => i = j
  /\ \A i, j \in Elements(f) :
       Rank(f, i) = Rank(f, j) => globals[i].section.digits = globals[j].section.digits
  /\ \A i \in Elements(f) : globals[i].type = SymbolType(f)
  /\ \A i \in DOMAIN globals \ Elements(f) : f.static => ~test(f, globals[i].section)

\* "This file emulates the linker": the array of a plain section has what a
\* linker would put there, in the order of priorities, and starts at its start.
EmulatesLinker ==
  \A f \in DOMAIN areas : Plain(f) =>
    /\ Range(areas[f]) = Elements(f)
    /\ \A i, j \in DOMAIN areas[f] : i < j => Precedes(f, areas[f][i], areas[f][j])
    /\ Symbol(f, "start") \in DOMAIN symbols => symbols[Symbol(f, "start")] = 0

\* A level's symbol parts its section: what is of an earlier level lies before
\* it, all else behind.  (The list `indices`, popped level by level.)
LevelsPartArray ==
  \A f \in DOMAIN areas : \A l \in DOMAIN f.levels :
    LET start == Symbol(f, f.levels[l])
    IN  start \in DOMAIN symbols =>
          \A i \in DOMAIN areas[f] : areas[f][i] # NullElement =>
            (symbols[start] < i <=> l <= Rank(f, areas[f][i]))

\* Nothing gets into the array of a section it has nothing to do with, though
\* levels of two tables are called the same.
OnlyOwnElements ==
  \A f \in DOMAIN areas : \A i \in Range(areas[f]) \ {NullElement} :
    i \in Elements(f) \/ (f.static /\ test(f, globals[i].section))

\* The last global of each input section that the finder's pattern matches.
LastOf(f) ==
  {i \in DOMAIN globals :
     LET s == globals[i].section
     IN  /\ test(f, s) /\ hasLevel(f, s)
         /\ \A j \in DOMAIN globals : globals[j].section = s => j <= i}

\* The type of the elements of an array.
AreaType(f, area) ==
  IF {Symbol(f, "start"), Symbol(f, "end")} \cap declared # {} \/ area = << >>
  THEN SymbolType(f) ELSE globals[area[1]].type

\* Every input section that occurs has a place of its own in the array, in a
\* level by its name, and there its last global, or null for one of another type.
NamesCovered ==
  \A f \in DOMAIN areas : \E place \in [LastOf(f) -> DOMAIN areas[f]] :
    /\ IsInjective(place) /\ DOMAIN areas[f] \subseteq Range(place)
    /\ \A i \in LastOf(f) :
         areas[f][place[i]] = IF globals[i].type = AreaType(f, areas[f]) THEN i ELSE NullElement
    /\ \A i, j \in LastOf(f) :
         LET s == globals[i].section
             t == globals[j].section
         IN  level(f, s) = level(f, t) /\ s.key < t.key => place[i] < place[j]

\* "how LLVM would usually create a pointer to the end of an array" (:354): the
\* end symbol is one past the last element.
EndBehindLast ==
  \A f \in DOMAIN areas :
    Symbol(f, "end") \in DOMAIN symbols => symbols[Symbol(f, "end")] = Len(areas[f])

\* "These sections are required even if they are empty and not found" (:451):
\* a mandatory section defines the start symbol a program refers to.
MandatoryHasStart ==
  \A f \in DOMAIN areas :
    f.object \in Range(Mandatory) /\ Symbol(f, "start") \in declared =>
      Symbol(f, "start") \in DOMAIN symbols

=============================================================================

----------------------------- MODULE SessionProofs -----------------------------
(***************************************************************************)
(* Proofs about Session, for all programs, all types and any number of     *)
(* calls: what the caches may get wrong, what a reset leads back to, the   *)
(* flags that are faked while an interpreter is created and the operands   *)
(* that are replaced while an instruction is evaluated, which field an     *)
(* access goes to, and that a value is read as it was written.             *)
(***************************************************************************)
EXTENDS Session, StructAccessProofs

-----------------------------------------------------------------------------
\* Searches by name.

\* The first hit is a hit, and none is before it.
LEMMA FirstHit ==
  ASSUME NEW n \in Nat, NEW F, DOMAIN F = 1 .. n
  PROVE  \/ First(F) = NoType /\ \A i \in 1 .. n : F[i] = NoType
         \/ \E i \in 1 .. n : /\ First(F) = F[i] /\ F[i] # NoType
                              /\ \A j \in 1 .. n : F[j] # NoType => i <= j
<1> DEFINE hits == {i \in DOMAIN F : F[i] # NoType}
<1>1. CASE hits = {}
  BY <1>1 DEF First
<1>2. CASE hits # {}
  <2>1. hits \subseteq Nat
    OBVIOUS
  <2>2. \E i \in hits : \A j \in hits : i <= j
    <3> HIDE DEF hits
    <3> QED BY <1>2, <2>1, Least
  <2>3. Min(hits) \in hits /\ \A j \in hits : Min(hits) <= j
    <3> HIDE DEF hits
    <3> QED BY <2>2 DEF Min
  <2>4. First(F) = F[Min(hits)]
    BY <1>2 DEF First
  <2> QED BY <2>3, <2>4
<1> QED BY <1>1, <1>2

\* More searches behind the others change no hit.
LEMMA FirstOfMore ==
  ASSUME NEW n \in Nat, NEW m \in Nat, n <= m, NEW F, NEW G,
         DOMAIN F = 1 .. n, DOMAIN G = 1 .. m,
         \A i \in 1 .. n : G[i] = F[i],
         First(F) # NoType
  PROVE  First(G) = First(F)
<1>1. PICK i \in 1 .. n : /\ First(F) = F[i] /\ F[i] # NoType
                          /\ \A j \in 1 .. n : F[j] # NoType => i <= j
  BY FirstHit
<1>2. i \in 1 .. m /\ G[i] = F[i]
  OBVIOUS
<1>3. PICK k \in 1 .. m : /\ First(G) = G[k] /\ G[k] # NoType
                          /\ \A j \in 1 .. m : G[j] # NoType => k <= j
  BY <1>1, <1>2, FirstHit
<1>4. k <= i
  BY <1>1, <1>2, <1>3
<1>5. k \in 1 .. n /\ F[k] # NoType
  BY <1>3, <1>4
<1>6. k = i
  BY <1>1, <1>4, <1>5
<1> QED BY <1>1, <1>2, <1>3, <1>6

\* A named struct of a file has the name.
LEMMA NamedMeant ==
  ASSUME NEW types \in Seq(Structs), NEW name
  PROVE  named(types, name) \in Meant(name) \union {NoType}
<1> DEFINE hits == {i \in DOMAIN types : Name(types[i]) = name}
<1>1. CASE hits = {}
  BY <1>1 DEF named
<1>2. CASE hits # {}
  <2>1. hits \subseteq Nat
    OBVIOUS
  <2>2. \E i \in hits : \A j \in hits : i <= j
    <3> HIDE DEF hits
    <3> QED BY <1>2, <2>1, Least
  <2>3. Min(hits) \in hits
    <3> HIDE DEF hits
    <3> QED BY <2>2 DEF Min
  <2>4. named(types, name) = types[Min(hits)]
    BY <1>2 DEF named
  <2>5. types[Min(hits)] \in Structs /\ Name(types[Min(hits)]) = name
    BY <2>3
  <2> QED BY <2>4, <2>5 DEF Meant
<1> QED BY <1>1, <1>2

\* Two of one name are ambiguous.
LEMMA TwoAmbiguous ==
  ASSUME NEW name, NEW t \in Meant(name), NEW u \in Meant(name), t # u
  PROVE  Ambiguous(name)
<1>1. IsFiniteSet(Meant(name))
  <2>1. Meant(name) \subseteq Node /\ IsFiniteSet(Node)
    BY TypesAssumption DEF TypesAssumption, Meant, Structs
  <2> QED BY <2>1, FS_Subset
<1>2. {t, u} \subseteq Meant(name) /\ IsFiniteSet({t, u}) /\ Cardinality({t, u}) = 2
  <2>1. IsFiniteSet({u}) /\ Cardinality({u}) = 1 /\ t \notin {u}
    BY FS_Singleton
  <2>2. IsFiniteSet({u} \cup {t}) /\ Cardinality({u} \cup {t}) = 2
    BY <2>1, FS_AddElement
  <2> QED BY <2>2, {u} \cup {t} = {t, u}
<1>3. Cardinality(Meant(name)) >= 2
  BY <1>1, <1>2, FS_Subset
<1>4. Cardinality(Meant(name)) \in Nat
  BY <1>1, FS_CardinalityType
<1> QED BY <1>3, <1>4 DEF Ambiguous

-----------------------------------------------------------------------------
\* The invariant.

\* What the variables hold.
GlobalMap(m) == m \in [DOMAIN m -> GlobalVariable]

Typed ==
  /\ program \in Programs /\ status \in Status /\ calls \in 0 .. MaxCalls
  /\ created \in BOOLEAN /\ clean \in BOOLEAN
  /\ parsing \in Seq(Files(program)) /\ linked \in Seq(Files(program))
  /\ GlobalMap(module) /\ GlobalMap(clone)

Sized(m, mem) ==
  /\ mem \in [DOMAIN m -> Seq(Word \ {"undef"})]
  /\ \A g \in DOMAIN m : Len(mem[g]) = m[g].size

\* The flag of a global is what some file of the program says.
FlaggedBy(p, m) ==
  \A g \in DOMAIN m :
    \E f \in Files(p) : g \in DOMAIN f.globals /\ m[g].tls = f.globals[g].tls
Flagged(m) == FlaggedBy(program, m)

\* What has been linked is in the module, and what is known has been linked.
Contained ==
  /\ \A i \in DOMAIN linked : DOMAIN linked[i].globals \subseteq DOMAIN module
  /\ known \in Seq(Files(program)) /\ Len(known) <= Len(linked)
  /\ \A i \in 1 .. Len(known) : known[i] = linked[i]

\* Memory that is initialised: each word that has an initial value has that.
Initialised(m, mem) ==
  \A g \in DOMAIN m : ~ m[g].tls =>
    \A i \in DOMAIN m[g].init \intersect DOMAIN mem[g] :
      m[g].init[i] # "undef" => mem[g][i] = m[g].init[i]

\* The caches hold what a search found at the time, and nobody looks anything up
\* during a parse.
Caches ==
  /\ STCache \in [DOMAIN STCache -> Structs \union {NoType}]
  /\ DICache \in [DOMAIN DICache -> OptNode]
  /\ \A name \in DOMAIN STCache :
       \/ STCache[name] = findType(name)
       \/ name \in early /\ (STCache[name] = NoType \/ Ambiguous(name))
  /\ \A name \in DOMAIN DICache :
       \/ DICache[name] = findKnown(name)
       \/ name \in early /\ DICache[name] = NoType
  /\ Parsing => DOMAIN STCache \union DOMAIN DICache \subseteq early

\* The object has the size of its type, which is in the cache.
ObjectSize == IF STCache[object.name] = NoType THEN 0 ELSE Size(STCache[object.name])
Allocated ==
  /\ DOMAIN object = {"name", "bytes"}
  /\ object # NoObject =>
       object.name \in DOMAIN STCache /\ DOMAIN object.bytes = 1 .. ObjectSize
  /\ DOMAIN written \subseteq {f.path : f \in FieldsOf(object.name)}

Memories ==
  /\ Sized(clone, memory) /\ Sized(clone, image)
  /\ Initialised(clone, image) /\ (clean => Initialised(clone, memory))

IInv ==
  /\ Typed /\ Flagged(module) /\ Flagged(clone)
  /\ Contained /\ Memories /\ Caches /\ Allocated

-----------------------------------------------------------------------------
\* What an action leaves alone.

LEMMA MemoriesKept ==
  ASSUME Memories, UNCHANGED <<clone, memory, image, clean>>
  PROVE  Memories'
BY DEF Memories, Sized, Initialised

LEMMA FlaggedKept ==
  ASSUME Flagged(clone), UNCHANGED <<clone, program>>
  PROVE  Flagged(clone)'
BY DEF Flagged, FlaggedBy

LEMMA FlaggedSame ==
  ASSUME Flagged(module), UNCHANGED <<module, program>>
  PROVE  Flagged(module)'
BY DEF Flagged, FlaggedBy

LEMMA ContainedKept ==
  ASSUME Contained, UNCHANGED <<linked, known, program>>, DOMAIN module' = DOMAIN module
  PROVE  Contained'
BY DEF Contained

LEMMA AllocatedKept ==
  ASSUME Allocated, UNCHANGED accessVars
  PROVE  Allocated'
BY DEF Allocated, ObjectSize, accessVars

LEMMA NothingAllocated ==
  ASSUME object' = NoObject, written' = << >>
  PROVE  Allocated'
<1>1. DOMAIN written' = {}
  OBVIOUS
<1>2. ~ (object' # NoObject)
  OBVIOUS
<1>4. DOMAIN object' = {"name", "bytes"}
  BY DEF NoObject
<1>3. Allocated' = /\ DOMAIN object' = {"name", "bytes"}
                   /\ object' # NoObject =>
                        object.name' \in DOMAIN STCache' /\ DOMAIN object.bytes' = 1 .. ObjectSize'
                   /\ DOMAIN written' \subseteq {f.path : f \in FieldsOf(object.name)}'
  BY DEF Allocated, NoObject
<1> QED BY <1>1, <1>2, <1>3, <1>4

LEMMA SearchesKept ==
  ASSUME UNCHANGED <<linked, known>>
  PROVE  \A name : findType(name)' = findType(name) /\ findKnown(name)' = findKnown(name)
BY DEF findType, findKnown, inGlobals, inFunctions

LEMMA CachesKept ==
  ASSUME Caches, UNCHANGED <<STCache, DICache, linked, known, early>>, ~ Parsing'
  PROVE  Caches'
<1>1. \A name : findType(name)' = findType(name) /\ findKnown(name)' = findKnown(name)
  BY SearchesKept
<1> QED BY <1>1 DEF Caches

-----------------------------------------------------------------------------
\* Programs.

\* What the assumption on programs says of one file.
LEMMA FileFacts ==
  ASSUME NEW p \in Programs, NEW f \in Files(p)
  PROVE  /\ f.inGlobals \in Seq(Structs) /\ f.inFunctions \in Seq(Structs)
         /\ f.types \in Seq(Node) /\ f.globals \in [DOMAIN f.globals -> GlobalVariable]
         /\ \A h \in Files(p) : \A g \in DOMAIN f.globals \intersect DOMAIN h.globals :
              f.globals[g].tls = h.globals[g].tls
BY ProgramsAssumption

LEMMA ParseFacts ==
  ASSUME NEW p \in Programs, NEW files \in p.parses
  PROVE  files \in Seq(Files(p))
<1>1. files \in Seq(Range(files))
  BY ProgramsAssumption
<1>2. Range(files) \subseteq Files(p)
  BY DEF Files
<1> QED BY <1>1, <1>2, SeqDef

-----------------------------------------------------------------------------
\* What a search finds, before and behind a parse.

\* The first hit of several searches is one of them.
LEMMA FirstIn ==
  ASSUME NEW n \in Nat, NEW S, NEW F \in [1 .. n -> S \union {NoType}]
  PROVE  First(F) \in S \union {NoType}
BY FirstHit

\* What a search in IR finds has the name.
LEMMA FoundMeant ==
  ASSUME Typed
  PROVE  \A name : /\ inGlobals(name) \in Meant(name) \union {NoType}
                   /\ inFunctions(name) \in Meant(name) \union {NoType}
                   /\ findType(name) \in Meant(name) \union {NoType}
<1> SUFFICES ASSUME NEW name
             PROVE  /\ inGlobals(name) \in Meant(name) \union {NoType}
                    /\ inFunctions(name) \in Meant(name) \union {NoType}
                    /\ findType(name) \in Meant(name) \union {NoType}
  OBVIOUS
<1>1. PICK n \in Nat : DOMAIN linked = 1 .. n
  BY DEF Typed
<1>2. ASSUME NEW i \in 1 .. n
      PROVE  /\ named(linked[i].inGlobals, name) \in Meant(name) \union {NoType}
             /\ named(linked[i].inFunctions, name) \in Meant(name) \union {NoType}
  <2>1. linked[i] \in Files(program) /\ program \in Programs
    BY <1>1 DEF Typed
  <2>2. linked[i].inGlobals \in Seq(Structs) /\ linked[i].inFunctions \in Seq(Structs)
    BY <2>1, FileFacts
  <2> QED BY <2>2, NamedMeant
<1>3. inGlobals(name) \in Meant(name) \union {NoType}
  <2> DEFINE F == [i \in DOMAIN linked |-> named(linked[i].inGlobals, name)]
  <2>1. F \in [1 .. n -> Meant(name) \union {NoType}]
    BY <1>1, <1>2
  <2>2. inGlobals(name) = First(F)
    BY DEF inGlobals
  <2> HIDE DEF F
  <2> QED BY <2>1, <2>2, FirstIn
<1>4. inFunctions(name) \in Meant(name) \union {NoType}
  <2> DEFINE F == [i \in DOMAIN linked |-> named(linked[i].inFunctions, name)]
  <2>1. F \in [1 .. n -> Meant(name) \union {NoType}]
    BY <1>1, <1>2
  <2>2. inFunctions(name) = First(F)
    BY DEF inFunctions
  <2> HIDE DEF F
  <2> QED BY <2>1, <2>2, FirstIn
<1> QED BY <1>3, <1>4 DEF findType

LEMMA AllMeant == Typed => \A name : findType(name) \in Meant(name) \union {NoType}
BY FoundMeant

LEMMA AllMeantNext ==
  Typed' => (\A name : findType(name) \in Meant(name) \union {NoType})'
BY AllMeant, PTL

\* A struct that is found in a list is in it.
LEMMA StructIn ==
  ASSUME NEW types \in Seq(Node), NEW name
  PROVE  findStruct(types, name) \in OptNode
<1> DEFINE hits == {i \in DOMAIN types : Name(types[i]) = name /\ Tag(types[i]) = "struct"}
<1>1. CASE hits = {}
  BY <1>1 DEF findStruct, OptNode
<1>2. CASE hits # {}
  <2>1. hits \subseteq Nat
    OBVIOUS
  <2>2. \E i \in hits : \A j \in hits : i <= j
    <3> HIDE DEF hits
    <3> QED BY <1>2, <2>1, Least
  <2>3. Min(hits) \in hits
    <3> HIDE DEF hits
    <3> QED BY <2>2 DEF Min
  <2>4. findStruct(types, name) = types[Min(hits)]
    BY <1>2 DEF findStruct
  <2> QED BY <2>3, <2>4 DEF OptNode
<1> QED BY <1>1, <1>2

\* What a search in the debug info finds is a type.
LEMMA KnownNode ==
  ASSUME Typed, Contained
  PROVE  \A name : findKnown(name) \in OptNode
<1> SUFFICES ASSUME NEW name PROVE findKnown(name) \in OptNode
  OBVIOUS
<1>1. PICK n \in Nat : DOMAIN known = 1 .. n
  BY DEF Contained
<1> DEFINE F == [i \in DOMAIN known |-> findStruct(known[i].types, name)]
<1>2. ASSUME NEW i \in 1 .. n PROVE findStruct(known[i].types, name) \in OptNode
  <2>1. known[i] \in Files(program) /\ program \in Programs
    BY <1>1 DEF Typed, Contained
  <2> QED BY <2>1, FileFacts, StructIn
<1>3. F \in [1 .. n -> Node \union {NoType}]
  BY <1>1, <1>2 DEF OptNode
<1>4. findKnown(name) = First(F)
  BY DEF findKnown
<1> HIDE DEF F
<1> QED BY <1>3, <1>4, FirstIn DEF OptNode

\* With another file behind the others nothing that was found is lost.
LEMMA StillFound ==
  ASSUME Typed, NEW f, linked' = Append(linked, f)
  PROVE  \A name : findType(name) # NoType => findType(name)' # NoType
<1> SUFFICES ASSUME NEW name, findType(name) # NoType
             PROVE  findType(name)' # NoType
  OBVIOUS
<1>1. PICK n \in Nat : n = Len(linked) /\ DOMAIN linked = 1 .. n
  BY DEF Typed
<1>2. DOMAIN linked' = 1 .. n + 1 /\ \A i \in 1 .. n : linked'[i] = linked[i]
  BY <1>1 DEF Typed
<1>3. inGlobals(name) # NoType => inGlobals(name)' = inGlobals(name)
  <2> DEFINE F == [i \in 1 .. n |-> named(linked[i].inGlobals, name)]
             G == [i \in 1 .. n + 1 |-> named(linked'[i].inGlobals, name)]
  <2>1. inGlobals(name) = First(F) /\ inGlobals(name)' = First(G)
    BY <1>1, <1>2 DEF inGlobals
  <2>2. \A i \in 1 .. n : G[i] = F[i]
    BY <1>2
  <2>3. DOMAIN F = 1 .. n /\ DOMAIN G = 1 .. n + 1
    OBVIOUS
  <2> HIDE DEF F, G
  <2> QED BY <2>1, <2>2, <2>3, FirstOfMore
<1>4. inFunctions(name) # NoType => inFunctions(name)' = inFunctions(name)
  <2> DEFINE F == [i \in 1 .. n |-> named(linked[i].inFunctions, name)]
             G == [i \in 1 .. n + 1 |-> named(linked'[i].inFunctions, name)]
  <2>1. inFunctions(name) = First(F) /\ inFunctions(name)' = First(G)
    BY <1>1, <1>2 DEF inFunctions
  <2>2. \A i \in 1 .. n : G[i] = F[i]
    BY <1>2
  <2>3. DOMAIN F = 1 .. n /\ DOMAIN G = 1 .. n + 1
    OBVIOUS
  <2> HIDE DEF F, G
  <2> QED BY <2>1, <2>2, <2>3, FirstOfMore
<1> QED BY <1>3, <1>4 DEF findType

\* What is known is the beginning of what is linked: the debug info that was
\* found stays the first.
LEMMA StillKnown ==
  ASSUME Typed, Contained, known' = linked
  PROVE  \A name : findKnown(name) # NoType => findKnown(name)' = findKnown(name)
<1> SUFFICES ASSUME NEW name, findKnown(name) # NoType
             PROVE  findKnown(name)' = findKnown(name)
  OBVIOUS
<1>1. PICK n \in Nat : n = Len(known) /\ DOMAIN known = 1 .. n
  BY DEF Contained
<1>2. PICK m \in Nat : m = Len(linked) /\ DOMAIN linked = 1 .. m
  BY DEF Typed
<1> DEFINE F == [i \in 1 .. n |-> findStruct(known[i].types, name)]
           G == [i \in 1 .. m |-> findStruct(linked[i].types, name)]
<1>3. findKnown(name) = First(F) /\ findKnown(name)' = First(G)
  BY <1>1, <1>2 DEF findKnown
<1>4. n <= m /\ \A i \in 1 .. n : G[i] = F[i]
  BY <1>1, <1>2 DEF Contained
<1>5. DOMAIN F = 1 .. n /\ DOMAIN G = 1 .. m
  OBVIOUS
<1> HIDE DEF F, G
<1> QED BY <1>3, <1>4, <1>5, FirstOfMore

-----------------------------------------------------------------------------
\* Parsing.

\* A parse begins: every name in a cache was looked up before it.
LEMMA ParseStep ==
  ASSUME IInv, NEW files, files \in program.parses, parseIRFiles(files)
  PROVE  IInv'
<1>1. /\ Typed /\ Flagged(module) /\ Flagged(clone)
      /\ Contained /\ Memories /\ Caches /\ Allocated
  BY DEF IInv
<1>2. /\ status = "running" /\ calls < MaxCalls /\ calls' = calls + 1
      /\ status' = "parsing" /\ parsing' = files
      /\ early' = early \union DOMAIN STCache \union DOMAIN DICache
      /\ UNCHANGED <<accessVars, cloneVars, linked, known, program, module>>
  BY DEF parseIRFiles, Call
<1>3. Typed'
  <2>1. files \in Seq(Files(program))
    BY <1>1, ParseFacts DEF Typed
  <2>2. Files(program)' = Files(program)
    BY <1>2
  <2>3. calls' \in 0 .. MaxCalls
    BY <1>1, <1>2, CallsAssumption DEF Typed
  <2> QED BY <1>1, <1>2, <2>1, <2>2, <2>3 DEF Typed, GlobalMap, Status, cloneVars
<1>4. Caches'
  <2>1. UNCHANGED <<STCache, DICache, linked, known>>
    BY <1>2 DEF accessVars
  <2>2. \A name : findType(name)' = findType(name) /\ findKnown(name)' = findKnown(name)
    BY <2>1, SearchesKept
  <2> QED BY <1>1, <1>2, <2>1, <2>2 DEF Caches
<1>5. Flagged(module)' /\ Flagged(clone)' /\ Contained' /\ Memories' /\ Allocated'
  BY <1>1, <1>2, FlaggedSame, FlaggedKept, ContainedKept, MemoriesKept, AllocatedKept
     DEF cloneVars
<1> QED BY <1>3, <1>4, <1>5 DEF IInv

\* Linking adds globals of a file of the program, with its flags.
LEMMA Links ==
  ASSUME NEW p \in Programs, NEW f \in Files(p), NEW m, GlobalMap(m), FlaggedBy(p, m)
  PROVE  /\ GlobalMap(linkModules(m, f.globals)) /\ FlaggedBy(p, linkModules(m, f.globals))
         /\ DOMAIN linkModules(m, f.globals) = DOMAIN m \union DOMAIN f.globals
<1> DEFINE linkage == linkModules(m, f.globals)
<1>1. f.globals \in [DOMAIN f.globals -> GlobalVariable]
  BY FileFacts
<1>2. DOMAIN linkage = DOMAIN m \union DOMAIN f.globals
  BY DEF linkModules
<1>3. ASSUME NEW g \in DOMAIN linkage
      PROVE  \/ g \in DOMAIN m /\ linkage[g] = m[g]
             \/ g \in DOMAIN f.globals /\ linkage[g] = f.globals[g]
  BY <1>3 DEF linkModules
<1>4. \A g \in DOMAIN linkage : linkage[g] \in GlobalVariable
  BY <1>1, <1>3 DEF GlobalMap
<1>5. linkage = [g \in DOMAIN linkage |-> linkage[g]]
  BY DEF linkModules
<1> HIDE DEF linkage
<1>6. FlaggedBy(p, linkage)
  BY <1>3 DEF FlaggedBy
<1>7. GlobalMap(linkage)
  BY <1>4, <1>5 DEF GlobalMap
<1> QED BY <1>2, <1>6, <1>7 DEF linkage

\* A file is linked, or the parse ends at it.  What was found stays the first,
\* or is not the only one of its name.
LEMMA LoadStep == IInv /\ load => IInv'
<1> SUFFICES ASSUME IInv, load PROVE IInv'
  OBVIOUS
<1>1. /\ Typed /\ Flagged(module) /\ Flagged(clone)
      /\ Contained /\ Memories /\ Caches /\ Allocated
  BY DEF IInv
<1>2. /\ status = "parsing" /\ parsing # << >>
      /\ UNCHANGED <<accessVars, cloneVars, program, calls, early, known>>
  BY DEF load, Parsing
<1>3. PICK f : f = Head(parsing)
  OBVIOUS
<1>4. f \in Files(program) /\ Tail(parsing) \in Seq(Files(program))
  BY <1>1, <1>2, <1>3 DEF Typed
<1>5. Files(program)' = Files(program)
  BY <1>2
<1>6. Flagged(clone)' /\ Memories' /\ Allocated'
  BY <1>1, <1>2, FlaggedKept, MemoriesKept, AllocatedKept DEF cloneVars
<1>7. CASE UNCHANGED <<linked, module>> /\ status' \in {"running", "exited"}
           /\ parsing' \in {<< >>, parsing}
  <2>1. Typed'
    <3>1. << >> \in Seq(Files(program))
      OBVIOUS
    <3> QED BY <1>1, <1>2, <1>5, <1>7, <3>1 DEF Typed, GlobalMap, Status, cloneVars
  <2>2. Flagged(module)' /\ Contained'
    BY <1>1, <1>2, <1>7, FlaggedSame, ContainedKept
  <2>3. Caches'
    BY <1>1, <1>2, <1>7, CachesKept DEF accessVars, Parsing
  <2> QED BY <1>6, <2>1, <2>2, <2>3 DEF IInv
<1>8. CASE /\ module' = linkModules(module, f.globals)
           /\ linked' = Append(linked, f)
           /\ parsing' = Tail(parsing)
           /\ UNCHANGED status
  <2> DEFINE linkage == linkModules(module, f.globals)
  <2>1. /\ GlobalMap(linkage) /\ FlaggedBy(program, linkage)
        /\ DOMAIN linkage = DOMAIN module \union DOMAIN f.globals
    BY <1>1, <1>4, Links DEF Typed, Flagged
  <2> HIDE DEF linkage
  <2>2. module' = linkage
    BY <1>8 DEF linkage
  <2>3. linked \in Seq(Files(program)) /\ linked' \in Seq(Files(program))
    BY <1>1, <1>4, <1>8 DEF Typed
  <2>4. Typed'
    <3>1. parsing' \in Seq(Files(program))'
      BY <1>4, <1>5, <1>8
    <3>2. linked' \in Seq(Files(program))'
      BY <1>5, <2>3
    <3>3. GlobalMap(module)'
      BY <2>1, <2>2 DEF GlobalMap
    <3> QED BY <1>1, <1>2, <1>8, <3>1, <3>2, <3>3 DEF Typed, GlobalMap, cloneVars
  <2>5. Flagged(module)'
    BY <1>2, <2>1, <2>2 DEF Flagged, FlaggedBy
  <2>6. Contained'
    <3>1. DOMAIN module \subseteq DOMAIN module' /\ DOMAIN f.globals \subseteq DOMAIN module'
      BY <2>1, <2>2
    <3>2. ASSUME NEW i \in DOMAIN linked'
          PROVE  DOMAIN linked'[i].globals \subseteq DOMAIN module'
      <4>1. CASE i \in DOMAIN linked
        <5>1. linked'[i] = linked[i]
          BY <1>8, <2>3, <4>1
        <5> QED BY <1>1, <3>1, <4>1, <5>1 DEF Contained
      <4>2. CASE i \notin DOMAIN linked
        <5>1. linked'[i] = f
          BY <1>8, <2>3, <3>2, <4>2
        <5> QED BY <3>1, <5>1
      <4> QED BY <4>1, <4>2
    <3>3. known' \in Seq(Files(program)')
      BY <1>1, <1>2, <1>5 DEF Contained
    <3>4. Len(known') <= Len(linked') /\ \A i \in 1 .. Len(known') : known'[i] = linked'[i]
      <4>1. known' = known
        BY <1>2
      <4>2. known \in Seq(Files(program)) /\ Len(known) <= Len(linked)
            /\ \A i \in 1 .. Len(known) : known[i] = linked[i]
        BY <1>1 DEF Contained
      <4>3. Len(linked') = Len(linked) + 1 /\ \A i \in 1 .. Len(linked) : linked'[i] = linked[i]
        BY <1>8, <2>3
      <4>4. PICK k, l : k = Len(known) /\ l = Len(linked)
        OBVIOUS
      <4>5. k \in Nat /\ l \in Nat /\ k <= l
        BY <2>3, <4>2, <4>4
      <4>6. \A i \in 1 .. k : i \in 1 .. l /\ known'[i] = linked[i] /\ linked'[i] = linked[i]
        BY <4>1, <4>2, <4>3, <4>4, <4>5
      <4>7. k <= l + 1
        BY <4>5
      <4> QED BY <4>1, <4>3, <4>4, <4>6, <4>7
    <3> QED BY <3>2, <3>3, <3>4 DEF Contained
  <2>7. Caches'
    <3>1. UNCHANGED <<STCache, DICache, early, known>> /\ status' = "parsing" /\ status = "parsing"
      BY <1>2, <1>8 DEF accessVars
    <3>2. \A name : findKnown(name)' = findKnown(name)
      BY <3>1 DEF findKnown
    <3>3. DOMAIN STCache \union DOMAIN DICache \subseteq early
      BY <1>1, <3>1 DEF Caches, Parsing
    <3>4. ASSUME NEW name \in DOMAIN STCache
          PROVE  STCache[name] = findType(name)' \/ STCache[name] = NoType \/ Ambiguous(name)
      <4>1. CASE STCache[name] = findType(name) /\ STCache[name] # NoType
        <5>1. findType(name)' # NoType
          BY <1>1, <1>8, <4>1, StillFound
        <5>2. findType(name) \in Meant(name) \union {NoType}
          BY <1>1, AllMeant
        <5>3. findType(name)' \in Meant(name) \union {NoType}
          BY <2>4, AllMeantNext
        <5> QED BY <4>1, <5>1, <5>2, <5>3, TwoAmbiguous
      <4> QED BY <1>1, <4>1 DEF Caches
    <3> QED BY <1>1, <3>1, <3>2, <3>3, <3>4 DEF Caches, Parsing
  <2> QED BY <1>6, <2>4, <2>5, <2>6, <2>7 DEF IInv
<1> QED BY <1>3, <1>7, <1>8 DEF load

\* The debug info of what is linked is known now; what was found in a part of
\* it stays the first.
LEMMA ProcessStep == IInv /\ processModule => IInv'
<1> SUFFICES ASSUME IInv, processModule PROVE IInv'
  OBVIOUS
<1>1. /\ Typed /\ Flagged(module) /\ Flagged(clone)
      /\ Contained /\ Memories /\ Caches /\ Allocated
  BY DEF IInv
<1>2. /\ status = "parsing" /\ module' = defineExternals(module)
      /\ known' = linked /\ status' = "running"
      /\ UNCHANGED <<accessVars, cloneVars, program, calls, early, parsing, linked>>
  BY DEF processModule, Parsing
<1>3. Flagged(clone)' /\ Memories' /\ Allocated'
  BY <1>1, <1>2, FlaggedKept, MemoriesKept, AllocatedKept DEF cloneVars
<1>4. /\ DOMAIN module' = DOMAIN module /\ GlobalMap(module)'
      /\ \A g \in DOMAIN module : module'[g].tls = module[g].tls
  <2>1. module \in [DOMAIN module -> GlobalVariable]
    BY <1>1 DEF Typed, GlobalMap
  <2>2. ASSUME NEW g \in DOMAIN module
        PROVE  [module[g] EXCEPT !.init = Words(module[g].size, "0")] \in GlobalVariable
    <3>1. module[g] \in GlobalVariable
      BY <2>1
    <3>2. Words(module[g].size, "0") \in Seq(Word)
      BY <3>1 DEF Words, Word, GlobalVariable
    <3> QED BY <3>1, <3>2 DEF GlobalVariable
  <2>3. ASSUME NEW g \in DOMAIN module
        PROVE  [module[g] EXCEPT !.init = Words(module[g].size, "0")].tls = module[g].tls
    BY <2>1 DEF GlobalVariable
  <2> QED BY <1>2, <2>1, <2>2, <2>3 DEF defineExternals, GlobalMap
<1>5. Typed'
  BY <1>1, <1>2, <1>4 DEF Typed, GlobalMap, Status, cloneVars
<1>6. Flagged(module)'
  BY <1>1, <1>2, <1>4 DEF Flagged, FlaggedBy
<1>7. Contained'
  <2>1. linked \in Seq(Files(program))
    BY <1>1 DEF Typed
  <2> QED BY <1>1, <1>2, <1>4, <2>1 DEF Contained
<1>8. Caches'
  <2>1. UNCHANGED <<STCache, DICache, early, linked>>
    BY <1>2 DEF accessVars
  <2>2. \A name : findType(name)' = findType(name)
    BY <2>1 DEF findType, inGlobals, inFunctions
  <2>3. DOMAIN STCache \union DOMAIN DICache \subseteq early
    BY <1>1, <1>2 DEF Caches, Parsing
  <2>4. \A name : findKnown(name) # NoType => findKnown(name)' = findKnown(name)
    BY <1>1, <1>2, StillKnown
  <2> QED BY <1>1, <1>2, <2>1, <2>2, <2>3, <2>4 DEF Caches, Parsing
<1> QED BY <1>3, <1>5, <1>6, <1>7, <1>8 DEF IInv

-----------------------------------------------------------------------------
\* The interpreter.

\* The flags are what they were before they were faked.
LEMMA Restored ==
  ASSUME NEW m, GlobalMap(m)
  PROVE  restoreThreadLocal(fakeSetIsThreadLocalGlobals(m), [g \in DOMAIN m |-> m[g].tls]) = m
<1> DEFINE flags == [g \in DOMAIN m |-> m[g].tls]
           faked == fakeSetIsThreadLocalGlobals(m)
<1>1. DOMAIN faked = DOMAIN m
  BY DEF fakeSetIsThreadLocalGlobals
<1>2. ASSUME NEW g \in DOMAIN m
      PROVE  [faked[g] EXCEPT !.tls = flags[g]] = m[g]
  <2>1. faked[g] = m[g] \/ faked[g] = [m[g] EXCEPT !.tls = TRUE]
    BY DEF fakeSetIsThreadLocalGlobals
  <2>2. m[g] \in GlobalVariable /\ flags[g] = m[g].tls
    BY DEF GlobalMap
  <2> HIDE DEF faked, flags
  <2> QED BY <2>1, <2>2 DEF GlobalVariable
<1>3. restoreThreadLocal(faked, flags) = [g \in DOMAIN m |-> [faked[g] EXCEPT !.tls = flags[g]]]
  BY <1>1 DEF restoreThreadLocal
<1>4. m = [g \in DOMAIN m |-> m[g]]
  BY DEF GlobalMap
<1> HIDE DEF faked, flags
<1>5. restoreThreadLocal(faked, flags) = m
  BY <1>2, <1>3, <1>4
<1> QED BY <1>5 DEF faked, flags

\* Initialising keeps the sizes and gives each word its initial value.
LEMMA Initialises ==
  ASSUME NEW m, NEW mem, GlobalMap(m), Sized(m, mem)
  PROVE  Sized(m, InitializeGlobals(m, mem)) /\ Initialised(m, InitializeGlobals(m, mem))
<1> DEFINE new == InitializeGlobals(m, mem)
<1>1. DOMAIN new = DOMAIN m
  BY DEF InitializeGlobals
<1>2. ASSUME NEW g \in DOMAIN m
      PROVE  /\ new[g] \in Seq(Word \ {"undef"}) /\ Len(new[g]) = m[g].size
             /\ ~ m[g].tls => \A i \in DOMAIN m[g].init \intersect DOMAIN new[g] :
                                m[g].init[i] # "undef" => new[g][i] = m[g].init[i]
  <2>1. mem[g] \in Seq(Word \ {"undef"}) /\ Len(mem[g]) = m[g].size
    BY DEF Sized
  <2>2. m[g].init \in Seq(Word)
    BY DEF GlobalMap, GlobalVariable
  <2>3. CASE m[g].tls
    <3>1. new[g] = mem[g]
      BY <2>3 DEF InitializeGlobals
    <3> QED BY <2>1, <2>3, <3>1
  <2>4. CASE ~ m[g].tls
    <3> DEFINE init == m[g].init
               words == mem[g]
    <3>1. new[g] = [i \in DOMAIN words |->
                      IF i \in DOMAIN init /\ init[i] # "undef" THEN init[i] ELSE words[i]]
      BY <2>4 DEF InitializeGlobals, InitializeMemory
    <3> HIDE DEF new
    <3>2. DOMAIN words = 1 .. Len(words) /\ Len(words) \in Nat
      BY <2>1
    <3>3. \A i \in DOMAIN words : words[i] \in Word \ {"undef"}
      BY <2>1
    <3>4. \A i \in DOMAIN init : init[i] \in Word
      BY <2>2
    <3> HIDE DEF init, words
    <3>5. \A i \in DOMAIN words : new[g][i] \in Word \ {"undef"}
      BY <3>1, <3>3, <3>4
    <3>6. new[g] \in Seq(Word \ {"undef"}) /\ Len(new[g]) = Len(words)
      BY <3>1, <3>2, <3>5
    <3>7. \A i \in DOMAIN init \intersect DOMAIN new[g] :
            init[i] # "undef" => new[g][i] = init[i]
      BY <3>1
    <3> QED BY <2>1, <3>6, <3>7 DEF init, words
  <2> QED BY <2>3, <2>4
<1>3. new = [g \in DOMAIN m |-> new[g]]
  BY DEF InitializeGlobals
<1> HIDE DEF new
<1>4. Sized(m, new)
  BY <1>1, <1>2, <1>3 DEF Sized
<1>5. Initialised(m, new)
  BY <1>2 DEF Initialised
<1> QED BY <1>4, <1>5 DEF new

\* The memory of the clone is the image that resets are compared with.
LEMMA CreateStep == IInv /\ createInterpreter => IInv'
<1> SUFFICES ASSUME IInv, createInterpreter PROVE IInv'
  OBVIOUS
<1>1. /\ Typed /\ Flagged(module) /\ Flagged(clone)
      /\ Contained /\ Memories /\ Caches /\ Allocated
  BY DEF IInv
<1>2. /\ status = "running" /\ calls < MaxCalls /\ calls' = calls + 1
      /\ UNCHANGED <<parseVars, STCache, DICache>>
  BY DEF createInterpreter, Call
<1>3. calls' \in 0 .. MaxCalls
  BY <1>1, <1>2, CallsAssumption DEF Typed
<1>4. UNCHANGED <<program, parsing, linked, known, early>>
  BY <1>2 DEF parseVars
<1>5. CASE /\ status' = "exited"
           /\ UNCHANGED <<module, clone, created, memory, image, clean, operands,
                          object, written, answer>>
  <2>1. Typed'
    BY <1>1, <1>3, <1>4, <1>5 DEF Typed, GlobalMap, Status
  <2>2. UNCHANGED accessVars
    BY <1>2, <1>5 DEF accessVars
  <2>3. Flagged(module)' /\ Flagged(clone)' /\ Contained' /\ Memories' /\ Allocated'
    BY <1>1, <1>4, <1>5, <2>2, FlaggedSame, FlaggedKept, ContainedKept, MemoriesKept,
       AllocatedKept
  <2>4. Caches'
    BY <1>1, <1>2, <1>4, <1>5, CachesKept DEF Parsing
  <2> QED BY <2>1, <2>3, <2>4 DEF IInv
<1>6. CASE ~ (Declared(module) # {})
  <2> DEFINE fresh == [g \in DOMAIN module |-> Words(module[g].size, "stale")]
  <2>1. /\ clone' = module /\ module' = module
        /\ memory' = InitializeGlobals(module, fresh) /\ image' = memory'
        /\ created' = TRUE /\ clean' = TRUE
        /\ object' = NoObject /\ written' = << >> /\ status' = status
    BY <1>1, <1>6, Restored DEF createInterpreter, Typed
  <2>2. Sized(module, fresh)
    <3>1. \A g \in DOMAIN module : module[g].size \in Nat
      BY <1>1 DEF Typed, GlobalMap, GlobalVariable
    <3>2. \A n \in Nat : Words(n, "stale") \in Seq(Word \ {"undef"}) /\ Len(Words(n, "stale")) = n
      BY DEF Words, Word
    <3> QED BY <3>1, <3>2 DEF Sized
  <2> HIDE DEF fresh
  <2>3. Sized(module, memory') /\ Initialised(module, memory')
    BY <1>1, <2>1, <2>2, Initialises DEF Typed
  <2>4. Typed'
    BY <1>1, <1>2, <1>3, <1>4, <2>1 DEF Typed, GlobalMap
  <2>5. Flagged(module)' /\ Flagged(clone)'
    BY <1>1, <1>4, <2>1 DEF Flagged, FlaggedBy
  <2>6. Contained'
    BY <1>1, <1>4, <2>1, ContainedKept
  <2>7. Memories'
    BY <2>1, <2>3 DEF Memories, Sized, Initialised
  <2>8. Caches'
    BY <1>1, <1>2, <1>4, <2>1, CachesKept DEF Parsing
  <2>9. Allocated'
    BY <2>1, NothingAllocated
  <2> QED BY <2>4, <2>5, <2>6, <2>7, <2>8, <2>9 DEF IInv
<1> QED BY <1>5, <1>6 DEF createInterpreter

\* Memory that has been initialised again has all initial values.
LEMMA ResetStep == IInv /\ resetExtraAllocations => IInv'
<1> SUFFICES ASSUME IInv, resetExtraAllocations PROVE IInv'
  OBVIOUS
<1>1. /\ Typed /\ Flagged(module) /\ Flagged(clone)
      /\ Contained /\ Memories /\ Caches /\ Allocated
  BY DEF IInv
<1>2. /\ status = "running" /\ calls < MaxCalls /\ calls' = calls + 1
      /\ memory' = InitializeGlobals(clone, memory) /\ clean' = TRUE
      /\ object' = NoObject /\ written' = << >>
      /\ UNCHANGED <<STCache, DICache, status, module, clone, created, image>>
      /\ UNCHANGED <<program, parsing, linked, known, early>>
  BY DEF resetExtraAllocations, Call, parseVars
<1>3. Typed'
  BY <1>1, <1>2, CallsAssumption DEF Typed, GlobalMap
<1>4. Flagged(module)' /\ Flagged(clone)' /\ Contained'
  BY <1>1, <1>2, FlaggedSame, FlaggedKept, ContainedKept
<1>5. Memories'
  <2>1. Sized(clone, memory') /\ Initialised(clone, memory')
    BY <1>1, <1>2, Initialises DEF Typed, Memories
  <2> QED BY <1>1, <1>2, <2>1 DEF Memories, Sized, Initialised
<1>6. Caches'
  BY <1>1, <1>2, CachesKept DEF Parsing
<1>7. Allocated'
  BY <1>2, NothingAllocated
<1> QED BY <1>3, <1>4, <1>5, <1>6, <1>7 DEF IInv

\* A new initialiser leaves the flag of its global.
LEMMA SetStep ==
  ASSUME IInv, NEW g, NEW constant, constant \in program.constants, setInitializer(g, constant)
  PROVE  IInv'
<1>1. /\ Typed /\ Flagged(module) /\ Flagged(clone)
      /\ Contained /\ Memories /\ Caches /\ Allocated
  BY DEF IInv
<1> DEFINE new == IF constant = << >> THEN <<"0">> ELSE constant
<1>2. /\ status = "running" /\ calls < MaxCalls /\ calls' = calls + 1 /\ g \in DOMAIN module
      /\ module' = [module EXCEPT ![g].init = new]
      /\ UNCHANGED <<accessVars, cloneVars, status, program, parsing, linked, known, early>>
  BY DEF setInitializer, Call, parseVars
<1>3. new \in Seq(Word)
  <2>1. <<"0">> \in Seq(Word)
    BY DEF Word
  <2>2. constant \in Seq(Word)
    BY <1>1, ProgramsAssumption DEF Typed
  <2> QED BY <2>1, <2>2
<1> HIDE DEF new
<1>4. module \in [DOMAIN module -> GlobalVariable]
  BY <1>1 DEF Typed, GlobalMap
<1>5. [module[g] EXCEPT !.init = new] \in GlobalVariable
      /\ [module[g] EXCEPT !.init = new].tls = module[g].tls
  BY <1>2, <1>3, <1>4 DEF GlobalVariable
<1>6. /\ DOMAIN module' = DOMAIN module /\ GlobalMap(module)'
      /\ \A h \in DOMAIN module : module'[h].tls = module[h].tls
  <2>1. module' = [h \in DOMAIN module |->
                     IF h = g THEN [module[g] EXCEPT !.init = new] ELSE module[h]]
    BY <1>2, <1>4
  <2> QED BY <1>4, <1>5, <2>1 DEF GlobalMap
<1>7. Typed'
  BY <1>1, <1>2, <1>6, CallsAssumption DEF Typed, GlobalMap, cloneVars
<1>8. Flagged(module)'
  BY <1>1, <1>2, <1>6 DEF Flagged, FlaggedBy
<1>9. Flagged(clone)' /\ Contained' /\ Memories' /\ Allocated'
  BY <1>1, <1>2, <1>6, FlaggedKept, ContainedKept, MemoriesKept, AllocatedKept DEF cloneVars
<1>10. Caches'
  BY <1>1, <1>2, CachesKept DEF Parsing, accessVars
<1> QED BY <1>7, <1>8, <1>9, <1>10 DEF IInv

\* Writing memory, by the client or by the program, keeps its size; what it holds
\* is claimed again after a reset only.
LEMMA Writes ==
  ASSUME IInv, Call, UNCHANGED <<parseVars, accessVars, module, clone, created, image>>,
         status' \in Status, status' # "parsing",
         \/ UNCHANGED <<memory, clean>>
         \/ clean' = FALSE /\ Sized(clone, memory')
  PROVE  IInv'
<1>1. /\ Typed /\ Flagged(module) /\ Flagged(clone)
      /\ Contained /\ Memories /\ Caches /\ Allocated
  BY DEF IInv
<1>2. /\ calls < MaxCalls /\ calls' = calls + 1
      /\ UNCHANGED <<program, parsing, linked, known, early>>
  BY DEF Call, parseVars
<1>3. Typed'
  <2>1. calls' \in 0 .. MaxCalls
    BY <1>1, <1>2, CallsAssumption DEF Typed
  <2>2. clean' \in BOOLEAN
    BY <1>1 DEF Typed
  <2>3. status' \in Status'
    BY DEF Status
  <2> QED BY <1>1, <1>2, <2>1, <2>2, <2>3 DEF Typed, GlobalMap
<1>4. Flagged(module)' /\ Flagged(clone)' /\ Contained' /\ Allocated'
  BY <1>1, <1>2, FlaggedSame, FlaggedKept, ContainedKept, AllocatedKept
<1>5. Memories'
  BY <1>1 DEF Memories, Sized, Initialised
<1>6. Caches'
  BY <1>1, <1>2, CachesKept DEF Parsing, accessVars
<1> QED BY <1>3, <1>4, <1>5, <1>6 DEF IInv

\* A client writes to a global, within its size.
LEMMA SetGlobalStep ==
  ASSUME IInv, NEW g, NEW n \in Nat, irx_set_global(g, n)
  PROVE  IInv'
<1>1. Typed /\ Memories /\ status = "running"
  BY DEF IInv, irx_set_global, Call
<1>2. CASE g \in DOMAIN clone
  <2> DEFINE new == Words(n, "client") \o SubSeq(memory[g], n + 1, Len(memory[g]))
  <2>1. n <= clone[g].size /\ memory' = [memory EXCEPT ![g] = new] /\ clean' = FALSE
        /\ status' = status
    BY <1>2 DEF irx_set_global
  <2>2. memory[g] \in Seq(Word \ {"undef"}) /\ Len(memory[g]) = clone[g].size
    BY <1>1, <1>2 DEF Memories, Sized
  <2>3. Words(n, "client") \in Seq(Word \ {"undef"}) /\ Len(Words(n, "client")) = n
    BY DEF Words, Word
  <2>4. new \in Seq(Word \ {"undef"}) /\ Len(new) = Len(memory[g])
    <3> DEFINE front == Words(n, "client")
               rest == SubSeq(memory[g], n + 1, Len(memory[g]))
    <3>1. rest \in Seq(Word \ {"undef"}) /\ Len(rest) = Len(memory[g]) - n
      BY <2>1, <2>2
    <3>2. front \in Seq(Word \ {"undef"}) /\ Len(front) = n
      BY <2>3
    <3> HIDE DEF front, rest
    <3>3. front \o rest \in Seq(Word \ {"undef"}) /\ Len(front \o rest) = Len(front) + Len(rest)
      BY <3>1, <3>2, ConcatProperties
    <3>4. n + (Len(memory[g]) - n) = Len(memory[g])
      BY <2>2
    <3>5. Len(front \o rest) = Len(memory[g])
      BY <3>1, <3>2, <3>3, <3>4
    <3> QED BY <3>3, <3>5 DEF front, rest
  <2> HIDE DEF new
  <2>5. Sized(clone, memory')
    BY <1>1, <1>2, <2>1, <2>2, <2>4 DEF Memories, Sized
  <2> QED BY <1>1, <2>1, <2>5, Writes DEF irx_set_global, Status
<1>3. CASE g \notin DOMAIN clone
  <2>1. status' = "aborted" /\ UNCHANGED <<memory, clean>>
    BY <1>3 DEF irx_set_global
  <2> QED BY <2>1, Writes DEF irx_set_global, Status
<1> QED BY <1>2, <1>3

\* The program writes a word.
LEMMA RunStep ==
  ASSUME IInv, NEW I, runInstruction(I)
  PROVE  IInv'
<1>1. Typed /\ Memories /\ status = "running"
  BY DEF IInv, runInstruction, Call
<1>2. /\ Call /\ UNCHANGED <<parseVars, accessVars, module, clone, created, image>>
  BY DEF runInstruction
<1>3. /\ status' \in {"aborted", "unreachable", status}
      /\ \/ UNCHANGED <<memory, clean>>
         \/ \E to : memory' = [memory EXCEPT ![to][1] = "program"] /\ clean' = FALSE
  BY DEF runInstruction
<1>4. CASE UNCHANGED <<memory, clean>>
  BY <1>1, <1>2, <1>3, <1>4, Writes DEF Status
<1>5. ASSUME NEW to, memory' = [memory EXCEPT ![to][1] = "program"], clean' = FALSE
      PROVE  Sized(clone, memory')
  <2>1. \A g \in DOMAIN clone :
          memory[g] \in Seq(Word \ {"undef"}) /\ Len(memory[g]) = clone[g].size
    BY <1>1 DEF Memories, Sized
  <2>2. \A s \in Seq(Word \ {"undef"}) :
          LET new == [s EXCEPT ![1] = "program"]
          IN  new \in Seq(Word \ {"undef"}) /\ Len(new) = Len(s)
    <3>1. "program" \in Word \ {"undef"}
      BY DEF Word
    <3>2. ASSUME NEW S, NEW s \in Seq(S), NEW w \in S
          PROVE  [s EXCEPT ![1] = w] \in Seq(S) /\ Len([s EXCEPT ![1] = w]) = Len(s)
      <4>1. CASE 1 \in 1 .. Len(s)
        BY <4>1, ExceptSeq
      <4>2. CASE 1 \notin 1 .. Len(s)
        <5>1. [s EXCEPT ![1] = w] = s
          BY <4>2
        <5> QED BY <5>1
      <4> QED BY <4>1, <4>2
    <3> QED BY <3>1, <3>2
  <2> QED BY <1>1, <1>5, <2>1, <2>2 DEF Memories, Sized
<1>6. CASE \E to : memory' = [memory EXCEPT ![to][1] = "program"] /\ clean' = FALSE
  BY <1>1, <1>2, <1>3, <1>5, <1>6, Writes DEF Status
<1> QED BY <1>3, <1>4, <1>6

-----------------------------------------------------------------------------
\* Accesses.

\* A cache keeps what it has.
Grown(new, cache, name, found) ==
  /\ DOMAIN new = DOMAIN cache \union {name}
  /\ \A other \in DOMAIN cache : new[other] = cache[other]
  /\ name \notin DOMAIN cache => new[name] = found
  /\ new = [other \in DOMAIN new |-> new[other]]

\* An answer enters a cache once.
LEMMA Remembers ==
  ASSUME NEW cache, NEW name, NEW found
  PROVE  Grown(Remember(cache, name, found), cache, name, found)
BY DEF Grown, Remember, Entered, Cached

\* What a look-up may do to the caches.
LookedUp ==
  /\ STCache' = STCache \/ \E name : STCache' = Remember(STCache, name, findType(name))
  /\ DICache' = DICache \/ \E name : DICache' = Remember(DICache, name, findKnown(name))

\* The caches stay right when a name is looked up.
LEMMA CachesLookedUp ==
  ASSUME Typed, Contained, Caches, LookedUp, UNCHANGED <<linked, known, early>>, ~ Parsing'
  PROVE  /\ Caches'
         /\ \A name \in DOMAIN STCache :
              name \in DOMAIN STCache' /\ STCache'[name] = STCache[name]
<1>1. \A name : findType(name)' = findType(name) /\ findKnown(name)' = findKnown(name)
  BY SearchesKept
<1>2. \A name : findType(name) \in Structs \union {NoType} /\ findKnown(name) \in OptNode
  <2>1. \A name : findType(name) \in Meant(name) \union {NoType}
    BY AllMeant
  <2>2. \A name : Meant(name) \subseteq Structs
    BY DEF Meant
  <2> QED BY <2>1, <2>2, KnownNode
<1>3. /\ STCache' \in [DOMAIN STCache' -> Structs \union {NoType}]
      /\ DOMAIN STCache \subseteq DOMAIN STCache'
      /\ \A name \in DOMAIN STCache : STCache'[name] = STCache[name]
      /\ \A name \in DOMAIN STCache' \ DOMAIN STCache : STCache'[name] = findType(name)
  <2>1. CASE STCache' = STCache
    BY <2>1 DEF Caches
  <2>2. ASSUME NEW name, STCache' = Remember(STCache, name, findType(name))
        PROVE  <1>3!:
    <3>1. /\ DOMAIN STCache' = DOMAIN STCache \union {name}
          /\ \A other \in DOMAIN STCache : STCache'[other] = STCache[other]
          /\ name \notin DOMAIN STCache => STCache'[name] = findType(name)
          /\ STCache' = [other \in DOMAIN STCache' |-> STCache'[other]]
      <4>1. PICK old, new, found : old = STCache /\ new = STCache' /\ found = findType(name)
        OBVIOUS
      <4>2. Grown(new, old, name, found)
        BY <2>2, <4>1, Remembers
      <4> QED BY <4>1, <4>2 DEF Grown
    <3>2. \A other \in DOMAIN STCache' : STCache'[other] \in Structs \union {NoType}
      BY <1>2, <3>1 DEF Caches
    <3> QED BY <3>1, <3>2
  <2> QED BY <2>1, <2>2 DEF LookedUp
<1>4. /\ DICache' \in [DOMAIN DICache' -> OptNode] /\ DOMAIN DICache \subseteq DOMAIN DICache'
      /\ \A name \in DOMAIN DICache : DICache'[name] = DICache[name]
      /\ \A name \in DOMAIN DICache' \ DOMAIN DICache : DICache'[name] = findKnown(name)
  <2>1. CASE DICache' = DICache
    BY <2>1 DEF Caches
  <2>2. ASSUME NEW name, DICache' = Remember(DICache, name, findKnown(name))
        PROVE  <1>4!:
    <3>1. /\ DOMAIN DICache' = DOMAIN DICache \union {name}
          /\ \A other \in DOMAIN DICache : DICache'[other] = DICache[other]
          /\ name \notin DOMAIN DICache => DICache'[name] = findKnown(name)
          /\ DICache' = [other \in DOMAIN DICache' |-> DICache'[other]]
      <4>1. PICK old, new, found : old = DICache /\ new = DICache' /\ found = findKnown(name)
        OBVIOUS
      <4>2. Grown(new, old, name, found)
        BY <2>2, <4>1, Remembers
      <4> QED BY <4>1, <4>2 DEF Grown
    <3>2. \A other \in DOMAIN DICache' : DICache'[other] \in OptNode
      BY <1>2, <3>1 DEF Caches
    <3> QED BY <3>1, <3>2
  <2> QED BY <2>1, <2>2 DEF LookedUp
<1> QED BY <1>1, <1>3, <1>4 DEF Caches

\* A look-up of any kind, if what it does to the object is right.
LEMMA Looks ==
  ASSUME IInv, Call, LookedUp, UNCHANGED <<linked, known, early, sessionVars>>,
         status' \in {status, "aborted"}, Allocated'
  PROVE  IInv'
<1>1. /\ Typed /\ Flagged(module) /\ Flagged(clone)
      /\ Contained /\ Memories /\ Caches /\ Allocated
  BY DEF IInv
<1>2. /\ status = "running" /\ calls < MaxCalls /\ calls' = calls + 1
      /\ UNCHANGED <<program, parsing, module, clone, created, memory, image, clean>>
  BY DEF Call, sessionVars
<1>3. Typed'
  <2>1. calls' \in 0 .. MaxCalls
    BY <1>1, <1>2, CallsAssumption DEF Typed
  <2>2. status' \in Status'
    BY <1>2 DEF Status
  <2> QED BY <1>1, <1>2, <2>1, <2>2 DEF Typed, GlobalMap
<1>4. Flagged(module)' /\ Flagged(clone)' /\ Contained' /\ Memories'
  BY <1>1, <1>2, FlaggedSame, FlaggedKept, ContainedKept, MemoriesKept
<1>5. Caches'
  BY <1>1, <1>2, CachesLookedUp DEF Parsing
<1> QED BY <1>3, <1>4, <1>5 DEF IInv

\* The object keeps its size as long as its name is in the cache.
LEMMA ObjectKept ==
  ASSUME IInv, Call, LookedUp, UNCHANGED <<linked, known, early>>, status' \in {status, "aborted"},
         object' = object \/ (object # NoObject /\ DOMAIN object' = DOMAIN object
                              /\ object'.name = object.name
                              /\ DOMAIN object'.bytes = DOMAIN object.bytes),
         DOMAIN written' \subseteq {f.path : f \in FieldsOf(object.name)}
  PROVE  Allocated'
<1>1. Typed /\ Contained /\ Caches /\ Allocated /\ status = "running"
  BY DEF IInv, Call
<1>2. \A name \in DOMAIN STCache : name \in DOMAIN STCache' /\ STCache'[name] = STCache[name]
  BY <1>1, CachesLookedUp DEF Parsing
<1>3. object'.name = object.name /\ (object' # NoObject => object # NoObject)
      /\ DOMAIN object'.bytes = DOMAIN object.bytes
  OBVIOUS
<1>4. DOMAIN written' \subseteq {f.path : f \in FieldsOf(object'.name)}
  BY <1>3
<1>5. FieldsOf(object.name)' = FieldsOf(object'.name)
  BY DEF FieldsOf
<1>6. object' # NoObject =>
        object'.name \in DOMAIN STCache' /\ DOMAIN object'.bytes = 1 .. ObjectSize'
  BY <1>1, <1>2, <1>3 DEF Allocated, ObjectSize
<1>7. DOMAIN object' = {"name", "bytes"}
  BY <1>1 DEF Allocated
<1> QED BY <1>4, <1>5, <1>6, <1>7 DEF Allocated, NoObject

\* A struct is allocated with the size it has in IR.
LEMMA AllocStep ==
  ASSUME IInv, NEW name, structAlloc(name), UNCHANGED <<linked, known, early, sessionVars>>
  PROVE  IInv'
<1> DEFINE ST == getTypeByName(name)
<1>1. /\ Call /\ STCache' = Remember(STCache, name, findType(name))
      /\ object' = [name |-> name, bytes |-> IF ST = NoType THEN << >> ELSE Fill(Stale, Size(ST))]
      /\ written' = << >> /\ UNCHANGED <<DICache, status>>
  BY DEF structAlloc
<1>2. LookedUp
  BY <1>1 DEF LookedUp
<1>3. name \in DOMAIN STCache' /\ STCache'[name] = ST
  BY <1>1 DEF Remember, Entered, getTypeByName
<1>4. Allocated'
  <2>1. object'.name = name /\ DOMAIN object'.bytes = 1 .. ObjectSize'
    <3>1. object'.bytes = IF ST = NoType THEN << >> ELSE Fill(Stale, Size(ST))
      BY <1>1
    <3>2. DOMAIN Fill(Stale, Size(ST)) = 1 .. Size(ST)
      BY DEF Fill
    <3>3. object'.name = name
      BY <1>1
    <3>4. ObjectSize' = IF ST = NoType THEN 0 ELSE Size(ST)
      BY <1>3, <3>3 DEF ObjectSize
    <3> HIDE DEF ST
    <3>5. DOMAIN << >> = 1 .. 0
      OBVIOUS
    <3> QED BY <3>1, <3>2, <3>3, <3>4, <3>5
  <2>2. DOMAIN written' = {}
    BY <1>1
  <2>3. DOMAIN object' = {"name", "bytes"}
    BY <1>1
  <2> QED BY <1>3, <2>1, <2>2, <2>3 DEF Allocated
<1> QED BY <1>1, <1>2, <1>4, Looks

\* The other accesses leave the object alone.
LEMMA SizeStep ==
  ASSUME IInv, NEW name, irx_struct_get_size(name),
         UNCHANGED <<linked, known, early, sessionVars>>
  PROVE  IInv'
<1>1. /\ Call /\ STCache' = Remember(STCache, name, findType(name))
      /\ UNCHANGED <<DICache, object, written, status>>
  BY DEF irx_struct_get_size
<1>2. LookedUp
  BY <1>1 DEF LookedUp
<1>3. DOMAIN written' \subseteq {f.path : f \in FieldsOf(object.name)}
  BY <1>1 DEF IInv, Allocated
<1>4. Allocated'
  BY <1>1, <1>2, <1>3, ObjectKept
<1> QED BY <1>1, <1>2, <1>4, Looks

LEMMA InfoStep ==
  ASSUME IInv, NEW name, NEW path, getStructFieldInfo2(name, path),
         UNCHANGED <<linked, known, early, sessionVars>>
  PROVE  IInv'
<1>1. /\ Call /\ DICache' = Remember(DICache, name, findKnown(name))
      /\ UNCHANGED <<STCache, object, written>> /\ status' \in {status, "aborted"}
  BY DEF getStructFieldInfo2
<1>2. LookedUp
  BY <1>1 DEF LookedUp
<1>3. DOMAIN written' \subseteq {f.path : f \in FieldsOf(object.name)}
  BY <1>1 DEF IInv, Allocated
<1>4. Allocated'
  BY <1>1, <1>2, <1>3, ObjectKept
<1> QED BY <1>1, <1>2, <1>4, Looks

LEMMA GetStep ==
  ASSUME IInv, NEW path, get_struct_primitive(path),
         UNCHANGED <<linked, known, early, sessionVars>>
  PROVE  IInv'
<1>1. /\ Call /\ LookedUp
      /\ UNCHANGED <<object, written>> /\ status' \in {status, "aborted"}
  <2>1. PICK info : \/ NoAccess(path, info.aborts)
                    \/ /\ AccessAt(path, info.size, ObjectOffset(info.hits))
                       /\ UNCHANGED <<object, written>>
    BY DEF get_struct_primitive
  <2>2. CASE NoAccess(path, info.aborts)
    BY <2>2 DEF NoAccess, LookedUp, get_struct_primitive
  <2>3. CASE /\ AccessAt(path, info.size, ObjectOffset(info.hits))
             /\ UNCHANGED <<object, written>>
    BY <2>3 DEF AccessAt, LookUpBoth, LookedUp, get_struct_primitive
  <2> QED BY <2>1, <2>2, <2>3
<1>2. DOMAIN written' \subseteq {f.path : f \in FieldsOf(object.name)}
  BY <1>1 DEF IInv, Allocated
<1>3. Allocated'
  BY <1>1, <1>2, ObjectKept
<1> QED BY <1>1, <1>3, Looks

\* The history has paths of fields only.
LEMMA RecordPaths ==
  ASSUME NEW f, f \in Fields, NEW data
  PROVE  DOMAIN Record(f, data) \subseteq {g.path : g \in FieldsOf(object.name)}
<1>1. CASE ~ f.exposed \/ Narrow(f) \/ Ambiguous(object.name)
  BY <1>1 DEF Record
<1>2. CASE ~ (~ f.exposed \/ Narrow(f) \/ Ambiguous(object.name))
  <2> DEFINE n == IF data.kind = "str" THEN Max({data.value, f.size}) ELSE f.size
             kept == {g.path : g \in {h \in Fields : Disjoint(f, n, h)}}
  <2>1. Record(f, data) = Entered(Restrict(written, kept \intersect DOMAIN written), f.path, data)
    BY <1>2 DEF Record
  <2>2. kept \subseteq {g.path : g \in Fields}
    OBVIOUS
  <2> HIDE DEF kept
  <2>3. DOMAIN Record(f, data) = (kept \intersect DOMAIN written) \union {f.path}
    BY <2>1 DEF Entered, Restrict
  <2> QED BY <2>2, <2>3 DEF Fields
<1> QED BY <1>1, <1>2

\* A field is written: the object keeps its name and its size.
LEMMA SetFieldStep ==
  ASSUME IInv, NEW path, NEW data, set_struct_primitive(path, data),
         UNCHANGED <<linked, known, early, sessionVars>>
  PROVE  IInv'
<1>1. PICK info, new :
        \/ NoAccess(path, info.aborts)
        \/ \E to : AccessAt(path, info.size, to) /\ Write(path, data, to, new.bytes)
  BY DEF set_struct_primitive
<1>2. Call /\ object # NoObject
  BY DEF set_struct_primitive
<1>3. DOMAIN written \subseteq {f.path : f \in FieldsOf(object.name)}
  BY DEF IInv, Allocated
<1>4. CASE NoAccess(path, info.aborts)
  <2>1. LookedUp /\ UNCHANGED <<object, written>> /\ status' \in {status, "aborted"}
    BY <1>4 DEF NoAccess, LookedUp
  <2>2. Allocated'
    BY <1>2, <1>3, <2>1, ObjectKept
  <2> QED BY <1>2, <2>1, <2>2, Looks
<1>5. ASSUME NEW to, AccessAt(path, info.size, to), Write(path, data, to, new.bytes)
      PROVE  IInv'
  <2>1. LookedUp /\ status' \in {status, "aborted"}
    BY <1>5 DEF AccessAt, LookUpBoth, LookedUp
  <2>2. \/ object' = object
        \/ object' = [object EXCEPT !.bytes = Overwrite(@, to.offset, new.bytes)]
    BY <1>5 DEF Write
  <2>3. DOMAIN Overwrite(object.bytes, to.offset, new.bytes) = DOMAIN object.bytes
    BY DEF Overwrite
  <2>4. \/ object' = object
        \/ /\ DOMAIN object' = DOMAIN object
           /\ object'.name = object.name /\ DOMAIN object'.bytes = DOMAIN object.bytes
    <3>1. DOMAIN object = {"name", "bytes"}
      BY DEF IInv, Allocated
    <3> QED BY <2>2, <2>3, <3>1
  <2>5. PICK f : f \in Fields /\ (written' = written \/ written' = Record(f, data))
    BY <1>5 DEF Write
  <2>6. DOMAIN written' \subseteq {g.path : g \in FieldsOf(object.name)}
    BY <1>3, <2>5, RecordPaths
  <2>7. Allocated'
    BY <1>2, <2>1, <2>4, <2>6, ObjectKept
  <2> QED BY <1>2, <2>1, <2>7, Looks
<1> QED BY <1>1, <1>4, <1>5

\* An access of any kind leads from a state of the invariant to another.
LEMMA AccessStep ==
  ASSUME IInv, NEW names, NEW interpreter, Access(names, interpreter),
         UNCHANGED <<linked, known, early, sessionVars>>
  PROVE  IInv'
<1>1. \/ \E name : \/ structAlloc(name) \/ irx_struct_get_size(name)
                   \/ \E path : getStructFieldInfo2(name, path)
      \/ \E path : get_struct_primitive(path) \/ \E data : set_struct_primitive(path, data)
  BY DEF Access
<1> QED BY <1>1, AllocStep, SizeStep, InfoStep, GetStep, SetFieldStep

-----------------------------------------------------------------------------
\* Operands.

\* What the assumption on programs says of their constants.
LEMMA ConstantFacts ==
  ASSUME program \in Programs
  PROVE  /\ Null \notin Operand
         /\ \A x : IsAlias(x) => ~ IsExpr(x) /\ x \in Operand /\ program.aliases[x] \in Operand
         /\ \A e : IsExpr(e) =>
              e \in Operand /\ program.exprs[e] \in Seq(Operand) /\ program.exprs[e] # << >>
         /\ \A I \in program.instructions : I \in Seq(Operand) /\ I # << >>
         /\ \A S \in SUBSET (DOMAIN program.aliases \union DOMAIN program.exprs) :
              S # {} => \E x \in S : Refers(program, x) \intersect S = {}
<1> DEFINE p == program
<1>1. /\ DOMAIN p.aliases \intersect DOMAIN p.exprs = {} /\ Null \notin OperandOf(p)
      /\ p.aliases \in [DOMAIN p.aliases -> OperandOf(p)]
      /\ p.exprs \in [DOMAIN p.exprs -> Seq(OperandOf(p)) \ {<< >>}]
      /\ p.instructions \subseteq Seq(OperandOf(p)) \ {<< >>}
      /\ \A S \in SUBSET (DOMAIN p.aliases \union DOMAIN p.exprs) :
           S # {} => \E x \in S : Refers(p, x) \intersect S = {}
  BY ProgramsAssumption
<1>2. DOMAIN p.aliases \subseteq OperandOf(p) /\ DOMAIN p.exprs \subseteq OperandOf(p)
  BY DEF OperandOf
<1> HIDE DEF p
<1>3. Operand = OperandOf(p) /\ \A x : /\ IsAlias(x) <=> x \in DOMAIN p.aliases
                                       /\ IsExpr(x) <=> x \in DOMAIN p.exprs
  BY DEF Operand, IsAlias, IsExpr, p
<1>4. \A x : IsAlias(x) => ~ IsExpr(x) /\ x \in Operand /\ p.aliases[x] \in Operand
  BY <1>1, <1>2, <1>3
<1>5. \A e : IsExpr(e) => e \in Operand /\ p.exprs[e] \in Seq(Operand) /\ p.exprs[e] # << >>
  BY <1>1, <1>2, <1>3
<1> QED BY <1>1, <1>3, <1>4, <1>5 DEF p

\* What an alias stands for.
LEMMA Resolves ==
  ASSUME program \in Programs
  PROVE  \A x \in Operand :
           /\ resolveAliasesOperand[x] \in Operand
           /\ IsAlias(x) => resolveAliasesOperand[x] = resolveAliasesOperand[program.aliases[x]]
           /\ ~ IsAlias(x) => resolveAliasesOperand[x] = x
           /\ ~ IsAlias(resolveAliasesOperand[x])
<1> DEFINE D == Operand
           rhs(x, h) == IF IsAlias(x) THEN h[program.aliases[x]] ELSE x
           next == [x \in D |-> IF IsAlias(x) THEN {program.aliases[x]} ELSE {}]
           step == [p \in D \X [D -> D] |-> rhs(p[1], p[2])]
<1>1. \A x : IsAlias(x) => x \in D /\ program.aliases[x] \in D
  BY ConstantFacts
<1>2. Descends(next, D)
  <2>1. next \in [D -> SUBSET D]
    BY <1>1
  <2>2. ASSUME NEW T \in SUBSET D, T # {} PROVE \E t \in T : next[t] \cap T = {}
    <3>1. CASE \E t \in T : ~ IsAlias(t)
      BY <3>1
    <3>2. CASE \A t \in T : IsAlias(t)
      <4>1. T \in SUBSET (DOMAIN program.aliases \union DOMAIN program.exprs)
        BY <3>2 DEF IsAlias
      <4>2. PICK t \in T : Refers(program, t) \cap T = {}
        BY <2>2, <4>1, ConstantFacts
      <4>3. Refers(program, t) = next[t]
        BY <3>2, <4>2 DEF Refers, IsAlias
      <4> QED BY <4>2, <4>3
    <3> QED BY <3>1, <3>2
  <2> HIDE DEF next, D
  <2> QED BY <2>1, <2>2 DEF Descends
<1>3. Follows(step, next, D, D)
  <2>1. ASSUME NEW x \in D, NEW h \in [D -> D] PROVE step[<<x, h>>] = rhs(x, h) /\ rhs(x, h) \in D
    BY <1>1
  <2>2. step \in [D \X [D -> D] -> D]
    <3>1. \A p \in D \X [D -> D] : rhs(p[1], p[2]) \in D
      BY <2>1
    <3> QED BY <3>1
  <2>3. ASSUME NEW x \in D, NEW h \in [D -> D], NEW g \in [D -> D], \A u \in next[x] : h[u] = g[u]
        PROVE  step[<<x, h>>] = step[<<x, g>>]
    <3>1. rhs(x, h) = rhs(x, g)
      BY <2>3
    <3> HIDE DEF rhs, step
    <3> QED BY <2>1, <3>1
  <2> HIDE DEF step, next
  <2> QED BY <2>2, <2>3 DEF Follows
<1>4. \E h : h = [x \in Operand |-> IF IsAlias(x) THEN h[program.aliases[x]] ELSE x]
  <2>1. CASE D = {}
    <3> DEFINE h == [x \in D |-> x]
    <3>1. h = [x \in D |-> rhs(x, h)]
      BY <2>1
    <3> QED BY <3>1
  <2>2. CASE D # {}
    <3>1. Solvable(step, D, D)
      <4> HIDE DEF step, next, D
      <4> QED BY <1>2, <1>3, <2>2, Recursion
    <3>2. PICK h \in [D -> D] : \A x \in D : h[x] = step[<<x, h>>]
      <4> HIDE DEF step
      <4> QED BY <3>1 DEF Solvable
    <3>3. \A x \in D : h[x] = rhs(x, h)
      BY <3>2
    <3>4. h = [x \in D |-> rhs(x, h)]
      <4> HIDE DEF rhs
      <4> QED BY <3>2, <3>3
    <3> QED BY <3>4
  <2> QED BY <2>1, <2>2
<1>5. resolveAliasesOperand =
        [x \in Operand |-> IF IsAlias(x) THEN resolveAliasesOperand[program.aliases[x]] ELSE x]
  BY <1>4 DEF resolveAliasesOperand
<1> DEFINE f == resolveAliasesOperand
           G == {x \in D : f[x] \in D /\ ~ IsAlias(f[x])}
<1>6. \A x \in D : /\ IsAlias(x) => f[x] = f[program.aliases[x]]
                   /\ ~ IsAlias(x) => f[x] = x
  BY <1>5
<1>7. ASSUME NEW x \in D, next[x] \subseteq G PROVE x \in G
  <2>1. CASE IsAlias(x)
    <3>1. program.aliases[x] \in next[x]
      BY <2>1
    <3>2. program.aliases[x] \in G
      BY <1>7, <3>1
    <3> QED BY <1>6, <2>1, <3>2
  <2>2. CASE ~ IsAlias(x)
    BY <1>6, <2>2
  <2> QED BY <2>1, <2>2
<1>8. D \subseteq G
  <2> HIDE DEF G, next, D
  <2> QED BY <1>2, <1>7, Descent
<1> QED BY <1>6, <1>8

LEMMA ResolvesOnce ==
  ASSUME program \in Programs, NEW x \in Operand
  PROVE  resolveAliasesOperand[resolveAliasesOperand[x]] = resolveAliasesOperand[x]
BY Resolves

\* What an expression consists of, in the form in which it may be found.
Parts ==
  [x \in Operand |->
     IF IsExpr(x) THEN {y \in Operand : \E i \in DOMAIN program.exprs[x] : y \in Alike(program.exprs[x][i])}
     ELSE {}]

\* The operands of an expression, resolved, are parts.
Part1(x, i) == resolveAliasesOperand[program.exprs[x][i]]

LEMMA PartOf ==
  ASSUME program \in Programs, NEW x, IsExpr(x), NEW i \in DOMAIN program.exprs[x]
  PROVE  /\ x \in Operand /\ program.exprs[x][i] \in Operand /\ Part1(x, i) \in Operand
         /\ \A y \in Alike(program.exprs[x][i]) \ {Null} :
              y \in Parts[x] /\ resolveAliasesOperand[y] = Part1(x, i)
         /\ Part1(x, i) \in Parts[x]
         /\ resolveAliasesOperand[Part1(x, i)] = Part1(x, i)
         /\ Part1(x, i) \in Alike(program.exprs[x][i])
<1>1. x \in Operand /\ program.exprs[x][i] \in Operand
  <2>1. program.exprs[x] \in Seq(Operand) /\ x \in Operand
    BY ConstantFacts
  <2> QED BY <2>1
<1>2. Part1(x, i) \in Operand /\ resolveAliasesOperand[Part1(x, i)] = Part1(x, i)
  BY <1>1, Resolves, ResolvesOnce DEF Part1
<1>3. \A y \in Alike(program.exprs[x][i]) \ {Null} :
        y \in Parts[x] /\ resolveAliasesOperand[y] = Part1(x, i)
  BY <1>1 DEF Parts, Alike, Part1
<1>4. Part1(x, i) \in Alike(program.exprs[x][i]) \ {Null}
  BY <1>2, ConstantFacts DEF Alike, Part1
<1> QED BY <1>1, <1>2, <1>3, <1>4

LEMMA PartsDescend ==
  ASSUME program \in Programs
  PROVE  Descends(Parts, Operand)
<1>1. Parts \in [Operand -> SUBSET Operand]
  BY DEF Parts
<1>2. ASSUME NEW T \in SUBSET Operand, T # {} PROVE \E t \in T : Parts[t] \cap T = {}
  <2>1. CASE \E t \in T : ~ IsExpr(t)
    BY <2>1 DEF Parts
  <2>2. CASE \A t \in T : IsExpr(t)
    <3> DEFINE S == {x \in DOMAIN program.aliases : resolveAliasesOperand[x] \in T} \union T
    <3>1. S \in SUBSET (DOMAIN program.aliases \union DOMAIN program.exprs) /\ S # {}
      BY <1>2, <2>2 DEF IsExpr
    <3>2. PICK t \in S : Refers(program, t) \cap S = {}
      <4> HIDE DEF S
      <4> QED BY <3>1, ConstantFacts
    <3>3. ~ IsAlias(t)
      <4>1. SUFFICES ASSUME IsAlias(t) PROVE FALSE
        OBVIOUS
      <4> DEFINE y == program.aliases[t]
      <4>2. t \in Operand /\ y \in Operand /\ y \in Refers(program, t)
        BY <4>1, ConstantFacts DEF Refers, IsAlias
      <4>3. resolveAliasesOperand[y] \in T
        <5>1. resolveAliasesOperand[t] \in T
          BY <2>2, <4>1, ConstantFacts
        <5> QED BY <4>1, <4>2, <5>1, Resolves
      <4>4. y \in S
        <5>1. CASE IsAlias(y)
          BY <4>3, <5>1 DEF IsAlias
        <5>2. CASE ~ IsAlias(y)
          BY <4>2, <4>3, <5>2, Resolves
        <5> QED BY <5>1, <5>2
      <4> QED BY <3>2, <4>2, <4>4
    <3>4. t \in T /\ IsExpr(t)
      BY <2>2, <3>3 DEF IsAlias
    <3>5. ASSUME NEW y \in Parts[t] \cap T PROVE FALSE
      <4>1. PICK i \in DOMAIN program.exprs[t] : y \in Alike(program.exprs[t][i])
        BY <3>4, <3>5 DEF Parts
      <4> DEFINE x == program.exprs[t][i]
      <4>2. x \in Operand /\ y \in Operand /\ y # Null
        BY <3>4, <3>5, <4>1, PartOf, ConstantFacts
      <4>3. resolveAliasesOperand[x] = resolveAliasesOperand[y]
        BY <4>1, <4>2 DEF Alike
      <4>4. resolveAliasesOperand[y] = y
        BY <2>2, <3>5, <4>2, ConstantFacts, Resolves
      <4>5. x \in S
        <5>1. CASE IsAlias(x)
          BY <3>5, <4>3, <4>4, <5>1 DEF IsAlias
        <5>2. CASE ~ IsAlias(x)
          BY <3>5, <4>2, <4>3, <4>4, <5>2, Resolves
        <5> QED BY <5>1, <5>2
      <4>6. x \in Refers(program, t)
        BY <3>3, <3>4, <4>1 DEF Refers, IsAlias, Range
      <4> QED BY <3>2, <4>5, <4>6
    <3> QED BY <3>4, <3>5
  <2> QED BY <2>1, <2>2
<1> QED BY <1>1, <1>2 DEF Descends

\* The expressions an operand leads to.
LEMMA VisitedEquation ==
  ASSUME program \in Programs
  PROVE  \A x \in Operand :
           visited[x] = IF ~ IsExpr(x) THEN {}
                        ELSE {x} \union UNION {visited[Part1(x, i)] : i \in DOMAIN program.exprs[x]}
<1> DEFINE D == Operand
           V == SUBSET DOMAIN program.exprs
           rhs(x, h) == IF ~ IsExpr(x) THEN {}
                        ELSE {x} \union UNION {h[Part1(x, i)] : i \in DOMAIN program.exprs[x]}
           step == [p \in D \X [D -> V] |-> rhs(p[1], p[2])]
<1>1. \A x : IsExpr(x) => \A i \in DOMAIN program.exprs[x] : Part1(x, i) \in Parts[x] /\ Part1(x, i) \in D
  BY PartOf
<1>2. Follows(step, Parts, D, V)
  <2>1. ASSUME NEW x \in D, NEW h \in [D -> V] PROVE step[<<x, h>>] = rhs(x, h) /\ rhs(x, h) \in V
    <3>1. rhs(x, h) \in V
      BY <1>1 DEF IsExpr
    <3> HIDE DEF rhs, V
    <3> QED BY <3>1
  <2>2. step \in [D \X [D -> V] -> V]
    <3>1. \A p \in D \X [D -> V] : rhs(p[1], p[2]) \in V
      <4> HIDE DEF rhs, V, step
      <4> QED BY <2>1
    <3> HIDE DEF rhs, V
    <3> QED BY <3>1
  <2>3. ASSUME NEW x \in D, NEW h \in [D -> V], NEW g \in [D -> V], \A u \in Parts[x] : h[u] = g[u]
        PROVE  step[<<x, h>>] = step[<<x, g>>]
    <3>1. rhs(x, h) = rhs(x, g)
      BY <1>1, <2>3
    <3> HIDE DEF rhs, step
    <3> QED BY <2>1, <3>1
  <2> HIDE DEF step
  <2> QED BY <2>2, <2>3 DEF Follows
<1>3. \E h : h = [x \in Operand |->
                    IF ~ IsExpr(x) THEN {}
                    ELSE {x} \union UNION {h[resolveAliasesOperand[program.exprs[x][i]]] :
                                             i \in DOMAIN program.exprs[x]}]
  <2>1. Solvable(step, D, V)
    <3>1. V # {}
      OBVIOUS
    <3> HIDE DEF step, D, V
    <3> QED BY <1>2, <3>1, PartsDescend, Recursion DEF D
  <2>2. PICK h \in [D -> V] : \A x \in D : h[x] = step[<<x, h>>]
    <3> HIDE DEF step
    <3> QED BY <2>1 DEF Solvable
  <2>3. \A x \in D : h[x] = rhs(x, h)
    <3>1. \A x \in D : step[<<x, h>>] = rhs(x, h)
      <4> HIDE DEF rhs, V
      <4> QED OBVIOUS
    <3> QED BY <2>2, <3>1
  <2>4. h = [x \in D |-> rhs(x, h)]
    <3> HIDE DEF rhs
    <3> QED BY <2>2, <2>3
  <2> QED BY <2>4 DEF Part1
<1>4. visited = [x \in Operand |->
                   IF ~ IsExpr(x) THEN {}
                   ELSE {x} \union UNION {visited[resolveAliasesOperand[program.exprs[x][i]]] :
                                            i \in DOMAIN program.exprs[x]}]
  BY <1>3 DEF visited
<1> QED BY <1>4 DEF Part1

LEMMA Visits ==
  ASSUME program \in Programs
  PROVE  /\ \A x \in Operand : ~ IsExpr(x) => visited[x] = {}
         /\ \A x : IsExpr(x) => x \in visited[x]
         /\ \A x : IsExpr(x) => \A i \in DOMAIN program.exprs[x] : visited[Part1(x, i)] \subseteq visited[x]
         /\ \A x : IsExpr(x) => \A e \in visited[x] :
              e = x \/ \E i \in DOMAIN program.exprs[x] : e \in visited[Part1(x, i)]
<1>1. \A x \in Operand : ~ IsExpr(x) => visited[x] = {}
  BY VisitedEquation
<1>2. ASSUME NEW x, IsExpr(x)
      PROVE  /\ x \in visited[x]
             /\ \A i \in DOMAIN program.exprs[x] : visited[Part1(x, i)] \subseteq visited[x]
             /\ \A e \in visited[x] :
                  e = x \/ \E i \in DOMAIN program.exprs[x] : e \in visited[Part1(x, i)]
  <2> DEFINE below == UNION {visited[Part1(x, i)] : i \in DOMAIN program.exprs[x]}
  <2>1. visited[x] = {x} \union below
    BY <1>2, VisitedEquation, ConstantFacts
  <2>2. \A e : e \in below <=> \E i \in DOMAIN program.exprs[x] : e \in visited[Part1(x, i)]
    OBVIOUS
  <2> HIDE DEF below
  <2> QED BY <2>1, <2>2
<1> QED BY <1>1, <1>2

\* What is visited is an expression, and all it leads to is visited too.
LEMMA VisitedClosed ==
  ASSUME program \in Programs, NEW x \in Operand, NEW e \in visited[x]
  PROVE  IsExpr(e) /\ visited[e] \subseteq visited[x]
<1> DEFINE G == {y \in Operand : \A d \in visited[y] : IsExpr(d) /\ visited[d] \subseteq visited[y]}
<1>1. ASSUME NEW y \in Operand, Parts[y] \subseteq G PROVE y \in G
  <2>1. CASE ~ IsExpr(y)
    BY <2>1, Visits
  <2>2. ASSUME IsExpr(y), NEW d \in visited[y] PROVE IsExpr(d) /\ visited[d] \subseteq visited[y]
    <3>1. CASE d = y
      BY <2>2, <3>1
    <3>2. ASSUME NEW i \in DOMAIN program.exprs[y], d \in visited[Part1(y, i)]
          PROVE  IsExpr(d) /\ visited[d] \subseteq visited[y]
      <4>1. Part1(y, i) \in G
        BY <1>1, <2>2, <3>2, PartOf
      <4>2. visited[Part1(y, i)] \subseteq visited[y]
        BY <2>2, <3>2, Visits
      <4> QED BY <3>2, <4>1, <4>2
    <3> QED BY <2>2, <3>1, <3>2, Visits
  <2> QED BY <2>1, <2>2
<1>2. Operand \subseteq G
  <2> HIDE DEF G
  <2> QED BY <1>1, PartsDescend, Descent
<1> QED BY <1>2

\* No expression leads to itself.
LEMMA NotInParts ==
  ASSUME program \in Programs, NEW x, IsExpr(x), NEW i \in DOMAIN program.exprs[x]
  PROVE  x \notin visited[Part1(x, i)]
<1> DEFINE Free(y) == IsExpr(y) => \A j \in DOMAIN program.exprs[y] : y \notin visited[Part1(y, j)]
           G == {y \in Operand : Free(y)}
<1>1. ASSUME NEW y \in Operand, Parts[y] \subseteq G PROVE y \in G
  <2>1. SUFFICES ASSUME IsExpr(y), NEW j \in DOMAIN program.exprs[y], y \in visited[Part1(y, j)]
                 PROVE  FALSE
    OBVIOUS
  <2> DEFINE u == Part1(y, j)
  <2>2. u \in Parts[y] /\ u \in Operand /\ u \in G
    BY <1>1, <2>1, PartOf
  <2>3. IsExpr(u)
    BY <2>1, <2>2, Visits
  <2>4. u # y
    <3>1. y \notin Parts[y]
      <4>1. {y} \in SUBSET Operand /\ {y} # {}
        OBVIOUS
      <4>2. \E t \in {y} : Parts[t] \cap {y} = {}
        BY <4>1, PartsDescend DEF Descends
      <4> QED BY <4>2
    <3> QED BY <2>2, <3>1
  <2>5. PICK k \in DOMAIN program.exprs[u] : y \in visited[Part1(u, k)]
    BY <2>1, <2>3, <2>4, Visits
  <2>6. u \in visited[y]
    <3>1. u \in visited[u] /\ visited[u] \subseteq visited[y]
      BY <2>1, <2>3, Visits
    <3> QED BY <3>1
  <2>7. u \in visited[Part1(u, k)]
    <3>1. Part1(u, k) \in Operand
      BY <2>3, <2>5, PartOf
    <3> QED BY <2>5, <2>6, <3>1, VisitedClosed
  <2> QED BY <2>2, <2>3, <2>5, <2>7
<1>2. Operand \subseteq G
  <2> HIDE DEF G
  <2> QED BY <1>1, PartsDescend, Descent
<1>3. x \in Operand
  BY ConstantFacts
<1> QED BY <1>2, <1>3

-----------------------------------------------------------------------------
\* Functions applied in turn.

Turns(n, fs, acc, done) ==
  /\ done[0] = acc
  /\ \A k \in 1 .. n : done[k] = fs[k][done[k - 1]]
  /\ InTurn(fs, acc) = done[n]

LEMMA TurnByTurn ==
  ASSUME NEW S, NEW n \in Nat, NEW fs \in [1 .. n -> [S -> S]], NEW acc \in S
  PROVE  /\ \E done \in [0 .. n -> S] : Turns(n, fs, acc, done)
         /\ InTurn(fs, acc) \in S
<1> DEFINE D == 0 .. n
           rhs(k, h) == IF k = 0 THEN acc ELSE fs[k][h[k - 1]]
           step == [p \in D \X [D -> S] |-> rhs(p[1], p[2])]
<1>1. fs \in Seq([S -> S]) /\ Len(fs) = n
  BY SeqDef, IsASeq
<1>2. \A k \in D : k # 0 => k \in 1 .. n /\ k - 1 \in D /\ k - 1 \in Downwards(n)[k]
  BY DEF Downwards
<1>3. Follows(step, Downwards(n), D, S)
  <2>1. ASSUME NEW k \in D, NEW h \in [D -> S] PROVE step[<<k, h>>] = rhs(k, h) /\ rhs(k, h) \in S
    <3>1. rhs(k, h) \in S
      <4>1. CASE k = 0
        BY <4>1
      <4>2. CASE k # 0
        <5>1. k \in 1 .. n /\ k - 1 \in D
          BY <1>2, <4>2
        <5> HIDE DEF D
        <5>2. h[k - 1] \in S /\ fs[k] \in [S -> S]
          BY <5>1
        <5> QED BY <4>2, <5>2
      <4> QED BY <4>1, <4>2
    <3> HIDE DEF rhs, D
    <3> QED BY <3>1
  <2> HIDE DEF rhs
  <2>2. step \in [D \X [D -> S] -> S]
    <3>1. \A p \in D \X [D -> S] : rhs(p[1], p[2]) \in S
      <4> HIDE DEF D, step
      <4> QED BY <2>1
    <3> HIDE DEF D
    <3> QED BY <3>1
  <2>3. ASSUME NEW k \in D, NEW h \in [D -> S], NEW g \in [D -> S], \A u \in Downwards(n)[k] : h[u] = g[u]
        PROVE  step[<<k, h>>] = step[<<k, g>>]
    <3>1. rhs(k, h) = rhs(k, g)
      <4>1. CASE k = 0
        BY <4>1 DEF rhs
      <4>2. CASE k # 0
        <5>1. h[k - 1] = g[k - 1]
          BY <1>2, <2>3, <4>2
        <5> QED BY <4>2, <5>1 DEF rhs
      <4> QED BY <4>1, <4>2
    <3> HIDE DEF step, D
    <3> QED BY <2>1, <3>1
  <2> HIDE DEF step, D
  <2> QED BY <2>2, <2>3 DEF Follows
<1>4. \E h : h = [k \in 0 .. Len(fs) |-> IF k = 0 THEN acc ELSE fs[k][h[k - 1]]]
  <2>1. Solvable(step, D, S)
    <3>1. Descends(Downwards(n), D)
      BY CountsDown
    <3> HIDE DEF step, D
    <3> QED BY <1>3, <3>1, Recursion
  <2>2. PICK h \in [D -> S] : \A k \in D : h[k] = step[<<k, h>>]
    <3> HIDE DEF step, D
    <3> QED BY <2>1 DEF Solvable
  <2>3. \A k \in D : h[k] = rhs(k, h)
    <3>1. \A k \in D : step[<<k, h>>] = rhs(k, h)
      <4> HIDE DEF rhs, D
      <4> QED OBVIOUS
    <3> QED BY <2>2, <3>1
  <2>4. h = [k \in D |-> rhs(k, h)]
    <3> HIDE DEF rhs, D
    <3> QED BY <2>2, <2>3
  <2> QED BY <1>1, <2>4
<1> DEFINE done == CHOOSE h : h = [k \in 0 .. Len(fs) |-> IF k = 0 THEN acc ELSE fs[k][h[k - 1]]]
<1>5. done = [k \in 0 .. Len(fs) |-> IF k = 0 THEN acc ELSE fs[k][done[k - 1]]]
  BY <1>4
<1>6. InTurn(fs, acc) = done[n]
  BY <1>1 DEF InTurn
<1> HIDE DEF done
<1>7. done = [k \in D |-> rhs(k, done)]
  BY <1>1, <1>5
<1>8. done[0] = acc /\ \A k \in 1 .. n : k \in D /\ done[k] = fs[k][done[k - 1]]
  BY <1>7
<1>9. \A k \in D : done[k] \in S
  <2> DEFINE G == {k \in D : done[k] \in S}
  <2>1. 0 \in G
    BY <1>8
  <2>2. ASSUME NEW k \in 1 .. n, k - 1 \in G PROVE k \in G
    <3>1. done[k - 1] \in S /\ fs[k] \in [S -> S]
      BY <2>2
    <3> QED BY <1>8, <3>1
  <2>3. 0 .. n \subseteq G
    <3> HIDE DEF G, D
    <3> QED BY <2>1, <2>2, CountUp
  <2> QED BY <2>3
<1>10. done \in [D -> S]
  <2> HIDE DEF rhs
  <2> QED BY <1>7, <1>9
<1> QED BY <1>6, <1>8, <1>10 DEF Turns

-----------------------------------------------------------------------------
\* What the two functions hand on.

Ops ==
  {o \in [DOMAIN program.exprs -> Seq(Operand \union {Null})] :
     \A e \in DOMAIN program.exprs :
       /\ Len(o[e]) = Len(program.exprs[e])
       /\ \A i \in DOMAIN o[e] : o[e][i] \in Alike(program.exprs[e][i])}
Vals == {V \in [Operand -> Operand \union {Null}] : \A x \in Operand : V[x] \in Alike(x)}

LEMMA FixingFields == Fixing = [operands : Ops, Values : Vals, crashed : BOOLEAN]
BY DEF Fixing, Ops, Vals

LEMMA SomeOps ==
  ASSUME program \in Programs, NEW o \in Ops, NEW e, IsExpr(e)
  PROVE  /\ DOMAIN o = DOMAIN program.exprs
         /\ o[e] \in Seq(Operand \union {Null}) /\ Len(o[e]) = Len(program.exprs[e])
         /\ DOMAIN o[e] = DOMAIN program.exprs[e] /\ DOMAIN o[e] = 1 .. Len(program.exprs[e])
         /\ \A i \in DOMAIN program.exprs[e] : o[e][i] \in Alike(program.exprs[e][i])
<1>1. program.exprs[e] \in Seq(Operand)
  BY ConstantFacts
<1>2. /\ DOMAIN o = DOMAIN program.exprs
      /\ o[e] \in Seq(Operand \union {Null}) /\ Len(o[e]) = Len(program.exprs[e])
      /\ \A i \in DOMAIN o[e] : o[e][i] \in Alike(program.exprs[e][i])
  BY DEF Ops, IsExpr
<1>3. DOMAIN o[e] = 1 .. Len(o[e]) /\ DOMAIN program.exprs[e] = 1 .. Len(program.exprs[e])
  BY <1>1, <1>2
<1> QED BY <1>2, <1>3

\* Another operand in the place of one.
LEMMA PutOperand ==
  ASSUME program \in Programs, NEW o \in Ops, NEW V, IsExpr(V), NEW i \in DOMAIN program.exprs[V],
         NEW y \in Alike(program.exprs[V][i])
  PROVE  LET new == [o EXCEPT ![V][i] = y]
         IN  /\ new \in Ops /\ new[V][i] = y
             /\ \A j \in DOMAIN program.exprs[V] : j # i => new[V][j] = o[V][j]
             /\ \A e \in DOMAIN program.exprs : e # V => new[e] = o[e]
<1> DEFINE s == [o[V] EXCEPT ![i] = y]
           new == [o EXCEPT ![V] = s]
<1>1. /\ DOMAIN o = DOMAIN program.exprs /\ V \in DOMAIN o
      /\ o[V] \in Seq(Operand \union {Null}) /\ Len(o[V]) = Len(program.exprs[V])
      /\ DOMAIN o[V] = DOMAIN program.exprs[V]
      /\ \A j \in DOMAIN program.exprs[V] : o[V][j] \in Alike(program.exprs[V][j])
  BY SomeOps DEF IsExpr
<1>2. y \in Operand \union {Null}
  BY DEF Alike
<1>3. /\ s \in Seq(Operand \union {Null}) /\ Len(s) = Len(o[V]) /\ s[i] = y /\ DOMAIN s = DOMAIN o[V]
      /\ \A j \in DOMAIN o[V] : j # i => s[j] = o[V][j]
  <2>1. i \in 1 .. Len(o[V])
    BY <1>1
  <2>2. s \in Seq(Operand \union {Null}) /\ Len(s) = Len(o[V])
    BY <1>1, <1>2, <2>1, ExceptSeq
  <2>3. DOMAIN s = DOMAIN o[V] /\ s[i] = y /\ \A j \in DOMAIN o[V] : j # i => s[j] = o[V][j]
    BY <1>1, <2>1
  <2> QED BY <2>2, <2>3
<1>4. new = [o EXCEPT ![V][i] = y]
  OBVIOUS
<1>5. /\ DOMAIN new = DOMAIN o /\ new[V] = s /\ \A e \in DOMAIN o : e # V => new[e] = o[e]
  BY <1>1
<1>6. new \in Ops
  <2>1. \A e \in DOMAIN program.exprs :
          /\ new[e] \in Seq(Operand \union {Null})
          /\ Len(new[e]) = Len(program.exprs[e])
          /\ \A j \in DOMAIN new[e] : new[e][j] \in Alike(program.exprs[e][j])
    <3> TAKE e \in DOMAIN program.exprs
    <3> HIDE DEF new, s
    <3>1. CASE e = V
      BY <1>1, <1>3, <1>5, <3>1
    <3>2. CASE e # V
      BY <1>1, <1>5, <3>2, SomeOps DEF IsExpr
    <3> QED BY <3>1, <3>2
  <2>2. new \in [DOMAIN program.exprs -> Seq(Operand \union {Null})]
    <3>1. new = [e \in DOMAIN program.exprs |-> new[e]]
      BY <1>1
    <3> HIDE DEF new
    <3> QED BY <2>1, <3>1
  <2> HIDE DEF new
  <2> QED BY <2>1, <2>2 DEF Ops
<1> HIDE DEF s
<1>7. /\ new \in Ops /\ new[V][i] = y
      /\ \A j \in DOMAIN program.exprs[V] : j # i => new[V][j] = o[V][j]
      /\ \A e \in DOMAIN program.exprs : e # V => new[e] = o[e]
  <2> HIDE DEF new
  <2> QED BY <1>1, <1>3, <1>5, <1>6
<1> HIDE DEF new
<1> QED BY <1>4, <1>7

LEMMA Crashes ==
  ASSUME NEW acc \in Fixing
  PROVE  /\ Crash(acc) \in Fixing /\ Crash(acc).crashed = TRUE
         /\ Crash(acc).operands = acc.operands /\ Crash(acc).Values = acc.Values
BY FixingFields DEF Crash

\* An operand taken from what is handed on.
LEMMA Taken ==
  ASSUME program \in Programs, NEW acc \in Fixing, NEW V, IsExpr(V),
         NEW i \in DOMAIN program.exprs[V], acc.operands[V][i] # Null
  PROVE  LET C == acc.operands[V][i]
         IN  /\ C \in Operand /\ C \in Parts[V] /\ C \in Alike(program.exprs[V][i])
             /\ resolveAliasesOperand[C] = Part1(V, i)
             /\ Part1(V, i) \in Operand /\ Part1(V, i) \in Parts[V]
             /\ acc.Values[C] \in Alike(program.exprs[V][i])
<1> DEFINE C == acc.operands[V][i]
<1>1. acc.operands \in Ops /\ acc.Values \in Vals
  BY FixingFields
<1>2. C \in Alike(program.exprs[V][i])
  BY <1>1, SomeOps
<1>3. C \in Operand
  BY <1>2 DEF Alike
<1>4. C \in Parts[V] /\ resolveAliasesOperand[C] = Part1(V, i) /\ Part1(V, i) \in Operand /\ Part1(V, i) \in Parts[V]
  BY <1>2, PartOf
<1>5. acc.Values[C] \in Alike(C)
  BY <1>1, <1>3 DEF Vals
<1>6. Alike(C) = Alike(program.exprs[V][i])
  BY <1>4, PartOf DEF Alike, Part1
<1> QED BY <1>2, <1>3, <1>4, <1>5, <1>6

LEMMA Replaced ==
  ASSUME program \in Programs, NEW acc \in Fixing, NEW V, IsExpr(V),
         NEW i \in DOMAIN program.exprs[V], acc.operands[V][i] # Null
  PROVE  LET C == acc.operands[V][i]
             Op == resolveAliasesOperand[C]
             new == Replace(acc, V, i, Op)
         IN  /\ new \in Fixing /\ new.crashed = acc.crashed
             /\ new.operands = [acc.operands EXCEPT ![V][i] = Op]
             /\ new.Values = [acc.Values EXCEPT ![Op] = C]
             /\ Op = Part1(V, i)
             /\ new.operands[V][i] = Op /\ new.Values[Op] = C
<1> DEFINE C == acc.operands[V][i]
           Op == resolveAliasesOperand[C]
           o == [acc.operands EXCEPT ![V][i] = Op]
           W == [acc.Values EXCEPT ![Op] = C]
<1>1. acc.operands \in Ops /\ acc.Values \in Vals /\ acc = [operands |-> acc.operands, Values |-> acc.Values, crashed |-> acc.crashed]
      /\ acc.crashed \in BOOLEAN
  BY FixingFields
<1>2. /\ C \in Operand /\ Op = Part1(V, i) /\ Op \in Operand
  BY Taken
<1>3. Op \in Alike(program.exprs[V][i])
  BY <1>2, PartOf
<1>4. o \in Ops /\ o[V][i] = Op
  BY <1>1, <1>3, PutOperand
<1>5. C \in Alike(Op)
  BY <1>2, ResolvesOnce DEF Alike
<1>6. W \in Vals /\ W[Op] = C
  <2>1. acc.Values \in [Operand -> Operand \union {Null}] /\ \A x \in Operand : acc.Values[x] \in Alike(x)
    BY <1>1 DEF Vals
  <2>2. W \in [Operand -> Operand \union {Null}] /\ W[Op] = C /\ \A x \in Operand : x # Op => W[x] = acc.Values[x]
    <3> HIDE DEF C, Op
    <3> QED BY <1>2, <2>1
  <2>3. \A x \in Operand : W[x] \in Alike(x)
    <3> HIDE DEF W, C, Op
    <3> QED BY <1>5, <2>1, <2>2
  <2> HIDE DEF W, C, Op
  <2> QED BY <2>2, <2>3 DEF Vals
<1>7. Replace(acc, V, i, Op) = [operands |-> o, Values |-> W, crashed |-> acc.crashed]
  <2> HIDE DEF Op
  <2> DEFINE r == [acc EXCEPT !.Values[Op] = C]
  <2>1. Replace(acc, V, i, Op) = [r EXCEPT !.operands[V][i] = Op]
    BY DEF Replace
  <2>2. r = [operands |-> acc.operands, Values |-> W, crashed |-> acc.crashed]
    <3> HIDE DEF C
    <3> QED BY <1>1
  <2> HIDE DEF r, C
  <2> QED BY <2>1, <2>2
<1> HIDE DEF o, W
<1>8. [operands |-> o, Values |-> W, crashed |-> acc.crashed] \in Fixing
  BY <1>1, <1>4, <1>6, FixingFields
<1> QED BY <1>2, <1>4, <1>6, <1>7, <1>8 DEF o, W

\* An operand restored.
LEMMA GivenBack ==
  ASSUME program \in Programs, NEW acc \in Fixing, NEW V, IsExpr(V),
         NEW i \in DOMAIN program.exprs[V], acc.operands[V][i] # Null
  PROVE  LET C == acc.operands[V][i]
             new == PutBack(acc, V, i)
         IN  /\ new \in Fixing /\ new.crashed = acc.crashed /\ new.Values = acc.Values
             /\ new.operands = [acc.operands EXCEPT ![V][i] = acc.Values[C]]
<1> DEFINE C == acc.operands[V][i]
           y == acc.Values[C]
           o == [acc.operands EXCEPT ![V][i] = y]
<1>1. acc.operands \in Ops /\ acc.Values \in Vals /\ acc = [operands |-> acc.operands, Values |-> acc.Values, crashed |-> acc.crashed]
      /\ acc.crashed \in BOOLEAN
  BY FixingFields
<1>2. y \in Alike(program.exprs[V][i])
  BY Taken
<1>3. o \in Ops
  <2> HIDE DEF y
  <2> QED BY <1>1, <1>2, PutOperand
<1>4. [acc EXCEPT !.operands[V][i] = y] = [operands |-> o, Values |-> acc.Values, crashed |-> acc.crashed]
  <2> HIDE DEF y
  <2> QED BY <1>1
<1> HIDE DEF o, y
<1>5. [operands |-> o, Values |-> acc.Values, crashed |-> acc.crashed] \in Fixing
  BY <1>1, <1>3, FixingFields
<1> QED BY <1>4, <1>5 DEF o, y, PutBack

-----------------------------------------------------------------------------
\* The two functions satisfy their definitions.

Hands == [Fixing -> Fixing]

LEMMA FixOperands ==
  ASSUME program \in Programs, NEW V, IsExpr(V), NEW h, \A u \in Parts[V] : h[u] \in Hands
  PROVE  /\ fixOperands(V, h) \in [1 .. Len(program.exprs[V]) -> Hands]
         /\ Len(program.exprs[V]) \in Nat /\ DOMAIN program.exprs[V] = 1 .. Len(program.exprs[V])
         /\ \A i \in DOMAIN program.exprs[V] : \A acc \in Fixing :
              fixOperands(V, h)[i][acc] =
                IF acc.crashed \/ acc.operands[V][i] = Null THEN Crash(acc)
                ELSE h[Part1(V, i)][Replace(acc, V, i, Part1(V, i))]
<1> DEFINE n == Len(program.exprs[V])
           fix(i, acc) == LET Op == resolveAliasesOperand[acc.operands[V][i]]
                          IN  IF acc.crashed \/ acc.operands[V][i] = Null THEN Crash(acc)
                              ELSE h[Op][Replace(acc, V, i, Op)]
<1>1. n \in Nat /\ DOMAIN program.exprs[V] = 1 .. n
  BY ConstantFacts
<1>2. ASSUME NEW i \in DOMAIN program.exprs[V], NEW acc \in Fixing
      PROVE  /\ fix(i, acc) \in Fixing
             /\ fix(i, acc) = IF acc.crashed \/ acc.operands[V][i] = Null THEN Crash(acc)
                              ELSE h[Part1(V, i)][Replace(acc, V, i, Part1(V, i))]
  <2>1. CASE acc.crashed \/ acc.operands[V][i] = Null
    BY <2>1, Crashes
  <2>2. CASE ~ (acc.crashed \/ acc.operands[V][i] = Null)
    <3> DEFINE Op == resolveAliasesOperand[acc.operands[V][i]]
    <3>1. Op = Part1(V, i) /\ Replace(acc, V, i, Op) \in Fixing /\ h[Part1(V, i)] \in Hands
      <4>1. acc.operands[V][i] # Null
        BY <2>2
      <4>2. Op = Part1(V, i) /\ Part1(V, i) \in Parts[V]
        BY <4>1, Taken
      <4>3. Replace(acc, V, i, Op) \in Fixing
        BY <4>1, Replaced
      <4> QED BY <4>2, <4>3
    <3>2. fix(i, acc) = h[Op][Replace(acc, V, i, Op)]
      BY <2>2
    <3> HIDE DEF Op, fix
    <3>3. h[Op][Replace(acc, V, i, Op)] \in Fixing
      BY <3>1 DEF Hands
    <3> QED BY <2>2, <3>1, <3>2, <3>3
  <2> QED BY <2>1, <2>2
<1>3. fixOperands(V, h) = [i \in DOMAIN program.exprs[V] |-> [acc \in Fixing |-> fix(i, acc)]]
  BY DEF fixOperands
<1> HIDE DEF fix
<1>4. \A i \in DOMAIN program.exprs[V] : [acc \in Fixing |-> fix(i, acc)] \in Hands
  BY <1>2 DEF Hands
<1> QED BY <1>1, <1>2, <1>3, <1>4

LEMMA RestoreOperands ==
  ASSUME program \in Programs, NEW V, IsExpr(V), NEW h, \A u \in Parts[V] : h[u] \in Hands
  PROVE  /\ restoreOperands(V, h) \in [1 .. Len(program.exprs[V]) -> Hands]
         /\ Len(program.exprs[V]) \in Nat /\ DOMAIN program.exprs[V] = 1 .. Len(program.exprs[V])
         /\ \A i \in DOMAIN program.exprs[V] : \A acc \in Fixing :
              restoreOperands(V, h)[i][acc] =
                IF acc.crashed \/ acc.operands[V][i] = Null THEN Crash(acc)
                ELSE h[acc.operands[V][i]][PutBack(acc, V, i)]
<1> DEFINE n == Len(program.exprs[V])
           restore(i, acc) == IF acc.crashed \/ acc.operands[V][i] = Null THEN Crash(acc)
                              ELSE h[acc.operands[V][i]][PutBack(acc, V, i)]
<1>1. n \in Nat /\ DOMAIN program.exprs[V] = 1 .. n
  BY ConstantFacts
<1>2. ASSUME NEW i \in DOMAIN program.exprs[V], NEW acc \in Fixing
      PROVE  /\ restore(i, acc) \in Fixing
             /\ restore(i, acc) = IF acc.crashed \/ acc.operands[V][i] = Null THEN Crash(acc)
                                  ELSE h[acc.operands[V][i]][PutBack(acc, V, i)]
  <2>1. CASE acc.crashed \/ acc.operands[V][i] = Null
    BY <2>1, Crashes
  <2>2. CASE ~ (acc.crashed \/ acc.operands[V][i] = Null)
    <3> DEFINE C == acc.operands[V][i]
               new == PutBack(acc, V, i)
    <3>1. h[C] \in Hands /\ new \in Fixing
      BY <1>2, <2>2, GivenBack, Taken
    <3>2. restore(i, acc) = h[C][new]
      BY <2>2
    <3>3. h[C][new] \in Fixing
      <4> HIDE DEF C, new
      <4> QED BY <3>1 DEF Hands
    <3> QED BY <2>2, <3>2, <3>3
  <2> QED BY <2>1, <2>2
<1>3. restoreOperands(V, h) = [i \in DOMAIN program.exprs[V] |-> [acc \in Fixing |-> restore(i, acc)]]
  BY DEF restoreOperands
<1> HIDE DEF restore
<1>4. \A i \in DOMAIN program.exprs[V] : [acc \in Fixing |-> restore(i, acc)] \in Hands
  BY <1>2 DEF Hands
<1>5. \A i \in DOMAIN program.exprs[V] : \A acc \in Fixing :
        restoreOperands(V, h)[i][acc] = restore(i, acc)
  BY <1>3
<1>6. restoreOperands(V, h) \in [1 .. n -> Hands]
  BY <1>1, <1>3, <1>4
<1> QED BY <1>1, <1>2, <1>5, <1>6

LEMMA FixEquation ==
  ASSUME program \in Programs
  PROVE  \A x \in Operand :
           /\ fixAliasesOperands[x] \in Hands
           /\ \A acc \in Fixing :
                fixAliasesOperands[x][acc] = IF IsExpr(x) THEN InTurn(fixOperands(x, fixAliasesOperands), acc)
                                          ELSE acc
<1> DEFINE D == Operand
           rhs(x, h) == [acc \in Fixing |-> IF IsExpr(x) THEN InTurn(fixOperands(x, h), acc) ELSE acc]
           step == [p \in D \X [D -> Hands] |-> rhs(p[1], p[2])]
<1>1. ASSUME NEW x \in D, NEW h, \A u \in Parts[x] : h[u] \in Hands PROVE rhs(x, h) \in Hands
  <2>1. ASSUME NEW acc \in Fixing, IsExpr(x) PROVE InTurn(fixOperands(x, h), acc) \in Fixing
    <3>1. fixOperands(x, h) \in [1 .. Len(program.exprs[x]) -> [Fixing -> Fixing]] /\ Len(program.exprs[x]) \in Nat
      BY <1>1, <2>1, FixOperands DEF Hands
    <3> QED BY <3>1, TurnByTurn
  <2> QED BY <2>1 DEF Hands
<1>2. ASSUME NEW x \in D, NEW h, NEW g, \A u \in Parts[x] : h[u] \in Hands /\ h[u] = g[u]
      PROVE  rhs(x, h) = rhs(x, g)
  <2>1. CASE IsExpr(x)
    <3>1. fixOperands(x, h) = fixOperands(x, g)
      <4> DEFINE fs == fixOperands(x, h)
                 gs == fixOperands(x, g)
                 n == Len(program.exprs[x])
      <4>1. /\ fs \in [1 .. n -> Hands] /\ gs \in [1 .. n -> Hands] /\ DOMAIN program.exprs[x] = 1 .. n
        BY <1>2, <2>1, FixOperands
      <4>2. ASSUME NEW i \in 1 .. n, NEW acc \in Fixing PROVE fs[i][acc] = gs[i][acc]
        <5>1. /\ fs[i][acc] = IF acc.crashed \/ acc.operands[x][i] = Null THEN Crash(acc)
                             ELSE h[Part1(x, i)][Replace(acc, x, i, Part1(x, i))]
              /\ gs[i][acc] = IF acc.crashed \/ acc.operands[x][i] = Null THEN Crash(acc)
                             ELSE g[Part1(x, i)][Replace(acc, x, i, Part1(x, i))]
          <6> HIDE DEF fs, gs
          <6> QED BY <1>2, <2>1, <4>1, <4>2, FixOperands DEF fs, gs
        <5>2. ~ (acc.crashed \/ acc.operands[x][i] = Null) => h[Part1(x, i)] = g[Part1(x, i)]
          BY <1>2, <2>1, <4>1, <4>2, Taken
        <5> QED BY <5>1, <5>2
      <4>3. \A i \in 1 .. n : fs[i] = gs[i]
        <5> HIDE DEF fs, gs, n
        <5>1. \A i \in 1 .. n : fs[i] \in [Fixing -> Fixing] /\ gs[i] \in [Fixing -> Fixing]
          BY <4>1 DEF Hands
        <5> QED BY <4>2, <5>1
      <4> HIDE DEF fs, gs, n
      <4>4. fs = [i \in 1 .. n |-> fs[i]] /\ gs = [i \in 1 .. n |-> gs[i]]
        BY <4>1
      <4>5. fs = gs
        BY <4>3, <4>4
      <4> QED BY <4>5 DEF fs, gs
    <3> QED BY <3>1
  <2>2. CASE ~ IsExpr(x)
    BY <2>2
  <2> QED BY <2>1, <2>2
<1> HIDE DEF rhs
<1>3. \A x \in D : Parts[x] \subseteq D
  BY PartsDescend DEF Descends
<1>4. Follows(step, Parts, D, Hands)
  <2>1. ASSUME NEW x \in D, NEW h \in [D -> Hands] PROVE step[<<x, h>>] = rhs(x, h) /\ rhs(x, h) \in Hands
    <3>1. \A u \in Parts[x] : h[u] \in Hands
      BY <1>3
    <3> QED BY <1>1, <3>1
  <2>2. step \in [D \X [D -> Hands] -> Hands]
    <3>1. \A p \in D \X [D -> Hands] : rhs(p[1], p[2]) \in Hands
      <4> HIDE DEF D, step
      <4> QED BY <2>1
    <3> HIDE DEF D
    <3> QED BY <3>1
  <2>3. ASSUME NEW x \in D, NEW h \in [D -> Hands], NEW g \in [D -> Hands], \A u \in Parts[x] : h[u] = g[u]
        PROVE  step[<<x, h>>] = step[<<x, g>>]
    <3>1. \A u \in Parts[x] : h[u] \in Hands /\ h[u] = g[u]
      BY <1>3, <2>3
    <3>2. rhs(x, h) = rhs(x, g)
      BY <1>2, <3>1
    <3> HIDE DEF step, D
    <3> QED BY <2>1, <3>2
  <2> HIDE DEF step, D
  <2> QED BY <2>2, <2>3 DEF Follows
<1>5. \E h : h = [x \in Operand |-> [acc \in Fixing |->
                    IF IsExpr(x) THEN InTurn(fixOperands(x, h), acc) ELSE acc]]
  <2>1. Solvable(step, D, Hands)
    <3>1. Hands # {}
      <4>1. [acc \in Fixing |-> acc] \in Hands
        BY DEF Hands
      <4> QED BY <4>1
    <3> HIDE DEF step
    <3> QED BY <1>4, <3>1, PartsDescend, Recursion
  <2>2. PICK h \in [D -> Hands] : \A x \in D : h[x] = step[<<x, h>>]
    <3> HIDE DEF step, D
    <3> QED BY <2>1 DEF Solvable
  <2>3. \A x \in D : h[x] = rhs(x, h)
    <3>1. \A x \in D : step[<<x, h>>] = rhs(x, h)
      <4> HIDE DEF D
      <4> QED OBVIOUS
    <3> QED BY <2>2, <3>1
  <2>4. h = [x \in D |-> rhs(x, h)]
    <3> HIDE DEF D
    <3> QED BY <2>2, <2>3
  <2> QED BY <2>4 DEF rhs
<1> DEFINE f == fixAliasesOperands
<1>6. f = [x \in Operand |-> [acc \in Fixing |->
             IF IsExpr(x) THEN InTurn(fixOperands(x, f), acc) ELSE acc]]
  BY <1>5 DEF fixAliasesOperands
<1> HIDE DEF f
<1>7. \A x \in D : f[x] = rhs(x, f)
  BY <1>6 DEF rhs
<1>8. \A x \in D : f[x] \in Hands
  <2> DEFINE G == {x \in D : f[x] \in Hands}
  <2>1. ASSUME NEW x \in D, Parts[x] \subseteq G PROVE x \in G
    BY <1>1, <1>7, <2>1
  <2>2. D \subseteq G
    <3> HIDE DEF G
    <3> QED BY <2>1, PartsDescend, Descent
  <2> QED BY <2>2
<1>9. \A x \in D : \A acc \in Fixing :
        f[x][acc] = IF IsExpr(x) THEN InTurn(fixOperands(x, f), acc) ELSE acc
  BY <1>6
<1> QED BY <1>8, <1>9 DEF f

LEMMA RestoreEquation ==
  ASSUME program \in Programs
  PROVE  \A x \in Operand :
           /\ restoreAliasesOperands[x] \in Hands
           /\ \A acc \in Fixing :
                restoreAliasesOperands[x][acc] = IF IsExpr(x) THEN InTurn(restoreOperands(x, restoreAliasesOperands), acc)
                                          ELSE acc
<1> DEFINE D == Operand
           rhs(x, h) == [acc \in Fixing |-> IF IsExpr(x) THEN InTurn(restoreOperands(x, h), acc) ELSE acc]
           step == [p \in D \X [D -> Hands] |-> rhs(p[1], p[2])]
<1>1. ASSUME NEW x \in D, NEW h, \A u \in Parts[x] : h[u] \in Hands PROVE rhs(x, h) \in Hands
  <2>1. ASSUME NEW acc \in Fixing, IsExpr(x) PROVE InTurn(restoreOperands(x, h), acc) \in Fixing
    <3>1. restoreOperands(x, h) \in [1 .. Len(program.exprs[x]) -> [Fixing -> Fixing]] /\ Len(program.exprs[x]) \in Nat
      BY <1>1, <2>1, RestoreOperands DEF Hands
    <3> QED BY <3>1, TurnByTurn
  <2> QED BY <2>1 DEF Hands
<1>2. ASSUME NEW x \in D, NEW h, NEW g, \A u \in Parts[x] : h[u] \in Hands /\ h[u] = g[u]
      PROVE  rhs(x, h) = rhs(x, g)
  <2>1. CASE IsExpr(x)
    <3>1. restoreOperands(x, h) = restoreOperands(x, g)
      <4> DEFINE fs == restoreOperands(x, h)
                 gs == restoreOperands(x, g)
                 n == Len(program.exprs[x])
      <4>1. /\ fs \in [1 .. n -> Hands] /\ gs \in [1 .. n -> Hands] /\ DOMAIN program.exprs[x] = 1 .. n
        BY <1>2, <2>1, RestoreOperands
      <4>2. ASSUME NEW i \in 1 .. n, NEW acc \in Fixing PROVE fs[i][acc] = gs[i][acc]
        <5>1. /\ fs[i][acc] = IF acc.crashed \/ acc.operands[x][i] = Null THEN Crash(acc)
                             ELSE h[acc.operands[x][i]][PutBack(acc, x, i)]
              /\ gs[i][acc] = IF acc.crashed \/ acc.operands[x][i] = Null THEN Crash(acc)
                             ELSE g[acc.operands[x][i]][PutBack(acc, x, i)]
          <6> HIDE DEF fs, gs
          <6> QED BY <1>2, <2>1, <4>1, <4>2, RestoreOperands DEF fs, gs
        <5>2. ~ (acc.crashed \/ acc.operands[x][i] = Null) => h[acc.operands[x][i]] = g[acc.operands[x][i]]
          BY <1>2, <2>1, <4>1, <4>2, Taken
        <5> QED BY <5>1, <5>2
      <4>3. \A i \in 1 .. n : fs[i] = gs[i]
        <5> HIDE DEF fs, gs, n
        <5>1. \A i \in 1 .. n : fs[i] \in [Fixing -> Fixing] /\ gs[i] \in [Fixing -> Fixing]
          BY <4>1 DEF Hands
        <5> QED BY <4>2, <5>1
      <4> HIDE DEF fs, gs, n
      <4>4. fs = [i \in 1 .. n |-> fs[i]] /\ gs = [i \in 1 .. n |-> gs[i]]
        BY <4>1
      <4>5. fs = gs
        BY <4>3, <4>4
      <4> QED BY <4>5 DEF fs, gs
    <3> QED BY <3>1
  <2>2. CASE ~ IsExpr(x)
    BY <2>2
  <2> QED BY <2>1, <2>2
<1> HIDE DEF rhs
<1>3. \A x \in D : Parts[x] \subseteq D
  BY PartsDescend DEF Descends
<1>4. Follows(step, Parts, D, Hands)
  <2>1. ASSUME NEW x \in D, NEW h \in [D -> Hands] PROVE step[<<x, h>>] = rhs(x, h) /\ rhs(x, h) \in Hands
    <3>1. \A u \in Parts[x] : h[u] \in Hands
      BY <1>3
    <3> QED BY <1>1, <3>1
  <2>2. step \in [D \X [D -> Hands] -> Hands]
    <3>1. \A p \in D \X [D -> Hands] : rhs(p[1], p[2]) \in Hands
      <4> HIDE DEF D, step
      <4> QED BY <2>1
    <3> HIDE DEF D
    <3> QED BY <3>1
  <2>3. ASSUME NEW x \in D, NEW h \in [D -> Hands], NEW g \in [D -> Hands], \A u \in Parts[x] : h[u] = g[u]
        PROVE  step[<<x, h>>] = step[<<x, g>>]
    <3>1. \A u \in Parts[x] : h[u] \in Hands /\ h[u] = g[u]
      BY <1>3, <2>3
    <3>2. rhs(x, h) = rhs(x, g)
      BY <1>2, <3>1
    <3> HIDE DEF step, D
    <3> QED BY <2>1, <3>2
  <2> HIDE DEF step, D
  <2> QED BY <2>2, <2>3 DEF Follows
<1>5. \E h : h = [x \in Operand |-> [acc \in Fixing |->
                    IF IsExpr(x) THEN InTurn(restoreOperands(x, h), acc) ELSE acc]]
  <2>1. Solvable(step, D, Hands)
    <3>1. Hands # {}
      <4>1. [acc \in Fixing |-> acc] \in Hands
        BY DEF Hands
      <4> QED BY <4>1
    <3> HIDE DEF step
    <3> QED BY <1>4, <3>1, PartsDescend, Recursion
  <2>2. PICK h \in [D -> Hands] : \A x \in D : h[x] = step[<<x, h>>]
    <3> HIDE DEF step, D
    <3> QED BY <2>1 DEF Solvable
  <2>3. \A x \in D : h[x] = rhs(x, h)
    <3>1. \A x \in D : step[<<x, h>>] = rhs(x, h)
      <4> HIDE DEF D
      <4> QED OBVIOUS
    <3> QED BY <2>2, <3>1
  <2>4. h = [x \in D |-> rhs(x, h)]
    <3> HIDE DEF D
    <3> QED BY <2>2, <2>3
  <2> QED BY <2>4 DEF rhs
<1> DEFINE f == restoreAliasesOperands
<1>6. f = [x \in Operand |-> [acc \in Fixing |->
             IF IsExpr(x) THEN InTurn(restoreOperands(x, f), acc) ELSE acc]]
  BY <1>5 DEF restoreAliasesOperands
<1> HIDE DEF f
<1>7. \A x \in D : f[x] = rhs(x, f)
  BY <1>6 DEF rhs
<1>8. \A x \in D : f[x] \in Hands
  <2> DEFINE G == {x \in D : f[x] \in Hands}
  <2>1. ASSUME NEW x \in D, Parts[x] \subseteq G PROVE x \in G
    BY <1>1, <1>7, <2>1
  <2>2. D \subseteq G
    <3> HIDE DEF G
    <3> QED BY <2>1, PartsDescend, Descent
  <2> QED BY <2>2
<1>9. \A x \in D : \A acc \in Fixing :
        f[x][acc] = IF IsExpr(x) THEN InTurn(restoreOperands(x, f), acc) ELSE acc
  BY <1>6
<1> QED BY <1>8, <1>9 DEF f

-----------------------------------------------------------------------------
\* Places for operands.

IsPlace(e, i) == IsExpr(e) /\ i \in DOMAIN program.exprs[e]
Places == {p \in Operand \X Nat : IsPlace(p[1], p[2])}
At(acc, p) == acc.operands[p[1]][p[2]]

\* The places an operand leads to, and those that come with one operand of x.
Under(x) == {p \in Places : p[1] \in visited[x]}
Own(x, k) == {<<x, k>>} \union Under(Part1(x, k))

\* What is there will be found again.
Kept(acc, p) == At(acc, p) # Null /\ ~ IsAlias(At(acc, p)) /\ acc.Values[At(acc, p)] # Null

\* Nothing is lost from one to the other.
Grows(a, b) ==
  /\ a.crashed => b.crashed
  /\ \A p \in Places : /\ Kept(a, p) => Kept(b, p)
                       /\ At(a, p) # Null => At(b, p) # Null
  /\ \A x \in Operand : a.Values[x] # Null => b.Values[x] # Null

LEMMA GrowsOn == \A a, b, c : Grows(a, b) /\ Grows(b, c) => Grows(a, c)
BY DEF Grows

LEMMA PlaceOf ==
  ASSUME program \in Programs, NEW p \in Places
  PROVE  /\ IsExpr(p[1]) /\ p[1] \in Operand /\ p[2] \in DOMAIN program.exprs[p[1]]
         /\ p = <<p[1], p[2]>>
<1>1. p \in Operand \X Nat /\ IsPlace(p[1], p[2])
  BY DEF Places
<1>2. p[1] \in Operand /\ p = <<p[1], p[2]>>
  BY <1>1
<1> QED BY <1>1, <1>2 DEF IsPlace

LEMMA PlacesUnder ==
  ASSUME program \in Programs, NEW x, IsExpr(x)
  PROVE  /\ \A k \in DOMAIN program.exprs[x] : <<x, k>> \in Places /\ Own(x, k) \subseteq Under(x)
         /\ \A p \in Under(x) : \E k \in DOMAIN program.exprs[x] : p \in Own(x, k)
         /\ \A k, j \in DOMAIN program.exprs[x] : <<x, k>> \notin Under(Part1(x, j))
<1>1. program.exprs[x] \in Seq(Operand)
  BY ConstantFacts
<1>2. ASSUME NEW k \in DOMAIN program.exprs[x] PROVE k \in Nat /\ <<x, k>> \in Places
  <2>1. k \in Nat
    BY <1>1
  <2>2. x \in Operand /\ IsPlace(x, k)
    BY ConstantFacts DEF IsPlace
  <2> QED BY <2>1, <2>2 DEF Places
<1>3. ASSUME NEW k \in DOMAIN program.exprs[x] PROVE Own(x, k) \subseteq Under(x)
  BY <1>2, Visits DEF Own, Under
<1>4. ASSUME NEW p \in Under(x) PROVE \E k \in DOMAIN program.exprs[x] : p \in Own(x, k)
  <2>1. p \in Places /\ p[1] \in visited[x]
    BY DEF Under
  <2>2. CASE p[1] = x
    BY <2>1, <2>2, PlaceOf DEF Own
  <2>3. CASE p[1] # x
    <3>1. PICK k \in DOMAIN program.exprs[x] : p[1] \in visited[Part1(x, k)]
      BY <2>1, <2>3, Visits
    <3> QED BY <2>1, <3>1 DEF Own, Under
  <2> QED BY <2>2, <2>3
<1>5. \A k, j \in DOMAIN program.exprs[x] : <<x, k>> \notin Under(Part1(x, j))
  BY NotInParts DEF Under
<1> QED BY <1>2, <1>3, <1>4, <1>5

LEMMA HandsInTurn ==
  ASSUME NEW n \in Nat, NEW fs \in [1 .. n -> Hands], NEW acc \in Fixing
  PROVE  \E done \in [0 .. n -> Fixing] : Turns(n, fs, acc, done)
BY TurnByTurn DEF Hands

\* Functions that lose nothing, each of which keeps some places, keep them all.
LEMMA KeptInTurn ==
  ASSUME NEW n \in Nat, NEW fs \in [1 .. n -> Hands], NEW E \in [1 .. n -> SUBSET Places],
         \A k \in 1 .. n : \A a \in Fixing :
           /\ Grows(a, fs[k][a])
           /\ ~ fs[k][a].crashed => \A p \in E[k] : Kept(fs[k][a], p),
         NEW acc \in Fixing
  PROVE  LET r == InTurn(fs, acc)
         IN  /\ r \in Fixing /\ Grows(acc, r)
             /\ ~ r.crashed => \A k \in 1 .. n : \A p \in E[k] : Kept(r, p)
<1>0. PICK done \in [0 .. n -> Fixing] : Turns(n, fs, acc, done)
  BY HandsInTurn
<1>1. /\ done[0] = acc
      /\ \A k \in 1 .. n : done[k] = fs[k][done[k - 1]]
      /\ InTurn(fs, acc) = done[n]
  BY <1>0 DEF Turns
<1> DEFINE Good(k) == /\ Grows(acc, done[k])
                      /\ ~ done[k].crashed => \A j \in 1 .. k : \A p \in E[j] : Kept(done[k], p)
           G == {k \in 0 .. n : Good(k)}
<1>3. 0 \in G
  <2>1. Grows(acc, acc)
    BY DEF Grows
  <2> QED BY <1>1, <2>1
<1>4. ASSUME NEW k \in 1 .. n, k - 1 \in G PROVE k \in G
  <2> DEFINE a == done[k - 1]
             b == done[k]
  <2>1. a \in Fixing /\ b = fs[k][a] /\ k \in 0 .. n /\ k - 1 \in 0 .. n
    BY <1>1
  <2>2. Grows(a, b) /\ (~ b.crashed => \A p \in E[k] : Kept(b, p))
    <3> HIDE DEF a, b
    <3> QED BY <2>1
  <2>3. Good(k - 1)
    BY <1>4
  <2>4. Grows(acc, b)
    BY <2>2, <2>3, GrowsOn
  <2>5. ASSUME ~ b.crashed, NEW j \in 1 .. k, NEW p \in E[j] PROVE Kept(b, p)
    <3>1. CASE j = k
      BY <2>2, <2>5, <3>1
    <3>2. CASE j # k
      <4>1. j \in 1 .. k - 1 /\ ~ a.crashed /\ p \in Places
        BY <2>2, <2>5, <3>2 DEF Grows
      <4>2. Kept(a, p)
        BY <2>3, <2>5, <4>1
      <4> QED BY <2>2, <4>1, <4>2 DEF Grows
    <3> QED BY <3>1, <3>2
  <2> QED BY <2>1, <2>4, <2>5
<1>5. n \in G
  <2>1. 0 .. n \subseteq G
    <3> HIDE DEF G
    <3> QED BY <1>3, <1>4, CountUp
  <2> QED BY <2>1
<1> QED BY <1>1, <1>5

\* One operand replaced.
LEMMA ReplaceKeeps ==
  ASSUME program \in Programs, NEW acc \in Fixing, NEW x, IsExpr(x),
         NEW i \in DOMAIN program.exprs[x], acc.operands[x][i] # Null
  PROVE  LET new == Replace(acc, x, i, Part1(x, i))
         IN  new \in Fixing /\ Grows(acc, new) /\ Kept(new, <<x, i>>)
<1> DEFINE C == acc.operands[x][i]
           Op == Part1(x, i)
           new == Replace(acc, x, i, Op)
<1>1. /\ new \in Fixing /\ new.crashed = acc.crashed
      /\ new.operands = [acc.operands EXCEPT ![x][i] = Op]
      /\ new.Values = [acc.Values EXCEPT ![Op] = C]
      /\ new.operands[x][i] = Op /\ new.Values[Op] = C
  <2>1. resolveAliasesOperand[C] = Op
    BY Taken
  <2> DEFINE O == resolveAliasesOperand[C]
             m == Replace(acc, x, i, O)
  <2>2. /\ m \in Fixing /\ m.crashed = acc.crashed
        /\ m.operands = [acc.operands EXCEPT ![x][i] = O]
        /\ m.Values = [acc.Values EXCEPT ![O] = C]
        /\ m.operands[x][i] = O /\ m.Values[O] = C
    BY Replaced
  <2> HIDE DEF C, Op
  <2> QED BY <2>1, <2>2
<1>2. Op \in Operand /\ ~ IsAlias(Op) /\ Op # Null /\ Op \in Alike(program.exprs[x][i])
  BY PartOf, Resolves, ConstantFacts DEF Part1
<1>3. Kept(new, <<x, i>>)
  <2> HIDE DEF C, Op, new
  <2> QED BY <1>1, <1>2 DEF Kept, At, C
<1>4. acc.operands \in Ops /\ acc.Values \in [Operand -> Operand \union {Null}]
  BY FixingFields DEF Vals
<1>5. \A y \in Operand : acc.Values[y] # Null => new.Values[y] # Null
  <2> HIDE DEF C, Op, new
  <2> QED BY <1>1, <1>4 DEF C
<1>6. ASSUME NEW p \in Places, p # <<x, i>> PROVE At(new, p) = At(acc, p)
  <2>1. p[1] \in DOMAIN program.exprs /\ p[2] \in DOMAIN program.exprs[p[1]] /\ p = <<p[1], p[2]>>
    BY PlaceOf DEF IsExpr
  <2>2. p[1] # x \/ p[2] # i
    BY <1>6, <2>1
  <2>3. /\ \A j \in DOMAIN program.exprs[x] : j # i => new.operands[x][j] = acc.operands[x][j]
        /\ \A e \in DOMAIN program.exprs : e # x => new.operands[e] = acc.operands[e]
    <3> HIDE DEF C, Op, new
    <3> QED BY <1>1, <1>2, <1>4, PutOperand
  <2> HIDE DEF C, Op, new
  <2> QED BY <2>1, <2>2, <2>3 DEF At
<1>7. ASSUME NEW p \in Places
      PROVE  (Kept(acc, p) => Kept(new, p)) /\ (At(acc, p) # Null => At(new, p) # Null)
  <2>1. CASE p = <<x, i>>
    BY <1>3, <2>1 DEF Kept
  <2>2. CASE p # <<x, i>>
    <3>1. At(new, p) = At(acc, p)
      BY <1>6, <2>2
    <3>2. At(acc, p) \in Operand \union {Null}
      <4>1. IsExpr(p[1]) /\ p[2] \in DOMAIN program.exprs[p[1]]
        BY PlaceOf
      <4>2. acc.operands[p[1]][p[2]] \in Alike(program.exprs[p[1]][p[2]])
        BY <1>4, <4>1, SomeOps
      <4> QED BY <4>2 DEF At, Alike
    <3> HIDE DEF C, Op, new
    <3> QED BY <1>5, <3>1, <3>2 DEF Kept
  <2> QED BY <2>1, <2>2
<1> HIDE DEF new
<1>8. Grows(acc, new)
  BY <1>1, <1>5, <1>7 DEF Grows
<1> QED BY <1>1, <1>3, <1>8 DEF new

\* Behind a replacement all places an operand leads to are kept.
LEMMA FixKeeps ==
  ASSUME program \in Programs
  PROVE  \A x \in Operand : \A acc \in Fixing :
           LET r == fixAliasesOperands[x][acc]
           IN  Grows(acc, r) /\ (~ r.crashed => \A p \in Under(x) : Kept(r, p))
<1> DEFINE f == fixAliasesOperands
           Good(x) == \A acc \in Fixing :
             Grows(acc, f[x][acc]) /\ (~ f[x][acc].crashed => \A p \in Under(x) : Kept(f[x][acc], p))
           G == {x \in Operand : Good(x)}
<1>1. \A x \in Operand : /\ f[x] \in Hands
                         /\ \A acc \in Fixing :
                              f[x][acc] = IF IsExpr(x) THEN InTurn(fixOperands(x, f), acc) ELSE acc
  BY FixEquation
<1>2. \A a : Grows(a, a)
  BY DEF Grows
<1> HIDE DEF f
<1>3. ASSUME NEW x \in Operand, Parts[x] \subseteq G, IsExpr(x), NEW acc \in Fixing
      PROVE  Grows(acc, f[x][acc]) /\ (~ f[x][acc].crashed => \A p \in Under(x) : Kept(f[x][acc], p))
  <2> DEFINE n == Len(program.exprs[x])
             fs == fixOperands(x, f)
             E == [k \in 1 .. n |-> Own(x, k)]
  <2>1. Parts[x] \subseteq Operand
    BY PartsDescend DEF Descends
  <2>2. /\ fs \in [1 .. n -> Hands] /\ n \in Nat /\ DOMAIN program.exprs[x] = 1 .. n
        /\ \A i \in DOMAIN program.exprs[x] : \A a \in Fixing :
              fs[i][a] = IF a.crashed \/ a.operands[x][i] = Null THEN Crash(a)
                         ELSE f[Part1(x, i)][Replace(a, x, i, Part1(x, i))]
    BY <1>1, <1>3, <2>1, FixOperands
  <2>3. E \in [1 .. n -> SUBSET Places]
    BY <2>2, <1>3, PlacesUnder DEF Under
  <2>4. ASSUME NEW k \in 1 .. n, NEW a \in Fixing
        PROVE  Grows(a, fs[k][a]) /\ (~ fs[k][a].crashed => \A p \in E[k] : Kept(fs[k][a], p))
    <3>1. CASE a.crashed \/ a.operands[x][k] = Null
      <4>1. fs[k][a] = Crash(a)
        BY <2>2, <3>1
      <4>2. Grows(a, Crash(a))
        BY Crashes DEF Grows, Kept, At
      <4> HIDE DEF fs, E, n
      <4> QED BY <4>1, <4>2, Crashes
    <3>2. CASE ~ (a.crashed \/ a.operands[x][k] = Null)
      <4> DEFINE u == Part1(x, k)
                 new == Replace(a, x, k, u)
      <4>1. fs[k][a] = f[u][new]
        BY <2>2, <3>2
      <4>2. new \in Fixing /\ Grows(a, new) /\ Kept(new, <<x, k>>)
        BY <1>3, <2>2, <3>2, ReplaceKeeps
      <4>3. u \in G /\ <<x, k>> \in Places
        BY <1>3, <2>2, PartOf, PlacesUnder
      <4>4. E[k] = {<<x, k>>} \union Under(u)
        BY DEF Own
      <4> HIDE DEF fs, E, n, u, new
      <4>5. Grows(new, f[u][new]) /\ (~ f[u][new].crashed => \A p \in Under(u) : Kept(f[u][new], p))
        BY <4>2, <4>3
      <4>6. Grows(a, f[u][new]) /\ Kept(f[u][new], <<x, k>>)
        BY <4>2, <4>3, <4>5, GrowsOn DEF Grows
      <4> QED BY <4>1, <4>4, <4>5, <4>6
    <3> QED BY <3>1, <3>2
  <2>5. f[x][acc] = InTurn(fs, acc)
    BY <1>1, <1>3
  <2> HIDE DEF fs, E
  <2>6. LET r == InTurn(fs, acc)
        IN  /\ r \in Fixing /\ Grows(acc, r)
            /\ ~ r.crashed => \A k \in 1 .. n : \A p \in E[k] : Kept(r, p)
    <3> HIDE DEF n
    <3> QED BY <2>2, <2>3, <2>4, KeptInTurn
  <2>7. \A p \in Under(x) : \E k \in 1 .. n : p \in E[k]
    BY <1>3, <2>2, PlacesUnder DEF E
  <2> QED BY <2>5, <2>6, <2>7
<1>4. ASSUME NEW x \in Operand, Parts[x] \subseteq G PROVE x \in G
  <2>1. CASE IsExpr(x)
    BY <1>3, <1>4, <2>1
  <2>2. CASE ~ IsExpr(x)
    <3>1. Under(x) = {}
      BY <2>2, Visits DEF Under
    <3> QED BY <1>1, <1>2, <2>2, <3>1
  <2> QED BY <2>1, <2>2
<1>5. Operand \subseteq G
  <2> HIDE DEF G
  <2> QED BY <1>4, PartsDescend, Descent
<1> QED BY <1>5 DEF f

\* Only the places in E are changed.
OnlyAt(E, a, b) == b.Values = a.Values /\ \A p \in Places \ E : At(b, p) = At(a, p)

\* Functions each of which changes some places change no others; a place that
\* one of them changes, to an operand, has an operand.
LEMMA GivenBackInTurn ==
  ASSUME NEW n \in Nat, NEW fs \in [1 .. n -> Hands], NEW E \in [1 .. n -> SUBSET Places],
         \A k \in 1 .. n : \A a \in Fixing : OnlyAt(E[k], a, fs[k][a]),
         NEW acc \in Fixing
  PROVE  LET r == InTurn(fs, acc)
         IN  /\ r \in Fixing /\ r.Values = acc.Values
             /\ \A p \in Places : (\A k \in 1 .. n : p \notin E[k]) => At(r, p) = At(acc, p)
             /\ \A p \in Places :
                  /\ \A k \in 1 .. n : p \in E[k] =>
                       \A a \in Fixing : Kept(a, p) => At(fs[k][a], p) # Null
                  /\ \A j, k \in 1 .. n : p \in E[j] /\ p \in E[k] => j = k
                  /\ Kept(acc, p)
                  => At(r, p) # Null
<1>0. PICK done \in [0 .. n -> Fixing] : Turns(n, fs, acc, done)
  BY HandsInTurn
<1>1. /\ done[0] = acc
      /\ \A k \in 1 .. n : done[k] = fs[k][done[k - 1]]
      /\ InTurn(fs, acc) = done[n]
  BY <1>0 DEF Turns
<1>2. ASSUME NEW k \in 1 .. n
      PROVE  /\ done[k - 1] \in Fixing /\ done[k].Values = done[k - 1].Values
             /\ \A p \in Places \ E[k] : At(done[k], p) = At(done[k - 1], p)
             /\ done[k] = fs[k][done[k - 1]]
  <2>1. done[k - 1] \in Fixing /\ done[k] = fs[k][done[k - 1]]
    BY <1>1
  <2> QED BY <2>1 DEF OnlyAt
<1>3. ASSUME NEW p \in Places
      PROVE  \A k \in 0 .. n : /\ done[k].Values = acc.Values
                               /\ (\A j \in 1 .. k : p \notin E[j]) => At(done[k], p) = At(acc, p)
  <2> DEFINE G == {k \in 0 .. n : /\ done[k].Values = acc.Values
                                  /\ (\A j \in 1 .. k : p \notin E[j]) => At(done[k], p) = At(acc, p)}
  <2>1. 0 \in G
    BY <1>1
  <2>2. ASSUME NEW k \in 1 .. n, k - 1 \in G PROVE k \in G
    <3>1. done[k].Values = acc.Values
      BY <1>2, <2>2
    <3>2. ASSUME \A j \in 1 .. k : p \notin E[j] PROVE At(done[k], p) = At(acc, p)
      <4>1. p \notin E[k] /\ \A j \in 1 .. k - 1 : p \notin E[j]
        BY <3>2
      <4> QED BY <1>2, <2>2, <4>1
    <3> QED BY <3>1, <3>2
  <2>3. 0 .. n \subseteq G
    <3> HIDE DEF G
    <3> QED BY <2>1, <2>2, CountUp
  <2> QED BY <2>3
<1>4. ASSUME NEW p \in Places,
             \A k \in 1 .. n : p \in E[k] =>
               \A a \in Fixing : Kept(a, p) => At(fs[k][a], p) # Null,
             \A j, k \in 1 .. n : p \in E[j] /\ p \in E[k] => j = k,
             Kept(acc, p)
      PROVE  At(done[n], p) # Null
  <2> DEFINE G == {k \in 0 .. n : At(done[k], p) # Null}
  <2>1. 0 \in G
    BY <1>1, <1>4 DEF Kept
  <2>2. ASSUME NEW k \in 1 .. n, k - 1 \in G PROVE k \in G
    <3>1. CASE p \notin E[k]
      BY <1>2, <2>2, <3>1
    <3>2. CASE p \in E[k]
      <4>1. \A j \in 1 .. k - 1 : p \notin E[j]
        BY <1>4, <3>2
      <4>2. At(done[k - 1], p) = At(acc, p) /\ done[k - 1].Values = acc.Values
        BY <1>3, <4>1
      <4>3. Kept(done[k - 1], p)
        BY <1>4, <4>2 DEF Kept
      <4> QED BY <1>2, <1>4, <3>2, <4>3
    <3> QED BY <3>1, <3>2
  <2>3. 0 .. n \subseteq G
    <3> HIDE DEF G
    <3> QED BY <2>1, <2>2, CountUp
  <2> QED BY <2>3
<1>5. done[n] \in Fixing /\ done[n].Values = acc.Values
  <2> DEFINE G == {k \in 0 .. n : done[k].Values = acc.Values}
  <2>1. 0 \in G
    BY <1>1
  <2>2. ASSUME NEW k \in 1 .. n, k - 1 \in G PROVE k \in G
    BY <1>2, <2>2
  <2>3. 0 .. n \subseteq G
    <3> HIDE DEF G
    <3> QED BY <2>1, <2>2, CountUp
  <2> QED BY <2>3
<1>6. \A p \in Places : (\A k \in 1 .. n : p \notin E[k]) => At(done[n], p) = At(acc, p)
  BY <1>3
<1> QED BY <1>1, <1>4, <1>5, <1>6

\* One operand given back.
LEMMA PutBackKeeps ==
  ASSUME program \in Programs, NEW acc \in Fixing, NEW x, IsExpr(x),
         NEW i \in DOMAIN program.exprs[x], acc.operands[x][i] # Null
  PROVE  LET new == PutBack(acc, x, i)
         IN  /\ new \in Fixing /\ OnlyAt({<<x, i>>}, acc, new)
             /\ At(new, <<x, i>>) = acc.Values[acc.operands[x][i]]
<1> DEFINE C == acc.operands[x][i]
           y == acc.Values[C]
           new == PutBack(acc, x, i)
<1>1. /\ new \in Fixing /\ new.Values = acc.Values
      /\ new.operands = [acc.operands EXCEPT ![x][i] = y]
  BY GivenBack
<1>2. y \in Alike(program.exprs[x][i]) /\ acc.operands \in Ops
  BY Taken, FixingFields
<1> HIDE DEF y, new
<1>3. /\ new.operands[x][i] = y
      /\ \A j \in DOMAIN program.exprs[x] : j # i => new.operands[x][j] = acc.operands[x][j]
      /\ \A e \in DOMAIN program.exprs : e # x => new.operands[e] = acc.operands[e]
  BY <1>1, <1>2, PutOperand
<1>4. ASSUME NEW p \in Places, p # <<x, i>> PROVE At(new, p) = At(acc, p)
  <2>1. p[1] \in DOMAIN program.exprs /\ p[2] \in DOMAIN program.exprs[p[1]] /\ p = <<p[1], p[2]>>
    BY PlaceOf DEF IsExpr
  <2>2. p[1] # x \/ p[2] # i
    BY <1>4, <2>1
  <2> QED BY <1>3, <2>1, <2>2 DEF At
<1>5. At(new, <<x, i>>) = y
  BY <1>3 DEF At
<1>6. OnlyAt({<<x, i>>}, acc, new)
  BY <1>1, <1>4 DEF OnlyAt
<1> QED BY <1>1, <1>5, <1>6 DEF new, y

\* Only the places an operand leads to are restored, and what is kept is found.
LEMMA RestoreKeeps ==
  ASSUME program \in Programs
  PROVE  \A x \in Operand : \A acc \in Fixing :
           LET r == restoreAliasesOperands[x][acc]
           IN  /\ OnlyAt(Under(x), acc, r)
               /\ \A p \in Under(x) :
                    (\A V \in visited[x] : ~ Shared(V, p[1])) /\ Kept(acc, p) => At(r, p) # Null
<1> DEFINE f == restoreAliasesOperands
           Found(x, p) == \A V \in visited[x] : ~ Shared(V, p[1])
           Good(x) == \A acc \in Fixing :
             /\ OnlyAt(Under(x), acc, f[x][acc])
             /\ \A p \in Under(x) : Found(x, p) /\ Kept(acc, p) => At(f[x][acc], p) # Null
           G == {x \in Operand : Good(x)}
<1>1. \A x \in Operand : /\ f[x] \in Hands
                         /\ \A acc \in Fixing :
                              f[x][acc] = IF IsExpr(x) THEN InTurn(restoreOperands(x, f), acc) ELSE acc
  BY RestoreEquation
<1> HIDE DEF f
<1>2. ASSUME NEW x \in Operand, ~ IsExpr(x), NEW acc \in Fixing
      PROVE  f[x][acc] = acc /\ Under(x) = {}
  BY <1>1, <1>2, Visits DEF Under
<1>3. ASSUME NEW x \in Operand, Parts[x] \subseteq G, IsExpr(x)
      PROVE  Good(x)
  <2> DEFINE n == Len(program.exprs[x])
             fs == restoreOperands(x, f)
             E == [k \in 1 .. n |-> Own(x, k)]
  <2>1. Parts[x] \subseteq Operand
    BY PartsDescend DEF Descends
  <2>2. /\ fs \in [1 .. n -> Hands] /\ n \in Nat /\ DOMAIN program.exprs[x] = 1 .. n
        /\ \A i \in DOMAIN program.exprs[x] : \A a \in Fixing :
              fs[i][a] = IF a.crashed \/ a.operands[x][i] = Null THEN Crash(a)
                         ELSE f[a.operands[x][i]][PutBack(a, x, i)]
    BY <1>1, <1>3, <2>1, RestoreOperands
  <2>3. E \in [1 .. n -> SUBSET Places]
    BY <2>2, <1>3, PlacesUnder DEF Under
  <2>4. ASSUME NEW k \in 1 .. n, NEW a \in Fixing
        PROVE  /\ OnlyAt(Own(x, k), a, fs[k][a])
               /\ \A p \in Own(x, k) :
                    (p[1] # x => Found(Part1(x, k), p)) /\ Kept(a, p) => At(fs[k][a], p) # Null
    <3> DEFINE b == fs[k][a]
               C == a.operands[x][k]
               u == Part1(x, k)
               new == PutBack(a, x, k)
               q == <<x, k>>
    <3>1. CASE a.crashed \/ C = Null
      <4>1. b = Crash(a)
        BY <2>2, <3>1
      <4>2. b.Values = a.Values /\ \A p : At(b, p) = At(a, p)
        <5> HIDE DEF b
        <5> QED BY <4>1, Crashes DEF At
      <4>3. /\ OnlyAt(Own(x, k), a, b)
            /\ \A p : Kept(a, p) => At(b, p) # Null
        <5> HIDE DEF b
        <5> QED BY <4>2 DEF OnlyAt, Kept
      <4> HIDE DEF fs, E, n
      <4> QED BY <4>3
    <3>2. CASE ~ (a.crashed \/ C = Null)
      <4>1. b = f[C][new]
        BY <2>2, <3>2
      <4>2. new \in Fixing /\ OnlyAt({q}, a, new) /\ At(new, q) = a.Values[C]
        <5>1. k \in DOMAIN program.exprs[x] /\ a.operands[x][k] # Null
          BY <2>2, <3>2
        <5> HIDE DEF C, fs, E, n
        <5> QED BY <1>3, <5>1, PutBackKeeps DEF C
      <4>3. q \in Places /\ q \notin Under(u) /\ u \in Operand /\ Own(x, k) = {q} \union Under(u) /\ q[1] = x
        BY <1>3, <2>2, PlacesUnder, PartOf DEF Own
      <4>4. C \in G /\ C \in Operand /\ resolveAliasesOperand[C] = u
        BY <1>3, <2>2, <3>2, Taken
      <4>5. \/ IsAlias(C) /\ ~ IsExpr(C)
            \/ ~ IsAlias(C) /\ C = u
        BY <4>4, Resolves, ConstantFacts
      <4>6. At(a, q) = C
        BY DEF At
      <4> HIDE DEF b, C, u, new, q, fs, E
      <4>7. Under(C) \subseteq Under(u)
        BY <1>2, <4>2, <4>4, <4>5
      <4>8. OnlyAt(Under(C), new, b)
        BY <4>1, <4>2, <4>4
      <4>9. OnlyAt(Own(x, k), a, b)
        BY <4>2, <4>3, <4>7, <4>8 DEF OnlyAt
      <4>10. ASSUME Kept(a, q) PROVE At(b, q) # Null
        <5>1. At(new, q) # Null
          BY <4>2, <4>6, <4>10 DEF Kept
        <5>2. At(b, q) = At(new, q)
          BY <4>3, <4>7, <4>8 DEF OnlyAt
        <5> QED BY <5>1, <5>2
      <4>11. ASSUME NEW p \in Under(u), Found(u, p), Kept(a, p) PROVE At(b, p) # Null
        <5>1. p \in Places /\ p # q
          BY <4>3 DEF Under
        <5>2. At(new, p) = At(a, p) /\ new.Values = a.Values
          BY <4>2, <5>1 DEF OnlyAt
        <5>3. Kept(new, p)
          BY <4>11, <5>2 DEF Kept
        <5>4. CASE C = u
          BY <4>1, <4>2, <4>4, <4>11, <5>3, <5>4
        <5>5. CASE ~ IsExpr(C)
          <6>1. b = new
            BY <1>2, <4>1, <4>2, <4>4, <5>5
          <6> QED BY <5>3, <6>1 DEF Kept
        <5> QED BY <4>5, <5>4, <5>5
      <4>12. ASSUME NEW p \in Under(u) PROVE p[1] # x
        BY <1>3, <2>2, NotInParts DEF Under, u
      <4> QED BY <4>3, <4>9, <4>10, <4>11, <4>12 DEF b, u
    <3> QED BY <3>1, <3>2
  <2>5. ASSUME NEW p \in Under(x), Found(x, p)
        PROVE  /\ \A k \in 1 .. n : p \in Own(x, k) => (p[1] # x => Found(Part1(x, k), p))
               /\ \A j, k \in 1 .. n : p \in Own(x, j) /\ p \in Own(x, k) => j = k
    <3>1. x \in visited[x] /\ \A k \in 1 .. n : visited[Part1(x, k)] \subseteq visited[x]
      BY <1>3, <2>2, Visits
    <3>2. ASSUME NEW j \in 1 .. n, NEW k \in 1 .. n, p \in Own(x, j), p \in Own(x, k) PROVE j = k
      <4>1. CASE p[1] = x
        <5>1. ASSUME NEW i \in 1 .. n, p \in Own(x, i) PROVE p[2] = i
          <6>1. p \notin Under(Part1(x, i))
            BY <1>3, <2>2, <4>1, NotInParts DEF Under
          <6> QED BY <5>1, <6>1 DEF Own
        <5> QED BY <3>2, <5>1
      <4>2. CASE p[1] # x
        <5>1. ASSUME NEW i \in 1 .. n, p \in Own(x, i) PROVE p[1] \in visited[Part1(x, i)]
          BY <4>2, <5>1 DEF Own, Under
        <5>2. ~ Shared(x, p[1])
          BY <2>5, <3>1
        <5> HIDE DEF n
        <5>3. p[1] \in visited[Part1(x, j)] /\ p[1] \in visited[Part1(x, k)]
          BY <3>2, <5>1
        <5> QED BY <2>2, <5>2, <5>3 DEF Shared, Part1
      <4> QED BY <4>1, <4>2
    <3> QED BY <2>5, <3>1, <3>2
  <2>6. ASSUME NEW acc \in Fixing
        PROVE  /\ OnlyAt(Under(x), acc, f[x][acc])
               /\ \A p \in Under(x) : Found(x, p) /\ Kept(acc, p) => At(f[x][acc], p) # Null
    <3>1. f[x][acc] = InTurn(fs, acc)
      BY <1>1, <1>3, <2>6
    <3>2. \A k \in 1 .. n : E[k] = Own(x, k) /\ Own(x, k) \subseteq Under(x)
      BY <1>3, <2>2, PlacesUnder
    <3>3. Under(x) \subseteq Places
      BY DEF Under
    <3> DEFINE r == InTurn(fs, acc)
    <3> HIDE DEF fs, E, n, Found
    <3>4. \A k \in 1 .. n : \A a \in Fixing : OnlyAt(E[k], a, fs[k][a])
      BY <2>4, <3>2
    <3>5. /\ r \in Fixing /\ r.Values = acc.Values
          /\ \A p \in Places : (\A k \in 1 .. n : p \notin E[k]) => At(r, p) = At(acc, p)
          /\ \A p \in Places :
               /\ \A k \in 1 .. n : p \in E[k] =>
                    \A a \in Fixing : Kept(a, p) => At(fs[k][a], p) # Null
               /\ \A j, k \in 1 .. n : p \in E[j] /\ p \in E[k] => j = k
               /\ Kept(acc, p)
               => At(r, p) # Null
      BY <2>2, <2>3, <3>4, GivenBackInTurn
    <3> HIDE DEF r
    <3>6. OnlyAt(Under(x), acc, r)
      BY <3>2, <3>5 DEF OnlyAt
    <3>7. ASSUME NEW p \in Under(x), Found(x, p), Kept(acc, p) PROVE At(r, p) # Null
      <4>1. \A k \in 1 .. n : p \in E[k] => \A a \in Fixing : Kept(a, p) => At(fs[k][a], p) # Null
        BY <2>4, <2>5, <3>2, <3>7
      <4>2. \A j, k \in 1 .. n : p \in E[j] /\ p \in E[k] => j = k
        BY <2>5, <3>2, <3>7
      <4> QED BY <3>3, <3>5, <3>7, <4>1, <4>2
    <3> QED BY <3>1, <3>6, <3>7 DEF r
  <2> QED BY <2>6
<1>4. ASSUME NEW x \in Operand, Parts[x] \subseteq G PROVE x \in G
  <2>1. CASE IsExpr(x)
    BY <1>3, <1>4, <2>1
  <2>2. CASE ~ IsExpr(x)
    BY <1>2, <2>2 DEF OnlyAt
  <2> QED BY <2>1, <2>2
<1>5. Operand \subseteq G
  <2> HIDE DEF G
  <2> QED BY <1>4, PartsDescend, Descent
<1> QED BY <1>5 DEF f

-----------------------------------------------------------------------------
\* An instruction.

Start(o) == [operands |-> o, Values |-> [x \in Operand |-> Null], crashed |-> FALSE]
Fixed(I, o) == InTurn([i \in DOMAIN I |-> fixAliasesOperands[I[i]]], Start(o))
Done(I, o) == InTurn([i \in DOMAIN I |-> restoreAliasesOperands[I[i]]], Fixed(I, o))

LEMMA Starts ==
  ASSUME program \in Programs, NEW o \in Ops
  PROVE  Start(o) \in Fixing /\ Start(o).operands = o
<1> DEFINE V == [x \in Operand |-> Null]
<1>1. V \in Vals
  <2>1. V \in [Operand -> Operand \union {Null}] /\ \A x \in Operand : V[x] = Null
    OBVIOUS
  <2> HIDE DEF V
  <2> QED BY <2>1 DEF Vals, Alike
<1> HIDE DEF V
<1>2. [operands |-> o, Values |-> V, crashed |-> FALSE] \in Fixing
  BY <1>1, FixingFields
<1> QED BY <1>2 DEF Start, V

\* An operand of an instruction that is fixed is kept; what it does not come to
\* twice is found when it is restored.
LEMMA InstructionKeeps ==
  ASSUME program \in Programs, NEW I \in program.instructions, NEW o \in Ops
  PROVE  LET a == Start(o)
             b == Fixed(I, o)
             c == Done(I, o)
         IN  /\ b \in Fixing /\ c \in Fixing
             /\ ~ b.crashed => \A i \in DOMAIN I : \A p \in Under(I[i]) : Kept(b, p)
             /\ ~ b.crashed => \A p \in Places : ~ Twice(p[1]) /\ At(a, p) # Null => At(c, p) # Null
<1> DEFINE n == Len(I)
           fs == [i \in DOMAIN I |-> fixAliasesOperands[I[i]]]
           gs == [i \in DOMAIN I |-> restoreAliasesOperands[I[i]]]
           E == [i \in 1 .. n |-> Under(I[i])]
           a == Start(o)
           b == Fixed(I, o)
           c == Done(I, o)
<1>1. n \in Nat /\ DOMAIN I = 1 .. n /\ \A i \in 1 .. n : I[i] \in Operand
  BY ConstantFacts
<1>2. fs \in [1 .. n -> Hands] /\ \A i \in 1 .. n : fs[i] = fixAliasesOperands[I[i]]
  <2> HIDE DEF n
  <2> QED BY <1>1, FixEquation
<1>3. gs \in [1 .. n -> Hands] /\ \A i \in 1 .. n : gs[i] = restoreAliasesOperands[I[i]]
  <2> HIDE DEF n
  <2> QED BY <1>1, RestoreEquation
<1>4. E \in [1 .. n -> SUBSET Places] /\ \A i \in 1 .. n : E[i] = Under(I[i]) /\ Under(I[i]) \subseteq Places
  BY <1>1 DEF Under
<1>5. a \in Fixing
  BY Starts
<1>6. b = InTurn(fs, a) /\ c = InTurn(gs, b)
  BY DEF Fixed, Done
<1> HIDE DEF n, fs, gs, E, a, b, c
<1>7. \A k \in 1 .. n : \A d \in Fixing :
        /\ Grows(d, fs[k][d])
        /\ ~ fs[k][d].crashed => \A p \in E[k] : Kept(fs[k][d], p)
  <2> TAKE k \in 1 .. n
  <2>1. I[k] \in Operand /\ fs[k] = fixAliasesOperands[I[k]] /\ E[k] = Under(I[k])
    BY <1>1, <1>2, <1>4
  <2> QED BY <2>1, FixKeeps
<1>8. /\ b \in Fixing /\ Grows(a, b)
      /\ ~ b.crashed => \A k \in 1 .. n : \A p \in E[k] : Kept(b, p)
  BY <1>1, <1>2, <1>4, <1>5, <1>6, <1>7, KeptInTurn
<1>9. \A k \in 1 .. n : \A d \in Fixing :
        /\ OnlyAt(E[k], d, gs[k][d])
        /\ \A p \in E[k] :
             (\A V \in visited[I[k]] : ~ Shared(V, p[1])) /\ Kept(d, p) => At(gs[k][d], p) # Null
  <2> TAKE k \in 1 .. n
  <2>1. I[k] \in Operand /\ gs[k] = restoreAliasesOperands[I[k]] /\ E[k] = Under(I[k])
    BY <1>1, <1>3, <1>4
  <2> QED BY <2>1, RestoreKeeps
<1>10. /\ c \in Fixing
       /\ \A p \in Places : (\A k \in 1 .. n : p \notin E[k]) => At(c, p) = At(b, p)
       /\ \A p \in Places :
            /\ \A k \in 1 .. n : p \in E[k] =>
                 \A d \in Fixing : Kept(d, p) => At(gs[k][d], p) # Null
            /\ \A j, k \in 1 .. n : p \in E[j] /\ p \in E[k] => j = k
            /\ Kept(b, p)
            => At(c, p) # Null
  <2>1. \A k \in 1 .. n : \A d \in Fixing : OnlyAt(E[k], d, gs[k][d])
    BY <1>9
  <2> DEFINE r == InTurn(gs, b)
  <2>2. /\ r \in Fixing /\ r.Values = b.Values
        /\ \A p \in Places : (\A k \in 1 .. n : p \notin E[k]) => At(r, p) = At(b, p)
        /\ \A p \in Places :
             /\ \A k \in 1 .. n : p \in E[k] =>
                  \A d \in Fixing : Kept(d, p) => At(gs[k][d], p) # Null
             /\ \A j, k \in 1 .. n : p \in E[j] /\ p \in E[k] => j = k
             /\ Kept(b, p)
             => At(r, p) # Null
    <3>1. n \in Nat /\ gs \in [1 .. n -> Hands] /\ E \in [1 .. n -> SUBSET Places] /\ b \in Fixing
      BY <1>1, <1>3, <1>4, <1>8
    <3> QED BY <2>1, <3>1, GivenBackInTurn
  <2> HIDE DEF r
  <2> QED BY <1>6, <2>2 DEF r
<1>11. ASSUME ~ b.crashed, NEW p \in Places, ~ Twice(p[1]), At(a, p) # Null PROVE At(c, p) # Null
  <2>1. CASE \A k \in 1 .. n : p \notin E[k]
    BY <1>8, <1>10, <1>11, <2>1 DEF Grows
  <2>2. CASE \E k \in 1 .. n : p \in E[k]
    <3>1. \A k \in 1 .. n : p \in E[k] => p[1] \in visited[I[k]] /\ \A V \in visited[I[k]] : ~ Shared(V, p[1])
      BY <1>1, <1>4, <1>11 DEF Under, Twice
    <3>2. \A j, k \in 1 .. n : p \in E[j] /\ p \in E[k] => j = k
      BY <1>1, <1>11, <3>1 DEF Twice
    <3>3. Kept(b, p)
      BY <1>8, <1>11, <2>2
    <3> QED BY <1>9, <1>10, <3>1, <3>2, <3>3
  <2> QED BY <2>1, <2>2
<1>12. ~ b.crashed => \A i \in DOMAIN I : \A p \in Under(I[i]) : Kept(b, p)
  BY <1>1, <1>4, <1>8
<1> QED BY <1>8, <1>10, <1>11, <1>12 DEF a, b, c

\* Where all operands are kept, an expression leads to a global.
LEMMA Evaluates ==
  ASSUME program \in Programs, NEW acc \in Fixing, NEW x \in Operand, ~ IsAlias(x),
         \A p \in Under(x) : Kept(acc, p)
  PROVE  ~ IsExpr(getConstantValue(x, acc))
<1> DEFINE D == Operand \union {Null}
           rhs(y, h) == IF y = Null THEN Null
                        ELSE IF IsExpr(y) THEN h[acc.operands[y][1]] ELSE resolveAliasesOperand[y]
           next == [y \in D |-> IF IsExpr(y) THEN {acc.operands[y][1]} ELSE {}]
           step == [p \in D \X [D -> D] |-> rhs(p[1], p[2])]
<1>1. ASSUME NEW y, IsExpr(y)
      PROVE  /\ y \in Operand /\ y # Null /\ 1 \in DOMAIN program.exprs[y] /\ acc.operands[y][1] \in D
             /\ acc.operands[y][1] # Null =>
                  /\ acc.operands[y][1] \in Parts[y]
                  /\ resolveAliasesOperand[acc.operands[y][1]] = Part1(y, 1)
  <2>1. y \in Operand /\ y # Null /\ 1 \in DOMAIN program.exprs[y]
    BY <1>1, ConstantFacts
  <2> QED BY <1>1, <2>1, Taken
<1>2. Descends(next, D)
  <2>1. next \in [D -> SUBSET D]
    BY <1>1
  <2>2. ASSUME NEW T \in SUBSET D, T # {} PROVE \E t \in T : next[t] \cap T = {}
    <3>1. CASE \E t \in T : ~ IsExpr(t)
      BY <3>1
    <3>2. CASE \A t \in T : IsExpr(t)
      <4>1. T \in SUBSET Operand /\ Null \notin T
        BY <1>1, <3>2
      <4>2. PICK t \in T : Parts[t] \cap T = {}
        BY <2>2, <4>1, PartsDescend DEF Descends
      <4>3. next[t] = {acc.operands[t][1]} /\ (acc.operands[t][1] = Null \/ acc.operands[t][1] \in Parts[t])
        BY <1>1, <3>2, <4>1, <4>2
      <4> HIDE DEF next
      <4> QED BY <4>1, <4>2, <4>3
    <3> QED BY <3>1, <3>2
  <2> HIDE DEF next, D
  <2> QED BY <2>1, <2>2 DEF Descends
<1>3. Follows(step, next, D, D)
  <2>1. ASSUME NEW y \in D, NEW h \in [D -> D] PROVE step[<<y, h>>] = rhs(y, h) /\ rhs(y, h) \in D
    <3>1. rhs(y, h) \in D
      <4>1. IsExpr(y) => h[acc.operands[y][1]] \in D
        BY <1>1
      <4>2. y # Null => resolveAliasesOperand[y] \in Operand
        BY Resolves
      <4> QED BY <4>1, <4>2
    <3> HIDE DEF rhs, D
    <3> QED BY <3>1
  <2>2. step \in [D \X [D -> D] -> D]
    <3>1. \A p \in D \X [D -> D] : rhs(p[1], p[2]) \in D
      <4> HIDE DEF rhs, D, step
      <4> QED BY <2>1
    <3> HIDE DEF rhs, D
    <3> QED BY <3>1
  <2>3. ASSUME NEW y \in D, NEW h \in [D -> D], NEW g \in [D -> D], \A u \in next[y] : h[u] = g[u]
        PROVE  step[<<y, h>>] = step[<<y, g>>]
    <3>1. rhs(y, h) = rhs(y, g)
      BY <2>3
    <3> HIDE DEF rhs, step, D
    <3> QED BY <2>1, <3>1
  <2> HIDE DEF step, next
  <2> QED BY <2>2, <2>3 DEF Follows
<1>4. \E h : h = [y \in Operand \union {Null} |->
                    IF y = Null THEN Null
                    ELSE IF IsExpr(y) THEN h[acc.operands[y][1]] ELSE resolveAliasesOperand[y]]
  <2>1. Solvable(step, D, D)
    <3>1. D # {}
      OBVIOUS
    <3> HIDE DEF step, next, D
    <3> QED BY <1>2, <1>3, <3>1, Recursion
  <2>2. PICK h \in [D -> D] : \A y \in D : h[y] = step[<<y, h>>]
    <3> HIDE DEF step, D
    <3> QED BY <2>1 DEF Solvable
  <2>3. \A y \in D : h[y] = rhs(y, h)
    <3>1. \A y \in D : step[<<y, h>>] = rhs(y, h)
      <4> HIDE DEF rhs, D
      <4> QED OBVIOUS
    <3> QED BY <2>2, <3>1
  <2>4. h = [y \in D |-> rhs(y, h)]
    <3> HIDE DEF rhs, D
    <3> QED BY <2>2, <2>3
  <2> QED BY <2>4
<1> DEFINE base == CHOOSE h : h = [y \in Operand \union {Null} |->
                    IF y = Null THEN Null
                    ELSE IF IsExpr(y) THEN h[acc.operands[y][1]] ELSE resolveAliasesOperand[y]]
<1>5. base = [y \in Operand \union {Null} |->
                    IF y = Null THEN Null
                    ELSE IF IsExpr(y) THEN base[acc.operands[y][1]] ELSE resolveAliasesOperand[y]]
  BY <1>4
<1>6. getConstantValue(x, acc) = base[x]
  BY DEF getConstantValue
<1> HIDE DEF base
<1>7. \A y \in D : base[y] = rhs(y, base)
  BY <1>5
<1> DEFINE Good(y) == y # Null /\ ~ IsAlias(y) /\ (\A p \in Under(y) : Kept(acc, p)) => ~ IsExpr(base[y])
           G == {y \in D : Good(y)}
<1>8. ASSUME NEW y \in D, next[y] \subseteq G PROVE y \in G
  <2>1. SUFFICES ASSUME y # Null, ~ IsAlias(y), \A p \in Under(y) : Kept(acc, p) PROVE ~ IsExpr(base[y])
    OBVIOUS
  <2>2. CASE IsExpr(y)
    <3> DEFINE z == acc.operands[y][1]
    <3>1. z \in G /\ base[y] = base[z]
      BY <1>1, <1>7, <1>8, <2>1, <2>2
    <3>2. Kept(acc, <<y, 1>>)
      <4>1. <<y, 1>> \in Places /\ y \in visited[y]
        BY <1>1, <2>2, PlacesUnder, Visits
      <4>2. <<y, 1>> \in Under(y)
        BY <4>1 DEF Under
      <4> QED BY <2>1, <4>2
    <3>3. z # Null /\ ~ IsAlias(z)
      BY <3>2 DEF Kept, At
    <3>4. z = Part1(y, 1)
      BY <1>1, <2>2, <3>1, <3>3, Resolves
    <3>5. Under(z) \subseteq Under(y)
      BY <1>1, <2>2, <3>4, Visits DEF Under
    <3> HIDE DEF z
    <3> QED BY <2>1, <3>1, <3>3, <3>5
  <2>3. CASE ~ IsExpr(y)
    BY <1>7, <2>1, <2>3, Resolves
  <2> QED BY <2>2, <2>3
<1>9. D \subseteq G
  <2> HIDE DEF G, next, D
  <2> QED BY <1>2, <1>8, Descent
<1>10. x \in G /\ x # Null
  BY <1>9, ConstantFacts
<1> QED BY <1>6, <1>10

-----------------------------------------------------------------------------
\* The operands of the clone's expressions, from call to call.

\* What stands in a place means the same; only where an instruction comes to an
\* expression twice there may be nothing.
Whole(o) == o \in Ops /\ \A p \in Places : ~ Twice(p[1]) => o[p[1]][p[2]] # Null

Meaning ==
  /\ IF created THEN Whole(operands) ELSE operands = << >>
  /\ status = "unreachable" => \E I \in program.instructions : OverAlias(I)

\* All of it is about the program, which stays the same.
LEMMA SameProgram ==
  ASSUME program' = program
  PROVE  /\ \A o : Whole(o)' <=> Whole(o)
         /\ \A I : OverAlias(I)' <=> OverAlias(I)
<1>1. Operand' = Operand /\ \A x : (IsAlias(x)' <=> IsAlias(x)) /\ (IsExpr(x)' <=> IsExpr(x))
  BY DEF Operand, OperandOf, IsAlias, IsExpr
<1>2. resolveAliasesOperand' = resolveAliasesOperand
  BY DEF resolveAliasesOperand, IsAlias, Operand, OperandOf
<1>3. visited' = visited
  BY <1>2 DEF visited, IsExpr, Operand, OperandOf
<1>4. \A e : Twice(e)' <=> Twice(e)
  BY <1>2, <1>3 DEF Twice, Shared
<1>5. Ops' = Ops
  BY <1>1, <1>2 DEF Ops, Alike
<1>6. Places' = Places
  BY <1>1 DEF Places, IsPlace
<1> QED BY <1>1, <1>2, <1>4, <1>5, <1>6 DEF Whole, OverAlias

LEMMA MeaningKept ==
  ASSUME Meaning, UNCHANGED <<program, created, operands>>,
         status' = "unreachable" => status = "unreachable"
  PROVE  Meaning'
BY SameProgram DEF Meaning

\* An interpreter starts with the operands of the program.
LEMMA WholeAtFirst ==
  ASSUME program \in Programs
  PROVE  Whole(program.exprs)
<1> DEFINE o == program.exprs
           D == DOMAIN program.exprs
<1>1. ASSUME NEW e \in D
      PROVE  /\ o[e] \in Seq(Operand \union {Null})
             /\ \A i \in DOMAIN o[e] : o[e][i] \in Alike(o[e][i]) /\ o[e][i] # Null
  <2>1. o[e] \in Seq(Operand) /\ Null \notin Operand
    BY ConstantFacts DEF IsExpr
  <2>2. \A i \in DOMAIN o[e] : o[e][i] \in Operand
    BY <2>1
  <2> QED BY <2>1, <2>2 DEF Alike
<1>2. o = [e \in D |-> o[e]]
  <2>1. program.exprs \in [DOMAIN program.exprs -> Seq(OperandOf(program)) \ {<< >>}]
    BY ProgramsAssumption
  <2> QED BY <2>1
<1>3. o \in Ops
  <2> HIDE DEF o
  <2>1. o \in [D -> Seq(Operand \union {Null})]
    BY <1>1, <1>2
  <2> QED BY <1>1, <2>1 DEF Ops, o
<1>4. ASSUME NEW p \in Places PROVE o[p[1]][p[2]] # Null
  <2>1. p[1] \in D /\ p[2] \in DOMAIN o[p[1]]
    BY PlaceOf DEF IsExpr
  <2> QED BY <1>1, <2>1
<1> QED BY <1>3, <1>4 DEF Whole

\* An instruction leaves the operands whole, and what it is about is a global,
\* if it is not about an alias that stands for an expression.
LEMMA RunKeepsMeaning ==
  ASSUME program \in Programs, Meaning, NEW I \in program.instructions, runInstruction(I)
  PROVE  Meaning'
<1> DEFINE a == Start(operands)
           b == Fixed(I, operands)
           c == Done(I, operands)
           x == resolveAliasesOperand[I[1]]
           to == getConstantValue(x, b)
<1>1. /\ status = "running" /\ created /\ UNCHANGED <<program, created>>
      /\ \/ status' = "aborted" /\ UNCHANGED operands
         \/ ~ b.crashed /\ IsExpr(to) /\ status' = "unreachable" /\ UNCHANGED operands
         \/ ~ b.crashed /\ status' \in {"aborted", status} /\ operands' = c.operands
  BY DEF runInstruction, Call, parseVars, Start, Fixed, Done
<1>2. operands \in Ops /\ \A p \in Places : ~ Twice(p[1]) => operands[p[1]][p[2]] # Null
  BY <1>1 DEF Meaning, Whole
<1>3. /\ b \in Fixing /\ c \in Fixing
      /\ ~ b.crashed => \A i \in DOMAIN I : \A p \in Under(I[i]) : Kept(b, p)
      /\ ~ b.crashed => \A p \in Places : ~ Twice(p[1]) /\ At(a, p) # Null => At(c, p) # Null
  BY <1>2, InstructionKeeps
<1>4. I[1] \in Operand /\ 1 \in DOMAIN I /\ x \in Operand /\ ~ IsAlias(x)
  <2>1. I \in Seq(Operand) /\ I # << >>
    BY ConstantFacts
  <2>2. I[1] \in Operand /\ 1 \in DOMAIN I
    BY <2>1
  <2> QED BY <2>2, Resolves
<1> HIDE DEF a, b, c, to
<1>5. CASE status' = "aborted" /\ UNCHANGED operands
  BY <1>1, <1>5, MeaningKept
<1>6. CASE ~ b.crashed /\ IsExpr(to) /\ status' = "unreachable" /\ UNCHANGED operands
  <2>1. OverAlias(I)
    <3>1. SUFFICES ASSUME ~ OverAlias(I) PROVE FALSE
      OBVIOUS
    <3>2. \A p \in Under(x) : Kept(b, p)
      <4>1. CASE IsAlias(I[1])
        <5>1. visited[x] = {}
          BY <1>4, <3>1, <4>1, Visits DEF OverAlias
        <5> QED BY <5>1 DEF Under
      <4>2. CASE ~ IsAlias(I[1])
        <5>1. x = I[1]
          BY <1>4, <4>2, Resolves
        <5> QED BY <1>3, <1>4, <1>6, <5>1
      <4> QED BY <4>1, <4>2
    <3>3. ~ IsExpr(to)
      <4> HIDE DEF x
      <4> QED BY <1>3, <1>4, <3>2, Evaluates DEF to
    <3> QED BY <1>6, <3>3
  <2> QED BY <1>1, <1>6, <2>1, SameProgram DEF Meaning
<1>7. CASE ~ b.crashed /\ status' \in {"aborted", status} /\ operands' = c.operands
  <2>1. c.operands \in Ops
    BY <1>3, FixingFields
  <2>2. \A p \in Places : At(a, p) = operands[p[1]][p[2]] /\ At(c, p) = c.operands[p[1]][p[2]]
    BY DEF At, a, Start
  <2>3. Whole(c.operands)
    BY <1>2, <1>3, <1>7, <2>1, <2>2 DEF Whole
  <2>4. status' # "unreachable"
    BY <1>1, <1>7
  <2> QED BY <1>1, <1>7, <2>3, <2>4, SameProgram DEF Meaning
<1> QED BY <1>1, <1>5, <1>6, <1>7

LEMMA MeaningSteps == program \in Programs /\ Meaning /\ [Next]_vars => Meaning'
<1> SUFFICES ASSUME program \in Programs, Meaning, [Next]_vars PROVE Meaning'
  OBVIOUS
<1>1. CASE \E files \in program.parses : parseIRFiles(files)
  BY <1>1, MeaningKept DEF parseIRFiles, cloneVars
<1>2. CASE load
  BY <1>2, MeaningKept DEF load, cloneVars
<1>3. CASE processModule
  BY <1>3, MeaningKept DEF processModule, cloneVars
<1>4. CASE createInterpreter
  <2>1. program' = program
    BY <1>4 DEF createInterpreter, parseVars
  <2>2. CASE status' = "exited" /\ UNCHANGED <<created, operands>>
    BY <2>1, <2>2, MeaningKept
  <2>3. CASE created' = TRUE /\ operands' = program.exprs /\ UNCHANGED status
    BY <2>1, <2>3, WholeAtFirst, SameProgram DEF Meaning
  <2> QED BY <1>4, <2>2, <2>3 DEF createInterpreter
<1>5. CASE resetExtraAllocations
  BY <1>5, MeaningKept DEF resetExtraAllocations, parseVars
<1>6. CASE \E g \in program.names, constant \in program.constants : setInitializer(g, constant)
  BY <1>6, MeaningKept DEF setInitializer, parseVars, cloneVars
<1>7. CASE \E g \in program.names, n \in 1 .. 2 : irx_set_global(g, n)
  BY <1>7, MeaningKept DEF irx_set_global, parseVars
<1>8. CASE \E I \in program.instructions : runInstruction(I)
  BY <1>8, RunKeepsMeaning
<1>9. CASE Access(program.structs, created) /\ UNCHANGED <<linked, known, early, sessionVars>>
  <2>1. status' = "unreachable" => status = "unreachable"
    <3>1. \/ \E name : \/ structAlloc(name) \/ irx_struct_get_size(name)
                       \/ \E path : getStructFieldInfo2(name, path)
          \/ \E path : get_struct_primitive(path) \/ \E data : set_struct_primitive(path, data)
      BY <1>9 DEF Access
    <3>2. \A name : structAlloc(name) \/ irx_struct_get_size(name) => status' = status
      BY DEF structAlloc, irx_struct_get_size
    <3>3. \A name, path : getStructFieldInfo2(name, path) => status' \in {"aborted", status}
      BY DEF getStructFieldInfo2
    <3>4. \A path : get_struct_primitive(path) => status' \in {"aborted", status}
      BY DEF get_struct_primitive, NoAccess, AccessAt
    <3>5. \A path, data : set_struct_primitive(path, data) => status' \in {"aborted", status}
      BY DEF set_struct_primitive, NoAccess, AccessAt
    <3> QED BY <3>1, <3>2, <3>3, <3>4, <3>5
  <2> QED BY <1>9, <2>1, MeaningKept DEF sessionVars
<1>10. CASE UNCHANGED vars
  BY <1>10, MeaningKept DEF vars, sessionVars
<1> QED BY <1>1, <1>2, <1>3, <1>4, <1>5, <1>6, <1>7, <1>8, <1>9, <1>10 DEF Next, Leave

-----------------------------------------------------------------------------
\* Accesses to fields.

LEMMA StructFacts ==
  \A t \in Structs : /\ t \in Node /\ t # NoType /\ Tag(t) = "struct"
                     /\ fieldsIn[t] = fieldsOf[t] /\ Size(t) \in Nat
<1> SUFFICES ASSUME NEW t \in Structs
             PROVE  /\ t \in Node /\ t # NoType /\ Tag(t) = "struct"
                    /\ fieldsIn[t] = fieldsOf[t] /\ Size(t) \in Nat
  OBVIOUS
<1>1. t \in Node /\ t # NoType /\ Tag(t) = "struct" /\ t \in OptNode
  BY NodeFacts DEF Structs, OptNode
<1>2. fieldsIn[t] = fieldsOf[t]
  <2>1. DOMAIN fieldsOf = OptNode
    BY FieldsEquation
  <2> QED BY <1>1, <2>1 DEF fieldsIn
<1>3. Size(t) \in Nat
  <2>1. lower[t] = t
    BY <1>1, LowerOf
  <2> QED BY <1>1, <2>1, SizeAssumption DEF SizeAssumption, Size
<1> QED BY <1>1, <1>2, <1>3

\* A struct of a name that some struct has.
LEMMA StructMeant ==
  ASSUME NEW name, Meant(name) # {}, NEW t \in Node, Name(t) = name, Tag(t) = "struct"
  PROVE  t \in Meant(name)
<1>1. PICK u \in Structs : Name(u) = name
  BY DEF Meant
<1>2. Name(u) # ""
  BY DEF Structs
<1>3. t \in Structs
  BY <1>1, <1>2 DEF Structs
<1> QED BY <1>3 DEF Meant

\* What the debug info of a name is found to be.
LEMMA KnownMeant ==
  ASSUME Typed, Contained, NEW name, Meant(name) # {}
  PROVE  findKnown(name) \in Meant(name) \union {NoType}
<1>1. PICK n \in Nat : DOMAIN known = 1 .. n
  BY DEF Contained
<1> DEFINE F == [i \in DOMAIN known |-> findStruct(known[i].types, name)]
<1>2. ASSUME NEW i \in 1 .. n PROVE findStruct(known[i].types, name) \in Meant(name) \union {NoType}
  <2>1. known[i] \in Files(program) /\ program \in Programs
    BY <1>1 DEF Typed, Contained
  <2>2. known[i].types \in Seq(Node)
    BY <2>1, FileFacts
  <2> DEFINE types == known[i].types
             hits == {j \in DOMAIN types : Name(types[j]) = name /\ Tag(types[j]) = "struct"}
  <2> HIDE DEF types
  <2>3. findStruct(types, name) = IF hits = {} THEN NoType ELSE types[Min(hits)]
    BY DEF findStruct
  <2>4. \A j \in hits : types[j] \in Meant(name) /\ j \in Nat
    <3>1. types \in Seq(Node)
      BY <2>2 DEF types
    <3>2. \A j \in hits : j \in Nat /\ types[j] \in Node
      BY <3>1
    <3> QED BY <3>2, StructMeant
  <2>5. hits # {} => Min(hits) \in hits
    <3> HIDE DEF hits
    <3>1. hits # {} => \E j \in hits : \A k \in hits : j <= k
      BY <2>4, Least
    <3> QED BY <3>1 DEF Min
  <2> HIDE DEF hits
  <2>6. findStruct(types, name) \in Meant(name) \union {NoType}
    BY <2>3, <2>4, <2>5
  <2> QED BY <2>6 DEF types
<1>3. F \in [1 .. n -> Meant(name) \union {NoType}]
  BY <1>1, <1>2
<1>4. findKnown(name) = First(F)
  BY DEF findKnown
<1> HIDE DEF F
<1> QED BY <1>3, <1>4, FirstIn

\* Both look-ups of a name come to the struct the name means, or to nothing.
LEMMA BothMeant ==
  ASSUME Typed, Contained, Caches, Allocated, object # NoObject, ~ Ambiguous(object.name),
         NEW t \in Meant(object.name)
  PROVE  /\ object.name \in DOMAIN STCache
         /\ getTypeByName(object.name) = STCache[object.name]
         /\ STCache[object.name] \in {t, NoType}
         /\ findStructDebugInfo(object.name) \in {t, NoType}
<1>1. \A u \in Meant(object.name) : u = t
  BY TwoAmbiguous
<1>2. Meant(object.name) # {}
  OBVIOUS
<1>3. object.name \in DOMAIN STCache
  BY DEF Allocated
<1>4. findType(object.name) \in {t, NoType} /\ findKnown(object.name) \in {t, NoType}
  BY <1>1, <1>2, AllMeant, KnownMeant
<1>5. STCache[object.name] \in {t, NoType}
  BY <1>3, <1>4 DEF Caches
<1>6. findStructDebugInfo(object.name) \in {t, NoType}
  BY <1>4 DEF Caches, findStructDebugInfo, Cached
<1> QED BY <1>3, <1>5, <1>6 DEF getTypeByName, Cached

\* What the debug info answers for the path of a field.
Aborts(f) == Element(f) /\ (Composite(f.type) \/ VoidPointer(f.type))

\* The size and the type by which the binding converts a field.
SizeFor(f) == IF Element(f) /\ Tag(f.type) \in {"typedef", "const"} THEN 0 ELSE f.size
TypeFor(f) == DIType2StringType(Converted(f))
SizeOf(f, size) == size = SizeFor(f)

LEMMA Informs ==
  ASSUME NEW t \in Structs, NEW f \in fieldsOf[t], f.exposed, NEW DI \in {t, NoType},
         NEW info, info = FieldInfo(DI, f.path)
  PROVE  \/ info = Unknown
         \/ info.aborts /\ Aborts(f)
         \/ /\ ~ info.aborts /\ info.hits # << >> /\ SizeOf(f, info.size)
            /\ info.basicType = DIType2StringType(Converted(f))
            /\ \E u : GEP2Offset(t, info.hits) = Pos(u, f.offset)
<1> DEFINE gep == GEP(t, f.path)
           hit == Last(gep.hits)
<1>1. CASE DI = NoType
  BY <1>1 DEF FieldInfo
<1>2. CASE DI # NoType
  <2>1. info = InfoOf(gep.hits, hit, gep.crashed)
    BY <1>2 DEF FieldInfo, Info
  <2>2. t \in Node /\ Tag(t) \notin {"typedef", "const"} /\ t \in OptNode
    BY StructFacts DEF OptNode
  <2>3. Answers(gep, t, f)
    BY <2>2, FieldReached
  <2>4. /\ f.type \in Node /\ f.size = Size(f.type) /\ lower[f.type] # NoType
        /\ Element(f) => ElementType(f.type)
    BY <2>2, FieldFacts DEF Element
  <2> HIDE DEF gep, hit
  <2>5. CASE gep.hits = << >>
    BY <2>1, <2>5 DEF InfoOf
  <2>6. CASE gep.hits # << >> /\ gep.crashed
    <3>1. Aborts(f)
      BY <2>3, <2>4, <2>6 DEF Answers, Aborts, Element, VoidPointer
    <3>2. info = [Unknown EXCEPT !.aborts = TRUE]
      BY <2>1, <2>6 DEF InfoOf
    <3>3. info.aborts
      BY <3>2 DEF Unknown
    <3> QED BY <3>1, <3>3
  <2>7. CASE gep.hits # << >> /\ ~ gep.crashed
    <3>1. /\ hit.type = f.type /\ (hit.member <=> ~ Element(f))
          /\ \E u : GEP2Offset(t, gep.hits) = Pos(u, f.offset)
      BY <2>3, <2>7 DEF Answers, Element, hit
    <3>2. CASE NoFieldSize(hit)
      <4>1. Aborts(f)
        BY <3>1, <3>2 DEF NoFieldSize, Aborts
      <4>2. info = [Unknown EXCEPT !.aborts = TRUE]
        BY <2>1, <2>7, <3>2 DEF InfoOf
      <4>3. info.aborts
        BY <4>2 DEF Unknown
      <4> QED BY <4>1, <4>3
    <3>3. CASE ~ NoFieldSize(hit)
      <4>1. /\ ~ info.aborts /\ info.hits = gep.hits /\ info.size = getDIFieldSize(hit)
            /\ info.basicType = DIType2StringType(resolveDerivedTypeBaseType(hit))
        BY <2>1, <2>7, <3>3 DEF InfoOf
      <4>0. info.basicType = DIType2StringType(Converted(f))
        <5>1. resolveDerivedTypeBaseType(hit) = Converted(f)
          BY <3>1 DEF Converted, resolveDerivedTypeBaseType, Hit
        <5> QED BY <4>1, <5>1
      <4>2. CASE hit.member
        BY <2>4, <2>7, <3>1, <4>0, <4>1, <4>2 DEF getDIFieldSize, SizeOf, SizeFor
      <4>3. CASE ~ hit.member
        <5>1. Element(f) /\ ElementType(f.type) /\ ~ Composite(f.type)
          BY <2>4, <3>1, <3>3, <4>3 DEF NoFieldSize
        <5>2. CASE Tag(f.type) \in {"typedef", "const"}
          BY <2>7, <3>1, <4>0, <4>1, <4>3, <5>1, <5>2 DEF SizeOf, SizeFor, getDIFieldSize
        <5>3. CASE Tag(f.type) \in {"basic", "pointer"}
          <6>1. lower[f.type] = f.type
            BY <2>4, <5>3, LowerOf DEF OptNode
          <6>2. f.size = Types[f.type].size
            BY <2>4, <6>1 DEF Size
          <6>3. Tag(f.type) = "pointer" => Types[f.type].size = PtrSize
            BY <2>4, SizeAssumption DEF SizeAssumption
          <6>4. getDIFieldSize(hit) = f.size
            BY <3>1, <4>3, <5>3, <6>2, <6>3 DEF getDIFieldSize
          <6> QED BY <2>7, <3>1, <4>0, <4>1, <5>3, <6>4 DEF SizeOf, SizeFor
        <5> QED BY <2>4, <5>1, <5>2, <5>3 DEF ElementType, Derived
      <4> QED BY <4>2, <4>3
    <3> QED BY <3>2, <3>3
  <2> QED BY <2>5, <2>6, <2>7
<1> QED BY <1>1, <1>2

\* An answer stays right as long as the object and its type in IR do.
LEMMA AnswerKept ==
  ASSUME AccessRight, Allocated, object'.name = object.name, answer' = answer,
         \A name \in DOMAIN STCache : STCache'[name] = STCache[name]
  PROVE  AccessRight'
<1>1. FieldsOf(object'.name) = FieldsOf(object.name)
  OBVIOUS
<1>2. CASE object = NoObject
  <2>1. object.name = ""
    BY <1>2 DEF NoObject
  <2>2. Meant("") = {}
    BY DEF Meant, Structs
  <2>3. FieldsOf("") = {}
    BY <2>2 DEF FieldsOf
  <2>4. Fields' = {}
    BY <2>1, <2>3 DEF Fields
  <2> QED BY <2>4 DEF AccessRight
<1>3. CASE object # NoObject
  <2>1. STCache'[object.name] = STCache[object.name]
    BY <1>3 DEF Allocated
  <2>2. Fields' = Fields /\ (Ambiguous(object.name)' <=> Ambiguous(object.name))
    BY <1>1 DEF Fields, Ambiguous
  <2> QED BY <2>1, <2>2 DEF AccessRight
<1> QED BY <1>2, <1>3

\* Without an answer there is nothing to be right.
LEMMA NothingAnswered == ASSUME answer' = NoAnswer PROVE AccessRight'
BY DEF AccessRight, NoAnswer

\* What AccessRight says of one field.
FieldRight(ans, ST, f) ==
  IF ans.aborted THEN ST = NoType \/ Aborts(f)
  ELSE ans.offset = f.offset /\ SizeOf(f, ans.size)

LEMMA EachField ==
  ASSUME ~ Ambiguous(object'.name)
           => \A f \in FieldsOf(object'.name) :
                f.path = answer'.path /\ f.exposed => FieldRight(answer', STCache'[object'.name], f)
  PROVE  AccessRight'
BY DEF AccessRight, Fields, FieldRight, Aborts, SizeOf, SizeFor

\* A field of the object is one of the struct that the name means.
LEMMA FieldMeant ==
  ASSUME NEW name, NEW f \in FieldsOf(name)
  PROVE  \E t \in Meant(name) : t \in Structs /\ f \in fieldsOf[t]
<1>1. PICK t \in Meant(name) : f \in fieldsIn[t]
  BY DEF FieldsOf
<1>2. t \in Structs
  BY DEF Meant
<1> QED BY <1>1, <1>2, StructFacts

\* The information about a field of the object.
LEMMA InformsObject ==
  ASSUME IInv, object # NoObject, ~ Ambiguous(object.name),
         NEW f \in FieldsOf(object.name), f.exposed, NEW info, info = ObjectInfo(f.path)
  PROVE  /\ object.name \in DOMAIN STCache /\ getTypeByName(object.name) = STCache[object.name]
         /\ \/ info = Unknown
            \/ info.aborts /\ Aborts(f)
            \/ /\ ~ info.aborts /\ info.hits # << >> /\ SizeOf(f, info.size)
               /\ info.basicType = DIType2StringType(Converted(f))
               /\ \/ STCache[object.name] = NoType
                  \/ \E u : GEP2Offset(STCache[object.name], info.hits) = Pos(u, f.offset)
<1>1. PICK t \in Meant(object.name) : t \in Structs /\ f \in fieldsOf[t]
  BY FieldMeant
<1>2. /\ object.name \in DOMAIN STCache /\ getTypeByName(object.name) = STCache[object.name]
      /\ STCache[object.name] \in {t, NoType} /\ findStructDebugInfo(object.name) \in {t, NoType}
  BY BothMeant DEF IInv
<1> DEFINE DI == findStructDebugInfo(object.name)
<1>3. DI \in {t, NoType} /\ info = FieldInfo(DI, f.path)
  BY <1>2 DEF ObjectInfo
<1> HIDE DEF DI
<1>4. \/ info = Unknown
      \/ info.aborts /\ Aborts(f)
      \/ /\ ~ info.aborts /\ info.hits # << >> /\ SizeOf(f, info.size)
         /\ info.basicType = DIType2StringType(Converted(f))
         /\ \E u : GEP2Offset(t, info.hits) = Pos(u, f.offset)
  BY <1>1, <1>3, Informs
<1> QED BY <1>2, <1>4

\* An access that ends, or aborts, before it looks the name up in IR.
LEMMA NoAccessRight ==
  ASSUME IInv, AccessRight, object # NoObject, NEW path, NEW info, info = ObjectInfo(path),
         NoAccess(path, info.aborts)
  PROVE  AccessRight'
<1>1. /\ answer' = IF info.aborts THEN [NoAnswer EXCEPT !.path = path, !.aborted = TRUE] ELSE answer
      /\ UNCHANGED <<STCache, object>>
  BY DEF NoAccess
<1>2. CASE ~ info.aborts
  <2>1. Allocated /\ object'.name = object.name /\ answer' = answer
    BY <1>1, <1>2 DEF IInv
  <2>2. \A name \in DOMAIN STCache : STCache'[name] = STCache[name]
    BY <1>1
  <2> QED BY <2>1, <2>2, AnswerKept
<1>3. CASE info.aborts
  <2>1. answer'.path = path /\ answer'.aborted
    <3>1. answer' = [NoAnswer EXCEPT !.path = path, !.aborted = TRUE]
      BY <1>1, <1>3
    <3> QED BY <3>1 DEF NoAnswer
  <2>2. ASSUME ~ Ambiguous(object.name), NEW f \in FieldsOf(object.name), f.path = path, f.exposed
        PROVE  Aborts(f)
    <3>1. info # Unknown
      BY <1>3 DEF Unknown
    <3>2. info = ObjectInfo(f.path)
      BY <2>2
    <3> QED BY <1>3, <2>2, <3>1, <3>2, InformsObject
  <2>3. ASSUME ~ Ambiguous(object'.name), NEW f \in FieldsOf(object'.name), f.path = answer'.path, f.exposed
        PROVE  FieldRight(answer', STCache'[object'.name], f)
    <3>1. ~ Ambiguous(object.name) /\ f \in FieldsOf(object.name) /\ f.path = path /\ f.exposed
      BY <1>1, <2>1, <2>3
    <3> QED BY <2>1, <2>2, <3>1 DEF FieldRight
  <2> QED BY <2>3, EachField
<1> QED BY <1>2, <1>3

\* An access that does.
LEMMA AccessAtRight ==
  ASSUME IInv, object # NoObject, NEW path, NEW info, info = ObjectInfo(path), info # Unknown,
         ~ info.aborts, AccessAt(path, info.size, ObjectOffset(info.hits)), object'.name = object.name
  PROVE  AccessRight'
<1> DEFINE to == ObjectOffset(info.hits)
           name == object.name
<1>1. /\ answer' = [path |-> path, offset |-> to.offset, size |-> info.size, aborted |-> to.failed]
      /\ STCache' = Remember(STCache, name, findType(name))
  BY DEF AccessAt, LookUpBoth
<1>2. ASSUME ~ Ambiguous(name), NEW f \in FieldsOf(name), f.path = answer'.path, f.exposed
      PROVE  FieldRight(answer', STCache'[name], f)
  <2>1. f.path = path /\ info = ObjectInfo(f.path)
    BY <1>1, <1>2
  <2>2. /\ name \in DOMAIN STCache /\ getTypeByName(name) = STCache[name]
        /\ info.hits # << >> /\ SizeOf(f, info.size)
        /\ \/ STCache[name] = NoType
           \/ \E u : GEP2Offset(STCache[name], info.hits) = Pos(u, f.offset)
    BY <1>2, <2>1, InformsObject
  <2>3. STCache'[name] = STCache[name]
    BY <1>1, <2>2 DEF Remember, Entered, Cached
  <2>4. to = offsetFromPath(STCache[name], info.hits)
    BY <2>2 DEF ObjectOffset
  <2>5. CASE STCache[name] = NoType
    <3>1. to.failed
      BY <2>4, <2>5 DEF offsetFromPath
    <3>2. answer'.aborted
      BY <1>1, <3>1
    <3> QED BY <2>3, <2>5, <3>2 DEF FieldRight
  <2>6. CASE STCache[name] # NoType
    <3>1. PICK u : to = Pos(u, f.offset)
      BY <2>2, <2>4, <2>6 DEF offsetFromPath
    <3>2. ~ to.failed /\ to.offset = f.offset
      BY <3>1 DEF Pos
    <3> HIDE DEF to
    <3>3. ~ answer'.aborted /\ answer'.offset = f.offset /\ answer'.size = info.size
      BY <1>1, <3>2
    <3> QED BY <2>2, <3>3 DEF FieldRight
  <2> QED BY <2>5, <2>6
<1>3. object'.name = name
  OBVIOUS
<1> QED BY <1>2, <1>3, EachField

\* A field that the debug info knows nothing of is neither read nor written.
LEMMA GetRight ==
  ASSUME IInv, AccessRight, NEW path, get_struct_primitive(path)
  PROVE  AccessRight'
<1>1. PICK info : /\ info = ObjectInfo(path)
                  /\ \/ NoAccess(path, info.aborts)
                     \/ /\ ~ info.aborts /\ info.size > 0
                        /\ AccessAt(path, info.size, ObjectOffset(info.hits))
                        /\ UNCHANGED <<object, written>>
  BY DEF get_struct_primitive
<1>2. object # NoObject
  BY DEF get_struct_primitive
<1>3. CASE NoAccess(path, info.aborts)
  BY <1>1, <1>2, <1>3, NoAccessRight
<1>4. CASE ~ NoAccess(path, info.aborts)
  <2>1. info # Unknown
    BY <1>1, <1>4 DEF Unknown
  <2> QED BY <1>1, <1>2, <1>4, <2>1, AccessAtRight
<1> QED BY <1>3, <1>4

LEMMA SetRight ==
  ASSUME IInv, AccessRight, NEW path, NEW data, set_struct_primitive(path, data)
  PROVE  AccessRight'
<1>1. PICK info, new :
        /\ info = ObjectInfo(path) /\ new = toBytes(data, info.basicType, info.size)
        /\ \/ NoAccess(path, info.aborts)
           \/ /\ ~ info.aborts /\ new.kind = "bytes"
              /\ \E to \in {ObjectOffset(info.hits)} :
                   AccessAt(path, info.size, to) /\ Write(path, data, to, new.bytes)
  BY DEF set_struct_primitive
<1>2. object # NoObject
  BY DEF set_struct_primitive
<1>3. CASE NoAccess(path, info.aborts)
  BY <1>1, <1>2, <1>3, NoAccessRight
<1>4. CASE ~ NoAccess(path, info.aborts)
  <2> DEFINE to == ObjectOffset(info.hits)
  <2>1. ~ info.aborts /\ new.kind = "bytes" /\ AccessAt(path, info.size, to) /\ Write(path, data, to, new.bytes)
    BY <1>1, <1>4
  <2>2. info # Unknown
    <3>1. info = Unknown => new = Nothing
      <4>1. info = Unknown => info.basicType = "unknown"
        BY DEF Unknown
      <4>2. Pack("unknown") = 0
        BY DEF Pack, Pack_Native
      <4>3. ASSUME NEW size PROVE toBytes(data, "unknown", size) = Nothing
        BY <4>2 DEF toBytes
      <4> QED BY <1>1, <4>1, <4>3
    <3> QED BY <2>1, <3>1 DEF Nothing
  <2>3. object'.name = object.name
    <3>1. object' = object \/ object' = [object EXCEPT !.bytes = Overwrite(@, to.offset, new.bytes)]
      BY <2>1 DEF Write
    <3>2. DOMAIN object = {"name", "bytes"}
      BY DEF IInv, Allocated
    <3> QED BY <3>1, <3>2
  <2> QED BY <1>1, <1>2, <2>1, <2>2, <2>3, AccessAtRight
<1> QED BY <1>3, <1>4

\* An access of any kind.
LEMMA AccessesRight ==
  ASSUME IInv, AccessRight, NEW names, NEW interpreter, Access(names, interpreter)
  PROVE  AccessRight'
<1>1. \/ \E name : \/ structAlloc(name) \/ irx_struct_get_size(name)
                   \/ \E path : getStructFieldInfo2(name, path)
      \/ \E path : get_struct_primitive(path) \/ \E data : set_struct_primitive(path, data)
  BY DEF Access
<1>2. Allocated
  BY DEF IInv
<1>3. ASSUME NEW name, structAlloc(name) PROVE AccessRight'
  BY <1>3, NothingAnswered DEF structAlloc
<1>4. ASSUME NEW name, irx_struct_get_size(name) PROVE AccessRight'
  <2>1. /\ STCache' = Remember(STCache, name, findType(name))
        /\ answer' = answer /\ object' = object
    BY <1>4 DEF irx_struct_get_size
  <2>2. \A other \in DOMAIN STCache : STCache'[other] = STCache[other]
    BY <2>1 DEF Remember, Entered, Cached
  <2> QED BY <1>2, <2>1, <2>2, AnswerKept
<1>5. ASSUME NEW name, NEW path, getStructFieldInfo2(name, path) PROVE AccessRight'
  <2>1. UNCHANGED <<STCache, object, answer>>
    BY <1>5 DEF getStructFieldInfo2
  <2> QED BY <1>2, <2>1, AnswerKept
<1> QED BY <1>1, <1>3, <1>4, <1>5, GetRight, SetRight

LEMMA RightSteps == IInv /\ AccessRight /\ [Next]_vars => AccessRight'
<1> SUFFICES ASSUME IInv, AccessRight, [Next]_vars PROVE AccessRight'
  OBVIOUS
<1>1. ASSUME UNCHANGED accessVars PROVE AccessRight'
  BY <1>1, AnswerKept DEF IInv, accessVars
<1>2. CASE \E files \in program.parses : parseIRFiles(files)
  BY <1>1, <1>2 DEF parseIRFiles
<1>3. CASE load
  BY <1>1, <1>3 DEF load
<1>4. CASE processModule
  BY <1>1, <1>4 DEF processModule
<1>5. CASE createInterpreter
  <2>1. UNCHANGED STCache
    BY <1>5 DEF createInterpreter
  <2>2. UNCHANGED <<object, answer>> \/ answer' = NoAnswer
    BY <1>5 DEF createInterpreter
  <2> QED BY <2>1, <2>2, AnswerKept, NothingAnswered DEF IInv
<1>6. CASE resetExtraAllocations
  BY <1>6, NothingAnswered DEF resetExtraAllocations
<1>7. CASE \E g \in program.names, constant \in program.constants : setInitializer(g, constant)
  BY <1>1, <1>7 DEF setInitializer
<1>8. CASE \E g \in program.names, n \in 1 .. 2 : irx_set_global(g, n)
  BY <1>1, <1>8 DEF irx_set_global
<1>9. CASE \E I \in program.instructions : runInstruction(I)
  BY <1>1, <1>9 DEF runInstruction
<1>10. CASE Access(program.structs, created) /\ UNCHANGED <<linked, known, early, sessionVars>>
  BY <1>10, AccessesRight
<1>11. CASE UNCHANGED vars
  BY <1>1, <1>11 DEF vars
<1> QED BY <1>2, <1>3, <1>4, <1>5, <1>6, <1>7, <1>8, <1>9, <1>10, <1>11 DEF Next, Leave

-----------------------------------------------------------------------------
\* What is written to the object.

\* What the binding makes of a value.
BytesFor(f, data) == toBytes(data, TypeFor(f), SizeFor(f))

\* The bytes of a field are those, as far as it reaches.
Holds(bytes, f, new) ==
  \A i \in 1 .. Len(new) : i <= f.size => bytes[f.offset + i] = new[i]

\* What the history has of a field was converted and is in its bytes.
FieldStored(f, data, info, bytes) ==
  /\ f.exposed /\ ~ Narrow(f) /\ data \in Data
  /\ info # Unknown /\ ~ info.aborts
  /\ IsBytes(BytesFor(f, data)) /\ Holds(bytes, f, BytesFor(f, data).bytes)

IsSequence(s) == s = [i \in DOMAIN s |-> s[i]]

Stored ==
  /\ IsSequence(object.bytes)
  /\ DOMAIN written # {} =>
       object # NoObject /\ object.name \in DOMAIN DICache /\ STCache[object.name] # NoType
  /\ ~ Ambiguous(object.name) =>
       \A f \in Fields : f.path \in DOMAIN written =>
         FieldStored(f, written[f.path], ObjectInfo(f.path), object.bytes)

\* The entries of a cache stay.
Stays(new, old) == \A name \in DOMAIN old : name \in DOMAIN new /\ new[name] = old[name]

LEMMA EntriesStay == LookedUp => Stays(STCache', STCache) /\ Stays(DICache', DICache)
<1> SUFFICES ASSUME LookedUp PROVE Stays(STCache', STCache) /\ Stays(DICache', DICache)
  OBVIOUS
<1>1. ASSUME NEW new, NEW old, NEW name, NEW found, new = Remember(old, name, found)
      PROVE  Stays(new, old)
  <2>1. Grown(new, old, name, found)
    BY <1>1, Remembers
  <2> QED BY <2>1 DEF Grown, Stays
<1>2. Stays(STCache, STCache) /\ Stays(DICache, DICache)
  BY DEF Stays
<1> QED BY <1>1, <1>2 DEF LookedUp

\* An object that is not written keeps what it stores.
LEMMA SameInfo ==
  ASSUME object.name \in DOMAIN DICache, object'.name = object.name, Stays(DICache', DICache), NEW path
  PROVE  ObjectInfo(path)' = ObjectInfo(path)
<1> DEFINE name == object.name
<1>1. DICache'[name] = DICache[name] /\ name \in DOMAIN DICache'
  BY DEF Stays
<1>2. findStructDebugInfo(name)' = DICache'[name]
  BY <1>1 DEF findStructDebugInfo, Cached
<1>3. findStructDebugInfo(name) = DICache[name]
  BY DEF findStructDebugInfo, Cached
<1> QED BY <1>1, <1>2, <1>3 DEF ObjectInfo

LEMMA StoredKept ==
  ASSUME Allocated, Stored, UNCHANGED <<object, written>>, Stays(STCache', STCache), Stays(DICache', DICache)
  PROVE  Stored'
<1>1. CASE DOMAIN written = {}
  BY <1>1 DEF Stored
<1>2. CASE DOMAIN written # {}
  <2>1. object # NoObject /\ object.name \in DOMAIN DICache /\ STCache[object.name] # NoType
        /\ object.name \in DOMAIN STCache
    BY <1>2 DEF Stored, Allocated
  <2>2. object'.name \in DOMAIN DICache' /\ STCache'[object'.name] # NoType
    BY <2>1 DEF Stays
  <2>3. \A path : ObjectInfo(path)' = ObjectInfo(path)
    BY <2>1, SameInfo
  <2>4. Fields' = Fields /\ (Ambiguous(object.name)' <=> Ambiguous(object.name))
    BY DEF Fields
  <2> QED BY <2>1, <2>2, <2>3, <2>4 DEF Stored
<1> QED BY <1>1, <1>2

\* Nothing is stored in an object that is new.
LEMMA NothingStored ==
  ASSUME IsSequence(object'.bytes), written' = << >>
  PROVE  Stored'
<1>1. DOMAIN written' = {}
  OBVIOUS
<1> QED BY <1>1 DEF Stored

\* Where the fields of the object are.
LEMMA FieldPlace ==
  ASSUME IInv, object # NoObject, ~ Ambiguous(object.name), STCache[object.name] # NoType, NEW f \in Fields
  PROVE  /\ f.offset \in Nat /\ f.size \in Nat
         /\ \A i \in 1 .. f.size : f.offset + i \in DOMAIN object.bytes
         /\ DOMAIN object.bytes = 1 .. ObjectSize /\ ObjectSize \in Nat /\ f.offset + f.size <= ObjectSize
         /\ \E t \in OptNode : f \in fieldsOf[t]
         /\ \A g \in Fields : g.path = f.path => g = f
<1>1. PICK t \in Meant(object.name) : t \in Structs /\ f \in fieldsOf[t]
  BY FieldMeant DEF Fields
<1>2. object.name \in DOMAIN STCache /\ STCache[object.name] = t
  BY BothMeant DEF IInv
<1>3. t \in OptNode /\ Size(t) \in Nat
  BY <1>1, StructFacts DEF OptNode
<1>4. DOMAIN object.bytes = 1 .. ObjectSize /\ ObjectSize = Size(t)
  BY <1>2 DEF IInv, Allocated, ObjectSize
<1>5. f.offset \in Nat /\ f.size \in Nat /\ f.offset + f.size <= Size(t)
  BY <1>1, <1>3, FieldFacts, FieldsFit DEF Inscribed
<1>6. \A i \in 1 .. f.size : f.offset + i \in 1 .. Size(t)
  BY <1>3, <1>5
<1>7. ASSUME NEW g \in Fields, g.path = f.path PROVE g = f
  <2>1. PICK u \in Meant(object.name) : u \in Structs /\ g \in fieldsOf[u]
    BY FieldMeant DEF Fields
  <2>2. u = t
    BY <1>1, <2>1, TwoAmbiguous
  <2> QED BY <1>1, <1>3, <1>7, <2>1, <2>2, FieldsAlone DEF Alone
<1> QED BY <1>1, <1>3, <1>4, <1>5, <1>6, <1>7

\* The field that was written, and those the history keeps.
LEMMA RecordOf ==
  ASSUME NEW f, f.exposed, ~ Narrow(f), ~ Ambiguous(object.name), NEW data, NEW new, new = Record(f, data)
  PROVE  /\ f.path \in DOMAIN new /\ new[f.path] = data
         /\ \A p \in DOMAIN new : p # f.path =>
              /\ p \in DOMAIN written /\ new[p] = written[p]
              /\ \E g \in Fields : g.path = p /\ Disjoint(f, Reach(data, f.size), g)
<1> DEFINE n == Reach(data, f.size)
           kept == {g.path : g \in {h \in Fields : Disjoint(f, n, h)}}
           old == Restrict(written, kept \intersect DOMAIN written)
<1>1. new = Entered(old, f.path, data)
  BY DEF Record, Reach, IsText
<1>2. DOMAIN old = kept \intersect DOMAIN written /\ \A p \in DOMAIN old : old[p] = written[p]
  BY DEF Restrict
<1>3. \A p \in kept : \E g \in Fields : g.path = p /\ Disjoint(f, n, g)
  OBVIOUS
<1> HIDE DEF old, kept, n
<1>4. DOMAIN new = DOMAIN old \union {f.path} /\ new[f.path] = data
      /\ \A p \in DOMAIN old : p # f.path => new[p] = old[p]
  BY <1>1 DEF Entered
<1> QED BY <1>2, <1>3, <1>4 DEF n

\* Bytes that are written over others.
LEMMA Overwritten ==
  ASSUME NEW old, NEW o, NEW new, NEW bytes, bytes = Overwrite(old, o, new)
  PROVE  /\ IsSequence(bytes)
         /\ \A i \in DOMAIN old :
              bytes[i] = IF i > o /\ i <= o + Len(new) THEN new[i - o] ELSE old[i]
BY DEF Overwrite, IsSequence

\* A field's own bytes, and those of another field behind or in front.
LEMMA OwnBytes ==
  ASSUME NEW f, f.offset \in Nat, f.size \in Nat, NEW old,
         \A i \in 1 .. f.size : f.offset + i \in DOMAIN old,
         NEW new \in Seq(Nat), NEW bytes, bytes = Overwrite(old, f.offset, new)
  PROVE  Holds(bytes, f, new)
<1> SUFFICES ASSUME NEW i \in 1 .. Len(new), i <= f.size PROVE bytes[f.offset + i] = new[i]
  BY DEF Holds
<1> DEFINE o == f.offset
           n == f.size
           l == Len(new)
           k == o + i
<1>1. o \in Nat /\ n \in Nat /\ l \in Nat /\ i \in 1 .. n /\ i \in 1 .. l
  OBVIOUS
<1>2. k \in DOMAIN old
  BY <1>1
<1>3. bytes[k] = IF k > o /\ k <= o + l THEN new[k - o] ELSE old[k]
  BY <1>2, Overwritten
<1> HIDE DEF o, n, l
<1>4. k > o /\ k <= o + l /\ k - o = i
  BY <1>1
<1> HIDE DEF k
<1> QED BY <1>3, <1>4 DEF k, o

LEMMA OtherBytes ==
  ASSUME NEW f, f.offset \in Nat, NEW g, g.offset \in Nat, g.size \in Nat,
         NEW old, \A i \in 1 .. g.size : g.offset + i \in DOMAIN old,
         NEW n \in Nat, Disjoint(f, n, g), NEW new \in Seq(Nat), Len(new) <= n,
         NEW bytes, bytes = Overwrite(old, f.offset, new),
         NEW stored \in Seq(Nat), Holds(old, g, stored)
  PROVE  Holds(bytes, g, stored)
<1> SUFFICES ASSUME NEW i \in 1 .. Len(stored), i <= g.size PROVE bytes[g.offset + i] = stored[i]
  BY DEF Holds
<1> DEFINE o == f.offset
           p == g.offset
           m == g.size
           l == Len(new)
           k == p + i
<1>1. o \in Nat /\ p \in Nat /\ m \in Nat /\ l \in Nat /\ l <= n /\ i \in 1 .. m /\ i \in Nat
  OBVIOUS
<1>2. k \in DOMAIN old /\ old[k] = stored[i]
  BY <1>1 DEF Holds
<1>3. bytes[k] = IF k > o /\ k <= o + l THEN new[k - o] ELSE old[k]
  BY <1>2, Overwritten
<1>4. p >= o + n \/ p + m <= o
  BY DEF Disjoint
<1> HIDE DEF o, p, m, l
<1>5. ~ (k > o /\ k <= o + l)
  BY <1>1, <1>4
<1> HIDE DEF k
<1> QED BY <1>2, <1>3, <1>5 DEF k, p

\* What is known of a field that is exposed and in IR.
LEMMA KnownField ==
  ASSUME IInv, object # NoObject, ~ Ambiguous(object.name), STCache[object.name] # NoType,
         NEW f \in Fields, f.exposed, NEW info, info = ObjectInfo(f.path), info # Unknown, ~ info.aborts
  PROVE  /\ info.size = SizeFor(f) /\ info.basicType = TypeFor(f)
         /\ ~ ObjectOffset(info.hits).failed /\ ObjectOffset(info.hits).offset = f.offset
<1>1. f \in FieldsOf(object.name)
  BY DEF Fields
<1>2. /\ getTypeByName(object.name) = STCache[object.name]
      /\ info.hits # << >> /\ SizeOf(f, info.size) /\ info.basicType = DIType2StringType(Converted(f))
      /\ \E u : GEP2Offset(STCache[object.name], info.hits) = Pos(u, f.offset)
  BY <1>1, InformsObject
<1>3. PICK u : ObjectOffset(info.hits) = Pos(u, f.offset)
  BY <1>2 DEF ObjectOffset, offsetFromPath
<1> QED BY <1>2, <1>3 DEF SizeOf, SizeFor, TypeFor, Pos

\* The bytes of a value, and how far they reach.
LEMMA StoredBytes ==
  ASSUME NEW f \in Fields, ~ Narrow(f), f.size \in Nat, NEW t \in OptNode, f \in fieldsOf[t],
         NEW data \in Data, NEW new, new = BytesFor(f, data), IsBytes(new)
  PROVE  /\ new.bytes \in Seq(Nat) /\ Len(new.bytes) <= Reach(data, f.size)
         /\ Reach(data, f.size) \in Nat /\ f.size <= Reach(data, f.size)
<1>1. Datum(data)
  BY DataAssumption DEF DataAssumption, Datum
<1>2. Pack(TypeFor(f)) <= f.size
  BY PackFits DEF TypeFor
<1>3. SizeFor(f) \in Nat /\ SizeFor(f) <= f.size
  BY DEF SizeFor
<1> DEFINE n == f.size
           size == SizeFor(f)
           bt == TypeFor(f)
<1>4. n \in Nat /\ size \in Nat /\ size <= n /\ Pack(bt) <= n /\ new = toBytes(data, bt, size)
  BY <1>2, <1>3 DEF BytesFor
<1> HIDE DEF n, size, bt
<1>5. new.bytes \in Seq(Nat) /\ Len(new.bytes) <= Reach(data, n) /\ Reach(data, n) \in Nat
      /\ n <= Reach(data, n)
  BY <1>1, <1>4, BytesFit
<1> QED BY <1>5 DEF n

\* The field is written.
LEMMA FieldWritten ==
  ASSUME IInv, Stored, object # NoObject, ~ Ambiguous(object.name), STCache[object.name] # NoType,
         NEW f \in Fields, f.exposed, ~ Narrow(f), NEW data \in Data,
         NEW info, info = ObjectInfo(f.path), info # Unknown, ~ info.aborts,
         NEW new, new = BytesFor(f, data), IsBytes(new),
         NEW bytes, bytes = Overwrite(object.bytes, f.offset, new.bytes),
         NEW record, record = Record(f, data),
         NEW g \in Fields, g.path \in DOMAIN record
  PROVE  FieldStored(g, record[g.path], ObjectInfo(g.path), bytes)
<1>1. /\ f.path \in DOMAIN record /\ record[f.path] = data
      /\ \A p \in DOMAIN record : p # f.path =>
           /\ p \in DOMAIN written /\ record[p] = written[p]
           /\ \E h \in Fields : h.path = p /\ Disjoint(f, Reach(data, f.size), h)
  BY RecordOf
<1>2. /\ f.offset \in Nat /\ f.size \in Nat /\ \A i \in 1 .. f.size : f.offset + i \in DOMAIN object.bytes
      /\ \E t \in OptNode : f \in fieldsOf[t]
      /\ \A h \in Fields : h.path = f.path => h = f
  BY FieldPlace
<1>3. /\ new.bytes \in Seq(Nat) /\ Len(new.bytes) <= Reach(data, f.size) /\ Reach(data, f.size) \in Nat
  BY <1>2, StoredBytes
<1>4. CASE g.path = f.path
  <2>1. g = f /\ record[g.path] = data
    BY <1>1, <1>2, <1>4
  <2>2. Holds(bytes, f, new.bytes)
    BY <1>2, <1>3, OwnBytes
  <2> QED BY <2>1, <2>2 DEF FieldStored
<1>5. CASE g.path # f.path
  <2>1. g.path \in DOMAIN written /\ record[g.path] = written[g.path]
    BY <1>1, <1>5
  <2>2. PICK h \in Fields : h.path = g.path /\ Disjoint(f, Reach(data, f.size), h)
    BY <1>1, <1>5
  <2>3. /\ g.offset \in Nat /\ g.size \in Nat /\ \A i \in 1 .. g.size : g.offset + i \in DOMAIN object.bytes
        /\ \E t \in OptNode : g \in fieldsOf[t]
        /\ \A k \in Fields : k.path = g.path => k = g
    BY FieldPlace
  <2>4. Disjoint(f, Reach(data, f.size), g)
    BY <2>2, <2>3
  <2> DEFINE d == written[g.path]
             stored == BytesFor(g, d)
  <2>5. FieldStored(g, d, ObjectInfo(g.path), object.bytes)
    BY <2>1 DEF Stored
  <2>6. d \in Data /\ ~ Narrow(g) /\ IsBytes(stored) /\ Holds(object.bytes, g, stored.bytes)
    BY <2>5 DEF FieldStored
  <2>7. stored.bytes \in Seq(Nat)
    <3> HIDE DEF d
    <3> QED BY <2>3, <2>6, StoredBytes
  <2>8. Holds(bytes, g, stored.bytes)
    <3> DEFINE n == Reach(data, f.size)
               s == stored.bytes
               b == new.bytes
               old == object.bytes
    <3>1. /\ n \in Nat /\ Disjoint(f, n, g) /\ b \in Seq(Nat) /\ Len(b) <= n /\ s \in Seq(Nat)
          /\ Holds(old, g, s) /\ bytes = Overwrite(old, f.offset, b)
          /\ \A i \in 1 .. g.size : g.offset + i \in DOMAIN old
      BY <1>3, <2>3, <2>4, <2>6, <2>7
    <3>2. f.offset \in Nat /\ g.offset \in Nat /\ g.size \in Nat
      BY <1>2, <2>3
    <3> HIDE DEF n, s, b, old
    <3>3. Holds(bytes, g, s)
      BY <3>1, <3>2, OtherBytes
    <3> QED BY <3>3 DEF s
  <2>9. FieldStored(g, d, ObjectInfo(g.path), bytes)
    BY <2>5, <2>8 DEF FieldStored
  <2> QED BY <2>1, <2>9
<1> QED BY <1>4, <1>5

\* A set of a field.
LEMMA SetStored ==
  ASSUME IInv, Stored, NEW path, NEW data \in Data, set_struct_primitive(path, data)
  PROVE  Stored'
<1>0. Allocated /\ object # NoObject
  BY DEF IInv, set_struct_primitive
<1>1. PICK info, new :
        /\ info = ObjectInfo(path) /\ new = toBytes(data, info.basicType, info.size)
        /\ \/ NoAccess(path, info.aborts)
           \/ /\ ~ info.aborts /\ new.kind = "bytes"
              /\ \E to \in {ObjectOffset(info.hits)} :
                   AccessAt(path, info.size, to) /\ Write(path, data, to, new.bytes)
  BY DEF set_struct_primitive
<1>2. CASE NoAccess(path, info.aborts)
  <2>1. UNCHANGED <<object, written>> /\ LookedUp
    BY <1>2 DEF NoAccess, LookedUp
  <2> QED BY <1>0, <2>1, EntriesStay, StoredKept
<1>3. CASE ~ NoAccess(path, info.aborts)
  <2> DEFINE to == ObjectOffset(info.hits)
             name == object.name
  <2>1. ~ info.aborts /\ IsBytes(new) /\ AccessAt(path, info.size, to) /\ Write(path, data, to, new.bytes)
    BY <1>1, <1>3 DEF IsBytes
  <2>2. /\ Stays(STCache', STCache) /\ Stays(DICache', DICache)
        /\ DICache' = Remember(DICache, name, findKnown(name))
    <3>1. LookedUp /\ DICache' = Remember(DICache, name, findKnown(name))
      BY <2>1 DEF AccessAt, LookUpBoth, LookedUp
    <3> QED BY <3>1, EntriesStay
  <2>3. CASE to.failed
    <3>1. UNCHANGED <<object, written>>
      BY <2>1, <2>3 DEF Write
    <3> QED BY <1>0, <2>2, <3>1, StoredKept
  <2>4. CASE ~ to.failed
    <3>1. PICK f \in Fields : f.path = path /\ written' = Record(f, data)
      BY <2>1, <2>4 DEF Write
    <3> DEFINE bytes == Overwrite(object.bytes, to.offset, new.bytes)
    <3>2. object' = [object EXCEPT !.bytes = bytes] /\ DOMAIN object = {"name", "bytes"}
      BY <1>0, <2>1, <2>4 DEF Write, Allocated
    <3>3. object'.bytes = bytes /\ object'.name = name /\ IsSequence(bytes)
      <4>1. IsSequence(bytes)
        BY Overwritten
      <4> HIDE DEF bytes
      <4> QED BY <3>2, <4>1
    <3>4. CASE ~ f.exposed \/ Narrow(f) \/ Ambiguous(name)
      <4>1. written' = << >>
        BY <3>1, <3>4 DEF Record
      <4> QED BY <3>3, <4>1, NothingStored
    <3>5. CASE f.exposed /\ ~ Narrow(f) /\ ~ Ambiguous(name)
      <4>1. STCache[name] # NoType /\ name \in DOMAIN STCache
        <5>1. name \in DOMAIN STCache
          BY <1>0 DEF Allocated
        <5>2. getTypeByName(name) = STCache[name]
          BY <5>1 DEF getTypeByName, Cached
        <5> QED BY <2>4, <5>1, <5>2 DEF ObjectOffset, offsetFromPath
      <4>2. info # Unknown
        <5>1. info = Unknown => new = Nothing
          <6>1. info = Unknown => info.basicType = "unknown"
            BY DEF Unknown
          <6>2. Pack("unknown") = 0
            BY DEF Pack, Pack_Native
          <6>3. ASSUME NEW size PROVE toBytes(data, "unknown", size) = Nothing
            BY <6>2 DEF toBytes
          <6> QED BY <1>1, <6>1, <6>3
        <5> QED BY <2>1, <5>1 DEF Nothing, IsBytes
      <4>3. info = ObjectInfo(f.path)
        BY <1>1, <3>1
      <4>4. info.size = SizeFor(f) /\ info.basicType = TypeFor(f) /\ to.offset = f.offset
        BY <1>0, <2>1, <3>5, <4>1, <4>2, <4>3, KnownField
      <4>5. new = BytesFor(f, data) /\ bytes = Overwrite(object.bytes, f.offset, new.bytes)
        BY <1>1, <4>4 DEF BytesFor
      <4> HIDE DEF bytes
      <4>6. ASSUME NEW g \in Fields, g.path \in DOMAIN written'
            PROVE  FieldStored(g, written'[g.path], ObjectInfo(g.path), bytes)
        <5> DEFINE record == written'
        <5>1. record = Record(f, data) /\ g.path \in DOMAIN record
          BY <3>1, <4>6
        <5> HIDE DEF record
        <5>2. FieldStored(g, record[g.path], ObjectInfo(g.path), bytes)
          BY <1>0, <2>1, <3>5, <4>1, <4>2, <4>3, <4>5, <5>1, FieldWritten
        <5> QED BY <5>2 DEF record
      <4>7. ASSUME NEW p PROVE ObjectInfo(p)' = ObjectInfo(p)
        <5>1. DICache'[name] = findStructDebugInfo(name) /\ name \in DOMAIN DICache'
          BY <2>2 DEF Remember, Entered, findStructDebugInfo, Cached
        <5>2. ASSUME NEW found PROVE Cached(DICache', object'.name, found) = DICache'[name]
          BY <3>3, <5>1 DEF Cached
        <5>3. findStructDebugInfo(object.name)' = findStructDebugInfo(name)
          BY <5>1, <5>2 DEF findStructDebugInfo
        <5> HIDE DEF name
        <5> QED BY <5>3 DEF ObjectInfo, name
      <4>8. /\ object' # NoObject /\ name \in DOMAIN DICache' /\ STCache'[name] # NoType
        <5>1. object' # NoObject
          <6>1. PICK t \in Meant(name) : t \in Structs /\ f \in fieldsOf[t]
            BY FieldMeant DEF Fields
          <6>2. name # ""
            BY <6>1 DEF Meant, Structs
          <6>3. NoObject.name = ""
            BY DEF NoObject
          <6> HIDE DEF name
          <6> QED BY <3>3, <6>2, <6>3
        <5>2. name \in DOMAIN DICache'
          BY <2>2 DEF Remember, Entered
        <5> QED BY <2>2, <4>1, <5>1, <5>2 DEF Stays
      <4>9. Fields' = Fields
        BY <3>3 DEF Fields
      <4> QED BY <3>3, <4>6, <4>7, <4>8, <4>9 DEF Stored
    <3> QED BY <3>4, <3>5
  <2> QED BY <2>3, <2>4
<1> QED BY <1>2, <1>3

\* An access of any kind.
LEMMA AccessStored ==
  ASSUME IInv, Stored, NEW names, NEW interpreter, Access(names, interpreter)
  PROVE  Stored'
<1>1. \/ \E name : \/ structAlloc(name) \/ irx_struct_get_size(name)
                   \/ \E path : getStructFieldInfo2(name, path)
      \/ \E path : get_struct_primitive(path)
      \/ \E path : \E data \in Data : set_struct_primitive(path, data)
  BY DEF Access
<1>2. ASSUME LookedUp, UNCHANGED <<object, written>> PROVE Stored'
  <2>1. Allocated
    BY DEF IInv
  <2> QED BY <1>2, <2>1, EntriesStay, StoredKept
<1>3. ASSUME NEW name, structAlloc(name) PROVE Stored'
  <2>1. PICK ST : object' = [name |-> name, bytes |-> IF ST = NoType THEN << >> ELSE Fill(Stale, Size(ST))]
    BY <1>3 DEF structAlloc
  <2>2. IsSequence(<< >>) /\ IsSequence(Fill(Stale, Size(ST)))
    BY DEF IsSequence, Fill
  <2>3. IsSequence(object'.bytes)
    BY <2>1, <2>2
  <2>4. written' = << >>
    BY <1>3 DEF structAlloc
  <2> QED BY <2>3, <2>4, NothingStored
<1>4. ASSUME NEW name, irx_struct_get_size(name) PROVE Stored'
  BY <1>2, <1>4 DEF irx_struct_get_size, LookedUp
<1>5. ASSUME NEW name, NEW path, getStructFieldInfo2(name, path) PROVE Stored'
  BY <1>2, <1>5 DEF getStructFieldInfo2, LookedUp
<1>6. ASSUME NEW path, get_struct_primitive(path) PROVE Stored'
  <2>1. PICK info : \/ NoAccess(path, info.aborts)
                    \/ /\ AccessAt(path, info.size, ObjectOffset(info.hits))
                       /\ UNCHANGED <<object, written>>
    BY <1>6 DEF get_struct_primitive
  <2>2. CASE NoAccess(path, info.aborts)
    BY <1>2, <2>2 DEF NoAccess, LookedUp
  <2>3. CASE AccessAt(path, info.size, ObjectOffset(info.hits)) /\ UNCHANGED <<object, written>>
    BY <1>2, <2>3 DEF AccessAt, LookUpBoth, LookedUp
  <2> QED BY <2>1, <2>2, <2>3
<1> QED BY <1>1, <1>3, <1>4, <1>5, <1>6, SetStored

LEMMA EmptySequence == IsSequence(<< >>)
BY DEF IsSequence

LEMMA StoredSteps == IInv /\ Stored /\ [Next]_vars => Stored'
<1> SUFFICES ASSUME IInv, Stored, [Next]_vars PROVE Stored'
  OBVIOUS
<1>0. Allocated /\ Stays(STCache, STCache) /\ Stays(DICache, DICache)
  BY DEF IInv, Stays
<1>1. ASSUME UNCHANGED accessVars PROVE Stored'
  <2>1. UNCHANGED <<STCache, DICache, object, written>>
    BY <1>1 DEF accessVars
  <2>2. Stays(STCache', STCache) /\ Stays(DICache', DICache)
    BY <1>0, <2>1
  <2> QED BY <1>0, <2>1, <2>2, StoredKept
<1>a. ASSUME object' = NoObject, written' = << >> PROVE Stored'
  <2>1. object'.bytes = << >>
    BY <1>a DEF NoObject
  <2>2. IsSequence(object'.bytes)
    BY <2>1, EmptySequence
  <2> QED BY <1>a, <2>2, NothingStored
<1>2. CASE \E files \in program.parses : parseIRFiles(files)
  BY <1>1, <1>2 DEF parseIRFiles
<1>3. CASE load
  BY <1>1, <1>3 DEF load
<1>4. CASE processModule
  BY <1>1, <1>4 DEF processModule
<1>5. CASE createInterpreter
  <2>1. UNCHANGED <<STCache, DICache>>
    BY <1>5 DEF createInterpreter
  <2>2. UNCHANGED <<object, written>> \/ (object' = NoObject /\ written' = << >>)
    BY <1>5 DEF createInterpreter
  <2>3. Stays(STCache', STCache) /\ Stays(DICache', DICache)
    BY <1>0, <2>1
  <2> QED BY <1>0, <1>a, <2>2, <2>3, StoredKept
<1>6. CASE resetExtraAllocations
  BY <1>a, <1>6 DEF resetExtraAllocations
<1>7. CASE \E g \in program.names, constant \in program.constants : setInitializer(g, constant)
  BY <1>1, <1>7 DEF setInitializer
<1>8. CASE \E g \in program.names, n \in 1 .. 2 : irx_set_global(g, n)
  BY <1>1, <1>8 DEF irx_set_global
<1>9. CASE \E I \in program.instructions : runInstruction(I)
  BY <1>1, <1>9 DEF runInstruction
<1>10. CASE Access(program.structs, created) /\ UNCHANGED <<linked, known, early, sessionVars>>
  BY <1>10, AccessStored
<1>11. CASE UNCHANGED vars
  BY <1>1, <1>11 DEF vars
<1> QED BY <1>2, <1>3, <1>4, <1>5, <1>6, <1>7, <1>8, <1>9, <1>10, <1>11 DEF Next, Leave

\* What a field stores is what a get of it answers.
LEMMA Extracted ==
  ASSUME NEW bytes, IsSequence(bytes), NEW l \in Nat, DOMAIN bytes = 1 .. l,
         NEW o \in Nat, NEW n \in Nat, o + n <= l, NEW s, s = Extract(bytes, o, n)
  PROVE  /\ \E S : s \in Seq(S)
         /\ Len(s) = n /\ \A i \in 1 .. n : s[i] = bytes[o + i]
<1> DEFINE S == {bytes[i] : i \in 1 .. l}
<1>1. bytes \in Seq(S) /\ Len(bytes) = l
  <2>1. bytes \in [1 .. l -> S]
    BY DEF IsSequence
  <2> HIDE DEF S
  <2> QED BY <2>1
<1>2. s = SubSeq(bytes, o + 1, o + n)
  <2>1. Min({o + n, Len(bytes)}) = o + n
    <3> DEFINE m == o + n
    <3>1. m \in Int /\ l \in Int /\ m <= l
      OBVIOUS
    <3> HIDE DEF m
    <3>2. Min({m, l}) = m
      BY <3>1, MinOfTwo
    <3> QED BY <1>1, <3>2 DEF m
  <2> QED BY <2>1 DEF Extract
<1> HIDE DEF S
<1>3. /\ s \in Seq(S) /\ Len(s) = n
      /\ \A i \in 1 .. n : s[i] = bytes[o + i]
  BY <1>1, <1>2
<1> QED BY <1>3

LEMMA ReadsStored ==
  ASSUME IInv, Stored, object # NoObject, ~ Ambiguous(object.name),
         NEW f \in Fields, f.path \in DOMAIN written, NEW data, data = written[f.path], ~ Lossy(f, data)
  PROVE  \A value : Back(value, data, f.size) => Gives(f.path, data.kind, value)
<1> DEFINE info == ObjectInfo(f.path)
           new == BytesFor(f, data)
           bt == TypeFor(f)
           size == f.size
           bytes == object.bytes
           o == f.offset
           field == Extract(bytes, o, size)
<1>1. /\ f.exposed /\ ~ Narrow(f) /\ data \in Data /\ info # Unknown /\ ~ info.aborts
      /\ IsBytes(new) /\ Holds(bytes, f, new.bytes) /\ IsSequence(bytes)
  BY DEF Stored, FieldStored
<1>2. STCache[object.name] # NoType
  BY DEF Stored
<1>3. info.size = SizeFor(f) /\ info.basicType = bt /\ ObjectOffset(info.hits).offset = o
  BY <1>1, <1>2, KnownField
<1>4. SizeFor(f) = size /\ ~ Spoils(bt, size, data)
  BY DEF Lossy, SizeFor, Spoils, TypeFor
<1>5. /\ o \in Nat /\ size \in Nat /\ DOMAIN bytes = 1 .. ObjectSize /\ ObjectSize \in Nat
      /\ o + size <= ObjectSize
      /\ \E t \in OptNode : f \in fieldsOf[t]
  BY <1>2, FieldPlace
<1>6. Gives(f.path, data.kind, fromBytes(field, bt, data.kind))
  <2>1. info.size = size
    BY <1>3, <1>4
  <2>2. field = Extract(object.bytes, ObjectOffset(info.hits).offset, info.size)
    BY <1>3, <2>1
  <2>3. Gives(f.path, data.kind, fromBytes(field, info.basicType, data.kind))
    <3> HIDE DEF field
    <3> QED BY <2>2 DEF Gives
  <2> QED BY <1>3, <2>3
<1>7. Pack(bt) <= size /\ (Characters(bt) => size # 0)
  BY <1>1, <1>5, PackFits DEF TypeFor
<1>8. Datum(data)
  BY <1>1, DataAssumption DEF DataAssumption, Datum
<1>9. new = toBytes(data, bt, size)
  BY <1>4 DEF BytesFor
<1>10. \A i \in 1 .. Len(new.bytes) : i <= size => bytes[o + i] = new.bytes[i]
  BY <1>1 DEF Holds
<1>11. new.bytes \in Seq(Nat)
  BY <1>1, <1>5, StoredBytes
<1> DEFINE l == ObjectSize
           b == new.bytes
<1>12. /\ field = Extract(bytes, o, size) /\ DOMAIN bytes = 1 .. l /\ l \in Nat /\ o + size <= l
       /\ b \in Seq(Nat) /\ \A i \in 1 .. Len(b) : i <= size => bytes[o + i] = b[i]
  BY <1>5, <1>10, <1>11
<1> HIDE DEF info, new, bt, size, bytes, o, l, field, b
<1>a. /\ \E S : field \in Seq(S)
      /\ Len(field) = size /\ \A i \in 1 .. size : field[i] = bytes[o + i]
  <2>1. IsSequence(bytes) /\ DOMAIN bytes = 1 .. l
    BY <1>1, <1>12
  <2>2. l \in Nat /\ o \in Nat /\ size \in Nat /\ o + size <= l
    BY <1>5, <1>12
  <2>3. field = Extract(bytes, o, size)
    BY <1>12
  <2> QED BY ONLY <2>1, <2>2, <2>3, Extracted
<1>13. PICK S : field \in Seq(S)
  BY <1>a
<1>14. Begin(field, b)
  <2>1. Len(field) = size /\ Len(b) \in Nat /\ size \in Nat
    BY <1>5, <1>12, <1>a
  <2>2. ASSUME NEW i \in 1 .. size, i <= Len(b) PROVE field[i] = b[i]
    <3>1. field[i] = bytes[o + i]
      BY <1>a
    <3>2. i \in 1 .. Len(b) /\ i <= size
      BY <2>1, <2>2
    <3>3. bytes[o + i] = b[i]
      BY <1>12, <3>2
    <3> QED BY <3>1, <3>3
  <2> QED BY <2>1, <2>2 DEF Begin
<1>15. Back(fromBytes(field, bt, data.kind), data, size)
  <2>1. Begin(field, new.bytes)
    BY <1>14 DEF b
  <2>2. /\ Datum(data) /\ size \in Nat /\ Pack(bt) <= size /\ (Characters(bt) => size # 0)
        /\ new = toBytes(data, bt, size) /\ IsBytes(new) /\ ~ Spoils(bt, size, data)
        /\ field \in Seq(S) /\ Len(field) = size
    BY <1>1, <1>4, <1>5, <1>7, <1>8, <1>9, <1>a, <1>13
  <2> QED BY <2>1, <2>2, ReadBack
<1>16. ASSUME NEW value, Back(value, data, f.size)
       PROVE  value = fromBytes(field, bt, data.kind)
  BY <1>15, <1>16 DEF Back, size
<1> QED BY <1>6, <1>16

-----------------------------------------------------------------------------
\* The theorems.

\* A process starts with nothing parsed and nothing cached.
LEMMA Begins == Init => IInv
<1> SUFFICES ASSUME Init PROVE IInv
  OBVIOUS
<1>1. /\ program \in Programs /\ status = "running" /\ calls = 0
      /\ linked = << >> /\ known = << >> /\ parsing = << >> /\ module = << >> /\ clone = << >>
      /\ memory = << >> /\ image = << >> /\ STCache = << >> /\ DICache = << >>
      /\ object = NoObject /\ written = << >> /\ created = FALSE /\ clean = FALSE
  BY DEF Init, AccessInit
<1>2. Typed
  <2>1. << >> \in Seq(Files(program)) /\ 0 \in 0 .. MaxCalls
    BY CallsAssumption
  <2>2. GlobalMap(<< >>)
    BY DEF GlobalMap
  <2> QED BY <1>1, <2>1, <2>2 DEF Typed, Status
<1>3. Flagged(module) /\ Flagged(clone) /\ Contained
  BY <1>1 DEF Flagged, FlaggedBy, Contained
<1>4. Memories
  BY <1>1 DEF Memories, Sized, Initialised
<1>5. Caches
  BY <1>1 DEF Caches, Parsing
<1>6. Allocated
  <2>1. DOMAIN written = {}
    BY <1>1
  <2>2. DOMAIN object = {"name", "bytes"}
    BY <1>1 DEF NoObject
  <2> QED BY <1>1, <2>1, <2>2 DEF Allocated
<1> QED BY <1>2, <1>3, <1>4, <1>5, <1>6 DEF IInv

\* So it is for a client that makes no more calls.
LEMMA Stutters ==
  ASSUME IInv, UNCHANGED vars
  PROVE  IInv'
<1>1. /\ Typed /\ Flagged(module) /\ Flagged(clone)
      /\ Contained /\ Memories /\ Caches /\ Allocated
  BY DEF IInv
<1>2. /\ UNCHANGED <<program, parsing, module, clone, created, memory, image, clean>>
      /\ UNCHANGED <<linked, known, early, calls, status>> /\ UNCHANGED accessVars
  BY DEF vars, sessionVars
<1>3. Typed'
  BY <1>1, <1>2 DEF Typed, GlobalMap, Status
<1>4. Flagged(module)' /\ Flagged(clone)' /\ Contained' /\ Memories' /\ Allocated'
  BY <1>1, <1>2, FlaggedSame, FlaggedKept, ContainedKept, MemoriesKept, AllocatedKept
<1>5. Caches'
  <2>1. \A name : findType(name)' = findType(name) /\ findKnown(name)' = findKnown(name)
    BY <1>2, SearchesKept
  <2>2. UNCHANGED <<STCache, DICache>> /\ (Parsing' <=> Parsing)
    BY <1>2 DEF accessVars, Parsing
  <2> QED BY <1>1, <1>2, <2>1, <2>2 DEF Caches
<1> QED BY <1>3, <1>4, <1>5 DEF IInv

\* Each call of a client and each step of a parse preserves the invariant.
LEMMA Preserves == IInv /\ [Next]_vars => IInv'
<1> SUFFICES ASSUME IInv, [Next]_vars PROVE IInv'
  OBVIOUS
<1>1. CASE \E files \in program.parses : parseIRFiles(files)
  BY <1>1, ParseStep
<1>2. CASE load
  BY <1>2, LoadStep
<1>3. CASE processModule
  BY <1>3, ProcessStep
<1>4. CASE createInterpreter
  BY <1>4, CreateStep
<1>5. CASE resetExtraAllocations
  BY <1>5, ResetStep
<1>6. CASE \E g \in program.names, constant \in program.constants : setInitializer(g, constant)
  BY <1>6, SetStep
<1>7. CASE \E g \in program.names, n \in 1 .. 2 : irx_set_global(g, n)
  BY <1>7, SetGlobalStep
<1>8. CASE \E I \in program.instructions : runInstruction(I)
  BY <1>8, RunStep
<1>9. CASE Access(program.structs, created) /\ UNCHANGED <<linked, known, early, sessionVars>>
  BY <1>9, AccessStep
<1>10. CASE UNCHANGED vars
  BY <1>10, Stutters
<1> QED BY <1>1, <1>2, <1>3, <1>4, <1>5, <1>6, <1>7, <1>8, <1>9, <1>10 DEF Next, Leave

\* Whatever a client calls, in whatever order, and wherever a parse stops: what is
\* linked, cloned, cached and allocated fits together.
THEOREM Inductive == Spec => []IInv
<1>1. Init => IInv
  BY Begins
<1>2. IInv /\ [Next]_vars => IInv'
  BY Preserves
<1> QED BY <1>1, <1>2, PTL DEF Spec

\* The caches of struct types and of debug info never answer anything but what a
\* search in the module would, except for names that were looked up before a parse.
THEOREM CachesRight == Spec => []CachesExact
<1>1. IInv => CachesExact
  BY DEF IInv, Caches, CachesExact
<1> QED BY <1>1, Inductive, PTL

\* resetExtraAllocations brings back what the globals were when the interpreter
\* was created, whatever has been parsed, set and run in between.
THEOREM ResetRestores == Spec => []CleanIsImage
<1>1. IInv => CleanIsImage
  <2> SUFFICES ASSUME IInv, clean, NEW g \in DOMAIN clone,
                      NEW i \in DOMAIN clone[g].init \intersect DOMAIN memory[g],
                      ~ clone[g].tls, clone[g].init[i] # "undef"
               PROVE  memory[g][i] = image[g][i]
    BY DEF CleanIsImage
  <2>1. /\ Sized(clone, memory) /\ Sized(clone, image)
        /\ Initialised(clone, memory) /\ Initialised(clone, image)
    BY DEF IInv, Memories
  <2>2. GlobalMap(clone)
    BY DEF IInv, Typed
  <2>3. /\ Len(memory[g]) = Len(image[g])
        /\ memory[g] \in Seq(Word \ {"undef"}) /\ image[g] \in Seq(Word \ {"undef"})
    BY <2>1 DEF Sized
  <2>4. DOMAIN memory[g] = DOMAIN image[g]
    BY <2>3
  <2> QED BY <2>1, <2>4 DEF Initialised
<1> QED BY <1>1, Inductive, PTL

\* createInterpreter leaves the thread-local flags as the files have them, in the
\* module and in the clone, also when it is called again after another parse.
THEOREM FlagsRestored == Spec => []FlagsKept
<1>1. IInv => FlagsKept
  <2> SUFFICES ASSUME IInv, NEW f \in Range(linked), NEW g \in DOMAIN f.globals
               PROVE  /\ module[g].tls = f.globals[g].tls
                      /\ g \in DOMAIN clone => clone[g].tls = f.globals[g].tls
    BY DEF FlagsKept
  <2>1. program \in Programs /\ linked \in Seq(Files(program))
    BY DEF IInv, Typed
  <2>2. PICK i \in DOMAIN linked : f = linked[i]
    BY DEF Range
  <2>3. f \in Files(program) /\ g \in DOMAIN module
    BY <2>1, <2>2 DEF IInv, Contained
  <2>4. \A h \in Files(program) : g \in DOMAIN h.globals => h.globals[g].tls = f.globals[g].tls
    BY <2>1, <2>3, FileFacts
  <2>5. PICK h \in Files(program) : g \in DOMAIN h.globals /\ module[g].tls = h.globals[g].tls
    BY <2>3 DEF IInv, Flagged, FlaggedBy
  <2>6. g \in DOMAIN clone =>
          \E k \in Files(program) : g \in DOMAIN k.globals /\ clone[g].tls = k.globals[g].tls
    BY DEF IInv, Flagged, FlaggedBy
  <2> QED BY <2>4, <2>5, <2>6
<1> QED BY <1>1, Inductive, PTL

\* Replacing aliases by what they stand for and putting them back never changes
\* what an operand means, whatever constants a program has, however its
\* instructions share expressions, and wherever the process ends; LLVM's
\* interpreter comes to an alias it cannot follow only where the operand of an
\* instruction is one.
THEOREM MeaningHolds == Spec => []OperandsKeepMeaning
<1>1. Init => Meaning
  BY DEF Init, Meaning
<1>2. IInv /\ Meaning /\ [Next]_vars => Meaning'
  BY MeaningSteps DEF IInv, Typed
<1>3. IInv /\ Meaning => OperandsKeepMeaning
  <2> SUFFICES ASSUME program \in Programs, Meaning,
                      NEW e \in DOMAIN operands, ~ Twice(e), NEW i \in DOMAIN operands[e]
               PROVE  /\ operands[e][i] # Null
                      /\ resolveAliasesOperand[operands[e][i]] = resolveAliasesOperand[program.exprs[e][i]]
    BY DEF OperandsKeepMeaning, Meaning, IInv, Typed
  <2>1. operands \in Ops /\ \A p \in Places : ~ Twice(p[1]) => operands[p[1]][p[2]] # Null
    BY DEF Meaning, Whole
  <2>2. IsExpr(e) /\ i \in DOMAIN program.exprs[e] /\ operands[e][i] \in Alike(program.exprs[e][i])
    <3>1. IsExpr(e)
      BY <2>1 DEF Ops, IsExpr
    <3> QED BY <2>1, <3>1, SomeOps
  <2>3. <<e, i>> \in Places
    BY <2>2, PlacesUnder
  <2>4. operands[e][i] # Null
    BY <2>1, <2>3
  <2> QED BY <2>2, <2>4 DEF Alike
<1> QED BY <1>1, <1>2, <1>3, Inductive, PTL DEF Spec

\* A get or a set of a field goes to where the C compiler has put the field and
\* takes its size, whatever types a program has, however deep the field is in
\* structs, unions, arrays and members without a name, and whatever has been
\* looked up and parsed before.
THEOREM AccessGoesRight == Spec => []AccessRight
<1>1. Init => AccessRight
  BY DEF Init, AccessInit, AccessRight
<1>2. IInv /\ AccessRight /\ [Next]_vars => AccessRight'
  BY RightSteps
<1> QED BY <1>1, <1>2, Inductive, PTL DEF Spec

\* What was written to a field of a struct is read again, whatever types a program
\* has, wherever the field is in it, and whatever was written to the fields around
\* it, looked up, parsed and run since, unless Lossy says otherwise.
THEOREM RoundTrips == Spec => []RoundTrip
<1>1. Init => Stored
  <2> SUFFICES ASSUME Init PROVE Stored
    OBVIOUS
  <2>1. object = NoObject /\ written = << >>
    BY DEF Init, AccessInit
  <2>2. object.bytes = << >> /\ DOMAIN written = {}
    <3>1. NoObject.bytes = << >> /\ DOMAIN << >> = {}
      BY DEF NoObject
    <3> QED BY <2>1, <3>1
  <2>3. IsSequence(object.bytes)
    BY <2>2, EmptySequence
  <2> QED BY <2>2, <2>3 DEF Stored
<1>2. IInv /\ Stored /\ [Next]_vars => Stored'
  BY StoredSteps
<1>3. IInv /\ Stored => RoundTrip
  <2> SUFFICES ASSUME IInv, Stored, object # NoObject, ~ Ambiguous(object.name),
                      NEW f \in Fields, f.path \in DOMAIN written, ~ Lossy(f, written[f.path])
               PROVE  Gives(f.path, written[f.path].kind,
                            IF written[f.path].kind = "int" THEN written[f.path]
                            ELSE Text(Min({written[f.path].value, f.size})))
    BY DEF RoundTrip
  <2> DEFINE data == written[f.path]
  <2>1. data = written[f.path] /\ ~ Lossy(f, data)
    OBVIOUS
  <2> HIDE DEF data
  <2> DEFINE value == IF data.kind = "int" THEN data ELSE Text(Min({data.value, f.size}))
  <2>2. Back(value, data, f.size)
    BY DEF Back
  <2> HIDE DEF value
  <2>3. Gives(f.path, data.kind, value)
    BY <2>1, <2>2, ReadsStored
  <2> QED BY <2>1, <2>3 DEF value
<1> QED BY <1>1, <1>2, <1>3, Inductive, PTL DEF Spec

\* The memory of each global keeps its size, and the object that of its IR type.
THEOREM TypeCorrect == Spec => []TypeOK
<1>1. IInv => TypeOK
  <2> SUFFICES ASSUME IInv PROVE TypeOK
    OBVIOUS
  <2>1. /\ Typed /\ Memories /\ Caches /\ Allocated
    BY DEF IInv
  <2>2. Globals(module) /\ Globals(clone)
    <3>1. ASSUME NEW m, GlobalMap(m) PROVE Globals(m)
      BY <3>1 DEF GlobalMap, Globals, GlobalVariable, Range
    <3> QED BY <2>1, <3>1 DEF Typed
  <2>3. /\ DOMAIN memory = DOMAIN clone /\ DOMAIN image = DOMAIN clone
        /\ \A g \in DOMAIN clone :
             Len(memory[g]) = clone[g].size /\ Range(memory[g]) \subseteq Word \ {"undef"}
    BY <2>1 DEF Memories, Sized, Range
  <2>4. Range(STCache) \union Range(DICache) \subseteq OptNode
    BY <2>1 DEF Caches, Range, Structs, OptNode
  <2>5. object # NoObject =>
          Len(object.bytes) = IF getTypeByName(object.name) = NoType THEN 0
                              ELSE Size(getTypeByName(object.name))
    <3> SUFFICES ASSUME object # NoObject
                 PROVE  /\ Len(object.bytes) = ObjectSize
                        /\ getTypeByName(object.name) = STCache[object.name]
      BY DEF ObjectSize
    <3>1. object.name \in DOMAIN STCache /\ DOMAIN object.bytes = 1 .. ObjectSize
      BY <2>1 DEF Allocated
    <3>2. ObjectSize \in Nat
      <4>1. STCache[object.name] \in Structs \union {NoType}
        BY <2>1, <3>1 DEF Caches
      <4>2. \A t \in Structs : Size(t) \in Nat
        BY StructFacts
      <4> QED BY <4>1, <4>2 DEF ObjectSize
    <3> QED BY <3>1, <3>2 DEF getTypeByName, Cached
  <2> QED BY <2>1, <2>2, <2>3, <2>4, <2>5 DEF TypeOK, Typed, Allocated
<1> QED BY <1>1, Inductive, PTL

=============================================================================

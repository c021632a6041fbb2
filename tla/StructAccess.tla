---------------------------- MODULE StructAccess ----------------------------
(***************************************************************************)
(* A struct in the program's memory, written and read field by field by    *)
(* the Python binding, and the caches that find the struct by its name.    *)
(*                                                                         *)
(* Every access looks the name up twice: among the struct types of IR,     *)
(* which are those the module uses, and among those of the debug info.     *)
(* Both answers are kept, that there is none too.                          *)
(*                                                                         *)
(* Numbers are modelled by what their width and sign tell apart: 1, -1,    *)
(* and the largest of the unsigned numbers of a width, whose bytes are     *)
(* those of -1.                                                            *)
(***************************************************************************)
EXTENDS StructLayout

CONSTANTS
  MaxCalls,   \* calls a client makes
  Data        \* what a client writes: numbers and strings

ASSUME CallsAssumption == MaxCalls \in Nat

VARIABLES
  linked,     \* files that are linked into the module, in order
  known,      \* files whose debug info has been collected
  STCache,    \* IR types by name, NoType for a name that was not found
  DICache,    \* the same for debug info
  object,     \* the struct that was allocated last: its name and its bytes
  written,    \* history: what was written to the fields since
  answer,     \* where the last access went, or that it aborted
  early,      \* history: names that were looked up before the last parse
  calls,      \* calls so far
  status      \* "running", "aborted" by an assertion, "exited"

accessVars == <<STCache, DICache, object, written, answer>>

NoObject == [name |-> "", bytes |-> << >>]
NoAnswer == [path |-> << >>, offset |-> 0, size |-> 0, aborted |-> FALSE]

Call == status = "running" /\ calls < MaxCalls /\ calls' = calls + 1

-----------------------------------------------------------------------------
(* Names.                                                                   *)

\* What the first of several searches that finds anything has found.
First(found) ==
  LET hits == {i \in DOMAIN found : found[i] # NoType}
  IN  IF hits = {} THEN NoType ELSE found[Min(hits)]

\* The first type of that name, file by file, in the order of
\* getIdentifiedStructTypes: those of the globals, then those of functions.
\* IR's names begin with "struct.", which every caller puts in front and which
\* is left out here.  LLVM gives a second type of the name a suffix, which is
\* not looked at; that the two differ is never noticed, as every match is
\* compared with itself.
named(types, name) ==
  LET hits == {i \in DOMAIN types : Name(types[i]) = name}
  IN  IF hits = {} THEN NoType ELSE types[Min(hits)]
inGlobals(name)   == First([i \in DOMAIN linked |-> named(linked[i].inGlobals, name)])
inFunctions(name) == First([i \in DOMAIN linked |-> named(linked[i].inFunctions, name)])
findType(name) == IF inGlobals(name) # NoType THEN inGlobals(name) ELSE inFunctions(name)

\* The first struct of that name among the types the finder has collected, which
\* it does file by file.
findKnown(name) == First([i \in DOMAIN known |-> findStruct(known[i].types, name)])

Cached(cache, name, found) == IF name \in DOMAIN cache THEN cache[name] ELSE found

Entered(map, key, entry) ==
  [k \in DOMAIN map \union {key} |-> IF k = key THEN entry ELSE map[k]]

\* Variant: what is not in the cache is not looked for in the module.
Remember_Missing(cache, name, found) == Entered(cache, name, NoType)
Remember(cache, name, found) == Entered(cache, name, Cached(cache, name, found))

getTypeByName(name) == Cached(STCache, name, findType(name))

findStructDebugInfo(name) == Cached(DICache, name, findKnown(name))

\* Where an access to a path goes.  An unknown struct, a path without indices
\* and a walk that leaves the type are assertions.
offsetFromPath(ST, hits) ==
  IF ST = NoType \/ hits = << >> THEN [at |-> NoType, offset |-> 0, failed |-> TRUE]
  ELSE GEP2Offset(ST, hits)

-----------------------------------------------------------------------------
(* Values.                                                                  *)

Num(v)    == [kind |-> "int", value |-> v]      \* "0", "1", "-1", "max", or "other"
Text(n)   == [kind |-> "str", value |-> n]      \* a string of n letters
NoData    == [kind |-> "none", value |-> 0]

DataAssumption ==
  \A data \in Data : \/ data \in {Num("1"), Num("-1"), Num("max")}
                     \/ data.value \in Nat /\ data = Text(data.value)

\* Programs of 32 and 64 bits; the numbers whose width Python's struct has too.
WidthAssumption ==
  /\ PtrSize \in {4, 8}
  /\ \A t \in Node : Tag(t) = "basic" =>
       /\ Name(t) # "PTR"
       /\ Name(t) \in {"bool", "char", "unsigned char"} => Types[t].size = 1
       /\ Name(t) \in {"short", "unsigned short"} => Types[t].size = 2
       /\ Name(t) \in {"int", "unsigned int"} => Types[t].size = 4
       /\ Name(t) \in {"long long", "unsigned long long"} => Types[t].size = 8

ASSUME DataAssumption
ASSUME WidthAssumption

Letter == 97
Stale  == 85    \* what malloc leaves in memory
Fill(b, n) == [i \in 1 .. n |-> b]

\* The bytes of a number of that many bytes.
Number(v, n) == IF v = "1" THEN [i \in 1 .. n |-> IF i = 1 THEN 1 ELSE 0] ELSE Fill(255, n)

\* The width struct.pack gives a type, zero for one it is not called for.
\* Variant: pointers are the host's.
Pack_Native(basicType) ==
  CASE basicType \in {"bool", "unsigned char"} -> 1
    [] basicType \in {"unsigned short", "short"} -> 2
    [] basicType \in {"int", "unsigned int"} -> 4
    [] basicType \in {"PTR", "unsigned long long", "long long"} -> 8
    [] OTHER -> 0
Pack(basicType) == IF basicType = "PTR" THEN PtrSize ELSE Pack_Native(basicType)

Signed == {"int", "short", "long long"}

Fits(v, basicType) == v = "1" \/ (v = "-1") = (basicType \in Signed)

\* The bytes set_struct_primitive writes, nothing for a type it only warns of,
\* and an exception for what it cannot convert.  Strings are padded to the
\* size of the field and never cut.
Bytes(b) == [kind |-> "bytes", bytes |-> b]
Raised   == [kind |-> "raised", bytes |-> << >>]
Nothing  == [kind |-> "nothing", bytes |-> << >>]

toBytes(data, basicType, size) ==
  LET fits == data.kind = "int" /\ Fits(data.value, basicType)
      text == Fill(Letter, data.value) \o Fill(0, Max({0, size - data.value}))
  IN  CASE basicType = "unknown" -> Nothing
        [] basicType = "bool" -> Bytes(<<1>>)
        [] basicType = "char" /\ data.kind = "str" -> Bytes(text)
        [] basicType # "bool" /\ Pack(basicType) > 0 /\ fits ->
             Bytes(Number(data.value, Pack(basicType)))
        [] OTHER -> Raised

\* The number and the text that bytes are read as.
readNumber(bytes, width, signed) ==
  LET read == SubSeq(bytes, 1, width)
  IN  CASE Range(read) = {255} -> Num(IF signed THEN "-1" ELSE "max")
        [] Range(read) = {0} -> Num("0")
        [] read = Number("1", Len(read)) -> Num("1")
        [] OTHER -> Num("other")

readText(bytes) ==
  LET n == Max({0} \union {i \in DOMAIN bytes : bytes[i] # 0})
  IN  Text(IF Range(SubSeq(bytes, 1, n)) \subseteq {Letter} THEN n ELSE -1)

\* What get_struct_primitive makes of the bytes of a field.  The C type it
\* reads a number by is "int" or "long" for the long ones and an unsigned one
\* for the short ones, whatever the type of the field.
fromBytes(bytes, basicType, kind) ==
  LET number(width, signed) == readNumber(bytes, width, signed)
      is(names) == kind = "int" /\ basicType \in names
  IN  IF bytes = << >> THEN NoData
      ELSE CASE basicType = "unknown" -> NoData
        [] basicType = "PTR" -> number(PtrSize, PtrSize = 8)
        [] basicType = "bool" -> Num(IF bytes[1] = 0 THEN "0" ELSE "1")
        [] basicType = "char" /\ Len(bytes) > 1 -> readText(bytes)
        [] is({"unsigned int", "int", "unsigned long", "long"}) -> number(4, TRUE)
        [] is({"char"}) /\ Len(bytes) = 1 -> number(1, FALSE)
        [] is({"unsigned char"}) -> number(1, FALSE)
        [] is({"unsigned short", "short"}) -> number(2, FALSE)
        [] is({"unsigned long long", "long long"}) -> number(8, TRUE)
        [] OTHER -> [kind |-> "raised", value |-> 0]

-----------------------------------------------------------------------------
(* Accesses.                                                                *)

\* getStructFieldInfo2: type and size of what a path leads to.
Unknown == [basicType |-> "unknown", size |-> 0, hits |-> << >>, aborts |-> FALSE]

InfoOf(hits, hit, crashed) ==
  IF hits = << >> THEN Unknown
  ELSE IF crashed \/ NoFieldSize(hit) THEN [Unknown EXCEPT !.aborts = TRUE]
  ELSE [basicType |-> DIType2StringType(resolveDerivedTypeBaseType(hit)),
        size |-> getDIFieldSize(hit), hits |-> hits, aborts |-> FALSE]

Info(gep) == InfoOf(gep.hits, Last(gep.hits), gep.crashed)
FieldInfo(DI, path) == IF DI = NoType THEN Unknown ELSE Info(GEP(DI, path))

\* The bytes with others in their place.
Overwrite(bytes, offset, new) ==
  [i \in DOMAIN bytes |->
     IF i > offset /\ i <= offset + Len(new) THEN new[i - offset] ELSE bytes[i]]

Extract(bytes, offset, size) ==
  SubSeq(bytes, offset + 1, Min({offset + size, Len(bytes)}))

\* The structs of a name, as C has them, and their fields.
Structs == {t \in Node : Tag(t) = "struct" /\ Name(t) # ""}
Meant(name) == {t \in Structs : Name(t) = name}
Ambiguous(name) == Cardinality(Meant(name)) > 1
FieldsOf(name) == UNION {fieldsIn[t] : t \in Meant(name)}
Fields == FieldsOf(object.name)

LookUpBoth(name) ==
  /\ DICache' = Remember(DICache, name, findKnown(name))
  /\ STCache' = Remember(STCache, name, findType(name))

\* A field that is an element of an array.
Element(f) == Last(f.path) \in DOMAIN stoi

\* The type that a field is converted by: its own, but for an element that is a
\* pointer the type it points to.
Converted(f) == resolveDerivedTypeBaseType(Hit(0, f.type, ~ Element(f)))

\* Fields that are smaller than a number of that type: elements that point to one,
\* and arrays without elements.
Narrow(f) ==
  LET basic == toBasicType[Converted(f)] IN basic # NoType /\ Size(basic) > f.size

\* The history of the fields after data went to f: what shares bytes with it, or
\* lies behind it and is reached by a string that is too long, is not known any
\* more; nothing is known after a field that is not exposed, or too narrow.
Disjoint(f, n, g) == g.offset >= f.offset + n \/ g.offset + g.size <= f.offset

Record(f, data) ==
  LET n == IF data.kind = "str" THEN Max({data.value, f.size}) ELSE f.size
      kept == {g.path : g \in {h \in Fields : Disjoint(f, n, h)}}
  IN  IF ~ f.exposed \/ Narrow(f) \/ Ambiguous(object.name) THEN << >>
      ELSE Entered(Restrict(written, kept \intersect DOMAIN written), f.path, data)

\* A struct that is not found is allocated without bytes.
structAlloc(name) ==
  LET ST == getTypeByName(name)
  IN  /\ Call
      /\ STCache' = Remember(STCache, name, findType(name))
      /\ object' = [name |-> name,
                    bytes |-> IF ST = NoType THEN << >> ELSE Fill(Stale, Size(ST))]
      /\ written' = << >> /\ answer' = NoAnswer
      /\ UNCHANGED <<DICache, status>>

irx_struct_get_size(name) ==
  /\ Call
  /\ STCache' = Remember(STCache, name, findType(name))
  /\ UNCHANGED <<DICache, object, written, answer, status>>

getStructFieldInfo2(name, path) ==
  /\ Call
  /\ DICache' = Remember(DICache, name, findKnown(name))
  /\ status' = IF FieldInfo(findStructDebugInfo(name), path).aborts THEN "aborted" ELSE status
  /\ UNCHANGED <<STCache, object, written, answer>>

\* The info of a path into the object, and where its indices lead.
ObjectInfo(path) == FieldInfo(findStructDebugInfo(object.name), path)
ObjectOffset(hits) == offsetFromPath(getTypeByName(object.name), hits)

\* Nothing is looked up in IR; the access ends or aborts.
NoAccess(path, aborts) ==
  /\ DICache' = Remember(DICache, object.name, findKnown(object.name))
  /\ status' = IF aborts THEN "aborted" ELSE status
  /\ answer' = IF aborts THEN [NoAnswer EXCEPT !.path = path, !.aborted = TRUE] ELSE answer
  /\ UNCHANGED <<STCache, object, written>>

AccessAt(path, size, to) ==
  /\ LookUpBoth(object.name)
  /\ status' = IF to.failed THEN "aborted" ELSE status
  /\ answer' = [path |-> path, offset |-> to.offset, size |-> size, aborted |-> to.failed]

\* memcpy into the object; what goes over its end is not modelled.
Write(path, data, to, new) ==
  /\ object' = IF to.failed THEN object ELSE [object EXCEPT !.bytes = Overwrite(@, to.offset, new)]
  /\ \E f \in {h \in Fields : h.path = path} :
       written' = IF to.failed THEN written ELSE Record(f, data)

\* What cannot be converted is not looked up in IR.
set_struct_primitive(path, data) ==
  /\ Call /\ object # NoObject
  /\ \E info \in {ObjectInfo(path)} : \E new \in {toBytes(data, info.basicType, info.size)} :
       \/ (info.aborts \/ new.kind # "bytes") /\ NoAccess(path, info.aborts)
       \/ /\ ~ info.aborts /\ new.kind = "bytes"
          /\ \E to \in {ObjectOffset(info.hits)} :
               AccessAt(path, info.size, to) /\ Write(path, data, to, new.bytes)

\* A field without a size is not looked up in IR.
get_struct_primitive(path) ==
  /\ Call /\ object # NoObject
  /\ \E info \in {ObjectInfo(path)} :
       \/ (info.aborts \/ info.size = 0) /\ NoAccess(path, info.aborts)
       \/ /\ ~ info.aborts /\ info.size > 0
          /\ AccessAt(path, info.size, ObjectOffset(info.hits))
          /\ UNCHANGED <<object, written>>

\* A get of the field answers that value.
Gives(path, kind, value) ==
  \E info \in {ObjectInfo(path)} :
    \E bytes \in {Extract(object.bytes, ObjectOffset(info.hits).offset, info.size)} :
      fromBytes(bytes, info.basicType, kind) = value

AccessInit ==
  /\ STCache = << >> /\ DICache = << >>
  /\ object = NoObject /\ written = << >> /\ answer = NoAnswer

\* An allocation needs an interpreter; sizes and infos do not.
Access(names, interpreter) ==
  \/ \E name \in names :
       \/ interpreter /\ structAlloc(name)
       \/ irx_struct_get_size(name)
       \/ \E f \in FieldsOf(name) : Len(f.path) = 1 /\ getStructFieldInfo2(name, f.path)
  \/ \E f \in FieldsOf(object.name) :
       \/ get_struct_primitive(f.path)
       \/ \E data \in Data : set_struct_primitive(f.path, data)

-----------------------------------------------------------------------------
(* Properties.                                                              *)

\* The caches answer what a search would, whatever is parsed in between.  Not
\* so for a name that was looked up before the last parse: that there was no
\* such type is remembered for good, and of two types with the name the other
\* one may come first now.
CachesExact ==
  /\ \A name \in DOMAIN STCache :
       \/ STCache[name] = findType(name)
       \/ name \in early /\ (STCache[name] = NoType \/ Ambiguous(name))
  /\ \A name \in DOMAIN DICache :
       \/ DICache[name] = findKnown(name)
       \/ name \in early /\ DICache[name] = NoType

\* An access goes where the C compiler has put the field, and takes its size;
\* only elements of an array whose type is a name or qualified have none.  It
\* aborts only for elements that are structs or pointers to void, and for a
\* struct that was not found in IR.
VoidPointer(t) == Tag(t) = "pointer" /\ stripTypedef[Base(t)] = NoType

AccessRight ==
  answer # NoAnswer /\ ~ Ambiguous(object.name) =>
    \A f \in Fields : f.path = answer.path /\ f.exposed =>
      IF answer.aborted
      THEN \/ STCache[object.name] = NoType
           \/ Element(f) /\ (Composite(f.type) \/ VoidPointer(f.type))
      ELSE /\ answer.offset = f.offset
           /\ answer.size = IF Element(f) /\ Tag(f.type) \in {"typedef", "const"} THEN 0 ELSE f.size

\* Fields whose value does not survive: numbers that are read with the other
\* sign, single characters, and elements that have no size.
Lossy(f, data) ==
  LET basicType == DIType2StringType(Converted(f))
      otherSign == \/ data = Num("max") /\ basicType \in {"unsigned int", "unsigned long long"}
                   \/ data = Num("max") /\ basicType = "PTR" /\ PtrSize = 8
                   \/ data = Num("-1") /\ basicType = "short"
  IN  \/ otherSign
      \/ basicType = "char" /\ f.size = 1
      \/ basicType = "bool"
      \/ Element(f) /\ Tag(f.type) \in {"typedef", "const"}

\* What was written to a field is read again, whatever has been written to the
\* fields around it since, in structs, arrays and the members without a name;
\* a string comes back as far as it fits.
RoundTrip ==
  status = "running" /\ object # NoObject /\ ~ Ambiguous(object.name) =>
    \A f \in Fields : f.path \in DOMAIN written /\ ~ Lossy(f, written[f.path]) =>
      Gives(f.path, written[f.path].kind,
            IF written[f.path].kind = "int" THEN written[f.path]
            ELSE Text(Min({written[f.path].value, f.size})))
==============================================================================

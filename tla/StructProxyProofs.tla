-------------------------- MODULE StructProxyProofs --------------------------
(***************************************************************************)
(* Proofs about StructProxy, for every set of objects that refer to each   *)
(* other in any way, every struct and every number of calls.               *)
(***************************************************************************)
EXTENDS StructProxy, DataLemmas, FiniteSetTheorems, TLAPS

\* Types.
Link == [ptr : Places, cache : Refs]
PyObject == [ptr : Address \cup {None}, val : Val \cup {Misfit}, link : [Field -> Link]]
CStruct == [val : Val \cup {None}, link : [Field -> Places]]
Waiting == [field : Field, far : Refs \ {NoFar}]
Activation ==
  [object : Object, todo : Seq(Field), waits : Seq(Waiting), deep : Seq(Field),
   uploaded : SUBSET Address]

Types ==
  /\ obj \in [Object -> PyObject] /\ meant \in [Object -> [Field -> Refs]]
  /\ puts \in Seq(Activation) /\ raised \in BOOLEAN /\ ops \in Nat

\* The memory and the two maps; an object that has an address has memory.
Registered ==
  /\ memory \in [DOMAIN memory -> CStruct] /\ DOMAIN memory \subseteq Address
  /\ objectMap \in [DOMAIN objectMap -> Object] /\ DOMAIN objectMap \subseteq DOMAIN memory
  /\ reverseObjectMap \in [DOMAIN reverseObjectMap -> Address]
  /\ DOMAIN reverseObjectMap \subseteq Object
  /\ \A o \in Object : obj[o].ptr # None => obj[o].ptr \in DOMAIN memory
  /\ MapsAgree

\* An object that is being put, and one that a put waits for, has an address;
\* a put that has passed a field has left no reference there.
Going(object, p) ==
  /\ object[p.object].ptr # None
  /\ p.waits # << >> => object[p.waits[1].far.object].ptr # None
  /\ \A f \in Field \ Range(p.todo) : object[p.object].link[f].cache = NoFar
AllGoing == \A d \in 1 .. Len(puts) : Going(obj, puts[d])

\* Each put that was called over a reference has dropped it.
Cached(object) == {of \in Object \X Field : object[of[1]].link[of[2]].cache # NoFar}
Depth ==
  /\ Cardinality(Cached(obj)) + Len(puts) <= 2 + Cardinality(Object \X Field)
  /\ \A d \in 2 .. Len(puts) : puts[d].deep = << >>

\* What has been allocated and not written is being put.
Unwritten ==
  ~ raised => \A a \in DOMAIN memory : memory[a].val = None =>
                \E d \in 1 .. Len(puts) : obj[puts[d].object].ptr = a

\* What the user made a field refer to is in the reference, in the pointer, or
\* on its way in a put that waits.
Resolved(o, f) ==
  /\ obj[meant[o][f].object].ptr # None
  /\ obj[o].link[f].ptr = obj[meant[o][f].object].ptr + meant[o][f].offset
Awaited(o, f) ==
  \E d \in 1 .. Len(puts) :
    puts[d].object = o /\ puts[d].waits # << >> /\ puts[d].waits[1].field = f
Linked ==
  ~ raised =>
    /\ \A o \in Object, f \in Field :
         /\ obj[o].link[f].cache \in {NoFar, meant[o][f]}
         /\ \/ meant[o][f] = NoFar \/ obj[o].link[f].cache # NoFar
            \/ Resolved(o, f) \/ Awaited(o, f)
    /\ \A d \in 1 .. Len(puts) :
         puts[d].waits # << >> => puts[d].waits[1].far = meant[puts[d].object][puts[d].waits[1].field]

IInv == Types /\ Registered /\ AllGoing /\ Depth /\ Unwritten /\ Linked

-----------------------------------------------------------------------------
\* Addresses, references, finiteness.

LEMMA Places0 ==
  /\ None \notin Address /\ Address \subseteq Places /\ {None, 0, GlobalAddr} \subseteq Places
  /\ \A a \in Address, x \in Offset : a + x \in Places /\ a + x # None
BY AddressAssumption DEF None, Places

LEMMA References ==
  /\ NoFar \in Refs
  /\ \A o \in Object, x \in Offset : Far(o, x) \in Refs \ {NoFar}
  /\ \A r \in Refs \ {NoFar} : r.object \in Object /\ r.offset \in Offset /\ r = Far(r.object, r.offset)
BY ObjectAssumption DEF Refs, Far, NoFar

LEMMA FieldFacts ==
  /\ Fields \in Seq(Field) /\ IsFiniteSet(Field)
  /\ IsFiniteSet(Object \X Field) /\ Cardinality(Object \X Field) \in Nat
<1>1. Fields \in Seq(Field)
  BY FieldAssumption DEF Field
<1>2. IsFiniteSet(1 .. Len(Fields))
  BY <1>1, LenProperties, FS_Interval
<1>3. Fields \in [1 .. Len(Fields) -> Field] /\ DOMAIN Fields = 1 .. Len(Fields)
  BY <1>1, LenProperties
<1>4. Fields \in Surjection(1 .. Len(Fields), Field)
  BY <1>3 DEF Surjection, Field, Range
<1>5. IsFiniteSet(Field)
  BY <1>2, <1>4, FS_Surjection
<1>6. IsFiniteSet(Object \X Field)
  BY <1>5, ObjectAssumption, FS_Product
<1> QED BY <1>1, <1>5, <1>6, FS_CardinalityType

\* The stack of puts with another top.
LEMMA ReplaceFacts ==
  ASSUME IInv, Active, NEW p \in Activation
  PROVE  /\ Len(puts) \in Nat /\ Len(puts) >= 1 /\ Top \in Activation /\ Top = puts[Len(puts)]
         /\ Replace(p) \in Seq(Activation) /\ Len(Replace(p)) = Len(puts)
         /\ Replace(p)[Len(puts)] = p
         /\ \A d \in 1 .. Len(puts) - 1 : Replace(p)[d] = puts[d]
<1>1. puts \in Seq(Activation) /\ puts # << >> /\ Len(puts) \in Nat
  BY DEF IInv, Types, Active
<1>2. Len(puts) \in 1 .. Len(puts)
  BY <1>1
<1>3. Top \in Activation
  BY <1>1, <1>2 DEF Top
<1>4. /\ Append(SubSeq(puts, 1, Len(puts) - 1), p) \in Seq(Activation)
      /\ Len(Append(SubSeq(puts, 1, Len(puts) - 1), p)) = Len(puts)
      /\ Append(SubSeq(puts, 1, Len(puts) - 1), p)[Len(puts)] = p
      /\ \A d \in 1 .. Len(puts) - 1 : Append(SubSeq(puts, 1, Len(puts) - 1), p)[d] = puts[d]
  BY <1>1, OtherTop
<1>5. Top = puts[Len(puts)] /\ Len(puts) >= 1
  BY <1>2 DEF Top
<1> HIDE DEF Activation
<1> QED BY <1>1, <1>3, <1>4, <1>5 DEF Replace, Rest

LEMMA ActivationFacts ==
  ASSUME NEW o \in Object, NEW deep
  PROVE  /\ Put(o, deep) \in Activation /\ Put(o, deep).object = o
         /\ Put(o, deep).waits = << >> /\ Range(Put(o, deep).todo) = Field
         /\ Put(o, FALSE).deep = << >>
BY FieldFacts DEF Put, Activation, Field

\* Objects: a field gets another pointer.
LEMMA Linking ==
  ASSUME NEW object \in [Object -> PyObject], NEW o \in Object, NEW f \in Field, NEW l \in Link
  PROVE  /\ [object EXCEPT ![o].link[f] = l] \in [Object -> PyObject]
         /\ \A p \in Object :
              /\ [object EXCEPT ![o].link[f] = l][p].ptr = object[p].ptr
              /\ [object EXCEPT ![o].link[f] = l][p].val = object[p].val
              /\ \A g \in Field : [object EXCEPT ![o].link[f] = l][p].link[g]
                                    = IF p = o /\ g = f THEN l ELSE object[p].link[g]
BY DEF PyObject

LEMMA Dropping ==
  ASSUME IInv, NEW o \in Object, NEW f \in Field
  PROVE  /\ Drop(o, f) \in [Object -> PyObject]
         /\ \A p \in Object :
              /\ Drop(o, f)[p].ptr = obj[p].ptr /\ Drop(o, f)[p].val = obj[p].val
              /\ \A g \in Field :
                   /\ Drop(o, f)[p].link[g].ptr = obj[p].link[g].ptr
                   /\ Drop(o, f)[p].link[g].cache
                        = IF p = o /\ g = f THEN NoFar ELSE obj[p].link[g].cache
<1>1. obj \in [Object -> PyObject] /\ NoFar \in Refs
  BY References DEF IInv, Types
<1> DEFINE l == [obj[o].link[f] EXCEPT !.cache = NoFar]
<1>2. obj[o].link[f] \in Link
  BY <1>1 DEF PyObject
<1>3. l \in Link /\ l.ptr = obj[o].link[f].ptr /\ l.cache = NoFar
  BY <1>1, <1>2 DEF Link
<1>4. Drop(o, f) = [obj EXCEPT ![o].link[f] = l]
  BY DEF Drop
<1> HIDE DEF l
<1>5. /\ [obj EXCEPT ![o].link[f] = l] \in [Object -> PyObject]
      /\ \A p \in Object :
           /\ [obj EXCEPT ![o].link[f] = l][p].ptr = obj[p].ptr
           /\ [obj EXCEPT ![o].link[f] = l][p].val = obj[p].val
           /\ \A g \in Field : [obj EXCEPT ![o].link[f] = l][p].link[g]
                                 = IF p = o /\ g = f THEN l ELSE obj[p].link[g]
  BY <1>1, <1>3, Linking
<1> HIDE DEF PyObject
<1> QED BY <1>3, <1>4, <1>5

LEMMA Settling ==
  ASSUME IInv, NEW o \in Object, NEW f \in Field, NEW far \in Refs \ {NoFar},
         obj[far.object].ptr # None
  PROVE  /\ Settle(o, f, far, obj) \in [Object -> PyObject]
         /\ \A p \in Object :
              /\ Settle(o, f, far, obj)[p].ptr = obj[p].ptr
              /\ Settle(o, f, far, obj)[p].val = obj[p].val
              /\ \A g \in Field :
                   Settle(o, f, far, obj)[p].link[g]
                     = IF p = o /\ g = f THEN PTR(obj[far.object].ptr + far.offset, NoFar)
                       ELSE obj[p].link[g]
<1>1. obj \in [Object -> PyObject]
  BY DEF IInv, Types
<1>2. far.object \in Object /\ far.offset \in Offset
  BY References
<1>3. obj[far.object].ptr \in Address
  BY <1>1, <1>2 DEF PyObject
<1>4. PTR(obj[far.object].ptr + far.offset, NoFar) \in Link
  BY <1>2, <1>3, Places0, References DEF PTR, Link
<1> DEFINE l == PTR(obj[far.object].ptr + far.offset, NoFar)
           new == [obj EXCEPT ![o].link[f] = l]
<1>5. Settle(o, f, far, obj) = new
  BY DEF Settle
<1>6. l \in Link
  BY <1>4
<1> HIDE DEF l
<1>7. /\ new \in [Object -> PyObject]
      /\ \A p \in Object :
           /\ new[p].ptr = obj[p].ptr /\ new[p].val = obj[p].val
           /\ \A g \in Field : new[p].link[g] = IF p = o /\ g = f THEN l ELSE obj[p].link[g]
  BY <1>1, <1>6, Linking
<1> HIDE DEF PTR, PyObject, new
<1> QED BY <1>5, <1>7 DEF l

-----------------------------------------------------------------------------
\* How many references there are.

LEMMA CachedCount ==
  ASSUME NEW object
  PROVE  /\ IsFiniteSet(Cached(object)) /\ Cardinality(Cached(object)) \in Nat
         /\ Cardinality(Cached(object)) <= Cardinality(Object \X Field)
<1>1. Cached(object) \subseteq Object \X Field
  BY DEF Cached
<1> QED BY <1>1, FieldFacts, FS_Subset, FS_CardinalityType

LEMMA NoMoreCached ==
  ASSUME NEW object, NEW now,
         \A o \in Object, f \in Field :
           object[o].link[f].cache = NoFar => now[o].link[f].cache = NoFar
  PROVE  Cardinality(Cached(now)) <= Cardinality(Cached(object))
<1>1. Cached(now) \subseteq Cached(object)
  BY DEF Cached
<1> QED BY <1>1, CachedCount, FS_Subset

LEMMA OneLessCached ==
  ASSUME NEW object, NEW now, NEW o \in Object, NEW f \in Field,
         \A p \in Object, g \in Field :
           object[p].link[g].cache = NoFar => now[p].link[g].cache = NoFar,
         object[o].link[f].cache # NoFar, now[o].link[f].cache = NoFar
  PROVE  Cardinality(Cached(now)) <= Cardinality(Cached(object)) - 1
<1>1. Cached(now) \subseteq Cached(object) \ {<<o, f>>} /\ <<o, f>> \in Cached(object)
  BY DEF Cached
<1>2. /\ IsFiniteSet(Cached(object) \ {<<o, f>>})
      /\ Cardinality(Cached(object) \ {<<o, f>>}) = Cardinality(Cached(object)) - 1
  BY <1>1, CachedCount, FS_RemoveElement
<1>3. Cardinality(Cached(now)) <= Cardinality(Cached(object) \ {<<o, f>>})
  BY <1>1, <1>2, FS_Subset
<1> QED BY <1>2, <1>3

-----------------------------------------------------------------------------
\* What a step does to the memory and the maps.

\* Nothing is allocated and no object gets an address.
LEMMA NothingNew ==
  ASSUME IInv, obj' \in [Object -> PyObject], \A o \in Object : obj'[o].ptr = obj[o].ptr,
         memory' \in [DOMAIN memory -> CStruct], UNCHANGED maps
  PROVE  Registered'
<1>1. DOMAIN memory' = DOMAIN memory /\ objectMap' = objectMap /\ reverseObjectMap' = reverseObjectMap
  BY DEF maps
<1>2. MapsAgree'
  BY <1>1 DEF IInv, Registered, MapsAgree
<1> QED BY <1>1, <1>2 DEF IInv, Registered

\* A put begins.
\* What a put of o that begins on top of `stack` leaves, the objects being
\* `object` otherwise.
Begun(o, deep, stack, object) ==
  /\ Registered' /\ obj' \in [Object -> PyObject] /\ obj'[o].ptr # None
  /\ \A p \in Object :
       /\ obj[p].ptr # None => obj'[p].ptr = obj[p].ptr
       /\ obj'[p].val = object[p].val /\ obj'[p].link = object[p].link
  /\ puts' \in Seq(Activation) /\ Len(stack) \in Nat /\ Len(puts') = Len(stack) + 1
  /\ puts'[Len(stack) + 1] = Put(o, deep)
  /\ \A d \in 1 .. Len(stack) : puts'[d] = stack[d]
  /\ \A a \in DOMAIN memory' :
       memory'[a].val = None =>
         a = obj'[o].ptr \/ (a \in DOMAIN memory /\ memory[a].val = None)

LEMMA Entered ==
  ASSUME IInv, NEW o \in Object, NEW deep, NEW stack \in Seq(Activation),
         NEW object \in [Object -> PyObject], \A p \in Object : object[p].ptr = obj[p].ptr,
         Enter(o, deep, stack, object)
  PROVE  Begun(o, deep, stack, object)
<1> USE DEF Begun
<1>1. puts' = Append(stack, Put(o, deep)) /\ Put(o, deep) \in Activation
  BY ActivationFacts DEF Enter
<1> HIDE DEF Activation, Put
<1>2. /\ puts' \in Seq(Activation) /\ Len(stack) \in Nat /\ Len(puts') = Len(stack) + 1
      /\ puts'[Len(stack) + 1] = Put(o, deep)
      /\ \A d \in 1 .. Len(stack) : puts'[d] = stack[d]
  BY <1>1
<1>3. CASE obj[o].ptr # None
  <2>1. obj' = object /\ memory' = memory /\ UNCHANGED maps
    BY <1>3 DEF Enter
  <2>2. Registered'
    <3>1. memory' \in [DOMAIN memory -> CStruct]
      BY <2>1 DEF IInv, Registered
    <3> QED BY <2>1, <3>1, NothingNew
  <2> QED BY <1>2, <1>3, <2>1, <2>2
<1>4. CASE obj[o].ptr = None
  <2>1. PICK a \in structAlloc :
          /\ obj' = [object EXCEPT ![o].ptr = a]
          /\ memory' = At(memory, a, Garbage)
          /\ objectMap' = At(objectMap, a, o)
          /\ reverseObjectMap' = At(reverseObjectMap, o, a)
    BY <1>4 DEF Enter
  <2>2. a \in Address /\ a \notin DOMAIN memory /\ a # None
    BY <2>1, Places0 DEF structAlloc
  <2>3. /\ obj' \in [Object -> PyObject] /\ obj'[o].ptr = a
        /\ \A p \in Object \ {o} : obj'[p] = object[p]
        /\ obj'[o].val = object[o].val /\ obj'[o].link = object[o].link
    BY <2>1, <2>2 DEF PyObject
  <2>4. Garbage \in CStruct /\ Garbage.val = None
    BY Places0 DEF Garbage, CStruct
  <2> DEFINE M == DOMAIN memory
             A == DOMAIN objectMap
             R == DOMAIN reverseObjectMap
  <2>5. /\ memory \in [M -> CStruct] /\ M \subseteq Address
        /\ objectMap \in [A -> Object] /\ A \subseteq M
        /\ reverseObjectMap \in [R -> Address] /\ R \subseteq Object
        /\ \A p \in Object : obj[p].ptr # None => obj[p].ptr \in M
    BY DEF IInv, Registered
  <2> HIDE DEF CStruct, Garbage, PyObject
  <2>6. /\ memory' \in [M \cup {a} -> CStruct] /\ DOMAIN memory' = M \cup {a}
        /\ memory'[a] = Garbage /\ \A b \in M \ {a} : memory'[b] = memory[b]
    BY <2>1, <2>4, <2>5 DEF At
  <2>7. /\ objectMap' \in [A \cup {a} -> Object] /\ DOMAIN objectMap' = A \cup {a}
        /\ objectMap'[a] = o /\ \A b \in A \ {a} : objectMap'[b] = objectMap[b]
    BY <2>1, <2>5 DEF At
  <2>8. /\ reverseObjectMap' \in [R \cup {o} -> Address] /\ DOMAIN reverseObjectMap' = R \cup {o}
        /\ reverseObjectMap'[o] = a /\ \A p \in R \ {o} : reverseObjectMap'[p] = reverseObjectMap[p]
    BY <2>1, <2>2, <2>5 DEF At
  <2>9. /\ \A b \in A : objectMap[b] \in R /\ obj[objectMap[b]].ptr = b
        /\ \A p \in R : reverseObjectMap[p] = obj[p].ptr /\ obj[p].ptr \in A
    BY DEF IInv, Registered, MapsAgree
  <2>10. o \notin R
    BY <1>4, <2>5, <2>9, Places0
  <2>11. MapsAgree'
    <3>1. \A b \in A \cup {a} : objectMap'[b] \in R \cup {o} /\ obj'[objectMap'[b]].ptr = b
      <4> TAKE b \in A \cup {a}
      <4>1. CASE b = a
        BY <4>1, <2>7, <2>3
      <4>2. CASE b \in A \ {a}
        <5>1. objectMap'[b] = objectMap[b] /\ objectMap[b] \in R /\ obj[objectMap[b]].ptr = b
          BY <4>2, <2>7, <2>9
        <5>2. objectMap[b] \in Object \ {o}
          BY <5>1, <2>5, <2>10
        <5> QED BY <5>1, <5>2, <2>3
      <4> QED BY <4>1, <4>2
    <3>2. \A p \in R \cup {o} : reverseObjectMap'[p] = obj'[p].ptr /\ obj'[p].ptr \in A \cup {a}
      <4> TAKE p \in R \cup {o}
      <4>1. CASE p = o
        BY <4>1, <2>8, <2>3
      <4>2. CASE p \in R \ {o}
        BY <4>2, <2>3, <2>5, <2>8, <2>9
      <4> QED BY <4>1, <4>2
    <3> QED BY <3>1, <3>2, <2>7, <2>8 DEF MapsAgree
  <2>12. Registered'
    <3>1. \A p \in Object : obj'[p].ptr # None => obj'[p].ptr \in M \cup {a}
      BY <2>3, <2>5
    <3> QED BY <2>2, <2>5, <2>6, <2>7, <2>8, <2>11, <3>1 DEF Registered
  <2>13. \A p \in Object :
           /\ obj[p].ptr # None => obj'[p].ptr = obj[p].ptr
           /\ obj'[p].val = object[p].val /\ obj'[p].link = object[p].link
    BY <1>4, <2>3
  <2>14. \A b \in DOMAIN memory' :
           memory'[b].val = None => b = obj'[o].ptr \/ (b \in M /\ memory[b].val = None)
    BY <2>3, <2>6
  <2> QED BY <1>2, <2>2, <2>3, <2>12, <2>13, <2>14
<1> QED BY <1>3, <1>4

-----------------------------------------------------------------------------
\* What a step does to the stack.

\* What is on the stack goes on when no address is taken away and no reference
\* is made.
LEMMA GoesOn ==
  ASSUME NEW object, NEW now, NEW p \in Activation, Going(object, p),
         \A o \in Object : object[o].ptr # None => now[o].ptr # None,
         \A o \in Object, f \in Field :
           object[o].link[f].cache = NoFar => now[o].link[f].cache = NoFar
  PROVE  Going(now, p)
<1>1. p.object \in Object
  BY DEF Activation
<1>2. p.waits # << >> => p.waits[1].far.object \in Object
  <2> SUFFICES ASSUME p.waits # << >> PROVE p.waits[1].far.object \in Object
    OBVIOUS
  <2>1. p.waits \in Seq(Waiting)
    BY DEF Activation
  <2>2. p.waits[1] \in Waiting
    BY <2>1
  <2>3. p.waits[1].far \in Refs \ {NoFar}
    BY <2>2 DEF Waiting
  <2> QED BY <2>3, References
<1> QED BY <1>1, <1>2 DEF Going

\* The innermost put goes on.
LEMMA Replaced ==
  ASSUME IInv, Active, NEW p \in Activation, p.object = Top.object,
         Top.deep = << >> => p.deep = << >>, puts' = Replace(p), Going(obj', p),
         obj' \in [Object -> PyObject], \A o \in Object : obj'[o].ptr = obj[o].ptr,
         \A o \in Object, f \in Field :
           obj[o].link[f].cache = NoFar => obj'[o].link[f].cache = NoFar,
         Linked', UNCHANGED <<memory, maps, raised, meant, ops>>
  PROVE  IInv'
<1> DEFINE n == Len(puts)
<1>1. /\ n \in Nat /\ n >= 1 /\ Top = puts[n]
      /\ puts' \in Seq(Activation) /\ Len(puts') = n /\ puts'[n] = p
      /\ \A d \in 1 .. n - 1 : puts'[d] = puts[d]
  BY ReplaceFacts
<1>2. Types /\ \A d \in 1 .. n : puts[d] \in Activation /\ Going(obj, puts[d])
  <2>1. puts \in Seq(Activation)
    BY DEF IInv, Types
  <2>2. \A d \in 1 .. n : puts[d] \in Activation
    BY <2>1, <1>1, ElementOfSeq
  <2> QED BY <2>2 DEF IInv, AllGoing
<1> HIDE DEF n, Activation, Going, PyObject
<1>3. Types'
  BY <1>1, <1>2 DEF Types
<1>4. Registered'
  <2>1. memory' \in [DOMAIN memory -> CStruct] /\ UNCHANGED maps
    BY DEF IInv, Registered
  <2> QED BY <2>1, NothingNew
<1>5. AllGoing'
  <2>1. \A q \in Activation : Going(obj, q) => Going(obj', q)
    <3> SUFFICES ASSUME NEW q \in Activation, Going(obj, q) PROVE Going(obj', q)
      OBVIOUS
    <3> QED BY GoesOn
  <2>2. \A d \in 1 .. n - 1 : Going(obj', puts'[d])
    BY <1>1, <1>2, <2>1
  <2>3. \A d \in 1 .. n : Going(obj', puts'[d])
    BY <1>1, <2>2
  <2> QED BY <1>1, <2>3 DEF AllGoing
<1>6. Depth'
  <2>1. Cardinality(Cached(obj')) <= Cardinality(Cached(obj))
    BY NoMoreCached
  <2>2. \A d \in 2 .. n : puts'[d].deep = << >>
    <3> TAKE d \in 2 .. n
    <3>1. puts[d].deep = << >>
      BY DEF IInv, Depth, n
    <3> QED BY <3>1, <1>1
  <2> QED BY <1>1, <2>1, <2>2, CachedCount, FieldFacts DEF IInv, Depth, n
<1>7. Unwritten'
  <2>1. \A d \in 1 .. n : puts'[d].object = puts[d].object
    BY <1>1
  <2>2. \A d \in 1 .. n : puts[d].object \in Object
    BY <1>2 DEF Activation
  <2>3. Unwritten
    BY DEF IInv
  <2> QED BY <1>1, <2>1, <2>2, <2>3 DEF Unwritten, n
<1> QED BY <1>3, <1>4, <1>5, <1>6, <1>7 DEF IInv

LEMMA HeadOrTail ==
  ASSUME NEW S, NEW s \in Seq(S), s # << >>
  PROVE  /\ Head(s) \in S /\ Tail(s) \in Seq(S)
         /\ Range(s) \subseteq {Head(s)} \cup Range(Tail(s))
<1>1. /\ Head(s) \in S /\ Tail(s) \in Seq(S) /\ Len(s) \in Nat /\ Len(s) >= 1
      /\ Len(Tail(s)) = Len(s) - 1 /\ Head(s) = s[1]
      /\ \A i \in 1 .. Len(s) - 1 : Tail(s)[i] = s[i + 1]
  BY HeadTailProperties
<1>2. DOMAIN s = 1 .. Len(s) /\ DOMAIN Tail(s) = 1 .. Len(s) - 1
  BY <1>1
<1>3. \A i \in DOMAIN s : s[i] = Head(s) \/ \E j \in DOMAIN Tail(s) : s[i] = Tail(s)[j]
  <2> SUFFICES ASSUME NEW i \in 1 .. Len(s), i # 1
               PROVE  \E j \in DOMAIN Tail(s) : s[i] = Tail(s)[j]
    BY <1>1, <1>2
  <2>1. i - 1 \in 1 .. Len(s) - 1 /\ (i - 1) + 1 = i
    BY <1>1
  <2>2. Tail(s)[i - 1] = s[i] /\ i - 1 \in DOMAIN Tail(s)
    BY <2>1, <1>1, <1>2
  <2> QED BY <2>2
<1> QED BY <1>1, <1>3 DEF Range

\* What the user meant stays in the references and pointers, but where a
\* reference is resolved or handed to a put that waits.
LEMMA StaysLinked ==
  ASSUME Types, Linked, raised' = raised, meant' = meant,
         \A o \in Object : obj[o].ptr # None => obj'[o].ptr = obj[o].ptr,
         ~ raised =>
           /\ \A o \in Object, f \in Field :
                \/ obj'[o].link[f] = obj[o].link[f] /\ (Awaited(o, f) => Awaited(o, f)')
                \/ /\ obj'[o].link[f].cache = NoFar
                   /\ Resolved(o, f)' \/ Awaited(o, f)'
           /\ \A d \in 1 .. Len(puts') :
                puts'[d].waits # << >> =>
                  puts'[d].waits[1].far = meant[puts'[d].object][puts'[d].waits[1].field]
  PROVE  Linked'
<1> SUFFICES ASSUME ~ raised
             PROVE  \A o \in Object, f \in Field :
                      /\ obj'[o].link[f].cache \in {NoFar, meant[o][f]}
                      /\ \/ meant[o][f] = NoFar \/ obj'[o].link[f].cache # NoFar
                         \/ Resolved(o, f)' \/ Awaited(o, f)'
  BY DEF Linked
<1> TAKE o \in Object, f \in Field
<1>1. /\ obj[o].link[f].cache \in {NoFar, meant[o][f]}
      /\ \/ meant[o][f] = NoFar \/ obj[o].link[f].cache # NoFar
         \/ Resolved(o, f) \/ Awaited(o, f)
  BY DEF Linked
<1>2. meant[o][f] \in Refs
  BY DEF Types
<1>3. ASSUME meant[o][f] # NoFar, Resolved(o, f), obj'[o].link[f] = obj[o].link[f]
      PROVE  Resolved(o, f)'
  <2>1. meant[o][f].object \in Object
    BY <1>2, <1>3, References
  <2> QED BY <1>3, <2>1 DEF Resolved
<1>4. CASE obj'[o].link[f] = obj[o].link[f] /\ (Awaited(o, f) => Awaited(o, f)')
  BY <1>1, <1>3, <1>4
<1>5. CASE obj'[o].link[f].cache = NoFar /\ (Resolved(o, f)' \/ Awaited(o, f)')
  BY <1>5
<1> QED BY <1>4, <1>5

\* Another put is called.
LEMMA Called ==
  ASSUME IInv, Active, NEW p \in Activation, p.object = Top.object,
         Top.deep = << >> => p.deep = << >>, Going(obj, p) \/ Going(obj', p),
         NEW o \in Object, NEW object \in [Object -> PyObject],
         \A q \in Object : object[q].ptr = obj[q].ptr,
         \A q \in Object, f \in Field :
           obj[q].link[f].cache = NoFar => object[q].link[f].cache = NoFar,
         Cardinality(Cached(object)) + Len(puts) <= 1 + Cardinality(Object \X Field),
         Enter(o, FALSE, Replace(p), object), Linked', UNCHANGED <<raised, meant, ops>>
  PROVE  IInv'
<1> DEFINE n == Len(puts)
<1>1. /\ n \in Nat /\ n >= 1 /\ Top = puts[n]
      /\ Replace(p) \in Seq(Activation) /\ Len(Replace(p)) = n /\ Replace(p)[n] = p
      /\ \A d \in 1 .. n - 1 : Replace(p)[d] = puts[d]
  BY ReplaceFacts
<1>2. Types /\ \A d \in 1 .. n : puts[d] \in Activation /\ Going(obj, puts[d])
  <2>1. puts \in Seq(Activation)
    BY DEF IInv, Types
  <2>2. \A d \in 1 .. n : puts[d] \in Activation
    BY <2>1, <1>1, ElementOfSeq
  <2> QED BY <2>2 DEF IInv, AllGoing
<1> DEFINE new == Put(o, FALSE)
<1>3. new \in Activation /\ new.object = o /\ new.waits = << >> /\ Range(new.todo) = Field
      /\ new.deep = << >>
  BY ActivationFacts
<1>4. /\ Registered' /\ obj' \in [Object -> PyObject] /\ obj'[o].ptr # None
      /\ \A q \in Object :
           /\ obj[q].ptr # None => obj'[q].ptr = obj[q].ptr
           /\ obj'[q].link = object[q].link
      /\ puts' \in Seq(Activation) /\ Len(puts') = n + 1 /\ puts'[n + 1] = new
      /\ \A d \in 1 .. n : puts'[d] = Replace(p)[d]
      /\ \A a \in DOMAIN memory' :
           memory'[a].val = None =>
             a = obj'[o].ptr \/ (a \in DOMAIN memory /\ memory[a].val = None)
  <2> DEFINE stack == Replace(p)
  <2>1. stack \in Seq(Activation) /\ Len(stack) = n
    BY <1>1
  <2> HIDE DEF n, stack, Activation, PyObject
  <2>2. Enter(o, FALSE, stack, object)
    BY DEF stack
  <2> HIDE DEF Enter, Put
  <2>3. /\ Registered' /\ obj' \in [Object -> PyObject] /\ obj'[o].ptr # None
        /\ \A q \in Object :
             /\ obj[q].ptr # None => obj'[q].ptr = obj[q].ptr
             /\ obj'[q].val = object[q].val /\ obj'[q].link = object[q].link
        /\ puts' \in Seq(Activation) /\ Len(stack) \in Nat /\ Len(puts') = Len(stack) + 1
        /\ puts'[Len(stack) + 1] = Put(o, FALSE)
        /\ \A d \in 1 .. Len(stack) : puts'[d] = stack[d]
        /\ \A a \in DOMAIN memory' :
             memory'[a].val = None =>
               a = obj'[o].ptr \/ (a \in DOMAIN memory /\ memory[a].val = None)
    BY <2>1, <2>2, Entered DEF Begun
  <2> QED BY <2>1, <2>3 DEF stack
<1> HIDE DEF n, new, Activation, Going, PyObject, Enter, Replace
<1>5. puts'[n] = p /\ \A d \in 1 .. n - 1 : puts'[d] = puts[d]
  BY <1>1, <1>4
<1>6. Types'
  BY <1>2, <1>4 DEF Types
<1>7. AllGoing'
  <2>1. \A q \in Activation : Going(obj, q) => Going(obj', q)
    <3> SUFFICES ASSUME NEW q \in Activation, Going(obj, q) PROVE Going(obj', q)
      OBVIOUS
    <3>1. \A x \in Object, f \in Field :
            obj[x].link[f].cache = NoFar => obj'[x].link[f].cache = NoFar
      BY <1>4
    <3> QED BY <1>4, <3>1, GoesOn
  <2>2. \A d \in 1 .. n - 1 : Going(obj', puts'[d])
    BY <1>1, <1>2, <1>5, <2>1
  <2>3. Going(obj', puts'[n])
    BY <1>5, <2>1
  <2>4. Going(obj', puts'[n + 1])
    BY <1>3, <1>4 DEF Going
  <2>5. \A d \in 1 .. n + 1 : Going(obj', puts'[d])
    BY <1>1, <2>2, <2>3, <2>4
  <2> QED BY <1>4, <2>5 DEF AllGoing
<1>8. Depth'
  <2>1. Cardinality(Cached(obj')) <= Cardinality(Cached(object))
    <3>1. \A x \in Object, f \in Field :
            object[x].link[f].cache = NoFar => obj'[x].link[f].cache = NoFar
      BY <1>4
    <3> QED BY <3>1, NoMoreCached
  <2>2. \A d \in 2 .. n + 1 : puts'[d].deep = << >>
    <3>1. \A d \in 2 .. n : puts[d].deep = << >>
      BY DEF IInv, Depth, n
    <3> QED BY <1>1, <1>3, <1>4, <1>5, <3>1
  <2> QED BY <1>1, <1>4, <2>1, <2>2, CachedCount, FieldFacts DEF Depth, n
<1>9. Unwritten'
  <2>1. \A d \in 1 .. n : puts'[d].object = puts[d].object
    BY <1>1, <1>5
  <2>2. \A d \in 1 .. n : puts[d].object \in Object /\ obj[puts[d].object].ptr # None
    BY <1>2 DEF Activation, Going
  <2>3. \A d \in 1 .. n : obj'[puts'[d].object].ptr = obj[puts[d].object].ptr
    BY <1>4, <2>1, <2>2
  <2>4. obj'[puts'[n + 1].object].ptr = obj'[o].ptr
    BY <1>3, <1>4
  <2> SUFFICES ASSUME ~ raised, NEW a \in DOMAIN memory', memory'[a].val = None
               PROVE  \E d \in 1 .. n + 1 : obj'[puts'[d].object].ptr = a
    BY <1>4 DEF Unwritten
  <2>5. CASE a = obj'[o].ptr
    BY <1>1, <2>4, <2>5
  <2>6. CASE a \in DOMAIN memory /\ memory[a].val = None
    <3>1. PICK d \in 1 .. n : obj[puts[d].object].ptr = a
      BY <2>6 DEF IInv, Unwritten, n
    <3>2. d \in 1 .. n + 1 /\ obj'[puts'[d].object].ptr = a
      BY <1>1, <2>3, <3>1
    <3> QED BY <3>2
  <2> QED BY <1>4, <2>5, <2>6
<1> QED BY <1>4, <1>6, <1>7, <1>8, <1>9 DEF IInv

-----------------------------------------------------------------------------
\* The steps of put().

LEMMA TopFacts ==
  ASSUME IInv, Active
  PROVE  /\ Top \in Activation /\ Going(obj, Top) /\ Top.object \in Object
         /\ obj[Top.object].ptr \in DOMAIN memory
         /\ Len(puts) \in Nat /\ Len(puts) >= 1 /\ Top = puts[Len(puts)]
<1>1. Top \in Activation /\ Len(puts) \in Nat /\ Len(puts) >= 1 /\ Top = puts[Len(puts)]
  <2>1. puts \in Seq(Activation) /\ puts # << >>
    BY DEF IInv, Types, Active
  <2>2. Len(puts) \in Nat /\ Len(puts) >= 1 /\ puts[Len(puts)] \in Activation
    BY <2>1
  <2> QED BY <2>2 DEF Top
<1>2. Going(obj, Top) /\ Top.object \in Object
  BY <1>1 DEF IInv, AllGoing, Activation
<1> QED BY <1>1, <1>2 DEF Going, IInv, Registered

\* A put waits for another put of the same field only.
LEMMA AwaitedKept ==
  ASSUME IInv, Active, NEW p \in Activation, p.object = Top.object,
         Len(puts') >= Len(puts), puts'[Len(puts)] = p, Len(puts') \in Nat,
         \A d \in 1 .. Len(puts) - 1 : puts'[d] = puts[d],
         NEW o \in Object, NEW f \in Field,
         \/ Top.waits = << >> \/ p.waits = Top.waits
         \/ o # Top.object \/ f # Top.waits[1].field
  PROVE  Awaited(o, f) => Awaited(o, f)'
<1> SUFFICES ASSUME Awaited(o, f) PROVE Awaited(o, f)'
  OBVIOUS
<1>1. PICK d \in 1 .. Len(puts) :
        puts[d].object = o /\ puts[d].waits # << >> /\ puts[d].waits[1].field = f
  BY DEF Awaited
<1>2. d \in 1 .. Len(puts')
  BY TopFacts
<1>3. puts'[d].object = o /\ puts'[d].waits # << >> /\ puts'[d].waits[1].field = f
  <2>1. CASE d = Len(puts)
    BY <1>1, <2>1, TopFacts
  <2>2. CASE d \in 1 .. Len(puts) - 1
    BY <1>1, <2>2
  <2> QED BY <2>1, <2>2, TopFacts
<1> QED BY <1>2, <1>3 DEF Awaited

LEMMA FarKept ==
  ASSUME IInv, ~ raised, meant' = meant, Active,
         \A d \in 1 .. Len(puts) - 1 : puts'[d] = puts[d],
         puts'[Len(puts)].waits # << >> =>
           puts'[Len(puts)].waits[1].far
             = meant[puts'[Len(puts)].object][puts'[Len(puts)].waits[1].field],
         \A d \in 1 .. Len(puts') : d > Len(puts) => puts'[d].waits = << >>
  PROVE  \A d \in 1 .. Len(puts') :
           puts'[d].waits # << >> =>
             puts'[d].waits[1].far = meant[puts'[d].object][puts'[d].waits[1].field]
<1> SUFFICES ASSUME NEW d \in 1 .. Len(puts'), puts'[d].waits # << >>
             PROVE  puts'[d].waits[1].far = meant[puts'[d].object][puts'[d].waits[1].field]
  OBVIOUS
<1>1. d <= Len(puts)
  BY TopFacts
<1>2. CASE d = Len(puts)
  BY <1>2
<1>3. CASE d \in 1 .. Len(puts) - 1
  <2>1. puts'[d] = puts[d] /\ d \in 1 .. Len(puts)
    BY <1>3, TopFacts
  <2> QED BY <2>1 DEF IInv, Linked
<1> QED BY <1>1, <1>2, <1>3, TopFacts

\* The put steps that only replace the top and touch at most one field of its
\* object.
LEMMA PutReturnedStep == IInv /\ PutReturned => IInv'
<1> SUFFICES ASSUME IInv, PutReturned PROVE IInv'
  OBVIOUS
<1> DEFINE w == Top.waits[1]
           o == Top.object
           p == [Top EXCEPT !.waits = << >>]
<1>1. /\ Active /\ Top.waits # << >> /\ obj' = Settle(o, w.field, w.far, obj)
      /\ puts' = Replace(p) /\ UNCHANGED <<memory, maps, raised, meant, ops>>
  BY DEF PutReturned
<1>2. Top \in Activation /\ Going(obj, Top) /\ o \in Object /\ Len(puts) \in Nat
      /\ Len(puts) >= 1 /\ Top = puts[Len(puts)]
  BY <1>1, TopFacts
<1>3. w \in Waiting /\ w.field \in Field /\ w.far \in Refs \ {NoFar}
  <2>1. Top.waits \in Seq(Waiting)
    BY <1>2 DEF Activation
  <2>2. w \in Waiting
    BY <1>1, <2>1
  <2> QED BY <2>2 DEF Waiting
<1>4. /\ p \in Activation /\ p.object = o /\ p.waits = << >> /\ p.deep = Top.deep
      /\ p.todo = Top.todo
  <2>1. << >> \in Seq(Waiting)
    BY EmptySeq
  <2> QED BY <1>2, <2>1 DEF Activation
<1>5. obj[w.far.object].ptr # None /\ w.far.object \in Object
  BY <1>1, <1>2, <1>3, References DEF Going
<1> HIDE DEF Activation
<1>6. /\ Len(puts') = Len(puts) /\ puts'[Len(puts)] = p
      /\ \A d \in 1 .. Len(puts) - 1 : puts'[d] = puts[d]
  BY <1>1, <1>4, ReplaceFacts
<1> HIDE DEF w, o, p, Replace, Settle
<1>7. /\ obj' \in [Object -> PyObject]
      /\ \A q \in Object :
           /\ obj'[q].ptr = obj[q].ptr /\ obj'[q].val = obj[q].val
           /\ \A g \in Field :
                obj'[q].link[g] = IF q = o /\ g = w.field
                                  THEN PTR(obj[w.far.object].ptr + w.far.offset, NoFar)
                                  ELSE obj[q].link[g]
  BY <1>1, <1>2, <1>3, <1>5, Settling
<1>8. \A q \in Object, g \in Field :
        obj[q].link[g].cache = NoFar => obj'[q].link[g].cache = NoFar
  BY <1>7 DEF PTR
<1>9. Going(obj', p)
  <2>1. Going(obj, p)
    BY <1>2, <1>4 DEF Going, o
  <2> QED BY <2>1, <1>4, <1>7, <1>8, GoesOn
<1>10. Linked'
  <2>1. ASSUME ~ raised, NEW q \in Object, NEW g \in Field
        PROVE  \/ obj'[q].link[g] = obj[q].link[g] /\ (Awaited(q, g) => Awaited(q, g)')
               \/ /\ obj'[q].link[g].cache = NoFar
                  /\ Resolved(q, g)' \/ Awaited(q, g)'
    <3>1. CASE q = o /\ g = w.field
      <4>1. obj'[q].link[g] = PTR(obj[w.far.object].ptr + w.far.offset, NoFar)
        BY <1>7, <3>1
      <4>2. w.far = meant[q][g]
        BY <1>1, <1>2, <2>1, <3>1 DEF IInv, Linked, w, o
      <4>3. Resolved(q, g)'
        BY <1>1, <1>5, <1>7, <4>1, <4>2 DEF Resolved, PTR
      <4> QED BY <4>1, <4>3 DEF PTR
    <3>2. CASE q # o \/ g # w.field
      <4>1. obj'[q].link[g] = obj[q].link[g]
        BY <1>7, <3>2
      <4>2. Awaited(q, g) => Awaited(q, g)'
        BY <1>1, <1>2, <1>4, <1>6, <3>2, AwaitedKept DEF w, o
      <4> QED BY <4>1, <4>2
    <3> QED BY <3>1, <3>2
  <2>2. ~ raised => \A d \in 1 .. Len(puts') :
          puts'[d].waits # << >> =>
            puts'[d].waits[1].far = meant[puts'[d].object][puts'[d].waits[1].field]
    BY <1>1, <1>2, <1>4, <1>6, FarKept
  <2> QED BY <1>1, <1>7, <2>1, <2>2, StaysLinked DEF IInv
<1> QED BY <1>1, <1>4, <1>7, <1>8, <1>9, <1>10, Replaced DEF o

\* A put passes a field without a reference, with one to an object that is
\* known, or with one to an object that is put first.
LEMMA PutCacheStep == IInv /\ PutCache => IInv'
<1> SUFFICES ASSUME IInv, PutCache PROVE IInv'
  OBVIOUS
<1> DEFINE o == Top.object
           f == Head(Top.todo)
           far == obj[o].link[f].cache
           p == [Top EXCEPT !.todo = Tail(Top.todo)]
           waits == << [field |-> f, far |-> far] >>
           q == [p EXCEPT !.waits = waits]
<1>1. /\ Active /\ Top.todo # << >> /\ Top.waits = << >> /\ UNCHANGED <<raised, meant, ops>>
      /\ \/ /\ far = NoFar
            /\ puts' = Replace(p)
            /\ UNCHANGED <<obj, memory, maps>>
         \/ /\ far # NoFar /\ far.object \in DOMAIN reverseObjectMap
            /\ puts' = Replace(p)
            /\ obj' = Settle(o, f, far, obj)
            /\ UNCHANGED <<memory, maps>>
         \/ /\ far # NoFar /\ far.object \notin DOMAIN reverseObjectMap
            /\ Enter(far.object, FALSE, Replace(q), Drop(o, f))
  BY DEF PutCache
<1>2. Top \in Activation /\ Going(obj, Top) /\ o \in Object /\ Len(puts) \in Nat
      /\ Len(puts) >= 1 /\ Top = puts[Len(puts)]
  BY <1>1, TopFacts
<1>3. Types /\ obj \in [Object -> PyObject]
  BY DEF IInv, Types
<1>4. f \in Field /\ Tail(Top.todo) \in Seq(Field)
      /\ Range(Top.todo) \subseteq {f} \cup Range(Tail(Top.todo))
  <2>1. Top.todo \in Seq(Field)
    BY <1>2 DEF Activation
  <2> QED BY <1>1, <2>1, HeadOrTail
<1>5. far \in Refs
  BY <1>2, <1>3, <1>4 DEF PyObject, Link
<1>6. /\ p \in Activation /\ p.object = o /\ p.waits = << >> /\ p.deep = Top.deep
      /\ p.todo = Tail(Top.todo)
  BY <1>1, <1>2, <1>4 DEF Activation
<1>7. far # NoFar => /\ q \in Activation /\ q.object = o /\ q.waits = waits /\ q.deep = Top.deep
                     /\ q.todo = Tail(Top.todo) /\ waits # << >> /\ waits[1].far = far
                     /\ waits[1].field = f
  <2> SUFFICES ASSUME far # NoFar
               PROVE  /\ q \in Activation /\ q.object = o /\ q.waits = waits /\ q.deep = Top.deep
                      /\ q.todo = Tail(Top.todo) /\ waits # << >> /\ waits[1].far = far
                      /\ waits[1].field = f
    OBVIOUS
  <2> HIDE DEF far, f
  <2>1. [field |-> f, far |-> far] \in Waiting
    BY <1>4, <1>5 DEF Waiting
  <2>2. /\ waits \in Seq(Waiting) /\ waits # << >>
        /\ waits[1].far = far /\ waits[1].field = f
    BY <2>1
  <2> HIDE DEF waits
  <2> QED BY <1>1, <1>2, <1>6, <2>2 DEF Activation
<1>8. \A g \in Field \ Range(Tail(Top.todo)) : g # f => obj[o].link[g].cache = NoFar
  BY <1>2, <1>4 DEF Going
<1>9. ~ raised => far \in {NoFar, meant[o][f]}
  BY <1>2, <1>4 DEF IInv, Linked
<1> HIDE DEF Activation, PyObject
<1>10. /\ Len(Replace(p)) = Len(puts) /\ Replace(p)[Len(puts)] = p
       /\ \A d \in 1 .. Len(puts) - 1 : Replace(p)[d] = puts[d]
  BY <1>1, <1>6, ReplaceFacts
<1>11. CASE far = NoFar
  <2>1. puts' = Replace(p) /\ UNCHANGED <<obj, memory, maps, raised, meant, ops>>
    BY <1>1, <1>11
  <2>2. Going(obj', p)
    BY <1>2, <1>6, <1>8, <1>11, <2>1 DEF Going
  <2> HIDE DEF o, f, far, p, waits, q, Replace
  <2>3. Linked'
    <3>1. \A x \in Object, g \in Field : Awaited(x, g) => Awaited(x, g)'
      BY <1>1, <1>2, <1>6, <1>10, <2>1, AwaitedKept DEF o
    <3>2. ~ raised => \A d \in 1 .. Len(puts') :
            puts'[d].waits # << >> =>
              puts'[d].waits[1].far = meant[puts'[d].object][puts'[d].waits[1].field]
      BY <1>1, <1>2, <1>6, <1>10, <2>1, FarKept
    <3> QED BY <1>3, <2>1, <3>1, <3>2, StaysLinked DEF IInv
  <2> QED BY <1>1, <1>3, <1>6, <2>1, <2>2, <2>3, Replaced DEF o
<1>12. CASE far # NoFar /\ far.object \in DOMAIN reverseObjectMap
  <2>1. puts' = Replace(p) /\ obj' = Settle(o, f, far, obj)
        /\ UNCHANGED <<memory, maps, raised, meant, ops>>
    BY <1>1, <1>12
  <2>2. far.object \in Object /\ obj[far.object].ptr # None
    BY <1>12, Places0 DEF IInv, Registered, MapsAgree
  <2> HIDE DEF o, f, far, p, waits, q, Replace, Settle
  <2>3. /\ obj' \in [Object -> PyObject]
        /\ \A x \in Object :
             /\ obj'[x].ptr = obj[x].ptr /\ obj'[x].val = obj[x].val
             /\ \A g \in Field :
                  obj'[x].link[g] = IF x = o /\ g = f
                                    THEN PTR(obj[far.object].ptr + far.offset, NoFar)
                                    ELSE obj[x].link[g]
    BY <1>2, <1>4, <1>5, <1>12, <2>1, <2>2, Settling
  <2>4. \A x \in Object, g \in Field :
          obj[x].link[g].cache = NoFar => obj'[x].link[g].cache = NoFar
    BY <2>3 DEF PTR
  <2>5. Going(obj', p)
    <3>1. \A g \in Field \ Range(p.todo) : obj'[o].link[g].cache = NoFar
      BY <1>2, <1>6, <1>8, <2>3 DEF PTR
    <3>2. obj'[o].ptr # None
      BY <1>2, <2>3 DEF Going, o
    <3> QED BY <1>6, <3>1, <3>2 DEF Going
  <2>6. Linked'
    <3>1. \A x \in Object, g \in Field : Awaited(x, g) => Awaited(x, g)'
      BY <1>1, <1>2, <1>6, <1>10, <2>1, AwaitedKept DEF o
    <3>2. ~ raised => \A d \in 1 .. Len(puts') :
            puts'[d].waits # << >> =>
              puts'[d].waits[1].far = meant[puts'[d].object][puts'[d].waits[1].field]
      BY <1>1, <1>2, <1>6, <1>10, <2>1, FarKept
    <3>3. ASSUME ~ raised, NEW x \in Object, NEW g \in Field
          PROVE  \/ obj'[x].link[g] = obj[x].link[g]
                 \/ obj'[x].link[g].cache = NoFar /\ Resolved(x, g)'
      <4>1. CASE x = o /\ g = f
        <5>1. obj'[x].link[g] = PTR(obj[far.object].ptr + far.offset, NoFar)
          BY <2>3, <4>1
        <5>2. far = meant'[x][g]
          BY <1>9, <1>12, <2>1, <3>3, <4>1
        <5> QED BY <5>1, <5>2, <2>2, <2>3 DEF Resolved, PTR
      <4>2. CASE x # o \/ g # f
        BY <2>3, <4>2
      <4> QED BY <4>1, <4>2
    <3> QED BY <1>3, <2>1, <2>3, <3>1, <3>2, <3>3, StaysLinked DEF IInv
  <2> QED BY <1>1, <1>6, <2>1, <2>3, <2>4, <2>5, <2>6, Replaced DEF o
<1>13. CASE far # NoFar /\ far.object \notin DOMAIN reverseObjectMap
  <2>1. Enter(far.object, FALSE, Replace(q), Drop(o, f)) /\ UNCHANGED <<raised, meant, ops>>
    BY <1>1, <1>13
  <2>2. far.object \in Object
    BY <1>5, <1>13, References
  <2>3. /\ Replace(q) \in Seq(Activation) /\ Len(Replace(q)) = Len(puts) /\ Replace(q)[Len(puts)] = q
        /\ \A d \in 1 .. Len(puts) - 1 : Replace(q)[d] = puts[d]
    <3> HIDE DEF q, Replace
    <3> QED BY <1>1, <1>7, <1>13, ReplaceFacts
  <2> DEFINE object == Drop(o, f)
             stack == Replace(q)
  <2>4. /\ object \in [Object -> PyObject]
        /\ \A x \in Object :
             /\ object[x].ptr = obj[x].ptr /\ object[x].val = obj[x].val
             /\ \A g \in Field :
                  /\ object[x].link[g].ptr = obj[x].link[g].ptr
                  /\ object[x].link[g].cache
                       = IF x = o /\ g = f THEN NoFar ELSE obj[x].link[g].cache
    <3> HIDE DEF o, f, Drop
    <3> QED BY <1>2, <1>4, Dropping
  <2>5. Enter(far.object, FALSE, stack, object) /\ stack \in Seq(Activation) /\ Len(stack) = Len(puts)
    BY <2>1, <2>3
  <2>6. far = obj[o].link[f].cache
    OBVIOUS
  <2> HIDE DEF o, f, far, p, waits, q, Replace, Drop, Enter, object, stack
  <2>7. /\ obj' \in [Object -> PyObject] /\ obj'[far.object].ptr # None
        /\ \A x \in Object :
             /\ obj[x].ptr # None => obj'[x].ptr = obj[x].ptr
             /\ obj'[x].val = object[x].val /\ obj'[x].link = object[x].link
        /\ puts' \in Seq(Activation) /\ Len(puts') = Len(stack) + 1
        /\ puts'[Len(stack) + 1] = Put(far.object, FALSE)
        /\ \A d \in 1 .. Len(stack) : puts'[d] = stack[d]
    <3> DEFINE t == far.object
               deep == FALSE
    <3>1. /\ t \in Object /\ stack \in Seq(Activation) /\ object \in [Object -> PyObject]
          /\ \A x \in Object : object[x].ptr = obj[x].ptr
          /\ Enter(t, deep, stack, object)
      BY <2>2, <2>4, <2>5
    <3> HIDE DEF t, deep
    <3>2. /\ obj' \in [Object -> PyObject] /\ obj'[t].ptr # None
          /\ \A x \in Object :
               /\ obj[x].ptr # None => obj'[x].ptr = obj[x].ptr
               /\ obj'[x].val = object[x].val /\ obj'[x].link = object[x].link
          /\ puts' \in Seq(Activation) /\ Len(puts') = Len(stack) + 1
          /\ puts'[Len(stack) + 1] = Put(t, deep)
          /\ \A d \in 1 .. Len(stack) : puts'[d] = stack[d]
      <4>1. Begun(t, deep, stack, object)
        BY <3>1, Entered
      <4> QED BY <4>1 DEF Begun
    <3> QED BY <3>2 DEF t, deep
  <2>8. puts'[Len(puts)] = q /\ \A d \in 1 .. Len(puts) - 1 : puts'[d] = puts[d]
    BY <1>2, <2>3, <2>5, <2>7 DEF stack
  <2>9. Going(obj', q)
    <3>1. obj'[o].ptr # None
      BY <1>2, <2>7 DEF Going, o
    <3>2. \A g \in Field \ Range(q.todo) : obj'[o].link[g].cache = NoFar
      BY <1>2, <1>7, <1>8, <1>13, <2>4, <2>7
    <3> QED BY <1>7, <1>13, <2>7, <3>1, <3>2 DEF Going
  <2>10. Linked'
    <3>1. ASSUME ~ raised, NEW x \in Object, NEW g \in Field
          PROVE  \/ obj'[x].link[g] = obj[x].link[g] /\ (Awaited(x, g) => Awaited(x, g)')
                 \/ /\ obj'[x].link[g].cache = NoFar
                    /\ Resolved(x, g)' \/ Awaited(x, g)'
      <4>1. CASE x = o /\ g = f
        <5>1. obj'[x].link[g].cache = NoFar
          BY <2>4, <2>7, <4>1
        <5>2. Awaited(x, g)'
          BY <1>2, <1>7, <1>13, <2>5, <2>7, <2>8, <4>1 DEF Awaited
        <5> QED BY <5>1, <5>2
      <4>2. CASE x # o \/ g # f
        <5>1. obj[x].link[g] \in Link /\ object[x].link[g] \in Link
          BY <1>3, <2>4 DEF PyObject
        <5>2. object[x].link[g].ptr = obj[x].link[g].ptr
              /\ object[x].link[g].cache = obj[x].link[g].cache
          BY <2>4, <4>2
        <5>3. object[x].link[g] = obj[x].link[g]
          BY <5>1, <5>2 DEF Link
        <5>4. Awaited(x, g) => Awaited(x, g)'
          BY <1>1, <1>2, <1>7, <1>13, <2>5, <2>7, <2>8, AwaitedKept DEF o
        <5> QED BY <2>7, <5>3, <5>4
      <4> QED BY <4>1, <4>2
    <3>2. ~ raised => \A d \in 1 .. Len(puts') :
            puts'[d].waits # << >> =>
              puts'[d].waits[1].far = meant[puts'[d].object][puts'[d].waits[1].field]
      <4>1. \A d \in 1 .. Len(puts') : d > Len(puts) => puts'[d].waits = << >>
        <5> DEFINE new == Put(far.object, FALSE)
        <5>1. new.waits = << >> /\ puts'[Len(puts) + 1] = new
          BY <2>2, <2>5, <2>7, ActivationFacts
        <5> HIDE DEF new
        <5>2. Len(puts') = Len(puts) + 1
          BY <2>5, <2>7
        <5> QED BY <1>2, <5>1, <5>2
      <4>2. ~ raised => q.waits[1].far = meant[q.object][q.waits[1].field]
        BY <1>7, <1>9, <1>13
      <4> QED BY <1>1, <2>1, <2>8, <4>1, <4>2, FarKept
    <3> QED BY <1>3, <2>1, <2>7, <3>1, <3>2, StaysLinked DEF IInv
  <2>11. Cardinality(Cached(object)) + Len(puts) <= 1 + Cardinality(Object \X Field)
    <3>1. Cardinality(Cached(object)) <= Cardinality(Cached(obj)) - 1
      <4>1. obj[o].link[f].cache # NoFar /\ object[o].link[f].cache = NoFar
        BY <1>2, <1>4, <1>13, <2>4, <2>6
      <4>2. \A x \in Object, g \in Field :
              obj[x].link[g].cache = NoFar => object[x].link[g].cache = NoFar
        BY <2>4
      <4> QED BY <1>2, <1>4, <4>1, <4>2, OneLessCached
    <3> QED BY <1>2, <3>1, CachedCount, FieldFacts DEF IInv, Depth
  <2>12. \A x \in Object, g \in Field :
           obj[x].link[g].cache = NoFar => object[x].link[g].cache = NoFar
    BY <2>4
  <2>13. q \in Activation /\ q.object = Top.object /\ (Top.deep = << >> => q.deep = << >>)
    BY <1>7, <1>13 DEF o
  <2>14. Enter(far.object, FALSE, Replace(q), object)
    BY <2>5 DEF stack
  <2> QED BY <1>1, <2>1, <2>2, <2>4, <2>9, <2>10, <2>11, <2>12, <2>13, <2>14, Called
<1> HIDE DEF o, f, far, p, waits, q, Replace, Settle, Drop, Enter
<1> QED BY <1>11, <1>12, <1>13

\* Only the outermost put is deep, and no put has dropped a reference for it.
LEMMA PutDeepStep == IInv /\ PutDeep => IInv'
<1> SUFFICES ASSUME IInv, PutDeep PROVE IInv'
  OBVIOUS
<1> DEFINE o == Top.object
           a == obj[o].link[Head(Top.deep)].ptr
           p == [Top EXCEPT !.deep = Tail(Top.deep)]
           q == [p EXCEPT !.uploaded = @ \cup {a}]
           known == DOMAIN objectMap \ ({obj[o].ptr} \cup Top.uploaded)
<1>1. /\ Active /\ Top.todo = << >> /\ Top.waits = << >> /\ Top.deep # << >>
      /\ UNCHANGED <<raised, meant, ops>>
      /\ \/ a \in known /\ Enter(objectMap[a], FALSE, Replace(q), obj)
         \/ a \notin known /\ puts' = Replace(p) /\ UNCHANGED <<obj, memory, maps>>
  BY DEF PutDeep
<1>2. Top \in Activation /\ Going(obj, Top) /\ o \in Object /\ Len(puts) \in Nat
      /\ Len(puts) >= 1 /\ Top = puts[Len(puts)]
  BY <1>1, TopFacts
<1>3. Types /\ obj \in [Object -> PyObject]
  BY DEF IInv, Types
<1>4. Tail(Top.deep) \in Seq(Field)
  <2>1. Top.deep \in Seq(Field)
    BY <1>2 DEF Activation
  <2> QED BY <1>1, <2>1, HeadOrTail
<1>5. /\ p \in Activation /\ p.object = o /\ p.waits = << >> /\ p.todo = Top.todo
      /\ p.uploaded = Top.uploaded
  BY <1>1, <1>2, <1>4 DEF Activation
<1>6. a \in known => q \in Activation /\ q.object = o /\ q.waits = << >> /\ q.todo = Top.todo
  <2> SUFFICES ASSUME a \in known
               PROVE  q \in Activation /\ q.object = o /\ q.waits = << >> /\ q.todo = Top.todo
    OBVIOUS
  <2>1. a \in Address
    BY DEF IInv, Registered
  <2> HIDE DEF a, p
  <2> QED BY <1>5, <2>1 DEF Activation
<1>7. Going(obj, p) /\ (a \in known => Going(obj, q))
  BY <1>2, <1>5, <1>6 DEF Going
<1> HIDE DEF Activation, PyObject, known, p, q, a, o
<1>8. CASE a \notin known
  <2>1. puts' = Replace(p) /\ UNCHANGED <<obj, memory, maps, raised, meant, ops>>
    BY <1>1, <1>8
  <2> HIDE DEF Replace
  <2>2. /\ Len(puts') = Len(puts) /\ puts'[Len(puts)] = p
        /\ \A d \in 1 .. Len(puts) - 1 : puts'[d] = puts[d]
    BY <1>1, <1>5, <2>1, ReplaceFacts
  <2>3. Linked'
    <3>1. \A x \in Object, g \in Field : Awaited(x, g) => Awaited(x, g)'
      BY <1>1, <1>2, <1>5, <2>2, AwaitedKept DEF o
    <3>2. ~ raised => \A d \in 1 .. Len(puts') :
            puts'[d].waits # << >> =>
              puts'[d].waits[1].far = meant[puts'[d].object][puts'[d].waits[1].field]
      BY <1>1, <1>2, <1>5, <2>1, <2>2, FarKept
    <3> QED BY <1>3, <2>1, <3>1, <3>2, StaysLinked DEF IInv
  <2>4. Going(obj', p)
    BY <1>7, <2>1
  <2> QED BY <1>1, <1>3, <1>5, <2>1, <2>3, <2>4, Replaced DEF o
<1>9. CASE a \in known
  <2> DEFINE t == objectMap[a]
             stack == Replace(q)
             deep == FALSE
  <2>1. Enter(t, deep, stack, obj) /\ UNCHANGED <<raised, meant, ops>>
    BY <1>1, <1>9
  <2>2. t \in Object
    BY <1>9 DEF IInv, Registered, known
  <2>3. /\ stack \in Seq(Activation) /\ Len(stack) = Len(puts) /\ stack[Len(puts)] = q
        /\ \A d \in 1 .. Len(puts) - 1 : stack[d] = puts[d]
    <3> HIDE DEF Replace
    <3> QED BY <1>1, <1>6, <1>9, ReplaceFacts
  <2> HIDE DEF t, stack, deep, Enter, Replace
  <2>4. /\ obj' \in [Object -> PyObject] /\ obj'[t].ptr # None
        /\ \A x \in Object :
             /\ obj[x].ptr # None => obj'[x].ptr = obj[x].ptr
             /\ obj'[x].val = obj[x].val /\ obj'[x].link = obj[x].link
        /\ puts' \in Seq(Activation) /\ Len(puts') = Len(stack) + 1
        /\ puts'[Len(stack) + 1] = Put(t, deep)
        /\ \A d \in 1 .. Len(stack) : puts'[d] = stack[d]
    <3>1. Begun(t, deep, stack, obj)
      BY <1>3, <2>1, <2>2, <2>3, Entered
    <3> QED BY <3>1 DEF Begun
  <2>5. puts'[Len(puts)] = q /\ \A d \in 1 .. Len(puts) - 1 : puts'[d] = puts[d]
    BY <1>2, <2>3, <2>4
  <2>6. Linked'
    <3>1. \A x \in Object, g \in Field : Awaited(x, g) => Awaited(x, g)'
      BY <1>1, <1>2, <1>6, <1>9, <2>3, <2>4, <2>5, AwaitedKept DEF o
    <3>2. ~ raised => \A d \in 1 .. Len(puts') :
            puts'[d].waits # << >> =>
              puts'[d].waits[1].far = meant[puts'[d].object][puts'[d].waits[1].field]
      <4>1. \A d \in 1 .. Len(puts') : d > Len(puts) => puts'[d].waits = << >>
        <5> DEFINE new == Put(t, deep)
        <5>1. new.waits = << >> /\ puts'[Len(puts) + 1] = new
          BY <2>2, <2>3, <2>4, ActivationFacts
        <5> HIDE DEF new
        <5>2. Len(puts') = Len(puts) + 1
          BY <2>3, <2>4
        <5> QED BY <1>2, <5>1, <5>2
      <4> QED BY <1>1, <1>6, <1>9, <2>1, <2>5, <4>1, FarKept
    <3> QED BY <1>3, <2>1, <2>4, <3>1, <3>2, StaysLinked DEF IInv
  <2>7. Len(puts) = 1
    <3> SUFFICES ASSUME Len(puts) # 1 PROVE FALSE
      OBVIOUS
    <3>1. Len(puts) \in 2 .. Len(puts)
      BY <1>2
    <3>2. puts[Len(puts)].deep = << >>
      BY <3>1 DEF IInv, Depth
    <3> QED BY <1>1, <1>2, <3>2
  <2>8. Cardinality(Cached(obj)) + Len(puts) <= 1 + Cardinality(Object \X Field)
    <3>1. /\ Cardinality(Cached(obj)) \in Nat /\ Cardinality(Object \X Field) \in Nat
          /\ Cardinality(Cached(obj)) <= Cardinality(Object \X Field)
      BY CachedCount, FieldFacts
    <3> QED BY <2>7, <3>1
  <2>9. Enter(t, FALSE, Replace(q), obj)
    BY <2>1 DEF deep, stack
  <2> QED BY <1>1, <1>3, <1>6, <1>7, <1>9, <2>1, <2>2, <2>6, <2>8, <2>9, Called DEF o
<1> QED BY <1>8, <1>9

\* Between the calls there is nothing to say about the stack.
LEMMA Between ==
  ASSUME Types', Registered', Unwritten', Linked', puts' = << >>
  PROVE  IInv'
<1>1. Len(puts') = 0
  OBVIOUS
<1>2. AllGoing'
  BY <1>1 DEF AllGoing
<1>3. Depth'
  <2>1. /\ Cardinality(Cached(obj')) \in Nat /\ Cardinality(Object \X Field) \in Nat
        /\ Cardinality(Cached(obj')) <= Cardinality(Object \X Field)
    BY CachedCount, FieldFacts
  <2>2. \A d \in 2 .. Len(puts') : puts'[d].deep = << >>
    BY <1>1
  <2> QED BY <1>1, <2>1, <2>2 DEF Depth
<1> QED BY <1>2, <1>3 DEF IInv

LEMMA StructFacts ==
  ASSUME IInv, NEW o \in Object, NEW old \in CStruct
  PROVE  /\ Struct(o, old) \in [val : Val \cup {Misfit}, link : [Field -> Places]]
         /\ Struct(o, old).val = obj[o].val
<1>1. obj[o] \in PyObject
  BY DEF IInv, Types
<1>2. obj[o].val \in Val \cup {Misfit} /\ \A f \in Field : obj[o].link[f].ptr \in Places
  BY <1>1 DEF PyObject, Link
<1> QED BY <1>2 DEF Struct, CStruct

\* The struct of the innermost put is written, or an exception ends all puts.
LEMMA PutWriteStep == IInv /\ PutWrite => IInv'
<1> SUFFICES ASSUME IInv, PutWrite PROVE IInv'
  OBVIOUS
<1> DEFINE o == Top.object
           a == obj[o].ptr
           new == Struct(o, memory[a])
<1>1. /\ Active /\ Top.waits = << >> /\ UNCHANGED <<obj, maps, meant, ops>>
      /\ \/ /\ raised' = TRUE /\ puts' = << >>
            /\ \E before \in SUBSET Field :
                 memory' = [memory EXCEPT ![a].link =
                              [f \in Field |-> IF f \in before THEN new.link[f] ELSE @[f]]]
         \/ /\ obj[o].val # Misfit /\ puts' = Rest /\ raised' = raised
            /\ memory' = [memory EXCEPT ![a] = Struct(o, @)]
  BY DEF PutWrite
<1>2. Top \in Activation /\ Going(obj, Top) /\ o \in Object /\ Len(puts) \in Nat
      /\ Len(puts) >= 1 /\ Top = puts[Len(puts)] /\ a \in DOMAIN memory
  BY <1>1, TopFacts
<1>3. Types /\ obj \in [Object -> PyObject] /\ obj' \in [Object -> PyObject]
  BY <1>1 DEF IInv, Types
<1>4. memory \in [DOMAIN memory -> CStruct] /\ memory[a] \in CStruct
  BY <1>2 DEF IInv, Registered
<1>5. new.link \in [Field -> Places] /\ new.val = obj[o].val /\ new.val \in Val \cup {Misfit}
      /\ new \in [val : Val \cup {Misfit}, link : [Field -> Places]]
  BY <1>2, <1>4, StructFacts
<1> HIDE DEF o, a, new, PyObject, Activation
<1>6. CASE raised' = TRUE /\ puts' = << >>
           /\ \E before \in SUBSET Field :
                memory' = [memory EXCEPT ![a].link =
                             [f \in Field |-> IF f \in before THEN new.link[f] ELSE @[f]]]
  <2>1. memory' \in [DOMAIN memory -> CStruct]
    <3>1. PICK before \in SUBSET Field :
            memory' = [memory EXCEPT ![a].link =
                         [f \in Field |-> IF f \in before THEN new.link[f] ELSE @[f]]]
      BY <1>6
    <3> DEFINE link == [f \in Field |-> IF f \in before THEN new.link[f] ELSE memory[a].link[f]]
    <3>2. memory' = [memory EXCEPT ![a].link = link]
      BY <3>1
    <3>3. link \in [Field -> Places]
      BY <1>4, <1>5 DEF CStruct
    <3> HIDE DEF link
    <3> QED BY <1>4, <3>2, <3>3 DEF CStruct
  <2>2. Registered'
    BY <1>1, <1>3, <2>1, NothingNew
  <2>3. Types'
    <3>1. puts' \in Seq(Activation)
      BY <1>6, EmptySeq
    <3> QED BY <1>1, <1>3, <1>6, <3>1 DEF Types
  <2>4. Unwritten' /\ Linked'
    BY <1>6 DEF Unwritten, Linked
  <2> QED BY <1>6, <2>2, <2>3, <2>4, Between
<1>7. CASE obj[o].val # Misfit /\ puts' = Rest /\ raised' = raised
           /\ memory' = [memory EXCEPT ![a] = Struct(o, @)]
  <2>1. memory' = [memory EXCEPT ![a] = new]
    BY <1>7 DEF new
  <2>2. new \in CStruct /\ new.val # None
    BY <1>5, <1>7, ValAssumption DEF CStruct
  <2>3. /\ memory' \in [DOMAIN memory -> CStruct] /\ memory'[a] = new
        /\ \A b \in DOMAIN memory \ {a} : memory'[b] = memory[b]
    BY <1>2, <1>4, <2>1, <2>2
  <2>4. Registered'
    BY <1>1, <1>3, <2>3, NothingNew
  <2>5. /\ puts' \in Seq(Activation) /\ Len(puts') = Len(puts) - 1
        /\ \A d \in 1 .. Len(puts) - 1 : puts'[d] = puts[d]
    <3>1. puts \in Seq(Activation) /\ puts # << >>
      BY <1>1 DEF IInv, Types, Active
    <3> QED BY <3>1, <1>7, Underneath DEF Rest
  <2>6. \A d \in 1 .. Len(puts') : d \in 1 .. Len(puts) /\ puts'[d] = puts[d]
    BY <1>2, <2>5
  <2>7. Types'
    BY <1>1, <1>3, <1>7, <2>5 DEF Types
  <2>8. AllGoing'
    BY <1>1, <2>6 DEF IInv, AllGoing
  <2>9. Depth'
    <3>1. \A d \in 2 .. Len(puts') : puts'[d].deep = << >>
      <4> TAKE d \in 2 .. Len(puts')
      <4>1. d \in 2 .. Len(puts) /\ puts'[d] = puts[d]
        BY <1>2, <2>5
      <4> QED BY <4>1 DEF IInv, Depth
    <3>2. /\ Cardinality(Cached(obj)) \in Nat /\ Cardinality(Object \X Field) \in Nat
          /\ Cardinality(Cached(obj)) + Len(puts) <= 2 + Cardinality(Object \X Field)
      BY CachedCount, FieldFacts DEF IInv, Depth
    <3> QED BY <1>1, <1>2, <2>5, <3>1, <3>2 DEF Depth
  <2>10. Unwritten'
    <3> SUFFICES ASSUME ~ raised, NEW b \in DOMAIN memory, memory'[b].val = None
                 PROVE  \E d \in 1 .. Len(puts') : obj[puts'[d].object].ptr = b
      BY <1>1, <1>7, <2>3 DEF Unwritten
    <3>1. b # a /\ memory[b].val = None
      BY <2>2, <2>3
    <3>2. PICK d \in 1 .. Len(puts) : obj[puts[d].object].ptr = b
      BY <3>1 DEF IInv, Unwritten
    <3>3. d # Len(puts)
      BY <1>2, <3>1, <3>2 DEF o, a
    <3>4. d \in 1 .. Len(puts') /\ puts'[d] = puts[d]
      BY <1>2, <2>5, <3>3
    <3> QED BY <3>2, <3>4
  <2>11. Linked'
    <3>1. ASSUME NEW x \in Object, NEW g \in Field, Awaited(x, g)
          PROVE  Awaited(x, g)'
      <4>1. PICK d \in 1 .. Len(puts) :
              puts[d].object = x /\ puts[d].waits # << >> /\ puts[d].waits[1].field = g
        BY <3>1 DEF Awaited
      <4>2. d # Len(puts)
        BY <1>1, <1>2, <4>1
      <4>3. d \in 1 .. Len(puts') /\ puts'[d] = puts[d]
        BY <1>2, <2>5, <4>2
      <4> QED BY <4>1, <4>3 DEF Awaited
    <3>2. ~ raised => \A d \in 1 .. Len(puts') :
            puts'[d].waits # << >> =>
              puts'[d].waits[1].far = meant[puts'[d].object][puts'[d].waits[1].field]
      BY <2>6 DEF IInv, Linked
    <3> QED BY <1>1, <1>3, <1>7, <3>1, <3>2, StaysLinked DEF IInv
  <2> QED BY <2>4, <2>7, <2>8, <2>9, <2>10, <2>11 DEF IInv
<1> QED BY <1>1, <1>6, <1>7

-----------------------------------------------------------------------------
\* The steps of the user and of the program.

LEMMA ActFacts ==
  ASSUME IInv, Act
  PROVE  /\ puts = << >> /\ ~ Active /\ ops' \in Nat
         /\ \A o \in Object, f \in Field : ~ Awaited(o, f)
<1>1. puts = << >> /\ ops' \in Nat
  BY DEF Act, Active, IInv, Types
<1> QED BY <1>1 DEF Awaited, Act

LEMMA UserPutStep == IInv /\ UserPut => IInv'
<1> SUFFICES ASSUME IInv, UserPut PROVE IInv'
  OBVIOUS
<1>1. puts = << >> /\ ops' \in Nat /\ UNCHANGED <<raised, meant>>
      /\ \A o \in Object, f \in Field : ~ Awaited(o, f)
  BY ActFacts DEF UserPut
<1>2. PICK o, deep : o \in Object /\ Enter(o, deep, << >>, obj)
  BY DEF UserPut
<1>3. Types /\ obj \in [Object -> PyObject]
  BY DEF IInv, Types
<1> DEFINE stack == << >>
           new == Put(o, deep)
<1>4. o \in Object /\ stack \in Seq(Activation) /\ Len(stack) = 0 /\ Enter(o, deep, stack, obj)
  BY <1>2, EmptySeq
<1> HIDE DEF stack
<1>5. /\ Registered' /\ obj' \in [Object -> PyObject] /\ obj'[o].ptr # None
      /\ \A p \in Object :
           /\ obj[p].ptr # None => obj'[p].ptr = obj[p].ptr
           /\ obj'[p].link = obj[p].link
      /\ puts' \in Seq(Activation) /\ Len(puts') = Len(stack) + 1
      /\ puts'[Len(stack) + 1] = new
      /\ \A a \in DOMAIN memory' :
           memory'[a].val = None =>
             a = obj'[o].ptr \/ (a \in DOMAIN memory /\ memory[a].val = None)
  <2>1. Begun(o, deep, stack, obj)
    BY <1>3, <1>4, Entered
  <2> QED BY <2>1 DEF Begun, new
<1>6. new.object = o /\ new.waits = << >> /\ Range(new.todo) = Field
  BY <1>2, ActivationFacts
<1> HIDE DEF new, Activation, PyObject
<1>7. Len(puts') = 1 /\ puts'[1] = new /\ \A d \in 1 .. Len(puts') : d = 1
  BY <1>4, <1>5
<1>8. Types'
  BY <1>1, <1>3, <1>5 DEF Types
<1>9. AllGoing'
  <2>1. Going(obj', new)
    BY <1>5, <1>6 DEF Going
  <2> QED BY <2>1, <1>7 DEF AllGoing
<1>10. Depth'
  <2>1. /\ Cardinality(Cached(obj')) \in Nat /\ Cardinality(Object \X Field) \in Nat
        /\ Cardinality(Cached(obj')) <= Cardinality(Object \X Field)
    BY CachedCount, FieldFacts
  <2>2. \A d \in 2 .. Len(puts') : puts'[d].deep = << >>
    BY <1>7
  <2> QED BY <1>7, <2>1, <2>2 DEF Depth
<1>11. Unwritten'
  <2> SUFFICES ASSUME ~ raised, NEW a \in DOMAIN memory', memory'[a].val = None
               PROVE  \E d \in 1 .. Len(puts') : obj'[puts'[d].object].ptr = a
    BY <1>1 DEF Unwritten
  <2>1. ~ (a \in DOMAIN memory /\ memory[a].val = None)
    BY <1>1 DEF IInv, Unwritten
  <2>2. a = obj'[puts'[1].object].ptr
    BY <1>5, <1>6, <1>7, <2>1
  <2> QED BY <1>7, <2>2
<1>12. Linked'
  <2>1. \A d \in 1 .. Len(puts') : puts'[d].waits = << >>
    BY <1>6, <1>7
  <2> QED BY <1>1, <1>3, <1>5, <2>1, StaysLinked DEF IInv
<1> QED BY <1>5, <1>8, <1>9, <1>10, <1>11, <1>12 DEF IInv

LEMMA SetCacheStep == IInv /\ SetCache => IInv'
<1> SUFFICES ASSUME IInv, SetCache PROVE IInv'
  OBVIOUS
<1>1. puts = << >> /\ ops' \in Nat /\ UNCHANGED <<memory, maps, puts, raised>>
      /\ \A o \in Object, f \in Field : ~ Awaited(o, f)
  BY ActFacts DEF SetCache
<1>2. PICK o \in Object, f \in Field, p \in Object, x \in Offset :
        /\ obj' = [obj EXCEPT ![o].link[f].cache = Far(p, x)]
        /\ meant' = [meant EXCEPT ![o][f] = Far(p, x)]
  BY DEF SetCache
<1> DEFINE far == Far(p, x)
           l == [obj[o].link[f] EXCEPT !.cache = far]
<1>3. Types /\ obj \in [Object -> PyObject] /\ meant \in [Object -> [Field -> Refs]]
  BY DEF IInv, Types
<1>4. far \in Refs
  BY References
<1> HIDE DEF far
<1>5. l \in Link /\ l.cache = far
  <2>1. obj[o].link[f] \in Link
    BY <1>3 DEF PyObject
  <2> QED BY <2>1, <1>4 DEF Link
<1>6. obj' = [obj EXCEPT ![o].link[f] = l] /\ meant' = [meant EXCEPT ![o][f] = far]
  BY <1>2 DEF far
<1> HIDE DEF l
<1>7. /\ [obj EXCEPT ![o].link[f] = l] \in [Object -> PyObject]
      /\ \A q \in Object :
           /\ [obj EXCEPT ![o].link[f] = l][q].ptr = obj[q].ptr
           /\ [obj EXCEPT ![o].link[f] = l][q].val = obj[q].val
           /\ \A g \in Field : [obj EXCEPT ![o].link[f] = l][q].link[g]
                                 = IF q = o /\ g = f THEN l ELSE obj[q].link[g]
  <2>1. obj \in [Object -> PyObject] /\ l \in Link
    BY <1>3, <1>5
  <2> QED BY <2>1 DEF PyObject
<1>8. /\ obj' \in [Object -> PyObject]
      /\ \A q \in Object :
           /\ obj'[q].ptr = obj[q].ptr
           /\ \A g \in Field : obj'[q].link[g] = IF q = o /\ g = f THEN l ELSE obj[q].link[g]
  BY <1>6, <1>7
<1>9. /\ meant' \in [Object -> [Field -> Refs]]
      /\ \A q \in Object, g \in Field :
           meant'[q][g] = IF q = o /\ g = f THEN far ELSE meant[q][g]
  BY <1>3, <1>4, <1>6
<1>10. Types'
  BY <1>1, <1>3, <1>8, <1>9 DEF Types
<1>11. Registered'
  <2>1. memory' \in [DOMAIN memory -> CStruct]
    BY <1>1 DEF IInv, Registered
  <2> QED BY <1>1, <1>8, <2>1, NothingNew
<1>12. Unwritten'
  BY <1>1 DEF IInv, Unwritten
<1>13. Linked'
  <2> SUFFICES ASSUME ~ raised, NEW q \in Object, NEW g \in Field
               PROVE  /\ obj'[q].link[g].cache \in {NoFar, meant'[q][g]}
                      /\ \/ meant'[q][g] = NoFar \/ obj'[q].link[g].cache # NoFar
                         \/ Resolved(q, g)'
    BY <1>1 DEF Linked
  <2>1. CASE q = o /\ g = f
    BY <1>5, <1>8, <1>9, <2>1
  <2>2. CASE q # o \/ g # f
    <3>1. obj'[q].link[g] = obj[q].link[g] /\ meant'[q][g] = meant[q][g]
      BY <1>8, <1>9, <2>2
    <3>2. /\ obj[q].link[g].cache \in {NoFar, meant[q][g]}
          /\ \/ meant[q][g] = NoFar \/ obj[q].link[g].cache # NoFar \/ Resolved(q, g)
      BY <1>1 DEF IInv, Linked
    <3>3. meant[q][g] # NoFar => meant[q][g].object \in Object
      BY <1>3, References
    <3> QED BY <1>8, <3>1, <3>2, <3>3 DEF Resolved
  <2> QED BY <2>1, <2>2
<1> QED BY <1>1, <1>10, <1>11, <1>12, <1>13, Between

LEMMA SetValStep == IInv /\ SetVal => IInv'
<1> SUFFICES ASSUME IInv, SetVal PROVE IInv'
  OBVIOUS
<1>1. puts = << >> /\ ops' \in Nat /\ UNCHANGED <<memory, maps, puts, raised, meant>>
      /\ \A o \in Object, f \in Field : ~ Awaited(o, f)
  BY ActFacts DEF SetVal
<1>2. PICK o \in Object, v \in Val \cup {Misfit} : obj' = [obj EXCEPT ![o].val = v]
  BY DEF SetVal
<1>3. Types /\ obj \in [Object -> PyObject]
  BY DEF IInv, Types
<1>4. /\ obj' \in [Object -> PyObject]
      /\ \A q \in Object : obj'[q].ptr = obj[q].ptr /\ obj'[q].link = obj[q].link
  BY <1>2, <1>3 DEF PyObject
<1> HIDE DEF PyObject
<1>5. Types'
  BY <1>1, <1>3, <1>4 DEF Types
<1>6. Registered'
  <2>1. memory' \in [DOMAIN memory -> CStruct]
    BY <1>1 DEF IInv, Registered
  <2> QED BY <1>1, <1>4, <2>1, NothingNew
<1>7. Unwritten'
  BY <1>1 DEF IInv, Unwritten
<1>8. Linked'
  BY <1>1, <1>3, <1>4, StaysLinked DEF IInv
<1> QED BY <1>1, <1>5, <1>6, <1>7, <1>8, Between

LEMMA RunStep == IInv /\ Run => IInv'
<1> SUFFICES ASSUME IInv, Run PROVE IInv'
  OBVIOUS
<1>1. puts = << >> /\ ops' \in Nat /\ UNCHANGED <<obj, maps, puts, raised, meant>>
      /\ \A o \in Object, f \in Field : ~ Awaited(o, f)
  BY ActFacts DEF Run
<1>2. PICK a \in DOMAIN memory, v \in Val, f \in Field, b \in {0, GlobalAddr} :
        memory' = [memory EXCEPT ![a].val = v, ![a].link[f] = b]
  BY DEF Run
<1>3. Types /\ obj' \in [Object -> PyObject]
  BY <1>1 DEF IInv, Types
<1>4. memory \in [DOMAIN memory -> CStruct] /\ memory[a] \in CStruct /\ b \in Places
  BY Places0 DEF IInv, Registered
<1>5. /\ memory' \in [DOMAIN memory -> CStruct]
      /\ \A c \in DOMAIN memory : memory'[c].val \in {v, memory[c].val}
  <2> DEFINE s == [memory[a] EXCEPT !.val = v, !.link[f] = b]
  <2>1. s \in CStruct /\ s.val = v
    BY <1>4 DEF CStruct
  <2>2. memory' = [memory EXCEPT ![a] = s]
    BY <1>2
  <2> HIDE DEF s, CStruct
  <2> QED BY <1>4, <2>1, <2>2
<1> HIDE DEF PyObject, CStruct
<1>6. Types'
  BY <1>1, <1>3 DEF Types
<1>7. Registered'
  BY <1>1, <1>3, <1>5, NothingNew
<1>8. Unwritten'
  BY <1>1, <1>5, ValAssumption DEF IInv, Unwritten
<1>9. Linked'
  BY <1>1, <1>3, StaysLinked DEF IInv
<1> QED BY <1>1, <1>6, <1>7, <1>8, <1>9, Between

\* An object is read from memory.
LEMMA Reading ==
  ASSUME IInv, NEW o \in Object, NEW a \in DOMAIN memory, NEW found \in Found(a),
         obj' = Read(obj, o, a, found)
  PROVE  /\ obj' \in [Object -> PyObject] /\ obj'[o].ptr = a
         /\ \A f \in Field : obj'[o].link[f].cache = obj[o].link[f].cache
         /\ \A p \in Object \ {o} : obj'[p] = obj[p]
<1>1. /\ obj \in [Object -> PyObject] /\ memory \in [DOMAIN memory -> CStruct]
      /\ DOMAIN memory \subseteq Address
  BY DEF IInv, Types, Registered
<1>2. found.val \in Val /\ \A f \in Field : found.link[f] \in Places
  <2>1. Range(memory[a].link) \subseteq Places
    BY <1>1 DEF CStruct, Range
  <2> QED BY <2>1, Places0 DEF Found
<1> DEFINE link == [f \in Field |-> PTR(found.link[f], obj[o].link[f].cache)]
<1>3. link \in [Field -> Link] /\ \A f \in Field : link[f].cache = obj[o].link[f].cache
  BY <1>1, <1>2 DEF PTR, PyObject, Link
<1>4. obj' = [obj EXCEPT ![o].ptr = a, ![o].val = found.val, ![o].link = link]
  BY DEF Read
<1> DEFINE now == [obj[o] EXCEPT !.ptr = a, !.val = found.val, !.link = link]
<1>5. obj[o] \in PyObject /\ a \in Address
  BY <1>1
<1> HIDE DEF link, Link
<1>6. now \in PyObject /\ now.ptr = a /\ now.link = link
  BY <1>2, <1>3, <1>5 DEF PyObject
<1>7. obj' = [obj EXCEPT ![o] = now]
  BY <1>4
<1> HIDE DEF now, PyObject
<1> QED BY <1>1, <1>3, <1>6, <1>7

LEMMA GetStep ==
  ASSUME IInv, Act, NEW o \in Object, NEW a \in DOMAIN memory, obj[o].ptr \in {None, a},
         Get(o, a), UNCHANGED <<memory, puts, raised>>
  PROVE  IInv'
<1>1. puts = << >> /\ ops' \in Nat /\ \A p \in Object, f \in Field : ~ Awaited(p, f)
  BY ActFacts
<1>2. PICK found \in Found(a) : obj' = Read(obj, o, a, found)
  BY DEF Get
<1>3. /\ obj' \in [Object -> PyObject] /\ obj'[o].ptr = a
      /\ \A f \in Field : obj'[o].link[f].cache = obj[o].link[f].cache
      /\ \A p \in Object \ {o} : obj'[p] = obj[p]
  BY <1>2, Reading
<1>4. Types /\ obj \in [Object -> PyObject] /\ meant \in [Object -> [Field -> Refs]]
  BY DEF IInv, Types
<1>5. /\ meant' \in [Object -> [Field -> Refs]]
      /\ \A f \in Field : meant'[o][f] = IF obj[o].link[f].cache = NoFar THEN NoFar
                                         ELSE meant[o][f]
      /\ \A p \in Object \ {o} : meant'[p] = meant[p]
  <2>1. meant' = [meant EXCEPT ![o] = [f \in Field |-> IF obj[o].link[f].cache = NoFar
                                                         THEN NoFar ELSE @[f]]]
    BY DEF Get, Forget
  <2> QED BY <1>4, <2>1, References
<1>6. objectMap' = At(objectMap, a, o) /\ reverseObjectMap' = At(reverseObjectMap, o, a)
  BY DEF Get
<1> HIDE DEF PyObject
<1>7. Types'
  BY <1>1, <1>3, <1>4, <1>5 DEF Types
<1>8. Registered'
  <2> DEFINE A == DOMAIN objectMap
             R == DOMAIN reverseObjectMap
  <2>1. /\ memory \in [DOMAIN memory -> CStruct] /\ DOMAIN memory \subseteq Address
        /\ objectMap \in [A -> Object] /\ A \subseteq DOMAIN memory
        /\ reverseObjectMap \in [R -> Address] /\ R \subseteq Object
        /\ \A p \in Object : obj[p].ptr # None => obj[p].ptr \in DOMAIN memory
        /\ \A b \in A : objectMap[b] \in R /\ obj[objectMap[b]].ptr = b
        /\ \A p \in R : reverseObjectMap[p] = obj[p].ptr /\ obj[p].ptr \in A
    BY DEF IInv, Registered, MapsAgree
  <2>2. /\ objectMap' \in [A \cup {a} -> Object] /\ DOMAIN objectMap' = A \cup {a}
        /\ objectMap'[a] = o /\ \A b \in A \ {a} : objectMap'[b] = objectMap[b]
    BY <1>6, <2>1 DEF At
  <2>3. a \in Address
    BY <2>1
  <2>4. /\ reverseObjectMap' \in [R \cup {o} -> Address] /\ DOMAIN reverseObjectMap' = R \cup {o}
        /\ reverseObjectMap'[o] = a /\ \A p \in R \ {o} : reverseObjectMap'[p] = reverseObjectMap[p]
    BY <1>6, <2>1, <2>3 DEF At
  <2>5. \A b \in A \cup {a} : objectMap'[b] \in R \cup {o} /\ obj'[objectMap'[b]].ptr = b
    <3> TAKE b \in A \cup {a}
    <3>1. CASE b = a
      BY <3>1, <2>2, <1>3
    <3>2. CASE b \in A \ {a}
      <4>1. objectMap'[b] = objectMap[b] /\ objectMap[b] \in R /\ obj[objectMap[b]].ptr = b
        BY <3>2, <2>1, <2>2
      <4>2. objectMap[b] # o /\ objectMap[b] \in Object
        BY <3>2, <4>1, <2>1, Places0
      <4> QED BY <4>1, <4>2, <1>3
    <3> QED BY <3>1, <3>2
  <2>6. \A p \in R \cup {o} : reverseObjectMap'[p] = obj'[p].ptr /\ obj'[p].ptr \in A \cup {a}
    <3> TAKE p \in R \cup {o}
    <3>1. CASE p = o
      BY <3>1, <2>4, <1>3
    <3>2. CASE p \in R \ {o}
      BY <3>2, <1>3, <2>1, <2>4
    <3> QED BY <3>1, <3>2
  <2>7. MapsAgree'
    BY <2>2, <2>4, <2>5, <2>6 DEF MapsAgree
  <2>8. \A p \in Object : obj'[p].ptr # None => obj'[p].ptr \in DOMAIN memory
    BY <1>3, <2>1
  <2> QED BY <2>1, <2>2, <2>4, <2>7, <2>8 DEF Registered
<1>9. Unwritten'
  BY <1>1 DEF IInv, Unwritten
<1>10. Linked'
  <2> SUFFICES ASSUME ~ raised, NEW p \in Object, NEW f \in Field
               PROVE  /\ obj'[p].link[f].cache \in {NoFar, meant'[p][f]}
                      /\ \/ meant'[p][f] = NoFar \/ obj'[p].link[f].cache # NoFar
                         \/ Resolved(p, f)'
    BY <1>1 DEF Linked
  <2>1. /\ obj[p].link[f].cache \in {NoFar, meant[p][f]}
        /\ \/ meant[p][f] = NoFar \/ obj[p].link[f].cache # NoFar \/ Resolved(p, f)
    BY <1>1 DEF IInv, Linked
  <2>2. CASE p = o
    BY <1>3, <1>5, <2>1, <2>2
  <2>3. CASE p # o
    <3>1. obj'[p] = obj[p] /\ meant'[p] = meant[p]
      BY <1>3, <1>5, <2>3
    <3>2. meant[p][f] # NoFar => meant[p][f].object \in Object
      BY <1>4, References
    <3>3. \A q \in Object : obj[q].ptr # None => obj'[q].ptr = obj[q].ptr
      BY <1>3
    <3>4. meant[p][f] # NoFar /\ Resolved(p, f) => Resolved(p, f)'
      BY <3>1, <3>2, <3>3 DEF Resolved
    <3> QED BY <2>1, <3>1, <3>4
  <2> QED BY <2>2, <2>3
<1> QED BY <1>1, <1>7, <1>8, <1>9, <1>10, Between

LEMMA FreshFacts ==
  ASSUME NEW o \in Object, Fresh(o)
  PROVE  /\ obj[o].ptr = None
         /\ \A f \in Field : obj[o].link[f].ptr = None /\ obj[o].link[f].cache = NoFar
BY DEF Fresh, Blank, PTR

LEMMA DerefNoCacheStep == IInv /\ DerefNoCache => IInv'
<1> SUFFICES ASSUME IInv, DerefNoCache PROVE IInv'
  OBVIOUS
<1>1. puts = << >> /\ ops' \in Nat /\ UNCHANGED <<memory, maps, puts, raised, meant>>
      /\ \A o \in Object, f \in Field : ~ Awaited(o, f)
  BY ActFacts DEF DerefNoCache
<1>2. PICK a \in DOMAIN memory, o \in Object :
        \E found \in Found(a) : Fresh(o) /\ obj' = Read(obj, o, a, found)
  BY DEF DerefNoCache
<1>3. PICK found \in Found(a) : Fresh(o) /\ obj' = Read(obj, o, a, found)
  BY <1>2
<1>4. /\ obj' \in [Object -> PyObject] /\ obj'[o].ptr = a
      /\ \A f \in Field : obj'[o].link[f].cache = obj[o].link[f].cache
      /\ \A p \in Object \ {o} : obj'[p] = obj[p]
  BY <1>3, Reading
<1>5. Types /\ obj \in [Object -> PyObject] /\ meant \in [Object -> [Field -> Refs]]
  BY DEF IInv, Types
<1>6. obj[o].ptr = None /\ \A f \in Field : obj[o].link[f].ptr = None
                                              /\ obj[o].link[f].cache = NoFar
  BY <1>3, FreshFacts
<1> HIDE DEF PyObject
<1>7. Types'
  BY <1>1, <1>4, <1>5 DEF Types
<1>8. Registered'
  <2>1. /\ memory \in [DOMAIN memory -> CStruct] /\ DOMAIN memory \subseteq Address
        /\ objectMap \in [DOMAIN objectMap -> Object] /\ DOMAIN objectMap \subseteq DOMAIN memory
        /\ reverseObjectMap \in [DOMAIN reverseObjectMap -> Address]
        /\ DOMAIN reverseObjectMap \subseteq Object
        /\ \A p \in Object : obj[p].ptr # None => obj[p].ptr \in DOMAIN memory
        /\ \A b \in DOMAIN objectMap :
             objectMap[b] \in DOMAIN reverseObjectMap /\ obj[objectMap[b]].ptr = b
        /\ \A p \in DOMAIN reverseObjectMap :
             reverseObjectMap[p] = obj[p].ptr /\ obj[p].ptr \in DOMAIN objectMap
    BY DEF IInv, Registered, MapsAgree
  <2>2. \A p \in DOMAIN reverseObjectMap : p \in Object \ {o} /\ obj'[p].ptr = obj[p].ptr
    BY <1>4, <1>6, <2>1, Places0
  <2>3. objectMap' = objectMap /\ reverseObjectMap' = reverseObjectMap /\ memory' = memory
    BY <1>1 DEF maps
  <2>4. MapsAgree'
    BY <2>1, <2>2, <2>3 DEF MapsAgree
  <2>5. \A p \in Object : obj'[p].ptr # None => obj'[p].ptr \in DOMAIN memory
    BY <1>4, <2>1
  <2> QED BY <2>1, <2>3, <2>4, <2>5 DEF Registered
<1>9. Unwritten'
  BY <1>1 DEF IInv, Unwritten
<1>10. Linked'
  <2> SUFFICES ASSUME ~ raised, NEW p \in Object, NEW f \in Field
               PROVE  /\ obj'[p].link[f].cache \in {NoFar, meant[p][f]}
                      /\ \/ meant[p][f] = NoFar \/ obj'[p].link[f].cache # NoFar
                         \/ Resolved(p, f)'
    BY <1>1 DEF Linked
  <2>1. /\ obj[p].link[f].cache \in {NoFar, meant[p][f]}
        /\ \/ meant[p][f] = NoFar \/ obj[p].link[f].cache # NoFar \/ Resolved(p, f)
    BY <1>1 DEF IInv, Linked
  <2>2. meant[p][f] # NoFar => meant[p][f].object \in Object /\ meant[p][f].offset \in Offset
    BY <1>5, References
  <2>3. CASE p = o
    <3>1. meant[p][f] # NoFar => ~ Resolved(p, f)
      <4> SUFFICES ASSUME meant[p][f] # NoFar, Resolved(p, f) PROVE FALSE
        OBVIOUS
      <4>1. obj[meant[p][f].object].ptr \in Address
        BY <1>5, <2>2 DEF Resolved, PyObject
      <4> QED BY <1>6, <2>2, <2>3, <4>1, Places0 DEF Resolved
    <3> QED BY <1>4, <1>6, <2>1, <2>3, <3>1
  <2>4. CASE p # o
    <3>1. obj'[p] = obj[p]
      BY <1>4, <2>4
    <3>2. \A q \in Object : obj[q].ptr # None => obj'[q].ptr = obj[q].ptr
      BY <1>4, <1>6
    <3>3. meant[p][f] # NoFar /\ Resolved(p, f) => Resolved(p, f)'
      BY <1>1, <2>2, <3>1, <3>2 DEF Resolved
    <3> QED BY <2>1, <3>1, <3>3
  <2> QED BY <2>3, <2>4
<1> QED BY <1>1, <1>7, <1>8, <1>9, <1>10, Between

-----------------------------------------------------------------------------
\* The theorems.

LEMMA Start == Init => IInv
<1> SUFFICES ASSUME Init PROVE IInv
  OBVIOUS
<1>1. PICK v \in Val : obj = [o \in Object |-> Blank(v)]
  BY DEF Init
<1>2. PICK w \in Val :
        memory = [a \in {GlobalAddr} |-> [val |-> w, link |-> [f \in Field |-> 0]]]
  BY DEF Init
<1>3. /\ objectMap = << >> /\ reverseObjectMap = << >> /\ puts = << >> /\ raised = FALSE
      /\ meant = [o \in Object |-> [f \in Field |-> NoFar]] /\ ops = 0
  BY DEF Init
<1>4. Blank(v) \in PyObject
  BY Places0, References DEF Blank, PyObject, Link, PTR
<1>5. \A o \in Object : obj[o] = Blank(v) /\ obj[o].ptr = None
  BY <1>1 DEF Blank
<1>6. \A o \in Object, f \in Field : obj[o].link[f].cache = NoFar
  BY <1>1 DEF Blank, PTR
<1>7. Types
  <2>1. puts \in Seq(Activation)
    BY <1>3, EmptySeq
  <2>2. obj \in [Object -> PyObject]
    BY <1>1, <1>4
  <2>3. meant \in [Object -> [Field -> Refs]]
    BY <1>3, References
  <2> QED BY <1>3, <2>1, <2>2, <2>3 DEF Types
<1>8. Registered
  <2>1. [val |-> w, link |-> [f \in Field |-> 0]] \in CStruct
    BY Places0 DEF CStruct
  <2>2. memory \in [{GlobalAddr} -> CStruct] /\ DOMAIN memory = {GlobalAddr}
    <3> HIDE DEF CStruct
    <3> QED BY <1>2, <2>1
  <2>3. DOMAIN objectMap = {} /\ DOMAIN reverseObjectMap = {}
    BY <1>3
  <2>4. objectMap \in [DOMAIN objectMap -> Object]
        /\ reverseObjectMap \in [DOMAIN reverseObjectMap -> Address]
    BY <1>3, <2>3
  <2> QED BY AddressAssumption, <1>5, <2>2, <2>3, <2>4 DEF Registered, MapsAgree
<1>9. Len(puts) = 0
  BY <1>3
<1>10. AllGoing
  BY <1>9 DEF AllGoing
<1>11. Depth
  <2>1. /\ Cardinality(Cached(obj)) \in Nat /\ Cardinality(Object \X Field) \in Nat
        /\ Cardinality(Cached(obj)) <= Cardinality(Object \X Field)
    BY CachedCount, FieldFacts
  <2>2. \A d \in 2 .. Len(puts) : puts[d].deep = << >>
    BY <1>9
  <2> QED BY <1>9, <2>1, <2>2 DEF Depth
<1>12. Unwritten
  <2>1. \A a \in DOMAIN memory : memory[a].val = w
    BY <1>2
  <2> QED BY <2>1, ValAssumption DEF Unwritten
<1>13. Linked
  <2>1. \A o \in Object, f \in Field : meant[o][f] = NoFar
    BY <1>3
  <2> QED BY <1>6, <1>9, <2>1 DEF Linked
<1> QED BY <1>7, <1>8, <1>10, <1>11, <1>12, <1>13 DEF IInv

LEMMA Stutter == IInv /\ UNCHANGED vars => IInv'
<1> SUFFICES ASSUME IInv, UNCHANGED vars PROVE IInv'
  OBVIOUS
<1>1. UNCHANGED <<obj, memory, objectMap, reverseObjectMap, puts, raised, meant, ops>>
  BY DEF vars
<1>2. Types'
  BY <1>1 DEF IInv, Types
<1>3. Registered'
  BY <1>1 DEF IInv, Registered, MapsAgree
<1>4. AllGoing' /\ Depth'
  BY <1>1 DEF IInv, AllGoing, Depth
<1>5. Unwritten'
  BY <1>1 DEF IInv, Unwritten
<1>6. Linked'
  BY <1>1 DEF IInv, Linked, Resolved, Awaited
<1> QED BY <1>2, <1>3, <1>4, <1>5, <1>6 DEF IInv

LEMMA Step == IInv /\ [Next]_vars => IInv'
<1> SUFFICES ASSUME IInv, [Next]_vars PROVE IInv'
  OBVIOUS
<1>1. CASE PutCache
  BY <1>1, PutCacheStep
<1>2. CASE PutReturned
  BY <1>2, PutReturnedStep
<1>3. CASE PutDeep
  BY <1>3, PutDeepStep
<1>4. CASE PutWrite
  BY <1>4, PutWriteStep
<1>5. CASE UserPut
  BY <1>5, UserPutStep
<1>6. CASE SetCache
  BY <1>6, SetCacheStep
<1>7. CASE SetVal
  BY <1>7, SetValStep
<1>8. CASE UserGet
  <2>1. PICK o \in Object, a \in DOMAIN memory : obj[o].ptr \in {None, a} /\ Get(o, a)
    BY <1>8 DEF UserGet
  <2> QED BY <1>8, <2>1, GetStep DEF UserGet
<1>9. CASE Deref
  <2>1. PICK a \in DOMAIN memory, o \in Object : Fresh(o) /\ Get(o, a)
    BY <1>9 DEF Deref
  <2>2. obj[o].ptr = None
    BY <2>1, FreshFacts
  <2> QED BY <1>9, <2>1, <2>2, GetStep DEF Deref
<1>10. CASE DerefNoCache
  BY <1>10, DerefNoCacheStep
<1>11. CASE Run
  BY <1>11, RunStep
<1>12. CASE Leave
  BY <1>12, Stutter DEF Leave
<1>13. CASE UNCHANGED vars
  BY <1>13, Stutter
<1> QED BY <1>1, <1>2, <1>3, <1>4, <1>5, <1>6, <1>7, <1>8, <1>9, <1>10, <1>11, <1>12, <1>13
        DEF Next

\* The invariant of objects, maps, memory and the activations of put().
THEOREM Inductive == Spec => []IInv
BY Start, Step, PTL DEF Spec

\* Every part of the proxy has its type in every state, and put() goes no
\* deeper than there are references: each inner put has dropped one.
THEOREM TypeCorrect == Spec => []TypeOK
<1>1. IInv => TypeOK
  <2> SUFFICES ASSUME IInv PROVE TypeOK
    OBVIOUS
  <2>1. Len(puts) <= 2 + Cardinality(Object \X Field)
    <3>1. /\ Cardinality(Cached(obj)) \in Nat /\ Cardinality(Object \X Field) \in Nat
          /\ Cardinality(Cached(obj)) + Len(puts) <= 2 + Cardinality(Object \X Field)
      BY CachedCount, FieldFacts DEF IInv, Depth
    <3>2. Len(puts) \in Nat
      BY DEF IInv, Types
    <3> QED BY <3>1, <3>2
  <2>2. Range(objectMap) \subseteq Object
    BY DEF IInv, Registered, Range
  <2> QED BY <2>1, <2>2 DEF IInv, Types, Registered, TypeOK, PyObject, Link, CStruct
<1> QED BY <1>1, Inductive, PTL

\* Whatever the user puts, reads and dereferences, objectMap has at an address
\* an object that is registered there, the only one if no other one was
\* registered at its address (proxy.py:20-22).
THEOREM MapsAlwaysAgree == Spec => []MapsAgree
<1>1. IInv => MapsAgree
  BY DEF IInv, Registered
<1> QED BY <1>1, Inductive, PTL

\* However the objects refer to each other, cycles included, what put() has
\* allocated is written when it returns without an exception.
THEOREM PutWhole == Spec => []NothingHalfPut
<1>1. IInv => NothingHalfPut
  <2> SUFFICES ASSUME IInv, puts = << >>, ~ raised, NEW a \in DOMAIN memory, memory[a].val = None
               PROVE  FALSE
    BY DEF NothingHalfPut, Active
  <2>1. \E d \in 1 .. Len(puts) : obj[puts[d].object].ptr = a
    BY DEF IInv, Unwritten
  <2> QED BY <2>1
<1> QED BY <1>1, Inductive, PTL

LEMMA ReplaceLength ==
  ASSUME IInv, Active, NEW p
  PROVE  Len(Replace(p)) = Len(puts) /\ \A q : Len(Append(Replace(p), q)) = Len(puts) + 1
<1>1. puts \in Seq(Activation) /\ puts # << >> /\ Len(puts) \in Nat
  BY DEF IInv, Types, Active
<1> DEFINE S == Activation \cup {p}
<1>2. Rest \in Seq(S) /\ Len(Rest) = Len(puts) - 1
  <2>1. Rest \in Seq(Activation) /\ Len(Rest) = Len(puts) - 1
    BY <1>1, Underneath DEF Rest
  <2> QED BY <2>1
<1> HIDE DEF S
<1>3. Append(Rest, p) \in Seq(S) /\ Len(Append(Rest, p)) = Len(puts)
  BY <1>1, <1>2 DEF S
<1>4. ASSUME NEW q PROVE Len(Append(Replace(p), q)) = Len(puts) + 1
  <2>1. Replace(p) \in Seq(S \cup {q}) /\ Len(Replace(p)) = Len(puts)
    BY <1>3 DEF Replace
  <2> QED BY <2>1
<1> QED BY <1>3, <1>4 DEF Replace

\* Only the write of its struct takes a put off the stack.
LEMMA OnlyWriteReturns ==
  ASSUME IInv, [Next]_vars, Active, Len(puts') < Len(puts)
  PROVE  PutWrite
<1>1. Len(puts) \in Nat
  BY DEF IInv, Types
<1>2. ~ UNCHANGED vars
  BY <1>1 DEF vars
<1>3. ASSUME NEW p, puts' = Replace(p) PROVE FALSE
  BY <1>1, <1>3, ReplaceLength
<1>4. ASSUME NEW p, NEW o, NEW deep, NEW object, Enter(o, deep, Replace(p), object) PROVE FALSE
  <2>1. Len(puts') = Len(puts) + 1
    BY <1>4, ReplaceLength DEF Enter
  <2> QED BY <1>1, <2>1
<1>5. ~ PutCache
  <2> SUFFICES ASSUME PutCache PROVE FALSE
    OBVIOUS
  <2>1. \/ \E p : puts' = Replace(p)
        \/ \E p, o, deep, object : Enter(o, deep, Replace(p), object)
    BY DEF PutCache
  <2> QED BY <1>3, <1>4, <2>1
<1>6. ~ PutReturned
  BY <1>3 DEF PutReturned
<1>7. ~ PutDeep
  <2> SUFFICES ASSUME PutDeep PROVE FALSE
    OBVIOUS
  <2>1. \/ \E p : puts' = Replace(p)
        \/ \E p, o, deep, object : Enter(o, deep, Replace(p), object)
    BY DEF PutDeep
  <2> QED BY <1>3, <1>4, <2>1
<1>8. ~ (UserPut \/ SetCache \/ SetVal \/ UserGet \/ Deref \/ DerefNoCache \/ Run \/ Leave)
  BY DEF UserPut, SetCache, SetVal, UserGet, Deref, DerefNoCache, Run, Leave, Act
<1> QED BY <1>2, <1>5, <1>6, <1>7, <1>8 DEF Next

\* What the user made a pointer refer to is in memory once its struct is
\* written: the write finds no reference left, and what was meant was resolved
\* when the other object had its address.
THEOREM WrittenAsMeant == Spec => LinksAsMeant
<1> DEFINE o == Top.object
           last == \A d \in 1 .. Len(puts) - 1 : puts[d].object # o
           right(f) == memory'[obj[o].ptr].link[f]
                         = obj[meant[o][f].object].ptr + meant[o][f].offset
<1>1. ASSUME IInv, [Next]_vars, Active, Len(puts') < Len(puts), ~ raised', last,
             NEW f \in Field, meant[o][f] # NoFar
      PROVE  right(f)
  <2>1. PutWrite
    BY <1>1, OnlyWriteReturns
  <2>2. /\ Top.todo = << >> /\ Top.waits = << >> /\ raised' = raised
        /\ memory' = [memory EXCEPT ![obj[o].ptr] = Struct(o, @)]
    BY <1>1, <2>1 DEF PutWrite
  <2>3. /\ o \in Object /\ Going(obj, Top) /\ obj[o].ptr \in DOMAIN memory
        /\ Top = puts[Len(puts)] /\ Len(puts) \in Nat /\ Len(puts) >= 1
    BY <1>1, TopFacts
  <2>4. /\ Types /\ meant[o][f] \in Refs
        /\ memory \in [DOMAIN memory -> CStruct]
    BY <1>1, <2>3 DEF IInv, Types, Registered
  <2>5. obj[o].link[f].cache = NoFar
    <3>1. Range(Top.todo) = {}
      BY <2>2 DEF Range
    <3> QED BY <2>3, <3>1 DEF Going
  <2>6. ~ Awaited(o, f)
    <3> SUFFICES ASSUME NEW d \in 1 .. Len(puts), puts[d].object = o, puts[d].waits # << >>
                 PROVE  FALSE
      BY DEF Awaited
    <3>1. CASE d = Len(puts)
      BY <2>2, <2>3, <3>1
    <3>2. CASE d \in 1 .. Len(puts) - 1
      BY <1>1, <3>2
    <3> QED BY <2>3, <3>1, <3>2
  <2>7. Resolved(o, f)
    BY <1>1, <2>2, <2>3, <2>5, <2>6 DEF IInv, Linked
  <2>8. obj[o].link[f].ptr # None
    <3>1. meant[o][f].object \in Object /\ meant[o][f].offset \in Offset
      BY <1>1, <2>4, References
    <3>2. obj[meant[o][f].object].ptr \in Address
      BY <2>4, <2>7, <3>1 DEF Types, PyObject, Resolved
    <3> QED BY <2>7, <3>1, <3>2, Places0 DEF Resolved
  <2>9. memory'[obj[o].ptr].link[f] = obj[o].link[f].ptr
    <3>1. memory'[obj[o].ptr] = Struct(o, memory[obj[o].ptr])
      BY <2>2, <2>3
    <3> QED BY <2>8, <3>1 DEF Struct
  <2> QED BY <2>7, <2>9 DEF Resolved
<1>2. IInv /\ [Next]_vars =>
        (LET p == Top.object
         IN  Active /\ Len(puts') < Len(puts) /\ ~raised'
               /\ (\A d \in 1 .. Len(puts) - 1 : puts[d].object # p) =>
             \A f \in Field : meant[p][f] # NoFar =>
               memory'[obj[p].ptr].link[f] = obj[meant[p][f].object].ptr + meant[p][f].offset)
  BY <1>1
<1>3. Spec => [][ LET p == Top.object
                  IN  Active /\ Len(puts') < Len(puts) /\ ~raised'
                        /\ (\A d \in 1 .. Len(puts) - 1 : puts[d].object # p) =>
                      \A f \in Field : meant[p][f] # NoFar =>
                        memory'[obj[p].ptr].link[f]
                          = obj[meant[p][f].object].ptr + meant[p][f].offset ]_vars
  BY <1>2, Inductive, PTL DEF Spec
<1> QED BY <1>3 DEF LinksAsMeant

=============================================================================

----------------------------- MODULE StructProxy -----------------------------
(***************************************************************************)
(* Python objects that stand for structs in the interpreter's memory:      *)
(* StructProxy (proxy.py) with PyIRModuleInterpreter.set_struct and        *)
(* get_struct.  put() is recursive: an object it comes to over a cached    *)
(* reference, and does not know, is put first.  Its activations are the    *)
(* stack `puts`; one step handles one field or writes one struct.          *)
(* A struct has a value and pointer fields; a pointer leads to a struct or *)
(* to a member in it, `offset` behind its address.                         *)
(***************************************************************************)
EXTENDS Integers, Sequences, FiniteSets, Functions

CONSTANTS
  Object,     \* Python objects
  Fields,     \* the names of the pointer fields, in order
  Offset,     \* offsets of members, 0 the struct's own
  Address,    \* where structAlloc and the linker place structs
  Val,        \* values that fit the field
  Misfit,     \* a value that does not: struct.pack raises
  GlobalAddr, \* the address of the program's global
  NoObject,
  MaxOps      \* bound: what the user and the program do in all

ASSUME AddressAssumption ==
  /\ Address \subseteq Nat \ {0} /\ GlobalAddr \in Address
  /\ Offset \subseteq Nat /\ 0 \in Offset
  /\ \A a, b \in Address, x \in Offset : a + x = b => a = b
ASSUME ObjectAssumption == NoObject \notin Object /\ IsFiniteSet(Object) /\ MaxOps \in Nat
ASSUME FieldAssumption == Fields \in Seq(Range(Fields))

Field == Range(Fields)
None == -1  \* Python's None in PTR.ptr; in memory: uninitialised

ASSUME ValAssumption == None \notin Val

VARIABLES
  obj,               \* the objects: ptr is __ptr__.ptr, link the fields of kind PTR
  memory,            \* the interpreter's memory: address -> struct
  objectMap,         \* StructProxy.objectMap: address -> object
  reverseObjectMap,  \* StructProxy.reverseObjectMap: object -> address
  puts,              \* the activations of put(), innermost last
  raised,            \* has an exception come out of a call?
  meant,             \* what the user made a field refer to and has not changed since
  ops

vars == <<obj, memory, objectMap, reverseObjectMap, puts, raised, meant, ops>>
maps == <<objectMap, reverseObjectMap>>

Far(o, x) == [object |-> o, offset |-> x]  \* ObjectOffset
NoFar == [object |-> NoObject, offset |-> 0]
PTR(a, far) == [ptr |-> a, cache |-> far]

Blank(v) == [ptr |-> None, val |-> v, link |-> [f \in Field |-> PTR(None, NoFar)]]
Garbage == [val |-> None, link |-> [f \in Field |-> None]]

At(m, k, x) == [j \in DOMAIN m \cup {k} |-> IF j = k THEN x ELSE m[j]]

-----------------------------------------------------------------------------
\* put

Active == puts # << >>
Top == puts[Len(puts)]
Rest == SubSeq(puts, 1, Len(puts) - 1)
Replace(p) == Append(Rest, p)

Put(o, deep) ==
  [object |-> o, todo |-> Fields, waits |-> << >>, deep |-> IF deep THEN Fields ELSE << >>,
   uploaded |-> {}]

\* The generator of addresses goes on upwards.
structAlloc == {a \in Address \ DOMAIN memory : \A b \in Address \ DOMAIN memory : a <= b}

\* The first thing it does: an object without an address is allocated and
\* registered.
Enter(o, deep, stack, object) ==
  /\ puts' = Append(stack, Put(o, deep))
  /\ IF obj[o].ptr # None
     THEN obj' = object /\ UNCHANGED <<memory, maps>>
     ELSE \E a \in structAlloc :
            /\ obj' = [object EXCEPT ![o].ptr = a]
            /\ memory' = At(memory, a, Garbage)
            /\ objectMap' = At(objectMap, a, o)
            /\ reverseObjectMap' = At(reverseObjectMap, o, a)

\* Variant: without the offset of the member.
Settle_Base(o, f, far, object) ==
  [object EXCEPT ![o].link[f] = PTR(object[far.object].ptr, NoFar)]

\* ptr.ptr = new.ptr + offset
Settle(o, f, far, object) ==
  [object EXCEPT ![o].link[f] = PTR(object[far.object].ptr + far.offset, NoFar)]

Drop(o, f) == [obj EXCEPT ![o].link[f].cache = NoFar]

\* Variant: the reference is dropped when it has been resolved.
PutCache_Keep ==
  /\ Active /\ Top.todo # << >> /\ Top.waits = << >>
  /\ LET o == Top.object
         f == Head(Top.todo)
         far == obj[o].link[f].cache
         done == [Top EXCEPT !.todo = Tail(Top.todo)]
         waiting == [done EXCEPT !.waits = << [field |-> f, far |-> far] >>]
     IN  \/ /\ far = NoFar
            /\ puts' = Replace(done)
            /\ UNCHANGED <<obj, memory, maps>>
         \/ /\ far # NoFar /\ far.object \in DOMAIN reverseObjectMap
            /\ puts' = Replace(done)
            /\ obj' = Settle(o, f, far, obj)
            /\ UNCHANGED <<memory, maps>>
         \/ /\ far # NoFar /\ far.object \notin DOMAIN reverseObjectMap
            /\ Enter(far.object, FALSE, Replace(waiting), obj)
  /\ UNCHANGED <<raised, meant, ops>>

\* put_cache, one field: the cached reference is dropped, then resolved.
PutCache ==
  /\ Active /\ Top.todo # << >> /\ Top.waits = << >>
  /\ LET o == Top.object
         f == Head(Top.todo)
         far == obj[o].link[f].cache
         done == [Top EXCEPT !.todo = Tail(Top.todo)]
         waiting == [done EXCEPT !.waits = << [field |-> f, far |-> far] >>]
     IN  \/ /\ far = NoFar
            /\ puts' = Replace(done)
            /\ UNCHANGED <<obj, memory, maps>>
         \/ /\ far # NoFar /\ far.object \in DOMAIN reverseObjectMap
            /\ puts' = Replace(done)
            /\ obj' = Settle(o, f, far, obj)
            /\ UNCHANGED <<memory, maps>>
         \/ /\ far # NoFar /\ far.object \notin DOMAIN reverseObjectMap
            /\ Enter(far.object, FALSE, Replace(waiting), Drop(o, f))
  /\ UNCHANGED <<raised, meant, ops>>

\* The object a field refers to has been put.
PutReturned ==
  /\ Active /\ Top.waits # << >>
  /\ LET w == Top.waits[1]
     IN  obj' = Settle(Top.object, w.field, w.far, obj)
  /\ puts' = Replace([Top EXCEPT !.waits = << >>])
  /\ UNCHANGED <<memory, maps, raised, meant, ops>>

\* deep: the known objects the fields point to are put, one level down.
PutDeep ==
  /\ Active /\ Top.todo = << >> /\ Top.waits = << >> /\ Top.deep # << >>
  /\ LET a == obj[Top.object].link[Head(Top.deep)].ptr
         done == [Top EXCEPT !.deep = Tail(Top.deep)]
     IN  IF a \in DOMAIN objectMap \ ({obj[Top.object].ptr} \cup Top.uploaded)
         THEN Enter(objectMap[a], FALSE, Replace([done EXCEPT !.uploaded = @ \cup {a}]), obj)
         ELSE puts' = Replace(done) /\ UNCHANGED <<obj, memory, maps>>
  /\ UNCHANGED <<raised, meant, ops>>

\* set_struct: a pointer that is None is left out.
Struct(o, old) ==
  [val |-> obj[o].val,
   link |-> [f \in Field |-> IF obj[o].link[f].ptr = None THEN old.link[f]
                                                         ELSE obj[o].link[f].ptr]]

\* Variant: returns to the user at once.
PutWrite_All ==
  /\ Active /\ Top.todo = << >> /\ Top.waits = << >> /\ Top.deep = << >>
  /\ memory' = [memory EXCEPT ![obj[Top.object].ptr] = Struct(Top.object, @)]
  /\ puts' = << >>
  /\ UNCHANGED <<obj, maps, raised, meant, ops>>

\* Variant: puts the object again.
PutWrite_Again ==
  /\ Active /\ Top.todo = << >> /\ Top.waits = << >> /\ Top.deep = << >>
  /\ memory' = [memory EXCEPT ![obj[Top.object].ptr] = Struct(Top.object, @)]
  /\ puts' = Replace(Put(Top.object, FALSE))
  /\ UNCHANGED <<obj, maps, raised, meant, ops>>

\* The struct is written, member by member (and read back to be compared); an
\* exception leaves all activations and the members behind the misfit as they
\* were.
PutWrite ==
  /\ Active /\ Top.todo = << >> /\ Top.waits = << >> /\ Top.deep = << >>
  /\ \/ /\ obj[Top.object].val = Misfit
        /\ raised' = TRUE
        /\ puts' = << >>
        /\ LET a == obj[Top.object].ptr
               new == Struct(Top.object, memory[a]).link
           IN  \E before \in SUBSET Field :
                 memory' = [memory EXCEPT ![a].link = [f \in Field |-> IF f \in before THEN new[f] ELSE @[f]]]
     \/ /\ obj[Top.object].val # Misfit
        /\ memory' = [memory EXCEPT ![obj[Top.object].ptr] = Struct(Top.object, @)]
        /\ puts' = Rest
        /\ UNCHANGED raised
  /\ UNCHANGED <<obj, maps, meant, ops>>

-----------------------------------------------------------------------------
\* The user and the program, between the calls.

Act == ~Active /\ ops < MaxOps /\ ops' = ops + 1

UserPut ==
  /\ Act
  /\ \E o \in Object, deep \in BOOLEAN : Enter(o, deep, << >>, obj)
  /\ UNCHANGED <<raised, meant>>

\* field.cache = proxy.cache_offset(o2, ...)
SetCache ==
  /\ Act
  /\ \E o \in Object, f \in Field, p \in Object, x \in Offset :
       /\ obj' = [obj EXCEPT ![o].link[f].cache = Far(p, x)]
       /\ meant' = [meant EXCEPT ![o][f] = Far(p, x)]
  /\ UNCHANGED <<memory, maps, puts, raised>>

SetVal ==
  /\ Act
  /\ \E o \in Object, v \in Val \cup {Misfit} : obj' = [obj EXCEPT ![o].val = v]
  /\ UNCHANGED <<memory, maps, puts, raised, meant>>

\* get_struct: what is found at address a; uninitialised memory holds anything.
Found(a) ==
  {s \in [val : Val, link : [Field -> ({0, GlobalAddr} \cup Range(memory[a].link)) \ {None}]] :
     /\ memory[a].val \in {None, s.val}
     /\ \A f \in Field : memory[a].link[f] \in {None, s.link[f]}}

\* A cached reference stays, and the next put will use it.
Read(object, o, a, found) ==
  [object EXCEPT ![o].ptr = a, ![o].val = found.val,
                 ![o].link = [f \in Field |-> PTR(found.link[f], object[o].link[f].cache)]]

Forget(o) ==
  meant' = [meant EXCEPT ![o] = [f \in Field |-> IF obj[o].link[f].cache = NoFar
                                                   THEN NoFar ELSE @[f]]]

\* Variant: registers the address only.
Get_OneMap(o, a) ==
  /\ \E found \in Found(a) : obj' = Read(obj, o, a, found)
  /\ objectMap' = At(objectMap, a, o)
  /\ Forget(o)
  /\ UNCHANGED reverseObjectMap

Get(o, a) ==
  /\ \E found \in Found(a) : obj' = Read(obj, o, a, found)
  /\ objectMap' = At(objectMap, a, o)
  /\ reverseObjectMap' = At(reverseObjectMap, o, a)
  /\ Forget(o)

\* get of an object: from its address, or from the one of a given pointer.
UserGet ==
  /\ Act
  /\ \E o \in Object, a \in DOMAIN memory : obj[o].ptr \in {None, a} /\ Get(o, a)
  /\ UNCHANGED <<memory, puts, raised>>

\* ptr.cls(): an object nobody refers to yet.
Fresh(o) ==
  /\ \E v \in Val : obj[o] = Blank(v)
  /\ \A p \in Object, f \in Field : obj[p].link[f].cache.object # o

\* deref of an address, Global() for one: the object that is known for it, or
\* a new one.
Deref ==
  /\ Act
  /\ \E a \in {GlobalAddr} \cup {obj[o].link[f].ptr : o \in Object, f \in Field} :
       /\ a \in DOMAIN memory \ DOMAIN objectMap
       /\ \E o \in Object : Fresh(o) /\ Get(o, a)
  /\ UNCHANGED <<memory, puts, raised>>

\* deref_no_cache, and container_of with force_new: a new object that is not
\* registered.
DerefNoCache ==
  /\ Act
  /\ \E a \in DOMAIN memory, o \in Object : \E found \in Found(a) :
       Fresh(o) /\ obj' = Read(obj, o, a, found)
  /\ UNCHANGED <<memory, maps, puts, raised, meant>>

\* The program runs and changes a struct.
Run ==
  /\ Act
  /\ \E a \in DOMAIN memory, v \in Val, f \in Field, b \in {0, GlobalAddr} :
       memory' = [memory EXCEPT ![a].val = v, ![a].link[f] = b]
  /\ UNCHANGED <<obj, maps, puts, raised, meant>>

\* The user leaves it at that.
Leave == ~Active /\ UNCHANGED vars

Init ==
  /\ \E v \in Val : obj = [o \in Object |-> Blank(v)]
  /\ \E v \in Val : memory = [a \in {GlobalAddr} |-> [val |-> v, link |-> [f \in Field |-> 0]]]
  /\ objectMap = << >> /\ reverseObjectMap = << >>
  /\ puts = << >> /\ raised = FALSE
  /\ meant = [o \in Object |-> [f \in Field |-> NoFar]]
  /\ ops = 0

Next ==
  \/ PutCache \/ PutReturned \/ PutDeep \/ PutWrite
  \/ UserPut \/ SetCache \/ SetVal \/ UserGet \/ Deref \/ DerefNoCache \/ Run \/ Leave

Spec == Init /\ [][Next]_vars

\* A call that has begun goes on.
FairSpec == Spec /\ WF_vars(PutCache \/ PutReturned \/ PutDeep \/ PutWrite)

-----------------------------------------------------------------------------
Refs == {Far(o, x) : o \in Object, x \in Offset} \cup {NoFar}
Places == {None, 0} \cup {a + x : a \in Address, x \in Offset}

\* Each part has its type, and put() does not go deeper than there are
\* references to follow, cycles or not.  (put_cache: ptr.cache = None.)
TypeOK ==
  /\ obj \in [Object -> [ptr : Address \cup {None}, val : Val \cup {Misfit},
                         link : [Field -> [ptr : Places, cache : Refs]]]]
  /\ memory \in [DOMAIN memory -> [val : Val \cup {None}, link : [Field -> Places]]]
  /\ DOMAIN memory \subseteq Address /\ DOMAIN objectMap \subseteq DOMAIN memory
  /\ Range(objectMap) \subseteq Object /\ DOMAIN reverseObjectMap \subseteq Object
  /\ Len(puts) <= 2 + Cardinality(Object \X Field)

\* What objectMap has at an address is an object which is there and which
\* reverseObjectMap knows.  A registered object is found at its address, unless
\* another one has been registered there: then at least one is found ("multiple
\* obj could have the same address", proxy.py:20-22).
MapsAgree ==
  /\ \A a \in DOMAIN objectMap :
       objectMap[a] \in DOMAIN reverseObjectMap /\ obj[objectMap[a]].ptr = a
  /\ \A o \in DOMAIN reverseObjectMap :
       /\ reverseObjectMap[o] = obj[o].ptr /\ obj[o].ptr \in DOMAIN objectMap
       /\ (\A p \in DOMAIN reverseObjectMap \ {o} : obj[p].ptr # obj[o].ptr) =>
            objectMap[obj[o].ptr] = o

\* When no call has failed, every struct that has been allocated has also been
\* written, however the objects refer to each other.
NothingHalfPut ==
  ~Active /\ ~raised => \A a \in DOMAIN memory : memory[a].val # None

\* A struct goes into memory with its pointers to what the user made them refer
\* to, objects not yet put and members of objects included.  (An inner put of
\* an object that an outer one is still about is not its last.)
LinksAsMeant ==
  [][ LET o == Top.object
      IN  Active /\ Len(puts') < Len(puts) /\ ~raised'
            /\ (\A d \in 1 .. Len(puts) - 1 : puts[d].object # o) =>
          \A f \in Field : meant[o][f] # NoFar =>
            memory'[obj[o].ptr].link[f] = obj[meant[o][f].object].ptr + meant[o][f].offset ]_vars

\* put() comes to an end.
PutEnds == Active ~> ~Active

\* "or enable deep: proxy.put(t[0], true)" instead of putting t[0], t[1] and
\* t[2] (test-appl/dlist/run_dlist.py:70-73): what the object leads to over
\* objects the proxy knows is in memory afterwards (no two objects being at one
\* address).
Leads(S) ==
  S \cup {objectMap[a] : a \in DOMAIN objectMap \cap
                               {obj[o].link[f].ptr : o \in S, f \in Field}}
DeepUploads ==
  [][ /\ Len(puts) = 1 /\ puts' = << >> /\ ~raised' /\ Top.uploaded # {}
      /\ \A o, p \in Object : obj[o].ptr = obj[p].ptr /\ o # p => obj[o].ptr = None
      =>
        \A o \in Leads(Leads(Leads({Top.object}))) :
          memory'[obj[o].ptr] = Struct(o, memory'[obj[o].ptr]) ]_vars

=============================================================================

---------------------------- MODULE MapAllocator ----------------------------
(***************************************************************************)
(* The memory map of an interpreter: MapAllocator and its linear address   *)
(* generator (irinterpreter2-mmap.cc), driven by the three places that use *)
(* them (irinterpreter2-interpreter.cc):                                   *)
(*   - createInterpreter maps every global and every function and freezes  *)
(*     the generator;                                                      *)
(*   - MyInterpreter::malloc adds allocations a reset has to release;      *)
(*   - resetExtraAllocations frees those one by one and takes the          *)
(*     generator back to where it was frozen; the destructor frees all.    *)
(* The program is sequential.  The two loops that free are modelled one    *)
(* iteration per step: `phase` lets nothing else run in between.           *)
(***************************************************************************)
EXTENDS Integers, Sequences, FiniteSets, Functions

CONSTANTS
  Host,       \* blocks of host memory: what malloc or the engine hands out
  Node,       \* addresses of list nodes in allocationsHolder
  Size,       \* the sizes in bytes that are asked for
  StartAddr,  \* LinearVirtualMemoryAddressGenerator::startAddr
  VVSize      \* LinearVirtualMemoryAddressGenerator::vvsize

ASSUME SizeAssumption == Size \subseteq Nat
ASSUME WindowAssumption == StartAddr \in Nat /\ VVSize \in Nat

EndAddr == StartAddr + VVSize

VARIABLES
  holder,         \* allocationsHolder: live list nodes and what they hold
  vvmem_start,    \* first address of an allocation -> its list node
  vvmem_end,      \* one past the last address      -> its list node
  allocations,    \* IRXAllocator::allocations: blocks this allocator frees
  lastAllocAddr,  \* the next address the generator gives out
  freezeStack,    \* the addresses freeze() pushed
  recorded,       \* MyInterpreter::allocations: what a reset has to free
  heap,           \* blocks of the C heap that are allocated
  globalMem,      \* blocks the execution engine holds globals and code in
  phase           \* where the life of the interpreter is

maps == <<holder, vvmem_start, vvmem_end>>
generator == <<lastAllocAddr, freezeStack>>
vars == <<maps, generator, allocations, recorded, heap, globalMem, phase>>

Phase == { "globals", "functions", "running", "resetting", "destroying",
           "destroyed", "exhausted", "overlap", "crashed" }

-----------------------------------------------------------------------------
\* std::map

Insert(m, k, x) == [j \in DOMAIN m \cup {k} |-> IF j = k THEN x ELSE m[j]]
Erase(m, k) == Restrict(m, DOMAIN m \ {k})

\* The greatest key not above v, and the least not below it, as sets of at
\* most one key: empty where the code gets end().
find_start(v) ==
  {k \in DOMAIN vvmem_start :
     k <= v /\ \A j \in DOMAIN vvmem_start : j <= v => j <= k}
find_end_Strict(v) ==  \* variant: > for >=
  {k \in DOMAIN vvmem_end :
     v < k /\ \A j \in DOMAIN vvmem_end : v < j => k <= j}
find_end(v) ==
  {k \in DOMAIN vvmem_end :
     v <= k /\ \A j \in DOMAIN vvmem_end : v <= j => k <= j}

has(v) == find_start(v) # {} /\ find_end(v) # {}

\* The start and end keys IRXAllocator::find returns: a pair only if both
\* point to the same list node.  (The code also dereferences end(); what it
\* reads there is never the address of a list node's data.)
find(v) ==
  {p \in find_start(v) \X find_end(v) : vvmem_start[p[1]] = vvmem_end[p[2]]}

-----------------------------------------------------------------------------
\* Translation.  A pointer is a host block and an offset, or null, or an
\* address the map leaves as it is.

HostPtr(h, offset) == [kind |-> "host", vptr |-> h, offset |-> offset]
NullPtr == [kind |-> "null"]
Untouched(v) == [kind |-> "untouched", addr |-> v]

\* IRXAllocator::vvptr2vptr
translate(v) ==
  IF find(v) = {} THEN NullPtr
  ELSE LET s == (CHOOSE p \in find(v) : TRUE)[1]
       IN  HostPtr(holder[vvmem_start[s]].vptr, v - s)

\* the function vvptr2vptr
vvptr2vptr(v) == IF has(v) THEN translate(v) ELSE Untouched(v)

\* IRXAllocator::find_vvptr and vptr2vvptr: exact base addresses only, the
\* first in address order; 0 for anything else.
find_vvptr_End(h) ==  \* variant: searches vvmem_end
  {k \in DOMAIN vvmem_end :
     /\ holder[vvmem_end[k]].vptr = h
     /\ \A j \in DOMAIN vvmem_end : holder[vvmem_end[j]].vptr = h => k <= j}
find_vvptr(h) ==
  {k \in DOMAIN vvmem_start :
     /\ holder[vvmem_start[k]].vptr = h
     /\ \A j \in DOMAIN vvmem_start : holder[vvmem_start[j]].vptr = h => k <= j}
vptr2vvptr(h) ==
  IF find_vvptr(h) = {} THEN 0 ELSE CHOOSE k \in find_vvptr(h) : TRUE

-----------------------------------------------------------------------------
\* Variant: rounds the size up, and gives size 0 no address of its own.
Advance_Tight(size) == ((size + 3) \div 4) * 4

\* What the generator advances by: (size + 4) & ~3.
Advance(size) == ((size + 4) \div 4) * 4

put(vvptr, h, size) ==
  \E n \in Node \ DOMAIN holder :
    /\ holder' = Insert(holder, n, [vptr |-> h, size |-> size])
    /\ vvmem_start' = Insert(vvmem_start, vvptr, n)
    /\ vvmem_end' = Insert(vvmem_end, vvptr + size, n)

\* Variant: the end key stays.
remove_KeepEnd(p) ==
  LET vptr == holder[vvmem_start[p[1]]].vptr
  IN  /\ vvmem_start' = Erase(vvmem_start, p[1])
      /\ holder' = Restrict(holder, {n \in DOMAIN holder : holder[n].vptr # vptr})
      /\ UNCHANGED vvmem_end

\* remove_if drops every node that holds the same block.
remove(p) ==
  LET vptr == holder[vvmem_start[p[1]]].vptr
  IN  /\ vvmem_start' = Erase(vvmem_start, p[1])
      /\ vvmem_end' = Erase(vvmem_end, p[2])
      /\ holder' = Restrict(holder, {n \in DOMAIN holder : holder[n].vptr # vptr})

\* MapAllocator::add, with the generator's next() inlined; mapping it or one
\* of the two exit(EXIT_FAILURE).  `found` is the phase to go on in.
add(h, size, found) ==
  LET vvmem == lastAllocAddr
      fits == vvmem + Advance(size) <= EndAddr
      overlaps == find(vvmem) # {} \/ find(vvmem + size + 1) # {}
  IN  /\ lastAllocAddr' = vvmem + Advance(size)
      /\ \/ ~fits /\ phase' = "exhausted" /\ UNCHANGED maps
         \/ fits /\ overlaps /\ phase' = "overlap" /\ UNCHANGED maps
         \/ fits /\ ~overlaps /\ phase' = found /\ put(vvmem, h, size)

\* Variant: never gives the block back.
free_Leak(vvptr, found) ==
  \E p \in find(vvptr) :
    /\ remove(p)
    /\ phase' = found
    /\ UNCHANGED <<allocations, heap>>

\* MapAllocator::free: the block goes back to the C heap only if this
\* allocator got it there.  Without an allocation at vvptr the assertion
\* fails, or end() is dereferenced.
free(vvptr, found) ==
  \/ /\ find(vvptr) = {}
     /\ phase' = "crashed"
     /\ UNCHANGED <<maps, allocations, heap>>
  \/ \E p \in find(vvptr) :
       LET own == {holder[vvmem_start[p[1]]].vptr} \cap allocations
       IN  /\ heap' = heap \ own
           /\ allocations' = allocations \ own
           /\ remove(p)
           /\ phase' = found

-----------------------------------------------------------------------------
Init ==
  /\ holder = << >> /\ vvmem_start = << >> /\ vvmem_end = << >>
  /\ lastAllocAddr = StartAddr /\ freezeStack = << >>
  /\ allocations = {} /\ recorded = << >>
  /\ heap = {} /\ globalMem = {}
  /\ phase = "globals"

Unused(h) == h \notin heap \cup globalMem

\* Variant: goes through MyInterpreter::malloc's list.
mapObject_Recorded(h, size, loop) ==
  /\ Unused(h)
  /\ globalMem' = globalMem \cup {h}
  /\ add(h, size, loop)
  /\ recorded' = Append(recorded, lastAllocAddr)
  /\ UNCHANGED <<freezeStack, allocations, heap>>

\* MyInterpreter::updateGlobalMappings: the globals, which the execution
\* engine has given memory, then the functions, one byte each.
mapObject(h, size, loop) ==
  /\ Unused(h)
  /\ globalMem' = globalMem \cup {h}
  /\ add(h, size, loop)
  /\ UNCHANGED <<freezeStack, allocations, recorded, heap>>

MapGlobal == phase = "globals" /\ \E h \in Host, size \in Size : mapObject(h, size, "globals")

MapFunction == phase \in {"globals", "functions"} /\ \E h \in Host : mapObject(h, 1, "functions")

\* The end of createInterpreter, with MapAllocator::freeze.
Freeze ==
  /\ phase \in {"globals", "functions"}
  /\ freezeStack' = Append(freezeStack, lastAllocAddr)
  /\ phase' = "running"
  /\ UNCHANGED <<maps, lastAllocAddr, allocations, recorded, heap, globalMem>>

\* MyInterpreter::malloc and MapAllocator::malloc
Malloc ==
  /\ phase = "running"
  /\ \E h \in Host, size \in Size :
       /\ Unused(h)
       /\ heap' = heap \cup {h}
       /\ allocations' = allocations \cup {h}
       /\ add(h, size, "running")
  /\ recorded' = IF phase' = "running" THEN Append(recorded, lastAllocAddr) ELSE recorded
  /\ UNCHANGED <<freezeStack, globalMem>>

\* One iteration of the loop of resetExtraAllocations.  The code clears the
\* list when the loop has ended; nothing reads it before.
ResetFree ==
  /\ phase \in {"running", "resetting"}
  /\ recorded # << >>
  /\ free(Head(recorded), "resetting")
  /\ recorded' = Tail(recorded)
  /\ UNCHANGED <<generator, globalMem>>

\* Variant: the loop ends after its first iteration.
ResetDone_Early ==
  /\ phase \in {"running", "resetting"}
  /\ recorded = << >> \/ phase = "resetting"
  /\ recorded' = << >>
  /\ lastAllocAddr' = freezeStack[Len(freezeStack)]
  /\ phase' = "running"
  /\ UNCHANGED <<maps, freezeStack, allocations, heap, globalMem>>

\* Variant: frees, but does not rewind.
ResetDone_NoRewind ==
  /\ phase \in {"running", "resetting"}
  /\ recorded = << >>
  /\ phase' = "running"
  /\ UNCHANGED <<maps, generator, allocations, recorded, heap, globalMem>>

\* The rest of it: reset() takes the generator back and pops the mark (an
\* empty stack is undefined behaviour), freeze() pushes it again.
ResetDone ==
  /\ phase \in {"running", "resetting"}
  /\ recorded = << >>
  /\ \/ /\ freezeStack = << >>
        /\ phase' = "crashed"
        /\ UNCHANGED generator
     \/ /\ freezeStack # << >>
        /\ LET mark == freezeStack[Len(freezeStack)]
           IN  /\ lastAllocAddr' = mark
               /\ freezeStack' =
                    Append(SubSeq(freezeStack, 1, Len(freezeStack) - 1), mark)
        /\ phase' = "running"
  /\ UNCHANGED <<maps, allocations, recorded, heap, globalMem>>

\* Variant: looks for the second allocation.
DestroyFree_Skip ==
  /\ phase \in {"running", "destroying"}
  /\ \E first \in DOMAIN vvmem_start :
       /\ \E k \in DOMAIN vvmem_start : k < first
       /\ free(first, "destroying")
  /\ UNCHANGED <<generator, recorded, globalMem>>

\* ~MapAllocator frees from the lowest address on; then ~ExecutionEngine
\* gives the memory of the globals back.
DestroyFree ==
  /\ phase \in {"running", "destroying"}
  /\ \E first \in DOMAIN vvmem_start :
       /\ \A k \in DOMAIN vvmem_start : first <= k
       /\ free(first, "destroying")
  /\ UNCHANGED <<generator, recorded, globalMem>>

DestroyDone ==
  /\ phase \in {"running", "destroying"}
  /\ DOMAIN vvmem_start = {}
  /\ globalMem' = {}
  /\ phase' = "destroyed"
  /\ UNCHANGED <<maps, generator, allocations, recorded, heap>>

\* The process has ended, or the interpreter is gone.
Stopped == phase \in {"exhausted", "destroyed"} /\ UNCHANGED vars

Next ==
  \/ MapGlobal \/ MapFunction \/ Freeze
  \/ Malloc
  \/ ResetFree \/ ResetDone
  \/ DestroyFree \/ DestroyDone
  \/ Stopped

\* The two loops do not pause: what is under way is brought to its end.
Fairness ==
  /\ WF_vars(phase = "resetting" /\ (ResetFree \/ ResetDone))
  /\ WF_vars(phase = "destroying" /\ (DestroyFree \/ DestroyDone))

Spec == Init /\ [][Next]_vars
FairSpec == Spec /\ Fairness

-----------------------------------------------------------------------------
\* What it means: the regions the two maps and the list stand for.

Region(k) ==
  [base |-> k, size |-> holder[vvmem_start[k]].size,
   vptr |-> holder[vvmem_start[k]].vptr]
Regions == {Region(k) : k \in DOMAIN vvmem_start}

Space == INSTANCE AddressSpace
           WITH regions <- Regions, Address <- StartAddr .. EndAddr,
                Size <- Size \cup {1}

\* Every step of the allocator is a step of the abstract address space:
\* regions appear whole, apart from all others, and go away whole.
\* (MapAllocator::add and free.)
ImplementsAddressSpace == Space!Spec

Live == {"globals", "functions", "running", "resetting", "destroying"}

MapsTypeOK ==
  /\ holder \in [DOMAIN holder -> [vptr : Host, size : Nat]]
  /\ DOMAIN holder \subseteq Node
  /\ vvmem_start \in [DOMAIN vvmem_start -> DOMAIN holder]
  /\ vvmem_end \in [DOMAIN vvmem_end -> DOMAIN holder]
  /\ DOMAIN vvmem_start \subseteq Nat /\ DOMAIN vvmem_end \subseteq Nat

\* Each variable holds a value of its type, and no map points to a list node
\* that has been freed.  (IRXAllocator, irinterpreter2-mmap.h.)
TypeOK ==
  /\ MapsTypeOK
  /\ lastAllocAddr \in Nat /\ freezeStack \in Seq(Nat) /\ recorded \in Seq(Nat)
  /\ allocations \subseteq Host /\ heap \subseteq Host /\ globalMem \subseteq Host
  /\ phase \in Phase

\* The nearest-start, nearest-end search of IRXAllocator::find resolves an
\* address exactly when an allocation covers it, to that allocation's block
\* and the offset in it; every other address is null or left alone, and left
\* alone whenever it lies outside of the generator's window.
TranslationExact ==
  \A v \in 0 .. EndAddr + 1 :
    /\ \A r \in Regions :
         Space!Covers(r, v) => vvptr2vptr(v) = HostPtr(r.vptr, v - r.base)
    /\ (\A r \in Regions : ~Space!Covers(r, v)) =>
         vvptr2vptr(v) \in {NullPtr, Untouched(v)}
    /\ v \notin StartAddr .. EndAddr => vvptr2vptr(v) = Untouched(v)

\* A block's address as the program sees it leads back to the block and the
\* other way round: what storing a function pointer (vptr2vvptr) and calling
\* through it (findFunctionByVVPtr) rely on.
BaseRoundTrip ==
  \A r \in Regions :
    /\ vptr2vvptr(r.vptr) = r.base
    /\ vvptr2vptr(vptr2vvptr(r.vptr)) = HostPtr(r.vptr, 0)

\* The overlap check of add() never fires, no free() misses its allocation
\* and reset() always finds a mark.
NoAbort == phase \notin {"overlap", "crashed"}

\* Host blocks are neither leaked nor used after they are freed: what the
\* map shows is live memory, the C heap holds what a reset or the destructor
\* will still free, and nothing outlives the interpreter.
BlocksAccounted ==
  /\ \A r \in Regions : r.vptr \in heap \cup globalMem
  /\ phase \in Live => heap \cup globalMem = {r.vptr : r \in Regions} \cup
       (IF phase = "destroying" THEN globalMem ELSE {})
  /\ phase = "running" => heap = {holder[vvmem_start[k]].vptr : k \in Range(recorded)}
  /\ phase = "destroyed" => heap = {} /\ Regions = {}

Mark == freezeStack[1]

\* An interpreter nothing was allocated in since it was created or reset is
\* in the state createInterpreter left it in: the next malloc returns the
\* address it returned the first time.  (resetExtraAllocations: "clean reuse".)
FreshAfterReset ==
  phase = "running" =>
    /\ Len(freezeStack) = 1
    /\ Range(recorded) = {k \in DOMAIN vvmem_start : Mark <= k}
    /\ recorded = << >> => lastAllocAddr = Mark

\* No malloc and no reset moves, resizes or drops a global or a function.
Globals == {r \in Regions : r.base < Mark}
Created == phase \in {"running", "resetting"}
GlobalsStay == [][Created /\ Created' => Globals' = Globals /\ Mark' = Mark]_vars

\* The freeing loops end: a reset gives the interpreter back and the
\* destructor leaves nothing allocated.
LoopsEnd ==
  /\ phase = "resetting" ~> phase = "running"
  /\ phase = "destroying" ~> (phase = "destroyed" /\ heap = {})

=============================================================================

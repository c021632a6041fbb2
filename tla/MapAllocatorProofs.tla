------------------------- MODULE MapAllocatorProofs -------------------------
(***************************************************************************)
(* Proofs about MapAllocator, for any number of host blocks, any sizes and *)
(* any window.                                                             *)
(***************************************************************************)
EXTENDS MapAllocator, SequenceTheorems, TLAPS

\* The one-past-the-end address, and the host block, of the allocation at k.
Top(k) == k + holder[vvmem_start[k]].size
Block(k) == holder[vvmem_start[k]].vptr

EndsMatch ==
  /\ \A k \in DOMAIN vvmem_start :
       Top(k) \in DOMAIN vvmem_end /\ vvmem_end[Top(k)] = vvmem_start[k]
  /\ \A e \in DOMAIN vvmem_end :
       \E k \in DOMAIN vvmem_start : vvmem_end[e] = vvmem_start[k] /\ e = Top(k)

Disjoint == \A j, k \in DOMAIN vvmem_start : j < k => Top(j) < k

BlocksDiffer == \A j, k \in DOMAIN vvmem_start : Block(j) = Block(k) => j = k

InWindow ==
  /\ StartAddr <= lastAllocAddr
  /\ \A k \in DOMAIN vvmem_start :
       StartAddr <= k /\ Top(k) < lastAllocAddr /\ Top(k) < EndAddr

MapInv == EndsMatch /\ Disjoint /\ BlocksDiffer /\ InWindow

-----------------------------------------------------------------------------
\* The rounding in LinearVirtualMemoryAddressGenerator::next leaves room for
\* the one-past-the-end address, size 0 included.
LEMMA AdvanceRoom ==
  ASSUME NEW size \in Nat
  PROVE  Advance(size) \in Nat /\ size + 1 <= Advance(size)
BY DEF Advance

LEMMA Numbers ==
  ASSUME TypeOK, NEW k \in DOMAIN vvmem_start
  PROVE  /\ k \in Nat /\ Top(k) \in Nat /\ k <= Top(k)
         /\ holder[vvmem_start[k]].size \in Nat
         /\ Block(k) \in Host
         /\ vvmem_start[k] \in DOMAIN holder
BY DEF TypeOK, MapsTypeOK, Top, Block

\* IRXAllocator::find on an address an allocation covers.
LEMMA FindCovered ==
  ASSUME TypeOK, MapInv, NEW k \in DOMAIN vvmem_start, NEW v \in Nat,
         k <= v, v <= Top(k)
  PROVE  /\ find_start(v) = {k} /\ find_end(v) = {Top(k)}
         /\ find(v) = {<<k, Top(k)>>}
<1>1. find_start(v) = {k}
  <2>1. ASSUME NEW j \in DOMAIN vvmem_start, j <= v PROVE j <= k
    BY <2>1, Numbers DEF MapInv, Disjoint
  <2> QED BY <2>1, Numbers DEF find_start
<1>2. find_end(v) = {Top(k)}
  <2>1. Top(k) \in DOMAIN vvmem_end
    BY DEF MapInv, EndsMatch
  <2>2. ASSUME NEW e \in DOMAIN vvmem_end, v <= e PROVE Top(k) <= e
    <3>1. PICK j \in DOMAIN vvmem_start : e = Top(j)
      BY DEF MapInv, EndsMatch
    <3> QED BY <2>2, <3>1, Numbers DEF MapInv, Disjoint
  <2>3. DOMAIN vvmem_end \subseteq Nat
    BY DEF TypeOK, MapsTypeOK
  <2> QED BY <2>1, <2>2, <2>3, Numbers DEF find_end
<1>3. vvmem_end[Top(k)] = vvmem_start[k]
  BY DEF MapInv, EndsMatch
<1> QED BY <1>1, <1>2, <1>3 DEF find

\* And on one no allocation covers.
LEMMA FindMiss ==
  ASSUME TypeOK, MapInv, NEW v \in Nat,
         \A k \in DOMAIN vvmem_start : ~(k <= v /\ v <= Top(k))
  PROVE  find(v) = {}
<1> SUFFICES ASSUME NEW p \in find(v) PROVE FALSE
  OBVIOUS
<1>1. /\ p[1] \in DOMAIN vvmem_start /\ p[1] <= v
      /\ p[2] \in DOMAIN vvmem_end /\ v <= p[2]
      /\ vvmem_start[p[1]] = vvmem_end[p[2]]
  BY DEF find, find_start, find_end
<1>2. PICK j \in DOMAIN vvmem_start : vvmem_end[p[2]] = vvmem_start[j] /\ p[2] = Top(j)
  BY <1>1 DEF MapInv, EndsMatch
<1>3. j = p[1]
  BY <1>1, <1>2 DEF MapInv, BlocksDiffer, Block
<1> QED BY <1>1, <1>2, <1>3
-----------------------------------------------------------------------------
\* What IRXAllocator::put does to the maps, seen through Top and Block.
LEMMA PutFacts ==
  ASSUME TypeOK, MapInv, NEW h \in Host, NEW size \in Nat,
         put(lastAllocAddr, h, size)
  PROVE  /\ lastAllocAddr \notin DOMAIN vvmem_start
         /\ lastAllocAddr + size \notin DOMAIN vvmem_end
         /\ DOMAIN vvmem_start' = DOMAIN vvmem_start \cup {lastAllocAddr}
         /\ DOMAIN vvmem_end' = DOMAIN vvmem_end \cup {lastAllocAddr + size}
         /\ \A k \in DOMAIN vvmem_start :
              /\ vvmem_start'[k] = vvmem_start[k]
              /\ holder'[vvmem_start'[k]] = holder[vvmem_start[k]]
         /\ \A e \in DOMAIN vvmem_end : vvmem_end'[e] = vvmem_end[e]
         /\ vvmem_start'[lastAllocAddr] = vvmem_end'[lastAllocAddr + size]
         /\ holder'[vvmem_start'[lastAllocAddr]] = [vptr |-> h, size |-> size]
         /\ MapsTypeOK'
<1> DEFINE vv == lastAllocAddr
<1>1. vv \in Nat
  BY DEF TypeOK, MapsTypeOK
<1>2. PICK n \in Node \ DOMAIN holder :
        /\ holder' = Insert(holder, n, [vptr |-> h, size |-> size])
        /\ vvmem_start' = Insert(vvmem_start, vv, n)
        /\ vvmem_end' = Insert(vvmem_end, vv + size, n)
  BY DEF put
<1>3. vv \notin DOMAIN vvmem_start /\ vv + size \notin DOMAIN vvmem_end
  <2>1. \A k \in DOMAIN vvmem_start : Top(k) < vv /\ k < vv
    BY <1>1, Numbers DEF MapInv, InWindow
  <2> QED BY <1>1, <2>1, Numbers DEF MapInv, EndsMatch
<1>4. /\ DOMAIN vvmem_start' = DOMAIN vvmem_start \cup {vv}
      /\ DOMAIN vvmem_end' = DOMAIN vvmem_end \cup {vv + size}
      /\ DOMAIN holder' = DOMAIN holder \cup {n}
  BY <1>2 DEF Insert
<1>5. /\ \A k \in DOMAIN vvmem_start : vvmem_start'[k] = vvmem_start[k]
      /\ \A e \in DOMAIN vvmem_end : vvmem_end'[e] = vvmem_end[e]
      /\ \A m \in DOMAIN holder : holder'[m] = holder[m]
      /\ vvmem_start'[vv] = n /\ vvmem_end'[vv + size] = n
      /\ holder'[n] = [vptr |-> h, size |-> size]
  BY <1>2, <1>3 DEF Insert
<1>6. holder' \in [DOMAIN holder' -> [vptr : Host, size : Nat]]
  BY <1>2 DEF Insert, TypeOK, MapsTypeOK
<1>7. /\ vvmem_start' \in [DOMAIN vvmem_start' -> DOMAIN holder']
      /\ vvmem_end' \in [DOMAIN vvmem_end' -> DOMAIN holder']
  BY <1>2, <1>4 DEF Insert, TypeOK, MapsTypeOK
<1>8. \A k \in DOMAIN vvmem_start : holder'[vvmem_start'[k]] = holder[vvmem_start[k]]
  BY <1>5, Numbers
<1> QED BY <1>3, <1>4, <1>5, <1>6, <1>7, <1>8 DEF TypeOK, MapsTypeOK

\* The same, for the new allocation's base as a value of its own.
LEMMA PutView ==
  ASSUME TypeOK, MapInv, NEW h \in Host, NEW size \in Nat,
         NEW vv \in Nat, vv = lastAllocAddr, put(lastAllocAddr, h, size)
  PROVE  /\ DOMAIN vvmem_start' = DOMAIN vvmem_start \cup {vv}
         /\ vv \notin DOMAIN vvmem_start
         /\ \A k \in DOMAIN vvmem_start : Top(k)' = Top(k) /\ Block(k)' = Block(k)
         /\ Top(vv)' = vv + size /\ Block(vv)' = h
<1>1. /\ vv \notin DOMAIN vvmem_start
      /\ DOMAIN vvmem_start' = DOMAIN vvmem_start \cup {vv}
      /\ \A k \in DOMAIN vvmem_start : holder'[vvmem_start'[k]] = holder[vvmem_start[k]]
      /\ holder'[vvmem_start'[vv]] = [vptr |-> h, size |-> size]
  BY PutFacts
<1> QED BY <1>1 DEF Top, Block

\* A new allocation keeps the maps in order, if the generator moves past it
\* and its block is not mapped yet.
LEMMA PutMapInv ==
  ASSUME TypeOK, MapInv, NEW h \in Host, NEW size \in Nat,
         put(lastAllocAddr, h, size),
         lastAllocAddr' = lastAllocAddr + Advance(size),
         lastAllocAddr' <= EndAddr,
         \A k \in DOMAIN vvmem_start : Block(k) # h
  PROVE  MapInv'
<1>0. PICK vv \in Nat : vv = lastAllocAddr
  BY DEF TypeOK, MapsTypeOK
<1> DEFINE Old == DOMAIN vvmem_start
<1>a. /\ vv \notin Old /\ vv + size \notin DOMAIN vvmem_end
      /\ DOMAIN vvmem_start' = Old \cup {vv}
      /\ DOMAIN vvmem_end' = DOMAIN vvmem_end \cup {vv + size}
      /\ \A k \in Old :
           /\ vvmem_start'[k] = vvmem_start[k]
           /\ holder'[vvmem_start'[k]] = holder[vvmem_start[k]]
      /\ \A e \in DOMAIN vvmem_end : vvmem_end'[e] = vvmem_end[e]
      /\ vvmem_start'[vv] = vvmem_end'[vv + size]
      /\ holder'[vvmem_start'[vv]] = [vptr |-> h, size |-> size]
  BY <1>0, PutFacts
<1>1. /\ \A k \in Old : Top(k)' = Top(k) /\ Block(k)' = Block(k)
      /\ Top(vv)' = vv + size /\ Block(vv)' = h
      /\ vv \notin Old
      /\ DOMAIN vvmem_start' = Old \cup {vv}
  BY <1>a DEF Top, Block
<1>2. \A k \in Old : k \in Nat /\ Top(k) \in Nat /\ k <= Top(k) /\ Top(k) < vv
  BY <1>0, Numbers DEF MapInv, InWindow
<1>3. EndsMatch'
  <2>1. ASSUME NEW k \in Old \cup {vv}
        PROVE  Top(k)' \in DOMAIN vvmem_end' /\ vvmem_end'[Top(k)'] = vvmem_start'[k]
    <3>1. CASE k \in Old
      <4>1. Top(k) \in DOMAIN vvmem_end /\ vvmem_end[Top(k)] = vvmem_start[k]
        BY <3>1 DEF MapInv, EndsMatch
      <4> QED BY <1>a, <1>1, <3>1, <4>1
    <3>2. CASE k = vv
      BY <1>a, <1>1, <3>2
    <3> QED BY <3>1, <3>2
  <2>2. ASSUME NEW e \in DOMAIN vvmem_end'
        PROVE  \E k \in Old \cup {vv} : vvmem_end'[e] = vvmem_start'[k] /\ e = Top(k)'
    <3>1. CASE e \in DOMAIN vvmem_end
      <4>1. PICK k \in Old : vvmem_end[e] = vvmem_start[k] /\ e = Top(k)
        BY <3>1 DEF MapInv, EndsMatch
      <4> QED BY <1>a, <1>1, <3>1, <4>1
    <3>2. CASE e = vv + size
      BY <1>a, <1>1, <3>2
    <3> QED BY <1>a, <3>1, <3>2
  <2> QED BY <1>1, <2>1, <2>2 DEF EndsMatch
<1>4. Disjoint'
  BY <1>0, <1>1, <1>2 DEF MapInv, Disjoint
<1>5. BlocksDiffer'
  BY <1>1 DEF MapInv, BlocksDiffer
<1>6. InWindow'
  <2>1. Advance(size) \in Nat /\ size + 1 <= Advance(size)
    BY AdvanceRoom
  <2>2. EndAddr \in Nat /\ StartAddr \in Nat
    BY WindowAssumption DEF EndAddr
  <2>3. StartAddr <= vv /\ \A k \in Old : StartAddr <= k
    BY <1>0 DEF MapInv, InWindow
  <2>4. vv + size < lastAllocAddr' /\ vv < lastAllocAddr' /\ lastAllocAddr' \in Nat
    BY <1>0, <2>1
  <2>5. ASSUME NEW k \in Old \cup {vv}
        PROVE  StartAddr <= k /\ Top(k)' < lastAllocAddr' /\ Top(k)' < EndAddr
    BY <1>1, <1>2, <2>2, <2>3, <2>4, <2>5
  <2> QED BY <1>1, <2>2, <2>3, <2>4, <2>5 DEF InWindow, EndAddr
<1> QED BY <1>3, <1>4, <1>5, <1>6 DEF MapInv

\* What IRXAllocator::remove does when find returned the allocation at k.
LEMMA RemoveFacts ==
  ASSUME TypeOK, MapInv, NEW k \in DOMAIN vvmem_start, NEW e, e = Top(k),
         remove(<<k, e>>)
  PROVE  /\ DOMAIN vvmem_start' = DOMAIN vvmem_start \ {k}
         /\ DOMAIN vvmem_end' = DOMAIN vvmem_end \ {e}
         /\ \A j \in DOMAIN vvmem_start' :
              /\ vvmem_start'[j] = vvmem_start[j]
              /\ holder'[vvmem_start'[j]] = holder[vvmem_start[j]]
         /\ \A f \in DOMAIN vvmem_end' : vvmem_end'[f] = vvmem_end[f]
         /\ MapsTypeOK'
<1>1. /\ vvmem_start' = Erase(vvmem_start, k)
      /\ vvmem_end' = Erase(vvmem_end, e)
      /\ holder' = Restrict(holder, {n \in DOMAIN holder : holder[n].vptr # Block(k)})
  BY DEF remove, Block
<1>2. /\ DOMAIN vvmem_start' = DOMAIN vvmem_start \ {k}
      /\ DOMAIN vvmem_end' = DOMAIN vvmem_end \ {e}
      /\ \A j \in DOMAIN vvmem_start' : vvmem_start'[j] = vvmem_start[j]
      /\ \A f \in DOMAIN vvmem_end' : vvmem_end'[f] = vvmem_end[f]
  BY <1>1 DEF Erase, Restrict
<1>3. /\ DOMAIN holder' = {n \in DOMAIN holder : holder[n].vptr # Block(k)}
      /\ \A n \in DOMAIN holder' : holder'[n] = holder[n]
      /\ holder' \in [DOMAIN holder' -> [vptr : Host, size : Nat]]
  BY <1>1 DEF Restrict, TypeOK, MapsTypeOK
<1>4. \A j \in DOMAIN vvmem_start' : vvmem_start[j] \in DOMAIN holder'
  BY <1>2, <1>3, Numbers DEF MapInv, BlocksDiffer, Block
<1>5. \A f \in DOMAIN vvmem_end' : vvmem_end[f] \in DOMAIN holder'
  <2>1. ASSUME NEW f \in DOMAIN vvmem_end' PROVE vvmem_end[f] \in DOMAIN holder'
    <3>1. PICK j \in DOMAIN vvmem_start : vvmem_end[f] = vvmem_start[j] /\ f = Top(j)
      BY <1>2 DEF MapInv, EndsMatch
    <3>2. j # k
      BY <1>2, <3>1
    <3> QED BY <1>2, <1>4, <3>1, <3>2
  <2> QED BY <2>1
<1>6. /\ vvmem_start' = [j \in DOMAIN vvmem_start' |-> vvmem_start'[j]]
      /\ vvmem_end' = [f \in DOMAIN vvmem_end' |-> vvmem_end'[f]]
  BY <1>1 DEF Erase, Restrict
<1>7. /\ vvmem_start' \in [DOMAIN vvmem_start' -> DOMAIN holder']
      /\ vvmem_end' \in [DOMAIN vvmem_end' -> DOMAIN holder']
  BY <1>2, <1>4, <1>5, <1>6
<1> QED BY <1>2, <1>3, <1>4, <1>7 DEF TypeOK, MapsTypeOK

\* Freeing keeps the maps in order.
LEMMA RemoveMapInv ==
  ASSUME TypeOK, MapInv, NEW k \in DOMAIN vvmem_start, NEW e, e = Top(k),
         remove(<<k, e>>), UNCHANGED lastAllocAddr
  PROVE  MapInv'
<1> DEFINE New == DOMAIN vvmem_start \ {k}
<1>1. /\ DOMAIN vvmem_start' = New
      /\ \A j \in New : Top(j)' = Top(j) /\ Block(j)' = Block(j)
  BY RemoveFacts DEF Top, Block
<1>2. EndsMatch'
  <2>1. ASSUME NEW j \in New
        PROVE  Top(j)' \in DOMAIN vvmem_end' /\ vvmem_end'[Top(j)'] = vvmem_start'[j]
    <3>1. Top(j) # e
      BY Numbers DEF MapInv, Disjoint
    <3>2. Top(j) \in DOMAIN vvmem_end /\ vvmem_end[Top(j)] = vvmem_start[j]
      BY DEF MapInv, EndsMatch
    <3>3. /\ DOMAIN vvmem_end' = DOMAIN vvmem_end \ {e}
          /\ vvmem_start'[j] = vvmem_start[j]
          /\ \A f \in DOMAIN vvmem_end' : vvmem_end'[f] = vvmem_end[f]
      BY <1>1, RemoveFacts
    <3> QED BY <1>1, <3>1, <3>2, <3>3
  <2>2. ASSUME NEW f \in DOMAIN vvmem_end'
        PROVE  \E j \in New : vvmem_end'[f] = vvmem_start'[j] /\ f = Top(j)'
    <3>1. PICK j \in DOMAIN vvmem_start : vvmem_end[f] = vvmem_start[j] /\ f = Top(j)
      BY RemoveFacts DEF MapInv, EndsMatch
    <3>2. j # k
      BY <3>1, RemoveFacts
    <3> QED BY <1>1, <3>1, <3>2, RemoveFacts
  <2> QED BY <1>1, <2>1, <2>2 DEF EndsMatch
<1>3. Disjoint' /\ BlocksDiffer' /\ InWindow'
  BY <1>1 DEF MapInv, Disjoint, BlocksDiffer, InWindow
<1> QED BY <1>2, <1>3 DEF MapInv
-----------------------------------------------------------------------------
\* What holds from the freeze on: the mark separates the globals from what
\* the list of MyInterpreter names, and the latter is what the C heap holds.
Frozen ==
  /\ Len(freezeStack) = 1 /\ StartAddr <= Mark /\ Mark <= lastAllocAddr
  /\ \A k \in DOMAIN vvmem_start : k < Mark => Top(k) < Mark /\ Block(k) \in globalMem
  /\ \A k \in DOMAIN vvmem_start : Mark <= k => Block(k) \in heap
  /\ \A k \in DOMAIN vvmem_start :
       Mark <= k => \E i \in 1 .. Len(recorded) : recorded[i] = k
  /\ \A i \in 1 .. Len(recorded) : recorded[i] \in DOMAIN vvmem_start /\ Mark <= recorded[i]
  /\ \A i, j \in 1 .. Len(recorded) : recorded[i] = recorded[j] => i = j

SessionInv ==
  /\ phase \notin {"overlap", "crashed"}
  /\ allocations = heap /\ heap \cap globalMem = {}
  /\ \A k \in DOMAIN vvmem_start : Block(k) \in heap \cup globalMem
  /\ phase \in {"globals", "functions"} =>
       freezeStack = << >> /\ recorded = << >> /\ heap = {}
  /\ phase \in {"running", "resetting"} => Frozen
  /\ phase = "running" /\ recorded = << >> => lastAllocAddr = Mark

\* The inductive invariant.
IInv == TypeOK /\ MapInv /\ SessionInv

\* MapAllocator::add: the window is exhausted, or the block is mapped; the
\* check for overlaps never fires.
LEMMA AddStep ==
  ASSUME TypeOK, MapInv, NEW h \in Host, NEW size \in Nat, NEW found,
         add(h, size, found),
         \A k \in DOMAIN vvmem_start : Block(k) # h
  PROVE  /\ MapInv' /\ MapsTypeOK' /\ lastAllocAddr' \in Nat
         /\ lastAllocAddr < lastAllocAddr'
         /\ \/ phase' = "exhausted" /\ UNCHANGED maps
            \/ /\ phase' = found /\ put(lastAllocAddr, h, size)
               /\ lastAllocAddr + size < lastAllocAddr'
               /\ lastAllocAddr' <= EndAddr
<1> DEFINE vv == lastAllocAddr
<1>1. /\ Advance(size) \in Nat /\ size + 1 <= Advance(size)
      /\ vv \in Nat /\ EndAddr \in Nat
      /\ lastAllocAddr' = vv + Advance(size)
  BY AdvanceRoom, WindowAssumption DEF TypeOK, EndAddr, add
<1>2. find(vv) = {} /\ find(vv + size + 1) = {}
  <2>1. \A k \in DOMAIN vvmem_start : Top(k) < vv
    BY DEF MapInv, InWindow
  <2>2. ASSUME NEW v \in Nat, vv <= v PROVE find(v) = {}
    <3>1. \A k \in DOMAIN vvmem_start : ~(k <= v /\ v <= Top(k))
      BY <1>1, <2>1, <2>2, Numbers
    <3> QED BY <3>1, FindMiss
  <2> QED BY <1>1, <2>2
<1>3. \/ phase' = "exhausted" /\ UNCHANGED maps
      \/ phase' = found /\ put(vv, h, size) /\ lastAllocAddr' <= EndAddr
  BY <1>1, <1>2 DEF add
<1>4. CASE phase' = "exhausted" /\ UNCHANGED maps
  <2>1. \A k \in DOMAIN vvmem_start : Top(k)' = Top(k) /\ Block(k)' = Block(k)
    BY <1>4 DEF maps, Top, Block
  <2>2. EndsMatch' /\ Disjoint' /\ BlocksDiffer'
    BY <1>4, <2>1 DEF maps, MapInv, EndsMatch, Disjoint, BlocksDiffer
  <2>3. InWindow'
    <3>1. \A k \in DOMAIN vvmem_start : Top(k) \in Nat
      BY Numbers
    <3>2. vv < lastAllocAddr' /\ lastAllocAddr' \in Nat /\ StartAddr \in Nat
      BY <1>1, WindowAssumption
    <3> QED BY <1>1, <1>4, <2>1, <3>1, <3>2 DEF maps, MapInv, InWindow
  <2>4. MapsTypeOK'
    BY <1>4 DEF maps, TypeOK, MapsTypeOK
  <2> QED BY <1>1, <1>4, <2>2, <2>3, <2>4 DEF MapInv
<1>5. CASE phase' = found /\ put(vv, h, size) /\ lastAllocAddr' <= EndAddr
  <2>1. MapsTypeOK'
    BY <1>5, PutFacts
  <2>2. MapInv'
    BY <1>1, <1>5, PutMapInv
  <2> QED BY <1>1, <1>5, <2>1, <2>2
<1> QED BY <1>3, <1>4, <1>5

\* MapAllocator::free at the base of an allocation finds that allocation.
LEMMA FreeStep ==
  ASSUME TypeOK, MapInv, NEW k \in DOMAIN vvmem_start, NEW found,
         free(k, found), UNCHANGED lastAllocAddr
  PROVE  /\ MapInv' /\ MapsTypeOK'
         /\ phase' = found
         /\ remove(<<k, Top(k)>>)
         /\ heap' = heap \ ({Block(k)} \cap allocations)
         /\ allocations' = allocations \ {Block(k)}
<1>1. PICK e : e = Top(k)
  OBVIOUS
<1>2. find(k) = {<<k, e>>}
  BY <1>1, FindCovered, Numbers
<1>3. /\ phase' = found /\ remove(<<k, e>>)
      /\ heap' = heap \ ({Block(k)} \cap allocations)
      /\ allocations' = allocations \ {Block(k)}
  BY <1>2 DEF free, Block
<1>4. MapInv' /\ MapsTypeOK'
  BY <1>1, <1>3, RemoveFacts, RemoveMapInv
<1> QED BY <1>1, <1>3, <1>4
-----------------------------------------------------------------------------
LEMMA InitIInv == Init => IInv
BY WindowAssumption
   DEF Init, IInv, TypeOK, MapsTypeOK, Phase, MapInv, EndsMatch, Disjoint,
       BlocksDiffer, InWindow, SessionInv

\* updateGlobalMappings, one global or function.
LEMMA MapObjectIInv ==
  ASSUME IInv, NEW h \in Host, NEW size \in Nat, NEW loop \in {"globals", "functions"},
         phase \in {"globals", "functions"}, mapObject(h, size, loop)
  PROVE  IInv'
<1>1. /\ h \notin heap \cup globalMem /\ globalMem' = globalMem \cup {h}
      /\ add(h, size, loop)
      /\ UNCHANGED <<freezeStack, allocations, recorded, heap>>
  BY DEF mapObject, Unused
<1>2. \A k \in DOMAIN vvmem_start : Block(k) # h
  BY <1>1 DEF IInv, SessionInv
<1>3. /\ MapInv' /\ MapsTypeOK' /\ lastAllocAddr' \in Nat
      /\ \/ phase' = "exhausted" /\ UNCHANGED maps
         \/ phase' = loop /\ put(lastAllocAddr, h, size)
  BY <1>1, <1>2, AddStep DEF IInv
<1>4. TypeOK'
  BY <1>1, <1>3 DEF IInv, TypeOK, Phase
<1>5. \A k \in DOMAIN vvmem_start' : Block(k)' \in heap' \cup globalMem'
  <2>1. CASE UNCHANGED maps
    BY <1>1, <2>1 DEF maps, Block, IInv, SessionInv
  <2>2. CASE put(lastAllocAddr, h, size)
    <3>1. PICK vv \in Nat : vv = lastAllocAddr
      BY DEF IInv, TypeOK
    <3>2. /\ DOMAIN vvmem_start' = DOMAIN vvmem_start \cup {vv}
          /\ \A k \in DOMAIN vvmem_start : Block(k)' = Block(k)
          /\ Block(vv)' = h
      BY <2>2, <3>1, PutView DEF IInv
    <3> QED BY <1>1, <3>2 DEF IInv, SessionInv
  <2> QED BY <1>3, <2>1, <2>2
<1>6. SessionInv'
  BY <1>1, <1>3, <1>5 DEF IInv, SessionInv
<1> QED BY <1>3, <1>4, <1>6 DEF IInv

\* The end of createInterpreter.
LEMMA FreezeIInv == ASSUME IInv, Freeze PROVE IInv'
<1>1. /\ phase \in {"globals", "functions"} /\ phase' = "running"
      /\ freezeStack' = Append(freezeStack, lastAllocAddr)
      /\ UNCHANGED <<maps, lastAllocAddr, allocations, recorded, heap, globalMem>>
  BY DEF Freeze
<1>2. /\ freezeStack = << >> /\ recorded = << >> /\ heap = {}
      /\ lastAllocAddr \in Nat
  BY <1>1 DEF IInv, SessionInv, TypeOK
<1>3. /\ freezeStack' = <<lastAllocAddr>> /\ Mark' = lastAllocAddr
      /\ Len(freezeStack') = 1 /\ freezeStack' \in Seq(Nat)
  BY <1>1, <1>2 DEF Mark
<1>4. TypeOK'
  BY <1>1, <1>3 DEF IInv, TypeOK, MapsTypeOK, maps, Phase
<1>5. \A k \in DOMAIN vvmem_start : Top(k)' = Top(k) /\ Block(k)' = Block(k)
  BY <1>1 DEF maps, Top, Block
<1>6. MapInv'
  BY <1>1, <1>5 DEF IInv, MapInv, EndsMatch, Disjoint, BlocksDiffer, InWindow, maps
<1>7. Frozen'
  <2>1. \A k \in DOMAIN vvmem_start : k < lastAllocAddr /\ Top(k) < lastAllocAddr
    BY <1>2, Numbers DEF IInv, MapInv, InWindow
  <2>2. \A k \in DOMAIN vvmem_start : Block(k) \in globalMem /\ k \in Nat
    BY <1>2, Numbers DEF IInv, SessionInv
  <2>3. StartAddr <= lastAllocAddr
    BY DEF IInv, MapInv, InWindow
  <2>4. recorded' = << >> /\ Len(recorded') = 0
    BY <1>1, <1>2
  <2> QED BY <1>1, <1>2, <1>3, <1>5, <2>1, <2>2, <2>3, <2>4 DEF Frozen, maps
<1>8. SessionInv'
  BY <1>1, <1>3, <1>5, <1>7 DEF IInv, SessionInv, maps
<1> QED BY <1>4, <1>6, <1>8 DEF IInv

\* MyInterpreter::malloc
LEMMA MallocIInv == ASSUME IInv, Malloc PROVE IInv'
<1>1. PICK h \in Host, size \in Size :
        /\ h \notin heap \cup globalMem
        /\ heap' = heap \cup {h} /\ allocations' = allocations \cup {h}
        /\ add(h, size, "running")
  BY DEF Malloc, Unused
<1>2. /\ phase = "running" /\ UNCHANGED <<freezeStack, globalMem>>
      /\ recorded' = IF phase' = "running" THEN Append(recorded, lastAllocAddr) ELSE recorded
  BY DEF Malloc
<1>3. size \in Nat /\ \A k \in DOMAIN vvmem_start : Block(k) # h
  BY <1>1, SizeAssumption DEF IInv, SessionInv
<1>4. /\ MapInv' /\ MapsTypeOK' /\ lastAllocAddr' \in Nat
      /\ lastAllocAddr < lastAllocAddr'
      /\ \/ phase' = "exhausted" /\ UNCHANGED maps
         \/ phase' = "running" /\ put(lastAllocAddr, h, size)
  BY <1>1, <1>3, AddStep DEF IInv
<1>5. TypeOK'
  <2>1. recorded' \in Seq(Nat)
    BY <1>2 DEF IInv, TypeOK
  <2> QED BY <1>1, <1>2, <1>4, <2>1 DEF IInv, TypeOK, Phase
<1>6. \A k \in DOMAIN vvmem_start' : Block(k)' \in heap' \cup globalMem'
  <2>1. CASE UNCHANGED maps
    BY <1>1, <1>2, <2>1 DEF maps, Block, IInv, SessionInv
  <2>2. CASE put(lastAllocAddr, h, size)
    <3>1. PICK vv \in Nat : vv = lastAllocAddr
      BY DEF IInv, TypeOK
    <3>2. /\ DOMAIN vvmem_start' = DOMAIN vvmem_start \cup {vv}
          /\ \A k \in DOMAIN vvmem_start : Block(k)' = Block(k)
          /\ Block(vv)' = h
      BY <1>3, <2>2, <3>1, PutView DEF IInv
    <3> QED BY <1>1, <1>2, <3>2 DEF IInv, SessionInv
  <2> QED BY <1>4, <2>1, <2>2
<1>7. CASE phase' = "exhausted"
  <2>1. SessionInv'
    BY <1>1, <1>2, <1>6, <1>7 DEF IInv, SessionInv
  <2> QED BY <1>4, <1>5, <2>1 DEF IInv
<1>8. CASE phase' = "running" /\ put(lastAllocAddr, h, size)
  <2>1. PICK vv \in Nat : vv = lastAllocAddr
    BY DEF IInv, TypeOK
  <2> DEFINE Old == DOMAIN vvmem_start
  <2>2. /\ DOMAIN vvmem_start' = Old \cup {vv} /\ vv \notin Old
        /\ \A k \in Old : Top(k)' = Top(k) /\ Block(k)' = Block(k) /\ k \in Nat
        /\ Block(vv)' = h
    BY <1>3, <1>8, <2>1, PutView, Numbers DEF IInv
  <2>3. /\ Frozen /\ Mark' = Mark /\ Mark <= vv /\ Mark \in Nat
    <3>1. Frozen
      BY <1>2 DEF IInv, SessionInv
    <3>2. Mark \in Nat
      <4>1. freezeStack \in Seq(Nat) /\ Len(freezeStack) = 1
        BY <3>1 DEF IInv, TypeOK, Frozen
      <4> QED BY <4>1 DEF Mark
    <3> QED BY <1>2, <2>1, <3>1, <3>2 DEF Frozen, Mark
  <2>4. /\ recorded \in Seq(Nat) /\ Len(recorded) \in Nat
        /\ recorded' = Append(recorded, vv)
        /\ Len(recorded') = Len(recorded) + 1
        /\ \A i \in 1 .. Len(recorded) : recorded'[i] = recorded[i]
        /\ recorded'[Len(recorded) + 1] = vv
    BY <1>2, <1>8, <2>1 DEF IInv, TypeOK
  <2>5. Frozen'
    <3>1. Len(freezeStack') = 1 /\ StartAddr <= Mark' /\ Mark' <= lastAllocAddr'
      BY <1>2, <1>4, <2>1, <2>3, WindowAssumption DEF Frozen
    <3>2. \A k \in Old \cup {vv} : k < Mark' => Top(k)' < Mark' /\ Block(k)' \in globalMem'
      BY <1>2, <2>2, <2>3 DEF Frozen
    <3>3. \A k \in Old \cup {vv} : Mark' <= k => Block(k)' \in heap'
      BY <1>1, <2>2, <2>3 DEF Frozen
    <3>4. \A k \in Old \cup {vv} :
            Mark' <= k => \E i \in 1 .. Len(recorded') : recorded'[i] = k
      <4>1. ASSUME NEW k \in Old, Mark' <= k
            PROVE  \E i \in 1 .. Len(recorded') : recorded'[i] = k
        <5>1. PICK i \in 1 .. Len(recorded) : recorded[i] = k
          BY <2>3, <4>1 DEF Frozen
        <5> QED BY <2>4, <5>1
      <4>2. \E i \in 1 .. Len(recorded') : recorded'[i] = vv
        BY <2>4
      <4> QED BY <4>1, <4>2
    <3>5. \A i \in 1 .. Len(recorded') :
            recorded'[i] \in Old \cup {vv} /\ Mark' <= recorded'[i]
      BY <2>3, <2>4 DEF Frozen
    <3>6. \A i, j \in 1 .. Len(recorded') : recorded'[i] = recorded'[j] => i = j
      <4>1. \A i \in 1 .. Len(recorded) : recorded'[i] \in Old /\ recorded'[i] # vv
        BY <2>2, <2>3, <2>4 DEF Frozen
      <4> QED BY <2>3, <2>4, <4>1 DEF Frozen
    <3> QED BY <2>2, <3>1, <3>2, <3>3, <3>4, <3>5, <3>6 DEF Frozen
  <2>6. recorded' # << >>
    BY <2>4
  <2>7. SessionInv'
    BY <1>1, <1>2, <1>6, <1>8, <2>5, <2>6 DEF IInv, SessionInv
  <2> QED BY <1>4, <1>5, <2>7 DEF IInv
<1> QED BY <1>4, <1>7, <1>8

\* free() of a mapped allocation, seen through Top and Block.
LEMMA FreeView ==
  ASSUME IInv, NEW k \in DOMAIN vvmem_start, NEW found,
         free(k, found), UNCHANGED lastAllocAddr
  PROVE  /\ MapInv' /\ MapsTypeOK' /\ phase' = found
         /\ DOMAIN vvmem_start' = DOMAIN vvmem_start \ {k}
         /\ \A j \in DOMAIN vvmem_start' :
              Top(j)' = Top(j) /\ Block(j)' = Block(j) /\ Block(j) # Block(k)
         /\ heap' = heap \ {Block(k)} /\ allocations' = heap'
<1>1. TypeOK /\ MapInv /\ allocations = heap
  BY DEF IInv, SessionInv
<1>2. /\ MapInv' /\ MapsTypeOK' /\ phase' = found /\ remove(<<k, Top(k)>>)
      /\ heap' = heap \ ({Block(k)} \cap allocations)
      /\ allocations' = allocations \ {Block(k)}
  BY <1>1, FreeStep
<1>3. PICK e : e = Top(k)
  OBVIOUS
<1>4. /\ DOMAIN vvmem_start' = DOMAIN vvmem_start \ {k}
      /\ \A j \in DOMAIN vvmem_start' : holder'[vvmem_start'[j]] = holder[vvmem_start[j]]
  BY <1>1, <1>2, <1>3, RemoveFacts
<1>5. \A j \in DOMAIN vvmem_start' : Top(j)' = Top(j) /\ Block(j)' = Block(j)
  BY <1>4 DEF Top, Block
<1>6. \A j \in DOMAIN vvmem_start \ {k} : Block(j) # Block(k)
  BY <1>1 DEF MapInv, BlocksDiffer
<1> QED BY <1>1, <1>2, <1>4, <1>5, <1>6

\* One iteration of the loop of resetExtraAllocations.
LEMMA ResetFreeIInv == ASSUME IInv, ResetFree PROVE IInv'
<1>1. /\ phase \in {"running", "resetting"} /\ recorded # << >>
      /\ free(Head(recorded), "resetting")
      /\ recorded' = Tail(recorded)
      /\ UNCHANGED <<lastAllocAddr, freezeStack, globalMem>>
  BY DEF ResetFree, generator
<1>2. Frozen /\ TypeOK
  BY <1>1 DEF IInv, SessionInv
<1>3. /\ recorded \in Seq(Nat) /\ Len(recorded) \in Nat \ {0}
      /\ Head(recorded) = recorded[1]
      /\ recorded' \in Seq(Nat) /\ Len(recorded') = Len(recorded) - 1
      /\ \A i \in 1 .. Len(recorded') : recorded'[i] = recorded[i + 1]
  BY <1>1, <1>2 DEF TypeOK
<1>a. PICK n \in Nat : n # 0 /\ n = Len(recorded)
  BY <1>3
<1>b. /\ Len(recorded') = n - 1
      /\ \A i \in 1 .. n - 1 : recorded'[i] = recorded[i + 1]
  BY <1>3, <1>a
<1>4. PICK k \in DOMAIN vvmem_start : k = Head(recorded)
  BY <1>2, <1>3 DEF Frozen
<1>c. /\ k = recorded[1]
      /\ \A i \in 1 .. n : recorded[i] \in DOMAIN vvmem_start /\ Mark <= recorded[i]
      /\ \A i, j \in 1 .. n : recorded[i] = recorded[j] => i = j
  BY <1>2, <1>3, <1>4, <1>a DEF Frozen
<1>5. /\ MapInv' /\ MapsTypeOK' /\ phase' = "resetting"
      /\ DOMAIN vvmem_start' = DOMAIN vvmem_start \ {k}
      /\ \A j \in DOMAIN vvmem_start' :
           Top(j)' = Top(j) /\ Block(j)' = Block(j) /\ Block(j) # Block(k)
      /\ heap' = heap \ {Block(k)} /\ allocations' = heap'
  BY <1>1, <1>4, FreeView
<1>6. TypeOK'
  BY <1>1, <1>2, <1>3, <1>5 DEF TypeOK, Phase
<1>7. Mark' = Mark
  BY <1>1 DEF Mark
<1>8. Frozen'
  <2>1. Len(freezeStack') = 1 /\ StartAddr <= Mark' /\ Mark' <= lastAllocAddr'
    BY <1>1, <1>2, <1>7 DEF Frozen
  <2>2. /\ \A j \in DOMAIN vvmem_start' : j < Mark' => Top(j)' < Mark' /\ Block(j)' \in globalMem'
        /\ \A j \in DOMAIN vvmem_start' : Mark' <= j => Block(j)' \in heap'
    BY <1>1, <1>2, <1>5, <1>7 DEF Frozen
  <2>3. ASSUME NEW j \in DOMAIN vvmem_start', Mark' <= j
        PROVE  \E i \in 1 .. Len(recorded') : recorded'[i] = j
    <3>1. PICK i \in 1 .. n : recorded[i] = j
      BY <1>2, <1>5, <1>7, <1>a, <2>3 DEF Frozen
    <3>2. i # 1
      BY <1>5, <1>c, <3>1
    <3>3. i - 1 \in 1 .. n - 1 /\ (i - 1) + 1 = i
      BY <3>1, <3>2
    <3>4. recorded'[i - 1] = j
      BY <1>b, <3>1, <3>3
    <3> QED BY <1>b, <3>3, <3>4
  <2>4. \A i \in 1 .. Len(recorded') : recorded'[i] \in DOMAIN vvmem_start' /\ Mark' <= recorded'[i]
    <3>1. ASSUME NEW i \in 1 .. n - 1
          PROVE  recorded'[i] \in DOMAIN vvmem_start' /\ Mark' <= recorded'[i]
      <4>1. i + 1 \in 1 .. n /\ i + 1 # 1 /\ 1 \in 1 .. n
        BY <1>a
      <4>2. recorded[i + 1] # k
        BY <1>c, <4>1
      <4> QED BY <1>5, <1>7, <1>b, <1>c, <4>1, <4>2
    <3> QED BY <1>b, <3>1
  <2>5. \A i, j \in 1 .. Len(recorded') : recorded'[i] = recorded'[j] => i = j
    <3>1. ASSUME NEW i \in 1 .. n - 1, NEW j \in 1 .. n - 1, recorded'[i] = recorded'[j]
          PROVE  i = j
      <4>1. i + 1 \in 1 .. n /\ j + 1 \in 1 .. n
        BY <1>a
      <4>2. i + 1 = j + 1
        BY <1>b, <1>c, <3>1, <4>1
      <4> QED BY <4>2
    <3> QED BY <1>b, <3>1
  <2> QED BY <2>1, <2>2, <2>3, <2>4, <2>5 DEF Frozen
<1>9. SessionInv'
  BY <1>1, <1>5, <1>8 DEF IInv, SessionInv
<1> QED BY <1>5, <1>6, <1>9 DEF IInv

\* The top of a stack of one entry is its bottom.
LEMMA LastOfOne ==
  ASSUME NEW S, NEW s \in Seq(S), Len(s) = 1
  PROVE  s # << >> /\ s[Len(s)] = s[1]
<1>1. Len(<< >>) = 0
  OBVIOUS
<1>2. s # << >>
  BY <1>1
<1> QED BY <1>2

\* The end of resetExtraAllocations.
LEMMA ResetDoneIInv == ASSUME IInv, ResetDone PROVE IInv'
<1>1. /\ phase \in {"running", "resetting"} /\ recorded = << >>
      /\ UNCHANGED <<maps, allocations, recorded, heap, globalMem>>
  BY DEF ResetDone
<1>2. /\ Frozen /\ TypeOK /\ freezeStack \in Seq(Nat) /\ Len(freezeStack) = 1
  BY <1>1 DEF IInv, SessionInv, Frozen, TypeOK
<1>a. freezeStack # << >> /\ freezeStack[Len(freezeStack)] = Mark
  <2>1. freezeStack \in Seq(Nat) /\ Len(freezeStack) = 1
    BY <1>2
  <2>2. freezeStack # << >> /\ freezeStack[Len(freezeStack)] = freezeStack[1]
    BY ONLY <2>1, LastOfOne
  <2> QED BY <2>2 DEF Mark
<1>3. /\ lastAllocAddr' = Mark /\ phase' = "running"
      /\ freezeStack' = Append(SubSeq(freezeStack, 1, Len(freezeStack) - 1), Mark)
  BY <1>a DEF ResetDone
<1>4. Mark \in Nat
  <2>1. 1 \in 1 .. Len(freezeStack)
    BY <1>2
  <2>2. freezeStack[1] \in Nat
    BY <1>2, <2>1, ElementOfSeq
  <2> QED BY <2>2 DEF Mark
<1>5. /\ freezeStack' \in Seq(Nat) /\ Len(freezeStack') = 1 /\ Mark' = Mark
  <2>1. SubSeq(freezeStack, 1, Len(freezeStack) - 1) = << >>
    BY <1>2, SubSeqProperties
  <2>2. freezeStack' = Append(<< >>, Mark)
    BY <1>3, <2>1
  <2>3. << >> \in Seq(Nat) /\ Len(<< >>) = 0
    OBVIOUS
  <2>4. /\ freezeStack' \in Seq(Nat) /\ Len(freezeStack') = 1 /\ freezeStack'[1] = Mark
    BY <1>4, <2>2, <2>3, AppendProperties
  <2> QED BY <2>4 DEF Mark
<1>6. TypeOK'
  BY <1>1, <1>2, <1>3, <1>4, <1>5 DEF TypeOK, MapsTypeOK, maps, Phase
<1>7. \A k \in DOMAIN vvmem_start : Top(k)' = Top(k) /\ Block(k)' = Block(k)
  BY <1>1 DEF maps, Top, Block
<1>8. \A k \in DOMAIN vvmem_start : k < Mark /\ Top(k) < Mark
  <2>1. \A k \in DOMAIN vvmem_start : ~(Mark <= k)
    BY <1>1, <1>2 DEF Frozen
  <2> QED BY <1>2, <1>4, <2>1, Numbers DEF Frozen
<1>9. MapInv'
  BY <1>1, <1>2, <1>3, <1>7, <1>8
     DEF IInv, MapInv, EndsMatch, Disjoint, BlocksDiffer, InWindow, maps, Frozen
<1>10. Frozen'
  BY <1>1, <1>2, <1>3, <1>4, <1>5, <1>7, <1>8 DEF Frozen, maps
<1>11. SessionInv'
  BY <1>1, <1>3, <1>5, <1>7, <1>10 DEF IInv, SessionInv, maps
<1> QED BY <1>6, <1>9, <1>11 DEF IInv

\* The destructor.
LEMMA DestroyFreeIInv == ASSUME IInv, DestroyFree PROVE IInv'
<1>1. PICK k \in DOMAIN vvmem_start : free(k, "destroying")
  BY DEF DestroyFree
<1>2. UNCHANGED <<lastAllocAddr, freezeStack, recorded, globalMem>>
  BY DEF DestroyFree, generator
<1>3. /\ MapInv' /\ MapsTypeOK' /\ phase' = "destroying"
      /\ DOMAIN vvmem_start' = DOMAIN vvmem_start \ {k}
      /\ \A j \in DOMAIN vvmem_start' :
           Top(j)' = Top(j) /\ Block(j)' = Block(j) /\ Block(j) # Block(k)
      /\ heap' = heap \ {Block(k)} /\ allocations' = heap'
  BY <1>1, <1>2, FreeView
<1>4. TypeOK'
  BY <1>2, <1>3 DEF IInv, TypeOK, Phase
<1>5. SessionInv'
  BY <1>2, <1>3 DEF IInv, SessionInv
<1> QED BY <1>3, <1>4, <1>5 DEF IInv

LEMMA DestroyDoneIInv == ASSUME IInv, DestroyDone PROVE IInv'
<1>1. /\ DOMAIN vvmem_start = {} /\ globalMem' = {} /\ phase' = "destroyed"
      /\ UNCHANGED <<maps, lastAllocAddr, freezeStack, allocations, recorded, heap>>
  BY DEF DestroyDone, generator
<1>2. TypeOK'
  BY <1>1 DEF IInv, TypeOK, MapsTypeOK, maps, Phase
<1>3. MapInv'
  BY <1>1 DEF IInv, MapInv, EndsMatch, Disjoint, BlocksDiffer, InWindow, maps
<1>4. SessionInv'
  BY <1>1 DEF IInv, SessionInv, maps
<1> QED BY <1>2, <1>3, <1>4 DEF IInv

LEMMA StutterIInv == ASSUME IInv, UNCHANGED vars PROVE IInv'
BY DEF vars, maps, generator, IInv, TypeOK, MapsTypeOK, MapInv, EndsMatch, Disjoint,
       BlocksDiffer, InWindow, SessionInv, Frozen, Mark, Top, Block

LEMMA NextIInv == ASSUME IInv, [Next]_vars PROVE IInv'
<1>1. CASE MapGlobal
  <2>1. PICK h \in Host, size \in Size : mapObject(h, size, "globals")
    BY <1>1 DEF MapGlobal
  <2>2. size \in Nat /\ phase = "globals"
    BY <1>1, SizeAssumption DEF MapGlobal
  <2> QED BY <2>1, <2>2, MapObjectIInv
<1>2. CASE MapFunction
  <2>1. PICK h \in Host : mapObject(h, 1, "functions")
    BY <1>2 DEF MapFunction
  <2>2. phase \in {"globals", "functions"}
    BY <1>2 DEF MapFunction
  <2> QED BY <2>1, <2>2, MapObjectIInv
<1>3. CASE Freeze      BY <1>3, FreezeIInv
<1>4. CASE Malloc      BY <1>4, MallocIInv
<1>5. CASE ResetFree   BY <1>5, ResetFreeIInv
<1>6. CASE ResetDone   BY <1>6, ResetDoneIInv
<1>7. CASE DestroyFree BY <1>7, DestroyFreeIInv
<1>8. CASE DestroyDone BY <1>8, DestroyDoneIInv
<1>9. CASE Stopped     BY <1>9, StutterIInv DEF Stopped
<1>10. CASE UNCHANGED vars BY <1>10, StutterIInv
<1> QED BY <1>1, <1>2, <1>3, <1>4, <1>5, <1>6, <1>7, <1>8, <1>9, <1>10 DEF Next

THEOREM Inductive == Spec => []IInv
<1>1. Init => IInv
  BY InitIInv
<1>2. IInv /\ [Next]_vars => IInv'
  BY NextIInv
<1> QED BY <1>1, <1>2, PTL DEF Spec

-----------------------------------------------------------------------------
\* Every variable keeps its type, and no map points to a freed list node.
THEOREM TypeCorrect == Spec => []TypeOK
<1>1. IInv => TypeOK
  BY DEF IInv
<1> QED BY <1>1, Inductive, PTL

\* The overlap check of MapAllocator::add never fires, every free() finds its
\* allocation and every reset() its mark.
THEOREM NeverAborts == Spec => []NoAbort
<1>1. IInv => NoAbort
  BY DEF IInv, SessionInv, NoAbort
<1> QED BY <1>1, Inductive, PTL

\* The nearest-start, nearest-end search is exact.
THEOREM Translation == Spec => []TranslationExact
<1>1. ASSUME TypeOK, MapInv, NEW v \in Nat, NEW k \in DOMAIN vvmem_start,
             k <= v, v <= Top(k)
      PROVE  vvptr2vptr(v) = HostPtr(Block(k), v - k)
  <2>1. PICK e : e = Top(k)
    OBVIOUS
  <2>2. find_start(v) = {k} /\ find_end(v) = {e} /\ find(v) = {<<k, e>>}
    BY <1>1, <2>1, FindCovered
  <2>3. (CHOOSE p \in find(v) : TRUE) = <<k, e>>
    BY <2>2
  <2> QED BY <2>2, <2>3 DEF vvptr2vptr, has, translate, Block
<1>2. ASSUME TypeOK, MapInv, NEW v \in Nat,
             \A k \in DOMAIN vvmem_start : ~(k <= v /\ v <= Top(k))
      PROVE  vvptr2vptr(v) \in {NullPtr, Untouched(v)}
  <2>1. find(v) = {}
    BY <1>2, FindMiss
  <2> QED BY <2>1 DEF vvptr2vptr, translate
<1>3. ASSUME TypeOK, MapInv, NEW v \in Nat, v \notin StartAddr .. EndAddr
      PROVE  vvptr2vptr(v) = Untouched(v)
  <2>1. StartAddr \in Nat /\ EndAddr \in Nat
    BY WindowAssumption DEF EndAddr
  <2>2. CASE v < StartAddr
    <3>1. find_start(v) = {}
      BY <1>3, <2>1, <2>2, Numbers DEF MapInv, InWindow, find_start
    <3> QED BY <3>1 DEF vvptr2vptr, has
  <2>3. CASE EndAddr < v
    <3>1. ASSUME NEW e \in DOMAIN vvmem_end PROVE e \in Nat /\ e < EndAddr
      BY <1>3, Numbers DEF MapInv, EndsMatch, InWindow
    <3>2. find_end(v) = {}
      BY <2>1, <2>3, <3>1 DEF find_end
    <3> QED BY <3>2 DEF vvptr2vptr, has
  <2> QED BY <1>3, <2>1, <2>2, <2>3
<1>4. IInv => TranslationExact
  <2> SUFFICES ASSUME IInv, NEW v \in 0 .. EndAddr + 1
               PROVE  /\ \A k \in DOMAIN vvmem_start :
                           Space!Covers(Region(k), v) =>
                             vvptr2vptr(v) = HostPtr(Block(k), v - k)
                      /\ (\A k \in DOMAIN vvmem_start : ~Space!Covers(Region(k), v)) =>
                           vvptr2vptr(v) \in {NullPtr, Untouched(v)}
                      /\ v \notin StartAddr .. EndAddr => vvptr2vptr(v) = Untouched(v)
    BY DEF TranslationExact, Regions, Region, Block
  <2>1. v \in Nat /\ TypeOK /\ MapInv
    BY WindowAssumption DEF EndAddr, IInv
  <2>2. \A k \in DOMAIN vvmem_start :
          Space!Covers(Region(k), v) <=> k <= v /\ v <= Top(k)
    BY DEF Space!Covers, Region, Top
  <2> QED BY <1>1, <1>2, <1>3, <2>1, <2>2
<1> QED BY <1>4, Inductive, PTL

\* Function pointers and globals lead there and back.
THEOREM RoundTrip == Spec => []BaseRoundTrip
<1>1. ASSUME IInv, NEW k \in DOMAIN vvmem_start
      PROVE  /\ vptr2vvptr(Block(k)) = k
             /\ vvptr2vptr(k) = HostPtr(Block(k), 0)
  <2>1. TypeOK /\ MapInv /\ k \in Nat /\ k <= Top(k)
    BY <1>1, Numbers DEF IInv
  <2>2. find_vvptr(Block(k)) = {k}
    BY <2>1 DEF find_vvptr, MapInv, BlocksDiffer, Block
  <2>3. PICK e : e = Top(k)
    OBVIOUS
  <2>4. find_start(k) = {k} /\ find_end(k) = {e} /\ find(k) = {<<k, e>>}
    BY <2>1, <2>3, FindCovered
  <2>5. (CHOOSE p \in find(k) : TRUE) = <<k, e>>
    BY <2>4
  <2>6. k - k = 0
    BY <2>1
  <2>7. vvptr2vptr(k) = HostPtr(Block(k), 0)
    BY <2>4, <2>5, <2>6 DEF vvptr2vptr, has, translate, Block
  <2> QED BY <2>2, <2>7 DEF vptr2vvptr
<1>2. IInv => BaseRoundTrip
  BY <1>1 DEF BaseRoundTrip, Regions, Region, Block
<1> QED BY <1>2, Inductive, PTL

\* After a reset the generator, the list and the map are where they were when
\* the interpreter had been created.
THEOREM CleanReuse == Spec => []FreshAfterReset
<1>1. ASSUME IInv, phase = "running"
      PROVE  /\ Len(freezeStack) = 1
             /\ Range(recorded) = {k \in DOMAIN vvmem_start : Mark <= k}
             /\ recorded = << >> => lastAllocAddr = Mark
  <2>1. Frozen /\ recorded \in Seq(Nat)
    BY <1>1 DEF IInv, SessionInv, TypeOK
  <2>2. Range(recorded) = {recorded[i] : i \in 1 .. Len(recorded)}
    BY <2>1 DEF Range
  <2> QED BY <1>1, <2>1, <2>2 DEF Frozen, IInv, SessionInv
<1>2. IInv => FreshAfterReset
  BY <1>1 DEF FreshAfterReset
<1> QED BY <1>2, Inductive, PTL

-----------------------------------------------------------------------------
\* The other direction of SessionInv's accounts: every block that is held is
\* one the map shows, until the destructor has freed the globals' regions.
BlocksShown ==
  /\ phase \in Live => \A h \in heap : \E k \in DOMAIN vvmem_start : Block(k) = h
  /\ phase \in Live \ {"destroying"} =>
       \A h \in globalMem : \E k \in DOMAIN vvmem_start : Block(k) = h
  /\ phase = "destroyed" => heap = {} /\ DOMAIN vvmem_start = {}

LEMMA AddShown ==
  ASSUME IInv, BlocksShown, NEW h \in Host, NEW size \in Nat, NEW found \in Live,
         phase \in Live \ {"destroying"}, h \notin heap \cup globalMem,
         add(h, size, found),
         heap' \cup globalMem' = heap \cup globalMem \cup {h}
  PROVE  BlocksShown'
<1>1. \A k \in DOMAIN vvmem_start : Block(k) # h
  BY DEF IInv, SessionInv
<1>2. CASE phase' = "exhausted"
  BY <1>2 DEF BlocksShown, Live
<1>3. CASE phase' = found /\ put(lastAllocAddr, h, size)
  <2>1. PICK vv \in Nat : vv = lastAllocAddr
    BY DEF IInv, TypeOK
  <2>2. /\ DOMAIN vvmem_start' = DOMAIN vvmem_start \cup {vv}
        /\ \A k \in DOMAIN vvmem_start : Block(k)' = Block(k)
        /\ Block(vv)' = h
    BY <1>3, <2>1, PutView DEF IInv
  <2>3. \A b \in heap' \cup globalMem' : \E k \in DOMAIN vvmem_start' : Block(k)' = b
    BY <2>2 DEF BlocksShown
  <2>4. phase' # "destroyed"
    BY <1>3 DEF Live
  <2> QED BY <2>2, <2>3, <2>4 DEF BlocksShown
<1> QED BY <1>1, <1>2, <1>3, AddStep DEF IInv

LEMMA NextShown == ASSUME IInv, BlocksShown, [Next]_vars PROVE BlocksShown'
<1>1. CASE MapGlobal
  BY <1>1, AddShown, SizeAssumption DEF MapGlobal, mapObject, Unused, Live
<1>2. CASE MapFunction
  BY <1>2, AddShown DEF MapFunction, mapObject, Unused, Live
<1>3. CASE Malloc
  BY <1>3, AddShown, SizeAssumption DEF Malloc, Unused, Live
<1>4. ASSUME NEW k \in DOMAIN vvmem_start, NEW found \in {"resetting", "destroying"},
             free(k, found), UNCHANGED <<lastAllocAddr, globalMem>>,
             phase \in {"running", "resetting", "destroying"},
             found = "resetting" => Block(k) \in heap /\ phase # "destroying"
      PROVE  BlocksShown'
  <2>1. /\ phase' = found
        /\ DOMAIN vvmem_start' = DOMAIN vvmem_start \ {k}
        /\ \A j \in DOMAIN vvmem_start' : Block(j)' = Block(j)
        /\ heap' = heap \ {Block(k)}
    BY <1>4, FreeView
  <2>2. \A h \in heap' : \E j \in DOMAIN vvmem_start' : Block(j)' = h
    BY <1>4, <2>1 DEF BlocksShown, Live
  <2>3. found = "resetting" =>
          \A h \in globalMem' : \E j \in DOMAIN vvmem_start' : Block(j)' = h
    <3>1. heap \cap globalMem = {}
      BY DEF IInv, SessionInv
    <3> QED BY <1>4, <2>1, <3>1 DEF BlocksShown, Live
  <2> QED BY <2>1, <2>2, <2>3 DEF BlocksShown, Live
<1>5. CASE ResetFree
  <2>1. /\ phase \in {"running", "resetting"} /\ recorded # << >>
        /\ free(Head(recorded), "resetting") /\ UNCHANGED <<lastAllocAddr, globalMem>>
    BY <1>5 DEF ResetFree, generator
  <2>2. Frozen /\ recorded \in Seq(Nat)
    BY <2>1 DEF IInv, SessionInv, TypeOK
  <2>3. Head(recorded) = recorded[1] /\ 1 \in 1 .. Len(recorded)
    BY <2>1, <2>2
  <2>4. PICK k \in DOMAIN vvmem_start : k = Head(recorded) /\ Block(k) \in heap
    BY <2>2, <2>3 DEF Frozen
  <2> QED BY <1>4, <2>1, <2>4
<1>6. CASE DestroyFree
  <2>1. PICK k \in DOMAIN vvmem_start : free(k, "destroying")
    BY <1>6 DEF DestroyFree
  <2> QED BY <1>4, <1>6, <2>1 DEF DestroyFree, generator
<1>7. CASE DestroyDone
  BY <1>7 DEF DestroyDone, BlocksShown, maps, Live
<1>8. CASE Freeze \/ ResetDone
  <2>1. /\ phase \in Live \ {"destroying"} /\ phase' \in {"running", "crashed"}
        /\ UNCHANGED <<maps, heap, globalMem>>
    BY <1>8 DEF Freeze, ResetDone, Live
  <2> QED BY <2>1 DEF BlocksShown, maps, Block, Live
<1>9. CASE UNCHANGED vars
  BY <1>9 DEF vars, maps, BlocksShown, Block
<1> QED BY <1>1, <1>2, <1>3, <1>5, <1>6, <1>7, <1>8, <1>9 DEF Next, Stopped

\* Neither leaks nor uses after free: what the map shows is allocated, and
\* what is allocated is shown, the C heap's part of it in the list a reset
\* frees, and nothing is left after the destructor.
THEOREM NoLeak == Spec => []BlocksAccounted
<1>1. Init => BlocksShown
  BY DEF Init, BlocksShown, Live
<1>2. BlocksShown /\ IInv /\ [Next]_vars => BlocksShown'
  BY NextShown
<1>3. ASSUME IInv, BlocksShown PROVE BlocksAccounted
  <2>1. {r.vptr : r \in Regions} = {Block(k) : k \in DOMAIN vvmem_start}
    <3>1. \A k \in DOMAIN vvmem_start : Region(k) \in Regions /\ Region(k).vptr = Block(k)
      BY DEF Regions, Region, Block
    <3>2. \A r \in Regions : \E k \in DOMAIN vvmem_start : r = Region(k)
      BY DEF Regions
    <3> QED BY <3>1, <3>2
  <2>2. \A k \in DOMAIN vvmem_start : Block(k) \in heap \cup globalMem
    BY <1>3 DEF IInv, SessionInv
  <2>3. \A r \in Regions : r.vptr \in heap \cup globalMem
    BY <2>2 DEF Regions, Region, Block
  <2>4. phase \in Live => heap \cup globalMem = {Block(k) : k \in DOMAIN vvmem_start} \cup
          (IF phase = "destroying" THEN globalMem ELSE {})
    BY <1>3, <2>2 DEF BlocksShown
  <2>5. ASSUME phase = "running" PROVE heap = {Block(k) : k \in Range(recorded)}
    <3>1. /\ Frozen /\ recorded \in Seq(Nat) /\ heap \cap globalMem = {}
          /\ \A h \in heap : \E k \in DOMAIN vvmem_start : Block(k) = h
      BY <1>3, <2>5 DEF IInv, SessionInv, TypeOK, BlocksShown, Live
    <3>2. Range(recorded) = {recorded[i] : i \in 1 .. Len(recorded)}
      BY <3>1 DEF Range
    <3>3. Range(recorded) = {k \in DOMAIN vvmem_start : Mark <= k}
      BY <3>1, <3>2 DEF Frozen
    <3>4. \A k \in DOMAIN vvmem_start : Mark <= k \/ k < Mark
      <4>1. freezeStack \in Seq(Nat) /\ 1 \in 1 .. Len(freezeStack)
        BY <1>3, <3>1 DEF IInv, TypeOK, Frozen
      <4>2. Mark \in Nat
        BY <4>1, ElementOfSeq DEF Mark
      <4> QED BY <1>3, <4>2, Numbers DEF IInv
    <3>5. \A h \in heap : \E k \in Range(recorded) : Block(k) = h
      BY <3>1, <3>3, <3>4 DEF Frozen
    <3>6. \A k \in Range(recorded) : Block(k) \in heap
      BY <3>1, <3>3 DEF Frozen
    <3> QED BY <3>5, <3>6
  <2>6. phase = "destroyed" => heap = {} /\ Regions = {}
    BY <1>3 DEF BlocksShown, Regions
  <2> QED BY <2>1, <2>3, <2>4, <2>5, <2>6 DEF BlocksAccounted, Block
<1> QED BY <1>1, <1>2, <1>3, Inductive, PTL DEF Spec

-----------------------------------------------------------------------------
\* The steps as changes of the set of regions.

LEMMA PutRegions ==
  ASSUME TypeOK, MapInv, NEW h \in Host, NEW size \in Nat,
         NEW vv \in Nat, vv = lastAllocAddr, put(lastAllocAddr, h, size)
  PROVE  Regions' = Regions \cup {[base |-> vv, size |-> size, vptr |-> h]}
<1>1. /\ vv \notin DOMAIN vvmem_start
      /\ DOMAIN vvmem_start' = DOMAIN vvmem_start \cup {vv}
      /\ \A k \in DOMAIN vvmem_start : holder'[vvmem_start'[k]] = holder[vvmem_start[k]]
      /\ holder'[vvmem_start'[vv]] = [vptr |-> h, size |-> size]
  BY PutFacts
<1>2. \A k \in DOMAIN vvmem_start : Region(k)' = Region(k)
  BY <1>1 DEF Region
<1>3. Region(vv)' = [base |-> vv, size |-> size, vptr |-> h]
  BY <1>1 DEF Region
<1>4. Regions' = {Region(k)' : k \in DOMAIN vvmem_start \cup {vv}}
  BY <1>1 DEF Regions
<1> HIDE DEF Region
<1> QED BY <1>2, <1>3, <1>4 DEF Regions

LEMMA FreeRegions ==
  ASSUME IInv, NEW k \in DOMAIN vvmem_start, NEW found,
         free(k, found), UNCHANGED lastAllocAddr
  PROVE  Regions' = Regions \ {Region(k)}
<1>1. TypeOK /\ MapInv
  BY DEF IInv
<1>2. PICK e : e = Top(k)
  OBVIOUS
<1>3. remove(<<k, e>>)
  BY <1>1, <1>2, FreeStep
<1>4. /\ DOMAIN vvmem_start' = DOMAIN vvmem_start \ {k}
      /\ \A j \in DOMAIN vvmem_start' : holder'[vvmem_start'[j]] = holder[vvmem_start[j]]
  BY <1>1, <1>2, <1>3, RemoveFacts
<1>5. \A j \in DOMAIN vvmem_start \ {k} : Region(j)' = Region(j)
  BY <1>4 DEF Region
<1>6. \A j \in DOMAIN vvmem_start \ {k} : Region(j) # Region(k)
  BY DEF Region
<1>7. Regions' = {Region(j)' : j \in DOMAIN vvmem_start \ {k}}
  BY <1>4 DEF Regions
<1> QED BY <1>5, <1>6, <1>7 DEF Regions

\* What each step does to the regions.
LEMMA StepRegions ==
  ASSUME IInv, [Next]_vars
  PROVE  \/ \E vv \in Nat, h \in Host, size \in Size \cup {1} :
              /\ vv = lastAllocAddr /\ vv <= EndAddr
              /\ \A k \in DOMAIN vvmem_start : Block(k) # h
              /\ Regions' = Regions \cup {[base |-> vv, size |-> size, vptr |-> h]}
         \/ \E k \in DOMAIN vvmem_start :
              /\ Regions' = Regions \ {Region(k)}
              /\ phase' = "resetting" => phase \in {"running", "resetting"} /\ Mark <= k
              /\ phase' \in {"resetting", "destroying"}
         \/ Regions' = Regions
<1>1. ASSUME NEW h \in Host, NEW size \in Size \cup {1}, NEW found,
             add(h, size, found), \A k \in DOMAIN vvmem_start : Block(k) # h
      PROVE  \/ /\ lastAllocAddr <= EndAddr
                /\ Regions' = Regions \cup
                     {[base |-> lastAllocAddr, size |-> size, vptr |-> h]}
             \/ Regions' = Regions
  <2>1. size \in Nat /\ TypeOK /\ MapInv /\ lastAllocAddr \in Nat
    BY <1>1, SizeAssumption DEF IInv, TypeOK
  <2>2. \/ UNCHANGED maps
        \/ /\ put(lastAllocAddr, h, size) /\ lastAllocAddr < lastAllocAddr'
           /\ lastAllocAddr' <= EndAddr /\ lastAllocAddr' \in Nat
    BY <1>1, <2>1, AddStep
  <2>3. CASE UNCHANGED maps
    BY <2>3 DEF maps, Regions, Region
  <2>4. CASE /\ put(lastAllocAddr, h, size) /\ lastAllocAddr < lastAllocAddr'
             /\ lastAllocAddr' <= EndAddr /\ lastAllocAddr' \in Nat
    <3>1. lastAllocAddr <= EndAddr
      BY <2>1, <2>4, WindowAssumption DEF EndAddr
    <3> QED BY <2>1, <2>4, <3>1, PutRegions
  <2> QED BY <2>2, <2>3, <2>4
<1>2. ASSUME NEW h \in Host, Unused(h)
      PROVE  \A k \in DOMAIN vvmem_start : Block(k) # h
  BY <1>2 DEF Unused, IInv, SessionInv
<1>3. lastAllocAddr \in Nat
  BY DEF IInv, TypeOK
<1>4. CASE MapGlobal
  BY <1>1, <1>2, <1>3, <1>4 DEF MapGlobal, mapObject
<1>5. CASE MapFunction
  BY <1>1, <1>2, <1>3, <1>5 DEF MapFunction, mapObject
<1>6. CASE Malloc
  BY <1>1, <1>2, <1>3, <1>6 DEF Malloc
<1>7. CASE ResetFree
  <2>1. /\ phase \in {"running", "resetting"} /\ recorded # << >>
        /\ free(Head(recorded), "resetting") /\ UNCHANGED lastAllocAddr
    BY <1>7 DEF ResetFree, generator
  <2>2. Frozen /\ recorded \in Seq(Nat)
    BY <2>1 DEF IInv, SessionInv, TypeOK
  <2>3. Head(recorded) = recorded[1] /\ 1 \in 1 .. Len(recorded)
    BY <2>1, <2>2
  <2>4. PICK k \in DOMAIN vvmem_start : k = Head(recorded) /\ Mark <= k
    BY <2>2, <2>3 DEF Frozen
  <2>5. phase' = "resetting" /\ Regions' = Regions \ {Region(k)}
    BY <2>1, <2>4, FreeView, FreeRegions
  <2> QED BY <2>1, <2>4, <2>5
<1>8. CASE DestroyFree
  <2>1. PICK k \in DOMAIN vvmem_start : free(k, "destroying")
    BY <1>8 DEF DestroyFree
  <2>2. UNCHANGED lastAllocAddr
    BY <1>8 DEF DestroyFree, generator
  <2>3. phase' = "destroying" /\ Regions' = Regions \ {Region(k)}
    BY <2>1, <2>2, FreeView, FreeRegions
  <2> QED BY <2>3
<1>9. CASE UNCHANGED maps
  BY <1>9 DEF maps, Regions, Region
<1> QED
  BY <1>4, <1>5, <1>6, <1>7, <1>8, <1>9
     DEF Next, vars, Freeze, ResetDone, DestroyDone, Stopped

\* The memory map implements the abstract address space: regions appear apart
\* from all others, and disappear whole.
THEOREM Refinement == Spec => ImplementsAddressSpace
<1>1. Init => Space!Init
  BY DEF Init, Space!Init, Regions
<1>2. ASSUME IInv, [Next]_vars PROVE [Space!Next]_Regions
  <2>1. CASE \E vv \in Nat, h \in Host, size \in Size \cup {1} :
              /\ vv = lastAllocAddr /\ vv <= EndAddr
              /\ \A k \in DOMAIN vvmem_start : Block(k) # h
              /\ Regions' = Regions \cup {[base |-> vv, size |-> size, vptr |-> h]}
    <3>1. PICK vv \in Nat, h \in Host, size \in Size \cup {1} :
              /\ vv = lastAllocAddr /\ vv <= EndAddr
              /\ \A k \in DOMAIN vvmem_start : Block(k) # h
              /\ Regions' = Regions \cup {[base |-> vv, size |-> size, vptr |-> h]}
      BY <2>1
    <3>2. vv \in StartAddr .. EndAddr
      BY <1>2, <3>1, WindowAssumption DEF IInv, MapInv, InWindow, EndAddr
    <3>3. ASSUME NEW k \in DOMAIN vvmem_start
          PROVE  Region(k).vptr # h /\ Region(k).base + Region(k).size < vv
      BY <1>2, <3>1 DEF Region, Block, Top, IInv, MapInv, InWindow
    <3>4. Space!Map(h, vv, size)
      BY <3>1, <3>3 DEF Space!Map, Space!Apart, Regions
    <3> QED BY <3>2, <3>4 DEF Space!Next
  <2>2. CASE \E k \in DOMAIN vvmem_start : Regions' = Regions \ {Region(k)}
    BY <2>2 DEF Space!Next, Space!Unmap, Regions
  <2> QED BY <1>2, <2>1, <2>2, StepRegions
<1> QED BY <1>1, <1>2, Inductive, PTL DEF Spec, ImplementsAddressSpace, Space!Spec

\* Neither an allocation nor a reset touches a global or a function.
THEOREM GlobalsUntouched == Spec => GlobalsStay
<1>1. ASSUME IInv, [Next]_vars, Created, Created'
      PROVE  Globals' = Globals /\ Mark' = Mark
  <2>1. Frozen /\ Frozen'
    BY <1>1, NextIInv DEF Created, IInv, SessionInv
  <2>2. Mark' = Mark
    <3>1. CASE ResetDone
      <4>1. freezeStack \in Seq(Nat) /\ Len(freezeStack) = 1
        BY <1>1, <2>1 DEF IInv, TypeOK, Frozen
      <4>2. freezeStack # << >>
        <5>1. Len(<< >>) # 1
          OBVIOUS
        <5> QED BY <4>1, <5>1
      <4>3. 1 \in 1 .. Len(freezeStack)
        BY <4>1
      <4>4. Mark \in Nat /\ freezeStack[Len(freezeStack)] = Mark
        BY <4>1, <4>3, ElementOfSeq DEF Mark
      <4>5. freezeStack' = Append(SubSeq(freezeStack, 1, Len(freezeStack) - 1), Mark)
        BY <3>1, <4>2, <4>4 DEF ResetDone
      <4>6. SubSeq(freezeStack, 1, Len(freezeStack) - 1) = << >>
        BY <4>1, SubSeqProperties
      <4>7. << >> \in Seq(Nat) /\ Len(<< >>) = 0
        OBVIOUS
      <4>8. freezeStack'[1] = Mark
        BY <4>4, <4>5, <4>6, <4>7, AppendProperties
      <4> QED BY <4>8 DEF Mark
    <3>2. CASE UNCHANGED freezeStack
      BY <3>2 DEF Mark
    <3> QED
      BY <1>1, <3>1, <3>2
         DEF Next, vars, generator, Created, MapGlobal, MapFunction, mapObject, Freeze,
             Malloc, ResetFree, DestroyFree, DestroyDone, Stopped
  <2>3. Mark <= lastAllocAddr /\ Mark \in Nat /\ lastAllocAddr \in Nat
    <3>1. freezeStack \in Seq(Nat) /\ 1 \in 1 .. Len(freezeStack)
      BY <1>1, <2>1 DEF IInv, TypeOK, Frozen
    <3>2. Mark \in Nat
      BY <3>1, ElementOfSeq DEF Mark
    <3> QED BY <1>1, <2>1, <3>2 DEF Frozen, IInv, TypeOK
  <2>4. \A k \in DOMAIN vvmem_start : k \in Nat /\ Region(k).base = k
    BY <1>1, Numbers DEF IInv, Region
  <2>5. CASE \E vv \in Nat, h \in Host, size \in Size \cup {1} :
              /\ vv = lastAllocAddr
              /\ Regions' = Regions \cup {[base |-> vv, size |-> size, vptr |-> h]}
    BY <2>2, <2>3, <2>5 DEF Globals
  <2>6. CASE \E k \in DOMAIN vvmem_start :
              /\ Regions' = Regions \ {Region(k)}
              /\ phase' = "resetting" => phase \in {"running", "resetting"} /\ Mark <= k
              /\ phase' \in {"resetting", "destroying"}
    <3>1. PICK k \in DOMAIN vvmem_start : Regions' = Regions \ {Region(k)} /\ Mark <= k
      BY <1>1, <2>6 DEF Created
    <3>2. ~(Region(k).base < Mark)
      BY <2>3, <2>4, <3>1
    <3> QED BY <2>2, <3>1, <3>2 DEF Globals
  <2>7. CASE Regions' = Regions
    BY <2>2, <2>7 DEF Globals
  <2> QED BY <1>1, <2>2, <2>5, <2>6, <2>7, StepRegions
<1> QED BY <1>1, Inductive, PTL DEF Spec, GlobalsStay
=============================================================================

---------------------------- MODULE AddressSpace ----------------------------
(***************************************************************************)
(* What the interpreter's memory map promises, and nothing about how it is *)
(* kept: a set of live regions of interpreter addresses ("vvptr"), each    *)
(* backed by one block of host memory ("vptr").  The regions are far       *)
(* enough apart that even the one-past-the-end address of a region, which  *)
(* C pointer arithmetic may produce, belongs to that region alone.         *)
(***************************************************************************)
EXTENDS Naturals

CONSTANTS
  Host,     \* the blocks of host memory a region can be backed by
  Address,  \* the addresses regions lie at
  Size      \* their sizes in bytes

VARIABLE regions \* the live regions, each [base, size, vptr]

\* The addresses of a region, with the one past its end.
Covers(r, v) == r.base <= v /\ v <= r.base + r.size

Apart(r, s) == r.base + r.size < s.base \/ s.base + s.size < r.base

Init == regions = {}

\* A block of host memory that backs no region becomes visible at addresses
\* no live region covers.
Map(h, base, size) ==
  LET r == [base |-> base, size |-> size, vptr |-> h]
  IN  /\ \A s \in regions : s.vptr # h /\ Apart(r, s)
      /\ regions' = regions \cup {r}

Unmap(r) ==
  /\ r \in regions
  /\ regions' = regions \ {r}

Next ==
  \/ \E h \in Host, base \in Address, size \in Size : Map(h, base, size)
  \/ \E r \in regions : Unmap(r)

Spec == Init /\ [][Next]_regions
=============================================================================

--------------------------- MODULE MCMapAllocator ---------------------------
(***************************************************************************)
(* A window of 16 addresses from 8 on, four blocks of host memory, and up  *)
(* to three allocations at a time.  The sizes are those the generator's    *)
(* rounding treats differently: 0, which gets an address of its own all    *)
(* the same, 3, the largest that fits one word with its one-past-the-end   *)
(* address, and 4, the first that does not.  (Functions add size 1.)  The  *)
(* window also runs out.                                                   *)
(***************************************************************************)
EXTENDS MapAllocator

MCSize == {0, 3, 4}
=============================================================================

---------------------------- MODULE MCStructProxy ----------------------------
(***************************************************************************)
(* Three objects with one or two pointer fields, three addresses beside    *)
(* the global's, and members one word into a struct.                       *)
(***************************************************************************)
EXTENDS StructProxy

MCNext == << "next" >>
MCNextPrev == << "next", "prev" >>
MCOffset == {0, 1}
=============================================================================

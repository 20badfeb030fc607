------------------------------- MODULE MCHeap -------------------------------
(***************************************************************************)
(* Heap with pages of six units of ALIGN, headers of two.  The sizes cover *)
(* one unit, a size that leaves too little to split, and a whole page,     *)
(* which one expansion cannot serve.                                       *)
(***************************************************************************)
EXTENDS Heap

MCSizes == {5, 40, 96}
=============================================================================

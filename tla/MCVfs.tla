------------------------------- MODULE MCVfs -------------------------------
(***************************************************************************)
(* Vfs with three mountpoints, mounted on any of the seven paths of two     *)
(* names and depth two, and one open file.                                  *)
(***************************************************************************)
EXTENDS Vfs, TLC

\* No definition tells one address, or one name, from another.
Symmetric == Permutations(Addresses) \cup Permutations(Names)
=============================================================================

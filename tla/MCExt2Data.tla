----------------------------- MODULE MCExt2Data -----------------------------
(***************************************************************************)
(* Ext2Data with two direct pointers and two pointers to a block: a file of *)
(* nine blocks needs all three levels of indirection.                       *)
(***************************************************************************)
EXTENDS Ext2Data
=============================================================================

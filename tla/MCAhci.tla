------------------------------- MODULE MCAhci -------------------------------
(***************************************************************************)
(* Ahci with pages of two sectors: four pages for the port, five for        *)
(* buffers.  The cfg gives the constants.                                   *)
(***************************************************************************)
EXTENDS Ahci
=============================================================================

------------------------------ MODULE MCPaging ------------------------------
(***************************************************************************)
(* Paging with two entries to a table and four virtual pages, which share   *)
(* with the first one all tables, all but the last, or the root alone.      *)
(* There are six pages for tables: the four need seven, three of them can   *)
(* need six or seven, so memory runs out or is filled exactly.              *)
(***************************************************************************)
EXTENDS Paging

MCIndex == {0, 1}
MCVPages == {<<0, 0, 0, 0>>, <<0, 0, 0, 1>>, <<0, 0, 1, 0>>, <<1, 0, 0, 0>>}
=============================================================================

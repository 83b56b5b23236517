----------------------------- MODULE MCTestArena -----------------------------
(* A page of two units; a base that is page-aligned but not aligned to the  *)
(* larger granule; tables of a page, and tables smaller than a page.        *)
EXTENDS TestArena

MCLayouts == {[bytes |-> 1, align |-> 1], [bytes |-> 2, align |-> 2]}
=============================================================================

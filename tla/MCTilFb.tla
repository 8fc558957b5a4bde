------------------------------ MODULE MCTilFb ------------------------------
(* TilFb on a few pages.  Pages are interchangeable addresses. *)
EXTENDS TilFb

Symmetry == Permutations(Page)
=============================================================================

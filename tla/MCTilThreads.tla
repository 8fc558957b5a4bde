---------------------------- MODULE MCTilThreads ----------------------------
(* TilThreads on a few threads. *)
EXTENDS TilThreads
=============================================================================

----------------------------- MODULE MCSubmit -----------------------------
(***************************************************************************)
(* Submit for TLC: a board of six cells, and frames of up to nine pixels a *)
(* side, cut in tiles of four and in two slices for each of up to 7 CPUs.  *)
(***************************************************************************)
EXTENDS Submit

MCSizes == 1 .. 9
MCCpus == 1 .. 7
=============================================================================

----------------------------- MODULE MCSparkler -----------------------------
(***************************************************************************)
(* Sparkler for TLC: one dimension, leaves that one occupant fills, and    *)
(* bursts that come apart on a grid of five places.                        *)
(***************************************************************************)
EXTENDS Sparkler

MCVelocities == {-1, 2}

(* what is seen beyond the cube on one side, and not seen within it on the
   other: two moves reach both *)
MCScreen == {[d \in Dims |-> x] : x \in 1 .. 2 * Side}
=============================================================================

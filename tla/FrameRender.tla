----------------------------- MODULE FrameRender -----------------------------
(***************************************************************************)
(* What module_render_fragment() promises a module: between its            *)
(* prepare_frame() and its finish_frame() each fragment of the frame plan  *)
(* is rendered, and rendered once, in any order and by whatever thread.    *)
(***************************************************************************)
EXTENDS Integers

CONSTANT MaxFragments   \* bound on the fragments of a frame

VARIABLES
  phase,      \* "prepare" before prepare_frame(), "render" till finish_frame()
  fragments,  \* number of fragments in the frame
  renders     \* how often each was rendered

vars == <<phase, fragments, renders>>

Fragment == 0 .. MaxFragments - 1

Init ==
  /\ phase = "prepare"
  /\ fragments = 0
  /\ renders = [f \in Fragment |-> 0]

Prepare ==
  /\ phase = "prepare"
  /\ fragments' \in 0 .. MaxFragments
  /\ renders' = [f \in Fragment |-> 0]
  /\ phase' = "render"

RenderFragment ==
  /\ phase = "render"
  /\ \E f \in 0 .. fragments - 1 :
       /\ renders[f] = 0
       /\ renders' = [renders EXCEPT ![f] = 1]
  /\ UNCHANGED <<phase, fragments>>

Finish ==
  /\ phase = "render"
  /\ \A f \in 0 .. fragments - 1 : renders[f] = 1
  /\ phase' = "prepare"
  /\ UNCHANGED <<fragments, renders>>

Next == Prepare \/ RenderFragment \/ Finish

Spec == Init /\ [][Next]_vars
FairSpec == Spec /\ WF_vars(Next)
=============================================================================

----------------------------- MODULE MCTilContexts ----------------------------
(* rtv with snow and two channels at one path, of compose and montage: the    *)
(* first renders a leaf and a ref to its path, the second two clones at that  *)
(* path and a pre that renders a leaf of its own.                             *)
EXTENDS TilContexts

MCOrder == <<"rtv1", "snow1", "compose1", "compose2", "leaf1", "leaf2", "ref1", "ref2",
             "montage1", "montage2", "clone1", "clone2", "clone3", "clone4", "pre1", "pre2",
             "inner1", "inner2">>
MCOf == <<"rtv", "snow", "compose", "compose", "leaf", "leaf", "ref", "ref",
          "montage", "montage", "clones", "clones", "clones", "clones", "pre", "pre",
          "inner", "inner">>
MCObj == {MCOrder[i] : i \in DOMAIN MCOrder}
MCSetup == {"rtv", "snow", "compose", "montage", "leaf", "ref", "clones", "pre", "inner"}
MCParts ==
  [s \in MCSetup |-> CASE s = "rtv" -> <<"snow", "compose", "montage">>
                       [] s = "compose" -> <<"leaf", "ref">>
                       [] s = "montage" -> <<"clones", "pre">>
                       [] s = "pre" -> <<"inner">>
                       [] OTHER -> <<>>]
MCPath == {"/rtv", "/snow", "/channel", "/0", "/1", "/inner"}
MCPathOf ==
  [s \in MCSetup |-> CASE s = "rtv" -> "/rtv" [] s = "snow" -> "/snow"
                       [] s \in {"compose", "montage"} -> "/channel"
                       [] s \in {"leaf", "clones"} -> "/0"
                       [] s \in {"ref", "pre"} -> "/1"
                       [] s = "inner" -> "/inner"]
MCClones == [s \in MCSetup |-> IF s = "clones" THEN 2 ELSE 1]
MCTarget == [s \in MCSetup |-> IF s = "ref" THEN "/0" ELSE "nopath"]
MCPre == {"pre"}
MCCareless == {"rtv", "montage"}

\* What the proof that nothing is leaked takes of the setups.
ASSUME LayeredAssumption == Layered

\* Contexts differ in nothing but where they are allocated, and what is freed
\* at once in nothing but the order.
Canonical ==
  /\ \A i \in DOMAIN MCOrder :
       LET c == MCOrder[i] IN
         setup[c] = None /\ setup'[c] # None =>
           /\ setup'[c] = MCOf[i]
           /\ \A j \in 1 .. i - 1 : MCOf[j] = MCOf[i] => setup[MCOrder[j]] # None
  /\ \A s \in todo \ todo' : s = CHOOSE t \in todo : TRUE
=============================================================================

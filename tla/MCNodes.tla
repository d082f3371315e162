------------------------------ MODULE MCNodes ------------------------------
(* Instances of Nodes for TLC.                                             *)
EXTENDS Nodes

CONSTANTS x, y, z
ThreeNodes == {x, y, z}

(* The elements come in this order.  Two of the 125 ways to give them      *)
(* their triggers: all five occur, polling above and below others.         *)
Mix(i, j, k) == (x :> i) @@ (y :> j) @@ (z :> k)
SomeMixes == {Mix("once", "poll", "load"), Mix("poll", "delay", "click")}
=============================================================================

----------------------------- MODULE MCRequests -----------------------------
(* Instances of Requests for TLC.                                          *)
EXTENDS Requests

CONSTANTS a, b, c

OnlyA == {a}
OnlyB == {b}
OnlyC == {c}
Page3 == {a, b, c}
(* c always queues; a and b share its lock, or have locks of their own and  *)
(* meet at the indicator only.                                             *)
SomeMixes == {f \in [Page3 -> Strategies] :
                 /\ f[c] = "queueAll" /\ f[a] \in {"none", "replace", "queueFirst"}
                 /\ f[a] = "none" <=> f[b] = "none"}
=============================================================================

------------------------------ MODULE MCClient ------------------------------
(* Instances of Client for TLC.                                            *)
EXTENDS Client

CONSTANTS a, b

OneCaller  == {a}
TwoCallers == {a, b}
=============================================================================

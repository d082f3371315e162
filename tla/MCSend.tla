------------------------------- MODULE MCSend -------------------------------
(* Instances of Send, and of the Registration it composes, for TLC.        *)
EXTENDS Send

CONSTANTS u1, u2, c1, c2, c3, r1, r2

TwoUsers    == {u1, u2}
ThreeCodes  == {c1, c2, c3}
TwoRequests == {r1, r2}
=============================================================================

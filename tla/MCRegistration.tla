--------------------------- MODULE MCRegistration ---------------------------
(* Instances of Registration for TLC.                                      *)
EXTENDS Registration

CONSTANTS u1, u2, c1, c2, r1, r2

TwoUsers    == {u1, u2}
TwoCodes    == {c1, c2}
TwoRequests == {r1, r2}
=============================================================================

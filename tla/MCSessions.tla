----------------------------- MODULE MCSessions -----------------------------
(* Instances of Sessions for TLC.                                          *)
EXTENDS Sessions, TLC

CONSTANTS u1, u2, bot, p1, p2, k1, t1, t2, r1, r2

ThreeUsers   == {u1, u2, bot}
TwoUsers     == {u1, u2}
TwoPasswords == {p1, p2}
OneKey       == {k1}
OneToken     == {t2}
TwoTokens    == {t1, t2}
TwoRequests  == {r1, r2}

(* Passwords and requests are interchangeable. *)
Symmetry == Permutations(TwoPasswords) \cup Permutations(TwoRequests)
=============================================================================

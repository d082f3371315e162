----------------------------- MODULE MCDelivery -----------------------------
(* Instances of Delivery for TLC.                                          *)
EXTENDS Delivery, TLC

CONSTANTS s1, u1, u2

OneReader  == {s1}
TwoSenders == {u1, u2}

(* The two users are interchangeable. *)
SenderSymmetry == Permutations(TwoSenders)
=============================================================================

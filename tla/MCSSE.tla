------------------------------- MODULE MCSSE -------------------------------
(* Instances of SSE for TLC.                                               *)
EXTENDS SSE, TLC

CONSTANTS listener, child, s1, s2

Page      == {listener, child}
TheParent == (listener :> NoElement) @@ (child :> listener)
TheSource == {listener}
TheChild  == {child}
TwoSlots  == {s1, s2}
=============================================================================

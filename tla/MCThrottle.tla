----------------------------- MODULE MCThrottle -----------------------------
(* Instances of Throttle for TLC.                                          *)
EXTENDS Throttle

CONSTANTS p1, p2, c1, c2, c3

TwoOnFirst == [c \in {c1, c2, c3} |-> IF c = c3 THEN p2 ELSE p1]
=============================================================================

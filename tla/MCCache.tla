------------------------------ MODULE MCCache ------------------------------
(* Instances of Cache for TLC.                                             *)
EXTENDS Cache

CONSTANTS p1, p2, c1, c2

MCCalls == {c1, c2}
OneEach == [c \in MCCalls |-> IF c = c1 THEN p1 ELSE p2]
AllOnFirst == [c \in MCCalls |->
  IF c = c1 THEN {"get", "set", "add", "delete", "incr"} ELSE {"set", "incr"}]
=============================================================================

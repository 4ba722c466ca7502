--------------------------- MODULE MCRedisBreaker ---------------------------
(* Two pods, the second one's clock a tick ahead.  Only p1 may lose Redis, *)
(* so that the pods disagree on which breaker is in charge.                *)
EXTENDS RedisBreaker, TLC
CONSTANTS p1, p2, c1, c2, c3

TwoOnFirst == c1 :> p1 @@ c2 :> p1 @@ c3 :> p2
OneEach == c1 :> p1 @@ c3 :> p2
SameCallers == Permutations({c1, c2})
SecondAhead == p1 :> 0 @@ p2 :> 1
=============================================================================

-------------------------- MODULE MCMemoryBreaker --------------------------
(* Instances of MemoryBreaker for TLC: the cfg files give the constants.   *)
(* Callers are interchangeable: used only where no liveness is checked.    *)
EXTENDS MemoryBreaker, TLC

Callers == Permutations(Calls)
=============================================================================

------------------------------ MODULE MCMetrics ------------------------------
(* A small instance of Metrics.                                            *)
EXTENDS Metrics, TLC

CONSTANTS o1, o2, o3, r1, r2

SomeOps == {o1, o2, o3}
Two == {r1, r2}
Alike == Permutations(SomeOps) \cup Permutations(Two)
=============================================================================

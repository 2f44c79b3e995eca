--------------------------- MODULE MCClusterLocks ---------------------------
(* ClusterLocks on a small cluster: p1 coordinates the pool, p2 after it.  *)
EXTENDS ClusterLocks, TLC

CONSTANTS p1, p2, p3

MCProc  == {p1, p2, p3}
MCScore == (p1 :> 3) @@ (p2 :> 2) @@ (p3 :> 1)
FirstAndLast == [p \in MCProc |-> IF p = p2 THEN 0 ELSE 1]

=============================================================================

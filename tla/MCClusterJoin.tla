---------------------------- MODULE MCClusterJoin ----------------------------
(* ClusterJoin for TLC.  Two joins for existing rooms on one connection and    *)
(* one owner; or a join that creates a room with two processes to choose from. *)
EXTENDS ClusterJoin, TLC

CONSTANTS o1, o2, c1, c2, j1, j2, j3

TwoAndOne == j1 :> c1 @@ j2 :> c1 @@ j3 :> c2

RoomsOrCreate == {[procs |-> {Edge, o1}, conns |-> {c1}],
                  [procs |-> {Edge, o1, o2}, conns |-> {c2}]}

\* A room to create and an existing one, on one connection and one owner.
OneOwner == {[procs |-> {Edge, o1}, conns |-> {c1}]}
=============================================================================

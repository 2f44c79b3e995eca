---------------------------- MODULE MCRoomSeats ----------------------------
(* RoomSeats on small instances: a few clients and connections, all alike. *)
EXTENDS RoomSeats, TLC

CONSTANTS c1, c2, c3, k1, k2

MCClient2 == {c1, c2}
MCClient3 == {c1, c2, c3}
MCConn    == {k1, k2}

Symmetry2 == Permutations(MCClient2) \cup Permutations(MCConn)
Symmetry3 == Permutations(MCClient3) \cup Permutations(MCConn)

=============================================================================

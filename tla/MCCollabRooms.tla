---------------------------- MODULE MCCollabRooms ----------------------------
(* Instances of CollabRooms for TLC. *)
EXTENDS CollabRooms, TLC

CONSTANT u1

PaddedFirst == {u1}

\* Sound for invariants: connections, users and rooms are only compared for
\* equality; the updates are not interchangeable.
Symmetry == Permutations(Conns) \cup Permutations(Users) \cup Permutations(Rooms)
==============================================================================

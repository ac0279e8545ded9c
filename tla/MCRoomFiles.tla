---------------------------- MODULE MCRoomFiles ----------------------------
(* Model values and symmetry for the runs of RoomFiles. *)
EXTENDS RoomFiles, TLC

ConnSymmetry == Permutations(Conn)
=============================================================================

------------------------------ MODULE MCLobby ------------------------------
(* Model values and symmetry for the runs of Lobby. *)
EXTENDS Ownership, TLC

ConnSymmetry == Permutations(Conn)
=============================================================================

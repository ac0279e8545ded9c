--------------------------- MODULE MCParticipants ---------------------------
(* Model values and symmetry for the runs of Participants. *)
EXTENDS Participants

PeerSymmetry == Permutations(Peer)
=============================================================================

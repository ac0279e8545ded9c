------------------------------- MODULE MCRoom -------------------------------
(* Model values and symmetry for the runs of Room. *)
EXTENDS Room

PeerSymmetry == Permutations(Peer)
=============================================================================

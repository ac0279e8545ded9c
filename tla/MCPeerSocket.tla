---------------------------- MODULE MCPeerSocket ----------------------------
(* The runs of PeerSocket. *)
EXTENDS PeerSocket
=============================================================================

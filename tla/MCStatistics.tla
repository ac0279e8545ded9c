---------------------------- MODULE MCStatistics ----------------------------
(* The runs of Statistics take its constants from the .cfg files. *)
EXTENDS Statistics
=============================================================================

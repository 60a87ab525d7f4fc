------------------------------- MODULE MCCRDT -------------------------------
(* Instances of CRDT for TLC.                                              *)
EXTENDS CRDT

MCNodes == 1..2
=============================================================================

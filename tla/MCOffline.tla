------------------------------ MODULE MCOffline ------------------------------
(* Instances of Offline for TLC: those of its two halves. *)
EXTENDS Offline, MCPageLib, MCSearchIndex
=============================================================================

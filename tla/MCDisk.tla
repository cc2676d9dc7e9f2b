-------------------------------- MODULE MCDisk --------------------------------
(* A small instance of Disk for TLC. *)
EXTENDS Disk

CONSTANTS t1, t2, s1
=============================================================================

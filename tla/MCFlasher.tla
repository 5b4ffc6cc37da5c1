------------------------------ MODULE MCFlasher ------------------------------
(* Instance of Flasher for TLC: the bounds are given by the cfgs.             *)
EXTENDS Flasher
=============================================================================

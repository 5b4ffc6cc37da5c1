-------------------------------- MODULE MCBle --------------------------------
(* Instance of BleLink for TLC: the bounds are given by the cfg.              *)
EXTENDS BleLink
=============================================================================

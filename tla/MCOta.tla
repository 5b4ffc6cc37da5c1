-------------------------------- MODULE MCOta --------------------------------
(* Instance of OtaTransfer for TLC: the bounds are given by the cfg.          *)
EXTENDS OtaTransfer
=============================================================================

------------------------------- MODULE MCBoot -------------------------------
(* Instance of BootRecovery for TLC: the bounds are given by the cfgs.        *)
EXTENDS BootRecovery
=============================================================================

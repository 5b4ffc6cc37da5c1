------------------------------ MODULE MCPower -------------------------------
(* Instance of PowerManager for TLC: the bounds are given by the cfgs.        *)
EXTENDS PowerManager
=============================================================================

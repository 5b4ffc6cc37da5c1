----------------------------- MODULE MCSettings -----------------------------
(* Instance of SettingsProtocol for TLC: the bounds are given by the cfgs.    *)
EXTENDS SettingsProtocol
=============================================================================

----------------------------- MODULE MCDelivery -----------------------------
(* Instance of DeliveryProtocol for TLC: the bounds are given by the cfgs.    *)
EXTENDS DeliveryProtocol
=============================================================================

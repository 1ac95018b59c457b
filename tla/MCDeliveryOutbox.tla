-------------------------- MODULE MCDeliveryOutbox --------------------------
(* TLC instances of DeliveryOutbox.                                        *)
EXTENDS DeliveryOutbox
=============================================================================

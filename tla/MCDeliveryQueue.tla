--------------------------- MODULE MCDeliveryQueue ---------------------------
(* Small instances of DeliveryQueue for TLC. *)
EXTENDS DeliveryQueueProperties

CONSTANTS d1, d2

\* d1 is a message with two payloads.
MCPayloads == [d \in Deliveries |-> IF d = d1 THEN 2 ELSE 1]
=============================================================================

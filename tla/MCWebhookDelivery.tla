-------------------------- MODULE MCWebhookDelivery --------------------------
(* Instances of WebhookDelivery for TLC. *)
EXTENDS WebhookDelivery, TLC

CONSTANTS w1, w2, t1, t2, hook

OneHook == [d \in Deliveries |-> hook]
=============================================================================

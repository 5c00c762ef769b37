------------------------- MODULE MCWebhookDelivery --------------------------
(* WebhookDelivery on a small instance.                                    *)
EXTENDS WebhookDelivery

CONSTANTS keyed, keyless

\* A batch of a keyed event and a keyless one, and the keyed one on its own.
MCBodies == {<<keyed, keyless>>, <<keyed>>}
=============================================================================

-------------------------- MODULE MCCommandDelivery --------------------------
(* CommandDelivery with one API handler; the streams are senders as well.    *)
EXTENDS CommandDelivery

CONSTANTS h1

OneHandler == {h1}
=============================================================================

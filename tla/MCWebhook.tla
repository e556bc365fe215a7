------------------------------- MODULE MCWebhook -------------------------------
(* The webhook service with one background thread beside the sweep.          *)
EXTENDS Webhook

CONSTANTS o1, worker, sweeper
===============================================================================

----------------------------- MODULE MCEventStream -----------------------------
(* Two threads that append, one console, a log that outgrows what the console *)
(* keeps. *)
EXTENDS EventStream

CONSTANTS service, api
=============================================================================

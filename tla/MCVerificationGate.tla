-------------------------- MODULE MCVerificationGate --------------------------
(* The gate on one record, two threads and a condition that can give every  *)
(* result, with a bound of three attempts or two units of time.               *)
EXTENDS VerificationGate, TLC

CONSTANTS order, webhook, sweep

Threads == Permutations(Verifiers)
===============================================================================

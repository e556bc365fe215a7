------------------------------- MODULE MCBooking -------------------------------
(* Booking with one booking run and one or two callers that only verify.   *)
EXTENDS Booking, TLC

CONSTANTS capture, impact, red, blue

MCKindOf == [j \in Jobs |-> IF j = capture THEN "book" ELSE "verify"]

(* The impact evaluation verifies an option other than the one being booked. *)
MCOptionOf == [j \in Jobs |-> IF j = capture THEN red ELSE blue]
=============================================================================

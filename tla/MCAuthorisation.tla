--------------------------- MODULE MCAuthorisation ---------------------------
(* Authorisation on two actions, two prices (0 is free of charge) and two   *)
(* recording processes, over logs of up to four events.                    *)
EXTENDS Authorisation, FiniteSets, TLC

CONSTANTS rebook, rename, console, capture

(* Rebooking voids the old booking for good; renaming is free of traits. *)
MCTraitsOf ==
  [a \in Actions |-> IF a = rebook THEN {"cancels", "irreversible"} ELSE {}]

(* Nothing tells the two processes apart. *)
MCSymmetry == Permutations(Recorders)

(* Bound: calls between their read of the log and their appends. *)
MaxPending == 2
PairsOfCalls ==
  Cardinality({a \in Actions : engine[a] # Idle})
    + Cardinality({r \in Recorders : recorder[r] # Idle}) <= MaxPending
=============================================================================

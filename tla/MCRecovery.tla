------------------------------- MODULE MCRecovery -------------------------------
(* Recovery with up to three calls of execute: `first` and `again` for the   *)
(* same recommendation, `second` for another, beside an impact evaluation    *)
(* that only verifies options.                                               *)
EXTENDS Recovery, TLC

CONSTANTS first, again, second, impact, red, blue, green, keep, swap

MCKindOf == [j \in Jobs |-> IF j = impact THEN "verify" ELSE "recover"]
MCRecoveryOf ==
  [j \in Jobs \ {impact} |-> IF j = second THEN keep ELSE swap]

(* Bound: Atlas answers that get lost, garbled or come without the order
   number or the session they should carry, and crashes, in one run. *)
MaxFaults == 1
Faults ==
  Cardinality({i \in 1..Len(orders) : orders[i].no = NoOrder})
    + Cardinality({p \in payments : p.outcome \in {"UNCERTAIN", "ERROR"}})
    + Cardinality({o \in verified :
                      \A i \in 1..Len(held) : held[i].value # Session(o)})
    + Cardinality({j \in Jobs : At(j, "crashed")})
FewFaults == Faults <= MaxFaults

(* Two calls for the same recommendation cannot be told apart. *)
MCSymmetry == Permutations({first, again})

MCOptionOf == [j \in Jobs |-> IF j \in {second, impact} THEN green ELSE blue]
=============================================================================

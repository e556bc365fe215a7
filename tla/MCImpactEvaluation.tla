-------------------------- MODULE MCImpactEvaluation --------------------------
(* Overlapping evaluations of one journey.                                    *)
EXTENDS ImpactEvaluation

CONSTANTS w1, w2
=============================================================================

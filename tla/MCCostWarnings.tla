--------------------------- MODULE MCCostWarnings ---------------------------
(***************************************************************************)
(* Instances of CostWarnings for TLC: two wrappers of two providers, a     *)
(* global budget with both levels and one provider with a warning level.   *)
(***************************************************************************)
EXTENDS CostWarnings, TLC

CONSTANTS w1, w2, t1, t2

ThreadSymmetry == Permutations(Threads)

MCScopes == {"global", "google"}
MCScopesOf == [w \in {w1, w2} |-> IF w = w1 THEN {"global", "google"} ELSE {"global"}]
MCKeys == {<<"global", "warning">>, <<"global", "critical">>, <<"google", "warning">>}
MCLimit == [k \in MCKeys |-> IF k[2] = "critical" THEN 3 ELSE 2]
=============================================================================

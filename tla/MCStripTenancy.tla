----------------------------- MODULE MCStripTenancy -----------------------------
(* The strip on small instances: two companies, one of them with two units.     *)
EXTENDS StripTenancy, TLC

CONSTANTS co1, co2, u1, u2, u3

MCCompanyOf == [u \in Unit |-> IF u = u3 THEN co2 ELSE co1]

MCUnitOf == [c \in Company |-> IF c = co2 THEN u3 ELSE u1]

CallSymmetry == Permutations(Call)

================================================================================

--------------------------- MODULE MCConsumption ---------------------------
(* Consumption with two companies: one order each, and a second order of c1. *)
EXTENDS Consumption, TLC

CONSTANTS o1, o2, p, r, s, t, e, c1, c2, m1, b1, b2

MCCompanyOf == [o \in Order |-> IF o = p THEN c2 ELSE c1]
MCRowsOf == [o \in Order |-> 1]
MCOrderOf == [q \in Request |-> IF q = r THEN o1 ELSE IF o2 \in Order THEN o2 ELSE p]
MCFinds == [a \in Address |-> IF a = m1 THEN {m1, b2} ELSE {a}]
MCAddressOf == [q \in Request |-> m1]
MCbilling == [c \in Company |-> IF c = c1 THEN b1 ELSE b2]
=============================================================================

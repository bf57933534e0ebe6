--------------------------- MODULE MCRegistration ---------------------------
(* Registration with a paid registration of address ann, one of bob and one with a bad *)
(* VAT number, and an update for ob, which the search of FossBilling finds in bob.     *)
EXTENDS Registration, TLC

CONSTANTS r1, r2, v, u, ann, bob, ob

MCEmailOf == [m \in Message |-> IF m = r2 THEN bob ELSE IF m = u THEN ob ELSE ann]
MCTraffic == {{r1, r2, u}, {r1, v}, {v, u}}
MCFinds == [e \in Email |-> IF e = ob THEN {ob, bob} ELSE {e}]
=============================================================================

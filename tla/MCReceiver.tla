----------------------------- MODULE MCReceiver -----------------------------
(* Receiver on messages a0, a1 and a2 of one id (a0 is rejected by the XSD, a1 and a2 *)
(* are good copies), b with another id, g that is no XML, and r whose entities       *)
(* defusedxml refuses.                                                                *)
EXTENDS Receiver, TLC

CONSTANTS a0, a1, a2, b, g, r, ida, idb

MCMessage == {a0, a1, a2, b, g, r}
MCId == {ida, idb}
MCIdOf == [m \in Message |-> IF m \in {a0, a1, a2} THEN ida ELSE idb]
MCShapeOf == [m \in Message |-> IF m = a0 THEN "invalid" ELSE IF m = g THEN "garbled"
                                ELSE IF m = r THEN "refused" ELSE "valid"]

\* A resend of a valid message with another in between; the corrected resend of an
\* invalid one; something unparseable, of either kind.
MCTraffic == {{a1, a2, b}, {a0, a1}, {a0, a2}, {b, g}, {b, r}}

\* The invalid message and its corrected resend.
TwoMessages == {a0, a1}
TwoTraffic == {TwoMessages}

\* A good message, one that is no XML and a refused one.
BadMessage == {b, g, r}
BadTraffic == {BadMessage}

\* The copies of the resent message are interchangeable.
Copies == Permutations({a1, a2})
=============================================================================

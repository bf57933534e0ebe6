------------------------------ MODULE Delivery ------------------------------
(***************************************************************************)
(* What the receiver promises to the handlers of the message types: one    *)
(* message at a time; only what the schemas accept; a message whose id is  *)
(* marked is discarded; a message whose handler did not end comes back,    *)
(* with its id marked until the process starts again.  Connections, queues *)
(* and threads are not visible here: module Receiver implements this       *)
(* specification, and the modules of the handlers are built on it.         *)
(***************************************************************************)
CONSTANTS
  Message, NoMessage,
  Id, IdOf,   \* the id of each message
  Refused     \* messages that no handler sees

VARIABLES
  inbox,      \* messages that are still to come, again or for the first time
  taken,      \* ids that are marked
  cur         \* the message whose handler runs

Init == inbox = Message /\ taken = {} /\ cur = NoMessage

Take(m) ==
  /\ cur = NoMessage
  /\ m \in inbox \ Refused
  /\ IdOf[m] \notin taken
  /\ inbox' = inbox \ {m}
  /\ taken' = taken \cup {IdOf[m]}
  /\ cur' = m

Discard(m) ==
  /\ cur = NoMessage
  /\ m \in inbox
  /\ m \in Refused \/ IdOf[m] \in taken
  /\ inbox' = inbox \ {m}
  /\ UNCHANGED <<taken, cur>>

\* The handler ended, and the message was acknowledged or dead-lettered.
Settle ==
  /\ cur # NoMessage
  /\ cur' = NoMessage
  /\ UNCHANGED <<inbox, taken>>

\* The handler ended without settling the message: it comes back, marked.
Return ==
  /\ cur # NoMessage
  /\ inbox' = inbox \cup {cur}
  /\ cur' = NoMessage
  /\ UNCHANGED taken

Restart ==
  /\ inbox' = inbox \cup ({cur} \ {NoMessage})
  /\ taken' = {}
  /\ cur' = NoMessage

Next ==
  \/ \E m \in Message : Take(m) \/ Discard(m)
  \/ Settle \/ Return \/ Restart

Spec == Init /\ [][Next]_<<inbox, taken, cur>>
=============================================================================

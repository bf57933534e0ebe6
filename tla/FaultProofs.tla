----------------------------- MODULE FaultProofs -----------------------------
(***************************************************************************)
(* What faults can cost the receiver, for every set of messages and ids    *)
(* and every bound on the faults: messages whose work is lost, restarts,   *)
(* and with them handlers that begin again for work already begun.         *)
(*                                                                         *)
(* A loss shows only when a copy of an unfinished message is discarded,    *)
(* long after the fault that caused it, so the count of losses is not      *)
(* inductive.  The proof counts earlier: an id is Exposed from the moment  *)
(* nothing but a restart can still bring its work to an end, and every     *)
(* step that exposes one more is a fault.  A restart is counted early as   *)
(* well: when the end of the process can no longer be avoided (Ending).    *)
(***************************************************************************)
EXTENDS ReceiverProofs, FiniteSetTheorems

\* Some copy of the message with this id was handled or is in errors.facturatie.
Accounted(i) == \E m \in handled \cup deadLettered : IdOf[m] = i

\* The handler still has its message, and RabbitMQ would hear of its end.
InGoodHands(i) ==
  /\ pc \in {"handle", "reject"}
  /\ link = "up"
  /\ ShapeOf[inflight] = "valid"
  /\ IdOf[inflight] = i

\* Ids that are marked for a message whose handler is over, or runs on a dead connection,
\* without an account of it: every copy is discarded until the next restart.
AtRisk == {i \in seen : ~Accounted(i) /\ ~InGoodHands(i)}

\* The connection died under process_message, whatever becomes of the message.
CutShort == IF link = "down" /\ inflight # NoMessage THEN {IdOf[inflight]} ELSE {}

Exposed == LostIds \cup AtRisk \cup CutShort

\* The faults that happened pay for all that is exposed.
ExposedIsPaidFor == IsFiniteSet(Exposed) /\ Cardinality(Exposed) <= faults

-----------------------------------------------------------------------------
(* The count *)

\* A step keeps the count if it exposes nothing, or exposes one id and is a fault.
ExposesNothing == Exposed' \subseteq Exposed /\ UNCHANGED faults
ExposesOne     == Fault /\ \E i : Exposed' \subseteq Exposed \cup {i}

LEMMA CountStep ==
  ASSUME TypeOK, ExposedIsPaidFor, ExposesNothing \/ ExposesOne
  PROVE  ExposedIsPaidFor'
<1>1. faults \in Nat /\ IsFiniteSet(Exposed) /\ Cardinality(Exposed) \in Nat
  BY FaultAssumption, FS_CardinalityType DEF TypeOK, ExposedIsPaidFor
<1>2. CASE ExposesNothing
  <2>1. IsFiniteSet(Exposed') /\ Cardinality(Exposed') <= Cardinality(Exposed)
    BY <1>1, <1>2, FS_Subset DEF ExposesNothing
  <2>2. Cardinality(Exposed') \in Nat
    BY <2>1, FS_CardinalityType
  <2>3. QED
    BY <1>1, <1>2, <2>1, <2>2 DEF ExposedIsPaidFor, ExposesNothing
<1>3. CASE ExposesOne
  <2>1. PICK i : Exposed' \subseteq Exposed \cup {i}
    BY <1>3 DEF ExposesOne
  <2>2. /\ IsFiniteSet(Exposed \cup {i})
        /\ Cardinality(Exposed \cup {i}) <= Cardinality(Exposed) + 1
        /\ Cardinality(Exposed \cup {i}) \in Nat
    BY <1>1, FS_AddElement, FS_CardinalityType
  <2>3. /\ IsFiniteSet(Exposed')
        /\ Cardinality(Exposed') <= Cardinality(Exposed \cup {i})
    BY <2>1, <2>2, FS_Subset
  <2>4. Cardinality(Exposed') \in Nat
    BY <2>3, FS_CardinalityType
  <2>5. QED
    BY <1>1, <1>3, <2>2, <2>3, <2>4 DEF ExposedIsPaidFor, ExposesOne, Fault
<1>4. QED
  BY <1>2, <1>3

-----------------------------------------------------------------------------
(* What each step exposes *)

\* Steps of RabbitMQ, of the other threads and of an idle receiver.
LEMMA QuietSteps ==
  ASSUME InHand,
         UNCHANGED <<link, inflight, seen, handled, dropped, deadLettered, faults>>,
         UNCHANGED pc \/ pc \notin Busy
  PROVE  ExposesNothing
BY DEF ExposesNothing, Exposed, LostIds, AtRisk, Accounted, InGoodHands, CutShort, InHand, Busy

\* The connection dies: the message in hand, if there is one, is exposed.
LEMMA CutSteps ==
  ASSUME Fault, link' = "down",
         UNCHANGED <<pc, inflight, seen, handled, dropped, deadLettered>>
  PROVE  ExposesOne
<1>1. Exposed' \subseteq Exposed \cup {IdOf[inflight]}
  BY DEF Exposed, LostIds, AtRisk, Accounted, InGoodHands, CutShort
<1>2. QED
  BY <1>1 DEF ExposesOne

\* The process ends: what was marked is forgotten, and may come again.
LEMMA StopSteps ==
  ASSUME Stop, UNCHANGED <<handled, dropped, deadLettered>>
  PROVE  Exposed' \subseteq Exposed
BY DEF Stop, Exposed, LostIds, AtRisk, Accounted, CutShort

\* process_message is left over a dead connection, which has cost its fault before.
LEMMA AbandonSteps ==
  ASSUME InHand, Abandon, link = "down",
         UNCHANGED <<seen, handled, dropped, deadLettered, faults>>
  PROVE  ExposesNothing
<1>1. inflight \in Message => IdOf[inflight] \in Exposed
  BY MessageAssumption DEF Exposed, CutShort
<1>2. QED
  BY <1>1 DEF Abandon, ExposesNothing, Exposed, LostIds, AtRisk, Accounted, InGoodHands,
     CutShort, InHand, Busy

\* A step is a fault whenever it exposes an id, and it exposes at most one.
LEMMA ExposureStep ==
  ASSUME TypeOK, InHand, AckReady, NackReady, [Next]_vars
  PROVE  ExposesNothing \/ ExposesOne
<1> USE DEF vars, incoming, thread, deadSide, process, ledger
<1>1. ASSUME NEW m \in Message, Publish(m) \/ Requeue(m)
      PROVE  ExposesNothing
  BY <1>1, QuietSteps DEF Publish, Requeue
<1>2. CASE BrokerUp \/ Connect \/ Restart
  <2>1. CASE BrokerUp
    BY <2>1, QuietSteps DEF BrokerUp
  <2>2. CASE Connect
    BY <2>2 DEF Connect, ExposesNothing, Exposed, LostIds, AtRisk, Accounted, InGoodHands,
       CutShort, InHand, Busy
  <2>3. CASE Restart
    BY <2>3, QuietSteps DEF Restart, InHand, Busy
  <2>4. QED
    BY <1>2, <2>1, <2>2, <2>3
<1>3. CASE BrokerDown \/ LoseLink
  BY <1>3, CutSteps DEF BrokerDown, LoseLink
<1>4. CASE LoseDlqLink
  BY <1>4 DEF LoseDlqLink, ExposesOne, Exposed, LostIds, AtRisk, Accounted, InGoodHands, CutShort
<1>5. CASE StartReceiver
  <2>1. Exposed' \subseteq Exposed
    BY <1>5 DEF StartReceiver, Exposed, LostIds, AtRisk, Accounted, InGoodHands, CutShort
  <2>2. QED
    BY <1>5, <2>1 DEF StartReceiver, ExposesNothing, ExposesOne
<1>6. CASE NoticeLostLink
  BY <1>6, AbandonSteps DEF NoticeLostLink
<1>7. CASE Deliver
  BY <1>7 DEF Deliver, ExposesNothing, Exposed, LostIds, AtRisk, Accounted, InGoodHands, CutShort
<1>8. CASE ScreenGarbled \/ ScreenInvalid
  BY <1>8 DEF ScreenGarbled, ScreenInvalid, ExposesNothing, Exposed, LostIds, AtRisk, Accounted,
     InGoodHands, CutShort
<1>9. CASE ScreenDuplicate
  <2>1. IdOf[inflight] \in AtRisk \/ Accounted(IdOf[inflight])
    BY <1>9 DEF ScreenDuplicate, is_duplicate, AtRisk, InGoodHands
  <2>2. LostIds' \subseteq LostIds \cup AtRisk
    BY <1>9, <2>1 DEF ScreenDuplicate, LostIds, Accounted
  <2>3. AtRisk' \subseteq AtRisk /\ CutShort' = CutShort
    BY <1>9 DEF ScreenDuplicate, AtRisk, Accounted, InGoodHands, CutShort
  <2>4. QED
    BY <1>9, <2>2, <2>3 DEF ScreenDuplicate, ExposesNothing, Exposed
<1>10. CASE ScreenValid
  <2>1. link \in {"up", "down"} /\ inflight \in Message /\ NoMessage \notin Message
    BY <1>10, MessageAssumption DEF ScreenValid, InHand, Busy, TypeOK
  <2>2. LostIds' = LostIds /\ CutShort' = CutShort
    BY <1>10 DEF ScreenValid, LostIds, CutShort
  <2>3. AtRisk' \subseteq AtRisk \cup CutShort
    BY <1>10, <2>1 DEF ScreenValid, AtRisk, Accounted, InGoodHands, CutShort
  <2>4. QED
    BY <1>10, <2>2, <2>3 DEF ScreenValid, ExposesNothing, Exposed
<1>11. CASE HandlerDone
  BY <1>11 DEF HandlerDone, ExposesNothing, Exposed, LostIds, AtRisk, Accounted, InGoodHands,
     CutShort
<1>12. CASE HandlerRejects
  BY <1>12 DEF HandlerRejects, ExposesNothing, Exposed, LostIds, AtRisk, Accounted, InGoodHands,
     CutShort
<1>13. CASE HandlerRaises
  <2>1. Exposed' \subseteq Exposed \cup {IdOf[inflight]}
    BY <1>13 DEF HandlerRaises, Abandon, Exposed, LostIds, AtRisk, Accounted, InGoodHands, CutShort
  <2>2. QED
    BY <1>13, <2>1 DEF HandlerRaises, ExposesOne
<1>14. CASE send_system_error
  <2>1. CASE OnDeadLink("reject") /\ Abandon
    BY <1>14, <2>1, AbandonSteps DEF send_system_error, OnDeadLink
  <2>2. CASE pc' = "reject" /\ UNCHANGED <<link, inflight, orphans>>
    BY <1>14, <2>2 DEF send_system_error, ExposesNothing, Exposed, LostIds, AtRisk, Accounted,
       InGoodHands, CutShort
  <2>3. QED
    BY <1>14, <2>1, <2>2 DEF send_system_error, OnLiveLink, OnDeadLink
<1>15. CASE send_to_dlq
  <2>1. CASE OnDeadLink("nack") /\ Abandon /\ UNCHANGED deadLettered
    BY <1>15, <2>1, AbandonSteps DEF send_to_dlq, OnDeadLink
  <2>2. CASE OnLiveLink("nack") /\ deadLettered' = deadLettered \cup {inflight}
    BY <1>15, <2>2 DEF send_to_dlq, OnLiveLink, ExposesNothing, Exposed, LostIds, AtRisk,
       Accounted, InGoodHands, CutShort
  <2>3. CASE OnDeadLink("nack") /\ UNCHANGED <<link, inflight, orphans, deadLettered>>
    BY <1>15, <2>3 DEF send_to_dlq, OnDeadLink, ExposesNothing, Exposed, LostIds, AtRisk,
       Accounted, InGoodHands, CutShort
  <2>4. QED
    BY <1>15, <2>1, <2>2, <2>3 DEF send_to_dlq, OnDeadLink
<1>16. CASE basic_ack \/ basic_nack
  <2>1. CASE link = "down" /\ Abandon
    BY <1>16, <2>1, AbandonSteps DEF basic_ack, basic_nack
  <2>2. CASE inflight' = NoMessage /\ UNCHANGED link
    BY <1>16, <2>2 DEF basic_ack, basic_nack, ExposesNothing, Exposed, LostIds, AtRisk, Accounted,
       InGoodHands, CutShort
  <2>3. QED
    BY <1>16, <2>1, <2>2 DEF basic_ack, basic_nack, Settle
<1>17. CASE DlqStep
  BY <1>17, QuietSteps DEF DlqStep, DlqConnect, process_dlq_message, DlqDies
<1>18. CASE MainExits
  BY <1>18, StopSteps DEF MainExits, ExposesNothing
<1>19. CASE Crash
  BY <1>19, StopSteps DEF Crash, ExposesOne
<1>20. CASE UNCHANGED vars
  BY <1>20, QuietSteps
<1>21. CASE ScreenRefused
  BY <1>21 DEF ScreenRefused, Abandon, ExposesNothing, Exposed, LostIds, AtRisk, Accounted,
     InGoodHands, CutShort
<1>22. QED
  BY <1>1, <1>2, <1>3, <1>4, <1>5, <1>6, <1>7, <1>8, <1>9, <1>10, <1>11, <1>12, <1>13, <1>14,
     <1>15, <1>16, <1>17, <1>18, <1>19, <1>20, <1>21 DEF Next, ReceiverStep

-----------------------------------------------------------------------------
(* The theorems *)

\* The faults pay for what is exposed, in every behaviour.
THEOREM ExposureIsPaidFor == Spec => []ExposedIsPaidFor
<1>1. Init => ExposedIsPaidFor
  <2> SUFFICES ASSUME Init PROVE ExposedIsPaidFor
    OBVIOUS
  <2>1. Exposed = {}
    BY DEF Init, Exposed, LostIds, AtRisk, CutShort
  <2>2. QED
    BY <2>1, FS_EmptySet DEF Init, ExposedIsPaidFor
<1>2. Inv /\ ExposedIsPaidFor /\ [Next]_vars => ExposedIsPaidFor'
  BY ExposureStep, CountStep DEF Inv
<1>3. QED
  BY <1>1, <1>2, Invariance, PTL DEF Spec

LEMMA LossesAreExposed ==
  ASSUME TypeOK, ExposedIsPaidFor
  PROVE  IsFiniteSet(LostIds) /\ Cardinality(LostIds) <= faults
<1>1. IsFiniteSet(LostIds) /\ Cardinality(LostIds) <= Cardinality(Exposed)
  BY FS_Subset DEF Exposed, ExposedIsPaidFor
<1>2. Cardinality(LostIds) \in Nat /\ Cardinality(Exposed) \in Nat /\ faults \in Nat
  BY <1>1, FaultAssumption, FS_CardinalityType DEF TypeOK, ExposedIsPaidFor
<1>3. QED
  BY <1>1, <1>2 DEF ExposedIsPaidFor

\* No more ids are lost than faults happened: an escaped exception or a dead connection
\* costs the message in hand at most, and a crash, which empties seen_message_ids, none.
THEOREM LossesArePaidFor == Spec => []LossesNeedFaults
<1>1. TypeOK /\ ExposedIsPaidFor => LossesNeedFaults
  BY LossesAreExposed DEF LossesNeedFaults
<1>2. QED
  BY <1>1, TypeCorrect, ExposureIsPaidFor, PTL

\* The documentation's promise, that a message whose work fails is in the dead letter queue,
\* is kept until the first fault: handlers that fail only in ways they handle lose nothing.
THEOREM NothingLostBeforeFaults == Spec => [](faults = 0 => NothingLost)
<1>1. TypeOK /\ ExposedIsPaidFor => (faults = 0 => NothingLost)
  <2> SUFFICES ASSUME TypeOK, ExposedIsPaidFor, faults = 0 PROVE NothingLost
    OBVIOUS
  <2>1. IsFiniteSet(LostIds) /\ Cardinality(LostIds) = 0
    BY LossesAreExposed, FS_CardinalityType
  <2>2. QED
    BY <2>1, FS_EmptySet DEF NothingLost
<1>2. QED
  BY <1>1, TypeCorrect, ExposureIsPaidFor, PTL

-----------------------------------------------------------------------------
(* Restarts *)

\* The process has ended, or a thread has died, or the dead letter consumer must die: its
\* connection is cut, or RabbitMQ refuses the only one it ever asks for.
Ending == \/ ~running
          \/ pc = "dead"
          \/ dlqpc \in {"cut", "dead"}
          \/ dlqpc = "connect" /\ broker = "down"

\* Each life but the first follows a fault, and so will the next one.
LivesArePaidFor == lives + (IF Ending THEN 1 ELSE 0) <= 1 + faults

\* Without a fault no step makes the process end that was not about to.
LEMMA EndingStep ==
  ASSUME TypeOK, InHand, [Next]_vars, UNCHANGED <<faults, lives>>
  PROVE  Ending' => Ending
<1> USE DEF vars, incoming, thread, deadSide, process, ledger
<1>1. CASE UNCHANGED <<running, dlqpc>> /\ (broker' = broker \/ broker' = "up")
           /\ (pc' = pc \/ pc' # "dead")
  BY <1>1 DEF Ending
<1>2. CASE StartReceiver
  BY <1>2 DEF StartReceiver, Fault, Ending, TypeOK
<1>3. CASE BrokerDown \/ LoseDlqLink \/ Crash
  BY <1>3 DEF BrokerDown, LoseDlqLink, Crash, Fault, TypeOK
<1>4. CASE DlqStep
  BY <1>4 DEF DlqStep, DlqConnect, process_dlq_message, DlqDies, Ending, TypeOK
<1>5. CASE MainExits
  BY <1>5 DEF MainExits, Ending
<1>6. CASE Restart
  BY <1>6 DEF Restart, TypeOK
<1>7. CASE ReceiverStep
  BY <1>7, <1>2, <1>1
  DEF ReceiverStep, Connect, NoticeLostLink, Deliver, ScreenGarbled, ScreenRefused, ScreenDuplicate,
      ScreenInvalid, ScreenValid, HandlerDone, HandlerRejects, HandlerRaises, send_system_error,
      send_to_dlq, basic_ack, basic_nack, OnLiveLink, OnDeadLink, Settle, Abandon
<1>8. QED
  BY <1>1, <1>3, <1>4, <1>5, <1>6, <1>7 DEF Next, Publish, Requeue, BrokerUp, LoseLink

LEMMA LivesStep ==
  ASSUME TypeOK, InHand, LivesArePaidFor, [Next]_vars
  PROVE  LivesArePaidFor'
<1> USE DEF vars, incoming, thread, deadSide, process, ledger
<1>1. faults \in Nat /\ lives \in Nat
  BY FaultAssumption DEF TypeOK
<1>2. CASE UNCHANGED <<faults, lives>>
  BY <1>1, <1>2, EndingStep DEF LivesArePaidFor
<1>3. CASE Fault /\ UNCHANGED lives
  BY <1>1, <1>3 DEF Fault, LivesArePaidFor
<1>4. CASE Restart
  BY <1>1, <1>4 DEF Restart, LivesArePaidFor, Ending
<1>5. \/ UNCHANGED <<faults, lives>>
      \/ Fault /\ UNCHANGED lives
      \/ Restart
  <2>1. CASE ReceiverStep
    BY <2>1
    DEF ReceiverStep, StartReceiver, Connect, NoticeLostLink, Deliver, ScreenGarbled,
        ScreenRefused, ScreenDuplicate, ScreenInvalid, ScreenValid, HandlerDone, HandlerRejects, HandlerRaises,
        send_system_error, send_to_dlq, basic_ack, basic_nack
  <2>2. CASE DlqStep
    BY <2>2 DEF DlqStep, DlqConnect, process_dlq_message, DlqDies
  <2>3. QED
    BY <2>1, <2>2
    DEF Next, Publish, Requeue, BrokerUp, BrokerDown, LoseLink, LoseDlqLink, MainExits, Crash
<1>6. QED
  BY <1>2, <1>3, <1>4, <1>5

\* The process does not restart by itself: main ends it for a dead thread, a thread dies for
\* a fault, and one fault ends one life only.
THEOREM RestartsArePaidFor == Spec => []LivesArePaidFor
<1>1. Init => LivesArePaidFor
  BY DEF Init, LivesArePaidFor, Ending
<1>2. Inv /\ LivesArePaidFor /\ [Next]_vars => LivesArePaidFor'
  BY LivesStep DEF Inv
<1>3. QED
  BY <1>1, <1>2, Invariance, PTL DEF Spec

\* However often a message is resent or redelivered, its handler begins once, and once more
\* for each fault at most: seen_message_ids, though only in memory, is forgotten no more often.
THEOREM BeginsNeedFaults == Spec => [](\A i \in Id : begun[i] <= 1 + faults)
<1>1. Inv /\ LivesArePaidFor => \A i \in Id : begun[i] <= 1 + faults
  <2> SUFFICES ASSUME Inv, LivesArePaidFor, NEW i \in Id
               PROVE  begun[i] <= 1 + faults
    OBVIOUS
  <2>1. faults \in Nat /\ lives \in Nat /\ begun[i] \in Nat /\ begun[i] <= lives
    BY FaultAssumption DEF Inv, TypeOK, AtMostOncePerLife
  <2>2. QED
    BY <2>1 DEF LivesArePaidFor
<1>2. QED
  BY <1>1, Invariance, RestartsArePaidFor, PTL

-----------------------------------------------------------------------------
(* Dead letters *)

\* A dead letter waits in errors.facturatie until it was reported.
DeadLettersSurvive == \A m \in deadLettered : <<"dead_letter", m>> \in errors \cup alerted

LEMMA DeadLetterStep ==
  ASSUME DeadLettersSurvive, [Next]_vars
  PROVE  DeadLettersSurvive'
<1> USE DEF vars, incoming, thread, deadSide, process, ledger
<1>1. CASE UNCHANGED deadLettered /\ errors \cup alerted \subseteq errors' \cup alerted'
  BY <1>1 DEF DeadLettersSurvive
<1>2. CASE send_to_dlq
  BY <1>2 DEF send_to_dlq, DeadLettersSurvive
<1>3. CASE DlqStep
  BY <1>3, <1>1 DEF DlqStep, DlqConnect, process_dlq_message, DlqDies
<1>4. CASE send_system_error
  BY <1>4, <1>1 DEF send_system_error
<1>5. CASE ReceiverStep
  BY <1>5, <1>1, <1>2, <1>4
  DEF ReceiverStep, StartReceiver, Connect, NoticeLostLink, Deliver, ScreenGarbled,
      ScreenRefused, ScreenDuplicate, ScreenInvalid, ScreenValid, HandlerDone, HandlerRejects, HandlerRaises,
      basic_ack, basic_nack
<1>6. QED
  BY <1>1, <1>3, <1>5
  DEF Next, Publish, Requeue, BrokerUp, BrokerDown, LoseLink, LoseDlqLink, MainExits, Crash,
      Restart

\* A message that left facturatie.incoming was handled or discarded as a duplicate, or its dead
\* letter can still be found or was reported: the consumer's death between report and ack, and
\* any restart, loses none.
THEOREM DeadLettersAreKept ==
  Spec => [](\A m \in Message : Settled(m) =>
               m \in handled \cup dropped \/ <<"dead_letter", m>> \in errors \cup alerted)
<1>1. Init => DeadLettersSurvive
  BY DEF Init, DeadLettersSurvive
<1>2. DeadLettersSurvive /\ [Next]_vars => DeadLettersSurvive'
  BY DeadLetterStep
<1>3. SettledIsAccounted /\ DeadLettersSurvive =>
        \A m \in Message : Settled(m) =>
          m \in handled \cup dropped \/ <<"dead_letter", m>> \in errors \cup alerted
  BY DEF SettledIsAccounted, DeadLettersSurvive
<1>4. QED
  BY <1>1, <1>2, <1>3, NothingDisappears, PTL DEF Spec
=============================================================================

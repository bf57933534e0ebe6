--------------------------- MODULE ReceiverProofs ---------------------------
(***************************************************************************)
(* Proofs about the receiver, for every set of messages and ids, every     *)
(* bound on the faults and every interleaving.                             *)
(*                                                                         *)
(* One inductive invariant, Inv, carries all of them.  Beside TypeOK it    *)
(* says where the message in hand is known to be (InHand), what is known   *)
(* of it just before RabbitMQ forgets it (AckReady, NackReady), what a     *)
(* marked id stands for (MarkedWasTaken, UnmarkedIsFresh), and that every  *)
(* message is somewhere (Somewhere).                                       *)
(***************************************************************************)
EXTENDS Receiver, SequenceTheorems, TLAPS

Busy == {"screen", "report", "handle", "reject", "nack", "ack", "drop"}

\* process_message has a message exactly while it runs, and no message outlives the process.
InHand == /\ IF pc \in Busy THEN inflight \in Message ELSE inflight = NoMessage
          /\ ~running => pc = "dead"

\* A message about to be acknowledged on a live connection was handled or is a duplicate.
AckReady == (pc \in {"ack", "drop"} /\ link = "up") => inflight \in handled \cup dropped

\* A message about to be removed on a live connection has reached errors.facturatie.
NackReady == (pc = "nack" /\ link = "up") => inflight \in deadLettered

\* An id is marked only by a message the XSD accepted and whose handler began.
MarkedWasTaken == \A i \in seen : \E n \in taken : IdOf[n] = i /\ ShapeOf[n] = "valid"

\* An id that is not marked has not begun in this life of the process.
UnmarkedIsFresh == \A i \in Id : running /\ i \notin seen => begun[i] < lives

\* RabbitMQ has the message, or its fate is known.
Somewhere ==
  \A m \in Message : \/ m \in unsent \/ InQueue(m) \/ m \in orphans \/ m \in Held
                     \/ m \in handled \cup deadLettered \cup dropped

Inv == /\ TypeOK
       /\ InHand
       /\ AckReady
       /\ NackReady
       /\ NackedIsDeadLettered
       /\ MarkedWasTaken
       /\ DuplicateOfTaken
       /\ UnmarkedIsFresh
       /\ AtMostOncePerLife
       /\ Somewhere

-----------------------------------------------------------------------------
\* Every step keeps the types, and the message in hand where it is.
LEMMA TypeStep ==
  ASSUME TypeOK, InHand, [Next]_vars
  PROVE  TypeOK' /\ InHand'
<1> USE DEF vars, incoming, thread, deadSide, process, ledger
<1>1. ASSUME NEW m \in Message, Publish(m)
      PROVE  TypeOK' /\ InHand'
  BY <1>1 DEF Publish, TypeOK, InHand
<1>2. ASSUME NEW m \in Message, Requeue(m)
      PROVE  TypeOK' /\ InHand'
  BY <1>2 DEF Requeue, TypeOK, InHand
<1>3. CASE BrokerUp
  BY <1>3 DEF BrokerUp, TypeOK, InHand
<1>4. CASE BrokerDown
  BY <1>4, FaultAssumption DEF BrokerDown, Fault, CutDlq, Held, TypeOK, InHand, DlqSteps
<1>5. CASE LoseLink
  BY <1>5, FaultAssumption DEF LoseLink, Fault, Held, TypeOK, InHand
<1>6. CASE LoseDlqLink
  BY <1>6, FaultAssumption DEF LoseDlqLink, Fault, CutDlq, TypeOK, InHand, DlqSteps
<1>7. CASE StartReceiver
  BY <1>7, FaultAssumption DEF StartReceiver, Fault, TypeOK, InHand, Busy, Steps
<1>8. CASE Connect
  BY <1>8 DEF Connect, TypeOK, InHand, Busy, Steps
<1>9. CASE NoticeLostLink
  BY <1>9 DEF NoticeLostLink, Abandon, Held, TypeOK, InHand, Busy, Steps
<1>10. CASE Deliver
  BY <1>10 DEF Deliver, TypeOK, InHand, Busy, Steps
<1>11. CASE ScreenGarbled
  BY <1>11 DEF ScreenGarbled, TypeOK, InHand, Busy, Steps
<1>12. CASE ScreenDuplicate
  BY <1>12 DEF ScreenDuplicate, TypeOK, InHand, Busy, Steps
<1>13. CASE ScreenInvalid
  BY <1>13 DEF ScreenInvalid, TypeOK, InHand, Busy, Steps
<1>14. CASE ScreenValid
  BY <1>14, MessageAssumption DEF ScreenValid, TypeOK, InHand, Busy, Steps
<1>15. CASE HandlerDone
  BY <1>15 DEF HandlerDone, TypeOK, InHand, Busy, Steps
<1>16. CASE HandlerRejects
  BY <1>16 DEF HandlerRejects, TypeOK, InHand, Busy, Steps
<1>17. CASE HandlerRaises
  BY <1>17, FaultAssumption DEF HandlerRaises, Fault, Abandon, Held, TypeOK, InHand,
     Busy, Steps
<1>18. CASE send_system_error
  BY <1>18 DEF send_system_error, OnLiveLink, OnDeadLink, Abandon, Held, TypeOK, InHand,
     Busy, Steps, Entry
<1>19. CASE send_to_dlq
  BY <1>19 DEF send_to_dlq, OnLiveLink, OnDeadLink, Abandon, Held, TypeOK, InHand, Busy,
     Steps, Entry
<1>20. CASE basic_ack
  BY <1>20 DEF basic_ack, Settle, Abandon, Held, TypeOK, InHand, Busy, Steps
<1>21. CASE basic_nack
  BY <1>21 DEF basic_nack, Settle, Abandon, Held, TypeOK, InHand, Busy, Steps
<1>22. CASE DlqConnect
  BY <1>22 DEF DlqConnect, TypeOK, InHand, DlqSteps
<1>23. ASSUME NEW e \in Entry, process_dlq_message(e)
       PROVE  TypeOK' /\ InHand'
  BY <1>23 DEF process_dlq_message, TypeOK, InHand
<1>24. ASSUME NEW reported \in {{}} \cup {{e} : e \in errors}, DlqDies(reported)
       PROVE  TypeOK' /\ InHand'
  BY <1>24 DEF DlqDies, TypeOK, InHand, DlqSteps
<1>25. CASE MainExits
  BY <1>25 DEF MainExits, Stop, Held, TypeOK, InHand, Busy, Steps, DlqSteps
<1>26. CASE Crash
  <2>1. faults' \in 0..MaxFaults
    BY <1>26, FaultAssumption DEF Crash, Fault, TypeOK
  <2>2. orphans' \subseteq Message
    BY <1>26 DEF Crash, Stop, Held, TypeOK
  <2>3. UNCHANGED <<unsent, broker, queue, errors, alerted, lives, ledger>>
    BY <1>26 DEF Crash
  <2>4. /\ ~running' /\ pc' = "dead" /\ link' = "down" /\ inflight' = NoMessage
        /\ seen' = {} /\ dlqpc' = "dead" /\ running' \in BOOLEAN
    BY <1>26 DEF Crash, Stop
  <2>5. QED
    BY <2>1, <2>2, <2>3, <2>4 DEF TypeOK, InHand, Busy, Steps, DlqSteps, Entry
<1>27. CASE Restart
  BY <1>27 DEF Restart, TypeOK, InHand, Busy, Steps, DlqSteps
<1>28. CASE UNCHANGED vars
  BY <1>28 DEF TypeOK, InHand
<1>29. CASE ScreenRefused
  BY <1>29 DEF ScreenRefused, Abandon, Held, TypeOK, InHand, Busy, Steps
<1>30. QED
  BY <1>1, <1>2, <1>3, <1>4, <1>5, <1>6, <1>7, <1>8, <1>9, <1>10, <1>11, <1>12, <1>13,
     <1>14, <1>15, <1>16, <1>17, <1>18, <1>19, <1>20, <1>21, <1>22, <1>23, <1>24, <1>25,
     <1>26, <1>27, <1>28, <1>29 DEF Next, ReceiverStep, DlqStep

\* Every step keeps what is known of a message that RabbitMQ is about to forget.
LEMMA FateStep ==
  ASSUME TypeOK, InHand, AckReady, NackReady, NackedIsDeadLettered, [Next]_vars
  PROVE  AckReady' /\ NackReady' /\ NackedIsDeadLettered'
<1> USE DEF vars, incoming, thread, deadSide, process, ledger
<1>1. ASSUME NEW m \in Message, Publish(m)
      PROVE  AckReady' /\ NackReady' /\ NackedIsDeadLettered'
  BY <1>1 DEF Publish, AckReady, NackReady, NackedIsDeadLettered
<1>2. ASSUME NEW m \in Message, Requeue(m)
      PROVE  AckReady' /\ NackReady' /\ NackedIsDeadLettered'
  BY <1>2 DEF Requeue, AckReady, NackReady, NackedIsDeadLettered
<1>3. CASE BrokerUp
  BY <1>3 DEF BrokerUp, AckReady, NackReady, NackedIsDeadLettered
<1>4. CASE BrokerDown
  BY <1>4 DEF BrokerDown, AckReady, NackReady, NackedIsDeadLettered
<1>5. CASE LoseLink
  BY <1>5 DEF LoseLink, AckReady, NackReady, NackedIsDeadLettered
<1>6. CASE LoseDlqLink
  BY <1>6 DEF LoseDlqLink, AckReady, NackReady, NackedIsDeadLettered
<1>7. CASE StartReceiver
  BY <1>7 DEF StartReceiver, AckReady, NackReady, NackedIsDeadLettered
<1>8. CASE Connect
  BY <1>8 DEF Connect, AckReady, NackReady, NackedIsDeadLettered
<1>9. CASE NoticeLostLink
  BY <1>9 DEF NoticeLostLink, Abandon, AckReady, NackReady, NackedIsDeadLettered
<1>10. CASE Deliver
  BY <1>10 DEF Deliver, AckReady, NackReady, NackedIsDeadLettered
<1>11. CASE ScreenGarbled
  BY <1>11 DEF ScreenGarbled, AckReady, NackReady, NackedIsDeadLettered
<1>12. CASE ScreenDuplicate
  BY <1>12 DEF ScreenDuplicate, AckReady, NackReady, NackedIsDeadLettered
<1>13. CASE ScreenInvalid
  BY <1>13 DEF ScreenInvalid, AckReady, NackReady, NackedIsDeadLettered
<1>14. CASE ScreenValid
  BY <1>14 DEF ScreenValid, AckReady, NackReady, NackedIsDeadLettered
<1>15. CASE HandlerDone
  BY <1>15 DEF HandlerDone, AckReady, NackReady, NackedIsDeadLettered
<1>16. CASE HandlerRejects
  BY <1>16 DEF HandlerRejects, AckReady, NackReady, NackedIsDeadLettered
<1>17. CASE HandlerRaises
  BY <1>17 DEF HandlerRaises, Abandon, AckReady, NackReady, NackedIsDeadLettered
<1>18. CASE send_system_error
  BY <1>18 DEF send_system_error, OnLiveLink, OnDeadLink, Abandon, AckReady, NackReady,
     NackedIsDeadLettered
<1>19. CASE send_to_dlq
  BY <1>19 DEF send_to_dlq, OnLiveLink, OnDeadLink, Abandon, AckReady, NackReady,
     NackedIsDeadLettered
<1>20. CASE basic_ack
  BY <1>20 DEF basic_ack, Settle, Abandon, AckReady, NackReady, NackedIsDeadLettered
<1>21. CASE basic_nack
  BY <1>21 DEF basic_nack, Settle, Abandon, AckReady, NackReady, NackedIsDeadLettered
<1>22. CASE DlqConnect
  BY <1>22 DEF DlqConnect, AckReady, NackReady, NackedIsDeadLettered
<1>23. ASSUME NEW e \in Entry, process_dlq_message(e)
       PROVE  AckReady' /\ NackReady' /\ NackedIsDeadLettered'
  BY <1>23 DEF process_dlq_message, AckReady, NackReady, NackedIsDeadLettered
<1>24. ASSUME NEW reported \in {{}} \cup {{e} : e \in errors}, DlqDies(reported)
       PROVE  AckReady' /\ NackReady' /\ NackedIsDeadLettered'
  BY <1>24 DEF DlqDies, AckReady, NackReady, NackedIsDeadLettered
<1>25. CASE MainExits
  BY <1>25 DEF MainExits, Stop, AckReady, NackReady, NackedIsDeadLettered
<1>26. CASE Crash
  BY <1>26 DEF Crash, Stop, AckReady, NackReady, NackedIsDeadLettered
<1>27. CASE Restart
  BY <1>27 DEF Restart, AckReady, NackReady, NackedIsDeadLettered
<1>28. CASE UNCHANGED vars
  BY <1>28 DEF AckReady, NackReady, NackedIsDeadLettered
<1>29. CASE ScreenRefused
  BY <1>29 DEF ScreenRefused, Abandon, AckReady, NackReady, NackedIsDeadLettered
<1>30. QED
  BY <1>1, <1>2, <1>3, <1>4, <1>5, <1>6, <1>7, <1>8, <1>9, <1>10, <1>11, <1>12, <1>13,
     <1>14, <1>15, <1>16, <1>17, <1>18, <1>19, <1>20, <1>21, <1>22, <1>23, <1>24, <1>25,
     <1>26, <1>27, <1>28, <1>29 DEF Next, ReceiverStep, DlqStep

\* Every step keeps what a marked id, and a discarded duplicate, stand for.
LEMMA MarkStep ==
  ASSUME TypeOK, InHand, MarkedWasTaken, DuplicateOfTaken, [Next]_vars
  PROVE  MarkedWasTaken' /\ DuplicateOfTaken'
<1> USE DEF vars, incoming, thread, deadSide, process, ledger
<1>1. ASSUME NEW m \in Message, Publish(m)
      PROVE  MarkedWasTaken' /\ DuplicateOfTaken'
  BY <1>1 DEF Publish, MarkedWasTaken, DuplicateOfTaken
<1>2. ASSUME NEW m \in Message, Requeue(m)
      PROVE  MarkedWasTaken' /\ DuplicateOfTaken'
  BY <1>2 DEF Requeue, MarkedWasTaken, DuplicateOfTaken
<1>3. CASE BrokerUp
  BY <1>3 DEF BrokerUp, MarkedWasTaken, DuplicateOfTaken
<1>4. CASE BrokerDown
  BY <1>4 DEF BrokerDown, MarkedWasTaken, DuplicateOfTaken
<1>5. CASE LoseLink
  BY <1>5 DEF LoseLink, MarkedWasTaken, DuplicateOfTaken
<1>6. CASE LoseDlqLink
  BY <1>6 DEF LoseDlqLink, MarkedWasTaken, DuplicateOfTaken
<1>7. CASE StartReceiver
  BY <1>7 DEF StartReceiver, MarkedWasTaken, DuplicateOfTaken
<1>8. CASE Connect
  BY <1>8 DEF Connect, MarkedWasTaken, DuplicateOfTaken
<1>9. CASE NoticeLostLink
  BY <1>9 DEF NoticeLostLink, MarkedWasTaken, DuplicateOfTaken
<1>10. CASE Deliver
  BY <1>10 DEF Deliver, MarkedWasTaken, DuplicateOfTaken
<1>11. CASE ScreenGarbled
  BY <1>11 DEF ScreenGarbled, MarkedWasTaken, DuplicateOfTaken
<1>12. CASE ScreenDuplicate
  BY <1>12 DEF ScreenDuplicate, is_duplicate, MarkedWasTaken, DuplicateOfTaken, SameId
<1>13. CASE ScreenInvalid
  BY <1>13 DEF ScreenInvalid, MarkedWasTaken, DuplicateOfTaken
<1>14. CASE ScreenValid
  BY <1>14 DEF ScreenValid, MarkedWasTaken, DuplicateOfTaken
<1>15. CASE HandlerDone
  BY <1>15 DEF HandlerDone, MarkedWasTaken, DuplicateOfTaken
<1>16. CASE HandlerRejects
  BY <1>16 DEF HandlerRejects, MarkedWasTaken, DuplicateOfTaken
<1>17. CASE HandlerRaises
  BY <1>17 DEF HandlerRaises, MarkedWasTaken, DuplicateOfTaken
<1>18. CASE send_system_error
  BY <1>18 DEF send_system_error, MarkedWasTaken, DuplicateOfTaken
<1>19. CASE send_to_dlq
  BY <1>19 DEF send_to_dlq, MarkedWasTaken, DuplicateOfTaken
<1>20. CASE basic_ack
  BY <1>20 DEF basic_ack, MarkedWasTaken, DuplicateOfTaken
<1>21. CASE basic_nack
  BY <1>21 DEF basic_nack, MarkedWasTaken, DuplicateOfTaken
<1>22. CASE DlqConnect
  BY <1>22 DEF DlqConnect, MarkedWasTaken, DuplicateOfTaken
<1>23. ASSUME NEW e \in Entry, process_dlq_message(e)
       PROVE  MarkedWasTaken' /\ DuplicateOfTaken'
  BY <1>23 DEF process_dlq_message, MarkedWasTaken, DuplicateOfTaken
<1>24. ASSUME NEW reported \in {{}} \cup {{e} : e \in errors}, DlqDies(reported)
       PROVE  MarkedWasTaken' /\ DuplicateOfTaken'
  BY <1>24 DEF DlqDies, MarkedWasTaken, DuplicateOfTaken
<1>25. CASE MainExits
  BY <1>25 DEF MainExits, Stop, MarkedWasTaken, DuplicateOfTaken
<1>26. CASE Crash
  BY <1>26 DEF Crash, Stop, MarkedWasTaken, DuplicateOfTaken
<1>27. CASE Restart
  BY <1>27 DEF Restart, MarkedWasTaken, DuplicateOfTaken
<1>28. CASE UNCHANGED vars
  BY <1>28 DEF MarkedWasTaken, DuplicateOfTaken
<1>29. CASE ScreenRefused
  BY <1>29 DEF ScreenRefused, MarkedWasTaken, DuplicateOfTaken
<1>30. QED
  BY <1>1, <1>2, <1>3, <1>4, <1>5, <1>6, <1>7, <1>8, <1>9, <1>10, <1>11, <1>12, <1>13,
     <1>14, <1>15, <1>16, <1>17, <1>18, <1>19, <1>20, <1>21, <1>22, <1>23, <1>24, <1>25,
     <1>26, <1>27, <1>28, <1>29 DEF Next, ReceiverStep, DlqStep

\* Every step keeps the count of the beginnings of an id below the lives.
LEMMA FreshStep ==
  ASSUME TypeOK, InHand, UnmarkedIsFresh, AtMostOncePerLife, [Next]_vars
  PROVE  UnmarkedIsFresh' /\ AtMostOncePerLife'
<1> USE DEF vars, incoming, thread, deadSide, process, ledger
<1>1. ASSUME NEW m \in Message, Publish(m)
      PROVE  UnmarkedIsFresh' /\ AtMostOncePerLife'
  BY <1>1 DEF Publish, UnmarkedIsFresh, AtMostOncePerLife
<1>2. ASSUME NEW m \in Message, Requeue(m)
      PROVE  UnmarkedIsFresh' /\ AtMostOncePerLife'
  BY <1>2 DEF Requeue, UnmarkedIsFresh, AtMostOncePerLife
<1>3. CASE BrokerUp
  BY <1>3 DEF BrokerUp, UnmarkedIsFresh, AtMostOncePerLife
<1>4. CASE BrokerDown
  BY <1>4 DEF BrokerDown, UnmarkedIsFresh, AtMostOncePerLife
<1>5. CASE LoseLink
  BY <1>5 DEF LoseLink, UnmarkedIsFresh, AtMostOncePerLife
<1>6. CASE LoseDlqLink
  BY <1>6 DEF LoseDlqLink, UnmarkedIsFresh, AtMostOncePerLife
<1>7. CASE StartReceiver
  BY <1>7 DEF StartReceiver, UnmarkedIsFresh, AtMostOncePerLife
<1>8. CASE Connect
  BY <1>8 DEF Connect, UnmarkedIsFresh, AtMostOncePerLife
<1>9. CASE NoticeLostLink
  BY <1>9 DEF NoticeLostLink, UnmarkedIsFresh, AtMostOncePerLife
<1>10. CASE Deliver
  BY <1>10 DEF Deliver, UnmarkedIsFresh, AtMostOncePerLife
<1>11. CASE ScreenGarbled
  BY <1>11 DEF ScreenGarbled, UnmarkedIsFresh, AtMostOncePerLife
<1>12. CASE ScreenDuplicate
  BY <1>12 DEF ScreenDuplicate, UnmarkedIsFresh, AtMostOncePerLife
<1>13. CASE ScreenInvalid
  BY <1>13 DEF ScreenInvalid, UnmarkedIsFresh, AtMostOncePerLife
<1>14. CASE ScreenValid
  BY <1>14 DEF ScreenValid, is_duplicate, TypeOK, UnmarkedIsFresh, AtMostOncePerLife
<1>15. CASE HandlerDone
  BY <1>15 DEF HandlerDone, UnmarkedIsFresh, AtMostOncePerLife
<1>16. CASE HandlerRejects
  BY <1>16 DEF HandlerRejects, UnmarkedIsFresh, AtMostOncePerLife
<1>17. CASE HandlerRaises
  BY <1>17 DEF HandlerRaises, UnmarkedIsFresh, AtMostOncePerLife
<1>18. CASE send_system_error
  BY <1>18 DEF send_system_error, UnmarkedIsFresh, AtMostOncePerLife
<1>19. CASE send_to_dlq
  BY <1>19 DEF send_to_dlq, UnmarkedIsFresh, AtMostOncePerLife
<1>20. CASE basic_ack
  BY <1>20 DEF basic_ack, UnmarkedIsFresh, AtMostOncePerLife
<1>21. CASE basic_nack
  BY <1>21 DEF basic_nack, UnmarkedIsFresh, AtMostOncePerLife
<1>22. CASE DlqConnect
  BY <1>22 DEF DlqConnect, UnmarkedIsFresh, AtMostOncePerLife
<1>23. ASSUME NEW e \in Entry, process_dlq_message(e)
       PROVE  UnmarkedIsFresh' /\ AtMostOncePerLife'
  BY <1>23 DEF process_dlq_message, UnmarkedIsFresh, AtMostOncePerLife
<1>24. ASSUME NEW reported \in {{}} \cup {{e} : e \in errors}, DlqDies(reported)
       PROVE  UnmarkedIsFresh' /\ AtMostOncePerLife'
  BY <1>24 DEF DlqDies, UnmarkedIsFresh, AtMostOncePerLife
<1>25. CASE MainExits
  BY <1>25 DEF MainExits, Stop, UnmarkedIsFresh, AtMostOncePerLife
<1>26. CASE Crash
  BY <1>26 DEF Crash, Stop, UnmarkedIsFresh, AtMostOncePerLife
<1>27. CASE Restart
  BY <1>27 DEF Restart, TypeOK, UnmarkedIsFresh, AtMostOncePerLife
<1>28. CASE UNCHANGED vars
  BY <1>28 DEF UnmarkedIsFresh, AtMostOncePerLife
<1>29. CASE ScreenRefused
  BY <1>29 DEF ScreenRefused, UnmarkedIsFresh, AtMostOncePerLife
<1>30. QED
  BY <1>1, <1>2, <1>3, <1>4, <1>5, <1>6, <1>7, <1>8, <1>9, <1>10, <1>11, <1>12, <1>13,
     <1>14, <1>15, <1>16, <1>17, <1>18, <1>19, <1>20, <1>21, <1>22, <1>23, <1>24, <1>25,
     <1>26, <1>27, <1>28, <1>29 DEF Next, ReceiverStep, DlqStep

In(q, m) == \E k \in 1..Len(q) : q[k] = m

\* The three things that happen to facturatie.incoming: a message is put behind or before
\* the others, and the first is taken away.
LEMMA InAppend ==
  ASSUME NEW q \in Seq(Message), NEW n \in Message, NEW m, In(q, m) \/ m = n
  PROVE  In(Append(q, n), m)
<1>1. Len(Append(q, n)) = Len(q) + 1 /\ Len(q) \in Nat
  OBVIOUS
<1>2. CASE m = n
  <2>1. Append(q, n)[Len(q) + 1] = n
    OBVIOUS
  <2>2. QED
    BY <1>1, <1>2, <2>1 DEF In
<1>3. CASE In(q, m)
  <2>1. PICK k \in 1..Len(q) : q[k] = m
    BY <1>3 DEF In
  <2>2. Append(q, n)[k] = m /\ k \in 1..Len(Append(q, n))
    BY <1>1, <2>1
  <2>3. QED
    BY <2>2 DEF In
<1>4. QED
  BY <1>2, <1>3

LEMMA InPrepend ==
  ASSUME NEW q \in Seq(Message), NEW n \in Message, NEW m, In(q, m) \/ m = n
  PROVE  In(<<n>> \o q, m)
<1>1. Len(<<n>> \o q) = Len(q) + 1 /\ Len(q) \in Nat
  OBVIOUS
<1>2. CASE m = n
  <2>1. (<<n>> \o q)[1] = n
    OBVIOUS
  <2>2. QED
    BY <1>1, <1>2, <2>1 DEF In
<1>3. CASE In(q, m)
  <2>1. PICK k \in 1..Len(q) : q[k] = m
    BY <1>3 DEF In
  <2>2. (<<n>> \o q)[k + 1] = m /\ k + 1 \in 1..Len(<<n>> \o q)
    BY <1>1, <2>1
  <2>3. QED
    BY <2>2 DEF In
<1>4. QED
  BY <1>2, <1>3

LEMMA InTail ==
  ASSUME NEW q \in Seq(Message), q # <<>>, NEW m, In(q, m), m # Head(q)
  PROVE  In(Tail(q), m)
<1>1. Len(Tail(q)) = Len(q) - 1 /\ Len(q) \in Nat
  OBVIOUS
<1>2. PICK k \in 1..Len(q) : q[k] = m
  BY DEF In
<1>3. k # 1
  BY <1>2
<1>4. Tail(q)[k - 1] = m /\ k - 1 \in 1..Len(Tail(q))
  BY <1>1, <1>2, <1>3
<1>5. QED
  BY <1>4 DEF In

\* Every step leaves each message with RabbitMQ or with a known fate.
LEMMA SomewhereStep ==
  ASSUME TypeOK, InHand, AckReady, NackReady, Somewhere, [Next]_vars
  PROVE  Somewhere'
<1> USE DEF vars, incoming, thread, deadSide, process, ledger
<1>1. ASSUME NEW m \in Message, Publish(m)
      PROVE  Somewhere'
  <2>1. \A x : InQueue(x) \/ x = m => InQueue(x)'
    BY <1>1, InAppend DEF Publish, TypeOK, InQueue, In
  <2>2. QED
    BY <1>1, <2>1 DEF Publish, Somewhere, Held
<1>2. ASSUME NEW m \in Message, Requeue(m)
      PROVE  Somewhere'
  <2>1. \A x : InQueue(x) \/ x = m => InQueue(x)'
    BY <1>2, InPrepend DEF Requeue, TypeOK, InQueue, In
  <2>2. QED
    BY <1>2, <2>1 DEF Requeue, Somewhere, Held
<1>3. CASE BrokerUp
  BY <1>3 DEF BrokerUp, Held, Somewhere, InQueue
<1>4. CASE BrokerDown
  BY <1>4 DEF BrokerDown, Somewhere, InQueue
<1>5. CASE LoseLink
  BY <1>5 DEF LoseLink, Somewhere, InQueue
<1>6. CASE LoseDlqLink
  BY <1>6 DEF LoseDlqLink, Held, Somewhere, InQueue
<1>7. CASE StartReceiver
  BY <1>7 DEF StartReceiver, Held, Somewhere, InQueue
<1>8. CASE Connect
  BY <1>8 DEF Connect, Held, Somewhere, InQueue
<1>9. CASE NoticeLostLink
  BY <1>9 DEF NoticeLostLink, Abandon, Somewhere, InQueue
<1>10. CASE Deliver
  <2>1. \A x : InQueue(x) => InQueue(x)' \/ x = Head(queue)
    BY <1>10, InTail DEF Deliver, TypeOK, InQueue, In
  <2>2. Head(queue) \in Message /\ Held = {} /\ Held' = {Head(queue)}
    BY <1>10, MessageAssumption DEF Deliver, TypeOK, InHand, Busy, Held
  <2>3. QED
    BY <1>10, <2>1, <2>2 DEF Deliver, Somewhere
<1>11. CASE ScreenGarbled
  BY <1>11 DEF ScreenGarbled, Held, Somewhere, InQueue
<1>12. CASE ScreenDuplicate
  BY <1>12 DEF ScreenDuplicate, Held, Somewhere, InQueue
<1>13. CASE ScreenInvalid
  BY <1>13 DEF ScreenInvalid, Held, Somewhere, InQueue
<1>14. CASE ScreenValid
  BY <1>14 DEF ScreenValid, Held, Somewhere, InQueue
<1>15. CASE HandlerDone
  BY <1>15 DEF HandlerDone, Held, Somewhere, InQueue
<1>16. CASE HandlerRejects
  BY <1>16 DEF HandlerRejects, Held, Somewhere, InQueue
<1>17. CASE HandlerRaises
  BY <1>17 DEF HandlerRaises, Abandon, Somewhere, InQueue
<1>18. CASE send_system_error
  BY <1>18 DEF send_system_error, OnLiveLink, OnDeadLink, Abandon, Held, Somewhere,
     InQueue
<1>19. CASE send_to_dlq
  BY <1>19 DEF send_to_dlq, OnLiveLink, OnDeadLink, Abandon, Held, Somewhere, InQueue
<1>20. CASE basic_ack
  BY <1>20 DEF basic_ack, Settle, Abandon, Held, AckReady, Somewhere, InQueue
<1>21. CASE basic_nack
  BY <1>21 DEF basic_nack, Settle, Abandon, Held, NackReady, Somewhere, InQueue
<1>22. CASE DlqConnect
  BY <1>22 DEF DlqConnect, Held, Somewhere, InQueue
<1>23. ASSUME NEW e \in Entry, process_dlq_message(e)
       PROVE  Somewhere'
  BY <1>23 DEF process_dlq_message, Held, Somewhere, InQueue
<1>24. ASSUME NEW reported \in {{}} \cup {{e} : e \in errors}, DlqDies(reported)
       PROVE  Somewhere'
  BY <1>24 DEF DlqDies, Held, Somewhere, InQueue
<1>25. CASE MainExits
  BY <1>25 DEF MainExits, Stop, Somewhere, InQueue
<1>26. CASE Crash
  BY <1>26 DEF Crash, Stop, Somewhere, InQueue
<1>27. CASE Restart
  BY <1>27 DEF Restart, Held, Somewhere, InQueue
<1>28. CASE UNCHANGED vars
  BY <1>28 DEF Somewhere, InQueue, Held
<1>29. CASE ScreenRefused
  BY <1>29 DEF ScreenRefused, Abandon, Somewhere, InQueue
<1>30. QED
  BY <1>1, <1>2, <1>3, <1>4, <1>5, <1>6, <1>7, <1>8, <1>9, <1>10, <1>11, <1>12, <1>13,
     <1>14, <1>15, <1>16, <1>17, <1>18, <1>19, <1>20, <1>21, <1>22, <1>23, <1>24, <1>25,
     <1>26, <1>27, <1>28, <1>29 DEF Next, ReceiverStep, DlqStep

-----------------------------------------------------------------------------
LEMMA InitInv == Init => Inv
<1> SUFFICES ASSUME Init PROVE Inv
  OBVIOUS
<1>1. TypeOK /\ InHand
  BY FaultAssumption DEF Init, TypeOK, InHand, Busy, Steps, DlqSteps
<1>2. AckReady /\ NackReady /\ NackedIsDeadLettered /\ MarkedWasTaken /\ DuplicateOfTaken
  BY DEF Init, AckReady, NackReady, NackedIsDeadLettered, MarkedWasTaken, DuplicateOfTaken
<1>3. UnmarkedIsFresh /\ AtMostOncePerLife /\ Somewhere
  BY DEF Init, UnmarkedIsFresh, AtMostOncePerLife, Somewhere
<1>4. QED
  BY <1>1, <1>2, <1>3 DEF Inv

LEMMA StepInv == Inv /\ [Next]_vars => Inv'
<1> SUFFICES ASSUME Inv, [Next]_vars PROVE Inv'
  OBVIOUS
<1> USE DEF Inv
<1>1. TypeOK' /\ InHand'
  BY TypeStep
<1>2. AckReady' /\ NackReady' /\ NackedIsDeadLettered'
  BY FateStep
<1>3. MarkedWasTaken' /\ DuplicateOfTaken'
  BY MarkStep
<1>4. UnmarkedIsFresh' /\ AtMostOncePerLife'
  BY FreshStep
<1>5. Somewhere'
  BY SomewhereStep
<1>6. QED
  BY <1>1, <1>2, <1>3, <1>4, <1>5

\* The invariant that carries the others holds of every behaviour of the receiver.
THEOREM Invariance == Spec => []Inv
  BY InitInv, StepInv, PTL DEF Spec

\* The values of the receiver, the queues and the histories are what they should be.
THEOREM TypeCorrect == Spec => []TypeOK
<1>1. Inv => TypeOK
  BY DEF Inv
<1>2. QED
  BY Invariance, <1>1, PTL

\* A handler begins at most once for an id in one life of the process: seen_message_ids is
\* read and marked in one callback, and only a restart empties it.
THEOREM BeginsOnce == Spec => []AtMostOncePerLife
<1>1. Inv => AtMostOncePerLife
  BY DEF Inv
<1>2. QED
  BY Invariance, <1>1, PTL

\* basic_nack(requeue=False) takes effect only for a message that reached errors.facturatie:
\* a connection that died in send_to_dlq never comes back for the nack.
THEOREM NackIsSafe == Spec => []NackedIsDeadLettered
<1>1. Inv => NackedIsDeadLettered
  BY DEF Inv
<1>2. QED
  BY Invariance, <1>1, PTL

\* A message is discarded as a duplicate only of one that the XSD accepted and whose handler
\* began.
THEOREM DuplicatesAreReal == Spec => []DuplicateOfTaken
<1>1. Inv => DuplicateOfTaken
  BY DEF Inv
<1>2. QED
  BY Invariance, <1>1, PTL

\* No message disappears: RabbitMQ lets go of it only handled, dead-lettered or discarded as
\* a duplicate, whatever connections, threads and processes die in between.
THEOREM NothingDisappears == Spec => []SettledIsAccounted
<1>1. Inv => SettledIsAccounted
  BY DEF Inv, Somewhere, SettledIsAccounted, Settled
<1>2. QED
  BY Invariance, <1>1, PTL
=============================================================================

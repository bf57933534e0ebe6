---------------------- MODULE ReceiverRefinementProofs ----------------------
(***************************************************************************)
(* Proof that the receiver implements Delivery, what the handlers of the   *)
(* message types rely on, for every set of messages and ids.               *)
(*                                                                         *)
(* The invariant it needs is that there is one copy of a message at most   *)
(* (OneCopy): what the receiver has in hand waits elsewhere exactly if the *)
(* connection it came over is dead.  So a settlement over a live           *)
(* connection is the end of the message, and one over a dead connection    *)
(* gives it back.                                                          *)
(***************************************************************************)
EXTENDS ReceiverProofs

Content(q) == {q[k] : k \in 1..Len(q)}

Distinct(q) == \A j, k \in 1..Len(q) : q[j] = q[k] => j = k

\* No message is in two places at RabbitMQ, nor in the queue twice.
OneCopy ==
  /\ Distinct(queue)
  /\ unsent \cap orphans = {}
  /\ unsent \cap Content(queue) = {}
  /\ orphans \cap Content(queue) = {}
  /\ pc \in Busy => (inflight \in Waiting <=> link = "down")

\* Why process_message rejects or drops what it has.
Reasons ==
  /\ pc = "report" => ShapeOf[inflight] = "invalid"
  /\ pc = "drop" => IdOf[inflight] \in seen

\* Held when a connection dies.
Losing == /\ orphans' = orphans \cup Held
          /\ UNCHANGED <<unsent, queue>>

Inbox   == IF Handling THEN Waiting \ {inflight} ELSE Waiting \cup ({inflight} \ {NoMessage})
Current == IF Handling THEN inflight ELSE NoMessage

-----------------------------------------------------------------------------
\* What the queue holds, once a message is put behind or before the others.
LEMMA ContentMore ==
  ASSUME NEW q \in Seq(Message), NEW n \in Message
  PROVE  /\ Content(Append(q, n)) = Content(q) \cup {n}
         /\ Content(<<n>> \o q) = Content(q) \cup {n}
         /\ Distinct(q) /\ n \notin Content(q) => /\ Distinct(Append(q, n))
                                                  /\ Distinct(<<n>> \o q)
<1> DEFINE a == Append(q, n)
           b == <<n>> \o q
<1>1. /\ Len(q) \in Nat /\ Len(a) = Len(q) + 1 /\ Len(b) = Len(q) + 1
      /\ \A k \in 1..Len(q) : a[k] = q[k]
      /\ a[Len(q) + 1] = n
      /\ b[1] = n
      /\ \A k \in 1..Len(q) : b[k + 1] = q[k]
  OBVIOUS
<1>2. \A k \in 2..Len(b) : k - 1 \in 1..Len(q) /\ b[k] = q[k - 1]
  BY <1>1
<1> HIDE DEF a, b
<1>3. Content(a) = Content(q) \cup {n}
  <2>1. \A k \in 1..Len(a) : k \in 1..Len(q) \/ k = Len(q) + 1
    BY <1>1
  <2>2. \A k \in 1..Len(q) : k \in 1..Len(a)
    BY <1>1
  <2>3. Len(q) + 1 \in 1..Len(a)
    BY <1>1
  <2>4. QED
    BY <1>1, <2>1, <2>2, <2>3 DEF Content
<1>4. Content(b) = Content(q) \cup {n}
  <2>1. \A k \in 1..Len(b) : k \in 2..Len(b) \/ k = 1
    BY <1>1
  <2>2. \A k \in 1..Len(q) : k + 1 \in 1..Len(b)
    BY <1>1
  <2>3. 1 \in 1..Len(b)
    BY <1>1
  <2>4. QED
    BY <1>1, <1>2, <2>1, <2>2, <2>3 DEF Content
<1>5. ASSUME Distinct(q), n \notin Content(q) PROVE Distinct(a)
  BY <1>1, <1>5 DEF Distinct, Content
<1>6. ASSUME Distinct(q), n \notin Content(q) PROVE Distinct(b)
  <2>1. \A k \in 2..Len(b) : b[k] # n
    BY <1>2, <1>6 DEF Content
  <2>2. \A j, k \in 2..Len(b) : b[j] = b[k] => j = k
    BY <1>1, <1>2, <1>6 DEF Distinct
  <2>3. \A k \in 1..Len(b) : k \in 2..Len(b) \/ k = 1
    BY <1>1
  <2>4. QED
    BY <1>1, <2>1, <2>2, <2>3 DEF Distinct
<1>7. QED
  BY <1>3, <1>4, <1>5, <1>6 DEF a, b

\* What the queue holds, once the first message is taken away.
LEMMA ContentLess ==
  ASSUME NEW q \in Seq(Message), q # <<>>
  PROVE  /\ Content(q) = Content(Tail(q)) \cup {Head(q)}
         /\ Head(q) \in Message
         /\ Distinct(q) => Distinct(Tail(q)) /\ Head(q) \notin Content(Tail(q))
<1> DEFINE t == Tail(q)
<1>1. /\ Len(q) \in Nat /\ Len(q) >= 1 /\ Len(t) = Len(q) - 1
      /\ Head(q) = q[1] /\ Head(q) \in Message
      /\ \A k \in 1..Len(t) : t[k] = q[k + 1] /\ k + 1 \in 1..Len(q)
  OBVIOUS
<1>2. \A k \in 1..Len(q) : k = 1 \/ (k - 1 \in 1..Len(t) /\ t[k - 1] = q[k])
  BY <1>1
<1> HIDE DEF t
<1>3. Content(q) = Content(t) \cup {Head(q)}
  <2>1. 1 \in 1..Len(q)
    BY <1>1
  <2>2. QED
    BY <1>1, <1>2, <2>1 DEF Content
<1>4. ASSUME Distinct(q) PROVE Distinct(t) /\ Head(q) \notin Content(t)
  <2>1. \A k \in 1..Len(t) : t[k] # q[1]
    BY <1>1, <1>4 DEF Distinct
  <2>2. Distinct(t)
    BY <1>1, <1>4 DEF Distinct
  <2>3. QED
    BY <1>1, <2>1, <2>2 DEF Content
<1>5. QED
  BY <1>1, <1>3, <1>4 DEF t

\* Where the messages wait, after the steps that move them.
LEMMA WaitingMoves ==
  ASSUME TypeOK
  PROVE  /\ UNCHANGED <<unsent, queue, orphans>> => Waiting' = Waiting
         /\ Losing => Waiting' = Waiting \cup Held
         /\ \A m \in Message : Publish(m) \/ Requeue(m) => Waiting' = Waiting
         /\ Deliver => Waiting = Waiting' \cup {inflight'} /\ inflight' \in Message
<1>1. Waiting = unsent \cup orphans \cup Content(queue)
  BY DEF Waiting, Content
<1>2. Waiting' = unsent' \cup orphans' \cup Content(queue')
  BY DEF Waiting, Content
<1>3. UNCHANGED <<unsent, queue, orphans>> => Waiting' = Waiting
  BY <1>1, <1>2
<1>4. Losing => Waiting' = Waiting \cup Held
  BY <1>1, <1>2 DEF Losing
<1>5. ASSUME NEW m \in Message, Publish(m)
      PROVE  Waiting' = Waiting
  <2>1. Content(queue') = Content(queue) \cup {m}
    BY <1>5, ContentMore DEF TypeOK, Publish
  <2>2. m \in unsent /\ unsent' = unsent \ {m} /\ orphans' = orphans
    BY <1>5 DEF Publish
  <2>3. QED
    BY <2>1, <2>2, <1>1, <1>2
<1>6. ASSUME NEW m \in Message, Requeue(m)
      PROVE  Waiting' = Waiting
  <2>1. Content(queue') = Content(queue) \cup {m}
    BY <1>6, ContentMore DEF TypeOK, Requeue
  <2>2. m \in orphans /\ orphans' = orphans \ {m} /\ unsent' = unsent
    BY <1>6 DEF Requeue
  <2>3. QED
    BY <2>1, <2>2, <1>1, <1>2
<1>7. ASSUME Deliver
      PROVE  Waiting = Waiting' \cup {inflight'} /\ inflight' \in Message
  <2>1. Content(queue) = Content(queue') \cup {inflight'} /\ inflight' \in Message
    BY <1>7, ContentLess DEF TypeOK, Deliver
  <2>2. unsent' = unsent /\ orphans' = orphans
    BY <1>7 DEF Deliver
  <2>3. QED
    BY <2>1, <2>2, <1>1, <1>2
<1>8. QED
  BY <1>3, <1>4, <1>5, <1>6, <1>7

-----------------------------------------------------------------------------
(* There is one copy *)

\* Steps that move no message and take up none.
LEMMA QuietCopies ==
  ASSUME OneCopy, UNCHANGED <<unsent, queue, orphans>>,
         pc' \in Busy => pc \in Busy /\ UNCHANGED <<inflight, link>>
  PROVE  OneCopy'
BY DEF OneCopy, Waiting

\* Steps in which a connection is gone.
LEMMA LosingCopies ==
  ASSUME TypeOK, InHand, OneCopy, Losing, link' = "down",
         pc' \in Busy => UNCHANGED <<pc, inflight>>
  PROVE  OneCopy'
<1>1. Waiting' = Waiting \cup Held
  BY WaitingMoves
<1>2. \A m \in Held : m \notin Waiting /\ m = inflight /\ pc \in Busy
  BY DEF Held, InHand, OneCopy
<1>3. /\ Distinct(queue)'
      /\ (unsent \cap orphans = {})'
      /\ (unsent \cap Content(queue) = {})'
      /\ (orphans \cap Content(queue) = {})'
  BY <1>2 DEF Losing, OneCopy, Waiting, Content
<1>4. ASSUME pc' \in Busy PROVE inflight' \in Waiting'
  <2>1. pc \in Busy /\ inflight' = inflight /\ inflight # NoMessage
    BY <1>4, MessageAssumption DEF InHand
  <2>2. inflight \in Waiting \cup Held
    BY <2>1 DEF OneCopy, Held, TypeOK
  <2>3. QED
    BY <1>1, <2>1, <2>2
<1>5. QED
  BY <1>3, <1>4 DEF OneCopy

\* Every step keeps one copy of a message, and the reasons to settle it.
LEMMA CopyStep ==
  ASSUME TypeOK, InHand, OneCopy, Reasons, [Next]_vars
  PROVE  OneCopy' /\ Reasons'
<1> USE DEF vars, incoming, thread, deadSide, process, ledger
<1>1. ASSUME NEW m \in Message, Publish(m)
      PROVE  OneCopy' /\ Reasons'
  <2>1. Waiting' = Waiting
    BY <1>1, WaitingMoves
  <2>2. m \in unsent /\ m \notin Content(queue) /\ queue' = Append(queue, m)
        /\ unsent' = unsent \ {m} /\ UNCHANGED <<orphans, pc, link, inflight, seen>>
    BY <1>1 DEF Publish, OneCopy
  <2>3. Content(queue') = Content(queue) \cup {m} /\ Distinct(queue')
    BY <2>2, ContentMore DEF TypeOK, OneCopy
  <2>4. QED
    BY <2>1, <2>2, <2>3 DEF OneCopy, Reasons
<1>2. ASSUME NEW m \in Message, Requeue(m)
      PROVE  OneCopy' /\ Reasons'
  <2>1. Waiting' = Waiting
    BY <1>2, WaitingMoves
  <2>2. m \in orphans /\ m \notin Content(queue) /\ queue' = <<m>> \o queue
        /\ orphans' = orphans \ {m} /\ UNCHANGED <<unsent, pc, link, inflight, seen>>
    BY <1>2 DEF Requeue, OneCopy
  <2>3. Content(queue') = Content(queue) \cup {m} /\ Distinct(queue')
    BY <2>2, ContentMore DEF TypeOK, OneCopy
  <2>4. QED
    BY <2>1, <2>2, <2>3 DEF OneCopy, Reasons
<1>3. CASE BrokerUp
  BY <1>3, QuietCopies DEF BrokerUp, Reasons
<1>4. CASE BrokerDown
  BY <1>4, LosingCopies DEF BrokerDown, Losing, Reasons
<1>5. CASE LoseLink
  BY <1>5, LosingCopies DEF LoseLink, Losing, Reasons
<1>6. CASE LoseDlqLink
  BY <1>6, QuietCopies DEF LoseDlqLink, Reasons
<1>7. CASE StartReceiver
  BY <1>7, QuietCopies DEF StartReceiver, Reasons, Busy
<1>8. CASE Connect
  BY <1>8, QuietCopies DEF Connect, Reasons, Busy
<1>9. CASE NoticeLostLink
  BY <1>9, LosingCopies DEF NoticeLostLink, Abandon, Losing, Reasons, Busy
<1>10. CASE Deliver
  <2>1. /\ Content(queue) = Content(queue') \cup {inflight'} /\ Distinct(queue')
        /\ inflight' \notin Content(queue')
    BY <1>10, ContentLess DEF Deliver, TypeOK, OneCopy
  <2>2. UNCHANGED <<unsent, orphans, link>> /\ pc' = "screen" /\ link = "up"
    BY <1>10 DEF Deliver
  <2>3. Waiting' = unsent' \cup orphans' \cup Content(queue')
    BY DEF Waiting, Content
  <2>4. QED
    BY <2>1, <2>2, <2>3 DEF OneCopy, Reasons
<1>11. CASE ScreenGarbled
  BY <1>11, QuietCopies DEF ScreenGarbled, Reasons, Busy
<1>12. CASE ScreenDuplicate
  BY <1>12, QuietCopies DEF ScreenDuplicate, is_duplicate, Reasons, Busy
<1>13. CASE ScreenInvalid
  BY <1>13, QuietCopies DEF ScreenInvalid, Reasons, Busy
<1>14. CASE ScreenValid
  BY <1>14, QuietCopies DEF ScreenValid, Reasons, Busy
<1>15. CASE HandlerDone
  BY <1>15, QuietCopies DEF HandlerDone, Reasons, Busy
<1>16. CASE HandlerRejects
  BY <1>16, QuietCopies DEF HandlerRejects, Reasons, Busy
<1>17. CASE HandlerRaises
  BY <1>17, LosingCopies DEF HandlerRaises, Abandon, Losing, Reasons, Busy
<1>18. CASE send_system_error
  BY <1>18, QuietCopies, LosingCopies DEF send_system_error, OnLiveLink, OnDeadLink, Abandon,
     Losing, Reasons, Busy
<1>19. CASE send_to_dlq
  BY <1>19, QuietCopies, LosingCopies DEF send_to_dlq, OnLiveLink, OnDeadLink, Abandon,
     Losing, Reasons, Busy
<1>20. CASE basic_ack
  BY <1>20, QuietCopies, LosingCopies DEF basic_ack, Settle, Abandon, Losing, Reasons, Busy
<1>21. CASE basic_nack
  BY <1>21, QuietCopies, LosingCopies DEF basic_nack, Settle, Abandon, Losing, Reasons, Busy
<1>22. CASE DlqStep
  BY <1>22, QuietCopies DEF DlqStep, DlqConnect, process_dlq_message, DlqDies, Reasons
<1>23. CASE MainExits
  BY <1>23, LosingCopies DEF MainExits, Stop, Losing, Reasons, Busy
<1>24. CASE Crash
  BY <1>24, LosingCopies DEF Crash, Stop, Losing, Reasons, Busy
<1>25. CASE Restart
  BY <1>25, QuietCopies DEF Restart, Reasons, Busy
<1>26. CASE UNCHANGED vars
  BY <1>26, QuietCopies DEF Reasons
<1>27. CASE ScreenRefused
  BY <1>27, LosingCopies DEF ScreenRefused, Abandon, Losing, Reasons, Busy
<1>28. QED
  BY <1>1, <1>2, <1>3, <1>4, <1>5, <1>6, <1>7, <1>8, <1>9, <1>10, <1>11, <1>12, <1>13,
     <1>14, <1>15, <1>16, <1>17, <1>18, <1>19, <1>20, <1>21, <1>22, <1>23, <1>24, <1>25,
     <1>26, <1>27 DEF Next, ReceiverStep

-----------------------------------------------------------------------------
(* Every step is one of Delivery, or none of its business *)

AbstractVars == <<Inbox, seen, Current>>

\* A step that leaves the message where it is is not visible.
LEMMA QuietStep ==
  ASSUME Waiting' = Waiting, Handling' = Handling, UNCHANGED <<inflight, seen>>
  PROVE  UNCHANGED AbstractVars
BY DEF AbstractVars, Inbox, Current

\* Nor is the death of a connection, as long as the receiver goes on.
LEMMA UnnoticedStep ==
  ASSUME TypeOK, InHand, Losing, UNCHANGED <<pc, inflight, seen>>
  PROVE  UNCHANGED AbstractVars
<1>1. Waiting' = Waiting \cup Held /\ Held \subseteq {inflight} \ {NoMessage}
  BY WaitingMoves DEF Held
<1>2. Handling' = Handling
  BY DEF Handling
<1>3. QED
  BY <1>1, <1>2 DEF AbstractVars, Inbox, Current

\* A receiver that leaves its connection or its life gives back what it has, marked only if
\* the marks survive.
LEMMA LeavingStep ==
  ASSUME TypeOK, InHand, OneCopy, Losing, pc' \notin Busy, inflight' = NoMessage,
         seen' \in {seen, {}}
  PROVE  Intake!Next \/ UNCHANGED AbstractVars
<1>1. Waiting' = Waiting \cup Held
  BY WaitingMoves
<1>2. pc \in Busy => inflight \in Message /\ inflight # NoMessage
  BY MessageAssumption DEF InHand
<1>3. Waiting \cup Held = Waiting \cup ({inflight} \ {NoMessage})
  BY <1>2 DEF Held, OneCopy, InHand, TypeOK
<1>4. ~Handling' /\ (Handling => pc \in Busy)
  BY DEF Handling, Busy
<1>5. Inbox' = Waiting \cup ({inflight} \ {NoMessage}) /\ Current' = NoMessage
  BY <1>1, <1>3, <1>4 DEF Inbox, Current
<1>6. CASE Handling
  <2>1. Inbox' = Inbox \cup {inflight} /\ Current = inflight /\ inflight # NoMessage
    BY <1>2, <1>4, <1>5, <1>6 DEF Inbox, Current
  <2>2. Intake!Return \/ Intake!Restart
    BY <1>5, <2>1 DEF Intake!Return, Intake!Restart, Inbox, Current
  <2>3. QED
    BY <2>2 DEF Intake!Next
<1>7. CASE ~Handling
  <2>1. Inbox' = Inbox /\ Current = NoMessage
    BY <1>5, <1>7 DEF Inbox, Current
  <2>2. Intake!Restart \/ UNCHANGED AbstractVars
    BY <1>5, <2>1 DEF Intake!Restart, Inbox, Current, AbstractVars
  <2>3. QED
    BY <2>2 DEF Intake!Next
<1>8. QED
  BY <1>6, <1>7

\* A settlement ends the message; over a dead connection it gives the message back.
LEMMA SettleStep ==
  ASSUME TypeOK, InHand, OneCopy, Reasons, pc \in {"ack", "drop", "nack"}, Settle("idle"),
         UNCHANGED <<unsent, queue, seen>>
  PROVE  Intake!Next \/ UNCHANGED AbstractVars
<1>1. inflight \in Message /\ inflight # NoMessage /\ pc \in Busy
  BY MessageAssumption DEF InHand, Busy
<1>2. CASE Abandon
  BY <1>2, LeavingStep DEF Abandon, Losing, Busy
<1>3. CASE pc' = "idle" /\ inflight' = NoMessage /\ UNCHANGED <<link, orphans>>
  <2>1. Waiting' = Waiting /\ ~Handling'
    BY <1>3, WaitingMoves DEF Handling
  <2>2. Inbox' = Waiting /\ Current' = NoMessage
    BY <1>3, <2>1 DEF Inbox, Current
  <2>3. CASE Handling /\ link = "up"
    <3>1. Inbox = Waiting /\ Current = inflight
      BY <1>1, <2>3 DEF Inbox, Current, OneCopy
    <3>2. Intake!Settle
      BY <1>1, <2>2, <3>1 DEF Intake!Settle, Inbox, Current
    <3>3. QED
      BY <3>2 DEF Intake!Next
  <2>4. CASE Handling /\ link = "down"
    <3>1. Inbox \cup {inflight} = Waiting /\ Current = inflight
      BY <1>1, <2>4 DEF Inbox, Current, OneCopy
    <3>2. Intake!Return
      BY <1>1, <2>2, <3>1 DEF Intake!Return, Inbox, Current
    <3>3. QED
      BY <3>2 DEF Intake!Next
  <2>5. CASE ~Handling /\ link = "up"
    <3>1. Inbox = Waiting \cup {inflight} /\ inflight \notin Waiting /\ Current = NoMessage
      BY <1>1, <2>5 DEF Inbox, Current, OneCopy
    <3>2. ShapeOf[inflight] # "valid" \/ IdOf[inflight] \in seen
      BY <2>5 DEF Handling, Reasons
    <3>3. Intake!Discard(inflight)
      BY <1>1, <2>2, <3>1, <3>2 DEF Intake!Discard, Inbox, Current
    <3>4. QED
      BY <1>1, <3>3 DEF Intake!Next
  <2>6. CASE ~Handling /\ link = "down"
    <3>1. Inbox = Waiting /\ Current = NoMessage
      BY <1>1, <2>6 DEF Inbox, Current, OneCopy
    <3>2. QED
      BY <2>2, <3>1 DEF AbstractVars
  <2>7. QED
    BY <2>3, <2>4, <2>5, <2>6 DEF TypeOK
<1>4. QED
  BY <1>2, <1>3 DEF Settle

LEMMA RefinementStep ==
  ASSUME TypeOK, InHand, OneCopy, Reasons, [Next]_vars
  PROVE  Intake!Next \/ UNCHANGED AbstractVars
<1> USE DEF vars, incoming, thread, deadSide, process, ledger
<1>1. ASSUME NEW m \in Message, Publish(m) \/ Requeue(m)
      PROVE  UNCHANGED AbstractVars
  BY <1>1, WaitingMoves, QuietStep DEF Publish, Requeue, Handling
<1>2. CASE BrokerUp \/ LoseDlqLink \/ DlqStep
  BY <1>2, WaitingMoves, QuietStep DEF BrokerUp, LoseDlqLink, DlqStep, DlqConnect,
     process_dlq_message, DlqDies, Handling
<1>3. CASE BrokerDown \/ LoseLink
  BY <1>3, UnnoticedStep DEF BrokerDown, LoseLink, Losing
<1>4. CASE StartReceiver \/ Connect \/ Restart
  BY <1>4, WaitingMoves, QuietStep DEF StartReceiver, Connect, Restart, Handling, InHand
<1>5. CASE NoticeLostLink \/ ScreenRefused \/ HandlerRaises
  BY <1>5, LeavingStep DEF NoticeLostLink, ScreenRefused, HandlerRaises, Abandon, Losing, Busy
<1>6. CASE Deliver
  <2>1. /\ Waiting = Waiting' \cup {inflight'} /\ inflight' \in Message
        /\ inflight = NoMessage /\ pc = "idle" /\ pc' = "screen" /\ seen' = seen
    BY <1>6, WaitingMoves DEF Deliver, InHand, Busy
  <2>2. QED
    BY <2>1, MessageAssumption DEF AbstractVars, Inbox, Current, Handling
<1>7. CASE ScreenGarbled \/ ScreenDuplicate \/ ScreenInvalid
  BY <1>7, WaitingMoves, QuietStep DEF ScreenGarbled, ScreenDuplicate, ScreenInvalid, Handling
<1>8. CASE ScreenValid
  <2>1. /\ pc = "screen" /\ pc' = "handle" /\ inflight \in Message /\ inflight # NoMessage
        /\ ShapeOf[inflight] = "valid" /\ IdOf[inflight] \notin seen
        /\ seen' = seen \cup {IdOf[inflight]} /\ inflight' = inflight /\ Waiting' = Waiting
    BY <1>8, WaitingMoves, MessageAssumption
    DEF ScreenValid, is_duplicate, InHand, Busy
  <2>2. /\ Inbox = Waiting \cup {inflight} /\ Current = NoMessage
        /\ Inbox' = Waiting \ {inflight} /\ Current' = inflight
    BY <2>1 DEF Inbox, Current, Handling
  <2>3. Intake!Take(inflight)
    BY <2>1, <2>2 DEF Intake!Take, Inbox, Current
  <2>4. QED
    BY <2>1, <2>3 DEF Intake!Next
<1>9. CASE HandlerDone \/ HandlerRejects
  BY <1>9, WaitingMoves, QuietStep DEF HandlerDone, HandlerRejects, Handling
<1>10. CASE send_system_error \/ send_to_dlq
  <2>1. CASE Abandon
    BY <1>10, <2>1, LeavingStep DEF send_system_error, send_to_dlq, Abandon, Losing, Busy
  <2>2. CASE ~Abandon
    <3>1. UNCHANGED <<unsent, queue, orphans, inflight, seen>>
      BY <1>10, <2>2 DEF send_system_error, send_to_dlq, OnLiveLink, OnDeadLink
    <3>2. \/ pc = "report" /\ pc' = "reject" /\ ShapeOf[inflight] = "invalid"
          \/ pc = "reject" /\ pc' = "nack"
      BY <1>10, <2>2 DEF send_system_error, send_to_dlq, OnLiveLink, OnDeadLink, Reasons
    <3>3. Handling' = Handling
      BY <3>1, <3>2 DEF Handling
    <3>4. QED
      BY <3>1, <3>3, WaitingMoves, QuietStep
  <2>3. QED
    BY <2>1, <2>2
<1>11. CASE basic_ack \/ basic_nack
  BY <1>11, SettleStep DEF basic_ack, basic_nack
<1>12. CASE MainExits \/ Crash
  BY <1>12, LeavingStep DEF MainExits, Crash, Stop, Losing, Busy
<1>13. CASE UNCHANGED vars
  BY <1>13, WaitingMoves, QuietStep DEF Handling
<1>14. QED
  BY <1>1, <1>2, <1>3, <1>4, <1>5, <1>6, <1>7, <1>8, <1>9, <1>10, <1>11, <1>12, <1>13
  DEF Next, ReceiverStep

LEMMA CopiesHold == Spec => [](TypeOK /\ InHand /\ OneCopy /\ Reasons)
<1> DEFINE I == TypeOK /\ InHand /\ OneCopy /\ Reasons
<1>1. Init => OneCopy /\ Reasons
  BY DEF Init, OneCopy, Reasons, Distinct, Content, Busy
<1>2. I /\ [Next]_vars => I'
  BY TypeStep, CopyStep
<1>3. Inv => TypeOK /\ InHand
  BY DEF Inv
<1>4. QED
  BY <1>1, <1>2, <1>3, Invariance, PTL DEF Spec

\* RabbitMQ never has a message twice, however often connections and the process end while it is
\* in hand: what process_message has goes back exactly if the connection it came over is dead.
THEOREM CopiesAreSingle == Spec => []OneCopy
BY CopiesHold, PTL

\* Whatever happens to connections, threads and the process, a handler sees one message at a
\* time, only what the schemas accept, and an id again only after a restart.
THEOREM ReceiverImplementsDelivery == Spec => ImplementsDelivery
<1>1. Init => Intake!Init
  BY MessageAssumption DEF Init, Intake!Init, Handling, Waiting
<1>2. TypeOK /\ InHand /\ OneCopy /\ Reasons /\ [Next]_vars
        => [Intake!Next]_AbstractVars
  BY RefinementStep
<1>3. QED
  BY <1>1, <1>2, CopiesHold, PTL DEF Spec, ImplementsDelivery, Intake!Spec, AbstractVars,
     Inbox, Current
=============================================================================

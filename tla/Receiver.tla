------------------------------ MODULE Receiver ------------------------------
(***************************************************************************)
(* The life of a message in the Facturatie service: the receiver thread    *)
(* (start_receiver, process_message) consuming facturatie.incoming with a  *)
(* prefetch of one, the dead letter consumer thread on errors.facturatie,  *)
(* and the main thread that ends the process when either of them has died. *)
(*                                                                         *)
(* What a handler does with FossBilling and MySQL is left to the modules   *)
(* of the business flows; here a handler is its three ways to end: it      *)
(* returns after basic_ack, it sends the message to the dead letter queue, *)
(* or an exception escapes from it.  RabbitMQ is external: a durable queue *)
(* that gives back, at its head, what a dead connection had not settled.   *)
(***************************************************************************)
EXTENDS Naturals, Sequences, FiniteSets

CONSTANTS
  Message,    \* the messages other teams publish, each published once
  NoMessage,  \* not a message
  Id,         \* values of header/message_id
  IdOf,       \* the id of each message: a resend may repeat one
  ShapeOf,    \* what the message is to the parser and the XSD
  Traffic,    \* bound: the sets of messages that may be published in one behaviour
  MaxFaults   \* bound: exceptions, lost connections and crashes in a behaviour

\* No XML; XML that declares entities or more, which defusedxml refuses to parse; XML that
\* the XSD rejects; XML that it accepts.
Shape == {"garbled", "refused", "invalid", "valid"}

ASSUME MessageAssumption == /\ NoMessage \notin Message
                            /\ IdOf \in [Message -> Id]
                            /\ ShapeOf \in [Message -> Shape]
ASSUME FaultAssumption == MaxFaults \in Nat

VARIABLES
  unsent,     \* messages nobody has published yet
  broker,     \* whether RabbitMQ accepts connections
  queue,      \* facturatie.incoming
  orphans,    \* unsettled messages of dead connections RabbitMQ has not noticed yet
  pc,         \* where the receiver thread is
  link,       \* whether the receiver's connection is alive
  inflight,   \* the message process_message was called with
  seen,       \* seen_message_ids
  errors,     \* errors.facturatie: dead letters and system errors
  dlqpc,      \* where the dead letter consumer thread is
  running,    \* whether the process exists
  faults,     \* how many faults happened (at most MaxFaults)
  lives,      \* history: processes started so far
  begun,      \* history: how often the handler began for each id
  taken,      \* history: messages whose handler began
  handled,    \* history: messages whose handler finished
  dropped,    \* history: messages discarded as duplicates
  nacked,     \* history: messages removed from the queue by basic_nack
  deadLettered, \* history: messages that reached errors.facturatie
  alerted     \* history: entries the dead letter consumer reported

incoming == <<unsent, broker, queue, orphans>>
thread   == <<pc, link, inflight, seen>>
deadSide == <<errors, dlqpc, alerted>>
process  == <<running, lives, faults>>
ledger   == <<begun, taken, handled, dropped, nacked, deadLettered>>
vars     == <<incoming, thread, deadSide, process, ledger>>

Steps    == {"dead", "starting", "connect", "idle", "screen", "report", "handle",
             "reject", "nack", "ack", "drop"}
DlqSteps == {"connect", "idle", "cut", "dead"}
Entry    == {"dead_letter", "system_error"} \X Message

TypeOK ==
  /\ unsent \subseteq Message
  /\ broker \in {"up", "down"}
  /\ queue \in Seq(Message)
  /\ orphans \subseteq Message
  /\ pc \in Steps
  /\ link \in {"up", "down"}
  /\ inflight \in Message \cup {NoMessage}
  /\ seen \subseteq Id
  /\ errors \subseteq Entry
  /\ dlqpc \in DlqSteps
  /\ running \in BOOLEAN
  /\ faults \in 0..MaxFaults
  /\ lives \in Nat \ {0}
  /\ begun \in [Id -> Nat]
  /\ taken \subseteq Message
  /\ handled \subseteq Message
  /\ dropped \subseteq Message
  /\ nacked \subseteq Message
  /\ deadLettered \subseteq Message
  /\ alerted \subseteq Entry

(***************************************************************************)
(* main: init_db and _declare_queues have run, both threads are started.   *)
(***************************************************************************)
Init ==
  /\ unsent = Message
  /\ broker = "up"
  /\ queue = <<>>
  /\ orphans = {}
  /\ pc = "starting"
  /\ link = "down"
  /\ inflight = NoMessage
  /\ seen = {}
  /\ errors = {}
  /\ dlqpc = "connect"
  /\ running = TRUE
  /\ faults = 0
  /\ lives = 1
  /\ begun = [i \in Id |-> 0]
  /\ taken = {}
  /\ handled = {}
  /\ dropped = {}
  /\ nacked = {}
  /\ deadLettered = {}
  /\ alerted = {}

-----------------------------------------------------------------------------
(* RabbitMQ and the teams that publish (external) *)

\* What RabbitMQ holds for the receiver's connection, unsettled.
Held == IF link = "up" /\ inflight # NoMessage THEN {inflight} ELSE {}

Fault == faults < MaxFaults /\ faults' = faults + 1

CutDlq == dlqpc' = IF dlqpc = "idle" THEN "cut" ELSE dlqpc

Publish(m) ==
  /\ broker = "up"
  /\ m \in unsent
  /\ \E s \in Traffic : (Message \ unsent) \cup {m} \subseteq s
  /\ unsent' = unsent \ {m}
  /\ queue' = Append(queue, m)
  /\ UNCHANGED <<broker, orphans, thread, deadSide, process, ledger>>

\* RabbitMQ notices that a connection is dead and gives its message back.
Requeue(m) ==
  /\ broker = "up"
  /\ m \in orphans
  /\ orphans' = orphans \ {m}
  /\ queue' = <<m>> \o queue
  /\ UNCHANGED <<unsent, broker, thread, deadSide, process, ledger>>

BrokerUp ==
  /\ broker = "down"
  /\ broker' = "up"
  /\ UNCHANGED <<unsent, queue, orphans, thread, deadSide, process, ledger>>

BrokerDown ==
  /\ Fault
  /\ broker = "up"
  /\ broker' = "down"
  /\ link' = "down"
  /\ orphans' = orphans \cup Held
  /\ CutDlq
  /\ UNCHANGED <<unsent, queue, pc, inflight, seen, errors, alerted, running, lives, ledger>>

\* A connection dies under the receiver: a handler that sleeps and waits for
\* FossBilling serves no heartbeat (heartbeat=60).
LoseLink ==
  /\ Fault
  /\ link = "up"
  /\ link' = "down"
  /\ orphans' = orphans \cup Held
  /\ UNCHANGED <<unsent, broker, queue, pc, inflight, seen, deadSide, running, lives, ledger>>

-----------------------------------------------------------------------------
(* start_receiver *)

\* Mutation: gives a message back although none was delivered.
AbandonAnything ==
  /\ pc' = "connect"
  /\ link' = "down"
  /\ inflight' = NoMessage
  /\ orphans' = orphans \cup {inflight}

\* The exception that escapes from the callback, or from an operation on a dead
\* channel: the connection is closed and the loop connects again.
Abandon ==
  /\ pc' = "connect"
  /\ link' = "down"
  /\ inflight' = NoMessage
  /\ orphans' = orphans \cup Held

\* init_db at the top of start_receiver: a failure ends the thread.
StartReceiver ==
  /\ running
  /\ pc = "starting"
  /\ \/ pc' = "connect" /\ UNCHANGED faults
     \/ pc' = "dead" /\ Fault
  /\ UNCHANGED <<incoming, link, inflight, seen, deadSide, running, lives, ledger>>

\* get_connection_with_retry gives up after five attempts and start_receiver calls
\* it again: the thread stays here until RabbitMQ answers.
Connect ==
  /\ running
  /\ pc = "connect"
  /\ broker = "up"
  /\ pc' = "idle"
  /\ link' = "up"
  /\ UNCHANGED <<incoming, inflight, seen, deadSide, process, ledger>>

NoticeLostLink ==
  /\ running
  /\ pc = "idle"
  /\ link = "down"
  /\ Abandon
  /\ UNCHANGED <<unsent, broker, queue, seen, deadSide, process, ledger>>

Deliver ==
  /\ running
  /\ pc = "idle"
  /\ link = "up"
  /\ queue # <<>>
  /\ inflight' = Head(queue)
  /\ queue' = Tail(queue)
  /\ pc' = "screen"
  /\ UNCHANGED <<unsent, broker, orphans, link, seen, deadSide, process, ledger>>

-----------------------------------------------------------------------------
(* process_message *)

is_duplicate(m) == ShapeOf[m] \notin {"garbled", "refused"} /\ IdOf[m] \in seen

\* Mutation: removes what it cannot parse without a dead letter.
ScreenGarbledSilently ==
  /\ running
  /\ pc = "screen"
  /\ ShapeOf[inflight] = "garbled"
  /\ pc' = "nack"
  /\ UNCHANGED <<incoming, link, inflight, seen, deadSide, process, ledger>>

ScreenGarbled ==
  /\ running
  /\ pc = "screen"
  /\ ShapeOf[inflight] = "garbled"
  /\ pc' = "reject"
  /\ UNCHANGED <<incoming, link, inflight, seen, deadSide, process, ledger>>

\* defusedxml's exceptions are ValueErrors, and only ParseError and UnicodeDecodeError are
\* caught: the message goes back to the head of the queue.
ScreenRefused ==
  /\ running
  /\ pc = "screen"
  /\ ShapeOf[inflight] = "refused"
  /\ Abandon
  /\ UNCHANGED <<unsent, broker, queue, seen, deadSide, process, ledger>>

ScreenDuplicate ==
  /\ running
  /\ pc = "screen"
  /\ is_duplicate(inflight)
  /\ dropped' = dropped \cup {inflight}
  /\ pc' = "drop"
  /\ UNCHANGED <<incoming, link, inflight, seen, deadSide, process,
                 begun, taken, handled, nacked, deadLettered>>

\* Mutation: marks the id before the XSD has accepted the message.
ScreenInvalidMarks ==
  /\ running
  /\ pc = "screen"
  /\ ~is_duplicate(inflight)
  /\ ShapeOf[inflight] = "invalid"
  /\ seen' = seen \cup {IdOf[inflight]}
  /\ pc' = "report"
  /\ UNCHANGED <<incoming, link, inflight, deadSide, process, ledger>>

ScreenInvalid ==
  /\ running
  /\ pc = "screen"
  /\ ~is_duplicate(inflight)
  /\ ShapeOf[inflight] = "invalid"
  /\ pc' = "report"
  /\ UNCHANGED <<incoming, link, inflight, seen, deadSide, process, ledger>>

\* The id is marked before the handler of the message type runs.
ScreenValid ==
  /\ running
  /\ pc = "screen"
  /\ ~is_duplicate(inflight)
  /\ ShapeOf[inflight] = "valid"
  /\ seen' = seen \cup {IdOf[inflight]}
  /\ begun' = [begun EXCEPT ![IdOf[inflight]] = @ + 1]
  /\ taken' = taken \cup {inflight}
  /\ pc' = "handle"
  /\ UNCHANGED <<incoming, link, inflight, deadSide, process,
                 handled, dropped, nacked, deadLettered>>

\* The handler of the message type ran to its basic_ack.
HandlerDone ==
  /\ running
  /\ pc = "handle"
  /\ handled' = handled \cup {inflight}
  /\ pc' = "ack"
  /\ UNCHANGED <<incoming, link, inflight, seen, deadSide, process,
                 begun, taken, dropped, nacked, deadLettered>>

\* Mutation: removes the message without a dead letter.
HandlerRejectsSilently ==
  /\ running
  /\ pc = "handle"
  /\ pc' = "nack"
  /\ UNCHANGED <<incoming, link, inflight, seen, deadSide, process, ledger>>

\* The handler failed in a way it handles itself.
HandlerRejects ==
  /\ running
  /\ pc = "handle"
  /\ pc' = "reject"
  /\ UNCHANGED <<incoming, link, inflight, seen, deadSide, process, ledger>>

\* Mutation: an escaping exception takes the mark back.
HandlerRaisesUnmarked ==
  /\ running
  /\ pc = "handle"
  /\ Fault
  /\ Abandon
  /\ seen' = seen \ {IdOf[inflight]}
  /\ UNCHANGED <<unsent, broker, queue, deadSide, running, lives, ledger>>

\* The handler failed in a call that no try statement surrounds.
HandlerRaises ==
  /\ running
  /\ pc = "handle"
  /\ Fault
  /\ Abandon
  /\ UNCHANGED <<unsent, broker, queue, seen, deadSide, running, lives, ledger>>

\* Reaching RabbitMQ over a channel: on a dead one nothing arrives, and the client
\* either notices it (an exception escapes) or goes on as if it had been sent.
OnLiveLink(next) ==
  /\ link = "up"
  /\ pc' = next
  /\ UNCHANGED <<link, inflight, orphans>>

OnDeadLink(next) ==
  /\ link = "down"
  /\ \/ Abandon
     \/ pc' = next /\ UNCHANGED <<link, inflight, orphans>>

send_system_error ==
  /\ running
  /\ pc = "report"
  /\ \/ OnLiveLink("reject") /\ errors' = errors \cup {<<"system_error", inflight>>}
     \/ OnDeadLink("reject") /\ UNCHANGED errors
  /\ UNCHANGED <<unsent, broker, queue, seen, dlqpc, alerted, process, ledger>>

send_to_dlq ==
  /\ running
  /\ pc = "reject"
  /\ \/ /\ OnLiveLink("nack")
        /\ errors' = errors \cup {<<"dead_letter", inflight>>}
        /\ deadLettered' = deadLettered \cup {inflight}
     \/ OnDeadLink("nack") /\ UNCHANGED <<errors, deadLettered>>
  /\ UNCHANGED <<unsent, broker, queue, seen, dlqpc, alerted, process,
                 begun, taken, handled, dropped, nacked>>

\* basic_ack, basic_nack(requeue=False): RabbitMQ forgets the message.
Settle(next) ==
  \/ /\ link = "up"
     /\ pc' = next
     /\ inflight' = NoMessage
     /\ UNCHANGED <<link, orphans>>
  \/ /\ link = "down"
     /\ \/ Abandon
        \/ /\ pc' = next
           /\ inflight' = NoMessage
           /\ UNCHANGED <<link, orphans>>

basic_ack ==
  /\ running
  /\ pc \in {"ack", "drop"}
  /\ Settle("idle")
  /\ UNCHANGED <<unsent, broker, queue, seen, deadSide, process, ledger>>

basic_nack ==
  /\ running
  /\ pc = "nack"
  /\ Settle("idle")
  /\ nacked' = IF link = "up" THEN nacked \cup {inflight} ELSE nacked
  /\ UNCHANGED <<unsent, broker, queue, seen, deadSide, process,
                 begun, taken, handled, dropped, deadLettered>>

-----------------------------------------------------------------------------
(* start_dlq_consumer, process_dlq_message *)

\* One connection, without retry: a refusal ends the thread.
DlqConnect ==
  /\ running
  /\ dlqpc = "connect"
  /\ dlqpc' = IF broker = "up" THEN "idle" ELSE "dead"
  /\ UNCHANGED <<incoming, thread, errors, alerted, process, ledger>>

process_dlq_message(e) ==
  /\ running
  /\ dlqpc = "idle"
  /\ e \in errors
  /\ alerted' = alerted \cup {e}
  /\ errors' = errors \ {e}
  /\ UNCHANGED <<incoming, thread, dlqpc, process, ledger>>

LoseDlqLink ==
  /\ running
  /\ dlqpc = "idle"
  /\ Fault
  /\ CutDlq
  /\ UNCHANGED <<incoming, thread, errors, alerted, running, lives, ledger>>

\* Its connection is gone, perhaps between the report of an entry and its ack:
\* nothing catches the exception and the thread ends.
DlqDies(reported) ==
  /\ running
  /\ dlqpc = "cut"
  /\ dlqpc' = "dead"
  /\ alerted' = alerted \cup reported
  /\ UNCHANGED <<incoming, thread, errors, process, ledger>>

-----------------------------------------------------------------------------
(* main *)

Stop ==
  /\ running' = FALSE
  /\ pc' = "dead"
  /\ link' = "down"
  /\ inflight' = NoMessage
  /\ seen' = {}
  /\ dlqpc' = "dead"
  /\ orphans' = orphans \cup Held

\* Mutations: main watches one thread only.
MainExitsForDlq ==
  /\ running
  /\ dlqpc = "dead"
  /\ Stop
  /\ UNCHANGED <<unsent, broker, queue, errors, alerted, lives, faults, ledger>>

MainExitsForReceiver ==
  /\ running
  /\ pc = "dead"
  /\ Stop
  /\ UNCHANGED <<unsent, broker, queue, errors, alerted, lives, faults, ledger>>

\* The loop of main sees a dead thread; the other one is a daemon and dies with it.
MainExits ==
  /\ running
  /\ pc = "dead" \/ dlqpc = "dead"
  /\ Stop
  /\ UNCHANGED <<unsent, broker, queue, errors, alerted, lives, faults, ledger>>

Crash ==
  /\ running
  /\ Fault
  /\ Stop
  /\ UNCHANGED <<unsent, broker, queue, errors, alerted, lives, ledger>>

\* Somebody starts the service again (docker-compose.yml has no service for it, and so no
\* restart policy); without RabbitMQ _declare_queues ends it at once.
Restart ==
  /\ ~running
  /\ broker = "up"
  /\ running' = TRUE
  /\ pc' = "starting"
  /\ dlqpc' = "connect"
  /\ lives' = lives + 1
  /\ UNCHANGED <<incoming, link, inflight, seen, errors, alerted, faults, ledger>>

-----------------------------------------------------------------------------
ReceiverStep ==
  \/ StartReceiver \/ Connect \/ NoticeLostLink \/ Deliver
  \/ ScreenGarbled \/ ScreenRefused \/ ScreenDuplicate \/ ScreenInvalid \/ ScreenValid
  \/ HandlerDone \/ HandlerRejects \/ HandlerRaises
  \/ send_system_error \/ send_to_dlq \/ basic_ack \/ basic_nack

DlqStep ==
  \/ DlqConnect
  \/ \E e \in Entry : process_dlq_message(e)
  \/ \E reported \in {{}} \cup {{e} : e \in errors} : DlqDies(reported)

Next ==
  \/ \E m \in Message : Publish(m) \/ Requeue(m)
  \/ BrokerUp \/ BrokerDown \/ LoseLink \/ LoseDlqLink
  \/ ReceiverStep
  \/ DlqStep
  \/ MainExits \/ Crash \/ Restart

Spec == Init /\ [][Next]_vars

\* The threads run, and RabbitMQ comes back and gives back what it still owes.  Nothing makes
\* the other teams publish, a fault happen, or anybody start the service again.
Fairness ==
  /\ WF_vars(ReceiverStep)
  /\ WF_vars(DlqStep)
  /\ WF_vars(MainExits)
  /\ WF_vars(BrokerUp)
  /\ \A m \in Message : WF_vars(Requeue(m))

FairSpec == Spec /\ Fairness

-----------------------------------------------------------------------------
(* Properties *)

InQueue(m) == \E k \in 1..Len(queue) : queue[k] = m

\* RabbitMQ has let go of the message.
Settled(m) == /\ m \notin unsent
              /\ ~InQueue(m)
              /\ m \notin orphans
              /\ m \notin Held

SameId(m, n) == IdOf[m] = IdOf[n]

\* However often an id is redelivered or resent, and whatever escapes from its handler, the
\* handler has begun no more often than the process was started: seen_message_ids
\* (is_duplicate) is lost only in a restart.
AtMostOncePerLife == \A i \in Id : begun[i] <= lives

\* A message the receiver removes with basic_nack(requeue=False) has reached
\* errors.facturatie, even when a connection dies between send_to_dlq and the nack.
NackedIsDeadLettered == nacked \subseteq deadLettered

\* A message leaves facturatie.incoming only handled, dead-lettered or discarded as a
\* duplicate: no death of a connection, thread or process makes one disappear.
SettledIsAccounted ==
  \A m \in Message : Settled(m) => m \in handled \cup deadLettered \cup dropped

\* Only a message the XSD accepted makes its id a duplicate: the corrected resend of a
\* rejected message, under the same id, is not discarded.
DuplicateOfTaken ==
  \A m \in dropped : \E n \in taken : SameId(m, n) /\ ShapeOf[n] = "valid"

\* The ids whose work was begun, never finished and never dead-lettered, and that
\* nothing will bring back: a copy was discarded as a duplicate of the unfinished one.
LostIds ==
  {i \in Id : /\ \E m \in dropped : IdOf[m] = i
              /\ \A m \in handled \cup deadLettered : IdOf[m] # i}

\* The work of a message is lost silently only when a fault cut its handler short, and
\* a fault costs at most one message: with a prefetch of one only one is at risk.
LossesNeedFaults == Cardinality(LostIds) <= faults

\* A message that defusedxml refuses stands at the head of the queue, for ever.
Blocked == \E m \in Message \ unsent : ShapeOf[m] = "refused"

\* Whenever the service has ended, somebody starts it again.  main relies on it: it ends the
\* process as soon as one of its threads has died.
StartedAgain == []<>running

\* If the service is started again whenever it ends, everything published is taken off the
\* queue, through broken connections, escaped exceptions and restarts (start_receiver
\* reconnects forever), unless a message that defusedxml refuses comes and blocks it.
EveryMessageSettles ==
  StartedAgain => \A m \in Message : (m \notin unsent) ~> (Settled(m) \/ Blocked)

\* If the service is started again whenever it ends, every entry of errors.facturatie is
\* reported, although its consumer never reconnects: main ends the process when that thread
\* has died.
EveryEntryAlerted ==
  StartedAgain => \A e \in Entry : (e \in errors) ~> (e \in alerted)

\* What the documentation says of XML that does not parse, and of what defusedxml prevents:
\* it is blocked and becomes a dead letter.
UnparseableIsDeadLettered ==
  \A m \in Message : ShapeOf[m] \in {"garbled", "refused"} =>
    ((m \notin unsent) ~> (m \in deadLettered))

\* What the documentation promises of a message whose handler fails: it is in the dead
\* letter queue.  An exception that escapes leaves nothing there (see LostIds).
NothingLost == LostIds = {}

-----------------------------------------------------------------------------
(* What the handlers may rely on: module Delivery *)

\* A handler has the message: from its beginning to the ack, or to the nack after its
\* dead letter.
Handling == pc \in {"handle", "ack", "reject", "nack"} /\ ShapeOf[inflight] = "valid"

Waiting == unsent \cup orphans \cup {queue[k] : k \in 1..Len(queue)}

Intake == INSTANCE Delivery WITH
  Refused <- {m \in Message : ShapeOf[m] # "valid"},
  inbox   <- IF Handling THEN Waiting \ {inflight} ELSE Waiting \cup ({inflight} \ {NoMessage}),
  taken   <- seen,
  cur     <- IF Handling THEN inflight ELSE NoMessage

\* Through dead connections, requeueing and restarts the receiver only ever takes a message,
\* discards one, ends with it, gives it back, or forgets everything in a restart; in
\* particular a redelivery that RabbitMQ sends while a handler still runs is not seen.
ImplementsDelivery == Intake!Spec

=============================================================================

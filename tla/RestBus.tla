------------------------------- MODULE RestBus -------------------------------
(***************************************************************************)
(* The REST server of the utilities: one process with an event loop, in    *)
(* which POST requests wait for their bodies while others are handled.     *)
(* What comes after the body runs without a pause: the handlers work with  *)
(* the one EventMessage of the process, with the Kafka clients that the    *)
(* process keeps by their ids, and with the webhook that was given last.   *)
(* Topics come and go at the broker, deliveries fail, and the server is    *)
(* killed and started again.                                               *)
(***************************************************************************)
EXTENDS Naturals, Sequences, FiniteSets

CONSTANTS
  Batches,      \* the requests that may come, in any order
  Topics,       \* the message types that there are at first
  None,
  MaxFaults     \* bound on failures, kills and topics that go

VARIABLES
  request,      \* request[r]: what the request r asks for
  up,           \* whether the server runs
  body,         \* requests that wait for their bodies
  answer,       \* answer[r]: the status of the answer, or None
  context,      \* component, source and producer of EventMessage
  producers,    \* ids of the producers that the process has
  consumer,     \* consumer[id]: the consumer that the process has, or None
  webhook,      \* AuditLogRequestHandler.webhook_info
  topics,       \* the message types of the broker
  log,          \* the messages that the broker was given, in order
  gone,         \* those whose topic was deleted since
  committed,    \* committed[g]: the messages that group g has committed
  posted,       \* requests whose messages a webhook has accepted
  got,          \* got[r]: the message that r was answered with, or None
  faults

server == <<context, producers, consumer, webhook>>
broker == <<topics, log, gone, committed, posted>>
vars == <<request, up, body, answer, server, broker, got, faults>>

RequestIds == DOMAIN request
Consumers == {"rest_consumer", "event_consumer"}
NoContext == [component |-> None, source |-> None, producer |-> FALSE]
Sources == {"H", "S", "F", "O"}

Get == {"receive", "events"}
Groups == UNION {{b[r].group : r \in {q \in DOMAIN b : b[q].op \in Get}} : b \in Batches}

NoAnswer == 0
EPERM == 1
EINVAL == 22
ETIMEDOUT == 110
ERR_OP_FAILED == 4352

Init ==
  /\ request \in Batches
  /\ up = FALSE /\ body = {}
  /\ answer = [r \in RequestIds |-> None]
  /\ context = NoContext /\ producers = {}
  /\ consumer = [id \in Consumers |-> None]
  /\ webhook = None
  /\ topics = Topics /\ log = <<>> /\ gone = {} /\ posted = {}
  /\ committed = [g \in Groups |-> {}]
  /\ got = [r \in RequestIds |-> None]
  /\ faults = 0

-----------------------------------------------------------------------------
(* The server and what is around it.                                       *)

\* MessageServer.__init__(): importing the audit handler makes its producer, which
\* asks for the topic, and ends the server if there is none.
Start ==
  /\ ~up /\ "audit_messages" \in topics
  /\ up' = TRUE
  /\ producers' = {"audit_log_send"}
  /\ UNCHANGED <<body, answer, context, consumer, webhook, broker, got, faults>>

\* Requests in the server are not answered, and nothing is kept.
Stop ==
  /\ up /\ faults < MaxFaults
  /\ faults' = faults + 1
  /\ up' = FALSE /\ body' = {}
  /\ answer' = [r \in RequestIds |-> IF r \in body THEN NoAnswer ELSE answer[r]]
  /\ context' = NoContext /\ producers' = {} /\ webhook' = None
  /\ consumer' = [id \in Consumers |-> None]
  /\ UNCHANGED <<broker, got>>

Deregister(t) ==
  /\ t \in topics /\ faults < MaxFaults
  /\ faults' = faults + 1
  /\ topics' = topics \ {t}
  /\ gone' = gone \cup {i \in DOMAIN log : log[i].type = t}
  /\ UNCHANGED <<up, body, answer, server, log, committed, posted, got>>

Register(t) ==
  /\ t \in Topics \ topics
  /\ topics' = topics \cup {t}
  /\ UNCHANGED <<up, body, answer, server, log, gone, committed, posted, got, faults>>

\* The commits that a consumer with auto_ack makes by itself, from time to time.
AutoCommit(id) ==
  /\ consumer[id] # None
  /\ committed' = [committed EXCEPT ![consumer[id].group] = @ \cup consumer[id].read]
  /\ UNCHANGED <<up, body, answer, server, topics, log, gone, posted, got, faults>>

\* A request that has a body waits for it (await request.json()).
Arrive(r) ==
  /\ up /\ answer[r] = None /\ r \notin body
  /\ request[r].op \in {"iem", "send", "audit", "webhook"}
  /\ body' = body \cup {r}
  /\ UNCHANGED <<up, answer, server, broker, got, faults>>

-----------------------------------------------------------------------------
(* What the handlers share.                                                *)

Answers(r, status) == answer' = [answer EXCEPT ![r] = status]
Handles(r, op) == up /\ r \in body /\ request[r].op = op /\ body' = body \ {r} /\ UNCHANGED up

\* RestServerError: the other exceptions have a status that is not a pair, and the
\* handler fails in its own handler, as it does when a name in its text is unbound.
HttpError(exception) ==
  CASE exception = "KeyError" -> 418
    [] exception = "KafkaException" -> 514
    [] OTHER -> 500

\* KafkaMessageBroker.init_client(): a client that is there already only asks for
\* the topic; a new producer is kept before its topic is looked up.
ProducerError(id, t) ==
  IF t \in topics THEN None
  ELSE IF id \in producers THEN "MessageBusError" ELSE "KafkaException"

Fails(failed) ==
  /\ failed => faults < MaxFaults
  /\ faults' = IF failed THEN faults + 1 ELSE faults

\* MessageBusClient.send() of the n messages of r, one after the other: k of them get
\* into the log, and if one is reported as not delivered, which it may be though it
\* is in the log, the ones after it are not sent.
Entries(r, t, k, c) ==
  [i \in 1..k |-> [type |-> t, by |-> r, nr |-> i, component |-> c.component, source |-> c.source]]
Deliver(r, t, c, error) ==
  \E k \in 0..request[r].n, failed \in BOOLEAN :
    /\ failed \/ k = request[r].n
    /\ Fails(failed)
    /\ log' = log \o Entries(r, t, k, c)
    /\ Answers(r, IF failed THEN error ELSE 200)

Refused(r, status) == Answers(r, status) /\ UNCHANGED <<log, faults>>

-----------------------------------------------------------------------------
(* IemRequestHandler.send()                                                *)

\* EventMessage.init() puts the component and the source into the class before it
\* looks at them, whoever's they were.
\* Mutant: only the first init() does.
InitOnce(r) ==
  IF context.producer THEN context
  ELSE [context EXCEPT !.component = request[r].component, !.source = request[r].source]
EventInit(r) ==
  [context EXCEPT !.component = request[r].component, !.source = request[r].source]

InvalidInit(c) == c.component = None \/ c.source \notin Sources

\* The arguments of EventMessage.send(): one unknown or left out, an attribute that
\* is null, or a severity that there is none of.
IemSend(r) ==
  /\ Handles(r, "iem")
  /\ LET q == request[r]
         c == EventInit(r)
         error == ProducerError("event_producer", "IEM")
     IN  IF ~q.json \/ "component" \notin q.keys
         THEN Refused(r, 500) /\ UNCHANGED server
         ELSE IF "source" \notin q.keys
         THEN Refused(r, HttpError("KeyError")) /\ UNCHANGED server
         ELSE /\ context' = [c EXCEPT !.producer = @ \/ (~InvalidInit(c) /\ error = None)]
              /\ producers' = IF InvalidInit(c) THEN producers
                              ELSE producers \cup {"event_producer"}
              /\ CASE InvalidInit(c) -> Refused(r, EINVAL)
                   [] ~InvalidInit(c) /\ error # None -> Refused(r, HttpError(error))
                   [] ~InvalidInit(c) /\ error = None /\ "arguments" \notin q.keys ->
                        Refused(r, HttpError("TypeError"))
                   [] ~InvalidInit(c) /\ error = None /\ "arguments" \in q.keys /\ ~q.valid ->
                        Refused(r, EINVAL)
                   [] OTHER -> Deliver(r, "IEM", c, HttpError("MessageBusError"))
              /\ UNCHANGED <<consumer, webhook>>
  /\ UNCHANGED <<topics, gone, committed, posted, got>>

-----------------------------------------------------------------------------
(* MessageBusRequestHandler.send(): the messages are looked at first, and  *)
(* all of them must be text.                                               *)

BusSend(r) ==
  /\ Handles(r, "send")
  /\ LET q == request[r]
         error == ProducerError("rest_producer", q.type)
     IN  IF ~q.json \/ "messages" \notin q.keys
         THEN /\ Refused(r, HttpError(IF q.json THEN "KeyError" ELSE "JSONDecodeError"))
              /\ UNCHANGED producers
         ELSE /\ producers' = producers \cup {"rest_producer"}
              /\ CASE error = "KafkaException" -> Refused(r, HttpError(error))
                   [] error = "MessageBusError" \/ (error = None /\ ~q.valid) -> Refused(r, EINVAL)
                   [] OTHER -> Deliver(r, q.type, NoContext, ETIMEDOUT)
  /\ UNCHANGED <<context, consumer, webhook, topics, gone, committed, posted, got>>

-----------------------------------------------------------------------------
(* AuditLogRequestHandler                                                  *)

\* The webhook takes the messages, refuses them, which puts them on the bus, or
\* does not answer.  An error of the bus is none that the handler knows.
AuditSend(r) ==
  /\ Handles(r, "audit")
  /\ LET q == request[r]
         ToBus == IF q.valid /\ "audit_messages" \in topics
                  THEN Deliver(r, "audit_messages", NoContext, HttpError("MessageBusError"))
                  ELSE Refused(r, HttpError("MessageBusError"))
     IN  CASE ~q.json \/ "messages" \notin q.keys ->
                /\ Refused(r, HttpError(IF q.json THEN "KeyError" ELSE "JSONDecodeError"))
                /\ UNCHANGED posted
           [] q.json /\ "messages" \in q.keys /\ webhook = None ->
                ToBus /\ UNCHANGED posted
           [] OTHER ->
                \/ posted' = posted \cup {r} /\ Answers(r, 200) /\ UNCHANGED <<log, faults>>
                \/ ToBus /\ UNCHANGED posted
                \/ /\ Fails(TRUE) /\ Answers(r, HttpError("ConnectionError"))
                   /\ UNCHANGED <<log, posted>>
  /\ UNCHANGED <<server, topics, gone, committed, got>>

SendWebhookInfo(r) ==
  /\ Handles(r, "webhook")
  /\ IF request[r].json
     THEN webhook' = request[r].url /\ Answers(r, 200)
     ELSE Answers(r, HttpError("JSONDecodeError")) /\ UNCHANGED webhook
  /\ UNCHANGED <<context, producers, consumer, broker, got, faults>>

-----------------------------------------------------------------------------
(* GET requests have no body, and run from the start to the end.           *)

\* The consumer under the id stays the one of the first request, with the group and
\* the types of that request; new ones begin at what their group has committed, or,
\* if that is nothing, after or before what there is.
ConsumerFor(id, r) ==
  IF consumer[id] # None THEN consumer[id]
  ELSE [group |-> request[r].group, types |-> request[r].types,
        read |-> IF committed[request[r].group] = {} /\ id = "rest_consumer"
                 THEN DOMAIN log ELSE committed[request[r].group]]

ConsumerError(id, r) == consumer[id] # None /\ request[r].types \cap topics = {}

Unread(c) == {i \in DOMAIN log : log[i].type \in c.types /\ i \notin c.read \cup gone}
First(c) == CHOOSE i \in Unread(c) : \A j \in Unread(c) : i <= j

\* consumer.receive(): the next message, none in time, or an error.  A message that
\* is not one of readable is answered with EPERM, an error of the bus with failure.
Poll(id, r, readable, failure) ==
  LET c == ConsumerFor(id, r)
  IN  \/ /\ Unread(c) # {}
         /\ consumer' = [consumer EXCEPT ![id] = [c EXCEPT !.read = @ \cup {First(c)}]]
         /\ got' = [got EXCEPT ![r] = IF First(c) \in readable THEN First(c) ELSE None]
         /\ Answers(r, IF First(c) \in readable THEN 200 ELSE EPERM)
         /\ UNCHANGED faults
      \/ /\ consumer' = [consumer EXCEPT ![id] = c]
         /\ \/ Unread(c) = {} /\ Answers(r, 200) /\ UNCHANGED faults
            \/ Fails(TRUE) /\ Answers(r, failure)
         /\ UNCHANGED got

Gets(r, op) == up /\ answer[r] = None /\ request[r].op = op /\ UNCHANGED <<up, body>>

Receive(r) ==
  /\ Gets(r, "receive")
  /\ CASE "consumer_group" \notin request[r].keys ->
            Answers(r, HttpError("KeyError")) /\ UNCHANGED <<consumer, got, faults>>
       [] "consumer_group" \in request[r].keys /\ ConsumerError("rest_consumer", r) ->
            Answers(r, EINVAL) /\ UNCHANGED <<consumer, got, faults>>
       [] OTHER -> Poll("rest_consumer", r, DOMAIN log, ERR_OP_FAILED)
  /\ UNCHANGED <<context, producers, webhook, broker>>

\* What EventMessage.receive() cannot parse is read and gone.
Events(r) ==
  /\ Gets(r, "events")
  /\ CASE "component" \notin request[r].keys ->
            Answers(r, 500) /\ UNCHANGED <<consumer, got, faults>>
       [] "component" \in request[r].keys /\ ConsumerError("event_consumer", r) ->
            Answers(r, HttpError("MessageBusError")) /\ UNCHANGED <<consumer, got, faults>>
       [] OTHER -> Poll("event_consumer", r, {i \in DOMAIN log : request[log[i].by].op = "iem"},
                        HttpError("MessageBusError"))
  /\ UNCHANGED <<context, producers, webhook, broker>>

Step ==
  \/ Start \/ Stop
  \/ \E t \in Topics : Deregister(t) \/ Register(t)
  \/ \E id \in Consumers : AutoCommit(id)
  \/ \E r \in RequestIds :
       \/ Arrive(r) \/ IemSend(r) \/ BusSend(r) \/ AuditSend(r) \/ SendWebhookInfo(r)
       \/ Receive(r) \/ Events(r)

Next == Step /\ UNCHANGED request

Spec == Init /\ [][Next]_vars

-----------------------------------------------------------------------------
(* Properties                                                              *)

InLog(r) == {i \in DOMAIN log : log[i].by = r}

\* An answer says what has become of the request, whatever other requests the server
\* handled while its body was on the way.  After a 200 the messages are on the bus,
\* once each and in order, or were accepted by a webhook; after a status that blames
\* the request (22, 418) none of them is anywhere.  An event on the bus has the
\* component and the source of the request it came by, though all of them go
\* through one EventMessage (event_message.py lines 65-72).
AnswerTrue(r) ==
  /\ answer[r] = 200 /\ request[r].op \in {"iem", "send", "audit"} =>
       \/ r \in posted /\ InLog(r) = {}
       \/ /\ Cardinality(InLog(r)) = request[r].n
          /\ \A i, j \in InLog(r) : i < j => log[i].nr < log[j].nr
  /\ answer[r] \in {EINVAL, 418} => InLog(r) = {} /\ r \notin posted
  /\ request[r].op = "iem" =>
       \A i \in InLog(r) : log[i].component = request[r].component
                           /\ log[i].source = request[r].source

AnswersTrue == \A r \in RequestIds : AnswerTrue(r)

\* Why it holds: until a request is answered nothing of it is anywhere.
ContextInv == DOMAIN context = {"component", "source", "producer"}
RestInv ==
  /\ request \in Batches /\ answer = [r \in RequestIds |-> answer[r]]
  /\ Len(log) \in Nat /\ log = [i \in 1..Len(log) |-> log[i]]
  /\ \A r \in RequestIds :
       AnswerTrue(r) /\ (r \in body \/ answer[r] = None => InLog(r) = {} /\ r \notin posted)
=============================================================================

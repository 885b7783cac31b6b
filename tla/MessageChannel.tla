--------------------------- MODULE MessageChannel ---------------------------
(***************************************************************************)
(* The message path of KafkaMessageBroker: send() hands messages to the    *)
(* queue of the Kafka producer and waits for their delivery reports (sync) *)
(* or only serves the reports that have come in (async); receive() polls   *)
(* the consumer the process has under a consumer id, and ack() commits its *)
(* positions.  IEM and REST clients run over the same calls.               *)
(*                                                                         *)
(* Kafka (external) keeps a log per message type, of one partition, and    *)
(* per consumer group the committed offset and the consumer it assigned    *)
(* the partition to.                                                       *)
(***************************************************************************)
EXTENDS Naturals, Sequences, FiniteSets

CONSTANTS
  Sender, Receiver,  \* processes, each with its own broker object
  Type, Group,
  None,
  Request,           \* Request[r]: what r creates consumers for
  Offset,            \* "earliest" or "latest"
  Methods,           \* the send() methods in use
  MaxMsg, MaxList,   \* bounds on messages and on the length of a list sent
  MaxCrash,          \* bound on crashes
  MaxMoves           \* bound on partitions taken from live consumers

\* What a consumer is created for.
ConsumerOf == [types : SUBSET Type, group : Group, auto : BOOLEAN]

ASSUME ConstantsAssumption ==
  /\ None \notin Receiver /\ None \notin Type /\ None \notin Nat
  /\ None \notin ConsumerOf /\ None \notin [type : Type, at : Nat]
  /\ Request \in [Receiver -> SUBSET ConsumerOf]
  /\ Offset \in {"earliest", "latest"}
  /\ Methods \subseteq {"sync", "async"}
  /\ MaxMsg \in Nat /\ MaxList \in Nat /\ MaxCrash \in Nat /\ MaxMoves \in Nat

VARIABLES
  log,        \* log[t]: the messages of a type, by number
  made,       \* the number of the last message made
  queue,      \* queue[s]: messages the producer of s has not delivered yet
  undelivered,\* undelivered[s]: reports of failure that s has not served yet
  send,       \* send[s]: the send() s is in
  lists,      \* the lists sent with method "sync", as <<first, last>>
  sent,       \* messages of the sync send() calls that returned
  client,     \* client[r]: what the consumer of r was created for, or None
  request,    \* request[r]: what r asked for last, or None
  assigned,   \* assigned[g][t]: the receiver Kafka gave the partition to
  pos,        \* pos[r][t]: how many messages its consumer has read
  committed,  \* committed[g][t]: committed offset, None when there is none
  hand,       \* hand[r]: the message r received and has not handled, or None
  handled,    \* handled[g]: the messages consumers of the group handled
  crashes, moves

sending == <<made, queue, undelivered, send, lists, sent>>
receiving == <<client, request, assigned, pos, committed, hand, handled>>
faults == <<crashes, moves>>
vars == <<log, sending, receiving, faults>>

Msg == 1..MaxMsg
Logged == {m \in Msg : \E t \in Type : \E k \in 1..Len(log[t]) : log[t][k] = m}

NoSend == [step |-> "idle", method |-> "sync", type |-> None, first |-> 0,
           next |-> 0, last |-> 0]
Sending == [step : {"produce", "wait"}, method : {"sync", "async"}, type : Type,
            first : Msg, next : Msg, last : Msg]

TypeOK ==
  /\ log \in [Type -> Seq(Msg)]
  /\ made \in 0..MaxMsg
  /\ queue \in [Sender -> Seq(Type \X Msg)]
  /\ undelivered \in [Sender -> SUBSET Msg]
  /\ send \in [Sender -> Sending \cup {NoSend}]
  /\ \A s \in Sender : send[s].next <= send[s].last
  /\ lists \subseteq Msg \X Msg /\ sent \subseteq Msg
  /\ client \in [Receiver -> ConsumerOf \cup {None}]
  /\ request \in [Receiver -> ConsumerOf \cup {None}]
  /\ \A r \in Receiver : client[r] \in Request[r] \cup {None}
  /\ assigned \in [Group -> [Type -> Receiver \cup {None}]]
  /\ pos \in [Receiver -> [Type -> Nat]]
  /\ committed \in [Group -> [Type -> Nat \cup {None}]]
  /\ hand \in [Receiver -> [type : Type, at : Nat] \cup {None}]
  /\ handled \in [Group -> SUBSET [type : Type, at : Nat]]
  /\ crashes \in 0..MaxCrash /\ moves \in 0..MaxMoves

Init ==
  /\ log = [t \in Type |-> <<>>]
  /\ made = 0
  /\ queue = [s \in Sender |-> <<>>]
  /\ undelivered = [s \in Sender |-> {}]
  /\ send = [s \in Sender |-> NoSend]
  /\ lists = {} /\ sent = {}
  /\ client = [r \in Receiver |-> None]
  /\ request = [r \in Receiver |-> None]
  /\ assigned = [g \in Group |-> [t \in Type |-> None]]
  /\ pos = [r \in Receiver |-> [t \in Type |-> 0]]
  /\ committed = [g \in Group |-> [t \in Type |-> None]]
  /\ hand = [r \in Receiver |-> None]
  /\ handled = [g \in Group |-> {}]
  /\ crashes = 0 /\ moves = 0

-----------------------------------------------------------------------------
(* send()                                                                  *)

Send(s, t, method, n) ==
  /\ send[s].step = "idle" /\ made + n <= MaxMsg
  /\ made' = made + n
  /\ send' = [send EXCEPT ![s] = [step |-> "produce", method |-> method, type |-> t,
                                  first |-> made + 1, next |-> made + 1, last |-> made + n]]
  /\ lists' = IF method = "sync" THEN lists \cup {<<made + 1, made + n>>} ELSE lists
  /\ UNCHANGED <<log, queue, undelivered, sent, receiving, faults>>

\* produce() of the next message of the list.
Produce(s) ==
  /\ send[s].step = "produce"
  /\ queue' = [queue EXCEPT ![s] = Append(@, <<send[s].type, send[s].next>>)]
  /\ send' = [send EXCEPT ![s].step = "wait"]
  /\ UNCHANGED <<log, made, undelivered, lists, sent, receiving, faults>>

\* The end of a wait: an exception when a report of failure is served (the
\* others stay for the next wait), else the next message, else the return.
Served(s) ==
  LET c == send[s]
      ends == undelivered[s] # {} \/ c.next = c.last
  IN  /\ IF undelivered[s] = {} THEN UNCHANGED undelivered
         ELSE \E m \in undelivered[s] : undelivered' = [undelivered EXCEPT ![s] = @ \ {m}]
      /\ send' = [send EXCEPT ![s] =
                   IF ends THEN NoSend ELSE [c EXCEPT !.step = "produce", !.next = @ + 1]]
      /\ sent' = IF undelivered[s] = {} /\ ends /\ c.method = "sync"
                 THEN sent \cup (c.first..c.last) ELSE sent
      /\ UNCHANGED <<log, made, queue, lists, receiving, faults>>

\* Mutant of Flush: poll() in its place.
FlushPolls(s) ==
  /\ send[s].step = "wait" /\ send[s].method = "sync"
  /\ Served(s)

\* flush(): waits until the queue is empty or a report of failure is served.
Flush(s) ==
  /\ send[s].step = "wait" /\ send[s].method = "sync"
  /\ queue[s] = <<>> \/ undelivered[s] # {}
  /\ Served(s)

\* poll(): serves the reports there are, of earlier messages too.
PollReports(s) ==
  /\ send[s].step = "wait" /\ send[s].method = "async"
  /\ Served(s)

\* The producer's own thread delivers the queue in order, or gives up on a
\* message after message.timeout.ms.
Deliver(s) ==
  /\ queue[s] # <<>>
  /\ LET x == Head(queue[s])
     IN  log' = [log EXCEPT ![x[1]] = Append(@, x[2])]
  /\ queue' = [queue EXCEPT ![s] = Tail(@)]
  /\ UNCHANGED <<made, undelivered, send, lists, sent, receiving, faults>>

GiveUp(s) ==
  /\ queue[s] # <<>>
  /\ undelivered' = [undelivered EXCEPT ![s] = @ \cup {Head(queue[s])[2]}]
  /\ queue' = [queue EXCEPT ![s] = Tail(@)]
  /\ UNCHANGED <<log, made, send, lists, sent, receiving, faults>>

\* The process ends or dies; nothing flushes the queue.
SenderCrash(s) ==
  /\ crashes < MaxCrash
  /\ crashes' = crashes + 1
  /\ queue' = [queue EXCEPT ![s] = <<>>]
  /\ undelivered' = [undelivered EXCEPT ![s] = {}]
  /\ send' = [send EXCEPT ![s] = NoSend]
  /\ UNCHANGED <<log, made, lists, sent, receiving, moves>>

-----------------------------------------------------------------------------
(* init_client() of a consumer, receive() and ack()                        *)

\* A consumer id used before gets the client of then, whatever types and
\* group it is asked for now.
InitConsumer(r, q) ==
  /\ hand[r] = None /\ request[r] # q
  /\ request' = [request EXCEPT ![r] = q]
  /\ client' = [client EXCEPT ![r] = IF @ = None THEN q ELSE @]
  /\ UNCHANGED <<log, sending, assigned, pos, committed, hand, handled, faults>>

\* Mutant of Receive: the position skips a message.
ReceiveSkips(r, t) ==
  /\ client[r] # None /\ hand[r] = None
  /\ assigned[client[r].group][t] = r
  /\ pos[r][t] + 1 < Len(log[t])
  /\ hand' = [hand EXCEPT ![r] = [type |-> t, at |-> pos[r][t] + 1]]
  /\ pos' = [pos EXCEPT ![r][t] = @ + 2]
  /\ UNCHANGED <<log, sending, client, request, assigned, committed, handled, faults>>

\* The message at the position is returned; an empty poll changes nothing.
Receive(r, t) ==
  /\ client[r] # None /\ hand[r] = None
  /\ assigned[client[r].group][t] = r
  /\ pos[r][t] < Len(log[t])
  /\ hand' = [hand EXCEPT ![r] = [type |-> t, at |-> pos[r][t] + 1]]
  /\ pos' = [pos EXCEPT ![r][t] = @ + 1]
  /\ UNCHANGED <<log, sending, client, request, assigned, committed, handled, faults>>

\* What commit() commits: the position in every partition it holds.
Commit(r) ==
  LET g == client[r].group
  IN  committed' = [committed EXCEPT ![g] =
        [t \in Type |-> IF assigned[g][t] = r THEN pos[r][t] ELSE @[t]]]

\* Mutant of Handle: acknowledged first, handled only after that.
HandleAfterAck(r) ==
  /\ hand[r] # None
  /\ Commit(r)
  /\ IF committed' = committed
     THEN /\ handled' = [handled EXCEPT ![client[r].group] = @ \cup {hand[r]}]
          /\ hand' = [hand EXCEPT ![r] = None]
     ELSE UNCHANGED <<handled, hand>>
  /\ UNCHANGED <<log, sending, client, request, assigned, pos, faults>>

\* The caller handles the message; without auto_ack it then calls ack().
Handle(r) ==
  LET g == client[r].group
  IN  /\ hand[r] # None
      /\ handled' = [handled EXCEPT ![g] = @ \cup {hand[r]}]
      /\ hand' = [hand EXCEPT ![r] = None]
      /\ IF client[r].auto THEN UNCHANGED committed ELSE Commit(r)
      /\ UNCHANGED <<log, sending, client, request, assigned, pos, faults>>

\* enable.auto.commit: from time to time the positions are committed.
AutoCommit(r) ==
  /\ client[r] # None /\ client[r].auto
  /\ Commit(r)
  /\ UNCHANGED <<log, sending, client, request, assigned, pos, hand, handled, faults>>

\* Mutant of Start: the offset configuration is not passed on.
StartAtEnd(g, t) ==
  IF committed[g][t] # None THEN committed[g][t] ELSE Len(log[t])

\* Where a consumer goes on: at the committed offset, or where
\* auto.offset.reset says.
Start(g, t) ==
  IF committed[g][t] # None THEN committed[g][t]
  ELSE IF Offset = "earliest" THEN 0 ELSE Len(log[t])

\* Kafka gives a partition to a subscribed consumer of the group.
Assign(g, t, r) ==
  /\ assigned[g][t] = None
  /\ client[r] # None /\ client[r].group = g /\ t \in client[r].types
  /\ assigned' = [assigned EXCEPT ![g][t] = r]
  /\ pos' = [pos EXCEPT ![r][t] = Start(g, t)]
  /\ UNCHANGED <<log, sending, client, request, committed, hand, handled, faults>>

\* Kafka rebalances the group and takes a partition from a live consumer.
Revoke(g, t) ==
  /\ moves < MaxMoves /\ assigned[g][t] # None
  /\ moves' = moves + 1
  /\ assigned' = [assigned EXCEPT ![g][t] = None]
  /\ UNCHANGED <<log, sending, client, request, pos, committed, hand, handled, crashes>>

\* The process dies with its consumer, and Kafka takes its partitions back.
ReceiverCrash(r) ==
  /\ crashes < MaxCrash
  /\ crashes' = crashes + 1
  /\ client' = [client EXCEPT ![r] = None]
  /\ request' = [request EXCEPT ![r] = None]
  /\ hand' = [hand EXCEPT ![r] = None]
  /\ assigned' = [g \in Group |-> [t \in Type |->
                   IF assigned[g][t] = r THEN None ELSE assigned[g][t]]]
  /\ UNCHANGED <<log, sending, pos, committed, handled, moves>>

Next ==
  \/ \E s \in Sender :
       \/ \E t \in Type, method \in Methods, n \in 1..MaxList : Send(s, t, method, n)
       \/ Produce(s) \/ Flush(s) \/ PollReports(s)
       \/ Deliver(s) \/ GiveUp(s) \/ SenderCrash(s)
  \/ \E r \in Receiver :
       \/ \E q \in Request[r] : InitConsumer(r, q)
       \/ \E t \in Type : Receive(r, t) \/ \E g \in Group : Assign(g, t, r)
       \/ Handle(r) \/ AutoCommit(r) \/ ReceiverCrash(r)
  \/ \E g \in Group, t \in Type : Revoke(g, t)

\* Callers finish what they began and go on receiving; Kafka assigns.
Fairness ==
  /\ \A r \in Receiver :
       /\ WF_vars(\E q \in Request[r] : client[r] = None /\ InitConsumer(r, q))
       /\ WF_vars(Handle(r))
       /\ \A t \in Type : WF_vars(Receive(r, t))
  /\ \A g \in Group, t \in Type : WF_vars(\E r \in Receiver : Assign(g, t, r))

Spec == Init /\ [][Next]_vars
FairSpec == Spec /\ Fairness

-----------------------------------------------------------------------------
(* Properties                                                              *)

\* When a sync send() has returned, Kafka has every message of its list, and
\* whether it returned, raised or died, what Kafka has of the list is a prefix:
\* the caller may send the rest again (flush() in the loop, lines 342-348).
SyncSendDurable ==
  /\ sent \subseteq Logged
  /\ \A l \in lists : \A i, j \in l[1]..l[2] : i < j /\ j \in Logged => i \in Logged

\* The groups whose consumers are all created with auto_ack off.
Manual == {g \in Group : \A r \in Receiver : \A q \in Request[r] : q.group = g => ~q.auto}

\* With manual acknowledgement an offset is committed only when the group has
\* handled every message before it, however receivers die and take over.
AckedIsHandled ==
  \A g \in Manual, t \in Type : committed[g][t] # None =>
    \A k \in 1..committed[g][t] : [type |-> t, at |-> k] \in handled[g]

\* A consumer of the group has received x and not handled it yet.
Held(g, x) == \E r \in Receiver : client[r] # None /\ client[r].group = g /\ hand[r] = x

\* With auto_ack, and IEM is received so, a crash loses at most the message that
\* was received and not handled yet: one for each crash, and none without.
AtMostOneLostPerCrash ==
  \A g \in Group :
    LET skipped == {x \in [type : Type, at : Msg] :
                      /\ committed[g][x.type] # None /\ x.at <= committed[g][x.type]
                      /\ x \notin handled[g] /\ ~Held(g, x)}
    IN  Cardinality(skipped) <= crashes

\* receive() returns messages of the types the consumer was created for
\* (message_types, message_bus_client.py lines 189-190).
ReceivesRequested ==
  \A r \in Receiver : hand[r] # None => hand[r].type \in request[r].types

\* Every message Kafka has is handled in the end by a group with manual
\* acknowledgement, though receivers die and partitions move in between.
AllHandled ==
  \A g \in Manual, t \in Type, k \in Msg :
    (Len(log[t]) >= k) ~> ([type |-> t, at |-> k] \in handled[g])

-----------------------------------------------------------------------------
(* The inductive invariants of MessageChannelProofs.                       *)

Pending(s) == {m \in Msg : \E k \in 1..Len(queue[s]) : queue[s][k][2] = m}

\* The lists are numbered apart, and a message of a list is handed to the
\* producer when Kafka has the ones before it.
ListsApart ==
  /\ \A m \in Logged : m <= made
  /\ \A s \in Sender : \A m \in Pending(s) : m <= made
  /\ \A l \in lists : l[2] <= made
  /\ \A s \in Sender : send[s].step # "idle" =>
       LET c == send[s]
       IN  /\ 1 <= c.first /\ c.first <= c.next /\ c.next <= c.last /\ c.last <= made
           /\ \A l \in lists : \/ l[2] < c.first \/ l[1] > c.last
                               \/ c.method = "sync" /\ l = <<c.first, c.last>>

InOrder ==
  \A l \in lists : \A i, j \in l[1]..l[2] :
    i < j /\ (j \in Logged \/ \E s \in Sender : j \in Pending(s)) => i \in Logged

\* Where the messages are of the list that a sync send() is in.
SyncUnderway ==
  \A s \in Sender : send[s].step # "idle" /\ send[s].method = "sync" =>
    /\ send[s].first..(send[s].next - 1) \subseteq Logged
    /\ send[s].step = "wait" =>
         send[s].next \in Logged \cup Pending(s) \cup undelivered[s]

SendInv == ListsApart /\ InOrder /\ SyncUnderway /\ sent \subseteq Logged

\* Messages are held by, and partitions assigned to, consumers of the group.
Membership ==
  /\ \A r \in Receiver : hand[r] # None => client[r] # None
  /\ \A g \in Group, t \in Type : assigned[g][t] # None =>
       client[assigned[g][t]] # None /\ client[assigned[g][t]].group = g

\* The group has read x: its next consumer, or the present one, goes on after it.
Passed(g, x) ==
  \/ committed[g][x.type] # None /\ x.at <= committed[g][x.type]
  \/ assigned[g][x.type] # None /\ x.at <= pos[assigned[g][x.type]][x.type]

\* What consumers go past is handled, or held by the consumer that is there.
ReadIsHandled ==
  \A g \in Manual, t \in Type : assigned[g][t] # None =>
    \A k \in 1..pos[assigned[g][t]][t] :
      [type |-> t, at |-> k] \in handled[g] \cup {hand[assigned[g][t]]}

Gap(g) == {x \in [type : Type, at : Msg] :
             Passed(g, x) /\ x \notin handled[g] /\ ~Held(g, x)}

GapBounded == \A g \in Group : IsFiniteSet(Gap(g)) /\ Cardinality(Gap(g)) <= crashes
=============================================================================

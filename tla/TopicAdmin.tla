---------------------------- MODULE TopicAdmin ----------------------------
(***************************************************************************)
(* The administration of message types by KafkaMessageBroker: registering, *)
(* deregistering and widening them, setting their expiry, and delete(),    *)
(* which empties a message type by setting its retention to a millisecond, *)
(* sleeping, and setting it back.                                          *)
(*                                                                         *)
(* A process has one broker object, whose _resource and _saved_retention   *)
(* every producer of the process overwrites, and threads that share it.    *)
(* Kafka (external) applies admin requests at once and shows them in its   *)
(* metadata later; it drops messages that are older than the retention.    *)
(***************************************************************************)
EXTENDS Naturals

CONSTANTS
  Thread,        \* callers
  Process, Home, \* Home[th]: the process, and so the broker object, of a thread
  Topic, ClientId,
  None,
  Default,       \* _default_msg_retention_period
  Expiries,      \* values passed to set_message_type_expire()
  MaxTries,      \* _max_config_retry_count
  MaxPolls,      \* _max_list_message_type_count + 1
  MaxParts,      \* bound on the number of partitions
  MaxFaults,     \* bound on failing admin requests and dying processes
  KnownTypes     \* TRUE: producers are created for registered types only

Min == 1         \* _min_msg_retention_period

ASSUME ConstantsAssumption ==
  /\ Home \in [Thread -> Process]
  /\ None \notin Topic /\ None \notin Nat
  /\ Default \in Nat \ {Min} /\ Expiries \subseteq Nat \ {Min}
  /\ MaxTries \in Nat \ {0} /\ MaxPolls \in Nat \ {0} /\ MaxParts \in Nat \ {0}
  /\ MaxFaults \in Nat /\ KnownTypes \in BOOLEAN

VARIABLES
  retention,   \* retention[t]: retention.ms of a topic, None when there is none
  parts,       \* parts[t]: its partitions, 0 when there is none
  shown,       \* shown[t]: the partitions list_topics() shows
  producers,   \* producers[pr]: the ids in _clients['producer']
  held,        \* held[pr]: the types it has MessageProducer objects for
  resource,    \* resource[pr]: the topic of _resource
  saved,       \* saved[pr]: _saved_retention, None until it is first assigned
  call,        \* call[th]: the call th is in
  faults       \* how many requests failed and processes died so far

vars == <<retention, parts, shown, producers, held, resource, saved, call, faults>>

kafka == <<retention, parts, shown>>
broker == <<producers, held, resource, saved>>

Idle == [op |-> "idle", topic |-> None, n |-> 0, tries |-> 0]

\* op is what the call does next: poll for a topic to appear, to vanish or to
\* have n partitions; set its retention to n; the two halves of delete().
Polls == {"register", "deregister", "widen"}
Alters == {"expire", "shrink", "restore"}

TypeOK ==
  /\ retention \in [Topic -> Nat \cup {None}]
  /\ parts \in [Topic -> 0..MaxParts] /\ shown \in [Topic -> 0..MaxParts]
  /\ producers \in [Process -> SUBSET ClientId]
  /\ held \in [Process -> SUBSET Topic]
  /\ resource \in [Process -> Topic \cup {None}]
  /\ saved \in [Process -> Nat \cup {None}]
  /\ call \in [Thread -> [op : {"idle"} \cup Polls \cup Alters,
                         topic : Topic \cup {None}, n : Nat, tries : Nat]]
  /\ faults \in 0..MaxFaults

Init ==
  /\ retention = [t \in Topic |-> None]
  /\ parts = [t \in Topic |-> 0] /\ shown = [t \in Topic |-> 0]
  /\ producers = [pr \in Process |-> {}]
  /\ held = [pr \in Process |-> {}]
  /\ resource = [pr \in Process |-> None]
  /\ saved = [pr \in Process |-> None]
  /\ call = [th \in Thread |-> Idle]
  /\ faults = 0

Enter(th, op, t, n) ==
  /\ call[th].op = "idle"
  /\ call' = [call EXCEPT ![th] = [op |-> op, topic |-> t, n |-> n, tries |-> 0]]

Return(th) == call' = [call EXCEPT ![th] = Idle]

\* Another try of what the call does, and an exception after the last one.
Retry(th, max) ==
  IF call[th].tries + 1 >= max
  THEN Return(th)
  ELSE call' = [call EXCEPT ![th].tries = @ + 1]

-----------------------------------------------------------------------------
(* init_client() of a producer                                             *)

\* Mutant of Retained: the retention is taken as it is read.
RetainedAsRead(r) == r

\* The retention to go back to: one that delete() left at its minimum counts
\* as the default.
Retained(r) == IF r = Min THEN Default ELSE r

\* The client and _resource are assigned before describe_configs(), which raises
\* for a message type that is not registered, and may fail for any: the retention
\* of another topic, or none at all, then stays saved.
InitProducer(th, id, t, answered) ==
  LET pr == Home[th]
  IN  /\ call[th].op = "idle"
      /\ id \notin producers[pr]
      /\ KnownTypes => retention[t] # None
      /\ answered => retention[t] # None
      /\ producers' = [producers EXCEPT ![pr] = @ \cup {id}]
      /\ resource' = [resource EXCEPT ![pr] = t]
      /\ IF answered
         THEN /\ held' = [held EXCEPT ![pr] = @ \cup {t}]
              /\ saved' = [saved EXCEPT ![pr] = Retained(retention[t])]
         ELSE UNCHANGED <<held, saved>>
      /\ IF answered \/ retention[t] = None
         THEN UNCHANGED faults
         ELSE faults < MaxFaults /\ faults' = faults + 1
      /\ UNCHANGED <<kafka, call>>

\* An id used before gets the client of then, if the type is listed.
ReuseProducer(th, t) ==
  LET pr == Home[th]
  IN  /\ call[th].op = "idle"
      /\ producers[pr] # {} /\ shown[t] > 0
      /\ held' = [held EXCEPT ![pr] = @ \cup {t}]
      /\ UNCHANGED <<kafka, producers, resource, saved, call>>

-----------------------------------------------------------------------------
(* register_message_type(), deregister_message_type(), add_concurrency():  *)
(* a request that Kafka accepts, and then polling until it is shown.       *)

Register(th, t, n) ==
  /\ retention[t] = None
  /\ retention' = [retention EXCEPT ![t] = Default]
  /\ parts' = [parts EXCEPT ![t] = n]
  /\ Enter(th, "register", t, n)
  /\ UNCHANGED <<shown, broker>>

Deregister(th, t) ==
  /\ retention[t] # None
  /\ retention' = [retention EXCEPT ![t] = None]
  /\ parts' = [parts EXCEPT ![t] = 0]
  /\ Enter(th, "deregister", t, 0)
  /\ UNCHANGED <<shown, broker>>

\* The count is the new total, and Kafka takes a larger one only.
AddConcurrency(th, t, n) ==
  /\ retention[t] # None /\ n > parts[t]
  /\ parts' = [parts EXCEPT ![t] = n]
  /\ Enter(th, "widen", t, n)
  /\ UNCHANGED <<retention, shown, broker>>

\* What list_topics() has to show for the call to return.
Arrived(th) ==
  LET c == call[th]
  IN  CASE c.op = "register" -> shown[c.topic] > 0
        [] c.op = "deregister" -> shown[c.topic] = 0
        [] c.op = "widen" -> shown[c.topic] = c.n

\* One poll: the call returns, sleeps and polls again, or times out.  A topic
\* to be widened that is not shown at all is a KeyError.
Poll(th) ==
  /\ call[th].op \in Polls
  /\ \/ Arrived(th) /\ Return(th)
     \/ call[th].op = "widen" /\ shown[call[th].topic] = 0 /\ Return(th)
     \/ /\ ~Arrived(th)
        /\ call[th].op = "widen" => shown[call[th].topic] > 0
        /\ Retry(th, MaxPolls)
  /\ UNCHANGED <<kafka, broker>>

-----------------------------------------------------------------------------
(* set_message_type_expire() and delete()                                  *)

\* set_message_type_expire() checks that the type is listed.
SetExpire(th, t, r) ==
  /\ shown[t] > 0
  /\ Enter(th, "expire", t, r)
  /\ UNCHANGED <<kafka, broker>>

\* alter_configs() of topic t, which raises when it is gone, and the call is
\* then at next.
Alter(th, t, r, next) ==
  IF retention[t] = None
  THEN Return(th) /\ UNCHANGED retention
  ELSE /\ retention' = [retention EXCEPT ![t] = r]
       /\ call' = [call EXCEPT ![th] = next]

Expire(th) ==
  /\ call[th].op = "expire"
  /\ Alter(th, call[th].topic, call[th].n, Idle)
  /\ UNCHANGED <<parts, shown, broker>>

DeleteMessages(th, t) ==
  /\ t \in held[Home[th]]
  /\ Enter(th, "shrink", t, 0)
  /\ UNCHANGED <<kafka, broker>>

\* Both halves alter the topic of the broker object's _resource, whatever
\* message type delete() was called for.
Shrink(th) ==
  /\ call[th].op = "shrink"
  /\ Alter(th, resource[Home[th]], Min,
           [op |-> "restore", topic |-> call[th].topic, n |-> 0, tries |-> 0])
  /\ UNCHANGED <<parts, shown, broker>>

\* Mutant of Restore: the minimum is left in place.
RestoreSkipped(th) ==
  /\ call[th].op = "restore"
  /\ Return(th)
  /\ UNCHANGED <<kafka, broker>>

\* The second half raises when _saved_retention was never assigned.
Restore(th) ==
  LET pr == Home[th]
  IN  /\ call[th].op = "restore"
      /\ IF saved[pr] = None
         THEN Return(th) /\ UNCHANGED retention
         ELSE Alter(th, resource[pr], saved[pr], Idle)
      /\ UNCHANGED <<parts, shown, broker>>

\* alter_configs() is answered with an error that the loop retries, or, as
\* any request of a call may, raises.
RequestFails(th) ==
  /\ call[th].op # "idle" /\ faults < MaxFaults
  /\ faults' = faults + 1
  /\ Return(th) \/ (call[th].op \in Alters /\ Retry(th, MaxTries))
  /\ UNCHANGED <<kafka, broker>>

-----------------------------------------------------------------------------
(* Kafka's metadata, and the death of a process                            *)

Show(t) ==
  /\ shown[t] # parts[t]
  /\ shown' = [shown EXCEPT ![t] = parts[t]]
  /\ UNCHANGED <<retention, parts, broker, call>>

Crash(pr) ==
  /\ faults < MaxFaults
  /\ faults' = faults + 1
  /\ producers' = [producers EXCEPT ![pr] = {}]
  /\ held' = [held EXCEPT ![pr] = {}]
  /\ resource' = [resource EXCEPT ![pr] = None]
  /\ saved' = [saved EXCEPT ![pr] = None]
  /\ call' = [th \in Thread |-> IF Home[th] = pr THEN Idle ELSE call[th]]
  /\ UNCHANGED kafka

Call(th) ==
  \/ \E t \in Topic :
       \/ ReuseProducer(th, t)
       \/ \E n \in 1..MaxParts : Register(th, t, n) \/ AddConcurrency(th, t, n)
       \/ Deregister(th, t)
       \/ \E r \in Expiries : SetExpire(th, t, r)
       \/ DeleteMessages(th, t)
  \/ Poll(th) \/ Expire(th) \/ Shrink(th) \/ Restore(th)

Next ==
  \/ UNCHANGED faults /\ \E th \in Thread : Call(th)
  \/ UNCHANGED faults /\ \E t \in Topic : Show(t)
  \/ \E th \in Thread, id \in ClientId, t \in Topic, answered \in BOOLEAN :
       InitProducer(th, id, t, answered)
  \/ \E th \in Thread : RequestFails(th)
  \/ \E pr \in Process : Crash(pr)

Spec == Init /\ [][Next]_vars

-----------------------------------------------------------------------------
(* Properties                                                              *)

\* As long as nothing failed, a topic has the minimal retention, at which Kafka
\* drops every message, only while a delete() that will set it back is under way
\* ("Sleep for a second to delete the messages", line 381).
RestoredAfterDelete ==
  faults = 0 =>
    \A t \in Topic : retention[t] = Min =>
      \E th \in Thread : call[th].op = "restore" /\ resource[Home[th]] = t

\* Whatever failed before, in this or another process: a delete() that returns
\* leaves its topic with a retention at which messages are kept (lines 134-137).
\* One of a client whose describe_configs() failed may have no retention to set:
\* it raises at line 385, a second after it has set the minimum.
EndsRestored ==
  [][\A th \in Thread : Restore(th) /\ saved[Home[th]] # None =>
       \A t \in Topic : retention'[t] = Min => retention[t] = Min /\ t # resource[Home[th]]]_vars

\* delete() alters no message type but the one it is called for ("Deletes all
\* the messages of given message_type", line 353).
DeletesGivenType ==
  [][\A th \in Thread : Shrink(th) \/ Restore(th) =>
       \A t \in Topic \ {call[th].topic} : retention'[t] = retention[t]]_vars

-----------------------------------------------------------------------------
(* The conditions and the inductive invariant of TopicAdminProofs.         *)

\* One thread per process, and producers of registered types only.
Orderly ==
  /\ \A a, b \in Thread : Home[a] = Home[b] => a = b
  /\ KnownTypes

\* No process has saved the minimum, even when it read the retention during the
\* delete() of another process; one with producers has a topic, and, as long as
\* no request failed, a retention to go back to.
SavedIsUsable ==
  \A pr \in Process :
    /\ saved[pr] # Min
    /\ held[pr] # {} => producers[pr] # {}
    /\ producers[pr] # {} => resource[pr] # None
    /\ faults = 0 /\ resource[pr] # None => saved[pr] # None

\* A delete() under way has a topic to alter, and no expiry is the minimum.
CallsAreSound ==
  \A th \in Thread :
    /\ call[th].op \in {"shrink", "restore"} => resource[Home[th]] # None
    /\ call[th].op = "expire" => call[th].n # Min

\* What holds between any two steps of producers, delete() and the expiry
\* calls: the retention a process goes back to was read before or after, but
\* never taken from, the window of a delete() (lines 131-137).
RestoreInv == RestoredAfterDelete /\ SavedIsUsable /\ CallsAreSound
=============================================================================

----------------------------- MODULE KafkaSetup -----------------------------
(***************************************************************************)
(* The phases of kafka_setup on a node of a cluster: config writes the     *)
(* properties files of the broker and of zookeeper from the list of the    *)
(* servers, init starts both, reset deletes data, cleanup puts the shipped *)
(* properties back.  A file is rewritten in place once for each key.  A    *)
(* phase may raise or be killed anywhere, within a rewrite too, and any    *)
(* phase may follow any other.                                             *)
(***************************************************************************)
EXTENDS Naturals, Sequences

CONSTANTS
  Host,         \* the name of the node: nodes share nothing, one is modelled
  Lists,        \* the lists of servers that a phase may be given
  Cuts,         \* for each file, the sets of keys that a rewrite which is cut short
                \* may not have got to
  MaxPhases,    \* bound on the phases run
  None

VARIABLES
  conf,         \* the two files, None for a key that is not there
  myid,         \* the content of the file of this name, or None
  started,      \* the broker that runs: its id, and the list configured
  call,         \* the phase under way: its step, its list, and the keys
                \* that the step has not yet rewritten the file for
  tried,        \* the lists config was given since the last cleanup
  state,        \* the phase that completed last, with its list
  phases

vars == <<conf, myid, started, call, tried, state, phases>>

\* One key stands for those that config sets, and cleanup treats, alike:
\* zookeeper.connect also for log.dirs and log.retention.check.interval.ms,
\* listeners for the two more that are deleted, min.isr for the three factors of
\* the internal topics, tickTime for all but dataDir, clientPort and the peers.
Peer(i) == <<"server", i>>
Longest == CHOOSE k \in {Len(l) : l \in Lists} : \A l \in Lists : Len(l) <= k
Peers == {Peer(i) : i \in 1..Longest}
Defaults == {"broker.id", "zookeeper.connect", "min.isr"}
Extra == {"listeners", "default.replication.factor"}

Shipped ==
  [server |-> [k \in Defaults \cup Extra |->
     CASE k = "broker.id" -> 0
       [] k = "zookeeper.connect" -> <<"localhost">>
       [] k = "min.isr" -> 1
       [] OTHER -> None],
   zoo |-> [k \in {<<"dataDir">>, <<"tickTime">>} \cup Peers |->
              IF k = <<"dataDir">> THEN "/tmp" ELSE None]]

Idle == [step |-> "idle", list |-> <<>>, todo |-> {}]

Init ==
  /\ conf = Shipped
  /\ myid = None
  /\ started = None
  /\ call = Idle
  /\ tried = {}
  /\ state = [phase |-> "cleanup", list |-> <<>>]
  /\ phases = 0

Place(list) == CHOOSE i \in 1..Len(list) : list[i] = Host
Member(list) == \E i \in 1..Len(list) : list[i] = Host

-----------------------------------------------------------------------------
(* What the steps of config and cleanup write: two to each file.           *)

File(step) == IF step \in {"server", "default", "delete"} THEN "server" ELSE "zoo"

ServerProperties(list) ==
  [k \in {"broker.id", "zookeeper.connect", "listeners"}
         \cup (IF Len(list) > 1 THEN {"default.replication.factor", "min.isr"} ELSE {})
   |-> CASE k = "broker.id" -> Place(list) - 1
         [] k = "zookeeper.connect" -> list
         [] k = "listeners" -> Host
         [] k = "default.replication.factor" -> 3
         [] k = "min.isr" -> 2]

\* server.1, server.2 and so on: the entries of a longer list stay.
ZooProperties(list) ==
  [k \in {<<"dataDir">>, <<"tickTime">>} \cup {Peer(i) : i \in 1..Len(list)} |->
     CASE k = <<"dataDir">> -> "/var"
       [] k = <<"tickTime">> -> 2000
       [] OTHER -> list[k[2]]]

\* What an update gives the keys, and the keys that a deletion names.
Update(step, list) ==
  CASE step = "server" -> ServerProperties(list)
    [] step = "zoo" -> ZooProperties(list)
    [] step = "default" -> [k \in Defaults |-> Shipped.server[k]]
    [] step = "defaultZoo" -> [k \in {<<"dataDir">>} |-> "/tmp"]
    [] OTHER -> <<>>
Deletion(step) ==
  CASE step = "delete" -> Extra [] step = "deleteZoo" -> {<<"tickTime">>} [] OTHER -> {}

-----------------------------------------------------------------------------
(* _update_properties_file() and _delete_properties_from_file()            *)

At(step) == call.step = step

Goto(step) ==
  call' = [step |-> step, list |-> call.list,
           todo |-> DOMAIN Update(step, call.list) \cup Deletion(step)]

Done(phase) ==
  /\ state' = [phase |-> phase, list |-> call.list]
  /\ call' = Idle

\* The file rewritten for key k: an update changes the line, if it is there; a
\* deletion drops it, and every line that begins with server. (zookeeper's).
Rewritten(k, prefixed) ==
  LET step == call.step  file == conf[File(step)] IN
  [j \in DOMAIN file |->
     IF step \in {"delete", "deleteZoo"}
     THEN IF j = k \/ (step = "deleteZoo" /\ j \in prefixed) THEN None ELSE file[j]
     ELSE IF j = k /\ file[k] # None THEN Update(step, call.list)[k] ELSE file[j]]

\* The dictionary has an order of its own.
NextKey(keys) == CHOOSE k \in keys : TRUE

RewriteWith(prefixed) ==
  LET k == NextKey(call.todo) IN
  /\ call.todo # {}
  /\ conf' = [conf EXCEPT ![File(call.step)] = Rewritten(k, prefixed)]
  /\ call' = [call EXCEPT !.todo = @ \ {k}]
  /\ UNCHANGED <<myid, started, tried, state, phases>>

RewriteKeysOnly == RewriteWith({})
Rewrite == RewriteWith(Peers)

\* An update appends the keys that it has not found.
Appended ==
  LET new == Update(call.step, call.list)  file == conf[File(call.step)] IN
  [k \in DOMAIN file |-> IF k \in DOMAIN new /\ file[k] = None THEN new[k] ELSE file[k]]

FinishFile ==
  LET step == call.step IN
  /\ step \in {"server", "zoo", "default", "delete", "defaultZoo", "deleteZoo"}
  /\ call.todo = {}
  /\ conf' = [conf EXCEPT ![File(step)] = Appended]
  /\ \/ /\ step \in {"server", "default", "delete", "defaultZoo"}
        /\ Goto(CASE step = "server" -> "zoo"
                     [] step = "default" -> "delete"
                     [] step = "delete" -> "defaultZoo"
                     [] step = "defaultZoo" -> "deleteZoo")
        /\ UNCHANGED <<tried, state>>
     \/ step = "zoo" /\ Done("config") /\ UNCHANGED tried
     \/ step = "deleteZoo" /\ Done("cleanup") /\ tried' = {}
  /\ UNCHANGED <<myid, started, phases>>

-----------------------------------------------------------------------------
(* config(): on a server of the list, and nothing on other nodes.          *)

Enter(step, list) ==
  /\ call = Idle /\ phases < MaxPhases
  /\ phases' = phases + 1
  /\ call' = [step |-> step, list |-> list, todo |-> DOMAIN Update(step, list)]

Config(list) ==
  /\ Member(list)
  /\ Enter("myid", list)
  /\ tried' = tried \cup {list}
  /\ state' = [phase |-> "none", list |-> <<>>]
  /\ UNCHANGED <<conf, myid, started>>

\* _validate_kafka_installation() raises before anything is written.
ValidateFails(list) ==
  /\ Member(list) /\ call = Idle /\ phases < MaxPhases
  /\ phases' = phases + 1
  /\ UNCHANGED <<conf, myid, started, call, tried, state>>

\* The place in the list, for a cluster only.
WriteMyid ==
  /\ At("myid")
  /\ myid' = IF Len(call.list) > 1 THEN Place(call.list) ELSE myid
  /\ Goto("server")
  /\ UNCHANGED <<conf, started, tried, state, phases>>

-----------------------------------------------------------------------------
(* init(): zookeeper is restarted, answers or not within 101 attempts, and *)
(* then the broker is.                                                     *)

StartZookeeper(list) ==
  /\ Member(list)
  /\ Enter("kafka", list)
  /\ UNCHANGED <<conf, myid, started, tried, state>>

StartKafka ==
  /\ At("kafka")
  /\ started' = [id |-> conf.server["broker.id"],
                 list |-> IF state.phase = "config" THEN state.list ELSE <<>>]
  /\ call' = Idle
  /\ UNCHANGED <<conf, myid, tried, state, phases>>

-----------------------------------------------------------------------------
\* reset(): the files in the data directories, myid too.
Reset ==
  /\ Enter("idle", <<>>)
  /\ myid' = None
  /\ state' = [phase |-> "none", list |-> <<>>]
  /\ UNCHANGED <<conf, started, tried>>

Cleanup ==
  /\ Enter("default", <<>>)
  /\ state' = [phase |-> "none", list |-> <<>>]
  /\ UNCHANGED <<conf, myid, started, tried>>

\* A phase raises or is killed.  A file that is rewritten in place then has the
\* lines up to some point: what comes after it is lost.  myid may be empty.
Fail ==
  /\ call # Idle
  /\ call' = Idle
  /\ \/ UNCHANGED <<conf, myid>>
     \/ /\ At("myid") /\ Len(call.list) > 1
        /\ myid' = "" /\ UNCHANGED conf
     \/ /\ call.todo # {}
        /\ \E lost \in Cuts[File(call.step)] :
             conf' = [conf EXCEPT ![File(call.step)] =
               [k \in DOMAIN @ |-> IF k \in lost THEN None
                                   ELSE Rewritten(NextKey(call.todo), Peers)[k]]]
        /\ UNCHANGED myid
  /\ UNCHANGED <<started, tried, state, phases>>

Next ==
  \/ \E list \in Lists : Config(list) \/ ValidateFails(list) \/ StartZookeeper(list)
  \/ WriteMyid \/ Rewrite \/ FinishFile \/ StartKafka
  \/ Reset \/ Cleanup \/ Fail

Spec == Init /\ [][Next]_vars

-----------------------------------------------------------------------------
(* Properties.                                                             *)

Configured(list) ==
  /\ state = [phase |-> "config", list |-> list]
  /\ \A other \in tried : Len(other) <= Len(list)

\* What a node that is configured says about the cluster.
SaysOf(list) ==
  /\ conf.server["zookeeper.connect"] = list
  /\ list[conf.server["broker.id"] + 1] = Host
  /\ \A i \in 1..Longest : conf.zoo[Peer(i)] = (IF i <= Len(list) THEN list[i] ELSE None)
  /\ Len(list) > 1 => myid = conf.server["broker.id"] + 1

(* Whatever attempts were made before, and however far they got, a rewrite *)
(* cut short included: a node on which config completed names the servers  *)
(* of its list and itself as the list does, if no longer list was tried    *)
(* since the last cleanup; a broker that was started on a list has the id  *)
(* of its place there, which no other has; and a cleanup that completed    *)
(* put every key that phases write back to what was shipped.  (Nothing     *)
(* puts back the other lines that a rewrite cut short has lost.)           *)
SetupConsistent ==
  /\ \A list \in Lists : Configured(list) => SaysOf(list)
  /\ started # None /\ started.list # <<>> => started.list[started.id + 1] = Host
  /\ state.phase = "cleanup" => conf = Shipped

-----------------------------------------------------------------------------
(* Why it holds: config and cleanup take the node out of its state         *)
(* before they write; a key that a step has done with has its new value or *)
(* is not there, and is then appended; and each step finds what the        *)
(* earlier ones wrote.                                                     *)

ServerWritten(list) ==
  /\ conf.server["zookeeper.connect"] = list
  /\ conf.server["broker.id"] = Place(list) - 1
MyidWritten(list) == Len(list) > 1 => myid = Place(list)

\* The list of a config that is under way or completed.
Given(list) == list \in tried /\ Member(list)

FilesInv ==
  /\ conf = [server |-> conf.server, zoo |-> conf.zoo]
  /\ conf.server = [k \in Defaults \cup Extra |-> conf.server[k]]
  /\ conf.zoo = [k \in {<<"dataDir">>, <<"tickTime">>} \cup Peers |-> conf.zoo[k]]
  /\ tried \subseteq Lists
  /\ \A i \in 1..Longest : conf.zoo[Peer(i)] # None => \E list \in tried : i <= Len(list)

\* How far the step has got with its file.
EditInv(step, list, todo) ==
  LET new == Update(step, list)  file == conf[File(step)] IN
  /\ todo \subseteq DOMAIN new \cup Deletion(step)
  /\ \A k \in DOMAIN new \ todo : file[k] \in {None, new[k]}
  /\ \A k \in Deletion(step) \ todo : file[k] = None
  /\ step = "deleteZoo" /\ todo = {} => \A k \in Peers : file[k] = None

CallInv ==
  LET step == call.step  list == call.list  todo == call.todo
  IN  /\ call = [step |-> step, list |-> list, todo |-> todo]
      /\ step \in {"idle", "kafka", "myid", "server", "zoo",
                   "default", "delete", "defaultZoo", "deleteZoo"}
      /\ EditInv(step, list, todo)
      /\ step \notin {"idle", "kafka"} => state.phase = "none"
      /\ step \in {"myid", "server", "zoo"} => Given(list)
      /\ step \in {"server", "zoo"} => MyidWritten(list)
      /\ step = "zoo" => ServerWritten(list)
      /\ step = "delete" => \A k \in Defaults : conf.server[k] = Shipped.server[k]
      /\ step \in {"defaultZoo", "deleteZoo"} => conf.server = Shipped.server
      /\ step = "deleteZoo" => conf.zoo[<<"dataDir">>] = "/tmp"

StateInv ==
  LET list == state.list
  IN  /\ state.phase = "config" =>
           /\ Given(list) /\ MyidWritten(list) /\ ServerWritten(list)
           /\ \A i \in 1..Len(list) : conf.zoo[Peer(i)] = list[i]
      /\ state.phase = "cleanup" => conf = Shipped

StartedInv ==
  started # None /\ started.list # <<>> =>
    Member(started.list) /\ started.id = Place(started.list) - 1

KafkaInv == FilesInv /\ CallInv /\ StateInv /\ StartedInv
=============================================================================

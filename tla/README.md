# Verification of cortx-utils

TLA+ modules that model the stateful core of `cortx-utils`, TLC configurations
that check them on small instances, and TLAPS proofs of the properties that
matter most for every size of the system. Source paths below are relative to
`src/py-utils/src/utils/` unless they say otherwise. `PROJECT.json` has the map
from definitions to source lines, the list of hazards the properties are aimed
at, and the mutants that show each property can fail.

## 1. The system

`cortx-utils` is the library the services of a CORTX cluster share. It has no
main program: each service process uses the classes below, and processes meet in
Consul, Kafka, and files.

| Component | State | Operations | Meets others through |
|---|---|---|---|
| Configuration lock (`conf_store/conf_store.py` 276-385) | two keys per domain: owner, end time | `lock`, `unlock`, `test_lock` | keys in Consul or a directory, wall-clock time |
| Configuration store (`conf_store/`, `kv_store/`) | per index a payload and a dirty flag; per store a file | `load`, `set`, `delete`, `copy`, `merge`, `save` | files, the INI parser shared by the payloads of a store |
| Message bus administration (`message_bus/message_broker_collection.py`) | client table, `_resource`, `_saved_retention` of the process; topics in Kafka | `init_client`, `register_message_type`, `deregister_message_type`, `add_concurrency`, `set_message_type_expire`, `delete` | Kafka's admin interface and its lagging metadata |
| REST server (`utils_server/`, `message_bus/message_bus_server.py`, `iem_framework/`, `audit_log/`) | one EventMessage, Kafka clients by id, a webhook; requests waiting for their bodies | handlers for events, messages, audit messages, the webhook | the event loop, Kafka, the webhook |
| Message channel (same file) | producer queue, delivery reports, consumer positions, committed offsets | `send` sync/async, `receive`, `ack` | Kafka logs and consumer groups |
| Database provider (`data/db/db_provider.py`, `synchronization.py`) | creation status, a `ThreadSafeEvent` | storage calls, `create_database` | callbacks on one asyncio loop |
| HA decisions (`ha/dm/`, `data/db/consul_db/storage.py`) | decisions by resource and event time in Consul | `handle_alert`, `get_resource_status`, `get_resource_group_status`, `acknowledge_resource(_group)` | Consul, with timeouts |
| conf command (`conf_store/conf_cli.py`) | a process per command with copies of one or two files | `set`, `get`, `delete`, `copy`, `merge`, `diff`, `compare`, `search`, `get_keys`, `addnumkeys` | the files |
| Nested keys (`kv_store/kv_payload.py`) | dicts and lists nested in each other | `set`, `get`, `delete`, `get_keys`, `search`, `add_num_keys`; `copy`, `compare` | the payload of an index |
| Directory store (`kv_store/kv_store_collection.py` 101-293) | a file per key | `set`, `get`, `delete`, `save` | the files |
| Activity tracker (`activity_tracker/`) | handles; a JSON file of activities | `create`, `get`, `update`, `finish`, `suspend` | the file, through `KvStore.set()` |
| Discovery (`discovery/`) | request register, resource maps, `Resource._kv` | `process` (a thread per request), `get_processing_status` | JSON files, a class attribute |
| Support bundles (`support_framework/`) | per process a cache of the status file; bundle directories | `generate`, `get_status` | the file, the directories |
| Data access (`data/access/`, `data/db/`) | a collection in Consul, Elasticsearch or OpenLDAP | `store`, `get`, `count`, `update`, `delete`, `*_by_id`, `attach_to_index` | the servers; searches that lag |
| Setup (`setup/kafka`, `consul`, `elasticsearch`, `openldap`) | properties files, systemd unit, `elasticsearch.yml` and its backup, slapd's files and entries | `post_install`, `config`, `init`, `reset`, `cleanup`, and the checks of every phase | files of external programs |
| Setup of the utilities (`src/py-utils/src/setup/`) | the cluster configuration of a node, message types at the broker | the phases of `utils_setup` | the broker, Consul |
| Fault injection (`src/c-utils/src/fault`) | table of fault points | `FP_ENABLED`, `fault_enable`, `fault_disable`, `fault_cleanup` | the table, under two locks |
| Tracing and operation stacks (`perf-counters.h`, `operation.h`, `tsdb.c`) | a stack per thread | `perfc_trace_*`, `opstack_*` | the time series database |
| Motr wrappers (`src/c-utils/src/cortx`) | one client per process, a Motr context per thread, iterators | `m0init`, `m0kvs_*`, `m0idx_*`, `m0store_*` | Motr |
| Management server (`src/c-utils/src/management`) | requests, shutdown flag | hooks of libevhtp, `server_start`, `server_stop` | the event loop |
| AMQP, HA coordinator tools, validators, CLI, security, schema, cron | | | not modelled: section 6 |

What is hard in it, and what correctness means:

* **Lock.** Every key access is a request of its own, retried for seconds; a
  process may die between any two. Correct: two leases never run at once, and
  whatever is left behind runs out.
* **Configuration store.** `save()` writes only what is dirty, and opening a file
  for writing empties it first. Correct: nothing that is clean is unsaved.
* **Message bus administration.** `delete()` sets a topic's retention to 1 ms,
  sleeps and sets it back to a value read earlier, on a broker object shared by
  the process. Correct: no topic stays at 1 ms, at which Kafka drops everything.
* **Message channel.** Delivery reports come late and are served by later calls;
  partitions move and receivers die. Correct: a sync `send` that returned is
  stored, lists leave no gap, nothing acknowledged is unhandled, everything is
  handled in the end.
* **Database provider.** `set()`, `clear()` and `wait()` only post handles to a
  loop. Correct: the database is created once, and every waiting call goes on.
* **Decisions.** A status of a group is several reads, an acknowledgement a read
  and several deletes, and both have timeouts that leave requests running.
  Correct: an answer was true during the call; a standing failure is not deleted.
* **Nested keys.** A `set()` may have to replace what lies on the way, and may
  raise below it. Correct: a key set is read back, other keys stay, a call that
  raises has changed nothing, a copy by key has every key.
* **Files written whole** (activities, discovery, bundles, directories). Every
  change is load, change, dump, in which others run and the process may die.
  Correct: what was completed stays so but for a set that was overtaken or worked
  on an old view, a reported success is one, a request is settled in the end; a key
  is as the last call left it unless calls overlapped.
* **Data access.** No driver's `update` or `delete` is atomic. Correct: a query
  returns what its filter, order and page ask for, a `store()` that returns has
  stored, and what is deleted comes back by a store only.
* **Setup.** Phases are repeated after they failed or were killed. Correct: a
  phase that completes leaves a consistent configuration whatever came before.
  Checks are made on one reading of the configuration and the work on another.
  What passes the checks has what the work needs.
* **Setup of the utilities.** Nodes run phases at the same time against one
  broker, whose answers are looked at in order. Correct: a phase that succeeds has
  its message types registered, or hides one failure only.
* **conf command, REST server.** Commands overlap on a file; requests overlap in a
  process and share its clients. Correct: an exit status or an answer says what has
  become of the command or the request.
* **C utilities.** Threads meet in a table, in once-only initialization and in
  callbacks. Correct: faults trigger as specified, traces name the operation they
  belong to, Motr is called from threads it knows, an iteration is complete, a
  request is answered once.

## 2. Modules

| Module | Models | Extended by |
|---|---|---|
| `LeaseLock` | abstract: a lease is granted only while nobody else has one | `ConfLock` (refinement) |
| `ConfLock` | the lock protocol, one action per backend request | `MCConfLock`, `ConfLockProofs` |
| `ConfStore` | ConfStore, ConfCache, and the JSON/YAML/TOML, INI and dict stores | `MCConfStore`, `ConfStoreProofs` |
| `TopicAdmin` | producers and administration of message types | `MCTopicAdmin`, `TopicAdminProofs` |
| `MessageChannel` | sending, receiving, acknowledging | `MCMessageChannel`, `MessageChannelProofs` |
| `DbProvider` | lazy creation of a database, ThreadSafeEvent, asyncio's queue | `MCDbProvider`, `CUtilsProofs` |
| `Decision` | decision maker, decision monitors, Consul's get and delete | `MCDecision`, `DecisionProofs` |
| `Discovery` | request threads, register, resource maps, status | `MCDiscovery`, `DiscoveryProofs` |
| `Activity`, `SupportBundle`, `KvPayload`, `DirStore` | the components of those names | instances of `PyUtils` |
| `KafkaSetup`, `ConsulSetup`, `SearchSetup`, `LdapSetup` | the setup phases of the four services | instances of `PyUtils` |
| `SetupCommand` | the setup commands of the four services: what they check, OpenLDAP's credentials, the exit status | instance of `PyUtils` |
| `UtilsSetup` | `utils_setup` on the nodes of a cluster | instance of `PyUtils` |
| `ConfCli` | the `conf` command, in several processes | instance of `PyUtils` |
| `RestBus` | the REST server: events, messages, audit log | instance of `PyUtils` |
| `Query`, `DataStore` | filters, order and paging; a collection under the three drivers (extends `Query`) | instance of `PyUtils` |
| `FaultPoints`, `PerfTrace`, `OpStack`, `MotrClient`, `ManagementServer` | the C utilities | instances of `CUtils` |
| `PyUtils` | the utilities of py-utils side by side | `MCPyUtils`, `PyUtilsProofs` |
| `CUtils` | the utilities of c-utils side by side | `MCCUtils`, `CUtilsProofs` |

`PyUtils` and `CUtils` are suites: the components in them share no state, so the
variable `part` (`cPart`) chooses one of them in the initial state, and the others
keep their initial values. Every component has a property of its own, and an
inductive invariant that says why it holds. The suites name the parameters of
their components and what is assumed of them; `MCPyUtils` and `MCCUtils` give
the values.

How state and actions correspond to the code:

**ConfLock.** `owner` and `endTime` are the two keys; `pc[p]` is the request a
process is about to make, so that other processes run between any two. `lock()`
is `Lock` (first read of `test_lock`), `TestEnd`, `SetOwner`, `Stamp` (the local
`lock_end_time`), `SetEnd`, the sleep, and `Verify`. `unlock()` is `Unlock`,
`DelOwner`, `DelEnd`. Over a directory a put is two steps (`TruncOwner`,
`TruncEnd`: `open(..., 'w')`). `Resend` is ExponentialBackoff repeating a request
that had taken effect, `CallFails` its last exception. Points in time are timers
that count down with `Tick`; `Delta` bounds the delay of a write, and `lease` is
what the caller was told it has. Owners are per process; with the default owner
(the machine id) the processes of a node are one owner of the model.

**ConfStore.** Each process has its `Conf` singleton: `loaded`, `data`, `dirty`.
The payload of an INI store is its ConfigParser (`parser`), which a reload reads
into without emptying it. A dump is `BeginSave` (the file is empty) and
`EndSave`. A DictKvStore's dump replaces the text its `load` parses (`dumped`).
A key is absent or null alike, as `get` and `get_keys` have it.

**TopicAdmin.** A process has one broker object; `resource` and `saved` are its
`_resource` and `_saved_retention`, which every new producer overwrites. A call is
a record `call[th]` with what it does next. Kafka applies requests at once and
shows them in `list_topics()` later (`Show`).

**MessageChannel.** `queue` and `undelivered` are the producer's queue and its
unserved reports of failure; `Served` is the end of a `flush` or `poll`. Kafka
keeps `log`, `assigned`, `committed`; a rebalance is `Revoke` and `Assign`. `hand`
is the message the caller has received and not handled; `Handle` includes the
`ack()` of callers that acknowledge. `sent`, `lists`, `handled` are history.

**DbProvider.** `ready` is asyncio's queue of handles. A wake-up from
`Event.wait()` to the caller takes `Hops` handles. `WaitDbCreation` is
`_wait_db_creation()` from one await to the next, which nothing interrupts.

**Decision.** `call[m]` is where a monitor is in its call: `status` (a read),
`fetch` (the keys to delete), `delete`. `late` holds deletes that go on after
their call timed out. `Like` is the substring test of the query; `Newest` the
decisions that sorting by time may put first. `window`, `old` and `clean` are
history: what was so since the call began, and whether its requests succeeded.

**Activity, Discovery.** `KvStore.set()` is three steps, load, open (the file is
empty) and write, so that other processes and threads run, and crash, between
them. In `Activity` an entry carries the number of the `set()` that wrote it
(history), by which stale handles are told, and `stored` is what the file held when
it was last whole. In `Discovery` `io` is the set of a thread on the register and
`set` the one on a map (`MapLoad`, `MapOpen`, `MapWrite`); `kv` is `Resource._kv`,
shared by the request threads, so that two of them may be on one map (`raced`,
history) and write back what they loaded. `Expire` is
the passing of time, and the caller's `Ask`, its own writes and `Answer` are
steps of its own.

**SupportBundle.** A bundle is a directory `target_path/bundle_id`, and its status
is stored by node and id: `IdOf` gives the id, and calls with one id at two paths
share it. `cache[p]` is the index SB_INDEX of a process, loaded once;
`Begin` and `Save` set and write the status, `Collect` and `Pack` run the
components' commands (external) and make the archive, `Finish` notes the result.

**KvPayload.** A payload is a function on paths: the key `a[1]>c` is
`<<"a", "1", "c">>`, and a node is a dict, a list or a scalar. A call is one
action, since a payload belongs to one process. The recursion over keys in the
code is over the first place `FirstOff` where the way is not as needed.

**DirStore.** A `set()` is mkdir, open (truncates), write; a `delete()` looks and
removes (a file: of a directory it raises, with and without `force`); a `save()`
lists the keys, reads each and sets each. `meant` is what the
calls that returned have made of a key, `risk` the keys that calls changed side
by side or were interrupted at.

**Setup modules.** One action per file written or command whose failure matters;
`Fail` ends the phase after any of them, and the next may be any. The contents of
a file are the settings the property tells apart. In `KafkaSetup` a file is
rewritten in place once for each key (`Rewrite`, `call.todo`), and what an update has
not found is appended in the end (`FinishFile`); a rewrite that is cut short loses
the lines after some point, `Cuts` giving the sets of keys there may be. In
`LdapSetup` `live` is what the running slapd has, `disk` what its files have; a file
of an entry in `Stuck` may survive its removal, which `safe_remove()` does not look
at (`RemoveFiles`), and the phase goes on.

**SetupCommand.** `cmd` is the command under way; `GetCommand` parses it and loads
the configuration (`cmd.seen`), `Validate` and `KeysValidate` are the checks,
`LoadAgain` is OpenLDAP's SetupCmd, which loads the configuration a second time
(`cmd.mine`). The cluster id and the password, encrypted for the cluster id that was
read, are two saves (`UpdateClusterId`, `UpdateCredentials`), and `Kill` may come
between them. What the phases do to the files of the services is in the modules
above.

**UtilsSetup.** `run[n]` is the phase of a node. `Create` is one request of the
admin client for both message types; `found` and `disturbed` are history: the types
that were there when it was made, and a cleanup since. A key of a change set is the
sequence of its parts, since `upgrade()` searches for a text in it (`Searched`).

**ConfCli.** `cli[p]` is a command: `Load` and `LoadSecond` read the files, one action
per command works on the copies, `Open` (the file is empty) and `Write` save. `shared`
is history: the processes whose file another one has opened or written since they
did so last, or since they loaded it.

**RestBus.** Handlers are coroutines that pause at `await request.json()` only, so a
request with a body is two steps (`Arrive` and its handler) and one without a single
step. `context` is the class EventMessage, `producers` and `consumer` the clients of
the process by their ids. `log`, `committed` and `topics` are Kafka's. `answer` is the
status of the answer, as RestServerError makes it.

**Query, DataStore.** A filter is a tree; `Means` says what it asks for, and the
converters of the drivers (`ConsulCompare`, `ElasticCompare`, `LdapCompare`) what
is sent. `docs` is what the server has, `seen` what a search of Elasticsearch
shows since its last refresh, `version` the versions it compares; `call[c].todo`
are the objects that an update or delete has still to change.

**C utilities.** `FaultPoints`: a find in the table is one critical section, the use
of a state another; `given` is the spec of each point; `Grow` may leave the list at
freed memory, as the code does not keep what `realloc()` returns. `PerfTrace` and
`OpStack`: the thread's stack as the macros keep it, and beside it the real nesting
(history). In `MotrClient` `Found` is the turn of an iteration that finds a key,
with a callback that takes or refuses it; `OnceEnter` and `OnceDone` are
`pthread_once`, `Adopt` the rest of `m0init()`, `Checked` and `Unchecked` the
wrappers that call it and those that do not. `ManagementServer`: one action per
hook; `ServerStop` is another thread's.

## 3. Runs

Twelve runs; each takes seconds to about two minutes with two workers.

| Run | Shows | Bounds, and why they are enough |
|---|---|---|
| `lock_timely` | `MutualExclusion`, the inductive `LockInv`, and that `ConfLock` implements `LeaseLock`, when writes are faster than the sleep | 3 processes, two of them faulty; Sleep 2 > Delta 1, duration 4: a lease spans several contenders |
| `lock_recovery` | `Recovers` over both backends, with unlocks, forced unlocks, resends, crashes | 3 processes; every step of one can be the last |
| `lock_unlock_race` (violation) | the second delete of `unlock()` removes a rival's end time | 2 processes, nothing fails |
| `confstore_files` | `CleanIsSaved` | a JSON file, an INI file and a dict; 2 keys, so that copies and merges are partial |
| `topic_admin` | `RestoredAfterDelete`, `EndsRestored` | 2 processes, 2 topics, 1 fault anywhere: a request that fails, the `describe_configs()` of a new client too, or a crash |
| `channel_send` | `SyncSendDurable` | 2 senders, lists of up to 3, 4 messages, 1 crash |
| `channel_receive` | `AckedIsHandled`, `AtMostOneLostPerCrash`, `AllHandled` | a group of two receivers and one with auto_ack, 2 messages, 1 crash, 1 rebalance |
| `db_create` | `CreatedOnce`, `ReturnsIfCreated` | 4 calls (creator, early waiter, late waiter, one more), 2 failures |
| `decision` | `FailedAnswerTrue`, `FineAnswerTrue`, `AckClears`, `AckKeepsFailure` | 2 monitors, 2 resources whose ids overlap, 3 keys, 2 alerts, 2 calls, 1 fault |
| `discovery` | `SuccessHasParts`, `Settles` | 2 requests with maps of their own, of 2 parts and of 1, one caller, 1 crash: the second request switches the map the first writes to, and their sets of one map overlap |
| `py_utils` | `FinishedStays` (activities) | 2 processes, 2 activities, 4 sets: a second handle, a stale handle, an overlap, and what comes after them |
| | `SuccessIsReal` (bundles) | 2 processes, 2 bundles of one id at different paths, selections of none and of two components, 1 crash |
| | `SetupConsistent` (Kafka) | 1 node (nodes share nothing), lists of one and of two nodes in both orders, 4 phases, each cut short between two keys or within a rewrite: two sets of lost lines for each file, so that keys of a cluster and keys of every configuration are among them |
| | `UnitServed` (Consul) | 2 nodes, two configurations with different paths and servers, 3 phases |
| | `EntriesOnce` (Elasticsearch) | 1 node, 6 phases |
| | `ConfigRepeatable` (OpenLDAP) | 1 node, 4 phases, 1 or 3 hosts; files that cannot be removed of the data, of three entries that config adds again and of one that it does not |
| | `CallsMeant`, `DeletedStays` (data access) | 2 clients with one call each or one with two, 3 objects, every kind of call; filters a driver cannot build, pages in the middle, past the end and of negative size |
| | `PayloadKept` (nested keys) | 3 calls with 7 keys and 5 values from two payloads: each kind of node in the way of each kind of step |
| | `KeysSettled` (directory) | 2 processes, 3 calls, 1 crash; a key that is a file for some and a directory for others, and is deleted as one |
| | `CommandLands` (conf command) | 2 processes, 2 files, each command once, with and without what makes it fail |
| | `ChecksSuffice` (setup commands) | 2 commands of any product and phase, 3 hosts, 4 configurations, 1 change of either: a kill between the two saves, and a configuration replaced between the checks and the work |
| | `TypesRegistered` (utils setup) | 2 nodes, 2 brokers, 3 phases, 1 fault, change sets for both branches of `upgrade()` |
| | `AnswersTrue` (REST server) | four batches of 5 or 6 requests in any order, of each kind and with each way to be refused, 1 fault: events side by side, readers of two groups, a webhook in use |
| `c_utils` | `TriggersAsSpecified`, `OneStatePerPoint` (fault points) | 2 threads, 2 points, a table of 1 that has to grow; a once point and, with 3 hits and a window of the second, a repeat or a skip point: hits before, in and after it |
| | `OperationsNamed` (stacks) | 2 threads, depth 3, nesting up to and beyond it, and functions that return without finii |
| | `MotrServes` (Motr) | 2 threads, 4 keys before, in and after the prefix, 3 writes; a callback that takes or refuses each key |
| | `AnsweredOnce` (management server) | 2 requests, bodies of up to 2 pieces, 2 controllers of which one uri is a prefix of the other |

Bounds in guards: `MaxPolls`, `MaxTries`, `MaxParts`, `MaxFaults`, `MaxMsg`,
`MaxList`, `MaxCrash`, `MaxMoves`, `MaxAlerts`, `MaxCalls`, `Failures`, `MaxSets`,
`MaxCrashes`, `MaxPhases`, `MaxRuns`, `MaxCommands`, `MaxChanges`, `MaxHits`,
`MaxNest`, `MaxWrites`, `MaxLength`. `MaxPolls` is 1 in `topic_admin`: the polls
only read, so a longer wait adds nothing but states in which the call is still
waiting, and those of other calls. `Symmetry` is used for safety only, over sets the
specification treats alike.

Deadlock is checked where the system never stops (`ConfLock`, `ConfStore`,
`TopicAdmin`). In the others every call may have been made within the bounds.

### Fairness

* `ConfLock`: time goes on; a process that is not faulty makes its next request
  and calls `lock()` again until it is granted, as the callers in the tests do.
* `MessageChannel`: callers handle what they received and go on receiving (the
  receive loops of the message bus tests, of IEM and of the REST server); Kafka
  assigns partitions that are free. Nothing is assumed of senders or AutoCommit.
* `DbProvider`: asyncio runs its handles in order, and requests to Consul end
  (they have timeouts). Which way they end is not assumed.
* `Discovery`: threads run (weak fairness of their steps) and time passes. The
  property is about requests that somebody asks for until their status is final
  (`get_gen_node_health_status()` answers once and leaves asking again to its
  caller); `Ask` is disabled while an earlier question is being answered, so this
  is strong fairness of `Ask`.

Everything else is safety only: the suites say nothing of callers that stop.

## 4. What does not hold

The violation run `lock_unlock_race` is listed under `findings` with the line of
the repository it contradicts. The models show more; these are conditions under
which the other properties are stated:

* `MutualExclusion` fails with `Delta >= Sleep` (a put that is retried lands
  after the read-back), with different durations (`Short`, `ShortD` in
  `MCConfLock`: the loser's end time shortens the winner's), and with
  `Backends = {"dir"}` (a renewal empties the owner file for a moment). `unlock`
  may delete a key that has become another's.
* An INI reload keeps what was set and not saved, and calls the result clean;
  `Agrees` therefore asks of an INI index only that it has what the file has. A
  dict cannot be loaded again once it was saved (`Readable`), nor a file that an
  interrupted dump has left empty.
* `delete()` goes back to the retention read when the last producer was created,
  and so loses an expiry set since. A producer created before its type is
  registered stays in the table without a saved retention, and `delete()` then
  stops half way (`KnownTypes = FALSE`). Two threads of one process disturb each
  other's `delete()` (`Home`). `Orderly` excludes the last two. A
  client whose `describe_configs()` failed stays in the table as well
  (`message_broker_collection.py` 116-122): if nothing was saved before, a later
  `delete()` raises at 385, and the topic stays at 1 ms (`saved[Home[th]] # None` in
  `EndsRestored`); otherwise it gets the retention of another topic.
* `delete()` empties the topic of the producer created last, whatever message type
  it is given (`DeletesGivenType` of `TopicAdmin`). A REST request may be answered
  with another type's message, since all share one consumer
  (`ReceivesRequested` of `MessageChannel`). After a creation of a database has
  failed, a waiting call may never be woken (`CallsReturn` of `DbProvider`). The
  three are stated in the modules; no run asks them.
* A group may be reported resolved although at each moment of the call one of its
  resources was failed: the answer is only true resource by resource, as
  `FineAnswerTrue` says.
* Activities: a stale handle sets a finished activity in progress again, and
  overlapping sets lose one: `FinishedStays` says of each such step that it is one of
  these, and excludes all others.
* Discovery: an expired request is marked Failed whatever its status, a success too;
  an entry may be lost to a concurrent set. Overlapping sets of one map lose parts
  that a success claims (`raced` in `SuccessHasParts`), and parts go to the map of the
  request that began last.
* Bundles: the status is stored by id, whatever the path: the success that one
  asks for may be that of a call at another path, whose archive is the one there
  is. A process writes its old view of all statuses over the file, so that a Success
  turns into In-Progress; an early return leaves In-Progress.
* Directory store: a `save()` beside other processes' changes overwrites sets and
  brings deleted keys back. A key `a` cannot be set once `a>b` was, even after `a>b`
  is deleted, since the directory stays: a forced `delete()` of a directory raises
  NameError and removes nothing, as `kv_store_collection.py` calls `shutil.rmtree()`
  (160) and never imports `shutil`.
* KvPayload: floats and nulls are not listed by `get_keys()`, so `copy` and `merge`
  drop them; a copy has `""` for elements without a key; a `set()` through a
  string or a list replaces it. `KvStore.set_data()` changes nothing (a `map` that
  nothing evaluates), and is left out.
* Kafka: `config` with a shorter list leaves the peers of the longer one (the
  second conjunct of `Configured`), and what a rewrite cut short has lost of lines that
  no phase writes is never put back. Consul: a kill while the unit is rewritten
  leaves it empty for good (`Torn`). Elasticsearch: a kill during the first backup
  leaves a torn backup that every later `config` goes back to (`lost`). OpenLDAP:
  replication for more than one host always fails, as `checkhostvalidity()` finds
  no name `hostlist`; an error of `os.remove()` is swallowed
  (`base_configure_ldap.py` 45-49), so that the entry stays and the next add of it
  fails (`clash` in `kept`); `cleanup` passes `True` for `'True'` and keeps the data.
* Data access: Consul's converter compares `value op field`, so that `<` selects
  what is greater (`consul_db/storage.py` 119-126); the instance asks Consul for no
  ranges. Consul's `update()` puts back what was deleted meanwhile, Elasticsearch
  shows deleted objects until a refresh and stops half way on conflicts, and
  OpenLDAP's `store()` stores nothing when the entry it found is deleted before it
  updates it; the properties name these cases. Without an order, the first page
  (offset 0) is unsorted and later ones are sorted by the primary key.
* `upgrade()` of the utilities looks for `changed>cortx>externalkafka` in the keys
  of the change set, without a `>` before the backend; no key has it, and the
  endpoints stay as they were (`UpgradeApplied` of `UtilsSetup`, stated and asked by
  no run). `init` takes a failure to make `audit_messages` for a success when `IEM`
  exists (`found = {"IEM"}` in `TypesRegistered`). `utils_setup` ends with 0
  whatever the outcome.
* conf command: of overlapping commands the one that writes last wins, and the
  changes of the others are lost; a kill while the file is written leaves it empty
  (the second conjunct of `CommandLands`). `copy` changes the target in memory only
  and saves nothing (`conf_cli.py` 150-155), though its help says "Copy Keys or whole
  config to the target config url." (233) and `ConfStore.copy()` is documented with
  "and saves" (`conf_store.py` 197): `CommandLands` says that the files stay as they
  were.
* Setup commands: a key may be missing in the work if the configuration is replaced
  after the checks, or lists more storage sets than it gives nodes for, since the
  checks look at the last set only. `quit()` ends with 0 after a failure. The look-up
  of OpenLDAP's services finds none missing, whatever runs.
* REST server: the consumer of a process keeps the group and the types of the first
  request (`ConsumerFor`); an event that cannot be parsed is read and gone; with
  several endpoints the broker's list holds the last one several times
  (`message_broker.py` 64-79), which the model, with one broker, does not show.
* Fault points: a REPEAT point triggers in one window and never again, though
  `fault.h` 40-43 says that it "repeats this cycle": `TriggersAsSpecified` states
  what the handlers do (`fault-points.c` 66-126). `realloc()`'s result is dropped
  (`freed`). Two first runs of a site at once fail an assert (`Overlap`).
* `m0_ufid_get()` returns on an error without ending its trace (`lost` of
  `PerfTrace`): later records of the thread name operations that began later. An
  operation beyond the depth of its stack (`filled`) leaves the context without calls
  that are still under way.
* Motr: a callback of `m0kvs_pattern()` that returns false does not end the listing:
  the `break` (`m0kvs.c` 633-635) skips the update of `myk` and of the flags with
  `stop` still false, and the next turn shows the same key again (`refused`), as long
  as it is there and the callback refuses it. A thread that gets the `pthread_t` of
  the init thread after its end is taken for it and enters Motr unknown (`replaced`).

## 5. Proofs

Eight modules hold proofs. All are for any values of the constants that satisfy
the assumptions named in the modules, which the runs evaluate: any number of
processes, requests, topics, monitors, messages, and any bound in a guard.
Each theorem of an invariant has the same three steps: the initial states have
the inductive invariant, every action keeps it (one step per action), and it
implies the property. TLC checked each inductive invariant before its proof, those
of the suites over all states of the two suite runs.

| Theorem | Assumes | Argument |
|---|---|---|
| `ConfLockProofs!TypeCorrect`, `MutexCorrect`, `InvCorrect`, `LeaseLockCorrect` | `Disciplined` for all but the first: Delta < Sleep, atomic puts, one duration, nobody unlocks | `LockInv`. Mutual exclusion alone is not inductive: one must know that a rival that has passed the test but not put its name will do so before the sleep of the new owner is over (`LeaseBounds`), and that the stored end time bounds what the owner has or will be granted (`EndTimeBounds`), by at most Delta. The refinement maps `lease` to itself; `Verify` is `Acquire`, everything but `Tick`, `Crash`, `Unlock` a stutter. |
| `ConfStoreProofs!TypeCorrect`, `CleanCorrect` | `Private` for the second: no store is loaded under two indexes | `CleanIsSaved` and `DumpingIsDirty`: a file that is being written belongs to an index that is still dirty, so that the moment in which it is empty breaks nothing. |
| `TopicAdminProofs!TypeCorrect`, `RestoreCorrect`, `EndsCorrect` | `Orderly` for the last two | `RestoreInv`: what a process has saved is not the minimum, even when it read it during another process's `delete()`, and as long as no request has failed a process with producers has saved something (`SavedIsUsable`); and calls under way are sound (`CallsAreSound`). |
| `MessageChannelProofs!TypeCorrect` | none | with `Membership`: partitions are assigned to, and messages held by, consumers of the group. |
| `MessageChannelProofs!SyncSendCorrect` | none | `SendInv`: lists are numbered apart (`ListsApart`); a message is queued only when the ones before it in its list are in the log (`InOrder`); the message a sync `send()` waits for is in the log, in the queue or reported undelivered (`SyncUnderway`). A report of success for a message that is not stored is thereby excluded, whoever's `flush()` serves it. |
| `MessageChannelProofs!AckedCorrect` | consumers start at the earliest offset and acknowledge by hand | `ReadIsHandled`: what the position of a consumer has passed is handled or in the hand of the consumer that has the partition now; commits copy positions, so they carry it over. |
| `MessageChannelProofs!LossCorrect` | consumers start at the earliest offset | `GapBounded`: the messages passed, not handled and held by nobody are finite in number and no more than the crashes; only a crash drops a hand, and it drops one message. |
| `DecisionProofs!FailedAnswerCorrect`, `FineAnswerCorrect` | none | `PassedWereFine`: each resource a status call has passed was fine in its window, as long as its own requests succeeded; windows only grow, and see the state in which a status is read. |
| `DecisionProofs!AckClearsCorrect`, `AckKeepsCorrect` | none | `AckInv`: an acknowledgement has cleared the resources it has passed (`Cleared`: a key that there was at the beginning is gone, and a key stored since is not one of those), holds every old key of the resource it is at, and has seen it not failed before it deletes. The second is an action property of the deletes, proved from the same invariant. |
| `DiscoveryProofs!TypeCorrect`, `SuccessCorrect` | `ConstantsAssumption` | `SuccessEarned`: not only a status that is reported but every success on its way, in a set, in the register, or in a copy of the register that a thread has loaded and will write back over others', has had its parts written; `MapsBegun`: the map in use is that of a request that has begun, so parts go nowhere else; `SetsSound`, `WrittenStays`: unless sets of a map overlapped, one that has loaded it is alone with it and has loaded all that was written there. |

The two suites have a module of proofs each, with a section for each component:
lemmas about its operators, one about its steps, and the theorem, which is about
the specification of the suite and so also shows that the other components leave
it alone. `CUtilsProofs` begins with `DbProvider`, whose proof is short.

| Theorem of `PyUtilsProofs` | Assumes | Argument |
|---|---|---|
| `ActivityCorrect` | `ActivityAssumption` | An action property, proved from `ActivityInv`: a version names one entry, in all contents that are stored or loaded (`SameEntry`), a handle with the version of an entry has that entry or what may be written over it (`HandlesFit`), and the numbers of sets under way are nowhere yet (`Fresh`). |
| `BundleCorrect` | `BundleAssumption` | `BundleInv`: only a process that has packed the archive has a success to write, in its cache, in the text it is about to dump or in one it has loaded; archives stay; a call is alone with its directory and packs last (`OneCallEach`). |
| `KafkaCorrect` | `KafkaAssumption`: there is a longest list | `KafkaInv`: config and cleanup take the node out of the state it is in before they write; a key that a step has done with has its new value or is not there, and is then appended (`EditInv`); and each step finds what the earlier ones wrote (`FilesInv`, `CallInv`). Which lines a cut loses does not matter. That brokers of one list differ follows from their places in it. |
| `ConsulCorrect` | `ConsulAssumption` | `NodeInv`, a predicate of the values of one node: what each step of config and cleanup has behind it, as long as no file is torn. |
| `SearchCorrect` | `SearchAssumption` | `CopyKept`: until the only copy is torn the backup is whole, or there is none and the file is; `SectionGone`: what cleanup has removed. |
| `LdapCorrect` | `LdapAssumption` | `LdapInv`: what config will add is off the disk from the deletion on, or could not be removed (`kept`), and slapd, which starts from the disk, has these and the entries added so far. |
| `DeletedCorrect` | `DataAssumption`: a finite collection, objects with their primary keys, updates of other fields | an action property, proved from `DataInv`: an entry that an `update()` has still to write is there, or its deletion since the search is noted (Consul), or its version is that of a document that is there (Elasticsearch, also for a search that lags: `SeenInv`); OpenLDAP modifies only what it finds. |
| `DirectoryCorrect` | `DirAssumption`: keys are paths with names, and what is there at first is a tree | `DirInv`. That a key is settled when nobody touches it is not inductive: a call must be said to know, of each key that nobody else touches (`Alone`), that the file it has opened is still linked and empty and that the value it has read is what the file holds; a key not at risk is settled unless somebody shares it or is writing it (`SettledInv`); what two calls touch both is noted by both. On the way: paths and what `makedirs`, `open` and `remove` make of a tree (`TreeMakes`, `TreePuts`, `TreeLoses`). |
| `CommandCorrect` | `CliAssumption`: files hold dicts over `ConfKeys` and `ConfValues`, or are missing or empty, and `set` is given such keys and values | `CliInv`: what a command has in memory is what it loaded until it is to save, and then what is meant of it (`WorkInv`); the file is what the command loaded, what it is writing or what it has written, unless another has opened or written it since (`FileInv`); a command that writes has the file for its own again, whatever overlapped before. |
| `SetupTypeCorrect`, `ChecksCorrect` | none | `SetupInv`: what the checks found is remembered through the steps (`Passed`), what the work reads is among it (`UsedIsChecked`), and between the two saves the cluster id of the file is that of the command, whatever was killed before. |
| `UtilsCorrect` | `UtilsAssumption` | `UtilsInv`: what a run has made, or found, at its broker stays there until a cleanup, which marks every run at that broker as disturbed; a failure of IEM is not hidden, since its result is looked at first. |
| `RestCorrect` | `RestAssumption` | `RestInv`: until a request is answered nothing of it is in the log or posted; what it appends is counted by the cardinality of its entries. `ContextInv`: the context of an event has a component and a source of its own. |

| Theorem of `CUtilsProofs` | Assumes | Argument |
|---|---|---|
| `CreatedCorrect` | none | `CreatedOnce` with types of the status: checking and taking the status over are one step. |
| `FaultPointsCorrect`, `FaultsTrigger` | `FaultAssumption` | `FaultInv`: how the states of the table, the calls under way and the sites belong together (`StateInv`, `PointInv`, `CallInv`, `RegisterInv`); hits are counted from the registration on. |
| `OperationsCorrect` | `TraceAssumption`, `OperationAssumption` | `TraceInv`: the stack of a thread is its nest of functions, call for call, until one returns without its finii, and from then on has more, with a frame as far from the top for each function, of itself or of a later one (`Follows`); `OperationInv`: a stack that was never full has room for the next call, and ids grow along the context and the calls, so that a return takes its own call from the context or an older one (`Names`). |
| `MotrCorrect` | `MotrAssumption`: keys are ordered, and those with the prefix lie together | `MotrInv`: a thread that is done with `m0init()` knows Motr, whoever is on the way to it has a client that is not finalized (`ServesInv`), and of the keys that stayed an iteration has shown, and its callback taken, all that lie before the point that its next search starts from (`IterationsInv`). |
| `ManagementCorrect` | none | `ManagementInv`: what a request has, by the number of pieces that came (`RequestInv`). |

Only model-checked: the liveness properties (`Recovers`, `AllHandled`,
`ReturnsIfCreated`, `Settles`), which need fairness and ENABLED; and what the
operators over nested data compute (`PayloadKept`, `CallsMeant`), defined by
recursion or by a choice of permutations, which needs induction over data.
The type invariants are theorems in all modules of the first table but `Decision`,
and parts of the inductive invariants in the others.

## 6. Not modelled, and why

* External programs (Kafka, Consul, asyncio) are modelled as the code uses them:
  one partition per type, no replication, no loss of committed data.
* Validators, SSH, process, cron and service wrappers, CLI, server and test
  frameworks, what the upgrade phases of the setup scripts do: I/O against external
  programs, without state of their own.
* Encryption, certificates, schema readers, logging, LDIF conversion: pure
  conversions or I/O.
* The HA coordinator tools (`ha/hac`) compile rules to Pacemaker commands: text.
* AMQP: a reconnecting channel over pika, left for an extension. IEM's command line
  tool.
* In `KafkaSetup`: a kill after `fileinput` has renamed the file and before it has
  made the new one. `GenericQueryConverter`'s refusal of And and Or with fewer than two
  operands (`generic_storage.py` 237, 248): `And()` and `Or()` (`filters.py` 40, 60)
  refuse to be made with them first, so that no filter has them.
* In `ConfStore`: MappedConf. In `TopicAdmin`: topic settings other than the
  retention. In `MotrClient`: the ranges of object reads and writes. In the
  stores: Salt pillars, and the Consul payload beyond the lock. Threads within a
  process in `ConfStore` and `MessageChannel`.

## 7. Possible extensions

1. AMQP's delivery tags across a reconnection; the rule engine of the decision
   maker as operators, composed with `Decision`.

------------------------------- MODULE PyUtils -------------------------------
(***************************************************************************)
(* Utilities of py-utils that share no state: part names the one that a    *)
(* behaviour is of, and the variables of the others keep their initial     *)
(* values.                                                                 *)
(***************************************************************************)
EXTENDS Integers, Sequences

\* The parameters of the parts; those of two parts with the same meaning are one.
CONSTANTS
  Process, Node, None,
  ActivityId, Percent, MaxSets,
  Bundle, IdOf, Selections, MaxBundleCrashes,
  KafkaHost, ServerLists, KafkaCuts, MaxKafkaPhases,
  ConsulServers, ConsulPath, ConsulDefault, MaxConsulPhases,
  MaxElasticPhases,
  LdapHosts, LdapStuck, MaxLdapPhases,
  Drivers, Requests, Filters, Present, Bad, Contained, DefaultSize, MaxDataCalls,
  PayloadKeys, PayloadValues, Digit, Str, Other, Num, Payload, MaxPayloadCalls,
  FileKey, FileValue, FileStart, MaxFileCalls, MaxFileCrashes,
  ConfCalls, ConfStart, ConfKeys, ConfValues, NumOf, Tree, Falsy, Absent, Blank, MaxConfRuns,
  Hosts, Inputs, MaxCommands, MaxChanges,
  Broker, Type, Deployed, ChangeSets, MaxUtilsPhases, MaxUtilsFaults,
  Batches, Topics, MaxRestFaults

VARIABLES
  part,
  actFile, handle, actCall, stored, sets,
  sbFile, cache, dirs, parts, archive, packed, sbCall, answered, crashes,
  kfConf, myid, started, kfCall, tried, state, kfPhases,
  unit, hcl, owner, running, csCall, csDone, used, csPhases,
  plugin, esFile, bkp, rsyslog, esStep, esDone, lost, halfway, esPhases,
  disk, live, password, ldStep, todo, result, whole, kept, clash, ldPhases,
  driver, index, docs, version, seen, dbCall, calls, marks,
  payload, last, kvCalls,
  tree, dirty, dirCall, meant, risk, dirCalls, dirCrashes,
  cliFile, cli, shared, cliRuns,
  host, input, creds, cmd, commands, changes,
  gconf, dbConf, topics, messages, utRun, utPhases, faults,
  request, up, body, answer, context, producers, consumer, webhook, brokerTopics, log, gone,
  committed, posted, got, restFaults

activityVars == <<actFile, handle, actCall, stored, sets>>
bundleVars == <<sbFile, cache, dirs, parts, archive, packed, sbCall, answered, crashes>>
kafkaVars == <<kfConf, myid, started, kfCall, tried, state, kfPhases>>
consulVars == <<unit, hcl, owner, running, csCall, csDone, used, csPhases>>
searchVars == <<plugin, esFile, bkp, rsyslog, esStep, esDone, lost, halfway, esPhases>>
ldapVars == <<disk, live, password, ldStep, todo, result, whole, kept, clash, ldPhases>>
dataVars == <<driver, index, docs, version, seen, dbCall, calls, marks>>
payloadVars == <<payload, last, kvCalls>>
dirVars == <<tree, dirty, dirCall, meant, risk, dirCalls, dirCrashes>>
cliVars == <<cliFile, cli, shared, cliRuns>>
commandVars == <<host, input, creds, cmd, commands, changes>>
utilsVars == <<gconf, dbConf, topics, messages, utRun, utPhases, faults>>
restVars == <<request, up, body, answer, context, producers, consumer, webhook, brokerTopics,
              log, gone, committed, posted, got, restFaults>>

vars == <<part, activityVars, bundleVars, kafkaVars, consulVars, searchVars, ldapVars,
          dataVars, payloadVars, dirVars, cliVars, commandVars, utilsVars, restVars>>

-----------------------------------------------------------------------------
(* The parts.                                                              *)

Activities == INSTANCE Activity WITH file <- actFile, call <- actCall, Id <- ActivityId

Bundles == INSTANCE SupportBundle WITH
  file <- sbFile, call <- sbCall, MaxCrashes <- MaxBundleCrashes

Kafka == INSTANCE KafkaSetup WITH
  conf <- kfConf, call <- kfCall, phases <- kfPhases, Host <- KafkaHost,
  Lists <- ServerLists, Cuts <- KafkaCuts, MaxPhases <- MaxKafkaPhases

ConsulUnit == INSTANCE ConsulSetup WITH
  call <- csCall, done <- csDone, phases <- csPhases, Servers <- ConsulServers,
  Path <- ConsulPath, Default <- ConsulDefault, MaxPhases <- MaxConsulPhases

Elastic == INSTANCE SearchSetup WITH
  file <- esFile, step <- esStep, done <- esDone, phases <- esPhases,
  MaxPhases <- MaxElasticPhases

OpenLdap == INSTANCE LdapSetup WITH
  step <- ldStep, phases <- ldPhases, Hosts <- LdapHosts, Stuck <- LdapStuck,
  MaxPhases <- MaxLdapPhases

Data == INSTANCE DataStore WITH
  call <- dbCall, Client <- Process, Id <- DOMAIN Present, MaxCalls <- MaxDataCalls

Payloads == INSTANCE KvPayload WITH
  calls <- kvCalls, MaxCalls <- MaxPayloadCalls, Keys <- PayloadKeys, Values <- PayloadValues,
  Begin <- Payload

Directory == INSTANCE DirStore WITH
  call <- dirCall, calls <- dirCalls, crashes <- dirCrashes, Key <- FileKey,
  Value <- FileValue, Start <- FileStart, MaxCalls <- MaxFileCalls,
  MaxCrashes <- MaxFileCrashes

Cli == INSTANCE ConfCli WITH
  file <- cliFile, runs <- cliRuns, Commands <- ConfCalls, Start <- ConfStart,
  MaxRuns <- MaxConfRuns

Setup == INSTANCE SetupCommand

Utils == INSTANCE UtilsSetup WITH
  run <- utRun, phases <- utPhases, Begin <- Deployed, MaxPhases <- MaxUtilsPhases,
  MaxFaults <- MaxUtilsFaults

Rest == INSTANCE RestBus WITH
  topics <- brokerTopics, faults <- restFaults, MaxFaults <- MaxRestFaults

-----------------------------------------------------------------------------
(* What the parts take for granted of their parameters: mostly that None   *)
(* is none of the values that it stands beside.                            *)

ASSUME ActivityAssumption ==
  None \notin Activities!Entries /\ None \notin Activities!Handles /\ None \notin Activities!Payloads
ASSUME BundleAssumption ==
  /\ Selections \subseteq Seq(Bundles!Components)
  /\ \A s \in SUBSET Bundles!Components : s # None
  /\ None \notin Bundles!Statuses /\ None \notin Bundles!Views
  /\ \A i \in Bundles!Id : <<i, "Success">> # None
ASSUME KafkaAssumption ==
  /\ \A list \in ServerLists : Len(list) \in Nat
  /\ \E list \in ServerLists : \A other \in ServerLists : Len(other) <= Len(list)
ASSUME SearchAssumption == None \notin Elastic!Text
ASSUME ConsulAssumption == ConsulServers \in [DOMAIN ConsulPath -> SUBSET Node]
ASSUME LdapAssumption == \A s \in SUBSET OpenLdap!Entry : s # None

\* Keys have names, contents are not taken for a directory, and what is there at
\* first is a directory tree: no file is in a file.
ASSUME DirAssumption ==
  /\ FileKey \subseteq Seq(Directory!Name) \ {Directory!Top}
  /\ None \notin FileValue \cup {"", Directory!Dir} /\ Directory!Dir \notin FileValue
  /\ DOMAIN FileStart \subseteq FileKey /\ \A k \in DOMAIN FileStart : FileStart[k] \in FileValue
  /\ \A j, k \in DOMAIN FileStart : j \notin Directory!Above(k)

\* The collection is finite, what is stored has its primary key, and an update()
\* sets other fields.
ASSUME DataAssumption ==
  /\ Data!IsFiniteSet(DOMAIN Present) /\ Data!Keyed(Present)
  /\ \A d \in Drivers : \A r \in Requests[d] : r.op \in Data!Operations /\ Data!Sound(r)

\* Files that are there hold dicts, and commands name files and give them dicts.
ASSUME CliAssumption ==
  /\ Absent # Blank /\ Absent \notin Cli!Dict /\ Blank \notin Cli!Dict
  /\ ConfStart \in [DOMAIN ConfStart -> Cli!Dict \cup {Absent, Blank}]
  /\ \A k \in DOMAIN NumOf : NumOf[k] \in ConfKeys
  /\ "num" \in ConfValues
  /\ \A c \in ConfCalls :
       /\ c.url \in DOMAIN ConfStart /\ (c.op \in Cli!TwoFiles => c.second \in DOMAIN ConfStart)
       /\ c.op = "set" /\ (\A i \in DOMAIN c.args : Len(c.args[i]) # 1) =>
            Cli!Given(c.args) \in Cli!Dict

\* A change set is about known backends, and gives them brokers.
ASSUME UtilsAssumption ==
  /\ Deployed \in Utils!Confs /\ Utils!Wanted \subseteq Type /\ None \notin {"done", "error"}
  /\ \A delta \in ChangeSets : /\ delta.backend \in Utils!Backend \cup {None}
                               /\ \A e \in delta.entries : e.value \in Broker

\* No answer yet is none of the statuses, and messages can be counted.
ASSUME RestAssumption ==
  /\ None \notin {200, 110, 500}
  /\ \A b \in Batches : \A r \in DOMAIN b : b[r].op \in {"iem", "send", "audit"} => b[r].n \in Nat

-----------------------------------------------------------------------------
\* What is chosen at the start of a part is chosen for its own behaviours only.
Init ==
  /\ part \in {"activity", "bundle", "kafka", "consul", "elastic", "openldap", "data",
              "payload", "dir", "cli", "command", "utils", "rest"}
  /\ Activities!Init /\ Bundles!Init /\ Kafka!Init /\ ConsulUnit!Init /\ Elastic!Init
  /\ OpenLdap!Init
  /\ Data!Init /\ (part # "data" => driver = CHOOSE d \in Drivers : TRUE)
  /\ Payloads!Init /\ (part # "payload" => payload = CHOOSE p \in Payload : TRUE)
  /\ Directory!Init /\ Cli!Init
  /\ Setup!Init /\ (part # "command" => /\ host = CHOOSE h \in Hosts : TRUE
                                        /\ input = CHOOSE i \in Inputs : TRUE)
  /\ Utils!Init
  /\ Rest!Init /\ (part # "rest" => request = CHOOSE b \in Batches : TRUE)

Next ==
  \/ /\ part = "activity" /\ Activities!Next
     /\ UNCHANGED <<part, bundleVars, kafkaVars, consulVars, searchVars, ldapVars,
                    dataVars, payloadVars, dirVars, cliVars, commandVars, utilsVars, restVars>>
  \/ /\ part = "bundle" /\ Bundles!Next
     /\ UNCHANGED <<part, activityVars, kafkaVars, consulVars, searchVars, ldapVars,
                    dataVars, payloadVars, dirVars, cliVars, commandVars, utilsVars, restVars>>
  \/ /\ part = "kafka" /\ Kafka!Next
     /\ UNCHANGED <<part, activityVars, bundleVars, consulVars, searchVars, ldapVars,
                    dataVars, payloadVars, dirVars, cliVars, commandVars, utilsVars, restVars>>
  \/ /\ part = "consul" /\ ConsulUnit!Next
     /\ UNCHANGED <<part, activityVars, bundleVars, kafkaVars, searchVars, ldapVars,
                    dataVars, payloadVars, dirVars, cliVars, commandVars, utilsVars, restVars>>
  \/ /\ part = "elastic" /\ Elastic!Next
     /\ UNCHANGED <<part, activityVars, bundleVars, kafkaVars, consulVars, ldapVars,
                    dataVars, payloadVars, dirVars, cliVars, commandVars, utilsVars, restVars>>
  \/ /\ part = "openldap" /\ OpenLdap!Next
     /\ UNCHANGED <<part, activityVars, bundleVars, kafkaVars, consulVars, searchVars,
                    dataVars, payloadVars, dirVars, cliVars, commandVars, utilsVars, restVars>>
  \/ /\ part = "data" /\ Data!Next
     /\ UNCHANGED <<part, activityVars, bundleVars, kafkaVars, consulVars, searchVars,
                    ldapVars, payloadVars, dirVars, cliVars, commandVars, utilsVars, restVars>>
  \/ /\ part = "payload" /\ Payloads!Next
     /\ UNCHANGED <<part, activityVars, bundleVars, kafkaVars, consulVars, searchVars,
                    ldapVars, dataVars, dirVars, cliVars, commandVars, utilsVars, restVars>>
  \/ /\ part = "dir" /\ Directory!Next
     /\ UNCHANGED <<part, activityVars, bundleVars, kafkaVars, consulVars, searchVars,
                    ldapVars, dataVars, payloadVars, cliVars, commandVars, utilsVars, restVars>>
  \/ /\ part = "cli" /\ Cli!Next
     /\ UNCHANGED <<part, activityVars, bundleVars, kafkaVars, consulVars, searchVars,
                    ldapVars, dataVars, payloadVars, dirVars, commandVars, utilsVars, restVars>>
  \/ /\ part = "command" /\ Setup!Next
     /\ UNCHANGED <<part, activityVars, bundleVars, kafkaVars, consulVars, searchVars,
                    ldapVars, dataVars, payloadVars, dirVars, cliVars, utilsVars, restVars>>
  \/ /\ part = "utils" /\ Utils!Next
     /\ UNCHANGED <<part, activityVars, bundleVars, kafkaVars, consulVars, searchVars,
                    ldapVars, dataVars, payloadVars, dirVars, cliVars, commandVars, restVars>>
  \/ /\ part = "rest" /\ Rest!Next
     /\ UNCHANGED <<part, activityVars, bundleVars, kafkaVars, consulVars, searchVars,
                    ldapVars, dataVars, payloadVars, dirVars, cliVars, commandVars, utilsVars>>

Spec == Init /\ [][Next]_vars

-----------------------------------------------------------------------------
(* The properties of the parts.                                            *)

(* A set() takes back nothing that is stored, but for two causes.          *)
FinishedStays == Activities!FinishedStays

(* A support bundle that is reported a success has its archive.            *)
SuccessIsReal == part = "bundle" => Bundles!SuccessIsReal

(* Completed Kafka phases leave properties that agree with the node list.  *)
SetupConsistent == part = "kafka" => Kafka!SetupConsistent

(* Completed Consul phases leave a unit with the file that it needs.       *)
UnitServed == part = "consul" => ConsulUnit!UnitServed

(* Elasticsearch's settings are written once, over whole shipped ones.     *)
EntriesOnce == part = "elastic" => Elastic!EntriesOnce

(* A config of OpenLDAP can be run again after any attempt, unless a file  *)
(* cannot be removed.                                                      *)
ConfigRepeatable == part = "openldap" => OpenLdap!ConfigRepeatable

(* Keys that are set are read back, and the other ones are left alone.     *)
PayloadKept == part = "payload" => Payloads!PayloadKept

(* Keys in a directory stay as they were set, unless calls overlap.        *)
KeysSettled == part = "dir" => Directory!KeysSettled

(* A store() that returns has put its object into the collection, and      *)
(* queries return what their filter, order, offset and limit ask for.      *)
CallsMeant == part = "data" => Data!StoreLands /\ Data!ReadsMeant

(* What is deleted comes back by a store() only.                           *)
DeletedStays == Data!DeletedStays

(* The conf command that wrote last has made of its file what it is for.   *)
CommandLands == part = "cli" => Cli!CommandLands

(* What the checks of a setup phase have seen is enough for its work.      *)
ChecksSuffice == part = "command" => Setup!ChecksSuffice

(* After utils_setup init the message types are there.                     *)
TypesRegistered == part = "utils" => Utils!TypesRegistered

(* REST answers say what has become of the request.                        *)
AnswersTrue == part = "rest" => Rest!AnswersTrue
=============================================================================

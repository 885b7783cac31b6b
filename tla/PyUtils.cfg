SPECIFICATION Spec
CONSTANTS
  q1 = q1
  q2 = q2
  n1 = n1
  n2 = n2
  None = None
  Bad = Bad
  Absent = Absent
  Blank = Blank
  MaxSets = 4
  MaxBundleCrashes = 1
  MaxKafkaPhases = 4
  ConsulDefault = "/etc/consul.d"
  MaxConsulPhases = 3
  MaxElasticPhases = 6
  MaxLdapPhases = 4
  DefaultSize = 2
  MaxDataCalls = 2
  MaxPayloadCalls = 3
  Other = {"1.5"}
  FileValue = {"v", "w"}
  MaxFileCalls = 3
  MaxFileCrashes = 1
  Tree = "tree"
  Falsy = {""}
  MaxConfRuns = 2
  MaxCommands = 2
  MaxChanges = 1
  Broker = {"k1", "k2"}
  Type = {"IEM", "audit_messages"}
  MaxUtilsPhases = 3
  MaxUtilsFaults = 1
  Topics = {"IEM", "audit_messages", "alerts"}
  MaxRestFaults = 1
  Process <- MCProcess
  Node <- MCNode
  ActivityId <- MCActivityId
  Percent <- MCPercent
  Bundle <- MCBundle
  IdOf <- MCIdOf
  Selections <- MCSelections
  KafkaHost = n1
  ServerLists <- MCServerLists
  KafkaCuts <- MCKafkaCuts
  ConsulServers <- MCConsulServers
  ConsulPath <- MCConsulPath
  LdapHosts <- MCLdapHosts
  LdapStuck <- MCLdapStuck
  Filters <- MCFilters
  Requests <- MCRequests
  Drivers <- MCDrivers
  Present <- MCPresent
  Contained <- MCContained
  PayloadKeys <- MCPayloadKeys
  PayloadValues <- MCPayloadValues
  Digit <- MCDigit
  Str <- MCStr
  Num <- MCNum
  Payload <- MCPayload
  FileKey <- MCFileKey
  FileStart <- MCFileStart
  ConfCalls <- MCConfCalls
  ConfStart <- MCConfStart
  ConfKeys <- MCConfKeys
  ConfValues <- MCConfValues
  NumOf <- MCNumOf
  Hosts <- MCHosts
  Inputs <- MCInputs
  Deployed <- MCDeployed
  ChangeSets <- MCChangeSets
  Batches <- MCBatches
PROPERTY FinishedStays
INVARIANT SuccessIsReal
INVARIANT SetupConsistent
INVARIANT UnitServed
INVARIANT EntriesOnce
INVARIANT ConfigRepeatable
INVARIANT PayloadKept
INVARIANT KeysSettled
INVARIANT CallsMeant
INVARIANT CommandLands
INVARIANT ChecksSuffice
INVARIANT TypesRegistered
INVARIANT AnswersTrue
PROPERTY DeletedStays
CHECK_DEADLOCK FALSE

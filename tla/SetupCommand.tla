---------------------------- MODULE SetupCommand ----------------------------
(***************************************************************************)
(* kafka_setup, consul_setup, elasticsearch_setup and openldap_setup: a    *)
(* command is parsed, loads the configuration it is given, checks what its *)
(* phase needs, does the work of the phase and exits.  The phases of Kafka,*)
(* Consul and Elasticsearch and the configuration of the LDAP server are   *)
(* modules of their own; here are the checks before them, the credentials  *)
(* that OpenLDAP's phases keep in openldap_config.yaml, and the exit       *)
(* status.  Software comes and goes and the configuration is replaced at   *)
(* any moment.                                                             *)
(***************************************************************************)
EXTENDS Naturals

CONSTANTS
  Hosts,        \* what there can be on the host: sets of Fact
  Inputs,       \* the configurations that commands are given
  MaxCommands, MaxChanges,
  None

VARIABLES
  host,         \* what there is on the host
  input,        \* the file that --config names
  creds,        \* openldap_config.yaml: a cluster id, and the cluster id that the
                \*   password was encrypted for
  cmd,          \* the command under way
  commands, changes

vars == <<host, input, creds, cmd, commands, changes>>

EINVAL == 22
Fact == {"prereqs_file", "rpms", "pip3s", "files", "network", "plugin_removed"}
Upgrades == {"preupgrade", "postupgrade"}
Basic == {"post_install", "prepare", "config", "init", "test", "reset", "cleanup"}
KafkaPhases == Basic
ConsulPhases == Basic \cup Upgrades
SearchPhases == Basic \cup Upgrades
LdapPhases == Basic \cup Upgrades
Products == {"kafka", "consul", "elasticsearch", "openldap"}

\* A configuration names the keys it has a valid value for, the number of storage
\* sets and those of them whose server_nodes are given.
Key == {"cluster", "hostname", "user", "secret", "count", "nodes", "base_dn", "install_dir",
        "data_dir", "interfaces", "fqdn", "config_path", "data_path"}

Idle == [step |-> "idle"]

Init ==
  /\ host \in Hosts /\ input \in Inputs
  /\ creds = [cluster |-> None, secret |-> None]
  /\ cmd = Idle
  /\ commands = 0 /\ changes = 0

-----------------------------------------------------------------------------
(* main(): the exit status.                                                *)

\* The status for the product's own error: KafkaSetupError.rc is a property and is
\* called, which raises out of main(); Consul's is that of the command that failed.
KafkaError == 1
ConsulError == 1
SearchError == EINVAL
LdapError == EINVAL
SetupError ==
  [kafka |-> KafkaError, consul |-> ConsulError,
   elasticsearch |-> SearchError, openldap |-> LdapError]

\* quit() passes the handlers by, and is an exit with 0.
Status(product, outcome) ==
  CASE outcome \in {"done", "quit"} -> 0
    [] outcome = "usage" -> 2
    [] outcome = "setup_error" -> SetupError[product]
    [] OTHER -> EINVAL

Exit(outcome) ==
  cmd' = [cmd EXCEPT !.step = "ended", !.outcome = outcome, !.status = Status(cmd.product, outcome)]
Goto(step) == cmd' = [cmd EXCEPT !.step = step]

\* Cmd.get_command(): the class of the phase is made, which loads the configuration
\* of --config; only OpenLDAP's upgrade phases need none.  What this ends with, or
\* None.
KafkaCommand(phase, given) ==
  IF phase \notin KafkaPhases THEN "usage" ELSE IF given THEN None ELSE "exception"
ConsulCommand(phase, given) ==
  IF phase \notin ConsulPhases THEN "usage" ELSE IF given THEN None ELSE "exception"
SearchCommand(phase, given) ==
  IF phase \notin SearchPhases THEN "usage" ELSE IF given THEN None ELSE "exception"
LdapCommand(phase, given) ==
  IF phase \notin LdapPhases THEN "usage"
  ELSE IF (given \/ phase \in Upgrades) /\ "prereqs_file" \in host THEN None ELSE "exception"

GetCommand(product, phase, given) ==
  /\ cmd.step \in {"idle", "ended", "killed"} /\ commands < MaxCommands
  /\ commands' = commands + 1
  /\ LET outcome == CASE product = "kafka" -> KafkaCommand(phase, given)
                      [] product = "consul" -> ConsulCommand(phase, given)
                      [] product = "elasticsearch" -> SearchCommand(phase, given)
                      [] product = "openldap" -> LdapCommand(phase, given)
     IN  cmd' = [step |-> IF outcome = None THEN "validate" ELSE "ended",
                 product |-> product, phase |-> phase, seen |-> input, mine |-> None,
                 outcome |-> outcome,
                 status |-> IF outcome = None THEN None ELSE Status(product, outcome)]
  /\ UNCHANGED <<host, input, creds, changes>>

Kill ==
  /\ cmd.step \notin {"idle", "ended", "killed"}
  /\ Goto("killed")
  /\ UNCHANGED <<host, input, creds, commands, changes>>

-----------------------------------------------------------------------------
(* validate(): the packages, files and nodes that a phase looks for.  The  *)
(* services in OpenLDAP's list are looked up, and never found missing.     *)

KafkaChecks(phase) == IF phase = "post_install" THEN {"rpms"} ELSE {}
ConsulChecks(phase) ==
  CASE phase = "post_install" -> {"rpms"} [] phase = "config" -> {"network"} [] OTHER -> {}
SearchChecks(phase) ==
  CASE phase = "post_install" -> {"rpms", "pip3s"}
    [] phase = "config" -> {"plugin_removed"}
    [] OTHER -> {}
LdapChecks(phase) == {"rpms", "pip3s"} \cup IF phase \in Upgrades THEN {"files"} ELSE {}
Prereqs(product, phase) ==
  CASE product = "kafka" -> KafkaChecks(phase)
    [] product = "consul" -> ConsulChecks(phase)
    [] product = "elasticsearch" -> SearchChecks(phase)
    [] product = "openldap" -> LdapChecks(phase)

ConsulKeys(phase) ==
  CASE phase = "config" -> {"interfaces", "fqdn", "config_path", "data_path"}
    [] phase = "cleanup" -> {"config_path", "data_path"}
    [] OTHER -> {}

Validate ==
  /\ cmd.step = "validate"
  /\ IF cmd.product = "consul" /\ ~(ConsulKeys(cmd.phase) \subseteq cmd.seen.keys)
     THEN Exit("exception")
     ELSE IF ~(Prereqs(cmd.product, cmd.phase) \subseteq host)
     THEN Exit(IF cmd.product = "kafka" THEN "setup_error" ELSE "exception")
     ELSE Goto(IF cmd.product = "openldap" THEN "keys" ELSE "work")
  /\ UNCHANGED <<host, input, creds, commands, changes>>

\* openldap_prov_config.yaml: the keys of a phase.
PhaseKeys(phase) ==
  CASE phase = "config" -> {"cluster", "hostname", "user", "secret", "count", "nodes",
                            "base_dn", "install_dir", "data_dir"}
    [] phase = "test" -> {"cluster", "hostname", "user", "secret", "count", "nodes", "base_dn"}
    [] phase = "cleanup" -> {"install_dir", "data_dir"}
    [] OTHER -> {}

PhasesBeforeLess(phase) ==
  CASE phase = "config" -> {"post_install", "prepare"}
    [] phase = "init" -> {"post_install", "prepare"}
    [] OTHER -> {}
\* The phases up to this one; the ones outside of the deployment stand alone.
PhasesBefore(phase) ==
  CASE phase = "post_install" -> {}
    [] phase = "prepare" -> {"post_install"}
    [] phase = "config" -> {"post_install", "prepare"}
    [] phase = "init" -> {"post_install", "prepare", "config"}
    [] OTHER -> {}
PhasesToValidate(phase) == {phase} \cup PhasesBefore(phase)

YardstickList(phase) == UNION {PhaseKeys(ph) : ph \in PhasesToValidate(phase)}

\* storage-set-count in a key stands for the last storage set.
KeyValueVerify(i, key) ==
  /\ key \in i.keys
  /\ key = "nodes" => i.count - 1 \in i.sets
  /\ key \in {"hostname", "nodes"} => "network" \in host

\* Expanding a key needs the cluster id, but for cleanup.
KeysValidate ==
  /\ cmd.step = "keys"
  /\ LET keys == YardstickList(cmd.phase)
     IN  IF /\ keys # {} /\ cmd.phase # "cleanup" => "cluster" \in cmd.seen.keys
            /\ \A key \in keys : KeyValueVerify(cmd.seen, key)
         THEN Goto(IF cmd.phase \in {"config", "test", "reset", "cleanup"} THEN "load" ELSE "work")
         ELSE Exit("exception")
  /\ UNCHANGED <<host, input, creds, commands, changes>>

-----------------------------------------------------------------------------
(* The work of OpenLDAP's phases: SetupCmd loads the configuration again.  *)

LoadAgain ==
  /\ cmd.step = "load"
  /\ cmd' = [cmd EXCEPT !.mine = input,
                        !.step = CASE cmd.phase = "config" -> "cluster_id"
                                   [] cmd.phase = "test" -> "credentials"
                                   [] OTHER -> "use"]
  /\ UNCHANGED <<host, input, creds, commands, changes>>

\* The file must be there; a cluster id that is None is not read back as such.
UpdateClusterId ==
  /\ cmd.step = "cluster_id"
  /\ CASE "files" \notin host -> Exit("exception") /\ UNCHANGED creds
       [] OTHER ->
            /\ creds' = [creds EXCEPT !.cluster = IF "cluster" \in cmd.mine.keys
                                                  THEN cmd.mine.cluster ELSE "None"]
            /\ IF "cluster" \in cmd.mine.keys THEN Goto("credentials") ELSE Exit("missing")
  /\ UNCHANGED <<host, input, commands, changes>>

UpdateCredentials ==
  /\ cmd.step = "credentials"
  /\ IF "secret" \in cmd.mine.keys
     THEN creds' = [creds EXCEPT !.secret = cmd.mine.cluster] /\ Goto("read")
     ELSE Exit("missing") /\ UNCHANGED creds
  /\ UNCHANGED <<host, input, commands, changes>>

\* The password is decrypted with the cluster id of the file.
ReadCredentials ==
  /\ cmd.step = "read"
  /\ IF creds.cluster = creds.secret THEN Goto("use") ELSE Exit("undecrypted")
  /\ UNCHANGED <<host, input, creds, commands, changes>>

\* What the phase reads while it works; the nodes of every storage set.
Used(phase) ==
  CASE phase = "config" -> {"base_dn", "install_dir", "data_dir", "count"}
    [] phase = "test" -> {"base_dn", "count"}
    [] phase = "cleanup" -> {"install_dir", "data_dir"}
    [] OTHER -> {}
Use ==
  /\ cmd.step = "use"
  /\ IF /\ Used(cmd.phase) \subseteq cmd.mine.keys
        /\ "count" \in Used(cmd.phase) =>
             "nodes" \in cmd.mine.keys /\ \A s \in 0..cmd.mine.count - 1 : s \in cmd.mine.sets
     THEN Goto("work") ELSE Exit("missing")
  /\ UNCHANGED <<host, input, creds, commands, changes>>

\* The rest of the phase: done, or something in it fails.  Config and cleanup end
\* with quit() where a command fails; Test looks for entries of the LDAP server;
\* ResetCmd empties log files and only logs that it could not; other phases check
\* and do nothing.
QuitFailures == {"exception", "quit"}
TestFailures == {"exception"}
ResetFailures == {}
Failures(product, phase) ==
  CASE product # "openldap" -> {"exception", "setup_error"}
    [] product = "openldap" /\ phase \in {"config", "cleanup"} -> QuitFailures
    [] product = "openldap" /\ phase = "test" -> TestFailures
    [] product = "openldap" /\ phase = "reset" -> ResetFailures
    [] product = "openldap" /\ phase \in Upgrades -> {"exception"}
    [] OTHER -> {}
Work ==
  /\ cmd.step = "work"
  /\ \E outcome \in {"done"} \cup Failures(cmd.product, cmd.phase) : Exit(outcome)
  /\ UNCHANGED <<host, input, creds, commands, changes>>

-----------------------------------------------------------------------------
\* Something is installed or removed, or the configuration is replaced.
Change ==
  /\ changes < MaxChanges
  /\ changes' = changes + 1
  /\ \/ host' \in Hosts \ {host} /\ UNCHANGED input
     \/ input' \in Inputs \ {input} /\ UNCHANGED host
  /\ UNCHANGED <<creds, cmd, commands>>

Next ==
  \/ \E product \in Products, phase \in Basic \cup Upgrades, given \in BOOLEAN :
       GetCommand(product, phase, given)
  \/ Kill \/ Validate \/ KeysValidate
  \/ LoadAgain \/ UpdateClusterId \/ UpdateCredentials \/ ReadCredentials \/ Use \/ Work
  \/ Change

Spec == Init /\ [][Next]_vars

-----------------------------------------------------------------------------
(* Properties                                                              *)

\* The command under way, or none.
Steps == {"validate", "keys", "load", "cluster_id", "credentials", "read", "use", "work",
          "ended", "killed"}
Outcomes == {"usage", "exception", "setup_error", "missing", "undecrypted", "quit", "done"}
Command ==
  [step : Steps, product : Products, phase : Basic \cup Upgrades, seen : Inputs,
   mine : Inputs \cup {None}, outcome : Outcomes \cup {None}, status : {0, 1, 2, EINVAL, None}]
ClusterIds == {None, "None"} \cup {i.cluster : i \in Inputs}
TypeOK ==
  /\ cmd = Idle \/ cmd \in Command
  /\ creds \in [cluster : ClusterIds, secret : ClusterIds]
  /\ input \in Inputs

\* What OpenLDAP's phases have behind them: every key of the phase was found in the
\* configuration that was checked, the cluster id of config is in the file before
\* its password, and an end in the middle has its cause.
Passed(c) == YardstickList(c.phase) \subseteq c.seen.keys
Incomplete(c) == c.mine # c.seen \/ ~(0..c.mine.count - 1 \subseteq c.mine.sets)
LdapInv ==
  cmd # Idle /\ cmd.product = "openldap" =>
    /\ cmd.step \in {"load", "cluster_id", "credentials", "read", "use", "work"} => Passed(cmd)
    /\ cmd.step \in {"cluster_id", "credentials", "read", "use"} => cmd.mine \in Inputs
    /\ cmd.step \in {"credentials", "read"} => cmd.phase \in {"config", "test"}
    /\ cmd.step = "cluster_id" => cmd.phase = "config"
    /\ cmd.step = "credentials" /\ cmd.phase = "config" => creds.cluster = cmd.mine.cluster
    /\ cmd.step = "read" /\ cmd.phase = "config" => creds.cluster = creds.secret
    /\ cmd.step = "ended" /\ cmd.outcome = "missing" => Incomplete(cmd)
    /\ cmd.step = "ended" /\ cmd.outcome = "undecrypted" => cmd.phase # "config"
    /\ cmd.step = "ended" /\ cmd.status = 0 => Passed(cmd)
LoadsLdap == cmd # Idle /\ cmd.step \in {"keys", "load", "cluster_id", "credentials", "read", "use"} =>
               cmd.product = "openldap"
SetupInv == TypeOK /\ LdapInv /\ LoadsLdap

\* A phase of OpenLDAP whose checks pass is not stopped in the middle of its work
\* by a key that is missing, unless the configuration was replaced in between or
\* lists a storage set but not its nodes; config, which puts the cluster id and
\* the password into a file in two steps and reads them back, finds that they fit
\* together, whatever phases were killed between those steps before; and where a
\* phase of a deployment exits with 0, the keys of the phases before it are there.
ChecksSuffice ==
  cmd.step = "ended" /\ cmd.product = "openldap" /\ cmd.outcome # "usage" =>
    /\ cmd.mine = cmd.seen /\ 0..cmd.mine.count - 1 \subseteq cmd.mine.sets =>
         cmd.outcome # "missing"
    /\ cmd.phase = "config" => cmd.outcome # "undecrypted"
    /\ cmd.status = 0 /\ cmd.phase = "init" => PhaseKeys("config") \subseteq cmd.seen.keys
=============================================================================
